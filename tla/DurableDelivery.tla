--------------------------- MODULE DurableDelivery ---------------------------
(***************************************************************************)
(* What the outbox promises, without workers, leases, queues or webhooks.  *)
(*                                                                         *)
(* Each source has a chain of delivery intentions.  An intention is open   *)
(* until it is settled, and never opens again; its content is chosen once  *)
(* and is the only content ever handed over for it; what is known of its   *)
(* outcome only advances; and the next intention of the chain may start    *)
(* only when this one is settled, so that a source has at most one open    *)
(* intention.                                                              *)
(***************************************************************************)
EXTENDS Naturals

CONSTANTS Sources, MaxGenerations, Contents, NoContent

VARIABLES
    phase,      \* "absent", "open" or "settled"
    content,    \* what the intention sends, once chosen
    handed,     \* the contents the carrier took
    outcome     \* "unknown", "taken" by the carrier, or "final"

dvars == <<phase, content, handed, outcome>>

Intentions == Sources \X (1 .. MaxGenerations)

Init ==
    /\ phase = [d \in Intentions |-> "absent"]
    /\ content = [d \in Intentions |-> NoContent]
    /\ handed = [d \in Intentions |-> {}]
    /\ outcome = [d \in Intentions |-> "unknown"]

\* An outcome is never forgotten, and a final one stays final.
Advances(old, new) ==
    /\ old = "taken" => new # "unknown"
    /\ old = "final" => new = "final"

\* The first intention of a source is recorded with the fact it tells about; it
\* may be fulfilled on the spot.
Record(s) ==
    /\ phase[<<s, 1>>] = "absent"
    /\ \/ /\ phase' = [phase EXCEPT ![<<s, 1>>] = "open"]
          /\ UNCHANGED outcome
       \/ /\ phase' = [phase EXCEPT ![<<s, 1>>] = "settled"]
          /\ outcome' = [outcome EXCEPT ![<<s, 1>>] = "final"]
    /\ UNCHANGED <<content, handed>>

\* A person restarts a settled intention as the next of its chain.
Restart(s, g) ==
    /\ g + 1 \in 1 .. MaxGenerations
    /\ phase[<<s, g>>] = "settled"
    /\ phase[<<s, g + 1>>] = "absent"
    /\ phase' = [phase EXCEPT ![<<s, g + 1>>] = "open"]
    /\ UNCHANGED <<content, handed, outcome>>

ChooseContent(d) ==
    /\ phase[d] = "open" /\ content[d] = NoContent
    /\ \E c \in Contents : content' = [content EXCEPT ![d] = c]
    /\ UNCHANGED <<phase, handed, outcome>>

\* The carrier may take the content again, and late: delivery is not exactly once.
HandOver(d) ==
    /\ content[d] # NoContent
    /\ handed' = [handed EXCEPT ![d] = @ \cup {content[d]}]
    /\ UNCHANGED <<phase, content, outcome>>

Settle(d) ==
    /\ phase[d] # "absent"
    /\ phase' = [phase EXCEPT ![d] = "settled"]
    /\ \E o \in {"unknown", "taken", "final"} :
          /\ Advances(outcome[d], o)
          /\ outcome' = [outcome EXCEPT ![d] = o]
    /\ UNCHANGED <<content, handed>>

Next ==
    \/ \E s \in Sources : Record(s)
    \/ \E s \in Sources, g \in 1 .. MaxGenerations : Restart(s, g)
    \/ \E d \in Intentions : ChooseContent(d) \/ HandOver(d) \/ Settle(d)

Spec == Init /\ [][Next]_dvars

-------------------------------------------------------------------------------
\* One content per intention: the carrier never sees two under the same key.
SingleContent == \A d \in Intentions : handed[d] \subseteq {content[d]} \ {NoContent}

\* The intentions before an open one are settled, those after it do not exist.
ChainOrdered ==
    \A s \in Sources, g, h \in 1 .. MaxGenerations :
        g < h /\ phase[<<s, h>>] # "absent" => phase[<<s, g>>] = "settled"
===============================================================================
