---------------------------- MODULE Guardianship ----------------------------
(***************************************************************************)
(* The links between a student and the guardians, one of which may be the  *)
(* primary one (src/guardians/services.py).                                *)
(*                                                                         *)
(* Students share no link, so one student is modelled.  No command locks   *)
(* the student: each takes the rows of the links it writes, one by one,    *)
(* and every save compares the version it had read.  The seal of imported  *)
(* records, which comes first, is ImportSeal; kinship, custody and pick-up *)
(* are columns nothing here depends on.                                    *)
(***************************************************************************)
EXTENDS Naturals, FiniteSets

CONSTANTS
    Guardians,    \* a link of the student for each
    Secretaries,  \* database sessions
    MaxEdits      \* bound on the versions of a link

VARIABLES
    link,       \* the link of each guardian
    linking     \* the command each session is running

vars == <<link, linking>>

\* An ended link keeps its flag until it is made again.
Links == [status : {"NONE", "LIVE", "ENDED"}, primary : BOOLEAN, version : 0..MaxEdits]
NoLink == [status |-> "NONE", primary |-> FALSE, version |-> 0]

\* own: the link the command is about, and the version read of it; seen: the
\* other primary links still to clear, with their versions; cleared: those done.
Linking == [step : {"READ", "SAVED", "CLEARING"}, own : Guardians, version : 0..MaxEdits,
            primary : BOOLEAN,
            seen : UNION {[some -> 0..MaxEdits] : some \in SUBSET Guardians},
            cleared : SUBSET Guardians]
NotLinking == [step |-> "IDLE"]

Begun(step, g, primary) ==
    [step |-> step, own |-> g, version |-> link[g].version, primary |-> primary,
     seen |-> <<>>, cleared |-> {}]

IsLive(g) == link[g].status = "LIVE"
Primaries == {g \in Guardians : IsLive(g) /\ link[g].primary}

\* The rows an open transaction has written.
Written(k) ==
    IF linking[k].step \in {"SAVED", "CLEARING"}
    THEN {linking[k].own} \cup linking[k].cleared ELSE {}

RowFree(k, g) == \A o \in Secretaries \ {k} : g \notin Written(o)

Init ==
    /\ link = [g \in Guardians |-> NoLink]
    /\ linking = [k \in Secretaries |-> NotLinking]

-----------------------------------------------------------------------------
\* A new row waits for the unique pair of student and guardian, a former one for
\* its lock; either is then written at once.
LinkStudent(k, g, primary) ==
    /\ linking[k] = NotLinking
    /\ RowFree(k, g) /\ ~IsLive(g) /\ link[g].version < MaxEdits
    /\ linking' = [linking EXCEPT ![k] = Begun("SAVED", g, primary)]
    /\ UNCHANGED link

\* update_link reads without a lock ...
BeginUpdateLink(k, g, primary) ==
    /\ linking[k] = NotLinking
    /\ IsLive(g) /\ link[g].version < MaxEdits
    /\ linking' = [linking EXCEPT ![k] = Begun("READ", g, primary)]
    /\ UNCHANGED link

\* ... and its save compares versions under the lock.
SaveOwn(k) ==
    /\ linking[k].step = "READ"
    /\ RowFree(k, linking[k].own)
    /\ link[linking[k].own].version = linking[k].version
    /\ linking' = [linking EXCEPT ![k].step = "SAVED"]
    /\ UNCHANGED link

Rivals(k) == Primaries \ {linking[k].own}

\* _clear_other_primaries: what is committed by now, all read at once.
ReadRivals(k) ==
    /\ linking[k].step = "SAVED"
    /\ LET rivals == IF linking[k].primary THEN Rivals(k) ELSE {}
       IN linking' = [linking EXCEPT ![k].step = "CLEARING",
                                     ![k].seen = [g \in rivals |-> link[g].version]]
    /\ UNCHANGED link

ClearRival(k, g) ==
    /\ linking[k].step = "CLEARING"
    /\ g \in DOMAIN linking[k].seen \ linking[k].cleared
    /\ RowFree(k, g)
    /\ link[g].version = linking[k].seen[g] /\ link[g].version < MaxEdits
    /\ linking' = [linking EXCEPT ![k].cleared = @ \cup {g}]
    /\ UNCHANGED link

CommitLink(k) ==
    /\ linking[k].step = "CLEARING" /\ linking[k].cleared = DOMAIN linking[k].seen
    /\ link' = [g \in Guardians |->
                  IF g \in linking[k].cleared
                  THEN [link[g] EXCEPT !.primary = FALSE, !.version = @ + 1]
                  ELSE IF g = linking[k].own
                  THEN [status |-> "LIVE", primary |-> linking[k].primary,
                        version |-> link[g].version + 1]
                  ELSE link[g]]
    /\ linking' = [linking EXCEPT ![k] = NotLinking]

\* A version that moved on, a row inserted meanwhile, or a deadlock.
AbandonLink(k) ==
    /\ linking[k] # NotLinking
    /\ linking' = [linking EXCEPT ![k] = NotLinking]
    /\ UNCHANGED link

\* soft_delete updates the row only if its version is the one read.
UnlinkStudent(g) ==
    /\ IsLive(g) /\ link[g].version < MaxEdits
    /\ \A k \in Secretaries : g \notin Written(k)
    /\ link' = [link EXCEPT ![g].status = "ENDED", ![g].version = @ + 1]
    /\ UNCHANGED linking

-----------------------------------------------------------------------------
Next ==
    \/ \E k \in Secretaries :
         \/ \E g \in Guardians, primary \in BOOLEAN :
              LinkStudent(k, g, primary) \/ BeginUpdateLink(k, g, primary)
         \/ SaveOwn(k) \/ ReadRivals(k)
         \/ \E g \in Guardians : ClearRival(k, g)
         \/ CommitLink(k) \/ AbandonLink(k)
    \/ \E g \in Guardians : UnlinkStudent(g)

Spec == Init /\ [][Next]_vars

-----------------------------------------------------------------------------
(* Properties                                                              *)

TypeOK ==
    /\ link \in [Guardians -> Links]
    /\ linking \in [Secretaries -> Linking \cup {NotLinking}]

\* What _clear_other_primaries says it ensures: at most one primary link of a
\* student is active.  Two commands that each make a first primary see none to
\* clear.
OnePrimary == Cardinality(Primaries) <= 1
=============================================================================
