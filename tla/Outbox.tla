-------------------------------- MODULE Outbox --------------------------------
(***************************************************************************)
(* The transactional outbox of src/notifications: durable delivery         *)
(* intentions (rows of MessageLog), the workers that claim them under a    *)
(* lease and hand them to the e-mail provider outside the transaction, the *)
(* Beat scan that recovers what the broker or a crash lost, the provider's *)
(* webhooks, the human reprocessing that opens a new generation, and the   *)
(* projection of the outcome on the reminder rows of other apps.           *)
(*                                                                         *)
(* A delivery is <<source, generation>>: the dedupe key of a source gives  *)
(* one row per generation, and the one-to-one previous_delivery makes the  *)
(* generations of a source a chain.  Time is two flags of a row: "leased"  *)
(* is lease_until > now and "waiting" is next_attempt_at > now; the steps  *)
(* LeaseExpires and BackoffElapses are the clock passing those instants.   *)
(***************************************************************************)
EXTENDS Naturals, Sequences

CONSTANTS
    Sources,         \* (source_type, source_id, event, recipient, channel)
    Reminders,       \* the sources that are reminder rows of another app
    Invitations,     \* account invitations: sent whatever the preference
    Workers,         \* Celery worker processes
    Addresses, Senders,
    NoAddress, NoEnvelope, NoDelivery,
    MaxAttempts,     \* three in the code
    MaxGenerations, MaxChanges, MaxCrashes, MaxEvents  \* bounds of the model

ASSUME OutboxAssumption ==
    /\ Reminders \subseteq Sources
    /\ Invitations \subseteq Sources
    /\ NoAddress \notin Addresses
    /\ NoEnvelope \notin [to : Addresses, from : Senders]
    /\ NoDelivery \notin Sources \X (1 .. MaxGenerations)
    /\ MaxAttempts \in Nat \ {0}
    /\ MaxGenerations \in Nat \ {0}
    /\ MaxChanges \in Nat /\ MaxCrashes \in Nat /\ MaxEvents \in Nat

VARIABLES
    channel,    \* the channel each source is delivered by
    log,        \* MessageLog rows, "ABSENT" while they do not exist
    reminder,   \* EnrollmentReminder / CollectionReminder rows
    inbox,      \* notifications created for a source
    signals,    \* deliver_outbox task messages in the broker
    batch,      \* ids a Beat recovery running in a worker still has to visit
    worker,     \* where each worker is in OutboxService.dispatch
    person,     \* the recipient of each source: standing and address
    school,     \* current sender identity, and whether a domain is configured
    accepted,   \* envelopes the provider accepted under the row's key
    emitted,    \* events the provider produced for the row, in order
    receipts,   \* WebhookEventReceipt: events already processed
    changes, crashes

rows   == <<log, reminder, inbox>>
cloud  == <<accepted, emitted, receipts>>
world  == <<channel, person, school, changes>>
vars   == <<channel, log, reminder, inbox, signals, batch, worker, person,
            school, accepted, emitted, receipts, changes, crashes>>

-------------------------------------------------------------------------------
(* Values of the columns.                                                  *)

Deliveries == Sources \X (1 .. MaxGenerations)
Envelopes  == [to : Addresses, from : Senders]

Open       == {"PENDING", "RETRY", "PROCESSING"}
Settled    == {"COMPLETE", "SKIPPED", "FAILED", "REVOKED"}
Confirmed  == {"SENT", "DELIVERED", "DELAYED"}
Undelivered == {"FAILED", "BOUNCED", "SUPPRESSED"}
Final      == Undelivered \cup {"DELIVERED", "COMPLAINED"}
Statuses   == {"PENDING"} \cup Confirmed \cup Final
Standings  == {"ok", "optout", "unactivated", "revoked"}

Events == {"email.sent", "email.delivered", "email.delivery_delayed",
           "email.bounced", "email.suppressed", "email.complained", "email.failed"}

StatusForEvent(e) ==
    CASE e = "email.sent"             -> "SENT"
      [] e = "email.delivered"        -> "DELIVERED"
      [] e = "email.delivery_delayed" -> "DELAYED"
      [] e = "email.bounced"          -> "BOUNCED"
      [] e = "email.suppressed"       -> "SUPPRESSED"
      [] e = "email.complained"       -> "COMPLAINED"
      [] e = "email.failed"           -> "FAILED"

\* event is the instant of the last applied event (its rank in emitted), 0 for
\* none; delivered is delivered_at being set.  A fresh lease token is the
\* number of the claim that drew it.
NewLog(state) ==
    [dispatch |-> state, status |-> "PENDING", attempts |-> 0, token |-> 0,
     leased |-> FALSE, waiting |-> FALSE, envelope |-> NoEnvelope,
     event |-> 0, delivered |-> FALSE]

Inboxed(l) == [l EXCEPT !.dispatch = "COMPLETE", !.status = "DELIVERED",
                        !.delivered = TRUE, !.leased = FALSE]

Idle == [pc |-> "idle", job |-> NoDelivery, token |-> 0,
         envelope |-> NoEnvelope, result |-> "none"]

Busy(w)      == worker[w].pc # "idle"
Consents(s)  == s \in Invitations \/ person[s].standing # "optout"
Reachable(s) == person[s].standing \notin {"revoked", "unactivated"}

PreviousSucceeded(d) ==
    \E g \in 1 .. (d[2] - 1) : log[<<d[1], g>>].status \in Confirmed

-------------------------------------------------------------------------------
(* DeliveryProjectionService                                               *)

Project(l) ==
    IF l.status \in Confirmed THEN "SENT"
    ELSE IF l.dispatch = "FAILED" THEN "FAILED"
    ELSE IF l.dispatch \in {"SKIPPED", "REVOKED"} THEN "SKIPPED"
    ELSE "PENDING"

\* (A slip: any generation's row repaints the reminder.)
SynchronizedAny(d, l) ==
    IF d[1] \in Reminders /\ reminder[d[1]].current # 0
    THEN [reminder EXCEPT ![d[1]].status = Project(l)]
    ELSE reminder

Synchronized(d, l) ==
    IF d[1] \in Reminders /\ reminder[d[1]].current = d[2]
    THEN [reminder EXCEPT ![d[1]].status = Project(l)]
    ELSE reminder

SuccessorAttached(d) ==
    IF d[1] \in Reminders /\ reminder[d[1]].current = d[2]
    THEN [reminder EXCEPT ![d[1]] = [current |-> d[2] + 1, status |-> "PENDING"]]
    ELSE reminder

Persist(d, l) ==
    /\ log' = [log EXCEPT ![d] = l]
    /\ reminder' = Synchronized(d, l)

Skip(d, state) ==
    Persist(d, [log[d] EXCEPT !.dispatch = state, !.leased = FALSE])

-------------------------------------------------------------------------------
Init ==
    /\ channel \in [Sources -> {"EMAIL", "IN_APP"}]
    /\ log = [d \in Deliveries |-> NewLog("ABSENT")]
    /\ reminder = [s \in Sources |-> [current |-> 0, status |-> "PENDING"]]
    /\ inbox = [s \in Sources |-> 0]
    /\ signals = {}
    /\ batch = [w \in Workers |-> {}]
    /\ worker = [w \in Workers |-> Idle]
    /\ person \in [Sources -> [standing : {"ok", "unactivated"}, address : Addresses]]
    /\ school \in [sender : Senders, domain : {TRUE}]
    /\ accepted = [d \in Deliveries |-> {}]
    /\ emitted = [d \in Deliveries |-> <<>>]
    /\ receipts = [d \in Deliveries |-> {}]
    /\ changes = 0 /\ crashes = 0

(***************************************************************************)
(* create_event_deliveries, in the transaction of the business fact.  An   *)
(* active recipient of an in-app notice gets it at once; anything else is  *)
(* only signalled to the broker after the commit.                          *)
(***************************************************************************)
CreateDelivery(s) ==
    LET d   == <<s, 1>>
        now == channel[s] = "IN_APP" /\ person[s].standing # "unactivated"
        l   == IF now THEN Inboxed(NewLog("PENDING")) ELSE NewLog("PENDING")
    IN  /\ log[d].dispatch = "ABSENT"
        /\ person[s].standing # "revoked"
        /\ log' = [log EXCEPT ![d] = l]
        /\ inbox' = [inbox EXCEPT ![s] = @ + (IF now THEN 1 ELSE 0)]
        /\ reminder' = IF s \in Reminders
                       THEN [reminder EXCEPT ![s] = [current |-> 1, status |-> Project(l)]]
                       ELSE reminder
        /\ signals' = IF now THEN signals ELSE signals \cup {d}
        /\ UNCHANGED <<world, cloud, batch, worker, crashes>>

\* The broker may drop a message; the intention stays.
LoseSignal(d) ==
    /\ d \in signals
    /\ signals' = signals \ {d}
    /\ UNCHANGED <<rows, world, cloud, batch, worker, crashes>>

-------------------------------------------------------------------------------
(* claim_delivery: one transaction holding the row's lock.                 *)

\* (A slip: the scan forgets claims whose lease ran out.)
DueIdsUnclaimed ==
    {d \in Deliveries : log[d].dispatch \in {"PENDING", "RETRY"} /\ ~log[d].waiting}

DueIds ==
    {d \in Deliveries :
        \/ log[d].dispatch \in {"PENDING", "RETRY"} /\ ~log[d].waiting
        \/ log[d].dispatch = "PROCESSING" /\ ~log[d].leased}

\* recover_tenant_communications reads the due ids once and then visits each.
BeatScan(w) ==
    /\ ~Busy(w) /\ batch[w] = {} /\ DueIds # {}
    /\ batch' = [batch EXCEPT ![w] = DueIds]
    /\ UNCHANGED <<rows, world, cloud, signals, worker, crashes>>

\* A task message: the broker may deliver it again later.
TakeSignal(w, d) ==
    /\ d \in signals /\ batch[w] = {}
    /\ signals' \in {signals, signals \ {d}}
    /\ UNCHANGED batch

TakeFromBatch(w, d) ==
    /\ d \in batch[w]
    /\ batch' = [batch EXCEPT ![w] = @ \ {d}]
    /\ UNCHANGED signals

\* (A slip: a row nobody holds is claimed whatever its state.)
ClaimableUnheld(d) == ~log[d].leased /\ ~log[d].waiting

Claimable(d) ==
    log[d].dispatch \in Open /\ ~log[d].leased /\ ~log[d].waiting

\* (A slip: one attempt too many.)
ExhaustedLate(d) == log[d].attempts > MaxAttempts

Exhausted(d) == log[d].attempts >= MaxAttempts

\* The early returns of claim_delivery, in their order: the state the row is
\* left in, or "NONE" when the claim goes ahead.
Refusal(d) ==
    LET l == log[d]
        s == d[1]
    IN  IF l.status = "FAILED" THEN "FAILED"
        ELSE IF l.status # "PENDING" THEN "COMPLETE"
        ELSE IF person[s].standing = "revoked" THEN "REVOKED"
        ELSE IF person[s].standing = "unactivated" THEN "SKIPPED"
        ELSE IF channel[s] = "IN_APP" THEN "NONE"
        ELSE IF person[s].address = NoAddress \/ ~Consents(s) THEN "SKIPPED"
        ELSE IF l.envelope # NoEnvelope /\ l.envelope.to # person[s].address THEN "REVOKED"
        ELSE IF Exhausted(d) THEN "FAILED"
        ELSE IF l.envelope = NoEnvelope /\ ~school.domain THEN "FAILED"
        ELSE "NONE"

\* (A slip: a row keeps the token of its first claim.)
KeptToken(d) == 1

FreshToken(d) == log[d].token + 1

\* (A slip: each claim writes the message anew.)
RefreshedEnvelope(d) == [to |-> person[d[1]].address, from |-> school.sender]

\* The content of a message is frozen by its first claim.
FrozenEnvelope(d) ==
    IF log[d].envelope = NoEnvelope
    THEN [to |-> person[d[1]].address, from |-> school.sender]
    ELSE log[d].envelope

ClaimedLog(d) ==
    [log[d] EXCEPT !.dispatch = "PROCESSING", !.leased = TRUE,
                   !.attempts = log[d].attempts + 1, !.token = FreshToken(d),
                   !.envelope = FrozenEnvelope(d)]

ClaimBlocked(d) ==
    /\ PreviousSucceeded(d)
    /\ Skip(d, "SKIPPED")
    /\ UNCHANGED <<inbox, worker>>

ClaimIgnored(d) ==
    /\ ~PreviousSucceeded(d) /\ ~Claimable(d)
    /\ UNCHANGED <<rows, worker>>

ClaimRefused(d) ==
    /\ ~PreviousSucceeded(d) /\ Claimable(d) /\ Refusal(d) # "NONE"
    /\ Skip(d, Refusal(d))
    /\ UNCHANGED <<inbox, worker>>

ClaimInbox(d) ==
    /\ ~PreviousSucceeded(d) /\ Claimable(d) /\ Refusal(d) = "NONE"
    /\ channel[d[1]] = "IN_APP"
    /\ Persist(d, Inboxed(log[d]))
    /\ inbox' = [inbox EXCEPT ![d[1]] = @ + 1]
    /\ UNCHANGED worker

ClaimTaken(w, d) ==
    /\ ~PreviousSucceeded(d) /\ Claimable(d) /\ Refusal(d) = "NONE"
    /\ channel[d[1]] = "EMAIL"
    /\ log' = [log EXCEPT ![d] = ClaimedLog(d)]
    /\ worker' = [worker EXCEPT ![w] =
                     [pc |-> "ancestors", job |-> d, token |-> FreshToken(d),
                      envelope |-> FrozenEnvelope(d), result |-> "none"]]
    /\ UNCHANGED <<reminder, inbox>>

ClaimDelivery(w, d) ==
    /\ ~Busy(w)
    /\ \/ ClaimBlocked(d)
       \/ ClaimIgnored(d)
       \/ ClaimRefused(d)
       \/ ClaimInbox(d)
       \/ ClaimTaken(w, d)
    /\ UNCHANGED <<world, cloud, crashes>>

DispatchSignal(w, d) == TakeSignal(w, d) /\ ClaimDelivery(w, d)
DispatchDue(w, d)    == TakeFromBatch(w, d) /\ ClaimDelivery(w, d)

-------------------------------------------------------------------------------
(* dispatch after the claim: no lock is held, each read is its own step.   *)

Goto(w, pc) == worker' = [worker EXCEPT ![w].pc = pc]

RecheckAncestors(w) ==
    /\ worker[w].pc = "ancestors"
    /\ Goto(w, IF PreviousSucceeded(worker[w].job) THEN "revoke" ELSE "recipient")
    /\ UNCHANGED <<rows, world, cloud, signals, batch, crashes>>

RecheckRecipient(w) ==
    LET s  == worker[w].job[1]
        ok == /\ Reachable(s) /\ Consents(s)
              /\ person[s].address = worker[w].envelope.to
    IN  /\ worker[w].pc = "recipient"
        /\ Goto(w, IF ok THEN "network" ELSE "revoke")
        /\ UNCHANGED <<rows, world, cloud, signals, batch, crashes>>

(***************************************************************************)
(* channel.send.  A changed sender or a refusal of the provider is a       *)
(* permanent failure; a timeout or a 5xx is transient, whether or not the  *)
(* provider took the message.                                              *)
(***************************************************************************)
Send(w) ==
    LET d == worker[w].job IN
    /\ worker[w].pc = "network"
    /\ \/ /\ worker[w].envelope.from = school.sender
          /\ \E result \in {"success", "transient"} :
                worker' = [worker EXCEPT ![w].pc = "finish", ![w].result = result]
          /\ accepted' = [accepted EXCEPT ![d] = @ \cup {worker[w].envelope}]
       \/ /\ \E result \in {"permanent", "transient"} :
                /\ worker[w].envelope.from # school.sender => result = "permanent"
                /\ worker' = [worker EXCEPT ![w].pc = "finish", ![w].result = result]
          /\ UNCHANGED accepted
    /\ UNCHANGED <<rows, world, emitted, receipts, signals, batch, crashes>>

(***************************************************************************)
(* finish_delivery with record_channel_result: fenced by the lease token   *)
(* and by the row still being PROCESSING.                                  *)
(***************************************************************************)
\* (A slip: any worker finishes a claimed row.)
FindsProcessing(w, d) == log[d].dispatch = "PROCESSING"

HoldsLease(w, d) == log[d].token = worker[w].token /\ log[d].dispatch = "PROCESSING"

\* (A slip: a timeout counts as sent.)
OptimisticStatus(l, result) ==
    IF l.status # "PENDING" THEN l.status
    ELSE IF result = "permanent" THEN "FAILED" ELSE "SENT"

RecordedStatus(l, result) ==
    IF l.status # "PENDING" THEN l.status
    ELSE IF result = "success" THEN "SENT"
    ELSE IF result = "permanent" THEN "FAILED"
    ELSE "PENDING"

FinishedLog(l, result) ==
    LET status == RecordedStatus(l, result)
        state  == IF status = "FAILED" THEN "FAILED"
                  ELSE IF status # "PENDING" THEN "COMPLETE"
                  ELSE IF result = "transient" /\ l.attempts < MaxAttempts THEN "RETRY"
                  ELSE "FAILED"
    IN  [l EXCEPT !.status = status, !.dispatch = state, !.leased = FALSE,
                  !.waiting = @ \/ state = "RETRY"]

FinishDelivery(w) ==
    LET d == worker[w].job IN
    /\ worker[w].pc = "finish"
    /\ IF HoldsLease(w, d)
       THEN Persist(d, FinishedLog(log[d], worker[w].result))
       ELSE UNCHANGED <<log, reminder>>
    /\ worker' = [worker EXCEPT ![w] = Idle]
    /\ UNCHANGED <<inbox, world, cloud, signals, batch, crashes>>

\* finish_revoked asks for the token only, not for PROCESSING.
FinishRevoked(w) ==
    LET d == worker[w].job IN
    /\ worker[w].pc = "revoke"
    /\ IF log[d].token = worker[w].token
       THEN Skip(d, "REVOKED")
       ELSE UNCHANGED <<log, reminder>>
    /\ worker' = [worker EXCEPT ![w] = Idle]
    /\ UNCHANGED <<inbox, world, cloud, signals, batch, crashes>>

-------------------------------------------------------------------------------
(* The clock, crashes, and the world around the outbox.                    *)

LeaseExpires(d) ==
    /\ log[d].leased
    /\ log' = [log EXCEPT ![d].leased = FALSE]
    /\ UNCHANGED <<reminder, inbox, world, cloud, signals, batch, worker, crashes>>

BackoffElapses(d) ==
    /\ log[d].waiting
    /\ log' = [log EXCEPT ![d].waiting = FALSE]
    /\ UNCHANGED <<reminder, inbox, world, cloud, signals, batch, worker, crashes>>

\* A worker process dies anywhere: the claim it held is in the row only.
Crash(w) ==
    /\ Busy(w) \/ batch[w] # {}
    /\ crashes < MaxCrashes
    /\ crashes' = crashes + 1
    /\ worker' = [worker EXCEPT ![w] = Idle]
    /\ batch' = [batch EXCEPT ![w] = {}]
    /\ UNCHANGED <<rows, world, cloud, signals>>

ChangePerson(s) ==
    /\ \E p \in [standing : Standings, address : Addresses \cup {NoAddress}] :
          /\ p # person[s]
          /\ p.standing = person[s].standing \/ p.address = person[s].address
          /\ person' = [person EXCEPT ![s] = p]
    /\ UNCHANGED school

ChangeSchool ==
    /\ \/ school' = [school EXCEPT !.domain = ~@]
       \/ \E from \in Senders \ {school.sender} : school' = [school EXCEPT !.sender = from]
    /\ UNCHANGED person

\* Registry edits by people: a role, a custody link, an e-mail, the sender.
Change ==
    /\ changes < MaxChanges
    /\ changes' = changes + 1
    /\ ChangeSchool \/ \E s \in Sources : ChangePerson(s)
    /\ UNCHANGED <<channel, rows, cloud, signals, batch, worker, crashes>>

-------------------------------------------------------------------------------
(* The provider: what it reports about a message it accepted, and how      *)
(* process_resend_event applies a report, in whatever order they arrive.   *)

FollowUps(history) ==
    IF history = <<>> THEN {"email.sent", "email.suppressed"}
    ELSE CASE history[Len(history)] = "email.sent" ->
                {"email.delivered", "email.delivery_delayed", "email.bounced", "email.failed"}
           [] history[Len(history)] = "email.delivery_delayed" ->
                {"email.delivered", "email.bounced"}
           [] history[Len(history)] = "email.delivered" -> {"email.complained"}
           [] OTHER -> {}

ProviderReports(d) ==
    /\ accepted[d] # {} /\ Len(emitted[d]) < MaxEvents
    /\ \E e \in FollowUps(emitted[d]) : emitted' = [emitted EXCEPT ![d] = Append(@, e)]
    /\ UNCHANGED <<rows, world, accepted, receipts, signals, batch, worker, crashes>>

\* (A slip: only the instants are compared.)
NewestEventUpdates(l, status, instant) == instant >= l.event

\* _event_can_update: a final status yields only to another final one, and no
\* event older than the last applied one counts.
EventCanUpdate(l, status, instant) ==
    /\ ~(l.status \in Final /\ status \notin Final)
    /\ instant >= l.event

ReportedLog(l, status, instant) ==
    LET r == IF EventCanUpdate(l, status, instant)
             THEN [l EXCEPT !.status = status, !.event = instant,
                            !.delivered = @ \/ status = "DELIVERED"]
             ELSE l
    IN  IF r.event = 0 THEN r
        ELSE [r EXCEPT !.leased = FALSE,
                       !.dispatch = IF r.status \in Undelivered THEN "FAILED" ELSE "COMPLETE"]

ProcessResendEvent(d, instant) ==
    /\ instant \in 1 .. Len(emitted[d])
    /\ instant \notin receipts[d]      \* WebhookEventReceipt, under the row lock
    /\ receipts' = [receipts EXCEPT ![d] = @ \cup {instant}]
    /\ Persist(d, ReportedLog(log[d], StatusForEvent(emitted[d][instant]), instant))
    /\ UNCHANGED <<inbox, world, accepted, emitted, signals, batch, worker, crashes>>

-------------------------------------------------------------------------------
(* request_delivery_retry: a person who may edit deliveries opens the next *)
(* generation.  A second click finds the successor and returns it.         *)

\* (A slip: a row waiting for its technical retry may be superseded.)
ReprocessableEarly(l) ==
    \/ l.dispatch \in {"RETRY", "FAILED", "SKIPPED", "REVOKED"}
    \/ l.status \in Undelivered

Reprocessable(l) ==
    l.dispatch \in {"FAILED", "SKIPPED", "REVOKED"} \/ l.status \in Undelivered

RequestDeliveryRetry(d) ==
    LET s    == d[1]
        next == <<s, d[2] + 1>>
    IN  /\ next \in Deliveries
        /\ Reprocessable(log[d])
        /\ log[next].dispatch = "ABSENT"
        /\ Reachable(s)
        /\ channel[s] = "EMAIL" => person[s].address # NoAddress /\ Consents(s)
        /\ log' = [log EXCEPT ![next] = NewLog("PENDING")]
        /\ reminder' = SuccessorAttached(d)
        /\ signals' = signals \cup {next}
        /\ UNCHANGED <<inbox, world, cloud, batch, worker, crashes>>

-------------------------------------------------------------------------------
WorkerStep(w) ==
    \/ RecheckAncestors(w)
    \/ RecheckRecipient(w)
    \/ Send(w)
    \/ FinishDelivery(w)
    \/ FinishRevoked(w)

Next ==
    \/ \E s \in Sources : CreateDelivery(s)
    \/ \E d \in Deliveries : LoseSignal(d)
    \/ \E w \in Workers : BeatScan(w)
    \/ \E w \in Workers, d \in Deliveries : DispatchSignal(w, d)
    \/ \E w \in Workers, d \in Deliveries : DispatchDue(w, d)
    \/ \E w \in Workers : WorkerStep(w)
    \/ \E w \in Workers : Crash(w)
    \/ \E d \in Deliveries : LeaseExpires(d)
    \/ \E d \in Deliveries : BackoffElapses(d)
    \/ Change
    \/ \E d \in Deliveries : ProviderReports(d)
    \/ \E d \in Deliveries, instant \in 1 .. MaxEvents : ProcessResendEvent(d, instant)
    \/ \E d \in Deliveries : RequestDeliveryRetry(d)

(***************************************************************************)
(* Beat fires every minute and a live worker runs what it started; the     *)
(* clock passes.  Nothing is assumed of the broker, the provider, people,  *)
(* or of a worker that crashes.                                            *)
(***************************************************************************)
Fairness ==
    /\ \A w \in Workers :
          /\ WF_vars(BeatScan(w))
          /\ WF_vars(\E d \in Deliveries : DispatchDue(w, d))
          /\ WF_vars(WorkerStep(w))
    /\ \A d \in Deliveries : WF_vars(LeaseExpires(d)) /\ WF_vars(BackoffElapses(d))

Spec     == Init /\ [][Next]_vars
FairSpec == Spec /\ Fairness

-------------------------------------------------------------------------------
(* Correctness.                                                            *)

LogType ==
    [dispatch : Open \cup Settled \cup {"ABSENT"}, status : Statuses,
     attempts : 0 .. MaxAttempts, token : 0 .. MaxAttempts,
     leased : BOOLEAN, waiting : BOOLEAN, envelope : Envelopes \cup {NoEnvelope},
     event : 0 .. MaxEvents, delivered : BOOLEAN]

WorkerType ==
    [pc : {"idle", "ancestors", "recipient", "network", "finish", "revoke"},
     job : Deliveries \cup {NoDelivery}, token : 0 .. MaxAttempts,
     envelope : Envelopes \cup {NoEnvelope},
     result : {"none", "success", "transient", "permanent"}]

\* Every variable keeps the values its columns allow: in particular no row is
\* ever claimed more than MaxAttempts times.
TypeOK ==
    /\ channel \in [Sources -> {"EMAIL", "IN_APP"}]
    /\ log \in [Deliveries -> LogType]
    /\ reminder \in [Sources -> [current : 0 .. MaxGenerations,
                                 status : {"PENDING", "SENT", "SKIPPED", "FAILED"}]]
    /\ inbox \in [Sources -> Nat]
    /\ signals \subseteq Deliveries
    /\ batch \in [Workers -> SUBSET Deliveries]
    /\ worker \in [Workers -> WorkerType]
    /\ \A w \in Workers : Busy(w) => worker[w].job \in Deliveries
    /\ person \in [Sources -> [standing : Standings, address : Addresses \cup {NoAddress}]]
    /\ school \in [sender : Senders, domain : BOOLEAN]
    /\ accepted \in [Deliveries -> SUBSET Envelopes]
    /\ emitted \in [Deliveries -> Seq(Events)]
    /\ \A d \in Deliveries : Len(emitted[d]) <= MaxEvents
    /\ receipts \in [Deliveries -> SUBSET (1 .. MaxEvents)]
    /\ changes \in 0 .. MaxChanges /\ crashes \in 0 .. MaxCrashes

(***************************************************************************)
(* The parts of the inductive invariant: what the guards of the handlers   *)
(* together keep true of the rows, the workers and the provider.           *)
(***************************************************************************)

\* The lease token changes with every claim and with nothing else.
TokenCountsClaims == \A d \in Deliveries : log[d].token = log[d].attempts

\* A row that was never created is blank, and nothing refers to it.
AbsentIsBlank ==
    \A d \in Deliveries : log[d].dispatch = "ABSENT" =>
        /\ log[d] = NewLog("ABSENT")
        /\ accepted[d] = {} /\ emitted[d] = <<>> /\ d \notin signals
        /\ \A w \in Workers : d \notin batch[w] /\ (Busy(w) => worker[w].job # d)

\* An intention still open has no recorded outcome: a worker's result and a
\* webhook both close the row they write to.
OpenIsUnanswered ==
    \A d \in Deliveries : log[d].dispatch \in Open => log[d].status = "PENDING"

\* What the provider took for a row, and what a worker is about to send for it,
\* is the envelope frozen in the row.
EnvelopeFrozen ==
    /\ \A d \in Deliveries : accepted[d] \subseteq {log[d].envelope} \ {NoEnvelope}
    /\ \A w \in Workers :
          Busy(w) => /\ log[worker[w].job].envelope = worker[w].envelope
                     /\ worker[w].envelope # NoEnvelope
                     /\ worker[w].token <= log[worker[w].job].token

\* No two workers hold the same claim: a later claim draws a fresh token, and
\* the worker of an expired lease is left with an old one.
ExclusiveClaim ==
    \A v, w \in Workers :
        v # w /\ Busy(v) /\ Busy(w) /\ worker[v].job = worker[w].job
            => worker[v].token # worker[w].token

\* The generations of a source: those before an existing one are settled, so a
\* double click, a late webhook and a recovery never leave two of them open.
OneOpenGeneration ==
    \A s \in Sources, g, h \in 1 .. MaxGenerations :
        g < h /\ log[<<s, h>>].dispatch # "ABSENT" => log[<<s, g>>].dispatch \in Settled

-------------------------------------------------------------------------------

\* ADR-0023: the technical retry reuses key, recipient and payload.  The provider
\* never receives two contents under the key of one row, however leases expire
\* and addresses or senders change in between (claim_delivery, dispatch).
OneContentPerKey == \A d \in Deliveries : \A e, f \in accepted[d] : e = f

\* A row says the provider took the message only if it did: a timeout, a stale
\* worker or a crash never records a success (record_channel_result, webhooks).
SuccessIsReal ==
    \A d \in Deliveries :
        channel[d[1]] = "EMAIL" /\ log[d].status \notin {"PENDING", "FAILED"}
            => accepted[d] # {}

\* One inbox notification per fact, through every generation and redelivered
\* task (_create_inbox is reached from the producer and from any claim).
OneInboxPerSource == \A s \in Sources : inbox[s] <= 1

\* ADR-0024: the reminder row points to the newest generation and shows its
\* state; a late webhook of an older generation does not replace it.
ReminderShowsCurrent ==
    \A s \in Reminders :
        log[<<s, 1>>].dispatch # "ABSENT" =>
            LET g == reminder[s].current IN
            /\ <<s, g>> \in Deliveries
            /\ reminder[s].status = Project(log[<<s, g>>])
            /\ \A h \in 1 .. MaxGenerations : log[<<s, h>>].dispatch # "ABSENT" <=> h <= g

\* ADR-0014 and ADR-0023: webhooks out of order, and the worker's own result
\* arriving after them, never make the provider's state regress.
ProviderStateNeverRegresses ==
    [][\A d \in Deliveries :
         /\ log[d].status \in Final => log'[d].status \in Final
         /\ log[d].status \in Confirmed => log'[d].status # "PENDING"
         /\ log[d].event <= log'[d].event]_vars

\* ADR-0023: the lease keeps other workers out.  While it runs, the row leaves
\* its claim only by the hand of the worker that holds it, by a webhook, or
\* because an earlier generation was confirmed.
LiveLeaseRespected ==
    [][\A d \in Deliveries :
         /\ log[d].dispatch = "PROCESSING" /\ log[d].leased
         /\ <<log'[d].dispatch, log'[d].token>> # <<log[d].dispatch, log[d].token>>
         => \/ receipts'[d] # receipts[d]
            \/ PreviousSucceeded(d) /\ log'[d].dispatch = "SKIPPED"
            \/ \E w \in Workers : /\ worker[w].job = d /\ worker[w].token = log[d].token
                                  /\ worker'[w] = Idle]_vars

\* ADR-0023: Beat recovers what the broker lost, what a crashed worker left
\* claimed and what waits for its retry: no intention stays open for ever.
EventuallySettled ==
    \A d \in Deliveries : log[d].dispatch \in Open ~> log[d].dispatch \notin Open

(***************************************************************************)
(* The outbox implements DurableDelivery.                                  *)
(***************************************************************************)
Phase(l) ==
    IF l.dispatch = "ABSENT" THEN "absent"
    ELSE IF l.dispatch \in Open THEN "open" ELSE "settled"

Outcome(l) ==
    IF l.status = "PENDING" THEN "unknown"
    ELSE IF l.status \in Final THEN "final" ELSE "taken"

Promise == INSTANCE DurableDelivery WITH
    Contents  <- Envelopes,
    NoContent <- NoEnvelope,
    phase     <- [d \in Deliveries |-> Phase(log[d])],
    content   <- [d \in Deliveries |-> log[d].envelope],
    handed    <- accepted,
    outcome   <- [d \in Deliveries |-> Outcome(log[d])]

\* Every behaviour of workers, broker, provider and people is one of
\* DurableDelivery: settled rows never reopen, contents and outcomes are stable,
\* and a new generation needs a settled one.
ImplementsPromise == Promise!Spec

-------------------------------------------------------------------------------
\* outbox_reprocessing_services.py says "Somente entregas não concluídas podem
\* ser reprocessadas": a delivered row is never given a successor.
DeliveredIsNotReprocessed ==
    [][\A s \in Sources, g \in 1 .. (MaxGenerations - 1) :
         log[<<s, g + 1>>].dispatch = "ABSENT" /\ log'[<<s, g + 1>>].dispatch # "ABSENT"
             => log[<<s, g>>].status # "DELIVERED"]_vars

\* ADR-0023: "Uma confirmação tardia de sucesso em qualquer geração anterior
\* bloqueia o próximo envio": no claim for sending once an earlier generation
\* has delivered_at.
ConfirmationBlocksNextSend ==
    [][\A s \in Sources, g, h \in 1 .. MaxGenerations :
         g < h /\ log[<<s, g>>].delivered => log'[<<s, h>>].token = log[<<s, h>>].token]_vars

===============================================================================
