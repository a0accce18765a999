----------------------------- MODULE OutboxProofs -----------------------------
(***************************************************************************)
(* Theorems of Outbox, for every set of sources, workers, addresses and    *)
(* senders and every bound.  Core is the inductive invariant of the rows,  *)
(* the workers and the provider; the other invariants are proved on top.   *)
(***************************************************************************)
EXTENDS Outbox, TLAPS

Core == TypeOK /\ TokenCountsClaims /\ AbsentIsBlank /\ OpenIsUnanswered /\ EnvelopeFrozen

-------------------------------------------------------------------------------
(* Facts about the operators the actions are built from.                   *)

\* A delivery is a source and one of its generations.
LEMMA DeliveryParts ==
    ASSUME NEW d \in Deliveries
    PROVE  d[1] \in Sources /\ d[2] \in 1 .. MaxGenerations /\ d = <<d[1], d[2]>>
BY DEF Deliveries

LEMMA FirstGeneration ==
    ASSUME NEW s \in Sources
    PROVE  <<s, 1>> \in Deliveries
BY OutboxAssumption DEF Deliveries

\* Every event the provider may report has a status.
LEMMA EventStatus ==
    ASSUME NEW e \in Events
    PROVE  StatusForEvent(e) \in Statuses \ {"PENDING"}
BY DEF Events, StatusForEvent, Statuses, Confirmed, Final, Undelivered

\* A row a worker finished, a webhook updated or an inbox notice closed is a row.
LEMMA InboxedType ==
    ASSUME NEW l \in LogType
    PROVE  Inboxed(l) \in LogType
BY DEF LogType, Inboxed, Open, Settled, Statuses, Confirmed, Final, Undelivered

LEMMA NewLogType ==
    ASSUME NEW state \in {"ABSENT", "PENDING"}
    PROVE  NewLog(state) \in LogType
BY OutboxAssumption DEF NewLog, LogType, Open, Settled, Statuses

LEMMA FinishedLogType ==
    ASSUME NEW l \in LogType, NEW result \in {"none", "success", "transient", "permanent"}
    PROVE  FinishedLog(l, result) \in LogType
<1> DEFINE status == RecordedStatus(l, result)
           state  == IF status = "FAILED" THEN "FAILED"
                     ELSE IF status # "PENDING" THEN "COMPLETE"
                     ELSE IF result = "transient" /\ l.attempts < MaxAttempts THEN "RETRY"
                     ELSE "FAILED"
           waiting == l.waiting \/ state = "RETRY"
<1>1. status \in Statuses
  BY DEF LogType, RecordedStatus, Statuses, Confirmed, Final, Undelivered
<1>2. state \in Open \cup Settled
  BY DEF Open, Settled
<1>3. waiting \in BOOLEAN
  OBVIOUS
<1>4. FinishedLog(l, result) = [l EXCEPT !.status = status, !.dispatch = state,
                                         !.leased = FALSE, !.waiting = waiting]
  BY Zenon DEF FinishedLog
<1> HIDE DEF status, state, waiting
<1> QED BY <1>1, <1>2, <1>3, <1>4 DEF LogType

LEMMA ReportedLogType ==
    ASSUME NEW l \in LogType, NEW status \in Statuses \ {"PENDING"}, NEW instant \in 1 .. MaxEvents
    PROVE  ReportedLog(l, status, instant) \in LogType
<1> DEFINE delivered == l.delivered \/ status = "DELIVERED"
           updated == [l EXCEPT !.status = status, !.event = instant, !.delivered = delivered]
           r == IF EventCanUpdate(l, status, instant) THEN updated ELSE l
           state == IF r.status \in Undelivered THEN "FAILED" ELSE "COMPLETE"
<1>1. delivered \in BOOLEAN
  OBVIOUS
<1>2. updated \in LogType
  <2>1. instant \in 0 .. MaxEvents
    BY OutboxAssumption
  <2> HIDE DEF delivered
  <2> QED BY <1>1, <2>1 DEF LogType
<1>3. r \in LogType
  BY <1>2
<1>4. state \in Settled
  BY DEF Settled
<1>5. ReportedLog(l, status, instant) =
        IF r.event = 0 THEN r ELSE [r EXCEPT !.leased = FALSE, !.dispatch = state]
  BY Zenon DEF ReportedLog
<1>6. ASSUME NEW x \in LogType, NEW closed \in Settled
      PROVE  [x EXCEPT !.leased = FALSE, !.dispatch = closed] \in LogType
  BY DEF LogType
<1> HIDE DEF r, state
<1> QED BY <1>3, <1>4, <1>5, <1>6

LEMMA RefusalType ==
    ASSUME NEW d \in Deliveries, Refusal(d) # "NONE"
    PROVE  Refusal(d) \in Settled
BY DEF Refusal, Settled

LEMMA ProjectType ==
    ASSUME NEW l
    PROVE  Project(l) \in {"PENDING", "SENT", "SKIPPED", "FAILED"}
BY DEF Project

-------------------------------------------------------------------------------
(* The initial states.                                                     *)

LEMMA CoreInit == Init => Core
<1> SUFFICES ASSUME Init PROVE Core
  OBVIOUS
<1> USE DEF Init
<1>1. log = [d \in Deliveries |-> NewLog("ABSENT")] /\ log \in [Deliveries -> LogType]
  BY NewLogType
<1>2. worker \in [Workers -> WorkerType] /\ \A w \in Workers : ~Busy(w)
  BY OutboxAssumption DEF Idle, WorkerType, Busy
<1>3. /\ reminder \in [Sources -> [current : 0 .. MaxGenerations,
                                   status : {"PENDING", "SENT", "SKIPPED", "FAILED"}]]
      /\ inbox \in [Sources -> Nat]
      /\ batch \in [Workers -> SUBSET Deliveries]
  BY OutboxAssumption
<1>4. person \in [Sources -> [standing : Standings, address : Addresses \cup {NoAddress}]]
  BY DEF Standings
<1>5. school \in [sender : Senders, domain : BOOLEAN]
  OBVIOUS
<1>6. /\ accepted \in [Deliveries -> SUBSET Envelopes]
      /\ emitted \in [Deliveries -> Seq(Events)]
      /\ \A d \in Deliveries : Len(emitted[d]) <= MaxEvents
      /\ receipts \in [Deliveries -> SUBSET (1 .. MaxEvents)]
  BY OutboxAssumption
<1>7. TypeOK
  BY <1>1, <1>2, <1>3, <1>4, <1>5, <1>6, OutboxAssumption DEF TypeOK
<1>8. TokenCountsClaims /\ OpenIsUnanswered
  BY <1>1 DEF TokenCountsClaims, OpenIsUnanswered, NewLog
<1>9. AbsentIsBlank
  BY <1>1, <1>2 DEF AbsentIsBlank
<1>10. EnvelopeFrozen
  BY <1>2 DEF EnvelopeFrozen
<1> QED BY <1>7, <1>8, <1>9, <1>10 DEF Core

-------------------------------------------------------------------------------
(* Steps that rewrite one row.  RowOK is what Core asks of a row by itself; *)
(* SameClaim is what a step other than a claim leaves of it.                *)

ReminderType ==
    [current : 0 .. MaxGenerations, status : {"PENDING", "SENT", "SKIPPED", "FAILED"}]

RowOK(l) ==
    /\ l \in LogType
    /\ l.token = l.attempts
    /\ l.dispatch # "ABSENT"
    /\ l.dispatch \in Open => l.status = "PENDING"

SameClaim(l, m) == l.token = m.token /\ l.envelope = m.envelope

LEMMA SynchronizedType ==
    ASSUME TypeOK, NEW d \in Deliveries, NEW l
    PROVE  Synchronized(d, l) \in [Sources -> ReminderType]
BY ProjectType, DeliveryParts DEF Synchronized, TypeOK, ReminderType

\* A row rewritten without a claim, while the workers stay or are released and
\* no queue grows.
LEMMA RowRewritten ==
    ASSUME Core, NEW d \in Deliveries, NEW l, log[d].dispatch # "ABSENT",
           RowOK(l), SameClaim(l, log[d]),
           log' = [log EXCEPT ![d] = l],
           accepted' = accepted, emitted' = emitted,
           signals' \subseteq signals, \A w \in Workers : batch'[w] \subseteq batch[w],
           worker' = worker \/ \E w \in Workers : worker' = [worker EXCEPT ![w] = Idle]
    PROVE  /\ log' \in [Deliveries -> LogType]
           /\ worker' \in [Workers -> WorkerType]
           /\ \A w \in Workers : Busy(w)' => worker'[w].job \in Deliveries
           /\ TokenCountsClaims' /\ AbsentIsBlank' /\ OpenIsUnanswered' /\ EnvelopeFrozen'
<1>1. log' \in [Deliveries -> LogType]
  BY DEF Core, TypeOK, RowOK
<1>2. Idle \in WorkerType /\ Idle.pc = "idle"
  BY OutboxAssumption DEF Idle, WorkerType
<1>3. /\ worker' \in [Workers -> WorkerType]
      /\ \A w \in Workers : Busy(w)' => Busy(w) /\ worker'[w] = worker[w]
  <2>1. CASE worker' = worker
    BY <2>1 DEF Core, TypeOK, Busy
  <2>2. CASE \E w \in Workers : worker' = [worker EXCEPT ![w] = Idle]
    <3> PICK v \in Workers : worker' = [worker EXCEPT ![v] = Idle]
      BY <2>2
    <3>1. worker' \in [Workers -> WorkerType]
      BY <1>2 DEF Core, TypeOK
    <3>2. \A w \in Workers : w # v => worker'[w] = worker[w]
      BY DEF Core, TypeOK
    <3>3. ~Busy(v)'
      BY <1>2 DEF Core, TypeOK, Busy
    <3> QED BY <3>1, <3>2, <3>3 DEF Busy
  <2> QED BY <2>1, <2>2
<1>4. \A w \in Workers : Busy(w)' => worker'[w].job \in Deliveries
  BY <1>3 DEF Core, TypeOK
<1>5. TokenCountsClaims' /\ OpenIsUnanswered'
  BY DEF Core, TypeOK, TokenCountsClaims, OpenIsUnanswered, RowOK
<1>6. \A e \in Deliveries : SameClaim(log'[e], log[e])
  BY DEF Core, TypeOK, SameClaim
<1>7. EnvelopeFrozen'
  BY <1>3, <1>4, <1>6 DEF Core, EnvelopeFrozen, SameClaim
<1>8. \A e \in Deliveries : log'[e].dispatch = "ABSENT" =>
          log[e].dispatch = "ABSENT" /\ log'[e] = log[e]
  BY DEF Core, TypeOK, RowOK
<1>9. AbsentIsBlank'
  BY <1>3, <1>8 DEF Core, AbsentIsBlank
<1> QED BY <1>1, <1>3, <1>4, <1>5, <1>7, <1>9

\* A row settled without a new claim.
LEMMA SkippedRow ==
    ASSUME Core, NEW d \in Deliveries, log[d].dispatch # "ABSENT", NEW state \in Settled
    PROVE  LET l == [log[d] EXCEPT !.dispatch = state, !.leased = FALSE]
           IN  RowOK(l) /\ SameClaim(l, log[d])
<1>1. log[d] \in LogType
  BY DEF Core, TypeOK
<1>2. state \notin Open /\ state # "ABSENT"
  BY DEF Open, Settled
<1> QED BY <1>1, <1>2 DEF Core, RowOK, SameClaim, LogType, TokenCountsClaims

-------------------------------------------------------------------------------
(* Every step keeps Core: one lemma for the claims, one per other group.   *)

LEMMA CreateKeepsCore ==
    ASSUME Core, NEW s \in Sources, CreateDelivery(s)
    PROVE  Core'
<1> DEFINE d   == <<s, 1>>
           now == channel[s] = "IN_APP" /\ person[s].standing # "unactivated"
           l   == IF now THEN Inboxed(NewLog("PENDING")) ELSE NewLog("PENDING")
<1>1. d \in Deliveries
  BY FirstGeneration
<1>2. /\ log[d].dispatch = "ABSENT"
      /\ log' = [log EXCEPT ![d] = l]
      /\ inbox' = [inbox EXCEPT ![s] = @ + (IF now THEN 1 ELSE 0)]
      /\ reminder' = IF s \in Reminders
                     THEN [reminder EXCEPT ![s] = [current |-> 1, status |-> Project(l)]]
                     ELSE reminder
      /\ signals' = IF now THEN signals ELSE signals \cup {d}
      /\ UNCHANGED <<world, cloud, batch, worker, crashes>>
  BY DEF CreateDelivery
<1>3. /\ l \in LogType /\ l.token = l.attempts /\ l.dispatch # "ABSENT"
      /\ l.dispatch \in Open => l.status = "PENDING"
  BY NewLogType, InboxedType DEF NewLog, Inboxed, Open
<1> HIDE DEF l, now
<1>4. reminder' \in [Sources -> ReminderType] /\ inbox' \in [Sources -> Nat]
  BY <1>2, ProjectType, OutboxAssumption DEF Core, TypeOK, ReminderType
<1>5. TypeOK'
  BY <1>1, <1>2, <1>3, <1>4
     DEF Core, TypeOK, ReminderType, world, cloud, Busy
<1>6. TokenCountsClaims' /\ OpenIsUnanswered'
  BY <1>1, <1>2, <1>3 DEF Core, TypeOK, TokenCountsClaims, OpenIsUnanswered
<1>7. AbsentIsBlank'
  BY <1>1, <1>2, <1>3 DEF Core, TypeOK, AbsentIsBlank, world, cloud, Busy
<1>8. EnvelopeFrozen'
  BY <1>1, <1>2 DEF Core, TypeOK, EnvelopeFrozen, AbsentIsBlank, world, cloud, Busy
<1> QED BY <1>5, <1>6, <1>7, <1>8 DEF Core

\* A row rewritten with its projection, and only that.
LEMMA PersistKeepsCore ==
    ASSUME Core, NEW d \in Deliveries, NEW l, log[d].dispatch # "ABSENT",
           RowOK(l), SameClaim(l, log[d]),
           Persist(d, l), inbox' \in [Sources -> Nat],
           UNCHANGED <<world, accepted, emitted, crashes>>,
           receipts' \in [Deliveries -> SUBSET (1 .. MaxEvents)],
           signals' \subseteq signals,
           batch' \in [Workers -> SUBSET Deliveries],
           \A w \in Workers : batch'[w] \subseteq batch[w],
           worker' = worker \/ \E w \in Workers : worker' = [worker EXCEPT ![w] = Idle]
    PROVE  Core'
<1>1. log' = [log EXCEPT ![d] = l] /\ reminder' \in [Sources -> ReminderType]
  BY SynchronizedType DEF Persist, Core
<1>2. /\ log' \in [Deliveries -> LogType]
      /\ worker' \in [Workers -> WorkerType]
      /\ \A w \in Workers : Busy(w)' => worker'[w].job \in Deliveries
      /\ TokenCountsClaims' /\ AbsentIsBlank' /\ OpenIsUnanswered' /\ EnvelopeFrozen'
  BY <1>1, RowRewritten
<1>3. TypeOK'
  BY <1>1, <1>2 DEF Core, TypeOK, ReminderType, world
<1> QED BY <1>2, <1>3 DEF Core

\* Steps that leave the rows, the workers' jobs and the provider's record alone.
LEMMA QuietKeepsCore ==
    ASSUME Core, UNCHANGED <<channel, log, reminder, inbox, accepted, emitted, receipts>>,
           signals' \subseteq signals,
           batch' \in [Workers -> SUBSET Deliveries],
           \A w \in Workers, d \in Deliveries :
               d \in batch'[w] => log[d].dispatch # "ABSENT",
           worker' = worker \/ \E w \in Workers : worker' = [worker EXCEPT ![w] = Idle],
           person' \in [Sources -> [standing : Standings, address : Addresses \cup {NoAddress}]],
           school' \in [sender : Senders, domain : BOOLEAN],
           changes' \in 0 .. MaxChanges, crashes' \in 0 .. MaxCrashes
    PROVE  Core'
<1>1. Idle \in WorkerType /\ Idle.pc = "idle"
  BY OutboxAssumption DEF Idle, WorkerType
<1>2. /\ worker' \in [Workers -> WorkerType]
      /\ \A w \in Workers : Busy(w)' => Busy(w) /\ worker'[w] = worker[w]
  <2>1. CASE worker' = worker
    BY <2>1 DEF Core, TypeOK, Busy
  <2>2. CASE \E w \in Workers : worker' = [worker EXCEPT ![w] = Idle]
    <3> PICK v \in Workers : worker' = [worker EXCEPT ![v] = Idle]
      BY <2>2
    <3>1. worker' \in [Workers -> WorkerType]
      BY <1>1 DEF Core, TypeOK
    <3>2. \A w \in Workers : w # v => worker'[w] = worker[w]
      BY DEF Core, TypeOK
    <3>3. ~Busy(v)'
      BY <1>1 DEF Core, TypeOK, Busy
    <3> QED BY <3>1, <3>2, <3>3 DEF Busy
  <2> QED BY <2>1, <2>2
<1>3. TypeOK'
  BY <1>2 DEF Core, TypeOK
<1>4. TokenCountsClaims' /\ OpenIsUnanswered'
  BY DEF Core, TokenCountsClaims, OpenIsUnanswered
<1>5. AbsentIsBlank'
  BY <1>2 DEF Core, AbsentIsBlank
<1>6. EnvelopeFrozen'
  BY <1>2 DEF Core, EnvelopeFrozen
<1> QED BY <1>3, <1>4, <1>5, <1>6 DEF Core

\* The frozen envelope of a claim that goes ahead.
LEMMA FrozenEnvelopeType ==
    ASSUME TypeOK, NEW d \in Deliveries, Refusal(d) = "NONE", channel[d[1]] = "EMAIL"
    PROVE  /\ FrozenEnvelope(d) \in Envelopes
           /\ log[d].envelope # NoEnvelope => FrozenEnvelope(d) = log[d].envelope
           /\ log[d].attempts < MaxAttempts
           /\ log[d].status = "PENDING"
<1>1. d[1] \in Sources
  BY DeliveryParts
<1>2. /\ log[d].status = "PENDING" /\ person[d[1]].address # NoAddress /\ ~Exhausted(d)
  BY DEF Refusal
<1>3. person[d[1]].address \in Addresses /\ school.sender \in Senders
  BY <1>1, <1>2 DEF TypeOK
<1>4. log[d].attempts \in 0 .. MaxAttempts /\ log[d].envelope \in Envelopes \cup {NoEnvelope}
  BY DEF TypeOK, LogType
<1>5. log[d].attempts < MaxAttempts
  BY <1>2, <1>4, OutboxAssumption DEF Exhausted
<1> QED BY <1>2, <1>3, <1>4, <1>5 DEF FrozenEnvelope, Envelopes

LEMMA TakenKeepsCore ==
    ASSUME Core, NEW w \in Workers, NEW d \in Deliveries, log[d].dispatch # "ABSENT",
           ClaimTaken(w, d), ~Busy(w), UNCHANGED <<world, cloud, crashes>>,
           signals' \subseteq signals,
           batch' \in [Workers -> SUBSET Deliveries],
           \A v \in Workers : batch'[v] \subseteq batch[v]
    PROVE  Core'
<1> DEFINE e == FrozenEnvelope(d)
           l == ClaimedLog(d)
           j == [pc |-> "ancestors", job |-> d, token |-> log[d].token + 1,
                 envelope |-> e, result |-> "none"]
<1>1. /\ Refusal(d) = "NONE" /\ channel[d[1]] = "EMAIL"
      /\ log' = [log EXCEPT ![d] = l] /\ worker' = [worker EXCEPT ![w] = j]
      /\ UNCHANGED <<reminder, inbox>>
  BY DEF ClaimTaken, FreshToken
<1>2. /\ e \in Envelopes /\ e # NoEnvelope
      /\ log[d].envelope # NoEnvelope => e = log[d].envelope
      /\ log[d].attempts < MaxAttempts /\ log[d].status = "PENDING"
  BY <1>1, FrozenEnvelopeType, OutboxAssumption DEF Core, Envelopes
<1> HIDE DEF e
<1>3. log[d] \in LogType /\ log[d].token = log[d].attempts
  BY DEF Core, TypeOK, TokenCountsClaims
<1>4. /\ l \in LogType /\ l.token = l.attempts /\ l.token = log[d].token + 1
      /\ l.envelope = e /\ l.status = "PENDING" /\ l.dispatch = "PROCESSING"
  <2>1. l = [log[d] EXCEPT !.dispatch = "PROCESSING", !.leased = TRUE,
                           !.attempts = log[d].attempts + 1, !.token = log[d].token + 1,
                           !.envelope = e]
    BY DEF ClaimedLog, FreshToken, e
  <2>2. log[d].attempts + 1 \in 0 .. MaxAttempts /\ log[d].token + 1 \in 0 .. MaxAttempts
    BY <1>2, <1>3, OutboxAssumption DEF LogType
  <2>3. log[d].token + 1 = log[d].attempts + 1
    BY <1>3
  <2> HIDE DEF l
  <2> QED BY <1>2, <1>3, <2>1, <2>2, <2>3 DEF LogType, Open
<1>5. j \in WorkerType /\ j.pc # "idle" /\ j.job = d /\ j.envelope = e /\ j.token = l.token
  BY <1>2, <1>3, <1>4, OutboxAssumption DEF WorkerType, LogType
<1> HIDE DEF l, j
<1>6. TypeOK'
  BY <1>1, <1>4, <1>5 DEF Core, TypeOK, world, cloud, Busy
<1>7. TokenCountsClaims' /\ OpenIsUnanswered'
  BY <1>1, <1>4 DEF Core, TypeOK, TokenCountsClaims, OpenIsUnanswered
<1>8. AbsentIsBlank'
  BY <1>1, <1>4, <1>5 DEF Core, TypeOK, AbsentIsBlank, world, cloud, Busy
<1>9. EnvelopeFrozen'
  <2>1. accepted' = accepted
    BY DEF cloud
  <2>2. accepted[d] \subseteq {e} \ {NoEnvelope}
    BY <1>2, <1>3 DEF Core, EnvelopeFrozen
  <2>3. \A v \in Workers : v # w /\ Busy(v) /\ worker[v].job = d =>
            worker[v].envelope = e /\ worker[v].token <= l.token
    BY <1>2, <1>3, <1>4 DEF Core, EnvelopeFrozen, TypeOK, WorkerType, LogType
  <2>4. \A v \in Workers : v # w => worker'[v] = worker[v] /\ (Busy(v)' <=> Busy(v))
    BY <1>1 DEF Core, TypeOK, Busy
  <2>5. \A f \in Deliveries : f # d => log'[f] = log[f]
    BY <1>1 DEF Core, TypeOK
  <2>6. log'[d] = l /\ worker'[w] = j
    BY <1>1 DEF Core, TypeOK
  <2>7. \A f \in Deliveries : accepted'[f] \subseteq {log'[f].envelope} \ {NoEnvelope}
    BY <2>1, <2>2, <2>5, <2>6, <1>4 DEF Core, EnvelopeFrozen
  <2>8. \A v \in Workers :
          Busy(v)' => /\ log'[worker'[v].job].envelope = worker'[v].envelope
                      /\ worker'[v].envelope # NoEnvelope
                      /\ worker'[v].token <= log'[worker'[v].job].token
    <3> SUFFICES ASSUME NEW v \in Workers, Busy(v)'
                 PROVE  /\ log'[worker'[v].job].envelope = worker'[v].envelope
                        /\ worker'[v].envelope # NoEnvelope
                        /\ worker'[v].token <= log'[worker'[v].job].token
      OBVIOUS
    <3>1. CASE v = w
      BY <3>1, <2>6, <1>2, <1>3, <1>4, <1>5 DEF LogType
    <3>2. CASE v # w /\ worker[v].job = d
      BY <3>2, <2>3, <2>4, <2>6, <1>2, <1>4
    <3>3. CASE v # w /\ worker[v].job # d
      BY <3>3, <2>4, <2>5 DEF Core, TypeOK, EnvelopeFrozen
    <3> QED BY <3>1, <3>2, <3>3
  <2> QED BY <2>7, <2>8 DEF EnvelopeFrozen
<1> QED BY <1>6, <1>7, <1>8, <1>9 DEF Core

\* claim_delivery, by its outcome.
LEMMA ClaimKeepsCore ==
    ASSUME Core, NEW w \in Workers, NEW d \in Deliveries, log[d].dispatch # "ABSENT",
           ClaimDelivery(w, d),
           signals' \subseteq signals,
           batch' \in [Workers -> SUBSET Deliveries],
           \A v \in Workers : batch'[v] \subseteq batch[v]
    PROVE  Core'
<1> USE DEF ClaimDelivery
<1>0. UNCHANGED <<world, accepted, emitted, receipts, crashes>>
  BY DEF cloud
<1>1. inbox \in [Sources -> Nat] /\ receipts \in [Deliveries -> SUBSET (1 .. MaxEvents)]
  BY DEF Core, TypeOK
<1>2. ASSUME NEW state \in Settled, Skip(d, state), UNCHANGED <<inbox, worker>>
      PROVE  Core'
  <2> DEFINE l == [log[d] EXCEPT !.dispatch = state, !.leased = FALSE]
  <2>1. RowOK(l) /\ SameClaim(l, log[d]) /\ Persist(d, l)
    BY <1>2, SkippedRow DEF Skip
  <2> HIDE DEF l
  <2> QED BY <1>0, <1>1, <1>2, <2>1, PersistKeepsCore
<1>3. CASE ClaimBlocked(d)
  BY <1>2, <1>3 DEF ClaimBlocked, Settled
<1>4. CASE ClaimIgnored(d)
  <2>1. \A v \in Workers, e \in Deliveries : e \in batch'[v] => log[e].dispatch # "ABSENT"
    BY DEF Core, AbsentIsBlank
  <2> QED BY <1>4, <2>1, QuietKeepsCore DEF ClaimIgnored, rows, world, cloud, Core, TypeOK
<1>5. CASE ClaimRefused(d)
  BY <1>2, <1>5, RefusalType DEF ClaimRefused
<1>6. CASE ClaimInbox(d)
  <2> DEFINE l == Inboxed(log[d])
  <2>1. log[d] \in LogType /\ log[d].token = log[d].attempts
    BY DEF Core, TypeOK, TokenCountsClaims
  <2>2. l \in LogType
    BY <2>1, InboxedType
  <2>3. l.token = log[d].token /\ l.attempts = log[d].attempts /\ l.dispatch = "COMPLETE"
        /\ l.envelope = log[d].envelope
    BY <2>1 DEF Inboxed, LogType
  <2>4. RowOK(l) /\ SameClaim(l, log[d])
    BY <2>1, <2>2, <2>3 DEF RowOK, SameClaim, Open
  <2>5. inbox' \in [Sources -> Nat]
    BY <1>1, <1>6, DeliveryParts DEF ClaimInbox
  <2> HIDE DEF l
  <2> QED BY <1>0, <1>1, <1>6, <2>4, <2>5, PersistKeepsCore DEF ClaimInbox, l
<1>7. CASE ClaimTaken(w, d)
  BY <1>7, TakenKeepsCore
<1> QED BY <1>3, <1>4, <1>5, <1>6, <1>7

\* A queued id is a row that exists.
LEMMA QueuedExists ==
    ASSUME Core, NEW d \in Deliveries, NEW w \in Workers,
           d \in signals \/ d \in batch[w]
    PROVE  log[d].dispatch # "ABSENT"
BY DEF Core, AbsentIsBlank

LEMMA DispatchKeepsCore ==
    ASSUME Core, NEW w \in Workers, NEW d \in Deliveries,
           DispatchSignal(w, d) \/ DispatchDue(w, d)
    PROVE  Core'
<1>1. batch \in [Workers -> SUBSET Deliveries]
  BY DEF Core, TypeOK
<1>2. CASE DispatchSignal(w, d)
  <2>1. d \in signals /\ signals' \subseteq signals /\ batch' = batch /\ ClaimDelivery(w, d)
    BY <1>2 DEF DispatchSignal, TakeSignal
  <2> QED BY <1>1, <2>1, QueuedExists, ClaimKeepsCore
<1>3. CASE DispatchDue(w, d)
  <2>1. /\ d \in batch[w] /\ signals' = signals /\ ClaimDelivery(w, d)
        /\ batch' = [batch EXCEPT ![w] = @ \ {d}]
    BY <1>3 DEF DispatchDue, TakeFromBatch
  <2>2. /\ batch' \in [Workers -> SUBSET Deliveries]
        /\ \A v \in Workers : batch'[v] \subseteq batch[v]
    BY <1>1, <2>1
  <2> QED BY <2>1, <2>2, QueuedExists, ClaimKeepsCore
<1> QED BY <1>2, <1>3

\* The job of a busy worker.
LEMMA BusyJob ==
    ASSUME Core, NEW w \in Workers, worker[w].pc # "idle"
    PROVE  /\ Busy(w) /\ worker[w] \in WorkerType
           /\ worker[w].job \in Deliveries /\ log[worker[w].job].dispatch # "ABSENT"
           /\ worker[w].envelope \in Envelopes
           /\ log[worker[w].job].envelope = worker[w].envelope
BY DEF Core, TypeOK, AbsentIsBlank, EnvelopeFrozen, Busy, WorkerType

\* The steps of dispatch that only move the worker (and the provider).
LEMMA MoveKeepsCore ==
    ASSUME Core, NEW w \in Workers, worker[w].pc # "idle",
           NEW pc \in {"ancestors", "recipient", "network", "finish", "revoke"},
           NEW result \in {"none", "success", "transient", "permanent"},
           worker' = [worker EXCEPT ![w].pc = pc, ![w].result = result],
           UNCHANGED <<rows, world, emitted, receipts, signals, batch, crashes>>,
           \/ accepted' = accepted
           \/ accepted' = [accepted EXCEPT ![worker[w].job] = @ \cup {worker[w].envelope}]
    PROVE  Core'
<1>1. /\ worker[w] \in WorkerType /\ worker[w].job \in Deliveries
      /\ log[worker[w].job].dispatch # "ABSENT"
      /\ worker[w].envelope \in Envelopes
      /\ log[worker[w].job].envelope = worker[w].envelope /\ Busy(w)
  BY BusyJob
<1> DEFINE j == [worker[w] EXCEPT !.pc = pc, !.result = result]
<1>2. /\ worker' = [worker EXCEPT ![w] = j] /\ j \in WorkerType
      /\ j.job = worker[w].job /\ j.envelope = worker[w].envelope
      /\ j.token = worker[w].token /\ j.pc # "idle"
  BY <1>1 DEF Core, TypeOK, WorkerType
<1> HIDE DEF j
<1>3. /\ worker' \in [Workers -> WorkerType]
      /\ \A v \in Workers : /\ Busy(v)' <=> Busy(v)
                            /\ worker'[v].job = worker[v].job
                            /\ worker'[v].envelope = worker[v].envelope
                            /\ worker'[v].token = worker[v].token
  <2>1. worker \in [Workers -> WorkerType]
    BY DEF Core, TypeOK
  <2>2. worker' \in [Workers -> WorkerType] /\ worker'[w] = j
    BY <1>2, <2>1
  <2>3. \A v \in Workers : v # w => worker'[v] = worker[v]
    BY <1>2, <2>1
  <2> QED BY <1>2, <2>2, <2>3 DEF Busy
<1>4. accepted' \in [Deliveries -> SUBSET Envelopes]
  <2>1. accepted \in [Deliveries -> SUBSET Envelopes]
    BY DEF Core, TypeOK
  <2>2. CASE accepted' = accepted
    BY <2>1, <2>2
  <2>3. CASE accepted' = [accepted EXCEPT ![worker[w].job] = @ \cup {worker[w].envelope}]
    BY <1>1, <2>1, <2>3
  <2> QED BY <2>2, <2>3
<1>5. TypeOK'
  BY <1>3, <1>4 DEF Core, TypeOK, rows, world
<1>6. TokenCountsClaims' /\ OpenIsUnanswered'
  BY DEF Core, TokenCountsClaims, OpenIsUnanswered, rows
<1>7. \A d \in Deliveries :
        /\ log[d].dispatch = "ABSENT" => accepted'[d] = accepted[d]
        /\ accepted'[d] \subseteq accepted[d] \cup ({log[d].envelope} \ {NoEnvelope})
  BY <1>1, OutboxAssumption DEF Core, TypeOK, Envelopes
<1>0. log' = log /\ emitted' = emitted /\ signals' = signals /\ batch' = batch
  BY DEF rows
<1>8. AbsentIsBlank'
  <2> SUFFICES ASSUME NEW d \in Deliveries, log[d].dispatch = "ABSENT"
               PROVE  /\ log[d] = NewLog("ABSENT")
                      /\ accepted'[d] = {} /\ emitted[d] = <<>> /\ d \notin signals
                      /\ \A v \in Workers : d \notin batch[v] /\ (Busy(v)' => worker'[v].job # d)
    BY <1>0, Zenon DEF AbsentIsBlank
  <2> QED BY <1>3, <1>7 DEF Core, AbsentIsBlank
<1>9. EnvelopeFrozen'
  <2>1. \A d \in Deliveries : accepted'[d] \subseteq {log[d].envelope} \ {NoEnvelope}
    BY <1>7 DEF Core, EnvelopeFrozen
  <2>2. \A v \in Workers :
          Busy(v)' => /\ log[worker'[v].job].envelope = worker'[v].envelope
                      /\ worker'[v].envelope # NoEnvelope
                      /\ worker'[v].token <= log[worker'[v].job].token
    BY <1>3 DEF Core, EnvelopeFrozen
  <2> QED BY <1>0, <2>1, <2>2, Zenon DEF EnvelopeFrozen
<1> QED BY <1>5, <1>6, <1>8, <1>9 DEF Core

LEMMA WorkerKeepsCore ==
    ASSUME Core, NEW w \in Workers, WorkerStep(w)
    PROVE  Core'
<1> DEFINE d == worker[w].job
<1>0. /\ inbox \in [Sources -> Nat] /\ receipts \in [Deliveries -> SUBSET (1 .. MaxEvents)]
      /\ batch \in [Workers -> SUBSET Deliveries] /\ worker \in [Workers -> WorkerType]
  BY DEF Core, TypeOK
<1>1. CASE RecheckAncestors(w)
  <2> DEFINE pc == IF PreviousSucceeded(d) THEN "revoke" ELSE "recipient"
  <2>1. worker' = [worker EXCEPT ![w].pc = pc, ![w].result = worker[w].result]
    BY <1>0, <1>1 DEF RecheckAncestors, Goto, WorkerType
  <2> HIDE DEF pc
  <2> QED BY <1>0, <1>1, <2>1, MoveKeepsCore DEF RecheckAncestors, WorkerType, cloud, pc
<1>2. CASE RecheckRecipient(w)
  <2> PICK pc \in {"network", "revoke"} : Goto(w, pc)
    BY <1>2 DEF RecheckRecipient
  <2>1. worker' = [worker EXCEPT ![w].pc = pc, ![w].result = worker[w].result]
    BY <1>0 DEF Goto, WorkerType
  <2> QED BY <1>0, <1>2, <2>1, MoveKeepsCore DEF RecheckRecipient, WorkerType, cloud
<1>3. CASE Send(w)
  <2> PICK result \in {"success", "transient", "permanent"} :
        worker' = [worker EXCEPT ![w].pc = "finish", ![w].result = result]
    BY <1>3 DEF Send
  <2> QED BY <1>3, MoveKeepsCore DEF Send
<1>4. CASE FinishDelivery(w)
  <2>1. worker[w].pc # "idle" /\ \E v \in Workers : worker' = [worker EXCEPT ![v] = Idle]
    BY <1>4 DEF FinishDelivery
  <2>2. d \in Deliveries /\ log[d].dispatch # "ABSENT" /\ worker[w].result \in
            {"none", "success", "transient", "permanent"}
    BY <2>1, BusyJob DEF WorkerType
  <2>3. CASE HoldsLease(w, d)
    <3> DEFINE l == FinishedLog(log[d], worker[w].result)
    <3>1. log[d] \in LogType /\ log[d].token = log[d].attempts /\ log[d].status = "PENDING"
      BY <2>2, <2>3 DEF Core, TypeOK, TokenCountsClaims, OpenIsUnanswered, HoldsLease, Open
    <3>2. l \in LogType
      BY <2>2, <3>1, FinishedLogType
    <3>3. /\ l.token = log[d].token /\ l.attempts = log[d].attempts
          /\ l.envelope = log[d].envelope /\ l.dispatch # "ABSENT"
          /\ l.dispatch \in Open => l.status = "PENDING"
      BY <3>1 DEF FinishedLog, RecordedStatus, LogType, Open
    <3>4. RowOK(l) /\ SameClaim(l, log[d])
      BY <3>1, <3>2, <3>3 DEF RowOK, SameClaim
    <3>5. Persist(d, l)
      BY <1>4, <2>3 DEF FinishDelivery
    <3> HIDE DEF l
    <3> QED BY <1>0, <1>4, <2>1, <2>2, <3>4, <3>5, PersistKeepsCore DEF FinishDelivery, cloud
  <2>4. CASE ~HoldsLease(w, d)
    <3>1. \A v \in Workers, e \in Deliveries : e \in batch[v] => log[e].dispatch # "ABSENT"
      BY DEF Core, AbsentIsBlank
    <3> QED BY <1>4, <2>1, <2>4, <3>1, QuietKeepsCore
            DEF FinishDelivery, world, cloud, Core, TypeOK
  <2> QED BY <2>3, <2>4
<1>5. CASE FinishRevoked(w)
  <2>1. worker[w].pc # "idle" /\ \E v \in Workers : worker' = [worker EXCEPT ![v] = Idle]
    BY <1>5 DEF FinishRevoked
  <2>2. d \in Deliveries /\ log[d].dispatch # "ABSENT"
    BY <2>1, BusyJob
  <2>3. CASE log[d].token = worker[w].token
    <3> DEFINE l == [log[d] EXCEPT !.dispatch = "REVOKED", !.leased = FALSE]
    <3>1. RowOK(l) /\ SameClaim(l, log[d]) /\ Persist(d, l)
      BY <1>5, <2>2, <2>3, SkippedRow DEF FinishRevoked, Skip, Settled
    <3> HIDE DEF l
    <3> QED BY <1>0, <1>5, <2>1, <2>2, <3>1, PersistKeepsCore DEF FinishRevoked, cloud
  <2>4. CASE log[d].token # worker[w].token
    <3>1. \A v \in Workers, e \in Deliveries : e \in batch[v] => log[e].dispatch # "ABSENT"
      BY DEF Core, AbsentIsBlank
    <3> QED BY <1>5, <2>1, <2>4, <3>1, QuietKeepsCore
            DEF FinishRevoked, world, cloud, Core, TypeOK
  <2> QED BY <2>3, <2>4
<1> QED BY <1>1, <1>2, <1>3, <1>4, <1>5 DEF WorkerStep

\* The clock: a flag of a row goes down.
LEMMA ClockKeepsCore ==
    ASSUME Core, NEW d \in Deliveries, LeaseExpires(d) \/ BackoffElapses(d)
    PROVE  Core'
<1> PICK l : /\ l \in {[log[d] EXCEPT !.leased = FALSE], [log[d] EXCEPT !.waiting = FALSE]}
             /\ log' = [log EXCEPT ![d] = l]
  BY DEF LeaseExpires, BackoffElapses, Core, TypeOK
<1>0. UNCHANGED <<reminder, inbox, world, cloud, signals, batch, worker, crashes>>
  BY DEF LeaseExpires, BackoffElapses
<1>1. log[d] \in LogType /\ log[d].token = log[d].attempts /\ log[d].dispatch # "ABSENT"
  <2>1. log[d].leased \/ log[d].waiting
    BY DEF LeaseExpires, BackoffElapses
  <2> QED BY <2>1 DEF Core, TypeOK, TokenCountsClaims, AbsentIsBlank, NewLog
<1>2. RowOK(l) /\ SameClaim(l, log[d])
  BY <1>1 DEF RowOK, SameClaim, LogType, Core, OpenIsUnanswered
<1>3. /\ log' \in [Deliveries -> LogType]
      /\ worker' \in [Workers -> WorkerType]
      /\ \A w \in Workers : Busy(w)' => worker'[w].job \in Deliveries
      /\ TokenCountsClaims' /\ AbsentIsBlank' /\ OpenIsUnanswered' /\ EnvelopeFrozen'
  BY <1>0, <1>1, <1>2, RowRewritten DEF cloud
<1>4. TypeOK'
  BY <1>0, <1>3 DEF Core, TypeOK, world, cloud
<1> QED BY <1>3, <1>4 DEF Core

\* Queues, crashes and registry edits.
LEMMA SurroundingsKeepCore ==
    ASSUME Core,
           \/ \E d \in Deliveries : LoseSignal(d)
           \/ \E w \in Workers : BeatScan(w) \/ Crash(w)
           \/ Change
    PROVE  Core'
<1>0. /\ batch \in [Workers -> SUBSET Deliveries]
      /\ person \in [Sources -> [standing : Standings, address : Addresses \cup {NoAddress}]]
      /\ school \in [sender : Senders, domain : BOOLEAN]
      /\ changes \in 0 .. MaxChanges /\ crashes \in 0 .. MaxCrashes
      /\ MaxChanges \in Nat /\ MaxCrashes \in Nat
  BY OutboxAssumption DEF Core, TypeOK
<1>00. \A w \in Workers, d \in Deliveries : d \in batch[w] => log[d].dispatch # "ABSENT"
  BY DEF Core, AbsentIsBlank
<1>1. CASE \E d \in Deliveries : LoseSignal(d)
  <2> PICK d \in Deliveries : LoseSignal(d)
    BY <1>1
  <2> QED BY <1>0, <1>00, QuietKeepsCore DEF LoseSignal, rows, world, cloud
<1>2. CASE \E w \in Workers : BeatScan(w)
  <2> PICK w \in Workers : BeatScan(w)
    BY <1>2
  <2>1. DueIds \subseteq Deliveries /\ \A d \in DueIds : log[d].dispatch # "ABSENT"
    BY DEF DueIds
  <2>2. batch' = [batch EXCEPT ![w] = DueIds]
    BY DEF BeatScan
  <2>3. /\ batch' \in [Workers -> SUBSET Deliveries]
        /\ \A v \in Workers, d \in Deliveries : d \in batch'[v] => log[d].dispatch # "ABSENT"
    BY <1>0, <1>00, <2>1, <2>2
  <2> QED BY <1>0, <2>3, QuietKeepsCore DEF BeatScan, rows, world, cloud
<1>3. CASE \E w \in Workers : Crash(w)
  <2> PICK w \in Workers : Crash(w)
    BY <1>3
  <2>1. batch' = [batch EXCEPT ![w] = {}] /\ crashes' \in 0 .. MaxCrashes
    BY <1>0 DEF Crash
  <2>2. /\ batch' \in [Workers -> SUBSET Deliveries]
        /\ \A v \in Workers, d \in Deliveries : d \in batch'[v] => log[d].dispatch # "ABSENT"
    BY <1>0, <1>00, <2>1
  <2> QED BY <1>0, <2>1, <2>2, QuietKeepsCore DEF Crash, rows, world, cloud
<1>4. CASE Change
  <2>1. changes' \in 0 .. MaxChanges
    BY <1>0, <1>4 DEF Change
  <2>2. /\ person' \in [Sources -> [standing : Standings, address : Addresses \cup {NoAddress}]]
        /\ school' \in [sender : Senders, domain : BOOLEAN]
    BY <1>0, <1>4 DEF Change, ChangePerson, ChangeSchool
  <2> QED BY <1>0, <1>00, <1>4, <2>1, <2>2, QuietKeepsCore DEF Change, rows, cloud
<1> QED BY <1>1, <1>2, <1>3, <1>4

LEMMA FollowUpsType ==
    ASSUME NEW history
    PROVE  FollowUps(history) \subseteq Events
BY DEF FollowUps, Events

LEMMA ReportsKeepCore ==
    ASSUME Core, NEW d \in Deliveries, ProviderReports(d)
    PROVE  Core'
<1> PICK e \in FollowUps(emitted[d]) : emitted' = [emitted EXCEPT ![d] = Append(emitted[d], e)]
  BY DEF ProviderReports, Core, TypeOK
<1>1. e \in Events
  BY FollowUpsType
<1>2. /\ accepted[d] # {} /\ Len(emitted[d]) < MaxEvents
      /\ UNCHANGED <<rows, world, accepted, receipts, signals, batch, worker, crashes>>
  BY DEF ProviderReports
<1>3. emitted \in [Deliveries -> Seq(Events)] /\ \A f \in Deliveries : Len(emitted[f]) <= MaxEvents
  BY DEF Core, TypeOK
<1>4. /\ Append(emitted[d], e) \in Seq(Events)
      /\ Len(Append(emitted[d], e)) <= MaxEvents
  BY <1>1, <1>2, <1>3, OutboxAssumption
<1>5. /\ emitted' \in [Deliveries -> Seq(Events)]
      /\ \A f \in Deliveries : Len(emitted'[f]) <= MaxEvents
  BY <1>3, <1>4
<1>6. TypeOK'
  BY <1>2, <1>5 DEF Core, TypeOK, rows, world, Busy
<1>7. \A f \in Deliveries : log[f].dispatch = "ABSENT" => emitted'[f] = emitted[f]
  BY <1>2, <1>3 DEF Core, AbsentIsBlank
<1>8. AbsentIsBlank'
  BY <1>2, <1>7 DEF Core, AbsentIsBlank, rows, Busy
<1>9. TokenCountsClaims' /\ OpenIsUnanswered' /\ EnvelopeFrozen'
  BY <1>2 DEF Core, TokenCountsClaims, OpenIsUnanswered, EnvelopeFrozen, rows, Busy
<1> QED BY <1>6, <1>8, <1>9 DEF Core

\* What a webhook leaves of the row.
LEMMA ReportedRow ==
    ASSUME NEW l \in LogType, l.token = l.attempts, l.dispatch # "ABSENT",
           l.dispatch \in Open => l.status = "PENDING",
           NEW status \in Statuses \ {"PENDING"}, NEW instant \in 1 .. MaxEvents
    PROVE  LET r == ReportedLog(l, status, instant) IN
           /\ RowOK(r) /\ SameClaim(r, l)
           /\ r.event >= l.event
           /\ l.status \in Final => r.status \in Final
           /\ r.status = l.status \/ (r.status = status /\ r.dispatch \in Settled)
<1> DEFINE r == ReportedLog(l, status, instant)
           delivered == l.delivered \/ status = "DELIVERED"
           updated == [l EXCEPT !.status = status, !.event = instant, !.delivered = delivered]
<1>1. r \in LogType
  BY ReportedLogType
<1>2. l.event \in 0 .. MaxEvents /\ instant # 0
  BY DEF LogType
<1>3. CASE EventCanUpdate(l, status, instant)
  <2> DEFINE state == IF status \in Undelivered THEN "FAILED" ELSE "COMPLETE"
  <2>1. updated.event = instant /\ updated.status = status
    BY DEF LogType
  <2>2. r = [updated EXCEPT !.leased = FALSE, !.dispatch = state]
    BY <1>2, <1>3, <2>1 DEF ReportedLog
  <2>3. state \in Settled /\ state \notin Open /\ state # "ABSENT"
    BY DEF Settled, Open
  <2>4. instant >= l.event /\ (l.status \in Final => status \in Final)
    BY <1>3 DEF EventCanUpdate
  <2>5. /\ r.token = l.token /\ r.attempts = l.attempts /\ r.envelope = l.envelope
        /\ r.event = instant /\ r.status = status /\ r.dispatch = state
    BY <2>2 DEF LogType
  <2> HIDE DEF r, state, updated
  <2> QED BY <1>1, <2>3, <2>4, <2>5 DEF RowOK, SameClaim, r
<1>4. CASE ~EventCanUpdate(l, status, instant)
  <2> DEFINE state == IF l.status \in Undelivered THEN "FAILED" ELSE "COMPLETE"
  <2>1. r = IF l.event = 0 THEN l ELSE [l EXCEPT !.leased = FALSE, !.dispatch = state]
    BY <1>4 DEF ReportedLog
  <2>2. state \notin Open /\ state # "ABSENT"
    BY DEF Open
  <2>3. /\ r.token = l.token /\ r.attempts = l.attempts /\ r.envelope = l.envelope
        /\ r.event = l.event /\ r.status = l.status
        /\ r.dispatch = l.dispatch \/ r.dispatch = state
    BY <2>1 DEF LogType
  <2> HIDE DEF r, state
  <2> QED BY <1>1, <1>2, <2>2, <2>3 DEF RowOK, SameClaim, r
<1> QED BY <1>3, <1>4

\* The event a webhook carries, and the row it is applied to.
LEMMA WebhookRow ==
    ASSUME Core, NEW d \in Deliveries, NEW instant, ProcessResendEvent(d, instant)
    PROVE  /\ instant \in 1 .. MaxEvents
           /\ StatusForEvent(emitted[d][instant]) \in Statuses \ {"PENDING"}
           /\ log[d] \in LogType /\ log[d].token = log[d].attempts
           /\ log[d].dispatch # "ABSENT"
           /\ log[d].dispatch \in Open => log[d].status = "PENDING"
<1>1. instant \in 1 .. Len(emitted[d]) /\ emitted[d] \in Seq(Events) /\ Len(emitted[d]) <= MaxEvents
  BY DEF ProcessResendEvent, Core, TypeOK
<1>2. emitted[d][instant] \in Events /\ emitted[d] # <<>>
  BY <1>1
<1>3. instant \in 1 .. MaxEvents
  BY <1>1, OutboxAssumption
<1>4. log[d].dispatch # "ABSENT"
  BY <1>2 DEF Core, AbsentIsBlank
<1>5. log[d] \in LogType
  BY DEF Core, TypeOK
<1>6. StatusForEvent(emitted[d][instant]) \in Statuses \ {"PENDING"}
  BY <1>2, EventStatus
<1> QED BY <1>3, <1>4, <1>5, <1>6 DEF Core, TokenCountsClaims, OpenIsUnanswered

LEMMA WebhookKeepsCore ==
    ASSUME Core, NEW d \in Deliveries, NEW instant, ProcessResendEvent(d, instant)
    PROVE  Core'
<1> DEFINE status == StatusForEvent(emitted[d][instant])
           l == ReportedLog(log[d], status, instant)
<1>1. /\ instant \in 1 .. MaxEvents /\ status \in Statuses \ {"PENDING"}
      /\ log[d] \in LogType /\ log[d].token = log[d].attempts
      /\ log[d].dispatch # "ABSENT"
      /\ log[d].dispatch \in Open => log[d].status = "PENDING"
  BY WebhookRow
<1>2. RowOK(l) /\ SameClaim(l, log[d])
  <2> HIDE DEF status
  <2> QED BY <1>1, ReportedRow
<1>3. /\ Persist(d, l)
      /\ receipts' = [receipts EXCEPT ![d] = @ \cup {instant}]
      /\ UNCHANGED <<inbox, world, accepted, emitted, signals, batch, worker, crashes>>
  BY DEF ProcessResendEvent
<1> HIDE DEF l, status
<1>4. receipts' \in [Deliveries -> SUBSET (1 .. MaxEvents)]
  BY <1>1, <1>3 DEF Core, TypeOK
<1>5. inbox' \in [Sources -> Nat] /\ batch' \in [Workers -> SUBSET Deliveries]
  BY <1>3 DEF Core, TypeOK
<1> QED BY <1>1, <1>2, <1>3, <1>4, <1>5, PersistKeepsCore

\* Reprocessing creates the next generation, blank and open.
LEMMA RetryKeepsCore ==
    ASSUME Core, NEW d \in Deliveries, RequestDeliveryRetry(d)
    PROVE  Core'
<1> DEFINE next == <<d[1], d[2] + 1>>
           l    == NewLog("PENDING")
<1>1. /\ next \in Deliveries
      /\ log[next].dispatch = "ABSENT"
      /\ log' = [log EXCEPT ![next] = l]
      /\ reminder' = SuccessorAttached(d)
      /\ signals' = signals \cup {next}
      /\ UNCHANGED <<inbox, world, cloud, batch, worker, crashes>>
  BY DEF RequestDeliveryRetry
<1>2. /\ l \in LogType /\ l.token = l.attempts /\ l.dispatch # "ABSENT"
      /\ l.dispatch \in Open => l.status = "PENDING"
  BY NewLogType DEF NewLog
<1>3. reminder' \in [Sources -> ReminderType]
  <2>1. d[1] \in Sources /\ d[2] + 1 \in 0 .. MaxGenerations
    BY <1>1, DeliveryParts, OutboxAssumption DEF Deliveries
  <2> QED BY <1>1, <2>1 DEF SuccessorAttached, Core, TypeOK, ReminderType
<1> HIDE DEF l, next
<1>4. TypeOK'
  BY <1>1, <1>2, <1>3 DEF Core, TypeOK, ReminderType, world, cloud, Busy
<1>5. TokenCountsClaims' /\ OpenIsUnanswered'
  BY <1>1, <1>2 DEF Core, TypeOK, TokenCountsClaims, OpenIsUnanswered
<1>6. AbsentIsBlank'
  BY <1>1, <1>2 DEF Core, TypeOK, AbsentIsBlank, world, cloud, Busy
<1>7. EnvelopeFrozen'
  BY <1>1, <1>2 DEF Core, TypeOK, EnvelopeFrozen, AbsentIsBlank, world, cloud, Busy
<1> QED BY <1>4, <1>5, <1>6, <1>7 DEF Core

-------------------------------------------------------------------------------
(* The inductive step and the theorems.                                    *)

LEMMA CoreStep == Core /\ [Next]_vars => Core'
<1> SUFFICES ASSUME Core, [Next]_vars PROVE Core'
  OBVIOUS
<1>1. CASE \E s \in Sources : CreateDelivery(s)
  BY <1>1, CreateKeepsCore
<1>2. CASE \/ \E d \in Deliveries : LoseSignal(d)
           \/ \E w \in Workers : BeatScan(w) \/ Crash(w)
           \/ Change
  BY <1>2, SurroundingsKeepCore
<1>3. CASE \E w \in Workers, d \in Deliveries : DispatchSignal(w, d) \/ DispatchDue(w, d)
  BY <1>3, DispatchKeepsCore
<1>4. CASE \E w \in Workers : WorkerStep(w)
  BY <1>4, WorkerKeepsCore
<1>5. CASE \E d \in Deliveries : LeaseExpires(d) \/ BackoffElapses(d)
  BY <1>5, ClockKeepsCore
<1>6. CASE \E d \in Deliveries : ProviderReports(d)
  BY <1>6, ReportsKeepCore
<1>7. CASE \E d \in Deliveries, instant \in 1 .. MaxEvents : ProcessResendEvent(d, instant)
  BY <1>7, WebhookKeepsCore
<1>8. CASE \E d \in Deliveries : RequestDeliveryRetry(d)
  BY <1>8, RetryKeepsCore
<1>9. CASE UNCHANGED vars
  BY <1>9 DEF vars, Core, TypeOK, TokenCountsClaims, AbsentIsBlank, OpenIsUnanswered,
              EnvelopeFrozen, Busy
<1> QED BY <1>1, <1>2, <1>3, <1>4, <1>5, <1>6, <1>7, <1>8, <1>9 DEF Next

\* Core holds in every reachable state: the strengthening that TypeOK and
\* OneContentPerKey need.
THEOREM CoreInvariant == Spec => []Core
<1>1. Init => Core
  BY CoreInit
<1>2. Core /\ [Next]_vars => Core'
  BY CoreStep
<1> QED BY <1>1, <1>2, PTL DEF Spec

\* Every column keeps its values; in particular claim_delivery never claims a
\* row more than MaxAttempts times, whatever crashes, leases and webhooks do.
THEOREM TypeCorrect == Spec => []TypeOK
<1>1. Core => TypeOK
  BY DEF Core
<1> QED BY <1>1, CoreInvariant, PTL

\* The provider never receives two contents under the key of one row, for any
\* number of workers, addresses, senders, registry changes and crashes.
THEOREM OneContent == Spec => []OneContentPerKey
<1>1. Core => OneContentPerKey
  BY DEF Core, EnvelopeFrozen, OneContentPerKey
<1> QED BY <1>1, CoreInvariant, PTL

-------------------------------------------------------------------------------
(* What a step does to the rows and to what the provider took.             *)

\* A row rewritten without a claim: it never reopens, and what it says of the
\* provider advances.
Kept(l, m) ==
    /\ l.dispatch # "ABSENT" /\ m.dispatch # "ABSENT"
    /\ SameClaim(m, l)
    /\ l.dispatch \in Settled => m.dispatch \in Settled
    /\ m.dispatch \in Open => l.status = "PENDING" /\ m.status = "PENDING"
    /\ l.status \in Final => m.status \in Final
    /\ l.status \in Confirmed => m.status # "PENDING"
    /\ l.event <= m.event

\* A row claimed for sending.
Claimed(l, m) ==
    /\ l.dispatch \in Open /\ m.dispatch = "PROCESSING"
    /\ l.status = "PENDING" /\ m.status = "PENDING" /\ m.event = l.event
    /\ m.envelope \in Envelopes /\ l.envelope \in {NoEnvelope, m.envelope}

Quiet == UNCHANGED rows /\ accepted' = accepted

HandedOver(d) ==
    /\ UNCHANGED rows /\ log[d].envelope # NoEnvelope
    /\ accepted' = [accepted EXCEPT ![d] = @ \cup {log[d].envelope}]

\* A notice in the application, the only one of its row.
Noticed(s) == channel[s] = "IN_APP" /\ inbox' = [inbox EXCEPT ![s] = @ + 1]

Recorded(s) ==
    /\ accepted' = accepted /\ log[<<s, 1>>].dispatch = "ABSENT"
    /\ \E l \in {NewLog("PENDING"), Inboxed(NewLog("PENDING"))} :
          /\ log' = [log EXCEPT ![<<s, 1>>] = l]
          /\ reminder' = IF s \in Reminders
                         THEN [reminder EXCEPT ![s] = [current |-> 1, status |-> Project(l)]]
                         ELSE reminder
          /\ IF l = NewLog("PENDING") THEN inbox' = inbox ELSE Noticed(s)

Restarted(d) ==
    /\ accepted' = accepted /\ inbox' = inbox
    /\ <<d[1], d[2] + 1>> \in Deliveries
    /\ log[d].dispatch \in Settled /\ log[<<d[1], d[2] + 1>>].dispatch = "ABSENT"
    /\ log' = [log EXCEPT ![<<d[1], d[2] + 1>>] = NewLog("PENDING")]
    /\ reminder' = SuccessorAttached(d)

\* What a row comes to say is a failure, or has an acceptance or a notice behind it.
Founded(d, l) ==
    \/ l.status = log[d].status
    \/ log[d].status = "PENDING" /\ l.status = "FAILED"
    \/ accepted[d] # {}
    \/ channel[d[1]] = "IN_APP" /\ l.status = "DELIVERED"

Shown(d, l) ==
    reminder' = Synchronized(d, l) \/ (reminder' = reminder /\ Project(l) = Project(log[d]))

\* The effects of a step on the inbox, when it rewrites a row.
Told(d, l) ==
    \/ inbox' = inbox
    \/ /\ Noticed(d[1]) /\ l.status = "DELIVERED"
       /\ log[d].dispatch \in Open /\ ~PreviousSucceeded(d)

Rewritten(d) ==
    /\ accepted' = accepted
    /\ \E l \in LogType : /\ log' = [log EXCEPT ![d] = l]
                          /\ Kept(log[d], l) \/ Claimed(log[d], l)
                          /\ Founded(d, l) /\ Shown(d, l) /\ Told(d, l)

Moved ==
    \/ Quiet
    \/ \E s \in Sources : Recorded(s)
    \/ \E d \in Deliveries : HandedOver(d) \/ Restarted(d) \/ Rewritten(d)

\* A worker that comes back with a success was accepted, and so was whatever the
\* provider reports of; rows of the inbox have neither.
Backed ==
    /\ \A w \in Workers :
         Busy(w) /\ worker[w].result = "success" => accepted[worker[w].job] # {}
    /\ \A w \in Workers : Busy(w) => channel[worker[w].job[1]] = "EMAIL"
    /\ \A d \in Deliveries : emitted[d] # <<>> => accepted[d] # {}
    /\ \A d \in Deliveries : channel[d[1]] = "IN_APP" => accepted[d] = {}

\* Settling a row.
LEMMA SkippedKept ==
    ASSUME Core, NEW d \in Deliveries, log[d].dispatch # "ABSENT", NEW state \in Settled
    PROVE  LET l == [log[d] EXCEPT !.dispatch = state, !.leased = FALSE]
           IN  l \in LogType /\ Kept(log[d], l) /\ Founded(d, l)
<1> DEFINE l == [log[d] EXCEPT !.dispatch = state, !.leased = FALSE]
<1>1. log[d] \in LogType
  BY DEF Core, TypeOK
<1>2. state \notin Open /\ state # "ABSENT"
  BY DEF Open, Settled
<1>3. l \in LogType /\ SameClaim(l, log[d])
  BY SkippedRow DEF RowOK
<1>4. l.dispatch = state /\ l.status = log[d].status /\ l.event = log[d].event
  BY <1>1 DEF LogType
<1>5. log[d].event <= log[d].event /\ (log[d].status \in Confirmed => log[d].status # "PENDING")
  BY <1>1 DEF LogType, Confirmed
<1> HIDE DEF l
<1> QED BY <1>2, <1>3, <1>4, <1>5 DEF Kept, Founded, l

LEMMA SkipMoves ==
    ASSUME Core, NEW d \in Deliveries, log[d].dispatch # "ABSENT", NEW state \in Settled,
           Skip(d, state), accepted' = accepted, inbox' = inbox
    PROVE  Rewritten(d)
BY SkippedKept DEF Skip, Persist, Rewritten, Shown, Told

LEMMA ClaimMoves ==
    ASSUME Core, NEW w \in Workers, NEW d \in Deliveries, log[d].dispatch # "ABSENT",
           ClaimDelivery(w, d)
    PROVE  Quiet \/ Rewritten(d)
<1>0. accepted' = accepted /\ log[d] \in LogType
  BY DEF ClaimDelivery, cloud, Core, TypeOK
<1>1. CASE ClaimBlocked(d)
  BY <1>0, <1>1, SkipMoves DEF ClaimBlocked, Settled
<1>2. CASE ClaimIgnored(d)
  BY <1>0, <1>2 DEF ClaimIgnored, Quiet
<1>3. CASE ClaimRefused(d)
  BY <1>0, <1>3, SkipMoves, RefusalType DEF ClaimRefused
<1>4. CASE ClaimInbox(d)
  <2> DEFINE l == Inboxed(log[d])
  <2>1. l \in LogType
    BY <1>0, InboxedType
  <2>2. /\ l.dispatch = "COMPLETE" /\ l.status = "DELIVERED" /\ l.event = log[d].event
        /\ l.token = log[d].token /\ l.envelope = log[d].envelope
    BY <1>0 DEF Inboxed, LogType
  <2>3. log[d].dispatch \in Open /\ log[d].event <= log[d].event
    BY <1>0, <1>4 DEF ClaimInbox, Claimable, LogType
  <2>4. log' = [log EXCEPT ![d] = l] /\ reminder' = Synchronized(d, l)
    BY <1>4 DEF ClaimInbox, Persist
  <2> HIDE DEF l
  <2>5. Kept(log[d], l)
    BY <2>2, <2>3 DEF Kept, SameClaim, Open, Settled, Final
  <2>6. Founded(d, l) /\ Shown(d, l) /\ Told(d, l)
    BY <1>4, <2>2, <2>3, <2>4 DEF Founded, Shown, Told, Noticed, ClaimInbox
  <2> QED BY <1>0, <2>1, <2>4, <2>5, <2>6 DEF Rewritten
<1>5. CASE ClaimTaken(w, d)
  <2> DEFINE l == ClaimedLog(d)
             e == FrozenEnvelope(d)
  <2>1. /\ e \in Envelopes /\ (log[d].envelope # NoEnvelope => e = log[d].envelope)
        /\ log[d].attempts < MaxAttempts /\ log[d].status = "PENDING"
        /\ log[d].dispatch \in Open /\ log[d].token = log[d].attempts
        /\ log' = [log EXCEPT ![d] = l] /\ reminder' = reminder /\ inbox' = inbox
    BY <1>5, FrozenEnvelopeType DEF ClaimTaken, Claimable, Core, TokenCountsClaims
  <2> HIDE DEF e
  <2>2. log[d].attempts + 1 \in 0 .. MaxAttempts /\ log[d].token + 1 \in 0 .. MaxAttempts
    BY <1>0, <2>1, OutboxAssumption DEF LogType
  <2>3. l = [log[d] EXCEPT !.dispatch = "PROCESSING", !.leased = TRUE,
                           !.attempts = log[d].attempts + 1, !.token = log[d].token + 1,
                           !.envelope = e]
    BY DEF ClaimedLog, FreshToken, e
  <2>4. /\ l \in LogType /\ l.envelope = e /\ l.status = "PENDING"
        /\ l.dispatch = "PROCESSING" /\ l.event = log[d].event
    <3> HIDE DEF l
    <3> QED BY <1>0, <2>1, <2>2, <2>3 DEF LogType, Open
  <2> HIDE DEF l
  <2>5. Claimed(log[d], l) /\ Founded(d, l) /\ Told(d, l)
    BY <2>1, <2>4 DEF Claimed, Founded, Told
  <2>6. Shown(d, l)
    BY <2>1, <2>4 DEF Shown, Project, Open, Confirmed
  <2> QED BY <1>0, <2>1, <2>4, <2>5, <2>6 DEF Rewritten
<1> QED BY <1>1, <1>2, <1>3, <1>4, <1>5 DEF ClaimDelivery

LEMMA WorkerMoves ==
    ASSUME Core, Backed, NEW w \in Workers, WorkerStep(w)
    PROVE  \E d \in Deliveries : Quiet \/ HandedOver(d) \/ Rewritten(d)
<1> DEFINE d == worker[w].job
<1>1. worker[w].pc # "idle"
  BY DEF WorkerStep, RecheckAncestors, RecheckRecipient, Send, FinishDelivery, FinishRevoked
<1>2. /\ d \in Deliveries /\ log[d].dispatch # "ABSENT" /\ log[d] \in LogType
      /\ worker[w].envelope \in Envelopes /\ log[d].envelope = worker[w].envelope
      /\ worker[w].result \in {"none", "success", "transient", "permanent"}
  BY <1>1, BusyJob DEF WorkerType, Core, TypeOK
<1>3. CASE RecheckAncestors(w) \/ RecheckRecipient(w)
  BY <1>2, <1>3 DEF RecheckAncestors, RecheckRecipient, cloud, Quiet
<1>4. CASE Send(w)
  BY <1>2, <1>4, OutboxAssumption DEF Send, Quiet, HandedOver, Envelopes
<1>5. CASE FinishDelivery(w)
  <2>0. accepted' = accepted /\ inbox' = inbox
    BY <1>5 DEF FinishDelivery, cloud
  <2>1. CASE HoldsLease(w, d)
    <3> DEFINE l == FinishedLog(log[d], worker[w].result)
    <3>1. l \in LogType /\ log[d].status = "PENDING" /\ log[d].dispatch = "PROCESSING"
      BY <1>2, <2>1, FinishedLogType DEF HoldsLease, Core, OpenIsUnanswered, Open
    <3>2. /\ l.token = log[d].token /\ l.envelope = log[d].envelope
          /\ l.event = log[d].event /\ l.dispatch # "ABSENT"
          /\ l.dispatch \in Open => l.status = "PENDING"
      BY <1>2, <3>1 DEF FinishedLog, RecordedStatus, LogType, Open
    <3>3. log' = [log EXCEPT ![d] = l] /\ reminder' = Synchronized(d, l)
      BY <1>5, <2>1 DEF FinishDelivery, Persist
    <3>4. log[d].event <= log[d].event
      BY <1>2 DEF LogType
    <3>6. l.status \in {"PENDING", "FAILED"} \/ worker[w].result = "success"
      BY <1>2, <3>1 DEF FinishedLog, RecordedStatus, LogType
    <3>7. worker[w].result = "success" => accepted[d] # {}
      BY <1>1 DEF Backed, Busy
    <3> HIDE DEF l
    <3>5. Kept(log[d], l)
      BY <1>2, <3>1, <3>2, <3>4 DEF Kept, SameClaim, Settled, Final, Confirmed, Undelivered
    <3>8. Founded(d, l) /\ Shown(d, l) /\ Told(d, l)
      BY <2>0, <3>1, <3>3, <3>6, <3>7 DEF Founded, Shown, Told
    <3> QED BY <1>2, <2>0, <3>1, <3>3, <3>5, <3>8 DEF Rewritten
  <2>2. CASE ~HoldsLease(w, d)
    BY <1>2, <1>5, <2>0, <2>2 DEF FinishDelivery, Quiet, rows
  <2> QED BY <2>1, <2>2
<1>6. CASE FinishRevoked(w)
  <2>1. /\ accepted' = accepted /\ inbox' = inbox
        /\ UNCHANGED <<log, reminder>> \/ Skip(d, "REVOKED")
    BY <1>6 DEF FinishRevoked, cloud
  <2> QED BY <1>2, <2>1, SkipMoves DEF Quiet, Settled, rows
<1> QED BY <1>3, <1>4, <1>5, <1>6 DEF WorkerStep

LEMMA ClockMoves ==
    ASSUME Core, NEW d \in Deliveries, LeaseExpires(d) \/ BackoffElapses(d)
    PROVE  Rewritten(d)
<1> PICK l : /\ l \in {[log[d] EXCEPT !.leased = FALSE], [log[d] EXCEPT !.waiting = FALSE]}
             /\ log' = [log EXCEPT ![d] = l]
             /\ UNCHANGED <<accepted, reminder, inbox>>
  BY DEF LeaseExpires, BackoffElapses, Core, TypeOK, cloud
<1>1. log[d] \in LogType /\ log[d].dispatch # "ABSENT"
  <2>1. log[d].leased \/ log[d].waiting
    BY DEF LeaseExpires, BackoffElapses
  <2> QED BY <2>1 DEF Core, TypeOK, AbsentIsBlank, NewLog
<1>2. /\ l \in LogType /\ l.dispatch = log[d].dispatch /\ l.status = log[d].status
      /\ l.event = log[d].event /\ l.token = log[d].token /\ l.envelope = log[d].envelope
  BY <1>1 DEF LogType
<1>3. log[d].event <= log[d].event
  BY <1>1 DEF LogType
<1>4. Kept(log[d], l)
  BY <1>1, <1>2, <1>3 DEF Kept, SameClaim, Core, OpenIsUnanswered, Confirmed
<1>5. Founded(d, l) /\ Shown(d, l) /\ Told(d, l)
  BY <1>2 DEF Founded, Shown, Told, Project
<1> QED BY <1>2, <1>4, <1>5 DEF Rewritten

LEMMA WebhookMoves ==
    ASSUME Core, Backed, NEW d \in Deliveries, NEW instant, ProcessResendEvent(d, instant)
    PROVE  Rewritten(d)
<1> DEFINE status == StatusForEvent(emitted[d][instant])
           l == ReportedLog(log[d], status, instant)
<1>1. /\ instant \in 1 .. MaxEvents /\ status \in Statuses \ {"PENDING"}
      /\ log[d] \in LogType /\ log[d].token = log[d].attempts /\ log[d].dispatch # "ABSENT"
      /\ log[d].dispatch \in Open => log[d].status = "PENDING"
  BY WebhookRow
<1>2. /\ log' = [log EXCEPT ![d] = l] /\ accepted' = accepted
      /\ reminder' = Synchronized(d, l) /\ inbox' = inbox
  BY DEF ProcessResendEvent, Persist
<1>7. accepted[d] # {}
  <2>1. emitted[d] # <<>>
    BY DEF ProcessResendEvent, Core, TypeOK
  <2> QED BY <2>1 DEF Backed
<1> HIDE DEF status
<1>3. /\ RowOK(l) /\ SameClaim(l, log[d]) /\ l.event >= log[d].event
      /\ log[d].status \in Final => l.status \in Final
      /\ l.status = log[d].status \/ (l.status = status /\ l.dispatch \in Settled)
  BY <1>1, ReportedRow
<1>4. log[d].dispatch \in Settled => l.dispatch \in Settled
  BY <1>1 DEF ReportedLog, LogType, Settled
<1> HIDE DEF l
<1>5. log[d].event <= l.event
  BY <1>1, <1>3 DEF RowOK, LogType
<1>6. Kept(log[d], l)
  BY <1>1, <1>3, <1>4, <1>5 DEF Kept, RowOK, Confirmed, Open, Settled
<1>8. Founded(d, l) /\ Shown(d, l) /\ Told(d, l)
  BY <1>2, <1>7 DEF Founded, Shown, Told
<1> QED BY <1>2, <1>3, <1>6, <1>8 DEF Rewritten, RowOK

LEMMA RetryMoves ==
    ASSUME Core, NEW d \in Deliveries, RequestDeliveryRetry(d)
    PROVE  Restarted(d)
<1>1. log[d] \in LogType
  BY DEF Core, TypeOK
<1>2. log[d].dispatch \in Settled
  BY <1>1 DEF RequestDeliveryRetry, Reprocessable, Undelivered, Settled, LogType, Core,
              OpenIsUnanswered, AbsentIsBlank, NewLog
<1> QED BY <1>2 DEF RequestDeliveryRetry, Restarted, cloud

LEMMA CreateMoves ==
    ASSUME Core, NEW s \in Sources, CreateDelivery(s)
    PROVE  Recorded(s)
<1> DEFINE now == channel[s] = "IN_APP" /\ person[s].standing # "unactivated"
           new == NewLog("PENDING")
           l   == IF now THEN Inboxed(new) ELSE new
<1>1. /\ log[<<s, 1>>].dispatch = "ABSENT" /\ accepted' = accepted
      /\ log' = [log EXCEPT ![<<s, 1>>] = l]
      /\ inbox' = [inbox EXCEPT ![s] = @ + (IF now THEN 1 ELSE 0)]
      /\ reminder' = IF s \in Reminders
                     THEN [reminder EXCEPT ![s] = [current |-> 1, status |-> Project(l)]]
                     ELSE reminder
  BY DEF CreateDelivery, cloud
<1>2. l \in {new, Inboxed(new)} /\ (~now => l = new) /\ (now => l # new)
  BY DEF NewLog, Inboxed
<1>3. CASE now
  <2>1. l # new /\ Noticed(s)
    BY <1>1, <1>2, <1>3 DEF Noticed
  <2> HIDE DEF l, now
  <2> QED BY <1>1, <1>2, <2>1 DEF Recorded
<1>4. CASE ~now
  <2>1. l = new /\ inbox' = inbox
    BY <1>1, <1>2, <1>4 DEF Core, TypeOK
  <2> HIDE DEF l, now
  <2> QED BY <1>1, <1>2, <2>1 DEF Recorded
<1> QED BY <1>3, <1>4

LEMMA StepMoves ==
    ASSUME Core, Backed, [Next]_vars
    PROVE  Moved
<1>1. CASE \E s \in Sources : CreateDelivery(s)
  <2> PICK s \in Sources : CreateDelivery(s)
    BY <1>1
  <2> QED BY CreateMoves DEF Moved
<1>2. CASE \/ \E d \in Deliveries : LoseSignal(d)
           \/ \E w \in Workers : BeatScan(w) \/ Crash(w)
           \/ Change
  BY <1>2 DEF LoseSignal, BeatScan, Crash, Change, cloud, Quiet, Moved
<1>3. CASE \E w \in Workers, d \in Deliveries : DispatchSignal(w, d) \/ DispatchDue(w, d)
  <2> PICK w \in Workers, d \in Deliveries : DispatchSignal(w, d) \/ DispatchDue(w, d)
    BY <1>3
  <2>1. ClaimDelivery(w, d) /\ log[d].dispatch # "ABSENT"
    BY QueuedExists DEF DispatchSignal, DispatchDue, TakeSignal, TakeFromBatch
  <2> QED BY <2>1, ClaimMoves DEF Moved
<1>4. CASE \E w \in Workers : WorkerStep(w)
  BY <1>4, WorkerMoves DEF Moved
<1>5. CASE \E d \in Deliveries : LeaseExpires(d) \/ BackoffElapses(d)
  BY <1>5, ClockMoves DEF Moved
<1>6. CASE \E d \in Deliveries : ProviderReports(d)
  BY <1>6 DEF ProviderReports, Quiet, Moved
<1>7. CASE \E d \in Deliveries, instant \in 1 .. MaxEvents : ProcessResendEvent(d, instant)
  BY <1>7, WebhookMoves DEF Moved
<1>8. CASE \E d \in Deliveries : RequestDeliveryRetry(d)
  BY <1>8, RetryMoves DEF Moved
<1>9. CASE UNCHANGED vars
  BY <1>9 DEF vars, rows, Quiet, Moved
<1> QED BY <1>1, <1>2, <1>3, <1>4, <1>5, <1>6, <1>7, <1>8, <1>9 DEF Next

-------------------------------------------------------------------------------
(* The chain of generations.                                               *)

LEMMA RowType == Core => log \in [Deliveries -> LogType]
BY DEF Core, TypeOK

LEMMA ChainStep ==
    ASSUME Core, OneOpenGeneration, Moved
    PROVE  OneOpenGeneration'
<1> SUFFICES ASSUME NEW s \in Sources, NEW g \in 1 .. MaxGenerations,
                    NEW h \in 1 .. MaxGenerations,
                    g < h, log'[<<s, h>>].dispatch # "ABSENT"
             PROVE  log'[<<s, g>>].dispatch \in Settled
  BY DEF OneOpenGeneration
<1>0. /\ <<s, g>> \in Deliveries /\ <<s, h>> \in Deliveries /\ <<s, g>> # <<s, h>>
      /\ log \in [Deliveries -> LogType]
  BY RowType DEF Deliveries
<1>1. log[<<s, h>>].dispatch # "ABSENT" => log[<<s, g>>].dispatch \in Settled
  BY DEF OneOpenGeneration
<1>2. CASE Quiet \/ \E d \in Deliveries : HandedOver(d)
  BY <1>1, <1>2 DEF Quiet, HandedOver, rows
<1>3. CASE \E d \in Deliveries : Rewritten(d)
  <2> PICK d \in Deliveries, l \in LogType :
        log' = [log EXCEPT ![d] = l] /\ (Kept(log[d], l) \/ Claimed(log[d], l))
    BY <1>3 DEF Rewritten
  <2>1. /\ log[d].dispatch # "ABSENT"
        /\ log[d].dispatch \in Settled => l.dispatch \in Settled
    BY DEF Kept, Claimed, Open, Settled
  <2> QED BY <1>0, <1>1, <2>1
<1>4. CASE \E r \in Sources : Recorded(r)
  <2> PICK r \in Sources : Recorded(r)
    BY <1>4
  <2>1. PICK l : log' = [log EXCEPT ![<<r, 1>>] = l]
    BY DEF Recorded
  <2>2. <<s, h>> # <<r, 1>>
    BY OutboxAssumption
  <2>3. log[<<s, h>>].dispatch # "ABSENT"
    BY <1>0, <2>1, <2>2
  <2>4. <<s, g>> # <<r, 1>>
    BY <1>1, <2>3 DEF Recorded, Settled
  <2> QED BY <1>0, <1>1, <2>1, <2>3, <2>4
<1>5. CASE \E d \in Deliveries : Restarted(d)
  <2> PICK d \in Deliveries : Restarted(d)
    BY <1>5
  <2> DEFINE next == <<d[1], d[2] + 1>>
  <2>1. /\ next \in Deliveries /\ log[d].dispatch \in Settled /\ log[next].dispatch = "ABSENT"
        /\ log' = [log EXCEPT ![next] = NewLog("PENDING")]
    BY DEF Restarted
  <2>2. d[1] \in Sources /\ d[2] \in 1 .. MaxGenerations /\ d = <<d[1], d[2]>>
    BY DeliveryParts
  <2>3. CASE <<s, h>> = next
    <3>1. s = d[1] /\ h = d[2] + 1 /\ g <= d[2]
      BY <2>2, <2>3
    <3>2. log[<<s, g>>].dispatch \in Settled
      <4>1. CASE g = d[2]
        BY <2>1, <2>2, <3>1, <4>1
      <4>2. CASE g < d[2]
        BY <2>1, <2>2, <3>1, <4>2 DEF OneOpenGeneration, Settled
      <4> QED BY <2>2, <3>1, <4>1, <4>2
    <3> QED BY <1>0, <2>1, <2>3, <3>2
  <2>4. CASE <<s, h>> # next
    <3>1. log[<<s, h>>].dispatch # "ABSENT"
      BY <1>0, <2>1, <2>4
    <3>2. <<s, g>> # next
      BY <1>1, <2>1, <3>1 DEF Settled
    <3> QED BY <1>0, <1>1, <2>1, <3>1, <3>2
  <2> QED BY <2>3, <2>4
<1> QED BY <1>2, <1>3, <1>4, <1>5 DEF Moved

-------------------------------------------------------------------------------
(* Claims.                                                                 *)

\* A step leaves busy workers with their claims, or one idle worker takes the
\* next claim of a row.
LEMMA StepClaims ==
    ASSUME Core, [Next]_vars
    PROVE  \/ \A w \in Workers :
                Busy(w)' => /\ Busy(w) /\ worker'[w].job = worker[w].job
                            /\ worker'[w].token = worker[w].token
           \/ \E w \in Workers, d \in Deliveries :
                /\ worker'[w].job = d /\ worker'[w].token = log[d].token + 1
                /\ \A v \in Workers \ {w} : worker'[v] = worker[v]
<1>0. worker \in [Workers -> WorkerType] /\ Idle.pc = "idle"
  BY DEF Core, TypeOK, Idle
<1>1. CASE worker' = worker
  BY <1>1 DEF Busy
<1>2. CASE \E w \in Workers : worker' = [worker EXCEPT ![w] = Idle]
  BY <1>0, <1>2 DEF Busy
<1>3. ASSUME NEW w \in Workers, WorkerStep(w)
      PROVE  \A v \in Workers :
                Busy(v)' => /\ Busy(v) /\ worker'[v].job = worker[v].job
                            /\ worker'[v].token = worker[v].token
  <2>1. CASE FinishDelivery(w) \/ FinishRevoked(w)
    BY <1>0, <2>1 DEF FinishDelivery, FinishRevoked, Busy
  <2>2. CASE RecheckAncestors(w) \/ RecheckRecipient(w) \/ Send(w)
    <3>1. worker[w].pc # "idle" /\ worker[w] \in WorkerType
      BY <1>0, <2>2 DEF RecheckAncestors, RecheckRecipient, Send
    <3>2. \E pc, result : worker' = [worker EXCEPT ![w].pc = pc, ![w].result = result]
      <4>1. CASE \E pc : Goto(w, pc)
        <5> PICK pc : Goto(w, pc)
          BY <4>1
        <5>1. worker' = [worker EXCEPT ![w].pc = pc, ![w].result = worker[w].result]
          BY <1>0, <3>1 DEF Goto, WorkerType
        <5> QED BY <5>1
      <4>2. CASE Send(w)
        BY <4>2 DEF Send
      <4> QED BY <2>2, <4>1, <4>2, Zenon DEF RecheckAncestors, RecheckRecipient
    <3> PICK pc, result : worker' = [worker EXCEPT ![w].pc = pc, ![w].result = result]
      BY <3>2
    <3>3. worker'[w].job = worker[w].job /\ worker'[w].token = worker[w].token
      BY <1>0, <3>1 DEF WorkerType
    <3>4. \A v \in Workers : v # w => worker'[v] = worker[v]
      BY <1>0
    <3> QED BY <3>1, <3>3, <3>4 DEF Busy
  <2> QED BY <1>3, <2>1, <2>2 DEF WorkerStep
<1>4. ASSUME NEW w \in Workers, NEW d \in Deliveries, ClaimTaken(w, d)
      PROVE  /\ worker'[w].job = d /\ worker'[w].token = log[d].token + 1
             /\ \A v \in Workers \ {w} : worker'[v] = worker[v]
  BY <1>0, <1>4 DEF ClaimTaken, FreshToken
<1>5. CASE \E w \in Workers, d \in Deliveries : DispatchSignal(w, d) \/ DispatchDue(w, d)
  <2> PICK w \in Workers, d \in Deliveries : ClaimDelivery(w, d)
    BY <1>5 DEF DispatchSignal, DispatchDue
  <2>1. worker' = worker \/ ClaimTaken(w, d)
    BY DEF ClaimDelivery, ClaimBlocked, ClaimIgnored, ClaimRefused, ClaimInbox
  <2> QED BY <1>1, <1>4, <2>1
<1>6. CASE \E w \in Workers : WorkerStep(w)
  BY <1>3, <1>6
<1>7. CASE \E w \in Workers : Crash(w)
  BY <1>2, <1>7 DEF Crash
<1>8. CASE \/ \E s \in Sources : CreateDelivery(s)
           \/ \E d \in Deliveries :
                \/ LoseSignal(d) \/ LeaseExpires(d) \/ BackoffElapses(d)
                \/ ProviderReports(d) \/ RequestDeliveryRetry(d)
                \/ \E instant \in 1 .. MaxEvents : ProcessResendEvent(d, instant)
           \/ \E w \in Workers : BeatScan(w)
           \/ Change \/ UNCHANGED vars
  <2>1. worker' = worker
    BY <1>8 DEF CreateDelivery, LoseSignal, LeaseExpires, BackoffElapses, ProviderReports,
                RequestDeliveryRetry, ProcessResendEvent, BeatScan, Change, vars
  <2> QED BY <1>1, <2>1
<1> QED BY <1>5, <1>6, <1>7, <1>8 DEF Next

LEMMA ClaimStep ==
    ASSUME Core, ExclusiveClaim, [Next]_vars
    PROVE  ExclusiveClaim'
<1>1. CASE \A w \in Workers :
             Busy(w)' => /\ Busy(w) /\ worker'[w].job = worker[w].job
                         /\ worker'[w].token = worker[w].token
  BY <1>1 DEF ExclusiveClaim
<1>2. CASE \E w \in Workers, d \in Deliveries :
             /\ worker'[w].job = d /\ worker'[w].token = log[d].token + 1
             /\ \A v \in Workers \ {w} : worker'[v] = worker[v]
  <2> PICK w \in Workers, d \in Deliveries :
        /\ worker'[w].job = d /\ worker'[w].token = log[d].token + 1
        /\ \A v \in Workers \ {w} : worker'[v] = worker[v]
    BY <1>2
  <2>1. \A v \in Workers \ {w} : Busy(v)' => Busy(v)
    BY DEF Busy
  <2>2. \A v \in Workers \ {w} : Busy(v) /\ worker[v].job = d => worker[v].token < log[d].token + 1
    BY DEF Core, EnvelopeFrozen, TypeOK, WorkerType, LogType
  <2>3. \A v \in Workers \ {w} :
          Busy(v)' /\ worker'[v].job = worker'[w].job => worker'[v].token # worker'[w].token
    BY <2>1, <2>2, RowType DEF Core, TypeOK, WorkerType, LogType
  <2> QED BY <2>1, <2>3 DEF ExclusiveClaim
<1> QED BY <1>1, <1>2, StepClaims


-------------------------------------------------------------------------------
(* What stands behind a success.                                           *)

LEMMA BackedInit == Init => Backed
BY DEF Init, Backed, Busy, Idle

\* Steps that accept nothing and report nothing, and leave busy workers as they are.
LEMMA BackedStays ==
    ASSUME Backed, UNCHANGED <<channel, accepted, emitted>>,
           \A w \in Workers : Busy(w)' =>
               Busy(w) /\ worker'[w].job = worker[w].job /\ worker'[w].result = worker[w].result
    PROVE  Backed'
BY DEF Backed

LEMMA SendBacked ==
    ASSUME Core, Backed, NEW w \in Workers, Send(w)
    PROVE  Backed'
<1> DEFINE d == worker[w].job
<1>1. /\ worker[w].pc # "idle" /\ UNCHANGED <<channel, emitted>>
      /\ worker[w] \in WorkerType /\ worker \in [Workers -> WorkerType]
  BY DEF Send, world, Core, TypeOK
<1>2. Busy(w) /\ d \in Deliveries /\ channel[d[1]] = "EMAIL"
  BY <1>1, BusyJob DEF Backed
<1>3. PICK result \in {"success", "transient", "permanent"} :
         /\ worker' = [worker EXCEPT ![w].pc = "finish", ![w].result = result]
         /\ result = "success" => accepted' = [accepted EXCEPT ![d] = @ \cup {worker[w].envelope}]
         /\ accepted' \in {accepted, [accepted EXCEPT ![d] = @ \cup {worker[w].envelope}]}
  BY DEF Send
<1>4. /\ worker'[w].job = d /\ worker'[w].result = result
      /\ \A v \in Workers \ {w} : worker'[v] = worker[v]
  BY <1>1, <1>3 DEF WorkerType
<1>5. /\ \A f \in Deliveries : accepted[f] \subseteq accepted'[f]
      /\ \A f \in Deliveries \ {d} : accepted'[f] = accepted[f]
      /\ result = "success" => accepted'[d] # {}
  <2>1. accepted \in [Deliveries -> SUBSET Envelopes]
    BY DEF Core, TypeOK
  <2>2. CASE accepted' = accepted /\ result # "success"
    BY <2>2
  <2>3. CASE accepted' = [accepted EXCEPT ![d] = @ \cup {worker[w].envelope}]
    <3>1. accepted'[d] = accepted[d] \cup {worker[w].envelope}
      BY <1>2, <2>1, <2>3
    <3>2. \A f \in Deliveries \ {d} : accepted'[f] = accepted[f]
      BY <2>1, <2>3
    <3> QED BY <3>1, <3>2
  <2> QED BY <1>3, <2>2, <2>3
<1>6. \A v \in Workers \ {w} : Busy(v)' => Busy(v) /\ worker[v].job \in Deliveries
  BY <1>4 DEF Busy, Core, TypeOK
<1>7. \A v \in Workers : Busy(v)' /\ worker'[v].result = "success" => accepted'[worker'[v].job] # {}
  BY <1>2, <1>4, <1>5, <1>6 DEF Backed
<1>8. \A v \in Workers : Busy(v)' => channel[worker'[v].job[1]] = "EMAIL"
  BY <1>2, <1>4, <1>6 DEF Backed
<1>9. \A f \in Deliveries : channel[f[1]] = "IN_APP" => accepted'[f] = {}
  BY <1>2, <1>5 DEF Backed
<1>10. \A f \in Deliveries : emitted[f] # <<>> => accepted'[f] # {}
  BY <1>5 DEF Backed
<1> QED BY <1>1, <1>7, <1>8, <1>9, <1>10 DEF Backed

LEMMA BackedStep ==
    ASSUME Core, Backed, [Next]_vars
    PROVE  Backed'
<1>0. worker \in [Workers -> WorkerType] /\ Idle.pc = "idle"
  BY DEF Core, TypeOK, Idle
<1>1. CASE UNCHANGED <<channel, accepted, emitted, worker>>
  BY <1>1, BackedStays DEF Busy
<1>2. ASSUME NEW w \in Workers, worker' = [worker EXCEPT ![w] = Idle],
             UNCHANGED <<channel, accepted, emitted>>
      PROVE  Backed'
  <2>1. \A v \in Workers : Busy(v)' => Busy(v) /\ worker'[v] = worker[v]
    BY <1>0, <1>2 DEF Busy
  <2> QED BY <1>2, <2>1, BackedStays
<1>3. CASE \E w \in Workers : WorkerStep(w)
  <2> PICK w \in Workers : WorkerStep(w)
    BY <1>3
  <2>1. CASE FinishDelivery(w) \/ FinishRevoked(w)
    BY <1>2, <2>1 DEF FinishDelivery, FinishRevoked, world, cloud
  <2>2. CASE RecheckAncestors(w) \/ RecheckRecipient(w)
    <3>1. worker[w].pc # "idle" /\ UNCHANGED <<channel, accepted, emitted>>
      BY <2>2 DEF RecheckAncestors, RecheckRecipient, world, cloud
    <3>2. \E pc : worker' = [worker EXCEPT ![w].pc = pc]
      BY <2>2 DEF RecheckAncestors, RecheckRecipient, Goto
    <3>3. \A v \in Workers : worker'[v].job = worker[v].job /\ worker'[v].result = worker[v].result
      BY <1>0, <3>2 DEF WorkerType
    <3>4. \A v \in Workers : v # w => worker'[v] = worker[v]
      BY <1>0, <3>2
    <3> QED BY <3>1, <3>3, <3>4, BackedStays DEF Busy
  <2>3. CASE Send(w)
    BY <2>3, SendBacked
  <2> QED BY <2>1, <2>2, <2>3 DEF WorkerStep
<1>4. CASE \E w \in Workers : Crash(w)
  BY <1>2, <1>4 DEF Crash, world, cloud
<1>5. CASE \E w \in Workers, d \in Deliveries : DispatchSignal(w, d) \/ DispatchDue(w, d)
  <2> PICK w \in Workers, d \in Deliveries : ClaimDelivery(w, d)
    BY <1>5 DEF DispatchSignal, DispatchDue
  <2>1. UNCHANGED <<channel, accepted, emitted>>
    BY DEF ClaimDelivery, world, cloud
  <2>2. CASE worker' = worker
    BY <1>1, <2>1, <2>2
  <2>3. CASE ClaimTaken(w, d)
    <3>1. /\ worker'[w].job = d /\ worker'[w].result = "none" /\ channel[d[1]] = "EMAIL"
          /\ \A v \in Workers \ {w} : worker'[v] = worker[v]
      BY <1>0, <2>3 DEF ClaimTaken
    <3> QED BY <2>1, <3>1 DEF Backed, Busy
  <2> QED BY <2>2, <2>3 DEF ClaimDelivery, ClaimBlocked, ClaimIgnored, ClaimRefused, ClaimInbox
<1>6. CASE \E d \in Deliveries : ProviderReports(d)
  <2> PICK d \in Deliveries : ProviderReports(d)
    BY <1>6
  <2> PICK e : emitted' = [emitted EXCEPT ![d] = Append(emitted[d], e)]
    BY DEF ProviderReports
  <2>2. accepted[d] # {} /\ UNCHANGED <<channel, accepted, worker>>
    BY DEF ProviderReports, world
  <2>1. \A f \in Deliveries \ {d} : emitted'[f] = emitted[f]
    BY DEF Core, TypeOK
  <2> QED BY <2>1, <2>2 DEF Backed, Busy
<1>7. CASE \/ \E s \in Sources : CreateDelivery(s)
           \/ \E d \in Deliveries :
                \/ LoseSignal(d) \/ LeaseExpires(d) \/ BackoffElapses(d)
                \/ RequestDeliveryRetry(d)
                \/ \E instant \in 1 .. MaxEvents : ProcessResendEvent(d, instant)
           \/ \E w \in Workers : BeatScan(w)
           \/ Change \/ UNCHANGED vars
  <2>1. UNCHANGED <<channel, accepted, emitted, worker>>
    BY <1>7 DEF CreateDelivery, LoseSignal, LeaseExpires, BackoffElapses, world, cloud,
                RequestDeliveryRetry, ProcessResendEvent, BeatScan, Change, vars
  <2> QED BY <1>1, <2>1
<1> QED BY <1>3, <1>4, <1>5, <1>6, <1>7 DEF Next

LEMMA SuccessStep ==
    ASSUME Core, SuccessIsReal, Moved, channel' = channel
    PROVE  SuccessIsReal'
<1>0. log \in [Deliveries -> LogType] /\ accepted \in [Deliveries -> SUBSET Envelopes]
  BY DEF Core, TypeOK
<1>1. CASE Quiet
  BY <1>1 DEF Quiet, rows, SuccessIsReal
<1>2. CASE \E d \in Deliveries : HandedOver(d)
  BY <1>0, <1>2 DEF HandedOver, rows, SuccessIsReal
<1>3. CASE \E s \in Sources : Recorded(s)
  <2> PICK s \in Sources, l \in {NewLog("PENDING"), Inboxed(NewLog("PENDING"))} :
         /\ log' = [log EXCEPT ![<<s, 1>>] = l] /\ accepted' = accepted
         /\ l = NewLog("PENDING") \/ channel[s] = "IN_APP"
    BY <1>3 DEF Recorded, Noticed
  <2>1. l.status = "PENDING" \/ channel[s] = "IN_APP"
    BY DEF NewLog
  <2> QED BY <1>0, <2>1, FirstGeneration DEF SuccessIsReal
<1>4. CASE \E d \in Deliveries : Restarted(d)
  <2>1. NewLog("PENDING").status = "PENDING"
    BY DEF NewLog
  <2> QED BY <1>0, <1>4, <2>1 DEF Restarted, SuccessIsReal
<1>5. CASE \E d \in Deliveries : Rewritten(d)
  BY <1>0, <1>5 DEF Rewritten, Founded, SuccessIsReal
<1> QED BY <1>1, <1>2, <1>3, <1>4, <1>5 DEF Moved

-------------------------------------------------------------------------------
(* Notices of the application.                                             *)

\* A source whose notice is in the inbox has a delivered row to show for it.
Noted ==
    \A s \in Sources :
        \/ inbox[s] = 0
        \/ /\ inbox[s] = 1 /\ channel[s] = "IN_APP"
           /\ \E g \in 1 .. MaxGenerations : log[<<s, g>>].status = "DELIVERED"

LEMMA NotedStep ==
    ASSUME Core, OneOpenGeneration, Backed, Noted, Moved, channel' = channel
    PROVE  Noted'
<1>0. /\ log \in [Deliveries -> LogType] /\ inbox \in [Sources -> Nat]
      /\ channel \in [Sources -> {"EMAIL", "IN_APP"}]
  BY DEF Core, TypeOK
<1> SUFFICES ASSUME NEW s \in Sources
             PROVE  \/ inbox'[s] = 0
                    \/ /\ inbox'[s] = 1 /\ channel[s] = "IN_APP"
                       /\ \E g \in 1 .. MaxGenerations : log'[<<s, g>>].status = "DELIVERED"
  BY DEF Noted
<1>1. /\ inbox[s] \in Nat
      /\ \/ inbox[s] = 0
         \/ /\ inbox[s] = 1 /\ channel[s] = "IN_APP"
            /\ \E g \in 1 .. MaxGenerations : log[<<s, g>>].status = "DELIVERED"
  BY <1>0 DEF Noted
\* A delivered row is closed, and so are those before it.
<1>2. ASSUME NEW g \in 1 .. MaxGenerations, NEW h \in 1 .. MaxGenerations,
             log[<<s, g>>].status = "DELIVERED", h <= g
      PROVE  log[<<s, h>>].dispatch \notin Open \cup {"ABSENT"}
  <2>1. <<s, g>> \in Deliveries
    BY DEF Deliveries
  <2>2. log[<<s, g>>].dispatch \notin Open \cup {"ABSENT"}
    BY <1>2, <2>1 DEF Core, OpenIsUnanswered, AbsentIsBlank, NewLog
  <2>3. CASE h = g
    BY <2>2, <2>3
  <2>4. CASE h < g
    BY <2>2, <2>4 DEF OneOpenGeneration, Settled, Open
  <2> QED BY <1>2, <2>3, <2>4
<1>3. CASE Quiet
  BY <1>1, <1>3 DEF Quiet, rows
<1>4. CASE \E d \in Deliveries : HandedOver(d)
  BY <1>1, <1>4 DEF HandedOver, rows
<1>5. CASE \E r \in Sources : Recorded(r)
  <2> PICK r \in Sources, l \in {NewLog("PENDING"), Inboxed(NewLog("PENDING"))} :
         /\ log[<<r, 1>>].dispatch = "ABSENT" /\ log' = [log EXCEPT ![<<r, 1>>] = l]
         /\ IF l = NewLog("PENDING") THEN inbox' = inbox ELSE Noticed(r)
    BY <1>5 DEF Recorded
  <2>1. CASE r # s
    <3>1. inbox'[s] = inbox[s] /\ \A g \in 1 .. MaxGenerations : log'[<<s, g>>] = log[<<s, g>>]
      BY <1>0, <2>1 DEF Deliveries, Noticed
    <3> QED BY <1>1, <3>1
  <2>2. CASE r = s
    <3>1. 1 \in 1 .. MaxGenerations /\ \A g \in 1 .. MaxGenerations : 1 <= g
      BY OutboxAssumption
    <3>2. inbox[s] = 0
      BY <1>1, <1>2, <2>2, <3>1
    <3>3. CASE l = NewLog("PENDING")
      BY <3>2, <3>3
    <3>4. CASE l # NewLog("PENDING")
      <4>1. l = Inboxed(NewLog("PENDING")) /\ Noticed(s)
        BY <2>2, <3>4
      <4>2. l.status = "DELIVERED"
        BY <4>1 DEF Inboxed, NewLog
      <4>3. log'[<<s, 1>>] = l
        BY <1>0, <2>2, FirstGeneration
      <4>4. inbox'[s] = 1 /\ channel[s] = "IN_APP"
        BY <1>0, <3>2, <4>1 DEF Noticed
      <4> QED BY <3>1, <4>2, <4>3, <4>4
    <3> QED BY <3>3, <3>4
  <2> QED BY <2>1, <2>2
<1>6. CASE \E d \in Deliveries : Restarted(d)
  <2> PICK d \in Deliveries : Restarted(d)
    BY <1>6
  <2>1. PICK next \in Deliveries : /\ log[next].dispatch = "ABSENT" /\ inbox' = inbox
                                   /\ log' = [log EXCEPT ![next] = NewLog("PENDING")]
    BY DEF Restarted
  <2>2. log[next].status = "PENDING"
    BY <2>1 DEF Core, AbsentIsBlank, NewLog
  <2>3. \A g \in 1 .. MaxGenerations :
          log[<<s, g>>].status = "DELIVERED" => log'[<<s, g>>] = log[<<s, g>>]
    BY <1>0, <2>1, <2>2 DEF Deliveries
  <2> QED BY <1>1, <2>1, <2>3
<1>7. CASE \E d \in Deliveries : Rewritten(d)
  <2> PICK d \in Deliveries, l \in LogType :
         log' = [log EXCEPT ![d] = l] /\ Founded(d, l) /\ Told(d, l)
    BY <1>7 DEF Rewritten
  <2>1. d[1] \in Sources /\ d[2] \in 1 .. MaxGenerations /\ d = <<d[1], d[2]>>
    BY DeliveryParts
  <2>2. ASSUME NEW g \in 1 .. MaxGenerations, log[<<s, g>>].status = "DELIVERED", channel[s] = "IN_APP"
        PROVE  log'[<<s, g>>].status = "DELIVERED"
    <3>1. CASE d = <<s, g>>
      <4>1. accepted[d] = {} /\ d[1] = s
        BY <2>2, <3>1 DEF Backed
      <4> QED BY <1>0, <2>2, <3>1, <4>1 DEF Founded
    <3>2. CASE d # <<s, g>>
      BY <1>0, <2>2, <3>2 DEF Deliveries
    <3> QED BY <3>1, <3>2
  <2>3. CASE inbox'[s] = inbox[s]
    BY <1>1, <2>2, <2>3
  <2>4. CASE inbox'[s] # inbox[s]
    <3>1. /\ d[1] = s /\ Noticed(s) /\ l.status = "DELIVERED"
          /\ log[d].dispatch \in Open /\ ~PreviousSucceeded(d)
      BY <1>0, <2>1, <2>4 DEF Told, Noticed
    <3>2. ASSUME NEW g \in 1 .. MaxGenerations, log[<<s, g>>].status = "DELIVERED"
          PROVE  FALSE
      <4>1. CASE g < d[2]
        <5>1. g \in 1 .. (d[2] - 1)
          BY <2>1, <4>1
        <5> QED BY <3>1, <3>2, <5>1 DEF PreviousSucceeded, Confirmed
      <4>2. CASE d[2] <= g
        BY <1>2, <2>1, <3>1, <3>2, <4>2
      <4> QED BY <2>1, <4>1, <4>2
    <3>3. inbox[s] = 0
      BY <1>1, <3>2
    <3>4. inbox'[s] = 1 /\ channel[s] = "IN_APP" /\ log'[<<s, d[2]>>].status = "DELIVERED"
      BY <1>0, <2>1, <3>1, <3>3 DEF Noticed
    <3> QED BY <2>1, <3>4
  <2> QED BY <2>3, <2>4
<1> QED BY <1>3, <1>4, <1>5, <1>6, <1>7 DEF Moved

-------------------------------------------------------------------------------
(* Reminders.                                                              *)

LEMMA ReminderStep ==
    ASSUME Core, OneOpenGeneration, ReminderShowsCurrent, Moved
    PROVE  ReminderShowsCurrent'
<1>0. /\ log \in [Deliveries -> LogType] /\ reminder \in [Sources -> ReminderType]
      /\ MaxGenerations \in Nat \ {0}
  BY OutboxAssumption DEF Core, TypeOK, ReminderType
<1> DEFINE Gens == 1 .. MaxGenerations
           Shows(s, table, r) ==
              /\ r.current \in Gens
              /\ r.status = Project(table[<<s, r.current>>])
              /\ \A h \in Gens : table[<<s, h>>].dispatch # "ABSENT" <=> h <= r.current
<1>1. ASSUME NEW s \in Sources
      PROVE  \A g : <<s, g>> \in Deliveries <=> g \in Gens
  BY DEF Deliveries
<1> SUFFICES ASSUME NEW s \in Reminders, log'[<<s, 1>>].dispatch # "ABSENT"
             PROVE  Shows(s, log', reminder'[s])
  BY <1>1, OutboxAssumption DEF ReminderShowsCurrent
<1>2. s \in Sources /\ 1 \in Gens /\ <<s, 1>> \in Deliveries
  BY <1>0, <1>1, OutboxAssumption
<1>3. log[<<s, 1>>].dispatch # "ABSENT" => Shows(s, log, reminder[s])
  BY <1>1, <1>2 DEF ReminderShowsCurrent
<1>4. ASSUME \A h \in Gens : log'[<<s, h>>] = log[<<s, h>>], reminder'[s] = reminder[s]
      PROVE  Shows(s, log', reminder'[s])
  BY <1>2, <1>3, <1>4
<1>5. CASE Quiet \/ \E d \in Deliveries : HandedOver(d)
  <2>1. log' = log /\ reminder' = reminder
    BY <1>5 DEF Quiet, HandedOver, rows
  <2> QED BY <1>4, <2>1
<1>6. CASE \E r \in Sources : Recorded(r)
  <2> PICK r \in Sources, l \in {NewLog("PENDING"), Inboxed(NewLog("PENDING"))} :
         /\ log[<<r, 1>>].dispatch = "ABSENT" /\ log' = [log EXCEPT ![<<r, 1>>] = l]
         /\ reminder' = IF r \in Reminders
                        THEN [reminder EXCEPT ![r] = [current |-> 1, status |-> Project(l)]]
                        ELSE reminder
    BY <1>6 DEF Recorded
  <2>1. CASE r # s
    <3>1. reminder'[s] = reminder[s] /\ \A h \in Gens : log'[<<s, h>>] = log[<<s, h>>]
      BY <1>0, <1>1, <1>2, <2>1
    <3> QED BY <1>4, <3>1
  <2>2. CASE r = s
    <3>1. \A h \in Gens \ {1} : log'[<<s, h>>] = log[<<s, h>>] /\ log[<<s, h>>].dispatch = "ABSENT"
      <4> SUFFICES ASSUME NEW h \in Gens \ {1}
                   PROVE  log'[<<s, h>>] = log[<<s, h>>] /\ log[<<s, h>>].dispatch = "ABSENT"
        OBVIOUS
      <4>1. 1 < h
        BY <1>0
      <4> QED BY <1>0, <1>1, <1>2, <2>2, <4>1 DEF OneOpenGeneration, Settled
    <3>2. log'[<<s, 1>>] = l /\ reminder'[s] = [current |-> 1, status |-> Project(l)]
      BY <1>0, <1>2, <2>2
    <3>3. l.dispatch # "ABSENT"
      BY <3>2
    <3>4. \A h \in Gens : h <= 1 <=> h = 1
      BY <1>0
    <3> QED BY <1>2, <3>1, <3>2, <3>3, <3>4
  <2> QED BY <2>1, <2>2
<1>7. CASE \E d \in Deliveries : Restarted(d)
  <2> PICK d \in Deliveries : Restarted(d)
    BY <1>7
  <2> DEFINE n == d[2] + 1
  <2>1. /\ d[1] \in Sources /\ d[2] \in Gens /\ d = <<d[1], d[2]>>
        /\ <<d[1], n>> \in Deliveries /\ log[d].dispatch \in Settled
        /\ log[<<d[1], n>>].dispatch = "ABSENT"
        /\ log' = [log EXCEPT ![<<d[1], n>>] = NewLog("PENDING")]
        /\ reminder' = SuccessorAttached(d)
    BY DeliveryParts DEF Restarted
  <2>2. CASE d[1] # s
    <3>1. reminder'[s] = reminder[s]
      BY <1>0, <1>2, <2>1, <2>2 DEF SuccessorAttached
    <3>2. \A h \in Gens : log'[<<s, h>>] = log[<<s, h>>]
      BY <1>0, <1>1, <1>2, <2>1, <2>2
    <3> QED BY <1>4, <3>1, <3>2
  <2>3. CASE d[1] = s
    <3>1. log[<<s, 1>>].dispatch # "ABSENT"
      <4>1. CASE d[2] = 1
        BY <2>1, <2>3, <4>1 DEF Settled
      <4>2. CASE d[2] # 1
        <5>1. 1 < d[2] /\ log[<<s, d[2]>>].dispatch # "ABSENT"
          BY <1>0, <2>1, <2>3, <4>2 DEF Settled
        <5> QED BY <1>2, <2>1, <5>1 DEF OneOpenGeneration, Settled
      <4> QED BY <4>1, <4>2
    <3>2. Shows(s, log, reminder[s])
      BY <1>3, <3>1
    <3>3. n \in Gens
      BY <1>1, <2>1
    <3>4. reminder[s].current = d[2]
      <4>1. d[2] <= reminder[s].current
        BY <2>1, <2>3, <3>2 DEF Settled
      <4>2. ~(n <= reminder[s].current)
        BY <2>1, <2>3, <3>2, <3>3
      <4> QED BY <1>0, <2>1, <3>2, <4>1, <4>2
    <3>5. reminder'[s] = [current |-> n, status |-> "PENDING"]
      BY <1>0, <1>2, <2>1, <2>3, <3>4 DEF SuccessorAttached
    <3>6. log'[<<s, n>>] = NewLog("PENDING") /\ \A h \in Gens \ {n} : log'[<<s, h>>] = log[<<s, h>>]
      BY <1>0, <1>1, <1>2, <2>1, <2>3
    <3>7. Project(NewLog("PENDING")) = "PENDING" /\ NewLog("PENDING").dispatch # "ABSENT"
      BY DEF Project, NewLog, Confirmed
    <3>8. \A h \in Gens : h <= n <=> h = n \/ h <= d[2]
      BY <1>0, <2>1
    <3> HIDE DEF n
    <3> QED BY <3>2, <3>3, <3>4, <3>5, <3>6, <3>7, <3>8
  <2> QED BY <2>2, <2>3
<1>8. CASE \E d \in Deliveries : Rewritten(d)
  <2> PICK d \in Deliveries, l \in LogType :
         /\ log' = [log EXCEPT ![d] = l] /\ Shown(d, l)
         /\ Kept(log[d], l) \/ Claimed(log[d], l)
    BY <1>8 DEF Rewritten
  <2>0. d[1] \in Sources /\ d[2] \in Gens /\ d = <<d[1], d[2]>>
    BY DeliveryParts
  <2>1. log[d].dispatch # "ABSENT" /\ l.dispatch # "ABSENT"
    BY DEF Kept, Claimed, Open
  <2>2. \A h \in Gens : log'[<<s, h>>].dispatch # "ABSENT" <=> log[<<s, h>>].dispatch # "ABSENT"
    BY <1>0, <1>1, <1>2, <2>1
  <2>3. Shows(s, log, reminder[s])
    BY <1>2, <1>3, <2>2
  <2>4. CASE d = <<s, reminder[s].current>>
    <3>1. d[1] = s /\ d[2] = reminder[s].current /\ log'[d] = l
      BY <1>0, <2>4
    <3>2. reminder'[s].current = reminder[s].current /\ reminder'[s].status = Project(l)
      BY <1>0, <1>2, <2>3, <2>4, <3>1 DEF Shown, Synchronized, ReminderType
    <3> QED BY <2>2, <2>3, <2>4, <3>1, <3>2
  <2>5. CASE d # <<s, reminder[s].current>>
    <3>1. reminder'[s] = reminder[s]
      BY <1>0, <1>2, <2>0, <2>5 DEF Shown, Synchronized
    <3>2. log'[<<s, reminder[s].current>>] = log[<<s, reminder[s].current>>]
      BY <1>0, <1>1, <1>2, <2>3, <2>5
    <3> QED BY <2>2, <2>3, <3>1, <3>2
  <2> QED BY <2>4, <2>5
<1> QED BY <1>5, <1>6, <1>7, <1>8 DEF Moved

-------------------------------------------------------------------------------
(* The lease.                                                              *)

\* What makes a claimed row, whose lease runs, leave its claim.
Released(d) ==
    \/ receipts'[d] # receipts[d]
    \/ PreviousSucceeded(d) /\ log'[d].dispatch = "SKIPPED"
    \/ \E w \in Workers : /\ worker[w].job = d /\ worker[w].token = log[d].token
                          /\ worker'[w] = Idle

LEMMA LeaseStep ==
    ASSUME Core, [Next]_vars, NEW d \in Deliveries,
           log[d].dispatch = "PROCESSING", log[d].leased,
           <<log'[d].dispatch, log'[d].token>> # <<log[d].dispatch, log[d].token>>
    PROVE  Released(d)
<1>0. /\ log \in [Deliveries -> LogType] /\ log'[d] # log[d] /\ log[d].dispatch # "ABSENT"
      /\ worker \in [Workers -> WorkerType]
      /\ receipts \in [Deliveries -> SUBSET (1 .. MaxEvents)]
  BY DEF Core, TypeOK
<1>1. CASE \E s \in Sources : CreateDelivery(s)
  BY <1>0, <1>1 DEF CreateDelivery
<1>2. CASE \E f \in Deliveries : RequestDeliveryRetry(f)
  BY <1>0, <1>2 DEF RequestDeliveryRetry
<1>3. CASE \E w \in Workers, f \in Deliveries : DispatchSignal(w, f) \/ DispatchDue(w, f)
  <2> PICK w \in Workers, f \in Deliveries : ClaimDelivery(w, f)
    BY <1>3 DEF DispatchSignal, DispatchDue
  <2>1. f = d
    BY <1>0 DEF ClaimDelivery, ClaimBlocked, ClaimIgnored, ClaimRefused, ClaimInbox, ClaimTaken,
                Skip, Persist, rows
  <2>2. ClaimBlocked(d)
    BY <1>0, <2>1 DEF ClaimDelivery, ClaimIgnored, ClaimRefused, ClaimInbox, ClaimTaken,
                      Claimable, rows
  <2>3. log'[d].dispatch = "SKIPPED"
    BY <1>0, <2>2 DEF ClaimBlocked, Skip, Persist, LogType
  <2> QED BY <2>2, <2>3 DEF ClaimBlocked, Released
<1>4. CASE \E w \in Workers : WorkerStep(w)
  <2> PICK w \in Workers : FinishDelivery(w) \/ FinishRevoked(w)
    BY <1>0, <1>4 DEF WorkerStep, RecheckAncestors, RecheckRecipient, Send, rows
  <2>1. worker[w].job = d /\ worker[w].token = log[d].token
    BY <1>0 DEF FinishDelivery, FinishRevoked, HoldsLease, Skip, Persist
  <2>2. worker'[w] = Idle
    BY <1>0 DEF FinishDelivery, FinishRevoked
  <2> QED BY <2>1, <2>2 DEF Released
<1>5. CASE \E f \in Deliveries : LeaseExpires(f) \/ BackoffElapses(f)
  <2>1. log'[d] \in {log[d], [log[d] EXCEPT !.leased = FALSE], [log[d] EXCEPT !.waiting = FALSE]}
    BY <1>0, <1>5 DEF LeaseExpires, BackoffElapses
  <2> QED BY <1>0, <2>1 DEF LogType
<1>6. CASE \E f \in Deliveries, instant \in 1 .. MaxEvents : ProcessResendEvent(f, instant)
  <2> PICK f \in Deliveries, instant \in 1 .. MaxEvents : ProcessResendEvent(f, instant)
    BY <1>6
  <2>1. f = d
    BY <1>0 DEF ProcessResendEvent, Persist
  <2>2. instant \in receipts'[d] /\ instant \notin receipts[d]
    BY <1>0, <2>1 DEF ProcessResendEvent
  <2> QED BY <2>2 DEF Released
<1>7. CASE \/ \E f \in Deliveries : LoseSignal(f) \/ ProviderReports(f)
           \/ \E w \in Workers : BeatScan(w) \/ Crash(w)
           \/ Change \/ UNCHANGED vars
  BY <1>0, <1>7 DEF LoseSignal, ProviderReports, BeatScan, Crash, Change, vars, rows
<1> QED BY <1>1, <1>2, <1>3, <1>4, <1>5, <1>6, <1>7 DEF Next

-------------------------------------------------------------------------------
(* The refinement.                                                         *)

LEMMA PromiseInit == Init => Promise!Init
BY DEF Init, Promise!Init, Promise!Intentions, Deliveries, NewLog, Phase, Outcome, Open

Phases   == [d \in Deliveries |-> Phase(log[d])]
Sent     == [d \in Deliveries |-> log[d].envelope]
Outcomes == [d \in Deliveries |-> Outcome(log[d])]

\* A row replaced by another: the abstract columns change at its place only.
LEMMA RowReplaced ==
    ASSUME Core, NEW d \in Deliveries, NEW l \in LogType, log' = [log EXCEPT ![d] = l]
    PROVE  /\ Phases' = [Phases EXCEPT ![d] = Phase(l)]
           /\ Sent' = [Sent EXCEPT ![d] = l.envelope]
           /\ Outcomes' = [Outcomes EXCEPT ![d] = Outcome(l)]
<1>1. \A f \in Deliveries : log'[f] = IF f = d THEN l ELSE log[f]
  BY DEF Core, TypeOK
<1>2. Phases' = [f \in Deliveries |-> IF f = d THEN Phase(l) ELSE Phase(log[f])]
  BY <1>1 DEF Phases
<1>3. Sent' = [f \in Deliveries |-> IF f = d THEN l.envelope ELSE log[f].envelope]
  BY <1>1 DEF Sent
<1>4. Outcomes' = [f \in Deliveries |-> IF f = d THEN Outcome(l) ELSE Outcome(log[f])]
  BY <1>1 DEF Outcomes
<1> QED BY <1>2, <1>3, <1>4 DEF Phases, Sent, Outcomes

\* The abstract columns that stay, and the abstract columns at one row.
LEMMA Columns ==
    /\ log' = log => UNCHANGED <<Phases, Sent, Outcomes>>
    /\ \A d \in Deliveries : /\ Phases[d] = Phase(log[d]) /\ Sent[d] = log[d].envelope
                             /\ Outcomes[d] = Outcome(log[d])
BY DEF Phases, Sent, Outcomes

\* Replacing a column's value by itself changes nothing.
LEMMA SameColumn ==
    ASSUME NEW d \in Deliveries
    PROVE  /\ [Phases EXCEPT ![d] = Phases[d]] = Phases
           /\ [Sent EXCEPT ![d] = Sent[d]] = Sent
           /\ [Outcomes EXCEPT ![d] = Outcomes[d]] = Outcomes
BY DEF Phases, Sent, Outcomes

LEMMA RecordedPromise ==
    ASSUME Core, NEW s \in Sources, Recorded(s)
    PROVE  Promise!Record(s)
<1> DEFINE d == <<s, 1>>
           new == NewLog("PENDING")
<1>1. d \in Deliveries /\ log[d].dispatch = "ABSENT" /\ accepted' = accepted
  BY FirstGeneration DEF Recorded
<1>2. PICK l \in {new, Inboxed(new)} : log' = [log EXCEPT ![d] = l]
  BY DEF Recorded
<1>a. new \in LogType /\ new.envelope = NoEnvelope
  BY NewLogType DEF NewLog
<1> HIDE DEF new
<1>b. Inboxed(new) \in LogType /\ Inboxed(new).envelope = new.envelope
  BY <1>a, InboxedType DEF Inboxed, LogType
<1>3. l \in LogType /\ l.envelope = NoEnvelope
  BY <1>2, <1>a, <1>b
<1> USE DEF new
<1>4. /\ Phases' = [Phases EXCEPT ![d] = Phase(l)] /\ Sent' = [Sent EXCEPT ![d] = NoEnvelope]
      /\ Outcomes' = [Outcomes EXCEPT ![d] = Outcome(l)]
  BY <1>1, <1>2, <1>3, RowReplaced
<1>5. Phases[d] = "absent" /\ Sent[d] = NoEnvelope /\ Outcomes[d] = "unknown"
  BY <1>1, Columns DEF Core, AbsentIsBlank, NewLog, Phase, Outcome
<1>6. Sent' = Sent
  BY <1>1, <1>4, <1>5, SameColumn
<1>7. CASE l = new
  <2>1. Phase(l) = "open" /\ Outcome(l) = "unknown"
    BY <1>7 DEF NewLog, Phase, Outcome, Open
  <2>2. Outcomes' = Outcomes
    BY <1>1, <1>4, <1>5, <2>1, SameColumn
  <2> QED BY <1>1, <1>4, <1>5, <1>6, <2>1, <2>2 DEF Promise!Record, Phases, Sent, Outcomes
<1>8. CASE l = Inboxed(new)
  <2>1. Phase(l) = "settled" /\ Outcome(l) = "final"
    BY <1>8 DEF NewLog, Inboxed, Phase, Outcome, Open, Final
  <2> QED BY <1>1, <1>4, <1>5, <1>6, <2>1 DEF Promise!Record, Phases, Sent, Outcomes
<1> QED BY <1>2, <1>7, <1>8

LEMMA RestartedPromise ==
    ASSUME Core, NEW d \in Deliveries, Restarted(d)
    PROVE  Promise!Restart(d[1], d[2])
<1> DEFINE next == <<d[1], d[2] + 1>>
           l == NewLog("PENDING")
<1>1. /\ next \in Deliveries /\ log[d].dispatch \in Settled /\ log[next].dispatch = "ABSENT"
      /\ log' = [log EXCEPT ![next] = l] /\ accepted' = accepted
      /\ d = <<d[1], d[2]>> /\ d[2] + 1 \in 1 .. MaxGenerations
  BY DeliveryParts DEF Restarted, Deliveries
<1>2. l \in LogType /\ l.envelope = NoEnvelope /\ Phase(l) = "open" /\ Outcome(l) = "unknown"
  BY NewLogType DEF NewLog, Phase, Outcome, Open
<1>3. /\ Phases[d] = "settled" /\ Phases[next] = "absent"
      /\ Sent[next] = NoEnvelope /\ Outcomes[next] = "unknown"
  BY <1>1, Columns DEF Core, AbsentIsBlank, NewLog, Phase, Outcome, Open, Settled
<1> HIDE DEF l, next
<1>a. /\ Phases' = [Phases EXCEPT ![next] = Phase(l)]
      /\ Sent' = [Sent EXCEPT ![next] = l.envelope]
      /\ Outcomes' = [Outcomes EXCEPT ![next] = Outcome(l)]
  BY <1>1, <1>2, RowReplaced
<1>4. /\ Phases' = [Phases EXCEPT ![next] = "open"]
      /\ Sent' = [Sent EXCEPT ![next] = NoEnvelope] /\ Outcomes' = [Outcomes EXCEPT ![next] = "unknown"]
  BY <1>2, <1>a
<1>5. Sent' = Sent /\ Outcomes' = Outcomes
  BY <1>1, <1>3, <1>4, SameColumn
<1> USE DEF next
<1> QED BY <1>1, <1>3, <1>4, <1>5 DEF Promise!Restart, Phases, Sent, Outcomes

LEMMA RewrittenPromise ==
    ASSUME Core, NEW d \in Deliveries, Rewritten(d)
    PROVE  Promise!Settle(d) \/ Promise!ChooseContent(d) \/ UNCHANGED Promise!dvars
<1> PICK l \in LogType : log' = [log EXCEPT ![d] = l] /\ (Kept(log[d], l) \/ Claimed(log[d], l))
  BY DEF Rewritten
<1>0. accepted' = accepted /\ log[d] \in LogType
  BY DEF Rewritten, Core, TypeOK
<1>1. /\ Phases' = [Phases EXCEPT ![d] = Phase(l)] /\ Sent' = [Sent EXCEPT ![d] = l.envelope]
      /\ Outcomes' = [Outcomes EXCEPT ![d] = Outcome(l)]
  BY RowReplaced
<1>2. Phases[d] = Phase(log[d]) /\ Sent[d] = log[d].envelope /\ Outcomes[d] = Outcome(log[d])
  BY Columns
<1>3. ASSUME Phase(l) = Phase(log[d]), Outcome(l) = Outcome(log[d])
      PROVE  Phases' = Phases /\ Outcomes' = Outcomes
  BY <1>1, <1>2, <1>3, SameColumn
<1>4. CASE Kept(log[d], l)
  <2>1. Sent' = Sent
    BY <1>1, <1>2, <1>4, SameColumn DEF Kept, SameClaim
  <2>2. CASE l.dispatch \in Open
    <3>1. log[d].dispatch \in Open /\ log[d].status = "PENDING" /\ l.status = "PENDING"
      BY <1>0, <1>4, <2>2 DEF Kept, LogType, Open, Settled
    <3>2. Phase(l) = Phase(log[d]) /\ Outcome(l) = Outcome(log[d])
      BY <2>2, <3>1 DEF Phase, Outcome, Open
    <3> QED BY <1>0, <1>3, <2>1, <3>2 DEF Promise!dvars, Phases, Sent, Outcomes
  <2>3. CASE l.dispatch \notin Open
    <3>1. Phase(l) = "settled" /\ Phase(log[d]) # "absent"
      BY <1>4, <2>3 DEF Kept, Phase
    <3>2. /\ Outcome(l) \in {"unknown", "taken", "final"}
          /\ Outcome(log[d]) = "taken" => Outcome(l) # "unknown"
          /\ Outcome(log[d]) = "final" => Outcome(l) = "final"
      BY <1>0, <1>4 DEF Kept, Outcome, LogType, Statuses, Confirmed, Final, Undelivered
    <3> QED BY <1>0, <1>1, <1>2, <2>1, <3>1, <3>2
            DEF Promise!Settle, Promise!Advances, Phases, Sent, Outcomes
  <2> QED BY <2>2, <2>3
<1>5. CASE Claimed(log[d], l)
  <2>1. /\ Phase(l) = "open" /\ Phase(log[d]) = "open" /\ Outcome(l) = Outcome(log[d])
        /\ l.envelope \in Envelopes /\ log[d].envelope \in {NoEnvelope, l.envelope}
    BY <1>5 DEF Claimed, Phase, Outcome, Open
  <2>2. Phases' = Phases /\ Outcomes' = Outcomes
    BY <1>3, <2>1
  <2>3. CASE log[d].envelope = NoEnvelope
    BY <1>0, <1>1, <1>2, <2>1, <2>2, <2>3 DEF Promise!ChooseContent, Phases, Sent, Outcomes
  <2>4. CASE log[d].envelope = l.envelope
    <3>1. Sent' = Sent
      BY <1>1, <1>2, <2>4, SameColumn
    <3> QED BY <1>0, <2>2, <3>1 DEF Promise!dvars, Phases, Sent, Outcomes
  <2> QED BY <2>1, <2>3, <2>4
<1> QED BY <1>4, <1>5

LEMMA PromiseStep ==
    ASSUME Core, Moved
    PROVE  [Promise!Next]_(Promise!dvars)
<1>0. Promise!Intentions = Deliveries
  BY DEF Promise!Intentions, Deliveries
<1>1. CASE Quiet
  BY <1>1 DEF Quiet, rows, Promise!dvars
<1>2. CASE \E d \in Deliveries : HandedOver(d)
  <2> PICK d \in Deliveries : HandedOver(d)
    BY <1>2
  <2>1. Sent[d] = log[d].envelope /\ UNCHANGED <<Phases, Sent, Outcomes>>
    BY Columns DEF HandedOver, rows
  <2>2. Promise!HandOver(d)
    BY <2>1 DEF HandedOver, Promise!HandOver, Phases, Sent, Outcomes
  <2> QED BY <1>0, <2>2 DEF Promise!Next
<1>3. CASE \E s \in Sources : Recorded(s)
  BY <1>3, RecordedPromise DEF Promise!Next
<1>4. CASE \E d \in Deliveries : Restarted(d)
  <2> PICK d \in Deliveries : Restarted(d)
    BY <1>4
  <2>1. d[1] \in Sources /\ d[2] \in 1 .. MaxGenerations /\ Promise!Restart(d[1], d[2])
    BY RestartedPromise, DeliveryParts
  <2> QED BY <2>1 DEF Promise!Next
<1>5. CASE \E d \in Deliveries : Rewritten(d)
  BY <1>0, <1>5, RewrittenPromise DEF Promise!Next
<1> QED BY <1>1, <1>2, <1>3, <1>4, <1>5 DEF Moved

-------------------------------------------------------------------------------
(* The whole invariant, and what follows from it.                          *)

Whole ==
    /\ Core /\ Backed
    /\ OneOpenGeneration /\ ExclusiveClaim /\ SuccessIsReal /\ Noted /\ ReminderShowsCurrent

LEMMA WholeInit == Init => Whole
<1> SUFFICES ASSUME Init PROVE Whole
  OBVIOUS
<1>1. Core /\ Backed
  BY CoreInit, BackedInit
<1>2. \A d \in Deliveries : log[d].dispatch = "ABSENT" /\ log[d].status = "PENDING"
  BY DEF Init, NewLog
<1>a. \A s \in Sources, g \in 1 .. MaxGenerations : log[<<s, g>>].dispatch = "ABSENT"
  BY <1>2 DEF Deliveries
<1>b. \A s \in Reminders : log[<<s, 1>>].dispatch = "ABSENT"
  BY <1>2, FirstGeneration, OutboxAssumption
<1>c. ReminderShowsCurrent
  BY <1>b DEF ReminderShowsCurrent
<1>d. OneOpenGeneration
  BY <1>a DEF OneOpenGeneration
<1>3. OneOpenGeneration /\ ReminderShowsCurrent /\ SuccessIsReal
  BY <1>2, <1>c, <1>d DEF SuccessIsReal
<1>4. ExclusiveClaim
  BY DEF Init, ExclusiveClaim, Busy, Idle
<1>5. Noted
  BY DEF Init, Noted
<1> QED BY <1>1, <1>3, <1>4, <1>5 DEF Whole

\* The channel of a source is fixed when its first intention is recorded.
LEMMA ChannelStays ==
    ASSUME [Next]_vars
    PROVE  channel' = channel
<1>1. CASE \E w \in Workers, d \in Deliveries : DispatchSignal(w, d) \/ DispatchDue(w, d)
  BY <1>1 DEF DispatchSignal, DispatchDue, ClaimDelivery, world
<1>2. CASE \E w \in Workers : WorkerStep(w)
  BY <1>2 DEF WorkerStep, RecheckAncestors, RecheckRecipient, Send, FinishDelivery,
              FinishRevoked, world
<1>3. CASE \/ \E s \in Sources : CreateDelivery(s)
           \/ \E d \in Deliveries : LoseSignal(d) \/ LeaseExpires(d) \/ BackoffElapses(d)
           \/ \E d \in Deliveries : ProviderReports(d) \/ RequestDeliveryRetry(d)
           \/ \E w \in Workers : BeatScan(w) \/ Crash(w)
  BY <1>3 DEF CreateDelivery, LoseSignal, LeaseExpires, BackoffElapses, ProviderReports,
              RequestDeliveryRetry, BeatScan, Crash, world
<1>4. CASE \/ \E d \in Deliveries, instant \in 1 .. MaxEvents : ProcessResendEvent(d, instant)
           \/ Change \/ UNCHANGED vars
  BY <1>4 DEF ProcessResendEvent, Change, vars, world
<1> QED BY <1>1, <1>2, <1>3, <1>4 DEF Next

LEMMA WholeStep == Whole /\ [Next]_vars => Whole'
<1> SUFFICES ASSUME Whole, [Next]_vars PROVE Whole'
  OBVIOUS
<1>1. /\ Core /\ Backed /\ OneOpenGeneration /\ ExclusiveClaim /\ SuccessIsReal
      /\ Noted /\ ReminderShowsCurrent
  BY DEF Whole
<1>2. Moved /\ channel' = channel
  BY <1>1, StepMoves, ChannelStays
<1>3. Core' /\ Backed' /\ ExclusiveClaim'
  BY <1>1, CoreStep, BackedStep, ClaimStep
<1>4. OneOpenGeneration' /\ SuccessIsReal' /\ Noted' /\ ReminderShowsCurrent'
  BY <1>1, <1>2, ChainStep, SuccessStep, NotedStep, ReminderStep
<1> QED BY <1>3, <1>4 DEF Whole

\* Rows, workers, provider, inbox and reminders stay consistent under every
\* interleaving of claims, crashes, webhooks, recoveries and people.
THEOREM WholeInvariant == Spec => []Whole
<1>1. Init => Whole
  BY WholeInit
<1>2. Whole /\ [Next]_vars => Whole'
  BY WholeStep
<1> QED BY <1>1, <1>2, PTL DEF Spec

\* No two workers ever hold the same claim on a row (claim_delivery draws a
\* fresh lease token).
THEOREM ClaimsExclusive == Spec => []ExclusiveClaim
<1>1. Whole => ExclusiveClaim
  BY DEF Whole
<1> QED BY <1>1, WholeInvariant, PTL

\* A source has at most one open generation, whatever double clicks, late
\* webhooks and recoveries do (request_delivery_retry).
THEOREM OneGenerationOpen == Spec => []OneOpenGeneration
<1>1. Whole => OneOpenGeneration
  BY DEF Whole
<1> QED BY <1>1, WholeInvariant, PTL

\* A fact is told once in the application, through every generation and every
\* redelivered task (_create_inbox).
THEOREM OneNotice == Spec => []OneInboxPerSource
<1>1. Whole => OneInboxPerSource
  <2> SUFFICES ASSUME Whole, NEW s \in Sources PROVE inbox[s] <= 1
    BY DEF OneInboxPerSource
  <2>1. inbox[s] \in {0, 1}
    BY DEF Whole, Noted
  <2>2. \A n \in {0, 1} : n <= 1
    OBVIOUS
  <2> QED BY <2>1, <2>2
<1> QED BY <1>1, WholeInvariant, PTL

\* A row that says the provider took the message has an acceptance behind it
\* (record_channel_result, process_resend_event).
THEOREM SuccessesReal == Spec => []SuccessIsReal
<1>1. Whole => SuccessIsReal
  BY DEF Whole
<1> QED BY <1>1, WholeInvariant, PTL

\* The reminder row of another app shows the newest generation of its source
\* (DeliveryProjectionService).
THEOREM RemindersCurrent == Spec => []ReminderShowsCurrent
<1>1. Whole => ReminderShowsCurrent
  BY DEF Whole
<1> QED BY <1>1, WholeInvariant, PTL

LEMMA AdvanceStep ==
    ASSUME Core, Moved, NEW d \in Deliveries
    PROVE  /\ log[d].status \in Final => log'[d].status \in Final
           /\ log[d].status \in Confirmed => log'[d].status # "PENDING"
           /\ log[d].event <= log'[d].event
<1>0. log \in [Deliveries -> LogType] /\ log[d] \in LogType /\ log[d].event \in Nat
  BY DEF Core, TypeOK, LogType
<1>1. CASE log'[d] = log[d]
  BY <1>0, <1>1 DEF LogType, Confirmed
<1>2. CASE log[d].dispatch = "ABSENT" /\ log'[d].event \in Nat
  <2>1. log[d].status = "PENDING" /\ log[d].event = 0
    BY <1>2 DEF Core, AbsentIsBlank, NewLog
  <2> QED BY <1>2, <2>1 DEF Final, Undelivered, Confirmed
<1>3. CASE Quiet \/ \E f \in Deliveries : HandedOver(f)
  BY <1>1, <1>3 DEF Quiet, HandedOver, rows
<1>4. CASE \E s \in Sources : Recorded(s)
  <2> PICK s \in Sources : Recorded(s)
    BY <1>4
  <2>1. PICK l \in {NewLog("PENDING"), Inboxed(NewLog("PENDING"))} :
            log' = [log EXCEPT ![<<s, 1>>] = l]
    BY DEF Recorded
  <2>2. l.event \in Nat
    <3>1. CASE l = NewLog("PENDING")
      BY <3>1 DEF NewLog
    <3>2. CASE l = Inboxed(NewLog("PENDING"))
      BY <3>2, NewLogType, InboxedType DEF LogType
    <3> QED BY <2>1, <3>1, <3>2
  <2>3. CASE d = <<s, 1>>
    <3>1. log[d].dispatch = "ABSENT" /\ log'[d] = l
      BY <1>0, <2>1, <2>3 DEF Recorded
    <3> QED BY <1>2, <2>2, <3>1
  <2>4. CASE d # <<s, 1>>
    BY <1>0, <1>1, <2>1, <2>4
  <2> QED BY <2>3, <2>4
<1>5. CASE \E f \in Deliveries : Restarted(f)
  <2> PICK f \in Deliveries : Restarted(f)
    BY <1>5
  <2>1. CASE d = <<f[1], f[2] + 1>>
    <3>1. log[d].dispatch = "ABSENT" /\ log'[d] = NewLog("PENDING")
      BY <1>0, <2>1 DEF Restarted
    <3>2. log'[d].event \in Nat
      BY <3>1 DEF NewLog
    <3> QED BY <1>2, <3>1, <3>2
  <2>2. CASE d # <<f[1], f[2] + 1>>
    BY <1>0, <1>1, <2>2 DEF Restarted
  <2> QED BY <2>1, <2>2
<1>6. CASE \E f \in Deliveries : Rewritten(f)
  <2> PICK f \in Deliveries, l \in LogType :
         log' = [log EXCEPT ![f] = l] /\ (Kept(log[f], l) \/ Claimed(log[f], l))
    BY <1>6 DEF Rewritten
  <2>1. CASE d = f
    <3>1. log'[d] = l
      BY <1>0, <2>1
    <3>2. CASE Kept(log[d], l)
      BY <3>1, <3>2 DEF Kept
    <3>3. CASE Claimed(log[d], l)
      BY <1>0, <3>1, <3>3 DEF Claimed, Confirmed, Final, Undelivered
    <3> QED BY <2>1, <3>2, <3>3
  <2>2. CASE d # f
    BY <1>0, <1>1, <2>2
  <2> QED BY <2>1, <2>2
<1> QED BY <1>3, <1>4, <1>5, <1>6 DEF Moved

\* Webhooks in any order, a late result of a worker and every other step only
\* advance what a row says of the provider (_event_can_update).
THEOREM StateAdvances == Spec => ProviderStateNeverRegresses
<1>1. Whole /\ [Next]_vars =>
        [\A d \in Deliveries :
            /\ log[d].status \in Final => log'[d].status \in Final
            /\ log[d].status \in Confirmed => log'[d].status # "PENDING"
            /\ log[d].event <= log'[d].event]_vars
  BY StepMoves, AdvanceStep DEF Whole
<1> QED BY <1>1, WholeInvariant, PTL DEF Spec, ProviderStateNeverRegresses

\* While a lease runs, only its worker, a webhook or the success of an earlier
\* generation takes the row out of its claim (finish_delivery, claim_delivery).
THEOREM LeasesRespected == Spec => LiveLeaseRespected
<1>1. Whole /\ [Next]_vars =>
        [\A d \in Deliveries :
           /\ log[d].dispatch = "PROCESSING" /\ log[d].leased
           /\ <<log'[d].dispatch, log'[d].token>> # <<log[d].dispatch, log[d].token>>
           => \/ receipts'[d] # receipts[d]
              \/ PreviousSucceeded(d) /\ log'[d].dispatch = "SKIPPED"
              \/ \E w \in Workers : /\ worker[w].job = d /\ worker[w].token = log[d].token
                                    /\ worker'[w] = Idle]_vars
  BY LeaseStep DEF Whole, Released
<1> QED BY <1>1, WholeInvariant, PTL DEF Spec, LiveLeaseRespected

\* The outbox implements DurableDelivery: every step of workers, broker,
\* provider and people is a step of the promise or a stutter.
THEOREM KeepsThePromise == Spec => ImplementsPromise
<1>1. Init => Promise!Init
  BY PromiseInit
<1>2. Whole /\ [Next]_vars => [Promise!Next]_(Promise!dvars)
  BY StepMoves, PromiseStep DEF Whole
<1> QED BY <1>1, <1>2, WholeInvariant, PTL DEF Spec, ImplementsPromise, Promise!Spec
===============================================================================
