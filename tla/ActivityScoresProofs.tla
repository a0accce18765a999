-------------------------- MODULE ActivityScoresProofs --------------------------
(***************************************************************************)
(* Theorems of ActivityScores for any students, classes, activities and    *)
(* sessions: the lines of drafts follow the roster, a launch is complete   *)
(* when it commits, and launched grades are frozen.                        *)
(*                                                                         *)
(* The inductive invariant says why the locks are enough: an enrollment    *)
(* change either has yet to look for a draft of its classes or holds it,   *)
(* and whoever else holds that draft keeps the change from committing.     *)
(***************************************************************************)
EXTENDS ActivityScores, SequenceTheorems, TLAPS

IInv == TypeOK /\ LinesFollowRoster /\ LocksSuffice

-------------------------------------------------------------------------------
(* Operators.                                                              *)

LEMMA SyncedType ==
    ASSUME NEW lines \in [Students -> LineType], NEW roster \in SUBSET Students
    PROVE  Synced(lines, roster) \in [Students -> LineType]
BY DEF Synced, LineType

\* The synchronization leaves exactly the lines of the roster.
LEMMA SyncedFollows ==
    ASSUME NEW lines \in [Students -> LineType], NEW roster \in SUBSET Students
    PROVE  Lines(Synced(lines, roster)) = roster
BY DEF Synced, LineType, Lines

LEMMA SyncedBlank ==
    ASSUME NEW lines \in [Students -> LineType], NEW roster \in SUBSET Students,
           \A s \in Students : lines[s].state = "none" => lines[s].score = None
    PROVE  \A s \in Students : Synced(lines, roster)[s].state = "none"
                                  => Synced(lines, roster)[s].score = None
BY DEF Synced, LineType

LEMMA NoLinesType ==
    /\ NoLines \in [Students -> LineType]
    /\ \A s \in Students : NoLines[s].state = "none" => NoLines[s].score = None
BY DEF NoLines, NoLine, LineType

LEMMA TailOfItinerary ==
    ASSUME NEW todo \in Seq(Classes), Len(todo) \in {1, 2}
    PROVE  /\ Tail(todo) \in Seq(Classes)
           /\ Len(todo) = 2 => Tail(todo) = <<todo[2]>>
<1>1. CASE Len(todo) = 1
  BY <1>1
<1>2. CASE Len(todo) = 2
  <2>1. /\ Tail(todo) \in Seq(Classes)
        /\ Len(Tail(todo)) = 1
        /\ Tail(todo)[1] = todo[2]
    BY <1>2, HeadTailProperties
  <2>2. \A q \in Seq(Classes) : Len(q) = 1 => q = <<q[1]>>
    OBVIOUS
  <2> QED BY <2>1, <2>2
<1> QED BY <1>1, <1>2

LEMMA IdleType == Idle \in TxType
BY DEF Idle, TxType

LEMMA RosterType == \A c : Roster(c) \in SUBSET Students
BY DEF Roster

LEMMA ItineraryType ==
    ASSUME TypeOK, NEW s \in Students, NEW c \in Classes \cup {None}, c # enrolled[s]
    PROVE  /\ Itinerary(s, c) \in Seq(Classes)
           /\ Len(Itinerary(s, c)) \in {1, 2}
BY ActivityScoresAssumption DEF TypeOK, Itinerary

-------------------------------------------------------------------------------
(* Initial states.                                                         *)

LEMMA IInvInit == Init => IInv
<1> SUFFICES ASSUME Init PROVE IInv
  OBVIOUS
<1>1. TypeOK
  BY NoLinesType, IdleType, ActivityScoresAssumption DEF Init, TypeOK, ActivityType, Scores
<1>2. LinesFollowRoster
  BY DEF Init, LinesFollowRoster, Status
<1>3. LocksSuffice
  BY DEF Init, Idle, LocksSuffice, HasClass, HeldExclusively, Purposeful, OnItsWay, CheckHolds,
         DraftsCovered, Changing, Touches, Status
<1> QED BY <1>1, <1>2, <1>3 DEF IInv

-------------------------------------------------------------------------------
(* Commands that hold the activity row.                                    *)

\* No session holds or creates an activity edited by such a command.
LEMMA NobodyUses ==
    ASSUME IInv, NEW a \in Activities, ActivityFree(a), Status(a) # "none", NEW k \in Sessions
    PROVE  /\ a \notin tx[k].held
           /\ tx[k].pc \in {"create", "read", "launch"} => tx[k].activity # a
BY DEF IInv, LocksSuffice, HeldExclusively, Purposeful, ActivityFree

\* Locks do not depend on the rest of an activity's row.
LEMMA LocksAfterEdit ==
    ASSUME IInv, UNCHANGED <<enrolled, tx>>, \A b \in Activities : Status(b)' = Status(b)
    PROVE  \A k \in Sessions : HeldExclusively(k)' /\ Purposeful(k)' /\ OnItsWay(k)'
<1> SUFFICES ASSUME NEW k \in Sessions
             PROVE  HeldExclusively(k)' /\ Purposeful(k)' /\ OnItsWay(k)'
  OBVIOUS
<1>1. tx[k].held \subseteq Activities
  BY DEF IInv, TypeOK, TxType
<1>2. HeldExclusively(k)'
  BY <1>1 DEF IInv, LocksSuffice, HeldExclusively
<1>3. Purposeful(k)'
  BY DEF IInv, LocksSuffice, Purposeful, Changing
<1>4. OnItsWay(k)'
  BY DEF IInv, LocksSuffice, OnItsWay, Itinerary
<1> QED BY <1>2, <1>3, <1>4

\* A launch in progress is about another activity.
LEMMA CheckAfterEdit ==
    ASSUME IInv, NEW a \in Activities, ActivityFree(a), Status(a) # "none",
           UNCHANGED <<enrolled, tx>>,
           \A b \in Activities \ {a} : /\ activity'[b] = activity[b]
                                       /\ line'[b] = line[b]
                                       /\ b \in unsynced' <=> b \in unsynced
    PROVE  \A k \in Sessions : CheckHolds(k)'
<1> SUFFICES ASSUME NEW k \in Sessions, tx[k].pc = "launch"
             PROVE  CheckHolds(k)'
  BY DEF CheckHolds
<1>1. tx[k].activity \in Activities \ {a}
  BY NobodyUses DEF IInv, LocksSuffice, Purposeful, TypeOK, TxType
<1> QED BY <1>1 DEF IInv, LocksSuffice, CheckHolds, Valid, Roster

LEMMA ChangeMaximumStep ==
    ASSUME IInv, NEW a \in Activities, NEW max \in 1 .. MaxScore, ChangeMaximum(a, max)
    PROVE  IInv'
<1> USE DEF IInv, LocksSuffice
<1>1. /\ ActivityFree(a) /\ Status(a) = "DRAFT"
      /\ UNCHANGED <<enrolled, line, tx, unsynced>>
      /\ activity' = [activity EXCEPT ![a].max = max]
  BY DEF ChangeMaximum, Editable
<1>2. \A b \in Activities : /\ activity'[b].status = activity[b].status
                            /\ activity'[b].class = activity[b].class
                            /\ b # a => activity'[b].max = activity[b].max
  BY <1>1 DEF TypeOK, ActivityType
<1>3. TypeOK'
  <2>1. max \in Scores
    BY ActivityScoresAssumption DEF Scores
  <2>2. activity' \in [Activities -> ActivityType]
    BY <1>1, <2>1 DEF TypeOK, ActivityType
  <2> QED BY <1>1, <2>2 DEF TypeOK
<1>4. /\ HasClass' /\ LinesFollowRoster'
      /\ \A k \in Sessions : HeldExclusively(k)' /\ Purposeful(k)' /\ OnItsWay(k)'
  <2>1. \A b \in Activities : Status(b)' = Status(b)
    BY <1>2 DEF Status
  <2>2. HasClass' /\ LinesFollowRoster'
    BY <1>1, <1>2, <2>1 DEF HasClass, LinesFollowRoster, Lines, Roster
  <2>3. \A k \in Sessions : HeldExclusively(k)' /\ Purposeful(k)' /\ OnItsWay(k)'
    BY <1>1, <2>1, LocksAfterEdit
  <2> QED BY <2>2, <2>3
<1>5. \A k \in Sessions : DraftsCovered(k)'
  BY <1>1, <1>2 DEF DraftsCovered, Status, Changing, Touches, NotYetSelected, SeenRoster, Roster,
                    TypeOK, TxType
<1>6. \A k \in Sessions : CheckHolds(k)'
  BY <1>1, CheckAfterEdit DEF TypeOK
<1> QED BY <1>3, <1>4, <1>5, <1>6

\* An activity that appears, moves or reopens and is not set aside follows the
\* roster of its class, which no change is touching.
LEMMA ResyncedSound ==
    ASSUME NEW a, NEW c, NEW lines
    PROVE  /\ a \notin Resynced(a, c, lines) =>
                /\ Lines(lines) = Roster(c)
                /\ \A k \in Sessions : ~Touches(k, c)
           /\ \A b : b # a => (b \in Resynced(a, c, lines) <=> b \in unsynced)
           /\ \A b : b \in Resynced(a, c, lines) => b \in unsynced \/ b = a
BY DEF Resynced

\* What such a command leaves alone stays covered.
LEMMA CoveredAfterEdit ==
    ASSUME IInv, NEW a \in Activities, ActivityFree(a), Status(a) # "none",
           UNCHANGED <<enrolled, tx>>,
           \A b \in Activities \ {a} : /\ activity'[b] = activity[b]
                                       /\ b \in unsynced' <=> b \in unsynced,
           a \notin unsynced' => \A k \in Sessions : ~Touches(k, activity'[a].class)
    PROVE  \A k \in Sessions : DraftsCovered(k)'
<1> SUFFICES ASSUME NEW k \in Sessions
             PROVE  DraftsCovered(k)'
  OBVIOUS
<1>1. \A b \in tx[k].held : b \in Activities /\ b # a
  BY NobodyUses DEF IInv, LocksSuffice, TypeOK, TxType
<1>2. \A b \in tx[k].held : Changing(k)' => Touches(k, activity[b].class)'
  BY <1>1 DEF IInv, LocksSuffice, DraftsCovered, Changing, Touches
<1>3. \A c : /\ Touches(k, c)' <=> Touches(k, c)
             /\ NotYetSelected(k, c)' <=> NotYetSelected(k, c)
             /\ SeenRoster(k, c)' = SeenRoster(k, c)
  BY DEF Touches, Changing, NotYetSelected, SeenRoster, Roster
<1> QED BY <1>1, <1>2, <1>3 DEF IInv, LocksSuffice, DraftsCovered, Status

LEMMA ChangeClassStep ==
    ASSUME IInv, NEW a \in Activities, NEW c \in Classes, ChangeClass(a, c)
    PROVE  IInv'
<1> DEFINE lines == Synced(line[a], Roster(c))
<1> USE DEF IInv, LocksSuffice
<1>1. /\ ActivityFree(a) /\ Status(a) = "DRAFT"
      /\ UNCHANGED <<enrolled, tx>>
      /\ activity' = [activity EXCEPT ![a].class = c]
      /\ line' = [line EXCEPT ![a] = lines]
      /\ unsynced' = Resynced(a, c, lines)
  BY DEF ChangeClass, Editable
<1>2. /\ lines \in [Students -> LineType]
      /\ \A s \in Students : lines[s].state = "none" => lines[s].score = None
  BY SyncedType, SyncedBlank, RosterType DEF TypeOK
<1>3. /\ activity' \in [Activities -> ActivityType]
      /\ activity'[a].class = c /\ activity'[a].status = "DRAFT"
      /\ line'[a] = lines
      /\ \A b \in Activities \ {a} : activity'[b] = activity[b] /\ line'[b] = line[b]
  BY <1>1 DEF TypeOK, ActivityType, Status
<1> HIDE DEF lines
<1>4. TypeOK'
  BY <1>1, <1>2, <1>3, ResyncedSound DEF TypeOK
<1>5. HasClass' /\ \A k \in Sessions : HeldExclusively(k)' /\ Purposeful(k)' /\ OnItsWay(k)'
  <2>1. \A b \in Activities : Status(b)' = Status(b)
    BY <1>1, <1>3 DEF Status
  <2>2. HasClass'
    BY <1>3, <2>1 DEF HasClass
  <2> QED BY <1>1, <2>1, <2>2, LocksAfterEdit
<1>6. LinesFollowRoster'
  BY <1>1, <1>3, ResyncedSound DEF LinesFollowRoster, Lines, Roster, Status
<1>7. \A k \in Sessions : DraftsCovered(k)'
  BY <1>1, <1>3, ResyncedSound, CoveredAfterEdit
<1>8. \A k \in Sessions : CheckHolds(k)'
  BY <1>1, <1>3, CheckAfterEdit, ResyncedSound
<1> QED BY <1>4, <1>5, <1>6, <1>7, <1>8

LEMMA RecordScoresStep ==
    ASSUME IInv, NEW a \in Activities, NEW graded \in SUBSET Students, RecordScores(a, graded)
    PROVE  IInv'
<1> USE DEF IInv, LocksSuffice
<1>1. PICK score \in [graded -> (0 .. activity[a].max) \cup {None}] :
          line' = [line EXCEPT ![a] =
              [s \in Students |-> IF s \in graded THEN [@[s] EXCEPT !.score = score[s]] ELSE @[s]]]
  BY DEF RecordScores
<1>2. /\ ActivityFree(a) /\ Status(a) = "DRAFT"
      /\ graded \subseteq Lines(line[a])
      /\ UNCHANGED <<enrolled, activity, tx, unsynced>>
  BY DEF RecordScores, Editable
<1>3. /\ line' \in [Activities -> [Students -> LineType]]
      /\ \A s \in Students : line'[a][s].state = line[a][s].state
      /\ \A s \in Students \ graded : line'[a][s] = line[a][s]
      /\ \A b \in Activities \ {a} : line'[b] = line[b]
  <2>1. \A s \in graded : score[s] \in Scores \cup {None}
    BY ActivityScoresAssumption DEF TypeOK, ActivityType, Scores
  <2> DEFINE row(s) == IF s \in graded THEN [line[a][s] EXCEPT !.score = score[s]] ELSE line[a][s]
  <2>2. /\ line' = [line EXCEPT ![a] = [s \in Students |-> row(s)]]
        /\ line \in [Activities -> [Students -> LineType]]
    BY <1>1 DEF TypeOK
  <2>3. \A s \in Students : /\ row(s) \in LineType
                            /\ row(s).state = line[a][s].state
                            /\ s \notin graded => row(s) = line[a][s]
    <3> TAKE s \in Students
    <3>1. line[a][s] \in LineType
      BY <2>2
    <3>2. \A r \in LineType, x \in Scores \cup {None} :
              [r EXCEPT !.score = x] \in LineType /\ [r EXCEPT !.score = x].state = r.state
      BY DEF LineType
    <3>3. CASE s \in graded
      BY <2>1, <3>1, <3>2, <3>3
    <3>4. CASE s \notin graded
      BY <3>1, <3>4
    <3> QED BY <3>3, <3>4
  <2> HIDE DEF row
  <2> QED BY <2>2, <2>3
<1>4. TypeOK'
  <2>1. \A b \in Activities, s \in Students :
            line'[b][s].state = "none" => line'[b][s].score = None
    <3> SUFFICES ASSUME NEW b \in Activities, NEW s \in Students, line'[b][s].state = "none"
                 PROVE  line'[b][s].score = None
      OBVIOUS
    <3>1. b = a => s \notin graded
      BY <1>2, <1>3 DEF Lines
    <3>2. line'[b][s] = line[b][s]
      BY <1>3, <3>1
    <3> QED BY <3>2 DEF TypeOK
  <2> QED BY <1>2, <1>3, <2>1 DEF TypeOK
<1>5. HasClass' /\ \A k \in Sessions : HeldExclusively(k)' /\ Purposeful(k)' /\ OnItsWay(k)'
  <2>1. \A b \in Activities : Status(b)' = Status(b)
    BY <1>2 DEF Status
  <2>2. HasClass'
    BY <1>2, <2>1 DEF HasClass
  <2> QED BY <1>2, <2>1, <2>2, LocksAfterEdit
<1>6. LinesFollowRoster'
  BY <1>2, <1>3 DEF LinesFollowRoster, Lines, Roster, Status
<1>7. \A k \in Sessions : DraftsCovered(k)'
  <2> SUFFICES ASSUME NEW k \in Sessions PROVE DraftsCovered(k)'
    OBVIOUS
  <2>1. \A c : /\ Touches(k, c)' <=> Touches(k, c)
               /\ NotYetSelected(k, c)' <=> NotYetSelected(k, c)
               /\ SeenRoster(k, c)' = SeenRoster(k, c)
    BY <1>2 DEF Touches, Changing, NotYetSelected, SeenRoster, Roster
  <2> QED BY <1>2, <2>1 DEF DraftsCovered, Status, Changing
<1>8. \A k \in Sessions : CheckHolds(k)'
  BY <1>2, <1>3, CheckAfterEdit
<1> QED BY <1>4, <1>5, <1>6, <1>7, <1>8

LEMMA ReopenScoresStep ==
    ASSUME IInv, NEW a \in Activities, ReopenScores(a)
    PROVE  IInv'
<1> USE DEF IInv, LocksSuffice
<1>1. /\ ActivityFree(a) /\ Status(a) = "LAUNCHED"
      /\ UNCHANGED <<enrolled, line, tx>>
      /\ activity' = [activity EXCEPT ![a].status = "DRAFT"]
      /\ unsynced' = Resynced(a, activity[a].class, line[a])
  BY DEF ReopenScores
<1>2. /\ activity' \in [Activities -> ActivityType]
      /\ activity'[a].class = activity[a].class /\ activity'[a].status = "DRAFT"
      /\ \A b \in Activities \ {a} : activity'[b] = activity[b]
  BY <1>1 DEF TypeOK, ActivityType
<1>3. TypeOK'
  BY <1>1, <1>2, ResyncedSound DEF TypeOK
<1>4. HasClass' /\ \A k \in Sessions : HeldExclusively(k)' /\ Purposeful(k)' /\ OnItsWay(k)'
  <2>1. \A b \in Activities \ {a} : Status(b)' = Status(b)
    BY <1>2 DEF Status
  <2>2. \A k \in Sessions : tx[k].held \subseteq Activities \ {a}
    BY <1>1, NobodyUses DEF TypeOK, TxType
  <2>3. HasClass' /\ \A k \in Sessions : HeldExclusively(k)' /\ OnItsWay(k)'
    BY <1>1, <1>2, <2>1, <2>2 DEF HasClass, HeldExclusively, OnItsWay, Status, Itinerary
  <2>4. \A k \in Sessions : Purposeful(k)'
    BY <1>1, <1>2, <2>1, <2>2 DEF Purposeful, Status, Changing
  <2> QED BY <2>3, <2>4
<1>5. LinesFollowRoster'
  BY <1>1, <1>2, ResyncedSound DEF LinesFollowRoster, Lines, Roster, Status
<1>6. \A k \in Sessions : DraftsCovered(k)'
  BY <1>1, <1>2, ResyncedSound, CoveredAfterEdit
<1>7. \A k \in Sessions : CheckHolds(k)'
  BY <1>1, <1>2, CheckAfterEdit, ResyncedSound
<1> QED BY <1>3, <1>4, <1>5, <1>6, <1>7

-------------------------------------------------------------------------------
(* Steps of one transaction that write no row.                             *)

\* Such a step keeps the invariant if the transaction it leads to does.
LEMMA TxStep ==
    ASSUME IInv, NEW k \in Sessions, NEW t \in TxType,
           tx' = [tx EXCEPT ![k] = t],
           UNCHANGED <<enrolled, activity, line, unsynced>>,
           HeldExclusively(k)', Purposeful(k)', OnItsWay(k)', DraftsCovered(k)', CheckHolds(k)',
           \A j \in Sessions \ {k} : tx[j].pc = "create" => tx[j].activity # t.activity
    PROVE  IInv'
<1> USE DEF IInv, LocksSuffice
<1>1. /\ tx' \in [Sessions -> TxType]
      /\ tx'[k] = t
      /\ \A j \in Sessions \ {k} : tx'[j] = tx[j]
  BY DEF TypeOK
<1>2. TypeOK' /\ HasClass' /\ LinesFollowRoster'
  BY <1>1 DEF TypeOK, HasClass, LinesFollowRoster, Status, Roster, Lines
<1> SUFFICES ASSUME NEW j \in Sessions \ {k}
             PROVE  HeldExclusively(j)' /\ Purposeful(j)' /\ OnItsWay(j)'
                    /\ DraftsCovered(j)' /\ CheckHolds(j)'
  BY <1>1, <1>2 DEF HeldExclusively, Purposeful, OnItsWay, DraftsCovered, CheckHolds
<1>3. HeldExclusively(j)'
  BY <1>1 DEF HeldExclusively, Status
<1>4. Purposeful(j)'
  BY <1>1 DEF Purposeful, Status, Changing
<1>5. OnItsWay(j)'
  BY <1>1 DEF OnItsWay, Itinerary
<1>6. DraftsCovered(j)'
  BY <1>1 DEF DraftsCovered, Status, Changing, Touches, NotYetSelected, SeenRoster, Roster
<1>7. CheckHolds(j)'
  BY <1>1 DEF CheckHolds, Valid, Roster
<1> QED BY <1>3, <1>4, <1>5, <1>6, <1>7

\* A transaction that leaves nothing behind: rolled back, or over.
LEMMA RollbackStep ==
    ASSUME IInv, NEW k \in Sessions, Rollback(k)
    PROVE  IInv'
<1>1. tx' = [tx EXCEPT ![k] = Idle] /\ UNCHANGED <<enrolled, activity, line, unsynced>>
  BY DEF Rollback
<1>2. tx'[k] = Idle
  BY <1>1 DEF IInv, LocksSuffice, TypeOK
<1>3. /\ HeldExclusively(k)' /\ Purposeful(k)' /\ OnItsWay(k)'
      /\ DraftsCovered(k)' /\ CheckHolds(k)'
  BY <1>2 DEF Idle, Changing, Touches, HeldExclusively, Purposeful, OnItsWay, DraftsCovered, CheckHolds
<1>4. \A j \in Sessions \ {k} : tx[j].pc = "create" => tx[j].activity # Idle.activity
  BY ActivityScoresAssumption DEF IInv, LocksSuffice, Purposeful, Idle
<1> QED BY <1>1, <1>3, <1>4, IdleType, TxStep

LEMMA BeginCreateStep ==
    ASSUME IInv, NEW k \in Sessions, NEW a \in Activities, NEW c \in Classes, BeginCreate(k, a, c)
    PROVE  IInv'
<1> DEFINE t == [Idle EXCEPT !.pc = "create", !.activity = a, !.class = c, !.rosters[c] = Roster(c)]
<1>1. /\ tx' = [tx EXCEPT ![k] = t] /\ UNCHANGED <<enrolled, activity, line, unsynced>>
      /\ Status(a) = "none" /\ \A j \in Sessions : tx[j].activity # a
  BY DEF BeginCreate
<1>2. /\ t \in TxType /\ t.pc = "create" /\ t.activity = a /\ t.class = c /\ t.held = {}
  BY RosterType, IdleType DEF TxType, Idle
<1> HIDE DEF t
<1>3. tx'[k] = t /\ \A j \in Sessions \ {k} : tx'[j] = tx[j]
  BY <1>1 DEF IInv, LocksSuffice, TypeOK
<1>4. /\ HeldExclusively(k)' /\ OnItsWay(k)' /\ DraftsCovered(k)' /\ CheckHolds(k)'
  BY <1>2, <1>3 DEF Changing, Touches, HeldExclusively, OnItsWay, DraftsCovered, CheckHolds
<1>5. Purposeful(k)'
  BY <1>1, <1>2, <1>3 DEF Purposeful, Changing, Status
<1> QED BY <1>1, <1>2, <1>4, <1>5, TxStep

LEMMA BeginLaunchStep ==
    ASSUME IInv, NEW k \in Sessions, NEW a \in Activities, BeginLaunch(k, a)
    PROVE  IInv'
<1> DEFINE t == [Idle EXCEPT !.pc = "read", !.activity = a, !.held = {a}]
<1>1. /\ tx' = [tx EXCEPT ![k] = t] /\ UNCHANGED <<enrolled, activity, line, unsynced>>
      /\ Status(a) = "DRAFT" /\ ActivityFree(a)
  BY DEF BeginLaunch, Editable
<1>2. t \in TxType /\ t.pc = "read" /\ t.activity = a /\ t.held = {a}
  BY IdleType DEF TxType, Idle
<1> HIDE DEF t
<1>3. tx'[k] = t /\ \A j \in Sessions \ {k} : tx'[j] = tx[j]
  BY <1>1 DEF IInv, LocksSuffice, TypeOK
<1>4. OnItsWay(k)' /\ DraftsCovered(k)' /\ CheckHolds(k)' /\ Purposeful(k)'
  BY <1>2, <1>3 DEF Changing, Touches, OnItsWay, DraftsCovered, CheckHolds, Purposeful
<1>5. HeldExclusively(k)'
  BY <1>1, <1>2, <1>3 DEF HeldExclusively, Status, ActivityFree
<1>6. \A j \in Sessions \ {k} : tx[j].pc = "create" => tx[j].activity # t.activity
  BY <1>1, <1>2 DEF IInv, LocksSuffice, Purposeful
<1> QED BY <1>1, <1>2, <1>4, <1>5, <1>6, TxStep

\* The activity of a launch is a draft of a class, held by nobody else.
LEMMA LaunchHolds ==
    ASSUME IInv, NEW k \in Sessions, tx[k].pc \in {"read", "launch"}
    PROVE  /\ tx[k].activity \in Activities
           /\ tx[k].activity \in tx[k].held
           /\ Status(tx[k].activity) = "DRAFT"
           /\ activity[tx[k].activity].class \in Classes
           /\ \A j \in Sessions \ {k} : /\ tx[k].activity \notin tx[j].held
                                        /\ tx[j].pc = "create" => tx[j].activity # tx[k].activity
BY DEF IInv, LocksSuffice, Purposeful, HeldExclusively, HasClass, TypeOK, TxType

LEMMA ReadRosterStep ==
    ASSUME IInv, NEW k \in Sessions, ReadRoster(k)
    PROVE  IInv'
<1> DEFINE a == tx[k].activity
           c == activity[a].class
           t == [tx[k] EXCEPT !.pc = "launch", !.rosters[c] = Roster(c)]
<1>1. /\ tx' = [tx EXCEPT ![k] = t] /\ UNCHANGED <<enrolled, activity, line, unsynced>>
      /\ tx[k].pc = "read" /\ \A s \in Roster(c) : Valid(a, s)
  <2>1. /\ tx' = [tx EXCEPT ![k].pc = "launch", ![k].rosters[c] = Roster(c)]
        /\ UNCHANGED <<enrolled, activity, line, unsynced>>
        /\ tx[k].pc = "read" /\ \A s \in Roster(c) : Valid(a, s)
    BY Zenon DEF ReadRoster
  <2> QED BY <2>1 DEF IInv, TypeOK
<1>2. tx[k] \in TxType /\ c \in Classes
  BY <1>1, LaunchHolds DEF IInv, TypeOK
<1>3. /\ t \in TxType /\ t.pc = "launch" /\ t.activity = a /\ t.held = tx[k].held
      /\ t.rosters[c] = Roster(c)
  BY <1>2, RosterType DEF TxType
<1> HIDE DEF t
<1>4. tx'[k] = t /\ \A j \in Sessions \ {k} : tx'[j] = tx[j]
  BY <1>1 DEF IInv, TypeOK
<1>5. HeldExclusively(k)'
  BY <1>1, <1>3, <1>4 DEF IInv, LocksSuffice, HeldExclusively, Status
<1>6. Purposeful(k)' /\ OnItsWay(k)' /\ DraftsCovered(k)'
  BY <1>1, <1>3, <1>4, LaunchHolds DEF Purposeful, OnItsWay, DraftsCovered, Changing, Touches
<1>7. CheckHolds(k)'
  BY <1>1, <1>3, <1>4 DEF CheckHolds, Valid, Roster
<1>8. \A j \in Sessions \ {k} : tx[j].pc = "create" => tx[j].activity # t.activity
  BY <1>1, <1>3, LaunchHolds
<1> QED BY <1>1, <1>3, <1>5, <1>6, <1>7, <1>8, TxStep

LEMMA BeginChangeStep ==
    ASSUME IInv, NEW k \in Sessions, NEW s \in Students, NEW c \in Classes \cup {None},
           BeginChange(k, s, c)
    PROVE  IInv'
<1> DEFINE t == [Idle EXCEPT !.pc = "sync", !.student = s, !.class = c, !.todo = Itinerary(s, c)]
<1>1. /\ tx' = [tx EXCEPT ![k] = t] /\ UNCHANGED <<enrolled, activity, line, unsynced>>
      /\ c # enrolled[s] /\ StudentFree(s)
  BY DEF BeginChange
<1>2. /\ t \in TxType /\ t.pc = "sync" /\ t.student = s /\ t.class = c /\ t.held = {}
      /\ t.todo = Itinerary(s, c) /\ t.activity = None
  BY <1>1, IdleType, ItineraryType DEF IInv, TxType, Idle
<1> HIDE DEF t
<1>3. tx'[k] = t /\ \A j \in Sessions \ {k} : tx'[j] = tx[j]
  BY <1>1 DEF IInv, TypeOK
<1>4. HeldExclusively(k)' /\ CheckHolds(k)'
  BY <1>2, <1>3 DEF HeldExclusively, CheckHolds
<1>5. Purposeful(k)'
  BY <1>1, <1>2, <1>3 DEF Purposeful, Changing, StudentFree
<1>6. OnItsWay(k)'
  BY <1>1, <1>2, <1>3 DEF OnItsWay, Itinerary
<1>7. DraftsCovered(k)'
  <2>1. ASSUME NEW x \in Classes, Touches(k, x)'
        PROVE  NotYetSelected(k, x)'
    <3>1. x \in {c, enrolled[s]}
      BY <2>1, <1>1, <1>2, <1>3 DEF Touches
    <3>2. \E i \in 1 .. Len(t.todo) : t.todo[i] = x
      BY <3>1, <1>1, <1>2, ActivityScoresAssumption DEF Itinerary, IInv, TypeOK
    <3> QED BY <3>2, <1>2, <1>3 DEF NotYetSelected
  <2>2. \A a \in Activities : Status(a)' = "DRAFT" => activity'[a].class \in Classes
    BY <1>1 DEF IInv, LocksSuffice, HasClass, Status
  <2> QED BY <1>2, <1>3, <2>1, <2>2 DEF DraftsCovered
<1>8. \A j \in Sessions \ {k} : tx[j].pc = "create" => tx[j].activity # t.activity
  BY <1>2, ActivityScoresAssumption DEF IInv, LocksSuffice, Purposeful
<1> QED BY <1>1, <1>2, <1>4, <1>5, <1>6, <1>7, <1>8, TxStep

\* The itinerary of a change that is synchronizing.
LEMMA OnTheWay ==
    ASSUME IInv, NEW k \in Sessions, tx[k].pc \in {"sync", "lock"}
    PROVE  /\ tx[k] \in TxType /\ tx[k].todo \in Seq(Classes)
           /\ Len(tx[k].todo) \in {1, 2}
           /\ tx[k].todo[1] \in Classes
           /\ Touches(k, tx[k].todo[1])
           /\ Len(tx[k].todo) = 2 => tx[k].todo[2] = tx[k].class /\ tx[k].class \in Classes
<1>1. /\ tx[k] \in TxType /\ Changing(k) /\ tx[k].student \in Students
      /\ enrolled[tx[k].student] \in Classes \cup {None}
      /\ tx[k].class \in Classes \cup {None} /\ tx[k].class # enrolled[tx[k].student]
  BY DEF IInv, LocksSuffice, TypeOK, TxType, Purposeful, Changing
<1>2. CASE tx[k].todo = Itinerary(tx[k].student, tx[k].class)
  BY <1>1, <1>2, ActivityScoresAssumption DEF Itinerary, Touches
<1>3. CASE tx[k].class # None /\ tx[k].todo = <<tx[k].class>>
  BY <1>1, <1>3 DEF Touches
<1> QED BY <1>2, <1>3 DEF IInv, LocksSuffice, OnItsWay

LEMMA SelectDraftsStep ==
    ASSUME IInv, NEW k \in Sessions, SelectDrafts(k)
    PROVE  IInv'
<1> DEFINE due == {a \in Activities : Status(a) = "DRAFT" /\ activity[a].class = Head(tx[k].todo)}
           t == [tx[k] EXCEPT !.pc = "lock", !.due = due]
<1>1. /\ tx' = [tx EXCEPT ![k] = t] /\ UNCHANGED <<enrolled, activity, line, unsynced>>
      /\ tx[k].pc = "sync"
  BY DEF SelectDrafts, IInv, TypeOK
<1>2. /\ t \in TxType /\ t.pc = "lock" /\ t.due = due
      /\ t.student = tx[k].student /\ t.class = tx[k].class /\ t.activity = tx[k].activity
      /\ t.held = tx[k].held /\ t.todo = tx[k].todo /\ t.rosters = tx[k].rosters
  BY <1>1, OnTheWay DEF TxType
<1> HIDE DEF t
<1>3. tx'[k] = t /\ \A j \in Sessions \ {k} : tx'[j] = tx[j]
  BY <1>1 DEF IInv, TypeOK
<1>4. HeldExclusively(k)' /\ CheckHolds(k)'
  BY <1>1, <1>2, <1>3 DEF IInv, LocksSuffice, HeldExclusively, CheckHolds, Status
<1>5. Purposeful(k)'
  BY <1>1, <1>2, <1>3 DEF IInv, LocksSuffice, Purposeful, Changing
<1>6. OnItsWay(k)'
  BY <1>1, <1>2, <1>3 DEF IInv, LocksSuffice, OnItsWay, Itinerary
<1>7. DraftsCovered(k)'
  <2>1. \A c : /\ Touches(k, c)' <=> Touches(k, c)
               /\ SeenRoster(k, c)' = SeenRoster(k, c)
    BY <1>1, <1>2, <1>3 DEF Touches, Changing, SeenRoster, Roster
  <2>2. \A a \in tx'[k].held : Touches(k, activity[a].class)'
    BY <1>1, <1>2, <1>3, <2>1 DEF IInv, LocksSuffice, DraftsCovered, Changing
  <2>3. ASSUME NEW a \in Activities \ unsynced, Status(a) = "DRAFT", Touches(k, activity[a].class)
        PROVE  \/ NotYetSelected(k, activity[a].class)'
               \/ activity[a].class = t.todo[1] /\ a \in t.due
               \/ a \in tx[k].held /\ tx[k].rosters[activity[a].class] = SeenRoster(k, activity[a].class)
    <3>1. CASE NotYetSelected(k, activity[a].class)
      BY <1>1, <1>2, <1>3, <2>3, <3>1, OnTheWay DEF NotYetSelected
    <3>2. CASE ~NotYetSelected(k, activity[a].class)
      BY <1>1, <2>3, <3>2 DEF IInv, LocksSuffice, DraftsCovered
    <3> QED BY <3>1, <3>2
  <2> QED BY <1>1, <1>2, <1>3, <2>1, <2>2, <2>3 DEF DraftsCovered, Status
<1>8. \A j \in Sessions \ {k} : tx[j].pc = "create" => tx[j].activity # t.activity
  BY <1>2 DEF IInv, LocksSuffice, Purposeful
<1> QED BY <1>1, <1>2, <1>4, <1>5, <1>6, <1>7, <1>8, TxStep

LEMMA LockDraftStep ==
    ASSUME IInv, NEW k \in Sessions, NEW b \in Activities, LockDraft(k, b)
    PROVE  IInv'
<1> DEFINE held == IF StillSelected(k, b) THEN tx[k].held \cup {b} ELSE tx[k].held
           t == [tx[k] EXCEPT !.due = tx[k].due \ {b}, !.held = held]
<1>1. /\ tx' = [tx EXCEPT ![k] = t] /\ UNCHANGED <<enrolled, activity, line, unsynced>>
      /\ tx[k].pc = "lock" /\ \A j \in Sessions \ {k} : b \notin tx[j].held
  BY DEF LockDraft, IInv, TypeOK
<1>2. /\ t \in TxType /\ t.pc = "lock" /\ t.due = tx[k].due \ {b} /\ t.held = held
      /\ t.student = tx[k].student /\ t.class = tx[k].class /\ t.activity = tx[k].activity
      /\ t.todo = tx[k].todo /\ t.rosters = tx[k].rosters
  BY <1>1, OnTheWay DEF TxType
<1>3. b \in held \ tx[k].held => Status(b) = "DRAFT" /\ activity[b].class = tx[k].todo[1]
  BY <1>1, OnTheWay DEF StillSelected
<1>4. /\ tx[k].held \subseteq held /\ held \subseteq tx[k].held \cup {b}
      /\ Status(b) = "DRAFT" /\ activity[b].class = tx[k].todo[1] => b \in held
  BY <1>1, OnTheWay DEF StillSelected
<1> HIDE DEF t, held
<1>5. tx'[k] = t /\ \A j \in Sessions \ {k} : tx'[j] = tx[j]
  BY <1>1 DEF IInv, TypeOK
<1>6. HeldExclusively(k)' /\ CheckHolds(k)'
  BY <1>1, <1>2, <1>3, <1>4, <1>5 DEF IInv, LocksSuffice, HeldExclusively, CheckHolds, Status
<1>7. Purposeful(k)'
  BY <1>1, <1>2, <1>5 DEF IInv, LocksSuffice, Purposeful, Changing
<1>8. OnItsWay(k)'
  BY <1>1, <1>2, <1>5 DEF IInv, LocksSuffice, OnItsWay, Itinerary
<1>9. DraftsCovered(k)'
  <2>1. \A c : /\ Touches(k, c)' <=> Touches(k, c)
               /\ NotYetSelected(k, c)' <=> NotYetSelected(k, c)
               /\ SeenRoster(k, c)' = SeenRoster(k, c)
    BY <1>1, <1>2, <1>5 DEF Touches, Changing, NotYetSelected, SeenRoster, Roster
  <2>2. \A a \in tx'[k].held : Touches(k, activity[a].class)'
    <3>1. \A a \in tx[k].held : Touches(k, activity[a].class)
      BY <1>1 DEF IInv, LocksSuffice, DraftsCovered, Changing
    <3> QED BY <1>1, <1>2, <1>3, <1>4, <1>5, <2>1, <3>1, OnTheWay
  <2>3. ASSUME NEW a \in Activities \ unsynced, Status(a) = "DRAFT", Touches(k, activity[a].class)
        PROVE  \/ NotYetSelected(k, activity[a].class)
               \/ activity[a].class = t.todo[1] /\ a \in t.due \cup held
               \/ a \in held /\ tx[k].rosters[activity[a].class] = SeenRoster(k, activity[a].class)
    BY <1>1, <1>2, <1>4, <2>3 DEF IInv, LocksSuffice, DraftsCovered
  <2> QED BY <1>1, <1>2, <1>5, <2>1, <2>2, <2>3 DEF DraftsCovered, Status
<1>10. \A j \in Sessions \ {k} : tx[j].pc = "create" => tx[j].activity # t.activity
  BY <1>2 DEF IInv, LocksSuffice, Purposeful
<1> QED BY <1>1, <1>2, <1>6, <1>7, <1>8, <1>9, <1>10, TxStep

LEMMA SyncClassStep ==
    ASSUME IInv, NEW k \in Sessions, SyncClass(k)
    PROVE  IInv'
<1> DEFINE c == tx[k].todo[1]
           pc == IF Len(tx[k].todo) > 1 THEN "sync" ELSE "ready"
           t == [tx[k] EXCEPT !.rosters[c] = SeenRoster(k, c), !.todo = Tail(tx[k].todo), !.pc = pc]
<1>1. /\ tx' = [tx EXCEPT ![k] = t] /\ UNCHANGED <<enrolled, activity, line, unsynced>>
      /\ tx[k].pc = "lock" /\ tx[k].due = {}
  <2>1. tx[k].pc = "lock" /\ Head(tx[k].todo) = c
    BY OnTheWay DEF SyncClass
  <2> QED BY <2>1 DEF SyncClass, IInv, TypeOK
<1>2. SeenRoster(k, c) \in SUBSET Students
  BY <1>1 DEF SeenRoster, Roster, IInv, LocksSuffice, Purposeful, Changing
<1>3. /\ Tail(tx[k].todo) \in Seq(Classes)
      /\ Len(tx[k].todo) = 2 => Tail(tx[k].todo) = <<tx[k].todo[2]>>
      /\ pc = "sync" <=> Len(tx[k].todo) = 2
      /\ pc \in {"sync", "ready"}
  <2>1. tx[k].todo \in Seq(Classes) /\ Len(tx[k].todo) \in {1, 2}
    BY <1>1, OnTheWay
  <2>2. pc \in {"sync", "ready"} /\ (pc = "sync" <=> Len(tx[k].todo) = 2)
    <3>1. CASE Len(tx[k].todo) = 1
      BY <3>1
    <3>2. CASE Len(tx[k].todo) = 2
      BY <3>2
    <3> QED BY <2>1, <3>1, <3>2
  <2> QED BY <2>1, <2>2, TailOfItinerary
<1>4. /\ t \in TxType /\ t.pc = pc /\ t.due = {} /\ t.held = tx[k].held
      /\ t.student = tx[k].student /\ t.class = tx[k].class /\ t.activity = tx[k].activity
      /\ t.todo = Tail(tx[k].todo)
      /\ t.rosters = [tx[k].rosters EXCEPT ![c] = SeenRoster(k, c)]
  BY <1>1, <1>2, <1>3, OnTheWay DEF TxType
<1> HIDE DEF t, pc
<1>5. tx'[k] = t /\ \A j \in Sessions \ {k} : tx'[j] = tx[j]
  BY <1>1 DEF IInv, TypeOK
<1>6. HeldExclusively(k)' /\ CheckHolds(k)'
  BY <1>1, <1>3, <1>4, <1>5 DEF IInv, LocksSuffice, HeldExclusively, CheckHolds, Status
<1>7. Purposeful(k)'
  BY <1>1, <1>3, <1>4, <1>5 DEF IInv, LocksSuffice, Purposeful, Changing
<1>8. OnItsWay(k)'
  <2> SUFFICES ASSUME pc = "sync"
               PROVE  enrolled[tx[k].student] # None /\ tx[k].class # None /\ t.todo = <<tx[k].class>>
    BY <1>1, <1>3, <1>4, <1>5 DEF OnItsWay
  <2>1. t.todo = <<tx[k].class>> /\ tx[k].class \in Classes
    BY <1>1, <1>3, <1>4, OnTheWay
  <2>2. enrolled[tx[k].student] # None
    <3>1. Len(tx[k].todo) = 2 /\ OnItsWay(k)
      BY <1>3 DEF IInv, LocksSuffice
    <3> QED BY <1>1, <3>1 DEF OnItsWay, Itinerary
  <2> QED BY <2>1, <2>2, ActivityScoresAssumption
<1>9. DraftsCovered(k)'
  <2>1. \A x : /\ Touches(k, x)' <=> Touches(k, x)
               /\ SeenRoster(k, x)' = SeenRoster(k, x)
    BY <1>1, <1>3, <1>4, <1>5 DEF Touches, Changing, SeenRoster, Roster
  <2>2. \A a \in tx'[k].held : Touches(k, activity[a].class)'
    BY <1>1, <1>4, <1>5, <2>1 DEF IInv, LocksSuffice, DraftsCovered, Changing
  <2>3. ASSUME NEW a \in Activities \ unsynced, Status(a) = "DRAFT", Touches(k, activity[a].class)
        PROVE  \/ NotYetSelected(k, activity[a].class)'
               \/ a \in t.held /\ t.rosters[activity[a].class] = SeenRoster(k, activity[a].class)
    <3> DEFINE x == activity[a].class
    <3>1. x \in Classes /\ tx[k].rosters \in [Classes -> SUBSET Students]
      BY <2>3 DEF IInv, LocksSuffice, HasClass, TypeOK, TxType
    <3>2. CASE NotYetSelected(k, x)
      <4>1. Len(tx[k].todo) = 2 /\ tx[k].todo[2] = x
        BY <1>1, <3>2 DEF NotYetSelected
      <4>2. t.todo = <<x>> /\ t.pc = "sync"
        BY <1>3, <1>4, <4>1
      <4>3. \E i \in 1 .. Len(t.todo) : t.todo[i] = x
        BY <4>2
      <4> QED BY <1>1, <1>5, <4>2, <4>3 DEF NotYetSelected
    <3>3. CASE x = c /\ a \in tx[k].due \cup tx[k].held
      BY <1>1, <1>4, <3>1, <3>3
    <3>4. CASE a \in tx[k].held /\ tx[k].rosters[x] = SeenRoster(k, x)
      BY <1>4, <3>1, <3>4
    <3> QED BY <1>1, <2>3, <3>2, <3>3, <3>4 DEF IInv, LocksSuffice, DraftsCovered
  <2> QED BY <1>1, <1>4, <1>5, <2>1, <2>2, <2>3 DEF DraftsCovered, Status
<1>10. \A j \in Sessions \ {k} : tx[j].pc = "create" => tx[j].activity # t.activity
  BY <1>4 DEF IInv, LocksSuffice, Purposeful
<1> QED BY <1>1, <1>4, <1>6, <1>7, <1>8, <1>9, <1>10, TxStep

-------------------------------------------------------------------------------
(* Commits.                                                                *)

\* The session that commits has nothing left to respect.
LEMMA DoneIsSound ==
    ASSUME NEW k \in Sessions, tx'[k] = Idle
    PROVE  HeldExclusively(k)' /\ Purposeful(k)' /\ OnItsWay(k)' /\ DraftsCovered(k)' /\ CheckHolds(k)'
BY DEF Idle, Changing, Touches, HeldExclusively, Purposeful, OnItsWay, DraftsCovered, CheckHolds

\* A commit that writes one activity nobody else holds or creates.
LEMMA OthersAfterCommit ==
    ASSUME IInv, NEW k \in Sessions, NEW a \in Activities, NEW j \in Sessions \ {k},
           tx'[k] = Idle, tx'[j] = tx[j], \A i \in Sessions \ {k} : tx'[i] = tx[i],
           enrolled' = enrolled,
           \A b \in Activities \ {a} : /\ activity'[b] = activity[b]
                                       /\ line'[b] = line[b]
                                       /\ b \in unsynced' <=> b \in unsynced,
           a \notin tx[j].held,
           tx[j].pc \in {"create", "read", "launch"} => tx[j].activity # a,
           Status(a)' = "DRAFT" /\ a \notin unsynced' => ~Touches(j, activity'[a].class)
    PROVE  HeldExclusively(j)' /\ Purposeful(j)' /\ OnItsWay(j)' /\ DraftsCovered(j)' /\ CheckHolds(j)'
<1> USE DEF IInv, LocksSuffice
<1>1. /\ tx[j].held \subseteq Activities \ {a}
      /\ \A b \in Activities \ {a} : Status(b)' = Status(b)
      /\ Changing(j)' <=> Changing(j)
      /\ ~Changing(k)'
  BY DEF TypeOK, TxType, Status, Changing, Idle
<1>2. HeldExclusively(j)'
  <2>1. tx'[k].held = {}
    BY DEF Idle
  <2> QED BY <1>1, <2>1 DEF HeldExclusively
<1>3. Purposeful(j)'
  <2>1. tx[j].pc = "create" => \A i \in Sessions \ {j} : tx'[i].activity # tx[j].activity
    BY ActivityScoresAssumption DEF Purposeful, Idle
  <2>2. tx[j].pc = "create" => Status(tx[j].activity)' = "none"
    BY <1>1 DEF Purposeful
  <2>3. Changing(j) => \A i \in Sessions \ {j} : Changing(i)' => tx'[i].student # tx[j].student
    BY <1>1 DEF Purposeful, Changing
  <2> QED BY <1>1, <2>1, <2>2, <2>3 DEF Purposeful
<1>4. OnItsWay(j)'
  BY DEF OnItsWay, Itinerary
<1>5. DraftsCovered(j)'
  <2>1. \A c : /\ Touches(j, c)' <=> Touches(j, c)
               /\ NotYetSelected(j, c)' <=> NotYetSelected(j, c)
               /\ SeenRoster(j, c)' = SeenRoster(j, c)
    BY DEF Touches, Changing, NotYetSelected, SeenRoster, Roster
  <2>2. \A b \in tx'[j].held : Changing(j)' => Touches(j, activity[b].class)'
    BY <1>1, <2>1 DEF DraftsCovered
  <2> QED BY <1>1, <2>1, <2>2 DEF DraftsCovered
<1>6. CheckHolds(j)'
  <2>1. tx[j].pc = "launch" => tx[j].activity \in Activities \ {a}
    BY LaunchHolds
  <2> QED BY <2>1 DEF CheckHolds, Valid, Roster
<1> QED BY <1>2, <1>3, <1>4, <1>5, <1>6

LEMMA CommitCreateStep ==
    ASSUME IInv, NEW k \in Sessions, CommitCreate(k)
    PROVE  IInv'
<1> DEFINE a == tx[k].activity
           c == tx[k].class
           lines == Synced(NoLines, tx[k].rosters[c])
<1> USE DEF IInv, LocksSuffice
<1>1. /\ tx[k].pc = "create" /\ enrolled' = enrolled
      /\ line' = [line EXCEPT ![a] = lines]
      /\ unsynced' = Resynced(a, c, lines)
      /\ tx' = [tx EXCEPT ![k] = Idle]
  BY DEF CommitCreate
<1>2. PICK max \in 1 .. MaxScore :
          activity' = [activity EXCEPT ![a] = [status |-> "DRAFT", class |-> c, max |-> max]]
  BY DEF CommitCreate
<1>3. /\ a \in Activities /\ c \in Classes /\ Status(a) = "none"
      /\ \A j \in Sessions \ {k} : tx[j].activity # a /\ a \notin tx[j].held
  BY <1>1 DEF Purposeful, HeldExclusively
<1>4. /\ lines \in [Students -> LineType]
      /\ \A s \in Students : lines[s].state = "none" => lines[s].score = None
  <2>1. tx[k].rosters[c] \in SUBSET Students
    BY <1>3 DEF TypeOK, TxType
  <2> QED BY <2>1, NoLinesType, SyncedType, SyncedBlank
<1> HIDE DEF a, c, lines
<1>5. /\ activity' \in [Activities -> ActivityType]
      /\ activity'[a].class = c /\ activity'[a].status = "DRAFT"
      /\ line' \in [Activities -> [Students -> LineType]] /\ line'[a] = lines
      /\ tx' \in [Sessions -> TxType] /\ tx'[k] = Idle
      /\ \A b \in Activities \ {a} : activity'[b] = activity[b] /\ line'[b] = line[b]
      /\ \A j \in Sessions \ {k} : tx'[j] = tx[j]
  <2>1. [status |-> "DRAFT", class |-> c, max |-> max] \in ActivityType
    BY <1>3, ActivityScoresAssumption DEF ActivityType, Scores
  <2> QED BY <1>1, <1>2, <1>3, <1>4, <2>1, IdleType DEF TypeOK
<1>6. TypeOK'
  BY <1>1, <1>3, <1>4, <1>5, ResyncedSound DEF TypeOK
<1>7. HasClass' /\ LinesFollowRoster'
  BY <1>1, <1>3, <1>5, ResyncedSound DEF HasClass, LinesFollowRoster, Lines, Roster, Status
<1>8. ASSUME NEW j \in Sessions \ {k}
      PROVE  HeldExclusively(j)' /\ Purposeful(j)' /\ OnItsWay(j)' /\ DraftsCovered(j)' /\ CheckHolds(j)'
  BY <1>1, <1>3, <1>5, ResyncedSound, OthersAfterCommit
<1> QED BY <1>5, <1>6, <1>7, <1>8, DoneIsSound

LEMMA CommitLaunchStep ==
    ASSUME IInv, NEW k \in Sessions, CommitLaunch(k)
    PROVE  IInv'
<1> DEFINE a == tx[k].activity
<1> USE DEF IInv, LocksSuffice
<1>1. /\ tx[k].pc = "launch" /\ UNCHANGED <<enrolled, line, unsynced>>
      /\ activity' = [activity EXCEPT ![a].status = "LAUNCHED"]
      /\ tx' = [tx EXCEPT ![k] = Idle]
  BY DEF CommitLaunch
<1>2. /\ a \in Activities
      /\ \A j \in Sessions \ {k} : /\ a \notin tx[j].held
                                   /\ tx[j].pc \in {"create", "read", "launch"} => tx[j].activity # a
  BY <1>1, LaunchHolds
<1>3. activity[a].class \in Classes
  BY <1>1, LaunchHolds
<1> HIDE DEF a
<1>4. /\ activity' \in [Activities -> ActivityType]
      /\ activity'[a].class = activity[a].class /\ activity'[a].status = "LAUNCHED"
      /\ tx' \in [Sessions -> TxType] /\ tx'[k] = Idle
      /\ \A b \in Activities \ {a} : activity'[b] = activity[b]
      /\ \A j \in Sessions \ {k} : tx'[j] = tx[j]
  BY <1>1, <1>2, IdleType DEF TypeOK, ActivityType
<1>5. TypeOK'
  BY <1>1, <1>4 DEF TypeOK
<1>6. HasClass' /\ LinesFollowRoster'
  BY <1>1, <1>2, <1>3, <1>4 DEF HasClass, LinesFollowRoster, Lines, Roster, Status
<1>7. ASSUME NEW j \in Sessions \ {k}
      PROVE  HeldExclusively(j)' /\ Purposeful(j)' /\ OnItsWay(j)' /\ DraftsCovered(j)' /\ CheckHolds(j)'
  BY <1>1, <1>2, <1>4, OthersAfterCommit DEF Status
<1> QED BY <1>4, <1>5, <1>6, <1>7, DoneIsSound

\* A change about to commit holds every synchronized draft of its two classes.
LEMMA ReadyHolds ==
    ASSUME IInv, NEW k \in Sessions, tx[k].pc = "ready",
           NEW a \in Activities \ unsynced, Status(a) = "DRAFT", Touches(k, activity[a].class)
    PROVE  a \in tx[k].held /\ tx[k].rosters[activity[a].class] = SeenRoster(k, activity[a].class)
BY DEF IInv, LocksSuffice, DraftsCovered, NotYetSelected

LEMMA CommitChangeStep ==
    ASSUME IInv, NEW k \in Sessions, CommitChange(k)
    PROVE  IInv'
<1> DEFINE student == tx[k].student
           target == tx[k].class
<1> USE DEF IInv, LocksSuffice
<1>1. /\ tx[k].pc = "ready" /\ Changing(k) /\ UNCHANGED <<activity, unsynced>>
      /\ enrolled' = [enrolled EXCEPT ![student] = target]
      /\ line' = [a \in Activities |->
            IF a \in tx[k].held THEN Synced(line[a], tx[k].rosters[activity[a].class]) ELSE line[a]]
      /\ tx' = [tx EXCEPT ![k] = Idle]
  BY DEF CommitChange, Changing
<1>2. /\ student \in Students /\ target \in Classes \cup {None} /\ target # enrolled[student]
      /\ \A j \in Sessions \ {k} : Changing(j) => tx[j].student # student
      /\ tx[k].held \subseteq Activities
  BY <1>1 DEF Purposeful, TypeOK, TxType
<1>3. /\ enrolled' \in [Students -> Classes \cup {None}]
      /\ enrolled'[student] = target
      /\ \A s \in Students \ {student} : enrolled'[s] = enrolled[s]
      /\ tx' \in [Sessions -> TxType] /\ tx'[k] = Idle
      /\ \A j \in Sessions \ {k} : tx'[j] = tx[j]
  BY <1>1, <1>2, IdleType DEF TypeOK
<1>4. \A c : Roster(c)' = (Roster(c) \ {student}) \cup (IF target = c THEN {student} ELSE {})
  BY <1>2, <1>3 DEF Roster
<1>5. \A c : ~Touches(k, c) => Roster(c)' = Roster(c)
  BY <1>1, <1>2, <1>4 DEF Touches, Roster
<1>6. \A a \in tx[k].held : /\ Status(a) = "DRAFT" /\ activity[a].class \in Classes
                            /\ tx[k].rosters[activity[a].class] \in SUBSET Students
  BY <1>2 DEF HeldExclusively, HasClass, TypeOK, TxType
<1>7. TypeOK'
  <2>1. \A a \in Activities :
            /\ line'[a] \in [Students -> LineType]
            /\ \A s \in Students : line'[a][s].state = "none" => line'[a][s].score = None
    <3> TAKE a \in Activities
    <3>1. line[a] \in [Students -> LineType]
      BY DEF TypeOK
    <3>2. CASE a \in tx[k].held
      BY <1>1, <1>6, <3>1, <3>2, SyncedType, SyncedBlank DEF TypeOK
    <3>3. CASE a \notin tx[k].held
      BY <1>1, <3>1, <3>3 DEF TypeOK
    <3> QED BY <3>2, <3>3
  <2>2. line' \in [Activities -> [Students -> LineType]]
    BY <1>1, <2>1
  <2> QED BY <1>1, <1>3, <2>1, <2>2 DEF TypeOK
<1>8. HasClass'
  BY <1>1 DEF HasClass, Status
<1>9. LinesFollowRoster'
  <2> SUFFICES ASSUME NEW a \in Activities \ unsynced, Status(a) = "DRAFT"
               PROVE  Lines(line'[a]) = Roster(activity[a].class)'
    BY <1>1 DEF LinesFollowRoster, Status, Lines
  <2> DEFINE c == activity[a].class
  <2>1. line[a] \in [Students -> LineType] /\ Lines(line[a]) = Roster(c)
    BY DEF TypeOK, LinesFollowRoster
  <2>2. CASE Touches(k, c)
    <3>1. a \in tx[k].held /\ tx[k].rosters[c] = SeenRoster(k, c)
      BY <1>1, <2>2, ReadyHolds
    <3>2. line'[a] = Synced(line[a], tx[k].rosters[c])
      BY <1>1, <3>1
    <3>3. Lines(line'[a]) = tx[k].rosters[c]
      BY <1>6, <2>1, <3>1, <3>2, SyncedFollows
    <3>4. SeenRoster(k, c) = Roster(c)'
      BY <1>1, <1>4 DEF SeenRoster
    <3> QED BY <3>1, <3>3, <3>4
  <2>3. CASE ~Touches(k, c)
    <3>1. a \notin tx[k].held
      BY <1>1, <2>3 DEF DraftsCovered
    <3> QED BY <1>1, <1>5, <2>1, <2>3, <3>1
  <2> QED BY <2>2, <2>3
<1>10. ASSUME NEW j \in Sessions \ {k}
       PROVE  HeldExclusively(j)' /\ Purposeful(j)' /\ OnItsWay(j)' /\ DraftsCovered(j)' /\ CheckHolds(j)'
  <2>1. /\ tx'[j] = tx[j]
        /\ Changing(j)' <=> Changing(j)
        /\ ~Changing(k)'
        /\ Changing(j) => enrolled'[tx[j].student] = enrolled[tx[j].student]
        /\ \A c : Touches(j, c)' <=> Touches(j, c)
        /\ \A c : NotYetSelected(j, c)' <=> NotYetSelected(j, c)
    <3>1. tx'[j] = tx[j] /\ (Changing(j)' <=> Changing(j)) /\ ~Changing(k)'
      BY <1>3 DEF Changing, Idle
    <3>2. Changing(j) => tx[j].student \in Students \ {student}
      BY <1>2 DEF Purposeful
    <3>3. Changing(j) => enrolled'[tx[j].student] = enrolled[tx[j].student]
      BY <1>3, <3>2
    <3> QED BY <3>1, <3>3 DEF Touches, NotYetSelected
  <2>2. HeldExclusively(j)'
    <3>1. tx'[k].held = {}
      BY <1>3 DEF Idle
    <3> QED BY <1>1, <1>3, <2>1, <3>1 DEF HeldExclusively, Status
  <2>3. Purposeful(j)'
    <3>1. tx[j].pc = "create" => \A i \in Sessions \ {j} : tx'[i].activity # tx[j].activity
      BY <1>3, ActivityScoresAssumption DEF Purposeful, Idle
    <3>2. Changing(j) => \A i \in Sessions \ {j} : Changing(i)' => tx'[i].student # tx[j].student
      BY <1>3, <2>1 DEF Purposeful, Changing
    <3> QED BY <1>1, <2>1, <3>1, <3>2 DEF Purposeful, Status
  <2>4. OnItsWay(j)'
    BY <2>1 DEF OnItsWay, Itinerary, Changing
  <2>5. DraftsCovered(j)'
    <3>1. \A a \in tx'[j].held : Changing(j)' => Touches(j, activity[a].class)'
      BY <1>1, <2>1 DEF DraftsCovered
    <3>2. ASSUME NEW a \in Activities \ unsynced, Status(a) = "DRAFT", a \in tx[j].held,
                 tx[j].rosters[activity[a].class] = SeenRoster(j, activity[a].class)
          PROVE  tx[j].rosters[activity[a].class] = SeenRoster(j, activity[a].class)'
      <4>1. a \notin tx[k].held
        BY <3>2 DEF HeldExclusively
      <4>2. Roster(activity[a].class)' = Roster(activity[a].class)
        BY <1>1, <1>5, <3>2, <4>1, ReadyHolds
      <4> QED BY <1>1, <2>1, <3>2, <4>2 DEF SeenRoster
    <3> QED BY <1>1, <2>1, <3>1, <3>2 DEF DraftsCovered, Status
  <2>6. CheckHolds(j)'
    <3> SUFFICES ASSUME tx[j].pc = "launch"
                 PROVE  CheckHolds(j)'
      BY <2>1 DEF CheckHolds
    <3>1. PICK a \in Activities :
              a = tx[j].activity /\ a \notin tx[k].held /\ Status(a) = "DRAFT"
      BY LaunchHolds
    <3>2. line'[a] = line[a]
      BY <1>1, <3>1
    <3>3. a \notin unsynced => Roster(activity[a].class)' = Roster(activity[a].class)
      BY <1>1, <1>5, <3>1, ReadyHolds
    <3>4. /\ \A s \in tx[j].rosters[activity[a].class] : Valid(a, s)
          /\ a \notin unsynced => Roster(activity[a].class) = tx[j].rosters[activity[a].class]
      BY <3>1 DEF CheckHolds
    <3>5. \A s : Valid(a, s)' <=> Valid(a, s)
      BY <1>1, <3>2 DEF Valid
    <3>6. tx'[j].activity = a /\ tx'[j].rosters = tx[j].rosters
      BY <2>1, <3>1
    <3> QED BY <1>1, <3>3, <3>4, <3>5, <3>6 DEF CheckHolds
  <2> QED BY <2>2, <2>3, <2>4, <2>5, <2>6
<1> QED BY <1>3, <1>7, <1>8, <1>9, <1>10, DoneIsSound

-------------------------------------------------------------------------------
(* Theorems.                                                               *)

LEMMA IInvStep == IInv /\ [Next]_vars => IInv'
<1> SUFFICES ASSUME IInv, [Next]_vars PROVE IInv'
  OBVIOUS
<1>1. CASE UNCHANGED vars
  <2> USE <1>1 DEF vars
  <2>1. TypeOK' /\ LinesFollowRoster' /\ HasClass'
    BY DEF IInv, LocksSuffice, TypeOK, LinesFollowRoster, HasClass, Lines, Roster, Status
  <2>2. ASSUME NEW k \in Sessions
        PROVE  HeldExclusively(k)' /\ Purposeful(k)' /\ OnItsWay(k)' /\ DraftsCovered(k)' /\ CheckHolds(k)'
    <3>1. HeldExclusively(k)' /\ Purposeful(k)'
      BY DEF IInv, LocksSuffice, HeldExclusively, Purposeful, Status, Changing
    <3>2. OnItsWay(k)' /\ CheckHolds(k)'
      BY DEF IInv, LocksSuffice, OnItsWay, Itinerary, CheckHolds, Valid, Roster
    <3>3. DraftsCovered(k)'
      BY DEF IInv, LocksSuffice, DraftsCovered, Status, Changing, Touches, NotYetSelected, SeenRoster, Roster
    <3> QED BY <3>1, <3>2, <3>3
  <2> QED BY <2>1, <2>2 DEF IInv, LocksSuffice
<1>2. ASSUME NEW a \in Activities, Command(a)
      PROVE  IInv'
  BY <1>2, ChangeMaximumStep, ChangeClassStep, RecordScoresStep, ReopenScoresStep DEF Command
<1>3. ASSUME NEW k \in Sessions, Transact(k)
      PROVE  IInv'
  <2>1. CASE CommitCreate(k) \/ ReadRoster(k) \/ CommitLaunch(k) \/ Rollback(k)
    BY <2>1, CommitCreateStep, ReadRosterStep, CommitLaunchStep, RollbackStep
  <2>2. CASE SelectDrafts(k) \/ SyncClass(k) \/ CommitChange(k)
    BY <2>2, SelectDraftsStep, SyncClassStep, CommitChangeStep
  <2>3. CASE \E a \in Activities, c \in Classes : BeginCreate(k, a, c)
    BY <2>3, BeginCreateStep
  <2>4. CASE \E a \in Activities : BeginLaunch(k, a) \/ LockDraft(k, a)
    BY <2>4, BeginLaunchStep, LockDraftStep
  <2>5. CASE \E s \in Students, c \in Classes \cup {None} : BeginChange(k, s, c)
    BY <2>5, BeginChangeStep
  <2> QED BY <1>3, <2>1, <2>2, <2>3, <2>4, <2>5 DEF Transact
<1> QED BY <1>1, <1>2, <1>3 DEF Next

\* The invariant of the grade book: types, locks held by one transaction each,
\* no draft of a class escaping an enrollment change of the class, and what a
\* launch has checked staying true (activities/services/activity.py, scores.py).
THEOREM Invariant == Spec => []IInv
BY IInvInit, IInvStep, PTL DEF Spec

\* Type correctness for any number of students, classes, activities, sessions.
THEOREM TypeCorrect == Spec => []TypeOK
BY Invariant, PTL DEF IInv

\* sync_class_submissions keeps the lines of every draft equal to the roster of
\* its class, but for the activities set aside.
THEOREM DraftLinesFollowRoster == Spec => []LinesFollowRoster
BY Invariant, PTL DEF IInv

\* launch_scores: at its commit every active student of the class has a valid
\* score, whatever ran between its reads and the commit.
THEOREM LaunchesAreComplete == Spec => LaunchIsComplete
<1> DEFINE Complete(a) ==
        Status(a) = "DRAFT" /\ activity'[a].status = "LAUNCHED" /\ a \notin unsynced
            => \A s \in Roster(activity[a].class) :
                   line[a][s].state = "active" /\ line[a][s].score \in 0 .. activity[a].max
<1>1. IInv /\ [Next]_vars => \A a \in Activities : Complete(a)
  <2> SUFFICES ASSUME IInv, [Next]_vars, NEW a \in Activities,
                      Status(a) = "DRAFT", activity'[a].status = "LAUNCHED", a \notin unsynced
               PROVE  \A s \in Roster(activity[a].class) : Valid(a, s)
    BY DEF Valid
  <2>1. PICK k \in Sessions : CommitLaunch(k)
    <3>1. \A b \in Activities : ~ Command(b)
      BY DEF Command, ChangeMaximum, ChangeClass, RecordScores, ReopenScores, IInv, TypeOK,
             ActivityType, Status
    <3>2. ASSUME NEW k \in Sessions, Transact(k)
          PROVE  CommitLaunch(k)
      <4>1. ~ CommitCreate(k)
        <5> SUFFICES ASSUME CommitCreate(k) PROVE FALSE
          OBVIOUS
        <5>1. PICK max \in 1 .. MaxScore : activity' = [activity EXCEPT ![tx[k].activity] =
                  [status |-> "DRAFT", class |-> tx[k].class, max |-> max]]
          BY DEF CommitCreate
        <5> QED BY <5>1 DEF IInv, TypeOK, Status
      <4>2. activity' # activity
        BY DEF IInv, TypeOK, Status
      <4> QED BY <3>2, <4>1, <4>2
              DEF Transact, BeginCreate, BeginLaunch, ReadRoster, BeginChange, SelectDrafts, LockDraft,
                  SyncClass, CommitChange, Rollback
    <3> QED BY <3>1, <3>2 DEF Next, vars, Status
  <2>2. tx[k].pc = "launch" /\ a = tx[k].activity
    BY <2>1, LaunchHolds DEF CommitLaunch, IInv, TypeOK, ActivityType, Status
  <2> QED BY <2>2 DEF IInv, LocksSuffice, CheckHolds
<1>2. Spec => [][\A a \in Activities : Complete(a)]_vars
  BY <1>1, Invariant, PTL DEF Spec
<1> QED BY <1>2 DEF LaunchIsComplete

\* The official state blocks every change of the grades, that of an enrollment
\* change waiting for the activity included.
THEOREM LaunchedStaysFrozen == Spec => LaunchedIsFrozen
<1> DEFINE Frozen(a) ==
        Status(a) = "LAUNCHED" => /\ line'[a] = line[a]
                                  /\ activity'[a].class = activity[a].class
                                  /\ activity'[a].max = activity[a].max
<1>1. IInv /\ [Next]_vars => \A a \in Activities : Frozen(a)
  <2> SUFFICES ASSUME IInv, [Next]_vars, NEW a \in Activities, Status(a) = "LAUNCHED"
               PROVE  /\ line'[a] = line[a]
                      /\ activity'[a].class = activity[a].class
                      /\ activity'[a].max = activity[a].max
    OBVIOUS
  <2>1. CASE UNCHANGED vars
    BY <2>1 DEF vars
  <2>2. ASSUME NEW b \in Activities, Command(b)
        PROVE  Frozen(a)
    BY <2>2 DEF Command, ChangeMaximum, ChangeClass, RecordScores, ReopenScores, Editable, IInv,
                TypeOK, ActivityType, Status
  <2>3. ASSUME NEW k \in Sessions, Transact(k)
        PROVE  Frozen(a)
    <3>1. CASE CommitCreate(k)
      BY <3>1 DEF CommitCreate, IInv, LocksSuffice, Purposeful, TypeOK, Status
    <3>2. CASE CommitLaunch(k)
      BY <3>2 DEF CommitLaunch, IInv, TypeOK, ActivityType
    <3>3. CASE CommitChange(k)
      BY <3>3 DEF CommitChange, IInv, LocksSuffice, HeldExclusively, Status
    <3>4. CASE UNCHANGED <<line, activity>>
      BY <3>4
    <3> QED BY <2>3, <3>1, <3>2, <3>3, <3>4
            DEF Transact, BeginCreate, BeginLaunch, ReadRoster, BeginChange, SelectDrafts, LockDraft,
                SyncClass, Rollback
  <2> QED BY <2>1, <2>2, <2>3 DEF Next
<1>2. Spec => [][\A a \in Activities : Frozen(a)]_vars
  BY <1>1, Invariant, PTL DEF Spec
<1> QED BY <1>2 DEF LaunchedIsFrozen
===============================================================================
