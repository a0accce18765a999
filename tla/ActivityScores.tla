----------------------------- MODULE ActivityScores -----------------------------
(***************************************************************************)
(* The grade book of src/activities against the enrollment changes of      *)
(* src/classes: activities in draft or officially launched, one line per   *)
(* student, and the synchronization that keeps the lines of draft          *)
(* activities equal to the roster of the class.                            *)
(*                                                                         *)
(* Transactions run at READ COMMITTED.  Three of them read the roster at   *)
(* one moment and write at another, and are split at their reads and       *)
(* locks: an enrollment change (create, transfer or close, with the        *)
(* synchronization it calls), the creation of an activity, and the launch. *)
(* The commands that hold the activity row throughout are one step.        *)
(*                                                                         *)
(* Enrollments are those of one academic year.  A session holds the        *)
(* activities in tx.held, its student, its target class and, once a launch *)
(* has read it, the enrollments of the roster.  Any transaction may roll   *)
(* back: a refusal, a lost connection, a deadlock PostgreSQL breaks.       *)
(***************************************************************************)
EXTENDS Naturals, Sequences, FiniteSets

CONSTANTS
    Students, Classes, Activities,
    Sessions,       \* database sessions running the split transactions
    None,
    MaxScore        \* bound of the model: scores are 0 .. MaxScore

ASSUME ActivityScoresAssumption ==
    /\ None \notin Students \cup Classes \cup Activities \cup Nat
    /\ MaxScore \in Nat \ {0}

VARIABLES
    enrolled,   \* the class of each student's ACTIVE enrollment
    activity,   \* Activity rows
    line,       \* ActivitySubmission rows, by activity and student
    tx,         \* the transaction of each session
    unsynced    \* activities that appeared, moved or were reopened while an
                \* enrollment change was under way, or after one they missed

vars == <<enrolled, activity, line, tx, unsynced>>

-------------------------------------------------------------------------------
Scores  == 0 .. MaxScore
NoLine  == [state |-> "none", score |-> None]
NoLines == [s \in Students |-> NoLine]
Idle    == [pc |-> "idle", student |-> None, class |-> None, activity |-> None,
            todo |-> <<>>, due |-> {}, held |-> {}, rosters |-> [c \in Classes |-> {}]]

Status(a) == activity[a].status
Roster(c) == {s \in Students : enrolled[s] = c}
Lines(l)  == {s \in Students : l[s].state = "active"}

Changing(k)      == tx[k].pc \in {"sync", "lock", "ready"}
ActivityFree(a)  == \A k \in Sessions : a \notin tx[k].held
StudentFree(s)   == \A k \in Sessions : Changing(k) => tx[k].student # s
ClassFree(c)     == \A k \in Sessions : Changing(k) => tx[k].class # c
LaunchReads(k)   == IF tx[k].pc = "launch" THEN tx[k].rosters[activity[tx[k].activity].class] ELSE {}
EnrollmentFree(s) == \A k \in Sessions : s \notin LaunchReads(k)

\* An enrollment change that has not committed and adds to or takes from c.
Touches(k, c) == Changing(k) /\ c \in {tx[k].class, enrolled[tx[k].student]}

\* After the activity a has appeared, moved or reopened in c with these lines.
Resynced(a, c, lines) ==
    IF Lines(lines) = Roster(c) /\ \A k \in Sessions : ~Touches(k, c)
    THEN unsynced \ {a}
    ELSE unsynced \cup {a}

\* (A slip: a student who comes back keeps a deleted line.)
SyncedNoRestore(lines, roster) ==
    [s \in Students |->
        IF s \in roster /\ lines[s].state = "none"
        THEN [state |-> "active", score |-> None]
        ELSE IF s \notin roster /\ lines[s].state = "active"
             THEN [lines[s] EXCEPT !.state = "deleted"]
             ELSE lines[s]]

\* _sync_activity_submissions: lines are created, restored with the score they
\* had, or softly deleted.
Synced(lines, roster) ==
    [s \in Students |->
        IF s \in roster THEN [lines[s] EXCEPT !.state = "active"]
        ELSE IF lines[s].state = "active" THEN [lines[s] EXCEPT !.state = "deleted"]
        ELSE lines[s]]

Init ==
    /\ enrolled \in [Students -> Classes \cup {None}]
    /\ activity = [a \in Activities |-> [status |-> "none", class |-> None, max |-> 0]]
    /\ line = [a \in Activities |-> NoLines]
    /\ tx = [k \in Sessions |-> Idle]
    /\ unsynced = {}

-------------------------------------------------------------------------------
(* create_activity: no lock on the class; the roster is read before the    *)
(* activity is visible to anyone.                                          *)

BeginCreate(k, a, c) ==
    /\ tx[k] = Idle
    /\ Status(a) = "none" /\ \A j \in Sessions : tx[j].activity # a
    /\ tx' = [tx EXCEPT ![k] = [Idle EXCEPT !.pc = "create", !.activity = a, !.class = c,
                                            !.rosters[c] = Roster(c)]]
    /\ UNCHANGED <<enrolled, activity, line, unsynced>>

CommitCreate(k) ==
    LET a == tx[k].activity
        c == tx[k].class
        lines == Synced(NoLines, tx[k].rosters[c])
    IN  /\ tx[k].pc = "create"
        /\ \E max \in 1 .. MaxScore :
              activity' = [activity EXCEPT ![a] = [status |-> "DRAFT", class |-> c, max |-> max]]
        /\ line' = [line EXCEPT ![a] = lines]
        /\ unsynced' = Resynced(a, c, lines)
        /\ tx' = [tx EXCEPT ![k] = Idle]
        /\ UNCHANGED enrolled

-------------------------------------------------------------------------------
(* Commands that hold the activity row.                                    *)

\* (A slip: the row is read without its lock.)
EditableUnlocked(a) == Status(a) = "DRAFT"

Editable(a) == Status(a) = "DRAFT" /\ ActivityFree(a)

\* update_activity: the maximum may fall below scores already recorded.
ChangeMaximum(a, max) ==
    /\ Editable(a) /\ max # activity[a].max
    /\ activity' = [activity EXCEPT ![a].max = max]
    /\ UNCHANGED <<enrolled, line, tx, unsynced>>

\* update_activity with another class: only visible lines are asked for results.
ChangeClass(a, c) ==
    LET lines == Synced(line[a], Roster(c)) IN
    /\ Editable(a) /\ c # activity[a].class
    /\ \A s \in Lines(line[a]) : line[a][s].score = None
    /\ activity' = [activity EXCEPT ![a].class = c]
    /\ line' = [line EXCEPT ![a] = lines]
    /\ unsynced' = Resynced(a, c, lines)
    /\ UNCHANGED <<enrolled, tx>>

\* batch_record_scores: every row is accepted or none is.  A group result is
\* the same score for the lines of its members.
RecordScores(a, graded) ==
    /\ Editable(a)
    /\ graded # {} /\ graded \subseteq Lines(line[a]) \cap Roster(activity[a].class)
    /\ \E score \in [graded -> (0 .. activity[a].max) \cup {None}] :
          line' = [line EXCEPT ![a] =
              [s \in Students |-> IF s \in graded THEN [@[s] EXCEPT !.score = score[s]] ELSE @[s]]]
    /\ UNCHANGED <<enrolled, activity, tx, unsynced>>

\* reopen_scores: back to draft; nothing synchronizes the lines.
ReopenScores(a) ==
    /\ Status(a) = "LAUNCHED" /\ ActivityFree(a)
    /\ activity' = [activity EXCEPT ![a].status = "DRAFT"]
    /\ unsynced' = Resynced(a, activity[a].class, line[a])
    /\ UNCHANGED <<enrolled, line, tx>>

-------------------------------------------------------------------------------
(* launch_scores: the activity, then the enrollments of the roster, are    *)
(* locked; a student without a valid score refuses the launch.             *)

BeginLaunch(k, a) ==
    /\ tx[k] = Idle /\ Editable(a)
    /\ tx' = [tx EXCEPT ![k] = [Idle EXCEPT !.pc = "read", !.activity = a, !.held = {a}]]
    /\ UNCHANGED <<enrolled, activity, line, unsynced>>

Valid(a, s) == line[a][s].state = "active" /\ line[a][s].score \in 0 .. activity[a].max

ReadRoster(k) ==
    LET a == tx[k].activity
        c == activity[a].class
    IN  /\ tx[k].pc = "read"
        /\ Roster(c) # {}
        /\ \A s \in Roster(c) : StudentFree(s) /\ Valid(a, s)
        /\ tx' = [tx EXCEPT ![k].pc = "launch", ![k].rosters[c] = Roster(c)]
        /\ UNCHANGED <<enrolled, activity, line, unsynced>>

CommitLaunch(k) ==
    /\ tx[k].pc = "launch"
    /\ activity' = [activity EXCEPT ![tx[k].activity].status = "LAUNCHED"]
    /\ tx' = [tx EXCEPT ![k] = Idle]
    /\ UNCHANGED <<enrolled, line, unsynced>>

-------------------------------------------------------------------------------
(* create_from_application, transfer_from_application and                  *)
(* close_from_application with sync_class_submissions: the class of origin *)
(* first, then the target.  c = None closes.                               *)

Itinerary(s, c) ==
    IF enrolled[s] = None THEN <<c>>
    ELSE IF c = None THEN <<enrolled[s]>> ELSE <<enrolled[s], c>>

BeginChange(k, s, c) ==
    /\ tx[k] = Idle
    /\ c # enrolled[s]
    /\ StudentFree(s) /\ EnrollmentFree(s)
    /\ c # None => ClassFree(c)
    /\ tx' = [tx EXCEPT ![k] =
          [Idle EXCEPT !.pc = "sync", !.student = s, !.class = c, !.todo = Itinerary(s, c)]]
    /\ UNCHANGED <<enrolled, activity, line, unsynced>>

\* The drafts the statement sees; those it has to wait for come later.
SelectDrafts(k) ==
    /\ tx[k].pc = "sync"
    /\ tx' = [tx EXCEPT ![k].pc = "lock",
                        ![k].due = {a \in Activities : Status(a) = "DRAFT"
                                      /\ activity[a].class = Head(tx[k].todo)}]
    /\ UNCHANGED <<enrolled, activity, line, unsynced>>

\* (A slip: a row is not looked at again after the wait.)
StillSelectedAnyway(k, a) == TRUE

\* A row that was waited for is kept only if it still matches.
StillSelected(k, a) == Status(a) = "DRAFT" /\ activity[a].class = Head(tx[k].todo)

LockDraft(k, a) ==
    /\ tx[k].pc = "lock" /\ a \in tx[k].due
    /\ \A j \in Sessions \ {k} : a \notin tx[j].held
    /\ tx' = [tx EXCEPT ![k].due = @ \ {a},
                        ![k].held = IF StillSelected(k, a) THEN @ \cup {a} ELSE @]
    /\ UNCHANGED <<enrolled, activity, line, unsynced>>

\* The roster as this transaction sees it once the activities are locked.
SeenRoster(k, c) ==
    (Roster(c) \ {tx[k].student}) \cup (IF tx[k].class = c THEN {tx[k].student} ELSE {})

SyncClass(k) ==
    LET c == Head(tx[k].todo) IN
    /\ tx[k].pc = "lock" /\ tx[k].due = {}
    /\ tx' = [tx EXCEPT ![k].rosters[c] = SeenRoster(k, c),
                        ![k].todo = Tail(@),
                        ![k].pc = IF Len(tx[k].todo) > 1 THEN "sync" ELSE "ready"]
    /\ UNCHANGED <<enrolled, activity, line, unsynced>>

CommitChange(k) ==
    /\ tx[k].pc = "ready"
    /\ enrolled' = [enrolled EXCEPT ![tx[k].student] = tx[k].class]
    /\ line' = [a \in Activities |->
          IF a \in tx[k].held THEN Synced(line[a], tx[k].rosters[activity[a].class]) ELSE line[a]]
    /\ tx' = [tx EXCEPT ![k] = Idle]
    /\ UNCHANGED <<activity, unsynced>>

Rollback(k) ==
    /\ tx[k] # Idle
    /\ tx' = [tx EXCEPT ![k] = Idle]
    /\ UNCHANGED <<enrolled, activity, line, unsynced>>

-------------------------------------------------------------------------------
Command(a) ==
    \/ \E max \in 1 .. MaxScore : ChangeMaximum(a, max)
    \/ \E c \in Classes : ChangeClass(a, c)
    \/ \E graded \in SUBSET Students : RecordScores(a, graded)
    \/ ReopenScores(a)

Transact(k) ==
    \/ \E a \in Activities, c \in Classes : BeginCreate(k, a, c)
    \/ CommitCreate(k)
    \/ \E a \in Activities : BeginLaunch(k, a)
    \/ ReadRoster(k)
    \/ CommitLaunch(k)
    \/ \E s \in Students, c \in Classes \cup {None} : BeginChange(k, s, c)
    \/ SelectDrafts(k)
    \/ \E a \in Activities : LockDraft(k, a)
    \/ SyncClass(k)
    \/ CommitChange(k)
    \/ Rollback(k)

Next == (\E a \in Activities : Command(a)) \/ (\E k \in Sessions : Transact(k))

Spec == Init /\ [][Next]_vars

-------------------------------------------------------------------------------
(* Correctness.                                                            *)

ActivityType ==
    [status : {"none", "DRAFT", "LAUNCHED"}, class : Classes \cup {None}, max : Scores]

LineType == [state : {"none", "active", "deleted"}, score : Scores \cup {None}]

TxType ==
    [pc : {"idle", "create", "read", "launch", "sync", "lock", "ready"},
     student : Students \cup {None}, class : Classes \cup {None},
     activity : Activities \cup {None}, todo : Seq(Classes),
     due : SUBSET Activities, held : SUBSET Activities,
     rosters : [Classes -> SUBSET Students]]

\* Every column keeps its values, and an activity without lines has no scores.
TypeOK ==
    /\ enrolled \in [Students -> Classes \cup {None}]
    /\ activity \in [Activities -> ActivityType]
    /\ line \in [Activities -> [Students -> LineType]]
    /\ \A a \in Activities, s \in Students :
          line[a][s].state = "none" => line[a][s].score = None
    /\ tx \in [Sessions -> TxType]
    /\ unsynced \subseteq Activities

(***************************************************************************)
(* The parts of the inductive invariant.                                   *)
(***************************************************************************)

\* Row locks: an activity is held by one transaction, and stays a draft.
HeldExclusively(k) ==
    /\ \A a \in tx[k].held : Status(a) = "DRAFT"
    /\ \A j \in Sessions \ {k} : tx[j].held \cap tx[k].held = {}

\* What a transaction is about: an activity of its own to create, a draft it
\* holds to launch, a student no other one enrolls or withdraws.
Purposeful(k) ==
    /\ tx[k].pc = "create" =>
          /\ tx[k].activity \in Activities /\ tx[k].class \in Classes
          /\ Status(tx[k].activity) = "none"
          /\ \A j \in Sessions \ {k} : tx[j].activity # tx[k].activity
    /\ tx[k].pc \in {"read", "launch"} => tx[k].activity \in tx[k].held
    /\ Changing(k) =>
          /\ tx[k].student \in Students
          /\ tx[k].class # enrolled[tx[k].student]
          /\ \A j \in Sessions \ {k} : Changing(j) => tx[j].student # tx[k].student

\* The classes a change has still to synchronize, of origin and of target.
OnItsWay(k) ==
    tx[k].pc \in {"sync", "lock"} =>
        \/ tx[k].todo = Itinerary(tx[k].student, tx[k].class)
        \/ /\ enrolled[tx[k].student] # None /\ tx[k].class # None
           /\ tx[k].todo = <<tx[k].class>>

NotYetSelected(k, c) ==
    \/ tx[k].pc = "sync" /\ \E i \in 1 .. Len(tx[k].todo) : tx[k].todo[i] = c
    \/ tx[k].pc = "lock" /\ Len(tx[k].todo) = 2 /\ tx[k].todo[2] = c

\* No draft escapes an enrollment change of its class: the change has not looked
\* for it yet, is about to lock it, or holds it and knows its roster.
DraftsCovered(k) ==
    /\ \A a \in tx[k].held : Changing(k) => Touches(k, activity[a].class)
    /\ \A a \in Activities \ unsynced :
          LET c == activity[a].class IN
          Status(a) = "DRAFT" /\ Touches(k, c) =>
              \/ NotYetSelected(k, c)
              \/ tx[k].pc = "lock" /\ tx[k].todo[1] = c /\ a \in tx[k].due \cup tx[k].held
              \/ a \in tx[k].held /\ tx[k].rosters[c] = SeenRoster(k, c)

\* What a launch has checked stays true until it commits.
CheckHolds(k) ==
    tx[k].pc = "launch" =>
        LET a == tx[k].activity
            c == activity[a].class
        IN  /\ \A s \in tx[k].rosters[c] : Valid(a, s)
            /\ a \notin unsynced => Roster(c) = tx[k].rosters[c]

\* An activity that exists belongs to a class.
HasClass == \A a \in Activities : Status(a) # "none" => activity[a].class \in Classes

LocksSuffice ==
    /\ HasClass
    /\ \A k \in Sessions :
          /\ HeldExclusively(k)
          /\ Purposeful(k)
          /\ OnItsWay(k)
          /\ DraftsCovered(k)
          /\ CheckHolds(k)

\* sync_class_submissions: a draft has a line for exactly the active students of
\* its class, however enrollments, launches and grading interleave; unless it
\* appeared, moved or reopened across an enrollment change.
LinesFollowRoster ==
    \A a \in Activities \ unsynced :
        Status(a) = "DRAFT" => Lines(line[a]) = Roster(activity[a].class)

\* _assert_all_active_students_have_valid_scores: at the commit of a launch
\* every active student of the class has a score within the maximum.
LaunchIsComplete ==
    [][\A a \in Activities :
         Status(a) = "DRAFT" /\ activity'[a].status = "LAUNCHED" /\ a \notin unsynced
             => \A s \in Roster(activity[a].class) :
                    line[a][s].state = "active" /\ line[a][s].score \in 0 .. activity[a].max]_vars

\* docs/05_DATABASE.md: the official state blocks every change of the grades,
\* including that of an enrollment change that was waiting for the activity.
LaunchedIsFrozen ==
    [][\A a \in Activities :
         Status(a) = "LAUNCHED" => /\ line'[a] = line[a]
                                   /\ activity'[a].class = activity[a].class
                                   /\ activity'[a].max = activity[a].max]_vars

\* sync_class_submissions says "Sincroniza entregas das atividades em rascunho
\* após mudanças de matrícula": with no change under way every draft agrees with
\* the roster of its class.
DraftsFollowRoster ==
    (\A k \in Sessions : tx[k] = Idle) =>
        \A a \in Activities :
            Status(a) = "DRAFT" => Lines(line[a]) = Roster(activity[a].class)

===============================================================================
