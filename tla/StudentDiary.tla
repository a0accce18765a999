---------------------------- MODULE StudentDiary ----------------------------
(***************************************************************************)
(* The daily sheet of an early-childhood class: filled in by teachers,     *)
(* reviewed by the coordination, published to families as revisions        *)
(* (src/student_diary/services.py, workflow_services.py).                  *)
(*                                                                         *)
(* Sheets share no state: this is the sheet of one class and one day.      *)
(* Every command holds the row of the sheet; the enrollments of the class  *)
(* change without it.  Saving is split between its checks and its writes.  *)
(* Answers are compared by identity: the labels of the catalogue, copied   *)
(* at publication, belong to the configuration.                            *)
(***************************************************************************)
EXTENDS Naturals, Sequences

CONSTANTS
    Children,      \* children the class may have
    Answers,       \* what a teacher may record of a child
    Educators,     \* people filling in the sheet
    MaxSubmissions \* bound

ASSUME DiaryAssumption == MaxSubmissions \in Nat

VARIABLES
    sheet,       \* status of the sheet, and the submissions so far
    diary,       \* answers saved for each child with a daily row
    roster,      \* children with an active enrollment
    saving,      \* form each teacher is saving, <<>> when not saving
    submitted,   \* submitted[n]: what the n-th submission sent to review
    editions     \* published revisions, in order of number

diaryVars == <<sheet, diary, roster, saving, submitted, editions>>

SheetStatuses == {"NONE", "DRAFT", "PENDING_REVIEW", "CHANGES_REQUESTED", "PUBLISHED"}
Forms == UNION {[some -> Answers] : some \in (SUBSET Children) \ {{}}}

DiaryInit ==
    /\ sheet = "NONE"
    /\ diary = <<>>
    /\ roster = {}
    /\ saving = [t \in Educators |-> <<>>]
    /\ submitted = <<>>
    /\ editions = <<>>

\* Slip: the sheet is read without its lock.
SheetUnlocked == TRUE

\* The row of the sheet, or the insertion of the only sheet of the day.
SheetFree == \A t \in Educators : saving[t] = <<>>

\* save_daily_diaries refuses a sheet under review or published, and a form
\* that does not cover the active children.  (A class without children saves an
\* empty sheet, which no command can take further: left out.)
BeginSave(t, form) ==
    /\ SheetFree
    /\ sheet \notin {"PENDING_REVIEW", "PUBLISHED"}
    /\ DOMAIN form = roster
    /\ saving' = [saving EXCEPT ![t] = form]
    /\ UNCHANGED <<sheet, diary, roster, submitted, editions>>

\* One row per child; the rows of children who left stay.  A new sheet is a
\* draft, a returned one stays returned.
CommitSave(t) ==
    /\ saving[t] # <<>>
    /\ diary' = [c \in DOMAIN diary \cup DOMAIN saving[t] |->
                   IF c \in DOMAIN saving[t] THEN saving[t][c] ELSE diary[c]]
    /\ sheet' = IF sheet = "NONE" THEN "DRAFT" ELSE sheet
    /\ saving' = [saving EXCEPT ![t] = <<>>]
    /\ UNCHANGED <<roster, submitted, editions>>

\* An answer that is not available, or a required one missing.
AbandonSave(t) ==
    /\ saving[t] # <<>>
    /\ saving' = [saving EXCEPT ![t] = <<>>]
    /\ UNCHANGED <<sheet, diary, roster, submitted, editions>>

SubmitSheet ==
    /\ SheetFree
    /\ sheet \in {"DRAFT", "CHANGES_REQUESTED"}
    /\ roster # {} /\ roster = DOMAIN diary
    /\ Len(submitted) < MaxSubmissions
    /\ sheet' = "PENDING_REVIEW"
    /\ submitted' = Append(submitted, diary)
    /\ UNCHANGED <<diary, roster, saving, editions>>

RequestChanges ==
    /\ SheetFree
    /\ sheet = "PENDING_REVIEW"
    /\ sheet' = "CHANGES_REQUESTED"
    /\ UNCHANGED <<diary, roster, saving, submitted, editions>>

\* approve_sheet copies the rows as they are now; `of` is the submission it answers.
ApproveSheet ==
    /\ SheetFree
    /\ sheet = "PENDING_REVIEW"
    /\ diary # <<>>
    /\ editions' = Append(editions, [entries |-> diary, of |-> Len(submitted)])
    /\ sheet' = "PUBLISHED"
    /\ UNCHANGED <<diary, roster, saving, submitted>>

ReopenSheet ==
    /\ SheetFree
    /\ sheet = "PUBLISHED"
    /\ sheet' = "DRAFT"
    /\ UNCHANGED <<diary, roster, saving, submitted, editions>>

\* Enrollment, transfer and cancellation, at any moment.
RosterChanges(c) ==
    /\ roster' = IF c \in roster THEN roster \ {c} ELSE roster \cup {c}
    /\ UNCHANGED <<sheet, diary, saving, submitted, editions>>

DiaryNext ==
    \/ \E t \in Educators :
         \/ \E form \in Forms : BeginSave(t, form)
         \/ CommitSave(t) \/ AbandonSave(t)
    \/ SubmitSheet \/ RequestChanges \/ ApproveSheet \/ ReopenSheet
    \/ \E c \in Children : RosterChanges(c)

DiarySpec == DiaryInit /\ [][DiaryNext]_diaryVars

-----------------------------------------------------------------------------
(* Properties                                                              *)

DiaryTypeOK ==
    /\ sheet \in SheetStatuses
    /\ diary \in Forms \cup {<<>>}
    /\ roster \subseteq Children
    /\ saving \in [Educators -> Forms \cup {<<>>}]
    /\ submitted \in Seq(Forms)
    /\ editions \in Seq([entries : Forms, of : Nat])

\* What families receive went through review as it is: every revision is, child
\* by child, one submission of the teachers, and no submission is published
\* twice, whatever is saved, returned, reopened and enrolled in between.
PublishedWasSubmitted ==
    \A n \in DOMAIN editions :
        /\ editions[n].of \in DOMAIN submitted
        /\ editions[n].entries = submitted[editions[n].of]
        /\ \A earlier \in 1..(n - 1) : editions[earlier].of < editions[n].of
=============================================================================
