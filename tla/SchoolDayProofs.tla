-------------------------- MODULE SchoolDayProofs --------------------------
(***************************************************************************)
(* Theorems of four parts of a school's day in which somebody acts on what *)
(* a page, a list or a table showed earlier: the roll call (RollCall) and  *)
(* the daily sheet of a class (StudentDiary), for any children and any     *)
(* number of people at work; announcements (Announcements), for any        *)
(* managers, executions of the task and contents; and the timetable        *)
(* (Timetable), for any resources, cells, weeks and sessions: no class,    *)
(* teacher or room is booked twice.                                        *)
(***************************************************************************)
EXTENDS RollCall, StudentDiary, Announcements, Timetable, TLAPS


(***************************************************************************)
(* The roll call.  An entry a form has written but not committed is held:  *)
(* its version is still the one the form was filled in with, and no other  *)
(* form has written it.                                                    *)
(***************************************************************************)

MarkingOK(m) ==
    /\ marking[m].todo \subseteq DOMAIN marking[m].marks
    /\ \A s \in Written(m) :
         /\ s \in DOMAIN roll
         /\ roll[s].version = marking[m].seen[s] /\ roll[s].version < MaxMarks
         /\ \A o \in Markers \ {m} : s \notin Written(o)

RollInv == RollTypeOK /\ NoMarkLost /\ \A m \in Markers : MarkingOK(m)

LEMMA FormParts ==
    ASSUME NEW children, NEW f \in SavedForms(children)
    PROVE  /\ f.marks \in [DOMAIN f.marks -> Marks]
           /\ f.seen \in [DOMAIN f.marks -> 1..MaxMarks]
           /\ DOMAIN f.marks \subseteq children
           /\ f.todo \subseteq DOMAIN f.marks
BY DEF SavedForms

LEMMA FormMade ==
    ASSUME NEW children, NEW some \in SUBSET children, NEW marks \in [some -> Marks],
           NEW seen \in [some -> 1..MaxMarks], NEW todo \in SUBSET some
    PROVE  [marks |-> marks, seen |-> seen, todo |-> todo] \in SavedForms(children)
BY DEF SavedForms

LEMMA EmptyForm == \A children : NotMarking \in SavedForms(children)
<1> TAKE children
<1>1. {} \in SUBSET children /\ <<>> \in [{} -> Marks] /\ <<>> \in [{} -> 1..MaxMarks]
  OBVIOUS
<1> QED BY <1>1, FormMade DEF NotMarking

LEMMA FormsGrow ==
    ASSUME NEW small, NEW large, small \subseteq large
    PROVE  SavedForms(small) \subseteq SavedForms(large)
BY DEF SavedForms

\* The step of one person, who may only write entries nobody else has written and
\* only commits those, leaves alone what another relies on.
LEMMA RollFrame ==
    ASSUME RollInv, NEW m \in Markers, NEW j \in Markers, j # m,
           \A o \in Markers \ {m} : marking'[o] = marking[o],
           \A s \in Written(j) : s \notin Written(m)',
           DOMAIN roll' = DOMAIN roll,
           \A s \in DOMAIN roll : s \notin Written(m) => roll'[s] = roll[s]
    PROVE  MarkingOK(j)'
<1>1. MarkingOK(j) /\ \A o \in Markers \ {m} : Written(o)' = Written(o)
  BY DEF RollInv, Written
<1>2. ASSUME NEW s \in Written(j)
      PROVE  /\ s \in DOMAIN roll' /\ roll'[s].version = marking'[j].seen[s]
             /\ roll'[s].version < MaxMarks
             /\ \A o \in Markers \ {j} : s \notin Written(o)'
  <2>1. /\ s \in DOMAIN roll /\ s \notin Written(m)
        /\ roll[s].version = marking[j].seen[s] /\ roll[s].version < MaxMarks
    BY <1>1 DEF MarkingOK
  <2>2. \A o \in Markers \ {j} : s \notin Written(o)
    BY <1>1 DEF MarkingOK
  <2> QED BY <1>1, <2>1, <2>2
<1>3. Written(j)' = Written(j) /\ marking'[j] = marking[j]
  BY <1>1
<1> QED BY <1>1, <1>2, <1>3 DEF MarkingOK

LEMMA RollInvInit == RollInit => RollInv
<1> SUFFICES ASSUME RollInit PROVE RollInv
  OBVIOUS
<1>1. RollTypeOK
  BY EmptyForm DEF RollInit, RollTypeOK
<1>2. \A m \in Markers : MarkingOK(m)
  BY DEF RollInit, MarkingOK, Written, NotMarking
<1> QED BY <1>1, <1>2 DEF RollInv, RollInit, NoMarkLost

LEMMA RollInvNext ==
    ASSUME RollInv, [RollNext]_rollVars
    PROVE  RollInv'
<1> USE RollAssumption
<1>0. RollTypeOK /\ NoMarkLost /\ \A m \in Markers : MarkingOK(m)
  BY DEF RollInv
<1>1. CASE UNCHANGED rollVars
  BY <1>0, <1>1 DEF rollVars, RollInv, RollTypeOK, NoMarkLost, MarkingOK, Written
<1>2. ASSUME NEW enrolled \in SUBSET Pupils, OpenAttendance(enrolled)
      PROVE  RollInv'
  <2>1. DOMAIN roll' = enrolled /\ roll' \in [enrolled -> Entry]
    BY <1>2 DEF OpenAttendance, Entry
  <2>2. \A m \in Markers : screen[m] = <<>>
    BY <1>0, <1>2 DEF OpenAttendance, RollTypeOK
  <2>3. marking \in [Markers -> SavedForms(enrolled)]
    BY <1>0, <1>2, FormsGrow DEF OpenAttendance, RollTypeOK
  <2>4. RollTypeOK'
    BY <1>0, <1>2, <2>1, <2>2, <2>3 DEF OpenAttendance, RollTypeOK
  <2>5. NoMarkLost'
    BY <1>2 DEF OpenAttendance, NoMarkLost
  <2>6. \A m \in Markers : MarkingOK(m)'
    BY <1>0, <1>2 DEF OpenAttendance, MarkingOK, Written
  <2> QED BY <2>4, <2>5, <2>6 DEF RollInv
<1>3. ASSUME NEW m \in Markers, LoadPage(m)
      PROVE  RollInv'
  <2>1. Versions \in [DOMAIN roll -> 1..MaxMarks]
    BY <1>0 DEF RollTypeOK, Versions, Entry
  <2>2. RollTypeOK'
    BY <1>0, <1>3, <2>1 DEF LoadPage, RollTypeOK
  <2> QED BY <1>0, <1>3, <2>2 DEF LoadPage, RollInv, NoMarkLost, MarkingOK, Written
\* Beginning, writing and giving up change the form of one person only.
<1>4. ASSUME NEW m \in Markers, NEW form \in SavedForms(DOMAIN roll),
             marking' = [marking EXCEPT ![m] = form], UNCHANGED <<roll, screen>>,
             \A s \in Written(m)' : /\ s \in DOMAIN roll /\ roll[s].version = form.seen[s]
                                    /\ roll[s].version < MaxMarks
                                    /\ \A o \in Markers \ {m} : s \notin Written(o)
      PROVE  RollInv'
  <2>1. marking'[m] = form /\ \A o \in Markers \ {m} : marking'[o] = marking[o]
    BY <1>0, <1>4 DEF RollTypeOK
  <2>2. RollTypeOK' /\ NoMarkLost'
    BY <1>0, <1>4 DEF RollTypeOK, NoMarkLost
  <2>3. \A j \in Markers : j # m => MarkingOK(j)'
    BY <1>4, <2>1, RollFrame
  <2>4. MarkingOK(m)'
    <3>1. form.todo \subseteq DOMAIN form.marks
      BY <1>4, FormParts
    <3>2. \A o \in Markers \ {m} : Written(o)' = Written(o)
      BY <2>1 DEF Written
    <3> QED BY <1>4, <2>1, <3>1, <3>2 DEF MarkingOK
  <2> QED BY <2>2, <2>3, <2>4 DEF RollInv
<1>5. ASSUME NEW m \in Markers, NEW some \in SUBSET Pupils, NEW marks \in [some -> Marks],
             BeginRecord(m, marks)
      PROVE  RollInv'
  <2> DEFINE form == [marks |-> marks, seen |-> screen[m], todo |-> DOMAIN marks]
  <2>1. some = DOMAIN roll /\ screen[m] \in [some -> 1..MaxMarks]
    BY <1>0, <1>5 DEF BeginRecord, RollTypeOK
  <2>2. form \in SavedForms(DOMAIN roll)
    BY <2>1, FormMade
  <2>3. marking' = [marking EXCEPT ![m] = form] /\ UNCHANGED <<roll, screen>>
    BY <1>5 DEF BeginRecord
  <2>4. Written(m)' = {}
    BY <1>0, <2>3 DEF Written, RollTypeOK
  <2> HIDE DEF form
  <2> QED BY <1>4, <2>2, <2>3, <2>4
<1>6. ASSUME NEW m \in Markers, NEW s \in Pupils, NEW mark \in Marks, BeginUpdate(m, s, mark)
      PROVE  RollInv'
  <2> DEFINE form == [marks |-> [x \in {s} |-> mark],
                      seen |-> [x \in {s} |-> roll[s].version], todo |-> {s}]
  <2>1. s \in DOMAIN roll /\ roll[s].version \in 1..MaxMarks
    BY <1>0, <1>6 DEF BeginUpdate, RollTypeOK, Entry
  <2>2. form \in SavedForms(DOMAIN roll)
    BY <2>1, FormMade
  <2>3. marking' = [marking EXCEPT ![m] = form] /\ UNCHANGED <<roll, screen>>
    BY <1>6 DEF BeginUpdate
  <2>4. Written(m)' = {}
    BY <1>0, <2>3 DEF Written, RollTypeOK
  <2> HIDE DEF form
  <2> QED BY <1>4, <2>2, <2>3, <2>4
<1>7. ASSUME NEW m \in Markers, NEW s \in Pupils, WriteEntry(m, s)
      PROVE  RollInv'
  <2> DEFINE form == [marking[m] EXCEPT !.todo = @ \ {s}]
  <2>1. marking[m] \in SavedForms(DOMAIN roll)
    BY <1>0 DEF RollTypeOK
  <2>2. PICK some \in SUBSET DOMAIN roll :
          marking[m] \in [marks : [some -> Marks], seen : [some -> 1..MaxMarks],
                          todo : SUBSET some]
    BY <2>1 DEF SavedForms
  <2>3. /\ form.marks = marking[m].marks /\ form.seen = marking[m].seen
        /\ form.todo = marking[m].todo \ {s}
        /\ form \in SavedForms(DOMAIN roll)
    BY <2>2 DEF SavedForms
  <2>4. marking' = [marking EXCEPT ![m] = form] /\ UNCHANGED <<roll, screen>>
    BY <1>7 DEF WriteEntry
  <2> HIDE DEF form
  <2>5. Written(m)' = Written(m) \cup {s}
    BY <1>0, <1>7, <2>2, <2>3, <2>4 DEF Written, RollTypeOK, WriteEntry
  <2>6. s \in DOMAIN roll
    BY <1>7, <2>2 DEF WriteEntry
  <2>7. \A x \in Written(m)' : /\ x \in DOMAIN roll /\ roll[x].version = form.seen[x]
                               /\ roll[x].version < MaxMarks
                               /\ \A o \in Markers \ {m} : x \notin Written(o)
    BY <1>0, <1>7, <2>3, <2>5, <2>6 DEF WriteEntry, MarkingOK
  <2> QED BY <1>4, <2>3, <2>4, <2>7
<1>8. ASSUME NEW m \in Markers, AbandonMarks(m)
      PROVE  RollInv'
  <2>1. NotMarking \in SavedForms(DOMAIN roll)
    BY EmptyForm
  <2>2. Written(m)' = {}
    BY <1>0, <1>8 DEF AbandonMarks, Written, RollTypeOK, NotMarking
  <2> QED BY <1>4, <1>8, <2>1, <2>2 DEF AbandonMarks
<1>9. ASSUME NEW m \in Markers, CommitMarks(m)
      PROVE  RollInv'
  <2> DEFINE row(s) == [mark |-> marking[m].marks[s], version |-> roll[s].version + 1,
                        seen |-> marking[m].seen[s]]
  <2>1. /\ DOMAIN roll' = DOMAIN roll
        /\ \A s \in DOMAIN roll : s \notin Written(m) => roll'[s] = roll[s]
        /\ \A s \in Written(m) : s \in DOMAIN roll => roll'[s] = row(s)
    BY <1>9 DEF CommitMarks
  <2>2. /\ marking'[m] = NotMarking
        /\ \A o \in Markers \ {m} : marking'[o] = marking[o]
        /\ marking' \in [Markers -> SavedForms(DOMAIN roll)]
    BY <1>0, <1>9, EmptyForm DEF CommitMarks, RollTypeOK
  <2>3. Written(m)' = {}
    BY <2>2 DEF Written, NotMarking
  <2>4. \A j \in Markers : j # m => MarkingOK(j)'
    BY <2>1, <2>2, <2>3, RollFrame
  <2>5. MarkingOK(m)'
    BY <2>2, <2>3 DEF MarkingOK, NotMarking
  <2>6. NoMarkLost'
    BY <1>0, <2>1 DEF NoMarkLost, MarkingOK
  <2>7. RollTypeOK'
    <3>1. ASSUME NEW s \in Written(m), s \in DOMAIN roll
          PROVE  row(s) \in Entry
      <4>1. marking[m] \in SavedForms(DOMAIN roll)
        BY <1>0 DEF RollTypeOK
      <4>2. marking[m].marks[s] \in Marks /\ marking[m].seen[s] \in 1..MaxMarks
        BY <4>1, FormParts DEF Written
      <4>3. roll[s].version + 1 \in 1..MaxMarks
        BY <1>0, <3>1 DEF MarkingOK, RollTypeOK, Entry
      <4> QED BY <4>2, <4>3 DEF Entry
    <3> QED BY <1>0, <1>9, <2>1, <2>2, <3>1 DEF RollTypeOK, CommitMarks
  <2> QED BY <2>4, <2>5, <2>6, <2>7 DEF RollInv
<1> QED BY <1>1, <1>2, <1>3, <1>5, <1>6, <1>7, <1>8, <1>9 DEF RollNext

\* Two people who save the roll at once never overwrite a mark unseen.
THEOREM RollKept == RollSpec => [](RollTypeOK /\ NoMarkLost)
<1>1. RollInit => RollInv
  BY RollInvInit
<1>2. RollInv /\ [RollNext]_rollVars => RollInv'
  BY RollInvNext
<1>3. RollInv => RollTypeOK /\ NoMarkLost
  BY DEF RollInv
<1> QED BY <1>1, <1>2, <1>3, PTL DEF RollSpec

(***************************************************************************)
(* The daily sheet.  Under review, the rows of the sheet are those of the  *)
(* last submission, which no revision answers yet; nobody saves a sheet    *)
(* under review or published.                                              *)
(***************************************************************************)

UnderReview == sheet = "PENDING_REVIEW" =>
    /\ submitted # <<>> /\ diary = submitted[Len(submitted)]
    /\ \A n \in DOMAIN editions : editions[n].of < Len(submitted)

NobodySaves == sheet \in {"PENDING_REVIEW", "PUBLISHED"} => SheetFree

DiaryInv == DiaryTypeOK /\ PublishedWasSubmitted /\ UnderReview /\ NobodySaves

LEMMA DiaryInvInit == DiaryInit => DiaryInv
BY DEF DiaryInit, DiaryInv, DiaryTypeOK, PublishedWasSubmitted, UnderReview, NobodySaves,
       SheetStatuses

LEMMA SavedRows ==
    ASSUME NEW old \in Forms \cup {<<>>}, NEW form \in Forms
    PROVE  [c \in DOMAIN old \cup DOMAIN form |-> IF c \in DOMAIN form THEN form[c] ELSE old[c]]
             \in Forms
<1>1. PICK some \in (SUBSET Children) \ {{}} : form \in [some -> Answers]
  BY DEF Forms
<1>2. PICK before \in SUBSET Children : old \in [before -> Answers]
  <2>1. CASE old = <<>>
    BY <2>1
  <2>2. CASE old \in Forms
    BY <2>2 DEF Forms
  <2> QED BY <2>1, <2>2
<1>3. before \cup some \in (SUBSET Children) \ {{}}
  BY <1>1
<1> DEFINE rows == [c \in before \cup some |-> IF c \in some THEN form[c] ELSE old[c]]
<1>4. rows \in [before \cup some -> Answers]
  BY <1>1, <1>2
<1>5. DOMAIN old = before /\ DOMAIN form = some
  BY <1>1, <1>2
<1> QED BY <1>3, <1>4, <1>5 DEF Forms

LEMMA DiaryInvNext ==
    ASSUME DiaryInv, [DiaryNext]_diaryVars
    PROVE  DiaryInv'
<1>0. DiaryTypeOK /\ PublishedWasSubmitted /\ UnderReview /\ NobodySaves
  BY DEF DiaryInv
<1>1. CASE UNCHANGED diaryVars
  BY <1>0, <1>1 DEF diaryVars, DiaryInv, DiaryTypeOK, PublishedWasSubmitted, UnderReview,
     NobodySaves, SheetFree
<1>2. ASSUME NEW t \in Educators, NEW form \in Forms, BeginSave(t, form)
      PROVE  DiaryInv'
  BY <1>0, <1>2 DEF BeginSave, DiaryInv, DiaryTypeOK, PublishedWasSubmitted, UnderReview,
     NobodySaves
<1>3. ASSUME NEW t \in Educators, CommitSave(t)
      PROVE  DiaryInv'
  <2>1. sheet \notin {"PENDING_REVIEW", "PUBLISHED"}
    BY <1>0, <1>3 DEF CommitSave, NobodySaves, SheetFree
  <2>2. saving[t] \in Forms
    BY <1>0, <1>3 DEF CommitSave, DiaryTypeOK
  <2>3. diary' \in Forms
    BY <1>0, <1>3, <2>2, SavedRows DEF CommitSave, DiaryTypeOK
  <2>4. sheet' \in SheetStatuses \ {"PENDING_REVIEW", "PUBLISHED"}
    BY <1>0, <1>3, <2>1 DEF CommitSave, DiaryTypeOK, SheetStatuses
  <2>5. DiaryTypeOK'
    BY <1>0, <1>3, <2>3, <2>4 DEF CommitSave, DiaryTypeOK
  <2> QED BY <1>0, <1>3, <2>4, <2>5 DEF CommitSave, DiaryInv, PublishedWasSubmitted,
          UnderReview, NobodySaves
<1>4. ASSUME NEW t \in Educators, AbandonSave(t)
      PROVE  DiaryInv'
  BY <1>0, <1>4 DEF AbandonSave, DiaryInv, DiaryTypeOK, PublishedWasSubmitted, UnderReview,
     NobodySaves, SheetFree
<1>5. ASSUME SubmitSheet
      PROVE  DiaryInv'
  <2>1. diary \in Forms
    BY <1>0, <1>5 DEF SubmitSheet, DiaryTypeOK
  <2>2. /\ Len(submitted') = Len(submitted) + 1 /\ Len(submitted) \in Nat
        /\ submitted'[Len(submitted')] = diary
        /\ \A n \in DOMAIN submitted : n \in DOMAIN submitted' /\ submitted'[n] = submitted[n]
        /\ submitted' \in Seq(Forms)
    BY <1>0, <1>5, <2>1 DEF SubmitSheet, DiaryTypeOK
  <2>3. DiaryTypeOK'
    BY <1>0, <1>5, <2>2 DEF SubmitSheet, DiaryTypeOK, SheetStatuses
  <2>4. PublishedWasSubmitted'
    BY <1>0, <1>5, <2>2 DEF SubmitSheet, PublishedWasSubmitted
  <2>5. UnderReview'
    <3>1. \A n \in DOMAIN editions : editions[n].of <= Len(submitted)
      BY <1>0 DEF PublishedWasSubmitted, DiaryTypeOK
    <3>2. \A n \in DOMAIN editions : editions[n].of \in Nat
      BY <1>0 DEF DiaryTypeOK, PublishedWasSubmitted
    <3> QED BY <1>5, <2>2, <3>1, <3>2 DEF SubmitSheet, UnderReview
  <2> QED BY <1>5, <2>3, <2>4, <2>5 DEF SubmitSheet, DiaryInv, NobodySaves, SheetFree
<1>6. ASSUME RequestChanges
      PROVE  DiaryInv'
  BY <1>0, <1>6 DEF RequestChanges, DiaryInv, DiaryTypeOK, PublishedWasSubmitted, UnderReview,
     NobodySaves, SheetStatuses
<1>7. ASSUME ApproveSheet
      PROVE  DiaryInv'
  <2> DEFINE edition == [entries |-> diary, of |-> Len(submitted)]
  <2>1. diary \in Forms /\ Len(submitted) \in Nat
    BY <1>0, <1>7 DEF ApproveSheet, DiaryTypeOK
  <2>2. edition \in [entries : Forms, of : Nat]
    BY <2>1
  <2>3. /\ Len(submitted) \in DOMAIN submitted /\ diary = submitted[Len(submitted)]
        /\ \A n \in DOMAIN editions : editions[n].of < Len(submitted)
    BY <1>0, <1>7 DEF ApproveSheet, UnderReview, DiaryTypeOK
  <2>4. edition.of = Len(submitted) /\ edition.entries = diary
    OBVIOUS
  <2>5. editions' = Append(editions, edition)
    BY <1>7 DEF ApproveSheet
  <2> HIDE DEF edition
  <2>6. DiaryTypeOK'
    BY <1>0, <1>7, <2>2, <2>5 DEF ApproveSheet, DiaryTypeOK, SheetStatuses
  <2>7. PublishedWasSubmitted'
    <3>1. /\ DOMAIN editions = 1..Len(editions) /\ DOMAIN editions' = 1..(Len(editions) + 1)
          /\ Len(editions) \in Nat
          /\ \A n \in 1..Len(editions) : editions'[n] = editions[n]
          /\ editions'[Len(editions) + 1] = edition
      BY <1>0, <2>2, <2>5 DEF DiaryTypeOK
    <3>2. submitted' = submitted
      BY <1>7 DEF ApproveSheet
    <3>3. ASSUME NEW n \in 1..Len(editions)
          PROVE  /\ editions'[n].of \in DOMAIN submitted
                 /\ editions'[n].entries = submitted[editions'[n].of]
                 /\ \A earlier \in 1..(n - 1) : editions'[earlier].of < editions'[n].of
      BY <1>0, <3>1 DEF PublishedWasSubmitted
    <3>4. \A earlier \in 1..Len(editions) : editions'[earlier].of < edition.of
      BY <2>3, <2>4, <3>1
    <3> QED BY <2>3, <2>4, <3>1, <3>2, <3>3, <3>4 DEF PublishedWasSubmitted
  <2> QED BY <1>7, <2>6, <2>7 DEF ApproveSheet, DiaryInv, UnderReview, NobodySaves, SheetFree
<1>8. ASSUME ReopenSheet
      PROVE  DiaryInv'
  BY <1>0, <1>8 DEF ReopenSheet, DiaryInv, DiaryTypeOK, PublishedWasSubmitted, UnderReview,
     NobodySaves, SheetStatuses
<1>9. ASSUME NEW c \in Children, RosterChanges(c)
      PROVE  DiaryInv'
  <2>1. DiaryTypeOK'
    BY <1>0, <1>9 DEF RosterChanges, DiaryTypeOK
  <2> QED BY <1>0, <1>9, <2>1 DEF RosterChanges, DiaryInv, PublishedWasSubmitted, UnderReview,
          NobodySaves, SheetFree
<1> QED BY <1>1, <1>2, <1>3, <1>4, <1>5, <1>6, <1>7, <1>8, <1>9 DEF DiaryNext

\* Families only receive what the teachers submitted, each submission once.
THEOREM SheetsReviewed == DiarySpec => [](DiaryTypeOK /\ PublishedWasSubmitted)
<1>1. DiaryInit => DiaryInv
  BY DiaryInvInit
<1>2. DiaryInv /\ [DiaryNext]_diaryVars => DiaryInv'
  BY DiaryInvNext
<1>3. DiaryInv => DiaryTypeOK /\ PublishedWasSubmitted
  BY DEF DiaryInv
<1> QED BY <1>1, <1>2, <1>3, PTL DEF DiarySpec

(***************************************************************************)
(* Announcements: what is published is what somebody decided, once.  A     *)
(* version stands for a content and a decision: a page or a list with the  *)
(* version of the row shows what the row holds, since every save gives the *)
(* row a version nobody has yet.                                           *)
(***************************************************************************)


Lists == [version : Nat, author : Managers \cup {"nobody"}, decision : Nat,
          decided : Contents \cup {NoContent}]

\* The row, once created, has a content; scheduled, the one decided.
NoticeRowOK ==
    /\ notice.status = "NONE" => notice = Blank
    /\ notice.status # "NONE" => notice.version > 0 /\ notice.content \in Contents
    /\ notice.status = "SCHEDULED" => notice.decided = notice.content

PagesOK == \A m \in Managers :
    /\ page[m].version <= notice.version
    /\ page[m].version = notice.version => page[m].content = notice.content

\* What a list says of the current version is in force.
ListsOK ==
    /\ listed \in [Runs -> Lists]
    /\ \A w \in Runs :
         /\ listed[w].version <= notice.version
         /\ listed[w].version = notice.version /\ notice.status # "NONE" =>
              /\ notice.status = "SCHEDULED"
              /\ listed[w].decision = notice.decision /\ listed[w].decided = notice.decided

DecisionsOK == \A n \in DOMAIN revisions :
    /\ revisions[n].by <= notice.decision
    /\ notice.status = "SCHEDULED" => revisions[n].by < notice.decision

NoticeInv == NoticeTypeOK /\ PublishedAsDecided /\ NoticeRowOK /\ PagesOK /\ ListsOK /\ DecisionsOK

LEMMA BlankRow == Blank \in Notices /\ Blank.status = "NONE" /\ Blank.version = 0
                  /\ Blank.content = NoContent /\ Blank.decision = 0
BY AnnouncementAssumption DEF Blank, Notices, NoticeStatuses

Revision == [content : Contents, recipients : SUBSET People, meant : Contents, by : Nat]

LEMMA RevisionParts ==
    ASSUME NoticeTypeOK
    PROVE  /\ revisions \in Seq(Revision)
           /\ \A n \in DOMAIN revisions : revisions[n] \in Revision /\ revisions[n].by \in Nat
<1>1. revisions \in Seq(Revision)
  BY DEF NoticeTypeOK, Revision
<1>2. \A n \in DOMAIN revisions : revisions[n] \in Revision
  BY <1>1
<1> QED BY <1>1, <1>2 DEF Revision

LEMMA NoticeInvInit == NoticeInit => NoticeInv
<1> SUFFICES ASSUME NoticeInit PROVE NoticeInv
  OBVIOUS
<1>1. NoPage \in Pages /\ NoPage.version = 0 /\ NoPage.content = NoContent
  BY AnnouncementAssumption DEF NoPage, Pages
<1>2. NoList \in Lists /\ NoList.version = 0
  BY DEF NoList, Lists
<1>3. NoticeTypeOK
  BY <1>1, BlankRow DEF NoticeInit, NoticeTypeOK
<1>4. NoticeRowOK /\ PagesOK /\ ListsOK
  BY <1>1, <1>2, BlankRow DEF NoticeInit, NoticeRowOK, PagesOK, ListsOK
<1>5. DecisionsOK /\ PublishedAsDecided
  BY DEF NoticeInit, DecisionsOK, PublishedAsDecided
<1> QED BY <1>3, <1>4, <1>5 DEF NoticeInv

\* A save that publishes nothing: the version moves past every page and list.
LEMMA SaveStep ==
    ASSUME NoticeInv, NEW row \in Notices, notice' = row,
           UNCHANGED <<revisions, page, listed, allowed, reachable>>,
           row.version = notice.version + 1, row.status # "NONE", row.content \in Contents,
           row.decision >= notice.decision,
           row.status = "SCHEDULED" =>
             row.decided = row.content /\ row.decision > notice.decision
    PROVE  NoticeInv'
<1>0. /\ NoticeTypeOK /\ PublishedAsDecided /\ NoticeRowOK /\ PagesOK /\ ListsOK /\ DecisionsOK
      /\ notice \in Notices
  BY DEF NoticeInv, NoticeTypeOK
<1>1. notice.version \in Nat /\ notice.decision \in Nat /\ row.decision \in Nat
  BY <1>0, AnnouncementAssumption DEF Notices
<1>2. \A m \in Managers : page[m].version \in Nat
  BY <1>0, AnnouncementAssumption DEF NoticeTypeOK, Pages
<1>3. \A w \in Runs : listed[w].version \in Nat
  BY <1>0 DEF ListsOK, Lists
<1>4. \A n \in DOMAIN revisions : revisions[n].by \in Nat
  BY <1>0, RevisionParts
<1>5. NoticeTypeOK' /\ PublishedAsDecided'
  BY <1>0 DEF NoticeTypeOK, PublishedAsDecided
<1>6. NoticeRowOK'
  BY <1>1 DEF NoticeRowOK
<1>7. PagesOK'
  BY <1>0, <1>1, <1>2 DEF PagesOK
<1>8. ListsOK'
  BY <1>0, <1>1, <1>3 DEF ListsOK
<1>9. DecisionsOK'
  BY <1>0, <1>1, <1>4 DEF DecisionsOK
<1> QED BY <1>5, <1>6, <1>7, <1>8, <1>9 DEF NoticeInv

\* A publication: a decision newer than those of all revisions, on what it saw.
LEMMA PublishStep ==
    ASSUME NoticeInv, NEW author, NEW version, NEW by \in Nat, NEW meant \in Contents,
           Published(author, version, by, meant),
           by >= notice.decision, meant = notice.content,
           \A n \in DOMAIN revisions : revisions[n].by < by,
           page' = page, listed' \in [Runs -> Lists],
           \A w \in Runs : listed'[w].version <= notice.version,
           UNCHANGED <<allowed, reachable>>
    PROVE  NoticeInv'
<1> DEFINE row == Saved([notice EXCEPT !.status = "PUBLISHED", !.due = FALSE, !.decision = by])
           new == [content |-> notice.content, recipients |-> reachable, meant |-> meant, by |-> by]
<1>0. /\ NoticeTypeOK /\ PublishedAsDecided /\ NoticeRowOK /\ PagesOK /\ ListsOK /\ DecisionsOK
      /\ notice \in Notices
  BY DEF NoticeInv, NoticeTypeOK
<1>1. /\ revisions' = Append(revisions, new) /\ notice' = row /\ reachable # {}
      /\ notice.status \in {"DRAFT", "SCHEDULED"} /\ notice.version < MaxSaves
  BY DEF Published, Locked
<1>2. /\ row.version = notice.version + 1 /\ row.status = "PUBLISHED"
      /\ row.content = notice.content /\ row.decision = by
  BY <1>0 DEF Saved, Notices
<1>3. notice.version \in Nat /\ notice.version + 1 \in 0..MaxSaves /\ notice.content \in Contents
  BY <1>0, <1>1, AnnouncementAssumption DEF Notices, NoticeRowOK
<1>4. row \in Notices
  <2> DEFINE next == notice.version + 1
  <2>1. next \in 0..MaxSaves /\ "PUBLISHED" \in NoticeStatuses
    BY <1>3 DEF NoticeStatuses
  <2> HIDE DEF next
  <2>2. [notice EXCEPT !.status = "PUBLISHED", !.due = FALSE, !.decision = by,
                       !.version = next] \in Notices
    BY <1>0, <2>1 DEF Notices
  <2>3. row = [notice EXCEPT !.status = "PUBLISHED", !.due = FALSE, !.decision = by,
                             !.version = next]
    BY <1>0 DEF Saved, Notices, next
  <2> QED BY <2>2, <2>3
<1>5. new \in Revision /\ new.content = new.meant /\ new.recipients # {} /\ new.by = by
  BY <1>0, <1>1, <1>3 DEF Revision, NoticeTypeOK
<1> HIDE DEF row, new
<1>6. /\ revisions \in Seq(Revision) /\ \A n \in DOMAIN revisions : revisions[n].by \in Nat
  BY <1>0, RevisionParts
<1>7. /\ DOMAIN revisions = 1..Len(revisions) /\ DOMAIN revisions' = 1..(Len(revisions) + 1)
      /\ Len(revisions) \in Nat
      /\ \A n \in 1..Len(revisions) : revisions'[n] = revisions[n]
      /\ revisions'[Len(revisions) + 1] = new /\ revisions' \in Seq(Revision)
  BY <1>1, <1>5, <1>6
<1>8. NoticeTypeOK'
  BY <1>0, <1>1, <1>4, <1>7 DEF NoticeTypeOK, Revision
<1>9. PublishedAsDecided'
  BY <1>0, <1>5, <1>7 DEF PublishedAsDecided
<1>10. NoticeRowOK'
  BY <1>1, <1>2, <1>3 DEF NoticeRowOK
<1>11. PagesOK'
  <2>1. \A m \in Managers : page[m].version \in Nat
    BY <1>0, AnnouncementAssumption DEF NoticeTypeOK, Pages
  <2> QED BY <1>0, <1>1, <1>2, <1>3, <2>1 DEF PagesOK
<1>12. ListsOK'
  <2>1. \A w \in Runs : listed'[w].version \in Nat
    BY DEF Lists
  <2> QED BY <1>1, <1>2, <1>3, <2>1 DEF ListsOK
<1>13. DecisionsOK'
  BY <1>1, <1>2, <1>5, <1>6, <1>7 DEF DecisionsOK
<1> QED BY <1>8, <1>9, <1>10, <1>11, <1>12, <1>13 DEF NoticeInv

\* A save of a manager, from the page of the current version.
LEMMA LockedPage ==
    ASSUME NoticeInv, NEW m \in Managers, Locked(m, page[m].version)
    PROVE  /\ notice \in Notices /\ notice.version + 1 \in 0..MaxSaves
           /\ notice.content \in Contents /\ page[m].content = notice.content
           /\ notice.decision \in Nat
BY AnnouncementAssumption
   DEF NoticeInv, NoticeTypeOK, NoticeRowOK, PagesOK, Locked, Notices

LEMMA SavedRow ==
    ASSUME NEW r \in Notices, r.version + 1 \in 0..MaxSaves
    PROVE  /\ Saved(r) \in Notices /\ Saved(r).version = r.version + 1
           /\ Saved(r).status = r.status /\ Saved(r).content = r.content
           /\ Saved(r).decision = r.decision /\ Saved(r).decided = r.decided
<1> DEFINE next == r.version + 1
<1>1. next \in 0..MaxSaves
  OBVIOUS
<1> HIDE DEF next
<1> DEFINE s == [r EXCEPT !.version = next]
<1>2. /\ s \in Notices /\ s.version = next /\ s.status = r.status /\ s.content = r.content
      /\ s.decision = r.decision /\ s.decided = r.decided
  BY <1>1 DEF Notices
<1>3. Saved(r) = s
  BY DEF Saved, next
<1> HIDE DEF s
<1> QED BY <1>2, <1>3 DEF next

LEMMA ManagerActions ==
    ASSUME NoticeInv, NEW m \in Managers
    PROVE  /\ \A c \in Contents : Create(m, c) \/ Edit(m, c) => NoticeInv'
           /\ Schedule(m) \/ CancelSchedule(m) \/ OpenCorrection(m) \/ Publish(m) => NoticeInv'
<1>1. ASSUME NEW c \in Contents, Create(m, c)
      PROVE  NoticeInv'
  <2> DEFINE row == [Blank EXCEPT !.status = "DRAFT", !.version = 1, !.content = c, !.author = m]
  <2>1. notice = Blank /\ notice' = row /\ UNCHANGED <<revisions, page, listed, allowed, reachable>>
    BY <1>1 DEF Create, NoticeInv, NoticeRowOK
  <2>2. 1 \in 0..MaxSaves /\ "DRAFT" \in NoticeStatuses
    BY AnnouncementAssumption DEF NoticeStatuses
  <2>3. /\ row \in Notices /\ row.version = 1 /\ row.status = "DRAFT" /\ row.content = c
        /\ row.decision = Blank.decision
    BY BlankRow, <2>2 DEF Notices
  <2> HIDE DEF row
  <2> QED BY <2>1, <2>3, BlankRow, SaveStep
\* The other saves keep the content unless they edit it.
<1>2. ASSUME Locked(m, page[m].version), NEW r \in Notices, notice' = Saved(r),
             UNCHANGED <<revisions, page, listed, allowed, reachable>>,
             r.version = notice.version, r.status # "NONE", r.content \in Contents,
             r.decision \in Nat, r.decision >= notice.decision,
             r.status = "SCHEDULED" => r.decided = r.content /\ r.decision > notice.decision
      PROVE  NoticeInv'
  <2>1. notice.version + 1 \in 0..MaxSaves
    BY <1>2, LockedPage
  <2> DEFINE row == Saved(r)
  <2>2. /\ row \in Notices /\ row.version = r.version + 1
        /\ row.status = r.status /\ row.content = r.content
        /\ row.decision = r.decision /\ row.decided = r.decided
    BY <1>2, <2>1, SavedRow
  <2>3. notice' = row
    BY <1>2
  <2> HIDE DEF row
  <2> QED BY <1>2, <2>2, <2>3, SaveStep
<1>3. ASSUME NEW c \in Contents, Edit(m, c)
      PROVE  NoticeInv'
  <2> DEFINE r == [notice EXCEPT !.content = c]
  <2>1. /\ Locked(m, page[m].version) /\ notice.status = "DRAFT" /\ notice' = Saved(r)
        /\ UNCHANGED <<revisions, page, listed, allowed, reachable>>
    BY <1>3 DEF Edit
  <2>2. notice \in Notices /\ notice.decision \in Nat
    BY <2>1, LockedPage
  <2>3. /\ r \in Notices /\ r.version = notice.version /\ r.status = notice.status
        /\ r.content = c /\ r.decision = notice.decision
    BY <2>2 DEF Notices
  <2> HIDE DEF r
  <2> QED BY <1>2, <2>1, <2>2, <2>3
<1>4. ASSUME Schedule(m)
      PROVE  NoticeInv'
  <2> DEFINE decision == notice.decision + 1
             r == [notice EXCEPT !.status = "SCHEDULED", !.due = FALSE,
                                 !.decision = decision, !.decided = page[m].content]
  <2>1. /\ Locked(m, page[m].version) /\ notice.status = "DRAFT"
        /\ UNCHANGED <<revisions, page, listed, allowed, reachable>>
    BY <1>4 DEF Schedule
  <2>2. notice \in Notices /\ notice.decision \in Nat /\ notice.content \in Contents
        /\ page[m].content = notice.content
    BY <2>1, LockedPage
  <2>3. decision \in Nat /\ decision > notice.decision /\ "SCHEDULED" \in NoticeStatuses
    BY <2>2 DEF NoticeStatuses
  <2>4. notice' = Saved(r)
    BY <1>4 DEF Schedule
  <2> HIDE DEF decision
  <2>5. /\ r \in Notices /\ r.version = notice.version /\ r.status = "SCHEDULED"
        /\ r.content = notice.content /\ r.decision = decision /\ r.decided = page[m].content
    BY <2>2, <2>3 DEF Notices
  <2> HIDE DEF r
  <2> QED BY <1>2, <2>1, <2>2, <2>3, <2>4, <2>5
<1>5. ASSUME CancelSchedule(m) \/ OpenCorrection(m)
      PROVE  NoticeInv'
  <2> DEFINE r == [notice EXCEPT !.status = "DRAFT", !.due = FALSE]
  <2>1. /\ Locked(m, page[m].version) /\ notice' = Saved(r)
        /\ UNCHANGED <<revisions, page, listed, allowed, reachable>>
    BY <1>5 DEF CancelSchedule, OpenCorrection
  <2>2. notice \in Notices /\ notice.decision \in Nat /\ notice.content \in Contents
    BY <2>1, LockedPage
  <2>3. /\ r \in Notices /\ r.version = notice.version /\ r.status = "DRAFT"
        /\ r.content = notice.content /\ r.decision = notice.decision
    BY <2>2 DEF Notices, NoticeStatuses
  <2> HIDE DEF r
  <2> QED BY <1>2, <2>1, <2>2, <2>3
<1>6. ASSUME Publish(m)
      PROVE  NoticeInv'
  <2> DEFINE by == notice.decision + 1
  <2>1. /\ Published(m, page[m].version, by, page[m].content)
        /\ UNCHANGED <<page, listed, allowed, reachable>>
    BY <1>6 DEF Publish
  <2>2. notice \in Notices /\ notice.decision \in Nat /\ notice.content \in Contents
        /\ page[m].content = notice.content
    BY <2>1, LockedPage DEF Published
  <2>3. /\ listed' \in [Runs -> Lists] /\ \A w \in Runs : listed'[w].version <= notice.version
        /\ \A n \in DOMAIN revisions : revisions[n].by <= notice.decision /\ revisions[n].by \in Nat
    BY <2>1, RevisionParts DEF NoticeInv, ListsOK, DecisionsOK
  <2>4. by \in Nat /\ by >= notice.decision /\ \A n \in DOMAIN revisions : revisions[n].by < by
    BY <2>2, <2>3
  <2> HIDE DEF by
  <2> QED BY <2>1, <2>2, <2>3, <2>4, PublishStep
<1> QED BY <1>1, <1>3, <1>4, <1>5, <1>6

\* A list changes, and says what is in force.
LEMMA ListStep ==
    ASSUME NoticeInv, NEW w \in Runs, NEW list \in Lists, listed' = [listed EXCEPT ![w] = list],
           UNCHANGED <<notice, revisions, page, allowed, reachable>>,
           list.version <= notice.version,
           list.version # notice.version \/ notice.status = "NONE" \/
             (/\ notice.status = "SCHEDULED"
              /\ list.decision = notice.decision /\ list.decided = notice.decided)
    PROVE  NoticeInv'
<1>1. ListsOK'
  BY DEF NoticeInv, ListsOK
<1> QED BY <1>1 DEF NoticeInv, NoticeTypeOK, PublishedAsDecided, NoticeRowOK, PagesOK, DecisionsOK

LEMMA TaskActions ==
    ASSUME NoticeInv, NEW w \in Runs
    PROVE  ListDue(w) \/ PublishListed(w) \/ SkipListed(w) => NoticeInv'
<1>0. /\ NoticeTypeOK /\ PublishedAsDecided /\ NoticeRowOK /\ PagesOK /\ ListsOK /\ DecisionsOK
      /\ notice \in Notices
  BY DEF NoticeInv, NoticeTypeOK
<1>1. NoList \in Lists /\ NoList.version = 0
  BY DEF NoList, Lists
<1>2. notice.version \in Nat
  BY <1>0, AnnouncementAssumption DEF Notices
<1>4. ASSUME ListDue(w)
      PROVE  NoticeInv'
  <2> DEFINE list == [version |-> notice.version, author |-> notice.author,
                      decision |-> notice.decision, decided |-> notice.decided]
  <2>1. list \in Lists
    BY <1>0, <1>2 DEF Notices, Lists
  <2>2. /\ list.version = notice.version /\ list.decision = notice.decision
        /\ list.decided = notice.decided
    OBVIOUS
  <2>3. /\ listed' = [listed EXCEPT ![w] = list] /\ notice.status = "SCHEDULED"
        /\ UNCHANGED <<notice, revisions, page, allowed, reachable>>
    BY <1>4 DEF ListDue
  <2> HIDE DEF list
  <2>4. list.version <= notice.version
    BY <1>2, <2>2
  <2> QED BY <2>1, <2>2, <2>3, <2>4, ListStep, Zenon
<1>5. ASSUME SkipListed(w)
      PROVE  NoticeInv'
  <2>1. NoList.version = notice.version => notice.status = "NONE"
    BY <1>0, <1>1 DEF NoticeRowOK
  <2>2. NoList.version <= notice.version
    BY <1>1, <1>2
  <2>3. listed' = [listed EXCEPT ![w] = NoList] /\ UNCHANGED <<notice, revisions, page, allowed, reachable>>
    BY <1>5 DEF SkipListed
  <2> QED BY <1>1, <2>1, <2>2, <2>3, ListStep, Zenon
<1>6. ASSUME PublishListed(w)
      PROVE  NoticeInv'
  <2>1. /\ Published(listed[w].author, listed[w].version, listed[w].decision, listed[w].decided)
        /\ listed' = [listed EXCEPT ![w] = NoList] /\ UNCHANGED <<page, allowed, reachable>>
    BY <1>6 DEF PublishListed
  <2>2. /\ notice.status # "NONE" /\ listed[w].version = notice.version
    BY <2>1 DEF Published, Locked
  <2>3. /\ notice.status = "SCHEDULED" /\ listed[w].decision = notice.decision
        /\ listed[w].decided = notice.decided
    BY <1>0, <2>2 DEF ListsOK
  <2>4. /\ notice.content \in Contents /\ notice.decided = notice.content
        /\ notice.decision \in Nat
    BY <1>0, <2>3 DEF NoticeRowOK, Notices
  <2>5. \A n \in DOMAIN revisions : revisions[n].by < notice.decision
    BY <1>0, <2>3 DEF DecisionsOK
  <2>6. listed' \in [Runs -> Lists] /\ \A v \in Runs : listed'[v].version <= notice.version
    BY <1>0, <1>1, <1>2, <2>1 DEF ListsOK
  <2> QED BY <2>1, <2>3, <2>4, <2>5, <2>6, PublishStep
<1> QED BY <1>4, <1>5, <1>6

LEMMA NoticeInvNext ==
    ASSUME NoticeInv, [NoticeNext]_noticeVars
    PROVE  NoticeInv'
<1>0. /\ NoticeTypeOK /\ PublishedAsDecided /\ NoticeRowOK /\ PagesOK /\ ListsOK /\ DecisionsOK
      /\ notice \in Notices
  BY DEF NoticeInv, NoticeTypeOK
<1>1. ASSUME UNCHANGED <<notice, revisions, page, listed>>, allowed' \subseteq Managers,
             reachable' \subseteq People
      PROVE  NoticeInv'
  BY <1>0, <1>1 DEF NoticeInv, NoticeTypeOK, PublishedAsDecided, NoticeRowOK, PagesOK, ListsOK, DecisionsOK
<1>2. CASE UNCHANGED noticeVars
  BY <1>0, <1>1, <1>2 DEF noticeVars, NoticeTypeOK
<1>3. ASSUME NEW m \in Managers, PermissionChanges(m)
      PROVE  NoticeInv'
  <2>1. allowed' \subseteq Managers /\ reachable' \subseteq People
    BY <1>0, <1>3 DEF PermissionChanges, NoticeTypeOK
  <2> QED BY <1>1, <1>3, <2>1 DEF PermissionChanges
<1>4. ASSUME NEW p \in People, AudienceChanges(p)
      PROVE  NoticeInv'
  <2>1. allowed' \subseteq Managers /\ reachable' \subseteq People
    BY <1>0, <1>4 DEF AudienceChanges, NoticeTypeOK
  <2> QED BY <1>1, <1>4, <2>1 DEF AudienceChanges
<1>5. ASSUME TimeComes
      PROVE  NoticeInv'
  <2> DEFINE row == [notice EXCEPT !.due = TRUE]
  <2>1. /\ row \in Notices /\ row.version = notice.version /\ row.status = notice.status
        /\ row.content = notice.content /\ row.decision = notice.decision
        /\ row.decided = notice.decided
    BY <1>0 DEF Notices
  <2>2. /\ notice' = row /\ notice.status = "SCHEDULED"
        /\ UNCHANGED <<revisions, page, listed, allowed, reachable>>
    BY <1>5 DEF TimeComes
  <2> HIDE DEF row
  <2>3. NoticeTypeOK' /\ PublishedAsDecided'
    BY <1>0, <2>1, <2>2 DEF NoticeTypeOK, PublishedAsDecided
  <2>4. NoticeRowOK' /\ PagesOK'
    BY <1>0, <2>1, <2>2 DEF NoticeRowOK, PagesOK
  <2>5. ListsOK' /\ DecisionsOK'
    BY <1>0, <2>1, <2>2 DEF ListsOK, DecisionsOK
  <2> QED BY <2>3, <2>4, <2>5 DEF NoticeInv
<1>6. ASSUME NEW m \in Managers, OpenPage(m)
      PROVE  NoticeInv'
  <2> DEFINE shown == [version |-> notice.version, content |-> notice.content]
  <2>1. shown \in Pages /\ shown.version = notice.version /\ shown.content = notice.content
    BY <1>0 DEF Notices, Pages
  <2>2. /\ page' = [page EXCEPT ![m] = shown]
        /\ UNCHANGED <<notice, revisions, listed, allowed, reachable>>
    BY <1>6 DEF OpenPage
  <2> HIDE DEF shown
  <2>3. notice.version \in Nat
    BY <1>0, AnnouncementAssumption DEF Notices
  <2>4. NoticeTypeOK'
    BY <1>0, <2>1, <2>2 DEF NoticeTypeOK
  <2>5. PagesOK'
    BY <1>0, <2>1, <2>2, <2>3 DEF PagesOK, NoticeTypeOK
  <2> QED BY <1>0, <2>2, <2>4, <2>5
          DEF NoticeInv, PublishedAsDecided, NoticeRowOK, ListsOK, DecisionsOK
<1> QED BY <1>2, <1>3, <1>4, <1>5, <1>6, ManagerActions, TaskActions DEF NoticeNext

\* Families receive what somebody decided to publish, each decision once: the
\* version of the row stands for both (_locked, recover_tenant_communications).
THEOREM DecisionsPublished == NoticeSpec => [](NoticeTypeOK /\ PublishedAsDecided)
<1>1. NoticeInv => NoticeTypeOK /\ PublishedAsDecided
  BY DEF NoticeInv
<1> QED BY <1>1, NoticeInvInit, NoticeInvNext, PTL DEF NoticeSpec

(***************************************************************************)
(* The timetable.  A session that checked what it adds still holds every   *)
(* resource of it, so nobody else can add a cell that clashes before it    *)
(* commits; one that checked a slot holds the catalogue and, if the slot   *)
(* exists, the slot.                                                       *)
(***************************************************************************)

\* Rows to shorten, slots to write.
Cuts == UNION {[rows -> Weeks] : rows \in SUBSET Cells}
Puts == UNION {[some -> Intervals] : some \in SUBSET Slots}

\* What a session is doing.
Plans ==
    [step : {"IDLE", "LOCKING", "CHECKED"}, todo : SUBSET Resources,
     held : SUBSET (Resources \cup Cells), add : SUBSET Placements,
     cut : Cuts, put : Puts]

\* What it decided before its locks.
DecidedOK(f) ==
    /\ \A p, q \in f.add : p # q => ~Clash(p, q)
    /\ \A p \in f.add : Needed(p) \subseteq f.todo \cup f.held /\ p.slot \in DOMAIN span
    /\ \A i \in DOMAIN f.cut :
         /\ i \in f.held /\ i \in DOMAIN cell /\ f.cut[i] <= cell[i].until
         /\ \A p \in f.add : f.cut[i] < p.from
    /\ DOMAIN f.put # {} => Catalogue \in f.todo \cup f.held /\ f.add = {}
    /\ \A s, t \in DOMAIN f.put : s = t

\* What it checked under them.
CheckedOK(f) == f.step = "CHECKED" =>
    /\ f.todo = {}
    /\ \A p \in f.add, i \in DOMAIN cell \ DOMAIN f.cut : ~Clash(p, cell[i])
    /\ \A s \in DOMAIN f.put :
         /\ s \in DOMAIN span => s \in f.held
         /\ \A i \in DOMAIN cell : cell[i].slot # s
         /\ \A t \in DOMAIN span \ {s} : ~Overlap(f.put[s], span[t])

HeldApart == \A j, k \in Planners : j # k => planner[j].held \cap planner[k].held = {}

TablesOK ==
    /\ DOMAIN cell \subseteq Cells /\ cell \in [DOMAIN cell -> Placements]
    /\ DOMAIN span \subseteq Slots /\ span \in [DOMAIN span -> Intervals]
    /\ \A i \in DOMAIN cell : cell[i].slot \in DOMAIN span

NoClash == \A i, j \in DOMAIN cell : i # j => ~Clash(cell[i], cell[j])

SlotsApart == \A s, t \in DOMAIN span : s # t => ~Overlap(span[s], span[t])

TimetableInv ==
    /\ TablesOK /\ NoClash /\ SlotsApart
    /\ planner \in [Planners -> Plans] /\ HeldApart
    /\ \A k \in Planners : DecidedOK(planner[k]) /\ CheckedOK(planner[k])

LEMMA RestingOK == Resting \in Plans /\ DecidedOK(Resting) /\ CheckedOK(Resting)
<1>1. <<>> \in [{} -> Weeks] /\ <<>> \in [{} -> Intervals] /\ DOMAIN <<>> = {}
  OBVIOUS
<1>2. /\ Resting.step = "IDLE" /\ Resting.todo = {} /\ Resting.held = {} /\ Resting.add = {}
      /\ Resting.cut = <<>> /\ Resting.put = <<>>
  BY DEF Resting
<1>3. Resting \in Plans
  <2>1. <<>> \in Cuts /\ <<>> \in Puts
    BY <1>1 DEF Cuts, Puts
  <2> QED BY <2>1 DEF Resting, Plans
<1>4. DecidedOK(Resting) /\ CheckedOK(Resting)
  BY <1>1, <1>2 DEF DecidedOK, CheckedOK
<1> QED BY <1>3, <1>4

LEMMA TimetableInvInit == TimetableInit => TimetableInv
<1> SUFFICES ASSUME TimetableInit PROVE TimetableInv
  OBVIOUS
<1>1. DOMAIN cell = {} /\ DOMAIN span = {}
  BY DEF TimetableInit
<1>2. TablesOK /\ NoClash /\ SlotsApart
  BY <1>1 DEF TimetableInit, TablesOK, NoClash, SlotsApart
<1>3. \A k \in Planners : planner[k] = Resting
  BY DEF TimetableInit
<1>4. HeldApart
  BY <1>3 DEF HeldApart, Resting
<1>5. planner \in [Planners -> Plans]
  BY RestingOK DEF TimetableInit
<1> QED BY <1>2, <1>3, <1>4, <1>5, RestingOK DEF TimetableInv

\* A session decides, locks, checks or gives up; the tables stay.
LEMMA PlanStep ==
    ASSUME TimetableInv, UNCHANGED <<cell, span>>, NEW k \in Planners, NEW f \in Plans,
           planner' = [planner EXCEPT ![k] = f], DecidedOK(f), CheckedOK(f),
           \A x \in f.held \ planner[k].held : Unlocked(x)
    PROVE  TimetableInv'
<1>1. planner'[k] = f /\ \A j \in Planners \ {k} : planner'[j] = planner[j]
  BY DEF TimetableInv
<1>2. HeldApart'
  BY <1>1 DEF TimetableInv, HeldApart, Unlocked
<1>3. \A g : (DecidedOK(g)' <=> DecidedOK(g)) /\ (CheckedOK(g)' <=> CheckedOK(g))
  BY DEF DecidedOK, CheckedOK
<1>4. \A j \in Planners : DecidedOK(planner'[j]) /\ CheckedOK(planner'[j])
  BY <1>1 DEF TimetableInv
<1>5. \A j \in Planners : DecidedOK(planner[j])' /\ CheckedOK(planner[j])'
  BY <1>3, <1>4
<1>6. (TablesOK /\ NoClash /\ SlotsApart)'
  BY DEF TimetableInv, TablesOK, NoClash, SlotsApart
<1>7. planner' \in [Planners -> Plans]
  BY DEF TimetableInv
<1> QED BY <1>2, <1>5, <1>6, <1>7 DEF TimetableInv

LEMMA PlanParts ==
    ASSUME NEW f \in Plans
    PROVE  /\ f.todo \subseteq Resources /\ f.add \subseteq Placements
           /\ DOMAIN f.cut \subseteq Cells /\ \A i \in DOMAIN f.cut : f.cut[i] \in Weeks
           /\ DOMAIN f.put \subseteq Slots /\ \A s \in DOMAIN f.put : f.put[s] \in Intervals
BY DEF Plans, Cuts, Puts

LEMMA PlanMade ==
    ASSUME NEW todo \in SUBSET Resources, NEW rows \in SUBSET (Resources \cup Cells),
           NEW add \in SUBSET Placements, NEW cut \in Cuts, NEW put \in Puts,
           NEW f, f = Begun(todo, rows, add, cut, put)
    PROVE  /\ f \in Plans /\ f.step = "LOCKING" /\ f.todo = todo /\ f.held = rows
           /\ f.add = add /\ f.cut = cut /\ f.put = put
BY DEF Begun, Plans

LEMMA NeededResources ==
    \A p \in Placements : Needed(p) \subseteq Resources
BY DEF Placements, Needed, Resources

LEMMA NothingWritten == DOMAIN <<>> = {} /\ <<>> \in Cuts /\ <<>> \in Puts
<1>1. DOMAIN <<>> = {} /\ <<>> \in [{} -> Weeks] /\ <<>> \in [{} -> Intervals]
  OBVIOUS
<1> QED BY <1>1 DEF Cuts, Puts

\* A session begins: nothing is checked yet, and it takes free rows at most.
LEMMA BeginStep ==
    ASSUME TimetableInv, UNCHANGED <<cell, span>>, NEW k \in Planners, planner[k] = Resting,
           NEW f \in Plans, planner' = [planner EXCEPT ![k] = f],
           f.step = "LOCKING", DecidedOK(f), \A x \in f.held : Unlocked(x)
    PROVE  TimetableInv'
<1>1. CheckedOK(f)
  BY DEF CheckedOK
<1> QED BY <1>1, PlanStep

LEMMA BeginActions ==
    ASSUME TimetableInv, NEW k \in Planners
    PROVE  /\ \A p \in Offers : CreateSchedule(k, p) => TimetableInv'
           /\ \A p \in Offers : \A i \in DOMAIN cell : CreateSuccessor(k, i, p) => TimetableInv'
           /\ \A i \in DOMAIN cell, week \in Weeks : EndSchedule(k, i, week) => TimetableInv'
           /\ \A s \in Slots, interval \in Intervals : WriteTimeSlot(k, s, interval) => TimetableInv'
<1>0. TablesOK
  BY DEF TimetableInv
<1>a. \A i \in DOMAIN cell : i \in Cells /\ cell[i] \in Placements /\ cell[i].slot \in DOMAIN span
  BY <1>0 DEF TablesOK
<1>b. \A p \in Offers : p \in Placements /\ p.from <= p.until
  BY DEF Offers
<1>1. ASSUME NEW p \in Offers, CreateSchedule(k, p)
      PROVE  TimetableInv'
  <2> DEFINE f == Begun(Needed(p), {}, {p}, <<>>, <<>>)
  <2>1. /\ f \in Plans /\ f.step = "LOCKING" /\ f.todo = Needed(p) /\ f.held = {}
        /\ f.add = {p} /\ f.cut = <<>> /\ f.put = <<>>
    <3>1. /\ Needed(p) \in SUBSET Resources /\ {} \in SUBSET (Resources \cup Cells)
          /\ {p} \in SUBSET Placements /\ <<>> \in Cuts /\ <<>> \in Puts
      BY <1>b, NeededResources, NothingWritten
    <3>2. f = Begun(Needed(p), {}, {p}, <<>>, <<>>)
      OBVIOUS
    <3> HIDE DEF f
    <3> QED BY <3>1, <3>2, PlanMade
  <2>2. /\ planner[k] = Resting /\ p.slot \in DOMAIN span
        /\ planner' = [planner EXCEPT ![k] = f] /\ UNCHANGED <<cell, span>>
    BY <1>1 DEF CreateSchedule
  <2> HIDE DEF f
  <2>3. DecidedOK(f)
    BY <2>1, <2>2, NothingWritten DEF DecidedOK
  <2> QED BY <2>1, <2>2, <2>3, BeginStep
<1>2. ASSUME NEW p \in Offers, NEW i \in DOMAIN cell, CreateSuccessor(k, i, p)
      PROVE  TimetableInv'
  <2> DEFINE cut == [j \in {i} |-> p.from - 1]
             f == Begun(Needed(p), {i}, {p}, cut, <<>>)
  <2>2. /\ planner[k] = Resting /\ Unlocked(i) /\ p.slot = cell[i].slot
        /\ cell[i].from < p.from /\ p.from <= cell[i].until
        /\ planner' = [planner EXCEPT ![k] = f] /\ UNCHANGED <<cell, span>>
    BY <1>2 DEF CreateSuccessor
  <2>3. /\ p.from - 1 \in Weeks /\ p.from - 1 <= cell[i].until /\ p.from - 1 < p.from
    BY <1>a, <1>b, <2>2, TimetableAssumption DEF Placements, Weeks
  <2>4. cut \in [{i} -> Weeks] /\ cut[i] = p.from - 1 /\ DOMAIN cut = {i}
    BY <2>3
  <2> HIDE DEF cut
  <2>1. /\ f \in Plans /\ f.step = "LOCKING" /\ f.todo = Needed(p) /\ f.held = {i}
        /\ f.add = {p} /\ f.cut = cut /\ f.put = <<>>
    <3>1. /\ Needed(p) \in SUBSET Resources /\ {i} \in SUBSET (Resources \cup Cells)
          /\ {p} \in SUBSET Placements /\ cut \in Cuts /\ <<>> \in Puts
      BY <1>a, <1>b, <2>4, NeededResources, NothingWritten DEF Cuts
    <3>2. f = Begun(Needed(p), {i}, {p}, cut, <<>>)
      OBVIOUS
    <3> HIDE DEF f
    <3> QED BY <3>1, <3>2 DEF Begun, Plans
  <2> HIDE DEF f
  <2>5. DecidedOK(f)
    BY <1>a, <2>1, <2>2, <2>3, <2>4, NothingWritten DEF DecidedOK
  <2> QED BY <2>1, <2>2, <2>5, BeginStep
<1>3. ASSUME NEW i \in DOMAIN cell, NEW week \in Weeks, EndSchedule(k, i, week)
      PROVE  TimetableInv'
  <2> DEFINE cut == [j \in {i} |-> week]
             f == Begun({cell[i].class}, {i}, {}, cut, <<>>)
  <2>2. /\ planner[k] = Resting /\ Unlocked(i) /\ week <= cell[i].until
        /\ planner' = [planner EXCEPT ![k] = f] /\ UNCHANGED <<cell, span>>
    BY <1>3 DEF EndSchedule
  <2>4. cut \in [{i} -> Weeks] /\ cut[i] = week /\ DOMAIN cut = {i}
    OBVIOUS
  <2>5. cell[i].class \in Resources
    BY <1>a DEF Placements, Resources
  <2> HIDE DEF cut
  <2>1. /\ f \in Plans /\ f.step = "LOCKING" /\ f.held = {i}
        /\ f.add = {} /\ f.cut = cut /\ f.put = <<>>
    <3>1. /\ {cell[i].class} \in SUBSET Resources /\ {i} \in SUBSET (Resources \cup Cells)
          /\ {} \in SUBSET Placements /\ cut \in Cuts /\ <<>> \in Puts
      BY <1>a, <2>4, <2>5, NothingWritten DEF Cuts
    <3>2. f = Begun({cell[i].class}, {i}, {}, cut, <<>>)
      OBVIOUS
    <3> HIDE DEF f
    <3> QED BY <3>1, <3>2, PlanMade
  <2> HIDE DEF f
  <2>6. DecidedOK(f)
    BY <2>1, <2>2, <2>4, NothingWritten DEF DecidedOK
  <2> QED BY <2>1, <2>2, <2>6, BeginStep
<1>4. ASSUME NEW s \in Slots, NEW interval \in Intervals, WriteTimeSlot(k, s, interval)
      PROVE  TimetableInv'
  <2> DEFINE put == [x \in {s} |-> interval]
             todo == {Catalogue} \cup ({s} \cap DOMAIN span)
             f == Begun(todo, {}, {}, <<>>, put)
  <2>2. /\ planner[k] = Resting
        /\ planner' = [planner EXCEPT ![k] = f] /\ UNCHANGED <<cell, span>>
    BY <1>4 DEF WriteTimeSlot
  <2>3. put \in [{s} -> Intervals] /\ DOMAIN put = {s}
    OBVIOUS
  <2>4. todo \subseteq Resources /\ Catalogue \in todo
    BY DEF Resources
  <2> HIDE DEF put, todo
  <2>1. /\ f \in Plans /\ f.step = "LOCKING" /\ f.todo = todo /\ f.held = {}
        /\ f.add = {} /\ f.cut = <<>> /\ f.put = put
    <3>1. /\ todo \in SUBSET Resources /\ {} \in SUBSET (Resources \cup Cells)
          /\ {} \in SUBSET Placements /\ <<>> \in Cuts /\ put \in Puts
      BY <2>3, <2>4, NothingWritten DEF Puts
    <3>2. f = Begun(todo, {}, {}, <<>>, put)
      OBVIOUS
    <3> HIDE DEF f
    <3> QED BY <3>1, <3>2, PlanMade
  <2> HIDE DEF f
  <2>5. DecidedOK(f)
    BY <2>1, <2>3, <2>4, NothingWritten DEF DecidedOK
  <2> QED BY <2>1, <2>2, <2>5, BeginStep
<1> QED BY <1>1, <1>2, <1>3, <1>4

LEMMA CopyAction ==
    ASSUME TimetableInv, NEW k \in Planners, NEW class \in Classes,
           NEW source \in Days, NEW target \in Days, NEW week \in Weeks,
           CopyDay(k, class, source, target, week)
    PROVE  TimetableInv'
<1> DEFINE rows == {i \in DOMAIN cell : cell[i].class = class /\ cell[i].day \in {source, target}}
           valid == {i \in rows : /\ cell[i].day = source
                                  /\ cell[i].from <= week /\ week <= cell[i].until}
           copy(i) == [cell[i] EXCEPT !.day = target, !.from = week]
           copies == {copy(i) : i \in valid}
           todo == UNION {Needed(p) : p \in copies}
           f == Begun(todo, rows, copies, <<>>, <<>>)
<1>1. /\ planner[k] = Resting /\ \A i \in rows : Unlocked(i)
      /\ planner' = [planner EXCEPT ![k] = f] /\ UNCHANGED <<cell, span>>
  BY DEF CopyDay
<1>2. \A i \in DOMAIN cell : i \in Cells /\ cell[i] \in Placements /\ cell[i].slot \in DOMAIN span
  BY DEF TimetableInv, TablesOK
<1>3. \A i \in valid : copy(i) \in Placements /\ copy(i).class = class /\ copy(i).slot = cell[i].slot
  <2> TAKE i \in valid
  <2>1. cell[i] \in Placements /\ cell[i].class = class
    BY <1>2
  <2>2. /\ copy(i) \in Placements /\ copy(i).class = cell[i].class
        /\ copy(i).slot = cell[i].slot
    BY <2>1 DEF Placements
  <2> HIDE DEF copy
  <2> QED BY <2>1, <2>2
<1>4. copies \subseteq Placements /\ \A p \in copies : p.slot \in DOMAIN span
  BY <1>2, <1>3
\* Two rows of a class valid in one week of a day have different slots.
<1>5. ASSUME NEW i \in valid, NEW j \in valid, i # j
      PROVE  cell[i].slot # cell[j].slot
  <2>1. ~Clash(cell[i], cell[j])
    BY <1>5 DEF TimetableInv, NoClash
  <2>2. /\ cell[i].from \in Int /\ cell[i].until \in Int /\ cell[j].from \in Int /\ cell[j].until \in Int
    BY <1>2, TimetableAssumption DEF Placements, Weeks
  <2>3. SameWeeks(cell[i], cell[j])
    BY <2>2, TimetableAssumption DEF SameWeeks, Weeks
  <2> QED BY <2>1, <2>3 DEF Clash, Shares
<1> HIDE DEF copy
<1>6. \A p, q \in copies : p # q => p.slot # q.slot
  BY <1>3, <1>5
<1>7. \A p \in copies : Needed(p) \subseteq todo
  OBVIOUS
<1>8. todo \in SUBSET Resources /\ rows \in SUBSET (Resources \cup Cells)
  BY <1>2, <1>4, NeededResources
<1> HIDE DEF valid, rows, copies, todo
<1>9. /\ f \in Plans /\ f.step = "LOCKING" /\ f.todo = todo /\ f.held = rows
      /\ f.add = copies /\ f.cut = <<>> /\ f.put = <<>>
  BY <1>4, <1>8, NothingWritten DEF Begun, Plans
<1> HIDE DEF f
<1>10. DecidedOK(f)
  BY <1>4, <1>6, <1>7, <1>9, NothingWritten DEF DecidedOK, Clash
<1> QED BY <1>1, <1>9, <1>10, BeginStep

LEMMA LockActions ==
    ASSUME TimetableInv, NEW k \in Planners
    PROVE  /\ \A x \in Resources : LockNext(k, x) => TimetableInv'
           /\ Check(k) \/ Abandon(k) => TimetableInv'
<1>0. planner[k] \in Plans /\ DecidedOK(planner[k]) /\ CheckedOK(planner[k])
  BY DEF TimetableInv
<1>1. ASSUME NEW x \in Resources, LockNext(k, x)
      PROVE  TimetableInv'
  <2> DEFINE f == [planner[k] EXCEPT !.todo = @ \ {x}, !.held = @ \cup {x}]
  <2>1. planner' = [planner EXCEPT ![k] = f] /\ UNCHANGED <<cell, span>> /\ Unlocked(x)
        /\ planner[k].step = "LOCKING"
    BY <1>1 DEF LockNext
  <2>2. /\ f \in Plans /\ f.step = planner[k].step /\ f.todo = planner[k].todo \ {x}
        /\ f.held = planner[k].held \cup {x} /\ f.add = planner[k].add
        /\ f.cut = planner[k].cut /\ f.put = planner[k].put
    BY <1>0 DEF Plans
  <2> HIDE DEF f
  <2>3. DecidedOK(f) /\ CheckedOK(f)
    BY <1>0, <2>1, <2>2 DEF DecidedOK, CheckedOK
  <2> QED BY <2>1, <2>2, <2>3, PlanStep
<1>2. ASSUME Check(k)
      PROVE  TimetableInv'
  <2> DEFINE f == [planner[k] EXCEPT !.step = "CHECKED"]
  <2>1. planner' = [planner EXCEPT ![k] = f] /\ UNCHANGED <<cell, span>>
        /\ planner[k].todo = {} /\ Available(k) /\ SlotsFit(k)
    BY <1>2 DEF Check
  <2>2. /\ f \in Plans /\ f.todo = planner[k].todo
        /\ f.held = planner[k].held /\ f.add = planner[k].add
        /\ f.cut = planner[k].cut /\ f.put = planner[k].put
    BY <1>0 DEF Plans
  <2> HIDE DEF f
  <2>3. DecidedOK(f) /\ CheckedOK(f)
    BY <1>0, <2>1, <2>2 DEF DecidedOK, CheckedOK, Available, SlotsFit
  <2> QED BY <2>1, <2>2, <2>3, PlanStep
<1>3. ASSUME Abandon(k)
      PROVE  TimetableInv'
  <2>1. Resting.held = {}
    BY DEF Resting
  <2> QED BY <1>3, <2>1, RestingOK, PlanStep DEF Abandon
<1> QED BY <1>1, <1>2, <1>3

(***************************************************************************)
(* The commit: each row is an old one, perhaps shortened, or an added one. *)
(***************************************************************************)

\* A row that ends earlier clashes with less.
Shorter(new, old) ==
    /\ new \in Placements /\ old \in Placements
    /\ new.class = old.class /\ new.teacher = old.teacher /\ new.room = old.room
    /\ new.slot = old.slot /\ new.day = old.day /\ new.from = old.from
    /\ new.until <= old.until

LEMMA WeeksAreNumbers ==
    \A p \in Placements : p.from \in Int /\ p.until \in Int
BY TimetableAssumption DEF Placements, Weeks

LEMMA ClashSymmetric == \A p, q : Clash(p, q) <=> Clash(q, p)
BY DEF Clash, Shares, SameWeeks

LEMMA ShorterClashes ==
    ASSUME NEW old, NEW new, Shorter(new, old), NEW p \in Placements, ~Clash(p, old)
    PROVE  ~Clash(p, new)
<1>1. p.from \in Int /\ p.until \in Int /\ new.until \in Int /\ old.until \in Int
  BY WeeksAreNumbers DEF Shorter
<1>2. new.until <= old.until /\ new.from = old.from /\ new.room = old.room
  BY DEF Shorter
<1>3. SameWeeks(p, new) => SameWeeks(p, old)
  BY <1>1, <1>2 DEF SameWeeks
<1>4. Shares(p, new) <=> Shares(p, old)
  BY DEF Shares, Shorter
<1> QED BY <1>3, <1>4 DEF Clash, Shorter

\* Two cells that clash need a resource in common.
LEMMA ClashNeedsSame ==
    \A p, q \in Placements : Clash(p, q) => Needed(p) \cap Needed(q) # {}
BY DEF Clash, Shares, Needed

LEMMA CommitRows ==
    ASSUME TimetableInv, NEW k \in Planners, NEW key \in [planner[k].add -> Cells], Commit(k, key)
    PROVE  /\ DOMAIN cell' = DOMAIN cell \cup {key[p] : p \in planner[k].add}
           /\ \A i \in DOMAIN cell : Shorter(cell'[i], cell[i])
           /\ \A i \in DOMAIN cell \ DOMAIN planner[k].cut : cell'[i] = cell[i]
           /\ \A i \in DOMAIN planner[k].cut : cell'[i].until = planner[k].cut[i]
           /\ \A i \in DOMAIN cell' \ DOMAIN cell :
                 cell'[i] \in planner[k].add /\ key[cell'[i]] = i
<1> DEFINE f == planner[k]
<1>0. f \in Plans /\ DecidedOK(f) /\ TablesOK
  BY DEF TimetableInv
<1>1. /\ DOMAIN key = f.add /\ \A p \in f.add : key[p] \in Cells \ DOMAIN cell
      /\ \A p, q \in f.add : key[p] = key[q] => p = q
      /\ cell' = [i \in DOMAIN cell \cup {key[p] : p \in DOMAIN key} |->
                    IF i \in DOMAIN cell THEN Shortened(k)[i]
                    ELSE CHOOSE p \in DOMAIN key : key[p] = i]
  BY DEF Commit
<1>2. DOMAIN cell' = DOMAIN cell \cup {key[p] : p \in f.add}
  BY <1>1
<1>3. ASSUME NEW i \in DOMAIN cell' \ DOMAIN cell
      PROVE  cell'[i] \in f.add /\ key[cell'[i]] = i
  <2>1. cell'[i] = CHOOSE p \in DOMAIN key : key[p] = i
    BY <1>1, <1>3
  <2>2. \E p \in DOMAIN key : key[p] = i
    BY <1>1, <1>2, <1>3
  <2> QED BY <1>1, <2>1, <2>2
<1>4. ASSUME NEW i \in DOMAIN cell
      PROVE  /\ Shorter(cell'[i], cell[i])
             /\ i \notin DOMAIN f.cut => cell'[i] = cell[i]
             /\ i \in DOMAIN f.cut => cell'[i].until = f.cut[i]
  <2>1. cell'[i] = Shortened(k)[i]
    BY <1>1, <1>4
  <2>2. cell'[i] = IF i \in DOMAIN f.cut THEN [cell[i] EXCEPT !.until = f.cut[i]] ELSE cell[i]
    BY <2>1 DEF Shortened
  <2>3. cell[i] \in Placements
    BY <1>0 DEF TablesOK
  <2>4. CASE i \notin DOMAIN f.cut
    BY <2>2, <2>3, <2>4, WeeksAreNumbers DEF Shorter
  <2>5. CASE i \in DOMAIN f.cut
    <3> DEFINE old == cell[i]
               last == f.cut[i]
               new == [old EXCEPT !.until = last]
    <3>1. last \in Weeks /\ last <= old.until /\ old \in Placements
      BY <1>0, <2>3, <2>5, PlanParts DEF DecidedOK
    <3>2. cell'[i] = new
      BY <2>2, <2>5
    <3> HIDE DEF f, old, last
    <3>3. /\ new \in Placements /\ new.class = old.class /\ new.teacher = old.teacher
          /\ new.room = old.room /\ new.slot = old.slot /\ new.day = old.day
          /\ new.from = old.from /\ new.until = last
      BY <3>1 DEF Placements
    <3> HIDE DEF new
    <3>4. Shorter(new, old) /\ new.until = last
      BY <3>1, <3>3 DEF Shorter
    <3> USE DEF f, old, last
    <3> QED BY <2>5, <3>2, <3>4
  <2> QED BY <2>4, <2>5
<1>5. DOMAIN f.cut \subseteq DOMAIN cell
  BY <1>0 DEF DecidedOK
<1> QED BY <1>2, <1>3, <1>4, <1>5

LEMMA CommitAction ==
    ASSUME TimetableInv, NEW k \in Planners, NEW key \in [planner[k].add -> Cells], Commit(k, key)
    PROVE  TimetableInv'
<1> DEFINE f == planner[k]
<1>0. /\ f \in Plans /\ DecidedOK(f) /\ CheckedOK(f) /\ f.step = "CHECKED"
      /\ TablesOK /\ NoClash /\ SlotsApart /\ HeldApart
  BY DEF TimetableInv, Commit
<1>1. /\ DOMAIN cell' = DOMAIN cell \cup {key[p] : p \in f.add}
      /\ \A i \in DOMAIN cell : Shorter(cell'[i], cell[i])
      /\ \A i \in DOMAIN cell \ DOMAIN f.cut : cell'[i] = cell[i]
      /\ \A i \in DOMAIN f.cut : cell'[i].until = f.cut[i]
      /\ \A i \in DOMAIN cell' \ DOMAIN cell : cell'[i] \in f.add /\ key[cell'[i]] = i
  BY CommitRows
<1>2. /\ DOMAIN span' = DOMAIN span \cup DOMAIN f.put
      /\ \A s \in DOMAIN f.put : span'[s] = f.put[s]
      /\ \A s \in DOMAIN span \ DOMAIN f.put : span'[s] = span[s]
      /\ span' \in [DOMAIN span' -> Intervals]
  BY <1>0, PlanParts DEF Commit, TablesOK
<1>3. /\ planner'[k] = Resting /\ \A j \in Planners \ {k} : planner'[j] = planner[j]
      /\ planner' \in [Planners -> Plans]
  BY RestingOK DEF TimetableInv, Commit
<1>4. f.add \subseteq Placements /\ DOMAIN f.put \subseteq Slots
  BY <1>0, PlanParts
<1>5. \A p \in f.add : key[p] \in Cells
  OBVIOUS
<1>6. TablesOK'
  <2>1. \A i \in DOMAIN cell' : cell'[i] \in Placements /\ cell'[i].slot \in DOMAIN span'
    <3> TAKE i \in DOMAIN cell'
    <3>1. CASE i \in DOMAIN cell
      BY <1>0, <1>1, <1>2, <3>1 DEF Shorter, TablesOK
    <3>2. CASE i \notin DOMAIN cell
      BY <1>0, <1>1, <1>2, <1>4, <3>2 DEF DecidedOK
    <3> QED BY <3>1, <3>2
  <2>2. cell' \in [DOMAIN cell' -> Placements]
    BY <2>1 DEF Commit
  <2>3. DOMAIN cell' \subseteq Cells /\ DOMAIN span' \subseteq Slots
    BY <1>0, <1>1, <1>2, <1>4, <1>5 DEF TablesOK
  <2> QED BY <1>2, <2>1, <2>2, <2>3 DEF TablesOK
\* What the session adds does not clash with a row that stays or is shortened.
<1>7. ASSUME NEW p \in f.add, NEW i \in DOMAIN cell
      PROVE  ~Clash(p, cell'[i])
  <2>1. CASE i \notin DOMAIN f.cut
    BY <1>0, <1>1, <2>1 DEF CheckedOK
  <2>2. CASE i \in DOMAIN f.cut
    <3>1. f.cut[i] < p.from /\ cell'[i].until = f.cut[i]
      BY <1>0, <1>1, <2>2 DEF DecidedOK
    <3>2. p.from \in Int /\ f.cut[i] \in Int
      BY <1>0, <1>4, <2>2, WeeksAreNumbers, PlanParts DEF Weeks
    <3> QED BY <3>1, <3>2 DEF Clash, SameWeeks
  <2> QED BY <2>1, <2>2
<1>8. NoClash'
  <2> SUFFICES ASSUME NEW i \in DOMAIN cell', NEW j \in DOMAIN cell', i # j
               PROVE  ~Clash(cell'[i], cell'[j])
    BY DEF NoClash
  <2>1. CASE i \in DOMAIN cell /\ j \in DOMAIN cell
    <3>1. ~Clash(cell[i], cell[j]) /\ Shorter(cell'[i], cell[i]) /\ Shorter(cell'[j], cell[j])
      BY <1>0, <1>1, <2>1 DEF NoClash
    <3>2. cell[i] \in Placements /\ cell'[j] \in Placements
      BY <3>1 DEF Shorter
    <3>3. ~Clash(cell[i], cell'[j])
      BY <3>1, <3>2, ShorterClashes
    <3>4. ~Clash(cell'[j], cell'[i])
      BY <3>1, <3>2, <3>3, ShorterClashes, ClashSymmetric
    <3> QED BY <3>4, ClashSymmetric
  <2>2. CASE i \notin DOMAIN cell /\ j \in DOMAIN cell
    BY <1>1, <1>7, <2>2
  <2>3. CASE i \in DOMAIN cell /\ j \notin DOMAIN cell
    BY <1>1, <1>7, <2>3, ClashSymmetric
  <2>4. CASE i \notin DOMAIN cell /\ j \notin DOMAIN cell
    BY <1>0, <1>1, <2>4 DEF DecidedOK
  <2> QED BY <2>1, <2>2, <2>3, <2>4
<1>9. SlotsApart'
  <2> SUFFICES ASSUME NEW s \in DOMAIN span', NEW t \in DOMAIN span', s # t
               PROVE  ~Overlap(span'[s], span'[t])
    BY DEF SlotsApart
  <2>1. \A i, j : Overlap(i, j) <=> Overlap(j, i)
    BY DEF Overlap
  <2>2. CASE s \in DOMAIN f.put
    <3>1. t \in DOMAIN span \ {s} /\ t \notin DOMAIN f.put
      BY <1>0, <1>2, <2>2 DEF DecidedOK
    <3> QED BY <1>0, <1>2, <2>2, <3>1 DEF CheckedOK
  <2>3. CASE t \in DOMAIN f.put
    <3>1. s \in DOMAIN span \ {t} /\ s \notin DOMAIN f.put
      BY <1>0, <1>2, <2>3 DEF DecidedOK
    <3> QED BY <1>0, <1>2, <2>1, <2>3, <3>1 DEF CheckedOK
  <2>4. CASE s \notin DOMAIN f.put /\ t \notin DOMAIN f.put
    BY <1>0, <1>2, <2>4 DEF SlotsApart
  <2> QED BY <2>2, <2>3, <2>4
<1>10. HeldApart'
  <2>1. Resting.held = {}
    BY DEF Resting
  <2> QED BY <1>0, <1>3, <2>1 DEF HeldApart
\* The others: nothing they decided or checked has moved.
<1>11. ASSUME NEW j \in Planners, j # k
       PROVE  DecidedOK(planner[j])' /\ CheckedOK(planner[j])'
  <2>0. PICK g : g = planner[j]
    OBVIOUS
  <2>1. g \in Plans /\ DecidedOK(g) /\ CheckedOK(g) /\ f.held \cap g.held = {}
        /\ planner'[j] = g
    BY <1>0, <1>3, <1>11, <2>0 DEF TimetableInv, HeldApart
  <2>2. DOMAIN f.cut \subseteq f.held /\ DOMAIN g.cut \subseteq g.held
    BY <1>0, <2>1 DEF DecidedOK
  <2>3. \A i \in DOMAIN g.cut : i \in DOMAIN cell /\ i \in DOMAIN cell' /\ cell'[i] = cell[i]
    BY <1>1, <2>1, <2>2 DEF DecidedOK
  <2>4. DOMAIN span \subseteq DOMAIN span'
    BY <1>2
  <2>5. DecidedOK(g)'
    BY <2>1, <2>3, <2>4 DEF DecidedOK
  <2>6. CheckedOK(g)'
    <3> SUFFICES ASSUME g.step = "CHECKED"
                 PROVE  /\ g.todo = {}
                        /\ \A p \in g.add, i \in DOMAIN cell' \ DOMAIN g.cut : ~Clash(p, cell'[i])
                        /\ \A s \in DOMAIN g.put :
                             /\ s \in DOMAIN span' => s \in g.held
                             /\ \A i \in DOMAIN cell' : cell'[i].slot # s
                             /\ \A t \in DOMAIN span' \ {s} : ~Overlap(g.put[s], span'[t])
      BY DEF CheckedOK
    <3>1. g.todo = {} /\ f.todo = {}
      BY <1>0, <2>1 DEF CheckedOK
    <3>2. ASSUME NEW p \in g.add, NEW i \in DOMAIN cell' \ DOMAIN g.cut
          PROVE  ~Clash(p, cell'[i])
      <4>0. p \in Placements
        BY <2>1, PlanParts
      <4>1. CASE i \in DOMAIN cell
        <5>1. ~Clash(p, cell[i]) /\ Shorter(cell'[i], cell[i])
          BY <1>1, <2>1, <3>2, <4>1 DEF CheckedOK
        <5> QED BY <4>0, <5>1, ShorterClashes
      <4>2. CASE i \notin DOMAIN cell
        <5>1. cell'[i] \in f.add /\ cell'[i] \in Placements
          BY <1>1, <1>4, <3>2, <4>2
        <5>2. Needed(p) \subseteq g.held /\ Needed(cell'[i]) \subseteq f.held
          BY <1>0, <2>1, <3>1, <3>2, <5>1 DEF DecidedOK
        <5> QED BY <2>1, <4>0, <5>1, <5>2, ClashNeedsSame
      <4> QED BY <4>1, <4>2
    <3>3. ASSUME NEW s \in DOMAIN g.put
          PROVE  /\ s \in DOMAIN span' => s \in g.held
                 /\ \A i \in DOMAIN cell' : cell'[i].slot # s
                 /\ \A t \in DOMAIN span' \ {s} : ~Overlap(g.put[s], span'[t])
      <4>1. Catalogue \in g.held
        BY <2>1, <3>1, <3>3 DEF DecidedOK
      <4>2. DOMAIN f.put = {}
        BY <1>0, <2>1, <3>1, <4>1 DEF DecidedOK
      <4>3. DOMAIN span' = DOMAIN span /\ \A t \in DOMAIN span : span'[t] = span[t]
        BY <1>2, <4>2
      <4>4. s \in DOMAIN span => s \in g.held
        BY <2>1, <3>3 DEF CheckedOK
      <4>5. ASSUME NEW i \in DOMAIN cell'
            PROVE  cell'[i].slot # s
        <5>1. CASE i \in DOMAIN cell
          BY <1>1, <2>1, <3>3, <5>1 DEF CheckedOK, Shorter
        <5>2. CASE i \notin DOMAIN cell
          <6>1. cell'[i] \in f.add
            BY <1>1, <4>5, <5>2
          <6>2. cell'[i].slot \in f.held /\ cell'[i].slot \in DOMAIN span
            BY <1>0, <3>1, <6>1 DEF DecidedOK, Needed
          <6> QED BY <2>1, <4>4, <6>2
        <5> QED BY <5>1, <5>2
      <4> QED BY <2>1, <3>3, <4>3, <4>4, <4>5 DEF CheckedOK
    <3> QED BY <3>1, <3>2, <3>3
  <2> QED BY <2>1, <2>5, <2>6
<1>12. DecidedOK(planner[k])' /\ CheckedOK(planner[k])'
  <2>1. DOMAIN <<>> = {}
    OBVIOUS
  <2>2. /\ Resting.step = "IDLE" /\ Resting.add = {}
        /\ Resting.cut = <<>> /\ Resting.put = <<>>
    BY DEF Resting
  <2> QED BY <1>3, <2>1, <2>2 DEF DecidedOK, CheckedOK
<1> QED BY <1>3, <1>6, <1>8, <1>9, <1>10, <1>11, <1>12 DEF TimetableInv

LEMMA TimetableInvNext ==
    ASSUME TimetableInv, [TimetableNext]_timetableVars
    PROVE  TimetableInv'
<1>1. CASE UNCHANGED timetableVars
  BY <1>1 DEF timetableVars, TimetableInv, TablesOK, NoClash, SlotsApart, HeldApart,
     DecidedOK, CheckedOK
<1> QED BY <1>1, BeginActions, CopyAction, LockActions, CommitAction DEF TimetableNext

\* Nobody is in two places at once: whatever sessions create, replace, end and
\* copy together, the locks of the resources and of the catalogue suffice
\* (_lock_schedule_resources, _lock_time_slot_catalog).
THEOREM NobodyBookedTwice == TimetableSpec => []NoDoubleBooking
<1>1. TimetableInv => NoDoubleBooking
  <2> SUFFICES ASSUME TimetableInv, NEW i \in DOMAIN cell, NEW j \in DOMAIN cell, i # j,
                      Shares(cell[i], cell[j]), cell[i].day = cell[j].day,
                      SameWeeks(cell[i], cell[j])
               PROVE  ~Overlap(span[cell[i].slot], span[cell[j].slot])
    BY DEF NoDoubleBooking
  <2>1. cell[i].slot # cell[j].slot
    BY DEF TimetableInv, NoClash, Clash
  <2>2. cell[i].slot \in DOMAIN span /\ cell[j].slot \in DOMAIN span
    BY DEF TimetableInv, TablesOK
  <2> QED BY <2>1, <2>2 DEF TimetableInv, SlotsApart
<1> QED BY <1>1, TimetableInvInit, TimetableInvNext, PTL DEF TimetableSpec
=============================================================================
