--------------------------- MODULE EnrollmentsProofs ---------------------------
(***************************************************************************)
(* Theorems of Enrollments for any students, classes, applications, clerks *)
(* and requirements: at most one open application and one active           *)
(* enrollment per student and year, workflow and academic record in        *)
(* agreement, no enrollment without its documents, no seat taken that the  *)
(* class does not have, every reserved seat still there at completion, and *)
(* the places of students as SeatBooking has them.                         *)
(*                                                                         *)
(* The first argument is the lock of the student: a transaction in         *)
(* progress finds at its commit the application it read at its start, and  *)
(* only the application's own student could have changed what it depends   *)
(* on.  The second is the lock of the class: between the count of its      *)
(* enrollments and the decision nobody else adds one, and an enrollment    *)
(* takes the seat its application had reserved.  The last sections show    *)
(* what each step does to the sets of approved and enrolled applications,  *)
(* hence to the places of their students.                                  *)
(***************************************************************************)
EXTENDS Enrollments, FiniteSetTheorems, TLAPS

IInv ==
    /\ TypeOK
    /\ OneOpenPerYear
    /\ OneActivePerYear
    /\ EnrolledHasBond
    /\ EnrollmentHasDocuments
    /\ Orderly

-------------------------------------------------------------------------------
(* Operators.                                                              *)

LEMMA IdleType == Idle \in TxType
BY DEF Idle, TxType

LEMMA RowType ==
    ASSUME TypeOK, NEW a \in Applications
    PROVE  application[a] \in ApplicationType
BY DEF TypeOK

\* Enrollments and reservations can be counted.
LEMMA CountsAreNumbers ==
    \A c : /\ IsFiniteSet(ActiveIn(c)) /\ IsFiniteSet(ReservedIn(c))
           /\ Cardinality(ActiveIn(c)) \in Nat /\ Cardinality(ReservedIn(c)) \in Nat
           /\ Occupied(c) = Cardinality(ActiveIn(c)) + Cardinality(ReservedIn(c))
<1> SUFFICES ASSUME NEW c
             PROVE  /\ IsFiniteSet(ActiveIn(c)) /\ IsFiniteSet(ReservedIn(c))
                    /\ Cardinality(ActiveIn(c)) \in Nat /\ Cardinality(ReservedIn(c)) \in Nat
  BY DEF Occupied
<1>1. ActiveIn(c) \subseteq Applications /\ ReservedIn(c) \subseteq Applications
  BY DEF ActiveIn, ReservedIn
<1>2. IsFiniteSet(ActiveIn(c)) /\ IsFiniteSet(ReservedIn(c))
  BY <1>1, EnrollmentsAssumption, FS_Subset
<1> QED BY <1>2, FS_CardinalityType

-------------------------------------------------------------------------------
(* Initial states.                                                         *)

LEMMA IInvInit == Init => IInv
<1> SUFFICES ASSUME Init PROVE IInv
  OBVIOUS
<1>1. Blank \in ApplicationType
  BY DEF Blank, ApplicationType, Types
<1>2. TypeOK
  <2>1. seats \in [Classes -> 0 .. MaxSeats] /\ resizes \in 0 .. MaxResizes
    BY EnrollmentsAssumption DEF Init
  <2> QED BY <1>1, <2>1, IdleType DEF Init, TypeOK, Status, Blank
<1>3. OneOpenPerYear /\ OneActivePerYear /\ EnrolledHasBond /\ EnrollmentHasDocuments
  BY DEF Init, OneOpenPerYear, OneActivePerYear, EnrolledHasBond, EnrollmentHasDocuments, Status,
         Blank, OpenStatuses
<1>4. Orderly
  BY DEF Init, Orderly, Rooted, BoundWhenCompleted, Serialized, Status, Blank, Idle
<1> QED BY <1>2, <1>3, <1>4 DEF IInv

-------------------------------------------------------------------------------
(* Steps of one transaction that write no row.                             *)

LEMMA TxStep ==
    ASSUME IInv, NEW k \in Clerks, NEW t \in TxType,
           tx' = [tx EXCEPT ![k] = t],
           UNCHANGED <<application, bond, document, seats, resizes>>,
           Serialized(k)'
    PROVE  IInv'
<1> USE DEF IInv, Orderly
<1>1. /\ tx' \in [Clerks -> TxType] /\ tx'[k] = t
      /\ \A j \in Clerks \ {k} : tx'[j] = tx[j]
  BY DEF TypeOK
<1>2. TypeOK'
  BY <1>1 DEF TypeOK, Status, Class
<1>3. OneOpenPerYear' /\ OneActivePerYear' /\ EnrolledHasBond' /\ EnrollmentHasDocuments'
  BY DEF OneOpenPerYear, OneActivePerYear, EnrolledHasBond, EnrollmentHasDocuments, Status, Student,
         Class, ApplicationYear, DocumentsComplete
<1>4. \A a \in Applications : Rooted(a)' /\ BoundWhenCompleted(a)'
  BY DEF Rooted, BoundWhenCompleted, Status, Student, Class
<1>5. ASSUME NEW j \in Clerks \ {k}
      PROVE  Serialized(j)'
  <2>1. Serialized(j)
    OBVIOUS
  <2>2. tx[j].pc # "idle" /\ t.pc # "idle" => Student(tx[j].app) # Student(t.app)
    BY <1>1 DEF Serialized, Student
  <2> QED BY <1>1, <2>1, <2>2 DEF Serialized, Status, Student, Class, DocumentsComplete
<1> QED BY <1>2, <1>3, <1>4, <1>5

LEMMA RollbackStep ==
    ASSUME IInv, NEW k \in Clerks, Rollback(k)
    PROVE  IInv'
<1>1. Serialized(k)'
  BY DEF Rollback, Serialized, Idle, IInv, TypeOK
<1> QED BY <1>1, IdleType, TxStep DEF Rollback

LEMMA LockClassStep ==
    ASSUME IInv, NEW k \in Clerks, LockClass(k)
    PROVE  IInv'
<1> DEFINE t == [tx[k] EXCEPT !.holds = Class(tx[k].app)]
<1>1. tx[k] \in TxType /\ Serialized(k) /\ tx[k].pc # "idle"
  BY DEF LockClass, IInv, Orderly, TypeOK
<1>2. t \in TxType /\ t.pc = tx[k].pc /\ t.app = tx[k].app
  BY <1>1 DEF TxType, Serialized
<1>3. tx' = [tx EXCEPT ![k] = t] /\ UNCHANGED <<application, bond, document, seats, resizes>>
  BY DEF LockClass, IInv, TypeOK
<1> HIDE DEF t
<1>4. tx'[k] = t /\ \A j \in Clerks \ {k} : tx'[j] = tx[j]
  BY <1>3 DEF IInv, TypeOK
<1>5. Serialized(k)'
  BY <1>1, <1>2, <1>3, <1>4 DEF Serialized, Status, Student, Class, DocumentsComplete
<1> QED BY <1>2, <1>3, <1>5, TxStep

LEMMA CountEnrolledStep ==
    ASSUME IInv, NEW k \in Clerks, CountEnrolled(k)
    PROVE  IInv'
<1> DEFINE count == Cardinality(ActiveIn(tx[k].holds))
           t == [tx[k] EXCEPT !.pc = "counted", !.enrolled = count]
<1>1. tx[k] \in TxType /\ Serialized(k) /\ tx[k].pc = "approving"
  BY DEF CountEnrolled, IInv, Orderly, TypeOK
<1>2. t \in TxType /\ t.pc = "counted" /\ t.app = tx[k].app
  BY <1>1, CountsAreNumbers DEF TxType
<1>3. tx' = [tx EXCEPT ![k] = t] /\ UNCHANGED <<application, bond, document, seats, resizes>>
  BY DEF CountEnrolled, IInv, TypeOK
<1> HIDE DEF t
<1>4. tx'[k] = t /\ \A j \in Clerks \ {k} : tx'[j] = tx[j]
  BY <1>3 DEF IInv, TypeOK
<1>5. Serialized(k)'
  BY <1>1, <1>2, <1>3, <1>4 DEF Serialized, Status, Student, Class, DocumentsComplete
<1> QED BY <1>2, <1>3, <1>5, TxStep

LEMMA BeginFinalizeStep ==
    ASSUME IInv, NEW k \in Clerks, NEW a \in Applications, BeginFinalize(k, a)
    PROVE  IInv'
<1> DEFINE t == [Idle EXCEPT !.pc = "completing", !.app = a]
<1>1. t \in TxType /\ t.pc = "completing" /\ t.app = a
  BY IdleType DEF TxType, Idle
<1>2. tx' = [tx EXCEPT ![k] = t] /\ UNCHANGED <<application, bond, document, seats, resizes>>
  BY DEF BeginFinalize
<1> HIDE DEF t
<1>3. tx'[k] = t /\ \A j \in Clerks \ {k} : tx'[j] = tx[j]
  BY <1>2 DEF IInv, TypeOK
<1>4. Class(a) \in Classes
  BY DEF BeginFinalize, IInv, TypeOK, ApplicationType, Class
<1>5. Serialized(k)'
  BY <1>1, <1>2, <1>3, <1>4
     DEF BeginFinalize, Serialized, Status, Student, Class, DocumentsComplete, StudentFree
<1> QED BY <1>1, <1>2, <1>5, TxStep

-------------------------------------------------------------------------------
(* Steps that write rows.                                                  *)

\* Writing rows that no transaction still in progress is about disturbs none.
LEMMA SerializedAfter ==
    ASSUME IInv, NEW W,
           \A b \in Applications \ W : application'[b] = application[b],
           \A j \in Clerks : tx'[j].pc # "idle" => tx'[j] = tx[j] /\ tx[j].app \notin W,
           \A b \in Applications \ W : DocumentsComplete(b) => DocumentsComplete(b)'
    PROVE  \A j \in Clerks : Serialized(j)'
<1> SUFFICES ASSUME NEW j \in Clerks, tx'[j].pc # "idle"
             PROVE  Serialized(j)'
  BY DEF Serialized
<1>1. /\ tx'[j] = tx[j] /\ tx[j].app \in Applications \ W
      /\ application'[tx[j].app] = application[tx[j].app]
  BY DEF IInv, Orderly, Serialized
<1>2. /\ Class(tx[j].app) \in Classes
      /\ tx[j].pc \in {"approving", "counted"} => Status(tx[j].app) \in {"UNDER_REVIEW", "WAITLISTED"}
      /\ tx[j].pc = "completing" => Status(tx[j].app) = "APPROVED" /\ DocumentsComplete(tx[j].app)
  BY <1>1 DEF IInv, Orderly, Serialized
<1>3. ASSUME NEW i \in Clerks \ {j}, tx'[i].pc # "idle"
      PROVE  (Student(tx[i].app) # Student(tx[j].app))'
  <2>1. /\ tx'[i] = tx[i] /\ tx[i].app \in Applications \ W
        /\ application'[tx[i].app] = application[tx[i].app]
    BY <1>3 DEF IInv, Orderly, Serialized
  <2>2. Student(tx[i].app) # Student(tx[j].app)
    BY <1>1, <1>3, <2>1 DEF IInv, Orderly, Serialized
  <2> QED BY <1>1, <2>1, <2>2 DEF Student
<1>4. DocumentsComplete(tx[j].app) => (DocumentsComplete(tx[j].app))'
  BY <1>1 DEF DocumentsComplete
<1>5. /\ Status(tx[j].app)' = Status(tx[j].app) /\ Class(tx[j].app)' = Class(tx[j].app)
  BY <1>1 DEF Status, Class
<1> QED BY <1>1, <1>2, <1>3, <1>4, <1>5 DEF Serialized

\* The rows of an application's student are free of transactions when the
\* student is.
LEMMA NobodyAbout ==
    ASSUME NEW s, StudentFree(s), UNCHANGED tx, NEW W, \A b \in W : Student(b) = s
    PROVE  \A j \in Clerks : tx'[j].pc # "idle" => tx'[j] = tx[j] /\ tx[j].app \notin W
BY DEF StudentFree

\* And at a commit, of transactions other than the one that commits.
LEMMA OnlyTheCommitter ==
    ASSUME IInv, NEW k \in Clerks, tx[k].pc # "idle", tx' = [tx EXCEPT ![k] = Idle],
           NEW W, \A b \in W : Student(b) = Student(tx[k].app)
    PROVE  /\ tx' \in [Clerks -> TxType]
           /\ \A j \in Clerks : tx'[j].pc # "idle" => tx'[j] = tx[j] /\ tx[j].app \notin W
<1>1. tx' \in [Clerks -> TxType] /\ tx'[k] = Idle /\ \A j \in Clerks \ {k} : tx'[j] = tx[j]
  BY IdleType DEF IInv, TypeOK
<1> QED BY <1>1 DEF IInv, Orderly, Serialized, Idle

\* A step of the workflow that neither completes nor ends an enrollment.
LEMMA StatusStep ==
    ASSUME IInv, NEW a \in Applications, NEW status \in OpenStatuses \cup {"REJECTED", "CANCELLED"},
           Status(a) \in OpenStatuses,
           application' = [application EXCEPT ![a].status = status],
           UNCHANGED <<bond, document, seats, resizes>>,
           tx' \in [Clerks -> TxType],
           \A j \in Clerks : tx'[j].pc # "idle" => tx'[j] = tx[j] /\ tx[j].app # a
    PROVE  IInv'
<1> USE DEF IInv, Orderly
<1>1. /\ application' \in [Applications -> ApplicationType]
      /\ application'[a].status = status
      /\ \A b \in Applications \ {a} : application'[b] = application[b]
      /\ \A b \in Applications : /\ application'[b].student = application[b].student
                                 /\ application'[b].class = application[b].class
                                 /\ application'[b].source = application[b].source
                                 /\ application'[b].type = application[b].type
  <2>1. /\ application \in [Applications -> ApplicationType]
        /\ application[a] \in ApplicationType /\ status \in Statuses
    BY DEF TypeOK, Statuses
  <2> DEFINE row == [application[a] EXCEPT !.status = status]
  <2>2. /\ row \in ApplicationType /\ row.status = status
        /\ row.student = application[a].student /\ row.class = application[a].class
        /\ row.source = application[a].source /\ row.type = application[a].type
    BY <2>1 DEF ApplicationType
  <2>3. application' = [application EXCEPT ![a] = row]
    OBVIOUS
  <2> HIDE DEF row
  <2> QED BY <2>1, <2>2, <2>3
<1>2. TypeOK'
  BY <1>1 DEF TypeOK, Status, Class, OpenStatuses
<1>3. OneOpenPerYear'
  <2>1. \A b \in Applications : Status(b)' \in OpenStatuses => Status(b) \in OpenStatuses
    BY <1>1 DEF Status
  <2>2. \A b \in Applications : /\ Student(b)' = Student(b)
                                /\ Class(b)' = Class(b)
    BY <1>1 DEF Student, Class
  <2>3. \A b \in Applications : Status(b) \in OpenStatuses
            => ApplicationYear(application[b])' = ApplicationYear(application[b])
    <3> SUFFICES ASSUME NEW b \in Applications, Status(b) \in OpenStatuses
                 PROVE  ApplicationYear(application[b])' = ApplicationYear(application[b])
      OBVIOUS
    <3>1. application[b].class = None => application[b].source \in Applications
      BY EnrollmentsAssumption
         DEF TypeOK, ApplicationType, Status, Class, OpenStatuses, TargetTypes, SourceTypes, Types
    <3> QED BY <1>1, <3>1 DEF ApplicationYear
  <2> QED BY <2>1, <2>2, <2>3 DEF OneOpenPerYear
<1>4. OneActivePerYear' /\ EnrollmentHasDocuments'
  BY <1>1 DEF OneActivePerYear, EnrollmentHasDocuments, Student, Class, DocumentsComplete
<1>5. EnrolledHasBond'
  <2>1. bond[a] = "none"
    BY DEF BoundWhenCompleted, OpenStatuses
  <2> QED BY <1>1, <2>1 DEF EnrolledHasBond, Status, OpenStatuses
<1>6. ASSUME NEW b \in Applications
      PROVE  Rooted(b)' /\ BoundWhenCompleted(b)'
  <2>1. \A x \in Applications : Status(x)' = "none" <=> Status(x) = "none"
    BY <1>1 DEF Status, OpenStatuses
  <2>2. application[b].source \in Applications \cup {None}
    BY DEF TypeOK, ApplicationType
  <2>3. Rooted(b)'
    BY <1>1, <2>1, <2>2 DEF Rooted, Student, Class
  <2>4. BoundWhenCompleted(b)'
    BY <1>1 DEF BoundWhenCompleted, Status, Class, OpenStatuses
  <2> QED BY <2>3, <2>4
<1>7. \A j \in Clerks : Serialized(j)'
  <2>1. \A b \in Applications : DocumentsComplete(b)' <=> DocumentsComplete(b)
    BY DEF DocumentsComplete
  <2>2. \A j \in Clerks : tx'[j].pc # "idle" => tx'[j] = tx[j] /\ tx[j].app \notin {a}
    OBVIOUS
  <2> QED BY <1>1, <2>1, <2>2, SerializedAfter
<1> QED BY <1>2, <1>3, <1>4, <1>5, <1>6, <1>7

\* submit_application, request_correction, reject_application, and the
\* cancellation of what was not enrolled.
LEMMA MoveStep ==
    ASSUME IInv, NEW a \in Applications,
           SubmitApplication(a) \/ RequestCorrection(a) \/ RejectApplication(a)
           \/ (CancelApplication(a) /\ Status(a) # "ENROLLED")
    PROVE  IInv'
<1>1. PICK status \in OpenStatuses \cup {"REJECTED", "CANCELLED"} :
          application' = [application EXCEPT ![a].status = status]
  BY DEF SubmitApplication, RequestCorrection, RejectApplication, CancelApplication, SetStatus,
         OpenStatuses
<1>2. /\ Status(a) \in OpenStatuses /\ StudentFree(Student(a))
      /\ UNCHANGED <<bond, document, seats, tx, resizes>>
  BY DEF SubmitApplication, RequestCorrection, RejectApplication, CancelApplication, OpenStatuses
<1>3. /\ tx' \in [Clerks -> TxType]
      /\ \A j \in Clerks : tx'[j].pc # "idle" => tx'[j] = tx[j] /\ tx[j].app # a
  BY <1>2, NobodyAbout DEF IInv, TypeOK, StudentFree
<1> QED BY <1>1, <1>2, <1>3, StatusStep

LEMMA BeginApprovalStep ==
    ASSUME IInv, NEW k \in Clerks, NEW a \in Applications, BeginApproval(k, a)
    PROVE  IInv'
<1>1. CASE Class(a) = None
  <2>1. /\ Status(a) \in OpenStatuses /\ StudentFree(Student(a))
        /\ application' = [application EXCEPT ![a].status = "APPROVED"]
        /\ UNCHANGED <<bond, document, seats, tx, resizes>>
    BY <1>1 DEF BeginApproval, SetStatus, OpenStatuses
  <2>2. /\ tx' \in [Clerks -> TxType]
        /\ \A j \in Clerks : tx'[j].pc # "idle" => tx'[j] = tx[j] /\ tx[j].app # a
    BY <2>1 DEF IInv, TypeOK, StudentFree
  <2>3. "APPROVED" \in OpenStatuses \cup {"REJECTED", "CANCELLED"}
    BY DEF OpenStatuses
  <2> QED BY <2>1, <2>2, <2>3, StatusStep
<1>2. CASE Class(a) # None
  <2> DEFINE t == [Idle EXCEPT !.pc = "approving", !.app = a]
  <2>1. t \in TxType /\ t.pc = "approving" /\ t.app = a
    BY IdleType DEF TxType, Idle
  <2>2. tx' = [tx EXCEPT ![k] = t] /\ UNCHANGED <<application, bond, document, seats, resizes>>
    BY <1>2 DEF BeginApproval
  <2> HIDE DEF t
  <2>3. tx'[k] = t /\ \A j \in Clerks \ {k} : tx'[j] = tx[j]
    BY <2>2 DEF IInv, TypeOK
  <2>4. Class(a) \in Classes
    BY <1>2 DEF IInv, TypeOK, ApplicationType, Class
  <2>5. Serialized(k)'
    BY <2>1, <2>2, <2>3, <2>4
       DEF BeginApproval, Serialized, Status, Student, Class, DocumentsComplete, StudentFree
  <2> QED BY <2>1, <2>2, <2>5, TxStep
<1> QED BY <1>1, <1>2

LEMMA DecideApprovalStep ==
    ASSUME IInv, NEW k \in Clerks, DecideApproval(k)
    PROVE  IInv'
<1> DEFINE a == tx[k].app
<1>1. PICK status \in OpenStatuses \cup {"REJECTED", "CANCELLED"} :
          application' = [application EXCEPT ![a].status = status]
  BY DEF DecideApproval, OpenStatuses
<1>2. /\ a \in Applications /\ Status(a) \in OpenStatuses
      /\ tx[k].pc # "idle" /\ tx' = [tx EXCEPT ![k] = Idle]
      /\ UNCHANGED <<bond, document, seats, resizes>>
  BY DEF DecideApproval, IInv, Orderly, Serialized, OpenStatuses
<1>3. \A b \in {a} : Student(b) = Student(tx[k].app)
  OBVIOUS
<1>4. /\ tx' \in [Clerks -> TxType]
      /\ \A j \in Clerks : tx'[j].pc # "idle" => tx'[j] = tx[j] /\ tx[j].app \notin {a}
  BY <1>2, <1>3, OnlyTheCommitter
<1> QED BY <1>1, <1>2, <1>4, StatusStep

-------------------------------------------------------------------------------
(* Steps that write an application's context.                              *)

\* What a command has validated may be written to a row that bears no
\* enrollment and is in no transaction.
LEMMA RewriteStep ==
    ASSUME IInv, NEW a \in Applications, NEW row \in ApplicationType,
           Status(a) \in {"none", "PRE_ENROLLMENT", "CORRECTION_REQUIRED"},
           row.status \in {"PRE_ENROLLMENT", "CORRECTION_REQUIRED"},
           row.student \in Students,
           ContextValid(row.type, row.student, row.class, row.source),
           \A b \in Applications \ {a} :
               Status(b) \in OpenStatuses /\ Student(b) = row.student
               => ApplicationYear(application[b]) # ApplicationYear(row),
           application' = [application EXCEPT ![a] = row],
           document' \in [Applications -> [Documents -> DocumentStatuses \cup {"none"}]],
           \A b \in Applications \ {a} : document'[b] = document[b],
           UNCHANGED <<bond, seats, tx, resizes>>
    PROVE  IInv'
<1> USE DEF IInv, Orderly
<1>1. /\ application' \in [Applications -> ApplicationType]
      /\ application'[a] = row
      /\ \A b \in Applications \ {a} : application'[b] = application[b]
  BY DEF TypeOK
<1>2. \A b \in Applications : bond[b] # "none" => b # a
  BY DEF BoundWhenCompleted
<1>3. row.source # None => /\ row.source \in Applications \ {a}
                           /\ Status(row.source) # "none" /\ Student(row.source) = row.student
                           /\ bond[row.source] = "ACTIVE"
  BY <1>2 DEF ContextValid, OfStudent
<1>4. TypeOK'
  <2>1. ASSUME NEW b \in Applications, Status(b)' # "none"
        PROVE  /\ Class(b)' # None <=> application'[b].type \in TargetTypes
               /\ application'[b].source # None <=> application'[b].type \in SourceTypes
    BY <1>1, <2>1 DEF TypeOK, Status, Class, ContextValid
  <2> QED BY <1>1, <2>1 DEF TypeOK
<1>5. \A b \in Applications \ {a} : Status(b) # "none" =>
          application[b].source \in (Applications \ {a}) \cup {None}
  BY <1>2, EnrollmentsAssumption DEF Rooted, TypeOK, ApplicationType
<1>6. OneOpenPerYear'
  <2>1. \A b \in Applications \ {a} : Status(b) \in OpenStatuses
            => (ApplicationYear(application[b]))' = ApplicationYear(application[b])
    <3> SUFFICES ASSUME NEW b \in Applications \ {a}, Status(b) \in OpenStatuses
                 PROVE  (ApplicationYear(application[b]))' = ApplicationYear(application[b])
      OBVIOUS
    <3>1. application[b].class = None => application[b].source \in Applications \ {a}
      BY <1>5, EnrollmentsAssumption
         DEF TypeOK, ApplicationType, Status, Class, OpenStatuses, TargetTypes, SourceTypes, Types
    <3> QED BY <1>1, <3>1 DEF ApplicationYear
  <2>2. (ApplicationYear(application[a]))' = ApplicationYear(row)
    <3>1. row.class = None => row.source \in Applications \ {a}
      BY <1>3 DEF ContextValid, ApplicationType, TargetTypes, SourceTypes, Types
    <3> QED BY <1>1, <3>1 DEF ApplicationYear
  <2>3. \A b \in Applications \ {a} : Status(b)' = Status(b) /\ Student(b)' = Student(b)
    BY <1>1 DEF Status, Student
  <2>4. Student(a)' = row.student
    BY <1>1 DEF Student
  <2> QED BY <2>1, <2>2, <2>3, <2>4 DEF OneOpenPerYear
<1>7. OneActivePerYear' /\ EnrollmentHasDocuments'
  BY <1>1, <1>2 DEF OneActivePerYear, EnrollmentHasDocuments, Student, Class, DocumentsComplete
<1>8. EnrolledHasBond'
  BY <1>1, <1>2 DEF EnrolledHasBond, Status
<1>9. ASSUME NEW b \in Applications
      PROVE  Rooted(b)' /\ BoundWhenCompleted(b)'
  <2>1. CASE b = a
    <3>1. Rooted(a)'
      BY <1>1, <1>3 DEF Rooted, Status, Student, Class, ContextValid
    <3> QED BY <1>2, <2>1, <3>1 DEF BoundWhenCompleted
  <2>2. CASE b # a
    <3>1. Rooted(b)'
      BY <1>1, <1>5, <2>2 DEF Rooted, Status, Student, Class
    <3> QED BY <1>1, <2>2, <3>1 DEF BoundWhenCompleted, Status, Class
  <2> QED BY <2>1, <2>2
<1>10. \A j \in Clerks : Serialized(j)'
  <2>1. \A j \in Clerks : tx[j].pc # "idle" => tx[j].app \notin {a}
    BY DEF Serialized, TypeOK, TxType
  <2>2. \A b \in Applications \ {a} : DocumentsComplete(b) => DocumentsComplete(b)'
    BY DEF DocumentsComplete
  <2> QED BY <1>1, <2>1, <2>2, SerializedAfter
<1> QED BY <1>4, <1>6, <1>7, <1>8, <1>9, <1>10

LEMMA CreateStep ==
    ASSUME IInv, NEW a \in Applications, NEW type \in Types, NEW s \in Students,
           NEW c \in Classes \cup {None}, NEW source \in Applications \cup {None},
           CreateApplication(a, type, s, c, source)
    PROVE  IInv'
<1> DEFINE row == [status |-> "PRE_ENROLLMENT", type |-> type, student |-> s,
                   class |-> c, source |-> source]
<1>1. /\ row \in ApplicationType /\ row.status = "PRE_ENROLLMENT" /\ row.student = s
      /\ row.type = type /\ row.class = c /\ row.source = source
  BY DEF ApplicationType, Statuses, OpenStatuses
<1>2. /\ Status(a) = "none" /\ ContextValid(type, s, c, source)
      /\ ~HasOpen(s, ApplicationYear(row))
      /\ application' = [application EXCEPT ![a] = row]
      /\ UNCHANGED <<bond, seats, tx, resizes>>
  BY DEF CreateApplication
<1>3. PICK required \in SUBSET (IF type \in Documented THEN Documents ELSE {}) :
          document' = [document EXCEPT ![a] =
              [d \in Documents |-> IF d \in required THEN "PENDING" ELSE "none"]]
  BY DEF CreateApplication
<1>4. /\ document' \in [Applications -> [Documents -> DocumentStatuses \cup {"none"}]]
      /\ \A b \in Applications \ {a} : document'[b] = document[b]
  BY <1>3 DEF IInv, TypeOK, DocumentStatuses
<1> HIDE DEF row
<1>5. \A b \in Applications \ {a} :
          Status(b) \in OpenStatuses /\ Student(b) = row.student
          => ApplicationYear(application[b]) # ApplicationYear(row)
  BY <1>1, <1>2 DEF HasOpen, OfStudent, OpenStatuses
<1> QED BY <1>1, <1>2, <1>4, <1>5, RewriteStep

LEMMA CorrectStep ==
    ASSUME IInv, NEW a \in Applications,
           NEW c \in Classes \cup {None}, NEW source \in Applications \cup {None},
           CorrectApplication(a, c, source)
    PROVE  IInv'
<1> DEFINE row == [application[a] EXCEPT !.class = c, !.source = source]
<1>1. /\ row \in ApplicationType /\ row.status = Status(a) /\ row.student = Student(a)
      /\ row.type = application[a].type /\ row.class = c /\ row.source = source
  BY RowType DEF IInv, ApplicationType, Status, Student
<1>2. /\ Status(a) \in {"PRE_ENROLLMENT", "CORRECTION_REQUIRED"}
      /\ ContextValid(application[a].type, Student(a), c, source)
      /\ ApplicationYear(row) = ApplicationYear(application[a])
      /\ application' = [application EXCEPT ![a] = row]
      /\ UNCHANGED <<bond, document, seats, tx, resizes>>
  BY DEF CorrectApplication, SameYear
<1> HIDE DEF row
<1>3. \A b \in Applications \ {a} :
          Status(b) \in OpenStatuses /\ Student(b) = row.student
          => ApplicationYear(application[b]) # ApplicationYear(row)
  BY <1>1, <1>2 DEF IInv, OneOpenPerYear, OpenStatuses
<1>4. /\ row.student \in Students
      /\ document' \in [Applications -> [Documents -> DocumentStatuses \cup {"none"}]]
  BY <1>1, <1>2 DEF IInv, TypeOK, Orderly, Rooted
<1> QED BY <1>1, <1>2, <1>3, <1>4, RewriteStep

-------------------------------------------------------------------------------
(* Steps that complete or end enrollments.                                 *)

Completed == {"ENROLLED", "TRANSFERRED", "CANCELLED"}

\* Completing applications that are in no transaction left in progress, with
\* their documents complete, keeps the invariant when it keeps the year's one
\* enrollment and the agreement of the two records.
LEMMA AcademicStep ==
    ASSUME IInv, NEW W,
           application' \in [Applications -> ApplicationType],
           \A b \in Applications \ W : application'[b] = application[b],
           \A b \in Applications : /\ application'[b].student = application[b].student
                                   /\ application'[b].class = application[b].class
                                   /\ application'[b].source = application[b].source
                                   /\ application'[b].type = application[b].type,
           \A b \in Applications :
               \/ Status(b)' = Status(b)
               \/ Status(b)' \in Completed /\ Status(b) # "none",
           bond' \in [Applications -> {"none", "ACTIVE", "TRANSFERRED", "CANCELLED"}],
           \A b \in Applications :
               \/ bond'[b] = bond[b]
               \/ /\ bond'[b] # "none" /\ DocumentsComplete(b)
                  /\ Status(b)' \in Completed /\ Class(b) \in Classes,
           UNCHANGED <<document, seats, resizes>>,
           tx' \in [Clerks -> TxType],
           \A j \in Clerks : tx'[j].pc # "idle" => tx'[j] = tx[j] /\ tx[j].app \notin W,
           OneActivePerYear', EnrolledHasBond'
    PROVE  IInv'
<1> USE DEF IInv, Orderly
<1>1. \A b \in Applications : Status(b)' = "none" <=> Status(b) = "none"
  BY DEF Completed
<1>2. TypeOK'
  <2>1. ASSUME NEW b \in Applications, Status(b)' # "none"
        PROVE  /\ Class(b)' # None <=> application'[b].type \in TargetTypes
               /\ application'[b].source # None <=> application'[b].type \in SourceTypes
    BY <1>1, <2>1 DEF TypeOK, Class
  <2> QED BY <2>1 DEF TypeOK
<1>3. OneOpenPerYear'
  <2>1. \A b \in Applications : Status(b)' \in OpenStatuses => Status(b) \in OpenStatuses
    BY DEF OpenStatuses, Completed
  <2>2. \A b \in Applications : Student(b)' = Student(b)
    BY DEF Student
  <2>3. \A b \in Applications : Status(b) \in OpenStatuses
            => (ApplicationYear(application[b]))' = ApplicationYear(application[b])
    <3> SUFFICES ASSUME NEW b \in Applications, Status(b) \in OpenStatuses
                 PROVE  (ApplicationYear(application[b]))' = ApplicationYear(application[b])
      OBVIOUS
    <3>1. application[b].class = None => application[b].source \in Applications
      BY EnrollmentsAssumption
         DEF TypeOK, ApplicationType, Status, Class, OpenStatuses, TargetTypes, SourceTypes, Types
    <3> QED BY <3>1 DEF ApplicationYear
  <2> QED BY <2>1, <2>2, <2>3 DEF OneOpenPerYear
<1>4. EnrollmentHasDocuments'
  BY DEF EnrollmentHasDocuments, DocumentsComplete
<1>5. ASSUME NEW b \in Applications
      PROVE  Rooted(b)' /\ BoundWhenCompleted(b)'
  <2>1. application[b].source \in Applications \cup {None}
    BY DEF TypeOK, ApplicationType
  <2>2. \A x \in Applications : bond[x] # "none" => bond'[x] # "none"
    OBVIOUS
  <2>3. \A x \in Applications : Student(x)' = Student(x) /\ Class(x)' = Class(x)
    BY DEF Student, Class
  <2>4. Rooted(b)'
    <3>1. Rooted(b)
      OBVIOUS
    <3> QED BY <1>1, <2>1, <2>2, <2>3, <3>1 DEF Rooted
  <2>5. BoundWhenCompleted(b)'
    <3>1. BoundWhenCompleted(b)
      OBVIOUS
    <3> QED BY <2>3, <3>1 DEF BoundWhenCompleted, Completed
  <2> QED BY <2>4, <2>5
<1>6. \A j \in Clerks : Serialized(j)'
  <2>1. \A b \in Applications \ W : DocumentsComplete(b) => DocumentsComplete(b)'
    BY DEF DocumentsComplete
  <2> QED BY <2>1, SerializedAfter
<1> QED BY <1>2, <1>3, <1>4, <1>5, <1>6

\* What WithSource writes.
LEMMA WithSourceWrites ==
    ASSUME TypeOK, NEW a \in Applications, Status(a) = "APPROVED",
           NEW status \in {"ENROLLED", "TRANSFERRED"},
           application[a].source \in Applications \ {a},
           application' = WithSource(a, status)
    PROVE  /\ application' \in [Applications -> ApplicationType]
           /\ \A b \in Applications \ {a, application[a].source} :
                 application'[b] = application[b]
           /\ \A b \in Applications : /\ application'[b].student = application[b].student
                                      /\ application'[b].class = application[b].class
                                      /\ application'[b].source = application[b].source
                                      /\ application'[b].type = application[b].type
           /\ Status(a)' = status
           /\ Status(application[a].source) = "ENROLLED"
              => application'[application[a].source].status = "TRANSFERRED"
           /\ Status(application[a].source) # "ENROLLED"
              => application'[application[a].source].status = Status(application[a].source)
<1> DEFINE source == application[a].source
<1>1. /\ application \in [Applications -> ApplicationType]
      /\ status \in Statuses /\ "TRANSFERRED" \in Statuses
  BY DEF TypeOK, Statuses
<1>2. \A r \in ApplicationType, v \in Statuses :
          /\ [r EXCEPT !.status = v] \in ApplicationType
          /\ [r EXCEPT !.status = v].status = v
          /\ [r EXCEPT !.status = v].student = r.student
          /\ [r EXCEPT !.status = v].class = r.class
          /\ [r EXCEPT !.status = v].source = r.source
          /\ [r EXCEPT !.status = v].type = r.type
  BY DEF ApplicationType
<1>3. /\ application'[a] = [application[a] EXCEPT !.status = status]
      /\ application'[source] = IF Status(source) = "ENROLLED"
                                THEN [application[source] EXCEPT !.status = "TRANSFERRED"]
                                ELSE application[source]
      /\ \A b \in Applications \ {a, source} : application'[b] = application[b]
      /\ application' = [b \in Applications |-> application'[b]]
  BY DEF WithSource
<1>4. \A b \in Applications :
          \/ application'[b] = application[b]
          \/ \E v \in Statuses : application'[b] = [application[b] EXCEPT !.status = v]
  BY <1>1, <1>3
<1> HIDE DEF source
<1>5. \A b \in Applications : application[b] \in ApplicationType
  BY <1>1
<1>6. \A b \in Applications : /\ application'[b] \in ApplicationType
                              /\ application'[b].student = application[b].student
                              /\ application'[b].class = application[b].class
                              /\ application'[b].source = application[b].source
                              /\ application'[b].type = application[b].type
  <2> SUFFICES ASSUME NEW b \in Applications
               PROVE  /\ application'[b] \in ApplicationType
                      /\ application'[b].student = application[b].student
                      /\ application'[b].class = application[b].class
                      /\ application'[b].source = application[b].source
                      /\ application'[b].type = application[b].type
    OBVIOUS
  <2>1. CASE application'[b] = application[b]
    BY <1>5, <2>1
  <2>2. CASE \E v \in Statuses : application'[b] = [application[b] EXCEPT !.status = v]
    BY <1>2, <1>5, <2>2
  <2> QED BY <1>4, <2>1, <2>2
<1>7. Status(a)' = status
  BY <1>1, <1>2, <1>3, <1>5 DEF Status
<1>8. /\ Status(source) = "ENROLLED" => application'[source].status = "TRANSFERRED"
      /\ Status(source) # "ENROLLED" => application'[source].status = Status(source)
  <2>1. source \in Applications
    BY DEF source
  <2> QED BY <1>1, <1>2, <1>3, <1>5, <2>1 DEF Status
<1>9. application' \in [Applications -> ApplicationType]
  BY <1>3, <1>6
<1> QED BY <1>3, <1>6, <1>7, <1>8, <1>9 DEF source

\* cancel_application of an enrolled application.
LEMMA CancelEnrolledStep ==
    ASSUME IInv, NEW a \in Applications, CancelApplication(a), Status(a) = "ENROLLED"
    PROVE  IInv'
<1>1. /\ bond[a] = "ACTIVE" /\ StudentFree(Student(a))
      /\ bond' = [bond EXCEPT ![a] = "CANCELLED"]
      /\ application' = [application EXCEPT ![a].status = "CANCELLED"]
      /\ UNCHANGED <<document, seats, tx, resizes>>
  BY DEF CancelApplication, SetStatus
<1> DEFINE row == [application[a] EXCEPT !.status = "CANCELLED"]
<1>2. /\ row \in ApplicationType /\ row.status = "CANCELLED"
      /\ row.student = application[a].student /\ row.class = application[a].class
      /\ row.source = application[a].source /\ row.type = application[a].type
  BY RowType DEF IInv, ApplicationType, Statuses
<1>3. application' = [application EXCEPT ![a] = row]
  BY <1>1
<1> HIDE DEF row
<1>4. /\ application' \in [Applications -> ApplicationType] /\ application'[a] = row
      /\ \A b \in Applications \ {a} : application'[b] = application[b]
  BY <1>2, <1>3 DEF IInv, TypeOK
<1>5. \A b \in Applications : /\ application'[b].student = application[b].student
                              /\ application'[b].class = application[b].class
                              /\ application'[b].source = application[b].source
                              /\ application'[b].type = application[b].type
  BY <1>2, <1>4
<1>6. /\ bond' \in [Applications -> {"none", "ACTIVE", "TRANSFERRED", "CANCELLED"}]
      /\ bond'[a] = "CANCELLED" /\ \A b \in Applications \ {a} : bond'[b] = bond[b]
  BY <1>1 DEF IInv, TypeOK
<1>7. \A b \in Applications :
          \/ Status(b)' = Status(b)
          \/ Status(b)' \in Completed /\ Status(b) # "none"
  BY <1>2, <1>4 DEF Status, Completed
<1>8. \A b \in Applications :
          \/ bond'[b] = bond[b]
          \/ /\ bond'[b] # "none" /\ DocumentsComplete(b)
             /\ Status(b)' \in Completed /\ Class(b) \in Classes
  BY <1>1, <1>2, <1>4, <1>6
     DEF Status, Completed, IInv, EnrollmentHasDocuments, Orderly, BoundWhenCompleted
<1>9. OneActivePerYear'
  BY <1>5, <1>6 DEF IInv, OneActivePerYear, Student, Class
<1>10. EnrolledHasBond'
  BY <1>2, <1>4, <1>6 DEF IInv, EnrolledHasBond, Status
<1>11. /\ tx' \in [Clerks -> TxType]
       /\ \A j \in Clerks : tx'[j].pc # "idle" => tx'[j] = tx[j] /\ tx[j].app \notin {a}
  BY <1>1 DEF IInv, TypeOK, StudentFree
<1> QED BY <1>1, <1>4, <1>5, <1>6, <1>7, <1>8, <1>9, <1>10, <1>11, AcademicStep

\* create_from_application.
LEMMA CompleteEnrollmentStep ==
    ASSUME IInv, NEW k \in Clerks, CompleteEnrollment(k)
    PROVE  IInv'
<1> DEFINE a == tx[k].app
<1>1. /\ a \in Applications /\ tx[k].pc = "completing" /\ Class(a) \in Classes
      /\ Status(a) = "APPROVED" /\ DocumentsComplete(a)
      /\ ~HasActive(Student(a), Year(Class(a)))
      /\ bond' = [bond EXCEPT ![a] = "ACTIVE"]
      /\ application' = [application EXCEPT ![a].status = "ENROLLED"]
      /\ tx' = [tx EXCEPT ![k] = Idle]
      /\ UNCHANGED <<document, seats, resizes>>
  BY DEF CompleteEnrollment, SetStatus, IInv, Orderly, Serialized
<1>2. /\ tx' \in [Clerks -> TxType]
      /\ \A j \in Clerks : tx'[j].pc # "idle" => tx'[j] = tx[j] /\ tx[j].app \notin {a}
  <2>1. \A b \in {a} : Student(b) = Student(tx[k].app)
    OBVIOUS
  <2> QED BY <1>1, <2>1, OnlyTheCommitter
<1> HIDE DEF a
<1> DEFINE row == [application[a] EXCEPT !.status = "ENROLLED"]
<1>3. /\ row \in ApplicationType /\ row.status = "ENROLLED"
      /\ row.student = application[a].student /\ row.class = application[a].class
      /\ row.source = application[a].source /\ row.type = application[a].type
  BY <1>1, RowType DEF IInv, ApplicationType, Statuses
<1>4. application' = [application EXCEPT ![a] = row]
  BY <1>1
<1> HIDE DEF row
<1>5. /\ application' \in [Applications -> ApplicationType] /\ application'[a] = row
      /\ \A b \in Applications \ {a} : application'[b] = application[b]
  BY <1>1, <1>3, <1>4 DEF IInv, TypeOK
<1>6. \A b \in Applications : /\ application'[b].student = application[b].student
                              /\ application'[b].class = application[b].class
                              /\ application'[b].source = application[b].source
                              /\ application'[b].type = application[b].type
  BY <1>3, <1>5
<1>7. /\ bond' \in [Applications -> {"none", "ACTIVE", "TRANSFERRED", "CANCELLED"}]
      /\ bond'[a] = "ACTIVE" /\ \A b \in Applications \ {a} : bond'[b] = bond[b]
  BY <1>1 DEF IInv, TypeOK
<1>8. /\ \A b \in Applications :
            \/ Status(b)' = Status(b)
            \/ Status(b)' \in Completed /\ Status(b) # "none"
      /\ \A b \in Applications :
            \/ bond'[b] = bond[b]
            \/ /\ bond'[b] # "none" /\ DocumentsComplete(b)
               /\ Status(b)' \in Completed /\ Class(b) \in Classes
  BY <1>1, <1>3, <1>5, <1>7 DEF Status, Completed
<1>9. OneActivePerYear'
  <2>1. \A b \in Applications : bond[b] = "ACTIVE" /\ Student(b) = Student(a)
            => Year(Class(b)) # Year(Class(a))
    BY <1>1 DEF HasActive, OfStudent, IInv, Orderly, BoundWhenCompleted
  <2>2. \A b \in Applications : Student(b)' = Student(b) /\ Class(b)' = Class(b)
    BY <1>6 DEF Student, Class
  <2>3. \A b \in Applications : Year(Class(b))' = Year(Class(b))
    BY <2>2 DEF Year
  <2> QED BY <1>1, <1>7, <2>1, <2>2, <2>3 DEF IInv, OneActivePerYear
<1>10. EnrolledHasBond'
  BY <1>1, <1>3, <1>5, <1>7 DEF IInv, EnrolledHasBond, Status
<1> QED BY <1>1, <1>2, <1>5, <1>6, <1>7, <1>8, <1>9, <1>10, AcademicStep

\* An enrollment that bears the source of an approved application is of the same
\* student, and of another application.
LEMMA SourceOf ==
    ASSUME IInv, NEW a \in Applications, Status(a) = "APPROVED",
           application[a].type \in SourceTypes
    PROVE  /\ application[a].source \in Applications \ {a}
           /\ Student(application[a].source) = Student(a)
           /\ Status(application[a].source) \in Completed
           /\ Class(application[a].source) \in Classes
           /\ DocumentsComplete(application[a].source)
           /\ bond[a] = "none"
           /\ application[a].type = "INTERNAL_TRANSFER" =>
                 Year(Class(application[a].source)) = Year(Class(a))
<1>1. application[a].source \in Applications
  BY EnrollmentsAssumption DEF IInv, TypeOK, ApplicationType
<1>2. /\ Student(application[a].source) = Student(a)
      /\ bond[application[a].source] # "none"
      /\ application[a].type = "INTERNAL_TRANSFER" =>
            Year(Class(application[a].source)) = Year(Class(a))
  BY <1>1, EnrollmentsAssumption DEF IInv, Orderly, Rooted
<1>3. bond[a] = "none"
  BY DEF IInv, Orderly, BoundWhenCompleted
<1> QED BY <1>1, <1>2, <1>3
       DEF IInv, Orderly, BoundWhenCompleted, EnrollmentHasDocuments, Completed

\* finalize_application of a transfer to another school.
LEMMA FinalizeOutboundStep ==
    ASSUME IInv, NEW a \in Applications, FinalizeOutbound(a)
    PROVE  IInv'
<1> DEFINE source == application[a].source
<1>1. /\ Status(a) = "APPROVED" /\ application[a].type = "OUTBOUND_TRANSFER"
      /\ StudentFree(Student(a))
      /\ bond[source] = "ACTIVE"
      /\ bond' = [bond EXCEPT ![source] = "TRANSFERRED"]
      /\ application' = WithSource(a, "TRANSFERRED")
      /\ UNCHANGED <<document, seats, tx, resizes>>
  BY DEF FinalizeOutbound
<1>2. /\ source \in Applications \ {a} /\ Student(source) = Student(a)
      /\ Status(source) \in Completed /\ Class(source) \in Classes
      /\ DocumentsComplete(source) /\ bond[a] = "none"
  BY <1>1, SourceOf DEF SourceTypes
<1>3. /\ application' \in [Applications -> ApplicationType]
      /\ \A b \in Applications \ {a, source} : application'[b] = application[b]
      /\ \A b \in Applications : /\ application'[b].student = application[b].student
                                 /\ application'[b].class = application[b].class
                                 /\ application'[b].source = application[b].source
                                 /\ application'[b].type = application[b].type
      /\ Status(a)' = "TRANSFERRED"
      /\ Status(source) = "ENROLLED" => application'[source].status = "TRANSFERRED"
      /\ Status(source) # "ENROLLED" => application'[source].status = Status(source)
  BY <1>1, <1>2, WithSourceWrites DEF IInv
<1> HIDE DEF source
<1>4. /\ bond' \in [Applications -> {"none", "ACTIVE", "TRANSFERRED", "CANCELLED"}]
      /\ bond'[source] = "TRANSFERRED"
      /\ \A b \in Applications \ {source} : bond'[b] = bond[b]
  BY <1>1, <1>2 DEF IInv, TypeOK
<1>5. /\ \A b \in Applications \ {source} : b # a => Status(b)' = Status(b)
      /\ Status(source) = "ENROLLED" => application'[source].status = "TRANSFERRED"
      /\ application'[source].status \in Completed
  BY <1>2, <1>3 DEF Status, Completed
<1>6. /\ \A b \in Applications :
            \/ Status(b)' = Status(b)
            \/ Status(b)' \in Completed /\ Status(b) # "none"
      /\ \A b \in Applications :
            \/ bond'[b] = bond[b]
            \/ /\ bond'[b] # "none" /\ DocumentsComplete(b)
               /\ Status(b)' \in Completed /\ Class(b) \in Classes
  BY <1>1, <1>2, <1>3, <1>4, <1>5 DEF Status, Completed
<1>7. OneActivePerYear'
  BY <1>3, <1>4 DEF IInv, OneActivePerYear, Student, Class
<1>8. EnrolledHasBond'
  BY <1>1, <1>2, <1>3, <1>4, <1>5 DEF IInv, EnrolledHasBond, Status, Completed
<1>9. /\ tx' \in [Clerks -> TxType]
      /\ \A j \in Clerks : tx'[j].pc # "idle" => tx'[j] = tx[j] /\ tx[j].app \notin {a, source}
  BY <1>1, <1>2 DEF IInv, TypeOK, StudentFree
<1> QED BY <1>1, <1>3, <1>4, <1>6, <1>7, <1>8, <1>9, AcademicStep

\* transfer_from_application: the student moves from one enrollment of the year
\* to another.
LEMMA CompleteTransferStep ==
    ASSUME IInv, NEW k \in Clerks, CompleteTransfer(k)
    PROVE  IInv'
<1> DEFINE a == tx[k].app
           source == application[a].source
<1>1. /\ a \in Applications /\ tx[k].pc = "completing" /\ Class(a) \in Classes
      /\ Status(a) = "APPROVED" /\ DocumentsComplete(a)
      /\ application[a].type = "INTERNAL_TRANSFER" /\ bond[source] = "ACTIVE"
      /\ bond' = [bond EXCEPT ![a] = "ACTIVE", ![source] = "TRANSFERRED"]
      /\ application' = WithSource(a, "TRANSFERRED")
      /\ tx' = [tx EXCEPT ![k] = Idle]
      /\ UNCHANGED <<document, seats, resizes>>
  BY DEF CompleteTransfer, Moved, IInv, Orderly, Serialized
<1>2. /\ source \in Applications \ {a} /\ Student(source) = Student(a)
      /\ Status(source) \in Completed /\ Class(source) \in Classes
      /\ DocumentsComplete(source) /\ bond[a] = "none"
      /\ Year(Class(source)) = Year(Class(a))
  BY <1>1, SourceOf DEF SourceTypes
<1>3. /\ tx' \in [Clerks -> TxType]
      /\ \A j \in Clerks : tx'[j].pc # "idle" => tx'[j] = tx[j] /\ tx[j].app \notin {a, source}
  <2>1. \A b \in {a, source} : Student(b) = Student(tx[k].app)
    BY <1>2
  <2> QED BY <1>1, <2>1, OnlyTheCommitter
<1>4. /\ application' \in [Applications -> ApplicationType]
      /\ \A b \in Applications \ {a, source} : application'[b] = application[b]
      /\ \A b \in Applications : /\ application'[b].student = application[b].student
                                 /\ application'[b].class = application[b].class
                                 /\ application'[b].source = application[b].source
                                 /\ application'[b].type = application[b].type
      /\ application'[a].status = "TRANSFERRED"
      /\ Status(source) = "ENROLLED" => application'[source].status = "TRANSFERRED"
      /\ Status(source) # "ENROLLED" => application'[source].status = Status(source)
  <2> HIDE DEF a
  <2>1. PICK x \in Applications : x = a
    BY <1>1
  <2>2. Status(x) = "APPROVED" /\ application[x].source \in Applications \ {x}
    BY <1>1, <1>2, <2>1
  <2>3. application' = WithSource(x, "TRANSFERRED")
    BY <1>1, <2>1
  <2>4. Status(x)' = application'[x].status
    BY DEF Status
  <2> QED BY <2>1, <2>2, <2>3, <2>4, WithSourceWrites DEF IInv
<1> HIDE DEF a, source
<1>5. /\ bond' \in [Applications -> {"none", "ACTIVE", "TRANSFERRED", "CANCELLED"}]
      /\ bond'[source] = "TRANSFERRED" /\ bond'[a] = "ACTIVE"
      /\ \A b \in Applications \ {a, source} : bond'[b] = bond[b]
  BY <1>1, <1>2 DEF IInv, TypeOK
<1>6. /\ \A b \in Applications \ {a, source} : Status(b)' = Status(b)
      /\ application'[source].status \in Completed
  BY <1>2, <1>4 DEF Status, Completed
<1>7. /\ \A b \in Applications :
            \/ Status(b)' = Status(b)
            \/ Status(b)' \in Completed /\ Status(b) # "none"
      /\ \A b \in Applications :
            \/ bond'[b] = bond[b]
            \/ /\ bond'[b] # "none" /\ DocumentsComplete(b)
               /\ Status(b)' \in Completed /\ Class(b) \in Classes
  BY <1>1, <1>2, <1>4, <1>5, <1>6 DEF Status, Completed
<1>8. OneActivePerYear'
  <2>1. \A b \in Applications \ {source} : bond[b] = "ACTIVE" /\ Student(b) = Student(a)
            => Year(Class(b)) # Year(Class(a))
    BY <1>1, <1>2 DEF IInv, OneActivePerYear
  <2>2. \A b \in Applications : Student(b)' = Student(b) /\ Class(b)' = Class(b)
    BY <1>4 DEF Student, Class
  <2>3. \A b \in Applications : Year(Class(b))' = Year(Class(b))
    BY <2>2 DEF Year
  <2>4. \A b \in Applications : bond'[b] = "ACTIVE" => b # source
    BY <1>5
  <2> QED BY <1>1, <1>5, <2>1, <2>2, <2>3, <2>4 DEF IInv, OneActivePerYear
<1>9. EnrolledHasBond'
  BY <1>1, <1>2, <1>4, <1>5, <1>6 DEF IInv, EnrolledHasBond, Status, Completed
<1> QED BY <1>1, <1>3, <1>4, <1>5, <1>7, <1>8, <1>9, AcademicStep

-------------------------------------------------------------------------------
(* Steps beside the applications.                                          *)

\* Steps that leave applications, enrollments and transactions alone keep the
\* invariant when they keep a complete checklist complete.
LEMMA AsideStep ==
    ASSUME IInv, UNCHANGED <<application, bond, tx>>,
           document' \in [Applications -> [Documents -> DocumentStatuses \cup {"none"}]],
           seats' \in [Classes -> 0 .. MaxSeats], resizes' \in 0 .. MaxResizes,
           \A b \in Applications : DocumentsComplete(b) => DocumentsComplete(b)'
    PROVE  IInv'
<1> USE DEF IInv, Orderly
<1>1. TypeOK'
  BY DEF TypeOK, Status, Class
<1>2. OneOpenPerYear' /\ OneActivePerYear' /\ EnrolledHasBond' /\ EnrollmentHasDocuments'
  BY DEF OneOpenPerYear, OneActivePerYear, EnrolledHasBond, EnrollmentHasDocuments, Status, Student,
         Class, ApplicationYear
<1>3. \A b \in Applications : Rooted(b)' /\ BoundWhenCompleted(b)'
  BY DEF Rooted, BoundWhenCompleted, Status, Student, Class
<1>4. \A j \in Clerks : Serialized(j)'
  <2> DEFINE W == {}
  <2>1. \A b \in Applications \ W : application'[b] = application[b]
    OBVIOUS
  <2>2. \A j \in Clerks : tx'[j].pc # "idle" => tx'[j] = tx[j] /\ tx[j].app \notin W
    OBVIOUS
  <2>3. \A b \in Applications \ W : DocumentsComplete(b) => DocumentsComplete(b)'
    OBVIOUS
  <2> HIDE DEF W, IInv, Orderly
  <2> QED BY <2>1, <2>2, <2>3, SerializedAfter
<1> QED BY <1>1, <1>2, <1>3, <1>4

\* A document is written while the checklist it belongs to is incomplete.
LEMMA ChecklistStep ==
    ASSUME IInv, NEW a \in Applications, NEW d \in Documents, Checklist(a, d)
    PROVE  IInv'
<1>1. PICK status \in DocumentStatuses : SetDocument(a, d, status)
  BY DEF Checklist, RecordDelivery, VerifyDocument, RejectDocument, WaiveDocument, DocumentStatuses
<1>2. ~DocumentsComplete(a)
  BY DEF Checklist, RecordDelivery, VerifyDocument, RejectDocument, WaiveDocument, Deliverable,
         DocumentsComplete, Concluded
<1>3. /\ document' = [document EXCEPT ![a][d] = status]
      /\ UNCHANGED <<application, bond, seats, tx, resizes>>
  BY <1>1 DEF SetDocument
<1>4. /\ document' \in [Applications -> [Documents -> DocumentStatuses \cup {"none"}]]
      /\ \A b \in Applications \ {a} : document'[b] = document[b]
  BY <1>3 DEF IInv, TypeOK
<1>5. \A b \in Applications : DocumentsComplete(b) => DocumentsComplete(b)'
  BY <1>2, <1>4 DEF DocumentsComplete
<1>6. seats' \in [Classes -> 0 .. MaxSeats] /\ resizes' \in 0 .. MaxResizes
  BY <1>3 DEF IInv, TypeOK
<1> QED BY <1>3, <1>4, <1>5, <1>6, AsideStep

LEMMA ResizeClassStep ==
    ASSUME IInv, NEW c \in Classes, NEW n \in 0 .. MaxSeats, ResizeClass(c, n)
    PROVE  IInv'
<1>1. seats' \in [Classes -> 0 .. MaxSeats] /\ resizes' \in 0 .. MaxResizes
  BY EnrollmentsAssumption DEF ResizeClass, IInv, TypeOK
<1>2. \A b \in Applications : DocumentsComplete(b) => DocumentsComplete(b)'
  BY DEF ResizeClass, DocumentsComplete
<1> QED BY <1>1, <1>2, AsideStep DEF ResizeClass, IInv, TypeOK

LEMMA IInvStep == IInv /\ [Next]_vars => IInv'
<1> SUFFICES ASSUME IInv, [Next]_vars PROVE IInv'
  OBVIOUS
<1>1. ASSUME NEW a \in Applications, Edit(a)
      PROVE  IInv'
  <2>1. CASE \E type \in Types, s \in Students, c \in Classes \cup {None},
                source \in Applications \cup {None} : CreateApplication(a, type, s, c, source)
    BY <2>1, CreateStep
  <2>2. CASE \E c \in Classes \cup {None}, source \in Applications \cup {None} :
                CorrectApplication(a, c, source)
    BY <2>2, CorrectStep
  <2>3. CASE \/ SubmitApplication(a) \/ RequestCorrection(a) \/ RejectApplication(a)
             \/ (CancelApplication(a) /\ Status(a) # "ENROLLED")
    BY <2>3, MoveStep
  <2>4. CASE CancelApplication(a) /\ Status(a) = "ENROLLED"
    BY <2>4, CancelEnrolledStep
  <2>5. CASE FinalizeOutbound(a)
    BY <2>5, FinalizeOutboundStep
  <2> QED BY <1>1, <2>1, <2>2, <2>3, <2>4, <2>5 DEF Edit
<1>2. ASSUME NEW a \in Applications, NEW d \in Documents, Checklist(a, d)
      PROVE  IInv'
  BY <1>2, ChecklistStep
<1>3. ASSUME NEW k \in Clerks, Transact(k)
      PROVE  IInv'
  <2>1. CASE \E a \in Applications : BeginApproval(k, a)
    BY <2>1, BeginApprovalStep
  <2>2. CASE \E a \in Applications : BeginFinalize(k, a)
    BY <2>2, BeginFinalizeStep
  <2>3. CASE LockClass(k)
    BY <2>3, LockClassStep
  <2>4. CASE CountEnrolled(k)
    BY <2>4, CountEnrolledStep
  <2>5. CASE DecideApproval(k)
    BY <2>5, DecideApprovalStep
  <2>6. CASE CompleteEnrollment(k)
    BY <2>6, CompleteEnrollmentStep
  <2>7. CASE CompleteTransfer(k)
    BY <2>7, CompleteTransferStep
  <2>8. CASE Rollback(k)
    BY <2>8, RollbackStep
  <2> QED BY <1>3, <2>1, <2>2, <2>3, <2>4, <2>5, <2>6, <2>7, <2>8 DEF Transact
<1>4. ASSUME NEW c \in Classes, NEW n \in 0 .. MaxSeats, ResizeClass(c, n)
      PROVE  IInv'
  BY <1>4, ResizeClassStep
<1>5. CASE UNCHANGED vars
  <2>1. UNCHANGED <<application, bond, document, seats, tx, resizes>>
    BY <1>5 DEF vars
  <2>2. \A b \in Applications : DocumentsComplete(b) => DocumentsComplete(b)'
    BY <2>1 DEF DocumentsComplete
  <2> QED BY <2>1, <2>2, AsideStep DEF IInv, TypeOK
<1> QED BY <1>1, <1>2, <1>3, <1>4, <1>5 DEF Next

-------------------------------------------------------------------------------
(* Seats.                                                                  *)

SInv == IInv /\ Seated

\* A seat is taken only while the class has one: SeatsNotOversold, of one step.
SeatTaken == \A c \in Classes : Occupied(c)' > Occupied(c) => Occupied(c)' <= seats'[c]

\* No application takes a seat in this step, nor passes one to another class.
Quiet ==
    \A a \in Applications :
        /\ bond'[a] = "ACTIVE" => bond[a] = "ACTIVE" /\ Class(a)' = Class(a)
        /\ Status(a)' = "APPROVED" =>
              \/ Class(a)' = None
              \/ Status(a) = "APPROVED" /\ Class(a)' = Class(a)

\* And after a step.
LEMMA CountsAreNumbersNext ==
    \A c : /\ IsFiniteSet(ActiveIn(c)') /\ IsFiniteSet(ReservedIn(c)')
           /\ Cardinality(ActiveIn(c)') \in Nat /\ Cardinality(ReservedIn(c)') \in Nat
           /\ Occupied(c)' = Cardinality(ActiveIn(c)') + Cardinality(ReservedIn(c)')
<1> SUFFICES ASSUME NEW c
             PROVE  /\ IsFiniteSet(ActiveIn(c)') /\ IsFiniteSet(ReservedIn(c)')
                    /\ Cardinality(ActiveIn(c)') \in Nat /\ Cardinality(ReservedIn(c)') \in Nat
  BY DEF Occupied
<1>1. ActiveIn(c)' \subseteq Applications /\ ReservedIn(c)' \subseteq Applications
  BY DEF ActiveIn, ReservedIn
<1>2. IsFiniteSet(ActiveIn(c)') /\ IsFiniteSet(ReservedIn(c)')
  BY <1>1, EnrollmentsAssumption, FS_Subset
<1> QED BY <1>2, FS_CardinalityType

LEMMA QuietCounts ==
    ASSUME Quiet, NEW c \in Classes
    PROVE  /\ Cardinality(ActiveIn(c)') <= Cardinality(ActiveIn(c))
           /\ Occupied(c)' <= Occupied(c)
<1>1. ActiveIn(c)' \subseteq ActiveIn(c)
  BY DEF Quiet, ActiveIn
<1>2. ReservedIn(c)' \subseteq ReservedIn(c)
  <2>1. c # None
    BY EnrollmentsAssumption
  <2> QED BY <2>1 DEF Quiet, ReservedIn
<1>3. /\ Cardinality(ActiveIn(c)') <= Cardinality(ActiveIn(c))
      /\ Cardinality(ReservedIn(c)') <= Cardinality(ReservedIn(c))
  BY <1>1, <1>2, CountsAreNumbers, FS_Subset
<1> QED BY <1>3, CountsAreNumbers, CountsAreNumbersNext

\* What keeps the seats, whatever the step.
LEMMA SeatsKeptStep ==
    ASSUME SInv, IInv', SeatTaken, seats' = seats, resizes' = resizes
    PROVE  SeatsKept'
<1> SUFFICES ASSUME resizes = 0, NEW c \in Classes
             PROVE  Occupied(c)' <= seats[c]
  BY DEF SeatsKept
<1>1. Occupied(c) <= seats[c]
  BY DEF SInv, Seated, SeatsKept
<1>2. seats[c] \in Nat
  BY EnrollmentsAssumption DEF SInv, IInv, TypeOK
<1>3. Occupied(c) \in Nat /\ Occupied(c)' \in Nat
  BY CountsAreNumbers, CountsAreNumbersNext
<1>4. CASE Occupied(c)' > Occupied(c)
  BY <1>4 DEF SeatTaken
<1>5. CASE ~(Occupied(c)' > Occupied(c))
  BY <1>1, <1>2, <1>3, <1>5
<1> QED BY <1>4, <1>5

\* Transactions left as they are, or ended, still hold what they held when no
\* class they have counted gains an enrollment.
LEMMA HeldAfter ==
    ASSUME SInv, NEW k \in Clerks,
           tx'[k] = Idle \/ (/\ tx'[k] = tx[k]
                             /\ tx[k].pc # "idle" => Class(tx[k].app)' = Class(tx[k].app)
                             /\ tx[k].pc = "counted" =>
                                   Cardinality(ActiveIn(tx[k].holds)') <= Cardinality(ActiveIn(tx[k].holds))),
           \A j \in Clerks : tx'[j].holds \in {None, tx[j].holds}
    PROVE  ClassHeld(k)'
<1>1. CASE tx'[k] = Idle
  BY <1>1 DEF ClassHeld, Idle
<1>2. CASE tx'[k] # Idle
  <2>1. ClassHeld(k)
    BY DEF SInv, Seated
  <2>2. tx[k].holds # None => \A j \in Clerks \ {k} : tx'[j].holds # tx[k].holds
    BY <2>1 DEF ClassHeld
  <2>3. tx[k].pc = "counted" => /\ tx[k].holds # None
                                /\ Cardinality(ActiveIn(tx[k].holds)') <= tx[k].enrolled
    <3>1. tx[k].enrolled \in Nat
      BY DEF SInv, IInv, TypeOK, TxType
    <3> QED BY <1>2, <2>1, <3>1, CountsAreNumbers, CountsAreNumbersNext DEF ClassHeld
  <2>4. tx'[k] = tx[k] /\ (tx[k].holds # None => Class(tx[k].app)' = Class(tx[k].app))
    BY <1>2, <2>1 DEF ClassHeld
  <2> QED BY <2>1, <2>2, <2>3, <2>4 DEF ClassHeld
<1> QED BY <1>1, <1>2
-------------------------------------------------------------------------------
(* Steps that take no seat.                                                *)

\* Such a step of the workflow, beside the transactions in progress or at the
\* end of one.
LEMMA QuietStep ==
    ASSUME SInv, IInv', Quiet, UNCHANGED <<seats, resizes>>,
           \A j \in Clerks : \/ tx'[j] = Idle
                             \/ /\ tx'[j] = tx[j]
                                /\ tx[j].pc # "idle" => Class(tx[j].app)' = Class(tx[j].app)
    PROVE  SInv' /\ SeatTaken
<1>1. SeatTaken
  BY QuietCounts, CountsAreNumbers, CountsAreNumbersNext DEF SeatTaken
<1>2. ASSUME NEW k \in Clerks
      PROVE  ClassHeld(k)'
  <2>1. \A j \in Clerks : tx'[j].holds \in {None, tx[j].holds}
    BY DEF Idle
  <2>2. ASSUME tx'[k] = tx[k], tx[k].pc = "counted"
        PROVE  Cardinality(ActiveIn(tx[k].holds)') <= Cardinality(ActiveIn(tx[k].holds))
    <3>1. tx[k].holds \in Classes
      BY <2>2 DEF SInv, Seated, ClassHeld, IInv, TypeOK, TxType
    <3> QED BY <2>2, <3>1, QuietCounts
  <2> QED BY <2>1, <2>2, HeldAfter
<1>3. SeatsKept'
  BY <1>1, SeatsKeptStep
<1> QED BY <1>1, <1>2, <1>3 DEF SInv, Seated

\* A row written with another status than APPROVED, that no transaction in
\* progress is about.
LEMMA RowQuiet ==
    ASSUME SInv, NEW a \in Applications, NEW row, UNCHANGED bond,
           application' = [application EXCEPT ![a] = row], row.status # "APPROVED",
           bond[a] = "ACTIVE" => row.class = Class(a)
    PROVE  Quiet
<1>1. /\ application'[a] = row
      /\ \A b \in Applications \ {a} : application'[b] = application[b]
  BY DEF SInv, IInv, TypeOK
<1> QED BY <1>1 DEF Quiet, Status, Class

LEMMA EditSeats ==
    ASSUME SInv, IInv', NEW a \in Applications, Edit(a)
    PROVE  SInv' /\ SeatTaken
<1>1. UNCHANGED <<seats, resizes, tx>>
  BY DEF Edit, CreateApplication, CorrectApplication, SubmitApplication, RequestCorrection,
         RejectApplication, CancelApplication, FinalizeOutbound
<1>2. ASSUME NEW j \in Clerks, tx[j].pc # "idle"
      PROVE  /\ tx[j].app \in Applications /\ Status(tx[j].app) # "none"
             /\ StudentFree(Student(a)) => tx[j].app # a
  BY <1>2 DEF SInv, IInv, Orderly, Serialized, StudentFree, TypeOK, TxType
<1>3. CASE \E type \in Types, s \in Students, c \in Classes \cup {None},
              source \in Applications \cup {None} : CreateApplication(a, type, s, c, source)
  <2> DEFINE new(type, s, c, source) ==
              [status |-> "PRE_ENROLLMENT", type |-> type, student |-> s,
               class |-> c, source |-> source]
  <2>1. PICK row : /\ application' = [application EXCEPT ![a] = row]
                   /\ row.status # "APPROVED"
    <3>1. PICK type, s, c, source :
              application' = [application EXCEPT ![a] = new(type, s, c, source)]
      BY <1>3 DEF CreateApplication
    <3>2. new(type, s, c, source).status # "APPROVED"
      OBVIOUS
    <3> HIDE DEF new
    <3> QED BY <3>1, <3>2
  <2>2. Status(a) = "none" /\ UNCHANGED bond /\ bond[a] = "none"
    BY <1>3 DEF CreateApplication, SInv, IInv, Orderly, BoundWhenCompleted
  <2>3. Quiet
    BY <2>1, <2>2, RowQuiet
  <2>4. \A b \in Applications \ {a} : Class(b)' = Class(b)
    BY <2>1 DEF SInv, IInv, TypeOK, Class
  <2> QED BY <1>1, <1>2, <2>2, <2>3, <2>4, QuietStep
<1>4. CASE \E c \in Classes \cup {None}, source \in Applications \cup {None} :
              CorrectApplication(a, c, source)
  <2>1. PICK row : /\ application' = [application EXCEPT ![a] = row]
                   /\ row.status = Status(a)
    <3> DEFINE corrected(c, source) == [application[a] EXCEPT !.class = c, !.source = source]
    <3>1. PICK c, source : application' = [application EXCEPT ![a] = corrected(c, source)]
      BY <1>4 DEF CorrectApplication
    <3>2. corrected(c, source).status = Status(a)
      BY RowType DEF Status, SInv, IInv, ApplicationType
    <3> HIDE DEF corrected
    <3> QED BY <3>1, <3>2
  <2>2. /\ Status(a) \in {"PRE_ENROLLMENT", "CORRECTION_REQUIRED"} /\ UNCHANGED bond
        /\ bond[a] = "none" /\ StudentFree(Student(a))
    BY <1>4 DEF CorrectApplication, SInv, IInv, Orderly, BoundWhenCompleted
  <2>3. Quiet
    BY <2>1, <2>2, RowQuiet
  <2>4. \A b \in Applications \ {a} : Class(b)' = Class(b)
    BY <2>1 DEF SInv, IInv, TypeOK, Class
  <2> QED BY <1>1, <1>2, <2>2, <2>3, <2>4, QuietStep
<1>5. CASE SubmitApplication(a) \/ RequestCorrection(a) \/ RejectApplication(a) \/ CancelApplication(a)
  <2>1. PICK status : /\ application' = [application EXCEPT ![a].status = status]
                      /\ status # "APPROVED"
    BY <1>5 DEF SubmitApplication, RequestCorrection, RejectApplication, CancelApplication, SetStatus
  <2>2. bond' = bond \/ bond' = [bond EXCEPT ![a] = "CANCELLED"]
    BY <1>5 DEF SubmitApplication, RequestCorrection, RejectApplication, CancelApplication
  <2>3. /\ Status(a)' = status
        /\ \A b \in Applications \ {a} : application'[b] = application[b]
        /\ \A b \in Applications : Class(b)' = Class(b)
    <3>1. application \in [Applications -> ApplicationType] /\ application[a] \in ApplicationType
      BY DEF SInv, IInv, TypeOK
    <3> QED BY <2>1, <3>1 DEF Status, Class, ApplicationType
  <2>4. Quiet
    BY <2>1, <2>2, <2>3 DEF Quiet, Status, SInv, IInv, TypeOK
  <2> QED BY <1>1, <1>2, <2>3, <2>4, QuietStep
<1>6. CASE FinalizeOutbound(a)
  <2> DEFINE source == application[a].source
  <2>1. /\ Status(a) = "APPROVED" /\ application[a].type = "OUTBOUND_TRANSFER"
        /\ bond' = [bond EXCEPT ![source] = "TRANSFERRED"]
        /\ application' = WithSource(a, "TRANSFERRED")
    BY <1>6 DEF FinalizeOutbound
  <2>2. source \in Applications \ {a}
    BY <2>1, SourceOf DEF SourceTypes, SInv
  <2>3. /\ \A b \in Applications \ {a, source} : application'[b] = application[b]
        /\ \A b \in Applications : application'[b].class = application[b].class
        /\ Status(a)' = "TRANSFERRED"
        /\ Status(source) = "ENROLLED" => application'[source].status = "TRANSFERRED"
        /\ Status(source) # "ENROLLED" => application'[source].status = Status(source)
    BY <2>1, <2>2, WithSourceWrites DEF SInv, IInv
  <2> HIDE DEF source
  <2>4. Quiet
    BY <2>1, <2>2, <2>3 DEF Quiet, Status, Class, SInv, IInv, TypeOK
  <2>5. \A b \in Applications : Class(b)' = Class(b)
    BY <2>3 DEF Class
  <2> QED BY <1>1, <1>2, <2>4, <2>5, QuietStep
<1> QED BY <1>3, <1>4, <1>5, <1>6 DEF Edit
-------------------------------------------------------------------------------
(* Steps of the transactions.                                              *)

\* A step of one transaction that writes no row.
LEMMA TxSeats ==
    ASSUME SInv, IInv', NEW k \in Clerks, ClassHeld(k)',
           \A j \in Clerks \ {k} : tx'[j] = tx[j],
           UNCHANGED <<application, bond, seats, resizes>>
    PROVE  SInv' /\ SeatTaken
<1>1. \A c : ActiveIn(c)' = ActiveIn(c) /\ Occupied(c)' = Occupied(c)
  BY DEF ActiveIn, ReservedIn, Occupied, Status, Class
<1>2. SeatTaken
  BY <1>1, CountsAreNumbers DEF SeatTaken
<1>3. ASSUME NEW j \in Clerks \ {k}
      PROVE  ClassHeld(j)'
  <2>1. ClassHeld(j) /\ tx'[j] = tx[j]
    BY DEF SInv, Seated
  <2>2. tx[j].holds # None => \A i \in Clerks \ {j} : tx'[i].holds # tx[j].holds
    BY <2>1 DEF ClassHeld
  <2>3. (ActiveIn(tx[j].holds))' = ActiveIn(tx[j].holds)
    BY <2>1 DEF ActiveIn, Class
  <2> QED BY <2>1, <2>2, <2>3 DEF ClassHeld, Class
<1>4. SeatsKept'
  BY <1>2, SeatsKeptStep
<1> QED BY <1>2, <1>3, <1>4 DEF SInv, Seated

LEMMA BeginApprovalSeats ==
    ASSUME SInv, IInv', NEW k \in Clerks, NEW a \in Applications, BeginApproval(k, a)
    PROVE  SInv' /\ SeatTaken
<1>1. CASE Class(a) = None
  <2>1. /\ application' = [application EXCEPT ![a].status = "APPROVED"]
        /\ UNCHANGED <<bond, seats, tx, resizes>>
    BY <1>1 DEF BeginApproval, SetStatus
  <2>2. /\ \A b \in Applications : Class(b)' = Class(b)
        /\ \A b \in Applications \ {a} : Status(b)' = Status(b)
    <3>1. application \in [Applications -> ApplicationType] /\ application[a] \in ApplicationType
      BY DEF SInv, IInv, TypeOK
    <3> QED BY <2>1, <3>1 DEF Status, Class, ApplicationType
  <2>3. Quiet
    BY <1>1, <2>1, <2>2 DEF Quiet
  <2>4. \A j \in Clerks : tx[j].pc # "idle" => tx[j].app \in Applications
    BY DEF SInv, IInv, Orderly, Serialized
  <2> QED BY <2>1, <2>2, <2>3, <2>4, QuietStep
<1>2. CASE Class(a) # None
  <2>1. /\ tx' = [tx EXCEPT ![k] = [Idle EXCEPT !.pc = "approving", !.app = a]]
        /\ UNCHANGED <<application, bond, seats, resizes>>
    BY <1>2 DEF BeginApproval
  <2>2. /\ tx'[k].pc = "approving" /\ tx'[k].holds = None
        /\ \A j \in Clerks \ {k} : tx'[j] = tx[j]
    BY <2>1 DEF Idle, SInv, IInv, TypeOK
  <2>3. ClassHeld(k)'
    BY <2>2 DEF ClassHeld
  <2> QED BY <2>1, <2>2, <2>3, TxSeats
<1> QED BY <1>1, <1>2

LEMMA BeginFinalizeSeats ==
    ASSUME SInv, IInv', NEW k \in Clerks, NEW a \in Applications, BeginFinalize(k, a)
    PROVE  SInv' /\ SeatTaken
<1>1. /\ tx' = [tx EXCEPT ![k] = [Idle EXCEPT !.pc = "completing", !.app = a]]
      /\ UNCHANGED <<application, bond, seats, resizes>>
  BY DEF BeginFinalize
<1>2. /\ tx'[k].pc = "completing" /\ tx'[k].holds = None
      /\ \A j \in Clerks \ {k} : tx'[j] = tx[j]
  BY <1>1 DEF Idle, SInv, IInv, TypeOK
<1>3. ClassHeld(k)'
  BY <1>2 DEF ClassHeld
<1> QED BY <1>1, <1>2, <1>3, TxSeats

LEMMA LockClassSeats ==
    ASSUME SInv, IInv', NEW k \in Clerks, LockClass(k)
    PROVE  SInv' /\ SeatTaken
<1> DEFINE c == Class(tx[k].app)
<1>1. /\ tx[k].pc \in {"approving", "completing"} /\ ClassFree(c)
      /\ tx' = [tx EXCEPT ![k].holds = c]
      /\ UNCHANGED <<application, bond, seats, resizes>>
  BY DEF LockClass, Lockable
<1>2. tx \in [Clerks -> TxType] /\ tx[k] \in TxType
  BY DEF SInv, IInv, TypeOK
<1>3. /\ tx'[k].pc = tx[k].pc /\ tx'[k].app = tx[k].app /\ tx'[k].holds = c
      /\ \A j \in Clerks \ {k} : tx'[j] = tx[j]
  BY <1>1, <1>2 DEF TxType
<1>4. Class(tx[k].app)' = c
  BY <1>1, <1>3 DEF Class
<1>5. ClassHeld(k)'
  BY <1>1, <1>3, <1>4 DEF ClassHeld, ClassFree
<1> QED BY <1>1, <1>3, <1>5, TxSeats

LEMMA CountEnrolledSeats ==
    ASSUME SInv, IInv', NEW k \in Clerks, CountEnrolled(k)
    PROVE  SInv' /\ SeatTaken
<1>0. PICK count \in Nat : count = Cardinality(ActiveIn(tx[k].holds))
  BY CountsAreNumbers
<1>1. /\ tx[k].pc = "approving" /\ tx[k].holds # None
      /\ tx' = [tx EXCEPT ![k].pc = "counted", ![k].enrolled = count]
      /\ UNCHANGED <<application, bond, seats, resizes>>
  BY <1>0 DEF CountEnrolled
<1>2. tx \in [Clerks -> TxType] /\ tx[k] \in TxType
  BY DEF SInv, IInv, TypeOK
<1>3. /\ tx'[k].pc = "counted" /\ tx'[k].app = tx[k].app /\ tx'[k].holds = tx[k].holds
      /\ tx'[k].enrolled = count
      /\ \A j \in Clerks \ {k} : tx'[j] = tx[j]
  BY <1>1, <1>2 DEF TxType
<1>4. ClassHeld(k)
  BY DEF SInv, Seated
<1>5. (ActiveIn(tx[k].holds))' = ActiveIn(tx[k].holds)
  BY <1>1, <1>3 DEF ActiveIn, Class
<1>6. Cardinality(ActiveIn(tx[k].holds))' = count
  BY <1>0, <1>5
<1>7. ClassHeld(k)'
  <2>1. Class(tx[k].app)' = Class(tx[k].app)
    BY <1>1, <1>3 DEF Class
  <2>2. (tx[k].holds = Class(tx[k].app))' /\ \A j \in Clerks \ {k} : tx'[j].holds # tx'[k].holds
    BY <1>1, <1>3, <1>4, <2>1 DEF ClassHeld
  <2>3. (Cardinality(ActiveIn(tx[k].holds)) <= tx[k].enrolled)'
    BY <1>3, <1>6
  <2> QED BY <1>1, <1>3, <2>2, <2>3 DEF ClassHeld
<1> QED BY <1>1, <1>3, <1>7, TxSeats

LEMMA RollbackSeats ==
    ASSUME SInv, IInv', NEW k \in Clerks, Rollback(k)
    PROVE  SInv' /\ SeatTaken
<1>1. /\ tx'[k] = Idle /\ \A j \in Clerks \ {k} : tx'[j] = tx[j]
      /\ UNCHANGED <<application, bond, seats, resizes>>
  BY DEF Rollback, SInv, IInv, TypeOK
<1>2. Quiet /\ \A b : Class(b)' = Class(b)
  BY <1>1 DEF Quiet, Status, Class
<1> QED BY <1>1, <1>2, QuietStep

\* A class with a seat left gives it to the application, whose own reservation
\* does not count against it.
LEMMA DecideApprovalSeats ==
    ASSUME SInv, IInv', NEW k \in Clerks, DecideApproval(k)
    PROVE  SInv' /\ SeatTaken
<1>0. PICK a, c : a = tx[k].app /\ c = tx[k].holds
  OBVIOUS
<1>1. /\ a \in Applications /\ c = Class(a) /\ c \in Classes
      /\ Cardinality(ActiveIn(c)) <= tx[k].enrolled /\ tx[k].enrolled \in Nat
      /\ seats[c] \in Nat
  BY <1>0, EnrollmentsAssumption
     DEF DecideApproval, SInv, Seated, ClassHeld, IInv, Orderly, Serialized, TypeOK, TxType
<1>2. PICK status : /\ status \in {"WAITLISTED", "APPROVED"}
                    /\ Full(k) <=> status = "WAITLISTED"
                    /\ application' = [application EXCEPT ![a].status = status]
  BY <1>0 DEF DecideApproval
<1>3. /\ tx'[k] = Idle /\ \A j \in Clerks \ {k} : tx'[j] = tx[j]
      /\ UNCHANGED <<bond, seats, resizes>>
  BY DEF DecideApproval, SInv, IInv, TypeOK
<1>4. /\ Status(a)' = status
      /\ \A b \in Applications \ {a} : Status(b)' = Status(b)
      /\ \A b \in Applications : Class(b)' = Class(b)
  <2>1. application \in [Applications -> ApplicationType] /\ application[a] \in ApplicationType
    BY <1>1 DEF SInv, IInv, TypeOK
  <2>2. application'[a].status = status /\ application'[a].class = application[a].class
    BY <1>1, <1>2, <2>1 DEF ApplicationType
  <2>3. \A b \in Applications \ {a} : application'[b] = application[b]
    BY <1>2, <2>1
  <2> QED BY <2>2, <2>3 DEF Status, Class
<1>5. \A j \in Clerks : tx[j].pc # "idle" => tx[j].app \in Applications
  BY DEF SInv, IInv, Orderly, Serialized
<1>6. CASE status = "WAITLISTED"
  <2>1. Quiet
    BY <1>3, <1>4, <1>6 DEF Quiet
  <2> QED BY <1>3, <1>4, <1>5, <2>1, QuietStep
<1>7. CASE status = "APPROVED"
  <2>1. \A d : ActiveIn(d)' = ActiveIn(d)
    BY <1>3, <1>4 DEF ActiveIn
  <2>2. \A d : d # c => ReservedIn(d)' = ReservedIn(d)
    BY <1>1, <1>4 DEF ReservedIn
  <2>3. ReservedIn(c)' = (ReservedIn(c) \ {a}) \cup {a}
    BY <1>1, <1>4, <1>7 DEF ReservedIn
  <2>4. /\ Cardinality(ReservedIn(c)') = Cardinality(ReservedIn(c) \ {a}) + 1
        /\ Cardinality(ReservedIn(c) \ {a}) \in Nat
    <3>1. IsFiniteSet(ReservedIn(c) \ {a})
      BY CountsAreNumbers, FS_Subset
    <3> QED BY <2>3, <3>1, FS_AddElement, FS_CardinalityType
  <2>5. tx[k].enrolled + Cardinality(ReservedIn(c) \ {a}) < seats[c]
    BY <1>0, <1>1, <1>2, <1>7, <2>4 DEF Full, ReservedIn
  <2>6. Occupied(c)' <= seats'[c]
    BY <1>1, <1>3, <2>1, <2>4, <2>5, CountsAreNumbers, CountsAreNumbersNext
  <2>7. \A d \in Classes : d # c => Occupied(d)' = Occupied(d)
    BY <2>1, <2>2 DEF Occupied
  <2>8. SeatTaken
    <3> SUFFICES ASSUME NEW d \in Classes, Occupied(d)' > Occupied(d)
                 PROVE  Occupied(d)' <= seats'[d]
      BY DEF SeatTaken
    <3> QED BY <2>6, <2>7, CountsAreNumbers
  <2>9. ASSUME NEW j \in Clerks
        PROVE  ClassHeld(j)'
    <3>1. \A i \in Clerks : tx'[i].holds \in {None, tx[i].holds}
      BY <1>3 DEF Idle
    <3>2. \A d : Cardinality(ActiveIn(d)') <= Cardinality(ActiveIn(d))
      BY <2>1, CountsAreNumbers
    <3> QED BY <1>3, <1>4, <1>5, <3>1, <3>2, HeldAfter
  <2> QED BY <1>3, <2>8, <2>9, SeatsKeptStep DEF SInv, Seated
<1> QED BY <1>2, <1>6, <1>7

\* The enrollment takes the seat its application had reserved.
LEMMA SeatPassedOn ==
    ASSUME SInv, IInv', NEW k \in Clerks, NEW a \in Applications,
           tx[k].holds = Class(a), Class(a) \in Classes,
           Status(a) = "APPROVED", Status(a)' # "APPROVED", bond[a] = "none",
           \A b \in Applications \ {a} :
               /\ bond'[b] = "ACTIVE" => bond[b] = "ACTIVE"
               /\ Status(b)' = "APPROVED" => Status(b) = "APPROVED",
           \A b \in Applications : Class(b)' = Class(b),
           tx' = [tx EXCEPT ![k] = Idle], UNCHANGED <<seats, resizes>>
    PROVE  SInv' /\ SeatTaken
<1>1. \A d \in Classes : d # Class(a) => ActiveIn(d)' \subseteq ActiveIn(d)
  BY DEF ActiveIn
<1>2. \A d \in Classes : ReservedIn(d)' \subseteq ReservedIn(d) \ {a}
  BY DEF ReservedIn
<1>3. /\ ActiveIn(Class(a))' \subseteq ActiveIn(Class(a)) \cup {a}
      /\ a \in ReservedIn(Class(a)) /\ a \notin ActiveIn(Class(a))
  BY DEF ActiveIn, ReservedIn
<1>4. ASSUME NEW d \in Classes
      PROVE  Occupied(d)' <= Occupied(d)
  <2>1. CASE d # Class(a)
    <3>1. ActiveIn(d)' \subseteq ActiveIn(d) /\ ReservedIn(d)' \subseteq ReservedIn(d)
      BY <1>1, <1>2, <2>1
    <3>2. /\ Cardinality(ActiveIn(d)') <= Cardinality(ActiveIn(d))
          /\ Cardinality(ReservedIn(d)') <= Cardinality(ReservedIn(d))
      BY <3>1, CountsAreNumbers, FS_Subset
    <3> QED BY <3>2, CountsAreNumbers, CountsAreNumbersNext
  <2>2. CASE d = Class(a)
    <3> DEFINE active == ActiveIn(Class(a))
               reserved == ReservedIn(Class(a))
    <3>1. /\ Cardinality(active \cup {a}) = Cardinality(active) + 1 /\ IsFiniteSet(active \cup {a})
      BY <1>3, CountsAreNumbers, FS_AddElement
    <3>2. /\ Cardinality(reserved \ {a}) = Cardinality(reserved) - 1
          /\ IsFiniteSet(reserved \ {a})
      BY <1>3, CountsAreNumbers, FS_RemoveElement
    <3>3. /\ d = Class(a) /\ ActiveIn(d)' \subseteq active \cup {a}
          /\ ReservedIn(d)' \subseteq reserved \ {a}
      <4>1. Class(a)' = d
        BY <2>2
      <4>2. ActiveIn(Class(a))' = ActiveIn(d)'
        BY <4>1 DEF ActiveIn
      <4> QED BY <1>2, <1>3, <2>2, <4>2
    <3>4. /\ Cardinality(ActiveIn(d)') <= Cardinality(active \cup {a})
          /\ Cardinality(ReservedIn(d)') <= Cardinality(reserved \ {a})
      BY <3>1, <3>2, <3>3, FS_Subset
    <3>5. /\ Cardinality(active) = Cardinality(ActiveIn(d)) /\ Cardinality(active) \in Nat
          /\ Cardinality(reserved) = Cardinality(ReservedIn(d)) /\ Cardinality(reserved) \in Nat
      BY <2>2, CountsAreNumbers
    <3> HIDE DEF active, reserved
    <3> QED BY <3>1, <3>2, <3>4, <3>5, CountsAreNumbers, CountsAreNumbersNext
  <2> QED BY <2>1, <2>2
<1>5. SeatTaken
  BY <1>4, CountsAreNumbers, CountsAreNumbersNext DEF SeatTaken
<1>6. tx'[k] = Idle /\ \A j \in Clerks \ {k} : tx'[j] = tx[j]
  BY DEF SInv, IInv, TypeOK
<1>7. ASSUME NEW j \in Clerks
      PROVE  ClassHeld(j)'
  <2>1. \A i \in Clerks : tx'[i].holds \in {None, tx[i].holds}
    BY <1>6 DEF Idle
  <2>2. ASSUME j # k, tx'[j] = tx[j], tx[j].pc = "counted"
        PROVE  Cardinality(ActiveIn(tx[j].holds)') <= Cardinality(ActiveIn(tx[j].holds))
    <3>1. tx[j].holds \in Classes /\ tx[j].holds # Class(a)
      BY <2>2 DEF SInv, Seated, ClassHeld, IInv, TypeOK, TxType
    <3> DEFINE d == tx[j].holds
    <3>2. (ActiveIn(d))' \subseteq ActiveIn(d)
      BY <2>2, <3>1 DEF ActiveIn
    <3> HIDE DEF d
    <3>3. Cardinality(ActiveIn(d)') <= Cardinality(ActiveIn(d))
      BY <3>2, CountsAreNumbers, FS_Subset
    <3> QED BY <3>3 DEF d
  <2>3. tx[j].pc # "idle" => tx[j].app \in Applications
    BY DEF SInv, IInv, Orderly, Serialized
  <2> QED BY <1>6, <2>1, <2>2, <2>3, HeldAfter
<1> QED BY <1>5, <1>7, SeatsKeptStep DEF SInv, Seated

LEMMA CompleteEnrollmentSeats ==
    ASSUME SInv, IInv', NEW k \in Clerks, CompleteEnrollment(k)
    PROVE  SInv' /\ SeatTaken
<1>1. PICK a \in Applications : a = tx[k].app
  BY DEF CompleteEnrollment, SInv, IInv, Orderly, Serialized
<1>2. /\ Status(a) = "APPROVED" /\ Class(a) \in Classes /\ tx[k].holds = Class(a)
      /\ bond[a] = "none"
  BY <1>1 DEF CompleteEnrollment, SInv, Seated, ClassHeld, IInv, Orderly, Serialized, BoundWhenCompleted
<1>3. /\ bond' = [bond EXCEPT ![a] = "ACTIVE"]
      /\ application' = [application EXCEPT ![a].status = "ENROLLED"]
      /\ tx' = [tx EXCEPT ![k] = Idle] /\ UNCHANGED <<seats, resizes>>
  BY <1>1 DEF CompleteEnrollment, SetStatus
<1>4. /\ Status(a)' = "ENROLLED"
      /\ \A b \in Applications \ {a} : Status(b)' = Status(b)
      /\ \A b \in Applications : Class(b)' = Class(b)
  <2>1. application \in [Applications -> ApplicationType] /\ application[a] \in ApplicationType
    BY DEF SInv, IInv, TypeOK
  <2> QED BY <1>3, <2>1 DEF Status, Class, ApplicationType
<1>5. \A b \in Applications \ {a} : bond'[b] = bond[b]
  BY <1>3 DEF SInv, IInv, TypeOK
<1> QED BY <1>2, <1>3, <1>4, <1>5, SeatPassedOn

LEMMA CompleteTransferSeats ==
    ASSUME SInv, IInv', NEW k \in Clerks, CompleteTransfer(k)
    PROVE  SInv' /\ SeatTaken
<1>1. PICK a \in Applications : a = tx[k].app
  BY DEF CompleteTransfer, SInv, IInv, Orderly, Serialized
<1>2. /\ Status(a) = "APPROVED" /\ Class(a) \in Classes /\ tx[k].holds = Class(a)
      /\ bond[a] = "none"
  BY <1>1 DEF CompleteTransfer, SInv, Seated, ClassHeld, IInv, Orderly, Serialized, BoundWhenCompleted
<1>3. PICK source \in Applications \ {a} : source = application[a].source
  BY <1>1, <1>2, SourceOf DEF CompleteTransfer, SourceTypes, SInv
<1>4. /\ bond' = [bond EXCEPT ![a] = "ACTIVE", ![source] = "TRANSFERRED"]
      /\ application' = WithSource(a, "TRANSFERRED")
      /\ tx' = [tx EXCEPT ![k] = Idle] /\ UNCHANGED <<seats, resizes>>
  BY <1>1, <1>3 DEF CompleteTransfer, Moved
<1>5. /\ \A b \in Applications \ {a, source} : application'[b] = application[b]
      /\ \A b \in Applications : application'[b].class = application[b].class
      /\ Status(a)' = "TRANSFERRED"
      /\ Status(source) = "ENROLLED" => application'[source].status = "TRANSFERRED"
      /\ Status(source) # "ENROLLED" => application'[source].status = Status(source)
  BY <1>2, <1>3, <1>4, WithSourceWrites DEF SInv, IInv
<1>6. \A b \in Applications \ {a} :
          /\ bond'[b] = "ACTIVE" => bond[b] = "ACTIVE"
          /\ Status(b)' = "APPROVED" => Status(b) = "APPROVED"
  BY <1>4, <1>5 DEF Status, SInv, IInv, TypeOK
<1>7. \A b \in Applications : Class(b)' = Class(b)
  BY <1>5 DEF Class
<1>8. tx' = [tx EXCEPT ![k] = Idle] /\ UNCHANGED <<seats, resizes>> /\ Status(a)' # "APPROVED"
  BY <1>4, <1>5
<1> QED BY <1>2, <1>6, <1>7, <1>8, SeatPassedOn

-------------------------------------------------------------------------------
LEMMA SInvInit == Init => SInv
<1> SUFFICES ASSUME Init PROVE SInv
  OBVIOUS
<1>1. \A c \in Classes : ActiveIn(c) = {} /\ ReservedIn(c) = {}
  BY DEF Init, ActiveIn, ReservedIn, Status, Blank
<1>2. \A c \in Classes : Occupied(c) = 0 /\ seats[c] \in Nat
  <2> SUFFICES ASSUME NEW c \in Classes PROVE Occupied(c) = 0 /\ seats[c] \in Nat
    OBVIOUS
  <2>1. seats[c] \in 1 .. MaxSeats
    BY DEF Init
  <2>2. Cardinality({}) = 0
    BY FS_EmptySet
  <2>3. Occupied(c) = 0
    BY <1>1, <2>2 DEF Occupied
  <2> QED BY <2>1, <2>3, EnrollmentsAssumption
<1>3. Seated
  BY <1>2 DEF Init, Seated, SeatsKept, ClassHeld, Idle
<1> QED BY <1>3, IInvInit DEF SInv

LEMMA SInvStep == SInv /\ [Next]_vars => SInv' /\ SeatTaken
<1> SUFFICES ASSUME SInv, [Next]_vars PROVE SInv' /\ SeatTaken
  OBVIOUS
<1>1. IInv'
  BY IInvStep DEF SInv
<1>2. ASSUME NEW a \in Applications, Edit(a)
      PROVE  SInv' /\ SeatTaken
  BY <1>1, <1>2, EditSeats
<1>3. ASSUME NEW k \in Clerks, Transact(k)
      PROVE  SInv' /\ SeatTaken
  <2>1. CASE \E a \in Applications : BeginApproval(k, a)
    BY <1>1, <2>1, BeginApprovalSeats
  <2>2. CASE \E a \in Applications : BeginFinalize(k, a)
    BY <1>1, <2>2, BeginFinalizeSeats
  <2>3. CASE LockClass(k)
    BY <1>1, <2>3, LockClassSeats
  <2>4. CASE CountEnrolled(k)
    BY <1>1, <2>4, CountEnrolledSeats
  <2>5. CASE DecideApproval(k)
    BY <1>1, <2>5, DecideApprovalSeats
  <2>6. CASE CompleteEnrollment(k)
    BY <1>1, <2>6, CompleteEnrollmentSeats
  <2>7. CASE CompleteTransfer(k)
    BY <1>1, <2>7, CompleteTransferSeats
  <2>8. CASE Rollback(k)
    BY <1>1, <2>8, RollbackSeats
  <2> QED BY <1>3, <2>1, <2>2, <2>3, <2>4, <2>5, <2>6, <2>7, <2>8 DEF Transact
<1>4. ASSUME NEW c \in Classes, NEW n \in 0 .. MaxSeats, ResizeClass(c, n)
      PROVE  SInv' /\ SeatTaken
  <2>1. /\ UNCHANGED <<application, bond, tx>> /\ resizes' # 0
    BY <1>4 DEF ResizeClass, SInv, IInv, TypeOK
  <2>2. \A d : ActiveIn(d)' = ActiveIn(d) /\ Occupied(d)' = Occupied(d)
    BY <2>1 DEF ActiveIn, ReservedIn, Occupied, Status, Class
  <2>3. SeatTaken
    BY <2>2, CountsAreNumbers DEF SeatTaken
  <2>4. ASSUME NEW j \in Clerks
        PROVE  ClassHeld(j)'
    <3>1. \A i \in Clerks : tx'[i].holds \in {None, tx[i].holds}
      BY <2>1
    <3>2. \A d : Cardinality(ActiveIn(d)') <= Cardinality(ActiveIn(d))
      BY <2>2, CountsAreNumbers
    <3> QED BY <2>1, <3>1, <3>2, HeldAfter DEF Class
  <2> QED BY <1>1, <2>1, <2>3, <2>4 DEF SInv, Seated, SeatsKept
<1>5. CASE \/ \E a \in Applications, d \in Documents : Checklist(a, d)
           \/ UNCHANGED vars
  <2>1. UNCHANGED <<application, bond, seats, tx, resizes>>
    BY <1>5 DEF Checklist, RecordDelivery, VerifyDocument, RejectDocument, WaiveDocument, SetDocument,
       vars
  <2>2. Quiet /\ \A b : Class(b)' = Class(b)
    BY <2>1 DEF Quiet, Status, Class
  <2> QED BY <1>1, <2>1, <2>2, QuietStep
<1> QED BY <1>2, <1>3, <1>4, <1>5 DEF Next

\* An approved application counts in its class beside the enrollments there.
LEMMA ReservationLeavesSeat == SInv => ReservationHonored
<1> SUFFICES ASSUME SInv, resizes = 0, NEW a \in Applications, Status(a) = "APPROVED",
                    Class(a) # None
             PROVE  SeatLeft(Class(a))
  BY DEF ReservationHonored
<1> DEFINE c == Class(a)
<1>1. c \in Classes /\ Occupied(c) <= seats[c] /\ seats[c] \in Nat
  BY EnrollmentsAssumption
     DEF SInv, Seated, SeatsKept, IInv, TypeOK, ApplicationType, Class
<1>2. a \in ReservedIn(c)
  BY DEF ReservedIn
<1> HIDE DEF c
<1>3. Cardinality(ReservedIn(c)) # 0
  BY <1>2, CountsAreNumbers, FS_EmptySet
<1>4. Cardinality(ActiveIn(c)) < seats[c]
  BY <1>1, <1>3, CountsAreNumbers
<1> QED BY <1>4 DEF SeatLeft, c

-------------------------------------------------------------------------------
(* The workflow implements SeatBooking.                                    *)

Enrolled == {a \in Applications : bond[a] = "ACTIVE"}
Reserved == {a \in Applications : Status(a) = "APPROVED" /\ Class(a) # None}

\* The classes of the applications of E, by student.
PlacesOf(E, rows) == [s \in Students |-> {rows[a].class : a \in {b \in E : rows[b].student = s}}]

\* Students and classes of the rows stay as they are.
ContextsKept(E) == \A b \in E : /\ application'[b].student = application[b].student
                                /\ application'[b].class = application[b].class

LEMMA PlacesKept ==
    ASSUME NEW E, NEW p, NEW q,
           \A b \in E : q[b].student = p[b].student /\ q[b].class = p[b].class
    PROVE  PlacesOf(E, q) = PlacesOf(E, p)
<1> SUFFICES ASSUME NEW s \in Students
             PROVE  {q[a].class : a \in {b \in E : q[b].student = s}}
                    = {p[a].class : a \in {b \in E : p[b].student = s}}
  BY DEF PlacesOf
<1>1. {b \in E : q[b].student = s} = {b \in E : p[b].student = s}
  OBVIOUS
<1> QED BY <1>1

LEMMA PlacesGained ==
    ASSUME NEW E, NEW p, NEW a, p[a].student \in Students
    PROVE  PlacesOf(E \cup {a}, p) = [PlacesOf(E, p) EXCEPT ![p[a].student] = @ \cup {p[a].class}]
<1> SUFFICES ASSUME NEW s \in Students
             PROVE  {p[x].class : x \in {b \in E \cup {a} : p[b].student = s}}
                    = IF s = p[a].student
                      THEN {p[x].class : x \in {b \in E : p[b].student = s}} \cup {p[a].class}
                      ELSE {p[x].class : x \in {b \in E : p[b].student = s}}
  BY DEF PlacesOf
<1> QED OBVIOUS

\* A place is lost when no other of the student's applications is of that class.
LEMMA PlacesLost ==
    ASSUME NEW E, NEW p, NEW a \in E, p[a].student \in Students,
           \A b \in E \ {a} : p[b].student = p[a].student => p[b].class # p[a].class
    PROVE  PlacesOf(E \ {a}, p) = [PlacesOf(E, p) EXCEPT ![p[a].student] = @ \ {p[a].class}]
<1> SUFFICES ASSUME NEW s \in Students
             PROVE  {p[x].class : x \in {b \in E \ {a} : p[b].student = s}}
                    = IF s = p[a].student
                      THEN {p[x].class : x \in {b \in E : p[b].student = s}} \ {p[a].class}
                      ELSE {p[x].class : x \in {b \in E : p[b].student = s}}
  BY DEF PlacesOf
<1> QED OBVIOUS

LEMMA HomePlaces == Home = PlacesOf(Enrolled, application)
<1>1. \A s : {b \in Enrolled : application[b].student = s}
             = {b \in Applications : bond[b] = "ACTIVE" /\ Student(b) = s}
  BY DEF Enrolled, Student
<1> QED BY <1>1 DEF Home, PlacesOf, Class

LEMMA BookedPlaces == Booked = PlacesOf(Reserved, application)
<1>1. \A s : {b \in Reserved : application[b].student = s}
             = {b \in Applications : Status(b) = "APPROVED" /\ Class(b) # None /\ Student(b) = s}
  BY DEF Reserved, Student
<1> QED BY <1>1 DEF Booked, PlacesOf, Class

\* After a step that keeps the rows' students and classes.
LEMMA HomeAfter == ASSUME ContextsKept(Enrolled') PROVE Home' = PlacesOf(Enrolled', application)
<1>1. Home' = PlacesOf(Enrolled', application')
  <2>1. \A s : {b \in Enrolled' : application'[b].student = s}
               = {b \in Applications : bond'[b] = "ACTIVE" /\ Student(b)' = s}
    BY DEF Enrolled, Student
  <2> QED BY <2>1 DEF Home, PlacesOf, Class
<1> QED BY <1>1, PlacesKept DEF ContextsKept

LEMMA BookedAfter == ASSUME ContextsKept(Reserved') PROVE Booked' = PlacesOf(Reserved', application)
<1>1. Booked' = PlacesOf(Reserved', application')
  <2>1. \A s : {b \in Reserved' : application'[b].student = s}
               = {b \in Applications : Status(b)' = "APPROVED" /\ Class(b)' # None /\ Student(b)' = s}
    BY DEF Reserved, Student
  <2> QED BY <2>1 DEF Booked, PlacesOf, Class
<1> QED BY <1>1, PlacesKept DEF ContextsKept

\* Who has a place, and that it is the only one of its year.
LEMMA OneHome ==
    ASSUME IInv, NEW a \in Enrolled
    PROVE  /\ a \in Applications /\ Student(a) \in Students /\ Class(a) \in Classes
           /\ Class(a) \in Home[Student(a)]
           /\ \A b \in Enrolled \ {a} : Student(b) = Student(a) => Year(Class(b)) # Year(Class(a))
<1>1. a \in Applications /\ Student(a) \in Students /\ Class(a) \in Classes
  BY DEF Enrolled, IInv, Orderly, Rooted, BoundWhenCompleted
<1>2. Class(a) \in Home[Student(a)]
  BY <1>1 DEF Home, Enrolled
<1> QED BY <1>1, <1>2 DEF IInv, OneActivePerYear, Enrolled

LEMMA OneBooking ==
    ASSUME IInv, NEW a \in Reserved
    PROVE  /\ a \in Applications /\ Student(a) \in Students /\ Class(a) \in Classes
           /\ Class(a) \in Booked[Student(a)]
           /\ \A b \in Reserved \ {a} : Student(b) = Student(a) => Year(Class(b)) # Year(Class(a))
<1>1. a \in Applications /\ Student(a) \in Students /\ Class(a) \in Classes
  BY DEF Reserved, IInv, TypeOK, ApplicationType, Class, Orderly, Rooted
<1>2. Class(a) \in Booked[Student(a)]
  BY <1>1 DEF Booked, Reserved
<1>3. \A b \in Reserved : ApplicationYear(application[b]) = Year(Class(b))
  BY DEF Reserved, ApplicationYear, Class
<1> QED BY <1>1, <1>2, <1>3 DEF IInv, OneOpenPerYear, Reserved, OpenStatuses

LEMMA OtherYear ==
    \A c, d : (Year(c) = Year(d) <=> Booking!SameYear(c, d)) /\ (Year(c) # Year(d) => c # d)
BY DEF Year, Booking!SameYear

\* An approved application that is no more gives its booking back.
LEMMA BookingLost ==
    ASSUME IInv, NEW a \in Reserved, Reserved' = Reserved \ {a}, ContextsKept(Applications)
    PROVE  Booked' = [Booked EXCEPT ![Student(a)] = @ \ {Class(a)}]
<1>1. ContextsKept(Reserved')
  BY DEF ContextsKept, Reserved
<1>2. \A b \in Reserved \ {a} :
          application[b].student = application[a].student => application[b].class # application[a].class
  BY OneBooking, OtherYear DEF Student, Class
<1>3. application[a].student \in Students
  BY OneBooking DEF Student
<1>4. PlacesOf(Reserved \ {a}, application)
      = [PlacesOf(Reserved, application) EXCEPT
            ![application[a].student] = @ \ {application[a].class}]
  BY <1>2, <1>3, PlacesLost
<1>5. Booked' = PlacesOf(Reserved \ {a}, application)
  BY <1>1, BookedAfter
<1> QED BY <1>4, <1>5, BookedPlaces DEF Student, Class

LEMMA HomeLost ==
    ASSUME IInv, NEW a \in Enrolled
    PROVE  PlacesOf(Enrolled \ {a}, application) = [Home EXCEPT ![Student(a)] = @ \ {Class(a)}]
<1>1. \A b \in Enrolled \ {a} :
          application[b].student = application[a].student => application[b].class # application[a].class
  BY OneHome, OtherYear DEF Student, Class
<1>2. application[a].student \in Students
  BY OneHome DEF Student
<1>3. PlacesOf(Enrolled \ {a}, application)
      = [PlacesOf(Enrolled, application) EXCEPT
            ![application[a].student] = @ \ {application[a].class}]
  <2>1. PICK E, p : E = Enrolled /\ p = application
    OBVIOUS
  <2>2. PlacesOf(E \ {a}, p) = [PlacesOf(E, p) EXCEPT ![p[a].student] = @ \ {p[a].class}]
    BY <1>1, <1>2, <2>1, PlacesLost
  <2> QED BY <2>1, <2>2
<1>4. PlacesOf(Enrolled \ {a}, application)
      = [Home EXCEPT ![application[a].student] = @ \ {application[a].class}]
  BY <1>3, HomePlaces
<1> QED BY <1>4 DEF Student, Class

LEMMA HomeKept ==
    ASSUME Enrolled' = Enrolled, ContextsKept(Enrolled)
    PROVE  Home' = Home
BY HomeAfter, HomePlaces

LEMMA BookedKept ==
    ASSUME Reserved' = Reserved, ContextsKept(Reserved)
    PROVE  Booked' = Booked
BY BookedAfter, BookedPlaces

\* No more places are taken than seats are occupied.
LEMMA TakenByOccupants ==
    ASSUME IInv, NEW c \in Classes
    PROVE  Booking!Taken(c) \in Nat /\ Booking!Taken(c) <= Occupied(c)
<1> DEFINE living == {s \in Students : c \in Home[s]}
           booking == {s \in Students : c \in Booked[s]}
<1>1. Cardinality(living) \in Nat /\ Cardinality(living) <= Cardinality(ActiveIn(c))
  <2> DEFINE f == [a \in ActiveIn(c) |-> Student(a)]
  <2>1. \A a \in ActiveIn(c) : Student(a) \in living
    BY OneHome DEF ActiveIn, Enrolled
  <2>2. \A s \in living : \E a \in ActiveIn(c) : Student(a) = s
    BY DEF Home, ActiveIn
  <2>3. f \in Surjection(ActiveIn(c), living)
    BY <2>1, <2>2 DEF Surjection
  <2> QED BY <2>3, CountsAreNumbers, FS_Surjection, FS_CardinalityType
<1>2. Cardinality(booking) \in Nat /\ Cardinality(booking) <= Cardinality(ReservedIn(c))
  <2> DEFINE f == [a \in ReservedIn(c) |-> Student(a)]
  <2>1. \A a \in ReservedIn(c) : a \in Reserved /\ Class(a) = c
    BY EnrollmentsAssumption DEF ReservedIn, Reserved
  <2>2. \A a \in ReservedIn(c) : Student(a) \in booking
    BY <2>1, OneBooking
  <2>3. \A s \in booking : \E a \in ReservedIn(c) : Student(a) = s
    BY DEF Booked, ReservedIn
  <2>4. f \in Surjection(ReservedIn(c), booking)
    BY <2>2, <2>3 DEF Surjection
  <2> QED BY <2>4, CountsAreNumbers, FS_Surjection, FS_CardinalityType
<1>3. Booking!Taken(c) = Cardinality(living) + Cardinality(booking)
  BY DEF Booking!Taken, Booking!Cardinality, Cardinality
<1> HIDE DEF living, booking
<1> QED BY <1>1, <1>2, <1>3, CountsAreNumbers

-------------------------------------------------------------------------------
(* Every step maps to one of SeatBooking, or changes no place.             *)

Unmoved == Home' = Home /\ Booked' = Booked /\ seats' = seats

LEMMA UnmovedStutters == Unmoved => [Booking!Next]_(Booking!bookingVars)
BY DEF Unmoved, Booking!bookingVars

\* create_application, correct_application: the application has no place.
LEMMA ContextBooking ==
    ASSUME SInv, NEW a \in Applications, NEW row,
           application' = [application EXCEPT ![a] = row],
           Status(a) # "APPROVED", row.status # "APPROVED", bond[a] # "ACTIVE",
           UNCHANGED <<bond, seats>>
    PROVE  Unmoved
<1>1. /\ application'[a] = row
      /\ \A b \in Applications \ {a} : application'[b] = application[b]
  BY DEF SInv, IInv, TypeOK
<1>2. Enrolled' = Enrolled /\ a \notin Enrolled
  BY DEF Enrolled
<1>3. Reserved' = Reserved /\ a \notin Reserved
  BY <1>1 DEF Reserved, Status, Class
<1>4. ContextsKept(Enrolled) /\ ContextsKept(Reserved)
  BY <1>1, <1>2, <1>3 DEF ContextsKept, Enrolled, Reserved
<1> QED BY <1>2, <1>3, <1>4, HomeKept, BookedKept DEF Unmoved

\* A status written: the contexts of all applications stay.
LEMMA StatusWritten ==
    ASSUME SInv, NEW a \in Applications, NEW status,
           application' = [application EXCEPT ![a].status = status]
    PROVE  /\ ContextsKept(Applications)
           /\ Status(a)' = status /\ \A b \in Applications \ {a} : Status(b)' = Status(b)
           /\ \A b \in Applications : Class(b)' = Class(b)
<1>1. application \in [Applications -> ApplicationType] /\ application[a] \in ApplicationType
  BY DEF SInv, IInv, TypeOK
<1> QED BY <1>1 DEF ContextsKept, Status, Class, ApplicationType

\* An application that is approved no more gives its booking up.
LEMMA WithdrawalBooking ==
    ASSUME SInv, NEW a \in Applications, NEW status, status # "APPROVED",
           application' = [application EXCEPT ![a].status = status],
           UNCHANGED <<bond, seats>>
    PROVE  [Booking!Next]_(Booking!bookingVars)
<1>1. /\ ContextsKept(Applications)
      /\ Status(a)' = status /\ \A b \in Applications \ {a} : Status(b)' = Status(b)
      /\ \A b \in Applications : Class(b)' = Class(b)
  BY StatusWritten
<1>2. Enrolled' = Enrolled /\ ContextsKept(Enrolled)
  BY <1>1 DEF Enrolled, ContextsKept
<1>3. Home' = Home
  BY <1>2, HomeKept
<1>4. Reserved' = Reserved \ {a}
  BY <1>1 DEF Reserved
<1>5. CASE a \in Reserved
  <2>1. Booked' = [Booked EXCEPT ![Student(a)] = @ \ {Class(a)}]
    BY <1>1, <1>4, <1>5, BookingLost DEF SInv
  <2>2. Student(a) \in Students /\ Class(a) \in Classes /\ Class(a) \in Booked[Student(a)]
    BY <1>5, OneBooking DEF SInv
  <2>3. Booking!GiveUp(Student(a), Class(a))
    BY <1>3, <2>1, <2>2 DEF Booking!GiveUp
  <2> QED BY <2>2, <2>3 DEF Booking!Next
<1>6. CASE a \notin Reserved
  <2>1. Reserved' = Reserved /\ ContextsKept(Reserved)
    BY <1>1, <1>4, <1>6 DEF Reserved, ContextsKept
  <2>2. Unmoved
    BY <1>3, <2>1, BookedKept DEF Unmoved
  <2> QED BY <2>2, UnmovedStutters
<1> QED BY <1>5, <1>6

\* An enrollment that ends leaves its class.
LEMMA DepartureBooking ==
    ASSUME SInv, NEW a \in Enrolled, Enrolled' = Enrolled \ {a}, Reserved' = Reserved,
           ContextsKept(Applications), UNCHANGED seats
    PROVE  [Booking!Next]_(Booking!bookingVars)
<1>1. ContextsKept(Enrolled') /\ ContextsKept(Reserved)
  BY DEF ContextsKept, Enrolled, Reserved
<1>2. Home' = [Home EXCEPT ![Student(a)] = @ \ {Class(a)}]
  BY <1>1, HomeAfter, HomeLost DEF SInv
<1>3. Booked' = Booked
  BY <1>1, BookedKept
<1>4. Student(a) \in Students /\ Class(a) \in Classes /\ Class(a) \in Home[Student(a)]
  BY OneHome DEF SInv
<1>5. Booking!Leave(Student(a), Class(a))
  BY <1>2, <1>3, <1>4 DEF Booking!Leave
<1> QED BY <1>4, <1>5 DEF Booking!Next

LEMMA EditBooking ==
    ASSUME SInv, NEW a \in Applications, Edit(a)
    PROVE  [Booking!Next]_(Booking!bookingVars)
<1>1. CASE \E type \in Types, s \in Students, c \in Classes \cup {None},
              source \in Applications \cup {None} : CreateApplication(a, type, s, c, source)
  <2> DEFINE new(type, s, c, source) ==
              [status |-> "PRE_ENROLLMENT", type |-> type, student |-> s,
               class |-> c, source |-> source]
  <2>1. PICK row : /\ application' = [application EXCEPT ![a] = row]
                   /\ row.status # "APPROVED"
    <3>1. PICK type, s, c, source :
              application' = [application EXCEPT ![a] = new(type, s, c, source)]
      BY <1>1 DEF CreateApplication
    <3>2. new(type, s, c, source).status # "APPROVED"
      OBVIOUS
    <3> HIDE DEF new
    <3> QED BY <3>1, <3>2
  <2>2. Status(a) = "none" /\ UNCHANGED <<bond, seats>> /\ bond[a] # "ACTIVE"
    BY <1>1 DEF CreateApplication, SInv, IInv, Orderly, BoundWhenCompleted
  <2> QED BY <2>1, <2>2, ContextBooking, UnmovedStutters
<1>2. CASE \E c \in Classes \cup {None}, source \in Applications \cup {None} :
              CorrectApplication(a, c, source)
  <2>1. PICK row : /\ application' = [application EXCEPT ![a] = row]
                   /\ row.status = Status(a)
    <3> DEFINE corrected(c, source) == [application[a] EXCEPT !.class = c, !.source = source]
    <3>1. PICK c, source : application' = [application EXCEPT ![a] = corrected(c, source)]
      BY <1>2 DEF CorrectApplication
    <3>2. corrected(c, source).status = Status(a)
      BY RowType DEF Status, SInv, IInv, ApplicationType
    <3> HIDE DEF corrected
    <3> QED BY <3>1, <3>2
  <2>2. /\ Status(a) # "APPROVED" /\ UNCHANGED <<bond, seats>> /\ bond[a] # "ACTIVE"
    BY <1>2 DEF CorrectApplication, SInv, IInv, Orderly, BoundWhenCompleted
  <2> QED BY <2>1, <2>2, ContextBooking, UnmovedStutters
<1>3. CASE \/ SubmitApplication(a) \/ RequestCorrection(a) \/ RejectApplication(a)
           \/ (CancelApplication(a) /\ Status(a) # "ENROLLED")
  <2>1. PICK status : /\ application' = [application EXCEPT ![a].status = status]
                      /\ status # "APPROVED" /\ UNCHANGED <<bond, seats>>
    BY <1>3 DEF SubmitApplication, RequestCorrection, RejectApplication, CancelApplication, SetStatus
  <2> QED BY <2>1, WithdrawalBooking
<1>4. CASE CancelApplication(a) /\ Status(a) = "ENROLLED"
  <2>1. /\ bond[a] = "ACTIVE" /\ bond' = [bond EXCEPT ![a] = "CANCELLED"]
        /\ application' = [application EXCEPT ![a].status = "CANCELLED"] /\ UNCHANGED seats
    BY <1>4 DEF CancelApplication, SetStatus
  <2>2. /\ ContextsKept(Applications)
        /\ Status(a)' = "CANCELLED" /\ \A b \in Applications \ {a} : Status(b)' = Status(b)
        /\ \A b \in Applications : Class(b)' = Class(b)
    BY <2>1, StatusWritten
  <2>3. a \in Enrolled /\ Enrolled' = Enrolled \ {a}
    BY <2>1 DEF Enrolled, SInv, IInv, TypeOK
  <2>4. Reserved' = Reserved
    BY <1>4, <2>2 DEF Reserved
  <2> QED BY <2>1, <2>2, <2>3, <2>4, DepartureBooking
<1>5. CASE FinalizeOutbound(a)
  <2> DEFINE source == application[a].source
  <2>1. /\ Status(a) = "APPROVED" /\ application[a].type = "OUTBOUND_TRANSFER"
        /\ bond[source] = "ACTIVE" /\ bond' = [bond EXCEPT ![source] = "TRANSFERRED"]
        /\ application' = WithSource(a, "TRANSFERRED") /\ UNCHANGED seats
    BY <1>5 DEF FinalizeOutbound
  <2>2. source \in Applications \ {a} /\ Status(source) \in Completed
    BY <2>1, SourceOf DEF SourceTypes, SInv
  <2>3. /\ \A b \in Applications \ {a, source} : application'[b] = application[b]
        /\ \A b \in Applications : /\ application'[b].class = application[b].class
                                   /\ application'[b].student = application[b].student
        /\ Status(a)' = "TRANSFERRED"
        /\ Status(source) = "ENROLLED" => application'[source].status = "TRANSFERRED"
        /\ Status(source) # "ENROLLED" => application'[source].status = Status(source)
    BY <2>1, <2>2, WithSourceWrites DEF SInv, IInv
  <2>4. Class(a) = None
    BY <2>1 DEF SInv, IInv, TypeOK, TargetTypes
  <2> HIDE DEF source
  <2>5. source \in Enrolled /\ Enrolled' = Enrolled \ {source}
    BY <2>1, <2>2 DEF Enrolled, SInv, IInv, TypeOK
  <2>6. Reserved' = Reserved
    BY <2>2, <2>3, <2>4 DEF Reserved, Status, Class, Completed
  <2>7. ContextsKept(Applications)
    BY <2>3 DEF ContextsKept
  <2> QED BY <2>1, <2>5, <2>6, <2>7, DepartureBooking
<1> QED BY <1>1, <1>2, <1>3, <1>4, <1>5 DEF Edit

\* The decision that finds a seat books it.
LEMMA DecisionBooking ==
    ASSUME SInv, NEW k \in Clerks, DecideApproval(k)
    PROVE  [Booking!Next]_(Booking!bookingVars)
<1>0. PICK a, c : a = tx[k].app /\ c = tx[k].holds
  OBVIOUS
<1>1. /\ a \in Applications /\ c = Class(a) /\ c \in Classes /\ c # None
      /\ Status(a) \in {"UNDER_REVIEW", "WAITLISTED"} /\ Student(a) \in Students
      /\ Cardinality(ActiveIn(c)) <= tx[k].enrolled /\ tx[k].enrolled \in Nat
      /\ seats[c] \in Nat /\ UNCHANGED <<bond, seats>>
  BY <1>0, EnrollmentsAssumption
     DEF DecideApproval, SInv, Seated, ClassHeld, IInv, Orderly, Serialized, Rooted, TypeOK, TxType
<1>2. PICK status : /\ status \in {"WAITLISTED", "APPROVED"}
                    /\ Full(k) <=> status = "WAITLISTED"
                    /\ application' = [application EXCEPT ![a].status = status]
  BY <1>0 DEF DecideApproval
<1>3. /\ ContextsKept(Applications)
      /\ Status(a)' = status /\ \A b \in Applications \ {a} : Status(b)' = Status(b)
      /\ \A b \in Applications : Class(b)' = Class(b)
  BY <1>1, <1>2, StatusWritten
<1>4. CASE status = "WAITLISTED"
  BY <1>1, <1>2, <1>4, WithdrawalBooking
<1>5. CASE status = "APPROVED"
  <2>1. Home' = Home
    <3>1. Enrolled' = Enrolled /\ ContextsKept(Enrolled)
      BY <1>1, <1>3 DEF Enrolled, ContextsKept
    <3> QED BY <3>1, HomeKept
  <2>2. Booked' = [Booked EXCEPT ![Student(a)] = @ \cup {c}]
    <3>1. Reserved' = Reserved \cup {a} /\ ContextsKept(Reserved')
      BY <1>1, <1>3, <1>5 DEF Reserved, ContextsKept
    <3>2. PICK E, p : E = Reserved /\ p = application
      OBVIOUS
    <3>3. PlacesOf(E \cup {a}, p) = [PlacesOf(E, p) EXCEPT ![p[a].student] = @ \cup {p[a].class}]
      BY <1>1, <3>2, PlacesGained DEF Student
    <3>4. Booked' = PlacesOf(E \cup {a}, p)
      BY <3>1, <3>2, BookedAfter
    <3>5. Booked' = [Booked EXCEPT ![p[a].student] = @ \cup {p[a].class}]
      BY <3>2, <3>3, <3>4, BookedPlaces
    <3>6. p[a].student = Student(a) /\ p[a].class = c
      BY <1>1, <3>2 DEF Student, Class
    <3> QED BY <3>5, <3>6
  <2>3. Booking!Taken(c) < seats[c]
    <3>1. ReservedIn(c) \ {a} = ReservedIn(c)
      BY <1>1 DEF ReservedIn
    <3>2. tx[k].enrolled + Cardinality(ReservedIn(c)) < seats[c]
      <4>1. Cardinality(ReservedIn(c) \ {a}) \in Nat
        BY <3>1, CountsAreNumbers
      <4>2. tx[k].enrolled + Cardinality(ReservedIn(c) \ {a}) < seats[c]
        BY <1>0, <1>1, <1>2, <1>5, <4>1 DEF Full
      <4> QED BY <3>1, <4>2
    <3>3. Booking!Taken(c) \in Nat /\ Booking!Taken(c) <= Occupied(c)
      BY <1>1, TakenByOccupants DEF SInv
    <3> QED BY <1>1, <3>2, <3>3, CountsAreNumbers
  <2>4. \A d \in Booked[Student(a)] : ~Booking!SameYear(c, d)
    <3> SUFFICES ASSUME NEW b \in Applications, Status(b) = "APPROVED", Class(b) # None,
                        Student(b) = Student(a)
                 PROVE  Year(c) # Year(Class(b))
      BY <1>1, OtherYear DEF Booked
    <3>1. a # b /\ Status(a) \in OpenStatuses /\ Status(b) \in OpenStatuses
      BY <1>1 DEF OpenStatuses
    <3>2. /\ ApplicationYear(application[a]) = Year(c)
          /\ ApplicationYear(application[b]) = Year(Class(b))
      BY <1>1 DEF ApplicationYear, Class
    <3> QED BY <1>1, <3>1, <3>2 DEF SInv, IInv, OneOpenPerYear
  <2>5. Booking!Book(Student(a), c)
    BY <1>1, <2>1, <2>2, <2>3, <2>4 DEF Booking!Book
  <2> QED BY <1>1, <2>5 DEF Booking!Next
<1> QED BY <1>2, <1>4, <1>5

\* The enrollment takes the place that the approval booked.
LEMMA EnrollmentBooking ==
    ASSUME SInv, NEW k \in Clerks, CompleteEnrollment(k)
    PROVE  [Booking!Next]_(Booking!bookingVars)
<1>1. PICK a \in Applications : a = tx[k].app
  BY DEF CompleteEnrollment, SInv, IInv, Orderly, Serialized
<1>2. /\ Status(a) = "APPROVED" /\ Class(a) \in Classes /\ ~HasActive(Student(a), Year(Class(a)))
      /\ bond' = [bond EXCEPT ![a] = "ACTIVE"]
      /\ application' = [application EXCEPT ![a].status = "ENROLLED"] /\ UNCHANGED seats
  BY <1>1 DEF CompleteEnrollment, SetStatus, SInv, IInv, Orderly, Serialized
<1>3. /\ ContextsKept(Applications)
      /\ Status(a)' = "ENROLLED" /\ \A b \in Applications \ {a} : Status(b)' = Status(b)
      /\ \A b \in Applications : Class(b)' = Class(b)
  BY <1>2, StatusWritten
<1>4. a \in Reserved /\ Reserved' = Reserved \ {a}
  BY <1>2, <1>3, EnrollmentsAssumption DEF Reserved
<1>5. Student(a) \in Students /\ Class(a) \in Booked[Student(a)]
  BY <1>4, OneBooking DEF SInv
<1>6. Booked' = [Booked EXCEPT ![Student(a)] = @ \ {Class(a)}]
  BY <1>3, <1>4, BookingLost DEF SInv
<1>7. Home' = [Home EXCEPT ![Student(a)] = @ \cup {Class(a)}]
  <2>1. Enrolled' = Enrolled \cup {a} /\ ContextsKept(Enrolled')
    BY <1>2, <1>3 DEF Enrolled, ContextsKept, SInv, IInv, TypeOK
  <2>2. PICK E, p : E = Enrolled /\ p = application
    OBVIOUS
  <2>3. PlacesOf(E \cup {a}, p) = [PlacesOf(E, p) EXCEPT ![p[a].student] = @ \cup {p[a].class}]
    BY <1>5, <2>2, PlacesGained DEF Student
  <2>4. Home' = PlacesOf(E \cup {a}, p)
    BY <2>1, <2>2, HomeAfter
  <2> QED BY <2>2, <2>3, <2>4, HomePlaces DEF Student, Class
<1>8. \A d \in Home[Student(a)] : ~Booking!SameYear(Class(a), d)
  <2> SUFFICES ASSUME NEW b \in Applications, bond[b] = "ACTIVE", Student(b) = Student(a)
               PROVE  Year(Class(a)) # Year(Class(b))
    BY <1>5, OtherYear DEF Home
  <2>1. b \in OfStudent(Student(a))
    BY DEF OfStudent, SInv, IInv, Orderly, BoundWhenCompleted
  <2> QED BY <1>2, <2>1 DEF HasActive
<1>9. Booking!Enroll(Student(a), Class(a))
  BY <1>2, <1>5, <1>6, <1>7, <1>8 DEF Booking!Enroll
<1> QED BY <1>2, <1>5, <1>9 DEF Booking!Next

\* A transfer gives the place of its source for the one it had booked.
LEMMA TransferBooking ==
    ASSUME SInv, NEW k \in Clerks, CompleteTransfer(k)
    PROVE  [Booking!Next]_(Booking!bookingVars)
<1>1. PICK a \in Applications : a = tx[k].app
  BY DEF CompleteTransfer, SInv, IInv, Orderly, Serialized
<1>2. /\ Status(a) = "APPROVED" /\ Class(a) \in Classes
      /\ application[a].type = "INTERNAL_TRANSFER" /\ UNCHANGED seats
  BY <1>1 DEF CompleteTransfer, SInv, IInv, Orderly, Serialized
<1>3. PICK source \in Applications \ {a} : source = application[a].source
  BY <1>2, SourceOf DEF SourceTypes, SInv
<1>4. /\ Student(source) = Student(a) /\ Year(Class(source)) = Year(Class(a))
      /\ Status(source) \in Completed
  BY <1>2, <1>3, SourceOf DEF SourceTypes, SInv
<1>5. /\ bond[source] = "ACTIVE"
      /\ bond' = [bond EXCEPT ![a] = "ACTIVE", ![source] = "TRANSFERRED"]
      /\ application' = WithSource(a, "TRANSFERRED")
  BY <1>1, <1>3 DEF CompleteTransfer, Moved
<1>6. /\ \A b \in Applications \ {a, source} : application'[b] = application[b]
      /\ \A b \in Applications : /\ application'[b].class = application[b].class
                                 /\ application'[b].student = application[b].student
      /\ Status(a)' = "TRANSFERRED"
      /\ Status(source) = "ENROLLED" => application'[source].status = "TRANSFERRED"
      /\ Status(source) # "ENROLLED" => application'[source].status = Status(source)
  BY <1>2, <1>3, <1>5, WithSourceWrites DEF SInv, IInv
<1>7. ContextsKept(Applications)
  BY <1>6 DEF ContextsKept
<1>8. a \in Reserved /\ Reserved' = Reserved \ {a}
  BY <1>2, <1>4, <1>6, EnrollmentsAssumption DEF Reserved, Status, Class, Completed
<1>9. Student(a) \in Students /\ Class(a) \in Booked[Student(a)]
  BY <1>8, OneBooking DEF SInv
<1>10. source \in Enrolled /\ Enrolled' = (Enrolled \ {source}) \cup {a}
  BY <1>3, <1>5 DEF Enrolled, SInv, IInv, TypeOK
<1>11. Class(source) \in Classes /\ Class(source) \in Home[Student(a)]
  BY <1>4, <1>10, OneHome DEF SInv
<1>12. Booked' = [Booked EXCEPT ![Student(a)] = @ \ {Class(a)}]
  BY <1>7, <1>8, BookingLost DEF SInv
<1>13. Home' = [Home EXCEPT ![Student(a)] = (@ \ {Class(source)}) \cup {Class(a)}]
  <2>1. ContextsKept(Enrolled')
    BY <1>7 DEF Enrolled, ContextsKept
  <2>2. PICK E, p : E = Enrolled \ {source} /\ p = application
    OBVIOUS
  <2>3. PlacesOf(E \cup {a}, p) = [PlacesOf(E, p) EXCEPT ![p[a].student] = @ \cup {p[a].class}]
    <3>1. p[a].student \in Students
      BY <1>9, <2>2 DEF Student
    <3> QED BY <3>1, PlacesGained
  <2>4. PlacesOf(E, p) = [Home EXCEPT ![Student(a)] = @ \ {Class(source)}]
    BY <1>4, <1>10, <2>2, HomeLost DEF SInv
  <2>5. Home' = PlacesOf(E \cup {a}, p)
    BY <1>10, <2>1, <2>2, HomeAfter
  <2>6. Home' = [[Home EXCEPT ![Student(a)] = @ \ {Class(source)}] EXCEPT ![Student(a)] = @ \cup {Class(a)}]
    BY <2>2, <2>3, <2>4, <2>5 DEF Student, Class
  <2>7. Home = [s \in Students |-> Home[s]]
    BY DEF Home
  <2> QED BY <1>9, <2>6, <2>7
<1>14. Booking!SameYear(Class(a), Class(source))
  BY <1>4, OtherYear
<1>15. Booking!Exchange(Student(a), Class(a), Class(source))
  BY <1>2, <1>9, <1>11, <1>12, <1>13, <1>14 DEF Booking!Exchange
<1> QED BY <1>2, <1>9, <1>11, <1>15 DEF Booking!Next

\* Begun, rolled back, waiting for the class: no place changes.
LEMMA UnwrittenBooking ==
    ASSUME UNCHANGED <<application, bond, seats>>
    PROVE  Unmoved
BY DEF Unmoved, Home, Booked, Status, Student, Class

LEMMA TransactBooking ==
    ASSUME SInv, NEW k \in Clerks, Transact(k)
    PROVE  [Booking!Next]_(Booking!bookingVars)
<1>1. CASE \E a \in Applications : BeginApproval(k, a)
  <2>1. PICK a \in Applications : BeginApproval(k, a)
    BY <1>1
  <2>2. CASE Class(a) = None
    <3>1. /\ application' = [application EXCEPT ![a].status = "APPROVED"] /\ UNCHANGED <<bond, seats>>
      BY <2>1, <2>2 DEF BeginApproval, SetStatus
    <3>2. /\ ContextsKept(Applications)
          /\ \A b \in Applications \ {a} : Status(b)' = Status(b)
          /\ \A b \in Applications : Class(b)' = Class(b)
      BY <3>1, StatusWritten
    <3>3. Reserved' = Reserved /\ Enrolled' = Enrolled
      BY <2>2, <3>1, <3>2 DEF Reserved, Enrolled
    <3>4. ContextsKept(Reserved) /\ ContextsKept(Enrolled)
      BY <3>2 DEF ContextsKept, Reserved, Enrolled
    <3>5. Unmoved
      BY <3>1, <3>3, <3>4, HomeKept, BookedKept DEF Unmoved
    <3> QED BY <3>5, UnmovedStutters
  <2>3. CASE Class(a) # None
    <3>1. UNCHANGED <<application, bond, seats>>
      BY <2>1, <2>3 DEF BeginApproval
    <3> QED BY <3>1, UnwrittenBooking, UnmovedStutters
  <2> QED BY <2>2, <2>3
<1>2. CASE \/ \E a \in Applications : BeginFinalize(k, a)
           \/ LockClass(k) \/ CountEnrolled(k) \/ Rollback(k)
  <2>1. UNCHANGED <<application, bond, seats>>
    BY <1>2 DEF BeginFinalize, LockClass, CountEnrolled, Rollback
  <2> QED BY <2>1, UnwrittenBooking, UnmovedStutters
<1>3. CASE DecideApproval(k)
  BY <1>3, DecisionBooking
<1>4. CASE CompleteEnrollment(k)
  BY <1>4, EnrollmentBooking
<1>5. CASE CompleteTransfer(k)
  BY <1>5, TransferBooking
<1> QED BY <1>1, <1>2, <1>3, <1>4, <1>5 DEF Transact

LEMMA BookingStep == SInv /\ [Next]_vars => [Booking!Next]_(Booking!bookingVars)
<1> SUFFICES ASSUME SInv, [Next]_vars PROVE [Booking!Next]_(Booking!bookingVars)
  OBVIOUS
<1>1. CASE \E a \in Applications : Edit(a)
  BY <1>1, EditBooking
<1>2. CASE \E k \in Clerks : Transact(k)
  BY <1>2, TransactBooking
<1>3. CASE (\E a \in Applications, d \in Documents : Checklist(a, d)) \/ UNCHANGED vars
  <2>1. UNCHANGED <<application, bond, seats>>
    BY <1>3 DEF Checklist, RecordDelivery, VerifyDocument, RejectDocument, WaiveDocument, SetDocument,
       vars
  <2> QED BY <2>1, UnwrittenBooking, UnmovedStutters
<1>4. CASE \E c \in Classes, n \in 0 .. MaxSeats : ResizeClass(c, n)
  <2>1. PICK c \in Classes, n \in 0 .. MaxSeats : ResizeClass(c, n)
    BY <1>4
  <2>2. seats' = [seats EXCEPT ![c] = n] /\ UNCHANGED <<application, bond>>
    BY <2>1 DEF ResizeClass
  <2>3. Home' = Home /\ Booked' = Booked
    BY <2>2 DEF Home, Booked, Status, Student, Class
  <2>4. Booking!Resize(c, n)
    BY <2>2, <2>3 DEF Booking!Resize
  <2> QED BY <2>4 DEF Booking!Next
<1> QED BY <1>1, <1>2, <1>3, <1>4 DEF Next

LEMMA BookingInit == Init => Booking!Init
<1> SUFFICES ASSUME Init PROVE Booking!Init
  OBVIOUS
<1>1. \A a \in Applications : bond[a] # "ACTIVE" /\ Status(a) # "APPROVED"
  BY DEF Init, Status, Blank
<1>2. Home = [s \in Students |-> {}] /\ Booked = [s \in Students |-> {}]
  BY <1>1 DEF Home, Booked
<1> QED BY <1>2 DEF Init, Booking!Init

-------------------------------------------------------------------------------
(* Theorems.                                                               *)

\* The inductive invariant, of which the others are parts.
THEOREM Invariant == Spec => []IInv
<1> QED BY IInvInit, IInvStep, PTL DEF Spec

\* The rows keep the values the choices of src/enrollments and src/classes
\* allow, and every application has the target and the source its type asks for.
THEOREM TypeCorrect == Spec => []TypeOK
<1>1. IInv => TypeOK
  BY DEF IInv
<1> QED BY <1>1, Invariant, PTL

\* create_application under the student's lock, correct_application that keeps
\* the year: no student has two open applications for one academic year.
THEOREM OneOpen == Spec => []OneOpenPerYear
<1>1. IInv => OneOpenPerYear
  BY DEF IInv
<1> QED BY <1>1, Invariant, PTL

\* create_from_application and transfer_from_application under the student's
\* lock: no student has two active enrollments in one academic year.
THEOREM OneActive == Spec => []OneActivePerYear
<1>1. IInv => OneActivePerYear
  BY DEF IInv
<1> QED BY <1>1, Invariant, PTL

\* Through cancellation, transfer and completion, the workflow of
\* src/enrollments and the academic record of src/classes tell the same story.
THEOREM Agreement == Spec => []EnrolledHasBond
<1>1. IInv => EnrolledHasBond
  BY DEF IInv
<1> QED BY <1>1, Invariant, PTL

\* finalize_application reads the checklist without locking it; no enrollment
\* lacks a required document even so, because what was concluded stays so.
THEOREM DocumentsHeld == Spec => []EnrollmentHasDocuments
<1>1. IInv => EnrollmentHasDocuments
  BY DEF IInv
<1> QED BY <1>1, Invariant, PTL

\* approve_application counts under the lock of the class and completions pass
\* the reservation on: no interleaving of approvals, completions and transfers
\* takes a seat the class does not have.
THEOREM SeatsNeverOversold == Spec => SeatsNotOversold
<1>1. SInv /\ [Next]_vars => [SeatTaken]_vars
  BY SInvStep
<1>2. SInv /\ [Next]_vars => SInv'
  BY SInvStep
<1>3. SInv /\ [Next]_vars => [\A c \in Classes : Occupied(c)' > Occupied(c) => Occupied(c)' <= seats'[c]]_vars
  BY <1>1 DEF SeatTaken
<1> QED BY SInvInit, <1>2, <1>3, PTL DEF Spec, SeatsNotOversold

\* While no class is resized, create_from_application and
\* transfer_from_application find the seat that the approval reserved.
THEOREM ReservationsHonored == Spec => []ReservationHonored
<1>1. SInv /\ [Next]_vars => SInv'
  BY SInvStep
<1> QED BY SInvInit, <1>1, ReservationLeavesSeat, PTL DEF Spec

\* The commands of src/enrollments and the academic port of src/classes, with
\* their transactions split at the lock of the class, move students between
\* places as if each command were atomic: a place is booked only where there is
\* one, an enrollment takes the booked place, a transfer exchanges its own.
THEOREM KeepsTheBooking == Spec => ImplementsBooking
<1>1. SInv /\ [Next]_vars => SInv'
  BY SInvStep
<1> QED BY SInvInit, BookingInit, <1>1, BookingStep, PTL DEF Spec, ImplementsBooking, Booking!Spec

===============================================================================
