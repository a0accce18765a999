------------------------------ MODULE Enrollments ------------------------------
(***************************************************************************)
(* The enrollment workflow of src/enrollments with the academic port of    *)
(* src/classes: applications, the seats they reserve, the document         *)
(* checklist that gates them, and the academic enrollments they create,    *)
(* transfer and close.                                                     *)
(*                                                                         *)
(* Every command is one database transaction at READ COMMITTED: it locks   *)
(* the student and the application, then perhaps the class, and what it    *)
(* writes is seen at its commit.  A command that waits for the class after *)
(* having read something is split at its reads: approval and completion.   *)
(* The others are one step, taken when the locks they need are free.       *)
(*                                                                         *)
(* An application creates at most one enrollment, so an enrollment is      *)
(* named by the application whose result it is: bond[a] is its status.     *)
(* NEW stands for a new enrollment and an inbound transfer, which differ   *)
(* in the texts they ask for only.                                         *)
(***************************************************************************)
EXTENDS Naturals, FiniteSets

CONSTANTS
    Students, Classes,
    NextYear,        \* the classes of the following academic year
    Applications,    \* identities of EnrollmentApplication rows
    Clerks,          \* sessions that run approvals and completions
    Documents,       \* configurable requirements
    Documented,      \* the application types they may be configured for
    None,
    MaxSeats, MaxResizes    \* bounds of the model

ASSUME EnrollmentsAssumption ==
    /\ NextYear \subseteq Classes
    /\ None \notin Classes \cup Students \cup Applications
    /\ MaxSeats \in Nat \ {0} /\ MaxResizes \in Nat
    /\ IsFiniteSet(Applications)

VARIABLES
    application,  \* EnrollmentApplication rows
    bond,         \* status of the Enrollment created for each application
    document,     \* the required items of each application's checklist
    seats,        \* Class.max_students
    tx,           \* transactions of approve_application / finalize_application
    resizes

vars == <<application, bond, document, seats, tx, resizes>>

-------------------------------------------------------------------------------
Types       == {"NEW", "REENROLLMENT", "INTERNAL_TRANSFER", "OUTBOUND_TRANSFER"}
TargetTypes == {"NEW", "REENROLLMENT", "INTERNAL_TRANSFER"}
SourceTypes == {"REENROLLMENT", "INTERNAL_TRANSFER", "OUTBOUND_TRANSFER"}
OpenStatuses ==
    {"PRE_ENROLLMENT", "CORRECTION_REQUIRED", "UNDER_REVIEW", "WAITLISTED", "APPROVED"}
Statuses == OpenStatuses \cup {"ENROLLED", "TRANSFERRED", "REJECTED", "CANCELLED"}
DocumentStatuses == {"PENDING", "SUBMITTED", "VERIFIED", "REJECTED", "WAIVED"}
Concluded == {"VERIFIED", "WAIVED"}

Blank == [status |-> "none", type |-> "NEW", student |-> None, class |-> None, source |-> None]
Idle  == [pc |-> "idle", app |-> None, holds |-> None, enrolled |-> 0]

Year(c) == IF c \in NextYear THEN 2 ELSE 1

\* academic_year: of the target class, else of the source enrollment.
ApplicationYear(r) ==
    IF r.class # None THEN Year(r.class) ELSE Year(application[r.source].class)

Status(a)    == application[a].status
Student(a)   == application[a].student
Class(a)     == application[a].class
OfStudent(s) == {a \in Applications : Status(a) # "none" /\ Student(a) = s}

ActiveIn(c)   == {a \in Applications : bond[a] = "ACTIVE" /\ Class(a) = c}
ReservedIn(c) == {a \in Applications : Status(a) = "APPROVED" /\ Class(a) = c}
Occupied(c)   == Cardinality(ActiveIn(c)) + Cardinality(ReservedIn(c))

\* Row locks: a transaction in progress holds its student, and its class once
\* it has reached it.
StudentFree(s) == \A k \in Clerks : tx[k].pc # "idle" => Student(tx[k].app) # s
ClassFree(c)   == \A k \in Clerks : tx[k].holds # c

HasActive(s, year) ==
    \E a \in OfStudent(s) : bond[a] = "ACTIVE" /\ Year(Class(a)) = year

HasOpen(s, year) ==
    \E a \in OfStudent(s) :
        Status(a) \in OpenStatuses /\ ApplicationYear(application[a]) = year

Init ==
    /\ application = [a \in Applications |-> Blank]
    /\ bond = [a \in Applications |-> "none"]
    /\ document = [a \in Applications |-> [d \in Documents |-> "none"]]
    /\ seats \in [Classes -> 1 .. MaxSeats]
    /\ tx = [k \in Clerks |-> Idle]
    /\ resizes = 0

SetStatus(a, status) == application' = [application EXCEPT ![a].status = status]

-------------------------------------------------------------------------------
(* create_application and correct_application.                             *)

\* (A slip: the target class is not required.)
ContextLoose(type, s, c, source) ==
    /\ c # None => type \in TargetTypes
    /\ source # None <=> type \in SourceTypes
    /\ source # None => source \in OfStudent(s) /\ bond[source] = "ACTIVE"

\* _reject_inconsistent_fields, _resolve_target, _resolve_source and
\* _validate_type_context.
ContextValid(type, s, c, source) ==
    /\ c # None <=> type \in TargetTypes
    /\ source # None <=> type \in SourceTypes
    /\ source # None => source \in OfStudent(s) /\ bond[source] = "ACTIVE"
    /\ type = "INTERNAL_TRANSFER" =>
          Class(source) # c /\ Year(Class(source)) = Year(c)
    /\ type = "REENROLLMENT" => Year(c) = Year(Class(source)) + 1

CreateApplication(a, type, s, c, source) ==
    LET row == [status |-> "PRE_ENROLLMENT", type |-> type, student |-> s,
                class |-> c, source |-> source]
    IN  /\ Status(a) = "none"
        /\ StudentFree(s) /\ (c # None => ClassFree(c))
        /\ ContextValid(type, s, c, source)
        /\ type \in {"NEW", "REENROLLMENT"} => ~HasActive(s, Year(c))
        /\ ~HasOpen(s, ApplicationYear(row))
        /\ application' = [application EXCEPT ![a] = row]
        /\ \E required \in SUBSET (IF type \in Documented THEN Documents ELSE {}) :
              document' = [document EXCEPT ![a] =
                  [d \in Documents |-> IF d \in required THEN "PENDING" ELSE "none"]]
        /\ UNCHANGED <<bond, seats, tx, resizes>>

\* (A slip: the correction may move the application to another year.)
SomeYear(a, row) == TRUE

SameYear(a, row) == ApplicationYear(row) = ApplicationYear(application[a])

CorrectApplication(a, c, source) ==
    LET row == [application[a] EXCEPT !.class = c, !.source = source]
    IN  /\ Status(a) \in {"PRE_ENROLLMENT", "CORRECTION_REQUIRED"}
        /\ StudentFree(Student(a)) /\ (c # None => ClassFree(c))
        /\ ContextValid(application[a].type, Student(a), c, source)
        /\ SameYear(a, row)
        /\ application' = [application EXCEPT ![a] = row]
        /\ UNCHANGED <<bond, document, seats, tx, resizes>>

SubmitApplication(a) ==
    /\ Status(a) \in {"PRE_ENROLLMENT", "CORRECTION_REQUIRED"}
    /\ StudentFree(Student(a))
    /\ SetStatus(a, "UNDER_REVIEW")
    /\ UNCHANGED <<bond, document, seats, tx, resizes>>

RequestCorrection(a) ==
    /\ Status(a) \in {"UNDER_REVIEW", "WAITLISTED", "APPROVED"}
    /\ StudentFree(Student(a))
    /\ SetStatus(a, "CORRECTION_REQUIRED")
    /\ UNCHANGED <<bond, document, seats, tx, resizes>>

RejectApplication(a) ==
    /\ Status(a) \in {"UNDER_REVIEW", "WAITLISTED"}
    /\ StudentFree(Student(a))
    /\ SetStatus(a, "REJECTED")
    /\ UNCHANGED <<bond, document, seats, tx, resizes>>

\* cancel_application: an enrolled application closes its enrollment too.
CancelApplication(a) ==
    /\ Status(a) \in OpenStatuses \cup {"ENROLLED"}
    /\ StudentFree(Student(a))
    /\ Status(a) = "ENROLLED" => bond[a] = "ACTIVE"
    /\ bond' = IF Status(a) = "ENROLLED" THEN [bond EXCEPT ![a] = "CANCELLED"] ELSE bond
    /\ SetStatus(a, "CANCELLED")
    /\ UNCHANGED <<document, seats, tx, resizes>>

-------------------------------------------------------------------------------
(* Transactions that wait for the class.                                   *)

BeginApproval(k, a) ==
    /\ tx[k] = Idle
    /\ Status(a) \in {"UNDER_REVIEW", "WAITLISTED"}
    /\ StudentFree(Student(a))
    /\ application[a].type \in {"NEW", "REENROLLMENT"} => ~HasActive(Student(a), Year(Class(a)))
    /\ IF Class(a) = None
       THEN SetStatus(a, "APPROVED") /\ UNCHANGED tx
       ELSE tx' = [tx EXCEPT ![k] = [Idle EXCEPT !.pc = "approving", !.app = a]]
            /\ UNCHANGED application
    /\ UNCHANGED <<bond, document, seats, resizes>>

\* (A slip: the class row is read without its lock.)
LockableUnlocked(c) == TRUE

Lockable(c) == ClassFree(c)

LockClass(k) ==
    LET c == Class(tx[k].app) IN
    /\ tx[k].pc \in {"approving", "completing"}
    /\ tx[k].holds = None
    /\ Lockable(c)
    /\ tx' = [tx EXCEPT ![k].holds = c]
    /\ UNCHANGED <<application, bond, document, seats, resizes>>

\* The count of active enrollments, read before the count of reservations.
CountEnrolled(k) ==
    /\ tx[k].pc = "approving" /\ tx[k].holds # None
    /\ tx' = [tx EXCEPT ![k].pc = "counted",
                        ![k].enrolled = Cardinality(ActiveIn(tx[k].holds))]
    /\ UNCHANGED <<application, bond, document, seats, resizes>>

\* (A slip: only the enrolled count against the seats.)
FullOfEnrolled(k) == tx[k].enrolled >= seats[tx[k].holds]

Full(k) ==
    tx[k].enrolled + Cardinality(ReservedIn(tx[k].holds) \ {tx[k].app}) >= seats[tx[k].holds]

\* A full class puts a reviewed application on the waiting list; one already
\* there is refused and the transaction rolls back.
DecideApproval(k) ==
    LET a == tx[k].app IN
    /\ tx[k].pc = "counted"
    /\ application' =
          IF Full(k)
          THEN [application EXCEPT ![a].status = "WAITLISTED"]
          ELSE [application EXCEPT ![a].status = "APPROVED"]
    /\ tx' = [tx EXCEPT ![k] = Idle]
    /\ UNCHANGED <<bond, document, seats, resizes>>

DocumentsComplete(a) == \A d \in Documents : document[a][d] \in Concluded \cup {"none"}

\* (A slip: the application that made the source enrollment keeps its status.)
WithoutSource(a, status) == [application EXCEPT ![a].status = status]

\* The application that created the source enrollment follows it.
WithSource(a, status) ==
    [x \in Applications |->
        IF x = a THEN [application[x] EXCEPT !.status = status]
        ELSE IF x = application[a].source /\ Status(x) = "ENROLLED"
             THEN [application[x] EXCEPT !.status = "TRANSFERRED"]
             ELSE application[x]]

FinalizeOutbound(a) ==
    LET source == application[a].source IN
    /\ Status(a) = "APPROVED" /\ application[a].type = "OUTBOUND_TRANSFER"
    /\ StudentFree(Student(a))
    /\ DocumentsComplete(a)
    /\ bond[source] = "ACTIVE"
    /\ bond' = [bond EXCEPT ![source] = "TRANSFERRED"]
    /\ application' = WithSource(a, "TRANSFERRED")
    /\ UNCHANGED <<document, seats, tx, resizes>>

BeginFinalize(k, a) ==
    /\ tx[k] = Idle
    /\ Status(a) = "APPROVED" /\ Class(a) # None
    /\ StudentFree(Student(a))
    /\ DocumentsComplete(a)
    /\ tx' = [tx EXCEPT ![k] = [Idle EXCEPT !.pc = "completing", !.app = a]]
    /\ UNCHANGED <<application, bond, document, seats, resizes>>

SeatLeft(c) == Cardinality(ActiveIn(c)) < seats[c]

\* create_from_application.
CompleteEnrollment(k) ==
    LET a == tx[k].app IN
    /\ tx[k].pc = "completing" /\ tx[k].holds # None
    /\ application[a].type \in {"NEW", "REENROLLMENT"}
    /\ ~HasActive(Student(a), Year(Class(a)))
    /\ SeatLeft(Class(a))
    /\ bond' = [bond EXCEPT ![a] = "ACTIVE"]
    /\ SetStatus(a, "ENROLLED")
    /\ tx' = [tx EXCEPT ![k] = Idle]
    /\ UNCHANGED <<document, seats, resizes>>

\* (A slip: the source enrollment stays active.)
MovedBeside(a) == [bond EXCEPT ![a] = "ACTIVE"]

Moved(a) == [bond EXCEPT ![a] = "ACTIVE", ![application[a].source] = "TRANSFERRED"]

\* transfer_from_application.
CompleteTransfer(k) ==
    LET a == tx[k].app IN
    /\ tx[k].pc = "completing" /\ tx[k].holds # None
    /\ application[a].type = "INTERNAL_TRANSFER"
    /\ bond[application[a].source] = "ACTIVE"
    /\ SeatLeft(Class(a))
    /\ bond' = Moved(a)
    /\ application' = WithSource(a, "TRANSFERRED")
    /\ tx' = [tx EXCEPT ![k] = Idle]
    /\ UNCHANGED <<document, seats, resizes>>

\* A refused command, a lost connection: nothing of the transaction remains.
Rollback(k) ==
    /\ tx[k].pc # "idle"
    /\ tx' = [tx EXCEPT ![k] = Idle]
    /\ UNCHANGED <<application, bond, document, seats, resizes>>

-------------------------------------------------------------------------------
(* The checklist: each command locks the document alone.                   *)

SetDocument(a, d, status) ==
    /\ document' = [document EXCEPT ![a][d] = status]
    /\ UNCHANGED <<application, bond, seats, tx, resizes>>

\* (A slip: only a waived document is closed to a new delivery.)
DeliverableAgain(a, d) == document[a][d] \notin {"none", "WAIVED"}

Deliverable(a, d) == document[a][d] \notin {"none"} \cup Concluded

RecordDelivery(a, d) ==
    Deliverable(a, d) /\ SetDocument(a, d, "SUBMITTED")

VerifyDocument(a, d) == document[a][d] = "SUBMITTED" /\ SetDocument(a, d, "VERIFIED")

RejectDocument(a, d) == document[a][d] = "SUBMITTED" /\ SetDocument(a, d, "REJECTED")

WaiveDocument(a, d) ==
    document[a][d] \notin {"none"} \cup Concluded /\ SetDocument(a, d, "WAIVED")

\* update_class: nothing compares the new number of seats with the class.
ResizeClass(c, n) ==
    /\ resizes < MaxResizes
    /\ n # seats[c]
    /\ ClassFree(c)
    /\ seats' = [seats EXCEPT ![c] = n]
    /\ resizes' = resizes + 1
    /\ UNCHANGED <<application, bond, document, tx>>

-------------------------------------------------------------------------------
Edit(a) ==
    \/ \E type \in Types, s \in Students, c \in Classes \cup {None},
          source \in Applications \cup {None} : CreateApplication(a, type, s, c, source)
    \/ \E c \in Classes \cup {None}, source \in Applications \cup {None} :
          CorrectApplication(a, c, source)
    \/ SubmitApplication(a)
    \/ RequestCorrection(a)
    \/ RejectApplication(a)
    \/ CancelApplication(a)
    \/ FinalizeOutbound(a)

Checklist(a, d) ==
    \/ RecordDelivery(a, d)
    \/ VerifyDocument(a, d)
    \/ RejectDocument(a, d)
    \/ WaiveDocument(a, d)

Transact(k) ==
    \/ \E a \in Applications : BeginApproval(k, a)
    \/ \E a \in Applications : BeginFinalize(k, a)
    \/ LockClass(k)
    \/ CountEnrolled(k)
    \/ DecideApproval(k)
    \/ CompleteEnrollment(k)
    \/ CompleteTransfer(k)
    \/ Rollback(k)

Next ==
    \/ \E a \in Applications : Edit(a)
    \/ \E a \in Applications, d \in Documents : Checklist(a, d)
    \/ \E k \in Clerks : Transact(k)
    \/ \E c \in Classes, n \in 0 .. MaxSeats : ResizeClass(c, n)

Spec == Init /\ [][Next]_vars

-------------------------------------------------------------------------------
(* Correctness.                                                            *)

ApplicationType ==
    [status : Statuses \cup {"none"}, type : Types, student : Students \cup {None},
     class : Classes \cup {None}, source : Applications \cup {None}]

TxType ==
    [pc : {"idle", "approving", "counted", "completing"}, app : Applications \cup {None},
     holds : Classes \cup {None}, enrolled : Nat]

\* Every column keeps the values its choices allow, and an application has the
\* target and the source its type asks for, through every correction.
TypeOK ==
    /\ application \in [Applications -> ApplicationType]
    /\ \A a \in Applications : Status(a) # "none" =>
          /\ Class(a) # None <=> application[a].type \in TargetTypes
          /\ application[a].source # None <=> application[a].type \in SourceTypes
    /\ bond \in [Applications -> {"none", "ACTIVE", "TRANSFERRED", "CANCELLED"}]
    /\ document \in [Applications -> [Documents -> DocumentStatuses \cup {"none"}]]
    /\ seats \in [Classes -> 0 .. MaxSeats]
    /\ tx \in [Clerks -> TxType]
    /\ resizes \in 0 .. MaxResizes

\* docs/01_PRD.md: approval reserves a seat.  However approvals, completions and
\* transfers of different students interleave, a seat is taken (by a
\* reservation or an enrollment) only while the class has one.
SeatsNotOversold ==
    [][\A c \in Classes : Occupied(c)' > Occupied(c) => Occupied(c)' <= seats'[c]]_vars

\* While no class is resized, the seat an approval reserved is there when the
\* enrollment is completed: create_from_application never finds it taken.
ReservationHonored ==
    resizes = 0 => \A a \in Applications :
        Status(a) = "APPROVED" /\ Class(a) # None => SeatLeft(Class(a))

\* docs/05_DATABASE.md: one active enrollment per student and year, through
\* transfers, reenrollments and cancellations.
OneActivePerYear ==
    \A a, b \in Applications :
        /\ a # b /\ bond[a] = "ACTIVE" /\ bond[b] = "ACTIVE" /\ Student(a) = Student(b)
        => Year(Class(a)) # Year(Class(b))

\* docs/05_DATABASE.md: one open application per student and year.
OneOpenPerYear ==
    \A a, b \in Applications :
        /\ a # b /\ Status(a) \in OpenStatuses /\ Status(b) \in OpenStatuses
        /\ Student(a) = Student(b)
        => ApplicationYear(application[a]) # ApplicationYear(application[b])

\* The workflow and the academic record agree: an enrolled application has its
\* enrollment active, and an active enrollment is the result of an application
\* enrolled or completed as an internal transfer.
EnrolledHasBond ==
    \A a \in Applications :
        /\ Status(a) = "ENROLLED" => bond[a] = "ACTIVE"
        /\ bond[a] = "ACTIVE" =>
              \/ Status(a) = "ENROLLED"
              \/ Status(a) = "TRANSFERRED" /\ application[a].type = "INTERNAL_TRANSFER"

\* docs/adr/0020: required documents block completion.  They are read without a
\* lock; what was concluded stays so, and an enrollment never lacks them.
EnrollmentHasDocuments ==
    \A a \in Applications : bond[a] # "none" => DocumentsComplete(a)

(***************************************************************************)
(* The other parts of the inductive invariant.                             *)
(***************************************************************************)

\* An application belongs to a student, and its source is an enrollment the same
\* student had: of the same year when it is to be transferred within the school.
Rooted(a) ==
    Status(a) # "none" =>
        /\ Student(a) \in Students
        /\ application[a].source # None =>
              /\ Status(application[a].source) # "none"
              /\ Student(application[a].source) = Student(a)
              /\ bond[application[a].source] # "none"
              /\ application[a].type = "INTERNAL_TRANSFER" =>
                    Year(Class(application[a].source)) = Year(Class(a))

\* An application bears an enrollment only once completed, in its target class,
\* and can no longer be corrected.
BoundWhenCompleted(a) ==
    bond[a] # "none" => /\ Status(a) \in {"ENROLLED", "TRANSFERRED", "CANCELLED"}
                        /\ Class(a) \in Classes

\* A transaction in progress keeps its application as it found it, and its
\* student to itself.
Serialized(k) ==
    tx[k].pc # "idle" =>
        /\ tx[k].app \in Applications /\ Class(tx[k].app) \in Classes
        /\ tx[k].pc \in {"approving", "counted"} => Status(tx[k].app) \in {"UNDER_REVIEW", "WAITLISTED"}
        /\ tx[k].pc = "completing" => Status(tx[k].app) = "APPROVED" /\ DocumentsComplete(tx[k].app)
        /\ \A j \in Clerks \ {k} : tx[j].pc # "idle" => Student(tx[j].app) # Student(tx[k].app)

Orderly ==
    /\ \A a \in Applications : Rooted(a) /\ BoundWhenCompleted(a)
    /\ \A k \in Clerks : Serialized(k)

\* The class a transaction holds is its application's, and nobody else's; the
\* enrollments it counted there are still at most as many.
ClassHeld(k) ==
    /\ tx[k].pc = "idle" => tx[k].holds = None
    /\ tx[k].holds # None =>
          /\ tx[k].holds = Class(tx[k].app)
          /\ \A j \in Clerks \ {k} : tx[j].holds # tx[k].holds
    /\ tx[k].pc = "counted" =>
          tx[k].holds # None /\ Cardinality(ActiveIn(tx[k].holds)) <= tx[k].enrolled

\* While no class is resized, reservations and enrollments fit its seats.
SeatsKept == resizes = 0 => \A c \in Classes : Occupied(c) <= seats[c]

Seated == SeatsKept /\ \A k \in Clerks : ClassHeld(k)

(***************************************************************************)
(* The workflow implements SeatBooking: a student has the places of the    *)
(* active enrollments and the bookings of the approved applications.       *)
(***************************************************************************)
Home == [s \in Students |-> {Class(a) : a \in {b \in Applications :
                                               bond[b] = "ACTIVE" /\ Student(b) = s}}]

Booked == [s \in Students |-> {Class(a) : a \in {b \in Applications :
                                 Status(b) = "APPROVED" /\ Class(b) # None /\ Student(b) = s}}]

Booking == INSTANCE SeatBooking WITH home <- Home, booked <- Booked, capacity <- seats

\* Approvals, completions and transfers of split transactions look atomic: a
\* place is booked only while there is one, an enrollment takes the place its
\* approval booked, and a transfer exchanges one place for another at once.
ImplementsBooking == Booking!Spec

===============================================================================
