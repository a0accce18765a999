------------------------------ MODULE RollCall ------------------------------
(***************************************************************************)
(* The roll call of a lesson: opened for the children enrolled then, and   *)
(* marked child by child (src/attendance/services.py).                     *)
(*                                                                         *)
(* Roll calls share no state: this is one class, day and lesson.  A form   *)
(* is saved in one transaction that compares, entry after entry, the       *)
(* version its page showed, and keeps each row it writes until it commits. *)
(* Justifications are decided under the lock of their own row and never    *)
(* touch the entries.                                                      *)
(***************************************************************************)
EXTENDS Naturals

CONSTANTS
    Marks,      \* statuses of an entry, "PRESENT" among them
    Pupils,     \* children, numbered in the order the forms list them
    Markers,    \* people marking the roll
    MaxMarks    \* bound on the versions of an entry

ASSUME RollAssumption == "PRESENT" \in Marks /\ Pupils \subseteq Nat /\ MaxMarks \in Nat \ {0}

VARIABLES
    roll,       \* entries of the call, <<>> before it is opened
    screen,     \* versions each person's page shows
    marking     \* the form a person is saving

rollVars == <<roll, screen, marking>>

\* version: counted from 1; seen: the one that whoever wrote the entry last had
\* before them, 0 for the opening of the call.
Entry == [mark : Marks, version : 1..MaxMarks, seen : 0..MaxMarks]

\* marks: the form; seen: the versions it was filled in with; todo: entries
\* still to write; the others of the form are written and locked.
NotMarking == [marks |-> <<>>, seen |-> <<>>, todo |-> {}]

SavedForms(children) ==
    UNION {[marks : [some -> Marks], seen : [some -> 1..MaxMarks], todo : SUBSET some] :
           some \in SUBSET children}

RollInit ==
    /\ roll = <<>>
    /\ screen = [m \in Markers |-> <<>>]
    /\ marking = [m \in Markers |-> NotMarking]

Versions == [s \in DOMAIN roll |-> roll[s].version]

\* One call per class, day and lesson; everybody enrolled at this moment is
\* entered as present.  (A class without pupils has a call with nothing to mark.)
OpenAttendance(enrolled) ==
    /\ roll = <<>> /\ enrolled # {}
    /\ roll' = [s \in enrolled |-> [mark |-> "PRESENT", version |-> 1, seen |-> 0]]
    /\ UNCHANGED <<screen, marking>>

LoadPage(m) ==
    /\ roll # <<>>
    /\ screen' = [screen EXCEPT ![m] = Versions]
    /\ UNCHANGED <<roll, marking>>

\* record_attendance: the whole page at once.
BeginRecord(m, marks) ==
    /\ marking[m] = NotMarking
    /\ screen[m] # <<>> /\ DOMAIN marks = DOMAIN screen[m]
    /\ marking' = [marking EXCEPT ![m] =
                     [marks |-> marks, seen |-> screen[m], todo |-> DOMAIN marks]]
    /\ UNCHANGED <<roll, screen>>

\* update_entry: one entry, with the version it reads first.
BeginUpdate(m, s, mark) ==
    /\ marking[m] = NotMarking
    /\ s \in DOMAIN roll
    /\ marking' = [marking EXCEPT ![m] =
                     [marks |-> [x \in {s} |-> mark],
                      seen |-> [x \in {s} |-> roll[s].version], todo |-> {s}]]
    /\ UNCHANGED <<roll, screen>>

Written(m) == DOMAIN marking[m].marks \ marking[m].todo

\* Slip: the last save wins.
WriteEntryUnchecked(m, s) ==
    /\ s \in marking[m].todo
    /\ \A x \in marking[m].todo : s <= x
    /\ \A other \in Markers \ {m} : s \notin Written(other)
    /\ roll[s].version < MaxMarks
    /\ marking' = [marking EXCEPT ![m].todo = @ \ {s}]
    /\ UNCHANGED <<roll, screen>>

\* save: waits for whoever wrote the row, then compares the version again.
WriteEntry(m, s) ==
    /\ s \in marking[m].todo
    /\ \A x \in marking[m].todo : s <= x
    /\ \A other \in Markers \ {m} : s \notin Written(other)
    /\ roll[s].version = marking[m].seen[s]
    /\ roll[s].version < MaxMarks
    /\ marking' = [marking EXCEPT ![m].todo = @ \ {s}]
    /\ UNCHANGED <<roll, screen>>

CommitMarks(m) ==
    /\ marking[m] # NotMarking /\ marking[m].todo = {}
    /\ roll' = [s \in DOMAIN roll |->
                  IF s \in Written(m)
                  THEN [mark |-> marking[m].marks[s], version |-> roll[s].version + 1,
                        seen |-> marking[m].seen[s]]
                  ELSE roll[s]]
    /\ marking' = [marking EXCEPT ![m] = NotMarking]
    /\ UNCHANGED screen

\* A version that moved, or any other refusal, undoes the whole form.
AbandonMarks(m) ==
    /\ marking[m] # NotMarking
    /\ marking' = [marking EXCEPT ![m] = NotMarking]
    /\ UNCHANGED <<roll, screen>>

RollNext ==
    \/ \E enrolled \in SUBSET Pupils : OpenAttendance(enrolled)
    \/ \E m \in Markers :
         \/ LoadPage(m)
         \/ \E some \in SUBSET Pupils : \E marks \in [some -> Marks] : BeginRecord(m, marks)
         \/ \E s \in Pupils, mark \in Marks : BeginUpdate(m, s, mark)
         \/ \E s \in Pupils : WriteEntry(m, s)
         \/ CommitMarks(m)
         \/ AbandonMarks(m)

RollSpec == RollInit /\ [][RollNext]_rollVars

-----------------------------------------------------------------------------
(* Properties                                                              *)

RollTypeOK ==
    /\ DOMAIN roll \subseteq Pupils /\ roll \in [DOMAIN roll -> Entry]
    /\ screen \in [Markers -> {<<>>} \cup [DOMAIN roll -> 1..MaxMarks]]
    /\ marking \in [Markers -> SavedForms(DOMAIN roll)]

\* No mark is overwritten unseen: whoever wrote an entry last had its previous
\* version before them, although two people save whole forms at once, entry by
\* entry, from pages loaded at different times.
NoMarkLost == \A s \in DOMAIN roll : roll[s].version = roll[s].seen + 1
=============================================================================
