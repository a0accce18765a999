----------------------------- MODULE Timetable -----------------------------
(***************************************************************************)
(* The weekly schedule of a school: time slots and the cells that put a    *)
(* class, a teacher and perhaps a room in one of them                      *)
(* (src/agenda/services.py, schedule_commands.py, time_slot_commands.py).  *)
(*                                                                         *)
(* A command resolves its data without locks, locks rows one at a time,    *)
(* checks that what it adds is available, and writes.  Validity is counted *)
(* in weeks, as the code rounds it.  Teaching licence, shift and the scope *)
(* of teachers only refuse more (Rollback); versions too, since a stale    *)
(* version is refused on a row that is already locked.                     *)
(***************************************************************************)
EXTENDS Integers, FiniteSets

CONSTANTS
    Classes, Teachers, Rooms, Slots,  \* rows, numbered in the order they are locked
    Days,
    Cells,      \* keys of the schedule rows
    Planners,   \* database sessions
    LastWeek,   \* horizon: a cell without an end is valid until then
    Beginnings, \* bound: the first weeks a cell may be created with
    Endings,    \* bound: the last weeks a cell may be given
    LastTime,   \* bound: a school day has the times 1..LastTime
    Lengths     \* bound: how long a time slot may be

Catalogue == 0  \* the School row that serializes changes to the slots
NoRoom == -1

Resources == Classes \cup Teachers \cup Rooms \cup Slots \cup {Catalogue}

ASSUME TimetableAssumption ==
    /\ Resources \subseteq Nat
    /\ \A c \in Classes, t \in Teachers, r \in Rooms, s \in Slots :
         0 < c /\ c < t /\ t < r /\ t < s /\ r < s
    /\ LastWeek \in Nat /\ LastTime \in Nat /\ Lengths \subseteq Nat
    /\ Beginnings \subseteq 1..LastWeek /\ Endings \subseteq 1..LastWeek
    /\ Cells \cap Resources = {}

VARIABLES
    cell,     \* schedule rows, by key
    span,     \* start and end of each time slot of the catalogue
    planner   \* what each session is doing

timetableVars == <<cell, span, planner>>

Weeks == 1..LastWeek
Placements == [class : Classes, teacher : Teachers, room : Rooms \cup {NoRoom},
               slot : Slots, day : Days, from : Weeks, until : Weeks]
Offers == {p \in Placements : p.from <= p.until /\ p.until \in Endings}
Intervals ==
    {i \in [start : 1..LastTime, end : 1..LastTime] :
        i.start < i.end /\ i.end - i.start \in Lengths}

\* The rows to insert, the row to shorten, the slots to write: what a session
\* has decided; the rows it still has to lock and those it holds.
Resting == [step |-> "IDLE", todo |-> {}, held |-> {},
            add |-> {}, cut |-> <<>>, put |-> <<>>]

Begun(todo, rows, add, cut, put) ==
    [step |-> "LOCKING", todo |-> todo, held |-> rows, add |-> add, cut |-> cut, put |-> put]

Unlocked(x) == \A k \in Planners : x \notin planner[k].held

\* Slip: only the class is locked.
NeededClassOnly(p) == {p.class}

\* _lock_schedule_resources: class, teacher, room and slot of every cell to add.
Needed(p) == {p.class, p.teacher, p.slot} \cup ({p.room} \ {NoRoom})

SameWeeks(p, q) == p.from <= q.until /\ q.from <= p.until
Shares(p, q) ==
    \/ p.class = q.class
    \/ p.teacher = q.teacher
    \/ p.room = q.room /\ p.room # NoRoom

\* _assert_resource_available, for the three resources: by key of the slot.
Clash(p, q) == Shares(p, q) /\ p.day = q.day /\ p.slot = q.slot /\ SameWeeks(p, q)

Overlap(i, j) == i.start < j.end /\ j.start < i.end

TimetableInit ==
    /\ cell = <<>>
    /\ span = <<>>
    /\ planner = [k \in Planners |-> Resting]

-----------------------------------------------------------------------------
(* Commands up to their locks                                              *)

CreateSchedule(k, p) ==
    /\ planner[k] = Resting
    /\ p.from \in Beginnings
    /\ p.slot \in DOMAIN span
    /\ planner' = [planner EXCEPT ![k] = Begun(Needed(p), {}, {p}, <<>>, <<>>)]
    /\ UNCHANGED <<cell, span>>

\* The successor keeps class, day and slot; the current row, locked first, ends
\* the day before it starts.
CreateSuccessor(k, i, p) ==
    /\ planner[k] = Resting
    /\ i \in DOMAIN cell /\ Unlocked(i)
    /\ p.class = cell[i].class /\ p.day = cell[i].day /\ p.slot = cell[i].slot
    /\ cell[i].from < p.from /\ p.from <= cell[i].until
    /\ planner' = [planner EXCEPT ![k] =
                     Begun(Needed(p), {i}, {p}, [j \in {i} |-> p.from - 1], <<>>)]
    /\ UNCHANGED <<cell, span>>

\* The last week is the one before the week of the date that was asked for.
EndSchedule(k, i, week) ==
    /\ planner[k] = Resting
    /\ i \in DOMAIN cell /\ Unlocked(i)
    /\ cell[i].from <= week /\ week <= cell[i].until
    /\ planner' = [planner EXCEPT ![k] =
                     Begun({cell[i].class}, {i}, {}, [j \in {i} |-> week], <<>>)]
    /\ UNCHANGED <<cell, span>>

\* Locks the rows of both days of the class, then copies those valid in the week.
CopyDay(k, class, source, target, week) ==
    LET rows == {i \in DOMAIN cell : cell[i].class = class /\ cell[i].day \in {source, target}}
        valid == {i \in rows : /\ cell[i].day = source
                               /\ cell[i].from <= week /\ week <= cell[i].until}
        copies == {[cell[i] EXCEPT !.day = target, !.from = week] : i \in valid}
    IN  /\ planner[k] = Resting
        /\ source # target
        /\ \A i \in rows : Unlocked(i)
        /\ valid # {}
        /\ planner' = [planner EXCEPT ![k] =
                         Begun(UNION {Needed(p) : p \in copies}, rows, copies, <<>>, <<>>)]
        /\ UNCHANGED <<cell, span>>

\* create_time_slot locks the catalogue only; update_time_slot, the slot as well.
WriteTimeSlot(k, s, interval) ==
    /\ planner[k] = Resting
    /\ planner' = [planner EXCEPT ![k] =
                     Begun({Catalogue} \cup ({s} \cap DOMAIN span), {}, {}, <<>>,
                           [x \in {s} |-> interval])]
    /\ UNCHANGED <<cell, span>>

LockNext(k, x) ==
    /\ planner[k].step = "LOCKING"
    /\ x \in planner[k].todo
    /\ \A y \in planner[k].todo : x <= y
    /\ Unlocked(x)
    /\ planner' = [planner EXCEPT ![k].todo = @ \ {x}, ![k].held = @ \cup {x}]
    /\ UNCHANGED <<cell, span>>

-----------------------------------------------------------------------------
(* Checks and writes under the locks                                       *)

\* A successor ignores the row it closes; the others compare with every row.
Available(k) ==
    \A p \in planner[k].add, i \in DOMAIN cell \ DOMAIN planner[k].cut : ~Clash(p, cell[i])

\* No slot in use is changed, and no two slots overlap.  A slot created by
\* another session meanwhile has a key of its own.
SlotsFit(k) ==
    \A s \in DOMAIN planner[k].put :
        /\ s \in DOMAIN span => s \in planner[k].held
        /\ \A i \in DOMAIN cell : cell[i].slot # s
        /\ \A t \in DOMAIN span \ {s} : ~Overlap(planner[k].put[s], span[t])

Check(k) ==
    /\ planner[k].step = "LOCKING" /\ planner[k].todo = {}
    /\ Available(k) /\ SlotsFit(k)
    /\ planner' = [planner EXCEPT ![k].step = "CHECKED"]
    /\ UNCHANGED <<cell, span>>

Shortened(k) ==
    [i \in DOMAIN cell |-> IF i \in DOMAIN planner[k].cut
                           THEN [cell[i] EXCEPT !.until = planner[k].cut[i]] ELSE cell[i]]

\* New rows take unused keys, one each.
Commit(k, key) ==
    /\ planner[k].step = "CHECKED"
    /\ DOMAIN key = planner[k].add
    /\ \A p \in DOMAIN key : key[p] \in Cells \ DOMAIN cell
    /\ \A p, q \in DOMAIN key : key[p] = key[q] => p = q
    /\ cell' = [i \in DOMAIN cell \cup {key[p] : p \in DOMAIN key} |->
                  IF i \in DOMAIN cell THEN Shortened(k)[i]
                  ELSE CHOOSE p \in DOMAIN key : key[p] = i]
    /\ span' = [s \in DOMAIN span \cup DOMAIN planner[k].put |->
                  IF s \in DOMAIN planner[k].put THEN planner[k].put[s] ELSE span[s]]
    /\ planner' = [planner EXCEPT ![k] = Resting]

\* A refused check, a stale version, a person out of scope.
Abandon(k) ==
    /\ planner[k] # Resting
    /\ planner' = [planner EXCEPT ![k] = Resting]
    /\ UNCHANGED <<cell, span>>

TimetableNext ==
    \E k \in Planners :
        \/ \E p \in Offers :
             CreateSchedule(k, p) \/ \E i \in DOMAIN cell : CreateSuccessor(k, i, p)
        \/ \E i \in DOMAIN cell, week \in Weeks : EndSchedule(k, i, week)
        \/ \E class \in Classes, source, target \in Days, week \in Weeks :
             CopyDay(k, class, source, target, week)
        \/ \E s \in Slots, interval \in Intervals : WriteTimeSlot(k, s, interval)
        \/ \E x \in Resources : LockNext(k, x)
        \/ Check(k)
        \/ \E key \in [planner[k].add -> Cells] : Commit(k, key)
        \/ Abandon(k)

TimetableSpec == TimetableInit /\ [][TimetableNext]_timetableVars

-----------------------------------------------------------------------------
(* Properties                                                              *)

\* In no week is a class, a teacher or a room in two cells whose times of the
\* day overlap, whatever sessions create, replace, end and copy at once, and
\* although availability is only compared by slot: it takes the locks of every
\* resource, of the closed row, and the catalogue that keeps slots apart.
NoDoubleBooking ==
    \A i, j \in DOMAIN cell :
        (/\ i # j
         /\ Shares(cell[i], cell[j]) /\ cell[i].day = cell[j].day
         /\ SameWeeks(cell[i], cell[j]))
        => ~Overlap(span[cell[i].slot], span[cell[j].slot])
=============================================================================
