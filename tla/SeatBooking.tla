----------------------------- MODULE SeatBooking -----------------------------
(***************************************************************************)
(* What the enrollment workflow promises about places in classes, without  *)
(* applications, reviews, checklists, sessions or locks.                   *)
(*                                                                         *)
(* A student books a class that has a free seat, one class a year at most. *)
(* A booking is given up, or becomes a place in the same class: the first  *)
(* of that year, or in exchange for the one the student has, at once.      *)
(***************************************************************************)
EXTENDS Naturals, FiniteSets

CONSTANTS Students, Classes, NextYear, MaxSeats

VARIABLES
    home,      \* the classes each student is enrolled in
    booked,    \* the classes each student has booked
    capacity   \* seats of each class

bookingVars == <<home, booked, capacity>>

SameYear(c, d) == c \in NextYear <=> d \in NextYear

Taken(c) ==
    Cardinality({s \in Students : c \in home[s]}) + Cardinality({s \in Students : c \in booked[s]})

Init ==
    /\ home = [s \in Students |-> {}]
    /\ booked = [s \in Students |-> {}]
    /\ capacity \in [Classes -> 1 .. MaxSeats]

Book(s, c) ==
    /\ Taken(c) < capacity[c]
    /\ \A d \in booked[s] : ~SameYear(c, d)
    /\ booked' = [booked EXCEPT ![s] = @ \cup {c}]
    /\ UNCHANGED <<home, capacity>>

GiveUp(s, c) ==
    /\ c \in booked[s]
    /\ booked' = [booked EXCEPT ![s] = @ \ {c}]
    /\ UNCHANGED <<home, capacity>>

Enroll(s, c) ==
    /\ c \in booked[s]
    /\ \A d \in home[s] : ~SameYear(c, d)
    /\ booked' = [booked EXCEPT ![s] = @ \ {c}]
    /\ home' = [home EXCEPT ![s] = @ \cup {c}]
    /\ UNCHANGED capacity

Exchange(s, c, d) ==
    /\ c \in booked[s] /\ d \in home[s] /\ SameYear(c, d)
    /\ booked' = [booked EXCEPT ![s] = @ \ {c}]
    /\ home' = [home EXCEPT ![s] = (@ \ {d}) \cup {c}]
    /\ UNCHANGED capacity

Leave(s, c) ==
    /\ c \in home[s]
    /\ home' = [home EXCEPT ![s] = @ \ {c}]
    /\ UNCHANGED <<booked, capacity>>

\* The school may give a class any number of seats, fewer than are taken too.
Resize(c, n) ==
    /\ capacity' = [capacity EXCEPT ![c] = n]
    /\ UNCHANGED <<home, booked>>

Next ==
    \/ \E s \in Students, c \in Classes : Book(s, c) \/ GiveUp(s, c) \/ Enroll(s, c) \/ Leave(s, c)
    \/ \E s \in Students, c, d \in Classes : Exchange(s, c, d)
    \/ \E c \in Classes, n \in 0 .. MaxSeats : Resize(c, n)

Spec == Init /\ [][Next]_bookingVars
===============================================================================
