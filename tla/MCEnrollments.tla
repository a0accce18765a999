----------------------------- MODULE MCEnrollments -----------------------------
(* A finite instance of Enrollments for TLC.                               *)
EXTENDS Enrollments, TLC

\* Students, sessions, application rows and the classes of a year are
\* interchangeable: no safety property tells them apart.
Symmetric ==
    Permutations(Students) \cup Permutations(Clerks) \cup Permutations(Applications)
===============================================================================
