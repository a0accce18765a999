---------------------------- MODULE MCActivityScores ----------------------------
(* A finite instance of ActivityScores for TLC.                            *)
EXTENDS ActivityScores, TLC

Symmetric ==
    Permutations(Students) \cup Permutations(Classes)
        \cup Permutations(Activities) \cup Permutations(Sessions)
===============================================================================
