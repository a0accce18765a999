--------------------------- MODULE MCGuardianship ---------------------------
EXTENDS Guardianship, TLC

\* Guardians, and the sessions that link them, are interchangeable.
Symmetric == Permutations(Guardians) \cup Permutations(Secretaries)
=============================================================================
