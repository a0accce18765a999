------------------------------- MODULE MCOutbox -------------------------------
(* A finite instance of Outbox for TLC.                                    *)
EXTENDS Outbox, TLC

\* Workers, addresses and senders are interchangeable: no safety property
\* tells them apart.
Symmetric ==
    Permutations(Workers) \cup Permutations(Addresses) \cup Permutations(Senders)
===============================================================================
