----------------------------- MODULE MCReceivables -----------------------------
(* A finite instance of Receivables for TLC.                               *)
EXTENDS Receivables, TLC

\* Bound: two payments and their charges, on the titles of a contract of one
\* installment and on an ad hoc one, the contract being cancelled or closed while
\* there is one of them; or a single payment without charges, on a contract that is
\* amended twice, and cancelled or closed before the second time.
Ledger ==
    /\ used <= 3 /\ contract.revision = 1 /\ contract.count = 1
    /\ ContractFree \/ \E p \in Payments : payment[p].status = "NONE"

Schedule ==
    /\ \E p \in Payments : \A q \in Payments \ {p} : payment[q].status = "NONE"
    /\ \A i \in 1..used : billing[i].number # 0 /\ billing[i].fee = 0 /\ billing[i].interest = 0
    /\ contract.revision <= 2 \/ ContractFree

Either == Ledger \/ Schedule

\* The keys of payments are interchangeable.
Symmetric == Permutations(Payments)
===============================================================================
