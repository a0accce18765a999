----------------------------- MODULE Receivables -----------------------------
(***************************************************************************)
(* Accounts receivable of one student: a financial contract with its       *)
(* schedule of billings, ad hoc billings, and the payments distributed     *)
(* over them (src/financeiro/services).                                    *)
(*                                                                         *)
(* A command that locks every row it reads before it decides is one        *)
(* action.  cancel_contract and close_contract lock the contract only and  *)
(* read its billings without a lock: each is a begin and an end step, with *)
(* `hold' for what the open transaction has read.  Commands that need the  *)
(* contract row wait for it; payments do not.                              *)
(*                                                                         *)
(* Time advances in whole competencies: tick n is the month of installment *)
(* n, whose due date falls on that tick.  Money is in whole units, rates   *)
(* are per unit of principal (and per tick for interest).                  *)
(***************************************************************************)
EXTENDS Integers, FiniteSets, Functions

CONSTANTS
    Payments,        \* payment rows, one per idempotency key
    MaxBillings,     \* bound: billing rows
    MaxAdHoc,        \* bound: those of them born ad hoc
    LastDay,         \* bound: ticks of the calendar
    MaxRevisions,    \* bound: revisions of the contract's terms
    Counts,          \* installment counts a contract may be given
    Values,          \* net installment and ad hoc values
    Amounts,         \* amounts a payment may allocate to a billing
    Parts,           \* numbers of parts of a renegotiation
    Agreed,          \* values agreed in it; 0: the whole balance
    LateFeeRate, InterestRate

ASSUME ReceivablesAssumption ==
    /\ IsFiniteSet(Payments)
    /\ MaxBillings \in Nat /\ MaxAdHoc \in Nat /\ LastDay \in Nat \ {0} /\ MaxRevisions \in Nat \ {0}
    /\ Counts \subseteq Nat \ {0}
    /\ Values \subseteq Nat \ {0}
    /\ Amounts \subseteq Nat \ {0}
    /\ Parts \subseteq Nat \ {0} /\ Agreed \subseteq Nat
    /\ LateFeeRate \in Nat /\ InterestRate \in Nat

VARIABLES
    today,       \* the calendar
    contract,    \* the contract: status, revision, count, value, last vigency
    billing,     \* table of billings; rows 1..used were inserted, in order
    used,
    payment,     \* table of payments: status, date, receipt
    part,        \* part[p][i]: the allocation of payment p to billing i
    receipts,    \* last number of the receipt sequence
    hold         \* the open cancel_contract or close_contract transaction

vars == <<today, contract, billing, used, payment, part, receipts, hold>>

Rows == 1..MaxBillings
Days == 1..LastDay
Pos(x) == IF x > 0 THEN x ELSE 0
Least(x, y) == IF x < y THEN x ELSE y

-----------------------------------------------------------------------------
(* Rows.                                                                   *)

NoRow == [status |-> "NONE", number |-> 0, revision |-> 0, source |-> 0,
          superseded |-> FALSE, recomposed |-> FALSE, rated |-> FALSE,
          principal |-> 0, fee |-> 0, interest |-> 0, until |-> 0, due |-> 0,
          paid |-> 0, paidFee |-> 0, paidInterest |-> 0, paidPrincipal |-> 0]

\* number 0: no contract; source 0: not born of a renegotiation; until 0: no
\* interest assessed; superseded: cancelled by an amendment; recomposed: it
\* carries the components of a reversed allocation.
BillingRows ==
    [status : {"NONE", "ACTIVE", "CANCELLED"}, number : Nat, revision : Nat, source : Nat,
     superseded : BOOLEAN, recomposed : BOOLEAN, rated : BOOLEAN,
     principal : Nat, fee : Nat, interest : Nat, until : Nat, due : Nat,
     paid : Nat, paidFee : Nat, paidInterest : Nat, paidPrincipal : Nat]

NoPart == [amount |-> 0, fee |-> 0, interest |-> 0, principal |-> 0]

Idle == [op |-> "none", rows |-> {}, stale |-> FALSE]

Owed(b) == b.principal + b.fee + b.interest
Outstanding(b) == Pos(Owed(b) - b.paid)
Open(b) == b.status = "ACTIVE" /\ Outstanding(b) > 0

Allocated(p) == {i \in Rows : part[p][i].amount > 0}

\* Some conciliated payment, reversed or not, was distributed to the billing.
HasHistory(i) ==
    \E p \in Payments :
        i \in Allocated(p) /\ payment[p].status \in {"CONFIRMED", "REVERSED"}

-----------------------------------------------------------------------------
(* Late charges: a fee once, interest on the unpaid principal since the    *)
(* last assessment.                                                        *)

Assessable(b, date) == Open(b) /\ b.until # 0 => date >= b.until

\* (A slip: interest restarts at the due date in every assessment.)
AssessedFromDue(b, date) ==
    IF ~Open(b) \/ date <= b.due \/ ~b.rated THEN b
    ELSE [b EXCEPT !.fee = IF @ = 0 THEN b.principal * LateFeeRate ELSE @,
                   !.interest = @ + Pos(b.principal - b.paidPrincipal) * InterestRate
                                    * (date - b.due),
                   !.until = date]

Assessed(b, date) ==
    IF ~Open(b) \/ date <= b.due \/ ~b.rated THEN b
    ELSE LET from    == IF b.until = 0 THEN b.due ELSE b.until
             unpaid  == Pos(b.principal - b.paidPrincipal)
             accrues == date > from /\ unpaid > 0
         IN [b EXCEPT
              !.fee = IF @ = 0 THEN b.principal * LateFeeRate ELSE @,
              !.interest = IF accrues THEN @ + unpaid * InterestRate * (date - from) ELSE @,
              !.until = IF accrues THEN date ELSE @]

\* An assessment later than the effective date of the first payment is undone.
TooEarly(b, date) == b.until # 0 /\ date < b.until

\* (A slip: the first payment keeps charges assessed after its date.)
ReconciledNever(b, date) == b

Reconciled(b, date) ==
    IF TooEarly(b, date) THEN [b EXCEPT !.fee = 0, !.interest = 0, !.until = 0] ELSE b

-----------------------------------------------------------------------------
(* Inserting rows: `at' gives each of the new rows its identity.           *)

Placed(S) ==
    {at \in [S -> (used + 1)..(used + Cardinality(S))] :
        \A x, y \in S : x < y => at[x] < at[y]}

WithRows(table, at, row(_)) ==
    [i \in Rows |-> IF \E x \in DOMAIN at : at[x] = i
                    THEN row(CHOOSE x \in DOMAIN at : at[x] = i)
                    ELSE table[i]]

Room(S) == used + Cardinality(S) <= MaxBillings

\* The open transaction read these rows and another one has saved them since.
Touch(S) == hold' = [hold EXCEPT !.stale = @ \/ hold.rows \cap S # {}]

ContractFree == hold.op = "none"

-----------------------------------------------------------------------------
Init ==
    /\ today = 1
    /\ contract \in [status : {"NONE"}, revision : {1}, count : Counts,
                     value : Values, effective : {0}]
    /\ billing = [i \in Rows |-> NoRow]
    /\ used = 0
    /\ payment = [p \in Payments |-> [status |-> "NONE", date |-> 0, receipt |-> 0]]
    /\ part = [p \in Payments |-> [i \in Rows |-> NoPart]]
    /\ receipts = 0
    /\ hold = Idle

Tick ==
    /\ today < LastDay
    /\ today' = today + 1
    /\ UNCHANGED <<contract, billing, used, payment, part, receipts, hold>>

-----------------------------------------------------------------------------
(* The contract and its schedule.                                          *)

Installment(n, terms) ==
    [NoRow EXCEPT !.status = "ACTIVE", !.number = n, !.revision = terms.revision,
                  !.rated = TRUE, !.principal = terms.value, !.due = n]

Originals(n) == {i \in Rows : billing[i].number = n /\ billing[i].source = 0}

CreateContract ==
    /\ contract.status = "NONE"
    /\ contract' = [contract EXCEPT !.status = "DRAFT"]
    /\ UNCHANGED <<today, billing, used, payment, part, receipts, hold>>

UpdateContractDraft(count, value) ==
    /\ ContractFree
    /\ contract.status = "DRAFT"
    /\ contract' = [contract EXCEPT !.count = count, !.value = value]
    /\ UNCHANGED <<today, billing, used, payment, part, receipts, hold>>

\* The titles that installments without any title receive, in every action
\* that materializes; a gap before the last vigency cannot be recomposed.
Missing(numbers) == {n \in numbers : Originals(n) = {}}

Materialized(missing) ==
    /\ \A n \in missing : n >= contract.effective
    /\ Room(missing)
    /\ \E at \in Placed(missing) :
          billing' = WithRows(billing, at, LAMBDA n : Installment(n, contract))
    /\ used' = used + Cardinality(missing)

ActivateContract ==
    /\ ContractFree
    /\ contract.status = "DRAFT"
    /\ contract' = [contract EXCEPT !.status = "ACTIVE"]
    /\ Materialized(Missing(1..contract.count))
    /\ UNCHANGED <<today, payment, part, receipts, hold>>

\* materialize_contract_billings, or materialize_billings_by_class for one
\* competency: they find nothing missing (see NothingLeftToMaterialize).
MaterializeBillings(numbers) ==
    /\ ContractFree
    /\ contract.status = "ACTIVE"
    /\ Materialized(Missing(numbers))
    /\ UNCHANGED <<today, contract, payment, part, receipts, hold>>

SuspendContract ==
    /\ ContractFree
    /\ contract.status = "ACTIVE"
    /\ contract' = [contract EXCEPT !.status = "SUSPENDED"]
    /\ UNCHANGED <<today, billing, used, payment, part, receipts, hold>>

\* The titles an amendment in force from `from' replaces, locked before they
\* are examined.
Future(from) ==
    {i \in Rows : /\ billing[i].status = "ACTIVE" /\ billing[i].number # 0
                  /\ billing[i].source = 0 /\ billing[i].due >= from}

\* (A slip: any cancelled title of an amendment's vigency is scheduled again.)
ScheduledAgain(from, count) ==
    {n \in 1..count :
        \/ \E i \in Future(from) : billing[i].number = n
        \/ n >= from /\ ~\E i \in Originals(n) : billing[i].status = "ACTIVE"}

\* (A slip: an amendment replaces titles and never extends the schedule.)
ScheduledReplaced(from, count) ==
    {n \in 1..count : \E i \in Future(from) : billing[i].number = n}

\* The numbers it schedules anew: those it replaces, and those inside its
\* vigency that no title ever had or that a former amendment suppressed.
Scheduled(from, count) ==
    LET Latest(n) == CHOOSE i \in Originals(n) :
                        \A j \in Originals(n) : billing[j].revision <= billing[i].revision
        Suppressed(n) == /\ n > contract.count
                         /\ billing[Latest(n)].status = "CANCELLED"
                         /\ billing[Latest(n)].superseded
    IN {n \in 1..count :
           \/ \E i \in Future(from) : billing[i].number = n
           \/ n >= from /\ (Originals(n) = {} \/ Suppressed(n))}

CreateAmendment(from, count, value) ==
    /\ ContractFree
    /\ contract.status = "ACTIVE"
    /\ contract.revision < MaxRevisions
    /\ from > today
    /\ from >= contract.effective
    /\ \A i \in Future(from) : billing[i].paid = 0
    /\ Room(Scheduled(from, count))
    /\ LET terms == [contract EXCEPT !.revision = @ + 1, !.count = count,
                                     !.value = value, !.effective = from]
           ended == [i \in Rows |->
                       IF i \in Future(from)
                       THEN [billing[i] EXCEPT !.status = "CANCELLED", !.superseded = TRUE]
                       ELSE billing[i]]
       IN /\ contract' = terms
          /\ \E at \in Placed(Scheduled(from, count)) :
                billing' = WithRows(ended, at, LAMBDA n : Installment(n, terms))
    /\ used' = used + Cardinality(Scheduled(from, count))
    /\ Touch(Future(from))
    /\ UNCHANGED <<today, payment, part, receipts>>

\* cancel_contract: lock the contract, then list the unpaid titles from the
\* current competency on, without locking them.
BeginCancelContract ==
    /\ ContractFree
    /\ contract.status \in {"DRAFT", "ACTIVE", "SUSPENDED"}
    /\ hold' = [op |-> "cancel", stale |-> FALSE,
                rows |-> {i \in Rows : /\ billing[i].status = "ACTIVE" /\ billing[i].number # 0
                                       /\ billing[i].paid = 0 /\ billing[i].due >= today}]
    /\ UNCHANGED <<today, contract, billing, used, payment, part, receipts>>

\* (A slip: cancelled titles are written without comparing versions.)
StaleNever == FALSE

\* Every save compares the version it read: one stale title undoes it all.
Stale == hold.stale

EndCancelContract ==
    /\ hold.op = "cancel"
    /\ IF Stale
       THEN UNCHANGED <<contract, billing>>
       ELSE /\ contract' = [contract EXCEPT !.status = "CANCELLED"]
            /\ billing' = [i \in Rows |-> IF i \in hold.rows
                                          THEN [billing[i] EXCEPT !.status = "CANCELLED"]
                                          ELSE billing[i]]
    /\ hold' = Idle
    /\ UNCHANGED <<today, used, payment, part, receipts>>

\* close_contract: lock the contract, whatever its status, and refuse it when
\* a title read without a lock is open.
BeginCloseContract ==
    /\ ContractFree
    /\ ~\E i \in Rows : billing[i].number # 0 /\ Open(billing[i])
    /\ hold' = [Idle EXCEPT !.op = "close"]
    /\ UNCHANGED <<today, contract, billing, used, payment, part, receipts>>

EndCloseContract ==
    /\ hold.op = "close"
    /\ contract' = [contract EXCEPT !.status = "CLOSED"]
    /\ hold' = Idle
    /\ UNCHANGED <<today, billing, used, payment, part, receipts>>

-----------------------------------------------------------------------------
(* Billings.                                                               *)

AdHoc == {i \in Rows : /\ billing[i].status # "NONE" /\ billing[i].number = 0
                       /\ billing[i].source = 0 /\ ~billing[i].recomposed}

CreateAdHocBilling(value, due) ==
    /\ Room({0}) /\ Cardinality(AdHoc) < MaxAdHoc
    /\ \E at \in Placed({0}) :
          billing' = WithRows(billing, at, LAMBDA x :
                        [NoRow EXCEPT !.status = "ACTIVE", !.principal = value, !.due = due])
    /\ used' = used + 1
    /\ UNCHANGED <<today, contract, payment, part, receipts, hold>>

CancelBilling(i) ==
    /\ billing[i].status = "ACTIVE"
    /\ billing[i].paid = 0
    /\ billing' = [billing EXCEPT ![i].status = "CANCELLED"]
    /\ Touch({i})
    /\ UNCHANGED <<today, contract, used, payment, part, receipts>>

\* The view always assesses at the current date.
AssessLateCharges(i) ==
    /\ Open(billing[i]) /\ billing[i].rated /\ today > billing[i].due
    /\ Assessable(billing[i], today)
    /\ billing' = [billing EXCEPT ![i] = Assessed(@, today)]
    /\ Touch({i})
    /\ UNCHANGED <<today, contract, used, payment, part, receipts>>

\* _split_amount: equal parts, the remainder in the last one.
Split(amount, parts, k) ==
    amount \div parts + IF k = parts THEN amount % parts ELSE 0

LastNumber == LET numbers == {billing[i].number : i \in Rows} \cup {0}
              IN CHOOSE n \in numbers : \A m \in numbers : m <= n

\* The replacement of part k of a renegotiated title: same rates, no charges,
\* next numbers of the contract when the title belongs to it.
Replacement(i, value, due, number) ==
    [NoRow EXCEPT !.status = "ACTIVE", !.source = i, !.principal = value, !.due = due,
                  !.number = number, !.rated = billing[i].rated,
                  !.revision = IF number = 0 THEN 1 ELSE contract.revision]

\* agreed 0: the whole balance, charges up to the new due date included.
RenegotiateBilling(i, due, parts, agreed) ==
    LET charged == Assessed(billing[i], due)
        amount  == IF agreed = 0 THEN Outstanding(charged) ELSE agreed
        NumberOf(k) == IF billing[i].number = 0 THEN 0 ELSE LastNumber + k
    IN /\ billing[i].number # 0 => ContractFree
       /\ Open(billing[i])
       /\ Assessable(billing[i], due)
       /\ Room(1..parts)
       /\ \E at \in Placed(1..parts) :
             billing' = WithRows([billing EXCEPT ![i] = [charged EXCEPT !.status = "CANCELLED"]],
                                 at, LAMBDA k : Replacement(i, Split(amount, parts, k),
                                                            due + k - 1, NumberOf(k)))
       /\ used' = used + parts
       /\ Touch({i})
       /\ UNCHANGED <<today, contract, payment, part, receipts>>

-----------------------------------------------------------------------------
(* Payments.                                                               *)

\* create_payment validates balances without locks and inserts a pending
\* payment that changes none.  A pending payment disables nothing, so a stale
\* validation reaches the states of a validation followed by the change.  A
\* second request with the key finds the row, or fails to insert it and then
\* finds it: it changes nothing.
CreatePayment(p, amounts, date) ==
    /\ payment[p].status = "NONE"
    /\ date <= today
    /\ \A i \in DOMAIN amounts : Open(billing[i]) /\ amounts[i] <= Outstanding(billing[i])
    /\ payment' = [payment EXCEPT ![p].status = "PENDING", ![p].date = date]
    /\ part' = [part EXCEPT ![p] =
                  [i \in Rows |-> IF i \in DOMAIN amounts
                                  THEN [NoPart EXCEPT !.amount = amounts[i]] ELSE NoPart]]
    /\ UNCHANGED <<today, contract, billing, used, receipts, hold>>

\* A billing as confirm_payment finds it after adjusting its charges to the
\* effective date, and what an amount pays of it: fee, interest, principal.
Charged(i, date) == Assessed(Reconciled(billing[i], date), date)

Components(b, amount) ==
    LET fee      == Least(amount, Pos(b.fee - b.paidFee))
        interest == Least(amount - fee, Pos(b.interest - b.paidInterest))
    IN [amount |-> amount, fee |-> fee, interest |-> interest,
        principal |-> Least(amount - fee - interest, Pos(b.principal - b.paidPrincipal))]

Credited(b, c) ==
    [b EXCEPT !.paid = @ + c.amount, !.paidFee = @ + c.fee,
              !.paidInterest = @ + c.interest, !.paidPrincipal = @ + c.principal]

\* (A slip: charges are undone although an amount already paid them.)
ReconcilableAlways(i, date) == TRUE

Reconcilable(i, date) ==
    TooEarly(billing[i], date) => billing[i].paid = 0 /\ ~HasHistory(i)

ConfirmPayment(p) ==
    LET date == payment[p].date
        paying(i) == Components(Charged(i, date), part[p][i].amount)
    IN /\ payment[p].status = "PENDING"
       /\ \A i \in Allocated(p) :
             /\ Reconcilable(i, date)
             /\ billing[i].status # "CANCELLED"
             /\ part[p][i].amount <= Outstanding(Charged(i, date))
             /\ part[p][i].amount = paying(i).fee + paying(i).interest + paying(i).principal
       /\ billing' = [i \in Rows |-> IF i \in Allocated(p)
                                     THEN Credited(Charged(i, date), paying(i))
                                     ELSE billing[i]]
       /\ part' = [part EXCEPT ![p] = [i \in Rows |-> IF i \in Allocated(p)
                                                      THEN paying(i) ELSE @[i]]]
       /\ receipts' = receipts + 1
       /\ payment' = [payment EXCEPT ![p].status = "CONFIRMED", ![p].receipt = receipts + 1]
       /\ Touch(Allocated(p))
       /\ UNCHANGED <<today, contract, used>>

\* (A slip: the reversal forgets the interest column.)
DebitedPartly(b, c) ==
    [b EXCEPT !.paid = Pos(@ - c.amount), !.paidFee = Pos(@ - c.fee),
              !.paidPrincipal = Pos(@ - c.principal)]

Debited(b, c) ==
    [b EXCEPT !.paid = Pos(@ - c.amount), !.paidFee = Pos(@ - c.fee),
              !.paidInterest = Pos(@ - c.interest),
              !.paidPrincipal = Pos(@ - c.principal)]

\* (A slip: the charges the allocation had paid are not asked for again.)
RecompositionOfPrincipal(c, due) ==
    [NoRow EXCEPT !.status = "ACTIVE", !.recomposed = TRUE, !.principal = c.principal,
                  !.due = due]

\* (A slip: the new title is left without a status.)
RecompositionUnset(c, due) ==
    [NoRow EXCEPT !.recomposed = TRUE, !.principal = c.principal,
                  !.fee = c.fee, !.interest = c.interest, !.due = due]

\* The new title of an allocation whose billing was renegotiated away.
Recomposition(c, due) ==
    [NoRow EXCEPT !.status = "ACTIVE", !.recomposed = TRUE, !.principal = c.principal,
                  !.fee = c.fee, !.interest = c.interest, !.due = due]

ReversePayment(p, due) ==
    LET orphans == {i \in Allocated(p) : billing[i].status = "CANCELLED"}
        debited == [i \in Rows |-> IF i \in Allocated(p)
                                   THEN Debited(billing[i], part[p][i]) ELSE billing[i]]
    IN /\ payment[p].status = "CONFIRMED"
       /\ \A i \in orphans : \E j \in Rows : billing[j].source = i
       /\ orphans # {} => due >= today
       /\ Room(orphans)
       /\ \E at \in Placed(orphans) :
             billing' = WithRows(debited, at, LAMBDA i : Recomposition(part[p][i], due))
       /\ used' = used + Cardinality(orphans)
       /\ payment' = [payment EXCEPT ![p].status = "REVERSED"]
       /\ Touch(Allocated(p))
       /\ UNCHANGED <<today, contract, part, receipts>>

-----------------------------------------------------------------------------
\* Bound: the due dates given to new titles.
NewDueDates == {today, LastDay}

ContractStep ==
    \/ CreateContract
    \/ \E count \in Counts, value \in Values : UpdateContractDraft(count, value)
    \/ ActivateContract
    \/ \E n \in Days : MaterializeBillings({n} \cap 1..contract.count)
    \/ MaterializeBillings(1..contract.count)
    \/ SuspendContract
    \/ \E from \in Days, count \in Counts, value \in Values : CreateAmendment(from, count, value)
    \/ BeginCancelContract
    \/ EndCancelContract
    \/ BeginCloseContract
    \/ EndCloseContract

BillingStep ==
    \/ \E value \in Values : CreateAdHocBilling(value, today)
    \/ \E i \in Rows :
          \/ CancelBilling(i)
          \/ AssessLateCharges(i)
          \/ \E due \in NewDueDates, parts \in Parts, agreed \in Agreed :
                RenegotiateBilling(i, due, parts, agreed)

PaymentStep ==
    \E p \in Payments :
        \/ \E chosen \in SUBSET {i \in Rows : Open(billing[i])} \ {{}}, date \in Days :
              \E amounts \in [chosen -> Amounts] : CreatePayment(p, amounts, date)
        \/ ConfirmPayment(p)
        \/ \E due \in NewDueDates : ReversePayment(p, due)

Next == Tick \/ ContractStep \/ BillingStep \/ PaymentStep

Spec == Init /\ [][Next]_vars
-----------------------------------------------------------------------------
(* Properties.                                                             *)

TypeOK ==
    /\ today \in Days
    /\ contract \in [status : {"NONE", "DRAFT", "ACTIVE", "SUSPENDED", "CANCELLED", "CLOSED"},
                     revision : 1..MaxRevisions, count : Counts, value : Values,
                     effective : 0..LastDay]
    /\ billing \in [Rows -> BillingRows]
    /\ used \in 0..MaxBillings
    /\ \A i \in Rows : billing[i].status = "NONE" <=> i > used
    /\ payment \in [Payments -> [status : {"NONE", "PENDING", "CONFIRMED", "REVERSED"},
                                 date : 0..LastDay, receipt : Nat]]
    /\ part \in [Payments -> [Rows -> [amount : Nat, fee : Nat, interest : Nat,
                                       principal : Nat]]]
    /\ receipts \in Nat
    /\ hold \in [op : {"none", "cancel", "close"}, rows : SUBSET Rows, stale : BOOLEAN]

ConfirmedOn(i) == {p \in Payments : payment[p].status = "CONFIRMED" /\ i \in Allocated(p)}

\* The four paid columns of a title always equal what its conciliated and not
\* reversed allocations put there, whatever renegotiations, reversals and
\* assessments happened between (confirm_payment, reverse_payment).
PaidIsAllocated ==
    \A i \in Rows :
        /\ billing[i].paid
           = SumFunctionOnSet([p \in Payments |-> part[p][i].amount], ConfirmedOn(i))
        /\ billing[i].paidFee
           = SumFunctionOnSet([p \in Payments |-> part[p][i].fee], ConfirmedOn(i))
        /\ billing[i].paidInterest
           = SumFunctionOnSet([p \in Payments |-> part[p][i].interest], ConfirmedOn(i))
        /\ billing[i].paidPrincipal
           = SumFunctionOnSet([p \in Payments |-> part[p][i].principal], ConfirmedOn(i))

\* No component of a title is ever paid beyond what it owes of it, although
\* charges are assessed, undone for an earlier first payment and assessed
\* again, and amounts are validated against balances since changed.
PaidWithinDebt ==
    \A i \in Rows :
        /\ billing[i].paidFee <= billing[i].fee
        /\ billing[i].paidInterest <= billing[i].interest
        /\ billing[i].paidPrincipal <= billing[i].principal
        /\ billing[i].paid = billing[i].paidFee + billing[i].paidInterest
                              + billing[i].paidPrincipal

\* A payment made by the due date never pays a charge, even when conciliated
\* after the title was assessed late (docs/37, "usa a data efetiva sem
\* encargos indevidos"); a recomposed title carries charges already incurred.
PunctualPaysNoCharge ==
    \A p \in Payments, i \in Rows :
        (/\ payment[p].status \in {"CONFIRMED", "REVERSED"}
         /\ payment[p].date <= billing[i].due
         /\ ~billing[i].recomposed)
        => part[p][i].fee = 0 /\ part[p][i].interest = 0

\* Interest is never charged twice for the same days: it stays within what the
\* whole principal bears from the due date to the last assessment.
InterestWithinDelay ==
    \A i \in Rows :
        ~billing[i].recomposed =>
            billing[i].interest <= billing[i].principal * InterestRate
                                   * Pos(billing[i].until - billing[i].due)

\* A title cancelled under a conciliated payment was renegotiated: nothing
\* else may cancel it, and reverse_payment never finds an orphan it refuses.
CancelledPaidWasRenegotiated ==
    \A p \in Payments, i \in Rows :
        (/\ payment[p].status = "CONFIRMED" /\ i \in Allocated(p)
         /\ billing[i].status = "CANCELLED")
        => \E j \in Rows : billing[j].source = i

\* An installment is charged by one title: beside an active title of a number,
\* every other title of that number was suppressed by an amendment, so neither
\* a paid, nor a renegotiated, nor a waived installment comes back.
InstallmentChargedOnce ==
    \A i, j \in Rows :
        (/\ i # j /\ billing[i].number # 0 /\ billing[i].number = billing[j].number
         /\ billing[i].source = 0 /\ billing[j].source = 0
         /\ billing[i].status = "ACTIVE")
        => billing[j].superseded

\* Materialization is complete when a contract is activated or amended: only
\* numbers before the last vigency may lack a title, and these are refused.
NothingLeftToMaterialize ==
    contract.status = "ACTIVE" =>
        \A n \in 1..contract.count : Originals(n) # {} \/ n < contract.effective

Claim(b) == IF b.status = "ACTIVE" THEN Outstanding(b) ELSE 0

Debt == SumFunctionOnSet([i \in Rows |-> Claim(billing[i])], Rows)

\* Reversing a payment brings back exactly its amount of debt, on the same
\* titles or on the recomposed ones, and no other step reverses a payment.
ReversalRestoresDebt ==
    [][\A p \in Payments :
         payment[p].status = "CONFIRMED" /\ payment'[p].status # "CONFIRMED"
         => /\ payment'[p].status = "REVERSED"
            /\ Debt' = Debt + SumFunctionOnSet([i \in Rows |-> part[p][i].amount], Rows)]_vars
=============================================================================
