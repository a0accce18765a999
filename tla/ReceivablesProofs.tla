------------------------- MODULE ReceivablesProofs -------------------------
(***************************************************************************)
(* Theorems of Receivables, for any number of titles, payments, days and   *)
(* revisions and any values, rates and parts of a renegotiation: types,    *)
(* interest within the delay, every installment charged by one title, and  *)
(* none of the contract's vigency forgotten.                               *)
(*                                                                         *)
(* Each row satisfies RowOK on its own, and a step rewrites rows as their  *)
(* kin: an original title keeps its number and revision, and once replaced *)
(* stays replaced.  The originals of an installment are therefore a chain  *)
(* of replacements, of which only the last may still be charged (LastOf).  *)
(***************************************************************************)
EXTENDS Receivables, FiniteSetTheorems, WellFoundedInduction, TLAPS

-------------------------------------------------------------------------------
(* Helpers, row by row.                                                    *)

LEMMA PosType == \A x \in Int : Pos(x) \in Nat /\ Pos(x) >= x
BY DEF Pos

\* The rows inserted at once are as many as there are numbers between the ends.
LEMMA NewRowsSize ==
    ASSUME NEW first \in Nat, NEW count \in Nat
    PROVE  /\ IsFiniteSet((first + 1)..(first + count))
           /\ Cardinality((first + 1)..(first + count)) = count
<1> DEFINE low == first + 1
           high == first + count
<1>1. low \in Int /\ high \in Int
  OBVIOUS
<1> HIDE DEF low, high
<1>2. IsFiniteSet(low..high) /\ Cardinality(low..high) = IF low > high THEN 0 ELSE high - low + 1
  BY <1>1, FS_Interval
<1> USE DEF low, high
<1>3. (IF low > high THEN 0 ELSE high - low + 1) = count
  OBVIOUS
<1> QED BY <1>2, <1>3

LEMMA AtCovers ==
    ASSUME used \in Nat, NEW S, IsFiniteSet(S), NEW at \in Placed(S), S \subseteq Int
    PROVE  /\ Cardinality(S) \in Nat
           /\ at \in [S -> (used + 1)..(used + Cardinality(S))]
           /\ \A x, y \in S : at[x] = at[y] => x = y
           /\ \A i \in (used + 1)..(used + Cardinality(S)) : \E x \in S : at[x] = i
<1> DEFINE T == (used + 1)..(used + Cardinality(S))
<1>1. Cardinality(S) \in Nat
  BY FS_CardinalityType
<1>2. at \in [S -> T] /\ \A x, y \in S : x < y => at[x] < at[y]
  BY DEF Placed
<1>3. \A x, y \in S : at[x] = at[y] => x = y
  <2> SUFFICES ASSUME NEW x \in S, NEW y \in S, at[x] = at[y], x # y PROVE FALSE
    OBVIOUS
  <2>1. x < y \/ y < x
    OBVIOUS
  <2>2. at[x] \in Int
    BY <1>2
  <2> QED BY <1>2, <2>1, <2>2
<1>4. at \in Injection(S, T)
  BY <1>2, <1>3 DEF Injection, IsInjective
<1>5. IsFiniteSet(T) /\ Cardinality(T) = Cardinality(S)
  BY <1>1, NewRowsSize
<1>6. at \in Surjection(S, T)
  BY <1>4, <1>5, FS_Injection
<1> QED BY <1>1, <1>2, <1>3, <1>6 DEF Surjection

-------------------------------------------------------------------------------
(* The rows of the table.                                                  *)

\* What every row satisfies on its own.
RowOK(b) ==
    /\ b \in BillingRows
    /\ b.superseded => b.status = "CANCELLED"
    /\ b.until = 0 \/ b.due <= b.until
    /\ ~b.recomposed => b.interest <= b.principal * InterestRate * Pos(b.until - b.due)

\* A row rewritten: its principal, when it is due and of which installment
\* it is stay.
Kin(b, c) ==
    /\ c.number = b.number /\ c.source = b.source /\ c.revision = b.revision
    /\ c.principal = b.principal /\ c.due = b.due /\ c.recomposed = b.recomposed
    /\ b.superseded => c.superseded
    /\ b.status = "NONE" <=> c.status = "NONE"

PaidNothing(b) == b.paid = 0 /\ b.paidFee = 0 /\ b.paidInterest = 0 /\ b.paidPrincipal = 0

\* A row just inserted: it carries charges only if it recomposes them.
Fresh(b) ==
    /\ RowOK(b) /\ b.status = "ACTIVE" /\ PaidNothing(b)
    /\ ~b.recomposed => b.fee = 0 /\ b.interest = 0 /\ b.until = 0

LEMMA NoRowOK == RowOK(NoRow) /\ NoRow.status = "NONE"
BY ReceivablesAssumption, PosType DEF RowOK, NoRow, BillingRows

LEMMA Products ==
    /\ \A a, b \in Nat : a * b \in Nat
    /\ \A a, b, c \in Nat : a <= b => a * c <= b * c
    /\ \A a, b, c \in Nat : a * (b + c) = a * b + a * c
OBVIOUS

\* Interest added from one day to another stays within what the principal bears.
LEMMA Accrual ==
    ASSUME NEW P \in Nat, NEW R \in Nat, NEW u \in Nat, u <= P,
           NEW i \in Nat, NEW x \in Nat, NEW y \in Nat, i <= P * R * x
    PROVE  i + u * R * y <= P * R * (x + y) /\ i + u * R * y \in Nat
<1>1. u * R \in Nat /\ P * R \in Nat /\ u * R <= P * R
  BY Products
<1>2. u * R * y <= P * R * y /\ u * R * y \in Nat /\ P * R * y \in Nat /\ P * R * x \in Nat
  BY <1>1, Products
<1>3. P * R * (x + y) = P * R * x + P * R * y
  BY <1>1, Products
<1> QED BY <1>2, <1>3

LEMMA RowParts ==
    ASSUME NEW b \in BillingRows
    PROVE  /\ b.status \in {"NONE", "ACTIVE", "CANCELLED"} /\ b.number \in Nat /\ b.revision \in Nat
           /\ b.source \in Nat /\ b.superseded \in BOOLEAN /\ b.recomposed \in BOOLEAN
           /\ b.rated \in BOOLEAN /\ b.principal \in Nat /\ b.fee \in Nat /\ b.interest \in Nat
           /\ b.until \in Nat /\ b.due \in Nat /\ b.paid \in Nat /\ b.paidFee \in Nat
           /\ b.paidInterest \in Nat /\ b.paidPrincipal \in Nat
BY DEF BillingRows

LEMMA AssessedRow ==
    ASSUME NEW b, RowOK(b), NEW date \in Nat, b.until = 0 \/ b.until <= date \/ date <= b.due
    PROVE  RowOK(Assessed(b, date)) /\ Kin(b, Assessed(b, date))
           /\ Assessed(b, date).status = b.status
<1>0. b \in BillingRows
  BY DEF RowOK
<1>1. CASE ~Open(b) \/ date <= b.due \/ ~b.rated
  BY <1>1 DEF Assessed, Kin
<1>2. CASE Open(b) /\ ~(date <= b.due) /\ b.rated
  <2> DEFINE from == IF b.until = 0 THEN b.due ELSE b.until
             unpaid == Pos(b.principal - b.paidPrincipal)
             accrues == date > from /\ unpaid > 0
             fee == IF b.fee = 0 THEN b.principal * LateFeeRate ELSE b.fee
             interest == IF accrues THEN b.interest + unpaid * InterestRate * (date - from)
                         ELSE b.interest
             until == IF accrues THEN date ELSE b.until
             c == [b EXCEPT !.fee = fee, !.interest = interest, !.until = until]
  <2>1. Assessed(b, date) = c
    BY <1>2 DEF Assessed
  <2>2. /\ from \in Nat /\ b.due <= from /\ from <= date /\ b.due <= date
        /\ unpaid \in Nat /\ unpaid <= b.principal
        /\ b.principal \in Nat /\ b.interest \in Nat /\ b.due \in Nat
    BY <1>0, <1>2, RowParts DEF RowOK, Pos
  <2>3. fee \in Nat
    BY <1>0, RowParts, Products, ReceivablesAssumption
  <2>4. until \in Nat /\ (until = 0 \/ b.due <= until)
    BY <1>0, <2>2, RowParts DEF RowOK
  <2>5. /\ interest \in Nat
        /\ ~b.recomposed => interest <= b.principal * InterestRate * Pos(until - b.due)
    <3>1. CASE accrues
      <4> DEFINE x == from - b.due
                 y == date - from
      <4>1. x \in Nat /\ y \in Nat /\ x + y = date - b.due /\ Pos(until - b.due) = x + y
        BY <2>2, <3>1 DEF Pos
      <4>2. CASE b.recomposed
        BY <2>2, <3>1, <4>1, <4>2, Products, ReceivablesAssumption
      <4>3. CASE ~b.recomposed
        <5>1. Pos(b.until - b.due) = x
          BY <1>0, <2>2, RowParts DEF Pos, RowOK
        <5>2. b.interest <= b.principal * InterestRate * x
          BY <4>3, <5>1 DEF RowOK
        <5>3. /\ b.interest + unpaid * InterestRate * y <= b.principal * InterestRate * (x + y)
              /\ b.interest + unpaid * InterestRate * y \in Nat
          BY <2>2, <4>1, <5>2, Accrual, ReceivablesAssumption
        <5> QED BY <3>1, <4>1, <5>3
      <4> QED BY <1>0, <4>2, <4>3, RowParts
    <3>2. CASE ~accrues
      BY <1>0, <3>2, RowParts DEF RowOK
    <3> QED BY <3>1, <3>2
  <2> HIDE DEF fee, interest, until
  <2>6. /\ c \in BillingRows /\ c.status = b.status /\ c.superseded = b.superseded
        /\ c.recomposed = b.recomposed /\ c.principal = b.principal /\ c.due = b.due
        /\ c.until = until /\ c.interest = interest
        /\ c.number = b.number /\ c.source = b.source /\ c.revision = b.revision
    BY <1>0, <2>3, <2>4, <2>5 DEF BillingRows
  <2> HIDE DEF c
  <2> QED BY <2>1, <2>4, <2>5, <2>6 DEF RowOK, Kin
<1> QED BY <1>0, <1>1, <1>2, RowParts

LEMMA ReconciledRow ==
    ASSUME NEW b, RowOK(b), NEW date \in Nat
    PROVE  LET c == Reconciled(b, date)
           IN  RowOK(c) /\ Kin(b, c) /\ c.status = b.status /\ (c.until = 0 \/ c.until <= date)
<1>0. b \in BillingRows
  BY DEF RowOK
<1>1. CASE TooEarly(b, date)
  <2> DEFINE c == [b EXCEPT !.fee = 0, !.interest = 0, !.until = 0]
  <2>1. Reconciled(b, date) = c
    BY <1>1 DEF Reconciled
  <2>2. /\ c \in BillingRows /\ c.status = b.status /\ c.superseded = b.superseded
        /\ c.recomposed = b.recomposed /\ c.principal = b.principal /\ c.due = b.due
        /\ c.until = 0 /\ c.interest = 0
        /\ c.number = b.number /\ c.source = b.source /\ c.revision = b.revision
    BY <1>0 DEF BillingRows
  <2> HIDE DEF c
  <2>3. Pos(0 - b.due) \in Nat /\ b.principal \in Nat
    BY <1>0, RowParts, PosType
  <2>4. 0 <= b.principal * InterestRate * Pos(0 - b.due)
    BY <2>3, Products, ReceivablesAssumption
  <2> QED BY <2>1, <2>2, <2>4 DEF RowOK, Kin
<1>2. CASE ~TooEarly(b, date)
  BY <1>0, <1>2, RowParts DEF Reconciled, TooEarly, Kin
<1> QED BY <1>1, <1>2

\* A title replaced by an amendment, and one cancelled for another reason.
LEMMA ReplacedRow ==
    ASSUME NEW b, RowOK(b), b.status # "NONE"
    PROVE  LET c == [b EXCEPT !.status = "CANCELLED", !.superseded = TRUE]
           IN  RowOK(c) /\ Kin(b, c) /\ c.superseded
<1> DEFINE c == [b EXCEPT !.status = "CANCELLED", !.superseded = TRUE]
<1>0. b \in BillingRows
  BY DEF RowOK
<1>1. /\ c \in BillingRows /\ c.status = "CANCELLED" /\ c.superseded
      /\ c.recomposed = b.recomposed /\ c.principal = b.principal /\ c.due = b.due
      /\ c.until = b.until /\ c.interest = b.interest
      /\ c.number = b.number /\ c.source = b.source /\ c.revision = b.revision
  BY <1>0 DEF BillingRows
<1> HIDE DEF c
<1>2. RowOK(c) /\ Kin(b, c) /\ c.superseded
  BY <1>1 DEF RowOK, Kin
<1> QED BY <1>2 DEF c

LEMMA WaivedRow ==
    ASSUME NEW b, RowOK(b), b.status # "NONE"
    PROVE  RowOK([b EXCEPT !.status = "CANCELLED"]) /\ Kin(b, [b EXCEPT !.status = "CANCELLED"])
<1> DEFINE c == [b EXCEPT !.status = "CANCELLED"]
<1>0. b \in BillingRows
  BY DEF RowOK
<1>1. /\ c \in BillingRows /\ c.status = "CANCELLED" /\ c.superseded = b.superseded
      /\ c.recomposed = b.recomposed /\ c.principal = b.principal /\ c.due = b.due
      /\ c.until = b.until /\ c.interest = b.interest
      /\ c.number = b.number /\ c.source = b.source /\ c.revision = b.revision
  BY <1>0 DEF BillingRows
<1> HIDE DEF c
<1>2. RowOK(c) /\ Kin(b, c)
  BY <1>1 DEF RowOK, Kin
<1> QED BY <1>2 DEF c

LEMMA FreshRow ==
    ASSUME NEW b \in BillingRows, ~b.superseded, b.until = 0, b.status = "ACTIVE",
           PaidNothing(b), b.recomposed \/ (b.fee = 0 /\ b.interest = 0)
    PROVE  Fresh(b)
<1>1. 0 - b.due \in Int /\ b.principal \in Nat
  BY RowParts
<1>2. 0 <= b.principal * InterestRate * Pos(0 - b.due)
  BY <1>1, PosType, Products, ReceivablesAssumption
<1>3. ~b.recomposed => b.interest <= b.principal * InterestRate * Pos(b.until - b.due)
  BY <1>2
<1> QED BY <1>3 DEF RowOK, Fresh

-------------------------------------------------------------------------------
(* The table and the schedule.                                             *)

TableOK ==
    /\ billing \in [Rows -> BillingRows] /\ used \in 0..MaxBillings
    /\ \A i \in Rows : /\ RowOK(billing[i])
                       /\ billing[i].status = "NONE" <=> i > used
                       /\ i > used => billing[i] = NoRow

Numbers == Nat \ {0}

\* Title i is the last one of installment n: all others were replaced.
LastOf(n, i) ==
    /\ i \in Originals(n) /\ billing[i].revision <= contract.revision
    /\ \A j \in Originals(n) \ {i} :
         billing[j].superseded /\ billing[j].revision < billing[i].revision

ScheduleOK == \A n \in Numbers : Originals(n) = {} \/ \E i \in Rows : LastOf(n, i)

\* The rows of the table are rewritten as their kin, and active ones are added.
Grown ==
    /\ used' \in Nat /\ used <= used' /\ used' <= MaxBillings
    /\ billing' \in [Rows -> BillingRows]
    /\ \A i \in Rows :
         /\ i <= used => RowOK(billing'[i]) /\ Kin(billing[i], billing'[i])
         /\ i > used /\ i <= used' => Fresh(billing'[i])
         /\ i > used' => billing'[i] = NoRow

LEMMA RowIndex == used \in 0..MaxBillings => /\ used \in Nat /\ Rows \subseteq Nat \ {0}
                                             /\ IsFiniteSet(Rows)
BY FS_Interval, ReceivablesAssumption DEF Rows

LEMMA TableStep ==
    ASSUME TableOK, Grown
    PROVE  TableOK'
<1>1. used \in Nat /\ Rows \subseteq Nat \ {0} /\ used' \in 0..MaxBillings
  BY RowIndex, ReceivablesAssumption DEF TableOK, Grown
<1>2. ASSUME NEW i \in Rows
      PROVE  /\ RowOK(billing'[i])
             /\ billing'[i].status = "NONE" <=> i > used'
             /\ i > used' => billing'[i] = NoRow
  <2>0. i \in Nat /\ used' \in Nat /\ used <= used'
    BY <1>1 DEF Grown
  <2>1. CASE i <= used
    BY <1>1, <2>0, <2>1 DEF TableOK, Grown, Kin
  <2>2. CASE i > used /\ i <= used'
    BY <1>1, <2>0, <2>2 DEF Grown, Fresh
  <2>3. CASE i > used'
    BY <2>0, <2>3, NoRowOK DEF Grown
  <2> QED BY <1>1, <2>0, <2>1, <2>2, <2>3
<1> QED BY <1>1, <1>2 DEF TableOK, Grown

\* Rows rewritten in place.
LEMMA Rewriting ==
    ASSUME TableOK, used' = used, billing' \in [Rows -> BillingRows],
           \A i \in Rows : \/ billing'[i] = billing[i]
                           \/ /\ billing[i].status # "NONE"
                              /\ RowOK(billing'[i]) /\ Kin(billing[i], billing'[i])
    PROVE  Grown
<1>1. used \in Nat /\ Rows \subseteq Nat \ {0} /\ used <= MaxBillings /\ used <= used
  BY RowIndex, ReceivablesAssumption DEF TableOK
<1>2. \A i \in Rows : Kin(billing[i], billing[i]) /\ RowOK(billing[i])
  BY DEF Kin, TableOK
<1> QED BY <1>1, <1>2 DEF Grown, TableOK

\* Rows rewritten in place, and rows inserted after them.
Rewrites(table) ==
    /\ table \in [Rows -> BillingRows]
    /\ \A i \in Rows : \/ table[i] = billing[i]
                       \/ /\ billing[i].status # "NONE"
                          /\ RowOK(table[i]) /\ Kin(billing[i], table[i])

Inserts(S, at, rows, table) ==
    /\ IsFiniteSet(S) /\ S \subseteq Int /\ Room(S) /\ at \in Placed(S)
    /\ \A x \in S : Fresh(rows[x])
    /\ used' = used + Cardinality(S)
    /\ billing' = [i \in Rows |-> IF \E x \in S : at[x] = i
                                 THEN rows[CHOOSE x \in S : at[x] = i] ELSE table[i]]

LEMMA Insertion ==
    ASSUME TableOK, NEW S, NEW at, NEW rows, NEW table,
           Rewrites(table), Inserts(S, at, rows, table)
    PROVE  /\ Grown
           /\ \A x \in S : at[x] \in Rows /\ at[x] > used /\ billing'[at[x]] = rows[x]
           /\ \A i \in Rows : i <= used => billing'[i] = table[i]
           /\ \A i \in Rows : i > used /\ i <= used' => \E x \in S : i = at[x]
           /\ \A x, y \in S : at[x] = at[y] => x = y
<1> USE DEF Rewrites, Inserts
<1>1. used \in Nat /\ Rows \subseteq Nat \ {0} /\ used <= MaxBillings
  BY RowIndex, ReceivablesAssumption DEF TableOK
<1>2. /\ Cardinality(S) \in Nat
      /\ at \in [S -> (used + 1)..(used + Cardinality(S))]
      /\ \A x, y \in S : at[x] = at[y] => x = y
      /\ \A i \in (used + 1)..(used + Cardinality(S)) : \E x \in S : at[x] = i
  <2>1. used \in Nat /\ at \in Placed(S) /\ IsFiniteSet(S) /\ S \subseteq Int
    BY <1>1
  <2> QED BY <2>1, AtCovers, ZenonT(60)
<1>3. used' \in Nat /\ used <= used' /\ used' <= MaxBillings
  BY <1>1, <1>2, ReceivablesAssumption DEF Room
<1>4. \A x \in S : at[x] \in Rows /\ at[x] > used /\ at[x] <= used'
  BY <1>1, <1>2, <1>3, ReceivablesAssumption DEF Rows
<1>5. \A x \in S : billing'[at[x]] = rows[x]
  <2> SUFFICES ASSUME NEW x \in S PROVE billing'[at[x]] = rows[x]
    OBVIOUS
  <2>1. (CHOOSE y \in S : at[y] = at[x]) = x
    BY <1>2
  <2> QED BY <1>4, <2>1
<1>6. \A i \in Rows : i <= used \/ i > used' => billing'[i] = table[i]
  <2> SUFFICES ASSUME NEW i \in Rows, i <= used \/ i > used' PROVE billing'[i] = table[i]
    OBVIOUS
  <2>1. ~\E x \in S : at[x] = i
    BY <1>1, <1>3, <1>4
  <2> QED BY <2>1
<1>7. \A i \in Rows : i > used /\ i <= used' => \E x \in S : i = at[x]
  BY <1>1, <1>2, <1>3
<1>8. \A i \in Rows : i <= used => RowOK(billing'[i]) /\ Kin(billing[i], billing'[i])
  <2>1. \A i \in Rows : Kin(billing[i], billing[i]) /\ RowOK(billing[i])
    BY DEF Kin, TableOK
  <2> QED BY <1>6, <2>1
<1>9. \A i \in Rows : i > used' => billing'[i] = NoRow
  BY <1>1, <1>3, <1>6 DEF TableOK
<1>10. \A i \in Rows : i > used /\ i <= used' => Fresh(billing'[i])
  <2> SUFFICES ASSUME NEW i \in Rows, i > used, i <= used'
               PROVE  Fresh(billing'[i])
    OBVIOUS
  <2> PICK x \in S : i = at[x]
    BY <1>7
  <2>1. billing'[i] = rows[x]
    BY <1>5
  <2> QED BY <2>1
<1>11. billing' \in [Rows -> BillingRows]
  <2>1. ASSUME NEW i \in Rows PROVE RowOK(billing'[i])
    <3>1. i \in Nat /\ (i <= used \/ (i > used /\ i <= used') \/ i > used')
      BY <1>1, <1>3
    <3> HIDE DEF Rewrites, Inserts
    <3> QED BY <1>8, <1>9, <1>10, <3>1, NoRowOK DEF Fresh
  <2>2. DOMAIN billing' = Rows /\ billing' = [i \in Rows |-> billing'[i]]
    OBVIOUS
  <2> HIDE DEF Rewrites, Inserts
  <2> QED BY <2>1, <2>2 DEF RowOK
<1> QED BY <1>2, <1>3, <1>4, <1>5, <1>6, <1>7, <1>8, <1>9, <1>10, <1>11 DEF Grown

-------------------------------------------------------------------------------
(* The last number of the contract, the largest of finitely many.          *)

LEMMA LeastNatural ==
    ASSUME NEW T \in SUBSET Nat, T # {}
    PROVE  \E x \in T : \A y \in T : x <= y
<1> DEFINE R == OpToRel(<, Nat)
<1>1. PICK x \in T : \A y \in T : ~(<<y, x>> \in R)
  <2> HIDE DEF R
  <2>1. IsWellFoundedOn(R, Nat)
    BY NatLessThanWellFounded DEF R
  <2> QED BY <2>1, WFMin
<1>2. \A y \in T : ~(y < x)
  BY <1>1 DEF OpToRel
<1> QED BY <1>2

LEMMA OneFurther ==
    ASSUME NEW N \in Nat, NEW f \in [1..N -> Nat], NEW k \in 1..N, NEW B \in Nat,
           \A i \in 1..(k - 1) : f[i] <= B
    PROVE  \E C \in Nat : \A i \in 1..k : f[i] <= C
<1>1. f[k] \in Nat
  OBVIOUS
<1>2. \A i \in 1..k : f[i] \in Nat /\ (i = k \/ f[i] <= B)
  OBVIOUS
<1>3. CASE f[k] <= B
  BY <1>2, <1>3
<1>4. CASE ~(f[k] <= B)
  <2>1. \A i \in 1..k : f[i] <= f[k]
    BY <1>1, <1>2, <1>4
  <2> QED BY <1>1, <2>1
<1> QED BY <1>3, <1>4

LEMMA BoundedValues ==
    ASSUME NEW N \in Nat, NEW f \in [1..N -> Nat]
    PROVE  \E B \in Nat : \A i \in 1..N : f[i] <= B
<1> DEFINE Unbounded == {k \in 0..N : ~\E B \in Nat : \A i \in 1..k : f[i] <= B}
<1>1. Unbounded \in SUBSET Nat /\ N \in 0..N
  OBVIOUS
<1>2. \A k \in 0..N : k \in Unbounded <=> ~\E B \in Nat : \A i \in 1..k : f[i] <= B
  OBVIOUS
<1>3. \A k \in Unbounded : k \in 0..N
  OBVIOUS
<1> HIDE DEF Unbounded
<1>4. Unbounded = {}
  <2> SUFFICES ASSUME Unbounded # {} PROVE FALSE
    OBVIOUS
  <2>1. \E k \in Unbounded : \A j \in Unbounded : k <= j
    BY <1>1, LeastNatural
  <2>2. PICK k \in 0..N : k \in Unbounded /\ \A j \in Unbounded : k <= j
    BY <1>3, <2>1
  <2>3. CASE k = 0
    <3>1. \A i \in 1..0 : f[i] <= 0
      OBVIOUS
    <3> QED BY <1>2, <2>2, <2>3, <3>1
  <2>4. CASE k # 0
    <3>1. k \in 1..N /\ k - 1 \in 0..N /\ ~(k <= k - 1)
      BY <2>4
    <3>2. PICK B \in Nat : \A i \in 1..(k - 1) : f[i] <= B
      BY <1>2, <2>2, <3>1
    <3>3. \E C \in Nat : \A i \in 1..k : f[i] <= C
      BY <3>1, <3>2, OneFurther
    <3> QED BY <1>2, <2>2, <3>3
  <2> QED BY <2>3, <2>4
<1> QED BY <1>1, <1>2, <1>4

LEMMA LargestOf ==
    ASSUME NEW S \in SUBSET Nat, 0 \in S, NEW B \in Nat, \A m \in S : m <= B
    PROVE  \E n \in S : \A m \in S : m <= n
<1> DEFINE Bounds == {C \in Nat : \A m \in S : m <= C}
<1>1. B \in Bounds /\ Bounds \in SUBSET Nat
  OBVIOUS
<1>2. \A C \in Nat : C \in Bounds <=> \A m \in S : m <= C
  OBVIOUS
<1> HIDE DEF Bounds
<1>3. PICK n \in Nat : n \in Bounds /\ \A C \in Bounds : n <= C
  BY <1>1, LeastNatural
<1>4. n \in S
  <2> SUFFICES ASSUME n \notin S PROVE FALSE
    OBVIOUS
  <2>1. n # 0 /\ n - 1 \in Nat /\ ~(n <= n - 1)
    OBVIOUS
  <2>2. \A m \in S : m <= n - 1
    BY <1>2, <1>3, <2>1
  <2> QED BY <1>2, <1>3, <2>1, <2>2
<1> QED BY <1>2, <1>3, <1>4

LEMMA LastNumberType ==
    ASSUME TableOK
    PROVE  LastNumber \in Nat
<1> DEFINE S == {billing[i].number : i \in Rows} \cup {0}
           f == [i \in 1..MaxBillings |-> billing[i].number]
<1>1. \A i \in Rows : billing[i].number \in Nat
  BY RowParts DEF TableOK
<1>2. S \in SUBSET Nat /\ 0 \in S
  BY <1>1
<1>3. f \in [1..MaxBillings -> Nat] /\ MaxBillings \in Nat
  BY <1>1, ReceivablesAssumption DEF Rows
<1>4. PICK B \in Nat : \A i \in 1..MaxBillings : f[i] <= B
  <2> HIDE DEF f
  <2> QED BY <1>3, BoundedValues
<1>5. \A m \in S : m <= B
  BY <1>4 DEF Rows
<1>6. LastNumber = CHOOSE n \in S : \A m \in S : m <= n
  BY DEF LastNumber
<1> HIDE DEF S
<1>7. \E n \in S : \A m \in S : m <= n
  BY <1>2, <1>5, LargestOf
<1> QED BY <1>2, <1>6, <1>7

-------------------------------------------------------------------------------
(* What the titles of an installment become.                               *)

\* Titles of the numbers S are issued in revision r, each after all others of
\* its number were replaced; other new rows belong to no schedule.
Issues(S, at, r) ==
    /\ \A x \in S : /\ at[x] \in Rows /\ at[x] > used
                    /\ billing'[at[x]].number = x /\ billing'[at[x]].source = 0
                    /\ billing'[at[x]].revision = r
    /\ \A i \in Rows : i > used /\ i <= used' =>
          billing'[i].number = 0 \/ billing'[i].source # 0 \/ \E x \in S : i = at[x]
    /\ \A x \in S : \A j \in Originals(x) : billing'[j].superseded /\ billing[j].revision < r

LEMMA Issuance ==
    ASSUME TableOK, ScheduleOK, Grown, contract.revision \in Nat,
           NEW S \in SUBSET Numbers, NEW at, NEW r \in Nat,
           contract'.revision = r, contract.revision <= r, Issues(S, at, r)
    PROVE  /\ ScheduleOK'
           /\ \A n \in Numbers : Originals(n) # {} \/ n \in S => Originals(n)' # {}
<1> USE DEF Issues
<1>1. used \in Nat /\ used' \in Nat /\ Rows \subseteq Nat
  BY RowIndex DEF TableOK, Grown
<1>2. \A i \in Rows : i > used => billing[i].number = 0
  BY DEF TableOK, NoRow
<1>3. \A i \in Rows : i <= used => Kin(billing[i], billing'[i])
  BY DEF Grown
<1>4. \A i \in Rows : i > used' => billing'[i].number = 0
  BY DEF Grown, NoRow
<1>5. ASSUME NEW n \in Numbers, NEW i \in Originals(n)
      PROVE  i \in Originals(n)' /\ i \in Rows /\ i <= used /\ Kin(billing[i], billing'[i])
  <2>1. i \in Rows /\ billing[i].number = n /\ billing[i].source = 0 /\ n # 0
    BY DEF Originals, Numbers
  <2>2. i <= used
    BY <1>1, <1>2, <2>1
  <2> QED BY <1>3, <2>1, <2>2 DEF Originals, Kin
<1>6. ASSUME NEW n \in Numbers, NEW i \in Originals(n)'
      PROVE  i \in Originals(n) \/ (n \in S /\ i = at[n])
  <2>1. i \in Rows /\ billing'[i].number = n /\ billing'[i].source = 0 /\ n # 0
    BY DEF Originals, Numbers
  <2>2. CASE i <= used
    BY <1>3, <2>1, <2>2 DEF Originals, Kin
  <2>3. CASE i > used
    <3>1. i <= used'
      BY <1>1, <1>4, <2>1
    <3>2. \E x \in S : i = at[x]
      BY <2>1, <2>3, <3>1
    <3> QED BY <2>1, <3>2
  <2> QED BY <1>1, <2>1, <2>2, <2>3
<1>7. \A n \in Numbers : n \in S => at[n] \in Originals(n)'
  BY DEF Originals
<1>8. ASSUME NEW n \in Numbers, Originals(n)' # {}
      PROVE  \E i \in Rows : LastOf(n, i)'
  <2>1. CASE n \in S
    <3>1. at[n] \in Rows /\ billing'[at[n]].revision = r /\ at[n] > used
      BY <2>1
    <3>2. ASSUME NEW j \in Originals(n)' \ {at[n]}
          PROVE  billing'[j].superseded /\ billing'[j].revision < r
      <4>1. j \in Originals(n)
        BY <1>6
      <4> QED BY <1>5, <2>1, <4>1 DEF Kin
    <3>3. LastOf(n, at[n])'
      BY <1>1, <1>7, <2>1, <3>1, <3>2 DEF LastOf
    <3> QED BY <3>1, <3>3
  <2>2. CASE n \notin S
    <3>1. \A j : j \in Originals(n)' <=> j \in Originals(n)
      BY <1>5, <1>6, <2>2
    <3>2. PICK i \in Rows : LastOf(n, i)
      BY <1>8, <3>1 DEF ScheduleOK
    <3>3. i \in Originals(n) /\ billing[i].revision <= contract.revision
      BY <3>2 DEF LastOf
    <3>4. i \in Originals(n)' /\ billing'[i].revision = billing[i].revision
      BY <1>5, <3>3 DEF Kin
    <3>5. billing[i].revision \in Nat
      BY RowParts DEF TableOK
    <3>6. ASSUME NEW j \in Originals(n)' \ {i}
          PROVE  billing'[j].superseded /\ billing'[j].revision < billing'[i].revision
      <4>1. j \in Originals(n) \ {i}
        BY <3>1
      <4>2. billing[j].superseded /\ billing[j].revision < billing[i].revision
        BY <3>2, <4>1 DEF LastOf
      <4> QED BY <1>5, <3>4, <4>1, <4>2 DEF Kin
    <3>7. billing'[i].revision <= contract'.revision
      BY <3>3, <3>4, <3>5
    <3> QED BY <3>4, <3>6, <3>7 DEF LastOf
  <2> QED BY <2>1, <2>2
<1>9. ScheduleOK'
  BY <1>8 DEF ScheduleOK
<1>10. ASSUME NEW n \in Numbers, Originals(n) # {} \/ n \in S PROVE Originals(n)' # {}
  BY <1>5, <1>7, <1>10
<1> QED BY <1>9, <1>10

-------------------------------------------------------------------------------
(* The invariant.                                                          *)

Contracts == [status : {"NONE", "DRAFT", "ACTIVE", "SUSPENDED", "CANCELLED", "CLOSED"},
              revision : 1..MaxRevisions, count : Counts, value : Values,
              effective : 0..LastDay]

Holds == [op : {"none", "cancel", "close"}, rows : SUBSET Rows, stale : BOOLEAN]

PlainOK ==
    /\ today \in Days /\ contract \in Contracts
    /\ payment \in [Payments -> [status : {"NONE", "PENDING", "CONFIRMED", "REVERSED"},
                                 date : 0..LastDay, receipt : Nat]]
    /\ part \in [Payments -> [Rows -> [amount : Nat, fee : Nat, interest : Nat,
                                       principal : Nat]]]
    /\ receipts \in Nat /\ hold \in Holds

\* What the open cancellation has listed, and what is paid, are titles.
TitlesOK ==
    /\ \A i \in hold.rows : billing[i].status # "NONE"
    /\ \A p \in Payments, i \in Rows : part[p][i].amount > 0 => billing[i].status # "NONE"

RInv == PlainOK /\ TableOK /\ ScheduleOK /\ NothingLeftToMaterialize /\ TitlesOK

LEMMA ContractParts ==
    ASSUME NEW terms \in Contracts
    PROVE  /\ terms.revision \in 1..MaxRevisions /\ terms.revision \in Nat \ {0}
           /\ terms.count \in Counts /\ terms.count \in Nat \ {0}
           /\ terms.value \in Values /\ terms.value \in Nat
           /\ terms.effective \in 0..LastDay
<1>1. /\ terms.revision \in 1..MaxRevisions /\ terms.count \in Counts
      /\ terms.value \in Values /\ terms.effective \in 0..LastDay
  BY DEF Contracts
<1>2. MaxRevisions \in Nat /\ Counts \subseteq Nat \ {0} /\ Values \subseteq Nat
  BY ReceivablesAssumption
<1>3. terms.revision \in Nat \ {0}
  BY <1>1, <1>2
<1> QED BY <1>1, <1>2, <1>3

LEMMA Touching ==
    ASSUME PlainOK, NEW S, Touch(S)
    PROVE  hold' \in Holds /\ hold'.rows = hold.rows
BY DEF PlainOK, Touch, Holds

\* Steps that issue no title of the schedule and leave the terms as they are.
LEMMA Steady ==
    ASSUME RInv, PlainOK', Grown, contract'.revision = contract.revision,
           contract'.status = "ACTIVE" => contract' = contract,
           \A i \in hold'.rows : i \in hold.rows \/ billing[i].status # "NONE",
           \A p \in Payments, i \in Rows : part'[p][i].amount > 0 =>
              part[p][i].amount > 0 \/ billing[i].status # "NONE",
           \A i \in Rows : i > used /\ i <= used' =>
              billing'[i].number = 0 \/ billing'[i].source # 0
    PROVE  RInv'
<1>1. contract.revision \in Nat
  BY ContractParts DEF RInv, PlainOK
<1>2. TableOK'
  BY TableStep DEF RInv
<1>3. ScheduleOK' /\ \A n \in Numbers : Originals(n) # {} => Originals(n)' # {}
  <2> DEFINE at == [x \in {} |-> 0]
             r == contract.revision
  <2>1. TableOK /\ ScheduleOK /\ {} \in SUBSET Numbers /\ r \in Nat /\ contract.revision <= r
    BY <1>1 DEF RInv
  <2>2. Issues({}, at, r)
    BY DEF Issues
  <2> HIDE DEF at, r
  <2>3. contract'.revision = r
    BY DEF r
  <2> QED BY <1>1, <2>1, <2>2, <2>3, Issuance
<1>4. NothingLeftToMaterialize'
  <2> SUFFICES ASSUME contract'.status = "ACTIVE", NEW n \in 1..contract'.count
               PROVE  Originals(n)' # {} \/ n < contract'.effective
    BY DEF NothingLeftToMaterialize
  <2>1. contract' = contract
    OBVIOUS
  <2>2. contract.status = "ACTIVE" /\ n \in 1..contract.count /\ n \in Numbers
    BY <2>1, ContractParts DEF RInv, PlainOK, Numbers
  <2>3. Originals(n) # {} \/ n < contract.effective
    BY <2>2 DEF RInv, NothingLeftToMaterialize
  <2> QED BY <1>3, <2>1, <2>2, <2>3
<1>5. TitlesOK'
  <2>1. \A i \in Rows : billing[i].status # "NONE" => billing'[i].status # "NONE"
    <3> SUFFICES ASSUME NEW i \in Rows, billing[i].status # "NONE"
                 PROVE  billing'[i].status # "NONE"
      OBVIOUS
    <3>1. i <= used
      BY RowIndex DEF RInv, TableOK
    <3> QED BY <3>1 DEF Grown, Kin
  <2>2. \A i \in hold'.rows : i \in Rows
    BY DEF RInv, PlainOK, Holds
  <2> QED BY <2>1, <2>2 DEF RInv, TitlesOK
<1> QED BY <1>2, <1>3, <1>4, <1>5 DEF RInv

\* Steps that insert no row.
LEMMA Rewritten ==
    ASSUME RInv, PlainOK', used' = used, contract'.revision = contract.revision,
           contract'.status = "ACTIVE" => contract' = contract,
           \A i \in hold'.rows : i \in hold.rows \/ billing[i].status # "NONE",
           \A p \in Payments, i \in Rows : part'[p][i].amount > 0 =>
              part[p][i].amount > 0 \/ billing[i].status # "NONE",
           NEW table, billing' = [i \in Rows |-> table[i]],
           \A i \in Rows : \/ table[i] = billing[i]
                           \/ /\ billing[i].status # "NONE"
                              /\ RowOK(table[i]) /\ Kin(billing[i], table[i])
    PROVE  RInv'
<1>1. \A i \in Rows : billing'[i] = table[i] /\ RowOK(table[i])
  BY DEF RInv, TableOK
<1>2. billing' \in [Rows -> BillingRows]
  BY <1>1 DEF RowOK
<1>3. Grown
  BY <1>1, <1>2, Rewriting DEF RInv
<1>4. used \in Nat /\ Rows \subseteq Nat
  BY RowIndex DEF RInv, TableOK
<1>5. \A i \in Rows : ~(i > used /\ i <= used')
  BY <1>4
<1> QED BY <1>3, <1>5, Steady

\* Steps that write no billing.
LEMMA Aside ==
    ASSUME RInv, PlainOK', UNCHANGED <<billing, used>>, contract'.revision = contract.revision,
           contract'.status = "ACTIVE" => contract' = contract,
           \A i \in hold'.rows : i \in hold.rows \/ billing[i].status # "NONE",
           \A p \in Payments, i \in Rows : part'[p][i].amount > 0 =>
              part[p][i].amount > 0 \/ billing[i].status # "NONE"
    PROVE  RInv'
<1>1. billing' = [i \in Rows |-> billing[i]] /\ used' = used
  BY DEF RInv, TableOK
<1> QED BY <1>1, Rewritten

LEMMA InitInvariant == Init => RInv
<1> SUFFICES ASSUME Init PROVE RInv
  OBVIOUS
<1>1. PlainOK
  BY ReceivablesAssumption DEF Init, PlainOK, Days, Contracts, Holds, Idle, NoPart
<1>2. TableOK
  BY RowIndex, NoRowOK, ReceivablesAssumption DEF Init, TableOK, RowOK
<1>3. \A n \in Numbers : Originals(n) = {}
  BY DEF Init, Originals, NoRow, Numbers
<1>4. ScheduleOK /\ NothingLeftToMaterialize /\ TitlesOK
  BY <1>3 DEF Init, ScheduleOK, NothingLeftToMaterialize, TitlesOK, Idle, NoPart
<1> QED BY <1>1, <1>2, <1>4 DEF RInv

-------------------------------------------------------------------------------
(* The steps of the contract that write no schedule.                       *)

LEMMA TickStep == ASSUME RInv, Tick PROVE RInv'
<1>1. PlainOK'
  BY ReceivablesAssumption DEF RInv, PlainOK, Tick, Days
<1> QED BY <1>1, Aside DEF Tick

LEMMA CreateContractStep == ASSUME RInv, CreateContract PROVE RInv'
<1>1. PlainOK' /\ contract'.revision = contract.revision /\ contract'.status = "DRAFT"
  BY DEF RInv, PlainOK, CreateContract, Contracts
<1> QED BY <1>1, Aside DEF CreateContract

LEMMA UpdateContractDraftStep ==
    ASSUME RInv, NEW count \in Counts, NEW value \in Values, UpdateContractDraft(count, value)
    PROVE  RInv'
<1>1. PlainOK' /\ contract'.revision = contract.revision /\ contract'.status = "DRAFT"
  BY DEF RInv, PlainOK, UpdateContractDraft, Contracts
<1> QED BY <1>1, Aside DEF UpdateContractDraft

LEMMA SuspendContractStep == ASSUME RInv, SuspendContract PROVE RInv'
<1>1. PlainOK' /\ contract'.revision = contract.revision /\ contract'.status = "SUSPENDED"
  BY DEF RInv, PlainOK, SuspendContract, Contracts
<1> QED BY <1>1, Aside DEF SuspendContract

LEMMA BeginCancelContractStep == ASSUME RInv, BeginCancelContract PROVE RInv'
<1>1. PlainOK' /\ contract' = contract
  BY DEF RInv, PlainOK, BeginCancelContract, Holds
<1>2. \A i \in hold'.rows : billing[i].status # "NONE"
  BY DEF BeginCancelContract
<1> QED BY <1>1, <1>2, Aside DEF BeginCancelContract

LEMMA EndCancelContractStep == ASSUME RInv, EndCancelContract PROVE RInv'
<1>1. /\ hold' = Idle /\ hold'.rows = {} /\ used' = used /\ hold.rows \subseteq Rows
      /\ UNCHANGED <<today, payment, part, receipts>>
  BY DEF RInv, PlainOK, EndCancelContract, Idle, Holds
<1>2. CASE Stale
  <2>1. PlainOK' /\ UNCHANGED <<contract, billing>>
    BY <1>1, <1>2 DEF RInv, PlainOK, EndCancelContract, Idle, Holds
  <2> QED BY <1>1, <2>1, Aside
<1>3. CASE ~Stale
  <2>1. PlainOK' /\ contract'.revision = contract.revision /\ contract'.status = "CANCELLED"
    BY <1>1, <1>3 DEF RInv, PlainOK, EndCancelContract, Idle, Holds, Contracts
  <2>2. billing' = [i \in Rows |-> IF i \in hold.rows
                                   THEN [billing[i] EXCEPT !.status = "CANCELLED"]
                                   ELSE billing[i]]
    BY <1>3 DEF EndCancelContract
  <2>3. \A i \in hold.rows : billing[i].status # "NONE" /\ RowOK(billing[i])
    BY <1>1 DEF RInv, TitlesOK, TableOK
  <2>4. \A i \in Rows : i \in hold.rows => RowOK(billing'[i]) /\ Kin(billing[i], billing'[i])
    BY <2>2, <2>3, WaivedRow
  <2>5. \A i \in Rows : \/ billing'[i] = billing[i]
                        \/ /\ billing[i].status # "NONE"
                           /\ RowOK(billing'[i]) /\ Kin(billing[i], billing'[i])
    BY <2>2, <2>3, <2>4
  <2>6. billing' = [i \in Rows |-> billing'[i]]
    BY <2>2
  <2> QED BY <1>1, <2>1, <2>5, <2>6, Rewritten
<1> QED BY <1>2, <1>3

LEMMA CloseContractStep ==
    ASSUME RInv, BeginCloseContract \/ EndCloseContract
    PROVE  RInv'
<1>1. CASE BeginCloseContract
  <2>1. PlainOK' /\ contract' = contract /\ hold'.rows = {} /\ UNCHANGED <<billing, used, part>>
    BY <1>1 DEF RInv, PlainOK, BeginCloseContract, Holds, Idle
  <2> QED BY <2>1, Aside
<1>2. CASE EndCloseContract
  <2>1. PlainOK' /\ contract'.revision = contract.revision /\ contract'.status = "CLOSED"
        /\ hold'.rows = {} /\ UNCHANGED <<billing, used, part>>
    BY <1>2 DEF RInv, PlainOK, EndCloseContract, Contracts, Holds, Idle
  <2> QED BY <2>1, Aside
<1> QED BY <1>1, <1>2

-------------------------------------------------------------------------------
(* The steps that rewrite billings in place.                               *)

PartRows == [amount : Nat, fee : Nat, interest : Nat, principal : Nat]

LEMMA CancelBillingStep ==
    ASSUME RInv, NEW i \in Rows, CancelBilling(i)
    PROVE  RInv'
<1> DEFINE table == [j \in Rows |-> IF j = i THEN [billing[i] EXCEPT !.status = "CANCELLED"]
                                    ELSE billing[j]]
<1>1. /\ used' = used /\ UNCHANGED <<contract, part>> /\ hold'.rows = hold.rows /\ PlainOK'
  BY Touching DEF RInv, PlainOK, CancelBilling
<1>2. billing' = [j \in Rows |-> table[j]]
  BY DEF CancelBilling, RInv, TableOK
<1>3. billing[i].status # "NONE" /\ RowOK(billing[i])
  BY DEF CancelBilling, RInv, TableOK
<1>4. RowOK(table[i]) /\ Kin(billing[i], table[i])
  BY <1>3, WaivedRow
<1>5. \A j \in Rows : \/ table[j] = billing[j]
                      \/ /\ billing[j].status # "NONE"
                         /\ RowOK(table[j]) /\ Kin(billing[j], table[j])
  BY <1>3, <1>4
<1> HIDE DEF table
<1> QED BY <1>1, <1>2, <1>5, Rewritten

LEMMA AssessLateChargesStep ==
    ASSUME RInv, NEW i \in Rows, AssessLateCharges(i)
    PROVE  RInv'
<1> DEFINE table == [j \in Rows |-> IF j = i THEN Assessed(billing[i], today) ELSE billing[j]]
<1>1. /\ used' = used /\ UNCHANGED <<contract, part>> /\ hold'.rows = hold.rows /\ PlainOK'
  BY Touching DEF RInv, PlainOK, AssessLateCharges
<1>2. billing' = [j \in Rows |-> table[j]]
  BY DEF AssessLateCharges, RInv, TableOK
<1>3. billing[i].status # "NONE" /\ RowOK(billing[i]) /\ today \in Nat
      /\ (billing[i].until = 0 \/ billing[i].until <= today \/ today <= billing[i].due)
  <2>1. today \in Nat
    BY ReceivablesAssumption DEF RInv, PlainOK, Days
  <2>2. RowOK(billing[i]) /\ billing[i].until \in Nat
    BY RowParts DEF RInv, TableOK
  <2> QED BY <2>1, <2>2 DEF AssessLateCharges, Open, Assessable
<1>4. RowOK(Assessed(billing[i], today)) /\ Kin(billing[i], Assessed(billing[i], today))
  BY <1>3, AssessedRow
<1>5. \A j \in Rows : \/ table[j] = billing[j]
                      \/ /\ billing[j].status # "NONE"
                         /\ RowOK(table[j]) /\ Kin(billing[j], table[j])
  BY <1>3, <1>4
<1> HIDE DEF table
<1> QED BY <1>1, <1>2, <1>5, Rewritten

LEMMA CreatePaymentStep ==
    ASSUME RInv, NEW p \in Payments, NEW chosen \in SUBSET Rows, NEW date \in Days,
           NEW amounts \in [chosen -> Amounts], CreatePayment(p, amounts, date)
    PROVE  RInv'
<1>1. date \in 0..LastDay /\ Amounts \subseteq Nat
  BY ReceivablesAssumption DEF Days
<1>2. payment' \in [Payments -> [status : {"NONE", "PENDING", "CONFIRMED", "REVERSED"},
                                 date : 0..LastDay, receipt : Nat]]
  BY <1>1 DEF RInv, PlainOK, CreatePayment
<1>3. \A i \in Rows : (IF i \in chosen THEN [NoPart EXCEPT !.amount = amounts[i]] ELSE NoPart)
                         \in PartRows
  BY <1>1 DEF NoPart, PartRows
<1>4. part' \in [Payments -> [Rows -> PartRows]]
  BY <1>3 DEF RInv, PlainOK, CreatePayment, PartRows
<1>5. PlainOK' /\ contract' = contract /\ hold' = hold /\ UNCHANGED <<billing, used>>
  BY <1>2, <1>4 DEF RInv, PlainOK, CreatePayment, PartRows
<1>6. \A q \in Payments, i \in Rows : part'[q][i].amount > 0 =>
         part[q][i].amount > 0 \/ billing[i].status # "NONE"
  <2> SUFFICES ASSUME NEW q \in Payments, NEW i \in Rows, part'[q][i].amount > 0
               PROVE  part[q][i].amount > 0 \/ billing[i].status # "NONE"
    OBVIOUS
  <2>1. CASE q # p
    BY <2>1 DEF RInv, PlainOK, CreatePayment
  <2>2. CASE q = p /\ i \in chosen
    BY <2>2 DEF CreatePayment, Open
  <2>3. CASE q = p /\ i \notin chosen
    <3>1. part'[q][i] = NoPart
      BY <2>3 DEF RInv, PlainOK, CreatePayment
    <3> QED BY <3>1 DEF NoPart
  <2> QED BY <2>1, <2>2, <2>3
<1> QED BY <1>5, <1>6, Aside

LEMMA ComponentsType ==
    ASSUME NEW b \in BillingRows, NEW amount \in Nat
    PROVE  Components(b, amount) \in PartRows
<1>1. /\ Pos(b.fee - b.paidFee) \in Nat /\ Pos(b.interest - b.paidInterest) \in Nat
      /\ Pos(b.principal - b.paidPrincipal) \in Nat
  <2>1. /\ b.fee - b.paidFee \in Int /\ b.interest - b.paidInterest \in Int
        /\ b.principal - b.paidPrincipal \in Int
    BY RowParts
  <2> QED BY <2>1, PosType
<1>2. \A x, y \in Nat : Least(x, y) \in Nat /\ Least(x, y) <= x /\ x - Least(x, y) \in Nat
  BY DEF Least
<1> DEFINE fee == Least(amount, Pos(b.fee - b.paidFee))
           interest == Least(amount - fee, Pos(b.interest - b.paidInterest))
           principal == Least(amount - fee - interest, Pos(b.principal - b.paidPrincipal))
<1>3. fee \in Nat /\ amount - fee \in Nat
  BY <1>1, <1>2
<1>4. interest \in Nat /\ amount - fee - interest \in Nat
  <2> HIDE DEF fee
  <2> QED BY <1>1, <1>2, <1>3
<1>5. principal \in Nat
  <2> HIDE DEF fee, interest
  <2> QED BY <1>1, <1>2, <1>4
<1>6. Components(b, amount) = [amount |-> amount, fee |-> fee, interest |-> interest,
                               principal |-> principal]
  BY DEF Components
<1> HIDE DEF fee, interest, principal
<1> QED BY <1>3, <1>4, <1>5, <1>6 DEF PartRows

LEMMA CreditedRow ==
    ASSUME NEW b, RowOK(b), NEW c \in PartRows
    PROVE  RowOK(Credited(b, c)) /\ Kin(b, Credited(b, c)) /\ Credited(b, c).status = b.status
<1>1. /\ b.paid \in Nat /\ b.paidFee \in Nat /\ b.paidInterest \in Nat /\ b.paidPrincipal \in Nat
      /\ c.amount \in Nat /\ c.fee \in Nat /\ c.interest \in Nat /\ c.principal \in Nat
  BY RowParts DEF RowOK, PartRows
<1>2. /\ b.paid + c.amount \in Nat /\ b.paidFee + c.fee \in Nat
      /\ b.paidInterest + c.interest \in Nat /\ b.paidPrincipal + c.principal \in Nat
  BY <1>1
<1> DEFINE n == b.paid + c.amount
           f == b.paidFee + c.fee
           i == b.paidInterest + c.interest
           p == b.paidPrincipal + c.principal
<1>3. Credited(b, c) = [b EXCEPT !.paid = n, !.paidFee = f, !.paidInterest = i, !.paidPrincipal = p]
  BY DEF Credited
<1>4. n \in Nat /\ f \in Nat /\ i \in Nat /\ p \in Nat
  BY <1>2
<1> HIDE DEF n, f, i, p
<1> DEFINE d == Credited(b, c)
<1>5. /\ d \in BillingRows /\ d.status = b.status /\ d.superseded = b.superseded
      /\ d.recomposed = b.recomposed /\ d.principal = b.principal /\ d.due = b.due
      /\ d.until = b.until /\ d.interest = b.interest
      /\ d.number = b.number /\ d.source = b.source /\ d.revision = b.revision
  BY <1>3, <1>4 DEF RowOK, BillingRows
<1> HIDE DEF d
<1>6. RowOK(d) /\ Kin(b, d) /\ d.status = b.status
  BY <1>5 DEF RowOK, Kin
<1> QED BY <1>6 DEF d

LEMMA DebitedRow ==
    ASSUME NEW b, RowOK(b), NEW c \in PartRows
    PROVE  RowOK(Debited(b, c)) /\ Kin(b, Debited(b, c)) /\ Debited(b, c).status = b.status
<1>1. /\ b.paid \in Nat /\ b.paidFee \in Nat /\ b.paidInterest \in Nat /\ b.paidPrincipal \in Nat
      /\ c.amount \in Nat /\ c.fee \in Nat /\ c.interest \in Nat /\ c.principal \in Nat
  BY RowParts DEF RowOK, PartRows
<1>2. /\ Pos(b.paid - c.amount) \in Nat /\ Pos(b.paidFee - c.fee) \in Nat
      /\ Pos(b.paidInterest - c.interest) \in Nat /\ Pos(b.paidPrincipal - c.principal) \in Nat
  BY <1>1, PosType
<1> DEFINE n == Pos(b.paid - c.amount)
           f == Pos(b.paidFee - c.fee)
           i == Pos(b.paidInterest - c.interest)
           p == Pos(b.paidPrincipal - c.principal)
<1>3. Debited(b, c) = [b EXCEPT !.paid = n, !.paidFee = f, !.paidInterest = i, !.paidPrincipal = p]
  BY DEF Debited
<1>4. n \in Nat /\ f \in Nat /\ i \in Nat /\ p \in Nat
  BY <1>2
<1> HIDE DEF n, f, i, p
<1> DEFINE d == Debited(b, c)
<1>5. /\ d \in BillingRows /\ d.status = b.status /\ d.superseded = b.superseded
      /\ d.recomposed = b.recomposed /\ d.principal = b.principal /\ d.due = b.due
      /\ d.until = b.until /\ d.interest = b.interest
      /\ d.number = b.number /\ d.source = b.source /\ d.revision = b.revision
  BY <1>3, <1>4 DEF RowOK, BillingRows
<1> HIDE DEF d
<1>6. RowOK(d) /\ Kin(b, d) /\ d.status = b.status
  BY <1>5 DEF RowOK, Kin
<1> QED BY <1>6 DEF d

LEMMA ChargedRow ==
    ASSUME NEW i \in Rows, RowOK(billing[i]), NEW date \in Nat
    PROVE  /\ RowOK(Charged(i, date)) /\ Kin(billing[i], Charged(i, date))
           /\ Charged(i, date).status = billing[i].status
<1> DEFINE b == Reconciled(billing[i], date)
<1>1. RowOK(b) /\ Kin(billing[i], b) /\ b.status = billing[i].status
      /\ (b.until = 0 \/ b.until <= date)
  BY ReconciledRow
<1> HIDE DEF b
<1>2. RowOK(Assessed(b, date)) /\ Kin(b, Assessed(b, date)) /\ Assessed(b, date).status = b.status
  BY <1>1, AssessedRow
<1> QED BY <1>1, <1>2 DEF Charged, b, Kin

LEMMA ConfirmPaymentStep ==
    ASSUME RInv, NEW p \in Payments, ConfirmPayment(p)
    PROVE  RInv'
<1> DEFINE date == payment[p].date
           paying(i) == Components(Charged(i, date), part[p][i].amount)
           table == [i \in Rows |-> IF i \in Allocated(p)
                                    THEN Credited(Charged(i, date), paying(i))
                                    ELSE billing[i]]
<1>1. /\ used' = used /\ UNCHANGED <<today, contract>> /\ billing' = [i \in Rows |-> table[i]]
      /\ receipts' = receipts + 1 /\ Touch(Allocated(p))
      /\ payment' = [payment EXCEPT ![p].status = "CONFIRMED", ![p].receipt = receipts + 1]
      /\ part' = [part EXCEPT ![p] = [i \in Rows |-> IF i \in Allocated(p)
                                                     THEN paying(i) ELSE part[p][i]]]
  BY DEF ConfirmPayment
<1>2. date \in Nat /\ Allocated(p) \subseteq Rows /\ receipts + 1 \in Nat
  BY DEF RInv, PlainOK, Allocated
<1>3. part \in [Payments -> [Rows -> PartRows]]
  BY DEF RInv, PlainOK, PartRows
<1>4. ASSUME NEW i \in Rows
      PROVE  /\ RowOK(Charged(i, date)) /\ Kin(billing[i], Charged(i, date))
             /\ paying(i) \in PartRows
             /\ RowOK(Credited(Charged(i, date), paying(i)))
             /\ Kin(Charged(i, date), Credited(Charged(i, date), paying(i)))
  <2>1. RowOK(billing[i]) /\ part[p][i].amount \in Nat
    BY <1>3 DEF RInv, TableOK, PartRows
  <2>2. RowOK(Charged(i, date)) /\ Kin(billing[i], Charged(i, date))
    BY <1>2, <2>1, ChargedRow
  <2>3. paying(i) \in PartRows
    BY <2>1, <2>2, ComponentsType DEF RowOK
  <2> HIDE DEF paying, date
  <2> QED BY <2>2, <2>3, CreditedRow
<1> HIDE DEF paying
<1>5. \A i \in Allocated(p) : billing[i].status # "NONE"
  BY DEF RInv, TitlesOK, Allocated
<1>6. \A i \in Rows : \/ table[i] = billing[i]
                      \/ /\ billing[i].status # "NONE"
                         /\ RowOK(table[i]) /\ Kin(billing[i], table[i])
  BY <1>4, <1>5 DEF Kin
<1>7. PlainOK' /\ contract' = contract /\ hold'.rows = hold.rows
  <2>1. hold' \in Holds /\ hold'.rows = hold.rows
    BY <1>1, Touching DEF RInv
  <2>2. payment' \in [Payments -> [status : {"NONE", "PENDING", "CONFIRMED", "REVERSED"},
                                   date : 0..LastDay, receipt : Nat]]
    BY <1>1, <1>2 DEF RInv, PlainOK
  <2>3. part' \in [Payments -> [Rows -> PartRows]]
    BY <1>1, <1>3, <1>4
  <2> QED BY <1>1, <1>2, <2>1, <2>2, <2>3 DEF RInv, PlainOK, PartRows
<1>8. \A q \in Payments, i \in Rows : part'[q][i].amount > 0 =>
         part[q][i].amount > 0 \/ billing[i].status # "NONE"
  BY <1>1, <1>3, <1>5
<1> HIDE DEF table
<1> QED BY <1>1, <1>6, <1>7, <1>8, Rewritten

-------------------------------------------------------------------------------
(* The steps that insert billings outside the schedule.                    *)

LEMMA Inserted ==
    ASSUME RInv, PlainOK', contract' = contract, hold'.rows = hold.rows,
           \A p \in Payments, i \in Rows : part'[p][i].amount > 0 => part[p][i].amount > 0,
           NEW S, NEW at, NEW rows, NEW table, Rewrites(table), Inserts(S, at, rows, table),
           \A x \in S : rows[x].number = 0 \/ rows[x].source # 0
    PROVE  RInv'
<1>1. TableOK
  BY DEF RInv
<1>2. /\ Grown
      /\ \A x \in S : at[x] \in Rows /\ at[x] > used /\ billing'[at[x]] = rows[x]
      /\ \A i \in Rows : i > used /\ i <= used' => \E x \in S : i = at[x]
  BY <1>1, Insertion
<1>3. \A i \in Rows : i > used /\ i <= used' => billing'[i].number = 0 \/ billing'[i].source # 0
  <2> SUFFICES ASSUME NEW i \in Rows, i > used, i <= used'
               PROVE  billing'[i].number = 0 \/ billing'[i].source # 0
    OBVIOUS
  <2>1. PICK x \in S : i = at[x]
    BY <1>2
  <2>2. billing'[i] = rows[x] /\ (rows[x].number = 0 \/ rows[x].source # 0)
    BY <1>2, <2>1
  <2> QED BY <2>2
<1> QED BY <1>2, <1>3, Steady

LEMMA Unchanged == RInv => Rewrites(billing)
BY DEF RInv, TableOK, Rewrites

LEMMA NoRowFields ==
    /\ NoRow \in BillingRows /\ NoRow.number = 0 /\ NoRow.source = 0 /\ ~NoRow.superseded
    /\ ~NoRow.recomposed /\ NoRow.fee = 0 /\ NoRow.interest = 0 /\ NoRow.until = 0
    /\ PaidNothing(NoRow)
BY NoRowOK DEF RowOK, NoRow, PaidNothing

LEMMA CreateAdHocBillingInserts ==
    ASSUME RInv, NEW value \in Values, CreateAdHocBilling(value, today)
    PROVE  \E at, rows : Inserts({0}, at, rows, billing) /\ rows[0].number = 0
<1> DEFINE b == [NoRow EXCEPT !.status = "ACTIVE", !.principal = value, !.due = today]
           rows == [x \in {0} |-> b]
<1>1. IsFiniteSet({0}) /\ Cardinality({0}) = 1 /\ {0} \subseteq Int
  <2>1. IsFiniteSet({0}) /\ Cardinality({0}) = 1
    BY FS_Singleton, Zenon
  <2> QED BY <2>1
<1>2. Fresh(b) /\ b.number = 0
  <2>1. value \in Nat /\ today \in Nat
    BY ReceivablesAssumption DEF RInv, PlainOK, Days
  <2>2. b \in BillingRows /\ b.number = 0 /\ ~b.superseded /\ b.until = 0
        /\ b.status = "ACTIVE" /\ PaidNothing(b) /\ b.fee = 0 /\ b.interest = 0
    BY <2>1, NoRowFields DEF BillingRows, PaidNothing
  <2> HIDE DEF b
  <2> QED BY <2>2, FreshRow
<1>3. /\ Room({0}) /\ used' = used + 1 /\ UNCHANGED <<today, contract, payment, part, receipts, hold>>
  BY DEF CreateAdHocBilling
<1>4. PICK at \in Placed({0}) : billing' = WithRows(billing, at, LAMBDA x : b)
  BY DEF CreateAdHocBilling
<1> HIDE DEF b
<1>5. billing' = [i \in Rows |-> IF \E x \in {0} : at[x] = i
                                 THEN rows[CHOOSE x \in {0} : at[x] = i] ELSE billing[i]]
  <2>1. DOMAIN at = {0}
    BY <1>4 DEF Placed
  <2>2. billing' = [i \in Rows |-> IF \E x \in {0} : at[x] = i THEN b ELSE billing[i]]
    BY <1>4, <2>1 DEF WithRows
  <2>3. \A i \in Rows : (\E x \in {0} : at[x] = i) => (CHOOSE x \in {0} : at[x] = i) \in {0}
    OBVIOUS
  <2>4. \A x \in {0} : rows[x] = b
    OBVIOUS
  <2> HIDE DEF rows
  <2> QED BY <2>2, <2>3, <2>4
<1>6. \A x \in {0} : rows[x] = b
  OBVIOUS
<1> HIDE DEF rows
<1>7. Inserts({0}, at, rows, billing)
  BY <1>1, <1>2, <1>3, <1>4, <1>5, <1>6 DEF Inserts
<1> QED BY <1>2, <1>6, <1>7

LEMMA CreateAdHocBillingStep ==
    ASSUME RInv, NEW value \in Values, CreateAdHocBilling(value, today)
    PROVE  RInv'
<1>1. UNCHANGED <<today, contract, payment, part, receipts, hold>>
  BY DEF CreateAdHocBilling
<1>2. PlainOK'
  BY <1>1 DEF RInv, PlainOK
<1>3. PICK at, rows : Inserts({0}, at, rows, billing) /\ rows[0].number = 0
  BY CreateAdHocBillingInserts
<1> QED BY <1>1, <1>2, <1>3, Unchanged, Inserted

LEMMA KinFollows ==
    ASSUME NEW a, NEW b, NEW c, Kin(a, b), Kin(b, c)
    PROVE  Kin(a, c)
BY DEF Kin

LEMMA DueDates == RInv => NewDueDates \subseteq Nat
BY ReceivablesAssumption DEF RInv, PlainOK, Days, NewDueDates

LEMMA OutstandingType ==
    ASSUME NEW b \in BillingRows
    PROVE  Outstanding(b) \in Nat
<1>1. Owed(b) - b.paid \in Int
  BY RowParts DEF Owed
<1> QED BY <1>1, PosType DEF Outstanding

LEMMA SplitType ==
    ASSUME NEW amount \in Nat, NEW parts \in Nat \ {0}, NEW k \in Nat
    PROVE  Split(amount, parts, k) \in Nat
<1>1. amount \div parts \in Nat /\ amount % parts \in Nat
  OBVIOUS
<1> QED BY <1>1 DEF Split

LEMMA ReplacementRow ==
    ASSUME RInv, NEW i \in Rows, NEW value \in Nat, NEW due \in Nat, NEW number \in Nat
    PROVE  LET b == Replacement(i, value, due, number)
           IN  Fresh(b) /\ b.source = i /\ i # 0
<1> DEFINE b == Replacement(i, value, due, number)
           revision == IF number = 0 THEN 1 ELSE contract.revision
<1>1. i \in Nat /\ i # 0 /\ billing[i].rated \in BOOLEAN /\ revision \in Nat
  <2>1. contract.revision \in Nat
    BY ContractParts DEF RInv, PlainOK
  <2>2. billing[i].rated \in BOOLEAN
    BY RowParts DEF RInv, TableOK
  <2>3. i \in Nat /\ i # 0
    BY RowIndex DEF RInv, TableOK
  <2> QED BY <2>1, <2>2, <2>3
<1>2. b = [NoRow EXCEPT !.status = "ACTIVE", !.source = i, !.principal = value, !.due = due,
                        !.number = number, !.rated = billing[i].rated, !.revision = revision]
  BY DEF Replacement
<1> HIDE DEF revision, b
<1>3. b \in BillingRows /\ ~b.superseded /\ b.until = 0 /\ b.fee = 0 /\ b.interest = 0
      /\ b.status = "ACTIVE" /\ b.source = i /\ PaidNothing(b)
  BY <1>1, <1>2, NoRowFields DEF BillingRows, PaidNothing
<1>4. Fresh(b) /\ b.source = i /\ i # 0
  BY <1>1, <1>3, FreshRow
<1> QED BY <1>4 DEF b

\* Title i gives way to the replacements `rows' of its parts.
Renegotiated(i, due, parts, at, rows, table) ==
    /\ Rewrites(table) /\ Inserts(1..parts, at, rows, table)
    /\ \A k \in 1..parts : rows[k].source = i /\ i # 0
    /\ table[i] = [Assessed(billing[i], due) EXCEPT !.status = "CANCELLED"]
    /\ \A j \in Rows \ {i} : table[j] = billing[j]

LEMMA RenegotiateBillingInserts ==
    ASSUME RInv, NEW i \in Rows, NEW due \in NewDueDates, NEW parts \in Parts,
           NEW agreed \in Agreed, RenegotiateBilling(i, due, parts, agreed)
    PROVE  \E at, rows, table : Renegotiated(i, due, parts, at, rows, table)
<1> DEFINE charged == Assessed(billing[i], due)
           amount == IF agreed = 0 THEN Outstanding(charged) ELSE agreed
           NumberOf(k) == IF billing[i].number = 0 THEN 0 ELSE LastNumber + k
           S == 1..parts
           rows == [k \in S |-> Replacement(i, Split(amount, parts, k), due + k - 1, NumberOf(k))]
           gone == [charged EXCEPT !.status = "CANCELLED"]
           table == [billing EXCEPT ![i] = gone]
<1>1. due \in Nat /\ parts \in Nat \ {0} /\ agreed \in Nat
  BY DueDates, ReceivablesAssumption
<1>2. RowOK(billing[i]) /\ billing[i] \in BillingRows /\ Open(billing[i])
      /\ billing[i].status = "ACTIVE" /\ Assessable(billing[i], due)
  BY DEF RenegotiateBilling, RInv, TableOK, RowOK, Open
<1>3. RowOK(charged) /\ Kin(billing[i], charged) /\ charged.status = "ACTIVE"
  <2>1. billing[i].until = 0 \/ billing[i].until <= due
    BY <1>1, <1>2, RowParts DEF Assessable
  <2> QED BY <1>1, <1>2, <2>1, AssessedRow
<1>4. RowOK(gone) /\ Kin(billing[i], gone)
  <2> HIDE DEF charged
  <2> QED BY <1>3, WaivedRow, KinFollows
<1>5. Rewrites(table)
  <2> HIDE DEF gone
  <2>1. table \in [Rows -> BillingRows]
    BY <1>4 DEF RInv, TableOK, RowOK
  <2>2. table[i] = gone /\ \A j \in Rows : j # i => table[j] = billing[j]
    BY DEF RInv, TableOK
  <2> HIDE DEF table
  <2> QED BY <1>2, <1>4, <2>1, <2>2 DEF Rewrites
<1>6. amount \in Nat
  BY <1>1, <1>3, OutstandingType DEF RowOK
<1>7. PICK at \in Placed(S) :
         billing' = WithRows(table, at, LAMBDA k : Replacement(i, Split(amount, parts, k),
                                                               due + k - 1, NumberOf(k)))
  BY DEF RenegotiateBilling
<1>8. /\ Room(S) /\ used' = used + parts /\ Touch({i})
      /\ UNCHANGED <<today, contract, payment, part, receipts>>
  BY DEF RenegotiateBilling
<1> HIDE DEF amount, charged, gone
<1>9. ASSUME NEW k \in S
      PROVE  Fresh(rows[k]) /\ rows[k].source = i /\ i # 0
  <2>1. k \in Nat /\ due + k - 1 \in Nat
    BY <1>1
  <2>2. Split(amount, parts, k) \in Nat
    BY <1>1, <1>6, <2>1, SplitType
  <2>3. NumberOf(k) \in Nat
    <3>1. LastNumber \in Nat
      BY LastNumberType DEF RInv
    <3> HIDE DEF S
    <3> QED BY <2>1, <3>1
  <2> DEFINE value == Split(amount, parts, k)
             date == due + k - 1
             number == NumberOf(k)
  <2>4. rows[k] = Replacement(i, value, date, number)
    OBVIOUS
  <2>5. value \in Nat /\ date \in Nat /\ number \in Nat
    BY <2>1, <2>2, <2>3
  <2> HIDE DEF value, date, number, rows
  <2> QED BY <2>4, <2>5, ReplacementRow
<1>10. billing' = [j \in Rows |-> IF \E k \in S : at[k] = j
                                  THEN rows[CHOOSE k \in S : at[k] = j] ELSE table[j]]
  <2>1. DOMAIN at = S
    BY <1>7 DEF Placed
  <2> DEFINE row(k) == Replacement(i, Split(amount, parts, k), due + k - 1, NumberOf(k))
  <2>2. billing' = [j \in Rows |-> IF \E k \in S : at[k] = j
                                   THEN row(CHOOSE k \in S : at[k] = j) ELSE table[j]]
    BY <1>7, <2>1 DEF WithRows
  <2>3. \A j \in Rows : (\E k \in S : at[k] = j) => (CHOOSE k \in S : at[k] = j) \in S
    OBVIOUS
  <2>4. \A k \in S : rows[k] = row(k)
    OBVIOUS
  <2> HIDE DEF rows, row, table, S
  <2> QED BY <2>2, <2>3, <2>4
<1>11. IsFiniteSet(S) /\ Cardinality(S) = parts /\ S \subseteq Int
  <2>1. 1 \in Int /\ parts \in Int /\ ~(1 > parts) /\ parts - 1 + 1 = parts
    BY <1>1
  <2>2. IsFiniteSet(1..parts) /\ Cardinality(1..parts) = parts
    BY <2>1, FS_Interval
  <2> QED BY <2>2
<1>12. table[i] = gone /\ \A j \in Rows \ {i} : table[j] = billing[j]
  BY DEF RInv, TableOK
<1> HIDE DEF rows, table, S
<1>13. Inserts(S, at, rows, table)
  BY <1>7, <1>8, <1>9, <1>10, <1>11 DEF Inserts
<1> QED BY <1>5, <1>9, <1>12, <1>13 DEF S, gone, charged, Renegotiated

LEMMA RenegotiateBillingStep ==
    ASSUME RInv, NEW i \in Rows, NEW due \in NewDueDates, NEW parts \in Parts,
           NEW agreed \in Agreed, RenegotiateBilling(i, due, parts, agreed)
    PROVE  RInv'
<1>1. UNCHANGED <<today, contract, payment, part, receipts>> /\ Touch({i})
  BY DEF RenegotiateBilling
<1>2. PlainOK' /\ hold'.rows = hold.rows
  BY <1>1, Touching DEF RInv, PlainOK
<1>3. PICK at, rows, table : Renegotiated(i, due, parts, at, rows, table)
  BY RenegotiateBillingInserts
<1> DEFINE S == 1..parts
<1>4. Rewrites(table) /\ Inserts(S, at, rows, table) /\ \A k \in S : rows[k].source # 0
  BY <1>3 DEF Renegotiated
<1> HIDE DEF S
<1> QED BY <1>1, <1>2, <1>4, Inserted

LEMMA RecompositionRow ==
    ASSUME NEW c \in PartRows, NEW due \in Nat
    PROVE  LET b == Recomposition(c, due)
           IN  Fresh(b) /\ b.number = 0
<1> DEFINE b == Recomposition(c, due)
<1>1. c.principal \in Nat /\ c.fee \in Nat /\ c.interest \in Nat
  BY DEF PartRows
<1>2. b \in BillingRows /\ ~b.superseded /\ b.until = 0 /\ b.recomposed
      /\ b.status = "ACTIVE" /\ b.number = 0 /\ PaidNothing(b)
  BY <1>1, NoRowFields DEF BillingRows, Recomposition, PaidNothing
<1> HIDE DEF b
<1>3. Fresh(b) /\ b.number = 0
  BY <1>2, FreshRow
<1> QED BY <1>3 DEF b

\* The titles of an allocation that were renegotiated away.
Orphans(p) == {i \in Allocated(p) : billing[i].status = "CANCELLED"}

\* The allocations of p are taken back, those of orphans as new titles.
Reversed(p, due, at, rows, table) ==
    /\ Rewrites(table) /\ Inserts(Orphans(p), at, rows, table)
    /\ \A i \in Orphans(p) : rows[i] = Recomposition(part[p][i], due) /\ rows[i].number = 0
    /\ \A i \in Rows : table[i] = IF i \in Allocated(p) THEN Debited(billing[i], part[p][i])
                                  ELSE billing[i]

LEMMA ReversePaymentInserts ==
    ASSUME RInv, NEW p \in Payments, NEW due \in NewDueDates, ReversePayment(p, due)
    PROVE  \E at, rows, table : Reversed(p, due, at, rows, table)
<1> DEFINE orphans == Orphans(p)
           debited == [i \in Rows |-> IF i \in Allocated(p)
                                      THEN Debited(billing[i], part[p][i]) ELSE billing[i]]
           rows == [i \in orphans |-> Recomposition(part[p][i], due)]
<1>1. due \in Nat
  BY DueDates
<1>2. part \in [Payments -> [Rows -> PartRows]] /\ \A i \in Rows : part[p][i] \in PartRows
  BY DEF RInv, PlainOK, PartRows
<1>3. Rewrites(debited)
  <2>1. \A i \in Allocated(p) : i \in Rows /\ billing[i].status # "NONE"
    BY DEF RInv, TitlesOK, Allocated
  <2>2. \A i \in Rows : RowOK(billing[i])
    BY DEF RInv, TableOK
  <2>3. \A i \in Rows : /\ RowOK(Debited(billing[i], part[p][i]))
                        /\ Kin(billing[i], Debited(billing[i], part[p][i]))
    BY <1>2, <2>2, DebitedRow
  <2>4. \A i \in Rows : RowOK(debited[i])
    BY <2>2, <2>3
  <2>5. debited \in [Rows -> BillingRows]
    BY <2>4 DEF RowOK
  <2> QED BY <2>1, <2>3, <2>5 DEF Rewrites
<1>4. PICK at \in Placed(orphans) :
         billing' = WithRows(debited, at, LAMBDA i : Recomposition(part[p][i], due))
  BY DEF ReversePayment, Orphans
<1>5. /\ Room(orphans) /\ used' = used + Cardinality(orphans) /\ Touch(Allocated(p))
      /\ payment' = [payment EXCEPT ![p].status = "REVERSED"]
      /\ UNCHANGED <<today, contract, part, receipts>>
  BY DEF ReversePayment, Orphans
<1>6. ASSUME NEW i \in orphans
      PROVE  /\ Fresh(rows[i]) /\ rows[i].number = 0
             /\ rows[i] = Recomposition(part[p][i], due)
  <2>1. part[p][i] \in PartRows
    BY <1>2 DEF Allocated, Orphans
  <2>2. rows[i] = Recomposition(part[p][i], due)
    OBVIOUS
  <2> HIDE DEF rows
  <2> QED BY <1>1, <2>1, <2>2, RecompositionRow
<1>7. billing' = [j \in Rows |-> IF \E i \in orphans : at[i] = j
                                 THEN rows[CHOOSE i \in orphans : at[i] = j] ELSE debited[j]]
  <2>1. DOMAIN at = orphans
    BY <1>4 DEF Placed
  <2> DEFINE row(i) == Recomposition(part[p][i], due)
  <2> HIDE DEF debited
  <2>2. billing' = [j \in Rows |-> IF \E i \in orphans : at[i] = j
                                   THEN row(CHOOSE i \in orphans : at[i] = j) ELSE debited[j]]
    BY <1>4, <2>1 DEF WithRows
  <2>3. \A j \in Rows : (\E i \in orphans : at[i] = j)
                        => (CHOOSE i \in orphans : at[i] = j) \in orphans
    OBVIOUS
  <2>4. \A i \in orphans : rows[i] = row(i)
    OBVIOUS
  <2> HIDE DEF rows, row, orphans
  <2> QED BY <2>2, <2>3, <2>4
<1>8. IsFiniteSet(orphans) /\ orphans \subseteq Int
  <2>1. orphans \subseteq Rows /\ IsFiniteSet(Rows) /\ Rows \subseteq Int
    BY RowIndex DEF RInv, TableOK, Allocated, Orphans
  <2> HIDE DEF orphans
  <2> QED BY <2>1, FS_Subset
<1>10. \A i \in Rows : debited[i] = IF i \in Allocated(p)
                                     THEN Debited(billing[i], part[p][i]) ELSE billing[i]
  OBVIOUS
<1> HIDE DEF rows, debited, orphans
<1>9. Inserts(orphans, at, rows, debited)
  BY <1>4, <1>5, <1>6, <1>7, <1>8 DEF Inserts
<1> QED BY <1>3, <1>6, <1>9, <1>10 DEF orphans, Reversed

LEMMA ReversePaymentStep ==
    ASSUME RInv, NEW p \in Payments, NEW due \in NewDueDates, ReversePayment(p, due)
    PROVE  RInv'
<1>1. /\ payment' = [payment EXCEPT ![p].status = "REVERSED"]
      /\ UNCHANGED <<today, contract, part, receipts>> /\ Touch(Allocated(p))
  BY DEF ReversePayment
<1>2. PlainOK' /\ hold'.rows = hold.rows
  <2>1. hold' \in Holds /\ hold'.rows = hold.rows
    BY <1>1, Touching DEF RInv
  <2> QED BY <1>1, <2>1 DEF RInv, PlainOK
<1>3. PICK at, rows, table : Reversed(p, due, at, rows, table)
  BY ReversePaymentInserts
<1> QED BY <1>1, <1>2, <1>3, Inserted DEF Reversed

-------------------------------------------------------------------------------
(* The steps that issue titles of the schedule.                            *)

LEMMA InstallmentRow ==
    ASSUME NEW n \in Nat, NEW terms \in Contracts
    PROVE  LET b == Installment(n, terms)
           IN  /\ Fresh(b) /\ b.number = n /\ b.source = 0
               /\ b.revision = terms.revision
<1> DEFINE b == Installment(n, terms)
<1>1. terms.revision \in Nat /\ terms.value \in Nat
  BY ContractParts
<1>2. b \in BillingRows /\ ~b.superseded /\ b.until = 0 /\ b.fee = 0 /\ b.interest = 0 /\ PaidNothing(b)
      /\ b.status = "ACTIVE" /\ b.number = n /\ b.source = 0 /\ b.revision = terms.revision
  BY <1>1, NoRowFields DEF BillingRows, Installment, PaidNothing
<1> HIDE DEF b
<1>3. Fresh(b) /\ b.number = n /\ b.source = 0 /\ b.revision = terms.revision
  BY <1>2, FreshRow
<1> QED BY <1>3 DEF b

\* What the new rows of an insertion are, given as the model gives them.
IssuedIn(S, at, table, terms) ==
    billing' = [j \in Rows |-> IF \E n \in S : at[n] = j
                               THEN Installment(CHOOSE n \in S : at[n] = j, terms)
                               ELSE table[j]]

LEMMA IssuedRows ==
    ASSUME NEW S \in SUBSET Numbers, IsFiniteSet(S), Room(S), NEW terms \in Contracts,
           used' = used + Cardinality(S), NEW table, NEW at \in Placed(S),
           IssuedIn(S, at, table, terms),
           NEW rows, rows = [n \in S |-> Installment(n, terms)]
    PROVE  /\ Inserts(S, at, rows, table)
           /\ \A n \in S : /\ rows[n].number = n /\ rows[n].source = 0
                           /\ rows[n].revision = terms.revision
<1>1. ASSUME NEW n \in S
      PROVE  /\ Fresh(rows[n]) /\ rows[n].number = n
             /\ rows[n].source = 0 /\ rows[n].revision = terms.revision
  <2>1. n \in Nat
    BY DEF Numbers
  <2>2. rows[n] = Installment(n, terms)
    OBVIOUS
  <2> QED BY <2>1, <2>2, InstallmentRow
<1>2. billing' = [j \in Rows |-> IF \E n \in S : at[n] = j
                                 THEN rows[CHOOSE n \in S : at[n] = j] ELSE table[j]]
  <2> DEFINE row(n) == Installment(n, terms)
  <2>2. billing' = [j \in Rows |-> IF \E n \in S : at[n] = j
                                   THEN row(CHOOSE n \in S : at[n] = j) ELSE table[j]]
    BY DEF IssuedIn
  <2>3. \A j \in Rows : (\E n \in S : at[n] = j) => (CHOOSE n \in S : at[n] = j) \in S
    OBVIOUS
  <2>4. \A n \in S : rows[n] = row(n)
    OBVIOUS
  <2> HIDE DEF row
  <2> QED BY <2>2, <2>3, <2>4
<1>3. S \subseteq Int
  BY DEF Numbers
<1> QED BY <1>1, <1>2, <1>3 DEF Inserts

LEMMA Issued ==
    ASSUME RInv, NEW S \in SUBSET Numbers, NEW r \in Nat,
           contract'.revision = r, contract.revision <= r,
           hold'.rows = hold.rows, part' = part,
           NEW table, Rewrites(table), NEW at, NEW rows, Inserts(S, at, rows, table),
           \A n \in S : rows[n].number = n /\ rows[n].source = 0 /\ rows[n].revision = r,
           \A n \in S : \A j \in Originals(n) : table[j].superseded /\ billing[j].revision < r
    PROVE  /\ TableOK' /\ ScheduleOK' /\ TitlesOK'
           /\ \A n \in Numbers : Originals(n) # {} \/ n \in S => Originals(n)' # {}
<1>1. contract.revision \in Nat
  BY ContractParts DEF RInv, PlainOK
<1>2. TableOK /\ ScheduleOK
  BY DEF RInv
<1>3. /\ Grown
      /\ \A n \in S : at[n] \in Rows /\ at[n] > used /\ billing'[at[n]] = rows[n]
      /\ \A i \in Rows : i <= used => billing'[i] = table[i]
      /\ \A i \in Rows : i > used /\ i <= used' => \E n \in S : i = at[n]
  BY <1>2, Insertion
<1>4. TableOK'
  BY <1>2, <1>3, TableStep
<1>5. \A n \in S : /\ at[n] \in Rows /\ at[n] > used
                   /\ billing'[at[n]].number = n /\ billing'[at[n]].source = 0
                   /\ billing'[at[n]].revision = r
  BY <1>3
<1>6. \A n \in S : \A j \in Originals(n) : billing'[j].superseded /\ billing[j].revision < r
  <2> SUFFICES ASSUME NEW n \in S, NEW j \in Originals(n)
               PROVE  billing'[j].superseded /\ billing[j].revision < r
    OBVIOUS
  <2>1. j \in Rows /\ billing[j].number # 0
    BY DEF Originals, Numbers
  <2>2. j <= used
    BY <1>2, <2>1, RowIndex DEF TableOK, NoRow
  <2> QED BY <1>3, <2>1, <2>2
<1>7. Issues(S, at, r)
  BY <1>3, <1>5, <1>6 DEF Issues
<1>8. /\ ScheduleOK'
       /\ \A n \in Numbers : Originals(n) # {} \/ n \in S => Originals(n)' # {}
  BY <1>1, <1>2, <1>3, <1>7, Issuance
<1>9. TitlesOK'
  <2>1. \A i \in Rows : billing[i].status # "NONE" => billing'[i].status # "NONE"
    <3> SUFFICES ASSUME NEW i \in Rows, billing[i].status # "NONE"
                 PROVE  billing'[i].status # "NONE"
      OBVIOUS
    <3>1. i <= used
      BY RowIndex DEF RInv, TableOK
    <3> QED BY <1>3, <3>1 DEF Grown, Kin
  <2>2. hold.rows \subseteq Rows
    BY DEF RInv, PlainOK, Holds
  <2> QED BY <2>1, <2>2 DEF RInv, TitlesOK
<1> QED BY <1>4, <1>8, <1>9

\* Materialization, by whichever command, under terms of the same revision.
LEMMA MaterializedInserts ==
    ASSUME RInv, NEW numbers \in SUBSET Numbers, IsFiniteSet(numbers),
           Materialized(Missing(numbers))
    PROVE  \E at, rows :
              /\ Inserts(Missing(numbers), at, rows, billing)
              /\ \A n \in Missing(numbers) : /\ rows[n].number = n /\ rows[n].source = 0
                                            /\ rows[n].revision = contract.revision
<1> DEFINE S == Missing(numbers)
<1>1. S \in SUBSET Numbers /\ S \in SUBSET numbers
  BY DEF Missing
<1>2. Room(S) /\ used' = used + Cardinality(S)
  BY DEF Materialized
<1>3. PICK at \in Placed(S) : billing' = WithRows(billing, at, LAMBDA n : Installment(n, contract))
  BY DEF Materialized
<1>4. contract \in Contracts
  BY DEF RInv, PlainOK
<1>5. IssuedIn(S, at, billing, contract)
  <2>1. DOMAIN at = S
    BY <1>3 DEF Placed
  <2> HIDE DEF S
  <2> QED BY <1>3, <2>1 DEF WithRows, IssuedIn
<1> DEFINE rows == [n \in S |-> Installment(n, contract)]
<1> HIDE DEF S
<1>6. IsFiniteSet(S)
  BY <1>1, FS_Subset
<1>7. /\ Inserts(S, at, rows, billing)
      /\ \A n \in S : /\ rows[n].number = n /\ rows[n].source = 0
                      /\ rows[n].revision = contract.revision
  BY <1>1, <1>2, <1>3, <1>4, <1>5, <1>6, IssuedRows
<1> HIDE DEF rows
<1> QED BY <1>7 DEF S

LEMMA MaterializedStep ==
    ASSUME RInv, PlainOK', NEW numbers \in SUBSET Numbers, IsFiniteSet(numbers),
           Materialized(Missing(numbers)),
           contract'.revision = contract.revision, hold'.rows = hold.rows, part' = part
    PROVE  /\ TableOK' /\ ScheduleOK' /\ TitlesOK'
           /\ \A n \in Numbers : Originals(n) # {} \/ n \in numbers => Originals(n)' # {}
<1> DEFINE S == Missing(numbers)
<1>1. S \in SUBSET Numbers /\ \A n \in S : Originals(n) = {}
  BY DEF Missing
<1>2. \A n \in numbers : Originals(n) # {} \/ n \in S
  BY DEF Missing
<1>3. PICK at, rows :
         /\ Inserts(S, at, rows, billing)
         /\ \A n \in S : /\ rows[n].number = n /\ rows[n].source = 0
                         /\ rows[n].revision = contract.revision
  BY MaterializedInserts
<1> HIDE DEF S
<1>4. contract.revision \in Nat /\ contract.revision <= contract.revision
  <2>1. contract.revision \in Nat
    BY ContractParts DEF RInv, PlainOK
  <2> QED BY <2>1
<1>5. \A n \in S : \A j \in Originals(n) :
         billing[j].superseded /\ billing[j].revision < contract.revision
  BY <1>1
<1>6. /\ TableOK' /\ ScheduleOK' /\ TitlesOK'
      /\ \A n \in Numbers : Originals(n) # {} \/ n \in S => Originals(n)' # {}
  BY <1>1, <1>3, <1>4, <1>5, Unchanged, Issued
<1> QED BY <1>2, <1>6

LEMMA UpTo == \A n \in Nat : IsFiniteSet(1..n)
<1> SUFFICES ASSUME NEW n \in Nat PROVE IsFiniteSet(1..n)
  OBVIOUS
<1>1. 1 \in Int /\ n \in Int
  OBVIOUS
<1> QED BY <1>1, FS_Interval

LEMMA ActivateContractStep == ASSUME RInv, ActivateContract PROVE RInv'
<1> DEFINE numbers == 1..contract.count
<1>1. /\ PlainOK' /\ contract'.revision = contract.revision /\ contract'.count = contract.count
      /\ contract'.value = contract.value /\ contract'.effective = contract.effective
      /\ hold'.rows = hold.rows /\ part' = part
  BY DEF RInv, PlainOK, ActivateContract, Contracts
<1>2. numbers \in SUBSET Numbers /\ IsFiniteSet(numbers)
  <2>1. contract.count \in Nat
    BY ContractParts DEF RInv, PlainOK
  <2> QED BY <2>1, UpTo DEF Numbers
<1>3. Materialized(Missing(numbers))
  BY DEF ActivateContract
<1> HIDE DEF numbers
<1>4. /\ TableOK' /\ ScheduleOK' /\ TitlesOK'
      /\ \A n \in Numbers : Originals(n) # {} \/ n \in numbers => Originals(n)' # {}
  BY <1>1, <1>2, <1>3, MaterializedStep
<1>5. \A n \in 1..contract'.count : Originals(n)' # {}
  BY <1>1, <1>2, <1>4 DEF numbers
<1> QED BY <1>1, <1>4, <1>5 DEF RInv, NothingLeftToMaterialize

LEMMA MaterializeBillingsStep ==
    ASSUME RInv, NEW numbers \in SUBSET (1..contract.count), MaterializeBillings(numbers)
    PROVE  RInv'
<1>1. /\ PlainOK' /\ contract' = contract /\ hold'.rows = hold.rows /\ part' = part
  BY DEF RInv, PlainOK, MaterializeBillings
<1>2. numbers \in SUBSET Numbers /\ IsFiniteSet(numbers)
  <2>1. contract.count \in Nat
    BY ContractParts DEF RInv, PlainOK
  <2>2. IsFiniteSet(1..contract.count)
    BY <2>1, UpTo
  <2>3. IsFiniteSet(numbers)
    BY <2>2, FS_Subset
  <2> QED BY <2>1, <2>3 DEF Numbers
<1>3. Materialized(Missing(numbers))
  BY DEF MaterializeBillings
<1>4. /\ TableOK' /\ ScheduleOK' /\ TitlesOK'
      /\ \A n \in Numbers : Originals(n) # {} \/ n \in numbers => Originals(n)' # {}
  BY <1>1, <1>2, <1>3, MaterializedStep
<1>5. NothingLeftToMaterialize'
  <2> SUFFICES ASSUME contract'.status = "ACTIVE", NEW n \in 1..contract'.count
               PROVE  Originals(n)' # {} \/ n < contract'.effective
    BY DEF NothingLeftToMaterialize
  <2>1. contract.status = "ACTIVE" /\ n \in 1..contract.count /\ n \in Numbers
    BY <1>1, ContractParts DEF RInv, PlainOK, Numbers
  <2>2. Originals(n) # {} \/ n < contract.effective
    BY <2>1 DEF RInv, NothingLeftToMaterialize
  <2> QED BY <1>1, <1>4, <2>1, <2>2
<1> QED BY <1>1, <1>4, <1>5 DEF RInv

\* The title of an installment that an amendment finds in force, or finds
\* suppressed, is the last one, and all others were replaced before.
LEMMA AmendedNumbers ==
    ASSUME RInv, NEW from \in Days, NEW count \in Counts, NEW n \in Scheduled(from, count),
           NEW j \in Originals(n)
    PROVE  /\ n \in Numbers
           /\ billing[j].superseded \/ j \in Future(from)
           /\ billing[j].revision < contract.revision + 1
<1>1. n \in Numbers /\ n \in 1..count
  BY ReceivablesAssumption DEF Scheduled, Numbers
<1>2. PICK i \in Rows : LastOf(n, i)
  BY <1>1 DEF RInv, ScheduleOK
<1>3. /\ i \in Originals(n) /\ i \in Rows /\ j \in Rows /\ billing[i].revision <= contract.revision
      /\ \A k \in Originals(n) \ {i} : billing[k].superseded /\ billing[k].revision < billing[i].revision
  BY <1>2 DEF LastOf, Originals
<1>4. \A k \in Rows : billing[k].revision \in Nat /\ (billing[k].superseded => billing[k].status = "CANCELLED")
  BY RowParts DEF RInv, TableOK, RowOK
<1>5. contract.revision \in Nat
  BY ContractParts DEF RInv, PlainOK
<1>6. billing[j].revision < contract.revision + 1
  <2>1. billing[j].revision <= billing[i].revision
    BY <1>3, <1>4
  <2> QED BY <1>3, <1>4, <1>5, <2>1
<1>7. CASE j # i
  BY <1>1, <1>3, <1>6, <1>7
<1>8. CASE j = i
  <2>1. CASE \E k \in Future(from) : billing[k].number = n
    <3>1. PICK k \in Future(from) : billing[k].number = n
      BY <2>1
    <3>2. k \in Originals(n) /\ billing[k].status = "ACTIVE"
      BY <3>1 DEF Future, Originals
    <3>3. k = i
      BY <1>3, <1>4, <3>2 DEF Originals
    <3> QED BY <1>1, <1>6, <1>8, <3>3
  <2>2. CASE ~\E k \in Future(from) : billing[k].number = n
    <3> DEFINE latest == CHOOSE k \in Originals(n) :
                            \A l \in Originals(n) : billing[l].revision <= billing[k].revision
    <3>1. billing[latest].superseded
      <4>1. Originals(n) # {}
        OBVIOUS
      <4> QED BY <2>2, <4>1 DEF Scheduled
    <3>2. \A l \in Originals(n) : billing[l].revision <= billing[i].revision
      BY <1>3, <1>4 DEF Originals
    <3>3. latest \in Originals(n) /\ billing[i].revision <= billing[latest].revision
      BY <1>3, <3>2
    <3> HIDE DEF latest
    <3>4. latest = i
      <4>1. latest \in Rows
        BY <3>3 DEF Originals
      <4>2. ~(billing[latest].revision < billing[i].revision)
        BY <1>3, <1>4, <3>3, <4>1
      <4> QED BY <1>3, <3>3, <4>2
    <3> QED BY <1>1, <1>6, <1>8, <3>1, <3>4
  <2> QED BY <2>1, <2>2
<1> QED BY <1>7, <1>8

\* Future titles give way to the installments `rows' of the new terms.
Amended(from, count, at, rows, table) ==
    /\ Rewrites(table) /\ Inserts(Scheduled(from, count), at, rows, table)
    /\ \A n \in Scheduled(from, count) : /\ rows[n].number = n /\ rows[n].source = 0
                                         /\ rows[n].revision = contract.revision + 1
    /\ \A i \in Rows : table[i] = IF i \in Future(from)
                                  THEN [billing[i] EXCEPT !.status = "CANCELLED",
                                                          !.superseded = TRUE]
                                  ELSE billing[i]

LEMMA ScheduledNumbers ==
    ASSUME NEW from, NEW count \in Counts
    PROVE  Scheduled(from, count) \in SUBSET Numbers /\ IsFiniteSet(Scheduled(from, count))
<1>1. count \in Nat
  BY ReceivablesAssumption
<1>2. Scheduled(from, count) \in SUBSET (1..count) /\ IsFiniteSet(1..count)
  BY <1>1, UpTo DEF Scheduled
<1>3. IsFiniteSet(Scheduled(from, count))
  BY <1>2, FS_Subset
<1> QED BY <1>1, <1>2, <1>3 DEF Numbers

LEMMA CreateAmendmentInserts ==
    ASSUME RInv, NEW from \in Days, NEW count \in Counts, NEW value \in Values,
           CreateAmendment(from, count, value)
    PROVE  \E at, rows, table : Amended(from, count, at, rows, table)
<1> DEFINE S == Scheduled(from, count)
           r == contract.revision + 1
           terms == [contract EXCEPT !.revision = r, !.count = count, !.value = value,
                                     !.effective = from]
           table == [i \in Rows |->
                       IF i \in Future(from)
                       THEN [billing[i] EXCEPT !.status = "CANCELLED", !.superseded = TRUE]
                       ELSE billing[i]]
           rows == [n \in S |-> Installment(n, terms)]
<1>1. /\ Room(S) /\ used' = used + Cardinality(S) /\ contract.revision < MaxRevisions
  BY DEF CreateAmendment
<1>2. PICK at \in Placed(S) : billing' = WithRows(table, at, LAMBDA n : Installment(n, terms))
  BY DEF CreateAmendment
<1>3. terms \in Contracts /\ terms.revision = r
  <2>1. r \in 1..MaxRevisions
    <3>1. contract.revision \in 1..MaxRevisions /\ contract.revision \in Nat
      BY ContractParts DEF RInv, PlainOK
    <3> QED BY <1>1, <3>1, ReceivablesAssumption
  <2>2. from \in 0..LastDay
    BY ReceivablesAssumption DEF Days
  <2>3. contract \in Contracts
    BY DEF RInv, PlainOK
  <2> HIDE DEF r
  <2> QED BY <2>1, <2>2, <2>3 DEF Contracts
<1>4. Rewrites(table)
  <2>1. \A i \in Rows : RowOK(billing[i])
    BY DEF RInv, TableOK
  <2>2. \A i \in Future(from) : i \in Rows /\ billing[i].status # "NONE"
    BY DEF Future
  <2>3. \A i \in Future(from) : RowOK(table[i]) /\ Kin(billing[i], table[i])
    BY <2>1, <2>2, ReplacedRow
  <2>4. \A i \in Rows : i \notin Future(from) => table[i] = billing[i]
    OBVIOUS
  <2>5. table = [i \in Rows |-> table[i]]
    OBVIOUS
  <2> HIDE DEF table
  <2>6. \A i \in Rows : RowOK(table[i])
    BY <2>1, <2>3, <2>4
  <2>7. table \in [Rows -> BillingRows]
    BY <2>5, <2>6 DEF RowOK
  <2> QED BY <2>2, <2>3, <2>4, <2>7 DEF Rewrites
<1>5. \A i \in Rows : table[i] = IF i \in Future(from)
                                 THEN [billing[i] EXCEPT !.status = "CANCELLED",
                                                         !.superseded = TRUE]
                                 ELSE billing[i]
  OBVIOUS
<1>6. S \in SUBSET Numbers /\ IsFiniteSet(S)
  BY ScheduledNumbers
<1> HIDE DEF S, terms, table
<1>7. IssuedIn(S, at, table, terms)
  <2>1. DOMAIN at = S
    BY <1>2 DEF Placed
  <2> QED BY <1>2, <2>1 DEF WithRows, IssuedIn
<1>8. /\ Inserts(S, at, rows, table)
      /\ \A n \in S : rows[n].number = n /\ rows[n].source = 0 /\ rows[n].revision = r
  BY <1>1, <1>2, <1>3, <1>6, <1>7, IssuedRows
<1> HIDE DEF rows
<1> HIDE DEF table
<1>9. Amended(from, count, at, rows, table)
  BY <1>4, <1>5, <1>8 DEF Amended, S, r
<1> QED BY <1>9

LEMMA CreateAmendmentStep ==
    ASSUME RInv, NEW from \in Days, NEW count \in Counts, NEW value \in Values,
           CreateAmendment(from, count, value)
    PROVE  RInv'
<1> DEFINE S == Scheduled(from, count)
           r == contract.revision + 1
<1>1. /\ contract' = [contract EXCEPT !.revision = r, !.count = count, !.value = value,
                                      !.effective = from]
      /\ Touch(Future(from)) /\ UNCHANGED <<today, payment, part, receipts>>
      /\ contract.revision < MaxRevisions
  BY DEF CreateAmendment
<1>2. r \in 1..MaxRevisions /\ r \in Nat /\ contract.revision <= r
  <2>1. contract.revision \in 1..MaxRevisions /\ contract.revision \in Nat
    BY ContractParts DEF RInv, PlainOK
  <2> QED BY <1>1, <2>1, ReceivablesAssumption
<1>3. count \in Nat /\ from \in 0..LastDay /\ from \in Nat
  BY ReceivablesAssumption DEF Days
<1>4. PICK at, rows, table : Amended(from, count, at, rows, table)
  BY CreateAmendmentInserts
<1>5. /\ Rewrites(table) /\ Inserts(S, at, rows, table)
      /\ \A n \in S : rows[n].number = n /\ rows[n].source = 0 /\ rows[n].revision = r
  BY <1>4 DEF Amended
<1>6. S \in SUBSET Numbers /\ \A n \in 1..count : n >= from /\ Originals(n) = {} => n \in S
  BY ScheduledNumbers DEF Scheduled
<1>7. ASSUME NEW n \in S, NEW j \in Originals(n)
      PROVE  table[j].superseded /\ billing[j].revision < r
  <2>1. billing[j].superseded \/ j \in Future(from)
    BY AmendedNumbers
  <2>2. billing[j].revision < r
    BY AmendedNumbers
  <2>3. j \in Rows /\ RowOK(billing[j])
    BY DEF Originals, RInv, TableOK
  <2>4. CASE j \in Future(from)
    <3>1. /\ table[j] = [billing[j] EXCEPT !.status = "CANCELLED", !.superseded = TRUE]
          /\ billing[j].status # "NONE"
      BY <1>4, <2>3, <2>4 DEF Amended, Future
    <3> QED BY <2>2, <2>3, <3>1, ReplacedRow
  <2>5. CASE j \notin Future(from)
    <3>1. table[j] = billing[j]
      BY <1>4, <2>3, <2>5 DEF Amended
    <3> QED BY <2>1, <2>2, <2>5, <3>1
  <2> QED BY <2>4, <2>5
<1> HIDE DEF S
<1>8. contract' \in Contracts /\ contract'.revision = r
  <2>1. contract \in Contracts
    BY DEF RInv, PlainOK
  <2> HIDE DEF r
  <2> QED BY <1>1, <1>2, <1>3, <2>1 DEF Contracts
<1>9. /\ contract'.count = count /\ contract'.effective = from /\ part' = part
      /\ hold' \in Holds /\ hold'.rows = hold.rows
  BY <1>1, Touching DEF RInv, PlainOK, Contracts
<1> HIDE DEF r
<1>10. PlainOK'
  BY <1>1, <1>8, <1>9 DEF RInv, PlainOK
<1>11. /\ TableOK' /\ ScheduleOK' /\ TitlesOK'
       /\ \A n \in Numbers : Originals(n) # {} \/ n \in S => Originals(n)' # {}
  BY <1>2, <1>5, <1>6, <1>7, <1>8, <1>9, Issued
<1>12. NothingLeftToMaterialize'
  <2> SUFFICES ASSUME NEW n \in 1..count
               PROVE  Originals(n)' # {} \/ n < from
    BY <1>9 DEF NothingLeftToMaterialize
  <2>1. n \in Nat /\ n \in Numbers /\ (n >= from \/ n < from)
    BY <1>3 DEF Numbers
  <2>2. CASE n >= from
    BY <1>6, <1>11, <2>1, <2>2
  <2> QED BY <2>1, <2>2
<1> QED BY <1>10, <1>11, <1>12 DEF RInv

-------------------------------------------------------------------------------
LEMMA NextInvariant == RInv /\ [Next]_vars => RInv'
<1> SUFFICES ASSUME RInv, [Next]_vars PROVE RInv'
  OBVIOUS
<1>1. CASE Tick
  BY <1>1, TickStep
<1>2. CASE ContractStep
  <2>1. CASE \E n \in Days : MaterializeBillings({n} \cap 1..contract.count)
    <3>1. PICK n \in Days : MaterializeBillings({n} \cap 1..contract.count)
      BY <2>1
    <3>2. {n} \cap 1..contract.count \in SUBSET (1..contract.count)
      OBVIOUS
    <3> QED BY <3>1, <3>2, MaterializeBillingsStep
  <2>2. CASE MaterializeBillings(1..contract.count)
    <3>1. 1..contract.count \in SUBSET (1..contract.count)
      OBVIOUS
    <3> QED BY <2>2, <3>1, MaterializeBillingsStep
  <2>3. CASE \E from \in Days, count \in Counts, value \in Values :
                CreateAmendment(from, count, value)
    BY <2>3, CreateAmendmentStep
  <2>4. CASE \E count \in Counts, value \in Values : UpdateContractDraft(count, value)
    BY <2>4, UpdateContractDraftStep
  <2> QED BY <1>2, <2>1, <2>2, <2>3, <2>4, CreateContractStep, ActivateContractStep,
             SuspendContractStep, BeginCancelContractStep, EndCancelContractStep,
             CloseContractStep DEF ContractStep
<1>3. CASE BillingStep
  BY <1>3, CreateAdHocBillingStep, CancelBillingStep, AssessLateChargesStep,
     RenegotiateBillingStep DEF BillingStep
<1>4. CASE PaymentStep
  <2>1. PICK p \in Payments :
           \/ \E chosen \in SUBSET {i \in Rows : Open(billing[i])} \ {{}}, date \in Days :
                 \E amounts \in [chosen -> Amounts] : CreatePayment(p, amounts, date)
           \/ ConfirmPayment(p)
           \/ \E due \in NewDueDates : ReversePayment(p, due)
    BY <1>4 DEF PaymentStep
  <2>2. CASE \E chosen \in SUBSET {i \in Rows : Open(billing[i])} \ {{}}, date \in Days :
                \E amounts \in [chosen -> Amounts] : CreatePayment(p, amounts, date)
    <3>1. PICK chosen \in SUBSET {i \in Rows : Open(billing[i])} \ {{}}, date \in Days :
             \E amounts \in [chosen -> Amounts] : CreatePayment(p, amounts, date)
      BY <2>2
    <3>2. chosen \in SUBSET Rows
      OBVIOUS
    <3> QED BY <3>1, <3>2, CreatePaymentStep
  <2> QED BY <2>1, <2>2, ConfirmPaymentStep, ReversePaymentStep
<1>5. CASE UNCHANGED vars
  <2>1. PlainOK' /\ UNCHANGED <<contract, hold, part, billing, used>>
    BY <1>5 DEF vars, RInv, PlainOK
  <2> QED BY <2>1, Aside
<1> QED BY <1>1, <1>2, <1>3, <1>4, <1>5 DEF Next

\* The inductive invariant of contract, titles and payments.
THEOREM ReceivablesInvariant == Spec => []RInv
BY InitInvariant, NextInvariant, PTL DEF Spec

\* Rows, payments and the open transaction keep their types, whatever days,
\* contracts, charges and payments do.
THEOREM ReceivablesTypes == Spec => []TypeOK
<1>1. RInv => TypeOK
  BY DEF RInv, PlainOK, TableOK, TypeOK, Contracts, Holds
<1> QED BY <1>1, ReceivablesInvariant, PTL

\* Interest never exceeds what the whole principal bears from the due date to
\* the last assessment (calculate_late_charges, confirm_payment).
THEOREM InterestBounded == Spec => []InterestWithinDelay
<1>1. RInv => InterestWithinDelay
  BY DEF RInv, TableOK, RowOK, InterestWithinDelay
<1> QED BY <1>1, ReceivablesInvariant, PTL

\* Beside an active title of an installment every other one was replaced by an
\* amendment (materialize_contract_billings, create_amendment).
THEOREM ChargedOnce == Spec => []InstallmentChargedOnce
<1>1. RInv => InstallmentChargedOnce
  <2> SUFFICES ASSUME RInv, NEW i \in Rows, NEW j \in Rows, i # j, billing[i].number # 0,
                      billing[i].number = billing[j].number, billing[i].source = 0,
                      billing[j].source = 0, billing[i].status = "ACTIVE"
               PROVE  billing[j].superseded
    BY DEF InstallmentChargedOnce
  <2> DEFINE n == billing[i].number
  <2>1. n \in Numbers /\ i \in Originals(n) /\ j \in Originals(n)
    BY RowParts DEF RInv, TableOK, Originals, Numbers
  <2>2. PICK k \in Rows : LastOf(n, k)
    BY <2>1 DEF RInv, ScheduleOK
  <2>3. ~billing[i].superseded
    BY DEF RInv, TableOK, RowOK
  <2> QED BY <2>1, <2>2, <2>3 DEF LastOf
<1> QED BY <1>1, ReceivablesInvariant, PTL

\* Activation and amendments leave no installment of the vigency without a
\* title (activate_contract, create_amendment).
THEOREM NothingLeft == Spec => []NothingLeftToMaterialize
<1>1. RInv => NothingLeftToMaterialize
  BY DEF RInv
<1> QED BY <1>1, ReceivablesInvariant, PTL
=============================================================================
