--------------------------- MODULE PaymentsProofs ---------------------------
(***************************************************************************)
(* Theorems of Receivables about payments, for any number of them, of      *)
(* titles and of days and any amounts and rates: what a title shows as     *)
(* paid is the sum of its allocations and never exceeds a component of it, *)
(* punctual payments bear no charge, what is cancelled under a payment was *)
(* renegotiated, and a reversal restores the debt.                         *)
(*                                                                         *)
(* The first section is about sums over finite sets: subsets of one are    *)
(* well founded, which stands for induction over its elements.             *)
(***************************************************************************)
EXTENDS ReceivablesProofs

-------------------------------------------------------------------------------
(* Sums.                                                                   *)

\* The element a sum takes first, and the recursion it follows.
Element(s) == CHOOSE x \in s : TRUE

Summed(f, g, s) == IF s = {} THEN 0 ELSE f[Element(s)] + g[s \ {Element(s)}]

Sums(g, f, S) == g = [s \in SUBSET S |-> Summed(f, g, s)]

LEMMA SumIs ==
    ASSUME NEW f, NEW S
    PROVE  SumFunctionOnSet(f, S) = (CHOOSE g : Sums(g, f, S))[S]
BY DEF SumFunctionOnSet, FoldFunctionOnSet, MapThenFoldSet, Sums, Summed, Element

LEMMA LeastSubset ==
    ASSUME NEW S, IsFiniteSet(S), NEW X, X \subseteq SUBSET S, X # {}
    PROVE  \E T \in X : \A U \in X : U \subseteq T => U = T
<1>1. IsWellFoundedOn(StrictSubsetOrdering(S), SUBSET S)
  BY FS_StrictSubsetOrderingWellFounded, FS_FiniteSubsetsOfFinite
<1>2. PICK T \in X : \A U \in X : ~ (<<U, T>> \in StrictSubsetOrdering(S))
  BY <1>1, WFMin
<1>3. ASSUME NEW U \in X, U \subseteq T, U # T PROVE FALSE
  BY <1>2, <1>3 DEF StrictSubsetOrdering
<1> QED BY <1>3

LEMMA ElementIn == \A s : s # {} => Element(s) \in s
BY DEF Element

LEMMA SumsAgree ==
    ASSUME NEW f, NEW S, NEW T \in SUBSET S, IsFiniteSet(T),
           NEW g, Sums(g, f, S), NEW h, Sums(h, f, T)
    PROVE  \A U \in SUBSET T : g[U] = h[U]
<1> DEFINE X == {U \in SUBSET T : g[U] # h[U]}
<1> SUFFICES ASSUME X # {} PROVE FALSE
  OBVIOUS
<1>1. PICK U \in X : \A V \in X : V \subseteq U => V = U
  <2>1. X \subseteq SUBSET T
    OBVIOUS
  <2> HIDE DEF X
  <2> QED BY <2>1, LeastSubset
<1>2. g[U] = Summed(f, g, U) /\ h[U] = Summed(f, h, U)
  BY DEF Sums
<1>3. U # {}
  BY <1>2 DEF Summed
<1>4. Element(U) \in U
  BY <1>3, ElementIn
<1>5. g[U \ {Element(U)}] = h[U \ {Element(U)}]
  <2> DEFINE V == U \ {Element(U)}
  <2>1. V \subseteq U /\ V # U /\ V \in SUBSET T
    BY <1>4
  <2> QED BY <1>1, <2>1
<1> QED BY <1>1, <1>2, <1>5 DEF Summed

LEMMA SumsExist ==
    ASSUME NEW f, NEW S, IsFiniteSet(S)
    PROVE  \E g : Sums(g, f, S)
<1> DEFINE X == {T \in SUBSET S : ~\E g : Sums(g, f, T)}
<1> SUFFICES ASSUME X # {} PROVE FALSE
  OBVIOUS
<1>1. PICK T \in X : \A U \in X : U \subseteq T => U = T
  <2>1. X \subseteq SUBSET S
    OBVIOUS
  <2> HIDE DEF X
  <2> QED BY <2>1, LeastSubset
<1>2. \A U \in SUBSET T : IsFiniteSet(U)
  BY FS_Subset
<1> DEFINE of(U) == CHOOSE g : Sums(g, f, U)
<1>3. \A U \in SUBSET T : U # T => Sums(of(U), f, U)
  BY <1>1
<1> DEFINE h == [U \in SUBSET T |-> IF U = {} THEN 0 ELSE f[Element(U)] + of(U \ {Element(U)})[U \ {Element(U)}]]
<1>4. ASSUME NEW U \in SUBSET T, U # {}
      PROVE  h[U \ {Element(U)}] = of(U \ {Element(U)})[U \ {Element(U)}]
  <2> DEFINE V == U \ {Element(U)}
  <2>1. V \in SUBSET T /\ V # T /\ Element(U) \in U
    BY <1>4, ElementIn
  <2>2. Sums(of(V), f, V)
    BY <1>3, <2>1
  <2>3. of(V)[V] = Summed(f, of(V), V)
    BY <2>2 DEF Sums
  <2>4. CASE V = {}
    BY <2>1, <2>3, <2>4 DEF Summed
  <2>5. CASE V # {}
    <3> DEFINE W == V \ {Element(V)}
    <3>1. W \in SUBSET V /\ W # T /\ W \in SUBSET T
      BY <2>1
    <3>2. Sums(of(W), f, W)
      BY <1>3, <3>1
    <3>3. of(V)[W] = of(W)[W]
      BY <1>2, <2>2, <3>1, <3>2, SumsAgree
    <3>4. of(V)[V] = f[Element(V)] + of(V)[W]
      BY <2>3, <2>5 DEF Summed
    <3>5. h[V] = f[Element(V)] + of(W)[W]
      BY <2>1, <2>5
    <3> QED BY <3>3, <3>4, <3>5
  <2> QED BY <2>4, <2>5
<1>5. h = [U \in SUBSET T |-> Summed(f, h, U)]
  <2>1. ASSUME NEW U \in SUBSET T PROVE h[U] = Summed(f, h, U)
    <3>1. CASE U = {}
      BY <3>1 DEF Summed
    <3>2. CASE U # {}
      <4>1. h[U] = f[Element(U)] + of(U \ {Element(U)})[U \ {Element(U)}]
        BY <3>2
      <4>2. Summed(f, h, U) = f[Element(U)] + h[U \ {Element(U)}]
        BY <3>2 DEF Summed
      <4> HIDE DEF h, of
      <4> QED BY <1>4, <3>2, <4>1, <4>2
    <3> QED BY <3>1, <3>2
  <2> QED BY <2>1
<1>6. Sums(h, f, T)
  BY <1>5 DEF Sums
<1> QED BY <1>1, <1>6

LEMMA SumNothing == \A f : SumFunctionOnSet(f, {}) = 0
<1> SUFFICES ASSUME NEW f PROVE SumFunctionOnSet(f, {}) = 0
  OBVIOUS
<1> DEFINE S == {}
<1> HIDE DEF S
<1>1. IsFiniteSet(S)
  BY FS_EmptySet DEF S
<1> DEFINE g == CHOOSE g : Sums(g, f, S)
<1>2. Sums(g, f, S)
  BY <1>1, SumsExist
<1> HIDE DEF g
<1>3. g[S] = 0
  BY <1>2 DEF Sums, Summed, S
<1> QED BY <1>3, SumIs DEF S, g

\* The elements added one by one.
LEMMA SumChosen ==
    ASSUME NEW f, NEW S, IsFiniteSet(S), S # {}
    PROVE  /\ Element(S) \in S
           /\ SumFunctionOnSet(f, S)
              = f[Element(S)] + SumFunctionOnSet(f, S \ {Element(S)})
<1> DEFINE T == S \ {Element(S)}
           g == CHOOSE g : Sums(g, f, S)
           h == CHOOSE h : Sums(h, f, T)
<1>1. IsFiniteSet(T) /\ T \in SUBSET S
  BY FS_Subset
<1>2. Sums(g, f, S) /\ Sums(h, f, T)
  BY <1>1, SumsExist
<1>3. SumFunctionOnSet(f, S) = g[S] /\ SumFunctionOnSet(f, T) = h[T]
  BY SumIs
<1> HIDE DEF g, h
<1>4. g[T] = h[T]
  BY <1>1, <1>2, SumsAgree
<1>5. g[S] = Summed(f, g, S)
  BY <1>2 DEF Sums
<1>6. g[S] = f[Element(S)] + g[T]
  BY <1>5 DEF Summed
<1> QED BY <1>3, <1>4, <1>6, ElementIn

LEMMA SumType ==
    ASSUME NEW f, NEW S, IsFiniteSet(S), \A x \in S : f[x] \in Nat
    PROVE  SumFunctionOnSet(f, S) \in Nat
<1> DEFINE X == {T \in SUBSET S : SumFunctionOnSet(f, T) \notin Nat}
<1> SUFFICES ASSUME X # {} PROVE FALSE
  OBVIOUS
<1>1. PICK T \in X : \A U \in X : U \subseteq T => U = T
  <2>1. X \subseteq SUBSET S
    OBVIOUS
  <2> HIDE DEF X
  <2> QED BY <2>1, LeastSubset
<1>2. T # {}
  BY SumNothing
<1>3. IsFiniteSet(T)
  BY FS_Subset
<1>4. /\ Element(T) \in T
      /\ SumFunctionOnSet(f, T) = f[Element(T)] + SumFunctionOnSet(f, T \ {Element(T)})
  BY <1>2, <1>3, SumChosen
<1>5. SumFunctionOnSet(f, T \ {Element(T)}) \in Nat
  BY <1>1, <1>4
<1> QED BY <1>4, <1>5

\* Whatever element is taken out.
LEMMA SumWithout ==
    ASSUME NEW f, NEW S, IsFiniteSet(S), \A x \in S : f[x] \in Nat, NEW e \in S
    PROVE  SumFunctionOnSet(f, S) = f[e] + SumFunctionOnSet(f, S \ {e})
<1> DEFINE X == {T \in SUBSET S :
                   \E x \in T : SumFunctionOnSet(f, T) # f[x] + SumFunctionOnSet(f, T \ {x})}
<1> SUFFICES ASSUME X # {} PROVE FALSE
  OBVIOUS
<1>1. PICK T \in X : \A U \in X : U \subseteq T => U = T
  <2>1. X \subseteq SUBSET S
    OBVIOUS
  <2> HIDE DEF X
  <2> QED BY <2>1, LeastSubset
<1>2. PICK x \in T : SumFunctionOnSet(f, T) # f[x] + SumFunctionOnSet(f, T \ {x})
  OBVIOUS
<1> DEFINE c == Element(T)
<1>3. \A U \in SUBSET T : IsFiniteSet(U) /\ SumFunctionOnSet(f, U) \in Nat
  <2> SUFFICES ASSUME NEW U \in SUBSET T
               PROVE  IsFiniteSet(U) /\ SumFunctionOnSet(f, U) \in Nat
    OBVIOUS
  <2>1. IsFiniteSet(U)
    BY FS_Subset
  <2> QED BY <2>1, SumType
<1>4. c \in T /\ SumFunctionOnSet(f, T) = f[c] + SumFunctionOnSet(f, T \ {c})
  BY <1>3, SumChosen
<1> HIDE DEF c
<1>5. x # c
  BY <1>2, <1>4
<1>6. SumFunctionOnSet(f, T \ {c}) = f[x] + SumFunctionOnSet(f, (T \ {c}) \ {x})
  BY <1>1, <1>4, <1>5
<1>7. SumFunctionOnSet(f, T \ {x}) = f[c] + SumFunctionOnSet(f, (T \ {x}) \ {c})
  BY <1>1, <1>4, <1>5
<1>8. (T \ {c}) \ {x} = (T \ {x}) \ {c}
  OBVIOUS
<1>9. f[x] \in Nat /\ f[c] \in Nat /\ SumFunctionOnSet(f, (T \ {x}) \ {c}) \in Nat
  BY <1>3, <1>4
<1> HIDE DEF X
<1>10. SumFunctionOnSet(f, T) = f[x] + SumFunctionOnSet(f, T \ {x})
  BY <1>4, <1>6, <1>7, <1>8, <1>9
<1> QED BY <1>2, <1>10

LEMMA SumWith ==
    ASSUME NEW f, NEW S, IsFiniteSet(S), \A x \in S : f[x] \in Nat, NEW e, e \notin S, f[e] \in Nat
    PROVE  SumFunctionOnSet(f, S \cup {e}) = SumFunctionOnSet(f, S) + f[e]
<1> DEFINE T == S \cup {e}
<1>1. IsFiniteSet(T) /\ (\A x \in T : f[x] \in Nat) /\ e \in T /\ T \ {e} = S
  BY FS_AddElement
<1> HIDE DEF T
<1>2. SumFunctionOnSet(f, T) = f[e] + SumFunctionOnSet(f, S)
  BY <1>1, SumWithout
<1>3. SumFunctionOnSet(f, S) \in Nat
  BY SumType
<1> QED BY <1>2, <1>3 DEF T

LEMMA SumSame ==
    ASSUME NEW f, NEW g, NEW S, IsFiniteSet(S), \A x \in S : f[x] = g[x]
    PROVE  SumFunctionOnSet(f, S) = SumFunctionOnSet(g, S)
<1> DEFINE X == {T \in SUBSET S : SumFunctionOnSet(f, T) # SumFunctionOnSet(g, T)}
<1> SUFFICES ASSUME X # {} PROVE FALSE
  OBVIOUS
<1>1. PICK T \in X : \A U \in X : U \subseteq T => U = T
  <2>1. X \subseteq SUBSET S
    OBVIOUS
  <2> HIDE DEF X
  <2> QED BY <2>1, LeastSubset
<1>2. T # {}
  BY SumNothing
<1>3. IsFiniteSet(T)
  BY FS_Subset
<1>4. /\ Element(T) \in T
      /\ SumFunctionOnSet(f, T) = f[Element(T)] + SumFunctionOnSet(f, T \ {Element(T)})
      /\ SumFunctionOnSet(g, T) = g[Element(T)] + SumFunctionOnSet(g, T \ {Element(T)})
  BY <1>2, <1>3, SumChosen
<1>5. SumFunctionOnSet(f, T \ {Element(T)}) = SumFunctionOnSet(g, T \ {Element(T)})
  BY <1>1, <1>4
<1> QED BY <1>4, <1>5

\* Term by term.
LEMMA SumPlus ==
    ASSUME NEW f, NEW g, NEW h, NEW S, IsFiniteSet(S),
           \A x \in S : f[x] \in Nat /\ g[x] \in Nat /\ h[x] = f[x] + g[x]
    PROVE  SumFunctionOnSet(h, S) = SumFunctionOnSet(f, S) + SumFunctionOnSet(g, S)
<1> DEFINE X == {T \in SUBSET S :
                   SumFunctionOnSet(h, T) # SumFunctionOnSet(f, T) + SumFunctionOnSet(g, T)}
<1> SUFFICES ASSUME X # {} PROVE FALSE
  OBVIOUS
<1>1. PICK T \in X : \A U \in X : U \subseteq T => U = T
  <2>1. X \subseteq SUBSET S
    OBVIOUS
  <2> HIDE DEF X
  <2> QED BY <2>1, LeastSubset
<1>2. T # {}
  <2> SUFFICES ASSUME T = {} PROVE FALSE
    OBVIOUS
  <2>1. /\ SumFunctionOnSet(f, T) = 0 /\ SumFunctionOnSet(g, T) = 0
        /\ SumFunctionOnSet(h, T) = 0
    BY SumNothing
  <2> QED BY <2>1
<1>3. IsFiniteSet(T)
  BY FS_Subset
<1> DEFINE e == Element(T)
           U == T \ {e}
<1>4. /\ e \in T
      /\ SumFunctionOnSet(f, T) = f[e] + SumFunctionOnSet(f, U)
      /\ SumFunctionOnSet(g, T) = g[e] + SumFunctionOnSet(g, U)
      /\ SumFunctionOnSet(h, T) = h[e] + SumFunctionOnSet(h, U)
  BY <1>2, <1>3, SumChosen
<1>5. SumFunctionOnSet(h, U) = SumFunctionOnSet(f, U) + SumFunctionOnSet(g, U)
  BY <1>1, <1>4
<1>6. IsFiniteSet(U) /\ U \in SUBSET S
  BY FS_Subset
<1>7. SumFunctionOnSet(f, U) \in Nat /\ SumFunctionOnSet(g, U) \in Nat
  BY <1>6, SumType
<1>8. SumFunctionOnSet(h, T) = SumFunctionOnSet(f, T) + SumFunctionOnSet(g, T)
  BY <1>4, <1>5, <1>7
<1> QED BY <1>8

\* The same terms under other names.
LEMMA SumRenamed ==
    ASSUME NEW f, NEW g, NEW S, NEW at, IsFiniteSet(S),
           \A x, y \in S : at[x] = at[y] => x = y,
           \A x \in S : f[x] \in Nat /\ g[at[x]] = f[x]
    PROVE  SumFunctionOnSet(g, {at[x] : x \in S}) = SumFunctionOnSet(f, S)
<1> DEFINE Image(T) == {at[x] : x \in T}
           X == {T \in SUBSET S : SumFunctionOnSet(g, Image(T)) # SumFunctionOnSet(f, T)}
<1> SUFFICES ASSUME X # {} PROVE FALSE
  OBVIOUS
<1>1. PICK T \in X : \A U \in X : U \subseteq T => U = T
  <2>1. X \subseteq SUBSET S
    OBVIOUS
  <2> HIDE DEF X
  <2> QED BY <2>1, LeastSubset
<1>2. T # {}
  BY SumNothing
<1>3. IsFiniteSet(T)
  BY FS_Subset
<1> DEFINE e == Element(T)
           U == T \ {e}
<1>4. e \in T /\ SumFunctionOnSet(f, T) = f[e] + SumFunctionOnSet(f, U)
  BY <1>2, <1>3, SumChosen
<1>5. SumFunctionOnSet(g, Image(U)) = SumFunctionOnSet(f, U)
  BY <1>1, <1>4
<1>6. /\ Image(T) \ {at[e]} = Image(U) /\ at[e] \in Image(T)
      /\ \A y \in Image(T) : g[y] \in Nat
  BY <1>4
<1>7. IsFiniteSet(Image(T))
  <2>1. ExistsSurjection(T, Image(T))
    <3> DEFINE s == [x \in T |-> at[x]]
    <3>1. s \in Surjection(T, Image(T))
      BY DEF Surjection
    <3> QED BY <3>1 DEF ExistsSurjection
  <2> QED BY <1>3, <2>1, FS_Surjection DEF ExistsSurjection
<1>8. SumFunctionOnSet(g, Image(T)) = g[at[e]] + SumFunctionOnSet(g, Image(U))
  <2> HIDE DEF Image
  <2> QED BY <1>6, <1>7, SumWithout
<1> QED BY <1>1, <1>4, <1>5, <1>8

\* Zeroes add nothing.
LEMMA SumSupport ==
    ASSUME NEW f, NEW S, IsFiniteSet(S), NEW T \in SUBSET S,
           \A x \in S : f[x] \in Nat, \A x \in S \ T : f[x] = 0
    PROVE  SumFunctionOnSet(f, S) = SumFunctionOnSet(f, T)
<1> DEFINE X == {U \in SUBSET S : T \subseteq U
                                  /\ SumFunctionOnSet(f, U) # SumFunctionOnSet(f, T)}
<1> SUFFICES ASSUME X # {} PROVE FALSE
  OBVIOUS
<1>1. PICK U \in X : \A V \in X : V \subseteq U => V = U
  <2>1. X \subseteq SUBSET S
    OBVIOUS
  <2> HIDE DEF X
  <2> QED BY <2>1, LeastSubset
<1>2. PICK e \in U : e \notin T
  OBVIOUS
<1>3. U \ {e} \in SUBSET S /\ T \subseteq U \ {e} /\ IsFiniteSet(U) /\ IsFiniteSet(U \ {e})
  BY <1>2, FS_Subset
<1>4. SumFunctionOnSet(f, U \ {e}) = SumFunctionOnSet(f, T)
  BY <1>1, <1>2, <1>3
<1>5. SumFunctionOnSet(f, U) = f[e] + SumFunctionOnSet(f, U \ {e})
  BY <1>3, SumWithout
<1>6. SumFunctionOnSet(f, U \ {e}) \in Nat
  BY <1>3, SumType
<1>7. f[e] = 0
  BY <1>2
<1> QED BY <1>1, <1>4, <1>5, <1>6, <1>7

\* One more term, and one less, while the others stay.
LEMMA SumGained ==
    ASSUME NEW f, NEW g, NEW S, IsFiniteSet(S), NEW e, e \notin S, g[e] \in Nat,
           \A x \in S : f[x] \in Nat /\ g[x] = f[x]
    PROVE  SumFunctionOnSet(g, S \cup {e}) = SumFunctionOnSet(f, S) + g[e]
<1>1. SumFunctionOnSet(g, S \cup {e}) = SumFunctionOnSet(g, S) + g[e]
  BY SumWith
<1>2. SumFunctionOnSet(g, S) = SumFunctionOnSet(f, S)
  BY SumSame
<1> QED BY <1>1, <1>2

LEMMA SumLost ==
    ASSUME NEW f, NEW S, IsFiniteSet(S), \A x \in S : f[x] \in Nat, NEW e \in S
    PROVE  /\ f[e] <= SumFunctionOnSet(f, S)
           /\ SumFunctionOnSet(f, S \ {e}) = SumFunctionOnSet(f, S) - f[e]
<1>1. IsFiniteSet(S \ {e})
  BY FS_Subset
<1>2. SumFunctionOnSet(f, S \ {e}) \in Nat
  BY <1>1, SumType
<1>3. SumFunctionOnSet(f, S) = f[e] + SumFunctionOnSet(f, S \ {e})
  BY SumWithout
<1> QED BY <1>2, <1>3

-------------------------------------------------------------------------------
(* What a title is owed and has been paid, row by row.                     *)

\* No component is paid beyond what is owed of it, and charges that were not
\* recomposed come from an assessment after the due date.
DuesOK(b) ==
    /\ b.paidFee <= b.fee /\ b.paidInterest <= b.interest /\ b.paidPrincipal <= b.principal
    /\ b.paid = b.paidFee + b.paidInterest + b.paidPrincipal
    /\ ~b.recomposed => /\ b.until = 0 => b.fee = 0 /\ b.interest = 0
                        /\ b.until # 0 => b.due < b.until

\* c shows the same payments as b.
PaysAs(b, c) ==
    /\ c.paid = b.paid /\ c.paidFee = b.paidFee /\ c.paidInterest = b.paidInterest
    /\ c.paidPrincipal = b.paidPrincipal

LEMMA NoRowDues == DuesOK(NoRow) /\ PaidNothing(NoRow)
BY DEF DuesOK, NoRow, PaidNothing

LEMMA FreshDues ==
    ASSUME NEW b, Fresh(b)
    PROVE  DuesOK(b) /\ PaidNothing(b)
<1>1. b \in BillingRows
  BY DEF Fresh, RowOK
<1> QED BY <1>1, RowParts DEF Fresh, PaidNothing, DuesOK

LEMMA WaivedDues ==
    ASSUME NEW b \in BillingRows, DuesOK(b)
    PROVE  /\ DuesOK([b EXCEPT !.status = "CANCELLED"])
           /\ PaysAs(b, [b EXCEPT !.status = "CANCELLED"])
           /\ DuesOK([b EXCEPT !.status = "CANCELLED", !.superseded = TRUE])
           /\ PaysAs(b, [b EXCEPT !.status = "CANCELLED", !.superseded = TRUE])
BY DEF BillingRows, DuesOK, PaysAs

\* An open title without charges has principal left to pay.
LEMMA PrincipalLeft ==
    ASSUME NEW b \in BillingRows, DuesOK(b), b.fee = 0, b.interest = 0, Open(b)
    PROVE  Pos(b.principal - b.paidPrincipal) > 0
<1>1. b.paidFee = 0 /\ b.paidInterest = 0 /\ b.paid = b.paidPrincipal
  BY RowParts DEF DuesOK
<1>2. Owed(b) - b.paid = b.principal - b.paidPrincipal
  BY <1>1, RowParts DEF Owed
<1> QED BY <1>2 DEF Open, Outstanding

LEMMA AssessedDues ==
    ASSUME NEW b \in BillingRows, DuesOK(b), NEW date \in Nat
    PROVE  DuesOK(Assessed(b, date)) /\ PaysAs(b, Assessed(b, date))
<1>1. CASE ~Open(b) \/ date <= b.due \/ ~b.rated
  BY <1>1 DEF Assessed, PaysAs
<1>2. CASE Open(b) /\ ~(date <= b.due) /\ b.rated
  <2> DEFINE from == IF b.until = 0 THEN b.due ELSE b.until
             unpaid == Pos(b.principal - b.paidPrincipal)
             accrues == date > from /\ unpaid > 0
             fee == IF b.fee = 0 THEN b.principal * LateFeeRate ELSE b.fee
             interest == IF accrues THEN b.interest + unpaid * InterestRate * (date - from)
                         ELSE b.interest
             until == IF accrues THEN date ELSE b.until
             c == [b EXCEPT !.fee = fee, !.interest = interest, !.until = until]
  <2>1. Assessed(b, date) = c
    BY <1>2 DEF Assessed
  <2>2. from \in Nat /\ unpaid \in Nat /\ b.due \in Nat /\ b.until \in Nat /\ b.due < date
    <3>1. b.due \in Nat /\ b.until \in Nat /\ b.principal - b.paidPrincipal \in Int
      BY RowParts
    <3> QED BY <1>2, <3>1, PosType
  <2>3. fee \in Nat /\ b.fee <= fee
    <3>1. b.fee \in Nat /\ b.principal * LateFeeRate \in Nat
      BY RowParts, Products, ReceivablesAssumption
    <3> QED BY <3>1
  <2>4. interest \in Nat /\ b.interest <= interest
    <3>1. b.interest \in Nat
      BY RowParts
    <3>2. CASE accrues
      <4>1. date - from \in Nat
        BY <2>2, <3>2
      <4> DEFINE added == unpaid * InterestRate * (date - from)
      <4>2. added \in Nat
        <5>1. unpaid * InterestRate \in Nat
          BY <2>2, Products, ReceivablesAssumption
        <5> QED BY <4>1, <5>1, Products
      <4>3. interest = b.interest + added
        BY <3>2
      <4> HIDE DEF added, interest
      <4> QED BY <3>1, <4>2, <4>3
    <3> QED BY <3>1, <3>2
  <2>5. ~b.recomposed => until # 0 /\ b.due < until
    <3> SUFFICES ASSUME ~b.recomposed PROVE until # 0 /\ b.due < until
      OBVIOUS
    <3>1. CASE accrues
      BY <2>2, <3>1
    <3>2. CASE ~accrues /\ b.until # 0
      BY <3>2 DEF DuesOK
    <3>3. CASE ~accrues /\ b.until = 0
      <4>1. unpaid > 0
        BY <1>2, <3>3, PrincipalLeft DEF DuesOK
      <4> QED BY <2>2, <3>3, <4>1
    <3> QED BY <3>1, <3>2, <3>3
  <2> HIDE DEF from, unpaid, accrues, fee, interest, until
  <2>6. /\ c.fee = fee /\ c.interest = interest /\ c.until = until
        /\ c.principal = b.principal /\ c.due = b.due /\ c.recomposed = b.recomposed
        /\ c.paid = b.paid /\ c.paidFee = b.paidFee /\ c.paidInterest = b.paidInterest
        /\ c.paidPrincipal = b.paidPrincipal
    BY DEF BillingRows
  <2> HIDE DEF c
  <2>7. b.fee \in Nat /\ b.interest \in Nat /\ b.paidFee \in Nat /\ b.paidInterest \in Nat
    BY RowParts
  <2>8. DuesOK(c)
    BY <2>3, <2>4, <2>5, <2>6, <2>7 DEF DuesOK
  <2> QED BY <2>1, <2>6, <2>8 DEF PaysAs
<1> QED BY <1>1, <1>2

LEMMA ReconciledDues ==
    ASSUME NEW b \in BillingRows, DuesOK(b), NEW date, TooEarly(b, date) => b.paid = 0
    PROVE  DuesOK(Reconciled(b, date)) /\ PaysAs(b, Reconciled(b, date))
<1>1. CASE TooEarly(b, date)
  <2> DEFINE c == [b EXCEPT !.fee = 0, !.interest = 0, !.until = 0]
  <2>1. Reconciled(b, date) = c
    BY <1>1 DEF Reconciled
  <2>2. /\ c.fee = 0 /\ c.interest = 0 /\ c.until = 0
        /\ c.principal = b.principal /\ c.due = b.due /\ c.recomposed = b.recomposed
        /\ c.paid = b.paid /\ c.paidFee = b.paidFee /\ c.paidInterest = b.paidInterest
        /\ c.paidPrincipal = b.paidPrincipal
    BY DEF BillingRows
  <2>3. b.paidFee = 0 /\ b.paidInterest = 0
    BY <1>1, RowParts DEF DuesOK
  <2> HIDE DEF c
  <2>4. DuesOK(c)
    BY <2>2, <2>3 DEF DuesOK
  <2> QED BY <2>1, <2>2, <2>4 DEF PaysAs
<1>2. CASE ~TooEarly(b, date)
  BY <1>2 DEF Reconciled, PaysAs
<1> QED BY <1>1, <1>2

LEMMA ChargedDues ==
    ASSUME NEW i \in Rows, RowOK(billing[i]), DuesOK(billing[i]), NEW date \in Nat,
           TooEarly(billing[i], date) => billing[i].paid = 0
    PROVE  DuesOK(Charged(i, date)) /\ PaysAs(billing[i], Charged(i, date))
<1> DEFINE b == billing[i]
           r == Reconciled(b, date)
<1>1. b \in BillingRows /\ r \in BillingRows
  BY ReconciledRow DEF RowOK
<1>2. DuesOK(r) /\ PaysAs(b, r)
  BY <1>1, ReconciledDues
<1> HIDE DEF r
<1>3. DuesOK(Assessed(r, date)) /\ PaysAs(r, Assessed(r, date))
  BY <1>1, <1>2, AssessedDues
<1> QED BY <1>2, <1>3 DEF Charged, PaysAs, r

\* A title conciliated with a punctual payment has no charges to pay.
LEMMA PunctualCharge ==
    ASSUME NEW i \in Rows, RowOK(billing[i]), DuesOK(billing[i]), NEW date \in Nat,
           date <= billing[i].due, ~billing[i].recomposed
    PROVE  Charged(i, date).fee = 0 /\ Charged(i, date).interest = 0
<1> DEFINE b == billing[i]
           r == Reconciled(b, date)
<1>1. b \in BillingRows
  BY DEF RowOK
<1>2. r.due = b.due
  BY ReconciledRow DEF Kin
<1>3. r.fee = 0 /\ r.interest = 0
  <2>1. CASE b.until = 0
    BY <1>1, <2>1 DEF Reconciled, TooEarly, DuesOK
  <2>2. CASE b.until # 0
    <3>1. TooEarly(b, date)
      BY <1>1, <2>2, RowParts DEF TooEarly, DuesOK
    <3> QED BY <1>1, <3>1 DEF Reconciled, BillingRows
  <2> QED BY <2>1, <2>2
<1> HIDE DEF r
<1>4. Assessed(r, date) = r
  BY <1>2 DEF Assessed
<1> QED BY <1>3, <1>4 DEF Charged, r

-------------------------------------------------------------------------------
(* An allocation and its components.                                       *)

\* c takes no more of each component than is left of it.
Fits(b, c) ==
    /\ c.fee <= b.fee - b.paidFee /\ c.interest <= b.interest - b.paidInterest
    /\ c.principal <= b.principal - b.paidPrincipal

LEMMA ComponentsFit ==
    ASSUME NEW b \in BillingRows, DuesOK(b), NEW amount \in Nat
    PROVE  LET c == Components(b, amount)
           IN  c \in PartRows /\ Fits(b, c) /\ c.amount = amount
<1> DEFINE f == b.fee - b.paidFee
           n == b.interest - b.paidInterest
           r == b.principal - b.paidPrincipal
<1>1. /\ f \in Nat /\ n \in Nat /\ r \in Nat
      /\ Pos(f) = f /\ Pos(n) = n /\ Pos(r) = r
  <2>1. /\ b.fee \in Nat /\ b.interest \in Nat /\ b.principal \in Nat
        /\ b.paidFee \in Nat /\ b.paidInterest \in Nat /\ b.paidPrincipal \in Nat
    BY RowParts
  <2>2. f \in Nat /\ n \in Nat /\ r \in Nat
    BY <2>1 DEF DuesOK
  <2> QED BY <2>2 DEF Pos
<1>2. \A x, y \in Nat : Least(x, y) \in Nat /\ Least(x, y) <= x /\ Least(x, y) <= y
                        /\ x - Least(x, y) \in Nat
  BY DEF Least
<1>3. Components(b, amount)
        = [amount |-> amount, fee |-> Least(amount, f),
           interest |-> Least(amount - Least(amount, f), n),
           principal |-> Least(amount - Least(amount, f) - Least(amount - Least(amount, f), n), r)]
  BY <1>1 DEF Components
<1> DEFINE fee == Least(amount, f)
           interest == Least(amount - fee, n)
           principal == Least(amount - fee - interest, r)
<1>4. fee <= f /\ amount - fee \in Nat
  BY <1>1, <1>2
<1>5. interest <= n /\ amount - fee - interest \in Nat
  <2> HIDE DEF fee, n
  <2> QED BY <1>1, <1>2, <1>4
<1>6. principal <= r
  <2> HIDE DEF fee, interest, r
  <2> QED BY <1>1, <1>2, <1>5
<1>7. Components(b, amount) \in PartRows
  BY ComponentsType
<1>8. Components(b, amount) = [amount |-> amount, fee |-> fee, interest |-> interest,
                               principal |-> principal]
  BY <1>3
<1> HIDE DEF fee, interest, principal
<1> QED BY <1>4, <1>5, <1>6, <1>7, <1>8 DEF Fits

Whole(c) == c.amount = c.fee + c.interest + c.principal

LEMMA CreditedDues ==
    ASSUME NEW b \in BillingRows, DuesOK(b), NEW c \in PartRows, Fits(b, c), Whole(c)
    PROVE  LET d == Credited(b, c)
           IN  /\ DuesOK(d)
               /\ d.paid = b.paid + c.amount /\ d.paidFee = b.paidFee + c.fee
               /\ d.paidInterest = b.paidInterest + c.interest
               /\ d.paidPrincipal = b.paidPrincipal + c.principal
<1>1. /\ b.paid \in Nat /\ b.paidFee \in Nat /\ b.paidInterest \in Nat /\ b.paidPrincipal \in Nat
      /\ b.fee \in Nat /\ b.interest \in Nat /\ b.principal \in Nat
      /\ c.amount \in Nat /\ c.fee \in Nat /\ c.interest \in Nat /\ c.principal \in Nat
  BY RowParts DEF PartRows
<1> DEFINE n == b.paid + c.amount
           f == b.paidFee + c.fee
           i == b.paidInterest + c.interest
           p == b.paidPrincipal + c.principal
<1>2. f <= b.fee /\ i <= b.interest /\ p <= b.principal /\ n = f + i + p
  BY <1>1 DEF DuesOK, Fits, Whole
<1>3. Credited(b, c) = [b EXCEPT !.paid = n, !.paidFee = f, !.paidInterest = i, !.paidPrincipal = p]
  BY DEF Credited
<1> HIDE DEF n, f, i, p
<1> DEFINE d == Credited(b, c)
<1>4. /\ d.paid = n /\ d.paidFee = f /\ d.paidInterest = i /\ d.paidPrincipal = p
      /\ d.fee = b.fee /\ d.interest = b.interest /\ d.principal = b.principal
      /\ d.due = b.due /\ d.until = b.until /\ d.recomposed = b.recomposed
  BY <1>3 DEF BillingRows
<1> HIDE DEF d
<1>5. DuesOK(d)
  BY <1>2, <1>4 DEF DuesOK
<1> QED BY <1>4, <1>5 DEF d, n, f, i, p

\* What was credited is debited again.
LEMMA DebitedDues ==
    ASSUME NEW b \in BillingRows, DuesOK(b), NEW c \in PartRows, Whole(c),
           c.amount <= b.paid, c.fee <= b.paidFee, c.interest <= b.paidInterest,
           c.principal <= b.paidPrincipal
    PROVE  LET d == Debited(b, c)
           IN  /\ DuesOK(d)
               /\ d.paid = b.paid - c.amount /\ d.paidFee = b.paidFee - c.fee
               /\ d.paidInterest = b.paidInterest - c.interest
               /\ d.paidPrincipal = b.paidPrincipal - c.principal
               /\ Owed(d) = Owed(b)
<1>1. /\ b.paid \in Nat /\ b.paidFee \in Nat /\ b.paidInterest \in Nat /\ b.paidPrincipal \in Nat
      /\ b.fee \in Nat /\ b.interest \in Nat /\ b.principal \in Nat
      /\ c.amount \in Nat /\ c.fee \in Nat /\ c.interest \in Nat /\ c.principal \in Nat
  BY RowParts DEF PartRows
<1> DEFINE n == b.paid - c.amount
           f == b.paidFee - c.fee
           i == b.paidInterest - c.interest
           p == b.paidPrincipal - c.principal
<1>2. /\ f <= b.fee /\ i <= b.interest /\ p <= b.principal /\ n = f + i + p
      /\ Pos(n) = n /\ Pos(f) = f /\ Pos(i) = i /\ Pos(p) = p
  BY <1>1 DEF DuesOK, Whole, Pos
<1>3. Debited(b, c) = [b EXCEPT !.paid = n, !.paidFee = f, !.paidInterest = i, !.paidPrincipal = p]
  BY <1>2 DEF Debited
<1> HIDE DEF n, f, i, p
<1> DEFINE d == Debited(b, c)
<1>4. /\ d.paid = n /\ d.paidFee = f /\ d.paidInterest = i /\ d.paidPrincipal = p
      /\ d.fee = b.fee /\ d.interest = b.interest /\ d.principal = b.principal
      /\ d.due = b.due /\ d.until = b.until /\ d.recomposed = b.recomposed
  BY <1>3 DEF BillingRows
<1> HIDE DEF d
<1>5. DuesOK(d)
  BY <1>2, <1>4 DEF DuesOK
<1>6. Owed(d) = Owed(b)
  BY <1>4 DEF Owed
<1> QED BY <1>4, <1>5, <1>6 DEF d, n, f, i, p

-------------------------------------------------------------------------------
(* The invariant.                                                          *)

\* An empty allocation is empty in every component; a conciliated one is
\* exactly its components.
PartOK(p, i) ==
    /\ part[p][i].amount = 0 => part[p][i] = NoPart
    /\ payment[p].status = "CONFIRMED" => Whole(part[p][i])

\* No title the open cancellation may still cancel has been paid.
HeldUnpaid ==
    hold.op = "cancel" /\ ~hold.stale => \A i \in hold.rows : billing[i].paid = 0

AccountsOK ==
    /\ \A i \in Rows : DuesOK(billing[i])
    /\ \A p \in Payments, i \in Rows : PartOK(p, i)
    /\ PaidIsAllocated /\ PunctualPaysNoCharge /\ CancelledPaidWasRenegotiated /\ HeldUnpaid

PInv == RInv /\ AccountsOK

\* What the payments put in each column of a title.
AmountsOn(i) == [p \in Payments |-> part[p][i].amount]
FeesOn(i) == [p \in Payments |-> part[p][i].fee]
InterestsOn(i) == [p \in Payments |-> part[p][i].interest]
PrincipalsOn(i) == [p \in Payments |-> part[p][i].principal]

Tallied(i) ==
    /\ billing[i].paid = SumFunctionOnSet(AmountsOn(i), ConfirmedOn(i))
    /\ billing[i].paidFee = SumFunctionOnSet(FeesOn(i), ConfirmedOn(i))
    /\ billing[i].paidInterest = SumFunctionOnSet(InterestsOn(i), ConfirmedOn(i))
    /\ billing[i].paidPrincipal = SumFunctionOnSet(PrincipalsOn(i), ConfirmedOn(i))

LEMMA Tally ==
    /\ PaidIsAllocated <=> \A i \in Rows : Tallied(i)
    /\ (\A i \in Rows : Tallied(i)') => PaidIsAllocated'
BY DEF PaidIsAllocated, Tallied, AmountsOn, FeesOn, InterestsOn, PrincipalsOn

LEMMA AllocatedTitles ==
    ASSUME RInv, NEW p \in Payments, NEW i \in Rows
    PROVE  /\ part[p][i] \in PartRows
           /\ i \in Allocated(p) <=> part[p][i].amount # 0
           /\ i \in Allocated(p) => i <= used /\ billing[i].status # "NONE"
<1>1. part[p][i] \in PartRows
  BY DEF RInv, PlainOK, PartRows
<1>2. i \in Allocated(p) <=> part[p][i].amount # 0
  BY <1>1 DEF Allocated, PartRows
<1>3. i \in Allocated(p) => billing[i].status # "NONE"
  BY DEF RInv, TitlesOK, Allocated
<1>4. used \in Nat /\ i \in Nat
  BY RowIndex DEF RInv, TableOK
<1> QED BY <1>1, <1>2, <1>3, <1>4 DEF RInv, TableOK

\* The allocations of a title that count are finitely many, of its columns.
LEMMA ColumnsOf ==
    ASSUME RInv, NEW i \in Rows
    PROVE  /\ IsFiniteSet(ConfirmedOn(i)) /\ ConfirmedOn(i) \subseteq Payments
           /\ \A p \in Payments :
                 /\ AmountsOn(i)[p] = part[p][i].amount /\ AmountsOn(i)[p] \in Nat
                 /\ FeesOn(i)[p] = part[p][i].fee /\ FeesOn(i)[p] \in Nat
                 /\ InterestsOn(i)[p] = part[p][i].interest /\ InterestsOn(i)[p] \in Nat
                 /\ PrincipalsOn(i)[p] = part[p][i].principal /\ PrincipalsOn(i)[p] \in Nat
<1>1. ConfirmedOn(i) \subseteq Payments
  BY DEF ConfirmedOn
<1>2. IsFiniteSet(ConfirmedOn(i))
  BY <1>1, FS_Subset, ReceivablesAssumption
<1>3. \A p \in Payments : part[p][i] \in PartRows
  BY AllocatedTitles
<1> QED BY <1>1, <1>2, <1>3 DEF AmountsOn, FeesOn, InterestsOn, PrincipalsOn, PartRows

\* A title is paid at least what each of its allocations put there.
LEMMA PaidCovers ==
    ASSUME PInv, NEW i \in Rows, NEW p \in ConfirmedOn(i)
    PROVE  /\ part[p][i].amount <= billing[i].paid /\ part[p][i].fee <= billing[i].paidFee
           /\ part[p][i].interest <= billing[i].paidInterest
           /\ part[p][i].principal <= billing[i].paidPrincipal
<1>1. RInv /\ Tallied(i)
  BY Tally DEF PInv, AccountsOK
<1> DEFINE on == ConfirmedOn(i)
<1>2. /\ IsFiniteSet(on) /\ p \in on /\ p \in Payments
      /\ \A q \in on : /\ AmountsOn(i)[q] \in Nat /\ FeesOn(i)[q] \in Nat
                       /\ InterestsOn(i)[q] \in Nat /\ PrincipalsOn(i)[q] \in Nat
  BY <1>1, ColumnsOf
<1> HIDE DEF on
<1>3. /\ AmountsOn(i)[p] <= SumFunctionOnSet(AmountsOn(i), on)
      /\ FeesOn(i)[p] <= SumFunctionOnSet(FeesOn(i), on)
      /\ InterestsOn(i)[p] <= SumFunctionOnSet(InterestsOn(i), on)
      /\ PrincipalsOn(i)[p] <= SumFunctionOnSet(PrincipalsOn(i), on)
  BY <1>2, SumLost
<1>4. /\ AmountsOn(i)[p] = part[p][i].amount /\ FeesOn(i)[p] = part[p][i].fee
      /\ InterestsOn(i)[p] = part[p][i].interest /\ PrincipalsOn(i)[p] = part[p][i].principal
  BY <1>1, <1>2, ColumnsOf
<1> QED BY <1>1, <1>3, <1>4 DEF on, Tallied

\* Nothing is paid on a row that is not a title yet.
LEMMA NotYetPaid ==
    ASSUME PInv, NEW i \in Rows, ~(i <= used)
    PROVE  billing[i] = NoRow /\ \A p \in Payments : part[p][i] = NoPart
<1>1. used \in Nat /\ i \in Nat /\ RInv
  BY RowIndex DEF PInv, RInv, TableOK
<1>2. billing[i] = NoRow
  BY <1>1 DEF RInv, TableOK
<1>3. \A p \in Payments : part[p][i].amount = 0
  BY <1>1, AllocatedTitles
<1> QED BY <1>2, <1>3 DEF PInv, AccountsOK, PartOK

LEMMA PInvInit == Init => PInv
<1> SUFFICES ASSUME Init PROVE PInv
  OBVIOUS
<1>1. \A i \in Rows : billing[i] = NoRow /\ ConfirmedOn(i) = {}
  BY DEF Init, ConfirmedOn
<1>2. \A p \in Payments, i \in Rows : part[p][i] = NoPart /\ payment[p].status = "NONE"
  BY DEF Init
<1>3. \A i \in Rows : Tallied(i)
  BY <1>1, SumNothing, NoRowDues DEF Tallied, PaidNothing
<1>4. \A i \in Rows : DuesOK(billing[i])
  BY <1>1, NoRowDues
<1>5. \A p \in Payments, i \in Rows : PartOK(p, i)
  BY <1>2 DEF PartOK
<1>6. HeldUnpaid
  BY DEF Init, Idle, HeldUnpaid
<1>7. PunctualPaysNoCharge /\ CancelledPaidWasRenegotiated
  BY <1>2 DEF PunctualPaysNoCharge, CancelledPaidWasRenegotiated
<1> QED BY <1>3, <1>4, <1>5, <1>6, <1>7, InitInvariant, Tally DEF PInv, AccountsOK

-------------------------------------------------------------------------------
(* Steps that pay nothing.                                                 *)

\* The row keeps its payments, and gives way only if it has none or to others.
QuietRow(i) ==
    /\ DuesOK(billing'[i]) /\ PaysAs(billing[i], billing'[i])
    /\ i <= used => Kin(billing[i], billing'[i])
    /\ billing'[i].status = "CANCELLED" =>
         \/ billing[i].status = "CANCELLED" \/ billing[i].paid = 0
         \/ \E j \in Rows : billing'[j].source = i

Quiet == UNCHANGED <<payment, part>> /\ \A i \in Rows : QuietRow(i)

\* What the open cancellation holds after the step was unpaid before it.
HoldUnpaid ==
    hold'.op = "cancel" /\ ~hold'.stale => \A i \in hold'.rows : billing[i].paid = 0

LEMMA SourceKept ==
    ASSUME RInv, NEW i \in Rows, NEW j \in Rows, billing[j].source = i,
           \A k \in Rows : k <= used => billing'[k].source = billing[k].source
    PROVE  billing'[j].source = i
<1>1. i # 0 /\ j \in Nat /\ used \in Nat
  BY RowIndex DEF RInv, TableOK
<1>2. j <= used
  BY <1>1, NoRowFields DEF RInv, TableOK
<1> QED BY <1>2

LEMMA QuietStep ==
    ASSUME PInv, RInv', Quiet, HoldUnpaid
    PROVE  PInv'
<1>0. RInv /\ UNCHANGED <<payment, part>>
  BY DEF PInv, Quiet
<1>1. ASSUME NEW i \in Rows PROVE Tallied(i)'
  <2>1. PaysAs(billing[i], billing'[i]) /\ Tallied(i)
    BY Tally DEF PInv, AccountsOK, Quiet, QuietRow
  <2>2. ConfirmedOn(i)' = ConfirmedOn(i)
    BY <1>0 DEF ConfirmedOn, Allocated
  <2>3. /\ AmountsOn(i)' = AmountsOn(i) /\ FeesOn(i)' = FeesOn(i)
        /\ InterestsOn(i)' = InterestsOn(i) /\ PrincipalsOn(i)' = PrincipalsOn(i)
    BY <1>0 DEF AmountsOn, FeesOn, InterestsOn, PrincipalsOn
  <2> QED BY <2>1, <2>2, <2>3 DEF Tallied, PaysAs
<1>2. PaidIsAllocated'
  BY <1>1, Tally
<1>3. ASSUME NEW i \in Rows PROVE DuesOK(billing[i])'
  BY DEF Quiet, QuietRow
<1>4. ASSUME NEW p \in Payments, NEW i \in Rows PROVE PartOK(p, i)'
  BY <1>0 DEF PInv, AccountsOK, PartOK
<1>5. PunctualPaysNoCharge'
  <2> SUFFICES ASSUME NEW p \in Payments, NEW i \in Rows,
                      payment[p].status \in {"CONFIRMED", "REVERSED"},
                      payment[p].date <= billing'[i].due, ~billing'[i].recomposed
               PROVE  part[p][i].fee = 0 /\ part[p][i].interest = 0
    BY <1>0 DEF PunctualPaysNoCharge
  <2>1. CASE i <= used
    BY <2>1 DEF PInv, AccountsOK, PunctualPaysNoCharge, Quiet, QuietRow, Kin
  <2>2. CASE ~(i <= used)
    BY <2>2, NotYetPaid DEF NoPart
  <2> QED BY <2>1, <2>2
<1>6. CancelledPaidWasRenegotiated'
  <2> SUFFICES ASSUME NEW p \in Payments, NEW i \in Rows, payment[p].status = "CONFIRMED",
                      i \in Allocated(p), billing'[i].status = "CANCELLED"
               PROVE  \E j \in Rows : billing'[j].source = i
    BY <1>0 DEF CancelledPaidWasRenegotiated, Allocated
  <2>1. CASE billing[i].status = "CANCELLED"
    <3>1. PICK j \in Rows : billing[j].source = i
      BY <2>1 DEF PInv, AccountsOK, CancelledPaidWasRenegotiated
    <3>2. billing'[j].source = i
      BY <1>0, <3>1, SourceKept DEF Quiet, QuietRow, Kin
    <3> QED BY <3>2
  <2>2. billing[i].paid # 0
    <3>1. part[p][i].amount <= billing[i].paid
      BY PaidCovers DEF ConfirmedOn
    <3>2. part[p][i].amount \in Nat /\ part[p][i].amount # 0
      BY <1>0, AllocatedTitles DEF PartRows
    <3> QED BY <3>1, <3>2
  <2> QED BY <2>1, <2>2 DEF Quiet, QuietRow
<1>7. HeldUnpaid'
  <2>1. \A i \in hold'.rows : i \in Rows
    BY DEF RInv, PlainOK, Holds
  <2> QED BY <2>1 DEF HoldUnpaid, HeldUnpaid, Quiet, QuietRow, PaysAs
<1> QED BY <1>2, <1>3, <1>4, <1>5, <1>6, <1>7 DEF PInv, AccountsOK

\* The open transaction as a step leaves it.
LEMMA HoldKept ==
    ASSUME PInv, hold' = hold \/ hold' = Idle \/ (\E S : Touch(S))
    PROVE  HoldUnpaid
<1>1. HeldUnpaid /\ hold \in Holds
  BY DEF PInv, AccountsOK, RInv, PlainOK
<1>2. CASE hold' = hold
  BY <1>1, <1>2 DEF HeldUnpaid, HoldUnpaid
<1>3. CASE hold' = Idle
  BY <1>3 DEF HoldUnpaid, Idle
<1>4. CASE \E S : Touch(S)
  <2>1. PICK S : hold' = [hold EXCEPT !.stale = hold.stale \/ hold.rows \cap S # {}]
    BY <1>4 DEF Touch
  <2>2. hold'.op = hold.op /\ hold'.rows = hold.rows /\ (hold.stale => hold'.stale)
    BY <1>1, <2>1 DEF Holds
  <2> QED BY <1>1, <2>2 DEF HeldUnpaid, HoldUnpaid
<1> QED BY <1>2, <1>3, <1>4

LEMMA Alike == \A b : Kin(b, b) /\ PaysAs(b, b)
BY DEF Kin, PaysAs

LEMMA QuietAside ==
    ASSUME PInv, UNCHANGED <<billing, payment, part>>
    PROVE  Quiet
BY Alike DEF PInv, AccountsOK, Quiet, QuietRow

LEMMA QuietRewriting ==
    ASSUME PInv, UNCHANGED <<payment, part>>, NEW table, billing' = [i \in Rows |-> table[i]],
           \A i \in Rows :
              \/ table[i] = billing[i]
              \/ /\ DuesOK(table[i]) /\ PaysAs(billing[i], table[i]) /\ Kin(billing[i], table[i])
                 /\ table[i].status = billing[i].status \/ billing[i].paid = 0
    PROVE  Quiet
<1> SUFFICES ASSUME NEW i \in Rows PROVE QuietRow(i)
  BY DEF Quiet
<1>1. billing'[i] = table[i] /\ DuesOK(billing[i])
  BY DEF PInv, AccountsOK
<1> QED BY <1>1, Alike DEF QuietRow

\* Titles give way, unpaid or to others, and new ones are inserted.
LEMMA QuietInsertion ==
    ASSUME PInv, UNCHANGED <<payment, part>>, NEW S, NEW at, NEW rows, NEW table,
           Rewrites(table), Inserts(S, at, rows, table),
           \A i \in Rows : /\ DuesOK(table[i]) /\ PaysAs(billing[i], table[i])
                           /\ table[i].status = "CANCELLED" =>
                                \/ billing[i].status = "CANCELLED" \/ billing[i].paid = 0
                                \/ \E x \in S : rows[x].source = i
    PROVE  Quiet
<1>1. TableOK
  BY DEF PInv, RInv
<1>2. /\ Grown
      /\ \A x \in S : at[x] \in Rows /\ at[x] > used /\ billing'[at[x]] = rows[x]
      /\ \A i \in Rows : i <= used => billing'[i] = table[i]
      /\ \A i \in Rows : i > used /\ i <= used' => \E x \in S : i = at[x]
  BY <1>1, Insertion
<1>3. used \in Nat /\ used' \in Nat /\ Rows \subseteq Nat
  BY <1>1, <1>2, RowIndex DEF TableOK, Grown
<1> SUFFICES ASSUME NEW i \in Rows PROVE QuietRow(i)
  BY DEF Quiet
<1>4. CASE i <= used
  <2>1. billing'[i] = table[i] /\ Kin(billing[i], billing'[i])
    BY <1>2, <1>4 DEF Grown
  <2>2. (\E x \in S : rows[x].source = i) => \E j \in Rows : billing'[j].source = i
    BY <1>2
  <2> QED BY <2>1, <2>2 DEF QuietRow
<1>5. CASE ~(i <= used)
  <2>1. billing[i] = NoRow
    BY <1>5, NotYetPaid
  <2>2. DuesOK(billing'[i]) /\ PaidNothing(billing'[i]) /\ billing'[i].status # "CANCELLED"
    <3>1. CASE i <= used'
      <4>1. Fresh(billing'[i])
        BY <1>2, <1>3, <1>5, <3>1 DEF Grown
      <4> QED BY <4>1, FreshDues DEF Fresh
    <3>2. CASE i > used'
      BY <1>2, <3>2, NoRowDues, NoRowOK DEF Grown
    <3> QED BY <1>3, <3>1, <3>2
  <2> QED BY <1>5, <2>1, <2>2, NoRowDues DEF QuietRow, PaysAs, PaidNothing
<1> QED BY <1>4, <1>5

LEMMA QuietContracts ==
    ASSUME PInv, \/ Tick \/ CreateContract \/ SuspendContract \/ BeginCloseContract
                 \/ EndCloseContract
                 \/ \E count \in Counts, value \in Values : UpdateContractDraft(count, value)
    PROVE  Quiet /\ HoldUnpaid
<1>1. UNCHANGED <<billing, payment, part>> /\ (hold' = hold \/ hold' = Idle \/ hold'.op # "cancel")
  BY DEF Tick, CreateContract, SuspendContract, BeginCloseContract, EndCloseContract,
         UpdateContractDraft, Idle
<1> QED BY <1>1, QuietAside, HoldKept DEF HoldUnpaid

LEMMA QuietBeginCancel ==
    ASSUME PInv, BeginCancelContract
    PROVE  Quiet /\ HoldUnpaid
<1>1. UNCHANGED <<billing, payment, part>> /\ \A i \in hold'.rows : billing[i].paid = 0
  BY DEF BeginCancelContract
<1> QED BY <1>1, QuietAside DEF HoldUnpaid

LEMMA QuietEndCancel ==
    ASSUME PInv, EndCancelContract
    PROVE  Quiet /\ HoldUnpaid
<1>1. UNCHANGED <<payment, part>> /\ hold' = Idle /\ hold.op = "cancel"
  BY DEF EndCancelContract
<1>2. CASE Stale
  BY <1>1, <1>2, QuietAside, HoldKept DEF EndCancelContract
<1>3. CASE ~Stale
  <2> DEFINE table == [i \in Rows |-> IF i \in hold.rows
                                      THEN [billing[i] EXCEPT !.status = "CANCELLED"]
                                      ELSE billing[i]]
  <2>1. billing' = [i \in Rows |-> table[i]]
    BY <1>3 DEF EndCancelContract
  <2>2. \A i \in hold.rows : /\ i \in Rows /\ billing[i].status # "NONE" /\ RowOK(billing[i])
                             /\ DuesOK(billing[i]) /\ billing[i].paid = 0
    BY <1>1, <1>3 DEF PInv, RInv, PlainOK, Holds, TitlesOK, TableOK, AccountsOK, HeldUnpaid, Stale
  <2>3. \A i \in Rows :
           \/ table[i] = billing[i]
           \/ /\ DuesOK(table[i]) /\ PaysAs(billing[i], table[i]) /\ Kin(billing[i], table[i])
              /\ billing[i].paid = 0
    BY <2>2, WaivedRow, WaivedDues DEF RowOK
  <2> HIDE DEF table
  <2>4. Quiet
    BY <1>1, <2>1, <2>3, QuietRewriting
  <2> QED BY <1>1, <2>4, HoldKept
<1> QED BY <1>2, <1>3

LEMMA QuietCancelBilling ==
    ASSUME PInv, NEW i \in Rows, CancelBilling(i)
    PROVE  Quiet /\ HoldUnpaid
<1> DEFINE table == [j \in Rows |-> IF j = i THEN [billing[i] EXCEPT !.status = "CANCELLED"]
                                    ELSE billing[j]]
<1>1. /\ UNCHANGED <<payment, part>> /\ Touch({i}) /\ billing' = [j \in Rows |-> table[j]]
      /\ billing[i].paid = 0
  BY DEF CancelBilling, PInv, RInv, TableOK
<1>2. billing[i].status # "NONE" /\ RowOK(billing[i]) /\ DuesOK(billing[i])
  BY DEF CancelBilling, PInv, RInv, TableOK, AccountsOK
<1>3. DuesOK(table[i]) /\ PaysAs(billing[i], table[i]) /\ Kin(billing[i], table[i])
  BY <1>2, WaivedRow, WaivedDues DEF RowOK
<1>4. \A j \in Rows : j # i => table[j] = billing[j]
  OBVIOUS
<1> HIDE DEF table
<1>5. Quiet
  BY <1>1, <1>3, <1>4, QuietRewriting
<1> QED BY <1>1, <1>5, HoldKept

LEMMA QuietAssessment ==
    ASSUME PInv, NEW i \in Rows, AssessLateCharges(i)
    PROVE  Quiet /\ HoldUnpaid
<1> DEFINE table == [j \in Rows |-> IF j = i THEN Assessed(billing[i], today) ELSE billing[j]]
<1>1. /\ UNCHANGED <<payment, part>> /\ Touch({i}) /\ billing' = [j \in Rows |-> table[j]]
  BY DEF AssessLateCharges, PInv, RInv, TableOK
<1>2. /\ RowOK(billing[i]) /\ DuesOK(billing[i]) /\ billing[i] \in BillingRows /\ today \in Nat
      /\ (billing[i].until = 0 \/ billing[i].until <= today \/ today <= billing[i].due)
  <2>1. today \in Nat
    BY ReceivablesAssumption DEF PInv, RInv, PlainOK, Days
  <2>2. RowOK(billing[i]) /\ DuesOK(billing[i]) /\ billing[i] \in BillingRows
        /\ billing[i].until \in Nat
    BY RowParts DEF PInv, RInv, TableOK, RowOK, AccountsOK
  <2> QED BY <2>1, <2>2 DEF AssessLateCharges, Open, Assessable
<1>3. /\ DuesOK(table[i]) /\ PaysAs(billing[i], table[i]) /\ Kin(billing[i], table[i])
      /\ table[i].status = billing[i].status
  BY <1>2, AssessedRow, AssessedDues
<1>4. \A j \in Rows : j # i => table[j] = billing[j]
  OBVIOUS
<1> HIDE DEF table
<1>5. Quiet
  BY <1>1, <1>3, <1>4, QuietRewriting
<1> QED BY <1>1, <1>5, HoldKept

LEMMA QuietTable ==
    ASSUME PInv
    PROVE  /\ Rewrites(billing)
           /\ \A i \in Rows : DuesOK(billing[i]) /\ PaysAs(billing[i], billing[i])
BY Unchanged, Alike DEF PInv, AccountsOK

LEMMA QuietAdHoc ==
    ASSUME PInv, NEW value \in Values, CreateAdHocBilling(value, today)
    PROVE  Quiet /\ HoldUnpaid
<1>1. UNCHANGED <<payment, part, hold>>
  BY DEF CreateAdHocBilling
<1>2. PICK at, rows : Inserts({0}, at, rows, billing) /\ rows[0].number = 0
  BY CreateAdHocBillingInserts DEF PInv
<1>3. Quiet
  BY <1>1, <1>2, QuietTable, QuietInsertion
<1> QED BY <1>1, <1>3, HoldKept

LEMMA QuietMaterialization ==
    ASSUME PInv, UNCHANGED <<payment, part, hold>>,
           NEW numbers \in SUBSET (1..contract.count), Materialized(Missing(numbers))
    PROVE  Quiet /\ HoldUnpaid
<1>1. numbers \in SUBSET Numbers /\ IsFiniteSet(numbers)
  <2>1. contract.count \in Nat
    BY ContractParts DEF PInv, RInv, PlainOK
  <2>2. IsFiniteSet(1..contract.count)
    BY <2>1, UpTo
  <2>3. IsFiniteSet(numbers)
    BY <2>2, FS_Subset
  <2> QED BY <2>1, <2>3 DEF Numbers
<1>2. RInv
  BY DEF PInv
<1> DEFINE S == Missing(numbers)
<1>3. PICK at, rows :
         /\ Inserts(S, at, rows, billing)
         /\ \A n \in S : /\ rows[n].number = n /\ rows[n].source = 0
                         /\ rows[n].revision = contract.revision
  BY <1>1, <1>2, MaterializedInserts
<1> HIDE DEF S
<1>4. Quiet
  BY <1>3, QuietTable, QuietInsertion
<1> QED BY <1>4, HoldKept

LEMMA QuietAmendment ==
    ASSUME PInv, NEW from \in Days, NEW count \in Counts, NEW value \in Values,
           CreateAmendment(from, count, value)
    PROVE  Quiet /\ HoldUnpaid
<1>1. /\ UNCHANGED <<payment, part>> /\ Touch(Future(from))
      /\ \A i \in Future(from) : billing[i].paid = 0
  BY DEF CreateAmendment
<1>2. PICK at, rows, table : Amended(from, count, at, rows, table)
  BY CreateAmendmentInserts DEF PInv
<1>3. Rewrites(table) /\ Inserts(Scheduled(from, count), at, rows, table)
  BY <1>2 DEF Amended
<1>4. ASSUME NEW i \in Rows
      PROVE  /\ DuesOK(table[i]) /\ PaysAs(billing[i], table[i])
             /\ table[i].status = "CANCELLED" =>
                  billing[i].status = "CANCELLED" \/ billing[i].paid = 0
  <2>1. DuesOK(billing[i]) /\ billing[i] \in BillingRows
    BY DEF PInv, AccountsOK, RInv, TableOK
  <2>2. CASE i \in Future(from)
    BY <1>1, <1>2, <2>1, <2>2, WaivedDues DEF Amended
  <2>3. CASE i \notin Future(from)
    BY <1>2, <2>1, <2>3, Alike DEF Amended
  <2> QED BY <2>2, <2>3
<1>5. Quiet
  BY <1>1, <1>3, <1>4, QuietInsertion
<1> QED BY <1>1, <1>5, HoldKept

LEMMA QuietRenegotiation ==
    ASSUME PInv, NEW i \in Rows, NEW due \in NewDueDates, NEW parts \in Parts,
           NEW agreed \in Agreed, RenegotiateBilling(i, due, parts, agreed)
    PROVE  Quiet /\ HoldUnpaid
<1>1. UNCHANGED <<payment, part>> /\ Touch({i})
  BY DEF RenegotiateBilling
<1>2. PICK at, rows, table : Renegotiated(i, due, parts, at, rows, table)
  BY RenegotiateBillingInserts DEF PInv
<1> DEFINE S == 1..parts
<1>3. Rewrites(table) /\ Inserts(S, at, rows, table) /\ \A k \in S : rows[k].source = i
  BY <1>2 DEF Renegotiated
<1>4. 1 \in S
  BY ReceivablesAssumption
<1> HIDE DEF S
<1>5. ASSUME NEW j \in Rows
      PROVE  /\ DuesOK(table[j]) /\ PaysAs(billing[j], table[j])
             /\ j # i /\ table[j].status = "CANCELLED" => billing[j].status = "CANCELLED"
  <2>1. DuesOK(billing[j]) /\ RowOK(billing[j]) /\ billing[j] \in BillingRows
    BY DEF PInv, AccountsOK, RInv, TableOK
  <2>2. CASE j # i
    BY <1>2, <2>1, <2>2, Alike DEF Renegotiated
  <2>3. CASE j = i
    <3> DEFINE charged == Assessed(billing[i], due)
    <3>1. due \in Nat
      BY DueDates DEF PInv
    <3>2. billing[i].until = 0 \/ billing[i].until <= due
      BY <2>1, <2>3, <3>1, RowParts DEF RenegotiateBilling, Assessable
    <3>3. charged \in BillingRows /\ DuesOK(charged) /\ PaysAs(billing[i], charged)
      BY <2>1, <2>3, <3>1, <3>2, AssessedRow, AssessedDues DEF RowOK
    <3>4. table[i] = [charged EXCEPT !.status = "CANCELLED"]
      BY <1>2 DEF Renegotiated
    <3> HIDE DEF charged
    <3>5. DuesOK(table[i]) /\ PaysAs(charged, table[i])
      BY <3>3, <3>4, WaivedDues
    <3> QED BY <2>3, <3>3, <3>5 DEF PaysAs
  <2> QED BY <2>2, <2>3
<1>6. Quiet
  BY <1>1, <1>3, <1>4, <1>5, QuietInsertion
<1> QED BY <1>1, <1>6, HoldKept

-------------------------------------------------------------------------------
(* Payments.                                                               *)

\* A title that the step pays, or takes back, was touched.
LEMMA HeldTouched ==
    ASSUME PInv, NEW S, Touch(S), \A i \in Rows \ S : billing'[i].paid = billing[i].paid
    PROVE  HeldUnpaid'
<1>1. HeldUnpaid /\ hold \in Holds
  BY DEF PInv, AccountsOK, RInv, PlainOK
<1>2. hold' = [hold EXCEPT !.stale = hold.stale \/ hold.rows \cap S # {}]
  BY DEF Touch
<1>3. /\ hold'.op = hold.op /\ hold'.rows = hold.rows /\ hold.rows \subseteq Rows
      /\ hold'.stale = (hold.stale \/ hold.rows \cap S # {})
  BY <1>1, <1>2 DEF Holds
<1>4. ASSUME hold'.op = "cancel", ~hold'.stale, NEW i \in hold'.rows
      PROVE  billing'[i].paid = 0
  <2>1. ~hold.stale /\ i \notin S /\ i \in Rows /\ i \in hold.rows
    BY <1>3, <1>4
  <2> QED BY <1>1, <1>3, <1>4, <2>1 DEF HeldUnpaid
<1> QED BY <1>4 DEF HeldUnpaid

LEMMA CreatePaymentAccounts ==
    ASSUME PInv, NEW p \in Payments, NEW chosen \in SUBSET Rows, NEW date \in Days,
           NEW amounts \in [chosen -> Amounts], CreatePayment(p, amounts, date)
    PROVE  AccountsOK'
<1>0. RInv
  BY DEF PInv
<1>1. /\ UNCHANGED <<billing, used, hold>> /\ payment[p].status = "NONE"
      /\ payment'[p].status = "PENDING"
      /\ \A q \in Payments \ {p} : payment'[q] = payment[q] /\ part'[q] = part[q]
      /\ \A i \in Rows : part'[p][i] = IF i \in chosen
                                       THEN [NoPart EXCEPT !.amount = amounts[i]] ELSE NoPart
  BY <1>0 DEF CreatePayment, RInv, PlainOK
<1>2. ASSUME NEW i \in Rows PROVE Tallied(i)'
  <2>1. Tallied(i) /\ IsFiniteSet(ConfirmedOn(i)) /\ ConfirmedOn(i) \subseteq Payments \ {p}
    <3>1. Tallied(i) /\ IsFiniteSet(ConfirmedOn(i))
      BY Tally, ColumnsOf DEF PInv, AccountsOK
    <3> QED BY <1>1, <3>1 DEF ConfirmedOn
  <2>2. ConfirmedOn(i)' = ConfirmedOn(i)
    BY <1>1 DEF ConfirmedOn, Allocated
  <2>3. \A q \in ConfirmedOn(i) :
           /\ AmountsOn(i)'[q] = AmountsOn(i)[q] /\ FeesOn(i)'[q] = FeesOn(i)[q]
           /\ InterestsOn(i)'[q] = InterestsOn(i)[q] /\ PrincipalsOn(i)'[q] = PrincipalsOn(i)[q]
    BY <1>1, <2>1 DEF AmountsOn, FeesOn, InterestsOn, PrincipalsOn
  <2>4. /\ SumFunctionOnSet(AmountsOn(i)', ConfirmedOn(i)) = SumFunctionOnSet(AmountsOn(i), ConfirmedOn(i))
        /\ SumFunctionOnSet(FeesOn(i)', ConfirmedOn(i)) = SumFunctionOnSet(FeesOn(i), ConfirmedOn(i))
        /\ SumFunctionOnSet(InterestsOn(i)', ConfirmedOn(i)) = SumFunctionOnSet(InterestsOn(i), ConfirmedOn(i))
        /\ SumFunctionOnSet(PrincipalsOn(i)', ConfirmedOn(i)) = SumFunctionOnSet(PrincipalsOn(i), ConfirmedOn(i))
    BY <2>1, <2>3, SumSame
  <2> QED BY <1>1, <2>1, <2>2, <2>4 DEF Tallied
<1>3. PaidIsAllocated'
  BY <1>2, Tally
<1>4. ASSUME NEW q \in Payments, NEW i \in Rows PROVE PartOK(q, i)'
  <2>1. CASE q # p
    BY <1>1, <2>1 DEF PInv, AccountsOK, PartOK
  <2>2. CASE q = p /\ i \in chosen
    <3>1. part'[p][i] = [NoPart EXCEPT !.amount = amounts[i]] /\ amounts[i] \in Nat \ {0}
      BY <1>1, <2>2, ReceivablesAssumption
    <3>2. part'[p][i].amount # 0
      BY <3>1 DEF NoPart
    <3> QED BY <1>1, <2>2, <3>2 DEF PartOK
  <2>3. CASE q = p /\ i \notin chosen
    BY <1>1, <2>3 DEF PartOK
  <2> QED BY <2>1, <2>2, <2>3
<1>5. PunctualPaysNoCharge'
  <2> SUFFICES ASSUME NEW q \in Payments, NEW i \in Rows,
                      payment'[q].status \in {"CONFIRMED", "REVERSED"},
                      payment'[q].date <= billing[i].due, ~billing[i].recomposed
               PROVE  part'[q][i].fee = 0 /\ part'[q][i].interest = 0
    BY <1>1 DEF PunctualPaysNoCharge
  <2>1. q # p
    BY <1>1
  <2> QED BY <1>1, <2>1 DEF PInv, AccountsOK, PunctualPaysNoCharge
<1>6. CancelledPaidWasRenegotiated'
  <2> SUFFICES ASSUME NEW q \in Payments, NEW i \in Rows, payment'[q].status = "CONFIRMED",
                      i \in Allocated(q)', billing[i].status = "CANCELLED"
               PROVE  \E j \in Rows : billing[j].source = i
    BY <1>1 DEF CancelledPaidWasRenegotiated
  <2>1. q # p
    BY <1>1
  <2>2. i \in Allocated(q)
    BY <1>1, <2>1 DEF Allocated
  <2> QED BY <1>1, <2>1, <2>2 DEF PInv, AccountsOK, CancelledPaidWasRenegotiated
<1>7. (\A i \in Rows : DuesOK(billing[i]))' /\ HeldUnpaid'
  BY <1>1 DEF PInv, AccountsOK, HeldUnpaid
<1> QED BY <1>3, <1>4, <1>5, <1>6, <1>7 DEF AccountsOK

\* What a conciliation writes in a title and in its allocation.
Conciliated(p, i) ==
    /\ DuesOK(billing'[i]) /\ Kin(billing[i], billing'[i])
    /\ billing'[i].status = billing[i].status
    /\ part'[p][i] \in PartRows /\ Whole(part'[p][i]) /\ part'[p][i].amount = part[p][i].amount
    /\ billing'[i].paid = billing[i].paid + part'[p][i].amount
    /\ billing'[i].paidFee = billing[i].paidFee + part'[p][i].fee
    /\ billing'[i].paidInterest = billing[i].paidInterest + part'[p][i].interest
    /\ billing'[i].paidPrincipal = billing[i].paidPrincipal + part'[p][i].principal
    /\ payment[p].date <= billing[i].due /\ ~billing[i].recomposed
         => part'[p][i].fee = 0 /\ part'[p][i].interest = 0

LEMMA Conciliation ==
    ASSUME PInv, NEW p \in Payments, ConfirmPayment(p), NEW i \in Allocated(p)
    PROVE  Conciliated(p, i)
<1> DEFINE date == payment[p].date
           b == billing[i]
           c == Charged(i, date)
           amount == part[p][i].amount
           k == Components(c, amount)
<1>1. i \in Rows /\ RowOK(b) /\ DuesOK(b) /\ date \in Nat /\ amount \in Nat /\ b \in BillingRows
  <2>1. i \in Rows
    BY DEF Allocated
  <2>2. date \in Nat /\ amount \in Nat
    BY <2>1 DEF PInv, RInv, PlainOK
  <2> QED BY <2>1, <2>2 DEF PInv, RInv, TableOK, AccountsOK, RowOK
<1>2. /\ Reconcilable(i, date) /\ amount = k.fee + k.interest + k.principal
      /\ billing'[i] = Credited(c, k) /\ part'[p][i] = k
  BY <1>1 DEF ConfirmPayment, PInv, RInv, PlainOK
<1>3. /\ RowOK(c) /\ Kin(b, c) /\ c.status = b.status /\ DuesOK(c) /\ PaysAs(b, c)
      /\ c \in BillingRows
  <2>1. TooEarly(b, date) => b.paid = 0
    BY <1>2 DEF Reconcilable
  <2> HIDE DEF date
  <2>2. RowOK(c) /\ Kin(b, c) /\ c.status = b.status
    BY <1>1, ChargedRow
  <2> QED BY <1>1, <2>1, <2>2, ChargedDues DEF RowOK
<1>4. date <= b.due /\ ~b.recomposed => c.fee = 0 /\ c.interest = 0
  <2> HIDE DEF date
  <2> QED BY <1>1, PunctualCharge
<1> HIDE DEF c
<1>5. k \in PartRows /\ Fits(c, k) /\ k.amount = amount
  BY <1>1, <1>3, ComponentsFit
<1> HIDE DEF k
<1>6. Whole(k)
  BY <1>2, <1>5 DEF Whole
<1>7. LET d == Credited(c, k)
      IN  /\ DuesOK(d)
          /\ d.paid = c.paid + k.amount /\ d.paidFee = c.paidFee + k.fee
          /\ d.paidInterest = c.paidInterest + k.interest
          /\ d.paidPrincipal = c.paidPrincipal + k.principal
  BY <1>3, <1>5, <1>6, CreditedDues
<1>8. Kin(b, Credited(c, k)) /\ Credited(c, k).status = b.status
  BY <1>3, <1>5, CreditedRow, KinFollows
<1>9. date <= b.due /\ ~b.recomposed => k.fee = 0 /\ k.interest = 0
  <2>1. /\ k.fee \in Nat /\ k.interest \in Nat /\ c.paidFee \in Nat /\ c.paidInterest \in Nat
    BY <1>3, <1>5, RowParts DEF PartRows
  <2> QED BY <1>4, <1>5, <2>1 DEF Fits
<1> QED BY <1>2, <1>3, <1>5, <1>6, <1>7, <1>8, <1>9 DEF Conciliated, PaysAs

LEMMA ConfirmPaymentAccounts ==
    ASSUME PInv, NEW p \in Payments, ConfirmPayment(p)
    PROVE  AccountsOK'
<1>0. RInv
  BY DEF PInv
<1>1. /\ payment[p].status = "PENDING" /\ payment'[p].status = "CONFIRMED"
      /\ payment'[p].date = payment[p].date
      /\ \A q \in Payments \ {p} : payment'[q] = payment[q] /\ part'[q] = part[q]
      /\ \A i \in Rows \ Allocated(p) : billing'[i] = billing[i] /\ part'[p][i] = part[p][i]
      /\ \A i \in Allocated(p) : i \in Rows /\ billing[i].status # "CANCELLED"
      /\ Touch(Allocated(p))
  BY <1>0 DEF ConfirmPayment, RInv, PlainOK, Allocated
<1>2. \A i \in Allocated(p) : Conciliated(p, i)
  BY Conciliation
<1>3. \A i \in Rows : /\ Kin(billing[i], billing'[i]) /\ billing'[i].status = billing[i].status
                      /\ \A q \in Payments : i \in Allocated(q)' <=> i \in Allocated(q)
  BY <1>1, <1>2, Alike DEF Conciliated, Allocated
<1>4. ASSUME NEW i \in Rows PROVE Tallied(i)'
  <2> DEFINE on == ConfirmedOn(i)
  <2>1. /\ Tallied(i) /\ IsFiniteSet(on) /\ on \subseteq Payments \ {p}
        /\ \A q \in on : /\ AmountsOn(i)[q] \in Nat /\ FeesOn(i)[q] \in Nat
                         /\ InterestsOn(i)[q] \in Nat /\ PrincipalsOn(i)[q] \in Nat
    <3>1. Tallied(i) /\ IsFiniteSet(on) /\ on \subseteq Payments
      BY <1>0, Tally, ColumnsOf DEF PInv, AccountsOK
    <3>2. p \notin on
      BY <1>1 DEF ConfirmedOn
    <3> QED BY <1>0, <3>1, <3>2, ColumnsOf
  <2>2. \A q \in on :
           /\ AmountsOn(i)'[q] = AmountsOn(i)[q] /\ FeesOn(i)'[q] = FeesOn(i)[q]
           /\ InterestsOn(i)'[q] = InterestsOn(i)[q] /\ PrincipalsOn(i)'[q] = PrincipalsOn(i)[q]
    BY <1>1, <2>1 DEF AmountsOn, FeesOn, InterestsOn, PrincipalsOn
  <2>3. CASE i \in Allocated(p)
    <3>1. ConfirmedOn(i)' = on \cup {p}
      BY <1>1, <1>3, <2>3 DEF ConfirmedOn
    <3>2. /\ AmountsOn(i)'[p] = part'[p][i].amount /\ FeesOn(i)'[p] = part'[p][i].fee
          /\ InterestsOn(i)'[p] = part'[p][i].interest
          /\ PrincipalsOn(i)'[p] = part'[p][i].principal
      BY DEF AmountsOn, FeesOn, InterestsOn, PrincipalsOn
    <3>3. /\ AmountsOn(i)'[p] \in Nat /\ FeesOn(i)'[p] \in Nat
          /\ InterestsOn(i)'[p] \in Nat /\ PrincipalsOn(i)'[p] \in Nat
      BY <1>2, <2>3, <3>2 DEF Conciliated, PartRows
    <3> HIDE DEF on
    <3>4. /\ SumFunctionOnSet(AmountsOn(i)', on \cup {p})
             = SumFunctionOnSet(AmountsOn(i), on) + AmountsOn(i)'[p]
          /\ SumFunctionOnSet(FeesOn(i)', on \cup {p})
             = SumFunctionOnSet(FeesOn(i), on) + FeesOn(i)'[p]
          /\ SumFunctionOnSet(InterestsOn(i)', on \cup {p})
             = SumFunctionOnSet(InterestsOn(i), on) + InterestsOn(i)'[p]
          /\ SumFunctionOnSet(PrincipalsOn(i)', on \cup {p})
             = SumFunctionOnSet(PrincipalsOn(i), on) + PrincipalsOn(i)'[p]
      BY <2>1, <2>2, <3>3, SumGained
    <3>5. /\ billing[i].paid = SumFunctionOnSet(AmountsOn(i), on)
          /\ billing[i].paidFee = SumFunctionOnSet(FeesOn(i), on)
          /\ billing[i].paidInterest = SumFunctionOnSet(InterestsOn(i), on)
          /\ billing[i].paidPrincipal = SumFunctionOnSet(PrincipalsOn(i), on)
      BY <2>1 DEF Tallied, on
    <3>6. /\ billing'[i].paid = billing[i].paid + part'[p][i].amount
          /\ billing'[i].paidFee = billing[i].paidFee + part'[p][i].fee
          /\ billing'[i].paidInterest = billing[i].paidInterest + part'[p][i].interest
          /\ billing'[i].paidPrincipal = billing[i].paidPrincipal + part'[p][i].principal
      BY <1>2, <2>3 DEF Conciliated
    <3> QED BY <3>1, <3>2, <3>4, <3>5, <3>6 DEF Tallied
  <2>4. CASE i \notin Allocated(p)
    <3>1. ConfirmedOn(i)' = on
      BY <1>1, <1>3, <2>4 DEF ConfirmedOn
    <3>2. billing'[i] = billing[i]
      BY <1>1, <2>4
    <3> HIDE DEF on
    <3>3. /\ SumFunctionOnSet(AmountsOn(i)', on) = SumFunctionOnSet(AmountsOn(i), on)
          /\ SumFunctionOnSet(FeesOn(i)', on) = SumFunctionOnSet(FeesOn(i), on)
          /\ SumFunctionOnSet(InterestsOn(i)', on) = SumFunctionOnSet(InterestsOn(i), on)
          /\ SumFunctionOnSet(PrincipalsOn(i)', on) = SumFunctionOnSet(PrincipalsOn(i), on)
      BY <2>1, <2>2, SumSame
    <3> QED BY <2>1, <3>1, <3>2, <3>3 DEF Tallied, on
  <2> QED BY <2>3, <2>4
<1>5. PaidIsAllocated'
  BY <1>4, Tally
<1>6. ASSUME NEW q \in Payments, NEW i \in Rows PROVE PartOK(q, i)'
  <2>1. CASE q # p
    BY <1>1, <2>1 DEF PInv, AccountsOK, PartOK
  <2>2. CASE q = p /\ i \in Allocated(p)
    <3>1. part'[p][i].amount # 0
      BY <1>0, <1>2, <2>2, AllocatedTitles DEF Conciliated
    <3> QED BY <1>2, <2>2, <3>1 DEF PartOK, Conciliated
  <2>3. CASE q = p /\ i \notin Allocated(p)
    <3>1. part[p][i] = NoPart
      BY <1>0, <2>3, AllocatedTitles DEF PInv, AccountsOK, PartOK
    <3> QED BY <1>1, <2>3, <3>1 DEF PartOK, NoPart, Whole
  <2> QED BY <2>1, <2>2, <2>3
<1>7. PunctualPaysNoCharge'
  <2> SUFFICES ASSUME NEW q \in Payments, NEW i \in Rows,
                      payment'[q].status \in {"CONFIRMED", "REVERSED"},
                      payment'[q].date <= billing'[i].due, ~billing'[i].recomposed
               PROVE  part'[q][i].fee = 0 /\ part'[q][i].interest = 0
    BY DEF PunctualPaysNoCharge
  <2>0. payment'[q].date <= billing[i].due /\ ~billing[i].recomposed
    BY <1>3 DEF Kin
  <2>1. CASE q # p
    BY <1>1, <2>0, <2>1 DEF PInv, AccountsOK, PunctualPaysNoCharge
  <2>2. CASE q = p /\ i \in Allocated(p)
    BY <1>1, <1>2, <2>0, <2>2 DEF Conciliated
  <2>3. CASE q = p /\ i \notin Allocated(p)
    <3>1. part[p][i] = NoPart
      BY <1>0, <2>3, AllocatedTitles DEF PInv, AccountsOK, PartOK
    <3> QED BY <1>1, <2>3, <3>1 DEF NoPart
  <2> QED BY <2>1, <2>2, <2>3
<1>8. CancelledPaidWasRenegotiated'
  <2> SUFFICES ASSUME NEW q \in Payments, NEW i \in Rows, payment'[q].status = "CONFIRMED",
                      i \in Allocated(q)', billing'[i].status = "CANCELLED"
               PROVE  \E j \in Rows : billing'[j].source = i
    BY DEF CancelledPaidWasRenegotiated
  <2>1. i \in Allocated(q) /\ billing[i].status = "CANCELLED"
    BY <1>3
  <2>2. q # p /\ payment[q].status = "CONFIRMED"
    BY <1>1, <2>1
  <2>3. PICK j \in Rows : billing[j].source = i
    BY <2>1, <2>2 DEF PInv, AccountsOK, CancelledPaidWasRenegotiated
  <2>4. billing'[j].source = i
    BY <1>3, <2>3 DEF Kin
  <2> QED BY <2>4
<1>9. ASSUME NEW i \in Rows PROVE DuesOK(billing[i])'
  BY <1>1, <1>2 DEF PInv, AccountsOK, Conciliated
<1>10. HeldUnpaid'
  BY <1>1, HeldTouched
<1> QED BY <1>5, <1>6, <1>7, <1>8, <1>9, <1>10 DEF AccountsOK

\* What a reversal leaves of a title the payment had been distributed to.
LEMMA TakenBack ==
    ASSUME PInv, NEW p \in Payments, payment[p].status = "CONFIRMED", NEW i \in Allocated(p)
    PROVE  LET b == billing[i]
               d == Debited(b, part[p][i])
           IN  /\ i \in Rows /\ i <= used /\ p \in ConfirmedOn(i)
               /\ part[p][i] \in PartRows /\ Whole(part[p][i]) /\ part[p][i].amount <= b.paid
               /\ RowOK(b) /\ DuesOK(b) /\ DuesOK(d) /\ Kin(b, d) /\ d.status = b.status
               /\ d.paid = b.paid - part[p][i].amount /\ d.paidFee = b.paidFee - part[p][i].fee
               /\ d.paidInterest = b.paidInterest - part[p][i].interest
               /\ d.paidPrincipal = b.paidPrincipal - part[p][i].principal
               /\ Owed(d) = Owed(b)
<1> DEFINE c == part[p][i]
           b == billing[i]
<1>1. i \in Rows /\ i <= used /\ c \in PartRows
  BY AllocatedTitles DEF Allocated, PInv
<1>2. RowOK(b) /\ b \in BillingRows /\ DuesOK(b) /\ Whole(c)
  BY <1>1 DEF PInv, RInv, TableOK, RowOK, AccountsOK, PartOK
<1>3. p \in ConfirmedOn(i)
  BY DEF ConfirmedOn
<1>4. /\ c.amount <= b.paid /\ c.fee <= b.paidFee /\ c.interest <= b.paidInterest
      /\ c.principal <= b.paidPrincipal
  BY <1>1, <1>3, PaidCovers
<1> HIDE DEF b, c
<1>5. LET d == Debited(b, c)
      IN  /\ DuesOK(d)
          /\ d.paid = b.paid - c.amount /\ d.paidFee = b.paidFee - c.fee
          /\ d.paidInterest = b.paidInterest - c.interest
          /\ d.paidPrincipal = b.paidPrincipal - c.principal
          /\ Owed(d) = Owed(b)
  BY <1>1, <1>2, <1>4, DebitedDues
<1>6. Kin(b, Debited(b, c)) /\ Debited(b, c).status = b.status
  BY <1>1, <1>2, DebitedRow
<1> QED BY <1>1, <1>2, <1>3, <1>4, <1>5, <1>6 DEF b, c

\* The table after a reversal: titles taken back, titles left alone and, where
\* nothing was, the recomposed ones.
LEMMA Restored ==
    ASSUME PInv, NEW p \in Payments, payment[p].status = "CONFIRMED",
           NEW due, NEW at, NEW rows, NEW table, Reversed(p, due, at, rows, table)
    PROVE  /\ \A i \in Allocated(p) : billing'[i] = Debited(billing[i], part[p][i])
           /\ \A i \in Rows \ Allocated(p) : i <= used => billing'[i] = billing[i]
           /\ \A i \in Rows : ~(i <= used) =>
                 \/ billing'[i] = NoRow /\ ~\E x \in Orphans(p) : i = at[x]
                 \/ Fresh(billing'[i])
           /\ \A x \in Orphans(p) : /\ at[x] \in Rows /\ ~(at[x] <= used)
                                    /\ billing'[at[x]] = Recomposition(part[p][x], due)
           /\ \A i \in Rows : ~(i <= used) /\ (~\E x \in Orphans(p) : i = at[x])
                 => billing'[i] = NoRow
           /\ \A x, y \in Orphans(p) : at[x] = at[y] => x = y
<1> DEFINE S == Orphans(p)
<1>1. TableOK
  BY DEF PInv, RInv
<1>2. Rewrites(table) /\ Inserts(S, at, rows, table)
  BY DEF Reversed
<1> HIDE DEF S
<1>3. /\ Grown
      /\ \A x \in S : at[x] \in Rows /\ at[x] > used /\ billing'[at[x]] = rows[x]
      /\ \A i \in Rows : i <= used => billing'[i] = table[i]
      /\ \A i \in Rows : i > used /\ i <= used' => \E x \in S : i = at[x]
      /\ \A x, y \in S : at[x] = at[y] => x = y
  BY <1>1, <1>2, Insertion
<1>4. used \in Nat /\ used' \in Nat /\ Rows \subseteq Nat
  BY <1>1, <1>3, RowIndex DEF TableOK, Grown
<1>5. /\ \A i \in Allocated(p) : i \in Rows /\ i <= used /\ table[i] = Debited(billing[i], part[p][i])
      /\ \A i \in Rows \ Allocated(p) : table[i] = billing[i]
      /\ \A x \in S : rows[x] = Recomposition(part[p][x], due)
  BY TakenBack DEF Reversed, S
<1>6. \A x \in S : /\ at[x] \in Rows /\ ~(at[x] <= used)
                   /\ billing'[at[x]] = Recomposition(part[p][x], due)
  <2> TAKE x \in S
  <2>1. at[x] \in Rows /\ at[x] > used /\ billing'[at[x]] = rows[x]
    BY <1>3
  <2>2. rows[x] = Recomposition(part[p][x], due)
    BY <1>5
  <2>3. at[x] \in Nat
    BY <1>4, <2>1
  <2>4. ~(at[x] <= used)
    BY <1>4, <2>1, <2>3
  <2> QED BY <2>1, <2>2, <2>4
<1>7. \A i \in Rows : i > used' => billing'[i] = NoRow
  BY <1>3 DEF Grown
<1>8. \A i \in Rows : i > used /\ i <= used' => Fresh(billing'[i])
  BY <1>3 DEF Grown
<1>9. used <= used' /\ \A x \in S : at[x] <= used'
  <2> SUFFICES ASSUME NEW x \in S PROVE at[x] <= used'
    BY <1>3 DEF Grown
  <2>1. Fresh(rows[x]) /\ at[x] \in Rows /\ billing'[at[x]] = rows[x]
    BY <1>2, <1>3 DEF Inserts
  <2>2. billing'[at[x]] # NoRow
    BY <2>1, NoRowOK DEF Fresh
  <2> QED BY <1>4, <1>7, <2>1, <2>2
<1>10. \A i \in Rows : ~(i <= used) => \/ billing'[i] = NoRow /\ ~\E x \in S : i = at[x]
                                       \/ Fresh(billing'[i])
  BY <1>4, <1>7, <1>8, <1>9
<1>11. \A i \in Rows : ~(i <= used) /\ (~\E x \in S : i = at[x]) => billing'[i] = NoRow
  BY <1>3, <1>4, <1>7
<1> QED BY <1>3, <1>5, <1>6, <1>10, <1>11 DEF S

LEMMA ReversePaymentAccounts ==
    ASSUME PInv, NEW p \in Payments, NEW due \in NewDueDates, ReversePayment(p, due)
    PROVE  AccountsOK'
<1>0. RInv
  BY DEF PInv
<1>1. /\ payment[p].status = "CONFIRMED" /\ payment'[p].status = "REVERSED"
      /\ payment'[p].date = payment[p].date /\ part' = part /\ Touch(Allocated(p))
      /\ \A q \in Payments \ {p} : payment'[q] = payment[q]
  BY <1>0 DEF ReversePayment, RInv, PlainOK
<1>2. PICK at, rows, table : Reversed(p, due, at, rows, table)
  BY <1>0, ReversePaymentInserts
<1>3. /\ \A i \in Allocated(p) : billing'[i] = Debited(billing[i], part[p][i])
      /\ \A i \in Rows \ Allocated(p) : i <= used => billing'[i] = billing[i]
      /\ \A i \in Rows : ~(i <= used) => billing'[i] = NoRow \/ Fresh(billing'[i])
  BY <1>1, <1>2, Restored
<1>4. ASSUME NEW i \in Rows, i <= used
      PROVE  /\ Kin(billing[i], billing'[i]) /\ billing'[i].status = billing[i].status
             /\ DuesOK(billing'[i])
  <2>1. CASE i \in Allocated(p)
    BY <1>1, <1>3, <2>1, TakenBack
  <2>2. CASE i \notin Allocated(p)
    BY <1>3, <1>4, <2>2, Alike DEF PInv, AccountsOK
  <2> QED BY <2>1, <2>2
<1>5. ASSUME NEW i \in Rows, ~(i <= used)
      PROVE  DuesOK(billing'[i]) /\ PaysAs(billing[i], billing'[i]) /\ billing'[i].status # "CANCELLED"
  <2>1. billing[i] = NoRow
    BY <1>5, NotYetPaid
  <2>2. CASE billing'[i] = NoRow
    BY <2>1, <2>2, Alike, NoRowDues, NoRowOK
  <2>3. CASE Fresh(billing'[i])
    <3>1. billing'[i].status = "ACTIVE"
      BY <2>3 DEF Fresh
    <3> QED BY <2>1, <2>3, <3>1, FreshDues, NoRowDues DEF PaysAs, PaidNothing
  <2> QED BY <1>3, <1>5, <2>2, <2>3
<1>6. ASSUME NEW i \in Rows PROVE Tallied(i)'
  <2> DEFINE on == ConfirmedOn(i)
  <2>1. /\ Tallied(i) /\ IsFiniteSet(on)
        /\ \A q \in on : /\ AmountsOn(i)[q] \in Nat /\ FeesOn(i)[q] \in Nat
                         /\ InterestsOn(i)[q] \in Nat /\ PrincipalsOn(i)[q] \in Nat
    <3>1. Tallied(i) /\ IsFiniteSet(on) /\ on \subseteq Payments
      BY <1>0, Tally, ColumnsOf DEF PInv, AccountsOK
    <3> QED BY <1>0, <3>1, ColumnsOf
  <2>2. /\ AmountsOn(i)' = AmountsOn(i) /\ FeesOn(i)' = FeesOn(i)
        /\ InterestsOn(i)' = InterestsOn(i) /\ PrincipalsOn(i)' = PrincipalsOn(i)
    BY <1>1 DEF AmountsOn, FeesOn, InterestsOn, PrincipalsOn
  <2>3. CASE i \in Allocated(p)
    <3>1. ConfirmedOn(i)' = on \ {p}
      BY <1>1 DEF ConfirmedOn, Allocated
    <3>2. p \in on
      BY <1>1, <2>3, TakenBack
    <3>3. /\ AmountsOn(i)[p] = part[p][i].amount /\ FeesOn(i)[p] = part[p][i].fee
          /\ InterestsOn(i)[p] = part[p][i].interest
          /\ PrincipalsOn(i)[p] = part[p][i].principal
      BY DEF AmountsOn, FeesOn, InterestsOn, PrincipalsOn
    <3>4. /\ billing[i].paid = SumFunctionOnSet(AmountsOn(i), on)
          /\ billing[i].paidFee = SumFunctionOnSet(FeesOn(i), on)
          /\ billing[i].paidInterest = SumFunctionOnSet(InterestsOn(i), on)
          /\ billing[i].paidPrincipal = SumFunctionOnSet(PrincipalsOn(i), on)
      BY <2>1 DEF Tallied
    <3> HIDE DEF on
    <3>5. /\ SumFunctionOnSet(AmountsOn(i), on \ {p})
             = SumFunctionOnSet(AmountsOn(i), on) - AmountsOn(i)[p]
          /\ SumFunctionOnSet(FeesOn(i), on \ {p})
             = SumFunctionOnSet(FeesOn(i), on) - FeesOn(i)[p]
          /\ SumFunctionOnSet(InterestsOn(i), on \ {p})
             = SumFunctionOnSet(InterestsOn(i), on) - InterestsOn(i)[p]
          /\ SumFunctionOnSet(PrincipalsOn(i), on \ {p})
             = SumFunctionOnSet(PrincipalsOn(i), on) - PrincipalsOn(i)[p]
      BY <2>1, <3>2, SumLost
    <3>6. /\ billing'[i].paid = billing[i].paid - part[p][i].amount
          /\ billing'[i].paidFee = billing[i].paidFee - part[p][i].fee
          /\ billing'[i].paidInterest = billing[i].paidInterest - part[p][i].interest
          /\ billing'[i].paidPrincipal = billing[i].paidPrincipal - part[p][i].principal
      BY <1>1, <1>3, <2>3, TakenBack
    <3> QED BY <2>2, <3>1, <3>3, <3>4, <3>5, <3>6 DEF Tallied
  <2>4. CASE i \notin Allocated(p)
    <3>1. ConfirmedOn(i)' = on
      BY <1>1, <2>4 DEF ConfirmedOn, Allocated
    <3>2. PaysAs(billing[i], billing'[i])
      BY <1>3, <1>5, <2>4, Alike
    <3> QED BY <2>1, <2>2, <3>1, <3>2 DEF Tallied, PaysAs
  <2> QED BY <2>3, <2>4
<1>7. PaidIsAllocated'
  BY <1>6, Tally
<1>8. ASSUME NEW q \in Payments, NEW i \in Rows PROVE PartOK(q, i)'
  BY <1>1 DEF PInv, AccountsOK, PartOK
<1>9. PunctualPaysNoCharge'
  <2> SUFFICES ASSUME NEW q \in Payments, NEW i \in Rows,
                      payment'[q].status \in {"CONFIRMED", "REVERSED"},
                      payment'[q].date <= billing'[i].due, ~billing'[i].recomposed
               PROVE  part[q][i].fee = 0 /\ part[q][i].interest = 0
    BY <1>1 DEF PunctualPaysNoCharge
  <2>1. CASE i <= used
    BY <1>1, <1>4, <2>1 DEF PInv, AccountsOK, PunctualPaysNoCharge, Kin
  <2>2. CASE ~(i <= used)
    BY <2>2, NotYetPaid DEF NoPart
  <2> QED BY <2>1, <2>2
<1>10. CancelledPaidWasRenegotiated'
  <2> SUFFICES ASSUME NEW q \in Payments, NEW i \in Rows, payment'[q].status = "CONFIRMED",
                      i \in Allocated(q), billing'[i].status = "CANCELLED"
               PROVE  \E j \in Rows : billing'[j].source = i
    BY <1>1 DEF CancelledPaidWasRenegotiated, Allocated
  <2>1. i <= used /\ payment[q].status = "CONFIRMED"
    BY <1>1, <1>5
  <2>2. PICK j \in Rows : billing[j].source = i
    BY <1>4, <2>1 DEF PInv, AccountsOK, CancelledPaidWasRenegotiated
  <2>3. billing'[j].source = i
    BY <1>0, <1>4, <2>2, SourceKept DEF Kin
  <2> QED BY <2>3
<1>11. ASSUME NEW i \in Rows PROVE DuesOK(billing[i])'
  BY <1>4, <1>5
<1>12. HeldUnpaid'
  <2>1. \A i \in Rows \ Allocated(p) : billing'[i].paid = billing[i].paid
    BY <1>3, <1>5 DEF PaysAs
  <2> QED BY <1>1, <2>1, HeldTouched
<1> QED BY <1>7, <1>8, <1>9, <1>10, <1>11, <1>12 DEF AccountsOK

-------------------------------------------------------------------------------
(* The invariant of the accounts.                                          *)

LEMMA PInvStep == PInv /\ [Next]_vars => PInv'
<1> SUFFICES ASSUME PInv, [Next]_vars PROVE PInv'
  OBVIOUS
<1>1. RInv'
  BY NextInvariant DEF PInv
<1> SUFFICES AccountsOK'
  BY <1>1 DEF PInv
<1>2. ASSUME Quiet, HoldUnpaid PROVE AccountsOK'
  BY <1>1, <1>2, QuietStep DEF PInv
<1>3. CASE Tick
  BY <1>2, <1>3, QuietContracts
<1>4. CASE ContractStep
  <2>1. ASSUME NEW numbers \in SUBSET (1..contract.count), MaterializeBillings(numbers)
        PROVE  AccountsOK'
    <3>1. Materialized(Missing(numbers)) /\ UNCHANGED <<payment, part, hold>>
      BY <2>1 DEF MaterializeBillings
    <3> QED BY <1>2, <3>1, QuietMaterialization
  <2>2. CASE \E n \in Days : MaterializeBillings({n} \cap 1..contract.count)
    <3>1. PICK n \in Days : MaterializeBillings({n} \cap 1..contract.count)
      BY <2>2
    <3>2. {n} \cap 1..contract.count \in SUBSET (1..contract.count)
      OBVIOUS
    <3> QED BY <2>1, <3>1, <3>2
  <2>3. CASE MaterializeBillings(1..contract.count)
    <3>1. 1..contract.count \in SUBSET (1..contract.count)
      OBVIOUS
    <3> QED BY <2>1, <2>3, <3>1
  <2>4. CASE ActivateContract
    <3>1. Materialized(Missing(1..contract.count)) /\ UNCHANGED <<payment, part, hold>>
      BY <2>4 DEF ActivateContract
    <3>2. 1..contract.count \in SUBSET (1..contract.count)
      OBVIOUS
    <3> QED BY <1>2, <3>1, <3>2, QuietMaterialization
  <2>5. CASE \E from \in Days, count \in Counts, value \in Values :
                CreateAmendment(from, count, value)
    BY <1>2, <2>5, QuietAmendment
  <2>6. CASE \/ CreateContract \/ SuspendContract \/ BeginCloseContract \/ EndCloseContract
             \/ \E count \in Counts, value \in Values : UpdateContractDraft(count, value)
    BY <1>2, <2>6, QuietContracts
  <2>7. CASE BeginCancelContract \/ EndCancelContract
    BY <1>2, <2>7, QuietBeginCancel, QuietEndCancel
  <2> QED BY <1>4, <2>2, <2>3, <2>4, <2>5, <2>6, <2>7 DEF ContractStep
<1>5. CASE BillingStep
  <2>1. CASE \E value \in Values : CreateAdHocBilling(value, today)
    BY <1>2, <2>1, QuietAdHoc
  <2>2. CASE \E i \in Rows : CancelBilling(i) \/ AssessLateCharges(i)
    BY <1>2, <2>2, QuietCancelBilling, QuietAssessment
  <2>3. CASE \E i \in Rows, due \in NewDueDates, parts \in Parts, agreed \in Agreed :
                RenegotiateBilling(i, due, parts, agreed)
    BY <1>2, <2>3, QuietRenegotiation
  <2> QED BY <1>5, <2>1, <2>2, <2>3 DEF BillingStep
<1>6. CASE PaymentStep
  <2>1. PICK p \in Payments :
           \/ \E chosen \in SUBSET {i \in Rows : Open(billing[i])} \ {{}}, date \in Days :
                 \E amounts \in [chosen -> Amounts] : CreatePayment(p, amounts, date)
           \/ ConfirmPayment(p)
           \/ \E due \in NewDueDates : ReversePayment(p, due)
    BY <1>6 DEF PaymentStep
  <2>2. CASE \E chosen \in SUBSET {i \in Rows : Open(billing[i])} \ {{}}, date \in Days :
                \E amounts \in [chosen -> Amounts] : CreatePayment(p, amounts, date)
    <3>1. PICK chosen \in SUBSET {i \in Rows : Open(billing[i])} \ {{}}, date \in Days :
             \E amounts \in [chosen -> Amounts] : CreatePayment(p, amounts, date)
      BY <2>2
    <3>2. chosen \in SUBSET Rows
      OBVIOUS
    <3> QED BY <3>1, <3>2, CreatePaymentAccounts
  <2> QED BY <2>1, <2>2, ConfirmPaymentAccounts, ReversePaymentAccounts
<1>7. CASE UNCHANGED vars
  <2>1. UNCHANGED <<billing, payment, part, hold>>
    BY <1>7 DEF vars
  <2> QED BY <1>2, <2>1, QuietAside, HoldKept
<1> QED BY <1>3, <1>4, <1>5, <1>6, <1>7 DEF Next

\* The inductive invariant of titles, payments and the open cancellation.
THEOREM PaymentsInvariant == Spec => []PInv
BY PInvInit, PInvStep, PTL DEF Spec

\* The paid columns of every title are the sums of its conciliated and not
\* reversed allocations (confirm_payment, reverse_payment).
THEOREM PaidColumnsAllocated == Spec => []PaidIsAllocated
<1>1. PInv => PaidIsAllocated
  BY DEF PInv, AccountsOK
<1> QED BY <1>1, PaymentsInvariant, PTL

\* Nothing is paid beyond what is owed of it, whatever is assessed, undone or
\* taken back around it (confirm_payment, assess_late_charges).
THEOREM DebtNeverOverpaid == Spec => []PaidWithinDebt
<1>1. PInv => PaidWithinDebt
  BY DEF PInv, AccountsOK, DuesOK, PaidWithinDebt
<1> QED BY <1>1, PaymentsInvariant, PTL

\* A payment dated by the due date bears no charge, even when conciliated after
\* a later assessment (confirm_payment's reconciliation).
THEOREM PunctualWithoutCharges == Spec => []PunctualPaysNoCharge
<1>1. PInv => PunctualPaysNoCharge
  BY DEF PInv, AccountsOK
<1> QED BY <1>1, PaymentsInvariant, PTL

\* A title cancelled under a conciliated payment was renegotiated, although
\* cancel_contract chooses its titles without locking them.
THEOREM CancelledWasRenegotiated == Spec => []CancelledPaidWasRenegotiated
<1>1. PInv => CancelledPaidWasRenegotiated
  BY DEF PInv, AccountsOK
<1> QED BY <1>1, PaymentsInvariant, PTL

-------------------------------------------------------------------------------
(* What a reversal brings back.                                            *)

Claims == [i \in Rows |-> Claim(billing[i])]

\* The claim of a title the payment is taken back from, and the amount taken.
LEMMA ClaimRestored ==
    ASSUME PInv, NEW p \in Payments, payment[p].status = "CONFIRMED", NEW i \in Allocated(p)
    PROVE  LET d == Debited(billing[i], part[p][i])
           IN  /\ Claim(billing[i]) \in Nat /\ part[p][i].amount \in Nat
               /\ Claim(d) = IF i \in Orphans(p) THEN Claim(billing[i])
                             ELSE Claim(billing[i]) + part[p][i].amount
<1> DEFINE b == billing[i]
           c == part[p][i]
           d == Debited(b, c)
<1>1. /\ i \in Rows /\ c \in PartRows /\ c.amount <= b.paid /\ RowOK(b) /\ DuesOK(b) /\ DuesOK(d)
      /\ d.status = b.status /\ d.paid = b.paid - c.amount /\ Owed(d) = Owed(b)
  BY TakenBack
<1>2. b.status # "NONE"
  BY <1>1, AllocatedTitles DEF PInv
<1>3. i \in Orphans(p) <=> b.status = "CANCELLED"
  BY DEF Orphans
<1> HIDE DEF b, c, d
<1>4. /\ b.paid \in Nat /\ b.principal \in Nat /\ b.fee \in Nat /\ b.interest \in Nat
      /\ b.paidFee \in Nat /\ b.paidInterest \in Nat /\ b.paidPrincipal \in Nat
      /\ b.status \in {"NONE", "ACTIVE", "CANCELLED"} /\ c.amount \in Nat
  BY <1>1 DEF RowOK, BillingRows, PartRows
<1>5. Owed(b) \in Nat /\ b.paid <= Owed(b)
  BY <1>1, <1>4 DEF DuesOK, Owed
<1>6. Outstanding(b) = Owed(b) - b.paid /\ Outstanding(b) \in Nat
  BY <1>4, <1>5 DEF Outstanding, Pos
<1>7. Outstanding(d) = Owed(b) - (b.paid - c.amount)
  BY <1>1, <1>4, <1>5 DEF Outstanding, Pos
<1>8. Outstanding(d) = Outstanding(b) + c.amount
  BY <1>4, <1>5, <1>6, <1>7
<1>9. Claim(b) \in Nat
  BY <1>6 DEF Claim
<1>10. CASE b.status = "CANCELLED"
  BY <1>1, <1>3, <1>4, <1>9, <1>10 DEF Claim, b, c, d
<1>11. CASE b.status = "ACTIVE"
  BY <1>1, <1>3, <1>4, <1>8, <1>9, <1>11 DEF Claim, b, c, d
<1> QED BY <1>2, <1>4, <1>10, <1>11

\* A recomposed title claims the allocation it recomposes.
LEMMA ClaimRecomposed ==
    ASSUME PInv, NEW p \in Payments, payment[p].status = "CONFIRMED", NEW i \in Allocated(p), NEW due
    PROVE  Claim(Recomposition(part[p][i], due)) = part[p][i].amount
<1> DEFINE c == part[p][i]
           r == Recomposition(c, due)
<1>1. c \in PartRows /\ Whole(c)
  BY TakenBack
<1>2. /\ r.status = "ACTIVE" /\ r.principal = c.principal /\ r.fee = c.fee
      /\ r.interest = c.interest /\ r.paid = 0
  BY DEF Recomposition, NoRow
<1> HIDE DEF c, r
<1>3. /\ c.amount \in Nat /\ c.fee \in Nat /\ c.interest \in Nat /\ c.principal \in Nat
      /\ c.amount = c.fee + c.interest + c.principal
  BY <1>1 DEF PartRows, Whole
<1>4. Owed(r) = c.amount
  BY <1>2, <1>3 DEF Owed
<1>5. Outstanding(r) = c.amount
  BY <1>2, <1>3, <1>4 DEF Outstanding, Pos
<1> QED BY <1>2, <1>5 DEF Claim, c, r

LEMMA ClaimType == PInv => \A i \in Rows : Claim(billing[i]) \in Nat
<1> SUFFICES ASSUME PInv, NEW i \in Rows PROVE Claim(billing[i]) \in Nat
  OBVIOUS
<1>1. billing[i] \in BillingRows
  BY DEF PInv, RInv, TableOK
<1>2. Owed(billing[i]) \in Nat /\ billing[i].paid \in Nat
  BY <1>1 DEF BillingRows, Owed
<1>3. Outstanding(billing[i]) \in Nat
  BY <1>2 DEF Outstanding, Pos
<1> QED BY <1>3 DEF Claim

LEMMA ReversePaymentDebt ==
    ASSUME PInv, NEW p \in Payments, NEW due \in NewDueDates, ReversePayment(p, due)
    PROVE  Debt' = Debt + SumFunctionOnSet([i \in Rows |-> part[p][i].amount], Rows)
<1>0. RInv /\ payment[p].status = "CONFIRMED" /\ IsFiniteSet(Rows) /\ Orphans(p) \subseteq Rows
  BY RowIndex DEF ReversePayment, PInv, RInv, TableOK, Orphans, Allocated
<1>1. PICK at, rows, table : Reversed(p, due, at, rows, table)
  BY <1>0, ReversePaymentInserts
<1> DEFINE S == Orphans(p)
           New == {at[x] : x \in S}
           amount == [i \in Rows |-> part[p][i].amount]
           here == [i \in Rows |-> IF i \in S THEN 0 ELSE amount[i]]
           lost == [i \in Rows |-> IF i \in S THEN amount[i] ELSE 0]
           after == [i \in Rows |-> Claim(billing'[i])]
           again == [i \in Rows |-> IF i \in New THEN after[i] ELSE 0]
           kept == [i \in Rows |-> Claim(billing[i]) + here[i]]
<1>2. /\ \A i \in Allocated(p) : billing'[i] = Debited(billing[i], part[p][i])
      /\ \A i \in Rows \ Allocated(p) : i <= used => billing'[i] = billing[i]
      /\ \A x \in S : /\ at[x] \in Rows /\ ~(at[x] <= used)
                      /\ billing'[at[x]] = Recomposition(part[p][x], due)
      /\ \A i \in Rows : ~(i <= used) /\ (~\E x \in S : i = at[x]) => billing'[i] = NoRow
      /\ \A x, y \in S : at[x] = at[y] => x = y
  BY <1>0, <1>1, Restored
<1>3. \A i \in Rows : /\ amount[i] \in Nat /\ Claim(billing[i]) \in Nat
                      /\ i \notin Allocated(p) => amount[i] = 0
  BY <1>0, AllocatedTitles, ClaimType DEF PartRows
<1>4. \A x \in S : x \in Rows /\ after[at[x]] = amount[x] /\ at[x] \in New
  <2> SUFFICES ASSUME NEW x \in S PROVE x \in Rows /\ after[at[x]] = amount[x] /\ at[x] \in New
    OBVIOUS
  <2>1. x \in Allocated(p) /\ x \in Rows
    BY <1>0 DEF Orphans
  <2>2. at[x] \in Rows /\ billing'[at[x]] = Recomposition(part[p][x], due)
    BY <1>2
  <2>3. Claim(Recomposition(part[p][x], due)) = part[p][x].amount
    BY <1>0, <2>1, ClaimRecomposed
  <2>4. after[at[x]] = Claim(billing'[at[x]])
    BY <2>2
  <2>5. after[at[x]] = amount[x]
    BY <2>1, <2>2, <2>3, <2>4
  <2> QED BY <2>1, <2>5
<1>5. \A i \in Rows : again[i] \in Nat /\ (i \notin New => again[i] = 0)
  <2> SUFFICES ASSUME NEW i \in Rows PROVE again[i] \in Nat /\ (i \notin New => again[i] = 0)
    OBVIOUS
  <2>1. CASE i \in New
    <3>1. PICK x \in S : i = at[x]
      BY <2>1
    <3>2. amount[x] \in Nat /\ after[i] = amount[x]
      BY <1>3, <1>4, <3>1
    <3> QED BY <2>1, <3>2
  <2>2. CASE i \notin New
    BY <2>2
  <2> QED BY <2>1, <2>2
<1>6. ASSUME NEW i \in Rows PROVE after[i] = kept[i] + again[i]
  <2>1. CASE i \in Allocated(p)
    <3>1. i <= used /\ i \notin New
      BY <1>0, <1>2, <2>1, TakenBack
    <3>2. after[i] = Claim(Debited(billing[i], part[p][i])) /\ again[i] = 0
      BY <1>2, <2>1, <3>1
    <3>3. Claim(Debited(billing[i], part[p][i]))
          = IF i \in S THEN Claim(billing[i]) ELSE Claim(billing[i]) + part[p][i].amount
      BY <1>0, <2>1, ClaimRestored
    <3>4. kept[i] = IF i \in S THEN Claim(billing[i]) ELSE Claim(billing[i]) + part[p][i].amount
      BY <1>3
    <3> QED BY <1>3, <3>2, <3>3, <3>4
  <2>2. CASE i \notin Allocated(p)
    <3>1. kept[i] = Claim(billing[i])
      BY <1>3, <2>2 DEF Orphans
    <3>2. CASE i <= used
      BY <1>2, <1>3, <2>2, <3>1, <3>2
    <3>3. CASE ~(i <= used)
      <4>1. billing[i] = NoRow /\ Claim(NoRow) = 0
        BY <3>3, NotYetPaid DEF Claim, NoRow
      <4>2. CASE i \in New
        BY <1>3, <1>5, <3>1, <4>1, <4>2
      <4>3. CASE i \notin New
        BY <1>2, <1>3, <3>1, <3>3, <4>1, <4>3
      <4> QED BY <4>2, <4>3
    <3> QED BY <3>2, <3>3
  <2> QED BY <2>1, <2>2
<1>7. /\ New \in SUBSET Rows /\ S \in SUBSET Rows /\ IsFiniteSet(S)
      /\ \A i \in Rows : /\ here[i] \in Nat /\ lost[i] \in Nat /\ kept[i] \in Nat
                         /\ amount[i] = here[i] + lost[i]
                         /\ kept[i] = Claims[i] + here[i] /\ Claims[i] \in Nat
      /\ \A i \in Rows \ S : lost[i] = 0
      /\ \A i \in S : lost[i] \in Nat /\ again[at[i]] = lost[i]
  <2>1. IsFiniteSet(S)
    BY <1>0, FS_Subset
  <2>2. New \in SUBSET Rows /\ S \in SUBSET Rows
    BY <1>0, <1>2
  <2>3. ASSUME NEW i \in Rows
        PROVE  /\ here[i] \in Nat /\ lost[i] \in Nat /\ amount[i] = here[i] + lost[i]
               /\ i \notin S => lost[i] = 0
    <3>1. amount[i] \in Nat
      BY <1>3
    <3> HIDE DEF S, amount
    <3> QED BY <3>1
  <2>4. ASSUME NEW i \in Rows
        PROVE  kept[i] = Claims[i] + here[i] /\ Claims[i] \in Nat /\ kept[i] \in Nat
    <3>1. Claims[i] = Claim(billing[i]) /\ Claims[i] \in Nat /\ here[i] \in Nat
      BY <1>3, <2>3 DEF Claims
    <3>2. kept[i] = Claim(billing[i]) + here[i]
      OBVIOUS
    <3> QED BY <3>1, <3>2
  <2>5. ASSUME NEW i \in S PROVE lost[i] \in Nat /\ again[at[i]] = lost[i]
    <3>1. i \in Rows /\ at[i] \in Rows /\ at[i] \in New /\ after[at[i]] = amount[i]
      BY <1>2, <1>4
    <3>2. lost[i] = amount[i] /\ again[at[i]] = after[at[i]]
      <4> HIDE DEF S, New, amount, after
      <4> QED BY <3>1
    <3> QED BY <2>3, <3>1, <3>2
  <2> HIDE DEF S, New, amount, here, lost, after, again, kept
  <2> QED BY <2>1, <2>2, <2>3, <2>4, <2>5
<1>8. Debt' = SumFunctionOnSet(after, Rows) /\ Debt = SumFunctionOnSet(Claims, Rows)
  BY DEF Debt, Claims
<1> HIDE DEF S, New, amount, here, lost, after, again, kept
<1>9. SumFunctionOnSet(after, Rows) = SumFunctionOnSet(kept, Rows) + SumFunctionOnSet(again, Rows)
  BY <1>0, <1>5, <1>6, <1>7, SumPlus
<1>10. SumFunctionOnSet(kept, Rows) = SumFunctionOnSet(Claims, Rows) + SumFunctionOnSet(here, Rows)
  BY <1>0, <1>7, SumPlus
<1>11. SumFunctionOnSet(amount, Rows) = SumFunctionOnSet(here, Rows) + SumFunctionOnSet(lost, Rows)
  BY <1>0, <1>7, SumPlus
<1>12. SumFunctionOnSet(again, Rows) = SumFunctionOnSet(again, New)
  BY <1>0, <1>5, <1>7, SumSupport
<1>13. SumFunctionOnSet(lost, Rows) = SumFunctionOnSet(lost, S)
  BY <1>0, <1>7, SumSupport
<1>14. SumFunctionOnSet(again, New) = SumFunctionOnSet(lost, S)
  BY <1>2, <1>7, SumRenamed DEF New
<1>15. /\ SumFunctionOnSet(Claims, Rows) \in Nat /\ SumFunctionOnSet(here, Rows) \in Nat
       /\ SumFunctionOnSet(lost, Rows) \in Nat
  BY <1>0, <1>7, SumType
<1>16. Debt' = Debt + SumFunctionOnSet(amount, Rows)
  BY <1>8, <1>9, <1>10, <1>11, <1>12, <1>13, <1>14, <1>15
<1> QED BY <1>16 DEF amount

\* Reversing a payment brings back exactly its amount of debt, on its titles or
\* on recomposed ones, and no other command reverses one (reverse_payment).
THEOREM ReversalsRestoreDebt == Spec => ReversalRestoresDebt
<1> DEFINE A == \A p \in Payments :
                   payment[p].status = "CONFIRMED" /\ payment'[p].status # "CONFIRMED"
                   => /\ payment'[p].status = "REVERSED"
                      /\ Debt' = Debt + SumFunctionOnSet([i \in Rows |-> part[p][i].amount], Rows)
<1>1. PInv /\ [Next]_vars => A
  <2> SUFFICES ASSUME PInv, [Next]_vars, NEW p \in Payments, payment[p].status = "CONFIRMED",
                      payment'[p].status # "CONFIRMED"
               PROVE  /\ payment'[p].status = "REVERSED"
                      /\ Debt' = Debt + SumFunctionOnSet([i \in Rows |-> part[p][i].amount], Rows)
    OBVIOUS
  <2>1. payment' # payment /\ payment \in [Payments -> [status : {"NONE", "PENDING", "CONFIRMED",
                                                                  "REVERSED"},
                                                        date : 0..LastDay, receipt : Nat]]
    BY DEF PInv, RInv, PlainOK
  <2>2. PaymentStep
    BY <2>1 DEF Next, vars, Tick, ContractStep, CreateContract, UpdateContractDraft,
       ActivateContract, MaterializeBillings, SuspendContract, CreateAmendment,
       BeginCancelContract, EndCancelContract, BeginCloseContract, EndCloseContract,
       BillingStep, CreateAdHocBilling, CancelBilling, AssessLateCharges, RenegotiateBilling
  <2>3. PICK q \in Payments :
           \/ \E chosen \in SUBSET {i \in Rows : Open(billing[i])} \ {{}}, date \in Days :
                 \E amounts \in [chosen -> Amounts] : CreatePayment(q, amounts, date)
           \/ ConfirmPayment(q)
           \/ \E due \in NewDueDates : ReversePayment(q, due)
    BY <2>2 DEF PaymentStep
  <2>4. PICK due \in NewDueDates : ReversePayment(q, due)
    <3>1. ASSUME NEW amounts, NEW date, CreatePayment(q, amounts, date) PROVE FALSE
      BY <2>1, <3>1 DEF CreatePayment
    <3>2. ASSUME ConfirmPayment(q) PROVE FALSE
      BY <2>1, <3>2 DEF ConfirmPayment
    <3> QED BY <2>3, <3>1, <3>2
  <2>5. q = p /\ payment'[p].status = "REVERSED"
    BY <2>1, <2>4 DEF ReversePayment
  <2> QED BY <2>4, <2>5, ReversePaymentDebt
<1> QED BY <1>1, PaymentsInvariant, PTL DEF Spec, ReversalRestoresDebt
=============================================================================
