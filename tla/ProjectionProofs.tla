--------------------------- MODULE ProjectionProofs ---------------------------
(***************************************************************************)
(* Proofs about the reporting projections.                                 *)
(***************************************************************************)
EXTENDS Projections, FiniteSetTheorems, TLAPS

\* A set of natural numbers has a least member.
LEMMA LeastNatural ==
  ASSUME NEW T \in SUBSET Nat, T # {}
  PROVE  \E n \in T : \A m \in T : n <= m
<1>1. PICK n \in T : \A m \in T : ~ (<<m, n>> \in OpToRel(<, Nat))
  BY NatLessThanWellFounded, WFMin
<1>2. \A m \in T : ~ (m < n)
  BY <1>1 DEF OpToRel
<1> QED
  BY <1>2

\* Induction over a finite set, with the property as a set of sets: one that holds
\* the empty set, and with a set also that set and one element of S more, holds S.
LEMMA FiniteInduction ==
  ASSUME NEW S, IsFiniteSet(S), NEW Q, {} \in Q, \A T \in Q : \A x \in S : T \cup {x} \in Q
  PROVE  S \in Q
<1>1. PICK n \in Nat : ExistsBijection(1..n, S)
  BY FS_CardinalityType
<1>2. PICK f \in Bijection(1..n, S) : TRUE
  BY <1>1 DEF ExistsBijection
<1>3. f \in [1..n -> S] /\ \A x \in S : \E i \in 1..n : f[i] = x
  BY <1>2 DEF Bijection, Surjection, Injection
<1> DEFINE First(k) == {f[i] : i \in 1..k}
           Bad == {k \in 0..n : First(k) \notin Q}
<1>4. First(0) = {} /\ First(n) = S
  BY <1>1, <1>3
<1>5. ASSUME NEW k \in 1..n PROVE First(k) = First(k - 1) \cup {f[k]} /\ f[k] \in S
  BY <1>1, <1>3
<1> HIDE DEF First
<1>6. Bad \in SUBSET Nat
  BY <1>1
<1>7. Bad = {}
  <2> SUFFICES ASSUME Bad # {} PROVE FALSE
    OBVIOUS
  <2>1. PICK k \in Bad : \A m \in Bad : k <= m
    <3> HIDE DEF Bad
    <3> QED
      BY <1>6, LeastNatural
  <2>2. k \in 1..n /\ k - 1 \in 0..n
    BY <2>1, <1>1, <1>4
  <2>3. First(k - 1) \in Q
    BY <2>1, <2>2, <1>1
  <2> QED
    BY <2>1, <2>2, <2>3, <1>5
<1>8. n \in 0..n
  BY <1>1
<1>9. First(n) \in Q
  BY <1>7, <1>8
<1> QED
  BY <1>4, <1>9


\* A finite set of natural numbers that is not empty has a greatest member.
LEMMA MaxOfFinite ==
  ASSUME NEW S \in SUBSET Nat, IsFiniteSet(S), S # {}
  PROVE  Max(S) \in S /\ \A n \in S : n <= Max(S)
<1> DEFINE Q == {T \in SUBSET S : T # {} => \E m \in T : \A n \in T : m >= n}
<1>1. {} \in Q
  OBVIOUS
<1>2. ASSUME NEW T \in Q, NEW x \in S PROVE T \cup {x} \in Q
  <2>1. CASE T = {}
    BY <2>1
  <2>2. CASE T # {}
    <3>1. PICK m \in T : \A n \in T : m >= n
      BY <2>2
    <3>2. m \in Nat /\ x \in Nat /\ T \subseteq Nat
      BY <3>1
    <3>3. CASE x >= m
      BY <3>1, <3>2, <3>3
    <3>4. CASE m >= x
      BY <3>1, <3>2, <3>4
    <3> QED
      BY <3>2, <3>3, <3>4
  <2> QED
    BY <2>1, <2>2
<1>3. S \in Q
  <2> HIDE DEF Q
  <2> QED
    BY <1>1, <1>2, FiniteInduction
<1>4. \E m \in S : \A n \in S : m >= n
  BY <1>3
<1> QED
  BY <1>4 DEF Max

-----------------------------------------------------------------------------
(* Sums.  The amounts of a set of journals are counted in units, debited   *)
(* ones and credited ones: a set of units, unlike a sum, has a cardinality *)
(* to reason with, and the sum of the model turns out to be their          *)
(* difference, in whatever order it is taken.                              *)

Units(S, f) == UNION {{j} \X (1..f[j]) : j \in S}
Amount(a) == [j \in Journals |-> j.amount[a]]
Credit(a) == [j \in Journals |-> - j.amount[a]]
Count(a, S) == Cardinality(Units(S, Amount(a))) - Cardinality(Units(S, Credit(a)))
Total(a, S) == MapThenSumSet(LAMBDA j : j.amount[a], S)

\* The units of an amount are as many as the amount, and none of a negative one.
LEMMA UnitsOfOne ==
  ASSUME NEW n \in Int, NEW x
  PROVE  /\ IsFiniteSet({x} \X (1..n))
         /\ Cardinality({x} \X (1..n)) = IF n > 0 THEN n ELSE 0
<1>1. IsFiniteSet({x}) /\ Cardinality({x}) = 1
  BY FS_Singleton
<1>2. IsFiniteSet(1..n) /\ Cardinality(1..n) = IF 1 > n THEN 0 ELSE n - 1 + 1
  BY FS_Interval
<1>3. /\ IsFiniteSet({x} \X (1..n))
      /\ Cardinality({x} \X (1..n)) = Cardinality({x}) * Cardinality(1..n)
  BY <1>1, <1>2, FS_Product
<1> QED
  BY <1>1, <1>2, <1>3

\* The units of one more journal are new ones.
LEMMA UnitsOfMore ==
  ASSUME NEW f \in [Journals -> Int], NEW S \in SUBSET Journals, NEW x \in Journals \ S,
         IsFiniteSet(Units(S, f))
  PROVE  /\ IsFiniteSet(Units(S \cup {x}, f))
         /\ Cardinality(Units(S \cup {x}, f)) =
              Cardinality(Units(S, f)) + (IF f[x] > 0 THEN f[x] ELSE 0)
<1> DEFINE U == Units(S, f)
           V == {x} \X (1..f[x])
<1>1. Units(S \cup {x}, f) = U \cup V
  BY DEF Units
<1>2. U \cap V = {}
  BY DEF Units
<1>3. IsFiniteSet(V) /\ Cardinality(V) = IF f[x] > 0 THEN f[x] ELSE 0
  BY UnitsOfOne
<1> HIDE DEF U, V
<1>4. IsFiniteSet(U)
  BY DEF U
<1>5. /\ IsFiniteSet(U \cup V)
      /\ Cardinality(U \cup V) = Cardinality(U) + Cardinality(V) - Cardinality(U \cap V)
  BY <1>3, <1>4, FS_Union
<1>6. Cardinality(U \cap V) = 0 /\ Cardinality(U) \in Nat /\ Cardinality(V) \in Nat
  BY <1>2, <1>3, <1>4, FS_EmptySet, FS_CardinalityType
<1>7. IsFiniteSet(U \cup V) /\ Cardinality(U \cup V) = Cardinality(U) + (IF f[x] > 0 THEN f[x] ELSE 0)
  <2>1. f[x] \in Int
    OBVIOUS
  <2> QED
    BY <1>3, <1>5, <1>6, <2>1
<1> QED
  BY <1>1, <1>7 DEF U

\* A finite set of journals has finitely many units.
LEMMA UnitsFinite ==
  ASSUME NEW f \in [Journals -> Int], NEW S \in SUBSET Journals, IsFiniteSet(S)
  PROVE  IsFiniteSet(Units(S, f)) /\ Cardinality(Units(S, f)) \in Nat
<1> DEFINE Q == {T \in SUBSET S : IsFiniteSet(Units(T, f))}
<1>1. {} \in Q
  <2>1. Units({}, f) = {}
    BY DEF Units
  <2> QED
    BY <2>1, FS_EmptySet
<1>2. ASSUME NEW T \in Q, NEW x \in S PROVE T \cup {x} \in Q
  <2>1. CASE x \in T
    <3>1. T \cup {x} = T
      BY <2>1
    <3> QED
      BY <3>1
  <2>2. CASE x \notin T
    BY <2>2, UnitsOfMore
  <2> QED
    BY <2>1, <2>2
<1>3. S \in Q
  <2> HIDE DEF Q
  <2> QED
    BY <1>1, <1>2, FiniteInduction
<1> QED
  BY <1>3, FS_CardinalityType

\* The count of no journals is 0, and one more journal adds its amount.
LEMMA CountAdds ==
  ASSUME NEW a \in BalanceAccounts
  PROVE  /\ Count(a, {}) = 0
         /\ \A S \in SUBSET Journals : IsFiniteSet(S) =>
              /\ Count(a, S) \in Int
              /\ \A x \in Journals \ S : Count(a, S \cup {x}) = Count(a, S) + x.amount[a]
<1>1. /\ Amount(a) \in [Journals -> Int] /\ \A j \in Journals : Amount(a)[j] = j.amount[a]
      /\ Credit(a) \in [Journals -> Int] /\ \A j \in Journals : Credit(a)[j] = - j.amount[a]
      /\ \A j \in Journals : j.amount[a] \in Int
  BY ProjectionsAssumption DEF Amount, Credit
<1>2. Count(a, {}) = 0
  <2>1. Units({}, Amount(a)) = {} /\ Units({}, Credit(a)) = {}
    BY DEF Units
  <2> QED
    BY <2>1, FS_EmptySet DEF Count
<1>3. ASSUME NEW S \in SUBSET Journals, IsFiniteSet(S)
      PROVE  /\ Count(a, S) \in Int
             /\ \A x \in Journals \ S : Count(a, S \cup {x}) = Count(a, S) + x.amount[a]
  <2>1. /\ IsFiniteSet(Units(S, Amount(a))) /\ Cardinality(Units(S, Amount(a))) \in Nat
        /\ IsFiniteSet(Units(S, Credit(a))) /\ Cardinality(Units(S, Credit(a))) \in Nat
    BY <1>1, <1>3, UnitsFinite
  <2>2. ASSUME NEW x \in Journals \ S
        PROVE  Count(a, S \cup {x}) = Count(a, S) + x.amount[a]
    <3>1. Cardinality(Units(S \cup {x}, Amount(a))) =
            Cardinality(Units(S, Amount(a))) + (IF x.amount[a] > 0 THEN x.amount[a] ELSE 0)
      BY <1>1, <2>1, UnitsOfMore
    <3>2. Cardinality(Units(S \cup {x}, Credit(a))) =
            Cardinality(Units(S, Credit(a))) + (IF - x.amount[a] > 0 THEN - x.amount[a] ELSE 0)
      BY <1>1, <2>1, UnitsOfMore
    <3> QED
      BY <1>1, <2>1, <3>1, <3>2 DEF Count
  <2> QED
    BY <2>1, <2>2 DEF Count
<1> QED
  BY <1>2, <1>3

\* The function that MapThenFoldSet recurs on, over the subsets of S.
Sums(a, S, g) ==
  g = [s \in SUBSET S |-> IF s = {} THEN 0
                          ELSE (CHOOSE x \in s : TRUE).amount[a] + g[s \ {CHOOSE x \in s : TRUE}]]

\* The sum of a set is the value of such a function, when there is one.
LEMMA TotalRecurs ==
  ASSUME NEW a, NEW S, NEW h, Sums(a, S, h)
  PROVE  \E g : Sums(a, S, g) /\ Total(a, S) = g[S]
<1> DEFINE iter == CHOOSE g : Sums(a, S, g)
<1>1. Sums(a, S, iter)
  OBVIOUS
<1>2. Total(a, S) = iter[S]
  BY DEF Total, MapThenSumSet, MapThenFoldSet, Sums
<1> QED
  BY <1>1, <1>2

\* A subset of S has an element that the choice of the sum takes from it.
LEMMA Chosen ==
  ASSUME NEW s, s # {}
  PROVE  (CHOOSE x \in s : TRUE) \in s
OBVIOUS

\* The sum of the amounts of finitely many journals is their count.
LEMMA TotalIsCount ==
  ASSUME NEW a \in BalanceAccounts, NEW S \in SUBSET Journals, IsFiniteSet(S)
  PROVE  Total(a, S) = Count(a, S)
<1> DEFINE pick(s) == CHOOSE x \in s : TRUE
           less(s) == s \ {pick(s)}
<1>1. ASSUME NEW s \in SUBSET S, s # {}
      PROVE  /\ pick(s) \in s /\ less(s) \in SUBSET S /\ IsFiniteSet(s)
             /\ Cardinality(s) \in Nat /\ Cardinality(less(s)) \in Nat
             /\ Cardinality(less(s)) < Cardinality(s)
             /\ Count(a, s) = pick(s).amount[a] + Count(a, less(s))
  <2>1. pick(s) \in s
    BY <1>1, Chosen
  <2> HIDE DEF pick
  <2>2. IsFiniteSet(s)
    BY FS_Subset
  <2>3. IsFiniteSet(less(s)) /\ Cardinality(less(s)) = Cardinality(s) - 1
    BY <2>1, <2>2, FS_RemoveElement
  <2>4. Cardinality(s) \in Nat /\ Cardinality(less(s)) \in Nat
    BY <2>2, <2>3, FS_CardinalityType
  <2>5. /\ less(s) \in SUBSET Journals /\ pick(s) \in Journals \ less(s)
        /\ less(s) \cup {pick(s)} = s /\ less(s) \in SUBSET S
    BY <2>1
  <2> HIDE DEF less
  <2>6. Count(a, less(s) \cup {pick(s)}) = Count(a, less(s)) + pick(s).amount[a]
        /\ Count(a, less(s)) \in Int
    BY <2>3, <2>5, CountAdds
  <2>7. pick(s).amount[a] \in Int
    BY <2>5, ProjectionsAssumption
  <2>8. Count(a, s) = pick(s).amount[a] + Count(a, less(s))
    <3>1. Count(a, s) = Count(a, less(s) \cup {pick(s)})
      BY <2>5, Zenon
    <3> QED
      BY <2>6, <2>7, <3>1
  <2> QED
    BY <2>1, <2>2, <2>3, <2>4, <2>5, <2>8
<1>2. Count(a, {}) = 0
  BY CountAdds
<1> DEFINE h == [s \in SUBSET S |-> Count(a, s)]
<1>3. Sums(a, S, h)
  <2>1. \A s \in SUBSET S :
          h[s] = IF s = {} THEN 0 ELSE pick(s).amount[a] + h[less(s)]
    <3> SUFFICES ASSUME NEW s \in SUBSET S
                 PROVE  h[s] = IF s = {} THEN 0 ELSE pick(s).amount[a] + h[less(s)]
      OBVIOUS
    <3> HIDE DEF pick, less
    <3> QED
      BY <1>1, <1>2
  <2>2. h = [s \in SUBSET S |-> h[s]]
    OBVIOUS
  <2> HIDE DEF h
  <2> QED
    BY <2>1, <2>2 DEF Sums
<1>4. PICK g : Sums(a, S, g) /\ Total(a, S) = g[S]
  BY <1>3, TotalRecurs
<1>5. \A s \in SUBSET S : g[s] = IF s = {} THEN 0 ELSE pick(s).amount[a] + g[less(s)]
  BY <1>4 DEF Sums
<1> HIDE DEF pick, less
<1> DEFINE Wrong == {s \in SUBSET S : g[s] # Count(a, s)}
           Sizes == {Cardinality(s) : s \in Wrong}
<1>6. Wrong = {}
  <2> SUFFICES ASSUME Wrong # {} PROVE FALSE
    OBVIOUS
  <2>1. \A s \in SUBSET S : IsFiniteSet(s) /\ Cardinality(s) \in Nat
    BY FS_Subset, FS_CardinalityType
  <2>2. Sizes \in SUBSET Nat /\ Sizes # {}
    BY <2>1
  <2>3. PICK n \in Sizes : \A m \in Sizes : n <= m
    <3> HIDE DEF Sizes
    <3> QED
      BY <2>2, LeastNatural
  <2>4. PICK s \in Wrong : n = Cardinality(s)
    BY <2>3
  <2>5. s # {}
    BY <2>4, <1>2, <1>5
  <2>6. less(s) \notin Wrong
    <3>1. s \in SUBSET S /\ Cardinality(less(s)) < n
      BY <2>4, <2>5, <1>1
    <3>2. less(s) \in Wrong => Cardinality(less(s)) \in Sizes
      OBVIOUS
    <3>3. n \in Nat /\ Sizes \subseteq Nat
      BY <2>2, <2>3
    <3> HIDE DEF Wrong, Sizes
    <3>4. ASSUME NEW m \in Sizes PROVE ~ (m < n)
      BY <2>3, <3>3
    <3> QED
      BY <3>1, <3>2, <3>4, Zenon
  <2> QED
    BY <2>4, <2>5, <2>6, <1>1, <1>5
<1> QED
  BY <1>4, <1>6

\* The sum of no journals is 0, and one more journal adds its amount.
LEMMA TotalAdds ==
  ASSUME NEW a \in BalanceAccounts, NEW S \in SUBSET Journals, IsFiniteSet(S)
  PROVE  /\ Total(a, {}) = 0 /\ Total(a, S) \in Int
         /\ \A x \in Journals \ S : Total(a, S \cup {x}) = Total(a, S) + x.amount[a]
<1>1. Total(a, {}) = Count(a, {})
  <2>1. IsFiniteSet({})
    BY FS_EmptySet
  <2> QED
    BY <2>1, TotalIsCount
<1>2. Total(a, S) = Count(a, S)
  BY TotalIsCount
<1>3. ASSUME NEW x \in Journals \ S PROVE Total(a, S \cup {x}) = Count(a, S \cup {x})
  <2>1. IsFiniteSet(S \cup {x})
    BY FS_AddElement
  <2> QED
    BY <2>1, TotalIsCount
<1> QED
  BY <1>1, <1>2, <1>3, CountAdds

-----------------------------------------------------------------------------
(* The balances.                                                           *)

\* Every journal is posted on or before the last date.
LEMMA LastDateLast ==
  ASSUME NEW j \in Journals
  PROVE  j.on \in Nat /\ LastDate \in Nat /\ j.on <= LastDate
<1>1. j.on \in Dates /\ Dates \in SUBSET Nat /\ IsFiniteSet(Dates)
  BY ProjectionsAssumption
<1>2. Max(Dates) \in Dates /\ \A n \in Dates : n <= Max(Dates)
  BY <1>1, MaxOfFinite
<1> QED
  BY <1>1, <1>2 DEF LastDate

\* Authoritative is a total.
LEMMA AuthoritativeTotal ==
  \A a, asOf : Authoritative(a, asOf) = Total(a, Touching(a, asOf))
BY DEF Authoritative, Total

\* So is what it says after a step.
LEMMA NextAuthoritative ==
  \A a \in BalanceAccounts : Authoritative(a, LastDate)' = Total(a, Touching(a, LastDate)')
BY DEF Authoritative, Total, LastDate, MapThenSumSet, MapThenFoldSet

\* It says the same as long as the ledger does not change.
LEMMA SameLedger ==
  ASSUME UNCHANGED ledger, NEW a \in BalanceAccounts
  PROVE  /\ Touching(a, LastDate)' = Touching(a, LastDate)
         /\ Authoritative(a, LastDate)' = Authoritative(a, LastDate)
<1>1. Touching(a, LastDate)' = Touching(a, LastDate)
  BY DEF Touching, LastDate
<1>2. Total(a, Touching(a, LastDate)') = Total(a, Touching(a, LastDate))
  BY <1>1, Zenon
<1> QED
  BY <1>1, <1>2, AuthoritativeTotal, NextAuthoritative

\* A posting adds its amount to what the ledger says of its accounts, and to no other.
LEMMA PostingAdds ==
  ASSUME ProjectionTypeOK, NEW j \in Journals \ ledger, ledger' = ledger \cup {j},
         NEW a \in BalanceAccounts
  PROVE  /\ j.amount[a] = 0 => /\ Touching(a, LastDate)' = Touching(a, LastDate)
                               /\ Authoritative(a, LastDate)' = Authoritative(a, LastDate)
         /\ j.amount[a] # 0 => /\ Touching(a, LastDate)' # {}
                               /\ Authoritative(a, LastDate)' = Authoritative(a, LastDate) + j.amount[a]
         /\ Authoritative(a, LastDate) \in Int
         /\ Touching(a, LastDate) = {} => Authoritative(a, LastDate) = 0
<1> DEFINE Here == Touching(a, LastDate)
<1>1. ledger \subseteq Journals /\ IsFiniteSet(ledger)
  BY DEF ProjectionTypeOK
<1>2. Here \in SUBSET Journals /\ j \in Journals \ Here /\ Here \subseteq ledger
  BY <1>1 DEF Touching
<1>3. IsFiniteSet(Here)
  BY <1>1, <1>2, FS_Subset
<1>4. Touching(a, LastDate)' = IF j.amount[a] = 0 THEN Here ELSE Here \cup {j}
  BY LastDateLast DEF Touching, LastDate
<1>5. Authoritative(a, LastDate) = Total(a, Here)
  BY AuthoritativeTotal
<1>6. Authoritative(a, LastDate)' = Total(a, Touching(a, LastDate)')
  BY NextAuthoritative
<1> HIDE DEF Here
<1>7. /\ Total(a, {}) = 0 /\ Total(a, Here) \in Int
      /\ Total(a, Here \cup {j}) = Total(a, Here) + j.amount[a]
  BY <1>2, <1>3, TotalAdds
<1>8. CASE j.amount[a] = 0
  <2>1. Touching(a, LastDate)' = Here
    BY <1>4, <1>8
  <2>2. Total(a, Touching(a, LastDate)') = Total(a, Here)
    BY <2>1, Zenon
  <2> QED
    BY <1>5, <1>6, <1>7, <1>8, <2>1, <2>2, Zenon DEF Here
<1>9. CASE j.amount[a] # 0
  <2>1. Touching(a, LastDate)' = Here \cup {j}
    BY <1>4, <1>9
  <2>2. Total(a, Touching(a, LastDate)') = Total(a, Here \cup {j})
    BY <2>1, Zenon
  <2>3. Touching(a, LastDate)' # {}
    BY <2>1
  <2> QED
    BY <1>5, <1>6, <1>7, <1>9, <2>2, <2>3, Zenon DEF Here
<1> QED
  BY <1>8, <1>9

\* A row stays a row when amounts are added to it.
LEMMA AddedRow ==
  ASSUME NEW row \in Row \cup {Missing}, NEW on \in Nat, NEW native \in Int, NEW reporting \in Int
  PROVE  /\ Added(row, on, native, reporting) \in Row
         /\ Added(row, on, native, reporting) # Missing
         /\ row = Missing => /\ Added(row, on, native, reporting).native = native
                             /\ Added(row, on, native, reporting).reporting = reporting
         /\ row # Missing => /\ Added(row, on, native, reporting).native = row.native + native
                             /\ Added(row, on, native, reporting).reporting = row.reporting + reporting
<1>1. Missing \notin Row
  BY ProjectionsAssumption DEF Row
<1>2. CASE row = Missing
  BY <1>1, <1>2 DEF Added, Row
<1>3. CASE row # Missing
  <2>1. row \in Row /\ row.asOf \in Nat /\ row.native \in Int /\ row.reporting \in Int
    BY <1>3 DEF Row
  <2>2. Max({row.asOf, on}) \in Nat
    <3>1. {row.asOf, on} \in SUBSET Nat /\ {row.asOf, on} # {}
      BY <2>1
    <3>2. IsFiniteSet({row.asOf} \cup {on})
      BY FS_Singleton, FS_AddElement
    <3>3. {row.asOf} \cup {on} = {row.asOf, on}
      OBVIOUS
    <3>4. IsFiniteSet({row.asOf, on})
      BY <3>2, <3>3, Zenon
    <3> QED
      BY <3>1, <3>4, MaxOfFinite
  <2> QED
    BY <1>1, <1>3, <2>1, <2>2 DEF Added, Row
<1> QED
  BY <1>2, <1>3

\* What a posting does to the row of an account.
LEMMA PostedRows ==
  ASSUME ProjectionTypeOK, NEW j \in Journals, ApplyJournal(j), NEW a \in BalanceAccounts
  PROVE  /\ balances'[a] \in Row \cup {Missing}
         /\ j.amount[a] = 0 => balances'[a] = balances[a]
         /\ j.amount[a] # 0 =>
              /\ balances'[a] # Missing
              /\ balances'[a].native = j.amount[a] + (IF balances[a] = Missing THEN 0 ELSE balances[a].native)
              /\ a \notin Foreign =>
                   balances'[a].reporting =
                     j.amount[a] + (IF balances[a] = Missing THEN 0 ELSE balances[a].reporting)
<1> DEFINE row == balances[a]
           more == j.amount[a]
           new == Added(row, j.on, more, Reported(a, more))
<1>1. more \in Int
  BY ProjectionsAssumption
<1>2. j.on \in Nat
  BY ProjectionsAssumption
<1>3. row \in Row \cup {Missing}
  BY DEF ProjectionTypeOK
<1>4. Reported(a, more) \in Int /\ (a \notin Foreign => Reported(a, more) = more)
  BY <1>1 DEF Reported
<1>5. balances'[a] = IF more = 0 THEN row ELSE new
  BY DEF ApplyJournal
<1> HIDE DEF more, row
<1>6. /\ new \in Row /\ new # Missing
      /\ row = Missing => new.native = more /\ new.reporting = Reported(a, more)
      /\ row # Missing => new.native = row.native + more /\ new.reporting = row.reporting + Reported(a, more)
  BY <1>1, <1>2, <1>3, <1>4, AddedRow
<1>7. row # Missing => row.native \in Int /\ row.reporting \in Int
  BY <1>3 DEF Row
<1> HIDE DEF new
<1>8. CASE more = 0
  BY <1>3, <1>5, <1>8 DEF more, row
<1>9. CASE more # 0
  <2>1. balances'[a] = new
    BY <1>5, <1>9
  <2>2. new.native = more + (IF row = Missing THEN 0 ELSE row.native)
    BY <1>1, <1>6, <1>7
  <2>3. a \notin Foreign => new.reporting = more + (IF row = Missing THEN 0 ELSE row.reporting)
    BY <1>1, <1>4, <1>6, <1>7
  <2> QED
    BY <1>6, <1>9, <2>1, <2>2, <2>3, Zenon DEF more, row
<1> QED
  BY <1>8, <1>9

\* A posting and its amounts keep the rows and the ledger together.
LEMMA PostInv ==
  ASSUME ProjectionInv, NEW j \in Journals, PostAndApply(j)
  PROVE  ProjectionInv'
<1>1. /\ ProjectionTypeOK /\ RowsTouched /\ BalancesFollowLedger
      /\ j \in Journals \ ledger /\ ledger' = ledger \cup {j} /\ ApplyJournal(j)
      /\ UNCHANGED <<worker, rebuilt>>
  BY DEF ProjectionInv, PostAndApply
<1>2. ProjectionTypeOK'
  <2>1. ledger' \subseteq Journals /\ IsFiniteSet(ledger')
    BY <1>1, FS_AddElement DEF ProjectionTypeOK
  <2>2. balances' = [a \in BalanceAccounts |-> balances'[a]]
    BY <1>1 DEF ApplyJournal
  <2>3. \A a \in BalanceAccounts : balances'[a] \in Row \cup {Missing}
    BY <1>1, PostedRows
  <2>4. balances' \in [BalanceAccounts -> Row \cup {Missing}]
    BY <2>2, <2>3
  <2> QED
    BY <1>1, <2>1, <2>4 DEF ProjectionTypeOK
<1>3. RowsTouched'
  <2>1. LastDate' = LastDate
    BY DEF LastDate
  <2>2. ASSUME NEW a \in BalanceAccounts, balances'[a] # Missing
        PROVE  Touching(a, LastDate)' # {}
    BY <1>1, <2>2, PostedRows, PostingAdds DEF RowsTouched
  <2> QED
    BY <2>2 DEF RowsTouched
<1>4. BalancesFollowLedger'
  <2> SUFFICES ASSUME rebuilt, NEW a \in BalanceAccounts \ Foreign
               PROVE  IF Touching(a, LastDate)' = {} THEN balances'[a] = Missing
                      ELSE /\ balances'[a] # Missing
                           /\ balances'[a].native = Authoritative(a, LastDate)'
                           /\ balances'[a].reporting = Authoritative(a, LastDate)'
    BY <1>1 DEF BalancesFollowLedger
  <2>1. IF Touching(a, LastDate) = {} THEN balances[a] = Missing
        ELSE /\ balances[a] # Missing
             /\ balances[a].native = Authoritative(a, LastDate)
             /\ balances[a].reporting = Authoritative(a, LastDate)
    BY <1>1 DEF BalancesFollowLedger
  <2>2. j.amount[a] \in Int
    BY ProjectionsAssumption
  <2>3. CASE j.amount[a] = 0
    BY <1>1, <2>1, <2>3, PostedRows, PostingAdds
  <2>4. CASE j.amount[a] # 0
    <3>1. /\ Touching(a, LastDate)' # {} /\ balances'[a] # Missing
          /\ Authoritative(a, LastDate)' = Authoritative(a, LastDate) + j.amount[a]
          /\ Authoritative(a, LastDate) \in Int
          /\ Touching(a, LastDate) = {} => Authoritative(a, LastDate) = 0
      BY <1>1, <2>4, PostingAdds, PostedRows
    <3>2. /\ balances'[a].native = j.amount[a] + (IF balances[a] = Missing THEN 0 ELSE balances[a].native)
          /\ balances'[a].reporting = j.amount[a] + (IF balances[a] = Missing THEN 0 ELSE balances[a].reporting)
      BY <1>1, <2>4, PostedRows
    <3> QED
      BY <2>1, <2>2, <3>1, <3>2
  <2> QED
    BY <2>3, <2>4
<1> QED
  BY <1>2, <1>3, <1>4 DEF ProjectionInv

\* A maintenance call is at one of its statements, whatever step it takes.
LEMMA CallSteps ==
  ASSUME worker \in [Workers -> Call], NEW w \in Workers
  PROVE  /\ \A at \in {"worth", "worth, resolve", "insert", "record", "resolve"},
               key \in ProjectionKeys \cup {Missing}, d \in Dates :
              Begins(w, at, key, d) => worker' \in [Workers -> Call]
         /\ Ends(w) => worker' \in [Workers -> Call]
         /\ Continue(w, "resolve") => worker' \in [Workers -> Call]
         /\ worker[w].date \in Nat
<1>1. Done \in Call
  BY DEF Done, Call
<1>2. worker[w] \in Call /\ [worker[w] EXCEPT !.at = "resolve"] \in Call
  BY DEF Call
<1>3. ASSUME NEW at \in {"worth", "worth, resolve", "insert", "record", "resolve"},
             NEW key \in ProjectionKeys \cup {Missing}, NEW d \in Dates
      PROVE  [at |-> at, key |-> key, date |-> d, found |-> {}] \in Call
  BY ProjectionsAssumption DEF Call
<1>4. worker[w].date \in Nat
  BY <1>2 DEF Call
<1>5. ASSUME NEW call \in Call, worker' = [worker EXCEPT ![w] = call]
      PROVE  worker' \in [Workers -> Call]
  BY <1>5
<1>6. Ends(w) => worker' \in [Workers -> Call]
  BY <1>1, <1>5 DEF Ends
<1>7. Continue(w, "resolve") => worker' \in [Workers -> Call]
  BY <1>2, <1>5 DEF Continue
<1>8. ASSUME NEW at \in {"worth", "worth, resolve", "insert", "record", "resolve"},
             NEW key \in ProjectionKeys \cup {Missing}, NEW d \in Dates, Begins(w, at, key, d)
      PROVE  worker' \in [Workers -> Call]
  BY <1>3, <1>5, <1>8 DEF Begins
<1> QED
  BY <1>4, <1>6, <1>7, <1>8

\* A check finds accounts, or the household.
LEMMA DriftedFound ==
  \A key \in ProjectionKeys, d \in Dates : Drifted(key, d) \in SUBSET (BalanceAccounts \cup {"household"})
BY DEF Drifted, ProjectionKeys

\* A step that leaves the ledger and the balances alone keeps what is known of them.
LEMMA QuietInv ==
  ASSUME ProjectionInv, UNCHANGED <<ledger, balances, rebuilt>>, worker' \in [Workers -> Call]
  PROVE  ProjectionInv'
<1>1. ProjectionTypeOK'
  BY DEF ProjectionInv, ProjectionTypeOK
<1>2. RowsTouched'
  BY SameLedger DEF RowsTouched, ProjectionInv
<1>3. BalancesFollowLedger'
  BY SameLedger DEF BalancesFollowLedger, ProjectionInv
<1> QED
  BY <1>1, <1>2, <1>3 DEF ProjectionInv

\* The insert of a rebuild fills in the rows of the accounts that its journals touch,
\* or fails on a row that is there already.
LEMMA InsertInv ==
  ASSUME ProjectionInv, NEW w \in Workers, InsertCurrent(w)
  PROVE  ProjectionInv'
<1> DEFINE asOf == worker[w].date
           new == {a \in BalanceAccounts : Touching(a, asOf) # {}}
<1>1. /\ ProjectionTypeOK /\ RowsTouched /\ BalancesFollowLedger /\ UNCHANGED ledger
      /\ worker' \in [Workers -> Call] /\ asOf \in Nat
  BY CallSteps DEF InsertCurrent, ProjectionInv, ProjectionTypeOK
<1>2. CASE \E a \in new : balances[a] # Missing
  <2>1. UNCHANGED <<ledger, balances, rebuilt>>
    BY <1>2 DEF InsertCurrent
  <2> QED
    BY <1>1, <2>1, QuietInv
<1>3. CASE ~ (\E a \in new : balances[a] # Missing)
  <2>1. /\ balances' = [a \in BalanceAccounts |-> IF a \in new THEN Rebuilt(a, asOf) ELSE balances[a]]
        /\ rebuilt' = (\A j \in ledger : j.on <= asOf)
    BY <1>3 DEF InsertCurrent
  <2>2. \A a \in BalanceAccounts : Touching(a, asOf) \subseteq Touching(a, LastDate)
    BY <1>1, LastDateLast DEF Touching, ProjectionTypeOK
  <2>3. /\ \A a \in BalanceAccounts : Touching(a, LastDate)' = Touching(a, LastDate)
        /\ \A a \in BalanceAccounts : Authoritative(a, LastDate)' = Authoritative(a, LastDate)
    BY <1>1, SameLedger
  <2>4. ASSUME NEW a \in BalanceAccounts
        PROVE  /\ Authoritative(a, asOf) \in Int /\ Rebuilt(a, asOf) \in Row /\ Rebuilt(a, asOf) # Missing
               /\ Rebuilt(a, asOf).reporting = Authoritative(a, asOf)
               /\ a \notin Foreign => Rebuilt(a, asOf).native = Authoritative(a, asOf)
    <3>1. Touching(a, asOf) \in SUBSET Journals /\ Touching(a, asOf) \in SUBSET ledger
      BY <1>1 DEF Touching, ProjectionTypeOK
    <3>2. IsFiniteSet(Touching(a, asOf))
      BY <1>1, <3>1, FS_Subset DEF ProjectionTypeOK
    <3>3. Authoritative(a, asOf) \in Int
      BY <3>1, <3>2, TotalAdds, AuthoritativeTotal
    <3> QED
      BY <1>1, <3>3, ProjectionsAssumption DEF Rebuilt, Reported, Row
  <2>5. ProjectionTypeOK'
    <3>1. rebuilt' \in BOOLEAN
      BY <2>1
    <3> HIDE DEF new
    <3>2. balances' \in [BalanceAccounts -> Row \cup {Missing}]
      BY <1>1, <2>1, <2>4 DEF ProjectionTypeOK
    <3> QED
      BY <1>1, <3>1, <3>2, Zenon DEF ProjectionTypeOK
  <2>6. RowsTouched'
    BY <1>1, <2>1, <2>2, <2>3 DEF RowsTouched
  <2>7. BalancesFollowLedger'
    <3> SUFFICES ASSUME rebuilt', NEW a \in BalanceAccounts \ Foreign
                 PROVE  IF Touching(a, LastDate) = {} THEN balances'[a] = Missing
                        ELSE /\ balances'[a] # Missing
                             /\ balances'[a].native = Authoritative(a, LastDate)
                             /\ balances'[a].reporting = Authoritative(a, LastDate)
      BY <2>3 DEF BalancesFollowLedger
    <3>1. Touching(a, asOf) = Touching(a, LastDate)
      BY <1>1, <2>1, LastDateLast DEF Touching, ProjectionTypeOK
    <3>2. Authoritative(a, asOf) = Authoritative(a, LastDate)
      <4>1. Total(a, Touching(a, asOf)) = Total(a, Touching(a, LastDate))
        BY <3>1, Zenon
      <4> QED
        BY <4>1, AuthoritativeTotal
    <3>3. CASE Touching(a, LastDate) = {}
      BY <1>1, <2>1, <3>1, <3>3 DEF RowsTouched
    <3>4. CASE Touching(a, LastDate) # {}
      <4>1. balances'[a] = Rebuilt(a, asOf)
        BY <2>1, <3>1, <3>4
      <4> QED
        BY <2>4, <3>2, <3>4, <4>1
    <3> QED
      BY <3>3, <3>4
  <2> QED
    BY <2>5, <2>6, <2>7 DEF ProjectionInv
<1> QED
  BY <1>2, <1>3

\* The delete of a rebuild takes every row.
LEMMA DeleteInv ==
  ASSUME ProjectionInv, NEW w \in Workers, NEW d \in Dates, DeleteCurrent(w, d)
  PROVE  ProjectionInv'
<1>1. /\ balances' = [a \in BalanceAccounts |-> Missing] /\ rebuilt' = FALSE /\ UNCHANGED ledger
      /\ ProjectionTypeOK
  BY DEF DeleteCurrent, ProjectionInv
<1>2. worker' \in [Workers -> Call]
  <2>1. Begins(w, "insert", "current_balances", d) /\ "current_balances" \in ProjectionKeys
    BY DEF DeleteCurrent, ProjectionKeys
  <2> QED
    BY <1>1, <2>1, CallSteps DEF ProjectionTypeOK
<1>3. ProjectionTypeOK' /\ RowsTouched' /\ BalancesFollowLedger'
  BY <1>1, <1>2 DEF ProjectionTypeOK, RowsTouched, BalancesFollowLedger
<1> QED
  BY <1>3 DEF ProjectionInv

\* The inductive invariant of the projections, for any number of journals, accounts and
\* maintenance calls, in any order and cut short anywhere.
THEOREM ProjectionInvariant == ProjectionSpec => []ProjectionInv
<1>1. ProjectionInit => ProjectionInv
  <2> SUFFICES ASSUME ProjectionInit PROVE ProjectionInv
    OBVIOUS
  <2>1. ProjectionTypeOK
    BY FS_EmptySet DEF ProjectionInit, ProjectionTypeOK, Done, Call
  <2>2. RowsTouched /\ BalancesFollowLedger
    BY DEF ProjectionInit, RowsTouched, BalancesFollowLedger, Touching
  <2> QED
    BY <2>1, <2>2 DEF ProjectionInv
<1>2. ProjectionInv /\ [ProjectionNext]_projectionVars => ProjectionInv'
  <2> SUFFICES ASSUME ProjectionInv, [ProjectionNext]_projectionVars PROVE ProjectionInv'
    OBVIOUS
  <2>1. worker \in [Workers -> Call]
    BY DEF ProjectionInv, ProjectionTypeOK
  <2>2. ASSUME NEW j \in Journals, PostAndApply(j) PROVE ProjectionInv'
    BY <2>2, PostInv
  <2>3. ASSUME NEW w \in Workers, StatementFails(w) \/ Resolve(w) \/ RecordDrift(w) \/ FinalizeWorth(w)
        PROVE  ProjectionInv'
    <3>1. UNCHANGED <<ledger, balances, rebuilt>> /\ (Ends(w) \/ Continue(w, "resolve"))
      BY <2>3 DEF StatementFails, Resolve, RecordDrift, FinalizeWorth
    <3> QED
      BY <2>1, <3>1, CallSteps, QuietInv
  <2>4. ASSUME NEW w \in Workers, InsertCurrent(w) PROVE ProjectionInv'
    BY <2>4, InsertInv
  <2>5. ASSUME NEW w \in Workers, NEW d \in Dates, DeleteCurrent(w, d) PROVE ProjectionInv'
    BY <2>5, DeleteInv
  <2>6. ASSUME NEW w \in Workers, NEW d \in Dates,
               NEW key \in {"daily_balances", "net_worth", Missing}, FinalizeDaily(w, d, key)
        PROVE  ProjectionInv'
    <3>1. UNCHANGED <<ledger, balances, rebuilt>> /\ key \in ProjectionKeys \cup {Missing}
      BY <2>6 DEF FinalizeDaily, ProjectionKeys
    <3>2. Begins(w, "worth", key, d) \/ Begins(w, "worth, resolve", key, d)
      BY <2>6 DEF FinalizeDaily
    <3> QED
      BY <2>1, <3>1, <3>2, CallSteps, QuietInv
  <2>7. ASSUME NEW w \in Workers, NEW d \in Dates, NEW key \in ProjectionKeys, Check(w, key, d)
        PROVE  ProjectionInv'
    <3>1. [at |-> "record", key |-> key, date |-> d, found |-> Drifted(key, d)] \in Call
      BY DriftedFound, ProjectionsAssumption DEF Call
    <3>2. UNCHANGED <<ledger, balances, rebuilt>> /\ worker' \in [Workers -> Call]
      BY <2>1, <2>7, <3>1 DEF Check
    <3> QED
      BY <3>2, QuietInv
  <2>8. CASE UNCHANGED projectionVars
    BY <2>1, <2>8, QuietInv DEF projectionVars
  <2> QED
    BY <2>2, <2>3, <2>4, <2>5, <2>6, <2>7, <2>8 DEF ProjectionNext
<1> QED
  BY <1>1, <1>2, PTL DEF ProjectionSpec

\* The balance of an account in the reporting currency is what its postings add up to
\* (applyJournal), and is so again after a rebuild that ran to the end.
THEOREM BalancesFollowLedgerAlways == ProjectionSpec => []BalancesFollowLedger
<1>1. ProjectionInv => BalancesFollowLedger
  BY DEF ProjectionInv
<1> QED
  BY <1>1, ProjectionInvariant, PTL

\* When every account is in the reporting currency, a rebuild does what the documents say:
\* after it the drift check finds nothing (rebuildCurrentBalances, recordBalanceDrift).  The
\* sums that the insert swaps are all that stands against it otherwise.
THEOREM RebuildRepairsOneCurrency ==
  ASSUME Foreign = {}
  PROVE  ProjectionSpec => []RebuildRepairs
<1>1. ProjectionInv => RebuildRepairs
  BY DEF ProjectionInv, BalancesFollowLedger, RebuildRepairs, Drifted
<1> QED
  BY <1>1, ProjectionInvariant, PTL

=============================================================================
