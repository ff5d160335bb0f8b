------------------------------ MODULE Counting ------------------------------
(***************************************************************************)
(* Lemmas that rest on counting, where an induction would be expected.     *)
(*                                                                         *)
(* Sums of natural numbers over a finite set: MapThenFoldSet iterates over *)
(* the set in an order that CHOOSE picks.  Here a sum is the number of     *)
(* units that are counted, so that the order does not matter, and the      *)
(* iteration is shown to give that number.                                 *)
(*                                                                         *)
(* Sorting and filtering (module Orders): an element stands behind as many *)
(* others as there are before it.                                          *)
(***************************************************************************)
EXTENDS Orders, Integers, Sequences, FiniteSetTheorems, TLAPS

\* The sum of f over S, as the number of units that f counts.
Units(f, S) == {u \in S \X Nat : u[2] < f[u[1]]}
Tally(f, S) == Cardinality(Units(f, S))

LEMMA TallyEmpty == \A f : IsFiniteSet(Units(f, {})) /\ Tally(f, {}) = 0
<1> SUFFICES ASSUME NEW f PROVE IsFiniteSet(Units(f, {})) /\ Tally(f, {}) = 0
  OBVIOUS
<1>1. Units(f, {}) = {}
  BY DEF Units
<1> QED BY <1>1, FS_EmptySet DEF Tally

\* One element counts as many units as its value.
LEMMA TallyOne ==
    ASSUME NEW f, NEW x, f[x] \in Nat
    PROVE  IsFiniteSet(Units(f, {x})) /\ Tally(f, {x}) = f[x]
<1> DEFINE n == f[x]
           U == Units(f, {x})
           b == [i \in 0..(n - 1) |-> <<x, i>>]
<1>1. n \in Nat /\ 0 \in Int /\ n - 1 \in Int
  OBVIOUS
<1>2. U = {<<x, i>> : i \in 0..(n - 1)}
  BY DEF Units
<1> HIDE DEF n, U
<1>3. b \in Bijection(0..(n - 1), U)
  BY <1>2 DEF Bijection, Injection, Surjection, IsInjective
<1>4. ExistsBijection(0..(n - 1), U)
  BY <1>3 DEF ExistsBijection
<1>5. IsFiniteSet(0..(n - 1)) /\ Cardinality(0..(n - 1)) = IF 0 > n - 1 THEN 0 ELSE n - 1 - 0 + 1
  BY <1>1, FS_Interval
<1>6. Cardinality(0..(n - 1)) = n
  BY <1>1, <1>5
<1> QED BY <1>4, <1>5, <1>6, FS_Bijection DEF n, U, Tally

\* An element more adds its value.
LEMMA TallyAdd ==
    ASSUME NEW f, NEW S, NEW x, IsFiniteSet(Units(f, S)), x \notin S, f[x] \in Nat
    PROVE  IsFiniteSet(Units(f, S \cup {x})) /\ Tally(f, S \cup {x}) = Tally(f, S) + f[x]
<1> DEFINE A == Units(f, S)
           B == Units(f, {x})
<1>1. Units(f, S \cup {x}) = A \cup B /\ A \cap B = {}
  BY DEF Units
<1>2. IsFiniteSet(A) /\ IsFiniteSet(B) /\ Cardinality(B) = f[x]
  BY TallyOne DEF Tally
<1> HIDE DEF A, B
<1>3. IsFiniteSet(A \cup B) /\ Cardinality(A \cup B) = Cardinality(A) + Cardinality(B) - Cardinality(A \cap B)
  BY <1>2, FS_Union
<1>4. Cardinality(A) \in Nat /\ Cardinality(A \cap B) = 0
  BY <1>1, <1>2, FS_CardinalityType, FS_EmptySet
<1>5. Cardinality(A \cup B) = Cardinality(A) + f[x]
  BY <1>2, <1>3, <1>4
<1>6. Tally(f, S \cup {x}) = Cardinality(A \cup B) /\ Tally(f, S) = Cardinality(A)
  BY <1>1 DEF A, Tally
<1> QED BY <1>1, <1>3, <1>5, <1>6

\* A set of subsets of a finite set that is not empty has a least member.
LEMMA LeastSubset ==
    ASSUME NEW S, IsFiniteSet(S), NEW T \in SUBSET (SUBSET S), T # {}
    PROVE  \E s \in T : \A x \in s : s \ {x} \notin T
<1>1. T \subseteq FiniteSubsetsOf(S)
  BY FS_Subset DEF FiniteSubsetsOf
<1>2. PICK s \in T : \A r \in T : <<r, s>> \notin StrictSubsetOrdering(S)
  BY <1>1, FS_StrictSubsetOrderingWellFounded, WFMin
<1>3. ASSUME NEW x \in s, s \ {x} \in T PROVE FALSE
  <2>1. <<s \ {x}, s>> \in StrictSubsetOrdering(S)
    BY <1>3 DEF StrictSubsetOrdering
  <2> QED BY <1>2, <1>3, <2>1
<1> QED BY <1>3

LEMMA TallyFinite ==
    ASSUME NEW S, IsFiniteSet(S), NEW f, \A x \in S : f[x] \in Nat
    PROVE  IsFiniteSet(Units(f, S)) /\ Tally(f, S) \in Nat
<1> DEFINE T == {s \in SUBSET S : ~IsFiniteSet(Units(f, s))}
<1>1. T = {}
  <2> SUFFICES ASSUME T # {} PROVE FALSE
    OBVIOUS
  <2>1. PICK s \in T : \A x \in s : s \ {x} \notin T
    BY LeastSubset
  <2>2. s # {}
    BY TallyEmpty
  <2>3. PICK x \in s : TRUE
    BY <2>2
  <2>4. IsFiniteSet(Units(f, s \ {x})) /\ f[x] \in Nat /\ (s \ {x}) \cup {x} = s
    BY <2>1
  <2>5. IsFiniteSet(Units(f, s))
    BY <2>4, TallyAdd
  <2> QED BY <2>5
<1>2. IsFiniteSet(Units(f, S))
  BY <1>1
<1> QED BY <1>2, FS_CardinalityType DEF Tally

\* A sum depends on nothing but the values of its elements.
LEMMA TallySame ==
    ASSUME NEW S, NEW f, NEW g, \A x \in S : f[x] = g[x]
    PROVE  Tally(f, S) = Tally(g, S)
<1>1. Units(f, S) = Units(g, S)
  BY DEF Units
<1> QED BY <1>1 DEF Tally

Chosen(s) == CHOOSE x \in s : TRUE

\* it is what MapThenFoldSet iterates with to sum f over S.
SumsUp(it, f, S) ==
    it = [s \in SUBSET S |-> IF s = {} THEN 0 ELSE f[Chosen(s)] + it[s \ {Chosen(s)}]]

\* There is such a function ...
LEMMA SumsUpExists ==
    ASSUME NEW S, IsFiniteSet(S), NEW f, \A x \in S : f[x] \in Nat
    PROVE  SumsUp([s \in SUBSET S |-> Tally(f, s)], f, S)
<1> DEFINE it == [s \in SUBSET S |-> Tally(f, s)]
<1>1. ASSUME NEW s \in SUBSET S
      PROVE  it[s] = IF s = {} THEN 0 ELSE f[Chosen(s)] + it[s \ {Chosen(s)}]
  <2>1. CASE s = {}
    BY <2>1, TallyEmpty
  <2>2. CASE s # {}
    <3> DEFINE x == Chosen(s)
               r == s \ {x}
    <3>1. x \in s
      BY <2>2 DEF Chosen
    <3> HIDE DEF x
    <3>2. r \in SUBSET S /\ x \notin r /\ r \cup {x} = s /\ f[x] \in Nat
      BY <3>1
    <3>3. IsFiniteSet(r)
      BY <3>2, FS_Subset
    <3> HIDE DEF r
    <3>4. IsFiniteSet(Units(f, r)) /\ Tally(f, r) \in Nat
      BY <3>2, <3>3, TallyFinite
    <3>5. Tally(f, s) = Tally(f, r) + f[x]
      BY <3>2, <3>4, TallyAdd
    <3> QED BY <2>2, <3>2, <3>4, <3>5 DEF x, r
  <2> QED BY <2>1, <2>2
<1> QED BY <1>1 DEF SumsUp

\* ... and it counts the units.
LEMMA SumsUpIsTally ==
    ASSUME NEW S, IsFiniteSet(S), NEW f, \A x \in S : f[x] \in Nat, NEW it, SumsUp(it, f, S)
    PROVE  it[S] = Tally(f, S)
<1> DEFINE T == {s \in SUBSET S : it[s] # Tally(f, s)}
<1>1. T = {}
  <2> SUFFICES ASSUME T # {} PROVE FALSE
    OBVIOUS
  <2>1. PICK s \in T : \A x \in s : s \ {x} \notin T
    BY LeastSubset
  <2>2. it[s] = IF s = {} THEN 0 ELSE f[Chosen(s)] + it[s \ {Chosen(s)}]
    BY DEF SumsUp
  <2>3. s # {}
    BY <2>2, TallyEmpty
  <2> DEFINE x == Chosen(s)
             r == s \ {x}
  <2>4. x \in s
    BY <2>3 DEF Chosen
  <2> HIDE DEF x
  <2>5. r \in SUBSET S /\ x \notin r /\ r \cup {x} = s /\ f[x] \in Nat /\ it[r] = Tally(f, r)
    BY <2>1, <2>4
  <2>6. IsFiniteSet(r)
    BY <2>5, FS_Subset
  <2> HIDE DEF r
  <2>7. IsFiniteSet(Units(f, r)) /\ Tally(f, r) \in Nat
    BY <2>5, <2>6, TallyFinite
  <2>8. Tally(f, s) = Tally(f, r) + f[x]
    BY <2>5, <2>7, TallyAdd
  <2> QED BY <2>2, <2>3, <2>5, <2>7, <2>8 DEF x, r
<1> QED BY <1>1

\* A sum of values that keep to a limit.
LEMMA TallyBounded ==
    ASSUME NEW S, IsFiniteSet(S), NEW f, NEW max \in Nat, \A x \in S : f[x] \in 0..max
    PROVE  Tally(f, S) <= Cardinality(S) * max
<1> DEFINE P == S \X (0..(max - 1))
<1>1. Units(f, S) \in SUBSET P
  BY DEF Units
<1>2. IsFiniteSet(0..(max - 1)) /\ Cardinality(0..(max - 1)) = max
  <2>1. 0 \in Int /\ max - 1 \in Int
    OBVIOUS
  <2>2. IsFiniteSet(0..(max - 1)) /\ Cardinality(0..(max - 1)) = IF 0 > max - 1 THEN 0 ELSE max - 1 - 0 + 1
    BY <2>1, FS_Interval
  <2> QED BY <2>2
<1>3. IsFiniteSet(P) /\ Cardinality(P) = Cardinality(S) * max
  BY <1>2, FS_Product
<1> HIDE DEF P
<1>4. Cardinality(Units(f, S)) <= Cardinality(P)
  BY <1>1, <1>3, FS_Subset
<1> QED BY <1>3, <1>4 DEF Tally

\* Larger values have a larger sum.
LEMMA TallyMono ==
    ASSUME NEW S, IsFiniteSet(S), NEW f, NEW g, \A x \in S : f[x] \in Nat /\ g[x] \in Nat /\ f[x] <= g[x]
    PROVE  Tally(f, S) <= Tally(g, S)
<1>1. IsFiniteSet(Units(g, S))
  BY TallyFinite
<1>2. Units(f, S) \in SUBSET Units(g, S)
  BY DEF Units
<1> QED BY <1>1, <1>2, FS_Subset DEF Tally

\* One value that grows by one.
LEMMA TallyBump ==
    ASSUME NEW S, IsFiniteSet(S), NEW f, NEW g, NEW x \in S, \A y \in S : f[y] \in Nat,
           g[x] = f[x] + 1, \A y \in S \ {x} : g[y] = f[y]
    PROVE  Tally(g, S) = Tally(f, S) + 1
<1> DEFINE r == S \ {x}
<1>1. r \cup {x} = S /\ x \notin r /\ r \in SUBSET S
  OBVIOUS
<1>2. f[x] \in Nat /\ g[x] \in Nat /\ \A y \in r : f[y] \in Nat /\ g[y] = f[y]
  OBVIOUS
<1>3. IsFiniteSet(r)
  BY <1>1, FS_Subset
<1> HIDE DEF r
<1>4. IsFiniteSet(Units(f, r)) /\ Tally(f, r) \in Nat
  BY <1>2, <1>3, TallyFinite
<1>5. IsFiniteSet(Units(g, r)) /\ Tally(g, r) = Tally(f, r)
  <2>1. IsFiniteSet(Units(g, r))
    <3>1. \A y \in r : g[y] \in Nat
      BY <1>2
    <3> QED BY <1>3, <3>1, TallyFinite
  <2>2. Tally(g, r) = Tally(f, r)
    BY <1>2, TallySame
  <2> QED BY <2>1, <2>2
<1>6. Tally(f, S) = Tally(f, r) + f[x]
  BY <1>1, <1>2, <1>4, TallyAdd
<1>7. Tally(g, S) = Tally(g, r) + g[x]
  BY <1>1, <1>2, <1>5, TallyAdd
<1> QED BY <1>2, <1>4, <1>5, <1>6, <1>7

-----------------------------------------------------------------------------
(* Sorting and filtering.                                                  *)

\* Sorting gives each number once, the smaller ones first.
LEMMA FromSmallestFacts ==
    ASSUME NEW S \in SUBSET Nat, IsFiniteSet(S)
    PROVE  /\ Cardinality(S) \in Nat
           /\ DOMAIN FromSmallest(S) = 1..Cardinality(S)
           /\ FromSmallest(S) \in Seq(S)
           /\ \A i, j \in 1..Cardinality(S) : i < j => FromSmallest(S)[i] < FromSmallest(S)[j]
           /\ \A p \in S : \E i \in 1..Cardinality(S) : FromSmallest(S)[i] = p
<1> DEFINE n == Cardinality(S)
           below(p) == {q \in S : q < p}
           rank(p) == Cardinality({q \in S : q < p})
           ranks == [p \in S |-> rank(p)]
           s == FromSmallest(S)
<1>1. n \in Nat
  BY FS_CardinalityType
<1>2. \A p \in S : IsFiniteSet(below(p)) /\ rank(p) \in Nat
  <2> SUFFICES ASSUME NEW p \in S PROVE IsFiniteSet(below(p)) /\ rank(p) \in Nat
    OBVIOUS
  <2>1. below(p) \in SUBSET S
    OBVIOUS
  <2>2. IsFiniteSet(below(p))
    BY <2>1, FS_Subset
  <2> QED BY <2>2, FS_CardinalityType
<1>3. ASSUME NEW p \in S PROVE rank(p) \in 0..(n - 1)
  <2>1. below(p) \in SUBSET S /\ p \notin below(p)
    OBVIOUS
  <2>2. Cardinality(below(p)) <= n /\ (n = Cardinality(below(p)) => S = below(p))
    BY <2>1, FS_Subset
  <2>3. rank(p) = Cardinality(below(p)) /\ rank(p) \in Nat
    BY <1>2
  <2>4. rank(p) <= n /\ rank(p) # n
    BY <2>1, <2>2, <2>3
  <2> QED BY <1>1, <2>3, <2>4
<1>4. ASSUME NEW p \in S, NEW q \in S, p < q PROVE rank(p) < rank(q)
  <2>0. p \in Nat /\ q \in Nat /\ p < q
    BY <1>4
  <2>1. below(p) \in SUBSET below(q) /\ p \in below(q) /\ p \notin below(p)
    <3>1. \A x \in S : x \in Nat /\ (x < p => x < q)
      BY <2>0
    <3>2. p < q /\ ~(p < p)
      BY <2>0
    <3> QED BY Zenon, <3>1, <3>2
  <2>2. /\ Cardinality(below(p)) <= Cardinality(below(q))
        /\ Cardinality(below(q)) = Cardinality(below(p)) => below(q) = below(p)
    BY <1>2, <2>1, FS_Subset
  <2>3. rank(p) \in Nat /\ rank(q) \in Nat /\ rank(p) <= rank(q) /\ rank(p) # rank(q)
    BY <1>2, <2>1, <2>2
  <2> QED BY <2>3
<1>5. \A p, q \in S : rank(p) = rank(q) => p = q
  <2> SUFFICES ASSUME NEW p \in S, NEW q \in S, p # q PROVE rank(p) # rank(q)
    OBVIOUS
  <2>1. p < q \/ q < p
    OBVIOUS
  <2> QED BY <1>2, <1>4, <2>1
<1>6. \A i \in 1..n : \E p \in S : rank(p) = i - 1
  <2>1. ranks \in [S -> 0..(n - 1)]
    BY <1>3
  <2>2. ranks \in Injection(S, 0..(n - 1))
    BY <1>5, <2>1 DEF Injection, IsInjective
  <2>3. IsFiniteSet(0..(n - 1)) /\ Cardinality(0..(n - 1)) = n
    <3>1. 0 \in Int /\ n - 1 \in Int
      BY <1>1
    <3>2. IsFiniteSet(0..(n - 1)) /\ Cardinality(0..(n - 1)) = IF 0 > n - 1 THEN 0 ELSE n - 1 - 0 + 1
      BY <3>1, FS_Interval
    <3> QED BY <1>1, <3>2
  <2>4. ranks \in Surjection(S, 0..(n - 1))
    BY <2>2, <2>3, FS_Injection
  <2>5. \A i \in 1..n : i - 1 \in 0..(n - 1)
    BY <1>1
  <2> QED BY <2>4, <2>5 DEF Surjection
<1>7. s = [i \in 1..n |-> CHOOSE p \in S : rank(p) = i - 1]
  BY Zenon DEF FromSmallest
<1> HIDE DEF rank, ranks, n, s, below
<1>8. ASSUME NEW i \in 1..n PROVE s[i] \in S /\ rank(s[i]) = i - 1
  <2>1. \E p \in S : rank(p) = i - 1
    BY <1>6
  <2>2. s[i] = CHOOSE p \in S : rank(p) = i - 1
    BY <1>7
  <2> QED BY <2>1, <2>2
<1>9. s \in [1..n -> S]
  BY <1>7, <1>8
<1>10. s \in Seq(S)
  BY <1>1, <1>9
<1>11. ASSUME NEW i \in 1..n, NEW j \in 1..n, i < j PROVE s[i] < s[j]
  <2>1. rank(s[i]) < rank(s[j])
    BY <1>1, <1>8, <1>11
  <2>2. s[i] \in Nat /\ s[j] \in Nat /\ s[i] \in S /\ s[j] \in S
    BY <1>8
  <2>3. ~(s[j] < s[i]) /\ s[i] # s[j]
    BY <1>2, <1>4, <2>1, <2>2
  <2> QED BY <2>2, <2>3
<1>12. ASSUME NEW p \in S PROVE \E i \in 1..n : s[i] = p
  <2>1. rank(p) \in 0..(n - 1)
    BY <1>3
  <2> DEFINE i == rank(p) + 1
  <2>2. i \in 1..n /\ i - 1 = rank(p)
    BY <1>1, <2>1
  <2>3. s[i] \in S /\ rank(s[i]) = rank(p)
    BY <1>8, <2>2
  <2> QED BY <1>5, <2>2, <2>3
<1> QED BY <1>1, <1>9, <1>10, <1>11, <1>12 DEF n, s

\* Filtering gives the elements of s that are in S, n of them, each from a place of its own
\* and in the order of their places.
Picks(n, at, s, S) ==
    /\ n \in Nat /\ at \in [1..n -> 1..Len(s)]
    /\ Among(s, S) = [i \in 1..n |-> s[at[i]]]
    /\ \A i \in 1..n : s[at[i]] \in S
    /\ \A i, j \in 1..n : i < j => at[i] < at[j]
    /\ \A p \in 1..Len(s) : s[p] \in S => \E i \in 1..n : at[i] = p

LEMMA AmongFacts ==
    ASSUME NEW T, NEW s \in Seq(T), NEW S
    PROVE  \E n, at : Picks(n, at, s, S)
<1> DEFINE P == {i \in DOMAIN s : s[i] \in S}
           n == Cardinality(P)
           at == FromSmallest(P)
<1>1. P \subseteq 1..Len(s) /\ P \in SUBSET Nat /\ Len(s) \in Nat
  OBVIOUS
<1>2. IsFiniteSet(1..Len(s))
  BY <1>1, FS_Interval
<1>3. IsFiniteSet(P)
  BY <1>1, <1>2, FS_Subset
<1> HIDE DEF P
<1>4. /\ n \in Nat /\ DOMAIN at = 1..n /\ at \in Seq(P)
      /\ \A i, j \in 1..n : i < j => at[i] < at[j]
      /\ \A p \in P : \E i \in 1..n : at[i] = p
  BY <1>1, <1>3, FromSmallestFacts
<1>5. Among(s, S) = [i \in 1..n |-> s[at[i]]]
  BY <1>4 DEF Among, P
<1> HIDE DEF n, at
<1>6. at \in [1..n -> P]
  BY <1>4
<1>7. at \in [1..n -> 1..Len(s)]
  BY <1>1, <1>6
<1>8. \A i \in 1..n : s[at[i]] \in S
  BY <1>6 DEF P
<1>9. \A p \in 1..Len(s) : s[p] \in S => p \in P
  BY DEF P
<1>10. Picks(n, at, s, S)
  BY <1>4, <1>5, <1>7, <1>8, <1>9 DEF Picks
<1> QED BY Zenon, <1>10

=============================================================================
