--------------------------- MODULE LRUCacheProofs ---------------------------
(***************************************************************************)
(* Proofs about LRUCache for every set of keys, contents and readers, every *)
(* limit and TTL, and every escapeName collision pattern.                  *)
(*                                                                         *)
(* The limit on currentBytes is not inductive by itself: that the eviction *)
(* loop ends within the limit needs that currentBytes is the sum of the    *)
(* sizes along lruList, and that the list and the map agree.  The sum is   *)
(* stated by its running totals, so that no induction over the list is     *)
(* needed: every operation maps running totals to running totals.          *)
(***************************************************************************)
EXTENDS LRUCache, Counting, SequenceTheorems

\* s without its p-th element.
Cut(s, p) == SubSeq(s, 1, p - 1) \o SubSeq(s, p + 1, Len(s))

Distinct(s) == \A i, j \in 1..Len(s) : s[i] = s[j] => i = j

Elements(s) == {s[i] : i \in 1..Len(s)}

\* acc holds the running totals of g[1], ..., g[n].
Totals(n, g, acc) ==
    /\ acc \in [0..n -> Nat]
    /\ acc[0] = 0
    /\ \A i \in 1..n : acc[i] = acc[i - 1] + g[i]
    /\ \A i, j \in 0..n : i <= j => acc[i] <= acc[j]

\* total is the sum of f over the elements of s.
IsSum(f, s, total) ==
    \E acc : Totals(Len(s), [i \in 1..Len(s) |-> f[s[i]]], acc) /\ total = acc[Len(s)]

Sizes == [k \in DOMAIN entries |-> entries[k].size]

-----------------------------------------------------------------------------
\* What cutting an element out of a sequence leaves.
LEMMA CutFacts ==
    ASSUME NEW S, NEW s \in Seq(S), NEW p \in 1..Len(s)
    PROVE  /\ Cut(s, p) \in Seq(S)
           /\ Len(Cut(s, p)) = Len(s) - 1
           /\ \A i \in 1..(Len(s) - 1) : Cut(s, p)[i] = IF i < p THEN s[i] ELSE s[i + 1]
<1> DEFINE a == SubSeq(s, 1, p - 1)
           b == SubSeq(s, p + 1, Len(s))
<1>1. a \in Seq(S) /\ Len(a) = p - 1 /\ \A i \in 1..(p - 1) : a[i] = s[i]
  OBVIOUS
<1>2. b \in Seq(S) /\ Len(b) = Len(s) - p /\ \A i \in 1..(Len(s) - p) : b[i] = s[p + i]
  OBVIOUS
<1> HIDE DEF a, b
<1>3. a \o b \in Seq(S) /\ Len(a \o b) = Len(a) + Len(b)
      /\ \A i \in 1..(Len(a) + Len(b)) : (a \o b)[i] = IF i <= Len(a) THEN a[i] ELSE b[i - Len(a)]
  BY <1>1, <1>2, ConcatProperties
<1>4. Len(a) + Len(b) = Len(s) - 1 /\ Len(s) \in Nat /\ p \in Int
  BY <1>1, <1>2
<1>5. ASSUME NEW i \in 1..(Len(s) - 1) PROVE (a \o b)[i] = IF i < p THEN s[i] ELSE s[i + 1]
  <2>1. (a \o b)[i] = IF i <= p - 1 THEN a[i] ELSE b[i - (p - 1)]
    BY <1>1, <1>3, <1>4
  <2>2. CASE i < p
    BY <1>1, <2>1, <2>2
  <2>3. CASE i >= p
    <3>1. i - (p - 1) \in 1..(Len(s) - p) /\ p + (i - (p - 1)) = i + 1
      BY <1>4, <2>3
    <3>2. ~(i <= p - 1)
      BY <1>4, <2>3
    <3> QED BY <1>2, <2>1, <2>3, <3>1, <3>2
  <2> QED BY <1>4, <2>2, <2>3
<1> QED BY <1>3, <1>4, <1>5 DEF Cut, a, b

\* Cutting keeps the elements distinct and removes exactly the p-th one.
LEMMA CutDistinct ==
    ASSUME NEW S, NEW s \in Seq(S), NEW p \in 1..Len(s), Distinct(s)
    PROVE  /\ Distinct(Cut(s, p))
           /\ Elements(Cut(s, p)) = Elements(s) \ {s[p]}
<1> DEFINE c == Cut(s, p)
<1>1. Len(c) = Len(s) - 1 /\ \A i \in 1..Len(c) : c[i] = IF i < p THEN s[i] ELSE s[i + 1]
  BY CutFacts
<1>2. Distinct(c)
  BY <1>1 DEF Distinct
<1>3. ASSUME NEW x \in Elements(c) PROVE x \in Elements(s) \ {s[p]}
  <2> PICK i \in 1..Len(c) : x = c[i]
    BY DEF Elements
  <2> QED BY <1>1 DEF Elements, Distinct
<1>4. ASSUME NEW x \in Elements(s) \ {s[p]} PROVE x \in Elements(c)
  <2>1. PICK i \in 1..Len(s) : x = s[i] /\ i # p
    BY DEF Elements
  <2>2. CASE i < p
    BY <1>1, <2>1, <2>2 DEF Elements
  <2>3. CASE i > p
    <3>1. i - 1 \in 1..Len(c) /\ c[i - 1] = x
      BY <1>1, <2>1, <2>3
    <3> QED BY <3>1 DEF Elements
  <2> QED BY <2>1, <2>2, <2>3
<1> QED BY <1>2, <1>3, <1>4

\* Appending a new element keeps the elements distinct.
LEMMA AppendDistinct ==
    ASSUME NEW S, NEW s \in Seq(S), NEW k \in S, Distinct(s), k \notin Elements(s)
    PROVE  /\ Distinct(Append(s, k))
           /\ Elements(Append(s, k)) = Elements(s) \cup {k}
<1> DEFINE a == Append(s, k)
<1>1. Len(a) = Len(s) + 1 /\ a[Len(s) + 1] = k /\ \A i \in 1..Len(s) : a[i] = s[i]
  OBVIOUS
<1>2. Distinct(a)
  BY <1>1 DEF Distinct, Elements
<1>3. Elements(a) = Elements(s) \cup {k}
  <2>1. ASSUME NEW i \in 1..Len(a) PROVE a[i] \in Elements(s) \cup {k}
    BY <1>1 DEF Elements
  <2>2. ASSUME NEW i \in 1..Len(s) PROVE s[i] \in Elements(a)
    BY <1>1 DEF Elements
  <2>3. k \in Elements(a)
    BY <1>1 DEF Elements
  <2> QED BY <2>1, <2>2, <2>3 DEF Elements
<1> QED BY <1>2, <1>3

\* A sum is a natural number, and the empty sum is zero.
LEMMA SumNat ==
    ASSUME NEW S, NEW s \in Seq(S), NEW f, NEW t, IsSum(f, s, t)
    PROVE  t \in Nat /\ (Len(s) = 0 => t = 0)
  BY DEF IsSum, Totals

\* A sum only depends on the sizes of the elements of the list.
LEMMA SumCongruence ==
    ASSUME NEW S, NEW s \in Seq(S), NEW f, NEW g, NEW t, IsSum(f, s, t),
           \A i \in 1..Len(s) : f[s[i]] = g[s[i]]
    PROVE  IsSum(g, s, t)
<1>1. [i \in 1..Len(s) |-> f[s[i]]] = [i \in 1..Len(s) |-> g[s[i]]]
  OBVIOUS
<1> QED BY <1>1 DEF IsSum

\* Running totals after one more number.
LEMMA TotalsAppend ==
    ASSUME NEW n \in Nat, NEW g, NEW h, NEW acc, Totals(n, g, acc),
           \A i \in 1..n : h[i] = g[i], h[n + 1] \in Nat
    PROVE  \E new : Totals(n + 1, h, new) /\ new[n + 1] = acc[n] + h[n + 1]
<1> DEFINE new == [i \in 0..(n + 1) |-> IF i <= n THEN acc[i] ELSE acc[n] + h[n + 1]]
<1>1. new \in [0..(n + 1) -> Nat] /\ new[0] = 0 /\ new[n + 1] = acc[n] + h[n + 1]
  BY DEF Totals
<1>2. \A i \in 1..(n + 1) : new[i] = new[i - 1] + h[i]
  BY DEF Totals
<1>3. \A i, j \in 0..(n + 1) : i <= j => new[i] <= new[j]
  BY DEF Totals
<1> HIDE DEF new
<1> QED BY <1>1, <1>2, <1>3 DEF Totals

\* Running totals with the p-th number left out.
LEMMA TotalsCut ==
    ASSUME NEW n \in Nat, NEW p \in 1..n, NEW g \in [1..n -> Nat], NEW acc, Totals(n, g, acc)
    PROVE  \E new : /\ Totals(n - 1, [i \in 1..(n - 1) |-> IF i < p THEN g[i] ELSE g[i + 1]], new)
                    /\ new[n - 1] = acc[n] - g[p]
<1> DEFINE new == [i \in 0..(n - 1) |-> IF i < p THEN acc[i] ELSE acc[i + 1] - g[p]]
           h == [i \in 1..(n - 1) |-> IF i < p THEN g[i] ELSE g[i + 1]]
<1>1. /\ p \in Int /\ g[p] \in Nat /\ acc[p] = acc[p - 1] + g[p]
      /\ \A i \in 0..n : acc[i] \in Nat
      /\ \A i, j \in 0..n : i <= j => acc[i] <= acc[j]
      /\ \A i \in 1..n : acc[i] = acc[i - 1] + g[i] /\ g[i] \in Nat
      /\ acc[0] = 0
  BY DEF Totals
<1>2. g[p] \in Nat /\ acc[p] \in Nat /\ acc[p - 1] \in Nat /\ acc[p] = acc[p - 1] + g[p]
  BY <1>1
<1>3. ASSUME NEW i \in 1..(n - 1)
      PROVE  acc[i + 1] = acc[i] + g[i + 1] /\ acc[i] \in Nat /\ g[i + 1] \in Nat
  <2>1. i + 1 \in 1..n /\ (i + 1) - 1 = i
    OBVIOUS
  <2> QED BY <1>1, <2>1
<1>4. \A i \in p..(n - 1) : acc[i + 1] - g[p] \in Nat /\ acc[p - 1] <= acc[i + 1] - g[p]
  <2> TAKE i \in p..(n - 1)
  <2>1. acc[p] <= acc[i + 1] /\ acc[p] \in Nat /\ acc[p - 1] \in Nat /\ acc[i + 1] \in Nat
    BY <1>1
  <2> QED BY <1>2, <2>1
<1>5. new \in [0..(n - 1) -> Nat] /\ new[0] = 0
  BY <1>1, <1>4
<1>6. new[n - 1] = acc[n] - g[p]
  BY <1>1
<1>7. \A i \in 1..(n - 1) : new[i] = new[i - 1] + h[i]
  <2> TAKE i \in 1..(n - 1)
  <2>1. CASE i < p
    BY <1>1, <2>1
  <2>2. CASE i = p
    <3>1. acc[p + 1] = acc[p] + g[p + 1] /\ acc[p - 1] \in Nat /\ acc[p] \in Nat /\ g[p + 1] \in Nat
      BY <1>2, <1>3, <2>2
    <3>2. new[i] = acc[p + 1] - g[p] /\ new[i - 1] = acc[p - 1] /\ h[i] = g[p + 1]
      BY <1>1, <2>2
    <3>3. acc[p + 1] - g[p] = acc[p - 1] + g[p + 1]
      BY <1>2, <3>1
    <3> QED BY <3>2, <3>3
  <2>3. CASE i > p
    <3>1. acc[i + 1] = acc[i] + g[i + 1] /\ acc[i] \in Nat /\ g[i + 1] \in Nat
      BY <1>3
    <3>2. new[i] = acc[i + 1] - g[p] /\ new[i - 1] = acc[i] - g[p] /\ h[i] = g[i + 1]
      BY <1>1, <2>3
    <3> QED BY <1>2, <3>1, <3>2
  <2> QED BY <1>1, <2>1, <2>2, <2>3
<1>8. \A i, j \in 0..(n - 1) : i <= j => new[i] <= new[j]
  <2> SUFFICES ASSUME NEW i \in 0..(n - 1), NEW j \in 0..(n - 1), i <= j PROVE new[i] <= new[j]
    OBVIOUS
  <2>1. CASE j < p
    BY <1>1, <2>1
  <2>2. CASE i < p /\ j >= p
    <3>1. acc[i] <= acc[p - 1] /\ acc[p - 1] <= acc[j + 1] - g[p]
      BY <1>1, <1>4, <2>2
    <3>2. acc[i] \in Nat /\ acc[p - 1] \in Nat /\ acc[j + 1] - g[p] \in Nat
      BY <1>1, <1>4, <2>2
    <3>3. new[i] = acc[i] /\ new[j] = acc[j + 1] - g[p]
      BY <1>1, <2>2
    <3> QED BY <3>1, <3>2, <3>3
  <2>3. CASE i >= p
    <3>1. acc[i + 1] <= acc[j + 1] /\ acc[i + 1] \in Nat /\ acc[j + 1] \in Nat
      BY <1>1, <2>3
    <3>2. new[i] = acc[i + 1] - g[p] /\ new[j] = acc[j + 1] - g[p]
      BY <1>1, <2>3
    <3> QED BY <1>2, <3>1, <3>2
  <2> QED BY <1>1, <2>1, <2>2, <2>3
<1> HIDE DEF new, h
<1>9. Totals(n - 1, h, new)
  BY <1>5, <1>7, <1>8 DEF Totals
<1> QED BY <1>6, <1>9 DEF h

\* Appending k adds its size.
LEMMA SumAppend ==
    ASSUME NEW S, NEW s \in Seq(S), NEW k \in S, NEW f, NEW t, IsSum(f, s, t), f[k] \in Nat
    PROVE  IsSum(f, Append(s, k), t + f[k])
<1> DEFINE a == Append(s, k)
           n == Len(s)
           g == [i \in 1..n |-> f[s[i]]]
           h == [i \in 1..(n + 1) |-> f[a[i]]]
<1>1. PICK acc : Totals(n, g, acc) /\ t = acc[n]
  BY DEF IsSum
<1>2. n \in Nat /\ (\A i \in 1..n : h[i] = g[i]) /\ h[n + 1] = f[k] /\ Len(a) = n + 1
  OBVIOUS
<1> HIDE DEF a, g, h, n
<1>3. PICK new : Totals(n + 1, h, new) /\ new[n + 1] = acc[n] + h[n + 1]
  BY <1>1, <1>2, TotalsAppend
<1> QED BY <1>1, <1>2, <1>3 DEF IsSum, a, h

\* Cutting the p-th element takes its size away.
LEMMA SumCut ==
    ASSUME NEW S, NEW s \in Seq(S), NEW p \in 1..Len(s), NEW f, NEW t, IsSum(f, s, t),
           \A i \in 1..Len(s) : f[s[i]] \in Nat
    PROVE  IsSum(f, Cut(s, p), t - f[s[p]])
<1> DEFINE c == Cut(s, p)
           n == Len(s)
           g == [i \in 1..n |-> f[s[i]]]
           h == [i \in 1..(n - 1) |-> IF i < p THEN g[i] ELSE g[i + 1]]
<1>1. PICK acc : Totals(n, g, acc) /\ t = acc[n]
  BY DEF IsSum
<1>2. PICK new : Totals(n - 1, h, new) /\ new[n - 1] = acc[n] - g[p]
  <2>1. g \in [1..n -> Nat] /\ n \in Nat /\ p \in 1..n
    OBVIOUS
  <2>2. Totals(n, g, acc)
    BY <1>1
  <2> HIDE DEF g, n
  <2> QED BY <2>1, <2>2, TotalsCut
<1>3. Len(c) = n - 1 /\ \A i \in 1..(n - 1) : c[i] = IF i < p THEN s[i] ELSE s[i + 1]
  BY CutFacts
<1>4. h = [i \in 1..(n - 1) |-> f[c[i]]] /\ g[p] = f[s[p]]
  BY <1>3
<1> HIDE DEF c, h, g
<1> QED BY <1>1, <1>2, <1>3, <1>4 DEF IsSum, c

-----------------------------------------------------------------------------
\* Who holds the mutex, and what the holder relies on.
Control ==
    /\ mutex = "cleaning" <=> cleaner = "pass"
    /\ mutex = "copying" => put[1] \notin DOMAIN entries
    /\ cleaner = "pass" => \A k \in toRemove : k \in DOMAIN entries /\ Expired(k)

SumInv == IsSum(Sizes, lruList, currentBytes)

LRUInv == TypeOK /\ ListMatchesMap /\ SumInv /\ Control /\ BytesWithinLimit

\* The position of a cached key.
LEMMA PosFacts ==
    ASSUME ListMatchesMap, NEW k \in DOMAIN entries
    PROVE  Pos(k) \in 1..Len(lruList) /\ lruList[Pos(k)] = k /\ Without(k) = Cut(lruList, Pos(k))
<1>1. \E i \in 1..Len(lruList) : lruList[i] = k
  BY DEF ListMatchesMap
<1> QED BY <1>1 DEF Pos, Without, Cut

\* The sizes along the list are those of the entries.
LEMMA SizesFacts ==
    ASSUME TypeOK, ListMatchesMap
    PROVE  /\ \A k \in DOMAIN entries : Sizes[k] = entries[k].size /\ Sizes[k] \in Nat
           /\ \A i \in 1..Len(lruList) : lruList[i] \in DOMAIN entries /\ Sizes[lruList[i]] \in Nat
           /\ Distinct(lruList) /\ Elements(lruList) = DOMAIN entries
           /\ lruList \in Seq(Keys)
<1>1. \A k \in DOMAIN entries : entries[k] \in Entry
  BY DEF TypeOK
<1>2. \A k \in DOMAIN entries : Sizes[k] = entries[k].size /\ Sizes[k] \in Nat
  BY <1>1 DEF Sizes, Entry
<1>3. Distinct(lruList) /\ Elements(lruList) = DOMAIN entries
  BY DEF ListMatchesMap, Distinct, Elements
<1>4. \A i \in 1..Len(lruList) : lruList[i] \in DOMAIN entries
  BY <1>3 DEF Elements
<1> QED BY <1>2, <1>3, <1>4 DEF TypeOK

\* removeEntry keeps the list, the map and the bytes in agreement.
LEMMA UnlinkKeeps ==
    ASSUME TypeOK, ListMatchesMap, SumInv, NEW k \in DOMAIN entries, Unlink(k)
    PROVE  /\ lruList' \in Seq(Keys)
           /\ DOMAIN entries' = DOMAIN entries \ {k}
           /\ entries' \in [DOMAIN entries' -> Entry]
           /\ \A j \in DOMAIN entries' : entries'[j] = entries[j]
           /\ ListMatchesMap' /\ SumInv'
           /\ currentBytes' \in Nat
           /\ currentBytes <= MaxBytes => currentBytes' <= MaxBytes
           /\ DOMAIN entries' \subseteq Keys
<1> DEFINE p == Pos(k)
<1>1. p \in 1..Len(lruList) /\ lruList[p] = k /\ lruList' = Cut(lruList, p)
  BY PosFacts DEF Unlink
<1>2. /\ \A j \in DOMAIN entries : Sizes[j] = entries[j].size /\ Sizes[j] \in Nat
      /\ \A i \in 1..Len(lruList) : Sizes[lruList[i]] \in Nat
      /\ Distinct(lruList) /\ Elements(lruList) = DOMAIN entries
      /\ lruList \in Seq(Keys)
  BY SizesFacts
<1> HIDE DEF p
<1>3. lruList' \in Seq(Keys)
  BY <1>1, <1>2, CutFacts
<1>4. /\ DOMAIN entries' = DOMAIN entries \ {k}
      /\ \A j \in DOMAIN entries' : entries'[j] = entries[j]
      /\ entries' \in [DOMAIN entries' -> Entry]
  BY DEF Unlink, Forget, TypeOK
<1>5. Distinct(lruList') /\ Elements(lruList') = DOMAIN entries'
  BY <1>1, <1>2, <1>4, CutDistinct
<1>6. ListMatchesMap'
  BY <1>5 DEF ListMatchesMap, Distinct, Elements
<1>7. IsSum(Sizes, lruList', currentBytes')
  <2>1. IsSum(Sizes, Cut(lruList, p), currentBytes - Sizes[lruList[p]])
    BY <1>1, <1>2, SumCut DEF SumInv
  <2>2. currentBytes' = currentBytes - Sizes[lruList[p]]
    BY <1>1, <1>2 DEF Unlink
  <2> QED BY <1>1, <2>1, <2>2
<1>8. \A i \in 1..Len(lruList') : Sizes[lruList'[i]] = Sizes'[lruList'[i]]
  <2> TAKE i \in 1..Len(lruList')
  <2>1. lruList'[i] \in DOMAIN entries'
    BY <1>5 DEF Elements
  <2> QED BY <1>4, <2>1 DEF Sizes
<1>9. SumInv'
  <2> DEFINE g == Sizes'
  <2>1. IsSum(g, lruList', currentBytes')
    <3>1. \A i \in 1..Len(lruList') : Sizes[lruList'[i]] = g[lruList'[i]]
      BY <1>8
    <3> HIDE DEF g
    <3> QED BY <1>3, <1>7, <3>1, SumCongruence
  <2> QED BY <2>1 DEF SumInv, IsSum, Totals
<1>10. currentBytes' \in Nat /\ (currentBytes <= MaxBytes => currentBytes' <= MaxBytes)
  <2>1. currentBytes' \in Nat
    BY <1>3, <1>7, SumNat
  <2>2. entries[k].size \in Nat /\ currentBytes \in Nat
    BY <1>2 DEF TypeOK
  <2> QED BY <2>1, <2>2, LimitsAssumption DEF Unlink
<1>11. DOMAIN entries' \subseteq Keys
  BY <1>4 DEF TypeOK
<1> QED BY <1>3, <1>4, <1>6, <1>9, <1>10, <1>11

\* SumInv after a step, from the sum over the old sizes of the new list.
LEMMA SumInvAfter ==
    ASSUME lruList' \in Seq(Keys), NEW f, IsSum(f, lruList', currentBytes'),
           \A i \in 1..Len(lruList') : lruList'[i] \in DOMAIN entries',
           \A i \in 1..Len(lruList') : f[lruList'[i]] = entries'[lruList'[i]].size
    PROVE  SumInv'
<1> DEFINE g == Sizes'
<1>1. \A i \in 1..Len(lruList') : f[lruList'[i]] = g[lruList'[i]]
  BY DEF Sizes
<1>2. IsSum(g, lruList', currentBytes')
  <2> HIDE DEF g
  <2> QED BY <1>1, SumCongruence
<1> QED BY <1>2 DEF SumInv, IsSum, Totals

\* Steps that touch neither the list nor the map nor the sizes.
LEMMA CacheUnchanged ==
    ASSUME LRUInv, UNCHANGED cacheVars
    PROVE  ListMatchesMap' /\ SumInv'
  BY DEF LRUInv, cacheVars, ListMatchesMap, SumInv, Sizes, IsSum, Totals

\* PushBack of a key that is not cached, with its entry and its bytes.
LEMMA InsertKeeps ==
    ASSUME TypeOK, ListMatchesMap, SumInv, NEW k \in Keys \ DOMAIN entries, NEW new \in Entry,
           entries' = [j \in DOMAIN entries \cup {k} |-> IF j = k THEN new ELSE entries[j]],
           lruList' = Append(lruList, k),
           currentBytes' = currentBytes + new.size
    PROVE  ListMatchesMap' /\ SumInv' /\ lruList' \in Seq(Keys)
<1>1. /\ \A j \in DOMAIN entries : Sizes[j] = entries[j].size /\ Sizes[j] \in Nat
      /\ \A i \in 1..Len(lruList) : lruList[i] \in DOMAIN entries /\ Sizes[lruList[i]] \in Nat
      /\ Distinct(lruList) /\ Elements(lruList) = DOMAIN entries
      /\ lruList \in Seq(Keys)
  BY SizesFacts
<1>2. Distinct(lruList') /\ Elements(lruList') = DOMAIN entries' /\ lruList' \in Seq(Keys)
  BY <1>1, AppendDistinct
<1>3. ListMatchesMap'
  BY <1>2 DEF ListMatchesMap, Distinct, Elements
<1> DEFINE f == [j \in DOMAIN entries \cup {k} |-> IF j = k THEN new.size ELSE Sizes[j]]
<1>4. IsSum(f, lruList', currentBytes')
  <2>1. \A i \in 1..Len(lruList) : Sizes[lruList[i]] = f[lruList[i]]
    BY <1>1
  <2>2. f[k] = new.size /\ new.size \in Nat
    BY DEF Entry
  <2> HIDE DEF f
  <2>3. IsSum(f, lruList, currentBytes)
    BY <1>1, <2>1, SumCongruence DEF SumInv
  <2> QED BY <1>1, <2>2, <2>3, SumAppend
<1>5. ASSUME NEW i \in 1..Len(lruList')
      PROVE  lruList'[i] \in DOMAIN entries' /\ f[lruList'[i]] = entries'[lruList'[i]].size
  <2>1. lruList'[i] \in DOMAIN entries'
    BY <1>2 DEF Elements
  <2> QED BY <1>1, <2>1
<1> HIDE DEF f
<1> QED BY <1>2, <1>3, <1>4, <1>5, SumInvAfter

\* A hit: the element of k moves to the back and nothing else does.
LEMMA TouchKeeps ==
    ASSUME TypeOK, ListMatchesMap, SumInv, NEW k \in DOMAIN entries, MoveToBack(k),
           entries' = [entries EXCEPT ![k].idle = 0], UNCHANGED currentBytes
    PROVE  ListMatchesMap' /\ SumInv' /\ lruList' \in Seq(Keys)
<1> DEFINE p == Pos(k)
           c == Cut(lruList, p)
<1>1. p \in 1..Len(lruList) /\ lruList[p] = k /\ lruList' = Append(c, k)
  BY PosFacts DEF MoveToBack
<1>2. /\ \A j \in DOMAIN entries : Sizes[j] = entries[j].size /\ Sizes[j] \in Nat
      /\ \A i \in 1..Len(lruList) : lruList[i] \in DOMAIN entries /\ Sizes[lruList[i]] \in Nat
      /\ Distinct(lruList) /\ Elements(lruList) = DOMAIN entries
      /\ lruList \in Seq(Keys) /\ k \in Keys
  BY SizesFacts DEF TypeOK
<1> HIDE DEF p
<1>3. c \in Seq(Keys) /\ Distinct(c) /\ Elements(c) = DOMAIN entries \ {k}
  BY <1>1, <1>2, CutFacts, CutDistinct
<1>4. IsSum(Sizes, c, currentBytes - Sizes[k])
  BY <1>1, <1>2, SumCut DEF SumInv
<1> HIDE DEF c
<1>5. /\ lruList' \in Seq(Keys) /\ Distinct(lruList')
      /\ Elements(lruList') = (DOMAIN entries \ {k}) \cup {k}
  BY <1>1, <1>2, <1>3, AppendDistinct
<1>6. Elements(lruList') = DOMAIN entries'
  BY <1>5
<1>7. ListMatchesMap'
  BY <1>5, <1>6 DEF ListMatchesMap, Distinct, Elements
<1>8. IsSum(Sizes, lruList', currentBytes')
  <2>1. IsSum(Sizes, Append(c, k), (currentBytes - Sizes[k]) + Sizes[k])
    BY <1>2, <1>3, <1>4, SumAppend
  <2>2. (currentBytes - Sizes[k]) + Sizes[k] = currentBytes'
    BY <1>2 DEF TypeOK
  <2> QED BY <1>1, <2>1, <2>2
<1>9. ASSUME NEW i \in 1..Len(lruList')
      PROVE  lruList'[i] \in DOMAIN entries' /\ Sizes[lruList'[i]] = entries'[lruList'[i]].size
  <2>1. lruList'[i] \in DOMAIN entries'
    BY <1>6 DEF Elements
  <2>2. \A j \in DOMAIN entries : entries[j] \in Entry
    BY DEF TypeOK
  <2> QED BY <1>2, <2>1, <2>2 DEF Entry
<1> QED BY <1>5, <1>7, <1>8, <1>9, SumInvAfter

-----------------------------------------------------------------------------
\* The file name of a key is a file, and emptying or filling it keeps the type.
LEMMA DiskTyped ==
    ASSUME TypeOK, NEW k \in Keys, NEW x \in Contents
    PROVE  /\ escapeName(k) \in Files /\ disk[escapeName(k)] \in Contents
           /\ [disk EXCEPT ![escapeName(k)] = x] \in [Files -> Contents]
  BY DEF TypeOK, Files

\* The initial state.
LEMMA LRUInit == Init => LRUInv
<1> SUFFICES ASSUME Init PROVE LRUInv
  OBVIOUS
<1>1. TypeOK
  <2>1. DOMAIN entries = {} /\ entries \in [DOMAIN entries -> Entry]
    BY DEF Init
  <2>2. lruList \in Seq(Keys) /\ currentBytes \in Nat
    BY DEF Init
  <2>3. disk \in [Files -> Contents] /\ reader \in [Readers -> ReaderState]
    BY DEF Init, Contents, ReaderState
  <2> QED BY <2>1, <2>2, <2>3 DEF Init, TypeOK
<1>2. ListMatchesMap /\ Control /\ BytesWithinLimit
  BY LimitsAssumption DEF Init, ListMatchesMap, Control, BytesWithinLimit
<1>3. SumInv
  <2>1. Totals(0, [i \in 1..0 |-> Sizes[lruList[i]]], [i \in 0..0 |-> 0])
    BY DEF Totals
  <2> QED BY <2>1 DEF Init, SumInv, IsSum
<1> QED BY <1>1, <1>2, <1>3 DEF LRUInv

\* Every step keeps the invariant.
LEMMA LRUStep == LRUInv /\ [Next]_vars => LRUInv'
<1> SUFFICES ASSUME LRUInv, [Next]_vars PROVE LRUInv'
  OBVIOUS
<1>0. TypeOK /\ ListMatchesMap /\ SumInv /\ Control /\ BytesWithinLimit
  BY DEF LRUInv
<1>a. \A k \in DOMAIN entries : k \in Keys /\ entries[k] \in Entry /\ entries[k].size \in Nat
  BY <1>0 DEF TypeOK, Entry
<1>b. NoFile \in Contents /\ Partial \in Contents /\ Whole \subseteq Contents
  BY DEF Contents
<1>1. ASSUME NEW r \in Readers, NEW k \in Keys, GetStale(r, k) PROVE LRUInv'
  <2>1. k \in DOMAIN entries /\ Unlink(k) /\ mutex = "free"
    BY <1>1 DEF GetStale, CanGet, removeEntry
  <2>2. disk' \in [Files -> Contents]
    BY <1>0, <1>1, <1>b, DiskTyped DEF GetStale, removeEntry
  <2>3. /\ ListMatchesMap' /\ SumInv' /\ lruList' \in Seq(Keys) /\ currentBytes' \in Nat
        /\ DOMAIN entries' \subseteq Keys /\ entries' \in [DOMAIN entries' -> Entry]
        /\ DOMAIN entries' = DOMAIN entries \ {k}
        /\ currentBytes <= MaxBytes => currentBytes' <= MaxBytes
    BY <1>0, <2>1, UnlinkKeeps
  <2>4. TypeOK'
    BY <1>0, <1>1, <2>1, <2>2, <2>3 DEF GetStale, TypeOK, cleanerVars
  <2>5. Control' /\ BytesWithinLimit'
    BY <1>0, <1>1, <2>1, <2>3 DEF GetStale, Control, BytesWithinLimit, cleanerVars
  <2> QED BY <2>3, <2>4, <2>5 DEF LRUInv
<1>2. ASSUME NEW r \in Readers, NEW k \in Keys, GetHit(r, k) PROVE LRUInv'
  <2>1. /\ k \in DOMAIN entries /\ MoveToBack(k) /\ mutex = "free"
        /\ entries' = [entries EXCEPT ![k].idle = 0] /\ UNCHANGED currentBytes
    BY <1>2 DEF GetHit, CanGet
  <2>2. DOMAIN entries' \subseteq Keys /\ entries' \in [DOMAIN entries' -> Entry]
    <3>1. entries[k] \in Entry /\ [entries[k] EXCEPT !.idle = 0] \in Entry
      BY <1>a, <2>1, LimitsAssumption DEF Entry
    <3>2. entries' = [entries EXCEPT ![k] = [entries[k] EXCEPT !.idle = 0]]
      BY <2>1
    <3> QED BY <1>0, <2>1, <3>1, <3>2 DEF TypeOK
  <2>3. reader' \in [Readers -> ReaderState]
    BY <1>0, <1>2, <1>b DEF GetHit, TypeOK, ReaderState
  <2>4. ListMatchesMap' /\ SumInv' /\ lruList' \in Seq(Keys)
    BY <1>0, <2>1, TouchKeeps
  <2> QED BY <1>0, <1>2, <2>1, <2>2, <2>3, <2>4
          DEF GetHit, LRUInv, TypeOK, Control, BytesWithinLimit, cleanerVars
<1>3. ASSUME NEW r \in Readers, ReadFile(r) PROVE LRUInv'
  <2>1. reader' \in [Readers -> ReaderState]
    <3>1. reader[r] \in ReaderState /\ reader[r].key \in Keys
      BY <1>0 DEF TypeOK, ReaderState
    <3>2. disk[escapeName(reader[r].key)] \in Contents
      BY <1>0, <1>b, <3>1, DiskTyped
    <3> QED BY <1>0, <1>3, <3>1, <3>2 DEF ReadFile, TypeOK, ReaderState
  <2> QED BY <1>0, <1>3, <2>1, CacheUnchanged
          DEF ReadFile, LRUInv, TypeOK, Control, BytesWithinLimit, cleanerVars, cacheVars, Expired
<1>4. ASSUME NEW k \in Keys, NEW v \in Values, PutBegin(k, v) PROVE LRUInv'
  <2>1. disk' \in [Files -> Contents] /\ put' \in Whole /\ put'[1] = k
    BY <1>0, <1>4, <1>b, DiskTyped DEF PutBegin, Whole
  <2>2. CASE k \in DOMAIN entries
    <3>1. Unlink(k)
      BY <1>4, <2>2 DEF PutBegin
    <3>2. /\ ListMatchesMap' /\ SumInv' /\ lruList' \in Seq(Keys) /\ currentBytes' \in Nat
          /\ DOMAIN entries' \subseteq Keys /\ entries' \in [DOMAIN entries' -> Entry]
          /\ DOMAIN entries' = DOMAIN entries \ {k}
          /\ currentBytes <= MaxBytes => currentBytes' <= MaxBytes
      BY <1>0, <2>2, <3>1, UnlinkKeeps
    <3>3. TypeOK'
      BY <1>0, <1>4, <2>1, <3>2 DEF PutBegin, TypeOK, cleanerVars
    <3>4. Control' /\ BytesWithinLimit'
      BY <1>0, <1>4, <2>1, <3>2 DEF PutBegin, Control, BytesWithinLimit, cleanerVars
    <3> QED BY <3>2, <3>3, <3>4 DEF LRUInv
  <2>3. CASE k \notin DOMAIN entries
    <3>1. UNCHANGED cacheVars
      BY <1>4, <2>3 DEF PutBegin
    <3> QED BY <1>0, <1>4, <2>1, <2>3, <3>1, CacheUnchanged
            DEF PutBegin, LRUInv, TypeOK, Control, BytesWithinLimit, cleanerVars, cacheVars
  <2> QED BY <2>2, <2>3
<1>5. ASSUME NEW k \in Keys, NEW v \in Values, PutOpenFails(k, v) PROVE LRUInv'
  <2>1. k \in DOMAIN entries /\ Unlink(k) /\ mutex = "free"
    BY <1>5 DEF PutOpenFails, removeEntry
  <2>2. disk' \in [Files -> Contents]
    BY <1>0, <1>5, <1>b, DiskTyped DEF PutOpenFails, removeEntry
  <2>3. /\ ListMatchesMap' /\ SumInv' /\ lruList' \in Seq(Keys) /\ currentBytes' \in Nat
        /\ DOMAIN entries' \subseteq Keys /\ entries' \in [DOMAIN entries' -> Entry]
        /\ DOMAIN entries' = DOMAIN entries \ {k}
        /\ currentBytes <= MaxBytes => currentBytes' <= MaxBytes
    BY <1>0, <2>1, UnlinkKeeps
  <2>4. TypeOK'
    BY <1>0, <1>5, <2>1, <2>2, <2>3 DEF PutOpenFails, TypeOK, cleanerVars
  <2>5. Control' /\ BytesWithinLimit'
    BY <1>0, <1>5, <2>1, <2>3 DEF PutOpenFails, Control, BytesWithinLimit, cleanerVars
  <2> QED BY <2>3, <2>4, <2>5 DEF LRUInv
<1>6. ASSUME NEW k \in Keys, Delete(k) PROVE LRUInv'
  <2>1. k \in DOMAIN entries /\ Unlink(k) /\ mutex = "free"
    BY <1>6 DEF Delete, removeEntry
  <2>2. disk' \in [Files -> Contents]
    BY <1>0, <1>6, <1>b, DiskTyped DEF Delete, removeEntry
  <2>3. /\ ListMatchesMap' /\ SumInv' /\ lruList' \in Seq(Keys) /\ currentBytes' \in Nat
        /\ DOMAIN entries' \subseteq Keys /\ entries' \in [DOMAIN entries' -> Entry]
        /\ DOMAIN entries' = DOMAIN entries \ {k}
        /\ currentBytes <= MaxBytes => currentBytes' <= MaxBytes
    BY <1>0, <2>1, UnlinkKeeps
  <2>4. TypeOK'
    BY <1>0, <1>6, <2>1, <2>2, <2>3 DEF Delete, TypeOK, cleanerVars
  <2>5. Control' /\ BytesWithinLimit'
    BY <1>0, <1>6, <2>1, <2>3 DEF Delete, Control, BytesWithinLimit, cleanerVars
  <2> QED BY <2>3, <2>4, <2>5 DEF LRUInv
<1>7. CASE Clear
  <2>1. ListMatchesMap'
    BY <1>7 DEF Clear, ListMatchesMap
  <2>2. SumInv'
    <3> DEFINE f == Sizes'
    <3>1. Totals(0, [i \in 1..0 |-> f[<<>>[i]]], [i \in 0..0 |-> 0])
      BY DEF Totals
    <3> HIDE DEF f
    <3>2. IsSum(f, <<>>, 0)
      BY <3>1 DEF IsSum
    <3>3. lruList' = <<>> /\ currentBytes' = 0
      BY <1>7 DEF Clear
    <3>4. IsSum(f, lruList', currentBytes')
      BY <3>2, <3>3
    <3> QED BY <3>4 DEF SumInv, IsSum, Totals, f
  <2>3. TypeOK'
    BY <1>0, <1>7, <1>b DEF Clear, TypeOK, cleanerVars
  <2>4. Control' /\ BytesWithinLimit'
    BY <1>0, <1>7, LimitsAssumption DEF Clear, Control, BytesWithinLimit, cleanerVars
  <2> QED BY <2>1, <2>2, <2>3, <2>4 DEF LRUInv
<1>8. CASE ClearFails
  <2>1. disk' \in [Files -> Contents]
    BY <1>0, <1>8, <1>b DEF ClearFails, TypeOK
  <2> QED BY <1>0, <1>8, <2>1, CacheUnchanged
          DEF ClearFails, LRUInv, TypeOK, Control, BytesWithinLimit, cleanerVars, cacheVars, Expired
<1>9. CASE PutWriteFails
  BY <1>0, <1>9, CacheUnchanged
     DEF PutWriteFails, LRUInv, TypeOK, Control, BytesWithinLimit, cleanerVars, cacheVars, Expired
<1>10. CASE PutInsert
  <2> DEFINE k == put[1]
             new == NewEntry(put[2])
  <2>1. /\ mutex = "copying" /\ put \in Whole /\ k \in Keys \ DOMAIN entries
        /\ SizeOf[put[2]] \in Nat
    BY <1>0, <1>10, SizesAssumption DEF PutInsert, TypeOK, Control, Whole
  <2>2. new \in Entry /\ new.size = SizeOf[put[2]]
    BY <2>1, LimitsAssumption DEF NewEntry, Entry
  <2>3. /\ entries' = [j \in DOMAIN entries \cup {k} |-> IF j = k THEN new ELSE entries[j]]
        /\ lruList' = Append(lruList, k) /\ currentBytes' = currentBytes + new.size
        /\ disk' = [disk EXCEPT ![escapeName(k)] = put]
    BY <1>10, <2>2 DEF PutInsert
  <2> HIDE DEF k, new
  <2>4. ListMatchesMap' /\ SumInv' /\ lruList' \in Seq(Keys)
    BY <1>0, <2>1, <2>2, <2>3, InsertKeeps
  <2>5. DOMAIN entries' \subseteq Keys /\ entries' \in [DOMAIN entries' -> Entry]
    BY <1>0, <2>1, <2>2, <2>3 DEF TypeOK
  <2>6. currentBytes' \in Nat /\ disk' \in [Files -> Contents]
    BY <1>0, <1>b, <2>1, <2>2, <2>3, DiskTyped DEF TypeOK, Entry
  <2> QED BY <1>0, <1>10, <2>1, <2>4, <2>5, <2>6
          DEF PutInsert, LRUInv, TypeOK, Control, BytesWithinLimit, cleanerVars
<1>11. CASE EvictOldest
  <2> DEFINE k == lruList[1]
  <2>1. k \in DOMAIN entries /\ Unlink(k) /\ mutex = "evicting"
    BY <1>0, <1>11 DEF EvictOldest, OverLimit, removeEntry, ListMatchesMap, TypeOK
  <2>2. disk' \in [Files -> Contents]
    <3>1. k \in Keys /\ disk' = [disk EXCEPT ![escapeName(k)] = NoFile]
      BY <1>a, <1>11, <2>1 DEF EvictOldest, removeEntry
    <3> HIDE DEF k
    <3> QED BY <1>0, <1>b, <3>1, DiskTyped
  <2> HIDE DEF k
  <2> QED BY <1>0, <1>11, <2>1, <2>2, UnlinkKeeps
          DEF EvictOldest, LRUInv, TypeOK, Control, BytesWithinLimit, cleanerVars
<1>12. CASE PutReturn
  <2>1. currentBytes <= MaxBytes
    <3>1. Len(lruList) = 0 => currentBytes = 0
      BY <1>0 DEF SumInv, IsSum, Totals
    <3>2. Len(lruList) \in Nat /\ currentBytes \in Nat
      BY <1>0 DEF TypeOK
    <3> QED BY <1>12, <3>1, <3>2, LimitsAssumption DEF PutReturn, OverLimit
  <2> QED BY <1>0, <1>12, <2>1, CacheUnchanged
          DEF PutReturn, LRUInv, TypeOK, Control, BytesWithinLimit, cleanerVars, cacheVars, Expired
<1>13. CASE TickerFires
  BY <1>0, <1>13, CacheUnchanged
     DEF TickerFires, LRUInv, TypeOK, Control, BytesWithinLimit, cacheVars, Expired
<1>14. CASE Select
  BY <1>0, <1>14, CacheUnchanged
     DEF Select, LRUInv, TypeOK, Control, BytesWithinLimit, cacheVars, Expired
<1>15. CASE CleanupBegin
  BY <1>0, <1>15, CacheUnchanged
     DEF CleanupBegin, LRUInv, TypeOK, Control, BytesWithinLimit, cacheVars, Expired
<1>16. CASE CleanupRemove
  <2>1. PICK k \in toRemove : removeEntry(k) /\ toRemove' = toRemove \ {k}
    BY <1>16 DEF CleanupRemove
  <2>2. k \in DOMAIN entries /\ Unlink(k) /\ mutex = "cleaning" /\ cleaner = "pass"
    BY <1>0, <1>16, <2>1 DEF CleanupRemove, Control, removeEntry
  <2>3. disk' \in [Files -> Contents]
    BY <1>0, <1>a, <1>b, <2>1, <2>2, DiskTyped DEF removeEntry
  <2>4. /\ ListMatchesMap' /\ SumInv' /\ lruList' \in Seq(Keys) /\ currentBytes' \in Nat
        /\ DOMAIN entries' \subseteq Keys /\ entries' \in [DOMAIN entries' -> Entry]
        /\ DOMAIN entries' = DOMAIN entries \ {k}
        /\ currentBytes <= MaxBytes => currentBytes' <= MaxBytes
        /\ \A j \in DOMAIN entries' : entries'[j] = entries[j]
    BY <1>0, <2>2, UnlinkKeeps
  <2>5. TypeOK'
    BY <1>0, <1>16, <2>1, <2>2, <2>3, <2>4 DEF CleanupRemove, TypeOK
  <2>6. Control' /\ BytesWithinLimit'
    BY <1>0, <1>16, <2>1, <2>2, <2>4 DEF CleanupRemove, Control, BytesWithinLimit, Expired
  <2> QED BY <2>4, <2>5, <2>6 DEF LRUInv
<1>17. CASE CleanupEnd
  BY <1>0, <1>17, CacheUnchanged
     DEF CleanupEnd, LRUInv, TypeOK, Control, BytesWithinLimit, cacheVars, Expired
<1>18. CASE Close
  BY <1>0, <1>18, CacheUnchanged
     DEF Close, LRUInv, TypeOK, Control, BytesWithinLimit, cacheVars, Expired
<1>19. CASE ClockTick
  <2>1. /\ DOMAIN entries' = DOMAIN entries /\ entries' \in [DOMAIN entries' -> Entry]
        /\ \A k \in DOMAIN entries : entries'[k].size = entries[k].size
        /\ \A k \in DOMAIN entries : Expired(k) => Expired(k)'
    <3>1. \A a \in 0..TTL + 1 : Older(a) \in 0..TTL + 1 /\ (a > TTL => Older(a) > TTL)
      BY LimitsAssumption DEF Older
    <3> QED BY <1>0, <1>19, <3>1 DEF ClockTick, TypeOK, Entry, Expired
  <2>2. ListMatchesMap'
    <3>1. lruList' = lruList /\ DOMAIN entries' = DOMAIN entries
      BY <1>19, <2>1 DEF ClockTick
    <3> QED BY <1>0, <3>1 DEF ListMatchesMap
  <2>3. SumInv'
    <3>1. \A i \in 1..Len(lruList) : lruList[i] \in DOMAIN entries /\ lruList \in Seq(Keys)
      BY <1>0, SizesFacts
    <3>2. lruList' = lruList /\ currentBytes' = currentBytes
      BY <1>19 DEF ClockTick
    <3>3. \A i \in 1..Len(lruList') : Sizes[lruList'[i]] = entries'[lruList'[i]].size
      BY <2>1, <3>1, <3>2 DEF Sizes
    <3>4. IsSum(Sizes, lruList', currentBytes') /\ lruList' \in Seq(Keys)
      BY <1>0, <3>2 DEF SumInv, TypeOK
    <3>5. \A i \in 1..Len(lruList') : lruList'[i] \in DOMAIN entries'
      BY <2>1, <3>1, <3>2
    <3> QED BY <3>3, <3>4, <3>5, SumInvAfter
  <2> QED BY <1>0, <1>19, <2>1, <2>2, <2>3
          DEF ClockTick, LRUInv, TypeOK, Control, BytesWithinLimit, cleanerVars
<1>20. CASE UNCHANGED vars
  BY <1>0, <1>20, CacheUnchanged
     DEF vars, LRUInv, TypeOK, Control, BytesWithinLimit, cacheVars, cleanerVars, Expired
<1> QED BY <1>1, <1>2, <1>3, <1>4, <1>5, <1>6, <1>7, <1>8, <1>9, <1>10, <1>11, <1>12, <1>13,
           <1>14, <1>15, <1>16, <1>17, <1>18, <1>19, <1>20
        DEF Next, Read, Mutate, PutStep, CleanupStep

\* Type correctness.
THEOREM LRUTypeCorrect == Spec => []TypeOK
  BY LRUInit, LRUStep, PTL DEF Spec, LRUInv

\* The list and the map never disagree.
THEOREM LRUListMatchesMap == Spec => []ListMatchesMap
  BY LRUInit, LRUStep, PTL DEF Spec, LRUInv

\* Outside the eviction loop the cache never holds more than maxBytes.
THEOREM LRUBytesWithinLimit == Spec => []BytesWithinLimit
  BY LRUInit, LRUStep, PTL DEF Spec, LRUInv

\* What a cleanup pass collected is still there, and expired, when it is removed.
THEOREM LRUCollectedStayExpired == Spec => []CollectedStayExpired
<1>1. LRUInv => CollectedStayExpired
  BY DEF LRUInv, Control, CollectedStayExpired
<1> QED BY <1>1, LRUInit, LRUStep, PTL DEF Spec

-----------------------------------------------------------------------------
(* A Put never evicts what it stored: its entry stands last in the list and *)
(* fits by itself, so the loop ends before it reaches the entry.           *)

PutInv ==
    /\ mutex \in {"copying", "evicting"} => SizeOf[put[2]] <= MaxBytes
    /\ mutex = "evicting" =>
          /\ put[1] \in DOMAIN entries
          /\ lruList[Len(lruList)] = put[1]
          /\ entries[put[1]].size = SizeOf[put[2]]

\* One turn of the eviction loop removes another entry than the stored one.
LEMMA EvictSparesPut ==
    ASSUME LRUInv, PutInv, EvictOldest
    PROVE  /\ put[1] \in DOMAIN entries' /\ entries'[put[1]] = entries[put[1]]
           /\ lruList'[Len(lruList')] = put[1]
<1> DEFINE k == lruList[1]
           n == Len(lruList)
<1>1. /\ k \in DOMAIN entries /\ Unlink(k) /\ mutex = "evicting" /\ currentBytes > MaxBytes
      /\ n \in Nat /\ n > 0 /\ lruList \in Seq(Keys) /\ put \in Whole
  BY DEF EvictOldest, OverLimit, removeEntry, ListMatchesMap, TypeOK, LRUInv
<1>2. n # 1
  <2> SUFFICES ASSUME n = 1 PROVE FALSE
    OBVIOUS
  <2>1. k = put[1] /\ entries[k].size = SizeOf[put[2]] /\ SizeOf[put[2]] <= MaxBytes
    BY <1>1 DEF PutInv
  <2>2. PICK acc : Totals(n, [i \in 1..n |-> Sizes[lruList[i]]], acc) /\ currentBytes = acc[n]
    BY DEF LRUInv, SumInv, IsSum
  <2>3. acc[1] = acc[0] + Sizes[k] /\ acc[0] = 0
    BY <1>1, <2>2 DEF Totals
  <2>4. Sizes[k] = entries[k].size /\ Sizes[k] \in Nat
    BY <1>1, SizesFacts DEF LRUInv
  <2> QED BY <1>1, <2>1, <2>2, <2>3, <2>4, LimitsAssumption
<1>3. Pos(k) \in 1..n /\ lruList[Pos(k)] = k /\ lruList' = Cut(lruList, Pos(k))
  BY <1>1, PosFacts DEF LRUInv, Unlink
<1>4. Pos(k) = 1
  BY <1>1, <1>3 DEF LRUInv, ListMatchesMap
<1>5. k # put[1]
  <2>1. lruList[n] = put[1] /\ \A i, j \in 1..n : lruList[i] = lruList[j] => i = j
    BY <1>1 DEF LRUInv, ListMatchesMap, PutInv
  <2>2. 1 \in 1..n /\ n \in 1..n
    <3> HIDE DEF n
    <3> QED BY <1>1
  <2> HIDE DEF n
  <2> QED BY <1>2, <2>1, <2>2
<1>6. Len(lruList') = n - 1 /\ \A i \in 1..(n - 1) : lruList'[i] = IF i < Pos(k) THEN lruList[i] ELSE lruList[i + 1]
  BY <1>1, <1>3, CutFacts
<1>7. lruList'[n - 1] = lruList[n]
  <2>1. n - 1 \in 1..(n - 1) /\ ~(n - 1 < 1) /\ (n - 1) + 1 = n
    <3> HIDE DEF n
    <3> QED BY <1>1, <1>2
  <2> QED BY <1>4, <1>6, <2>1
<1>8. put[1] \in DOMAIN entries' /\ entries'[put[1]] = entries[put[1]]
  BY <1>1, <1>5 DEF Unlink, Forget, PutInv
<1> QED BY <1>1, <1>6, <1>7, <1>8 DEF PutInv

\* Every step keeps PutInv, given LRUInv.
LEMMA PutInvStep == LRUInv /\ PutInv /\ [Next]_vars => PutInv'
<1> SUFFICES ASSUME LRUInv, PutInv, [Next]_vars PROVE PutInv'
  OBVIOUS
<1>1. ASSUME NEW r \in Readers, Read(r) PROVE PutInv'
  BY <1>1 DEF Read, ReadFile, GetStale, GetHit, CanGet, PutInv, cacheVars
<1>2. CASE Mutate
  <2>1. ASSUME NEW k \in Keys, NEW v \in Values, PutBegin(k, v) PROVE PutInv'
    <3>1. mutex' = "copying" /\ put'[2] = v /\ SizeOf[v] <= MaxBytes
      BY <2>1 DEF PutBegin, Accepts
    <3> QED BY <3>1 DEF PutInv
  <2>2. ASSUME NEW k \in Keys, NEW v \in Values, PutOpenFails(k, v) PROVE PutInv'
    BY <2>2 DEF PutOpenFails, PutInv
  <2>3. ASSUME NEW k \in Keys, Delete(k) PROVE PutInv'
    BY <2>3 DEF Delete, PutInv
  <2>4. CASE Clear \/ ClearFails
    BY <2>4 DEF Clear, ClearFails, PutInv
  <2> QED BY <1>2, <2>1, <2>2, <2>3, <2>4 DEF Mutate
<1>3. CASE PutInsert
  <2>1. lruList \in Seq(Keys) /\ put[1] \in Keys
    BY <1>3 DEF LRUInv, TypeOK, PutInsert, Whole
  <2>2. lruList' = Append(lruList, put[1])
    BY <1>3 DEF PutInsert
  <2>3. lruList'[Len(lruList')] = put[1]
    BY <2>1, <2>2
  <2>4. put' = put /\ mutex' = "evicting" /\ SizeOf[put[2]] <= MaxBytes
    BY <1>3 DEF PutInsert, PutInv
  <2>5. put[1] \in DOMAIN entries' /\ entries'[put[1]] = NewEntry(put[2])
    BY <1>3 DEF PutInsert
  <2> QED BY <2>3, <2>4, <2>5 DEF NewEntry, PutInv
<1>4. CASE EvictOldest
  BY <1>4, EvictSparesPut DEF EvictOldest, PutInv
<1>5. CASE PutWriteFails \/ PutReturn
  BY <1>5 DEF PutWriteFails, PutReturn, PutInv
<1>6. CASE CleanupStep \/ TickerFires \/ Close
  <2>1. CASE CleanupRemove
    BY <2>1 DEF CleanupRemove, LRUInv, Control, PutInv
  <2> QED BY <1>6, <2>1 DEF CleanupStep, Select, CleanupBegin, CleanupEnd, TickerFires, Close, PutInv, cacheVars
<1>7. CASE ClockTick
  <2>1. \A k \in DOMAIN entries : entries[k] \in Entry
    BY DEF LRUInv, TypeOK
  <2>2. DOMAIN entries' = DOMAIN entries /\ \A k \in DOMAIN entries : entries'[k].size = entries[k].size
    BY <1>7, <2>1 DEF ClockTick, Entry
  <2> QED BY <1>7, <2>2 DEF ClockTick, PutInv
<1>8. CASE UNCHANGED vars
  BY <1>8 DEF vars, cacheVars, PutInv
<1> QED BY <1>1, <1>2, <1>3, <1>4, <1>5, <1>6, <1>7, <1>8 DEF Next, PutStep

\* The eviction loop of a Put keeps the object that the Put stored.
THEOREM LRUPutKeepsItsKey == Spec => PutKeepsItsKey
<1>1. Init => PutInv
  BY DEF Init, PutInv
<1>2. LRUInv /\ PutInv /\ [Next]_vars => [mutex = "evicting" => put[1] \in DOMAIN entries']_vars
  <2> SUFFICES ASSUME LRUInv, PutInv, [Next]_vars, mutex = "evicting" PROVE put[1] \in DOMAIN entries'
    OBVIOUS
  <2>1. PutInv'
    BY PutInvStep
  <2>2. CASE EvictOldest
    BY <2>2, EvictSparesPut
  <2>3. CASE ~EvictOldest
    <3>1. DOMAIN entries' = DOMAIN entries
      BY <2>3 DEF LRUInv, Control, Next, Read, Mutate, PutStep, CleanupStep, ReadFile, GetStale, GetHit,
         CanGet, PutBegin, PutOpenFails, Delete, Clear, ClearFails, PutWriteFails, PutInsert, PutReturn,
         Select, CleanupBegin, CleanupRemove, CleanupEnd, TickerFires, Close, ClockTick, vars, cacheVars
    <3> QED BY <3>1 DEF PutInv
  <2> QED BY <2>2, <2>3
<1> QED BY <1>1, <1>2, LRUInit, LRUStep, PutInvStep, PTL DEF Spec, PutKeepsItsKey

-----------------------------------------------------------------------------
(* When no two keys share a file name, every file belongs to its key.      *)

DistinctNames == \A j, k \in Keys : escapeName(j) = escapeName(k) => j = k

FileInv ==
    /\ \A k \in Keys : disk[escapeName(k)] \in {NoFile, Partial} \cup ({k} \X Values)
    /\ EntryFileIntact
    /\ ReadsOwnObject

\* Removing an entry and its file leaves the other entries their files.
LEMMA RemoveKeepsFiles ==
    ASSUME DistinctNames, LRUInv, FileInv, NEW k \in DOMAIN entries, removeEntry(k), UNCHANGED reader
    PROVE  FileInv'
<1>1. /\ DOMAIN entries' = DOMAIN entries \ {k}
      /\ \A j \in DOMAIN entries' : entries'[j] = entries[j]
      /\ DOMAIN entries \subseteq Keys
  BY UnlinkKeeps DEF LRUInv, removeEntry, TypeOK
<1>2. \A j \in Keys : disk'[escapeName(j)] = IF j = k THEN NoFile ELSE disk[escapeName(j)]
  <2>1. disk' = [disk EXCEPT ![escapeName(k)] = NoFile] /\ disk \in [Files -> Contents]
    BY DEF removeEntry, LRUInv, TypeOK
  <2>2. \A j \in Keys : escapeName(j) \in Files
    BY DEF Files
  <2> QED BY <1>1, <2>1, <2>2 DEF DistinctNames
<1>3. EntryFileIntact'
  BY <1>1, <1>2 DEF FileInv, EntryFileIntact
<1> QED BY <1>2, <1>3 DEF FileInv, ReadsOwnObject

\* Every step keeps FileInv, given LRUInv and distinct names.
LEMMA FileStep == DistinctNames /\ LRUInv /\ FileInv /\ [Next]_vars => FileInv'
<1> SUFFICES ASSUME DistinctNames, LRUInv, FileInv, [Next]_vars PROVE FileInv'
  OBVIOUS
<1>a. disk \in [Files -> Contents] /\ \A j \in Keys : escapeName(j) \in Files
  BY DEF LRUInv, TypeOK, Files
<1>b. DOMAIN entries \subseteq Keys /\ \A k \in DOMAIN entries : entries[k] \in Entry
  BY DEF LRUInv, TypeOK
<1>1. ASSUME NEW r \in Readers, NEW k \in Keys, GetStale(r, k) PROVE FileInv'
  BY <1>1, RemoveKeepsFiles DEF GetStale, CanGet
<1>2. ASSUME NEW r \in Readers, NEW k \in Keys, GetHit(r, k) PROVE FileInv'
  <2>1. DOMAIN entries' = DOMAIN entries /\ \A j \in DOMAIN entries : entries'[j].size = entries[j].size
    BY <1>2, <1>b DEF GetHit, Entry
  <2>2. EntryFileIntact'
    BY <1>2, <2>1 DEF GetHit, FileInv, EntryFileIntact
  <2>3. ReadsOwnObject'
    BY <1>2 DEF GetHit, FileInv, ReadsOwnObject, LRUInv, TypeOK
  <2> QED BY <1>2, <2>2, <2>3 DEF GetHit, FileInv
<1>3. ASSUME NEW r \in Readers, ReadFile(r) PROVE FileInv'
  <2>1. reader[r].key \in Keys
    BY DEF LRUInv, TypeOK, ReaderState
  <2>2. ReadsOwnObject'
    BY <1>3, <2>1 DEF ReadFile, FileInv, ReadsOwnObject, LRUInv, TypeOK, ReaderState
  <2> QED BY <1>3, <2>2 DEF ReadFile, FileInv, EntryFileIntact, cacheVars
<1>4. ASSUME NEW k \in Keys, NEW v \in Values, PutBegin(k, v) PROVE FileInv'
  <2>1. /\ DOMAIN entries' = DOMAIN entries \ {k}
        /\ \A j \in DOMAIN entries' : entries'[j] = entries[j]
    BY <1>4 DEF PutBegin, Unlink, Forget, cacheVars
  <2>2. \A j \in Keys : disk'[escapeName(j)] = IF j = k THEN Partial ELSE disk[escapeName(j)]
    BY <1>4, <1>a DEF PutBegin, DistinctNames
  <2>3. EntryFileIntact'
    BY <2>1, <2>2, <1>b DEF FileInv, EntryFileIntact
  <2> QED BY <1>4, <2>2, <2>3 DEF PutBegin, FileInv, ReadsOwnObject
<1>5. ASSUME NEW k \in Keys, NEW v \in Values, PutOpenFails(k, v) PROVE FileInv'
  BY <1>5, RemoveKeepsFiles DEF PutOpenFails
<1>6. ASSUME NEW k \in Keys, Delete(k) PROVE FileInv'
  BY <1>6, RemoveKeepsFiles DEF Delete
<1>7. CASE Clear \/ ClearFails
  <2>1. \A j \in Keys : disk'[escapeName(j)] \in {NoFile, disk[escapeName(j)]}
    BY <1>7, <1>a DEF Clear, ClearFails
  <2>2. EntryFileIntact'
    <3>1. CASE Clear
      BY <3>1 DEF Clear, EntryFileIntact
    <3>2. CASE ClearFails
      <4>1. entries' = entries
        BY <3>2 DEF ClearFails, cacheVars
      <4> QED BY <1>b, <2>1, <4>1 DEF FileInv, EntryFileIntact
    <3> QED BY <1>7, <3>1, <3>2
  <2>3. UNCHANGED reader
    BY <1>7 DEF Clear, ClearFails
  <2> QED BY <2>1, <2>2, <2>3 DEF FileInv, ReadsOwnObject
<1>8. CASE PutInsert
  <2> DEFINE k == put[1]
  <2>1. /\ put \in {k} \X Values /\ k \in Keys /\ put = <<k, put[2]>> /\ put[2] \in Values
    BY <1>8 DEF PutInsert, LRUInv, TypeOK, Whole
  <2>2. /\ DOMAIN entries' = DOMAIN entries \cup {k}
        /\ \A j \in DOMAIN entries' : entries'[j] = IF j = k THEN NewEntry(put[2]) ELSE entries[j]
    BY <1>8 DEF PutInsert
  <2>3. \A j \in Keys : disk'[escapeName(j)] = IF j = k THEN put ELSE disk[escapeName(j)]
    BY <1>8, <1>a, <2>1 DEF PutInsert, DistinctNames
  <2>4. EntryFileIntact'
    BY <1>b, <2>1, <2>2, <2>3 DEF FileInv, EntryFileIntact, NewEntry
  <2>5. UNCHANGED reader
    BY <1>8 DEF PutInsert
  <2>6. \A j \in Keys : disk'[escapeName(j)] \in {NoFile, Partial} \cup ({j} \X Values)
    BY <2>1, <2>3 DEF FileInv
  <2> QED BY <2>4, <2>5, <2>6 DEF FileInv, ReadsOwnObject
<1>9. CASE EvictOldest
  <2>1. lruList[1] \in DOMAIN entries
    BY <1>9 DEF EvictOldest, OverLimit, LRUInv, ListMatchesMap, TypeOK
  <2> QED BY <1>9, <2>1, RemoveKeepsFiles DEF EvictOldest
<1>10. CASE CleanupRemove
  <2>1. PICK k \in toRemove : removeEntry(k)
    BY <1>10 DEF CleanupRemove
  <2>2. k \in DOMAIN entries
    BY <1>10 DEF CleanupRemove, LRUInv, Control
  <2> QED BY <1>10, <2>1, <2>2, RemoveKeepsFiles DEF CleanupRemove
<1>11. CASE ClockTick
  <2>1. DOMAIN entries' = DOMAIN entries /\ \A j \in DOMAIN entries : entries'[j].size = entries[j].size
    BY <1>11, <1>b DEF ClockTick, Entry
  <2>2. EntryFileIntact'
    <3>1. disk' = disk
      BY <1>11 DEF ClockTick
    <3> QED BY <2>1, <3>1 DEF FileInv, EntryFileIntact
  <2> QED BY <1>11, <2>2 DEF ClockTick, FileInv, ReadsOwnObject
<1>12. CASE UNCHANGED <<cacheVars, disk, reader>>
  BY <1>12 DEF FileInv, EntryFileIntact, ReadsOwnObject, cacheVars
<1>13. PutWriteFails \/ PutReturn \/ TickerFires \/ Select \/ CleanupBegin \/ CleanupEnd \/ Close
       \/ UNCHANGED vars => UNCHANGED <<cacheVars, disk, reader>>
  BY DEF PutWriteFails, PutReturn, TickerFires, Select, CleanupBegin, CleanupEnd, Close, vars
<1> QED BY <1>1, <1>2, <1>3, <1>4, <1>5, <1>6, <1>7, <1>8, <1>9, <1>10, <1>11, <1>12, <1>13
        DEF Next, Read, Mutate, PutStep, CleanupStep

\* A reader that opens the file after the mutex was released never gets
\* another object's bytes, as long as no two keys share a file name.
THEOREM LRUReadsOwnObject == ASSUME DistinctNames PROVE Spec => []ReadsOwnObject
<1>1. Init => FileInv
  BY DEF Init, FileInv, EntryFileIntact, ReadsOwnObject, Files
<1>2. FileInv => ReadsOwnObject
  BY DEF FileInv
<1>3. DistinctNames
  OBVIOUS
<1>4. LRUInv /\ FileInv /\ [Next]_vars => FileInv'
  BY <1>3, FileStep
<1> QED BY <1>1, <1>2, <1>4, LRUInit, LRUStep, PTL DEF Spec

-----------------------------------------------------------------------------
(* Names may collide: what holds of a file and of its readers even then.   *)

\* What may stand in file f: nothing, a torn copy, or what was stored for a key of that name.
Namesakes(f) == {NoFile, Partial} \cup ({k \in Keys : escapeName(k) = f} \X Values)

\* A reader that has its bytes got them from a key with the file name it asked for.
ReadsNamesake ==
    \A r \in Readers :
        reader[r].at = "done" => reader[r].data \in Namesakes(escapeName(reader[r].key))

NameInv == (\A f \in Files : disk[f] \in Namesakes(f)) /\ ReadsNamesake

LEMMA NameStep == LRUInv /\ NameInv /\ [Next]_vars => NameInv'
<1> SUFFICES ASSUME LRUInv, NameInv, [Next]_vars PROVE NameInv'
  OBVIOUS
<1>a. /\ disk \in [Files -> Contents]
      /\ reader \in [Readers -> ReaderState]
      /\ \A f : NoFile \in Namesakes(f) /\ Partial \in Namesakes(f)
  BY DEF LRUInv, TypeOK, Namesakes
<1>1. ASSUME NEW r \in Readers, ReadFile(r) PROVE NameInv'
  <2>1. reader[r].key \in Keys /\ escapeName(reader[r].key) \in Files
    BY <1>a DEF ReaderState, Files
  <2>2. \A q \in Readers : reader'[q].key = reader[q].key
    BY <1>1, <1>a DEF ReadFile, ReaderState
  <2>3. ReadsNamesake'
    BY <1>1, <1>a, <2>1, <2>2 DEF ReadFile, NameInv, ReadsNamesake, ReaderState
  <2> QED BY <1>1, <2>3 DEF ReadFile, NameInv
<1>2. ASSUME NEW r \in Readers, NEW k \in Keys, GetHit(r, k) PROVE NameInv'
  <2>1. ReadsNamesake'
    BY <1>2, <1>a DEF GetHit, NameInv, ReadsNamesake
  <2> QED BY <1>2, <2>1 DEF GetHit, NameInv
<1>3. CASE PutInsert
  <2>1. put[1] \in Keys /\ put \in Namesakes(escapeName(put[1]))
    BY <1>3 DEF PutInsert, LRUInv, TypeOK, Whole, Namesakes
  <2>2. disk' = [disk EXCEPT ![escapeName(put[1])] = put] /\ UNCHANGED reader
    BY <1>3 DEF PutInsert
  <2>3. \A f \in Files : disk'[f] \in Namesakes(f)
    BY <1>a, <2>1, <2>2 DEF NameInv
  <2> QED BY <2>2, <2>3 DEF NameInv, ReadsNamesake
<1>4. ASSUME UNCHANGED reader, \A f \in Files : disk'[f] \in {NoFile, Partial, disk[f]} PROVE NameInv'
  BY <1>4, <1>a DEF NameInv, ReadsNamesake
<1>5. ASSUME NEW k, removeEntry(k), UNCHANGED reader PROVE NameInv'
  BY <1>4, <1>5, <1>a DEF removeEntry
<1>6. ASSUME NEW k \in Keys, NEW v \in Values, PutBegin(k, v) PROVE NameInv'
  BY <1>4, <1>6, <1>a DEF PutBegin
<1>7. CASE Clear \/ ClearFails
  BY <1>4, <1>7, <1>a DEF Clear, ClearFails
<1>8. CASE UNCHANGED <<disk, reader>>
  BY <1>4, <1>8
<1>9. ASSUME PutWriteFails \/ PutReturn \/ TickerFires \/ Select \/ CleanupBegin \/ CleanupEnd \/ Close
            \/ ClockTick \/ UNCHANGED vars
      PROVE  UNCHANGED <<disk, reader>>
  BY <1>9 DEF PutWriteFails, PutReturn, TickerFires, Select, CleanupBegin, CleanupEnd, Close, ClockTick, vars
<1>10. ASSUME NEW r \in Readers, NEW k \in Keys, GetStale(r, k) PROVE NameInv'
  BY <1>5, <1>10 DEF GetStale
<1>11. ASSUME NEW k \in Keys, Delete(k) \/ (\E v \in Values : PutOpenFails(k, v)) PROVE NameInv'
  BY <1>5, <1>11 DEF Delete, PutOpenFails
<1>12. CASE EvictOldest \/ CleanupRemove
  BY <1>5, <1>12 DEF EvictOldest, CleanupRemove
<1> QED BY <1>1, <1>2, <1>3, <1>6, <1>7, <1>8, <1>9, <1>10, <1>11, <1>12
        DEF Next, Read, Mutate, PutStep, CleanupStep

\* Whatever names collide: a reader gets a torn copy or nothing, or an object stored
\* whole for a key that escapeName gives the same name (the mismatch is no wider than that).
THEOREM LRUReadsNamesake == Spec => []ReadsNamesake
<1>1. Init => NameInv
  BY DEF Init, NameInv, ReadsNamesake, Namesakes, Files
<1>2. NameInv => ReadsNamesake
  BY DEF NameInv
<1> QED BY <1>1, <1>2, LRUInit, LRUStep, NameStep, PTL DEF Spec

-----------------------------------------------------------------------------
(* currentBytes is the sum of the sizes over the entries.                   *)

\* A set of numbers that is not empty has a least one.
LEMMA LeastNat ==
    ASSUME NEW T \in SUBSET Nat, T # {}
    PROVE  \E n \in T : \A m \in T : n <= m
<1>1. PICK n \in T : \A m \in T : ~ (<<m, n>> \in OpToRel(<, Nat))
  BY NatLessThanWellFounded, WFMin
<1>2. \A m \in T : ~(m < n)
  BY <1>1 DEF OpToRel
<1> QED BY <1>2

\* The running totals along a list without repetitions end with the sum over its set.
LEMMA SumIsTally ==
    ASSUME NEW S, NEW s \in Seq(S), Distinct(s), NEW f, NEW t, IsSum(f, s, t),
           \A i \in 1..Len(s) : f[s[i]] \in Nat
    PROVE  IsFiniteSet(Elements(s)) /\ t = Tally(f, Elements(s))
<1> DEFINE n == Len(s)
           g == [i \in 1..n |-> f[s[i]]]
           Upto(i) == {s[j] : j \in 1..i}
<1>1. PICK acc : Totals(n, g, acc) /\ t = acc[n]
  BY DEF IsSum
<1>2. n \in Nat /\ acc[0] = 0 /\ \A i \in 1..n : acc[i] = acc[i - 1] + f[s[i]]
  BY <1>1 DEF Totals
<1> DEFINE T == {i \in 0..n : ~(IsFiniteSet(Units(f, Upto(i))) /\ acc[i] = Tally(f, Upto(i)))}
<1>3. T = {}
  <2> SUFFICES ASSUME T # {} PROVE FALSE
    OBVIOUS
  <2>1. PICK i \in T : \A j \in T : i <= j
    <3>1. T \in SUBSET Nat
      BY <1>2
    <3> HIDE DEF T
    <3> QED BY <3>1, LeastNat
  <2>2. i # 0
    <3>1. Upto(0) = {}
      OBVIOUS
    <3> QED BY <1>2, <3>1, TallyEmpty
  <2>3. i \in 1..n /\ i - 1 \in 0..n /\ i - 1 < i
    BY <1>2, <2>2
  <2>4. i - 1 \notin T
    <3>1. ~(i <= i - 1)
      BY <1>2, <2>3
    <3> HIDE DEF T
    <3> QED BY <2>1, <3>1
  <2>5. IsFiniteSet(Units(f, Upto(i - 1))) /\ acc[i - 1] = Tally(f, Upto(i - 1))
    BY <2>3, <2>4
  <2>6. Upto(i) = Upto(i - 1) \cup {s[i]}
    BY <2>3
  <2>7. s[i] \notin Upto(i - 1) /\ f[s[i]] \in Nat
    BY <1>2, <2>3 DEF Distinct
  <2>8. /\ IsFiniteSet(Units(f, Upto(i - 1) \cup {s[i]}))
        /\ Tally(f, Upto(i - 1) \cup {s[i]}) = Tally(f, Upto(i - 1)) + f[s[i]]
    <3> HIDE DEF Upto
    <3> QED BY <2>5, <2>7, TallyAdd
  <2>9. IsFiniteSet(Units(f, Upto(i))) /\ acc[i] = Tally(f, Upto(i))
    BY <1>2, <2>3, <2>5, <2>6, <2>8
  <2> QED BY <2>9
<1>4. n \in 0..n /\ Upto(n) = Elements(s)
  BY <1>2 DEF Elements
<1>5. t = Tally(f, Elements(s))
  BY <1>1, <1>3, <1>4
<1>6. IsFiniteSet(Elements(s))
  <2>1. s \in Surjection(1..n, Elements(s))
    BY DEF Surjection, Elements
  <2>2. IsFiniteSet(1..n)
    BY <1>2, FS_Interval
  <2> QED BY <2>1, <2>2, FS_Surjection
<1> QED BY <1>5, <1>6

LEMMA BytesAreSizes == LRUInv => BytesAccounted
<1> SUFFICES ASSUME LRUInv PROVE BytesAccounted
  OBVIOUS
<1> DEFINE S == DOMAIN entries
           Iterates(it) ==
               it = [s \in SUBSET S |-> IF s = {} THEN 0
                                        ELSE entries[Chosen(s)].size + it[s \ {Chosen(s)}]]
           it0 == CHOOSE it : Iterates(it)
<1>1. /\ \A k \in S : Sizes[k] = entries[k].size /\ Sizes[k] \in Nat
      /\ \A i \in 1..Len(lruList) : Sizes[lruList[i]] \in Nat
      /\ Distinct(lruList) /\ Elements(lruList) = S /\ lruList \in Seq(Keys)
  BY SizesFacts DEF LRUInv
<1>2. IsFiniteSet(S) /\ currentBytes = Tally(Sizes, S)
  <2>1. IsSum(Sizes, lruList, currentBytes)
    BY DEF LRUInv, SumInv
  <2> QED BY <1>1, <2>1, SumIsTally
<1>3. MapThenSumSet(LAMBDA k : entries[k].size, S) = it0[S]
  BY DEF MapThenSumSet, MapThenFoldSet, Chosen
<1>4. \A it : Iterates(it) <=> SumsUp(it, Sizes, S)
  <2>1. \A s \in SUBSET S : s # {} => Sizes[Chosen(s)] = entries[Chosen(s)].size
    BY <1>1 DEF Chosen
  <2>2. ASSUME NEW it
        PROVE  [s \in SUBSET S |-> IF s = {} THEN 0
                                   ELSE entries[Chosen(s)].size + it[s \ {Chosen(s)}]]
             = [s \in SUBSET S |-> IF s = {} THEN 0
                                   ELSE Sizes[Chosen(s)] + it[s \ {Chosen(s)}]]
    BY <2>1
  <2> QED BY Zenon, <2>2 DEF SumsUp
<1>5. \E it : SumsUp(it, Sizes, S)
  BY <1>1, <1>2, SumsUpExists
<1>6. SumsUp(it0, Sizes, S)
  <2> HIDE DEF Iterates
  <2> QED BY Zenon, <1>4, <1>5
<1> HIDE DEF it0, S
<1>7. it0[S] = Tally(Sizes, S)
  BY <1>1, <1>2, <1>6, SumsUpIsTally
<1> QED BY <1>2, <1>3, <1>7 DEF BytesAccounted, S

\* currentBytes is the sum of the sizes of the entries, whether or not keys share file
\* names (Put, removeEntry and Clear in lru.go).
THEOREM LRUBytesAccounted == Spec => []BytesAccounted
  BY LRUInit, LRUStep, BytesAreSizes, PTL DEF Spec

\* However replacements, evictions, expirations, deletions and failed copies follow one
\* another, the list, the map, the bytes and the files tell of the same cache, as long
\* as no two keys share a file name (Put, removeEntry, Clear, cleanupExpiredEntries).
THEOREM LRUCacheConsistent == ASSUME DistinctNames PROVE Spec => []CacheConsistent
<1>1. Init => FileInv
  BY DEF Init, FileInv, EntryFileIntact, ReadsOwnObject, Files
<1>2. LRUInv /\ FileInv => CacheConsistent
  BY BytesAreSizes DEF LRUInv, FileInv, CacheConsistent
<1>3. DistinctNames
  OBVIOUS
<1>4. LRUInv /\ FileInv /\ [Next]_vars => FileInv'
  BY <1>3, FileStep
<1> QED BY <1>1, <1>2, <1>4, LRUInit, LRUStep, PTL DEF Spec

-----------------------------------------------------------------------------
(* The order of the list.                                                  *)

\* What stands in front in s has been idle at least as long, in the entries e.
Sorted(e, s) == \A i, j \in 1..Len(s) : i < j => e[s[i]].idle >= e[s[j]].idle

LEMMA CutSorted ==
    ASSUME NEW S, NEW s \in Seq(S), NEW p \in 1..Len(s), NEW e, Sorted(e, s)
    PROVE  Sorted(e, Cut(s, p))
<1> DEFINE c == Cut(s, p)
           At(i) == IF i < p THEN i ELSE i + 1
<1>1. Len(c) = Len(s) - 1 /\ \A i \in 1..Len(c) : c[i] = s[At(i)]
  BY CutFacts
<1>2. \A i, j \in 1..Len(c) : i < j => At(i) \in 1..Len(s) /\ At(j) \in 1..Len(s) /\ At(i) < At(j)
  BY <1>1
<1> HIDE DEF At, c
<1>3. Sorted(e, c)
  BY <1>1, <1>2 DEF Sorted
<1> QED BY <1>3 DEF c

\* A key at the back that has not been idle at all.
LEMMA AppendSorted ==
    ASSUME NEW S, NEW s \in Seq(S), NEW k \in S, NEW e, Sorted(e, s),
           e[k].idle = 0, \A i \in 1..Len(s) : e[s[i]].idle \in Nat
    PROVE  Sorted(e, Append(s, k))
<1> DEFINE a == Append(s, k)
<1>1. Len(a) = Len(s) + 1 /\ a[Len(s) + 1] = k /\ \A i \in 1..Len(s) : a[i] = s[i]
  OBVIOUS
<1> HIDE DEF a
<1>2. ASSUME NEW i \in 1..Len(a), NEW j \in 1..Len(a), i < j PROVE e[a[i]].idle >= e[a[j]].idle
  <2>1. i \in 1..Len(s) /\ (j \in 1..Len(s) \/ j = Len(s) + 1)
    BY <1>1, <1>2
  <2>2. CASE j \in 1..Len(s)
    BY <1>1, <1>2, <2>1, <2>2 DEF Sorted
  <2>3. CASE j = Len(s) + 1
    BY <1>1, <2>1, <2>3
  <2> QED BY <2>1, <2>2, <2>3
<1> QED BY <1>2 DEF Sorted, a

\* The order does not depend on entries that are not in the list.
LEMMA SortedSame ==
    ASSUME NEW S, NEW s \in Seq(S), NEW e, NEW f, Sorted(e, s),
           \A i \in 1..Len(s) : f[s[i]].idle = e[s[i]].idle
    PROVE  Sorted(f, s)
  BY DEF Sorted

\* Where every time grows as Older has it, the order stays.
LEMMA OlderSorted ==
    ASSUME NEW S, NEW s \in Seq(S), NEW e, NEW f, Sorted(e, s),
           \A i \in 1..Len(s) : e[s[i]].idle \in 0..TTL + 1 /\ f[s[i]].idle = Older(e[s[i]].idle)
    PROVE  Sorted(f, s)
<1>1. \A a, b \in 0..TTL + 1 : a >= b => Older(a) >= Older(b)
  BY LimitsAssumption DEF Older
<1> QED BY <1>1 DEF Sorted

LEMMA IdleNat ==
    ASSUME TypeOK, ListMatchesMap
    PROVE  /\ \A k \in DOMAIN entries : entries[k] \in Entry /\ entries[k].idle \in 0..TTL + 1
                                         /\ entries[k].idle \in Nat
           /\ \A i \in 1..Len(lruList) : lruList[i] \in DOMAIN entries
<1>1. \A k \in DOMAIN entries : entries[k] \in Entry
  BY DEF TypeOK
<1>2. \A k \in DOMAIN entries : entries[k].idle \in 0..TTL + 1
  BY <1>1 DEF Entry
<1>3. \A i \in 1..Len(lruList) : lruList[i] \in DOMAIN entries
  BY SizesFacts
<1> QED BY <1>1, <1>2, <1>3, LimitsAssumption

LEMMA UnlinkSorted ==
    ASSUME TypeOK, ListMatchesMap, SumInv, Sorted(entries, lruList), NEW k \in DOMAIN entries,
           Unlink(k)
    PROVE  Sorted(entries', lruList')
<1>1. Pos(k) \in 1..Len(lruList) /\ lruList' = Cut(lruList, Pos(k)) /\ lruList \in Seq(Keys)
  BY PosFacts DEF Unlink, TypeOK
<1>2. Sorted(entries, lruList')
  BY <1>1, CutSorted
<1>3. /\ lruList' \in Seq(Keys) /\ ListMatchesMap'
      /\ \A j \in DOMAIN entries' : entries'[j] = entries[j]
  BY UnlinkKeeps
<1>4. \A i \in 1..Len(lruList') : lruList'[i] \in DOMAIN entries'
  BY <1>3 DEF ListMatchesMap
<1> QED BY <1>2, <1>3, <1>4, SortedSame

LEMMA SortedStep == LRUInv /\ Sorted(entries, lruList) /\ [Next]_vars => Sorted(entries, lruList)'
<1> SUFFICES ASSUME LRUInv, Sorted(entries, lruList), [Next]_vars
             PROVE  Sorted(entries', lruList')
  BY DEF Sorted
<1>1. /\ TypeOK /\ ListMatchesMap /\ SumInv /\ lruList \in Seq(Keys)
      /\ \A k \in DOMAIN entries : entries[k] \in Entry /\ entries[k].idle \in 0..TTL + 1
                                    /\ entries[k].idle \in Nat
      /\ \A i \in 1..Len(lruList) : lruList[i] \in DOMAIN entries
  BY IdleNat DEF LRUInv, TypeOK
<1>2. ASSUME NEW k \in DOMAIN entries, Unlink(k) PROVE Sorted(entries', lruList')
  BY <1>1, <1>2, UnlinkSorted
<1>3. ASSUME NEW r \in Readers, NEW k \in Keys, GetHit(r, k) PROVE Sorted(entries', lruList')
  <2> DEFINE c == Without(k)
  <2>1. k \in DOMAIN entries /\ entries' = [entries EXCEPT ![k].idle = 0] /\ lruList' = Append(c, k)
    BY <1>3 DEF GetHit, CanGet, MoveToBack
  <2>2. Pos(k) \in 1..Len(lruList) /\ lruList[Pos(k)] = k /\ c = Cut(lruList, Pos(k))
    BY <1>1, <2>1, PosFacts
  <2>3. Distinct(lruList) /\ Elements(lruList) = DOMAIN entries
    BY <1>1, SizesFacts
  <2> HIDE DEF c
  <2>4. c \in Seq(Keys) /\ Sorted(entries, c) /\ Elements(c) = DOMAIN entries \ {k}
    BY <1>1, <2>2, <2>3, CutFacts, CutSorted, CutDistinct
  <2>5. \A i \in 1..Len(c) : c[i] \in DOMAIN entries /\ c[i] # k
    BY <2>4 DEF Elements
  <2>6. \A j \in DOMAIN entries : j # k => entries'[j] = entries[j]
    BY <2>1
  <2>7. entries'[k].idle = 0
    BY <1>1, <2>1 DEF Entry
  <2>8. Sorted(entries', c)
    <3>1. \A i \in 1..Len(c) : entries'[c[i]].idle = entries[c[i]].idle
      BY <2>5, <2>6
    <3> QED BY <2>4, <3>1, SortedSame
  <2>9. \A i \in 1..Len(c) : entries'[c[i]].idle \in Nat
    BY <1>1, <2>5, <2>6
  <2> QED BY <2>1, <2>4, <2>7, <2>8, <2>9, AppendSorted
<1>4. CASE PutInsert
  <2> DEFINE k == put[1]
  <2>1. /\ k \in Keys /\ k \notin DOMAIN entries /\ lruList' = Append(lruList, k)
        /\ entries' = [j \in DOMAIN entries \cup {k} |-> IF j = k THEN NewEntry(put[2]) ELSE entries[j]]
    BY <1>4 DEF PutInsert, LRUInv, TypeOK, Control, Whole
  <2> HIDE DEF k
  <2>2. entries'[k].idle = 0 /\ \A j \in DOMAIN entries : entries'[j] = entries[j]
    BY <2>1 DEF NewEntry
  <2>3. Sorted(entries', lruList)
    <3>1. \A i \in 1..Len(lruList) : entries'[lruList[i]].idle = entries[lruList[i]].idle
      BY <1>1, <2>2
    <3> QED BY <1>1, <3>1, SortedSame
  <2>4. \A i \in 1..Len(lruList) : entries'[lruList[i]].idle \in Nat
    BY <1>1, <2>2
  <2> QED BY <1>1, <2>1, <2>2, <2>3, <2>4, AppendSorted
<1>5. CASE Clear
  BY <1>5 DEF Clear, Sorted
<1>6. CASE ClockTick
  <2>1. lruList' = lruList /\ \A k \in DOMAIN entries : entries'[k].idle = Older(entries[k].idle)
    BY <1>1, <1>6 DEF ClockTick, Entry
  <2>2. \A i \in 1..Len(lruList) : /\ entries[lruList[i]].idle \in 0..TTL + 1
                                    /\ entries'[lruList[i]].idle = Older(entries[lruList[i]].idle)
    BY <1>1, <2>1
  <2>3. Sorted(entries', lruList)
    BY <1>1, <2>2, OlderSorted
  <2> QED BY <2>1, <2>3
<1>7. CASE UNCHANGED cacheVars
  BY <1>7 DEF cacheVars
<1>8. ASSUME NEW r \in Readers, Read(r) PROVE Sorted(entries', lruList')
  BY <1>2, <1>3, <1>7, <1>8 DEF Read, ReadFile, GetStale, CanGet, removeEntry
<1>9. CASE Mutate
  BY <1>2, <1>5, <1>7, <1>9 DEF Mutate, PutBegin, PutOpenFails, Delete, ClearFails, removeEntry
<1>10. CASE PutStep
  <2>1. CASE EvictOldest
    <3>1. lruList[1] \in DOMAIN entries /\ Unlink(lruList[1])
      BY <1>1, <2>1 DEF EvictOldest, OverLimit, removeEntry
    <3> QED BY <1>2, <3>1
  <2> QED BY <1>4, <1>7, <1>10, <2>1 DEF PutStep, PutWriteFails, PutReturn
<1>11. CASE CleanupStep
  <2>1. CASE CleanupRemove
    BY <1>2, <2>1 DEF CleanupRemove, LRUInv, Control, removeEntry
  <2> QED BY <1>7, <1>11, <2>1 DEF CleanupStep, Select, CleanupBegin, CleanupEnd
<1>12. CASE TickerFires \/ Close \/ UNCHANGED vars
  BY <1>7, <1>12 DEF TickerFires, Close, vars
<1> QED BY <1>6, <1>8, <1>9, <1>10, <1>11, <1>12 DEF Next

\* The list is in the order of LastUsedAt, so that the front which the eviction loop
\* takes is the least recently used entry (Get, Put).
THEOREM LRURecencyOrder == Spec => []RecencyOrder
<1>1. Init => Sorted(entries, lruList)
  BY DEF Init, Sorted
<1>2. Sorted(entries, lruList) => RecencyOrder
  BY DEF Sorted, RecencyOrder
<1> QED BY <1>1, <1>2, LRUInit, LRUStep, SortedStep, PTL DEF Spec

=============================================================================
