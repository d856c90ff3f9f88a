-------------------------- MODULE DhtSearchProofs --------------------------
(***************************************************************************)
(* Theorems about the searches, for any nodes and replies and any limits:  *)
(* what sort_node_and_unique does to a list, what a search reports, how    *)
(* many queries it has in flight, whom it asks, when it stops.             *)
(***************************************************************************)
EXTENDS DhtSearch, DataLemmas, SequenceTheorems

-----------------------------------------------------------------------------
(* sort_node_and_unique *)

Sorted(s) == \A i, j \in 1..Len(s) : i < j => s[i][1] <= s[j][1]

\* Neighbours differ.
NoRepeat(s) == \A i \in 2..Len(s) : s[i] # s[i - 1]

(* Distances are naturals. *)
LEMMA Distances == \A e \in Entries : e[1] \in Nat /\ e[2] \in Endpoints
BY DhtSearchAssumption

(* There is a place for an entry, before the first that is farther. *)
LEMMA PlaceExists ==
    ASSUME NEW s \in Seq(Entries), NEW e \in Entries
    PROVE  /\ Place(s, e) \in 1..(Len(s) + 1)
           /\ \A i \in 1..(Place(s, e) - 1) : s[i][1] <= e[1]
           /\ Place(s, e) <= Len(s) => s[Place(s, e)][1] > e[1]
<1> DEFINE S == {k \in 1..(Len(s) + 1) : k = Len(s) + 1 \/ s[k][1] > e[1]}
<1>1. Len(s) \in Nat /\ S \in SUBSET Nat /\ Len(s) + 1 \in S
  OBVIOUS
<1>2. PICK m \in S : \A k \in S : m <= k
  BY <1>1, LeastNatural
<1>3. ASSUME NEW i \in 1..(m - 1)
      PROVE  s[i][1] <= e[1]
  <2>1. i \in 1..Len(s) /\ i \notin S
    BY <1>1, <1>2
  <2>2. s[i] \in Entries /\ ~(s[i][1] > e[1])
    BY <2>1
  <2>3. QED
    BY <2>2, Distances
<1>4. m \in 1..(Len(s) + 1) /\ (m <= Len(s) => s[m][1] > e[1])
  BY <1>1, <1>2
<1>5. \E k \in 1..(Len(s) + 1) : /\ \A i \in 1..(k - 1) : s[i][1] <= e[1]
                                 /\ k <= Len(s) => s[k][1] > e[1]
  BY <1>3, <1>4
<1>6. QED
  BY <1>5 DEF Place

(* InsertAt, index by index. *)
LEMMA InsertIndexes ==
    ASSUME NEW s \in Seq(Entries), NEW e \in Entries, NEW k \in 1..(Len(s) + 1)
    PROVE  /\ InsertAt(s, k, e) \in Seq(Entries)
           /\ Len(InsertAt(s, k, e)) = Len(s) + 1
           /\ \A i \in 1..(Len(s) + 1) :
                  InsertAt(s, k, e)[i] = IF i < k THEN s[i] ELSE IF i = k THEN e ELSE s[i - 1]
<1>1. Len(s) \in Nat /\ k \in Nat /\ 1 <= k /\ k <= Len(s) + 1
  OBVIOUS
<1>2. PICK a : a = SubSeq(s, 1, k - 1)
  OBVIOUS
<1>3. a \in Seq(Entries) /\ Len(a) = k - 1 /\ \A i \in 1..(k - 1) : a[i] = s[i]
  <2>1. \A i \in 1..(k - 1) : s[i] \in Entries
    BY <1>1
  <2>2. k - 1 \in Int /\ 1 \in Int
    BY <1>1
  <2>3. QED
    BY <1>1, <1>2, <2>1, <2>2, SubSeqProperties
<1>4. PICK b : b = SubSeq(s, k, Len(s))
  OBVIOUS
<1>5. b \in Seq(Entries) /\ Len(b) = Len(s) + 1 - k
      /\ \A i \in 1..(Len(s) + 1 - k) : b[i] = s[k + i - 1]
  <2>1. \A i \in k..Len(s) : s[i] \in Entries
    BY <1>1
  <2>2. k \in Int /\ Len(s) \in Int
    BY <1>1
  <2>3. /\ b \in Seq(Entries) /\ Len(b) = IF k <= Len(s) THEN Len(s) - k + 1 ELSE 0
        /\ \A i \in 1..(Len(s) - k + 1) : b[i] = s[k + i - 1]
    BY <1>4, <2>1, <2>2, SubSeqProperties
  <2>4. QED
    BY <1>1, <2>3
<1>6. PICK c : c = a \o <<e>>
  OBVIOUS
<1>7. c \in Seq(Entries) /\ Len(c) = k /\ c[k] = e /\ \A i \in 1..(k - 1) : c[i] = s[i]
  <2>1. <<e>> \in Seq(Entries) /\ Len(<<e>>) = 1 /\ <<e>>[1] = e
    OBVIOUS
  <2>2. /\ c \in Seq(Entries) /\ Len(c) = k
        /\ \A i \in 1..k : c[i] = IF i <= k - 1 THEN a[i] ELSE <<e>>[i - (k - 1)]
    BY <1>1, <1>3, <1>6, <2>1, ConcatProperties
  <2>3. QED
    BY <1>1, <1>3, <2>1, <2>2
<1>8. PICK t : t = c \o b
  OBVIOUS
<1>9. /\ t \in Seq(Entries) /\ Len(t) = Len(s) + 1
      /\ \A i \in 1..(Len(s) + 1) : t[i] = IF i <= k THEN c[i] ELSE b[i - k]
  <2>1. /\ t \in Seq(Entries) /\ Len(t) = Len(c) + Len(b)
        /\ \A i \in 1..(Len(c) + Len(b)) : t[i] = IF i <= Len(c) THEN c[i] ELSE b[i - Len(c)]
    BY <1>5, <1>7, <1>8, ConcatProperties
  <2>2. Len(c) + Len(b) = Len(s) + 1
    BY <1>1, <1>5, <1>7
  <2>3. QED
    BY <1>7, <2>1, <2>2
<1>10. ASSUME NEW i \in (k + 1)..(Len(s) + 1)
       PROVE  t[i] = s[i - 1]
  <2>1. i - k \in 1..(Len(s) + 1 - k) /\ k + (i - k) - 1 = i - 1 /\ i \in 1..(Len(s) + 1) /\ ~(i <= k)
    BY <1>1
  <2>2. t[i] = b[i - k]
    BY <1>9, <2>1
  <2>3. b[i - k] = s[k + (i - k) - 1]
    BY <1>5, <2>1
  <2>4. QED
    BY <2>1, <2>2, <2>3
<1>11. ASSUME NEW i \in 1..(Len(s) + 1)
       PROVE  t[i] = IF i < k THEN s[i] ELSE IF i = k THEN e ELSE s[i - 1]
  BY <1>1, <1>7, <1>9, <1>10
<1>12. InsertAt(s, k, e) = t
  BY <1>2, <1>4, <1>6, <1>8 DEF InsertAt
<1>13. QED
  BY <1>9, <1>11, <1>12

(* One step of the insertion sort. *)
InsertEntry(s, e) == InsertAt(s, Place(s, e), e)

(* Inserting an entry keeps a list sorted and everything in it. *)
LEMMA InsertKeeps ==
    ASSUME NEW s \in Seq(Entries), Sorted(s), NEW e \in Entries
    PROVE  /\ InsertEntry(s, e) \in Seq(Entries) /\ Sorted(InsertEntry(s, e))
           /\ Range(InsertEntry(s, e)) = Range(s) \cup {e}
<1>1. PICK k : k = Place(s, e)
  OBVIOUS
<1>2. PICK t : t = InsertEntry(s, e)
  OBVIOUS
<1>3. PICK n \in Nat : n = Len(s)
  OBVIOUS
<1>4. /\ k \in 1..(n + 1)
      /\ \A i \in 1..(k - 1) : s[i][1] <= e[1]
      /\ k <= n => s[k][1] > e[1]
  BY <1>1, <1>3, PlaceExists
<1>5. /\ t \in Seq(Entries) /\ Len(t) = n + 1
      /\ \A i \in 1..(n + 1) : t[i] = IF i < k THEN s[i] ELSE IF i = k THEN e ELSE s[i - 1]
  <2>1. t = InsertAt(s, k, e) /\ k \in 1..(Len(s) + 1)
    BY <1>1, <1>2, <1>3, <1>4 DEF InsertEntry
  <2>2. QED
    BY <1>3, <2>1, InsertIndexes
<1>6. \A i \in 1..n : s[i] \in Entries /\ s[i][1] \in Nat
  BY <1>3, Distances
<1>7. \A i \in 1..n : i >= k => e[1] <= s[i][1]
  <2>1. e[1] \in Nat
    BY Distances
  <2>2. \A i \in 1..n : i > k => s[k][1] <= s[i][1]
    BY <1>3, <1>4 DEF Sorted
  <2>3. QED
    BY <1>4, <1>6, <2>1, <2>2
<1>8. Sorted(t)
  <2>1. ASSUME NEW i \in 1..(n + 1), NEW j \in 1..(n + 1), i < j
        PROVE  t[i][1] <= t[j][1]
    <3>1. CASE j < k
      BY <1>3, <1>4, <1>5, <2>1, <3>1 DEF Sorted
    <3>2. CASE j = k
      BY <1>4, <1>5, <2>1, <3>2
    <3>3. CASE j > k /\ i < k
      <4>1. t[i] = s[i] /\ t[j] = s[j - 1] /\ i \in 1..n /\ j - 1 \in 1..n /\ i <= j - 1
        BY <1>4, <1>5, <2>1, <3>3
      <4>2. CASE i = j - 1
        BY <1>6, <4>1, <4>2
      <4>3. CASE i < j - 1
        BY <1>3, <4>1, <4>3 DEF Sorted
      <4>4. QED
        BY <4>1, <4>2, <4>3
    <3>4. CASE j > k /\ i = k
      <4>1. t[i] = e /\ t[j] = s[j - 1] /\ j - 1 \in 1..n /\ j - 1 >= k
        BY <1>4, <1>5, <2>1, <3>4
      <4>2. QED
        BY <1>7, <4>1
    <3>5. CASE j > k /\ i > k
      BY <1>3, <1>4, <1>5, <2>1, <3>5 DEF Sorted
    <3>6. QED
      BY <1>4, <3>1, <3>2, <3>3, <3>4, <3>5
  <2>2. QED
    BY <1>5, <2>1 DEF Sorted
<1>9. Range(t) \subseteq Range(s) \cup {e}
  <2>1. \A i \in DOMAIN t : t[i] = e \/ \E j \in DOMAIN s : t[i] = s[j]
    BY <1>3, <1>4, <1>5
  <2>2. QED
    BY <2>1 DEF Range
<1>10. e \in Range(t)
  BY <1>4, <1>5 DEF Range
<1>11. ASSUME NEW i \in 1..n
       PROVE  s[i] \in Range(t)
  <2>1. CASE i < k
    BY <1>5, <2>1 DEF Range
  <2>2. CASE i >= k
    <3>1. i + 1 \in 1..(n + 1) /\ t[i + 1] = s[i]
      BY <1>4, <1>5, <2>2
    <3>2. QED
      BY <1>5, <3>1 DEF Range
  <2>3. QED
    BY <1>4, <2>1, <2>2
<1>12. Range(s) \subseteq Range(t)
  BY <1>3, <1>11 DEF Range
<1>13. QED
  BY <1>2, <1>5, <1>8, <1>9, <1>10, <1>12
-----------------------------------------------------------------------------
(* ByDistance *)

(* The step of the function inside ByDistance. *)
SortStep(s, g, i) == IF i = 0 THEN << >> ELSE InsertEntry(g[i - 1], s[i])

(* The recursive function inside ByDistance exists. *)
LEMMA SortExists ==
    ASSUME NEW s
    PROVE  \A n \in Nat : \E g : g = [i \in 0..n |-> SortStep(s, g, i)]
<1> DEFINE N == {n \in Nat : \E g : g = [i \in 0..n |-> SortStep(s, g, i)]}
<1>1. 0 \in N
  <2> DEFINE g == [i \in 0..0 |-> << >>]
  <2>1. g = [i \in 0..0 |-> SortStep(s, g, i)]
    BY DEF SortStep
  <2>2. QED
    BY <2>1
<1>2. ASSUME NEW n \in Nat, n \in N
      PROVE  n + 1 \in N
  <2>1. PICK g : g = [i \in 0..n |-> SortStep(s, g, i)]
    BY <1>2
  <2> DEFINE h == [i \in 0..(n + 1) |-> SortStep(s, g, i)]
  <2>2. \A i \in 0..n : h[i] = g[i]
    BY <2>1
  <2>3. h = [i \in 0..(n + 1) |-> SortStep(s, g, i)]
    OBVIOUS
  <2> HIDE DEF h
  <2>4. ASSUME NEW i \in 0..(n + 1)
        PROVE  SortStep(s, h, i) = SortStep(s, g, i)
    <3>1. CASE i = 0
      BY <3>1 DEF SortStep
    <3>2. CASE i # 0
      <4>1. i - 1 \in 0..n
        BY <3>2
      <4>2. h[i - 1] = g[i - 1]
        BY <2>2, <4>1
      <4>3. QED
        BY <4>2 DEF SortStep
    <3>3. QED
      BY <3>1, <3>2
  <2>5. h = [i \in 0..(n + 1) |-> SortStep(s, h, i)]
    BY <2>3, <2>4
  <2>6. \E k : k = [i \in 0..(n + 1) |-> SortStep(s, k, i)]
    BY <2>5
  <2>7. QED
    BY <2>6
<1>3. Nat \subseteq N
  BY <1>1, <1>2, SetInduction
<1>4. QED
  BY <1>3

(* The sort, insertion by insertion. *)
Sorting(s, f) ==
    /\ f[0] = << >>
    /\ \A i \in 1..Len(s) : f[i] = InsertEntry(f[i - 1], s[i])

LEMMA SortUnfold ==
    ASSUME NEW s \in Seq(Entries)
    PROVE  \E f : Sorting(s, f) /\ ByDistance(s) = f[Len(s)]
<1> DEFINE IsSort(g) == g = [i \in 0..Len(s) |-> SortStep(s, g, i)]
           F == CHOOSE g : IsSort(g)
<1>1. IsSort(F)
  <2>1. Len(s) \in Nat
    OBVIOUS
  <2>2. \E g : IsSort(g)
    BY <2>1, SortExists
  <2>3. QED
    BY <2>2
<1>2. ByDistance(s) = F[Len(s)]
  BY DEF ByDistance, SortStep, InsertEntry
<1> HIDE DEF F
<1>3. \A i \in 0..Len(s) : F[i] = SortStep(s, F, i)
  BY <1>1
<1>4. F[0] = << >>
  <2>1. 0 \in 0..Len(s)
    OBVIOUS
  <2>2. QED
    BY <1>3, <2>1 DEF SortStep
<1>5. ASSUME NEW i \in 1..Len(s)
      PROVE  F[i] = InsertEntry(F[i - 1], s[i])
  <2>1. i \in 0..Len(s) /\ i # 0
    OBVIOUS
  <2>2. QED
    BY <1>3, <2>1 DEF SortStep
<1>6. QED
  BY <1>2, <1>4, <1>5 DEF Sorting

(* Every list on the way is sorted and holds what has been inserted. *)
LEMMA SortingSorts ==
    ASSUME NEW s \in Seq(Entries), NEW f, Sorting(s, f)
    PROVE  \A i \in 0..Len(s) :
               /\ f[i] \in Seq(Entries) /\ Sorted(f[i])
               /\ Range(f[i]) = {s[j] : j \in 1..i}
<1> DEFINE Good(i) == /\ f[i] \in Seq(Entries) /\ Sorted(f[i])
                      /\ Range(f[i]) = {s[j] : j \in 1..i}
           N == {n \in Nat : n <= Len(s) => Good(n)}
<1>1. 0 \in N
  <2>1. f[0] = << >>
    BY DEF Sorting
  <2>2. f[0] \in Seq(Entries) /\ Len(f[0]) = 0
    BY <2>1
  <2>3. Sorted(f[0])
    BY <2>2 DEF Sorted
  <2>4. Range(f[0]) = {}
    BY <2>1 DEF Range
  <2>5. QED
    BY <2>2, <2>3, <2>4
<1>2. ASSUME NEW n \in Nat, n \in N
      PROVE  n + 1 \in N
  <2>1. ASSUME n + 1 <= Len(s)
        PROVE  Good(n + 1)
    <3>1. Good(n) /\ n + 1 \in 1..Len(s)
      BY <1>2, <2>1
    <3>2. s[n + 1] \in Entries
      BY <3>1
    <3>3. f[n + 1] = InsertEntry(f[n], s[n + 1])
      <4>1. f[n + 1] = InsertEntry(f[(n + 1) - 1], s[n + 1])
        BY <3>1 DEF Sorting
      <4>2. (n + 1) - 1 = n
        OBVIOUS
      <4>3. QED
        BY <4>1, <4>2
    <3>4. PICK g, e : g = f[n] /\ e = s[n + 1] /\ e \in Entries
      BY <3>2
    <3>5. g \in Seq(Entries) /\ Sorted(g) /\ Range(g) = {s[j] : j \in 1..n}
      BY <3>1, <3>4
    <3>6. f[n + 1] \in Seq(Entries) /\ Sorted(f[n + 1]) /\ Range(f[n + 1]) = Range(g) \cup {e}
      BY <3>3, <3>4, <3>5, InsertKeeps
    <3>7. {s[j] : j \in 1..(n + 1)} = {s[j] : j \in 1..n} \cup {s[n + 1]}
      BY <3>1
    <3>8. QED
      BY <3>4, <3>5, <3>6, <3>7
  <2>2. QED
    BY <2>1
<1>3. Nat \subseteq N
  BY <1>1, <1>2, SetInduction
<1>4. ASSUME NEW i \in 0..Len(s)
      PROVE  Good(i)
  <2>1. i \in Nat /\ i <= Len(s)
    OBVIOUS
  <2>2. i \in N
    BY <1>3, <2>1
  <2>3. QED
    BY <2>1, <2>2
<1>5. QED
  BY <1>4
(* c is within t, in order, and no element of it has its like before it. *)
Apart(c, t, g) ==
    /\ g \in [1..Len(c) -> 1..Len(t)]
    /\ \A i, j \in 1..Len(c) : i < j => g[i] < g[j]
    /\ \A i \in 1..Len(c) : t[g[i]] = c[i] /\ (g[i] = 1 \/ t[g[i] - 1] # t[g[i]])

(* Inserting another entry leaves c within the list: an entry goes behind its *)
(* equals.                                                                    *)
LEMMA InsertApart ==
    ASSUME NEW s \in Seq(Entries), Sorted(s), NEW e \in Entries,
           NEW c \in Seq(Entries), NEW g, Apart(c, s, g)
    PROVE  \E h : Apart(c, InsertEntry(s, e), h)
<1>1. PICK n \in Nat, m \in Nat : n = Len(s) /\ m = Len(c)
  OBVIOUS
<1>2. PICK k : k = Place(s, e)
  OBVIOUS
<1>3. PICK t : t = InsertEntry(s, e)
  OBVIOUS
<1>4. k \in 1..(n + 1) /\ (k <= n => s[k][1] > e[1])
  BY <1>1, <1>2, PlaceExists
<1>5. /\ t \in Seq(Entries) /\ Len(t) = n + 1
      /\ \A i \in 1..(n + 1) : t[i] = IF i < k THEN s[i] ELSE IF i = k THEN e ELSE s[i - 1]
  <2>1. t = InsertAt(s, k, e) /\ k \in 1..(Len(s) + 1)
    BY <1>1, <1>2, <1>3, <1>4 DEF InsertEntry
  <2>2. /\ InsertAt(s, k, e) \in Seq(Entries)
        /\ Len(InsertAt(s, k, e)) = Len(s) + 1
        /\ \A i \in 1..(Len(s) + 1) :
               InsertAt(s, k, e)[i] = IF i < k THEN s[i] ELSE IF i = k THEN e ELSE s[i - 1]
    <3>1. k \in 1..(Len(s) + 1)
      BY <2>1
    <3>2. QED
      BY ONLY <3>1, s \in Seq(Entries), e \in Entries, InsertIndexes
  <2>3. QED
    BY <1>1, <2>1, <2>2
<1>6. /\ g \in [1..m -> 1..n]
      /\ \A i, j \in 1..m : i < j => g[i] < g[j]
      /\ \A i \in 1..m : s[g[i]] = c[i] /\ (g[i] = 1 \/ s[g[i] - 1] # s[g[i]])
  BY <1>1 DEF Apart
<1> DEFINE h == [i \in 1..m |-> IF g[i] < k THEN g[i] ELSE g[i] + 1]
<1>7. \A i \in 1..m : h[i] = IF g[i] < k THEN g[i] ELSE g[i] + 1
  OBVIOUS
<1>8. h \in [1..m -> 1..(n + 1)]
  BY <1>6
<1> HIDE DEF h
<1>9. \A i, j \in 1..m : i < j => h[i] < h[j]
  BY <1>4, <1>6, <1>7
<1>10. ASSUME NEW i \in 1..m
       PROVE  t[h[i]] = c[i] /\ (h[i] = 1 \/ t[h[i] - 1] # t[h[i]])
  <2>1. g[i] \in 1..n /\ s[g[i]] = c[i] /\ (g[i] = 1 \/ s[g[i] - 1] # s[g[i]])
    BY <1>6
  <2>2. CASE g[i] < k
    <3>1. h[i] = g[i] /\ t[g[i]] = s[g[i]]
      BY <1>5, <1>7, <2>1, <2>2
    <3>2. g[i] # 1 => t[g[i] - 1] = s[g[i] - 1]
      BY <1>4, <1>5, <2>1, <2>2
    <3>3. QED
      BY <2>1, <3>1, <3>2
  <2>3. CASE g[i] = k
    <3>1. h[i] = k + 1 /\ h[i] - 1 = k /\ t[k + 1] = s[k] /\ t[k] = e
      <4>1. h[i] = k + 1 /\ k \in 1..n /\ k + 1 \in 1..(n + 1) /\ (k + 1) - 1 = k
        BY <1>4, <1>7, <2>1, <2>3
      <4>2. t[k] = e /\ t[k + 1] = s[(k + 1) - 1]
        BY <1>4, <1>5, <4>1
      <4>3. QED
        BY <4>1, <4>2
    <3>2. s[k][1] > e[1] /\ e[1] \in Nat
      BY <1>4, <2>1, <2>3, Distances
    <3>3. s[k] # e
      BY <3>2
    <3>4. QED
      BY <2>1, <2>3, <3>1, <3>3
  <2>4. CASE g[i] > k
    <3>1. h[i] = g[i] + 1 /\ h[i] - 1 = g[i] /\ g[i] # 1
      BY <1>4, <1>7, <2>1, <2>4
    <3>2. t[g[i] + 1] = s[g[i]] /\ t[g[i]] = s[g[i] - 1]
      BY <1>4, <1>5, <2>1, <2>4
    <3>3. QED
      BY <2>1, <3>1, <3>2
  <2>5. QED
    BY <1>4, <2>1, <2>2, <2>3, <2>4
<1>11. Apart(c, t, h)
  BY <1>1, <1>5, <1>8, <1>9, <1>10 DEF Apart
<1>12. QED
  BY <1>3, <1>11

(* A list that begins with a sorted one: that is sorted first, and stays.    *)
LEMMA SortingPrefix ==
    ASSUME NEW s \in Seq(Entries), NEW f, Sorting(s, f),
           NEW c \in Seq(Entries), Sorted(c), Len(c) <= Len(s),
           \A i \in 1..Len(c) : s[i] = c[i]
    PROVE  Len(f[Len(c)]) = Len(c) /\ \A j \in 1..Len(c) : f[Len(c)][j] = c[j]
<1>1. PICK m \in Nat : m = Len(c)
  OBVIOUS
<1> DEFINE Good(i) == Len(f[i]) = i /\ \A j \in 1..i : f[i][j] = c[j]
           N == {n \in Nat : n <= m => Good(n)}
<1>2. 0 \in N
  BY DEF Sorting
<1>3. ASSUME NEW n \in Nat, n \in N
      PROVE  n + 1 \in N
  <2>1. ASSUME n + 1 <= m
        PROVE  Good(n + 1)
    <3>1. Good(n) /\ n + 1 \in 1..Len(s) /\ n \in 0..Len(s) /\ s[n + 1] = c[n + 1]
      BY <1>1, <1>3, <2>1
    <3>2. PICK t, e : t = f[n] /\ e = c[n + 1]
      OBVIOUS
    <3>3. t \in Seq(Entries) /\ e \in Entries /\ Len(t) = n /\ \A j \in 1..n : t[j] = c[j]
      BY <1>1, <2>1, <3>1, <3>2, SortingSorts
    <3>4. f[n + 1] = InsertEntry(t, e)
      <4>1. f[n + 1] = InsertEntry(f[(n + 1) - 1], s[n + 1])
        BY <3>1 DEF Sorting
      <4>2. (n + 1) - 1 = n
        OBVIOUS
      <4>3. QED
        BY <3>1, <3>2, <4>1, <4>2
    <3>5. Place(t, e) = n + 1
      <4>1. PICK k : k = Place(t, e)
        OBVIOUS
      <4>2. k \in 1..(n + 1) /\ (k <= n => t[k][1] > e[1])
        BY <3>3, <4>1, PlaceExists
      <4>3. ASSUME k <= n
            PROVE  FALSE
        <5>1. t[k] = c[k] /\ c[k][1] <= c[n + 1][1]
          BY <1>1, <2>1, <3>3, <4>2, <4>3 DEF Sorted
        <5>2. c[k] \in Entries
          BY <1>1, <2>1, <4>2
        <5>3. c[k][1] \in Nat /\ e[1] \in Nat
          BY <3>3, <5>2, Distances
        <5>4. QED
          BY <3>2, <4>2, <4>3, <5>1, <5>3
      <4>4. QED
        BY <4>1, <4>2, <4>3
    <3>6. /\ Len(f[n + 1]) = n + 1
          /\ \A i \in 1..(n + 1) : f[n + 1][i] =
                 IF i < n + 1 THEN t[i] ELSE IF i = n + 1 THEN e ELSE t[i - 1]
      <4>1. f[n + 1] = InsertAt(t, n + 1, e) /\ n + 1 \in 1..(Len(t) + 1)
        BY <3>3, <3>4, <3>5 DEF InsertEntry
      <4>2. /\ Len(InsertAt(t, n + 1, e)) = Len(t) + 1
            /\ \A i \in 1..(Len(t) + 1) : InsertAt(t, n + 1, e)[i] =
                   IF i < n + 1 THEN t[i] ELSE IF i = n + 1 THEN e ELSE t[i - 1]
        BY <3>3, <4>1, InsertIndexes
      <4>3. QED
        BY <3>3, <4>1, <4>2
    <3>7. ASSUME NEW j \in 1..(n + 1)
          PROVE  f[n + 1][j] = c[j]
      <4>1. CASE j = n + 1
        BY <3>2, <3>6, <4>1
      <4>2. CASE j # n + 1
        <5>1. j \in 1..n /\ j < n + 1
          BY <4>2
        <5>2. QED
          BY <3>3, <3>6, <5>1
      <4>3. QED
        BY <4>1, <4>2
    <3>8. QED
      BY <3>6, <3>7
  <2>2. QED
    BY <2>1
<1>4. Nat \subseteq N
  BY <1>2, <1>3, SetInduction
<1>5. QED
  BY <1>1, <1>4

LEMMA SortingApart ==
    ASSUME NEW s \in Seq(Entries), NEW f, Sorting(s, f),
           ByDistance(s) = f[Len(s)],
           NEW c \in Seq(Entries), Sorted(c), NoRepeat(c), Len(c) <= Len(s),
           \A i \in 1..Len(c) : s[i] = c[i]
    PROVE  \E g : Apart(c, ByDistance(s), g)
<1>1. PICK m \in Nat, n \in Nat : m = Len(c) /\ n = Len(s)
  OBVIOUS
<1> DEFINE N == {d \in Nat : m + d <= n => \E g : Apart(c, f[m + d], g)}
<1>2. 0 \in N
  <2> DEFINE g == [i \in 1..m |-> i]
  <2>1. Len(f[m]) = m /\ \A j \in 1..m : f[m][j] = c[j]
    BY <1>1, SortingPrefix
  <2>2. \A i \in 1..m : i = 1 \/ c[i - 1] # c[i]
    BY <1>1 DEF NoRepeat
  <2>3. Apart(c, f[m], g)
    BY <1>1, <2>1, <2>2 DEF Apart
  <2>4. m + 0 = m
    OBVIOUS
  <2>5. QED
    BY <2>3, <2>4
<1>3. ASSUME NEW d \in Nat, d \in N
      PROVE  d + 1 \in N
  <2>1. ASSUME m + (d + 1) <= n
        PROVE  \E g : Apart(c, f[m + (d + 1)], g)
    <3>1. PICK t, e : t = f[m + d] /\ e = s[m + d + 1]
      OBVIOUS
    <3>2. m + d \in 0..Len(s) /\ m + d + 1 \in 1..Len(s)
      BY <1>1, <2>1
    <3>3. t \in Seq(Entries) /\ Sorted(t) /\ e \in Entries
      BY <3>1, <3>2, SortingSorts
    <3>4. PICK g : Apart(c, t, g)
      BY <1>3, <2>1, <3>1
    <3>5. f[m + (d + 1)] = InsertEntry(t, e)
      <4>1. f[m + d + 1] = InsertEntry(f[(m + d + 1) - 1], s[m + d + 1])
        BY <3>2 DEF Sorting
      <4>2. (m + d + 1) - 1 = m + d /\ m + (d + 1) = m + d + 1
        OBVIOUS
      <4>3. QED
        BY <3>1, <4>1, <4>2
    <3>6. QED
      BY <3>3, <3>4, <3>5, InsertApart
  <2>2. QED
    BY <2>1
<1>4. Nat \subseteq N
  BY <1>2, <1>3, SetInduction
<1>5. n - m \in N /\ m + (n - m) = n
  <2>1. n - m \in Nat /\ m + (n - m) = n
    BY <1>1
  <2>2. QED
    BY <1>4, <2>1
<1>6. \E g : Apart(c, f[n], g)
  BY <1>5
<1>7. ByDistance(s) = f[n]
  BY <1>1
<1>8. QED
  BY <1>6, <1>7
-----------------------------------------------------------------------------
(* DedupBy *)

(* An increasing map of indices is nowhere below the identity. *)
LEMMA IncreasingAbove ==
    ASSUME NEW m \in Nat, NEW n \in Nat, NEW h \in [1..m -> 1..n],
           \A j, k \in 1..m : j < k => h[j] < h[k]
    PROVE  \A k \in 1..m : k <= h[k]
<1> DEFINE N == {k \in Nat : k \in 1..m => k <= h[k]}
<1>1. 0 \in N
  OBVIOUS
<1>2. ASSUME NEW k \in Nat, k \in N
      PROVE  k + 1 \in N
  <2>1. ASSUME k + 1 \in 1..m
        PROVE  k + 1 <= h[k + 1]
    <3>1. CASE k = 0
      <4>1. h[1] \in 1..n
        BY <2>1, <3>1
      <4>2. QED
        BY <3>1, <4>1
    <3>2. CASE k # 0
      <4>1. k \in 1..m /\ k < k + 1
        BY <2>1, <3>2
      <4>2. k <= h[k] /\ h[k] < h[k + 1] /\ h[k] \in Nat /\ h[k + 1] \in Nat
        BY <1>2, <2>1, <4>1
      <4>3. QED
        BY <4>2
    <3>3. QED
      BY <3>1, <3>2
  <2>2. QED
    BY <2>1
<1>3. Nat \subseteq N
  BY <1>1, <1>2, SetInduction
<1>4. QED
  BY <1>3

(* dedup_by: of equal neighbours the first stays. *)
LEMMA DedupKeeps ==
    ASSUME NEW s \in Seq(Entries), Sorted(s)
    PROVE  /\ DedupBy(s) \in Seq(Entries) /\ Sorted(DedupBy(s)) /\ NoRepeat(DedupBy(s))
           /\ Range(DedupBy(s)) = Range(s)
           /\ \A c \in Seq(Entries) : (\E g : Apart(c, s, g)) =>
                  /\ Len(c) <= Len(DedupBy(s))
                  /\ \A i \in 1..Len(c) : DedupBy(s)[i][1] <= c[i][1]
<1> DEFINE I == {i \in DOMAIN s : i = 1 \/ s[i] # s[i - 1]}
<1>1. PICK t : t = DedupBy(s)
  OBVIOUS
<1>2. t \in Seq(Entries) /\ \E h : KeptAt(s, I, Len(s), t, h)
  <2>1. DedupBy(s) = KeepAt(s, I)
    BY DEF DedupBy
  <2> HIDE DEF I
  <2>2. QED
    BY <1>1, <2>1, KeepAtProperties
<1>3. PICK n \in Nat, m \in Nat : n = Len(s) /\ m = Len(t)
  BY <1>2
<1>4. PICK h : /\ m <= n
               /\ h \in [1..m -> 1..n]
               /\ \A j, k \in 1..m : j < k => h[j] < h[k]
               /\ \A k \in 1..m : t[k] = s[h[k]]
               /\ \A i \in 1..n : i \in I <=> \E k \in 1..m : h[k] = i
  BY <1>2, <1>3 DEF KeptAt
<1>5. \A i \in 1..n : i \in I <=> (i = 1 \/ s[i] # s[i - 1])
  BY <1>3
<1> HIDE DEF I
<1>6. Sorted(t)
  BY <1>3, <1>4 DEF Sorted
<1>7. NoRepeat(t)
  <2>1. ASSUME NEW k \in 2..m, t[k] = t[k - 1]
        PROVE  FALSE
    <3>1. k \in 1..m /\ k - 1 \in 1..m /\ k - 1 < k
      OBVIOUS
    <3>2. PICK a \in 1..n, b \in 1..n : a = h[k - 1] /\ b = h[k] /\ a < b /\ t[k - 1] = s[a] /\ t[k] = s[b]
      BY <1>4, <3>1
    <3>3. \A i \in 1..n : a < i /\ i < b => i \notin I
      <4>1. ASSUME NEW i \in 1..n, a < i, i < b, i \in I
            PROVE  FALSE
        <5>1. PICK l \in 1..m : h[l] = i
          BY <1>4, <4>1
        <5>2. ~(l < k - 1) /\ ~(k < l) /\ l # k /\ l # k - 1
          BY <1>4, <3>1, <3>2, <4>1, <5>1
        <5>3. QED
          BY <5>2
      <4>2. QED
        BY <4>1
    <3>4. \A i \in 1..n : a <= i /\ i < b => s[i] = s[a]
      <4> DEFINE S == {i \in 1..n : a <= i /\ i < b /\ s[i] # s[a]}
      <4> SUFFICES ASSUME S # {} PROVE FALSE
        OBVIOUS
      <4>1. PICK i \in S : \A j \in S : i <= j
        <5>1. S \in SUBSET Nat
          OBVIOUS
        <5>2. QED
          BY <5>1, LeastNatural
      <4>2. i \in 1..n /\ a < i /\ i < b /\ i - 1 \in 1..n /\ i - 1 \notin S
        BY <4>1
      <4>3. s[i - 1] = s[a]
        BY <4>2
      <4>4. s[i] = s[i - 1]
        BY <1>5, <3>3, <4>2
      <4>5. QED
        BY <4>1, <4>3, <4>4
    <3>5. b \in I /\ b # 1 /\ b - 1 \in 1..n /\ a <= b - 1 /\ b - 1 < b
      BY <1>4, <3>1, <3>2
    <3>6. s[b] # s[b - 1] /\ s[b - 1] = s[a]
      BY <1>5, <3>4, <3>5
    <3>7. QED
      BY <2>1, <3>2, <3>6
  <2>2. QED
    BY <1>3, <2>1 DEF NoRepeat
<1>8. Range(t) = Range(s)
  <2>1. Range(t) \subseteq Range(s)
    BY <1>2, <1>3, <1>4 DEF Range
  <2>2. \A i \in 1..n : s[i] \in Range(t)
    <3> DEFINE S == {i \in 1..n : s[i] \notin Range(t)}
    <3> SUFFICES ASSUME S # {} PROVE FALSE
      OBVIOUS
    <3>1. PICK i \in S : \A j \in S : i <= j
      <4>1. S \in SUBSET Nat
        OBVIOUS
      <4>2. QED
        BY <4>1, LeastNatural
    <3>2. CASE i \in I
      <4>1. PICK k \in 1..m : h[k] = i
        BY <1>4, <3>1, <3>2
      <4>2. t[k] = s[i]
        BY <1>4, <4>1
      <4>3. QED
        BY <1>2, <1>3, <3>1, <4>2 DEF Range
    <3>3. CASE i \notin I
      <4>1. i # 1 /\ s[i] = s[i - 1]
        BY <1>5, <3>1, <3>3
      <4>2. i - 1 \in 1..n /\ i - 1 \notin S
        BY <3>1, <4>1
      <4>3. QED
        BY <3>1, <4>1, <4>2
    <3>4. QED
      BY <3>2, <3>3
  <2>3. Range(s) \subseteq Range(t)
    BY <1>3, <2>2 DEF Range
  <2>4. QED
    BY <2>1, <2>3
<1>9. ASSUME NEW c \in Seq(Entries), NEW g, Apart(c, s, g)
      PROVE  Len(c) <= m /\ \A i \in 1..Len(c) : t[i][1] <= c[i][1]
  <2>1. PICK d \in Nat : d = Len(c)
    OBVIOUS
  <2>2. /\ g \in [1..d -> 1..n]
        /\ \A i, j \in 1..d : i < j => g[i] < g[j]
        /\ \A i \in 1..d : s[g[i]] = c[i] /\ g[i] \in I
    BY <1>3, <1>5, <1>9, <2>1 DEF Apart
  <2> DEFINE q == [i \in 1..d |-> CHOOSE k \in 1..m : h[k] = g[i]]
  <2>3. \A i \in 1..d : q[i] \in 1..m /\ h[q[i]] = g[i]
    <3>1. ASSUME NEW i \in 1..d
          PROVE  \E k \in 1..m : h[k] = g[i]
      BY <1>4, <2>2
    <3>2. QED
      BY <3>1
  <2>4. q \in [1..d -> 1..m]
    BY <2>3
  <2> HIDE DEF q
  <2>5. ASSUME NEW i \in 1..d, NEW j \in 1..d, i < j
        PROVE  q[i] < q[j]
    <3>0. g[i] \in Nat /\ g[j] \in Nat /\ g[i] < g[j]
      BY <2>2, <2>5
    <3>1. q[i] \in 1..m /\ q[j] \in 1..m /\ h[q[i]] < h[q[j]]
          /\ h[q[i]] \in Nat /\ h[q[j]] \in Nat
      BY <2>3, <3>0
    <3>2. PICK x \in 1..m, y \in 1..m : x = q[i] /\ y = q[j] /\ h[x] < h[y]
                                      /\ h[x] \in Nat /\ h[y] \in Nat
      BY <3>1
    <3>3. x # y /\ ~(y < x)
      <4>1. y < x => h[y] < h[x]
        BY <1>4
      <4>2. QED
        BY <3>2, <4>1
    <3>4. QED
      BY <3>2, <3>3
  <2>6. \A i \in 1..d : i <= q[i]
    BY <2>4, <2>5, IncreasingAbove
  <2>7. d <= m
    <3>1. CASE d = 0
      BY <3>1
    <3>2. CASE d # 0
      <4>1. d \in 1..d
        BY <3>2
      <4>2. d <= q[d] /\ q[d] \in 1..m
        BY <2>3, <2>6, <4>1
      <4>3. QED
        BY <4>2
    <3>3. QED
      BY <3>1, <3>2
  <2>8. ASSUME NEW i \in 1..d
        PROVE  t[i][1] <= c[i][1]
    <3>1. q[i] \in 1..m /\ i \in 1..m /\ i <= q[i] /\ t[q[i]] = c[i]
      <4>1. q[i] \in 1..m /\ i <= q[i]
        BY <2>3, <2>6
      <4>2. i \in 1..m
        BY <4>1
      <4>3. t[q[i]] = s[h[q[i]]] /\ h[q[i]] = g[i] /\ s[g[i]] = c[i]
        BY <1>4, <2>2, <2>3, <4>1
      <4>4. QED
        BY <4>1, <4>2, <4>3
    <3>2. t[i] \in Entries /\ t[i][1] \in Nat
      BY <1>2, <1>3, <3>1, Distances
    <3>3. CASE i = q[i]
      BY <3>1, <3>2, <3>3
    <3>4. CASE i < q[i]
      <4>1. t[i][1] <= t[q[i]][1]
        BY <1>3, <1>6, <3>1, <3>4 DEF Sorted
      <4>2. QED
        BY <3>1, <4>1
    <3>5. QED
      BY <3>1, <3>3, <3>4
  <2>9. QED
    BY <2>1, <2>7, <2>8
<1>10. QED
  BY <1>1, <1>2, <1>3, <1>6, <1>7, <1>8, <1>9
-----------------------------------------------------------------------------
(* Lists as the search keeps them *)

(* UpTo: the first n entries, or all. *)
LEMMA UpToProperties ==
    ASSUME NEW s \in Seq(Entries), NEW n \in Nat
    PROVE  /\ UpTo(s, n) \in Seq(Entries)
           /\ Len(UpTo(s, n)) = IF Len(s) < n THEN Len(s) ELSE n
           /\ \A i \in 1..Len(UpTo(s, n)) : UpTo(s, n)[i] = s[i]
<1>1. PICK m \in Nat : m = IF Len(s) < n THEN Len(s) ELSE n
  OBVIOUS
<1>2. m <= Len(s) /\ Len(s) \in Nat
  BY <1>1
<1>3. \A i \in 1..m : s[i] \in Entries
  BY <1>2
<1>4. /\ SubSeq(s, 1, m) \in Seq(Entries)
      /\ Len(SubSeq(s, 1, m)) = IF 1 <= m THEN m - 1 + 1 ELSE 0
      /\ \A i \in 1..(m - 1 + 1) : SubSeq(s, 1, m)[i] = s[1 + i - 1]
  BY <1>3, SubSeqProperties
<1>5. Len(SubSeq(s, 1, m)) = m /\ \A i \in 1..m : SubSeq(s, 1, m)[i] = s[i]
  BY <1>4
<1>6. UpTo(s, n) = SubSeq(s, 1, m)
  BY <1>1 DEF UpTo
<1>7. QED
  BY <1>1, <1>4, <1>5, <1>6

(* sort_node_and_unique: the same entries, nearest first, no like neighbours. *)
LEMMA SortedUnique ==
    ASSUME NEW s \in Seq(Entries)
    PROVE  /\ SortNodeAndUnique(s) \in Seq(Entries)
           /\ Sorted(SortNodeAndUnique(s)) /\ NoRepeat(SortNodeAndUnique(s))
           /\ Range(SortNodeAndUnique(s)) = Range(s)
<1>1. PICK f : Sorting(s, f) /\ ByDistance(s) = f[Len(s)]
  BY SortUnfold
<1>2. PICK t : t = ByDistance(s)
  OBVIOUS
<1>3. Len(s) \in 0..Len(s)
  OBVIOUS
<1>4. t \in Seq(Entries) /\ Sorted(t) /\ Range(t) = {s[j] : j \in 1..Len(s)}
  BY <1>1, <1>2, <1>3, SortingSorts
<1>5. {s[j] : j \in 1..Len(s)} = Range(s)
  BY DEF Range
<1>6. /\ DedupBy(t) \in Seq(Entries) /\ Sorted(DedupBy(t)) /\ NoRepeat(DedupBy(t))
      /\ Range(DedupBy(t)) = Range(t)
  BY <1>4, DedupKeeps
<1>7. QED
  BY <1>2, <1>4, <1>5, <1>6 DEF SortNodeAndUnique

(* Entries added to a sorted list move none of it farther out: at each place  *)
(* there is afterwards what is as near.                                       *)
LEMMA NoneFarther ==
    ASSUME NEW c \in Seq(Entries), Sorted(c), NoRepeat(c), NEW nodes \in Seq(Entries)
    PROVE  /\ Len(c) <= Len(SortNodeAndUnique(c \o nodes))
           /\ \A i \in 1..Len(c) : SortNodeAndUnique(c \o nodes)[i][1] <= c[i][1]
<1>1. PICK s : s = c \o nodes
  OBVIOUS
<1>2. s \in Seq(Entries) /\ Len(s) = Len(c) + Len(nodes) /\ \A i \in 1..Len(c) : s[i] = c[i]
  BY <1>1, ConcatProperties
<1>3. Len(c) <= Len(s)
  BY <1>2
<1>4. PICK f : Sorting(s, f) /\ ByDistance(s) = f[Len(s)]
  BY <1>2, SortUnfold
<1>5. \E g : Apart(c, ByDistance(s), g)
  BY <1>2, <1>3, <1>4, SortingApart
<1>6. ByDistance(s) \in Seq(Entries) /\ Sorted(ByDistance(s))
  <2>1. Len(s) \in 0..Len(s)
    BY <1>2
  <2>2. QED
    BY <1>2, <1>4, <2>1, SortingSorts
<1>7. QED
  BY <1>1, <1>5, <1>6, DedupKeeps DEF SortNodeAndUnique
-----------------------------------------------------------------------------
(* Queries in flight *)

LEMMA InFlightIsTotal == NumInFlight = Total(Endpoints, inFlight)
BY TotalIsSum, DhtSearchAssumption DEF NumInFlight

LEMMA InFlightIsTotalNext == NumInFlight' = Total(Endpoints, inFlight')
<1>1. (NumInFlight = Total(Endpoints, inFlight))'
  BY InFlightIsTotal, PTL
<1>2. QED
  BY <1>1

(* Counts of queries, and their sum. *)
LEMMA CountsInFlight ==
    ASSUME NEW w, \A p \in Endpoints : w[p] \in Nat
    PROVE  /\ Total(Endpoints, w) \in Nat
           /\ \A p \in Endpoints : w[p] <= Total(Endpoints, w)
           /\ (\A p \in Endpoints : w[p] = 0) => Total(Endpoints, w) = 0
<1>1. IsFiniteSet(Endpoints)
  BY DhtSearchAssumption
<1> DEFINE zero == [p \in Endpoints |-> 0]
<1>2. Total(Endpoints, w) \in Nat
  <2>1. \A p \in Endpoints : w[p] \in Nat /\ zero[p] \in Nat /\ w[p] = w[p] + zero[p]
    OBVIOUS
  <2> HIDE DEF zero
  <2>2. /\ Total(Endpoints, w) \in Nat /\ Total(Endpoints, zero) \in Nat
        /\ Total(Endpoints, w) = Total(Endpoints, w) + Total(Endpoints, zero)
    BY <1>1, <2>1, TotalAdds
  <2>3. QED
    BY <2>2
<1>3. ASSUME NEW p \in Endpoints
      PROVE  w[p] <= Total(Endpoints, w)
  <2> DEFINE one == [x \in Endpoints |-> IF x = p THEN w[p] ELSE 0]
             rest == [x \in Endpoints |-> IF x = p THEN 0 ELSE w[x]]
  <2>1. \A x \in Endpoints : one[x] \in Nat /\ rest[x] \in Nat /\ w[x] = one[x] + rest[x]
    OBVIOUS
  <2>2. \A x \in Endpoints : one[x] = IF x = p THEN w[p] ELSE 0
    OBVIOUS
  <2> HIDE DEF one, rest
  <2>3. Total(Endpoints, one) \in Nat /\ Total(Endpoints, rest) \in Nat
        /\ Total(Endpoints, w) = Total(Endpoints, one) + Total(Endpoints, rest)
    BY <1>1, <2>1, TotalAdds
  <2>4. Total(Endpoints, one) = w[p]
    <3> DEFINE D == 1..w[p]
               f == [i \in D |-> p]
    <3>1. IsFiniteSet(D) /\ Cardinality(D) = w[p]
      <4>1. PICK n \in Nat : n = w[p]
        OBVIOUS
      <4>2. IsFiniteSet(1..n) /\ Cardinality(1..n) = n
        BY FS_Interval
      <4>3. QED
        BY <4>1, <4>2
    <3>2. ASSUME NEW x \in Endpoints
          PROVE  one[x] = Cardinality({i \in D : f[i] = x})
      <4>1. CASE x = p
        <5>1. {i \in D : f[i] = x} = D
          BY <4>1
        <5>2. QED
          BY <2>2, <3>1, <4>1, <5>1
      <4>2. CASE x # p
        <5>1. {i \in D : f[i] = x} = {}
          BY <4>2
        <5>2. QED
          BY <2>2, <4>2, <5>1, FS_EmptySet
      <4>3. QED
        BY <4>1, <4>2
    <3>3. \A i \in D : f[i] \in Endpoints
      OBVIOUS
    <3> HIDE DEF D, f
    <3>4. QED
      BY <1>1, <3>1, <3>2, <3>3, TotalCounts
  <2>5. QED
    BY <2>3, <2>4
<1>4. ASSUME \A p \in Endpoints : w[p] = 0
      PROVE  Total(Endpoints, w) = 0
  <2>1. \A p \in Endpoints : w[p] \in Nat /\ w[p] = w[p] + w[p]
    BY <1>4
  <2>2. Total(Endpoints, w) = Total(Endpoints, w) + Total(Endpoints, w)
    BY <1>1, <2>1, TotalAdds
  <2>3. PICK n : n = Total(Endpoints, w)
    OBVIOUS
  <2>4. n \in Nat /\ n = n + n
    BY <1>2, <2>2, <2>3
  <2>5. n = 0
    BY <2>4
  <2>6. QED
    BY <2>3, <2>5
<1>5. QED
  BY <1>2, <1>3, <1>4

(* The types of inFlight, from the sum alone. *)
LEMMA InFlightTypes ==
    ASSUME NEW w, w = [p \in Endpoints |-> w[p]], \A p \in Endpoints : w[p] \in Nat,
           Total(Endpoints, w) <= Alpha
    PROVE  w \in [Endpoints -> 0..Alpha]
<1>1. Alpha \in Nat
  BY DhtSearchAssumption
<1>2. \A p \in Endpoints : w[p] \in 0..Alpha
  BY <1>1, CountsInFlight
<1>3. QED
  BY <1>2

(* What is started fits: afterwards no more than Alpha queries are in flight. *)
LEMMA SpawnFits ==
    ASSUME TypeOK, Spawn
    PROVE  inFlight' \in [Endpoints -> 0..Alpha] /\ NumInFlight' <= Alpha
           /\ queue' \in Seq(Entries) /\ Range(queue') \subseteq Range(queue)
<1>1. Alpha \in Nat /\ IsFiniteSet(Endpoints)
  BY DhtSearchAssumption
<1>2. queue \in Seq(Entries) /\ inFlight \in [Endpoints -> 0..Alpha] /\ NumInFlight <= Alpha
  BY DEF TypeOK
<1>natural. \A p \in Endpoints : inFlight[p] \in Nat
  BY <1>1, <1>2
<1>3. PICK n : n = NumInFlight
  OBVIOUS
<1>4. n \in Nat /\ n = Total(Endpoints, inFlight)
  BY <1>3, <1>natural, InFlightIsTotal, CountsInFlight
<1>5. PICK s : s = UpTo(queue, Alpha - n)
  OBVIOUS
<1>6. s \in Seq(Entries) /\ Len(s) <= Alpha - n /\ Len(s) <= Len(queue)
  <2>1. Alpha - n \in Nat
    BY <1>1, <1>2, <1>3, <1>4
  <2>2. s \in Seq(Entries) /\ Len(s) = IF Len(queue) < Alpha - n THEN Len(queue) ELSE Alpha - n
    BY <1>2, <1>5, <2>1, UpToProperties
  <2>3. QED
    BY <2>1, <2>2
<1>7. /\ inFlight' = [p \in Endpoints |-> inFlight[p] + Cardinality({i \in DOMAIN s : s[i][2] = p})]
      /\ queue' = SubSeq(queue, Len(s) + 1, Len(queue))
  BY <1>3, <1>5 DEF Spawn, Slots
<1> DEFINE D == 1..Len(s)
           f == [i \in D |-> s[i][2]]
           more == [p \in Endpoints |-> Cardinality({i \in D : f[i] = p})]
<1>8. IsFiniteSet(D) /\ Cardinality(D) = Len(s) /\ Len(s) \in Nat
  <2>1. PICK l \in Nat : l = Len(s)
    BY <1>6
  <2>2. IsFiniteSet(1..l) /\ Cardinality(1..l) = l
    BY FS_Interval
  <2>3. QED
    BY <2>1, <2>2
<1>9. \A i \in D : f[i] \in Endpoints
  BY <1>6, Distances
<1>10. \A p \in Endpoints : more[p] = Cardinality({i \in D : f[i] = p}) /\ more[p] \in Nat
  <2>1. ASSUME NEW p \in Endpoints
        PROVE  Cardinality({i \in D : f[i] = p}) \in Nat
    <3>1. {i \in D : f[i] = p} \in SUBSET D
      OBVIOUS
    <3>2. QED
      BY <1>8, <3>1, FS_Subset, FS_CardinalityType
  <2>2. QED
    BY <2>1
<1>11. \A p \in Endpoints : inFlight'[p] = inFlight[p] + more[p]
  <2>1. \A p \in Endpoints : {i \in DOMAIN s : s[i][2] = p} = {i \in D : f[i] = p}
    BY <1>6
  <2>2. QED
    BY <1>7, <2>1
<1> HIDE DEF D, f, more
<1>12. Total(Endpoints, more) = Len(s)
  BY <1>1, <1>8, <1>9, <1>10, TotalCounts
<1>13. Total(Endpoints, inFlight') = n + Len(s)
  <2>1. \A p \in Endpoints : inFlight[p] \in Nat /\ more[p] \in Nat
    BY <1>10, <1>natural
  <2>2. Total(Endpoints, inFlight') = Total(Endpoints, inFlight) + Total(Endpoints, more)
    BY <1>1, <1>11, <2>1, TotalAdds
  <2>3. QED
    BY <1>4, <1>12, <2>2
<1>14. Total(Endpoints, inFlight') <= Alpha
  BY <1>1, <1>4, <1>6, <1>8, <1>13
<1>15. inFlight' \in [Endpoints -> 0..Alpha]
  <2>1. inFlight' = [p \in Endpoints |-> inFlight'[p]]
    BY <1>7
  <2>2. ASSUME NEW p \in Endpoints
        PROVE  inFlight'[p] \in Nat
    <3>1. PICK a \in Nat, b \in Nat : a = inFlight[p] /\ b = more[p]
      BY <1>10, <1>natural
    <3>2. inFlight'[p] = a + b
      BY <1>11, <3>1
    <3>3. QED
      BY <3>2
  <2>3. QED
    BY <1>14, <2>1, <2>2, InFlightTypes
<1>16. NumInFlight' <= Alpha
  BY <1>14, InFlightIsTotalNext
<1>17. queue' \in Seq(Entries) /\ Range(queue') \subseteq Range(queue)
  <2>1. \A i \in (Len(s) + 1)..Len(queue) : queue[i] \in Entries
    BY <1>2, <1>8
  <2>2. Len(s) + 1 \in Int /\ Len(queue) \in Int
    BY <1>2, <1>8
  <2>3. /\ queue' \in Seq(Entries)
        /\ Len(queue') = IF Len(s) + 1 <= Len(queue) THEN Len(queue) - (Len(s) + 1) + 1 ELSE 0
        /\ \A i \in 1..(Len(queue) - (Len(s) + 1) + 1) : queue'[i] = queue[(Len(s) + 1) + i - 1]
    BY <1>7, <2>1, <2>2, SubSeqProperties
  <2>4. ASSUME NEW i \in 1..Len(queue')
        PROVE  queue'[i] \in Range(queue)
    <3>1. i \in 1..(Len(queue) - (Len(s) + 1) + 1) /\ (Len(s) + 1) + i - 1 \in 1..Len(queue)
      BY <1>2, <1>6, <1>8, <2>3
    <3>2. QED
      BY <1>2, <2>3, <3>1 DEF Range
  <2>5. QED
    BY <2>3, <2>4 DEF Range
<1>18. QED
  BY <1>15, <1>16, <1>17

(* A query that has ended is no longer in flight. *)
LEMMA JoinedFits ==
    ASSUME TypeOK, NEW p \in Endpoints, Joined(p)
    PROVE  inFlight' \in [Endpoints -> 0..Alpha] /\ NumInFlight' <= Alpha
<1>1. Alpha \in Nat /\ IsFiniteSet(Endpoints)
  BY DhtSearchAssumption
<1>2. inFlight \in [Endpoints -> 0..Alpha] /\ NumInFlight <= Alpha
  BY DEF TypeOK
<1>3. \A x \in Endpoints : inFlight[x] \in Nat
  BY <1>1, <1>2
<1> DEFINE one == [x \in Endpoints |-> IF x = p THEN 1 ELSE 0]
<1>4. \A x \in Endpoints : inFlight'[x] \in Nat /\ one[x] \in Nat /\ inFlight[x] = inFlight'[x] + one[x]
  BY <1>2, <1>3 DEF Joined
<1> HIDE DEF one
<1>5. /\ Total(Endpoints, inFlight') \in Nat /\ Total(Endpoints, one) \in Nat
      /\ Total(Endpoints, inFlight) = Total(Endpoints, inFlight') + Total(Endpoints, one)
  BY <1>1, <1>4, TotalAdds
<1>6. Total(Endpoints, inFlight') <= Alpha
  BY <1>1, <1>2, <1>5, InFlightIsTotal
<1>7. inFlight' = [x \in Endpoints |-> inFlight'[x]]
  BY <1>2 DEF Joined
<1>8. QED
  BY <1>4, <1>6, <1>7, InFlightTypes, InFlightIsTotalNext
-----------------------------------------------------------------------------
(* What a reply does *)

LEMMA SortedJoin ==
    ASSUME NEW s \in Seq(Entries), NEW t \in Seq(Entries)
    PROVE  /\ SortNodeAndUnique(s \o t) \in Seq(Entries)
           /\ Sorted(SortNodeAndUnique(s \o t)) /\ NoRepeat(SortNodeAndUnique(s \o t))
           /\ Range(SortNodeAndUnique(s \o t)) = Range(s) \cup Range(t)
<1>1. s \o t \in Seq(Entries)
  BY ConcatProperties
<1>2. Range(s \o t) = Range(s) \cup Range(t)
  BY RangeConcatenation
<1>3. QED
  BY <1>1, <1>2, SortedUnique

(* The filter on a reply's entries. *)
LEMMA ToAskProperties ==
    ASSUME NEW nodes \in Seq(Entries), NEW seen
    PROVE  /\ ToAsk(nodes, seen) \in Seq(Entries)
           /\ \A e \in Range(ToAsk(nodes, seen)) :
                  e \in Entries /\ e[2] \notin NonNative /\ seen[e[2]] = "no"
<1> DEFINE T == {e \in Entries : e[2] \notin NonNative /\ seen[e[2]] = "no"}
<1>1. PICK t : t = Keep(nodes, T)
  OBVIOUS
<1>2. t = ToAsk(nodes, seen)
  BY <1>1 DEF ToAsk
<1>3. t \in Seq(Entries) /\ \E h : KeptFrom(nodes, T, Len(nodes), t, h)
  <2> HIDE DEF T
  <2>1. QED
    BY <1>1, KeepProperties
<1>4. PICK h : KeptFrom(nodes, T, Len(nodes), t, h)
  BY <1>3
<1>5. ASSUME NEW i \in 1..Len(t)
      PROVE  t[i] \in T
  <2>1. h[i] \in 1..Len(nodes) /\ t[i] = nodes[h[i]]
    BY <1>4 DEF KeptFrom
  <2>2. nodes[h[i]] \in T
    BY <1>4, <2>1 DEF KeptFrom
  <2>3. QED
    BY <2>1, <2>2
<1>6. \A e \in Range(t) : e \in T
  BY <1>3, <1>5 DEF Range
<1>7. QED
  BY <1>2, <1>3, <1>6

(* The first entries of a list cut off further out. *)
LEMMA UpToUpTo ==
    ASSUME NEW s \in Seq(Entries), NEW m \in Nat, NEW n \in Nat, m <= n
    PROVE  UpTo(UpTo(s, n), m) = UpTo(s, m)
<1>1. PICK t : t = UpTo(s, n)
  OBVIOUS
<1>2. t \in Seq(Entries) /\ Len(t) = (IF Len(s) < n THEN Len(s) ELSE n)
      /\ \A i \in 1..Len(t) : t[i] = s[i]
  BY <1>1, UpToProperties
<1>3. PICK a, b : a = UpTo(t, m) /\ b = UpTo(s, m)
  OBVIOUS
<1>4. a \in Seq(Entries) /\ Len(a) = (IF Len(t) < m THEN Len(t) ELSE m)
      /\ \A i \in 1..Len(a) : a[i] = t[i]
  BY <1>2, <1>3, UpToProperties
<1>5. b \in Seq(Entries) /\ Len(b) = (IF Len(s) < m THEN Len(s) ELSE m)
      /\ \A i \in 1..Len(b) : b[i] = s[i]
  BY <1>3, UpToProperties
<1>6. Len(s) \in Nat
  OBVIOUS
<1>7. Len(a) = Len(b) /\ Len(a) \in Nat /\ Len(a) <= Len(t)
  BY <1>2, <1>4, <1>5, <1>6
<1>8. \A i \in 1..Len(a) : a[i] = b[i]
  BY <1>2, <1>4, <1>5, <1>7
<1>9. a = b
  BY <1>4, <1>5, <1>7, <1>8, SeqEqual
<1>10. QED
  BY <1>1, <1>3, <1>9

(* If the nearest are the same as before, so is the output. *)
LEMMA SameOutput ==
    ASSUME NEW found \in Seq(Entries), output \in Seq(Entries), Len(output) <= K, Same(found)
    PROVE  output = UpTo(found, K) /\ Len(output) = K
<1>1. K \in Nat \ {0}
  BY DhtSearchAssumption
<1>2. PICK t : t = UpTo(found, K)
  OBVIOUS
<1>3. t \in Seq(Entries) /\ Len(t) = (IF Len(found) < K THEN Len(found) ELSE K)
  BY <1>1, <1>2, UpToProperties
<1>4. PICK l : l = IF Len(output) < Len(t) THEN Len(output) ELSE Len(t)
  OBVIOUS
<1>5. SubSeq(output, 1, l) = SubSeq(found, 1, l) /\ l >= K
  BY <1>2, <1>4 DEF Same
<1>6. Len(output) \in Nat /\ Len(found) \in Nat
  OBVIOUS
<1>7. l = K /\ Len(output) = K /\ Len(t) = K /\ ~(Len(found) < K)
  BY <1>1, <1>3, <1>4, <1>5, <1>6
<1>8. SubSeq(output, 1, Len(output)) = output
  BY SubSeqFull
<1>9. t = SubSeq(found, 1, K)
  BY <1>2, <1>7 DEF UpTo
<1>10. QED
  BY <1>2, <1>5, <1>7, <1>8, <1>9

\* Whatever was reported and is not listed is no nearer than the first Cap listed, and
\* the list has that many.
LeftOut(c, r) ==
    \A e \in r : e \in Range(c) \/ (Len(c) >= Cap /\ \A i \in 1..Cap : c[i][1] <= e[1])

(* Sorting in a reply leaves out nothing that is nearer. *)
LEMMA SortLeavesOut ==
    ASSUME NEW c \in Seq(Entries), Sorted(c), NoRepeat(c), NEW nodes \in Seq(Entries),
           NEW r \in SUBSET Entries, LeftOut(c, r)
    PROVE  LeftOut(SortNodeAndUnique(c \o nodes), r \cup Range(nodes))
<1>1. PICK t : t = SortNodeAndUnique(c \o nodes)
  OBVIOUS
<1>2. t \in Seq(Entries) /\ Range(t) = Range(c) \cup Range(nodes)
  BY <1>1, SortedJoin
<1>3. Len(c) <= Len(t) /\ \A i \in 1..Len(c) : t[i][1] <= c[i][1]
  BY <1>1, NoneFarther
<1>4. Cap \in Nat /\ Len(c) \in Nat /\ Len(t) \in Nat
  BY <1>2, DhtSearchAssumption
<1>5. ASSUME NEW e \in r, e \notin Range(t)
      PROVE  Len(t) >= Cap /\ \A i \in 1..Cap : t[i][1] <= e[1]
  <2>1. Len(c) >= Cap /\ \A i \in 1..Cap : c[i][1] <= e[1]
    BY <1>2, <1>5 DEF LeftOut
  <2>2. ASSUME NEW i \in 1..Cap
        PROVE  t[i][1] <= e[1]
    <3>1. i \in 1..Len(c) /\ i \in 1..Len(t)
      BY <1>3, <1>4, <2>1
    <3>2. t[i] \in Entries /\ c[i] \in Entries /\ e \in Entries
      BY <1>2, <3>1
    <3>3. t[i][1] \in Nat /\ c[i][1] \in Nat /\ e[1] \in Nat
      BY <3>2, Distances
    <3>4. t[i][1] <= c[i][1] /\ c[i][1] <= e[1]
      BY <1>3, <2>1, <3>1
    <3>5. QED
      BY <3>3, <3>4
  <2>3. QED
    BY <1>3, <1>4, <2>1, <2>2
<1>6. QED
  BY <1>1, <1>2, <1>5 DEF LeftOut

(* Nor does cutting the sorted list. *)
LEMMA CutLeavesOut ==
    ASSUME NEW t \in Seq(Entries), Sorted(t), NEW r \in SUBSET Entries, LeftOut(t, r)
    PROVE  LeftOut(UpTo(t, Cap), r)
<1>1. PICK u : u = UpTo(t, Cap)
  OBVIOUS
<1>2. Cap \in Nat /\ Len(t) \in Nat
  BY DhtSearchAssumption
<1>3. u \in Seq(Entries) /\ Len(u) = (IF Len(t) < Cap THEN Len(t) ELSE Cap)
      /\ \A i \in 1..Len(u) : u[i] = t[i]
  BY <1>1, <1>2, UpToProperties
<1>4. ASSUME NEW e \in r, e \notin Range(u)
      PROVE  Len(u) >= Cap /\ \A i \in 1..Cap : u[i][1] <= e[1]
  <2>1. CASE e \notin Range(t)
    <3>1. Len(t) >= Cap /\ \A i \in 1..Cap : t[i][1] <= e[1]
      BY <2>1 DEF LeftOut
    <3>2. Len(u) = Cap
      BY <1>2, <1>3, <3>1
    <3>3. QED
      BY <1>2, <1>3, <3>1, <3>2
  <2>2. CASE e \in Range(t)
    <3>1. PICK j \in 1..Len(t) : t[j] = e
      BY <2>2 DEF Range
    <3>2. j \notin 1..Len(u)
      BY <1>3, <1>4, <3>1 DEF Range
    <3>3. Len(u) = Cap /\ j > Cap
      BY <1>2, <1>3, <3>1, <3>2
    <3>4. ASSUME NEW i \in 1..Cap
          PROVE  u[i][1] <= e[1]
      <4>1. i \in 1..Len(t) /\ i < j /\ u[i] = t[i]
        BY <1>2, <1>3, <3>1, <3>3
      <4>2. QED
        BY <3>1, <4>1 DEF Sorted
    <3>5. QED
      BY <1>2, <3>3, <3>4
  <2>3. QED
    BY <2>1, <2>2
<1>5. QED
  BY <1>1, <1>4 DEF LeftOut
-----------------------------------------------------------------------------
(* The inductive invariant *)

\* The list of what was reported, and the output at its head.
Lists ==
    /\ Sorted(collected) /\ NoRepeat(collected)
    /\ output = UpTo(collected, K)
    /\ reported \subseteq Entries /\ Range(collected) \subseteq reported
    /\ LeftOut(collected, reported)

\* A streak is one of replies that changed nothing, of K nodes; who has stopped had
\* enough.
Streaks ==
    /\ unchanged \in Nat /\ streak <= unchanged
    /\ streak > 0 => Len(output) = K
    /\ ~Running => Enough

SearchIInv == TypeOK /\ Lists /\ Streaks

(* A reply, with the lists it makes. *)
Reply(p, nodes, values, token, found, all, stops) ==
    /\ Joined(p) /\ UNCHANGED <<kind, result>>
    /\ visited' = [visited EXCEPT ![p] = token]
    /\ found = SortNodeAndUnique(collected \o nodes)
    /\ all = SortNodeAndUnique(queue \o ToAsk(nodes, visited'))
    /\ stops = (Same(found) /\ streak + 1 >= Converged)
    /\ queue' = IF stops THEN all ELSE UpTo(all, Cap)
    /\ collected' = IF stops THEN found ELSE UpTo(found, Cap)
    /\ output' = IF Same(found) THEN output ELSE UpTo(found, K)
    /\ streak' = IF Same(found) THEN streak + 1 ELSE 0
    /\ peers' = peers \cup values
    /\ reported' = reported \cup Range(nodes)
    /\ unchanged' = IF output' = output THEN unchanged + 1 ELSE 0
    /\ asked' = asked

LEMMA AnswerIsReply ==
    ASSUME NEW p \in Endpoints, Answer(p)
    PROVE  \E nodes \in Seq(Entries), values \in SUBSET Peers, token \in {"token", "none"} :
               \E found, all, stops : Reply(p, nodes, values, token, found, all, stops)
<1>1. PICK nodes \in Replies, values \in SUBSET Peers, token \in {"token", "none"} :
          Answered(p, nodes, values, token)
  BY DEF Answer
<1>2. nodes \in Seq(Entries)
  BY DhtSearchAssumption
<1>3. PICK found, all, stops :
          /\ found = SortNodeAndUnique(collected \o nodes)
          /\ all = SortNodeAndUnique(queue \o ToAsk(nodes, visited'))
          /\ stops = (Same(found) /\ streak + 1 >= Converged)
  OBVIOUS
<1>4. Reply(p, nodes, values, token, found, all, stops)
  BY <1>1, <1>3 DEF Answered, Reply
<1>5. QED
  BY <1>2, <1>4

(* The types of a list after a reply, whether it is cut or not. *)
LEMMA CutTypes ==
    ASSUME NEW s \in Seq(Entries), NEW n \in Nat
    PROVE  UpTo(s, n) \in Seq(Entries) /\ Range(UpTo(s, n)) \subseteq Range(s)
           /\ (Sorted(s) => Sorted(UpTo(s, n))) /\ (NoRepeat(s) => NoRepeat(UpTo(s, n)))
<1>1. PICK t : t = UpTo(s, n)
  OBVIOUS
<1>2. t \in Seq(Entries) /\ Len(t) = (IF Len(s) < n THEN Len(s) ELSE n)
      /\ \A i \in 1..Len(t) : t[i] = s[i]
  BY <1>1, UpToProperties
<1>3. Len(t) \in Nat /\ Len(s) \in Nat /\ Len(t) <= Len(s)
  BY <1>2
<1>4. Range(t) \subseteq Range(s)
  BY <1>2, <1>3 DEF Range
<1>5. Sorted(s) => Sorted(t)
  BY <1>2, <1>3 DEF Sorted
<1>6. NoRepeat(s) => NoRepeat(t)
  BY <1>2, <1>3 DEF NoRepeat
<1>7. QED
  BY <1>1, <1>2, <1>4, <1>5, <1>6

(* While the search waits for a query it has not had enough. *)
LEMMA NotEnough ==
    ASSUME TypeOK, NEW p \in Endpoints, Joined(p)
    PROVE  /\ Running
           /\ completed' \in 0..MaxQueries /\ completed < MaxQueries
           /\ streak < Converged
<1>1. Running /\ ~(completed >= MaxQueries) /\ ~(streak >= Converged) /\ completed' = completed + 1
  BY DEF Joined, Waiting, Enough
<1>2. MaxQueries \in Nat /\ Converged \in Nat /\ completed \in 0..MaxQueries /\ streak \in 0..Converged
  BY DhtSearchAssumption DEF TypeOK
<1>3. QED
  BY <1>1, <1>2

LEMMA ReplyTypes ==
    ASSUME TypeOK, Lists, NEW p \in Endpoints, NEW nodes \in Seq(Entries),
           NEW values \in SUBSET Peers, NEW token \in {"token", "none"},
           NEW found, NEW all, NEW stops, Reply(p, nodes, values, token, found, all, stops)
    PROVE  TypeOK'
<1>1. Joined(p) /\ UNCHANGED <<kind, result>>
  BY DEF Reply
<1>2. inFlight' \in [Endpoints -> 0..Alpha] /\ NumInFlight' <= Alpha
  BY <1>1, JoinedFits
<1>3. completed' \in 0..MaxQueries /\ streak < Converged
  BY <1>1, NotEnough
<1>4. K \in Nat /\ Cap \in Nat /\ Converged \in Nat /\ streak \in 0..Converged
  BY DhtSearchAssumption DEF TypeOK
<1>5. queue \in Seq(Entries) /\ collected \in Seq(Entries) /\ output \in Seq(Entries)
  BY DEF TypeOK
<1>6. found \in Seq(Entries)
  BY <1>5, SortedJoin DEF Reply
<1>7. all \in Seq(Entries)
  <2>1. ToAsk(nodes, visited') \in Seq(Entries)
    BY ToAskProperties
  <2>2. QED
    BY <1>5, <2>1, SortedJoin DEF Reply
<1>8. queue' \in Seq(Entries)
  BY <1>4, <1>7, CutTypes DEF Reply
<1>9. collected' \in Seq(Entries)
  BY <1>4, <1>6, CutTypes DEF Reply
<1>10. output' \in Seq(Entries) /\ Len(output') <= K
  <2>1. Len(output) <= K
    BY DEF TypeOK
  <2>2. Len(UpTo(found, K)) = (IF Len(found) < K THEN Len(found) ELSE K) /\ Len(found) \in Nat
    BY <1>4, <1>6, UpToProperties
  <2>3. Len(UpTo(found, K)) <= K
    BY <1>4, <2>2
  <2>4. output' = output \/ output' = UpTo(found, K)
    BY DEF Reply
  <2>5. QED
    BY <1>4, <1>5, <1>6, <2>1, <2>3, <2>4, CutTypes
<1>11. streak' \in 0..Converged
  BY <1>3, <1>4 DEF Reply
<1>12. visited' \in [Endpoints -> {"no", "token", "none"}] /\ peers' \subseteq Peers
  BY DEF TypeOK, Reply
<1>13. kind' \in {"find_node", "get_peers"} /\ result' \in {"none", "found", "failed"}
  BY <1>1 DEF TypeOK
<1>14. /\ kind' \in {"find_node", "get_peers"}
       /\ queue' \in Seq(Entries) /\ collected' \in Seq(Entries) /\ output' \in Seq(Entries)
       /\ inFlight' \in [Endpoints -> 0..Alpha] /\ NumInFlight' <= Alpha
       /\ visited' \in [Endpoints -> {"no", "token", "none"}]
       /\ peers' \subseteq Peers
       /\ streak' \in 0..Converged /\ completed' \in 0..MaxQueries
       /\ result' \in {"none", "found", "failed"}
       /\ Len(output') <= K
  BY <1>2, <1>3, <1>8, <1>9, <1>10, <1>11, <1>12, <1>13
<1>15. QED
  BY <1>14 DEF TypeOK

LEMMA ReplyLists ==
    ASSUME TypeOK, Lists, NEW p \in Endpoints, NEW nodes \in Seq(Entries),
           NEW values, NEW token,
           NEW found, NEW all, NEW stops, Reply(p, nodes, values, token, found, all, stops)
    PROVE  Lists' /\ output' = UpTo(found, K) /\ (Same(found) => Len(output) = K)
<1>1. K \in Nat /\ Cap \in Nat /\ K <= Cap
  BY DhtSearchAssumption
<1>2. collected \in Seq(Entries) /\ output \in Seq(Entries)
  BY DEF TypeOK
<1>3. found = SortNodeAndUnique(collected \o nodes)
  BY DEF Reply
<1>4. found \in Seq(Entries) /\ Sorted(found) /\ NoRepeat(found)
      /\ Range(found) = Range(collected) \cup Range(nodes)
  BY <1>2, <1>3, SortedJoin
<1>5. Len(output) <= K
  BY DEF TypeOK
<1>6. Same(found) => output = UpTo(found, K) /\ Len(output) = K
  BY <1>2, <1>4, <1>5, SameOutput
<1>7. output' = UpTo(found, K)
  BY <1>6 DEF Reply
<1>8. collected' = found \/ collected' = UpTo(found, Cap)
  BY DEF Reply
<1>9. output' = UpTo(collected', K)
  BY <1>1, <1>4, <1>7, <1>8, UpToUpTo
<1>10. Sorted(collected') /\ NoRepeat(collected') /\ Range(collected') \subseteq Range(found)
  BY <1>1, <1>4, <1>8, CutTypes
<1>11. reported' = reported \cup Range(nodes)
  BY DEF Reply
<1>12. Range(nodes) \subseteq Entries
  BY DEF Range
<1>13. reported' \in SUBSET Entries /\ Range(collected') \subseteq reported'
  BY <1>4, <1>10, <1>11, <1>12 DEF Lists
<1>14. LeftOut(found, reported')
  BY <1>2, <1>3, <1>11, SortLeavesOut DEF Lists
<1>15. LeftOut(collected', reported')
  BY <1>4, <1>8, <1>13, <1>14, CutLeavesOut
<1>16. Lists'
  <2>1. /\ Sorted(collected') /\ NoRepeat(collected')
        /\ output' = UpTo(collected', K)
        /\ reported' \subseteq Entries /\ Range(collected') \subseteq reported'
        /\ LeftOut(collected', reported')
    BY <1>9, <1>10, <1>13, <1>15
  <2>2. QED
    BY <2>1 DEF Lists, Sorted, NoRepeat, LeftOut, UpTo
<1>17. QED
  BY <1>6, <1>7, <1>16

LEMMA ReplyStreaks ==
    ASSUME TypeOK, Lists, Streaks, NEW p \in Endpoints, NEW nodes \in Seq(Entries),
           NEW values, NEW token,
           NEW found, NEW all, NEW stops, Reply(p, nodes, values, token, found, all, stops)
    PROVE  Streaks'
<1>1. output' = UpTo(found, K) /\ (Same(found) => Len(output) = K)
  BY ReplyLists
<1>2. Running'
  <2>1. Running /\ result' = result
    BY NotEnough DEF Reply
  <2>2. QED
    BY <2>1 DEF Running
<1>3. unchanged \in Nat /\ streak <= unchanged /\ streak \in Nat
  BY DEF Streaks, TypeOK
<1>4. CASE Same(found)
  <2>1. output' = output /\ streak' = streak + 1 /\ unchanged' = unchanged + 1
    BY <1>4 DEF Reply
  <2>2. Len(output') = K
    BY <1>1, <1>4, <2>1
  <2>3. QED
    BY <1>2, <1>3, <2>1, <2>2 DEF Streaks
<1>5. CASE ~Same(found)
  <2>1. streak' = 0 /\ unchanged' \in Nat
    BY <1>3, <1>5 DEF Reply
  <2>2. QED
    BY <1>2, <2>1 DEF Streaks
<1>6. QED
  BY <1>4, <1>5
LEMMA InitSearch == Init => SearchIInv
<1> SUFFICES ASSUME Init PROVE SearchIInv
  OBVIOUS
<1>1. {Alpha, K, Cap, MaxQueries, Converged, MaxPeers} \subseteq Nat \ {0} /\ IsFiniteSet(Endpoints)
  BY DhtSearchAssumption
<1>2. queue \in Seq(Entries)
  BY DhtSearchAssumption, SortedUnique DEF Init
<1>3. collected = << >> /\ output = << >> /\ reported = {}
  BY DEF Init
<1>4. collected \in Seq(Entries) /\ output \in Seq(Entries) /\ Len(collected) = 0 /\ Len(output) = 0
  BY <1>3
<1>5. inFlight \in [Endpoints -> 0..Alpha] /\ NumInFlight <= Alpha
  <2>1. \A p \in Endpoints : inFlight[p] \in Nat /\ inFlight[p] = 0
    BY DEF Init
  <2>2. NumInFlight = 0
    BY <2>1, CountsInFlight, InFlightIsTotal
  <2>3. inFlight \in [Endpoints -> 0..Alpha]
    BY <1>1 DEF Init
  <2>4. QED
    BY <1>1, <2>2, <2>3
<1>6. TypeOK
  BY <1>1, <1>2, <1>4, <1>5 DEF Init, TypeOK
<1>7. Sorted(collected) /\ NoRepeat(collected) /\ Range(collected) = {}
  BY <1>3, <1>4 DEF Sorted, NoRepeat, Range
<1>8. output = UpTo(collected, K)
  <2>1. /\ UpTo(collected, K) \in Seq(Entries)
        /\ Len(UpTo(collected, K)) = IF Len(collected) < K THEN Len(collected) ELSE K
    BY <1>1, <1>4, UpToProperties
  <2>2. Len(UpTo(collected, K)) = 0
    BY <1>1, <1>4, <2>1
  <2>3. QED
    BY <1>3, <2>1, <2>2
<1>9. Lists
  BY <1>3, <1>7, <1>8 DEF Lists, LeftOut
<1>10. Streaks
  BY DEF Init, Streaks, Running
<1>11. QED
  BY <1>6, <1>9, <1>10 DEF SearchIInv

LEMMA SearchStep == SearchIInv /\ [Next]_vars => SearchIInv'
<1> SUFFICES ASSUME SearchIInv, [Next]_vars PROVE SearchIInv'
  OBVIOUS
<1>1. TypeOK /\ Lists /\ Streaks
  BY DEF SearchIInv
<1>2. ASSUME UNCHANGED <<collected, output, reported>>
      PROVE  Lists'
  BY <1>1, <1>2 DEF Lists, Sorted, NoRepeat, LeftOut, UpTo
<1>3. CASE Spawn
  <2>1. /\ inFlight' \in [Endpoints -> 0..Alpha] /\ NumInFlight' <= Alpha
        /\ queue' \in Seq(Entries)
    BY <1>1, <1>3, SpawnFits
  <2>2. UNCHANGED <<kind, visited, collected, output, peers, streak, completed, result, reported,
                    unchanged>>
        /\ Running
    BY <1>3 DEF Spawn
  <2>3. TypeOK'
    BY <1>1, <2>1, <2>2 DEF TypeOK
  <2>4. Lists'
    BY <1>2, <2>2
  <2>5. Streaks'
    BY <1>1, <2>2 DEF Streaks, Running
  <2>6. QED
    BY <2>3, <2>4, <2>5 DEF SearchIInv
<1>4. ASSUME NEW p \in Endpoints, Failed(p)
      PROVE  SearchIInv'
  <2>1. Joined(p) /\ visited' = [visited EXCEPT ![p] = "none"]
        /\ UNCHANGED <<kind, queue, collected, output, peers, streak, result, hvars>>
    BY <1>4 DEF Failed
  <2>2. inFlight' \in [Endpoints -> 0..Alpha] /\ NumInFlight' <= Alpha
    BY <1>1, <2>1, JoinedFits
  <2>3. completed' \in 0..MaxQueries /\ Running
    BY <1>1, <2>1, NotEnough
  <2>4. TypeOK'
    BY <1>1, <2>1, <2>2, <2>3 DEF TypeOK
  <2>5. Lists'
    BY <1>2, <2>1 DEF hvars
  <2>6. Streaks'
    BY <1>1, <2>1, <2>3 DEF Streaks, Running, hvars
  <2>7. QED
    BY <2>4, <2>5, <2>6 DEF SearchIInv
<1>5. ASSUME NEW p \in Endpoints, Answer(p)
      PROVE  SearchIInv'
  <2>1. PICK nodes \in Seq(Entries), values \in SUBSET Peers, token \in {"token", "none"} :
            \E found, all, stops : Reply(p, nodes, values, token, found, all, stops)
    BY <1>5, AnswerIsReply
  <2>2. PICK found, all, stops : Reply(p, nodes, values, token, found, all, stops)
    BY <2>1
  <2>3. TypeOK'
    BY <1>1, <2>2, ReplyTypes
  <2>4. Lists'
    BY <1>1, <2>2, ReplyLists
  <2>5. Streaks'
    BY <1>1, <2>2, ReplyStreaks
  <2>6. QED
    BY <2>3, <2>4, <2>5 DEF SearchIInv
<1>6. CASE Finish
  <2>1. /\ Enough /\ inFlight' = [p \in Endpoints |-> 0]
        /\ result' \in {"failed", "found"}
        /\ UNCHANGED <<kind, queue, visited, collected, output, peers, streak, completed, hvars>>
    BY <1>6 DEF Finish
  <2>2. NumInFlight' = 0
    <3>1. \A p \in Endpoints : inFlight'[p] \in Nat /\ inFlight'[p] = 0
      BY <2>1
    <3>2. QED
      BY <3>1, CountsInFlight, InFlightIsTotalNext
  <2>3. Alpha \in Nat
    BY DhtSearchAssumption
  <2>4. inFlight' \in [Endpoints -> 0..Alpha] /\ NumInFlight' <= Alpha
    BY <2>1, <2>2, <2>3
  <2>5. TypeOK'
    BY <1>1, <2>1, <2>4 DEF TypeOK
  <2>6. Lists'
    BY <1>2, <2>1 DEF hvars
  <2>7. Enough'
    BY <2>1, <2>2 DEF Enough
  <2>8. Streaks'
    BY <1>1, <2>1, <2>7 DEF Streaks, hvars
  <2>9. QED
    BY <2>5, <2>6, <2>8 DEF SearchIInv
<1>7. CASE UNCHANGED vars
  <2>1. /\ UNCHANGED <<kind, queue, inFlight, visited, collected, output, peers, streak,
                       completed, result, reported, unchanged>>
    BY <1>7 DEF vars, hvars
  <2>2. NumInFlight' = NumInFlight
    BY <2>1, InFlightIsTotal, InFlightIsTotalNext
  <2>3. TypeOK'
    BY <1>1, <2>1, <2>2 DEF TypeOK
  <2>4. Lists'
    BY <1>2, <2>1
  <2>5. Streaks'
    BY <1>1, <2>1, <2>2 DEF Streaks, Running, Enough
  <2>6. QED
    BY <2>3, <2>4, <2>5 DEF SearchIInv
<1>8. QED
  BY <1>3, <1>4, <1>5, <1>6, <1>7 DEF Next

-----------------------------------------------------------------------------
(* The theorems *)

(* In every behaviour of a search its inductive invariant holds. *)
THEOREM SearchInductive == Spec => []SearchIInv
BY InitSearch, SearchStep, PTL DEF Spec

(* SearchInv: of everything replies have named the output has the K nearest,   *)
(* whatever their order, however lists are sorted, merged and cut; and at most *)
(* Alpha queries are in flight, at least one whenever the loop waits           *)
(* (find_node_impl and get_peers_impl of dht_session.rs).                      *)
THEOREM SearchInvHolds == Spec => []SearchInv
<1>1. SearchIInv => SearchInv
  <2> SUFFICES ASSUME SearchIInv PROVE SearchInv
    OBVIOUS
  <2>1. TypeOK /\ Lists
    BY DEF SearchIInv
  <2>2. K \in Nat \ {0} /\ Cap \in Nat /\ K <= Cap /\ Alpha \in Nat \ {0}
    BY DhtSearchAssumption
  <2>3. collected \in Seq(Entries) /\ output \in Seq(Entries) /\ Len(collected) \in Nat
    BY <2>1 DEF TypeOK
  <2>4. Len(output) = (IF Len(collected) < K THEN Len(collected) ELSE K)
        /\ \A i \in 1..Len(output) : output[i] = collected[i]
    BY <2>1, <2>2, <2>3, UpToProperties DEF Lists
  <2>5. Range(output) \subseteq reported
    <3>1. \A i \in 1..Len(output) : output[i] \in Range(collected)
      BY <2>2, <2>3, <2>4 DEF Range
    <3>2. QED
      BY <2>1, <2>3, <3>1 DEF Lists, Range
  <2>6. ASSUME NEW e \in reported, e \notin Range(output)
        PROVE  Len(output) = K /\ \A o \in Range(output) : o[1] <= e[1]
    <3>1. CASE e \in Range(collected)
      <4>1. PICK j \in 1..Len(collected) : collected[j] = e
        BY <2>3, <3>1 DEF Range
      <4>2. j \notin 1..Len(output)
        BY <2>3, <2>4, <2>6, <4>1 DEF Range
      <4>3. Len(output) = K /\ j > K
        BY <2>2, <2>3, <2>4, <4>1, <4>2
      <4>4. \A i \in 1..K : output[i][1] <= e[1]
        BY <2>1, <2>2, <2>3, <2>4, <4>1, <4>3 DEF Lists, Sorted
      <4>5. QED
        BY <2>3, <4>3, <4>4 DEF Range
    <3>2. CASE e \notin Range(collected)
      <4>1. Len(collected) >= Cap /\ \A i \in 1..Cap : collected[i][1] <= e[1]
        BY <2>1, <3>2 DEF Lists, LeftOut
      <4>2. Len(output) = K
        BY <2>2, <2>3, <2>4, <4>1
      <4>3. \A i \in 1..K : output[i][1] <= e[1]
        BY <2>2, <2>4, <4>1, <4>2
      <4>4. QED
        BY <2>3, <4>2, <4>3 DEF Range
    <3>3. QED
      BY <3>1, <3>2
  <2>7. NearestReported
    BY <2>5, <2>6 DEF NearestReported
  <2>8. NeverSpins
    <3>1. NumInFlight \in Nat
      <4>1. \A p \in Endpoints : inFlight[p] \in Nat
        BY <2>1, <2>2 DEF TypeOK
      <4>2. QED
        BY <4>1, CountsInFlight, InFlightIsTotal
    <3>2. QED
      BY <2>2, <3>1 DEF NeverSpins, Waiting, Enough
  <2>9. QED
    BY <2>1, <2>7, <2>8 DEF SearchInv
<1>2. QED
  BY <1>1, SearchInductive, PTL

(* StopsConverged: a search that stops early has K nodes and has seen          *)
(* Converged replies in a row bring no nearer one (dht_session.rs,             *)
(* iteration_with_convergence).                                                *)
THEOREM StopsConvergedHolds == Spec => []StopsConverged
<1>1. SearchIInv => StopsConverged
  <2> SUFFICES ASSUME SearchIInv, ~Running, completed < MaxQueries, queue # << >>,
                      Cardinality(peers) < MaxPeers
               PROVE  unchanged >= Converged /\ Len(output) = K
    BY DEF StopsConverged
  <2>1. TypeOK /\ Streaks
    BY DEF SearchIInv
  <2>2. completed \in 0..MaxQueries /\ streak \in 0..Converged /\ unchanged \in Nat
        /\ MaxQueries \in Nat /\ Converged \in Nat \ {0}
    BY <2>1, DhtSearchAssumption DEF TypeOK, Streaks
  <2>3. ~(Cardinality(peers) >= MaxPeers)
    <3>1. IsFiniteSet(peers)
      BY <2>1, FS_Subset, DhtSearchAssumption DEF TypeOK
    <3>2. Cardinality(peers) \in Nat /\ MaxPeers \in Nat
      BY <3>1, FS_CardinalityType, DhtSearchAssumption
    <3>3. QED
      BY <3>2
  <2>4. streak >= Converged
    BY <2>1, <2>2, <2>3 DEF Streaks, Enough
  <2>5. QED
    BY <2>1, <2>2, <2>4 DEF Streaks
<1>2. QED
  BY <1>1, SearchInductive, PTL

(* Who has been asked: until the search stops an endpoint to which a query has *)
(* been started is being asked, or has been visited.                           *)
AskedKnown ==
    /\ asked \subseteq Endpoints
    /\ Running => \A p \in asked : inFlight[p] > 0 \/ visited[p] # "no"

(* The end of a query to p marks p as visited, and is of no other endpoint. *)
LEMMA JoinedKeepsAsked ==
    ASSUME TypeOK, AskedKnown, NEW p \in Endpoints, Joined(p), asked' = asked,
           NEW mark \in {"token", "none"}, visited' = [visited EXCEPT ![p] = mark]
    PROVE  AskedKnown'
<1>1. Running /\ inFlight' = [inFlight EXCEPT ![p] = @ - 1]
  BY DEF Joined, Waiting
<1>2. visited'[p] # "no" /\ \A q \in Endpoints \ {p} : visited'[q] = visited[q] /\ inFlight'[q] = inFlight[q]
  BY <1>1 DEF TypeOK
<1>3. QED
  BY <1>1, <1>2 DEF AskedKnown

(* Starting queries puts one in flight to each endpoint that is asked. *)
LEMMA SpawnKeepsAsked ==
    ASSUME TypeOK, AskedKnown, Spawn
    PROVE  AskedKnown'
<1>1. Alpha \in Nat /\ queue \in Seq(Entries) /\ inFlight \in [Endpoints -> 0..Alpha]
  BY DhtSearchAssumption DEF TypeOK
<1>2. PICK n : n = NumInFlight
  OBVIOUS
<1>3. n \in Nat /\ n <= Alpha
  <2>1. \A p \in Endpoints : inFlight[p] \in Nat
    BY <1>1
  <2>2. QED
    BY <1>2, <2>1, InFlightIsTotal, CountsInFlight DEF TypeOK
<1>4. PICK now : now = UpTo(queue, Alpha - n)
  OBVIOUS
<1>5. now \in Seq(Entries)
  <2>1. Alpha - n \in Nat
    BY <1>1, <1>3
  <2>2. QED
    BY <1>1, <1>4, <2>1, UpToProperties
<1>6. /\ inFlight' = [p \in Endpoints |-> inFlight[p] + Cardinality({i \in DOMAIN now : now[i][2] = p})]
      /\ asked' = asked \cup {e[2] : e \in Range(now)}
      /\ UNCHANGED <<visited, result>>
  BY <1>2, <1>4 DEF Spawn, Slots
<1>7. ASSUME NEW p \in Endpoints
      PROVE  /\ inFlight'[p] \in Nat /\ inFlight'[p] >= inFlight[p]
             /\ (\E e \in Range(now) : e[2] = p) => inFlight'[p] > 0
  <2> DEFINE I == {i \in DOMAIN now : now[i][2] = p}
  <2>1. inFlight'[p] = inFlight[p] + Cardinality(I) /\ inFlight[p] \in Nat
    BY <1>1, <1>6
  <2>2. IsFiniteSet(I)
    <3>1. PICK l \in Nat : l = Len(now)
      BY <1>5
    <3>2. IsFiniteSet(1..l) /\ I \subseteq 1..l
      BY <1>5, <3>1, FS_Interval
    <3>3. QED
      BY <3>2, FS_Subset
  <2>3. Cardinality(I) \in Nat /\ (Cardinality(I) = 0 <=> I = {})
    BY <2>2, FS_CardinalityType, FS_EmptySet
  <2>4. (\E e \in Range(now) : e[2] = p) => I # {}
    BY DEF Range
  <2> HIDE DEF I
  <2>5. QED
    BY <2>1, <2>3, <2>4
<1>8. {e[2] : e \in Range(now)} \subseteq Endpoints
  <2>1. \A e \in Range(now) : e \in Entries
    BY <1>5 DEF Range
  <2>2. QED
    BY <2>1 DEF Endpoints
<1>9. asked' \subseteq Endpoints
  BY <1>6, <1>8 DEF AskedKnown
<1>10. ASSUME NEW p \in asked'
       PROVE  inFlight'[p] > 0 \/ visited'[p] # "no"
  <2>1. /\ p \in Endpoints /\ visited'[p] = visited[p]
        /\ inFlight'[p] >= inFlight[p] /\ inFlight[p] \in Nat /\ inFlight'[p] \in Nat
    BY <1>1, <1>6, <1>7, <1>9
  <2>2. CASE p \in asked
    <3>1. inFlight[p] > 0 \/ visited[p] # "no"
      BY <2>2 DEF AskedKnown, Spawn
    <3>2. QED
      BY <2>1, <3>1
  <2>3. CASE p \notin asked
    BY <1>6, <1>7, <2>1, <2>3
  <2>4. QED
    BY <2>2, <2>3
<1>11. QED
  BY <1>9, <1>10 DEF AskedKnown

LEMMA AskedStep == SearchIInv /\ AskedKnown /\ [Next]_vars => AskedKnown'
<1> SUFFICES ASSUME SearchIInv, AskedKnown, [Next]_vars PROVE AskedKnown'
  OBVIOUS
<1>1. TypeOK
  BY DEF SearchIInv
<1>2. CASE Spawn
  BY <1>1, <1>2, SpawnKeepsAsked
<1>3. ASSUME NEW p \in Endpoints, Failed(p)
      PROVE  AskedKnown'
  BY <1>1, <1>3, JoinedKeepsAsked DEF Failed, hvars
<1>4. ASSUME NEW p \in Endpoints, Answer(p)
      PROVE  AskedKnown'
  <2>1. PICK nodes \in Seq(Entries), values \in SUBSET Peers, token \in {"token", "none"} :
            \E found, all, stops : Reply(p, nodes, values, token, found, all, stops)
    BY <1>4, AnswerIsReply
  <2>2. Joined(p) /\ asked' = asked /\ visited' = [visited EXCEPT ![p] = token]
    BY <2>1 DEF Reply
  <2>3. QED
    BY <1>1, <2>2, JoinedKeepsAsked
<1>5. CASE Finish
  <2>1. asked' = asked /\ ~Running'
    BY <1>5 DEF Finish, hvars, Running
  <2>2. QED
    BY <2>1 DEF AskedKnown
<1>6. CASE UNCHANGED vars
  BY <1>6 DEF vars, hvars, AskedKnown, Running
<1>7. QED
  BY <1>2, <1>3, <1>4, <1>5, <1>6 DEF Next

(* RequeuedInFlight: an endpoint that has been asked comes back into the queue *)
(* only while all its queries are under way.  Since the end of a query, a      *)
(* failure too, marks its endpoint (JoinedKeepsAsked), and an endpoint once    *)
(* asked is marked or in flight, what `visited` keeps out of the queue is all  *)
(* that has been heard of (dht_session.rs, visited in both searches).          *)
THEOREM RequeuedInFlightHolds == Spec => RequeuedInFlight
<1> DEFINE Requeued == \A e \in Range(queue') \ Range(queue) :
                           e[2] \in asked => inFlight'[e[2]] > 0 /\ visited'[e[2]] = "no"
<1>1. SearchIInv /\ AskedKnown /\ [Next]_vars => [Requeued]_vars
  <2> SUFFICES ASSUME SearchIInv, AskedKnown, [Next]_vars PROVE Requeued \/ UNCHANGED vars
    OBVIOUS
  <2>1. TypeOK /\ queue \in Seq(Entries) /\ Cap \in Nat
    BY DhtSearchAssumption DEF SearchIInv, TypeOK
  <2>2. CASE Spawn
    BY <2>1, <2>2, SpawnFits
  <2>3. ASSUME NEW p \in Endpoints, Failed(p)
        PROVE  Requeued
    BY <2>3 DEF Failed
  <2>4. CASE Finish
    BY <2>4 DEF Finish
  <2>5. ASSUME NEW p \in Endpoints, Answer(p)
        PROVE  Requeued
    <3>1. PICK nodes \in Seq(Entries), values \in SUBSET Peers, token \in {"token", "none"} :
              \E found, all, stops : Reply(p, nodes, values, token, found, all, stops)
      BY <2>5, AnswerIsReply
    <3>2. PICK found, all, stops : Reply(p, nodes, values, token, found, all, stops)
      BY <3>1
    <3>3. PICK wanted : wanted = ToAsk(nodes, visited')
      OBVIOUS
    <3>4. wanted \in Seq(Entries) /\ \A e \in Range(wanted) : visited'[e[2]] = "no"
      BY <3>3, ToAskProperties
    <3>5. all \in Seq(Entries) /\ Range(all) = Range(queue) \cup Range(wanted)
      BY <2>1, <3>2, <3>3, <3>4, SortedJoin DEF Reply
    <3>6. Range(queue') \subseteq Range(all)
      BY <2>1, <3>2, <3>5, CutTypes DEF Reply
    <3>7. \A e \in Range(queue') \ Range(queue) : visited'[e[2]] = "no"
      BY <3>4, <3>5, <3>6
    <3>8. asked' = asked /\ Running'
      <4>1. Running /\ result' = result /\ asked' = asked
        BY <2>1, <3>2, NotEnough DEF Reply
      <4>2. QED
        BY <4>1 DEF Running
    <3>9. \A q \in asked : inFlight'[q] > 0 \/ visited'[q] # "no"
      BY <3>8, AskedStep DEF AskedKnown
    <3>10. QED
      BY <3>7, <3>9
  <2>6. QED
    BY <2>2, <2>3, <2>4, <2>5 DEF Next
<1>2. Init => AskedKnown
  BY DEF Init, AskedKnown
<1>3. QED
  BY <1>1, <1>2, AskedStep, SearchInductive, PTL DEF Spec, RequeuedInFlight
=============================================================================
