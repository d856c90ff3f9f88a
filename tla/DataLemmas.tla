----------------------------- MODULE DataLemmas -----------------------------
(***************************************************************************)
(* Lemmas about the operators on data that the models use: Keep and        *)
(* SwapRemove of SeqHelpers, the least natural, sums taken with FoldSet.   *)
(* The library's induction theorems take the property as an operator;      *)
(* induction is done here over a set instead.                              *)
(***************************************************************************)
EXTENDS SeqHelpers, WellFoundedInduction, FiniteSetTheorems, TLAPS

-----------------------------------------------------------------------------
(* Induction *)

(* Every non-empty set of naturals has a least element. *)
LEMMA LeastNatural ==
    ASSUME NEW S \in SUBSET Nat, S # {}
    PROVE  \E m \in S : \A k \in S : m <= k
<1>1. PICK m \in S : \A k \in S : ~(<<k, m>> \in OpToRel(<, Nat))
  BY NatLessThanWellFounded, WFMin
<1>2. \A k \in S : ~(k < m)
  BY <1>1 DEF OpToRel
<1>3. QED
  BY <1>2

(* A set that holds 0 and is closed under successor holds every natural. *)
LEMMA SetInduction ==
    ASSUME NEW T, 0 \in T, \A n \in Nat : n \in T => n + 1 \in T
    PROVE  Nat \subseteq T
<1> DEFINE C == {n \in Nat : n \notin T}
<1> SUFFICES ASSUME C # {} PROVE FALSE
  OBVIOUS
<1>1. PICK m \in C : \A k \in C : m <= k
  BY LeastNatural
<1>2. m # 0
  OBVIOUS
<1>3. m - 1 \in Nat /\ m - 1 \notin C
  BY <1>1, <1>2
<1>4. m \in T
  BY <1>3
<1>5. QED
  BY <1>4

(* What holds of {}, and of a set whenever it does of the set less the      *)
(* element CHOOSE takes, holds of every finite set.                         *)
LEMMA FiniteInduction ==
    ASSUME NEW S, IsFiniteSet(S), NEW T, {} \in T,
           \A s \in SUBSET S : s # {} /\ s \ {CHOOSE x \in s : TRUE} \in T => s \in T
    PROVE  SUBSET S \subseteq T
<1> DEFINE N == {n \in Nat : \A s \in SUBSET S : Cardinality(s) = n => s \in T}
<1>1. ASSUME NEW s \in SUBSET S
      PROVE  IsFiniteSet(s) /\ Cardinality(s) \in Nat /\ (Cardinality(s) = 0 <=> s = {})
  BY FS_Subset, FS_CardinalityType, FS_EmptySet
<1>2. 0 \in N
  BY <1>1
<1>3. ASSUME NEW n \in Nat, n \in N
      PROVE  n + 1 \in N
  <2>1. ASSUME NEW s \in SUBSET S, Cardinality(s) = n + 1
        PROVE  s \in T
    <3> DEFINE x == CHOOSE x \in s : TRUE
    <3>1. s # {}
      BY <1>1, <2>1
    <3>2. x \in s
      BY <3>1
    <3> HIDE DEF x
    <3>3. Cardinality(s \ {x}) = n /\ s \ {x} \in SUBSET S
      BY <1>1, <2>1, <3>2, FS_RemoveElement
    <3>4. s \ {x} \in T
      BY <1>3, <3>3
    <3>5. QED
      BY <3>1, <3>4 DEF x
  <2>2. QED
    BY <2>1
<1>4. Nat \subseteq N
  BY <1>2, <1>3, SetInduction
<1>5. QED
  BY <1>1, <1>4

(* Min(S) is the least element of a non-empty set of naturals. *)
LEMMA MinOfNaturals ==
    ASSUME NEW S \in SUBSET Nat, S # {}
    PROVE  /\ Min(S) \in S
           /\ \A k \in S : Min(S) <= k
<1>1. \E m \in S : \A k \in S : m =< k
  BY LeastNatural
<1>2. QED
  BY <1>1 DEF Min

-----------------------------------------------------------------------------
(* Sums *)

(* The sum of w over a set, as FoldSet takes it: g[s] for every s. *)
SumStep(w, g, s) ==
    IF s = {} THEN 0
    ELSE w[CHOOSE x \in s : TRUE] + g[s \ {CHOOSE x \in s : TRUE}]

IsSum(S, w, g) == g = [s \in SUBSET S |-> SumStep(w, g, s)]

(* The recursive function inside FoldSet exists. *)
LEMMA SumExists ==
    ASSUME NEW S, IsFiniteSet(S), NEW w
    PROVE  \E g : IsSum(S, w, g)
<1> DEFINE Upto(n) == {s \in SUBSET S : Cardinality(s) <= n}
           N == {n \in Nat : \E g : \A s \in SUBSET S : Cardinality(s) <= n => g[s] = SumStep(w, g, s)}
<1>1. ASSUME NEW s \in SUBSET S
      PROVE  IsFiniteSet(s) /\ Cardinality(s) \in Nat /\ (Cardinality(s) = 0 <=> s = {})
  BY FS_Subset, FS_CardinalityType, FS_EmptySet
<1>2. ASSUME NEW s \in SUBSET S, s # {}
      PROVE  /\ s \ {CHOOSE x \in s : TRUE} \in SUBSET S
             /\ Cardinality(s \ {CHOOSE x \in s : TRUE}) = Cardinality(s) - 1
  BY <1>1, <1>2, FS_RemoveElement
<1>3. 0 \in N
  <2>1. \A s \in SUBSET S : Cardinality(s) <= 0 => [t \in SUBSET S |-> 0][s] = SumStep(w, [t \in SUBSET S |-> 0], s)
    BY <1>1 DEF SumStep
  <2>2. QED
    BY <2>1
<1>4. ASSUME NEW n \in Nat, n \in N
      PROVE  n + 1 \in N
  <2>1. PICK g : \A s \in SUBSET S : Cardinality(s) <= n => g[s] = SumStep(w, g, s)
    BY <1>4
  <2> DEFINE h == [s \in SUBSET S |-> SumStep(w, g, s)]
  <2>2. \A s \in SUBSET S : h[s] = SumStep(w, g, s)
    OBVIOUS
  <2> HIDE DEF h
  <2>3. ASSUME NEW s \in SUBSET S, Cardinality(s) <= n + 1
        PROVE  h[s] = SumStep(w, h, s)
    <3>1. CASE s = {}
      BY <2>2, <3>1 DEF SumStep
    <3>2. CASE s # {}
      <4>1. PICK t : t = s \ {CHOOSE x \in s : TRUE}
        OBVIOUS
      <4>2. t \in SUBSET S /\ Cardinality(t) <= n
        BY <1>1, <1>2, <2>3, <3>2, <4>1
      <4>3. h[t] = g[t]
        BY <2>1, <2>2, <4>2
      <4>4. QED
        BY <2>2, <3>2, <4>1, <4>3 DEF SumStep
    <3>3. QED
      BY <3>1, <3>2
  <2>4. QED
    BY <2>3
<1>5. Nat \subseteq N
  BY <1>3, <1>4, SetInduction
<1>6. Cardinality(S) \in N
  BY <1>1, <1>5
<1>7. PICK g : \A s \in SUBSET S : Cardinality(s) <= Cardinality(S) => g[s] = SumStep(w, g, s)
  BY <1>6
<1>8. \A s \in SUBSET S : Cardinality(s) <= Cardinality(S)
  BY FS_Subset
<1> DEFINE h == [s \in SUBSET S |-> SumStep(w, g, s)]
<1>9. \A s \in SUBSET S : h[s] = g[s]
  BY <1>7, <1>8
<1>10. \A s \in SUBSET S : SumStep(w, h, s) = SumStep(w, g, s)
  BY <1>2, <1>9 DEF SumStep
<1>11. h = [s \in SUBSET S |-> SumStep(w, h, s)]
  BY <1>10
<1>12. QED
  BY <1>11 DEF IsSum
(* How the sum goes on from a set less one element. *)
LEMMA SumUnfold ==
    ASSUME NEW S, NEW w, NEW g, IsSum(S, w, g), NEW s \in SUBSET S
    PROVE  /\ s = {} => g[s] = 0
           /\ s # {} => g[s] = w[CHOOSE x \in s : TRUE] + g[s \ {CHOOSE x \in s : TRUE}]
BY DEF IsSum, SumStep

(* A product grows with a factor. *)
LEMMA Product ==
    ASSUME NEW m \in Nat, NEW n \in Nat
    PROVE  /\ m * n \in Nat
           /\ m * (n + 1) = m * n + m
           /\ \A k \in Nat : k <= m => k * n <= m * n
<1>1. m * n \in Nat /\ m * (n + 1) = m * n + m
  OBVIOUS
<1>2. ASSUME NEW k \in Nat, k <= m
      PROVE  k * n <= m * n
  <2>1. PICK d \in Nat : m = k + d
    BY <1>2
  <2>2. m * n = k * n + d * n /\ d * n \in Nat /\ k * n \in Nat
    BY <2>1
  <2>3. QED
    BY <2>2
<1>3. QED
  BY <1>1, <1>2

(* The sum of naturals, each from m on or each up to m. *)
LEMMA SumBounds ==
    ASSUME NEW S, IsFiniteSet(S), NEW w, \A x \in S : w[x] \in Nat,
           NEW g, IsSum(S, w, g), NEW m \in Nat
    PROVE  /\ g[S] \in Nat
           /\ (\A x \in S : m <= w[x]) => m * Cardinality(S) <= g[S]
           /\ (\A x \in S : w[x] <= m) => g[S] <= m * Cardinality(S)
<1> DEFINE T == {s \in SUBSET S : /\ g[s] \in Nat
                                  /\ (\A x \in s : m <= w[x]) => m * Cardinality(s) <= g[s]
                                  /\ (\A x \in s : w[x] <= m) => g[s] <= m * Cardinality(s)}
<1>1. {} \in T
  <2>1. m * Cardinality({}) = 0
    BY FS_EmptySet
  <2>2. g[{}] = 0
    BY SumUnfold
  <2>3. QED
    BY <2>1, <2>2
<1>2. ASSUME NEW s \in SUBSET S, s # {}, s \ {CHOOSE x \in s : TRUE} \in T
      PROVE  s \in T
  <2>1. PICK x \in s : x = CHOOSE y \in s : TRUE
    BY <1>2
  <2>2. PICK r \in T : r = s \ {x}
    BY <1>2, <2>1
  <2>3. g[s] = w[x] + g[r] /\ w[x] \in Nat /\ g[r] \in Nat
    BY <1>2, <2>1, <2>2, SumUnfold
  <2>4. PICK n \in Nat : n = Cardinality(r)
    BY <2>2, FS_Subset, FS_CardinalityType
  <2>5. Cardinality(s) = n + 1
    <3>1. IsFiniteSet(s) /\ Cardinality(s) \in Nat
      BY FS_Subset, FS_CardinalityType
    <3>2. Cardinality(r) = Cardinality(s) - 1
      BY <2>2, <3>1, FS_RemoveElement
    <3>3. QED
      BY <2>4, <3>1, <3>2
  <2>6. m * n \in Nat /\ m * Cardinality(s) = m * n + m
    BY <2>5, Product
  <2>7. ASSUME \A y \in s : m <= w[y]
        PROVE  m * Cardinality(s) <= g[s]
    <3>1. m * n <= g[r] /\ m <= w[x]
      BY <2>2, <2>4, <2>7
    <3>2. QED
      BY <2>3, <2>6, <3>1
  <2>8. ASSUME \A y \in s : w[y] <= m
        PROVE  g[s] <= m * Cardinality(s)
    <3>1. g[r] <= m * n /\ w[x] <= m
      BY <2>2, <2>4, <2>8
    <3>2. QED
      BY <2>3, <2>6, <3>1
  <2>9. g[s] \in Nat
    BY <2>3
  <2>10. QED
    BY <2>7, <2>8, <2>9
<1>3. S \in T
  <2> HIDE DEF T
  <2>1. \A s \in SUBSET S : s # {} /\ s \ {CHOOSE x \in s : TRUE} \in T => s \in T
    BY <1>2
  <2>2. SUBSET S \subseteq T
    BY <1>1, <2>1, FiniteInduction
  <2>3. QED
    BY <2>2
<1>4. QED
  BY <1>3

(* The sum of w over S, as FoldSet computes it. *)
Total(S, w) == (CHOOSE g : IsSum(S, w, g))[S]

LEMMA TotalIsSum ==
    ASSUME NEW S, IsFiniteSet(S), NEW w
    PROVE  /\ \E g : IsSum(S, w, g) /\ Total(S, w) = g[S]
           /\ FoldSet(LAMBDA x, n : w[x] + n, 0, S) = Total(S, w)
<1>1. IsSum(S, w, CHOOSE g : IsSum(S, w, g))
  BY SumExists
<1>2. FoldSet(LAMBDA x, n : w[x] + n, 0, S) = Total(S, w)
  BY DEF FoldSet, MapThenFoldSet, Total, IsSum, SumStep
<1>3. QED
  BY <1>1, <1>2 DEF Total

(* The sum of sums, of naturals. *)
LEMMA TotalAdds ==
    ASSUME NEW S, IsFiniteSet(S), NEW u, NEW v, NEW w,
           \A x \in S : u[x] \in Nat /\ v[x] \in Nat /\ w[x] = u[x] + v[x]
    PROVE  /\ Total(S, u) \in Nat /\ Total(S, v) \in Nat
           /\ Total(S, w) = Total(S, u) + Total(S, v)
<1>1. PICK a : IsSum(S, u, a) /\ Total(S, u) = a[S]
  BY TotalIsSum
<1>2. PICK b : IsSum(S, v, b) /\ Total(S, v) = b[S]
  BY TotalIsSum
<1>3. PICK c : IsSum(S, w, c) /\ Total(S, w) = c[S]
  BY TotalIsSum
<1> DEFINE T == {s \in SUBSET S : a[s] \in Nat /\ b[s] \in Nat /\ c[s] = a[s] + b[s]}
<1>4. {} \in T
  <2> {} \in SUBSET S
    OBVIOUS
  <2>1. a[{}] = 0
    BY <1>1 DEF IsSum, SumStep
  <2>2. b[{}] = 0
    BY <1>2 DEF IsSum, SumStep
  <2>3. c[{}] = 0
    BY <1>3 DEF IsSum, SumStep
  <2>4. QED
    BY <2>1, <2>2, <2>3
<1>5. ASSUME NEW s \in SUBSET S, s # {}, s \ {CHOOSE x \in s : TRUE} \in T
      PROVE  s \in T
  <2>1. PICK x \in s : x = CHOOSE y \in s : TRUE
    BY <1>5
  <2>2. PICK r \in T : r = s \ {x}
    BY <1>5, <2>1
  <2>3. a[s] = u[x] + a[r] /\ b[s] = v[x] + b[r] /\ c[s] = w[x] + c[r]
    BY <1>1, <1>2, <1>3, <1>5, <2>1, <2>2, SumUnfold
  <2>4. u[x] \in Nat /\ v[x] \in Nat /\ w[x] = u[x] + v[x]
    OBVIOUS
  <2>5. a[r] \in Nat /\ b[r] \in Nat /\ c[r] = a[r] + b[r]
    BY <2>2
  <2>6. a[s] \in Nat /\ b[s] \in Nat /\ c[s] = a[s] + b[s]
    BY <2>3, <2>4, <2>5
  <2>7. QED
    BY <2>6
<1>6. S \in T
  <2> HIDE DEF T
  <2>1. \A s \in SUBSET S : s # {} /\ s \ {CHOOSE x \in s : TRUE} \in T => s \in T
    BY <1>5
  <2>2. SUBSET S \subseteq T
    BY <1>4, <2>1, FiniteInduction
  <2>3. QED
    BY <2>2
<1>7. QED
  BY <1>1, <1>2, <1>3, <1>6

(* Elements counted by what f maps them to are all counted. *)
LEMMA TotalCounts ==
    ASSUME NEW S, IsFiniteSet(S), NEW D, IsFiniteSet(D), NEW f, \A i \in D : f[i] \in S,
           NEW w, \A x \in S : w[x] = Cardinality({i \in D : f[i] = x})
    PROVE  Total(S, w) = Cardinality(D)
<1>1. PICK c : IsSum(S, w, c) /\ Total(S, w) = c[S]
  BY TotalIsSum
<1> DEFINE In(s) == {i \in D : f[i] \in s}
           T == {s \in SUBSET S : c[s] = Cardinality(In(s))}
<1>2. {} \in T
  <2>1. c[{}] = 0
    <3>1. {} \in SUBSET S
      OBVIOUS
    <3>2. QED
      BY <1>1, <3>1 DEF IsSum, SumStep
  <2>2. In({}) = {} /\ Cardinality({}) = 0
    BY FS_EmptySet
  <2>3. QED
    BY <2>1, <2>2
<1>3. ASSUME NEW s \in SUBSET S, s # {}, s \ {CHOOSE x \in s : TRUE} \in T
      PROVE  s \in T
  <2>1. PICK x \in s : x = CHOOSE y \in s : TRUE
    BY <1>3
  <2>2. PICK r \in T : r = s \ {x}
    BY <1>3, <2>1
  <2>3. c[s] = w[x] + c[r]
    BY <1>1, <1>3, <2>1, <2>2, SumUnfold
  <2>4. PICK A, B : A = {i \in D : f[i] = x} /\ B = In(r)
    OBVIOUS
  <2>5. A \cup B = In(s) /\ A \cap B = {} /\ A \in SUBSET D /\ B \in SUBSET D
    BY <2>1, <2>2, <2>4
  <2>6. IsFiniteSet(A) /\ IsFiniteSet(B)
    BY <2>5, FS_Subset
  <2>7. Cardinality(A \cup B) = Cardinality(A) + Cardinality(B) - Cardinality(A \cap B)
    BY <2>6, FS_Union
  <2>8. Cardinality(A) \in Nat /\ Cardinality(B) \in Nat /\ Cardinality({}) = 0
    BY <2>6, FS_CardinalityType, FS_EmptySet
  <2>9. w[x] = Cardinality(A) /\ c[r] = Cardinality(B)
    BY <2>2, <2>4
  <2>10. c[s] = Cardinality(In(s))
    <3>1. Cardinality(A \cup B) = Cardinality(A) + Cardinality(B)
      <4>1. Cardinality(A \cap B) = 0
        BY <2>5, <2>8
      <4>2. QED
        BY <2>7, <2>8, <4>1
    <3>2. Cardinality(A \cup B) = Cardinality(In(s))
      BY <2>5
    <3>3. QED
      BY <2>3, <2>9, <3>1, <3>2
  <2>11. QED
    BY <2>10
<1>4. S \in T
  <2> HIDE DEF T
  <2>1. \A s \in SUBSET S : s # {} /\ s \ {CHOOSE x \in s : TRUE} \in T => s \in T
    BY <1>3
  <2>2. SUBSET S \subseteq T
    BY <1>2, <2>1, FiniteInduction
  <2>3. QED
    BY <2>2
<1>5. In(S) = D
  OBVIOUS
<1>6. QED
  BY <1>1, <1>4, <1>5

(* A quotient and the products on either side of the dividend. *)
LEMMA Quotient ==
    ASSUME NEW a \in Nat, NEW n \in Nat \ {0}
    PROVE  /\ a \div n \in Nat
           /\ (a \div n) * n <= a
           /\ a < (a \div n + 1) * n
OBVIOUS

(* The rounded mean of naturals: one of them is no greater, and it is no     *)
(* greater than what bounds them all.                                        *)
LEMMA MeanBounds ==
    ASSUME NEW S, IsFiniteSet(S), S # {}, NEW w, \A x \in S : w[x] \in Nat,
           NEW g, IsSum(S, w, g)
    PROVE  /\ g[S] \div Cardinality(S) \in Nat
           /\ \E x \in S : w[x] <= g[S] \div Cardinality(S)
           /\ \A m \in Nat : (\A x \in S : w[x] <= m) => g[S] \div Cardinality(S) <= m
<1>1. PICK n \in Nat \ {0} : n = Cardinality(S)
  BY FS_CardinalityType, FS_EmptySet
<1>2. PICK a \in Nat : a = g[S]
  BY SumBounds
<1>3. PICK q \in Nat : q = a \div n
  BY Quotient
<1>4. q * n <= a /\ a < (q + 1) * n /\ q * n \in Nat /\ (q + 1) * n \in Nat
  BY <1>3, Quotient
<1>5. \E x \in S : w[x] <= q
  <2> SUFFICES ASSUME \A x \in S : q + 1 <= w[x] PROVE FALSE
    OBVIOUS
  <2>1. (q + 1) * n <= a
    BY <1>1, <1>2, SumBounds
  <2>2. QED
    BY <1>4, <2>1
<1>6. ASSUME NEW m \in Nat, \A x \in S : w[x] <= m
      PROVE  q <= m
  <2>1. a <= m * n
    BY <1>1, <1>2, <1>6, SumBounds
  <2>2. SUFFICES ASSUME m + 1 <= q PROVE FALSE
    OBVIOUS
  <2>3. (m + 1) * n <= q * n /\ (m + 1) * n = m * n + n /\ m * n \in Nat
    BY <2>2, Product
  <2>4. QED
    BY <1>4, <2>1, <2>3
<1>7. QED
  BY <1>1, <1>2, <1>3, <1>5, <1>6

-----------------------------------------------------------------------------
(* Keep and SwapRemove *)

(* The step of the function inside KeepAt. *)
KeepStep(s, I, g, i) ==
    IF i = 0 THEN << >>
    ELSE IF i \in I THEN Append(g[i - 1], s[i]) ELSE g[i - 1]

(* The recursive function inside KeepAt exists. *)
LEMMA KeptExists ==
    ASSUME NEW s, NEW I
    PROVE  \A n \in Nat : \E g : g = [i \in 0..n |-> KeepStep(s, I, g, i)]
<1> DEFINE N == {n \in Nat : \E g : g = [i \in 0..n |-> KeepStep(s, I, g, i)]}
<1>1. 0 \in N
  <2> DEFINE g == [i \in 0..0 |-> << >>]
  <2>1. g = [i \in 0..0 |-> KeepStep(s, I, g, i)]
    BY DEF KeepStep
  <2>2. QED
    BY <2>1
<1>2. ASSUME NEW n \in Nat, n \in N
      PROVE  n + 1 \in N
  <2>1. PICK g : g = [i \in 0..n |-> KeepStep(s, I, g, i)]
    BY <1>2
  <2> DEFINE h == [i \in 0..(n + 1) |-> KeepStep(s, I, g, i)]
  <2>2. \A i \in 0..n : h[i] = g[i]
    BY <2>1
  <2>3. h = [i \in 0..(n + 1) |-> KeepStep(s, I, g, i)]
    OBVIOUS
  <2> HIDE DEF h
  <2>4. ASSUME NEW i \in 0..(n + 1)
        PROVE  KeepStep(s, I, h, i) = KeepStep(s, I, g, i)
    <3>1. CASE i = 0
      BY <3>1 DEF KeepStep
    <3>2. CASE i # 0
      <4>1. i - 1 \in 0..n
        BY <3>2
      <4>2. h[i - 1] = g[i - 1]
        BY <2>2, <4>1
      <4>3. QED
        BY <4>2 DEF KeepStep
    <3>3. QED
      BY <3>1, <3>2
  <2>5. h = [i \in 0..(n + 1) |-> KeepStep(s, I, h, i)]
    BY <2>3, <2>4
  <2>6. \E k : k = [i \in 0..(n + 1) |-> KeepStep(s, I, k, i)]
    BY <2>5
  <2>7. QED
    BY <2>6
<1>3. Nat \subseteq N
  BY <1>1, <1>2, SetInduction
<1>4. QED
  BY <1>3

(* The indices of the kept elements: increasing, and all of them. *)
KeptAt(s, I, n, t, h) ==
    /\ Len(t) <= n
    /\ h \in [1..Len(t) -> 1..n]
    /\ \A j, k \in 1..Len(t) : j < k => h[j] < h[k]
    /\ \A k \in 1..Len(t) : t[k] = s[h[k]]
    /\ \A i \in 1..n : i \in I <=> \E k \in 1..Len(t) : h[k] = i

(* KeepAt(s, I) is a sequence over the same set, and it lists exactly the *)
(* positions of s that are in I, in their order.                          *)
LEMMA KeepAtProperties ==
    ASSUME NEW S, NEW s \in Seq(S), NEW I
    PROVE  /\ KeepAt(s, I) \in Seq(S)
           /\ \E h : KeptAt(s, I, Len(s), KeepAt(s, I), h)
<1> DEFINE IsKept(g) == g = [i \in 0..Len(s) |-> KeepStep(s, I, g, i)]
           F == CHOOSE g : IsKept(g)
<1>1. IsKept(F)
  <2>1. Len(s) \in Nat
    OBVIOUS
  <2>2. \E g : IsKept(g)
    BY <2>1, KeptExists
  <2>3. QED
    BY <2>2
<1>2. KeepAt(s, I) = F[Len(s)]
  BY DEF KeepAt, KeepStep
<1> HIDE DEF F
<1>unfold. \A i \in 0..Len(s) : F[i] = KeepStep(s, I, F, i)
  BY <1>1
<1>3. F[0] = << >>
  <2>1. 0 \in 0..Len(s)
    OBVIOUS
  <2>2. QED
    BY <1>unfold, <2>1 DEF KeepStep
<1>4. ASSUME NEW i \in 1..Len(s)
      PROVE  F[i] = IF i \in I THEN Append(F[i - 1], s[i]) ELSE F[i - 1]
  <2>1. i \in 0..Len(s) /\ i # 0
    OBVIOUS
  <2>2. QED
    BY <1>unfold, <2>1 DEF KeepStep
<1> DEFINE N == {n \in Nat : n <= Len(s) => /\ F[n] \in Seq(S)
                                            /\ \E h : KeptAt(s, I, n, F[n], h)}
<1>5. 0 \in N
  <2>1. KeptAt(s, I, 0, << >>, << >>)
    BY DEF KeptAt
  <2>2. F[0] \in Seq(S)
    BY <1>3
  <2>3. \E h : KeptAt(s, I, 0, F[0], h)
    BY <1>3, <2>1
  <2>4. QED
    BY <2>2, <2>3
<1>6. ASSUME NEW n \in Nat, n \in N, n + 1 <= Len(s)
      PROVE  /\ F[n + 1] \in Seq(S)
             /\ \E h : KeptAt(s, I, n + 1, F[n + 1], h)
  <2>1. Len(s) \in Nat /\ n <= Len(s) /\ n + 1 \in 1..Len(s) /\ (n + 1) - 1 = n
    BY <1>6
  <2>2. PICK f \in Seq(S) : f = F[n]
    BY <1>6, <2>1
  <2>3. PICK h : KeptAt(s, I, n, f, h)
    BY <1>6, <2>1, <2>2
  <2>4. F[n + 1] = IF n + 1 \in I THEN Append(f, s[n + 1]) ELSE f
    BY <1>4, <2>1, <2>2
  <2>5. CASE n + 1 \notin I
    <3>1. h \in [1..Len(f) -> 1..(n + 1)] /\ Len(f) <= n + 1
      BY <2>3 DEF KeptAt
    <3>2. ASSUME NEW i \in 1..(n + 1)
          PROVE  i \in I <=> \E k \in 1..Len(f) : h[k] = i
      <4>1. CASE i = n + 1
        BY <2>3, <2>5, <4>1 DEF KeptAt
      <4>2. CASE i \in 1..n
        BY <2>3, <4>2 DEF KeptAt
      <4>3. QED
        BY <4>1, <4>2
    <3>3. KeptAt(s, I, n + 1, f, h)
      BY <2>3, <3>1, <3>2 DEF KeptAt
    <3>4. QED
      BY <2>2, <2>4, <2>5, <3>3
  <2>6. CASE n + 1 \in I
    <3> DEFINE m == Len(f)
               t == Append(f, s[n + 1])
               hh == [k \in 1..(m + 1) |-> IF k <= m THEN h[k] ELSE n + 1]
    <3>1. s[n + 1] \in S
      BY <2>1
    <3>2. m \in Nat
      OBVIOUS
    <3>3. t \in Seq(S) /\ Len(t) = m + 1
      BY <3>1
    <3>4. \A k \in 1..m : t[k] = f[k]
      BY <3>1
    <3>5. t[m + 1] = s[n + 1]
      BY <3>1
    <3>6. /\ m <= n
          /\ h \in [1..m -> 1..n]
          /\ \A j, k \in 1..m : j < k => h[j] < h[k]
          /\ \A k \in 1..m : f[k] = s[h[k]]
          /\ \A i \in 1..n : i \in I <=> \E k \in 1..m : h[k] = i
      BY <2>3 DEF KeptAt
    <3> HIDE DEF m, t
    <3>7. /\ \A k \in 1..m : hh[k] = h[k] /\ hh[k] \in 1..n
          /\ hh[m + 1] = n + 1
      BY <3>2, <3>6
    <3>8. hh \in [1..(m + 1) -> 1..(n + 1)]
      BY <3>2, <3>6
    <3> HIDE DEF hh
    <3>9. ASSUME NEW j \in 1..(m + 1), NEW k \in 1..(m + 1), j < k
          PROVE  hh[j] < hh[k]
      <4>1. j \in 1..m
        BY <3>2, <3>9
      <4>2. CASE k \in 1..m
        BY <3>6, <3>7, <3>9, <4>1, <4>2
      <4>3. CASE k = m + 1
        BY <3>7, <4>1, <4>3
      <4>4. QED
        BY <3>2, <4>2, <4>3
    <3>10. ASSUME NEW k \in 1..(m + 1)
           PROVE  t[k] = s[hh[k]]
      <4>1. CASE k \in 1..m
        BY <3>4, <3>6, <3>7, <4>1
      <4>2. CASE k = m + 1
        BY <3>5, <3>7, <4>2
      <4>3. QED
        BY <3>2, <4>1, <4>2
    <3>11. ASSUME NEW i \in 1..(n + 1)
           PROVE  i \in I <=> \E k \in 1..(m + 1) : hh[k] = i
      <4>1. CASE i = n + 1
        BY <2>6, <3>2, <3>7, <4>1
      <4>2. CASE i \in 1..n
        <5>1. \A k \in 1..(m + 1) : hh[k] = i => k \in 1..m
          BY <3>2, <3>7, <4>2
        <5>2. \A k \in 1..m : k \in 1..(m + 1) /\ hh[k] = h[k]
          BY <3>2, <3>7
        <5>3. i \in I <=> \E k \in 1..m : h[k] = i
          BY <3>6, <4>2
        <5>4. QED
          BY <5>1, <5>2, <5>3
      <4>3. QED
        BY <4>1, <4>2
    <3>12. KeptAt(s, I, n + 1, t, hh)
      BY <3>2, <3>3, <3>6, <3>8, <3>9, <3>10, <3>11 DEF KeptAt
    <3>13. F[n + 1] = t
      BY <2>4, <2>6 DEF t
    <3>14. QED
      BY <3>3, <3>12, <3>13
  <2>7. QED
    BY <2>5, <2>6
<1>7. Nat \subseteq N
  <2>1. ASSUME NEW n \in Nat, n \in N
        PROVE  n + 1 \in N
    <3>1. n + 1 <= Len(s) => /\ F[n + 1] \in Seq(S)
                             /\ \E h : KeptAt(s, I, n + 1, F[n + 1], h)
      BY <1>6, <2>1
    <3>2. QED
      BY <3>1
  <2>2. QED
    BY <1>5, <2>1, SetInduction
<1>8. Len(s) \in N
  BY <1>7
<1>9. QED
  BY <1>2, <1>8

(* The same, for the elements that are in T. *)
KeptFrom(s, T, n, t, h) ==
    /\ Len(t) <= n
    /\ h \in [1..Len(t) -> 1..n]
    /\ \A j, k \in 1..Len(t) : j < k => h[j] < h[k]
    /\ \A k \in 1..Len(t) : t[k] = s[h[k]]
    /\ \A i \in 1..n : s[i] \in T <=> \E k \in 1..Len(t) : h[k] = i

LEMMA KeepProperties ==
    ASSUME NEW S, NEW s \in Seq(S), NEW T
    PROVE  /\ Keep(s, T) \in Seq(S)
           /\ \E h : KeptFrom(s, T, Len(s), Keep(s, T), h)
<1>1. PICK I : I = {i \in DOMAIN s : s[i] \in T}
  OBVIOUS
<1>2. Keep(s, T) = KeepAt(s, I)
  BY <1>1 DEF Keep
<1>3. KeepAt(s, I) \in Seq(S) /\ \E h : KeptAt(s, I, Len(s), KeepAt(s, I), h)
  BY KeepAtProperties
<1>4. \A i \in 1..Len(s) : i \in I <=> s[i] \in T
  BY <1>1
<1>5. \A h : KeptAt(s, I, Len(s), KeepAt(s, I), h) => KeptFrom(s, T, Len(s), KeepAt(s, I), h)
  BY <1>4 DEF KeptAt, KeptFrom
<1>6. QED
  BY <1>2, <1>3, <1>5

(* swap_remove takes one element out and keeps every other one. *)
LEMMA SwapRemoveProperties ==
    ASSUME NEW S, NEW s \in Seq(S), NEW i \in 1..Len(s)
    PROVE  /\ SwapRemove(s, i) \in Seq(S)
           /\ Len(SwapRemove(s, i)) = Len(s) - 1
           /\ \A k \in 1..(Len(s) - 1) :
                 SwapRemove(s, i)[k] = s[IF k = i THEN Len(s) ELSE k]
<1> DEFINE t == [s EXCEPT ![i] = s[Len(s)]]
<1>1. Len(s) \in Nat /\ Len(s) \in 1..Len(s) /\ s[Len(s)] \in S
  OBVIOUS
<1>2. t \in Seq(S) /\ Len(t) = Len(s)
  BY <1>1
<1>3. \A k \in 1..Len(s) : t[k] = IF k = i THEN s[Len(s)] ELSE s[k]
  BY <1>1
<1>4. SwapRemove(s, i) = SubSeq(t, 1, Len(s) - 1)
  BY <1>2 DEF SwapRemove, Front, Last
<1> HIDE DEF t
<1>5. QED
  BY <1>1, <1>2, <1>3, <1>4
=============================================================================
