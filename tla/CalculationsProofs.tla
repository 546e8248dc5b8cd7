---------------------------- MODULE CalculationsProofs ----------------------------
(***************************************************************************)
(* What holds of Calculations for every input that its callers may give,   *)
(* and, last, what holds of SyncJobs for every account.                    *)
(*                                                                         *)
(* The provers have no induction over operators, but they have it over     *)
(* sets: a set of numbers that has 0, and with every number the next, has  *)
(* all of them (UpTo).  What a fold computes is found with it: first that  *)
(* the recursive function behind it exists, then what it has at every      *)
(* position.                                                               *)
(***************************************************************************)
EXTENDS Calculations, SyncJobs, FiniteSetTheorems, FunctionTheorems, SequenceTheorems, WellFoundedInduction, TLAPS

(* The least element of a bounded set.                                     *)
LEMMA LeastOf ==
  ASSUME NEW n \in Nat, NEW K \in SUBSET (0..n), K # {}
  PROVE  Min(K) \in K /\ \A y \in K : Min(K) <= y
  <1> DEFINE Down(x) == {y \in K : y <= x}
             T == {Down(x) : x \in K}
  <1>0. IsFiniteSet(K)
    <2>1. IsFiniteSet(0..n)
      BY FS_Interval
    <2> QED
      BY <2>1, FS_Subset
  <1>1. T \subseteq FiniteSubsetsOf(K) /\ T # {}
    <2>1. \A x \in K : Down(x) \subseteq K
      OBVIOUS
    <2>2. \A x \in K : IsFiniteSet(Down(x))
      BY <1>0, <2>1, FS_Subset
    <2> QED
      BY <2>1, <2>2 DEF FiniteSubsetsOf
  <1>2. \E D \in T : \A E \in T : <<E, D>> \notin StrictSubsetOrdering(K)
    BY <1>0, <1>1, FS_StrictSubsetOrderingWellFounded, WFMin
  <1>3. PICK x \in K : \A E \in T : <<E, Down(x)>> \notin StrictSubsetOrdering(K)
    BY <1>2
  <1>4. ASSUME NEW y \in K, y < x
        PROVE  FALSE
    <2>0. K \subseteq Int /\ x \in Int /\ y \in Int
      OBVIOUS
    <2>1. Down(y) \in T
      OBVIOUS
    <2>2. Down(y) \subseteq Down(x)
      <3> SUFFICES ASSUME NEW z \in K, z <= y
                   PROVE  z <= x
        OBVIOUS
      <3>1. z \in Int
        BY <2>0
      <3> QED
        BY <1>4, <2>0, <3>1
    <2>3. x \in Down(x) /\ x \notin Down(y)
      BY <1>4, <2>0
    <2> HIDE DEF Down
    <2>4. Down(y) # Down(x)
      BY <2>3
    <2>5. Down(x) \in SUBSET K /\ Down(y) \in SUBSET K
      BY DEF Down
    <2>6. <<Down(y), Down(x)>> \in StrictSubsetOrdering(K)
      BY <2>2, <2>4, <2>5 DEF StrictSubsetOrdering
    <2> QED
      BY <1>3, <2>1, <2>6
  <1>5. \E z \in K : \A y \in K : z <= y
    BY <1>4
  <1> QED
    BY <1>5 DEF Min

LEMMA GreatestOf ==
  ASSUME NEW n \in Nat, NEW K \in SUBSET (0..n), K # {}
  PROVE  Max(K) \in K /\ \A y \in K : y <= Max(K)
  <1> DEFINE L == {n - x : x \in K}
  <1>0. \A x \in K : x \in Int /\ n - x \in 0..n
    OBVIOUS
  <1>1. L \in SUBSET (0..n) /\ L # {}
    BY <1>0
  <1>2. PICK l \in L : \A y \in L : l <= y
    <2> HIDE DEF L
    <2> QED
      BY <1>1, LeastOf
  <1>3. PICK x \in K : l = n - x
    BY <1>2
  <1>4. ASSUME NEW y \in K
        PROVE  y <= x
    <2>1. n - y \in L
      OBVIOUS
    <2>2. n - x <= n - y
      BY <1>2, <1>3, <2>1
    <2>3. x \in Int /\ y \in Int
      BY <1>0
    <2> QED
      BY <2>2, <2>3
  <1>5. \E z \in K : \A y \in K : z >= y
    BY <1>0, <1>4
  <1>6. Max(K) \in K /\ \A y \in K : Max(K) >= y
    BY <1>5 DEF Max
  <1> QED
    BY <1>0, <1>6

(* Induction up to a bound. *)
LEMMA UpTo ==
  ASSUME NEW n \in Nat, NEW G, 0 \in G, \A i \in 0..(n - 1) : i \in G => i + 1 \in G
  PROVE  \A i \in 0..n : i \in G
  <1> DEFINE Bad == {i \in 0..n : i \notin G}
  <1>1. ASSUME Bad # {}
        PROVE  FALSE
    <2>1. Bad \in SUBSET (0..n)
      OBVIOUS
    <2>2. PICK m \in Bad : \A y \in Bad : m <= y
      <3> HIDE DEF Bad
      <3> QED
        BY <1>1, <2>1, LeastOf
    <2>3. m \in 0..n /\ m # 0 /\ m \notin G
      OBVIOUS
    <2>4. m - 1 \in 0..(n - 1) /\ m - 1 \in 0..n /\ ~(m <= m - 1) /\ (m - 1) + 1 = m
      BY <2>3
    <2>5. m - 1 \in G
      BY <2>2, <2>4
    <2> QED
      BY <2>3, <2>4, <2>5
  <1> QED
    BY <1>1

(* Induction over a finite set. *)
LEMMA OneByOne ==
  ASSUME NEW S, IsFiniteSet(S), NEW G, {} \in G,
         \A T \in SUBSET S : T # {} => \E x \in T : T \ {x} \in G => T \in G
  PROVE  \A T \in SUBSET S : T \in G
  <1> DEFINE Bad == {T \in SUBSET S : T \notin G}
  <1>1. ASSUME Bad # {}
        PROVE  FALSE
    <2>1. Bad \subseteq FiniteSubsetsOf(S)
      BY FS_Subset DEF FiniteSubsetsOf
    <2>2. PICK T \in Bad : \A U \in Bad : <<U, T>> \notin StrictSubsetOrdering(S)
      BY <1>1, <2>1, FS_StrictSubsetOrderingWellFounded, WFMin
    <2>3. T \in SUBSET S /\ T \notin G /\ T # {}
      OBVIOUS
    <2>4. PICK x \in T : T \ {x} \in G => T \in G
      BY <2>3
    <2>5. <<T \ {x}, T>> \in StrictSubsetOrdering(S)
      BY <2>3 DEF StrictSubsetOrdering
    <2>6. T \ {x} \in G
      BY <2>2, <2>3, <2>5
    <2> QED
      BY <2>3, <2>4, <2>6
  <1> QED
    BY <1>1

-----------------------------------------------------------------------------
(* Orders.  Where an element of S stands in the order B is how many are      *)
(* before it; no two elements share a place, so that every place is taken.  *)
Place(S, B, x) == Cardinality({y \in S : <<y, x>> \in B})

IsOrder(S, B) ==
  /\ B \in SUBSET (S \X S)
  /\ \A x \in S : <<x, x>> \notin B
  /\ \A x, y, z \in S : <<x, y>> \in B /\ <<y, z>> \in B => <<x, z>> \in B
  /\ \A x, y \in S : x # y => <<x, y>> \in B \/ <<y, x>> \in B

LEMMA Places ==
  ASSUME NEW S, IsFiniteSet(S), NEW B, IsOrder(S, B)
  PROVE  /\ \A x \in S : Place(S, B, x) \in 0..(Cardinality(S) - 1)
         /\ \A x, y \in S : <<x, y>> \in B <=> Place(S, B, x) < Place(S, B, y)
         /\ \A n \in 1..Cardinality(S) : \E x \in S : Place(S, B, x) = n - 1
  <1> DEFINE N == Cardinality(S)
             Below(x) == {y \in S : <<y, x>> \in B}
  <1>0. N \in Nat /\ \A x \in S : IsFiniteSet(Below(x)) /\ Cardinality(Below(x)) \in Nat
    <2>1. \A x \in S : IsFiniteSet(Below(x))
      BY FS_Subset
    <2> QED
      BY <2>1, FS_CardinalityType
  <1>1. ASSUME NEW x \in S
        PROVE  Place(S, B, x) \in 0..(N - 1)
    <2>1. Below(x) \in SUBSET S /\ x \notin Below(x)
      BY DEF IsOrder
    <2>2. Cardinality(Below(x)) <= N /\ Cardinality(Below(x)) # N
      BY <2>1, FS_Subset
    <2> HIDE DEF N, Below
    <2>3. Cardinality(Below(x)) \in 0..(N - 1)
      BY <1>0, <2>2
    <2> QED
      BY <2>3 DEF Place, Below
  <1>2. ASSUME NEW x \in S, NEW y \in S, <<x, y>> \in B
        PROVE  Place(S, B, x) < Place(S, B, y)
    <2>1. Below(x) \in SUBSET Below(y) /\ x \in Below(y) /\ x \notin Below(x)
      BY <1>2 DEF IsOrder
    <2>2. Cardinality(Below(x)) <= Cardinality(Below(y)) /\ Cardinality(Below(x)) # Cardinality(Below(y))
      BY <1>0, <2>1, FS_Subset
    <2> HIDE DEF Below
    <2>3. Cardinality(Below(x)) < Cardinality(Below(y))
      BY <1>0, <2>2
    <2> QED
      BY <2>3 DEF Place, Below
  <1>3. ASSUME NEW x \in S, NEW y \in S, Place(S, B, x) < Place(S, B, y)
        PROVE  <<x, y>> \in B
    <2>1. Place(S, B, x) \in Int /\ Place(S, B, y) \in Int
      BY <1>1, <1>0
    <2>2. x # y /\ ~(Place(S, B, y) < Place(S, B, x))
      BY <1>3, <2>1
    <2> QED
      BY <1>2, <2>2 DEF IsOrder
  <1> DEFINE place == [x \in S |-> Place(S, B, x)]
  <1>4. place \in Injection(S, 0..(N - 1))
    <2>1. ASSUME NEW x \in S, NEW y \in S, place[x] = place[y]
          PROVE  x = y
      <3>1. Place(S, B, x) \in Int /\ Place(S, B, y) = Place(S, B, x)
        BY <1>1, <1>0, <2>1
      <3>2. ~(Place(S, B, x) < Place(S, B, y)) /\ ~(Place(S, B, y) < Place(S, B, x))
        BY <3>1
      <3> QED
        BY <1>2, <3>2 DEF IsOrder
    <2>2. place \in [S -> 0..(N - 1)]
      BY <1>1
    <2> QED
      BY <2>1, <2>2 DEF Injection, IsInjective
  <1>5. IsFiniteSet(0..(N - 1)) /\ Cardinality(0..(N - 1)) = N
    <2>1. 0 \in Int /\ N - 1 \in Int
      BY <1>0
    <2>2. IsFiniteSet(0..(N - 1)) /\ Cardinality(0..(N - 1)) = IF 0 > N - 1 THEN 0 ELSE N - 1 - 0 + 1
      BY <2>1, FS_Interval
    <2> HIDE DEF N
    <2> QED
      BY <1>0, <2>2
  <1>6. place \in Surjection(S, 0..(N - 1))
    <2> HIDE DEF place
    <2> QED
      BY <1>4, <1>5, FS_Injection
  <1>7. ASSUME NEW n \in 1..N
        PROVE  \E x \in S : Place(S, B, x) = n - 1
    <2>1. n - 1 \in 0..(N - 1)
      BY <1>0
    <2> QED
      BY <1>6, <2>1 DEF Surjection
  <1> QED
    BY <1>1, <1>2, <1>3, <1>7

(* A sequence of the elements, each at its place, is sorted and complete. *)
Stands(S, B, pos) ==
  /\ pos \in [1..Cardinality(S) -> S]
  /\ \A n \in 1..Cardinality(S) : Place(S, B, pos[n]) = n - 1

Sorts(S, B, pos) ==
  /\ \A i, j \in 1..Cardinality(S) : <<pos[i], pos[j]>> \in B <=> i < j
  /\ \A i, j \in 1..Cardinality(S) : pos[i] = pos[j] => i = j
  /\ \A x \in S : \E n \in 1..Cardinality(S) : pos[n] = x

LEMMA InPlace ==
  ASSUME NEW S, IsFiniteSet(S), NEW B, IsOrder(S, B), NEW pos, Stands(S, B, pos)
  PROVE  Sorts(S, B, pos)
  <1> DEFINE N == Cardinality(S)
  <1>1. pos \in [1..N -> S] /\ \A n \in 1..N : Place(S, B, pos[n]) = n - 1
    BY DEF Stands
  <1>0. N \in Nat
    BY FS_CardinalityType
  <1>2. ASSUME NEW i \in 1..N, NEW j \in 1..N
        PROVE  <<pos[i], pos[j]>> \in B <=> i < j
    <2>1. <<pos[i], pos[j]>> \in B <=> i - 1 < j - 1
      BY <1>1, Places
    <2> QED
      BY <1>0, <2>1
  <1>3. ASSUME NEW i \in 1..N, NEW j \in 1..N, pos[i] = pos[j]
        PROVE  i = j
    <2>1. i - 1 = j - 1
      BY <1>1, <1>3
    <2> QED
      BY <1>0, <2>1
  <1>4. ASSUME NEW x \in S
        PROVE  \E n \in 1..N : pos[n] = x
    <2>1. Place(S, B, x) \in 0..(N - 1)
      BY Places
    <2> DEFINE n == Place(S, B, x) + 1
    <2>2. n \in 1..N /\ n - 1 = Place(S, B, x)
      BY <1>0, <2>1
    <2>3. Place(S, B, pos[n]) = Place(S, B, x) /\ pos[n] \in S
      BY <1>1, <2>2
    <2>4. Place(S, B, x) \in Int
      BY <1>0, <2>1
    <2>5. ~(Place(S, B, pos[n]) < Place(S, B, x)) /\ ~(Place(S, B, x) < Place(S, B, pos[n]))
      BY <2>3, <2>4
    <2>6. <<pos[n], x>> \notin B /\ <<x, pos[n]>> \notin B
      BY <2>3, <2>5, Places
    <2>7. pos[n] = x
      BY <2>3, <2>6 DEF IsOrder
    <2> QED
      BY <2>2, <2>7
  <1> QED
    BY <1>2, <1>3, <1>4 DEF Sorts

LEMMA NumbersInOrder ==
  ASSUME NEW K, IsFiniteSet(K), K \subseteq Int
  PROVE  /\ Ascending(K) \in [1..Cardinality(K) -> K]
         /\ \A i, j \in 1..Cardinality(K) : Ascending(K)[i] < Ascending(K)[j] <=> i < j
         /\ \A i, j \in 1..Cardinality(K) : Ascending(K)[i] = Ascending(K)[j] => i = j
         /\ \A x \in K : \E n \in 1..Cardinality(K) : Ascending(K)[n] = x
  <1> DEFINE B == {p \in K \X K : p[1] < p[2]}
             pos == Ascending(K)
  <1>1. IsOrder(K, B)
    BY DEF IsOrder
  <1>2. \A x \in K : Place(K, B, x) = Cardinality({y \in K : y < x})
    <2> SUFFICES ASSUME NEW x \in K
                 PROVE  Place(K, B, x) = Cardinality({y \in K : y < x})
      OBVIOUS
    <2>1. {y \in K : <<y, x>> \in B} = {y \in K : y < x}
      OBVIOUS
    <2> QED
      BY <2>1 DEF Place
  <1>3. ASSUME NEW n \in 1..Cardinality(K)
        PROVE  pos[n] \in K /\ Place(K, B, pos[n]) = n - 1
    <2>1. \E x \in K : Cardinality({y \in K : y < x}) = n - 1
      <3> HIDE DEF B
      <3>1. \E x \in K : Place(K, B, x) = n - 1
        BY <1>1, Places
      <3> QED
        BY <1>2, <3>1
    <2>2. pos[n] \in K /\ Cardinality({y \in K : y < pos[n]}) = n - 1
      BY <2>1 DEF Ascending, InOrder
    <2> QED
      BY <1>2, <2>2
  <1>4. pos \in [1..Cardinality(K) -> K]
    BY <1>3 DEF Ascending, InOrder
  <1>5. \A i, j \in 1..Cardinality(K) : <<pos[i], pos[j]>> \in B <=> pos[i] < pos[j]
    BY <1>3
  <1> HIDE DEF B, pos
  <1>6. Stands(K, B, pos)
    BY <1>3, <1>4 DEF Stands
  <1>7. Sorts(K, B, pos)
    BY <1>1, <1>6, InPlace
  <1> QED
    BY <1>4, <1>5, <1>7 DEF pos, Sorts

(* The positions of a sequence. *)
LEMMA Positions ==
  ASSUME NEW s, Len(s) \in Nat, DOMAIN s = 1..Len(s), NEW K \in SUBSET (DOMAIN s)
  PROVE  IsFiniteSet(K) /\ K \subseteq Int /\ Cardinality(K) \in Nat /\ Cardinality(K) <= Len(s)
  <1>1. IsFiniteSet(1..Len(s)) /\ Cardinality(1..Len(s)) = Len(s)
    <2>1. Cardinality(1..Len(s)) = IF 1 > Len(s) THEN 0 ELSE Len(s) - 1 + 1
      BY FS_Interval
    <2> QED
      BY <2>1, FS_Interval
  <1>2. IsFiniteSet(K) /\ Cardinality(K) <= Len(s)
    BY <1>1, FS_Subset
  <1> QED
    BY <1>2, FS_CardinalityType

(* A selection has the chosen elements, in their order, and no others. *)
Picks(s, K, pos, got) ==
  /\ pos \in [1..Len(got) -> K]
  /\ \A i \in 1..Len(got) : got[i] = s[pos[i]] /\ pos[i] \in DOMAIN s
  /\ \A i, j \in 1..Len(got) : pos[i] < pos[j] <=> i < j
  /\ \A i, j \in 1..Len(got) : pos[i] = pos[j] => i = j
  /\ \A k \in K : \E i \in 1..Len(got) : pos[i] = k

LEMMA Selection ==
  ASSUME NEW E, NEW s \in Seq(E), NEW K \in SUBSET (DOMAIN s)
  PROVE  /\ Selected(s, K) \in Seq(E) /\ Len(Selected(s, K)) = Cardinality(K) /\ Cardinality(K) \in Nat
         /\ Picks(s, K, Ascending(K), Selected(s, K))
  <1> DEFINE pos == Ascending(K)
             got == Selected(s, K)
  <1>1. Len(s) \in Nat /\ DOMAIN s = 1..Len(s)
    BY LenProperties
  <1>2. IsFiniteSet(K) /\ K \subseteq Int /\ Cardinality(K) \in Nat
    BY <1>1, Positions
  <1>3. /\ pos \in [1..Cardinality(K) -> K]
        /\ \A i, j \in 1..Cardinality(K) : pos[i] < pos[j] <=> i < j
        /\ \A i, j \in 1..Cardinality(K) : pos[i] = pos[j] => i = j
        /\ \A x \in K : \E n \in 1..Cardinality(K) : pos[n] = x
    BY <1>2, NumbersInOrder
  <1>4. got = [n \in 1..Cardinality(K) |-> s[pos[n]]]
    BY DEF Selected
  <1> HIDE DEF pos, got
  <1>5. \A n \in 1..Cardinality(K) : s[pos[n]] \in E /\ pos[n] \in DOMAIN s
    BY <1>3, <1>1, ElementOfSeq
  <1>6. got \in Seq(E) /\ Len(got) = Cardinality(K)
    BY <1>2, <1>4, <1>5, IsASeq
  <1> QED
    BY <1>2, <1>3, <1>4, <1>5, <1>6 DEF pos, got, Picks

-----------------------------------------------------------------------------
(* Folds.  FoldLeft takes the greatest position of a set away and goes on     *)
(* with the rest; there is a function on the sets of positions that does so. *)
(* A step is given as the function h of a position and of what came before.  *)
LEMMA GreatestPosition ==
  ASSUME NEW n \in Nat, NEW s \in SUBSET (1..n), s # {}
  PROVE  Max(s) \in s /\ Max(s) \in 1..n /\ \A y \in s : y <= Max(s)
  <1>1. s \in SUBSET (0..n)
    OBVIOUS
  <1> QED
    BY <1>1, GreatestOf

LEMMA LastPosition ==
  ASSUME NEW i \in Nat \ {0}
  PROVE  Max(1..i) = i /\ (1..i) \ {i} = 1..(i - 1) /\ 1..i # {}
  <1>1. Max(1..i) \in 1..i /\ \A y \in 1..i : y <= Max(1..i)
    <2>1. 1..i \in SUBSET (1..i) /\ i \in 1..i
      OBVIOUS
    <2> QED
      BY <2>1, GreatestPosition
  <1>2. i <= Max(1..i) /\ Max(1..i) \in Int
    BY <1>1
  <1> QED
    BY <1>1, <1>2

Unwound(g, n, base, h) ==
  \A s \in SUBSET (1..n) : g[s] = IF s = {} THEN base ELSE h[<<Max(s), g[s \ {Max(s)}]>>]

LEMMA FoldExists ==
  ASSUME NEW n \in Nat, NEW V, NEW base \in V, NEW h \in [(1..n) \X V -> V]
  PROVE  \E g \in [SUBSET (1..n) -> V] : Unwound(g, n, base, h)
  <1> DEFINE G == {m \in 0..n : \E g \in [SUBSET (1..m) -> V] : Unwound(g, m, base, h)}
  <1>1. 0 \in G
    <2> DEFINE g == [s \in SUBSET (1..0) |-> base]
    <2>1. SUBSET (1..0) = {{}}
      OBVIOUS
    <2>2. g \in [SUBSET (1..0) -> V] /\ Unwound(g, 0, base, h)
      BY <2>1 DEF Unwound
    <2> HIDE DEF g
    <2>3. \E f \in [SUBSET (1..0) -> V] : Unwound(f, 0, base, h)
      BY <2>2
    <2>4. 0 \in 0..n
      OBVIOUS
    <2> QED
      BY <2>3, <2>4
  <1>2. ASSUME NEW m \in 0..(n - 1), m \in G
        PROVE  m + 1 \in G
    <2>0. m + 1 \in 0..n /\ m + 1 \in 1..n /\ m \in Nat /\ m + 1 \in Nat
      OBVIOUS
    <2>1. PICK f \in [SUBSET (1..m) -> V] : Unwound(f, m, base, h)
      BY <1>2
    <2> DEFINE k == m + 1
               g == [s \in SUBSET (1..k) |-> IF k \in s THEN h[<<k, f[s \ {k}]>>] ELSE f[s]]
    <2>2. \A s \in SUBSET (1..k) : s \ {k} \in SUBSET (1..m) /\ (k \notin s => s \in SUBSET (1..m))
      BY <2>0
    <2>3. g \in [SUBSET (1..k) -> V]
      <3>1. ASSUME NEW s \in SUBSET (1..k)
            PROVE  g[s] \in V
        <4>1. f[s \ {k}] \in V
          BY <2>2
        <4>2. h[<<k, f[s \ {k}]>>] \in V
          BY <2>0, <4>1
        <4>3. k \notin s => f[s] \in V
          BY <2>2
        <4> QED
          BY <4>2, <4>3
      <3> QED
        BY <3>1
    <2>4. ASSUME NEW s \in SUBSET (1..k)
          PROVE  g[s] = IF s = {} THEN base ELSE h[<<Max(s), g[s \ {Max(s)}]>>]
      <3>1. CASE k \in s
        <4>1. Max(s) = k
          <5>1. Max(s) \in 1..k /\ k <= Max(s)
            BY <2>0, <3>1, GreatestPosition
          <5> QED
            BY <2>0, <5>1
        <4>2. s \ {k} \in SUBSET (1..k) /\ k \notin s \ {k}
          OBVIOUS
        <4>3. g[s \ {k}] = f[s \ {k}]
          BY <4>2
        <4> QED
          BY <3>1, <4>1, <4>3
      <3>2. CASE k \notin s
        <4>1. s \in SUBSET (1..m)
          BY <2>2, <3>2
        <4>2. f[s] = IF s = {} THEN base ELSE h[<<Max(s), f[s \ {Max(s)}]>>]
          BY <2>1, <4>1 DEF Unwound
        <4>3. s \ {Max(s)} \in SUBSET (1..k) /\ k \notin s \ {Max(s)}
          BY <3>2
        <4>4. g[s] = f[s] /\ g[s \ {Max(s)}] = f[s \ {Max(s)}]
          BY <3>2, <4>3
        <4> HIDE DEF g
        <4> QED
          BY <4>2, <4>4
      <3> QED
        BY <3>1, <3>2
    <2>5. Unwound(g, k, base, h)
      <3> HIDE DEF g
      <3> QED
        BY <2>4 DEF Unwound
    <2> HIDE DEF g
    <2> QED
      BY <2>0, <2>3, <2>5
  <1>3. n \in 0..n
    OBVIOUS
  <1>4. n \in G
    <2> HIDE DEF G
    <2> QED
      BY <1>1, <1>2, <1>3, UpTo
  <1> QED
    BY <1>4

(* The function that FoldLeft has chosen, at the first i positions. *)
LEMMA FirstPositions ==
  ASSUME NEW n \in Nat
  PROVE  /\ 1..0 = {} /\ \A i \in 0..n : 1..i \in SUBSET (1..n)
         /\ \A i \in 1..n : 1..i # {} /\ Max(1..i) = i /\ (1..i) \ {Max(1..i)} = 1..(i - 1)
  <1>1. \A i \in 1..n : i \in Nat \ {0}
    OBVIOUS
  <1> QED
    BY <1>1, LastPosition

-----------------------------------------------------------------------------
(* The window of requests.                                                 *)
Asked == [hits : Seq(Int), oks : Seq(BOOLEAN)]
NoneAsked == [hits |-> <<>>, oks |-> <<>>]
AskAt(s, t) == [hits |-> Check(s.hits, t).hits, oks |-> Append(s.oks, Check(s.hits, t).ok)]

Asks(g, times) ==
  g = [s \in SUBSET (DOMAIN times) |->
         IF s = {} THEN NoneAsked ELSE AskAt(g[s \ {Max(s)}], times[Max(s)])]

LEMMA CheckType ==
  ASSUME NEW hits \in Seq(Int), NEW t \in Int
  PROVE  /\ Check(hits, t).hits \in Seq(Int)
         /\ Check(hits, t).ok \in BOOLEAN
         /\ Check(hits, t).ok <=> Cardinality({k \in DOMAIN hits : t - hits[k] < Window}) < RateLimit
         /\ Check(hits, t).hits = IF Check(hits, t).ok THEN Append(InWindow(hits, t), t) ELSE InWindow(hits, t)
         /\ InWindow(hits, t) \in Seq(Int)
  <1> DEFINE K == {k \in DOMAIN hits : t - hits[k] < Window}
  <1>1. InWindow(hits, t) = Selected(hits, K)
    BY DEF InWindow
  <1>2. K \in SUBSET (DOMAIN hits)
    OBVIOUS
  <1> HIDE DEF K
  <1>3. /\ Selected(hits, K) \in Seq(Int) /\ Len(Selected(hits, K)) = Cardinality(K)
        /\ Cardinality(K) \in Nat
    BY <1>2, Selection
  <1>4. RateLimit \in Nat
    BY LimitsAssumption
  <1>5. Cardinality(K) >= RateLimit <=> ~(Cardinality(K) < RateLimit)
    BY <1>3, <1>4
  <1>6. Append(InWindow(hits, t), t) \in Seq(Int)
    BY <1>1, <1>3, AppendProperties
  <1> QED
    BY <1>1, <1>3, <1>5, <1>6 DEF Check, K

LEMMA AskType ==
  ASSUME NEW s \in Asked, NEW t \in Int
  PROVE  AskAt(s, t) \in Asked
  <1>1. Check(s.hits, t).hits \in Seq(Int) /\ Check(s.hits, t).ok \in BOOLEAN /\ s.oks \in Seq(BOOLEAN)
    BY CheckType DEF Asked
  <1>2. Append(s.oks, Check(s.hits, t).ok) \in Seq(BOOLEAN)
    BY <1>1, AppendProperties
  <1> QED
    BY <1>1, <1>2 DEF AskAt, Asked

LEMMA AnsweredSteps ==
  ASSUME NEW times \in Seq(Int)
  PROVE  \E w \in [0..Len(times) -> Asked] :
           /\ w[0] = NoneAsked
           /\ \A i \in 1..Len(times) : w[i] = AskAt(w[i - 1], times[i])
           /\ Answered(times) = w[Len(times)].oks
  <1> DEFINE n == Len(times)
             g == CHOOSE g : Asks(g, times)
             h == [p \in (1..n) \X Asked |-> AskAt(p[2], times[p[1]])]
             w == [i \in 0..n |-> g[1..i]]
  <1>1. n \in Nat /\ DOMAIN times = 1..n /\ \A i \in 1..n : times[i] \in Int
    BY LenProperties, ElementOfSeq
  <1>2. Answered(times) = g[DOMAIN times].oks
    BY DEF Answered, FoldLeft, MapThenFoldSet, Asks, AskAt, NoneAsked
  <1>3. NoneAsked \in Asked
    BY EmptySeq DEF NoneAsked, Asked
  <1>4. h \in [(1..n) \X Asked -> Asked]
    BY <1>1, AskType
  <1>5. \E f : Asks(f, times)
    <2>1. PICK f \in [SUBSET (1..n) -> Asked] : Unwound(f, n, NoneAsked, h)
      <3> HIDE DEF h, n
      <3> QED
        BY <1>1, <1>3, <1>4, FoldExists
    <2>2. ASSUME NEW s \in SUBSET (1..n)
          PROVE  f[s] = IF s = {} THEN NoneAsked ELSE AskAt(f[s \ {Max(s)}], times[Max(s)])
      <3>1. CASE s # {}
        <4>1. Max(s) \in 1..n /\ f[s \ {Max(s)}] \in Asked
          BY <1>1, <3>1, GreatestPosition
        <4>2. h[<<Max(s), f[s \ {Max(s)}]>>] = AskAt(f[s \ {Max(s)}], times[Max(s)])
          BY <4>1
        <4> HIDE DEF h
        <4> QED
          BY <2>1, <3>1, <4>2 DEF Unwound
      <3> HIDE DEF h
      <3> QED
        BY <2>1, <3>1 DEF Unwound
    <2>3. Asks(f, times)
      BY <1>1, <2>2 DEF Asks
    <2> QED
      BY <2>3
  <1>6. Asks(g, times)
    BY <1>5
  <1> HIDE DEF g
  <1>7. w[0] = NoneAsked /\ \A i \in 1..n : w[i] = AskAt(w[i - 1], times[i])
    <2>1. 0 \in 0..n /\ \A i \in 1..n : i \in 0..n /\ i - 1 \in 0..n
      BY <1>1
    <2>2. g[{}] = NoneAsked
      BY <1>6 DEF Asks
    <2>3. ASSUME NEW i \in 1..n
          PROVE  g[1..i] = AskAt(g[1..(i - 1)], times[i])
      <3>0. DOMAIN times = 1..n /\ n \in Nat /\ 1..i \in SUBSET (1..n)
        BY <1>1
      <3>1. 1..i \in SUBSET (DOMAIN times) /\ 1..i # {} /\ Max(1..i) = i /\ (1..i) \ {Max(1..i)} = 1..(i - 1)
        <4> HIDE DEF n
        <4> QED
          BY <3>0, FirstPositions
      <3>2. g[1..i] = AskAt(g[(1..i) \ {Max(1..i)}], times[Max(1..i)])
        BY <1>6, <3>1 DEF Asks
      <3> QED
        BY <3>1, <3>2
    <2> QED
      BY <1>1, <2>1, <2>2, <2>3, FirstPositions
  <1> HIDE DEF w
  <1>8. \A i \in 0..n : i \in {j \in 0..n : w[j] \in Asked}
    <2> DEFINE G == {j \in 0..n : w[j] \in Asked}
    <2>1. 0 \in G
      BY <1>1, <1>3, <1>7
    <2>2. ASSUME NEW j \in 0..(n - 1), j \in G
          PROVE  j + 1 \in G
      <3>1. j + 1 \in 0..n /\ j + 1 \in 1..n /\ (j + 1) - 1 = j
        BY <1>1
      <3>2. w[j + 1] = AskAt(w[j], times[j + 1])
        BY <1>7, <3>1
      <3> QED
        BY <1>1, <2>2, <3>1, <3>2, AskType
    <2> HIDE DEF G
    <2>3. \A i \in 0..n : i \in G
      BY <1>1, <2>1, <2>2, UpTo
    <2> QED
      BY <2>3 DEF G
  <1>9. w \in [0..n -> Asked]
    BY <1>8 DEF w
  <1>10. w[n] = g[DOMAIN times]
    BY <1>1 DEF w
  <1> QED
    BY <1>2, <1>7, <1>9, <1>10

(* The requests before the j-th that were accepted and are in its window. *)
Recent(oks, times, j) == {k \in 1..(j - 1) : oks[k] /\ times[j] - times[k] < Window}

(* After i requests: every answer was right, and the hits are those accepted, q says of which request  *)
(* each is, without any that has left the window of the last.                                          *)
Holds(q, s, times, i) ==
  /\ q \in [1..Len(s.hits) -> 1..i]
  /\ \A k, l \in 1..Len(s.hits) : q[k] = q[l] => k = l
  /\ \A k \in 1..Len(s.hits) : s.oks[q[k]] /\ s.hits[k] = times[q[k]]
  /\ \A j \in 1..i : s.oks[j] /\ (j = i \/ times[i] - times[j] < Window) => \E k \in 1..Len(s.hits) : q[k] = j

Right(s, times, i) ==
  /\ s \in Asked /\ Len(s.oks) = i
  /\ \A j \in 1..i : s.oks[j] <=> Cardinality(Recent(s.oks, times, j)) < RateLimit
  /\ \E q : Holds(q, s, times, i)

LEMMA RightStart ==
  ASSUME NEW times
  PROVE  Right(NoneAsked, times, 0)
  <1>1. NoneAsked \in Asked /\ Len(NoneAsked.oks) = 0 /\ Len(NoneAsked.hits) = 0
    BY EmptySeq DEF NoneAsked, Asked
  <1>2. Holds([k \in 1..0 |-> 0], NoneAsked, times, 0)
    BY <1>1 DEF Holds
  <1> QED
    BY <1>1, <1>2 DEF Right

LEMMA NoLater ==
  ASSUME NEW times \in Seq(Int), RateCase(times), NEW i \in DOMAIN times, NEW j \in DOMAIN times, i < j
  PROVE  times[i] <= times[j]
  BY DEF RateCase

(* As many hits are in the window as requests were accepted in it. *)
LEMMA WindowHits ==
  ASSUME NEW times \in Seq(Int), RateCase(times), NEW i \in Nat, i + 1 <= Len(times),
         NEW s \in Asked, Len(s.oks) = i, NEW q, Holds(q, s, times, i)
  PROVE  Cardinality({k \in DOMAIN s.hits : times[i + 1] - s.hits[k] < Window})
           = Cardinality(Recent(s.oks, times, i + 1))
  <1> DEFINE t == times[i + 1]
             K == {k \in DOMAIN s.hits : t - s.hits[k] < Window}
             J == Recent(s.oks, times, i + 1)
             f == [k \in K |-> q[k]]
  <1>1. /\ Len(s.hits) \in Nat /\ DOMAIN s.hits = 1..Len(s.hits) /\ Window \in Nat
        /\ Len(times) \in Nat /\ DOMAIN times = 1..Len(times)
        /\ \A k \in 1..Len(times) : times[k] \in Int
    BY LenProperties, ElementOfSeq, LimitsAssumption DEF Asked
  <1>2. J = {k \in 1..i : s.oks[k] /\ t - times[k] < Window}
    BY DEF Recent
  <1>3. ASSUME NEW k \in K
        PROVE  f[k] \in J
    BY <1>1, <1>2 DEF Holds
  <1>4. ASSUME NEW j \in J
        PROVE  \E k \in K : f[k] = j
    <2>1. j \in 1..i /\ s.oks[j] /\ t - times[j] < Window
      BY <1>2
    <2>2. i \in 1..Len(times) /\ i + 1 \in 1..Len(times) /\ j \in 1..Len(times)
      BY <1>1, <2>1
    <2>3. times[i] <= t /\ times[i] \in Int /\ t \in Int /\ times[j] \in Int
      <3>1. i \in DOMAIN times /\ i + 1 \in DOMAIN times /\ i < i + 1
        BY <1>1, <2>2
      <3>2. times[i] <= times[i + 1]
        BY <3>1, NoLater
      <3> QED
        BY <1>1, <2>2, <3>2
    <2>4. times[i] - times[j] < Window
      BY <1>1, <2>1, <2>3
    <2>5. PICK k \in 1..Len(s.hits) : q[k] = j
      BY <2>1, <2>4 DEF Holds
    <2>6. k \in K
      BY <1>1, <2>1, <2>5 DEF Holds
    <2> QED
      BY <2>5, <2>6
  <1>5. \A k, l \in K : f[k] = f[l] => k = l
    BY <1>1 DEF Holds
  <1>6. f \in Bijection(K, J)
    <2> HIDE DEF J
    <2>1. f \in [K -> J]
      BY <1>3
    <2> HIDE DEF f, K
    <2> QED
      BY <1>4, <1>5, <2>1 DEF Bijection, Injection, Surjection, IsInjective
  <1>7. IsFiniteSet(K)
    <2>1. 1 \in Int /\ Len(s.hits) \in Int
      BY <1>1
    <2>2. IsFiniteSet(1..Len(s.hits))
      BY <2>1, FS_Interval
    <2>3. K \in SUBSET (1..Len(s.hits))
      BY <1>1
    <2> QED
      BY <2>2, <2>3, FS_Subset
  <1>8. Cardinality(K) = Cardinality(J)
    <2> HIDE DEF K, J, f
    <2> QED
      BY <1>6, <1>7, FS_Bijection DEF ExistsBijection
  <1> QED
    BY <1>8

LEMMA RightStep ==
  ASSUME NEW times \in Seq(Int), RateCase(times), NEW i \in Nat, i + 1 <= Len(times),
         NEW s, Right(s, times, i)
  PROVE  Right(AskAt(s, times[i + 1]), times, i + 1)
  <1> DEFINE t == times[i + 1]
             K == {k \in DOMAIN s.hits : t - s.hits[k] < Window}
             pos == Ascending(K)
             recent == InWindow(s.hits, t)
             n == Cardinality(K)
             ok == Check(s.hits, t).ok
             u == AskAt(s, t)
  <1>1. PICK q : Holds(q, s, times, i)
    BY DEF Right
  <1>2. /\ s \in Asked /\ s.hits \in Seq(Int) /\ s.oks \in Seq(BOOLEAN) /\ Len(s.oks) = i
        /\ Len(s.hits) \in Nat /\ DOMAIN s.hits = 1..Len(s.hits)
    BY LenProperties DEF Right, Asked
  <1>3. /\ Len(times) \in Nat /\ DOMAIN times = 1..Len(times) /\ i + 1 \in 1..Len(times)
        /\ \A k \in 1..Len(times) : times[k] \in Int
    BY LenProperties, ElementOfSeq
  <1>4. t \in Int /\ Window \in Nat
    BY <1>3, LimitsAssumption
  <1>5. u \in Asked
    <2>1. s \in Asked /\ t \in Int
      BY <1>2, <1>4
    <2> HIDE DEF t
    <2> QED
      BY <2>1, AskType
  <1>6. /\ u.oks = Append(s.oks, ok) /\ ok \in BOOLEAN /\ recent \in Seq(Int)
        /\ u.hits = IF ok THEN Append(recent, t) ELSE recent
        /\ ok <=> n < RateLimit
    BY <1>2, <1>4, CheckType DEF AskAt
  <1>7. Len(u.oks) = i + 1 /\ u.oks[i + 1] = ok /\ \A j \in 1..i : u.oks[j] = s.oks[j]
    BY <1>2, <1>6, AppendProperties
  <1>8. ASSUME NEW j \in 1..(i + 1)
        PROVE  Recent(u.oks, times, j) = Recent(s.oks, times, j)
    <2>1. \A k \in 1..(j - 1) : k \in 1..i
      OBVIOUS
    <2>2. \A k \in 1..(j - 1) : u.oks[k] = s.oks[k]
      BY <1>7, <2>1
    <2> HIDE DEF u
    <2> QED
      BY <2>2 DEF Recent
  <1>9. n = Cardinality(Recent(s.oks, times, i + 1))
    BY <1>1, <1>2, WindowHits
  <1>10. \A j \in 1..(i + 1) : u.oks[j] <=> Cardinality(Recent(u.oks, times, j)) < RateLimit
    <2>1. \A j \in 1..i : j \in 1..(i + 1)
      OBVIOUS
    <2>2. \A j \in 1..(i + 1) : j \in 1..i \/ j = i + 1
      OBVIOUS
    <2> HIDE DEF u, n, ok
    <2> QED
      BY <1>6, <1>7, <1>8, <1>9, <2>1, <2>2 DEF Right
  <1>11. /\ recent = Selected(s.hits, K) /\ Len(recent) = n /\ n \in Nat
         /\ pos \in [1..n -> K]
         /\ \A m \in 1..n : recent[m] = s.hits[pos[m]]
         /\ \A l, m \in 1..n : pos[l] = pos[m] => l = m
         /\ \A k \in K : \E m \in 1..n : pos[m] = k
    <2>1. recent = Selected(s.hits, K) /\ K \in SUBSET (DOMAIN s.hits)
      BY DEF InWindow
    <2> HIDE DEF K, recent
    <2>2. Len(recent) = n /\ n \in Nat /\ Picks(s.hits, K, pos, recent)
      BY <1>2, <2>1, Selection
    <2> HIDE DEF pos
    <2> QED
      BY <2>1, <2>2 DEF Picks
  <1> DEFINE p == [m \in 1..Len(u.hits) |-> IF m <= n THEN q[pos[m]] ELSE i + 1]
  <1>12. Len(u.hits) = IF ok THEN n + 1 ELSE n
    BY <1>4, <1>6, <1>11, AppendProperties
  <1>13. /\ \A m \in 1..n : u.hits[m] = recent[m]
         /\ ok => u.hits[n + 1] = t
    <2> HIDE DEF u, ok, recent, n, t
    <2>1. recent \in Seq(Int) /\ t \in Int /\ \A m \in 1..n : m \in 1..Len(recent)
      BY <1>4, <1>6, <1>11
    <2>2. \A m \in 1..Len(recent) : Append(recent, t)[m] = recent[m]
      BY <2>1, AppendProperties
    <2>3. Append(recent, t)[n + 1] = t
      BY <1>11, <2>1, AppendProperties
    <2> QED
      BY <1>6, <2>1, <2>2, <2>3
  <1> HIDE DEF u, ok, recent, pos
  <1>14. ASSUME NEW m \in 1..n
         PROVE  /\ pos[m] \in 1..Len(s.hits) /\ m \in 1..Len(u.hits) /\ p[m] = q[pos[m]] /\ p[m] \in 1..i
                /\ u.oks[p[m]] /\ u.hits[m] = times[p[m]]
    <2>1. pos[m] \in 1..Len(s.hits) /\ m \in 1..Len(u.hits) /\ m <= n
      BY <1>2, <1>11, <1>12
    <2>2. q[pos[m]] \in 1..i /\ s.oks[q[pos[m]]] /\ s.hits[pos[m]] = times[q[pos[m]]]
      BY <1>1, <2>1 DEF Holds
    <2>3. p[m] = q[pos[m]]
      BY <2>1
    <2> QED
      BY <1>7, <1>11, <1>13, <2>1, <2>2, <2>3
  <1>15. ASSUME NEW m \in 1..Len(u.hits), ~(m <= n)
         PROVE  ok /\ m = n + 1 /\ p[m] = i + 1 /\ u.hits[m] = t
    BY <1>11, <1>12, <1>13, <1>15
  <1>16. ASSUME NEW l \in 1..Len(u.hits), NEW m \in 1..Len(u.hits), p[l] = p[m]
         PROVE  l = m
    <2>1. CASE l <= n /\ m <= n
      <3>1. l \in 1..n /\ m \in 1..n
        BY <1>11, <1>12, <2>1
      <3>2. q[pos[l]] = q[pos[m]]
        BY <1>14, <1>16, <3>1
      <3>3. pos[l] = pos[m]
        BY <1>1, <1>14, <3>1, <3>2 DEF Holds
      <3> QED
        BY <1>11, <3>1, <3>3
    <2>2. CASE ~(l <= n) /\ ~(m <= n)
      BY <1>15, <2>2
    <2>3. CASE l <= n /\ ~(m <= n)
      <3>1. l \in 1..n /\ p[m] = i + 1
        BY <1>11, <1>12, <1>15, <2>3
      <3>2. p[l] \in 1..i
        BY <1>14, <3>1
      <3> QED
        BY <1>16, <3>1, <3>2
    <2>4. CASE ~(l <= n) /\ m <= n
      <3>1. m \in 1..n /\ p[l] = i + 1
        BY <1>11, <1>12, <1>15, <2>4
      <3>2. p[m] \in 1..i
        BY <1>14, <3>1
      <3> QED
        BY <1>16, <3>1, <3>2
    <2> QED
      BY <2>1, <2>2, <2>3, <2>4
  <1>17. ASSUME NEW m \in 1..Len(u.hits)
         PROVE  p[m] \in 1..(i + 1) /\ u.oks[p[m]] /\ u.hits[m] = times[p[m]]
    <2>1. CASE m <= n
      <3>1. m \in 1..n
        BY <1>11, <1>12, <2>1
      <3>2. p[m] \in 1..i /\ u.oks[p[m]] /\ u.hits[m] = times[p[m]]
        BY <1>14, <3>1
      <3> QED
        BY <3>2
    <2>2. CASE ~(m <= n)
      <3>1. ok /\ p[m] = i + 1 /\ u.hits[m] = times[i + 1]
        BY <1>15, <2>2
      <3>2. u.oks[i + 1]
        BY <1>7, <3>1
      <3> HIDE DEF p
      <3> QED
        BY <3>1, <3>2
    <2> QED
      BY <2>1, <2>2
  <1>18. ASSUME NEW j \in 1..(i + 1), u.oks[j], j = i + 1 \/ t - times[j] < Window
         PROVE  \E m \in 1..Len(u.hits) : p[m] = j
    <2>1. CASE j = i + 1
      <3>1. ok /\ n + 1 \in 1..Len(u.hits) /\ ~(n + 1 <= n)
        BY <1>7, <1>11, <1>12, <1>18, <2>1
      <3> QED
        BY <1>15, <2>1, <3>1
    <2>2. CASE j # i + 1
      <3>1. j \in 1..i /\ s.oks[j] /\ t - times[j] < Window
        BY <1>7, <1>18, <2>2
      <3>2. i \in 1..Len(times) /\ i + 1 \in 1..Len(times) /\ j \in 1..Len(times)
        BY <1>3, <3>1
      <3>3. times[i] <= t /\ times[i] \in Int /\ times[j] \in Int
        BY <1>3, <3>2, NoLater
      <3>4. times[i] - times[j] < Window
        BY <1>4, <3>1, <3>3
      <3>5. PICK k \in 1..Len(s.hits) : q[k] = j
        BY <1>1, <3>1, <3>4 DEF Holds
      <3>6. s.hits[k] = times[j]
        BY <1>1, <3>5 DEF Holds
      <3>7. k \in K
        BY <1>2, <3>1, <3>5, <3>6
      <3>8. PICK m \in 1..n : pos[m] = k
        BY <1>11, <3>7
      <3> QED
        BY <1>14, <3>5, <3>8
    <2> QED
      BY <2>1, <2>2
  <1>19. Holds(p, u, times, i + 1)
    <2>1. p \in [1..Len(u.hits) -> 1..(i + 1)]
      BY <1>17
    <2> HIDE DEF p, n, K
    <2> QED
      BY <1>16, <1>17, <1>18, <2>1 DEF Holds
  <1> QED
    BY <1>5, <1>7, <1>10, <1>19 DEF Right, u

(* A request is answered exactly when fewer than RateLimit of the last Window seconds were, and so no span of *)
(* Window seconds has more than RateLimit answered requests (RateLimiter.allow). *)
THEOREM LimitIsExact ==
  ASSUME NEW times, RateCase(times), NEW i \in DOMAIN times
  PROVE  LET oks == Answered(times) IN
         oks[i] <=> Cardinality({j \in 1..(i - 1) : oks[j] /\ times[i] - times[j] < Window}) < RateLimit
  <1> DEFINE n == Len(times)
  <1>1. times \in Seq(Int) /\ n \in Nat /\ DOMAIN times = 1..n
    BY LenProperties DEF RateCase
  <1>2. PICK w \in [0..n -> Asked] :
          /\ w[0] = NoneAsked
          /\ \A j \in 1..n : w[j] = AskAt(w[j - 1], times[j])
          /\ Answered(times) = w[n].oks
    BY <1>1, AnsweredSteps
  <1> DEFINE G == {j \in 0..n : Right(w[j], times, j)}
  <1>3. 0 \in G
    BY <1>1, <1>2, RightStart
  <1>4. ASSUME NEW j \in 0..(n - 1), j \in G
        PROVE  j + 1 \in G
    <2>1. j \in Nat /\ j + 1 <= n /\ j + 1 \in 1..n /\ (j + 1) - 1 = j /\ j + 1 \in 0..n
      BY <1>1
    <2>2. Right(w[j], times, j)
      BY <1>4
    <2>3. Right(AskAt(w[j], times[j + 1]), times, j + 1)
      BY <1>1, <2>1, <2>2, RightStep
    <2> QED
      BY <1>2, <2>1, <2>3
  <1>5. n \in G
    <2>1. n \in 0..n
      BY <1>1
    <2> HIDE DEF G, n
    <2> QED
      BY <1>1, <1>3, <1>4, <2>1, UpTo
  <1>6. Right(w[n], times, n)
    BY <1>5
  <1> QED
    BY <1>1, <1>2, <1>6 DEF Right, Recent

-----------------------------------------------------------------------------
(* Snapshots.  A post leaves one tier when it enters the next.              *)
LEMMA Tiers ==
  ASSUME NEW hour \in 0..(Day - 1), NEW age \in Nat
  PROVE  /\ TakenBy(hour, age) # {} <=>
              \/ age < Day
              \/ hour % 6 = 0 /\ Day <= age /\ age < 7 * Day
              \/ hour = 3 /\ 7 * Day <= age /\ age < 90 * Day
         /\ Cardinality(TakenBy(hour, age)) <= 1
  <1> DEFINE T == {<<0, Day>>, <<Day, 7 * Day>>, <<7 * Day, 90 * Day>>}
  <1>1. \A tier \in SnapshotTiers(hour) : tier \in T
    BY DEF SnapshotTiers
  <1>2. \A s, t \in T : InTier(age, s) /\ InTier(age, t) => s = t
    BY DEF InTier, Day
  <1>3. \A s, t \in TakenBy(hour, age) : s = t
    <2> HIDE DEF T
    <2> QED
      BY <1>1, <1>2 DEF TakenBy
  <1>4. Cardinality(TakenBy(hour, age)) <= 1
    <2>1. CASE TakenBy(hour, age) = {}
      BY <2>1, FS_EmptySet
    <2>2. CASE TakenBy(hour, age) # {}
      <3>1. PICK t \in TakenBy(hour, age) : TRUE
        BY <2>2
      <3>2. TakenBy(hour, age) = {t}
        BY <1>3, <3>1
      <3>3. Cardinality({t}) = 1
        BY FS_Singleton
      <3> QED
        BY <3>2, <3>3
    <2> QED
      BY <2>1, <2>2
  <1>5. TakenBy(hour, age) # {} <=>
          \/ InTier(age, <<0, Day>>)
          \/ hour % 6 = 0 /\ InTier(age, <<Day, 7 * Day>>)
          \/ hour = 3 /\ InTier(age, <<7 * Day, 90 * Day>>)
    BY DEF TakenBy, SnapshotTiers
  <1>6. /\ InTier(age, <<0, Day>>) <=> age < Day
        /\ InTier(age, <<Day, 7 * Day>>) <=> Day <= age /\ age < 7 * Day
        /\ InTier(age, <<7 * Day, 90 * Day>>) <=> 7 * Day <= age /\ age < 90 * Day
    BY DEF InTier, Day
  <1> QED
    BY <1>4, <1>5, <1>6

LEMMA HourOfDay ==
  ASSUME NEW x \in Nat
  PROVE  /\ x % Day \in 0..(Day - 1)
         /\ x % 6 = 0 => (x % Day) % 6 = 0
         /\ \E d \in 1..6 : (x + d) % 6 = 0
         /\ \E d \in 1..Day : (x + d) % Day = 3
         /\ x % Day = 3 => (x + Day) % Day = 3 /\ (x >= 3 => (x - 3) % Day = 0)
  BY DEF Day

(* It is measured no later than d hours from now if it is measured then. *)
LEMMA NoLaterThan ==
  ASSUME NEW published \in 0..(Day - 1), NEW age \in Nat, NEW d \in 1..2 * Day,
         TakenBy((published + age + d) % Day, age + d) # {}
  PROVE  NextSnapshot(published, age) <= d
  <1> DEFINE D == {e \in 1..2 * Day : TakenBy((published + age + e) % Day, age + e) # {}} \cup {2 * Day + 1}
  <1>1. D \in SUBSET (0..(2 * Day + 1)) /\ D # {} /\ 2 * Day + 1 \in Nat
    BY DEF Day
  <1>2. d \in D
    OBVIOUS
  <1> HIDE DEF D
  <1>3. Min(D) <= d
    BY <1>1, <1>2, LeastOf
  <1> QED
    BY <1>3 DEF NextSnapshot, D

(* A post is measured again within the time its tier allows, and by no more than one run of a day's hour *)
(* (snapshot_tiers). *)
THEOREM SnapshotsInTime ==
  ASSUME NEW in, SnapshotCase(in)
  PROVE  /\ NextSnapshot(in.published, in.age)
              <= (IF in.age + 1 < Day THEN 1 ELSE IF in.age + 6 < 7 * Day THEN 6 ELSE 27)
         /\ Cardinality(TakenBy((in.published + in.age) % Day, in.age)) <= 1
  <1> DEFINE p == in.published
             a == in.age
             x == p + a
  <1>1. p \in 0..(Day - 1) /\ a \in Nat /\ x \in Nat /\ a + 27 < 90 * Day
    BY DEF SnapshotCase, Day
  <1> HIDE DEF p, a
  <1>2. ASSUME NEW d \in 1..27,
               \/ a + d < Day
               \/ (x + d) % 6 = 0 /\ Day <= a + d /\ a + d < 7 * Day
               \/ (x + d) % Day = 3 /\ 7 * Day <= a + d
        PROVE  NextSnapshot(p, a) <= d
    <2>1. d \in 1..2 * Day /\ a + d \in Nat /\ x + d \in Nat /\ a + d < 90 * Day
      BY <1>1 DEF Day
    <2>2. (x + d) % Day \in 0..(Day - 1) /\ ((x + d) % 6 = 0 => ((x + d) % Day) % 6 = 0)
      BY <2>1, HourOfDay
    <2>3. TakenBy((x + d) % Day, a + d) # {}
      BY <1>2, <2>1, <2>2, Tiers
    <2> QED
      BY <1>1, <2>1, <2>3, NoLaterThan
  <1>0. NextSnapshot(p, a) \in Int
    <2> DEFINE D == {e \in 1..2 * Day : TakenBy((p + a + e) % Day, a + e) # {}} \cup {2 * Day + 1}
    <2>1. D \in SUBSET (0..(2 * Day + 1)) /\ D # {} /\ 2 * Day + 1 \in Nat
      BY DEF Day
    <2> HIDE DEF D
    <2>2. Min(D) \in D
      BY <2>1, LeastOf
    <2> QED
      BY <2>1, <2>2 DEF NextSnapshot, D
  <1>3. ASSUME a + 1 < Day
        PROVE  NextSnapshot(p, a) <= 1
    <2>1. 1 \in 1..27
      OBVIOUS
    <2> QED
      BY <1>2, <1>3, <2>1
  <1>4. ASSUME ~(a + 1 < Day), a + 6 < 7 * Day
        PROVE  NextSnapshot(p, a) <= 6
    <2>1. PICK d \in 1..6 : (x + d) % 6 = 0
      BY <1>1, HourOfDay
    <2>2. d \in 1..27 /\ Day <= a + d /\ a + d < 7 * Day /\ d <= 6
      BY <1>1, <1>4 DEF Day
    <2>3. NextSnapshot(p, a) <= d
      BY <1>2, <2>1, <2>2
    <2> QED
      BY <1>0, <2>2, <2>3
  <1>5. ASSUME ~(a + 1 < Day), ~(a + 6 < 7 * Day)
        PROVE  NextSnapshot(p, a) <= 27
    <2>1. PICK d \in 1..Day : (x + d) % Day = 3
      BY <1>1, HourOfDay
    <2>2. \E e \in 1..27 : NextSnapshot(p, a) <= e
      <3>1. CASE 7 * Day <= a + d
        <4>1. d \in 1..27
          BY DEF Day
        <4> QED
          BY <1>2, <2>1, <3>1, <4>1
      <3>2. CASE ~(7 * Day <= a + d) /\ d <= 3
        <4>1. d + Day \in 1..27 /\ 7 * Day <= a + (d + Day) /\ x + d \in Nat /\ (x + d) + Day = x + (d + Day)
          BY <1>1, <1>5, <3>2 DEF Day
        <4>2. (x + (d + Day)) % Day = 3
          BY <2>1, <4>1, HourOfDay
        <4> QED
          BY <1>2, <4>1, <4>2
      <3>3. CASE ~(7 * Day <= a + d) /\ ~(d <= 3)
        <4>1. /\ d - 3 \in 1..27 /\ Day <= a + (d - 3) /\ a + (d - 3) < 7 * Day
              /\ x + d \in Nat /\ x + d >= 3 /\ (x + d) - 3 = x + (d - 3)
          BY <1>1, <1>5, <3>3 DEF Day
        <4>2. (x + (d - 3)) % Day = 0
          BY <2>1, <4>1, HourOfDay
        <4>3. (x + (d - 3)) % 6 = 0
          BY <1>1, <4>1, <4>2 DEF Day
        <4> QED
          BY <1>2, <4>1, <4>3
      <3> QED
        BY <3>1, <3>2, <3>3
    <2> QED
      BY <1>0, <2>2
  <1>6. Cardinality(TakenBy(x % Day, a)) <= 1
    BY <1>1, HourOfDay, Tiers
  <1> QED
    BY <1>3, <1>4, <1>5, <1>6 DEF p, a

-----------------------------------------------------------------------------
(* Sums.  The fold of a set adds up one element after the other, as many as  *)
(* there are pairs of an element and a number up to its value.               *)
One(s) == CHOOSE x \in s : TRUE
SumsUp(g, S, v) == g = [s \in SUBSET S |-> IF s = {} THEN 0 ELSE v[One(s)] + g[s \ {One(s)}]]
Shares(S, v) == {p \in S \X (Nat \ {0}) : p[2] <= v[p[1]]}

LEMMA NoShares ==
  ASSUME NEW v
  PROVE  Shares({}, v) = {} /\ IsFiniteSet(Shares({}, v)) /\ Cardinality(Shares({}, v)) = 0
  <1>1. Shares({}, v) = {}
    BY DEF Shares
  <1> QED
    BY <1>1, FS_EmptySet

LEMMA DisjointUnion ==
  ASSUME NEW A, NEW B, IsFiniteSet(A), IsFiniteSet(B), A \cap B = {}
  PROVE  /\ IsFiniteSet(A \cup B) /\ Cardinality(A) \in Nat /\ Cardinality(B) \in Nat
         /\ Cardinality(A \cup B) = Cardinality(A) + Cardinality(B)
  <1>1. Cardinality(A) \in Nat /\ Cardinality(B) \in Nat
    BY FS_CardinalityType
  <1>2. IsFiniteSet(A \cup B) /\ Cardinality(A \cup B) = Cardinality(A) + Cardinality(B) - Cardinality(A \cap B)
    BY FS_Union
  <1>3. Cardinality(A \cap B) = 0
    BY FS_EmptySet
  <1>4. Cardinality(A \cup B) = Cardinality(A) + Cardinality(B)
    BY <1>1, <1>2, <1>3
  <1> QED
    BY <1>1, <1>2, <1>4

LEMMA SharesOfMore ==
  ASSUME NEW S, NEW v, IsFiniteSet(Shares(S, v)), NEW x, x \notin S, v[x] \in Nat
  PROVE  /\ IsFiniteSet(Shares(S \cup {x}, v))
         /\ Cardinality(Shares(S, v)) \in Nat
         /\ Cardinality(Shares(S \cup {x}, v)) = Cardinality(Shares(S, v)) + v[x]
  <1> DEFINE new == {x} \X (1..v[x])
  <1>1. IsFiniteSet(1..v[x]) /\ Cardinality(1..v[x]) = v[x]
    <2>1. 1 \in Int /\ v[x] \in Int
      OBVIOUS
    <2>2. IsFiniteSet(1..v[x]) /\ Cardinality(1..v[x]) = IF 1 > v[x] THEN 0 ELSE v[x] - 1 + 1
      BY <2>1, FS_Interval
    <2> QED
      BY <2>2
  <1>2. IsFiniteSet({x}) /\ Cardinality({x}) = 1
    BY FS_Singleton
  <1>3. IsFiniteSet(new) /\ Cardinality(new) = v[x]
    <2>1. IsFiniteSet(new) /\ Cardinality(new) = Cardinality({x}) * Cardinality(1..v[x])
      BY <1>1, <1>2, FS_Product
    <2>2. \A k \in Nat : 1 * k = k
      OBVIOUS
    <2> QED
      BY <1>1, <1>2, <2>1, <2>2
  <1>4. Shares(S \cup {x}, v) = Shares(S, v) \cup new /\ Shares(S, v) \cap new = {}
    <2>1. \A k \in Nat \ {0} : k <= v[x] <=> k \in 1..v[x]
      OBVIOUS
    <2>2. 1..v[x] \in SUBSET (Nat \ {0})
      OBVIOUS
    <2> QED
      BY <2>1, <2>2 DEF Shares
  <1> HIDE DEF new
  <1> QED
    BY <1>3, <1>4, DisjointUnion

LEMMA FiniteShares ==
  ASSUME NEW S, IsFiniteSet(S), NEW v, \A x \in S : v[x] \in Nat
  PROVE  \A T \in SUBSET S : IsFiniteSet(Shares(T, v))
  <1> DEFINE G == {T \in SUBSET S : IsFiniteSet(Shares(T, v))}
  <1>1. {} \in G
    BY NoShares
  <1>2. ASSUME NEW T \in SUBSET S, T # {}
        PROVE  \E x \in T : T \ {x} \in G => T \in G
    <2>1. PICK x \in T : TRUE
      BY <1>2
    <2>2. ASSUME T \ {x} \in G
          PROVE  T \in G
      <3>1. (T \ {x}) \cup {x} = T /\ x \notin T \ {x} /\ v[x] \in Nat
        OBVIOUS
      <3>2. IsFiniteSet(Shares(T \ {x}, v))
        BY <2>2
      <3>3. IsFiniteSet(Shares((T \ {x}) \cup {x}, v))
        BY <3>1, <3>2, SharesOfMore
      <3> QED
        BY <3>1, <3>3
    <2> QED
      BY <2>2
  <1> HIDE DEF G
  <1>3. \A T \in SUBSET S : T \in G
    BY <1>1, <1>2, OneByOne
  <1> QED
    BY <1>3 DEF G

(* There is such a fold, and whichever it is, it counts the shares. *)
LEMMA SumIsShares ==
  ASSUME NEW S, IsFiniteSet(S), NEW v, \A x \in S : v[x] \in Nat
  PROVE  /\ \E g : SumsUp(g, S, v)
         /\ \A g : SumsUp(g, S, v) => g[S] = Cardinality(Shares(S, v))
         /\ Cardinality(Shares(S, v)) \in Nat
  <1> DEFINE w == [s \in SUBSET S |-> Cardinality(Shares(s, v))]
  <1>1. ASSUME NEW s \in SUBSET S, s # {}
        PROVE  One(s) \in s /\ s \ {One(s)} \in SUBSET S /\ w[s] = v[One(s)] + w[s \ {One(s)}]
    <2>1. One(s) \in s
      BY <1>1 DEF One
    <2> DEFINE x == One(s)
               t == s \ {x}
    <2>2. t \in SUBSET S /\ s = t \cup {x} /\ x \notin t /\ v[x] \in Nat
      BY <2>1
    <2> HIDE DEF x, t
    <2>3. IsFiniteSet(Shares(t, v))
      BY <2>2, FiniteShares
    <2>4. Cardinality(Shares(t \cup {x}, v)) = Cardinality(Shares(t, v)) + v[x] /\ Cardinality(Shares(t, v)) \in Nat
      BY <2>2, <2>3, SharesOfMore
    <2>5. w[s] = v[x] + w[t]
      BY <2>2, <2>4
    <2> QED
      BY <2>1, <2>2, <2>5 DEF x, t
  <1>2. w[{}] = 0
    BY NoShares
  <1>3. SumsUp(w, S, v)
    <2>1. \A s \in SUBSET S : w[s] = IF s = {} THEN 0 ELSE v[One(s)] + w[s \ {One(s)}]
      BY <1>1, <1>2
    <2>2. w = [s \in SUBSET S |-> w[s]]
      OBVIOUS
    <2> HIDE DEF w
    <2> QED
      BY <2>1, <2>2 DEF SumsUp
  <1>4. ASSUME NEW g, SumsUp(g, S, v)
        PROVE  g[S] = w[S]
    <2> DEFINE G == {s \in SUBSET S : g[s] = w[s]}
    <2>1. {} \in G
      BY <1>2, <1>4 DEF SumsUp
    <2>2. ASSUME NEW s \in SUBSET S, s # {}
          PROVE  \E x \in s : s \ {x} \in G => s \in G
      <3>1. One(s) \in s /\ s \ {One(s)} \in SUBSET S /\ w[s] = v[One(s)] + w[s \ {One(s)}]
        BY <1>1, <2>2
      <3>2. g[s] = v[One(s)] + g[s \ {One(s)}]
        BY <1>4, <2>2 DEF SumsUp
      <3> HIDE DEF w
      <3>3. s \ {One(s)} \in G => s \in G
        BY <3>1, <3>2
      <3> QED
        BY <3>1, <3>3
    <2> HIDE DEF G
    <2>3. \A s \in SUBSET S : s \in G
      BY <2>1, <2>2, OneByOne
    <2>4. S \in G
      BY <2>3
    <2> QED
      BY <2>4 DEF G
  <1>5. w[S] = Cardinality(Shares(S, v)) /\ IsFiniteSet(Shares(S, v))
    BY FiniteShares
  <1>6. Cardinality(Shares(S, v)) \in Nat
    BY <1>5, FS_CardinalityType
  <1> QED
    BY <1>3, <1>4, <1>5, <1>6

LEMMA SharesOfBoth ==
  ASSUME NEW A, NEW B, IsFiniteSet(A), IsFiniteSet(B), A \cap B = {},
         NEW v, \A x \in A \cup B : v[x] \in Nat
  PROVE  Cardinality(Shares(A \cup B, v)) = Cardinality(Shares(A, v)) + Cardinality(Shares(B, v))
  <1>1. IsFiniteSet(Shares(A, v)) /\ IsFiniteSet(Shares(B, v))
    BY FiniteShares
  <1>2. Shares(A \cup B, v) = Shares(A, v) \cup Shares(B, v) /\ Shares(A, v) \cap Shares(B, v) = {}
    BY DEF Shares
  <1> QED
    BY <1>1, <1>2, DisjointUnion

(* The sums that the statistics are. *)
Added(f) == FoldFunction(+, 0, f)

LEMMA TotalIsShares ==
  ASSUME NEW f, IsFiniteSet(DOMAIN f), \A x \in DOMAIN f : f[x] \in Nat
  PROVE  Added(f) = Cardinality(Shares(DOMAIN f, f))
  <1> DEFINE g == CHOOSE g : SumsUp(g, DOMAIN f, f)
  <1>1. Added(f) = g[DOMAIN f]
    BY DEF Added, FoldFunction, FoldFunctionOnSet, MapThenFoldSet, SumsUp, One
  <1>2. SumsUp(g, DOMAIN f, f)
    BY SumIsShares
  <1> HIDE DEF g
  <1>3. g[DOMAIN f] = Cardinality(Shares(DOMAIN f, f))
    BY <1>2, SumIsShares
  <1> QED
    BY <1>1, <1>3

ViewsOf(posts) == [m \in posts |-> m.views]

LEMMA ViewsAreShares ==
  ASSUME NEW all, NEW posts \in SUBSET all, IsFiniteSet(posts), \A m \in all : m.views \in Nat
  PROVE  Views(posts) = Cardinality(Shares(posts, ViewsOf(all)))
  <1> DEFINE v == ViewsOf(all)
             Adds(g) == g = [s \in SUBSET posts |-> IF s = {} THEN 0 ELSE One(s).views + g[s \ {One(s)}]]
             g == CHOOSE g : Adds(g)
  <1>1. Views(posts) = g[posts]
    BY DEF Views, FoldSet, MapThenFoldSet, One
  <1>2. \A x \in posts : v[x] \in Nat
    BY DEF ViewsOf
  <1>3. ASSUME NEW f
        PROVE  Adds(f) <=> SumsUp(f, posts, v)
    <2>1. ASSUME NEW s \in SUBSET posts
          PROVE  (IF s = {} THEN 0 ELSE One(s).views + f[s \ {One(s)}])
                   = (IF s = {} THEN 0 ELSE v[One(s)] + f[s \ {One(s)}])
      <3>1. s # {} => One(s) \in s
        BY DEF One
      <3> QED
        BY <3>1 DEF ViewsOf
    <2>2. [s \in SUBSET posts |-> IF s = {} THEN 0 ELSE One(s).views + f[s \ {One(s)}]]
            = [s \in SUBSET posts |-> IF s = {} THEN 0 ELSE v[One(s)] + f[s \ {One(s)}]]
      BY <2>1
    <2> QED
      BY <2>2 DEF SumsUp
  <1> HIDE DEF v
  <1>4. \E f : SumsUp(f, posts, v)
    BY <1>2, SumIsShares
  <1>5. Adds(g)
    BY <1>3, <1>4
  <1> HIDE DEF g
  <1>6. SumsUp(g, posts, v)
    BY <1>3, <1>5
  <1>7. g[posts] = Cardinality(Shares(posts, v))
    BY <1>2, <1>6, SumIsShares
  <1> QED
    BY <1>1, <1>7 DEF v

(* What is counted by classes adds up to all. *)
Class(S, k, d) == {m \in S : k[m] = d}
Counts(v, S, D, k) ==
  /\ \A m \in S : k[m] \in D
  /\ DOMAIN v = D /\ \A d \in D : v[d] = Cardinality(Class(S, k, d))

LEMMA ClassesAddUp ==
  ASSUME NEW S, IsFiniteSet(S), NEW D, IsFiniteSet(D), NEW k, NEW v, Counts(v, S, D, k)
  PROVE  Added(v) = Cardinality(S)
  <1>0. /\ \A m \in S : k[m] \in D
        /\ DOMAIN v = D /\ \A d \in D : v[d] = Cardinality(Class(S, k, d))
    BY DEF Counts
  <1> DEFINE In(T) == {m \in S : k[m] \in T}
             G == {T \in SUBSET D : Cardinality(Shares(T, v)) = Cardinality(In(T))}
  <1>1. \A T \in SUBSET D : IsFiniteSet(In(T))
    BY FS_Subset
  <1>2. \A d \in D : v[d] \in Nat
    <2> SUFFICES ASSUME NEW d \in D
                 PROVE  v[d] \in Nat
      OBVIOUS
    <2>1. Class(S, k, d) \in SUBSET S
      BY DEF Class
    <2>2. IsFiniteSet(Class(S, k, d))
      BY <2>1, FS_Subset
    <2> QED
      BY <1>0, <2>2, FS_CardinalityType
  <1>3. {} \in G
    BY NoShares, FS_EmptySet
  <1>4. ASSUME NEW T \in SUBSET D, T # {}
        PROVE  \E d \in T : T \ {d} \in G => T \in G
    <2>1. PICK d \in T : TRUE
      BY <1>4
    <2>2. ASSUME T \ {d} \in G
          PROVE  T \in G
      <3> DEFINE U == T \ {d}
                 C == Class(S, k, d)
      <3>1. U \cup {d} = T /\ d \notin U /\ U \in SUBSET D /\ In(T) = In(U) \cup C /\ In(U) \cap C = {}
        BY DEF Class
      <3>2. IsFiniteSet(C) /\ IsFiniteSet(In(U)) /\ IsFiniteSet(Shares(U, v))
        BY <1>1, <1>2, <3>1, FS_Subset, FiniteShares DEF Class
      <3>3. v[d] = Cardinality(C) /\ Cardinality(Shares(U, v)) = Cardinality(In(U)) /\ v[d] \in Nat
        BY <1>0, <1>2, <2>2
      <3> HIDE DEF U, C, In
      <3>4. Cardinality(Shares(U \cup {d}, v)) = Cardinality(Shares(U, v)) + v[d]
        BY <3>1, <3>2, <3>3, SharesOfMore
      <3>5. Cardinality(In(U) \cup C) = Cardinality(In(U)) + Cardinality(C)
        BY <3>1, <3>2, DisjointUnion
      <3>6. Cardinality(Shares(T, v)) = Cardinality(In(T))
        BY <3>1, <3>3, <3>4, <3>5
      <3> QED
        BY <3>6
    <2> QED
      BY <2>2
  <1>5. In(D) = S
    BY <1>0
  <1> HIDE DEF G
  <1>6. \A T \in SUBSET D : T \in G
    BY <1>3, <1>4, OneByOne
  <1>7. D \in G
    BY <1>6
  <1>8. Cardinality(Shares(D, v)) = Cardinality(S)
    BY <1>5, <1>7 DEF G
  <1> QED
    BY <1>0, <1>2, <1>8, TotalIsShares

-----------------------------------------------------------------------------
(* The statistics of a chat.                                               *)
LEMMA WholePeriod ==
  ASSUME NEW in, StatsCase(in)
  PROVE  LET since == in.until - in.days * Day
             first == since - in.days * Day IN
         /\ since \in Int /\ first \in Int /\ first <= since /\ since <= in.until
         /\ in.until - (2 * in.days) * Day = first
  BY DEF StatsCase, Day

LEMMA PeriodsMeet ==
  ASSUME NEW posts, IsFiniteSet(posts), \A m \in posts : m.at \in Int,
         NEW a \in Int, NEW b \in Int, NEW c \in Int, a <= b, b <= c
  PROVE  /\ Published(posts, a, b) \cup Published(posts, b, c) = Published(posts, a, c)
         /\ Published(posts, a, b) \cap Published(posts, b, c) = {}
         /\ IsFiniteSet(Published(posts, a, b)) /\ IsFiniteSet(Published(posts, b, c))
         /\ Published(posts, a, b) \in SUBSET posts /\ Published(posts, b, c) \in SUBSET posts
  <1>1. \A x, y \in Int : Published(posts, x, y) \in SUBSET posts
    BY DEF Published
  <1>2. \A x, y \in Int : IsFiniteSet(Published(posts, x, y))
    BY <1>1, FS_Subset
  <1>3. ASSUME NEW m \in posts
        PROVE  /\ InPeriod(m.at, a, b) \/ InPeriod(m.at, b, c) <=> InPeriod(m.at, a, c)
               /\ ~(InPeriod(m.at, a, b) /\ InPeriod(m.at, b, c))
    BY DEF InPeriod
  <1>4. /\ Published(posts, a, b) \cup Published(posts, b, c) = Published(posts, a, c)
        /\ Published(posts, a, b) \cap Published(posts, b, c) = {}
    BY <1>3 DEF Published
  <1> QED
    BY <1>1, <1>2, <1>4

(* The posts that have gains in a period. *)
SeenTwice(snapshots, a, c) ==
  LET taken == {s \in snapshots : InPeriod(s.at, a, c)} IN
  {s.post : s \in {r \in taken : Cardinality({s \in taken : s.post = r.post}) >= 2}}

LEMMA OneGainEach ==
  ASSUME NEW snapshots, IsFiniteSet(snapshots), NEW a, NEW c
  PROVE  /\ IsFiniteSet(SeenTwice(snapshots, a, c))
         /\ Cardinality(Gains(snapshots, a, c)) = Cardinality(SeenTwice(snapshots, a, c))
  <1> DEFINE taken == {s \in snapshots : InPeriod(s.at, a, c)}
             Of(id) == {s \in taken : s.post = id}
             First(id) == CHOOSE s \in Of(id) : \A r \in Of(id) : s.at <= r.at
             Final(id) == CHOOSE s \in Of(id) : \A r \in Of(id) : r.at <= s.at
             Gain(id) == [post |-> id, views |-> Final(id).views - First(id).views]
             P == SeenTwice(snapshots, a, c)
             R == {r \in taken : Cardinality(Of(r.post)) >= 2}
             gain == [id \in P |-> Gain(id)]
  <1>1. P = {s.post : s \in R}
    BY DEF SeenTwice
  <1>2. IsFiniteSet(P)
    <2>1. R \in SUBSET snapshots
      OBVIOUS
    <2>2. IsFiniteSet(R)
      BY <2>1, FS_Subset
    <2> DEFINE post == [s \in R |-> s.post]
    <2>3. post \in [R -> P]
      BY <1>1
    <2>4. \A p \in P : \E s \in R : post[s] = p
      BY <1>1
    <2> HIDE DEF post, P, R
    <2>5. post \in Surjection(R, P)
      BY <2>3, <2>4 DEF Surjection
    <2> QED
      BY <2>2, <2>5, FS_Surjection
  <1>3. Gains(snapshots, a, c) = {Gain(id) : id \in P}
    BY <1>1 DEF Gains
  <1>4. \A id \in P : gain[id].post = id
    OBVIOUS
  <1>5. gain \in [P -> Gains(snapshots, a, c)] /\ \A x \in Gains(snapshots, a, c) : \E id \in P : gain[id] = x
    <2> HIDE DEF P, Gain
    <2> QED
      BY <1>3
  <1> HIDE DEF P, gain
  <1>6. gain \in Bijection(P, Gains(snapshots, a, c))
    BY <1>4, <1>5 DEF Bijection, Injection, Surjection, IsInjective
  <1> QED
    BY <1>2, <1>6, FS_Bijection DEF ExistsBijection, P

LEMMA SeenInMore ==
  ASSUME NEW snapshots, IsFiniteSet(snapshots), \A s \in snapshots : s.at \in Int,
         NEW a \in Int, NEW b \in Int, NEW c \in Int, a <= b
  PROVE  SeenTwice(snapshots, b, c) \subseteq SeenTwice(snapshots, a, c)
  <1> DEFINE few == {s \in snapshots : InPeriod(s.at, b, c)}
             many == {s \in snapshots : InPeriod(s.at, a, c)}
  <1>1. few \subseteq many /\ many \subseteq snapshots
    BY DEF InPeriod
  <1>2. ASSUME NEW r \in few, Cardinality({s \in few : s.post = r.post}) >= 2
        PROVE  Cardinality({s \in many : s.post = r.post}) >= 2
    <2> DEFINE F == {s \in few : s.post = r.post}
               M == {s \in many : s.post = r.post}
    <2>1. F \in SUBSET M /\ M \in SUBSET snapshots
      BY <1>1
    <2>2. IsFiniteSet(M)
      BY <2>1, FS_Subset
    <2>3. Cardinality(F) <= Cardinality(M) /\ IsFiniteSet(F)
      BY <2>1, <2>2, FS_Subset
    <2>4. Cardinality(F) \in Nat /\ Cardinality(M) \in Nat
      BY <2>2, <2>3, FS_CardinalityType
    <2>5. Cardinality(F) >= 2
      BY <1>2
    <2> HIDE DEF F, M
    <2>6. Cardinality(M) >= 2
      BY <2>3, <2>4, <2>5
    <2> QED
      BY <2>6 DEF M
  <1>3. \A r \in few : r \in many
    BY <1>1
  <1> QED
    BY <1>2, <1>3 DEF SeenTwice

(* What chat_stats counts by day and by hour adds up to its posts, and a period and the one before it add up *)
(* to what both are together. *)
THEOREM StatsAreWhole ==
  ASSUME NEW in, StatsCase(in)
  PROVE  LET got == ChatStats(in.posts, in.snapshots, in.until, in.days)
             both == ChatStats(in.posts, in.snapshots, in.until, 2 * in.days) IN
         /\ Added(got.by_weekday) = got.posts
         /\ Added(got.by_hour) = got.posts
         /\ got.posts + got.previous.posts = both.posts
         /\ got.views + got.previous.views = both.views
         /\ got.coverage <= both.coverage
  <1> DEFINE got == ChatStats(in.posts, in.snapshots, in.until, in.days)
             both == ChatStats(in.posts, in.snapshots, in.until, 2 * in.days)
             since == in.until - in.days * Day
             first == since - in.days * Day
             now == Published(in.posts, since, in.until)
             before == Published(in.posts, first, since)
             all == Published(in.posts, first, in.until)
             v == ViewsOf(in.posts)
  <1>1. /\ IsFiniteSet(in.posts) /\ (\A m \in in.posts : m.at \in Int /\ m.views \in Nat)
        /\ IsFiniteSet(in.snapshots) /\ (\A s \in in.snapshots : s.at \in Int) /\ in.until \in Int
    BY DEF StatsCase
  <1>2. /\ since \in Int /\ first \in Int /\ first <= since /\ since <= in.until
        /\ in.until - (2 * in.days) * Day = first
    BY WholePeriod
  <1>3. /\ before \cup now = all /\ before \cap now = {}
        /\ IsFiniteSet(before) /\ IsFiniteSet(now)
        /\ before \in SUBSET in.posts /\ now \in SUBSET in.posts
    <2> HIDE DEF since, first
    <2> QED
      BY <1>1, <1>2, PeriodsMeet
  <1>4. /\ got.posts = Cardinality(now) /\ got.views = Views(now)
        /\ got.by_weekday = [w \in 0..6 |-> Cardinality({m \in now : Weekday(m.at) = w})]
        /\ got.by_hour = [h \in 0..(Day - 1) |-> Cardinality({m \in now : m.at % Day = h})]
        /\ got.coverage = Cardinality(Gains(in.snapshots, since, in.until))
        /\ got.previous.posts = Cardinality(before) /\ got.previous.views = Views(before)
    BY DEF ChatStats
  <1>5. /\ both.posts = Cardinality(all) /\ both.views = Views(all)
        /\ both.coverage = Cardinality(Gains(in.snapshots, first, in.until))
    <2> HIDE DEF first
    <2> QED
      BY <1>2 DEF ChatStats
  <1> HIDE DEF got, both, since, first, now, before, all
  <1>6. Added(got.by_weekday) = got.posts
    <2> DEFINE k == [m \in now |-> Weekday(m.at)]
    <2>1. \A m \in now : k[m] \in 0..6 /\ k[m] = Weekday(m.at)
      BY <1>1, <1>3 DEF Weekday, Day
    <2>2. 0 \in Int /\ 6 \in Int
      OBVIOUS
    <2>3. IsFiniteSet(0..6)
      BY <2>2, FS_Interval
    <2> HIDE DEF k
    <2>4. \A w \in 0..6 : {m \in now : Weekday(m.at) = w} = Class(now, k, w)
      BY <2>1 DEF Class
    <2>5. DOMAIN got.by_weekday = 0..6 /\ \A w \in 0..6 : got.by_weekday[w] = Cardinality(Class(now, k, w))
      BY <1>4, <2>4
    <2>6. Counts(got.by_weekday, now, 0..6, k)
      BY <2>1, <2>5 DEF Counts
    <2>7. Added(got.by_weekday) = Cardinality(now)
      BY <1>3, <2>3, <2>6, ClassesAddUp
    <2> QED
      BY <1>4, <2>7
  <1>7. Added(got.by_hour) = got.posts
    <2> DEFINE k == [m \in now |-> m.at % Day]
    <2>1. \A m \in now : k[m] \in 0..(Day - 1) /\ k[m] = m.at % Day
      BY <1>1, <1>3 DEF Day
    <2>2. 0 \in Int /\ Day - 1 \in Int
      BY DEF Day
    <2>3. IsFiniteSet(0..(Day - 1))
      BY <2>2, FS_Interval
    <2> HIDE DEF k
    <2>4. \A h \in 0..(Day - 1) : {m \in now : m.at % Day = h} = Class(now, k, h)
      BY <2>1 DEF Class
    <2>5. DOMAIN got.by_hour = 0..(Day - 1) /\ \A h \in 0..(Day - 1) : got.by_hour[h] = Cardinality(Class(now, k, h))
      BY <1>4, <2>4
    <2>6. Counts(got.by_hour, now, 0..(Day - 1), k)
      BY <2>1, <2>5 DEF Counts
    <2>7. Added(got.by_hour) = Cardinality(now)
      BY <1>3, <2>3, <2>6, ClassesAddUp
    <2> QED
      BY <1>4, <2>7
  <1>8. got.posts + got.previous.posts = both.posts
    <2>1. Cardinality(before \cup now) = Cardinality(before) + Cardinality(now)
      BY <1>3, DisjointUnion
    <2>2. Cardinality(before) \in Nat /\ Cardinality(now) \in Nat
      BY <1>3, FS_CardinalityType
    <2>3. got.posts = Cardinality(now) /\ got.previous.posts = Cardinality(before)
          /\ both.posts = Cardinality(before) + Cardinality(now)
      BY <1>3, <1>4, <1>5, <2>1
    <2> QED
      BY <2>2, <2>3
  <1>9. got.views + got.previous.views = both.views
    <2>1. all \in SUBSET in.posts /\ IsFiniteSet(all)
      BY <1>1, <1>3, FS_Subset
    <2>2. /\ Views(now) = Cardinality(Shares(now, v)) /\ Views(before) = Cardinality(Shares(before, v))
          /\ Views(all) = Cardinality(Shares(all, v))
      BY <1>1, <1>3, <2>1, ViewsAreShares
    <2>3. \A x \in in.posts : v[x] \in Nat
      BY <1>1 DEF ViewsOf
    <2> HIDE DEF v
    <2>4. Cardinality(Shares(before \cup now, v)) = Cardinality(Shares(before, v)) + Cardinality(Shares(now, v))
      BY <1>3, <2>3, SharesOfBoth
    <2>5. Cardinality(Shares(before, v)) \in Nat /\ Cardinality(Shares(now, v)) \in Nat
      BY <1>3, <2>3, SumIsShares
    <2>6. /\ got.views = Cardinality(Shares(now, v)) /\ got.previous.views = Cardinality(Shares(before, v))
          /\ both.views = Cardinality(Shares(before, v)) + Cardinality(Shares(now, v))
      BY <1>3, <1>4, <1>5, <2>2, <2>4
    <2> QED
      BY <2>5, <2>6
  <1>10. got.coverage <= both.coverage
    <2>1. SeenTwice(in.snapshots, since, in.until) \subseteq SeenTwice(in.snapshots, first, in.until)
      BY <1>1, <1>2, SeenInMore
    <2>2. IsFiniteSet(SeenTwice(in.snapshots, first, in.until))
      BY <1>1, OneGainEach
    <2>3. Cardinality(SeenTwice(in.snapshots, since, in.until)) <= Cardinality(SeenTwice(in.snapshots, first, in.until))
      BY <2>1, <2>2, FS_Subset
    <2> QED
      BY <1>1, <1>4, <1>5, <2>3, OneGainEach
  <1> QED
    BY <1>6, <1>7, <1>8, <1>9, <1>10 DEF got, both

-----------------------------------------------------------------------------
(* Tasks and attempts.                                                     *)
(* A task goes to a provider that can do it: the one that was asked for if it can, else the fallback, and to none *)
(* only if neither can (LLMRouter.resolve). *)
THEOREM TaskGoesWhereItCan ==
  ASSUME NEW cfg, NEW env, NEW task
  PROVE  LET wanted == Requested(cfg, env, task)
             second == EffectiveProvider(cfg.fallback, env)
             got == Resolve(cfg, env, task) IN
         /\ got # NoProvider => Needed(task) \subseteq Capabilities(got.provider, got.model)
         /\ wanted.provider \in Providers /\ Can(wanted.provider, wanted.model, task) => got = wanted
         /\ got = NoProvider /\ wanted.provider \in Providers /\ second \in Providers
              => ~Can(second, DefaultModel(second, task), task)
  <1> DEFINE wanted == Requested(cfg, env, task)
             second == EffectiveProvider(cfg.fallback, env)
             got == Resolve(cfg, env, task)
             other == Fallback(cfg, env, task)
  <1>1. /\ wanted.provider \notin Providers => got = NoProvider
        /\ wanted.provider \in Providers /\ Can(wanted.provider, wanted.model, task) => got = wanted
        /\ wanted.provider \in Providers /\ ~Can(wanted.provider, wanted.model, task) /\ second \notin Providers
             => got = NoProvider
        /\ wanted.provider \in Providers /\ ~Can(wanted.provider, wanted.model, task) /\ second \in Providers
             => got = other
    BY DEF Resolve
  <1>2. \/ Can(second, DefaultModel(second, task), task) /\ other.provider = second /\ other.model = DefaultModel(second, task)
        \/ ~Can(second, DefaultModel(second, task), task) /\ other = NoProvider
    BY DEF Fallback
  <1>3. NoProvider.provider \notin Providers
    BY DEF NoProvider, Providers
  <1> HIDE DEF wanted, second, got, other
  <1>4. got # NoProvider => Needed(task) \subseteq Capabilities(got.provider, got.model)
    BY <1>1, <1>2 DEF Can
  <1>5. got = NoProvider /\ wanted.provider \in Providers /\ second \in Providers
          => ~Can(second, DefaultModel(second, task), task)
    BY <1>1, <1>2, <1>3
  <1> QED
    BY <1>1, <1>4, <1>5 DEF wanted, second, got

(* Only an error that may pass is tried again, and it is until MaxRetries attempts were made (_with_retry). *)
THEOREM AttemptsAreBounded ==
  ASSUME NEW outcomes, DOMAIN outcomes = 1..MaxRetries
  PROVE  LET got == WithRetry(outcomes) IN
         /\ got.attempts \in 1..MaxRetries
         /\ \A i \in 1..(got.attempts - 1) : outcomes[i] \in Retryable
         /\ got.last \in Retryable => got.attempts = MaxRetries
  <1> DEFINE ends == {i \in DOMAIN outcomes : GivesUp(outcomes[i])}
             K == ends \cup {MaxRetries}
             a == Attempts(outcomes)
  <1>1. MaxRetries \in Nat /\ MaxRetries >= 1
    BY LLMCallsAssumption
  <1>2. K \in SUBSET (0..MaxRetries) /\ K # {} /\ K \subseteq 1..MaxRetries
    BY <1>1
  <1>3. a = Min(K)
    BY DEF Attempts
  <1>4. \A i \in 1..MaxRetries : i \in ends \/ outcomes[i] \in Retryable
    BY DEF GivesUp
  <1>5. \A i \in ends : outcomes[i] \notin Retryable
    BY DEF GivesUp
  <1>6. \A i \in ends : i \in K
    OBVIOUS
  <1>7. \A i \in K : i \in ends \/ i = MaxRetries
    OBVIOUS
  <1> HIDE DEF K, a, ends
  <1>8. a \in K /\ \A i \in K : a <= i
    BY <1>1, <1>2, <1>3, LeastOf
  <1>9. a \in 1..MaxRetries
    BY <1>2, <1>8
  <1>10. ASSUME NEW i \in 1..(a - 1)
         PROVE  outcomes[i] \in Retryable
    <2>1. i \in 1..MaxRetries /\ ~(a <= i)
      BY <1>1, <1>9
    <2> QED
      BY <1>4, <1>6, <1>8, <2>1
  <1>11. outcomes[a] \in Retryable => a = MaxRetries
    BY <1>5, <1>7, <1>8
  <1> QED
    BY <1>9, <1>10, <1>11 DEF WithRetry, a

-----------------------------------------------------------------------------
(* Conversations.                                                          *)
LEMMA SeqOfItself ==
  ASSUME NEW s, IsSeq(s)
  PROVE  /\ s \in Seq(Range(s))
         /\ Len(s) \in Nat
         /\ DOMAIN s = 1..Len(s)
         /\ s = <<>> <=> Len(s) = 0
  <1>1. s \in Seq(Range(s))
    BY DEF IsSeq
  <1> QED
    BY <1>1, LenProperties, EmptySeq

(* What a converted message is made of. *)
CallIds(in) == (UNION {Range(in[i].calls) : i \in DOMAIN in}) \cup {in[i].answers : i \in DOMAIN in}
Block(in) == [type : {"tool_use", "tool_result"}, id : CallIds(in)]
Sendable(in) == Seq([role : {"system", "user", "assistant", "tool"}, text : BOOLEAN, blocks : Seq(Block(in))])

(* A message of a conversation, whatever else holds of it. *)
IsMessage(m) == m.role \in {"system", "user", "assistant", "tool"} /\ m.text \in BOOLEAN /\ IsSeq(m.calls)
Conversation(in) == IsSeq(in) /\ \A i \in DOMAIN in : IsMessage(in[i])

LEMMA BlocksOf ==
  ASSUME NEW in, Conversation(in), NEW i \in DOMAIN in
  PROVE  /\ Blocks(in[i]) \in Seq(Block(in)) /\ Len(Blocks(in[i])) = Len(in[i].calls)
         /\ Blocks(in[i]) = <<>> <=> in[i].calls = <<>>
         /\ DOMAIN Blocks(in[i]) = DOMAIN in[i].calls /\ DOMAIN in[i].calls = 1..Len(in[i].calls)
         /\ Len(in[i].calls) \in Nat
         /\ \A k \in DOMAIN in[i].calls :
              Blocks(in[i])[k].id = in[i].calls[k] /\ Blocks(in[i])[k].type = "tool_use"
         /\ ResultBlock(in[i]) \in Block(in)
         /\ ResultBlock(in[i]).type = "tool_result" /\ ResultBlock(in[i]).id = in[i].answers
  <1> DEFINE calls == in[i].calls
             n == Len(calls)
  <1>1. calls \in Seq(Range(calls)) /\ n \in Nat /\ DOMAIN calls = 1..n /\ (calls = <<>> <=> n = 0)
    <2>1. IsSeq(calls)
      BY DEF Conversation, IsMessage
    <2> HIDE DEF calls
    <2> QED
      BY <2>1, SeqOfItself
  <1>2. Blocks(in[i]) = [k \in 1..n |-> [type |-> "tool_use", id |-> calls[k]]]
    BY <1>1 DEF Blocks
  <1>3. \A k \in 1..n : calls[k] \in CallIds(in)
    BY <1>1 DEF CallIds, Range
  <1> HIDE DEF calls, n
  <1>4. \A k \in 1..n : [type |-> "tool_use", id |-> calls[k]] \in Block(in)
    BY <1>3 DEF Block
  <1>5. Blocks(in[i]) \in Seq(Block(in)) /\ Len(Blocks(in[i])) = n
    BY <1>1, <1>2, <1>4, IsASeq
  <1>6. Blocks(in[i]) = <<>> <=> n = 0
    BY <1>1, <1>5, EmptySeq
  <1>7. in[i].answers \in CallIds(in)
    BY DEF CallIds
  <1>8. ResultBlock(in[i]) \in Block(in) /\ ResultBlock(in[i]).type = "tool_result" /\ ResultBlock(in[i]).id = in[i].answers
    BY <1>7 DEF ResultBlock, Block
  <1>9. DOMAIN Blocks(in[i]) = 1..n /\ \A k \in 1..n : Blocks(in[i])[k].id = calls[k] /\ Blocks(in[i])[k].type = "tool_use"
    BY <1>2
  <1> QED
    BY <1>1, <1>5, <1>6, <1>8, <1>9 DEF calls, n

LEMMA LastInSeq ==
  ASSUME NEW M, NEW out \in Seq(M), out # <<>>
  PROVE  Len(out) \in Nat \ {0} /\ Len(out) \in 1..Len(out) /\ Len(out) \in DOMAIN out /\ out[Len(out)] \in M
  <1>1. Len(out) \in Nat /\ Len(out) # 0 /\ DOMAIN out = 1..Len(out)
    BY EmptySeq, LenProperties
  <1>2. Len(out) \in 1..Len(out)
    BY <1>1
  <1> QED
    BY <1>1, <1>2, ElementOfSeq

LEMMA ClaudeType ==
  ASSUME NEW in, Conversation(in), NEW i \in DOMAIN in, NEW out \in Sendable(in)
  PROVE  AddToClaude(out, in[i]) \in Sendable(in)
  <1> DEFINE m == in[i]
             M == [role : {"system", "user", "assistant", "tool"}, text : BOOLEAN, blocks : Seq(Block(in))]
  <1>1. IsMessage(m) /\ Blocks(m) \in Seq(Block(in)) /\ ResultBlock(m) \in Block(in)
    BY BlocksOf DEF Conversation
  <1>2. out \in Seq(M)
    BY DEF Sendable
  <1>3. [role |-> m.role, text |-> m.text, blocks |-> Blocks(m)] \in M
    BY <1>1 DEF IsMessage
  <1>4. <<ResultBlock(m)>> \in Seq(Block(in))
    BY <1>1
  <1>5. [role |-> "user", text |-> FALSE, blocks |-> <<ResultBlock(m)>>] \in M
    BY <1>4
  <1>6. ASSUME out # <<>>
        PROVE  [out EXCEPT ![Len(out)].blocks = Append(@, ResultBlock(m))] \in Seq(M)
    <2>1. Len(out) \in 1..Len(out) /\ out[Len(out)] \in M
      BY <1>2, <1>6, LastInSeq
    <2> DEFINE x == [out[Len(out)] EXCEPT !.blocks = Append(@, ResultBlock(m))]
    <2>2. Append(out[Len(out)].blocks, ResultBlock(m)) \in Seq(Block(in))
      <3>1. out[Len(out)].blocks \in Seq(Block(in))
        BY <2>1
      <3> QED
        BY <1>1, <3>1, AppendProperties
    <2>3. x \in M
      BY <2>1, <2>2
    <2>4. [out EXCEPT ![Len(out)].blocks = Append(@, ResultBlock(m))] = [out EXCEPT ![Len(out)] = x]
      OBVIOUS
    <2> HIDE DEF x, M
    <2>5. [out EXCEPT ![Len(out)] = x] \in Seq(M)
      BY <1>2, <2>1, <2>3, ExceptSeq
    <2> QED
      BY <2>4, <2>5
  <1> HIDE DEF M, m
  <1>7. AddToClaude(out, m) \in Seq(M)
    BY <1>2, <1>3, <1>5, <1>6, AppendProperties DEF AddToClaude
  <1> QED
    BY <1>7 DEF Sendable, M, m

Converts(g, in) ==
  g = [s \in SUBSET (DOMAIN in) |-> IF s = {} THEN <<>> ELSE AddToClaude(g[s \ {Max(s)}], in[Max(s)])]

LEMMA ClaudeSteps ==
  ASSUME NEW in, Conversation(in)
  PROVE  \E w \in [0..Len(in) -> Sendable(in)] :
           /\ w[0] = <<>>
           /\ \A i \in 1..Len(in) : w[i] = AddToClaude(w[i - 1], in[i])
           /\ ToClaude(in) = w[Len(in)]
  <1> DEFINE n == Len(in)
             V == Sendable(in)
             g == CHOOSE g : Converts(g, in)
             h == [p \in (1..n) \X V |-> AddToClaude(p[2], in[p[1]])]
             w == [i \in 0..n |-> g[1..i]]
  <1>1. n \in Nat /\ DOMAIN in = 1..n
    BY SeqOfItself DEF Conversation
  <1>2. ToClaude(in) = g[DOMAIN in]
    BY DEF ToClaude, FoldLeft, MapThenFoldSet, Converts
  <1>3. <<>> \in V
    BY EmptySeq DEF Sendable
  <1> HIDE DEF V
  <1>4. h \in [(1..n) \X V -> V]
    BY <1>1, ClaudeType DEF V
  <1>5. \E f : Converts(f, in)
    <2>1. PICK f \in [SUBSET (1..n) -> V] : Unwound(f, n, <<>>, h)
      <3> HIDE DEF h, n
      <3> QED
        BY <1>1, <1>3, <1>4, FoldExists
    <2>2. ASSUME NEW s \in SUBSET (1..n)
          PROVE  f[s] = IF s = {} THEN <<>> ELSE AddToClaude(f[s \ {Max(s)}], in[Max(s)])
      <3>1. CASE s # {}
        <4>1. Max(s) \in 1..n /\ f[s \ {Max(s)}] \in V
          BY <1>1, <3>1, GreatestPosition
        <4>2. h[<<Max(s), f[s \ {Max(s)}]>>] = AddToClaude(f[s \ {Max(s)}], in[Max(s)])
          BY <4>1
        <4> HIDE DEF h
        <4> QED
          BY <2>1, <3>1, <4>2 DEF Unwound
      <3> HIDE DEF h
      <3> QED
        BY <2>1, <3>1 DEF Unwound
    <2>3. Converts(f, in)
      BY <1>1, <2>2 DEF Converts
    <2> QED
      BY <2>3
  <1>6. Converts(g, in)
    BY <1>5
  <1> HIDE DEF g
  <1>7. w[0] = <<>> /\ \A i \in 1..n : w[i] = AddToClaude(w[i - 1], in[i])
    <2>1. 0 \in 0..n /\ \A i \in 1..n : i \in 0..n /\ i - 1 \in 0..n
      BY <1>1
    <2>2. g[{}] = <<>>
      BY <1>6 DEF Converts
    <2>3. ASSUME NEW i \in 1..n
          PROVE  g[1..i] = AddToClaude(g[1..(i - 1)], in[i])
      <3>1. 1..i \in SUBSET (DOMAIN in) /\ 1..i # {} /\ Max(1..i) = i /\ (1..i) \ {Max(1..i)} = 1..(i - 1)
        BY <1>1, FirstPositions
      <3>2. g[1..i] = AddToClaude(g[(1..i) \ {Max(1..i)}], in[Max(1..i)])
        BY <1>6, <3>1 DEF Converts
      <3> QED
        BY <3>1, <3>2
    <2> QED
      BY <1>1, <2>1, <2>2, <2>3, FirstPositions
  <1> HIDE DEF w
  <1>8. \A i \in 0..n : i \in {j \in 0..n : w[j] \in V}
    <2> DEFINE G == {j \in 0..n : w[j] \in V}
    <2>1. 0 \in G
      BY <1>1, <1>3, <1>7
    <2>2. ASSUME NEW j \in 0..(n - 1), j \in G
          PROVE  j + 1 \in G
      <3>1. j + 1 \in 0..n /\ j + 1 \in 1..n /\ (j + 1) - 1 = j
        BY <1>1
      <3>2. w[j + 1] = AddToClaude(w[j], in[j + 1])
        BY <1>7, <3>1
      <3> QED
        BY <1>1, <2>2, <3>1, <3>2, ClaudeType DEF V
    <2> HIDE DEF G
    <2>3. \A i \in 0..n : i \in G
      BY <1>1, <2>1, <2>2, UpTo
    <2> QED
      BY <2>3 DEF G
  <1>9. w \in [0..n -> V]
    BY <1>8 DEF w
  <1>10. w[n] = g[DOMAIN in]
    BY <1>1 DEF w
  <1> QED
    BY <1>2, <1>7, <1>9, <1>10 DEF V

-----------------------------------------------------------------------------
(* Claude.  While a call waits for the rest of its results, it is the last   *)
(* message, or the last but one and those that have come are the last.       *)
Calling(x) == x.role \in {"assistant", "model"} /\ x.blocks # <<>>
BlockIds(blocks) == [k \in DOMAIN blocks |-> blocks[k].id]
Followed(out, p) == p < Len(out) /\ IsResults(out[p + 1]) /\ BlockIds(out[p + 1].blocks) = BlockIds(out[p].blocks)
AllFollowed(out, n) == \A p \in 1..n : Calling(out[p]) => Followed(out, p)

Pending(in, i) == {j \in 1..i : i - j < Len(in[j].calls)}
CallAt(out, k) == IF k = 0 THEN Len(out) ELSE Len(out) - 1

Open(in, out, i, j) ==
  LET p == CallAt(out, i - j) IN
  /\ p \in 1..Len(out)
  /\ out[p].blocks = Blocks(in[j])
  /\ i = j => out[p].role = "assistant"
  /\ i > j => /\ out[Len(out)].role = "user"
              /\ out[Len(out)].blocks = [x \in 1..(i - j) |-> ResultBlock(in[j + x])]
  /\ AllFollowed(out, p - 1)

InHand(in, out, i) ==
  /\ Pending(in, i) = {} => AllFollowed(out, Len(out))
  /\ \A j \in Pending(in, i) : Open(in, out, i, j)

LEMMA CaseIsConversation ==
  ASSUME NEW in, ConvertCase(in)
  PROVE  Conversation(in) /\ Len(in) \in Nat /\ DOMAIN in = 1..Len(in)
  <1>1. IsSeq(in)
    BY DEF ConvertCase
  <1>2. \A i \in DOMAIN in : IsMessage(in[i])
    BY DEF ConvertCase, IsMessage
  <1> QED
    BY <1>1, <1>2, SeqOfItself DEF Conversation

LEMMA CallsAndResults ==
  ASSUME NEW in, ConvertCase(in), NEW j \in DOMAIN in, NEW k \in DOMAIN in[j].calls
  PROVE  /\ in[j].role = "assistant" /\ j + k \in DOMAIN in
         /\ in[j + k].role = "tool" /\ in[j + k].answers = in[j].calls[k] /\ in[j + k].calls = <<>>
  <1>1. Conversation(in)
    BY CaseIsConversation
  <1>2. in[j].calls # <<>>
    <2>1. DOMAIN in[j].calls = 1..Len(in[j].calls) /\ (Blocks(in[j]) = <<>> <=> in[j].calls = <<>>)
      BY <1>1, BlocksOf
    <2>2. DOMAIN <<>> = {}
      OBVIOUS
    <2> QED
      BY <2>2
  <1>3. in[j].role = "assistant"
    BY <1>2 DEF ConvertCase
  <1>4. j + k \in DOMAIN in /\ in[j + k].role = "tool" /\ in[j + k].answers = in[j].calls[k]
    BY DEF ConvertCase
  <1>5. in[j + k].calls = <<>>
    BY <1>4 DEF ConvertCase
  <1> QED
    BY <1>3, <1>4, <1>5

LEMMA OnePending ==
  ASSUME NEW in, ConvertCase(in), NEW i \in 0..Len(in), NEW j \in Pending(in, i)
  PROVE  /\ j \in DOMAIN in /\ j \in 1..i /\ i + 1 - j \in DOMAIN in[j].calls /\ i + 1 \in DOMAIN in
         /\ \A l \in Pending(in, i) : l = j
  <1>1. Len(in) \in Nat /\ DOMAIN in = 1..Len(in) /\ Conversation(in)
    BY CaseIsConversation
  <1>2. ASSUME NEW l \in Pending(in, i)
        PROVE  /\ l \in DOMAIN in /\ l \in 1..i /\ Len(in[l].calls) \in Nat
               /\ DOMAIN in[l].calls = 1..Len(in[l].calls) /\ i - l < Len(in[l].calls)
               /\ i + 1 - l \in DOMAIN in[l].calls
    <2>1. l \in 1..i /\ l \in DOMAIN in /\ i - l < Len(in[l].calls)
      BY <1>1 DEF Pending
    <2>2. Len(in[l].calls) \in Nat /\ DOMAIN in[l].calls = 1..Len(in[l].calls)
      BY <1>1, <2>1, BlocksOf
    <2> QED
      BY <2>1, <2>2
  <1>3. ASSUME NEW l \in Pending(in, i), NEW m \in Pending(in, i), l < m
        PROVE  FALSE
    <2>1. /\ l \in DOMAIN in /\ l \in 1..i /\ Len(in[l].calls) \in Nat
          /\ DOMAIN in[l].calls = 1..Len(in[l].calls) /\ i - l < Len(in[l].calls)
      BY <1>2
    <2>2. m \in DOMAIN in /\ m \in 1..i /\ i + 1 - m \in DOMAIN in[m].calls
      BY <1>2
    <2>3. m - l \in 1..Len(in[l].calls) /\ l + (m - l) = m
      BY <1>3, <2>1, <2>2
    <2> DEFINE k == m - l
    <2>4. k \in DOMAIN in[l].calls /\ l + k = m
      BY <2>1, <2>3
    <2> HIDE DEF k
    <2>5. in[l + k].role = "tool"
      BY <2>1, <2>4, CallsAndResults
    <2> DEFINE q == i + 1 - m
    <2>6. q \in DOMAIN in[m].calls
      BY <2>2
    <2> HIDE DEF q
    <2>7. in[m].role = "assistant"
      BY <2>2, <2>6, CallsAndResults
    <2> QED
      BY <2>4, <2>5, <2>7
  <1>4. i + 1 \in DOMAIN in
    <2>1. j + (i + 1 - j) = i + 1
      BY <1>2
    <2>2. j + (i + 1 - j) \in DOMAIN in
      BY <1>2, CallsAndResults
    <2> QED
      BY <2>1, <2>2
  <1>5. ASSUME NEW l \in Pending(in, i)
        PROVE  l = j
    <2>1. ~(l < j) /\ ~(j < l)
      BY <1>3
    <2> QED
      BY <1>2, <2>1
  <1> QED
    BY <1>2, <1>4, <1>5

LEMMA FollowedInMore ==
  ASSUME NEW out, NEW new, NEW n \in Int, Len(out) \in Nat, Len(new) \in Nat, Len(out) <= Len(new),
         n <= Len(out), \A s \in 1..Len(out) : s <= n + 1 => new[s] = out[s], AllFollowed(out, n)
  PROVE  AllFollowed(new, n)
  <1> SUFFICES ASSUME NEW p \in 1..n, Calling(new[p])
               PROVE  Followed(new, p)
    BY DEF AllFollowed
  <1>1. p \in 1..Len(out) /\ new[p] = out[p]
    OBVIOUS
  <1>2. Followed(out, p)
    BY <1>1 DEF AllFollowed
  <1>3. p + 1 \in 1..Len(out) /\ p + 1 <= n + 1
    BY <1>1, <1>2 DEF Followed
  <1>4. new[p + 1] = out[p + 1]
    BY <1>3
  <1> QED
    BY <1>1, <1>2, <1>3, <1>4 DEF Followed

(* A result comes when its call waits for it, and becomes part of the message after the call. *)
LEMMA ResultTaken ==
  ASSUME NEW in, ConvertCase(in), NEW i \in 0..(Len(in) - 1), NEW out \in Sendable(in),
         NEW j \in Pending(in, i), Open(in, out, i, j), NEW new, new = AddToClaude(out, in[i + 1])
  PROVE  LET p == CallAt(out, i - j)
             q == i + 1 - j IN
         /\ q \in DOMAIN in[j].calls /\ p \in 1..Len(new) /\ Len(new) = p + 1 /\ p \in Nat
         /\ new[p].blocks = Blocks(in[j])
         /\ new[p + 1].role = "user" /\ new[p + 1].blocks = [x \in 1..q |-> ResultBlock(in[j + x])]
         /\ AllFollowed(new, p - 1)
  <1> DEFINE k == i - j
             q == i + 1 - j
             p == CallAt(out, k)
             m == in[i + 1]
             r == ResultBlock(m)
             M == [role : {"system", "user", "assistant", "tool"}, text : BOOLEAN, blocks : Seq(Block(in))]
  <1>1. Conversation(in) /\ Len(in) \in Nat /\ DOMAIN in = 1..Len(in) /\ i \in 0..Len(in) /\ i \in Nat
    BY CaseIsConversation
  <1>2. j \in DOMAIN in /\ j \in 1..i /\ q \in DOMAIN in[j].calls
    BY <1>1, OnePending
  <1>3. k \in Nat /\ q \in Nat /\ q = k + 1 /\ j + q = i + 1
    <2>1. i \in Nat /\ j \in 1..i
      BY <1>1, <1>2
    <2> QED
      BY <2>1
  <1>4. i + 1 \in DOMAIN in /\ m.role = "tool"
    <2>1. in[j + q].role = "tool" /\ j + q \in DOMAIN in
      <3> HIDE DEF q
      <3> QED
        BY <1>2, CallsAndResults
    <2> QED
      BY <1>3, <2>1
  <1>5. r \in Block(in) /\ r.type = "tool_result"
    BY <1>1, <1>4, BlocksOf
  <1>6. out \in Seq(M) /\ Len(out) \in Nat /\ DOMAIN out = 1..Len(out)
    <2>1. out \in Seq(M)
      BY DEF Sendable
    <2> QED
      BY <2>1, LenProperties
  <1>7. p \in 1..Len(out) /\ out[p].blocks = Blocks(in[j]) /\ AllFollowed(out, p - 1) /\ out # <<>>
    BY <1>6, EmptySeq DEF Open
  <1>8. new = IF IsResults(out[Len(out)])
              THEN [out EXCEPT ![Len(out)].blocks = Append(@, r)]
              ELSE Append(out, [role |-> "user", text |-> FALSE, blocks |-> <<r>>])
    BY <1>4, <1>7 DEF AddToClaude
  <1> DEFINE one == [role |-> "user", text |-> FALSE, blocks |-> <<r>>]
  <1>9. ASSUME k = 0
        PROVE  /\ Len(new) = p + 1 /\ \A s \in 1..p : new[s] = out[s]
               /\ p = Len(out)
               /\ new[p + 1].role = "user" /\ new[p + 1].blocks = [x \in 1..q |-> ResultBlock(in[j + x])]
    <2>1. p = Len(out)
      BY <1>9 DEF CallAt
    <2>2. out[p].role = "assistant"
      BY <1>2, <1>9, <2>1 DEF Open
    <2>3. new = Append(out, one)
      BY <1>8, <2>1, <2>2 DEF IsResults
    <2>4. one \in M
      BY <1>5
    <2>5. one.role = "user" /\ one.blocks = [x \in 1..q |-> ResultBlock(in[j + x])]
      <3>1. j + 1 = i + 1 /\ q = 1
        BY <1>2, <1>3, <1>9
      <3> HIDE DEF q
      <3>2. <<r>> = [x \in 1..1 |-> ResultBlock(in[j + x])]
        BY <3>1
      <3> QED
        BY <3>1, <3>2
    <2> HIDE DEF one, M, p
    <2> QED
      BY <1>6, <2>1, <2>3, <2>4, <2>5, AppendProperties
  <1>10. ASSUME k # 0
         PROVE  /\ Len(new) = p + 1 /\ \A s \in 1..p : new[s] = out[s]
                /\ Len(out) = p + 1
                /\ new[p + 1].role = "user" /\ new[p + 1].blocks = [x \in 1..q |-> ResultBlock(in[j + x])]
    <2> DEFINE L == Len(out)
               had == [x \in 1..k |-> ResultBlock(in[j + x])]
               y == [out[L] EXCEPT !.blocks = Append(@, r)]
    <2>1. L = p + 1 /\ p \in Nat /\ L \in 1..L
      BY <1>6, <1>7, <1>10 DEF CallAt
    <2>2. i > j
      BY <1>2, <1>3, <1>10
    <2>3. out[L].role = "user" /\ out[L].blocks = had
      BY <2>2 DEF Open
    <2>4. had \in Seq(Block(in)) /\ Len(had) = k /\ k > 0 /\ had # <<>>
      <3>1. \A x \in 1..k : j + x \in DOMAIN in
        BY <1>1, <1>2, <1>4
      <3>2. \A x \in 1..k : ResultBlock(in[j + x]) \in Block(in)
        BY <1>1, <3>1, BlocksOf
      <3>3. had \in Seq(Block(in)) /\ Len(had) = k
        BY <1>3, <3>2, IsASeq
      <3>4. k > 0
        BY <1>3, <1>10
      <3> HIDE DEF had, k
      <3> QED
        BY <3>3, <3>4, EmptySeq
    <2>5. IsResults(out[L])
      <3>1. DOMAIN had = 1..k
        OBVIOUS
      <3>2. \A x \in 1..k : had[x].type = "tool_result"
        BY DEF ResultBlock
      <3> HIDE DEF had
      <3> QED
        BY <2>3, <2>4, <3>1, <3>2 DEF IsResults
    <2>6. new = [out EXCEPT ![L] = y]
      BY <1>8, <2>5
    <2>7. out[L] \in M
      BY <1>6, <2>1, ElementOfSeq
    <2>8. y.role = "user" /\ y.blocks = Append(had, r) /\ y \in M
      <3>1. Append(had, r) \in Seq(Block(in))
        BY <1>5, <2>4, AppendProperties
      <3> QED
        BY <2>3, <2>7, <3>1
    <2>9. Append(had, r) = [x \in 1..q |-> ResultBlock(in[j + x])]
      <3> DEFINE full == [x \in 1..q |-> ResultBlock(in[j + x])]
                 more == Append(had, r)
      <3>1. more \in Seq(Block(in)) /\ Len(more) = q /\ (\A x \in 1..k : more[x] = had[x]) /\ more[q] = r
        <4> HIDE DEF had
        <4>1. more \in Seq(Block(in)) /\ Len(more) = Len(had) + 1 /\ (\A x \in 1..Len(had) : more[x] = had[x])
              /\ more[Len(had) + 1] = r
          BY <1>5, <2>4, AppendProperties
        <4> QED
          BY <1>3, <2>4, <4>1
      <3> HIDE DEF more
      <3>2. DOMAIN more = 1..q /\ more = [x \in DOMAIN more |-> more[x]]
        BY <3>1, LenProperties
      <3>3. ASSUME NEW x \in 1..q
            PROVE  more[x] = ResultBlock(in[j + x])
        <4>1. CASE x = q
          BY <1>3, <3>1, <4>1
        <4>2. CASE x # q
          <5>1. x \in 1..k
            BY <1>3, <4>2
          <5> QED
            BY <3>1, <5>1
        <4> QED
          BY <4>1, <4>2
      <3> QED
        BY <3>2, <3>3 DEF more
    <2> HIDE DEF y, M, p, L
    <2>10. /\ Len(new) = L /\ new[L] = y
           /\ \A s \in 1..p : new[s] = out[s]
      <3>1. /\ Len(new) = Len(out)
            /\ \A s \in 1..Len(out) : new[s] = IF s = L THEN y ELSE out[s]
        BY <1>6, <2>1, <2>6, <2>8, ExceptSeq DEF L
      <3>2. \A s \in 1..p : s \in 1..Len(out) /\ s # L
        BY <1>6, <2>1 DEF L
      <3> QED
        BY <2>1, <3>1, <3>2 DEF L
    <2> QED
      BY <2>1, <2>8, <2>9, <2>10 DEF L
  <1>11. /\ Len(new) = p + 1 /\ \A s \in 1..p : new[s] = out[s]
         /\ Len(out) <= p + 1 /\ Len(out) <= Len(new) /\ p \in Nat /\ p \in 1..Len(new)
         /\ new[p + 1].role = "user" /\ new[p + 1].blocks = [x \in 1..q |-> ResultBlock(in[j + x])]
    <2>1. p \in Nat /\ p >= 1
      BY <1>6, <1>7
    <2> HIDE DEF p, q, k
    <2> QED
      BY <1>9, <1>10, <2>1
  <1>12. AllFollowed(new, p - 1)
    <2>1. \A s \in 1..Len(out) : s <= (p - 1) + 1 => new[s] = out[s]
      BY <1>11
    <2>2. p - 1 \in Int /\ p - 1 <= Len(out) /\ Len(new) \in Nat
      BY <1>6, <1>7, <1>11
    <2> HIDE DEF p
    <2> QED
      BY <1>6, <1>7, <1>11, <2>1, <2>2, FollowedInMore
  <1>13. new[p].blocks = Blocks(in[j])
    <2> HIDE DEF p
    <2>1. p \in 1..p
      BY <1>7, <1>11
    <2> QED
      BY <1>7, <1>11, <2>1
  <1> HIDE DEF q, k
  <1> QED
    BY <1>2, <1>11, <1>12, <1>13 DEF q, k

LEMMA ResultsInHand ==
  ASSUME NEW in, ConvertCase(in), NEW i \in 0..(Len(in) - 1), NEW out \in Sendable(in),
         Pending(in, i) # {}, InHand(in, out, i)
  PROVE  InHand(in, AddToClaude(out, in[i + 1]), i + 1)
  <1> DEFINE new == AddToClaude(out, in[i + 1])
  <1>1. Conversation(in) /\ Len(in) \in Nat /\ DOMAIN in = 1..Len(in) /\ i \in 0..Len(in) /\ i \in Nat
    BY CaseIsConversation
  <1>2. PICK j \in Pending(in, i) : Open(in, out, i, j)
    BY DEF InHand
  <1> DEFINE p == CallAt(out, i - j)
             q == i + 1 - j
  <1> HIDE DEF new
  <1>3. /\ q \in DOMAIN in[j].calls /\ p \in 1..Len(new) /\ Len(new) = p + 1 /\ p \in Nat
        /\ new[p].blocks = Blocks(in[j])
        /\ new[p + 1].role = "user" /\ new[p + 1].blocks = [x \in 1..q |-> ResultBlock(in[j + x])]
        /\ AllFollowed(new, p - 1)
    BY <1>2, ResultTaken DEF new
  <1>4. /\ j \in DOMAIN in /\ j \in 1..i /\ i + 1 \in DOMAIN in
        /\ \A l \in Pending(in, i) : l = j
    BY <1>1, OnePending
  <1>5. /\ Len(in[j].calls) \in Nat /\ DOMAIN in[j].calls = 1..Len(in[j].calls)
        /\ DOMAIN Blocks(in[j]) = DOMAIN in[j].calls
        /\ \A k \in DOMAIN in[j].calls : Blocks(in[j])[k].id = in[j].calls[k]
    BY <1>1, <1>4, BlocksOf
  <1>6. in[i + 1].calls = <<>>
    <2>1. in[j + q].calls = <<>>
      <3> HIDE DEF q
      <3> QED
        BY <1>3, <1>4, CallsAndResults
    <2>2. j + q = i + 1
      BY <1>4
    <2> QED
      BY <2>1, <2>2
  <1>7. \A l \in Pending(in, i + 1) : l = j
    <2> SUFFICES ASSUME NEW l \in Pending(in, i + 1)
                 PROVE  l = j
      OBVIOUS
    <2>1. l \in 1..(i + 1) /\ i + 1 - l < Len(in[l].calls)
      BY DEF Pending
    <2>2. l # i + 1
      <3>1. Len(<<>>) = 0
        BY EmptySeq
      <3> QED
        BY <1>1, <1>6, <2>1, <3>1
    <2>3. l \in DOMAIN in /\ l \in 1..i
      BY <1>1, <2>1, <2>2
    <2>4. Len(in[l].calls) \in Nat
      BY <1>1, <2>3, BlocksOf
    <2>5. l \in Pending(in, i)
      BY <1>1, <2>1, <2>3, <2>4 DEF Pending
    <2> QED
      BY <1>4, <2>5
  <1>8. Open(in, new, i + 1, j)
    <2> DEFINE e == i + 1
    <2>1. e - j # 0 /\ CallAt(new, e - j) = p /\ e # j /\ q = e - j
      BY <1>3, <1>4 DEF CallAt
    <2> HIDE DEF e, p, q
    <2>2. new[Len(new)].role = "user" /\ new[Len(new)].blocks = [x \in 1..(e - j) |-> ResultBlock(in[j + x])]
      BY <1>3, <2>1
    <2>3. Open(in, new, e, j)
      BY <1>3, <2>1, <2>2 DEF Open
    <2> QED
      BY <2>3 DEF e
  <1>9. ASSUME Pending(in, i + 1) = {}
        PROVE  AllFollowed(new, Len(new))
    <2>1. q = Len(in[j].calls) /\ q \in Nat /\ q >= 1
      <3>1. j \in 1..(i + 1)
        BY <1>4
      <3>2. ~(i + 1 - j < Len(in[j].calls))
        BY <1>9, <3>1 DEF Pending
      <3> QED
        BY <1>3, <1>5, <3>2
    <2> DEFINE got == [x \in 1..q |-> ResultBlock(in[j + x])]
    <2>2. ASSUME NEW x \in 1..q
          PROVE  got[x].type = "tool_result" /\ got[x].id = Blocks(in[j])[x].id
      <3>1. x \in DOMAIN in[j].calls
        BY <1>5, <2>1
      <3>2. in[j + x].answers = in[j].calls[x]
        <4> HIDE DEF q
        <4> QED
          BY <1>4, <3>1, CallsAndResults
      <3> QED
        BY <1>5, <3>1, <3>2 DEF ResultBlock
    <2>3. DOMAIN got = 1..q /\ 1 \in 1..q
      BY <2>1
    <2> HIDE DEF got, q
    <2>4. got # <<>>
      <3>1. DOMAIN <<>> = {}
        OBVIOUS
      <3> QED
        BY <2>3, <3>1
    <2>5. IsResults(new[p + 1])
      <3>1. new[p + 1].role = "user" /\ new[p + 1].blocks = got
        BY <1>3 DEF got
      <3> QED
        BY <2>2, <2>3, <2>4, <3>1 DEF IsResults
    <2>6. BlockIds(new[p + 1].blocks) = BlockIds(new[p].blocks)
      <3>1. new[p + 1].blocks = got /\ new[p].blocks = Blocks(in[j])
        BY <1>3 DEF got
      <3>2. DOMAIN Blocks(in[j]) = 1..q
        BY <1>5, <2>1
      <3> QED
        BY <2>2, <2>3, <3>1, <3>2 DEF BlockIds
    <2>7. Followed(new, p)
      <3> HIDE DEF p
      <3> QED
        BY <1>3, <2>5, <2>6 DEF Followed
    <2> SUFFICES ASSUME NEW s \in 1..Len(new), Calling(new[s])
                 PROVE  Followed(new, s)
      BY DEF AllFollowed
    <2> HIDE DEF p
    <2>8. s \in 1..(p - 1) \/ s = p \/ s = p + 1
      BY <1>3
    <2>9. s # p + 1
      BY <1>3 DEF Calling
    <2> QED
      BY <1>3, <2>7, <2>8, <2>9 DEF AllFollowed
  <1> QED
    BY <1>7, <1>8, <1>9 DEF InHand, new

LEMMA OthersInHand ==
  ASSUME NEW in, ConvertCase(in), NEW i \in 0..(Len(in) - 1), NEW out \in Sendable(in),
         Pending(in, i) = {}, InHand(in, out, i)
  PROVE  InHand(in, AddToClaude(out, in[i + 1]), i + 1)
  <1> DEFINE new == AddToClaude(out, in[i + 1])
             m == in[i + 1]
             x == [role |-> m.role, text |-> m.text, blocks |-> Blocks(m)]
             M == [role : {"system", "user", "assistant", "tool"}, text : BOOLEAN, blocks : Seq(Block(in))]
  <1>1. /\ Conversation(in) /\ Len(in) \in Nat /\ DOMAIN in = 1..Len(in) /\ i \in 0..Len(in) /\ i \in Nat
        /\ i + 1 \in DOMAIN in
    BY CaseIsConversation
  <1>2. AllFollowed(out, Len(out))
    BY DEF InHand
  <1>3. out \in Seq(M) /\ Len(out) \in Nat /\ DOMAIN out = 1..Len(out)
    <2>1. out \in Seq(M)
      BY DEF Sendable
    <2> QED
      BY <2>1, LenProperties
  <1>4. m.role # "tool"
    <2>1. ASSUME m.role = "tool"
          PROVE  FALSE
      <3>1. PICK j \in 1..((i + 1) - 1) : (i + 1) - j \in DOMAIN in[j].calls
        BY <1>1, <2>1 DEF ConvertCase
      <3>2. j \in 1..i /\ j \in DOMAIN in
        BY <1>1, <3>1
      <3>3. Len(in[j].calls) \in Nat /\ DOMAIN in[j].calls = 1..Len(in[j].calls)
        BY <1>1, <3>2, BlocksOf
      <3>4. i - j < Len(in[j].calls)
        BY <1>1, <3>1, <3>2, <3>3
      <3> QED
        BY <3>2, <3>4 DEF Pending
    <2> QED
      BY <2>1
  <1>5. /\ Blocks(m) \in Seq(Block(in)) /\ (Blocks(m) = <<>> <=> m.calls = <<>>)
        /\ Len(m.calls) \in Nat /\ IsMessage(m) /\ IsSeq(m.calls)
    <2>1. IsMessage(m)
      BY <1>1 DEF Conversation
    <2> HIDE DEF m
    <2>2. IsSeq(m.calls)
      BY <2>1 DEF IsMessage
    <2> QED
      BY <1>1, <2>1, <2>2, BlocksOf DEF m
  <1>6. x \in M
    BY <1>5 DEF IsMessage
  <1>7. new = out \/ new = Append(out, x)
    BY <1>4 DEF AddToClaude
  <1>8. m.calls # <<>> => new = Append(out, x) /\ m.role = "assistant"
    <2>1. m.calls # <<>> => m.role = "assistant"
      BY <1>1 DEF ConvertCase
    <2> QED
      BY <1>4, <2>1 DEF AddToClaude
  <1>9. \A l \in Pending(in, i + 1) : l = i + 1
    <2> SUFFICES ASSUME NEW l \in Pending(in, i + 1), l # i + 1
                 PROVE  FALSE
      OBVIOUS
    <2>1. l \in 1..i /\ i + 1 - l < Len(in[l].calls) /\ l \in DOMAIN in
      BY <1>1 DEF Pending
    <2>2. Len(in[l].calls) \in Nat
      BY <1>1, <2>1, BlocksOf
    <2>3. l \in Pending(in, i)
      BY <1>1, <2>1, <2>2 DEF Pending
    <2> QED
      BY <2>3
  <1>10. i + 1 \in Pending(in, i + 1) <=> m.calls # <<>>
    <2>1. i + 1 \in Pending(in, i + 1) <=> 0 < Len(m.calls)
      <3>1. i + 1 \in 1..(i + 1) /\ (i + 1) - (i + 1) = 0
        BY <1>1
      <3> QED
        BY <3>1 DEF Pending
    <2> HIDE DEF m
    <2>2. m.calls = <<>> <=> Len(m.calls) = 0
      BY <1>5, SeqOfItself
    <2> QED
      BY <1>5, <2>1, <2>2
  <1> HIDE DEF new, x, M
  <1>11. ASSUME new = Append(out, x)
         PROVE  Len(new) = Len(out) + 1 /\ new[Len(new)] = x /\ AllFollowed(new, Len(new) - 1)
    <2>1. Len(new) = Len(out) + 1 /\ new[Len(new)] = x /\ \A s \in 1..Len(out) : new[s] = out[s]
      BY <1>3, <1>6, <1>11, AppendProperties
    <2>2. Len(new) - 1 = Len(out) /\ Len(out) \in Int /\ Len(out) <= Len(new) /\ Len(new) \in Nat
      BY <1>3, <2>1
    <2>3. AllFollowed(new, Len(out))
      BY <1>2, <1>3, <2>1, <2>2, FollowedInMore
    <2> QED
      BY <2>1, <2>2, <2>3
  <1>12. CASE m.calls = <<>>
    <2>1. Pending(in, i + 1) = {}
      BY <1>9, <1>10, <1>12
    <2>2. CASE new = out
      BY <1>2, <2>1, <2>2 DEF InHand, new
    <2>3. CASE new = Append(out, x)
      <3>1. ~Calling(x)
        BY <1>5, <1>12 DEF Calling, x
      <3>2. AllFollowed(new, Len(new))
        <4> SUFFICES ASSUME NEW s \in 1..Len(new), Calling(new[s])
                     PROVE  Followed(new, s)
          BY DEF AllFollowed
        <4>1. s # Len(new)
          BY <1>11, <2>3, <3>1
        <4>2. s \in 1..(Len(new) - 1)
          BY <1>3, <1>11, <2>3, <4>1
        <4> QED
          BY <1>11, <2>3, <4>2 DEF AllFollowed
      <3> QED
        BY <2>1, <3>2 DEF InHand, new
    <2> QED
      BY <1>7, <2>2, <2>3
  <1>13. CASE m.calls # <<>>
    <2>1. new = Append(out, x) /\ m.role = "assistant"
      BY <1>8, <1>13
    <2>2. x.role = "assistant" /\ x.blocks = Blocks(m)
      BY <2>1 DEF x
    <2>3. (i + 1) - (i + 1) = 0 /\ CallAt(new, 0) = Len(new) /\ ~(i + 1 > i + 1) /\ Len(new) \in 1..Len(new)
      BY <1>1, <1>3, <1>11, <2>1 DEF CallAt
    <2>4. Open(in, new, i + 1, i + 1)
      BY <1>11, <2>1, <2>2, <2>3 DEF Open
    <2>5. i + 1 \in Pending(in, i + 1)
      BY <1>10, <1>13
    <2> QED
      BY <1>9, <2>4, <2>5 DEF InHand, new
  <1> QED
    BY <1>12, <1>13

(* In what is sent to Claude, the message after one that calls tools has their results, in the calls' order *)
(* (split_messages). *)
THEOREM ClaudeKeepsResults ==
  ASSUME NEW in, ConvertCase(in)
  PROVE  AllFollowed(ToClaude(in), Len(ToClaude(in))) /\ ToClaude(in) \in Sendable(in)
  <1> DEFINE n == Len(in)
  <1>1. Conversation(in) /\ n \in Nat /\ DOMAIN in = 1..n
    BY CaseIsConversation
  <1>2. PICK w \in [0..n -> Sendable(in)] :
          /\ w[0] = <<>>
          /\ \A i \in 1..n : w[i] = AddToClaude(w[i - 1], in[i])
          /\ ToClaude(in) = w[n]
    BY <1>1, ClaudeSteps
  <1> DEFINE G == {i \in 0..n : InHand(in, w[i], i)}
  <1>3. 0 \in G
    <2>1. Pending(in, 0) = {}
      BY DEF Pending
    <2>2. AllFollowed(<<>>, Len(<<>>))
      BY DEF AllFollowed
    <2> QED
      BY <1>1, <1>2, <2>1, <2>2 DEF InHand
  <1>4. ASSUME NEW i \in 0..(n - 1), i \in G
        PROVE  i + 1 \in G
    <2>1. i \in 0..(n - 1) /\ i \in 0..n /\ i + 1 \in 0..n /\ i + 1 \in 1..n /\ (i + 1) - 1 = i
      BY <1>1
    <2>2. w[i] \in Sendable(in) /\ InHand(in, w[i], i) /\ w[i + 1] = AddToClaude(w[i], in[i + 1])
      BY <1>2, <1>4, <2>1
    <2>3. InHand(in, AddToClaude(w[i], in[i + 1]), i + 1)
      BY <2>2, ResultsInHand, OthersInHand
    <2> QED
      BY <2>1, <2>2, <2>3
  <1>5. n \in G
    <2>1. n \in 0..n
      BY <1>1
    <2> HIDE DEF G, n
    <2> QED
      BY <1>1, <1>3, <1>4, <2>1, UpTo
  <1>6. Pending(in, n) = {}
    <2>1. n \in 0..Len(in) /\ n + 1 \notin DOMAIN in
      BY <1>1
    <2> QED
      BY <2>1, OnePending
  <1>7. n \in 0..n
    BY <1>1
  <1> QED
    BY <1>2, <1>5, <1>6, <1>7 DEF InHand

(* In what is sent to DeepSeek, the k-th message after one that calls tools has the result of its k-th call *)
(* (_to_openai_msg). *)
THEOREM OpenAIKeepsResults ==
  ASSUME NEW in, ConvertCase(in), NEW i \in DOMAIN ToOpenAI(in), Calling(ToOpenAI(in)[i]),
         NEW k \in DOMAIN ToOpenAI(in)[i].blocks
  PROVE  /\ ToOpenAI(in)[i + k].role = "tool"
         /\ ToOpenAI(in)[i + k].blocks[1].id = ToOpenAI(in)[i].blocks[k].id
  <1>1. Conversation(in) /\ DOMAIN in = 1..Len(in) /\ i \in DOMAIN in
    BY CaseIsConversation DEF ToOpenAI
  <1>2. in[i].role # "tool" /\ ToOpenAI(in)[i].blocks = Blocks(in[i])
    BY <1>1 DEF ToOpenAI, Calling
  <1>3. k \in DOMAIN in[i].calls /\ Blocks(in[i])[k].id = in[i].calls[k]
    BY <1>1, <1>2, BlocksOf
  <1>4. i + k \in DOMAIN in /\ in[i + k].role = "tool" /\ in[i + k].answers = in[i].calls[k]
    BY <1>1, <1>3, CallsAndResults
  <1>5. ToOpenAI(in)[i + k].role = "tool" /\ ToOpenAI(in)[i + k].blocks = <<ResultBlock(in[i + k])>>
    BY <1>4 DEF ToOpenAI
  <1> QED
    BY <1>2, <1>3, <1>4, <1>5 DEF ResultBlock

(* What comes at once after a message that is chosen, and is chosen too, comes at once after it in the choice. *)
After(pos, i, l, n) == i + l \in 1..n /\ pos[i + l] = pos[i] + l
AllNext(K, a, L) == \A k \in 1..L : a + k \in K

LEMMA StayTogether ==
  ASSUME NEW s, NEW K, K \subseteq Nat, NEW pos, NEW got, Len(got) \in Nat, Picks(s, K, pos, got),
         NEW i \in 1..Len(got), NEW L \in Nat, AllNext(K, pos[i], L), NEW l \in 0..L
  PROVE  After(pos, i, l, Len(got))
  <1> DEFINE n == Len(got)
  <1> DEFINE G == {k \in 0..L : i + k \in 1..n /\ pos[i + k] = pos[i] + k}
  <1>0. /\ pos \in [1..n -> K] /\ \A a, b \in 1..n : pos[a] < pos[b] <=> a < b
        /\ \A k \in K : \E a \in 1..n : pos[a] = k
    BY DEF Picks
  <1>a. \A a \in 1..n : pos[a] \in Nat
    <2>1. \A a \in 1..n : pos[a] \in K
      BY <1>0
    <2> QED
      BY <2>1
  <1>1. 0 \in G
    <2>1. i + 0 = i /\ pos[i] + 0 = pos[i] /\ 0 \in 0..L
      BY <1>a
    <2> QED
      BY <2>1
  <1>2. ASSUME NEW k \in 0..(L - 1), k \in G
        PROVE  k + 1 \in G
    <2> DEFINE a == i + k
    <2>1. k \in Nat /\ k + 1 \in 1..L /\ a \in 1..n /\ pos[a] = pos[i] + k /\ pos[i] \in Nat /\ i + (k + 1) = a + 1
      BY <1>a, <1>2
    <2>2. PICK b \in 1..n : pos[b] = pos[i] + (k + 1)
      BY <1>0, <2>1 DEF AllNext
    <2> HIDE DEF a
    <2>3. pos[b] = pos[a] + 1 /\ pos[a] \in Nat
      <3>1. pos[a] \in Nat /\ pos[a] = pos[i] + k /\ k \in Nat /\ pos[i] \in Nat
        BY <1>a, <2>1
      <3> QED
        BY <2>2, <3>1
    <2>4. a < b
      <3>1. pos[a] < pos[b]
        BY <2>3
      <3> QED
        BY <1>0, <2>1, <3>1
    <2>5. a + 1 \in 1..n
      BY <2>1, <2>4
    <2>6. pos[a] < pos[a + 1] /\ pos[a + 1] \in Nat
      <3>1. a < a + 1
        BY <2>1
      <3> QED
        BY <1>a, <1>0, <2>1, <2>5, <3>1
    <2>7. ~(pos[a + 1] < pos[b]) => a + 1 = b
      <3>1. pos[a + 1] < pos[b] <=> a + 1 < b
        BY <1>0, <2>5
      <3> QED
        BY <2>1, <2>4, <3>1
    <2>8. pos[a + 1] = pos[b]
      BY <2>3, <2>6, <2>7
    <2> QED
      BY <2>1, <2>2, <2>5, <2>8
  <1>3. \A k \in 0..L : k \in G
    <2> HIDE DEF G
    <2> QED
      BY <1>1, <1>2, UpTo
  <1> QED
    BY <1>3 DEF After

(* The positions of the messages that are turns. *)
TurnAt(in) == {i \in DOMAIN in : in[i].role # "system" /\ (in[i].text \/ in[i].calls # <<>> \/ in[i].role = "tool")}

LEMMA TurnsOf ==
  ASSUME NEW in, ConvertCase(in)
  PROVE  /\ TurnAt(in) \in SUBSET Nat /\ TurnAt(in) \in SUBSET (DOMAIN in)
         /\ Len(Turns(in)) \in Nat /\ DOMAIN Turns(in) = 1..Len(Turns(in))
         /\ Picks(in, TurnAt(in), Ascending(TurnAt(in)), Turns(in))
  <1>1. in \in Seq(Range(in)) /\ DOMAIN in = 1..Len(in) /\ Len(in) \in Nat
    BY CaseIsConversation, SeqOfItself DEF ConvertCase
  <1>2. Turns(in) = Selected(in, TurnAt(in))
    BY DEF Turns, TurnAt
  <1>3. TurnAt(in) \in SUBSET (DOMAIN in) /\ TurnAt(in) \in SUBSET Nat
    BY <1>1 DEF TurnAt
  <1>4. Selected(in, TurnAt(in)) \in Seq(Range(in)) /\ Picks(in, TurnAt(in), Ascending(TurnAt(in)), Selected(in, TurnAt(in)))
    BY <1>1, <1>3, Selection
  <1> QED
    BY <1>2, <1>3, <1>4, LenProperties

(* In what is sent to Gemini, a message that calls tools is followed by as many messages with results *)
(* (_split_messages). *)
THEOREM GeminiKeepsResults ==
  ASSUME NEW in, ConvertCase(in), NEW i \in DOMAIN ToGemini(in), Calling(ToGemini(in)[i]),
         NEW k \in DOMAIN ToGemini(in)[i].blocks
  PROVE  IsResults(ToGemini(in)[i + k])
  <1> DEFINE K == TurnAt(in)
             pos == Ascending(K)
             got == Turns(in)
             n == Len(got)
  <1>1. /\ Conversation(in) /\ K \in SUBSET Nat /\ K \in SUBSET (DOMAIN in)
        /\ n \in Nat /\ DOMAIN got = 1..n /\ Picks(in, K, pos, got)
    BY CaseIsConversation, TurnsOf
  <1>2. /\ DOMAIN ToGemini(in) = 1..n
        /\ \A a \in 1..n : /\ ToGemini(in)[a].role = IF got[a].role = "assistant" THEN "model" ELSE "user"
                           /\ ToGemini(in)[a].blocks = IF got[a].role = "tool" THEN <<ResultBlock(got[a])>> ELSE Blocks(got[a])
    BY <1>1 DEF ToGemini
  <1> HIDE DEF K, pos, got
  <1>3. i \in 1..n /\ got[i].role = "assistant" /\ ToGemini(in)[i].blocks = Blocks(got[i])
    BY <1>2 DEF Calling
  <1> DEFINE j == pos[i]
             L == Len(in[j].calls)
  <1>4. got[i] = in[j] /\ j \in DOMAIN in /\ j \in Nat
    BY <1>1, <1>3 DEF Picks
  <1>5. k \in DOMAIN in[j].calls /\ DOMAIN in[j].calls = 1..L /\ L \in Nat
    BY <1>1, <1>3, <1>4, BlocksOf
  <1> HIDE DEF j
  <1>6. AllNext(K, j, L)
    <2> SUFFICES ASSUME NEW l \in 1..L
                 PROVE  j + l \in K
      BY DEF AllNext
    <2>1. j + l \in DOMAIN in /\ in[j + l].role = "tool"
      BY <1>4, <1>5, CallsAndResults
    <2> QED
      BY <2>1 DEF K, TurnAt
  <1>7. i + k \in 1..n /\ pos[i + k] = j + k
    <2>1. AllNext(K, pos[i], L) /\ K \subseteq Nat
      BY <1>1, <1>6 DEF j
    <2>2. k \in 0..L
      BY <1>5
    <2> HIDE DEF L
    <2>3. After(pos, i, k, n)
      BY <1>1, <1>3, <1>5, <2>1, <2>2, StayTogether
    <2> QED
      BY <2>3 DEF j, After
  <1>8. got[i + k] = in[j + k] /\ in[j + k].role = "tool"
    <2>1. got[i + k] = in[pos[i + k]]
      BY <1>1, <1>7 DEF Picks
    <2>2. in[j + k].role = "tool"
      BY <1>4, <1>5, CallsAndResults
    <2> QED
      BY <1>7, <2>1, <2>2
  <1>9. ToGemini(in)[i + k].role = "user" /\ ToGemini(in)[i + k].blocks = <<ResultBlock(in[j + k])>>
    BY <1>2, <1>7, <1>8
  <1>10. ResultBlock(in[j + k]).type = "tool_result"
    BY DEF ResultBlock
  <1> QED
    BY <1>9, <1>10 DEF IsResults

(* The transcript for claude_code has one result for each message that has one (render_prompt). *)
THEOREM TranscriptKeepsResults ==
  ASSUME NEW in, ConvertCase(in)
  PROVE  Cardinality({i \in DOMAIN ToTranscript(in) : ToTranscript(in)[i] = "tool_result"})
           = Cardinality({i \in DOMAIN in : in[i].role = "tool"})
  <1> DEFINE K == TurnAt(in)
             pos == Ascending(K)
             got == Turns(in)
             n == Len(got)
             A == {i \in DOMAIN ToTranscript(in) : ToTranscript(in)[i] = "tool_result"}
             B == {i \in DOMAIN in : in[i].role = "tool"}
             f == [i \in A |-> pos[i]]
  <1>1. Conversation(in) /\ K \in SUBSET (DOMAIN in) /\ n \in Nat /\ DOMAIN got = 1..n /\ Picks(in, K, pos, got)
    BY CaseIsConversation, TurnsOf
  <1>2. /\ DOMAIN ToTranscript(in) = 1..n
        /\ \A i \in 1..n : ToTranscript(in)[i] = IF got[i].role = "tool" THEN "tool_result" ELSE got[i].role
    BY <1>1 DEF ToTranscript
  <1> HIDE DEF K, pos, got
  <1>3. \A i \in 1..n : got[i] = in[pos[i]] /\ pos[i] \in DOMAIN in
    BY <1>1 DEF Picks
  <1>4. \A i \in DOMAIN in : in[i].role # "tool_result"
    BY <1>1 DEF Conversation, IsMessage
  <1>5. \A i \in 1..n : i \in A <=> pos[i] \in B
    BY <1>2, <1>3, <1>4
  <1>6. f \in [A -> B]
    BY <1>2, <1>5
  <1>7. ASSUME NEW b \in B
        PROVE  \E i \in A : f[i] = b
    <2>1. b \in K
      BY DEF K, TurnAt
    <2>2. PICK i \in 1..n : pos[i] = b
      BY <1>1, <2>1 DEF Picks
    <2>3. i \in A
      BY <1>5, <2>2
    <2> QED
      BY <2>2, <2>3
  <1>8. \A i, j \in A : f[i] = f[j] => i = j
    BY <1>1, <1>2 DEF Picks
  <1>9. IsFiniteSet(A)
    <2>1. 1 \in Int /\ n \in Int
      BY <1>1
    <2>2. IsFiniteSet(1..n)
      BY <2>1, FS_Interval
    <2> QED
      BY <1>2, <2>2, FS_Subset
  <1> HIDE DEF A, B, f
  <1>10. f \in Bijection(A, B)
    BY <1>6, <1>7, <1>8 DEF Bijection, Injection, Surjection, IsInjective
  <1>11. Cardinality(A) = Cardinality(B)
    BY <1>9, <1>10, FS_Bijection DEF ExistsBijection
  <1> QED
    BY <1>11 DEF A, B

-----------------------------------------------------------------------------
(* Replies.                                                                *)
LEMMA OneMessage ==
  ASSUME NEW m, IsMessage(m), m.role = "assistant", m.calls # <<>>
  PROVE  /\ ToClaude(<<m>>)[1].blocks = Blocks(m)
         /\ ToGemini(<<m>>)[1].blocks = Blocks(m)
         /\ ToOpenAI(<<m>>)[1].blocks = Blocks(m)
  <1> DEFINE in == <<m>>
  <1>1. DOMAIN in = 1..1 /\ Len(in) = 1 /\ in[1] = m /\ in \in Seq({m})
    OBVIOUS
  <1>2. Range(in) = {m}
    BY <1>1 DEF Range
  <1>3. IsSeq(in) /\ Conversation(in)
    BY <1>1, <1>2 DEF IsSeq, Conversation
  <1>4. ToClaude(in)[1].blocks = Blocks(m)
    <2>1. PICK w \in [0..Len(in) -> Sendable(in)] :
            /\ w[0] = <<>>
            /\ \A i \in 1..Len(in) : w[i] = AddToClaude(w[i - 1], in[i])
            /\ ToClaude(in) = w[Len(in)]
      <3> HIDE DEF in
      <3> QED
        BY <1>3, ClaudeSteps
    <2>2. ToClaude(in) = AddToClaude(<<>>, m)
      <3>1. 1 - 1 = 0 /\ 1 \in 1..1
        OBVIOUS
      <3>2. w[1] = AddToClaude(w[1 - 1], in[1])
        BY <1>1, <2>1, <3>1
      <3> HIDE DEF in
      <3> QED
        BY <1>1, <2>1, <3>1, <3>2
    <2>3. AddToClaude(<<>>, m) = <<[role |-> m.role, text |-> m.text, blocks |-> Blocks(m)]>>
      BY DEF AddToClaude
    <2> QED
      BY <2>2, <2>3
  <1>5. ToGemini(in)[1].blocks = Blocks(m)
    <2> DEFINE K == {i \in DOMAIN in : in[i].role # "system" /\ (in[i].text \/ in[i].calls # <<>> \/ in[i].role = "tool")}
               got == Turns(in)
    <2>1. K = {1}
      BY <1>1
    <2>2. got = Selected(in, K)
      BY DEF Turns
    <2> HIDE DEF K, in
    <2>3. K \in SUBSET (DOMAIN in)
      BY <1>1, <2>1
    <2>4. got \in Seq({m}) /\ Len(got) = Cardinality(K)
      BY <1>1, <2>2, <2>3, Selection
    <2>5. Cardinality(K) = 1
      BY <2>1, FS_Singleton
    <2> HIDE DEF got
    <2>a. Len(got) = 1
      BY <2>4, <2>5
    <2>b. DOMAIN got = 1..1
      BY <2>4, <2>a, LenProperties
    <2>6. DOMAIN got = 1..1 /\ got[1] = m
      <3>1. 1 \in 1..1
        OBVIOUS
      <3>2. got[1] \in {m}
        BY <2>4, <2>a, <3>1, ElementOfSeq
      <3> QED
        BY <2>b, <3>2
    <2>7. 1 \in DOMAIN got /\ got[1].role # "tool"
      BY <2>6
    <2> QED
      BY <2>6, <2>7 DEF ToGemini, got
  <1>6. ToOpenAI(in)[1].blocks = Blocks(m)
    BY <1>1 DEF ToOpenAI
  <1> QED
    BY <1>4, <1>5, <1>6

(* The calls of a reply, and what the next request to its provider has of them (parse_response, _parse_chat; *)
(* split_messages, _split_messages, _to_openai_msg). *)
THEOREM CallsComeBack ==
  ASSUME NEW in, ReplyCase(in)
  PROVE  LET got == Parse(in.provider, in.reply)
             next == <<[role |-> "assistant", text |-> got.text, calls |-> got.calls, answers |-> <<>>]>>
             Sent == CASE in.provider = "claude"   -> ToClaude(next)
                       [] in.provider = "gemini"   -> ToGemini(next)
                       [] in.provider = "deepseek" -> ToOpenAI(next)
                       [] OTHER -> <<>> IN
         /\ got.calls # <<>> =>
              /\ got.calls = in.reply.calls
              /\ [i \in DOMAIN got.calls |-> Sent[1].blocks[i].id] = in.reply.calls
              /\ ~in.reply.refused /\ "tools" \in Capabilities(in.provider, "chat")
         /\ ~got.ok => ~in.reply.chosen
  <1> DEFINE got == Parse(in.provider, in.reply)
             m == [role |-> "assistant", text |-> got.text, calls |-> got.calls, answers |-> <<>>]
             Sent == CASE in.provider = "claude"   -> ToClaude(<<m>>)
                       [] in.provider = "gemini"   -> ToGemini(<<m>>)
                       [] in.provider = "deepseek" -> ToOpenAI(<<m>>)
                       [] OTHER -> <<>>
  <1>1. /\ in.provider \in {"claude", "claude_code", "gemini", "deepseek"}
        /\ in.reply.text \in BOOLEAN /\ IsSeq(in.reply.calls)
        /\ in.reply.refused \in BOOLEAN /\ in.reply.chosen \in BOOLEAN
        /\ in.reply.refused => in.provider = "claude"
    BY DEF ReplyCase, Providers
  <1>2. got.text \in BOOLEAN /\ (~got.ok => ~in.reply.chosen)
    BY <1>1 DEF Parse, ParseClaude, ParseGemini, ParseDeepSeek, ParseCli, Result, Failed
  <1>3. ASSUME got.calls # <<>>
        PROVE  got.calls = in.reply.calls /\ ~in.reply.refused /\ in.provider \in {"claude", "gemini", "deepseek"}
    BY <1>1, <1>3 DEF Parse, ParseClaude, ParseGemini, ParseDeepSeek, ParseCli, Result, Failed
  <1>4. in.provider \in {"claude", "gemini", "deepseek"} => "tools" \in Capabilities(in.provider, "chat")
    BY DEF Capabilities
  <1>5. ASSUME got.calls # <<>>
        PROVE  [i \in DOMAIN got.calls |-> Sent[1].blocks[i].id] = in.reply.calls
    <2> HIDE DEF got
    <2>1. m.role = "assistant" /\ m.calls = got.calls /\ m.text = got.text /\ m.calls # <<>>
      BY <1>5
    <2> HIDE DEF m
    <2>2. IsMessage(m)
      BY <1>1, <1>2, <1>3, <1>5, <2>1 DEF IsMessage
    <2>3. Sent[1].blocks = Blocks(m)
      BY <1>3, <1>5, <2>1, <2>2, OneMessage
    <2>4. \A i \in DOMAIN m.calls : Blocks(m)[i].id = m.calls[i]
      BY DEF Blocks
    <2>5. [i \in DOMAIN got.calls |-> Sent[1].blocks[i].id] = [i \in DOMAIN got.calls |-> got.calls[i]]
      BY <2>1, <2>3, <2>4
    <2>6. in.reply.calls \in Seq(Range(in.reply.calls))
      BY <1>1 DEF IsSeq
    <2>7. in.reply.calls = [i \in DOMAIN in.reply.calls |-> in.reply.calls[i]]
      <3> DEFINE c == in.reply.calls
                 R == Range(c)
                 n == Len(c)
      <3>1. n \in Nat /\ c \in [1..n -> R] /\ DOMAIN c = 1..n
        <4> HIDE DEF c, R
        <4>1. c \in Seq(R)
          BY <2>6 DEF c, R
        <4> QED
          BY <4>1, LenProperties
      <3> HIDE DEF c, R, n
      <3>2. c = [i \in DOMAIN c |-> c[i]]
        BY <3>1
      <3> QED
        BY <3>2 DEF c
    <2> QED
      BY <1>3, <1>5, <2>5, <2>7
  <1> QED
    BY <1>2, <1>3, <1>4, <1>5

(* A request to a provider is made again only while it may help (_with_retry). *)
THEOREM RequestsAreSpent ==
  ASSUME NEW in, RetryCase(in)
  PROVE  LET got == WithRetry([i \in DOMAIN in.events |-> Outcome(in.provider, in.events[i])]) IN
         /\ got.attempts \in 1..MaxRetries
         /\ \A i \in 1..(got.attempts - 1) : Outcome(in.provider, in.events[i]) \in {"retryable", "network"}
         /\ got.last \in {"retryable", "network"} => got.attempts = MaxRetries
  <1> DEFINE outcomes == [i \in DOMAIN in.events |-> Outcome(in.provider, in.events[i])]
             got == WithRetry(outcomes)
  <1>1. DOMAIN outcomes = 1..MaxRetries
    BY DEF RetryCase
  <1>2. \A i \in 1..MaxRetries : outcomes[i] = Outcome(in.provider, in.events[i])
    BY <1>1
  <1> HIDE DEF outcomes
  <1>3. /\ got.attempts \in 1..MaxRetries
        /\ \A i \in 1..(got.attempts - 1) : outcomes[i] \in {"retryable", "network"}
        /\ got.last \in {"retryable", "network"} => got.attempts = MaxRetries
    BY <1>1, AttemptsAreBounded DEF Retryable
  <1> HIDE DEF got
  <1>4. \A i \in 1..(got.attempts - 1) : i \in 1..MaxRetries
    BY <1>3, LLMCallsAssumption
  <1>5. \A i \in 1..(got.attempts - 1) : Outcome(in.provider, in.events[i]) \in {"retryable", "network"}
    BY <1>2, <1>3, <1>4
  <1> QED
    BY <1>3, <1>5 DEF got, outcomes

-----------------------------------------------------------------------------
(* What a tool shows.                                                      *)
LEMMA OfTwo ==
  ASSUME NEW a \in Int, NEW b \in Int
  PROVE  /\ Min({a, b}) \in {a, b} /\ Min({a, b}) <= a /\ Min({a, b}) <= b
         /\ Max({a, b}) \in {a, b} /\ Max({a, b}) >= a /\ Max({a, b}) >= b
  <1>1. \E x \in {a, b} : \A y \in {a, b} : x <= y
    <2>1. CASE a <= b
      BY <2>1
    <2>2. CASE b <= a
      BY <2>2
    <2> QED
      BY <2>1, <2>2
  <1>2. \E x \in {a, b} : \A y \in {a, b} : x >= y
    <2>1. CASE a <= b
      BY <2>1
    <2>2. CASE b <= a
      BY <2>2
    <2> QED
      BY <2>1, <2>2
  <1>3. Min({a, b}) \in {a, b} /\ \A y \in {a, b} : Min({a, b}) <= y
    BY <1>1 DEF Min
  <1>4. Max({a, b}) \in {a, b} /\ \A y \in {a, b} : Max({a, b}) >= y
    BY <1>2 DEF Max
  <1> QED
    BY <1>3, <1>4

LEMMA ClampedBetween ==
  ASSUME NEW n \in Int, NEW max \in Nat \ {0}
  PROVE  Clamped(n, max) \in 1..max
  <1>1. Min({n, max}) \in Int /\ Min({n, max}) <= max
    BY OfTwo
  <1> DEFINE x == Min({n, max})
  <1> HIDE DEF x
  <1>a. x \in Int /\ x <= max /\ 1 \in Int
    BY <1>1 DEF x
  <1>2. Max({1, x}) \in {1, x} /\ Max({1, x}) >= 1 /\ x \in Int /\ x <= max
    BY <1>a, OfTwo
  <1>3. Max({1, x}) \in 1..max
    BY <1>2
  <1> QED
    BY <1>3 DEF Clamped, x

ShownMost == Max({SearchMax, RecentMax, 2 * RadiusMax + 1})

LEMMA ShownMostOfThree ==
  ShownMost \in Nat /\ SearchMax <= ShownMost /\ RecentMax <= ShownMost /\ 2 * RadiusMax + 1 <= ShownMost
  <1> DEFINE a == SearchMax
             b == RecentMax
             c == 2 * RadiusMax + 1
             m == a + b + c
  <1>1. a \in Nat /\ b \in Nat /\ c \in Nat /\ m \in Nat
    BY ToolsAssumption
  <1>2. {a, b, c} \in SUBSET (0..m)
    BY <1>1
  <1> HIDE DEF a, b, c, m
  <1>3. Max({a, b, c}) \in {a, b, c} /\ \A y \in {a, b, c} : y <= Max({a, b, c})
    BY <1>1, <1>2, GreatestOf
  <1>4. Max({a, b, c}) \in Nat /\ a <= Max({a, b, c}) /\ b <= Max({a, b, c}) /\ c <= Max({a, b, c})
    BY <1>1, <1>3
  <1> QED
    BY <1>4 DEF ShownMost, a, b, c

(* A piece of a sequence. *)
LEMMA PieceOf ==
  ASSUME NEW S, NEW s \in Seq(S), NEW lo \in Nat \ {0}, NEW hi \in 0..Len(s)
  PROVE  /\ SubSeq(s, lo, hi) \in Seq(S)
         /\ Len(SubSeq(s, lo, hi)) = IF lo <= hi THEN hi - lo + 1 ELSE 0
         /\ \A i \in 1..Len(SubSeq(s, lo, hi)) : SubSeq(s, lo, hi)[i] = s[lo + i - 1] /\ lo + i - 1 \in DOMAIN s
         /\ Range(SubSeq(s, lo, hi)) \subseteq Range(s)
  <1>1. Len(s) \in Nat /\ DOMAIN s = 1..Len(s)
    BY LenProperties
  <1>2. lo \in Int /\ hi \in Int /\ \A i \in lo..hi : s[i] \in S
    <2>1. \A i \in lo..hi : i \in 1..Len(s)
      BY <1>1
    <2> QED
      BY <1>1, <2>1, ElementOfSeq
  <1> DEFINE t == SubSeq(s, lo, hi)
  <1>3. /\ t \in Seq(S) /\ Len(t) = IF lo <= hi THEN hi - lo + 1 ELSE 0
        /\ \A i \in 1..(hi - lo + 1) : t[i] = s[lo + i - 1]
    BY <1>2, SubSeqProperties
  <1> HIDE DEF t
  <1>4. \A i \in 1..Len(t) : i \in 1..(hi - lo + 1) /\ lo + i - 1 \in 1..Len(s)
    BY <1>1, <1>3
  <1>5. \A i \in 1..Len(t) : t[i] = s[lo + i - 1] /\ lo + i - 1 \in DOMAIN s
    BY <1>1, <1>3, <1>4
  <1>6. DOMAIN t = 1..Len(t)
    BY <1>3, LenProperties
  <1>7. Range(t) \subseteq Range(s)
    BY <1>5, <1>6 DEF Range
  <1> QED
    BY <1>3, <1>5, <1>7 DEF t

(* A selection has nothing else. *)
LEMMA SelectedFrom ==
  ASSUME NEW E, NEW s \in Seq(E), NEW K \in SUBSET (DOMAIN s)
  PROVE  Range(Selected(s, K)) \subseteq Range(s) /\ Len(Selected(s, K)) <= Len(s) /\ Len(Selected(s, K)) \in Nat
  <1> DEFINE got == Selected(s, K)
  <1>1. got \in Seq(E) /\ Len(got) = Cardinality(K) /\ Cardinality(K) \in Nat
        /\ Picks(s, K, Ascending(K), got)
    BY Selection
  <1>2. Len(s) \in Nat /\ DOMAIN s = 1..Len(s) /\ DOMAIN got = 1..Len(got)
    <2> HIDE DEF got
    <2> QED
      BY <1>1, LenProperties
  <1>3. Cardinality(K) <= Len(s)
    BY <1>2, Positions
  <1> HIDE DEF got
  <1>4. \A i \in 1..Len(got) : got[i] \in Range(s)
    BY <1>1 DEF Picks, Range
  <1>5. Range(got) \subseteq Range(s)
    BY <1>2, <1>4 DEF Range
  <1> QED
    BY <1>1, <1>3, <1>5 DEF got

LEMMA RecentShown ==
  ASSUME NEW msgs \in Seq(Int), NEW limit \in Int
  PROVE  /\ Range(RecentMessages(msgs, limit)) \subseteq Range(msgs)
         /\ Len(RecentMessages(msgs, limit)) \in Nat /\ Len(RecentMessages(msgs, limit)) <= RecentMax
  <1> DEFINE n == Len(msgs)
             c == Clamped(limit, RecentMax)
             lo == Max({1, n - c + 1})
  <1>1. n \in Nat /\ c \in 1..RecentMax /\ RecentMax \in Nat
    BY LenProperties, ClampedBetween, ToolsAssumption
  <1> HIDE DEF n, c
  <1>2. lo \in {1, n - c + 1} /\ lo >= 1 /\ lo >= n - c + 1
    <2>1. n - c + 1 \in Int /\ 1 \in Int
      BY <1>1
    <2> QED
      BY <2>1, OfTwo
  <1>3. RecentMessages(msgs, limit) = SubSeq(msgs, lo, n)
    BY DEF RecentMessages, n, c
  <1> HIDE DEF lo
  <1>4. lo \in Nat \ {0} /\ n \in 0..Len(msgs)
    BY <1>1, <1>2 DEF n
  <1>5. /\ Len(SubSeq(msgs, lo, n)) = IF lo <= n THEN n - lo + 1 ELSE 0
        /\ Range(SubSeq(msgs, lo, n)) \subseteq Range(msgs)
    BY <1>4, PieceOf
  <1> QED
    BY <1>1, <1>2, <1>3, <1>4, <1>5

LEMMA AroundShown ==
  ASSUME NEW msgs \in Seq(Int), Ordered(msgs), NEW id \in Int, NEW radius \in Int
  PROVE  /\ Range(MessageContext(msgs, id, radius)) \subseteq Range(msgs)
         /\ Len(MessageContext(msgs, id, radius)) \in Nat
         /\ Len(MessageContext(msgs, id, radius)) <= 2 * RadiusMax + 1
  <1> DEFINE r == Clamped(radius, RadiusMax)
             I == (id - r)..(id + r)
             K == {i \in DOMAIN msgs : msgs[i] \in I}
             f == [i \in K |-> msgs[i]]
  <1>1. r \in 1..RadiusMax /\ RadiusMax \in Nat
    BY ClampedBetween, ToolsAssumption
  <1> HIDE DEF r
  <1>2. DOMAIN msgs = 1..Len(msgs) /\ Len(msgs) \in Nat
    BY LenProperties
  <1>3. IsFiniteSet(I) /\ Cardinality(I) = 2 * r + 1
    <2>1. id - r \in Int /\ id + r \in Int /\ ~(id - r > id + r) /\ (id + r) - (id - r) + 1 = 2 * r + 1
      BY <1>1
    <2>2. IsFiniteSet(I) /\ Cardinality(I) = IF id - r > id + r THEN 0 ELSE (id + r) - (id - r) + 1
      BY <2>1, FS_Interval
    <2> QED
      BY <2>1, <2>2
  <1>4. f \in Injection(K, I)
    <2>1. f \in [K -> I]
      OBVIOUS
    <2>2. ASSUME NEW i \in K, NEW j \in K, f[i] = f[j]
          PROVE  i = j
      <3>1. msgs[i] = msgs[j] /\ i \in DOMAIN msgs /\ j \in DOMAIN msgs /\ i \in Int /\ j \in Int /\ msgs[i] \in Int
        BY <1>2, <2>2
      <3>2. ~(i < j) /\ ~(j < i)
        BY <3>1 DEF Ordered
      <3> QED
        BY <3>1, <3>2
    <2> QED
      BY <2>1, <2>2 DEF Injection, IsInjective
  <1>5. MessageContext(msgs, id, radius) = Selected(msgs, K)
    BY DEF MessageContext, r
  <1>6. K \in SUBSET (DOMAIN msgs)
    OBVIOUS
  <1> HIDE DEF f, K, I
  <1>7. Cardinality(K) <= Cardinality(I)
    BY <1>3, <1>4, FS_Injection
  <1>8. Range(Selected(msgs, K)) \subseteq Range(msgs) /\ Len(Selected(msgs, K)) \in Nat
    BY <1>6, SelectedFrom
  <1>9. Len(Selected(msgs, K)) = Cardinality(K)
    BY <1>6, Selection
  <1>10. Cardinality(K) <= 2 * RadiusMax + 1
    <2>1. Cardinality(K) \in Nat
      BY <1>8, <1>9
    <2> QED
      BY <1>1, <1>3, <1>7, <2>1
  <1> QED
    BY <1>5, <1>8, <1>9, <1>10

LEMMA FoundShown ==
  ASSUME NEW msgs \in Seq(Int), NEW since, NEW limit \in Int
  PROVE  /\ Range(SearchMessages(Reverse(msgs), since, limit)) \subseteq Range(msgs)
         /\ Len(SearchMessages(Reverse(msgs), since, limit)) \in Nat
         /\ Len(SearchMessages(Reverse(msgs), since, limit)) <= SearchMax
  <1> DEFINE n == Len(msgs)
             back == Reverse(msgs)
             c == Clamped(limit, SearchMax)
             top == Min({Len(back), c})
             best == SubSeq(back, 1, top)
             K == {i \in DOMAIN best : best[i] >= since}
  <1>1. n \in Nat /\ DOMAIN msgs = 1..n /\ c \in 1..SearchMax /\ SearchMax \in Nat
    BY LenProperties, ClampedBetween, ToolsAssumption
  <1>2. \A i \in 1..n : msgs[(n - i) + 1] \in Int /\ (n - i) + 1 \in 1..n
    <2>1. \A i \in 1..n : (n - i) + 1 \in 1..n
      BY <1>1
    <2> QED
      BY <2>1, ElementOfSeq
  <1>3. back = [i \in 1..n |-> msgs[(n - i) + 1]]
    BY DEF Reverse
  <1> HIDE DEF back, n, c
  <1>4. back \in Seq(Int)
    BY <1>1, <1>2, <1>3, IsASeq
  <1>5. DOMAIN back = 1..n /\ Range(back) \subseteq Range(msgs)
    <2>1. \A i \in 1..n : back[i] \in Range(msgs)
      BY <1>1, <1>2, <1>3 DEF Range
    <2> QED
      BY <1>3, <2>1 DEF Range
  <1>6. Len(back) \in Nat /\ top \in {Len(back), c} /\ top <= Len(back) /\ top <= c
    <2>1. Len(back) \in Int /\ c \in Int /\ Len(back) \in Nat
      BY <1>1, <1>4, LenProperties
    <2> QED
      BY <2>1, OfTwo
  <1>7. SearchMessages(back, since, limit) = Selected(best, K)
    BY DEF SearchMessages, c
  <1> HIDE DEF top
  <1>8. top \in 0..Len(back) /\ 1 \in Nat \ {0} /\ top <= SearchMax
    BY <1>1, <1>6
  <1>9. best \in Seq(Int) /\ Len(best) = (IF 1 <= top THEN top - 1 + 1 ELSE 0) /\ Range(best) \subseteq Range(back)
    BY <1>4, <1>8, PieceOf
  <1>10. Len(best) <= SearchMax
    BY <1>1, <1>8, <1>9
  <1>11. K \in SUBSET (DOMAIN best)
    OBVIOUS
  <1>12. Len(best) \in Nat
    BY <1>9, LenProperties
  <1> HIDE DEF best, K
  <1>13. Range(Selected(best, K)) \subseteq Range(best) /\ Len(Selected(best, K)) <= Len(best) /\ Len(Selected(best, K)) \in Nat
    BY <1>9, <1>11, SelectedFrom
  <1>14. Len(Selected(best, K)) <= SearchMax
    BY <1>1, <1>10, <1>12, <1>13
  <1> QED
    BY <1>5, <1>7, <1>9, <1>13, <1>14 DEF back

(* Every chat that a call may mean is of the account of the turn. *)
LEMMA ChatsOfTheAccount ==
  ASSUME NEW in, ToolCase(in)
  PROVE  LET account == TurnAccount(in.context, in.given, in.conversation) IN
         \A c \in ResolveChat(in.chats, account, Pinned(in.chats, in.context), in.call.arg) :
           c \in in.chats /\ c.account = account
  <1> DEFINE account == TurnAccount(in.context, in.given, in.conversation)
             Own == {c \in in.chats : c.account = account}
             arg == in.call.arg
             n1 == ById(in.chats, account, arg.number)
             n2 == ByPeer(in.chats, account, arg.number)
             w1 == ByName(in.chats, account, arg.word)
             w2 == ByTitle(in.chats, account, arg.word)
  <1>1. Pinned(in.chats, in.context) \subseteq Own
    BY DEF Pinned, TurnAccount
  <1>2. n1 \subseteq Own /\ n2 \subseteq Own /\ w1 \subseteq Own /\ w2 \subseteq Own
    BY DEF ById, ByPeer, ByName, ByTitle, Synced
  <1>3. arg.kind \in {"none", "number", "word"}
    BY DEF ToolCase
  <1>4. ResolveChat(in.chats, account, Pinned(in.chats, in.context), arg)
          = CASE arg.kind = "none"   -> Pinned(in.chats, in.context)
              [] arg.kind = "number" -> FirstFound(<<n1, n2>> \o <<w1, w2>>)
              [] arg.kind = "word"   -> FirstFound(<<w1, w2>>)
    BY DEF ResolveChat
  <1> HIDE DEF n1, n2, w1, w2, Own, account, arg
  <1>5. ASSUME NEW n \in Nat, NEW s, DOMAIN s = 1..n, \A i \in 1..n : s[i] \subseteq Own
        PROVE  FirstFound(s) \subseteq Own
    <2> DEFINE found == {i \in DOMAIN s : s[i] # {}}
    <2>1. CASE found = {}
      BY <2>1 DEF FirstFound
    <2>2. CASE found # {}
      <3>1. found \in SUBSET (0..n)
        BY <1>5
      <3>2. FirstFound(s) = s[Min(found)]
        BY <2>2 DEF FirstFound
      <3>3. \A i \in found : s[i] \subseteq Own
        BY <1>5
      <3> HIDE DEF found
      <3>4. Min(found) \in found
        BY <2>2, <3>1, LeastOf
      <3> QED
        BY <3>2, <3>3, <3>4
    <2> QED
      BY <2>1, <2>2
  <1>6. FirstFound(<<w1, w2>>) \subseteq Own
    <2> DEFINE s == <<w1, w2>>
    <2>1. DOMAIN s = 1..2 /\ \A i \in 1..2 : s[i] \subseteq Own
      BY <1>2
    <2> HIDE DEF s
    <2>2. FirstFound(s) \subseteq Own
      BY <1>5, <2>1
    <2> QED
      BY <2>2 DEF s
  <1>7. FirstFound(<<n1, n2>> \o <<w1, w2>>) \subseteq Own
    <2> DEFINE a == <<n1, n2>>
               b == <<w1, w2>>
               s == a \o b
               E == SUBSET Own
    <2>a. a \in Seq(E) /\ b \in Seq(E) /\ Len(a) = 2 /\ Len(b) = 2
      BY <1>2
    <2> HIDE DEF a, b, E
    <2>b. s \in Seq(E) /\ Len(s) = Len(a) + Len(b)
      BY <2>a, ConcatProperties
    <2> HIDE DEF s
    <2>c. Len(s) = 4
      BY <2>a, <2>b
    <2>d. DOMAIN s = 1..4 /\ \A i \in 1..4 : s[i] \in E
      BY <2>b, <2>c, LenProperties, ElementOfSeq
    <2>1. DOMAIN s = 1..4 /\ \A i \in 1..4 : s[i] \subseteq Own
      BY <2>d DEF E
    <2>2. <<n1, n2>> \o <<w1, w2>> = s
      BY DEF a, b, s
    <2>3. FirstFound(s) \subseteq Own
      BY <1>5, <2>1
    <2> QED
      BY <2>2, <2>3
  <1>8. ResolveChat(in.chats, account, Pinned(in.chats, in.context), arg) \subseteq Own
    BY <1>1, <1>3, <1>4, <1>6, <1>7
  <1> QED
    BY <1>8 DEF Own, account, arg

(* Whatever chat a call of a tool names, it shows one of the turn's account, and little of it *)
(* (_resolve_chat, run_tool). *)
THEOREM ToolShowsItsAccount ==
  ASSUME NEW in, ToolCase(in),
         NEW r \in RunTool(in.chats, TurnAccount(in.context, in.given, in.conversation),
                           Pinned(in.chats, in.context), in.call, in.msgs),
         r.chat # NoChat
  PROVE  /\ r.chat.account = TurnAccount(in.context, in.given, in.conversation)
         /\ Range(r.shown) \subseteq Range(in.msgs[r.chat.id])
         /\ Len(r.shown) <= Max({SearchMax, RecentMax, 2 * RadiusMax + 1})
  <1> DEFINE account == TurnAccount(in.context, in.given, in.conversation)
             answers == ResolveChat(in.chats, account, Pinned(in.chats, in.context), in.call.arg)
             call == in.call
             Show(c) == CASE call.tool = "recent" -> RecentMessages(in.msgs[c.id], call.limit)
                          [] call.tool = "around" -> MessageContext(in.msgs[c.id], call.id, call.limit)
                          [] call.tool = "search" -> SearchMessages(Reverse(in.msgs[c.id]), call.id, call.limit)
  <1>1. \A c \in answers : c \in in.chats /\ c.account = account
    BY ChatsOfTheAccount
  <1>2. r \in IF answers = {} THEN {[ok |-> FALSE, chat |-> NoChat, shown |-> <<>>]}
              ELSE {[ok |-> call.tool # "around" \/ Show(c) # <<>>, chat |-> c, shown |-> Show(c)] : c \in answers}
    BY DEF RunTool
  <1> HIDE DEF account, answers
  <1>3. PICK c \in answers : r.chat = c /\ r.shown = Show(c)
    <2>1. CASE answers = {}
      <3>1. r.chat = NoChat
        BY <1>2, <2>1
      <3> QED
        BY <3>1
    <2>2. CASE answers # {}
      <3>1. PICK c \in answers : r = [ok |-> call.tool # "around" \/ Show(c) # <<>>, chat |-> c, shown |-> Show(c)]
        BY <1>2, <2>2
      <3> HIDE DEF Show
      <3> QED
        BY <3>1
    <2> QED
      BY <2>1, <2>2
  <1> DEFINE msgs == in.msgs[c.id]
  <1>4. /\ msgs \in Seq(Int) /\ Ordered(msgs)
        /\ call.tool \in {"recent", "around", "search"} /\ call.id \in Int /\ call.limit \in Int
    BY <1>1 DEF ToolCase
  <1> HIDE DEF msgs
  <1>5. r.shown = CASE call.tool = "recent" -> RecentMessages(msgs, call.limit)
                    [] call.tool = "around" -> MessageContext(msgs, call.id, call.limit)
                    [] call.tool = "search" -> SearchMessages(Reverse(msgs), call.id, call.limit)
    BY <1>3 DEF msgs
  <1> HIDE DEF call, Show
  <1>6. Range(r.shown) \subseteq Range(msgs) /\ Len(r.shown) <= ShownMost
    <2>0. SearchMax \in Nat /\ RecentMax \in Nat /\ RadiusMax \in Nat
      BY ToolsAssumption
    <2>1. CASE call.tool = "recent"
      <3>1. r.shown = RecentMessages(msgs, call.limit)
        BY <1>5, <2>1
      <3>2. Range(r.shown) \subseteq Range(msgs) /\ Len(r.shown) \in Nat /\ Len(r.shown) <= RecentMax
        BY <1>4, <3>1, RecentShown
      <3> QED
        BY <2>0, <3>2, ShownMostOfThree
    <2>2. CASE call.tool = "around"
      <3>1. r.shown = MessageContext(msgs, call.id, call.limit)
        BY <1>5, <2>2
      <3>2. Range(r.shown) \subseteq Range(msgs) /\ Len(r.shown) \in Nat /\ Len(r.shown) <= 2 * RadiusMax + 1
        BY <1>4, <3>1, AroundShown
      <3> QED
        BY <2>0, <3>2, ShownMostOfThree
    <2>3. CASE call.tool = "search"
      <3>1. r.shown = SearchMessages(Reverse(msgs), call.id, call.limit)
        BY <1>5, <2>3
      <3>2. Range(r.shown) \subseteq Range(msgs) /\ Len(r.shown) \in Nat /\ Len(r.shown) <= SearchMax
        BY <1>4, <3>1, FoundShown
      <3> QED
        BY <2>0, <3>2, ShownMostOfThree
    <2> QED
      BY <1>4, <2>1, <2>2, <2>3
  <1>7. r.chat.account = account
    BY <1>1, <1>3
  <1> QED
    BY <1>3, <1>6, <1>7 DEF msgs, account, ShownMost

-----------------------------------------------------------------------------
(* Two rankings.                                                           *)
LEMMA Quotient ==
  ASSUME NEW a \in Nat, NEW q \in Nat \ {0}
  PROVE  a \div q \in Nat /\ q * (a \div q) <= a /\ a < q * ((a \div q) + 1)
  BY Z3

LEMMA Products ==
  ASSUME NEW a \in Nat, NEW b \in Nat, NEW c \in Nat, NEW d \in Nat, a <= b, c <= d
  PROVE  a * c <= b * d
  <1>1. a * c <= b * c
    <2>1. PICK e \in Nat : b = a + e
      <3>1. b - a \in Nat /\ b = a + (b - a)
        OBVIOUS
      <3> QED
        BY <3>1
    <2>2. b * c = a * c + e * c /\ e * c >= 0 /\ a * c \in Int /\ e * c \in Int
      BY <2>1
    <2> QED
      BY <2>2
  <1>2. b * c <= b * d
    <2>1. PICK e \in Nat : d = c + e
      <3>1. d - c \in Nat /\ d = c + (d - c)
        OBVIOUS
      <3> QED
        BY <3>1
    <2>2. b * d = b * c + b * e /\ b * e >= 0 /\ b * c \in Int /\ b * e \in Int
      BY <2>1
    <2> QED
      BY <2>2
  <1>3. a * c \in Int /\ b * c \in Int /\ b * d \in Int
    OBVIOUS
  <1> QED
    BY <1>1, <1>2, <1>3

(* The scores are whole numbers of so small a part that no two ranks of a ranking have the same. *)
Lowest == RRFK + LongRanking

LEMMA ScaleIsFine ==
  Scale \in Nat /\ Lowest \in Nat /\ RRFK \in Nat /\ LongRanking \in Nat /\ Scale > Lowest * (Lowest + 1)
  BY Z3 DEF Scale, Lowest, RRFK, LongRanking

(* In a ranking that is not too long every rank has less than the one before it, and all have something. *)
LEMMA LowerRanksHaveLess ==
  ASSUME NEW r \in 1..LongRanking, NEW s \in 1..LongRanking
  PROVE  /\ Scale \div (RRFK + r) \in Nat \ {0}
         /\ r < s => Scale \div (RRFK + r) > Scale \div (RRFK + s)
  <1> DEFINE p == RRFK + r
             q == RRFK + s
             d == Scale \div p
             e == Scale \div q
  <1>1. p \in 1..Lowest /\ q \in 1..Lowest /\ p \in Nat \ {0} /\ q \in Nat \ {0} /\ Scale \in Nat /\ Lowest \in Nat
    BY Z3, ScaleIsFine DEF Lowest
  <1>2. d \in Nat /\ e \in Nat /\ p * d <= Scale /\ Scale < p * (d + 1) /\ q * e <= Scale /\ Scale < q * (e + 1)
    <2> HIDE DEF p, q
    <2> QED
      BY <1>1, Quotient
  <1>3. r < s => p <= q - 1 /\ q - 1 \in Nat
    BY <1>1, ScaleIsFine
  <1> HIDE DEF p, q, d, e
  <1>4. d > Lowest /\ e > Lowest
    <2>1. ASSUME NEW x \in 1..Lowest, NEW y \in Nat, Scale < x * (y + 1)
          PROVE  y > Lowest
      <3>1. SUFFICES ASSUME y <= Lowest
                     PROVE  FALSE
        BY <1>1
      <3>2. x \in Nat /\ x <= Lowest /\ y + 1 \in Nat /\ y + 1 <= Lowest + 1 /\ Lowest \in Nat /\ Lowest + 1 \in Nat
        BY <1>1, <3>1
      <3>3. x * (y + 1) <= Lowest * (Lowest + 1)
        BY <3>2, Products
      <3>4. x * (y + 1) \in Int /\ Lowest * (Lowest + 1) \in Int
        BY <3>2
      <3> QED
        BY <1>1, <2>1, <3>3, <3>4, ScaleIsFine
    <2> QED
      BY <1>1, <1>2, <2>1
  <1>5. ASSUME p <= q - 1, q - 1 \in Nat, d <= e
        PROVE  FALSE
    <2>1. p \in Nat /\ q \in Nat /\ d + 1 \in Nat /\ e + 1 \in Nat /\ d + 1 <= e + 1
      BY <1>1, <1>2, <1>5
    <2>2. p * (d + 1) <= (q - 1) * (e + 1)
      BY <1>5, <2>1, Products
    <2>3. (q - 1) * (e + 1) = q * e + q - e - 1
      BY <1>2, <2>1
    <2>4. p * (d + 1) \in Int /\ q * e \in Int /\ q <= Lowest
      BY <1>1, <1>2, <2>1
    <2> QED
      BY <1>1, <1>2, <1>4, <2>1, <2>2, <2>3, <2>4
  <1>6. d \in Nat \ {0} /\ (r < s => d > e)
    BY <1>1, <1>2, <1>3, <1>4, <1>5
  <1> QED
    BY <1>6 DEF d, e, p, q

PlaceIn(l, id) == IF Contains(l, id) THEN Rank(l, id) ELSE Len(l) + 1

Ranking(l) == Len(l) \in Nat /\ DOMAIN l = 1..Len(l) /\ Len(l) <= LongRanking

LEMMA RankOf ==
  ASSUME NEW l, Ranking(l), NEW id
  PROVE  /\ Contains(l, id) => Rank(l, id) \in 1..Len(l) /\ Rank(l, id) \in 1..LongRanking
         /\ ListScore(l, id) \in Nat
         /\ PlaceIn(l, id) \in Nat /\ PlaceIn(l, id) <= Len(l) + 1
         /\ Contains(l, id) <=> PlaceIn(l, id) <= Len(l)
  <1>1. ASSUME Contains(l, id)
        PROVE  Rank(l, id) \in 1..Len(l) /\ Rank(l, id) \in 1..LongRanking
    <2>1. \E i \in DOMAIN l : l[i] = id
      BY <1>1 DEF Contains, Ranking
    <2>2. Rank(l, id) \in DOMAIN l
      BY <2>1 DEF Rank
    <2> QED
      BY <2>2, ScaleIsFine DEF Ranking
  <1>2. ListScore(l, id) \in Nat
    BY <1>1, LowerRanksHaveLess DEF ListScore
  <1> QED
    BY <1>1, <1>2 DEF PlaceIn, Ranking

LEMMA HigherScore ==
  ASSUME NEW l, Ranking(l), NEW a, NEW b
  PROVE  /\ PlaceIn(l, a) < PlaceIn(l, b) => ListScore(l, a) > ListScore(l, b)
         /\ IsInjective(l) /\ PlaceIn(l, a) = PlaceIn(l, b) => ListScore(l, a) = ListScore(l, b)
  <1>1. ASSUME PlaceIn(l, a) < PlaceIn(l, b)
        PROVE  ListScore(l, a) > ListScore(l, b)
    <2>1. Contains(l, a) /\ Rank(l, a) \in 1..LongRanking
      <3>1. PlaceIn(l, a) <= Len(l)
        BY <1>1, RankOf DEF Ranking
      <3> QED
        BY <3>1, RankOf
    <2>2. ListScore(l, a) = Scale \div (RRFK + Rank(l, a)) /\ PlaceIn(l, a) = Rank(l, a)
      BY <2>1 DEF ListScore, PlaceIn
    <2>3. CASE Contains(l, b)
      <3>1. Rank(l, b) \in 1..LongRanking /\ PlaceIn(l, b) = Rank(l, b) /\ ListScore(l, b) = Scale \div (RRFK + Rank(l, b))
        BY <2>3, RankOf DEF ListScore, PlaceIn
      <3> QED
        BY <1>1, <2>1, <2>2, <3>1, LowerRanksHaveLess
    <2>4. CASE ~Contains(l, b)
      <3>1. ListScore(l, b) = 0
        BY <2>4 DEF ListScore
      <3>2. Scale \div (RRFK + Rank(l, a)) \in Nat \ {0}
        BY <2>1, LowerRanksHaveLess
      <3> QED
        BY <2>2, <3>1, <3>2
    <2> QED
      BY <2>3, <2>4
  <1>2. ASSUME PlaceIn(l, a) = PlaceIn(l, b)
        PROVE  ListScore(l, a) = ListScore(l, b)
    <2>1. Contains(l, a) <=> Contains(l, b)
      BY <1>2, RankOf
    <2> QED
      BY <1>2, <2>1 DEF ListScore, PlaceIn
  <1> QED
    BY <1>1, <1>2

(* The order of the fused ranking. *)
FirstMet(fts, vec, id) == Min({i \in DOMAIN (fts \o vec) : (fts \o vec)[i] = id})
Ahead(fts, vec, a, b) ==
  \/ Score(fts, vec, a) > Score(fts, vec, b)
  \/ /\ Score(fts, vec, a) = Score(fts, vec, b)
     /\ FirstMet(fts, vec, a) < FirstMet(fts, vec, b)
AheadIn(S, fts, vec) == {p \in S \X S : Ahead(fts, vec, p[1], p[2])}

LEMMA FusedOrder ==
  ASSUME NEW fts, NEW vec, NEW n \in Nat, DOMAIN (fts \o vec) = 1..n, Ranking(fts), Ranking(vec)
  PROVE  IsOrder(Range(fts \o vec), AheadIn(Range(fts \o vec), fts, vec))
  <1> DEFINE met == fts \o vec
             S == Range(met)
             B == AheadIn(S, fts, vec)
             pos(id) == {i \in DOMAIN met : met[i] = id}
  <1>1. ASSUME NEW id \in S
        PROVE  FirstMet(fts, vec, id) \in pos(id) /\ FirstMet(fts, vec, id) \in Nat
    <2>1. pos(id) \in SUBSET (0..n) /\ pos(id) # {}
      BY DEF Range
    <2>2. FirstMet(fts, vec, id) = Min(pos(id))
      BY DEF FirstMet
    <2>3. \A i \in pos(id) : i \in Nat
      BY <2>1
    <2> HIDE DEF pos
    <2>4. Min(pos(id)) \in pos(id)
      BY <2>1, LeastOf
    <2> QED
      BY <2>2, <2>3, <2>4
  <1>2. ASSUME NEW a \in S, NEW b \in S, a # b
        PROVE  FirstMet(fts, vec, a) # FirstMet(fts, vec, b)
    <2>1. met[FirstMet(fts, vec, a)] = a /\ met[FirstMet(fts, vec, b)] = b
      BY <1>1
    <2> QED
      BY <1>2, <2>1
  <1>3. \A id : Score(fts, vec, id) \in Int
    <2> SUFFICES ASSUME NEW id
                 PROVE  Score(fts, vec, id) \in Int
      OBVIOUS
    <2>1. ListScore(fts, id) \in Nat /\ ListScore(vec, id) \in Nat
      BY RankOf
    <2> QED
      BY <2>1 DEF Score
  <1>4. \A a, b \in S : <<a, b>> \in B <=> Ahead(fts, vec, a, b)
    BY DEF AheadIn
  <1>5. B \in SUBSET (S \X S)
    BY DEF AheadIn
  <1> HIDE DEF S, B, met, pos
  <1>6. \A a \in S : ~Ahead(fts, vec, a, a)
    BY <1>1, <1>3 DEF Ahead
  <1>7. ASSUME NEW a \in S, NEW b \in S, NEW c \in S, Ahead(fts, vec, a, b), Ahead(fts, vec, b, c)
        PROVE  Ahead(fts, vec, a, c)
    <2>1. FirstMet(fts, vec, a) \in Nat /\ FirstMet(fts, vec, b) \in Nat /\ FirstMet(fts, vec, c) \in Nat
      BY <1>1
    <2>2. Score(fts, vec, a) \in Int /\ Score(fts, vec, b) \in Int /\ Score(fts, vec, c) \in Int
      BY <1>3
    <2> QED
      BY <1>7, <2>1, <2>2 DEF Ahead
  <1>8. ASSUME NEW a \in S, NEW b \in S, a # b
        PROVE  Ahead(fts, vec, a, b) \/ Ahead(fts, vec, b, a)
    <2>1. FirstMet(fts, vec, a) \in Nat /\ FirstMet(fts, vec, b) \in Nat /\ FirstMet(fts, vec, a) # FirstMet(fts, vec, b)
      BY <1>1, <1>2, <1>8
    <2>2. Score(fts, vec, a) \in Int /\ Score(fts, vec, b) \in Int
      BY <1>3
    <2> QED
      BY <2>1, <2>2 DEF Ahead
  <1>9. IsOrder(S, B)
    BY <1>4, <1>5, <1>6, <1>7, <1>8 DEF IsOrder
  <1> QED
    BY <1>9 DEF S, B, met

LEMMA FusedStands ==
  ASSUME NEW fts, NEW vec, NEW S, S = Range(fts \o vec), IsFiniteSet(S), IsOrder(S, AheadIn(S, fts, vec))
  PROVE  Stands(S, AheadIn(S, fts, vec), RRF(fts, vec))
  <1> DEFINE B == AheadIn(S, fts, vec)
             got == RRF(fts, vec)
             N == Cardinality(S)
  <1>1. got = [n \in 1..N |-> CHOOSE x \in S : Cardinality({y \in S : Ahead(fts, vec, y, x)}) = n - 1]
    BY DEF RRF, InOrder, Ahead, FirstMet
  <1>2. \A x \in S : Place(S, B, x) = Cardinality({y \in S : Ahead(fts, vec, y, x)})
    <2> SUFFICES ASSUME NEW x \in S
                 PROVE  Place(S, B, x) = Cardinality({y \in S : Ahead(fts, vec, y, x)})
      OBVIOUS
    <2>1. {y \in S : <<y, x>> \in B} = {y \in S : Ahead(fts, vec, y, x)}
      BY DEF AheadIn
    <2> QED
      BY <2>1 DEF Place
  <1> HIDE DEF B, N, got
  <1>3. ASSUME NEW n \in 1..N
        PROVE  got[n] \in S /\ Place(S, B, got[n]) = n - 1
    <2>1. \E x \in S : Place(S, B, x) = n - 1
      BY Places DEF B, N
    <2>2. \E x \in S : Cardinality({y \in S : Ahead(fts, vec, y, x)}) = n - 1
      BY <1>2, <2>1
    <2>3. got[n] \in S /\ Cardinality({y \in S : Ahead(fts, vec, y, got[n])}) = n - 1
      BY <1>1, <2>2
    <2> QED
      BY <1>2, <2>3
  <1>4. got \in [1..N -> S]
    BY <1>1, <1>3
  <1> QED
    BY <1>3, <1>4 DEF Stands, B, N, got

LEMMA FusionRankings ==
  ASSUME NEW in, FusionCase(in)
  PROVE  /\ Ranking(in.fts) /\ Ranking(in.vec) /\ IsInjective(in.fts) /\ IsInjective(in.vec)
         /\ \E n \in Nat : DOMAIN (in.fts \o in.vec) = 1..n
         /\ Range(in.fts \o in.vec) = Range(in.fts) \cup Range(in.vec)
         /\ IsFiniteSet(Range(in.fts \o in.vec))
  <1> DEFINE f == in.fts
             v == in.vec
             E == Range(f) \cup Range(v)
  <1>1. IsSeq(f) /\ IsSeq(v) /\ IsInjective(f) /\ IsInjective(v) /\ Len(f) <= LongRanking /\ Len(v) <= LongRanking
    BY DEF FusionCase
  <1> HIDE DEF f, v
  <1>2. /\ f \in Seq(Range(f)) /\ Len(f) \in Nat /\ DOMAIN f = 1..Len(f)
        /\ v \in Seq(Range(v)) /\ Len(v) \in Nat /\ DOMAIN v = 1..Len(v)
    BY <1>1, SeqOfItself
  <1>3. f \in Seq(E) /\ v \in Seq(E)
    <2>1. Range(f) \subseteq E /\ Range(v) \subseteq E
      OBVIOUS
    <2> HIDE DEF E
    <2> QED
      BY <1>2, <2>1, SeqMonotonic
  <1> HIDE DEF E
  <1> DEFINE met == f \o v
  <1>4. met \in Seq(E) /\ Range(met) = Range(f) \cup Range(v)
    BY <1>3, ConcatProperties, RangeConcatenation
  <1> HIDE DEF met
  <1>5. Len(met) \in Nat /\ DOMAIN met = 1..Len(met)
    BY <1>4, LenProperties
  <1>6. IsFiniteSet(Range(met))
    <2> DEFINE n == Len(met)
               D == 1..n
               g == [i \in D |-> met[i]]
    <2>1. 1 \in Int /\ n \in Int
      BY <1>5
    <2>2. IsFiniteSet(D)
      BY <2>1, FS_Interval
    <2>3. g \in Surjection(D, Range(met))
      BY <1>5 DEF Surjection, Range
    <2> HIDE DEF D, g
    <2> QED
      BY <2>2, <2>3, FS_Surjection
  <1> QED
    BY <1>1, <1>2, <1>4, <1>5, <1>6 DEF f, v, met, Ranking

(* Two rankings become one that has each message once, and keeps what both say (rrf). *)
THEOREM FusionKeepsBoth ==
  ASSUME NEW in, FusionCase(in)
  PROVE  LET lists == <<in.fts, in.vec>>
             PlaceOf(l, id) == IF Contains(l, id) THEN Rank(l, id) ELSE Len(l) + 1
             got == RRF(in.fts, in.vec) IN
         /\ IsInjective(got)
         /\ Range(got) = Range(lists[1]) \cup Range(lists[2])
         /\ \A i, j \in DOMAIN got :
              (/\ \A l \in Range(lists) : PlaceOf(l, got[i]) <= PlaceOf(l, got[j])
               /\ \E l \in Range(lists) : PlaceOf(l, got[i]) < PlaceOf(l, got[j])) => i < j
  <1> DEFINE f == in.fts
             v == in.vec
             got == RRF(f, v)
             S == Range(f \o v)
             B == AheadIn(S, f, v)
             N == Cardinality(S)
  <1>1. /\ Ranking(f) /\ Ranking(v) /\ IsInjective(f) /\ IsInjective(v)
        /\ \E n \in Nat : DOMAIN (f \o v) = 1..n
        /\ S = Range(f) \cup Range(v) /\ IsFiniteSet(S)
    BY FusionRankings
  <1> HIDE DEF f, v
  <1>2. IsOrder(S, B)
    BY <1>1, FusedOrder
  <1>3. Stands(S, B, got)
    <2> HIDE DEF B
    <2> QED
      BY <1>1, <1>2, FusedStands DEF B
  <1>a. \A a, b \in S : <<a, b>> \in B <=> Ahead(f, v, a, b)
    BY DEF AheadIn
  <1> HIDE DEF B, got, S
  <1>4. Sorts(S, B, got)
    BY <1>1, <1>2, <1>3, InPlace
  <1>5. got \in [1..N -> S] /\ DOMAIN got = 1..N
    BY <1>3 DEF Stands
  <1>6. IsInjective(got) /\ Range(got) = S
    BY <1>4, <1>5 DEF Sorts, IsInjective, Range
  <1>7. N \in Nat
    BY <1>1, FS_CardinalityType
  <1>8. ASSUME NEW i \in 1..N, NEW j \in 1..N,
               PlaceIn(f, got[i]) <= PlaceIn(f, got[j]), PlaceIn(v, got[i]) <= PlaceIn(v, got[j]),
               PlaceIn(f, got[i]) < PlaceIn(f, got[j]) \/ PlaceIn(v, got[i]) < PlaceIn(v, got[j])
        PROVE  i < j
    <2> DEFINE a == got[i]
               b == got[j]
    <2>1. a \in S /\ b \in S
      BY <1>5
    <2>2. PlaceIn(f, a) \in Nat /\ PlaceIn(f, b) \in Nat /\ PlaceIn(v, a) \in Nat /\ PlaceIn(v, b) \in Nat
      BY <1>1, RankOf
    <2>3. ListScore(f, a) \in Nat /\ ListScore(f, b) \in Nat /\ ListScore(v, a) \in Nat /\ ListScore(v, b) \in Nat
      BY <1>1, RankOf
    <2>4. /\ PlaceIn(f, a) < PlaceIn(f, b) => ListScore(f, a) > ListScore(f, b)
          /\ PlaceIn(f, a) = PlaceIn(f, b) => ListScore(f, a) = ListScore(f, b)
          /\ PlaceIn(v, a) < PlaceIn(v, b) => ListScore(v, a) > ListScore(v, b)
          /\ PlaceIn(v, a) = PlaceIn(v, b) => ListScore(v, a) = ListScore(v, b)
      BY <1>1, HigherScore
    <2>5. ListScore(f, a) + ListScore(v, a) > ListScore(f, b) + ListScore(v, b)
      BY <1>8, <2>2, <2>3, <2>4
    <2>6. Ahead(f, v, a, b)
      BY <2>5 DEF Ahead, Score
    <2>7. <<a, b>> \in B
      BY <1>a, <2>1, <2>6
    <2> QED
      BY <1>4, <2>7 DEF Sorts
  <1> DEFINE lists == <<f, v>>
  <1>9. Range(lists) = {f, v} /\ lists[1] = f /\ lists[2] = v
    BY DEF Range
  <1> HIDE DEF lists
  <1>10. ASSUME NEW i \in DOMAIN got, NEW j \in DOMAIN got,
                \A l \in Range(lists) : PlaceIn(l, got[i]) <= PlaceIn(l, got[j]),
                \E l \in Range(lists) : PlaceIn(l, got[i]) < PlaceIn(l, got[j])
         PROVE  i < j
    <2>1. i \in 1..N /\ j \in 1..N
      BY <1>5
    <2>2. PlaceIn(f, got[i]) <= PlaceIn(f, got[j]) /\ PlaceIn(v, got[i]) <= PlaceIn(v, got[j])
      BY <1>9, <1>10
    <2>3. PlaceIn(f, got[i]) < PlaceIn(f, got[j]) \/ PlaceIn(v, got[i]) < PlaceIn(v, got[j])
      BY <1>9, <1>10
    <2> QED
      BY <1>8, <2>1, <2>2, <2>3
  <1>11. \A i, j \in DOMAIN got :
           (/\ \A l \in Range(lists) : PlaceIn(l, got[i]) <= PlaceIn(l, got[j])
            /\ \E l \in Range(lists) : PlaceIn(l, got[i]) < PlaceIn(l, got[j])) => i < j
    BY <1>10
  <1>12. Range(got) = Range(lists[1]) \cup Range(lists[2])
    BY <1>1, <1>6, <1>9
  <1> QED
    BY <1>6, <1>11, <1>12 DEF lists, got, f, v, PlaceIn

-----------------------------------------------------------------------------
(* The messages of a prompt.  Whatever is chosen, it keeps the order of the  *)
(* chat and ends with its newest message.                                    *)
Message == [id : Nat, cost : Nat]

Keeps(chat, s) ==
  /\ s \in Seq(Message) /\ Len(s) \in Nat /\ DOMAIN s = 1..Len(s)
  /\ \A i, j \in 1..Len(s) : i < j => s[i].id < s[j].id
  /\ s # <<>> => s[Len(s)] = chat[Len(chat)]

LEMMA EmptyOrNot ==
  ASSUME NEW S, NEW s \in Seq(S)
  PROVE  Len(s) \in Nat /\ DOMAIN s = 1..Len(s) /\ (s = <<>> <=> Len(s) = 0)
  BY LenProperties, EmptySeq

LEMMA NothingCostsNothing == Cost(<<>>) = 0
  <1> DEFINE e == <<>>
             Sums(g) == g = [s \in SUBSET (DOMAIN e) |->
                               IF s = {} THEN 0
                               ELSE e[CHOOSE x \in s : TRUE].cost + g[s \ {CHOOSE x \in s : TRUE}]]
             g == CHOOSE g : Sums(g)
  <1>1. Cost(e) = g[DOMAIN e]
    BY DEF Cost, FoldSeq, FoldFunction, FoldFunctionOnSet, MapThenFoldSet
  <1>2. DOMAIN e = {}
    OBVIOUS
  <1>3. Sums([s \in SUBSET {} |-> 0])
    <2>1. \A s \in SUBSET {} : s = {}
      OBVIOUS
    <2> QED
      BY <1>2, <2>1
  <1>4. Sums(g)
    BY <1>3
  <1>5. g[{}] = 0
    BY <1>2, <1>4
  <1> QED
    BY <1>1, <1>2, <1>5

LEMMA KeepsItself ==
  ASSUME NEW in, ContextCase(in)
  PROVE  Keeps(in.chat, in.chat)
  <1> DEFINE chat == in.chat
             ids == [i \in DOMAIN chat |-> chat[i].id]
  <1>1. chat \in Seq(Message) /\ Ordered(ids)
    BY DEF ContextCase, Message
  <1> HIDE DEF chat
  <1>2. Len(chat) \in Nat /\ DOMAIN chat = 1..Len(chat)
    BY <1>1, LenProperties
  <1>3. DOMAIN ids = 1..Len(chat) /\ \A i \in 1..Len(chat) : ids[i] = chat[i].id
    BY <1>2
  <1> HIDE DEF ids
  <1>4. \A i, j \in 1..Len(chat) : i < j => chat[i].id < chat[j].id
    BY <1>1, <1>3 DEF Ordered
  <1> QED
    BY <1>1, <1>2, <1>4 DEF Keeps, chat

LEMMA EndKeeps ==
  ASSUME NEW chat, NEW s, Keeps(chat, s), NEW lo \in 1..(Len(s) + 1)
  PROVE  Keeps(chat, From(s, lo)) /\ (lo <= Len(s) => From(s, lo) # <<>>)
  <1> DEFINE t == From(s, lo)
             n == Len(s)
  <1>1. s \in Seq(Message) /\ n \in Nat /\ DOMAIN s = 1..n
    BY DEF Keeps
  <1>2. lo \in Nat \ {0} /\ n \in 0..Len(s) /\ lo \in 1..(n + 1)
    BY <1>1
  <1>3. t = SubSeq(s, lo, n)
    BY DEF From
  <1>4. /\ t \in Seq(Message) /\ Len(t) = IF lo <= n THEN n - lo + 1 ELSE 0
        /\ \A i \in 1..Len(t) : t[i] = s[lo + i - 1] /\ lo + i - 1 \in DOMAIN s
    <2> HIDE DEF n
    <2>1. /\ SubSeq(s, lo, n) \in Seq(Message) /\ Len(SubSeq(s, lo, n)) = IF lo <= n THEN n - lo + 1 ELSE 0
          /\ \A i \in 1..Len(SubSeq(s, lo, n)) : SubSeq(s, lo, n)[i] = s[lo + i - 1] /\ lo + i - 1 \in DOMAIN s
      BY <1>1, <1>2, PieceOf
    <2> QED
      BY <1>3, <2>1
  <1> HIDE DEF t
  <1>5. Len(t) \in Nat /\ DOMAIN t = 1..Len(t) /\ (t = <<>> <=> Len(t) = 0)
    BY <1>4, EmptyOrNot
  <1>6. ASSUME NEW i \in 1..Len(t), NEW j \in 1..Len(t), i < j
        PROVE  t[i].id < t[j].id
    <2> DEFINE a == lo + i - 1
               b == lo + j - 1
    <2>1. a \in 1..n /\ b \in 1..n /\ t[i] = s[a] /\ t[j] = s[b]
      BY <1>1, <1>4
    <2>2. a < b
      BY <1>2, <1>5, <1>6
    <2> HIDE DEF a, b
    <2> QED
      BY <2>1, <2>2 DEF Keeps
  <1>7. ASSUME t # <<>>
        PROVE  t[Len(t)] = chat[Len(chat)]
    <2>1. Len(t) \in 1..Len(t) /\ Len(t) # 0
      BY <1>5, <1>7
    <2>2. lo <= n
      BY <1>4, <2>1
    <2>3. lo + Len(t) - 1 = n
      BY <1>1, <1>2, <1>4, <2>2
    <2>4. t[Len(t)] = s[n]
      BY <1>4, <2>1, <2>3
    <2>5. s # <<>>
      <3>1. n # 0
        BY <1>2, <2>2
      <3> QED
        BY <1>1, <3>1, EmptyOrNot
    <2> QED
      BY <2>4, <2>5 DEF Keeps
  <1>8. lo <= n => t # <<>>
    BY <1>1, <1>2, <1>4, <1>5
  <1> QED
    BY <1>4, <1>5, <1>6, <1>7, <1>8 DEF Keeps, t

LEMMA NewestKeeps ==
  ASSUME NEW chat, NEW s, Keeps(chat, s), NEW n \in Nat \ {0}
  PROVE  Keeps(chat, Newest(s, n)) /\ (s # <<>> => Newest(s, n) # <<>>)
  <1> DEFINE e == Len(s) - n + 1
             lo == Max({1, e})
  <1>1. Len(s) \in Nat /\ s \in Seq(Message) /\ (s = <<>> <=> Len(s) = 0)
    BY EmptyOrNot DEF Keeps
  <1>2. e \in Int /\ e <= Len(s) /\ 1 \in Int
    BY <1>1
  <1> HIDE DEF e
  <1>3. lo \in {1, e} /\ lo >= 1
    BY <1>2, OfTwo
  <1>4. Newest(s, n) = From(s, lo)
    BY DEF Newest, e
  <1> HIDE DEF lo
  <1>5. lo \in 1..(Len(s) + 1) /\ (s # <<>> => lo <= Len(s))
    BY <1>1, <1>2, <1>3
  <1> QED
    BY <1>4, <1>5, EndKeeps

LEMMA BudgetKeeps ==
  ASSUME NEW chat, NEW s, Keeps(chat, s), NEW budget \in Nat
  PROVE  /\ Keeps(chat, FitBudget(s, budget)) /\ (s # <<>> => FitBudget(s, budget) # <<>>)
         /\ Cost(FitBudget(s, budget)) <= budget \/ Len(FitBudget(s, budget)) = 1
  <1>1. Len(s) \in Nat /\ DOMAIN s = 1..Len(s) /\ s \in Seq(Message) /\ (s = <<>> <=> Len(s) = 0)
    BY EmptyOrNot DEF Keeps
  <1>2. CASE s = <<>>
    <2>1. FitBudget(s, budget) = <<>>
      BY <1>2 DEF FitBudget
    <2>2. 0 <= budget
      OBVIOUS
    <2>3. Cost(FitBudget(s, budget)) <= budget
      BY <2>1, <2>2, NothingCostsNothing
    <2> QED
      BY <1>2, <2>1, <2>3
  <1>3. CASE s # <<>>
    <2> DEFINE K == {i \in DOMAIN s : i = Len(s) \/ Cost(From(s, i)) <= budget}
               lo == Min(K)
    <2>1. FitBudget(s, budget) = From(s, lo)
      BY <1>3 DEF FitBudget
    <2>2. K \in SUBSET (0..Len(s)) /\ Len(s) \in K /\ K # {}
      BY <1>1, <1>3
    <2>3. \A i \in K : i \in 1..Len(s) /\ (i = Len(s) \/ Cost(From(s, i)) <= budget)
      BY <1>1
    <2> HIDE DEF K
    <2>4. lo \in K
      BY <1>1, <2>2, LeastOf
    <2> HIDE DEF lo
    <2>5. lo \in 1..Len(s) /\ lo \in 1..(Len(s) + 1) /\ lo <= Len(s)
      BY <1>1, <2>3, <2>4
    <2>6. Keeps(chat, From(s, lo)) /\ From(s, lo) # <<>>
      BY <2>5, EndKeeps
    <2>7. lo = Len(s) => Len(From(s, lo)) = 1
      <3>1. Len(s) \in 1..Len(s) /\ Len(s) \in 0..Len(s) /\ Len(s) \in Nat \ {0} /\ Len(s) - Len(s) + 1 = 1 /\ Len(s) <= Len(s)
        BY <1>1, <1>3
      <3>2. Len(SubSeq(s, Len(s), Len(s))) = IF Len(s) <= Len(s) THEN Len(s) - Len(s) + 1 ELSE 0
        BY <1>1, <3>1, PieceOf
      <3>3. Len(SubSeq(s, Len(s), Len(s))) = 1
        BY <3>1, <3>2
      <3> QED
        BY <3>3 DEF From
    <2> QED
      BY <2>1, <2>3, <2>4, <2>6, <2>7
  <1> QED
    BY <1>2, <1>3

LEMMA SelectionKeeps ==
  ASSUME NEW chat, Keeps(chat, chat), NEW K \in SUBSET (DOMAIN chat), Len(chat) \in K
  PROVE  Keeps(chat, Selected(chat, K)) /\ Selected(chat, K) # <<>>
  <1> DEFINE got == Selected(chat, K)
             pos == Ascending(K)
             n == Len(chat)
             m == Len(got)
  <1>1. chat \in Seq(Message) /\ n \in Nat /\ DOMAIN chat = 1..n
    BY DEF Keeps
  <1>2. got \in Seq(Message) /\ Picks(chat, K, pos, got)
    BY <1>1, Selection
  <1> HIDE DEF got, pos
  <1>3. m \in Nat /\ DOMAIN got = 1..m /\ (got = <<>> <=> m = 0)
    BY <1>2, EmptyOrNot
  <1>4. /\ \A i \in 1..m : got[i] = chat[pos[i]] /\ pos[i] \in 1..n /\ pos[i] \in Nat
        /\ \A i, j \in 1..m : pos[i] < pos[j] <=> i < j
        /\ \E i \in 1..m : pos[i] = n
    BY <1>1, <1>2 DEF Picks
  <1>5. PICK i \in 1..m : pos[i] = n
    BY <1>4
  <1>6. m \in 1..m
    BY <1>3, <1>5
  <1>7. ~(i < m)
    <2>1. pos[m] \in 1..n /\ pos[i] = n
      BY <1>4, <1>5, <1>6
    <2>2. ~(pos[i] < pos[m])
      BY <1>1, <2>1
    <2> QED
      BY <1>4, <1>5, <1>6, <2>2
  <1>8. i = m
    <2>1. i \in 1..m /\ m \in Nat /\ ~(i < m)
      BY <1>3, <1>7
    <2> HIDE DEF m
    <2> QED
      BY <2>1
  <1>9. got[m] = chat[n]
    BY <1>4, <1>5, <1>6, <1>8
  <1>10. ASSUME NEW k \in 1..m, NEW l \in 1..m, k < l
         PROVE  got[k].id < got[l].id
    <2>1. pos[k] \in 1..n /\ pos[l] \in 1..n /\ pos[k] < pos[l] /\ got[k] = chat[pos[k]] /\ got[l] = chat[pos[l]]
      BY <1>4, <1>10
    <2> QED
      BY <2>1 DEF Keeps
  <1>11. got # <<>>
    BY <1>3, <1>5
  <1> QED
    BY <1>2, <1>3, <1>9, <1>10, <1>11 DEF Keeps, got

(* What is said of a bundle. *)
Usable(chat, bundle, budget) ==
  /\ Keeps(chat, bundle.messages)
  /\ Cost(bundle.messages) <= budget \/ Len(bundle.messages) = 1

LEMMA RecentIsUsable ==
  ASSUME NEW chat, Keeps(chat, chat), NEW limit \in Nat \ {0}, NEW budget \in Nat
  PROVE  /\ Usable(chat, RecentContext(chat, limit, budget), budget)
         /\ chat # <<>> => RecentContext(chat, limit, budget).messages # <<>>
  <1> DEFINE s == Newest(chat, limit)
  <1>1. Keeps(chat, s) /\ (chat # <<>> => s # <<>>)
    BY NewestKeeps
  <1> HIDE DEF s
  <1>2. /\ Keeps(chat, FitBudget(s, budget)) /\ (s # <<>> => FitBudget(s, budget) # <<>>)
        /\ Cost(FitBudget(s, budget)) <= budget \/ Len(FitBudget(s, budget)) = 1
    BY <1>1, BudgetKeeps
  <1>3. RecentContext(chat, limit, budget).messages = FitBudget(s, budget)
    BY DEF RecentContext, Bundle, s
  <1> QED
    BY <1>1, <1>2, <1>3 DEF Usable

LEMMA SearchIsUsable ==
  ASSUME NEW chat, Keeps(chat, chat), NEW hits, NEW budget \in Nat
  PROVE  Usable(chat, SearchContext(chat, hits, budget), budget)
  <1> DEFINE ids == (UNION {(h - Neighbors)..(h + Neighbors) : h \in Range(hits)})
                      \cup {m.id : m \in Range(Newest(chat, RecentTail))}
             K == {i \in DOMAIN chat : chat[i].id \in ids}
             s == Selected(chat, K)
  <1>1. Len(chat) \in Nat /\ DOMAIN chat = 1..Len(chat) /\ chat \in Seq(Message) /\ (chat = <<>> <=> Len(chat) = 0)
    BY EmptyOrNot DEF Keeps
  <1>2. K \in SUBSET (DOMAIN chat)
    OBVIOUS
  <1>3. ASSUME chat # <<>>
        PROVE  Keeps(chat, s)
    <2> DEFINE tail == Newest(chat, RecentTail)
    <2>1. Keeps(chat, tail) /\ tail # <<>>
      BY <1>3, NewestKeeps, SearchAssumption
    <2>2. chat[Len(chat)] \in Range(tail)
      <3> HIDE DEF tail
      <3>1. tail[Len(tail)] = chat[Len(chat)] /\ tail \in Seq(Message) /\ DOMAIN tail = 1..Len(tail) /\ Len(tail) \in Nat
        BY <2>1 DEF Keeps
      <3>2. Len(tail) # 0
        BY <2>1, <3>1, EmptyOrNot
      <3>3. Len(tail) \in DOMAIN tail
        BY <3>1, <3>2
      <3> QED
        BY <3>1, <3>3 DEF Range
    <2>3. Len(chat) \in K
      BY <1>1, <1>3, <2>2
    <2> HIDE DEF K
    <2> QED
      BY <1>2, <2>3, SelectionKeeps
  <1> HIDE DEF K
  <1>4. Keeps(chat, s)
    <2>1. CASE chat = <<>>
      <3>1. /\ s \in Seq(Message) /\ Len(s) \in Nat /\ Len(s) <= Len(chat)
        BY <1>1, <1>2, Selection, SelectedFrom
      <3>2. Len(s) = 0 /\ DOMAIN s = 1..Len(s) /\ s = <<>>
        BY <1>1, <2>1, <3>1, EmptyOrNot
      <3>3. \A i, j \in 1..Len(s) : i < j => s[i].id < s[j].id
        BY <3>2
      <3> QED
        BY <3>1, <3>2, <3>3 DEF Keeps
    <2> QED
      BY <1>3, <2>1
  <1> HIDE DEF s
  <1>5. /\ Keeps(chat, FitBudget(s, budget))
        /\ Cost(FitBudget(s, budget)) <= budget \/ Len(FitBudget(s, budget)) = 1
    BY <1>4, BudgetKeeps
  <1>6. SearchContext(chat, hits, budget).messages = FitBudget(s, budget)
    BY DEF SearchContext, Bundle, s, K
  <1> QED
    BY <1>5, <1>6 DEF Usable

LEMMA WindowIsUsable ==
  ASSUME NEW chat, Keeps(chat, chat), NEW n \in Nat, NEW budget \in Nat
  PROVE  /\ Usable(chat, WindowContext(WindowMessages(chat, n), budget), budget)
         /\ WindowContext(WindowMessages(chat, n), budget).strategy \in {"digests", "window"}
  <1> DEFINE k == Min({n, Len(chat)})
             lo == Len(chat) + 1 - k
             s == WindowMessages(chat, n)
  <1>1. Len(chat) \in Nat /\ n \in Int /\ Len(chat) \in Int
    BY DEF Keeps
  <1>2. k \in {n, Len(chat)} /\ k <= Len(chat)
    BY <1>1, OfTwo
  <1>3. s = From(chat, lo)
    BY DEF WindowMessages
  <1> HIDE DEF k
  <1>4. lo \in 1..(Len(chat) + 1)
    BY <1>1, <1>2
  <1> HIDE DEF lo, s
  <1>5. Keeps(chat, s)
    BY <1>3, <1>4, EndKeeps
  <1>6. Keeps(chat, <<>>)
    <2>1. <<>> \in Seq(Message) /\ Len(<<>>) = 0 /\ DOMAIN <<>> = 1..0
      OBVIOUS
    <2> QED
      BY <2>1 DEF Keeps
  <1>7. CASE Cost(s) <= budget
    BY <1>5, <1>7 DEF WindowContext, Bundle, Usable, s
  <1>8. CASE ~(Cost(s) <= budget)
    <2>1. WindowContext(s, budget) = DigestBundle
      BY <1>8 DEF WindowContext
    <2>2. DigestBundle.messages = <<>> /\ DigestBundle.strategy = "digests"
      BY DEF DigestBundle, Bundle
    <2>3. 0 <= budget
      OBVIOUS
    <2> QED
      BY <1>6, <2>1, <2>2, <2>3, NothingCostsNothing DEF Usable, s
  <1> QED
    BY <1>7, <1>8

(* The messages of a prompt fit, are in their order, and have the newest (select_context, fit_budget). *)
THEOREM PromptIsUsable ==
  ASSUME NEW in, ContextCase(in)
  PROVE  LET bundle == ResolveContext(in.synced, in.chat, in.q, in.fts, in.vec, in.limit, in.budget)
             got == bundle.messages
             newest == in.chat[Len(in.chat)] IN
         /\ Cost(got) <= in.budget \/ Len(got) = 1
         /\ \A i, j \in DOMAIN got : i < j => got[i].id < got[j].id
         /\ got = <<>> => in.chat = <<>> \/ bundle.strategy \in {"digests", "window"}
         /\ got # <<>> => got[Len(got)] = newest
  <1> DEFINE chat == in.chat
             budget == in.budget
             hits == HybridSearch(in.fts, in.vec, TopK)
             found == SearchContext(chat, hits, budget)
             window == WindowContext(WindowMessages(chat, in.q.window), budget)
             recent == RecentContext(chat, in.limit, budget)
             live == RecentContext(chat, Min({in.limit, LiveMax}), budget)
             got == ResolveContext(in.synced, chat, in.q, in.fts, in.vec, in.limit, budget)
  <1>1. Keeps(chat, chat) /\ budget \in Nat /\ in.limit \in Nat \ {0} /\ in.q.window \in Nat
    BY KeepsItself DEF ContextCase
  <1>2. Min({in.limit, LiveMax}) \in Nat \ {0}
    <2>1. LiveMax \in Nat \ {0} /\ in.limit \in Int /\ LiveMax \in Int
      BY <1>1, SearchAssumption
    <2>2. Min({in.limit, LiveMax}) \in {in.limit, LiveMax}
      BY <2>1, OfTwo
    <2> QED
      BY <1>1, <2>1, <2>2
  <1>3. \/ got = found /\ found.messages # <<>>
        \/ got = window
        \/ got = recent
        \/ got = live
    BY DEF ResolveContext, SelectContext
  <1> HIDE DEF chat, budget, hits
  <1>4. Usable(chat, found, budget)
    <2> HIDE DEF found
    <2> QED
      BY <1>1, SearchIsUsable DEF found
  <1>5. Usable(chat, window, budget) /\ window.strategy \in {"digests", "window"}
    BY <1>1, WindowIsUsable
  <1>6. /\ Usable(chat, recent, budget) /\ (chat # <<>> => recent.messages # <<>>)
        /\ Usable(chat, live, budget) /\ (chat # <<>> => live.messages # <<>>)
    BY <1>1, <1>2, RecentIsUsable
  <1> HIDE DEF got, found, window, recent, live
  <1>7. /\ Usable(chat, got, budget)
        /\ got.messages = <<>> => chat = <<>> \/ got.strategy \in {"digests", "window"}
    BY <1>3, <1>4, <1>5, <1>6
  <1>8. /\ Cost(got.messages) <= budget \/ Len(got.messages) = 1
        /\ \A i, j \in DOMAIN got.messages : i < j => got.messages[i].id < got.messages[j].id
        /\ got.messages # <<>> => got.messages[Len(got.messages)] = chat[Len(chat)]
    BY <1>7 DEF Usable, Keeps
  <1> QED
    BY <1>7, <1>8 DEF got, chat, budget

-----------------------------------------------------------------------------
(* Sequences of sequences.  FlattenSeq puts them together from the left; f    *)
(* has what is put together of the first ones.                               *)
Joins(f, ss, E) ==
  /\ f \in [0..Len(ss) -> Seq(E)] /\ f[0] = <<>>
  /\ \A i \in 1..Len(ss) : f[i] = f[i - 1] \o ss[i]

Flat(ss, E, r) == \E f : Joins(f, ss, E) /\ f[Len(ss)] = r

LEMMA FlattenIsFlat ==
  ASSUME NEW E, NEW ss \in Seq(Seq(E)), NEW r, Flat(ss, E, r)
  PROVE  FlattenSeq(ss) = r
  <1> DEFINE n == Len(ss)
             Flattens(g) == g = [i \in 1..n |-> IF i = 1 THEN ss[i] ELSE g[i - 1] \o ss[i]]
             g == CHOOSE g : Flattens(g)
  <1>1. n \in Nat /\ DOMAIN ss = 1..n /\ (ss = <<>> <=> n = 0)
    BY EmptyOrNot
  <1>2. FlattenSeq(ss) = IF n = 0 THEN ss ELSE g[n]
    BY DEF FlattenSeq
  <1>3. PICK f : Joins(f, ss, E) /\ f[n] = r
    BY DEF Flat
  <1>4. /\ f \in [0..n -> Seq(E)] /\ f[0] = <<>>
        /\ \A i \in 1..n : f[i] = f[i - 1] \o ss[i]
    BY <1>3 DEF Joins
  <1> HIDE DEF n
  <1>5. ASSUME NEW i \in 1..n
        PROVE  f[i] = IF i = 1 THEN ss[i] ELSE f[i - 1] \o ss[i]
    <2>1. CASE i = 1
      <3>1. ss[1] \in Seq(E) /\ f[1] = f[1 - 1] \o ss[1]
        BY <1>1, <1>4, <2>1, ElementOfSeq DEF n
      <3>2. 1 - 1 = 0
        OBVIOUS
      <3>3. <<>> \o ss[1] = ss[1]
        BY <3>1, ConcatEmptySeq
      <3> QED
        BY <1>4, <2>1, <3>1, <3>2, <3>3
    <2>2. CASE i # 1
      BY <1>4, <2>2
    <2> QED
      BY <2>1, <2>2
  <1>6. Flattens([i \in 1..n |-> f[i]])
    <2> DEFINE h == [i \in 1..n |-> f[i]]
    <2>1. ASSUME NEW i \in 1..n
          PROVE  h[i] = IF i = 1 THEN ss[i] ELSE h[i - 1] \o ss[i]
      <3>1. i # 1 => i - 1 \in 1..n
        BY <1>1
      <3> QED
        BY <1>5, <3>1
    <2>2. h = [i \in 1..n |-> h[i]]
      OBVIOUS
    <2> HIDE DEF h
    <2>3. [i \in 1..n |-> h[i]] = [i \in 1..n |-> IF i = 1 THEN ss[i] ELSE h[i - 1] \o ss[i]]
      BY <2>1
    <2>4. Flattens(h)
      BY <2>2, <2>3
    <2> QED
      BY <2>4 DEF h
  <1>7. Flattens(g)
    BY <1>6
  <1> HIDE DEF g
  <1> DEFINE G == {i \in 0..n : i = 0 \/ g[i] = f[i]}
  <1>8. 0 \in G
    BY <1>1
  <1>9. ASSUME NEW i \in 0..(n - 1), i \in G
        PROVE  i + 1 \in G
    <2>1. i + 1 \in 1..n /\ i + 1 \in 0..n /\ (i + 1) - 1 = i /\ (i + 1 = 1 <=> i = 0)
      BY <1>1
    <2>2. g[i + 1] = IF i + 1 = 1 THEN ss[i + 1] ELSE g[(i + 1) - 1] \o ss[i + 1]
      BY <1>7, <2>1
    <2>3. f[i + 1] = IF i + 1 = 1 THEN ss[i + 1] ELSE f[(i + 1) - 1] \o ss[i + 1]
      BY <1>5, <2>1
    <2>4. i # 0 => g[i] = f[i]
      BY <1>9
    <2>5. g[i + 1] = f[i + 1]
      BY <2>1, <2>2, <2>3, <2>4
    <2> QED
      BY <2>1, <2>5
  <1>10. n \in G
    <2>1. n \in 0..n
      BY <1>1
    <2> HIDE DEF G
    <2> QED
      BY <1>1, <1>8, <1>9, <2>1, UpTo
  <1>11. CASE n = 0
    BY <1>1, <1>2, <1>3, <1>4, <1>11
  <1>12. CASE n # 0
    BY <1>2, <1>3, <1>10, <1>12
  <1> QED
    BY <1>11, <1>12

LEMMA OneEmptyPart ==
  ASSUME NEW E
  PROVE  Flat(<<<<>>>>, E, <<>>)
  <1> DEFINE ss == <<<<>>>>
             f == [i \in 0..1 |-> <<>>]
  <1>1. Len(ss) = 1 /\ ss[1] = <<>> /\ <<>> \in Seq(E) /\ <<>> \o <<>> = <<>>
    OBVIOUS
  <1>2. f \in [0..1 -> Seq(E)] /\ f[0] = <<>> /\ f[1] = <<>> /\ \A i \in 1..1 : i = 1 /\ f[i] = <<>> /\ f[i - 1] = <<>>
    BY <1>1
  <1> HIDE DEF ss, f
  <1>3. Joins(f, ss, E)
    BY <1>1, <1>2 DEF Joins
  <1> QED
    BY <1>1, <1>2, <1>3 DEF Flat, ss

LEMMA OneMorePart ==
  ASSUME NEW E, NEW ss \in Seq(Seq(E)), NEW r, Flat(ss, E, r), NEW p \in Seq(E)
  PROVE  Flat(Append(ss, p), E, r \o p)
  <1> DEFINE n == Len(ss)
             new == Append(ss, p)
  <1>1. n \in Nat /\ Len(new) = n + 1 /\ new[n + 1] = p /\ \A i \in 1..n : new[i] = ss[i]
    BY AppendProperties, LenProperties
  <1>2. PICK f : Joins(f, ss, E) /\ f[n] = r
    BY DEF Flat
  <1>3. /\ f \in [0..n -> Seq(E)] /\ f[0] = <<>> /\ f[n] = r /\ r \in Seq(E)
        /\ \A i \in 1..n : f[i] = f[i - 1] \o ss[i]
    <2>1. n \in 0..n
      BY <1>1
    <2> QED
      BY <1>2, <2>1 DEF Joins
  <1> HIDE DEF n, new
  <1> DEFINE g == [i \in 0..(n + 1) |-> IF i = n + 1 THEN r \o p ELSE f[i]]
  <1>4. /\ g[0] = <<>> /\ g[n + 1] = r \o p
        /\ \A i \in 0..n : g[i] = f[i]
    <2>1. 0 \in 0..(n + 1) /\ n + 1 \in 0..(n + 1) /\ 0 # n + 1
      BY <1>1
    <2>2. \A i \in 0..n : i \in 0..(n + 1) /\ i # n + 1
      BY <1>1
    <2> QED
      BY <1>3, <2>1, <2>2
  <1>5. g \in [0..(n + 1) -> Seq(E)]
    <2>1. r \o p \in Seq(E)
      BY <1>3, ConcatProperties
    <2>2. \A i \in 0..(n + 1) : i # n + 1 => i \in 0..n
      BY <1>1
    <2> QED
      BY <1>3, <2>1, <2>2
  <1> HIDE DEF g
  <1>6. ASSUME NEW i \in 1..(n + 1)
        PROVE  g[i] = g[i - 1] \o new[i]
    <2>1. CASE i = n + 1
      <3>1. i - 1 = n /\ n \in 0..n
        BY <1>1, <2>1
      <3> QED
        BY <1>1, <1>3, <1>4, <2>1, <3>1
    <2>2. CASE i # n + 1
      <3>1. i \in 1..n /\ i \in 0..n /\ i - 1 \in 0..n
        BY <1>1, <2>2
      <3> QED
        BY <1>1, <1>3, <1>4, <3>1
    <2> QED
      BY <2>1, <2>2
  <1>7. Joins(g, new, E)
    BY <1>1, <1>4, <1>5, <1>6 DEF Joins
  <1> QED
    BY <1>1, <1>4, <1>7 DEF Flat, new

(* A part can be taken away again, and another be put in its place. *)
LEMMA LastPart ==
  ASSUME NEW E, NEW ss \in Seq(Seq(E)), ss # <<>>, NEW r, Flat(ss, E, r)
  PROVE  \E q \in Seq(E) : /\ r = q \o ss[Len(ss)]
                           /\ \A p \in Seq(E) : Flat([ss EXCEPT ![Len(ss)] = p], E, q \o p)
  <1> DEFINE n == Len(ss)
  <1>1. n \in Nat /\ n # 0 /\ n \in 1..n
    BY EmptyOrNot
  <1>2. PICK f : Joins(f, ss, E) /\ f[n] = r
    BY DEF Flat
  <1>3. /\ f \in [0..n -> Seq(E)] /\ f[0] = <<>>
        /\ \A i \in 1..n : f[i] = f[i - 1] \o ss[i]
    BY <1>2 DEF Joins
  <1> DEFINE q == f[n - 1]
  <1>4. q \in Seq(E) /\ r = q \o ss[n]
    <2>1. n - 1 \in 0..n
      BY <1>1
    <2> QED
      BY <1>1, <1>2, <1>3, <2>1
  <1>5. ASSUME NEW p \in Seq(E)
        PROVE  Flat([ss EXCEPT ![n] = p], E, q \o p)
    <2> DEFINE new == [ss EXCEPT ![n] = p]
               g == [i \in 0..n |-> IF i = n THEN q \o p ELSE f[i]]
    <2>1. Len(new) = n /\ \A i \in 1..n : new[i] = IF i = n THEN p ELSE ss[i]
      BY <1>1, ExceptSeq
    <2>2. q \o p \in Seq(E)
      BY <1>4, ConcatProperties
    <2>3. g \in [0..n -> Seq(E)]
      BY <1>3, <2>2
    <2>4. g[0] = <<>> /\ g[n] = q \o p /\ \A i \in 0..n : i # n => g[i] = f[i]
      BY <1>1, <1>3
    <2> HIDE DEF g, q, new, n
    <2>5. ASSUME NEW i \in 1..n
          PROVE  g[i] = g[i - 1] \o new[i]
      <3>0. i \in 0..n /\ i - 1 \in 0..n /\ i - 1 # n
        BY <1>1
      <3>1. CASE i = n
        BY <2>1, <2>4, <3>0, <3>1 DEF q
      <3>2. CASE i # n
        BY <1>3, <2>1, <2>4, <3>0, <3>2
      <3> QED
        BY <3>1, <3>2
    <2>6. Joins(g, new, E)
      BY <2>1, <2>3, <2>4, <2>5 DEF Joins
    <2>7. Flat(new, E, q \o p)
      BY <2>1, <2>4, <2>6 DEF Flat
    <2> QED
      BY <2>7 DEF new
  <1> QED
    BY <1>4, <1>5

LEMMA AppendedLast ==
  ASSUME NEW E, NEW q \in Seq(E), NEW l \in Seq(E), NEW x \in E
  PROVE  /\ Append(l, x) \in Seq(E)
         /\ q \o Append(l, x) = (q \o l) \o <<x>>
  <1> DEFINE y == <<x>>
  <1>1. y \in Seq(E)
    OBVIOUS
  <1>2. Append(l, x) \in Seq(E) /\ Append(l, x) = l \o y
    BY AppendProperties, AppendIsConcat
  <1> HIDE DEF y
  <1>3. (q \o l) \o y = q \o (l \o y)
    BY <1>1, ConcatAssociative
  <1> QED
    BY <1>2, <1>3 DEF y

LEMMA LineInLastPart ==
  ASSUME NEW E, NEW ss \in Seq(Seq(E)), ss # <<>>, NEW r, Flat(ss, E, r), NEW x \in E
  PROVE  Flat([ss EXCEPT ![Len(ss)] = Append(@, x)], E, r \o <<x>>)
  <1> DEFINE n == Len(ss)
             last == ss[n]
             p == Append(last, x)
  <1>1. last \in Seq(E)
    BY LastInSeq
  <1>2. PICK q \in Seq(E) : r = q \o last /\ \A t \in Seq(E) : Flat([ss EXCEPT ![n] = t], E, q \o t)
    BY LastPart
  <1>3. p \in Seq(E) /\ q \o p = (q \o last) \o <<x>>
    <2> HIDE DEF last
    <2> QED
      BY <1>1, AppendedLast
  <1>4. Flat([ss EXCEPT ![n] = p], E, q \o p)
    BY <1>2, <1>3
  <1>5. q \o p = r \o <<x>>
    BY <1>2, <1>3
  <1> QED
    BY <1>4, <1>5

-----------------------------------------------------------------------------
(* How large a part is: each line, and its end, for itself.                 *)
Widths(s) == [i \in DOMAIN s |-> s[i] + 1]

LEMMA SizeIsShares ==
  ASSUME NEW s \in Seq(Nat)
  PROVE  Size(s) = Cardinality(Shares(DOMAIN s, Widths(s))) /\ IsFiniteSet(Shares(DOMAIN s, Widths(s)))
  <1> DEFINE D == DOMAIN s
             v == Widths(s)
             Adds(g) == g = [t \in SUBSET D |-> IF t = {} THEN 0 ELSE s[One(t)] + 1 + g[t \ {One(t)}]]
             g == CHOOSE g : Adds(g)
  <1>1. Size(s) = g[D]
    BY DEF Size, FoldSeq, FoldFunction, FoldFunctionOnSet, MapThenFoldSet, One
  <1>2. Len(s) \in Nat /\ D = 1..Len(s) /\ \A i \in D : s[i] \in Nat
    BY LenProperties, ElementOfSeq
  <1>3. \A i \in D : v[i] = s[i] + 1 /\ v[i] \in Nat
    BY <1>2 DEF Widths
  <1>4. IsFiniteSet(D)
    <2>1. 1 \in Int /\ Len(s) \in Int
      BY <1>2
    <2> QED
      BY <1>2, <2>1, FS_Interval
  <1>5. ASSUME NEW f
        PROVE  Adds(f) <=> SumsUp(f, D, v)
    <2>1. ASSUME NEW t \in SUBSET D
          PROVE  (IF t = {} THEN 0 ELSE s[One(t)] + 1 + f[t \ {One(t)}])
                   = (IF t = {} THEN 0 ELSE v[One(t)] + f[t \ {One(t)}])
      <3>1. t # {} => One(t) \in D
        BY DEF One
      <3> QED
        BY <1>3, <3>1
    <2>2. [t \in SUBSET D |-> IF t = {} THEN 0 ELSE s[One(t)] + 1 + f[t \ {One(t)}]]
            = [t \in SUBSET D |-> IF t = {} THEN 0 ELSE v[One(t)] + f[t \ {One(t)}]]
      BY <2>1
    <2> QED
      BY <2>2 DEF SumsUp
  <1> HIDE DEF v, D
  <1>6. \E f : SumsUp(f, D, v)
    BY <1>3, <1>4, SumIsShares
  <1>7. Adds(g)
    BY <1>5, <1>6
  <1> HIDE DEF g
  <1>8. SumsUp(g, D, v)
    BY <1>5, <1>7
  <1>9. g[D] = Cardinality(Shares(D, v)) /\ IsFiniteSet(Shares(D, v))
    BY <1>3, <1>4, <1>8, SumIsShares, FiniteShares
  <1> QED
    BY <1>1, <1>9 DEF v, D

LEMMA SizeOfMore ==
  ASSUME NEW s \in Seq(Nat), NEW x \in Nat
  PROVE  Size(s) \in Nat /\ Size(Append(s, x)) = Size(s) + x + 1
  <1> DEFINE n == Len(s)
             new == Append(s, x)
             v == Widths(s)
             w == Widths(new)
             D == 1..n
  <1>1. n \in Nat /\ DOMAIN s = D /\ \A i \in D : s[i] \in Nat
    BY LenProperties, ElementOfSeq
  <1>2. new \in Seq(Nat) /\ Len(new) = n + 1 /\ new[n + 1] = x /\ \A i \in D : new[i] = s[i]
    BY AppendProperties
  <1>3. DOMAIN new = D \cup {n + 1} /\ n + 1 \notin D
    <2>1. DOMAIN new = 1..(n + 1)
      <3> HIDE DEF new, n
      <3> QED
        BY <1>2, LenProperties
    <2> QED
      BY <1>1, <2>1
  <1>4. Size(s) = Cardinality(Shares(D, v)) /\ IsFiniteSet(Shares(D, v))
    BY <1>1, SizeIsShares
  <1>5. Size(new) = Cardinality(Shares(D \cup {n + 1}, w))
    <2> HIDE DEF new, D, w, n
    <2> QED
      BY <1>2, <1>3, SizeIsShares DEF w
  <1>6. /\ \A i \in D : v[i] = s[i] + 1 /\ w[i] = s[i] + 1
        /\ w[n + 1] = x + 1 /\ w[n + 1] \in Nat
    BY <1>1, <1>2, <1>3 DEF Widths
  <1> HIDE DEF v, w, D, new, n
  <1>7. Shares(D, w) = Shares(D, v)
    BY <1>6 DEF Shares
  <1>8. /\ Cardinality(Shares(D, w)) \in Nat
        /\ Cardinality(Shares(D \cup {n + 1}, w)) = Cardinality(Shares(D, w)) + w[n + 1]
    BY <1>3, <1>4, <1>6, <1>7, SharesOfMore
  <1>9. Size(s) \in Nat /\ Size(new) = Size(s) + (x + 1)
    BY <1>4, <1>5, <1>6, <1>7, <1>8
  <1> QED
    BY <1>9 DEF new

(* A part is no larger than its size, but for the end of a line, or it is one line. *)
GoodPart(p) == Size(p) <= ChunkSize + 1 \/ Len(p) = 1
Parted(lines, chunks, i) ==
  /\ chunks \in Seq(Seq(Nat)) /\ chunks # <<>>
  /\ Flat(chunks, Nat, SubSeq(lines, 1, i))
  /\ \A k \in 1..Len(chunks) : GoodPart(chunks[k])

LEMMA LineType ==
  ASSUME NEW line \in Nat, NEW chunks \in Seq(Seq(Nat)) \ {<<>>}
  PROVE  AddLine(line, chunks) \in Seq(Seq(Nat)) \ {<<>>}
  <1> DEFINE P == Seq(Nat)
             n == Len(chunks)
             last == chunks[n]
  <1>1. chunks \in Seq(P) /\ n \in 1..n /\ n \in Nat \ {0} /\ last \in P
    BY LastInSeq
  <1>2. <<line>> \in P /\ Append(last, line) \in P
    BY <1>1, AppendProperties
  <1>3. AddLine(line, chunks) = Append(chunks, <<line>>) \/ AddLine(line, chunks) = [chunks EXCEPT ![n] = Append(last, line)]
    BY DEF AddLine
  <1> DEFINE one == <<line>>
             more == Append(last, line)
  <1> HIDE DEF P, one, more
  <1>4. Append(chunks, one) \in Seq(P) /\ Append(chunks, one) # <<>>
    BY <1>1, <1>2, AppendProperties DEF one
  <1>5. [chunks EXCEPT ![n] = more] \in Seq(P) /\ Len([chunks EXCEPT ![n] = more]) = n
    BY <1>1, <1>2, ExceptSeq DEF more
  <1>6. [chunks EXCEPT ![n] = more] # <<>>
    BY <1>1, <1>5, EmptyOrNot
  <1> QED
    BY <1>3, <1>4, <1>5, <1>6 DEF P, one, more

LEMMA LineParted ==
  ASSUME NEW lines \in Seq(Nat), NEW i \in 0..(Len(lines) - 1), NEW chunks, Parted(lines, chunks, i)
  PROVE  Parted(lines, AddLine(lines[i + 1], chunks), i + 1)
  <1> DEFINE n == Len(chunks)
             last == chunks[n]
             line == lines[i + 1]
             r == SubSeq(lines, 1, i)
             P == Seq(Nat)
             new == AddLine(line, chunks)
  <1>0. Len(lines) \in Nat
    BY LenProperties
  <1>1. i \in Nat /\ i + 1 \in 1..Len(lines) /\ (i + 1) - 1 = i
    BY <1>0
  <1>2. line \in Nat
    BY <1>1, ElementOfSeq
  <1>3. /\ chunks \in Seq(P) /\ chunks # <<>> /\ Flat(chunks, Nat, r) /\ \A k \in 1..n : GoodPart(chunks[k])
    BY DEF Parted
  <1>4. n \in Nat \ {0} /\ n \in 1..n /\ last \in P
    BY <1>3, LastInSeq
  <1>5. SubSeq(lines, 1, i + 1) = r \o <<line>>
    <2>1. 1 \in 1..Len(lines) /\ i + 1 \in 1..Len(lines)
      BY <1>0, <1>1
    <2>2. SubSeq(lines, 1, i + 1) = SubSeq(lines, 1, (i + 1) - 1) \o <<lines[i + 1]>>
      BY <2>1, SubSeqRecursiveSecond
    <2> QED
      BY <1>1, <2>2
  <1>6. new \in Seq(P) /\ new # <<>>
    BY <1>2, <1>3, LineType
  <1> HIDE DEF r, line
  <1>7. ASSUME last # <<>> /\ Size(last) + line > ChunkSize
        PROVE  Flat(new, Nat, r \o <<line>>) /\ \A k \in 1..Len(new) : GoodPart(new[k])
    <2> DEFINE one == <<line>>
    <2>1. new = Append(chunks, one) /\ one \in P /\ Len(one) = 1
      BY <1>2, <1>7 DEF AddLine
    <2> HIDE DEF one
    <2>2. Flat(new, Nat, r \o one)
      BY <1>3, <2>1, OneMorePart
    <2> HIDE DEF new, P
    <2>3. Len(new) = n + 1 /\ new[n + 1] = one /\ \A k \in 1..n : new[k] = chunks[k]
      BY <1>3, <2>1, AppendProperties
    <2>4. ASSUME NEW k \in 1..Len(new)
          PROVE  GoodPart(new[k])
      <3>1. k \in 1..n \/ k = n + 1
        BY <1>4, <2>3
      <3>2. GoodPart(one)
        BY <2>1 DEF GoodPart
      <3> QED
        BY <1>3, <2>3, <3>1, <3>2
    <2> QED
      BY <2>2, <2>4 DEF one
  <1>8. ASSUME ~(last # <<>> /\ Size(last) + line > ChunkSize)
        PROVE  Flat(new, Nat, r \o <<line>>) /\ \A k \in 1..Len(new) : GoodPart(new[k])
    <2> DEFINE more == Append(last, line)
    <2>1. new = [chunks EXCEPT ![n] = Append(@, line)] /\ new = [chunks EXCEPT ![n] = more]
      BY <1>8 DEF AddLine
    <2>2. Flat(new, Nat, r \o <<line>>)
      <3>1. chunks \in Seq(Seq(Nat)) /\ chunks # <<>> /\ Flat(chunks, Nat, r)
        BY <1>3
      <3>2. Flat([chunks EXCEPT ![Len(chunks)] = Append(@, line)], Nat, r \o <<line>>)
        BY <1>2, <3>1, LineInLastPart
      <3> HIDE DEF new
      <3> QED
        BY <2>1, <3>2
    <2>3. more \in P /\ Len(more) = Len(last) + 1
      BY <1>2, <1>4, AppendProperties
    <2>4. GoodPart(more)
      <3>1. CASE last = <<>>
        <4>1. Len(last) = 0
          BY <3>1
        <4> QED
          BY <2>3, <4>1 DEF GoodPart
      <3>2. CASE last # <<>>
        <4>1. Size(last) \in Nat /\ Size(more) = Size(last) + line + 1
          BY <1>2, <1>4, SizeOfMore
        <4>2. ~(Size(last) + line > ChunkSize) /\ ChunkSize \in Nat
          BY <1>8, <3>2, SearchAssumption
        <4>3. Size(more) <= ChunkSize + 1
          BY <1>2, <4>1, <4>2
        <4> QED
          BY <4>3 DEF GoodPart
      <3> QED
        BY <3>1, <3>2
    <2> HIDE DEF more, new, P
    <2>5. Len(new) = n /\ \A k \in 1..n : new[k] = IF k = n THEN more ELSE chunks[k]
      <3>1. chunks \in Seq(P) /\ n \in 1..Len(chunks) /\ more \in P
        BY <1>3, <1>4, <2>3
      <3>2. /\ Len([chunks EXCEPT ![n] = more]) = Len(chunks)
            /\ \A k \in 1..Len(chunks) : [chunks EXCEPT ![n] = more][k] = IF k = n THEN more ELSE chunks[k]
        BY <3>1, ExceptSeq
      <3> QED
        BY <2>1, <3>2
    <2>6. \A k \in 1..Len(new) : GoodPart(new[k])
      BY <1>3, <2>4, <2>5
    <2> QED
      BY <2>2, <2>6
  <1>9. Flat(new, Nat, r \o <<line>>) /\ \A k \in 1..Len(new) : GoodPart(new[k])
    BY <1>7, <1>8
  <1> HIDE DEF new
  <1>10. Parted(lines, new, i + 1)
    BY <1>5, <1>6, <1>9 DEF Parted
  <1> QED
    BY <1>10 DEF new, line

SplitsUp(g, lines) ==
  g = [s \in SUBSET (DOMAIN lines) |-> IF s = {} THEN <<<<>>>> ELSE AddLine(lines[Max(s)], g[s \ {Max(s)}])]

LEMMA ChunkSteps ==
  ASSUME NEW lines \in Seq(Nat)
  PROVE  \E w : /\ w[0] = <<<<>>>>
                /\ \A i \in 1..Len(lines) : w[i] = AddLine(lines[i], w[i - 1])
                /\ Chunks(lines) = w[Len(lines)]
  <1> DEFINE n == Len(lines)
             V == Seq(Seq(Nat)) \ {<<>>}
             g == CHOOSE g : SplitsUp(g, lines)
             h == [p \in (1..n) \X V |-> AddLine(lines[p[1]], p[2])]
             w == [i \in 0..n |-> g[1..i]]
             start == <<<<>>>>
  <1>1. n \in Nat /\ DOMAIN lines = 1..n /\ \A i \in 1..n : lines[i] \in Nat
    BY LenProperties, ElementOfSeq
  <1>2. Chunks(lines) = g[DOMAIN lines]
    BY DEF Chunks, FoldLeft, MapThenFoldSet, SplitsUp
  <1>3. start \in V
    OBVIOUS
  <1>4. h \in [(1..n) \X V -> V]
    BY <1>1, LineType
  <1> HIDE DEF V, start
  <1>5. \E f : SplitsUp(f, lines)
    <2>1. PICK f \in [SUBSET (1..n) -> V] : Unwound(f, n, start, h)
      <3> HIDE DEF h, n
      <3> QED
        BY <1>1, <1>3, <1>4, FoldExists
    <2>2. ASSUME NEW s \in SUBSET (1..n)
          PROVE  f[s] = IF s = {} THEN start ELSE AddLine(lines[Max(s)], f[s \ {Max(s)}])
      <3>1. CASE s # {}
        <4>1. Max(s) \in 1..n /\ f[s \ {Max(s)}] \in V
          BY <1>1, <3>1, GreatestPosition
        <4>2. h[<<Max(s), f[s \ {Max(s)}]>>] = AddLine(lines[Max(s)], f[s \ {Max(s)}])
          BY <4>1
        <4> HIDE DEF h
        <4> QED
          BY <2>1, <3>1, <4>2 DEF Unwound
      <3> HIDE DEF h
      <3> QED
        BY <2>1, <3>1 DEF Unwound
    <2>3. SplitsUp(f, lines)
      BY <1>1, <2>2 DEF SplitsUp, start
    <2> QED
      BY <2>3
  <1>6. SplitsUp(g, lines)
    BY <1>5
  <1> HIDE DEF g
  <1>7. w[0] = start /\ \A i \in 1..n : w[i] = AddLine(lines[i], w[i - 1])
    <2>1. 0 \in 0..n /\ \A i \in 1..n : i \in 0..n /\ i - 1 \in 0..n
      BY <1>1
    <2>2. g[{}] = start
      BY <1>6 DEF SplitsUp, start
    <2>3. ASSUME NEW i \in 1..n
          PROVE  g[1..i] = AddLine(lines[i], g[1..(i - 1)])
      <3>0. n \in Nat /\ DOMAIN lines = 1..n /\ i \in 1..n /\ i \in 0..n
        BY <1>1
      <3> HIDE DEF n
      <3>1. 1..i \in SUBSET (DOMAIN lines) /\ 1..i # {} /\ Max(1..i) = i /\ (1..i) \ {Max(1..i)} = 1..(i - 1)
        BY <3>0, FirstPositions
      <3>2. g[1..i] = AddLine(lines[Max(1..i)], g[(1..i) \ {Max(1..i)}])
        BY <1>6, <3>1 DEF SplitsUp
      <3> QED
        BY <3>1, <3>2
    <2> QED
      BY <1>1, <2>1, <2>2, <2>3, FirstPositions
  <1>8. w[n] = g[DOMAIN lines]
    BY <1>1 DEF w
  <1> QED
    BY <1>2, <1>7, <1>8 DEF start

LEMMA ChunksAreParted ==
  ASSUME NEW lines \in Seq(Nat)
  PROVE  Parted(lines, Chunks(lines), Len(lines))
  <1> DEFINE n == Len(lines)
             start == <<<<>>>>
  <1>1. n \in Nat
    BY LenProperties
  <1>2. PICK w : /\ w[0] = start /\ \A i \in 1..n : w[i] = AddLine(lines[i], w[i - 1])
                 /\ Chunks(lines) = w[n]
    BY ChunkSteps
  <1> DEFINE G == {i \in 0..n : Parted(lines, w[i], i)}
  <1>3. Parted(lines, start, 0)
    <2>1. start \in Seq(Seq(Nat)) /\ start # <<>> /\ Len(start) = 1 /\ \A k \in 1..1 : start[k] = <<>>
      OBVIOUS
    <2>2. SubSeq(lines, 1, 0) = <<>>
      BY SubSeqEmpty
    <2>3. Flat(start, Nat, <<>>)
      BY OneEmptyPart
    <2>4. GoodPart(<<>>)
      <3>1. Shares(DOMAIN <<>>, Widths(<<>>)) = {} /\ <<>> \in Seq(Nat)
        BY DEF Shares
      <3>2. Size(<<>>) = 0
        BY <3>1, SizeIsShares, FS_EmptySet
      <3> QED
        BY <3>2, SearchAssumption DEF GoodPart
    <2> HIDE DEF start
    <2> QED
      BY <2>1, <2>2, <2>3, <2>4 DEF Parted
  <1> HIDE DEF start
  <1>4. 0 \in G
    BY <1>1, <1>2, <1>3
  <1>5. ASSUME NEW i \in 0..(n - 1), i \in G
        PROVE  i + 1 \in G
    <2>1. i + 1 \in 1..n /\ i + 1 \in 0..n /\ (i + 1) - 1 = i
      BY <1>1
    <2>2. w[i + 1] = AddLine(lines[i + 1], w[i])
      BY <1>2, <2>1
    <2>3. Parted(lines, AddLine(lines[i + 1], w[i]), i + 1)
      BY <1>5, LineParted
    <2> QED
      BY <2>1, <2>2, <2>3
  <1>6. n \in G
    <2>1. n \in 0..n
      BY <1>1
    <2> HIDE DEF G, n
    <2> QED
      BY <1>1, <1>4, <1>5, <2>1, UpTo
  <1> QED
    BY <1>2, <1>6

LEMMA NewestIsSuffix ==
  ASSUME NEW S, NEW s \in Seq(S), s # <<>>, NEW m \in Nat \ {0}
  PROVE  IsSuffix(Newest(s, m), s) /\ Len(Newest(s, m)) <= m
  <1> DEFINE n == Len(s)
             e == n - m + 1
             lo == Max({1, e})
             t == Newest(s, m)
  <1>1. n \in Nat \ {0} /\ DOMAIN s = 1..n
    BY EmptyOrNot
  <1>2. e \in Int /\ e <= n /\ 1 \in Int
    BY <1>1
  <1>3. lo \in {1, e} /\ lo >= 1 /\ lo >= e
    <2> HIDE DEF e
    <2> QED
      BY <1>2, OfTwo
  <1>4. t = SubSeq(s, lo, n)
    BY DEF Newest, From
  <1> HIDE DEF lo
  <1>5. lo \in 1..n /\ n - lo + 1 <= m /\ n - lo + 1 \in 1..n /\ lo \in Nat \ {0} /\ n \in 0..n
    BY <1>1, <1>2, <1>3
  <1> DEFINE l == n - lo + 1
  <1>6. Len(t) = l /\ \A i \in 1..l : t[i] = s[lo + i - 1]
    <2>1. /\ Len(SubSeq(s, lo, n)) = IF lo <= n THEN n - lo + 1 ELSE 0
          /\ \A i \in 1..Len(SubSeq(s, lo, n)) : SubSeq(s, lo, n)[i] = s[lo + i - 1]
      BY <1>1, <1>5, PieceOf
    <2> QED
      BY <1>4, <1>5, <2>1
  <1> HIDE DEF t
  <1>7. l \in 1..n /\ l \in Nat
    BY <1>1, <1>5
  <1> DEFINE a == Reverse(t)
             b == Reverse(s)
  <1>8. /\ Len(a) = l /\ \A i \in 1..l : a[i] = t[(l - i) + 1]
        /\ Len(b) = n /\ \A i \in 1..n : b[i] = s[(n - i) + 1]
    BY <1>1, <1>6, <1>7 DEF Reverse
  <1>9. ASSUME NEW i \in 1..l
        PROVE  a[i] = b[i] /\ a[i] \in S
    <2>1. i \in 1..n /\ (l - i) + 1 \in 1..l /\ lo + ((l - i) + 1) - 1 = (n - i) + 1 /\ (n - i) + 1 \in 1..n
      BY <1>1, <1>5, <1>7
    <2>2. a[i] = s[lo + ((l - i) + 1) - 1]
      BY <1>6, <1>8, <2>1
    <2>3. b[i] = s[(n - i) + 1] /\ s[(n - i) + 1] \in S
      BY <1>8, <2>1, ElementOfSeq
    <2> QED
      BY <2>1, <2>2, <2>3
  <1> HIDE DEF a, b, l
  <1>10. SubSeq(a, 1, l) = SubSeq(b, 1, l)
    <2>1. \A i \in 1..l : a[i] \in S /\ b[i] \in S
      BY <1>9
    <2>2. 1 \in Int /\ l \in Int /\ l - 1 + 1 = l /\ 1 <= l
      BY <1>7
    <2>3. /\ SubSeq(a, 1, l) \in Seq(S) /\ Len(SubSeq(a, 1, l)) = l
          /\ \A i \in 1..l : SubSeq(a, 1, l)[i] = a[1 + i - 1]
      BY <2>1, <2>2, SubSeqProperties
    <2>4. /\ SubSeq(b, 1, l) \in Seq(S) /\ Len(SubSeq(b, 1, l)) = l
          /\ \A i \in 1..l : SubSeq(b, 1, l)[i] = b[1 + i - 1]
      BY <2>1, <2>2, SubSeqProperties
    <2>5. \A i \in 1..l : SubSeq(a, 1, l)[i] = SubSeq(b, 1, l)[i]
      <3> SUFFICES ASSUME NEW i \in 1..l
                   PROVE  SubSeq(a, 1, l)[i] = SubSeq(b, 1, l)[i]
        OBVIOUS
      <3>1. 1 + i - 1 = i
        BY <2>2
      <3> QED
        BY <1>9, <2>3, <2>4, <3>1
    <2> QED
      BY <2>3, <2>4, <2>5, SeqEqual
  <1>11. IsPrefix(a, b)
    BY <1>1, <1>7, <1>8, <1>10 DEF IsPrefix
  <1> QED
    BY <1>5, <1>6, <1>11 DEF IsSuffix, a, b, t, l

(* The parts of a window together are the window, those that are summarised its end, and none is larger *)
(* than it may be (compact_window). *)
THEOREM PartsMakeTheWhole ==
  ASSUME NEW lines, PartsCase(lines)
  PROVE  LET parts == Chunks(lines)
             kept == NewestChunks(lines) IN
         /\ FlattenSeq(parts) = lines
         /\ IsSuffix(kept, parts) /\ Len(kept) <= MaxChunks
         /\ \A i \in DOMAIN parts : Size(parts[i]) <= ChunkSize + 1 \/ Len(parts[i]) = 1
  <1> DEFINE parts == Chunks(lines)
  <1>1. lines \in Seq(Nat)
    BY DEF PartsCase
  <1>2. Parted(lines, parts, Len(lines))
    BY <1>1, ChunksAreParted
  <1> HIDE DEF parts
  <1>3. /\ parts \in Seq(Seq(Nat)) /\ parts # <<>> /\ Flat(parts, Nat, SubSeq(lines, 1, Len(lines)))
        /\ \A k \in 1..Len(parts) : GoodPart(parts[k])
    BY <1>2 DEF Parted
  <1>4. FlattenSeq(parts) = SubSeq(lines, 1, Len(lines))
    BY <1>3, FlattenIsFlat
  <1>5. SubSeq(lines, 1, Len(lines)) = lines
    BY <1>1, SubSeqFull
  <1>6. IsSuffix(Newest(parts, MaxChunks), parts) /\ Len(Newest(parts, MaxChunks)) <= MaxChunks
    <2>1. MaxChunks \in Nat \ {0}
      BY SearchAssumption
    <2> QED
      BY <1>3, <2>1, NewestIsSuffix
  <1>7. DOMAIN parts = 1..Len(parts)
    BY <1>3, EmptyOrNot
  <1> QED
    BY <1>3, <1>4, <1>5, <1>6, <1>7 DEF parts, NewestChunks, GoodPart

(* The requests for a channel's posts: the i-th ends where the next begins. *)
LEMMA RequestsMeet ==
  ASSUME NEW E, NEW ids \in Seq(E)
  PROVE  /\ Chunked(ids) \in Seq(Seq(E)) /\ Len(Chunked(ids)) \in Nat
         /\ Len(ids) <= SnapshotBatch * Len(Chunked(ids))
         /\ \A i \in 1..Len(Chunked(ids)) :
              SubSeq(ids, 1, Min({i * SnapshotBatch, Len(ids)}))
                = SubSeq(ids, 1, Min({(i - 1) * SnapshotBatch, Len(ids)})) \o Chunked(ids)[i]
  <1> DEFINE n == Len(ids)
             b == SnapshotBatch
             q == (n + b - 1) \div b
             End(i) == Min({i * b, n})
             cut == Chunked(ids)
  <1>1. n \in Nat /\ DOMAIN ids = 1..n /\ b \in Nat \ {0} /\ n + b - 1 \in Nat
    BY LenProperties, MetricsAssumption
  <1>2. q \in Nat /\ b * q <= n + b - 1 /\ n + b - 1 < b * (q + 1)
    <2> DEFINE a == n + b - 1
    <2>1. a \in Nat /\ b \in Nat \ {0}
      BY <1>1
    <2> HIDE DEF a, b
    <2>2. a \div b \in Nat /\ b * (a \div b) <= a /\ a < b * ((a \div b) + 1)
      BY <2>1, Quotient
    <2> QED
      BY <2>2 DEF a
  <1>3. cut = [i \in 1..q |-> SubSeq(ids, (i - 1) * b + 1, End(i))]
    BY DEF Chunked
  <1> HIDE DEF q, b, n
  <1>4. n <= b * q
    <2>1. b * (q + 1) = b * q + b /\ b * q \in Int
      BY <1>1, <1>2
    <2> QED
      BY <1>1, <1>2, <2>1
  <1>5. ASSUME NEW i \in 1..q
        PROVE  /\ i * b \in Nat /\ (i - 1) * b \in Nat /\ (i - 1) * b = i * b - b /\ i * b <= n + b - 1
    <2>1. i \in Nat /\ i - 1 \in Nat /\ b \in Nat /\ i <= q /\ q \in Nat
      BY <1>1, <1>2
    <2>2. i * b <= q * b /\ q * b = b * q
      BY <2>1, Products
    <2>3. i * b \in Nat /\ (i - 1) * b \in Nat /\ (i - 1) * b = i * b - b /\ q * b \in Nat
      BY <2>1
    <2> QED
      BY <1>1, <1>2, <2>2, <2>3
  <1>6. ASSUME NEW i \in 1..q
        PROVE  /\ End(i) \in (i - 1) * b + 1..n
               /\ End(i - 1) = (i - 1) * b /\ (i - 1) * b \in 0..(n - 1)
    <2> DEFINE x == i * b
               y == (i - 1) * b
    <2>1. x \in Nat /\ y \in Nat /\ y = x - b /\ x <= n + b - 1
      BY <1>5
    <2> HIDE DEF x, y
    <2>2. y <= n - 1 /\ y + 1 <= x
      BY <1>1, <2>1
    <2>3. Min({x, n}) \in {x, n} /\ Min({x, n}) <= x /\ Min({x, n}) <= n /\ Min({y, n}) \in {y, n} /\ Min({y, n}) <= y
      <3>1. x \in Int /\ y \in Int /\ n \in Int
        BY <1>1, <2>1
      <3> QED
        BY <3>1, OfTwo
    <2>4. Min({x, n}) \in (y + 1)..n /\ Min({y, n}) = y /\ y \in 0..(n - 1)
      BY <1>1, <2>1, <2>2, <2>3
    <2> QED
      BY <2>4 DEF x, y
  <1>7. ASSUME NEW i \in 1..q
        PROVE  SubSeq(ids, (i - 1) * b + 1, End(i)) \in Seq(E)
    <2> DEFINE lo == (i - 1) * b + 1
    <2>1. lo \in Nat \ {0} /\ End(i) \in 0..Len(ids)
      <3> DEFINE y == (i - 1) * b
                 e == End(i)
      <3>1. y \in Nat /\ e \in (y + 1)..n
        BY <1>5, <1>6
      <3> HIDE DEF y, e
      <3>2. y + 1 \in Nat \ {0} /\ e \in 0..n
        BY <1>1, <3>1
      <3> QED
        BY <3>2 DEF y, e, n
    <2> HIDE DEF lo
    <2>2. SubSeq(ids, lo, End(i)) \in Seq(E)
      BY <2>1, PieceOf
    <2> QED
      BY <2>2 DEF lo
  <1> HIDE DEF cut
  <1>8. cut \in Seq(Seq(E)) /\ Len(cut) = q
    <2> HIDE DEF End
    <2> QED
      BY <1>2, <1>3, <1>7, IsASeq
  <1>9. ASSUME NEW i \in 1..q
        PROVE  SubSeq(ids, 1, End(i)) = SubSeq(ids, 1, End(i - 1)) \o cut[i]
    <2> DEFINE k == (i - 1) * b
               m == End(i)
    <2>1. End(i - 1) = k /\ k \in 0..(n - 1) /\ m \in (k + 1)..n
      BY <1>6
    <2>2. cut[i] = SubSeq(ids, k + 1, m)
      BY <1>3
    <2> HIDE DEF k, m, End
    <2>3. 1 \in 1..(Len(ids) + 1) /\ k \in (1 - 1)..Len(ids) /\ m \in k..Len(ids)
      BY <1>1, <2>1 DEF n
    <2>4. SubSeq(ids, 1, k) \o SubSeq(ids, k + 1, m) = SubSeq(ids, 1, m)
      BY <2>3, ConcatAdjacentSubSeq
    <2> QED
      BY <2>1, <2>2, <2>4 DEF m
  <1> QED
    BY <1>2, <1>4, <1>8, <1>9 DEF n, b, cut

(* What a snapshot has stored when a FloodWait ends it is the beginning of the list (snapshot_chat_metrics). *)
THEOREM BatchesAreTheBeginning ==
  ASSUME NEW ids, IsSeq(ids), NEW requests \in Nat
  PROVE  /\ IsPrefix(SnapshotChat(ids, requests), ids)
         /\ Len(SnapshotChat(ids, requests)) = Min({Len(ids), SnapshotBatch * requests})
  <1> DEFINE E == Range(ids)
             n == Len(ids)
             b == SnapshotBatch
             cut == Chunked(ids)
             q == Len(cut)
             k == Min({requests, q})
             made == SubSeq(cut, 1, k)
             m == Min({k * b, n})
             f == [i \in 0..k |-> SubSeq(ids, 1, Min({i * b, n}))]
  <1>1. ids \in Seq(E) /\ n \in Nat /\ DOMAIN ids = 1..n /\ b \in Nat \ {0}
    BY SeqOfItself, MetricsAssumption
  <1> HIDE DEF E
  <1>2. /\ cut \in Seq(Seq(E)) /\ q \in Nat /\ n <= b * q
        /\ \A i \in 1..q : SubSeq(ids, 1, Min({i * b, n})) = SubSeq(ids, 1, Min({(i - 1) * b, n})) \o cut[i]
    BY <1>1, RequestsMeet
  <1> HIDE DEF cut
  <1>3. k \in {requests, q} /\ k <= requests /\ k <= q
    <2>1. requests \in Int /\ q \in Int
      BY <1>2
    <2> HIDE DEF q
    <2> QED
      BY <2>1, OfTwo
  <1>4. SnapshotChat(ids, requests) = FlattenSeq(made)
    BY DEF SnapshotChat, cut
  <1> HIDE DEF k
  <1>5. k \in Nat /\ k \in 0..q /\ 1 \in Nat \ {0}
    BY <1>2, <1>3
  <1>6. /\ made \in Seq(Seq(E)) /\ Len(made) = k
        /\ \A i \in 1..k : made[i] = cut[i]
    <2>1. /\ made \in Seq(Seq(E)) /\ Len(made) = IF 1 <= k THEN k - 1 + 1 ELSE 0
          /\ \A i \in 1..Len(made) : made[i] = cut[1 + i - 1]
      BY <1>2, <1>5, PieceOf
    <2>2. Len(made) = k
      BY <1>5, <2>1
    <2>3. \A i \in 1..k : 1 + i - 1 = i
      BY <1>5
    <2> HIDE DEF made
    <2> QED
      BY <2>1, <2>2, <2>3
  <1> HIDE DEF made
  <1>7. \A i \in 0..k : i * b \in Nat /\ Min({i * b, n}) \in 0..n
    <2> SUFFICES ASSUME NEW i \in 0..k
                 PROVE  i * b \in Nat /\ Min({i * b, n}) \in 0..n
      OBVIOUS
    <2> DEFINE x == i * b
    <2>1. x \in Nat
      BY <1>1, <1>5
    <2> HIDE DEF x
    <2>2. Min({x, n}) \in {x, n} /\ Min({x, n}) <= n
      BY <1>1, <2>1, OfTwo
    <2>3. Min({x, n}) \in 0..n
      BY <1>1, <2>1, <2>2
    <2> QED
      BY <2>1, <2>3 DEF x
  <1>8. \A i \in 0..k : SubSeq(ids, 1, Min({i * b, n})) \in Seq(E)
    <2> SUFFICES ASSUME NEW i \in 0..k
                 PROVE  SubSeq(ids, 1, Min({i * b, n})) \in Seq(E)
      OBVIOUS
    <2> DEFINE x == Min({i * b, n})
    <2>1. x \in 0..Len(ids)
      BY <1>7
    <2> HIDE DEF x
    <2>2. SubSeq(ids, 1, x) \in Seq(E)
      BY <1>1, <1>5, <2>1, PieceOf
    <2> QED
      BY <2>2 DEF x
  <1>9. Joins(f, made, E)
    <2>1. f \in [0..k -> Seq(E)] /\ \A i \in 0..k : f[i] = SubSeq(ids, 1, Min({i * b, n}))
      BY <1>8
    <2>2. f[0] = <<>>
      <3>1. 0 * b = 0 /\ 0 \in 0..k /\ 0 \in Int /\ n \in Int
        BY <1>1, <1>5
      <3>2. Min({0, n}) \in {0, n} /\ Min({0, n}) <= 0
        BY <3>1, OfTwo
      <3>3. Min({0, n}) = 0
        BY <1>1, <3>2
      <3>4. SubSeq(ids, 1, 0) = <<>>
        BY SubSeqEmpty
      <3> QED
        BY <2>1, <3>1, <3>3, <3>4
    <2> HIDE DEF f
    <2>3. ASSUME NEW i \in 1..k
          PROVE  f[i] = f[i - 1] \o made[i]
      <3>1. i \in 1..q /\ i \in 0..k /\ i - 1 \in 0..k
        BY <1>2, <1>5
      <3>2. SubSeq(ids, 1, Min({i * b, n})) = SubSeq(ids, 1, Min({(i - 1) * b, n})) \o cut[i]
        BY <1>2, <3>1
      <3> QED
        BY <1>6, <2>1, <3>1, <3>2
    <2> QED
      BY <1>6, <2>1, <2>2, <2>3 DEF Joins
  <1>10. f[k] = SubSeq(ids, 1, m)
    <2>1. k \in 0..k
      BY <1>5
    <2> QED
      BY <2>1
  <1> HIDE DEF f
  <1>11. FlattenSeq(made) = SubSeq(ids, 1, m)
    <2>1. Flat(made, E, SubSeq(ids, 1, m))
      BY <1>6, <1>9, <1>10 DEF Flat
    <2> QED
      BY <1>6, <2>1, FlattenIsFlat
  <1>12. m \in 0..n
    <2>1. k \in 0..k
      BY <1>5
    <2> QED
      BY <1>7, <2>1
  <1>13. m = Min({n, b * requests})
    <2> DEFINE x == k * b
               y == b * requests
    <2>1. x \in Nat /\ y \in Nat
      BY <1>1, <1>5
    <2>2. x = y \/ (n <= x /\ n <= y)
      <3>1. CASE k = requests
        BY <1>1, <1>5, <3>1
      <3>2. CASE k = q
        <4>1. q * b = b * q /\ q * b \in Int
          BY <1>1, <1>2
        <4>2. b * q <= b * requests
          <5>1. b \in Nat /\ q \in Nat /\ requests \in Nat /\ b <= b /\ q <= requests
            BY <1>1, <1>2, <1>3, <3>2
          <5> QED
            BY <5>1, Products
        <4> QED
          BY <1>1, <1>2, <2>1, <3>2, <4>1, <4>2
      <3> QED
        BY <1>3, <3>1, <3>2
    <2> HIDE DEF x, y
    <2>3. /\ Min({x, n}) \in {x, n} /\ Min({x, n}) <= x /\ Min({x, n}) <= n
          /\ Min({n, y}) \in {n, y} /\ Min({n, y}) <= n /\ Min({n, y}) <= y
      <3>1. x \in Int /\ y \in Int /\ n \in Int
        BY <1>1, <2>1
      <3> HIDE DEF n
      <3> QED
        BY <3>1, OfTwo
    <2>4. Min({x, n}) = Min({n, y})
      BY <1>1, <2>1, <2>2, <2>3
    <2> QED
      BY <2>4 DEF x, y
  <1> HIDE DEF m
  <1> DEFINE got == SubSeq(ids, 1, m)
  <1>14. got \in Seq(E) /\ Len(got) = m
    <2>1. got \in Seq(E) /\ Len(got) = IF 1 <= m THEN m - 1 + 1 ELSE 0
      BY <1>1, <1>5, <1>12, PieceOf
    <2> QED
      BY <1>12, <2>1
  <1>15. SubSeq(got, 1, Len(got)) = got
    <2> HIDE DEF got
    <2> QED
      BY <1>14, SubSeqFull
  <1>16. IsPrefix(got, ids)
    BY <1>12, <1>14, <1>15 DEF IsPrefix
  <1> QED
    BY <1>4, <1>11, <1>13, <1>14, <1>16

-----------------------------------------------------------------------------
(* A step answers what was asked, once.                                    *)
LEMMA StillAsked ==
  Calculations => [](case \in Cases)
  <1>1. Ask => case \in Cases
    BY DEF Ask
  <1>2. case \in Cases /\ [Calculate]_asked => (case \in Cases)'
    BY DEF Calculate, asked, SelectMessages, Fuse, Split, CallTool, Route, Retry, Convert, Read,
           Snapshot, Batches, Stats, Rate, Answers
  <1> QED
    BY <1>1, <1>2, PTL DEF Calculations

LEMMA KindOfCase ==
  ASSUME case \in Cases
  PROVE  /\ case.what = "context" => ContextCase(case.input)
         /\ case.what = "fusion" => FusionCase(case.input)
         /\ case.what = "parts" => PartsCase(case.input)
         /\ case.what = "tool" => ToolCase(case.input)
         /\ case.what = "retry" => RetryCase(case.input)
         /\ case.what = "convert" => ConvertCase(case.input)
         /\ case.what = "reply" => ReplyCase(case.input)
         /\ case.what = "snapshot" => SnapshotCase(case.input)
         /\ case.what = "batches" => BatchesCase(case.input)
         /\ case.what = "stats" => StatsCase(case.input)
         /\ case.what = "rate" => RateCase(case.input)
  BY CalculationsAssumption DEF IsCase

(* The answer to each kind of question. *)
IsAnswer(in, what, a) ==
  /\ what = "context" => a = <<ResolveContext(in.synced, in.chat, in.q, in.fts, in.vec, in.limit, in.budget)>>
  /\ what = "fusion" => a = <<RRF(in.fts, in.vec)>>
  /\ what = "parts" => a = <<[chunks |-> Chunks(in), kept |-> NewestChunks(in)]>>
  /\ what = "tool" =>
       \E r \in RunTool(in.chats, TurnAccount(in.context, in.given, in.conversation),
                        Pinned(in.chats, in.context), in.call, in.msgs) : a = <<r>>
  /\ what = "route" => a = <<Resolve(in.cfg, in.env, in.task)>>
  /\ what = "retry" => a = <<WithRetry([i \in DOMAIN in.events |-> Outcome(in.provider, in.events[i])])>>
  /\ what = "convert" => a = <<[claude |-> ToClaude(in), gemini |-> ToGemini(in),
                               openai |-> ToOpenAI(in), transcript |-> ToTranscript(in)]>>
  /\ what = "reply" =>
       LET got == Parse(in.provider, in.reply) IN
       a = <<[parsed |-> got,
              next |-> <<[role |-> "assistant", text |-> got.text, calls |-> got.calls, answers |-> <<>>]>>]>>
  /\ what = "snapshot" => a = <<NextSnapshot(in.published, in.age)>>
  /\ what = "batches" => a = <<SnapshotChat(in.ids, in.requests)>>
  /\ what = "stats" => a = <<ChatStats(in.posts, in.snapshots, in.until, in.days)>>
  /\ what = "rate" => a = <<Answered(in)>>

LEMMA OneAnswer ==
  ASSUME [Calculate]_asked
  PROVE  case' = case /\ (answer' = answer \/ IsAnswer(case.input, case.what, answer'))
  <1>1. CASE UNCHANGED asked
    BY <1>1 DEF asked
  <1>2. CASE SelectMessages
    BY <1>2 DEF SelectMessages, Answers, IsAnswer
  <1>3. CASE Fuse
    BY <1>3 DEF Fuse, Answers, IsAnswer
  <1>4. CASE Split
    BY <1>4 DEF Split, Answers, IsAnswer
  <1>5. CASE CallTool
    BY <1>5 DEF CallTool, Answers, IsAnswer
  <1>6. CASE Route
    BY <1>6 DEF Route, Answers, IsAnswer
  <1>7. CASE Retry
    BY <1>7 DEF Retry, Answers, IsAnswer
  <1>8. CASE Convert
    BY <1>8 DEF Convert, Answers, IsAnswer
  <1>9. CASE Read
    BY <1>9 DEF Read, Answers, IsAnswer
  <1>10. CASE Snapshot
    BY <1>10 DEF Snapshot, Answers, IsAnswer
  <1>11. CASE Batches
    BY <1>11 DEF Batches, Answers, IsAnswer
  <1>12. CASE Stats
    BY <1>12 DEF Stats, Answers, IsAnswer
  <1>13. CASE Rate
    BY <1>13 DEF Rate, Answers, IsAnswer
  <1> QED
    BY <1>1, <1>2, <1>3, <1>4, <1>5, <1>6, <1>7, <1>8, <1>9, <1>10, <1>11, <1>12, <1>13 DEF Calculate

LEMMA SnapshotsKept ==
  ASSUME case \in Cases, SnapshotsKeepUp, [Calculate]_asked
  PROVE  SnapshotsKeepUp'
  <1>1. CASE answer' = answer
    BY <1>1, OneAnswer DEF SnapshotsKeepUp, Given
  <1>2. CASE answer' # answer /\ case.what = "snapshot"
    <2>1. answer'[1] = NextSnapshot(case.input.published, case.input.age) /\ case' = case
      BY <1>2, OneAnswer DEF IsAnswer
    <2>2. SnapshotCase(case.input)
      BY <1>2, KindOfCase
    <2> QED
      BY <2>1, <2>2, SnapshotsInTime DEF SnapshotsKeepUp
  <1>3. CASE case.what # "snapshot"
    BY <1>3, OneAnswer DEF SnapshotsKeepUp, Given
  <1> QED
    BY <1>1, <1>2, <1>3

(* The statistics, with the sums as an operator that is not of the second order. *)
StatsRight(in, got) ==
  LET both == ChatStats(in.posts, in.snapshots, in.until, 2 * in.days) IN
  /\ Added(got.by_weekday) = got.posts /\ Added(got.by_hour) = got.posts
  /\ got.posts + got.previous.posts = both.posts
  /\ got.views + got.previous.views = both.views
  /\ got.coverage <= both.coverage

StatsTold == Given("stats") => StatsRight(case.input, answer[1])

LEMMA StatsAsTold == StatsTold => StatsAddUp
  <1> SUFFICES ASSUME Given("stats"), StatsRight(case.input, answer[1])
               PROVE  StatsAddUp
    BY Zenon DEF StatsTold, StatsAddUp
  <1> QED
    BY Zenon DEF StatsRight, StatsAddUp, Added

LEMMA StatsKept ==
  ASSUME case \in Cases, StatsTold, [Calculate]_asked
  PROVE  StatsTold'
  <1>1. CASE answer' = answer
    BY <1>1, OneAnswer DEF StatsTold, Given
  <1>2. CASE answer' # answer /\ case.what = "stats"
    <2>1. /\ answer'[1] = ChatStats(case.input.posts, case.input.snapshots, case.input.until, case.input.days)
          /\ case' = case
      BY <1>2, OneAnswer DEF IsAnswer
    <2>2. StatsCase(case.input)
      BY <1>2, KindOfCase
    <2> QED
      BY <2>1, <2>2, StatsAreWhole DEF StatsTold, StatsRight
  <1>3. CASE case.what # "stats"
    BY <1>3, OneAnswer DEF StatsTold, Given
  <1> QED
    BY <1>1, <1>2, <1>3

LEMMA RateKept ==
  ASSUME case \in Cases, RateIsLimited, [Calculate]_asked
  PROVE  RateIsLimited'
  <1>1. CASE answer' = answer
    BY <1>1, OneAnswer DEF RateIsLimited, Given
  <1>2. CASE answer' # answer /\ case.what = "rate"
    <2>1. answer'[1] = Answered(case.input) /\ case' = case
      BY <1>2, OneAnswer DEF IsAnswer
    <2>2. RateCase(case.input)
      BY <1>2, KindOfCase
    <2> QED
      BY <2>1, <2>2, LimitIsExact DEF RateIsLimited
  <1>3. CASE case.what # "rate"
    BY <1>3, OneAnswer DEF RateIsLimited, Given
  <1> QED
    BY <1>1, <1>2, <1>3

LEMMA ContextKept ==
  ASSUME case \in Cases, ContextIsUsable, [Calculate]_asked
  PROVE  ContextIsUsable'
  <1>1. CASE answer' = answer
    BY <1>1, OneAnswer DEF ContextIsUsable, Given
  <1>2. CASE answer' # answer /\ case.what = "context"
    <2>1. /\ answer' = <<ResolveContext(case.input.synced, case.input.chat, case.input.q, case.input.fts,
                                       case.input.vec, case.input.limit, case.input.budget)>>
          /\ case' = case
      BY <1>2, OneAnswer DEF IsAnswer
    <2>2. ContextCase(case.input)
      BY <1>2, KindOfCase
    <2>3. answer'[1] = ResolveContext(case.input.synced, case.input.chat, case.input.q, case.input.fts,
                                      case.input.vec, case.input.limit, case.input.budget)
      BY <2>1
    <2> QED
      BY <2>1, <2>2, <2>3, PromptIsUsable DEF ContextIsUsable
  <1>3. CASE case.what # "context"
    BY <1>3, OneAnswer DEF ContextIsUsable, Given
  <1> QED
    BY <1>1, <1>2, <1>3

LEMMA FusionKept ==
  ASSUME case \in Cases, FusionIsFair, [Calculate]_asked
  PROVE  FusionIsFair'
  <1>1. CASE answer' = answer
    BY <1>1, OneAnswer DEF FusionIsFair, Given
  <1>2. CASE answer' # answer /\ case.what = "fusion"
    <2>1. answer' = <<RRF(case.input.fts, case.input.vec)>> /\ case' = case
      BY <1>2, OneAnswer DEF IsAnswer
    <2>2. FusionCase(case.input)
      BY <1>2, KindOfCase
    <2>3. answer'[1] = RRF(case.input.fts, case.input.vec)
      BY <2>1
    <2> QED
      BY <2>1, <2>2, <2>3, FusionKeepsBoth DEF FusionIsFair
  <1>3. CASE case.what # "fusion"
    BY <1>3, OneAnswer DEF FusionIsFair, Given
  <1> QED
    BY <1>1, <1>2, <1>3

LEMMA RetriesKept ==
  ASSUME case \in Cases, RetriesAreSpent, [Calculate]_asked
  PROVE  RetriesAreSpent'
  <1>1. CASE answer' = answer
    BY <1>1, OneAnswer DEF RetriesAreSpent, Given
  <1>2. CASE answer' # answer /\ case.what = "retry"
    <2>1. /\ answer' = <<WithRetry([i \in DOMAIN case.input.events |->
                                   Outcome(case.input.provider, case.input.events[i])])>>
          /\ case' = case
      BY <1>2, OneAnswer DEF IsAnswer
    <2>2. RetryCase(case.input)
      BY <1>2, KindOfCase
    <2>3. answer'[1] = WithRetry([i \in DOMAIN case.input.events |-> Outcome(case.input.provider, case.input.events[i])])
      BY <2>1
    <2> QED
      BY <2>1, <2>2, <2>3, RequestsAreSpent DEF RetriesAreSpent
  <1>3. CASE case.what # "retry"
    BY <1>3, OneAnswer DEF RetriesAreSpent, Given
  <1> QED
    BY <1>1, <1>2, <1>3

LEMMA RouteKept ==
  ASSUME TaskIsServed, [Calculate]_asked
  PROVE  TaskIsServed'
  <1>1. CASE answer' = answer
    BY <1>1, OneAnswer DEF TaskIsServed, Given
  <1>2. CASE answer' # answer /\ case.what = "route"
    <2>1. answer'[1] = Resolve(case.input.cfg, case.input.env, case.input.task) /\ case' = case
      BY <1>2, OneAnswer DEF IsAnswer
    <2> QED
      BY <2>1, TaskGoesWhereItCan DEF TaskIsServed
  <1>3. CASE case.what # "route"
    BY <1>3, OneAnswer DEF TaskIsServed, Given
  <1> QED
    BY <1>1, <1>2, <1>3

LEMMA PartsKept ==
  ASSUME case \in Cases, PartsAreWhole, [Calculate]_asked
  PROVE  PartsAreWhole'
  <1>1. CASE answer' = answer
    BY <1>1, OneAnswer DEF PartsAreWhole, Given
  <1>2. CASE answer' # answer /\ case.what = "parts"
    <2>1. answer'[1] = [chunks |-> Chunks(case.input), kept |-> NewestChunks(case.input)] /\ case' = case
      BY <1>2, OneAnswer DEF IsAnswer
    <2>2. PartsCase(case.input)
      BY <1>2, KindOfCase
    <2>3. answer'[1].chunks = Chunks(case.input) /\ answer'[1].kept = NewestChunks(case.input) /\ case'.what # "batches"
      BY <1>2, <2>1
    <2> QED
      BY <2>1, <2>2, <2>3, PartsMakeTheWhole DEF PartsAreWhole, Given
  <1>3. CASE answer' # answer /\ case.what = "batches"
    <2>1. answer'[1] = SnapshotChat(case.input.ids, case.input.requests) /\ case' = case /\ case'.what # "parts"
      BY <1>3, OneAnswer DEF IsAnswer
    <2>2. IsSeq(case.input.ids) /\ case.input.requests \in Nat
      BY <1>3, KindOfCase DEF BatchesCase
    <2> QED
      BY <2>1, <2>2, BatchesAreTheBeginning DEF PartsAreWhole, Given
  <1>4. CASE case.what \notin {"parts", "batches"}
    BY <1>4, OneAnswer DEF PartsAreWhole, Given
  <1> QED
    BY <1>1, <1>2, <1>3, <1>4

LEMMA ToolKept ==
  ASSUME case \in Cases, ToolsStayInside, [Calculate]_asked
  PROVE  ToolsStayInside'
  <1>1. CASE answer' = answer
    BY <1>1, OneAnswer DEF ToolsStayInside, Given
  <1>2. CASE answer' # answer /\ case.what = "tool"
    <2>1. /\ case' = case
          /\ \E r \in RunTool(case.input.chats, TurnAccount(case.input.context, case.input.given, case.input.conversation),
                              Pinned(case.input.chats, case.input.context), case.input.call, case.input.msgs) :
               answer' = <<r>>
      BY <1>2, OneAnswer DEF IsAnswer
    <2>2. ToolCase(case.input)
      BY <1>2, KindOfCase
    <2>3. PICK r \in RunTool(case.input.chats, TurnAccount(case.input.context, case.input.given, case.input.conversation),
                             Pinned(case.input.chats, case.input.context), case.input.call, case.input.msgs) :
            answer' = <<r>>
      BY <2>1
    <2>4. answer'[1] = r
      BY <2>3
    <2> QED
      BY <2>1, <2>2, <2>4, ToolShowsItsAccount DEF ToolsStayInside
  <1>3. CASE case.what # "tool"
    BY <1>3, OneAnswer DEF ToolsStayInside, Given
  <1> QED
    BY <1>1, <1>2, <1>3

(* What RepliesComeBack says of a reply as it was parsed and of the message that repeats it. *)
CallsReturn(in, got, next) ==
  LET Sent == CASE in.provider = "claude"   -> ToClaude(next)
                [] in.provider = "gemini"   -> ToGemini(next)
                [] in.provider = "deepseek" -> ToOpenAI(next)
                [] OTHER -> <<>> IN
  /\ got.calls # <<>> =>
       /\ got.calls = in.reply.calls
       /\ [i \in DOMAIN got.calls |-> Sent[1].blocks[i].id] = in.reply.calls
       /\ ~in.reply.refused /\ "tools" \in Capabilities(in.provider, "chat")
  /\ ~got.ok => ~in.reply.chosen

LEMMA RepliesKept ==
  ASSUME case \in Cases, RepliesComeBack, [Calculate]_asked
  PROVE  RepliesComeBack'
  <1>1. CASE answer' = answer
    BY <1>1, OneAnswer DEF RepliesComeBack, Given
  <1>2. CASE answer' # answer /\ case.what = "reply"
    <2> DEFINE got == Parse(case.input.provider, case.input.reply)
               next == <<[role |-> "assistant", text |-> got.text, calls |-> got.calls, answers |-> <<>>]>>
    <2>1. answer' = <<[parsed |-> got, next |-> next]>> /\ case' = case
      BY <1>2, OneAnswer DEF IsAnswer
    <2>2. ReplyCase(case.input)
      BY <1>2, KindOfCase
    <2>3. answer'[1].parsed = got /\ answer'[1].next = next
      BY <2>1
    <2>4. CallsReturn(case.input, got, next)
      BY <2>2, CallsComeBack DEF CallsReturn
    <2>5. case'.input = case.input
      BY <2>1
    <2> HIDE DEF got, next
    <2>6. CallsReturn(case'.input, answer'[1].parsed, answer'[1].next)
      BY <2>3, <2>4, <2>5
    <2>7. RepliesComeBack' = (Given("reply")' => CallsReturn(case'.input, answer'[1].parsed, answer'[1].next))
      BY Zenon DEF RepliesComeBack, CallsReturn
    <2> QED
      BY <2>6, <2>7
  <1>3. CASE case.what # "reply"
    BY <1>3, OneAnswer DEF RepliesComeBack, Given
  <1> QED
    BY <1>1, <1>2, <1>3

(* What ResultsFollowCalls says of a conversation and of the four forms it is sent in. *)
ResultsStand(in, c, o, g, t) ==
  /\ \A i \in DOMAIN c : Calling(c[i]) => Followed(c, i)
  /\ \A i \in DOMAIN o : Calling(o[i]) =>
       \A k \in DOMAIN o[i].blocks : o[i + k].role = "tool" /\ o[i + k].blocks[1].id = o[i].blocks[k].id
  /\ \A i \in DOMAIN g : Calling(g[i]) => \A k \in DOMAIN g[i].blocks : IsResults(g[i + k])
  /\ Cardinality({i \in DOMAIN t : t[i] = "tool_result"}) = Cardinality({i \in DOMAIN in : in[i].role = "tool"})

LEMMA ResultsKept ==
  ASSUME case \in Cases, ResultsFollowCalls, [Calculate]_asked
  PROVE  ResultsFollowCalls'
  <1>1. CASE answer' = answer
    BY <1>1, OneAnswer DEF ResultsFollowCalls, Given
  <1>2. CASE answer' # answer /\ case.what = "convert"
    <2> DEFINE in == case.input
               c == ToClaude(in)
               o == ToOpenAI(in)
               g == ToGemini(in)
               t == ToTranscript(in)
    <2>1. answer' = <<[claude |-> c, gemini |-> g, openai |-> o, transcript |-> t]>> /\ case' = case
      BY <1>2, OneAnswer DEF IsAnswer
    <2>2. ConvertCase(in)
      BY <1>2, KindOfCase
    <2>3. answer'[1].claude = c /\ answer'[1].gemini = g /\ answer'[1].openai = o /\ answer'[1].transcript = t
      BY <2>1
    <2>4. \A i \in DOMAIN c : Calling(c[i]) => Followed(c, i)
      <3>1. AllFollowed(c, Len(c)) /\ c \in Sendable(in)
        BY <2>2, ClaudeKeepsResults
      <3>2. DOMAIN c = 1..Len(c)
        BY <3>1, LenProperties DEF Sendable
      <3> QED
        BY <3>1, <3>2 DEF AllFollowed
    <2>5. \A i \in DOMAIN o : Calling(o[i]) =>
            \A k \in DOMAIN o[i].blocks : o[i + k].role = "tool" /\ o[i + k].blocks[1].id = o[i].blocks[k].id
      BY <2>2, OpenAIKeepsResults
    <2>6. \A i \in DOMAIN g : Calling(g[i]) => \A k \in DOMAIN g[i].blocks : IsResults(g[i + k])
      BY <2>2, GeminiKeepsResults
    <2>7. Cardinality({i \in DOMAIN t : t[i] = "tool_result"}) = Cardinality({i \in DOMAIN in : in[i].role = "tool"})
      BY <2>2, TranscriptKeepsResults
    <2>8. ResultsStand(in, c, o, g, t)
      BY <2>4, <2>5, <2>6, <2>7 DEF ResultsStand
    <2>9. case'.input = in
      BY <2>1
    <2> HIDE DEF in, c, o, g, t
    <2>10. ResultsStand(case'.input, answer'[1].claude, answer'[1].openai, answer'[1].gemini, answer'[1].transcript)
      BY <2>3, <2>8, <2>9
    <2>11. ResultsFollowCalls'
             = (Given("convert")' => ResultsStand(case'.input, answer'[1].claude, answer'[1].openai,
                                                  answer'[1].gemini, answer'[1].transcript))
      BY Zenon DEF ResultsFollowCalls, ResultsStand, Calling, Followed, BlockIds
    <2> QED
      BY <2>10, <2>11
  <1>3. CASE case.what # "convert"
    BY <1>3, OneAnswer DEF ResultsFollowCalls, Given
  <1> QED
    BY <1>1, <1>2, <1>3

(* For every post, every chat, every period and every sequence of requests: what is counted over windows *)
(* of time is counted once (snapshot_tiers, chat_stats, RateLimiter). *)
THEOREM WindowsHold == Calculations => []WindowsAreExact
  <1>1. Ask => SnapshotsKeepUp /\ StatsTold /\ RateIsLimited
    BY DEF Ask, SnapshotsKeepUp, StatsTold, RateIsLimited, Given
  <1>2. case \in Cases /\ SnapshotsKeepUp /\ StatsTold /\ RateIsLimited /\ [Calculate]_asked
          => (SnapshotsKeepUp /\ StatsTold /\ RateIsLimited)'
    BY SnapshotsKept, StatsKept, RateKept
  <1>3. SnapshotsKeepUp /\ StatsTold /\ RateIsLimited => WindowsAreExact
    BY StatsAsTold DEF WindowsAreExact
  <1> QED
    BY <1>1, <1>2, <1>3, StillAsked, PTL DEF Calculations

(* For every configuration, every sequence of errors, every conversation and every reply: a call goes to a *)
(* model that can answer it, as often as it has to, and with the results of its calls (llm/). *)
THEOREM CallsHold == Calculations => []ModelCallsAreSound
  <1>1. Ask => TaskIsServed /\ RetriesAreSpent /\ ResultsFollowCalls /\ RepliesComeBack
    BY DEF Ask, TaskIsServed, RetriesAreSpent, ResultsFollowCalls, RepliesComeBack, Given
  <1>2. case \in Cases /\ TaskIsServed /\ RetriesAreSpent /\ ResultsFollowCalls /\ RepliesComeBack /\ [Calculate]_asked
          => (TaskIsServed /\ RetriesAreSpent /\ ResultsFollowCalls /\ RepliesComeBack)'
    BY RouteKept, RetriesKept, ResultsKept, RepliesKept
  <1>3. TaskIsServed /\ RetriesAreSpent /\ ResultsFollowCalls /\ RepliesComeBack => ModelCallsAreSound
    BY DEF ModelCallsAreSound
  <1> QED
    BY <1>1, <1>2, <1>3, StillAsked, PTL DEF Calculations

(* For every chat, question, ranking, window and call of a tool: what is chosen, ranked, split or shown is *)
(* neither too much nor of another account, and lacks nothing (search.py, compact_window, tools.py). *)
THEOREM PromptsHold == Calculations => []PromptsAreFit
  <1>1. Ask => ContextIsUsable /\ FusionIsFair /\ PartsAreWhole /\ ToolsStayInside
    BY DEF Ask, ContextIsUsable, FusionIsFair, PartsAreWhole, ToolsStayInside, Given
  <1>2. case \in Cases /\ ContextIsUsable /\ FusionIsFair /\ PartsAreWhole /\ ToolsStayInside /\ [Calculate]_asked
          => (ContextIsUsable /\ FusionIsFair /\ PartsAreWhole /\ ToolsStayInside)'
    BY ContextKept, FusionKept, PartsKept, ToolKept
  <1>3. ContextIsUsable /\ FusionIsFair /\ PartsAreWhole /\ ToolsStayInside => PromptsAreFit
    BY DEF PromptsAreFit
  <1> QED
    BY <1>1, <1>2, <1>3, StillAsked, PTL DEF Calculations

-----------------------------------------------------------------------------
(***************************************************************************)
(* What holds of SyncJobs for every account, whatever its chats, its       *)
(* limits and the time for which ARQ keeps a result.                       *)
(***************************************************************************)
(* Only a running job is in the middle of its function, and only the middle *)
(* of a sync has a chat; a wait that has not passed is known to a job that  *)
(* still runs, or to a result that ARQ keeps for longer.                   *)
JobsRun ==
  \A i \in JobIds : /\ step[i] # "off" <=> Running(i)
                    /\ at[i] # None => step[i] = "sync"

WaitsAreKept ==
  \A i \in JobIds :
    wait[i] > 0 => Running(i) \/ (queue[i] = "result" /\ wait[i] <= keep[i])

Inv == JobsInv /\ JobsRun /\ WaitsAreKept

(* What ARQ does to one job leaves the others alone. *)
LEMMA Enqueued ==
  ASSUME TypeOK, NEW i \in JobIds, Enqueue(i)
  PROVE  /\ queue' \in [JobIds -> {"none", "queued", "running", "result"}]
         /\ \A k \in JobIds : queue'[k] = queue[k] \/ (queue[k] = "none" /\ queue'[k] = "queued")
  BY DEF Enqueue, TypeOK

LEMMA Finished ==
  ASSUME TypeOK, NEW i \in JobIds, FinishJob(i)
  PROVE  /\ queue' \in [JobIds -> {"none", "queued", "running", "result"}]
         /\ keep' \in [JobIds -> 0..KeepResult]
         /\ queue'[i] = IF KeepResult = 0 THEN "none" ELSE "result"
         /\ keep'[i] = KeepResult
         /\ \A k \in JobIds \ {i} : queue'[k] = queue[k] /\ keep'[k] = keep[k]
  BY JobsAssumption DEF FinishJob, TypeOK

-----------------------------------------------------------------------------
LEMMA TypeStep ==
  ASSUME TypeOK, [Next]_vars
  PROVE  TypeOK'
  <1> USE JobsAssumption
  <1>0. Account \in JobIds /\ Chats \subseteq JobIds
    BY DEF JobIds
  <1>1. ASSUME NEW i \in JobIds, StartJob(i)
        PROVE  TypeOK'
    BY <1>1 DEF StartJob, TypeOK, bounds
  <1>2. ASSUME NEW i \in JobIds, Progress(i)
        PROVE  TypeOK'
    <2>1. CASE EndJob(i)
      BY <2>1, Finished DEF EndJob, TypeOK, bounds
    <2>2. CASE Requeue(i)
      BY <2>2, Enqueued DEF Requeue, TypeOK, bounds
    <2>3. CASE RefreshChats
      BY <1>0, <2>3 DEF RefreshChats, Eligible, TypeOK, bounds
    <2>4. CASE AllVisited
      BY <1>0, <2>4 DEF AllVisited, TypeOK, bounds
    <2>5. ASSUME NEW c \in Chats, BeginSync(i, c)
          PROVE  TypeOK'
      BY <2>5 DEF BeginSync, TypeOK, bounds
    <2>6. ASSUME NEW r \in {"idle", "done", "failed"}, EndSync(i, r)
          PROVE  TypeOK'
      BY <2>6 DEF EndSync, TypeOK, bounds
    <2> QED
      BY <1>2, <2>1, <2>2, <2>3, <2>4, <2>5, <2>6 DEF Progress
  <1>3. ASSUME NEW i \in JobIds, Flood(i)
        PROVE  TypeOK'
    <2>1. state' \in [Chats -> {"idle", "running", "done", "failed"}]
      BY <1>3 DEF Flood, Unpaused, TypeOK
    <2>2. wait' \in [JobIds -> 0..KeepResult]
      BY <1>3 DEF Flood, Delay, TypeOK
    <2>3. floods' \in 0..MaxFloods
      BY <1>3 DEF Flood, TypeOK
    <2> QED
      BY <1>3, <2>1, <2>2, <2>3 DEF Flood, TypeOK
  <1>4. ASSUME NEW i \in JobIds, Abort(i)
        PROVE  TypeOK'
    <2>1. aborts' \in 0..MaxAborts
      BY <1>4 DEF Abort, TypeOK
    <2>2. abandoned' \subseteq Chats
      BY <1>4 DEF Abort, TypeOK
    <2> QED
      BY <1>4, <2>1, <2>2, Finished DEF Abort, TypeOK
  <1>5. ASSUME NEW i \in JobIds, Press(i)
        PROVE  TypeOK'
    BY <1>5, Enqueued DEF Press, TypeOK, bounds
  <1>6. CASE Tick
    BY <1>6 DEF Tick, TypeOK, bounds
  <1>7. CASE Cron
    BY <1>0, <1>7, Enqueued DEF Cron, TypeOK, bounds
  <1>8. CASE WorkerRestart
    BY <1>8 DEF WorkerRestart, ResetOnStart, ResetStuckSyncs, TypeOK
  <1>9. CASE UNCHANGED vars
    BY <1>9 DEF vars, TypeOK
  <1> QED
    BY <1>1, <1>2, <1>3, <1>4, <1>5, <1>6, <1>7, <1>8, <1>9 DEF Next

(* A chat is left by what ends its sync, and then it is not running. *)
LEMMA RunningStep ==
  ASSUME TypeOK, RunningIsBeingSynced, [Next]_vars
  PROVE  RunningIsBeingSynced'
  <1> USE JobsAssumption DEF RunningIsBeingSynced
  <1>1. CASE UNCHANGED <<state, at, abandoned>>
    BY <1>1
  <1>2. ASSUME NEW i \in JobIds, NEW c \in Chats, BeginSync(i, c)
        PROVE  RunningIsBeingSynced'
    BY <1>2 DEF BeginSync, TypeOK, JobIds
  <1>3. ASSUME NEW i \in JobIds, NEW r \in {"idle", "done", "failed"}, EndSync(i, r)
        PROVE  RunningIsBeingSynced'
    BY <1>3 DEF EndSync, TypeOK
  <1>4. ASSUME NEW i \in JobIds, Flood(i)
        PROVE  RunningIsBeingSynced'
    BY <1>4 DEF Flood, Unpaused, TypeOK
  <1>5. ASSUME NEW i \in JobIds, Abort(i)
        PROVE  RunningIsBeingSynced'
    BY <1>5 DEF Abort, TypeOK
  <1>6. CASE WorkerRestart
    BY <1>6 DEF WorkerRestart, ResetOnStart, ResetStuckSyncs, TypeOK
  <1> QED
    BY <1>1, <1>2, <1>3, <1>4, <1>5, <1>6
    DEF Next, StartJob, Progress, EndJob, Requeue, RefreshChats, AllVisited, Press, Tick, Cron, vars

LEMMA JobsRunStep ==
  ASSUME TypeOK, JobsRun, [Next]_vars
  PROVE  JobsRun'
  <1> USE JobsAssumption DEF JobsRun, Running
  <1>0. Account \in JobIds
    BY DEF JobIds
  <1>1. ASSUME NEW i \in JobIds, StartJob(i)
        PROVE  JobsRun'
    BY <1>1 DEF StartJob, TypeOK
  <1>2. ASSUME NEW i \in JobIds, EndJob(i) \/ Abort(i)
        PROVE  JobsRun'
    <2>1. FinishJob(i) /\ step' = [step EXCEPT ![i] = "off"]
      BY <1>2 DEF EndJob, Abort
    <2>2. at'[i] = None /\ \A k \in JobIds \ {i} : at'[k] = at[k]
      BY <1>2 DEF EndJob, Abort, TypeOK
    <2>3. queue'[i] # "running" /\ \A k \in JobIds \ {i} : queue'[k] = queue[k]
      BY <2>1, Finished
    <2> QED
      BY <2>1, <2>2, <2>3 DEF TypeOK
  <1>3. ASSUME NEW i \in JobIds, Requeue(i)
        PROVE  JobsRun'
    <2>1. \A k \in JobIds : queue'[k] = "running" <=> queue[k] = "running"
      BY <1>3, Enqueued DEF Requeue
    <2> QED
      BY <1>3, <2>1 DEF Requeue, TypeOK
  <1>4. CASE RefreshChats \/ AllVisited
    BY <1>0, <1>4 DEF RefreshChats, AllVisited, TypeOK
  <1>5. ASSUME NEW i \in JobIds, NEW c \in Chats, BeginSync(i, c)
        PROVE  JobsRun'
    BY <1>5 DEF BeginSync, TypeOK
  <1>6. ASSUME NEW i \in JobIds, NEW r \in {"idle", "done", "failed"}, EndSync(i, r)
        PROVE  JobsRun'
    BY <1>6 DEF EndSync, TypeOK
  <1>7. ASSUME NEW i \in JobIds, Flood(i)
        PROVE  JobsRun'
    BY <1>7 DEF Flood, TypeOK
  <1>8. ASSUME NEW i \in JobIds, Enqueue(i), UNCHANGED <<step, at>>
        PROVE  JobsRun'
    <2>1. \A k \in JobIds : queue'[k] = "running" <=> queue[k] = "running"
      BY <1>8, Enqueued
    <2> QED
      BY <1>8, <2>1
  <1>9. CASE Tick
    BY <1>9 DEF Tick, TypeOK
  <1>10. CASE WorkerRestart
    BY <1>10 DEF WorkerRestart, TypeOK
  <1>11. CASE UNCHANGED vars
    BY <1>11 DEF vars
  <1> QED
    BY <1>0, <1>1, <1>2, <1>3, <1>4, <1>5, <1>6, <1>7, <1>8, <1>9, <1>10, <1>11
    DEF Next, Progress, Press, Cron

(* A result outlives the wait that its job has reported: it is kept for as  *)
(* long as the code waits at most, and both count the same ticks.          *)
LEMMA WaitsStep ==
  ASSUME TypeOK, JobsRun, WaitsAreKept, [Next]_vars
  PROVE  WaitsAreKept'
  <1> USE JobsAssumption DEF WaitsAreKept, Running
  <1>1. CASE UNCHANGED <<queue, keep, wait>>
    BY <1>1
  <1>2. ASSUME NEW i \in JobIds, StartJob(i)
        PROVE  WaitsAreKept'
    BY <1>2 DEF StartJob, TypeOK
  <1>3. ASSUME NEW i \in JobIds, FinishJob(i), UNCHANGED wait
        PROVE  WaitsAreKept'
    <2>1. wait[i] \in 0..KeepResult
      BY DEF TypeOK
    <2> QED
      BY <1>3, <2>1, Finished
  <1>4. ASSUME NEW i \in JobIds, Enqueue(i), UNCHANGED <<keep, wait>>
        PROVE  WaitsAreKept'
    BY <1>4, Enqueued
  <1>5. ASSUME NEW i \in JobIds, Flood(i)
        PROVE  WaitsAreKept'
    <2>1. Running(i) /\ UNCHANGED <<queue, keep>>
      BY <1>5 DEF Flood, JobsRun
    <2>2. \A k \in JobIds \ {i} : wait'[k] = wait[k]
      BY <1>5 DEF Flood, TypeOK
    <2> QED
      BY <2>1, <2>2
  <1>6. CASE Tick
    <2> SUFFICES ASSUME NEW i \in JobIds, wait'[i] > 0
                 PROVE  Running(i)' \/ (queue'[i] = "result" /\ wait'[i] <= keep'[i])
      OBVIOUS
    <2>1. wait[i] \in Nat /\ keep[i] \in Nat /\ queue[i] \in {"none", "queued", "running", "result"}
      BY DEF TypeOK
    <2>2. wait'[i] = wait[i] - 1 /\ wait[i] > 1
      BY <1>6, <2>1 DEF Tick
    <2>3. /\ keep'[i] = IF keep[i] > 0 THEN keep[i] - 1 ELSE 0
          /\ queue'[i] = IF queue[i] = "result" /\ keep[i] <= 1 THEN "none" ELSE queue[i]
      BY <1>6 DEF Tick
    <2> QED
      BY <2>1, <2>2, <2>3
  <1>7. CASE WorkerRestart
    BY <1>7 DEF WorkerRestart, TypeOK
  <1> QED
    BY <1>1, <1>2, <1>3, <1>4, <1>5, <1>6, <1>7
    DEF Next, Progress, EndJob, Requeue, RefreshChats, AllVisited, BeginSync, EndSync, Abort, Press,
        Cron, vars, JobIds

-----------------------------------------------------------------------------
LEMMA InvStart ==
  ASSUME Init
  PROVE  Inv
  BY JobsAssumption
  DEF Init, Inv, JobsInv, TypeOK, RunningIsBeingSynced, JobsRun, WaitsAreKept, Running

LEMMA InvStep ==
  ASSUME Inv, [Next]_vars
  PROVE  Inv'
  BY TypeStep, RunningStep, JobsRunStep, WaitsStep DEF Inv, JobsInv

LEMMA AlwaysInv == Spec => []Inv
  <1> QED
    BY InvStart, InvStep, PTL DEF Spec

(* Whatever jobs overlap, pause, abort, die and run again: a chat whose      *)
(* sync_state is RUNNING is being synced by some job, or it was left so by a *)
(* job that job_timeout or an exception aborted, or by a worker that came up *)
(* without its reset, and nothing has freed it since.                      *)
THEOREM JobsAreSound == Spec => []JobsInv
  <1>1. ASSUME Inv
        PROVE  JobsInv
    BY <1>1 DEF Inv
  <1> QED
    BY <1>1, AlwaysInv, PTL

(* A job that a FloodWait has ended is not started before the wait is over, *)
(* or the hour that the code waits at most: neither the cron nor a button    *)
(* nor its own re-enqueueing can bring it back while ARQ keeps its result.  *)
(* Of longer waits it says nothing more than that hour.                    *)
THEOREM RetriesWait == Spec => RetryWaits
  <1>1. ASSUME Inv, [Next]_vars, NEW i \in JobIds, queue[i] = "queued"
        PROVE  wait[i] = 0
    <2>1. wait[i] \in Nat
      BY <1>1, JobsAssumption DEF Inv, JobsInv, TypeOK
    <2> QED
      BY <1>1, <2>1 DEF Inv, WaitsAreKept, Running
  <1>2. ASSUME Inv, [Next]_vars
        PROVE  [\A i \in JobIds : (queue[i] = "queued" /\ queue'[i] = "running") => wait[i] = 0]_vars
    BY <1>1, <1>2
  <1> QED
    BY <1>2, AlwaysInv, PTL DEF Spec, RetryWaits
=============================================================================
