---------------------------- MODULE Websockets_proof ----------------------------
(*******************************************************************************)
(* Proofs about the websocket programs and the report that they write.  The    *)
(* report comes first: every number of latencies and every step, with what it  *)
(* takes to show that an array can be sorted.  Then the programs, for every    *)
(* number of clients and every pair of configurations.  WsInd is inductive for *)
(* WsTrans, where the server handles the messages of several clients at once,  *)
(* and HubInd for WsHub, where a hub runs one handler after the other.         *)
(*******************************************************************************)
EXTENDS WsTrans, WsHub, LatencyReport, SequenceTheorems, FiniteSetTheorems,
        FunctionTheorems, TLAPS

--------------------------------------------------------------------------------
(* Induction.                                                                  *)

\* Every set of natural numbers that is not empty has a least one.
LEMMA LeastElement ==
  ASSUME NEW S \in SUBSET Nat, S # {}
  PROVE  \E n \in S : \A m \in S : n <= m
  <1> DEFINE R == StrictSubsetOrdering(Nat)
             F == FiniteSubsetsOf(Nat)
             T == {0 .. n : n \in S}
  <1>1. \A n \in Nat : 0 .. n \in F
    BY FS_Interval DEF FiniteSubsetsOf
  <1>2. T \subseteq F /\ T # {}
    BY <1>1
  <1>3. \A m, n \in Nat : m < n => <<0 .. m, 0 .. n>> \in R
    <2> SUFFICES ASSUME NEW m \in Nat, NEW n \in Nat, m < n
                 PROVE  <<0 .. m, 0 .. n>> \in R
      OBVIOUS
    <2>1. 0 .. m \subseteq 0 .. n /\ 0 .. n \in SUBSET Nat
      OBVIOUS
    <2>2. n \in 0 .. n /\ n \notin 0 .. m
      OBVIOUS
    <2> QED
      BY <2>1, <2>2, Zenon DEF StrictSubsetOrdering
  <1>4. IsWellFoundedOn(R, F)
    BY FS_StrictSubsetOrderingWellFounded
  <1> HIDE DEF R, F
  <1>5. PICK x \in T : \A y \in T : ~ (<<y, x>> \in R)
    BY <1>2, <1>4, WFMin
  <1>6. PICK n \in S : x = 0 .. n
    OBVIOUS
  <1>7. ASSUME NEW m \in S
        PROVE  n <= m
    <2>1. ~(<<0 .. m, 0 .. n>> \in R)
      BY <1>5, <1>6
    <2>2. m \in Nat /\ n \in Nat
      OBVIOUS
    <2>3. ~(m < n)
      BY <1>3, <2>1, <2>2
    <2> QED
      BY <2>2, <2>3
  <1> QED
    BY <1>7

\* A set that has 0, and with each number the next one, has all of them.
LEMMA NatSetInduction ==
  ASSUME NEW S \in SUBSET Nat, 0 \in S, \A n \in S : n + 1 \in S
  PROVE  S = Nat
  <1> SUFFICES ASSUME Nat \ S # {}
               PROVE  FALSE
    OBVIOUS
  <1>1. PICK n \in Nat \ S : \A m \in Nat \ S : n <= m
    BY LeastElement
  <1>2. n # 0 /\ n - 1 \in Nat /\ n - 1 \notin S
    OBVIOUS
  <1> QED
    BY <1>1, <1>2

--------------------------------------------------------------------------------
(* Sorting.                                                                    *)

\* The permutations of the first n numbers, and the sequences that never fall.
Permutes(p, n) ==
  /\ p \in [0 .. n - 1 -> 0 .. n - 1]
  /\ \A a, b \in 0 .. n - 1 : p[a] = p[b] => a = b
  /\ \A x \in 0 .. n - 1 : \E a \in 0 .. n - 1 : p[a] = x

Rises(s, n) == \A m \in 0 .. n - 1 : m > 0 => s[m - 1] <= s[m]

\* An array that is not empty has a largest element.
LEMMA LargestEntry ==
  ASSUME NEW n \in Nat, NEW e \in [0 .. n -> Int]
  PROVE  \E j \in 0 .. n : \A m \in 0 .. n : e[m] <= e[j]
  <1> DEFINE P(k) == \E j \in 0 .. k : \A m \in 0 .. k : e[m] <= e[j]
             S    == {k \in Nat : k <= n => P(k)}
  <1>1. 0 \in S
    OBVIOUS
  <1>2. ASSUME NEW k \in S
        PROVE  k + 1 \in S
    <2> SUFFICES ASSUME k + 1 <= n
                 PROVE  P(k + 1)
      OBVIOUS
    <2>1. PICK j \in 0 .. k : \A m \in 0 .. k : e[m] <= e[j]
      OBVIOUS
    <2>2. \A m \in 0 .. k + 1 : m = k + 1 \/ m \in 0 .. k
      OBVIOUS
    <2>3. e[j] \in Int /\ e[k + 1] \in Int /\ \A m \in 0 .. k : e[m] \in Int
      OBVIOUS
    <2>4. CASE e[k + 1] <= e[j]
      BY <2>1, <2>2, <2>3, <2>4
    <2>5. CASE ~(e[k + 1] <= e[j])
      <3>1. \A m \in 0 .. k + 1 : e[m] <= e[k + 1]
        BY <2>1, <2>2, <2>3, <2>5
      <3> QED
        BY <3>1
    <2> QED
      BY <2>4, <2>5
  <1> HIDE DEF S
  <1>3. S \in SUBSET Nat
    BY DEF S
  <1>4. n \in S
    BY <1>1, <1>2, <1>3, NatSetInduction
  <1>5. n <= n => P(n)
    BY <1>4 DEF S
  <1> QED
    BY <1>5

Sortable(n) ==
  \A e \in [0 .. n - 1 -> Int] : \E p : Permutes(p, n) /\ Rises([m \in 0 .. n - 1 |-> e[p[m]]], n)

\* An array that has an entry more than those that can be sorted can be sorted: the
\* largest entry is exchanged for the last one, and the others are sorted before it.
LEMMA SortOneMore ==
  ASSUME NEW k \in Nat, Sortable(k), NEW f \in [0 .. k -> Int]
  PROVE  \E p : Permutes(p, k + 1) /\ Rises([m \in 0 .. k |-> f[p[m]]], k + 1)
  <1>1. k \in Nat
    OBVIOUS
  <1>2. PICK j \in 0 .. k : \A m \in 0 .. k : f[m] <= f[j]
    BY LargestEntry
  <1> DEFINE g == [m \in 0 .. k - 1 |-> IF m = j THEN f[k] ELSE f[m]]
  <1>3. g \in [0 .. k - 1 -> Int]
    BY <1>1
  <1>4. PICK p : Permutes(p, k) /\ Rises([m \in 0 .. k - 1 |-> g[p[m]]], k)
    BY <1>3 DEF Sortable
  <1>5. /\ p \in [0 .. k - 1 -> 0 .. k - 1]
        /\ \A a, b \in 0 .. k - 1 : p[a] = p[b] => a = b
        /\ \A x \in 0 .. k - 1 : \E a \in 0 .. k - 1 : p[a] = x
        /\ \A m \in 0 .. k - 1 : m > 0 => g[p[m - 1]] <= g[p[m]]
    <2>1. \A m \in 0 .. k - 1 : m > 0 => m - 1 \in 0 .. k - 1
      BY <1>1
    <2> HIDE DEF g
    <2> QED
      BY <1>4, <2>1 DEF Permutes, Rises
  <1> DEFINE q == [m \in 0 .. k |-> IF m = k THEN j ELSE IF p[m] = j THEN k ELSE p[m]]
  <1>6. \A m \in 0 .. k : m = k \/ m \in 0 .. k - 1
    BY <1>1
  <1>7. q \in [0 .. k -> 0 .. k]
    BY SMTT(30), <1>1, <1>5, <1>6
  <1>8. ASSUME NEW a \in 0 .. k, NEW b \in 0 .. k, q[a] = q[b]
        PROVE  a = b
    <2>1. \A m \in 0 .. k - 1 : p[m] \in 0 .. k - 1 /\ p[m] # k
      BY <1>1, <1>5
    <2>2. \A m \in 0 .. k - 1 : q[m] # j
      BY <1>1, <2>1
    <2>3. q[k] = j
      BY <1>1
    <2>4. CASE a = k \/ b = k
      BY <1>6, <1>8, <2>2, <2>3, <2>4
    <2>5. CASE a # k /\ b # k
      <3>1. a \in 0 .. k - 1 /\ b \in 0 .. k - 1
        BY <1>6, <2>5
      <3>2. p[a] = p[b]
        BY <1>8, <2>1, <2>5, <3>1
      <3> QED
        BY <1>5, <3>1, <3>2
    <2> QED
      BY <2>4, <2>5
  <1>9. ASSUME NEW x \in 0 .. k
        PROVE  \E a \in 0 .. k : q[a] = x
    <2>1. \A m \in 0 .. k - 1 : m \in 0 .. k /\ m # k /\ q[m] = IF p[m] = j THEN k ELSE p[m]
      BY <1>1
    <2>2. CASE x = j
      BY <1>1, <2>2
    <2>3. CASE x # j /\ x = k
      <3>1. PICK a \in 0 .. k - 1 : p[a] = j
        BY <1>5, <1>6, <2>3
      <3> QED
        BY <2>1, <2>3, <3>1
    <2>4. CASE x # j /\ x # k
      <3>1. PICK a \in 0 .. k - 1 : p[a] = x
        BY <1>5, <1>6, <2>4
      <3> QED
        BY <2>1, <2>4, <3>1
    <2> QED
      BY <2>2, <2>3, <2>4
  <1>10. ASSUME NEW m \in 0 .. k, m > 0
         PROVE  f[q[m - 1]] <= f[q[m]]
    <2>1. \A a \in 0 .. k - 1 : f[q[a]] = g[p[a]]
      <3>1. \A a \in 0 .. k - 1 : a \in 0 .. k /\ a # k /\ p[a] \in 0 .. k - 1
        BY <1>1, <1>5
      <3>2. \A a \in 0 .. k - 1 : q[a] = IF p[a] = j THEN k ELSE p[a]
        BY <3>1
      <3> QED
        BY <3>1, <3>2
    <2>2. m - 1 \in 0 .. k - 1
      BY <1>1, <1>10
    <2>3. CASE m = k
      <3>1. q[m] = j /\ q[m - 1] \in 0 .. k
        BY <1>1, <1>7, <2>2, <2>3
      <3> QED
        BY <1>2, <3>1
    <2>4. CASE m # k
      BY <1>5, <1>6, <1>10, <2>1, <2>2, <2>4
    <2> QED
      BY <2>3, <2>4
  <1> HIDE DEF q
  <1>11. Permutes(q, k + 1)
    <2>1. (k + 1) - 1 = k
      BY <1>1
    <2> QED
      BY <1>7, <1>8, <1>9, <2>1 DEF Permutes
  <1>12. Rises([m \in 0 .. k |-> f[q[m]]], k + 1)
    <2>1. \A m \in 0 .. k : m > 0 => m - 1 \in 0 .. k
      BY <1>1
    <2> QED
      BY <1>1, <1>10, <2>1 DEF Rises
  <1> QED
    BY <1>11, <1>12

\* Every array can be sorted.
LEMMA SortExists == \A n \in Nat : Sortable(n)
  <1> DEFINE S == {k \in Nat : Sortable(k)}
  <1>1. 0 \in S
    <2>1. 0 .. 0 - 1 = {}
      OBVIOUS
    <2> SUFFICES ASSUME NEW e \in [0 .. 0 - 1 -> Int]
                 PROVE  \E p : Permutes(p, 0) /\ Rises([m \in 0 .. 0 - 1 |-> e[p[m]]], 0)
      BY DEF Sortable
    <2>2. Permutes(e, 0) /\ Rises([m \in 0 .. 0 - 1 |-> e[e[m]]], 0)
      BY <2>1 DEF Permutes, Rises
    <2> QED
      BY <2>2
  <1>2. ASSUME NEW k \in S
        PROVE  k + 1 \in S
    <2>1. k \in Nat /\ (k + 1) - 1 = k /\ Sortable(k)
      OBVIOUS
    <2>2. ASSUME NEW e \in [0 .. (k + 1) - 1 -> Int]
          PROVE  \E p : Permutes(p, k + 1) /\ Rises([m \in 0 .. (k + 1) - 1 |-> e[p[m]]], k + 1)
      <3>1. e \in [0 .. k -> Int]
        BY <2>1
      <3>2. PICK p : Permutes(p, k + 1) /\ Rises([m \in 0 .. k |-> e[p[m]]], k + 1)
        BY <2>1, <3>1, SortOneMore
      <3> QED
        BY <2>1, <3>2
    <2>3. Sortable(k + 1)
      BY <2>2 DEF Sortable
    <2> QED
      BY <2>1, <2>3
  <1> HIDE DEF S
  <1>3. S \in SUBSET Nat
    BY DEF S
  <1>4. S = Nat
    BY <1>1, <1>2, <1>3, NatSetInduction
  <1> QED
    BY <1>4 DEF S

\* Two finite sets have as many elements if a function pairs them.
LEMMA PairedSets ==
  ASSUME NEW A, NEW B, IsFiniteSet(A), NEW f \in [A -> B],
         \A a, b \in A : f[a] = f[b] => a = b,
         \A x \in B : \E a \in A : f[a] = x
  PROVE  IsFiniteSet(B) /\ Cardinality(B) = Cardinality(A)
  <1>1. f \in Bijection(A, B)
    BY Fun_IsBij
  <1>2. ExistsBijection(A, B)
    BY <1>1 DEF ExistsBijection
  <1> QED
    BY <1>2, FS_Bijection

\* What Sorted returns.
LEMMA SortedIs ==
  ASSUME NEW n \in Nat, NEW e \in [0 .. n - 1 -> Int]
  PROVE  /\ Sorted(e) \in [0 .. n - 1 -> Range(e)]
         /\ Rises(Sorted(e), n)
         /\ \A v \in Range(e) : Count(Sorted(e), v) = Count(e, v)
  <1> DEFINE D == 0 .. n - 1
             Q(s) == /\ \A m \in DOMAIN s : m > 0 => s[m - 1] <= s[m]
                     /\ \A v \in Range(e) : Count(s, v) = Count(e, v)
  <1>1. PICK p : Permutes(p, n) /\ Rises([m \in D |-> e[p[m]]], n)
    BY SortExists DEF Sortable
  <1> DEFINE t == [m \in D |-> e[p[m]]]
  <1>2. /\ p \in [D -> D]
        /\ \A a, b \in D : p[a] = p[b] => a = b
        /\ \A x \in D : \E a \in D : p[a] = x
    BY <1>1 DEF Permutes
  <1>3. t \in [DOMAIN e -> Range(e)]
    BY <1>2 DEF Range
  <1>4. ASSUME NEW v \in Range(e)
        PROVE  Count(t, v) = Count(e, v)
    <2> DEFINE A == {m \in D : t[m] = v}
               B == {m \in D : e[m] = v}
               f == [m \in A |-> p[m]]
    <2>1. IsFiniteSet(A)
      <3>1. IsFiniteSet(D) /\ A \in SUBSET D
        BY FS_Interval
      <3> QED
        BY <3>1, FS_Subset
    <2>2. f \in [A -> B] /\ \A a, b \in A : f[a] = f[b] => a = b
      BY <1>2
    <2>3. \A x \in B : \E a \in A : f[a] = x
      BY <1>2
    <2> HIDE DEF A, B, f
    <2>4. Cardinality(B) = Cardinality(A)
      BY <2>1, <2>2, <2>3, PairedSets
    <2>5. DOMAIN t = D /\ DOMAIN e = D
      OBVIOUS
    <2> QED
      BY <2>4, <2>5 DEF A, B, Count
  <1>5. Q(t)
    BY <1>1, <1>4 DEF Rises
  <1>6. \E s \in [DOMAIN e -> Range(e)] : Q(s)
    BY <1>3, <1>5
  <1>7. Sorted(e) = CHOOSE s \in [DOMAIN e -> Range(e)] : Q(s)
    BY DEF Sorted
  <1> HIDE DEF Q
  <1>8. Sorted(e) \in [DOMAIN e -> Range(e)] /\ Q(Sorted(e))
    BY <1>6, <1>7
  <1> QED
    BY <1>8 DEF Q, Rises

\* How many of the first n entries are in W.
EntriesIn(x, n, W) == Cardinality({m \in 0 .. n - 1 : x[m] \in W})

\* With as many entries of each value, two arrays have as many entries in every set
\* of values.
LEMMA SameInSet ==
  ASSUME NEW n \in Nat, NEW e \in [0 .. n - 1 -> Int], NEW s \in [0 .. n - 1 -> Range(e)],
         \A v \in Range(e) : Count(s, v) = Count(e, v), NEW W
  PROVE  EntriesIn(s, n, W) = EntriesIn(e, n, W)
  <1> DEFINE D == 0 .. n - 1
             At(x, v) == {m \in D : x[m] = v}
             g == [v \in Range(e) |-> CHOOSE h \in Bijection(At(s, v), At(e, v)) : TRUE]
             A == {m \in D : s[m] \in W}
             B == {m \in D : e[m] \in W}
             f == [m \in A |-> g[s[m]][m]]
  <1>1. IsFiniteSet(D) /\ IsFiniteSet(A)
    <2>1. IsFiniteSet(D) /\ A \in SUBSET D
      BY FS_Interval
    <2> QED
      BY <2>1, FS_Subset
  <1>2. ASSUME NEW v \in Range(e)
        PROVE  g[v] \in Bijection(At(s, v), At(e, v))
    <2>1. IsFiniteSet(At(s, v)) /\ IsFiniteSet(At(e, v))
      BY <1>1, FS_Subset
    <2>2. Cardinality(At(s, v)) = Cardinality(At(e, v))
      BY DEF Count
    <2>3. Bijection(At(s, v), At(e, v)) # {}
      BY <2>1, <2>2, FS_SameCardinalityBij, Fun_ExistsBij
    <2> QED
      BY <2>3
  <1> HIDE DEF g
  <1>3. ASSUME NEW v \in Range(e)
        PROVE  /\ \A m \in D : s[m] = v => g[v][m] \in D /\ e[g[v][m]] = v
               /\ \A a, b \in D : s[a] = v /\ s[b] = v /\ g[v][a] = g[v][b] => a = b
               /\ \A x \in D : e[x] = v => \E a \in D : s[a] = v /\ g[v][a] = x
    <2> DEFINE X == At(s, v)
               Y == At(e, v)
    <2>1. \A m \in D : (s[m] = v <=> m \in X) /\ (e[m] = v <=> m \in Y)
      OBVIOUS
    <2>2. Y \subseteq D /\ X \subseteq D
      OBVIOUS
    <2>3. g[v] \in Bijection(X, Y)
      BY <1>2
    <2> HIDE DEF X, Y, D
    <2>4. /\ g[v] \in [X -> Y]
          /\ \A a, b \in X : g[v][a] = g[v][b] => a = b
          /\ \A x \in Y : \E a \in X : g[v][a] = x
      BY <2>3, Fun_BijectionProperties
    <2> QED
      BY <2>1, <2>2, <2>4
  <1>4. \A m \in D : s[m] \in Range(e) /\ e[m] \in Range(e)
    BY DEF Range
  <1>5. /\ \A m \in A : m \in D /\ s[m] \in W /\ f[m] = g[s[m]][m]
        /\ \A m \in A : f[m] \in D /\ e[f[m]] = s[m]
    BY <1>3, <1>4
  <1>6. ASSUME NEW x \in B
        PROVE  \E a \in A : f[a] = x
    <2>1. x \in D /\ e[x] \in W /\ e[x] \in Range(e)
      BY <1>4
    <2>2. PICK a \in D : s[a] = e[x] /\ g[e[x]][a] = x
      BY <1>3, <2>1
    <2>3. a \in A /\ f[a] = g[s[a]][a]
      BY <2>1, <2>2
    <2> QED
      BY <2>2, <2>3
  <1>7. f \in [A -> B]
    BY <1>5
  <1>8. \A a, b \in A : f[a] = f[b] => a = b
    BY SMTT(30), <1>3, <1>4, <1>5
  <1> HIDE DEF A, B, f
  <1>9. Cardinality(B) = Cardinality(A)
    BY <1>1, <1>6, <1>7, <1>8, PairedSets
  <1> QED
    BY <1>9 DEF A, B, EntriesIn

\* What never falls from one entry to the next never falls.
LEMMA NeverFalls ==
  ASSUME NEW n \in Nat, NEW s \in [0 .. n - 1 -> Int], Rises(s, n),
         NEW a \in 0 .. n - 1, NEW b \in 0 .. n - 1, a <= b
  PROVE  s[a] <= s[b]
  <1> DEFINE P(k) == \A m \in 0 .. k : s[m] <= s[k]
             S    == {k \in Nat : k < n => P(k)}
  <1>1. 0 \in S
    OBVIOUS
  <1>2. ASSUME NEW k \in S
        PROVE  k + 1 \in S
    <2> SUFFICES ASSUME k + 1 < n, NEW m \in 0 .. k + 1
                 PROVE  s[m] <= s[k + 1]
      OBVIOUS
    <2>1. k \in Nat /\ P(k)
      OBVIOUS
    <2>2. s[k] <= s[k + 1]
      <3>1. k + 1 \in 0 .. n - 1 /\ k + 1 > 0 /\ (k + 1) - 1 = k
        BY <2>1
      <3> QED
        BY <3>1 DEF Rises
    <2>3. m \in 0 .. n - 1 /\ k \in 0 .. n - 1 /\ k + 1 \in 0 .. n - 1 /\ (m = k + 1 \/ m \in 0 .. k)
      BY <2>1
    <2>4. s[m] \in Int /\ s[k] \in Int /\ s[k + 1] \in Int
      BY <2>3
    <2> QED
      BY <2>1, <2>2, <2>3, <2>4
  <1> HIDE DEF S
  <1>3. S \in SUBSET Nat
    BY DEF S
  <1>4. S = Nat
    BY <1>1, <1>2, <1>3, NatSetInduction
  <1>5. P(b)
    <2>1. b \in S /\ b < n
      BY <1>4
    <2> QED
      BY <2>1 DEF S
  <1> QED
    BY <1>5

\* An entry of the sorted array: no more entries are smaller than stand before it,
\* and at least those up to it are not larger.
LEMMA QuantileOf ==
  ASSUME NEW n \in Nat, NEW e \in [0 .. n - 1 -> Int], NEW pos \in 0 .. n - 1
  PROVE  LET v == Sorted(e)[pos]
         IN  /\ v \in Range(e)
             /\ Cardinality({m \in DOMAIN e : e[m] < v}) \in Nat
             /\ Cardinality({m \in DOMAIN e : e[m] < v}) <= pos
             /\ Cardinality({m \in DOMAIN e : e[m] <= v}) \in Nat
             /\ Cardinality({m \in DOMAIN e : e[m] <= v}) >= pos + 1
  <1> DEFINE D == 0 .. n - 1
             s == Sorted(e)
             v == s[pos]
             L == {w \in Int : w < v}
             U == {w \in Int : w <= v}
  <1>1. /\ s \in [D -> Range(e)]
        /\ Rises(s, n)
        /\ \A w \in Range(e) : Count(s, w) = Count(e, w)
    BY SortedIs
  <1>2. Range(e) \subseteq Int
    BY DEF Range
  <1> HIDE DEF s
  <1>3. s \in [D -> Int] /\ v \in Int /\ v \in Range(e)
    BY <1>1, <1>2
  <1>4. IsFiniteSet(D) /\ DOMAIN e = D
    BY FS_Interval
  <1>5. \A W : EntriesIn(s, n, W) = EntriesIn(e, n, W)
    BY <1>1, SameInSet
  <1>6. /\ Cardinality({m \in D : s[m] \in L}) = Cardinality({m \in D : e[m] \in L})
        /\ Cardinality({m \in D : s[m] \in U}) = Cardinality({m \in D : e[m] \in U})
    BY <1>5 DEF EntriesIn
  <1>7. {m \in D : e[m] \in L} = {m \in DOMAIN e : e[m] < v}
    OBVIOUS
  <1>8. {m \in D : e[m] \in U} = {m \in DOMAIN e : e[m] <= v}
    OBVIOUS
  <1>9. {m \in D : s[m] \in L} \subseteq 0 .. pos - 1
    <2> SUFFICES ASSUME NEW m \in D, s[m] < v, m >= pos
                 PROVE  FALSE
      BY <1>3
    <2>1. v <= s[m]
      BY <1>1, <1>3, NeverFalls
    <2>2. s[m] \in Int
      BY <1>3
    <2> HIDE DEF v
    <2> QED
      BY <1>3, <2>1, <2>2
  <1>10. 0 .. pos \subseteq {m \in D : s[m] \in U}
    <2> SUFFICES ASSUME NEW m \in 0 .. pos
                 PROVE  m \in D /\ s[m] \in Int /\ s[m] <= v
      OBVIOUS
    <2>1. m \in D /\ m <= pos
      OBVIOUS
    <2> QED
      BY <1>1, <1>3, <2>1, NeverFalls
  <1> HIDE DEF L, U, v
  <1>11. /\ Cardinality({m \in D : s[m] \in L}) <= pos
         /\ Cardinality({m \in D : s[m] \in L}) \in Nat
    <2>1. IsFiniteSet(0 .. pos - 1) /\ Cardinality(0 .. pos - 1) = pos
      <3>1. pos - 1 \in Int /\ 0 \in Int /\ (0 > pos - 1 => pos = 0) /\ pos - 1 - 0 + 1 = pos
        OBVIOUS
      <3> QED
        BY <3>1, FS_Interval
    <2> QED
      BY <1>9, <2>1, FS_Subset, FS_CardinalityType
  <1>12. /\ Cardinality({m \in D : s[m] \in U}) >= pos + 1
         /\ Cardinality({m \in D : s[m] \in U}) \in Nat
    <2>1. IsFiniteSet(0 .. pos) /\ Cardinality(0 .. pos) = pos + 1
      BY FS_Interval
    <2>2. IsFiniteSet({m \in D : s[m] \in U})
      BY <1>4, FS_Subset
    <2> QED
      BY <1>10, <2>1, <2>2, FS_Subset, FS_CardinalityType
  <1> QED
    BY <1>3, <1>6, <1>7, <1>8, <1>11, <1>12 DEF v, s

--------------------------------------------------------------------------------
(* The report.                                                                 *)

\* A sequence with one more element.
LEMMA OneMoreCell ==
  ASSUME NEW T, NEW q \in Seq(T), NEW x \in T
  PROVE  /\ Append(q, x) \in Seq(T)
         /\ Len(Append(q, x)) = Len(q) + 1
         /\ Len(q) \in Nat
         /\ Append(q, x)[Len(q) + 1] = x
         /\ \A k \in 1 .. Len(q) : Append(q, x)[k] = q[k]
         /\ \A k \in 1 .. Len(q) + 1 : k = Len(q) + 1 \/ k \in 1 .. Len(q)
  OBVIOUS

\* The types of what is reported.
LEMMA ReportTypes ==
  ASSUME ReportType
  PROVE  /\ cnt \in Nat /\ step \in Int
         /\ messages \in [0 .. cnt - 1 -> Int] /\ messages \in [0 .. cnt - 1 -> Values]
         /\ elapseds \in [0 .. cnt - 1 -> Int] /\ elapseds \in [0 .. cnt - 1 -> Values]
         /\ Values \subseteq Int
         /\ head \in Seq(Int) /\ i \in Int
         /\ \A r \in Rows : rows[r] \in Seq(Values) /\ Len(rows[r]) \in Nat
         /\ "byIdx" \in Rows /\ "byElapsed" \in Rows
         /\ rows \in [Rows -> Seq(Values)]
  <1>1. Values \subseteq Int
    BY ReportAssumption DEF Values
  <1>2. cnt \in Nat /\ step \in Int
    BY ReportAssumption DEF ReportType
  <1> HIDE DEF Values
  <1>3. /\ messages \in [0 .. cnt - 1 -> Values] /\ elapseds \in [0 .. cnt - 1 -> Values]
        /\ head \in Seq(Int) /\ i \in Int /\ rows \in [Rows -> Seq(Values)]
    BY DEF ReportType
  <1>4. messages \in [0 .. cnt - 1 -> Int] /\ elapseds \in [0 .. cnt - 1 -> Int]
    BY <1>1, <1>3
  <1>5. \A r \in Rows : rows[r] \in Seq(Values) /\ Len(rows[r]) \in Nat
    BY <1>3
  <1> QED
    BY <1>1, <1>2, <1>3, <1>4, <1>5 DEF Rows

\* The multiples of a step are ordered as the numbers are.
LEMMA MultiplesInOrder ==
  ASSUME NEW s \in Int, s > 0, NEW a \in Int, NEW b \in Int
  PROVE  /\ a * s < b * s => a < b
         /\ a >= 0 => a * s >= 0
         /\ (a + 1) * s = a * s + s
  <1>1. ASSUME b <= a
        PROVE  b * s <= a * s
    <2>1. PICK d \in Nat : a = b + d
      <3>1. a - b \in Nat /\ a = b + (a - b)
        BY <1>1
      <3> QED
        BY <3>1
    <2>2. a * s = b * s + d * s
      BY <2>1
    <2>3. d * s \in Nat
      OBVIOUS
    <2>4. b * s \in Int
      OBVIOUS
    <2> QED
      BY <2>2, <2>3, <2>4
  <1>2. a * s \in Int /\ b * s \in Int
    OBVIOUS
  <1>3. a * s < b * s => a < b
    BY <1>1, <1>2
  <1>4. a >= 0 => a * s >= 0
    OBVIOUS
  <1>5. (a + 1) * s = a * s + s
    OBVIOUS
  <1> QED
    BY <1>3, <1>4, <1>5

\* An index is at the share of the way that its label says, up to one entry, and
\* inside an array that has entries.
LEMMA IndexUnderLabel ==
  ASSUME cnt \in Nat, NEW k \in 0 .. 99, NEW pos \in Indices(k)
  PROVE  /\ pos \in Nat
         /\ pos * 100 <= k * cnt
         /\ k * cnt <= (pos + 1) * 100
         /\ cnt > 0 => pos \in 0 .. cnt - 1
  <1> DEFINE x == k * cnt
             q == x \div 100
  <1>1. x \in Nat /\ x <= 99 * cnt
    <2>1. PICK d \in Nat : 99 = k + d
      <3>1. 99 - k \in Nat /\ 99 = k + (99 - k)
        OBVIOUS
      <3> QED
        BY <3>1
    <2>2. 99 * cnt = k * cnt + d * cnt
      BY <2>1
    <2>3. k * cnt \in Nat /\ d * cnt \in Nat
      OBVIOUS
    <2> QED
      BY <2>2, <2>3
  <1>2. pos = q \/ (x % 100 = 0 /\ q > 0 /\ pos = q - 1)
    BY DEF Indices
  <1> HIDE DEF x
  <1>3. q \in Nat /\ q * 100 <= x /\ x < (q + 1) * 100 /\ (x % 100 = 0 => q * 100 = x)
    BY <1>1
  <1> HIDE DEF q
  <1>4. /\ pos \in Nat /\ pos <= q
        /\ pos * 100 <= x
        /\ x <= (pos + 1) * 100
    BY <1>1, <1>2, <1>3
  <1>5. cnt > 0 => q < cnt
    BY <1>1, <1>3
  <1> QED
    BY <1>1, <1>3, <1>4, <1>5 DEF x

\* What a new cell at the end of row r is: the entry of the array at the share of the
\* way that its label says.
LEMMA NewCellKeeps ==
  ASSUME ReportInd, NEW r \in Rows, pc = r, NEW pos \in 0 .. cnt - 1,
         NEW label \in Int, label = head[Len(rows[r]) + 1],
         pos * 100 <= label * cnt, label * cnt <= (pos + 1) * 100,
         rows' = [rows EXCEPT ![r] = Append(@, elapseds[pos])],
         UNCHANGED <<cnt, messages, head>>
  PROVE  /\ rows' \in [Rows -> Seq(Values)]
         /\ Len(rows'[r]) = Len(rows[r]) + 1
         /\ \A o \in Rows \ {r} : rows'[o] = rows[o]
         /\ ByIdxIsOriginal'
         /\ QuantileUnderLabel'
         /\ \A k \in 1 .. Len(rows'["byElapsed"]) :
              \E m \in DOMAIN messages : rows'["byElapsed"][k] = messages[m]
  <1>0. cnt' = cnt /\ messages' = messages /\ head' = head
    OBVIOUS
  <1>1. ReportType /\ ByIdxIsOriginal /\ QuantileUnderLabel /\ SourceInv
    BY DEF ReportInd
  <1> DEFINE x == elapseds[pos]
             D == 0 .. cnt - 1
  <1>2. /\ x \in Values /\ rows[r] \in Seq(Values) /\ rows \in [Rows -> Seq(Values)]
        /\ messages \in [D -> Int] /\ DOMAIN messages = D /\ cnt \in Nat
    BY <1>1, ReportTypes
  <1>3. /\ rows' \in [Rows -> Seq(Values)]
        /\ rows'[r] = Append(rows[r], x)
        /\ \A o \in Rows \ {r} : rows'[o] = rows[o]
    <2>1. Append(rows[r], x) \in Seq(Values)
      BY <1>2, OneMoreCell
    <2> HIDE DEF x
    <2>2. rows' = [rows EXCEPT ![r] = Append(rows[r], x)]
      BY DEF x
    <2> QED
      BY <1>2, <2>1, <2>2
  <1>4. /\ Len(rows'[r]) = Len(rows[r]) + 1 /\ Len(rows[r]) \in Nat
        /\ rows'[r][Len(rows[r]) + 1] = x
        /\ \A k \in 1 .. Len(rows[r]) : rows'[r][k] = rows[r][k]
        /\ \A k \in 1 .. Len(rows'[r]) : k = Len(rows[r]) + 1 \/ k \in 1 .. Len(rows[r])
    <2> DEFINE q == rows[r]
    <2>1. q \in Seq(Values) /\ x \in Values
      BY <1>2
    <2>2. rows'[r] = Append(q, x)
      BY <1>3
    <2> HIDE DEF x, q
    <2>3. /\ Len(Append(q, x)) = Len(q) + 1 /\ Len(q) \in Nat
          /\ Append(q, x)[Len(q) + 1] = x
          /\ \A k \in 1 .. Len(q) : Append(q, x)[k] = q[k]
          /\ \A k \in 1 .. Len(q) + 1 : k = Len(q) + 1 \/ k \in 1 .. Len(q)
      BY ONLY <2>1, OneMoreCell
    <2>4. /\ Len(rows'[r]) = Len(q) + 1 /\ Len(q) \in Nat
          /\ rows'[r][Len(q) + 1] = x
          /\ \A k \in 1 .. Len(q) : rows'[r][k] = q[k]
          /\ \A k \in 1 .. Len(rows'[r]) : k = Len(q) + 1 \/ k \in 1 .. Len(q)
      BY ONLY <2>2, <2>3
    <2> QED
      BY <2>4 DEF q
  <1>5. "byIdx" \in Rows /\ "byElapsed" \in Rows /\ (r = "byIdx" \/ r = "byElapsed")
    BY DEF Rows
  <1>6. ByIdxIsOriginal'
    <2>1. CASE r = "byIdx"
      <3>1. x = messages[pos] /\ pos \in DOMAIN messages
        BY <1>1, <1>2, <2>1 DEF SourceInv
      <3>2. ASSUME NEW k \in 1 .. Len(rows'["byIdx"])
            PROVE  \E m \in DOMAIN messages : /\ rows'["byIdx"][k] = messages[m]
                                              /\ m * 100 <= head[k] * cnt
                                              /\ head[k] * cnt <= (m + 1) * 100
        <4>1. CASE k = Len(rows[r]) + 1
          BY <1>4, <2>1, <3>1, <4>1
        <4>2. CASE k \in 1 .. Len(rows[r])
          <5>1. rows'["byIdx"][k] = rows["byIdx"][k] /\ k \in 1 .. Len(rows["byIdx"])
            BY <1>4, <2>1, <4>2
          <5>2. \E m \in DOMAIN messages : /\ rows["byIdx"][k] = messages[m]
                                           /\ m * 100 <= head[k] * cnt
                                           /\ head[k] * cnt <= (m + 1) * 100
            BY <1>1, <5>1 DEF ByIdxIsOriginal
          <5> QED
            BY ONLY <5>1, <5>2
        <4> QED
          BY <1>4, <2>1, <4>1, <4>2
      <3> QED
        BY ONLY <1>0, <3>2 DEF ByIdxIsOriginal
    <2>2. CASE r = "byElapsed"
      <3>1. rows'["byIdx"] = rows["byIdx"]
        BY <1>3, <1>5, <2>2
      <3> QED
        BY ONLY <1>0, <1>1, <3>1 DEF ByIdxIsOriginal
    <2> QED
      BY <1>5, <2>1, <2>2
  <1>7. CASE r = "byIdx"
    <2>1. rows'["byElapsed"] = rows["byElapsed"]
      BY <1>3, <1>5, <1>7
    <2>2. QuantileUnderLabel'
      BY ZenonT(30), <1>1, <2>1 DEF QuantileUnderLabel, Below, UpTo
    <2>3. \A k \in 1 .. Len(rows["byElapsed"]) : \E m \in DOMAIN messages : rows["byElapsed"][k] = messages[m]
      BY <1>1 DEF SourceInv
    <2>4. \A k \in 1 .. Len(rows'["byElapsed"]) : \E m \in DOMAIN messages : rows'["byElapsed"][k] = messages[m]
      BY ONLY <2>1, <2>3
    <2> QED
      BY <1>3, <1>4, <1>6, <2>2, <2>4
  <1>8. CASE r = "byElapsed"
    <2>1. x = Sorted(messages)[pos]
      BY <1>1, <1>8 DEF SourceInv
    <2>2. /\ x \in Range(messages)
          /\ Below(x) \in Nat /\ Below(x) <= pos
          /\ UpTo(x) \in Nat /\ UpTo(x) >= pos + 1
      <3> HIDE DEF x
      <3> QED
        BY <1>2, <2>1, QuantileOf DEF Below, UpTo
    <2>3. Below(x) * 100 <= label * cnt /\ label * cnt <= UpTo(x) * 100
      <3> DEFINE y == label * cnt
                 b == Below(x)
                 u == UpTo(x)
      <3>1. y \in Int
        <4>1. cnt \in Int /\ label \in Int
          BY <1>2
        <4> QED
          BY ONLY <4>1
      <3>2. pos \in Int /\ pos * 100 <= y /\ y <= (pos + 1) * 100
        OBVIOUS
      <3>3. b \in Nat /\ b <= pos /\ u \in Nat /\ u >= pos + 1
        BY <2>2
      <3> HIDE DEF y, b, u
      <3>4. b * 100 <= y /\ y <= u * 100
        BY ONLY <3>1, <3>2, <3>3
      <3> QED
        BY <3>4 DEF y, b, u
    <2>4. \A v : Below(v)' = Below(v) /\ UpTo(v)' = UpTo(v)
      BY DEF Below, UpTo
    <2>5. ASSUME NEW k \in 1 .. Len(rows'["byElapsed"])
          PROVE  /\ Below(rows'["byElapsed"][k]) * 100 <= head[k] * cnt
                 /\ head[k] * cnt <= UpTo(rows'["byElapsed"][k]) * 100
                 /\ \E m \in DOMAIN messages : rows'["byElapsed"][k] = messages[m]
      <3>1. CASE k = Len(rows[r]) + 1
        <4>1. rows'["byElapsed"][k] = x /\ head[k] = label
          BY <1>4, <1>8, <3>1
        <4>2. \E m \in DOMAIN messages : x = messages[m]
          BY <2>2 DEF Range
        <4> HIDE DEF x
        <4> QED
          BY <2>3, <4>1, <4>2
      <3>2. CASE k \in 1 .. Len(rows[r])
        BY <1>1, <1>4, <1>8, <3>2 DEF QuantileUnderLabel, SourceInv
      <3> QED
        BY <1>4, <1>8, <3>1, <3>2
    <2>6. QuantileUnderLabel'
      BY ZenonT(30), <2>4, <2>5 DEF QuantileUnderLabel, Below, UpTo
    <2> QED
      BY <1>3, <1>4, <1>6, <2>5, <2>6
  <1> QED
    BY <1>5, <1>7, <1>8

\* What is left of the invariant while the head is written: the rows are empty.
LEMMA NoRowsYet ==
  ASSUME ReportInd, pc = "head"
  PROVE  /\ ReportType /\ LabelInv
         /\ elapseds = messages
         /\ Len(rows["byIdx"]) = 0 /\ Len(rows["byElapsed"]) = 0
         /\ cnt \in Nat /\ step \in Int /\ i \in Int /\ head \in Seq(Int)
  BY ReportTypes DEF ReportInd, LengthInv, SourceInv

LEMMA HeadLabelKeeps == ReportInd /\ HeadLabel => ReportInd'
  <1> SUFFICES ASSUME ReportInd, HeadLabel
               PROVE  ReportInd'
    OBVIOUS
  <1> DEFINE n == Len(head)
  <1>1. /\ pc = "head" /\ pc' = "head" /\ i < 100
        /\ cnt' = cnt /\ step' = step /\ messages' = messages /\ elapseds' = elapseds /\ rows' = rows
        /\ head' = Append(head, i) /\ i' = i + step
    BY DEF HeadLabel
  <1>2. /\ ReportType /\ LabelInv
        /\ elapseds = messages
        /\ Len(rows["byIdx"]) = 0 /\ Len(rows["byElapsed"]) = 0
        /\ cnt \in Nat /\ step \in Int /\ i \in Int /\ head \in Seq(Int)
    BY <1>1, NoRowsYet
  <1>3. /\ head' \in Seq(Int) /\ Len(head') = n + 1 /\ n \in Nat
        /\ head'[n + 1] = i
        /\ \A k \in 1 .. n : head'[k] = head[k]
        /\ \A k \in 1 .. n + 1 : k = n + 1 \/ k \in 1 .. n
    BY <1>1, <1>2, OneMoreCell
  <1>4. ReportType'
    BY <1>1, <1>2, <1>3 DEF ReportType
  <1>5. LabelInv'
    <2>1. i = n * step /\ \A k \in 1 .. n : head[k] = (k - 1) * step /\ head[k] < 100
      BY <1>1, <1>2 DEF LabelInv
    <2>2. (n + 1) * step = n * step + step
      BY <1>2, <1>3
    <2>3. i' = (n + 1) * step
      BY <1>1, <2>1, <2>2
    <2>4. (n + 1) - 1 = n
      BY <1>3
    <2>5. ASSUME NEW k \in 1 .. n + 1
          PROVE  head'[k] = (k - 1) * step /\ head'[k] < 100
      <3>1. CASE k = n + 1
        BY ONLY <1>1, <1>3, <2>1, <2>4, <3>1
      <3>2. CASE k \in 1 .. n
        BY ONLY <1>3, <2>1, <3>2
      <3> QED
        BY <1>3, <3>1, <3>2
    <2> HIDE DEF n
    <2> QED
      BY ONLY <1>1, <1>3, <2>3, <2>5 DEF LabelInv
  <1>6. ByIdxIsOriginal' /\ QuantileUnderLabel' /\ LengthInv' /\ SourceInv' /\ FailsOnlyWhenEmpty'
    <2>1. 1 .. 0 = {}
      OBVIOUS
    <2>2. ByIdxIsOriginal' /\ QuantileUnderLabel'
      BY ONLY <1>1, <1>2, <2>1 DEF ByIdxIsOriginal, QuantileUnderLabel
    <2>3. SourceInv' /\ FailsOnlyWhenEmpty'
      BY ONLY <1>1, <1>2, <2>1 DEF SourceInv, FailsOnlyWhenEmpty
    <2>4. LengthInv'
      BY ONLY <1>1, <1>2 DEF LengthInv, Rows
    <2> QED
      BY <2>2, <2>3, <2>4
  <1> QED
    BY <1>4, <1>5, <1>6 DEF ReportInd

LEMMA HeadEndKeeps == ReportInd /\ HeadEnd => ReportInd'
  <1> SUFFICES ASSUME ReportInd, HeadEnd
               PROVE  ReportInd'
    OBVIOUS
  <1> DEFINE n == Len(head)
  <1>1. /\ pc = "head" /\ pc' = "byIdx" /\ i >= 100 /\ i' = 0
        /\ cnt' = cnt /\ step' = step /\ messages' = messages /\ elapseds' = elapseds /\ rows' = rows
        /\ head' = Append(head, 100)
    BY DEF HeadEnd
  <1>2. /\ ReportType /\ LabelInv
        /\ elapseds = messages
        /\ Len(rows["byIdx"]) = 0 /\ Len(rows["byElapsed"]) = 0
        /\ cnt \in Nat /\ step \in Int /\ i \in Int /\ head \in Seq(Int)
    BY <1>1, NoRowsYet
  <1>3. /\ head' \in Seq(Int) /\ Len(head') = n + 1 /\ n \in Nat
        /\ head'[n + 1] = 100
        /\ \A k \in 1 .. n : head'[k] = head[k]
        /\ \A k \in 1 .. n + 1 : k = n + 1 \/ k \in 1 .. n
    BY <1>1, <1>2, OneMoreCell
  <1>4. ReportType'
    BY <1>1, <1>2, <1>3 DEF ReportType, Rows
  <1>5. LabelInv'
    <2>1. i = n * step /\ \A k \in 1 .. n : head[k] = (k - 1) * step /\ head[k] < 100
      BY <1>1, <1>2 DEF LabelInv
    <2>2. step > 0
      BY ONLY <1>1, <1>2, <1>3, <2>1
    <2>3. (n + 1) - 1 = n /\ n + 1 > 0
      BY <1>3
    <2>4. \A k \in 1 .. n : head'[k] = (k - 1) * step /\ head'[k] < 100
      BY ONLY <1>3, <2>1
    <2>5. n * step >= 100
      BY ONLY <1>1, <2>1
    <2> HIDE DEF n
    <2> QED
      BY ONLY <1>1, <1>3, <2>2, <2>3, <2>4, <2>5 DEF LabelInv
  <1>6. ByIdxIsOriginal' /\ QuantileUnderLabel' /\ LengthInv' /\ SourceInv' /\ FailsOnlyWhenEmpty'
    <2>1. 1 .. 0 = {}
      OBVIOUS
    <2>2. ByIdxIsOriginal' /\ QuantileUnderLabel'
      BY ONLY <1>1, <1>2, <2>1 DEF ByIdxIsOriginal, QuantileUnderLabel
    <2>3. SourceInv' /\ FailsOnlyWhenEmpty'
      BY ONLY <1>1, <1>2, <2>1 DEF SourceInv, FailsOnlyWhenEmpty
    <2>4. 0 * step = 0
      BY <1>2
    <2>5. LengthInv'
      BY ONLY <1>1, <1>2, <1>3, <2>4 DEF LengthInv, Rows
    <2> QED
      BY <2>2, <2>3, <2>5
  <1> QED
    BY <1>4, <1>5, <1>6 DEF ReportInd

\* Where the loop of a row is: it has written a cell under each label before the one
\* that it is at, and its end is at the last label.
LEMMA AtLabel ==
  ASSUME ReportInd, NEW r \in Rows, pc = r
  PROVE  LET l == Len(rows[r])
             n == Len(head)
         IN  /\ l \in Nat /\ n \in Nat /\ l < n
             /\ step \in Int /\ step > 0 /\ i = l * step /\ (l + 1) * step = i + step
             /\ i < 100 => i \in 0 .. 99 /\ head[l + 1] = i /\ l + 1 < n
             /\ i >= 100 => head[l + 1] = 100 /\ l + 1 = n /\ cnt > 0
  <1> DEFINE l == Len(rows[r])
             n == Len(head)
  <1>1. /\ ReportType /\ LabelInv /\ LengthInv
        /\ r = "byIdx" \/ r = "byElapsed"
    BY DEF ReportInd, Rows
  <1>2. /\ l \in Nat /\ n \in Nat /\ i \in Int /\ step \in Int /\ cnt \in Nat
        /\ i = l * step /\ l < n
    BY <1>1, ReportTypes DEF LengthInv
  <1>3. /\ step > 0 /\ n > 0
        /\ \A k \in 1 .. n - 1 : head[k] = (k - 1) * step /\ head[k] < 100
        /\ head[n] = 100
        /\ (n - 1) * step >= 100
    BY <1>1 DEF LabelInv, Rows
  <1>4. cnt = 0 => r = "byIdx" /\ l = 0
    BY <1>1, <1>2 DEF LengthInv
  <1> HIDE DEF l, n
  <1>5. (l + 1) * step = l * step + step
    BY <1>2
  <1>6. ASSUME i < 100
        PROVE  i \in 0 .. 99 /\ head[l + 1] = i /\ l + 1 < n
    <2>1. l # n - 1
      BY ONLY <1>2, <1>3, <1>6
    <2>2. l + 1 \in 1 .. n - 1 /\ (l + 1) - 1 = l
      BY <1>2, <2>1
    <2>3. head[l + 1] = l * step
      BY ONLY <1>3, <2>2
    <2>4. l * step >= 0
      BY <1>2, <1>3, MultiplesInOrder
    <2> QED
      BY ONLY <1>2, <1>6, <2>2, <2>3, <2>4
  <1>7. ASSUME i >= 100
        PROVE  head[l + 1] = 100 /\ l + 1 = n /\ cnt > 0
    <2>1. ASSUME l + 1 # n
          PROVE  FALSE
      <3>1. l + 1 \in 1 .. n - 1 /\ (l + 1) - 1 = l
        BY ONLY <1>2, <2>1
      <3>2. l * step < 100
        BY ONLY <1>3, <3>1
      <3> QED
        BY ONLY <1>2, <1>7, <3>2
    <2>2. cnt # 0
      BY ONLY <1>2, <1>4, <1>7
    <2> QED
      BY <1>2, <1>3, <2>1, <2>2
  <1> QED
    BY <1>2, <1>3, <1>5, <1>6, <1>7 DEF l, n

LEMMA RowCellKeeps == ReportInd /\ (\E r \in Rows : RowCell(r)) => ReportInd'
  <1> SUFFICES ASSUME ReportInd, NEW r \in Rows, RowCell(r)
               PROVE  ReportInd'
    OBVIOUS
  <1> DEFINE l == Len(rows[r])
             n == Len(head)
  <1>1. /\ pc = r /\ i < 100 /\ i' = i + step
        /\ cnt' = cnt /\ step' = step /\ messages' = messages /\ elapseds' = elapseds /\ head' = head
    BY DEF RowCell
  <1>2. PICK pos \in Indices(i) : Cell(r, pos)
    BY DEF RowCell
  <1>3. /\ l \in Nat /\ n \in Nat /\ l < n
        /\ step \in Int /\ step > 0 /\ i = l * step /\ i' = (l + 1) * step
        /\ i \in 0 .. 99 /\ head[l + 1] = i /\ l + 1 < n
    <2>1. /\ l \in Nat /\ n \in Nat /\ l < n
          /\ step \in Int /\ step > 0 /\ i = l * step /\ (l + 1) * step = i + step
          /\ i < 100 => i \in 0 .. 99 /\ head[l + 1] = i /\ l + 1 < n
      BY <1>1, AtLabel
    <2> QED
      BY <1>1, <2>1
  <1>4. /\ ReportType /\ LabelInv /\ LengthInv /\ SourceInv
        /\ ByIdxIsOriginal /\ QuantileUnderLabel
        /\ cnt \in Nat
        /\ r = "byIdx" \/ r = "byElapsed"
    BY ReportTypes DEF ReportInd, Rows
  <1>5. /\ pos * 100 <= i * cnt /\ i * cnt <= (pos + 1) * 100
        /\ cnt > 0 => pos \in 0 .. cnt - 1
    BY <1>2, <1>3, <1>4, IndexUnderLabel
  <1>6. LabelInv' /\ i' \in Int
    <2>1. i' \in Int
      BY <1>1, <1>3
    <2>2. pc # "head" /\ pc' # "head"
      BY <1>1, <1>2, <1>4 DEF Cell
    <2> QED
      BY ONLY <1>1, <1>4, <2>1, <2>2 DEF LabelInv
  <1>7. CASE pos \notin 0 .. cnt - 1
    <2>1. cnt = 0 /\ pc' = "failed" /\ rows' = rows
      BY <1>2, <1>4, <1>5, <1>7 DEF Cell
    <2>2. ReportType'
      BY ONLY <1>1, <1>4, <1>6, <2>1 DEF ReportType
    <2>3. ByIdxIsOriginal' /\ FailsOnlyWhenEmpty'
      BY ONLY <1>1, <1>4, <2>1 DEF ByIdxIsOriginal, FailsOnlyWhenEmpty
    <2>4. QuantileUnderLabel'
      BY ONLY <1>1, <1>4, <2>1 DEF QuantileUnderLabel, Below, UpTo
    <2>5. LengthInv' /\ SourceInv'
      BY ONLY <1>1, <1>4, <2>1 DEF LengthInv, SourceInv, Rows
    <2> QED
      BY <1>6, <2>2, <2>3, <2>4, <2>5 DEF ReportInd
  <1>8. CASE pos \in 0 .. cnt - 1
    <2>1. /\ cnt > 0 /\ pc' = pc
          /\ rows' = [rows EXCEPT ![r] = Append(@, elapseds[pos])]
      BY <1>2, <1>4, <1>8 DEF Cell
    <2>2. /\ rows' \in [Rows -> Seq(Values)]
          /\ Len(rows'[r]) = l + 1
          /\ \A o \in Rows \ {r} : rows'[o] = rows[o]
          /\ ByIdxIsOriginal'
          /\ QuantileUnderLabel'
          /\ \A k \in 1 .. Len(rows'["byElapsed"]) :
               \E m \in DOMAIN messages : rows'["byElapsed"][k] = messages[m]
      <3>1. /\ i \in Int /\ i = head[Len(rows[r]) + 1]
            /\ UNCHANGED <<cnt, messages, head>>
        BY <1>1, <1>3
      <3> HIDE DEF l
      <3>2. /\ rows' \in [Rows -> Seq(Values)]
            /\ Len(rows'[r]) = Len(rows[r]) + 1
            /\ \A o \in Rows \ {r} : rows'[o] = rows[o]
            /\ ByIdxIsOriginal'
            /\ QuantileUnderLabel'
            /\ \A k \in 1 .. Len(rows'["byElapsed"]) :
                 \E m \in DOMAIN messages : rows'["byElapsed"][k] = messages[m]
        BY <1>1, <1>5, <1>8, <2>1, <3>1, NewCellKeeps
      <3> QED
        BY <3>2 DEF l
    <2>3. ReportType'
      BY ONLY <1>1, <1>4, <1>6, <2>1, <2>2 DEF ReportType
    <2>4. FailsOnlyWhenEmpty'
      BY <1>1, <1>4, <2>1 DEF FailsOnlyWhenEmpty
    <2>5. SourceInv'
      BY ONLY <1>1, <1>4, <2>1, <2>2 DEF SourceInv
    <2>6. LengthInv'
      <3>1. CASE r = "byIdx"
        <4>1. rows'["byElapsed"] = rows["byElapsed"]
          BY <2>2, <3>1 DEF Rows
        <4> QED
          BY ONLY <1>1, <1>3, <1>4, <2>1, <2>2, <3>1, <4>1 DEF LengthInv
      <3>2. CASE r = "byElapsed"
        <4>1. rows'["byIdx"] = rows["byIdx"]
          BY <2>2, <3>2 DEF Rows
        <4> QED
          BY ONLY <1>1, <1>3, <1>4, <2>1, <2>2, <3>2, <4>1 DEF LengthInv
      <3> QED
        BY <1>4, <3>1, <3>2
    <2> QED
      BY <1>6, <2>2, <2>3, <2>4, <2>5, <2>6 DEF ReportInd
  <1> QED
    BY <1>7, <1>8

\* The cell at the end of a row is the last entry of the array, under the label 100.
LEMMA RowEndKeeps ==
  ASSUME ReportInd, NEW r \in Rows, pc = r, i >= 100,
         rows' = [rows EXCEPT ![r] = Append(@, elapseds[cnt - 1])],
         UNCHANGED <<cnt, messages, head>>
  PROVE  /\ cnt > 0
         /\ rows' \in [Rows -> Seq(Values)]
         /\ Len(rows'[r]) = Len(head)
         /\ \A o \in Rows \ {r} : rows'[o] = rows[o]
         /\ ByIdxIsOriginal'
         /\ QuantileUnderLabel'
         /\ \A k \in 1 .. Len(rows'["byElapsed"]) :
              \E m \in DOMAIN messages : rows'["byElapsed"][k] = messages[m]
  <1> DEFINE last == cnt - 1
  <1>1. /\ Len(rows[r]) + 1 = Len(head) /\ cnt > 0
        /\ head[Len(rows[r]) + 1] = 100
    BY AtLabel
  <1>2. cnt \in Nat
    BY ReportTypes DEF ReportInd
  <1>3. /\ last \in 0 .. cnt - 1
        /\ last * 100 <= 100 * cnt /\ 100 * cnt <= (last + 1) * 100
        /\ 100 \in Int /\ 100 = head[Len(rows[r]) + 1]
    BY <1>1, <1>2
  <1>4. rows' = [rows EXCEPT ![r] = Append(@, elapseds[last])]
    OBVIOUS
  <1> HIDE DEF last
  <1>5. /\ rows' \in [Rows -> Seq(Values)]
        /\ Len(rows'[r]) = Len(rows[r]) + 1
        /\ \A o \in Rows \ {r} : rows'[o] = rows[o]
        /\ ByIdxIsOriginal'
        /\ QuantileUnderLabel'
        /\ \A k \in 1 .. Len(rows'["byElapsed"]) :
             \E m \in DOMAIN messages : rows'["byElapsed"][k] = messages[m]
    BY ZenonT(30), <1>3, <1>4, NewCellKeeps
  <1> QED
    BY <1>1, <1>5

LEMMA ByIdxEndKeeps == ReportInd /\ ByIdxEnd => ReportInd'
  <1> SUFFICES ASSUME ReportInd, ByIdxEnd
               PROVE  ReportInd'
    OBVIOUS
  <1>1. /\ pc = "byIdx" /\ pc' = "byElapsed" /\ i >= 100 /\ i' = 0
        /\ cnt' = cnt /\ step' = step /\ messages' = messages /\ head' = head
        /\ elapseds' = Sorted(elapseds)
        /\ rows' = [rows EXCEPT !["byIdx"] = Append(@, elapseds[cnt - 1])]
    BY DEF ByIdxEnd
  <1>2. /\ ReportType /\ LabelInv /\ LengthInv /\ SourceInv
        /\ cnt \in Nat /\ step \in Int /\ messages \in [0 .. cnt - 1 -> Int]
        /\ messages \in [0 .. cnt - 1 -> Values]
        /\ elapseds = messages /\ Len(rows["byElapsed"]) = 0
    BY <1>1, ReportTypes DEF ReportInd, SourceInv, LengthInv
  <1>3. "byIdx" \in Rows /\ "byElapsed" \in Rows \ {"byIdx"}
    BY DEF Rows
  <1>4. /\ cnt > 0
        /\ rows' \in [Rows -> Seq(Values)]
        /\ Len(rows'["byIdx"]) = Len(head)
        /\ rows'["byElapsed"] = rows["byElapsed"]
        /\ ByIdxIsOriginal'
        /\ QuantileUnderLabel'
        /\ \A k \in 1 .. Len(rows'["byElapsed"]) :
             \E m \in DOMAIN messages : rows'["byElapsed"][k] = messages[m]
    BY <1>1, <1>3, RowEndKeeps
  <1>5. elapseds' \in [0 .. cnt - 1 -> Values]
    <2>1. Sorted(messages) \in [0 .. cnt - 1 -> Range(messages)]
      BY <1>2, SortedIs
    <2>2. Range(messages) \subseteq Values
      BY <1>2 DEF Range
    <2> QED
      BY <1>1, <1>2, <2>1, <2>2
  <1>6. ReportType'
    <2>1. pc' \in Rows \cup {"head", "done", "failed"} /\ i' \in Int
      BY ONLY <1>1 DEF Rows
    <2> QED
      BY ONLY <1>1, <1>2, <1>4, <1>5, <2>1 DEF ReportType
  <1>7. LabelInv'
    BY ONLY <1>1, <1>2 DEF LabelInv
  <1>8. LengthInv'
    <2>1. 0 * step = 0
      BY <1>2
    <2>2. Len(head) > 0
      BY <1>1, <1>2 DEF LabelInv
    <2> QED
      BY ONLY <1>1, <1>2, <1>4, <2>1, <2>2 DEF LengthInv, Rows
  <1>9. SourceInv' /\ FailsOnlyWhenEmpty'
    BY ONLY <1>1, <1>2, <1>4 DEF SourceInv, FailsOnlyWhenEmpty
  <1> QED
    BY <1>4, <1>6, <1>7, <1>8, <1>9 DEF ReportInd

LEMMA ByElapsedEndKeeps == ReportInd /\ ByElapsedEnd => ReportInd'
  <1> SUFFICES ASSUME ReportInd, ByElapsedEnd
               PROVE  ReportInd'
    OBVIOUS
  <1>1. /\ pc = "byElapsed" /\ pc' = "done" /\ i >= 100 /\ i' = i
        /\ cnt' = cnt /\ step' = step /\ messages' = messages /\ head' = head
        /\ elapseds' = elapseds
        /\ rows' = [rows EXCEPT !["byElapsed"] = Append(@, elapseds[cnt - 1])]
    BY DEF ByElapsedEnd
  <1>2. ReportType /\ LabelInv /\ LengthInv /\ SourceInv
    BY DEF ReportInd
  <1>3. "byElapsed" \in Rows /\ "byIdx" \in Rows \ {"byElapsed"}
    BY DEF Rows
  <1>4. /\ cnt > 0
        /\ rows' \in [Rows -> Seq(Values)]
        /\ Len(rows'["byElapsed"]) = Len(head)
        /\ rows'["byIdx"] = rows["byIdx"]
        /\ ByIdxIsOriginal'
        /\ QuantileUnderLabel'
        /\ \A k \in 1 .. Len(rows'["byElapsed"]) :
             \E m \in DOMAIN messages : rows'["byElapsed"][k] = messages[m]
    BY <1>1, <1>3, RowEndKeeps
  <1>5. ReportType'
    BY ONLY <1>1, <1>2, <1>4 DEF ReportType
  <1>6. LabelInv'
    BY ONLY <1>1, <1>2 DEF LabelInv
  <1>7. LengthInv'
    BY ONLY <1>1, <1>2, <1>4 DEF LengthInv, Rows
  <1>8. SourceInv' /\ FailsOnlyWhenEmpty'
    BY ONLY <1>1, <1>2, <1>4 DEF SourceInv, FailsOnlyWhenEmpty
  <1> QED
    BY <1>4, <1>5, <1>6, <1>7, <1>8 DEF ReportInd

\* The rows are empty when the program starts.
LEMMA ReportInitInd == ReportInit => ReportInd
  <1> SUFFICES ASSUME ReportInit
               PROVE  ReportInd
    OBVIOUS
  <1>1. /\ cnt \in 0 .. MaxCnt /\ step \in Steps /\ messages \in [0 .. cnt - 1 -> Values]
        /\ elapseds = messages /\ pc = "head" /\ i = 0 /\ head = <<>>
        /\ rows = [r \in Rows |-> <<>>]
    BY DEF ReportInit
  <1>2. /\ rows \in [Rows -> Seq(Values)] /\ head \in Seq(Int)
        /\ rows["byIdx"] = <<>> /\ rows["byElapsed"] = <<>> /\ Len(head) = 0
        /\ 1 .. 0 = {}
    BY <1>1 DEF Rows
  <1>3. Len(rows["byIdx"]) = 0 /\ Len(rows["byElapsed"]) = 0
    BY <1>2
  <1>4. ReportType
    BY <1>1, <1>2 DEF ReportType
  <1>5. step \in Int /\ 0 * step = 0
    BY <1>4, ReportTypes
  <1>6. LabelInv
    BY ONLY <1>1, <1>2, <1>5 DEF LabelInv
  <1>7. ByIdxIsOriginal /\ QuantileUnderLabel /\ LengthInv /\ SourceInv /\ FailsOnlyWhenEmpty
    BY ONLY <1>1, <1>2, <1>3 DEF ByIdxIsOriginal, QuantileUnderLabel, LengthInv, SourceInv,
                                 FailsOnlyWhenEmpty, Rows
  <1> QED
    BY <1>4, <1>6, <1>7 DEF ReportInd

\* What the rows hold are latencies of messages, so without one that was unread every
\* cell has its comma.
LEMMA ReportIndIndex == ReportInd => IndexInv
  <1> SUFFICES ASSUME ReportInd
               PROVE  IndexInv
    OBVIOUS
  <1>1. ASSUME pc = "done", \A m \in DOMAIN messages : messages[m] # Unread, NEW r \in Rows
        PROVE  Cells(rows[r]) = Len(head)
    <2>1. r = "byIdx" \/ r = "byElapsed"
      BY DEF Rows
    <2>2. Len(rows[r]) = Len(head) /\ Len(rows[r]) \in Nat
      BY <1>1, <2>1, ReportTypes DEF ReportInd, LengthInv
    <2>3. \A k \in 1 .. Len(rows[r]) : \E m \in DOMAIN messages : rows[r][k] = messages[m]
      BY <2>1 DEF ReportInd, SourceInv, ByIdxIsOriginal
    <2>4. {k \in 1 .. Len(rows[r]) - 1 : rows[r][k] = Unread} = {}
      BY ONLY <1>1, <2>2, <2>3
    <2>5. Cells(rows[r]) = Len(rows[r]) - 0
      BY <2>4, FS_EmptySet DEF Cells
    <2> QED
      BY <2>2, <2>5
  <1> QED
    BY <1>1 DEF ReportInd, IndexInv, RowsAlignUnlessUnread

\* The invariant of the report is inductive: each loop is where the number of its
\* cells says, and each array that it reads holds what was measured.
THEOREM ReportInductive == ReportSpec => []ReportInd
  <1>1. ReportInit => ReportInd
    BY ReportInitInd
  <1>2. ReportInd /\ [ReportNext]_reportVars => ReportInd'
    <2> SUFFICES ASSUME ReportInd, [ReportNext]_reportVars
                 PROVE  ReportInd'
      OBVIOUS
    <2>1. CASE HeadLabel
      BY <2>1, HeadLabelKeeps
    <2>2. CASE HeadEnd
      BY <2>2, HeadEndKeeps
    <2>3. CASE \E r \in Rows : RowCell(r)
      BY <2>3, RowCellKeeps
    <2>4. CASE ByIdxEnd
      BY <2>4, ByIdxEndKeeps
    <2>5. CASE ByElapsedEnd
      BY <2>5, ByElapsedEndKeeps
    <2>6. CASE UNCHANGED reportVars
      <3>1. /\ cnt' = cnt /\ step' = step /\ messages' = messages /\ elapseds' = elapseds
            /\ pc' = pc /\ i' = i /\ head' = head /\ rows' = rows
        BY <2>6 DEF reportVars
      <3>2. ReportType' /\ FailsOnlyWhenEmpty' /\ ByIdxIsOriginal'
        BY <3>1 DEF ReportInd, ReportType, FailsOnlyWhenEmpty, ByIdxIsOriginal
      <3>3. QuantileUnderLabel'
        BY <3>1 DEF ReportInd, QuantileUnderLabel, Below, UpTo
      <3>4. LabelInv' /\ LengthInv' /\ SourceInv'
        BY <3>1 DEF ReportInd, LabelInv, LengthInv, SourceInv
      <3> QED
        BY <3>2, <3>3, <3>4 DEF ReportInd
    <2> QED
      BY <2>1, <2>2, <2>3, <2>4, <2>5, <2>6 DEF ReportNext, Write, Stopped
  <1> QED
    BY <1>1, <1>2, PTL DEF ReportSpec

\* No loop of a report reads outside its array when there is something to report, the
\* first row holds the latencies in the order of the messages, and the rows have a
\* cell for each label when nothing was unread.
THEOREM ReportIndexed == ReportSpec => []IndexInv
  <1>1. ReportInd => IndexInv
    BY ReportIndIndex
  <1> QED
    BY <1>1, ReportInductive, PTL

\* Each cell of the sorted row is the quantile of its label, over the latencies of all
\* messages, however many there are and whatever the step.
THEOREM QuantilesExact == ReportSpec => []QuantileUnderLabel
  <1>1. ReportInd => QuantileUnderLabel
    BY DEF ReportInd
  <1> QED
    BY <1>1, ReportInductive, PTL

--------------------------------------------------------------------------------
(* The programs.                                                               *)

USE WsAssumption, NoMsgAssumption

\* One element goes from one sequence to another, or comes to the second.
LEMMA SumMoves ==
  \A a, b \in Nat : (a + 1) + (b - 1) = a + b /\ (a + b) + 1 = a + (b + 1)
  OBVIOUS

\* What the configurations say.
LEMMA ConfType ==
  ASSUME conf \in Confs
  PROVE  /\ ServerCount \in Nat /\ ClientCount \in Nat
         /\ ServerDir \in {"cts", "stc"} /\ ClientDir \in {"cts", "stc"}
         /\ WrongUrl \subseteq Clients
  BY DEF Conf, ServerCount, ClientCount, ServerDir, ClientDir, WrongUrl

\* A message of a client is not an empty entry.
LEMMA MessageParts ==
  ASSUME conf \in Confs, NEW m \in ServerMsgs
  PROVE  /\ m[1] \in Clients /\ m[2] \in 0 .. ClientCount - 1
         /\ m = <<m[1], m[2]>> /\ m # NoMsg
  BY ConfType DEF ServerMsgs

--------------------------------------------------------------------------------
(* WsTrans: types.                                                             *)

\* No step changes a configuration.
LEMMA ConfStays ==
  ASSUME [Next]_vars
  PROVE  /\ conf' = conf
         /\ ServerCount' = ServerCount /\ ClientCount' = ClientCount
         /\ ServerDir' = ServerDir /\ ClientDir' = ClientDir /\ WrongUrl' = WrongUrl
         /\ ServerMsgs' = ServerMsgs /\ ClientMsgs' = ClientMsgs
  <1>1. conf' = conf
    BY DEF Next, vars, Reader, Sender, Client, Ended, Hangs
  <1> QED
    BY <1>1 DEF ServerCount, ClientCount, ServerDir, ClientDir, WrongUrl, ServerMsgs, ClientMsgs

\* The actions are those of a client, of its peer, and of their connection.
Step(c) ==
  \/ Receive(c) \/ Check(c) \/ Store(c) \/ LoadIdx(c) \/ IncIdx(c)
  \/ ReadEnds(c) \/ OnInactive(c)
  \/ ServerSend(c) \/ ServerSendFails(c) \/ SentAll(c)
  \/ Connect(c) \/ DialFails(c) \/ ClientSend(c) \/ ClientSendFails(c)
  \/ ClientClose(c) \/ ClientReceive(c) \/ ClientReadFails(c) \/ ClientReport(c)
  \/ Break(c)

LEMMA NextCases ==
  ASSUME [Next]_vars
  PROVE  (\E c \in Clients : Step(c)) \/ UNCHANGED vars
  BY DEF Next, Reader, Sender, Client, Ended, Hangs, Step

\* Every variable keeps its type, as nothing is sent beyond the last message.
LEMMA TypeStep ==
  ASSUME TypeOK, SendInv, [Next]_vars
  PROVE  TypeOK'
  <1> USE DEF TypeOK
  <1>0. ServerCount \in Nat /\ ClientCount \in Nat
    BY ConfType
  <1>1. /\ conf' = conf /\ ServerCount' = ServerCount /\ ClientCount' = ClientCount
        /\ ServerMsgs' = ServerMsgs /\ ClientMsgs' = ClientMsgs
    BY ConfStays
  <1> SUFFICES ASSUME NEW c \in Clients, Step(c)
               PROVE  TypeOK'
    BY ZenonT(30), NextCases, <1>1 DEF vars
  <1>2. CASE Receive(c)
    <2>1. Head(up[c]) \in ServerMsgs /\ Tail(up[c]) \in Seq(ServerMsgs)
      BY <1>2 DEF Receive
    <2> QED
      BY <1>1, <1>2, <2>1 DEF Receive, clientVars
  <1>3. CASE Check(c)
    <2>1. CASE Full
      <3>1. /\ rpc' = [rpc EXCEPT ![c] = "read"]
            /\ msg' = [msg EXCEPT ![c] = NoMsg]
            /\ reg' = [reg EXCEPT ![c] = 0]
        BY <1>3, <2>1 DEF Check, EndRead
      <3> QED
        BY <1>1, <1>3, <3>1 DEF Check, clientVars
    <2>2. CASE ~Full
      BY <1>1, <1>3, <2>2 DEF Check, clientVars
    <2> QED
      BY <2>1, <2>2
  <1>4. CASE Store(c)
    <2>1. CASE idx < ServerCount
      <3>1. elapsed' \in [0 .. ServerCount - 1 -> ServerMsgs \cup {NoMsg}]
        BY <1>4, <2>1 DEF Store
      <3> QED
        BY <1>1, <1>4, <2>1, <3>1 DEF Store, clientVars
    <2>2. CASE ~(idx < ServerCount)
      BY <1>1, <1>4, <2>2 DEF Store, ServerEnds, clientVars
    <2> QED
      BY <2>1, <2>2
  <1>5. CASE LoadIdx(c)
    BY <1>1, <1>5 DEF LoadIdx, clientVars
  <1>6. CASE IncIdx(c)
    BY <1>1, <1>6 DEF IncIdx, EndRead, clientVars
  <1>7. CASE ReadEnds(c)
    BY <1>1, <1>7 DEF ReadEnds, readVars, clientVars
  <1>8. CASE OnInactive(c)
    BY <1>1, <1>8 DEF OnInactive, ServerEnds, readVars, clientVars
  <1>9. CASE ServerSend(c)
    <2>1. ssent[c] < ServerCount
      BY <1>9 DEF ServerSend, SendInv
    <2>2. ssent[c] \in ClientMsgs /\ ssent[c] + 1 \in 0 .. ServerCount
      BY <1>0, <2>1 DEF ClientMsgs
    <2>3. Append(down[c], ssent[c]) \in Seq(ClientMsgs)
      BY <2>2
    <2> QED
      BY <1>1, <1>9, <2>2, <2>3 DEF ServerSend, readVars, clientVars
  <1>10. CASE ServerSendFails(c)
    BY <1>1, <1>10 DEF ServerSendFails, readVars, clientVars
  <1>11. CASE SentAll(c)
    BY <1>1, <1>11 DEF SentAll, ServerEnds, readVars, clientVars
  <1>12. CASE Connect(c)
    BY <1>1, <1>12 DEF Connect, readVars
  <1>13. CASE DialFails(c)
    BY <1>1, <1>13 DEF DialFails, serverVars
  <1>14. CASE ClientSend(c)
    <2>1. csent[c] \in Nat /\ csent[c] < ClientCount
      BY <1>14, <1>0 DEF ClientSend, SendInv
    <2>2. <<c, csent[c]>> \in ServerMsgs /\ csent[c] + 1 \in 0 .. ClientCount
      BY <1>0, <2>1 DEF ServerMsgs
    <2>3. Append(up[c], <<c, csent[c]>>) \in Seq(ServerMsgs)
      BY <2>2
    <2> QED
      BY <1>1, <1>14, <2>2, <2>3 DEF ClientSend, serverVars
  <1>15. CASE ClientSendFails(c)
    BY <1>1, <1>15 DEF ClientSendFails, serverVars
  <1>16. CASE ClientClose(c)
    BY <1>1, <1>16 DEF ClientClose, ClientCloses, serverVars
  <1>17. CASE ClientReceive(c)
    <2>1. Head(down[c]) \in ClientMsgs /\ Tail(down[c]) \in Seq(ClientMsgs)
      BY <1>17 DEF ClientReceive
    <2>2. CASE Len(creport[c]) > ClientCount - 1
      BY <1>1, <1>17, <2>1, <2>2 DEF ClientReceive, serverVars
    <2>3. CASE ~(Len(creport[c]) > ClientCount - 1)
      <3>1. /\ Append(creport[c], Head(down[c])) \in Seq(ClientMsgs)
            /\ Len(Append(creport[c], Head(down[c]))) <= ClientCount
        BY <1>0, <2>1, <2>3
      <3> QED
        BY ZenonT(30), <1>1, <1>17, <2>1, <2>3, <3>1 DEF ClientReceive, serverVars
    <2> QED
      BY <2>2, <2>3
  <1>18. CASE ClientReadFails(c)
    BY <1>1, <1>18 DEF ClientReadFails, serverVars
  <1>19. CASE ClientReport(c)
    BY <1>1, <1>19 DEF ClientReport, ClientCloses, serverVars
  <1>20. CASE Break(c)
    BY <1>1, <1>20 DEF Break, serverVars, clientVars
  <1> QED
    BY <1>2, <1>3, <1>4, <1>5, <1>6, <1>7, <1>8, <1>9, <1>10, <1>11, <1>12, <1>13, <1>14,
       <1>15, <1>16, <1>17, <1>18, <1>19, <1>20 DEF Step

--------------------------------------------------------------------------------
(* WsTrans: the connections.                                                   *)

\* A step keeps what the ends of a connection know of each other.
LEMMA LinkStep ==
  ASSUME TypeOK, TypeOK', LinkInv, [Next]_vars
  PROVE  LinkInv'
  <1> USE DEF TypeOK, LinkInv, ClientEnded
  <1>1. conf' = conf
    BY ConfStays
  <1> SUFFICES ASSUME NEW c \in Clients, Step(c)
               PROVE  LinkInv'
    BY ZenonT(30), NextCases, <1>1 DEF vars
  <1>2. CASE Receive(c)
    BY <1>1, <1>2 DEF Receive, clientVars
  <1>3. CASE Check(c)
    BY SMTT(30), <1>1, <1>3 DEF Check, EndRead, clientVars
  <1>4. CASE Store(c)
    <2>1. CASE idx < ServerCount
      BY SMTT(30), <1>1, <1>4, <2>1 DEF Store, clientVars
    <2>2. CASE ~(idx < ServerCount)
      BY SMTT(30), <1>1, <1>4, <2>2 DEF Store, ServerEnds, clientVars
    <2> QED
      BY <2>1, <2>2
  <1>5. CASE LoadIdx(c)
    BY <1>1, <1>5 DEF LoadIdx, clientVars
  <1>6. CASE IncIdx(c)
    BY SMTT(30), <1>1, <1>6 DEF IncIdx, EndRead, clientVars
  <1>7. CASE ReadEnds(c)
    BY <1>1, <1>7 DEF ReadEnds, readVars, clientVars
  <1>8. CASE OnInactive(c)
    BY <1>1, <1>8 DEF OnInactive, ServerEnds, readVars, clientVars
  <1>9. CASE ServerSend(c)
    BY SMTT(30), <1>1, <1>9 DEF ServerSend, readVars, clientVars
  <1>10. CASE ServerSendFails(c)
    BY <1>1, <1>10 DEF ServerSendFails, readVars, clientVars
  <1>11. CASE SentAll(c)
    BY <1>1, <1>11 DEF SentAll, ServerEnds, readVars, clientVars
  <1>12. CASE Connect(c)
    BY <1>1, <1>12 DEF Connect, readVars
  <1>13. CASE DialFails(c)
    BY <1>1, <1>13 DEF DialFails, serverVars
  <1>14. CASE ClientSend(c)
    BY SMTT(30), <1>1, <1>14 DEF ClientSend, serverVars
  <1>15. CASE ClientSendFails(c)
    BY <1>1, <1>15 DEF ClientSendFails, serverVars
  <1>16. CASE ClientClose(c)
    BY <1>1, <1>16 DEF ClientClose, ClientCloses, serverVars
  <1>17. CASE ClientReceive(c)
    <2>1. /\ UNCHANGED <<server, link, up, rpc, wpc, ssent, csent>>
          /\ cpc[c] = "stc" /\ down[c] # <<>> /\ cpc' \in {cpc, [cpc EXCEPT ![c] = "report"]}
          /\ \A d \in Clients \ {c} : down'[d] = down[d] /\ creport'[d] = creport[d]
      BY <1>17 DEF ClientReceive, serverVars
    <2>2. link[c] \in {"open", "serverClosed"} /\ rpc[c] # "none"
      BY <2>1
    <2>3. \A d \in Clients : d # c => cpc'[d] = cpc[d]
      BY SMTT(30), <2>1
    <2>4. cpc'[c] \in {"stc", "report"}
      BY <2>1
    <2>5. ASSUME NEW d \in Clients, d # c
          PROVE  /\ cpc'[d] = cpc[d] /\ down'[d] = down[d] /\ creport'[d] = creport[d]
                 /\ link'[d] = link[d] /\ rpc'[d] = rpc[d] /\ wpc'[d] = wpc[d] /\ up'[d] = up[d]
                 /\ ssent'[d] = ssent[d] /\ csent'[d] = csent[d]
      BY <2>1, <2>3, <2>5
    <2>6. link'[c] = link[c] /\ rpc'[c] = rpc[c] /\ up'[c] = up[c]
      BY <2>1
    <2>7. server' = server
      BY <2>1
    <2> QED
      BY ONLY LinkInv, <2>2, <2>4, <2>5, <2>6, <2>7 DEF LinkInv, ClientEnded
  <1>18. CASE ClientReadFails(c)
    BY <1>1, <1>18 DEF ClientReadFails, serverVars
  <1>19. CASE ClientReport(c)
    BY <1>1, <1>19 DEF ClientReport, ClientCloses, serverVars
  <1>20. CASE Break(c)
    BY <1>1, <1>20 DEF Break, serverVars, clientVars
  <1> QED
    BY <1>2, <1>3, <1>4, <1>5, <1>6, <1>7, <1>8, <1>9, <1>10, <1>11, <1>12,
       <1>13, <1>14, <1>15, <1>16, <1>17, <1>18, <1>19, <1>20 DEF Step

\* A step keeps what was sent in agreement with what is done next.
LEMMA SendStep ==
  ASSUME TypeOK, SendInv, LinkInv, [Next]_vars
  PROVE  SendInv'
  <1> USE DEF TypeOK, SendInv
  <1>0. ServerCount \in Nat /\ ClientCount \in Nat /\ ClientDir \in {"cts", "stc"}
    BY ConfType
  <1>1. ServerCount' = ServerCount /\ ClientCount' = ClientCount /\ ClientDir' = ClientDir
    BY ConfStays
  <1> SUFFICES ASSUME NEW c \in Clients, Step(c)
               PROVE  SendInv'
    BY NextCases, <1>1 DEF vars
  <1>2. CASE Receive(c)
    BY <1>0, <1>1, <1>2 DEF Receive, clientVars
  <1>3. CASE Check(c)
    BY <1>0, <1>1, <1>3 DEF Check, EndRead, clientVars
  <1>4. CASE Store(c)
    BY <1>0, <1>1, <1>4 DEF Store, ServerEnds, clientVars
  <1>5. CASE LoadIdx(c)
    BY <1>0, <1>1, <1>5 DEF LoadIdx, clientVars
  <1>6. CASE IncIdx(c)
    BY <1>0, <1>1, <1>6 DEF IncIdx, EndRead, clientVars
  <1>7. CASE ReadEnds(c)
    BY <1>0, <1>1, <1>7 DEF ReadEnds, readVars, clientVars
  <1>8. CASE OnInactive(c)
    BY <1>0, <1>1, <1>8 DEF OnInactive, ServerEnds, readVars, clientVars
  <1>9. CASE ServerSend(c)
    BY <1>0, <1>1, <1>9 DEF ServerSend, readVars, clientVars
  <1>10. CASE ServerSendFails(c)
    BY <1>0, <1>1, <1>10 DEF ServerSendFails, readVars, clientVars
  <1>11. CASE SentAll(c)
    BY <1>0, <1>1, <1>11 DEF SentAll, ServerEnds, readVars, clientVars
  <1>12. CASE Connect(c)
    <2>1. ssent[c] = 0 /\ csent[c] = 0
      BY <1>12 DEF Connect, LinkInv
    <2> QED
      BY SMTT(30), <1>0, <1>1, <1>12, <2>1 DEF Connect, readVars
  <1>13. CASE DialFails(c)
    BY <1>0, <1>1, <1>13 DEF DialFails, serverVars
  <1>14. CASE ClientSend(c)
    BY <1>0, <1>1, <1>14 DEF ClientSend, serverVars
  <1>15. CASE ClientSendFails(c)
    BY <1>0, <1>1, <1>15 DEF ClientSendFails, serverVars
  <1>16. CASE ClientClose(c)
    BY <1>0, <1>1, <1>16 DEF ClientClose, ClientCloses, serverVars
  <1>17. CASE ClientReceive(c)
    BY ZenonT(30), <1>0, <1>1, <1>17 DEF ClientReceive, serverVars
  <1>18. CASE ClientReadFails(c)
    BY <1>0, <1>1, <1>18 DEF ClientReadFails, serverVars
  <1>19. CASE ClientReport(c)
    BY <1>0, <1>1, <1>19 DEF ClientReport, ClientCloses, serverVars
  <1>20. CASE Break(c)
    BY <1>0, <1>1, <1>20 DEF Break, serverVars, clientVars
  <1> QED
    BY <1>2, <1>3, <1>4, <1>5, <1>6, <1>7, <1>8, <1>9, <1>10, <1>11, <1>12,
       <1>13, <1>14, <1>15, <1>16, <1>17, <1>18, <1>19, <1>20 DEF Step

--------------------------------------------------------------------------------
(* WsTrans: the messages of the clients.                                       *)

\* What was received is a number.
LEMMA ReceivedNat ==
  ASSUME TypeOK, UpInv, NEW c \in Clients
  PROVE  Received(c) \in Nat /\ Len(up[c]) \in Nat /\ csent[c] \in Nat
  <1>1. csent[c] \in Nat /\ Len(up[c]) \in Nat /\ Len(up[c]) <= csent[c]
    BY ConfType DEF TypeOK, UpInv
  <1> QED
    BY <1>1 DEF Received

\* A step that takes no message and sends none keeps them in order.
LEMMA UpFrame ==
  ASSUME UpInv, StoredInv, EntryOnce, conf' = conf, UNCHANGED <<up, csent, elapsed>>,
         \A d \in Clients : Live(d)' => Live(d),
         \A d \in Clients : InHand(d)' =>
           /\ InHand(d) /\ msg'[d] = msg[d]
           /\ rpc'[d] \in {"check", "store"} => rpc[d] \in {"check", "store"},
         TypeOK
  PROVE  UpInv' /\ StoredInv' /\ EntryOnce'
  <1>1. ServerCount' = ServerCount /\ ServerMsgs' = ServerMsgs
    BY DEF ServerCount, ServerMsgs, ClientCount
  <1>2. \A d \in Clients : Received(d)' = Received(d)
    BY DEF Received
  <1>3. UpInv'
    BY ONLY UpInv, UNCHANGED <<up, csent, elapsed>>, <1>1, <1>2,
         \A d \in Clients : Live(d)' => Live(d),
         \A d \in Clients : InHand(d)' =>
           /\ InHand(d) /\ msg'[d] = msg[d]
           /\ rpc'[d] \in {"check", "store"} => rpc[d] \in {"check", "store"}
       DEF UpInv, InHand
  <1>4. StoredInv'
    <2>1. ASSUME NEW e \in 0 .. ServerCount - 1, elapsed[e] # NoMsg
          PROVE  elapsed[e][1] \in Clients
      BY <2>1, MessageParts DEF TypeOK
    <2> QED
      BY <1>1, <1>2, <2>1 DEF StoredInv
  <1>5. EntryOnce'
    BY <1>1 DEF EntryOnce
  <1> QED
    BY <1>3, <1>4, <1>5

\* A peer that gets a message gets the next of its client, which is in no entry.
LEMMA ReceiveKeepsOrder ==
  ASSUME TypeOK, LinkInv, UpInv, StoredInv, EntryOnce, conf' = conf,
         NEW c \in Clients, Receive(c)
  PROVE  /\ Live(c) /\ msg'[c] = <<c, Received(c)>> /\ Received(c)' = Received(c) + 1
         /\ UpInv' /\ StoredInv' /\ EntryOnce'
  <1>1. /\ rpc[c] = "read" /\ up[c] # <<>> /\ server = "up" /\ up[c] \in Seq(ServerMsgs)
        /\ rpc' = [rpc EXCEPT ![c] = "check"] /\ up' = [up EXCEPT ![c] = Tail(@)]
        /\ msg' = [msg EXCEPT ![c] = Head(up[c])]
        /\ UNCHANGED <<link, elapsed, csent>>
    BY DEF Receive, clientVars, TypeOK
  <1>2. ServerCount' = ServerCount /\ ServerMsgs' = ServerMsgs
    BY DEF ServerCount, ServerMsgs, ClientCount
  <1>3. Live(c)
    BY <1>1 DEF LinkInv, Live, TypeOK
  <1>4. Received(c) \in Nat /\ csent[c] \in Nat /\ Len(up[c]) \in Nat /\ Len(up[c]) <= csent[c]
    BY ReceivedNat DEF UpInv
  <1>5. /\ Len(up'[c]) = Len(up[c]) - 1
        /\ \A j \in 1 .. Len(up'[c]) : up'[c][j] = up[c][j + 1]
        /\ msg'[c] = up[c][1] /\ 1 \in 1 .. Len(up[c])
    BY <1>1 DEF TypeOK
  <1>6. Received(c)' = Received(c) + 1
    BY <1>1, <1>4, <1>5 DEF Received
  <1>7. msg'[c] = <<c, Received(c)>> /\ msg'[c] \in ServerMsgs
    <2>1. up[c][1] = <<c, Received(c) + 1 - 1>> /\ up[c][1] \in ServerMsgs
      BY <1>1, <1>3, <1>5 DEF UpInv
    <2> QED
      BY <1>4, <1>5, <2>1
  <1>8. \A d \in Clients \ {c} : /\ Received(d)' = Received(d) /\ up'[d] = up[d]
                                 /\ msg'[d] = msg[d] /\ rpc'[d] = rpc[d]
    BY <1>1 DEF Received, TypeOK
  <1>9. \A e \in 0 .. ServerCount - 1 : elapsed[e] # msg'[c]
    <2>1. SUFFICES ASSUME NEW e \in 0 .. ServerCount - 1, elapsed[e] = <<c, Received(c)>>
                   PROVE  FALSE
      BY <1>7
    <2>2. elapsed[e] # NoMsg /\ elapsed[e][1] = c /\ elapsed[e][2] = Received(c)
      BY <1>7, <2>1, MessageParts DEF TypeOK
    <2>3. elapsed[e][2] < Received(c)
      BY <1>3, <2>2 DEF StoredInv
    <2> QED
      BY <1>4, <2>2, <2>3
  <1>10. UpInv'
    <2>1. ASSUME NEW j \in 1 .. Len(up'[c])
          PROVE  up'[c][j] = <<c, Received(c)' + j - 1>>
      <3>1. j + 1 \in 1 .. Len(up[c])
        BY <1>4, <1>5
      <3>2. up[c][j + 1] = <<c, Received(c) + (j + 1) - 1>>
        BY <1>3, <3>1 DEF UpInv
      <3>3. Received(c) + (j + 1) - 1 = Received(c)' + j - 1
        <4>1. j \in Nat
          BY <1>4, <1>5
        <4>2. \A n, o \in Nat : n + (o + 1) - 1 = (n + 1) + o - 1
          OBVIOUS
        <4> QED
          BY ONLY <1>4, <1>6, <4>1, <4>2
      <3>4. up'[c][j] = up[c][j + 1]
        BY <1>5
      <3> QED
        BY ONLY <3>2, <3>3, <3>4
    <2>2. Len(up'[c]) <= csent'[c]
      BY <1>1, <1>4, <1>5
    <2>3. msg'[c][1] = c /\ msg'[c][2] < Received(c)'
      BY <1>4, <1>6, <1>7
    <2>4. \A d \in Clients : Live(d)' = Live(d)
      BY <1>1 DEF Live
    <2>5. rpc'[c] = "check"
      BY <1>1 DEF TypeOK
    <2>6. ASSUME NEW d \in Clients \ {c}
          PROVE  /\ Len(up'[d]) <= csent'[d]
                 /\ Live(d)' => \A j \in 1 .. Len(up'[d]) : up'[d][j] = <<d, Received(d)' + j - 1>>
                 /\ InHand(d)' => /\ msg'[d] \in ServerMsgs' /\ msg'[d][1] = d
                                  /\ Live(d)' => msg'[d][2] < Received(d)'
                 /\ rpc'[d] \in {"check", "store"} =>
                      \A e \in 0 .. ServerCount' - 1 : elapsed'[e] # msg'[d]
      <3>1. /\ Received(d)' = Received(d) /\ up'[d] = up[d] /\ msg'[d] = msg[d]
            /\ rpc'[d] = rpc[d] /\ Live(d)' = Live(d) /\ csent' = csent /\ elapsed' = elapsed
        BY ONLY <1>1, <1>8, <2>4, <2>6
      <3>2. InHand(d)' = InHand(d)
        BY ONLY <3>1 DEF InHand
      <3> QED
        BY ONLY UpInv, <2>6, <1>2, <3>1, <3>2 DEF UpInv
    <2>7. /\ Len(up'[c]) <= csent'[c]
          /\ Live(c)' => \A j \in 1 .. Len(up'[c]) : up'[c][j] = <<c, Received(c)' + j - 1>>
          /\ InHand(c)' => /\ msg'[c] \in ServerMsgs' /\ msg'[c][1] = c
                           /\ Live(c)' => msg'[c][2] < Received(c)'
          /\ rpc'[c] \in {"check", "store"} =>
               \A e \in 0 .. ServerCount' - 1 : elapsed'[e] # msg'[c]
      <3>1. elapsed' = elapsed
        BY <1>1
      <3> QED
        BY ONLY <1>2, <1>7, <1>9, <2>1, <2>2, <2>3, <3>1
    <2> QED
      BY ONLY <2>6, <2>7 DEF UpInv
  <1>11. StoredInv'
    <2>1. \A d \in Clients : Received(d) \in Nat /\ Received(d) <= Received(d)'
      BY <1>6, <1>8, ReceivedNat
    <2>2. ASSUME NEW e \in 0 .. ServerCount - 1, elapsed[e] # NoMsg
          PROVE  elapsed[e][1] \in Clients /\ elapsed[e][2] \in Nat
      BY <2>2, MessageParts, ConfType DEF TypeOK
    <2>3. \A d \in Clients, n \in Nat : n < Received(d) => n < Received(d)'
      BY <2>1, <1>4, <1>6, <1>8
    <2>4. \A d \in Clients : Live(d)' => Live(d)
      BY <1>1 DEF Live
    <2>5. elapsed' = elapsed
      BY <1>1
    <2> QED
      BY ONLY StoredInv, <1>2, <2>2, <2>3, <2>4, <2>5 DEF StoredInv
  <1>12. EntryOnce'
    BY <1>1, <1>2 DEF EntryOnce
  <1> QED
    BY <1>3, <1>6, <1>7, <1>10, <1>11, <1>12

\* A message that is stored leaves the hand of its peer.
LEMMA StoreKeepsOrder ==
  ASSUME TypeOK, UpInv, StoredInv, EntryOnce, conf' = conf,
         NEW c \in Clients, Store(c), idx < ServerCount
  PROVE  UpInv' /\ StoredInv' /\ EntryOnce'
  <1>1. /\ rpc[c] = "store" /\ rpc' = [rpc EXCEPT ![c] = "load"]
        /\ elapsed' = [elapsed EXCEPT ![idx] = msg[c]] /\ idx \in 0 .. ServerCount - 1
        /\ UNCHANGED <<link, up, csent, msg>>
    BY ConfType DEF Store, clientVars, TypeOK
  <1>2. ServerCount' = ServerCount /\ ServerMsgs' = ServerMsgs
    BY DEF ServerCount, ServerMsgs, ClientCount
  <1>3. /\ \A d \in Clients : Received(d)' = Received(d)
        /\ \A d \in Clients : Live(d)' => Live(d)
    BY <1>1 DEF Received, Live
  <1>4. /\ elapsed'[idx] = msg[c]
        /\ \A e \in 0 .. ServerCount - 1 : e # idx => elapsed'[e] = elapsed[e]
    BY <1>1 DEF TypeOK
  <1>5. /\ msg[c] \in ServerMsgs /\ msg[c][1] = c
        /\ Live(c) => msg[c][2] < Received(c)
        /\ \A e \in 0 .. ServerCount - 1 : elapsed[e] # msg[c]
    BY <1>1 DEF UpInv, InHand
  <1>6. \A d \in Clients \ {c} : rpc'[d] = rpc[d]
    BY <1>1 DEF TypeOK
  <1>7. rpc'[c] = "load"
    BY <1>1 DEF TypeOK
  <1>8. UpInv'
    <2>1. ASSUME NEW d \in Clients, rpc'[d] \in {"check", "store"}, NEW e \in 0 .. ServerCount - 1
          PROVE  elapsed'[e] # msg[d]
      <3>1. d # c /\ rpc[d] \in {"check", "store"}
        BY <1>6, <1>7, <2>1
      <3>2. msg[d][1] = d /\ elapsed[e] # msg[d]
        BY <3>1 DEF UpInv, InHand
      <3> QED
        BY <1>4, <1>5, <3>1, <3>2
    <2>2. \A d \in Clients : InHand(d)' => InHand(d)
      BY <1>1, <1>6 DEF InHand
    <2>3. UNCHANGED <<up, csent, msg>>
      BY <1>1
    <2> QED
      BY ONLY UpInv, <1>2, <1>3, <2>1, <2>2, <2>3 DEF UpInv
  <1>9. StoredInv'
    <2>1. \A e \in 0 .. ServerCount - 1 : elapsed[e] # NoMsg => elapsed[e][1] \in Clients
      BY MessageParts DEF TypeOK
    <2>2. ASSUME NEW e \in 0 .. ServerCount - 1, elapsed'[e] # NoMsg, e # idx
          PROVE  /\ elapsed'[e] = elapsed[e] /\ elapsed[e] # NoMsg /\ elapsed[e][1] \in Clients
                 /\ Live(elapsed[e][1]) => elapsed[e][2] < Received(elapsed[e][1])
      BY <1>4, <2>1, <2>2 DEF StoredInv
    <2> QED
      BY ONLY c \in Clients, <1>2, <1>3, <1>4, <1>5, <2>2 DEF StoredInv
  <1>10. EntryOnce'
    BY <1>2, <1>4, <1>5 DEF EntryOnce
  <1> QED
    BY <1>8, <1>9, <1>10

\* A message that is sent stands behind all that were sent before.
LEMMA SendKeepsOrder ==
  ASSUME TypeOK, LinkInv, UpInv, StoredInv, EntryOnce, conf' = conf,
         NEW c \in Clients, ClientSend(c)
  PROVE  /\ UpInv' /\ StoredInv' /\ EntryOnce'
         /\ Live(c) => Received(c)' = Received(c)
  <1>1. /\ cpc[c] = "cts" /\ csent' = [csent EXCEPT ![c] = @ + 1]
        /\ up' = IF link[c] = "open" THEN [up EXCEPT ![c] = Append(@, <<c, csent[c]>>)] ELSE up
        /\ UNCHANGED <<link, rpc, msg, elapsed>>
    BY DEF ClientSend, serverVars
  <1>2. ServerCount' = ServerCount /\ ServerMsgs' = ServerMsgs
    BY DEF ServerCount, ServerMsgs, ClientCount
  <1>3. Received(c) \in Nat /\ csent[c] \in Nat /\ Len(up[c]) \in Nat /\ Len(up[c]) <= csent[c]
    BY ReceivedNat DEF UpInv
  <1>4. Live(c) => link[c] = "open"
    BY <1>1 DEF LinkInv, Live, ClientEnded
  <1>5. csent'[c] = csent[c] + 1 /\ \A d \in Clients \ {c} : csent'[d] = csent[d] /\ up'[d] = up[d]
    BY <1>1 DEF TypeOK
  <1>6. CASE link[c] = "open"
    <2>1. up'[c] = Append(up[c], <<c, csent[c]>>)
      BY <1>1, <1>6 DEF TypeOK
    <2>2. /\ Len(up'[c]) = Len(up[c]) + 1
          /\ up'[c][Len(up[c]) + 1] = <<c, csent[c]>>
          /\ \A j \in 1 .. Len(up[c]) : up'[c][j] = up[c][j]
      BY <2>1 DEF TypeOK
    <2>3. Received(c)' = Received(c)
      BY ONLY SMTT(30), <1>3, <1>5, <2>2 DEF Received
    <2>4. ASSUME NEW j \in 1 .. Len(up'[c])
          PROVE  up'[c][j] = <<c, Received(c) + j - 1>>
      <3>1. CASE j \in 1 .. Len(up[c])
        BY <1>6, <2>2, <3>1 DEF UpInv, Live
      <3>2. CASE j = Len(up[c]) + 1
        <4>1. Received(c) + j - 1 = csent[c]
          BY <1>3, <3>2 DEF Received
        <4> QED
          BY <2>2, <3>2, <4>1
      <3> QED
        BY <1>3, <2>2, <3>1, <3>2
    <2>5. Len(up'[c]) <= csent'[c]
      BY <1>3, <1>5, <2>2
    <2>6. /\ \A d \in Clients : Received(d)' = Received(d)
          /\ \A d \in Clients : Live(d)' => Live(d)
          /\ \A d \in Clients : InHand(d)' => InHand(d)
      BY <1>1, <1>5, <2>3 DEF Received, Live, InHand
    <2>7. UNCHANGED <<rpc, msg, elapsed>>
      BY <1>1
    <2>8. UpInv'
      BY ONLY UpInv, <1>2, <1>5, <2>4, <2>5, <2>6, <2>7 DEF UpInv
    <2>9. \A e \in 0 .. ServerCount - 1 : elapsed[e] # NoMsg => elapsed[e][1] \in Clients
      BY MessageParts DEF TypeOK
    <2>10. StoredInv' /\ EntryOnce'
      BY ONLY StoredInv, EntryOnce, <1>2, <2>6, <2>7, <2>9 DEF StoredInv, EntryOnce
    <2> QED
      BY <2>3, <2>8, <2>10
  <1>7. CASE link[c] # "open"
    <2>1. up' = up /\ ~Live(c)
      BY <1>1, <1>4, <1>7
    <2>2. Len(up'[c]) <= csent'[c]
      BY <1>3, <1>5, <2>1
    <2>3. /\ \A d \in Clients : Live(d)' => Live(d) /\ d # c
          /\ \A d \in Clients \ {c} : Received(d)' = Received(d)
          /\ \A d \in Clients : InHand(d)' => InHand(d)
      BY <1>1, <1>5, <2>1 DEF Received, Live, InHand
    <2>4. UNCHANGED <<up, rpc, msg, elapsed>>
      BY <1>1, <2>1
    <2>5. UpInv'
      BY ONLY UpInv, <1>2, <1>5, <2>2, <2>3, <2>4 DEF UpInv
    <2>6. \A e \in 0 .. ServerCount - 1 : elapsed[e] # NoMsg => elapsed[e][1] \in Clients
      BY MessageParts DEF TypeOK
    <2>7. StoredInv' /\ EntryOnce'
      BY ONLY StoredInv, EntryOnce, <1>2, <2>3, <2>4, <2>6 DEF StoredInv, EntryOnce
    <2> QED
      BY <2>1, <2>5, <2>7
  <1> QED
    BY <1>6, <1>7

\* A connection that breaks is live no more.
LEMMA BreakKeepsOrder ==
  ASSUME TypeOK, UpInv, StoredInv, EntryOnce, conf' = conf,
         NEW c \in Clients, Break(c)
  PROVE  UpInv' /\ StoredInv' /\ EntryOnce'
  <1>1. /\ UNCHANGED <<rpc, msg, elapsed, csent>>
        /\ link' = [link EXCEPT ![c] = "broken"] /\ up' = [up EXCEPT ![c] = <<>>]
    BY DEF Break, serverVars, readVars, clientVars
  <1>2. ServerCount' = ServerCount /\ ServerMsgs' = ServerMsgs
    BY DEF ServerCount, ServerMsgs, ClientCount
  <1>3. /\ up'[c] = <<>> /\ \A d \in Clients \ {c} : up'[d] = up[d] /\ link'[d] = link[d]
        /\ link'[c] = "broken"
    BY <1>1 DEF TypeOK
  <1>4. /\ \A d \in Clients : Live(d)' => Live(d) /\ d # c
        /\ \A d \in Clients \ {c} : Received(d)' = Received(d)
        /\ \A d \in Clients : InHand(d)' => InHand(d)
    BY <1>1, <1>3 DEF Received, Live, InHand
  <1>5. Len(up'[c]) <= csent'[c]
    BY <1>1, <1>3, ConfType DEF TypeOK
  <1>6. UNCHANGED <<rpc, msg, elapsed, csent>>
    BY <1>1
  <1>7. UpInv'
    BY ONLY UpInv, <1>2, <1>3, <1>4, <1>5, <1>6 DEF UpInv
  <1>8. \A e \in 0 .. ServerCount - 1 : elapsed[e] # NoMsg => elapsed[e][1] \in Clients
    BY MessageParts DEF TypeOK
  <1>9. StoredInv' /\ EntryOnce'
    BY ONLY StoredInv, EntryOnce, <1>2, <1>4, <1>6, <1>8 DEF StoredInv, EntryOnce
  <1> QED
    BY <1>7, <1>9

\* A step keeps the messages of the clients in order, and stores none twice.
LEMMA UpStep ==
  ASSUME TypeOK, LinkInv, UpInv, StoredInv, EntryOnce, [Next]_vars
  PROVE  UpInv' /\ StoredInv' /\ EntryOnce'
  <1> DEFINE Quiet ==
        /\ UNCHANGED <<up, csent, elapsed>>
        /\ \A d \in Clients : Live(d)' => Live(d)
        /\ \A d \in Clients : InHand(d)' =>
             /\ InHand(d) /\ msg'[d] = msg[d]
             /\ rpc'[d] \in {"check", "store"} => rpc[d] \in {"check", "store"}
  <1>1. conf' = conf
    BY ConfStays
  <1>q. ASSUME Quiet PROVE UpInv' /\ StoredInv' /\ EntryOnce'
    BY <1>1, <1>q, UpFrame
  <1>s. CASE UNCHANGED vars
    <2>1. Quiet
      BY <1>s DEF vars, Live, InHand
    <2> QED
      BY <1>q, <2>1
  <1> SUFFICES ASSUME NEW c \in Clients, Step(c)
               PROVE  UpInv' /\ StoredInv' /\ EntryOnce'
    BY NextCases, <1>s
  <1>2. CASE Receive(c)
    BY <1>1, <1>2, ReceiveKeepsOrder
  <1>3. CASE Check(c)
    <2>1. Quiet
      BY <1>3 DEF TypeOK, Check, EndRead, clientVars, Live, InHand
    <2> QED
      BY <1>q, <2>1
  <1>4. CASE Store(c)
    <2>1. CASE idx < ServerCount
      BY <1>1, <1>4, <2>1, StoreKeepsOrder
    <2>2. CASE ~(idx < ServerCount)
      <3>1. Quiet
        BY <1>4, <2>2 DEF TypeOK, Store, ServerEnds, clientVars, Live, InHand
      <3> QED
        BY <1>q, <3>1
    <2> QED
      BY <2>1, <2>2
  <1>5. CASE LoadIdx(c)
    <2>1. Quiet
      BY <1>5 DEF TypeOK, LoadIdx, clientVars, Live, InHand
    <2> QED
      BY <1>q, <2>1
  <1>6. CASE IncIdx(c)
    <2>1. Quiet
      BY <1>6 DEF TypeOK, IncIdx, EndRead, clientVars, Live, InHand
    <2> QED
      BY <1>q, <2>1
  <1>7. CASE ReadEnds(c)
    <2>1. Quiet
      BY <1>7 DEF TypeOK, ReadEnds, readVars, clientVars, Live, InHand
    <2> QED
      BY <1>q, <2>1
  <1>8. CASE OnInactive(c)
    <2>1. Quiet
      BY <1>8 DEF TypeOK, OnInactive, ServerEnds, readVars, clientVars, Live, InHand
    <2> QED
      BY <1>q, <2>1
  <1>9. CASE ServerSend(c)
    <2>1. Quiet
      BY <1>9 DEF TypeOK, ServerSend, readVars, clientVars, Live, InHand
    <2> QED
      BY <1>q, <2>1
  <1>10. CASE ServerSendFails(c)
    <2>1. Quiet
      BY <1>10 DEF TypeOK, ServerSendFails, readVars, clientVars, Live, InHand
    <2> QED
      BY <1>q, <2>1
  <1>11. CASE SentAll(c)
    <2>1. Quiet
      BY <1>11 DEF TypeOK, SentAll, ServerEnds, readVars, clientVars, Live, InHand
    <2> QED
      BY <1>q, <2>1
  <1>12. CASE Connect(c)
    <2>1. /\ UNCHANGED <<up, csent, elapsed, msg>>
          /\ link' = [link EXCEPT ![c] = "open"] /\ rpc' = [rpc EXCEPT ![c] = "read"]
          /\ link[c] = "none"
      BY <1>12 DEF Connect, readVars, LinkInv
    <2>2. Quiet
      BY <2>1 DEF TypeOK, Live, InHand
    <2> QED
      BY <1>q, <2>2
  <1>13. CASE DialFails(c)
    <2>1. Quiet
      BY <1>13 DEF TypeOK, DialFails, serverVars, Live, InHand
    <2> QED
      BY <1>q, <2>1
  <1>14. CASE ClientSend(c)
    BY <1>1, <1>14, SendKeepsOrder
  <1>15. CASE ClientSendFails(c)
    <2>1. Quiet
      BY <1>15 DEF TypeOK, ClientSendFails, serverVars, Live, InHand
    <2> QED
      BY <1>q, <2>1
  <1>16. CASE ClientClose(c)
    <2>1. Quiet
      BY <1>16 DEF TypeOK, ClientClose, ClientCloses, serverVars, Live, InHand
    <2> QED
      BY <1>q, <2>1
  <1>17. CASE ClientReceive(c)
    <2>1. Quiet
      BY <1>17 DEF TypeOK, ClientReceive, serverVars, Live, InHand
    <2> QED
      BY <1>q, <2>1
  <1>18. CASE ClientReadFails(c)
    <2>1. Quiet
      BY <1>18 DEF TypeOK, ClientReadFails, serverVars, Live, InHand
    <2> QED
      BY <1>q, <2>1
  <1>19. CASE ClientReport(c)
    <2>1. Quiet
      BY <1>19 DEF TypeOK, ClientReport, ClientCloses, serverVars, Live, InHand
    <2> QED
      BY <1>q, <2>1
  <1>20. CASE Break(c)
    BY <1>1, <1>20, BreakKeepsOrder
  <1> QED
    BY <1>2, <1>3, <1>4, <1>5, <1>6, <1>7, <1>8, <1>9, <1>10, <1>11, <1>12, <1>13, <1>14,
       <1>15, <1>16, <1>17, <1>18, <1>19, <1>20 DEF Step

--------------------------------------------------------------------------------
(* WsTrans: a single client.                                                   *)

\* A step of the peer of c keeps what it has counted, if it counts nothing.
LEMMA LoneFrame ==
  ASSUME NEW c \in Clients, LoneOf(c), conf' = conf, UNCHANGED <<idx, elapsed>>,
         \/ rpc'[c] = rpc[c] /\ msg'[c] = msg[c] /\ reg'[c] = reg[c]
         \/ ~InHand(c) /\ ~InHand(c)',
         Live(c)' => Live(c) /\ Received(c)' = Received(c),
         server' = "panicked" => server = "panicked" \/ idx = 0
  PROVE  LoneOf(c)'
  <1>1. ServerCount' = ServerCount
    BY DEF ServerCount
  <1>2. CASE rpc'[c] = rpc[c] /\ msg'[c] = msg[c] /\ reg'[c] = reg[c]
    <2>1. InHand(c)' <=> InHand(c)
      BY <1>2 DEF InHand
    <2> QED
      BY <1>1, <1>2, <2>1 DEF LoneOf
  <1>3. CASE ~InHand(c) /\ ~InHand(c)'
    <2>1. /\ rpc[c] \notin {"load", "inc", "store"} /\ rpc'[c] \notin {"load", "inc", "store"}
      BY <1>3 DEF InHand
    <2> QED
      BY <1>1, <1>3, <2>1 DEF LoneOf
  <1> QED
    BY <1>2, <1>3

\* A connection that is established stays so, or has an end.
LEMMA LinkMoves ==
  ASSUME TypeOK, NEW d \in Clients, Step(d), NEW a \in Clients, link'[a] = "none"
  PROVE  link[a] = "none"
  <1>1. CASE \/ Receive(d) \/ Check(d) \/ LoadIdx(d) \/ IncIdx(d) \/ ReadEnds(d)
             \/ ServerSend(d) \/ ServerSendFails(d)
    BY <1>1 DEF Receive, Check, LoadIdx, IncIdx, ReadEnds, ServerSend, ServerSendFails
  <1>2. CASE \/ DialFails(d) \/ ClientSend(d) \/ ClientSendFails(d)
             \/ ClientReceive(d) \/ ClientReadFails(d)
    BY <1>2 DEF DialFails, ClientSend, ClientSendFails, ClientReceive, ClientReadFails
  <1>3. CASE Store(d)
    BY <1>3 DEF TypeOK, Store, ServerEnds
  <1>4. CASE OnInactive(d) \/ SentAll(d)
    BY <1>4 DEF TypeOK, OnInactive, SentAll, ServerEnds
  <1>5. CASE Connect(d)
    BY <1>5 DEF TypeOK, Connect
  <1>6. CASE Break(d)
    BY <1>6 DEF TypeOK, Break
  <1>7. CASE ClientClose(d) \/ ClientReport(d)
    BY <1>7 DEF TypeOK, ClientClose, ClientReport, ClientCloses
  <1> QED
    BY <1>1, <1>2, <1>3, <1>4, <1>5, <1>6, <1>7 DEF Step

\* While c is the only client nothing moves but c, its peer, and clients that do
\* not reach the server.
LEMMA LoneActor ==
  ASSUME TypeOK, LinkInv, NEW c \in Clients, NEW d \in Clients, Step(d), Alone(c)'
  PROVE  Alone(c) /\ (d = c \/ DialFails(d))
  <1>1. \A a \in Clients : link'[a] = "none" => link[a] = "none"
    BY LinkMoves
  <1>2. Alone(c)
    BY <1>1 DEF Alone
  <1>3. CASE d # c
    <2>1. link[d] = "none" /\ link'[d] = "none"
      BY <1>1, <1>3 DEF Alone
    <2>2. rpc[d] = "none" /\ wpc[d] = "none" /\ cpc[d] \in {"dial", "exited"}
      BY <2>1 DEF LinkInv
    <2>3. ~Connect(d)
      BY <2>1 DEF Connect, TypeOK
    <2>4. ~(Receive(d) \/ Check(d) \/ Store(d) \/ LoadIdx(d) \/ IncIdx(d) \/ ReadEnds(d) \/ OnInactive(d))
      BY <2>2 DEF Receive, Check, Store, LoadIdx, IncIdx, ReadEnds, OnInactive
    <2>5. ~(ServerSend(d) \/ ServerSendFails(d) \/ SentAll(d))
      BY <2>2 DEF ServerSend, ServerSendFails, SentAll
    <2>6. ~(ClientSend(d) \/ ClientSendFails(d) \/ ClientClose(d))
      BY <2>2 DEF ClientSend, ClientSendFails, ClientClose
    <2>7. ~(ClientReceive(d) \/ ClientReadFails(d) \/ ClientReport(d) \/ Break(d))
      BY <2>1, <2>2 DEF ClientReceive, ClientReadFails, ClientReport, Break
    <2> QED
      BY <1>2, <2>3, <2>4, <2>5, <2>6, <2>7 DEF Step
  <1> QED
    BY <1>2, <1>3

\* The peer of a single client gets, checks, stores and counts one message after
\* the other.
LEMMA LoneReads ==
  ASSUME TypeOK, LinkInv, UpInv, StoredInv, EntryOnce, conf' = conf, NEW c \in Clients, LoneOf(c),
         Receive(c) \/ Check(c) \/ (Store(c) /\ idx < ServerCount) \/ LoadIdx(c) \/ IncIdx(c)
  PROVE  LoneOf(c)'
  <1>0. ServerCount \in Nat /\ Received(c) \in Nat /\ idx \in Nat
    BY ConfType, ReceivedNat DEF TypeOK
  <1>1. ServerCount' = ServerCount
    BY DEF ServerCount
  <1>2. CASE Receive(c)
    <2>1. /\ Live(c) /\ msg'[c] = <<c, Received(c)>> /\ Received(c)' = Received(c) + 1
      BY <1>2, ReceiveKeepsOrder
    <2>2. rpc[c] = "read" /\ rpc'[c] = "check" /\ server' = "up" /\ UNCHANGED <<idx, elapsed>>
      BY <1>2 DEF Receive, TypeOK
    <2>3. ~InHand(c) /\ InHand(c)'
      BY <2>2 DEF InHand
    <2>4. idx = Least(Received(c), ServerCount) /\ idx <= ServerCount
      BY <2>1, <2>3 DEF LoneOf
    <2>5. idx < ServerCount => idx = Received(c)
      BY <1>0, <2>4 DEF Least
    <2>6. Received(c)' - 1 = Received(c)
      BY <1>0, <2>1
    <2> QED
      BY <1>1, <2>1, <2>2, <2>3, <2>4, <2>5, <2>6 DEF LoneOf
  <1>3. CASE Check(c) /\ Full
    <2>1. /\ rpc[c] = "check" /\ rpc'[c] = "read" /\ server' = "up"
          /\ UNCHANGED <<idx, elapsed, link, csent, up>>
      BY <1>3 DEF Check, EndRead, TypeOK, clientVars
    <2>2. InHand(c) /\ ~InHand(c)' /\ Live(c)' = Live(c) /\ Received(c)' = Received(c)
      BY <2>1 DEF InHand, Live, Received
    <2>3. idx = ServerCount
      BY <1>0, <1>3 DEF LoneOf, Full
    <2>4. Live(c) => idx = Least(Received(c), ServerCount)
      BY <1>0, <2>2, <2>3 DEF LoneOf, Least
    <2> QED
      BY <1>0, <1>1, <2>1, <2>2, <2>3, <2>4 DEF LoneOf
  <1>4. CASE Check(c) /\ ~Full
    <2>1. /\ rpc[c] = "check" /\ rpc'[c] = "store" /\ server' = "up" /\ msg'[c] = msg[c]
          /\ UNCHANGED <<idx, elapsed, link, csent, up>>
      BY <1>4 DEF Check, TypeOK, clientVars
    <2>2. InHand(c) /\ InHand(c)' /\ Live(c)' = Live(c) /\ Received(c)' = Received(c)
      BY <2>1 DEF InHand, Live, Received
    <2>3. idx < ServerCount
      BY <1>0, <1>4 DEF Full
    <2> QED
      BY <1>0, <1>1, <2>1, <2>2, <2>3 DEF LoneOf
  <1>5. CASE Store(c) /\ idx < ServerCount
    <2>1. /\ rpc[c] = "store" /\ rpc'[c] = "load" /\ server' = "up" /\ msg'[c] = msg[c]
          /\ elapsed' = [elapsed EXCEPT ![idx] = msg[c]]
          /\ UNCHANGED <<idx, link, csent, up>>
      BY <1>5 DEF Store, TypeOK, clientVars
    <2>2. InHand(c) /\ InHand(c)' /\ Live(c)' = Live(c) /\ Received(c)' = Received(c)
      BY <2>1 DEF InHand, Live, Received
    <2>3. msg[c] = <<c, idx>>
      BY <1>5, <2>2 DEF LoneOf
    <2>4. \A e \in 0 .. ServerCount - 1 : elapsed'[e] = IF e = idx THEN <<c, e>> ELSE elapsed[e]
      BY <2>1, <2>3 DEF TypeOK
    <2> QED
      BY <1>0, <1>1, <1>5, <2>1, <2>2, <2>3, <2>4 DEF LoneOf
  <1>6. CASE LoadIdx(c)
    <2>1. /\ rpc[c] = "load" /\ rpc'[c] = "inc" /\ server' = "up" /\ msg'[c] = msg[c]
          /\ reg'[c] = idx /\ UNCHANGED <<idx, elapsed, link, csent, up>>
      BY <1>6 DEF LoadIdx, TypeOK, clientVars
    <2>2. InHand(c) /\ InHand(c)' /\ Live(c)' = Live(c) /\ Received(c)' = Received(c)
      BY <2>1 DEF InHand, Live, Received
    <2> QED
      BY <1>0, <1>1, <2>1, <2>2 DEF LoneOf
  <1>7. CASE IncIdx(c)
    <2>1. /\ rpc[c] = "inc" /\ rpc'[c] = "read" /\ server' = "up" /\ idx' = reg[c] + 1
          /\ UNCHANGED <<elapsed, link, csent, up>>
      BY <1>7 DEF IncIdx, EndRead, TypeOK, clientVars
    <2>2. InHand(c) /\ ~InHand(c)' /\ Live(c)' = Live(c) /\ Received(c)' = Received(c)
      BY <2>1 DEF InHand, Live, Received
    <2>3. idx' = idx + 1 /\ idx < ServerCount
      BY <2>1 DEF LoneOf
    <2>4. Live(c) => idx' = Least(Received(c), ServerCount)
      <3>1. Live(c) => idx = Least(Received(c) - 1, ServerCount)
        BY <2>2 DEF LoneOf
      <3> QED
        BY <1>0, <2>3, <3>1 DEF Least
    <2>5. \A e \in 0 .. ServerCount - 1 : e < idx' <=> e < idx \/ e = idx
      BY <1>0, <2>3
    <2> QED
      BY <1>0, <1>1, <2>1, <2>2, <2>3, <2>4, <2>5 DEF LoneOf
  <1> QED
    BY <1>2, <1>3, <1>4, <1>5, <1>6, <1>7

\* A step keeps what the peer of a single client has counted.
LEMMA LoneStep ==
  ASSUME TypeOK, LinkInv, UpInv, StoredInv, EntryOnce, LoneInv, [Next]_vars
  PROVE  LoneInv'
  <1>0. conf' = conf /\ ServerCount \in Nat /\ idx \in Nat
    BY ConfStays, ConfType DEF TypeOK
  <1>1. CASE UNCHANGED vars
    <2>1. ASSUME NEW c \in Clients, Alone(c)' PROVE LoneOf(c)'
      <3>1. LoneOf(c)
        BY <1>1, <2>1 DEF LoneInv, Alone, vars
      <3> QED
        BY <1>0, <1>1, <3>1, LoneFrame DEF vars, Live, Received
    <2> QED
      BY <2>1 DEF LoneInv
  <1> SUFFICES ASSUME NEW c \in Clients, NEW d \in Clients, Step(d), Alone(c)'
               PROVE  LoneOf(c)'
    BY <1>1, NextCases DEF LoneInv
  <1> DEFINE Quiet ==
        /\ UNCHANGED <<idx, elapsed>>
        /\ \/ rpc'[c] = rpc[c] /\ msg'[c] = msg[c] /\ reg'[c] = reg[c]
           \/ ~InHand(c) /\ ~InHand(c)'
        /\ Live(c)' => Live(c) /\ Received(c)' = Received(c)
        /\ server' = "panicked" => server = "panicked" \/ idx = 0
  <1>2. LoneOf(c) /\ (d = c \/ DialFails(d))
    BY LoneActor DEF LoneInv
  <1>3. ASSUME Quiet PROVE LoneOf(c)'
    BY <1>0, <1>2, <1>3, LoneFrame
  <1>4. CASE DialFails(d)
    <2>1. Quiet
      BY <1>4 DEF DialFails, serverVars, Live, Received
    <2> QED
      BY <1>3, <2>1
  <1> SUFFICES ASSUME Step(c), ~DialFails(c) PROVE LoneOf(c)'
    BY <1>2, <1>4
  <1>5. CASE Receive(c) \/ Check(c) \/ Store(c) \/ LoadIdx(c) \/ IncIdx(c)
    <2>1. Store(c) => idx < ServerCount
      BY <1>2 DEF Store, LoneOf
    <2> QED
      BY <1>0, <1>2, <1>5, <2>1, LoneReads
  <1>6. CASE ReadEnds(c)
    <2>1. Quiet
      BY <1>6 DEF TypeOK, ReadEnds, readVars, clientVars, InHand, Live, Received
    <2> QED
      BY <1>3, <2>1
  <1>7. CASE OnInactive(c)
    <2>1. /\ UNCHANGED <<idx, elapsed, msg, reg, csent, up>>
          /\ rpc'[c] \notin {"check", "store", "load", "inc"} /\ rpc[c] = "ended"
          /\ \A a \in Clients : link'[a] = link[a] \/ link'[a] = "serverClosed"
      BY <1>7 DEF TypeOK, OnInactive, ServerEnds, readVars, clientVars
    <2>2. ~InHand(c) /\ ~InHand(c)' /\ (Live(c)' => Live(c)) /\ Received(c)' = Received(c)
      BY <2>1 DEF InHand, Live, Received
    <2>3. server' = "panicked" => idx = 0
      BY <1>0, <1>2, <1>7 DEF OnInactive, ServerEnds, ReportPanics, LoneOf
    <2> QED
      BY <1>3, <2>1, <2>2, <2>3
  <1>8. CASE ServerSend(c)
    <2>1. Quiet
      BY <1>8 DEF TypeOK, ServerSend, readVars, clientVars, InHand, Live, Received
    <2> QED
      BY <1>3, <2>1
  <1>9. CASE ServerSendFails(c)
    <2>1. Quiet
      BY <1>9 DEF TypeOK, ServerSendFails, readVars, clientVars, InHand, Live, Received
    <2> QED
      BY <1>3, <2>1
  <1>10. CASE SentAll(c)
    <2>1. Quiet
      BY <1>10 DEF TypeOK, SentAll, ServerEnds, readVars, clientVars, InHand, Live, Received
    <2> QED
      BY <1>3, <2>1
  <1>11. CASE Connect(c)
    <2>1. /\ UNCHANGED <<up, csent, elapsed, idx, server>>
          /\ link' = [link EXCEPT ![c] = "open"] /\ rpc' = [rpc EXCEPT ![c] = "read"]
          /\ link[c] = "none" /\ rpc[c] = "none"
      BY <1>11 DEF Connect, readVars, LinkInv
    <2>2. Quiet
      BY <2>1 DEF TypeOK, InHand, Live, Received
    <2> QED
      BY <1>3, <2>2
  <1>12. CASE ClientSend(c)
    <2>1. UNCHANGED <<idx, elapsed, rpc, msg, reg, server, link>>
      BY <1>12 DEF ClientSend, serverVars
    <2>2. Live(c)' => Live(c) /\ Received(c)' = Received(c)
      BY <1>0, <1>12, <2>1, SendKeepsOrder DEF Live
    <2> QED
      BY <1>3, <2>1, <2>2
  <1>13. CASE ClientSendFails(c)
    <2>1. Quiet
      BY <1>13 DEF TypeOK, ClientSendFails, serverVars, InHand, Live, Received
    <2> QED
      BY <1>3, <2>1
  <1>14. CASE ClientClose(c)
    <2>1. Quiet
      BY <1>14 DEF TypeOK, ClientClose, ClientCloses, serverVars, InHand, Live, Received
    <2> QED
      BY <1>3, <2>1
  <1>15. CASE ClientReceive(c)
    <2>1. Quiet
      BY <1>15 DEF TypeOK, ClientReceive, serverVars, InHand, Live, Received
    <2> QED
      BY <1>3, <2>1
  <1>16. CASE ClientReadFails(c)
    <2>1. Quiet
      BY <1>16 DEF TypeOK, ClientReadFails, serverVars, InHand, Live, Received
    <2> QED
      BY <1>3, <2>1
  <1>17. CASE ClientReport(c)
    <2>1. Quiet
      BY <1>17 DEF TypeOK, ClientReport, ClientCloses, serverVars, InHand, Live, Received
    <2> QED
      BY <1>3, <2>1
  <1>18. CASE Break(c)
    <2>1. Quiet
      BY <1>18 DEF TypeOK, Break, serverVars, clientVars, InHand, Live, Received
    <2> QED
      BY <1>3, <2>1
  <1> QED
    BY <1>4, <1>5, <1>6, <1>7, <1>8, <1>9, <1>10, <1>11, <1>12,
       <1>13, <1>14, <1>15, <1>16, <1>17, <1>18 DEF Step

--------------------------------------------------------------------------------
(* WsTrans: the messages of the server.                                        *)

\* The step of another client, or of its peer, can end this connection only.
LEMMA OthersKeep ==
  ASSUME TypeOK, NEW c \in Clients, NEW d \in Clients, c # d, Step(d)
  PROVE  /\ cpc'[c] = cpc[c] /\ down'[c] = down[c] /\ ssent'[c] = ssent[c] /\ creport'[c] = creport[c]
         /\ link'[c] = link[c] \/ (link[c] = "open" /\ link'[c] = "serverClosed")
  <1> USE DEF TypeOK
  <1>1. CASE Receive(d)
    BY <1>1 DEF Receive, clientVars
  <1>2. CASE Check(d)
    BY <1>2 DEF Check, EndRead, clientVars
  <1>3. CASE Store(d)
    BY <1>3 DEF Store, ServerEnds, clientVars
  <1>4. CASE LoadIdx(d)
    BY <1>4 DEF LoadIdx, clientVars
  <1>5. CASE IncIdx(d)
    BY <1>5 DEF IncIdx, EndRead, clientVars
  <1>6. CASE ReadEnds(d)
    BY <1>6 DEF ReadEnds, readVars, clientVars
  <1>7. CASE OnInactive(d)
    BY <1>7 DEF OnInactive, ServerEnds, readVars, clientVars
  <1>8. CASE ServerSend(d)
    BY <1>8 DEF ServerSend, readVars, clientVars
  <1>9. CASE ServerSendFails(d)
    BY <1>9 DEF ServerSendFails, readVars, clientVars
  <1>10. CASE SentAll(d)
    BY <1>10 DEF SentAll, ServerEnds, readVars, clientVars
  <1>11. CASE Connect(d)
    BY <1>11 DEF Connect, readVars
  <1>12. CASE DialFails(d)
    BY <1>12 DEF DialFails, serverVars
  <1>13. CASE ClientSend(d)
    BY <1>13 DEF ClientSend, serverVars
  <1>14. CASE ClientSendFails(d)
    BY <1>14 DEF ClientSendFails, serverVars
  <1>15. CASE ClientClose(d)
    BY <1>15 DEF ClientClose, ClientCloses, serverVars
  <1>16. CASE ClientReceive(d)
    BY <1>16 DEF ClientReceive, serverVars
  <1>17. CASE ClientReadFails(d)
    BY <1>17 DEF ClientReadFails, serverVars
  <1>18. CASE ClientReport(d)
    BY <1>18 DEF ClientReport, ClientCloses, serverVars
  <1>19. CASE Break(d)
    BY <1>19 DEF Break, serverVars, clientVars
  <1> QED
    BY <1>1, <1>2, <1>3, <1>4, <1>5, <1>6, <1>7, <1>8, <1>9, <1>10, <1>11, <1>12,
       <1>13, <1>14, <1>15, <1>16, <1>17, <1>18, <1>19 DEF Step

\* A step that brings client c nothing keeps what it has got.
LEMMA DownFrame ==
  ASSUME NEW c \in Clients, DownOf(c), conf' = conf, creport'[c] = creport[c],
         cpc'[c] = "stc" =>
           /\ cpc[c] = "stc"
           /\ \/ down'[c] = down[c] /\ ssent'[c] = ssent[c] /\ link'[c] \in {link[c], "serverClosed"}
              \/ down'[c] = down[c] /\ link[c] = "broken" /\ link'[c] = "broken"
              \/ down'[c] = <<>> /\ link'[c] = "broken",
         link[c] = "broken" => link'[c] = "broken"
  PROVE  DownOf(c)'
  <1>1. ClientDir' = ClientDir
    BY DEF ClientDir
  <1>2. \A e \in 1 .. Len(creport'[c]) : creport'[c][e] = e - 1
    BY DEF DownOf
  <1>3. ASSUME cpc'[c] = "stc"
        PROVE  /\ ClientDir = "stc" /\ link'[c] \in {"open", "serverClosed", "broken"}
               /\ \A j \in 1 .. Len(down'[c]) : down'[c][j] = Len(creport'[c]) + j - 1
               /\ link'[c] # "broken" => ssent'[c] = Len(creport'[c]) + Len(down'[c])
    <2>1. CASE down'[c] = <<>> /\ link'[c] = "broken"
      <3>1. Len(down'[c]) = 0 /\ 1 .. 0 = {}
        BY <2>1
      <3> QED
        BY <1>3, <2>1, <3>1 DEF DownOf
    <2>2. CASE down'[c] = down[c] /\ ssent'[c] = ssent[c] /\ link'[c] \in {link[c], "serverClosed"}
      BY <1>3, <2>2 DEF DownOf
    <2>3. CASE down'[c] = down[c] /\ link[c] = "broken" /\ link'[c] = "broken"
      BY <1>3, <2>3 DEF DownOf
    <2> QED
      BY <1>3, <2>1, <2>2, <2>3
  <1> QED
    BY <1>1, <1>2, <1>3 DEF DownOf

\* A step keeps the messages of the server in order.
LEMMA DownStep ==
  ASSUME TypeOK, LinkInv, DownInv, [Next]_vars
  PROVE  DownInv'
  <1>0. conf' = conf /\ ClientDir' = ClientDir
    BY ConfStays
  <1>1. CASE UNCHANGED vars
    BY <1>0, <1>1 DEF DownInv, DownOf, vars
  <1> SUFFICES ASSUME NEW c \in Clients, NEW d \in Clients, Step(d)
               PROVE  DownOf(c)'
    BY <1>1, NextCases DEF DownInv
  <1> DEFINE Quiet ==
        /\ creport'[c] = creport[c]
        /\ cpc'[c] = "stc" =>
             /\ cpc[c] = "stc"
             /\ \/ down'[c] = down[c] /\ ssent'[c] = ssent[c] /\ link'[c] \in {link[c], "serverClosed"}
                \/ down'[c] = down[c] /\ link[c] = "broken" /\ link'[c] = "broken"
                \/ down'[c] = <<>> /\ link'[c] = "broken"
        /\ link[c] = "broken" => link'[c] = "broken"
  <1>2. DownOf(c)
    BY DEF DownInv
  <1>3. ASSUME Quiet PROVE DownOf(c)'
    BY <1>0, <1>2, <1>3, DownFrame
  <1>4. CASE c # d
    <2>1. Quiet
      BY <1>4, OthersKeep
    <2> QED
      BY <1>3, <2>1
  <1> SUFFICES ASSUME Step(c) PROVE DownOf(c)'
    BY <1>4
  <1>5. CASE Receive(c)
    <2>1. Quiet
      BY <1>5 DEF TypeOK, Receive, clientVars
    <2> QED
      BY <1>3, <2>1
  <1>6. CASE Check(c)
    <2>1. Quiet
      BY <1>6 DEF TypeOK, Check, EndRead, clientVars
    <2> QED
      BY <1>3, <2>1
  <1>7. CASE Store(c)
    <2>1. Quiet
      BY <1>7 DEF TypeOK, Store, ServerEnds, clientVars
    <2> QED
      BY <1>3, <2>1
  <1>8. CASE LoadIdx(c)
    <2>1. Quiet
      BY <1>8 DEF TypeOK, LoadIdx, clientVars
    <2> QED
      BY <1>3, <2>1
  <1>9. CASE IncIdx(c)
    <2>1. Quiet
      BY <1>9 DEF TypeOK, IncIdx, EndRead, clientVars
    <2> QED
      BY <1>3, <2>1
  <1>10. CASE ReadEnds(c)
    <2>1. Quiet
      BY <1>10 DEF TypeOK, ReadEnds, readVars, clientVars
    <2> QED
      BY <1>3, <2>1
  <1>11. CASE OnInactive(c)
    <2>1. Quiet
      BY <1>11 DEF TypeOK, OnInactive, ServerEnds, readVars, clientVars
    <2> QED
      BY <1>3, <2>1
  <1>12. CASE ServerSend(c)
    <2>1. /\ server = "up" /\ UNCHANGED <<link, cpc, creport>> /\ ssent'[c] = ssent[c] + 1
          /\ down'[c] = IF link[c] = "open" THEN Append(down[c], ssent[c]) ELSE down[c]
      BY <1>12 DEF TypeOK, ServerSend, clientVars
    <2>2. link[c] # "serverClosed"
      BY <2>1 DEF LinkInv
    <2>3. CASE cpc[c] = "stc" /\ link[c] = "open"
      <3>1. ssent[c] = Len(creport[c]) + Len(down[c])
        BY <1>2, <2>3 DEF DownOf
      <3>2. /\ Len(down'[c]) = Len(down[c]) + 1 /\ down'[c][Len(down[c]) + 1] = ssent[c]
            /\ \A j \in 1 .. Len(down[c]) : down'[c][j] = down[c][j]
        BY <2>1, <2>3 DEF TypeOK
      <3>3. Len(down[c]) \in Nat /\ Len(creport[c]) \in Nat
        BY DEF TypeOK
      <3>4. ASSUME NEW j \in 1 .. Len(down'[c])
            PROVE  down'[c][j] = Len(creport[c]) + j - 1
        <4>1. CASE j \in 1 .. Len(down[c])
          BY <1>2, <2>3, <3>2, <4>1 DEF DownOf
        <4>2. CASE j = Len(down[c]) + 1
          <5>1. Len(creport[c]) + j - 1 = Len(creport[c]) + Len(down[c])
            BY ONLY <3>3, <4>2
          <5> QED
            BY ONLY <3>1, <3>2, <4>2, <5>1
        <4> QED
          BY <3>2, <3>3, <4>1, <4>2
      <3>5. ssent'[c] = Len(creport[c]) + Len(down'[c])
        <4>1. ssent'[c] = ssent[c] + 1
          BY <2>1
        <4>2. Len(down'[c]) = Len(down[c]) + 1
          BY <3>2
        <4>3. (Len(creport[c]) + Len(down[c])) + 1 = Len(creport[c]) + (Len(down[c]) + 1)
          BY ONLY <3>3, SumMoves, Zenon
        <4> QED
          BY ONLY <3>1, <4>1, <4>2, <4>3, Zenon
      <3> QED
        BY <1>0, <1>2, <2>1, <2>3, <3>4, <3>5 DEF DownOf
    <2>4. CASE ~(cpc[c] = "stc" /\ link[c] = "open")
      <3>1. Quiet
        BY <1>2, <2>1, <2>2, <2>4 DEF DownOf
      <3> QED
        BY <1>3, <3>1
    <2> QED
      BY <2>3, <2>4
  <1>13. CASE ServerSendFails(c)
    <2>1. Quiet
      BY <1>13 DEF TypeOK, ServerSendFails, readVars, clientVars
    <2> QED
      BY <1>3, <2>1
  <1>14. CASE SentAll(c)
    <2>1. Quiet
      BY <1>14 DEF TypeOK, SentAll, ServerEnds, readVars, clientVars
    <2> QED
      BY <1>3, <2>1
  <1>15. CASE Connect(c)
    <2>1. /\ cpc[c] = "dial" /\ UNCHANGED <<down, ssent, creport>> /\ link'[c] = "open"
          /\ cpc'[c] = "stc" => ClientDir = "stc"
      BY <1>15 DEF TypeOK, Connect
    <2>2. down[c] = <<>> /\ ssent[c] = 0 /\ creport[c] = <<>>
      BY <2>1 DEF LinkInv
    <2> QED
      BY <1>0, <1>2, <2>1, <2>2 DEF DownOf
  <1>16. CASE DialFails(c)
    <2>1. Quiet
      BY <1>16 DEF TypeOK, DialFails, serverVars
    <2> QED
      BY <1>3, <2>1
  <1>17. CASE ClientSend(c)
    <2>1. Quiet
      BY <1>17 DEF TypeOK, ClientSend, serverVars
    <2> QED
      BY <1>3, <2>1
  <1>18. CASE ClientSendFails(c)
    <2>1. Quiet
      BY <1>18 DEF TypeOK, ClientSendFails, serverVars
    <2> QED
      BY <1>3, <2>1
  <1>19. CASE ClientClose(c)
    <2>1. Quiet
      BY <1>19 DEF TypeOK, ClientClose, ClientCloses, serverVars
    <2> QED
      BY <1>3, <2>1
  <1>20. CASE ClientReceive(c)
    <2>1. /\ cpc[c] = "stc" /\ down[c] # <<>> /\ down'[c] = Tail(down[c])
          /\ UNCHANGED <<link, ssent>>
      BY <1>20 DEF TypeOK, ClientReceive, serverVars
    <2>2. CASE Len(creport[c]) > ClientCount - 1
      <3>1. Quiet
        BY <1>20, <2>1, <2>2 DEF TypeOK, ClientReceive
      <3> QED
        BY <1>3, <3>1
    <2>3. CASE ~(Len(creport[c]) > ClientCount - 1)
      <3>1. creport'[c] = Append(creport[c], Head(down[c])) /\ cpc' = cpc
        BY <1>20, <2>3 DEF TypeOK, ClientReceive
      <3>2. Len(down[c]) \in Nat /\ Len(creport[c]) \in Nat /\ 1 \in 1 .. Len(down[c])
        BY <2>1 DEF TypeOK
      <3>3. /\ Len(down'[c]) = Len(down[c]) - 1 /\ Head(down[c]) = down[c][1]
            /\ \A j \in 1 .. Len(down'[c]) : down'[c][j] = down[c][j + 1]
        BY <2>1 DEF TypeOK
      <3>4. Head(down[c]) = Len(creport[c])
        BY <1>2, <2>1, <3>2, <3>3 DEF DownOf
      <3>5. /\ Len(creport'[c]) = Len(creport[c]) + 1 /\ creport'[c][Len(creport[c]) + 1] = Head(down[c])
            /\ \A e \in 1 .. Len(creport[c]) : creport'[c][e] = creport[c][e]
        <4>1. creport[c] \in Seq(ClientMsgs) /\ Head(down[c]) \in ClientMsgs
          BY <2>1 DEF TypeOK
        <4> QED
          BY <3>1, <4>1
      <3>6. ASSUME NEW e \in 1 .. Len(creport'[c])
            PROVE  creport'[c][e] = e - 1
        <4>1. CASE e \in 1 .. Len(creport[c])
          BY <1>2, <3>5, <4>1 DEF DownOf
        <4>2. CASE e = Len(creport[c]) + 1
          BY <3>2, <3>4, <3>5, <4>2
        <4> QED
          BY <3>2, <3>5, <4>1, <4>2
      <3>7. ASSUME NEW j \in 1 .. Len(down'[c])
            PROVE  down'[c][j] = Len(creport'[c]) + j - 1
        <4>1. j + 1 \in 1 .. Len(down[c])
          BY <3>2, <3>3
        <4>2. down[c][j + 1] = Len(creport[c]) + (j + 1) - 1
          BY <1>2, <2>1, <4>1 DEF DownOf
        <4> QED
          BY <3>2, <3>3, <3>5, <4>2
      <3>8. Len(creport'[c]) + Len(down'[c]) = Len(creport[c]) + Len(down[c])
        <4>1. Len(creport'[c]) = Len(creport[c]) + 1 /\ Len(down'[c]) = Len(down[c]) - 1
          BY <3>3, <3>5
        <4>2. (Len(creport[c]) + 1) + (Len(down[c]) - 1) = Len(creport[c]) + Len(down[c])
          BY ONLY <3>2, SumMoves, Zenon
        <4> QED
          BY ONLY <4>1, <4>2, Zenon
      <3> QED
        BY <1>0, <1>2, <2>1, <3>1, <3>6, <3>7, <3>8 DEF DownOf
    <2> QED
      BY <2>2, <2>3
  <1>21. CASE ClientReadFails(c)
    <2>1. Quiet
      BY <1>21 DEF TypeOK, ClientReadFails, serverVars
    <2> QED
      BY <1>3, <2>1
  <1>22. CASE ClientReport(c)
    <2>1. Quiet
      BY <1>22 DEF TypeOK, ClientReport, ClientCloses, serverVars
    <2> QED
      BY <1>3, <2>1
  <1>23. CASE Break(c)
    <2>1. Quiet
      BY <1>23 DEF TypeOK, Break, serverVars, clientVars
    <2> QED
      BY <1>3, <2>1
  <1> QED
    BY <1>5, <1>6, <1>7, <1>8, <1>9, <1>10, <1>11, <1>12, <1>13, <1>14, <1>15, <1>16,
       <1>17, <1>18, <1>19, <1>20, <1>21, <1>22, <1>23 DEF Step

\* A connection that ends with its server: all was sent, if nobody else has ended it.
LEMMA ClosedStep ==
  ASSUME TypeOK, LinkInv, SendInv, LoneInv, ReportInv, [Next]_vars,
         NEW c \in Clients, ServerDir = "stc", link'[c] = "serverClosed", Alone(c)'
  PROVE  ssent'[c] = ServerCount
  <1>1. CASE UNCHANGED vars
    BY <1>1 DEF ReportInv, ReportOf, Alone, vars
  <1> SUFFICES ASSUME NEW d \in Clients, Step(d)
               PROVE  ssent'[c] = ServerCount
    BY <1>1, NextCases
  <1>2. Alone(c) /\ (d = c \/ DialFails(d))
    BY LoneActor
  <1>3. CASE link[c] = "serverClosed"
    <2>1. ssent[c] = ServerCount
      BY <1>2, <1>3 DEF ReportInv, ReportOf
    <2>2. server # "up"
      BY <1>3 DEF LinkInv
    <2>3. ssent' = ssent
      BY <2>2 DEF Step, Receive, Check, Store, LoadIdx, IncIdx, ReadEnds, OnInactive,
         ServerSend, ServerSendFails, SentAll, Connect, DialFails, ClientSend, ClientSendFails,
         ClientClose, ClientReceive, ClientReadFails, ClientReport, Break, serverVars
    <2> QED
      BY <2>1, <2>3
  <1>4. CASE link[c] # "serverClosed"
    <2>1. ~DialFails(d)
      BY <1>4 DEF DialFails
    <2>2. d = c /\ Step(c)
      BY <1>2, <2>1
    <2>3. CASE SentAll(c)
      BY <2>3 DEF SentAll, SendInv
    <2>4. CASE OnInactive(c)
      BY <1>4, <2>4 DEF OnInactive, ServerEnds, LinkInv, TypeOK
    <2>5. CASE Store(c)
      <3>1. idx < ServerCount
        BY <1>2, <2>5 DEF Store, LoneInv, LoneOf
      <3> QED
        BY <1>4, <2>5, <3>1 DEF Store
    <2>6. CASE \/ Receive(c) \/ Check(c) \/ LoadIdx(c) \/ IncIdx(c) \/ ReadEnds(c)
               \/ ServerSend(c) \/ ServerSendFails(c)
      BY <1>4, <2>6 DEF Receive, Check, LoadIdx, IncIdx, ReadEnds, ServerSend, ServerSendFails
    <2>7. CASE \/ ClientSend(c) \/ ClientSendFails(c) \/ ClientReceive(c) \/ ClientReadFails(c)
      BY <1>4, <2>7 DEF ClientSend, ClientSendFails, ClientReceive, ClientReadFails
    <2>8. CASE Connect(c) \/ Break(c)
      BY <1>4, <2>8 DEF Connect, Break, TypeOK
    <2>9. CASE ClientClose(c) \/ ClientReport(c)
      BY <1>4, <2>9 DEF ClientClose, ClientReport, ClientCloses, TypeOK
    <2> QED
      BY <2>1, <2>2, <2>3, <2>4, <2>5, <2>6, <2>7, <2>8, <2>9 DEF Step
  <1> QED
    BY <1>3, <1>4

\* A client that has stopped to read has all that it has room for.
LEMMA FullStep ==
  ASSUME TypeOK, LinkInv, SendInv, DownInv, ReportInv, [Next]_vars,
         NEW c \in Clients, ClientDir = "stc", cpc'[c] = "report" \/ ClientEnded(c)',
         link'[c] \notin {"none", "broken"}
  PROVE  /\ Len(creport'[c]) = Least(ssent'[c], ClientCount)
         /\ link'[c] # "serverClosed" => ssent'[c] > ClientCount
  <1> USE DEF ClientEnded
  <1>0. /\ ClientCount \in Nat /\ ssent[c] \in Nat /\ Len(creport[c]) \in Nat
        /\ Len(creport[c]) <= ClientCount
    BY ConfType DEF TypeOK
  <1> DEFINE Full1 == /\ Len(creport[c]) = Least(ssent[c], ClientCount)
                      /\ link[c] # "serverClosed" => ssent[c] > ClientCount
             Halted == (cpc[c] = "report" \/ ClientEnded(c)) /\ link[c] \notin {"none", "broken"}
             Quiet == /\ creport'[c] = creport[c] /\ ssent'[c] = ssent[c] /\ Halted
                      /\ link'[c] # "serverClosed" => link[c] # "serverClosed"
  <1>1. Halted => Full1
    BY DEF ReportInv, ReportOf
  <1>2. ASSUME Quiet
        PROVE  /\ Len(creport'[c]) = Least(ssent'[c], ClientCount)
               /\ link'[c] # "serverClosed" => ssent'[c] > ClientCount
    BY <1>1, <1>2
  <1>3. CASE UNCHANGED vars
    <2>1. Quiet
      BY <1>3 DEF vars
    <2> QED
      BY <1>2, <2>1
  <1> SUFFICES ASSUME NEW d \in Clients, Step(d)
               PROVE  /\ Len(creport'[c]) = Least(ssent'[c], ClientCount)
                      /\ link'[c] # "serverClosed" => ssent'[c] > ClientCount
    BY <1>3, NextCases
  <1>4. CASE c # d
    <2>1. Quiet
      BY <1>4, OthersKeep
    <2> QED
      BY <1>2, <2>1
  <1> SUFFICES ASSUME Step(c)
               PROVE  /\ Len(creport'[c]) = Least(ssent'[c], ClientCount)
                      /\ link'[c] # "serverClosed" => ssent'[c] > ClientCount
    BY <1>4
  <1>5. CASE Receive(c)
    <2>1. Quiet
      BY <1>5 DEF TypeOK, Receive, clientVars
    <2> QED
      BY <1>2, <2>1
  <1>6. CASE Check(c)
    <2>1. Quiet
      BY <1>6 DEF TypeOK, Check, EndRead, clientVars
    <2> QED
      BY <1>2, <2>1
  <1>7. CASE Store(c)
    <2>1. Quiet
      BY <1>7 DEF TypeOK, Store, ServerEnds, clientVars
    <2> QED
      BY <1>2, <2>1
  <1>8. CASE LoadIdx(c)
    <2>1. Quiet
      BY <1>8 DEF TypeOK, LoadIdx, clientVars
    <2> QED
      BY <1>2, <2>1
  <1>9. CASE IncIdx(c)
    <2>1. Quiet
      BY <1>9 DEF TypeOK, IncIdx, EndRead, clientVars
    <2> QED
      BY <1>2, <2>1
  <1>10. CASE ReadEnds(c)
    <2>1. Quiet
      BY <1>10 DEF TypeOK, ReadEnds, readVars, clientVars
    <2> QED
      BY <1>2, <2>1
  <1>11. CASE OnInactive(c)
    <2>1. Quiet
      BY <1>11 DEF TypeOK, OnInactive, ServerEnds, readVars, clientVars
    <2> QED
      BY <1>2, <2>1
  <1>12. CASE ServerSend(c)
    <2>1. /\ server = "up" /\ UNCHANGED <<link, cpc, creport>> /\ ssent'[c] = ssent[c] + 1
      BY <1>12 DEF TypeOK, ServerSend, clientVars
    <2>2. link[c] # "serverClosed" /\ Halted
      BY <2>1 DEF LinkInv
    <2> QED
      BY <1>0, <1>1, <2>1, <2>2 DEF Least
  <1>13. CASE ServerSendFails(c)
    <2>1. Quiet
      BY <1>13 DEF TypeOK, ServerSendFails, readVars, clientVars
    <2> QED
      BY <1>2, <2>1
  <1>14. CASE SentAll(c)
    <2>1. Quiet
      BY <1>14 DEF TypeOK, SentAll, ServerEnds, readVars, clientVars
    <2> QED
      BY <1>2, <2>1
  <1>15. CASE Connect(c)
    BY <1>15 DEF TypeOK, Connect
  <1>16. CASE DialFails(c)
    BY <1>16 DEF TypeOK, DialFails, LinkInv
  <1>17. CASE ClientSend(c)
    BY <1>17 DEF TypeOK, ClientSend, SendInv
  <1>18. CASE ClientSendFails(c)
    BY <1>18 DEF TypeOK, ClientSendFails, SendInv
  <1>19. CASE ClientClose(c)
    BY <1>19 DEF TypeOK, ClientClose, SendInv
  <1>20. CASE ClientReceive(c)
    <2>1. /\ cpc[c] = "stc" /\ down[c] # <<>> /\ UNCHANGED <<link, ssent>>
      BY <1>20 DEF ClientReceive, serverVars
    <2>2. Len(creport[c]) > ClientCount - 1 /\ creport' = creport
      BY <1>20, <2>1 DEF ClientReceive
    <2>3. Len(creport[c]) = ClientCount
      BY <1>0, <2>2
    <2>4. ssent[c] = Len(creport[c]) + Len(down[c])
      BY <2>1 DEF DownInv, DownOf
    <2>5. Len(down[c]) \in Nat /\ Len(down[c]) > 0
      BY <2>1 DEF TypeOK
    <2>6. ssent[c] > ClientCount
      BY ONLY <1>0, <2>3, <2>4, <2>5
    <2>7. Least(ssent[c], ClientCount) = ClientCount
      BY ONLY <1>0, <2>6 DEF Least
    <2> QED
      BY <2>1, <2>2, <2>3, <2>6, <2>7
  <1>21. CASE ClientReadFails(c)
    <2>1. /\ cpc[c] = "stc" /\ down[c] = <<>> /\ UNCHANGED <<link, ssent, creport>>
          /\ link[c] # "open"
      BY <1>21 DEF ClientReadFails, serverVars
    <2>2. link[c] = "serverClosed" /\ ssent[c] = Len(creport[c]) + Len(down[c])
      BY <2>1 DEF DownInv, DownOf
    <2>3. ssent[c] = Len(creport[c])
      BY <1>0, <2>1, <2>2
    <2>4. Least(ssent[c], ClientCount) = ssent[c]
      BY <1>0, <2>3 DEF Least
    <2> QED
      BY <2>1, <2>2, <2>3, <2>4
  <1>22. CASE ClientReport(c)
    <2>1. Quiet
      BY <1>22 DEF TypeOK, ClientReport, ClientCloses, serverVars
    <2> QED
      BY <1>2, <2>1
  <1>23. CASE Break(c)
    BY <1>23 DEF TypeOK, Break
  <1> QED
    BY <1>5, <1>6, <1>7, <1>8, <1>9, <1>10, <1>11, <1>12, <1>13, <1>14, <1>15, <1>16,
       <1>17, <1>18, <1>19, <1>20, <1>21, <1>22, <1>23 DEF Step

\* A step keeps what is said of a client that has stopped to read.
LEMMA ReportStep ==
  ASSUME TypeOK, LinkInv, SendInv, LoneInv, DownInv, ReportInv, [Next]_vars
  PROVE  ReportInv'
  <1>1. /\ ClientDir' = ClientDir /\ ServerDir' = ServerDir
        /\ ClientCount' = ClientCount /\ ServerCount' = ServerCount
    BY ConfStays
  <1> QED
    BY <1>1, FullStep, ClosedStep DEF ReportInv, ReportOf

--------------------------------------------------------------------------------
(* WsTrans: the theorems.                                                      *)

\* Nothing is connected and nothing is sent when the programs start.
LEMMA WsInit == Init => WsInd
  <1> SUFFICES ASSUME Init PROVE WsInd
    OBVIOUS
  <1>0. ServerCount \in Nat /\ ClientCount \in Nat
    BY ConfType DEF Init
  <1>e. Len(<<>>) = 0 /\ 1 .. 0 = {}
    OBVIOUS
  <1> USE DEF Init
  <1>1. TypeOK
    <2>1. \A c \in Clients : creport[c] = <<>>
      OBVIOUS
    <2>2. 0 <= ClientCount
      BY <1>0
    <2>3. \A c \in Clients : Len(creport[c]) = 0
      BY ONLY <1>e, <2>1, Zenon
    <2>4. \A c \in Clients : Len(creport[c]) <= ClientCount
      BY ONLY <2>2, <2>3, Zenon
    <2> QED
      BY <1>0, <2>1, <2>4 DEF TypeOK
  <1>2. LinkInv /\ SendInv
    BY DEF LinkInv, SendInv
  <1>3. UpInv
    <2>1. \A c \in Clients : csent[c] = 0 /\ rpc[c] = "none" /\ up[c] = <<>>
      OBVIOUS
    <2>2. \A c \in Clients : Len(up[c]) = 0 /\ 1 .. Len(up[c]) = {}
      BY ONLY <1>e, <2>1
    <2>3. 0 <= 0
      OBVIOUS
    <2>4. \A c \in Clients : Len(up[c]) <= csent[c]
      BY ONLY <2>1, <2>2, <2>3, Zenon
    <2> QED
      BY ONLY <2>1, <2>2, <2>4 DEF UpInv, InHand
  <1>4. StoredInv /\ EntryOnce
    BY DEF StoredInv, EntryOnce
  <1>5. LoneInv
    <2>1. ASSUME NEW c \in Clients PROVE Received(c) = 0 /\ ~InHand(c) /\ rpc[c] = "none"
      BY DEF Received, InHand
    <2>2. Least(0, ServerCount) = 0
      BY <1>0 DEF Least
    <2> QED
      BY <1>0, <2>1, <2>2 DEF LoneInv, LoneOf
  <1>6. DownInv
    <2>1. \A c \in Clients : creport[c] = <<>> /\ cpc[c] = "dial"
      OBVIOUS
    <2>2. \A c \in Clients : 1 .. Len(creport[c]) = {}
      BY ONLY <1>e, <2>1
    <2> QED
      BY ONLY <2>1, <2>2 DEF DownInv, DownOf
  <1>7. ReportInv
    BY DEF ReportInv, ReportOf
  <1> QED
    BY <1>1, <1>2, <1>3, <1>4, <1>5, <1>6, <1>7 DEF WsInd

\* WsInd is inductive.
LEMMA WsStep == WsInd /\ [Next]_vars => WsInd'
  <1> SUFFICES ASSUME WsInd, [Next]_vars PROVE WsInd'
    OBVIOUS
  <1> USE DEF WsInd
  <1>1. TypeOK'
    BY TypeStep
  <1>2. LinkInv'
    BY <1>1, LinkStep
  <1>3. SendInv'
    BY SendStep
  <1>4. UpInv' /\ StoredInv' /\ EntryOnce'
    BY UpStep
  <1>5. LoneInv'
    BY LoneStep
  <1>6. DownInv'
    BY DownStep
  <1>7. ReportInv'
    BY ReportStep
  <1> QED
    BY <1>1, <1>2, <1>3, <1>4, <1>5, <1>6, <1>7

\* WsInd holds in every state, for every number of clients and all configurations.
THEOREM WsInductive == Spec => []WsInd
  BY WsInit, WsStep, PTL DEF Spec

\* The variables have their types, and the server counts no message twice, however
\* its calls of OnRead interleave.
THEOREM NoEntryTwice == Spec => []ElapsedInv
  <1>1. WsInd => ElapsedInv
    BY DEF WsInd, ElapsedInv
  <1> QED
    BY <1>1, WsInductive, PTL

\* A client that has been the only one is reported exactly: entry by entry, and in
\* full when it has sent enough and its connection has not broken.
THEOREM LoneClientExact == Spec => []LoneReportExact
  <1>1. WsInd => LoneReportExact
    <2> SUFFICES ASSUME WsInd, NEW c \in Clients, Alone(c)
                 PROVE  /\ \A e \in 0 .. ServerCount - 1 :
                             elapsed[e] = IF e < idx \/ (e = idx /\ rpc[c] \in {"load", "inc"})
                                          THEN <<c, e>> ELSE NoMsg
                        /\ rpc[c] = "inactive" /\ link[c] # "broken" /\ csent[c] >= ServerCount
                             => idx = ServerCount
                        /\ server = "panicked" => idx = 0
      BY DEF LoneReportExact
    <2>1. LoneOf(c)
      BY DEF WsInd, LoneInv
    <2>2. ASSUME rpc[c] = "inactive", link[c] # "broken", csent[c] >= ServerCount
          PROVE  idx = ServerCount
      <3>1. link[c] = "clientClosed" /\ up[c] = <<>>
        BY <2>2 DEF WsInd, LinkInv
      <3>2. Live(c) /\ ~InHand(c) /\ ServerCount \in Nat /\ csent[c] \in Nat
        BY <2>2, <3>1, ConfType DEF WsInd, TypeOK, Live, InHand
      <3>3. Received(c) = csent[c]
        BY <3>1, <3>2 DEF Received
      <3>4. idx = Least(csent[c], ServerCount)
        BY <2>1, <3>2, <3>3 DEF LoneOf
      <3> QED
        BY <2>2, <3>2, <3>4 DEF Least
    <2> QED
      BY <2>1, <2>2 DEF LoneOf
  <1> QED
    BY <1>1, WsInductive, PTL

\* A client reports the beginning of what it was sent; unless its connection broke,
\* all of it that it has room for.
THEOREM ClientReportsExact == Spec => []ClientReportExact
  <1>1. WsInd => ClientReportExact
    <2> SUFFICES ASSUME WsInd, NEW c \in Clients
                 PROVE  /\ \A e \in 1 .. Len(creport[c]) : creport[c][e] = e - 1
                        /\ DirIs("stc") /\ ClientEnded(c) /\ link[c] \notin {"none", "broken"}
                           => /\ Len(creport[c]) = Least(ssent[c], ClientCount)
                              /\ Alone(c) => Len(creport[c]) = Least(ServerCount, ClientCount)
      BY DEF ClientReportExact
    <2>1. DownOf(c) /\ ReportOf(c)
      BY DEF WsInd, DownInv, ReportInv
    <2>2. ServerCount \in Nat /\ ClientCount \in Nat /\ ssent[c] \in 0 .. ServerCount
      BY ConfType DEF WsInd, TypeOK
    <2>3. ASSUME DirIs("stc"), ClientEnded(c), link[c] \notin {"none", "broken"}
          PROVE  /\ Len(creport[c]) = Least(ssent[c], ClientCount)
                 /\ Alone(c) => Least(ssent[c], ClientCount) = Least(ServerCount, ClientCount)
      <3>1. CASE link[c] = "serverClosed"
        BY <2>1, <2>3, <3>1 DEF ReportOf, DirIs
      <3>2. CASE link[c] # "serverClosed"
        <4>1. ssent[c] > ClientCount /\ Len(creport[c]) = Least(ssent[c], ClientCount)
          BY <2>1, <2>3, <3>2 DEF ReportOf, DirIs
        <4>2. Least(ssent[c], ClientCount) = Least(ServerCount, ClientCount)
          BY <2>2, <4>1 DEF Least
        <4> QED
          BY <4>1, <4>2
      <3> QED
        BY <3>1, <3>2
    <2> QED
      BY <2>1, <2>3 DEF DownOf
  <1> QED
    BY <1>1, WsInductive, PTL

--------------------------------------------------------------------------------
(* WsHub: sequences, and the steps.                                            *)

\* What is left of a sequence after a connection has ended is its beginning.
LEMMA PrefixParts ==
  ASSUME NEW s \in Seq(Nat), NEW p \in Prefixes(s)
  PROVE  /\ p \in Seq(Nat) /\ Len(p) <= Len(s)
         /\ \A j \in 1 .. Len(p) : p[j] = s[j]
  <1>1. PICK len \in 0 .. Len(s) : p = SubSeq(s, 1, len)
    BY DEF Prefixes
  <1>2. \A j \in 1 .. len : s[j] \in Nat
    OBVIOUS
  <1> QED
    BY <1>1, <1>2, SubSeqProperties

\* What is sent are the numbers from 0.
LEMMA NumbersParts ==
  ASSUME NEW n \in Nat
  PROVE  /\ Numbers(n) \in Seq(Nat) /\ Len(Numbers(n)) = n
         /\ \A j \in 1 .. n : Numbers(n)[j] = j - 1
  BY DEF Numbers

\* A sequence of numbers from 0 is the start of what is sent.
LEMMA StartIs ==
  ASSUME NEW s \in Seq(Nat), \A j \in 1 .. Len(s) : s[j] = j - 1
  PROVE  IsStart(s)
  <1> DEFINE t == Numbers(Len(s))
  <1>1. t \in Seq(Nat) /\ Len(t) = Len(s) /\ \A j \in 1 .. Len(s) : t[j] = j - 1
    BY NumbersParts, LenProperties
  <1>2. s = t
    BY <1>1, SeqEqual
  <1>3. SubSeq(t, 1, Len(t)) = t /\ Len(t) \in 0 .. Len(t)
    BY <1>1, SubSeqFull
  <1> QED
    BY <1>2, <1>3 DEF IsStart, Prefixes

\* No step changes a configuration.
LEMMA HubConfStays ==
  ASSUME [HubNext]_hubVars
  PROVE  /\ conf' = conf
         /\ ServerCount' = ServerCount /\ ClientCount' = ClientCount
         /\ ServerDir' = ServerDir /\ ClientDir' = ClientDir /\ WrongUrl' = WrongUrl
  <1>1. conf' = conf
    BY DEF HubNext, hubVars, HubServer, HubClient, HubEnded, HubHangs
  <1> QED
    BY <1>1 DEF ServerCount, ClientCount, ServerDir, ClientDir, WrongUrl

\* The actions are those of the server and of the client at the two ends of a
\* connection, and of the connection.
HubStep(c) ==
  \/ OnConnection(c) \/ OnMessage(c) \/ OnDisconnection(c)
  \/ OnConnected(c) \/ ConnectFails(c) \/ OnClientMessage(c) \/ OnClientDisconnection(c)
  \/ HubBreak(c)

LEMMA HubCases ==
  ASSUME [HubNext]_hubVars
  PROVE  (\E c \in Clients : HubStep(c)) \/ UNCHANGED hubVars
  BY DEF HubNext, HubServer, HubClient, HubEnded, HubHangs, HubStep

\* The oldest message of client c that is on its way is the next one of it.
LEMMA HeadIsNext ==
  ASSUME HubType, HubUpInv, NEW c \in Clients, up[c] # <<>>
  PROVE  /\ Len(up[c]) \in 1 .. ClientCount
         /\ Head(up[c]) = ClientCount - Len(up[c])
         /\ Head(up[c]) \in 0 .. ClientCount - 1
         /\ Tail(up[c]) \in Seq(Nat) /\ Len(Tail(up[c])) = Len(up[c]) - 1
         /\ \A j \in 1 .. Len(Tail(up[c])) : Tail(up[c])[j] = up[c][j + 1]
  <1>1. up[c] \in Seq(Nat) /\ ClientCount \in Nat
    BY ConfType DEF HubType
  <1>2. Len(up[c]) \in Nat \ {0} /\ Len(up[c]) <= ClientCount
    BY <1>1, EmptySeq DEF HubUpInv
  <1>3. /\ Tail(up[c]) \in Seq(Nat) /\ Len(Tail(up[c])) = Len(up[c]) - 1
        /\ \A j \in 1 .. Len(Tail(up[c])) : Tail(up[c])[j] = up[c][j + 1]
    BY <1>1, HeadTailProperties
  <1>4. Head(up[c]) = up[c][1]
    BY <1>1
  <1>5. up[c][1] = ClientCount - Len(up[c]) + 1 - 1
    BY <1>2 DEF HubUpInv
  <1> QED
    BY <1>1, <1>2, <1>3, <1>4, <1>5

--------------------------------------------------------------------------------
(* WsHub: types and connections.                                               *)

\* What a connection that ends may still deliver has its type.
LEMMA DownKeepsType ==
  ASSUME HubType, NEW c \in Clients, OnDisconnection(c)
  PROVE  /\ down' \in [Clients -> Seq(Nat)]
         /\ \A d \in Clients : down'[d] \in Prefixes(down[d])
  <1> DEFINE F == [Clients -> UNION {Prefixes(down[d]) : d \in Clients}]
  <1>1. down' \in F /\ \A d \in Clients : down'[d] \in Prefixes(down[d])
    BY DEF OnDisconnection
  <1>2. \A d \in Clients : down'[d] \in Seq(Nat)
    BY <1>1, PrefixParts DEF HubType
  <1>3. down' = [d \in Clients |-> down'[d]]
    BY <1>1
  <1> HIDE DEF F
  <1> QED
    BY <1>1, <1>2, <1>3

\* Every variable keeps its type.
LEMMA HubTypeStep ==
  ASSUME HubType, HubUpInv, [HubNext]_hubVars
  PROVE  HubType'
  <1>0. ServerCount \in Nat /\ ClientCount \in Nat
    BY ConfType DEF HubType
  <1>1. conf' = conf /\ ServerCount' = ServerCount /\ ClientCount' = ClientCount
    BY HubConfStays
  <1>2. CASE UNCHANGED hubVars
    BY <1>1, <1>2 DEF HubType, hubVars
  <1> SUFFICES ASSUME NEW c \in Clients, HubStep(c)
               PROVE  HubType'
    BY <1>2, HubCases
  <1> USE DEF HubType
  <1>3. CASE OnConnection(c)
    <2>1. Numbers(ServerCount) \in Seq(Nat)
      BY <1>0, NumbersParts
    <2> QED
      BY <1>1, <1>3, <2>1 DEF OnConnection
  <1>4. CASE OnMessage(c)
    <2>1. up[c] # <<>>
      BY <1>4 DEF OnMessage
    <2>2. <<c, Head(up[c])>> \in Clients \X (0 .. ClientCount - 1) /\ Tail(up[c]) \in Seq(Nat)
      BY <2>1, HeadIsNext
    <2>3. up' \in [Clients -> Seq(Nat)]
      BY <1>4, <2>2 DEF OnMessage
    <2>4. /\ entries' \in Seq(Clients \X (0 .. ClientCount - 1))
          /\ Len(entries') <= ServerCount
      <3>1. CASE ArrayFull(Len(entries), ServerCount)
        BY <1>4, <3>1 DEF OnMessage
      <3>2. CASE ~ArrayFull(Len(entries), ServerCount)
        <4>1. entries' = Append(entries, <<c, Head(up[c])>>)
          BY <1>4, <3>2 DEF OnMessage
        <4>2. /\ entries' \in Seq(Clients \X (0 .. ClientCount - 1))
              /\ Len(entries') = Len(entries) + 1
          BY <2>2, <4>1, AppendProperties
        <4>3. Len(entries) \in Nat /\ ~(Len(entries) > ServerCount - 1)
          BY <3>2 DEF ArrayFull
        <4> QED
          BY <1>0, <4>2, <4>3
      <3> QED
        BY <3>1, <3>2
    <2> QED
      BY <1>1, <1>4, <2>3, <2>4 DEF OnMessage
  <1>5. CASE OnDisconnection(c)
    <2>1. down' \in [Clients -> Seq(Nat)]
      BY <1>5, DownKeepsType
    <2>2. up' \in [Clients -> Seq(Nat)]
      BY <1>5, EmptySeq DEF OnDisconnection
    <2>3. link' \in [Clients -> {"none", "open", "clientClosed", "serverClosed", "bothClosed", "gone"}]
      BY <1>5 DEF OnDisconnection
    <2> QED
      BY <1>1, <1>5, <2>1, <2>2, <2>3 DEF OnDisconnection
  <1>6. CASE OnConnected(c)
    <2>1. Numbers(ClientCount) \in Seq(Nat)
      BY <1>0, NumbersParts
    <2> QED
      BY <1>1, <1>6, <2>1 DEF OnConnected
  <1>7. CASE ConnectFails(c)
    BY <1>1, <1>7 DEF ConnectFails
  <1>8. CASE OnClientMessage(c)
    <2>1. Tail(down[c]) \in Seq(Nat) /\ Append(got[c], Head(down[c])) \in Seq(Nat)
      BY <1>8 DEF OnClientMessage
    <2> QED
      BY <1>1, <1>8, <2>1 DEF OnClientMessage
  <1>9. CASE OnClientDisconnection(c)
    BY <1>1, <1>9 DEF OnClientDisconnection
  <1>10. CASE HubBreak(c)
    <2>1. PICK s \in Prefixes(down[c]) : down' = [down EXCEPT ![c] = s]
      BY <1>10 DEF HubBreak
    <2>2. s \in Seq(Nat)
      BY PrefixParts
    <2> QED
      BY <1>1, <1>10, <2>1, <2>2 DEF HubBreak
  <1> QED
    BY <1>3, <1>4, <1>5, <1>6, <1>7, <1>8, <1>9, <1>10 DEF HubStep

\* The ends of every connection stay in accord.
LEMMA HubLinkStep ==
  ASSUME HubType, HubLinkInv, LeaverInv, [HubNext]_hubVars
  PROVE  HubLinkInv'
  <1>1. ServerDir' = ServerDir /\ ClientDir' = ClientDir /\ WrongUrl' = WrongUrl
    BY HubConfStays
  <1>0. ServerDir \in {"cts", "stc"} /\ ClientDir \in {"cts", "stc"}
    BY ConfType DEF HubType
  <1>2. CASE UNCHANGED hubVars
    BY <1>1, <1>2 DEF HubLinkInv, hubVars, DirIs, ClientEnded
  <1> SUFFICES ASSUME NEW c \in Clients, HubStep(c)
               PROVE  HubLinkInv'
    BY <1>2, HubCases
  <1> USE DEF HubType, HubLinkInv, DirIs, ClientEnded
  <1>3. CASE OnConnection(c)
    BY ZenonT(30), <1>0, <1>1, <1>3 DEF OnConnection
  <1>4. CASE OnMessage(c)
    BY <1>0, <1>1, <1>4 DEF OnMessage
  <1>5. CASE OnDisconnection(c)
    <2>1. \A d \in Clients : down'[d] \in Prefixes(down[d])
      BY <1>5, DownKeepsType
    <2>2. \A d \in Clients : down[d] = <<>> => down'[d] = <<>>
      BY <2>1, SubSeqEmpty DEF Prefixes
    <2>3. server' # "up"
      BY <1>5 DEF OnDisconnection
    <2> QED
      BY <1>0, <1>1, <1>5, <2>2, <2>3 DEF OnDisconnection
  <1>6. CASE OnConnected(c)
    BY SMTT(30), <1>0, <1>1, <1>6 DEF OnConnected
  <1>7. CASE ConnectFails(c)
    BY <1>0, <1>1, <1>7 DEF ConnectFails
  <1>8. CASE OnClientMessage(c)
    BY <1>0, <1>1, <1>8 DEF OnClientMessage
  <1>9. CASE OnClientDisconnection(c)
    BY <1>0, <1>1, <1>9 DEF OnClientDisconnection
  <1>10. CASE HubBreak(c)
    BY <1>0, <1>1, <1>10 DEF HubBreak
  <1> QED
    BY <1>3, <1>4, <1>5, <1>6, <1>7, <1>8, <1>9, <1>10 DEF HubStep

--------------------------------------------------------------------------------
(* WsHub: the array of the server.                                             *)

\* Only finitely many entries are of one client, or earlier than one.
LEMMA EntriesFinite ==
  ASSUME HubType
  PROVE  /\ \A d \in Clients : IsFiniteSet(EntriesOf(d)) /\ Cardinality(EntriesOf(d)) \in Nat
         /\ \A d \in Clients : EntriesOf(d) = {} <=> Cardinality(EntriesOf(d)) = 0
  <1>1. Len(entries) \in Nat
    BY DEF HubType
  <1>2. IsFiniteSet(1 .. Len(entries))
    BY <1>1, FS_Interval
  <1>3. ASSUME NEW d \in Clients PROVE IsFiniteSet(EntriesOf(d))
    <2>1. EntriesOf(d) \in SUBSET (1 .. Len(entries))
      BY DEF EntriesOf
    <2> QED
      BY <1>2, <2>1, FS_Subset
  <1> QED
    BY <1>3, FS_CardinalityType, FS_EmptySet

\* A new entry counts for its client alone, and stands behind all the others.
LEMMA EntryAdded ==
  ASSUME HubType, HubType', NEW c \in Clients, NEW k,
         entries' = Append(entries, <<c, k>>)
  PROVE  /\ Len(entries') = Len(entries) + 1
         /\ \A d \in Clients \ {c} : EntriesOf(d)' = EntriesOf(d)
         /\ Cardinality(EntriesOf(c)') = Cardinality(EntriesOf(c)) + 1
         /\ EntriesInOrder /\ k = Cardinality(EntriesOf(c)) => EntriesInOrder'
  <1> DEFINE n == Len(entries)
  <1>1. /\ n \in Nat /\ Len(entries') = n + 1
        /\ \A e \in 1 .. n : entries'[e] = entries[e]
        /\ entries'[n + 1] = <<c, k>>
    BY DEF HubType
  <1>2. 1 .. Len(entries') = (1 .. n) \cup {n + 1} /\ n + 1 \notin 1 .. n
    BY <1>1
  <1> HIDE DEF n
  <1>3. \A d : EntriesOf(d)' = EntriesOf(d) \cup {e \in {n + 1} : <<c, k>>[1] = d}
    BY ONLY <1>1, <1>2 DEF EntriesOf, n
  <1>4. <<c, k>>[1] = c /\ <<c, k>>[2] = k
    OBVIOUS
  <1>5. \A d \in Clients \ {c} : EntriesOf(d)' = EntriesOf(d)
    BY ONLY <1>3, <1>4
  <1>6. EntriesOf(c)' = EntriesOf(c) \cup {n + 1} /\ n + 1 \notin EntriesOf(c)
    BY ONLY <1>2, <1>3, <1>4 DEF EntriesOf, n
  <1>7. Cardinality(EntriesOf(c)') = Cardinality(EntriesOf(c)) + 1
    BY <1>6, EntriesFinite, FS_AddElement
  <1>8. ASSUME EntriesInOrder, k = Cardinality(EntriesOf(c))
        PROVE  EntriesInOrder'
    <2> SUFFICES ASSUME NEW e \in 1 .. Len(entries')
                 PROVE  entries'[e][2] = Cardinality(Earlier(e)')
      BY DEF EntriesInOrder
    <2>1. CASE e \in 1 .. n
      <3>1. entries'[e] = entries[e] /\ e # n + 1 /\ ~(n + 1 < e) /\ n \in Nat
        BY ONLY <1>1, <2>1
      <3>2. Earlier(e)' = {d \in EntriesOf(entries[e][1]) \cup {x \in {n + 1} : <<c, k>>[1] = entries[e][1]} : d < e}
        BY ONLY <1>3, <3>1 DEF Earlier
      <3>3. Earlier(e)' = Earlier(e)
        BY ONLY <3>1, <3>2 DEF Earlier
      <3>4. entries[e][2] = Cardinality(Earlier(e))
        BY <1>8, <2>1 DEF EntriesInOrder, n
      <3> QED
        BY ONLY <3>1, <3>3, <3>4
    <2>2. CASE e = n + 1
      <3>1. entries'[e] = <<c, k>>
        BY <1>1, <2>2
      <3>2. Earlier(e)' = {d \in EntriesOf(c) \cup {n + 1} : d < n + 1}
        BY ONLY <1>4, <1>6, <2>2, <3>1 DEF Earlier
      <3>3. \A d \in EntriesOf(c) : d \in 1 .. n
        BY DEF EntriesOf, n
      <3>4. Earlier(e)' = EntriesOf(c)
        BY ONLY <1>1, <3>2, <3>3
      <3> QED
        BY ONLY <1>4, <1>8, <3>1, <3>4
    <2> QED
      BY <1>2, <2>1, <2>2
  <1> QED
    BY <1>1, <1>5, <1>7, <1>8 DEF n

\* The array that stays the same stays in order.
LEMMA EntriesStay ==
  ASSUME entries' = entries
  PROVE  /\ \A d : EntriesOf(d)' = EntriesOf(d)
         /\ EntriesInOrder' <=> EntriesInOrder
  <1>1. \A d : EntriesOf(d)' = EntriesOf(d)
    BY DEF EntriesOf
  <1>2. \A e : Earlier(e)' = Earlier(e)
    BY <1>1 DEF Earlier
  <1> QED
    BY <1>1, <1>2 DEF EntriesInOrder

\* What is said of client d and the server.
HubUpOf(d) ==
  /\ up[d] # <<>> => link[d] = "clientClosed"
  /\ Len(up[d]) <= ClientCount
  /\ \A j \in 1 .. Len(up[d]) : up[d][j] = ClientCount - Len(up[d]) + j - 1
  /\ link[d] \in {"none", "open"} => EntriesOf(d) = {}
  /\ link[d] = "clientClosed" =>
       Cardinality(EntriesOf(d)) + Len(up[d]) = ClientCount \/ Len(entries) = ServerCount

LEMMA HubUpParts == HubUpInv <=> EntriesInOrder /\ \A d \in Clients : HubUpOf(d)
  BY DEF HubUpInv, HubUpOf

\* An end of a connection that moves without its messages leaves all as it was.
LEMMA HubUpFrame ==
  ASSUME HubType, NEW d \in Clients, HubUpOf(d), entries' = entries,
         ServerCount' = ServerCount, ClientCount' = ClientCount,
         up'[d] = up[d] \/ (up'[d] = <<>> /\ link'[d] = "gone"),
         \/ link'[d] = link[d]
         \/ link'[d] \notin {"none", "clientClosed"} /\ (link'[d] = "open" => link[d] = "none"),
         up'[d] # <<>> => link'[d] = link[d]
  PROVE  HubUpOf(d)'
  <1>1. EntriesOf(d)' = EntriesOf(d)
    BY EntriesStay
  <1>2. ClientCount \in Nat /\ Len(<<>>) = 0 /\ 1 .. 0 = {}
    BY ConfType DEF HubType
  <1>3. CASE up'[d] = <<>>
    BY <1>1, <1>2, <1>3 DEF HubUpOf
  <1>4. CASE up'[d] # <<>>
    <2>1. up'[d] = up[d] /\ link'[d] = link[d]
      BY <1>4
    <2> QED
      BY <1>1, <2>1 DEF HubUpOf
  <1> QED
    BY <1>3, <1>4

\* A message that the server handles is the next of its client, and goes into the
\* array when there is room.
LEMMA OnMessageKeeps ==
  ASSUME HubType, HubType', HubUpInv, NEW c \in Clients, OnMessage(c),
         ServerCount' = ServerCount, ClientCount' = ClientCount
  PROVE  EntriesInOrder' /\ \A d \in Clients : HubUpOf(d)'
  <1>0. ServerCount \in Nat /\ ClientCount \in Nat
    BY ConfType DEF HubType
  <1>1. /\ up[c] # <<>> /\ link[c] = "clientClosed"
        /\ \A d \in Clients : HubUpOf(d)
    BY HubUpParts DEF OnMessage, HubUpInv
  <1>2. /\ link' = link /\ up'[c] = Tail(up[c])
        /\ \A d \in Clients \ {c} : up'[d] = up[d]
    BY DEF OnMessage, HubType
  <1>3. /\ Len(up[c]) \in 1 .. ClientCount
        /\ Head(up[c]) = ClientCount - Len(up[c])
        /\ Len(Tail(up[c])) = Len(up[c]) - 1
        /\ \A j \in 1 .. Len(Tail(up[c])) : Tail(up[c])[j] = up[c][j + 1]
    BY <1>1, HeadIsNext
  <1>a. \A a, b, j \in Int : a - b + (j + 1) - 1 = a - (b - 1) + j - 1
    OBVIOUS
  <1>b. \A n \in 1 .. ClientCount : n - 1 \in Nat /\ n - 1 <= ClientCount /\ n \in Int
    BY <1>0
  <1>c. Len(up'[c]) = Len(up[c]) - 1
    BY ONLY <1>2, <1>3
  <1>d. Len(up'[c]) \in Nat /\ Len(up'[c]) <= ClientCount
    BY ONLY <1>3, <1>b, <1>c
  <1>e. ASSUME NEW j \in 1 .. Len(up'[c])
        PROVE  up'[c][j] = ClientCount - Len(up'[c]) + j - 1
    <2>1. \A n \in Nat : \A o \in 1 .. (n - 1) : o \in Int /\ o + 1 \in 1 .. n
      OBVIOUS
    <2>2. j \in Int /\ j + 1 \in 1 .. Len(up[c])
      BY <1>3, <1>c, <2>1
    <2>3. up[c][j + 1] = ClientCount - Len(up[c]) + (j + 1) - 1
      BY <1>1, <2>2 DEF HubUpOf
    <2>4. up'[c][j] = up[c][j + 1]
      BY <1>2, <1>3
    <2>5. ClientCount \in Int /\ Len(up[c]) \in Int
      BY <1>0, <1>3
    <2>6. ClientCount - Len(up[c]) + (j + 1) - 1 = ClientCount - (Len(up[c]) - 1) + j - 1
      BY ONLY <1>a, <2>2, <2>5
    <2> QED
      BY ONLY <1>c, <2>3, <2>4, <2>6, Zenon
  <1>4. /\ Len(up'[c]) \in Nat /\ Len(up'[c]) = Len(up[c]) - 1 /\ Len(up'[c]) <= ClientCount
        /\ \A j \in 1 .. Len(up'[c]) : up'[c][j] = ClientCount - Len(up'[c]) + j - 1
    BY ONLY <1>c, <1>d, <1>e
  <1>5. CASE ArrayFull(Len(entries), ServerCount)
    <2>1. entries' = entries
      BY <1>5 DEF OnMessage
    <2>2. Len(entries) = ServerCount
      BY <1>0, <1>5 DEF ArrayFull, HubType
    <2>3. \A d : EntriesOf(d)' = EntriesOf(d)
      BY <2>1, EntriesStay
    <2>4. HubUpOf(c)'
      BY <1>1, <1>2, <1>4, <2>1, <2>2 DEF HubUpOf
    <2>5. \A d \in Clients \ {c} : HubUpOf(d)'
      BY ONLY <1>1, <1>2, <2>1, <2>3, ServerCount' = ServerCount, ClientCount' = ClientCount
         DEF HubUpOf
    <2> QED
      BY <2>1, <2>4, <2>5, EntriesStay DEF HubUpInv
  <1>6. CASE ~ArrayFull(Len(entries), ServerCount)
    <2>1. entries' = Append(entries, <<c, Head(up[c])>>)
      BY <1>6 DEF OnMessage
    <2>2. Len(entries) \in Nat /\ Len(entries) # ServerCount
      BY <1>0, <1>6 DEF ArrayFull, HubType
    <2>3. Cardinality(EntriesOf(c)) \in Nat
      BY EntriesFinite
    <2>4. Cardinality(EntriesOf(c)) + Len(up[c]) = ClientCount
      BY <1>1, <2>2 DEF HubUpOf
    <2>5. Head(up[c]) = Cardinality(EntriesOf(c))
      BY <1>0, <1>3, <2>3, <2>4
    <2>6. /\ \A d \in Clients \ {c} : EntriesOf(d)' = EntriesOf(d)
          /\ Cardinality(EntriesOf(c)') = Cardinality(EntriesOf(c)) + 1
      BY <2>1, EntryAdded
    <2>7. EntriesInOrder'
      BY <2>1, <2>5, EntryAdded DEF HubUpInv
    <2>8. Cardinality(EntriesOf(c))' + Len(up'[c]) = ClientCount
      BY <1>3, <1>4, <2>3, <2>4, <2>6
    <2>9. HubUpOf(c)'
      BY <1>1, <1>2, <1>4, <2>8 DEF HubUpOf
    <2>10. ASSUME NEW d \in Clients \ {c}
           PROVE  HubUpOf(d)'
      <3>1. HubUpOf(d) /\ up'[d] = up[d] /\ EntriesOf(d)' = EntriesOf(d)
        BY <1>1, <1>2, <2>6
      <3>2. link[d] = "clientClosed" => Cardinality(EntriesOf(d)) + Len(up[d]) = ClientCount
        BY <2>2, <3>1 DEF HubUpOf
      <3> QED
        BY <1>2, <3>1, <3>2 DEF HubUpOf
    <2> QED
      BY <2>7, <2>9, <2>10
  <1> QED
    BY <1>5, <1>6

\* A step keeps the array and the messages on their way to it in accord.
LEMMA HubUpStep ==
  ASSUME HubType, HubLinkInv, HubUpInv, [HubNext]_hubVars
  PROVE  HubUpInv'
  <1>0. ClientCount \in Nat
    BY ConfType DEF HubType
  <1>1. ServerCount' = ServerCount /\ ClientCount' = ClientCount
    BY HubConfStays
  <1>2. EntriesInOrder /\ \A d \in Clients : HubUpOf(d)
    BY HubUpParts
  <1>3. \A d \in Clients : up[d] # <<>> => link[d] = "clientClosed"
    BY <1>2 DEF HubUpOf
  <1> SUFFICES EntriesInOrder' /\ \A d \in Clients : HubUpOf(d)'
    BY DEF HubUpInv, HubUpOf
  <1>4. CASE UNCHANGED hubVars
    <2>1. entries' = entries /\ up' = up /\ link' = link
      BY <1>4 DEF hubVars
    <2> QED
      BY <1>1, <1>2, <2>1, EntriesStay, HubUpFrame
  <1>5. ASSUME NEW c \in Clients, OnMessage(c)
        PROVE  EntriesInOrder' /\ \A d \in Clients : HubUpOf(d)'
    BY <1>1, <1>5, HubTypeStep, OnMessageKeeps
  <1>6. ASSUME NEW c \in Clients, HubStep(c), ~OnMessage(c), NEW d \in Clients
        PROVE  entries' = entries /\ HubUpOf(d)'
    <2>1. entries' = entries
      BY <1>6 DEF HubStep, OnConnection, OnDisconnection, OnConnected, ConnectFails,
                  OnClientMessage, OnClientDisconnection, HubBreak
    <2>2. HubUpOf(d)
      BY <1>2
    <2>3. CASE OnConnection(c)
      <3>1. up' = up /\ (link'[d] = link[d] \/ (link[d] = "none" /\ link'[d] \in {"open", "serverClosed"}))
        BY <2>3 DEF OnConnection, HubType
      <3>2. up'[d] # <<>> => link'[d] = link[d]
        BY <1>3, <3>1
      <3> QED
        BY <1>1, <2>1, <2>2, <3>1, <3>2, HubUpFrame
    <2>4. CASE OnDisconnection(c)
      <3>1. up'[d] = <<>> /\ link'[d] = IF link[d] = "none" THEN "none" ELSE "gone"
        BY <2>4 DEF OnDisconnection
      <3>2. link[d] = "none" => up[d] = <<>>
        BY <1>3
      <3> QED
        BY <1>1, <2>1, <2>2, <3>1, <3>2, HubUpFrame
    <2>5. CASE OnConnected(c)
      <3>1. CASE d = c /\ ClientDir = "cts" /\ link[c] = "open"
        <4>1. up'[d] = Numbers(ClientCount) /\ link'[d] = "clientClosed"
          BY <2>5, <3>1 DEF OnConnected, HubType
        <4>2. /\ Len(up'[d]) = ClientCount
              /\ \A j \in 1 .. ClientCount : up'[d][j] = j - 1
          BY <1>0, <4>1, NumbersParts
        <4>3. EntriesOf(d)' = {} /\ Cardinality({}) = 0
          BY <2>1, <2>2, <3>1, EntriesStay, FS_EmptySet DEF HubUpOf
        <4>4. \A j \in 1 .. Len(up'[d]) : up'[d][j] = ClientCount - Len(up'[d]) + j - 1
          BY <1>0, <4>2
        <4>5. Cardinality(EntriesOf(d))' + Len(up'[d]) = ClientCount
          BY <1>0, <4>2, <4>3
        <4>6. Len(up'[d]) <= ClientCount
          BY <1>0, <4>2
        <4>7. link'[d] = "clientClosed" /\ "clientClosed" \notin {"none", "open"}
          BY <4>1
        <4> QED
          BY ONLY <1>1, <2>1, <4>4, <4>5, <4>6, <4>7 DEF HubUpOf
      <3>2. CASE ~(d = c /\ ClientDir = "cts" /\ link[c] = "open")
        <4>1. up'[d] = up[d] /\ link'[d] = link[d]
          BY <2>5, <3>2 DEF OnConnected, HubType
        <4> QED
          BY <1>1, <2>1, <2>2, <4>1, HubUpFrame
      <3> QED
        BY <3>1, <3>2
    <2>6. CASE ConnectFails(c)
      <3>1. up' = up /\ link' = link
        BY <2>6 DEF ConnectFails
      <3> QED
        BY <1>1, <2>1, <2>2, <3>1, HubUpFrame
    <2>7. CASE OnClientMessage(c)
      <3>1. up' = up /\ link' = link
        BY <2>7 DEF OnClientMessage
      <3> QED
        BY <1>1, <2>1, <2>2, <3>1, HubUpFrame
    <2>8. CASE OnClientDisconnection(c)
      <3>1. up' = up /\ (link'[d] = link[d] \/ (link[d] = "serverClosed" /\ link'[d] = "bothClosed"))
        BY <2>8 DEF OnClientDisconnection, HubType
      <3>2. up'[d] # <<>> => link'[d] = link[d]
        BY <1>3, <3>1
      <3> QED
        BY <1>1, <2>1, <2>2, <3>1, <3>2, HubUpFrame
    <2>9. CASE HubBreak(c)
      <3>1. \/ up'[d] = up[d] /\ link'[d] = link[d]
            \/ up'[d] = <<>> /\ link'[d] = "gone"
        BY <2>9 DEF HubBreak, HubType
      <3> QED
        BY <1>1, <2>1, <2>2, <3>1, HubUpFrame
    <2> QED
      BY <1>6, <2>1, <2>3, <2>4, <2>5, <2>6, <2>7, <2>8, <2>9 DEF HubStep
  <1> QED
    BY <1>2, <1>4, <1>5, <1>6, HubCases, EntriesStay

--------------------------------------------------------------------------------
(* WsHub: what the clients have of the server's messages.                      *)

\* In direction "stc": what is said of client d and the server.
HubDownOf(d) ==
  /\ \A j \in 1 .. Len(got[d]) : got[d][j] = j - 1
  /\ Len(got[d]) <= Least(ServerCount, ClientCount)
  /\ Len(got[d]) < ClientCount =>
       /\ \A j \in 1 .. Len(down[d]) : down[d][j] = Len(got[d]) + j - 1
       /\ Len(got[d]) + Len(down[d]) <= ServerCount
       /\ link[d] = "serverClosed" /\ d \notin WrongUrl
            => Len(got[d]) + Len(down[d]) = ServerCount
  /\ link[d] = "bothClosed" /\ d \notin WrongUrl => Len(got[d]) = Least(ServerCount, ClientCount)

LEMMA HubDownParts == HubDownInv <=> (DirIs("stc") => \A d \in Clients : HubDownOf(d))
  BY DEF HubDownInv, HubDownOf

\* A connection that breaks keeps the first of the messages on their way.
LEMMA HubDownFrame ==
  ASSUME HubType, NEW d \in Clients, HubDownOf(d),
         ServerCount' = ServerCount, ClientCount' = ClientCount, WrongUrl' = WrongUrl,
         got'[d] = got[d],
         \/ down'[d] = down[d]
         \/ down'[d] \in Prefixes(down[d]) /\ link'[d] # "serverClosed",
         link'[d] \in {"serverClosed", "bothClosed"} => link'[d] = link[d]
  PROVE  HubDownOf(d)'
  <1> DEFINE n == Len(got[d])  m == Len(down[d])  k == Len(down'[d])
  <1>1. n \in Nat /\ m \in Nat /\ ServerCount \in Nat
    BY ConfType DEF HubType
  <1>2. CASE down'[d] = down[d]
    BY <1>2 DEF HubDownOf
  <1>3. CASE down'[d] \in Prefixes(down[d]) /\ link'[d] # "serverClosed"
    <2>1. /\ k \in Nat /\ k <= m
          /\ \A j \in 1 .. k : down'[d][j] = down[d][j]
      BY <1>3, PrefixParts DEF HubType
    <2>2. \A j \in 1 .. k : j \in 1 .. m
      BY <1>1, <2>1
    <2>3. n < ClientCount => n + m <= ServerCount /\ \A j \in 1 .. m : down[d][j] = n + j - 1
      BY DEF HubDownOf
    <2>a. \A x, y, z, w \in Nat : y <= z /\ x + z <= w => x + y <= w
      OBVIOUS
    <2>4. n < ClientCount => n + k <= ServerCount
      BY ONLY <1>1, <2>1, <2>3, <2>a, Zenon
    <2>5. n < ClientCount => \A j \in 1 .. k : down'[d][j] = n + j - 1
      BY ONLY <2>1, <2>2, <2>3
    <2> QED
      BY <1>3, <2>4, <2>5 DEF HubDownOf
  <1> QED
    BY <1>2, <1>3

\* Client c has no room left, or takes the next of the server's messages.
LEMMA OnClientMessageKeeps ==
  ASSUME HubType, NEW c \in Clients, HubDownOf(c), OnClientMessage(c), ClientDir = "stc",
         ServerCount' = ServerCount, ClientCount' = ClientCount, WrongUrl' = WrongUrl,
         link[c] # "bothClosed"
  PROVE  HubDownOf(c)'
  <1>0. ServerCount \in Nat /\ ClientCount \in Nat
    BY ConfType DEF HubType
  <1>1. /\ down[c] \in Seq(Nat) /\ down[c] # <<>> /\ got[c] \in Seq(Nat) /\ link' = link
        /\ down'[c] = Tail(down[c])
        /\ Len(got[c]) \in Nat
    BY DEF OnClientMessage, HubType
  <1>2. /\ Head(down[c]) = down[c][1] /\ Head(down[c]) \in Nat
        /\ Len(down[c]) \in Nat \ {0}
        /\ Len(down'[c]) = Len(down[c]) - 1
        /\ \A j \in 1 .. Len(down'[c]) : down'[c][j] = down[c][j + 1]
    BY <1>1, EmptySeq, HeadTailProperties
  <1>3. CASE ArrayFull(Len(got[c]), ClientCount)
    <2>1. got' = got /\ ~(Len(got[c]) < ClientCount)
      BY <1>0, <1>1, <1>3 DEF OnClientMessage, ArrayFull
    <2> QED
      BY <1>1, <2>1 DEF HubDownOf
  <1>4. CASE ~ArrayFull(Len(got[c]), ClientCount)
    <2> DEFINE n == Len(got[c])  m == Len(down[c])
    <2>1. got'[c] = Append(got[c], Head(down[c])) /\ n < ClientCount
      BY <1>0, <1>1, <1>4 DEF OnClientMessage, ArrayFull, HubType
    <2>2. /\ Len(got'[c]) = n + 1
          /\ \A j \in 1 .. n : got'[c][j] = got[c][j]
          /\ got'[c][n + 1] = down[c][1]
      BY <1>1, <1>2, <2>1, AppendProperties
    <2>3. /\ \A j \in 1 .. m : down[c][j] = n + j - 1
          /\ n + m <= ServerCount
          /\ link[c] = "serverClosed" /\ c \notin WrongUrl => n + m = ServerCount
          /\ \A j \in 1 .. n : got[c][j] = j - 1
      BY <2>1 DEF HubDownOf
    <2>4. n \in Nat /\ m \in Nat \ {0} /\ Len(down'[c]) = m - 1
      BY <1>1, <1>2
    <2> HIDE DEF n, m
    <2>5. down[c][1] = n
      <3>1. 1 \in 1 .. m /\ n + 1 - 1 = n
        BY ONLY <2>4
      <3> QED
        BY ONLY <2>3, <3>1
    <2>6. \A j \in 1 .. (n + 1) : got'[c][j] = j - 1
      <3>1. n + 1 - 1 = n /\ \A j \in 1 .. (n + 1) : j \in 1 .. n \/ j = n + 1
        BY ONLY <2>4
      <3>2. got'[c][n + 1] = n + 1 - 1
        BY ONLY <2>2, <2>5, <3>1
      <3>3. \A j \in 1 .. n : got'[c][j] = j - 1
        BY ONLY <2>2, <2>3, Zenon
      <3>4. ASSUME NEW j \in 1 .. (n + 1) PROVE got'[c][j] = j - 1
        <4>1. j \in 1 .. n \/ j = n + 1
          BY ONLY <3>1, Zenon
        <4>2. CASE j \in 1 .. n
          BY ONLY <3>3, <4>2, Zenon
        <4>3. CASE j = n + 1
          BY ONLY <2>4, <3>2, <4>3
        <4> QED
          BY ONLY <4>1, <4>2, <4>3, Zenon
      <3> QED
        BY ONLY <3>4, Zenon
    <2>7. \A j \in 1 .. (m - 1) : down'[c][j] = (n + 1) + j - 1
      <3>1. \A j \in 1 .. (m - 1) : j + 1 \in 1 .. m /\ n + (j + 1) - 1 = (n + 1) + j - 1
        BY ONLY <2>4
      <3> QED
        BY ONLY <1>2, <2>3, <2>4, <3>1
    <2>8. n + 1 <= Least(ServerCount, ClientCount) /\ (n + 1) + (m - 1) = n + m
      BY ONLY <1>0, <2>1, <2>3, <2>4 DEF Least
    <2>9. (n + 1) + Len(down'[c]) = n + m
      BY ONLY <2>4, <2>8
    <2>10. /\ \A j \in 1 .. Len(got'[c]) : got'[c][j] = j - 1
           /\ Len(got'[c]) <= Least(ServerCount, ClientCount)
      BY ONLY <2>2, <2>6, <2>8
    <2>11. /\ \A j \in 1 .. Len(down'[c]) : down'[c][j] = Len(got'[c]) + j - 1
           /\ Len(got'[c]) + Len(down'[c]) <= ServerCount
           /\ link'[c] = "serverClosed" /\ c \notin WrongUrl
                => Len(got'[c]) + Len(down'[c]) = ServerCount
      BY ONLY <1>1, <2>2, <2>3, <2>4, <2>7, <2>9
    <2> QED
      BY <1>1, <2>10, <2>11 DEF HubDownOf, Least
  <1> QED
    BY <1>3, <1>4

\* A step keeps what the clients have, and what is on its way, in accord.
LEMMA HubDownStep ==
  ASSUME HubType, HubLinkInv, HubDownInv, [HubNext]_hubVars
  PROVE  HubDownInv'
  <1>0. ServerCount \in Nat /\ ClientCount \in Nat
    BY ConfType DEF HubType
  <1>1. /\ ServerCount' = ServerCount /\ ClientCount' = ClientCount /\ WrongUrl' = WrongUrl
        /\ ServerDir' = ServerDir /\ ClientDir' = ClientDir
    BY HubConfStays
  <1>2. DirIs("stc")' <=> DirIs("stc")
    BY <1>1 DEF DirIs
  <1> SUFFICES ASSUME DirIs("stc"), NEW d \in Clients
               PROVE  HubDownOf(d)'
    BY <1>2 DEF HubDownInv, HubDownOf
  <1>3. HubDownOf(d) /\ ServerDir = "stc" /\ ClientDir = "stc"
    BY HubDownParts DEF DirIs
  <1>4. CASE UNCHANGED hubVars
    <2>1. down' = down /\ link' = link /\ got' = got
      BY <1>4 DEF hubVars
    <2> QED
      BY <1>1, <1>3, <2>1, HubDownFrame
  <1>5. ASSUME NEW c \in Clients, HubStep(c)
        PROVE  HubDownOf(d)'
    <2>1. CASE OnConnection(c)
      <3>1. got' = got
        BY <2>1 DEF OnConnection
      <3>2. CASE d = c
        <4>1. /\ link[d] = "none" /\ got[d] = <<>> /\ down[d] = <<>>
              /\ link'[d] = "serverClosed"
              /\ down'[d] = IF d \in WrongUrl THEN <<>> ELSE Numbers(ServerCount)
          BY <1>3, <2>1, <3>2 DEF OnConnection, HubLinkInv, HubType
        <4>2. got'[d] = <<>> /\ Len(<<>>) = 0 /\ 1 .. 0 = {}
          BY <3>1, <4>1
        <4>3. CASE d \in WrongUrl
          <5>1. Len(got'[d]) = 0 /\ Len(down'[d]) = 0 /\ 0 <= ServerCount
                /\ 0 + 0 = 0 /\ 0 <= Least(ServerCount, ClientCount)
            BY <1>0, <4>1, <4>2, <4>3 DEF Least
          <5> QED
            BY ONLY <1>1, <4>1, <4>2, <4>3, <5>1 DEF HubDownOf, Least
        <4>4. CASE d \notin WrongUrl
          <5>1. /\ Len(down'[d]) = ServerCount
                /\ \A j \in 1 .. ServerCount : down'[d][j] = j - 1
            BY <1>0, <4>1, <4>4, NumbersParts
          <5>2. /\ \A j \in 1 .. ServerCount : j - 1 = 0 + j - 1
                /\ 0 + ServerCount = ServerCount /\ ServerCount <= ServerCount
                /\ 0 <= Least(ServerCount, ClientCount)
            BY <1>0 DEF Least
          <5>3. Len(got'[d]) = 0
            BY <4>2
          <5>4. /\ \A j \in 1 .. Len(down'[d]) : down'[d][j] = Len(got'[d]) + j - 1
                /\ Len(got'[d]) + Len(down'[d]) = ServerCount
            BY ONLY <5>1, <5>2, <5>3
          <5> QED
            BY ONLY <1>1, <4>1, <4>2, <5>2, <5>3, <5>4 DEF HubDownOf, Least
        <4> QED
          BY <4>3, <4>4
      <3>3. CASE d # c
        <4>1. down'[d] = down[d] /\ link'[d] = link[d]
          BY <2>1, <3>3 DEF OnConnection, HubType
        <4> QED
          BY <1>1, <1>3, <3>1, <4>1, HubDownFrame
      <3> QED
        BY <3>2, <3>3
    <2>2. CASE OnMessage(c)
      <3>1. down' = down /\ link' = link /\ got' = got
        BY <2>2 DEF OnMessage
      <3> QED
        BY <1>1, <1>3, <3>1, HubDownFrame
    <2>3. CASE OnDisconnection(c)
      <3>1. down'[d] \in Prefixes(down[d])
        BY <2>3, DownKeepsType
      <3>2. got' = got /\ link'[d] \in {"none", "gone"}
        BY <2>3 DEF OnDisconnection
      <3> QED
        BY <1>1, <1>3, <3>1, <3>2, HubDownFrame
    <2>4. CASE OnConnected(c)
      <3>1. down' = down /\ link' = link /\ got' = got
        BY <1>3, <2>4 DEF OnConnected
      <3> QED
        BY <1>1, <1>3, <3>1, HubDownFrame
    <2>5. CASE ConnectFails(c)
      <3>1. down' = down /\ link' = link /\ got' = got
        BY <2>5 DEF ConnectFails
      <3> QED
        BY <1>1, <1>3, <3>1, HubDownFrame
    <2>6. CASE OnClientMessage(c)
      <3>1. CASE d = c
        <4>1. link[d] # "bothClosed"
          BY <2>6, <3>1 DEF OnClientMessage, HubLinkInv, ClientEnded
        <4> QED
          BY <1>1, <1>3, <2>6, <3>1, <4>1, OnClientMessageKeeps
      <3>2. CASE d # c
        <4>1. down'[d] = down[d] /\ link' = link /\ got'[d] = got[d]
          BY <2>6, <3>2 DEF OnClientMessage, HubType
        <4> QED
          BY <1>1, <1>3, <4>1, HubDownFrame
      <3> QED
        BY <3>1, <3>2
    <2>7. CASE OnClientDisconnection(c)
      <3>1. down' = down /\ got' = got
        BY <2>7 DEF OnClientDisconnection
      <3>2. CASE d = c /\ link[c] = "serverClosed"
        <4>1. link'[d] = "bothClosed" /\ down[d] = <<>> /\ Len(<<>>) = 0 /\ 1 .. 0 = {}
          BY <2>7, <3>2 DEF OnClientDisconnection, HubType
        <4>2. Len(got[d]) \in Nat
          BY DEF HubType
        <4>3. Len(down[d]) = 0 /\ Len(got[d]) + 0 = Len(got[d])
          BY <4>1, <4>2
        <4>4. d \notin WrongUrl /\ Len(got[d]) < ClientCount => Len(got[d]) = ServerCount
          BY <1>3, <3>2, <4>3 DEF HubDownOf
        <4>5. d \notin WrongUrl => Len(got[d]) = Least(ServerCount, ClientCount)
          BY <1>0, <1>3, <4>2, <4>4 DEF HubDownOf, Least
        <4> QED
          BY <1>1, <1>3, <3>1, <4>1, <4>5 DEF HubDownOf, Least
      <3>3. CASE ~(d = c /\ link[c] = "serverClosed")
        <4>1. link'[d] = link[d]
          BY <2>7, <3>3 DEF OnClientDisconnection, HubType
        <4> QED
          BY <1>1, <1>3, <3>1, <4>1, HubDownFrame
      <3> QED
        BY <3>2, <3>3
    <2>8. CASE HubBreak(c)
      <3>1. CASE d = c
        <4>1. down'[d] \in Prefixes(down[d]) /\ link'[d] = "gone" /\ got' = got
          BY <2>8, <3>1 DEF HubBreak, HubType
        <4> QED
          BY <1>1, <1>3, <4>1, HubDownFrame
      <3>2. CASE d # c
        <4>1. down'[d] = down[d] /\ link'[d] = link[d] /\ got' = got
          BY <2>8, <3>2 DEF HubBreak, HubType
        <4> QED
          BY <1>1, <1>3, <4>1, HubDownFrame
      <3> QED
        BY <3>1, <3>2
    <2> QED
      BY <1>5, <2>1, <2>2, <2>3, <2>4, <2>5, <2>6, <2>7, <2>8 DEF HubStep
  <1> QED
    BY <1>4, <1>5, HubCases

--------------------------------------------------------------------------------
(* WsHub: the end of the server.                                               *)

\* The client whose disconnection ends the server has been served in full.
LEMMA LeaverServed ==
  ASSUME HubType, HubLinkInv, HubUpInv, NEW c \in Clients,
         OnDisconnection(c), c \notin WrongUrl \cup broken
  PROVE  /\ ServerDir = "cts" =>
              Cardinality(EntriesOf(c)) = ClientCount \/ Len(entries) = ServerCount
         /\ ServerDir = "stc" => ClientEnded(c)
  <1>0. ClientCount \in Nat
    BY ConfType DEF HubType
  <1>1. Disconnected(c) /\ c \notin WrongUrl /\ c \notin broken
    BY DEF OnDisconnection
  <1>2. CASE link[c] = "clientClosed" /\ up[c] = <<>>
    <2>1. ServerDir = "cts"
      BY <1>2 DEF HubLinkInv, DirIs
    <2>2. Len(up[c]) = 0 /\ Cardinality(EntriesOf(c)) \in Nat
      BY <1>2, EntriesFinite
    <2>3. Cardinality(EntriesOf(c)) + Len(up[c]) = ClientCount \/ Len(entries) = ServerCount
      BY <1>2 DEF HubUpInv
    <2> QED
      BY <2>1, <2>2, <2>3
  <1>3. CASE link[c] = "bothClosed"
    BY <1>1, <1>3 DEF HubLinkInv
  <1> QED
    BY <1>1, <1>2, <1>3 DEF Disconnected

\* The last step of the server names its leaver; all other steps keep it.
LEMMA LeaverKept ==
  ASSUME HubType, LeaverInv, NEW c \in Clients, HubStep(c), ~OnDisconnection(c)
  PROVE  /\ leaver' = leaver /\ server' = server
         /\ broken \subseteq broken'
         /\ server # "up" =>
              /\ entries' = entries
              /\ \A d \in Clients : link'[d] \in {"none", "gone"}
         /\ \A d \in Clients : ClientEnded(d) => ClientEnded(d)'
  <1> USE DEF HubType
  <1>1. server # "up" => \A d \in Clients : link[d] \in {"none", "gone"}
    BY DEF LeaverInv
  <1>2. CASE OnConnection(c)
    BY <1>1, <1>2 DEF OnConnection, ClientEnded
  <1>3. CASE OnMessage(c)
    BY <1>1, <1>3 DEF OnMessage, ClientEnded
  <1>4. CASE OnConnected(c)
    <2>1. /\ leaver' = leaver /\ server' = server /\ broken' = broken /\ entries' = entries
          /\ cpc[c] = "dial" /\ cpc' = [cpc EXCEPT ![c] = "run"]
          /\ link' = link \/ link[c] = "open"
      BY <1>4 DEF OnConnected
    <2> QED
      BY <1>1, <2>1 DEF ClientEnded
  <1>5. CASE ConnectFails(c)
    <2>1. /\ leaver' = leaver /\ server' = server /\ broken' = broken /\ entries' = entries
          /\ cpc[c] = "dial" /\ cpc' = [cpc EXCEPT ![c] = "exited"] /\ link' = link
      BY <1>5 DEF ConnectFails
    <2> QED
      BY <1>1, <2>1 DEF ClientEnded
  <1>6. CASE OnClientMessage(c)
    BY <1>1, <1>6 DEF OnClientMessage, ClientEnded
  <1>7. CASE OnClientDisconnection(c)
    <2>1. /\ leaver' = leaver /\ server' = server /\ broken' = broken /\ entries' = entries
          /\ cpc[c] = "run"
          /\ \A d \in Clients \ {c} : cpc'[d] = cpc[d]
          /\ link[c] = "gone" => link' = link
          /\ link[c] \in {"serverClosed", "gone"}
      BY <1>7 DEF OnClientDisconnection
    <2> QED
      BY <1>1, <2>1 DEF ClientEnded
  <1>8. CASE HubBreak(c)
    BY <1>1, <1>8 DEF HubBreak, ClientEnded
  <1> QED
    BY <1>2, <1>3, <1>4, <1>5, <1>6, <1>7, <1>8 DEF HubStep

\* An array without entries has none of any client.
LEMMA NoEntries ==
  ASSUME HubType, entries = <<>>
  PROVE  Len(entries) = 0 /\ \A c \in Clients : Cardinality(EntriesOf(c)) = 0
  <1>1. Len(entries) = 0 /\ 1 .. 0 = {}
    OBVIOUS
  <1>2. \A c \in Clients : EntriesOf(c) = {}
    BY <1>1 DEF EntriesOf
  <1> QED
    BY <1>1, <1>2, FS_EmptySet

\* A step keeps what is said of a server that has ended.
LEMMA LeaverStep ==
  ASSUME HubType, HubLinkInv, HubUpInv, LeaverInv, LeaverReported, UndefinedOnlyWhenRefused,
         [HubNext]_hubVars
  PROVE  LeaverInv' /\ LeaverReported' /\ UndefinedOnlyWhenRefused'
  <1>0. /\ ServerCount \in Nat /\ ClientCount \in Nat
        /\ ServerDir \in {"cts", "stc"} /\ ClientDir \in {"cts", "stc"}
    BY ConfType DEF HubType
  <1>1. /\ ServerCount' = ServerCount /\ ClientCount' = ClientCount /\ WrongUrl' = WrongUrl
        /\ ServerDir' = ServerDir /\ ClientDir' = ClientDir
    BY HubConfStays
  <1>2. \A dir \in {"cts", "stc"} : DirIs(dir)' <=> DirIs(dir)
    BY <1>1 DEF DirIs
  <1>3. ASSUME leaver' = leaver, server' = server, broken \subseteq broken',
               server # "up" => /\ entries' = entries
                                /\ \A d \in Clients : link'[d] \in {"none", "gone"},
               \A d \in Clients : ClientEnded(d) => ClientEnded(d)'
        PROVE  LeaverInv' /\ LeaverReported' /\ UndefinedOnlyWhenRefused'
    <2>1. leaver \subseteq Clients
      BY DEF HubType
    <2>2. LeaverInv'
      <3>1. server' = "up" <=> leaver' = {}
        BY <1>3 DEF LeaverInv
      <3>2. server' # "up" => \A d \in Clients : link'[d] \in {"none", "gone"}
        BY <1>3
      <3>3. ASSUME DirIs("stc"), NEW d \in leaver', d \notin WrongUrl \cup broken'
            PROVE  ClientEnded(d)'
        <4>1. d \in leaver \ (WrongUrl \cup broken) /\ d \in Clients
          BY <1>3, <2>1, <3>3
        <4>2. ClientEnded(d)
          BY <3>3, <4>1 DEF LeaverInv
        <4> QED
          BY <1>3, <4>1, <4>2
      <3> QED
        BY <1>1, <1>2, <3>1, <3>2, <3>3 DEF LeaverInv
    <2>3. LeaverReported'
      <3> SUFFICES ASSUME NEW d \in leaver, DirIs("cts"), d \notin WrongUrl \cup broken'
                   PROVE  Cardinality(EntriesOf(d))' = ClientCount \/ Len(entries') = ServerCount
        BY <1>1, <1>2, <1>3 DEF LeaverReported
      <3>1. entries' = entries
        BY <1>3 DEF LeaverInv
      <3>2. EntriesOf(d)' = EntriesOf(d)
        BY <3>1, EntriesStay
      <3>3. d \notin WrongUrl \cup broken
        BY <1>3
      <3> QED
        BY <3>1, <3>2, <3>3 DEF LeaverReported
    <2>4. UndefinedOnlyWhenRefused'
      BY <1>1, <1>3 DEF UndefinedOnlyWhenRefused
    <2> QED
      BY <2>2, <2>3, <2>4
  <1>4. CASE UNCHANGED hubVars
    <2>1. /\ leaver' = leaver /\ server' = server /\ broken' = broken /\ entries' = entries
          /\ link' = link /\ cpc' = cpc
      BY <1>4 DEF hubVars
    <2>2. \A d \in Clients : ClientEnded(d) => ClientEnded(d)'
      BY <2>1 DEF ClientEnded
    <2>3. server # "up" => \A d \in Clients : link'[d] \in {"none", "gone"}
      BY <2>1 DEF LeaverInv
    <2> QED
      BY <1>3, <2>1, <2>2, <2>3
  <1>5. ASSUME NEW c \in Clients, HubStep(c), ~OnDisconnection(c)
        PROVE  LeaverInv' /\ LeaverReported' /\ UndefinedOnlyWhenRefused'
    BY <1>3, <1>5, LeaverKept
  <1>6. ASSUME NEW c \in Clients, OnDisconnection(c)
        PROVE  LeaverInv' /\ LeaverReported' /\ UndefinedOnlyWhenRefused'
    <2>1. /\ server' = IF NothingToReport THEN "undefined" ELSE "exited"
          /\ leaver' = {c} /\ entries' = entries /\ broken' = broken /\ cpc' = cpc
          /\ \A d \in Clients : link'[d] \in {"none", "gone"}
      BY <1>6 DEF OnDisconnection
    <2>2. EntriesOf(c)' = EntriesOf(c)
      BY <2>1, EntriesStay
    <2>3. c \notin WrongUrl \cup broken =>
            /\ ServerDir = "cts" =>
                 Cardinality(EntriesOf(c)) = ClientCount \/ Len(entries) = ServerCount
            /\ ServerDir = "stc" => ClientEnded(c)
      BY <1>6, LeaverServed
    <2>4. ClientEnded(c)' <=> ClientEnded(c)
      BY <2>1 DEF ClientEnded
    <2>5. LeaverInv'
      <3>1. server' # "up" /\ leaver' # {}
        BY <2>1
      <3>2. ASSUME DirIs("stc"), NEW d \in leaver' \ (WrongUrl \cup broken')
            PROVE  ClientEnded(d)'
        <4>1. d = c /\ ServerDir = "stc" /\ c \notin WrongUrl \cup broken
          BY <2>1, <3>2 DEF DirIs
        <4> QED
          BY <2>3, <2>4, <4>1
      <3> QED
        BY <1>1, <1>2, <2>1, <3>1, <3>2 DEF LeaverInv
    <2>6. LeaverReported'
      <3> SUFFICES ASSUME DirIs("cts"), c \notin WrongUrl \cup broken
                   PROVE  Cardinality(EntriesOf(c))' = ClientCount \/ Len(entries') = ServerCount
        BY <1>1, <1>2, <2>1 DEF LeaverReported
      <3> QED
        BY <2>1, <2>2, <2>3 DEF DirIs
    <2>7. UndefinedOnlyWhenRefused'
      <3> SUFFICES ASSUME NothingToReport, c \notin WrongUrl \cup broken
                   PROVE  ServerCount * ClientCount = 0
        BY <1>1, <2>1 DEF UndefinedOnlyWhenRefused
      <3>1. ServerDir = "cts" /\ Len(entries) = 0 /\ Cardinality(EntriesOf(c)) = 0
        BY NoEntries DEF NothingToReport
      <3>2. ServerCount = 0 \/ ClientCount = 0
        BY <2>3, <3>1
      <3>3. \A n \in Nat : 0 * n = 0 /\ n * 0 = 0
        OBVIOUS
      <3> QED
        BY <1>0, <3>2, <3>3
    <2> QED
      BY <2>5, <2>6, <2>7
  <1> QED
    BY <1>4, <1>5, <1>6, HubCases

--------------------------------------------------------------------------------
(* WsHub: the theorems.                                                        *)

\* Nothing is connected and nothing is sent when the programs start.
LEMMA HubStart == HubInit => HubInd
  <1> SUFFICES ASSUME HubInit PROVE HubInd
    OBVIOUS
  <1>0. ServerCount \in Nat /\ ClientCount \in Nat
    BY ConfType DEF HubInit
  <1>1. Len(<<>>) = 0 /\ 1 .. 0 = {}
    OBVIOUS
  <1>2. /\ entries = <<>> /\ leaver = {} /\ broken = {} /\ server = "up"
        /\ \A c \in Clients : /\ up[c] = <<>> /\ down[c] = <<>> /\ got[c] = <<>>
                              /\ cpc[c] = "dial" /\ link[c] = "none"
    BY DEF HubInit
  <1>3. HubType
    BY <1>0 DEF HubInit, HubType
  <1>4. Len(entries) = 0 /\ 1 .. Len(entries) = {}
    BY <1>1, <1>2
  <1>5. EntriesInOrder /\ \A c \in Clients : EntriesOf(c) = {}
    BY <1>4 DEF EntriesInOrder, EntriesOf
  <1>6. UndefinedOnlyWhenRefused /\ LeaverReported /\ HubLinkInv /\ LeaverInv
    BY <1>2 DEF UndefinedOnlyWhenRefused, LeaverReported, HubLinkInv, LeaverInv
  <1>7. \A c \in Clients : /\ Len(up[c]) = 0 /\ Len(down[c]) = 0 /\ Len(got[c]) = 0
                           /\ Len(got[c]) + Len(down[c]) = 0
    <2>1. ASSUME NEW c \in Clients
          PROVE  Len(up[c]) = 0 /\ Len(down[c]) = 0 /\ Len(got[c]) = 0
      BY ONLY <1>1, <1>2, Zenon
    <2>2. 0 + 0 = 0
      OBVIOUS
    <2> QED
      BY ONLY <2>1, <2>2, Zenon
  <1>8. 0 <= ClientCount /\ 0 <= ServerCount /\ 0 <= Least(ServerCount, ClientCount)
    BY <1>0 DEF Least
  <1>9. HubUpInv
    BY ONLY <1>1, <1>2, <1>5, <1>7, <1>8 DEF HubUpInv
  <1>10. HubDownInv
    BY ONLY <1>1, <1>2, <1>7, <1>8 DEF HubDownInv
  <1>11. LeaverGotAll
    <2>1. \A c \in Clients : IsStart(got[c])
      BY <1>1, <1>2, <1>3, StartIs DEF HubType
    <2> QED
      BY <1>2, <2>1 DEF LeaverGotAll
  <1> QED
    BY <1>3, <1>5, <1>6, <1>9, <1>10, <1>11 DEF HubInd, HubInv

\* A client whose end was not forced has taken what it has room for.
LEMMA GotAllStep ==
  ASSUME HubType, HubLinkInv, HubDownInv, LeaverInv, LeaverGotAll, [HubNext]_hubVars,
         HubType', HubDownInv'
  PROVE  LeaverGotAll'
  <1>0. ServerDir \in {"cts", "stc"}
    BY ConfType DEF HubType
  <1>1. /\ ServerCount' = ServerCount /\ ClientCount' = ClientCount /\ WrongUrl' = WrongUrl
        /\ ServerDir' = ServerDir /\ ClientDir' = ClientDir
    BY HubConfStays
  <1>2. DirIs("stc")' <=> DirIs("stc")
    BY <1>1 DEF DirIs
  <1> SUFFICES ASSUME DirIs("stc"), NEW d \in Clients
               PROVE  /\ IsStart(got[d])'
                      /\ d \in leaver' \ (WrongUrl \cup broken')
                           => Len(got'[d]) = Least(ServerCount, ClientCount)
    BY <1>1, <1>2 DEF LeaverGotAll, Least
  <1>3. IsStart(got[d])'
    <2>1. got'[d] \in Seq(Nat) /\ \A j \in 1 .. Len(got'[d]) : got'[d][j] = j - 1
      BY <1>2 DEF HubType, HubDownInv
    <2>2. IsStart(got'[d])
      BY <2>1, StartIs
    <2> QED
      BY <2>2 DEF IsStart, Prefixes, Numbers
  <1>4. ASSUME d \in leaver, d \notin WrongUrl \cup broken
        PROVE  Len(got[d]) = Least(ServerCount, ClientCount) /\ ClientEnded(d)
    BY <1>4 DEF LeaverGotAll, LeaverInv
  <1>5. ASSUME d \in leaver', d \notin WrongUrl \cup broken'
        PROVE  Len(got'[d]) = Least(ServerCount, ClientCount)
    <2>1. CASE UNCHANGED hubVars
      BY <1>4, <1>5, <2>1 DEF hubVars
    <2>2. ASSUME NEW c \in Clients, HubStep(c), ~OnDisconnection(c)
          PROVE  Len(got'[d]) = Least(ServerCount, ClientCount)
      <3>1. d \in leaver /\ d \notin WrongUrl \cup broken
        BY <1>5, <2>2, LeaverKept
      <3>2. cpc[d] # "run"
        BY <1>4, <3>1 DEF ClientEnded
      <3>3. got'[d] = got[d]
        BY <2>2, <3>2 DEF HubType, HubStep, OnConnection, OnMessage, OnConnected, ConnectFails,
                          OnClientMessage, OnClientDisconnection, HubBreak
      <3> QED
        BY <1>4, <3>1, <3>3
    <2>3. ASSUME NEW c \in Clients, OnDisconnection(c)
          PROVE  Len(got'[d]) = Least(ServerCount, ClientCount)
      <3>1. c = d /\ got' = got /\ broken' = broken /\ Disconnected(d)
        BY <1>5, <2>3 DEF OnDisconnection
      <3>2. link[d] = "bothClosed"
        BY <1>5, <3>1 DEF Disconnected, HubLinkInv, DirIs
      <3> QED
        BY <1>5, <3>1, <3>2 DEF HubDownInv
    <2> QED
      BY <2>1, <2>2, <2>3, HubCases
  <1> QED
    BY <1>3, <1>5

\* HubInd is inductive.
LEMMA HubIndStep == HubInd /\ [HubNext]_hubVars => HubInd'
  <1> SUFFICES ASSUME HubInd, [HubNext]_hubVars PROVE HubInd'
    OBVIOUS
  <1> USE DEF HubInd, HubInv
  <1>1. HubType'
    BY HubTypeStep
  <1>2. HubLinkInv'
    BY HubLinkStep
  <1>3. HubUpInv' /\ EntriesInOrder'
    BY HubUpStep DEF HubUpInv
  <1>4. HubDownInv'
    BY HubDownStep
  <1>5. LeaverInv' /\ LeaverReported' /\ UndefinedOnlyWhenRefused'
    BY LeaverStep
  <1>6. LeaverGotAll'
    BY <1>1, <1>4, GotAllStep
  <1> QED
    BY <1>1, <1>2, <1>3, <1>4, <1>5, <1>6

\* HubInd holds in every state, for every number of clients and all configurations.
THEOREM HubInductive == HubSpec => []HubInd
  BY HubStart, HubIndStep, PTL DEF HubSpec

\* The array of the server holds the first messages of each client in order and
\* once, and is read outside its bounds only when a client was refused, broke off,
\* or when there was nothing to report.
THEOREM HubArrayExact == HubSpec => []HubInv
  <1>1. HubInd => HubInv
    BY DEF HubInd
  <1> QED
    BY <1>1, HubInductive, PTL

\* A client that ends the server of its own accord has been reported in full.
THEOREM LeaverIsReported == HubSpec => []LeaverReported
  <1>1. HubInd => LeaverReported
    BY DEF HubInd
  <1> QED
    BY <1>1, HubInductive, PTL

\* Every client has received a first part of what the server sends, and a client
\* that ends the server of its own accord has received all it has room for.
THEOREM LeaverHasAll == HubSpec => []LeaverGotAll
  <1>1. HubInd => LeaverGotAll
    BY DEF HubInd
  <1> QED
    BY <1>1, HubInductive, PTL

=================================================================================
