--------------------------------- MODULE Cells ---------------------------------
(*******************************************************************************)
(* Facts about r * width + k, the number of cell k in row r of a table: the    *)
(* message ids of the benchmarks are such numbers, and the slots and the low   *)
(* bits of a ring's tickets are such columns.                                  *)
(*******************************************************************************)
EXTENDS Integers, TLAPS

\* Multiplication by a natural number is monotonic.
LEMMA TimesMonotonic ==
  ASSUME NEW a \in Nat, NEW b \in Nat, NEW c \in Nat, a <= b
  PROVE  a * c <= b * c
  OBVIOUS

\* The k-th cell of row r of a table with "rows" rows of "width" cells.
LEMMA CellBound ==
  ASSUME NEW rows \in Nat, NEW width \in Nat, NEW r \in Nat, NEW k \in Nat,
         r < rows, k < width
  PROVE  r * width + k < rows * width
  <1>1. (r + 1) * width <= rows * width
    BY TimesMonotonic
  <1> QED
    BY <1>1

\* A cell has one row and one column.
LEMMA CellUnique ==
  ASSUME NEW width \in Nat, NEW r \in Nat, NEW s \in Nat, NEW k \in Nat, NEW l \in Nat,
         k < width, l < width, r * width + k = s * width + l
  PROVE  r = s /\ k = l
  <1>1. ~(r < s)
    <2>1. r < s => (r + 1) * width <= s * width
      BY TimesMonotonic
    <2> QED
      BY <2>1
  <1>2. ~(s < r)
    <2>1. s < r => (s + 1) * width <= r * width
      BY TimesMonotonic
    <2> QED
      BY <2>1
  <1> QED
    BY <1>1, <1>2

\* Every number below rows * width is a cell.
LEMMA CellExists ==
  ASSUME NEW rows \in Nat, NEW width \in Nat, NEW id \in Nat, id < rows * width
  PROVE  \E r \in 0 .. rows - 1, k \in 0 .. width - 1 : id = r * width + k
  <1>1. width > 0
    OBVIOUS
  <1>2. /\ id \div width \in Nat
        /\ id % width \in 0 .. width - 1
        /\ id = (id \div width) * width + (id % width)
    BY <1>1
  <1>3. id \div width < rows
    <2>1. rows <= id \div width => rows * width <= (id \div width) * width
      BY <1>2, TimesMonotonic
    <2> QED
      BY <2>1, <1>2
  <1>4. id \div width \in 0 .. rows - 1
    BY <1>2, <1>3
  <1> QED
    BY <1>2, <1>4, Zenon

\* Two numbers less than a row apart are in different columns.
LEMMA ColumnUnique ==
  ASSUME NEW width \in Nat, NEW r \in Nat, NEW s \in Nat, NEW k \in Nat,
         r * width + k <= s * width + k,
         (s * width + k) - (r * width + k) < width
  PROVE  r * width + k = s * width + k
  <1>1. ~(r < s)
    <2>1. r < s => (r + 1) * width <= s * width
      BY TimesMonotonic
    <2> QED
      BY <2>1
  <1>2. s <= r
    BY <1>1
  <1>3. s * width <= r * width
    BY <1>2, TimesMonotonic
  <1> QED
    BY <1>3

\* Two numbers less than m apart with the same remainder modulo m are equal.
LEMMA RemainderUnique ==
  ASSUME NEW m \in Nat \ {0}, NEW a \in Nat, NEW b \in Nat,
         a <= b, b - a < m, a % m = b % m
  PROVE  a = b
  <1>1. /\ a \div m \in Nat /\ b \div m \in Nat /\ a % m \in Nat
        /\ a = (a \div m) * m + (a % m)
        /\ b = (b \div m) * m + (b % m)
    OBVIOUS
  <1> DEFINE r == a \div m
             s == b \div m
             k == a % m
  <1>2. /\ r \in Nat /\ s \in Nat /\ k \in Nat
        /\ a = r * m + k
        /\ b = s * m + k
    BY <1>1
  <1> HIDE DEF r, s, k
  <1>3. r * m + k <= s * m + k /\ (s * m + k) - (r * m + k) < m
    BY <1>2
  <1> QED
    BY <1>2, <1>3, ColumnUnique

\* Masking in two steps, where the second mask divides the first, is masking once.
LEMMA RemainderTwice ==
  ASSUME NEW m \in Nat \ {0}, NEW c \in Nat \ {0}, m % c = 0, NEW a \in Nat
  PROVE  (a % m) % c = a % c
  <1> DEFINE q == m \div c
             x == a \div m
             y == (a % m) \div c
             u == (a % m) % c
  <1>1. /\ q \in Nat /\ m = q * c
        /\ x \in Nat /\ a % m \in Nat /\ a = x * m + (a % m)
    OBVIOUS
  <1>2. y \in Nat /\ u \in Nat /\ u < c /\ a % m = y * c + u
    BY <1>1
  <1>3. a \div c \in Nat /\ a % c \in Nat /\ a % c < c /\ a = (a \div c) * c + (a % c)
    OBVIOUS
  <1> HIDE DEF q, x, y, u
  <1>4. x * (q * c) = (x * q) * c /\ x * q \in Nat
    BY <1>1
  <1> DEFINE row == x * q + y
             v == a \div c
             w == a % c
  <1>5. row \in Nat /\ a = row * c + u
    BY <1>1, <1>2, <1>4
  <1>6. v \in Nat /\ w \in Nat /\ w < c /\ a = v * c + w
    BY <1>3
  <1> HIDE DEF row, v, w
  <1>7. row * c + u = v * c + w
    BY <1>5, <1>6
  <1>8. u = w
    BY <1>2, <1>5, <1>6, <1>7, CellUnique
  <1> QED
    BY <1>8 DEF u, w

--------------------------------------------------------------------------------
(* The division of "total" cells among n workers: each gets the n-th part, and *)
(* the last one what is left besides.                                          *)

SliceStart(n, total, p) == p * (total \div n)
SliceEnd(n, total, p)   == IF p = n - 1 THEN total ELSE (p + 1) * (total \div n)

\* The parts are numbers, and do not exceed the whole.
LEMMA PartType ==
  ASSUME NEW n \in Nat \ {0}, NEW total \in Nat
  PROVE  /\ total \div n \in Nat
         /\ (total \div n) * n <= total
  <1>1. /\ total \div n \in Nat
        /\ total % n \in Nat
        /\ total = (total \div n) * n + (total % n)
    OBVIOUS
  <1> QED
    BY <1>1

\* A slice begins and ends within the whole.
LEMMA SliceBound ==
  ASSUME NEW n \in Nat \ {0}, NEW total \in Nat, NEW p \in 0 .. n - 1
  PROVE  /\ SliceStart(n, total, p) \in Nat
         /\ SliceEnd(n, total, p) \in Nat
         /\ SliceStart(n, total, p) <= SliceEnd(n, total, p)
         /\ SliceEnd(n, total, p) <= total
  <1> DEFINE w == total \div n
  <1>1. w \in Nat /\ w * n <= total
    BY PartType
  <1> HIDE DEF w
  <1>2. p * w \in Nat /\ (p + 1) * w \in Nat /\ p * w <= (p + 1) * w
    BY <1>1, TimesMonotonic
  <1>3. (p + 1) * w <= n * w
    BY <1>1, TimesMonotonic
  <1>4. (p + 1) * w <= total
    BY <1>1, <1>2, <1>3
  <1> QED
    BY <1>2, <1>4 DEF SliceStart, SliceEnd, w

\* A cell is in one slice.
LEMMA CellOfOneSlice ==
  ASSUME NEW n \in Nat \ {0}, NEW total \in Nat, NEW p \in 0 .. n - 1, NEW q \in 0 .. n - 1,
         NEW m \in SliceStart(n, total, p) .. SliceEnd(n, total, p) - 1,
         m \in SliceStart(n, total, q) .. SliceEnd(n, total, q) - 1
  PROVE  p = q
  <1>1. ASSUME NEW a \in 0 .. n - 1, NEW b \in 0 .. n - 1, a < b
        PROVE  SliceEnd(n, total, a) <= SliceStart(n, total, b)
    <2>1. total \div n \in Nat
      BY PartType
    <2>2. (a + 1) * (total \div n) <= b * (total \div n)
      BY <1>1, <2>1, TimesMonotonic
    <2> QED
      BY <1>1, <2>2 DEF SliceStart, SliceEnd
  <1>2. /\ m >= SliceStart(n, total, p) /\ m < SliceEnd(n, total, p)
        /\ m >= SliceStart(n, total, q) /\ m < SliceEnd(n, total, q)
        /\ SliceStart(n, total, p) \in Nat /\ SliceEnd(n, total, p) \in Nat
        /\ SliceStart(n, total, q) \in Nat /\ SliceEnd(n, total, q) \in Nat
    <2>1. /\ SliceStart(n, total, p) \in Nat /\ SliceEnd(n, total, p) \in Nat
          /\ SliceStart(n, total, q) \in Nat /\ SliceEnd(n, total, q) \in Nat
      BY SliceBound, Zenon
    <2> QED
      BY <2>1
  <1>3. ~(p < q) /\ ~(q < p)
    BY <1>1, <1>2
  <1> QED
    BY <1>3

\* Every cell is in some slice.
LEMMA CellOfSomeSlice ==
  ASSUME NEW n \in Nat \ {0}, NEW total \in Nat, NEW m \in Nat, m < total
  PROVE  \E p \in 0 .. n - 1 : m \in SliceStart(n, total, p) .. SliceEnd(n, total, p) - 1
  <1> DEFINE z == n - 1
             w == total \div n
  <1>1. w \in Nat /\ w * n <= total
    BY PartType
  <1>2. z \in Nat /\ z \in 0 .. n - 1
    OBVIOUS
  <1> HIDE DEF w
  <1>3. CASE m >= z * w
    <2>1. SliceStart(n, total, z) = z * w /\ SliceEnd(n, total, z) = total
      BY DEF SliceStart, SliceEnd, w
    <2>2. m \in SliceStart(n, total, z) .. SliceEnd(n, total, z) - 1
      <3> HIDE DEF z
      <3>1. z * w \in Nat
        BY <1>1, <1>2
      <3> QED
        BY <1>3, <2>1, <3>1
    <2> QED
      BY <1>2, <2>2
  <1>4. CASE m < z * w
    <2> HIDE DEF z
    <2>1. PICK p \in 0 .. z - 1, k \in 0 .. w - 1 : m = p * w + k
      <3>1. z \in Nat /\ w \in Nat
        BY <1>1, <1>2
      <3>2. ASSUME NEW a \in Nat, NEW b \in Nat, m < a * b
            PROVE  \E p \in 0 .. a - 1, k \in 0 .. b - 1 : m = p * b + k
        BY ONLY <3>2, m \in Nat, CellExists, Zenon
      <3> QED
        BY ONLY <1>4, <3>1, <3>2, Zenon
    <2> USE DEF z
    <2>2. p \in 0 .. n - 1 /\ p # n - 1
      BY <2>1
    <2>3. SliceStart(n, total, p) = p * w /\ SliceEnd(n, total, p) = (p + 1) * w
      BY <2>2 DEF SliceStart, SliceEnd, w
    <2>4. (p + 1) * w = p * w + w /\ p * w \in Nat
      BY <1>1, <2>2
    <2>5. m \in SliceStart(n, total, p) .. SliceEnd(n, total, p) - 1
      BY <1>1, <2>1, <2>3, <2>4
    <2> QED
      BY <2>2, <2>5
  <1> QED
    BY <1>1, <1>2, <1>3, <1>4

\* Division with remainder undoes multiplication.
LEMMA DivideCell ==
  ASSUME NEW width \in Nat, NEW r \in Nat, NEW k \in Nat, k < width
  PROVE  /\ (r * width + k) \div width = r
         /\ (r * width + k) % width = k
  <1> DEFINE t == r * width + k
             s == t \div width
             l == t % width
  <1>1. t \in Nat /\ width > 0
    OBVIOUS
  <1>2. s \in Nat /\ l \in Nat /\ l < width /\ t = s * width + l
    <2> HIDE DEF t
    <2> QED
      BY <1>1
  <1> HIDE DEF s, l
  <1>3. r * width + k = s * width + l
    BY <1>2
  <1>4. s = r /\ l = k
    BY <1>2, <1>3, CellUnique
  <1> QED
    BY <1>4 DEF s, l

================================================================================
