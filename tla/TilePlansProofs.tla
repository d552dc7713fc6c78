---------------------------- MODULE TilePlansProofs ----------------------------
(***************************************************************************)
(* Facts about TilePlans, for every tree, every point and every number of  *)
(* tiles: what its sums add up, where a descent leads, how the codes of    *)
(* cells divide, when a plan validates, and that the cells a planner stops *)
(* at share the points among them.                                         *)
(*                                                                         *)
(* An induction is made with LeastNumber: of the numbers a claim is wrong  *)
(* for, there would be a least one.  A recursive function exists by        *)
(* RecursionExists, so its equation holds of the one CHOOSE names.         *)
(***************************************************************************)
EXTENDS TilePlans, FiniteSetTheorems, WellFoundedInduction, TLAPS

-----------------------------------------------------------------------------
(* Numbers and recursion.                                                  *)

(* A nonempty set of numbers has a least one: the intervals below its      *)
(* members are well-founded under strict inclusion.                        *)
LEMMA LeastNumber ==
  ASSUME NEW T, T \subseteq Nat, T # {}
  PROVE  \E n \in T : \A m \in T : n <= m
  <1> DEFINE S == {1..n : n \in T}
             R == StrictSubsetOrdering(Nat)
  <1>1. IsWellFoundedOn(R, FiniteSubsetsOf(Nat))
    BY FS_StrictSubsetOrderingWellFounded
  <1>2. S \subseteq FiniteSubsetsOf(Nat) /\ S # {}
    <2>1. ASSUME NEW n \in T PROVE IsFiniteSet(1..n) /\ 1..n \in SUBSET Nat
      BY FS_Interval
    <2> QED
      BY <2>1 DEF FiniteSubsetsOf
  <1> HIDE DEF S
  <1>3. \E x \in S : \A y \in S : ~ (<<y, x>> \in R)
    BY <1>1, <1>2, WFMin
  <1>4. PICK n \in T : \A m \in T : ~ (<<1..m, 1..n>> \in R)
    BY <1>3 DEF S
  <1>5. ASSUME NEW m \in T, m < n PROVE FALSE
    <2>1. 1..m \subseteq 1..n /\ 1..m # 1..n /\ 1..m \in SUBSET Nat /\ 1..n \in SUBSET Nat
      <3>1. m \in Nat /\ n \in Nat
        OBVIOUS
      <3>2. n \in 1..n /\ n \notin 1..m
        BY <1>5, <3>1
      <3> QED
        BY <1>5, <3>1, <3>2
    <2> QED
      BY <1>4, <2>1 DEF StrictSubsetOrdering
  <1> QED
    BY <1>5

(* Induction, for a claim that is a set of numbers.                        *)
LEMMA Induction ==
  ASSUME NEW T, 0 \in T, \A n \in Nat : n \in T => n + 1 \in T
  PROVE  Nat \subseteq T
  <1> DEFINE Bad == Nat \ T
  <1>1. ASSUME NEW n \in Bad, \A m \in Bad : n <= m PROVE FALSE
    <2>1. n # 0 /\ n \in Nat
      OBVIOUS
    <2>2. n - 1 \in Nat /\ n - 1 \notin Bad /\ n = (n - 1) + 1
      BY <1>1, <2>1
    <2> QED
      BY <2>2
  <1>2. Bad = {}
    <2>1. Bad \subseteq Nat
      OBVIOUS
    <2> HIDE DEF Bad
    <2> QED
      BY <1>1, <2>1, LeastNumber
  <1> QED
    BY <1>2

(* A function that starts at c and steps with G.                           *)
Follows(f, V, c, G) ==
    f \in [Nat -> V] /\ f[0] = c /\ \A n \in Nat : f[n + 1] = G[n][f[n]]

LEMMA RecursionExists ==
  ASSUME NEW V, NEW c \in V, NEW G \in [Nat -> [V -> V]]
  PROVE  \E f : Follows(f, V, c, G)
  <1> DEFINE Upto(h, n) == /\ h \in [0..n -> V] /\ h[0] = c
                           /\ \A k \in 0..(n - 1) : h[k + 1] = G[k][h[k]]
             T == {n \in Nat : \E h : Upto(h, n)}
  <1>1. 0 \in T
    <2> DEFINE h == [k \in 0..0 |-> c]
    <2>1. Upto(h, 0)
      OBVIOUS
    <2> QED
      BY <2>1
  <1>2. ASSUME NEW n \in Nat, n \in T PROVE n + 1 \in T
    <2>1. PICK h : Upto(h, n)
      BY <1>2
    <2> DEFINE g == [k \in 0..(n + 1) |-> IF k <= n THEN h[k] ELSE G[n][h[n]]]
    <2>2. g \in [0..(n + 1) -> V] /\ g[0] = c
      <3>1. h[n] \in V
        BY <2>1
      <3> QED
        BY <2>1, <3>1
    <2>3. ASSUME NEW k \in 0..n PROVE g[k + 1] = G[k][g[k]]
      <3>1. CASE k = n
        BY <3>1
      <3>2. CASE k # n
        <4>1. k \in 0..(n - 1) /\ k <= n /\ k + 1 <= n
          BY <3>2
        <4> QED
          BY <2>1, <4>1
      <3> QED
        BY <3>1, <3>2
    <2>4. Upto(g, n + 1)
      <3>1. (n + 1) - 1 = n
        OBVIOUS
      <3> HIDE DEF g
      <3> QED
        BY <2>2, <2>3, <3>1
    <2> HIDE DEF g
    <2> QED
      BY <2>4
  <1>3. \A n \in Nat : \E h : Upto(h, n)
    <2> HIDE DEF T
    <2>1. Nat \subseteq T
      BY <1>1, <1>2, Induction
    <2> QED
      BY <2>1 DEF T
  <1>4. ASSUME NEW m \in Nat, NEW n \in Nat, NEW g, NEW h, m <= n, Upto(g, m), Upto(h, n)
        PROVE  \A k \in 0..m : g[k] = h[k]
    <2> DEFINE Same == {k \in Nat : k <= m => g[k] = h[k]}
    <2>1. 0 \in Same
      BY <1>4
    <2>2. ASSUME NEW k \in Nat, k \in Same PROVE k + 1 \in Same
      <3> SUFFICES ASSUME k + 1 <= m PROVE g[k + 1] = h[k + 1]
        OBVIOUS
      <3>1. k \in 0..(m - 1) /\ k \in 0..(n - 1) /\ g[k] = h[k]
        BY <1>4, <2>2
      <3> QED
        BY <1>4, <3>1
    <2>3. Nat \subseteq Same
      <3> HIDE DEF Same
      <3> QED
        BY <2>1, <2>2, Induction
    <2> QED
      BY <2>3
  <1> DEFINE part == [n \in Nat |-> CHOOSE h : Upto(h, n)]
             f == [n \in Nat |-> part[n][n]]
  <1>5. \A n \in Nat : Upto(part[n], n)
    <2> HIDE DEF Upto
    <2> QED
      BY <1>3
  <1>6. f \in [Nat -> V] /\ f[0] = c
    <2>1. \A n \in Nat : part[n][n] \in V /\ n \in 0..n
      <3> HIDE DEF part
      <3> QED
        BY <1>5
    <2>2. part[0][0] = c
      <3> HIDE DEF part
      <3> QED
        BY <1>5
    <2> HIDE DEF part
    <2> QED
      BY <2>1, <2>2
  <1>7. ASSUME NEW n \in Nat PROVE f[n + 1] = G[n][f[n]]
    <2> HIDE DEF part
    <2>1. Upto(part[n], n) /\ Upto(part[n + 1], n + 1)
      BY <1>5
    <2>2. part[n][n] = part[n + 1][n]
      <3>1. PICK p, q : p = part[n] /\ q = part[n + 1]
        OBVIOUS
      <3>2. \A k \in 0..n : p[k] = q[k]
        <4> HIDE DEF Upto
        <4> QED
          BY <1>4, <2>1, <3>1
      <3> QED
        BY <3>1, <3>2
    <2>3. part[n + 1][n + 1] = G[n][part[n + 1][n]]
      <3>1. n \in 0..((n + 1) - 1)
        OBVIOUS
      <3> QED
        BY <2>1, <3>1
    <2> QED
      BY <2>2, <2>3
  <1> HIDE DEF f
  <1>8. Follows(f, V, c, G)
    BY <1>6, <1>7 DEF Follows
  <1> QED
    BY <1>8

-----------------------------------------------------------------------------
(* Powers of two, quotients.                                               *)

(* A set of n members has 2^n subsets, twice as many as one of n - 1.      *)
LEMMA Powers ==
  /\ 2^0 = 1
  /\ \A n \in Nat : 2^n \in Nat /\ 2^n > 0 /\ 2^(n + 1) = 2 * 2^n
  <1>1. ASSUME NEW n \in Nat
        PROVE  IsFiniteSet(SUBSET (1..n)) /\ Cardinality(SUBSET (1..n)) = 2^n
    <2>1. IsFiniteSet(1..n) /\ Cardinality(1..n) = n
      BY FS_Interval
    <2> QED
      BY <2>1, FS_SUBSET
  <1>2. ASSUME NEW n \in Nat PROVE 2^n \in Nat /\ 2^n > 0
    <2>1. Cardinality(SUBSET (1..n)) \in Nat /\ {} \in SUBSET (1..n)
      BY <1>1, FS_CardinalityType
    <2>2. Cardinality(SUBSET (1..n)) # 0
      BY <1>1, <2>1, FS_EmptySet
    <2> QED
      BY <1>1, <2>1, <2>2
  <1>3. ASSUME NEW n \in Nat PROVE 2^(n + 1) = 2 * 2^n
    <2> DEFINE A == SUBSET (1..n)
               B == {T \cup {n + 1} : T \in A}
               f == [T \in A |-> T \cup {n + 1}]
    <2>1. SUBSET (1..(n + 1)) = A \cup B
      <3>1. ASSUME NEW T \in SUBSET (1..(n + 1)), n + 1 \notin T PROVE T \in A
        BY <3>1
      <3>2. ASSUME NEW T \in SUBSET (1..(n + 1)), n + 1 \in T PROVE T \in B
        <4>1. T \ {n + 1} \in A
          OBVIOUS
        <4>2. T = (T \ {n + 1}) \cup {n + 1}
          BY <3>2
        <4> QED
          BY <4>1, <4>2
      <3>3. A \subseteq SUBSET (1..(n + 1))
        OBVIOUS
      <3>4. B \subseteq SUBSET (1..(n + 1))
        <4>1. ASSUME NEW T \in A PROVE T \cup {n + 1} \in SUBSET (1..(n + 1))
          OBVIOUS
        <4> QED
          BY <4>1
      <3> QED
        BY <3>1, <3>2, <3>3, <3>4
    <2>2. A \cap B = {}
      <3>1. n + 1 \notin 1..n
        OBVIOUS
      <3> QED
        BY <3>1
    <2>3. f \in Bijection(A, B)
      <3>1. f \in [A -> B] /\ \A T \in B : \E U \in A : f[U] = T
        OBVIOUS
      <3>2. ASSUME NEW T \in A, NEW U \in A, f[T] = f[U] PROVE T = U
        <4>1. n + 1 \notin T /\ n + 1 \notin U
          OBVIOUS
        <4> QED
          BY <3>2, <4>1
      <3> QED
        BY <3>1, <3>2 DEF Bijection, Injection, IsInjective, Surjection
    <2>4. IsFiniteSet(A) /\ Cardinality(A) = 2^n /\ Cardinality(A) \in Nat
      BY <1>1, FS_CardinalityType
    <2> HIDE DEF A, B, f
    <2>5. IsFiniteSet(B) /\ Cardinality(B) = Cardinality(A)
      <3>1. ExistsBijection(A, B)
        BY <2>3 DEF ExistsBijection
      <3> QED
        BY <2>4, <3>1, FS_Bijection
    <2>6. Cardinality(A \cup B) = Cardinality(A) + Cardinality(B) - Cardinality(A \cap B)
      BY <2>4, <2>5, FS_Union
    <2>7. Cardinality(A \cap B) = 0
      BY <2>2, FS_EmptySet
    <2>8. Cardinality(A \cup B) = 2 * Cardinality(A)
      BY <2>4, <2>5, <2>6, <2>7
    <2>9. Cardinality(SUBSET (1..(n + 1))) = 2^(n + 1)
      BY <1>1
    <2> QED
      BY <2>1, <2>4, <2>8, <2>9
  <1>4. 2^0 = 1
    OBVIOUS
  <1> QED
    BY <1>2, <1>3, <1>4

(* What truncating division means.                                         *)
LEMMA Division ==
  ASSUME NEW a \in Nat, NEW b \in Nat, b > 0
  PROVE  /\ a \div b \in Nat
         /\ b * (a \div b) <= a
         /\ a < b * (a \div b) + b
  OBVIOUS

(* The larger of two factors makes the larger product.                     *)
LEMMA Product ==
  ASSUME NEW a \in Nat, NEW b \in Nat, NEW c \in Nat, a <= b
  PROVE  c * a <= c * b
  OBVIOUS

(* A quotient is as large as any number whose product fits.                *)
LEMMA AtLeast ==
  ASSUME NEW a \in Nat, NEW b \in Nat, NEW q \in Nat, b > 0, b * q <= a
  PROVE  q <= a \div b
  <1> DEFINE d == a \div b
  <1>1. d \in Nat /\ a < b * d + b
    BY Division
  <1>2. SUFFICES ASSUME d < q PROVE FALSE
    BY <1>1
  <1>3. b * (d + 1) <= b * q
    BY <1>1, <1>2, Product
  <1>4. b * (d + 1) = b * d + b
    BY <1>1
  <1> QED
    BY <1>1, <1>3, <1>4

(* The quotient is the only number whose product fits and next does not.   *)
LEMMA QuotientIs ==
  ASSUME NEW a \in Nat, NEW b \in Nat, NEW q \in Nat, b > 0, b * q <= a, a < b * q + b
  PROVE  a \div b = q
  <1> DEFINE d == a \div b
  <1>1. d \in Nat /\ b * d <= a /\ a < b * d + b
    BY Division
  <1>2. q <= d
    BY AtLeast
  <1>3. ASSUME q < d PROVE FALSE
    <2>1. b * (q + 1) <= b * d
      BY <1>1, <1>3, Product
    <2>2. b * (q + 1) = b * q + b
      OBVIOUS
    <2> QED
      BY <1>1, <2>1, <2>2
  <1> QED
    BY <1>1, <1>2, <1>3

(* Dividing twice is dividing by the product.                              *)
LEMMA DivideTwice ==
  ASSUME NEW a \in Nat, NEW b \in Nat, NEW c \in Nat, b > 0, c > 0
  PROVE  (a \div b) \div c = a \div (b * c)
  <1> DEFINE d == a \div b
             q == d \div c
  <1>1. d \in Nat /\ b * d <= a /\ a < b * d + b
    BY Division
  <1>2. q \in Nat /\ c * q <= d /\ d < c * q + c
    <2> HIDE DEF d
    <2> QED
      BY <1>1, Division
  <1> HIDE DEF d, q
  <1>3. b * c \in Nat /\ b * c > 0
    OBVIOUS
  <1>4. (b * c) * q <= a
    <2>1. b * (c * q) <= b * d
      BY <1>1, <1>2, Product
    <2>2. b * (c * q) = (b * c) * q
      BY <1>2
    <2>3. b * d \in Nat /\ (b * c) * q \in Nat
      BY <1>1, <1>2
    <2> QED
      BY <1>1, <2>1, <2>2, <2>3
  <1>5. a < (b * c) * q + b * c
    <2>1. b * (d + 1) <= b * (c * q + c)
      BY <1>1, <1>2, Product
    <2>2. b * (d + 1) = b * d + b
      BY <1>1
    <2>3. b * (c * q + c) = (b * c) * q + b * c
      BY <1>2
    <2> QED
      BY <1>1, <1>2, <1>3, <2>1, <2>2, <2>3
  <1>6. a \div (b * c) = q
    BY <1>2, <1>3, <1>4, <1>5, QuotientIs
  <1> QED
    BY <1>6 DEF q, d

(* Shifting by m and then by n is shifting by m + n.                       *)
LEMMA PowersAdd ==
  ASSUME NEW m \in Nat, NEW n \in Nat
  PROVE  2^(m + n) = 2^m * 2^n
  <1> DEFINE T == {k \in Nat : 2^(m + k) = 2^m * 2^k}
  <1>1. 2^m \in Nat /\ 2^m > 0
    BY Powers
  <1>2. 0 \in T
    BY <1>1, Powers
  <1>3. ASSUME NEW k \in Nat, k \in T PROVE k + 1 \in T
    <2>1. m + k \in Nat /\ m + (k + 1) = (m + k) + 1
      OBVIOUS
    <2>2. PICK a \in Nat, b \in Nat, c \in Nat : a = 2^m /\ b = 2^k /\ c = 2^(m + k)
      BY <2>1, Powers
    <2>3. 2^(m + (k + 1)) = 2 * c /\ 2^(k + 1) = 2 * b
      BY <2>1, <2>2, Powers
    <2>4. c = a * b
      BY <1>3, <2>2
    <2>5. 2 * (a * b) = a * (2 * b)
      OBVIOUS
    <2> QED
      BY <2>2, <2>3, <2>4, <2>5
  <1> HIDE DEF T
  <1>4. n \in T
    BY <1>2, <1>3, Induction
  <1> QED
    BY <1>4 DEF T

(* A number without its last n bits.                                       *)
Shift(x, n) == x \div 2^n

LEMMA ShiftTwice ==
  ASSUME NEW x \in Nat, NEW m \in Nat, NEW n \in Nat
  PROVE  Shift(x, m) \in Nat /\ Shift(Shift(x, m), n) = Shift(x, m + n)
  <1>1. PICK a \in Nat, b \in Nat : a = 2^m /\ b = 2^n /\ a > 0 /\ b > 0
    BY Powers
  <1>2. 2^(m + n) = a * b
    BY <1>1, PowersAdd
  <1>3. (x \div a) \div b = x \div (a * b)
    BY <1>1, DivideTwice
  <1>4. x \div a \in Nat
    BY <1>1, Division
  <1> QED
    BY <1>1, <1>2, <1>3, <1>4 DEF Shift

-----------------------------------------------------------------------------
(* The tree of cells.                                                      *)

IsCell(id) == id \in Nat \X Nat \X Nat /\ id[2] < 2^id[1] /\ id[3] < 2^id[1]

(* The cell of level l that a cell lies in.                                *)
Above(id, l) == <<l, Shift(id[2], id[1] - l), Shift(id[3], id[1] - l)>>

LEMMA ShiftNone ==
  ASSUME NEW x \in Nat
  PROVE  Shift(x, 0) = x
  <1>1. x \div 1 = x
    OBVIOUS
  <1> QED
    BY <1>1, Powers DEF Shift

LEMMA ShiftOne ==
  ASSUME NEW x \in Nat
  PROVE  Shift(x, 1) = x \div 2
  <1>1. 2^(0 + 1) = 2 * 2^0
    BY Powers
  <1>2. 2^1 = 2
    BY <1>1, Powers
  <1> QED
    BY <1>2 DEF Shift

(* A number of n bits without its last m has the first n - m.              *)
LEMMA ShiftBound ==
  ASSUME NEW x \in Nat, NEW n \in Nat, NEW l \in 0..n, x < 2^n
  PROVE  Shift(x, n - l) \in Nat /\ Shift(x, n - l) < 2^l
  <1>1. PICK k \in Nat : k = n - l /\ k + l = n
    OBVIOUS
  <1>2. PICK a \in Nat, b \in Nat : a = 2^k /\ b = 2^l /\ a > 0 /\ b > 0
    BY Powers
  <1>3. 2^n = a * b
    BY <1>1, <1>2, PowersAdd
  <1>4. x \div a \in Nat /\ a * (x \div a) <= x
    BY <1>2, Division
  <1>5. PICK q \in Nat : q = x \div a
    BY <1>4
  <1>6. ASSUME b <= q PROVE FALSE
    <2>1. a * b <= a * q
      BY <1>2, <1>5, <1>6, Product
    <2>2. a * b \in Nat /\ a * q \in Nat
      OBVIOUS
    <2> QED
      BY <1>3, <1>4, <1>5, <2>1, <2>2
  <1>7. q < b
    BY <1>6
  <1> QED
    BY <1>1, <1>2, <1>5, <1>7 DEF Shift

LEMMA CellParts ==
  ASSUME NEW id, IsCell(id)
  PROVE  /\ id[1] \in Nat /\ id[2] \in Nat /\ id[3] \in Nat
         /\ id = <<id[1], id[2], id[3]>>
         /\ id[2] < 2^id[1] /\ id[3] < 2^id[1]
  BY DEF IsCell

LEMMA AboveCell ==
  ASSUME NEW id, IsCell(id), NEW l \in 0..id[1]
  PROVE  IsCell(Above(id, l)) /\ Above(id, l)[1] = l
  <1>1. PICK n \in Nat, x \in Nat, y \in Nat : id = <<n, x, y>> /\ x < 2^n /\ y < 2^n
    BY CellParts
  <1>2. /\ Shift(x, n - l) \in Nat /\ Shift(x, n - l) < 2^l
        /\ Shift(y, n - l) \in Nat /\ Shift(y, n - l) < 2^l
    BY <1>1, ShiftBound
  <1>3. Above(id, l) = <<l, Shift(x, n - l), Shift(y, n - l)>>
    BY <1>1 DEF Above
  <1>4. l \in Nat
    BY <1>1
  <1> QED
    BY <1>2, <1>3, <1>4 DEF IsCell

LEMMA AboveSelf ==
  ASSUME NEW id, IsCell(id)
  PROVE  Above(id, id[1]) = id
  <1>1. PICK n \in Nat, x \in Nat, y \in Nat : id = <<n, x, y>>
    BY CellParts
  <1>2. n - n = 0
    OBVIOUS
  <1>3. Above(id, n) = <<n, Shift(x, 0), Shift(y, 0)>>
    BY <1>1, <1>2 DEF Above
  <1> QED
    BY <1>1, <1>3, ShiftNone

LEMMA AboveAbove ==
  ASSUME NEW id, IsCell(id), NEW m \in 0..id[1], NEW l \in 0..m
  PROVE  Above(Above(id, m), l) = Above(id, l)
  <1>1. PICK n \in Nat, x \in Nat, y \in Nat : id = <<n, x, y>>
    BY CellParts
  <1>2. PICK j \in Nat, k \in Nat : j = n - m /\ k = m - l /\ j + k = n - l
    BY <1>1
  <1>3. Above(id, m) = <<m, Shift(x, j), Shift(y, j)>>
    BY <1>1, <1>2 DEF Above
  <1>4. Above(Above(id, m), l) = <<l, Shift(Shift(x, j), k), Shift(Shift(y, j), k)>>
    BY <1>2, <1>3 DEF Above
  <1>5. Above(id, l) = <<l, Shift(x, j + k), Shift(y, j + k)>>
    BY <1>1, <1>2 DEF Above
  <1> QED
    BY <1>4, <1>5, ShiftTwice

LEMMA AboveRoot ==
  ASSUME NEW id, IsCell(id)
  PROVE  Above(id, 0) = Root
  <1>1. PICK x \in Nat, y \in Nat : Above(id, 0) = <<0, x, y>> /\ x < 2^0 /\ y < 2^0
    <2>1. 0 \in 0..id[1]
      BY CellParts
    <2>2. IsCell(Above(id, 0)) /\ Above(id, 0)[1] = 0
      BY <2>1, AboveCell
    <2> QED
      BY <2>2, CellParts
  <1>2. x = 0 /\ y = 0
    BY <1>1, Powers
  <1> QED
    BY <1>1, <1>2 DEF Root

LEMMA AboveParent ==
  ASSUME NEW id, IsCell(id), id[1] > 0
  PROVE  ParentOf(id) = Above(id, id[1] - 1)
  <1>1. PICK n \in Nat, x \in Nat, y \in Nat : id = <<n, x, y>>
    BY CellParts
  <1>2. n - (n - 1) = 1
    BY <1>1
  <1>3. Above(id, n - 1) = <<n - 1, Shift(x, 1), Shift(y, 1)>>
    BY <1>1, <1>2 DEF Above
  <1> QED
    BY <1>1, <1>3, ShiftOne DEF ParentOf

LEMMA RootIsCell == IsCell(Root) /\ Root[1] = 0
  BY Powers DEF IsCell, Root

(* What lies on the way from the root to a cell.                           *)
LEMMA PathIs ==
  ASSUME NEW id
  PROVE  PathTo(id) = {Above(id, l) : l \in 0..id[1]}
  BY DEF PathTo, Above, Shift

LEMMA PathEnds ==
  ASSUME NEW id, IsCell(id)
  PROVE  id \in PathTo(id) /\ Root \in PathTo(id)
  <1>1. id[1] \in 0..id[1] /\ 0 \in 0..id[1]
    BY CellParts
  <1> QED
    BY <1>1, PathIs, AboveSelf, AboveRoot

LEMMA PathMember ==
  ASSUME NEW id, IsCell(id), NEW a \in PathTo(id)
  PROVE  IsCell(a) /\ a[1] \in 0..id[1] /\ a = Above(id, a[1])
  <1>1. PICK l \in 0..id[1] : a = Above(id, l)
    BY PathIs
  <1> QED
    BY <1>1, AboveCell

(* Of two cells on the way to a cell the upper is on the way to the lower. *)
LEMMA PathChain ==
  ASSUME NEW id, IsCell(id), NEW a \in PathTo(id), NEW b \in PathTo(id), a[1] <= b[1]
  PROVE  a \in PathTo(b)
  <1>1. /\ IsCell(b) /\ b[1] \in 0..id[1] /\ b = Above(id, b[1])
        /\ a[1] \in 0..id[1] /\ a = Above(id, a[1])
    BY PathMember
  <1>2. a[1] \in 0..b[1]
    <2>1. id[1] \in Nat
      BY CellParts
    <2> QED
      BY <1>1, <2>1
  <1>3. Above(b, a[1]) = Above(id, a[1])
    BY <1>1, <1>2, AboveAbove
  <1> QED
    BY <1>1, <1>2, <1>3, PathIs

LEMMA PathUnique ==
  ASSUME NEW id, IsCell(id), NEW a \in PathTo(id), NEW b \in PathTo(id), a[1] = b[1]
  PROVE  a = b
  BY PathMember

LEMMA PathTransitive ==
  ASSUME NEW id, IsCell(id), NEW b \in PathTo(id), NEW a \in PathTo(b)
  PROVE  a \in PathTo(id)
  <1>1. IsCell(b) /\ b[1] \in 0..id[1] /\ b = Above(id, b[1])
    BY PathMember
  <1>2. a[1] \in 0..b[1] /\ a = Above(b, a[1])
    BY <1>1, PathMember
  <1>3. a = Above(id, a[1])
    BY <1>1, <1>2, AboveAbove
  <1>4. a[1] \in 0..id[1]
    <2>1. id[1] \in Nat
      BY CellParts
    <2> QED
      BY <1>1, <1>2, <2>1
  <1> QED
    BY <1>3, <1>4, PathIs

(* The way to a cell is the way to its parent and the cell.                *)
LEMMA PathParent ==
  ASSUME NEW id, IsCell(id), id[1] > 0
  PROVE  /\ IsCell(ParentOf(id)) /\ ParentOf(id)[1] = id[1] - 1
         /\ ParentOf(id) \in PathTo(id)
         /\ PathTo(id) = PathTo(ParentOf(id)) \cup {id}
         /\ id \notin PathTo(ParentOf(id))
  <1>0. id[1] \in Nat
    BY CellParts
  <1>1. id[1] - 1 \in 0..id[1]
    BY <1>0
  <1>2. ParentOf(id) = Above(id, id[1] - 1)
    BY AboveParent
  <1>3. IsCell(ParentOf(id)) /\ ParentOf(id)[1] = id[1] - 1
    BY <1>1, <1>2, AboveCell
  <1>4. ParentOf(id) \in PathTo(id)
    BY <1>1, <1>2, PathIs
  <1>5. PathTo(ParentOf(id)) \subseteq PathTo(id)
    BY <1>4, PathTransitive
  <1>6. ASSUME NEW a \in PathTo(id), a # id PROVE a \in PathTo(ParentOf(id))
    <2>1. a[1] \in 0..id[1] /\ a[1] # id[1]
      BY <1>6, PathMember, AboveSelf
    <2>2. a[1] <= id[1] - 1
      BY <1>0, <2>1
    <2> QED
      BY <1>3, <1>4, <2>2, PathChain
  <1>7. id \notin PathTo(ParentOf(id))
    <2>1. ASSUME id \in PathTo(ParentOf(id)) PROVE FALSE
      <3>1. id[1] \in 0..(id[1] - 1)
        BY <1>3, <2>1, PathMember
      <3> QED
        BY <1>0, <3>1
    <2> QED
      BY <2>1
  <1> QED
    BY <1>3, <1>4, <1>5, <1>6, <1>7, PathEnds

LEMMA PathOfRoot == PathTo(Root) = {Root}
  <1>1. \A a \in PathTo(Root) : a = Root
    <2> TAKE a \in PathTo(Root)
    <2>1. a[1] \in 0..0 /\ a = Above(Root, a[1])
      BY RootIsCell, PathMember
    <2> QED
      BY <2>1, RootIsCell, AboveRoot
  <1> QED
    BY <1>1, RootIsCell, PathEnds

LEMMA CellOfLevelZero ==
  ASSUME NEW id, IsCell(id), id[1] = 0
  PROVE  id = Root
  BY AboveSelf, AboveRoot

LEMMA ChildrenAre ==
  ASSUME NEW id, IsCell(id), NEW c
  PROVE  c \in ChildrenOf(id) <=> IsCell(c) /\ c[1] = id[1] + 1 /\ ParentOf(c) = id
  <1>1. PICK n \in Nat, x \in Nat, y \in Nat : id = <<n, x, y>> /\ x < 2^n /\ y < 2^n
    BY CellParts
  <1>2. 2^(n + 1) = 2 * 2^n /\ 2^n \in Nat
    BY Powers
  <1>3. ASSUME NEW i \in 0..1, NEW j \in 0..1, c = <<n + 1, 2 * x + i, 2 * y + j>>
        PROVE  IsCell(c) /\ c[1] = n + 1 /\ ParentOf(c) = id
    <2>1. (2 * x + i) \div 2 = x /\ (2 * y + j) \div 2 = y
      OBVIOUS
    <2>2. 2 * x + i < 2 * 2^n /\ 2 * y + j < 2 * 2^n
      BY <1>1, <1>2
    <2>3. ParentOf(c) = <<n, x, y>>
      BY <1>3, <2>1 DEF ParentOf
    <2>4. IsCell(c)
      BY <1>2, <1>3, <2>2 DEF IsCell
    <2> QED
      BY <1>1, <1>3, <2>3, <2>4
  <1>4. ASSUME IsCell(c), c[1] = n + 1, ParentOf(c) = id
        PROVE  \E i \in 0..1, j \in 0..1 : c = <<n + 1, 2 * x + i, 2 * y + j>>
    <2>1. PICK u \in Nat, v \in Nat : c = <<n + 1, u, v>>
      BY <1>4, CellParts
    <2>2. u \div 2 = x /\ v \div 2 = y
      BY <1>1, <1>4, <2>1 DEF ParentOf
    <2>3. u - 2 * x \in 0..1 /\ v - 2 * y \in 0..1 /\ u = 2 * x + (u - 2 * x) /\ v = 2 * y + (v - 2 * y)
      BY <2>2
    <2> QED
      BY <2>1, <2>3
  <1>5. ChildrenOf(id) = {<<n + 1, 2 * x + i, 2 * y + j>> : i \in 0..1, j \in 0..1}
    BY <1>1 DEF ChildrenOf
  <1> QED
    BY <1>1, <1>3, <1>4, <1>5

LEMMA CellsAre ==
  ASSUME NEW depth \in Nat, NEW id
  PROVE  id \in CellsTo(depth) <=> IsCell(id) /\ id[1] <= depth
  <1>1. ASSUME id \in CellsTo(depth) PROVE IsCell(id) /\ id[1] <= depth
    <2>1. PICK l \in 0..depth :
             \E x \in 0..(2^l - 1), y \in 0..(2^l - 1) : id = <<l, x, y>>
      BY <1>1 DEF CellsTo
    <2>2. l \in Nat /\ 2^l \in Nat
      BY Powers
    <2> QED
      BY <2>1, <2>2 DEF IsCell
  <1>2. ASSUME IsCell(id), id[1] <= depth PROVE id \in CellsTo(depth)
    <2>1. PICK l \in Nat, x \in Nat, y \in Nat : id = <<l, x, y>> /\ x < 2^l /\ y < 2^l
      BY <1>2, CellParts
    <2>2. 2^l \in Nat
      BY Powers
    <2>3. l \in 0..depth /\ x \in 0..(2^l - 1) /\ y \in 0..(2^l - 1)
      BY <1>2, <2>1, <2>2
    <2> QED
      BY <2>1, <2>3 DEF CellsTo
  <1> QED
    BY <1>1, <1>2

-----------------------------------------------------------------------------
(* Boxes of cells, and the cells a position falls into.                    *)

Boxes == [minX : Int, maxX : Int, minY : Int, maxY : Int]

Upright(b) == b.minX <= b.maxX /\ b.minY <= b.maxY

LEMMA HalfIsBox ==
  ASSUME NEW b \in Boxes, NEW i, NEW j
  PROVE  Half(b, i, j) \in Boxes
  BY DEF Half, Boxes, MidX, MidY

(* Halving an upright box leaves one within it.                            *)
LEMMA HalfWithin ==
  ASSUME NEW b \in Boxes, Upright(b), NEW i, NEW j
  PROVE  /\ Upright(Half(b, i, j))
         /\ b.minX <= Half(b, i, j).minX /\ Half(b, i, j).maxX <= b.maxX
         /\ b.minY <= Half(b, i, j).minY /\ Half(b, i, j).maxY <= b.maxY
  <1>1. MidX(b) \in b.minX..b.maxX /\ MidY(b) \in b.minY..b.maxY
    BY DEF MidX, MidY, Boxes, Upright
  <1>2. b.minX \in Int /\ b.maxX \in Int /\ b.minY \in Int /\ b.maxY \in Int
    BY DEF Boxes
  <1> QED
    BY <1>1, <1>2 DEF Half, Upright

IsBoxes(f, root, id) ==
    f = [l \in 0..id[1] |->
            IF l = 0 THEN root
            ELSE Half(f[l - 1], (id[2] \div 2^(id[1] - l)) % 2,
                                (id[3] \div 2^(id[1] - l)) % 2)]

LEMMA IsBoxesAt ==
  ASSUME NEW f, NEW root, NEW id, IsBoxes(f, root, id), NEW l \in 0..id[1]
  PROVE  f[l] = IF l = 0 THEN root
                ELSE Half(f[l - 1], Shift(id[2], id[1] - l) % 2, Shift(id[3], id[1] - l) % 2)
  <1> DEFINE Value(g, i) == IF i = 0 THEN root
                            ELSE Half(g[i - 1], (id[2] \div 2^(id[1] - i)) % 2,
                                                (id[3] \div 2^(id[1] - i)) % 2)
  <1>1. f = [i \in 0..id[1] |-> Value(f, i)]
    BY Zenon DEF IsBoxes
  <1> HIDE DEF Value
  <1>2. f[l] = Value(f, l)
    BY <1>1
  <1> QED
    BY <1>2 DEF Value, Shift

LEMMA BoxesExist ==
  ASSUME NEW root \in Boxes, NEW id, IsCell(id)
  PROVE  \E f : IsBoxes(f, root, id)
  <1> DEFINE bit(x, n) == (x \div 2^(id[1] - n)) % 2
             G == [n \in Nat |-> [b \in Boxes |-> Half(b, bit(id[2], n + 1), bit(id[3], n + 1))]]
  <1> HIDE DEF bit
  <1>1. G \in [Nat -> [Boxes -> Boxes]]
    BY HalfIsBox
  <1>2. PICK h : Follows(h, Boxes, root, G)
    <2> HIDE DEF G
    <2> QED
      BY <1>1, RecursionExists
  <1> DEFINE f == [l \in 0..id[1] |-> h[l]]
  <1>3. id[1] \in Nat
    BY CellParts
  <1>4. ASSUME NEW l \in 0..id[1]
        PROVE  f[l] = IF l = 0 THEN root ELSE Half(f[l - 1], bit(id[2], l), bit(id[3], l))
    <2>1. CASE l = 0
      BY <1>2, <2>1 DEF Follows
    <2>2. CASE l # 0
      <3>1. PICK n \in Nat : l = n + 1 /\ n \in 0..id[1]
        <4>1. l - 1 \in Nat /\ l = (l - 1) + 1 /\ l - 1 \in 0..id[1]
          BY <1>3, <2>2
        <4> QED
          BY <4>1
      <3>2. f[l] = h[n + 1] /\ f[l - 1] = h[n] /\ h[n] \in Boxes
        BY <1>2, <1>3, <3>1 DEF Follows
      <3>3. h[n + 1] = Half(h[n], bit(id[2], n + 1), bit(id[3], n + 1))
        BY <1>2, <3>2 DEF Follows
      <3> QED
        BY <2>2, <3>1, <3>2, <3>3
    <2> QED
      BY <2>1, <2>2
  <1>5. f = [l \in 0..id[1] |-> f[l]]
    OBVIOUS
  <1> HIDE DEF f
  <1>6. IsBoxes(f, root, id)
    BY <1>4, <1>5 DEF IsBoxes, bit
  <1> QED
    BY <1>6

LEMMA BoxOfIs ==
  ASSUME NEW root \in Boxes, NEW id, IsCell(id)
  PROVE  \E f : IsBoxes(f, root, id) /\ BoxOf(root, id) = f[id[1]]
  <1> DEFINE f == CHOOSE g : g = [l \in 0..id[1] |->
                                     IF l = 0 THEN root
                                     ELSE Half(g[l - 1], (id[2] \div 2^(id[1] - l)) % 2,
                                                         (id[3] \div 2^(id[1] - l)) % 2)]
  <1>1. BoxOf(root, id) = f[id[1]]
    BY Zenon DEF BoxOf
  <1>2. IsBoxes(f, root, id)
    <2>1. PICK g : IsBoxes(g, root, id)
      BY BoxesExist, Zenon
    <2> QED
      BY <2>1, Zenon DEF IsBoxes
  <1> HIDE DEF f
  <1> QED
    BY <1>1, <1>2

(* The box of the root is the root's; a cell's is a half of its parent's,  *)
(* both ways.                                                              *)
LEMMA BoxOfRoot ==
  ASSUME NEW root \in Boxes
  PROVE  BoxOf(root, Root) = root
  <1>1. PICK f : IsBoxes(f, root, Root) /\ BoxOf(root, Root) = f[Root[1]]
    BY RootIsCell, BoxOfIs
  <1>2. 0 \in 0..Root[1] /\ Root[1] = 0
    BY RootIsCell
  <1> QED
    BY <1>1, <1>2, IsBoxesAt

LEMMA BoxOfCell ==
  ASSUME NEW root \in Boxes, NEW id, IsCell(id), id[1] > 0
  PROVE  BoxOf(root, id) = Half(BoxOf(root, ParentOf(id)), id[2] % 2, id[3] % 2)
  <1>1. PICK n \in Nat, x \in Nat, y \in Nat : id = <<n, x, y>> /\ n > 0
    BY CellParts
  <1>2. PICK m \in Nat : n = m + 1
    <2>1. n - 1 \in Nat /\ n = (n - 1) + 1
      BY <1>1
    <2> QED
      BY <2>1
  <1>3. ParentOf(id) = <<m, Shift(x, 1), Shift(y, 1)>> /\ IsCell(ParentOf(id))
    <2>1. Shift(x, 1) = x \div 2 /\ Shift(y, 1) = y \div 2
      BY ShiftOne
    <2>2. ParentOf(id) = <<m, Shift(x, 1), Shift(y, 1)>>
      BY <1>1, <1>2, <2>1 DEF ParentOf
    <2>3. IsCell(ParentOf(id))
      BY PathParent
    <2> QED
      BY <2>2, <2>3
  <1>4. PICK f : IsBoxes(f, root, id) /\ BoxOf(root, id) = f[n]
    BY <1>1, BoxOfIs
  <1>5. PICK g : IsBoxes(g, root, ParentOf(id)) /\ BoxOf(root, ParentOf(id)) = g[m]
    BY <1>3, BoxOfIs
  <1> DEFINE Same == {l \in Nat : l <= m => f[l] = g[l]}
  <1>6. 0 \in Same
    <2>1. 0 \in 0..id[1] /\ 0 \in 0..ParentOf(id)[1]
      BY <1>1, <1>3
    <2> QED
      BY <1>4, <1>5, <2>1, IsBoxesAt
  <1>7. ASSUME NEW l \in Nat, l \in Same PROVE l + 1 \in Same
    <2> SUFFICES ASSUME l + 1 <= m PROVE f[l + 1] = g[l + 1]
      OBVIOUS
    <2>1. PICK k \in Nat : k = m - (l + 1) /\ 1 + k = n - (l + 1)
      BY <1>2
    <2>2. l + 1 \in 0..n /\ l + 1 \in 0..m /\ (l + 1) - 1 = l /\ l + 1 # 0
      BY <1>2
    <2>3. f[l + 1] = Half(f[l], Shift(x, 1 + k) % 2, Shift(y, 1 + k) % 2)
      BY <1>1, <1>4, <2>1, <2>2, IsBoxesAt
    <2>4. g[l + 1] = Half(g[l], Shift(Shift(x, 1), k) % 2, Shift(Shift(y, 1), k) % 2)
      BY <1>3, <1>5, <2>1, <2>2, IsBoxesAt
    <2>5. f[l] = g[l]
      BY <1>7
    <2> QED
      BY <2>3, <2>4, <2>5, ShiftTwice
  <1>8. f[m] = g[m]
    <2> HIDE DEF Same
    <2>1. m \in Same
      BY <1>6, <1>7, Induction
    <2> QED
      BY <2>1 DEF Same
  <1>9. f[n] = Half(f[m], x % 2, y % 2)
    <2>1. n \in 0..n /\ n # 0 /\ n - 1 = m /\ n - n = 0
      BY <1>1, <1>2
    <2>2. f[n] = Half(f[m], Shift(x, 0) % 2, Shift(y, 0) % 2)
      BY <1>1, <1>4, <2>1, IsBoxesAt
    <2> QED
      BY <2>2, ShiftNone
  <1> QED
    BY <1>1, <1>4, <1>5, <1>8, <1>9

Places == [id : Nat \X Nat \X Nat, box : Boxes]

RightOf(p, b) == IF p.x >= MidX(b) THEN 1 ELSE 0
UpperOf(p, b) == IF p.y >= MidY(b) THEN 1 ELSE 0

(* One step down, to level l.                                              *)
Lower(p, up, l) ==
    [id  |-> <<l, 2 * up.id[2] + RightOf(p, up.box), 2 * up.id[3] + UpperOf(p, up.box)>>,
     box |-> Half(up.box, RightOf(p, up.box), UpperOf(p, up.box))]

LEMMA LowerIsPlace ==
  ASSUME NEW p, NEW up \in Places, NEW l \in Nat
  PROVE  Lower(p, up, l) \in Places
  <1>1. RightOf(p, up.box) \in 0..1 /\ UpperOf(p, up.box) \in 0..1
    BY DEF RightOf, UpperOf
  <1>2. Half(up.box, RightOf(p, up.box), UpperOf(p, up.box)) \in Boxes
    BY HalfIsBox DEF Places
  <1>3. up.id[2] \in Nat /\ up.id[3] \in Nat
    BY DEF Places
  <1>4. /\ 2 * up.id[2] + RightOf(p, up.box) \in Nat
        /\ 2 * up.id[3] + UpperOf(p, up.box) \in Nat
    BY <1>1, <1>3
  <1> QED
    BY <1>2, <1>4 DEF Lower, Places

IsDescent(f, root, p, depth) ==
    f = [l \in 0..depth |->
            IF l = 0 THEN [id |-> Root, box |-> root]
            ELSE LET up    == f[l - 1]
                     right == IF p.x >= MidX(up.box) THEN 1 ELSE 0
                     upper == IF p.y >= MidY(up.box) THEN 1 ELSE 0
                 IN  [id  |-> <<l, 2 * up.id[2] + right, 2 * up.id[3] + upper>>,
                      box |-> Half(up.box, right, upper)]]

LEMMA IsDescentIs ==
  ASSUME NEW f, NEW root, NEW p, NEW depth
  PROVE  IsDescent(f, root, p, depth) <=>
         f = [l \in 0..depth |-> IF l = 0 THEN [id |-> Root, box |-> root]
                                 ELSE Lower(p, f[l - 1], l)]
  BY Zenon DEF IsDescent, Lower, RightOf, UpperOf

LEMMA DescentExists ==
  ASSUME NEW root \in Boxes, NEW p, NEW depth \in Nat
  PROVE  \E f : IsDescent(f, root, p, depth)
  <1> DEFINE G == [n \in Nat |-> [up \in Places |-> Lower(p, up, n + 1)]]
             top == [id |-> Root, box |-> root]
  <1>1. G \in [Nat -> [Places -> Places]]
    BY LowerIsPlace
  <1>2. top \in Places
    BY DEF Places, Root
  <1>3. PICK h : Follows(h, Places, top, G)
    <2> HIDE DEF G, top
    <2> QED
      BY <1>1, <1>2, RecursionExists
  <1> DEFINE f == [l \in 0..depth |-> h[l]]
  <1> HIDE DEF top
  <1>4. ASSUME NEW l \in 0..depth
        PROVE  f[l] = IF l = 0 THEN top ELSE Lower(p, f[l - 1], l)
    <2>1. CASE l = 0
      BY <1>3, <2>1 DEF Follows
    <2>2. CASE l # 0
      <3>1. PICK n \in Nat : l = n + 1 /\ n \in 0..depth
        <4>1. l - 1 \in Nat /\ l = (l - 1) + 1 /\ l - 1 \in 0..depth
          BY <2>2
        <4> QED
          BY <4>1
      <3>2. f[l] = h[n + 1] /\ f[l - 1] = h[n] /\ h[n] \in Places
        BY <1>3, <3>1 DEF Follows
      <3>3. h[n + 1] = Lower(p, h[n], n + 1)
        BY <1>3, <3>2 DEF Follows
      <3> QED
        BY <2>2, <3>1, <3>2, <3>3
    <2> QED
      BY <2>1, <2>2
  <1>5. f = [l \in 0..depth |-> f[l]]
    OBVIOUS
  <1> HIDE DEF f
  <1>6. f = [l \in 0..depth |-> IF l = 0 THEN top ELSE Lower(p, f[l - 1], l)]
    BY <1>4, <1>5
  <1>7. IsDescent(f, root, p, depth)
    BY <1>6, IsDescentIs DEF top
  <1> QED
    BY <1>7

(* A descent starts at the root and goes down one step at a time.          *)
LEMMA DescentIs ==
  ASSUME NEW root \in Boxes, NEW p, NEW depth \in Nat
  PROVE  /\ Descent(root, p, depth)[0] = [id |-> Root, box |-> root]
         /\ \A l \in 0..(depth - 1) :
               Descent(root, p, depth)[l + 1] = Lower(p, Descent(root, p, depth)[l], l + 1)
         /\ Descent(root, p, depth) \in [0..depth -> Places]
  <1> DEFINE f == CHOOSE g : g = [l \in 0..depth |->
            IF l = 0 THEN [id |-> Root, box |-> root]
            ELSE LET up    == g[l - 1]
                     right == IF p.x >= MidX(up.box) THEN 1 ELSE 0
                     upper == IF p.y >= MidY(up.box) THEN 1 ELSE 0
                 IN  [id  |-> <<l, 2 * up.id[2] + right, 2 * up.id[3] + upper>>,
                      box |-> Half(up.box, right, upper)]]
  <1>1. Descent(root, p, depth) = f
    BY Zenon DEF Descent
  <1>2. IsDescent(f, root, p, depth)
    <2>1. PICK g : IsDescent(g, root, p, depth)
      BY DescentExists, Zenon
    <2> QED
      BY <2>1, Zenon DEF IsDescent
  <1> HIDE DEF f
  <1>3. f = [l \in 0..depth |-> IF l = 0 THEN [id |-> Root, box |-> root]
                                ELSE Lower(p, f[l - 1], l)]
    BY <1>2, IsDescentIs
  <1>4. f[0] = [id |-> Root, box |-> root]
    BY <1>3
  <1>5. ASSUME NEW l \in 0..(depth - 1) PROVE f[l + 1] = Lower(p, f[l], l + 1)
    <2>1. l + 1 \in 0..depth /\ l + 1 # 0 /\ (l + 1) - 1 = l
      OBVIOUS
    <2> QED
      BY <1>3, <2>1
  <1> DEFINE T == {l \in Nat : l <= depth => f[l] \in Places}
  <1>6. 0 \in T
    BY <1>4 DEF Places, Root
  <1>7. ASSUME NEW l \in Nat, l \in T PROVE l + 1 \in T
    <2> SUFFICES ASSUME l + 1 <= depth PROVE f[l + 1] \in Places
      OBVIOUS
    <2>1. l \in 0..(depth - 1) /\ f[l] \in Places
      BY <1>7
    <2> QED
      BY <1>5, <2>1, LowerIsPlace
  <1>8. \A l \in 0..depth : f[l] \in Places
    <2> HIDE DEF T
    <2>1. Nat \subseteq T
      BY <1>6, <1>7, Induction
    <2> QED
      BY <2>1 DEF T
  <1>9. f \in [0..depth -> Places]
    BY <1>3, <1>8
  <1> QED
    BY <1>1, <1>4, <1>5, <1>9

LEMMA LowerCell ==
  ASSUME NEW p, NEW up \in Places, NEW l \in Nat, IsCell(up.id), up.id[1] = l
  PROVE  /\ IsCell(Lower(p, up, l + 1).id) /\ Lower(p, up, l + 1).id[1] = l + 1
         /\ ParentOf(Lower(p, up, l + 1).id) = up.id
         /\ Lower(p, up, l + 1).box =
               Half(up.box, Lower(p, up, l + 1).id[2] % 2, Lower(p, up, l + 1).id[3] % 2)
  <1>1. PICK x \in Nat, y \in Nat : up.id = <<l, x, y>>
    BY CellParts
  <1>2. PICK i \in 0..1, j \in 0..1 : i = RightOf(p, up.box) /\ j = UpperOf(p, up.box)
    BY DEF RightOf, UpperOf
  <1>3. PICK c : c = <<l + 1, 2 * x + i, 2 * y + j>>
    OBVIOUS
  <1>4. Lower(p, up, l + 1).id = c /\ Lower(p, up, l + 1).box = Half(up.box, i, j)
    BY <1>1, <1>2, <1>3 DEF Lower
  <1>5. c \in ChildrenOf(up.id)
    BY <1>1, <1>3 DEF ChildrenOf
  <1>6. IsCell(c) /\ c[1] = l + 1 /\ ParentOf(c) = up.id
    BY <1>5, ChildrenAre
  <1>7. c[2] % 2 = i /\ c[3] % 2 = j
    <2>1. (2 * x + i) % 2 = i /\ (2 * y + j) % 2 = j
      OBVIOUS
    <2> QED
      BY <1>3, <2>1
  <1> QED
    BY <1>4, <1>6, <1>7

(* The cells of a descent are one below the other, each with its box.      *)
LEMMA DescentCells ==
  ASSUME NEW root \in Boxes, NEW p, NEW depth \in Nat, NEW l \in 0..depth
  PROVE  /\ IsCell(Descent(root, p, depth)[l].id) /\ Descent(root, p, depth)[l].id[1] = l
         /\ Descent(root, p, depth)[l].box = BoxOf(root, Descent(root, p, depth)[l].id)
         /\ l > 0 => ParentOf(Descent(root, p, depth)[l].id) = Descent(root, p, depth)[l - 1].id
  <1>1. PICK f : f = Descent(root, p, depth)
    OBVIOUS
  <1>2. /\ f[0] = [id |-> Root, box |-> root]
        /\ \A k \in 0..(depth - 1) : f[k + 1] = Lower(p, f[k], k + 1)
        /\ \A k \in 0..depth : f[k] \in Places
    BY <1>1, DescentIs
  <1> DEFINE T == {k \in Nat : k <= depth => /\ IsCell(f[k].id) /\ f[k].id[1] = k
                                             /\ f[k].box = BoxOf(root, f[k].id)
                                             /\ k > 0 => ParentOf(f[k].id) = f[k - 1].id}
  <1>3. 0 \in T
    BY <1>2, RootIsCell, BoxOfRoot
  <1>4. ASSUME NEW k \in Nat, k \in T PROVE k + 1 \in T
    <2> SUFFICES ASSUME k + 1 <= depth
                 PROVE  /\ IsCell(f[k + 1].id) /\ f[k + 1].id[1] = k + 1
                        /\ f[k + 1].box = BoxOf(root, f[k + 1].id)
                        /\ ParentOf(f[k + 1].id) = f[(k + 1) - 1].id
      OBVIOUS
    <2>1. /\ f[k] \in Places /\ IsCell(f[k].id) /\ f[k].id[1] = k
          /\ f[k].box = BoxOf(root, f[k].id) /\ f[k + 1] = Lower(p, f[k], k + 1)
      BY <1>2, <1>4
    <2>2. PICK v : v = f[k + 1]
      OBVIOUS
    <2>3. /\ IsCell(v.id) /\ v.id[1] = k + 1 /\ ParentOf(v.id) = f[k].id
          /\ v.box = Half(f[k].box, v.id[2] % 2, v.id[3] % 2)
      BY <2>1, <2>2, LowerCell
    <2>4. v.box = BoxOf(root, v.id)
      BY <2>1, <2>3, BoxOfCell
    <2>5. (k + 1) - 1 = k
      OBVIOUS
    <2> QED
      BY <2>2, <2>3, <2>4, <2>5
  <1>5. l \in T
    <2> HIDE DEF T
    <2>1. l \in Nat
      OBVIOUS
    <2> QED
      BY <1>3, <1>4, <2>1, Induction
  <1> QED
    BY <1>1, <1>5

LEMMA DescentPath ==
  ASSUME NEW root \in Boxes, NEW p, NEW depth \in Nat, NEW m \in 0..depth, NEW l \in 0..m
  PROVE  Descent(root, p, depth)[l].id \in PathTo(Descent(root, p, depth)[m].id)
  <1>1. PICK f : f = Descent(root, p, depth)
    OBVIOUS
  <1>2. \A k \in 0..depth : /\ IsCell(f[k].id) /\ f[k].id[1] = k
                            /\ k > 0 => ParentOf(f[k].id) = f[k - 1].id
    BY <1>1, DescentCells
  <1> DEFINE T == {k \in Nat : l + k <= m => f[l].id \in PathTo(f[l + k].id)}
  <1>3. 0 \in T
    <2>1. l + 0 = l /\ l \in 0..depth
      OBVIOUS
    <2> QED
      BY <1>2, <2>1, PathEnds
  <1>4. ASSUME NEW k \in Nat, k \in T PROVE k + 1 \in T
    <2> SUFFICES ASSUME l + (k + 1) <= m PROVE f[l].id \in PathTo(f[l + (k + 1)].id)
      OBVIOUS
    <2>1. PICK n \in 0..depth : n = l + (k + 1) /\ n > 0 /\ n - 1 = l + k
      OBVIOUS
    <2>2. f[l].id \in PathTo(f[n - 1].id)
      BY <1>4, <2>1
    <2>3. IsCell(f[n].id) /\ f[n].id[1] > 0 /\ ParentOf(f[n].id) = f[n - 1].id
      BY <1>2, <2>1
    <2> QED
      BY <2>1, <2>2, <2>3, PathParent
  <1>5. PICK k \in Nat : l + k = m
    <2>1. m - l \in Nat /\ l + (m - l) = m
      OBVIOUS
    <2> QED
      BY <2>1
  <1>6. k \in T
    <2> HIDE DEF T
    <2> QED
      BY <1>3, <1>4, Induction
  <1> QED
    BY <1>1, <1>5, <1>6

-----------------------------------------------------------------------------
(* Sums over finite sets.                                                  *)

(* What the fold of SumFunctionOnSet computes, for every subset of S.      *)
IsSums(s, f, S) ==
    s = [t \in SUBSET S |->
            IF t = {} THEN 0
            ELSE LET x == CHOOSE y \in t : TRUE IN f[x] + s[t \ {x}]]

IsSumsAt(s, f, S) ==
    \A t \in SUBSET S :
        s[t] = IF t = {} THEN 0
               ELSE f[CHOOSE y \in t : TRUE] + s[t \ {CHOOSE y \in t : TRUE}]

LEMMA SumsExist ==
  ASSUME NEW S, IsFiniteSet(S), NEW f, \A x \in S : f[x] \in Nat
  PROVE  \E s : IsSums(s, f, S)
  <1> DEFINE first(t) == CHOOSE y \in t : TRUE
             V == [SUBSET S -> Nat]
             step(g) == [t \in SUBSET S |-> IF t = {} THEN 0
                                            ELSE f[first(t)] + g[t \ {first(t)}]]
             G == [n \in Nat |-> [g \in V |-> step(g)]]
             none == [t \in SUBSET S |-> 0]
  <1>1. ASSUME NEW t \in SUBSET S, t # {}
        PROVE  first(t) \in t /\ f[first(t)] \in Nat /\ t \ {first(t)} \in SUBSET S
    <2>1. first(t) \in t
      BY <1>1
    <2> HIDE DEF first
    <2> QED
      BY <2>1
  <1> HIDE DEF first
  <1>2. ASSUME NEW g \in V PROVE step(g) \in V
    <2>1. ASSUME NEW t \in SUBSET S
          PROVE  (IF t = {} THEN 0 ELSE f[first(t)] + g[t \ {first(t)}]) \in Nat
      BY <1>1
    <2> QED
      BY <2>1
  <1>3. none \in V
    OBVIOUS
  <1>4. PICK h : Follows(h, V, none, G)
    <2>1. G \in [Nat -> [V -> V]]
      <3> HIDE DEF V, step
      <3> QED
        BY <1>2
    <2> HIDE DEF V, G, none
    <2> QED
      BY <1>3, <2>1, RecursionExists
  <1> DEFINE s == [t \in SUBSET S |-> h[Cardinality(t)][t]]
  <1>5. ASSUME NEW t \in SUBSET S
        PROVE  s[t] = IF t = {} THEN 0 ELSE f[first(t)] + s[t \ {first(t)}]
    <2>1. IsFiniteSet(t) /\ Cardinality(t) \in Nat
      BY FS_Subset, FS_CardinalityType
    <2>2. CASE t = {}
      <3>1. Cardinality(t) = 0
        BY <2>2, FS_EmptySet
      <3>2. h[0] = none
        BY <1>4 DEF Follows
      <3> QED
        BY <2>2, <3>1, <3>2
    <2>3. CASE t # {}
      <3>1. PICK x : x = first(t) /\ x \in t
        BY <1>1, <2>3
      <3>2. PICK n \in Nat : n = Cardinality(t \ {x}) /\ Cardinality(t) = n + 1
        <4>1. IsFiniteSet(t \ {x}) /\ Cardinality(t \ {x}) = Cardinality(t) - 1
          BY <2>1, <3>1, FS_RemoveElement
        <4>2. Cardinality(t \ {x}) \in Nat
          BY <4>1, FS_CardinalityType
        <4> QED
          BY <2>1, <4>1, <4>2
      <3>3. h[n + 1] = step(h[n])
        BY <1>4 DEF Follows
      <3>4. step(h[n])[t] = f[x] + h[n][t \ {x}]
        BY <2>3, <3>1
      <3>5. s[t] = h[n + 1][t] /\ s[t \ {x}] = h[n][t \ {x}]
        BY <3>2
      <3> HIDE DEF s, step
      <3> QED
        BY <2>3, <3>1, <3>3, <3>4, <3>5
    <2> QED
      BY <2>2, <2>3
  <1>6. s = [t \in SUBSET S |-> s[t]]
    OBVIOUS
  <1> HIDE DEF s
  <1>7. s = [t \in SUBSET S |-> IF t = {} THEN 0 ELSE f[first(t)] + s[t \ {first(t)}]]
    BY <1>5, <1>6
  <1>8. IsSums(s, f, S)
    BY <1>7, Zenon DEF IsSums, first
  <1> QED
    BY <1>8

LEMMA SumsAt ==
  ASSUME NEW S, IsFiniteSet(S), NEW f, \A x \in S : f[x] \in Nat
  PROVE  \E s : IsSumsAt(s, f, S) /\ SumFunctionOnSet(f, S) = s[S]
  <1> DEFINE s == CHOOSE s : s = [t \in SUBSET S |->
                     IF t = {} THEN 0
                     ELSE LET x == CHOOSE y \in t : TRUE IN f[x] + s[t \ {x}]]
  <1>1. SumFunctionOnSet(f, S) = s[S]
    BY Zenon DEF SumFunctionOnSet, FoldFunctionOnSet, MapThenFoldSet
  <1>2. IsSums(s, f, S)
    <2>1. PICK g : IsSums(g, f, S)
      BY SumsExist
    <2> QED
      BY <2>1, Zenon DEF IsSums
  <1> HIDE DEF s
  <1>3. IsSumsAt(s, f, S)
    <2> DEFINE v(t) == IF t = {} THEN 0
                       ELSE f[CHOOSE y \in t : TRUE] + s[t \ {CHOOSE y \in t : TRUE}]
    <2>1. s = [t \in SUBSET S |-> v(t)]
      BY <1>2, Zenon DEF IsSums
    <2> HIDE DEF v
    <2>2. \A t \in SUBSET S : s[t] = v(t)
      BY <2>1
    <2> QED
      BY <2>2 DEF v, IsSumsAt
  <1> QED
    BY <1>1, <1>3

LEMMA OneLess ==
  ASSUME NEW t, IsFiniteSet(t), NEW n \in Nat, Cardinality(t) = n + 1, NEW x \in t
  PROVE  IsFiniteSet(t \ {x}) /\ Cardinality(t \ {x}) = n
  <1>1. IsFiniteSet(t \ {x}) /\ Cardinality(t \ {x}) = Cardinality(t) - 1
    BY FS_RemoveElement
  <1>2. (n + 1) - 1 = n
    OBVIOUS
  <1> QED
    BY <1>1, <1>2

(* The sums over a set do not depend on the set whose subsets they are     *)
(* computed for, nor on values outside it.                                 *)
LEMMA SumsAgree ==
  ASSUME NEW S, NEW R, IsFiniteSet(S), S \subseteq R,
         NEW f, NEW g, \A x \in S : f[x] = g[x],
         NEW s, IsSumsAt(s, f, S), NEW r, IsSumsAt(r, g, R)
  PROVE  s[S] = r[S]
  <1> DEFINE T == {n \in Nat : \A t \in SUBSET S : Cardinality(t) = n => s[t] = r[t]}
  <1>0. \A t \in SUBSET S : IsFiniteSet(t) /\ Cardinality(t) \in Nat
    BY FS_Subset, FS_CardinalityType
  <1>1. 0 \in T
    <2>1. ASSUME NEW t \in SUBSET S, Cardinality(t) = 0 PROVE s[t] = r[t]
      <3>1. t = {}
        BY <1>0, <2>1, FS_EmptySet
      <3> QED
        BY <3>1 DEF IsSumsAt
    <2> QED
      BY <2>1
  <1>2. ASSUME NEW n \in Nat, n \in T PROVE n + 1 \in T
    <2>1. ASSUME NEW t \in SUBSET S, Cardinality(t) = n + 1 PROVE s[t] = r[t]
      <3>1. t # {}
        BY <2>1, FS_EmptySet
      <3>2. PICK x : x = CHOOSE y \in t : TRUE
        OBVIOUS
      <3>3. x \in t
        BY <3>1, <3>2
      <3>4. Cardinality(t \ {x}) = n
        BY <1>0, <2>1, <3>3, OneLess
      <3>5. s[t \ {x}] = r[t \ {x}]
        <4>1. t \ {x} \in SUBSET S
          OBVIOUS
        <4> QED
          BY <1>2, <3>4, <4>1
      <3>6. s[t] = f[x] + s[t \ {x}]
        BY <3>1, <3>2 DEF IsSumsAt
      <3>7. r[t] = g[x] + r[t \ {x}]
        <4>1. t \in SUBSET R
          OBVIOUS
        <4> QED
          BY <3>1, <3>2, <4>1 DEF IsSumsAt
      <3>8. f[x] = g[x]
        BY <3>3
      <3> QED
        BY <3>5, <3>6, <3>7, <3>8
    <2> QED
      BY <2>1
  <1>3. Nat \subseteq T
    <2> HIDE DEF T
    <2> QED
      BY <1>1, <1>2, Induction
  <1>4. Cardinality(S) \in T
    BY <1>0, <1>3
  <1> QED
    BY <1>4

LEMMA SumAgree ==
  ASSUME NEW S, IsFiniteSet(S), NEW f, \A x \in S : f[x] \in Nat,
         NEW g, \A x \in S : f[x] = g[x]
  PROVE  SumFunctionOnSet(f, S) = SumFunctionOnSet(g, S)
  <1>1. PICK s : IsSumsAt(s, f, S) /\ SumFunctionOnSet(f, S) = s[S]
    BY SumsAt
  <1>2. PICK r : IsSumsAt(r, g, S) /\ SumFunctionOnSet(g, S) = r[S]
    BY SumsAt
  <1> QED
    BY <1>1, <1>2, SumsAgree

LEMMA SumEmpty ==
  ASSUME NEW f
  PROVE  SumFunctionOnSet(f, {}) = 0
  <1>1. PICK s : IsSumsAt(s, f, {}) /\ SumFunctionOnSet(f, {}) = s[{}]
    BY FS_EmptySet, SumsAt
  <1> QED
    BY <1>1 DEF IsSumsAt

LEMMA SumFirst ==
  ASSUME NEW S, IsFiniteSet(S), S # {}, NEW f, \A x \in S : f[x] \in Nat
  PROVE  \E x \in S : SumFunctionOnSet(f, S) = f[x] + SumFunctionOnSet(f, S \ {x})
  <1>1. PICK s : IsSumsAt(s, f, S) /\ SumFunctionOnSet(f, S) = s[S]
    BY SumsAt
  <1>2. PICK x \in S : x = CHOOSE y \in S : TRUE
    OBVIOUS
  <1>3. s[S] = f[x] + s[S \ {x}]
    BY <1>1, <1>2 DEF IsSumsAt
  <1>4. PICK r : IsSumsAt(r, f, S \ {x}) /\ SumFunctionOnSet(f, S \ {x}) = r[S \ {x}]
    BY FS_RemoveElement, SumsAt
  <1>5. r[S \ {x}] = s[S \ {x}]
    <2>1. IsFiniteSet(S \ {x}) /\ S \ {x} \subseteq S
      BY FS_RemoveElement
    <2> QED
      BY <1>1, <1>4, <2>1, SumsAgree
  <1> QED
    BY <1>1, <1>3, <1>4, <1>5

LEMMA SumIsNat ==
  ASSUME NEW S, IsFiniteSet(S), NEW f, \A x \in S : f[x] \in Nat
  PROVE  SumFunctionOnSet(f, S) \in Nat
  <1> DEFINE sum(t) == SumFunctionOnSet(f, t)
             T == {n \in Nat : \A t \in SUBSET S : Cardinality(t) = n => sum(t) \in Nat}
  <1>0. \A t \in SUBSET S : IsFiniteSet(t) /\ Cardinality(t) \in Nat
    BY FS_Subset, FS_CardinalityType
  <1>1. 0 \in T
    BY <1>0, FS_EmptySet, SumEmpty
  <1> HIDE DEF sum
  <1>2. ASSUME NEW n \in Nat, n \in T PROVE n + 1 \in T
    <2>1. ASSUME NEW t \in SUBSET S, Cardinality(t) = n + 1 PROVE sum(t) \in Nat
      <3>1. t # {} /\ IsFiniteSet(t) /\ \A x \in t : f[x] \in Nat
        BY <1>0, <2>1, FS_EmptySet
      <3>2. PICK y \in t : sum(t) = f[y] + sum(t \ {y})
        BY <3>1, SumFirst DEF sum
      <3>3. Cardinality(t \ {y}) = n /\ t \ {y} \in SUBSET S
        BY <2>1, <3>1, OneLess
      <3>4. sum(t \ {y}) \in Nat
        BY <1>2, <3>3
      <3> QED
        BY <3>1, <3>2, <3>4
    <2> QED
      BY <2>1
  <1>3. Nat \subseteq T
    <2> HIDE DEF T
    <2> QED
      BY <1>1, <1>2, Induction
  <1>4. S \in SUBSET S /\ Cardinality(S) \in T
    BY <1>0, <1>3
  <1>5. sum(S) \in Nat
    BY <1>4
  <1> QED
    BY <1>5 DEF sum

(* Any member may be taken out of a sum of numbers.                        *)
LEMMA SumSplit ==
  ASSUME NEW S, IsFiniteSet(S), NEW f, \A x \in S : f[x] \in Nat
  PROVE  /\ SumFunctionOnSet(f, S) \in Nat
         /\ \A x \in S : SumFunctionOnSet(f, S) = f[x] + SumFunctionOnSet(f, S \ {x})
  <1> DEFINE sum(t) == SumFunctionOnSet(f, t)
             Good(t) == sum(t) \in Nat /\ \A x \in t : sum(t) = f[x] + sum(t \ {x})
             T == {n \in Nat : \A t \in SUBSET S : Cardinality(t) = n => Good(t)}
  <1>0. \A t \in SUBSET S : IsFiniteSet(t) /\ Cardinality(t) \in Nat
    BY FS_Subset, FS_CardinalityType
  <1>1. 0 \in T
    <2>1. ASSUME NEW t \in SUBSET S, Cardinality(t) = 0 PROVE Good(t)
      <3>1. t = {}
        BY <1>0, <2>1, FS_EmptySet
      <3> QED
        BY <3>1, SumEmpty
    <2> HIDE DEF Good
    <2> QED
      BY <2>1
  <1> HIDE DEF sum
  <1>2. ASSUME NEW n \in Nat, n \in T PROVE n + 1 \in T
    <2>1. ASSUME NEW t \in SUBSET S, Cardinality(t) = n + 1 PROVE Good(t)
      <3>1. t # {} /\ IsFiniteSet(t)
        BY <1>0, <2>1, FS_EmptySet
      <3>2. PICK y \in t : sum(t) = f[y] + sum(t \ {y})
        <4>1. \A x \in t : f[x] \in Nat
          OBVIOUS
        <4> QED
          BY <3>1, <4>1, SumFirst DEF sum
      <3>3. ASSUME NEW x \in t PROVE Cardinality(t \ {x}) = n /\ Good(t \ {x})
        <4>1. Cardinality(t \ {x}) = n /\ t \ {x} \in SUBSET S
          BY <2>1, <3>1, OneLess
        <4> HIDE DEF Good
        <4> QED
          BY <1>2, <4>1
      <3>4. sum(t) \in Nat
        <4>1. sum(t \ {y}) \in Nat /\ f[y] \in Nat
          BY <3>3
        <4> QED
          BY <3>2, <4>1
      <3>5. ASSUME NEW x \in t, x # y PROVE sum(t) = f[x] + sum(t \ {x})
        <4>1. PICK u : u = (t \ {y}) \ {x}
          OBVIOUS
        <4>2. u = (t \ {x}) \ {y}
          BY <4>1
        <4>3. sum(t \ {y}) = f[x] + sum(u) /\ sum(t \ {x}) = f[y] + sum(u)
          <5>1. x \in t \ {y} /\ y \in t \ {x}
            BY <3>5
          <5> QED
            BY <3>3, <4>1, <4>2, <5>1
        <4>4. sum(u) \in Nat
          <5>1. u \in SUBSET S /\ IsFiniteSet(u) /\ \A z \in u : f[z] \in Nat
            BY <1>0, <4>1
          <5> QED
            BY <5>1, SumIsNat DEF sum
        <4> QED
          BY <3>2, <4>3, <4>4
      <3> QED
        BY <3>2, <3>4, <3>5
    <2> HIDE DEF Good
    <2> QED
      BY <2>1
  <1>3. Nat \subseteq T
    <2> HIDE DEF T
    <2> QED
      BY <1>1, <1>2, Induction
  <1>4. S \in SUBSET S /\ Cardinality(S) \in T
    BY <1>0, <1>3
  <1>5. Good(S)
    <2> HIDE DEF Good
    <2> QED
      BY <1>4
  <1> QED
    BY <1>5 DEF sum

LEMMA SumAdd ==
  ASSUME NEW S, IsFiniteSet(S), NEW f, NEW x, x \notin S, \A y \in S \cup {x} : f[y] \in Nat
  PROVE  SumFunctionOnSet(f, S \cup {x}) = f[x] + SumFunctionOnSet(f, S)
  <1>1. IsFiniteSet(S \cup {x}) /\ (S \cup {x}) \ {x} = S /\ x \in S \cup {x}
    BY FS_AddElement
  <1> QED
    BY <1>1, SumSplit

(* Induction over the subsets of a finite set, for a claim that is a set   *)
(* of subsets.                                                             *)
LEMMA SetInduction ==
  ASSUME NEW S, IsFiniteSet(S), NEW T, {} \in T,
         \A t \in SUBSET S : t \in T => \A x \in S \ t : t \cup {x} \in T
  PROVE  S \in T
  <1> DEFINE N == {n \in Nat : \A t \in SUBSET S : Cardinality(t) = n => t \in T}
  <1>0. \A t \in SUBSET S : IsFiniteSet(t) /\ Cardinality(t) \in Nat
    BY FS_Subset, FS_CardinalityType
  <1>1. 0 \in N
    BY <1>0, FS_EmptySet
  <1>2. ASSUME NEW n \in Nat, n \in N PROVE n + 1 \in N
    <2>1. ASSUME NEW t \in SUBSET S, Cardinality(t) = n + 1 PROVE t \in T
      <3>1. t # {}
        <4>1. Cardinality({}) = 0 /\ n + 1 # 0
          BY FS_EmptySet
        <4> QED
          BY <2>1, <4>1
      <3>2. PICK x : x \in t
        BY <3>1
      <3>3. PICK u \in SUBSET S : u = t \ {x}
        OBVIOUS
      <3>4. Cardinality(u) = n
        BY <1>0, <2>1, <3>2, <3>3, OneLess
      <3>5. u \in T /\ x \in S \ u /\ u \cup {x} = t
        BY <1>2, <3>2, <3>3, <3>4
      <3> QED
        BY <3>5
    <2> QED
      BY <2>1
  <1>3. Nat \subseteq N
    <2> HIDE DEF N
    <2> QED
      BY <1>1, <1>2, Induction
  <1>4. Cardinality(S) \in N /\ S \in SUBSET S
    BY <1>0, <1>3
  <1> QED
    BY <1>4

LEMMA SumUnion ==
  ASSUME NEW A, IsFiniteSet(A), NEW B, IsFiniteSet(B), A \cap B = {},
         NEW f, \A x \in A \cup B : f[x] \in Nat
  PROVE  SumFunctionOnSet(f, A \cup B) = SumFunctionOnSet(f, A) + SumFunctionOnSet(f, B)
  <1> DEFINE sum(t) == SumFunctionOnSet(f, t)
             T == {t \in SUBSET B : sum(A \cup t) = sum(A) + sum(t)}
  <1>0. sum(A) \in Nat
    BY SumIsNat
  <1>1. {} \in T
    <2>1. A \cup {} = A
      OBVIOUS
    <2> HIDE DEF sum
    <2>2. sum({}) = 0
      BY SumEmpty DEF sum
    <2> QED
      BY <1>0, <2>1, <2>2
  <1>2. ASSUME NEW t \in SUBSET B, t \in T, NEW x \in B \ t PROVE t \cup {x} \in T
    <2>1. IsFiniteSet(t) /\ IsFiniteSet(A \cup t) /\ x \notin A \cup t
      BY FS_Subset, FS_Union
    <2>2. sum(t \cup {x}) = f[x] + sum(t)
      <3>1. x \notin t /\ \A y \in t \cup {x} : f[y] \in Nat
        OBVIOUS
      <3> QED
        BY <2>1, <3>1, SumAdd
    <2>3. sum((A \cup t) \cup {x}) = f[x] + sum(A \cup t)
      <3>1. \A y \in (A \cup t) \cup {x} : f[y] \in Nat
        OBVIOUS
      <3> QED
        BY <2>1, <3>1, SumAdd
    <2>4. sum(t) \in Nat /\ f[x] \in Nat
      <3>1. \A y \in t : f[y] \in Nat
        OBVIOUS
      <3> QED
        BY <2>1, <3>1, SumIsNat
    <2>5. (A \cup t) \cup {x} = A \cup (t \cup {x}) /\ t \cup {x} \in SUBSET B
      OBVIOUS
    <2>6. sum(A \cup t) = sum(A) + sum(t)
      BY <1>2
    <2> HIDE DEF sum
    <2>7. sum(A \cup (t \cup {x})) = sum(A) + sum(t \cup {x})
      <3>1. PICK a \in Nat, b \in Nat, d \in Nat : a = sum(A) /\ b = sum(t) /\ d = f[x]
        BY <1>0, <2>4
      <3>2. sum((A \cup t) \cup {x}) = d + (a + b) /\ sum(t \cup {x}) = d + b
        BY <2>2, <2>3, <2>6, <3>1, Zenon
      <3>3. d + (a + b) = a + (d + b)
        OBVIOUS
      <3> QED
        BY <2>5, <3>1, <3>2, <3>3, Zenon
    <2> QED
      BY <2>5, <2>7
  <1>3. B \in T
    <2> HIDE DEF T
    <2> QED
      BY <1>1, <1>2, SetInduction
  <1> QED
    BY <1>3

Part(part, K, p) == {k \in K : part[k] = p}

(* The sums of the parts make the sum of the whole.                        *)
LEMMA SumPartition ==
  ASSUME NEW P, IsFiniteSet(P), NEW K, IsFiniteSet(K), NEW w, \A k \in K : w[k] \in Nat,
         NEW part \in [K -> P],
         NEW f, \A p \in P : f[p] = SumFunctionOnSet(w, Part(part, K, p))
  PROVE  SumFunctionOnSet(f, P) = SumFunctionOnSet(w, K)
  <1> DEFINE in(t) == {k \in K : part[k] \in t}
             of(p) == {k \in K : part[k] = p}
             T == {t \in SUBSET P : SumFunctionOnSet(f, t) = SumFunctionOnSet(w, in(t))}
  <1>0. \A t : IsFiniteSet(in(t)) /\ IsFiniteSet(of(t)) /\ \A k \in in(t) \cup of(t) : w[k] \in Nat
    <2> TAKE t
    <2>1. in(t) \in SUBSET K /\ of(t) \in SUBSET K
      OBVIOUS
    <2> HIDE DEF in, of
    <2> QED
      BY <2>1, FS_Subset
  <1>1. {} \in T
    <2>1. in({}) = {}
      OBVIOUS
    <2> HIDE DEF in
    <2> QED
      BY <2>1, SumEmpty
  <1>2. ASSUME NEW t \in SUBSET P, t \in T, NEW p \in P \ t PROVE t \cup {p} \in T
    <2>1. in(t \cup {p}) = in(t) \cup of(p) /\ in(t) \cap of(p) = {}
      OBVIOUS
    <2>2. \A q \in P : f[q] = SumFunctionOnSet(w, of(q))
      BY DEF Part
    <2>3. SumFunctionOnSet(f, t) = SumFunctionOnSet(w, in(t))
      BY <1>2
    <2> HIDE DEF in, of
    <2>4. \A q \in P : f[q] \in Nat
      BY <1>0, <2>2, SumIsNat
    <2>5. SumFunctionOnSet(f, t \cup {p}) = f[p] + SumFunctionOnSet(f, t)
      <3>1. IsFiniteSet(t) /\ p \notin t /\ \A q \in t \cup {p} : f[q] \in Nat
        BY <2>4, FS_Subset
      <3> QED
        BY <3>1, SumAdd
    <2>6. SumFunctionOnSet(w, in(t) \cup of(p)) = SumFunctionOnSet(w, in(t)) + f[p]
      BY <1>0, <2>1, <2>2, SumUnion
    <2>7. SumFunctionOnSet(w, in(t)) \in Nat
      BY <1>0, SumIsNat
    <2>8. SumFunctionOnSet(f, t \cup {p}) = SumFunctionOnSet(w, in(t \cup {p}))
      <3>1. PICK a \in Nat, d \in Nat : a = SumFunctionOnSet(w, in(t)) /\ d = f[p]
        BY <2>4, <2>7
      <3>2. /\ SumFunctionOnSet(f, t \cup {p}) = d + a
            /\ SumFunctionOnSet(w, in(t \cup {p})) = a + d
        BY <2>1, <2>3, <2>5, <2>6, <3>1, Zenon
      <3> QED
        BY <3>2
    <2> QED
      BY <2>8
  <1>3. P \in T
    <2> HIDE DEF T
    <2> QED
      BY <1>1, <1>2, SetInduction
  <1>4. in(P) = K
    OBVIOUS
  <1> HIDE DEF in
  <1> QED
    BY <1>3, <1>4

LEMMA SumOfOnes ==
  ASSUME NEW S, IsFiniteSet(S), NEW f, \A x \in S : f[x] = 1
  PROVE  SumFunctionOnSet(f, S) = Cardinality(S)
  <1> DEFINE T == {t \in SUBSET S : SumFunctionOnSet(f, t) = Cardinality(t)}
  <1>1. {} \in T
    BY SumEmpty, FS_EmptySet
  <1>2. ASSUME NEW t \in SUBSET S, t \in T, NEW x \in S \ t PROVE t \cup {x} \in T
    <2>1. IsFiniteSet(t) /\ x \notin t /\ \A y \in t \cup {x} : f[y] \in Nat
      BY FS_Subset
    <2>2. SumFunctionOnSet(f, t \cup {x}) = 1 + SumFunctionOnSet(f, t)
      BY <2>1, SumAdd
    <2>3. Cardinality(t \cup {x}) = Cardinality(t) + 1 /\ Cardinality(t) \in Nat
      BY <2>1, FS_AddElement, FS_CardinalityType
    <2>4. SumFunctionOnSet(f, t) = Cardinality(t)
      BY <1>2
    <2> QED
      BY <2>2, <2>3, <2>4
  <1> HIDE DEF T
  <1>3. S \in T
    BY <1>1, <1>2, SetInduction
  <1> QED
    BY <1>3 DEF T

LEMMA SumSingle ==
  ASSUME NEW f, NEW x, f[x] \in Nat
  PROVE  SumFunctionOnSet(f, {x}) = f[x]
  <1>1. SumFunctionOnSet(f, {} \cup {x}) = f[x] + SumFunctionOnSet(f, {})
    BY FS_EmptySet, SumAdd
  <1>2. {} \cup {x} = {x}
    OBVIOUS
  <1> QED
    BY <1>1, <1>2, SumEmpty

(* A sum is as large as each of its parts.                                 *)
LEMMA SumOfPart ==
  ASSUME NEW S, IsFiniteSet(S), NEW f, \A x \in S : f[x] \in Nat, NEW t \in SUBSET S
  PROVE  SumFunctionOnSet(f, t) \in Nat /\ SumFunctionOnSet(f, t) <= SumFunctionOnSet(f, S)
  <1>1. IsFiniteSet(t) /\ IsFiniteSet(S \ t) /\ t \cap (S \ t) = {} /\ t \cup (S \ t) = S
    BY FS_Subset, FS_Difference
  <1>2. /\ SumFunctionOnSet(f, t) \in Nat /\ SumFunctionOnSet(f, S \ t) \in Nat
    BY <1>1, SumIsNat
  <1>3. SumFunctionOnSet(f, S) = SumFunctionOnSet(f, t) + SumFunctionOnSet(f, S \ t)
    BY <1>1, SumUnion
  <1> QED
    BY <1>2, <1>3

(* A sum of a member that is not zero is not zero, and conversely.         *)
LEMMA SumPositive ==
  ASSUME NEW S, IsFiniteSet(S), NEW f, \A x \in S : f[x] \in Nat \ {0}
  PROVE  SumFunctionOnSet(f, S) > 0 <=> S # {}
  <1>1. ASSUME NEW x \in S PROVE SumFunctionOnSet(f, S) > 0
    <2>1. SumFunctionOnSet(f, S) = f[x] + SumFunctionOnSet(f, S \ {x})
      BY SumSplit
    <2>2. SumFunctionOnSet(f, S \ {x}) \in Nat /\ f[x] \in Nat /\ f[x] > 0
      BY SumOfPart
    <2> QED
      BY <2>1, <2>2
  <1> QED
    BY <1>1, SumEmpty

-----------------------------------------------------------------------------
(* Hulls.                                                                  *)

LEMMA MinMax ==
  ASSUME NEW S \in SUBSET Int, IsFiniteSet(S), S # {}
  PROVE  /\ Min(S) \in S /\ \A x \in S : Min(S) <= x
         /\ Max(S) \in S /\ \A x \in S : x <= Max(S)
  <1> DEFINE T == {t \in SUBSET S : t # {} => /\ \E m \in t : \A x \in t : m <= x
                                              /\ \E m \in t : \A x \in t : x <= m}
  <1>1. {} \in T
    OBVIOUS
  <1>2. ASSUME NEW t \in SUBSET S, t \in T, NEW y \in S \ t PROVE t \cup {y} \in T
    <2>1. CASE t = {}
      BY <2>1
    <2>2. CASE t # {}
      <3>1. PICK m \in t : \A x \in t : m <= x
        BY <1>2, <2>2
      <3>2. PICK n \in t : \A x \in t : x <= n
        BY <1>2, <2>2
      <3>3. \E k \in t \cup {y} : \A x \in t \cup {y} : k <= x
        <4>1. CASE m <= y
          BY <3>1, <4>1
        <4>2. CASE y <= m
          BY <3>1, <4>2
        <4> QED
          BY <4>1, <4>2
      <3>4. \E k \in t \cup {y} : \A x \in t \cup {y} : x <= k
        <4>1. CASE y <= n
          BY <3>2, <4>1
        <4>2. CASE n <= y
          BY <3>2, <4>2
        <4> QED
          BY <4>1, <4>2
      <3> QED
        BY <3>3, <3>4
    <2> QED
      BY <2>1, <2>2
  <1>3. S \in T
    <2> HIDE DEF T
    <2> QED
      BY <1>1, <1>2, SetInduction
  <1> QED
    BY <1>3 DEF Min, Max

IsPoint(p) == p.x \in Int /\ p.y \in Int

(* A box is the hull of positions: it holds them all, and each of its      *)
(* sides has one of them.                                                  *)
Spans(b, I, at) ==
    /\ b \in Boxes
    /\ \A i \in I : IsPoint(at[i]) /\ InBox(at[i], b)
    /\ \E i \in I : at[i].x = b.minX
    /\ \E i \in I : at[i].x = b.maxX
    /\ \E i \in I : at[i].y = b.minY
    /\ \E i \in I : at[i].y = b.maxY

LEMMA SpansUpright ==
  ASSUME NEW b, NEW I, NEW at, Spans(b, I, at)
  PROVE  b \in Boxes /\ Upright(b)
  BY DEF Spans, Upright, InBox, Boxes, IsPoint

LEMMA SpansOne ==
  ASSUME NEW b, NEW c, NEW I, NEW at, Spans(b, I, at), Spans(c, I, at)
  PROVE  b = c
  <1>1. b.minX = c.minX
    BY DEF Spans, InBox, Boxes, IsPoint
  <1>2. b.maxX = c.maxX
    BY DEF Spans, InBox, Boxes, IsPoint
  <1>3. b.minY = c.minY
    BY DEF Spans, InBox, Boxes, IsPoint
  <1>4. b.maxY = c.maxY
    BY DEF Spans, InBox, Boxes, IsPoint
  <1>5. b \in Boxes /\ c \in Boxes
    BY DEF Spans
  <1> QED
    BY <1>1, <1>2, <1>3, <1>4, <1>5 DEF Boxes

(* What the hull of boxes is.                                              *)
LEMMA HullIs ==
  ASSUME NEW S \in SUBSET Boxes, IsFiniteSet(S), S # {}
  PROVE  /\ Hull(S) \in Boxes
         /\ \A b \in S : /\ Hull(S).minX <= b.minX /\ b.maxX <= Hull(S).maxX
                         /\ Hull(S).minY <= b.minY /\ b.maxY <= Hull(S).maxY
         /\ \E b \in S : Hull(S).minX = b.minX
         /\ \E b \in S : Hull(S).maxX = b.maxX
         /\ \E b \in S : Hull(S).minY = b.minY
         /\ \E b \in S : Hull(S).maxY = b.maxY
  <1> DEFINE side(f) == {f[b] : b \in S}
  <1>1. ASSUME NEW f \in [S -> Int]
        PROVE  side(f) \in SUBSET Int /\ IsFiniteSet(side(f)) /\ side(f) # {}
    <2>1. f \in Surjection(S, side(f))
      BY DEF Surjection
    <2>2. IsFiniteSet(side(f))
      BY <2>1, FS_Surjection
    <2> QED
      BY <2>2
  <1>2. /\ {b.minX : b \in S} \in SUBSET Int /\ IsFiniteSet({b.minX : b \in S})
        /\ {b.minX : b \in S} # {}
    <2>1. PICK f \in [S -> Int] : f = [b \in S |-> b.minX]
      BY DEF Boxes
    <2>2. side(f) = {b.minX : b \in S}
      BY <2>1
    <2> QED
      BY <1>1, <2>2
  <1>3. /\ {b.maxX : b \in S} \in SUBSET Int /\ IsFiniteSet({b.maxX : b \in S})
        /\ {b.maxX : b \in S} # {}
    <2>1. PICK f \in [S -> Int] : f = [b \in S |-> b.maxX]
      BY DEF Boxes
    <2>2. side(f) = {b.maxX : b \in S}
      BY <2>1
    <2> QED
      BY <1>1, <2>2
  <1>4. /\ {b.minY : b \in S} \in SUBSET Int /\ IsFiniteSet({b.minY : b \in S})
        /\ {b.minY : b \in S} # {}
    <2>1. PICK f \in [S -> Int] : f = [b \in S |-> b.minY]
      BY DEF Boxes
    <2>2. side(f) = {b.minY : b \in S}
      BY <2>1
    <2> QED
      BY <1>1, <2>2
  <1>5. /\ {b.maxY : b \in S} \in SUBSET Int /\ IsFiniteSet({b.maxY : b \in S})
        /\ {b.maxY : b \in S} # {}
    <2>1. PICK f \in [S -> Int] : f = [b \in S |-> b.maxY]
      BY DEF Boxes
    <2>2. side(f) = {b.maxY : b \in S}
      BY <2>1
    <2> QED
      BY <1>1, <2>2
  <1> HIDE DEF side
  <1>6. /\ Min({b.minX : b \in S}) \in {b.minX : b \in S}
        /\ \A x \in {b.minX : b \in S} : Min({b.minX : b \in S}) <= x
    BY <1>2, MinMax
  <1>7. /\ Max({b.maxX : b \in S}) \in {b.maxX : b \in S}
        /\ \A x \in {b.maxX : b \in S} : x <= Max({b.maxX : b \in S})
    BY <1>3, MinMax
  <1>8. /\ Min({b.minY : b \in S}) \in {b.minY : b \in S}
        /\ \A x \in {b.minY : b \in S} : Min({b.minY : b \in S}) <= x
    BY <1>4, MinMax
  <1>9. /\ Max({b.maxY : b \in S}) \in {b.maxY : b \in S}
        /\ \A x \in {b.maxY : b \in S} : x <= Max({b.maxY : b \in S})
    BY <1>5, MinMax
  <1>10. PICK h : h = Hull(S)
    OBVIOUS
  <1>11. h = [minX |-> Min({b.minX : b \in S}), maxX |-> Max({b.maxX : b \in S}),
              minY |-> Min({b.minY : b \in S}), maxY |-> Max({b.maxY : b \in S})]
    BY <1>10 DEF Hull
  <1>12. h \in Boxes
    BY <1>2, <1>3, <1>4, <1>5, <1>6, <1>7, <1>8, <1>9, <1>11 DEF Boxes
  <1>13. ASSUME NEW b \in S
         PROVE  h.minX <= b.minX /\ b.maxX <= h.maxX /\ h.minY <= b.minY /\ b.maxY <= h.maxY
    BY <1>6, <1>7, <1>8, <1>9, <1>11
  <1>14. \E b \in S : h.minX = b.minX
    BY <1>6, <1>11
  <1>15. \E b \in S : h.maxX = b.maxX
    BY <1>7, <1>11
  <1>16. \E b \in S : h.minY = b.minY
    BY <1>8, <1>11
  <1>17. \E b \in S : h.maxY = b.maxY
    BY <1>9, <1>11
  <1> QED
    BY <1>10, <1>12, <1>13, <1>14, <1>15, <1>16, <1>17

(* A box around boxes within it is their hull if each of its sides is a    *)
(* side of one of them.                                                    *)
LEMMA HullUnique ==
  ASSUME NEW S \in SUBSET Boxes, IsFiniteSet(S), S # {}, NEW h \in Boxes,
         \A b \in S : /\ h.minX <= b.minX /\ b.maxX <= h.maxX
                      /\ h.minY <= b.minY /\ b.maxY <= h.maxY,
         \E b \in S : h.minX = b.minX, \E b \in S : h.maxX = b.maxX,
         \E b \in S : h.minY = b.minY, \E b \in S : h.maxY = b.maxY
  PROVE  Hull(S) = h
  <1>1. PICK g \in Boxes : g = Hull(S)
    BY HullIs
  <1>2. /\ \A b \in S : /\ g.minX <= b.minX /\ b.maxX <= g.maxX
                        /\ g.minY <= b.minY /\ b.maxY <= g.maxY
        /\ \E b \in S : g.minX = b.minX
        /\ \E b \in S : g.maxX = b.maxX
        /\ \E b \in S : g.minY = b.minY
        /\ \E b \in S : g.maxY = b.maxY
    BY <1>1, HullIs
  <1>3. g.minX = h.minX
    BY <1>2 DEF Boxes
  <1>4. g.maxX = h.maxX
    BY <1>2 DEF Boxes
  <1>5. g.minY = h.minY
    BY <1>2 DEF Boxes
  <1>6. g.maxY = h.maxY
    BY <1>2 DEF Boxes
  <1> QED
    BY <1>1, <1>3, <1>4, <1>5, <1>6 DEF Boxes

LEMMA HullOfOne ==
  ASSUME NEW b \in Boxes
  PROVE  Hull({b}) = b
  <1>1. IsFiniteSet({b}) /\ {b} \in SUBSET Boxes /\ {b} # {}
    BY FS_Singleton
  <1>2. b.minX <= b.minX /\ b.maxX <= b.maxX /\ b.minY <= b.minY /\ b.maxY <= b.maxY
    BY DEF Boxes
  <1> QED
    BY <1>1, <1>2, HullUnique

LEMMA AroundIs ==
  ASSUME NEW p, IsPoint(p)
  PROVE  Around(p) \in Boxes /\ InBox(p, Around(p))
  BY DEF Around, Boxes, IsPoint, InBox

LEMMA SpansFirst ==
  ASSUME NEW at, NEW j, IsPoint(at[j])
  PROVE  Spans(Around(at[j]), {j}, at)
  BY AroundIs DEF Spans, Around

LEMMA SpansNext ==
  ASSUME NEW b, NEW I, NEW at, Spans(b, I, at), NEW j, IsPoint(at[j])
  PROVE  Spans(Hull({b, Around(at[j])}), I \cup {j}, at)
  <1>1. PICK a \in Boxes : a = Around(at[j])
    BY AroundIs
  <1>2. b \in Boxes /\ IsFiniteSet({b, a}) /\ {b, a} # {}
    <2>1. {b, a} = {b} \cup {a} /\ IsFiniteSet({b}) /\ IsFiniteSet({a})
      BY FS_Singleton
    <2> QED
      BY <2>1, FS_Union DEF Spans
  <1>3. PICK h \in Boxes : h = Hull({b, a})
    BY <1>2, HullIs
  <1>4. /\ \A c \in {b, a} : /\ h.minX <= c.minX /\ c.maxX <= h.maxX
                             /\ h.minY <= c.minY /\ c.maxY <= h.maxY
        /\ \E c \in {b, a} : h.minX = c.minX
        /\ \E c \in {b, a} : h.maxX = c.maxX
        /\ \E c \in {b, a} : h.minY = c.minY
        /\ \E c \in {b, a} : h.maxY = c.maxY
    BY <1>2, <1>3, HullIs
  <1>5. a.minX = at[j].x /\ a.maxX = at[j].x /\ a.minY = at[j].y /\ a.maxY = at[j].y
    BY <1>1 DEF Around
  <1>6. ASSUME NEW i \in I \cup {j} PROVE IsPoint(at[i]) /\ InBox(at[i], h)
    <2>1. CASE i = j
      BY <1>2, <1>4, <1>5, <2>1 DEF InBox, IsPoint, Boxes
    <2>2. CASE i \in I
      <3>1. IsPoint(at[i]) /\ InBox(at[i], b)
        BY <2>2 DEF Spans
      <3> QED
        BY <1>2, <1>4, <3>1 DEF InBox, IsPoint, Boxes
    <2> QED
      BY <2>1, <2>2
  <1>7. /\ \E i \in I : at[i].x = b.minX
        /\ \E i \in I : at[i].x = b.maxX
        /\ \E i \in I : at[i].y = b.minY
        /\ \E i \in I : at[i].y = b.maxY
    BY DEF Spans
  <1>8. \E i \in I \cup {j} : at[i].x = h.minX
    BY <1>4, <1>5, <1>7
  <1>9. \E i \in I \cup {j} : at[i].x = h.maxX
    BY <1>4, <1>5, <1>7
  <1>10. \E i \in I \cup {j} : at[i].y = h.minY
    BY <1>4, <1>5, <1>7
  <1>11. \E i \in I \cup {j} : at[i].y = h.maxY
    BY <1>4, <1>5, <1>7
  <1> QED
    BY <1>1, <1>3, <1>6, <1>8, <1>9, <1>10, <1>11 DEF Spans

LEMMA SpansHull ==
  ASSUME NEW I, IsFiniteSet(I), I # {}, NEW at, \A i \in I : IsPoint(at[i])
  PROVE  Spans(Hull({Around(at[i]) : i \in I}), I, at)
  <1> DEFINE S == {Around(at[i]) : i \in I}
  <1>1. S \in SUBSET Boxes /\ S # {}
    BY AroundIs
  <1>2. IsFiniteSet(S)
    <2>1. [i \in I |-> Around(at[i])] \in Surjection(I, S)
      BY DEF Surjection
    <2> QED
      BY <2>1, FS_Surjection
  <1>3. \A i \in I : Around(at[i]) \in S
    OBVIOUS
  <1>4. \A b \in S : \E i \in I : b = Around(at[i])
    OBVIOUS
  <1>5. Hull(S) = Hull({Around(at[i]) : i \in I})
    OBVIOUS
  <1> HIDE DEF S
  <1>6. PICK h \in Boxes : h = Hull(S)
    BY <1>1, <1>2, HullIs
  <1>7. /\ \A b \in S : /\ h.minX <= b.minX /\ b.maxX <= h.maxX
                        /\ h.minY <= b.minY /\ b.maxY <= h.maxY
        /\ \E b \in S : h.minX = b.minX
        /\ \E b \in S : h.maxX = b.maxX
        /\ \E b \in S : h.minY = b.minY
        /\ \E b \in S : h.maxY = b.maxY
    BY <1>1, <1>2, <1>6, HullIs
  <1>8. \A i \in I : /\ Around(at[i]).minX = at[i].x /\ Around(at[i]).maxX = at[i].x
                     /\ Around(at[i]).minY = at[i].y /\ Around(at[i]).maxY = at[i].y
    BY DEF Around
  <1>9. ASSUME NEW i \in I PROVE InBox(at[i], h)
    <2>1. /\ h.minX <= at[i].x /\ at[i].x <= h.maxX
          /\ h.minY <= at[i].y /\ at[i].y <= h.maxY
      BY <1>3, <1>7, <1>8
    <2> QED
      BY <2>1 DEF InBox, IsPoint, Boxes
  <1>10. \E i \in I : at[i].x = h.minX
    BY <1>4, <1>7, <1>8
  <1>11. \E i \in I : at[i].x = h.maxX
    BY <1>4, <1>7, <1>8
  <1>12. \E i \in I : at[i].y = h.minY
    BY <1>4, <1>7, <1>8
  <1>13. \E i \in I : at[i].y = h.maxY
    BY <1>4, <1>7, <1>8
  <1> QED
    BY <1>5, <1>6, <1>9, <1>10, <1>11, <1>12, <1>13 DEF Spans

-----------------------------------------------------------------------------
(* Where a position lies in the boxes of its descent.                      *)

(* The box of a cell is upright and within the root's.                     *)
LEMMA BoxOfWithin ==
  ASSUME NEW root \in Boxes, Upright(root), NEW id, IsCell(id)
  PROVE  /\ BoxOf(root, id) \in Boxes /\ Upright(BoxOf(root, id))
         /\ root.minX <= BoxOf(root, id).minX /\ BoxOf(root, id).maxX <= root.maxX
         /\ root.minY <= BoxOf(root, id).minY /\ BoxOf(root, id).maxY <= root.maxY
  <1> DEFINE Fits(b) == /\ b \in Boxes /\ Upright(b)
                        /\ root.minX <= b.minX /\ b.maxX <= root.maxX
                        /\ root.minY <= b.minY /\ b.maxY <= root.maxY
             T == {n \in Nat : n <= id[1] => Fits(BoxOf(root, Above(id, n)))}
  <1>1. id[1] \in Nat
    BY CellParts
  <1>2. 0 \in T
    <2>1. Above(id, 0) = Root /\ BoxOf(root, Root) = root
      BY AboveRoot, BoxOfRoot
    <2>2. Fits(root)
      BY DEF Boxes
    <2> HIDE DEF Fits
    <2> QED
      BY <2>1, <2>2
  <1>3. ASSUME NEW n \in Nat, n \in T PROVE n + 1 \in T
    <2> SUFFICES ASSUME n + 1 <= id[1] PROVE Fits(BoxOf(root, Above(id, n + 1)))
      OBVIOUS
    <2>1. PICK c : c = Above(id, n + 1)
      OBVIOUS
    <2>2. IsCell(c) /\ c[1] = n + 1 /\ c[1] > 0 /\ n \in 0..c[1] /\ n + 1 \in 0..id[1]
      BY <1>1, <2>1, AboveCell
    <2>3. ParentOf(c) = Above(id, n)
      <3>1. ParentOf(c) = Above(c, n)
        <4>1. c[1] - 1 = n
          BY <2>2
        <4> QED
          BY <2>2, <4>1, AboveParent
      <3>2. Above(c, n) = Above(id, n)
        <4>1. n \in 0..(n + 1)
          OBVIOUS
        <4> QED
          BY <2>1, <2>2, <4>1, AboveAbove
      <3> QED
        BY <3>1, <3>2
    <2>4. PICK b : b = BoxOf(root, Above(id, n))
      OBVIOUS
    <2>5. Fits(b)
      BY <1>1, <1>3, <2>4
    <2>6. PICK h : h = BoxOf(root, c) /\ h = Half(b, c[2] % 2, c[3] % 2)
      BY <2>2, <2>3, <2>4, BoxOfCell
    <2>7. /\ h \in Boxes /\ Upright(h) /\ b.minX <= h.minX /\ h.maxX <= b.maxX
          /\ b.minY <= h.minY /\ h.maxY <= b.maxY
      BY <2>5, <2>6, HalfIsBox, HalfWithin
    <2>8. Fits(h)
      BY <2>5, <2>7 DEF Boxes
    <2> HIDE DEF Fits
    <2> QED
      BY <2>1, <2>6, <2>8
  <1>4. id[1] \in T
    <2> HIDE DEF T
    <2> QED
      BY <1>1, <1>2, <1>3, Induction
  <1>5. Fits(BoxOf(root, id))
    <2> HIDE DEF Fits
    <2> QED
      BY <1>4, AboveSelf
  <1> QED
    BY <1>5

(* A position in the box of the root is in every box of its descent, and   *)
(* on the sides of each that it was on the sides of.                       *)
LEMMA LowerHolds ==
  ASSUME NEW p, IsPoint(p), NEW up \in Places, Upright(up.box), InBox(p, up.box), NEW l
  PROVE  /\ InBox(p, Lower(p, up, l).box)
         /\ Upright(Lower(p, up, l).box)
         /\ p.x = up.box.minX => p.x = Lower(p, up, l).box.minX
         /\ p.x = up.box.maxX => p.x = Lower(p, up, l).box.maxX
         /\ p.y = up.box.minY => p.y = Lower(p, up, l).box.minY
         /\ p.y = up.box.maxY => p.y = Lower(p, up, l).box.maxY
  <1>1. PICK b \in Boxes : b = up.box
    BY DEF Places
  <1>2. PICK x \in Int, y \in Int : x = p.x /\ y = p.y
    BY DEF IsPoint
  <1>3. PICK m \in Int, n \in Int : m = MidX(b) /\ n = MidY(b)
    BY DEF MidX, MidY, Boxes
  <1>4. /\ b.minX <= m /\ m <= b.maxX /\ b.minY <= n /\ n <= b.maxY
        /\ x \in b.minX..b.maxX /\ y \in b.minY..b.maxY
    BY <1>1, <1>2, <1>3 DEF MidX, MidY, Boxes, Upright, InBox
  <1>5. PICK h : h = Lower(p, up, l).box
    OBVIOUS
  <1>6. h = [minX |-> IF x >= m THEN m ELSE b.minX, maxX |-> IF x >= m THEN b.maxX ELSE m,
             minY |-> IF y >= n THEN n ELSE b.minY, maxY |-> IF y >= n THEN b.maxY ELSE n]
    <2>1. h = Half(b, IF x >= m THEN 1 ELSE 0, IF y >= n THEN 1 ELSE 0)
      BY <1>1, <1>2, <1>3, <1>5 DEF Lower, RightOf, UpperOf
    <2> QED
      BY <1>3, <2>1 DEF Half
  <1>7. b.minX \in Int /\ b.maxX \in Int /\ b.minY \in Int /\ b.maxY \in Int
    BY DEF Boxes
  <1>8. InBox(p, h) /\ Upright(h)
    BY <1>2, <1>4, <1>6, <1>7 DEF InBox, Upright
  <1>9. /\ x = b.minX => x = h.minX
        /\ x = b.maxX => x = h.maxX
        /\ y = b.minY => y = h.minY
        /\ y = b.maxY => y = h.maxY
    BY <1>4, <1>6, <1>7
  <1> QED
    BY <1>1, <1>2, <1>5, <1>8, <1>9

LEMMA DescentHolds ==
  ASSUME NEW root \in Boxes, Upright(root), NEW p, IsPoint(p), InBox(p, root),
         NEW depth \in Nat, NEW l \in 0..depth
  PROVE  /\ InBox(p, Descent(root, p, depth)[l].box)
         /\ p.x = root.minX => p.x = Descent(root, p, depth)[l].box.minX
         /\ p.x = root.maxX => p.x = Descent(root, p, depth)[l].box.maxX
         /\ p.y = root.minY => p.y = Descent(root, p, depth)[l].box.minY
         /\ p.y = root.maxY => p.y = Descent(root, p, depth)[l].box.maxY
  <1>1. PICK f : f = Descent(root, p, depth)
    OBVIOUS
  <1>2. /\ f[0] = [id |-> Root, box |-> root]
        /\ \A k \in 0..(depth - 1) : f[k + 1] = Lower(p, f[k], k + 1)
        /\ \A k \in 0..depth : f[k] \in Places
    BY <1>1, DescentIs
  <1> DEFINE Fits(b) == /\ InBox(p, b) /\ Upright(b)
                        /\ p.x = root.minX => p.x = b.minX
                        /\ p.x = root.maxX => p.x = b.maxX
                        /\ p.y = root.minY => p.y = b.minY
                        /\ p.y = root.maxY => p.y = b.maxY
             T == {k \in Nat : k <= depth => Fits(f[k].box)}
  <1>3. 0 \in T
    <2>1. Fits(root) /\ f[0].box = root
      BY <1>2
    <2> HIDE DEF Fits
    <2> QED
      BY <2>1
  <1>4. ASSUME NEW k \in Nat, k \in T PROVE k + 1 \in T
    <2> SUFFICES ASSUME k + 1 <= depth PROVE Fits(f[k + 1].box)
      OBVIOUS
    <2>1. PICK up, low : up = f[k] /\ low = f[k + 1]
      OBVIOUS
    <2>2. up \in Places /\ low = Lower(p, up, k + 1) /\ Fits(up.box)
      <3> HIDE DEF Fits
      <3> QED
        BY <1>2, <1>4, <2>1
    <2>3. Fits(low.box)
      BY <2>2, LowerHolds
    <2> HIDE DEF Fits
    <2> QED
      BY <2>1, <2>3
  <1>5. l \in T
    <2>1. l \in Nat
      OBVIOUS
    <2> HIDE DEF T
    <2> QED
      BY <1>3, <1>4, <2>1, Induction
  <1> QED
    BY <1>1, <1>5

-----------------------------------------------------------------------------
(* Codes of cells.                                                         *)

IsCodes(f, x, y, d) ==
    f = [n \in 0..d |->
            IF n = 0 THEN 0
            ELSE 4 * f[n - 1] + ((x \div 2^(d - n)) % 2) + 2 * ((y \div 2^(d - n)) % 2)]

LEMMA IsCodesAt ==
  ASSUME NEW f, NEW x, NEW y, NEW d, IsCodes(f, x, y, d), NEW n \in 0..d
  PROVE  f[n] = IF n = 0 THEN 0
                ELSE 4 * f[n - 1] + (Shift(x, d - n) % 2) + 2 * (Shift(y, d - n) % 2)
  <1> DEFINE v(g, i) == IF i = 0 THEN 0
                        ELSE 4 * g[i - 1] + ((x \div 2^(d - i)) % 2)
                                          + 2 * ((y \div 2^(d - i)) % 2)
  <1>1. f = [i \in 0..d |-> v(f, i)]
    BY Zenon DEF IsCodes
  <1> HIDE DEF v
  <1>2. f[n] = v(f, n)
    BY <1>1
  <1> QED
    BY <1>2, Zenon DEF v, Shift

LEMMA CodesExist ==
  ASSUME NEW x \in Nat, NEW y \in Nat, NEW d \in Nat
  PROVE  \E f : IsCodes(f, x, y, d)
  <1> DEFINE bit(u, n) == IF n <= d THEN (u \div 2^(d - n)) % 2 ELSE 0
             G == [n \in Nat |-> [c \in Nat |-> 4 * c + bit(x, n + 1) + 2 * bit(y, n + 1)]]
  <1>1. ASSUME NEW u \in Nat, NEW n \in Nat PROVE bit(u, n) \in Nat
    <2>1. CASE n <= d
      <3>1. d - n \in Nat
        BY <2>1
      <3>2. Shift(u, d - n) \in Nat
        BY <3>1, ShiftTwice
      <3>3. PICK k \in Nat : k = Shift(u, d - n)
        BY <3>2
      <3>4. k % 2 \in Nat
        OBVIOUS
      <3>5. bit(u, n) = k % 2
        BY <2>1, <3>3, Zenon DEF Shift
      <3> QED
        BY <3>4, <3>5
    <2>2. CASE ~ (n <= d)
      BY <2>2
    <2> QED
      BY <2>1, <2>2
  <1> HIDE DEF bit
  <1>2. G \in [Nat -> [Nat -> Nat]]
    <2>1. ASSUME NEW n \in Nat, NEW c \in Nat
          PROVE  4 * c + bit(x, n + 1) + 2 * bit(y, n + 1) \in Nat
      BY <1>1
    <2> QED
      BY <2>1
  <1>3. PICK h : Follows(h, Nat, 0, G)
    <2> HIDE DEF G
    <2> QED
      BY <1>2, RecursionExists
  <1> DEFINE f == [n \in 0..d |-> h[n]]
  <1>4. ASSUME NEW n \in 0..d
        PROVE  f[n] = IF n = 0 THEN 0 ELSE 4 * f[n - 1] + bit(x, n) + 2 * bit(y, n)
    <2>1. CASE n = 0
      BY <1>3, <2>1 DEF Follows
    <2>2. CASE n # 0
      <3>1. PICK m \in Nat : n = m + 1 /\ n - 1 = m /\ m \in 0..d
        <4>1. n - 1 \in Nat /\ n = (n - 1) + 1 /\ n - 1 \in 0..d
          BY <2>2
        <4> QED
          BY <4>1
      <3>2. h[m + 1] = 4 * h[m] + bit(x, m + 1) + 2 * bit(y, m + 1)
        BY <1>3, <3>1 DEF Follows
      <3> QED
        BY <2>2, <3>1, <3>2
    <2> QED
      BY <2>1, <2>2
  <1>5. f = [n \in 0..d |-> f[n]]
    OBVIOUS
  <1> HIDE DEF f
  <1>6. ASSUME NEW n \in 0..d
        PROVE  f[n] = IF n = 0 THEN 0
                      ELSE 4 * f[n - 1] + ((x \div 2^(d - n)) % 2)
                                        + 2 * ((y \div 2^(d - n)) % 2)
    <2>1. n <= d
      OBVIOUS
    <2> QED
      BY <1>4, <2>1, Zenon DEF bit
  <1>7. IsCodes(f, x, y, d)
    BY <1>5, <1>6, Zenon DEF IsCodes
  <1> QED
    BY <1>7

LEMMA CodesAre ==
  ASSUME NEW x \in Nat, NEW y \in Nat, NEW d \in Nat
  PROVE  \E f : IsCodes(f, x, y, d) /\ EncodeMortonPrefix(x, y, d) = f[d]
  <1> DEFINE f == CHOOSE f : f = [n \in 0..d |->
            IF n = 0 THEN 0
            ELSE 4 * f[n - 1] + ((x \div 2^(d - n)) % 2) + 2 * ((y \div 2^(d - n)) % 2)]
  <1>1. EncodeMortonPrefix(x, y, d) = f[d]
    BY Zenon DEF EncodeMortonPrefix
  <1>2. IsCodes(f, x, y, d)
    <2>1. PICK g : IsCodes(g, x, y, d)
      BY CodesExist, Zenon
    <2> QED
      BY <2>1, Zenon DEF IsCodes
  <1> HIDE DEF f
  <1> QED
    BY <1>1, <1>2

(* The code of a cell follows from the code of its parent.                 *)
Code(id) == EncodeMortonPrefix(id[2], id[3], id[1])

LEMMA CodeOfRoot == Code(Root) = 0
  <1>1. PICK f : IsCodes(f, 0, 0, 0) /\ EncodeMortonPrefix(0, 0, 0) = f[0]
    BY CodesAre
  <1>2. f[0] = 0
    BY <1>1, IsCodesAt
  <1> QED
    BY <1>1, <1>2 DEF Code, Root

LEMMA CodeOfCell ==
  ASSUME NEW id, IsCell(id), id[1] > 0
  PROVE  Code(id) = 4 * Code(ParentOf(id)) + (id[2] % 2) + 2 * (id[3] % 2)
  <1>1. PICK n \in Nat, x \in Nat, y \in Nat : id = <<n, x, y>> /\ n > 0
    BY CellParts
  <1>2. PICK m \in Nat : n = m + 1 /\ n - 1 = m
    <2>1. n - 1 \in Nat /\ n = (n - 1) + 1
      BY <1>1
    <2> QED
      BY <2>1
  <1>3. /\ Shift(x, 1) \in Nat /\ Shift(y, 1) \in Nat
        /\ ParentOf(id) = <<m, Shift(x, 1), Shift(y, 1)>>
    BY <1>1, <1>2, ShiftTwice, ShiftOne DEF ParentOf
  <1>4. PICK f : IsCodes(f, x, y, n) /\ Code(id) = f[n]
    BY <1>1, CodesAre DEF Code
  <1>5. PICK g : IsCodes(g, Shift(x, 1), Shift(y, 1), m) /\ Code(ParentOf(id)) = g[m]
    <2>1. PICK u \in Nat, v \in Nat : u = Shift(x, 1) /\ v = Shift(y, 1)
      BY <1>3
    <2>2. Code(ParentOf(id)) = EncodeMortonPrefix(u, v, m)
      BY <1>3, <2>1 DEF Code
    <2> QED
      BY <2>1, <2>2, CodesAre
  <1> DEFINE Same == {l \in Nat : l <= m => f[l] = g[l]}
  <1>6. 0 \in Same
    <2>1. 0 \in 0..n /\ 0 \in 0..m
      BY <1>2
    <2> QED
      BY <1>4, <1>5, <2>1, IsCodesAt
  <1>7. ASSUME NEW l \in Nat, l \in Same PROVE l + 1 \in Same
    <2> SUFFICES ASSUME l + 1 <= m PROVE f[l + 1] = g[l + 1]
      OBVIOUS
    <2>1. PICK k \in Nat : k = m - (l + 1) /\ 1 + k = n - (l + 1)
      BY <1>2
    <2>2. l + 1 \in 0..n /\ l + 1 \in 0..m /\ (l + 1) - 1 = l /\ l + 1 # 0
      BY <1>2
    <2>3. f[l + 1] = 4 * f[l] + (Shift(x, 1 + k) % 2) + 2 * (Shift(y, 1 + k) % 2)
      BY <1>4, <2>1, <2>2, IsCodesAt
    <2>4. g[l + 1] = 4 * g[l] + (Shift(Shift(x, 1), k) % 2) + 2 * (Shift(Shift(y, 1), k) % 2)
      BY <1>5, <2>1, <2>2, IsCodesAt
    <2>5. f[l] = g[l]
      BY <1>7
    <2>6. Shift(Shift(x, 1), k) = Shift(x, 1 + k) /\ Shift(Shift(y, 1), k) = Shift(y, 1 + k)
      <3>1. PICK i \in Nat : i = 1
        OBVIOUS
      <3>2. Shift(Shift(x, i), k) = Shift(x, i + k)
        BY ShiftTwice
      <3>3. Shift(Shift(y, i), k) = Shift(y, i + k)
        BY ShiftTwice
      <3> QED
        BY <3>1, <3>2, <3>3
    <2> QED
      BY <2>3, <2>4, <2>5, <2>6, Zenon
  <1>8. f[m] = g[m]
    <2> HIDE DEF Same
    <2>1. m \in Same
      BY <1>6, <1>7, Induction
    <2> QED
      BY <2>1 DEF Same
  <1>9. f[n] = 4 * f[m] + (x % 2) + 2 * (y % 2)
    <2>1. n \in 0..n /\ n # 0 /\ n - 1 = m /\ n - n = 0
      BY <1>1, <1>2
    <2>2. f[n] = 4 * f[m] + (Shift(x, 0) % 2) + 2 * (Shift(y, 0) % 2)
      BY <1>1, <1>4, <2>1, IsCodesAt
    <2> QED
      BY <2>2, ShiftNone
  <1>10. id[2] = x /\ id[3] = y
    BY <1>1
  <1> QED
    BY <1>4, <1>5, <1>8, <1>9, <1>10, Zenon

(* Codes are numbers, of their level each cell has its own.                *)
LEMMA CodesDiffer ==
  ASSUME NEW a, IsCell(a), NEW b, IsCell(b), a[1] = b[1]
  PROVE  Code(a) \in Nat /\ (Code(a) = Code(b) => a = b)
  <1> DEFINE Cells(n) == {c \in Nat \X Nat \X Nat : IsCell(c) /\ c[1] = n}
             T == {n \in Nat : \A c, d \in Cells(n) :
                                  Code(c) \in Nat /\ (Code(c) = Code(d) => c = d)}
  <1>1. 0 \in T
    BY CellOfLevelZero, CodeOfRoot
  <1>2. ASSUME NEW n \in Nat, n \in T PROVE n + 1 \in T
    <2>1. ASSUME NEW c \in Cells(n + 1), NEW d \in Cells(n + 1)
          PROVE  Code(c) \in Nat /\ (Code(c) = Code(d) => c = d)
      <3>1. IsCell(c) /\ c[1] = n + 1 /\ c[1] > 0 /\ IsCell(d) /\ d[1] = n + 1 /\ d[1] > 0
        OBVIOUS
      <3>2. PICK p, q : p = ParentOf(c) /\ q = ParentOf(d)
        OBVIOUS
      <3>3. p \in Cells(n) /\ q \in Cells(n)
        <4>1. IsCell(p) /\ p[1] = (n + 1) - 1 /\ IsCell(q) /\ q[1] = (n + 1) - 1
          BY <3>1, <3>2, PathParent
        <4>2. (n + 1) - 1 = n
          OBVIOUS
        <4> QED
          BY <4>1, <4>2 DEF IsCell
      <3>4. PICK j \in Nat, k \in Nat : j = Code(p) /\ k = Code(q) /\ (j = k => p = q)
        <4> HIDE DEF Cells
        <4> QED
          BY <1>2, <3>3
      <3>5. PICK x \in Nat, y \in Nat : c = <<n + 1, x, y>>
        BY <3>1, CellParts
      <3>6. PICK u \in Nat, v \in Nat : d = <<n + 1, u, v>>
        BY <3>1, CellParts
      <3>7. Code(c) = 4 * j + (x % 2) + 2 * (y % 2) /\ Code(d) = 4 * k + (u % 2) + 2 * (v % 2)
        BY <3>1, <3>2, <3>4, <3>5, <3>6, CodeOfCell
      <3>8. /\ p = <<n, x \div 2, y \div 2>>
            /\ q = <<n, u \div 2, v \div 2>>
        BY <3>2, <3>5, <3>6 DEF ParentOf
      <3>9. Code(c) \in Nat
        BY <3>7
      <3>10. ASSUME Code(c) = Code(d) PROVE c = d
        <4>1. /\ 4 * j + (x % 2) + 2 * (y % 2) = 4 * k + (u % 2) + 2 * (v % 2)
              /\ x % 2 \in 0..1 /\ y % 2 \in 0..1 /\ u % 2 \in 0..1 /\ v % 2 \in 0..1
          BY <3>7, <3>10
        <4>2. j = k /\ x % 2 = u % 2 /\ y % 2 = v % 2
          BY <4>1
        <4>3. x \div 2 = u \div 2 /\ y \div 2 = v \div 2
          BY <3>4, <3>8, <4>2
        <4>4. x = u /\ y = v
          BY <4>2, <4>3
        <4> QED
          BY <3>5, <3>6, <4>4
      <3> QED
        BY <3>9, <3>10
    <2> HIDE DEF Cells
    <2> QED
      BY <2>1
  <1>3. a \in Cells(a[1]) /\ b \in Cells(a[1]) /\ a[1] \in Nat
    BY CellParts DEF IsCell
  <1>4. a[1] \in T
    <2> HIDE DEF T
    <2> QED
      BY <1>1, <1>2, <1>3, Induction
  <1> HIDE DEF Cells
  <1> QED
    BY <1>3, <1>4

(* The code of a cell begins with the codes of the cells above.            *)
LEMMA CodeShift ==
  ASSUME NEW id, IsCell(id), NEW l \in 0..id[1]
  PROVE  Code(Above(id, l)) = Shift(Code(id), 2 * (id[1] - l))
  <1>1. PICK n \in Nat : n = id[1]
    BY CellParts
  <1> DEFINE T == {k \in Nat : k <= n => Code(Above(id, n - k)) = Shift(Code(id), 2 * k)}
  <1>2. Code(id) \in Nat
    BY CodesDiffer
  <1>3. 0 \in T
    <2>1. n - 0 = n /\ 2 * 0 = 0
      OBVIOUS
    <2> QED
      BY <1>1, <1>2, <2>1, AboveSelf, ShiftNone
  <1>4. ASSUME NEW k \in Nat, k \in T PROVE k + 1 \in T
    <2> SUFFICES ASSUME k + 1 <= n
                 PROVE  Code(Above(id, n - (k + 1))) = Shift(Code(id), 2 * (k + 1))
      OBVIOUS
    <2>1. PICK i \in Nat : i = n - (k + 1) /\ n - k = i + 1
      OBVIOUS
    <2>2. PICK c : c = Above(id, i + 1)
      OBVIOUS
    <2>3. IsCell(c) /\ c[1] = i + 1 /\ c[1] > 0
      <3>1. i + 1 \in 0..n
        BY <2>1
      <3> QED
        BY <1>1, <2>2, <3>1, AboveCell
    <2>4. ParentOf(c) = Above(id, i)
      <3>1. i \in 0..(i + 1) /\ i + 1 \in 0..n /\ (i + 1) - 1 = i
        BY <2>1
      <3> QED
        BY <1>1, <2>2, <2>3, <3>1, AboveParent, AboveAbove
    <2>5. IsCell(ParentOf(c))
      BY <2>3, PathParent
    <2>6. PICK p \in Nat, q \in Nat, x \in Nat, y \in Nat :
             p = Code(ParentOf(c)) /\ q = Code(c) /\ x = c[2] /\ y = c[3]
      BY <2>3, <2>5, CodesDiffer, CellParts
    <2>7. q = 4 * p + (x % 2) + 2 * (y % 2)
      BY <2>3, <2>6, CodeOfCell
    <2>8. q \div 4 = p
      <3>1. x % 2 \in 0..1 /\ y % 2 \in 0..1
        OBVIOUS
      <3> QED
        BY <2>7, <3>1
    <2>9. 2^2 = 4
      <3>1. 2^(0 + 1) = 2 * 2^0 /\ 2^(1 + 1) = 2 * 2^1
        BY Powers
      <3>2. 0 + 1 = 1 /\ 1 + 1 = 2
        OBVIOUS
      <3>3. 2^1 = 2
        BY <3>1, <3>2, Powers
      <3> QED
        BY <3>1, <3>2, <3>3
    <2>10. Shift(q, 2) = p
      BY <2>8, <2>9, Zenon DEF Shift
    <2>11. q = Shift(Code(id), 2 * k)
      <3>1. k <= n
        BY <1>1
      <3> QED
        BY <1>4, <2>1, <2>2, <2>6, <3>1
    <2>12. Shift(Shift(Code(id), 2 * k), 2) = Shift(Code(id), 2 * k + 2)
      <3>1. 2 * k \in Nat /\ 2 \in Nat
        OBVIOUS
      <3> QED
        BY <1>2, <3>1, ShiftTwice
    <2>13. 2 * (k + 1) = 2 * k + 2
      OBVIOUS
    <2> QED
      BY <2>1, <2>4, <2>6, <2>10, <2>11, <2>12, <2>13, Zenon
  <1>5. PICK k \in Nat : k = n - l /\ l = n - k /\ k <= n
    <2>1. n - l \in Nat /\ l = n - (n - l) /\ n - l <= n
      BY <1>1
    <2> QED
      BY <2>1
  <1>6. k \in T
    <2> HIDE DEF T
    <2> QED
      BY <1>3, <1>4, Induction
  <1> QED
    BY <1>1, <1>5, <1>6

LEMMA CodeBound ==
  ASSUME NEW id, IsCell(id)
  PROVE  Code(id) \in 0..(2^(2 * id[1]) - 1)
  <1>1. PICK n \in Nat, c \in Nat : n = id[1] /\ c = Code(id)
    BY CellParts, CodesDiffer
  <1>2. Shift(c, 2 * n) = 0
    <2>1. 0 \in 0..n /\ n - 0 = n
      OBVIOUS
    <2> QED
      BY <1>1, <2>1, CodeShift, AboveRoot, CodeOfRoot
  <1>3. PICK b \in Nat : b = 2^(2 * n) /\ b > 0
    <2>1. 2 * n \in Nat
      OBVIOUS
    <2> QED
      BY <2>1, Powers
  <1>4. c \div b = 0
    BY <1>2, <1>3, Zenon DEF Shift
  <1>5. c < b * 0 + b
    BY <1>3, <1>4, Division
  <1> QED
    BY <1>1, <1>3, <1>5

(* The codes of the cells at full depth below a cell are a range.          *)
LEMMA CodesBelow ==
  ASSUME NEW id, IsCell(id), NEW c, IsCell(c), id[1] <= c[1]
  PROVE  (/\ Code(c) >= Code(id) * 2^(2 * (c[1] - id[1]))
          /\ Code(c) < (Code(id) + 1) * 2^(2 * (c[1] - id[1])))
         <=> id \in PathTo(c)
  <1>1. PICK m \in Nat, n \in Nat : m = id[1] /\ n = c[1] /\ m <= n
    BY CellParts
  <1>2. PICK r \in Nat : r = 2 * (n - m)
    <2>1. 2 * (n - m) \in Nat
      BY <1>1
    <2> QED
      BY <2>1
  <1>3. PICK b \in Nat : b = 2^r /\ b > 0
    BY Powers
  <1>4. PICK q \in Nat, k \in Nat : q = Code(id) /\ k = Code(c)
    BY CodesDiffer
  <1>5. m \in 0..n /\ IsCell(Above(c, m)) /\ Above(c, m)[1] = m
    <2>1. m \in 0..n
      BY <1>1
    <2> QED
      BY <1>1, <2>1, AboveCell
  <1>6. Code(Above(c, m)) = k \div b
    BY <1>1, <1>2, <1>3, <1>4, <1>5, CodeShift, Zenon DEF Shift
  <1>7. (k >= q * b /\ k < (q + 1) * b) <=> k \div b = q
    <2>1. k \div b \in Nat /\ b * (k \div b) <= k /\ k < b * (k \div b) + b
      BY <1>3, Division
    <2>2. q * b = b * q /\ (q + 1) * b = b * q + b
      OBVIOUS
    <2>3. ASSUME k \div b = q PROVE k >= q * b /\ k < (q + 1) * b
      <3>1. b * q <= k /\ k < b * q + b
        BY <2>1, <2>3
      <3>2. b * q \in Nat
        OBVIOUS
      <3> QED
        BY <2>2, <3>1, <3>2
    <2>4. ASSUME k >= q * b, k < (q + 1) * b PROVE k \div b = q
      <3>1. b * q <= k /\ k < b * q + b
        BY <2>2, <2>4
      <3> QED
        BY <1>3, <3>1, QuotientIs
    <2> QED
      BY <2>3, <2>4
  <1>8. k \div b = q <=> Above(c, m) = id
    BY <1>1, <1>4, <1>5, <1>6, CodesDiffer
  <1>9. Above(c, m) = id <=> id \in PathTo(c)
    <2>1. ASSUME id \in PathTo(c) PROVE Above(c, m) = id
      BY <1>1, <2>1, PathMember
    <2>2. ASSUME Above(c, m) = id PROVE id \in PathTo(c)
      BY <1>1, <1>5, <2>2, PathIs
    <2> QED
      BY <2>1, <2>2
  <1> QED
    BY <1>1, <1>2, <1>3, <1>4, <1>7, <1>8, <1>9, Zenon

-----------------------------------------------------------------------------
(* The cells a planner stops at.                                           *)

(* The things that lie below a cell.                                       *)
Under(K, at, id) == {k \in K : id \in PathTo(at[k])}

(* A planner counts things: each weighs a number of points and lies in a   *)
(* cell at full depth, and a cell holds what lies below it.  The points in *)
(* memory weigh one each, a code of the second pass as many as it counted. *)
Weighs(counts, K, w, at, depth) ==
    /\ IsFiniteSet(K)
    /\ \A k \in K : w[k] \in Nat \ {0} /\ IsCell(at[k]) /\ at[k][1] = depth
    /\ counts = [id \in CellsTo(depth) |->
                    SumFunctionOnSet(w, Under(K, at, id))]

Leaves(counts, root, config) ==
    {id \in CellsTo(config.depth) :
        /\ counts[id] > 0
        /\ ~Splits(counts, root, config, id)
        /\ \A a \in PathTo(id) \ {id} : Splits(counts, root, config, a)}

LEMMA VisitIs ==
  ASSUME NEW counts, NEW root, NEW config
  PROVE  /\ Visit(counts, root, config).satisfied <=>
               \A id \in Leaves(counts, root, config) : counts[id] <= config.max
         /\ Visit(counts, root, config).tiles =
               {[id |-> id, box |-> BoxOf(root, id), count |-> counts[id]] :
                   id \in Leaves(counts, root, config)}
  <1>1. PICK L : L = Leaves(counts, root, config)
    OBVIOUS
  <1>2. Visit(counts, root, config) =
           [satisfied |-> \A id \in L : counts[id] <= config.max,
            tiles     |-> {[id |-> id, box |-> BoxOf(root, id), count |-> counts[id]] :
                              id \in L}]
    BY <1>1, Zenon DEF Visit, Leaves
  <1> QED
    BY <1>1, <1>2

LEMMA CountsAre ==
  ASSUME NEW counts, NEW K, NEW w, NEW at, NEW depth \in Nat, Weighs(counts, K, w, at, depth),
         NEW id \in CellsTo(depth)
  PROVE  /\ counts[id] = SumFunctionOnSet(w, Under(K, at, id))
         /\ counts[id] \in Nat
         /\ counts[id] > 0 <=> \E k \in K : id \in PathTo(at[k])
  <1>1. PICK T \in SUBSET K : T = Under(K, at, id)
    BY DEF Under
  <1>2. counts[id] = SumFunctionOnSet(w, T)
    BY <1>1 DEF Weighs
  <1>3. IsFiniteSet(T) /\ \A k \in T : w[k] \in Nat \ {0}
    BY FS_Subset DEF Weighs
  <1>4. SumFunctionOnSet(w, T) \in Nat /\ (SumFunctionOnSet(w, T) > 0 <=> T # {})
    BY <1>3, SumIsNat, SumPositive
  <1> QED
    BY <1>1, <1>2, <1>4 DEF Under

(* No leaf is above another.                                               *)
LEMMA LeavesApart ==
  ASSUME NEW counts, NEW root, NEW config, NEW a \in Leaves(counts, root, config),
         NEW b \in Leaves(counts, root, config), a \in PathTo(b)
  PROVE  a = b
  BY DEF Leaves

(* On the way to each cell at full depth that holds something there is one *)
(* leaf: the first cell that does not split.                               *)
LEMMA LeafAbove ==
  ASSUME NEW counts, NEW K, NEW w, NEW at, NEW root, NEW config, config.depth \in Nat,
         Weighs(counts, K, w, at, config.depth), NEW k \in K
  PROVE  \E l \in Leaves(counts, root, config) : l \in PathTo(at[k])
  <1>1. PICK d \in Nat, c \in {at[k]} : d = config.depth
    OBVIOUS
  <1>2. IsCell(c) /\ c[1] = d
    BY <1>1 DEF Weighs
  <1> DEFINE T == {n \in 0..d : ~Splits(counts, root, config, Above(c, n))}
  <1>3. d \in T
    <2>1. Level(c) = config.depth
      BY <1>1, <1>2 DEF Level
    <2>2. ~Splits(counts, root, config, c)
      BY <1>1, <2>1 DEF Splits, CanSplit
    <2> QED
      BY <1>2, <2>2, AboveSelf
  <1>4. PICK n \in T : \A m \in T : n <= m
    <2>1. T \subseteq Nat /\ T # {}
      BY <1>3
    <2> HIDE DEF T
    <2> QED
      BY <2>1, LeastNumber
  <1>5. PICK l : l = Above(c, n)
    OBVIOUS
  <1>6. n \in 0..c[1] /\ IsCell(l) /\ l[1] = n /\ l \in PathTo(c)
    <2>1. n \in 0..c[1]
      BY <1>2
    <2> QED
      BY <1>2, <1>5, <2>1, AboveCell, PathIs
  <1>7. l \in CellsTo(config.depth)
    <2>1. l[1] <= d
      BY <1>2, <1>6
    <2> QED
      BY <1>1, <1>6, <2>1, CellsAre
  <1>8. counts[l] > 0
    BY <1>1, <1>6, <1>7, CountsAre
  <1>9. ~Splits(counts, root, config, l)
    BY <1>5
  <1>10. ASSUME NEW a \in PathTo(l) \ {l} PROVE Splits(counts, root, config, a)
    <2>1. a[1] \in 0..n /\ a = Above(l, a[1]) /\ a \in PathTo(c)
      BY <1>2, <1>6, PathMember, PathTransitive
    <2>2. a = Above(c, a[1]) /\ a[1] \in 0..d
      BY <1>2, <2>1, PathMember
    <2>3. a[1] # n
      BY <1>6, <2>1, AboveSelf
    <2>4. a[1] \notin T
      BY <1>4, <2>1, <2>3
    <2> QED
      BY <2>2, <2>4
  <1> HIDE DEF T
  <1>11. l \in Leaves(counts, root, config)
    BY <1>7, <1>8, <1>9, <1>10 DEF Leaves
  <1> QED
    BY <1>1, <1>6, <1>11

LEMMA LeafIs ==
  ASSUME NEW counts, NEW K, NEW w, NEW at, NEW root, NEW config, config.depth \in Nat,
         Weighs(counts, K, w, at, config.depth), NEW l \in Leaves(counts, root, config)
  PROVE  /\ IsCell(l) /\ l[1] <= config.depth /\ counts[l] \in Nat \ {0}
         /\ counts[l] = SumFunctionOnSet(w, Under(K, at, l))
         /\ \E k \in K : l \in PathTo(at[k])
  <1>1. l \in CellsTo(config.depth) /\ counts[l] > 0
    BY DEF Leaves
  <1>2. IsCell(l) /\ l[1] <= config.depth
    BY <1>1, CellsAre
  <1>3. /\ counts[l] = SumFunctionOnSet(w, Under(K, at, l))
        /\ counts[l] \in Nat
        /\ \E k \in K : l \in PathTo(at[k])
    BY <1>1, CountsAre
  <1> QED
    BY <1>1, <1>2, <1>3

(* Which leaf the things fall to; the leaves share their weight.           *)
Shares(L, counts, K, w) ==
    /\ IsFiniteSet(L)
    /\ L = {} <=> K = {}
    /\ SumFunctionOnSet(counts, L) = SumFunctionOnSet(w, K)

LEMMA LeavesShare ==
  ASSUME NEW counts, NEW K, NEW w, NEW at, NEW root, NEW config, config.depth \in Nat,
         Weighs(counts, K, w, at, config.depth)
  PROVE  Shares(Leaves(counts, root, config), counts, K, w)
  <1>1. PICK L : L = Leaves(counts, root, config)
    OBVIOUS
  <1>2. IsFiniteSet(K) /\ \A k \in K : IsCell(at[k]) /\ w[k] \in Nat
    BY DEF Weighs
  <1> DEFINE part == [k \in K |-> CHOOSE l \in L : l \in PathTo(at[k])]
  <1>3. \A k \in K : part[k] \in L /\ part[k] \in PathTo(at[k])
    BY <1>1, LeafAbove
  <1>4. ASSUME NEW k \in K, NEW l \in L, l \in PathTo(at[k]) PROVE part[k] = l
    <2>1. IsCell(at[k]) /\ part[k] \in L /\ part[k] \in PathTo(at[k])
      BY <1>2, <1>3
    <2>2. IsCell(l) /\ IsCell(part[k]) /\ l[1] \in Nat /\ part[k][1] \in Nat
      BY <1>4, <2>1, PathMember, CellParts
    <2>3. l \in PathTo(part[k]) \/ part[k] \in PathTo(l)
      <3> HIDE DEF part
      <3>1. l[1] <= part[k][1] \/ part[k][1] <= l[1]
        BY <2>2
      <3> QED
        BY <1>4, <2>1, <3>1, PathChain
    <2> HIDE DEF part
    <2> QED
      BY <1>1, <2>1, <2>3, LeavesApart
  <1>5. part \in [K -> L]
    BY <1>3
  <1> HIDE DEF part
  <1>6. ASSUME NEW l \in L
        PROVE  /\ {k \in K : part[k] = l} = Under(K, at, l)
               /\ counts[l] = SumFunctionOnSet(w, Under(K, at, l))
               /\ \E k \in K : part[k] = l
    <2>1. {k \in K : part[k] = l} = Under(K, at, l)
      BY <1>3, <1>4 DEF Under
    <2>2. /\ counts[l] = SumFunctionOnSet(w, Under(K, at, l))
          /\ \E k \in K : l \in PathTo(at[k])
      <3>1. l \in Leaves(counts, root, config)
        BY <1>1
      <3>2. counts[l] = SumFunctionOnSet(w, Under(K, at, l))
        BY <3>1, LeafIs
      <3>3. \E k \in K : l \in PathTo(at[k])
        BY <3>1, LeafIs
      <3> QED
        BY <3>2, <3>3
    <2> QED
      BY <1>4, <2>1, <2>2
  <1>7. IsFiniteSet(L)
    <2>1. part \in Surjection(K, L)
      BY <1>5, <1>6 DEF Surjection
    <2> QED
      BY <1>2, <2>1, FS_Surjection
  <1>8. L = {} <=> K = {}
    BY <1>3, <1>6
  <1>9. SumFunctionOnSet(counts, L) = SumFunctionOnSet(w, K)
    <2>1. \A l \in L : counts[l] = SumFunctionOnSet(w, Part(part, K, l))
      BY <1>6 DEF Part
    <2> QED
      BY <1>2, <1>5, <1>7, <2>1, SumPartition
  <1> QED
    BY <1>1, <1>7, <1>8, <1>9 DEF Shares

Large(counts, least, l) == counts[l] >= least \/ l = Root

(* A leaf below the root is the part of a split, each part of which has    *)
(* the points a tile needs.                                                *)
LEMMA LeafIsLarge ==
  ASSUME NEW counts, NEW K, NEW w, NEW at, NEW root, NEW config, config.depth \in Nat,
         Weighs(counts, K, w, at, config.depth), NEW l \in Leaves(counts, root, config)
  PROVE  Large(counts, config.min, l)
  <1> SUFFICES ASSUME l # Root PROVE counts[l] >= config.min
    BY DEF Large
  <1>1. IsCell(l) /\ l[1] \in Nat /\ l[1] > 0
    <2>1. IsCell(l)
      BY LeafIs
    <2>2. l[1] \in Nat /\ l[1] # 0
      BY <2>1, CellOfLevelZero, CellParts
    <2> QED
      BY <2>1, <2>2
  <1>2. PICK p : p = ParentOf(l)
    OBVIOUS
  <1>3. IsCell(p) /\ p[1] = l[1] - 1 /\ p \in PathTo(l) /\ p # l
    <2>1. IsCell(p) /\ p[1] = l[1] - 1 /\ p \in PathTo(l) /\ l \notin PathTo(p)
      BY <1>1, <1>2, PathParent
    <2> QED
      BY <2>1, PathEnds
  <1>4. Splits(counts, root, config, p)
    BY <1>3 DEF Leaves
  <1>5. l \in Occupied(counts, p)
    <2>1. l[1] = p[1] + 1
      BY <1>1, <1>3
    <2>2. l \in ChildrenOf(p)
      BY <1>1, <1>2, <1>3, <2>1, ChildrenAre
    <2>3. counts[l] > 0
      BY DEF Leaves
    <2> QED
      BY <2>2, <2>3 DEF Occupied
  <1> QED
    BY <1>4, <1>5 DEF Splits

-----------------------------------------------------------------------------
(* Plans that are trees.                                                   *)

(* A plan that has the ancestors of its tiles and is linked to match.      *)
IsTree(plan) ==
    /\ IsFiniteSet(DOMAIN plan)
    /\ \A id \in DOMAIN plan :
          /\ IsCell(id) /\ PathTo(id) \subseteq DOMAIN plan
          /\ plan[id].parent = IF id = Root THEN NoTile ELSE ParentOf(id)
          /\ plan[id].children = ChildrenOf(id) \cap DOMAIN plan
          /\ plan[id].isLeaf <=> plan[id].children = {}
          /\ plan[id].count > 0
          /\ Upright(plan[id].box)

(* A tile of level n has n ancestors in the plan.                          *)
LEMMA LevelIsBounded ==
  ASSUME NEW plan, IsTree(plan), NEW id \in DOMAIN plan
  PROVE  id[1] \in 0..Cardinality(DOMAIN plan)
  <1>0. PICK N : N = DOMAIN plan
    OBVIOUS
  <1>1. PICK n \in Nat : N = DOMAIN plan /\ n = id[1] /\ IsCell(id)
    BY <1>0, CellParts DEF IsTree
  <1> DEFINE f == [l \in 0..n |-> Above(id, l)]
  <1>2. \A l \in 0..n : Above(id, l) \in N /\ Above(id, l)[1] = l
    <2> TAKE l \in 0..n
    <2>1. Above(id, l) \in PathTo(id)
      BY <1>1, PathIs
    <2>2. PathTo(id) \subseteq N
      BY <1>1 DEF IsTree
    <2> QED
      BY <1>1, <2>1, <2>2, AboveCell
  <1>3. f \in Injection(0..n, N)
    BY <1>2 DEF Injection, IsInjective
  <1>4. IsFiniteSet(N) /\ Cardinality(N) \in Nat
    BY <1>1, FS_CardinalityType DEF IsTree
  <1>5. Cardinality(0..n) <= Cardinality(N)
    BY <1>3, <1>4, FS_Injection
  <1>6. Cardinality(0..n) = n + 1
    <2>1. 0 \in Int /\ n \in Int /\ ~(0 > n) /\ n - 0 + 1 = n + 1
      OBVIOUS
    <2> QED
      BY <2>1, FS_Interval
  <1> QED
    BY <1>1, <1>4, <1>5, <1>6

(* The tiles of t and their children.                                      *)
Reach(plan, t) == t \cup UNION {plan[i].children : i \in t}

IsReached(f, plan, id) ==
    f = [n \in 0..Cardinality(DOMAIN plan) |->
            IF n = 0 THEN {id}
            ELSE f[n - 1] \cup UNION {plan[i].children : i \in f[n - 1]}]

LEMMA IsReachedAt ==
  ASSUME NEW f, NEW plan, NEW id, IsReached(f, plan, id), NEW n \in 0..Cardinality(DOMAIN plan)
  PROVE  f[n] = IF n = 0 THEN {id} ELSE Reach(plan, f[n - 1])
  <1> DEFINE v(g, k) == IF k = 0 THEN {id}
                        ELSE g[k - 1] \cup UNION {plan[i].children : i \in g[k - 1]}
  <1>1. f = [k \in 0..Cardinality(DOMAIN plan) |-> v(f, k)]
    BY Zenon DEF IsReached
  <1> HIDE DEF v
  <1>2. f[n] = v(f, n)
    BY <1>1
  <1> QED
    BY <1>2, Zenon DEF v, Reach

(* After n steps the tiles down to level n are reached.                    *)
LEMMA TreeIsReached ==
  ASSUME NEW plan, IsTree(plan), DOMAIN plan # {}
  PROVE  Root \in DOMAIN plan /\ ReachedFrom(plan, Root) = DOMAIN plan
  <1>0. PICK N : N = DOMAIN plan
    OBVIOUS
  <1>1. PICK s \in Nat : N = DOMAIN plan /\ s = Cardinality(N)
    BY <1>0, FS_CardinalityType DEF IsTree
  <1>2. /\ \A id \in N : /\ IsCell(id) /\ id[1] \in 0..s /\ PathTo(id) \subseteq N
                         /\ plan[id].children = ChildrenOf(id) \cap N
        /\ Root \in N
    <2>1. \A id \in N : /\ IsCell(id) /\ PathTo(id) \subseteq N
                        /\ plan[id].children = ChildrenOf(id) \cap N
      BY <1>1 DEF IsTree
    <2>2. \A id \in N : id[1] \in 0..s
      BY <1>1, LevelIsBounded
    <2>3. Root \in N
      BY <1>1, <2>1, PathEnds
    <2> QED
      BY <2>1, <2>2, <2>3
  <1> DEFINE upto(n) == {id \in N : id[1] <= n}
  <1>3. upto(0) = {Root}
    BY <1>2, CellOfLevelZero, RootIsCell
  <1>4. ASSUME NEW n \in Nat
        PROVE  upto(n + 1) = Reach(plan, upto(n))
    <2>1. ASSUME NEW c \in N, c[1] = n + 1
          PROVE  \E i \in upto(n) : c \in plan[i].children
      <3>1. PICK p : p = ParentOf(c)
        OBVIOUS
      <3>2. IsCell(c) /\ c[1] > 0 /\ c[1] \in Nat
        BY <1>2, <2>1
      <3>3. IsCell(p) /\ p[1] = c[1] - 1 /\ p \in PathTo(c)
        BY <3>1, <3>2, PathParent
      <3>4. p \in N /\ p[1] = n
        BY <1>2, <2>1, <3>3
      <3>5. c \in ChildrenOf(p)
        BY <2>1, <3>1, <3>2, <3>3, <3>4, ChildrenAre
      <3> QED
        BY <1>2, <2>1, <3>4, <3>5
    <2>2. ASSUME NEW i \in upto(n), NEW c \in plan[i].children PROVE c \in upto(n + 1)
      <3>1. i \in N /\ i[1] <= n /\ i[1] \in Nat /\ IsCell(i)
        BY <1>2
      <3>2. c \in N /\ c \in ChildrenOf(i)
        BY <1>2, <2>2, <3>1
      <3>3. c[1] = i[1] + 1
        BY <3>1, <3>2, ChildrenAre
      <3> QED
        BY <3>1, <3>2, <3>3
    <2>3. ASSUME NEW c \in upto(n) PROVE c \in upto(n + 1)
      BY <1>2
    <2>4. ASSUME NEW c \in upto(n + 1) PROVE c \in upto(n) \/ (c \in N /\ c[1] = n + 1)
      BY <1>2
    <2> HIDE DEF upto
    <2> QED
      BY <2>1, <2>2, <2>3, <2>4 DEF Reach
  <1>5. upto(s) = N
    BY <1>2
  <1> HIDE DEF upto
  <1> DEFINE f == [n \in 0..s |-> upto(n)]
  <1>6. IsReached(f, plan, Root)
    <2>1. ASSUME NEW n \in 0..s
          PROVE  f[n] = IF n = 0 THEN {Root} ELSE Reach(plan, f[n - 1])
      <3>1. CASE n = 0
        BY <1>3, <3>1
      <3>2. CASE n # 0
        <4>1. PICK m \in Nat : n = m + 1 /\ n - 1 = m /\ m \in 0..s
          <5>1. n - 1 \in Nat /\ n = (n - 1) + 1 /\ n - 1 \in 0..s
            BY <3>2
          <5> QED
            BY <5>1
        <4>2. f[n] = upto(m + 1) /\ f[n - 1] = upto(m)
          BY <4>1
        <4> HIDE DEF f
        <4> QED
          BY <1>4, <3>2, <4>1, <4>2
      <3> QED
        BY <3>1, <3>2
    <2>2. f = [n \in 0..s |-> f[n]]
      OBVIOUS
    <2> HIDE DEF f
    <2>3. f = [n \in 0..s |-> IF n = 0 THEN {Root} ELSE Reach(plan, f[n - 1])]
      BY <2>1, <2>2
    <2> QED
      BY <1>1, <2>3, Zenon DEF IsReached, Reach
  <1> DEFINE g == CHOOSE h : h = [n \in 0..Cardinality(DOMAIN plan) |->
                     IF n = 0 THEN {Root}
                     ELSE h[n - 1] \cup UNION {plan[i].children : i \in h[n - 1]}]
  <1>7. ReachedFrom(plan, Root) = g[s]
    BY <1>1, Zenon DEF ReachedFrom
  <1>8. IsReached(g, plan, Root)
    <2> HIDE DEF f
    <2> QED
      BY <1>6, Zenon DEF IsReached
  <1> HIDE DEF g
  <1> DEFINE T == {n \in Nat : n <= s => g[n] = upto(n)}
  <1>9. 0 \in T
    <2>1. 0 \in 0..s
      OBVIOUS
    <2> QED
      BY <1>1, <1>3, <1>8, <2>1, IsReachedAt
  <1>10. ASSUME NEW n \in Nat, n \in T PROVE n + 1 \in T
    <2> SUFFICES ASSUME n + 1 <= s PROVE g[n + 1] = upto(n + 1)
      OBVIOUS
    <2>1. n + 1 \in 0..s /\ (n + 1) - 1 = n /\ n + 1 # 0
      OBVIOUS
    <2>2. g[n + 1] = Reach(plan, g[n])
      <3>1. PICK m \in 0..s : m = n + 1 /\ m - 1 = n /\ m # 0
        BY <2>1
      <3>2. m \in 0..Cardinality(DOMAIN plan)
        BY <1>1
      <3>3. g[m] = IF m = 0 THEN {Root} ELSE Reach(plan, g[m - 1])
        BY <1>8, <3>2, IsReachedAt, Zenon
      <3>4. g[m] = Reach(plan, g[m - 1])
        BY <3>1, <3>3, Zenon
      <3> QED
        BY <3>1, <3>4
    <2>3. g[n] = upto(n)
      BY <1>10
    <2> QED
      BY <1>4, <2>2, <2>3
  <1>11. s \in T
    <2> HIDE DEF T
    <2> QED
      BY <1>9, <1>10, Induction
  <1> QED
    BY <1>1, <1>2, <1>5, <1>7, <1>11

LEMMA TreeValidates ==
  ASSUME NEW plan, IsTree(plan)
  PROVE  ValidateTilePlan(plan)
  <1>1. PICK N : N = DOMAIN plan
    OBVIOUS
  <1>2. \A id \in N : /\ IsCell(id) /\ PathTo(id) \subseteq N
                      /\ plan[id].parent = IF id = Root THEN NoTile ELSE ParentOf(id)
                      /\ plan[id].children = ChildrenOf(id) \cap N
                      /\ plan[id].isLeaf <=> plan[id].children = {}
                      /\ plan[id].count > 0
                      /\ Upright(plan[id].box)
    BY <1>1 DEF IsTree
  <1>3. ASSUME NEW id \in N, id # Root
        PROVE  /\ id[1] \in Nat /\ id[1] > 0
               /\ ParentOf(id) \in N /\ ParentOf(id)[1] = id[1] - 1
               /\ IsCell(ParentOf(id)) /\ id \in ChildrenOf(ParentOf(id))
    <2>1. IsCell(id) /\ id[1] \in Nat /\ id[1] # 0
      BY <1>2, <1>3, CellOfLevelZero, CellParts
    <2>2. IsCell(ParentOf(id)) /\ ParentOf(id)[1] = id[1] - 1 /\ ParentOf(id) \in PathTo(id)
      BY <2>1, PathParent
    <2>3. id[1] = ParentOf(id)[1] + 1
      BY <2>1, <2>2
    <2>4. id \in ChildrenOf(ParentOf(id))
      BY <2>1, <2>2, <2>3, ChildrenAre
    <2>5. PathTo(id) \subseteq N /\ id[1] > 0
      BY <1>2, <2>1
    <2> QED
      BY <2>1, <2>2, <2>4, <2>5
  <1>4. Level(NoTile) = -1
    BY DEF Level, NoTile
  <1>5. ASSUME NEW id \in N PROVE NodeIsValid(plan[id]) /\ LinksAgree(plan, id)
    <2>1. NodeIsValid(plan[id])
      BY <1>2 DEF NodeIsValid, Upright
    <2>2. Level(plan[id].parent) = -1 => plan[id].parent = NoTile
      <3> SUFFICES ASSUME id # Root PROVE Level(plan[id].parent) # -1
        BY <1>2
      <3>1. ParentOf(id)[1] \in Nat
        BY <1>3, CellParts
      <3> QED
        BY <1>2, <3>1 DEF Level
    <2>3. ASSUME Level(plan[id].parent) # -1
          PROVE  /\ Level(id) - Level(plan[id].parent) = 1
                 /\ plan[id].parent \in DOMAIN plan
                 /\ id \in plan[plan[id].parent].children
      <3>1. id # Root
        BY <1>2, <1>4, <2>3
      <3>2. plan[id].parent = ParentOf(id)
        BY <1>2, <3>1
      <3>3. PICK p : p = ParentOf(id)
        OBVIOUS
      <3>4. id[1] \in Nat /\ p \in N /\ p[1] = id[1] - 1 /\ id \in ChildrenOf(p)
        BY <1>3, <3>1, <3>3
      <3>5. id \in plan[p].children
        BY <1>2, <3>4
      <3>6. id[1] - (id[1] - 1) = 1
        BY <3>4
      <3> QED
        BY <1>1, <3>2, <3>3, <3>4, <3>5, <3>6 DEF Level
    <2>4. ASSUME NEW c \in plan[id].children
          PROVE  c \in DOMAIN plan /\ Level(c) - Level(id) = 1 /\ plan[c].parent = id
      <3>1. c \in N /\ c \in ChildrenOf(id) /\ IsCell(id)
        BY <1>2
      <3>2. c[1] = id[1] + 1 /\ ParentOf(c) = id /\ id[1] \in Nat
        BY <3>1, ChildrenAre, CellParts
      <3>3. c # Root
        BY <3>2, RootIsCell
      <3>4. (id[1] + 1) - id[1] = 1
        BY <3>2
      <3> QED
        BY <1>1, <1>2, <3>1, <3>2, <3>3, <3>4 DEF Level
    <2>5. plan[id].isLeaf \/ plan[id].children # {}
      BY <1>2
    <2>6. LinksAgree(plan, id)
      BY <2>2, <2>3, <2>4, <2>5, Zenon DEF LinksAgree
    <2> QED
      BY <2>1, <2>6
  <1>6. ASSUME N # {}
        PROVE  \E root \in N : /\ {id \in N : Level(plan[id].parent) = -1} = {root}
                               /\ ReachedFrom(plan, root) = N
    <2>1. Root \in N /\ ReachedFrom(plan, Root) = N
      BY <1>1, <1>6, TreeIsReached
    <2>2. Level(plan[Root].parent) = -1
      BY <1>2, <1>4, <2>1
    <2>3. ASSUME NEW id \in N, id # Root PROVE Level(plan[id].parent) # -1
      <3>1. ParentOf(id)[1] \in Nat
        BY <1>3, <2>3, CellParts
      <3> QED
        BY <1>2, <2>3, <3>1 DEF Level
    <2>4. {id \in N : Level(plan[id].parent) = -1} = {Root}
      BY <2>1, <2>2, <2>3
    <2> QED
      BY <2>1, <2>4
  <1> QED
    BY <1>1, <1>5, <1>6, Zenon DEF ValidateTilePlan

-----------------------------------------------------------------------------
(* The plan over the tiles of a budget.                                    *)

(* Tiles none of which lies below another.                                 *)
IsCut(tiles) ==
    /\ IsFiniteSet(tiles)
    /\ tiles \subseteq [id : Nat \X Nat \X Nat, box : Boxes, count : Nat \ {0}]
    /\ \A t \in tiles : IsCell(t.id) /\ Upright(t.box)
    /\ \A t, u \in tiles : t.id \in PathTo(u.id) => t = u

Below(tiles, id) == {t \in tiles : id \in PathTo(t.id)}

AllAbove(tiles) == UNION {PathTo(t.id) : t \in tiles}

BoxesOf(tiles) == {t.box : t \in tiles}

Kin(nodes, id) == {c \in nodes : Level(c) > 0 /\ ParentOf(c) = id}

Holds(tiles, id) == \E t \in tiles : t.id = id

LEMMA NodesAre ==
  ASSUME NEW tiles, NEW N, N = AllAbove(tiles), NEW plan, plan = NodesOver(tiles)
  PROVE  /\ DOMAIN plan = N
         /\ \A id \in N :
               /\ plan[id].count = Count(Below(tiles, id))
               /\ plan[id].box = Hull(BoxesOf(Below(tiles, id)))
               /\ plan[id].parent = IF id = Root THEN NoTile ELSE ParentOf(id)
               /\ plan[id].children = Kin(N, id)
               /\ plan[id].isLeaf <=> Holds(tiles, id)
  <1> DEFINE node(id) == [count    |-> Count(Below(tiles, id)),
                          box      |-> Hull(BoxesOf(Below(tiles, id))),
                          parent   |-> IF id = Root THEN NoTile ELSE ParentOf(id),
                          children |-> Kin(N, id),
                          isLeaf   |-> Holds(tiles, id)]
  <1>1. plan = [id \in N |-> node(id)]
    BY Zenon DEF NodesOver, AllAbove, Below, BoxesOf, Kin, Holds
  <1>2. DOMAIN plan = N /\ \A id \in N : plan[id] = node(id)
    <2> HIDE DEF node
    <2> QED
      BY <1>1
  <1>3. ASSUME NEW id \in N
        PROVE  /\ plan[id].count = Count(Below(tiles, id))
               /\ plan[id].box = Hull(BoxesOf(Below(tiles, id)))
               /\ plan[id].parent = IF id = Root THEN NoTile ELSE ParentOf(id)
               /\ plan[id].children = Kin(N, id)
    BY <1>2
  <1>4. ASSUME NEW id \in N PROVE plan[id].isLeaf <=> Holds(tiles, id)
    <2>1. plan[id].isLeaf = node(id).isLeaf
      BY <1>2, Zenon
    <2>2. node(id).isLeaf = Holds(tiles, id)
      BY Zenon
    <2> QED
      BY <2>1, <2>2, Zenon
  <1> QED
    BY <1>2, <1>3, <1>4

LEMMA PathFinite ==
  ASSUME NEW id, IsCell(id)
  PROVE  IsFiniteSet(PathTo(id))
  <1>1. id[1] \in Nat /\ IsFiniteSet(0..id[1])
    <2>1. PICK n \in Nat : n = id[1]
      BY CellParts
    <2>2. 0 \in Int /\ n \in Int
      OBVIOUS
    <2> QED
      BY <2>1, <2>2, FS_Interval
  <1>2. [l \in 0..id[1] |-> Above(id, l)] \in Surjection(0..id[1], PathTo(id))
    BY PathIs DEF Surjection
  <1> QED
    BY <1>1, <1>2, FS_Surjection

LEMMA AllAboveIs ==
  ASSUME NEW tiles, IsFiniteSet(tiles), \A t \in tiles : IsCell(t.id)
  PROVE  /\ IsFiniteSet(AllAbove(tiles))
         /\ \A id \in AllAbove(tiles) : /\ IsCell(id) /\ PathTo(id) \subseteq AllAbove(tiles)
                                        /\ Below(tiles, id) # {}
         /\ \A t \in tiles : t.id \in AllAbove(tiles)
         /\ tiles # {} => Root \in AllAbove(tiles)
  <1> DEFINE S == {PathTo(t.id) : t \in tiles}
  <1>1. IsFiniteSet(S)
    <2>1. [t \in tiles |-> PathTo(t.id)] \in Surjection(tiles, S)
      BY DEF Surjection
    <2> QED
      BY <2>1, FS_Surjection
  <1>2. \A p \in S : IsFiniteSet(p)
    BY PathFinite
  <1>3. IsFiniteSet(AllAbove(tiles))
    <2>1. AllAbove(tiles) = UNION S
      BY DEF AllAbove
    <2> HIDE DEF S
    <2> QED
      BY <1>1, <1>2, <2>1, FS_UNION
  <1>4. ASSUME NEW id \in AllAbove(tiles)
        PROVE  IsCell(id) /\ PathTo(id) \subseteq AllAbove(tiles) /\ Below(tiles, id) # {}
    <2>1. PICK t \in tiles : id \in PathTo(t.id)
      BY DEF AllAbove
    <2>2. IsCell(id)
      BY <2>1, PathMember
    <2>3. PathTo(id) \subseteq PathTo(t.id)
      BY <2>1, PathTransitive
    <2> QED
      BY <2>1, <2>2, <2>3 DEF AllAbove, Below
  <1>5. \A t \in tiles : t.id \in AllAbove(tiles) /\ Root \in AllAbove(tiles)
    BY PathEnds DEF AllAbove
  <1> QED
    BY <1>3, <1>4, <1>5

LEMMA CountIs ==
  ASSUME NEW tiles
  PROVE  Count(tiles) = SumFunctionOnSet([t \in tiles |-> t.count], tiles)
  <1>1. PICK f : f = [t \in tiles |-> t.count]
    OBVIOUS
  <1>2. SumFunction(f) = SumFunctionOnSet(f, DOMAIN f) /\ DOMAIN f = tiles
    BY <1>1, Zenon DEF SumFunction
  <1> QED
    BY <1>1, <1>2 DEF Count

LEMMA NodesAreTree ==
  ASSUME NEW tiles, IsCut(tiles)
  PROVE  IsTree(NodesOver(tiles))
  <1>1. PICK plan, N : plan = NodesOver(tiles) /\ N = AllAbove(tiles)
    OBVIOUS
  <1>2. /\ IsFiniteSet(tiles)
        /\ \A t \in tiles : /\ IsCell(t.id) /\ t.box \in Boxes /\ Upright(t.box)
                            /\ t.count \in Nat \ {0}
        /\ \A t, u \in tiles : t.id \in PathTo(u.id) => t = u
    BY DEF IsCut
  <1>3. /\ IsFiniteSet(N)
        /\ \A id \in N : IsCell(id) /\ PathTo(id) \subseteq N /\ Below(tiles, id) # {}
        /\ \A t \in tiles : t.id \in N
    BY <1>1, <1>2, AllAboveIs
  <1>4. /\ DOMAIN plan = N
        /\ \A id \in N :
               /\ plan[id].count = Count(Below(tiles, id))
               /\ plan[id].box = Hull(BoxesOf(Below(tiles, id)))
               /\ plan[id].parent = IF id = Root THEN NoTile ELSE ParentOf(id)
               /\ plan[id].children = Kin(N, id)
               /\ plan[id].isLeaf <=> Holds(tiles, id)
    BY <1>1, NodesAre
  <1>5. ASSUME NEW id \in N PROVE plan[id].count > 0
    <2>1. PICK B \in SUBSET tiles : B = Below(tiles, id)
      BY DEF Below
    <2>2. IsFiniteSet(B) /\ B # {}
      BY <1>2, <1>3, <2>1, FS_Subset
    <2>3. PICK f : f = [t \in B |-> t.count]
      OBVIOUS
    <2>4. \A t \in B : f[t] \in Nat \ {0}
      BY <1>2, <2>3
    <2>5. SumFunctionOnSet(f, B) > 0
      BY <2>2, <2>4, SumPositive
    <2> QED
      BY <1>4, <2>1, <2>3, <2>5, CountIs
  <1>6. ASSUME NEW id \in N PROVE Upright(plan[id].box)
    <2>1. PICK B \in SUBSET tiles : B = Below(tiles, id)
      BY DEF Below
    <2> DEFINE S == BoxesOf(B)
    <2>2. IsFiniteSet(B) /\ B # {}
      BY <1>2, <1>3, <2>1, FS_Subset
    <2>3. IsFiniteSet(S)
      <3>1. [t \in B |-> t.box] \in Surjection(B, S)
        BY DEF Surjection, BoxesOf
      <3> QED
        BY <2>2, <3>1, FS_Surjection
    <2>4. S \in SUBSET Boxes /\ S # {} /\ \A b \in S : Upright(b)
      BY <1>2, <2>2 DEF BoxesOf
    <2>5. plan[id].box = Hull(S)
      BY <1>4, <2>1
    <2> HIDE DEF S
    <2>6. PICK h \in Boxes : h = Hull(S)
      BY <2>3, <2>4, HullIs
    <2>7. PICK b \in S : TRUE
      BY <2>4
    <2>8. h.minX <= b.minX /\ b.maxX <= h.maxX /\ h.minY <= b.minY /\ b.maxY <= h.maxY
      BY <2>3, <2>4, <2>6, HullIs
    <2>9. b \in Boxes /\ Upright(b)
      BY <2>4, <2>7
    <2>10. Upright(h)
      BY <2>8, <2>9 DEF Upright, Boxes
    <2> QED
      BY <2>5, <2>6, <2>10
  <1>7. ASSUME NEW id \in N PROVE plan[id].children = ChildrenOf(id) \cap N
    <2>1. ASSUME NEW c \in N PROVE (Level(c) > 0 /\ ParentOf(c) = id) <=> c \in ChildrenOf(id)
      <3>1. IsCell(c) /\ IsCell(id) /\ c[1] \in Nat /\ id[1] \in Nat
        BY <1>3, CellParts
      <3>2. ASSUME c[1] > 0, ParentOf(c) = id PROVE c[1] = id[1] + 1
        <4>1. id[1] = c[1] - 1
          BY <3>1, <3>2, PathParent
        <4> QED
          BY <3>1, <4>1
      <3>3. ASSUME c[1] = id[1] + 1 PROVE c[1] > 0
        BY <3>1, <3>3
      <3> QED
        BY <3>1, <3>2, <3>3, ChildrenAre DEF Level
    <2>2. Kin(N, id) = ChildrenOf(id) \cap N
      BY <2>1 DEF Kin
    <2> QED
      BY <1>4, <2>2
  <1>8. ASSUME NEW id \in N PROVE plan[id].isLeaf <=> plan[id].children = {}
    <2>1. ASSUME NEW t \in tiles, t.id = id, NEW c \in ChildrenOf(id) \cap N PROVE FALSE
      <3>1. IsCell(c) /\ c[1] = id[1] + 1 /\ ParentOf(c) = id /\ id[1] \in Nat /\ IsCell(id)
        BY <1>3, <2>1, ChildrenAre, CellParts
      <3>2. c[1] > 0
        BY <3>1
      <3>3. id \in PathTo(c) /\ c \notin PathTo(id)
        BY <3>1, <3>2, PathParent
      <3>4. PICK u \in tiles : c \in PathTo(u.id)
        BY <2>1, <1>1 DEF AllAbove
      <3>5. id \in PathTo(u.id)
        BY <1>2, <3>3, <3>4, PathTransitive
      <3>6. t = u
        BY <1>2, <2>1, <3>5
      <3> QED
        BY <2>1, <3>3, <3>4, <3>6
    <2>2. ASSUME ~ \E t \in tiles : t.id = id PROVE ChildrenOf(id) \cap N # {}
      <3>1. PICK u \in tiles : id \in PathTo(u.id)
        BY <1>1 DEF AllAbove
      <3>2. PICK v : v = u.id /\ IsCell(v) /\ v # id /\ IsCell(id)
        BY <1>2, <1>3, <2>2, <3>1
      <3>3. PICK m \in Nat, n \in Nat : m = id[1] /\ n = v[1] /\ m < n
        <4>1. id[1] \in 0..v[1] /\ id = Above(v, id[1]) /\ v[1] \in Nat
          BY <3>1, <3>2, PathMember, CellParts
        <4>2. id[1] # v[1]
          BY <3>2, <4>1, AboveSelf
        <4> QED
          BY <4>1, <4>2
      <3>4. PICK c : c = Above(v, m + 1)
        OBVIOUS
      <3>5. IsCell(c) /\ c[1] = m + 1 /\ c \in PathTo(v)
        <4>1. m + 1 \in 0..v[1]
          BY <3>3
        <4> QED
          BY <3>2, <3>4, <4>1, AboveCell, PathIs
      <3>6. ParentOf(c) \in PathTo(v) /\ ParentOf(c)[1] = m
        <4>1. c[1] > 0 /\ (m + 1) - 1 = m
          BY <3>5
        <4>2. IsCell(ParentOf(c)) /\ ParentOf(c)[1] = m /\ ParentOf(c) \in PathTo(c)
          BY <3>5, <4>1, PathParent
        <4> QED
          BY <3>2, <3>5, <4>2, PathTransitive
      <3>7. ParentOf(c) = id
        BY <3>1, <3>2, <3>3, <3>6, PathUnique
      <3>8. c \in ChildrenOf(id)
        BY <3>2, <3>3, <3>5, <3>7, ChildrenAre
      <3>9. c \in N
        BY <1>1, <3>2, <3>5 DEF AllAbove
      <3> QED
        BY <3>8, <3>9
    <2> QED
      BY <1>4, <1>7, <2>1, <2>2 DEF Holds
  <1>9. \A id \in N : plan[id].parent = IF id = Root THEN NoTile ELSE ParentOf(id)
    BY <1>4
  <1> QED
    BY <1>1, <1>3, <1>4, <1>5, <1>6, <1>7, <1>8, <1>9 DEF IsTree

(* The tiles are the leaves of the plan over them.                         *)
LEMMA NodesHaveTiles ==
  ASSUME NEW tiles, IsCut(tiles)
  PROVE  /\ LeafTiles(NodesOver(tiles)) = tiles
         /\ \A t \in tiles : NodesOver(tiles)[t.id].box = t.box
         /\ tiles # {} => /\ Root \in DOMAIN NodesOver(tiles)
                          /\ NodesOver(tiles)[Root].count = Count(tiles)
  <1>1. PICK plan, N : plan = NodesOver(tiles) /\ N = AllAbove(tiles)
    OBVIOUS
  <1>2. /\ IsFiniteSet(tiles)
        /\ tiles \subseteq [id : Nat \X Nat \X Nat, box : Boxes, count : Nat \ {0}]
        /\ \A t \in tiles : IsCell(t.id)
        /\ \A t, u \in tiles : t.id \in PathTo(u.id) => t = u
    BY DEF IsCut
  <1>3. /\ \A t \in tiles : t.id \in N
        /\ tiles # {} => Root \in N
    BY <1>1, <1>2, AllAboveIs
  <1>4. /\ DOMAIN plan = N
        /\ \A id \in N :
               /\ plan[id].count = Count(Below(tiles, id))
               /\ plan[id].box = Hull(BoxesOf(Below(tiles, id)))
               /\ plan[id].isLeaf <=> Holds(tiles, id)
    BY <1>1, NodesAre
  <1>5. ASSUME NEW t \in tiles PROVE plan[t.id].box = t.box /\ plan[t.id].count = t.count
    <2>1. Below(tiles, t.id) = {t}
      BY <1>2, PathEnds DEF Below
    <2>2. BoxesOf({t}) = {t.box}
      BY DEF BoxesOf
    <2>3. t.box \in Boxes /\ t.count \in Nat
      BY <1>2
    <2>4. plan[t.id].box = t.box
      BY <1>3, <1>4, <2>1, <2>2, <2>3, HullOfOne
    <2>5. Count({t}) = t.count
      <3>1. PICK f : f = [u \in {t} |-> u.count]
        OBVIOUS
      <3>2. f[t] = t.count
        BY <3>1
      <3>3. SumFunctionOnSet(f, {t}) = t.count
        BY <2>3, <3>2, SumSingle
      <3> QED
        BY <3>1, <3>3, CountIs
    <2> QED
      BY <1>3, <1>4, <2>1, <2>4, <2>5
  <1>6. LeafTiles(plan) = tiles
    <2>1. ASSUME NEW id \in N, plan[id].isLeaf
          PROVE  [id |-> id, box |-> plan[id].box, count |-> plan[id].count] \in tiles
      <3>1. PICK t \in tiles : t.id = id
        BY <1>4, <2>1 DEF Holds
      <3>2. t = [id |-> t.id, box |-> t.box, count |-> t.count]
        BY <1>2
      <3> QED
        BY <1>5, <3>1, <3>2
    <2>2. ASSUME NEW t \in tiles
          PROVE  /\ t.id \in N /\ plan[t.id].isLeaf
                 /\ t = [id |-> t.id, box |-> plan[t.id].box, count |-> plan[t.id].count]
      <3>1. t = [id |-> t.id, box |-> t.box, count |-> t.count]
        BY <1>2
      <3> QED
        BY <1>3, <1>4, <1>5, <3>1 DEF Holds
    <2> QED
      BY <1>4, <2>1, <2>2 DEF LeafTiles
  <1>7. ASSUME tiles # {} PROVE Root \in DOMAIN plan /\ plan[Root].count = Count(tiles)
    <2>1. Below(tiles, Root) = tiles
      BY <1>2, PathEnds DEF Below
    <2> QED
      BY <1>3, <1>4, <1>7, <2>1
  <1> QED
    BY <1>1, <1>5, <1>6, <1>7

-----------------------------------------------------------------------------
(* What visit leaves behind.                                               *)

TileAt(counts, root, id) == [id |-> id, box |-> BoxOf(root, id), count |-> counts[id]]

LEMMA VisitTiles ==
  ASSUME NEW counts, NEW root, NEW config
  PROVE  /\ Visit(counts, root, config).satisfied <=>
               \A id \in Leaves(counts, root, config) : counts[id] <= config.max
         /\ \A id \in Leaves(counts, root, config) :
               TileAt(counts, root, id) \in Visit(counts, root, config).tiles
         /\ \A t \in Visit(counts, root, config).tiles :
               t.id \in Leaves(counts, root, config) /\ t = TileAt(counts, root, t.id)
  <1>1. PICK L, T : L = Leaves(counts, root, config) /\ T = Visit(counts, root, config).tiles
    OBVIOUS
  <1>2. T = {TileAt(counts, root, id) : id \in L}
    BY <1>1, VisitIs DEF TileAt
  <1>3. \A id : TileAt(counts, root, id).id = id
    BY DEF TileAt
  <1>4. /\ \A id \in L : TileAt(counts, root, id) \in T
        /\ \A t \in T : t.id \in L /\ t = TileAt(counts, root, t.id)
    BY <1>2, <1>3
  <1> QED
    BY <1>1, <1>4, VisitIs

(* The tiles lie apart, between them they have what was counted, each in   *)
(* the box of its cell.                                                    *)
Visited(visit, root, config, K, w, at) ==
    /\ IsCut(visit.tiles)
    /\ Count(visit.tiles) = SumFunctionOnSet(w, K)
    /\ visit.tiles = {} <=> K = {}
    /\ \A t \in visit.tiles : /\ t.id[1] <= config.depth
                              /\ t.box = BoxOf(root, t.id)
                              /\ t.count = SumFunctionOnSet(w, Under(K, at, t.id))
                              /\ t.count >= config.min \/ t.id = Root
                              /\ visit.satisfied => t.count <= config.max
                              /\ \E k \in K : t.id \in PathTo(at[k])
    /\ \A k \in K : \E t \in visit.tiles : t.id \in PathTo(at[k])
    /\ \A t \in visit.tiles : \A a \in PathTo(t.id) \ {t.id} : ~Flat(BoxOf(root, a))

LEMMA VisitCuts ==
  ASSUME NEW counts, NEW K, NEW w, NEW at, NEW root \in Boxes, Upright(root),
         NEW config, config.depth \in Nat,
         Weighs(counts, K, w, at, config.depth)
  PROVE  Visited(Visit(counts, root, config), root, config, K, w, at)
  <1>0. PICK tiles : tiles = Visit(counts, root, config).tiles
    OBVIOUS
  <1>1. PICK L : L = Leaves(counts, root, config)
    OBVIOUS
  <1>2. /\ Visit(counts, root, config).satisfied <=> \A id \in L : counts[id] <= config.max
        /\ \A id \in L : TileAt(counts, root, id) \in tiles
        /\ \A t \in tiles : t.id \in L /\ t = TileAt(counts, root, t.id)
    BY <1>0, <1>1, VisitTiles
  <1>3. /\ IsFiniteSet(L) /\ (L = {} <=> K = {})
        /\ SumFunctionOnSet(counts, L) = SumFunctionOnSet(w, K)
    <2>1. Shares(Leaves(counts, root, config), counts, K, w)
      BY LeavesShare
    <2> QED
      BY <1>1, <2>1 DEF Shares
  <1>4. ASSUME NEW l \in L
        PROVE  /\ IsCell(l) /\ l[1] <= config.depth /\ counts[l] \in Nat \ {0}
               /\ counts[l] = SumFunctionOnSet(w, Under(K, at, l))
               /\ \E k \in K : l \in PathTo(at[k])
               /\ counts[l] >= config.min \/ l = Root
    <2>1. l \in Leaves(counts, root, config)
      BY <1>1
    <2>2. IsCell(l) /\ l[1] <= config.depth /\ counts[l] \in Nat \ {0}
      BY <2>1, LeafIs
    <2>3. counts[l] = SumFunctionOnSet(w, Under(K, at, l))
      BY <2>1, LeafIs
    <2>4. \E k \in K : l \in PathTo(at[k])
      BY <2>1, LeafIs
    <2>5. counts[l] >= config.min \/ l = Root
      <3>1. Large(counts, config.min, l)
        BY <2>1, LeafIsLarge
      <3> QED
        BY <3>1 DEF Large
    <2> QED
      BY <2>2, <2>3, <2>4, <2>5
  <1>5. \A t \in tiles : t.box = BoxOf(root, t.id) /\ t.count = counts[t.id] /\ t.id \in L
    BY <1>2 DEF TileAt
  <1>6. \A t, u \in tiles : t.id = u.id => t = u
    BY <1>2
  <1>7. IsFiniteSet(tiles) /\ (tiles = {} <=> L = {})
    <2>1. [id \in L |-> TileAt(counts, root, id)] \in Surjection(L, tiles)
      BY <1>2 DEF Surjection
    <2> QED
      BY <1>2, <1>3, <2>1, FS_Surjection
  <1>8. \A t \in tiles : /\ t \in [id : Nat \X Nat \X Nat, box : Boxes, count : Nat \ {0}]
                         /\ IsCell(t.id) /\ Upright(t.box)
    <2> TAKE t \in tiles
    <2>1. PICK l \in L : l = t.id /\ t = TileAt(counts, root, l)
      BY <1>2
    <2>2. l \in Nat \X Nat \X Nat /\ IsCell(l) /\ counts[l] \in Nat \ {0}
      BY <1>4 DEF IsCell
    <2>3. BoxOf(root, l) \in Boxes /\ Upright(BoxOf(root, l))
      BY <2>2, BoxOfWithin
    <2> QED
      BY <2>1, <2>2, <2>3 DEF TileAt
  <1>9. \A t, u \in tiles : t.id \in PathTo(u.id) => t = u
    BY <1>1, <1>5, <1>6, LeavesApart
  <1>10. IsCut(tiles)
    BY <1>7, <1>8, <1>9 DEF IsCut
  <1>11. Count(tiles) = SumFunctionOnSet(counts, L)
    <2>1. PICK f : f = [t \in tiles |-> t.count]
      OBVIOUS
    <2>2. PICK part : part = [id \in L |-> TileAt(counts, root, id)]
      OBVIOUS
    <2>3. part \in [L -> tiles]
      BY <1>2, <2>2
    <2>4. ASSUME NEW t \in tiles PROVE f[t] = SumFunctionOnSet(counts, Part(part, L, t))
      <3>1. Part(part, L, t) = {t.id}
        <4>1. \A l \in L : part[l].id = l
          BY <2>2 DEF TileAt
        <4>2. part[t.id] = t /\ t.id \in L
          BY <1>2, <2>2
        <4> QED
          BY <4>1, <4>2 DEF Part
      <3>2. counts[t.id] \in Nat /\ f[t] = counts[t.id]
        BY <1>4, <1>5, <2>1
      <3> QED
        BY <3>1, <3>2, SumSingle
    <2>5. SumFunctionOnSet(f, tiles) = SumFunctionOnSet(counts, L)
      <3>1. \A l \in L : counts[l] \in Nat
        BY <1>4
      <3>2. IsFiniteSet(tiles) /\ IsFiniteSet(L)
        BY <1>3, <1>7
      <3> QED
        BY <2>3, <2>4, <3>1, <3>2, SumPartition
    <2> QED
      BY <2>1, <2>5, CountIs
  <1>12. ASSUME NEW t \in tiles
         PROVE  /\ t.id[1] <= config.depth
                /\ t.box = BoxOf(root, t.id)
                /\ t.count = SumFunctionOnSet(w, Under(K, at, t.id))
                /\ t.count >= config.min \/ t.id = Root
                /\ Visit(counts, root, config).satisfied => t.count <= config.max
                /\ \E k \in K : t.id \in PathTo(at[k])
    <2>1. PICK l \in L : l = t.id /\ t.box = BoxOf(root, l) /\ t.count = counts[l]
      BY <1>5
    <2>2. /\ l[1] <= config.depth /\ counts[l] = SumFunctionOnSet(w, Under(K, at, l))
          /\ \E k \in K : l \in PathTo(at[k])
          /\ counts[l] >= config.min \/ l = Root
      BY <1>4
    <2>3. Visit(counts, root, config).satisfied => counts[l] <= config.max
      BY <1>2
    <2> QED
      BY <2>1, <2>2, <2>3
  <1>13. ASSUME NEW k \in K PROVE \E t \in tiles : t.id \in PathTo(at[k])
    <2>1. PICK l \in L : l \in PathTo(at[k])
      BY <1>1, LeafAbove
    <2>2. TileAt(counts, root, l) \in tiles /\ TileAt(counts, root, l).id = l
      BY <1>2 DEF TileAt
    <2> QED
      BY <2>1, <2>2
  <1>14. ASSUME NEW t \in tiles, NEW a \in PathTo(t.id) \ {t.id} PROVE ~Flat(BoxOf(root, a))
    <2>1. t.id \in Leaves(counts, root, config)
      BY <1>1, <1>2
    <2> QED
      BY <2>1 DEF Leaves, Splits, CanSplit
  <1> QED
    <2>1. Count(tiles) = SumFunctionOnSet(w, K) /\ (tiles = {} <=> K = {})
      BY <1>3, <1>7, <1>11
    <2> QED
      BY <1>0, <1>10, <1>12, <1>13, <1>14, <2>1 DEF Visited

-----------------------------------------------------------------------------
(* The router.                                                             *)

Hits(tiles, cell, depth) ==
    {l \in 0..depth : /\ \E t \in tiles : t.id = cell[l].id
                      /\ \A k \in 0..(l - 1) : ~Flat(cell[k].box)}

LEMMA GetTileIs ==
  ASSUME NEW tiles, NEW p, NEW depth, NEW root, root = Hull(BoxesOf(tiles)),
         NEW cell, cell = Descent(root, p, depth)
  PROVE  GetTileId(tiles, p, depth) =
            IF tiles # {} /\ InBox(p, root) /\ Hits(tiles, cell, depth) # {}
            THEN cell[Min(Hits(tiles, cell, depth))].id ELSE NoTile
  BY Zenon DEF GetTileId, Hits, BoxesOf

LEMMA HitsAre ==
  ASSUME NEW tiles, NEW cell, NEW depth \in Nat, Hits(tiles, cell, depth) # {}
  PROVE  Min(Hits(tiles, cell, depth)) \in Hits(tiles, cell, depth)
  <1>1. PICK S \in SUBSET (0..depth) : S = Hits(tiles, cell, depth) /\ S # {}
    BY DEF Hits
  <1>2. IsFiniteSet(0..depth)
    <2>1. 0 \in Int /\ depth \in Int
      OBVIOUS
    <2> QED
      BY <2>1, FS_Interval
  <1>3. IsFiniteSet(S) /\ S \in SUBSET Int
    <2>1. S \in SUBSET Int
      OBVIOUS
    <2> QED
      BY <1>2, <2>1, FS_Subset
  <1>4. Min(S) \in S
    BY <1>1, <1>3, MinMax
  <1> QED
    BY <1>1, <1>4

(* A tile that the router finds holds the position.                        *)
LEMMA RouterHolds ==
  ASSUME NEW tiles, NEW root \in Boxes, Upright(root), root = Hull(BoxesOf(tiles)),
         \A t \in tiles : t.box = BoxOf(root, t.id),
         NEW p, IsPoint(p), NEW depth \in Nat, GetTileId(tiles, p, depth) # NoTile
  PROVE  \E t \in tiles : t.id = GetTileId(tiles, p, depth) /\ InBox(p, t.box)
  <1>1. PICK cell : cell = Descent(root, p, depth)
    OBVIOUS
  <1>2. PICK S : S = Hits(tiles, cell, depth)
    OBVIOUS
  <1>3. InBox(p, root) /\ S # {} /\ GetTileId(tiles, p, depth) = cell[Min(S)].id
    BY <1>1, <1>2, GetTileIs
  <1>4. PICK l \in 0..depth : l = Min(S) /\ \E t \in tiles : t.id = cell[l].id
    <2>1. Min(S) \in S
      BY <1>2, <1>3, HitsAre
    <2> QED
      BY <1>2, <2>1 DEF Hits
  <1>5. PICK t \in tiles : t.id = cell[l].id
    BY <1>4
  <1>6. cell[l].box = BoxOf(root, cell[l].id)
    BY <1>1, DescentCells
  <1>7. InBox(p, cell[l].box)
    BY <1>1, <1>3, DescentHolds
  <1>8. t.box = cell[l].box
    BY <1>5, <1>6
  <1> QED
    BY <1>3, <1>4, <1>5, <1>7, <1>8

(* A position goes to the tile above its cell at full depth.               *)
LEMMA RouterFinds ==
  ASSUME NEW tiles, IsCut(tiles), NEW root \in Boxes, root = Hull(BoxesOf(tiles)),
         \A t \in tiles : \A a \in PathTo(t.id) \ {t.id} : ~Flat(BoxOf(root, a)),
         NEW p, InBox(p, root), NEW depth \in Nat,
         NEW t \in tiles, t.id \in PathTo(Descent(root, p, depth)[depth].id)
  PROVE  GetTileId(tiles, p, depth) = t.id
  <1>1. PICK cell : cell = Descent(root, p, depth)
    OBVIOUS
  <1>2. PICK S : S = Hits(tiles, cell, depth)
    OBVIOUS
  <1>3. \A l \in 0..depth : /\ IsCell(cell[l].id) /\ cell[l].id[1] = l
                            /\ cell[l].box = BoxOf(root, cell[l].id)
                            /\ cell[l].id \in PathTo(cell[depth].id)
    <2>1. depth \in 0..depth
      OBVIOUS
    <2> QED
      BY <1>1, <2>1, DescentCells, DescentPath
  <1>4. PICK n \in 0..depth : n = t.id[1] /\ cell[n].id = t.id
    <2>1. IsCell(cell[depth].id) /\ cell[depth].id[1] = depth
      <3>1. depth \in 0..depth
        OBVIOUS
      <3> QED
        BY <1>3, <3>1
    <2>2. t.id[1] \in 0..depth
      BY <1>1, <2>1, PathMember
    <2>3. cell[t.id[1]].id \in PathTo(cell[depth].id) /\ cell[t.id[1]].id[1] = t.id[1]
      BY <1>3, <2>2
    <2>4. cell[t.id[1]].id = t.id
      BY <1>1, <2>1, <2>3, PathUnique
    <2> QED
      BY <2>2, <2>4
  <1>5. n \in S
    <2>1. ASSUME NEW k \in 0..(n - 1) PROVE ~Flat(cell[k].box)
      <3>1. k \in 0..depth /\ k \in 0..n /\ k # n
        OBVIOUS
      <3>2. cell[k].id \in PathTo(cell[n].id)
        BY <1>1, <3>1, DescentPath
      <3>3. cell[k].id # t.id
        BY <1>3, <1>4, <3>1
      <3>4. cell[k].id \in PathTo(t.id) \ {t.id}
        BY <1>4, <3>2, <3>3
      <3>5. cell[k].box = BoxOf(root, cell[k].id)
        BY <1>3, <3>1
      <3> QED
        BY <3>4, <3>5
    <2> QED
      BY <1>2, <1>4, <2>1 DEF Hits
  <1>6. ASSUME NEW l \in S PROVE l = n
    <2>1. l \in 0..depth
      BY <1>2 DEF Hits
    <2>2. PICK u \in tiles : u.id = cell[l].id
      BY <1>2 DEF Hits
    <2>3. u.id \in PathTo(t.id) \/ t.id \in PathTo(u.id)
      <3>1. l <= n \/ n <= l
        BY <2>1
      <3>2. CASE l <= n
        <4>1. l \in 0..n
          BY <2>1, <3>2
        <4>2. cell[l].id \in PathTo(cell[n].id)
          BY <1>1, <4>1, DescentPath
        <4> QED
          BY <1>4, <2>2, <4>2
      <3>3. CASE n <= l
        <4>1. n \in 0..l
          BY <2>1, <3>3
        <4>2. cell[n].id \in PathTo(cell[l].id)
          BY <1>1, <2>1, <4>1, DescentPath
        <4> QED
          BY <1>4, <2>2, <4>2
      <3> QED
        BY <3>1, <3>2, <3>3
    <2>4. u = t
      BY <2>3 DEF IsCut
    <2> QED
      BY <1>3, <1>4, <2>1, <2>2, <2>4
  <1>7. Min(S) = n
    BY <1>2, <1>5, <1>6, HitsAre
  <1>8. GetTileId(tiles, p, depth) = cell[Min(S)].id
    BY <1>1, <1>2, <1>5, GetTileIs
  <1> QED
    BY <1>4, <1>7, <1>8

-----------------------------------------------------------------------------
(* The codes of the second pass: each is that of a cell at full depth.     *)

IsTally(terminal, depth) ==
    /\ IsFiniteSet(DOMAIN terminal)
    /\ \A c \in DOMAIN terminal :
          /\ terminal[c] \in Nat \ {0}
          /\ \E id \in CellsTo(depth) : id[1] = depth /\ Code(id) = c

CellWith(depth, c) == CHOOSE id \in CellsTo(depth) : id[1] = depth /\ Code(id) = c

CellsWith(terminal, depth) == [c \in DOMAIN terminal |-> CellWith(depth, c)]

PlanCounts(terminal, depth) == [id \in CellsTo(depth) |-> CountFor(terminal, depth, id)]

(* The codes in the range of a cell are those of the cells below it.       *)
LEMMA CountForIs ==
  ASSUME NEW depth \in Nat, NEW terminal, IsTally(terminal, depth), NEW id \in CellsTo(depth)
  PROVE  CountFor(terminal, depth, id) =
            SumFunctionOnSet(terminal, Under(DOMAIN terminal, CellsWith(terminal, depth), id))
  <1>1. IsCell(id) /\ id[1] \in Nat /\ id[1] <= depth
    BY CellsAre, CellParts
  <1>2. PICK C : C = CellsWith(terminal, depth)
    OBVIOUS
  <1>3. \A c \in DOMAIN terminal : IsCell(C[c]) /\ C[c][1] = depth /\ Code(C[c]) = c
    <2> TAKE c \in DOMAIN terminal
    <2>1. PICK cell \in CellsTo(depth) : cell[1] = depth /\ Code(cell) = c
      BY DEF IsTally
    <2>2. /\ CellWith(depth, c) \in CellsTo(depth) /\ CellWith(depth, c)[1] = depth
          /\ Code(CellWith(depth, c)) = c
      BY <2>1, Zenon DEF CellWith
    <2>3. C[c] = CellWith(depth, c)
      BY <1>2 DEF CellsWith
    <2> QED
      BY <2>2, <2>3, CellsAre
  <1>4. PICK S : S = {c \in DOMAIN terminal :
                        /\ c >= Code(id) * 2^(2 * (depth - id[1]))
                        /\ c < (Code(id) + 1) * 2^(2 * (depth - id[1]))}
    OBVIOUS
  <1>5. S = Under(DOMAIN terminal, C, id)
    <2>1. ASSUME NEW c \in DOMAIN terminal
          PROVE  (/\ c >= Code(id) * 2^(2 * (depth - id[1]))
                  /\ c < (Code(id) + 1) * 2^(2 * (depth - id[1])))
                 <=> id \in PathTo(C[c])
      <3>1. IsCell(C[c]) /\ C[c][1] = depth /\ Code(C[c]) = c
        BY <1>3
      <3>2. (/\ Code(C[c]) >= Code(id) * 2^(2 * (C[c][1] - id[1]))
             /\ Code(C[c]) < (Code(id) + 1) * 2^(2 * (C[c][1] - id[1])))
            <=> id \in PathTo(C[c])
        BY <1>1, <3>1, CodesBelow
      <3> QED
        BY <3>1, <3>2
    <2> QED
      BY <1>4, <2>1, Zenon DEF Under
  <1>6. CountFor(terminal, depth, id) = SumFunctionOnSet(terminal, S)
    BY <1>4, Zenon DEF CountFor, Code, Level
  <1> QED
    BY <1>2, <1>5, <1>6

LEMMA WeighsCodes ==
  ASSUME NEW depth \in Nat, NEW terminal, IsTally(terminal, depth)
  PROVE  Weighs(PlanCounts(terminal, depth), DOMAIN terminal, terminal,
                CellsWith(terminal, depth), depth)
  <1>1. \A c \in DOMAIN terminal :
           /\ terminal[c] \in Nat \ {0}
           /\ IsCell(CellsWith(terminal, depth)[c]) /\ CellsWith(terminal, depth)[c][1] = depth
    <2> TAKE c \in DOMAIN terminal
    <2>1. PICK cell \in CellsTo(depth) : cell[1] = depth /\ Code(cell) = c
      BY DEF IsTally
    <2>2. CellWith(depth, c) \in CellsTo(depth) /\ CellWith(depth, c)[1] = depth
      BY <2>1, Zenon DEF CellWith
    <2>3. CellsWith(terminal, depth)[c] = CellWith(depth, c)
      BY DEF CellsWith
    <2>4. terminal[c] \in Nat \ {0}
      BY DEF IsTally
    <2> QED
      BY <2>2, <2>3, <2>4, CellsAre
  <1>2. IsFiniteSet(DOMAIN terminal)
    BY DEF IsTally
  <1>3. PlanCounts(terminal, depth) =
           [id \in CellsTo(depth) |->
              SumFunctionOnSet(terminal, Under(DOMAIN terminal, CellsWith(terminal, depth), id))]
    BY CountForIs DEF PlanCounts
  <1> QED
    BY <1>1, <1>2, <1>3 DEF Weighs

(* The codes count points: the i-th of them lies in the cell at[i].        *)
Tallied(terminal, I, at, depth) ==
    /\ IsFiniteSet(I)
    /\ \A i \in I : IsCell(at[i]) /\ at[i][1] = depth /\ Code(at[i]) \in DOMAIN terminal
    /\ \A c \in DOMAIN terminal :
          /\ \E i \in I : Code(at[i]) = c
          /\ terminal[c] = Cardinality({i \in I : Code(at[i]) = c})

LEMMA TalliedIsTally ==
  ASSUME NEW depth \in Nat, NEW terminal, NEW I, NEW at, Tallied(terminal, I, at, depth)
  PROVE  /\ IsTally(terminal, depth)
         /\ \A i \in I : CellsWith(terminal, depth)[Code(at[i])] = at[i]
  <1>1. IsFiniteSet(DOMAIN terminal)
    <2>1. PICK f : f = [i \in I |-> Code(at[i])]
      OBVIOUS
    <2>2. f \in Surjection(I, DOMAIN terminal)
      BY <2>1 DEF Tallied, Surjection
    <2>3. IsFiniteSet(I)
      BY DEF Tallied
    <2> QED
      BY <2>2, <2>3, FS_Surjection
  <1>2. ASSUME NEW c \in DOMAIN terminal
        PROVE  /\ terminal[c] \in Nat \ {0}
               /\ \E id \in CellsTo(depth) : id[1] = depth /\ Code(id) = c
    <2>1. PICK i \in I : Code(at[i]) = c
      BY DEF Tallied
    <2>2. PICK S \in SUBSET I : S = {k \in I : Code(at[k]) = c}
      OBVIOUS
    <2>3. terminal[c] = Cardinality(S) /\ IsFiniteSet(I)
      BY <2>2 DEF Tallied
    <2>4. IsFiniteSet(S) /\ i \in S
      BY <2>1, <2>2, <2>3, FS_Subset
    <2>5. Cardinality(S) \in Nat /\ Cardinality(S) # 0
      BY <2>4, FS_CardinalityType, FS_EmptySet
    <2>6. IsCell(at[i]) /\ at[i][1] = depth
      BY DEF Tallied
    <2>7. at[i] \in CellsTo(depth)
      BY <2>6, CellsAre
    <2> QED
      BY <2>1, <2>3, <2>5, <2>6, <2>7
  <1>3. IsTally(terminal, depth)
    BY <1>1, <1>2 DEF IsTally
  <1>4. ASSUME NEW i \in I PROVE CellsWith(terminal, depth)[Code(at[i])] = at[i]
    <2>1. IsCell(at[i]) /\ at[i][1] = depth /\ Code(at[i]) \in DOMAIN terminal
      BY DEF Tallied
    <2>2. at[i] \in CellsTo(depth)
      BY <2>1, CellsAre
    <2>3. PICK c : c = Code(at[i])
      OBVIOUS
    <2>4. /\ CellWith(depth, c) \in CellsTo(depth) /\ CellWith(depth, c)[1] = depth
          /\ Code(CellWith(depth, c)) = c
      BY <2>1, <2>2, <2>3, Zenon DEF CellWith
    <2>5. CellWith(depth, c) = at[i]
      BY <2>1, <2>3, <2>4, CellsAre, CodesDiffer
    <2> QED
      BY <2>1, <2>3, <2>5 DEF CellsWith
  <1> QED
    BY <1>3, <1>4


LEMMA TalliedWeighs ==
  ASSUME NEW depth \in Nat, NEW terminal, NEW I, NEW at, Tallied(terminal, I, at, depth),
         NEW ones, ones = [i \in I |-> 1]
  PROVE  Weighs(PlanCounts(terminal, depth), I, ones, at, depth)
  <1>1. IsTally(terminal, depth)
    BY TalliedIsTally
  <1>2. PICK C : C = CellsWith(terminal, depth)
    OBVIOUS
  <1>3. \A i \in I : /\ IsCell(at[i]) /\ at[i][1] = depth /\ Code(at[i]) \in DOMAIN terminal
                     /\ C[Code(at[i])] = at[i]
    <2>1. \A i \in I : CellsWith(terminal, depth)[Code(at[i])] = at[i]
      BY TalliedIsTally
    <2>2. \A i \in I : IsCell(at[i]) /\ at[i][1] = depth /\ Code(at[i]) \in DOMAIN terminal
      BY DEF Tallied
    <2> QED
      BY <1>2, <2>1, <2>2
  <1>4. IsFiniteSet(I) /\ IsFiniteSet(DOMAIN terminal)
    BY <1>1 DEF Tallied, IsTally
  <1>5. ASSUME NEW id \in CellsTo(depth)
        PROVE  CountFor(terminal, depth, id) = SumFunctionOnSet(ones, Under(I, at, id))
    <2>1. PICK U, V : U = Under(DOMAIN terminal, C, id) /\ V = Under(I, at, id)
      OBVIOUS
    <2>2. U \subseteq DOMAIN terminal /\ V \subseteq I
      BY <2>1 DEF Under
    <2>3. IsFiniteSet(U) /\ IsFiniteSet(V)
      BY <1>4, <2>2, FS_Subset
    <2>4. PICK part : part = [i \in V |-> Code(at[i])]
      OBVIOUS
    <2>5. part \in [V -> U]
      BY <1>3, <2>1, <2>4 DEF Under
    <2>6. ASSUME NEW c \in U PROVE terminal[c] = SumFunctionOnSet(ones, Part(part, V, c))
      <3>1. PICK S : S = {i \in I : Code(at[i]) = c}
        OBVIOUS
      <3>2. terminal[c] = Cardinality(S)
        BY <2>2, <3>1 DEF Tallied
      <3>3. S = Part(part, V, c)
        <4>1. ASSUME NEW i \in S PROVE i \in V /\ part[i] = c
          <5>1. i \in I /\ Code(at[i]) = c
            BY <3>1
          <5>2. id \in PathTo(C[c])
            BY <2>1 DEF Under
          <5>3. i \in V
            BY <1>3, <2>1, <5>1, <5>2 DEF Under
          <5> QED
            BY <2>4, <5>1, <5>3
        <4>2. ASSUME NEW i \in V, part[i] = c PROVE i \in S
          BY <2>2, <2>4, <3>1, <4>2
        <4> QED
          BY <3>1, <4>1, <4>2 DEF Part
      <3>4. S \subseteq I
        BY <3>1
      <3>5. IsFiniteSet(S) /\ \A i \in S : ones[i] = 1
        BY <1>4, <3>4, FS_Subset
      <3>6. SumFunctionOnSet(ones, S) = Cardinality(S)
        BY <3>5, SumOfOnes
      <3> QED
        BY <3>2, <3>3, <3>6
    <2>7. \A i \in V : ones[i] \in Nat
      BY <2>2
    <2>8. SumFunctionOnSet(terminal, U) = SumFunctionOnSet(ones, V)
      BY <2>3, <2>5, <2>6, <2>7, SumPartition
    <2> QED
      BY <1>1, <1>2, <2>1, <2>8, CountForIs
  <1>6. PlanCounts(terminal, depth) =
           [id \in CellsTo(depth) |-> SumFunctionOnSet(ones, Under(I, at, id))]
    BY <1>5 DEF PlanCounts
  <1>7. \A i \in I : ones[i] \in Nat \ {0} /\ IsCell(at[i]) /\ at[i][1] = depth
    BY <1>3
  <1> QED
    BY <1>4, <1>6, <1>7 DEF Weighs

(* One more point.                                                         *)
AddOne(terminal, code) ==
    [c \in DOMAIN terminal \cup {code} |->
        (IF c \in DOMAIN terminal THEN terminal[c] ELSE 0) + (IF c = code THEN 1 ELSE 0)]

Total(terminal) == SumFunctionOnSet(terminal, DOMAIN terminal)

LEMMA TallyNext ==
  ASSUME NEW depth \in Nat, NEW terminal, IsTally(terminal, depth),
         NEW cell, IsCell(cell), cell[1] = depth
  PROVE  /\ IsTally(AddOne(terminal, Code(cell)), depth)
         /\ Total(terminal) \in Nat
         /\ Total(AddOne(terminal, Code(cell))) = Total(terminal) + 1
  <1>1. PICK D, code, more : /\ D = DOMAIN terminal /\ code = Code(cell)
                             /\ more = AddOne(terminal, code)
    OBVIOUS
  <1>2. IsFiniteSet(D) /\ \A c \in D : terminal[c] \in Nat \ {0}
    BY <1>1 DEF IsTally
  <1>3. /\ DOMAIN more = D \cup {code}
        /\ \A c \in D \ {code} : more[c] = terminal[c]
        /\ more[code] = (IF code \in D THEN terminal[code] ELSE 0) + 1
    <2>1. more = [c \in D \cup {code} |->
                    (IF c \in D THEN terminal[c] ELSE 0) + (IF c = code THEN 1 ELSE 0)]
      BY <1>1 DEF AddOne
    <2>2. \A c \in D \ {code} : more[c] = terminal[c]
      BY <1>2, <2>1
    <2> QED
      BY <2>1, <2>2
  <1>4. \A c \in D \cup {code} : more[c] \in Nat \ {0}
    BY <1>2, <1>3
  <1>5. IsFiniteSet(D \cup {code})
    BY <1>2, FS_AddElement
  <1>6. IsTally(more, depth)
    <2>1. cell \in CellsTo(depth)
      BY CellsAre
    <2>2. \A c \in D : \E id \in CellsTo(depth) : id[1] = depth /\ Code(id) = c
      BY <1>1 DEF IsTally
    <2> QED
      BY <1>1, <1>3, <1>4, <1>5, <2>1, <2>2 DEF IsTally
  <1>7. PICK R : R = D \ {code}
    OBVIOUS
  <1>8. IsFiniteSet(R) /\ code \notin R /\ \A c \in R : terminal[c] \in Nat /\ terminal[c] = more[c]
    BY <1>2, <1>3, <1>7, FS_RemoveElement
  <1>9. /\ SumFunctionOnSet(more, R) = SumFunctionOnSet(terminal, R)
        /\ SumFunctionOnSet(terminal, R) \in Nat
    BY <1>8, SumAgree, SumIsNat
  <1>10. SumFunctionOnSet(more, R \cup {code}) = more[code] + SumFunctionOnSet(more, R)
    <2>1. \A c \in R \cup {code} : more[c] \in Nat
      BY <1>4, <1>7
    <2> QED
      BY <1>8, <2>1, SumAdd
  <1>11. R \cup {code} = D \cup {code}
    BY <1>7
  <1>12. CASE code \in D
    <2>1. SumFunctionOnSet(terminal, R \cup {code}) = terminal[code] + SumFunctionOnSet(terminal, R)
      <3>1. \A c \in R \cup {code} : terminal[c] \in Nat
        BY <1>2, <1>7, <1>12
      <3> QED
        BY <1>8, <3>1, SumAdd
    <2>2. R \cup {code} = D /\ terminal[code] \in Nat /\ more[code] = terminal[code] + 1
      BY <1>2, <1>3, <1>7, <1>12
    <2>3. Total(terminal) = terminal[code] + SumFunctionOnSet(terminal, R)
      BY <1>1, <2>1, <2>2 DEF Total
    <2>4. Total(more) = (terminal[code] + 1) + SumFunctionOnSet(terminal, R)
      BY <1>3, <1>9, <1>10, <1>11, <2>2 DEF Total
    <2>5. PICK a \in Nat : a = SumFunctionOnSet(terminal, R)
      BY <1>9
    <2>6. PICK b \in Nat : b = terminal[code]
      BY <2>2
    <2> QED
      BY <1>1, <1>6, <2>3, <2>4, <2>5, <2>6
  <1>13. CASE code \notin D
    <2>1. R = D /\ more[code] = 1
      BY <1>3, <1>7, <1>13
    <2>2. Total(terminal) = SumFunctionOnSet(terminal, R)
      BY <1>1, <2>1 DEF Total
    <2>3. Total(more) = 1 + SumFunctionOnSet(terminal, R)
      BY <1>3, <1>9, <1>10, <1>11, <2>1 DEF Total
    <2>4. PICK a \in Nat : a = SumFunctionOnSet(terminal, R)
      BY <1>9
    <2> QED
      BY <1>1, <1>6, <2>2, <2>3, <2>4
  <1> QED
    BY <1>12, <1>13

LEMMA TalliedNext ==
  ASSUME NEW depth \in Nat, NEW terminal, NEW I, NEW at, Tallied(terminal, I, at, depth),
         NEW j, j \notin I, IsCell(at[j]), at[j][1] = depth
  PROVE  Tallied(AddOne(terminal, Code(at[j])), I \cup {j}, at, depth)
  <1>1. PICK D, code, more : /\ D = DOMAIN terminal /\ code = Code(at[j])
                             /\ more = AddOne(terminal, code)
    OBVIOUS
  <1>2. /\ IsFiniteSet(I)
        /\ \A i \in I : IsCell(at[i]) /\ at[i][1] = depth /\ Code(at[i]) \in D
        /\ \A c \in D : \E i \in I : Code(at[i]) = c
    BY <1>1 DEF Tallied
  <1> DEFINE coded(c) == {i \in I : Code(at[i]) = c}
             now(c) == {i \in I \cup {j} : Code(at[i]) = c}
  <1>3. \A c \in D : terminal[c] = Cardinality(coded(c))
    BY <1>1 DEF Tallied
  <1>4. \A c : /\ coded(c) \subseteq I
               /\ c # code => now(c) = coded(c)
               /\ c = code => now(c) = coded(c) \cup {j}
               /\ c \notin D => coded(c) = {}
    BY <1>1, <1>2
  <1> HIDE DEF coded, now
  <1>5. \A c : IsFiniteSet(coded(c)) /\ j \notin coded(c)
    BY <1>2, <1>4, FS_Subset
  <1>6. \A c : Cardinality(coded(c)) \in Nat
               /\ Cardinality(coded(c) \cup {j}) = Cardinality(coded(c)) + 1
    BY <1>5, FS_AddElement, FS_CardinalityType
  <1>7. \A c : c \notin D => Cardinality(coded(c)) = 0
    BY <1>4, FS_EmptySet
  <1>8. more = [c \in D \cup {code} |->
                   (IF c \in D THEN terminal[c] ELSE 0) + (IF c = code THEN 1 ELSE 0)]
    BY <1>1 DEF AddOne
  <1>9. ASSUME NEW c \in D \cup {code} PROVE more[c] = Cardinality(now(c))
    <2>1. (IF c \in D THEN terminal[c] ELSE 0) = Cardinality(coded(c))
      BY <1>3, <1>7
    <2>2. CASE c = code
      <3>1. now(c) = coded(c) \cup {j}
        BY <1>4, <2>2
      <3>2. more[c] = Cardinality(coded(c)) + 1
        BY <1>8, <2>1, <2>2
      <3> QED
        BY <1>6, <3>1, <3>2
    <2>3. CASE c # code
      <3>1. now(c) = coded(c)
        BY <1>4, <2>3
      <3>2. more[c] = Cardinality(coded(c)) + 0
        BY <1>8, <2>1, <2>3
      <3> QED
        BY <1>6, <3>1, <3>2
    <2> QED
      BY <2>2, <2>3
  <1>10. DOMAIN more = D \cup {code} /\ IsFiniteSet(I \cup {j})
    BY <1>2, <1>8, FS_AddElement
  <1>11. \A c \in D \cup {code} : \E i \in I \cup {j} : Code(at[i]) = c
    BY <1>1, <1>2
  <1>12. \A i \in I \cup {j} : IsCell(at[i]) /\ at[i][1] = depth /\ Code(at[i]) \in D \cup {code}
    BY <1>1, <1>2
  <1> QED
    BY <1>1, <1>9, <1>10, <1>11, <1>12 DEF Tallied, now


-----------------------------------------------------------------------------
(* The points of a source, each in its cell at full depth.                 *)

CellsOf(root, positions, depth) ==
    [i \in DOMAIN positions |-> Descent(root, positions[i], depth)[depth].id]

LEMMA CellsOfAre ==
  ASSUME NEW root \in Boxes, NEW positions, NEW depth \in Nat, NEW i \in DOMAIN positions
  PROVE  /\ IsCell(CellsOf(root, positions, depth)[i])
         /\ CellsOf(root, positions, depth)[i][1] = depth
         /\ CellsOf(root, positions, depth)[i] = Descent(root, positions[i], depth)[depth].id
  <1>1. depth \in 0..depth
    OBVIOUS
  <1>2. CellsOf(root, positions, depth)[i] = Descent(root, positions[i], depth)[depth].id
    BY DEF CellsOf
  <1> QED
    BY <1>1, <1>2, DescentCells

(* The planner that holds the points counts in a cell what passes it on    *)
(* the way down.                                                           *)
LEMMA Passing ==
  ASSUME NEW root \in Boxes, NEW positions, NEW depth \in Nat, NEW id \in CellsTo(depth),
         NEW i \in DOMAIN positions
  PROVE  Descent(root, positions[i], depth)[Level(id)].id = id <=>
            id \in PathTo(CellsOf(root, positions, depth)[i])
  <1>1. PICK cell : cell = Descent(root, positions[i], depth)
    OBVIOUS
  <1>2. IsCell(id) /\ id[1] \in 0..depth
    BY CellsAre, CellParts
  <1>3. PICK end : end = CellsOf(root, positions, depth)[i]
    OBVIOUS
  <1>4. IsCell(end) /\ end[1] = depth /\ end = cell[depth].id
    BY <1>1, <1>3, CellsOfAre
  <1>5. cell[id[1]].id \in PathTo(end) /\ cell[id[1]].id[1] = id[1]
    <2>1. depth \in 0..depth
      OBVIOUS
    <2> QED
      BY <1>1, <1>2, <1>4, <2>1, DescentPath, DescentCells
  <1>6. id \in PathTo(end) => cell[id[1]].id = id
    BY <1>4, <1>5, PathUnique
  <1> QED
    BY <1>1, <1>3, <1>5, <1>6 DEF Level

LEMMA PlannersAgreeOn ==
  ASSUME NEW config, config.depth \in Nat, NEW positions, positions # <<>>,
         NEW root \in Boxes, root = Hull({Around(positions[i]) : i \in DOMAIN positions}),
         NEW terminal,
         Tallied(terminal, DOMAIN positions, CellsOf(root, positions, config.depth), config.depth)
  PROVE  PlanFromCounts(terminal, root, config) = PlanInMemory(positions, config)
  <1>1. PICK depth, I, at : /\ depth = config.depth /\ I = DOMAIN positions
                            /\ at = CellsOf(root, positions, depth)
    OBVIOUS
  <1>2. PICK ones : ones = [i \in I |-> 1]
    OBVIOUS
  <1>3. Weighs(PlanCounts(terminal, depth), I, ones, at, depth) /\ IsFiniteSet(I)
    <2>1. Tallied(terminal, I, at, depth)
      BY <1>1
    <2> QED
      <3>1. Weighs(PlanCounts(terminal, depth), I, ones, at, depth)
        BY <1>1, <1>2, <2>1, TalliedWeighs
      <3>2. IsFiniteSet(I)
        BY <2>1 DEF Tallied
      <3> QED
        BY <3>1, <3>2
  <1>4. ASSUME NEW id \in CellsTo(depth)
        PROVE  CountFor(terminal, depth, id) =
                  Cardinality({i \in I : Descent(root, positions[i], depth)[Level(id)].id = id})
    <2>1. PICK S \in SUBSET I : S = Under(I, at, id)
      BY DEF Under
    <2>2. {i \in I : Descent(root, positions[i], depth)[Level(id)].id = id} = S
      <3>1. \A i \in I : Descent(root, positions[i], depth)[Level(id)].id = id <=>
                            id \in PathTo(at[i])
        BY <1>1, Passing
      <3> QED
        BY <2>1, <3>1, Zenon DEF Under
    <2>3. IsFiniteSet(S) /\ \A i \in S : ones[i] = 1
      BY <1>2, <1>3, FS_Subset
    <2>4. SumFunctionOnSet(ones, S) = Cardinality(S)
      BY <2>3, SumOfOnes
    <2>5. PlanCounts(terminal, depth)[id] = CountFor(terminal, depth, id)
      BY DEF PlanCounts
    <2>6. PlanCounts(terminal, depth)[id] = SumFunctionOnSet(ones, Under(I, at, id))
      BY <1>1, <1>3, CountsAre
    <2> QED
      BY <2>1, <2>2, <2>4, <2>5, <2>6
  <1>5. PICK counts, held :
           /\ counts = [id \in CellsTo(depth) |-> CountFor(terminal, depth, id)]
           /\ held = [id \in CellsTo(depth) |->
                 Cardinality({i \in I : Descent(root, positions[i], depth)[Level(id)].id = id})]
    OBVIOUS
  <1>6. counts = held
    BY <1>4, <1>5, Zenon
  <1>7. PlanFromCounts(terminal, root, config) = Visit(counts, root, config)
    BY <1>1, <1>5 DEF PlanFromCounts
  <1>8. PlanInMemory(positions, config) = Visit(held, root, config)
    BY <1>1, <1>5, Zenon DEF PlanInMemory
  <1> QED
    BY <1>6, <1>7, <1>8

(* The tiles that hold points reach as far as the points do: the router's  *)
(* tree is the planner's.                                                  *)
LEMMA HullOfTiles ==
  ASSUME NEW root, NEW I, NEW positions, Spans(root, I, positions), I = DOMAIN positions,
         NEW config, config.depth \in Nat, NEW counts, NEW w,
         Weighs(counts, I, w, CellsOf(root, positions, config.depth), config.depth),
         NEW tiles, tiles = Visit(counts, root, config).tiles
  PROVE  Hull(BoxesOf(tiles)) = root
  <1>1. root \in Boxes /\ Upright(root)
    BY SpansUpright
  <1>2. PICK depth, at : depth = config.depth /\ at = CellsOf(root, positions, depth)
    OBVIOUS
  <1>3. /\ IsCut(tiles)
        /\ \A t \in tiles : t.box = BoxOf(root, t.id)
        /\ \A i \in I : \E t \in tiles : t.id \in PathTo(at[i])
    <2>1. Weighs(counts, I, w, at, config.depth)
      BY <1>2
    <2>2. Visited(Visit(counts, root, config), root, config, I, w, at)
      BY <1>1, <2>1, VisitCuts
    <2> QED
      BY <2>2 DEF Visited
  <1>4. PICK S : S = BoxesOf(tiles)
    OBVIOUS
  <1>5. \A t \in tiles : t.box \in S
    BY <1>4 DEF BoxesOf
  <1>6. /\ S \in SUBSET Boxes
        /\ \A b \in S : /\ root.minX <= b.minX /\ b.maxX <= root.maxX
                        /\ root.minY <= b.minY /\ b.maxY <= root.maxY
    <2> SUFFICES ASSUME NEW b \in S
                 PROVE  /\ b \in Boxes
                        /\ root.minX <= b.minX /\ b.maxX <= root.maxX
                        /\ root.minY <= b.minY /\ b.maxY <= root.maxY
      OBVIOUS
    <2>1. PICK t \in tiles : b = t.box
      BY <1>4 DEF BoxesOf
    <2>2. IsCell(t.id) /\ b = BoxOf(root, t.id)
      BY <1>3, <2>1 DEF IsCut
    <2> QED
      BY <1>1, <2>2, BoxOfWithin
  <1>7. IsFiniteSet(S)
    <2>1. IsFiniteSet(tiles)
      BY <1>3 DEF IsCut
    <2>2. [t \in tiles |-> t.box] \in Surjection(tiles, S)
      BY <1>4, <1>5 DEF Surjection, BoxesOf
    <2> QED
      BY <2>1, <2>2, FS_Surjection
  <1>8. ASSUME NEW i \in I
        PROVE  \E b \in S : /\ positions[i].x = root.minX => positions[i].x = b.minX
                            /\ positions[i].x = root.maxX => positions[i].x = b.maxX
                            /\ positions[i].y = root.minY => positions[i].y = b.minY
                            /\ positions[i].y = root.maxY => positions[i].y = b.maxY
    <2>1. PICK t \in tiles : t.id \in PathTo(at[i])
      BY <1>3
    <2>2. PICK p : p = positions[i]
      OBVIOUS
    <2>3. PICK cell : cell = Descent(root, p, depth)
      OBVIOUS
    <2>4. IsCell(at[i]) /\ at[i][1] = depth /\ at[i] = cell[depth].id
      BY <1>1, <1>2, <2>2, <2>3, CellsOfAre
    <2>5. t.id[1] \in 0..depth
      BY <2>1, <2>4, PathMember
    <2>6. PICK l \in 0..depth : l = t.id[1]
      BY <2>5
    <2>7. cell[l].id \in PathTo(at[i]) /\ cell[l].id[1] = l /\ cell[l].box = BoxOf(root, cell[l].id)
      <3>1. depth \in 0..depth /\ depth \in Nat
        BY <1>2
      <3> QED
        BY <1>1, <2>3, <2>4, <3>1, DescentPath, DescentCells
    <2>8. cell[l].id = t.id
      BY <2>1, <2>4, <2>6, <2>7, PathUnique
    <2>9. cell[l].box \in S
      BY <1>3, <1>5, <2>7, <2>8
    <2>10. IsPoint(p) /\ InBox(p, root)
      BY <2>2 DEF Spans
    <2>11. /\ p.x = root.minX => p.x = cell[l].box.minX
           /\ p.x = root.maxX => p.x = cell[l].box.maxX
           /\ p.y = root.minY => p.y = cell[l].box.minY
           /\ p.y = root.maxY => p.y = cell[l].box.maxY
      BY <1>1, <1>2, <2>3, <2>10, DescentHolds
    <2> QED
      BY <2>2, <2>9, <2>11
  <1>9. /\ \E b \in S : root.minX = b.minX
        /\ \E b \in S : root.maxX = b.maxX
        /\ \E b \in S : root.minY = b.minY
        /\ \E b \in S : root.maxY = b.maxY
    <2>1. /\ \E i \in I : positions[i].x = root.minX
          /\ \E i \in I : positions[i].x = root.maxX
          /\ \E i \in I : positions[i].y = root.minY
          /\ \E i \in I : positions[i].y = root.maxY
      BY DEF Spans
    <2>2. \E b \in S : root.minX = b.minX
      BY <1>8, <2>1
    <2>3. \E b \in S : root.maxX = b.maxX
      BY <1>8, <2>1
    <2>4. \E b \in S : root.minY = b.minY
      BY <1>8, <2>1
    <2>5. \E b \in S : root.maxY = b.maxY
      BY <1>8, <2>1
    <2> QED
      BY <2>2, <2>3, <2>4, <2>5
  <1>10. S # {}
    BY <1>9
  <1>11. Hull(S) = root
    BY <1>1, <1>6, <1>7, <1>9, <1>10, HullUnique
  <1> QED
    BY <1>4, <1>11


(* The router answers one of the tiles, or none.                           *)
LEMMA RouterAnswersTile ==
  ASSUME NEW tiles, NEW p, NEW depth \in Nat, GetTileId(tiles, p, depth) # NoTile
  PROVE  \E t \in tiles : t.id = GetTileId(tiles, p, depth)
  <1>1. PICK root : root = Hull(BoxesOf(tiles))
    OBVIOUS
  <1>2. PICK cell : cell = Descent(root, p, depth)
    OBVIOUS
  <1>3. PICK S : S = Hits(tiles, cell, depth)
    OBVIOUS
  <1>4. S # {} /\ GetTileId(tiles, p, depth) = cell[Min(S)].id
    BY <1>1, <1>2, <1>3, GetTileIs
  <1>5. Min(S) \in S
    BY <1>3, <1>4, HitsAre
  <1> QED
    BY <1>3, <1>4, <1>5 DEF Hits

=============================================================================
