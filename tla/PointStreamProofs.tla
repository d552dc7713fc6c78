-------------------------- MODULE PointStreamProofs --------------------------
(***************************************************************************)
(* Proofs about PointStreams, for sources of every length and every        *)
(* request: the type invariant, that a LAZ read that reports its end has   *)
(* validated the whole source, and that every reader keeps the contract    *)
(* of PointDelivery.                                                       *)
(*                                                                         *)
(* What a read delivers is built by recursion over the numbers of the      *)
(* points, so the first part proves what Among selects.  An induction over *)
(* numbers is made with LeastNumber: of the numbers a claim is wrong for,  *)
(* there would be a least one.                                             *)
(***************************************************************************)
EXTENDS PointStreams, FiniteSetTheorems, WellFoundedInduction, SequenceTheorems, TLAPS

(* A nonempty set of numbers has a least one: the intervals below its      *)
(* members are well-founded under strict inclusion.                        *)
LEMMA LeastNumber ==
  ASSUME NEW T, T \subseteq Nat, T # {}
  PROVE  \E n \in T : \A m \in T : n <= m
  <1> DEFINE S == {1..n : n \in T}
             R == StrictSubsetOrdering(Nat)
  <1>1. IsWellFoundedOn(R, FiniteSubsetsOf(Nat))
    BY FS_StrictSubsetOrderingWellFounded
  <1>2. S \subseteq FiniteSubsetsOf(Nat) /\ S # {}
    <2>1. ASSUME NEW n \in T PROVE IsFiniteSet(1..n) /\ 1..n \in SUBSET Nat
      BY FS_Interval
    <2> QED
      BY <2>1 DEF FiniteSubsetsOf
  <1> HIDE DEF S
  <1>3. \E x \in S : \A y \in S : ~ (<<y, x>> \in R)
    BY <1>1, <1>2, WFMin
  <1>4. PICK n \in T : \A m \in T : ~ (<<1..m, 1..n>> \in R)
    BY <1>3 DEF S
  <1>5. ASSUME NEW m \in T, m < n PROVE FALSE
    <2>1. 1..m \subseteq 1..n /\ 1..m # 1..n /\ 1..m \in SUBSET Nat /\ 1..n \in SUBSET Nat
      <3>1. m \in Nat /\ n \in Nat
        OBVIOUS
      <3>2. n \in 1..n /\ n \notin 1..m
        BY <1>5, <3>1
      <3> QED
        BY <1>5, <3>1, <3>2
    <2> QED
      BY <1>4, <2>1 DEF StrictSubsetOrdering
  <1> QED
    BY <1>5

(* f selects, for every n of D, the members of S among from+1 .. n.        *)
Selects(f, D, S, from) ==
    f = [n \in D |-> IF n <= from THEN <<>>
                     ELSE IF n \in S THEN Append(f[n - 1], n) ELSE f[n - 1]]

(* Up to every number there is such a function.                            *)
LEMMA SelectsPart ==
  ASSUME NEW S, NEW from \in Nat, NEW n \in Nat
  PROVE  \E f : Selects(f, 0..n, S, from)
  <1> DEFINE Bad == {m \in Nat : ~ \E f : Selects(f, 0..m, S, from)}
  <1>1. ASSUME NEW m \in Bad, \A k \in Bad : m <= k PROVE FALSE
    <2>1. CASE m = 0
      <3> DEFINE f == [i \in 0..0 |-> <<>>]
      <3>1. Selects(f, 0..0, S, from)
        BY DEF Selects
      <3> QED
        BY <2>1, <3>1
    <2>2. CASE m # 0
      <3>1. m - 1 \in Nat /\ m - 1 \notin Bad
        BY <1>1, <2>2
      <3>2. PICK g : Selects(g, 0..m-1, S, from)
        BY <3>1
      <3> DEFINE f == [i \in 0..m |-> IF i < m THEN g[i]
                                      ELSE IF m <= from THEN <<>>
                                      ELSE IF m \in S THEN Append(g[m - 1], m) ELSE g[m - 1]]
      <3>3. \A i \in 0..m : f[i] = IF i <= from THEN <<>>
                                   ELSE IF i \in S THEN Append(f[i - 1], i) ELSE f[i - 1]
        <4> SUFFICES ASSUME NEW i \in 0..m
                     PROVE  f[i] = IF i <= from THEN <<>>
                                   ELSE IF i \in S THEN Append(f[i - 1], i) ELSE f[i - 1]
          OBVIOUS
        <4>1. i > from => i - 1 \in 0..m-1 /\ f[i - 1] = g[i - 1]
          OBVIOUS
        <4>2. CASE i < m
          <5>1. i \in 0..m-1 /\ f[i] = g[i]
            BY <4>2
          <5>2. g[i] = IF i <= from THEN <<>>
                       ELSE IF i \in S THEN Append(g[i - 1], i) ELSE g[i - 1]
            BY <3>2, <5>1 DEF Selects
          <5> HIDE DEF f
          <5> QED
            BY <4>1, <5>1, <5>2
        <4>3. CASE i = m
          BY <4>1, <4>3
        <4> QED
          BY <4>2, <4>3
      <3>4. f = [i \in 0..m |-> f[i]]
        OBVIOUS
      <3> HIDE DEF f
      <3>5. Selects(f, 0..m, S, from)
        BY <3>3, <3>4 DEF Selects
      <3> QED
        BY <3>5
    <2> QED
      BY <2>1, <2>2
  <1>2. Bad = {}
    BY <1>1, LeastNumber
  <1> QED
    BY <1>2

(* What it says of one number.                                             *)
LEMMA SelectsAt ==
  ASSUME NEW f, NEW D, NEW S, NEW from, Selects(f, D, S, from), NEW n \in D
  PROVE  f[n] = IF n <= from THEN <<>>
                ELSE IF n \in S THEN Append(f[n - 1], n) ELSE f[n - 1]
  <1> DEFINE Value(g, i) == IF i <= from THEN <<>> ELSE IF i \in S THEN Append(g[i - 1], i) ELSE g[i - 1]
  <1>1. f = [i \in D |-> Value(f, i)]
    BY Zenon DEF Selects
  <1> HIDE DEF Value
  <1>2. f[n] = Value(f, n)
    BY <1>1
  <1> QED
    BY <1>2 DEF Value

(* Two of them agree as far as both go.                                    *)
LEMMA SelectsAgree ==
  ASSUME NEW S, NEW from \in Nat, NEW m \in Nat, NEW n \in Nat, m <= n, NEW f, NEW g,
         Selects(f, 0..m, S, from), Selects(g, 0..n, S, from)
  PROVE  \A i \in 0..m : f[i] = g[i]
  <1> DEFINE Bad == {i \in 0..m : f[i] # g[i]}
  <1>1. ASSUME NEW i \in Bad, \A k \in Bad : i <= k PROVE FALSE
    <2>1. i \in 0..m /\ i \in 0..n /\ f[i] # g[i]
      OBVIOUS
    <2>3. f[i] = IF i <= from THEN <<>> ELSE IF i \in S THEN Append(f[i - 1], i) ELSE f[i - 1]
      BY <2>1, SelectsAt
    <2>4. g[i] = IF i <= from THEN <<>> ELSE IF i \in S THEN Append(g[i - 1], i) ELSE g[i - 1]
      BY <2>1, SelectsAt
    <2>2. i > from => i - 1 \in 0..m /\ i - 1 \notin Bad
      BY <1>1
    <2> QED
      BY <2>1, <2>2, <2>3, <2>4
  <1>2. Bad = {}
    <2>1. Bad \subseteq Nat
      OBVIOUS
    <2> HIDE DEF Bad
    <2> QED
      BY <1>1, <2>1, LeastNumber
  <1> QED
    BY <1>2

(* So there is one on all numbers, and Among can name it.                  *)
LEMMA SelectsAll ==
  ASSUME NEW S, NEW from \in Nat
  PROVE  \E f : Selects(f, Nat, S, from)
  <1>1. PICK part : \A n \in Nat : Selects(part[n], 0..n, S, from)
    <2> DEFINE part == [n \in Nat |-> CHOOSE f : Selects(f, 0..n, S, from)]
    <2>1. \A n \in Nat : Selects(part[n], 0..n, S, from)
      BY SelectsPart
    <2> QED
      BY <2>1
  <1> DEFINE f == [n \in Nat |-> part[n][n]]
             Value(g, n) == IF n <= from THEN <<>> ELSE IF n \in S THEN Append(g[n - 1], n) ELSE g[n - 1]
  <1>2. ASSUME NEW n \in Nat PROVE f[n] = Value(f, n)
    <2>1. Selects(part[n], 0..n, S, from) /\ n \in 0..n
      BY <1>1
    <2>2. part[n][n] = Value(part[n], n)
      BY <2>1, SelectsAt
    <2>5. f[n] = part[n][n]
      OBVIOUS
    <2>3. CASE n <= from
      BY <2>2, <2>3, <2>5
    <2>4. CASE n > from
      <3>1. n - 1 \in Nat /\ n - 1 <= n /\ n - 1 \in 0..n-1
        BY <2>4
      <3>2. Selects(part[n - 1], 0..n-1, S, from)
        BY <1>1, <3>1
      <3>3. part[n][n - 1] = part[n - 1][n - 1]
        <4>1. PICK k \in Nat : k = n - 1
          BY <3>1
        <4>2. \A i \in 0..k : part[k][i] = part[n][i]
          <5>1. PICK p, q : p = part[k] /\ q = part[n]
            OBVIOUS
          <5>2. Selects(p, 0..k, S, from) /\ Selects(q, 0..n, S, from) /\ k <= n
            BY <2>1, <3>1, <3>2, <4>1, <5>1
          <5>3. \A i \in 0..k : p[i] = q[i]
            BY <5>2, SelectsAgree
          <5> QED
            BY <5>1, <5>3
        <4> QED
          BY <3>1, <4>1, <4>2
      <3>4. f[n - 1] = part[n][n - 1]
        BY <3>1, <3>3
      <3> HIDE DEF f
      <3> QED
        BY <2>2, <2>5, <3>4
    <2> QED
      BY <2>3, <2>4
  <1>3. f = [n \in Nat |-> f[n]]
    OBVIOUS
  <1> HIDE DEF f
  <1>4. Selects(f, Nat, S, from)
    BY <1>2, <1>3 DEF Selects
  <1> QED
    BY <1>4

(* Among, as its definition means it.                                      *)
LEMMA AmongIs ==
  ASSUME NEW S, NEW from \in Nat, NEW n \in Nat
  PROVE  /\ n <= from => Among(S, from, n) = <<>>
         /\ n > from /\ n \in S => Among(S, from, n) = Append(Among(S, from, n - 1), n)
         /\ n > from /\ n \notin S => Among(S, from, n) = Among(S, from, n - 1)
  <1> DEFINE f == CHOOSE g : g = [m \in Nat |-> IF m <= from THEN <<>>
                                               ELSE IF m \in S THEN Append(g[m - 1], m) ELSE g[m - 1]]
  <1>1. \A k : Among(S, from, k) = f[k]
    BY Zenon DEF Among
  <1>2. Selects(f, Nat, S, from)
    <2>1. PICK g : Selects(g, Nat, S, from)
      BY SelectsAll, Zenon
    <2> QED
      BY <2>1, Zenon DEF Selects
  <1> HIDE DEF f
  <1>3. f[n] = IF n <= from THEN <<>>
               ELSE IF n \in S THEN Append(f[n - 1], n) ELSE f[n - 1]
    BY <1>2, SelectsAt
  <1>4. Among(S, from, n) = f[n] /\ Among(S, from, n - 1) = f[n - 1]
    BY <1>1
  <1> QED
    BY <1>3, <1>4

(* One number more.                                                        *)
LEMMA AmongMore ==
  ASSUME NEW S, NEW from \in Nat, NEW to \in Nat, from <= to
  PROVE  /\ to + 1 \in S => Among(S, from, to + 1) = Append(Among(S, from, to), to + 1)
         /\ to + 1 \notin S => Among(S, from, to + 1) = Among(S, from, to)
  <1>1. PICK n \in Nat : n = to + 1 /\ n > from /\ n - 1 = to
    OBVIOUS
  <1>2. /\ n \in S => Among(S, from, n) = Append(Among(S, from, n - 1), n)
        /\ n \notin S => Among(S, from, n) = Among(S, from, n - 1)
    BY <1>1, AmongIs
  <1> QED
    BY <1>1, <1>2

(* An empty range selects nothing.                                         *)
LEMMA AmongNone ==
  ASSUME NEW S, NEW from \in Nat, NEW to \in Nat, to <= from
  PROVE  Among(S, from, to) = <<>>
  BY AmongIs

(* What a range selects are numbers of it, all of them when all qualify.   *)
LEMMA AmongType ==
  ASSUME NEW S, NEW from \in Nat, NEW to \in Nat, from <= to
  PROVE  /\ Among(S, from, to) \in Seq((from + 1)..to)
         /\ Len(Among(S, from, to)) <= to - from
         /\ (from + 1)..to \subseteq S => Len(Among(S, from, to)) = to - from
  <1> DEFINE Good(n) == /\ Among(S, from, n) \in Seq((from + 1)..n)
                        /\ Len(Among(S, from, n)) <= n - from
                        /\ (from + 1)..n \subseteq S => Len(Among(S, from, n)) = n - from
             Bad == {n \in Nat : from <= n /\ ~ Good(n)}
  <1>1. ASSUME NEW n \in Bad, \A k \in Bad : n <= k PROVE FALSE
    <2>1. CASE n = from
      <3>1. Among(S, from, n) = <<>>
        BY <2>1, AmongNone
      <3> QED
        BY <2>1, <3>1
    <2>2. CASE n # from
      <3>1. PICK m \in Nat : n = m + 1 /\ from <= m
        <4>1. n - 1 \in Nat /\ n = (n - 1) + 1 /\ from <= n - 1
          BY <2>2
        <4> QED
          BY <4>1
      <3>2. Good(m)
        <4>1. m \notin Bad
          BY <1>1, <3>1
        <4> QED
          BY <3>1, <4>1
      <3>3. PICK s : s = Among(S, from, m)
        OBVIOUS
      <3>4. /\ s \in Seq((from + 1)..m) /\ Len(s) <= m - from
            /\ (from + 1)..m \subseteq S => Len(s) = m - from
        BY <3>2, <3>3
      <3>5. Among(S, from, n) = IF n \in S THEN Append(s, n) ELSE s
        <4>1. /\ m + 1 \in S => Among(S, from, m + 1) = Append(Among(S, from, m), m + 1)
              /\ m + 1 \notin S => Among(S, from, m + 1) = Among(S, from, m)
          BY ONLY <3>1, from \in Nat, m \in Nat, AmongMore
        <4> QED
          BY ONLY <3>1, <3>3, <4>1
      <3> HIDE DEF Bad
      <3>6. s \in Seq((from + 1)..n) /\ Len(s) \in Nat
        <4>1. (from + 1)..m \subseteq (from + 1)..n
          BY <3>1
        <4> QED
          BY ONLY <3>4, <4>1, SeqMonotonic, LenProperties
      <3>7. n \in (from + 1)..n
        BY <3>1
      <3>8. Append(s, n) \in Seq((from + 1)..n) /\ Len(Append(s, n)) = Len(s) + 1
        BY ONLY <3>6, <3>7, AppendProperties
      <3>9. (from + 1)..n \subseteq S => n \in S /\ (from + 1)..m \subseteq S
        <4>1. (from + 1)..m \subseteq (from + 1)..n
          BY <3>1
        <4> QED
          BY ONLY <3>7, <4>1
      <3>10. Good(n)
        <4>1. PICK u : u = Among(S, from, n)
          OBVIOUS
        <4>2. CASE n \in S
          <5>1. u = Append(s, n)
            BY <3>5, <4>1, <4>2
          <5>2. Len(u) <= n - from
            BY <3>1, <3>4, <3>6, <3>8, <5>1
          <5>3. (from + 1)..n \subseteq S => Len(u) = n - from
            <6>1. Len(u) = Len(s) + 1
              BY ONLY <3>8, <5>1, Zenon
            <6> SUFFICES ASSUME (from + 1)..n \subseteq S PROVE Len(u) = n - from
              OBVIOUS
            <6>2. Len(s) = m - from
              BY ONLY <3>4, <3>9, (from + 1)..n \subseteq S, Zenon
            <6> QED
              BY <3>1, <6>1, <6>2
          <5> QED
            <6>1. u \in Seq((from + 1)..n)
              BY ONLY <3>8, <5>1, Zenon
            <6> QED
              BY <4>1, <5>2, <5>3, <6>1
        <4>3. CASE n \notin S
          <5>1. u = s
            BY <3>5, <4>1, <4>3
          <5>2. Len(u) <= n - from
            BY <3>1, <3>4, <3>6, <5>1
          <5> QED
            BY <3>6, <3>9, <4>1, <4>3, <5>1, <5>2
        <4> QED
          BY <4>2, <4>3
      <3> QED
        BY <3>10 DEF Bad
    <2> QED
      BY <2>1, <2>2
  <1>2. Bad = {}
    <2>1. Bad \subseteq Nat
      OBVIOUS
    <2> HIDE DEF Bad
    <2> QED
      BY <1>1, <2>1, LeastNumber
  <1> QED
    BY <1>2

(* Two adjacent ranges select what their union does.                       *)
LEMMA AmongJoined ==
  ASSUME NEW S, NEW a \in Nat, NEW b \in Nat, NEW c \in Nat, a <= b, b <= c
  PROVE  Among(S, a, b) \o Among(S, b, c) = Among(S, a, c)
  <1> DEFINE Good(n) == Among(S, a, b) \o Among(S, b, n) = Among(S, a, n)
             Bad == {n \in Nat : b <= n /\ ~ Good(n)}
  <1>0. PICK s : s = Among(S, a, b)
    OBVIOUS
  <1>3. s \in Seq(Nat)
    <2>1. s \in Seq((a + 1)..b) /\ (a + 1)..b \subseteq Nat
      BY <1>0, AmongType
    <2> QED
      BY ONLY <2>1, SeqMonotonic
  <1>1. ASSUME NEW n \in Bad, \A k \in Bad : n <= k PROVE FALSE
    <2>1. CASE n = b
      <3>1. Among(S, b, n) = <<>>
        BY <2>1, AmongNone
      <3>2. s \o <<>> = s
        BY ONLY <1>3, ConcatEmptySeq
      <3> QED
        BY <1>0, <2>1, <3>1, <3>2
    <2>2. CASE n # b
      <3>1. PICK m \in Nat : n = m + 1 /\ b <= m
        <4>1. n - 1 \in Nat /\ n = (n - 1) + 1 /\ b <= n - 1
          BY <2>2
        <4> QED
          BY <4>1
      <3>2. Good(m)
        <4>1. m \notin Bad
          BY <1>1, <3>1
        <4> QED
          BY <3>1, <4>1
      <3> HIDE DEF Bad
      <3>3. PICK t : t = Among(S, b, m)
        OBVIOUS
      <3>4. t \in Seq(Nat)
        <4>1. t \in Seq((b + 1)..m) /\ (b + 1)..m \subseteq Nat
          BY <3>1, <3>3, AmongType
        <4> QED
          BY ONLY <4>1, SeqMonotonic
      <3>5. Among(S, b, n) = IF n \in S THEN Append(t, n) ELSE t
        <4>1. /\ m + 1 \in S => Among(S, b, m + 1) = Append(Among(S, b, m), m + 1)
              /\ m + 1 \notin S => Among(S, b, m + 1) = Among(S, b, m)
          BY ONLY <3>1, b \in Nat, m \in Nat, AmongMore
        <4> QED
          BY ONLY <3>1, <3>3, <4>1
      <3>6. Among(S, a, n) = IF n \in S THEN Append(s \o t, n) ELSE s \o t
        <4>1. a <= m /\ Among(S, a, m) = s \o t
          BY <3>1, <3>2, <3>3, <1>0
        <4>2. /\ m + 1 \in S => Among(S, a, m + 1) = Append(Among(S, a, m), m + 1)
              /\ m + 1 \notin S => Among(S, a, m + 1) = Among(S, a, m)
          BY ONLY <4>1, a \in Nat, m \in Nat, AmongMore
        <4> QED
          BY ONLY <3>1, <4>1, <4>2
      <3>7. s \o Append(t, n) = Append(s \o t, n)
        <4>0. n \in Nat
          BY <3>1
        <4>1. <<n>> \in Seq(Nat) /\ s \o t \in Seq(Nat)
          BY ONLY <1>3, <3>4, <4>0, ConcatProperties
        <4>2. s \o Append(t, n) = s \o (t \o <<n>>)
          BY ONLY <3>4, <4>0, AppendIsConcat
        <4>3. (s \o t) \o <<n>> = s \o (t \o <<n>>)
          BY ONLY <1>3, <3>4, <4>1, ConcatAssociative
        <4>4. Append(s \o t, n) = (s \o t) \o <<n>>
          BY ONLY <4>0, <4>1, AppendIsConcat
        <4> QED
          BY ONLY <4>2, <4>3, <4>4
      <3>8. Good(n)
        BY <1>0, <3>5, <3>6, <3>7
      <3> QED
        BY <3>8 DEF Bad
    <2> QED
      BY <2>1, <2>2
  <1>2. Bad = {}
    <2>1. Bad \subseteq Nat
      OBVIOUS
    <2> HIDE DEF Bad
    <2> QED
      BY <1>1, <2>1, LeastNumber
  <1> QED
    BY <1>2
-----------------------------------------------------------------------------
(* What the request and the source are; no step changes it.                *)
RequestOK ==
    /\ kind \in Kinds
    /\ count \in Nat
    /\ limit \in Nat \ {0}
    /\ matches \in SUBSET (1..count)
    /\ first \in Nat /\ last \in Nat
    /\ first <= last /\ last <= count
    /\ kind = "CopcPointStream" =>
          /\ first = 0 /\ last = count
          /\ entries \in [1..2 -> 0..count]
          /\ entries[1] + entries[2] = count
    /\ kind # "CopcPointStream" => entries = <<>>

(* COPC: the points of the entries that were opened.                       *)
Opened == IF entry = 0 THEN 0 ELSE IF entry = 1 THEN entries[1] ELSE count

(* The position stays where the reader may read.                           *)
ProgressOK ==
    /\ next \in Nat /\ next <= count
    /\ complete \in BOOLEAN
    /\ entry \in Nat /\ entry <= Len(entries)
    /\ left \in Nat
    /\ pending \in Seq(1..count) /\ Len(pending) <= limit
    /\ delivered \in Seq(1..count)
    /\ status \in {"reading", "end", "error"}
    /\ kind \in Ranged => first <= next /\ next <= last
    /\ kind = "CopcPointStream" => next + left = Opened
    /\ kind # "CopcPointStream" => left = 0 /\ pending = <<>>

(* How far into the range the points read so far reach.                    *)
Reach == IF kind \in Decoded THEN Least(Most(next, first), last) ELSE next

(* A pulled LAS stream without filters.                                    *)
Unfiltered == kind = "LasPointStream" => matches = 1..count

(* What was read was delivered, or is held back by a COPC stream.          *)
Accounted ==
    /\ kind # "CopcPointStream" /\ Unfiltered => delivered = Matching(first, Reach)
    /\ kind = "CopcPointStream" => delivered \o pending = Matching(0, next)

IInv == RequestOK /\ ProgressOK /\ EndIsValidated /\ Accounted

-----------------------------------------------------------------------------
(* What is selected are points of the source, at most as many as were      *)
(* looked at.                                                              *)
LEMMA MatchingType ==
  ASSUME RequestOK, NEW a \in Nat, NEW b \in Nat, b <= count
  PROVE  /\ Matching(a, b) \in Seq(1..count)
         /\ a <= b => Len(Matching(a, b)) <= b - a
         /\ b <= a => Matching(a, b) = <<>>
  <1>1. CASE a <= b
    <2>1. Among(matches, a, b) \in Seq((a + 1)..b) /\ Len(Among(matches, a, b)) <= b - a
      BY <1>1, AmongType
    <2>2. (a + 1)..b \subseteq 1..count
      BY DEF RequestOK
    <2>3. Among(matches, a, b) \in Seq(1..count)
      BY ONLY <2>1, <2>2, SeqMonotonic
    <2>4. b <= a => Among(matches, a, b) = <<>>
      BY AmongNone
    <2> QED
      BY <2>1, <2>3, <2>4 DEF Matching
  <1>2. CASE b < a
    <2>1. Among(matches, a, b) = <<>>
      BY <1>2, AmongNone
    <2> QED
      BY <1>2, <2>1 DEF Matching
  <1> QED
    BY <1>1, <1>2

(* Adjacent parts of a source.                                             *)
LEMMA MatchingJoined ==
  ASSUME NEW a \in Nat, NEW b \in Nat, NEW c \in Nat, a <= b, b <= c
  PROVE  Matching(a, b) \o Matching(b, c) = Matching(a, c)
  BY AmongJoined DEF Matching

(* A chunk that continues what was delivered towards what is wanted is a   *)
(* step of the contract, or none when the filters leave nothing of it.     *)
Keeps == Contract!Next \/ UNCHANGED <<wanted, limit, delivered, status>>

(* What is wanted of a read does not change during it.                     *)
LEMMA RequestStays ==
  ASSUME RequestOK, UNCHANGED request
  PROVE  /\ RequestOK' /\ wanted' = wanted /\ limit' = limit
         /\ Unfiltered' = Unfiltered
         /\ \A a, b : Matching(a, b)' = Matching(a, b)
  BY DEF RequestOK, request, wanted, Matching, Unfiltered

LEMMA ChunkKeeps ==
  ASSUME NEW P, delivered \in Seq(P), NEW chunk \in Seq(P), NEW rest \in Seq(P),
         wanted = (delivered \o chunk) \o rest,
         limit \in Nat, Len(chunk) <= limit,
         status = "reading", delivered' = delivered \o chunk,
         wanted' = wanted, limit' = limit, status' = status
  PROVE  Keeps
  <1>1. CASE chunk = <<>>
    <2>1. delivered' = delivered
      BY <1>1, ConcatEmptySeq
    <2> QED
      BY <2>1 DEF Keeps
  <1>2. CASE chunk # <<>>
    <2>1. Len(chunk) \in Nat /\ Len(chunk) # 0
      BY ONLY <1>2, chunk \in Seq(P), EmptySeq
    <2> DEFINE so == delivered \o chunk
    <2>2. so \in Seq(P) /\ Len(so) = Len(delivered) + Len(chunk) /\ Len(delivered) \in Nat
      BY ONLY delivered \in Seq(P), chunk \in Seq(P), ConcatProperties, LenProperties
    <2> HIDE DEF so
    <2>3. Len(so \o rest) = Len(so) + Len(rest) /\ Len(rest) \in Nat
      BY ONLY <2>2, rest \in Seq(P), ConcatProperties, LenProperties
    <2>4. SubSeq(so \o rest, 1, Len(so)) = so
      <3>1. SubSeq(so \o rest, 1, Len(so)) = SubSeq(so, 1, Len(so))
        <4>1. 1 \in 1..Len(so) /\ Len(so) \in 1..Len(so)
          BY ONLY <2>1, <2>2
        <4> QED
          BY ONLY <2>2, <4>1, rest \in Seq(P), SubSeqOfConcat1
      <3>2. SubSeq(so, 1, Len(so)) = so
        BY ONLY <2>2, SubSeqFull
      <3> QED
        BY <3>1, <3>2
    <2>5. wanted = so \o rest /\ delivered' = so
      BY DEF so
    <2>6. PICK n \in 1..limit : n = Len(chunk)
      BY <2>1
    <2>7. Len(delivered) + n <= Len(wanted)
      BY <2>2, <2>3, <2>5, <2>6
    <2>8. delivered' = SubSeq(wanted, 1, Len(delivered) + n)
      BY <2>2, <2>4, <2>5, <2>6
    <2>9. UNCHANGED <<wanted, limit, status>>
      OBVIOUS
    <2>10. Contract!DeliverChunk
      BY <2>6, <2>7, <2>8, <2>9 DEF Contract!DeliverChunk
    <2> QED
      BY <2>10 DEF Keeps, Contract!Next
  <1> QED
    BY <1>1, <1>2

(* What continues the delivered points from p to r.                        *)
LEMMA RangeChunk ==
  ASSUME RequestOK, status = "reading", UNCHANGED <<request, status>>,
         NEW p \in Nat, NEW r \in Nat, first <= p, p <= r, r <= last, r - p <= limit,
         delivered = Matching(first, p), Deliver(Matching(p, r))
  PROVE  delivered' = Matching(first, r) /\ Keeps
  <1>1. /\ first \in Nat /\ last \in Nat /\ count \in Nat /\ limit \in Nat
        /\ p <= count /\ r <= count /\ last <= count /\ p <= last
    BY DEF RequestOK
  <1>2. PICK chunk : chunk = Matching(p, r)
    OBVIOUS
  <1>3. PICK rest : rest = Matching(r, last)
    OBVIOUS
  <1>4. delivered \in Seq(1..count)
    BY <1>1, MatchingType
  <1>5. chunk \in Seq(1..count) /\ Len(chunk) <= r - p
    BY <1>1, <1>2, MatchingType
  <1>6. rest \in Seq(1..count)
    BY <1>1, <1>3, MatchingType
  <1>7. delivered \o chunk = Matching(first, r)
    <2>1. Matching(first, p) \o Matching(p, r) = Matching(first, r)
      BY ONLY <1>1, p \in Nat, r \in Nat, first <= p, p <= r, MatchingJoined
    <2> QED
      BY <1>2, <2>1
  <1>8. wanted = (delivered \o chunk) \o rest
    <2>0. first <= r
      BY <1>1
    <2>1. Matching(first, r) \o Matching(r, last) = Matching(first, last)
      BY ONLY <1>1, <2>0, r \in Nat, r <= last, MatchingJoined
    <2> QED
      BY ONLY <1>3, <1>7, <2>1, Zenon DEF wanted
  <1>9. delivered' = delivered \o chunk
    BY <1>2 DEF Deliver
  <1>10. wanted' = wanted /\ limit' = limit /\ status' = status
    BY RequestStays
  <1>11. Len(chunk) \in Nat
    BY ONLY <1>5, LenProperties
  <1>12. Len(chunk) <= limit
    BY <1>1, <1>5, <1>11
  <1>13. Keeps
    BY <1>1, <1>4, <1>5, <1>6, <1>8, <1>9, <1>10, <1>12, ChunkKeeps
  <1> QED
    BY <1>7, <1>9, <1>13

(* The readers differ.                                                     *)
LEMMA KindsDiffer ==
  /\ kind \in Ranged => kind \notin Decoded /\ kind # "CopcPointStream"
  /\ kind \in Decoded => kind # "CopcPointStream"
  /\ RequestOK => kind \in Ranged \cup Decoded \cup {"CopcPointStream"}
  BY ReadAssumption DEF Ranged, Decoded, RequestOK

(* A step of a reader that is not a COPC stream.                           *)
LEMMA PositionOK ==
  ASSUME RequestOK, ProgressOK, UNCHANGED <<request, copc>>, kind # "CopcPointStream",
         next' \in Nat, next' <= count, complete' \in BOOLEAN,
         delivered' \in Seq(1..count), status' \in {"reading", "end", "error"},
         kind \in Ranged => first <= next' /\ next' <= last
  PROVE  ProgressOK'
  <1>1. /\ kind' = kind /\ first' = first /\ last' = last /\ count' = count
        /\ limit' = limit /\ entries' = entries
        /\ entry' = entry /\ left' = left /\ pending' = pending
    BY DEF request, copc
  <1>2. /\ entry' \in Nat /\ entry' <= Len(entries') /\ left' \in Nat
        /\ pending' \in Seq(1..count') /\ Len(pending') <= limit'
        /\ left' = 0 /\ pending' = <<>>
    BY <1>1 DEF ProgressOK
  <1>3. next' <= count' /\ delivered' \in Seq(1..count') /\ kind' # "CopcPointStream"
    BY <1>1
  <1>4. kind' \in Ranged' => first' <= next' /\ next' <= last'
    BY <1>1 DEF Ranged
  <1> QED
    BY ONLY <1>2, <1>3, <1>4, next' \in Nat, complete' \in BOOLEAN,
            status' \in {"reading", "end", "error"}, Zenon DEF ProgressOK

(* LasReader::ReadPoints and PlyPointStream::ReadNext.                     *)
LEMMA ReadRangeStep ==
  ASSUME IInv, ReadRange
  PROVE  ProgressOK' /\ EndIsValidated' /\ Accounted' /\ Keeps
  <1>1. /\ kind \in Ranged /\ kind # "LasPointStream"
        /\ status = "reading" /\ next < last
    BY DEF ReadRange, Reading, Ranged
  <1>2. /\ kind \notin Decoded /\ kind # "CopcPointStream" /\ Unfiltered
    BY <1>1, KindsDiffer DEF Unfiltered
  <1>3. PICK to \in Nat : /\ to = UpTo(last) /\ next <= to /\ to <= last
                          /\ to - next <= limit /\ to <= count
    <2>1. next \in Nat /\ last \in Nat /\ limit \in Nat /\ last <= count /\ count \in Nat
      BY DEF IInv, RequestOK, ProgressOK
    <2> QED
      BY <1>1, <2>1 DEF UpTo, Least
  <1>4. delivered = Matching(first, next) /\ first <= next /\ next \in Nat
    BY <1>1, <1>2 DEF IInv, Accounted, Reach, ProgressOK
  <1>5. UNCHANGED request /\ next' = to /\ UNCHANGED <<complete, copc, status>> /\ Deliver(Matching(next, to))
    BY <1>3 DEF ReadRange
  <1>6. delivered' = Matching(first, to) /\ Keeps
    BY <1>1, <1>3, <1>4, <1>5, RangeChunk DEF IInv
  <1>7. delivered' \in Seq(1..count)
    BY <1>3, <1>6, MatchingType DEF IInv, RequestOK
  <1>8. /\ kind' = kind /\ first' = first /\ last' = last /\ count' = count /\ limit' = limit
        /\ entries' = entries /\ matches' = matches
        /\ complete' = complete /\ entry' = entry /\ left' = left /\ pending' = pending /\ status' = status
    BY <1>5 DEF request, copc
  <1>9. ProgressOK'
    <2>1. complete' \in BOOLEAN /\ status' \in {"reading", "end", "error"}
      BY <1>8 DEF IInv, ProgressOK
    <2>2. next' \in Nat /\ next' <= count /\ first <= next' /\ next' <= last
      BY <1>3, <1>4, <1>5 DEF IInv, RequestOK
    <2> QED
      BY <1>2, <1>5, <1>7, <2>1, <2>2, PositionOK DEF IInv
  <1>10. Accounted'
    BY <1>2, <1>5, <1>6, <1>8 DEF Accounted, Matching, Reach
  <1> QED
    BY <1>1, <1>6, <1>8, <1>9, <1>10 DEF EndIsValidated

(* LasPointStream::ReadNext: without filters the points it got are those   *)
(* it asked for.                                                           *)
LEMMA PullRangeStep ==
  ASSUME IInv, PullRange
  PROVE  ProgressOK' /\ EndIsValidated' /\ Accounted' /\ (Unfiltered => Keeps)
  <1>1. kind = "LasPointStream" /\ kind \in Ranged /\ status = "reading" /\ next < last
    BY DEF PullRange, Reading, Ranged
  <1>2. kind \notin Decoded /\ kind # "CopcPointStream"
    BY <1>1, KindsDiffer
  <1>3. PICK to \in Nat : /\ to = UpTo(last) /\ next < to /\ to <= last
                          /\ to - next <= limit /\ to <= count
    <2>1. next \in Nat /\ last \in Nat /\ limit \in Nat \ {0} /\ last <= count /\ count \in Nat
      BY DEF IInv, RequestOK, ProgressOK
    <2> QED
      BY <1>1, <2>1 DEF UpTo, Least
  <1>4. next \in Nat /\ first \in Nat /\ count \in Nat /\ first <= next
    BY <1>1 DEF IInv, ProgressOK, RequestOK
  <1>5. PICK kept : kept = Matching(next, to)
    OBVIOUS
  <1>6. kept \in Seq(1..count) /\ Len(kept) <= to - next
    <2>1. RequestOK /\ to <= count /\ next <= to
      BY <1>3, <1>4 DEF IInv
    <2>2. /\ Matching(next, to) \in Seq(1..count)
          /\ next <= to => Len(Matching(next, to)) <= to - next
      BY ONLY <1>4, <2>1, to \in Nat, MatchingType
    <2> QED
      BY ONLY <1>5, <2>1, <2>2, Zenon
  <1>7. Len(kept) \in Nat
    BY ONLY <1>6, LenProperties
  <1>8. /\ UNCHANGED request /\ UNCHANGED <<complete, copc>>
        /\ Deliver(kept) /\ next' = next + Len(kept)
        /\ status' = IF kept = <<>> THEN "error" ELSE status
    <2>1. kept = Matching(next, UpTo(last))
      BY <1>3, <1>5
    <2>2. /\ Deliver(kept) /\ next' = next + Len(kept)
          /\ status' = IF kept = <<>> THEN "error" ELSE status
      BY ONLY <2>1, PullRange, Zenon DEF PullRange
    <2> QED
      BY <2>2 DEF PullRange
  <1>9. /\ kind' = kind /\ first' = first /\ last' = last /\ count' = count /\ limit' = limit
        /\ entries' = entries /\ matches' = matches
        /\ complete' = complete /\ entry' = entry /\ left' = left /\ pending' = pending
    BY <1>8 DEF request, copc
  <1>10. ProgressOK'
    <2>1. complete' \in BOOLEAN /\ status' \in {"reading", "end", "error"}
      BY <1>1, <1>8, <1>9 DEF IInv, ProgressOK
    <2>2. next' \in Nat /\ next' <= count /\ first <= next' /\ next' <= last
      BY <1>3, <1>4, <1>6, <1>7, <1>8 DEF IInv, RequestOK
    <2>3. delivered' \in Seq(1..count)
      <3>1. delivered \in Seq(1..count) /\ delivered' = delivered \o kept
        BY <1>8 DEF IInv, ProgressOK, Deliver
      <3> QED
        BY ONLY <1>6, <3>1, ConcatProperties
    <2> QED
      BY <1>2, <1>8, <2>1, <2>2, <2>3, PositionOK DEF IInv
  <1>11. ASSUME Unfiltered PROVE delivered' = Matching(first, next') /\ Keeps
    <2>1. Len(kept) = to - next
      <3>1. (next + 1)..to \subseteq matches
        BY <1>1, <1>3, <1>4, <1>11 DEF Unfiltered
      <3>2. Len(Among(matches, next, to)) = to - next
        BY ONLY <1>3, <1>4, <3>1, to \in Nat, AmongType
      <3> QED
        BY <1>5, <3>2 DEF Matching
    <2>2. next' = to /\ kept # <<>>
      BY <1>3, <1>4, <1>8, <2>1, EmptySeq
    <2>3. UNCHANGED <<request, status>>
      BY <1>8, <2>2
    <2>4. delivered = Matching(first, next)
      BY <1>2, <1>11 DEF IInv, Accounted, Reach
    <2>5. Deliver(Matching(next, to))
      BY <1>5, <1>8
    <2>6. RequestOK
      BY DEF IInv
    <2>7. next <= to
      BY <1>3, <1>4
    <2>8. delivered' = Matching(first, to) /\ Keeps
      BY ONLY <1>1, <1>3, <1>4, <2>3, <2>4, <2>5, <2>6, <2>7, to \in Nat, RangeChunk
    <2> QED
      BY <2>2, <2>8
  <1>12. Accounted'
    BY <1>2, <1>9, <1>11 DEF Accounted, Matching, Reach, Unfiltered
  <1>13. EndIsValidated'
    BY <1>2, <1>9 DEF EndIsValidated, Decoded
  <1> QED
    BY <1>10, <1>11, <1>12, <1>13

(* LazReader::Read and LazPointStream::ReadNext.                           *)
LEMMA DecodeStep ==
  ASSUME IInv, Decode
  PROVE  ProgressOK' /\ EndIsValidated' /\ Accounted' /\ Keeps
  <1>1. kind \in Decoded /\ status = "reading"
    BY DEF Decode, Reading
  <1>2. kind \notin Ranged /\ kind # "CopcPointStream" /\ Unfiltered
    BY <1>1, KindsDiffer DEF Unfiltered, Decoded
  <1>3. PICK n \in 0..limit + 1, done \in BOOLEAN :
          IF Plausible(n, done)
          THEN /\ Deliver(Selected(n))
               /\ next' = next + n
               /\ complete' = done
               /\ UNCHANGED status
          ELSE /\ status' = "error"
               /\ UNCHANGED <<next, complete, delivered>>
    BY DEF Decode
  <1>4. UNCHANGED request /\ UNCHANGED copc
    BY DEF Decode
  <1>5. /\ kind' = kind /\ first' = first /\ last' = last /\ count' = count /\ limit' = limit
        /\ entries' = entries /\ matches' = matches
    BY <1>4 DEF request
  <1>6. /\ first \in Nat /\ last \in Nat /\ count \in Nat /\ limit \in Nat /\ next \in Nat
        /\ first <= last /\ last <= count /\ next <= count
    BY DEF IInv, RequestOK, ProgressOK
  <1>7. delivered = Matching(first, Reach) /\ Reach = Least(Most(next, first), last)
    BY <1>1, <1>2 DEF IInv, Accounted, Reach
  <1>8. /\ complete \in BOOLEAN /\ delivered \in Seq(1..count)
    BY DEF IInv, ProgressOK
  <1>9. CASE ~ Plausible(n, done)
    <2>1. status' = "error" /\ next' = next /\ complete' = complete /\ delivered' = delivered
      BY <1>3, <1>9
    <2>2. ProgressOK'
      BY <1>2, <1>4, <1>6, <1>8, <2>1, PositionOK DEF IInv
    <2>3. Accounted'
      BY <1>2, <1>5, <1>7, <2>1 DEF Accounted, Matching, Reach
    <2>4. Contract!Fail
      <3>1. wanted' = wanted /\ limit' = limit
        BY <1>4, RequestStays DEF IInv
      <3> QED
        BY <1>1, <2>1, <3>1 DEF Contract!Fail
    <2> QED
      BY <2>1, <2>2, <2>3, <2>4 DEF EndIsValidated, Keeps, Contract!Next
  <1>10. CASE Plausible(n, done)
    <2>1. /\ Deliver(Selected(n)) /\ next' = next + n /\ complete' = done /\ status' = status
          /\ n <= limit /\ next + n <= count /\ n \in Nat
      BY <1>3, <1>6, <1>10 DEF Plausible
    <2>2. PICK p \in Nat : p = Reach /\ first <= p /\ p <= last
      BY <1>6, <1>7 DEF Least, Most
    <2>3. PICK r \in Nat : /\ r = Least(Most(next + n, first), last)
                           /\ p <= r /\ r <= last /\ r - p <= limit
      BY <1>6, <1>7, <2>1, <2>2 DEF Least, Most
    <2>4. Selected(n) = Matching(p, r)
      <3>1. CASE next < last /\ next + n > first
        <4>1. Most(next, first) = p /\ Least(next + n, last) = r
          BY <1>6, <1>7, <2>1, <2>2, <2>3, <3>1 DEF Least, Most
        <4> QED
          BY <4>1 DEF Selected
      <3>2. CASE ~ (next < last /\ next + n > first)
        <4>1. PICK a \in Nat, b \in Nat : /\ a = Most(next, first) /\ b = Least(next + n, last)
                                          /\ b <= a /\ b <= count /\ r <= p /\ r <= count
          BY <1>6, <1>7, <2>1, <2>2, <2>3, <3>2 DEF Least, Most
        <4>2. Matching(a, b) = <<>> /\ Matching(p, r) = <<>>
          BY <2>2, <2>3, <4>1, MatchingType DEF IInv
        <4> QED
          BY <4>1, <4>2 DEF Selected
      <3> QED
        BY <3>1, <3>2
    <2>5. delivered' = Matching(first, r) /\ Keeps
      <3>1. RequestOK /\ UNCHANGED <<request, status>> /\ Deliver(Matching(p, r)) /\ delivered = Matching(first, p)
        BY <1>4, <1>7, <2>1, <2>2, <2>4 DEF IInv
      <3> QED
        BY ONLY <1>1, <2>2, <2>3, <3>1, p \in Nat, r \in Nat, RangeChunk
    <2>6. delivered' \in Seq(1..count)
      BY <1>6, <2>3, <2>5, MatchingType DEF IInv
    <2>7. ProgressOK'
      <3>1. next' \in Nat /\ next' <= count /\ complete' \in BOOLEAN /\ status' \in {"reading", "end", "error"}
        BY <1>1, <1>6, <2>1
      <3> QED
        BY <1>2, <1>4, <2>6, <3>1, PositionOK DEF IInv
    <2>8. Accounted'
      <3>1. Reach' = r
        BY <1>1, <1>5, <2>1, <2>3 DEF Reach, Decoded
      <3> QED
        BY <1>2, <1>5, <2>5, <3>1 DEF Accounted, Matching
    <2>9. EndIsValidated'
      BY <1>1, <2>1 DEF EndIsValidated
    <2> QED
      BY <2>5, <2>7, <2>8, <2>9
  <1> QED
    BY <1>9, <1>10

-----------------------------------------------------------------------------
(* The COPC stream.                                                        *)
LEMMA CopcRequest ==
  ASSUME RequestOK, kind = "CopcPointStream"
  PROVE  /\ first = 0 /\ last = count /\ count \in Nat /\ limit \in Nat \ {0}
         /\ entries[1] \in Nat /\ entries[2] \in Nat /\ entries[1] + entries[2] = count
         /\ Len(entries) = 2
         /\ kind \notin Ranged /\ kind \notin Decoded
  <1>1. /\ first = 0 /\ last = count /\ count \in Nat /\ limit \in Nat \ {0}
        /\ entries \in [1..2 -> 0..count] /\ entries[1] + entries[2] = count
    BY DEF RequestOK
  <1>2. entries[1] \in 0..count /\ entries[2] \in 0..count
    BY <1>1
  <1>3. Len(entries) = 2
    <2>1. entries \in Seq(0..count)
      <3>1. Seq(0..count) = UNION {[1..m -> 0..count] : m \in Nat}
        BY ONLY SeqDef
      <3>2. entries \in [1..2 -> 0..count] /\ 2 \in Nat
        BY <1>1
      <3> QED
        BY ONLY <3>1, <3>2, Zenon
    <2>2. DOMAIN entries = 1..Len(entries) /\ Len(entries) \in Nat
      BY ONLY <2>1, LenProperties
    <2>3. DOMAIN entries = 1..2
      BY <1>1
    <2>4. PICK m \in Nat : m = Len(entries) /\ 1..m = 1..2
      BY ONLY <2>2, <2>3, Zenon
    <2>5. 2 \in 1..m /\ m \in 1..m
      <3>1. 2 \in 1..2
        OBVIOUS
      <3>2. 2 \in 1..m
        BY ONLY <2>4, <3>1
      <3> QED
        BY <3>2
    <2>6. m \in 1..2
      BY ONLY <2>4, <2>5
    <2> QED
      BY <2>4, <2>5, <2>6
  <1> QED
    BY <1>1, <1>2, <1>3, KindsDiffer DEF Ranged, Decoded

(* A step of a COPC stream.                                                *)
LEMMA CopcOK ==
  ASSUME RequestOK, ProgressOK, UNCHANGED <<request, complete, status>>, kind = "CopcPointStream",
         next' \in Nat, next' <= count, entry' \in Nat, entry' <= Len(entries), left' \in Nat,
         pending' \in Seq(1..count), Len(pending') <= limit, delivered' \in Seq(1..count),
         next' + left' = Opened'
  PROVE  ProgressOK'
  <1>1. kind' = kind /\ count' = count /\ limit' = limit /\ entries' = entries
        /\ complete' = complete /\ status' = status
    BY DEF request
  <1>2. kind' \notin Ranged' /\ kind' = "CopcPointStream"
    BY <1>1, CopcRequest DEF Ranged
  <1>3. complete' \in BOOLEAN /\ status' \in {"reading", "end", "error"}
    BY <1>1 DEF ProgressOK
  <1>4. /\ next' <= count' /\ entry' <= Len(entries') /\ pending' \in Seq(1..count')
        /\ Len(pending') <= limit' /\ delivered' \in Seq(1..count')
    BY <1>1
  <1> QED
    BY ONLY <1>2, <1>3, <1>4, next' \in Nat, entry' \in Nat, left' \in Nat,
            next' + left' = Opened', Zenon DEF ProgressOK

(* What a COPC stream delivered and holds back is what it decoded.         *)
LEMMA CopcAccounted ==
  ASSUME RequestOK, UNCHANGED request, kind = "CopcPointStream",
         delivered' \o pending' = Matching(0, next')
  PROVE  Accounted'
  <1>1. kind' = "CopcPointStream" /\ matches' = matches
    BY DEF request
  <1>2. (delivered \o pending = Matching(0, next))'
    BY <1>1 DEF Matching
  <1> QED
    BY <1>1, <1>2 DEF Accounted

(* CopcPointStream::ReadNext, before it decodes more.                      *)
LEMMA DeliverPendingStep ==
  ASSUME IInv, DeliverPending
  PROVE  ProgressOK' /\ EndIsValidated' /\ Accounted' /\ Keeps
  <1>1. kind = "CopcPointStream" /\ status = "reading" /\ pending # <<>>
    BY DEF DeliverPending, Reading
  <1>2. /\ first = 0 /\ last = count /\ count \in Nat /\ limit \in Nat \ {0}
        /\ kind \notin Ranged /\ kind \notin Decoded
    BY <1>1, CopcRequest DEF IInv
  <1>3. /\ next \in Nat /\ next <= count /\ entry \in Nat /\ entry <= Len(entries) /\ left \in Nat
        /\ pending \in Seq(1..count) /\ Len(pending) <= limit /\ delivered \in Seq(1..count)
        /\ next + left = Opened
    BY <1>1 DEF IInv, ProgressOK
  <1>4. Len(pending) \in Nat \ {0}
    BY ONLY <1>1, <1>3, EmptySeq
  <1>5. PICK n \in 1..Len(pending) : n = Least(limit, Len(pending)) /\ n <= limit
    BY <1>2, <1>4 DEF Least
  <1>6. PICK chunk, later : chunk = SubSeq(pending, 1, n) /\ later = SubSeq(pending, n + 1, Len(pending))
    OBVIOUS
  <1>7. /\ Deliver(chunk) /\ pending' = later
        /\ UNCHANGED <<request, next, complete, entry, left, status>>
    BY <1>5, <1>6 DEF DeliverPending
  <1>8. chunk \in Seq(1..count) /\ Len(chunk) = n
    <2>1. ASSUME NEW i \in 1..n PROVE pending[i] \in 1..count
      <3>1. i \in 1..Len(pending)
        BY <1>4, <1>5
      <3> QED
        BY ONLY <1>3, <3>1, ElementOfSeq
    <2>2. 1 \in Int /\ n \in Int /\ 1 <= n /\ n - 1 + 1 = n
      BY <1>5
    <2>3. SubSeq(pending, 1, n) \in Seq(1..count) /\ Len(SubSeq(pending, 1, n)) = IF 1 <= n THEN n - 1 + 1 ELSE 0
      BY ONLY <2>1, <2>2, SubSeqProperties
    <2> QED
      BY <1>6, <2>2, <2>3
  <1>9. later \in Seq(1..count) /\ Len(later) <= limit
    <2>1. ASSUME NEW i \in (n + 1)..Len(pending) PROVE pending[i] \in 1..count
      <3>1. i \in 1..Len(pending)
        BY <1>4, <1>5
      <3> QED
        BY ONLY <1>3, <3>1, ElementOfSeq
    <2>2. n + 1 \in Int /\ Len(pending) \in Int
      BY <1>4, <1>5
    <2>3. /\ SubSeq(pending, n + 1, Len(pending)) \in Seq(1..count)
          /\ Len(SubSeq(pending, n + 1, Len(pending))) =
                IF n + 1 <= Len(pending) THEN Len(pending) - (n + 1) + 1 ELSE 0
      BY ONLY <2>1, <2>2, SubSeqProperties
    <2>4. (IF n + 1 <= Len(pending) THEN Len(pending) - (n + 1) + 1 ELSE 0) <= limit
      <3>1. Len(pending) <= limit /\ Len(pending) \in Nat /\ limit \in Nat /\ n \in Nat
        BY <1>2, <1>3, <1>4, <1>5
      <3> QED
        BY ONLY <3>1
    <2> QED
      BY ONLY <1>6, <2>3, <2>4, Zenon
  <1>10. chunk \o later = pending
    <2>1. SubSeq(pending, 1, n) \o SubSeq(pending, n + 1, Len(pending)) = SubSeq(pending, 1, Len(pending))
      <3>1. /\ 1 \in 1..Len(pending) + 1 /\ n \in 1 - 1..Len(pending)
            /\ Len(pending) \in n..Len(pending)
        BY <1>4, <1>5
      <3> QED
        BY ONLY <1>3, <3>1, ConcatAdjacentSubSeq
    <2>2. SubSeq(pending, 1, Len(pending)) = pending
      BY ONLY <1>3, SubSeqFull
    <2> QED
      BY ONLY <1>6, <2>1, <2>2, Zenon
  <1>11. delivered' = delivered \o chunk /\ delivered' \in Seq(1..count)
    <2>1. delivered \o chunk \in Seq(1..count)
      BY ONLY <1>3, <1>8, ConcatProperties
    <2> QED
      BY <1>7, <2>1 DEF Deliver
  <1>12. delivered' \o later = Matching(0, next)
    <2>1. (delivered \o chunk) \o later = delivered \o (chunk \o later)
      <3>1. PICK P : P = 1..count
        OBVIOUS
      <3>2. delivered \in Seq(P) /\ chunk \in Seq(P) /\ later \in Seq(P)
        BY ONLY <1>3, <1>8, <1>9, <3>1, Zenon
      <3> QED
        BY ONLY <3>2, ConcatAssociative, SMTT(20)
    <2>2. delivered \o pending = Matching(0, next)
      BY <1>1 DEF IInv, Accounted
    <2> QED
      BY <1>10, <1>11, <2>1, <2>2
  <1>13. ProgressOK'
    <2>1. /\ next' = next /\ entry' = entry /\ left' = left /\ entries' = entries /\ count' = count
          /\ UNCHANGED <<request, complete, status>>
      BY <1>7 DEF request
    <2>2. Opened' = Opened
      BY <2>1 DEF Opened
    <2> QED
      BY <1>1, <1>3, <1>7, <1>9, <1>11, <2>1, <2>2, CopcOK DEF IInv
  <1>14. Accounted'
    BY <1>1, <1>7, <1>12, CopcAccounted DEF IInv
  <1>15. Keeps
    <2>1. PICK after : after = Matching(next, count)
      OBVIOUS
    <2>2. after \in Seq(1..count)
      BY <1>2, <1>3, <2>1, MatchingType DEF IInv
    <2>3. wanted = Matching(0, next) \o after
      <3>1. 0 \in Nat /\ 0 <= next
        BY <1>3
      <3>2. Matching(0, next) \o Matching(next, count) = Matching(0, count)
        BY ONLY <1>2, <1>3, <3>1, MatchingJoined
      <3> QED
        BY ONLY <1>2, <2>1, <3>2, Zenon DEF wanted
    <2>4. (delivered' \o later) \o after = delivered' \o (later \o after)
      <3>1. PICK P : P = 1..count
        OBVIOUS
      <3>2. delivered' \in Seq(P) /\ later \in Seq(P) /\ after \in Seq(P)
        BY ONLY <1>9, <1>11, <2>2, <3>1, Zenon
      <3> QED
        BY ONLY <3>2, ConcatAssociative, SMTT(20)
    <2>5. later \o after \in Seq(1..count)
      BY ONLY <1>9, <2>2, ConcatProperties
    <2>6. wanted = (delivered \o chunk) \o (later \o after)
      BY <1>11, <1>12, <2>3, <2>4
    <2>7. wanted' = wanted /\ limit' = limit /\ status' = status
      BY <1>7, RequestStays DEF IInv
    <2>8. limit \in Nat /\ Len(chunk) <= limit
      BY <1>2, <1>5, <1>8
    <2> QED
      BY ONLY <1>1, <1>3, <1>8, <1>11, <2>5, <2>6, <2>7, <2>8, ChunkKeeps
  <1>16. EndIsValidated'
    BY <1>2, <1>7 DEF EndIsValidated, request, Decoded
  <1> QED
    BY <1>13, <1>14, <1>15, <1>16

(* One chunk of the open entry is decoded.                                 *)
LEMMA DecodeEntryStep ==
  ASSUME IInv, DecodeEntry
  PROVE  ProgressOK' /\ EndIsValidated' /\ Accounted' /\ Keeps
  <1>1. kind = "CopcPointStream" /\ status = "reading" /\ pending = <<>> /\ left > 0
    BY DEF DecodeEntry, Reading
  <1>2. /\ first = 0 /\ last = count /\ count \in Nat /\ limit \in Nat \ {0}
        /\ kind \notin Ranged /\ kind \notin Decoded
        /\ entries[1] \in Nat /\ entries[2] \in Nat /\ entries[1] + entries[2] = count
    BY <1>1, CopcRequest DEF IInv
  <1>3. /\ next \in Nat /\ next <= count /\ entry \in Nat /\ entry <= Len(entries) /\ left \in Nat
        /\ delivered \in Seq(1..count)
        /\ next + left = Opened
    BY <1>1 DEF IInv, ProgressOK
  <1>4. PICK n \in Nat : n = Least(limit, left) /\ n <= limit /\ n <= left
    BY <1>2, <1>3 DEF Least
  <1>5. /\ pending' = Matching(next, next + n) /\ next' = next + n /\ left' = left - n
        /\ UNCHANGED <<request, complete, entry, delivered, status>>
    BY <1>4 DEF DecodeEntry
  <1>6. next + n \in Nat /\ next + n <= count /\ left - n \in Nat
    <2>1. Opened <= count /\ Opened \in Nat
      BY <1>2 DEF Opened
    <2> QED
      BY <1>2, <1>3, <1>4, <2>1
  <1>7. pending' \in Seq(1..count) /\ Len(pending') <= limit
    <2>1. pending' \in Seq(1..count) /\ Len(pending') <= (next + n) - next
      <3>1. RequestOK /\ next <= next + n
        BY <1>3, <1>4 DEF IInv
      <3>2. /\ Matching(next, next + n) \in Seq(1..count)
            /\ next <= next + n => Len(Matching(next, next + n)) <= (next + n) - next
        BY ONLY <1>3, <1>6, <3>1, MatchingType
      <3> QED
        BY ONLY <1>5, <3>1, <3>2, Zenon
    <2>2. Len(pending') \in Nat
      BY ONLY <2>1, LenProperties
    <2> QED
      BY <1>2, <1>3, <1>4, <2>1, <2>2
  <1>8. delivered = Matching(0, next)
    <2>1. delivered \o <<>> = Matching(0, next)
      BY <1>1 DEF IInv, Accounted
    <2>2. delivered \o <<>> = delivered
      BY ONLY <1>3, ConcatEmptySeq
    <2> QED
      BY <2>1, <2>2
  <1>9. delivered' \o pending' = Matching(0, next')
    <2>1. 0 \in Nat /\ 0 <= next /\ next <= next + n
      BY <1>3, <1>4
    <2>2. Matching(0, next) \o Matching(next, next + n) = Matching(0, next + n)
      BY ONLY <1>3, <1>6, <2>1, MatchingJoined
    <2>3. delivered' = Matching(0, next)
      BY <1>5, <1>8
    <2> QED
      BY ONLY <1>5, <2>2, <2>3, Zenon
  <1>10. ProgressOK'
    <2>1. entry' = entry /\ entries' = entries /\ count' = count /\ delivered' = delivered
          /\ UNCHANGED <<request, complete, status>>
      BY <1>5 DEF request
    <2>2. Opened' = Opened
      BY <2>1 DEF Opened
    <2>3. next' + left' = Opened'
      BY <1>3, <1>4, <1>5, <2>2
    <2> QED
      BY <1>1, <1>3, <1>5, <1>6, <1>7, <2>1, <2>3, CopcOK DEF IInv
  <1>11. Accounted'
    BY <1>1, <1>5, <1>9, CopcAccounted DEF IInv
  <1>12. Keeps
    BY <1>5, RequestStays DEF IInv, Keeps
  <1>13. EndIsValidated'
    BY <1>1, <1>5 DEF EndIsValidated
  <1> QED
    BY <1>10, <1>11, <1>12, <1>13

(* The next entry.                                                         *)
LEMMA OpenEntryStep ==
  ASSUME IInv, OpenEntry
  PROVE  ProgressOK' /\ EndIsValidated' /\ Accounted' /\ Keeps
  <1>1. kind = "CopcPointStream" /\ status = "reading" /\ left = 0 /\ entry < Len(entries)
    BY DEF OpenEntry, Reading
  <1>2. /\ count \in Nat /\ Len(entries) = 2
        /\ entries[1] \in Nat /\ entries[2] \in Nat /\ entries[1] + entries[2] = count
    BY <1>1, CopcRequest DEF IInv
  <1>3. /\ next \in Nat /\ next <= count /\ entry \in Nat
        /\ pending \in Seq(1..count) /\ Len(pending) <= limit /\ delivered \in Seq(1..count)
        /\ next + left = Opened
    BY <1>1 DEF IInv, ProgressOK
  <1>4. /\ entry' = entry + 1 /\ left' = entries[entry + 1]
        /\ UNCHANGED <<request, next, complete, pending, delivered, status>>
    BY DEF OpenEntry
  <1>5. /\ next' = next /\ pending' = pending /\ delivered' = delivered
        /\ entries' = entries /\ count' = count /\ UNCHANGED <<request, complete, status>>
    BY <1>4 DEF request
  <1>6. left' \in Nat /\ next' + left' = Opened'
    <2>1. CASE entry = 0
      BY <1>1, <1>2, <1>3, <1>4, <1>5, <2>1 DEF Opened
    <2>2. CASE entry = 1
      BY <1>1, <1>2, <1>3, <1>4, <1>5, <2>2 DEF Opened
    <2> QED
      BY <1>1, <1>2, <1>3, <2>1, <2>2
  <1>7. entry' \in Nat /\ entry' <= Len(entries)
    BY <1>1, <1>2, <1>3, <1>4
  <1>8. ProgressOK'
    BY <1>1, <1>3, <1>5, <1>6, <1>7, CopcOK DEF IInv
  <1>9. Accounted'
    <2>1. delivered' \o pending' = Matching(0, next')
      BY <1>1, <1>5 DEF IInv, Accounted
    <2> QED
      BY <1>1, <1>5, <2>1, CopcAccounted DEF IInv
  <1>10. Keeps
    BY <1>4, RequestStays DEF IInv, Keeps
  <1>11. EndIsValidated'
    BY <1>1, <1>4 DEF EndIsValidated
  <1> QED
    BY <1>8, <1>9, <1>10, <1>11

-----------------------------------------------------------------------------
(* The end is reported where nothing is left to deliver.                   *)
LEMMA FinishStep ==
  ASSUME IInv, Finish
  PROVE  ProgressOK' /\ EndIsValidated' /\ Accounted' /\ (Unfiltered => Keeps)
  <1>1. /\ status = "reading" /\ Exhausted
        /\ status' = IF kind \in Decoded /\ next # count THEN "error" ELSE "end"
        /\ UNCHANGED <<request, next, complete, copc, delivered>>
    BY DEF Finish
  <1>2. /\ kind' = kind /\ first' = first /\ last' = last /\ count' = count /\ limit' = limit
        /\ entries' = entries /\ matches' = matches
        /\ next' = next /\ complete' = complete /\ delivered' = delivered
        /\ entry' = entry /\ left' = left /\ pending' = pending
    BY <1>1 DEF request, copc
  <1>3. status' \in {"reading", "end", "error"}
    BY <1>1
  <1>4. ProgressOK'
    <2>1. /\ (kind \in Ranged)' = (kind \in Ranged)
          /\ Opened' = Opened
      BY <1>2 DEF Ranged, Opened
    <2> QED
      BY <1>2, <1>3, <2>1, Zenon DEF IInv, ProgressOK
  <1>5. Accounted'
    <2>1. Reach' = Reach /\ Unfiltered' = Unfiltered
      BY <1>2, Zenon DEF Reach, Unfiltered, Decoded
    <2>2. Matching(first, Reach)' = Matching(first, Reach) /\ Matching(0, next)' = Matching(0, next)
      BY <1>2, <2>1, Zenon DEF Matching
    <2> QED
      BY <1>2, <2>1, <2>2, Zenon DEF IInv, Accounted
  <1>6. EndIsValidated'
    BY <1>1, <1>2 DEF EndIsValidated, Decoded
  <1>7. wanted' = wanted /\ limit' = limit
    BY <1>1, RequestStays DEF IInv
  <1>8. ASSUME Unfiltered PROVE Keeps
    <2>1. CASE kind \in Decoded /\ next # count
      BY <1>1, <1>7, <2>1 DEF Keeps, Contract!Next, Contract!Fail
    <2>2. CASE ~ (kind \in Decoded /\ next # count)
      <3>1. delivered = wanted
        <4>1. CASE kind \in Ranged
          <5>1. kind \notin Decoded /\ kind # "CopcPointStream" /\ next >= last
            BY <1>1, <4>1, KindsDiffer DEF Exhausted
          <5>2. next = last
            BY <4>1, <5>1 DEF IInv, ProgressOK, RequestOK
          <5> QED
            BY <1>8, <5>1, <5>2, Zenon DEF IInv, Accounted, Reach, wanted
        <4>2. CASE kind \in Decoded
          <5>1. kind # "CopcPointStream" /\ next = count
            BY <2>2, <4>2, KindsDiffer
          <5>2. Least(Most(next, first), last) = last
            BY <5>1 DEF IInv, RequestOK, Least, Most
          <5> QED
            BY <1>8, <4>2, <5>1, <5>2, Zenon DEF IInv, Accounted, Reach, wanted
        <4>3. CASE kind = "CopcPointStream"
          <5>1. /\ first = 0 /\ last = count /\ count \in Nat /\ Len(entries) = 2
                /\ kind \notin Ranged /\ kind \notin Decoded
            BY <4>3, CopcRequest DEF IInv
          <5>2. pending = <<>> /\ left = 0 /\ entry = 2
            BY <1>1, <5>1 DEF Exhausted
          <5>3. next \in Nat /\ next + left = Opened /\ delivered \in Seq(1..count)
            BY <4>3 DEF IInv, ProgressOK
          <5>4. next = count
            BY <5>1, <5>2, <5>3 DEF Opened
          <5>5. delivered \o <<>> = Matching(0, count)
            BY <4>3, <5>2, <5>4, Zenon DEF IInv, Accounted
          <5>6. delivered \o <<>> = delivered
            BY ONLY <5>3, ConcatEmptySeq
          <5> QED
            BY <5>1, <5>5, <5>6, Zenon DEF wanted
        <4> QED
          BY <4>1, <4>2, <4>3, KindsDiffer DEF IInv
      <3>2. Contract!End
        BY <1>1, <1>2, <1>7, <2>2, <3>1 DEF Contract!End
      <3> QED
        BY <3>2 DEF Keeps, Contract!Next
    <2> QED
      BY <2>1, <2>2
  <1> QED
    BY <1>4, <1>5, <1>6, <1>8

(* A read that fails or is left alone.                                     *)
LEMMA FailStep ==
  ASSUME IInv, UNCHANGED <<request, next, complete, copc, delivered>>,
         status' = status \/ (status = "reading" /\ status' = "error")
  PROVE  ProgressOK' /\ EndIsValidated' /\ Accounted' /\ Keeps
  <1>1. /\ kind' = kind /\ first' = first /\ last' = last /\ count' = count /\ limit' = limit
        /\ entries' = entries /\ matches' = matches
        /\ next' = next /\ complete' = complete /\ delivered' = delivered
        /\ entry' = entry /\ left' = left /\ pending' = pending
    BY DEF request, copc
  <1>2. status' \in {"reading", "end", "error"}
    BY DEF IInv, ProgressOK
  <1>3. ProgressOK'
    <2>1. /\ (kind \in Ranged)' = (kind \in Ranged)
          /\ Opened' = Opened
      BY <1>1 DEF Ranged, Opened
    <2> QED
      BY <1>1, <1>2, <2>1, Zenon DEF IInv, ProgressOK
  <1>4. Accounted'
    <2>1. Reach' = Reach /\ Unfiltered' = Unfiltered
      BY <1>1, Zenon DEF Reach, Unfiltered, Decoded
    <2>2. Matching(first, Reach)' = Matching(first, Reach) /\ Matching(0, next)' = Matching(0, next)
      BY <1>1, <2>1, Zenon DEF Matching
    <2> QED
      BY <1>1, <2>1, <2>2, Zenon DEF IInv, Accounted
  <1>5. EndIsValidated'
    BY <1>1 DEF IInv, EndIsValidated, Decoded
  <1>6. wanted' = wanted /\ limit' = limit /\ delivered' = delivered
    BY <1>1, RequestStays DEF IInv
  <1>7. Keeps
    BY <1>6 DEF Keeps, Contract!Next, Contract!Fail
  <1> QED
    BY <1>3, <1>4, <1>5, <1>7

(* A pulled LAS stream is given no filters, or there is none.              *)
FiltersApart == ~ LasFilters \/ "LasPointStream" \notin Kinds

(* A read starts in the invariant and with nothing delivered.              *)
LEMMA InitInv ==
  ASSUME Init
  PROVE  IInv /\ Contract!Init /\ (FiltersApart => Unfiltered)
  <1>1. RequestOK
    <2>1. /\ kind \in Kinds /\ count \in Nat /\ limit \in Nat \ {0}
          /\ matches \in SUBSET (1..count) /\ first \in Nat /\ last \in Nat
          /\ first <= last /\ last <= count
      BY ReadAssumption DEF Init
    <2>2. CASE kind = "CopcPointStream"
      <3>1. /\ <<first, last>> = <<0, count>>
            /\ entries \in [1..2 -> 0..count] /\ entries[1] + entries[2] = count
        BY <2>2 DEF Init
      <3> QED
        BY <2>1, <2>2, <3>1 DEF RequestOK
    <2>3. CASE kind # "CopcPointStream"
      BY <2>1, <2>3 DEF Init, RequestOK
    <2> QED
      BY <2>2, <2>3
  <1>2. /\ next = IF kind \in Ranged THEN first ELSE 0
        /\ complete = FALSE /\ entry = 0 /\ left = 0 /\ pending = <<>> /\ delivered = <<>>
        /\ status = "reading"
    BY DEF Init
  <1>3. /\ first \in Nat /\ last \in Nat /\ count \in Nat /\ limit \in Nat /\ first <= last /\ last <= count
    BY <1>1 DEF RequestOK
  <1>4. ProgressOK
    <2>1. pending \in Seq(1..count) /\ delivered \in Seq(1..count) /\ Len(pending) = 0
      BY <1>2, EmptySeq
    <2>2. entry <= Len(entries)
      <3>1. CASE kind = "CopcPointStream"
        BY <1>1, <1>2, <3>1, CopcRequest
      <3>2. CASE kind # "CopcPointStream"
        BY <1>1, <1>2, <3>2, EmptySeq DEF RequestOK
      <3> QED
        BY <3>1, <3>2
    <2>3. kind = "CopcPointStream" => next + left = Opened
      BY <1>2, KindsDiffer DEF Opened
    <2>4. next \in Nat /\ next <= count /\ (kind \in Ranged => first <= next /\ next <= last)
      BY <1>2, <1>3
    <2>5. Len(pending) <= limit
      BY <1>3, <2>1
    <2>6. complete \in BOOLEAN
      BY <1>2, Zenon
    <2>7. status \in {"reading", "end", "error"} /\ entry \in Nat /\ left \in Nat
      BY <1>2
    <2> QED
      BY <1>2, <2>1, <2>2, <2>3, <2>4, <2>5, <2>6, <2>7, Zenon DEF ProgressOK
  <1>5. Accounted
    <2>1. CASE kind = "CopcPointStream"
      <3>1. next = 0 /\ Matching(0, 0) = <<>>
        BY <1>1, <1>2, <1>3, <2>1, KindsDiffer, MatchingType
      <3>2. delivered \o pending = <<>>
        <4>1. delivered \in Seq(1..count)
          BY <1>2, EmptySeq
        <4>2. delivered \o <<>> = delivered
          BY ONLY <4>1, ConcatEmptySeq
        <4> QED
          BY ONLY <1>2, <4>2, Zenon
      <3> QED
        BY <2>1, <3>1, <3>2, Zenon DEF Accounted
    <2>2. CASE kind # "CopcPointStream"
      <3>1. Reach = first
        <4>1. CASE kind \in Decoded
          <5>1. next = 0
            BY <1>2, <4>1, KindsDiffer
          <5> QED
            BY <1>3, <4>1, <5>1 DEF Reach, Least, Most
        <4>2. CASE kind \notin Decoded
          BY <1>1, <1>2, <2>2, <4>2, KindsDiffer DEF Reach
        <4> QED
          BY <4>1, <4>2
      <3>2. Matching(first, first) = <<>>
        <4>1. first <= count /\ first <= first
          BY <1>3
        <4> QED
          BY ONLY <1>1, <1>3, <4>1, MatchingType
      <3> QED
        BY <1>2, <2>2, <3>1, <3>2, Zenon DEF Accounted
    <2> QED
      BY <2>1, <2>2
  <1>6. EndIsValidated
    BY <1>2 DEF EndIsValidated
  <1>7. Contract!Init
    BY <1>2 DEF Contract!Init
  <1>8. FiltersApart => Unfiltered
    BY ReadAssumption DEF Init, Unfiltered, FiltersApart
  <1> QED
    BY <1>1, <1>4, <1>5, <1>6, <1>7, <1>8 DEF IInv

(* Every step preserves the invariant, and keeps the contract.             *)
LEMMA StepInv ==
  ASSUME IInv, [Next]_vars
  PROVE  IInv' /\ (Unfiltered => Unfiltered' /\ Keeps)
  <1>1. UNCHANGED request
    BY DEF Next, Read, ReadRange, PullRange, Decode, DeliverPending, DecodeEntry, OpenEntry,
           Finish, Fail, vars
  <1>2. RequestOK' /\ Unfiltered' = Unfiltered
    BY <1>1, RequestStays DEF IInv
  <1>3. ProgressOK' /\ EndIsValidated' /\ Accounted' /\ (Unfiltered => Keeps)
    <2>1. CASE ReadRange
      BY <2>1, ReadRangeStep
    <2>2. CASE PullRange
      BY <2>2, PullRangeStep
    <2>3. CASE Decode
      BY <2>3, DecodeStep
    <2>4. CASE DeliverPending
      BY <2>4, DeliverPendingStep
    <2>5. CASE DecodeEntry
      BY <2>5, DecodeEntryStep
    <2>6. CASE OpenEntry
      BY <2>6, OpenEntryStep
    <2>7. CASE Finish
      BY <2>7, FinishStep
    <2>8. CASE Fail
      <3>1. UNCHANGED <<request, next, complete, copc, delivered>>
            /\ status = "reading" /\ status' = "error"
        BY <2>8 DEF Fail
      <3> QED
        BY <3>1, FailStep
    <2>9. CASE UNCHANGED vars
      <3>1. UNCHANGED <<request, next, complete, copc, delivered>> /\ status' = status
        BY <2>9 DEF vars
      <3> QED
        BY <3>1, FailStep
    <2> QED
      BY <2>1, <2>2, <2>3, <2>4, <2>5, <2>6, <2>7, <2>8, <2>9 DEF Next, Read
  <1> QED
    BY <1>2, <1>3 DEF IInv

-----------------------------------------------------------------------------
(* The invariant behind the theorems: where a read stands, and that what   *)
(* it read so far was delivered or is held back (ReadNext, ReadPoints, Read). *)
THEOREM Invariant == Spec => []IInv
  <1>1. Init => IInv
    BY InitInv
  <1>2. IInv /\ [Next]_vars => IInv'
    BY StepInv
  <1> QED
    BY <1>1, <1>2, PTL DEF Spec

(* The position of a read stays within its source, a COPC stream holds     *)
(* back no more than one chunk, and only points of the source are          *)
(* delivered: ReadNext of the streams and the readers that call back.      *)
THEOREM TypeCorrect == Spec => []TypeOK
  <1>1. IInv => TypeOK
    <2> SUFFICES ASSUME IInv PROVE TypeOK
      OBVIOUS
    <2>1. left \in 0..count
      <3>1. CASE kind = "CopcPointStream"
        <4>1. /\ entries[1] \in Nat /\ entries[2] \in Nat /\ entries[1] + entries[2] = count
              /\ count \in Nat
          BY <3>1, CopcRequest DEF IInv
        <4>2. Opened <= count /\ Opened \in Nat
          BY <4>1 DEF Opened
        <4> QED
          BY <3>1, <4>1, <4>2 DEF IInv, ProgressOK
      <3>2. CASE kind # "CopcPointStream"
        BY <3>2 DEF IInv, ProgressOK, RequestOK
      <3> QED
        BY <3>1, <3>2
    <2>2. Len(entries) \in Nat
      <3>1. CASE kind = "CopcPointStream"
        BY <3>1, CopcRequest DEF IInv
      <3>2. CASE kind # "CopcPointStream"
        BY <3>2, EmptySeq DEF IInv, RequestOK
      <3> QED
        BY <3>1, <3>2
    <2>3. kind \in Kinds /\ next \in 0..count /\ entry \in 0..Len(entries)
      BY <2>2 DEF IInv, ProgressOK, RequestOK
    <2> QED
      BY <2>1, <2>3, Zenon DEF IInv, ProgressOK, TypeOK
  <1> QED
    BY <1>1, Invariant, PTL

(* A LAZ read that reports its end has decoded what the header counts,     *)
(* also beyond the requested range: ValidateDecodedPointCount, LazReader   *)
(* and LazPointStream.                                                     *)
THEOREM EndValidated == Spec => []EndIsValidated
  <1>1. IInv => EndIsValidated
    BY DEF IInv
  <1> QED
    BY <1>1, Invariant, PTL

(* Every reader delivers the selected points once, in order and in chunks  *)
(* of at most chunkPointLimit points, and reports the end after the last   *)
(* one: each step of a read is a step of PointDelivery or none.  The       *)
(* exception is LasPointStream::ReadNext with filters, which advances by   *)
(* the points that were kept.                                              *)
THEOREM ReadersKeepContract ==
  ASSUME FiltersApart
  PROVE  Spec => KeepsContract
  <1>1. Init => IInv /\ Unfiltered /\ Contract!Init
    BY InitInv
  <1>2. IInv /\ Unfiltered /\ [Next]_vars =>
           IInv' /\ Unfiltered' /\ [Contract!Next]_<<wanted, limit, delivered, status>>
    BY StepInv DEF Keeps
  <1> QED
    BY <1>1, <1>2, PTL DEF Spec, KeepsContract, Contract!Spec

=============================================================================
