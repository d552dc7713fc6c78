-------------------------- MODULE FileFormatReadProofs --------------------------
(***************************************************************************)
(* A read of a layer by any of the plugins.  First the COPC read by itself *)
(* (CopcRead), for a file with any hierarchy: the walk over its pages      *)
(* stays within what the file holds and accepts exactly the sound          *)
(* hierarchies; the tile plan validates, accounts for every point and has  *)
(* the library's forest; a read, tiled or plain, delivers each selected    *)
(* point once.  Then the read as a whole (FileFormatRead): described by    *)
(* one header of its source, with what its arguments ask for, through the  *)
(* cache or directly; the canonical form of its arguments; and its levels  *)
(* of detail.                                                              *)
(***************************************************************************)
EXTENDS FileFormatRead, TilePlansProofs, SequenceTheorems

(* Operators of the model: what is put in an order.                        *)
TotalOrder(S, R) ==
    /\ \A x \in S : <<x, x>> \notin R
    /\ \A x, y, z \in S : <<x, y>> \in R /\ <<y, z>> \in R => <<x, z>> \in R
    /\ \A x, y \in S : x # y => <<x, y>> \in R \/ <<y, x>> \in R

LEMMA InOrderIs ==
  ASSUME NEW S, IsFiniteSet(S), NEW R, TotalOrder(S, R)
  PROVE  LET q == InOrder(S, R)
         IN  /\ q \in Seq(S) /\ Len(q) = Cardinality(S)
             /\ \A i, j \in DOMAIN q : q[i] = q[j] => i = j
             /\ ToSet(q) = S
  <1> DEFINE size == Cardinality(S)
             below(x) == {y \in S : <<y, x>> \in R}
             rank == [x \in S |-> Cardinality(below(x)) + 1]
             q == InOrder(S, R)
  <1>1. size \in Nat
    BY FS_CardinalityType
  <1>2. ASSUME NEW x \in S
        PROVE  /\ IsFiniteSet(below(x)) /\ Cardinality(below(x)) \in Nat
               /\ Cardinality(below(x)) < size
    <2>1. below(x) \in SUBSET S /\ below(x) # S
      BY DEF TotalOrder
    <2> HIDE DEF below
    <2>2. IsFiniteSet(below(x)) /\ Cardinality(below(x)) <= size /\ Cardinality(below(x)) # size
      BY <2>1, FS_Subset
    <2> QED
      BY <1>1, <2>2, FS_CardinalityType
  <1>3. ASSUME NEW x \in S, NEW y \in S, <<x, y>> \in R
        PROVE  Cardinality(below(x)) < Cardinality(below(y))
    <2>1. below(x) \in SUBSET below(y) /\ below(x) # below(y)
      BY <1>3 DEF TotalOrder
    <2> HIDE DEF below
    <2>2. Cardinality(below(x)) <= Cardinality(below(y)) /\ Cardinality(below(x)) # Cardinality(below(y))
      BY <1>2, <2>1, FS_Subset
    <2> QED
      BY <1>2, <2>2
  <1> HIDE DEF below
  <1>4. rank \in Injection(S, 1..size)
    <2>1. ASSUME NEW x \in S PROVE rank[x] \in 1..size
      <3>1. rank[x] = Cardinality(below(x)) + 1
        OBVIOUS
      <3> QED
        BY <1>1, <1>2, <3>1
    <2>2. ASSUME NEW x \in S, NEW y \in S, x # y PROVE rank[x] # rank[y]
      <3>1. <<x, y>> \in R \/ <<y, x>> \in R
        BY <2>2 DEF TotalOrder
      <3>2. Cardinality(below(x)) # Cardinality(below(y))
        BY <1>2, <1>3, <3>1
      <3>3. rank[x] = Cardinality(below(x)) + 1 /\ rank[y] = Cardinality(below(y)) + 1
        OBVIOUS
      <3> QED
        BY <1>2, <3>2, <3>3
    <2>3. rank \in [S -> 1..size]
      BY <2>1
    <2> HIDE DEF rank
    <2> QED
      BY <2>2, <2>3 DEF Injection, IsInjective
  <1>5. rank \in Surjection(S, 1..size)
    <2>1. IsFiniteSet(1..size) /\ Cardinality(1..size) = size
      <3>1. 1 \in Int /\ size \in Int
        BY <1>1
      <3>2. IsFiniteSet(1..size) /\ Cardinality(1..size) = IF 1 > size THEN 0 ELSE size - 1 + 1
        BY ONLY <3>1, FS_Interval
      <3> QED
        BY <1>1, <3>2
    <2> HIDE DEF rank
    <2> QED
      BY <1>4, <2>1, FS_Injection
  <1>6. ASSUME NEW n \in 1..size
        PROVE  q[n] \in S /\ rank[q[n]] = n
    <2>1. PICK x \in S : rank[x] = n
      BY <1>5 DEF Surjection
    <2>2. \A z \in S : rank[z] = Cardinality(below(z)) + 1 /\ Cardinality(below(z)) \in Nat
      BY <1>2
    <2> HIDE DEF rank
    <2>3. Cardinality(below(x)) = n - 1
      BY <2>1, <2>2
    <2>4. q[n] = CHOOSE z \in S : Cardinality(below(z)) = n - 1
      BY DEF InOrder, below
    <2> HIDE DEF q
    <2>5. q[n] \in S /\ Cardinality(below(q[n])) = n - 1
      BY <2>3, <2>4
    <2> QED
      BY <2>2, <2>5
  <1>7. DOMAIN q = 1..size /\ q = [n \in 1..size |-> q[n]]
    <2> DEFINE at(n) == CHOOSE x \in S : Cardinality(below(x)) = n - 1
    <2>1. q = [n \in 1..size |-> at(n)]
      BY DEF InOrder, below
    <2> HIDE DEF at, q
    <2> QED
      BY <2>1
  <1> HIDE DEF q, rank
  <1>8. q \in Seq(S) /\ Len(q) = size
    BY <1>1, <1>6, <1>7
  <1>9. \A i, j \in DOMAIN q : q[i] = q[j] => i = j
    BY <1>6, <1>7
  <1>10. \A x \in S : rank[x] \in 1..size /\ q[rank[x]] = x
    BY <1>4, <1>6 DEF Injection, IsInjective
  <1>11. ToSet(q) = S
    BY <1>6, <1>7, <1>10 DEF ToSet
  <1> QED
    BY <1>8, <1>9, <1>11 DEF q

LEMMA ByNumberIs ==
  ASSUME NEW n \in Nat, NEW S, S \subseteq 1..n
  PROVE  IsFiniteSet(S) /\ TotalOrder(S, ByNumber(S))
  <1>1. IsFiniteSet(1..n)
    BY FS_Interval
  <1>2. IsFiniteSet(S)
    BY <1>1, FS_Subset
  <1>3. TotalOrder(S, ByNumber(S))
    BY DEF TotalOrder, ByNumber
  <1> QED
    BY <1>2, <1>3

(* Sequences that are joined, headed and extended, as sets.                *)
Apart(s) == \A k, l \in DOMAIN s : s[k] = s[l] => k = l

LEMMA Joined ==
  ASSUME NEW T, NEW s \in Seq(T), NEW t \in Seq(T)
  PROVE  /\ s \o t \in Seq(T)
         /\ ToSet(s \o t) = ToSet(s) \cup ToSet(t)
         /\ Apart(s) /\ Apart(t) /\ ToSet(s) \cap ToSet(t) = {} => Apart(s \o t)
  <1> DEFINE u == s \o t
  <1>1. /\ u \in Seq(T) /\ Len(u) = Len(s) + Len(t)
        /\ Len(s) \in Nat /\ Len(t) \in Nat
        /\ DOMAIN u = 1..Len(u) /\ DOMAIN s = 1..Len(s) /\ DOMAIN t = 1..Len(t)
        /\ \A k \in 1..Len(u) : u[k] = IF k <= Len(s) THEN s[k] ELSE t[k - Len(s)]
    OBVIOUS
  <1> HIDE DEF u
  <1>2. ASSUME NEW k \in DOMAIN t PROVE Len(s) + k \in DOMAIN u /\ u[Len(s) + k] = t[k]
    BY <1>1
  <1>3. ASSUME NEW k \in DOMAIN s PROVE k \in DOMAIN u /\ u[k] = s[k]
    BY <1>1
  <1>4. ASSUME NEW k \in DOMAIN u, ~(k \in DOMAIN s /\ u[k] = s[k])
        PROVE  k - Len(s) \in DOMAIN t /\ u[k] = t[k - Len(s)] /\ k = Len(s) + (k - Len(s))
    BY <1>1, <1>4
  <1>5. ToSet(u) = ToSet(s) \cup ToSet(t)
    BY <1>2, <1>3, <1>4 DEF ToSet
  <1>6. ASSUME Apart(s), Apart(t), ToSet(s) \cap ToSet(t) = {},
               NEW k \in DOMAIN u, NEW l \in DOMAIN u, u[k] = u[l]
        PROVE  k = l
    <2>1. CASE k \in DOMAIN s /\ u[k] = s[k] /\ l \in DOMAIN s /\ u[l] = s[l]
      BY <1>6, <2>1 DEF Apart
    <2>2. CASE ~(k \in DOMAIN s /\ u[k] = s[k]) /\ ~(l \in DOMAIN s /\ u[l] = s[l])
      BY <1>1, <1>4, <1>6, <2>2 DEF Apart
    <2>3. ASSUME NEW i \in DOMAIN s, NEW j \in DOMAIN t, s[i] = t[j] PROVE FALSE
      BY <1>6, <2>3 DEF ToSet
    <2>4. CASE k \in DOMAIN s /\ u[k] = s[k] /\ ~(l \in DOMAIN s /\ u[l] = s[l])
      BY <1>4, <1>6, <2>3, <2>4
    <2>5. CASE ~(k \in DOMAIN s /\ u[k] = s[k]) /\ l \in DOMAIN s /\ u[l] = s[l]
      BY <1>4, <1>6, <2>3, <2>5
    <2> QED
      BY <2>1, <2>2, <2>4, <2>5
  <1> QED
    BY <1>1, <1>5, <1>6 DEF u, Apart

LEMMA Headed ==
  ASSUME NEW T, NEW s \in Seq(T), s # <<>>, Apart(s)
  PROVE  /\ Head(s) \in T /\ Head(s) \in ToSet(s) /\ Tail(s) \in Seq(T) /\ Apart(Tail(s))
         /\ ToSet(Tail(s)) = ToSet(s) \ {Head(s)}
  <1>1. /\ Head(s) = s[1] /\ 1 \in DOMAIN s /\ Tail(s) \in Seq(T) /\ Len(Tail(s)) = Len(s) - 1
        /\ Len(s) \in Nat /\ DOMAIN s = 1..Len(s) /\ DOMAIN Tail(s) = 1..(Len(s) - 1)
        /\ \A k \in 1..(Len(s) - 1) : Tail(s)[k] = s[k + 1]
    OBVIOUS
  <1>2. ASSUME NEW k \in DOMAIN s, k # 1 PROVE k - 1 \in DOMAIN Tail(s) /\ Tail(s)[k - 1] = s[k]
    BY <1>1, <1>2
  <1>3. ASSUME NEW k \in DOMAIN Tail(s) PROVE k + 1 \in DOMAIN s /\ Tail(s)[k] = s[k + 1] /\ k + 1 # 1
    BY <1>1
  <1>4. Apart(Tail(s))
    BY <1>1, <1>3 DEF Apart
  <1>5. ToSet(Tail(s)) = ToSet(s) \ {Head(s)}
    <2>1. ToSet(Tail(s)) \subseteq ToSet(s) \ {s[1]}
      BY <1>1, <1>3 DEF ToSet, Apart
    <2>2. ToSet(s) \ {s[1]} \subseteq ToSet(Tail(s))
      BY <1>1, <1>2 DEF ToSet
    <2> QED
      BY <1>1, <2>1, <2>2
  <1>6. Head(s) \in ToSet(s)
    BY <1>1 DEF ToSet
  <1> QED
    BY <1>1, <1>4, <1>5, <1>6

LEMMA Extended ==
  ASSUME NEW T, NEW s \in Seq(T), NEW x \in T
  PROVE  /\ Append(s, x) \in Seq(T) /\ ToSet(Append(s, x)) = ToSet(s) \cup {x}
  <1>1. /\ DOMAIN Append(s, x) = DOMAIN s \cup {Len(s) + 1} /\ Append(s, x)[Len(s) + 1] = x
        /\ \A k \in DOMAIN s : Append(s, x)[k] = s[k]
    OBVIOUS
  <1> QED
    BY <1>1 DEF ToSet

-----------------------------------------------------------------------------
(* The walk: what is unread of the pages that are open, and the invariant. *)
Size == Len(file.slots)
Pages == [at : Nat \ {0}, len : Nat, next : Nat]
Unread(st) == UNION {{d} \X (st[d].next + 1 .. st[d].len) : d \in DOMAIN st}

Open(st) ==
    /\ st \in Seq(Pages)
    /\ \A d \in DOMAIN st : st[d].next <= st[d].len /\ st[d].at + st[d].len - 1 <= Size

(* Every page that was begun listed or will list one entry per slot, and a *)
(* page is begun once: the pages open and the entries listed are bounded   *)
(* by the pages visited.                                                   *)
WalkInv ==
    /\ file \in Files
    /\ pc \in {"walk", "refused", "listed", "tiles", "plain", "author", "done", "failed"}
    /\ visited \subseteq 1..Size
    /\ total \in 0..file.points
    /\ entries \in Seq(ToSet(file.slots))
    /\ Open(stack)
    /\ pc = "walk" => stack # <<>>
    /\ Len(stack) <= Cardinality(visited)
    /\ Len(entries) + Cardinality(Unread(stack)) <= Size * Cardinality(visited)

LEMMA FileIs ==
  ASSUME NEW f \in Files
  PROVE  /\ Len(f.slots) \in Nat /\ DOMAIN f.slots = 1..Len(f.slots) /\ f.points \in Nat
         /\ \A i \in 1..Len(f.slots) : f.slots[i] \in ToSet(f.slots)
         /\ f.root.at \in 1..Len(f.slots) /\ f.root.len \in Nat
         /\ f.root.at + f.root.len - 1 <= Len(f.slots)
  <1>1. f.slots \in Seq(ToSet(f.slots))
    BY CopcAssumption
  <1>2. Len(f.slots) \in Nat /\ DOMAIN f.slots = 1..Len(f.slots)
    BY <1>1
  <1>3. /\ f.points \in Nat /\ f.root.at \in Nat \ {0} /\ f.root.len \in Nat \ {0}
        /\ f.root.at + f.root.len - 1 \in DOMAIN f.slots
    BY CopcAssumption
  <1> QED
    BY <1>2, <1>3 DEF ToSet

LEMMA SlotIs ==
  ASSUME NEW f \in Files, NEW e \in ToSet(f.slots)
  PROVE  /\ e.tile \in Int \X Int \X Int
         /\ e.kind = "page" => e.at \in Nat \ {0} /\ e.len \in Nat
         /\ e.kind = "data" => e.count \in Nat \ {0}
  BY CopcAssumption

LEMMA ColumnIs ==
  ASSUME NEW d, NEW a \in Int, NEW b \in Int
  PROVE  IsFiniteSet({d} \X (a..b))
  <1>1. IsFiniteSet(a..b)
    BY FS_Interval
  <1>2. IsFiniteSet({d})
    BY FS_Singleton
  <1> QED
    BY <1>1, <1>2, FS_Product

LEMMA FullColumn ==
  ASSUME NEW d, NEW n \in Nat
  PROVE  Cardinality({d} \X (1..n)) = n
  <1>1. IsFiniteSet(1..n) /\ Cardinality(1..n) = n
    <2>1. 1 \in Int /\ n \in Int
      OBVIOUS
    <2>2. IsFiniteSet(1..n) /\ Cardinality(1..n) = IF 1 > n THEN 0 ELSE n - 1 + 1
      BY ONLY <2>1, FS_Interval
    <2> QED
      BY <2>2
  <1> DEFINE S == {d}
             T == 1..n
  <1>2. IsFiniteSet(S) /\ Cardinality(S) = 1
    BY FS_Singleton
  <1>3. IsFiniteSet(T) /\ Cardinality(T) = n
    BY <1>1
  <1> HIDE DEF S, T
  <1>4. Cardinality(S \X T) = Cardinality(S) * Cardinality(T)
    BY <1>2, <1>3, FS_Product
  <1>5. Cardinality(S \X T) = n
    BY <1>2, <1>3, <1>4
  <1> QED
    BY <1>5 DEF S, T

LEMMA UnreadFinite ==
  ASSUME NEW st \in Seq(Pages)
  PROVE  IsFiniteSet(Unread(st)) /\ Cardinality(Unread(st)) \in Nat
  <1> DEFINE column == [d \in DOMAIN st |-> {d} \X (st[d].next + 1 .. st[d].len)]
             all == {column[d] : d \in DOMAIN st}
  <1>1. Len(st) \in Nat /\ DOMAIN st = 1..Len(st)
    OBVIOUS
  <1>2. \A d \in DOMAIN st : IsFiniteSet(column[d])
    <2> SUFFICES ASSUME NEW d \in DOMAIN st
                 PROVE  IsFiniteSet({d} \X (st[d].next + 1 .. st[d].len))
      OBVIOUS
    <2>1. st[d] \in Pages
      OBVIOUS
    <2>2. st[d].next + 1 \in Int /\ st[d].len \in Int
      BY <2>1 DEF Pages
    <2> QED
      BY <2>2, ColumnIs
  <1>3. Unread(st) = UNION all
    BY DEF Unread
  <1>4. column = [d \in 1..Len(st) |-> column[d]]
    BY <1>1
  <1> HIDE DEF column
  <1>5. IsFiniteSet(1..Len(st))
    <2>1. 1 \in Int /\ Len(st) \in Int
      BY <1>1
    <2> QED
      BY ONLY <2>1, FS_Interval
  <1>6. column \in Surjection(1..Len(st), all)
    BY <1>1, <1>4 DEF Surjection
  <1>7. IsFiniteSet(all)
    BY <1>5, <1>6, FS_Surjection
  <1>8. \A T \in all : IsFiniteSet(T)
    BY <1>2
  <1>9. IsFiniteSet(UNION all)
    BY <1>7, <1>8, FS_UNION
  <1> QED
    BY <1>3, <1>9, FS_CardinalityType

LEMMA TopIs ==
  ASSUME file \in Files, Open(stack), stack # <<>>
  PROVE  /\ Len(stack) \in Nat \ {0} /\ Len(stack) \in DOMAIN stack
         /\ Top = stack[Len(stack)] /\ Top \in Pages
         /\ Top.next <= Top.len /\ Top.at + Top.len - 1 <= Size /\ Size \in Nat
  BY FileIs DEF Open, Top, Last, Size

(* One entry of the innermost page is taken.                               *)
LEMMA AdvancedIs ==
  ASSUME file \in Files, Open(stack), stack # <<>>, Walking
  PROVE  /\ Open(Advanced) /\ Len(Advanced) = Len(stack)
         /\ Cardinality(Unread(Advanced)) + 1 = Cardinality(Unread(stack))
         /\ Entry \in ToSet(file.slots)
  <1> DEFINE n == Len(stack)
             p == <<n, Top.next + 1>>
  <1>1. /\ stack \in Seq(Pages) /\ n \in Nat \ {0} /\ n \in DOMAIN stack /\ Top = stack[n]
        /\ Top \in Pages /\ Top.next < Top.len /\ Top.at + Top.len - 1 <= Size /\ Size \in Nat
    BY TopIs DEF Open, Walking
  <1>2. /\ Advanced \in Seq(Pages) /\ DOMAIN Advanced = DOMAIN stack /\ Len(Advanced) = n
        /\ \A d \in DOMAIN stack :
             Advanced[d] = IF d = n THEN [stack[d] EXCEPT !.next = @ + 1] ELSE stack[d]
    <2>1. [stack[n] EXCEPT !.next = @ + 1] \in Pages
      <3>1. stack[n] \in Pages /\ stack[n].next + 1 \in Nat
        BY <1>1 DEF Pages
      <3> QED
        BY <3>1 DEF Pages
    <2> QED
      BY <1>1, <2>1 DEF Advanced
  <1>3. /\ Advanced[n].next = Top.next + 1 /\ Advanced[n].len = Top.len /\ Advanced[n].at = Top.at
    BY <1>1, <1>2 DEF Pages
  <1>4. Open(Advanced)
    <2>1. Advanced[n].next <= Advanced[n].len /\ Advanced[n].at + Advanced[n].len - 1 <= Size
      BY <1>1, <1>3 DEF Pages
    <2>2. \A d \in DOMAIN stack : d # n => Advanced[d] = stack[d]
      BY <1>2
    <2> QED
      BY <1>2, <2>1, <2>2 DEF Open
  <1>5. Unread(stack) = Unread(Advanced) \cup {p} /\ p \notin Unread(Advanced)
    <2> DEFINE col(st, d) == {d} \X (st[d].next + 1 .. st[d].len)
    <2>1. \A d \in DOMAIN stack : d # n => col(Advanced, d) = col(stack, d)
      BY <1>2
    <2>2. col(stack, n) = col(Advanced, n) \cup {p}
      BY <1>1, <1>3 DEF Pages
    <2>3. p \notin col(Advanced, n)
      BY <1>1, <1>3 DEF Pages
    <2>4. \A d \in DOMAIN stack : d # n => p \notin col(Advanced, d)
      OBVIOUS
    <2>5. Unread(stack) = UNION {col(stack, d) : d \in DOMAIN stack}
      BY DEF Unread
    <2>6. Unread(Advanced) = UNION {col(Advanced, d) : d \in DOMAIN stack}
      BY <1>2 DEF Unread
    <2> HIDE DEF col, p
    <2> QED
      BY <1>1, <2>1, <2>2, <2>3, <2>4, <2>5, <2>6
  <1>6. Cardinality(Unread(Advanced)) + 1 = Cardinality(Unread(stack))
    <2>1. IsFiniteSet(Unread(Advanced)) /\ Cardinality(Unread(Advanced)) \in Nat
      BY <1>2, UnreadFinite
    <2> HIDE DEF p
    <2> QED
      BY <1>5, <2>1, FS_AddElement
  <1>7. Top.at + Top.next \in 1..Size
    BY <1>1 DEF Pages
  <1>8. Entry \in ToSet(file.slots)
    BY <1>7, FileIs DEF Entry, Size
  <1> QED
    BY <1>2, <1>4, <1>6, <1>8

(* A page is begun.                                                        *)
LEMMA PushedIs ==
  ASSUME NEW st, Open(st), NEW a \in Nat \ {0}, NEW len \in Nat, a + len - 1 <= Size
  PROVE  LET more == Append(st, [at |-> a, len |-> len, next |-> 0])
         IN  /\ Open(more) /\ Len(more) = Len(st) + 1
             /\ Cardinality(Unread(more)) = Cardinality(Unread(st)) + len
  <1> DEFINE page == [at |-> a, len |-> len, next |-> 0]
             more == Append(st, page)
             n == Len(st)
             new == {n + 1} \X (1..len)
  <1>1. st \in Seq(Pages) /\ n \in Nat /\ DOMAIN st = 1..n
    BY DEF Open
  <1>2. page \in Pages
    BY DEF Pages
  <1> HIDE DEF page
  <1>3. /\ more \in Seq(Pages) /\ Len(more) = n + 1 /\ DOMAIN more = DOMAIN st \cup {n + 1}
        /\ more[n + 1] = page /\ \A d \in DOMAIN st : more[d] = st[d]
    BY <1>1, <1>2
  <1>4. page.at = a /\ page.len = len /\ page.next = 0
    BY DEF page
  <1> HIDE DEF more
  <1>5. Open(more)
    BY <1>3, <1>4 DEF Open
  <1>6. Unread(more) = Unread(st) \cup new /\ Unread(st) \cap new = {}
    <2> DEFINE col(s, d) == {d} \X (s[d].next + 1 .. s[d].len)
    <2>1. \A d \in DOMAIN st : col(more, d) = col(st, d)
      BY <1>3
    <2>2. col(more, n + 1) = new
      BY <1>3, <1>4
    <2>3. \A d \in DOMAIN st : col(st, d) \cap new = {}
      BY <1>1
    <2>4. Unread(st) = UNION {col(st, d) : d \in DOMAIN st}
      BY DEF Unread
    <2>5. Unread(more) = UNION {col(more, d) : d \in DOMAIN more}
      BY DEF Unread
    <2> HIDE DEF col, new
    <2> QED
      BY <1>3, <2>1, <2>2, <2>3, <2>4, <2>5
  <1>7. IsFiniteSet(Unread(st)) /\ Cardinality(Unread(st)) \in Nat
    BY <1>1, UnreadFinite
  <1>8. IsFiniteSet(new) /\ Cardinality(new) = len
    <2>1. 1 \in Int /\ len \in Int
      OBVIOUS
    <2> QED
      BY <2>1, ColumnIs, FullColumn
  <1> HIDE DEF new
  <1>9. Cardinality(Unread(st) \cap new) = 0
    BY <1>6, FS_EmptySet
  <1>10. Cardinality(Unread(st) \cup new)
            = Cardinality(Unread(st)) + Cardinality(new) - Cardinality(Unread(st) \cap new)
    BY <1>7, <1>8, FS_Union
  <1>11. Cardinality(Unread(more)) = Cardinality(Unread(st)) + len
    BY <1>6, <1>7, <1>8, <1>9, <1>10
  <1>12. Open(more) /\ Len(more) = Len(st) + 1 /\ Cardinality(Unread(more)) = Cardinality(Unread(st)) + len
    BY <1>3, <1>5, <1>11
  <1> QED
    BY <1>12, Zenon DEF page, more

(* A page that was read to its end is left.                                *)
LEMMA PoppedIs ==
  ASSUME file \in Files, Open(stack), stack # <<>>, Top.next = Top.len
  PROVE  /\ Open(Front(stack)) /\ Len(Front(stack)) = Len(stack) - 1
         /\ Unread(Front(stack)) = Unread(stack)
  <1> DEFINE n == Len(stack)
             less == Front(stack)
  <1>1. stack \in Seq(Pages) /\ n \in Nat \ {0} /\ DOMAIN stack = 1..n /\ Top = stack[n]
    BY TopIs DEF Open
  <1>2. /\ less \in Seq(Pages) /\ Len(less) = n - 1 /\ DOMAIN less = 1..(n - 1)
        /\ \A d \in 1..(n - 1) : less[d] = stack[d]
    BY <1>1 DEF Front
  <1> HIDE DEF less
  <1>3. 1..n = 1..(n - 1) \cup {n}
    BY <1>1
  <1>4. Open(less)
    BY <1>1, <1>2, <1>3 DEF Open
  <1>5. Unread(less) = Unread(stack)
    <2> DEFINE col(s, d) == {d} \X (s[d].next + 1 .. s[d].len)
    <2>1. \A d \in 1..(n - 1) : col(less, d) = col(stack, d)
      BY <1>2
    <2>2. col(stack, n) = {}
      <3>1. Top \in Pages
        BY TopIs
      <3> QED
        BY <1>1, <3>1 DEF Pages
    <2>3. Unread(stack) = UNION {col(stack, d) : d \in 1..n}
      BY <1>1 DEF Unread
    <2>4. Unread(less) = UNION {col(less, d) : d \in 1..(n - 1)}
      BY <1>2 DEF Unread
    <2> HIDE DEF col
    <2> QED
      BY <1>3, <2>1, <2>2, <2>3, <2>4
  <1> QED
    BY <1>2, <1>4, <1>5 DEF less

-----------------------------------------------------------------------------
LEMMA BudgetGrows ==
  ASSUME NEW a \in Nat, NEW b \in Nat, a + 1 <= b, NEW n \in Nat
  PROVE  n * a + n <= n * b /\ n * a \in Nat /\ n * b \in Nat
  <1>1. n * b = n * (a + 1) + n * (b - (a + 1)) /\ n * (a + 1) = n * a + n
    OBVIOUS
  <1>2. n * a \in Nat /\ n * b \in Nat /\ n * (b - (a + 1)) \in Nat
    OBVIOUS
  <1> QED
    BY <1>1, <1>2

LEMMA VisitedIs ==
  ASSUME file \in Files, visited \subseteq 1..Size
  PROVE  /\ IsFiniteSet(visited) /\ Cardinality(visited) \in Nat /\ Cardinality(visited) <= Size
         /\ Size \in Nat
  <1>1. Size \in Nat
    BY FileIs DEF Size
  <1>2. IsFiniteSet(1..Size) /\ Cardinality(1..Size) = Size
    <2>1. 1 \in Int /\ Size \in Int
      BY <1>1
    <2>2. IsFiniteSet(1..Size) /\ Cardinality(1..Size) = IF 1 > Size THEN 0 ELSE Size - 1 + 1
      BY ONLY <2>1, FS_Interval
    <2> QED
      BY <1>1, <2>2
  <1> QED
    BY <1>1, <1>2, FS_Subset, FS_CardinalityType

LEMMA WalkInit == Init => WalkInv
  <1> SUFFICES ASSUME Init PROVE WalkInv
    OBVIOUS
  <1> DEFINE root == [at |-> file.root.at, len |-> file.root.len, next |-> 0]
  <1>1. /\ file \in Files /\ pc = "walk" /\ stack = <<root>> /\ visited = {file.root.at}
        /\ total = 0 /\ entries = <<>>
    BY DEF Init
  <1>2. /\ Size \in Nat /\ file.points \in Nat /\ file.root.at \in 1..Size /\ file.root.len \in Nat
        /\ file.root.at + file.root.len - 1 <= Size
    BY <1>1, FileIs DEF Size
  <1>3. /\ Open(<<>>) /\ Unread(<<>>) = {} /\ Cardinality(Unread(<<>>)) = 0
    <2>1. <<>> \in Seq(Pages) /\ DOMAIN <<>> = {}
      OBVIOUS
    <2>2. Unread(<<>>) = {}
      BY <2>1 DEF Unread
    <2> QED
      BY <2>1, <2>2, FS_EmptySet DEF Open
  <1>4. /\ Open(Append(<<>>, root)) /\ Len(Append(<<>>, root)) = 1
        /\ Cardinality(Unread(Append(<<>>, root))) = file.root.len
    <2>1. file.root.at \in Nat \ {0}
      BY <1>2
    <2>2. /\ Open(Append(<<>>, root)) /\ Len(Append(<<>>, root)) = Len(<<>>) + 1
          /\ Cardinality(Unread(Append(<<>>, root))) = Cardinality(Unread(<<>>)) + file.root.len
      BY <1>2, <1>3, <2>1, PushedIs
    <2>3. Len(<<>>) = 0
      OBVIOUS
    <2> HIDE DEF root
    <2> QED
      BY <1>2, <1>3, <2>2, <2>3
  <1>5. stack = Append(<<>>, root) /\ stack # <<>>
    BY <1>1
  <1> HIDE DEF root
  <1>6. Cardinality(visited) = 1
    BY <1>1, FS_Singleton
  <1>7. Len(stack) <= Cardinality(visited) /\ Open(stack)
    BY <1>4, <1>5, <1>6
  <1>8. Len(entries) + Cardinality(Unread(stack)) <= Size * Cardinality(visited)
    <2>1. Len(entries) = 0 /\ Cardinality(Unread(stack)) = file.root.len
      BY <1>1, <1>4, <1>5
    <2> QED
      BY <1>2, <1>6, <2>1
  <1>9. entries \in Seq(ToSet(file.slots))
    BY <1>1
  <1> QED
    BY <1>1, <1>2, <1>5, <1>7, <1>8, <1>9 DEF WalkInv

(* One more entry of the innermost page is listed. *)
LEMMA TakesInv ==
  ASSUME WalkInv, Walking, stack' = Advanced, entries' = Append(entries, Entry),
         UNCHANGED <<file, pc, visited>>, total' \in 0..file.points
  PROVE  WalkInv'
  <1>1. /\ file \in Files /\ Open(stack) /\ stack # <<>> /\ entries \in Seq(ToSet(file.slots))
        /\ visited \subseteq 1..Size /\ pc = "walk" /\ Len(stack) <= Cardinality(visited)
        /\ Len(entries) + Cardinality(Unread(stack)) <= Size * Cardinality(visited)
    BY DEF WalkInv, Walking
  <1>2. /\ Open(Advanced) /\ Len(Advanced) = Len(stack)
        /\ Cardinality(Unread(Advanced)) + 1 = Cardinality(Unread(stack))
        /\ Entry \in ToSet(file.slots)
    BY <1>1, AdvancedIs
  <1>3. /\ Append(entries, Entry) \in Seq(ToSet(file.slots))
        /\ Len(Append(entries, Entry)) = Len(entries) + 1 /\ Len(entries) \in Nat
    BY <1>1, <1>2
  <1>4. Cardinality(Unread(Advanced)) \in Nat /\ Advanced # <<>>
    BY <1>1, <1>2, UnreadFinite, TopIs DEF Open
  <1>5. Size' = Size /\ Open(stack)' /\ Unread(stack)' = Unread(Advanced)
    <2>1. Size' = Size
      BY DEF Size
    <2> QED
      BY <1>2, <2>1 DEF Open, Unread
  <1>6. Size * Cardinality(visited) \in Nat
    BY <1>1, VisitedIs
  <1>7. Len(entries') + Cardinality(Unread(stack)') <= Size * Cardinality(visited)
    BY <1>1, <1>2, <1>3, <1>4, <1>5, <1>6
  <1> QED
    BY <1>1, <1>2, <1>3, <1>4, <1>5, <1>7 DEF WalkInv

LEMMA TakePageInv == ASSUME WalkInv, TakePage PROVE WalkInv'
  <1> DEFINE page == [at |-> Entry.at, len |-> Entry.len, next |-> 0]
             seen == Cardinality(visited)
             listed == Append(entries, Entry)
  <1>1. /\ file \in Files /\ Open(stack) /\ stack # <<>> /\ entries \in Seq(ToSet(file.slots))
        /\ visited \subseteq 1..Size /\ pc = "walk" /\ Len(stack) <= seen /\ total \in 0..file.points
        /\ Len(entries) + Cardinality(Unread(stack)) <= Size * seen /\ Walking
    BY DEF WalkInv, TakePage, Walking
  <1>2. /\ Open(Advanced) /\ Len(Advanced) = Len(stack) /\ Advanced \in Seq(Pages)
        /\ Cardinality(Unread(Advanced)) + 1 = Cardinality(Unread(stack))
        /\ Entry \in ToSet(file.slots)
    BY <1>1, AdvancedIs DEF Open
  <1>3. /\ Entry.at \in Nat \ {0} /\ Entry.len \in Nat /\ Entry.at \notin visited
        /\ Entry.len > 0 /\ Entry.at + Entry.len - 1 <= Size
    BY <1>1, <1>2, SlotIs DEF TakePage, PageInFile, Size
  <1>4. /\ visited' = visited \cup {Entry.at} /\ stack' = Append(Advanced, page)
        /\ entries' = listed /\ UNCHANGED <<file, pc, total>>
    BY DEF TakePage
  <1>5. /\ Open(Append(Advanced, page)) /\ Len(Append(Advanced, page)) = Len(Advanced) + 1
        /\ Cardinality(Unread(Append(Advanced, page))) = Cardinality(Unread(Advanced)) + Entry.len
    BY <1>2, <1>3, PushedIs
  <1>6. IsFiniteSet(visited) /\ seen \in Nat /\ Size \in Nat
    BY <1>1, VisitedIs
  <1>7. Cardinality(visited') = seen + 1
    BY <1>3, <1>4, <1>6, FS_AddElement
  <1>8. visited' \subseteq 1..Size /\ Entry.len <= Size
    <2>1. Entry.at \in 1..Size /\ Entry.len <= Size
      <3> DEFINE a == Entry.at
                 n == Entry.len
      <3>1. a \in Nat \ {0} /\ n \in Nat /\ n > 0 /\ a + n - 1 <= Size
        BY <1>3
      <3> HIDE DEF a, n
      <3>2. a \in 1..Size /\ n <= Size
        BY <1>6, <3>1
      <3> QED
        BY <3>2 DEF a, n
    <2> QED
      BY <1>1, <1>4, <2>1
  <1>9. listed \in Seq(ToSet(file.slots)) /\ Len(listed) = Len(entries) + 1 /\ Len(entries) \in Nat
    BY <1>1, <1>2
  <1>10. Size * seen + Size <= Size * (seen + 1) /\ Size * seen \in Nat /\ Size * (seen + 1) \in Nat
    BY <1>6, BudgetGrows
  <1>11. Cardinality(Unread(Advanced)) \in Nat /\ Len(stack) \in Nat
    BY <1>1, <1>2, UnreadFinite DEF Open
  <1> HIDE DEF page, listed, seen
  <1>12. stack' # <<>> /\ Len(stack') <= Cardinality(visited')
    BY <1>1, <1>2, <1>4, <1>5, <1>6, <1>7, <1>11
  <1>13. Len(entries') + Cardinality(Unread(stack')) <= Size * Cardinality(visited')
    <2>1. Len(listed) + Cardinality(Unread(Append(Advanced, page))) <= Size * (seen + 1)
      BY <1>1, <1>2, <1>3, <1>5, <1>6, <1>8, <1>9, <1>10, <1>11
    <2> QED
      BY <1>4, <1>7, <2>1
  <1>14. Size' = Size /\ Open(stack)' /\ Unread(stack)' = Unread(stack')
    <2>1. Size' = Size
      BY <1>4 DEF Size
    <2> QED
      BY <1>4, <1>5, <2>1 DEF Open, Unread
  <1> QED
    BY <1>1, <1>4, <1>8, <1>9, <1>12, <1>13, <1>14 DEF WalkInv

LEMMA LeavePageInv == ASSUME WalkInv, LeavePage PROVE WalkInv'
  <1>1. /\ file \in Files /\ Open(stack) /\ Top.next = Top.len /\ Len(stack) > 1 /\ stack' = Front(stack)
        /\ UNCHANGED <<file, pc, visited, total, entries>>
        /\ Len(stack) <= Cardinality(visited) /\ visited \subseteq 1..Size
        /\ Len(entries) + Cardinality(Unread(stack)) <= Size * Cardinality(visited)
    BY DEF WalkInv, LeavePage
  <1>2. stack \in Seq(Pages) /\ stack # <<>> /\ Len(stack) \in Nat
    BY <1>1 DEF Open
  <1>3. /\ Open(Front(stack)) /\ Len(Front(stack)) = Len(stack) - 1
        /\ Unread(Front(stack)) = Unread(stack)
    BY <1>1, <1>2, PoppedIs
  <1>4. Size' = Size /\ Open(stack)' /\ Unread(stack)' = Unread(Front(stack))
    <2>1. Size' = Size
      BY <1>1 DEF Size
    <2> QED
      BY <1>1, <1>3, <2>1 DEF Open, Unread
  <1>5. Cardinality(visited) \in Nat
    BY <1>1, VisitedIs
  <1>6. stack' # <<>> /\ Len(stack') <= Cardinality(visited)
    BY <1>1, <1>2, <1>3, <1>5
  <1>7. Len(entries) + Cardinality(Unread(stack)') <= Size * Cardinality(visited)
    BY <1>1, <1>3, <1>4
  <1> QED
    BY <1>1, <1>4, <1>6, <1>7 DEF WalkInv

LEMMA EmptyStack == Open(<<>>) /\ Len(<<>>) = 0 /\ Cardinality(Unread(<<>>)) = 0
  <1>1. <<>> \in Seq(Pages) /\ DOMAIN <<>> = {} /\ Len(<<>>) = 0
    OBVIOUS
  <1>2. Unread(<<>>) = {}
    BY <1>1 DEF Unread
  <1> QED
    BY <1>1, <1>2, FS_EmptySet DEF Open

LEMMA StopsInv ==
  ASSUME WalkInv, UNCHANGED <<file, visited, total>>,
         pc' \in {"refused", "listed", "tiles", "plain", "author", "done", "failed"},
         stack' = stack \/ stack' = <<>>, entries' = entries \/ entries' = <<>>
  PROVE  WalkInv'
  <1>1. /\ file \in Files /\ Open(stack) /\ entries \in Seq(ToSet(file.slots))
        /\ visited \subseteq 1..Size /\ Len(stack) <= Cardinality(visited)
        /\ Len(entries) + Cardinality(Unread(stack)) <= Size * Cardinality(visited)
    BY DEF WalkInv
  <1>2. Size' = Size
    BY DEF Size
  <1>3. Open(stack)' /\ Len(stack') <= Cardinality(visited) /\ Cardinality(Unread(stack)') \in Nat
        /\ Cardinality(Unread(stack)') <= Cardinality(Unread(stack))
    <2>1. Cardinality(Unread(stack)) \in Nat /\ Cardinality(visited) \in Nat
      BY <1>1, UnreadFinite, VisitedIs DEF Open
    <2>2. CASE stack' = stack
      BY <1>1, <1>2, <2>1, <2>2 DEF Open, Unread
    <2>3. CASE stack' = <<>>
      <3>1. Open(stack)' /\ Unread(stack)' = Unread(<<>>)
        BY <1>2, <2>3, EmptyStack DEF Open, Unread
      <3> QED
        BY <2>1, <2>3, <3>1, EmptyStack
    <2> QED
      BY <2>2, <2>3
  <1>4. entries' \in Seq(ToSet(file.slots)) /\ Len(entries') \in Nat /\ Len(entries') <= Len(entries)
    <2>1. Len(entries) \in Nat /\ Len(<<>>) = 0 /\ <<>> \in Seq(ToSet(file.slots))
      BY <1>1
    <2>2. CASE entries' = entries
      BY <1>1, <2>1, <2>2
    <2>3. CASE entries' = <<>>
      BY <2>1, <2>3
    <2> QED
      BY <2>2, <2>3
  <1>5. Len(entries') + Cardinality(Unread(stack)') <= Size * Cardinality(visited)
    <2>1. Size * Cardinality(visited) \in Nat /\ Len(entries) \in Nat /\ Cardinality(Unread(stack)) \in Nat
      BY <1>1, VisitedIs, UnreadFinite DEF Open
    <2> QED
      BY <1>1, <1>3, <1>4, <2>1
  <1> QED
    BY <1>1, <1>2, <1>3, <1>4, <1>5 DEF WalkInv

LEMMA WalkNext == WalkInv /\ [Next]_vars => WalkInv'
  <1> SUFFICES ASSUME WalkInv, [Next]_vars PROVE WalkInv'
    OBVIOUS
  <1>1. CASE TakePage
    BY <1>1, TakePageInv
  <1>2. CASE TakeData \/ TakeEmpty
    <2>1. /\ Walking /\ stack' = Advanced /\ entries' = Append(entries, Entry)
          /\ UNCHANGED <<file, pc, visited>>
      BY <1>2 DEF TakeData, TakeEmpty
    <2>2. total' \in 0..file.points
      <3>1. file.points \in Nat /\ total \in 0..file.points
        BY FileIs DEF WalkInv
      <3>2. CASE TakeEmpty
        BY <3>1, <3>2 DEF TakeEmpty
      <3>3. CASE TakeData
        <4>1. Entry \in ToSet(file.slots)
          BY <2>1, AdvancedIs DEF WalkInv, Walking
        <4>2. Entry.count \in Nat
          BY <3>3, <4>1, SlotIs DEF WalkInv, TakeData
        <4> QED
          BY <3>1, <3>3, <4>2 DEF TakeData, DataFits
      <3> QED
        BY <1>2, <3>2, <3>3
    <2> QED
      BY <2>1, <2>2, TakesInv
  <1>3. CASE LeavePage
    BY <1>3, LeavePageInv
  <1>4. CASE Refuse \/ LeaveRoot
    BY <1>4, StopsInv DEF Refuse, LeaveRoot
  <1>5. CASE BeginTiles \/ BeginPlain
    <2>1. UNCHANGED walk /\ UNCHANGED file /\ pc' \in {"tiles", "plain", "failed"}
      BY <1>5, Zenon DEF BeginTiles, BeginPlain
    <2> QED
      BY <2>1, StopsInv DEF walk
  <1>6. CASE ReadTile \/ TileFails \/ EndTiles \/ ReadChunk \/ ChunkFails \/ EndPlain \/ Author
    <2>1. UNCHANGED <<walk, file>> /\ pc' \in {"tiles", "plain", "author", "done", "failed"}
      BY <1>6 DEF ReadTile, TileFails, EndTiles, ReadChunk, ChunkFails, EndPlain, Author
    <2> QED
      BY <2>1, StopsInv DEF walk
  <1>7. CASE UNCHANGED vars
    BY <1>7 DEF WalkInv, vars, walk, Size, Open, Unread
  <1> QED
    BY <1>1, <1>2, <1>3, <1>4, <1>5, <1>6, <1>7 DEF Next

LEMMA WalkHolds == Spec => []WalkInv
  BY WalkInit, WalkNext, PTL DEF Spec

-----------------------------------------------------------------------------
(* What is read, entry by entry.                                           *)
LEMMA NumbersAre ==
  ASSUME WalkInv
  PROVE  /\ Len(entries) \in Nat /\ Numbers = 1..Len(entries) /\ DataNumbers \subseteq Numbers
         /\ \A i \in Numbers : Tile(i) \in Int \X Int \X Int
         /\ \A i \in DataNumbers : entries[i].count \in Nat \ {0}
  <1>1. file \in Files /\ entries \in Seq(ToSet(file.slots))
    BY DEF WalkInv
  <1>2. Len(entries) \in Nat /\ Numbers = 1..Len(entries) /\ \A i \in Numbers : entries[i] \in ToSet(file.slots)
    BY <1>1 DEF Numbers
  <1>3. \A i \in Numbers : Tile(i) \in Int \X Int \X Int
    BY <1>1, <1>2, SlotIs DEF Tile
  <1>4. \A i \in DataNumbers : entries[i].count \in Nat \ {0}
    BY <1>1, <1>2, SlotIs DEF DataNumbers
  <1> QED
    BY <1>2, <1>3, <1>4 DEF DataNumbers

LEMMA ByTileIs ==
  ASSUME WalkInv, HierarchyIsValid
  PROVE  IsFiniteSet(DataNumbers) /\ TotalOrder(DataNumbers, ByTile(DataNumbers))
  <1>1. IsFiniteSet(DataNumbers)
    BY NumbersAre, ByNumberIs
  <1>2. ASSUME NEW a \in Int \X Int \X Int, NEW b \in Int \X Int \X Int, a # b
        PROVE  Less(a, b) \/ Less(b, a)
    <2>1. a = <<a[1], a[2], a[3]>> /\ b = <<b[1], b[2], b[3]>>
      OBVIOUS
    <2>2. a[1] # b[1] \/ a[2] # b[2] \/ a[3] # b[3]
      BY <1>2, <2>1
    <2>3. {a[1], a[2], a[3], b[1], b[2], b[3]} \subseteq Int
      OBVIOUS
    <2> QED
      BY <2>2, <2>3 DEF Less
  <1>3. ASSUME NEW a \in Int \X Int \X Int PROVE ~Less(a, a)
    BY DEF Less
  <1>4. ASSUME NEW a \in Int \X Int \X Int, NEW b \in Int \X Int \X Int, NEW c \in Int \X Int \X Int,
               Less(a, b), Less(b, c)
        PROVE  Less(a, c)
    <2>1. {a[1], a[2], a[3], b[1], b[2], b[3], c[1], c[2], c[3]} \subseteq Int
      OBVIOUS
    <2> QED
      BY <1>4, <2>1 DEF Less
  <1>5. /\ \A i \in DataNumbers : Tile(i) \in Int \X Int \X Int
        /\ \A i, j \in DataNumbers : Tile(i) = Tile(j) => i = j
    BY NumbersAre DEF HierarchyIsValid
  <1>6. \A i, j \in DataNumbers : <<i, j>> \in ByTile(DataNumbers) <=> Less(Tile(i), Tile(j))
    BY DEF ByTile
  <1>7. TotalOrder(DataNumbers, ByTile(DataNumbers))
    BY <1>2, <1>3, <1>4, <1>5, <1>6 DEF TotalOrder
  <1> QED
    BY <1>1, <1>7

LEMMA SelectedIs ==
  ASSUME WalkInv, NEW i \in DataNumbers
  PROVE  Selected(i) \in Seq({i} \X Nat) /\ Apart(Selected(i))
  <1> DEFINE kept == {n \in 1..entries[i].count : file.chunks[entries[i].at][n] \in request.keep}
             inOrder == InOrder(kept, ByNumber(kept))
  <1>1. entries[i].count \in Nat /\ kept \subseteq 1..entries[i].count
    BY NumbersAre
  <1> HIDE DEF kept
  <1>2. /\ inOrder \in Seq(kept)
        /\ \A k, l \in DOMAIN inOrder : inOrder[k] = inOrder[l] => k = l
    BY <1>1, ByNumberIs, InOrderIs
  <1>3. Selected(i) = [k \in DOMAIN inOrder |-> <<i, inOrder[k]>>]
    BY DEF Selected, kept
  <1> HIDE DEF inOrder
  <1>4. \A k \in DOMAIN inOrder : inOrder[k] \in Nat
    <2>1. \A k \in DOMAIN inOrder : inOrder[k] \in kept
      BY <1>2
    <2>2. kept \subseteq Nat
      BY <1>1
    <2> QED
      BY <2>1, <2>2
  <1>5. Len(inOrder) \in Nat /\ DOMAIN inOrder = 1..Len(inOrder)
    BY <1>2
  <1>6. Selected(i) \in Seq({i} \X Nat)
    BY <1>3, <1>4, <1>5
  <1>7. Apart(Selected(i))
    BY <1>2, <1>3 DEF Apart
  <1> QED
    BY <1>6, <1>7

Reached == UNION {ToSet(Selected(i)) : i \in DataNumbers \ ToSet(queue)}

LoadInv ==
    /\ queue \in Seq(DataNumbers) /\ Apart(queue)
    /\ assets \in Seq(DataNumbers)
    /\ delivered \in Seq(Nat \X Nat)
    /\ pc \in {"walk", "refused", "listed"} => queue = <<>> /\ delivered = <<>> /\ assets = <<>>
    /\ pc \in {"tiles", "plain", "author"} =>
          /\ Apart(delivered)
          /\ ToSet(delivered) = Reached
          /\ request.tiled => \A k \in DOMAIN delivered : delivered[k][1] \in ToSet(assets)
    /\ pc = "plain" => ~request.tiled
    /\ pc = "author" => queue = <<>>

(* One entry more is decoded: its points are new.                          *)
LEMMA DecodesOne ==
  ASSUME WalkInv, LoadInv, pc \in {"tiles", "plain"}, queue # <<>>,
         delivered' = delivered \o Selected(Head(queue)), queue' = Tail(queue),
         UNCHANGED <<file, request, walk>>
  PROVE  /\ Head(queue) \in DataNumbers /\ DataNumbers' = DataNumbers
         /\ queue' \in Seq(DataNumbers) /\ Apart(queue')
         /\ delivered' \in Seq(Nat \X Nat) /\ Apart(delivered')
         /\ ToSet(delivered') = Reached'
         /\ ToSet(delivered') = ToSet(delivered) \cup ToSet(Selected(Head(queue)))
  <1> DEFINE i == Head(queue)
  <1>1. /\ queue \in Seq(DataNumbers) /\ Apart(queue) /\ delivered \in Seq(Nat \X Nat)
        /\ Apart(delivered) /\ ToSet(delivered) = Reached
    BY Zenon DEF LoadInv
  <1>2. /\ i \in DataNumbers /\ i \in ToSet(queue) /\ queue' \in Seq(DataNumbers) /\ Apart(queue')
        /\ ToSet(queue') = ToSet(queue) \ {i}
    <2>1. /\ Head(queue) \in DataNumbers /\ Head(queue) \in ToSet(queue)
          /\ Tail(queue) \in Seq(DataNumbers) /\ Apart(Tail(queue))
          /\ ToSet(Tail(queue)) = ToSet(queue) \ {Head(queue)}
      BY <1>1, Headed
    <2> QED
      BY <2>1, Zenon
  <1>3. DataNumbers' = DataNumbers /\ \A j : Selected(j)' = Selected(j)
    <2>1. UNCHANGED <<entries, file, request>>
      BY Zenon DEF walk
    <2> QED
      BY ONLY <2>1, Zenon DEF DataNumbers, Numbers, Selected
  <1>4. i \in Nat /\ \A j \in DataNumbers : j \in Nat
    BY <1>2, NumbersAre
  <1> HIDE DEF i
  <1>5. ToSet(delivered) \cap ToSet(Selected(i)) = {}
    <2>1. \A j \in DataNumbers : \A p \in ToSet(Selected(j)) : p[1] = j
      <3> SUFFICES ASSUME NEW j \in DataNumbers, NEW k \in DOMAIN Selected(j)
                   PROVE  Selected(j)[k][1] = j
        BY DEF ToSet
      <3>1. Selected(j) \in Seq({j} \X Nat)
        BY SelectedIs
      <3>2. Selected(j)[k] \in {j} \X Nat
        BY <3>1
      <3> QED
        BY <3>2
    <2> QED
      BY <1>1, <1>2, <2>1 DEF Reached
  <1>6. Selected(i) \in Seq(Nat \X Nat) /\ Apart(Selected(i))
    <2>1. Selected(i) \in Seq({i} \X Nat) /\ Apart(Selected(i))
      BY <1>2, SelectedIs
    <2> QED
      BY <1>4, <2>1
  <1>7. /\ delivered' \in Seq(Nat \X Nat) /\ Apart(delivered')
        /\ ToSet(delivered') = ToSet(delivered) \cup ToSet(Selected(i))
    BY <1>1, <1>5, <1>6, Joined DEF i
  <1>8. Reached' = Reached \cup ToSet(Selected(i))
    <2>1. Reached' = UNION {ToSet(Selected(j)) : j \in DataNumbers \ ToSet(queue')}
      BY <1>3 DEF Reached, ToSet
    <2>2. DataNumbers \ ToSet(queue') = (DataNumbers \ ToSet(queue)) \cup {i}
      BY <1>2
    <2> QED
      BY <2>1, <2>2 DEF Reached
  <1> QED
    BY <1>1, <1>2, <1>3, <1>7, <1>8 DEF i

LEMMA LoadInit == Init => LoadInv
  <1> SUFFICES ASSUME Init PROVE LoadInv
    OBVIOUS
  <1>1. /\ queue = <<>> /\ delivered = <<>> /\ assets = <<>> /\ pc = "walk"
    BY DEF Init
  <1>2. Apart(<<>>) /\ <<>> \in Seq(DataNumbers) /\ <<>> \in Seq(Nat \X Nat)
    BY DEF Apart
  <1> QED
    BY <1>1, <1>2 DEF LoadInv

(* Nothing is read yet, or no more.                                        *)
LEMMA LoadIdle ==
  ASSUME LoadInv, UNCHANGED load,
         \/ pc \in {"walk", "refused", "listed"}
         \/ UNCHANGED <<entries, file, request>>,
         \/ pc' \in {"walk", "refused", "listed"} /\ pc \in {"walk", "refused", "listed"}
         \/ pc' \in {"done", "failed"}
  PROVE  LoadInv'
  <1>1. CASE pc \in {"walk", "refused", "listed"}
    <2>1. queue' = <<>> /\ delivered' = <<>> /\ assets' = <<>>
      BY <1>1 DEF LoadInv, load
    <2>2. Apart(queue') /\ queue' \in Seq(DataNumbers') /\ assets' \in Seq(DataNumbers') /\ delivered' \in Seq(Nat \X Nat)
      BY <2>1 DEF Apart
    <2> QED
      BY <2>1, <2>2 DEF LoadInv, Apart
  <1>2. CASE pc \notin {"walk", "refused", "listed"} /\ UNCHANGED <<entries, file, request>>
    <2>1. DataNumbers' = DataNumbers /\ UNCHANGED load
      BY <1>2 DEF DataNumbers, Numbers
    <2> QED
      BY <1>2, <2>1 DEF LoadInv, load, Apart
  <1> QED
    BY <1>1, <1>2

LEMMA BeginInv == ASSUME WalkInv, LoadInv, BeginTiles \/ BeginPlain PROVE LoadInv'
  <1>1. /\ pc = "listed" /\ UNCHANGED <<file, walk, delivered, assets>>
        /\ queue = <<>> /\ delivered = <<>> /\ assets = <<>>
    BY DEF BeginTiles, BeginPlain, LoadInv
  <1>2. DataNumbers' = DataNumbers
    BY <1>1 DEF DataNumbers, Numbers, walk
  <1>3. CASE pc' = "failed" /\ UNCHANGED queue
    <2>1. queue' = <<>> /\ delivered' = <<>> /\ assets' = <<>>
      BY <1>1, <1>3
    <2>2. Apart(queue') /\ queue' \in Seq(DataNumbers') /\ assets' \in Seq(DataNumbers') /\ delivered' \in Seq(Nat \X Nat)
      BY <2>1 DEF Apart
    <2> QED
      BY <1>3, <2>2 DEF LoadInv, Apart
  <1>4. ASSUME pc' \in {"tiles", "plain"}, pc' = "plain" => ~request'.tiled,
               queue' \in Seq(DataNumbers), Apart(queue'), ToSet(queue') = DataNumbers
        PROVE  LoadInv'
    <2>1. ToSet(delivered') = {} /\ DOMAIN delivered' = {} /\ Apart(delivered')
      BY <1>1 DEF ToSet, Apart
    <2>2. Reached' = {}
      <3>1. DataNumbers' \ ToSet(queue') = {}
        BY <1>2, <1>4
      <3>2. Reached' = UNION {ToSet(Selected(i)') : i \in DataNumbers' \ ToSet(queue')}
        BY DEF Reached, ToSet
      <3> QED
        BY <3>1, <3>2
    <2>3. assets' \in Seq(DataNumbers) /\ delivered' \in Seq(Nat \X Nat)
      BY <1>1
    <2> QED
      BY <1>2, <1>4, <2>1, <2>2, <2>3 DEF LoadInv, Apart
  <1>5. CASE BeginTiles /\ ~(pc' = "failed" /\ UNCHANGED queue)
    <2>1. pc' = "tiles" /\ HierarchyIsValid /\ queue' = InOrder(DataNumbers, ByTile(DataNumbers))
      BY <1>5, Zenon DEF BeginTiles, BuildTilePlan
    <2> QED
      BY <1>4, <2>1, ByTileIs, InOrderIs DEF Apart
  <1>6. CASE BeginPlain /\ ~(pc' = "failed" /\ UNCHANGED queue)
    <2>1. /\ pc' = "plain" /\ ~request'.tiled
          /\ queue' = InOrder(DataNumbers, ByNumber(DataNumbers))
      <3>1. pc' = "plain" /\ queue' = InOrder(DataNumbers, ByNumber(DataNumbers))
        BY <1>6, Zenon DEF BeginPlain
      <3>2. request' \in {r \in Requests : ~r.tiled}
        BY <1>6 DEF BeginPlain
      <3> QED
        BY <3>1, <3>2
    <2>2. IsFiniteSet(DataNumbers) /\ TotalOrder(DataNumbers, ByNumber(DataNumbers))
      BY NumbersAre, ByNumberIs
    <2> QED
      BY <1>4, <2>1, <2>2, InOrderIs DEF Apart
  <1> QED
    BY <1>3, <1>5, <1>6

LEMMA ReadTileInv == ASSUME WalkInv, LoadInv, ReadTile PROVE LoadInv'
  <1> DEFINE i == Head(queue)
  <1>1. /\ pc = "tiles" /\ queue # <<>> /\ UNCHANGED <<file, request, pc, walk>>
        /\ delivered' = delivered \o Selected(i) /\ queue' = Tail(queue)
        /\ assets' = IF Selected(i) = <<>> THEN assets ELSE Append(assets, i)
    BY DEF ReadTile
  <1>2. /\ i \in DataNumbers /\ DataNumbers' = DataNumbers
        /\ queue' \in Seq(DataNumbers) /\ Apart(queue')
        /\ delivered' \in Seq(Nat \X Nat) /\ Apart(delivered')
        /\ ToSet(delivered') = Reached'
        /\ ToSet(delivered') = ToSet(delivered) \cup ToSet(Selected(i))
    BY <1>1, DecodesOne
  <1> HIDE DEF i
  <1>3. assets \in Seq(DataNumbers)
    BY DEF LoadInv
  <1>4. /\ assets' \in Seq(DataNumbers) /\ ToSet(assets) \subseteq ToSet(assets')
        /\ Selected(i) # <<>> => i \in ToSet(assets')
    BY <1>1, <1>2, <1>3, Extended
  <1>5. ASSUME request'.tiled, NEW k \in DOMAIN delivered'
        PROVE  delivered'[k][1] \in ToSet(assets')
    <2>1. delivered'[k] \in ToSet(delivered) \cup ToSet(Selected(i))
      BY <1>2 DEF ToSet
    <2>2. CASE delivered'[k] \in ToSet(delivered)
      <3>1. \A l \in DOMAIN delivered : delivered[l][1] \in ToSet(assets)
        BY <1>1, <1>5 DEF LoadInv
      <3> QED
        BY <1>4, <2>2, <3>1 DEF ToSet
    <2>3. CASE delivered'[k] \in ToSet(Selected(i))
      <3>1. PICK l \in DOMAIN Selected(i) : delivered'[k] = Selected(i)[l]
        BY <2>3 DEF ToSet
      <3>2. Selected(i) \in Seq({i} \X Nat)
        BY <1>2, SelectedIs
      <3>3. Selected(i)[l] \in {i} \X Nat /\ Selected(i) # <<>>
        BY <3>1, <3>2
      <3> QED
        BY <1>4, <3>1, <3>3
    <2> QED
      BY <2>1, <2>2, <2>3
  <1> QED
    BY <1>1, <1>2, <1>4, <1>5 DEF LoadInv

LEMMA ReadChunkInv == ASSUME WalkInv, LoadInv, ReadChunk PROVE LoadInv'
  <1>1. /\ pc = "plain" /\ queue # <<>> /\ UNCHANGED <<file, request, pc, walk, assets>>
        /\ delivered' = delivered \o Selected(Head(queue)) /\ queue' = Tail(queue)
    BY DEF ReadChunk
  <1>2. /\ DataNumbers' = DataNumbers
        /\ queue' \in Seq(DataNumbers) /\ Apart(queue')
        /\ delivered' \in Seq(Nat \X Nat) /\ Apart(delivered')
        /\ ToSet(delivered') = Reached'
    BY <1>1, DecodesOne
  <1>3. assets' \in Seq(DataNumbers) /\ ~request'.tiled
    BY <1>1 DEF LoadInv
  <1> QED
    BY <1>1, <1>2, <1>3 DEF LoadInv

(* The last entry has been read.                                           *)
LEMMA EndReadInv == ASSUME LoadInv, EndTiles \/ EndPlain PROVE LoadInv'
  <1>1. /\ pc \in {"tiles", "plain"} /\ queue = <<>> /\ UNCHANGED <<file, request, walk, load>>
        /\ pc' \in {"author", "failed"}
    BY DEF EndTiles, EndPlain
  <1>2. /\ UNCHANGED <<queue, delivered, assets, DataNumbers>>
        /\ \A j : Selected(j)' = Selected(j)
    BY <1>1 DEF DataNumbers, Numbers, Selected, walk, load
  <1>3. Reached' = Reached
    BY <1>2 DEF Reached, ToSet
  <1> QED
    BY <1>1, <1>2, <1>3 DEF LoadInv, Apart, ToSet

LEMMA LoadNext == WalkInv /\ LoadInv /\ [Next]_vars => LoadInv'
  <1> SUFFICES ASSUME WalkInv, LoadInv, [Next]_vars PROVE LoadInv'
    OBVIOUS
  <1>1. CASE Refuse \/ TakePage \/ TakeData \/ TakeEmpty \/ LeavePage \/ LeaveRoot
    <2>1. /\ pc = "walk" /\ pc' \in {"walk", "refused", "listed"} /\ UNCHANGED load
      BY <1>1 DEF Refuse, TakePage, TakeData, TakeEmpty, LeavePage, LeaveRoot, Walking
    <2> QED
      BY <2>1, LoadIdle
  <1>2. CASE BeginTiles \/ BeginPlain
    BY <1>2, BeginInv
  <1>3. CASE ReadTile
    BY <1>3, ReadTileInv
  <1>4. CASE ReadChunk
    BY <1>4, ReadChunkInv
  <1>5. CASE TileFails \/ ChunkFails \/ Author
    <2>1. UNCHANGED <<file, request, walk, load>> /\ pc' \in {"done", "failed"}
      BY <1>5 DEF TileFails, ChunkFails, Author
    <2> QED
      BY <2>1, LoadIdle DEF walk
  <1>6. CASE EndTiles \/ EndPlain
    BY <1>6, EndReadInv
  <1>7. CASE UNCHANGED vars
    <2>1. /\ UNCHANGED <<pc, request, queue, delivered, assets, DataNumbers>>
          /\ \A j : Selected(j)' = Selected(j)
      BY <1>7 DEF DataNumbers, Numbers, Selected, vars, walk, load
    <2>2. Reached' = Reached
      BY <2>1 DEF Reached, ToSet
    <2> QED
      BY <2>1, <2>2 DEF LoadInv, Apart, ToSet
  <1> QED
    BY <1>1, <1>2, <1>3, <1>4, <1>5, <1>6, <1>7 DEF Next

LEMMA LoadHolds == Spec => []LoadInv
  BY WalkHolds, LoadInit, LoadNext, PTL DEF Spec

-----------------------------------------------------------------------------
(* ReadHierarchy of a file whose pages refer to anything, themselves       *)
(* included: the pages that are open at once are no more than its entries, *)
(* what it lists no more than its entries for every page begun, their      *)
(* points no more than the header's; and only entries with point data are  *)
(* decoded and authored.                                                   *)
THEOREM TypeCorrect == Spec => []TypeOK
  <1>1. ASSUME WalkInv, LoadInv PROVE TypeOK
    <2>1. /\ file \in Files /\ visited \subseteq 1..Size /\ total <= file.points /\ Open(stack)
          /\ entries \in Seq(ToSet(file.slots)) /\ Len(stack) <= Cardinality(visited)
          /\ Len(entries) + Cardinality(Unread(stack)) <= Size * Cardinality(visited)
      BY <1>1, FileIs DEF WalkInv
    <2>2. /\ Cardinality(visited) \in Nat /\ Cardinality(visited) <= Size /\ Size \in Nat
          /\ Cardinality(Unread(stack)) \in Nat /\ Len(entries) \in Nat /\ Len(stack) \in Nat
          /\ Size * Cardinality(visited) \in Nat
      BY <2>1, VisitedIs, UnreadFinite DEF Open
    <2>3. Len(stack) <= Size /\ Len(entries) <= Size * Cardinality(visited)
      BY <2>1, <2>2
    <2>4. visited \subseteq DOMAIN file.slots
      BY <2>1, FileIs DEF Size
    <2>5. ToSet(queue) \cup ToSet(assets) \subseteq DataNumbers
      <3>1. queue \in Seq(DataNumbers) /\ assets \in Seq(DataNumbers)
        BY <1>1 DEF LoadInv
      <3> QED
        BY <3>1 DEF ToSet
    <2> QED
      BY <1>1, <2>1, <2>3, <2>4, <2>5 DEF TypeOK, Size, WalkInv
  <1> QED
    BY <1>1, WalkHolds, LoadHolds, PTL

(* A COPC read that comes to authoring, tile by tile (BuildTiledAssets) or *)
(* entry by entry, has each point that IsSelectedPoint keeps exactly once, *)
(* and every tile with such a point is among the assets.                   *)
THEOREM SelectionDelivered == Spec => []DeliversSelection
  <1>1. ASSUME LoadInv PROVE DeliversSelection
    <2> SUFFICES ASSUME pc = "author" PROVE DeliversSelection
      BY DEF DeliversSelection
    <2>1. /\ queue = <<>> /\ Apart(delivered) /\ ToSet(delivered) = Reached
          /\ request.tiled => \A k \in DOMAIN delivered : delivered[k][1] \in ToSet(assets)
      BY <1>1 DEF LoadInv
    <2>2. ToSet(queue) = {}
      BY <2>1 DEF ToSet
    <2>3. Reached = UNION {ToSet(Selected(i)) : i \in DataNumbers}
      BY <2>2 DEF Reached
    <2> QED
      BY <2>1, <2>3 DEF DeliversSelection, Apart
  <1> QED
    BY <1>1, LoadHolds, PTL

-----------------------------------------------------------------------------
(* The points of the entries that are listed, and those of the header.     *)
DataOf(s)   == {i \in DOMAIN s : s[i].kind = "data"}
CountsOf(s) == [i \in DataOf(s) |-> s[i].count]
Held(s)     == SumFunctionOnSet(CountsOf(s), DataOf(s))

Sized(T) == \A x \in T : x.kind = "data" => x.count \in Nat \ {0}

LEMMA HeldNothing == Held(<<>>) = 0
  <1>1. DataOf(<<>>) = {}
    BY DEF DataOf
  <1> QED
    BY <1>1, SumEmpty DEF Held

LEMMA HeldIs ==
  ASSUME NEW T, Sized(T), NEW s \in Seq(T)
  PROVE  /\ IsFiniteSet(DataOf(s)) /\ DataOf(s) \subseteq 1..Len(s)
         /\ \A i \in DataOf(s) : CountsOf(s)[i] \in Nat \ {0} /\ CountsOf(s)[i] = s[i].count
         /\ Held(s) \in Nat
  <1>1. Len(s) \in Nat /\ DOMAIN s = 1..Len(s) /\ \A i \in 1..Len(s) : s[i] \in T
    OBVIOUS
  <1>2. DataOf(s) \subseteq 1..Len(s)
    BY <1>1 DEF DataOf
  <1>3. IsFiniteSet(1..Len(s))
    BY <1>1, FS_Interval
  <1>4. IsFiniteSet(DataOf(s))
    BY <1>2, <1>3, FS_Subset
  <1>5. ASSUME NEW i \in DataOf(s) PROVE CountsOf(s)[i] \in Nat \ {0} /\ CountsOf(s)[i] = s[i].count
    BY <1>1, <1>2 DEF CountsOf, DataOf, Sized
  <1>6. Held(s) \in Nat
    BY <1>4, <1>5, SumIsNat DEF Held
  <1> QED
    BY <1>2, <1>4, <1>5, <1>6

LEMMA HeldNext ==
  ASSUME NEW T, Sized(T), NEW s \in Seq(T), NEW e \in T
  PROVE  Held(Append(s, e)) = Held(s) + IF e.kind = "data" THEN e.count ELSE 0
  <1>1. PICK u \in Seq(T), m \in Nat : u = Append(s, e) /\ m = Len(s) + 1
    <2>1. Append(s, e) \in Seq(T) /\ Len(s) + 1 \in Nat
      OBVIOUS
    <2> QED
      BY <2>1
  <1>2. /\ DOMAIN u = DOMAIN s \cup {m} /\ m \notin DOMAIN s /\ u[m] = e
        /\ \A i \in DOMAIN s : u[i] = s[i]
    BY <1>1
  <1>3. PICK D, f, g : D = DataOf(s) /\ f = CountsOf(s) /\ g = CountsOf(u)
    OBVIOUS
  <1>4. /\ IsFiniteSet(D) /\ \A i \in D : f[i] \in Nat \ {0} /\ f[i] = s[i].count
        /\ Held(s) = SumFunctionOnSet(f, D)
    BY <1>3, HeldIs DEF Held
  <1>5. /\ \A i \in DataOf(u) : g[i] \in Nat \ {0} /\ g[i] = u[i].count
        /\ Held(u) = SumFunctionOnSet(g, DataOf(u)) /\ Held(s) \in Nat
    BY <1>3, HeldIs DEF Held
  <1>6. m \notin D /\ D \subseteq DataOf(u)
    BY <1>2, <1>3 DEF DataOf
  <1>7. SumFunctionOnSet(f, D) = SumFunctionOnSet(g, D)
    <2>1. \A i \in D : f[i] = g[i]
      BY <1>2, <1>3, <1>4, <1>5, <1>6 DEF DataOf
    <2> QED
      BY <1>4, <2>1, SumAgree
  <1>8. CASE e.kind = "data"
    <2>1. DataOf(u) = D \cup {m}
      BY <1>2, <1>3, <1>8 DEF DataOf
    <2>2. SumFunctionOnSet(g, D \cup {m}) = g[m] + SumFunctionOnSet(g, D)
      <3>1. \A y \in D \cup {m} : g[y] \in Nat
        BY <1>5, <2>1
      <3> QED
        BY <1>4, <1>6, <3>1, SumAdd
    <2>3. g[m] = e.count /\ g[m] \in Nat
      BY <1>2, <1>5, <2>1
    <2> QED
      BY <1>1, <1>4, <1>5, <1>7, <1>8, <2>1, <2>2, <2>3
  <1>9. CASE e.kind # "data"
    <2>1. DataOf(u) = D
      BY <1>2, <1>3, <1>9 DEF DataOf
    <2> QED
      BY <1>1, <1>4, <1>5, <1>7, <1>9, <2>1
  <1> QED
    BY <1>8, <1>9

Accounted ==
    /\ pc # "refused" => total = Held(entries)
    /\ pc \notin {"walk", "refused"} => total = file.points

LEMMA SlotsAreSized ==
  ASSUME WalkInv
  PROVE  Sized(ToSet(file.slots)) /\ entries \in Seq(ToSet(file.slots))
  BY SlotIs DEF WalkInv, Sized

LEMMA AccountedNext == WalkInv /\ Accounted /\ [Next]_vars => Accounted'
  <1> SUFFICES ASSUME WalkInv, Accounted, [Next]_vars PROVE Accounted'
    OBVIOUS
  <1>1. CASE TakePage \/ TakeData \/ TakeEmpty
    <2>1. /\ Walking /\ entries' = Append(entries, Entry) /\ pc' = pc /\ pc = "walk"
      BY <1>1 DEF TakePage, TakeData, TakeEmpty, Walking
    <2>2. Entry \in ToSet(file.slots)
      BY <2>1, AdvancedIs DEF WalkInv, Walking
    <2>3. Held(entries') = total + IF Entry.kind = "data" THEN Entry.count ELSE 0
      <3>1. total = Held(entries)
        BY <2>1 DEF Accounted
      <3>2. PICK e \in ToSet(file.slots) : e = Entry
        BY <2>2
      <3>3. Held(Append(entries, e)) = Held(entries) + IF e.kind = "data" THEN e.count ELSE 0
        BY SlotsAreSized, HeldNext
      <3> QED
        BY <2>1, <3>1, <3>2, <3>3
    <2>4. total \in Nat
      BY FileIs DEF WalkInv
    <2>5. total' = Held(entries')
      <3>1. CASE TakeData
        <4>1. total' = total + Entry.count /\ Entry.kind = "data"
          BY <3>1 DEF TakeData
        <4> QED
          BY <2>3, <4>1
      <3>2. CASE TakePage \/ TakeEmpty
        <4>1. total' = total /\ Entry.kind # "data"
          BY <3>2 DEF TakePage, TakeEmpty
        <4> QED
          BY <2>3, <2>4, <4>1
      <3> QED
        BY <1>1, <3>1, <3>2
    <2> QED
      BY <2>1, <2>5 DEF Accounted
  <1>2. CASE LeavePage
    BY <1>2 DEF LeavePage, Accounted
  <1>3. CASE LeaveRoot \/ Refuse
    <2>1. CASE pc' = "refused"
      BY <2>1 DEF Accounted
    <2>2. CASE pc' # "refused"
      BY <1>3, <2>2 DEF LeaveRoot, Refuse, Accounted
    <2> QED
      BY <2>1, <2>2
  <1>4. CASE BeginTiles \/ BeginPlain
    <2>1. UNCHANGED walk /\ UNCHANGED file /\ pc = "listed"
      BY <1>4, Zenon DEF BeginTiles, BeginPlain
    <2> QED
      BY <2>1 DEF walk, Accounted
  <1>5. CASE ReadTile \/ TileFails \/ EndTiles \/ ReadChunk \/ ChunkFails \/ EndPlain \/ Author
    <2>1. UNCHANGED <<walk, file>> /\ pc \in {"tiles", "plain", "author"}
      BY <1>5 DEF ReadTile, TileFails, EndTiles, ReadChunk, ChunkFails, EndPlain, Author
    <2> QED
      BY <2>1 DEF walk, Accounted
  <1>6. CASE UNCHANGED vars
    BY <1>6 DEF vars, walk, Accounted
  <1> QED
    BY <1>1, <1>2, <1>3, <1>4, <1>5, <1>6 DEF Next

LEMMA AccountedHolds == Spec => []Accounted
  <1>1. Init => Accounted
    BY HeldNothing DEF Init, Accounted
  <1> QED
    BY <1>1, WalkHolds, AccountedNext, PTL DEF Spec

-----------------------------------------------------------------------------
(* BuildTilePlan: the plan is a tree with one node for every tile with     *)
(* data and every ancestor of one.                                         *)
Beneath(id) == {n \in DataNumbers : id \in PathTo(Tile(n))}

LEMMA TilesAreCells ==
  ASSUME WalkInv, HierarchyIsValid, NEW i \in Numbers
  PROVE  IsCell(Tile(i)) /\ Tile(i) # NoTile
  <1>1. PICK a \in Int, b \in Int, c \in Int : Tile(i) = <<a, b, c>>
    BY NumbersAre
  <1>2. InGrid(Tile(i))
    BY DEF HierarchyIsValid
  <1>3. a \in 0..31 /\ b \in 0..(2^a - 1) /\ c \in 0..(2^a - 1)
    BY <1>1, <1>2 DEF InGrid
  <1>4. a \in Nat
    BY <1>3
  <1>5. PICK p \in Nat : p = 2^a
    BY <1>4, Powers
  <1>6. b \in Nat /\ c \in Nat /\ b < p /\ c < p
    BY <1>3, <1>5
  <1>7. IsCell(Tile(i))
    BY <1>1, <1>4, <1>5, <1>6 DEF IsCell
  <1> QED
    BY <1>1, <1>4, <1>7 DEF NoTile

LEMMA RequiredIs ==
  ASSUME WalkInv, HierarchyIsValid
  PROVE  /\ IsFiniteSet(Required)
         /\ \A id \in Required : IsCell(id) /\ PathTo(id) \subseteq Required /\ Beneath(id) # {}
         /\ \A id \in DataTiles : id \in Required /\ IsCell(id)
         /\ Required # {} => Root \in Required
  <1>1. ASSUME NEW d \in DataTiles PROVE \E n \in DataNumbers : d = Tile(n) /\ IsCell(d)
    BY NumbersAre, TilesAreCells DEF DataTiles
  <1>2. IsFiniteSet(DataTiles)
    <2>1. [n \in DataNumbers |-> Tile(n)] \in Surjection(DataNumbers, DataTiles)
      BY DEF Surjection, DataTiles
    <2>2. IsFiniteSet(DataNumbers)
      BY NumbersAre, ByNumberIs
    <2> QED
      BY <2>1, <2>2, FS_Surjection
  <1>3. IsFiniteSet(Required)
    <2> DEFINE paths == {PathTo(d) : d \in DataTiles}
    <2>1. [d \in DataTiles |-> PathTo(d)] \in Surjection(DataTiles, paths)
      BY DEF Surjection
    <2>2. IsFiniteSet(paths)
      BY <1>2, <2>1, FS_Surjection
    <2>3. \A p \in paths : IsFiniteSet(p)
      BY <1>1, PathFinite
    <2>4. Required = UNION paths
      BY DEF Required
    <2> HIDE DEF paths
    <2> QED
      BY <2>2, <2>3, <2>4, FS_UNION
  <1>4. ASSUME NEW id \in Required
        PROVE  IsCell(id) /\ PathTo(id) \subseteq Required /\ Beneath(id) # {} /\ Root \in Required
    <2>1. PICK d \in DataTiles : id \in PathTo(d)
      BY DEF Required
    <2>2. PICK n \in DataNumbers : d = Tile(n) /\ IsCell(d)
      BY <1>1
    <2>3. \A a \in PathTo(id) : a \in PathTo(d)
      BY <2>1, <2>2, PathTransitive
    <2>4. IsCell(id) /\ Root \in PathTo(d)
      BY <2>1, <2>2, PathMember, PathEnds
    <2> QED
      BY <2>1, <2>2, <2>3, <2>4 DEF Required, Beneath
  <1>5. ASSUME NEW id \in DataTiles PROVE id \in Required /\ IsCell(id)
    BY <1>1, PathEnds DEF Required
  <1> QED
    BY <1>3, <1>4, <1>5

LEMMA CopcPlanIs ==
  ASSUME NEW id \in Required
  PROVE  /\ CopcPlan[id].count = SumFunctionOnSet([i \in Beneath(id) |-> entries[i].count], Beneath(id))
         /\ CopcPlan[id].box = BoxOf(Cube, id)
         /\ CopcPlan[id].parent = IF id = Root THEN NoTile ELSE ParentOf(id)
         /\ CopcPlan[id].children = ChildrenOf(id) \cap Required
         /\ CopcPlan[id].isLeaf <=> CopcPlan[id].children = {}
  <1>1. PICK B, f : B = Beneath(id) /\ f = [i \in B |-> entries[i].count]
    OBVIOUS
  <1>2. SumFunction(f) = SumFunctionOnSet(f, B)
    <2>1. DOMAIN f = B
      BY <1>1
    <2> QED
      BY <2>1, Zenon DEF SumFunction
  <1>3. CopcPlan[id] = NodeFor(id, ChildrenOf(id) \cap Required)
    BY DEF CopcPlan
  <1>4. CopcPlan[id].count = SumFunction(f)
    BY <1>1, <1>3 DEF NodeFor, Beneath
  <1>5. /\ CopcPlan[id].box = BoxOf(Cube, id)
        /\ CopcPlan[id].parent = IF id = Root THEN NoTile ELSE ParentOf(id)
        /\ CopcPlan[id].children = ChildrenOf(id) \cap Required
        /\ CopcPlan[id].isLeaf <=> CopcPlan[id].children = {}
    <2>1. PICK C, b, p : /\ C = ChildrenOf(id) \cap Required
                         /\ b = BoxOf(Cube, id)
                         /\ p = IF id = Root THEN NoTile ELSE ParentOf(id)
      OBVIOUS
    <2> DEFINE node(s) == [count |-> s, box |-> b, parent |-> p, children |-> C, isLeaf |-> C = {}]
    <2>2. PICK s : CopcPlan[id] = node(s)
      BY <1>3, <2>1, Zenon DEF NodeFor
    <2>3. CopcPlan[id].box = b /\ CopcPlan[id].parent = p /\ CopcPlan[id].children = C
      BY <2>2
    <2>4. CopcPlan[id].isLeaf = node(s).isLeaf
      BY <2>2, Zenon
    <2>5. node(s).isLeaf = (C = {})
      BY Zenon
    <2>6. CopcPlan[id].isLeaf <=> C = {}
      BY <2>4, <2>5, Zenon
    <2> HIDE DEF node
    <2> QED
      BY <2>1, <2>3, <2>6
  <1> QED
    BY <1>1, <1>2, <1>4, <1>5

LEMMA CopcPlanIsTree ==
  ASSUME WalkInv, HierarchyIsValid
  PROVE  IsTree(CopcPlan) /\ DOMAIN CopcPlan = Required
  <1>1. DOMAIN CopcPlan = Required
    BY DEF CopcPlan
  <1>2. ASSUME NEW id \in Required PROVE CopcPlan[id].count > 0
    <2>1. PICK B, f : B = Beneath(id) /\ f = [i \in B |-> entries[i].count]
      OBVIOUS
    <2>2. IsFiniteSet(B) /\ B # {} /\ B \subseteq DataNumbers
      <3>1. B \subseteq DataNumbers /\ IsFiniteSet(DataNumbers)
        BY <2>1, NumbersAre, ByNumberIs DEF Beneath
      <3> QED
        BY <2>1, <3>1, RequiredIs, FS_Subset
    <2>3. \A i \in B : f[i] \in Nat \ {0}
      BY <2>1, <2>2, NumbersAre
    <2>4. SumFunctionOnSet(f, B) > 0
      BY <2>2, <2>3, SumPositive
    <2> QED
      BY <2>1, <2>4, CopcPlanIs
  <1>3. ASSUME NEW id \in Required PROVE Upright(CopcPlan[id].box)
    <2>1. Cube \in Boxes /\ Upright(Cube)
      BY DEF Cube, Boxes, Upright
    <2>2. IsCell(id)
      BY RequiredIs
    <2>3. Upright(BoxOf(Cube, id))
      BY <2>1, <2>2, BoxOfWithin
    <2> QED
      BY <2>3, CopcPlanIs
  <1> QED
    BY <1>1, <1>2, <1>3, RequiredIs, CopcPlanIs DEF IsTree

LEMMA RootHoldsAll ==
  ASSUME WalkInv, HierarchyIsValid, Root \in Required
  PROVE  CopcPlan[Root].count = Held(entries)
  <1>1. \A n \in DataNumbers : Root \in PathTo(Tile(n))
    BY NumbersAre, TilesAreCells, PathEnds
  <1>2. Beneath(Root) = DataNumbers /\ DataOf(entries) = DataNumbers
    BY <1>1 DEF Beneath, DataOf, DataNumbers, Numbers
  <1> QED
    BY <1>2, CopcPlanIs DEF Held, CountsOf

(* BuildTilePlan never fails after its own checks of the hierarchy: the    *)
(* plan validates, and its root accounts for every point of the header.    *)
THEOREM PlansAccountForFiles == Spec => []PlanAccountsForFile
  <1>1. ASSUME WalkInv, Accounted PROVE PlanAccountsForFile
    <2> SUFFICES ASSUME pc = "listed", HierarchyIsValid, AncestorsPresent
                 PROVE  ValidateTilePlan(CopcPlan) /\ CopcPlan[Root].count = file.points
      BY DEF PlanAccountsForFile
    <2>1. ValidateTilePlan(CopcPlan)
      BY <1>1, CopcPlanIsTree, TreeValidates
    <2>2. CopcPlan[Root].count = Held(entries)
      BY <1>1, RequiredIs, RootHoldsAll DEF AncestorsPresent
    <2> QED
      BY <1>1, <2>1, <2>2 DEF Accounted
  <1> QED
    BY <1>1, WalkHolds, AccountedHolds, PTL

-----------------------------------------------------------------------------
(* The tile above a tile: the tiles with data on the way to the root, and  *)
(* how far a climb to the nearest of them has come.                        *)
Up(c)         == (PathTo(c) \ {c}) \cap DataTiles
Nearest(c, a) == a \in Up(c) /\ \A b \in Up(c) : Level(b) <= Level(a)

Climbed(c, v, l) ==
    \/ v = NoTile /\ Up(c) = {}
    \/ Nearest(c, v)
    \/ /\ v \in PathTo(c) /\ v \notin DataTiles /\ Level(v) = l
       /\ \A b \in Up(c) : Level(b) < l

LEMMA UpIs ==
  ASSUME WalkInv, HierarchyIsValid, NEW c \in DataTiles, NEW b \in Up(c)
  PROVE  IsCell(b) /\ Level(b) \in Nat /\ Level(b) < Level(c)
  <1>1. IsCell(c) /\ b \in PathTo(c) /\ b # c
    BY RequiredIs DEF Up
  <1>2. IsCell(b) /\ b[1] \in 0..c[1] /\ b = Above(c, b[1]) /\ c[1] \in Nat
    BY <1>1, PathMember, CellParts
  <1>3. b[1] # c[1]
    BY <1>1, <1>2, AboveSelf
  <1> QED
    BY <1>2, <1>3 DEF Level

(* One step up from a tile that no tile with data lies above or at.        *)
LEMMA StepUp ==
  ASSUME WalkInv, HierarchyIsValid, NEW c \in DataTiles, NEW v \in PathTo(c),
         \A b \in Up(c) : Level(b) < Level(v)
  PROVE  Climbed(c, CopcPlan[v].parent, Level(v) - 1)
  <1>1. IsCell(c) /\ c \in Required /\ v \in Required /\ IsCell(v)
    BY RequiredIs, PathMember
  <1>2. PICK p : p = CopcPlan[v].parent
    OBVIOUS
  <1>3. p = IF v = Root THEN NoTile ELSE ParentOf(v)
    BY <1>1, <1>2, CopcPlanIs
  <1>4. CASE v = Root
    <2>1. Level(v) = 0 /\ p = NoTile
      BY <1>3, <1>4 DEF Level, Root
    <2>2. Up(c) = {}
      <3> SUFFICES ASSUME NEW b \in Up(c) PROVE FALSE
        OBVIOUS
      <3>1. Level(b) \in Nat
        BY UpIs
      <3>2. Level(b) < 0
        BY <2>1
      <3> QED
        BY <3>1, <3>2
    <2> QED
      BY <1>2, <2>1, <2>2 DEF Climbed
  <1>5. CASE v # Root
    <2>1. v[1] \in Nat /\ v[1] > 0
      BY <1>1, <1>5, CellOfLevelZero, CellParts
    <2>2. p = ParentOf(v) /\ IsCell(p) /\ Level(p) = Level(v) - 1 /\ p \in PathTo(v)
      BY <1>1, <1>3, <1>5, <2>1, PathParent DEF Level
    <2>3. p \in PathTo(c) /\ p # c
      <3>1. p \in PathTo(c)
        BY <1>1, <2>2, PathTransitive
      <3>2. Level(v) <= Level(c) /\ Level(c) \in Nat
        BY <1>1, PathMember, CellParts DEF Level
      <3>3. Level(p) < Level(c)
        BY <2>1, <2>2, <3>2 DEF Level
      <3> QED
        BY <3>1, <3>2, <3>3
    <2>4. ASSUME NEW b \in Up(c)
          PROVE  Level(b) <= Level(p) /\ (Level(b) = Level(p) => b = p)
      <3>1. Level(b) \in Nat /\ Level(b) < Level(v) /\ b \in PathTo(c)
        BY UpIs DEF Up
      <3>2. Level(b) <= Level(p)
        BY <2>1, <2>2, <3>1 DEF Level
      <3>3. Level(b) = Level(p) => b = p
        BY <1>1, <2>3, <3>1, PathUnique DEF Level
      <3> QED
        BY <3>2, <3>3
    <2>5. CASE p \in DataTiles
      BY <1>2, <2>3, <2>4, <2>5 DEF Climbed, Nearest, Up
    <2>6. CASE p \notin DataTiles
      <3>1. ASSUME NEW b \in Up(c) PROVE Level(b) < Level(p)
        <4>1. b # p
          BY <2>6 DEF Up
        <4>2. Level(b) \in Nat /\ Level(p) \in Int
          BY <2>1, <2>2, UpIs DEF Level
        <4> QED
          BY <2>4, <4>1, <4>2
      <3> QED
        BY <1>2, <2>2, <2>3, <2>6, <3>1 DEF Climbed
    <2> QED
      BY <2>5, <2>6
  <1> QED
    BY <1>4, <1>5

IsClimb(f, c) ==
    f = [n \in 0..Level(c) |->
            IF n = 0 THEN CopcPlan[c].parent
            ELSE IF f[n - 1] = NoTile \/ f[n - 1] \in DataTiles THEN f[n - 1]
            ELSE CopcPlan[f[n - 1]].parent]

LEMMA ClimbExists ==
  ASSUME WalkInv, HierarchyIsValid, NEW c \in DataTiles
  PROVE  \E f : IsClimb(f, c)
  <1> DEFINE V == {NoTile} \cup Required
             onwards(v) == IF v = NoTile \/ v \in DataTiles THEN v ELSE CopcPlan[v].parent
             g == [v \in V |-> onwards(v)]
             G == [n \in Nat |-> g]
  <1>1. ASSUME NEW v \in Required PROVE CopcPlan[v].parent \in V
    <2>1. IsCell(v) /\ PathTo(v) \subseteq Required
      BY RequiredIs
    <2>2. CASE v = Root
      BY <2>2, CopcPlanIs
    <2>3. CASE v # Root
      <3>1. v[1] > 0
        BY <2>1, <2>3, CellOfLevelZero, CellParts
      <3>2. ParentOf(v) \in Required
        BY <2>1, <3>1, PathParent
      <3> QED
        BY <2>3, <3>2, CopcPlanIs
    <2> QED
      BY <2>2, <2>3
  <1>2. c \in Required /\ IsCell(c) /\ CopcPlan[c].parent \in V
    BY <1>1, RequiredIs
  <1>3. g \in [V -> V]
    <2>1. \A v \in V : onwards(v) \in V
      BY <1>1
    <2> HIDE DEF V, onwards
    <2> QED
      BY <2>1
  <1> HIDE DEF V, g
  <1>4. G \in [Nat -> [V -> V]]
    BY <1>3
  <1>5. PICK h : Follows(h, V, CopcPlan[c].parent, G)
    BY <1>2, <1>4, RecursionExists
  <1>6. /\ h \in [Nat -> V] /\ h[0] = CopcPlan[c].parent
        /\ \A n \in Nat : h[n + 1] = G[n][h[n]]
    BY <1>5 DEF Follows
  <1>7. ASSUME NEW n \in Nat PROVE h[n + 1] = onwards(h[n])
    <2>1. h[n] \in V /\ h[n + 1] = g[h[n]]
      BY <1>6
    <2> HIDE DEF onwards
    <2> QED
      BY <2>1 DEF g
  <1>8. PICK L \in Nat : L = Level(c)
    BY <1>2, CellParts DEF Level
  <1> DEFINE f == [n \in 0..L |-> h[n]]
  <1>9. IsClimb(f, c)
    <2>1. ASSUME NEW n \in 0..L
          PROVE  f[n] = IF n = 0 THEN CopcPlan[c].parent ELSE onwards(f[n - 1])
      <3>1. CASE n = 0
        BY <1>6, <3>1
      <3>2. CASE n # 0
        <4>1. PICK m \in Nat : n = m + 1 /\ n - 1 = m /\ m \in 0..L
          BY <3>2
        <4>2. f[n] = h[m + 1] /\ f[n - 1] = h[m]
          BY <4>1
        <4> HIDE DEF f, onwards
        <4> QED
          BY <1>7, <3>2, <4>1, <4>2
      <3> QED
        BY <3>1, <3>2
    <2>2. f = [n \in 0..L |-> IF n = 0 THEN CopcPlan[c].parent ELSE onwards(f[n - 1])]
      <3>1. DOMAIN f = 0..L /\ f = [n \in 0..L |-> f[n]]
        OBVIOUS
      <3> HIDE DEF f, onwards
      <3> QED
        BY <2>1, <3>1
    <2> HIDE DEF f
    <2> QED
      BY <1>8, <2>2 DEF IsClimb
  <1> QED
    BY <1>9

LEMMA AuthoredParentIs ==
  ASSUME WalkInv, HierarchyIsValid, NEW c \in DataTiles
  PROVE  \/ AuthoredParent(c) = NoTile /\ Up(c) = {}
         \/ Nearest(c, AuthoredParent(c))
  <1> DEFINE climb == CHOOSE f : IsClimb(f, c)
  <1>1. IsClimb(climb, c)
    BY ClimbExists
  <1>2. AuthoredParent(c) = climb[Level(c)]
    BY Zenon DEF AuthoredParent, IsClimb
  <1> HIDE DEF climb
  <1>3. IsCell(c) /\ c \in PathTo(c) /\ c \in Required
    BY RequiredIs, PathEnds
  <1>4. PICK L \in Nat : L = Level(c)
    BY <1>3, CellParts DEF Level
  <1>5. ASSUME NEW n \in 0..L
        PROVE  climb[n] = IF n = 0 THEN CopcPlan[c].parent
                          ELSE IF climb[n - 1] = NoTile \/ climb[n - 1] \in DataTiles THEN climb[n - 1]
                          ELSE CopcPlan[climb[n - 1]].parent
    BY <1>1, <1>4 DEF IsClimb
  <1> DEFINE T == {n \in Nat : n <= L => Climbed(c, climb[n], L - 1 - n)}
  <1>6. 0 \in T
    <2>1. climb[0] = CopcPlan[c].parent
      BY <1>5
    <2>2. \A b \in Up(c) : Level(b) < Level(c)
      BY UpIs
    <2>3. Climbed(c, climb[0], L - 1)
      BY <1>3, <1>4, <2>1, <2>2, StepUp
    <2>4. L - 1 - 0 = L - 1
      BY <1>4
    <2> QED
      BY <2>3, <2>4
  <1>7. ASSUME NEW n \in Nat, n \in T PROVE n + 1 \in T
    <2> SUFFICES ASSUME n + 1 <= L PROVE Climbed(c, climb[n + 1], L - 1 - (n + 1))
      OBVIOUS
    <2>1. Climbed(c, climb[n], L - 1 - n)
      BY <1>4, <1>7
    <2>2. PICK v \in {climb[n]}, l \in Int : v = climb[n] /\ l = L - 1 - n /\ l - 1 = L - 1 - (n + 1)
      BY <1>4
    <2>3. climb[n + 1] = IF v = NoTile \/ v \in DataTiles THEN v ELSE CopcPlan[v].parent
      <3>1. n + 1 \in 0..L /\ n + 1 # 0 /\ (n + 1) - 1 = n
        BY <1>4
      <3> QED
        BY <1>5, <2>2, <3>1
    <2>4. CASE v = NoTile \/ v \in DataTiles
      <3>1. (v = NoTile /\ Up(c) = {}) \/ Nearest(c, v)
        <4>1. NoTile \notin PathTo(c)
          <5>1. ~IsCell(NoTile)
            <6>1. NoTile[1] \notin Nat
              BY DEF NoTile
            <6> QED
              BY <6>1, CellParts
          <5> QED
            BY <1>3, <5>1, PathMember
        <4> QED
          BY <2>1, <2>2, <2>4, <4>1 DEF Climbed
      <3> QED
        BY <2>2, <2>3, <2>4, <3>1 DEF Climbed
    <2>5. CASE ~(v = NoTile \/ v \in DataTiles)
      <3>1. /\ v \in PathTo(c) /\ Level(v) = l /\ \A b \in Up(c) : Level(b) < Level(v)
        BY <2>1, <2>2, <2>5 DEF Climbed, Nearest, Up
      <3>2. Climbed(c, CopcPlan[v].parent, l - 1)
        BY <3>1, StepUp
      <3> QED
        BY <2>2, <2>3, <2>5, <3>2
    <2> QED
      BY <2>4, <2>5
  <1>8. L \in T
    <2> HIDE DEF T
    <2> QED
      BY <1>4, <1>6, <1>7, Induction
  <1>9. Climbed(c, climb[L], -1)
    <2>1. L - 1 - L = -1 /\ L <= L
      BY <1>4
    <2> QED
      BY <1>8, <2>1
  <1>10. ASSUME NEW v \in PathTo(c) PROVE Level(v) # -1
    <2>1. v[1] \in 0..c[1] /\ c[1] \in Nat
      BY <1>3, PathMember, CellParts
    <2> QED
      BY <2>1 DEF Level
  <1> QED
    BY <1>2, <1>4, <1>9, <1>10 DEF Climbed

LEMMA SameChildren ==
  ASSUME WalkInv, HierarchyIsValid, NEW id \in DataTiles
  PROVE  AuthoredChildren(id) = PointTileChildren(id)
  <1>1. ASSUME NEW c \in DataTiles PROVE Nearest(c, id) <=> c \in PointTileChildren(id)
    BY DEF PointTileChildren, Nearest, Up
  <1>2. ASSUME NEW c \in DataTiles PROVE AuthoredParent(c) = id <=> Nearest(c, id)
    <2>1. id # NoTile
      BY NumbersAre, TilesAreCells DEF DataTiles
    <2>2. CASE Nearest(c, id)
      <3>1. PICK a : a = AuthoredParent(c)
        OBVIOUS
      <3>2. Nearest(c, a)
        BY <2>2, <3>1, AuthoredParentIs DEF Nearest
      <3>3. a \in Up(c) /\ id \in Up(c) /\ Level(a) = Level(id)
        <4>1. Level(a) \in Nat /\ Level(id) \in Nat
          BY <2>2, <3>2, UpIs DEF Nearest
        <4> QED
          BY <2>2, <3>2, <4>1 DEF Nearest
      <3>4. IsCell(c)
        BY RequiredIs
      <3>5. a = id
        BY <3>3, <3>4, PathUnique DEF Up, Level
      <3> QED
        BY <2>2, <3>1, <3>5
    <2>3. CASE ~Nearest(c, id)
      BY <2>1, <2>3, AuthoredParentIs
    <2> QED
      BY <2>2, <2>3
  <1> QED
    BY <1>1, <1>2 DEF AuthoredChildren, PointTileChildren

(* Tiles are read from a plan that BuildTilePlan accepted.                 *)
Accepted == pc = "tiles" => HierarchyIsValid

LEMMA AcceptedNext == WalkInv /\ Accepted /\ [Next]_vars => Accepted'
  <1> SUFFICES ASSUME WalkInv, Accepted, [Next]_vars, pc' = "tiles" PROVE HierarchyIsValid'
    BY DEF Accepted
  <1>1. entries' = entries /\ HierarchyIsValid
    <2>1. CASE Refuse \/ TakePage \/ TakeData \/ TakeEmpty \/ LeavePage \/ LeaveRoot
      BY <2>1 DEF Refuse, TakePage, TakeData, TakeEmpty, LeavePage, LeaveRoot, Walking
    <2>2. CASE BeginTiles
      BY <2>2, Zenon DEF BeginTiles, BuildTilePlan, walk
    <2>3. CASE BeginPlain
      <3>1. pc' \in {"plain", "failed"}
        BY <2>3, Zenon DEF BeginPlain
      <3> QED
        BY <3>1
    <2>4. CASE ReadTile \/ TileFails \/ EndTiles \/ ReadChunk \/ ChunkFails \/ EndPlain \/ Author
      <3>1. UNCHANGED walk /\ pc = "tiles"
        BY <2>4 DEF ReadTile, TileFails, EndTiles, ReadChunk, ChunkFails, EndPlain, Author
      <3> QED
        BY <3>1 DEF Accepted, walk
    <2>5. CASE UNCHANGED vars
      BY <2>5 DEF vars, walk, Accepted
    <2> QED
      BY <2>1, <2>2, <2>3, <2>4, <2>5 DEF Next
  <1> QED
    BY <1>1 DEF HierarchyIsValid, Numbers, Tile

(* The forest that BuildPointTiles derives from the hierarchy and the one  *)
(* that BuildTiledAssets climbs to in the plan are the same: a tile's      *)
(* parent is the nearest tile with points above it, over any page and      *)
(* empty entries between.                                                  *)
THEOREM ForestsAgree == Spec => []SameForest
  <1>1. Init => Accepted
    BY DEF Init, Accepted
  <1>2. ASSUME WalkInv, Accepted PROVE SameForest
    BY <1>2, SameChildren DEF SameForest, Accepted
  <1> QED
    BY <1>1, <1>2, WalkHolds, AcceptedNext, PTL DEF Spec

-----------------------------------------------------------------------------
(* The pages of a sound hierarchy, generation by generation.               *)
PageOf(e) == [at |-> e.at, len |-> e.len]

Refs        == [at : Nat \ {0}, len : Nat]
AllPages(f) == {f.root} \cup {PageOf(f.slots[i]) : i \in {s \in DOMAIN f.slots : f.slots[s].kind = "page"}}

Sub(f, page) ==
    IF PageInFile(f, page)
    THEN {[at |-> f.slots[i].at, len |-> f.slots[i].len] :
             i \in {s \in SlotsOf(page) : f.slots[s].kind = "page"}}
    ELSE {}

IsChain(g, f) ==
    g = [n \in 0..Len(f.slots) |->
            IF n = 0 THEN {f.root} ELSE g[n - 1] \cup UNION {Sub(f, p) : p \in g[n - 1]}]

Chain(f) == CHOOSE g : IsChain(g, f)

LEMMA AllPagesAre ==
  ASSUME NEW f \in Files
  PROVE  IsFiniteSet(AllPages(f)) /\ AllPages(f) \subseteq Refs /\ f.root \in AllPages(f)
  <1> DEFINE S == {s \in DOMAIN f.slots : f.slots[s].kind = "page"}
             T == {PageOf(f.slots[i]) : i \in S}
  <1>1. IsFiniteSet(S)
    <2>1. PICK n \in Nat : DOMAIN f.slots = 1..n
      BY FileIs
    <2>2. IsFiniteSet(1..n)
      <3>1. 1 \in Int /\ n \in Int
        OBVIOUS
      <3> QED
        BY <3>1, FS_Interval
    <2>3. S \subseteq 1..n
      BY <2>1
    <2> HIDE DEF S
    <2> QED
      BY <2>2, <2>3, FS_Subset
  <1>2. ASSUME NEW i \in S PROVE PageOf(f.slots[i]) \in Refs
    <2>1. f.slots[i] \in ToSet(f.slots) /\ f.slots[i].kind = "page"
      BY DEF ToSet
    <2>2. f.slots[i].at \in Nat \ {0} /\ f.slots[i].len \in Nat
      BY <2>1, SlotIs
    <2> QED
      BY <2>2 DEF PageOf, Refs
  <1> HIDE DEF S
  <1>3. IsFiniteSet(T)
    <2>1. [i \in S |-> PageOf(f.slots[i])] \in Surjection(S, T)
      BY DEF Surjection
    <2> QED
      BY <1>1, <2>1, FS_Surjection
  <1>4. T \subseteq Refs
    BY <1>2
  <1>5. f.root \in Refs
    <2>1. f.root \in [at : Nat \ {0}, len : Nat \ {0}]
      BY CopcAssumption
    <2> QED
      BY <2>1 DEF Refs
  <1>6. AllPages(f) = {f.root} \cup T
    BY DEF AllPages, S
  <1> HIDE DEF T
  <1>7. IsFiniteSet({f.root} \cup T)
    <2>1. IsFiniteSet(T \cup {f.root})
      BY <1>3, FS_AddElement
    <2>2. T \cup {f.root} = {f.root} \cup T
      OBVIOUS
    <2> QED
      BY <2>1, <2>2
  <1> QED
    BY <1>4, <1>5, <1>6, <1>7

(* The slots of a page that is in the file are slots of the file.          *)
LEMMA PageSlots ==
  ASSUME NEW f \in Files, NEW p \in Refs, PageInFile(f, p), NEW i \in SlotsOf(p)
  PROVE  i \in DOMAIN f.slots /\ f.slots[i] \in ToSet(f.slots)
  <1>1. PICK a \in Nat \ {0}, l \in Nat, n \in Nat :
          a = p.at /\ l = p.len /\ n = Len(f.slots) /\ DOMAIN f.slots = 1..n
    BY FileIs DEF Refs
  <1>2. a + l - 1 <= n /\ i \in a..(a + l - 1)
    BY <1>1 DEF PageInFile, SlotsOf
  <1>3. i \in 1..n
    BY <1>2
  <1> QED
    BY <1>1, <1>3 DEF ToSet

LEMMA SubIs ==
  ASSUME NEW f \in Files, NEW p \in Refs
  PROVE  /\ Sub(f, p) \subseteq AllPages(f)
         /\ PageInFile(f, p) => \A i \in SlotsOf(p) :
               f.slots[i].kind = "page" => PageOf(f.slots[i]) \in Sub(f, p)
         /\ \A q \in Sub(f, p) : \E i \in SlotsOf(p) :
               f.slots[i].kind = "page" /\ q = PageOf(f.slots[i])
  <1>1. ASSUME NEW q \in Sub(f, p)
        PROVE  /\ PageInFile(f, p)
               /\ \E i \in SlotsOf(p) : f.slots[i].kind = "page" /\ q = PageOf(f.slots[i])
    BY DEF Sub, PageOf
  <1>2. Sub(f, p) \subseteq AllPages(f)
    BY <1>1, PageSlots DEF AllPages
  <1> QED
    BY <1>1, <1>2 DEF Sub, PageOf

Wider(f, S) == S \cup UNION {Sub(f, p) : p \in S}

LEMMA ChainExists ==
  ASSUME NEW f \in Files
  PROVE  \E h \in [Nat -> SUBSET AllPages(f)] :
            h[0] = {f.root} /\ \A n \in Nat : h[n + 1] = Wider(f, h[n])
  <1> DEFINE V == SUBSET AllPages(f)
             g == [S \in V |-> Wider(f, S)]
             G == [n \in Nat |-> g]
  <1>1. g \in [V -> V]
    <2>1. ASSUME NEW S \in V PROVE Wider(f, S) \in V
      BY AllPagesAre, SubIs DEF Wider
    <2> HIDE DEF V
    <2> QED
      BY <2>1
  <1>2. {f.root} \in V
    BY AllPagesAre
  <1> HIDE DEF V, g
  <1>3. G \in [Nat -> [V -> V]]
    BY <1>1
  <1>4. PICK h : Follows(h, V, {f.root}, G)
    BY <1>2, <1>3, RecursionExists
  <1>5. h \in [Nat -> V] /\ h[0] = {f.root} /\ \A n \in Nat : h[n + 1] = G[n][h[n]]
    BY <1>4 DEF Follows
  <1>6. ASSUME NEW n \in Nat PROVE h[n + 1] = Wider(f, h[n])
    <2>1. h[n] \in V /\ h[n + 1] = g[h[n]]
      BY <1>5
    <2> QED
      BY <2>1 DEF g
  <1> QED
    BY <1>5, <1>6 DEF V

LEMMA ChainIs ==
  ASSUME NEW f \in Files
  PROVE  /\ PagesOf(f) = Chain(f)[Len(f.slots)]
         /\ Chain(f)[0] = {f.root}
         /\ \A n \in 0..(Len(f.slots) - 1) : Chain(f)[n + 1] = Wider(f, Chain(f)[n])
         /\ \A n \in 0..Len(f.slots) : Chain(f)[n] \subseteq AllPages(f)
  <1>1. PICK L \in Nat : L = Len(f.slots)
    BY FileIs
  <1>2. PICK h \in [Nat -> SUBSET AllPages(f)] :
          h[0] = {f.root} /\ \A n \in Nat : h[n + 1] = Wider(f, h[n])
    BY ChainExists
  <1> DEFINE k == [n \in 0..L |-> h[n]]
  <1>3. IsChain(k, f)
    <2>1. ASSUME NEW n \in 0..L
          PROVE  k[n] = IF n = 0 THEN {f.root} ELSE Wider(f, k[n - 1])
      <3>1. CASE n = 0
        BY <1>2, <3>1
      <3>2. CASE n # 0
        <4>1. PICK m \in Nat : n = m + 1 /\ n - 1 = m /\ m \in 0..L
          BY <3>2
        <4>2. k[n] = h[m + 1] /\ k[n - 1] = h[m]
          BY <4>1
        <4> HIDE DEF k
        <4> QED
          BY <1>2, <3>2, <4>1, <4>2
      <3> QED
        BY <3>1, <3>2
    <2>2. k = [n \in 0..L |-> k[n]]
      OBVIOUS
    <2> HIDE DEF k
    <2>3. k = [n \in 0..L |-> IF n = 0 THEN {f.root} ELSE Wider(f, k[n - 1])]
      BY <2>1, <2>2
    <2> QED
      BY <1>1, <2>3, Zenon DEF IsChain, Wider
  <1> HIDE DEF k
  <1>4. PICK g : g = Chain(f) /\ IsChain(g, f)
    BY <1>3 DEF Chain
  <1>5. PagesOf(f) = g[Len(f.slots)]
    BY <1>4, Zenon DEF Chain, IsChain, PagesOf, Sub
  <1>6. ASSUME NEW n \in 0..L
        PROVE  g[n] = IF n = 0 THEN {f.root} ELSE Wider(f, g[n - 1])
    BY <1>1, <1>4 DEF IsChain, Wider
  <1>7. g[0] = {f.root}
    BY <1>6
  <1>8. ASSUME NEW n \in 0..(L - 1) PROVE g[n + 1] = Wider(f, g[n])
    <2>1. n + 1 \in 0..L /\ n + 1 # 0 /\ (n + 1) - 1 = n
      OBVIOUS
    <2> QED
      BY <1>6, <2>1
  <1> DEFINE T == {n \in Nat : n <= L => g[n] \subseteq AllPages(f)}
  <1>9. 0 \in T
    BY <1>7, AllPagesAre
  <1>10. ASSUME NEW n \in Nat, n \in T PROVE n + 1 \in T
    <2> SUFFICES ASSUME n + 1 <= L PROVE g[n + 1] \subseteq AllPages(f)
      OBVIOUS
    <2>1. g[n] \subseteq AllPages(f) /\ g[n + 1] = Wider(f, g[n])
      BY <1>8, <1>10
    <2> QED
      BY <2>1, AllPagesAre, SubIs DEF Wider
  <1>11. \A n \in 0..L : g[n] \subseteq AllPages(f)
    <2>1. Nat \subseteq T
      <3> HIDE DEF T
      <3> QED
        BY <1>9, <1>10, Induction
    <2> QED
      BY <2>1
  <1> QED
    BY <1>1, <1>4, <1>5, <1>7, <1>8, <1>11

(* Later generations have the earlier ones.                                *)
LEMMA ChainGrows ==
  ASSUME NEW f \in Files, NEW n \in 0..Len(f.slots)
  PROVE  Chain(f)[n] \subseteq PagesOf(f)
  <1>1. PICK L \in Nat : L = Len(f.slots)
    BY FileIs
  <1>2. PICK g : g = Chain(f)
    OBVIOUS
  <1>3. ASSUME NEW m \in 0..(L - 1) PROVE g[m] \subseteq g[m + 1]
    BY <1>1, <1>2, ChainIs DEF Wider
  <1> DEFINE T == {k \in Nat : n + k <= L => g[n] \subseteq g[n + k]}
  <1>4. 0 \in T
    <2>1. n + 0 = n
      BY <1>1
    <2> QED
      BY <2>1
  <1>5. ASSUME NEW k \in Nat, k \in T PROVE k + 1 \in T
    <2> SUFFICES ASSUME n + (k + 1) <= L PROVE g[n] \subseteq g[n + (k + 1)]
      OBVIOUS
    <2>1. n + k \in 0..(L - 1) /\ n + (k + 1) = (n + k) + 1 /\ n + k <= L
      BY <1>1
    <2>2. g[n] \subseteq g[n + k] /\ g[n + k] \subseteq g[(n + k) + 1]
      BY <1>3, <1>5, <2>1
    <2> QED
      BY <2>1, <2>2
  <1>6. PICK k \in Nat : n + k = L
    BY <1>1
  <1>7. k \in T
    <2> HIDE DEF T
    <2> QED
      BY <1>4, <1>5, Induction
  <1>8. g[n] \subseteq g[L]
    <2>1. g[n] \subseteq g[n + k]
      BY <1>1, <1>6, <1>7
    <2> QED
      BY <1>6, <2>1
  <1> QED
    BY <1>1, <1>2, <1>8, ChainIs

(* A set of pages with the root and the pages its members refer to has all *)
(* pages of the hierarchy.                                                 *)
LEMMA ClosedHasAll ==
  ASSUME NEW f \in Files, NEW P, f.root \in P, \A p \in P : Sub(f, p) \subseteq P
  PROVE  PagesOf(f) \subseteq P
  <1>1. PICK L \in Nat : L = Len(f.slots)
    BY FileIs
  <1>2. PICK g : g = Chain(f)
    OBVIOUS
  <1> DEFINE T == {n \in Nat : n <= L => g[n] \subseteq P}
  <1>3. 0 \in T
    BY <1>2, ChainIs
  <1>4. ASSUME NEW n \in Nat, n \in T PROVE n + 1 \in T
    <2> SUFFICES ASSUME n + 1 <= L PROVE g[n + 1] \subseteq P
      OBVIOUS
    <2>1. n \in 0..(L - 1) /\ g[n] \subseteq P
      BY <1>1, <1>4
    <2>2. g[n + 1] = Wider(f, g[n])
      BY <1>1, <1>2, <2>1, ChainIs
    <2> QED
      BY <2>1, <2>2 DEF Wider
  <1>5. L \in T
    <2> HIDE DEF T
    <2> QED
      BY <1>3, <1>4, Induction
  <1> QED
    BY <1>1, <1>2, <1>5, ChainIs

-----------------------------------------------------------------------------
(* Uses of slots by pages: what a set of them must be for the hierarchy to *)
(* be sound, and the points they hold.                                     *)
Uses(P)          == UNION {{<<p, i>> : i \in SlotsOf(p)} : p \in P}
OfKind(f, U, k)  == {u \in U : f.slots[u[2]].kind = k}
PointsAt(f, U)   == [u \in OfKind(f, U, "data") |-> f.slots[u[2]].count]
PointsIn(f, U)   == SumFunctionOnSet(PointsAt(f, U), OfKind(f, U, "data"))

Fine(f, U) ==
    /\ OfKind(f, U, "bad") = {}
    /\ \A u \in OfKind(f, U, "data") : f.slots[u[2]].at \in DOMAIN f.chunks
    /\ \A u \in OfKind(f, U, "page") :
          /\ f.slots[u[2]].at # f.root.at
          /\ \A v \in OfKind(f, U, "page") : f.slots[u[2]].at = f.slots[v[2]].at => u = v

LEMMA WellFormedIs ==
  ASSUME NEW f
  PROVE  WellFormed(f) <=> /\ \A p \in PagesOf(f) : PageInFile(f, p)
                           /\ Fine(f, Uses(PagesOf(f)))
                           /\ PointsIn(f, Uses(PagesOf(f))) = f.points
  <1>1. PICK P, U : P = PagesOf(f) /\ U = Uses(P)
    OBVIOUS
  <1>2. SumFunction(PointsAt(f, U)) = PointsIn(f, U)
    <2>1. DOMAIN PointsAt(f, U) = OfKind(f, U, "data")
      BY DEF PointsAt
    <2> QED
      BY <2>1, Zenon DEF SumFunction, PointsIn
  <1>3. WellFormed(f) <=> /\ \A p \in P : PageInFile(f, p)
                          /\ Fine(f, U)
                          /\ SumFunction(PointsAt(f, U)) = f.points
    BY <1>1, Zenon DEF WellFormed, Uses, Fine, OfKind, PointsAt
  <1> QED
    BY <1>1, <1>2, <1>3

LEMMA UseIs ==
  ASSUME NEW P, NEW p, NEW i
  PROVE  <<p, i>> \in Uses(P) <=> p \in P /\ i \in SlotsOf(p)
  BY DEF Uses

LEMMA UsesAre ==
  ASSUME NEW P, NEW u \in Uses(P)
  PROVE  u = <<u[1], u[2]>> /\ u[1] \in P /\ u[2] \in SlotsOf(u[1])
  <1>1. PICK p \in P : \E i \in SlotsOf(p) : u = <<p, i>>
    BY DEF Uses
  <1> QED
    BY <1>1

(* Pages of the file have finitely many uses, all of its slots.            *)
LEMMA UsesFinite ==
  ASSUME NEW f \in Files, NEW P, P \subseteq AllPages(f), \A p \in P : PageInFile(f, p),
         NEW U, U \subseteq Uses(P)
  PROVE  IsFiniteSet(U) /\ \A u \in U : f.slots[u[2]] \in ToSet(f.slots)
  <1>1. IsFiniteSet(P) /\ P \subseteq Refs
    BY AllPagesAre, FS_Subset
  <1>2. ASSUME NEW u \in U PROVE u[2] \in DOMAIN f.slots /\ f.slots[u[2]] \in ToSet(f.slots)
    BY <1>1, UsesAre, PageSlots
  <1>3. IsFiniteSet(P \X DOMAIN f.slots)
    <2>1. PICK n \in Nat : DOMAIN f.slots = 1..n
      BY FileIs
    <2>2. IsFiniteSet(1..n)
      <3>1. 1 \in Int /\ n \in Int
        OBVIOUS
      <3> QED
        BY <3>1, FS_Interval
    <2> QED
      BY <1>1, <2>1, <2>2, FS_Product
  <1>4. U \subseteq P \X DOMAIN f.slots
    BY <1>2, UsesAre
  <1> QED
    BY <1>2, <1>3, <1>4, FS_Subset

LEMMA PointsAre ==
  ASSUME NEW f \in Files, NEW U, IsFiniteSet(U), \A u \in U : f.slots[u[2]] \in ToSet(f.slots)
  PROVE  /\ IsFiniteSet(OfKind(f, U, "data"))
         /\ \A u \in OfKind(f, U, "data") : /\ PointsAt(f, U)[u] \in Nat \ {0}
                                            /\ PointsAt(f, U)[u] = f.slots[u[2]].count
         /\ PointsIn(f, U) \in Nat
  <1>1. IsFiniteSet(OfKind(f, U, "data"))
    BY FS_Subset DEF OfKind
  <1>2. ASSUME NEW u \in OfKind(f, U, "data")
        PROVE  PointsAt(f, U)[u] \in Nat \ {0} /\ PointsAt(f, U)[u] = f.slots[u[2]].count
    <2>1. f.slots[u[2]] \in ToSet(f.slots) /\ f.slots[u[2]].kind = "data"
      BY DEF OfKind
    <2>2. f.slots[u[2]].count \in Nat \ {0}
      BY <2>1, SlotIs, CopcAssumption
    <2> QED
      BY <2>2 DEF PointsAt
  <1>3. PointsIn(f, U) \in Nat
    BY <1>1, <1>2, SumIsNat DEF PointsIn
  <1> QED
    BY <1>1, <1>2, <1>3

(* The points of a part are no more than those of the whole, and those of  *)
(* one use more are more by its.                                           *)
LEMMA PointsPart ==
  ASSUME NEW f \in Files, NEW W, IsFiniteSet(W), \A u \in W : f.slots[u[2]] \in ToSet(f.slots),
         NEW U, U \subseteq W
  PROVE  PointsIn(f, U) <= PointsIn(f, W)
  <1>1. PICK D, E, g, h : /\ D = OfKind(f, U, "data") /\ E = OfKind(f, W, "data")
                          /\ g = PointsAt(f, U) /\ h = PointsAt(f, W)
    OBVIOUS
  <1>2. IsFiniteSet(U) /\ \A u \in U : f.slots[u[2]] \in ToSet(f.slots)
    BY FS_Subset
  <1>3. IsFiniteSet(E) /\ \A u \in E : h[u] \in Nat /\ h[u] = f.slots[u[2]].count
    BY <1>1, PointsAre
  <1>4. IsFiniteSet(D) /\ \A u \in D : g[u] \in Nat /\ g[u] = f.slots[u[2]].count
    BY <1>1, <1>2, PointsAre
  <1>5. D \in SUBSET E
    BY <1>1 DEF OfKind
  <1>6. SumFunctionOnSet(g, D) = SumFunctionOnSet(h, D)
    <2>1. \A u \in D : g[u] = h[u]
      BY <1>3, <1>4, <1>5
    <2> QED
      BY <1>4, <2>1, SumAgree
  <1>7. SumFunctionOnSet(h, D) <= SumFunctionOnSet(h, E)
    BY <1>3, <1>5, SumOfPart
  <1> QED
    BY <1>1, <1>6, <1>7 DEF PointsIn

LEMMA PointsMore ==
  ASSUME NEW f \in Files, NEW U, NEW x, x \notin U, IsFiniteSet(U),
         \A u \in U \cup {x} : f.slots[u[2]] \in ToSet(f.slots)
  PROVE  PointsIn(f, U \cup {x}) =
            PointsIn(f, U) + IF f.slots[x[2]].kind = "data" THEN f.slots[x[2]].count ELSE 0
  <1>1. PICK W : W = U \cup {x}
    OBVIOUS
  <1>2. PICK D, E, g, h : /\ D = OfKind(f, U, "data") /\ E = OfKind(f, W, "data")
                          /\ g = PointsAt(f, U) /\ h = PointsAt(f, W)
    OBVIOUS
  <1>3. IsFiniteSet(W) /\ \A u \in W : f.slots[u[2]] \in ToSet(f.slots)
    BY <1>1, FS_AddElement
  <1>4. IsFiniteSet(E) /\ \A u \in E : h[u] \in Nat /\ h[u] = f.slots[u[2]].count
    BY <1>2, <1>3, PointsAre
  <1>5. /\ IsFiniteSet(D) /\ \A u \in D : g[u] \in Nat /\ g[u] = f.slots[u[2]].count
        /\ PointsIn(f, U) \in Nat
    BY <1>2, PointsAre
  <1>6. D \subseteq E /\ x \notin D
    BY <1>1, <1>2 DEF OfKind
  <1>7. SumFunctionOnSet(g, D) = SumFunctionOnSet(h, D)
    <2>1. \A u \in D : g[u] = h[u]
      BY <1>4, <1>5, <1>6
    <2> QED
      BY <1>5, <2>1, SumAgree
  <1>8. CASE f.slots[x[2]].kind = "data"
    <2>1. E = D \cup {x}
      BY <1>1, <1>2, <1>8 DEF OfKind
    <2>2. SumFunctionOnSet(h, D \cup {x}) = h[x] + SumFunctionOnSet(h, D)
      <3>1. \A y \in D \cup {x} : h[y] \in Nat
        BY <1>4, <2>1
      <3> QED
        BY <1>5, <1>6, <3>1, SumAdd
    <2>3. h[x] \in Nat /\ h[x] = f.slots[x[2]].count
      BY <1>4, <2>1
    <2>4. PointsIn(f, W) = SumFunctionOnSet(h, E) /\ PointsIn(f, U) = SumFunctionOnSet(g, D)
      BY <1>2 DEF PointsIn
    <2>5. PointsIn(f, W) = h[x] + PointsIn(f, U)
      BY <1>7, <2>1, <2>2, <2>4
    <2> QED
      BY <1>1, <1>5, <1>8, <2>3, <2>5
  <1>9. CASE f.slots[x[2]].kind # "data"
    <2>1. E = D
      BY <1>1, <1>2, <1>9 DEF OfKind
    <2> QED
      BY <1>1, <1>2, <1>5, <1>7, <1>9, <2>1 DEF PointsIn
  <1> QED
    BY <1>8, <1>9

(* A use more, that is fine beside the others.                             *)
Fits(f, U, x) ==
    LET e == f.slots[x[2]]
    IN  /\ e.kind # "bad"
        /\ e.kind = "data" => e.at \in DOMAIN f.chunks
        /\ e.kind = "page" => /\ e.at # f.root.at
                              /\ \A v \in OfKind(f, U, "page") : f.slots[v[2]].at # e.at

LEMMA FineMore ==
  ASSUME NEW f, NEW U, NEW x, Fine(f, U), Fits(f, U, x)
  PROVE  Fine(f, U \cup {x})
  <1>1. OfKind(f, U \cup {x}, "bad") = {}
    BY DEF Fine, Fits, OfKind
  <1>2. \A u \in OfKind(f, U \cup {x}, "data") : f.slots[u[2]].at \in DOMAIN f.chunks
    BY DEF Fine, Fits, OfKind
  <1>3. ASSUME NEW u \in OfKind(f, U \cup {x}, "page")
        PROVE  /\ f.slots[u[2]].at # f.root.at
               /\ \A v \in OfKind(f, U \cup {x}, "page") : f.slots[u[2]].at = f.slots[v[2]].at => u = v
    BY DEF Fine, Fits, OfKind
  <1> QED
    BY <1>1, <1>2, <1>3 DEF Fine

-----------------------------------------------------------------------------
(* The walk so far: the pages begun, and the uses of slots that are        *)
(* already taken.                                                          *)
Rest(e)     == {<<PageOf(e), i>> : i \in (e.at + e.next)..(e.at + e.len - 1)}
Pending(st) == UNION {Rest(st[d]) : d \in DOMAIN st}
Taken(P, st) == Uses(P) \ Pending(st)

OncePerPage(st) == \A d, e \in DOMAIN st : PageOf(st[d]) = PageOf(st[e]) => d = e

(* Every page but the root is there for the one use that refers to it.     *)
Trail(f, P, st, vis, tot) ==
    /\ f.root \in P /\ P \subseteq PagesOf(f)
    /\ \A p \in P : PageInFile(f, p)
    /\ \A p, q \in P : p.at = q.at => p = q
    /\ vis = {p.at : p \in P}
    /\ \A d \in DOMAIN st : PageOf(st[d]) \in P /\ PageOf(st[d]) \in Chain(f)[d - 1]
    /\ OncePerPage(st)
    /\ Fine(f, Taken(P, st))
    /\ \A u \in OfKind(f, Taken(P, st), "page") : PageOf(f.slots[u[2]]) \in P
    /\ \A p \in P : p # f.root =>
          \E u \in OfKind(f, Taken(P, st), "page") : f.slots[u[2]].at = p.at
    /\ tot = PointsIn(f, Taken(P, st))

LEMMA TrailIs ==
  ASSUME NEW f \in Files, NEW P, NEW st, NEW vis, NEW tot, Trail(f, P, st, vis, tot)
  PROVE  /\ P \subseteq AllPages(f) /\ P \subseteq Refs
         /\ IsFiniteSet(Taken(P, st))
         /\ \A u \in Taken(P, st) : f.slots[u[2]] \in ToSet(f.slots)
  <1>1. P \subseteq PagesOf(f) /\ \A p \in P : PageInFile(f, p)
    BY DEF Trail
  <1>2. PagesOf(f) \subseteq AllPages(f)
    <2>1. PICK L \in Nat : L = Len(f.slots)
      BY FileIs
    <2> QED
      BY <2>1, ChainIs
  <1>3. P \subseteq AllPages(f) /\ P \subseteq Refs
    BY <1>1, <1>2, AllPagesAre
  <1>4. Taken(P, st) \subseteq Uses(P)
    BY DEF Taken
  <1> QED
    BY <1>1, <1>3, <1>4, UsesFinite

LEMMA AdvancedAt ==
  ASSUME WalkInv, Walking
  PROVE  /\ Advanced \in Seq(Pages) /\ DOMAIN Advanced = DOMAIN stack /\ Len(Advanced) = Len(stack)
         /\ \A d \in DOMAIN stack : /\ PageOf(Advanced[d]) = PageOf(stack[d])
                                    /\ d # Len(stack) => Advanced[d] = stack[d]
         /\ Advanced[Len(stack)].at = Top.at /\ Advanced[Len(stack)].len = Top.len
         /\ Advanced[Len(stack)].next = Top.next + 1
  <1> DEFINE n == Len(stack)
  <1>1. /\ stack \in Seq(Pages) /\ n \in Nat \ {0} /\ n \in DOMAIN stack /\ Top = stack[n]
        /\ Top \in Pages
    BY TopIs DEF WalkInv, Open, Walking
  <1>2. /\ Advanced \in Seq(Pages) /\ DOMAIN Advanced = DOMAIN stack /\ Len(Advanced) = n
        /\ \A d \in DOMAIN stack :
             Advanced[d] = IF d = n THEN [stack[d] EXCEPT !.next = @ + 1] ELSE stack[d]
    <2>1. [stack[n] EXCEPT !.next = @ + 1] \in Pages
      <3>1. stack[n] \in Pages /\ stack[n].next + 1 \in Nat
        BY <1>1 DEF Pages
      <3> QED
        BY <3>1 DEF Pages
    <2> QED
      BY <1>1, <2>1 DEF Advanced
  <1>3. /\ Advanced[n].next = Top.next + 1 /\ Advanced[n].len = Top.len /\ Advanced[n].at = Top.at
    BY <1>1, <1>2 DEF Pages
  <1>4. ASSUME NEW d \in DOMAIN stack
        PROVE  PageOf(Advanced[d]) = PageOf(stack[d]) /\ (d # n => Advanced[d] = stack[d])
    <2>1. CASE d = n
      BY <1>1, <1>3, <2>1 DEF PageOf
    <2>2. CASE d # n
      BY <1>2, <2>2
    <2> QED
      BY <2>1, <2>2
  <1> QED
    BY <1>2, <1>3, <1>4

(* The entry that is met is the one use less that is pending.              *)
Here == <<PageOf(Top), Top.at + Top.next>>

LEMMA NextUse ==
  ASSUME WalkInv, Walking, OncePerPage(stack)
  PROVE  /\ Here \in Pending(stack) /\ Pending(Advanced) = Pending(stack) \ {Here}
         /\ Here[1] = PageOf(Top) /\ Here[2] \in SlotsOf(PageOf(Top)) /\ file.slots[Here[2]] = Entry
         /\ PageOf(Top) = PageOf(stack[Len(stack)]) /\ Len(stack) \in DOMAIN stack
  <1>1. PICK n \in Nat \ {0} : n = Len(stack) /\ n \in DOMAIN stack /\ Top = stack[n]
    BY TopIs DEF WalkInv, Walking
  <1>2. PICK a \in Nat \ {0}, l \in Nat, k \in Nat : a = Top.at /\ l = Top.len /\ k = Top.next /\ k < l
    <2>1. Top \in Pages
      BY TopIs DEF WalkInv, Walking
    <2> QED
      BY <2>1 DEF Pages, Walking
  <1>3. PICK pg : pg = PageOf(Top) /\ pg.at = a /\ pg.len = l
    <2>1. PageOf(Top) = [at |-> a, len |-> l]
      BY <1>2 DEF PageOf
    <2> QED
      BY <2>1
  <1>4. Here = <<pg, a + k>>
    BY <1>2, <1>3 DEF Here
  <1>5. Rest(stack[n]) = {<<pg, i>> : i \in (a + k)..(a + l - 1)}
    BY <1>1, <1>2, <1>3 DEF Rest
  <1>6. Rest(Advanced[n]) = {<<pg, i>> : i \in (a + (k + 1))..(a + l - 1)}
    BY <1>1, <1>2, <1>3, AdvancedAt DEF Rest
  <1>7. Here \in Rest(stack[n]) /\ Rest(Advanced[n]) = Rest(stack[n]) \ {Here}
    <2>1. (a + (k + 1))..(a + l - 1) = ((a + k)..(a + l - 1)) \ {a + k} /\ a + k \in (a + k)..(a + l - 1)
      BY <1>2
    <2> QED
      BY <1>4, <1>5, <1>6, <2>1
  <1>8. ASSUME NEW d \in DOMAIN stack, d # n
        PROVE  Rest(Advanced[d]) = Rest(stack[d]) /\ Here \notin Rest(stack[d])
    <2>1. PageOf(stack[d]) # pg
      BY <1>1, <1>3, <1>8 DEF OncePerPage
    <2>2. Here[1] = pg
      BY <1>4
    <2> QED
      BY <1>1, <1>8, <2>1, <2>2, AdvancedAt DEF Rest
  <1>9. Pending(Advanced) = Pending(stack) \ {Here}
    <2>1. DOMAIN Advanced = DOMAIN stack
      BY AdvancedAt
    <2> QED
      BY <1>7, <1>8, <2>1 DEF Pending
  <1>10. Here \in Pending(stack)
    BY <1>1, <1>7 DEF Pending
  <1>11. Here[1] = pg /\ Here[2] = a + k /\ a + k \in a..(a + l - 1)
    BY <1>2, <1>4
  <1>12. file.slots[Here[2]] = Entry
    BY <1>2, <1>11 DEF Entry
  <1> QED
    BY <1>1, <1>3, <1>9, <1>10, <1>11, <1>12 DEF SlotsOf

(* What is taken with the entry that is met.                               *)
LEMMA TakenNext ==
  ASSUME WalkInv, Walking, NEW P, Trail(file, P, stack, visited, total)
  PROVE  /\ Here \notin Taken(P, stack) /\ Here \in Uses(P)
         /\ Taken(P, Advanced) = Taken(P, stack) \cup {Here}
         /\ Entry \in ToSet(file.slots)
  <1>1. OncePerPage(stack) /\ \A d \in DOMAIN stack : PageOf(stack[d]) \in P
    BY DEF Trail
  <1>2. Here \in Uses(P)
    <2>1. PageOf(Top) \in P /\ Here[2] \in SlotsOf(PageOf(Top))
      BY <1>1, NextUse
    <2>2. Here = <<PageOf(Top), Here[2]>>
      BY DEF Here
    <2> QED
      BY <2>1, <2>2, UseIs
  <1>3. Entry \in ToSet(file.slots)
    BY AdvancedIs DEF WalkInv, Walking
  <1> QED
    BY <1>1, <1>2, <1>3, NextUse DEF Taken

LEMMA TrailTakes ==
  ASSUME WalkInv, Walking, NEW P, Trail(file, P, stack, visited, total),
         Entry.kind # "page", Entry.kind # "bad", Entry.kind = "data" => Entry.at \in DOMAIN file.chunks,
         NEW t, t = total + IF Entry.kind = "data" THEN Entry.count ELSE 0
  PROVE  Trail(file, P, Advanced, visited, t)
  <1>1. PICK U, W : U = Taken(P, stack) /\ W = Taken(P, Advanced)
    OBVIOUS
  <1>2. file \in Files
    BY DEF WalkInv
  <1>3. /\ Here \notin U /\ W = U \cup {Here} /\ Entry \in ToSet(file.slots)
    BY <1>1, TakenNext
  <1>4. OncePerPage(stack) /\ file.slots[Here[2]] = Entry
    BY NextUse DEF Trail
  <1>5. Fine(file, W)
    <2>1. Fits(file, U, Here)
      BY <1>4 DEF Fits
    <2> QED
      BY <1>1, <1>3, <2>1, FineMore DEF Trail
  <1>6. OfKind(file, W, "page") = OfKind(file, U, "page")
    BY <1>3, <1>4 DEF OfKind
  <1>7. t = PointsIn(file, W)
    <2>1. IsFiniteSet(U) /\ \A u \in U \cup {Here} : file.slots[u[2]] \in ToSet(file.slots)
      BY <1>1, <1>2, <1>3, <1>4, TrailIs
    <2>2. total = PointsIn(file, U)
      BY <1>1 DEF Trail
    <2> QED
      BY <1>2, <1>3, <1>4, <2>1, <2>2, PointsMore
  <1>8. \A d \in DOMAIN Advanced :
           PageOf(Advanced[d]) \in P /\ PageOf(Advanced[d]) \in Chain(file)[d - 1]
    BY AdvancedAt DEF Trail
  <1>9. OncePerPage(Advanced)
    BY <1>4, AdvancedAt DEF OncePerPage
  <1> QED
    BY <1>1, <1>5, <1>6, <1>7, <1>8, <1>9 DEF Trail

LEMMA PageOfIs ==
  ASSUME NEW e
  PROVE  PageOf(e).at = e.at /\ PageOf(e).len = e.len
  BY DEF PageOf

(* A page that is referred to here is one of the hierarchy.                *)
LEMMA ChildIs ==
  ASSUME WalkInv, Walking, NEW P, Trail(file, P, stack, visited, total), Entry.kind = "page"
  PROVE  PageOf(Entry) \in Chain(file)[Len(stack)] /\ PageOf(Entry) \in PagesOf(file)
  <1>1. PICK n \in Nat \ {0}, s \in Nat : n = Len(stack) /\ n \in DOMAIN stack /\ s = Len(file.slots)
    BY TopIs, FileIs DEF WalkInv, Walking
  <1>2. n <= s /\ file \in Files
    <2>1. n <= Cardinality(visited) /\ Cardinality(visited) \in Nat /\ Cardinality(visited) <= s
      BY <1>1, VisitedIs DEF WalkInv, Size
    <2> QED
      BY <1>1, <2>1 DEF WalkInv
  <1>3. PICK t : t = PageOf(Top)
    OBVIOUS
  <1>4. t \in P /\ t \in Chain(file)[n - 1] /\ Here[2] \in SlotsOf(t) /\ file.slots[Here[2]] = Entry
    BY <1>1, <1>3, NextUse DEF Trail
  <1>5. t \in Refs /\ PageInFile(file, t)
    BY <1>2, <1>4, TrailIs DEF Trail
  <1>6. PageOf(Entry) \in Sub(file, t)
    BY <1>2, <1>4, <1>5, SubIs
  <1>7. n - 1 \in 0..(s - 1) /\ (n - 1) + 1 = n /\ n \in 0..s
    BY <1>1, <1>2
  <1>8. Chain(file)[n] = Wider(file, Chain(file)[n - 1])
    BY <1>1, <1>2, <1>7, ChainIs
  <1>9. PageOf(Entry) \in Chain(file)[n]
    BY <1>4, <1>6, <1>8 DEF Wider
  <1> QED
    BY <1>1, <1>2, <1>7, <1>9, ChainGrows

LEMMA TrailPushes ==
  ASSUME WalkInv, Walking, NEW P, Trail(file, P, stack, visited, total),
         Entry.kind = "page", PageInFile(file, Entry), Entry.at \notin visited,
         NEW st, st = Append(Advanced, [at |-> Entry.at, len |-> Entry.len, next |-> 0])
  PROVE  Trail(file, P \cup {PageOf(Entry)}, st, visited \cup {Entry.at}, total)
  <1>1. PICK q, Q, U, W : /\ q = PageOf(Entry) /\ Q = P \cup {q}
                          /\ U = Taken(P, stack) /\ W = Taken(Q, st)
    OBVIOUS
  <1>2. /\ file \in Files /\ q.at = Entry.at /\ q.len = Entry.len
        /\ Entry.at \in Nat \ {0} /\ Entry.len \in Nat
    <2>1. Entry \in ToSet(file.slots) /\ file \in Files
      BY AdvancedIs DEF WalkInv, Walking
    <2> QED
      BY <1>1, <2>1, PageOfIs, SlotIs
  <1>3. q \notin P
    BY <1>2 DEF Trail
  <1>4. PICK e : e = [at |-> Entry.at, len |-> Entry.len, next |-> 0]
    OBVIOUS
  <1>5. e.at = Entry.at /\ e.len = Entry.len /\ e.next = 0 /\ e \in Pages
    BY <1>2, <1>4 DEF Pages
  <1>6. PICK n \in Nat \ {0} : n = Len(stack) /\ DOMAIN stack = 1..n
    BY TopIs DEF WalkInv, Walking, Open
  <1>7. /\ Advanced \in Seq(Pages) /\ DOMAIN Advanced = 1..n /\ Len(Advanced) = n
    BY <1>6, AdvancedAt
  <1>8. /\ DOMAIN st = 1..(n + 1) /\ st[n + 1] = e /\ \A d \in 1..n : st[d] = Advanced[d]
    BY <1>4, <1>5, <1>7
  <1>9. 1..(n + 1) = 1..n \cup {n + 1} /\ n + 1 \notin 1..n
    BY <1>6
  <1>10. PageOf(e) = q
    BY <1>1, <1>5 DEF PageOf
  <1>11. Rest(e) = {<<q, i>> : i \in SlotsOf(q)}
    <2>1. e.at + e.next = q.at /\ e.at + e.len - 1 = q.at + q.len - 1
      BY <1>2, <1>5
    <2> QED
      BY <1>10, <2>1 DEF Rest, SlotsOf
  <1>12. W = U \cup {Here}
    <2>1. Uses(Q) = Uses(P) \cup Rest(e)
      BY <1>1, <1>11 DEF Uses
    <2>2. Pending(st) = Pending(Advanced) \cup Rest(e)
      BY <1>7, <1>8, <1>9 DEF Pending
    <2>3. Rest(e) \cap Uses(P) = {}
      BY <1>3, <1>11, UseIs
    <2>4. W = Taken(P, Advanced)
      BY <1>1, <2>1, <2>2, <2>3 DEF Taken
    <2> QED
      BY <1>1, <2>4, TakenNext
  <1>13. Here \notin U /\ file.slots[Here[2]] = Entry /\ Entry \in ToSet(file.slots)
    BY <1>1, TakenNext, NextUse DEF Trail
  <1>14. file.root \in Q /\ Q \subseteq PagesOf(file)
    BY <1>1, ChildIs DEF Trail
  <1>15. \A p \in Q : PageInFile(file, p)
    <2>1. PageInFile(file, q)
      BY <1>2 DEF PageInFile
    <2> QED
      BY <1>1, <2>1 DEF Trail
  <1>16. /\ \A p, r \in Q : p.at = r.at => p = r
         /\ visited \cup {Entry.at} = {p.at : p \in Q}
    BY <1>1, <1>2 DEF Trail
  <1>17. \A d \in 1..n : PageOf(st[d]) \in P /\ PageOf(st[d]) = PageOf(stack[d])
    BY <1>6, <1>8, AdvancedAt DEF Trail
  <1>18. \A d \in DOMAIN st : PageOf(st[d]) \in Q /\ PageOf(st[d]) \in Chain(file)[d - 1]
    <2>1. ASSUME NEW d \in 1..n PROVE PageOf(st[d]) \in Chain(file)[d - 1]
      BY <1>6, <1>17 DEF Trail
    <2>2. q \in Chain(file)[(n + 1) - 1]
      <3>1. (n + 1) - 1 = n
        BY <1>6
      <3> QED
        BY <1>1, <1>6, <3>1, ChildIs
    <2> QED
      BY <1>1, <1>8, <1>9, <1>10, <1>17, <2>1, <2>2
  <1>19. OncePerPage(st)
    <2>1. OncePerPage(stack)
      BY DEF Trail
    <2> QED
      BY <1>3, <1>6, <1>8, <1>9, <1>10, <1>17, <2>1 DEF OncePerPage
  <1>20. ASSUME NEW v \in OfKind(file, U, "page") PROVE file.slots[v[2]].at \in visited
    <2>1. PageOf(file.slots[v[2]]) \in P
      BY <1>1 DEF Trail
    <2> QED
      BY <2>1, PageOfIs DEF Trail
  <1>21. Fine(file, W)
    <2>1. Entry.at # file.root.at
      BY DEF Trail
    <2>2. Fits(file, U, Here)
      BY <1>13, <1>20, <2>1 DEF Fits
    <2>3. Fine(file, U)
      BY <1>1 DEF Trail
    <2> QED
      BY <1>12, <2>2, <2>3, FineMore
  <1>22. OfKind(file, W, "page") = OfKind(file, U, "page") \cup {Here}
    BY <1>12, <1>13 DEF OfKind
  <1>23. \A u \in OfKind(file, W, "page") : PageOf(file.slots[u[2]]) \in Q
    BY <1>1, <1>13, <1>22 DEF Trail
  <1>24. \A p \in Q : p # file.root => \E u \in OfKind(file, W, "page") : file.slots[u[2]].at = p.at
    <2>1. \E u \in OfKind(file, W, "page") : file.slots[u[2]].at = q.at
      BY <1>2, <1>13, <1>22
    <2> QED
      BY <1>1, <1>22, <2>1 DEF Trail
  <1>25. total = PointsIn(file, W)
    <2>1. IsFiniteSet(U) /\ \A u \in U \cup {Here} : file.slots[u[2]] \in ToSet(file.slots)
      BY <1>1, <1>2, <1>13, TrailIs
    <2>2. total = PointsIn(file, U) /\ total \in Nat
      BY <1>1, <1>2, FileIs DEF Trail, WalkInv
    <2>3. PointsIn(file, U \cup {Here}) = PointsIn(file, U) + 0
      <3>1. file.slots[Here[2]].kind # "data"
        BY <1>13
      <3> QED
        BY <1>2, <1>13, <2>1, <3>1, PointsMore
    <2> QED
      BY <1>12, <2>2, <2>3
  <1> QED
    BY <1>1, <1>14, <1>15, <1>16, <1>18, <1>19, <1>21, <1>23, <1>24, <1>25 DEF Trail

LEMMA TrailPops ==
  ASSUME WalkInv, stack # <<>>, Top.next = Top.len,
         NEW P, Trail(file, P, stack, visited, total)
  PROVE  Trail(file, P, Front(stack), visited, total) /\ Pending(Front(stack)) = Pending(stack)
  <1>1. PICK n \in Nat \ {0} : n = Len(stack) /\ DOMAIN stack = 1..n /\ Top = stack[n]
    BY TopIs DEF WalkInv, Open
  <1>2. PICK less : less = Front(stack)
    OBVIOUS
  <1>3. DOMAIN less = 1..(n - 1) /\ \A d \in 1..(n - 1) : less[d] = stack[d]
    BY <1>1, <1>2 DEF WalkInv, Open, Front
  <1>4. 1..n = 1..(n - 1) \cup {n}
    BY <1>1
  <1>5. Rest(stack[n]) = {}
    <2>1. PICK a \in Nat \ {0}, l \in Nat : a = Top.at /\ l = Top.len /\ l = Top.next
      <3>1. Top \in Pages
        BY TopIs DEF WalkInv
      <3> QED
        BY <3>1 DEF Pages
    <2>2. (a + l)..(a + l - 1) = {}
      BY <2>1
    <2> QED
      BY <1>1, <2>1, <2>2 DEF Rest
  <1>6. Pending(less) = Pending(stack)
    <2>1. UNION {Rest(stack[d]) : d \in 1..n} = UNION {Rest(stack[d]) : d \in 1..(n - 1)}
      BY <1>4, <1>5
    <2>2. {Rest(less[d]) : d \in 1..(n - 1)} = {Rest(stack[d]) : d \in 1..(n - 1)}
      BY <1>3
    <2>3. Pending(less) = UNION {Rest(less[d]) : d \in 1..(n - 1)}
      BY <1>3 DEF Pending
    <2>4. Pending(stack) = UNION {Rest(stack[d]) : d \in 1..n}
      BY <1>1 DEF Pending
    <2> QED
      BY <2>1, <2>2, <2>3, <2>4
  <1>7. Taken(P, less) = Taken(P, stack)
    BY <1>6 DEF Taken
  <1>8. /\ \A d \in DOMAIN less : PageOf(less[d]) \in P /\ PageOf(less[d]) \in Chain(file)[d - 1]
        /\ OncePerPage(less)
    BY <1>1, <1>3, <1>4 DEF Trail, OncePerPage
  <1>9. Trail(file, P, less, visited, total)
    BY <1>7, <1>8 DEF Trail
  <1> QED
    BY <1>2, <1>6, <1>9

LEMMA TrailBegins ==
  ASSUME NEW f \in Files,
         NEW st, st = <<[at |-> f.root.at, len |-> f.root.len, next |-> 0]>>
  PROVE  Trail(f, {f.root}, st, {f.root.at}, 0)
  <1>1. PICK a \in Nat \ {0}, l \in Nat \ {0} : f.root = [at |-> a, len |-> l]
    BY CopcAssumption
  <1>2. PICK e : e = [at |-> f.root.at, len |-> f.root.len, next |-> 0]
    OBVIOUS
  <1>3. e.at = a /\ e.len = l /\ e.next = 0 /\ PageOf(e) = f.root /\ f.root.at = a /\ f.root.len = l
    BY <1>1, <1>2 DEF PageOf
  <1>4. DOMAIN st = {1} /\ st[1] = e
    BY <1>2
  <1>5. PICK L \in Nat : L = Len(f.slots)
    BY FileIs
  <1>6. Chain(f)[0] = {f.root} /\ f.root \in PagesOf(f)
    <2>1. 0 \in 0..L
      BY <1>5
    <2> QED
      BY <1>5, <2>1, ChainIs, ChainGrows
  <1>7. PageInFile(f, f.root)
    <2>1. l > 0 /\ a + l - 1 <= L
      BY <1>1, <1>3, <1>5, FileIs
    <2> QED
      BY <1>3, <1>5, <2>1 DEF PageInFile
  <1>8. Taken({f.root}, st) = {}
    <2>1. Pending(st) = Rest(e)
      BY <1>4 DEF Pending
    <2>2. Rest(e) = {<<f.root, i>> : i \in SlotsOf(f.root)}
      <3>1. a + 0 = a
        OBVIOUS
      <3> QED
        BY <1>3, <3>1 DEF Rest, SlotsOf
    <2>3. Uses({f.root}) = {<<f.root, i>> : i \in SlotsOf(f.root)}
      BY DEF Uses
    <2> QED
      BY <2>1, <2>2, <2>3 DEF Taken
  <1>9. PointsIn(f, {}) = 0 /\ Fine(f, {}) /\ OfKind(f, {}, "page") = {}
    <2>1. \A k : OfKind(f, {}, k) = {}
      BY DEF OfKind
    <2> QED
      BY <2>1, SumEmpty DEF PointsIn, Fine
  <1>10. \A d \in DOMAIN st : PageOf(st[d]) \in {f.root} /\ PageOf(st[d]) \in Chain(f)[d - 1]
    BY <1>3, <1>4, <1>6
  <1>11. OncePerPage(st)
    BY <1>4 DEF OncePerPage
  <1> QED
    BY <1>6, <1>7, <1>8, <1>9, <1>10, <1>11 DEF Trail

(* A walk that is refused at an entry had met what no sound hierarchy has. *)
LEMMA RefusedIsUnsound ==
  ASSUME WalkInv, Walking, NEW P, Trail(file, P, stack, visited, total),
         \/ Entry.kind = "bad"
         \/ Entry.kind = "page" /\ (~PageInFile(file, Entry) \/ Entry.at \in visited)
         \/ Entry.kind = "data" /\ ~DataFits(Entry)
  PROVE  ~WellFormed(file)
  <1> SUFFICES ASSUME WellFormed(file) PROVE FALSE
    OBVIOUS
  <1>1. PICK U, W : U = Taken(P, stack) /\ W = Uses(PagesOf(file))
    OBVIOUS
  <1>2. /\ file \in Files /\ P \subseteq PagesOf(file)
        /\ \A p \in PagesOf(file) : PageInFile(file, p)
        /\ Fine(file, W) /\ PointsIn(file, W) = file.points
    BY <1>1, WellFormedIs DEF WalkInv, Trail
  <1>3. /\ Here \notin U /\ Here \in W /\ U \subseteq W /\ file.slots[Here[2]] = Entry
        /\ Entry \in ToSet(file.slots)
    <2>1. Uses(P) \subseteq W
      BY <1>1, <1>2 DEF Uses
    <2>2. OncePerPage(stack)
      BY DEF Trail
    <2> QED
      BY <1>1, <2>1, <2>2, TakenNext, NextUse DEF Taken
  <1>4. CASE Entry.kind = "bad"
    BY <1>2, <1>3, <1>4 DEF Fine, OfKind
  <1>5. CASE Entry.kind = "page" /\ ~PageInFile(file, Entry)
    <2>1. PageInFile(file, PageOf(Entry))
      BY <1>2, <1>5, ChildIs
    <2> QED
      BY <1>5, <2>1, PageOfIs DEF PageInFile
  <1>6. CASE Entry.kind = "page" /\ Entry.at \in visited
    <2>1. PICK p \in P : p.at = Entry.at
      BY <1>6 DEF Trail
    <2>2. Here \in OfKind(file, W, "page")
      BY <1>3, <1>6 DEF OfKind
    <2>3. p # file.root
      BY <1>2, <1>3, <2>1, <2>2 DEF Fine
    <2>4. PICK u \in OfKind(file, U, "page") : file.slots[u[2]].at = p.at
      BY <1>1, <2>3 DEF Trail
    <2>5. u \in OfKind(file, W, "page") /\ u \in U
      BY <1>3 DEF OfKind
    <2>6. u = Here
      BY <1>2, <1>3, <2>1, <2>2, <2>4, <2>5 DEF Fine
    <2> QED
      BY <1>3, <2>5, <2>6
  <1>7. CASE Entry.kind = "data" /\ ~DataFits(Entry)
    <2>1. Entry.at \in DOMAIN file.chunks
      BY <1>2, <1>3, <1>7 DEF Fine, OfKind
    <2>2. Entry.count \in Nat /\ total \in Nat /\ file.points \in Nat
      BY <1>2, <1>3, <1>7, SlotIs, FileIs DEF WalkInv
    <2>3. ~(Entry.count <= file.points - total)
      BY <1>7, <2>1 DEF DataFits
    <2>4. PagesOf(file) \subseteq AllPages(file)
      <3>1. PICK L \in Nat : L = Len(file.slots)
        BY <1>2, FileIs
      <3> QED
        BY <1>2, <3>1, ChainIs
    <2>5. IsFiniteSet(W) /\ \A u \in W : file.slots[u[2]] \in ToSet(file.slots)
      BY <1>1, <1>2, <2>4, UsesFinite
    <2>6. IsFiniteSet(U) /\ \A u \in U \cup {Here} : file.slots[u[2]] \in ToSet(file.slots)
      BY <1>3, <2>5, FS_Subset
    <2>7. total = PointsIn(file, U)
      BY <1>1 DEF Trail
    <2>8. PointsIn(file, U \cup {Here}) = total + Entry.count
      BY <1>2, <1>3, <1>7, <2>6, <2>7, PointsMore
    <2>9. PointsIn(file, U \cup {Here}) <= PointsIn(file, W)
      <3>1. U \cup {Here} \subseteq W
        BY <1>3
      <3> QED
        BY <1>2, <2>5, <3>1, PointsPart
    <2> QED
      BY <1>2, <2>2, <2>3, <2>8, <2>9
  <1> QED
    BY <1>4, <1>5, <1>6, <1>7

(* A walk that comes to the end of the root page has met all of the        *)
(* hierarchy; what is left to check is the number of points.               *)
LEMMA EndIsSound ==
  ASSUME WalkInv, NEW P, Trail(file, P, stack, visited, total),
         Len(stack) = 1, Top.next = Top.len
  PROVE  WellFormed(file) <=> total = file.points
  <1>1. file \in Files /\ stack # <<>>
    <2>1. stack # <<>>
      <3>1. Len(stack) # 0
        OBVIOUS
      <3>2. Len(<<>>) = 0
        OBVIOUS
      <3> QED
        BY <3>1, <3>2, Zenon
    <2> QED
      BY <2>1 DEF WalkInv
  <1>2. Pending(stack) = {}
    <2>1. DOMAIN Front(stack) = {}
      <3>1. stack \in Seq(Pages)
        BY DEF WalkInv, Open
      <3> QED
        BY <1>1, <3>1 DEF Front
    <2>2. Pending(Front(stack)) = {}
      BY <2>1 DEF Pending
    <2> QED
      BY <1>1, <2>2, TrailPops
  <1>3. Taken(P, stack) = Uses(P)
    BY <1>2 DEF Taken
  <1>4. PagesOf(file) = P
    <2>1. ASSUME NEW p \in P PROVE Sub(file, p) \subseteq P
      <3> SUFFICES ASSUME NEW q \in Sub(file, p) PROVE q \in P
        OBVIOUS
      <3>1. p \in Refs
        BY <1>1, TrailIs
      <3>2. PICK i \in SlotsOf(p) : file.slots[i].kind = "page" /\ q = PageOf(file.slots[i])
        BY <1>1, <3>1, SubIs
      <3>3. <<p, i>> \in Uses(P)
        BY UseIs
      <3>4. <<p, i>> \in OfKind(file, Taken(P, stack), "page")
        BY <1>3, <3>2, <3>3 DEF OfKind
      <3>5. PageOf(file.slots[<<p, i>>[2]]) \in P
        BY <3>4, Zenon DEF Trail
      <3> QED
        BY <3>2, <3>5
    <2>2. file.root \in P /\ P \subseteq PagesOf(file)
      BY DEF Trail
    <2> QED
      BY <1>1, <2>1, <2>2, ClosedHasAll
  <1>5. /\ \A p \in P : PageInFile(file, p)
        /\ Fine(file, Uses(P)) /\ total = PointsIn(file, Uses(P))
    BY <1>3 DEF Trail
  <1> QED
    BY <1>4, <1>5, WellFormedIs

-----------------------------------------------------------------------------
(* ReadHierarchy accepts what is sound and refuses what is not.            *)
Explored == pc = "walk" => \E P : Trail(file, P, stack, visited, total)

LEMMA ExploredNext == WalkInv /\ Explored /\ [Next]_vars => Explored'
  <1> SUFFICES ASSUME WalkInv, Explored, [Next]_vars, pc' = "walk"
               PROVE  \E P : Trail(file', P, stack', visited', total')
    BY DEF Explored
  <1>1. CASE TakePage \/ TakeData \/ TakeEmpty
    <2>1. Walking /\ pc = "walk" /\ file' = file
      BY <1>1 DEF TakePage, TakeData, TakeEmpty, Walking
    <2>2. PICK P : Trail(file, P, stack, visited, total)
      BY <2>1 DEF Explored
    <2>3. CASE TakePage
      <3>1. /\ Entry.kind = "page" /\ PageInFile(file, Entry) /\ Entry.at \notin visited
            /\ visited' = visited \cup {Entry.at} /\ total' = total
            /\ stack' = Append(Advanced, [at |-> Entry.at, len |-> Entry.len, next |-> 0])
        BY <2>3 DEF TakePage
      <3>2. Trail(file, P \cup {PageOf(Entry)}, stack', visited', total)
        BY <2>1, <2>2, <3>1, TrailPushes
      <3> QED
        BY <2>1, <3>1, <3>2
    <2>4. CASE TakeData
      <3>1. /\ Entry.kind = "data" /\ Entry.at \in DOMAIN file.chunks
            /\ visited' = visited /\ stack' = Advanced /\ total' = total + Entry.count
        BY <2>4 DEF TakeData, DataFits
      <3>2. Trail(file, P, Advanced, visited, total')
        BY <2>1, <2>2, <3>1, TrailTakes
      <3> QED
        BY <2>1, <3>1, <3>2
    <2>5. CASE TakeEmpty
      <3>1. Entry.kind = "empty" /\ visited' = visited /\ stack' = Advanced /\ total' = total
        BY <2>5 DEF TakeEmpty
      <3>2. total = total + 0
        BY FileIs DEF WalkInv
      <3>3. Trail(file, P, Advanced, visited, total)
        BY <2>1, <2>2, <3>1, <3>2, TrailTakes
      <3> QED
        BY <2>1, <3>1, <3>3
    <2> QED
      BY <1>1, <2>3, <2>4, <2>5
  <1>2. CASE LeavePage
    <2>1. /\ pc = "walk" /\ Top.next = Top.len /\ stack' = Front(stack) /\ Len(stack) > 1
          /\ UNCHANGED <<file, visited, total>>
      BY <1>2 DEF LeavePage
    <2>2. PICK P : Trail(file, P, stack, visited, total)
      BY <2>1 DEF Explored
    <2>3. stack # <<>>
      BY <2>1 DEF WalkInv
    <2> QED
      BY <2>1, <2>2, <2>3, TrailPops
  <1>3. CASE Refuse \/ LeaveRoot
    <2>1. pc' \in {"refused", "listed"}
      BY <1>3 DEF Refuse, LeaveRoot
    <2> QED
      BY <2>1
  <1>4. CASE BeginTiles \/ BeginPlain
    <2>1. pc' \in {"tiles", "plain", "failed"}
      BY <1>4, Zenon DEF BeginTiles, BeginPlain
    <2> QED
      BY <2>1
  <1>5. CASE ReadTile \/ TileFails \/ EndTiles \/ ReadChunk \/ ChunkFails \/ EndPlain \/ Author
    <2>1. pc' \in {"tiles", "plain", "author", "done", "failed"}
      BY <1>5 DEF ReadTile, TileFails, EndTiles, ReadChunk, ChunkFails, EndPlain, Author
    <2> QED
      BY <2>1
  <1>6. CASE UNCHANGED vars
    BY <1>6 DEF vars, walk, Explored
  <1> QED
    BY <1>1, <1>2, <1>3, <1>4, <1>5, <1>6 DEF Next

LEMMA AcceptsNext ==
  WalkInv /\ Explored /\ AcceptsWellFormed /\ [Next]_vars => AcceptsWellFormed'
  <1> SUFFICES ASSUME WalkInv, Explored, AcceptsWellFormed, [Next]_vars PROVE AcceptsWellFormed'
    OBVIOUS
  <1>1. file' = file /\ (WellFormed(file)' <=> WellFormed(file))
    <2>1. file' = file
      <3>1. CASE BeginTiles \/ BeginPlain
        BY <3>1, Zenon DEF BeginTiles, BeginPlain
      <3>2. CASE ~(BeginTiles \/ BeginPlain)
        BY <3>2 DEF Next, Refuse, TakePage, TakeData, TakeEmpty, LeavePage, LeaveRoot,
                    ReadTile, TileFails, EndTiles, ReadChunk, ChunkFails, EndPlain, Author, vars
      <3> QED
        BY <3>1, <3>2
    <2> QED
      BY <2>1
  <1>2. SUFFICES (pc' = "listed" => WellFormed(file)) /\ (pc' = "refused" => ~WellFormed(file))
    BY <1>1 DEF AcceptsWellFormed
  <1>3. CASE pc' = pc
    BY <1>3 DEF AcceptsWellFormed
  <1>4. CASE Refuse
    <2>1. Walking /\ pc = "walk" /\ pc' = "refused"
      BY <1>4 DEF Refuse, Walking
    <2>2. PICK P : Trail(file, P, stack, visited, total)
      BY <2>1 DEF Explored
    <2>3. \/ Entry.kind = "bad"
          \/ Entry.kind = "page" /\ (~PageInFile(file, Entry) \/ Entry.at \in visited)
          \/ Entry.kind = "data" /\ ~DataFits(Entry)
      BY <1>4 DEF Refuse
    <2>4. ~WellFormed(file)
      BY <2>1, <2>2, <2>3, RefusedIsUnsound
    <2> QED
      BY <2>1, <2>4
  <1>5. CASE LeaveRoot
    <2>1. /\ pc = "walk" /\ Top.next = Top.len /\ Len(stack) = 1
          /\ pc' = IF total = file.points THEN "listed" ELSE "refused"
      BY <1>5 DEF LeaveRoot
    <2>2. PICK P : Trail(file, P, stack, visited, total)
      BY <2>1 DEF Explored
    <2>3. WellFormed(file) <=> total = file.points
      BY <2>1, <2>2, EndIsSound
    <2> QED
      BY <2>1, <2>3
  <1>6. CASE ~(Refuse \/ LeaveRoot \/ pc' = pc)
    <2>1. pc' \in {"tiles", "plain", "author", "done", "failed"}
      <3>1. CASE BeginTiles \/ BeginPlain
        BY <3>1, Zenon DEF BeginTiles, BeginPlain
      <3>2. CASE ~(BeginTiles \/ BeginPlain)
        BY <1>6, <3>2 DEF Next, TakePage, TakeData, TakeEmpty, LeavePage,
                    ReadTile, TileFails, EndTiles, ReadChunk, ChunkFails, EndPlain, Author, vars
      <3> QED
        BY <3>1, <3>2
    <2> QED
      BY <2>1
  <1> QED
    BY <1>3, <1>4, <1>5, <1>6

(* The walk of ReadHierarchy, which stops at the first thing it does not   *)
(* like, lists the hierarchies whose pages lie in the file and are each    *)
(* referred to once and whose entries are valid and hold the points of the *)
(* header, and refuses all others.                                         *)
THEOREM WalkAcceptsTheSound == Spec => []AcceptsWellFormed
  <1>1. Init => Explored /\ AcceptsWellFormed
    <2> SUFFICES ASSUME Init PROVE Explored /\ AcceptsWellFormed
      OBVIOUS
    <2>1. /\ file \in Files /\ pc = "walk" /\ visited = {file.root.at} /\ total = 0
          /\ stack = <<[at |-> file.root.at, len |-> file.root.len, next |-> 0]>>
      BY DEF Init
    <2>2. Trail(file, {file.root}, stack, visited, total)
      BY <2>1, TrailBegins
    <2> QED
      BY <2>1, <2>2 DEF Explored, AcceptsWellFormed
  <1> QED
    BY <1>1, WalkHolds, ExploredNext, AcceptsNext, PTL DEF Spec

-----------------------------------------------------------------------------
(* A read of a layer moves CopcRead as CopcRead moves itself.              *)
LEMMA ReadIsRead == ReadSpec => Spec
  <1>1. ReadInit => Init
    BY DEF ReadInit
  <1>2. [ReadNext]_readVars => [Next]_vars
    <2> SUFFICES ASSUME [ReadNext]_readVars PROVE [Next]_vars
      OBVIOUS
    <2>1. CASE UNCHANGED readVars
      BY <2>1 DEF readVars
    <2>2. CASE ReadCopc
      BY <2>2 DEF ReadCopc
    <2>3. CASE ReadNext /\ ~ReadCopc
      <3>1. UNCHANGED vars
        BY <2>3 DEF ReadNext, Reject, Accept, OpenAsset, AskVersion, Inspect, InspectRecords,
             TakeRecords, AuthorMetadata, IdentifyFile, IdentifyAsset, Hit, Miss, LoadEntry,
             LoadFails, OpenStream, StreamRecords, ReadPoints, AuthorStream, StreamFails,
             ReplaceSource
      <3> QED
        BY <3>1
    <2> QED
      BY <2>1, <2>2, <2>3
  <1> QED
    BY <1>1, <1>2, PTL DEF ReadSpec, Spec

-----------------------------------------------------------------------------
(* Arguments.                                                              *)

(* A key that is part of an entry's name means the same for both.          *)
LEMMA SameKeySameValue ==
  ASSUME NEW a, NEW b, KeyArguments(a) = KeyArguments(b),
         NEW k \in KnownKeys \ (MemoryKeys \cup {"payloadDirectory"})
  PROVE  /\ Shown(Request(a), k) <=> Shown(Request(b), k)
         /\ Shown(Request(a), k) => Printed(k, Request(a)[k]) = Printed(k, Request(b)[k])
  <1> DEFINE rest == MemoryKeys \cup {"payloadDirectory"}
             A == {key \in KnownKeys : Shown(Request(a), key)}
             B == {key \in KnownKeys : Shown(Request(b), key)}
  <1>1. /\ DOMAIN Canonical(a) = A /\ \A x \in A : Canonical(a)[x] = Printed(x, Request(a)[x])
        /\ DOMAIN Canonical(b) = B /\ \A x \in B : Canonical(b)[x] = Printed(x, Request(b)[x])
    BY DEF Canonical
  <1>2. /\ DOMAIN KeyArguments(a) = A \ rest
        /\ \A x \in A \ rest : KeyArguments(a)[x] = Canonical(a)[x]
        /\ DOMAIN KeyArguments(b) = B \ rest
        /\ \A x \in B \ rest : KeyArguments(b)[x] = Canonical(b)[x]
    BY <1>1 DEF KeyArguments
  <1>3. k \in A <=> k \in B
    BY <1>2
  <1> QED
    BY <1>1, <1>2, <1>3

LEMMA KeysAre ==
  /\ {"tile", "lod", "attributes"} \cup FilterKeys
        \subseteq KnownKeys \ (TileKeys \cup MemoryKeys \cup {"payloadDirectory"})
  /\ "tile" \notin FilterKeys /\ "attributes" \notin FilterKeys
  BY DEF FilterKeys, KnownKeys, TileKeys, BudgetKeys, MemoryKeys, PlyKeys

LEMMA DefaultsAre ==
  Default["tile"] = FALSE /\ Default["lod"] = "off" /\ Default["attributes"] = {}
  BY DEF Default, FilterKeys, KnownKeys, TileKeys, BudgetKeys, MemoryKeys, PlyKeys

(* What is not printed like a number is printed as it is.                  *)
LEMMA PrintedAsIs ==
  ASSUME NEW k, NEW v, k # "tileSize", k # "bounds"
  PROVE  Printed(k, v) = v
  BY DEF Printed

(* Two requests under one cache entry's name: the same kind of layer, the  *)
(* same filters and the same attributes.                                   *)
LEMMA SameKeySameLayer ==
  ASSUME NEW a, NEW b, KeyArguments(a) = KeyArguments(b)
  PROVE  /\ Kind(Request(a)) = Kind(Request(b))
         /\ \A k \in FilterKeys : Printed(k, Request(a)[k]) = Printed(k, Request(b)[k])
         /\ Request(a)["attributes"] = Request(b)["attributes"]
  <1>1. ASSUME NEW k \in KnownKeys \ (TileKeys \cup MemoryKeys \cup {"payloadDirectory"})
        PROVE  Printed(k, Request(a)[k]) = Printed(k, Request(b)[k])
    <2>1. k # "tileSize" /\ k \notin {"minPointsPerTile", "maxDepth"}
      BY DEF TileKeys, BudgetKeys
    <2>2. /\ Shown(Request(a), k) <=> Request(a)[k] # Default[k]
          /\ Shown(Request(b), k) <=> Request(b)[k] # Default[k]
      BY <2>1 DEF Shown
    <2> QED
      BY <2>2, SameKeySameValue
  <1>2. ASSUME NEW k \in {"tile", "lod", "attributes"} PROVE Request(a)[k] = Request(b)[k]
    BY <1>1, KeysAre, PrintedAsIs
  <1> QED
    BY <1>1, <1>2, KeysAre DEF Kind

(* A request holds a value that was given as it was given, but for tile    *)
(* and the attributes.                                                     *)
LEMMA RequestIs ==
  ASSUME NEW a
  PROVE  /\ DOMAIN Request(a) = KnownKeys
         /\ Request(a)["tile"] = IsTiled(a)
         /\ Request(a)["attributes"] = IF "attributes" \in DOMAIN a THEN AllSelected(a["attributes"])
                                       ELSE {}
         /\ \A k \in KnownKeys \ {"tile", "attributes"} : Request(a)[k] = Value(a, k)
  BY KeysAre, DefaultsAre DEF Request, Value

(* SelectPointDataAttributes keeps what the names of the argument are in a *)
(* group with, and the positions.                                          *)
LEMMA KeptIsAsked ==
  ASSUME NEW available, NEW a
  PROVE  Kept(available, Request(a)["attributes"]) =
            {n \in available : \/ n = "xyz" \/ "attributes" \notin DOMAIN a
                               \/ \E m \in a["attributes"] : n \in GroupOf(m)}
  <1>1. CASE "attributes" \notin DOMAIN a
    BY <1>1, RequestIs DEF Kept
  <1>2. CASE "attributes" \in DOMAIN a
    <2> DEFINE given == a["attributes"]
               S == AllSelected(given)
    <2>1. S # {} /\ \A n : n \in S <=> n = "xyz" \/ \E m \in given : n \in GroupOf(m)
      <3>1. \A n : n \in S <=> n \in (UNION {GroupOf(m) : m \in given}) \/ n = "xyz"
        BY DEF AllSelected
      <3>2. \A n : n \in UNION {GroupOf(m) : m \in given} <=> \E m \in given : n \in GroupOf(m)
        OBVIOUS
      <3> QED
        BY <3>1, <3>2
    <2>2. ASSUME NEW m, NEW n \in Rgb PROVE n \in GroupOf(m) <=> "red" \in GroupOf(m)
      BY DEF GroupOf, Rgb, Returns, Waveform, Waveforms
    <2>3. ASSUME NEW m, NEW n \in Returns PROVE n \in GroupOf(m) <=> "returnNumber" \in GroupOf(m)
      BY DEF GroupOf, Rgb, Returns, Waveform, Waveforms
    <2>4. ASSUME NEW m, NEW n \in Waveform PROVE n \in GroupOf(m) <=> "waveformXt" \in GroupOf(m)
      BY DEF GroupOf, Rgb, Returns, Waveform, Waveforms
    <2>5. Kept(available, S) = {n \in available : n \in S}
      <3>1. "xyz" \notin Rgb \cup Returns \cup Waveform
        BY DEF Rgb, Returns, Waveform
      <3>2. ASSUME NEW n \in Rgb PROVE n \in S <=> "red" \in S
        BY <2>1, <2>2, <3>1 DEF Rgb
      <3>3. ASSUME NEW n \in Returns PROVE n \in S <=> "returnNumber" \in S
        BY <2>1, <2>3, <3>1 DEF Returns
      <3>4. ASSUME NEW n \in Waveform PROVE n \in S <=> "waveformXt" \in S
        BY <2>1, <2>4, <3>1 DEF Waveform
      <3> QED
        BY <2>1, <3>2, <3>3, <3>4 DEF Kept
    <2> QED
      BY <1>2, <2>1, <2>5, RequestIs
  <1> QED
    BY <1>1, <1>2

-----------------------------------------------------------------------------
(* The read itself: which revisions it has met at which point, that the    *)
(* entry it takes from the cache is one of its source and arguments, and   *)
(* that what it reads behind a header is no older than the header.         *)
Met == {0} \cup 2..revision

Behind ==
    /\ step \in {"records", "metadata", "behind", "points"} => header # 0
    /\ step \in {"metadata", "points"} =>
          records \in header..revision /\ (~IsLasFile => records = header)

Streamed ==
    /\ chunks # {} => step \in {"points", "done", "failed"}
    /\ step \in {"behind", "points"} => read.format # "copc"
    /\ step = "points" =>
          /\ chunks \subseteq header..(IF IsLasFile THEN revision ELSE header)
          /\ read.format = "laz" => \A p, q \in chunks : p = q

ReadInv ==
    /\ file \in Files /\ read \in ReadsOf(file)
    /\ revision \in Nat /\ revision >= 2
    /\ {asset, header, records, identity} \cup chunks \subseteq Met
    /\ entry \in Entries \cup {Blank}
    /\ step \in {"start", "open", "version", "inspect", "records", "metadata", "identify", "lookup",
                 "place", "read", "behind", "points", "done", "failed"}
    /\ pc # "walk" => step \in {"read", "done", "failed"}
    /\ read.metadataOnly =>
          step \in {"start", "open", "version", "inspect", "records", "metadata", "done", "failed"}
    /\ step = "metadata" => read.metadataOnly
    /\ read.format = "copc" => step \in {"start", "open", "failed"} \/ asset # 0
    /\ step \in {"identify", "lookup", "place"} => read.caching
    /\ step \in {"lookup", "place"} => identity # 0
    /\ step = "place" => entry \in Matching
    /\ pc # "walk" => read.format = "copc"
    /\ Behind /\ Streamed
    /\ ReadMatchesRequest

LEMMA ReadStarts == ReadInit => ReadInv
  <1> SUFFICES ASSUME ReadInit PROVE ReadInv
    OBVIOUS
  <1> QED
    BY DEF ReadInit, parts, Init, ReadInv, Behind, Streamed, ReadMatchesRequest, Met

(* Steps that author nothing.                                              *)
LEMMA NothingAuthored ==
  ASSUME ReadInv, layer' = layer, step # "done", step' # "done" PROVE ReadMatchesRequest'
  BY DEF ReadInv, ReadMatchesRequest

LEMMA ArgumentsInv ==
  ASSUME ReadInv, Reject \/ Accept PROVE ReadInv'
  <1>1. read.format \in {"las", "laz", "copc", "ply"}
    BY ReadAssumption DEF ReadInv, Formats
  <1>2. /\ step' # "done" /\ step = "start" /\ layer' = layer
        /\ UNCHANGED <<file, pc, read, revision, asset, header, records, chunks, identity, entry>>
    BY DEF Reject, Accept, vars, walk, load, parts
  <1>3. ReadMatchesRequest'
    BY <1>2, NothingAuthored
  <1>4. step' \in {"failed", "open", "identify", "inspect", "read"}
    BY DEF Reject, Accept
  <1>5. Behind' /\ Streamed'
    BY <1>2, <1>4 DEF ReadInv, Behind, Streamed
  <1>6. CASE Reject
    BY <1>2, <1>3, <1>5, <1>6 DEF ReadInv, Reject, Met
  <1>7. CASE Accept
    <2>1. read.format = "ply" => ~read.metadataOnly
      BY <1>7 DEF Accept, Acceptable
    <2>2. /\ read.format = "copc" => step' = "open"
          /\ read.metadataOnly => step' \in {"open", "inspect"}
          /\ step' = "identify" => read.caching
      BY <1>1, <1>7, <2>1 DEF Accept, IsLasFile
    <2> QED
      BY <1>2, <1>3, <1>4, <1>5, <2>2 DEF ReadInv, Met
  <1> QED
    BY <1>6, <1>7

LEMMA HeaderInv ==
  ASSUME ReadInv, OpenAsset \/ AskVersion \/ Inspect \/ InspectRecords PROVE ReadInv'
  <1>1. /\ step \in {"open", "version", "inspect", "records"}
        /\ step' \in {"version", "inspect", "records", "metadata", "identify", "read", "failed"}
        /\ layer' = layer
        /\ UNCHANGED <<file, pc, read, revision, chunks, entry>>
    BY DEF OpenAsset, AskVersion, Inspect, InspectRecords, TakeRecords, vars, walk, load, parts
  <1>2. ReadMatchesRequest'
    BY <1>1, NothingAuthored
  <1>3. Streamed'
    BY <1>1 DEF ReadInv, Streamed
  <1>4. CASE OpenAsset
    <2>1. Behind' /\ UNCHANGED <<header, records, identity>>
      BY <1>4 DEF OpenAsset, Behind, parts
    <2> QED
      BY <1>1, <1>2, <1>3, <1>4, <2>1 DEF ReadInv, OpenAsset, Met
  <1>5. CASE AskVersion
    <2>1. Behind' /\ UNCHANGED <<asset, header, records>>
      BY <1>5 DEF AskVersion, Behind, parts
    <2> QED
      BY <1>1, <1>2, <1>3, <1>5, <2>1 DEF ReadInv, AskVersion, Met
  <1>6. CASE Inspect
    <2>1. /\ step = "inspect" /\ UNCHANGED <<asset, records, identity>>
          /\ step' \in {"failed", "records"}
          /\ header' = IF read.format = "copc" THEN asset ELSE revision
      BY <1>6 DEF Inspect
    <2>2. header' \in Met /\ header' # 0
      BY <2>1 DEF ReadInv, Met
    <2>3. Behind'
      BY <2>1, <2>2 DEF Behind
    <2> QED
      BY <1>1, <1>2, <1>3, <2>1, <2>2, <2>3 DEF ReadInv, Met
  <1>7. CASE InspectRecords
    <2>1. /\ step = "records" /\ UNCHANGED <<asset, header, identity>>
          /\ records' \in IF IsLasFile THEN {header, revision} ELSE {header}
      BY <1>7 DEF InspectRecords, TakeRecords
    <2>2. /\ step' \in {"failed", "metadata", "identify", "read"}
          /\ step' = "metadata" => read.metadataOnly
          /\ read.metadataOnly => step' \in {"failed", "metadata"}
          /\ step' = "identify" => read.caching
      BY <1>7 DEF InspectRecords, TakeRecords
    <2>3. header \in 2..revision /\ records' \in header..revision
          /\ (~IsLasFile => records' = header)
      BY <2>1 DEF ReadInv, Behind, Met
    <2>4. Behind' /\ records' \in Met
      BY <1>1, <2>1, <2>3 DEF ReadInv, Behind, IsLasFile, Met
    <2> QED
      BY <1>1, <1>2, <1>3, <2>1, <2>2, <2>4 DEF ReadInv, Met
  <1> QED
    BY <1>4, <1>5, <1>6, <1>7

LEMMA LookupInv ==
  ASSUME ReadInv, IdentifyFile \/ IdentifyAsset \/ Hit \/ Miss \/ LoadFails PROVE ReadInv'
  <1>1. /\ step \in {"identify", "lookup", "place"}
        /\ step' \in {"lookup", "place", "read", "failed"} /\ layer' = layer
        /\ UNCHANGED <<file, pc, read, revision, asset, header, records, chunks>>
    BY DEF IdentifyFile, IdentifyAsset, Hit, Miss, LoadFails, vars, walk, load, parts
  <1>2. ReadMatchesRequest'
    BY <1>1, NothingAuthored
  <1>3. Behind' /\ Streamed'
    BY <1>1 DEF ReadInv, Behind, Streamed
  <1>4. CASE IdentifyFile
    BY <1>1, <1>2, <1>3, <1>4 DEF ReadInv, IdentifyFile, Met
  <1>5. CASE IdentifyAsset
    BY <1>1, <1>2, <1>3, <1>5 DEF ReadInv, IdentifyAsset, Met
  <1>6. CASE Hit
    <2>1. Matching' = Matching
      BY <1>1, <1>6 DEF Hit, Matching, ReferenceOf
    <2>2. Matching \subseteq Entries
      BY DEF Matching
    <2> QED
      BY <1>1, <1>2, <1>3, <1>6, <2>1, <2>2 DEF ReadInv, Hit, Met
  <1>7. CASE Miss \/ LoadFails
    BY <1>1, <1>2, <1>3, <1>7 DEF ReadInv, Miss, LoadFails, Met
  <1> QED
    BY <1>4, <1>5, <1>6, <1>7

(* The source is replaced while the read is on its way.                    *)
LEMMA ReplaceSourceInv ==
  ASSUME ReadInv, ReplaceSource PROVE ReadInv'
  <1>1. /\ step # "done" /\ revision' = revision + 1
        /\ UNCHANGED <<file, pc, read, step, asset, header, records, chunks, identity, entry, layer>>
    BY DEF ReplaceSource, vars, walk, load, parts
  <1>2. ReadMatchesRequest'
    BY <1>1, NothingAuthored
  <1>3. Met \subseteq Met'
    BY <1>1 DEF ReadInv, Met
  <1>4. Matching' = Matching /\ (IsLasFile' <=> IsLasFile)
    BY <1>1 DEF Matching, ReferenceOf, IsLasFile
  <1>5. /\ header \in Met
        /\ \A n \in header..revision : n \in header..revision'
    BY <1>1 DEF ReadInv, Met
  <1>6. Behind'
    BY <1>1, <1>4, <1>5 DEF ReadInv, Behind
  <1>7. Streamed'
    BY <1>1, <1>4, <1>5 DEF ReadInv, Streamed
  <1> QED
    BY <1>1, <1>2, <1>3, <1>4, <1>6, <1>7 DEF ReadInv

(* A direct read opens the path for the header, for the records and for    *)
(* the points.                                                             *)
LEMMA PartsInv ==
  ASSUME ReadInv, OpenStream \/ StreamRecords \/ ReadPoints PROVE ReadInv'
  <1>1. /\ step \in {"read", "behind", "points"} /\ step' \in {"behind", "points", "failed"}
        /\ read.format # "copc" /\ layer' = layer
        /\ UNCHANGED <<file, pc, read, revision, asset, identity, entry>>
    BY DEF ReadInv, Streamed, OpenStream, StreamRecords, TakeRecords, ReadPoints, vars, walk, load
  <1>2. ReadMatchesRequest'
    BY <1>1, NothingAuthored
  <1>3. ~read.metadataOnly /\ pc = "walk" /\ (IsLasFile' <=> IsLasFile)
    BY <1>1 DEF ReadInv, IsLasFile
  <1>4. CASE OpenStream
    <2>1. /\ step = "read" /\ step' \in {"behind", "failed"}
          /\ header' = revision /\ UNCHANGED <<records, chunks>>
      BY <1>4 DEF OpenStream
    <2>2. Behind' /\ Streamed' /\ header' \in Met /\ chunks = {}
      BY <1>1, <2>1 DEF ReadInv, Behind, Streamed, Met
    <2> QED
      BY <1>1, <1>2, <1>3, <2>1, <2>2 DEF ReadInv, Met
  <1>5. CASE StreamRecords
    <2>1. /\ step = "behind" /\ step' \in {"points", "failed"} /\ UNCHANGED <<header, chunks>>
          /\ records' \in IF IsLasFile THEN {header, revision} ELSE {header}
      BY <1>5 DEF StreamRecords, TakeRecords
    <2>2. /\ header \in 2..revision /\ records' \in header..revision
          /\ ~IsLasFile => records' = header
          /\ chunks = {}
      BY <2>1 DEF ReadInv, Behind, Streamed, Met
    <2>3. Behind' /\ Streamed' /\ records' \in Met
      BY <1>1, <1>3, <2>1, <2>2 DEF ReadInv, Behind, Streamed, Met
    <2> QED
      BY <1>1, <1>2, <1>3, <2>1, <2>3 DEF ReadInv, Met
  <1>6. CASE ReadPoints
    <2>1. /\ step = "points" /\ step' = "points" /\ UNCHANGED <<header, records>>
          /\ chunks' = CASE read.format = "ply"                   -> {header}
                        [] read.format = "laz" /\ chunks # {} -> chunks
                        [] OTHER                               -> chunks \cup {revision}
      BY <1>6 DEF ReadPoints
    <2>2. header \in 2..revision /\ read.format \in {"las", "laz", "ply"}
      BY <1>1, <2>1, ReadAssumption DEF ReadInv, Behind, Met, Formats
    <2>3. /\ chunks \subseteq header..(IF IsLasFile THEN revision ELSE header)
          /\ read.format = "laz" => \A p, q \in chunks : p = q
      BY <2>1 DEF ReadInv, Streamed
    <2>4. revision \in header..revision /\ header \in header..header
      BY <2>2 DEF ReadInv
    <2>5. Streamed'
      <3>1. CASE read.format = "ply"
        BY <1>1, <2>1, <2>4, <3>1 DEF Streamed, IsLasFile
      <3>2. CASE read.format = "las"
        BY <1>1, <2>1, <2>3, <2>4, <3>2 DEF Streamed, IsLasFile
      <3>3. CASE read.format = "laz"
        BY <1>1, <2>1, <2>3, <2>4, <3>3 DEF Streamed, IsLasFile
      <3> QED
        BY <2>2, <3>1, <3>2, <3>3
    <2>6. chunks' \subseteq Met
      BY <2>1, <2>2 DEF ReadInv, Met
    <2>7. Behind'
      BY <1>1, <1>3, <2>1 DEF ReadInv, Behind
    <2> QED
      BY <1>1, <1>2, <1>3, <2>1, <2>5, <2>6, <2>7 DEF ReadInv, Met
  <1> QED
    BY <1>4, <1>5, <1>6

-----------------------------------------------------------------------------
(* What is authored.                                                       *)

LEMMA AskedIsKept ==
  ASSUME NEW available
  PROVE  Kept(available, Asked["attributes"]) = {n \in available : AskedFor(n)}
  BY KeptIsAsked DEF Asked, AskedFor

(* A layer of a request that has the same name as the one that was asked   *)
(* for, described by one revision and of points of that one, or of later   *)
(* ones where that may be.                                                 *)
LEMMA LayerMatches ==
  ASSUME NEW a, KeyArguments(a) = KeyArguments(read.args), a = read.args \/ read.caching,
         NEW content \in 2..revision, NEW crs, NEW points, NEW colours,
         {crs} \cup points \subseteq content..(IF IsLasFile THEN revision ELSE content),
         points # {}, read.format = "laz" => \A p, q \in points : p = q,
         ~read.metadataOnly, layer' = LayerOf(Request(a), content, crs, points, colours),
         read' = read, revision' = revision, step' = "done"
  PROVE  ReadMatchesRequest'
  <1>1. /\ Kind(Request(a)) = Kind(Asked)
        /\ \A k \in FilterKeys : Printed(k, Request(a)[k]) = Printed(k, Asked[k])
        /\ Request(a)["attributes"] = Asked["attributes"]
    BY SameKeySameLayer DEF Asked
  <1>2. \A k \in FilterKeys : Asked[k] = Value(read.args, k)
    BY KeysAre, RequestIs DEF Asked
  <1>3. Kept(Source(content).attributes, Asked["attributes"])
           = {n \in Source(content).attributes : AskedFor(n)}
    BY AskedIsKept
  <1>4. /\ layer'.revision = content /\ layer'.kind = Kind(Asked)
        /\ layer'.reference = crs /\ layer'.points = points
        /\ layer'.attributes = {n \in Source(content).attributes : AskedFor(n)}
        /\ \A k \in FilterKeys : layer'.filters[k] = Request(a)[k]
    BY <1>1, <1>3 DEF LayerOf
  <1>6. \A k \in FilterKeys :
          \/ layer'.filters[k] = Value(read.args, k)
          \/ read.caching /\ Printed(k, layer'.filters[k]) = Printed(k, Value(read.args, k))
    <2>1. CASE a = read.args
      BY <1>2, <1>4, <2>1 DEF Asked
    <2>2. CASE read.caching
      BY <1>1, <1>2, <1>4, <2>2
    <2> QED
      BY <2>1, <2>2
  <1>5. /\ Asked' = Asked /\ Source(content)' = Source(content) /\ \A n : AskedFor(n)' <=> AskedFor(n)
        /\ IsLasFile' <=> IsLasFile
    BY DEF Asked, Source, AskedFor, IsLasFile
  <1> QED
    BY <1>4, <1>5, <1>6 DEF ReadMatchesRequest

(* One that is of a single revision throughout.                            *)
LEMMA WholeMatches ==
  ASSUME NEW a, KeyArguments(a) = KeyArguments(read.args), a = read.args \/ read.caching,
         revision \in Nat, NEW content \in 2..revision, NEW colours,
         ~read.metadataOnly,
         layer' = LayerOf(Request(a), content, content, {content}, colours),
         read' = read, revision' = revision, step' = "done"
  PROVE  ReadMatchesRequest'
  <1>1. {content} \cup {content} \subseteq content..(IF IsLasFile THEN revision ELSE content)
    OBVIOUS
  <1> QED
    BY <1>1, LayerMatches

LEMMA AuthorMetadataInv ==
  ASSUME ReadInv, AuthorMetadata PROVE ReadInv'
  <1>1. /\ read.metadataOnly /\ header \in 2..revision /\ step = "metadata"
        /\ records \in header..(IF IsLasFile THEN revision ELSE header)
        /\ read.format = "copc" => asset # 0
        /\ chunks = {}
    BY DEF ReadInv, Behind, Streamed, AuthorMetadata, Met
  <1>2. /\ step' = "done" /\ layer' = MetadataOf(header, records)
        /\ UNCHANGED <<file, pc, read, revision, asset, header, records, chunks, identity, entry>>
    BY DEF AuthorMetadata, vars, walk, load, parts
  <1>3. IsLasFile' <=> IsLasFile
    BY <1>2 DEF IsLasFile
  <1>4. ReadMatchesRequest'
    BY <1>1, <1>2, <1>3 DEF ReadMatchesRequest, MetadataOf
  <1>5. Behind' /\ Streamed'
    BY <1>1, <1>2 DEF Behind, Streamed
  <1> QED
    BY <1>1, <1>2, <1>4, <1>5 DEF ReadInv, Met

LEMMA LoadEntryInv ==
  ASSUME ReadInv, LoadEntry PROVE ReadInv'
  <1>1. /\ ~read.metadataOnly /\ entry \in Matching /\ step = "place" /\ read.caching
        /\ identity \in 2..revision /\ chunks = {}
        /\ read.format = "copc" => asset # 0
    BY DEF ReadInv, Streamed, LoadEntry, Met
  <1>2. /\ step' = "done"
        /\ layer' = LayerOf(Request(entry.args), entry.revision, entry.revision,
                            {entry.revision}, 16)
        /\ UNCHANGED <<file, pc, read, revision, asset, header, records, chunks, identity, entry>>
    BY DEF LoadEntry, vars, walk, load, parts
  <1>3. entry.revision = identity /\ KeyArguments(entry.args) = KeyArguments(read.args)
    BY <1>1 DEF Matching
  <1>4. ReadMatchesRequest'
    BY <1>1, <1>2, <1>3, WholeMatches DEF ReadInv
  <1>5. Behind' /\ Streamed'
    BY <1>1, <1>2 DEF Behind, Streamed
  <1> QED
    BY <1>1, <1>2, <1>4, <1>5 DEF ReadInv, Met

LEMMA StreamInv ==
  ASSUME ReadInv, AuthorStream \/ StreamFails PROVE ReadInv'
  <1>1. /\ ~read.metadataOnly /\ read.format # "copc" /\ step = "points"
        /\ header \in 2..revision
        /\ {records} \cup chunks \subseteq header..(IF IsLasFile THEN revision ELSE header)
        /\ read.format = "laz" => \A p, q \in chunks : p = q
    BY DEF ReadInv, Behind, Streamed, AuthorStream, StreamFails, Met
  <1>2. UNCHANGED <<file, pc, read, revision, asset, header, records, chunks, identity, entry>>
    BY DEF AuthorStream, StreamFails, vars, walk, load, parts
  <1>3. CASE AuthorStream
    <2>1. /\ step' = "done" /\ chunks # {}
          /\ layer' = LayerOf(Request(read.args), header, records, chunks, ColourDepth(Asked, header))
      BY <1>3 DEF AuthorStream, Asked
    <2>2. ReadMatchesRequest'
      BY <1>1, <1>2, <2>1, LayerMatches
    <2>3. Behind' /\ Streamed'
      BY <2>1 DEF Behind, Streamed
    <2> QED
      BY <1>1, <1>2, <2>1, <2>2, <2>3 DEF ReadInv, Met
  <1>4. CASE StreamFails
    <2>1. step' = "failed" /\ layer' = layer
      BY <1>4 DEF StreamFails
    <2>2. ReadMatchesRequest'
      BY <1>1, <2>1, NothingAuthored
    <2>3. Behind' /\ Streamed'
      BY <2>1 DEF Behind, Streamed
    <2> QED
      BY <1>1, <1>2, <2>1, <2>2, <2>3 DEF ReadInv, Met
  <1> QED
    BY <1>3, <1>4

LEMMA FileStays == Next => file' = file
  BY DEF Next, Refuse, TakePage, TakeData, TakeEmpty, LeavePage, LeaveRoot, BeginTiles, ReadTile,
         TileFails, EndTiles, BeginPlain, ReadChunk, ChunkFails, EndPlain, Author

LEMMA ReadCopcInv ==
  ASSUME ReadInv, ReadCopc PROVE ReadInv'
  <1>1. /\ ~read.metadataOnly /\ read.format = "copc"
        /\ asset \in 2..revision /\ step = "read" /\ chunks = {}
    BY DEF ReadInv, Streamed, ReadCopc, Met
  <1>2. UNCHANGED <<file, read, revision, asset, header, records, chunks, identity, entry>>
    BY FileStays DEF ReadCopc, parts
  <1>5. step' \in {"read", "done", "failed"}
    BY DEF ReadCopc
  <1>6. Behind' /\ Streamed'
    BY <1>1, <1>2, <1>5 DEF Behind, Streamed
  <1>3. CASE pc' = "done"
    <2>1. step' = "done" /\ layer' = LayerOf(Request(read.args), asset, asset, {asset}, 16)
      BY <1>3 DEF ReadCopc, Asked
    <2>2. ReadMatchesRequest'
      BY <1>1, <1>2, <2>1, WholeMatches DEF ReadInv
    <2> QED
      BY <1>1, <1>2, <1>6, <2>1, <2>2 DEF ReadInv, Met
  <1>4. CASE pc' # "done"
    <2>1. step' \in {"failed", "read"} /\ layer' = layer
      BY <1>4 DEF ReadCopc
    <2>2. ReadMatchesRequest'
      BY <1>1, <2>1, NothingAuthored
    <2> QED
      BY <1>1, <1>2, <1>6, <2>1, <2>2 DEF ReadInv, Met
  <1> QED
    BY <1>3, <1>4

LEMMA ReadMoves == ReadInv /\ [ReadNext]_readVars => ReadInv'
  <1> SUFFICES ASSUME ReadInv, [ReadNext]_readVars PROVE ReadInv'
    OBVIOUS
  <1>1. CASE UNCHANGED readVars
    <2>1. UNCHANGED <<file, pc, read, step, revision, asset, header, records, chunks, identity,
                      entry, layer>>
      BY <1>1 DEF readVars, mine, vars, parts
    <2>2. /\ Matching' = Matching /\ (ReadMatchesRequest' <=> ReadMatchesRequest)
          /\ (Behind' <=> Behind) /\ (Streamed' <=> Streamed)
      BY <2>1 DEF Matching, ReferenceOf, ReadMatchesRequest, Asked, Source, AskedFor, Behind,
         Streamed, IsLasFile
    <2> QED
      BY <2>1, <2>2 DEF ReadInv, Met
  <1>2. CASE ReadNext
    BY <1>2, ArgumentsInv, HeaderInv, AuthorMetadataInv, LookupInv, LoadEntryInv, PartsInv,
       StreamInv, ReadCopcInv, ReplaceSourceInv DEF ReadNext
  <1> QED
    BY <1>1, <1>2

LEMMA ReadHolds == ReadSpec => []ReadInv
  BY ReadStarts, ReadMoves, PTL DEF ReadSpec

-----------------------------------------------------------------------------
(* Read of the four plugins knows only revisions that the source has had,  *)
(* takes only entries of the cache, and its COPC walk is bounded by the    *)
(* file whatever its pages refer to.                                       *)
THEOREM ReadTypeCorrect == ReadSpec => []ReadTypeOK
  <1>1. ReadInv /\ TypeOK => ReadTypeOK
    BY DEF ReadInv, ReadTypeOK, Met
  <1> QED
    BY <1>1, ReadIsRead, ReadHolds, TypeCorrect, PTL

(* A read that succeeds has authored the kind of layer, the filters and    *)
(* the attributes that its arguments ask for, whether BuildDescriptor's    *)
(* name led to an entry of the cache or the source was read directly.      *)
(* However often the source was replaced meanwhile, the layer is described *)
(* by a header that the source had during the read, and all of it is of    *)
(* that revision unless LAS or LAZ, whose path is opened anew for every    *)
(* part, was read directly: then no part is older than the header.  A read *)
(* that has not succeeded has authored nothing.                            *)
THEOREM RequestMatched == ReadSpec => []ReadMatchesRequest
  <1>1. ReadInv => ReadMatchesRequest
    BY DEF ReadInv
  <1> QED
    BY <1>1, ReadHolds, PTL

(* A COPC read through the plugin, with the limits and filters that its    *)
(* arguments come to, delivers each selected point once.                   *)
THEOREM ReadDeliversSelection == ReadSpec => []DeliversSelection
  BY ReadIsRead, SelectionDelivered, PTL

(* Nor does the plugin, with requests that come from arguments, get        *)
(* another hierarchy, plan or forest than the COPC read by itself.         *)
THEOREM ReadIsSound == ReadSpec => [](AcceptsWellFormed /\ PlanAccountsForFile /\ SameForest)
  BY ReadIsRead, WalkAcceptsTheSound, PlansAccountForFiles, ForestsAgree, PTL

-----------------------------------------------------------------------------
(* The canonical form of arguments.                                        *)

(* Six decimals: once printed a number stays, order is kept, and a size    *)
(* that is not too small does not vanish.                                  *)
LEMMA SixDecimalsIs ==
  ASSUME NEW x \in Int
  PROVE  /\ SixDecimals(x) \in Int
         /\ SixDecimals(SixDecimals(x)) = SixDecimals(x)
         /\ x = 0 => SixDecimals(x) = 0
         /\ x >= 5 => SixDecimals(x) > 0
         /\ \A y \in Int : x <= y => SixDecimals(x) <= SixDecimals(y)
  BY DEF SixDecimals

(* A value as a request may hold it.                                       *)
Plausible(k, v) ==
    /\ k = "tileSize" => v \in Int \ (1..4) /\ v >= 0
    /\ k = "bounds" => v = <<>> \/ v \in [1..2 -> Int]

LEMMA PrintedIs ==
  ASSUME NEW k \in KnownKeys, NEW v, Plausible(k, v)
  PROVE  /\ Printed(k, Printed(k, v)) = Printed(k, v)
         /\ Printed(k, v) = Default[k] <=> v = Default[k]
         /\ Plausible(k, Printed(k, v))
  <1>1. CASE k = "tileSize"
    <2>1. Default[k] = 0
      BY <1>1 DEF Default, KnownKeys, TileKeys
    <2>2. Printed(k, v) = SixDecimals(v) /\ Printed(k, SixDecimals(v)) = SixDecimals(SixDecimals(v))
      BY <1>1 DEF Printed
    <2>3. v \in Int /\ (v = 0 \/ v >= 5)
      BY <1>1 DEF Plausible
    <2>4. SixDecimals(v) = 0 \/ SixDecimals(v) >= 5
      BY <2>3 DEF SixDecimals
    <2> QED
      BY <1>1, <2>1, <2>2, <2>3, <2>4, SixDecimalsIs DEF Plausible
  <1>2. CASE k = "bounds"
    <2> DEFINE p(w) == [i \in DOMAIN w |-> SixDecimals(w[i])]
    <2>1. Default[k] = <<>>
      BY <1>2 DEF Default, KnownKeys, FilterKeys, TileKeys, BudgetKeys, MemoryKeys, PlyKeys
    <2>2. \A w : Printed(k, w) = p(w)
      BY <1>2 DEF Printed
    <2>3. CASE v = <<>>
      <3>1. p(v) = <<>>
        BY <2>3
      <3> QED
        BY <1>2, <2>1, <2>2, <2>3, <3>1 DEF Plausible
    <2>4. CASE v \in [1..2 -> Int]
      <3>1. p(v) \in [1..2 -> Int] /\ \A i \in 1..2 : p(v)[i] = SixDecimals(v[i])
        BY <2>4, SixDecimalsIs
      <3>2. p(p(v)) = p(v)
        BY <2>4, <3>1, SixDecimalsIs
      <3>3. v # <<>> /\ p(v) # <<>>
        BY <2>4, <3>1
      <3> QED
        BY <1>2, <2>1, <2>2, <3>1, <3>2, <3>3 DEF Plausible
    <2> QED
      BY <1>2, <2>3, <2>4 DEF Plausible
  <1>3. CASE k # "tileSize" /\ k # "bounds"
    BY <1>3, PrintedAsIs DEF Plausible
  <1> QED
    BY <1>1, <1>2, <1>3

(* What the checks count with.                                             *)
Counts == {"tileSize", "maxPointsPerTile", "minPointsPerTile"} \cup MemoryKeys

LEMMA NumberDefaults ==
  /\ Default["tileSize"] = 0 /\ Default["maxPointsPerTile"] = 0
  /\ Default["minPointsPerTile"] = 0 /\ Default["maxDepth"] = 0
  /\ Default["chunkPointLimit"] \in Nat \ {0} /\ Default["memoryBudgetBytes"] \in Nat \ {0}
  <1>1. Default["tileSize"] = 0 /\ Default["maxPointsPerTile"] = 0
    BY DEF Default, FilterKeys, KnownKeys, TileKeys, BudgetKeys, MemoryKeys, PlyKeys
  <1>2. Default["minPointsPerTile"] = 0 /\ Default["maxDepth"] = 0
    BY DEF Default, FilterKeys, KnownKeys, TileKeys, BudgetKeys, MemoryKeys, PlyKeys
  <1>3. Default["chunkPointLimit"] \in Nat \ {0} /\ Default["memoryBudgetBytes"] \in Nat \ {0}
    BY DEF Default, FilterKeys, KnownKeys, TileKeys, BudgetKeys, MemoryKeys, PlyKeys
  <1> QED
    BY <1>1, <1>2, <1>3

LEMMA DirectoryDefault == Default["payloadDirectory"] = ""
  BY DEF Default, FilterKeys, KnownKeys, TileKeys, BudgetKeys, MemoryKeys, PlyKeys

LEMMA BoundsDefault == Default["bounds"] = <<>>
  BY DEF Default, FilterKeys, KnownKeys, TileKeys, BudgetKeys, MemoryKeys, PlyKeys

LEMMA CountKeysAre ==
  ASSUME NEW k \in Counts
  PROVE  /\ k \in KnownKeys \ {"tile", "attributes", "bounds"}
         /\ k \in NumberKeys
         /\ Default[k] \in Nat
  <1>1. k \in {"tileSize", "maxPointsPerTile", "minPointsPerTile"} \/ k \in MemoryKeys
    BY DEF Counts
  <1>2. CASE k \in MemoryKeys
    <2>1. k = "chunkPointLimit" \/ k = "memoryBudgetBytes"
      BY <1>2 DEF MemoryKeys
    <2>2. k \in KnownKeys /\ k \in NumberKeys
      BY <1>2 DEF KnownKeys, NumberKeys
    <2> QED
      BY <2>1, <2>2, NumberDefaults
  <1>3. CASE k \in {"tileSize", "maxPointsPerTile", "minPointsPerTile"}
    <2>1. k \in TileKeys /\ k \in NumberKeys
      BY <1>3 DEF TileKeys, NumberKeys, BudgetKeys
    <2>2. k \in KnownKeys
      BY <2>1 DEF KnownKeys
    <2> QED
      BY <1>3, <2>2, <2>1, NumberDefaults
  <1> QED
    BY <1>1, <1>2, <1>3

LEMMA CountsParse ==
  ASSUME NEW k \in Counts, NEW v \in Int, NEW format, Parses(k, v, format)
  PROVE  v >= 0
  <1>1. ASSUME NEW x
        PROVE  /\ Parses("tileSize", x, format) = (x > 0)
               /\ Parses("maxPointsPerTile", x, format) = (x > 0)
    BY DEF Parses, MemoryKeys
  <1>2. ASSUME NEW x
        PROVE  /\ Parses("minPointsPerTile", x, format) = (x >= 0)
               /\ Parses("chunkPointLimit", x, format) = (x >= 0)
               /\ Parses("memoryBudgetBytes", x, format) = (x >= 0)
    BY DEF Parses, MemoryKeys
  <1>3. \/ k = "tileSize" \/ k = "maxPointsPerTile" \/ k = "minPointsPerTile"
        \/ k = "chunkPointLimit" \/ k = "memoryBudgetBytes"
    BY DEF Counts, MemoryKeys
  <1>4. Parses(k, v, format) => v > 0 \/ v >= 0
    BY <1>1, <1>2, <1>3, Zenon
  <1> QED
    BY <1>4

(* What a request of accepted arguments holds.                             *)
LEMMA AcceptedIs ==
  ASSUME NEW a, NEW format, IsArgumentSet(a), ~Vanishes(a), Accepts(a, format)
  PROVE  /\ \A k \in KnownKeys \ {"tile"} : Plausible(k, Request(a)[k])
         /\ \A k \in Counts : Request(a)[k] \in Nat
         /\ Request(a)["tile"] \in BOOLEAN
         /\ \A k \in KnownKeys \ {"tile"} : Request(a)[k] # Default[k] => k \in DOMAIN a
  <1>1. \A k \in DOMAIN a : k \in KnownKeys /\ Parses(k, a[k], format)
    BY Zenon DEF Accepts, Takes
  <1>4. ASSUME NEW k \in Counts, k \in DOMAIN a
        PROVE  a[k] \in Nat
    <2>1. a[k] \in Int
      BY <1>4, CountKeysAre DEF IsArgumentSet
    <2>2. a[k] >= 0
      BY <1>1, <1>4, <2>1, CountsParse
    <2> QED
      BY <2>1, <2>2
  <1>5. \A k \in Counts : Request(a)[k] \in Nat
    BY CountKeysAre, <1>4, RequestIs DEF Value
  <1>6. Request(a)["tileSize"] \notin 1..4
    <2>1. "tileSize" \in KnownKeys \ {"tile", "attributes"}
      BY CountKeysAre DEF Counts
    <2>2. \A x \in 1..4 : Printed("tileSize", x) = 0
      BY DEF Printed, SixDecimals
    <2>3. "tileSize" \in DOMAIN a => a["tileSize"] \notin 1..4
      BY <2>2 DEF Vanishes
    <2> QED
      BY <2>1, <2>3, NumberDefaults, RequestIs DEF Value
  <1>7. Request(a)["bounds"] = <<>> \/ Request(a)["bounds"] \in [1..2 -> Int]
    <2>1. "bounds" \in KnownKeys \ {"tile", "attributes"}
      BY DEF KnownKeys, FilterKeys
    <2> QED
      BY <2>1, BoundsDefault, RequestIs DEF Value, IsArgumentSet
  <1>8. \A k \in KnownKeys \ {"tile"} : Plausible(k, Request(a)[k])
    BY <1>5, <1>6, <1>7 DEF Plausible, Counts
  <1>9. \A k \in KnownKeys \ {"tile"} : Request(a)[k] # Default[k] => k \in DOMAIN a
    BY RequestIs, DefaultsAre DEF Value
  <1>10. Request(a)["tile"] \in BOOLEAN
    BY RequestIs DEF IsTiled
  <1> QED
    BY <1>5, <1>8, <1>9, <1>10

LEMMA CanonicalHas ==
  ASSUME NEW a
  PROVE  /\ DOMAIN Canonical(a) = {k \in KnownKeys : Shown(Request(a), k)}
         /\ \A k \in KnownKeys : Shown(Request(a), k) => Canonical(a)[k] = Printed(k, Request(a)[k])
  BY Zenon DEF Canonical

(* A group is a group of each of its members.                              *)
LEMMA GroupsAre ==
  /\ \A m, n : n \in GroupOf(m) => GroupOf(n) = GroupOf(m)
  /\ GroupOf("xyz") = {"xyz"}
  <1>1. ASSUME NEW m, NEW n \in GroupOf(m) PROVE GroupOf(n) = GroupOf(m)
    <2>1. CASE m \in Rgb \cup {"rgb"}
      BY <1>1, <2>1 DEF GroupOf, Rgb, Returns, Waveform, Waveforms
    <2>2. CASE m \in Returns
      BY <1>1, <2>2 DEF GroupOf, Rgb, Returns, Waveform, Waveforms
    <2>3. CASE m \in Waveforms
      BY <1>1, <2>3 DEF GroupOf, Rgb, Returns, Waveform, Waveforms
    <2>4. CASE m \notin Rgb \cup {"rgb"} \cup Returns \cup Waveforms
      BY <1>1, <2>4 DEF GroupOf
    <2> QED
      BY <2>1, <2>2, <2>3, <2>4
  <1>2. GroupOf("xyz") = {"xyz"}
    BY DEF GroupOf, Rgb, Returns, Waveform, Waveforms
  <1> QED
    BY <1>1, <1>2

LEMMA SelectionIsClosed ==
  ASSUME NEW names PROVE AllSelected(AllSelected(names)) = AllSelected(names)
  <1> DEFINE S == AllSelected(names)
  <1>1. \A T, n : n \in AllSelected(T) <=> n = "xyz" \/ \E m \in T : n \in GroupOf(m)
    BY DEF AllSelected
  <1>2. ASSUME NEW n \in S PROVE n \in AllSelected(S)
    <2>1. CASE n = "xyz"
      BY <1>1, <2>1
    <2>2. CASE n # "xyz"
      <3>1. PICK m \in names : n \in GroupOf(m)
        BY <1>1, <1>2, <2>2
      <3>2. n \in GroupOf(n)
        BY <3>1, GroupsAre
      <3> QED
        BY <1>1, <1>2, <3>2
    <2> QED
      BY <2>1, <2>2
  <1>3. ASSUME NEW n \in AllSelected(S) PROVE n \in S
    <2>1. CASE n = "xyz"
      BY <1>1, <2>1
    <2>2. CASE n # "xyz"
      <3>1. PICK m \in S : n \in GroupOf(m)
        BY <1>1, <1>3, <2>2
      <3>2. m # "xyz"
        BY <2>2, <3>1, GroupsAre
      <3>3. PICK l \in names : m \in GroupOf(l)
        BY <1>1, <3>2
      <3>4. n \in GroupOf(l)
        BY <3>1, <3>3, GroupsAre
      <3> QED
        BY <1>1, <3>4
    <2> QED
      BY <2>1, <2>2
  <1> QED
    BY <1>2, <1>3

(* The canonical form turns tiling on where the arguments do.              *)
LEMMA SameTiling ==
  ASSUME NEW a PROVE Request(Canonical(a))["tile"] = Request(a)["tile"]
  <1> DEFINE c == Canonical(a)
             r == Request(a)
  <1>1. r["tile"] = IsTiled(a) /\ Request(c)["tile"] = IsTiled(c)
    BY RequestIs
  <1>0. IsTiled(a) \in BOOLEAN /\ IsTiled(c) \in BOOLEAN
    BY DEF IsTiled
  <1>2. "tile" \in KnownKeys /\ "tile" \notin TileKeys /\ "tile" \notin {"tileSize", "minPointsPerTile", "maxDepth", "bounds"}
    BY KeysAre
  <1>3. Shown(r, "tile") <=> r["tile"] # FALSE
    BY <1>2, DefaultsAre DEF Shown
  <1>4. CASE IsTiled(a)
    <2>1. "tile" \in DOMAIN c /\ c["tile"] = TRUE
      BY <1>1, <1>2, <1>3, <1>4, CanonicalHas, PrintedAsIs
    <2>2. IsTiled(c)
      BY <2>1 DEF IsTiled, Value
    <2> QED
      BY <1>1, <1>4, <2>2
  <1>5. CASE ~IsTiled(a)
    <2>0. r["tile"] = FALSE
      BY <1>0, <1>1, <1>5
    <2>1. "tile" \notin DOMAIN c
      BY <1>3, <2>0, CanonicalHas
    <2>2. TileKeys \cap DOMAIN c = {}
      BY <2>0, CanonicalHas DEF Shown
    <2>3. {"tileSize", "tileMemoryLimit"} \cap DOMAIN c = {}
      BY <2>2 DEF TileKeys
    <2>4. ~IsTiled(c)
      BY <2>1, <2>2, <2>3, DefaultsAre DEF IsTiled, Value
    <2>5. IsTiled(c) = FALSE
      BY <1>0, <2>4
    <2> QED
      BY <1>1, <2>0, <2>5
  <1> QED
    BY <1>4, <1>5

(* What is shown is asked for as it is printed, and nothing else is.       *)
LEMMA CanonicalRequest ==
  ASSUME NEW a, NEW k \in KnownKeys \ {"tile"}
  PROVE  Request(Canonical(a))[k] = IF Shown(Request(a), k) THEN Printed(k, Request(a)[k]) ELSE Default[k]
  <1> DEFINE c == Canonical(a)
             r == Request(a)
  <1>1. CASE k # "attributes"
    <2>1. Request(c)[k] = IF k \in DOMAIN c THEN c[k] ELSE Default[k]
      BY <1>1, RequestIs DEF Value
    <2>2. /\ k \in DOMAIN c <=> Shown(r, k)
          /\ Shown(r, k) => c[k] = Printed(k, r[k])
      BY CanonicalHas
    <2> QED
      BY <2>1, <2>2
  <1>2. CASE k = "attributes"
    <2>1. "attributes" \in KnownKeys \ TileKeys
      BY KeysAre
    <2>2. Shown(r, "attributes") <=> r["attributes"] # {}
      BY <2>1, DefaultsAre DEF Shown
    <2>3. CASE r["attributes"] = {}
      <3>1. "attributes" \notin DOMAIN c
        BY <2>2, <2>3, CanonicalHas
      <3> QED
        BY <1>2, <2>2, <2>3, <3>1, RequestIs, DefaultsAre
    <2>4. CASE r["attributes"] # {}
      <3>1. "attributes" \in DOMAIN c /\ c["attributes"] = r["attributes"]
        <4>1. Shown(r, "attributes") /\ "attributes" \in KnownKeys
          BY <2>1, <2>2, <2>4
        <4>2. "attributes" \in DOMAIN c /\ c["attributes"] = Printed("attributes", r["attributes"])
          BY <4>1, CanonicalHas
        <4> QED
          BY <4>2, PrintedAsIs
      <3>2. r["attributes"] = AllSelected(a["attributes"])
        BY <2>4, RequestIs
      <3>3. Request(c)["attributes"] = r["attributes"]
        BY <3>1, <3>2, RequestIs, SelectionIsClosed
      <3> QED
        BY <1>2, <2>2, <2>4, <3>3, PrintedAsIs
    <2> QED
      BY <2>3, <2>4
  <1> QED
    BY <1>1, <1>2

-----------------------------------------------------------------------------
(* Arguments that show the same, printed alike.                            *)
Same(a, c) ==
    \A k \in KnownKeys :
        /\ Shown(Request(c), k) <=> Shown(Request(a), k)
        /\ Shown(Request(a), k) => Printed(k, Request(c)[k]) = Printed(k, Request(a)[k])

LEMMA ShownTwice ==
  ASSUME NEW a, NEW format, IsArgumentSet(a), ~Vanishes(a), Accepts(a, format)
  PROVE  Same(a, Canonical(a))
  <1> DEFINE c == Canonical(a)
             r == Request(a)
             q == Request(c)
  <1>1. q["tile"] = r["tile"]
    BY SameTiling
  <1>2. {"tile", "maxPointsPerTile"} \subseteq KnownKeys /\ "maxPointsPerTile" \in TileKeys
    BY DEF KnownKeys, TileKeys, BudgetKeys
  <1>3. r["tile"] => q["maxPointsPerTile"] = r["maxPointsPerTile"]
    <2>1. Shown(r, "maxPointsPerTile") <=> r["maxPointsPerTile"] # Default["maxPointsPerTile"] /\ r["tile"]
      BY <1>2 DEF Shown
    <2>2. q["maxPointsPerTile"] = IF Shown(r, "maxPointsPerTile") THEN r["maxPointsPerTile"]
                                  ELSE Default["maxPointsPerTile"]
      BY <1>2, CanonicalRequest, PrintedAsIs
    <2> QED
      BY <2>1, <2>2
  <1>4. ASSUME NEW k \in KnownKeys, Shown(r, k)
        PROVE  Shown(q, k) /\ Printed(k, q[k]) = Printed(k, r[k])
    <2>1. CASE k = "tile"
      BY <1>1, <1>4, <2>1 DEF Shown
    <2>2. CASE k # "tile"
      <3>1. q[k] = Printed(k, r[k]) /\ Plausible(k, r[k])
        BY <1>4, <2>2, CanonicalRequest, AcceptedIs
      <3>2. r[k] # Default[k]
        BY <1>4 DEF Shown
      <3>3. q[k] # Default[k] /\ Printed(k, q[k]) = Printed(k, r[k])
        BY <3>1, <3>2, PrintedIs
      <3>4. k \in TileKeys => r["tile"] /\ q["tile"]
        BY <1>1, <1>4 DEF Shown
      <3>5. {"tileSize", "minPointsPerTile", "maxDepth"} \subseteq TileKeys
        BY DEF TileKeys, BudgetKeys
      <3>6. k \in {"tileSize", "minPointsPerTile", "maxDepth"} =>
               q["maxPointsPerTile"] = r["maxPointsPerTile"]
        BY <1>3, <3>4, <3>5
      <3> QED
        BY <1>4, <3>3, <3>4, <3>6 DEF Shown
    <2> QED
      BY <2>1, <2>2
  <1>5. ASSUME NEW k \in KnownKeys, ~Shown(r, k) PROVE ~Shown(q, k)
    <2>1. CASE k = "tile"
      <3>1. k \notin TileKeys /\ k \notin {"tileSize", "minPointsPerTile", "maxDepth"}
        BY <2>1, KeysAre
      <3> QED
        BY <1>1, <1>5, <2>1, <3>1 DEF Shown
    <2>2. CASE k # "tile"
      BY <1>5, <2>2, CanonicalRequest DEF Shown
    <2> QED
      BY <2>1, <2>2
  <1> QED
    BY <1>4, <1>5 DEF Same

LEMMA CanonicalTwice ==
  ASSUME NEW a, NEW c, Same(a, c) PROVE Canonical(c) = Canonical(a)
  <1> DEFINE D == {k \in KnownKeys : Shown(Request(a), k)}
  <1>1. {k \in KnownKeys : Shown(Request(c), k)} = D
    BY DEF Same
  <1>2. Canonical(c) = [k \in D |-> Printed(k, Request(c)[k])]
    BY <1>1, Zenon DEF Canonical
  <1>3. Canonical(a) = [k \in D |-> Printed(k, Request(a)[k])]
    BY Zenon DEF Canonical
  <1>4. \A k \in D : Printed(k, Request(c)[k]) = Printed(k, Request(a)[k])
    BY DEF Same
  <1> HIDE DEF D
  <1> QED
    BY <1>2, <1>3, <1>4

(* The limits of the tile planners, where they matter.                     *)
LEMMA Planners ==
  ASSUME NEW a, NEW format, IsArgumentSet(a), ~Vanishes(a), Accepts(a, format)
  PROVE  LET r == Request(a)  q == Request(Canonical(a)) IN
         /\ \A k \in Counts : r[k] \in Nat
         /\ r["maxPointsPerTile"] > 0 => r["tileSize"] = 0
         /\ r["minPointsPerTile"] > 0 => r["maxPointsPerTile"] > 0
         /\ r["tile"] => /\ q["maxPointsPerTile"] = r["maxPointsPerTile"]
                         /\ q["minPointsPerTile"] = r["minPointsPerTile"]
                         /\ q["tileSize"] = Printed("tileSize", r["tileSize"])
                         /\ q["payloadDirectory"] = r["payloadDirectory"]
         /\ ~r["tile"] => q["maxPointsPerTile"] = 0 /\ q["minPointsPerTile"] = 0 /\ q["tileSize"] = 0
         /\ \A k \in MemoryKeys \cup {"lod"} : q[k] = r[k]
  <1> DEFINE r == Request(a)
             q == Request(Canonical(a))
  <1>1. \A k \in Counts : r[k] \in Nat
    BY AcceptedIs
  <1>2. /\ {"maxPointsPerTile", "minPointsPerTile", "tileSize", "payloadDirectory"} \subseteq TileKeys
        /\ TileKeys \subseteq KnownKeys /\ "tile" \notin TileKeys
    BY DEF TileKeys, BudgetKeys, KnownKeys
  <1>3. /\ r["maxPointsPerTile"] \in Nat /\ r["minPointsPerTile"] \in Nat /\ r["tileSize"] \in Nat
        /\ r["maxPointsPerTile"] > 0 => r["tileSize"] = 0
        /\ r["minPointsPerTile"] > 0 => r["maxPointsPerTile"] > 0
    BY <1>1 DEF Counts, Accepts, Consistent
  <1>4. \A k \in TileKeys : q[k] = IF Shown(r, k) THEN Printed(k, r[k]) ELSE Default[k]
    BY <1>2, CanonicalRequest
  <1>5. ASSUME r["tile"]
        PROVE  /\ q["maxPointsPerTile"] = r["maxPointsPerTile"]
               /\ q["minPointsPerTile"] = r["minPointsPerTile"]
               /\ q["tileSize"] = Printed("tileSize", r["tileSize"])
               /\ q["payloadDirectory"] = r["payloadDirectory"]
    <2>1. Shown(r, "maxPointsPerTile") <=> r["maxPointsPerTile"] # Default["maxPointsPerTile"]
      BY <1>5 DEF Shown
    <2>2. Shown(r, "minPointsPerTile") <=> r["minPointsPerTile"] # 0
      BY <1>3, <1>5, NumberDefaults DEF Shown
    <2>3. Shown(r, "tileSize") <=> r["tileSize"] # 0
      BY <1>3, <1>5, NumberDefaults DEF Shown
    <2>4. Shown(r, "payloadDirectory") <=> r["payloadDirectory"] # Default["payloadDirectory"]
      BY <1>5 DEF Shown
    <2>5. q["maxPointsPerTile"] = r["maxPointsPerTile"]
      BY <1>2, <1>4, <2>1, PrintedAsIs
    <2>6. q["minPointsPerTile"] = r["minPointsPerTile"]
      BY <1>2, <1>4, <2>2, PrintedAsIs, NumberDefaults
    <2>7. q["payloadDirectory"] = r["payloadDirectory"]
      BY <1>2, <1>4, <2>4, PrintedAsIs
    <2>8. Printed("tileSize", 0) = 0
      BY SixDecimalsIs DEF Printed
    <2>9. q["tileSize"] = Printed("tileSize", r["tileSize"])
      BY <1>2, <1>4, <2>3, <2>8, NumberDefaults
    <2> QED
      BY <2>5, <2>6, <2>7, <2>9
  <1>6. ASSUME ~r["tile"]
        PROVE  q["maxPointsPerTile"] = 0 /\ q["minPointsPerTile"] = 0 /\ q["tileSize"] = 0
    <2>1. \A k \in TileKeys : ~Shown(r, k)
      BY <1>6 DEF Shown
    <2> QED
      BY <1>2, <1>4, <2>1, NumberDefaults
  <1>7. ASSUME NEW k \in MemoryKeys \cup {"lod"} PROVE q[k] = r[k]
    <2>1. k \in KnownKeys \ (TileKeys \cup {"tile", "tileSize", "minPointsPerTile", "maxDepth", "bounds"})
      BY DEF KnownKeys, TileKeys, BudgetKeys, MemoryKeys, PlyKeys, FilterKeys
    <2>2. Shown(r, k) <=> r[k] # Default[k]
      BY <2>1 DEF Shown
    <2> QED
      BY <2>1, <2>2, CanonicalRequest, PrintedAsIs
  <1> QED
    BY <1>1, <1>3, <1>5, <1>6, <1>7

(* What is printed as it is given does not vanish.                         *)
LEMMA ExactStays ==
  ASSUME NEW a, NEW format, IsExact(a), Accepts(a, format)
  PROVE  ~Vanishes(a)
  <1>1. ASSUME "tileSize" \in DOMAIN a PROVE a["tileSize"] > 0
    <2>1. Parses("tileSize", a["tileSize"], format)
      BY <1>1, Zenon DEF Accepts
    <2> QED
      BY <2>1 DEF Parses, MemoryKeys
  <1> QED
    BY <1>1 DEF IsExact, Vanishes

(* The canonical form of what is printed as it is given comes to the same  *)
(* request.                                                                *)
LEMMA SameEffect ==
  ASSUME NEW a, NEW format, IsArgumentSet(a), IsExact(a), Accepts(a, format)
  PROVE  Effective(Request(Canonical(a))) = Effective(Request(a))
  <1> DEFINE r == Request(a)
             q == Request(Canonical(a))
             off(x, k) == (k \in TileKeys /\ ~x["tile"]) \/ (k = "maxDepth" /\ x["maxPointsPerTile"] = 0)
  <1>0. ~Vanishes(a)
    BY ExactStays
  <1>1. q["tile"] = r["tile"]
    BY SameTiling
  <1>2. "maxDepth" \in TileKeys
    BY DEF TileKeys, BudgetKeys
  <1>3. r["tile"] => q["maxPointsPerTile"] = r["maxPointsPerTile"]
    BY <1>0, Planners
  <1>4. \A k : off(q, k) <=> off(r, k)
    BY <1>1, <1>2, <1>3
  <1>5. ASSUME NEW k \in KnownKeys, ~off(r, k) PROVE q[k] = r[k]
    <2>1. CASE Shown(r, k)
      <3>1. CASE k = "tile"
        BY <1>1, <3>1
      <3>2. CASE k # "tile"
        <4>1. q[k] = Printed(k, r[k])
          BY <2>1, <3>2, CanonicalRequest
        <4>2. CASE k = "attributes"
          BY <4>1, <4>2, PrintedAsIs
        <4>3. CASE k # "attributes"
          <5>1. r[k] # Default[k]
            BY <2>1 DEF Shown
          <5>2. k \in DOMAIN a /\ r[k] = a[k]
            BY <3>2, <4>3, <5>1, RequestIs DEF Value
          <5>3. Printed(k, a[k]) = a[k]
            BY <5>2 DEF IsExact
          <5> QED
            BY <4>1, <5>2, <5>3
        <4> QED
          BY <4>2, <4>3
      <3> QED
        BY <3>1, <3>2
    <2>2. CASE ~Shown(r, k) /\ r[k] = Default[k]
      <3>1. CASE k = "tile"
        BY <1>1, <3>1
      <3>2. CASE k # "tile"
        BY <2>2, <3>2, CanonicalRequest
      <3> QED
        BY <3>1, <3>2
    <2>3. CASE ~Shown(r, k) /\ r[k] # Default[k]
      <3>1. k \in TileKeys => r["tile"]
        BY <1>5
      <3>2. k \in {"tileSize", "minPointsPerTile", "maxDepth"}
        BY <2>3, <3>1 DEF Shown
      <3>3. r["maxPointsPerTile"] \in Nat /\ r["tileSize"] \in Nat /\ r["minPointsPerTile"] \in Nat
        BY <1>0, AcceptedIs DEF Counts
      <3>4. /\ r["maxPointsPerTile"] > 0 => r["tileSize"] = 0
            /\ r["minPointsPerTile"] > 0 => r["maxPointsPerTile"] > 0
        BY <1>0, Planners
      <3>5. CASE k = "tileSize"
        <4>1. r["maxPointsPerTile"] # 0
          BY <2>3, <3>1, <3>5 DEF Shown
        <4>2. r["tileSize"] = 0
          BY <3>3, <3>4, <4>1
        <4> QED
          BY <2>3, <3>5, <4>2, NumberDefaults
      <3>6. CASE k = "minPointsPerTile"
        <4>1. ~(r["maxPointsPerTile"] > 0)
          BY <2>3, <3>1, <3>6 DEF Shown
        <4>2. r["minPointsPerTile"] = 0
          BY <3>3, <3>4, <4>1
        <4> QED
          BY <2>3, <3>6, <4>2, NumberDefaults
      <3>7. CASE k = "maxDepth"
        <4>1. ~(r["maxPointsPerTile"] > 0)
          BY <2>3, <3>1, <3>7 DEF Shown
        <4> QED
          BY <1>5, <3>3, <3>7, <4>1
      <3> QED
        BY <3>2, <3>5, <3>6, <3>7
    <2> QED
      BY <2>1, <2>2, <2>3
  <1>6. Effective(r) = [k \in KnownKeys |-> IF off(r, k) THEN Default[k] ELSE r[k]]
    BY Zenon DEF Effective
  <1>7. Effective(q) = [k \in KnownKeys |-> IF off(q, k) THEN Default[k] ELSE q[k]]
    BY Zenon DEF Effective
  <1>8. \A k \in KnownKeys : (IF off(q, k) THEN Default[k] ELSE q[k])
                              = (IF off(r, k) THEN Default[k] ELSE r[k])
    BY <1>4, <1>5
  <1> HIDE DEF r, q, off
  <1>9. Effective(q) = Effective(r)
    BY <1>6, <1>7, <1>8
  <1> QED
    BY <1>9 DEF q, r

(* A value that parses does so as it is printed.                           *)
LEMMA PrintedParses ==
  ASSUME NEW k \in KnownKeys, NEW v, NEW format, Plausible(k, v), Parses(k, v, format)
  PROVE  Parses(k, Printed(k, v), format)
  <1>1. CASE k = "tileSize"
    <2>1. \A x : Parses("tileSize", x, format) <=> x > 0
      BY DEF Parses, MemoryKeys
    <2>2. v > 0 /\ v \in Int \ (1..4)
      BY <1>1, <2>1, Zenon DEF Plausible
    <2>3. SixDecimals(v) > 0
      BY <2>2, SixDecimalsIs
    <2> QED
      BY <1>1, <2>1, <2>3, Zenon DEF Printed
  <1>2. CASE k = "bounds"
    <2>1. \A x : Parses("bounds", x, format) <=> x[1] <= x[2]
      BY DEF Parses, MemoryKeys
    <2>2. CASE v = <<>>
      <3>1. [i \in DOMAIN v |-> SixDecimals(v[i])] = v
        BY <2>2
      <3> QED
        BY <1>2, <3>1, Zenon DEF Printed
    <2>3. CASE v \in [1..2 -> Int]
      <3>1. v[1] <= v[2]
        BY <1>2, <2>1, Zenon
      <3>2. SixDecimals(v[1]) <= SixDecimals(v[2])
        BY <2>3, <3>1, SixDecimalsIs
      <3> DEFINE w == [i \in DOMAIN v |-> SixDecimals(v[i])]
      <3>3. w[1] <= w[2]
        BY <2>3, <3>2
      <3>4. Printed("bounds", v) = w
        BY Zenon DEF Printed
      <3> HIDE DEF w
      <3> QED
        BY <1>2, <2>1, <3>3, <3>4, Zenon
    <2> QED
      BY <1>2, <2>2, <2>3 DEF Plausible
  <1>3. CASE k # "tileSize" /\ k # "bounds"
    BY <1>3, PrintedAsIs
  <1> QED
    BY <1>1, <1>2, <1>3

(* The whole groups of names that exist exist.                             *)
LEMMA GroupParses ==
  ASSUME NEW names, NEW format, Parses("attributes", names, format)
  PROVE  Parses("attributes", AllSelected(names), format)
  <1>1. \A x : Parses("attributes", x, format) <=>
                  /\ x # {} /\ "" \notin x
                  /\ format = "ply" \/ x \subseteq LasNames
    BY Zenon DEF Parses, MemoryKeys
  <1>2. \A n : n \in AllSelected(names) <=> n = "xyz" \/ \E m \in names : n \in GroupOf(m)
    BY DEF AllSelected
  <1>3. "xyz" \in AllSelected(names) /\ "xyz" \in LasNames
    BY <1>2 DEF LasNames
  <1>4. "" \notin AllSelected(names)
    <2>1. ASSUME NEW m \in names PROVE "" \notin GroupOf(m)
      <3>1. m # ""
        BY <1>1
      <3> QED
        BY <3>1 DEF GroupOf, Rgb, Returns, Waveform, Waveforms
    <2> QED
      BY <1>2, <2>1
  <1>5. ASSUME names \subseteq LasNames PROVE AllSelected(names) \subseteq LasNames
    <2>1. ASSUME NEW m \in LasNames PROVE GroupOf(m) \subseteq LasNames
      BY DEF GroupOf, Rgb, Returns, Waveform, Waveforms, LasNames
    <2> QED
      BY <1>2, <1>3, <1>5, <2>1
  <1> QED
    BY <1>1, <1>3, <1>4, <1>5

LEMMA CanonicalConsistent ==
  ASSUME NEW a, NEW format, IsArgumentSet(a), ~Vanishes(a), Accepts(a, format)
  PROVE  Consistent(Request(Canonical(a)))
  <1> DEFINE r == Request(a)
             q == Request(Canonical(a))
  <1>1. q["tile"] = r["tile"]
    BY SameTiling
  <1>2. Consistent(r)
    BY DEF Accepts
  <1>3. \A k \in MemoryKeys : q[k] > 0
    BY <1>2, Planners, Zenon DEF Consistent
  <1>4. r["maxPointsPerTile"] \in Nat /\ r["minPointsPerTile"] \in Nat /\ r["tileSize"] \in Nat
    BY AcceptedIs DEF Counts
  <1>5. /\ r["tile"] => r["tileSize"] > 0 \/ r["maxPointsPerTile"] > 0
        /\ r["maxPointsPerTile"] > 0 => r["minPointsPerTile"] <= r["maxPointsPerTile"]
    BY <1>2, Zenon DEF Consistent
  <1>6. r["tileSize"] > 0 => Printed("tileSize", r["tileSize"]) > 0
    <2>1. r["tileSize"] > 0 => r["tileSize"] >= 5
      <3>1. Plausible("tileSize", r["tileSize"])
        BY AcceptedIs, CountKeysAre DEF Counts
      <3> QED
        BY <1>4, <3>1 DEF Plausible
    <2> QED
      BY <1>4, <2>1, SixDecimalsIs DEF Printed
  <1>7. q["tile"] => q["tileSize"] > 0 \/ q["maxPointsPerTile"] > 0
    BY <1>1, <1>5, <1>6, Planners
  <1>8. q["tile"] => q["payloadDirectory"] # "" /\ q["lod"] = "off"
    BY <1>1, <1>2, Planners, Zenon DEF Consistent
  <1>9. q["maxPointsPerTile"] > 0 =>
           q["tileSize"] = 0 /\ q["minPointsPerTile"] <= q["maxPointsPerTile"]
    <2>1. CASE r["tile"]
      <3>1. Printed("tileSize", 0) = 0
        BY SixDecimalsIs DEF Printed
      <3> QED
        BY <1>5, <2>1, <3>1, Planners
    <2>2. CASE ~r["tile"]
      BY <2>2, Planners
    <2> QED
      BY <2>1, <2>2
  <1>10. q["minPointsPerTile"] > 0 => q["maxPointsPerTile"] > 0
    BY Planners
  <1> HIDE DEF q, r
  <1>11. Consistent(q)
    BY <1>3, <1>7, <1>8, <1>9, <1>10, Zenon DEF Consistent
  <1> QED
    BY <1>11 DEF q

LEMMA CanonicalAccepted ==
  ASSUME NEW a, NEW format, IsArgumentSet(a), ~Vanishes(a), Accepts(a, format)
  PROVE  Accepts(Canonical(a), format)
  <1> DEFINE c == Canonical(a)
             r == Request(a)
  <1>1. \A k \in DOMAIN a : Takes(format, k) /\ Parses(k, a[k], format)
    BY Zenon DEF Accepts
  <1>2. ASSUME NEW k \in DOMAIN c
        PROVE  Takes(format, k) /\ Parses(k, c[k], format)
    <2>1. k \in KnownKeys /\ Shown(r, k) /\ c[k] = Printed(k, r[k])
      BY CanonicalHas
    <2>2. CASE k = "tile"
      <3>1. \A x : Parses("tile", x, format)
        BY Zenon DEF Parses, MemoryKeys
      <3>2. k \notin PlyKeys \cup BudgetKeys
        BY <2>2 DEF PlyKeys, BudgetKeys
      <3> QED
        BY <2>1, <2>2, <3>1, <3>2 DEF Takes
    <2>3. CASE k # "tile"
      <3>1. k \in DOMAIN a /\ Plausible(k, r[k])
        BY <2>1, <2>3, AcceptedIs DEF Shown
      <3>2. CASE k = "attributes"
        <4>1. r[k] = AllSelected(a[k]) /\ c[k] = r[k]
          BY <2>1, <3>1, <3>2, RequestIs, PrintedAsIs
        <4> QED
          BY <1>1, <3>1, <3>2, <4>1, GroupParses
      <3>3. CASE k # "attributes"
        <4>1. r[k] = a[k]
          BY <2>1, <2>3, <3>1, <3>3, RequestIs DEF Value
        <4> QED
          BY <1>1, <2>1, <3>1, <4>1, PrintedParses
      <3> QED
        BY <3>2, <3>3
    <2> QED
      BY <2>2, <2>3
  <1> HIDE DEF c
  <1>3. Accepts(c, format)
    BY <1>2, CanonicalConsistent, Zenon DEF Accepts, c
  <1> QED
    BY <1>3 DEF c

(* Arguments at their defaults, but for those of tiling, change nothing.   *)
LEMMA DefaultsDropped ==
  ASSUME NEW a, NEW format, Accepts(a, format)
  PROVE  Canonical(Without(a, AtDefault(a) \ (TileKeys \cup {"tile"}))) = Canonical(a)
  <1> DEFINE d == Without(a, AtDefault(a) \ (TileKeys \cup {"tile"}))
  <1>1. /\ DOMAIN d = {key \in DOMAIN a : key \in TileKeys \cup {"tile"} \/ a[key] # Default[key]}
        /\ \A k \in DOMAIN d : d[k] = a[k]
    BY DEF Without, AtDefault
  <1> HIDE DEF d
  <1>2. \A k : Value(d, k) = Value(a, k)
    BY <1>1 DEF Value
  <1>3. /\ TileKeys \cap DOMAIN d = TileKeys \cap DOMAIN a
        /\ "tile" \in DOMAIN d <=> "tile" \in DOMAIN a
    BY <1>1
  <1>4. {"tileSize", "tileMemoryLimit"} \cap DOMAIN d = {"tileSize", "tileMemoryLimit"} \cap DOMAIN a
    BY <1>3 DEF TileKeys
  <1>5. IsTiled(d) = IsTiled(a)
    BY <1>2, <1>3, <1>4, Zenon DEF IsTiled
  <1>6. "attributes" \in DOMAIN a => a["attributes"] # {}
    <2>1. \A x : Parses("attributes", x, format) => x # {}
      BY Zenon DEF Parses, MemoryKeys
    <2> QED
      BY <2>1, Zenon DEF Accepts
  <1>7. "attributes" \in DOMAIN d <=> "attributes" \in DOMAIN a
    BY <1>1, <1>6, DefaultsAre
  <1>8. \A k \in KnownKeys : Request(d)[k] = Request(a)[k]
    <2>1. Request(d)["tile"] = Request(a)["tile"]
      BY <1>5, RequestIs, Zenon
    <2>2. Request(d)["attributes"] = Request(a)["attributes"]
      BY <1>1, <1>7, RequestIs
    <2>3. \A k \in KnownKeys \ {"tile", "attributes"} : Request(d)[k] = Request(a)[k]
      BY <1>2, RequestIs
    <2> QED
      BY <2>1, <2>2, <2>3
  <1>9. Same(a, d)
    <2>1. {"tile", "maxPointsPerTile"} \subseteq KnownKeys
      BY DEF KnownKeys, TileKeys, BudgetKeys
    <2>2. Request(d)["tile"] = Request(a)["tile"]
          /\ Request(d)["maxPointsPerTile"] = Request(a)["maxPointsPerTile"]
      BY <1>8, <2>1
    <2>3. ASSUME NEW k \in KnownKeys PROVE Shown(Request(d), k) <=> Shown(Request(a), k)
      BY <1>8, <2>2 DEF Shown
    <2> QED
      BY <1>8, <2>3 DEF Same
  <1> QED
    BY <1>9, CanonicalTwice DEF d

(* NormalizeFileFormatArguments: the canonical arguments of a layer are    *)
(* accepted by the same format and their own canonical form and cache      *)
(* entry name, for all accepted arguments but a tile size below half a     *)
(* millionth; where six decimals say everything they come to the same      *)
(* request exactly; and arguments at their defaults, but for those that    *)
(* turn tiling on or off, do not change them.                              *)
THEOREM CanonicalStable == ReadSpec => []CanonicalIsStable
  <1>1. ASSUME ReadInv PROVE CanonicalIsStable
    <2> DEFINE a == read.args
               c == Canonical(a)
    <2>1. SUFFICES ASSUME Acceptable
                   PROVE  /\ ~Vanishes(a) =>
                                /\ Accepts(c, read.format)
                                /\ Canonical(c) = c /\ KeyArguments(c) = KeyArguments(a)
                          /\ IsExact(a) => ~Vanishes(a) /\ Effective(Request(c)) = Effective(Request(a))
                          /\ Canonical(Without(a, AtDefault(a) \ (TileKeys \cup {"tile"}))) = c
      BY DEF CanonicalIsStable
    <2>2. IsArgumentSet(a) /\ Accepts(a, read.format)
      BY <1>1, <2>1, ReadAssumption DEF ReadInv, Acceptable
    <2>3. ASSUME ~Vanishes(a)
          PROVE  Accepts(c, read.format) /\ Canonical(c) = c /\ KeyArguments(c) = KeyArguments(a)
      <3>1. Accepts(c, read.format)
        BY <2>2, <2>3, CanonicalAccepted
      <3>2. Canonical(c) = c
        BY <2>2, <2>3, ShownTwice, CanonicalTwice
      <3> QED
        BY <3>1, <3>2, Zenon DEF KeyArguments
    <2>4. IsExact(a) => ~Vanishes(a) /\ Effective(Request(c)) = Effective(Request(a))
      BY <2>2, ExactStays, SameEffect
    <2>5. Canonical(Without(a, AtDefault(a) \ (TileKeys \cup {"tile"}))) = c
      BY <2>2, DefaultsDropped
    <2> QED
      BY <2>3, <2>4, <2>5
  <1> QED
    BY <1>1, ReadHolds, PTL

-----------------------------------------------------------------------------
(* Levels of detail: what BuildPointLodAssets gets from SamplePointData    *)
(* for any number of points: levels that can be sampled, a hierarchy that  *)
(* is accepted, and in each level distinct points of the cloud in their    *)
(* order.                                                                  *)

(* The number of points of a level is one at least and all at most: the    *)
(* sampling of BuildPointLodAssets never refuses a level.                  *)
LEMMA TargetInRange ==
  ASSUME NEW n \in Nat, n > 0, NEW d \in Nat, d > 0
  PROVE  Target(n, d) \in 1..n
  <1> DEFINE q == (n + d - 1) \div d
  <1>1. q \in Nat /\ d * q <= n + d - 1
    BY Division
  <1>2. q <= n
    <2>1. SUFFICES ASSUME n + 1 <= q PROVE FALSE
      BY <1>1
    <2>2. d * (n + 1) <= d * q
      BY <1>1, <2>1, Product
    <2>3. d * (n + 1) = d * n + d
      OBVIOUS
    <2>4. n * 1 <= n * d
      BY Product
    <2>5. n * d = d * n /\ n * 1 = n
      OBVIOUS
    <2> QED
      BY <1>1, <2>2, <2>3, <2>4, <2>5
  <1> QED
    BY <1>1, <1>2 DEF Target

(* SamplePointData takes points of the cloud, the first one first, in      *)
(* their order and none of them twice, whatever the rounding.              *)
THEOREM SampleIsOrdered ==
  ASSUME NEW n \in Nat, NEW target \in Nat, SamplingIsValid(n, target)
  PROVE  /\ Sample(n, target)[0] = 0
         /\ \A i \in 0..(target - 1) : Sample(n, target)[i] \in 0..(n - 1)
         /\ \A i, j \in 0..(target - 1) :
               i < j => Sample(n, target)[i] < Sample(n, target)[j]
  <1>1. target > 0 /\ target <= n
    BY DEF SamplingIsValid
  <1>2. \A i \in 0..(target - 1) :
          /\ i \in Nat /\ i * n \in Nat
          /\ Sample(n, target)[i] = (i * n) \div target
    BY <1>1 DEF Sample, SourceIndex
  <1>3. \A i \in 0..(target - 1) : (i * n) \div target \in 0..(n - 1)
    <2> TAKE i \in 0..(target - 1)
    <2> DEFINE q == (i * n) \div target
    <2>1. q \in Nat /\ target * q <= i * n
      BY <1>1, <1>2, Division
    <2>2. SUFFICES ASSUME n <= q PROVE FALSE
      BY <2>1, <1>1
    <2>3. target * n <= target * q
      BY <2>1, <2>2, Product
    <2>4. n * (i + 1) <= n * target
      BY <1>1, <1>2, Product
    <2>5. n * (i + 1) = i * n + n /\ n * target = target * n
      BY <1>2
    <2> QED
      BY <1>1, <1>2, <2>1, <2>3, <2>4, <2>5
  <1>4. ASSUME NEW i \in 0..(target - 1), NEW j \in 0..(target - 1), i < j
        PROVE  (i * n) \div target < (j * n) \div target
    <2> DEFINE q == (i * n) \div target
    <2>1. q \in Nat /\ target * q <= i * n
      BY <1>1, <1>2, Division
    <2>2. n * (i + 1) <= n * j
      BY <1>2, <1>4, Product
    <2>3. n * (i + 1) = i * n + n /\ n * j = j * n
      BY <1>2
    <2>4. target * (q + 1) = target * q + target
      BY <2>1
    <2>5. target * (q + 1) <= j * n
      BY <1>1, <1>2, <2>1, <2>2, <2>3, <2>4
    <2>6. q + 1 <= (j * n) \div target
      BY <1>1, <1>2, <2>1, <2>5, AtLeast
    <2> QED
      BY <1>1, <1>2, <2>1, <2>6, Division
  <1>5. Sample(n, target)[0] = 0
    <2>1. (0 * n) \div target = 0 \div target
      OBVIOUS
    <2>2. 0 \div target \in Nat /\ target * (0 \div target) <= 0
      BY <1>1, Division
    <2>3. ASSUME 0 \div target > 0 PROVE FALSE
      BY <1>1, <2>2, <2>3
    <2> QED
      BY <1>1, <1>2, <2>1, <2>2, <2>3
  <1> QED
    BY <1>2, <1>3, <1>4, <1>5

(* A coarser level never has more points than a finer one.                 *)
LEMMA TargetShrinks ==
  ASSUME NEW n \in Nat, n > 0
  PROVE  /\ Target(n, 16) <= Target(n, 4)
         /\ Target(n, 64) <= Target(n, 16)
  BY DEF Target

(* For any cloud that has points and any profile the levels can be         *)
(* sampled, and their hierarchy is one that ValidatePointLodHierarchy and  *)
(* AuthorPointCloudLodAsset take: a lod read fails for its source only.    *)
THEOREM LodAlwaysAuthored ==
  ASSUME NEW n \in Nat, n > 0, NEW profile \in Profiles
  PROVE  LodAuthored(n, profile)
  <1> DEFINE targets == Targets(n, profile)
             levels  == Coarser(profile)
  <1>1. levels \in {1..1, 1..2, 1..3}
    BY DEF Coarser
  <1>2. DOMAIN targets = {0} \cup levels
    BY DEF Targets
  <1>3. targets[0] = n /\ \A l \in levels : targets[l] = Target(n, Divisor(l))
    BY <1>1 DEF Targets
  <1>4. \A l \in DOMAIN targets : targets[l] \in 1..n
    <2>1. \A l \in levels : Target(n, Divisor(l)) \in 1..n
      <3> TAKE l \in levels
      <3>1. Divisor(l) \in Nat /\ Divisor(l) > 0
        BY DEF Divisor
      <3> QED
        BY <3>1, TargetInRange
    <2> QED
      BY <2>1, <1>2, <1>3
  <1>5. \A l \in levels : targets[l] <= targets[l - 1]
    <2> TAKE l \in levels
    <2>1. CASE l = 1
      BY <2>1, <1>2, <1>3, <1>4
    <2>2. CASE l = 2
      <3>1. 1 \in levels
        BY <1>1, <2>2
      <3> QED
        BY <2>2, <3>1, <1>3, TargetShrinks DEF Divisor
    <2>3. CASE l = 3
      <3>1. 2 \in levels
        BY <1>1, <2>3
      <3> QED
        BY <2>3, <3>1, <1>3, TargetShrinks DEF Divisor
    <2> QED
      BY <1>1, <2>1, <2>2, <2>3
  <1>6. HierarchyValid(targets, Thresholds(profile))
    <2>1. DOMAIN Thresholds(profile) = levels
      BY DEF Thresholds
    <2>2. \A l \in levels :
            /\ Thresholds(profile)[l] > 0
            /\ l > 1 => Thresholds(profile)[l] < Thresholds(profile)[l - 1]
      BY <1>1 DEF Thresholds
    <2> QED
      BY <1>1, <1>2, <1>4, <1>5, <2>1, <2>2 DEF HierarchyValid
  <1>7. \A l \in DOMAIN targets : SamplingIsValid(n, targets[l])
    BY <1>4 DEF SamplingIsValid
  <1> QED
    BY <1>6, <1>7 DEF LodAuthored

=============================================================================
