------------------------------ MODULE StreamProofs ------------------------------
(***************************************************************************)
(* Tiled authoring from a stream, for any number of reads that share the   *)
(* spool directory, any contents, any memory limit and any interleaving:   *)
(* the types of its state, the bound on the points held in memory, who     *)
(* removes the spool directory, and what a successful read has authored.   *)
(***************************************************************************)
EXTENDS StreamAuthoring, FiniteSetTheorems, SequenceTheorems, TLAPS

(* Operators of the model: overwriting, routes, inodes, and the count of   *)
(* the points held back.                                                   *)

LEMMA MaxOfTwo ==
  ASSUME NEW a \in Int, NEW b \in Int
  PROVE  Max({a, b}) = IF a >= b THEN a ELSE b
  <1>1. \E x \in {a, b} : \A y \in {a, b} : x >= y
    OBVIOUS
  <1>2. Max({a, b}) \in {a, b} /\ \A y \in {a, b} : Max({a, b}) >= y
    BY <1>1 DEF Max
  <1> QED
    BY <1>2

LEMMA OverwriteIs ==
  ASSUME NEW S, Hole \in S, NEW old \in Seq(S), NEW at \in Nat, NEW new \in Seq(S)
  PROVE  LET out == Overwrite(old, at, new)
         IN  /\ out \in Seq(S)
             /\ Len(out) = IF Len(old) >= at + Len(new) THEN Len(old) ELSE at + Len(new)
             /\ \A i \in 1..Len(out) :
                  out[i] = IF i \in at+1 .. at+Len(new) THEN new[i - at]
                           ELSE IF i <= Len(old) THEN old[i] ELSE Hole
  <1> DEFINE n == IF Len(old) >= at + Len(new) THEN Len(old) ELSE at + Len(new)
             val(i) == IF i \in at+1 .. at+Len(new) THEN new[i - at]
                       ELSE IF i <= Len(old) THEN old[i] ELSE Hole
  <1>1. Len(old) \in Nat /\ Len(new) \in Nat /\ n \in Nat
    OBVIOUS
  <1>2. Max({Len(old), at + Len(new)}) = n
    BY <1>1, MaxOfTwo
  <1>3. \A i \in 1..n : val(i) \in S
    BY <1>1
  <1>4. Overwrite(old, at, new) = [i \in 1..n |-> val(i)]
    BY <1>2 DEF Overwrite
  <1> HIDE DEF n, val
  <1>5. [i \in 1..n |-> val(i)] \in Seq(S)
    BY <1>1, <1>3
  <1>6. Len([i \in 1..n |-> val(i)]) = n
    BY <1>1
  <1>7. \A j \in 1..n : [i \in 1..n |-> val(i)][j] = val(j)
    OBVIOUS
  <1> QED
    BY <1>4, <1>5, <1>6, <1>7 DEF n, val

LEMMA RoutesAre ==
  ASSUME NEW c \in Contents
  PROVE  /\ Route[c] \in Seq(Tiles) /\ Len(Route[c]) \in Nat
         /\ \A n \in 1..Len(Route[c]) : Route[c][n] \in Tiles /\ <<c, n>> \in Points
  BY StreamAssumption DEF Points

LEMMA TileCount ==
  /\ IsFiniteSet(Tiles) /\ Cardinality(Tiles) \in Nat
  /\ IsFiniteSet(Slots) /\ Cardinality(Slots) = Cardinality(Tiles)
  <1>1. IsFiniteSet(Tiles) /\ Cardinality(Tiles) \in Nat
    BY StreamAssumption, FS_CardinalityType
  <1> QED
    BY <1>1, FS_Interval DEF Slots

(* A function takes at most as many values as it has arguments.            *)
LEMMA ValuesAreFew ==
  ASSUME NEW D, IsFiniteSet(D), NEW h, h = [x \in D |-> h[x]]
  PROVE  /\ IsFiniteSet({h[x] : x \in D}) /\ Cardinality({h[x] : x \in D}) \in Nat
         /\ Cardinality({h[x] : x \in D}) <= Cardinality(D)
  <1> DEFINE V == {h[x] : x \in D}
  <1>1. h \in Surjection(D, V)
    BY DEF Surjection
  <1> HIDE DEF V
  <1>2. IsFiniteSet(V) /\ Cardinality(V) <= Cardinality(D)
    BY <1>1, FS_Surjection
  <1> QED
    BY <1>2, FS_CardinalityType DEF V

(* There is an inode left when a spool is opened.                          *)
LEMMA FreeFile ==
  ASSUME entry \in [Slots -> Files \cup {None}],
         file \in [Reads -> [Tiles -> Files \cup {None}]],
         NEW k \in Slots, entry[k] = None
  PROVE  \E f \in Files : f \notin Busy
  <1> DEFINE D == Slots \ {k}
             g == [j \in D |-> entry[j]]
             P == Reads \X Tiles
             h == [p \in P |-> file[p[1]][p[2]]]
             E == {g[j] : j \in D}
             F == {h[p] : p \in P}
  <1>1. /\ IsFiniteSet(D) /\ Cardinality(D) = Cardinality(Tiles) - 1
    BY TileCount, FS_RemoveElement
  <1>2. /\ IsFiniteSet(P) /\ Cardinality(P) = Cardinality(Reads) * Cardinality(Tiles)
    BY StreamAssumption, FS_Product
  <1>3. IsFiniteSet(E) /\ Cardinality(E) \in Nat /\ Cardinality(E) <= Cardinality(Tiles) - 1
    <2>1. g = [j \in D |-> g[j]]
      OBVIOUS
    <2> HIDE DEF g, D
    <2> QED
      BY <1>1, <2>1, ValuesAreFew
  <1>4. /\ IsFiniteSet(F) /\ Cardinality(F) \in Nat
        /\ Cardinality(F) <= Cardinality(Reads) * Cardinality(Tiles)
    <2>1. h = [p \in P |-> h[p]]
      OBVIOUS
    <2> HIDE DEF h, P
    <2> QED
      BY <1>2, <2>1, ValuesAreFew
  <1>5. IsFiniteSet(E \cup F) /\ Cardinality(E \cup F) \in Nat
        /\ Cardinality(E \cup F) <= Cardinality(E) + Cardinality(F)
    <2> HIDE DEF E, F
    <2>1. IsFiniteSet(E \cup F) /\ IsFiniteSet(E \cap F)
      BY <1>3, <1>4, FS_Union, FS_Intersection
    <2>2. Cardinality(E \cap F) \in Nat /\ Cardinality(E \cup F) \in Nat
      BY <2>1, FS_CardinalityType
    <2>3. Cardinality(E \cup F) = Cardinality(E) + Cardinality(F) - Cardinality(E \cap F)
      BY <1>3, <1>4, FS_Union
    <2> QED
      BY <1>3, <1>4, <2>1, <2>2, <2>3
  <1>6. Files \cap Busy \subseteq E \cup F
    <2>1. ASSUME NEW f \in Files, NEW j \in Slots, f = entry[j] PROVE f \in E
      <3>1. j \in D
        BY <2>1, StreamAssumption
      <3> QED
        BY <2>1, <3>1
    <2>2. ASSUME NEW f \in Files, NEW r \in Reads, NEW t \in Tiles, f = file[r][t] PROVE f \in F
      <3>1. <<r, t>> \in P /\ h[<<r, t>>] = f
        BY <2>2
      <3> QED
        BY <3>1
    <2> QED
      BY <2>1, <2>2 DEF Busy
  <1>7. Cardinality(Reads) \in Nat /\ Cardinality(Tiles) \in Nat /\ Cardinality(Files) \in Nat
    BY StreamAssumption, FS_CardinalityType
  <1> HIDE DEF E, F
  <1>8. ASSUME Files \subseteq E \cup F PROVE FALSE
    <2>1. Cardinality(Files) <= Cardinality(E \cup F)
      BY <1>5, <1>8, FS_Subset
    <2>2. Cardinality(Files) >= (Cardinality(Reads) + 1) * Cardinality(Tiles)
      BY StreamAssumption, TileCount
    <2>3. (Cardinality(Reads) + 1) * Cardinality(Tiles)
            = Cardinality(Reads) * Cardinality(Tiles) + Cardinality(Tiles)
      BY <1>7
    <2> DEFINE m == Cardinality(Reads) * Cardinality(Tiles)
    <2>4. m \in Nat
      BY <1>7
    <2>5. Cardinality(F) <= m /\ Cardinality(Files) >= m + Cardinality(Tiles)
      BY <1>4, <2>2, <2>3
    <2> HIDE DEF m
    <2> QED
      BY <1>3, <1>4, <1>5, <1>7, <2>1, <2>4, <2>5
  <1> QED
    BY <1>6, <1>8

(* Counting what the writers of a read hold back.                          *)
Places(b) == UNION {{t} \X DOMAIN b[t] : t \in Tiles}

LEMMA ColumnCount ==
  ASSUME NEW t, NEW n \in Nat
  PROVE  IsFiniteSet({t} \X (1..n)) /\ Cardinality({t} \X (1..n)) = n
  <1>1. IsFiniteSet(1..n) /\ Cardinality(1..n) = n
    <2>1. 1 \in Int /\ n \in Int
      OBVIOUS
    <2>2. IsFiniteSet(1..n) /\ Cardinality(1..n) = IF 1 > n THEN 0 ELSE n-1+1
      BY ONLY <2>1, FS_Interval
    <2> QED
      BY <2>2
  <1>2. IsFiniteSet({t}) /\ Cardinality({t}) = 1
    BY FS_Singleton
  <1> DEFINE S == {t}
             T == 1..n
  <1>3. IsFiniteSet(S) /\ IsFiniteSet(T)
    BY <1>1, <1>2
  <1> HIDE DEF S, T
  <1>4. IsFiniteSet(S \X T) /\ Cardinality(S \X T) = Cardinality(S) * Cardinality(T)
    BY <1>3, FS_Product
  <1>5. Cardinality(S) = 1 /\ Cardinality(T) = n
    BY <1>1, <1>2 DEF S, T
  <1>6. Cardinality(S \X T) = n
    BY <1>4, <1>5
  <1> QED
    BY <1>4, <1>6 DEF S, T

LEMMA PlacesFinite ==
  ASSUME NEW b \in [Tiles -> Seq(Points)]
  PROVE  IsFiniteSet(Places(b)) /\ Cardinality(Places(b)) \in Nat
  <1> DEFINE h == [t \in Tiles |-> {t} \X DOMAIN b[t]]
  <1>1. \A t \in Tiles : IsFiniteSet(h[t])
    <2> SUFFICES ASSUME NEW t \in Tiles PROVE IsFiniteSet({t} \X DOMAIN b[t])
      OBVIOUS
    <2>1. DOMAIN b[t] = 1..Len(b[t]) /\ Len(b[t]) \in Nat
      OBVIOUS
    <2> QED
      BY <2>1, ColumnCount
  <1>2. Places(b) = UNION {h[t] : t \in Tiles}
    BY DEF Places
  <1>3. h = [t \in Tiles |-> h[t]]
    OBVIOUS
  <1> HIDE DEF h
  <1>4. IsFiniteSet({h[t] : t \in Tiles})
    BY <1>3, StreamAssumption, ValuesAreFew
  <1> QED
    BY <1>1, <1>2, <1>4, FS_UNION, FS_CardinalityType

LEMMA PlacesGrow ==
  ASSUME NEW b \in [Tiles -> Seq(Points)], NEW t \in Tiles, NEW x \in Points
  PROVE  Cardinality(Places([b EXCEPT ![t] = Append(b[t], x)])) = Cardinality(Places(b)) + 1
  <1> DEFINE more == [b EXCEPT ![t] = Append(b[t], x)]
             p == <<t, Len(b[t]) + 1>>
  <1>1. DOMAIN Append(b[t], x) = DOMAIN b[t] \cup {Len(b[t]) + 1} /\ Len(b[t]) + 1 \notin DOMAIN b[t]
    OBVIOUS
  <1>2. Places(more) = Places(b) \cup {p}
    BY <1>1 DEF Places
  <1>3. p \notin Places(b)
    BY <1>1 DEF Places
  <1> QED
    BY <1>2, <1>3, PlacesFinite, FS_AddElement

LEMMA PlacesDrop ==
  ASSUME NEW b \in [Tiles -> Seq(Points)], NEW t \in Tiles
  PROVE  Cardinality(Places(b)) = Cardinality(Places([b EXCEPT ![t] = <<>>])) + Len(b[t])
  <1> DEFINE less == [b EXCEPT ![t] = <<>>]
             gone == {t} \X DOMAIN b[t]
  <1>1. less \in [Tiles -> Seq(Points)]
    OBVIOUS
  <1>2. IsFiniteSet(gone) /\ Cardinality(gone) = Len(b[t]) /\ Len(b[t]) \in Nat
    <2>1. DOMAIN b[t] = 1..Len(b[t]) /\ Len(b[t]) \in Nat
      OBVIOUS
    <2> QED
      BY <2>1, ColumnCount
  <1>3. Places(b) = Places(less) \cup gone /\ Places(less) \cap gone = {}
    <2>1. less[t] = <<>> /\ \A u \in Tiles \ {t} : less[u] = b[u]
      OBVIOUS
    <2>2. DOMAIN <<>> = {}
      OBVIOUS
    <2> HIDE DEF less
    <2> QED
      BY <2>1, <2>2 DEF Places
  <1> HIDE DEF gone, less
  <1>4. IsFiniteSet(Places(less)) /\ Cardinality(Places(less)) \in Nat
    BY <1>1, PlacesFinite
  <1>5. Cardinality(Places(less) \cup gone)
          = Cardinality(Places(less)) + Cardinality(gone) - Cardinality(Places(less) \cap gone)
    BY <1>2, <1>4, FS_Union
  <1>6. Cardinality(Places(less) \cap gone) = 0
    BY <1>3, FS_EmptySet
  <1> QED
    BY <1>2, <1>3, <1>4, <1>5, <1>6 DEF less

LEMMA PlacesNone ==
  ASSUME NEW b, \A t \in Tiles : b[t] = <<>>
  PROVE  Cardinality(Places(b)) = 0
  <1>1. Places(b) = {}
    BY DEF Places
  <1> QED
    BY <1>1, FS_EmptySet

-----------------------------------------------------------------------------
(* The invariant: the types, and per read what its writers hold - a file   *)
(* for exactly the spools it is streaming to, buffers and offsets only     *)
(* where there is a file, and as many points as the loop has counted.      *)
Stations == Rest \cup Opening \cup Working \cup Ending

Typed ==
    /\ source \in Contents
    /\ left \in BOOLEAN /\ space \in BOOLEAN
    /\ marker \in {"none", "empty", "whole"}
    /\ entry \in [Slots -> Files \cup {None}]
    /\ header \in [Files -> Tiles \cup {None}]
    /\ records \in [Files -> Seq(Records)]
    /\ alone \in [Reads -> BOOLEAN]
    /\ pc \in [Reads -> Stations]
    /\ content \in [Reads -> Contents]
    /\ position \in [Reads -> Nat]
    /\ slot \in [Reads -> [Tiles -> Slots \cup {0}]]
    /\ file \in [Reads -> [Tiles -> Files \cup {None}]]
    /\ buffer \in [Reads -> [Tiles -> Seq(Points)]]
    /\ offset \in [Reads -> [Tiles -> Nat]]
    /\ buffered \in [Reads -> Nat]
    /\ tiles \in [Reads -> [Tiles -> Seq(Points \cup {Hole})]]

(* A read that is not working on its spools has no writers. *)
NoWriters(r) ==
    /\ \A t \in Tiles : slot[r][t] = 0 /\ file[r][t] = None /\ buffer[r][t] = <<>> /\ offset[r][t] = 0
    /\ buffered[r] = 0

Writers(r) ==
    /\ position[r] <= Len(Route[content[r]])
    /\ pc[r] \in Rest \cup Opening \cup {"unmarked"} => NoWriters(r)
    /\ \A t \in Tiles : slot[r][t] = 0 => file[r][t] = None
    /\ \A t \in Tiles : file[r][t] = None => buffer[r][t] = <<>> /\ offset[r][t] = 0
    /\ pc[r] \in {"stream", "flush"} => \A t \in Tiles : file[r][t] = None => slot[r][t] = 0
    /\ pc[r] = "close" => \E t \in Tiles : file[r][t] # None
    /\ pc[r] = "stream" => buffered[r] = Cardinality(Held(r)) /\ buffered[r] < Limit

(* The inductive invariant of every theorem here.                          *)
IInv == Typed /\ \A r \in Reads : Writers(r)

LEMMA InvInit == Init => IInv
  <1> SUFFICES ASSUME Init PROVE IInv
    OBVIOUS
  <1>1. Typed
    <2>1. /\ entry \in [Slots -> Files \cup {None}] /\ header \in [Files -> Tiles \cup {None}]
          /\ records \in [Files -> Seq(Records)]
      BY DEF Init
    <2>2. alone \in [Reads -> BOOLEAN]
      BY DEF Init
    <2>3. pc \in [Reads -> Stations] /\ content \in [Reads -> Contents] /\ position \in [Reads -> Nat]
      BY DEF Init, Stations, Rest
    <2>4. /\ slot \in [Reads -> [Tiles -> Slots \cup {0}]] /\ offset \in [Reads -> [Tiles -> Nat]]
          /\ file \in [Reads -> [Tiles -> Files \cup {None}]]
          /\ buffered \in [Reads -> Nat]
      BY DEF Init
    <2>5. /\ buffer \in [Reads -> [Tiles -> Seq(Points)]]
          /\ tiles \in [Reads -> [Tiles -> Seq(Points \cup {Hole})]]
      BY DEF Init
    <2> QED
      BY <2>1, <2>2, <2>3, <2>4, <2>5 DEF Init, Typed
  <1>2. ASSUME NEW r \in Reads PROVE Writers(r)
    <2>1. Len(Route[content[r]]) \in Nat
      BY <1>1, RoutesAre DEF Typed
    <2> QED
      BY <2>1 DEF Init, Writers, NoWriters
  <1> QED
    BY <1>1, <1>2 DEF IInv

(* What a step of r leaves alone of another read. *)
Only(r) ==
    \A q \in Reads \ {r} :
      /\ pc'[q] = pc[q] /\ content'[q] = content[q] /\ position'[q] = position[q]
      /\ slot'[q] = slot[q] /\ file'[q] = file[q] /\ buffer'[q] = buffer[q] /\ offset'[q] = offset[q]
      /\ buffered'[q] = buffered[q] /\ tiles'[q] = tiles[q]

LEMMA WritersStay ==
  ASSUME NEW q \in Reads, Writers(q),
      pc'[q] = pc[q], content'[q] = content[q], position'[q] = position[q],
      slot'[q] = slot[q], file'[q] = file[q], buffer'[q] = buffer[q], offset'[q] = offset[q],
      buffered'[q] = buffered[q]
  PROVE  Writers(q)'
  BY DEF Writers, NoWriters, Held

LEMMA ReadAlone ==
  ASSUME IInv, NEW r \in Reads, Typed', Only(r), Writers(r)'
  PROVE  IInv'
  BY WritersStay DEF IInv, Only

-----------------------------------------------------------------------------
LEMMA LimitIsPositive == Limit \in Nat /\ 0 < Limit
  BY StreamAssumption

(* A read that only moves on. *)
LEMMA MovesOn ==
  ASSUME IInv, NEW r \in Reads, NEW there \in Stations, GoTo(r, there),
         UNCHANGED <<content, position, writers>>,
         there \in Rest \cup Opening \cup {"unmarked"} => NoWriters(r),
         there = "stream" => NoWriters(r),
         there \notin {"flush", "close"}
  PROVE  Writers(r)'
  <1>1. pc'[r] = there /\ Writers(r)
    BY DEF GoTo, IInv, Typed
  <1>2. NoWriters(r) => Cardinality(Held(r)) = 0
    BY PlacesNone DEF NoWriters, Held, Places
  <1>3. Held(r)' = Held(r) /\ (NoWriters(r)' <=> NoWriters(r))
    BY DEF Held, NoWriters, writers
  <1>4. there = "stream" => buffered[r] = Cardinality(Held(r)) /\ buffered[r] < Limit
    BY <1>2, LimitIsPositive DEF NoWriters
  <1>5. there = "stream" => \A t \in Tiles : file[r][t] = None => slot[r][t] = 0
    BY DEF NoWriters
  <1> QED
    BY <1>1, <1>3, <1>4, <1>5 DEF Writers, writers

LEMMA NextTile ==
  ASSUME IInv, NEW r \in Reads, position[r] < Len(Route[content[r]])
  PROVE  /\ Route[content[r]][position[r] + 1] \in Tiles
         /\ <<content[r], position[r] + 1>> \in Points
  <1>1. content[r] \in Contents /\ position[r] \in Nat
    BY DEF IInv, Typed
  <1>2. position[r] + 1 \in 1..Len(Route[content[r]])
    BY <1>1, RoutesAre
  <1> QED
    BY <1>1, <1>2, RoutesAre

LEMMA NextSlot ==
  ASSUME NEW r \in Reads, NEW t \in Tiles, t \notin Spooled(r)
  PROVE  Cardinality(Spooled(r)) + 1 \in Slots
  <1> DEFINE S == Spooled(r)
  <1>1. S \cup {t} \in SUBSET Tiles /\ S \in SUBSET Tiles /\ t \notin S
    BY DEF Spooled
  <1> HIDE DEF S
  <1>2. IsFiniteSet(S) /\ Cardinality(S) \in Nat
    BY <1>1, TileCount, FS_Subset, FS_CardinalityType
  <1>3. Cardinality(S \cup {t}) = Cardinality(S) + 1
    BY <1>1, <1>2, FS_AddElement
  <1>4. Cardinality(S \cup {t}) <= Cardinality(Tiles)
    BY <1>1, TileCount, FS_Subset
  <1>5. Cardinality(S) + 1 \in Slots
    BY <1>2, <1>3, <1>4, TileCount DEF Slots
  <1> QED
    BY <1>5 DEF S

LEMMA WritesRecords ==
  ASSUME Typed, NEW r \in Reads, NEW t \in Tiles, file[r][t] # None, NEW new \in Seq(Records),
         WriteOut(r, t, new)
  PROVE  header' \in [Files -> Tiles \cup {None}] /\ records' \in [Files -> Seq(Records)]
  <1> DEFINE f == file[r][t]
             out == Overwrite(records[f], offset[r][t], new)
  <1>1. f \in Files /\ records[f] \in Seq(Records) /\ offset[r][t] \in Nat
    BY DEF Typed
  <1>2. out \in Seq(Records)
    <2>1. Hole \in Records
      BY DEF Records
    <2> QED
      BY <1>1, <2>1, OverwriteIs
  <1>3. records' = [records EXCEPT ![f] = out]
    BY DEF WriteOut
  <1>4. header' = [header EXCEPT ![f] = IF offset[r][t] = 0 THEN t ELSE @]
    BY DEF WriteOut
  <1> QED
    BY <1>1, <1>2, <1>3, <1>4 DEF Typed

(* The writers of r go, and no one else's.                                 *)
LEMMA DropsWriters ==
  ASSUME Typed, NEW r \in Reads, DropWriters(r)
  PROVE  /\ slot' \in [Reads -> [Tiles -> Slots \cup {0}]]
         /\ file' \in [Reads -> [Tiles -> Files \cup {None}]]
         /\ buffer' \in [Reads -> [Tiles -> Seq(Points)]]
         /\ offset' \in [Reads -> [Tiles -> Nat]]
         /\ buffered' \in [Reads -> Nat]
         /\ NoWriters(r)'
         /\ \A q \in Reads \ {r} :
              /\ slot'[q] = slot[q] /\ file'[q] = file[q] /\ buffer'[q] = buffer[q]
              /\ offset'[q] = offset[q] /\ buffered'[q] = buffered[q]
  BY DEF Typed, DropWriters, NoWriters


-----------------------------------------------------------------------------
LEMMA StartInv ==
  ASSUME IInv, NEW r \in Reads, Start(r)
  PROVE  IInv' /\ Only(r)
  <1> Typed /\ Writers(r)
    BY DEF IInv
  <1>1. NoWriters(r)
    BY DEF Start, Active, Writers
  <1>2. /\ pc' = [pc EXCEPT ![r] = "space"]
        /\ content' = [content EXCEPT ![r] = source]
        /\ position' = [position EXCEPT ![r] = 0]
        /\ tiles' = [tiles EXCEPT ![r] = [t \in Tiles |-> <<>>]]
        /\ alone' = [q \in Reads |-> IF q = r THEN \A p \in Reads : ~Active(p)
                                     ELSE alone[q] /\ ~Active(q)]
        /\ UNCHANGED <<source, disk, writers>>
    BY DEF Start, GoTo
  <1>3. alone' \in [Reads -> BOOLEAN]
    <2>1. (\A p \in Reads : ~Active(p)) \in BOOLEAN
      OBVIOUS
    <2>2. \A q \in Reads : (alone[q] /\ ~Active(q)) \in BOOLEAN
      OBVIOUS
    <2> HIDE DEF Active
    <2> QED
      BY <1>2, <2>1, <2>2
  <1>4. /\ pc' \in [Reads -> Stations] /\ content' \in [Reads -> Contents]
        /\ position' \in [Reads -> Nat]
        /\ tiles' \in [Reads -> [Tiles -> Seq(Points \cup {Hole})]]
    BY <1>2 DEF Typed, Stations, Opening
  <1>5. Typed'
    BY <1>2, <1>3, <1>4 DEF Typed, disk, writers
  <1>6. Only(r)
    BY <1>2 DEF Only, Typed, writers
  <1>7. Writers(r)'
    <2>1. pc'[r] = "space" /\ position'[r] = 0 /\ content'[r] \in Contents
      BY <1>2 DEF Typed
    <2>2. Len(Route[content'[r]]) \in Nat
      BY <2>1, RoutesAre
    <2>3. NoWriters(r)'
      BY <1>1, <1>2 DEF NoWriters, writers
    <2> QED
      BY <2>1, <2>2, <2>3 DEF Writers, NoWriters
  <1> QED
    BY <1>5, <1>6, <1>7, ReadAlone

LEMMA AsideInv ==
  ASSUME IInv, NEW r \in Reads, NEW there \in Stations, GoTo(r, there),
         UNCHANGED <<source, alone, content, position, writers, tiles, header, records>>,
         left' \in BOOLEAN, space' \in BOOLEAN, marker' \in {"none", "empty", "whole"},
         entry' \in [Slots -> Files \cup {None}],
         there \in Rest \cup Opening \cup {"unmarked"} => NoWriters(r),
         there = "stream" => NoWriters(r),
         there \notin {"flush", "close"}
  PROVE  IInv' /\ Only(r)
  <1>1. Typed' /\ Only(r)
    BY DEF IInv, Typed, writers, GoTo, Only
  <1>2. Writers(r)'
    BY MovesOn
  <1> QED
    BY <1>1, <1>2, ReadAlone

LEMMA DiskInv ==
  ASSUME IInv, UNCHANGED <<pc, source, alone, content, position, writers, tiles, header, records>>,
         left' \in BOOLEAN, space' \in BOOLEAN, marker' \in {"none", "empty", "whole"},
         entry' \in [Slots -> Files \cup {None}]
  PROVE  IInv' /\ \A r \in Reads : Only(r)
  <1>1. Typed' /\ \A r \in Reads : Only(r)
    BY DEF IInv, Typed, writers, Only
  <1>2. \A r \in Reads : Writers(r)'
    BY WritersStay DEF IInv, writers
  <1> QED
    BY <1>1, <1>2 DEF IInv

LEMMA RemovalTyped ==
  ASSUME Typed, RemoveOne \/ RemoveLast
  PROVE  /\ left' \in BOOLEAN /\ space' \in BOOLEAN /\ marker' \in {"none", "empty", "whole"}
         /\ entry' \in [Slots -> Files \cup {None}]
         /\ UNCHANGED <<header, records>>
  BY DEF Typed, RemoveOne, RemoveLast

LEMMA RemoveSpaceInv ==
  ASSUME IInv, NEW r \in Reads, NEW here, NEW there \in {"make", "commit", "failed"},
         here \in Opening \cup {"unmarked"} \/ there = "commit",
         RemoveSpace(r, here, there)
  PROVE  IInv' /\ Only(r)
  <1> Typed
    BY DEF IInv
  <1>1. /\ UNCHANGED <<source, alone, content, position, writers, tiles>> /\ pc[r] = here
        /\ (RemoveOne /\ UNCHANGED pc) \/ (RemoveLast /\ GoTo(r, there))
    BY DEF RemoveSpace, Keep, At
  <1>2. /\ left' \in BOOLEAN /\ space' \in BOOLEAN /\ marker' \in {"none", "empty", "whole"}
        /\ entry' \in [Slots -> Files \cup {None}]
        /\ UNCHANGED <<header, records>>
    BY <1>1, RemovalTyped
  <1>3. CASE UNCHANGED pc
    BY <1>1, <1>2, <1>3, DiskInv
  <1>4. CASE GoTo(r, there)
    <2>1. there \in Rest \cup Opening \cup {"unmarked"} => NoWriters(r)
      BY <1>1 DEF IInv, Writers, Rest, Opening
    <2>2. there \in Stations /\ there \notin {"stream", "flush", "close"}
      BY DEF Stations, Rest, Opening, Ending
    <2> QED
      BY <1>1, <1>2, <1>4, <2>1, <2>2, AsideInv
  <1> QED
    BY <1>1, <1>3, <1>4

LEMMA OpeningInv ==
  ASSUME IInv, NEW r \in Reads, InspectSpace(r) \/ MakeSpace(r) \/ OpenMarker(r) \/ FlushMarker(r)
  PROVE  IInv' /\ Only(r)
  <1> Typed
    BY DEF IInv
  <1>1. NoWriters(r)
    BY DEF IInv, Writers, InspectSpace, MakeSpace, OpenMarker, FlushMarker, At, Opening
  <1>2. PICK there \in {"make", "clear", "failed", "mark", "marking", "unmarked", "stream"} : GoTo(r, there)
    BY DEF InspectSpace, MakeSpace, OpenMarker, FlushMarker
  <1>3. /\ UNCHANGED <<source, alone, content, position, writers, tiles, header, records>>
        /\ left' \in BOOLEAN /\ space' \in BOOLEAN /\ marker' \in {"none", "empty", "whole"}
        /\ entry' \in [Slots -> Files \cup {None}]
    BY DEF Typed, InspectSpace, MakeSpace, OpenMarker, FlushMarker, Keep, disk
  <1>4. there \in Stations /\ there \notin {"flush", "close"}
    BY DEF Stations, Rest, Opening, Ending, Working
  <1> QED
    BY <1>1, <1>2, <1>3, <1>4, AsideInv


(* The point a read is about to route, and its tile. *)
TileNext(r) == Route[content[r]][position[r] + 1]
PointNext(r) == <<content[r], position[r] + 1>>
HeldNext(r) == Append(buffer[r][TileNext(r)], PointNext(r))

Appends(r) ==
    /\ Len(HeldNext(r)) < Limit
    /\ buffer' = [buffer EXCEPT ![r][TileNext(r)] = HeldNext(r)]
    /\ buffered' = [buffered EXCEPT ![r] = @ + 1]
    /\ UNCHANGED <<header, records, offset>>

WritesThrough(r) ==
    /\ Len(HeldNext(r)) >= Limit
    /\ buffer' = [buffer EXCEPT ![r][TileNext(r)] = <<>>]
    /\ buffered' = [buffered EXCEPT ![r] = @ - Len(buffer[r][TileNext(r)])]
    /\ WriteOut(r, TileNext(r), HeldNext(r))
    /\ offset' = [offset EXCEPT ![r][TileNext(r)] = @ + Len(HeldNext(r))]

(* The spool a read opens next: its number, and its file. *)
NumberNext(r) == Cardinality(Spooled(r)) + 1
FileNext(r) ==
    IF entry[NumberNext(r)] # None THEN entry[NumberNext(r)]
    ELSE CHOOSE x \in Files : x \notin Busy

Opens(r) ==
    /\ entry' = [entry EXCEPT ![NumberNext(r)] = FileNext(r)]
    /\ header' = [header EXCEPT ![FileNext(r)] = None]
    /\ records' = [records EXCEPT ![FileNext(r)] = <<>>]
    /\ slot' = [slot EXCEPT ![r][TileNext(r)] = NumberNext(r)]
    /\ file' = [file EXCEPT ![r][TileNext(r)] = FileNext(r)]
    /\ UNCHANGED pc

LEMMA OpensOne ==
  ASSUME IInv, NEW r \in Reads, OpenSpool(r)
  PROVE  /\ pc[r] = "stream" /\ position[r] < Len(Route[content[r]])
         /\ TileNext(r) \in Tiles /\ slot[r][TileNext(r)] = 0
         /\ TileNext(r) \notin Spooled(r)
         /\ NumberNext(r) \in Slots /\ FileNext(r) \in Files
         /\ FileNext(r) = entry[NumberNext(r)] \/ FileNext(r) \notin Busy
         /\ UNCHANGED <<source, alone, content, left, space, marker, position, buffer, offset, buffered, tiles>>
         /\ \/ space /\ Opens(r)
            \/ GoTo(r, "cleanup") /\ UNCHANGED <<entry, header, records, slot, file>>
  <1>1. pc[r] = "stream" /\ position[r] < Len(Route[content[r]]) /\ TileNext(r) \notin Spooled(r)
    BY DEF OpenSpool, At, TileNext
  <1>2. TileNext(r) \in Tiles
    BY <1>1, NextTile DEF TileNext
  <1>3. NumberNext(r) \in Slots
    BY <1>1, <1>2, NextSlot DEF NumberNext
  <1>4. /\ FileNext(r) \in Files
        /\ FileNext(r) = entry[NumberNext(r)] \/ FileNext(r) \notin Busy
    <2>1. CASE entry[NumberNext(r)] = None
      <3>1. \E x \in Files : x \notin Busy
        BY <1>3, <2>1, FreeFile DEF IInv, Typed
      <3>2. FileNext(r) = CHOOSE x \in Files : x \notin Busy
        BY <2>1 DEF FileNext
      <3> QED
        BY <3>1, <3>2
    <2>2. CASE entry[NumberNext(r)] # None
      BY <1>3, <2>2 DEF FileNext, IInv, Typed
    <2> QED
      BY <2>1, <2>2
  <1>5. UNCHANGED <<source, alone, content, left, space, marker, position, buffer, offset, buffered, tiles>>
    BY DEF OpenSpool, Keep
  <1>6. \/ space /\ Opens(r)
        \/ GoTo(r, "cleanup") /\ UNCHANGED <<entry, header, records, slot, file>>
    BY DEF OpenSpool, Opens, TileNext, NumberNext, FileNext
  <1> QED
    BY <1>1, <1>2, <1>3, <1>4, <1>5, <1>6 DEF Spooled

LEMMA OpenSpoolInv ==
  ASSUME IInv, NEW r \in Reads, OpenSpool(r)
  PROVE  IInv' /\ Only(r)
  <1> DEFINE t == TileNext(r)
             k == NumberNext(r)
             f == FileNext(r)
  <1> Typed /\ Writers(r)
    BY DEF IInv
  <1>1. pc[r] = "stream" /\ t \in Tiles /\ k \in Slots /\ f \in Files /\ slot[r][t] = 0
    BY OpensOne
  <1>2. UNCHANGED <<source, alone, content, left, space, marker, position, buffer, offset, buffered, tiles>>
    BY OpensOne
  <1>3. CASE GoTo(r, "cleanup") /\ UNCHANGED <<entry, header, records, slot, file>>
    <2>1. "cleanup" \in Stations \ (Rest \cup Opening \cup {"unmarked", "stream", "flush", "close"})
      BY DEF Stations, Rest, Opening, Ending
    <2> QED
      BY <1>2, <1>3, <2>1, AsideInv DEF Typed, writers
  <1>4. CASE Opens(r)
    <2>0. /\ entry' = [entry EXCEPT ![k] = f] /\ header' = [header EXCEPT ![f] = None]
          /\ records' = [records EXCEPT ![f] = <<>>]
          /\ slot' = [slot EXCEPT ![r][t] = k] /\ file' = [file EXCEPT ![r][t] = f]
          /\ UNCHANGED pc
      BY <1>4 DEF Opens
    <2> HIDE DEF t, k, f
    <2>1. /\ entry' \in [Slots -> Files \cup {None}] /\ header' \in [Files -> Tiles \cup {None}]
          /\ records' \in [Files -> Seq(Records)]
      BY <1>1, <2>0 DEF Typed
    <2>2. slot' \in [Reads -> [Tiles -> Slots \cup {0}]] /\ file' \in [Reads -> [Tiles -> Files \cup {None}]]
      BY <1>1, <2>0 DEF Typed
    <2>3. Typed'
      BY <1>2, <2>0, <2>1, <2>2 DEF Typed
    <2>4. Only(r)
      BY <1>2, <2>0 DEF Only, Typed
    <2>5. /\ \A u \in Tiles : slot'[r][u] = IF u = t THEN k ELSE slot[r][u]
          /\ \A u \in Tiles : file'[r][u] = IF u = t THEN f ELSE file[r][u]
      BY <2>0 DEF Typed
    <2>6. k # 0 /\ f # None
      BY <1>1, StreamAssumption DEF Slots
    <2>7. \A u \in Tiles : (slot[r][u] = 0 => file[r][u] = None) /\ (file[r][u] = None => slot[r][u] = 0)
                            /\ (file[r][u] = None => buffer[r][u] = <<>> /\ offset[r][u] = 0)
      BY <1>1 DEF Writers
    <2>8. \A u \in Tiles : (slot'[r][u] = 0 => file'[r][u] = None) /\ (file'[r][u] = None => slot'[r][u] = 0)
                            /\ (file'[r][u] = None => buffer'[r][u] = <<>> /\ offset'[r][u] = 0)
      BY ONLY <1>2, <2>5, <2>6, <2>7
    <2>9. pc'[r] = "stream" /\ Held(r)' = Held(r)
      BY <1>1, <1>2, <2>0 DEF Held
    <2>10. position'[r] <= Len(Route[content'[r]]) /\ buffered'[r] = Cardinality(Held(r)') /\ buffered'[r] < Limit
      BY <1>1, <1>2, <2>9 DEF Writers
    <2>11. Writers(r)'
      BY <2>8, <2>9, <2>10 DEF Writers, Rest, Opening
    <2> QED
      BY <2>3, <2>4, <2>11, ReadAlone
  <1> QED
    BY <1>3, <1>4, OpensOne

LEMMA RoutesOne ==
  ASSUME IInv, NEW r \in Reads, RoutePoint(r)
  PROVE  /\ pc[r] = "stream" /\ position[r] < Len(Route[content[r]])
         /\ TileNext(r) \in Tiles /\ PointNext(r) \in Points
         /\ slot[r][TileNext(r)] # 0 /\ file[r][TileNext(r)] # None
         /\ position' = [position EXCEPT ![r] = @ + 1]
         /\ pc' = [pc EXCEPT ![r] = IF buffered'[r] >= Limit THEN "flush" ELSE "stream"]
         /\ UNCHANGED <<source, alone, content, left, space, marker, entry, slot, file, tiles>>
         /\ Appends(r) \/ WritesThrough(r)
         /\ buffer[r][TileNext(r)] \in Seq(Points) /\ HeldNext(r) \in Seq(Points)
         /\ Len(buffer[r][TileNext(r)]) \in Nat
         /\ Len(HeldNext(r)) = Len(buffer[r][TileNext(r)]) + 1
  <1>1. /\ pc[r] = "stream" /\ position[r] < Len(Route[content[r]])
        /\ slot[r][TileNext(r)] # 0
    <2>1. TileNext(r) \in Spooled(r) /\ At(r, "stream") /\ position[r] < Len(Route[content[r]])
      BY Zenon DEF RoutePoint, TileNext
    <2> QED
      BY <2>1, Zenon DEF Spooled, At
  <1>2. TileNext(r) \in Tiles /\ PointNext(r) \in Points
    BY <1>1, NextTile DEF TileNext, PointNext
  <1>3. file[r][TileNext(r)] # None
    BY <1>1, <1>2 DEF IInv, Writers
  <1>4. /\ position' = [position EXCEPT ![r] = @ + 1]
        /\ pc' = [pc EXCEPT ![r] = IF buffered'[r] >= Limit THEN "flush" ELSE "stream"]
        /\ UNCHANGED <<source, alone, content, left, space, marker, entry, slot, file, tiles>>
    BY DEF RoutePoint, GoTo, Keep
  <1>5. buffer[r][TileNext(r)] \in Seq(Points)
    BY <1>2 DEF IInv, Typed
  <1>6. /\ HeldNext(r) \in Seq(Points) /\ Len(buffer[r][TileNext(r)]) \in Nat
        /\ Len(HeldNext(r)) = Len(buffer[r][TileNext(r)]) + 1
    BY ONLY <1>2, <1>5, AppendProperties, LenProperties DEF HeldNext
  <1>7. Appends(r) \/ WritesThrough(r)
    <2> DEFINE out == Len(HeldNext(r)) >= Limit
    <2>1. buffer' = [buffer EXCEPT ![r][TileNext(r)] = IF out THEN <<>> ELSE HeldNext(r)]
      BY Zenon DEF RoutePoint, HeldNext, TileNext, PointNext
    <2>2. buffered' = [buffered EXCEPT ![r] = IF out THEN @ - Len(buffer[r][TileNext(r)]) ELSE @ + 1]
      BY Zenon DEF RoutePoint, HeldNext, TileNext, PointNext
    <2>3. IF out THEN /\ WriteOut(r, TileNext(r), HeldNext(r))
                      /\ offset' = [offset EXCEPT ![r][TileNext(r)] = @ + Len(HeldNext(r))]
                 ELSE UNCHANGED <<header, records, offset>>
      BY Zenon DEF RoutePoint, HeldNext, TileNext, PointNext
    <2>4. CASE out
      BY ONLY <2>1, <2>2, <2>3, <2>4, Zenon DEF WritesThrough
    <2>5. CASE ~out
      <3>1. Len(HeldNext(r)) < Limit
        BY <1>6, <2>5, LimitIsPositive
      <3> QED
        BY ONLY <2>1, <2>2, <2>3, <2>5, <3>1, Zenon DEF Appends
    <2> QED
      BY <2>4, <2>5
  <1> QED
    BY ONLY <1>1, <1>2, <1>3, <1>4, <1>5, <1>6, <1>7, Zenon

LEMMA RoutePointInv ==
  ASSUME IInv, NEW r \in Reads, RoutePoint(r)
  PROVE  IInv' /\ Only(r)
  <1> DEFINE t == TileNext(r)
             held == HeldNext(r)
  <1> Typed /\ Writers(r)
    BY DEF IInv
  <1>1. /\ pc[r] = "stream" /\ position[r] < Len(Route[content[r]]) /\ t \in Tiles
        /\ PointNext(r) \in Points /\ slot[r][t] # 0 /\ file[r][t] # None
    BY RoutesOne
  <1>2. /\ position' = [position EXCEPT ![r] = @ + 1]
        /\ pc' = [pc EXCEPT ![r] = IF buffered'[r] >= Limit THEN "flush" ELSE "stream"]
        /\ UNCHANGED <<source, alone, content, left, space, marker, entry, slot, file, tiles>>
    BY RoutesOne
  <1>3. Appends(r) \/ WritesThrough(r)
    BY RoutesOne
  <1>4. /\ buffer[r][t] \in Seq(Points) /\ held \in Seq(Points)
        /\ Len(buffer[r][t]) \in Nat /\ Len(held) = Len(buffer[r][t]) + 1
    BY RoutesOne
  <1>5. buffer[r] \in [Tiles -> Seq(Points)]
    BY DEF Typed
  <1> HIDE DEF t, held
  <1>6. header' \in [Files -> Tiles \cup {None}] /\ records' \in [Files -> Seq(Records)]
    <2>1. held \in Seq(Records)
      BY <1>4, SeqMonotonic DEF Records
    <2>2. CASE WritesThrough(r)
      BY <1>1, <2>1, <2>2, WritesRecords DEF WritesThrough, t, held
    <2>3. CASE Appends(r)
      BY <2>3 DEF Appends, Typed
    <2> QED
      BY <1>3, <2>2, <2>3
  <1>7. Cardinality(Held(r)) \in Nat /\ buffered[r] = Cardinality(Held(r)) /\ buffered[r] < Limit
    BY <1>1, <1>5, PlacesFinite DEF Writers, Held, Places
  <1>8. /\ buffered'[r] \in Nat /\ buffered'[r] = Cardinality(Held(r)')
        /\ buffer' \in [Reads -> [Tiles -> Seq(Points)]]
        /\ buffered' \in [Reads -> Nat]
        /\ offset' \in [Reads -> [Tiles -> Nat]]
        /\ \A u \in Tiles : u # t => buffer'[r][u] = buffer[r][u] /\ offset'[r][u] = offset[r][u]
        /\ \A q \in Reads \ {r} : buffer'[q] = buffer[q] /\ offset'[q] = offset[q] /\ buffered'[q] = buffered[q]
    <2>1. Held(r) = Places(buffer[r]) /\ Held(r)' = Places(buffer'[r])
      BY DEF Held, Places
    <2>2. CASE WritesThrough(r)
      <3>1. /\ buffer' = [buffer EXCEPT ![r][t] = <<>>]
            /\ offset' = [offset EXCEPT ![r][t] = @ + Len(held)]
            /\ buffered' = [buffered EXCEPT ![r] = @ - Len(buffer[r][t])]
        BY <2>2 DEF WritesThrough, t, held
      <3>2. /\ buffer'[r] = [buffer[r] EXCEPT ![t] = <<>>] /\ buffer' \in [Reads -> [Tiles -> Seq(Points)]]
            /\ \A q \in Reads \ {r} : buffer'[q] = buffer[q]
        BY <1>1, <3>1 DEF Typed
      <3>3. Cardinality(Places(buffer[r])) = Cardinality(Places(buffer'[r])) + Len(buffer[r][t])
        BY <1>1, <1>5, <3>2, PlacesDrop
      <3>4. Cardinality(Places(buffer'[r])) \in Nat
        BY <3>2, PlacesFinite
      <3>5. /\ buffered'[r] = buffered[r] - Len(buffer[r][t])
            /\ \A q \in Reads \ {r} : buffered'[q] = buffered[q]
        BY <3>1 DEF Typed
      <3>6. buffered'[r] \in Nat /\ buffered'[r] = Cardinality(Held(r)')
        BY <1>4, <1>7, <2>1, <3>3, <3>4, <3>5
      <3>7. buffered' \in [Reads -> Nat]
        BY <3>1, <3>5, <3>6 DEF Typed
      <3>8. /\ offset' \in [Reads -> [Tiles -> Nat]]
            /\ \A u \in Tiles : u # t => offset'[r][u] = offset[r][u]
            /\ \A q \in Reads \ {r} : offset'[q] = offset[q]
        BY <1>1, <1>4, <3>1 DEF Typed
      <3>9. \A u \in Tiles : u # t => buffer'[r][u] = buffer[r][u]
        BY <1>5, <3>2
      <3> QED
        BY <3>2, <3>5, <3>6, <3>7, <3>8, <3>9
    <2>3. CASE Appends(r)
      <3>1. /\ buffer' = [buffer EXCEPT ![r][t] = held] /\ buffered' = [buffered EXCEPT ![r] = @ + 1]
            /\ UNCHANGED offset
        BY <2>3 DEF Appends, t, held
      <3>2. /\ buffer'[r] = [buffer[r] EXCEPT ![t] = held] /\ buffer' \in [Reads -> [Tiles -> Seq(Points)]]
            /\ \A q \in Reads \ {r} : buffer'[q] = buffer[q]
        BY <1>1, <1>4, <3>1 DEF Typed
      <3>3. Cardinality(Places(buffer'[r])) = Cardinality(Places(buffer[r])) + 1
        <4>1. buffer'[r] = [buffer[r] EXCEPT ![t] = Append(buffer[r][t], PointNext(r))]
          BY <3>2 DEF held, HeldNext, t
        <4> QED
          <5>1. Cardinality(Places([buffer[r] EXCEPT ![t] = Append(buffer[r][t], PointNext(r))]))
                  = Cardinality(Places(buffer[r])) + 1
            BY <1>1, <1>5, PlacesGrow
          <5> QED
            BY ONLY <4>1, <5>1, Zenon
      <3>4. /\ buffered'[r] = buffered[r] + 1
            /\ \A q \in Reads \ {r} : buffered'[q] = buffered[q]
            /\ buffered' \in [Reads -> Nat]
        BY <3>1 DEF Typed
      <3>5. \A u \in Tiles : u # t => buffer'[r][u] = buffer[r][u]
        BY <1>5, <3>2
      <3> QED
        BY <1>7, <2>1, <3>1, <3>2, <3>3, <3>4, <3>5 DEF Typed
    <2> QED
      BY <1>3, <2>2, <2>3
  <1>9. Typed'
    <2>1. position' \in [Reads -> Nat] /\ pc' \in [Reads -> Stations]
      BY <1>2 DEF Typed, Stations, Working
    <2> QED
      BY <1>2, <1>6, <1>8, <2>1 DEF Typed
  <1>10. Only(r)
    BY <1>2, <1>8 DEF Only, Typed
  <1>11. Writers(r)'
    <2>1. pc'[r] \in {"stream", "flush"} /\ (pc'[r] = "stream" => buffered'[r] < Limit)
      BY <1>2, <1>8, StreamAssumption DEF Typed
    <2>2. position'[r] <= Len(Route[content'[r]])
      <3>1. position'[r] = position[r] + 1 /\ Len(Route[content[r]]) \in Nat /\ position[r] \in Nat
        BY <1>2, RoutesAre DEF Typed
      <3> QED
        BY <1>1, <1>2, <3>1
    <2>3. \A u \in Tiles : file[r][u] = None => buffer'[r][u] = <<>> /\ offset'[r][u] = 0
      BY <1>1, <1>8 DEF Writers
    <2>4. \A u \in Tiles : (slot[r][u] = 0 => file[r][u] = None) /\ (file[r][u] = None => slot[r][u] = 0)
      BY <1>1 DEF Writers
    <2> QED
      BY <1>2, <1>8, <2>1, <2>2, <2>3, <2>4 DEF Writers, Rest, Opening
  <1> QED
    BY <1>9, <1>10, <1>11, ReadAlone

-----------------------------------------------------------------------------
(* One writer of r writes its buffer, and perhaps the footer, to its file. *)
LEMMA FlushOneInv ==
  ASSUME IInv, NEW r \in Reads, FlushOne(r)
  PROVE  IInv' /\ Only(r)
  <1> Typed /\ Writers(r)
    BY DEF IInv
  <1>1. PICK t \in Tiles :
           /\ buffer[r][t] # <<>>
           /\ WriteOut(r, t, buffer[r][t])
           /\ offset' = [offset EXCEPT ![r][t] = @ + Len(buffer[r][t])]
           /\ buffer' = [buffer EXCEPT ![r][t] = <<>>]
    BY DEF FlushOne, Foremost
  <1>2. /\ pc[r] = "flush"
        /\ UNCHANGED <<source, alone, content, pc, left, space, marker, entry, position, slot, file, buffered, tiles>>
    BY DEF FlushOne, Keep, At
  <1>3. file[r][t] # None
    BY <1>1 DEF Writers
  <1>4. buffer[r][t] \in Seq(Points) /\ Len(buffer[r][t]) \in Nat
    BY DEF Typed
  <1>5. header' \in [Files -> Tiles \cup {None}] /\ records' \in [Files -> Seq(Records)]
    <2>1. buffer[r][t] \in Seq(Records)
      BY <1>4, SeqMonotonic DEF Records
    <2> QED
      BY <1>1, <1>3, <2>1, WritesRecords
  <1>6. /\ buffer' \in [Reads -> [Tiles -> Seq(Points)]] /\ offset' \in [Reads -> [Tiles -> Nat]]
        /\ \A q \in Reads \ {r} : buffer'[q] = buffer[q] /\ offset'[q] = offset[q]
        /\ \A u \in Tiles \ {t} : buffer'[r][u] = buffer[r][u] /\ offset'[r][u] = offset[r][u]
    BY <1>1, <1>4 DEF Typed
  <1>7. Typed'
    BY <1>2, <1>5, <1>6 DEF Typed
  <1>8. Only(r)
    BY <1>2, <1>6 DEF Only
  <1>9. \A u \in Tiles : file[r][u] = None => buffer'[r][u] = <<>> /\ offset'[r][u] = 0
    BY <1>3, <1>6 DEF Writers
  <1>10. Writers(r)'
    BY <1>2, <1>9 DEF Writers, Rest, Opening
  <1> QED
    BY <1>7, <1>8, <1>10, ReadAlone

LEMMA FlushedInv ==
  ASSUME IInv, NEW r \in Reads, Flushed(r)
  PROVE  IInv' /\ Only(r)
  <1> Typed /\ Writers(r)
    BY DEF IInv
  <1>1. /\ pc[r] = "flush" /\ pc' = [pc EXCEPT ![r] = "stream"] /\ buffered' = [buffered EXCEPT ![r] = 0]
        /\ \A t \in Tiles : buffer[r][t] = <<>>
        /\ UNCHANGED <<source, alone, content, disk, position, slot, file, buffer, offset, tiles>>
    BY DEF Flushed, Keep, At, GoTo
  <1>2. Typed' /\ Only(r)
    BY <1>1 DEF Typed, Only, disk, Stations, Working
  <1>3. Cardinality(Held(r)') = 0
    BY <1>1, PlacesNone DEF Held, Places
  <1>4. pc'[r] = "stream" /\ buffered'[r] = 0
    BY <1>1 DEF Typed
  <1>5. Writers(r)'
    BY <1>1, <1>3, <1>4, LimitIsPositive DEF Writers, Rest, Opening
  <1> QED
    BY <1>2, <1>5, ReadAlone

LEMMA EndStreamInv ==
  ASSUME IInv, NEW r \in Reads, EndStream(r)
  PROVE  IInv' /\ Only(r)
  <1> Typed /\ Writers(r)
    BY DEF IInv
  <1>1. /\ pc[r] = "stream"
        /\ GoTo(r, IF Spooled(r) = {} THEN "cleanup" ELSE "close")
        /\ UNCHANGED <<source, alone, content, disk, position, writers, tiles>>
    BY DEF EndStream, Keep, At
  <1>2. Typed' /\ Only(r)
    BY <1>1 DEF Typed, Only, disk, writers, GoTo, Stations, Working, Ending
  <1>3. pc'[r] = IF Spooled(r) = {} THEN "cleanup" ELSE "close"
    BY <1>1 DEF GoTo, Typed
  <1>4. Spooled(r) # {} => \E t \in Tiles : file[r][t] # None
    BY <1>1 DEF Writers, Spooled
  <1>5. Writers(r)'
    BY <1>1, <1>3, <1>4 DEF Writers, writers, Rest, Opening
  <1> QED
    BY <1>2, <1>5, ReadAlone

LEMMA CloseSpoolInv ==
  ASSUME IInv, NEW r \in Reads, CloseSpool(r)
  PROVE  IInv' /\ Only(r)
  <1> Typed /\ Writers(r)
    BY DEF IInv
  <1>1. pc[r] = "close" /\ \E t \in Tiles : file[r][t] # None
    BY DEF CloseSpool, At, Writers
  <1>2. PICK t \in Tiles :
           /\ file[r][t] # None
           /\ WriteOut(r, t, Append(buffer[r][t], Footer(offset[r][t] + Len(buffer[r][t]))))
           /\ file' = [file EXCEPT ![r][t] = None]
           /\ buffer' = [buffer EXCEPT ![r][t] = <<>>]
           /\ offset' = [offset EXCEPT ![r][t] = 0]
    BY <1>1 DEF CloseSpool, Foremost
  <1>3. /\ GoTo(r, IF \A u \in Tiles : file'[r][u] = None THEN "read" ELSE "close")
        /\ UNCHANGED <<source, alone, content, left, space, marker, entry, position, slot, buffered, tiles>>
    BY DEF CloseSpool, Keep
  <1>4. header' \in [Files -> Tiles \cup {None}] /\ records' \in [Files -> Seq(Records)]
    <2> DEFINE all == Append(buffer[r][t], Footer(offset[r][t] + Len(buffer[r][t])))
    <2>1. buffer[r][t] \in Seq(Records) /\ Len(buffer[r][t]) \in Nat /\ offset[r][t] \in Nat
      <3>1. buffer[r][t] \in Seq(Points)
        BY DEF Typed
      <3> QED
        BY <3>1, SeqMonotonic DEF Records, Typed
    <2>2. Footer(offset[r][t] + Len(buffer[r][t])) \in Records
      BY <2>1 DEF Records, Footer
    <2>3. all \in Seq(Records)
      BY ONLY <2>1, <2>2, AppendProperties
    <2> HIDE DEF all
    <2> QED
      BY <1>2, <2>3, WritesRecords DEF all
  <1>5. /\ buffer' \in [Reads -> [Tiles -> Seq(Points)]] /\ offset' \in [Reads -> [Tiles -> Nat]]
        /\ file' \in [Reads -> [Tiles -> Files \cup {None}]]
        /\ \A q \in Reads \ {r} : buffer'[q] = buffer[q] /\ offset'[q] = offset[q] /\ file'[q] = file[q]
        /\ buffer'[r][t] = <<>> /\ offset'[r][t] = 0 /\ file'[r][t] = None
        /\ \A u \in Tiles \ {t} : /\ buffer'[r][u] = buffer[r][u] /\ offset'[r][u] = offset[r][u]
                                  /\ file'[r][u] = file[r][u]
    BY <1>2 DEF Typed
  <1>6. pc' \in [Reads -> Stations] /\ (\A q \in Reads \ {r} : pc'[q] = pc[q])
        /\ pc'[r] = IF \A u \in Tiles : file'[r][u] = None THEN "read" ELSE "close"
    BY <1>3 DEF GoTo, Typed, Stations, Working
  <1>7. Typed'
    BY <1>3, <1>4, <1>5, <1>6 DEF Typed
  <1>8. Only(r)
    BY <1>3, <1>5, <1>6 DEF Only
  <1>9. \A u \in Tiles : (slot[r][u] = 0 => file'[r][u] = None)
                         /\ (file'[r][u] = None => buffer'[r][u] = <<>> /\ offset'[r][u] = 0)
    BY <1>5 DEF Writers
  <1>10. Writers(r)'
    BY <1>3, <1>6, <1>9 DEF Writers, Rest, Opening
  <1> QED
    BY <1>7, <1>8, <1>10, ReadAlone

LEMMA ReadsOne ==
  ASSUME NEW r \in Reads, ReadSpool(r)
  PROVE  \E t \in Tiles :
           /\ slot[r][t] # 0
           /\ \/ /\ Readable(slot[r][t], t)
                 /\ tiles' = [tiles EXCEPT ![r][t] = Front(records[entry[slot[r][t]]])]
                 /\ UNCHANGED pc
              \/ GoTo(r, "cleanup") /\ UNCHANGED tiles
  <1> DEFINE unread == {u \in Spooled(r) : tiles[r][u] = <<>>}
             v == Foremost(unread)
  <1>1. v \in Tiles /\ slot[r][v] # 0
    BY DEF ReadSpool, Foremost, Spooled
  <1>2. \/ /\ Readable(slot[r][v], v)
           /\ tiles' = [tiles EXCEPT ![r][v] = Front(records[entry[slot[r][v]]])]
           /\ UNCHANGED pc
        \/ GoTo(r, "cleanup") /\ UNCHANGED tiles
    BY DEF ReadSpool
  <1> HIDE DEF v
  <1> QED
    BY <1>1, <1>2

LEMMA ReadSpoolInv ==
  ASSUME IInv, NEW r \in Reads, ReadSpool(r)
  PROVE  IInv' /\ Only(r)
  <1> Typed /\ Writers(r)
    BY DEF IInv
  <1>1. PICK t \in Tiles :
           /\ slot[r][t] # 0
           /\ \/ /\ Readable(slot[r][t], t)
                 /\ tiles' = [tiles EXCEPT ![r][t] = Front(records[entry[slot[r][t]]])]
                 /\ UNCHANGED pc
              \/ GoTo(r, "cleanup") /\ UNCHANGED tiles
    BY ReadsOne
  <1>2. pc[r] = "read" /\ UNCHANGED <<source, alone, content, disk, position, writers>>
    BY DEF ReadSpool, Keep, At
  <1>3. CASE GoTo(r, "cleanup") /\ UNCHANGED tiles
    <2>1. "cleanup" \in Stations \ (Rest \cup Opening \cup {"unmarked", "stream", "flush", "close"})
      BY DEF Stations, Rest, Opening, Ending
    <2> QED
      BY <1>2, <1>3, <2>1, AsideInv DEF Typed, disk
  <1>4. CASE /\ Readable(slot[r][t], t)
             /\ tiles' = [tiles EXCEPT ![r][t] = Front(records[entry[slot[r][t]]])]
             /\ UNCHANGED pc
    <2> DEFINE data == records[entry[slot[r][t]]]
    <2>1. data \in Seq(Records) /\ Len(data) \in Nat
      <3>1. slot \in [Reads -> [Tiles -> Slots \cup {0}]]
            /\ entry \in [Slots -> Files \cup {None}]
            /\ records \in [Files -> Seq(Records)]
        BY DEF Typed
      <3>2. slot[r][t] \in Slots /\ entry[slot[r][t]] # None
        BY ONLY <3>1, <1>1, <1>4 DEF Readable
      <3>3. data \in Seq(Records)
        BY ONLY <3>1, <3>2
      <3> QED
        BY ONLY <3>3
    <2>2. Len(data) > 1 /\ \A i \in 1..Len(data) - 1 : data[i] \in Points \cup {Hole}
      BY <1>4 DEF Readable
    <2> HIDE DEF data
    <2>3. Front(data) \in Seq(Points \cup {Hole})
      BY ONLY <2>1, <2>2, SubSeqProperties DEF Front
    <2>4. tiles' \in [Reads -> [Tiles -> Seq(Points \cup {Hole})]]
          /\ \A q \in Reads \ {r} : tiles'[q] = tiles[q]
      BY <1>4, <2>3 DEF Typed, data
    <2>5. Typed' /\ Only(r)
      BY <1>2, <1>4, <2>4 DEF Typed, disk, writers, Only
    <2>6. Writers(r)'
      BY <1>2, <1>4, WritersStay DEF writers
    <2> QED
      BY <2>5, <2>6, ReadAlone
  <1> QED
    BY <1>1, <1>3, <1>4

(* The end of a read. *)
LEMMA AuthoredInv ==
  ASSUME IInv, NEW r \in Reads, Authored(r)
  PROVE  IInv' /\ Only(r)
  <1>1. "remove" \in Stations \ (Rest \cup Opening \cup {"unmarked", "stream", "flush", "close"})
    BY DEF Stations, Rest, Opening, Ending
  <1>2. GoTo(r, "remove") /\ UNCHANGED <<source, alone, content, disk, position, writers, tiles>>
    BY DEF Authored, Keep
  <1> QED
    BY <1>1, <1>2, AsideInv DEF IInv, Typed, disk

LEMMA EndsWithoutWriters ==
  ASSUME IInv, NEW r \in Reads, NEW there \in Rest, GoTo(r, there), DropWriters(r),
         UNCHANGED <<source, content, header, records>>,
         left' \in BOOLEAN, space' \in BOOLEAN, marker' \in {"none", "empty", "whole"},
         entry' \in [Slots -> Files \cup {None}],
         \/ UNCHANGED <<alone, position, tiles>>
         \/ /\ position' = [position EXCEPT ![r] = 0]
            /\ tiles' = [tiles EXCEPT ![r] = [t \in Tiles |-> <<>>]]
            /\ alone' = [alone EXCEPT ![r] = FALSE]
  PROVE  IInv' /\ Only(r)
  <1> Typed /\ Writers(r)
    BY DEF IInv
  <1>1. /\ slot' \in [Reads -> [Tiles -> Slots \cup {0}]]
        /\ file' \in [Reads -> [Tiles -> Files \cup {None}]]
        /\ buffer' \in [Reads -> [Tiles -> Seq(Points)]]
        /\ offset' \in [Reads -> [Tiles -> Nat]]
        /\ buffered' \in [Reads -> Nat]
        /\ NoWriters(r)'
        /\ \A q \in Reads \ {r} :
              /\ slot'[q] = slot[q] /\ file'[q] = file[q] /\ buffer'[q] = buffer[q]
              /\ offset'[q] = offset[q] /\ buffered'[q] = buffered[q]
    BY DropsWriters
  <1>2. /\ alone' \in [Reads -> BOOLEAN] /\ position' \in [Reads -> Nat]
        /\ tiles' \in [Reads -> [Tiles -> Seq(Points \cup {Hole})]]
        /\ \A q \in Reads \ {r} : position'[q] = position[q] /\ tiles'[q] = tiles[q]
        /\ position'[r] = position[r] \/ position'[r] = 0
    <2>1. CASE UNCHANGED <<alone, position, tiles>>
      BY <2>1 DEF Typed
    <2>2. CASE /\ position' = [position EXCEPT ![r] = 0]
               /\ tiles' = [tiles EXCEPT ![r] = [t \in Tiles |-> <<>>]]
               /\ alone' = [alone EXCEPT ![r] = FALSE]
      <3>1. [t \in Tiles |-> <<>>] \in [Tiles -> Seq(Points \cup {Hole})]
        OBVIOUS
      <3>2. tiles' \in [Reads -> [Tiles -> Seq(Points \cup {Hole})]]
            /\ \A q \in Reads \ {r} : tiles'[q] = tiles[q]
        BY <2>2, <3>1 DEF Typed
      <3> QED
        BY <2>2, <3>2 DEF Typed
    <2> QED
      BY <2>1, <2>2
  <1>3. pc' \in [Reads -> Stations] /\ pc'[r] = there /\ \A q \in Reads \ {r} : pc'[q] = pc[q]
    BY DEF Typed, GoTo, Stations
  <1>4. Typed' /\ Only(r)
    BY <1>1, <1>2, <1>3 DEF Typed, Only
  <1>5. position'[r] <= Len(Route[content'[r]])
    <2>1. Len(Route[content[r]]) \in Nat
      BY RoutesAre DEF Typed
    <2> QED
      BY <1>2, <2>1 DEF Writers
  <1>6. Writers(r)'
    BY <1>1, <1>3, <1>5 DEF Writers, NoWriters, Rest
  <1> QED
    BY <1>4, <1>6, ReadAlone

LEMMA CommitInv ==
  ASSUME IInv, NEW r \in Reads, Commit(r)
  PROVE  IInv' /\ Only(r)
  <1>1. /\ GoTo(r, "done") /\ DropWriters(r)
        /\ UNCHANGED <<source, alone, content, disk, position, tiles>>
    BY DEF Commit, Keep
  <1> QED
    BY <1>1, EndsWithoutWriters DEF IInv, Typed, disk, Rest

LEMMA KillInv ==
  ASSUME IInv, NEW r \in Reads, Kill(r)
  PROVE  IInv' /\ Only(r)
  <1>1. /\ GoTo(r, "idle") /\ DropWriters(r)
        /\ left' = (left \/ space)
        /\ UNCHANGED <<source, content, space, marker, entry, header, records>>
        /\ position' = [position EXCEPT ![r] = 0]
        /\ tiles' = [tiles EXCEPT ![r] = [t \in Tiles |-> <<>>]]
        /\ alone' = [alone EXCEPT ![r] = FALSE]
    BY DEF Kill, DropRead
  <1>2. left' \in BOOLEAN
    BY <1>1 DEF IInv, Typed
  <1> QED
    BY <1>1, <1>2, EndsWithoutWriters DEF IInv, Typed, Rest

LEMMA CleanupInv ==
  ASSUME IInv, NEW r \in Reads, Cleanup(r)
  PROVE  IInv' /\ Only(r)
  <1> Typed
    BY DEF IInv
  <1>1. UNCHANGED <<source, content>>
    BY DEF Cleanup
  <1>2. CASE RemoveOne /\ UNCHANGED <<pc, alone, position, writers, tiles>>
    BY <1>1, <1>2, RemovalTyped, DiskInv
  <1>3. CASE (RemoveLast \/ UNCHANGED disk) /\ GoTo(r, "failed") /\ DropRead(r)
    <2>1. /\ left' \in BOOLEAN /\ space' \in BOOLEAN /\ marker' \in {"none", "empty", "whole"}
          /\ entry' \in [Slots -> Files \cup {None}] /\ UNCHANGED <<header, records>>
      BY <1>3, RemovalTyped DEF disk, Typed
    <2>2. /\ DropWriters(r) /\ position' = [position EXCEPT ![r] = 0]
          /\ tiles' = [tiles EXCEPT ![r] = [t \in Tiles |-> <<>>]]
          /\ alone' = [alone EXCEPT ![r] = FALSE]
      BY <1>3 DEF DropRead
    <2> QED
      BY <1>1, <1>3, <2>1, <2>2, EndsWithoutWriters DEF Rest
  <1> QED
    BY <1>2, <1>3 DEF Cleanup

LEMMA FailInv ==
  ASSUME IInv, NEW r \in Reads, Fail(r)
  PROVE  IInv' /\ Only(r)
  <1> Typed /\ Writers(r)
    BY DEF IInv
  <1>1. PICK there \in {"cleanup", "failed", "unmarked"} : GoTo(r, there)
                         /\ (there # "cleanup" => pc[r] \in Opening)
    BY DEF Fail, Opening
  <1>2. UNCHANGED <<source, alone, content, disk, position, writers, tiles>>
    BY DEF Fail, Keep
  <1>3. there \in Stations /\ there \notin {"stream", "flush", "close"}
        /\ (there \in Rest \cup Opening \cup {"unmarked"} => NoWriters(r))
    BY <1>1 DEF Writers, Stations, Rest, Opening, Ending
  <1> QED
    BY <1>1, <1>2, <1>3, AsideInv DEF Typed, disk

LEMMA StepInv ==
  ASSUME IInv, NEW r \in Reads, Start(r) \/ Step(r) \/ Fail(r) \/ Kill(r)
  PROVE  IInv' /\ Only(r)
  <1>1. CASE InspectSpace(r) \/ MakeSpace(r) \/ OpenMarker(r) \/ FlushMarker(r)
    BY <1>1, OpeningInv
  <1>2. CASE Clear(r) \/ RemoveSpools(r) \/ Unmarked(r)
    <2>1. PICK here \in {"clear", "remove", "unmarked"}, there \in {"make", "commit", "failed"} :
             /\ here \in Opening \cup {"unmarked"} \/ there = "commit"
             /\ RemoveSpace(r, here, there)
      BY <1>2 DEF Clear, RemoveSpools, Unmarked, Opening
    <2> QED
      BY <2>1, RemoveSpaceInv
  <1> QED
    BY <1>1, <1>2, StartInv, OpenSpoolInv, RoutePointInv, FlushOneInv, FlushedInv, EndStreamInv,
       CloseSpoolInv, ReadSpoolInv, AuthoredInv, CommitInv, CleanupInv, FailInv, KillInv DEF Step

LEMMA InvNext == IInv /\ [Next]_vars => IInv'
  <1> SUFFICES ASSUME IInv, [Next]_vars PROVE IInv'
    OBVIOUS
  <1>1. CASE \E r \in Reads : Start(r) \/ Step(r) \/ Fail(r) \/ Kill(r)
    BY <1>1, StepInv
  <1>2. CASE SourceChanges \/ UNCHANGED vars
    <2>1. source' \in Contents /\ UNCHANGED <<disk, alone, pc, content, position, writers, tiles>>
      BY <1>2 DEF IInv, Typed, SourceChanges, vars
    <2>2. Typed'
      BY <2>1 DEF IInv, Typed, disk, writers
    <2>3. \A r \in Reads : Writers(r)'
      BY <2>1, WritersStay DEF IInv, writers
    <2> QED
      BY <2>2, <2>3 DEF IInv
  <1> QED
    BY <1>1, <1>2 DEF Next

LEMMA Invariant == Spec => []IInv
  BY InvInit, InvNext, PTL DEF Spec

(* Every step of AuthorPointCloudTiledAssetFromStream keeps the types of    *)
(* its state, finds an inode for each spool it opens, and holds a file for *)
(* exactly the spools it is streaming to.                                  *)
THEOREM TypeCorrect == Spec => []TypeOK
  <1>1. ASSUME IInv PROVE TypeOK
    <2>1. Typed /\ \A r \in Reads : Writers(r)
      BY <1>1 DEF IInv
    <2>2. \A r \in Reads : position[r] \in 0..Len(Route[content[r]])
      BY <2>1, RoutesAre DEF Typed, Writers
    <2>3. \A r \in Reads : pc[r] \in {"stream", "flush"} =>
             \A t \in Tiles : file[r][t] # None <=> t \in Spooled(r)
      BY <2>1 DEF Writers, Spooled
    <2> QED
      BY <2>1, <2>2, <2>3 DEF Typed, TypeOK, Stations
  <1> QED
    BY <1>1, Invariant, PTL

(* Whenever the loop of AuthorPointCloudTiledAssetFromStream fetches the   *)
(* next point, its bufferedBytes counts just what all its spool writers    *)
(* hold back, and that is below tileMemoryLimitBytes - through writers     *)
(* that write out by themselves and through flushSpools.                   *)
THEOREM MemoryBounded == Spec => []MemoryIsBounded
  <1>1. IInv => MemoryIsBounded
    BY DEF IInv, Writers, MemoryIsBounded, At
  <1> QED
    BY <1>1, Invariant, PTL

-----------------------------------------------------------------------------
(* Where a read will remove the directory before it ends.                  *)
Duties == {"mark", "marking", "stream", "flush", "close", "read", "remove", "cleanup", "unmarked"}

Attended == space /\ ~left => \E r \in Reads : pc[r] \in Duties

(* A read leaves its duty by removing the directory, by being killed, or   *)
(* to another that is at work in it.                                       *)
LEMMA AttendedStep ==
  ASSUME IInv, Attended, NEW r \in Reads, Start(r) \/ Step(r) \/ Fail(r) \/ Kill(r)
  PROVE  Attended'
  <1> Typed
    BY DEF IInv
  <1>1. \A q \in Reads \ {r} : pc'[q] = pc[q]
    BY StepInv DEF Only
  <1>2. pc'[r] \in Duties => Attended'
    BY DEF Attended
  <1>3. UNCHANGED <<space, left>> /\ pc[r] \notin Duties => Attended'
    BY <1>1 DEF Attended
  <1>4. RemoveLast => Attended'
    BY DEF RemoveLast, Attended
  <1>5. RemoveOne /\ UNCHANGED pc => Attended'
    BY DEF RemoveOne, Attended
  <1>6. CASE Start(r) \/ InspectSpace(r) \/ Fail(r)
    <2>1. UNCHANGED <<space, left>>
      BY <1>6, Zenon DEF Start, InspectSpace, Fail, disk
    <2>2. CASE Start(r) \/ InspectSpace(r)
      <3>1. pc[r] \notin Duties
        BY <2>2 DEF Start, Active, Rest, InspectSpace, At, Duties
      <3> QED
        BY <1>3, <2>1, <3>1
    <2>3. CASE Fail(r)
      <3>1. pc'[r] \in Duties \/ pc[r] \notin Duties
        BY <2>3 DEF Fail, GoTo, Duties, Typed
      <3> QED
        BY <1>2, <1>3, <2>1, <3>1
    <2> QED
      BY <1>6, <2>2, <2>3
  <1>7. CASE MakeSpace(r) \/ OpenMarker(r) \/ FlushMarker(r)
    <2>1. pc'[r] \in Duties
      BY <1>7 DEF MakeSpace, OpenMarker, FlushMarker, GoTo, Duties, Typed
    <2> QED
      BY <1>2, <2>1
  <1>8. CASE OpenSpool(r) \/ RoutePoint(r) \/ FlushOne(r) \/ Flushed(r)
    <2>1. CASE OpenSpool(r) \/ RoutePoint(r)
      <3>1. pc'[r] \in Duties
        BY <2>1, OpensOne, RoutesOne DEF Opens, GoTo, Duties, Typed
      <3> QED
        BY <1>2, <3>1
    <2>2. CASE FlushOne(r) \/ Flushed(r)
      <3>1. pc'[r] \in Duties
        BY <2>2 DEF FlushOne, Flushed, At, GoTo, Duties, Typed
      <3> QED
        BY <1>2, <3>1
    <2> QED
      BY <1>8, <2>1, <2>2
  <1>9. CASE EndStream(r) \/ CloseSpool(r) \/ ReadSpool(r) \/ Authored(r)
    <2>1. pc'[r] \in Duties
      BY <1>9 DEF EndStream, CloseSpool, ReadSpool, Authored, At, GoTo, Duties, Typed
    <2> QED
      BY <1>2, <2>1
  <1>10. CASE Commit(r)
    <2>1. UNCHANGED <<space, left>> /\ pc[r] \notin Duties
      BY <1>10 DEF Commit, At, disk, Duties
    <2> QED
      BY <1>3, <2>1
  <1>11. CASE Clear(r) \/ RemoveSpools(r) \/ Unmarked(r)
    BY <1>4, <1>5, <1>11 DEF Clear, RemoveSpools, Unmarked, RemoveSpace
  <1>12. CASE Cleanup(r)
    <2>1. ASSUME NEW q \in Reads \ {r}, Spooling(q) PROVE Attended'
      <3>1. pc'[q] \in Duties
        BY <1>1, <2>1 DEF Spooling, Working, Duties
      <3> QED
        BY <3>1 DEF Attended
    <2> QED
      BY <1>4, <1>5, <1>12, <2>1 DEF Cleanup
  <1>13. CASE Kill(r)
    BY <1>13 DEF Kill, Attended
  <1> QED
    BY <1>6, <1>7, <1>8, <1>9, <1>10, <1>11, <1>12, <1>13 DEF Step

(* When all reads have ended the spool directory is gone, unless one of    *)
(* them was killed: every way out of AuthorPointCloudTiledAssetFromStream  *)
(* removes it or leaves it to a read still at work there.                  *)
THEOREM SpoolsGone == Spec => []SpoolsRemoved
  <1>1. Init => Attended
    BY DEF Init, Attended
  <1>2. IInv /\ Attended /\ [Next]_vars => Attended'
    BY AttendedStep DEF Next, SourceChanges, vars, disk, Attended
  <1>3. Attended => SpoolsRemoved
    BY DEF Attended, SpoolsRemoved, Active, Rest, Duties
  <1> QED
    BY Invariant, <1>1, <1>2, <1>3, PTL DEF Spec

-----------------------------------------------------------------------------
(* What a successful streamed read has authored.                           *)
(*                                                                         *)
(* A tile's spool has the number the tile has in its read's stream, and    *)
(* reads that overlap stream the same content.  So a file that several of  *)
(* them name, truncate and write over holds at each place the one point    *)
(* that belongs there, or nothing, and its footer can only follow the last *)
(* of them.  Nothing is missing where a read had the directory to itself.  *)

(* The tiles of the first n points of content c; a tile's spool is numbered *)
(* by the tiles seen before it.                                            *)
Seen(c, n) == {Route[c][i] : i \in 1..n}
Numbered(c, t, k) ==
    \E n \in 1..Len(Route[c]) :
      /\ Route[c][n] = t /\ t \notin Seen(c, n - 1)
      /\ k = Cardinality(Seen(c, n - 1)) + 1

Total(c, t) == Routed(c, t, Len(Route[c]))

(* x is the i-th point of content c that goes to tile t. *)
OwnAt(c, t, i, x) ==
    \E n \in 1..Len(Route[c]) : Route[c][n] = t /\ Rank(c, n) = i /\ x = <<c, n>>

(* x may be the i-th record of a spool of t: that point, none, or the      *)
(* footer.                                                                 *)
Fits(c, t, i, x) ==
    \/ x = Hole
    \/ OwnAt(c, t, i, x)
    \/ i = Total(c, t) + 1 /\ x = Footer(Total(c, t))

TileRight(r, t) ==
    /\ Len(tiles[r][t]) = Total(content[r], t)
    /\ \A i \in 1..Len(tiles[r][t]) :
         \/ OwnAt(content[r], t, i, tiles[r][t][i])
         \/ tiles[r][t][i] = Hole /\ ~alone[r]

(* A writer has written or holds back all points routed to its tile, and   *)
(* what it holds back follows what it has written.                         *)
Ordered(r, t) ==
    /\ offset[r][t] + Len(buffer[r][t]) = Routed(content[r], t, position[r])
    /\ \A j \in 1..Len(buffer[r][t]) :
         OwnAt(content[r], t, offset[r][t] + j, buffer[r][t][j])

(* What one read has done so far: the number of each of its spools is the  *)
(* tile's, its writers are where its stream is, and every payload it has   *)
(* authored is the tile's.                                                 *)
Streaming(r) ==
    /\ pc[r] \in Opening => position[r] = 0
    /\ \A t \in Tiles : slot[r][t] # 0 => Numbered(content[r], t, slot[r][t])
    /\ pc[r] \in Working => Seen(content[r], position[r]) \subseteq Spooled(r)
    /\ pc[r] \in {"stream", "flush"} /\ position[r] < Len(Route[content[r]])
         => Spooled(r) \subseteq Seen(content[r], position[r] + 1)
    /\ pc[r] \in {"close", "read", "remove", "commit", "done"} => position[r] = Len(Route[content[r]])
    /\ pc[r] \in {"stream", "flush", "close"} => \A t \in Tiles : file[r][t] # None => Ordered(r, t)
    /\ \A t \in Tiles : tiles[r][t] # <<>> => TileRight(r, t)
    /\ pc[r] \in {"remove", "commit", "done"} =>
         \A t \in Tiles : tiles[r][t] = <<>> => Total(content[r], t) = 0

(* File f goes by the number k: on disk, or to a writer that has it open.  *)
UsedAs(f, k) ==
    entry[k] = f \/ \E r \in Reads, t \in Tiles : file[r][t] = f /\ slot[r][t] = k

(* No file goes by two numbers.                                            *)
OneName == \A f \in Files, j, k \in Slots : UsedAs(f, j) /\ UsedAs(f, k) => j = k

(* Past the removal of what it has found. *)
Past(r) == Active(r) /\ pc[r] \notin {"space", "clear"}

(* A file that some read may still read or write.                          *)
Meant(f, k) ==
    \/ entry[k] = f /\ \E r \in Reads : Past(r)
    \/ \E r \in Reads, t \in Tiles : file[r][t] = f /\ slot[r][t] = k

(* All it holds is in the place of the one tile with that number.          *)
RightFile(f, k) ==
    \A t \in Tiles : Numbered(source, t, k) =>
      \A i \in 1..Len(records[f]) : Fits(source, t, i, records[f][i])

(* Nobody has touched the spools of a read that is alone. *)
Intact(r) ==
    \A t \in Tiles : slot[r][t] # 0 =>
      LET f == entry[slot[r][t]]
      IN  /\ f # None
          /\ \A i \in 1..Len(records[f]) : records[f][i] # Hole
          /\ file[r][t] # None => file[r][t] = f /\ Len(records[f]) = offset[r][t]

(* What the reads share.                                                   *)
Cleared == ~space => \A k \in Slots : entry[k] = None
Current == \A r \in Reads : Active(r) => content[r] = source
Right == \A f \in Files, k \in Slots : Meant(f, k) => RightFile(f, k)
ByItself(r) == alone[r] /\ Active(r) => \A q \in Reads \ {r} : ~Active(q)
Unharmed(r) == alone[r] /\ pc[r] \in Working => Intact(r)

Shared ==
    /\ Cleared /\ OneName /\ Current /\ Right
    /\ \A r \in Reads : ByItself(r) /\ Unharmed(r)

(* The inductive invariant of OwnPointsDelivered, next to IInv.            *)
OwnInv == Shared /\ \A r \in Reads : Streaming(r)

-----------------------------------------------------------------------------
(* The points among the first n that go to t. *)
Among(c, t, n) == {i \in 1..n : Route[c][i] = t}

LEMMA AmongFinite ==
  ASSUME NEW c, NEW t, NEW n \in Nat
  PROVE  /\ IsFiniteSet(Among(c, t, n)) /\ Routed(c, t, n) \in Nat
         /\ Routed(c, t, n) = Cardinality(Among(c, t, n))
  <1>1. IsFiniteSet(1..n)
    BY FS_Interval
  <1>2. Among(c, t, n) \in SUBSET (1..n)
    BY DEF Among
  <1>3. IsFiniteSet(Among(c, t, n)) /\ Cardinality(Among(c, t, n)) \in Nat
    BY <1>1, <1>2, FS_Subset, FS_CardinalityType
  <1> QED
    BY <1>3 DEF Routed, Among

LEMMA RoutedNext ==
  ASSUME NEW c, NEW t, NEW n \in Nat
  PROVE  Routed(c, t, n + 1) = Routed(c, t, n) + (IF Route[c][n + 1] = t THEN 1 ELSE 0)
  <1>1. n + 1 \notin Among(c, t, n)
    BY DEF Among
  <1>2. Among(c, t, n + 1) = IF Route[c][n + 1] = t THEN Among(c, t, n) \cup {n + 1} ELSE Among(c, t, n)
    BY DEF Among
  <1>3. n + 1 \in Nat
    OBVIOUS
  <1>4. Cardinality(Among(c, t, n) \cup {n + 1}) = Cardinality(Among(c, t, n)) + 1
    BY <1>1, AmongFinite, FS_AddElement
  <1>5. Routed(c, t, n + 1) = Cardinality(Among(c, t, n + 1))
    BY <1>3, AmongFinite
  <1> QED
    BY <1>2, <1>4, <1>5, AmongFinite

LEMMA RoutedNothing ==
  ASSUME NEW c, NEW t, NEW n \in Nat, t \notin Seen(c, n)
  PROVE  Routed(c, t, n) = 0
  <1>1. Among(c, t, n) = {}
    BY DEF Among, Seen
  <1> QED
    BY <1>1, AmongFinite, FS_EmptySet

LEMMA RoutedGrows ==
  ASSUME NEW c, NEW t, NEW m \in Nat, NEW n \in Nat, m <= n
  PROVE  Routed(c, t, m) <= Routed(c, t, n)
  <1>1. Among(c, t, m) \in SUBSET Among(c, t, n)
    BY DEF Among
  <1> QED
    BY <1>1, AmongFinite, FS_Subset

(* A point's place in its tile is one of the tile's, and no other point's. *)
LEMMA RankInTile ==
  ASSUME NEW c \in Contents, NEW n \in 1..Len(Route[c])
  PROVE  Rank(c, n) \in 1..Total(c, Route[c][n]) /\ Rank(c, n) \in Nat /\ Total(c, Route[c][n]) \in Nat
  <1> DEFINE t == Route[c][n]
  <1>1. n \in Nat /\ n - 1 \in Nat /\ Len(Route[c]) \in Nat
    BY RoutesAre
  <1>2. Routed(c, t, (n - 1) + 1) = Routed(c, t, n - 1) + 1
    BY <1>1, RoutedNext
  <1>3. Routed(c, t, n - 1) \in Nat /\ Routed(c, t, n) <= Total(c, t) /\ Total(c, t) \in Nat
    BY <1>1, AmongFinite, RoutedGrows DEF Total
  <1> QED
    BY <1>1, <1>2, <1>3 DEF Rank

LEMMA RankUnique ==
  ASSUME NEW c \in Contents, NEW m \in 1..Len(Route[c]), NEW n \in 1..Len(Route[c]),
         Route[c][m] = Route[c][n], Rank(c, m) = Rank(c, n)
  PROVE  m = n
  <1>1. ASSUME NEW i \in 1..Len(Route[c]), NEW j \in 1..Len(Route[c]), Route[c][i] = Route[c][j], i < j
        PROVE  Rank(c, i) < Rank(c, j)
    <2> DEFINE t == Route[c][j]
    <2>1. i \in Nat /\ j \in Nat /\ j - 1 \in Nat /\ i <= j - 1
      BY <1>1, RoutesAre
    <2>2. Routed(c, t, (j - 1) + 1) = Routed(c, t, j - 1) + 1
      BY <2>1, RoutedNext
    <2>3. Routed(c, t, i) <= Routed(c, t, j - 1) /\ Routed(c, t, i) \in Nat /\ Routed(c, t, j - 1) \in Nat
      BY <2>1, AmongFinite, RoutedGrows
    <2> QED
      BY <1>1, <2>1, <2>2, <2>3 DEF Rank
  <1>2. Rank(c, m) \in Nat /\ Rank(c, n) \in Nat
    BY RankInTile
  <1>3. m \in Nat /\ n \in Nat
    BY RoutesAre
  <1>4. ~(m < n) /\ ~(n < m)
    BY <1>1, <1>2
  <1> QED
    BY <1>3, <1>4

LEMMA SeenFinite ==
  ASSUME NEW c \in Contents, NEW n \in 0..Len(Route[c])
  PROVE  /\ Seen(c, n) \in SUBSET Tiles /\ IsFiniteSet(Seen(c, n)) /\ Cardinality(Seen(c, n)) \in Nat
  <1>1. Seen(c, n) \in SUBSET Tiles
    BY RoutesAre DEF Seen
  <1> QED
    BY <1>1, TileCount, FS_Subset, FS_CardinalityType

LEMMA SeenNext ==
  ASSUME NEW c, NEW n \in Nat
  PROVE  Seen(c, n + 1) = Seen(c, n) \cup {Route[c][n + 1]}
  <1>1. 1..(n + 1) = (1..n) \cup {n + 1}
    OBVIOUS
  <1> QED
    BY <1>1 DEF Seen

(* Every tile has one number, and every number one tile. *)
LEMMA NumberedOnce ==
  ASSUME NEW c \in Contents, NEW t, NEW u, NEW j, NEW k, Numbered(c, t, j), Numbered(c, u, k)
  PROVE  t = u <=> j = k
  <1>1. PICK m \in 1..Len(Route[c]) :
           Route[c][m] = t /\ t \notin Seen(c, m - 1) /\ j = Cardinality(Seen(c, m - 1)) + 1
    BY DEF Numbered
  <1>2. PICK n \in 1..Len(Route[c]) :
           Route[c][n] = u /\ u \notin Seen(c, n - 1) /\ k = Cardinality(Seen(c, n - 1)) + 1
    BY DEF Numbered
  <1>3. Len(Route[c]) \in Nat /\ m \in Nat /\ n \in Nat
    BY RoutesAre
  <1>4. ASSUME NEW a \in 1..Len(Route[c]), NEW b \in 1..Len(Route[c]), a < b,
               Route[c][a] \notin Seen(c, a - 1)
        PROVE  /\ Route[c][a] \in Seen(c, b - 1)
               /\ Cardinality(Seen(c, a - 1)) < Cardinality(Seen(c, b - 1))
    <2> DEFINE S == Seen(c, a - 1)
               T == Seen(c, b - 1)
               x == Route[c][a]
    <2>1. a \in Nat /\ b \in Nat /\ a - 1 \in 0..Len(Route[c]) /\ b - 1 \in 0..Len(Route[c]) /\ a \in 1..(b - 1)
      BY <1>3, <1>4
    <2>2. IsFiniteSet(S) /\ IsFiniteSet(T) /\ Cardinality(S) \in Nat /\ Cardinality(T) \in Nat
      BY <2>1, SeenFinite
    <2>3. x \in T
      BY <2>1 DEF Seen
    <2>4. S \subseteq T
      BY <2>1 DEF Seen
    <2>5. x \notin S
      BY <1>4
    <2> HIDE DEF S, T, x
    <2>6. Cardinality(S \cup {x}) = Cardinality(S) + 1
      BY <2>2, <2>5, FS_AddElement
    <2>7. Cardinality(S \cup {x}) <= Cardinality(T)
      BY <2>2, <2>3, <2>4, FS_Subset
    <2>8. Cardinality(S) < Cardinality(T)
      BY <2>2, <2>6, <2>7
    <2> QED
      BY <2>3, <2>8 DEF S, T, x
  <1>5. Cardinality(Seen(c, m - 1)) \in Nat /\ Cardinality(Seen(c, n - 1)) \in Nat
    <2>1. m - 1 \in 0..Len(Route[c]) /\ n - 1 \in 0..Len(Route[c])
      BY <1>3
    <2> QED
      BY <2>1, SeenFinite
  <1>6. CASE m < n
    <2>1. t \in Seen(c, n - 1) /\ Cardinality(Seen(c, m - 1)) < Cardinality(Seen(c, n - 1))
      BY <1>1, <1>4, <1>6
    <2> QED
      BY <1>1, <1>2, <1>5, <2>1
  <1>7. CASE n < m
    <2>1. u \in Seen(c, m - 1) /\ Cardinality(Seen(c, n - 1)) < Cardinality(Seen(c, m - 1))
      BY <1>2, <1>4, <1>7
    <2> QED
      BY <1>1, <1>2, <1>5, <2>1
  <1>8. CASE m = n
    BY <1>1, <1>2, <1>8
  <1> QED
    BY <1>3, <1>6, <1>7, <1>8

-----------------------------------------------------------------------------
LEMMA OwnInit == Init => OwnInv
  <1> SUFFICES ASSUME Init PROVE OwnInv
    OBVIOUS
  <1>1. \A r \in Reads : ~Active(r)
    BY DEF Init, Active, Rest
  <1>2. ASSUME NEW f \in Files, NEW k \in Slots PROVE ~UsedAs(f, k) /\ ~Meant(f, k)
    BY StreamAssumption DEF Init, UsedAs, Meant
  <1>3. \A r \in Reads : ByItself(r) /\ Unharmed(r)
    BY DEF Init, ByItself, Unharmed
  <1>4. \A r \in Reads : Streaming(r)
    BY DEF Init, Streaming, Opening, Working
  <1> QED
    BY <1>1, <1>2, <1>3, <1>4 DEF OwnInv, Shared, Cleared, OneName, Current, Right, Init

(* Every step of a read but its start. *)
LEMMA StepKeeps ==
  ASSUME IInv, NEW r \in Reads, Step(r) \/ Fail(r) \/ Kill(r)
  PROVE  /\ Active(r) /\ source' = source /\ content' = content
         /\ \A q \in Reads : alone'[q] => alone[q]
  <1>1. source' = source /\ content' = content
    BY Zenon DEF Step, Fail, Kill, InspectSpace, Clear, MakeSpace, OpenMarker, FlushMarker, OpenSpool, RoutePoint,
       FlushOne, Flushed, EndStream, CloseSpool, ReadSpool, Authored, RemoveSpools, Commit, Cleanup, Unmarked,
       RemoveSpace, Keep
  <1>2. alone' = alone \/ alone' = [alone EXCEPT ![r] = FALSE]
    BY Zenon DEF Step, Fail, Kill, InspectSpace, Clear, MakeSpace, OpenMarker, FlushMarker, OpenSpool, RoutePoint,
       FlushOne, Flushed, EndStream, CloseSpool, ReadSpool, Authored, RemoveSpools, Commit, Cleanup, Unmarked,
       RemoveSpace, Keep, DropRead
  <1>3. pc[r] \notin Rest
    BY Zenon DEF Step, Fail, Kill, InspectSpace, Clear, MakeSpace, OpenMarker, FlushMarker, OpenSpool, RoutePoint,
       FlushOne, Flushed, EndStream, CloseSpool, ReadSpool, Authored, RemoveSpools, Commit, Cleanup, Unmarked,
       RemoveSpace, At, Active, Rest, Working
  <1> QED
    BY Zenon, <1>1, <1>2, <1>3 DEF Active, IInv, Typed

LEMMA OthersStay ==
  ASSUME NEW r \in Reads, Only(r), NEW q \in Reads \ {r}, Streaming(q), alone'[q] => alone[q]
  PROVE  Streaming(q)'
  <1>1. /\ pc'[q] = pc[q] /\ content'[q] = content[q] /\ position'[q] = position[q]
        /\ slot'[q] = slot[q] /\ file'[q] = file[q] /\ buffer'[q] = buffer[q] /\ offset'[q] = offset[q]
        /\ tiles'[q] = tiles[q]
    BY DEF Only
  <1>2. Spooled(q)' = Spooled(q) /\ \A t \in Tiles : Ordered(q, t)' <=> Ordered(q, t)
    BY <1>1 DEF Spooled, Ordered
  <1>3. \A t \in Tiles : TileRight(q, t) => TileRight(q, t)'
    BY <1>1 DEF TileRight
  <1> QED
    BY <1>1, <1>2, <1>3 DEF Streaming

(* It is enough to look at the read that makes the step, and at the files. *)
LEMMA OwnStep ==
  ASSUME IInv, OwnInv, NEW r \in Reads, Step(r) \/ Fail(r) \/ Kill(r), Only(r),
         Streaming(r)', Cleared', OneName', Right',
         alone[r] /\ pc'[r] \in Working => Intact(r)'
  PROVE  OwnInv'
  <1>1. /\ Active(r) /\ source' = source /\ content' = content
        /\ \A q \in Reads : alone'[q] => alone[q]
    BY StepKeeps
  <1>2. \A q \in Reads : Active(q)' => Active(q)
    BY <1>1 DEF Only, Active
  <1>3. Current'
    BY <1>1, <1>2 DEF OwnInv, Shared, Current
  <1>4. \A q \in Reads : ByItself(q)'
    BY <1>1, <1>2 DEF OwnInv, Shared, ByItself
  <1>5. ASSUME NEW q \in Reads PROVE Unharmed(q)'
    <2>1. CASE q = r
      BY <1>1, <2>1 DEF Unharmed
    <2>2. CASE q # r
      <3>1. pc'[q] = pc[q] /\ (pc[q] \in Working => Active(q))
        BY <2>2 DEF Only, Active, Working, Rest
      <3>2. ByItself(q)
        BY DEF OwnInv, Shared
      <3> QED
        BY <1>1, <2>2, <3>1, <3>2 DEF Unharmed, ByItself
    <2> QED
      BY <2>1, <2>2
  <1>6. \A q \in Reads : Streaming(q)'
    BY <1>1, OthersStay DEF OwnInv
  <1> QED
    BY <1>3, <1>4, <1>5, <1>6 DEF OwnInv, Shared

(* Fewer files in use. *)
LEMMA FewerUsed ==
  ASSUME OneName, Right,
         \A k \in Slots : entry'[k] = entry[k] \/ entry'[k] = None,
         \A q \in Reads, t \in Tiles : (file'[q][t] = file[q][t] /\ slot'[q][t] = slot[q][t]) \/ file'[q][t] = None,
         records' = records, source' = source,
         (\E q \in Reads : Past(q)') => (\E q \in Reads : Past(q)) \/ \A k \in Slots : entry'[k] = None
  PROVE  OneName' /\ Right'
  <1>1. ASSUME NEW f \in Files, NEW k \in Slots
        PROVE  (UsedAs(f, k)' => UsedAs(f, k)) /\ (Meant(f, k)' => Meant(f, k))
    BY StreamAssumption DEF UsedAs, Meant
  <1>2. OneName'
    BY <1>1 DEF OneName
  <1>3. \A f \in Files, k \in Slots : RightFile(f, k)' <=> RightFile(f, k)
    BY DEF RightFile
  <1> QED
    BY <1>1, <1>2, <1>3 DEF Right

(* A read moves on, writers and payloads as they were. *)
LEMMA StreamingMoves ==
  ASSUME IInv, NEW r \in Reads, Streaming(r), NEW there, pc'[r] = there,
         UNCHANGED <<content, position, slot, file, buffer, offset, tiles>>, alone'[r] => alone[r],
         there \in Opening => pc[r] \in Opening,
         there \in Working => pc[r] \in Working \/ pc[r] \in Opening,
         there \in {"stream", "flush"} => pc[r] \in {"stream", "flush"} \/ pc[r] \in Opening,
         there \in {"close", "read", "remove", "commit", "done"} =>
           \/ pc[r] \in {"close", "read", "remove", "commit", "done"}
           \/ position[r] = Len(Route[content[r]]),
         there \in {"stream", "flush", "close"} => pc[r] \in {"stream", "flush", "close"} \/ pc[r] \in Opening,
         there \in {"remove", "commit", "done"} =>
           \/ pc[r] \in {"remove", "commit", "done"}
           \/ \A t \in Tiles : tiles[r][t] = <<>> => Total(content[r], t) = 0
  PROVE  Streaming(r)'
  <1>1. Spooled(r)' = Spooled(r) /\ \A t \in Tiles : Ordered(r, t)' <=> Ordered(r, t)
    BY DEF Spooled, Ordered
  <1>2. \A t \in Tiles : TileRight(r, t) => TileRight(r, t)'
    BY DEF TileRight
  <1>3. pc[r] \in Opening => NoWriters(r) /\ position[r] = 0
    BY DEF IInv, Writers, Streaming
  <1>4. pc[r] \in Opening => Spooled(r) = {} /\ Seen(content[r], position[r]) = {}
    BY <1>3 DEF Spooled, NoWriters, Seen
  <1>5. there \in Opening => position[r] = 0
    BY <1>3
  <1>6. there \in Working => Seen(content[r], position[r]) \subseteq Spooled(r)
    BY <1>4 DEF Streaming
  <1>7. there \in {"stream", "flush"} /\ position[r] < Len(Route[content[r]])
          => Spooled(r) \subseteq Seen(content[r], position[r] + 1)
    BY <1>4 DEF Streaming
  <1>8. there \in {"close", "read", "remove", "commit", "done"} => position[r] = Len(Route[content[r]])
    BY DEF Streaming
  <1>9. there \in {"stream", "flush", "close"} => \A t \in Tiles : file[r][t] # None => Ordered(r, t)
    BY <1>3 DEF Streaming, NoWriters
  <1>10. there \in {"remove", "commit", "done"} =>
           \A t \in Tiles : tiles[r][t] = <<>> => Total(content[r], t) = 0
    BY DEF Streaming
  <1>11. /\ \A t \in Tiles : slot[r][t] # 0 => Numbered(content[r], t, slot[r][t])
         /\ \A t \in Tiles : tiles[r][t] # <<>> => TileRight(r, t)
    BY DEF Streaming
  <1> QED
    BY <1>1, <1>2, <1>5, <1>6, <1>7, <1>8, <1>9, <1>10, <1>11 DEF Streaming

(* A read ends, or gives up, without writers. *)
LEMMA StreamingEnds ==
  ASSUME IInv, NEW r \in Reads, Streaming(r), NEW there \in Rest, pc'[r] = there, NoWriters(r)',
         content' = content, alone'[r] => alone[r],
         \/ /\ there \notin {"done"}
            /\ tiles'[r] = [t \in Tiles |-> <<>>]
         \/ /\ UNCHANGED <<position, tiles>>
            /\ there = "done" => pc[r] = "commit"
  PROVE  Streaming(r)'
  <1>1. \A t \in Tiles : slot'[r][t] = 0 /\ file'[r][t] = None
    BY DEF NoWriters
  <1>2. there \notin Opening \cup Working \cup {"remove", "commit"}
    BY DEF Rest, Opening, Working
  <1>3. CASE there # "done" /\ tiles'[r] = [t \in Tiles |-> <<>>]
    BY <1>1, <1>2, <1>3 DEF Streaming, Working
  <1>4. CASE UNCHANGED <<position, tiles>> /\ (there = "done" => pc[r] = "commit")
    <2>1. \A t \in Tiles : tiles'[r][t] # <<>> => TileRight(r, t)'
      BY <1>4 DEF Streaming, TileRight
    <2>2. there = "done" => /\ position[r] = Len(Route[content[r]])
                            /\ \A t \in Tiles : tiles[r][t] = <<>> => Total(content[r], t) = 0
      BY <1>4 DEF Streaming
    <2> QED
      BY <1>1, <1>2, <1>4, <2>1, <2>2 DEF Streaming, Working
  <1> QED
    BY <1>3, <1>4

(* A step that leaves the spools and their writers alone. *)
LEMMA QuietStep ==
  ASSUME IInv, OwnInv, NEW r \in Reads, Step(r) \/ Fail(r) \/ Kill(r), Only(r), Streaming(r)',
         UNCHANGED <<entry, records, slot, file, offset>>, space => space',
         pc'[r] \in Working => pc[r] \in Working \/ NoWriters(r),
         Past(r)' => Past(r) \/ \A k \in Slots : entry[k] = None
  PROVE  OwnInv'
  <1> Cleared /\ OneName /\ Right /\ Unharmed(r)
    BY DEF OwnInv, Shared
  <1>1. source' = source
    BY StepKeeps
  <1>2. Cleared'
    BY DEF Cleared
  <1>3. \A q \in Reads : Past(q)' => Past(q) \/ \A k \in Slots : entry'[k] = None
    <2>1. \A q \in Reads \ {r} : Past(q)' => Past(q)
      BY DEF Only, Past, Active
    <2> QED
      BY <2>1
  <1>4. OneName' /\ Right'
    BY <1>1, <1>3, FewerUsed
  <1>5. Intact(r)' <=> Intact(r)
    BY DEF Intact
  <1>6. NoWriters(r) => Intact(r)
    BY DEF NoWriters, Intact
  <1>7. alone[r] /\ pc'[r] \in Working => Intact(r)'
    BY <1>5, <1>6 DEF Unharmed
  <1> QED
    BY <1>2, <1>4, <1>7, OwnStep

LEMMA OpeningOwn ==
  ASSUME IInv, OwnInv, NEW r \in Reads, Only(r),
         InspectSpace(r) \/ MakeSpace(r) \/ OpenMarker(r) \/ FlushMarker(r)
  PROVE  OwnInv'
  <1> Typed /\ Writers(r) /\ Streaming(r) /\ Cleared
    BY DEF IInv, OwnInv, Shared
  <1>1. Step(r)
    BY DEF Step
  <1>2. pc[r] \in Opening /\ NoWriters(r)
    BY DEF Writers, InspectSpace, MakeSpace, OpenMarker, FlushMarker, At, Opening
  <1>3. PICK there \in {"make", "clear", "failed", "mark", "marking", "unmarked", "stream"} : GoTo(r, there)
    BY DEF InspectSpace, MakeSpace, OpenMarker, FlushMarker
  <1>4. /\ UNCHANGED <<source, alone, content, position, writers, tiles, entry, records>>
        /\ space => space'
    BY DEF InspectSpace, MakeSpace, OpenMarker, FlushMarker, Keep, disk
  <1>5. pc'[r] = there
    BY <1>3 DEF Typed, GoTo
  <1>6. Past(r)' => Past(r) \/ \A k \in Slots : entry[k] = None
    <2>1. CASE InspectSpace(r)
      BY <2>1, <1>5 DEF InspectSpace, At, GoTo, Typed, Past, Active, Rest, Cleared
    <2>2. CASE MakeSpace(r) \/ OpenMarker(r) \/ FlushMarker(r)
      BY <2>2 DEF MakeSpace, OpenMarker, FlushMarker, At, Past, Active, Rest
    <2> QED
      BY <2>1, <2>2
  <1>7. Streaming(r)'
    BY <1>2, <1>4, <1>5, StreamingMoves DEF writers, Working
  <1> QED
    BY <1>1, <1>2, <1>4, <1>5, <1>6, <1>7, QuietStep DEF writers

LEMMA MovingOwn ==
  ASSUME IInv, OwnInv, NEW r \in Reads, Only(r), Flushed(r) \/ EndStream(r) \/ Authored(r) \/ Fail(r)
  PROVE  OwnInv'
  <1> Typed /\ Writers(r) /\ Streaming(r)
    BY DEF IInv, OwnInv, Shared
  <1>1. Step(r) \/ Fail(r)
    BY DEF Step
  <1>2. UNCHANGED <<source, alone, content, position, slot, file, buffer, offset, tiles, entry, records, space>>
    BY DEF Flushed, EndStream, Authored, Fail, Keep, disk, writers
  <1>3. Streaming(r)' /\ (pc'[r] \in Working => pc[r] \in Working) /\ (Past(r)' => Past(r))
    <2>1. CASE Flushed(r)
      <3>1. pc[r] = "flush" /\ pc'[r] = "stream"
        BY <2>1 DEF Flushed, At, GoTo, Typed
      <3> QED
        BY <1>2, <3>1, StreamingMoves DEF Working, Opening, Past, Active, Rest
    <2>2. CASE EndStream(r)
      <3>1. /\ pc[r] = "stream" /\ pc'[r] \in {"cleanup", "close"}
            /\ position[r] = Len(Route[content[r]])
        BY <2>2 DEF EndStream, At, GoTo, Typed
      <3>2. Streaming(r)'
        BY <1>2, <3>1, StreamingMoves DEF Working, Opening
      <3> QED
        BY <3>1, <3>2 DEF Working, Past, Active, Rest
    <2>3. CASE Authored(r)
      <3>1. /\ pc[r] = "read" /\ pc'[r] = "remove"
            /\ \A t \in Tiles : slot[r][t] # 0 => tiles[r][t] # <<>>
        BY <2>3 DEF Authored, At, GoTo, Typed, Spooled
      <3>2. ASSUME NEW t \in Tiles, tiles[r][t] = <<>> PROVE Total(content[r], t) = 0
        <4>1. t \notin Seen(content[r], Len(Route[content[r]]))
          BY <3>1, <3>2 DEF Streaming, Working, Spooled
        <4>2. Len(Route[content[r]]) \in Nat
          BY RoutesAre DEF Typed
        <4> QED
          BY <4>1, <4>2, RoutedNothing DEF Total
      <3>3. Streaming(r)'
        BY <1>2, <3>1, <3>2, StreamingMoves DEF Working, Opening
      <3> QED
        BY <3>1, <3>3 DEF Working, Past, Active, Rest
    <2>4. CASE Fail(r)
      <3>1. PICK there \in {"cleanup", "failed", "unmarked"} : GoTo(r, there)
                             /\ (there = "unmarked" => Past(r)) /\ (there = "cleanup" => Past(r))
        BY <2>4 DEF Fail, Past, Active, Working, Rest
      <3>2. pc'[r] = there
        BY <3>1 DEF GoTo, Typed
      <3>3. Streaming(r)'
        BY <1>2, <3>2, StreamingMoves DEF Working, Opening
      <3> QED
        BY <3>1, <3>2, <3>3 DEF Working, Past, Active, Rest
    <2> QED
      BY <2>1, <2>2, <2>3, <2>4
  <1> QED
    BY <1>1, <1>2, <1>3, QuietStep

(* A spool's records, read when the file by its name ends where it should. *)
LEMMA ReadsOwn ==
  ASSUME IInv, OwnInv, NEW r \in Reads, pc[r] = "read", NEW t \in Tiles, slot[r][t] # 0,
         Readable(slot[r][t], t)
  PROVE  LET got == Front(records[entry[slot[r][t]]])
         IN  /\ Len(got) = Total(content[r], t)
             /\ \A i \in 1..Len(got) :
                  \/ OwnAt(content[r], t, i, got[i])
                  \/ got[i] = Hole /\ ~alone[r]
  <1> DEFINE c == content[r]
             k == slot[r][t]
             f == entry[k]
             data == records[f]
             got == Front(data)
  <1> Typed /\ Streaming(r) /\ Shared
    BY DEF IInv, OwnInv
  <1>1. c \in Contents /\ k \in Slots /\ f \in Files /\ data \in Seq(Records) /\ Len(data) \in Nat
    BY DEF Typed, Readable
  <1>2. Numbered(c, t, k) /\ c = source /\ Meant(f, k)
    BY DEF Streaming, Shared, Current, Meant, Past, Active, Rest
  <1>3. \A i \in 1..Len(data) : Fits(c, t, i, data[i])
    BY <1>1, <1>2 DEF Shared, Right, RightFile
  <1>4. /\ Len(data) > 1 /\ data[Len(data)] = Footer(Len(data) - 1)
        /\ \A i \in 1..Len(data) - 1 : data[i] \in Points \cup {Hole}
    BY DEF Readable, Last
  <1>5. ASSUME NEW n PROVE Footer(n) # Hole /\ Footer(n) \notin Points
    BY StreamAssumption DEF Footer, Hole, Points
  <1>6. ASSUME NEW i, NEW x, OwnAt(c, t, i, x) PROVE x \in Points
    BY <1>1, <1>6, RoutesAre DEF OwnAt
  <1>7. Total(c, t) \in Nat
    BY <1>1, RoutesAre, AmongFinite DEF Total
  <1> HIDE DEF c, k, f, data
  <1>8. Len(data) = Total(c, t) + 1
    <2>1. Fits(c, t, Len(data), Footer(Len(data) - 1))
      BY <1>1, <1>3, <1>4
    <2> QED
      BY <2>1, <1>5, <1>6 DEF Fits
  <1>9. ASSUME NEW i \in 1..Len(data) - 1
        PROVE  data[i] = Hole \/ OwnAt(c, t, i, data[i])
    <2>1. Fits(c, t, i, data[i]) /\ i # Total(c, t) + 1
      BY <1>1, <1>3, <1>7, <1>8
    <2> QED
      BY <2>1 DEF Fits
  <1>10. ASSUME alone[r], NEW i \in 1..Len(data) - 1 PROVE data[i] # Hole
    <2>1. Intact(r)
      BY <1>10 DEF Shared, Unharmed, Working
    <2> QED
      BY <1>1, <2>1 DEF Intact, k, f, data
  <1>11. Len(got) = Len(data) - 1 /\ \A i \in 1..Len(got) : got[i] = data[i]
    BY ONLY <1>1, <1>4, SubSeqProperties DEF Front
  <1> HIDE DEF got
  <1>12. Len(got) = Total(c, t)
    BY <1>7, <1>8, <1>11
  <1>13. ASSUME NEW i \in 1..Len(got)
         PROVE  OwnAt(c, t, i, got[i]) \/ (got[i] = Hole /\ ~alone[r])
    <2>1. i \in 1..Len(data) - 1 /\ got[i] = data[i]
      BY <1>11
    <2> QED
      BY <2>1, <1>9, <1>10
  <1> QED
    BY <1>12, <1>13 DEF c, k, f, data, got

LEMMA ReadSpoolOwn ==
  ASSUME IInv, OwnInv, NEW r \in Reads, Only(r), ReadSpool(r)
  PROVE  OwnInv'
  <1> Typed /\ Streaming(r)
    BY DEF IInv, OwnInv, Shared
  <1>1. PICK t \in Tiles :
           /\ slot[r][t] # 0
           /\ \/ /\ Readable(slot[r][t], t)
                 /\ tiles' = [tiles EXCEPT ![r][t] = Front(records[entry[slot[r][t]]])]
                 /\ UNCHANGED pc
              \/ GoTo(r, "cleanup") /\ UNCHANGED tiles
    BY ReadsOne
  <1>2. pc[r] = "read" /\ UNCHANGED <<source, alone, content, disk, position, writers>>
    BY DEF ReadSpool, Keep, At
  <1>3. UNCHANGED <<entry, records, slot, file, offset, buffer, space>>
    BY <1>2 DEF disk, writers
  <1>4. CASE GoTo(r, "cleanup") /\ UNCHANGED tiles
    <2>1. pc'[r] = "cleanup"
      BY <1>4 DEF GoTo, Typed
    <2>2. Streaming(r)'
      BY <1>2, <1>3, <1>4, <2>1, StreamingMoves DEF Working, Opening
    <2>3. Past(r) /\ pc'[r] \notin Working
      BY <1>2, <2>1 DEF Past, Active, Rest, Working
    <2> QED
      BY <1>3, <2>2, <2>3, QuietStep DEF Step
  <1>5. CASE /\ Readable(slot[r][t], t)
             /\ tiles' = [tiles EXCEPT ![r][t] = Front(records[entry[slot[r][t]]])]
             /\ UNCHANGED pc
    <2> DEFINE got == Front(records[entry[slot[r][t]]])
    <2>1. /\ Len(got) = Total(content[r], t)
          /\ \A i \in 1..Len(got) :
               \/ OwnAt(content[r], t, i, got[i])
               \/ got[i] = Hole /\ ~alone[r]
      BY <1>1, <1>2, <1>5, ReadsOwn
    <2>2. tiles'[r][t] = got /\ \A u \in Tiles \ {t} : tiles'[r][u] = tiles[r][u]
      BY <1>5 DEF Typed
    <2> HIDE DEF got
    <2>3. ASSUME NEW u \in Tiles, tiles'[r][u] # <<>> PROVE TileRight(r, u)'
      <3>1. CASE u = t
        BY <1>2, <2>1, <2>2, <3>1 DEF TileRight
      <3>2. CASE u # t
        <4>1. TileRight(r, u) /\ tiles'[r][u] = tiles[r][u]
          BY <2>2, <2>3, <3>2 DEF Streaming
        <4> QED
          BY <1>2, <4>1 DEF TileRight
      <3> QED
        BY <3>1, <3>2
    <2>4. Spooled(r)' = Spooled(r)
      BY <1>3 DEF Spooled
    <2>5. Streaming(r)'
      <3>1. pc'[r] = "read" /\ content' = content /\ position' = position /\ slot' = slot
        BY <1>2, <1>3, <1>5
      <3> QED
        BY <2>3, <2>4, <1>2, <3>1 DEF Streaming, Working, Opening
    <2>6. Past(r) /\ pc'[r] = pc[r]
      BY <1>2, <1>5 DEF Past, Active, Rest
    <2> QED
      BY <1>3, <2>5, <2>6, QuietStep DEF Step
  <1> QED
    BY <1>1, <1>4, <1>5

-----------------------------------------------------------------------------
LEMMA RemovalLeaves ==
  ASSUME Typed, Cleared, RemoveOne \/ RemoveLast
  PROVE  /\ \A k \in Slots : entry'[k] = entry[k] \/ entry'[k] = None
         /\ records' = records /\ Cleared'
         /\ RemoveLast => \A k \in Slots : entry'[k] = None
  BY DEF Typed, Cleared, RemoveOne, RemoveLast

LEMMA RemoveSpaceOwn ==
  ASSUME IInv, OwnInv, NEW r \in Reads, Only(r), Clear(r) \/ RemoveSpools(r) \/ Unmarked(r)
  PROVE  OwnInv'
  <1> Typed /\ Writers(r) /\ Streaming(r) /\ Cleared /\ OneName /\ Right
    BY DEF IInv, OwnInv, Shared
  <1>1. PICK here \in {"clear", "remove", "unmarked"}, there \in {"make", "commit", "failed"} :
           /\ here = "clear" <=> there = "make"
           /\ here = "remove" <=> there = "commit"
           /\ RemoveSpace(r, here, there)
    BY DEF Clear, RemoveSpools, Unmarked
  <1>2. /\ UNCHANGED <<source, alone, content, position, slot, file, buffer, offset, tiles>> /\ pc[r] = here
        /\ (RemoveOne /\ UNCHANGED pc) \/ (RemoveLast /\ GoTo(r, there))
    BY <1>1 DEF RemoveSpace, Keep, At, writers
  <1>3. /\ \A k \in Slots : entry'[k] = entry[k] \/ entry'[k] = None
        /\ records' = records /\ Cleared'
        /\ RemoveLast => \A k \in Slots : entry'[k] = None
    BY <1>2, RemovalLeaves
  <1>4. pc'[r] = here \/ (RemoveLast /\ pc'[r] = there)
    BY <1>2 DEF GoTo, Typed
  <1>5. Streaming(r)' /\ pc'[r] \notin Working
    BY <1>1, <1>2, <1>4, StreamingMoves DEF Working, Opening
  <1>6. \A q \in Reads : Past(q)' => Past(q) \/ \A k \in Slots : entry'[k] = None
    <2>1. \A q \in Reads \ {r} : Past(q)' => Past(q)
      BY DEF Only, Past, Active
    <2>2. Past(r)' => Past(r) \/ RemoveLast
      BY <1>2, <1>4 DEF Past, Active
    <2> QED
      BY <1>3, <2>1, <2>2
  <1>7. OneName' /\ Right'
    BY <1>2, <1>3, <1>6, FewerUsed
  <1> QED
    BY <1>3, <1>5, <1>7, OwnStep DEF Step

(* A read ends without writers. *)
LEMMA EndOwn ==
  ASSUME IInv, OwnInv, NEW r \in Reads, Only(r), Step(r) \/ Fail(r) \/ Kill(r),
         NEW there \in Rest, GoTo(r, there), DropWriters(r),
         \/ /\ UNCHANGED <<position, tiles>>
            /\ there = "done" /\ pc[r] = "commit"
         \/ /\ tiles' = [tiles EXCEPT ![r] = [t \in Tiles |-> <<>>]]
            /\ there # "done",
         \A k \in Slots : entry'[k] = entry[k] \/ entry'[k] = None,
         records' = records, Cleared'
  PROVE  OwnInv'
  <1> Typed /\ Streaming(r) /\ OneName /\ Right
    BY DEF IInv, OwnInv, Shared
  <1>1. pc'[r] = there /\ pc'[r] \notin Working
    BY DEF GoTo, Typed, Working, Rest
  <1>2. NoWriters(r)'
    BY DropsWriters
  <1>3. content' = content /\ source' = source /\ (alone'[r] => alone[r])
    BY StepKeeps
  <1>4. Streaming(r)'
    <2>1. CASE UNCHANGED <<position, tiles>> /\ there = "done" /\ pc[r] = "commit"
      BY <1>1, <1>2, <1>3, <2>1, StreamingEnds
    <2>2. CASE tiles' = [tiles EXCEPT ![r] = [t \in Tiles |-> <<>>]] /\ there # "done"
      <3>1. tiles'[r] = [t \in Tiles |-> <<>>]
        BY <2>2 DEF Typed
      <3> QED
        BY <1>1, <1>2, <1>3, <2>2, <3>1, StreamingEnds
    <2> QED
      BY <2>1, <2>2
  <1>5. ASSUME NEW q \in Reads, NEW t \in Tiles
        PROVE  (file'[q][t] = file[q][t] /\ slot'[q][t] = slot[q][t]) \/ file'[q][t] = None
    BY <1>2 DEF Only, NoWriters
  <1>6. \A q \in Reads : Past(q)' => Past(q)
    <2>1. \A q \in Reads \ {r} : Past(q)' => Past(q)
      BY DEF Only, Past, Active
    <2>2. ~Past(r)'
      BY <1>1 DEF Past, Active
    <2> QED
      BY <2>1, <2>2
  <1>7. OneName' /\ Right'
    BY <1>3, <1>5, <1>6, FewerUsed
  <1> QED
    BY <1>1, <1>4, <1>7, OwnStep

LEMMA CommitOwn ==
  ASSUME IInv, OwnInv, NEW r \in Reads, Only(r), Commit(r) \/ Kill(r)
  PROVE  OwnInv'
  <1>1. Cleared' /\ records' = records /\ entry' = entry
    BY DEF Commit, Kill, disk, OwnInv, Shared, Cleared
  <1>2. CASE Commit(r)
    <2>1. GoTo(r, "done") /\ DropWriters(r) /\ UNCHANGED <<position, tiles>> /\ pc[r] = "commit"
      BY <1>2 DEF Commit, At
    <2> QED
      BY <1>1, <1>2, <2>1, EndOwn DEF Step, Rest
  <1>3. CASE Kill(r)
    <2>1. /\ GoTo(r, "idle") /\ DropWriters(r)
          /\ tiles' = [tiles EXCEPT ![r] = [t \in Tiles |-> <<>>]]
      BY <1>3 DEF Kill, DropRead
    <2> QED
      BY <1>1, <1>3, <2>1, EndOwn DEF Rest
  <1> QED
    BY <1>2, <1>3

LEMMA CleanupOwn ==
  ASSUME IInv, OwnInv, NEW r \in Reads, Only(r), Cleanup(r)
  PROVE  OwnInv'
  <1> Typed /\ Streaming(r) /\ Cleared /\ OneName /\ Right
    BY DEF IInv, OwnInv, Shared
  <1>1. pc[r] = "cleanup" /\ Step(r)
    BY DEF Cleanup, At, Step
  <1>2. CASE RemoveOne /\ UNCHANGED <<pc, alone, position, writers, tiles>>
    <2>1. /\ \A k \in Slots : entry'[k] = entry[k] \/ entry'[k] = None
          /\ records' = records /\ Cleared'
      BY <1>2, RemovalLeaves
    <2>2. UNCHANGED <<source, content, slot, file, buffer, offset, position, pc, alone, tiles>>
      BY <1>2 DEF Cleanup, writers
    <2>3. Streaming(r)' /\ pc'[r] \notin Working
      BY <1>1, <2>2, StreamingMoves DEF Working, Opening
    <2>4. \A q \in Reads : Past(q)' => Past(q)
      BY <2>2 DEF Past, Active
    <2>5. OneName' /\ Right'
      BY <2>1, <2>2, <2>4, FewerUsed
    <2> QED
      BY <1>1, <2>1, <2>3, <2>5, OwnStep
  <1>3. CASE (RemoveLast \/ UNCHANGED disk) /\ GoTo(r, "failed") /\ DropRead(r)
    <2>1. /\ \A k \in Slots : entry'[k] = entry[k] \/ entry'[k] = None
          /\ records' = records /\ Cleared'
      <3>1. CASE RemoveLast
        BY <3>1, RemovalLeaves
      <3>2. CASE UNCHANGED disk
        BY <3>2 DEF disk, Cleared
      <3> QED
        BY <1>3, <3>1, <3>2
    <2>2. DropWriters(r) /\ tiles' = [tiles EXCEPT ![r] = [t \in Tiles |-> <<>>]]
      BY <1>3 DEF DropRead
    <2> QED
      BY <1>1, <1>3, <2>1, <2>2, EndOwn DEF Rest
  <1> QED
    BY <1>2, <1>3 DEF Cleanup

LEMMA StartOwn ==
  ASSUME IInv, OwnInv, NEW r \in Reads, Only(r), Start(r)
  PROVE  OwnInv'
  <1> Typed /\ Writers(r) /\ Cleared /\ OneName /\ Right /\ Current
    BY DEF IInv, OwnInv, Shared
  <1>1. NoWriters(r) /\ ~Active(r)
    BY DEF Start, Active, Writers
  <1>2. /\ pc'[r] = "space" /\ content'[r] = source /\ position'[r] = 0
        /\ tiles'[r] = [t \in Tiles |-> <<>>]
        /\ UNCHANGED <<source, space, entry, records, slot, file, buffer, offset>>
    BY DEF Start, GoTo, Typed, disk, writers
  <1>3. alone'[r] => \A q \in Reads : ~Active(q)
    BY DEF Start
  <1>4. \A q \in Reads \ {r} : alone'[q] => alone[q] /\ ~Active(q)
    BY DEF Start
  <1>5. \A q \in Reads \ {r} : Active(q)' <=> Active(q)
    BY DEF Only, Active
  <1>6. Streaming(r)'
    <2>1. \A t \in Tiles : slot'[r][t] = 0 /\ tiles'[r][t] = <<>>
      BY <1>1, <1>2 DEF NoWriters
    <2> QED
      BY <1>2, <2>1 DEF Streaming, Working, Opening
  <1>7. OneName' /\ Right'
    <2>1. \A q \in Reads : Past(q)' => Past(q)
      BY <1>2 DEF Only, Past, Active
    <2> QED
      BY <1>2, <2>1, FewerUsed
  <1>8. Cleared' /\ Current'
    <2>1. \A q \in Reads \ {r} : content'[q] = content[q]
      BY DEF Only
    <2> QED
      BY <1>2, <1>5, <2>1 DEF Cleared, Current
  <1>9. ASSUME NEW q \in Reads PROVE ByItself(q)' /\ Unharmed(q)'
    <2>1. CASE q = r
      BY <1>2, <1>3, <1>5, <2>1 DEF ByItself, Unharmed, Working
    <2>2. CASE q # r
      <3>1. pc'[q] \in Working => Active(q)'
        BY DEF Working, Active, Rest
      <3> QED
        BY <1>4, <1>5, <2>2, <3>1 DEF ByItself, Unharmed
    <2> QED
      BY <2>1, <2>2
  <1>10. \A q \in Reads : Streaming(q)'
    BY <1>4, <1>6, OthersStay DEF OwnInv
  <1> QED
    BY <1>7, <1>8, <1>9, <1>10 DEF OwnInv, Shared

LEMMA SourceOwn ==
  ASSUME ~Revised, IInv, OwnInv, SourceChanges
  PROVE  OwnInv'
  <1>1. /\ \A r \in Reads : ~Active(r)
        /\ UNCHANGED <<space, entry, records, alone, pc, content, position, slot, file, buffer, offset, tiles>>
    BY DEF SourceChanges, disk, writers
  <1>2. \A r \in Reads : ~Active(r)' /\ ~Past(r)' /\ pc'[r] \notin Working
    BY <1>1 DEF Active, Past, Working, Rest
  <1>3. ASSUME NEW f \in Files, NEW k \in Slots PROVE ~Meant(f, k)'
    <2>1. \A r \in Reads, t \in Tiles : file'[r][t] = None
      BY <1>1 DEF IInv, Writers, NoWriters, Active
    <2> QED
      BY <1>2, <2>1, StreamAssumption DEF Meant
  <1>4. OneName' /\ Cleared'
    BY <1>1 DEF OwnInv, Shared, OneName, UsedAs, Cleared
  <1>5. \A r \in Reads : Streaming(r)'
    <2> SUFFICES ASSUME NEW r \in Reads PROVE Streaming(r)'
      OBVIOUS
    <2>2. Streaming(r)
      BY DEF OwnInv
    <2>3. Spooled(r)' = Spooled(r) /\ \A t \in Tiles : Ordered(r, t)' <=> Ordered(r, t)
      BY <1>1 DEF Spooled, Ordered
    <2>4. \A t \in Tiles : TileRight(r, t)' <=> TileRight(r, t)
      BY <1>1 DEF TileRight
    <2> QED
      BY <1>1, <2>2, <2>3, <2>4 DEF Streaming
  <1> QED
    BY <1>2, <1>3, <1>4, <1>5 DEF OwnInv, Shared, Current, Right, ByItself, Unharmed

-----------------------------------------------------------------------------
(* The next spool gets the number its tile has, whatever it had before.    *)
LEMMA NextIsNumbered ==
  ASSUME IInv, NEW r \in Reads, Streaming(r), pc[r] = "stream", position[r] < Len(Route[content[r]]),
         TileNext(r) \notin Spooled(r)
  PROVE  /\ TileNext(r) \notin Seen(content[r], position[r])
         /\ Numbered(content[r], TileNext(r), NumberNext(r))
         /\ Spooled(r) \cup {TileNext(r)} \subseteq Seen(content[r], position[r] + 1)
  <1> DEFINE c == content[r]
             p == position[r]
             t == TileNext(r)
  <1>0. c \in Contents /\ p \in Nat
    BY DEF IInv, Typed
  <1>1. c \in Contents /\ p \in Nat /\ Len(Route[c]) \in Nat /\ p + 1 \in 1..Len(Route[c])
    BY <1>0, RoutesAre
  <1>2. Seen(c, p) \subseteq Spooled(r) /\ Spooled(r) \subseteq Seen(c, p + 1)
    BY DEF Streaming, Working
  <1>3. Seen(c, p + 1) = Seen(c, p) \cup {t}
    BY <1>1, SeenNext DEF TileNext
  <1>4. Spooled(r) = Seen(c, p)
    BY <1>2, <1>3
  <1>5. Route[c][p + 1] = t /\ (p + 1) - 1 = p
    BY <1>1 DEF TileNext
  <1>6. NumberNext(r) = Cardinality(Seen(c, p)) + 1
    BY <1>4 DEF NumberNext
  <1> HIDE DEF c, p, t
  <1>7. Numbered(c, t, NumberNext(r))
    BY <1>1, <1>4, <1>5, <1>6 DEF Numbered, t
  <1> QED
    BY <1>3, <1>4, <1>7 DEF c, p, t

LEMMA OpenSpoolOwn ==
  ASSUME IInv, OwnInv, NEW r \in Reads, Only(r), OpenSpool(r)
  PROVE  OwnInv'
  <1> DEFINE t == TileNext(r)
             k == NumberNext(r)
             f == FileNext(r)
             c == content[r]
  <1> Typed /\ Writers(r) /\ Streaming(r) /\ OneName /\ Right /\ Unharmed(r)
    BY DEF IInv, OwnInv, Shared
  <1>1. /\ pc[r] = "stream" /\ position[r] < Len(Route[c]) /\ t \in Tiles /\ slot[r][t] = 0
        /\ t \notin Spooled(r) /\ k \in Slots /\ f \in Files /\ Step(r)
        /\ f = entry[k] \/ f \notin Busy
    BY OpensOne DEF Step
  <1>2. UNCHANGED <<source, alone, content, left, space, marker, position, buffer, offset, buffered, tiles>>
    BY OpensOne
  <1>3. CASE GoTo(r, "cleanup") /\ UNCHANGED <<entry, header, records, slot, file>>
    <2>1. pc'[r] = "cleanup"
      BY <1>3 DEF GoTo, Typed
    <2>2. Streaming(r)'
      BY <1>2, <1>3, <2>1, StreamingMoves DEF Working, Opening
    <2>3. Past(r) /\ pc'[r] \notin Working
      BY <1>1, <2>1 DEF Past, Active, Rest, Working
    <2> QED
      BY <1>1, <1>2, <1>3, <2>2, <2>3, QuietStep
  <1>4. CASE space /\ Opens(r)
    <2>0. /\ entry' = [entry EXCEPT ![k] = f] /\ records' = [records EXCEPT ![f] = <<>>]
          /\ slot' = [slot EXCEPT ![r][t] = k] /\ file' = [file EXCEPT ![r][t] = f]
          /\ UNCHANGED pc
      BY <1>4 DEF Opens
    <2>1. /\ t \notin Seen(c, position[r]) /\ Numbered(c, t, k)
          /\ Spooled(r) \cup {t} \subseteq Seen(c, position[r] + 1)
      BY <1>1, NextIsNumbered
    <2>2. c \in Contents /\ position[r] \in Nat /\ c = source
      BY <1>1 DEF Typed, OwnInv, Shared, Current, Active, Rest
    <2> HIDE DEF t, k, f, c
    <2>3. /\ \A j \in Slots : entry'[j] = IF j = k THEN f ELSE entry[j]
          /\ \A g \in Files : records'[g] = IF g = f THEN <<>> ELSE records[g]
          /\ \A u \in Tiles : slot'[r][u] = IF u = t THEN k ELSE slot[r][u]
          /\ \A u \in Tiles : file'[r][u] = IF u = t THEN f ELSE file[r][u]
      BY <1>1, <2>0 DEF Typed
    <2>4. \A q \in Reads \ {r} : slot'[q] = slot[q] /\ file'[q] = file[q]
      BY DEF Only
    <2>5. ASSUME NEW j \in Slots, UsedAs(f, j) PROVE j = k
      <3>1. CASE f = entry[k]
        BY <1>1, <2>5, <3>1 DEF OneName, UsedAs
      <3>2. CASE f \notin Busy
        BY <2>5, <3>2 DEF UsedAs, Busy
      <3> QED
        BY <1>1, <3>1, <3>2
    <2>6. ASSUME NEW g \in Files, NEW j \in Slots, UsedAs(g, j)'
          PROVE  IF g = f THEN j = k ELSE UsedAs(g, j)
      <3>1. (g = f /\ j = k) \/ UsedAs(g, j)
        <4>1. CASE entry'[j] = g
          BY <2>3, <4>1 DEF UsedAs
        <4>2. ASSUME NEW q \in Reads, NEW u \in Tiles, file'[q][u] = g, slot'[q][u] = j
              PROVE  (g = f /\ j = k) \/ UsedAs(g, j)
          BY <2>3, <2>4, <4>2 DEF UsedAs
        <4> QED
          BY <2>6, <4>1, <4>2 DEF UsedAs
      <3> QED
        BY <2>5, <3>1
    <2>7. OneName'
      BY <2>6 DEF OneName
    <2>8. ASSUME NEW g \in Files, NEW j \in Slots, Meant(g, j)' PROVE RightFile(g, j)'
      <3>1. CASE g = f
        <4>1. records'[g] = <<>>
          BY <2>3, <3>1
        <4> QED
          BY <4>1 DEF RightFile
      <3>2. CASE g # f
        <4>1. ASSUME entry'[j] = g, \E q \in Reads : Past(q)'
              PROVE  Meant(g, j)
          BY <2>0, <2>3, <3>2, <4>1 DEF Meant, Past, Active
        <4>2. ASSUME NEW q \in Reads, NEW u \in Tiles, file'[q][u] = g, slot'[q][u] = j
              PROVE  Meant(g, j)
          BY <2>3, <2>4, <3>2, <4>2 DEF Meant
        <4>3. Meant(g, j)
          BY <2>8, <4>1, <4>2 DEF Meant
        <4>4. RightFile(g, j) /\ records'[g] = records[g]
          BY <2>3, <3>2, <4>3 DEF Right
        <4> QED
          BY <1>2, <4>4 DEF RightFile
      <3> QED
        BY <3>1, <3>2
    <2>9. Streaming(r)'
      <3>1. Spooled(r)' = Spooled(r) \cup {t}
        BY <1>1, <2>3, StreamAssumption DEF Spooled, Slots
      <3>2. \A u \in Tiles : slot'[r][u] # 0 => Numbered(c, u, slot'[r][u])
        BY <2>1, <2>3 DEF Streaming, c
      <3>3. ASSUME NEW u \in Tiles, file'[r][u] # None PROVE Ordered(r, u)'
        <4>1. CASE u = t
          <5>1. offset[r][t] = 0 /\ buffer[r][t] = <<>> /\ Len(buffer[r][t]) = 0
            BY <1>1 DEF Writers
          <5>2. Routed(c, t, position[r]) = 0
            BY <2>1, <2>2, RoutedNothing
          <5> QED
            BY <1>2, <4>1, <5>1, <5>2 DEF Ordered, c
        <4>2. CASE u # t
          <5>1. Ordered(r, u)
            BY <1>1, <2>3, <3>3, <4>2 DEF Streaming
          <5> QED
            BY <1>2, <5>1 DEF Ordered
        <4> QED
          BY <4>1, <4>2
      <3>4. \A u \in Tiles : tiles'[r][u] # <<>> => TileRight(r, u)'
        BY <1>2 DEF Streaming, TileRight
      <3>5. Seen(c, position[r]) \subseteq Spooled(r)
        BY <1>1 DEF Streaming, Working, c
      <3> QED
        BY <1>1, <1>2, <2>0, <2>1, <3>1, <3>2, <3>3, <3>4, <3>5 DEF Streaming, Working, Opening, c
    <2>10. ASSUME alone[r] PROVE Intact(r)'
      <3>1. Intact(r)
        BY <1>1, <2>10 DEF Unharmed, Working
      <3> SUFFICES ASSUME NEW u \in Tiles, slot'[r][u] # 0
                   PROVE  LET g == entry'[slot'[r][u]]
                          IN  /\ g # None
                              /\ \A i \in 1..Len(records'[g]) : records'[g][i] # Hole
                              /\ file'[r][u] # None => file'[r][u] = g /\ Len(records'[g]) = offset'[r][u]
        BY DEF Intact
      <3>2. CASE u = t
        <4>1. slot'[r][u] = k /\ entry'[k] = f /\ records'[f] = <<>> /\ file'[r][u] = f
          BY <1>1, <2>3, <3>2
        <4>2. offset'[r][u] = 0
          BY <1>1, <1>2, <3>2 DEF Writers
        <4>3. f # None
          BY <1>1, StreamAssumption
        <4> QED
          BY <4>1, <4>2, <4>3
      <3>3. CASE u # t
        <4> DEFINE j == slot[r][u]
                   g == entry[j]
        <4>1. slot'[r][u] = j /\ j # 0 /\ j \in Slots /\ Numbered(c, u, j)
          BY <2>3, <3>3 DEF Streaming, Typed, c
        <4>2. j # k
          BY <2>1, <2>2, <3>3, <4>1, NumberedOnce
        <4>3. g \in Files /\ g # f
          BY <2>5, <3>1, <4>1, <4>2 DEF Intact, Typed, UsedAs
        <4>4. entry'[j] = g /\ records'[g] = records[g] /\ file'[r][u] = file[r][u]
          BY <2>3, <3>3, <4>1, <4>2, <4>3
        <4>5. /\ g # None /\ \A i \in 1..Len(records[g]) : records[g][i] # Hole
              /\ file[r][u] # None => file[r][u] = g /\ Len(records[g]) = offset[r][u]
          BY <3>1, <4>1 DEF Intact
        <4> HIDE DEF j, g
        <4> QED
          BY <1>2, <4>1, <4>4, <4>5
      <3> QED
        BY <3>2, <3>3
    <2>11. Cleared'
      BY <1>2, <1>4 DEF Cleared
    <2> QED
      BY <1>1, <2>7, <2>8, <2>9, <2>10, <2>11, OwnStep DEF Right
  <1> QED
    BY <1>3, <1>4, OpensOne

-----------------------------------------------------------------------------
(* What a file holds after one of its writers has written.                 *)
LEMMA WrittenIs ==
  ASSUME Typed, NEW r \in Reads, NEW t \in Tiles, file[r][t] # None, NEW new \in Seq(Records),
         WriteOut(r, t, new)
  PROVE  LET f == file[r][t]
             n == Len(records'[f])
         IN  /\ \A g \in Files \ {f} : records'[g] = records[g]
             /\ Len(records[f]) = offset[r][t] => n = offset[r][t] + Len(new)
             /\ \A i \in 1..n :
                  \/ \E j \in 1..Len(new) : i = offset[r][t] + j /\ records'[f][i] = new[j]
                  \/ i \in 1..Len(records[f]) /\ records'[f][i] = records[f][i]
                  \/ Len(records[f]) # offset[r][t] /\ records'[f][i] = Hole
  <1> DEFINE f == file[r][t]
             at == offset[r][t]
             old == records[f]
             out == Overwrite(old, at, new)
  <1>1. /\ f \in Files /\ old \in Seq(Records) /\ at \in Nat /\ Len(old) \in Nat
        /\ new \in Seq(Records) /\ Len(new) \in Nat
    BY DEF Typed
  <1>2. records' = [records EXCEPT ![f] = out]
    BY DEF WriteOut
  <1>3. Hole \in Records
    BY DEF Records
  <1> HIDE DEF f, at, old
  <1>4. /\ Len(out) = IF Len(old) >= at + Len(new) THEN Len(old) ELSE at + Len(new)
        /\ \A i \in 1..Len(out) :
             out[i] = IF i \in at+1 .. at+Len(new) THEN new[i - at]
                      ELSE IF i <= Len(old) THEN old[i] ELSE Hole
    BY ONLY <1>1, <1>3, OverwriteIs
  <1>5. records'[f] = out /\ \A g \in Files \ {f} : records'[g] = records[g]
    BY <1>1, <1>2 DEF Typed
  <1> HIDE DEF out
  <1>6. ASSUME NEW i \in 1..Len(out)
        PROVE  \/ \E j \in 1..Len(new) : i = at + j /\ out[i] = new[j]
               \/ i \in 1..Len(old) /\ out[i] = old[i]
               \/ Len(old) # at /\ out[i] = Hole
    <2>1. i \in Nat /\ i >= 1
      BY <1>1, <1>4
    <2>2. CASE i \in at+1 .. at+Len(new)
      <3>1. i - at \in 1..Len(new) /\ i = at + (i - at)
        BY <1>1, <2>1, <2>2
      <3>2. out[i] = new[i - at]
        BY <1>4, <2>2
      <3> QED
        BY <3>1, <3>2
    <2>3. CASE i \notin at+1 .. at+Len(new) /\ i <= Len(old)
      BY <1>1, <1>4, <2>1, <2>3
    <2>4. CASE i \notin at+1 .. at+Len(new) /\ ~(i <= Len(old))
      BY <1>1, <1>4, <2>1, <2>4
    <2> QED
      BY <2>2, <2>3, <2>4
  <1>7. Len(old) = at => Len(out) = at + Len(new)
    BY <1>1, <1>4
  <1> QED
    BY <1>5, <1>6, <1>7 DEF f, at, old

(* Only records that fit are written, and only to the tile's own file.     *)
LEMMA WritesFit ==
  ASSUME IInv, OwnInv, NEW r \in Reads, NEW t \in Tiles, file[r][t] # None, pc[r] \in Working,
         NEW new \in Seq(Records), WriteOut(r, t, new),
         \A j \in 1..Len(new) : Fits(content[r], t, offset[r][t] + j, new[j]),
         entry' = entry, slot' = slot, source' = source,
         \A q \in Reads, u \in Tiles : file'[q][u] = file[q][u] \/ file'[q][u] = None,
         \A q \in Reads : Past(q)' => Past(q)
  PROVE  OneName' /\ Right'
  <1> DEFINE f == file[r][t]
             k == slot[r][t]
             c == content[r]
  <1> Typed /\ Writers(r) /\ Streaming(r) /\ OneName /\ Right
    BY DEF IInv, OwnInv, Shared
  <1>1. f \in Files /\ k \in Slots /\ c \in Contents /\ c = source /\ Numbered(c, t, k)
    BY DEF Typed, Writers, Streaming, OwnInv, Shared, Current, Active, Working, Rest
  <1>2. ASSUME NEW g \in Files, NEW j \in Slots
        PROVE  (UsedAs(g, j)' => UsedAs(g, j)) /\ (Meant(g, j)' => Meant(g, j))
    BY StreamAssumption DEF UsedAs, Meant
  <1>3. OneName'
    BY <1>2 DEF OneName
  <1>4. Meant(f, k) /\ UsedAs(f, k)
    BY DEF Meant, UsedAs
  <1> HIDE DEF f, k, c
  <1>5. ASSUME NEW g \in Files, NEW j \in Slots, Meant(g, j)' PROVE RightFile(g, j)'
    <2>1. Meant(g, j) /\ UsedAs(g, j) /\ RightFile(g, j)
      BY <1>2, <1>5 DEF Right, Meant, UsedAs
    <2>2. CASE g # f
      <3>1. records'[g] = records[g]
        BY <2>2, WrittenIs DEF f
      <3> QED
        BY <2>1, <3>1 DEF RightFile
    <2>3. CASE g = f
      <3>1. j = k
        BY <1>1, <1>4, <2>1, <2>3 DEF OneName
      <3> SUFFICES ASSUME NEW u \in Tiles, Numbered(source, u, j), NEW i \in 1..Len(records'[f])
                   PROVE  Fits(source, u, i, records'[f][i])
        BY <2>3 DEF RightFile
      <3>2. u = t
        BY <1>1, <3>1, NumberedOnce
      <3>3. \/ \E m \in 1..Len(new) : i = offset[r][t] + m /\ records'[f][i] = new[m]
            \/ i \in 1..Len(records[f]) /\ records'[f][i] = records[f][i]
            \/ records'[f][i] = Hole
        BY WrittenIs DEF f
      <3>4. \A m \in 1..Len(records[f]) : Fits(source, u, m, records[f][m])
        BY <2>1, <2>3 DEF RightFile
      <3> QED
        BY <1>1, <3>2, <3>3, <3>4 DEF Fits, c
    <2> QED
      BY <2>2, <2>3
  <1> QED
    BY <1>3, <1>5 DEF Right

(* What an undisturbed read writes goes where its last write ended.        *)
LEMMA WritesIntact ==
  ASSUME IInv, OwnInv, NEW r \in Reads, NEW t \in Tiles, file[r][t] # None, Intact(r),
         NEW new \in Seq(Records), WriteOut(r, t, new), \A j \in 1..Len(new) : new[j] # Hole,
         entry' = entry, slot' = slot,
         \A u \in Tiles \ {t} : file'[r][u] = file[r][u] /\ offset'[r][u] = offset[r][u],
         \/ file'[r][t] = file[r][t] /\ offset'[r][t] = offset[r][t] + Len(new)
         \/ file'[r][t] = None
  PROVE  Intact(r)'
  <1> DEFINE f == file[r][t]
  <1> Typed /\ Writers(r) /\ Streaming(r) /\ OneName
    BY DEF IInv, OwnInv, Shared
  <1>1. /\ f \in Files /\ slot[r][t] \in Slots /\ slot[r][t] # 0 /\ f = entry[slot[r][t]]
        /\ Len(records[f]) = offset[r][t] /\ content[r] \in Contents
        /\ \A i \in 1..Len(records[f]) : records[f][i] # Hole
    BY DEF Typed, Writers, Intact
  <1> HIDE DEF f
  <1> SUFFICES ASSUME NEW u \in Tiles, slot[r][u] # 0
               PROVE  LET g == entry[slot[r][u]]
                      IN  /\ g # None
                          /\ \A i \in 1..Len(records'[g]) : records'[g][i] # Hole
                          /\ file'[r][u] # None => file'[r][u] = g /\ Len(records'[g]) = offset'[r][u]
    BY DEF Intact
  <1>2. CASE u = t
    <2>1. Len(records'[f]) = offset[r][t] + Len(new)
      BY <1>1, WrittenIs DEF f
    <2>2. ASSUME NEW i \in 1..Len(records'[f]) PROVE records'[f][i] # Hole
      <3>1. \/ \E j \in 1..Len(new) : i = offset[r][t] + j /\ records'[f][i] = new[j]
            \/ i \in 1..Len(records[f]) /\ records'[f][i] = records[f][i]
            \/ Len(records[f]) # offset[r][t] /\ records'[f][i] = Hole
        BY Zenon, WrittenIs DEF f
      <3> QED
        BY <1>1, <3>1
    <2>3. file'[r][t] # None => file'[r][t] = f /\ offset'[r][t] = offset[r][t] + Len(new)
      BY DEF f
    <2>4. f # None
      BY DEF f
    <2> QED
      BY <1>1, <1>2, <2>1, <2>2, <2>3, <2>4
  <1>3. CASE u # t
    <2> DEFINE g == entry[slot[r][u]]
    <2>1. /\ g # None /\ \A i \in 1..Len(records[g]) : records[g][i] # Hole
          /\ file[r][u] # None => file[r][u] = g /\ Len(records[g]) = offset[r][u]
      BY DEF Intact
    <2>2. slot[r][u] \in Slots /\ g \in Files
      BY <2>1 DEF Typed
    <2>3. slot[r][u] # slot[r][t]
      BY <1>1, <1>3, NumberedOnce DEF Streaming
    <2>4. g # f
      BY <1>1, <2>2, <2>3 DEF OneName, UsedAs
    <2>5. records'[g] = records[g]
      BY <2>2, <2>4, WrittenIs DEF f
    <2> HIDE DEF g
    <2>6. file'[r][u] = file[r][u] /\ offset'[r][u] = offset[r][u]
      BY <1>3
    <2>7. /\ g # None /\ \A i \in 1..Len(records'[g]) : records'[g][i] # Hole
          /\ file'[r][u] # None => file'[r][u] = g /\ Len(records'[g]) = offset'[r][u]
      BY ONLY <2>1, <2>5, <2>6
    <2> QED
      BY <2>7 DEF g
  <1> QED
    BY <1>2, <1>3

LEMMA OwnFits ==
  ASSUME NEW c \in Contents, NEW t, NEW i, NEW x, OwnAt(c, t, i, x)
  PROVE  Fits(c, t, i, x) /\ x # Hole
  <1>1. x \in Points
    BY RoutesAre DEF OwnAt
  <1> QED
    BY <1>1, StreamAssumption DEF Fits, Points, Hole

(* The point routed next is the next of its tile. *)
LEMMA HeldOwn ==
  ASSUME IInv, NEW r \in Reads, Streaming(r), RoutePoint(r)
  PROVE  LET c == content[r]
             t == TileNext(r)
         IN  /\ offset[r][t] + Len(HeldNext(r)) = Routed(c, t, position[r] + 1)
             /\ \A j \in 1..Len(HeldNext(r)) : OwnAt(c, t, offset[r][t] + j, HeldNext(r)[j])
             /\ \A u \in Tiles \ {t} : Routed(c, u, position[r] + 1) = Routed(c, u, position[r])
  <1> DEFINE c == content[r]
             t == TileNext(r)
             p == position[r]
             b == buffer[r][t]
             x == PointNext(r)
  <1>1. /\ pc[r] = "stream" /\ t \in Tiles /\ b \in Seq(Points) /\ Len(b) \in Nat /\ x \in Points
        /\ file[r][t] # None /\ p < Len(Route[c]) /\ Len(HeldNext(r)) = Len(b) + 1
    BY RoutesOne
  <1>2. c \in Contents /\ p \in Nat /\ Len(Route[c]) \in Nat /\ offset[r][t] \in Nat
    BY <1>1, RoutesAre DEF IInv, Typed
  <1>3. Route[c][p + 1] = t /\ x = <<c, p + 1>>
    BY DEF TileNext, PointNext
  <1>4. /\ offset[r][t] + Len(b) = Routed(c, t, p)
        /\ \A j \in 1..Len(b) : OwnAt(c, t, offset[r][t] + j, b[j])
    BY <1>1 DEF Streaming, Ordered
  <1>5. HeldNext(r) = Append(b, x)
    BY DEF HeldNext
  <1> HIDE DEF c, t, p, b, x
  <1>6. Routed(c, t, p + 1) = Routed(c, t, p) + 1
    BY <1>2, <1>3, RoutedNext
  <1>7. Routed(c, t, p) \in Nat
    BY <1>2, AmongFinite
  <1>8. offset[r][t] + Len(HeldNext(r)) = Routed(c, t, p + 1)
    BY <1>1, <1>2, <1>4, <1>6, <1>7
  <1>9. /\ \A j \in 1..Len(b) : HeldNext(r)[j] = b[j]
        /\ HeldNext(r)[Len(b) + 1] = x
    BY ONLY <1>1, <1>5, AppendProperties
  <1>10. OwnAt(c, t, offset[r][t] + (Len(b) + 1), x)
    <2>1. p + 1 \in 1..Len(Route[c]) /\ Rank(c, p + 1) = Routed(c, t, p + 1)
      BY <1>1, <1>2, <1>3 DEF Rank
    <2>2. Rank(c, p + 1) = offset[r][t] + (Len(b) + 1)
      BY <1>1, <1>8, <2>1
    <2> QED
      BY <1>3, <2>1, <2>2 DEF OwnAt
  <1>11. ASSUME NEW j \in 1..Len(HeldNext(r)) PROVE OwnAt(c, t, offset[r][t] + j, HeldNext(r)[j])
    <2>1. j \in 1..Len(b) \/ j = Len(b) + 1
      BY <1>1
    <2> QED
      BY <1>4, <1>9, <1>10, <2>1
  <1>12. \A u \in Tiles \ {t} : Routed(c, u, p + 1) = Routed(c, u, p)
    <2> SUFFICES ASSUME NEW u \in Tiles \ {t} PROVE Routed(c, u, p + 1) = Routed(c, u, p)
      OBVIOUS
    <2>1. Routed(c, u, p + 1) = Routed(c, u, p) + (IF Route[c][p + 1] = u THEN 1 ELSE 0)
      BY <1>2, RoutedNext
    <2>2. Routed(c, u, p) \in Nat
      BY <1>2, AmongFinite
    <2> QED
      BY <1>3, <2>1, <2>2
  <1> QED
    BY <1>8, <1>11, <1>12 DEF c, t, p

LEMMA RoutePointOwn ==
  ASSUME IInv, OwnInv, NEW r \in Reads, Only(r), RoutePoint(r)
  PROVE  OwnInv'
  <1> DEFINE t == TileNext(r)
             held == HeldNext(r)
             c == content[r]
             p == position[r]
  <1> Typed /\ Writers(r) /\ Streaming(r) /\ OneName /\ Right /\ Unharmed(r) /\ Cleared
    BY DEF IInv, OwnInv, Shared
  <1>1. /\ pc[r] = "stream" /\ p < Len(Route[c]) /\ t \in Tiles
        /\ slot[r][t] # 0 /\ file[r][t] # None /\ Step(r)
        /\ held \in Seq(Points) /\ Len(held) \in Nat
    BY RoutesOne DEF Step
  <1>2. /\ position'[r] = p + 1 /\ pc'[r] \in {"stream", "flush"}
        /\ UNCHANGED <<source, alone, content, left, space, marker, entry, slot, file, tiles>>
    BY RoutesOne DEF Typed
  <1>3. /\ offset[r][t] + Len(held) = Routed(c, t, p + 1)
        /\ \A j \in 1..Len(held) : OwnAt(c, t, offset[r][t] + j, held[j])
        /\ \A u \in Tiles \ {t} : Routed(c, u, p + 1) = Routed(c, u, p)
    BY HeldOwn
  <1>4. c \in Contents /\ p \in Nat /\ Len(Route[c]) \in Nat /\ offset[r][t] \in Nat
    BY <1>1, RoutesAre DEF Typed
  <1>5. \A q \in Reads : Past(q)' => Past(q)
    BY <1>1 DEF Only, Past, Active, Rest
  <1>6. Appends(r) \/ WritesThrough(r)
    BY RoutesOne
  <1>7. Route[c][p + 1] = t
    BY DEF TileNext
  <1>8. /\ \A u \in Tiles \ {t} : buffer'[r][u] = buffer[r][u] /\ offset'[r][u] = offset[r][u]
        /\ \/ Appends(r) /\ buffer'[r][t] = held /\ offset'[r][t] = offset[r][t]
           \/ WritesThrough(r) /\ buffer'[r][t] = <<>> /\ offset'[r][t] = offset[r][t] + Len(held)
    <2>1. CASE Appends(r)
      <3>1. buffer' = [buffer EXCEPT ![r][t] = held] /\ UNCHANGED offset
        BY <2>1 DEF Appends
      <3> HIDE DEF t, held
      <3> QED
        BY <1>1, <2>1, <3>1 DEF Typed
    <2>2. CASE WritesThrough(r)
      <3>1. /\ buffer' = [buffer EXCEPT ![r][t] = <<>>]
            /\ offset' = [offset EXCEPT ![r][t] = @ + Len(held)]
        BY <2>2 DEF WritesThrough
      <3> HIDE DEF t, held
      <3> QED
        BY <1>1, <2>2, <3>1 DEF Typed
    <2> QED
      BY <1>6, <2>1, <2>2
  <1> HIDE DEF t, held, c, p
  <1>9. Cleared'
    BY <1>2 DEF Cleared
  <1>10. Streaming(r)'
    <2>1. ASSUME NEW u \in Tiles, file'[r][u] # None PROVE Ordered(r, u)'
      <3>1. CASE u = t
        <4>1. Len(<<>>) = 0
          OBVIOUS
        <4>2. Routed(c, t, p + 1) = offset'[r][t] + Len(buffer'[r][t])
          BY <1>1, <1>3, <1>4, <1>8, <4>1
        <4>3. \A j \in 1..Len(buffer'[r][t]) : OwnAt(c, t, offset'[r][t] + j, buffer'[r][t][j])
          BY <1>3, <1>8, <4>1
        <4> QED
          BY <1>2, <3>1, <4>2, <4>3 DEF Ordered, c
      <3>2. CASE u # t
        <4>1. Ordered(r, u)
          BY <1>1, <1>2, <2>1 DEF Streaming
        <4> QED
          BY <1>2, <1>3, <1>8, <3>2, <4>1 DEF Ordered, c, p
      <3> QED
        BY <3>1, <3>2
    <2>2. Spooled(r)' = Spooled(r) /\ t \in Spooled(r)
      BY <1>1, <1>2 DEF Spooled
    <2>3. /\ Seen(c, p + 1) = Seen(c, p) \cup {t}
          /\ Seen(c, (p + 1) + 1) = Seen(c, p + 1) \cup {Route[c][(p + 1) + 1]}
      BY <1>4, <1>7, SeenNext
    <2>4. Seen(c, p) \subseteq Spooled(r) /\ Spooled(r) \subseteq Seen(c, p + 1)
      BY <1>1 DEF Streaming, Working, c, p
    <2>5. \A u \in Tiles : tiles'[r][u] # <<>> => TileRight(r, u)'
      BY <1>2 DEF Streaming, TileRight
    <2>6. \A u \in Tiles : slot'[r][u] # 0 => Numbered(c, u, slot'[r][u])
      BY <1>2 DEF Streaming, c
    <2> QED
      BY <1>2, <2>1, <2>2, <2>3, <2>4, <2>5, <2>6 DEF Streaming, Working, Opening, c
  <1>11. CASE Appends(r)
    <2>1. UNCHANGED <<header, records, offset>>
      BY <1>11 DEF Appends
    <2>2. Past(r)' => Past(r)
      BY <1>5
    <2> QED
      BY <1>1, <1>2, <1>10, <2>1, <2>2, QuietStep DEF Working
  <1>12. CASE WritesThrough(r)
    <2>1. WriteOut(r, t, held) /\ held \in Seq(Records)
      BY <1>1, <1>12, SeqMonotonic DEF WritesThrough, Records, t, held
    <2>2. \A j \in 1..Len(held) : Fits(c, t, offset[r][t] + j, held[j]) /\ held[j] # Hole
      BY <1>3, <1>4, OwnFits
    <2>3. OneName' /\ Right'
      BY <1>1, <1>2, <1>5, <2>1, <2>2, WritesFit DEF c, Working
    <2>4. ASSUME alone[r] PROVE Intact(r)'
      <3>1. Intact(r)
        BY <1>1, <2>4 DEF Unharmed, Working
      <3>2. offset'[r][t] = offset[r][t] + Len(held)
        <4>1. offset' = [offset EXCEPT ![r][t] = @ + Len(held)]
          BY <1>12 DEF WritesThrough, t, held
        <4> QED
          BY <1>1, <4>1 DEF Typed
      <3> QED
        BY <1>1, <1>2, <1>8, <2>1, <2>2, <3>1, <3>2, WritesIntact
    <2> QED
      BY <1>1, <1>9, <1>10, <2>3, <2>4, OwnStep
  <1> QED
    BY <1>6, <1>11, <1>12

LEMMA FlushOneOwn ==
  ASSUME IInv, OwnInv, NEW r \in Reads, Only(r), FlushOne(r)
  PROVE  OwnInv'
  <1> Typed /\ Writers(r) /\ Streaming(r) /\ OneName /\ Right /\ Unharmed(r) /\ Cleared
    BY DEF IInv, OwnInv, Shared
  <1>1. PICK t \in Tiles :
           /\ buffer[r][t] # <<>>
           /\ WriteOut(r, t, buffer[r][t])
           /\ offset' = [offset EXCEPT ![r][t] = @ + Len(buffer[r][t])]
           /\ buffer' = [buffer EXCEPT ![r][t] = <<>>]
    BY DEF FlushOne, Foremost
  <1> DEFINE new == buffer[r][t]
  <1>2. /\ pc[r] = "flush" /\ file[r][t] # None /\ Step(r)
        /\ UNCHANGED <<source, alone, content, pc, left, space, marker, entry, position, slot, file, tiles>>
    BY <1>1 DEF FlushOne, Keep, At, Step, Writers
  <1>3. /\ new \in Seq(Points) /\ new \in Seq(Records) /\ Len(new) \in Nat /\ offset[r][t] \in Nat
        /\ content[r] \in Contents
    <2>1. new \in Seq(Points)
      BY DEF Typed
    <2> QED
      BY <2>1, SeqMonotonic DEF Typed, Records
  <1>4. /\ \A u \in Tiles \ {t} : buffer'[r][u] = buffer[r][u] /\ offset'[r][u] = offset[r][u]
        /\ buffer'[r][t] = <<>> /\ offset'[r][t] = offset[r][t] + Len(new)
    BY <1>1, <1>3 DEF Typed
  <1>5. /\ offset[r][t] + Len(new) = Routed(content[r], t, position[r])
        /\ \A j \in 1..Len(new) : OwnAt(content[r], t, offset[r][t] + j, new[j])
    BY <1>2 DEF Streaming, Ordered
  <1> HIDE DEF new
  <1>6. \A j \in 1..Len(new) : Fits(content[r], t, offset[r][t] + j, new[j]) /\ new[j] # Hole
    BY <1>3, <1>5, OwnFits
  <1>7. WriteOut(r, t, new)
    BY <1>1 DEF new
  <1>8. OneName' /\ Right'
    <2>1. \A q \in Reads : Past(q)' => Past(q)
      BY <1>2 DEF Past, Active
    <2> QED
      BY <1>2, <1>3, <1>6, <1>7, <2>1, WritesFit DEF Working
  <1>9. alone[r] => Intact(r)'
    <2>1. alone[r] => Intact(r)
      BY <1>2 DEF Unharmed, Working
    <2> QED
      BY <1>2, <1>3, <1>4, <1>6, <1>7, <2>1, WritesIntact
  <1>10. Streaming(r)'
    <2>1. ASSUME NEW u \in Tiles, file[r][u] # None PROVE Ordered(r, u)'
      <3>1. CASE u = t
        <4>1. Len(<<>>) = 0
          OBVIOUS
        <4> QED
          BY <1>2, <1>3, <1>4, <1>5, <3>1, <4>1 DEF Ordered
      <3>2. CASE u # t
        <4>1. Ordered(r, u)
          BY <1>2, <2>1 DEF Streaming
        <4> QED
          BY <1>2, <1>4, <3>2, <4>1 DEF Ordered
      <3> QED
        BY <3>1, <3>2
    <2>2. Spooled(r)' = Spooled(r)
      BY <1>2 DEF Spooled
    <2>3. \A u \in Tiles : TileRight(r, u)' <=> TileRight(r, u)
      BY <1>2 DEF TileRight
    <2> QED
      BY <1>2, <2>1, <2>2, <2>3 DEF Streaming
  <1>11. Cleared'
    BY <1>2 DEF Cleared
  <1> QED
    BY <1>2, <1>8, <1>9, <1>10, <1>11, OwnStep

LEMMA CloseSpoolOwn ==
  ASSUME IInv, OwnInv, NEW r \in Reads, Only(r), CloseSpool(r)
  PROVE  OwnInv'
  <1> Typed /\ Writers(r) /\ Streaming(r) /\ OneName /\ Right /\ Unharmed(r) /\ Cleared
    BY DEF IInv, OwnInv, Shared
  <1>1. pc[r] = "close" /\ \E t \in Tiles : file[r][t] # None
    BY DEF CloseSpool, At, Writers
  <1>2. PICK t \in Tiles :
           /\ file[r][t] # None
           /\ WriteOut(r, t, Append(buffer[r][t], Footer(offset[r][t] + Len(buffer[r][t]))))
           /\ file' = [file EXCEPT ![r][t] = None]
           /\ buffer' = [buffer EXCEPT ![r][t] = <<>>]
           /\ offset' = [offset EXCEPT ![r][t] = 0]
    BY <1>1 DEF CloseSpool, Foremost
  <1>3. /\ GoTo(r, IF \A u \in Tiles : file'[r][u] = None THEN "read" ELSE "close")
        /\ UNCHANGED <<source, alone, content, left, space, marker, entry, position, slot, buffered, tiles>>
    BY DEF CloseSpool, Keep
  <1> DEFINE c == content[r]
             b == buffer[r][t]
             n == offset[r][t] + Len(b)
             new == Append(b, Footer(n))
  <1>4. /\ b \in Seq(Points) /\ b \in Seq(Records) /\ Len(b) \in Nat /\ offset[r][t] \in Nat
        /\ c \in Contents /\ Footer(n) \in Records
    <2>1. b \in Seq(Points)
      BY DEF Typed
    <2> QED
      BY <2>1, SeqMonotonic DEF Typed, Records, Footer
  <1>5. new \in Seq(Records) /\ Len(new) = Len(b) + 1
        /\ (\A j \in 1..Len(b) : new[j] = b[j]) /\ new[Len(b) + 1] = Footer(n)
    BY ONLY <1>4, AppendProperties
  <1>6. n = Total(c, t) /\ \A j \in 1..Len(b) : OwnAt(c, t, offset[r][t] + j, b[j])
    <2>1. Ordered(r, t) /\ position[r] = Len(Route[c])
      BY <1>1, <1>2 DEF Streaming
    <2> QED
      BY <2>1 DEF Ordered, Total
  <1>7. WriteOut(r, t, new)
    BY <1>2
  <1>8. pc'[r] \in {"read", "close"} /\ (pc'[r] = "close" => \E u \in Tiles : file'[r][u] # None)
    BY <1>3 DEF GoTo, Typed
  <1>9. /\ file'[r][t] = None
        /\ \A u \in Tiles \ {t} : /\ buffer'[r][u] = buffer[r][u] /\ offset'[r][u] = offset[r][u]
                                  /\ file'[r][u] = file[r][u]
        /\ \A q \in Reads, u \in Tiles : file'[q][u] = file[q][u] \/ file'[q][u] = None
    BY <1>2 DEF Typed
  <1> HIDE DEF c, b, n, new
  <1>10. ASSUME NEW j \in 1..Len(new) PROVE Fits(c, t, offset[r][t] + j, new[j]) /\ new[j] # Hole
    <2>1. CASE j \in 1..Len(b)
      BY <1>4, <1>5, <1>6, <2>1, OwnFits
    <2>2. CASE j = Len(b) + 1
      <3>0. offset[r][t] + j = n + 1
        BY <1>4, <2>2 DEF n
      <3>1. offset[r][t] + j = Total(c, t) + 1 /\ new[j] = Footer(Total(c, t))
        BY <1>5, <1>6, <2>2, <3>0
      <3>2. new[j] # Hole
        BY <3>1, StreamAssumption DEF Footer, Hole
      <3> QED
        BY <3>1, <3>2 DEF Fits
    <2> QED
      BY <1>4, <1>5, <2>1, <2>2
  <1>11. OneName' /\ Right'
    <2>1. \A q \in Reads : Past(q)' => Past(q)
      BY <1>1 DEF Only, Past, Active, Rest
    <2> QED
      BY <1>1, <1>2, <1>3, <1>5, <1>7, <1>9, <1>10, <2>1, WritesFit DEF Working, c
  <1>12. alone[r] => Intact(r)'
    <2>1. alone[r] => Intact(r)
      BY <1>1 DEF Unharmed, Working
    <2> QED
      BY <1>2, <1>3, <1>5, <1>7, <1>9, <1>10, <2>1, WritesIntact
  <1>13. Streaming(r)'
    <2>1. ASSUME NEW u \in Tiles, file'[r][u] # None PROVE Ordered(r, u)'
      <3>1. u # t /\ file[r][u] # None
        BY <1>9, <2>1
      <3>2. Ordered(r, u)
        BY <1>1, <3>1 DEF Streaming
      <3> QED
        BY <1>3, <1>9, <3>1, <3>2 DEF Ordered
    <2>2. Spooled(r)' = Spooled(r)
      BY <1>3 DEF Spooled
    <2>3. \A u \in Tiles : TileRight(r, u)' <=> TileRight(r, u)
      BY <1>3 DEF TileRight
    <2> QED
      BY <1>1, <1>3, <1>8, <2>1, <2>2, <2>3 DEF Streaming, Working, Opening
  <1>14. Cleared' /\ Step(r)
    BY <1>3 DEF Cleared, Step
  <1> QED
    BY <1>11, <1>12, <1>13, <1>14, OwnStep

LEMMA OwnNext == ASSUME ~Revised PROVE IInv /\ OwnInv /\ [Next]_vars => OwnInv'
  <1> SUFFICES ASSUME IInv, OwnInv, [Next]_vars PROVE OwnInv'
    OBVIOUS
  <1>1. ASSUME NEW r \in Reads, Start(r) \/ Step(r) \/ Fail(r) \/ Kill(r)
        PROVE  OwnInv'
    <2>1. Only(r)
      BY <1>1, StepInv
    <2> QED
      BY <1>1, <2>1, StartOwn, OpeningOwn, RemoveSpaceOwn, OpenSpoolOwn, RoutePointOwn, FlushOneOwn,
         MovingOwn, CloseSpoolOwn, ReadSpoolOwn, CommitOwn, CleanupOwn DEF Step
  <1>2. CASE SourceChanges
    BY <1>2, SourceOwn
  <1>3. CASE UNCHANGED vars
    <2>1. /\ UNCHANGED <<source, space, entry, records, alone, pc, content, position>>
          /\ UNCHANGED <<slot, file, buffer, offset, tiles>>
      BY <1>3 DEF vars, disk, writers
    <2>2. Shared'
      BY <2>1 DEF OwnInv, Shared, Cleared, OneName, UsedAs, Current, Active, Right, Meant, Past, RightFile,
         ByItself, Unharmed, Intact
    <2>3. \A r \in Reads : Streaming(r)'
      BY <2>1 DEF OwnInv, Streaming, Spooled, Ordered, TileRight
    <2> QED
      BY <2>2, <2>3 DEF OwnInv
  <1> QED
    BY <1>1, <1>2, <1>3 DEF Next

(* A streamed read that succeeds has put every point of its stream into    *)
(* the payload of the tile it was routed to, in its place, however often   *)
(* AuthorPointCloudTiledAssetFromStream flushed, whatever earlier reads    *)
(* left in the spool directory; only reads that overlap may cost it points. *)
(* The source is not replaced while reads of it are under way.             *)
THEOREM OwnPointsDelivered == ASSUME ~Revised PROVE Spec => []DeliversOwnPoints
  <1>1. IInv /\ OwnInv => DeliversOwnPoints
    <2> SUFFICES ASSUME IInv, OwnInv, NEW r \in Reads, pc[r] = "done"
                 PROVE  LET c == content[r]
                        IN  /\ \A t \in Tiles : Len(tiles[r][t]) = Routed(c, t, Len(Route[c]))
                            /\ \A n \in 1..Len(Route[c]) :
                                 \/ tiles[r][Route[c][n]][Rank(c, n)] = <<c, n>>
                                 \/ tiles[r][Route[c][n]][Rank(c, n)] = Hole /\ ~alone[r]
      BY Zenon DEF DeliversOwnPoints
    <2> DEFINE c == content[r]
    <2>1. Streaming(r) /\ c \in Contents /\ tiles[r] \in [Tiles -> Seq(Points \cup {Hole})]
      BY DEF IInv, Typed, OwnInv
    <2>2. ASSUME NEW t \in Tiles PROVE Len(tiles[r][t]) = Total(c, t)
      <3>1. CASE tiles[r][t] = <<>>
        <4>1. Total(c, t) = 0
          BY <2>1, <3>1 DEF Streaming
        <4> QED
          BY <3>1, <4>1
      <3>2. CASE tiles[r][t] # <<>>
        <4>1. TileRight(r, t)
          BY <2>1, <3>2 DEF Streaming
        <4> QED
          BY <4>1 DEF TileRight
      <3> QED
        BY <3>1, <3>2
    <2>3. ASSUME NEW n \in 1..Len(Route[c])
          PROVE  \/ tiles[r][Route[c][n]][Rank(c, n)] = <<c, n>>
                 \/ tiles[r][Route[c][n]][Rank(c, n)] = Hole /\ ~alone[r]
      <3> DEFINE t == Route[c][n]
                 i == Rank(c, n)
      <3>1. t \in Tiles /\ i \in 1..Len(tiles[r][t])
        BY <2>1, <2>2, RoutesAre, RankInTile
      <3>2. tiles[r][t] # <<>>
        BY <3>1
      <3>3. OwnAt(c, t, i, tiles[r][t][i]) \/ (tiles[r][t][i] = Hole /\ ~alone[r])
        BY <2>1, <3>1, <3>2 DEF Streaming, TileRight
      <3>4. ASSUME NEW x, OwnAt(c, t, i, x) PROVE x = <<c, n>>
        BY <2>1, <3>4, RankUnique DEF OwnAt
      <3> QED
        BY <3>3, <3>4
    <2> QED
      BY <2>2, <2>3 DEF Total
  <1>2. IInv /\ OwnInv /\ [Next]_vars => OwnInv'
    BY OwnNext
  <1> QED
    BY OwnInit, Invariant, <1>1, <1>2, PTL DEF Spec

=============================================================================
