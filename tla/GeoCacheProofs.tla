----------------------------- MODULE GeoCacheProofs -----------------------------
(***************************************************************************)
(* What the shared cache promises for any number of converters, reads,     *)
(* revisions and payloads, at once or in turns, whatever is deleted from   *)
(* it and whoever dies: an entry is committed whole, a read that reports a *)
(* hit has all its payloads, a conversion delivers whole assets unless its *)
(* entry was taken apart under its hands, and a whole entry is removed     *)
(* only by who was misled about it.                                        *)
(***************************************************************************)
EXTENDS GeoCache, TLAPS

Places == Rest \cup Lookup \cup Clearing \cup Making \cup Taking \cup Reading

(* TypeOK says where a client may be, this that it is somewhere.           *)
Typed ==
    /\ source \in Revisions
    /\ entry \in [Keys -> SUBSET Whole]
    /\ temp \in [Converters -> SUBSET Whole]
    /\ pc \in [Clients -> Places]
    /\ key \in [Clients -> Keys]
    /\ sawRoot \in [Clients -> BOOLEAN]
    /\ todo \in [Clients -> SUBSET Tiled]
    /\ got \in [Clients -> SUBSET Tiled]
    /\ damages \in 0..MaxDamage
    /\ robbed \subseteq Clients /\ misled \subseteq Clients

(* A temporary entry is bare until its payloads are authored, and whole    *)
(* when it is published.                                                   *)
Converting(p) ==
    /\ pc[p] \in Rest \cup Lookup \cup Clearing \cup Making \cup Taking
    /\ key[p][1] = Version(p)
    /\ temp[p] # {} => pc[p] \in Making \cup {"mark", "cleanup", "failed"}
    /\ pc[p] \in {"mark", "check", "author"} => temp[p] = {"dir"}
    /\ pc[p] = "describe" => temp[p] = {"dir", "payloads"} \cup Names
    /\ pc[p] = "publish" => temp[p] = Whole

(* A payload of the entry is still to be taken or has been.                *)
Loading(r) ==
    /\ pc[r] \in Rest \cup Lookup \cup Reading
    /\ key[r][1] = Version(r)
    /\ pc[r] \in {"root", "manifest", "load", "validate"} => got[r] = {}
    /\ pc[r] = "validate" => todo[r] \subseteq Names
    /\ pc[r] = "take" => got[r] \cup todo[r] = Names
    /\ pc[r] = "hit" => got[r] = Names

IInv ==
    /\ Typed
    /\ \A p \in Converters : Converting(p)
    /\ \A r \in Readers : Loading(r)

LEMMA InvInit == Init => IInv
  <1> SUFFICES ASSUME Init PROVE IInv
    OBVIOUS
  <1>1. Typed
    <2>1. source \in Revisions /\ pc \in [Clients -> Places]
      BY CacheAssumption DEF Init, Places, Rest
    <2>2. /\ temp \in [Converters -> SUBSET Whole] /\ sawRoot \in [Clients -> BOOLEAN]
          /\ todo \in [Clients -> SUBSET Tiled] /\ got \in [Clients -> SUBSET Tiled]
          /\ damages \in 0..MaxDamage /\ robbed \subseteq Clients /\ misled \subseteq Clients
      BY CacheAssumption DEF Init
    <2>3. key \in [Clients -> Keys]
      BY <2>1 DEF Init, Keys, Entry, Version
    <2>4. entry \in [Keys -> SUBSET Whole]
      BY DEF Init
    <2> QED
      BY <2>1, <2>2, <2>3, <2>4 DEF Typed
  <1>2. \A c \in Clients : pc[c] \in {"idle", "away"} /\ key[c][1] = Version(c)
    <2>1. PICK cast \in Casts : pc = [c \in Clients |-> IF c \in cast.clients THEN "idle" ELSE "away"]
      BY DEF Init
    <2>2. key = [c \in Clients |-> Entry(c, source)]
      BY DEF Init
    <2> QED
      BY <2>1, <2>2 DEF Entry
  <1> QED
    BY <1>1, <1>2 DEF IInv, Init, Converting, Loading, Clients, Rest

-----------------------------------------------------------------------------
(* What a step leaves alone of a client keeps what is known of it.         *)
LEMMA ConverterStays ==
  ASSUME NEW p \in Converters, Converting(p), pc'[p] = pc[p], key'[p] = key[p], temp'[p] = temp[p]
  PROVE  Converting(p)'
  BY DEF Converting, Version

LEMMA ReaderStays ==
  ASSUME NEW r \in Readers, Loading(r), pc'[r] = pc[r], key'[r] = key[r], todo'[r] = todo[r],
         got'[r] = got[r]
  PROVE  Loading(r)'
  BY DEF Loading, Version

(* An action of one client changes what belongs to it.                     *)
Only(c) ==
    /\ \A d \in Clients \ {c} : /\ pc'[d] = pc[d] /\ key'[d] = key[d]
                                /\ todo'[d] = todo[d] /\ got'[d] = got[d]
                                /\ sawRoot'[d] = sawRoot[d]
    /\ \A p \in Converters \ {c} : temp'[p] = temp[p]

LEMMA ConverterAlone ==
  ASSUME IInv, Typed', NEW p \in Converters, Only(p), Converting(p)'
  PROVE  IInv'
  <1>1. \A q \in Converters : Converting(q)'
    BY ConverterStays DEF IInv, Only, Clients
  <1>2. \A r \in Readers : Loading(r)'
    BY CacheAssumption, ReaderStays DEF IInv, Only, Clients
  <1> QED
    BY <1>1, <1>2 DEF IInv

LEMMA ReaderAlone ==
  ASSUME IInv, Typed', NEW r \in Readers, Only(r), Loading(r)'
  PROVE  IInv'
  <1>1. \A p \in Converters : Converting(p)'
    BY CacheAssumption, ConverterStays DEF IInv, Only, Clients
  <1>2. \A s \in Readers : Loading(s)'
    BY ReaderStays DEF IInv, Only, Clients
  <1> QED
    BY <1>1, <1>2 DEF IInv

-----------------------------------------------------------------------------
(* Passing on, looking, deciding, forgetting and removing: what clients of *)
(* both kinds do.                                                          *)
LEMMA StartInv ==
  ASSUME IInv, NEW c \in Clients, Start(c)
  PROVE  IInv' /\ Only(c)
  <1>1. Typed'
    BY DEF IInv, Typed, Start, Forget, NoTemporary, GoTo, Outside, history, Places, Lookup, Keys, Entry, Version, Clients
  <1>2. Only(c)
    BY DEF IInv, Typed, Start, Forget, NoTemporary, GoTo, Outside, history, Only
  <1>3. CASE c \in Converters
    <2>1. Converting(c)'
      BY <1>3 DEF IInv, Typed, Start, Forget, NoTemporary, GoTo, Outside, history, Converting, Entry, Version,
                  Rest, Lookup, Making, Clients
    <2> QED
      BY <1>1, <1>2, <1>3, <2>1, ConverterAlone
  <1>4. CASE c \in Readers
    <2>1. Loading(c)'
      BY <1>4 DEF IInv, Typed, Start, Forget, GoTo, Outside, history, Loading, Entry, Version, Rest, Lookup,
                  Reading, Clients
    <2> QED
      BY <1>1, <1>2, <1>4, <2>1, ReaderAlone
  <1> QED
    BY <1>3, <1>4 DEF Clients

LEMMA KillInv ==
  ASSUME IInv, NEW c \in Clients, Kill(c)
  PROVE  IInv' /\ Only(c)
  <1>1. Typed'
    BY DEF IInv, Typed, Kill, Forget, NoTemporary, GoTo, Outside, history, Places, Rest, Clients
  <1>2. Only(c)
    BY DEF IInv, Typed, Kill, Forget, NoTemporary, GoTo, Outside, history, Only
  <1>3. CASE c \in Converters
    <2>1. Converting(c)'
      BY <1>3 DEF IInv, Typed, Kill, Forget, NoTemporary, GoTo, Outside, history, Converting, Version, Rest,
                  Making, Clients
    <2> QED
      BY <1>1, <1>2, <1>3, <2>1, ConverterAlone
  <1>4. CASE c \in Readers
    <2>1. Loading(c)'
      BY <1>4 DEF IInv, Typed, Kill, Forget, GoTo, Outside, history, Loading, Version, Rest, Clients
    <2> QED
      BY <1>1, <1>2, <1>4, <2>1, ReaderAlone
  <1> QED
    BY <1>3, <1>4 DEF Clients

LEMMA RemovalTyped ==
  ASSUME IInv, NEW c \in Clients, NEW here, NEW there \in Places, RemoveEntry(c, here, there)
  PROVE  Typed' /\ Only(c)
  <1>1. key[c] \in Keys
    BY DEF IInv, Typed
  <1>2. entry' \in [Keys -> SUBSET Whole]
    BY <1>1 DEF IInv, Typed, RemoveEntry, RemoveOne, RemoveLast
  <1> QED
    BY <1>2 DEF IInv, Typed, RemoveEntry, GoTo, Beside, Only, Clients

LEMMA CopyTyped ==
  ASSUME IInv, NEW c \in Clients, NEW here, NEW lost \in Places, CopyOne(c, here, lost)
  PROVE  /\ Typed' /\ Only(c) /\ UNCHANGED <<temp, key>>
         /\ \/ /\ pc' = pc
               /\ got'[c] \cup todo'[c] = got[c] \cup todo[c]
            \/ pc'[c] = lost
  <1> Typed
    BY DEF IInv
  <1>1. PICK n \in todo[c] :
           IF n \in Mine(c)
           THEN /\ got' = [got EXCEPT ![c] = @ \cup {n}]
                /\ todo' = [todo EXCEPT ![c] = @ \ {n}]
                /\ UNCHANGED <<pc, sawRoot>>
           ELSE GoTo(c, lost) /\ Forget(c)
    BY DEF CopyOne
  <1>2. UNCHANGED <<source, damages, history, entry, temp, key>>
    BY DEF CopyOne, Outside, history
  <1>3. n \in Tiled
    BY <1>1 DEF Typed
  <1>4. CASE n \in Mine(c)
    <2>1. /\ got' = [got EXCEPT ![c] = @ \cup {n}] /\ todo' = [todo EXCEPT ![c] = @ \ {n}]
          /\ UNCHANGED <<pc, sawRoot>>
      BY <1>1, <1>4
    <2>2. got' \in [Clients -> SUBSET Tiled] /\ todo' \in [Clients -> SUBSET Tiled]
      BY <1>3, <2>1 DEF Typed
    <2>3. got'[c] = got[c] \cup {n} /\ todo'[c] = todo[c] \ {n}
      BY <2>1 DEF Typed
    <2>4. got'[c] \cup todo'[c] = got[c] \cup todo[c]
      BY <1>1, <2>3
    <2>5. Typed' /\ Only(c)
      BY <1>2, <2>1, <2>2 DEF history, Typed, Only
    <2> QED
      BY <1>2, <2>1, <2>4, <2>5
  <1>5. CASE n \notin Mine(c)
    BY <1>1, <1>2, <1>5 DEF GoTo, Forget, history, Typed, Only
  <1> QED
    BY <1>4, <1>5

LEMMA LookTyped ==
  ASSUME Typed, NEW c \in Clients, NEW here, NEW there \in Places, InspectRoot(c, here, there)
  PROVE  Typed' /\ Only(c)
  <1>1. sawRoot' \in [Clients -> BOOLEAN] /\ \A d \in Clients \ {c} : sawRoot'[d] = sawRoot[d]
    <2>1. ("root" \in Mine(c)) \in BOOLEAN
      OBVIOUS
    <2>2. sawRoot' = [sawRoot EXCEPT ![c] = ("root" \in Mine(c))]
      BY DEF InspectRoot
    <2> HIDE DEF Mine
    <2> QED
      BY <2>1, <2>2 DEF Typed
  <1>2. pc' = [pc EXCEPT ![c] = there] /\ pc' \in [Clients -> Places]
    BY DEF InspectRoot, GoTo, Typed
  <1>3. UNCHANGED <<source, damages, history, entry, temp, key, todo, got>>
    BY DEF InspectRoot, Outside, history
  <1>4. Typed'
    BY <1>1, <1>2, <1>3 DEF history, Typed
  <1> QED
    BY <1>1, <1>2, <1>3, <1>4 DEF Typed, Only

-----------------------------------------------------------------------------
(* A converter, up to its temporary entry and from there on.               *)
LEMMA ConvertInv ==
  ASSUME IInv, NEW p \in Converters, Convert(p)
  PROVE  IInv' /\ Only(p)
  <1> p \in Clients /\ Converting(p) /\ Typed
    BY DEF Clients, IInv
  <1> SUFFICES Typed' /\ Only(p) /\ Converting(p)'
    BY ConverterAlone
  <1>1. CASE LookRoot(p)
    BY <1>1 DEF LookRoot, InspectRoot, Mine, At, GoTo, Outside, history, Typed, Only, Converting, Places, Lookup,
                Rest, Clearing, Making, Taking, Version
  <1>2. CASE ConverterLookup(p)
    BY <1>2 DEF ConverterLookup, Decide, Forget, At, GoTo, Outside, history, Typed, Only, Converting, Places,
                Lookup, Rest, Clearing, Making, Taking, Version
  <1>3. CASE CheckTiles(p)
    BY <1>3 DEF CheckTiles, Pass, At, GoTo, Outside, history, Typed, Only, Converting, Places,
                Lookup, Rest, Clearing, Making, Taking, Version
  <1>4. CASE ClearEntry(p)
    <2>1. Typed' /\ Only(p)
      BY <1>4, RemovalTyped DEF ClearEntry, Places, Clearing
    <2>2. Converting(p)'
      BY <1>4 DEF ClearEntry, RemoveEntry, At, GoTo, Outside, history, Typed, Converting, Rest, Lookup, Clearing,
                  Making, Taking, Version
    <2> QED
      BY <2>1, <2>2
  <1>5. CASE MakeTemporary(p)
    BY <1>5 DEF MakeTemporary, At, GoTo, Outside, history, Typed, Only, Converting, Places, Whole,
                Lookup, Rest, Clearing, Making, Taking, Version
  <1>6. CASE Mark(p) \/ CheckIdentity(p)
    BY <1>6 DEF Mark, CheckIdentity, Pass, At, GoTo, Outside, history, Typed, Only, Converting, Places,
                Lookup, Rest, Clearing, Making, Taking, Version
  <1>7. CASE Author(p)
    BY <1>7 DEF Author, Generate, At, GoTo, Outside, history, Typed, Only, Converting, Places, Whole, Tiled,
                Lookup, Rest, Clearing, Making, Taking, Version
  <1>8. CASE Describe(p)
    <2>1. temp'[p] = Whole
      BY <1>8 DEF Describe, At, Typed, Converting, Whole, Tiled
    <2>2. Typed' /\ Only(p)
      BY <1>8, <2>1 DEF Describe, At, GoTo, Outside, history, Typed, Only, Places, Whole, Making
    <2>3. Converting(p)'
      BY <1>8, <2>1 DEF Describe, At, GoTo, Outside, history, Typed, Converting, Rest, Lookup, Clearing, Making,
                        Taking, Version
    <2> QED
      BY <2>2, <2>3
  <1>9. CASE PublishEntry(p)
    BY <1>9 DEF PublishEntry, NoTemporary, Mine, At, GoTo, Beside, Clients, Typed, Only, Converting, Places,
                Lookup, Rest, Clearing, Making, Taking, Version
  <1>10. CASE LookRootAgain(p)
    <2>1. Typed' /\ Only(p)
      <3>1. InspectRoot(p, "againRoot", "againManifest")
        BY <1>10 DEF LookRootAgain
      <3>2. "againManifest" \in Places
        BY DEF Places, Making
      <3> QED
        BY <3>1, <3>2, LookTyped
    <2>2. Converting(p)'
      BY <1>10, <2>1 DEF LookRootAgain, InspectRoot, At, GoTo, Outside, history, Typed, Converting,
                   Lookup, Rest, Clearing, Making, Taking, Version
    <2> QED
      BY <2>1, <2>2
  <1>11. CASE LookupAgain(p)
    BY <1>11 DEF LookupAgain, Decide, Forget, At, GoTo, Outside, history, Typed, Only, Converting, Places,
                 Lookup, Rest, Clearing, Making, Taking, Version
  <1>12. CASE Discard(p) \/ Cleanup(p)
    <2>1. temp' = [temp EXCEPT ![p] = {}] /\ temp' \in [Converters -> SUBSET Whole]
      BY <1>12 DEF Discard, Cleanup, NoTemporary, Typed
    <2>2. CASE Discard(p)
      BY <2>1, <2>2 DEF Discard, At, GoTo, Outside, history, Typed, Only, Converting, Places,
                   Lookup, Rest, Clearing, Making, Taking, Version
    <2>3. CASE Cleanup(p)
      BY <2>1, <2>3 DEF Cleanup, Forget, At, GoTo, Outside, history, Typed, Only, Converting, Places,
                   Lookup, Rest, Clearing, Making, Taking, Version
    <2> QED
      BY <1>12, <2>2, <2>3
  <1>13. CASE OpenRoot(p) \/ Copied(p)
    BY <1>13 DEF OpenRoot, Copied, Pass, At, GoTo, Outside, history, Typed, Only, Converting, Places,
                 Lookup, Rest, Clearing, Making, Taking, Version
  <1>14. CASE ListPayloads(p)
    BY <1>14 DEF ListPayloads, Mine, At, GoTo, Outside, history, Typed, Only, Converting, Places,
                 Lookup, Rest, Clearing, Making, Taking, Version
  <1>15. CASE CopyPayload(p)
    <2>1. At(p, "copy") /\ Typed' /\ Only(p) /\ UNCHANGED <<temp, key>> /\ (pc' = pc \/ pc'[p] = "cleanup")
      BY <1>15, CopyTyped DEF CopyPayload, CopyOne, Places, Taking
    <2>2. Converting(p)'
      BY <2>1 DEF At, Converting, Rest, Lookup, Clearing, Making, Taking, Version
    <2> QED
      BY <2>1, <2>2
  <1> QED
    BY <1>1, <1>2, <1>3, <1>4, <1>5, <1>6, <1>7, <1>8, <1>9, <1>10, <1>11, <1>12, <1>13, <1>14, <1>15
    DEF Convert

(* A read.                                                                 *)
LEMMA ReadInv ==
  ASSUME IInv, NEW r \in Readers, Read(r)
  PROVE  IInv' /\ Only(r)
  <1> USE DEF IInv
  <1> r \in Clients /\ r \notin Converters /\ Loading(r) /\ Typed
    BY CacheAssumption DEF Clients
  <1> SUFFICES Typed' /\ Only(r) /\ Loading(r)'
    BY ReaderAlone
  <1>1. CASE LookRoot(r)
    BY <1>1 DEF LookRoot, InspectRoot, Mine, At, GoTo, Outside, history, Typed, Only, Loading, Places, Lookup,
                Rest, Reading, Version
  <1>2. CASE ReaderLookup(r)
    <2>1. PICK there \in {"load", "invalidate", "changed", "miss"} : Decide(r, "manifest", there)
      BY <1>2 DEF ReaderLookup
    <2> QED
      BY <2>1 DEF Decide, Forget, At, GoTo, Outside, history, Typed, Only, Loading, Places,
                  Lookup, Rest, Reading, Version
  <1>3. CASE Load(r)
    BY <1>3 DEF Load, Mine, At, GoTo, Outside, history, Typed, Only, Loading, Places, Tiled,
                Lookup, Rest, Reading, Version
  <1>4. CASE Validate(r)
    <2>1. PICK n \in todo[r] :
             \/ todo' = [todo EXCEPT ![r] = @ \ {n}] /\ UNCHANGED <<pc, sawRoot, got>>
             \/ GoTo(r, "invalidate") /\ Forget(r)
      BY <1>4 DEF Validate
    <2>2. At(r, "validate") /\ UNCHANGED <<source, damages, history, entry, temp, key>>
      BY <1>4 DEF Validate, Outside, history
    <2>3. CASE todo' = [todo EXCEPT ![r] = @ \ {n}] /\ UNCHANGED <<pc, sawRoot, got>>
      BY <2>2, <2>3 DEF At, history, Typed, Only, Loading, Version
    <2>4. CASE GoTo(r, "invalidate") /\ Forget(r)
      BY <2>2, <2>4 DEF At, GoTo, Forget, history, Typed, Only, Loading, Places, Rest, Lookup, Reading, Version
    <2> QED
      BY <2>1, <2>3, <2>4
  <1>5. CASE Validated(r)
    BY <1>5 DEF Validated, At, GoTo, Outside, history, Typed, Only, Loading, Places, Tiled,
                Lookup, Rest, Reading, Version
  <1>6. CASE TakePayload(r)
    <2>1. /\ At(r, "take") /\ Typed' /\ Only(r) /\ UNCHANGED key
          /\ \/ pc' = pc /\ got'[r] \cup todo'[r] = got[r] \cup todo[r]
             \/ pc'[r] = "miss"
      BY <1>6, CopyTyped DEF TakePayload, CopyOne, Places, Rest
    <2>2. Loading(r)'
      BY <2>1 DEF At, Loading, Rest, Lookup, Reading, Version
    <2> QED
      BY <2>1, <2>2
  <1>7. CASE Taken(r)
    BY <1>7 DEF Taken, Pass, At, GoTo, Outside, history, Typed, Only, Loading, Places,
                Lookup, Rest, Reading, Version
  <1>8. CASE Invalidate(r)
    <2>1. Typed' /\ Only(r)
      BY <1>8, RemovalTyped DEF Invalidate, Places, Rest
    <2>2. Loading(r)'
      BY <1>8 DEF Invalidate, RemoveEntry, At, GoTo, Outside, history, Typed, Loading, Rest, Lookup, Reading, Version
    <2> QED
      BY <2>1, <2>2
  <1> QED
    BY <1>1, <1>2, <1>3, <1>4, <1>5, <1>6, <1>7, <1>8 DEF Read

(* Whatever fails, a converter gives its temporary entry up and a read     *)
(* what it has copied.                                                     *)
LEMMA FailInv ==
  ASSUME IInv, NEW c \in Clients, Fail(c)
  PROVE  IInv' /\ Only(c)
  <1> USE DEF IInv
  <1> Typed
    OBVIOUS
  <1>1. CASE c \in Converters
    <2>1. Converting(c) /\ c \notin Readers
      BY <1>1, CacheAssumption
    <2>2. \E there \in {"cleanup", "failed"} :
             /\ Pass(c, pc[c], there)
             /\ there = "cleanup" => pc[c] \in Making \cup Taking
             /\ there = "failed" => pc[c] \in {"clear", "make", "mark"}
      BY <2>1 DEF Fail, RefuseMarker, Pass, At
    <2>3. Typed' /\ Only(c) /\ Converting(c)'
      BY <2>1, <2>2 DEF Pass, At, GoTo, Outside, history, Typed, Only, Converting, Places,
                        Lookup, Rest, Clearing, Making, Taking, Version
    <2> QED
      BY <1>1, <2>3, ConverterAlone
  <1>2. CASE c \in Readers
    <2>1. Loading(c) /\ c \notin Converters
      BY <1>2, CacheAssumption
    <2>2. Typed' /\ Only(c) /\ Loading(c)'
      <3>1. \E here \in {"take", "invalidate"}, there \in {"miss", "invalidated"} : Decide(c, here, there)
        BY <2>1 DEF Fail, RefuseMarker
      <3>2. Typed' /\ Only(c)
        BY <3>1 DEF Decide, Forget, At, GoTo, Outside, history, Typed, Only, Places, Rest
      <3>3. Loading(c)'
        BY <2>1, <3>1 DEF Decide, Forget, At, GoTo, Outside, history, Typed, Loading, Rest, Lookup, Reading, Version
      <3> QED
        BY <3>2, <3>3
    <2> QED
      BY <1>2, <2>2, ReaderAlone
  <1> QED
    BY <1>1, <1>2 DEF Clients

(* An error of a lookup sends a converter to the removal, and a read.      *)
LEMMA LookErrsInv ==
  ASSUME IInv, NEW c \in Clients, LookErrs(c)
  PROVE  IInv' /\ Only(c)
  <1> Typed
    BY DEF IInv
  <1>1. Typed' /\ Only(c)
    BY DEF LookErrs, Forget, GoTo, Typed, Only, Places, Clearing, Reading
  <1>2. CASE c \in Converters
    <2>1. Converting(c)'
      BY <1>2 DEF IInv, LookErrs, Forget, GoTo, Typed, Converting, Version, Rest, Lookup, Clearing,
                  Making, Taking
    <2> QED
      BY <1>1, <1>2, <2>1, ConverterAlone
  <1>3. CASE c \in Readers
    <2>1. Loading(c)' 
      BY <1>3, CacheAssumption DEF IInv, LookErrs, Forget, GoTo, Typed, Loading, Version, Rest, Lookup,
                  Reading
    <2> QED
      BY <1>1, <1>3, <2>1, ReaderAlone
  <1> QED
    BY <1>2, <1>3 DEF Clients

LEMMA InvNext == IInv /\ [Next]_vars => IInv'
  <1> SUFFICES ASSUME IInv, [Next]_vars PROVE IInv'
    OBVIOUS
  <1>1. CASE \E c \in Clients : Start(c) \/ Fail(c) \/ LookErrs(c) \/ Kill(c)
    BY <1>1, StartInv, FailInv, LookErrsInv, KillInv
  <1>2. CASE \E p \in Converters : Convert(p)
    BY <1>2, ConvertInv
  <1>3. CASE \E r \in Readers : Read(r)
    BY <1>3, ReadInv
  <1>4. CASE SourceChanges \/ Damage \/ UNCHANGED vars
    <2>1. UNCHANGED <<temp, control>>
      BY <1>4 DEF SourceChanges, Damage, vars
    <2>2. Typed'
      <3>1. damages' \in 0..MaxDamage
        BY <1>4, CacheAssumption DEF IInv, Typed, SourceChanges, Damage, vars
      <3>2. robbed' \subseteq Clients /\ misled' \subseteq Clients
        BY <1>4 DEF IInv, Typed, SourceChanges, Damage, vars, history
      <3>3. source' \in Revisions
        BY <1>4, CacheAssumption DEF IInv, Typed, SourceChanges, Damage, vars
      <3> QED
        BY <1>4, <2>1, <3>1, <3>2, <3>3 DEF IInv, Typed, SourceChanges, Damage, vars, control
    <2>3. \A p \in Converters : Converting(p)'
      BY <2>1 DEF IInv, Converting, control, Version
    <2>4. \A r \in Readers : Loading(r)'
      BY <2>1 DEF IInv, Loading, control, Version
    <2> QED
      BY <2>2, <2>3, <2>4 DEF IInv
  <1> QED
    BY <1>1, <1>2, <1>3, <1>4 DEF Next

LEMMA Invariant == Spec => []IInv
  BY InvInit, InvNext, PTL DEF Spec

-----------------------------------------------------------------------------
(* Every state of the cache and its clients is well typed, and a temporary *)
(* entry exists only while its converter is at work on it.                 *)
THEOREM TypeCorrect == Spec => []TypeOK
  <1>1. IInv => TypeOK
    BY DEF IInv, Typed, Converting, Loading, TypeOK, Clients
  <1> QED
    BY <1>1, Invariant, PTL

(* A read that reports a hit has every payload of its entry, whoever       *)
(* removes the entry while the read copies it (MaterializePayloads).       *)
THEOREM HitIsWhole == Spec => []ReaderHitIsWhole
  <1>1. IInv => ReaderHitIsWhole
    BY DEF IInv, Loading, ReaderHitIsWhole
  <1> QED
    BY <1>1, Invariant, PTL

(* The steps that change an entry.                                         *)
LEMMA EntriesKept ==
  ASSUME [Next]_vars
  PROVE  \/ UNCHANGED entry
         \/ \E c \in Clients, here \in {"clear", "invalidate"}, there \in Places : RemoveEntry(c, here, there)
         \/ \E p \in Converters : PublishEntry(p)
         \/ Damage
  <1>1. CASE UNCHANGED vars
    BY <1>1 DEF vars
  <1>2. CASE \E c \in Clients : Start(c) \/ Fail(c) \/ LookErrs(c) \/ Kill(c)
    BY <1>2 DEF Start, Fail, LookErrs, Kill, RefuseMarker, Pass, Decide
  <1>3. ASSUME NEW p \in Converters, Convert(p), ~PublishEntry(p)
        PROVE  UNCHANGED entry \/ RemoveEntry(p, "clear", "make")
    BY <1>3
    DEF Convert, LookRoot, InspectRoot, ConverterLookup, Decide, CheckTiles, Pass, ClearEntry,
        MakeTemporary, Mark, CheckIdentity, Author, Generate, Describe, LookRootAgain, LookupAgain, Discard,
        Cleanup, OpenRoot, ListPayloads, CopyPayload, CopyOne, Copied
  <1>4. ASSUME NEW r \in Readers, Read(r)
        PROVE  UNCHANGED entry \/ RemoveEntry(r, "invalidate", "invalidated")
    BY <1>4
    DEF Read, LookRoot, InspectRoot, ReaderLookup, Decide, Load, Validate, Validated, TakePayload,
        CopyOne, Taken, Pass, Invalidate
  <1>5. CASE SourceChanges \/ Damage
    BY <1>5 DEF SourceChanges
  <1> QED
    BY <1>1, <1>2, <1>3, <1>4, <1>5 DEF Next, Clients, Places, Clearing, Rest

(* Entries only grow when a whole one is renamed into their place.         *)
LEMMA EntriesShrink ==
  ASSUME IInv, [Next]_vars, NEW k \in Keys
  PROVE  entry'[k] \subseteq entry[k] \/ entry'[k] = Whole
  <1> entry \in [Keys -> SUBSET Whole]
    BY DEF IInv, Typed
  <1>1. ASSUME NEW c \in Clients, NEW here, NEW there, RemoveEntry(c, here, there)
        PROVE  entry'[k] \subseteq entry[k]
    BY <1>1 DEF RemoveEntry, RemoveOne, RemoveLast
  <1>2. ASSUME NEW p \in Converters, PublishEntry(p)
        PROVE  entry'[k] = entry[k] \/ entry'[k] = Whole
    BY <1>2 DEF PublishEntry, At, IInv, Converting
  <1>3. ASSUME Damage PROVE entry'[k] \subseteq entry[k]
    BY <1>3 DEF Damage
  <1> QED
    BY <1>1, <1>2, <1>3, EntriesKept

(* An entry is committed by one step, with all it refers to, whoever else  *)
(* publishes, clears, invalidates or deletes (GenerateCacheEntry's rename).*)
THEOREM AppearsWhole == Spec => EntryAppearsWhole
  <1>1. IInv /\ [Next]_vars =>
          [\A k \in Keys : ~Committed(k) /\ Committed(k)' => entry'[k] = Whole]_vars
    BY EntriesShrink DEF Committed
  <1> QED
    BY <1>1, Invariant, PTL DEF Spec, EntryAppearsWhole

-----------------------------------------------------------------------------
(* What a client has found out about its entry stays true unless somebody  *)
(* else changes the entry, and the history variables say who is affected.  *)
(* To a converter that is not robbed its entry either lacks one of the     *)
(* three files it asks for or is whole, so that what it copies from is     *)
(* whole.  A client that is not misled removes nothing that is whole.      *)
Trusting(p) ==
    /\ pc[p] \in {"root", "manifest", "tiles"} => ~Deceptive(key[p])
    /\ pc[p] = "manifest" /\ sawRoot[p] => "root" \in Mine(p)
    /\ pc[p] = "tiles" => {"root", "manifest"} \subseteq Mine(p)
    /\ pc[p] \in {"make", "mark", "check", "author", "describe", "publish"} => Mine(p) \in {{}, Whole}
    /\ pc[p] \in {"againRoot", "againManifest", "discard", "open", "list", "copy"} => Mine(p) = Whole
    /\ pc[p] = "copy" => got[p] \cup todo[p] = Tiled
    /\ pc[p] = "done" => got[p] = Tiled

Doubting(c) ==
    /\ pc[c] = "manifest" /\ Mine(c) = Whole => sawRoot[c]
    /\ pc[c] \in {"clear", "invalidate"} => Mine(c) # Whole

Knowing(c) ==
    /\ c \in Converters \ robbed => Trusting(c)
    /\ c \notin misled => Doubting(c)

Known == \A c \in Clients : Knowing(c)

LEMMA KnownInit == Init => Known
  BY DEF Init, Known, Knowing, Trusting, Doubting, Clients

(* What others know when they leave a client alone: their entry is as it   *)
(* was, or they are at rest, or they are told by the history.              *)
LEMMA KnowingStays ==
  ASSUME Typed, NEW d \in Clients, Knowing(d),
         pc'[d] = pc[d], key'[d] = key[d], sawRoot'[d] = sawRoot[d], todo'[d] = todo[d], got'[d] = got[d],
         d \in robbed => d \in robbed', d \in misled => d \in misled',
         \/ entry'[key[d]] = entry[key[d]]
         \/ ~Active(d)
         \/ d \in robbed' /\ Mine(d)' \subseteq Mine(d)
         \/ d \in misled' /\ Mine(d)' = Whole
  PROVE  Knowing(d)'
  <1>1. Mine(d)' = entry'[key[d]] /\ Mine(d) = entry[key[d]] /\ Mine(d) \subseteq Whole
    BY DEF Mine, Typed
  <1>2. CASE entry'[key[d]] = entry[key[d]]
    BY <1>1, <1>2 DEF Knowing, Trusting, Doubting, Deceptive
  <1>3. CASE ~Active(d)
    BY <1>3 DEF Knowing, Trusting, Doubting, Active, Rest
  <1>4. CASE d \in robbed' /\ Mine(d)' \subseteq Mine(d)
    BY <1>1, <1>4 DEF Knowing, Doubting
  <1>5. CASE d \in misled' /\ Mine(d)' = Whole
    <2>1. ASSUME Trusting(d) PROVE Trusting(d)'
      BY <1>1, <1>5, <2>1 DEF Trusting, Deceptive, Whole
    <2> QED
      BY <1>5, <2>1 DEF Knowing
  <1> QED
    BY <1>2, <1>3, <1>4, <1>5

(* A step of one client that leaves the entries alone.                     *)
LEMMA KnownAside ==
  ASSUME Typed, Known, NEW c \in Clients, Only(c), UNCHANGED entry,
         robbed \ {c} \subseteq robbed', misled \ {c} \subseteq misled', Knowing(c)'
  PROVE  Known'
  BY KnowingStays DEF Known, Only

(* A step of the removal of an entry: the others at work on it are robbed. *)
LEMMA RemovalShrinks ==
  ASSUME Typed, NEW c \in Clients, NEW here, NEW there, RemoveEntry(c, here, there)
  PROVE  /\ \A k \in Keys \ {key[c]} : entry'[k] = entry[k]
         /\ entry'[key[c]] \subseteq entry[key[c]]
         /\ pc' = pc \/ (GoTo(c, there) /\ entry'[key[c]] = {})
  <1>1. key[c] \in Keys
    BY DEF Typed
  <1> QED
    BY <1>1 DEF Typed, RemoveEntry, RemoveOne, RemoveLast

LEMMA RemovalKnown ==
  ASSUME Typed, Known, NEW c \in Clients, Only(c), NEW here, NEW there, RemoveEntry(c, here, there),
         Knowing(c)'
  PROVE  Known'
  <1>1. /\ key' = key /\ robbed' = robbed \cup Beside(c) /\ misled' = misled
    BY DEF RemoveEntry
  <1>2. ASSUME NEW d \in Clients \ {c} PROVE Knowing(d)'
    <2>1. Knowing(d) /\ key[d] \in Keys /\ key[c] \in Keys
      BY DEF Known, Typed
    <2>2. CASE key[d] # key[c]
      BY <1>1, <2>1, <2>2, RemovalShrinks, KnowingStays DEF Only
    <2>3. CASE key[d] = key[c] /\ Active(d)
      <3>1. d \in robbed' /\ Mine(d)' \subseteq Mine(d)
        BY <1>1, <2>1, <2>3, RemovalShrinks DEF Beside, Mine
      <3> QED
        BY <1>1, <2>1, <3>1, KnowingStays DEF Only
    <2>4. CASE ~Active(d)
      BY <1>1, <2>1, <2>4, KnowingStays DEF Only
    <2> QED
      BY <2>2, <2>3, <2>4
  <1> QED
    BY <1>2 DEF Known

(* The rename: the others at work on the entry are misled.                 *)
LEMMA PublishKnown ==
  ASSUME IInv, Known, NEW p \in Converters, Only(p), PublishEntry(p)
  PROVE  Known'
  <1> p \in Clients /\ Typed /\ Converting(p) /\ Knowing(p) /\ key[p] \in Keys
    BY DEF IInv, Clients, Known, Typed
  <1>1. At(p, "publish") /\ temp[p] = Whole /\ UNCHANGED <<robbed, key, sawRoot, todo, got>>
    BY DEF PublishEntry, At, Converting
  <1>2. CASE Mine(p) \subseteq {"dir"}
    <2>1. entry' = [entry EXCEPT ![key[p]] = Whole] /\ misled' = misled \cup Beside(p) /\ pc'[p] = "open"
      BY <1>1, <1>2 DEF PublishEntry, GoTo, Typed
    <2>2. entry'[key[p]] = Whole /\ \A k \in Keys \ {key[p]} : entry'[k] = entry[k]
      BY <2>1 DEF Typed
    <2>3. Knowing(p)'
      BY <1>1, <2>1, <2>2 DEF Knowing, Trusting, Doubting, Mine
    <2>4. ASSUME NEW d \in Clients \ {p} PROVE Knowing(d)'
      <3>1. Knowing(d) /\ key[d] \in Keys
        BY DEF Known, Typed
      <3>2. CASE key[d] # key[p]
        BY <1>1, <2>1, <2>2, <3>1, <3>2, KnowingStays DEF Only
      <3>3. CASE key[d] = key[p] /\ Active(d)
        <4>1. d \in misled' /\ Mine(d)' = Whole
          BY <1>1, <2>1, <2>2, <3>3 DEF Beside, Mine
        <4> QED
          BY <1>1, <2>1, <3>1, <4>1, KnowingStays DEF Only
      <3>4. CASE ~Active(d)
        BY <1>1, <2>1, <3>1, <3>4, KnowingStays DEF Only
      <3> QED
        BY <3>2, <3>3, <3>4
    <2> QED
      BY <2>3, <2>4 DEF Known
  <1>3. CASE ~(Mine(p) \subseteq {"dir"})
    <2>1. UNCHANGED <<entry, misled>> /\ pc'[p] = "againRoot"
      BY <1>1, <1>3 DEF PublishEntry, GoTo, Typed
    <2>2. p \notin robbed => Mine(p) = Whole
      BY <1>1, <1>3 DEF Knowing, Trusting, At
    <2>3. Knowing(p)'
      BY <1>1, <2>1, <2>2 DEF Knowing, Trusting, Doubting, Mine
    <2> QED
      BY <1>1, <2>1, <2>3, KnownAside
  <1> QED
    BY <1>2, <1>3

(* The steps that clients of both kinds take.                              *)
LEMMA StartKnown ==
  ASSUME IInv, Known, NEW c \in Clients, Start(c)
  PROVE  Known'
  <1>1. Only(c) /\ Typed
    BY StartInv DEF IInv
  <1>2. /\ UNCHANGED entry /\ pc'[c] = "root" /\ key'[c] = Entry(c, source)
        /\ robbed' = IF Deceptive(Entry(c, source)) THEN robbed \cup {c} ELSE robbed \ {c}
        /\ misled' = misled \ {c}
    BY <1>1 DEF Start, GoTo, Typed
  <1>3. c \notin robbed' => ~Deceptive(key[c])'
    BY <1>2 DEF Deceptive
  <1>4. Knowing(c)'
    BY <1>2, <1>3 DEF Knowing, Trusting, Doubting
  <1> QED
    BY <1>1, <1>2, <1>4, KnownAside

LEMMA EndKnown ==
  ASSUME IInv, Known, NEW c \in Clients, Fail(c) \/ Kill(c) \/ LookErrs(c)
  PROVE  Known'
  <1>1. Only(c) /\ Typed
    BY FailInv, KillInv, LookErrsInv DEF IInv
  <1>2. /\ UNCHANGED <<entry, key, robbed>>
        /\ \/ pc'[c] \in {"cleanup", "failed", "miss", "invalidated", "idle"} /\ misled' = misled
           \/ pc'[c] \in {"clear", "invalidate"} /\ misled' = misled \cup {c}
    BY <1>1 DEF Fail, Kill, LookErrs, RefuseMarker, Pass, Decide, Outside, history, GoTo, Typed
  <1>3. Knowing(c)'
    BY <1>2 DEF Knowing, Trusting, Doubting
  <1> QED
    BY <1>1, <1>2, <1>3, KnownAside

(* Looking for the root, in either lookup.                                 *)
LEMMA LookKnows ==
  ASSUME Typed, NEW c \in Clients, NEW here, NEW there, InspectRoot(c, here, there)
  PROVE  /\ UNCHANGED <<entry, key, robbed, misled>>
         /\ pc'[c] = there
         /\ sawRoot'[c] <=> "root" \in Mine(c)
  BY DEF InspectRoot, Outside, history, GoTo, Typed

LEMMA ConvertKnown ==
  ASSUME IInv, Known, NEW p \in Converters, Convert(p)
  PROVE  Known'
  <1>0. Only(p) /\ Typed /\ p \in Clients /\ Knowing(p) /\ key[p] \in Keys
    BY ConvertInv DEF IInv, Known, Typed, Clients
  <1>c. ASSUME UNCHANGED <<entry, robbed, misled>>, Knowing(p)'
        PROVE  Known'
    BY <1>0, <1>c, KnownAside
  <1>1. CASE LookRoot(p)
    <2>1. pc[p] = "root" /\ pc'[p] = "manifest" /\ (sawRoot'[p] <=> "root" \in Mine(p))
      BY <1>0, <1>1, LookKnows DEF LookRoot, InspectRoot, At
    <2>2. UNCHANGED <<entry, key, robbed, misled>>
      BY <1>0, <1>1, LookKnows DEF LookRoot
    <2>3. Knowing(p)'
      BY <1>0, <2>1, <2>2 DEF Knowing, Trusting, Doubting, Mine, Deceptive, Whole
    <2> QED
      BY <1>c, <2>2, <2>3
  <1>2. CASE ConverterLookup(p)
    <2>1. /\ pc[p] = "manifest" /\ UNCHANGED <<entry, key, robbed, misled>>
          /\ pc'[p] = IF Status(p) = "hit" THEN "tiles" ELSE "clear"
      BY <1>0, <1>2 DEF ConverterLookup, Decide, At, GoTo, Outside, history, Typed
    <2>2. Status(p) = "hit" <=> sawRoot[p] /\ "manifest" \in Mine(p)
      BY DEF Status
    <2>3. Knowing(p)'
      BY <1>0, <2>1, <2>2 DEF Knowing, Trusting, Doubting, Mine, Deceptive, Whole
    <2> QED
      BY <1>c, <2>1, <2>3
  <1>3. CASE CheckTiles(p)
    <2>1. /\ pc[p] = "tiles" /\ UNCHANGED <<entry, key, robbed, misled>>
          /\ pc'[p] = IF "tiles" \in Mine(p) THEN "open" ELSE "clear"
      BY <1>0, <1>3 DEF CheckTiles, Pass, At, GoTo, Outside, history, Typed
    <2>2. Knowing(p)'
      BY <1>0, <2>1 DEF Knowing, Trusting, Doubting, Mine, Deceptive, Whole, Tiled
    <2> QED
      BY <1>c, <2>1, <2>2
  <1>4. CASE ClearEntry(p)
    <2>1. RemoveEntry(p, "clear", "make") /\ pc[p] = "clear" /\ key' = key /\ misled' = misled
      BY <1>4 DEF ClearEntry, RemoveEntry, At
    <2>2. Mine(p)' \subseteq Mine(p) /\ (pc'[p] = "clear" \/ (pc'[p] = "make" /\ Mine(p)' = {}))
      BY <1>0, <2>1, RemovalShrinks DEF GoTo, Typed, Mine
    <2>3. Mine(p) \subseteq Whole
      BY <1>0 DEF Mine, Typed
    <2>4. Knowing(p)'
      <3>1. Trusting(p)'
        BY <2>2 DEF Trusting
      <3>2. p \notin misled => Mine(p) # Whole
        BY <1>0, <2>1 DEF Knowing, Doubting
      <3>3. p \notin misled' => Doubting(p)'
        BY <2>1, <2>2, <2>3, <3>2 DEF Doubting
      <3> QED
        BY <3>1, <3>3 DEF Knowing
    <2> QED
      BY <1>0, <2>1, <2>4, RemovalKnown
  <1>5. CASE MakeTemporary(p) \/ Mark(p) \/ CheckIdentity(p) \/ Author(p) \/ Describe(p)
    <2>1. /\ UNCHANGED <<entry, key, robbed, misled>>
          /\ pc[p] \in {"make", "mark", "check", "author", "describe"}
          /\ pc'[p] \in {"mark", "check", "author", "describe", "publish", "cleanup"}
      BY <1>0, <1>5 DEF MakeTemporary, Mark, CheckIdentity, Author, Generate, Describe, Pass, At, GoTo,
                  Outside, history, Typed
    <2>2. Knowing(p)'
      BY <1>0, <2>1 DEF Knowing, Trusting, Doubting, Mine
    <2> QED
      BY <1>c, <2>1, <2>2
  <1>6. CASE PublishEntry(p)
    BY <1>0, <1>6, PublishKnown
  <1>7. CASE LookRootAgain(p)
    <2>1. pc[p] = "againRoot" /\ pc'[p] = "againManifest" /\ UNCHANGED <<entry, key, robbed, misled>>
      BY <1>0, <1>7, LookKnows DEF LookRootAgain, InspectRoot, At
    <2>2. Knowing(p)'
      BY <1>0, <2>1 DEF Knowing, Trusting, Doubting, Mine
    <2> QED
      BY <1>c, <2>1, <2>2
  <1>8. CASE LookupAgain(p) \/ Discard(p) \/ OpenRoot(p) \/ Cleanup(p)
    <2>1. /\ UNCHANGED <<entry, key, robbed, misled>>
          /\ \/ /\ pc[p] \in {"againManifest", "discard", "open"}
                /\ pc'[p] \in {"discard", "open", "list", "cleanup"}
             \/ pc'[p] = "failed"
      BY <1>0, <1>8 DEF LookupAgain, Decide, Discard, OpenRoot, Pass, Cleanup, At, GoTo, Outside, history,
                  Typed
    <2>2. Knowing(p)'
      BY <1>0, <2>1 DEF Knowing, Trusting, Doubting, Mine
    <2> QED
      BY <1>c, <2>1, <2>2
  <1>9. CASE ListPayloads(p)
    <2>1. /\ UNCHANGED <<entry, key, got, robbed, misled>> /\ pc[p] = "list"
          /\ pc'[p] \in {"copy", "cleanup"} /\ todo'[p] = Mine(p) \cap Tiled
      BY <1>0, <1>9 DEF ListPayloads, At, GoTo, Outside, history, Typed
    <2>2. Mine(p) = Whole => got[p] \cup todo'[p] = Tiled
      BY <1>0, <2>1 DEF Typed, Whole
    <2>3. Knowing(p)'
      BY <1>0, <2>1, <2>2 DEF Knowing, Trusting, Doubting, Mine
    <2> QED
      BY <1>c, <2>1, <2>3
  <1>10. CASE CopyPayload(p)
    <2>1. pc[p] = "copy" /\ UNCHANGED <<entry, key, robbed, misled>>
      BY <1>10 DEF CopyPayload, CopyOne, At, Outside, history
    <2>2. \/ pc' = pc /\ got'[p] \cup todo'[p] = got[p] \cup todo[p]
          \/ pc'[p] = "cleanup"
      BY <1>0, <1>10, CopyTyped DEF CopyPayload, Places, Taking
    <2>3. Knowing(p)'
      BY <1>0, <2>1, <2>2 DEF Knowing, Trusting, Doubting, Mine
    <2> QED
      BY <1>c, <2>1, <2>3
  <1>11. CASE Copied(p)
    <2>1. /\ UNCHANGED <<entry, key, got, robbed, misled>> /\ todo[p] = {} /\ pc[p] = "copy"
          /\ pc'[p] = "done"
      BY <1>0, <1>11 DEF Copied, Pass, At, GoTo, Outside, history, Typed
    <2>2. Knowing(p)'
      BY <1>0, <2>1 DEF Knowing, Trusting, Doubting
    <2> QED
      BY <1>c, <2>1, <2>2
  <1> QED
    BY <1>1, <1>2, <1>3, <1>4, <1>5, <1>6, <1>7, <1>8, <1>9, <1>10, <1>11 DEF Convert

LEMMA ReadKnown ==
  ASSUME IInv, Known, NEW r \in Readers, Read(r)
  PROVE  Known'
  <1>0. /\ Only(r) /\ Typed /\ r \in Clients /\ r \notin Converters /\ key[r] \in Keys
        /\ r \notin misled => Doubting(r)
    BY ReadInv, CacheAssumption DEF IInv, Known, Knowing, Typed, Clients
  <1>c. ASSUME UNCHANGED <<entry, robbed, misled>>, Doubting(r)'
        PROVE  Known'
    BY <1>0, <1>c, KnownAside DEF Knowing
  <1>d. ASSUME UNCHANGED <<entry, robbed, misled>>, r \notin misled => Doubting(r)'
        PROVE  Known'
    BY <1>0, <1>d, KnownAside DEF Knowing
  <1>1. CASE LookRoot(r)
    <2>1. UNCHANGED <<entry, key, robbed, misled>> /\ pc'[r] = "manifest"
          /\ (sawRoot'[r] <=> "root" \in Mine(r))
      BY <1>0, <1>1, LookKnows DEF LookRoot
    <2>2. Doubting(r)'
      BY <2>1 DEF Doubting, Mine, Whole
    <2> QED
      BY <1>c, <2>1, <2>2
  <1>2. CASE ReaderLookup(r)
    <2>1. /\ pc[r] = "manifest" /\ UNCHANGED <<entry, key, robbed, misled>>
          /\ pc'[r] \in {"load", "invalidate", "changed", "miss"}
          /\ pc'[r] = "invalidate" => Status(r) = "incomplete"
      BY <1>0, <1>2 DEF ReaderLookup, Decide, At, GoTo, Outside, history, Typed
    <2>2. Status(r) = "incomplete" => ~(sawRoot[r] /\ "manifest" \in Mine(r))
      BY DEF Status
    <2>3. r \notin misled => Doubting(r)'
      BY <1>0, <2>1, <2>2 DEF Doubting, Mine, Whole
    <2> QED
      BY <1>d, <2>1, <2>3
  <1>3. CASE Load(r)
    <2>1. /\ UNCHANGED <<entry, key, robbed, misled>>
          /\ pc'[r] = IF "root" \in Mine(r) THEN "validate" ELSE "invalidate"
      BY <1>0, <1>3 DEF Load, GoTo, Outside, history, Typed
    <2>2. Doubting(r)'
      BY <2>1 DEF Doubting, Mine, Whole
    <2> QED
      BY <1>c, <2>1, <2>2
  <1>4. CASE Validate(r)
    <2>1. PICK n \in todo[r] :
             \/ UNCHANGED pc
             \/ n \notin Mine(r) /\ GoTo(r, "invalidate")
      BY <1>4 DEF Validate
    <2>2. pc[r] = "validate" /\ UNCHANGED <<entry, key, robbed, misled>> /\ n \in Whole
      BY <1>0, <1>4 DEF Validate, At, Outside, history, Typed, Whole
    <2>3. Doubting(r)'
      BY <1>0, <2>1, <2>2 DEF GoTo, Typed, Doubting, Mine
    <2> QED
      BY <1>c, <2>2, <2>3
  <1>5. CASE Validated(r) \/ Taken(r) \/ TakePayload(r)
    <2>1. UNCHANGED <<entry, robbed, misled>> /\ pc'[r] \in {"take", "hit", "miss"}
      BY <1>0, <1>5 DEF Validated, Taken, TakePayload, CopyOne, Pass, At, GoTo, Outside, history, Typed
    <2>2. Doubting(r)'
      BY <2>1 DEF Doubting
    <2> QED
      BY <1>c, <2>1, <2>2
  <1>6. CASE Invalidate(r)
    <2>1. RemoveEntry(r, "invalidate", "invalidated") /\ pc[r] = "invalidate" /\ key' = key
          /\ misled' = misled
      BY <1>6 DEF Invalidate, RemoveEntry, At
    <2>2. Mine(r)' \subseteq Mine(r) /\ Mine(r) \subseteq Whole /\ pc'[r] \in {"invalidate", "invalidated"}
      BY <1>0, <2>1, RemovalShrinks DEF GoTo, Typed, Mine
    <2>3. r \notin misled => Doubting(r)'
      BY <1>0, <2>1, <2>2 DEF Doubting
    <2> QED
      BY <1>0, <2>1, <2>3, RemovalKnown DEF Knowing
  <1> QED
    BY <1>1, <1>2, <1>3, <1>4, <1>5, <1>6 DEF Read

(* Somebody deletes a part of an entry: whoever is at work on it is robbed.*)
LEMMA DamageKnown ==
  ASSUME IInv, Known, Damage
  PROVE  Known'
  <1> Typed
    BY DEF IInv
  <1>1. PICK k \in Keys, part \in Damageable :
           /\ entry' = [entry EXCEPT ![k] = @ \ {part}]
           /\ robbed' = robbed \cup {c \in Clients : Active(c) /\ key[c] = k}
    BY DEF Damage
  <1>2. UNCHANGED <<pc, key, sawRoot, todo, got, misled>>
    BY DEF Damage, control
  <1>3. ASSUME NEW d \in Clients PROVE Knowing(d)'
    <2>1. Knowing(d) /\ key[d] \in Keys
      BY DEF Known, Typed
    <2>2. CASE key[d] # k
      BY <1>1, <1>2, <2>1, <2>2, KnowingStays DEF Typed
    <2>3. CASE key[d] = k /\ Active(d)
      <3>1. d \in robbed' /\ Mine(d)' \subseteq Mine(d)
        BY <1>1, <1>2, <2>1, <2>3 DEF Mine, Typed
      <3> QED
        BY <1>1, <1>2, <2>1, <3>1, KnowingStays
    <2>4. CASE ~Active(d)
      BY <1>1, <1>2, <2>1, <2>4, KnowingStays
    <2> QED
      BY <2>2, <2>3, <2>4
  <1> QED
    BY <1>3 DEF Known

LEMMA KnownNext == IInv /\ Known /\ [Next]_vars => Known'
  <1> SUFFICES ASSUME IInv, Known, [Next]_vars PROVE Known'
    OBVIOUS
  <1>1. CASE \E c \in Clients : Start(c) \/ Fail(c) \/ LookErrs(c) \/ Kill(c)
    BY <1>1, StartKnown, EndKnown
  <1>2. CASE \E p \in Converters : Convert(p)
    BY <1>2, ConvertKnown
  <1>3. CASE \E r \in Readers : Read(r)
    BY <1>3, ReadKnown
  <1>4. CASE Damage
    BY <1>4, DamageKnown
  <1>5. CASE SourceChanges \/ UNCHANGED vars
    <2>1. UNCHANGED <<entry, pc, key, sawRoot, todo, got, robbed, misled>>
      BY <1>5 DEF SourceChanges, vars, control, history
    <2> QED
      BY <2>1 DEF Known, Knowing, Trusting, Doubting, Deceptive, Mine
  <1> QED
    BY <1>1, <1>2, <1>3, <1>4, <1>5 DEF Next

(* A conversion that reports success from the cache has copied every       *)
(* payload of its entry and the tile manifest (MaterializeCache), however  *)
(* many others convert the same source, publish or look up meanwhile - if  *)
(* its entry did not only look whole when it started and nobody removed    *)
(* anything from it since.                                                 *)
THEOREM WholeIsDelivered == Spec => []DeliveredWhole
  <1>1. Known => DeliveredWhole
    BY DEF Known, Knowing, Trusting, DeliveredWhole, Clients
  <1> QED
    BY <1>1, KnownInit, KnownNext, Invariant, PTL DEF Spec

(* And a whole entry loses a part only to the user or to a client that an  *)
(* error of its lookup has misled, or an entry published behind its back:  *)
(* no client whose lookups worked takes a whole entry for broken.          *)
THEOREM WholeIsKept == Spec => WholeKept
  <1>1. ASSUME IInv, Known, [Next]_vars, damages' = damages,
               NEW k \in Keys, entry[k] = Whole, entry'[k] # Whole
        PROVE  \E c \in misled : key[c] = k /\ pc[c] \in {"clear", "invalidate"}
    <2>1. ~Damage
      BY <1>1 DEF Damage, IInv, Typed
    <2>2. ASSUME NEW p \in Converters, PublishEntry(p)
          PROVE  FALSE
      BY <1>1, <2>2 DEF PublishEntry, At, IInv, Typed, Converting
    <2>3. PICK c \in Clients, here \in {"clear", "invalidate"}, there \in Places :
             RemoveEntry(c, here, there)
      BY <1>1, <2>1, <2>2, EntriesKept
    <2>4. key[c] = k /\ pc[c] \in {"clear", "invalidate"}
      BY <1>1, <2>3, RemovalShrinks DEF IInv, RemoveEntry, At
    <2>5. c \in misled
      BY <1>1, <2>4 DEF Known, Knowing, Doubting, Mine
    <2> QED
      BY <2>4, <2>5
  <1>2. IInv /\ Known /\ [Next]_vars =>
          [\A k \in Keys :
             entry[k] = Whole /\ entry'[k] # Whole =>
                \/ damages' # damages
                \/ \E c \in misled : key[c] = k /\ pc[c] \in {"clear", "invalidate"}]_vars
    BY <1>1
  <1> QED
    BY <1>2, KnownInit, KnownNext, Invariant, PTL DEF Spec, WholeKept

=============================================================================
