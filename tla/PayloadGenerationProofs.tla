------------------------ MODULE PayloadGenerationProofs ------------------------
(***************************************************************************)
(* Generations for any number of reads, contents, payloads and staging     *)
(* directories, whichever of them are at work at once.  As long as nobody's *)
(* staging directory is taken for a dead one (~LiveAges), a read keeps what *)
(* it stages and publishes it whole, and a generation that was there goes  *)
(* only by the reads CompleteKept and LatestKept name.                     *)
(***************************************************************************)
EXTENDS PayloadGeneration, TLAPS

LEMMA TypeInit == Init => TypeOK
  <1> SUFFICES ASSUME Init PROVE TypeOK
    OBVIOUS
  <1>0. MaxDamage \in Nat
    BY GenerationAssumption
  <1>1. damages \in 0..MaxDamage /\ aged \in SUBSET Stagings
    BY <1>0 DEF Init
  <1>6. owner \in BOOLEAN
    BY DEF Init
  <1>2. content \in [Reads -> Generations] /\ staging \in [Reads -> Stagings \cup {None}]
    BY DEF Init
  <1>3. /\ \A r \in Reads : pc[r] = "idle" /\ staging[r] = None
        /\ pc \in [Reads -> Rest \cup Work]
    BY DEF Init, Rest
  <1>4. /\ holds \in [Entries -> SUBSET (Names \cup {"."})]
        /\ todo \in [Reads -> SUBSET Names]
        /\ doomed \in [Reads -> SUBSET Entries]
        /\ made \in [Reads -> BOOLEAN]
    BY DEF Init
  <1>5. source \in Generations /\ latest \in Generations \cup {None} /\ outrun \in SUBSET Reads
    BY DEF Init
  <1> QED
    BY <1>1, <1>2, <1>3, <1>4, <1>5, <1>6 DEF TypeOK, Staging

(* The steps of a read up to its staging directory.                        *)
LEMMA TypeBegin ==
  ASSUME TypeOK, NEW r \in Reads,
         Reuse(r) \/ Start(r) \/ Begin(r) \/ MakeOwner(r) \/ Stage(r)
  PROVE  TypeOK'
  <1> USE DEF TypeOK, Rest, Work, Staging, GoTo, At, Still, history, Agree
  <1>1. CASE Reuse(r)
    BY <1>1 DEF Reuse, Active, disk
  <1>2. CASE Start(r)
    BY <1>2 DEF Start, Active, disk
  <1>3. CASE Begin(r)
    BY <1>3 DEF Begin, disk, Entries
  <1>4. CASE MakeOwner(r)
    BY <1>4 DEF MakeOwner
  <1>5. CASE Stage(r)
    <2>1. CASE owner /\ Fresh # {}
      BY <1>5, <2>1, GenerationAssumption DEF Stage, Fresh, Entries
    <2>2. CASE ~(owner /\ Fresh # {})
      BY <1>5, <2>2 DEF Stage
    <2> QED
      BY <2>1, <2>2
  <1> QED
    BY <1>1, <1>2, <1>3, <1>4, <1>5

LEMMA RemovalTyped ==
  ASSUME TypeOK, NEW e \in Entries \cup {None}, RemoveOne(e) \/ RemoveLast(e)
  PROVE  holds' \in [Entries -> SUBSET (Names \cup {"."})]
  BY DEF TypeOK, RemoveOne, RemoveLast

LEMMA TypeDoomed ==
  ASSUME TypeOK, NEW r \in Reads, Sweep(r) \/ Supersede(r)
  PROVE  TypeOK'
  <1>1. PICK here \in {"sweep", "supersede"}, there \in {"stage", "done"} : RemoveDoomed(r, here, there)
    BY DEF Sweep, Supersede
  <1>2. holds' \in [Entries -> SUBSET (Names \cup {"."})]
    BY <1>1, RemovalTyped DEF RemoveDoomed, TypeOK
  <1>3. doomed' \in [Reads -> SUBSET Entries]
    BY <1>1 DEF RemoveDoomed, TypeOK
  <1>4. /\ pc' = pc \/ pc' = [pc EXCEPT ![r] = there]
        /\ pc[r] = here
        /\ UNCHANGED <<source, latest, outrun, damages, owner, aged, content, staging, todo, made>>
    BY <1>1 DEF RemoveDoomed, GoTo, At, Still, history
  <1> QED
    BY <1>2, <1>3, <1>4 DEF TypeOK, Rest, Work, Staging

LEMMA TypeBuild ==
  ASSUME TypeOK, NEW r \in Reads,
         Write(r) \/ Written(r) \/ Commit(r) \/ Inspect(r) \/ Replace(r) \/ Place(r) \/ Fail(r)
  PROVE  TypeOK'
  <1> USE DEF TypeOK, Rest, Work, Staging, GoTo, At, Still, history, Agree
  <1>1. CASE Write(r)
    BY <1>1, GenerationAssumption DEF Write, Entries
  <1>2. CASE Written(r) \/ Commit(r) \/ Inspect(r)
    BY <1>2 DEF Written, Commit, Inspect, disk
  <1>3. CASE Replace(r)
    <2>1. holds' \in [Entries -> SUBSET (Names \cup {"."})]
      BY <1>3, RemovalTyped DEF Replace, Entries
    <2> QED
      BY <1>3, <2>1 DEF Replace
  <1>4. CASE Place(r)
    BY <1>4 DEF Place, disk
  <1>5. CASE Fail(r)
    BY <1>5 DEF Fail, NotRenamed, disk
  <1> QED
    BY <1>1, <1>2, <1>3, <1>4, <1>5

LEMMA TypePublish ==
  ASSUME TypeOK, NEW r \in Reads, Rename(r) \/ Drop(r) \/ List(r) \/ Rollback(r) \/ Skip(r) \/ Kill(r)
  PROVE  TypeOK'
  <1> USE DEF TypeOK, Rest, Work, Staging, GoTo, At, Still, history, Agree
  <1>1. CASE Rename(r)
    <2>1. staging[r] \in Stagings /\ content[r] \in Generations
      BY <1>1 DEF Rename, NotRenamed
    <2>2. CASE Exists(staging[r]) /\ holds[content[r]] \subseteq {"."}
      BY <1>1, <2>1, <2>2, GenerationAssumption DEF Rename, Entries
    <2>3. CASE ~(Exists(staging[r]) /\ holds[content[r]] \subseteq {"."})
      BY <1>1, <2>1, <2>3 DEF Rename, NotRenamed, disk
    <2> QED
      BY <2>2, <2>3
  <1>2. CASE Drop(r)
    <2>1. holds' \in [Entries -> SUBSET (Names \cup {"."})]
      BY <1>2, RemovalTyped DEF Drop, Entries
    <2> QED
      BY <1>2, <2>1 DEF Drop
  <1>3. CASE List(r)
    BY <1>3 DEF List, disk, Entries
  <1>4. CASE Rollback(r)
    <2>1. holds' \in [Entries -> SUBSET (Names \cup {"."})]
      BY <1>4, RemovalTyped DEF Rollback, Entries
    <2>2. owner' \in BOOLEAN
      BY <1>4 DEF Rollback
    <2> QED
      BY <1>4, <2>1, <2>2 DEF Rollback
  <1>5. CASE SkipDoomed(r)
    BY <1>5 DEF SkipDoomed, disk
  <1>6. CASE SkipStaging(r)
    <2>1. pc' = [pc EXCEPT ![r] = "list"] \/ pc' = [pc EXCEPT ![r] = "failed"]
      BY <1>6 DEF SkipStaging
    <2> QED
      BY <1>6, <2>1 DEF SkipStaging, disk
  <1>7. CASE Kill(r)
    BY <1>7 DEF Kill, disk
  <1> QED
    BY <1>1, <1>2, <1>3, <1>4, <1>5, <1>6, <1>7 DEF Skip

LEMMA TypeNext == TypeOK /\ [Next]_vars => TypeOK'
  <1> SUFFICES ASSUME TypeOK, [Next]_vars PROVE TypeOK'
    OBVIOUS
  <1>1. ASSUME NEW r \in Reads, Reuse(r) \/ Start(r) \/ Step(r) \/ Fail(r) \/ Skip(r) \/ Kill(r)
        PROVE  TypeOK'
    BY <1>1, TypeBegin, TypeDoomed, TypeBuild, TypePublish DEF Step
  <1>2. CASE SourceChanges \/ HourPasses \/ UNCHANGED vars
    BY <1>2 DEF SourceChanges, HourPasses, vars, disk, control, history, TypeOK
  <1>3. CASE Damage
    <2>0. holds \in [Entries -> SUBSET (Names \cup {"."})]
      BY DEF TypeOK
    <2>1. holds' \in [Entries -> SUBSET (Names \cup {"."})]
      <3>1. PICK g \in Generations, n \in Names : holds' = [holds EXCEPT ![g] = @ \ {n}]
        BY <1>3 DEF Damage
      <3>2. holds[g] \ {n} \in SUBSET (Names \cup {"."})
        BY <2>0 DEF Entries
      <3> QED
        BY <2>0, <3>1, <3>2
    <2>2. damages' \in 0..MaxDamage
      BY <1>3, GenerationAssumption DEF Damage, TypeOK
    <2> QED
      BY <1>3, <2>1, <2>2 DEF Damage, control, history, TypeOK
  <1> QED
    BY <1>1, <1>2, <1>3 DEF Next

(* Every state of the reads and their directories is well typed, and a     *)
(* read has a staging directory exactly while it builds a generation.      *)
THEOREM TypeCorrect == Spec => []TypeOK
  BY TypeInit, TypeNext, PTL DEF Spec

-----------------------------------------------------------------------------
(* What a read may rely on while no other takes its staging directory for  *)
(* a leftover: the directory is its own, is on no list of removals, and    *)
(* holds what the read has written.                                        *)
Owns(r) ==
    staging[r] # None =>
        /\ staging[r] \notin aged
        /\ \A p \in Reads : staging[r] \notin doomed[p] /\ (p # r => staging[p] # staging[r])

Building(r) ==
    /\ pc[r] \in {"begin", "make", "sweep", "stage"} => todo[r] = Names
    /\ pc[r] = "write" => Names \subseteq todo[r] \cup holds[staging[r]]
    /\ pc[r] \in {"commit", "inspect", "replace", "place", "rename"} =>
          Names \subseteq holds[staging[r]]

Removing(r) ==
    /\ pc[r] = "sweep" => doomed[r] \subseteq Stagings
    /\ pc[r] = "supersede" => doomed[r] \subseteq Generations \ {content[r]}

IInv == TypeOK /\ \A r \in Reads : Owns(r) /\ Building(r) /\ Removing(r)

(* What the steps of a read leave to the others.                           *)
Gentle(r) ==
    /\ \A q \in Reads \ {r} :
          /\ pc'[q] = pc[q] /\ content'[q] = content[q] /\ staging'[q] = staging[q]
          /\ todo'[q] = todo[q] /\ doomed'[q] = doomed[q]
          /\ staging[q] # None => staging'[r] # staging[q]
    /\ aged' \subseteq aged
    /\ doomed'[r] \subseteq doomed[r] \cup aged \cup Generations
    /\ \A s \in Stagings \ doomed[r] : s # staging[r] => holds[s] \subseteq holds'[s]

LEMMA InvInit == Init => IInv
  <1>1. Init => \A r \in Reads : pc[r] = "idle" /\ staging[r] = None
    BY DEF Init
  <1> QED
    BY <1>1, TypeInit DEF IInv, Owns, Building, Removing

LEMMA OthersStay ==
  ASSUME IInv, NEW r \in Reads, Gentle(r), NEW q \in Reads \ {r}
  PROVE  Owns(q)' /\ Building(q)' /\ Removing(q)'
  <1> TypeOK /\ q \in Reads /\ Owns(q) /\ Building(q) /\ Removing(q)
    BY DEF IInv
  <1>1. Removing(q)'
    BY DEF Gentle, Removing
  <1>2. ASSUME staging[q] # None
        PROVE  staging[q] \in Stagings /\ holds[staging[q]] \subseteq holds'[staging[q]]
    <2>1. staging[q] \in Stagings
      BY <1>2 DEF TypeOK
    <2>2. staging[q] \notin doomed[r] /\ staging[q] # staging[r]
      BY <1>2 DEF Owns
    <2> QED
      BY <2>1, <2>2 DEF Gentle
  <1>3. Building(q)'
    <2>1. CASE pc[q] \in Staging
      BY <2>1, <1>2 DEF Gentle, Building, Staging, TypeOK
    <2>2. CASE pc[q] \notin Staging
      BY <2>2 DEF Gentle, Building, Staging
    <2> QED
      BY <2>1, <2>2
  <1>4. Owns(q)'
    <2>0. staging'[q] = staging[q]
      BY DEF Gentle
    <2>1. CASE staging[q] = None
      BY <2>0, <2>1 DEF Owns
    <2>2. CASE staging[q] # None
      <3>1. staging[q] \notin aged'
        BY <2>2 DEF Gentle, Owns
      <3>2. staging[q] \notin doomed'[r] /\ staging'[r] # staging[q]
        <4>1. staging[q] \notin Generations
          BY <1>2, <2>2, GenerationAssumption
        <4> QED
          BY <2>2, <4>1 DEF Gentle, Owns
      <3>3. ASSUME NEW p \in Reads
            PROVE  staging[q] \notin doomed'[p] /\ (p # q => staging'[p] # staging[q])
        <4>1. CASE p = r
          BY <4>1, <3>2
        <4>2. CASE p # r
          BY <2>2, <4>2 DEF Gentle, Owns
        <4> QED
          BY <4>1, <4>2
      <3> QED
        BY <2>0, <3>1, <3>3 DEF Owns
    <2> QED
      BY <2>1, <2>2
  <1> QED
    BY <1>1, <1>3, <1>4

(* What a read has while it has a staging directory, and who is at work.   *)
LEMMA StagingLives ==
  ASSUME TypeOK, NEW r \in Reads, staging[r] # None
  PROVE  Active(r) /\ staging[r] \in Stagings /\ Live(staging[r])
  BY DEF TypeOK, Active, Rest, Staging, Live

(* The steps that leave every directory as it is.                          *)
LEMMA KeepsDisk ==
  ASSUME IInv, NEW r \in Reads,
         \/ Reuse(r) \/ Start(r) \/ Begin(r) \/ Written(r) \/ MakeOwner(r) \/ Commit(r)
         \/ Inspect(r) \/ Place(r) \/ List(r) \/ Fail(r) \/ Skip(r) \/ Kill(r)
  PROVE  Gentle(r) /\ Owns(r)' /\ Building(r)' /\ Removing(r)'
  <1> TypeOK /\ Owns(r) /\ Building(r) /\ Removing(r) /\ \A q \in Reads : Owns(q)
    BY DEF IInv
  <1> USE DEF At, GoTo, Still, history, Agree, disk
  <1>1. CASE Reuse(r) \/ Start(r) \/ Begin(r)
    <2>1. staging[r] = None /\ staging' = staging /\ aged' = aged /\ holds' = holds
      BY <1>1 DEF TypeOK, Reuse, Start, Begin, Active, Rest, Staging
    <2>2. Gentle(r)
      BY <1>1, <2>1 DEF Gentle, TypeOK, Reuse, Start, Begin
    <2>3. Owns(r)'
      BY <2>1 DEF Owns
    <2>4. Building(r)' /\ Removing(r)'
      BY <1>1, <2>1 DEF Building, Removing, TypeOK, Reuse, Start, Begin
    <2> QED
      BY <2>2, <2>3, <2>4
  <1>2. CASE MakeOwner(r) \/ Written(r) \/ Commit(r) \/ Inspect(r) \/ Place(r) \/ Fail(r)
    <2>1. /\ staging' = staging /\ aged' = aged /\ holds' = holds
          /\ doomed' = doomed /\ todo' = todo /\ content' = content
      BY <1>2 DEF MakeOwner, Written, Commit, Inspect, Place, Fail, NotRenamed
    <2>2. \E there \in Work : pc' = [pc EXCEPT ![r] = there] /\ there \notin {"sweep", "supersede"}
      BY <1>2 DEF MakeOwner, Written, Commit, Inspect, Place, Fail, NotRenamed, Work
    <2>3. Gentle(r)
      BY <2>1, <2>2 DEF Gentle, Owns, TypeOK
    <2>4. Owns(r)'
      BY <2>1 DEF Owns
    <2>5. Building(r)'
      BY <1>2, <2>1 DEF Building, TypeOK, MakeOwner, Written, Commit, Inspect, Place, Fail, NotRenamed
    <2>6. Removing(r)'
      BY <2>2 DEF Removing, TypeOK
    <2> QED
      BY <2>3, <2>4, <2>5, <2>6
  <1>3. CASE List(r) \/ Skip(r) \/ Kill(r)
    <2>1. staging'[r] = None /\ aged' = aged /\ holds' = holds
      BY <1>3 DEF TypeOK, List, Skip, SkipDoomed, SkipStaging, Kill, Staging
    <2>2. Gentle(r)
      BY <1>3, <2>1 DEF Gentle, TypeOK, List, Skip, SkipDoomed, SkipStaging, Kill
    <2>3. Owns(r)'
      BY <2>1 DEF Owns
    <2>4. Building(r)' /\ Removing(r)'
      BY <1>3 DEF Building, Removing, TypeOK, List, Skip, SkipDoomed, SkipStaging, Kill
    <2> QED
      BY <2>2, <2>3, <2>4
  <1> QED
    BY <1>1, <1>2, <1>3

(* A directory nobody knows, and the payloads put into it.                 *)
LEMMA KeepsStaged ==
  ASSUME IInv, NEW r \in Reads, Stage(r) \/ Write(r)
  PROVE  Gentle(r) /\ Owns(r)' /\ Building(r)' /\ Removing(r)'
  <1> TypeOK /\ Owns(r) /\ Building(r) /\ Removing(r) /\ \A q \in Reads : Owns(q)
    BY DEF IInv
  <1> USE DEF At, GoTo, Still, history, Agree
  <1>1. CASE Stage(r)
    <2>1. staging[r] = None
      BY <1>1 DEF TypeOK, Stage, Staging
    <2>2. ASSUME NEW s \in Fresh,
                 holds' = [holds EXCEPT ![s] = {"."}], staging' = [staging EXCEPT ![r] = s],
                 aged' = aged \ {s}, pc' = [pc EXCEPT ![r] = "write"]
          PROVE  Gentle(r) /\ Owns(r)' /\ Building(r)' /\ Removing(r)'
      <3>1. /\ s \in Stagings /\ holds[s] = {} /\ \A q \in Reads : staging[q] # s /\ s \notin doomed[q]
        BY GenerationAssumption, StagingLives DEF Fresh, Live, Exists
      <3>2. UNCHANGED <<content, todo, doomed>> /\ pc[r] = "stage"
        BY <1>1 DEF Stage
      <3>3. Gentle(r)
        BY <2>2, <3>1, <3>2, GenerationAssumption DEF Gentle, TypeOK, Entries
      <3>4. Owns(r)'
        BY <2>2, <3>1, <3>2 DEF Owns, TypeOK
      <3>5. Building(r)' /\ Removing(r)'
        BY <2>2, <3>1, <3>2 DEF Building, Removing, TypeOK
      <3> QED
        BY <3>3, <3>4, <3>5
    <2>3. CASE UNCHANGED <<holds, staging, aged>> /\ pc' = [pc EXCEPT ![r] = "rollback"]
      <3>1. Gentle(r)
        BY <1>1, <2>1, <2>3 DEF Gentle, TypeOK, Stage
      <3>2. Owns(r)' /\ Building(r)' /\ Removing(r)'
        BY <2>1, <2>3 DEF Owns, Building, Removing, TypeOK
      <3> QED
        BY <3>1, <3>2
    <2> QED
      BY <1>1, <2>2, <2>3 DEF Stage
  <1>2. CASE Write(r)
    <2>0. staging[r] \in Stagings /\ staging[r] # None
      BY <1>2 DEF TypeOK, Write, Staging
    <2>1. PICK n \in todo[r] :
             /\ holds' = [holds EXCEPT ![staging[r]] = @ \cup {".", n}]
             /\ todo' = [todo EXCEPT ![r] = @ \ {n}]
      BY <1>2 DEF Write
    <2>2. /\ UNCHANGED <<pc, content, staging, doomed>>
          /\ aged' = aged \ {staging[r]} /\ pc[r] = "write"
      BY <1>2 DEF Write
    <2>3. Gentle(r)
      BY <2>0, <2>1, <2>2 DEF Gentle, Owns, TypeOK, Entries
    <2>4. Owns(r)'
      BY <2>2 DEF Owns
    <2>5. Building(r)' /\ Removing(r)'
      BY <2>0, <2>1, <2>2 DEF Building, Removing, TypeOK, Entries
    <2> QED
      BY <2>3, <2>4, <2>5
  <1> QED
    BY <1>1, <1>2

(* A removal touches the directory it is about only.                       *)
LEMMA OthersHeld ==
  ASSUME TypeOK, NEW e \in Entries \cup {None}, RemoveOne(e) \/ RemoveLast(e),
         NEW s \in Stagings, s # e
  PROVE  holds'[s] = holds[s]
  BY DEF TypeOK, RemoveOne, RemoveLast, Entries

LEMMA KeepsSwept ==
  ASSUME IInv, NEW r \in Reads, Sweep(r) \/ Supersede(r)
  PROVE  Gentle(r) /\ Owns(r)' /\ Building(r)' /\ Removing(r)'
  <1> TypeOK /\ Owns(r) /\ Building(r) /\ Removing(r) /\ \A q \in Reads : Owns(q)
    BY DEF IInv
  <1>1. PICK here \in {"sweep", "supersede"}, there \in {"stage", "done"} :
           /\ RemoveDoomed(r, here, there)
           /\ here = "sweep" <=> there = "stage"
    BY DEF Sweep, Supersede
  <1>2. /\ pc[r] = here /\ (pc' = pc \/ pc' = [pc EXCEPT ![r] = there])
        /\ UNCHANGED <<aged, content, staging, todo>>
        /\ doomed' = doomed \/ \E e \in doomed[r] : doomed' = [doomed EXCEPT ![r] = @ \ {e}]
    BY <1>1 DEF RemoveDoomed, GoTo, At
  <1>3. staging[r] = None
    BY <1>2 DEF TypeOK, Staging
  <1>4. \A s \in Stagings \ doomed[r] : holds[s] \subseteq holds'[s]
    <2> TAKE s \in Stagings \ doomed[r]
    <2>1. CASE \E e \in doomed[r] : RemoveOne(e) \/ RemoveLast(e)
      BY <2>1, OthersHeld DEF TypeOK
    <2>2. CASE holds' = holds
      BY <2>2
    <2> QED
      BY <1>1, <2>1, <2>2 DEF RemoveDoomed
  <1>5. Gentle(r)
    BY <1>2, <1>3, <1>4 DEF Gentle, TypeOK
  <1>6. Owns(r)' /\ Building(r)' /\ Removing(r)'
    BY <1>1, <1>2, <1>3 DEF Owns, Building, Removing, TypeOK
  <1> QED
    BY <1>5, <1>6

LEMMA KeepsRemoved ==
  ASSUME IInv, NEW r \in Reads, Replace(r) \/ Drop(r) \/ Rollback(r)
  PROVE  Gentle(r) /\ Owns(r)' /\ Building(r)' /\ Removing(r)'
  <1> TypeOK /\ Owns(r) /\ Building(r) /\ Removing(r) /\ \A q \in Reads : Owns(q)
    BY DEF IInv
  <1> USE DEF At, GoTo, Still, history, Agree
  <1>1. PICK e \in {content[r], staging[r]} :
           /\ RemoveOne(e) \/ RemoveLast(e)
           /\ e = content[r] \/ pc[r] \in {"drop", "rollback"}
    BY DEF Replace, Drop, Rollback
  <1>2. e \in Entries \cup {None} /\ content[r] \in Generations
    BY DEF TypeOK, Entries
  <1>3. \A s \in Stagings : s # staging[r] => holds'[s] = holds[s]
    BY <1>1, <1>2, OthersHeld, GenerationAssumption
  <1>4. /\ UNCHANGED <<aged, content, todo, doomed>>
        /\ pc[r] \in {"replace", "drop", "rollback"}
        /\ staging' = staging \/ staging' = [staging EXCEPT ![r] = None]
        /\ pc' = pc \/ \E there \in {"place", "list", "failed"} : pc' = [pc EXCEPT ![r] = there]
    BY DEF Replace, Drop, Rollback
  <1>5. Gentle(r)
    BY <1>3, <1>4 DEF Gentle, Owns, TypeOK
  <1>6. Owns(r)'
    BY <1>4 DEF Owns, TypeOK
  <1>7. Removing(r)'
    BY <1>4 DEF Removing, TypeOK
  <1>8. Building(r)'
    <2>1. CASE Replace(r)
      <3>1. staging[r] \in Stagings /\ staging' = staging
        BY <2>1 DEF Replace, TypeOK, Staging
      <3>2. RemoveOne(content[r]) \/ RemoveLast(content[r])
        BY <2>1 DEF Replace
      <3>3. holds'[staging[r]] = holds[staging[r]]
        BY <1>2, <3>1, <3>2, OthersHeld, GenerationAssumption DEF Entries
      <3> QED
        BY <1>4, <2>1, <3>1, <3>3 DEF Replace, Building, TypeOK
    <2>2. CASE Drop(r) \/ Rollback(r)
      BY <2>2 DEF Drop, Rollback, Building, TypeOK
    <2> QED
      BY <2>1, <2>2
  <1> QED
    BY <1>5, <1>6, <1>7, <1>8

(* What a rename, done or refused, does to the directories.                *)
LEMMA Moves ==
  ASSUME TypeOK, NEW r \in Reads, Rename(r) \/ NotRenamed(r)
  PROVE  /\ pc[r] = "rename" /\ staging[r] \in Stagings /\ content[r] \in Generations
         /\ UNCHANGED <<source, damages, aged, content, todo, doomed>>
         /\ staging' = staging \/ staging' = [staging EXCEPT ![r] = None]
         /\ \E there \in {"list", "drop", "rollback"} : pc' = [pc EXCEPT ![r] = there]
         /\ \/ holds' = holds
            \/ holds' = [holds EXCEPT ![content[r]] = holds[staging[r]], ![staging[r]] = {}]
  <1>1. CASE NotRenamed(r)
    BY <1>1 DEF NotRenamed, At, GoTo, disk, TypeOK, Staging
  <1>2. CASE Rename(r) /\ ~NotRenamed(r)
    BY <1>2 DEF Rename, At, GoTo, TypeOK, Staging
  <1> QED
    BY <1>1, <1>2

LEMMA KeepsRenamed ==
  ASSUME IInv, NEW r \in Reads, Rename(r)
  PROVE  Gentle(r) /\ Owns(r)' /\ Building(r)' /\ Removing(r)'
  <1> TypeOK /\ Owns(r) /\ Building(r) /\ Removing(r) /\ \A q \in Reads : Owns(q)
    BY DEF IInv
  <1>1. /\ UNCHANGED <<aged, content, todo, doomed>>
        /\ pc[r] = "rename"
        /\ staging' = staging \/ staging' = [staging EXCEPT ![r] = None]
        /\ \E there \in {"list", "drop", "rollback"} : pc' = [pc EXCEPT ![r] = there]
    BY Moves
  <1>2. \A s \in Stagings : s # staging[r] => holds'[s] = holds[s]
    BY Moves, GenerationAssumption DEF TypeOK, Entries
  <1>3. Gentle(r)
    BY <1>1, <1>2 DEF Gentle, Owns, TypeOK
  <1>4. Owns(r)' /\ Building(r)' /\ Removing(r)'
    BY <1>1 DEF Owns, Building, Removing, TypeOK
  <1> QED
    BY <1>3, <1>4

LEMMA KeepsOwn ==
  ASSUME IInv, NEW r \in Reads, Reuse(r) \/ Start(r) \/ Step(r) \/ Fail(r) \/ Skip(r) \/ Kill(r)
  PROVE  Gentle(r) /\ Owns(r)' /\ Building(r)' /\ Removing(r)'
  BY KeepsDisk, KeepsStaged, KeepsSwept, KeepsRemoved, KeepsRenamed DEF Step

LEMMA InvNext == ASSUME ~LiveAges PROVE IInv /\ [Next]_vars => IInv'
  <1> SUFFICES ASSUME IInv, [Next]_vars PROVE IInv'
    OBVIOUS
  <1>1. TypeOK'
    BY TypeNext DEF IInv
  <1>2. ASSUME NEW r \in Reads, Reuse(r) \/ Start(r) \/ Step(r) \/ Fail(r) \/ Skip(r) \/ Kill(r)
        PROVE  \A q \in Reads : Owns(q)' /\ Building(q)' /\ Removing(q)'
    BY <1>2, KeepsOwn, OthersStay
  <1>3. ASSUME SourceChanges \/ HourPasses \/ Damage \/ UNCHANGED vars
        PROVE  \A q \in Reads : Owns(q)' /\ Building(q)' /\ Removing(q)'
    <2> SUFFICES ASSUME NEW q \in Reads PROVE Owns(q)' /\ Building(q)' /\ Removing(q)'
      OBVIOUS
    <2>0. TypeOK /\ Owns(q) /\ Building(q) /\ Removing(q)
      BY DEF IInv
    <2>1. UNCHANGED <<pc, content, staging, todo, doomed>>
      BY <1>3 DEF SourceChanges, HourPasses, Damage, vars, control
    <2>2. staging[q] # None => staging[q] \in Stagings /\ (staging[q] \in aged' => staging[q] \in aged)
      BY <1>3, <2>0, StagingLives DEF SourceChanges, HourPasses, Damage, vars, disk
    <2>3. \A s \in Stagings : holds'[s] = holds[s]
      BY <1>3, <2>0, GenerationAssumption
         DEF SourceChanges, HourPasses, Damage, vars, disk, TypeOK, Entries
    <2>4. Owns(q)'
      BY <2>0, <2>1, <2>2 DEF Owns
    <2>5. Removing(q)'
      BY <2>0, <2>1 DEF Removing
    <2>6. Building(q)'
      BY <2>0, <2>1, <2>2, <2>3 DEF Building, TypeOK, Staging
    <2> QED
      BY <2>4, <2>5, <2>6
  <1> QED
    BY <1>1, <1>2, <1>3 DEF IInv, Next

LEMMA Invariant == ASSUME ~LiveAges PROVE Spec => []IInv
  BY InvInit, InvNext, PTL DEF Spec

-----------------------------------------------------------------------------
(* What a read in progress has written stays: nobody else removes it.      *)
THEOREM StagingKept == ASSUME ~LiveAges PROVE Spec => StagingIsPrivate
  <1>1. ASSUME IInv, Next, NEW q \in Reads,
               pc[q] \in {"write", "commit"}, pc'[q] \in {"write", "commit", "inspect"}
        PROVE  holds[staging[q]] \subseteq holds'[staging[q]]
    <2>0. TypeOK /\ Owns(q) /\ staging[q] \in Stagings /\ staging[q] # None
      BY <1>1, GenerationAssumption DEF IInv, TypeOK, Staging
    <2>1. ASSUME NEW r \in Reads \ {q}, Reuse(r) \/ Start(r) \/ Step(r) \/ Fail(r) \/ Skip(r) \/ Kill(r)
          PROVE  holds[staging[q]] \subseteq holds'[staging[q]]
      <3>1. Gentle(r)
        BY <1>1, <2>1, KeepsOwn
      <3>2. staging[q] \notin doomed[r] /\ staging[q] # staging[r]
        BY <2>0, <2>1 DEF Owns
      <3> QED
        BY <2>0, <3>1, <3>2 DEF Gentle
    <2>2. CASE Reuse(q) \/ Start(q) \/ Step(q) \/ Fail(q) \/ Skip(q) \/ Kill(q)
      <3>1. Write(q) \/ holds' = holds
        BY <1>1, <2>2
           DEF Reuse, Start, Step, Fail, NotRenamed, Skip, SkipDoomed, SkipStaging, Kill, Begin, MakeOwner,
               Sweep, Stage, Written, Commit, Inspect, Replace, Place, Rename, Drop, List, Supersede,
               RemoveDoomed, Rollback, At, disk
      <3>2. CASE Write(q)
        BY <2>0, <3>2 DEF Write, TypeOK, Entries
      <3> QED
        BY <3>1, <3>2
    <2>3. CASE SourceChanges \/ HourPasses \/ Damage
      BY <2>0, <2>3, GenerationAssumption DEF SourceChanges, HourPasses, Damage, disk, TypeOK, Entries
    <2> QED
      BY <1>1, <2>1, <2>2, <2>3 DEF Next
  <1>2. IInv /\ [Next]_vars
          => [\A r \in Reads : Stages(r) => holds[staging[r]] \subseteq holds'[staging[r]]]_vars
    BY <1>1 DEF Stages
  <1> QED
    BY <1>2, Invariant, PTL DEF Spec, StagingIsPrivate

(* What a step of read r does to the generations.                          *)
Touches(r) ==
    \A g \in Generations :
       \/ holds'[g] = holds[g]
       \/ g = content[r] /\ pc[r] = "rename" /\ Complete(g)'
       \/ /\ holds'[g] \subseteq holds[g]
          /\ \/ g = content[r] /\ pc[r] = "replace"
             \/ g # content[r] /\ pc[r] = "supersede"

LEMMA OnlyShrinks ==
  ASSUME TypeOK, NEW e \in Entries \cup {None}, RemoveOne(e) \/ RemoveLast(e)
  PROVE  \A g \in Entries : holds'[g] \subseteq holds[g] /\ (g # e => holds'[g] = holds[g])
  BY DEF TypeOK, RemoveOne, RemoveLast, Entries

LEMMA StepTouches ==
  ASSUME IInv, NEW r \in Reads, Reuse(r) \/ Start(r) \/ Step(r) \/ Fail(r) \/ Skip(r) \/ Kill(r)
  PROVE  Touches(r)
  <1> TypeOK /\ Building(r) /\ Removing(r)
    BY DEF IInv
  <1> content[r] \in Generations /\ Generations \subseteq Entries
    BY DEF TypeOK, Entries
  <1>1. CASE \/ Reuse(r) \/ Start(r) \/ Begin(r) \/ Written(r) \/ MakeOwner(r) \/ Commit(r)
             \/ Inspect(r) \/ Place(r) \/ List(r) \/ Fail(r) \/ Skip(r) \/ Kill(r)
    <2>1. holds' = holds
      BY <1>1 DEF Reuse, Start, Begin, Written, MakeOwner, Commit, Inspect, Place, List, Fail, NotRenamed, Skip, SkipDoomed, SkipStaging, Kill, disk
    <2> QED
      BY <2>1 DEF Touches
  <1>2. CASE Stage(r) \/ Write(r)
    <2>1. \A g \in Generations : holds'[g] = holds[g]
      BY <1>2, GenerationAssumption DEF Stage, Write, Fresh, TypeOK, Staging, At, Entries
    <2> QED
      BY <2>1 DEF Touches
  <1>3. CASE Sweep(r) \/ Supersede(r)
    <2>1. PICK here \in {"sweep", "supersede"}, there \in {"stage", "done"} : RemoveDoomed(r, here, there)
      BY <1>3 DEF Sweep, Supersede
    <2>2. pc[r] = here
      BY <2>1 DEF RemoveDoomed, At
    <2>3. CASE holds' = holds
      BY <2>3 DEF Touches
    <2>4. ASSUME NEW e \in doomed[r], RemoveOne(e) \/ RemoveLast(e)
          PROVE  Touches(r)
      <3>1. e \in Entries
        BY DEF TypeOK
      <3>2. \A g \in Entries : holds'[g] \subseteq holds[g] /\ (g # e => holds'[g] = holds[g])
        BY <2>4, <3>1, OnlyShrinks
      <3>3. e \in Generations => pc[r] = "supersede" /\ e # content[r]
        BY <2>2, GenerationAssumption DEF Removing
      <3> QED
        BY <3>2, <3>3 DEF Touches
    <2> QED
      BY <2>1, <2>3, <2>4 DEF RemoveDoomed
  <1>4. CASE Replace(r)
    <2>1. \A g \in Entries : holds'[g] \subseteq holds[g] /\ (g # content[r] => holds'[g] = holds[g])
      BY <1>4, OnlyShrinks DEF Replace
    <2> QED
      BY <1>4, <2>1 DEF Touches, Replace, At
  <1>5. CASE Drop(r) \/ Rollback(r)
    <2>1. staging[r] \in Entries \cup {None} /\ staging[r] \notin Generations
      BY GenerationAssumption DEF TypeOK, Entries
    <2>2. \A g \in Entries : g # staging[r] => holds'[g] = holds[g]
      BY <1>5, <2>1, OnlyShrinks DEF Drop, Rollback
    <2> QED
      BY <2>1, <2>2 DEF Touches
  <1>6. CASE Rename(r)
    <2>1. /\ pc[r] = "rename" /\ staging[r] \in Stagings /\ content' = content
          /\ \/ holds' = holds
             \/ holds' = [holds EXCEPT ![content[r]] = holds[staging[r]], ![staging[r]] = {}]
      BY <1>6, Moves
    <2>2. \A g \in Generations : g # content[r] => holds'[g] = holds[g]
      BY <2>1, GenerationAssumption DEF TypeOK, Entries
    <2>3. holds'[content[r]] \in {holds[content[r]], holds[staging[r]]}
      BY <2>1, GenerationAssumption DEF TypeOK, Entries
    <2>4. Names \subseteq holds[staging[r]]
      BY <2>1 DEF Building
    <2>5. holds'[content[r]] = holds[content[r]] \/ Complete(content[r])'
      BY <2>1, <2>3, <2>4, GenerationAssumption DEF Complete
    <2> QED
      BY <2>1, <2>2, <2>5 DEF Touches, Complete
  <1> QED
    BY <1>1, <1>2, <1>3, <1>4, <1>5, <1>6 DEF Step

LEMMA EnvironmentTouches ==
  ASSUME TypeOK, SourceChanges \/ HourPasses \/ Damage \/ UNCHANGED vars
  PROVE  /\ UNCHANGED <<control, history>>
         /\ \A g \in Generations : holds'[g] \subseteq holds[g]
         /\ \/ holds' = holds
            \/ damages' = damages + 1
  BY DEF SourceChanges, HourPasses, Damage, vars, disk, control, history, TypeOK, Entries

(* A generation appears in one step, with every payload.                   *)
THEOREM AppearsWhole == ASSUME ~LiveAges PROVE Spec => PublishedWhole
  <1>1. ASSUME IInv, Next, NEW g \in Generations, ~Exists(g), Exists(g)'
        PROVE  Complete(g)'
    <2>1. holds[g] = {} /\ holds'[g] # {}
      BY <1>1, GenerationAssumption DEF Exists
    <2>2. ASSUME NEW r \in Reads, Reuse(r) \/ Start(r) \/ Step(r) \/ Fail(r) \/ Skip(r) \/ Kill(r)
          PROVE  Complete(g)'
      BY <1>1, <2>1, <2>2, StepTouches DEF Touches
    <2>3. ~(SourceChanges \/ HourPasses \/ Damage)
      BY <1>1, <2>1, EnvironmentTouches DEF IInv
    <2> QED
      BY <1>1, <2>2, <2>3 DEF Next
  <1>2. IInv /\ [Next]_vars
          => [\A g \in Generations : ~Exists(g) /\ Exists(g)' => Complete(g)']_vars
    BY <1>1
  <1> QED
    BY <1>2, Invariant, PTL DEF Spec, PublishedWhole

-----------------------------------------------------------------------------
(* What a read knows as long as no other has published or reused anything  *)
(* since it began: what it is replacing is not complete, and what it has   *)
(* published is what the layer refers to.                                  *)
Knows(r) ==
    Active(r) /\ r \notin outrun =>
        /\ pc[r] = "replace" => ~Complete(content[r])
        /\ pc[r] \in {"drop", "list", "supersede"} => latest = content[r]

(* A step of r completes no generation, or overtakes the reads at work.    *)
Overtakes(r) ==
    /\ outrun \ {r} \subseteq outrun'
    /\ \/ latest' = latest /\ \A g \in Generations : holds'[g] \subseteq holds[g]
       \/ \A q \in Reads \ {r} : Active(q) => q \in outrun'

LEMMA StepOvertakes ==
  ASSUME IInv, NEW r \in Reads, Reuse(r) \/ Start(r) \/ Step(r) \/ Fail(r) \/ Skip(r) \/ Kill(r)
  PROVE  Overtakes(r)
  <1> TypeOK
    BY DEF IInv
  <1>1. CASE Reuse(r) \/ Place(r)
    BY <1>1 DEF Reuse, Place, Agree, Overtakes, disk, history
  <1>2. CASE Rename(r) \/ NotRenamed(r)
    <2>1. CASE Agree(r, content[r])
      BY <2>1 DEF Agree, Overtakes
    <2>2. CASE ~Agree(r, content[r])
      BY <1>2, <2>2 DEF Rename, NotRenamed, Overtakes, disk, history
    <2> QED
      BY <2>1, <2>2
  <1>3. CASE Start(r) \/ Kill(r)
    BY <1>3 DEF Start, Kill, Still, history, Overtakes, disk
  <1>4. CASE ~(Reuse(r) \/ Place(r) \/ Rename(r) \/ NotRenamed(r) \/ Start(r) \/ Kill(r))
    <2>1. UNCHANGED history /\ pc[r] # "rename"
      BY <1>4 DEF Step, Fail, Skip, SkipDoomed, SkipStaging, Begin, MakeOwner, Sweep, Stage, Write,
                  Written, Commit, Inspect, Replace, Drop, List, Supersede, RemoveDoomed, Rollback, Still, At
    <2>2. \A g \in Generations : holds'[g] \subseteq holds[g]
      BY <2>1, StepTouches DEF Touches
    <2> QED
      BY <2>1, <2>2 DEF Overtakes, history
  <1> QED
    BY <1>1, <1>2, <1>3, <1>4

LEMMA OthersKnow ==
  ASSUME TypeOK, NEW r \in Reads, NEW q \in Reads \ {r}, Gentle(r), Overtakes(r), Knows(q)
  PROVE  Knows(q)'
  <1>1. pc'[q] = pc[q] /\ content'[q] = content[q] /\ content[q] \in Generations
    BY DEF Gentle, TypeOK
  <1> SUFFICES ASSUME Active(q)', q \notin outrun' PROVE Knows(q)'
    BY DEF Knows
  <1>2. /\ q \notin outrun /\ latest' = latest
        /\ \A g \in Generations : holds'[g] \subseteq holds[g]
    BY <1>1 DEF Overtakes, Active
  <1> QED
    BY <1>1, <1>2 DEF Knows, Active, Complete

(* What a read learns by its own steps.                                    *)
LEMMA OwnKnows ==
  ASSUME IInv, NEW r \in Reads, Knows(r),
         Reuse(r) \/ Start(r) \/ Step(r) \/ Fail(r) \/ Skip(r) \/ Kill(r)
  PROVE  Knows(r)'
  <1> TypeOK /\ Building(r) /\ content[r] \in Generations
    BY DEF IInv, TypeOK
  <1> USE DEF At, GoTo, Still, history
  <1>1. CASE Inspect(r)
    <2>1. /\ pc[r] = "inspect" /\ holds' = holds /\ content' = content
          /\ pc' = [pc EXCEPT ![r] = IF Exists(content[r]) /\ ~Intact(r) THEN "replace" ELSE "place"]
      BY <1>1 DEF Inspect, disk
    <2>2. Complete(staging[r])
      BY <2>1 DEF Building, Complete, TypeOK, Staging
    <2> QED
      BY <2>1, <2>2 DEF Knows, Intact, Complete, TypeOK
  <1>2. CASE Replace(r)
    <2>1. /\ pc[r] = "replace" /\ UNCHANGED <<content, outrun>>
          /\ pc' = pc \/ pc' = [pc EXCEPT ![r] = "place"]
      BY <1>2 DEF Replace
    <2>2. holds'[content[r]] \subseteq holds[content[r]]
      BY <1>2, OnlyShrinks DEF Replace, Entries
    <2> QED
      BY <2>1, <2>2 DEF Knows, Complete, Active, TypeOK, Rest
  <1>3. CASE Place(r) \/ Rename(r) \/ NotRenamed(r)
    <2>1. content' = content
      BY <1>3 DEF Place, Rename, NotRenamed
    <2>2. CASE Agree(r, content[r])
      <3>1. latest' = content[r] /\ pc'[r] # "replace"
        BY <1>3, <2>2 DEF Place, Rename, NotRenamed, Agree, TypeOK
      <3> QED
        BY <2>1, <3>1 DEF Knows
    <2>3. CASE ~Agree(r, content[r])
      BY <1>3, <2>3 DEF Place, Rename, NotRenamed, Knows, TypeOK
    <2> QED
      BY <2>2, <2>3
  <1>4. CASE Drop(r) \/ List(r) \/ Supersede(r) \/ Skip(r)
    <2>1. UNCHANGED <<content, latest, outrun>>
      BY <1>4 DEF Drop, List, Supersede, RemoveDoomed, Skip, SkipDoomed, SkipStaging
    <2>2. /\ pc'[r] # "replace" /\ pc[r] \notin Rest
          /\ pc'[r] \in {"drop", "list", "supersede"} => pc[r] \in {"drop", "list", "supersede"}
      BY <1>4 DEF Drop, List, Supersede, RemoveDoomed, Skip, SkipDoomed, SkipStaging, TypeOK, Rest
    <2> QED
      BY <2>1, <2>2 DEF Knows, Active
  <1>5. CASE \/ Reuse(r) \/ Start(r) \/ Begin(r) \/ MakeOwner(r) \/ Sweep(r) \/ Stage(r) \/ Write(r)
             \/ Written(r) \/ Commit(r) \/ Rollback(r) \/ (Fail(r) /\ ~NotRenamed(r)) \/ Kill(r)
    <2>1. pc'[r] \notin {"replace", "drop", "list", "supersede"}
      BY <1>5 DEF Reuse, Start, Begin, MakeOwner, Sweep, RemoveDoomed, Stage, Write, Written, Commit,
                  Rollback, Fail, Kill, TypeOK
    <2> QED
      BY <2>1 DEF Knows
  <1> QED
    BY <1>1, <1>2, <1>3, <1>4, <1>5 DEF Step, Fail

LEMMA KnowsInit == Init => \A r \in Reads : Knows(r)
  <1>1. Init => \A r \in Reads : pc[r] = "idle"
    BY DEF Init
  <1> QED
    BY <1>1 DEF Knows

LEMMA KnowsNext ==
  IInv /\ (\A r \in Reads : Knows(r)) /\ [Next]_vars => (\A r \in Reads : Knows(r))'
  <1> SUFFICES ASSUME IInv, \A r \in Reads : Knows(r), [Next]_vars, NEW q \in Reads PROVE Knows(q)'
    OBVIOUS
  <1> TypeOK
    BY DEF IInv
  <1>1. ASSUME NEW r \in Reads, Reuse(r) \/ Start(r) \/ Step(r) \/ Fail(r) \/ Skip(r) \/ Kill(r)
        PROVE  Knows(q)'
    BY <1>1, KeepsOwn, StepOvertakes, OthersKnow, OwnKnows
  <1>2. CASE SourceChanges \/ HourPasses \/ Damage \/ UNCHANGED vars
    <2>1. UNCHANGED <<pc, content, latest, outrun>> /\ content[q] \in Generations
      BY <1>2, EnvironmentTouches DEF control, history, TypeOK
    <2>2. \A g \in Generations : holds'[g] \subseteq holds[g]
      BY <1>2, EnvironmentTouches
    <2> QED
      BY <2>1, <2>2 DEF Knows, Active, Complete
  <1> QED
    BY <1>1, <1>2 DEF Next

(* Who makes a complete generation incomplete.                             *)
LEMMA WhoRemoves ==
  ASSUME IInv, Next, NEW g \in Generations, ~(Names \subseteq holds'[g]), Complete(g)
  PROVE  \/ damages' # damages
         \/ \E r \in Reads : \/ content[r] = g /\ pc[r] = "replace"
                             \/ content[r] # g /\ pc[r] = "supersede"
  <1>0. holds'[g] # holds[g] /\ damages \in Nat
    BY GenerationAssumption DEF Complete, IInv, TypeOK
  <1>1. ASSUME NEW r \in Reads, Reuse(r) \/ Start(r) \/ Step(r) \/ Fail(r) \/ Skip(r) \/ Kill(r)
        PROVE  \/ content[r] = g /\ pc[r] = "replace"
               \/ content[r] # g /\ pc[r] = "supersede"
    BY <1>0, <1>1, StepTouches DEF Touches, Complete
  <1>2. CASE SourceChanges \/ HourPasses \/ Damage
    BY <1>0, <1>2, EnvironmentTouches DEF IInv
  <1> QED
    BY <1>1, <1>2 DEF Next

(* What the reads of the layer last agreed on goes by damage only, or by a *)
(* read that another outran.                                               *)
THEOREM LatestStays == ASSUME ~LiveAges PROVE Spec => LatestKept
  <1>1. ASSUME IInv, \A r \in Reads : Knows(r), Next,
               Complete(latest), ~(latest # None /\ Names \subseteq holds'[latest])
        PROVE  \/ damages' # damages
               \/ \E r \in outrun : pc[r] \in {"replace", "supersede"}
    <2>1. latest \in Generations /\ ~(Names \subseteq holds'[latest])
      BY <1>1 DEF Complete, IInv, TypeOK
    <2>2. ASSUME NEW r \in Reads, \/ content[r] = latest /\ pc[r] = "replace"
                                  \/ content[r] # latest /\ pc[r] = "supersede"
          PROVE  r \in outrun
      BY <1>1, <2>2 DEF Knows, Active, Rest
    <2> QED
      BY <1>1, <2>1, <2>2, WhoRemoves
  <1>2. IInv /\ (\A r \in Reads : Knows(r)) /\ [Next]_vars
          => [Complete(latest) /\ ~(latest # None /\ Names \subseteq holds'[latest]) =>
                \/ damages' # damages
                \/ \E r \in outrun : pc[r] \in {"replace", "supersede"}]_vars
    BY <1>1
  <1> QED
    BY <1>2, InvInit, KnowsInit, InvNext, KnowsNext, PTL DEF Spec, LatestKept

(* A complete generation goes by damage, by a read of other content that   *)
(* has published its own, or by one replacing it that another outran.      *)
THEOREM CompleteStays == ASSUME ~LiveAges PROVE Spec => CompleteKept
  <1>1. ASSUME IInv, \A r \in Reads : Knows(r), Next, NEW g \in Generations,
               Complete(g), ~Complete(g)'
        PROVE  \/ damages' # damages
               \/ \E r \in Reads : pc[r] = "supersede" /\ content[r] # g
               \/ \E r \in outrun : pc[r] = "replace" /\ content[r] = g
    <2>1. ~(Names \subseteq holds'[g])
      BY <1>1 DEF Complete
    <2>2. ASSUME NEW r \in Reads, content[r] = g, pc[r] = "replace"
          PROVE  r \in outrun
      BY <1>1, <2>2 DEF Knows, Active, Rest
    <2> QED
      BY <1>1, <2>1, <2>2, WhoRemoves
  <1>2. IInv /\ (\A r \in Reads : Knows(r)) /\ [Next]_vars
          => [\A g \in Generations :
                Complete(g) /\ ~Complete(g)' =>
                  \/ damages' # damages
                  \/ \E r \in Reads : pc[r] = "supersede" /\ content[r] # g
                  \/ \E r \in outrun : pc[r] = "replace" /\ content[r] = g]_vars
    BY <1>1
  <1> QED
    BY <1>2, InvInit, KnowsInit, InvNext, KnowsNext, PTL DEF Spec, CompleteKept

=============================================================================
