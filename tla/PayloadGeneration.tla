--------------------------- MODULE PayloadGeneration ---------------------------
(***************************************************************************)
(* Owned payload generations                                               *)
(* (libs/usd-pointcloud-authoring/src/PayloadGeneration.cpp): FileFormat   *)
(* reads of one layer, in one or several processes, that publish their     *)
(* payloads below <payload directory>/<owner>/.                            *)
(*                                                                         *)
(* A generation is named after its content, so the module identifies the   *)
(* two.  Directories are removed file by file and by name, so what another *)
(* read put under the name meanwhile goes as well.                         *)
(***************************************************************************)
EXTENDS Naturals, FiniteSets

CONSTANTS
    Reads,        \* processes that read the layer
    Generations,  \* the contents the layer's source may have
    Cached,       \* those copied from a cache entry, c-<key>; the rest are g-<hash>
    Names,        \* the payload files of each
    Stagings,     \* the .tmp-<token> directories there is room for
    None,         \* no generation or staging directory
    LiveAges,     \* a live staging directory may be left alone for an hour
    MaxDamage     \* how often somebody else deletes a published file

ASSUME GenerationAssumption ==
    /\ None \notin Generations \cup Stagings
    /\ Generations \cap Stagings = {}
    /\ Cached \subseteq Generations
    /\ Names # {} /\ "." \notin Names
    /\ MaxDamage \in Nat
    /\ LiveAges \in BOOLEAN

VARIABLES
    source,    \* the content a read that starts now will generate
    owner,     \* the owner directory exists
    holds,     \* what a generation or staging directory holds, "." for itself
    aged,      \* staging directories untouched for kStaleStagingAge
    pc,        \* where each read is
    content,   \* the generation it builds
    staging,   \* its stagingDirectory_
    todo,      \* the payloads it has still to write
    doomed,    \* directories it has listed for removal
    made,      \* its ownerDirectoryCreated_
    damages,   \* how often a published file was deleted
    latest,    \* history: the generation published, kept or reused last
    outrun     \* history: reads during which another one did so

disk    == <<owner, holds, aged>>
control == <<pc, content, staging, todo, doomed, made>>
history == <<latest, outrun>>
vars    == <<source, disk, control, history, damages>>

Entries == Generations \cup Stagings
Rest    == {"idle", "done", "failed"}
Work    == {"begin", "make", "sweep", "stage", "write", "commit", "inspect", "replace",
            "place", "rename", "drop", "list", "supersede", "rollback"}
Staging == {"write", "commit", "inspect", "replace", "place", "rename", "drop"}

(* The variables keep their types, and a read has a staging directory from *)
(* Begin until Publish clears stagingDirectory_.                           *)
TypeOK ==
    /\ source \in Generations
    /\ owner \in BOOLEAN
    /\ holds \in [Entries -> SUBSET (Names \cup {"."})]
    /\ aged \in SUBSET Stagings
    /\ pc \in [Reads -> Rest \cup Work]
    /\ content \in [Reads -> Generations]
    /\ staging \in [Reads -> Stagings \cup {None}]
    /\ \A r \in Reads : pc[r] \in Staging => staging[r] # None
    /\ \A r \in Reads : pc[r] \notin Staging \cup {"rollback"} => staging[r] = None
    /\ todo \in [Reads -> SUBSET Names]
    /\ doomed \in [Reads -> SUBSET Entries]
    /\ made \in [Reads -> BOOLEAN]
    /\ latest \in Generations \cup {None}
    /\ outrun \in SUBSET Reads
    /\ damages \in 0..MaxDamage

Exists(e)   == e # None /\ holds[e] # {}
Complete(e) == e # None /\ Names \subseteq holds[e]
Active(r)   == pc[r] \notin Rest

Init ==
    /\ source \in Generations
    /\ owner = FALSE
    /\ holds = [e \in Entries |-> {}]
    /\ aged = {}
    /\ pc = [r \in Reads |-> "idle"]
    /\ content \in [Reads -> {source}]
    /\ staging = [r \in Reads |-> None]
    /\ todo = [r \in Reads |-> {}]
    /\ doomed = [r \in Reads |-> {}]
    /\ made = [r \in Reads |-> FALSE]
    /\ latest = None
    /\ outrun = {}
    /\ damages = 0

-----------------------------------------------------------------------------
At(r, here) == pc[r] = here
GoTo(r, there) == pc' = [pc EXCEPT ![r] = there]
Still == UNCHANGED <<source, history, damages>>

(* Generation n is what the layer of read r refers to now.                 *)
Agree(r, n) ==
    /\ latest' = n
    /\ outrun' = outrun \cup {q \in Reads \ {r} : Active(q)}

(* A cache hit whose copy is there with every file of the right size.      *)
HoldsCachedCopy(g) == g \in Cached /\ Complete(g)

Reuse(r) ==
    /\ ~Active(r)
    /\ HoldsCachedCopy(source)
    /\ content' = [content EXCEPT ![r] = source]
    /\ Agree(r, source)
    /\ GoTo(r, "done")
    /\ UNCHANGED <<source, damages, disk, staging, todo, doomed, made>>

(* Otherwise a read generates, or copies, what the source holds by now.    *)
Start(r) ==
    /\ ~Active(r)
    /\ ~HoldsCachedCopy(source)
    /\ content' = [content EXCEPT ![r] = source]
    /\ todo' = [todo EXCEPT ![r] = Names]
    /\ outrun' = outrun \ {r}
    /\ GoTo(r, "begin")
    /\ UNCHANGED <<source, latest, damages, disk, staging, doomed, made>>

(* Mutant: an owner directory that is there is taken as it is.             *)
BeginUnswept(r) ==
    /\ At(r, "begin")
    /\ doomed' = [doomed EXCEPT ![r] = {}]
    /\ GoTo(r, IF owner THEN "stage" ELSE "make")
    /\ Still /\ UNCHANGED <<disk, content, staging, todo, made>>

(* Begin: an existing owner directory is swept, a missing one is created.  *)
Begin(r) ==
    /\ At(r, "begin")
    /\ doomed' = [doomed EXCEPT ![r] = {s \in aged : Exists(s)}]
    /\ GoTo(r, IF owner THEN "sweep" ELSE "make")
    /\ Still /\ UNCHANGED <<disk, content, staging, todo, made>>

MakeOwner(r) ==
    /\ At(r, "make")
    /\ owner' = TRUE
    /\ made' = [made EXCEPT ![r] = TRUE]
    /\ GoTo(r, "stage")
    /\ Still /\ UNCHANGED <<holds, aged, content, staging, todo, doomed>>

(* remove_all on directory e: its files one by one, and at last itself.    *)
RemoveOne(e) == \E n \in holds[e] \ {"."} : holds' = [holds EXCEPT ![e] = @ \ {n}]

RemoveLast(e) ==
    /\ e # None => holds[e] \subseteq {"."}
    /\ holds' = [g \in Entries |-> IF g = e THEN {} ELSE holds[g]]

(* Removing the directories of doomed, RemoveStaleStaging's or Publish's.  *)
RemoveDoomed(r, here, there) ==
    /\ At(r, here)
    /\ \/ (\E e \in doomed[r] : RemoveOne(e)) /\ UNCHANGED <<pc, doomed>>
       \/ /\ \E e \in doomed[r] :
                RemoveLast(e) /\ doomed' = [doomed EXCEPT ![r] = @ \ {e}]
          /\ UNCHANGED pc
       \/ doomed[r] = {} /\ GoTo(r, there) /\ UNCHANGED <<holds, doomed>>
    /\ Still /\ UNCHANGED <<owner, aged, content, staging, todo, made>>

Sweep(r) == RemoveDoomed(r, "sweep", "stage")

Live(s) == \E r \in Reads : Active(r) /\ staging[r] = s

(* Mutant: a directory create_directory finds there already will do.       *)
FreshOrShared == {s \in Stagings : \A r \in Reads : s \notin doomed[r]}

(* A 64-bit token nobody has met, the bound being the directories at hand. *)
Fresh == {s \in Stagings : /\ ~Exists(s) /\ ~Live(s)
                           /\ \A r \in Reads : s \notin doomed[r]}

(* A staging directory of its own inside the owner.                        *)
Stage(r) ==
    /\ At(r, "stage")
    /\ IF owner /\ Fresh # {}
       THEN \E s \in Fresh :
              /\ holds' = [holds EXCEPT ![s] = {"."}]
              /\ staging' = [staging EXCEPT ![r] = s]
              /\ aged' = aged \ {s}
              /\ GoTo(r, "write")
       ELSE UNCHANGED <<holds, staging, aged>> /\ GoTo(r, "rollback")
    /\ Still /\ UNCHANGED <<owner, content, todo, doomed, made>>

(* One payload, exported or copied; a directory that is gone is made again. *)
Write(r) ==
    /\ At(r, "write")
    /\ \E n \in todo[r] :
          /\ holds' = [holds EXCEPT ![staging[r]] = @ \cup {".", n}]
          /\ todo' = [todo EXCEPT ![r] = @ \ {n}]
    /\ owner' = TRUE
    /\ aged' = aged \ {staging[r]}
    /\ Still /\ UNCHANGED <<pc, content, staging, doomed, made>>

Written(r) ==
    /\ At(r, "write") /\ todo[r] = {}
    /\ GoTo(r, "commit")
    /\ Still /\ UNCHANGED <<disk, content, staging, todo, doomed, made>>

(* Commit: every payload is there and is read for the hash; CommitAs, for a *)
(* copy, does not look.                                                     *)
Commit(r) ==
    /\ At(r, "commit")
    /\ GoTo(r, IF content[r] \in Cached \/ Complete(staging[r]) THEN "inspect" ELSE "rollback")
    /\ Still /\ UNCHANGED <<disk, content, staging, todo, doomed, made>>

(* IsComplete compares the published files with the staged ones.           *)
Intact(r) == Complete(content[r]) /\ Complete(staging[r])

(* Mutant: a generation of this name is always replaced.                   *)
InspectNothing(r) ==
    /\ At(r, "inspect")
    /\ GoTo(r, IF Exists(content[r]) THEN "replace" ELSE "place")
    /\ Still /\ UNCHANGED <<disk, content, staging, todo, doomed, made>>

(* Publish: a generation of this name that is not complete is replaced.    *)
Inspect(r) ==
    /\ At(r, "inspect")
    /\ GoTo(r, IF Exists(content[r]) /\ ~Intact(r) THEN "replace" ELSE "place")
    /\ Still /\ UNCHANGED <<disk, content, staging, todo, doomed, made>>

Replace(r) ==
    /\ At(r, "replace")
    /\ \/ RemoveOne(content[r]) /\ UNCHANGED pc
       \/ RemoveLast(content[r]) /\ GoTo(r, "place")
    /\ Still /\ UNCHANGED <<owner, aged, content, staging, todo, doomed, made>>

(* The second exists() chooses between keeping and renaming.               *)
Place(r) ==
    /\ At(r, "place")
    /\ IF Exists(content[r])
       THEN GoTo(r, "drop") /\ Agree(r, content[r])
       ELSE GoTo(r, "rename") /\ UNCHANGED history
    /\ UNCHANGED <<source, damages, disk, content, staging, todo, doomed, made>>

(* Mutant: stagingDirectory_ is not cleared.                               *)
RenameKeepingStaging(r) ==
    /\ At(r, "rename")
    /\ Exists(staging[r]) /\ holds[content[r]] \subseteq {"."}
    /\ holds' = [holds EXCEPT ![content[r]] = holds[staging[r]], ![staging[r]] = {}]
    /\ Agree(r, content[r])
    /\ GoTo(r, "list")
    /\ UNCHANGED <<source, damages, owner, aged, content, staging, todo, doomed, made>>

(* A rename that fails: a complete generation somebody else has published  *)
(* meanwhile will do.                                                      *)
NotRenamed(r) ==
    /\ At(r, "rename")
    /\ IF Intact(r) THEN Agree(r, content[r]) /\ GoTo(r, "drop")
                    ELSE UNCHANGED history /\ GoTo(r, "rollback")
    /\ UNCHANGED <<source, damages, disk, content, staging, todo, doomed, made>>

(* rename() needs the staging directory, and a target with no file in it.  *)
Rename(r) ==
    LET n == content[r]
        s == staging[r]
    IN IF Exists(s) /\ holds[n] \subseteq {"."}
       THEN /\ At(r, "rename")
            /\ holds' = [holds EXCEPT ![n] = holds[s], ![s] = {}]
            /\ staging' = [staging EXCEPT ![r] = None]
            /\ Agree(r, n)
            /\ GoTo(r, "list")
            /\ UNCHANGED <<source, damages, owner, aged, content, todo, doomed, made>>
       ELSE NotRenamed(r)

Drop(r) ==
    /\ At(r, "drop")
    /\ \/ RemoveOne(staging[r]) /\ UNCHANGED <<pc, staging>>
       \/ /\ RemoveLast(staging[r])
          /\ staging' = [staging EXCEPT ![r] = None]
          /\ GoTo(r, "list")
    /\ Still /\ UNCHANGED <<owner, aged, content, todo, doomed, made>>

(* Mutant: the generation just published is not exempt.                    *)
ListAll(r) ==
    /\ At(r, "list")
    /\ doomed' = [doomed EXCEPT ![r] = {n \in Generations : Exists(n)}]
    /\ made' = [made EXCEPT ![r] = FALSE]
    /\ GoTo(r, "supersede")
    /\ Still /\ UNCHANGED <<disk, content, staging, todo>>

(* Every other generation of the owner counts as superseded.               *)
List(r) ==
    /\ At(r, "list")
    /\ doomed' = [doomed EXCEPT ![r] =
                    {n \in Generations \ {content[r]} : Exists(n)}]
    /\ made' = [made EXCEPT ![r] = FALSE]
    /\ GoTo(r, "supersede")
    /\ Still /\ UNCHANGED <<disk, content, staging, todo>>

Supersede(r) == RemoveDoomed(r, "supersede", "done")

(* Rollback: the staging directory, then an owner directory of its own if  *)
(* that is empty.                                                          *)
Rollback(r) ==
    /\ At(r, "rollback")
    /\ \/ /\ Exists(staging[r])
          /\ RemoveOne(staging[r])
          /\ UNCHANGED <<pc, owner, staging, made>>
       \/ /\ RemoveLast(staging[r])
          /\ owner' = (owner /\ ~(made[r] /\ \A e \in Entries : holds'[e] = {}))
          /\ made' = [made EXCEPT ![r] = FALSE]
          /\ staging' = [staging EXCEPT ![r] = None]
          /\ GoTo(r, "failed")
    /\ Still /\ UNCHANGED <<aged, content, todo, doomed>>

(* A directory cannot be made, the author reports an error or is cancelled, *)
(* a payload cannot be read back, a damaged generation cannot be removed -  *)
(* or a rename fails for reasons of its own.                                *)
Fail(r) ==
    \/ /\ pc[r] \in {"make", "stage", "write", "commit", "replace"}
       /\ GoTo(r, "rollback")
       /\ Still /\ UNCHANGED <<disk, content, staging, todo, doomed, made>>
    \/ NotRenamed(r)

(* A removal that is refused: best effort, the read goes on without it.    *)
SkipDoomed(r) ==
    /\ pc[r] \in {"sweep", "supersede"}
    /\ \E e \in doomed[r] : doomed' = [doomed EXCEPT ![r] = @ \ {e}]
    /\ Still /\ UNCHANGED <<disk, pc, content, staging, todo, made>>

SkipStaging(r) ==
    /\ pc[r] \in {"drop", "rollback"}
    /\ GoTo(r, IF At(r, "drop") THEN "list" ELSE "failed")
    /\ staging' = [staging EXCEPT ![r] = None]
    /\ made' = [made EXCEPT ![r] = FALSE]
    /\ Still /\ UNCHANGED <<disk, content, todo, doomed>>

Skip(r) == SkipDoomed(r) \/ SkipStaging(r)

(* The process is gone; its staging directory stays.                       *)
Kill(r) ==
    /\ Active(r)
    /\ GoTo(r, "idle")
    /\ staging' = [staging EXCEPT ![r] = None]
    /\ made' = [made EXCEPT ![r] = FALSE]
    /\ todo' = [todo EXCEPT ![r] = {}]
    /\ doomed' = [doomed EXCEPT ![r] = {}]
    /\ Still /\ UNCHANGED <<disk, content>>

-----------------------------------------------------------------------------
(* The environment.                                                        *)
SourceChanges ==
    /\ source' \in Generations \ {source}
    /\ UNCHANGED <<disk, control, history, damages>>

HourPasses ==
    /\ \E s \in Stagings \ aged :
          /\ Exists(s)
          /\ Live(s) => LiveAges
          /\ aged' = aged \cup {s}
    /\ UNCHANGED <<source, owner, holds, control, history, damages>>

Damage ==
    /\ damages < MaxDamage
    /\ \E g \in Generations, n \in Names :
          /\ n \in holds[g]
          /\ holds' = [holds EXCEPT ![g] = @ \ {n}]
    /\ damages' = damages + 1
    /\ UNCHANGED <<source, owner, aged, control, history>>

Step(r) ==
    \/ Begin(r) \/ MakeOwner(r) \/ Sweep(r) \/ Stage(r) \/ Write(r) \/ Written(r) \/ Commit(r)
    \/ Inspect(r) \/ Replace(r) \/ Place(r) \/ Rename(r) \/ Drop(r)
    \/ List(r) \/ Supersede(r) \/ Rollback(r)

Next ==
    \/ \E r \in Reads : Reuse(r) \/ Start(r) \/ Step(r) \/ Fail(r) \/ Skip(r) \/ Kill(r)
    \/ SourceChanges \/ HourPasses \/ Damage

Spec == Init /\ [][Next]_vars

(* A read runs on by itself, the layer is read again and again, hours pass *)
(* and in the end no process is killed and no removal refused.             *)
FairSpec ==
    /\ Spec
    /\ \A r \in Reads : WF_vars(Start(r)) /\ WF_vars(Step(r))
    /\ WF_vars(HourPasses)
    /\ <>[][~\E r \in Reads : Kill(r) \/ Skip(r)]_vars

-----------------------------------------------------------------------------
(* A generation is whole from the step that makes it visible.              *)
PublishedWhole ==
    [][\A g \in Generations : ~Exists(g) /\ Exists(g)' => Complete(g)']_vars

(* A complete generation loses a file only to somebody else, to a read of  *)
(* other content that supersedes it, or to one that found it damaged and   *)
(* was outrun by another that has replaced it since: "identical content    *)
(* reuses the published generation".                                       *)
CompleteKept ==
    [][\A g \in Generations :
         Complete(g) /\ ~Complete(g)' =>
           \/ damages' # damages
           \/ \E r \in Reads : pc[r] = "supersede" /\ content[r] # g
           \/ \E r \in outrun : pc[r] = "replace" /\ content[r] = g]_vars

(* What the reads of the layer last agreed on stays, but for damage and    *)
(* reads that began before: "changed content is published beside it before *)
(* the superseded one is removed".                                         *)
LatestKept ==
    [][Complete(latest) /\ ~(latest # None /\ Names \subseteq holds'[latest]) =>
         \/ damages' # damages
         \/ \E r \in outrun : pc[r] \in {"replace", "supersede"}]_vars

Stages(r) == pc[r] \in {"write", "commit"} /\ pc'[r] \in {"write", "commit", "inspect"}

(* A read in progress keeps the staging directory it writes into.          *)
StagingIsPrivate ==
    [][\A r \in Reads : Stages(r) => holds[staging[r]] \subseteq holds'[staging[r]]]_vars

(* No staging directory of an interrupted read stays for ever, as long as  *)
(* reads still generate: one that reuses a copied entry removes nothing.   *)
Leftover(s) == Exists(s) /\ ~Live(s)
LeftoversSwept ==
    \A s \in Stagings : Leftover(s) ~> (~Leftover(s) \/ HoldsCachedCopy(source))

=============================================================================
