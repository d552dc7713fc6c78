-------------------------- MODULE ConvertTransaction --------------------------
(***************************************************************************)
(* The publication protocol of usd-pointcloud-convert                      *)
(* (tools/usd-pointcloud-convert/main.cpp): invocations of the converter   *)
(* that name one output root, the files they leave beside it, and what a   *)
(* later invocation makes of them.                                         *)
(*                                                                         *)
(* The variables are the files themselves.  An action is one call that     *)
(* changes a file, or one step of a recursive removal, because the process *)
(* may be killed between any two of them.  The workspace is                *)
(*   <root>                 files.output       the published root layer    *)
(*   <root>.manifest        files.manifest     its sidecar                 *)
(*   <stem>.tmp.usda        files.tmpRoot                                  *)
(*   <root>.manifest.tmp    files.tmpManifest                              *)
(*   <payload directory>    payload[d]: the payloads and their list,       *)
(*                          tiles.manifest, "index" or, if its end was     *)
(*                          lost in a flush, "cut"                         *)
(*   <root>.transaction/    marker             with state and spool/       *)
(***************************************************************************)
EXTENDS Naturals, FiniteSets

CONSTANTS
    Procs,          \* converter processes
    Dirs,           \* the directories --payload-directory may name
    Inside,         \* those below the directory of the output root
    UserDirs,       \* those that hold somebody's files before any conversion
    CacheDir,       \* output-dir/payloads, the only one --cache-root accepts
    NoFile,         \* a path nothing exists at
    Torn,           \* the content of a state file that was never flushed
    Serial,         \* invocations of one output never overlap
    RemoveMayFail,  \* a removal may be refused (permissions, sharing violation)
    ShortWrites     \* the flush in an ofstream destructor may fail unseen

Contents == [dir : Dirs, whole : BOOLEAN]

ASSUME TransactionAssumption ==
    /\ Inside \subseteq Dirs
    /\ UserDirs \subseteq Dirs
    /\ CacheDir \in Inside
    /\ NoFile \notin Contents
    /\ Torn \notin Dirs
    /\ {Serial, RemoveMayFail, ShortWrites} \subseteq BOOLEAN

VARIABLES
    files,        \* the four files named above, or NoFile
    payload,      \* payload[d]: what directory d holds, {} if there is none
    marker,       \* what the transaction directory holds, {} if there is none
    stateDir,     \* the payload directory recorded in its state file, or Torn
    markedFor,    \* history: --payload-directory of the run that last made it
    pc,           \* where each process is
    dir,          \* its --payload-directory
    mode,         \* its way to the payloads: "direct", "cached" or "hit"
    target,       \* the payload directory it is removing
    interrupted   \* its SIGINT flag

workspace == <<files, payload, marker, stateDir, markedFor>>
control   == <<pc, dir, mode, target, interrupted>>
vars      == <<workspace, control>>

FileNames    == {"output", "manifest", "tmpRoot", "tmpManifest"}
PayloadParts == {"dir", "foreign", "some", "tiles", "index", "cut"}
MarkerParts  == {"dir", "state", "spool"}
Modes        == {"direct", "cached", "hit"}

(* A process that has not started, was killed, or returned 0, 1 or 2. *)
Rest == {"idle", "exit0", "exit1", "exit2"}

(* main() in its order; the removals of RecoverIncompleteTransaction start *)
(* with r, those of the cleanup lambda with c.                             *)
Recovering == {"rManifest", "rTmpRoot", "rTmpManifest", "rPayload", "rMarker"}
Cleaning   == {"cTmpRoot", "cTmpManifest", "cManifest", "cPayload", "cMarker"}
Building   == {"state", "flush", "layer", "spool", "payloads", "tiles",
               "generate", "save", "saving", "index", "export", "exporting",
               "copy", "copying", "manifest", "listing", "pubManifest",
               "pubRoot", "undoBegin", "undo", "undoTiles"}
Running    == Recovering \cup Cleaning \cup Building \cup
              {"prepare", "recover", "dropMarker", "check", "plan", "mark", "dropState",
               "dropLayer", "published", "cOutput", "finish"}

Active(p) == pc[p] \notin Rest
Complete(d) == {"tiles", "index"} \subseteq payload[d]
Present(d) == "tiles" \in payload[d] /\ payload[d] \cap {"index", "cut"} # {}

(* Every path holds a root, a sidecar or nothing, a directory only the     *)
(* parts a conversion can put there, and each process is at a point of     *)
(* main() (main.cpp 735-1257).                                             *)
TypeOK ==
    /\ files \in [FileNames -> Contents \cup {NoFile}]
    /\ payload \in [Dirs -> SUBSET PayloadParts]
    /\ marker \in SUBSET MarkerParts
    /\ stateDir \in Dirs \cup {Torn}
    /\ markedFor \in Dirs
    /\ pc \in [Procs -> Rest \cup Running]
    /\ dir \in [Procs -> Dirs]
    /\ mode \in [Procs -> Modes]
    /\ target \in [Procs -> Dirs]
    /\ interrupted \in [Procs -> BOOLEAN]

Init ==
    /\ files = [f \in FileNames |-> NoFile]
    /\ payload = [d \in Dirs |->
                    IF d \in UserDirs THEN {"dir", "foreign"} ELSE {}]
    /\ marker = {}
    /\ stateDir = Torn
    /\ markedFor = CacheDir
    /\ pc = [p \in Procs |-> "idle"]
    /\ dir = [p \in Procs |-> CacheDir]
    /\ mode = [p \in Procs |-> "direct"]
    /\ target = [p \in Procs |-> CacheDir]
    /\ interrupted = [p \in Procs |-> FALSE]

-----------------------------------------------------------------------------
At(p, here) == pc[p] = here
GoTo(p, there) == pc' = [pc EXCEPT ![p] = there]
KeepRun == UNCHANGED <<dir, mode, target, interrupted>>

(* A step that changes no file. *)
Pass(p, here, there) ==
    At(p, here) /\ GoTo(p, there) /\ KeepRun /\ UNCHANGED workspace

(* The user runs the converter with any payload directory, which begins    *)
(* with the source: PrepareSource fails before anything of the workspace   *)
(* is looked at.                                                           *)
Start(p) ==
    /\ ~Active(p)
    /\ Serial => \A q \in Procs : ~Active(q)
    /\ \E d \in Dirs : dir' = [dir EXCEPT ![p] = d]
    /\ interrupted' = [interrupted EXCEPT ![p] = FALSE]
    /\ GoTo(p, "prepare")
    /\ UNCHANGED <<workspace, mode, target>>

Prepare(p) == Pass(p, "prepare", "recover")

(* RecoverIncompleteTransaction: what it finds decides what it removes. *)
NothingToRecover(p) == marker = {} /\ Pass(p, "recover", "check")

PairComplete == files["output"] # NoFile /\ files["manifest"] # NoFile

KeepCompletedPair(p) ==
    marker # {} /\ PairComplete /\ Pass(p, "recover", "dropMarker")

RefuseRootWithoutManifest(p) ==
    /\ marker # {} /\ files["output"] # NoFile /\ files["manifest"] = NoFile
    /\ Pass(p, "recover", "exit2")

(* ReadTransactionPayloadDirectory: an absent state file means the         *)
(* directory this invocation was given.                                    *)
Recorded(p) == IF "state" \in marker THEN stateDir ELSE dir[p]

(* Mutant: the recorded line is trusted.                                   *)
RemovableUnchecked(p) == TRUE

Removable(p) ==
    Recorded(p) # Torn /\ (Recorded(p) = dir[p] \/ Recorded(p) \in Inside)

RefuseState(p) ==
    /\ marker # {} /\ files["output"] = NoFile /\ ~Removable(p)
    /\ Pass(p, "recover", "exit2")

(* Mutant: recovery leaves the sidecar.                                    *)
BeginRecoveryKeepingManifest(p) ==
    /\ At(p, "recover") /\ marker # {} /\ files["output"] = NoFile
    /\ Removable(p)
    /\ target' = [target EXCEPT ![p] = Recorded(p)]
    /\ GoTo(p, "rTmpRoot")
    /\ UNCHANGED <<workspace, dir, mode, interrupted>>

BeginRecovery(p) ==
    /\ At(p, "recover") /\ marker # {} /\ files["output"] = NoFile
    /\ Removable(p)
    /\ target' = [target EXCEPT ![p] = Recorded(p)]
    /\ GoTo(p, "rManifest")
    /\ UNCHANGED <<workspace, dir, mode, interrupted>>

(* Mutant: only the payload directory and the marker are looked at.        *)
TakenPayloadOnly(d) == payload[d] # {} \/ marker # {}

(* Mutant: an existing payload directory is accepted.                      *)
TakenIgnoringPayload(d) ==
    files["output"] # NoFile \/ files["manifest"] # NoFile \/ marker # {}

(* The output must not exist yet in any part. *)
Taken(d) ==
    \/ files["output"] # NoFile \/ files["manifest"] # NoFile
    \/ payload[d] # {} \/ marker # {}

RefuseTaken(p) == Taken(dir[p]) /\ Pass(p, "check", "exit2")
AcceptFree(p)  == ~Taken(dir[p]) /\ Pass(p, "check", "plan")

(* Opening the source, planning, and looking the cache up decide the mode. *)
Plan(p) ==
    /\ At(p, "plan")
    /\ \E m \in Modes :
          /\ m # "direct" => dir[p] = CacheDir
          /\ mode' = [mode EXCEPT ![p] = m]
    /\ GoTo(p, "mark")
    /\ UNCHANGED <<workspace, dir, target, interrupted>>

(* create_directory reports an existing directory as a failure. *)
CreateMarker(p) ==
    /\ At(p, "mark")
    /\ IF marker = {}
       THEN marker' = {"dir"} /\ markedFor' = dir[p] /\ GoTo(p, "state")
       ELSE UNCHANGED <<marker, markedFor>> /\ GoTo(p, "exit2")
    /\ KeepRun /\ UNCHANGED <<files, payload, stateDir>>

(* WriteTransactionState: the file exists, empty, until the stream that    *)
(* buffers its one line is destroyed.                                      *)
OpenState(p) ==
    /\ At(p, "state")
    /\ IF "dir" \in marker
       THEN /\ marker' = marker \cup {"state"}
            /\ stateDir' = Torn
            /\ GoTo(p, "flush")
       ELSE UNCHANGED <<marker, stateDir>> /\ GoTo(p, "dropState")
    /\ KeepRun /\ UNCHANGED <<files, payload, markedFor>>

FlushState(p) ==
    /\ At(p, "flush")
    /\ \/ stateDir' = dir[p]
       \/ ShortWrites /\ stateDir' = Torn
    /\ GoTo(p, "layer")
    /\ KeepRun /\ UNCHANGED <<files, payload, marker, markedFor>>

CreateLayer(p) ==
    Pass(p, "layer", IF mode[p] = "hit" THEN "export" ELSE "spool")

-----------------------------------------------------------------------------
(* The points at which main() or the authoring loop looks at the flag, and *)
(* where a cancelled conversion goes from each.                            *)
Polled == {"payloads", "tiles", "generate", "save", "pubManifest", "pubRoot",
           "published"}

(* Mutant: cleanup() where cleanup(true) is needed.                        *)
CancelToKeepingRoot(here) ==
    CASE here \in {"payloads", "generate"} -> "undoBegin"
      [] here = "tiles"                    -> "undo"
      [] OTHER                             -> "cTmpRoot"

CancelTo(here) ==
    CASE here \in {"payloads", "generate"} -> "undoBegin"
      [] here = "tiles"                    -> "undo"
      [] here = "published"                -> "cOutput"
      [] OTHER                             -> "cTmpRoot"

Unpolled(p) == pc[p] \in Polled => ~interrupted[p]

Cancel(p) ==
    /\ pc[p] \in Polled /\ interrupted[p]
    /\ GoTo(p, CancelTo(pc[p]))
    /\ KeepRun /\ UNCHANGED workspace

(* MakeSpoolDirectory creates <root>.transaction/spool and, if it has to,  *)
(* what is above it.                                                       *)
MakeSpool(p) ==
    /\ At(p, "spool")
    /\ marker' = marker \cup {"dir", "spool"}
    /\ GoTo(p, IF mode[p] = "cached" THEN "generate" ELSE "payloads")
    /\ KeepRun /\ UNCHANGED <<files, payload, stateDir, markedFor>>

(* PayloadGeneration::Begin without an owner refuses a payload that exists. *)
BeginPayloads(p) ==
    /\ At(p, "payloads") /\ Unpolled(p)
    /\ IF payload[dir[p]] \cap {"some", "tiles"} = {}
       THEN /\ payload' = [payload EXCEPT ![dir[p]] = @ \cup {"dir", "some"}]
            /\ GoTo(p, "tiles")
       ELSE UNCHANGED payload /\ GoTo(p, "undoBegin")
    /\ KeepRun /\ UNCHANGED <<files, marker, stateDir, markedFor>>

FinishPayloads(p) ==
    /\ At(p, "tiles") /\ Unpolled(p)
    /\ payload' = [payload EXCEPT ![dir[p]] =
                     (@ \ {"some"}) \cup {"dir", "tiles"}]
    /\ marker' = marker \ {"spool"}
    /\ GoTo(p, "save")
    /\ KeepRun /\ UNCHANGED <<files, stateDir, markedFor>>

(* With a cache the asset is authored and published in the cache; only the *)
(* spools are in this workspace.                                           *)
Generate(p) ==
    /\ At(p, "generate") /\ Unpolled(p)
    /\ marker' = marker \ {"spool"}
    /\ GoTo(p, "export")
    /\ KeepRun /\ UNCHANGED <<files, payload, stateDir, markedFor>>

(* A file is seen partly written before it is seen whole.                  *)
Open(p, here, f, there) ==
    /\ At(p, here) /\ Unpolled(p)
    /\ files' = [files EXCEPT ![f] = [dir |-> dir[p], whole |-> FALSE]]
    /\ GoTo(p, there)
    /\ KeepRun /\ UNCHANGED <<payload, marker, stateDir, markedFor>>

Close(p, here, f, checked, there) ==
    /\ At(p, here)
    /\ \/ files[f] # NoFile
          /\ files' = [files EXCEPT ![f] = [dir |-> @.dir, whole |-> TRUE]]
       \/ (files[f] = NoFile \/ (ShortWrites /\ ~checked)) /\ UNCHANGED files
    /\ GoTo(p, there)
    /\ KeepRun /\ UNCHANGED <<payload, marker, stateDir, markedFor>>

SaveRoot(p)      == Open(p, "save", "tmpRoot", "saving")
SavedRoot(p)     == Close(p, "saving", "tmpRoot", TRUE, "index")
ExportRoot(p)    == Open(p, "export", "tmpRoot", "exporting")
ExportedRoot(p)  == Close(p, "exporting", "tmpRoot", TRUE, "copy")
OpenManifest(p)  == Open(p, "manifest", "tmpManifest", "listing")
CloseManifest(p) == Close(p, "listing", "tmpManifest", FALSE, "pubManifest")

AddParts(p, here, parts, there) ==
    /\ At(p, here)
    /\ payload' = [payload EXCEPT ![dir[p]] = (@ \ {"some"}) \cup parts]
    /\ GoTo(p, there)
    /\ KeepRun /\ UNCHANGED <<files, marker, stateDir, markedFor>>

(* WriteTileManifest, which like WriteManifest looks at its stream before  *)
(* the destructor flushes it, and CopyDirectory of the cached payloads,    *)
(* whose list the conversion that made the entry wrote in the same way.    *)
Lists == IF ShortWrites THEN {"index", "cut"} ELSE {"index"}

WriteIndex(p) ==
    \E list \in Lists : AddParts(p, "index", {"dir", list}, "manifest")
StartCopy(p) == AddParts(p, "copy", {"dir", "some"}, "copying")
FinishCopy(p) ==
    \E list \in Lists :
        AddParts(p, "copying", {"dir", "tiles", list}, "manifest")

(* rename() replaces what is at the target.                                *)
Rename(p, here, from, to, there) ==
    /\ At(p, here) /\ Unpolled(p)
    /\ IF files[from] # NoFile
       THEN /\ files' = [files EXCEPT ![from] = NoFile, ![to] = files[from]]
            /\ GoTo(p, there)
       ELSE UNCHANGED files /\ GoTo(p, "cTmpRoot")
    /\ KeepRun /\ UNCHANGED <<payload, marker, stateDir, markedFor>>

PublishManifest(p) ==
    Rename(p, "pubManifest", "tmpManifest", "manifest", "pubRoot")
PublishRoot(p) == Rename(p, "pubRoot", "tmpRoot", "output", "published")

Keep(p) == Unpolled(p) /\ Pass(p, "published", "finish")

-----------------------------------------------------------------------------
(* Removals: RecoverIncompleteTransaction, the cleanup lambda, and the     *)
(* removal of the marker that ends each way through main().                *)
Victim ==
    [cOutput |-> "output", cTmpRoot |-> "tmpRoot",
     cTmpManifest |-> "tmpManifest", cManifest |-> "manifest",
     rManifest |-> "manifest", rTmpRoot |-> "tmpRoot",
     rTmpManifest |-> "tmpManifest"]

MarkerRemovals ==
    {"rMarker", "cMarker", "dropMarker", "dropState", "dropLayer", "finish"}

AfterRemoval ==
    [rManifest |-> "rTmpRoot", rTmpRoot |-> "rTmpManifest",
     rTmpManifest |-> "rPayload", rPayload |-> "rMarker",
     rMarker |-> "check", dropMarker |-> "check",
     cOutput |-> "cTmpRoot", cTmpRoot |-> "cTmpManifest",
     cTmpManifest |-> "cManifest", cManifest |-> "cPayload",
     cPayload |-> "cMarker", cMarker |-> "exit1",
     dropState |-> "exit2", dropLayer |-> "exit1", finish |-> "exit0"]

RemoveFile(p) ==
    /\ pc[p] \in DOMAIN Victim
    /\ files' = [files EXCEPT ![Victim[pc[p]]] = NoFile]
    /\ GoTo(p, AfterRemoval[pc[p]])
    /\ KeepRun /\ UNCHANGED <<payload, marker, stateDir, markedFor>>

(* remove_all removes what a directory holds, in any order, and then it.   *)
Doomed(p) == IF At(p, "rPayload") THEN target[p] ELSE dir[p]

RemovePayload(p) ==
    /\ pc[p] \in {"rPayload", "cPayload"}
    /\ \/ /\ \E part \in payload[Doomed(p)] \ {"dir"} :
                payload' = [payload EXCEPT ![Doomed(p)] = @ \ {part}]
          /\ UNCHANGED pc
       \/ /\ payload[Doomed(p)] \subseteq {"dir"}
          /\ payload' = [payload EXCEPT ![Doomed(p)] = {}]
          /\ GoTo(p, AfterRemoval[pc[p]])
    /\ KeepRun /\ UNCHANGED <<files, marker, stateDir, markedFor>>

RemoveMarker(p) ==
    /\ pc[p] \in MarkerRemovals
    /\ \/ /\ \E part \in marker \ {"dir"} : marker' = marker \ {part}
          /\ UNCHANGED pc
       \/ /\ marker \subseteq {"dir"}
          /\ marker' = {}
          /\ GoTo(p, AfterRemoval[pc[p]])
    /\ KeepRun /\ UNCHANGED <<files, payload, stateDir, markedFor>>

(* A failed AuthorPointCloudTiledAssetFromStream removes its spools, then  *)
(* the payloads it began and their directory if that leaves it empty.      *)
UndoSpool(p) ==
    /\ pc[p] \in {"undoBegin", "undo"}
    /\ marker' = marker \ {"spool"}
    /\ GoTo(p, IF At(p, "undo") THEN "undoTiles" ELSE "cTmpRoot")
    /\ KeepRun /\ UNCHANGED <<files, payload, stateDir, markedFor>>

UndoTiles(p) ==
    /\ At(p, "undoTiles")
    /\ LET left == payload[dir[p]] \ {"some", "tiles"}
       IN  payload' = [payload EXCEPT ![dir[p]] =
                         IF left = {"dir"} THEN {} ELSE left]
    /\ GoTo(p, "cTmpRoot")
    /\ KeepRun /\ UNCHANGED <<files, marker, stateDir, markedFor>>

-----------------------------------------------------------------------------
(* Mutants: errors return without cleanup; the last rename goes unchecked. *)
FailToReturning(here) == IF here = "mark" THEN "exit2" ELSE "exit1"
FailToUncheckedRename(here) == IF here = "pubRoot" THEN "finish" ELSE "cTmpRoot"

(* Faults.  A step that reports an error sends main() to its cleanup.      *)
FailTo(here) ==
    CASE here \in {"prepare", "plan"}       -> "exit1"
      [] here = "mark"                     -> "exit2"
      [] here \in {"state", "flush"}       -> "dropState"
      [] here = "layer"                    -> "dropLayer"
      [] here \in {"payloads", "generate"} -> "undoBegin"
      [] here = "tiles"                    -> "undo"
      [] OTHER                             -> "cTmpRoot"

Fallible ==
    (Building \cup {"prepare", "plan", "mark"})
        \ {"undoBegin", "undo", "undoTiles"}

StepFails(p) ==
    /\ pc[p] \in Fallible
    /\ GoTo(p, FailTo(pc[p]))
    /\ KeepRun /\ UNCHANGED workspace

(* Arguments are refused with 2: the options before the workspace is       *)
(* looked at, their values (NormalizeFileFormatArguments) after that.      *)
RefuseArguments(p) == \E here \in {"prepare", "plan"} : Pass(p, here, "exit2")

(* A removal that is refused stops a recovery; every other caller goes on  *)
(* without looking at the error.                                           *)
RemoveFails(p) ==
    /\ RemoveMayFail
    /\ \/ pc[p] \in DOMAIN Victim /\ files[Victim[pc[p]]] # NoFile
       \/ pc[p] \in {"rPayload", "cPayload"} /\ payload[Doomed(p)] # {}
       \/ pc[p] \in MarkerRemovals /\ marker # {}
    /\ GoTo(p, IF pc[p] \in Recovering \cup {"dropMarker"}
               THEN "exit2" ELSE AfterRemoval[pc[p]])
    /\ KeepRun /\ UNCHANGED workspace

(* SIGINT once the handler is installed; before that, and for every other  *)
(* signal or power loss, the process is gone and the files stay.           *)
Interrupt(p) ==
    /\ pc[p] \in (Building \cup {"published", "finish", "mark"})
    /\ ~interrupted[p]
    /\ interrupted' = [interrupted EXCEPT ![p] = TRUE]
    /\ UNCHANGED <<workspace, pc, dir, mode, target>>

Kill(p) ==
    /\ Active(p)
    /\ GoTo(p, "idle")
    /\ KeepRun /\ UNCHANGED workspace

-----------------------------------------------------------------------------
Recovery(p) ==
    \/ NothingToRecover(p) \/ KeepCompletedPair(p)
    \/ RefuseRootWithoutManifest(p) \/ RefuseState(p) \/ BeginRecovery(p)

Setup(p) ==
    \/ Prepare(p) \/ RefuseTaken(p) \/ AcceptFree(p) \/ Plan(p) \/ CreateMarker(p)
    \/ OpenState(p) \/ FlushState(p) \/ CreateLayer(p)

Author(p) ==
    \/ MakeSpool(p) \/ BeginPayloads(p) \/ FinishPayloads(p) \/ Generate(p)
    \/ SaveRoot(p) \/ SavedRoot(p) \/ WriteIndex(p)
    \/ ExportRoot(p) \/ ExportedRoot(p) \/ StartCopy(p) \/ FinishCopy(p)

Publish(p) ==
    \/ OpenManifest(p) \/ CloseManifest(p) \/ PublishManifest(p)
    \/ PublishRoot(p) \/ Keep(p)

Remove(p) ==
    \/ RemoveFile(p) \/ RemovePayload(p) \/ RemoveMarker(p)
    \/ UndoSpool(p) \/ UndoTiles(p)

Step(p) ==
    Recovery(p) \/ Setup(p) \/ Author(p) \/ Publish(p) \/ Cancel(p) \/ Remove(p)

Fault(p) ==
    \/ StepFails(p) \/ RefuseArguments(p) \/ RemoveFails(p)
    \/ Interrupt(p) \/ Kill(p)

Next == \E p \in Procs : Start(p) \/ Step(p) \/ Fault(p)

Spec == Init /\ [][Next]_vars

(* The user retries until it works and main() never waits for another      *)
(* process.  In the end nothing goes wrong any more, and what was          *)
(* interrupted is retried with the arguments it had.                       *)
Retry(p) == Start(p) /\ (marker # {} => dir'[p] = markedFor)

RetrySpec ==
    /\ Spec
    /\ \A p \in Procs : WF_vars(Retry(p)) /\ WF_vars(Step(p))
    /\ <>[][\A p \in Procs : ~Fault(p) /\ (Start(p) => Retry(p))]_vars

-----------------------------------------------------------------------------
(* A published root comes with the sidecar written before it, and both     *)
(* name a payload directory that holds every payload and the tile manifest *)
(* - between any two steps of a conversion, of its cancellation after the  *)
(* root was renamed into place, of a kill and of the next run's recovery   *)
(* ("no partially published root asset after failure").                    *)
Backed ==
    /\ files["output"] # NoFile /\ files["output"].whole
    /\ files["manifest"] # NoFile /\ files["manifest"].whole
    /\ files["manifest"].dir = files["output"].dir
    /\ Complete(files["output"].dir)

PublishedRootIsBacked == files["output"] # NoFile => Backed

(* What somebody who only looks at the output path sees is AtomicPublish:  *)
(* all of the asset appears at once, may be withdrawn by its own run until *)
(* the transaction marker is gone, and is final after that.                *)
Asset ==
    IF files["output"] = NoFile THEN "absent"
    ELSE IF ~Backed THEN "broken"
    ELSE IF marker = {} THEN "final" ELSE "published"

Publication == INSTANCE AtomicPublish WITH asset <- Asset
PublishesAtomically == Publication!Spec

(* A conversion that got past opening its source and reports failure with  *)
(* 1 leaves nothing behind: whatever step failed or was cancelled, the     *)
(* next run of the same command starts from a free workspace.  (A source   *)
(* that cannot be prepared is reported with 1 too, main.cpp:750, before    *)
(* recovery: that run leaves the workspace as it found it.)                *)
FailureLeavesNothing ==
    [][\A p \in Procs :
         pc[p] \notin {"prepare", "exit1"} /\ pc'[p] = "exit1"
            => ~Taken(dir[p])']_vars

(* A conversion that returns 0 has its own whole root, its sidecar and all *)
(* its payloads with their list in place, even if removals of earlier      *)
(* cleanups and recoveries of the same output were refused; what may be    *)
(* missing is the end of the sidecar and the end of the list, each if the  *)
(* flush in its stream's destructor failed.                                *)
SuccessMeansPublished ==
    [][\A p \in Procs : pc[p] # "exit0" /\ pc'[p] = "exit0" =>
         /\ files'["output"] = [dir |-> dir[p], whole |-> TRUE]
         /\ files'["manifest"] # NoFile /\ files'["manifest"].dir = dir[p]
         /\ Present(dir[p])']_vars

(* "Completed root and manifest pairs are left intact": once the marker of *)
(* the conversion that published a pair is gone, no later invocation       *)
(* changes the pair or its payloads, or makes a marker beside it that      *)
(* would let one.                                                          *)
CompletedPairKept ==
    [][PairComplete /\ marker = {} => UNCHANGED <<files, payload, marker>>]_vars

(* A payload directory somebody else filled is refused, never emptied, by  *)
(* any conversion, cleanup or recovery but one: recovering from a run that *)
(* recorded no directory removes the one it was given itself.              *)
UserDataKept ==
    [][\A d \in Dirs :
         "foreign" \in payload[d] /\ "foreign" \notin payload'[d] =>
            \E p \in Procs : /\ At(p, "rPayload") /\ target[p] = d
                             /\ dir[p] = d /\ "state" \notin marker]_vars

(* Retrying a conversion that was killed, cancelled or failed any number   *)
(* of times delivers the asset for good, unless a kill tore the state file *)
(* of its marker.                                                          *)
EventuallyDelivered ==
    <>[](Asset = "final" \/ ("state" \in marker /\ stateDir = Torn))

=============================================================================
