----------------------- MODULE ConvertTransactionProofs -----------------------
(***************************************************************************)
(* Proofs about ConvertTransaction, for any number of converter processes  *)
(* and payload directories.  Its safety rests on two facts: a root is only *)
(* at the output path together with everything it needs, and a run that is *)
(* about to remove or overwrite any of that knows that no root is there.   *)
(* What follows them is what the exit status of a conversion says about    *)
(* the files, and what no conversion removes; most of that also holds      *)
(* where removals may be refused and flushes lost.                         *)
(***************************************************************************)
EXTENDS ConvertTransaction, TLAPS

(* The environment the promise is made for; runs that drop one of these    *)
(* show what it costs.                                                     *)
Reliable == Serial /\ ~RemoveMayFail /\ ~ShortWrites

Alone == \A p, q \in Procs : Active(p) /\ Active(q) => p = q

(* Where a run has seen, or made, the output path empty. *)
Unpublished ==
    Recovering \cup Cleaning \cup Building \cup
    {"plan", "mark", "dropState", "dropLayer"}

Own(p, w) == [dir |-> dir[p], whole |-> w]

Phase(p) ==
    /\ pc[p] \in Unpublished => files["output"] = NoFile
    /\ pc[p] \in Building \cup {"published", "cOutput"} => "dir" \in marker
    /\ pc[p] \in {"saving", "exporting"} => files["tmpRoot"] = Own(p, FALSE)
    /\ pc[p] \in {"index", "copy", "copying", "manifest", "listing",
                  "pubManifest", "pubRoot"} => files["tmpRoot"] = Own(p, TRUE)
    /\ pc[p] = "listing" => files["tmpManifest"] = Own(p, FALSE)
    /\ pc[p] = "pubManifest" => files["tmpManifest"] = Own(p, TRUE)
    /\ pc[p] = "pubRoot" => files["manifest"] = Own(p, TRUE)
    /\ pc[p] \in {"save", "saving", "index"} => "tiles" \in payload[dir[p]]
    /\ pc[p] \in {"manifest", "listing", "pubManifest", "pubRoot"}
         => Complete(dir[p])

IInv == TypeOK /\ Alone /\ PublishedRootIsBacked /\ \A p \in Procs : Phase(p)

USE TransactionAssumption

-----------------------------------------------------------------------------
(* Type correctness, for every environment. *)

(* The workspace before the first conversion is well typed. *)
LEMMA TypeInit == Init => TypeOK
  BY DEF Init, TypeOK, FileNames, Contents, PayloadParts, MarkerParts, Modes,
         Rest

(* Start and what precedes the marker. *)
LEMMA TypeSetup ==
  ASSUME TypeOK, NEW p \in Procs, Start(p) \/ Recovery(p) \/ Setup(p)
  PROVE  TypeOK'
  <1> USE DEF TypeOK, GoTo, KeepRun, workspace, Pass, At, Rest, Running,
              Recovering, Building, Cleaning
  <1>1. CASE Start(p)
    BY <1>1 DEF Start
  <1>2. CASE Recovery(p)
    <2>1. Recorded(p) # Torn => Recorded(p) \in Dirs
      BY DEF Recorded
    <2> QED
      BY <1>2, <2>1 DEF Recovery, NothingToRecover, KeepCompletedPair,
         RefuseRootWithoutManifest, RefuseState, BeginRecovery, Removable
  <1>3. CASE Setup(p)
    <2>1. CASE Prepare(p) \/ RefuseTaken(p) \/ AcceptFree(p) \/ CreateLayer(p)
      BY <2>1 DEF Prepare, RefuseTaken, AcceptFree, CreateLayer
    <2>2. CASE Plan(p)
      BY <2>2 DEF Plan
    <2>3. CASE CreateMarker(p)
      <3>1. marker' \subseteq MarkerParts /\ markedFor' \in Dirs
        BY <2>3 DEF CreateMarker, MarkerParts
      <3>2. pc' \in [Procs -> Rest \cup Running]
        BY <2>3 DEF CreateMarker
      <3> QED
        BY <2>3, <3>1, <3>2 DEF CreateMarker
    <2>4. CASE OpenState(p)
      BY <2>4 DEF OpenState, MarkerParts
    <2>5. CASE FlushState(p)
      BY <2>5 DEF FlushState
    <2> QED
      BY <1>3, <2>1, <2>2, <2>3, <2>4, <2>5 DEF Setup
  <1> QED
    BY <1>1, <1>2, <1>3

(* Authoring and publishing: the files get contents of a directory in Dirs *)
(* and a payload directory gets parts.                                     *)
LEMMA TypeBuild ==
  ASSUME TypeOK, NEW p \in Procs, Author(p) \/ Publish(p)
  PROVE  TypeOK'
  <1> USE DEF TypeOK, GoTo, KeepRun, At, Rest, Running,
              Recovering, Building, Cleaning
  <1>1. CASE MakeSpool(p) \/ Generate(p)
    BY <1>1 DEF MakeSpool, Generate, MarkerParts
  <1>2. CASE BeginPayloads(p)
    BY <1>2 DEF BeginPayloads, PayloadParts
  <1>3. CASE FinishPayloads(p)
    BY <1>3 DEF FinishPayloads, PayloadParts
  <1>4. CASE WriteIndex(p) \/ StartCopy(p) \/ FinishCopy(p)
    BY <1>4 DEF WriteIndex, StartCopy, FinishCopy, Lists, AddParts, PayloadParts
  <1>5. CASE SaveRoot(p) \/ ExportRoot(p) \/ OpenManifest(p)
    <2>1. [dir |-> dir[p], whole |-> FALSE] \in Contents
      BY DEF Contents
    <2>2. CASE SaveRoot(p)
      BY <2>1, <2>2 DEF SaveRoot, Open, FileNames
    <2>3. CASE ExportRoot(p)
      BY <2>1, <2>3 DEF ExportRoot, Open, FileNames
    <2>4. CASE OpenManifest(p)
      BY <2>1, <2>4 DEF OpenManifest, Open, FileNames
    <2> QED
      BY <1>5, <2>2, <2>3, <2>4
  <1>6. CASE SavedRoot(p) \/ ExportedRoot(p) \/ CloseManifest(p)
    <2>1. \A c \in Contents : [dir |-> c.dir, whole |-> TRUE] \in Contents
      BY DEF Contents
    <2>2. CASE SavedRoot(p)
      BY <2>1, <2>2 DEF SavedRoot, Close, FileNames
    <2>3. CASE ExportedRoot(p)
      BY <2>1, <2>3 DEF ExportedRoot, Close, FileNames
    <2>4. CASE CloseManifest(p)
      BY <2>1, <2>4 DEF CloseManifest, Close, FileNames
    <2> QED
      BY <1>6, <2>2, <2>3, <2>4
  <1>7. CASE PublishManifest(p) \/ PublishRoot(p)
    BY <1>7 DEF PublishManifest, PublishRoot, Rename, FileNames
  <1>8. CASE Keep(p)
    BY <1>8 DEF Keep, Pass, workspace
  <1> QED
    BY <1>1, <1>2, <1>3, <1>4, <1>5, <1>6, <1>7, <1>8 DEF Author, Publish

(* Cancelling, removing and failing. *)
LEMMA TypeUndo ==
  ASSUME TypeOK, NEW p \in Procs, Cancel(p) \/ Remove(p) \/ Fault(p)
  PROVE  TypeOK'
  <1> USE DEF TypeOK, GoTo, KeepRun, At, Rest, Running,
              Recovering, Building, Cleaning
  <1>1. CASE Cancel(p)
    BY <1>1 DEF Cancel, CancelTo, Polled, workspace
  <1>2. CASE RemoveFile(p)
    BY <1>2 DEF RemoveFile, Victim, AfterRemoval, FileNames
  <1>3. CASE RemovePayload(p)
    BY <1>3 DEF RemovePayload, AfterRemoval, Doomed
  <1>4. CASE RemoveMarker(p)
    BY <1>4 DEF RemoveMarker, MarkerRemovals, AfterRemoval
  <1>5. CASE UndoSpool(p) \/ UndoTiles(p)
    BY <1>5 DEF UndoSpool, UndoTiles
  <1>6. CASE StepFails(p) \/ RefuseArguments(p) \/ Interrupt(p) \/ Kill(p)
    <2>1. CASE StepFails(p) \/ RefuseArguments(p)
      BY <2>1 DEF StepFails, RefuseArguments, Pass, FailTo, Fallible, workspace
    <2>2. CASE Interrupt(p)
      BY <2>2 DEF Interrupt, workspace
    <2>3. CASE Kill(p)
      BY <2>3 DEF Kill, workspace
    <2> QED
      BY <1>6, <2>1, <2>2, <2>3
  <1>7. CASE RemoveFails(p)
    BY <1>7 DEF RemoveFails, Victim, MarkerRemovals, AfterRemoval, workspace
  <1> QED
    BY <1>1, <1>2, <1>3, <1>4, <1>5, <1>6, <1>7 DEF Remove, Fault

(* Every step of every run keeps the types. *)
LEMMA TypeNext == TypeOK /\ [Next]_vars => TypeOK'
  <1> SUFFICES ASSUME TypeOK, [Next]_vars PROVE TypeOK'
    OBVIOUS
  <1>1. CASE UNCHANGED vars
    BY <1>1 DEF vars, workspace, control, TypeOK
  <1>2. ASSUME NEW p \in Procs, Start(p) \/ Step(p) \/ Fault(p)
        PROVE  TypeOK'
    BY <1>2, TypeSetup, TypeBuild, TypeUndo DEF Step
  <1> QED
    BY <1>1, <1>2 DEF Next

(* Every variable keeps its type: no run of the converter leaves a file    *)
(* with the content of an unknown directory or a process between steps.    *)
THEOREM TypeCorrect == Spec => []TypeOK
  <1> QED
    BY TypeInit, TypeNext, PTL DEF Spec

-----------------------------------------------------------------------------
(* The inductive invariant. *)

(* An untouched workspace satisfies the inductive invariant. *)
LEMMA InvInit == Init => IInv
  <1> SUFFICES ASSUME Init PROVE IInv
    OBVIOUS
  <1>1. TypeOK
    BY TypeInit
  <1>2. PublishedRootIsBacked
    BY DEF Init, PublishedRootIsBacked, FileNames
  <1>3. Alone /\ \A p \in Procs : Phase(p)
    BY DEF Init, Alone, Active, Rest, Phase, Unpublished, Recovering,
       Cleaning, Building
  <1> QED
    BY <1>1, <1>2, <1>3 DEF IInv

(* A step of a run changes no other run's control state. *)
LEMMA OthersStay ==
  ASSUME TypeOK, NEW p \in Procs, Start(p) \/ Step(p) \/ Fault(p)
  PROVE  /\ Active(p) \/ Start(p)
         /\ \A q \in Procs \ {p} : pc'[q] = pc[q]
  <1> USE DEF TypeOK, GoTo, At, Pass, Rest, Active
  <1>1. CASE Start(p)
    BY <1>1 DEF Start
  <1>2. CASE Recovery(p) \/ Setup(p)
    BY <1>2 DEF Recovery, NothingToRecover, KeepCompletedPair,
       RefuseRootWithoutManifest, RefuseState, BeginRecovery, Setup,
       Prepare, RefuseTaken, AcceptFree, Plan, CreateMarker, OpenState, FlushState,
       CreateLayer
  <1>3. CASE Author(p) \/ Publish(p)
    BY <1>3 DEF Author, MakeSpool, BeginPayloads, FinishPayloads, Generate,
       SaveRoot, SavedRoot, WriteIndex, ExportRoot, ExportedRoot, StartCopy,
       FinishCopy, Publish, OpenManifest, CloseManifest, PublishManifest,
       PublishRoot, Keep, Open, Close, AddParts, Rename
  <1>4. CASE Cancel(p) \/ Remove(p)
    BY <1>4 DEF Cancel, Polled, Remove, RemoveFile, Victim, RemovePayload,
       RemoveMarker, MarkerRemovals, UndoSpool, UndoTiles
  <1>5. CASE Fault(p)
    BY <1>5 DEF Fault, StepFails, RefuseArguments, Pass, Fallible, Building, RemoveFails, Victim,
       MarkerRemovals, Interrupt, Kill
  <1> QED
    BY <1>1, <1>2, <1>3, <1>4, <1>5 DEF Step

(* Invocations that do not overlap stay that way. *)
LEMMA AloneNext ==
  ASSUME Serial, TypeOK, Alone, NEW p \in Procs,
         Start(p) \/ Step(p) \/ Fault(p)
  PROVE  /\ Alone'
         /\ \A q \in Procs \ {p} : pc[q] \in Rest /\ pc'[q] \in Rest
  <1>1. \A q \in Procs \ {p} : pc[q] \in Rest
    <2>1. CASE Start(p)
      BY <2>1 DEF Start, Active
    <2>2. CASE Active(p)
      BY <2>2 DEF Alone, Active
    <2> QED
      BY <2>1, <2>2, OthersStay
  <1>2. \A q \in Procs \ {p} : pc'[q] \in Rest
    BY <1>1, OthersStay
  <1> QED
    BY <1>1, <1>2 DEF Alone, Active

(* One run at work preserves what it knows and the promise at the output   *)
(* path.                                                                   *)
LEMMA SetupInv ==
  ASSUME Reliable, IInv, NEW p \in Procs, Start(p) \/ Recovery(p) \/ Setup(p)
  PROVE  PublishedRootIsBacked' /\ Phase(p)'
  <1> USE DEF IInv, TypeOK, Phase, PublishedRootIsBacked, Backed, Complete,
              GoTo, KeepRun, workspace, Pass, At, Unpublished, Recovering,
              Building, Cleaning, Own
  <1>1. CASE Start(p)
    BY <1>1 DEF Start, Active, Rest
  <1>2. CASE Recovery(p)
    BY <1>2 DEF Recovery, NothingToRecover, KeepCompletedPair,
       RefuseRootWithoutManifest, RefuseState, BeginRecovery
  <1>3. CASE Setup(p)
    <2>1. CASE Prepare(p) \/ RefuseTaken(p) \/ AcceptFree(p) \/ CreateLayer(p)
      BY <2>1 DEF Prepare, RefuseTaken, AcceptFree, CreateLayer, Taken
    <2>2. CASE Plan(p)
      BY <2>2 DEF Plan
    <2>3. CASE CreateMarker(p)
      BY <2>3 DEF CreateMarker
    <2>4. CASE OpenState(p)
      BY <2>4 DEF OpenState
    <2>5. CASE FlushState(p)
      BY <2>5 DEF FlushState
    <2> QED
      BY <1>3, <2>1, <2>2, <2>3, <2>4, <2>5 DEF Setup
  <1> QED
    BY <1>1, <1>2, <1>3

(* On a reliable disk closing a file makes it whole.                       *)
LEMMA Closed ==
  ASSUME Reliable, TypeOK, NEW p \in Procs, NEW f \in FileNames,
         NEW here, NEW there, NEW checked,
         files[f] = Own(p, FALSE), Close(p, here, f, checked, there)
  PROVE  files' = [files EXCEPT ![f] = Own(p, TRUE)]
  <1>1. Own(p, FALSE) \in Contents /\ Own(p, FALSE).dir = dir[p]
    BY DEF Own, Contents, TypeOK
  <1>2. files' = [files EXCEPT ![f] = [dir |-> files[f].dir, whole |-> TRUE]]
    BY <1>1 DEF Close, Reliable, TypeOK
  <1> QED
    BY <1>1, <1>2 DEF Own

(* Authoring and publishing: a run brings the temporary files, the sidecar *)
(* and the payloads together before it renames the root into place.        *)
LEMMA BuildInv ==
  ASSUME Reliable, IInv, NEW p \in Procs, Author(p) \/ Publish(p)
  PROVE  PublishedRootIsBacked' /\ Phase(p)'
  <1> USE DEF IInv, TypeOK, Phase, PublishedRootIsBacked, Backed, Complete,
              GoTo, KeepRun, At, Unpublished, Recovering,
              Building, Cleaning, Own, FileNames
  <1>1. CASE MakeSpool(p) \/ Generate(p)
    BY <1>1 DEF MakeSpool, Generate
  <1>2. CASE BeginPayloads(p)
    BY <1>2 DEF BeginPayloads
  <1>3. CASE FinishPayloads(p)
    BY <1>3 DEF FinishPayloads
  <1>4. CASE WriteIndex(p) \/ StartCopy(p) \/ FinishCopy(p)
    <2>0. Lists = {"index"}
      BY DEF Lists, Reliable
    <2>1. CASE WriteIndex(p)
      BY <2>0, <2>1 DEF WriteIndex, AddParts
    <2>2. CASE StartCopy(p)
      BY <2>2 DEF StartCopy, AddParts
    <2>3. CASE FinishCopy(p)
      BY <2>0, <2>3 DEF FinishCopy, AddParts
    <2> QED
      BY <1>4, <2>1, <2>2, <2>3
  <1>5. CASE SaveRoot(p) \/ ExportRoot(p) \/ OpenManifest(p)
    <2>1. CASE SaveRoot(p)
      BY <2>1 DEF SaveRoot, Open
    <2>2. CASE ExportRoot(p)
      BY <2>2 DEF ExportRoot, Open
    <2>3. CASE OpenManifest(p)
      BY <2>3 DEF OpenManifest, Open
    <2> QED
      BY <1>5, <2>1, <2>2, <2>3
  <1>6. CASE SavedRoot(p) \/ ExportedRoot(p) \/ CloseManifest(p)
    <2>1. CASE SavedRoot(p)
      <3>1. files' = [files EXCEPT !["tmpRoot"] = Own(p, TRUE)]
        BY <2>1, Closed DEF SavedRoot, Close
      <3> QED
        BY <2>1, <3>1 DEF SavedRoot, Close
    <2>2. CASE ExportedRoot(p)
      <3>1. files' = [files EXCEPT !["tmpRoot"] = Own(p, TRUE)]
        BY <2>2, Closed DEF ExportedRoot, Close
      <3> QED
        BY <2>2, <3>1 DEF ExportedRoot, Close
    <2>3. CASE CloseManifest(p)
      <3>1. files' = [files EXCEPT !["tmpManifest"] = Own(p, TRUE)]
        BY <2>3, Closed DEF CloseManifest, Close
      <3> QED
        BY <2>3, <3>1 DEF CloseManifest, Close
    <2> QED
      BY <1>6, <2>1, <2>2, <2>3
  <1>7. CASE PublishManifest(p) \/ PublishRoot(p)
    <2>1. CASE PublishManifest(p)
      BY <2>1 DEF PublishManifest, Rename
    <2>2. CASE PublishRoot(p)
      <3>1. Own(p, TRUE) \in Contents /\ Own(p, TRUE) # NoFile
        <4>1. Own(p, TRUE) \in Contents
          BY DEF Contents
        <4> QED
          BY <4>1
      <3>2. files["tmpRoot"] = Own(p, TRUE) /\ files["manifest"] = Own(p, TRUE)
        BY <2>2 DEF PublishRoot, Rename
      <3>3. /\ files' = [files EXCEPT !["tmpRoot"] = NoFile,
                                      !["output"] = files["tmpRoot"]]
            /\ pc'[p] = "published" /\ Complete(dir[p])
            /\ UNCHANGED <<dir, payload, marker>> /\ "dir" \in marker
        BY <2>2, <3>1, <3>2 DEF PublishRoot, Rename
      <3>4. files'["output"] = Own(p, TRUE) /\ files'["manifest"] = Own(p, TRUE)
        BY <3>2, <3>3
      <3>5. Own(p, TRUE).whole /\ Own(p, TRUE).dir = dir[p]
        OBVIOUS
      <3>6. Backed'
        BY <3>1, <3>3, <3>4, <3>5
      <3> QED
        BY <3>3, <3>6
    <2> QED
      BY <1>7, <2>1, <2>2
  <1>8. CASE Keep(p)
    BY <1>8 DEF Keep, Pass, workspace
  <1> QED
    BY <1>1, <1>2, <1>3, <1>4, <1>5, <1>6, <1>7, <1>8 DEF Author, Publish

(* Cancelling, removing and failing: the root goes before anything that    *)
(* backs it, and recovery removes only where there is no root.             *)
LEMMA UndoInv ==
  ASSUME Reliable, IInv, NEW p \in Procs, Cancel(p) \/ Remove(p) \/ Fault(p)
  PROVE  PublishedRootIsBacked' /\ Phase(p)'
  <1> USE DEF IInv, TypeOK, Phase, PublishedRootIsBacked, Backed, Complete,
              GoTo, KeepRun, At, Unpublished, Recovering,
              Building, Cleaning, Own, FileNames
  <1>1. CASE Cancel(p)
    BY <1>1 DEF Cancel, CancelTo, Polled, workspace
  <1>2. CASE RemoveFile(p)
    BY <1>2 DEF RemoveFile, Victim, AfterRemoval
  <1>3. CASE RemovePayload(p)
    BY <1>3 DEF RemovePayload, AfterRemoval, Doomed
  <1>4. CASE RemoveMarker(p)
    BY <1>4 DEF RemoveMarker, MarkerRemovals, AfterRemoval
  <1>5. CASE UndoSpool(p) \/ UndoTiles(p)
    BY <1>5 DEF UndoSpool, UndoTiles
  <1>6. CASE StepFails(p) \/ RefuseArguments(p) \/ Interrupt(p) \/ Kill(p)
    <2>1. CASE StepFails(p) \/ RefuseArguments(p)
      BY <2>1 DEF StepFails, RefuseArguments, Pass, FailTo, Fallible, workspace
    <2>2. CASE Interrupt(p)
      BY <2>2 DEF Interrupt, workspace
    <2>3. CASE Kill(p)
      BY <2>3 DEF Kill, workspace
    <2> QED
      BY <1>6, <2>1, <2>2, <2>3
  <1>7. ~RemoveFails(p)
    BY DEF RemoveFails, Reliable
  <1> QED
    BY <1>1, <1>2, <1>3, <1>4, <1>5, <1>6, <1>7 DEF Remove, Fault

(* Every step of every run preserves the inductive invariant. *)
LEMMA InvNext ==
  ASSUME Reliable, IInv, [Next]_vars
  PROVE  IInv'
  <1>1. CASE UNCHANGED vars
    BY <1>1 DEF vars, workspace, control, IInv, TypeOK, Alone, Active,
       PublishedRootIsBacked, Backed, Complete, Phase, Own
  <1>2. ASSUME NEW p \in Procs, Start(p) \/ Step(p) \/ Fault(p)
        PROVE  IInv'
    <2>1. TypeOK'
      BY <1>2, TypeNext DEF IInv, Next
    <2>2. Alone' /\ \A q \in Procs \ {p} : pc'[q] \in Rest
      BY <1>2, AloneNext DEF IInv, Reliable
    <2>3. PublishedRootIsBacked' /\ Phase(p)'
      BY <1>2, SetupInv, BuildInv, UndoInv DEF Step
    <2>4. ASSUME NEW q \in Procs, q # p PROVE Phase(q)'
      <3>1. pc'[q] \in Rest
        BY <2>2, <2>4
      <3>2. pc'[q] \notin Unpublished \cup Building \cup {"published", "cOutput"}
        BY <3>1 DEF Rest, Unpublished, Recovering, Cleaning, Building
      <3> QED
        BY <3>1, <3>2 DEF Phase, Rest, Building
    <2> QED
      BY <2>1, <2>2, <2>3, <2>4 DEF IInv
  <1> QED
    BY <1>1, <1>2 DEF Next

(* The inductive invariant holds of every conversion history. *)
LEMMA Invariant == ASSUME Reliable PROVE Spec => []IInv
  <1>1. Init => IInv
    BY InvInit
  <1>2. IInv /\ [Next]_vars => IInv'
    BY InvNext
  <1> QED
    BY <1>1, <1>2, PTL DEF Spec

(* However often conversions of an output are killed, cancelled or fail,   *)
(* and whatever payload directories they name: a root at the output path   *)
(* has a whole sidecar and all its payloads.                               *)
THEOREM RootIsBacked == ASSUME Reliable PROVE Spec => []PublishedRootIsBacked
  <1>1. IInv => PublishedRootIsBacked
    BY DEF IInv
  <1> QED
    BY Invariant, <1>1, PTL

-----------------------------------------------------------------------------
(* Refinement.  A root appears and disappears only under a marker, and a   *)
(* marker never appears beside a root.                                     *)
UnderMarker ==
    /\ files["output"] # NoFile /\ files'["output"] = NoFile => marker # {}
    /\ files["output"] = NoFile /\ files'["output"] # NoFile => marker' # {}
    /\ files["output"] # NoFile /\ marker = {} => marker' = {}

(* Recovery drops a marker beside a pair, and a new run makes none there. *)
LEMMA SetupUnderMarker ==
  ASSUME IInv, NEW p \in Procs, Start(p) \/ Recovery(p) \/ Setup(p)
  PROVE  UnderMarker
  <1> USE DEF IInv, Phase, Unpublished, Building, UnderMarker, workspace,
              Pass, At
  <1>1. CASE Start(p)
    BY <1>1 DEF Start
  <1>2. CASE Recovery(p)
    BY <1>2 DEF Recovery, NothingToRecover, KeepCompletedPair,
       RefuseRootWithoutManifest, RefuseState, BeginRecovery
  <1>3. CASE Setup(p)
    BY <1>3 DEF Setup, Prepare, RefuseTaken, AcceptFree, CreateLayer, Plan,
       CreateMarker, OpenState, FlushState
  <1> QED
    BY <1>1, <1>2, <1>3

(* The root is renamed into place while the marker is there. *)
LEMMA BuildUnderMarker ==
  ASSUME IInv, NEW p \in Procs, Author(p) \/ Publish(p)
  PROVE  UnderMarker
  <1> USE DEF IInv, TypeOK, FileNames, Phase, Unpublished, Building,
              UnderMarker, At
  <1>1. CASE MakeSpool(p) \/ Generate(p)
    BY <1>1 DEF MakeSpool, Generate
  <1>2. CASE BeginPayloads(p) \/ FinishPayloads(p)
    BY <1>2 DEF BeginPayloads, FinishPayloads
  <1>3. CASE WriteIndex(p) \/ StartCopy(p) \/ FinishCopy(p)
    BY <1>3 DEF WriteIndex, StartCopy, FinishCopy, Lists, AddParts
  <1>4. CASE SaveRoot(p) \/ ExportRoot(p) \/ OpenManifest(p)
    BY <1>4 DEF SaveRoot, ExportRoot, OpenManifest, Open
  <1>5. CASE SavedRoot(p) \/ ExportedRoot(p) \/ CloseManifest(p)
    BY <1>5 DEF SavedRoot, ExportedRoot, CloseManifest, Close
  <1>6. CASE PublishManifest(p) \/ PublishRoot(p)
    BY <1>6 DEF PublishManifest, PublishRoot, Rename
  <1>7. CASE Keep(p)
    BY <1>7 DEF Keep, Pass, workspace
  <1> QED
    BY <1>1, <1>2, <1>3, <1>4, <1>5, <1>6, <1>7 DEF Author, Publish

(* The root is withdrawn only by the run whose marker is still there. *)
LEMMA UndoUnderMarker ==
  ASSUME IInv, NEW p \in Procs, Cancel(p) \/ Remove(p) \/ Fault(p)
  PROVE  UnderMarker
  <1> USE DEF IInv, TypeOK, FileNames, Phase, Unpublished, Building,
              UnderMarker, At
  <1>1. CASE Cancel(p)
    BY <1>1 DEF Cancel, workspace
  <1>2. CASE RemoveFile(p)
    <2>1. UNCHANGED marker /\ (At(p, "cOutput") => "dir" \in marker)
      BY <1>2 DEF RemoveFile
    <2>2. pc[p] \in DOMAIN Victim /\ pc[p] # "cOutput"
            => files'["output"] = files["output"]
      BY <1>2 DEF RemoveFile, Victim
    <2>3. files'["output"] \in {files["output"], NoFile}
      BY <1>2 DEF RemoveFile, Victim
    <2> QED
      BY <1>2, <2>1, <2>2, <2>3 DEF RemoveFile
  <1>3. CASE RemovePayload(p) \/ UndoTiles(p)
    BY <1>3 DEF RemovePayload, UndoTiles
  <1>4. CASE RemoveMarker(p) \/ UndoSpool(p)
    BY <1>4 DEF RemoveMarker, UndoSpool
  <1>5. CASE Fault(p)
    BY <1>5 DEF Fault, StepFails, RefuseArguments, Pass, RemoveFails, Interrupt, Kill, workspace
  <1> QED
    BY <1>1, <1>2, <1>3, <1>4, <1>5 DEF Remove

(* Every step of the protocol is a step of AtomicPublish or none. *)
LEMMA StepRefines ==
  ASSUME IInv, IInv', [Next]_vars
  PROVE  [Publication!Next]_Asset
  <1>1. UnderMarker
    <2>1. CASE UNCHANGED vars
      BY <2>1 DEF vars, workspace, UnderMarker
    <2>2. ASSUME NEW p \in Procs, Start(p) \/ Step(p) \/ Fault(p)
          PROVE  UnderMarker
      BY <2>2, SetupUnderMarker, BuildUnderMarker, UndoUnderMarker DEF Step
    <2> QED
      BY <2>1, <2>2 DEF Next
  <1>2. /\ PublishedRootIsBacked
        /\ PublishedRootIsBacked'
    BY DEF IInv
  <1>3. CASE files["output"] = NoFile /\ files'["output"] = NoFile
    BY <1>3 DEF Asset
  <1>4. CASE files["output"] = NoFile /\ files'["output"] # NoFile
    BY <1>1, <1>2, <1>4 DEF UnderMarker, PublishedRootIsBacked, Asset,
       Publication!Next, Publication!PublishAll
  <1>5. CASE files["output"] # NoFile /\ files'["output"] = NoFile
    BY <1>1, <1>2, <1>5 DEF UnderMarker, PublishedRootIsBacked, Asset,
       Publication!Next, Publication!Withdraw
  <1>6. CASE files["output"] # NoFile /\ files'["output"] # NoFile
    BY <1>1, <1>2, <1>6 DEF UnderMarker, PublishedRootIsBacked, Asset,
       Publication!Next, Publication!Settle
  <1> QED
    BY <1>3, <1>4, <1>5, <1>6

(* To whoever looks at the output path a conversion is one atomic step: a  *)
(* whole asset appears, is withdrawn by its own run at most before its     *)
(* marker is retired, and stays from then on.                              *)
THEOREM Atomic == ASSUME Reliable PROVE Spec => PublishesAtomically
  <1>1. Init => Publication!Init
    BY DEF Init, Publication!Init, Asset, FileNames
  <1>2. IInv /\ IInv' /\ [Next]_vars => [Publication!Next]_Asset
    BY StepRefines
  <1> QED
    BY <1>1, <1>2, Invariant, PTL
    DEF Spec, PublishesAtomically, Publication!Spec

-----------------------------------------------------------------------------
(* What a run has in place once it has made it.                            *)
Built(p) ==
    /\ pc[p] \in {"saving", "exporting"} => files["tmpRoot"] = Own(p, FALSE)
    /\ pc[p] \in {"index", "copy", "copying", "manifest", "listing", "pubManifest", "pubRoot"}
         => files["tmpRoot"] = Own(p, TRUE)
    /\ pc[p] \in {"save", "saving", "index"} => "tiles" \in payload[dir[p]]
    /\ pc[p] \in {"manifest", "listing", "pubManifest", "pubRoot", "published", "finish"}
         => Present(dir[p])
    /\ pc[p] \in {"listing", "pubManifest"} => files["tmpManifest"] \in {Own(p, FALSE), Own(p, TRUE)}
    /\ pc[p] \in {"pubRoot", "published", "finish"}
         => files["manifest"] \in {Own(p, FALSE), Own(p, TRUE)}
    /\ pc[p] \in {"published", "finish"} => files["output"] = Own(p, TRUE)

BuiltPoints == {"save", "saving", "exporting", "index", "copy", "copying", "manifest", "listing",
                "pubManifest", "pubRoot", "published", "finish"}

BuiltInv == TypeOK /\ Alone /\ \A p \in Procs : Built(p)

LEMMA BuiltElsewhere ==
  ASSUME NEW p \in Procs, pc[p] \notin BuiltPoints
  PROVE  Built(p)
  BY DEF Built, BuiltPoints

(* Before anything is authored, and when a run is on its way out, there is *)
(* nothing to know.                                                        *)
LEMMA BuiltSetup ==
  ASSUME TypeOK, NEW p \in Procs, Start(p) \/ Recovery(p) \/ Setup(p)
  PROVE  Built(p)'
  <1> USE DEF TypeOK, GoTo, Pass, At
  <1>1. pc'[p] \notin BuiltPoints
    <2>1. CASE Start(p)
      BY <2>1 DEF Start, BuiltPoints
    <2>2. CASE Recovery(p)
      BY <2>2 DEF Recovery, NothingToRecover, KeepCompletedPair, RefuseRootWithoutManifest, RefuseState,
         BeginRecovery, BuiltPoints
    <2>3. CASE Setup(p)
      BY <2>3 DEF Setup, Prepare, RefuseTaken, AcceptFree, Plan, CreateMarker, OpenState, FlushState, CreateLayer,
         BuiltPoints
    <2> QED
      BY <2>1, <2>2, <2>3
  <1> QED
    BY <1>1 DEF Built, BuiltPoints

LEMMA BuiltUndo ==
  ASSUME TypeOK, NEW p \in Procs, Built(p), Cancel(p) \/ Remove(p) \/ Fault(p)
  PROVE  Built(p)'
  <1> USE DEF TypeOK, GoTo, At, KeepRun
  <1>1. CASE Interrupt(p)
    BY <1>1 DEF Interrupt, workspace, Built, Present, Own
  <1>2. CASE RemoveMarker(p)
    BY <1>2 DEF RemoveMarker, MarkerRemovals, AfterRemoval, Built, Present, Own
  <1>3. CASE \/ Cancel(p) \/ RemoveFile(p) \/ RemovePayload(p) \/ UndoSpool(p) \/ UndoTiles(p)
             \/ StepFails(p) \/ RefuseArguments(p) \/ RemoveFails(p) \/ Kill(p)
    <2>1. CASE Cancel(p) \/ UndoSpool(p) \/ UndoTiles(p) \/ StepFails(p) \/ RefuseArguments(p) \/ Kill(p)
      <3>1. pc'[p] \notin BuiltPoints
        BY <2>1 DEF Cancel, CancelTo, Polled, UndoSpool, UndoTiles, StepFails, RefuseArguments, Pass, FailTo, Fallible, Kill,
           BuiltPoints
      <3> QED
        BY <3>1 DEF Built, BuiltPoints
    <2>2. CASE RemoveFile(p) \/ RemovePayload(p) \/ RemoveFails(p)
      <3>1. pc'[p] \notin BuiltPoints
        BY <2>2 DEF RemoveFile, RemovePayload, RemoveFails, Victim, MarkerRemovals, AfterRemoval, Recovering,
           BuiltPoints
      <3> QED
        BY <3>1 DEF Built, BuiltPoints
    <2> QED
      BY <1>3, <2>1, <2>2
  <1> QED
    BY <1>1, <1>2, <1>3 DEF Remove, Fault

LEMMA OwnIsFile ==
  ASSUME TypeOK, NEW p \in Procs, NEW w \in BOOLEAN
  PROVE  Own(p, w) \in Contents /\ Own(p, w) # NoFile /\ Own(p, w).dir = dir[p]
  <1>1. Own(p, w) \in Contents /\ Own(p, w).dir = dir[p]
    BY DEF Own, Contents, TypeOK
  <1> QED
    BY <1>1, TransactionAssumption

(* On any disk a file that is closed is still its own; where the close is  *)
(* checked, it is whole.                                                   *)
LEMMA ClosedOwn ==
  ASSUME TypeOK, NEW p \in Procs, NEW f \in FileNames, NEW here, NEW there, NEW checked \in BOOLEAN,
         files[f] \in {Own(p, FALSE), Own(p, TRUE)}, Close(p, here, f, checked, there)
  PROVE  /\ files'[f] \in {Own(p, FALSE), Own(p, TRUE)}
         /\ checked => files'[f] = Own(p, TRUE)
         /\ \A g \in FileNames \ {f} : files'[g] = files[g]
  <1>1. files[f] # NoFile /\ files[f].dir = dir[p]
    BY OwnIsFile
  <1>2. \/ files' = [files EXCEPT ![f] = [dir |-> files[f].dir, whole |-> TRUE]]
        \/ ~checked /\ files' = files
    BY <1>1 DEF Close
  <1> QED
    BY <1>1, <1>2 DEF Own, TypeOK

LEMMA BuiltBuild ==
  ASSUME TypeOK, NEW p \in Procs, Built(p), Author(p) \/ Publish(p)
  PROVE  Built(p)'
  <1> USE DEF TypeOK, GoTo, KeepRun, At, Built, Present, Own, FileNames
  <1>1. CASE MakeSpool(p) \/ Generate(p) \/ BeginPayloads(p)
    <2>1. pc'[p] \notin BuiltPoints
      BY <1>1 DEF MakeSpool, Generate, BeginPayloads, BuiltPoints
    <2> QED
      BY <2>1 DEF BuiltPoints
  <1>2. CASE FinishPayloads(p)
    BY <1>2 DEF FinishPayloads
  <1>3. CASE WriteIndex(p)
    BY <1>3 DEF WriteIndex, Lists, AddParts
  <1>4. CASE StartCopy(p) \/ FinishCopy(p)
    <2>1. CASE StartCopy(p)
      BY <2>1 DEF StartCopy, AddParts
    <2>2. CASE FinishCopy(p)
      BY <2>2 DEF FinishCopy, Lists, AddParts
    <2> QED
      BY <1>4, <2>1, <2>2
  <1>5. CASE SaveRoot(p) \/ ExportRoot(p) \/ OpenManifest(p)
    <2>1. CASE SaveRoot(p)
      BY <2>1 DEF SaveRoot, Open
    <2>2. CASE ExportRoot(p)
      BY <2>2 DEF ExportRoot, Open
    <2>3. CASE OpenManifest(p)
      BY <2>3 DEF OpenManifest, Open
    <2> QED
      BY <1>5, <2>1, <2>2, <2>3
  <1>6. CASE SavedRoot(p)
    <2>1. files'["tmpRoot"] = Own(p, TRUE)
      BY <1>6, ClosedOwn DEF SavedRoot, Close
    <2> QED
      BY <1>6, <2>1 DEF SavedRoot, Close
  <1>7. CASE ExportedRoot(p)
    <2>1. files'["tmpRoot"] = Own(p, TRUE)
      BY <1>7, ClosedOwn DEF ExportedRoot, Close
    <2> QED
      BY <1>7, <2>1 DEF ExportedRoot, Close
  <1>8. CASE CloseManifest(p)
    <2>1. /\ files'["tmpManifest"] \in {Own(p, FALSE), Own(p, TRUE)}
          /\ files'["tmpRoot"] = files["tmpRoot"]
      BY <1>8, ClosedOwn DEF CloseManifest, Close
    <2> QED
      BY <1>8, <2>1 DEF CloseManifest, Close
  <1>9. CASE PublishManifest(p) \/ PublishRoot(p)
    <2>1. Own(p, FALSE) # NoFile /\ Own(p, TRUE) # NoFile
      BY OwnIsFile
    <2>2. CASE PublishManifest(p)
      BY <2>1, <2>2 DEF PublishManifest, Rename
    <2>3. CASE PublishRoot(p)
      BY <2>1, <2>3 DEF PublishRoot, Rename
    <2> QED
      BY <1>9, <2>2, <2>3
  <1>10. CASE Keep(p)
    BY <1>10 DEF Keep, Pass, workspace
  <1> QED
    BY <1>1, <1>2, <1>3, <1>4, <1>5, <1>6, <1>7, <1>8, <1>9, <1>10 DEF Author, Publish

LEMMA BuiltNext == ASSUME Serial PROVE BuiltInv /\ [Next]_vars => BuiltInv'
  <1> SUFFICES ASSUME BuiltInv, [Next]_vars PROVE BuiltInv'
    OBVIOUS
  <1>1. CASE UNCHANGED vars
    BY <1>1 DEF vars, workspace, control, BuiltInv, TypeOK, Alone, Active, Built, Present, Own
  <1>2. ASSUME NEW p \in Procs, Start(p) \/ Step(p) \/ Fault(p)
        PROVE  BuiltInv'
    <2>1. TypeOK'
      BY <1>2, TypeNext DEF BuiltInv, Next
    <2>2. Alone' /\ \A q \in Procs \ {p} : pc'[q] \in Rest
      BY <1>2, AloneNext DEF BuiltInv
    <2>3. Built(p)'
      BY <1>2, BuiltSetup, BuiltBuild, BuiltUndo DEF Step, BuiltInv
    <2>4. ASSUME NEW q \in Procs \ {p} PROVE Built(q)'
      BY <2>2 DEF Built, Rest
    <2> QED
      BY <2>1, <2>2, <2>3, <2>4 DEF BuiltInv
  <1> QED
    BY <1>1, <1>2 DEF Next

LEMMA BuiltInit == Init => BuiltInv
  <1>1. Init => TypeOK /\ Alone
    BY InvInit DEF IInv
  <1>2. Init => \A p \in Procs : pc[p] \notin BuiltPoints
    BY DEF Init, BuiltPoints
  <1> QED
    BY <1>1, <1>2, BuiltElsewhere DEF BuiltInv

(* Whoever returns 0 has its root, its sidecar and its payloads in place:  *)
(* main() ends with "finish" only behind both renames.                     *)
THEOREM SuccessPublished == ASSUME Serial PROVE Spec => SuccessMeansPublished
  <1>1. ASSUME BuiltInv, Next, NEW p \in Procs, pc[p] # "exit0", pc'[p] = "exit0"
        PROVE  /\ files'["output"] = [dir |-> dir[p], whole |-> TRUE]
               /\ files'["manifest"] # NoFile /\ files'["manifest"].dir = dir[p]
               /\ Present(dir[p])'
    <2>1. PICK q \in Procs : Start(q) \/ Step(q) \/ Fault(q)
      BY <1>1 DEF Next
    <2>2. p = q
      BY <1>1, <2>1, OthersStay DEF BuiltInv
    <2>3. pc[p] = "finish" /\ UNCHANGED <<files, payload, dir>>
      <3> USE <1>1 DEF TypeOK, GoTo, Pass, At, KeepRun, BuiltInv
      <3>1. ~(Start(p) \/ Recovery(p) \/ Setup(p))
        BY DEF Start, Recovery, NothingToRecover, KeepCompletedPair, RefuseRootWithoutManifest, RefuseState,
           BeginRecovery, Setup, Prepare, RefuseTaken, AcceptFree, Plan, CreateMarker, OpenState, FlushState, CreateLayer
      <3>2. ~(Author(p) \/ Publish(p))
        BY DEF Author, MakeSpool, BeginPayloads, FinishPayloads, Generate, SaveRoot, SavedRoot, WriteIndex,
           ExportRoot, ExportedRoot, StartCopy, FinishCopy, Publish, OpenManifest, CloseManifest,
           PublishManifest, PublishRoot, Keep, Open, Close, AddParts, Rename
      <3>3. ~(Cancel(p) \/ UndoSpool(p) \/ UndoTiles(p) \/ StepFails(p) \/ RefuseArguments(p) \/ Interrupt(p) \/ Kill(p))
        BY DEF Cancel, CancelTo, UndoSpool, UndoTiles, StepFails, RefuseArguments, Pass, FailTo, Interrupt, Kill
      <3>4. ~(RemoveFile(p) \/ RemovePayload(p))
        BY DEF RemoveFile, RemovePayload, Victim, AfterRemoval
      <3>5. RemoveMarker(p) \/ RemoveFails(p)
        BY <2>1, <2>2, <3>1, <3>2, <3>3, <3>4 DEF Step, Remove, Fault
      <3> QED
        BY <3>5 DEF RemoveMarker, RemoveFails, MarkerRemovals, Victim, AfterRemoval, workspace
    <2>4. Built(p)
      BY <1>1 DEF BuiltInv
    <2>5. Own(p, FALSE) # NoFile /\ Own(p, TRUE) # NoFile
      BY <1>1, OwnIsFile DEF BuiltInv
    <2> QED
      BY <2>3, <2>4, <2>5 DEF Built, Own, Present
  <1>2. BuiltInv /\ [Next]_vars
          => [\A p \in Procs : pc[p] # "exit0" /\ pc'[p] = "exit0" =>
                /\ files'["output"] = [dir |-> dir[p], whole |-> TRUE]
                /\ files'["manifest"] # NoFile /\ files'["manifest"].dir = dir[p]
                /\ Present(dir[p])']_vars
    BY <1>1
  <1> QED
    BY <1>2, BuiltInit, BuiltNext, PTL DEF Spec, SuccessMeansPublished

-----------------------------------------------------------------------------
(* What a run that fails leaves free: it has seen the workspace free, and  *)
(* clears what it made in an order that ends with the marker.              *)
Left(p) ==
    /\ pc[p] \in {"plan", "mark"} => ~Taken(dir[p])
    /\ pc[p] \in {"state", "flush", "layer", "dropLayer"}
         => files["manifest"] = NoFile /\ payload[dir[p]] = {}
    /\ pc[p] \in {"cPayload", "cMarker"} => files["manifest"] = NoFile
    /\ pc[p] = "cMarker" => payload[dir[p]] = {}

LeftPoints == {"plan", "mark", "state", "flush", "layer", "dropLayer", "cPayload", "cMarker"}

LEMMA LeftStep ==
  ASSUME Reliable, IInv, NEW p \in Procs, Left(p), Start(p) \/ Step(p) \/ Fault(p)
  PROVE  Left(p)'
  <1> USE DEF IInv, TypeOK, GoTo, KeepRun, At, Left, Taken
  <1>1. CASE Start(p) \/ Recovery(p)
    <2>1. pc'[p] \notin LeftPoints
      BY <1>1 DEF Start, Recovery, NothingToRecover, KeepCompletedPair, RefuseRootWithoutManifest,
         RefuseState, BeginRecovery, Pass, LeftPoints
    <2> QED
      BY <2>1 DEF LeftPoints
  <1>2. CASE Setup(p)
    <2>1. CASE Prepare(p) \/ RefuseTaken(p) \/ AcceptFree(p) \/ CreateLayer(p)
      BY <2>1 DEF Prepare, RefuseTaken, AcceptFree, CreateLayer, Pass, workspace
    <2>2. CASE Plan(p)
      BY <2>2 DEF Plan, workspace
    <2>3. CASE CreateMarker(p)
      BY <2>3 DEF CreateMarker
    <2>4. CASE OpenState(p)
      BY <2>4 DEF OpenState
    <2>5. CASE FlushState(p)
      BY <2>5 DEF FlushState
    <2> QED
      BY <1>2, <2>1, <2>2, <2>3, <2>4, <2>5 DEF Setup
  <1>3. CASE Author(p) \/ Publish(p) \/ Cancel(p) \/ UndoSpool(p) \/ UndoTiles(p) \/ Kill(p)
    <2>1. pc'[p] \notin LeftPoints
      BY <1>3 DEF Author, MakeSpool, BeginPayloads, FinishPayloads, Generate, SaveRoot, SavedRoot, WriteIndex,
         ExportRoot, ExportedRoot, StartCopy, FinishCopy, Publish, OpenManifest, CloseManifest, PublishManifest,
         PublishRoot, Keep, Open, Close, AddParts, Rename, Pass, Cancel, CancelTo, UndoSpool, UndoTiles, Kill,
         LeftPoints
    <2> QED
      BY <2>1 DEF LeftPoints
  <1>4. CASE RemoveFile(p)
    <2>1. pc'[p] \in {"cPayload"} \/ pc'[p] \notin LeftPoints
      BY <1>4 DEF RemoveFile, Victim, AfterRemoval, LeftPoints
    <2>2. pc'[p] = "cPayload" => files'["manifest"] = NoFile
      BY <1>4 DEF RemoveFile, Victim, AfterRemoval, FileNames
    <2> QED
      BY <2>1, <2>2 DEF LeftPoints
  <1>5. CASE RemovePayload(p)
    <2>1. files' = files /\ dir' = dir
      BY <1>5 DEF RemovePayload
    <2>2. CASE UNCHANGED pc /\ pc[p] = "cPayload"
      BY <2>1, <2>2
    <2>3. CASE pc[p] = "cPayload" /\ payload' = [payload EXCEPT ![Doomed(p)] = {}] /\ pc'[p] = "cMarker"
      BY <2>1, <2>3 DEF Doomed
    <2>4. CASE pc[p] = "rPayload"
      <3>1. pc'[p] \notin LeftPoints
        BY <1>5, <2>4 DEF RemovePayload, AfterRemoval, LeftPoints
      <3> QED
        BY <3>1 DEF LeftPoints
    <2> QED
      BY <1>5, <2>2, <2>3, <2>4 DEF RemovePayload, AfterRemoval
  <1>6. CASE RemoveMarker(p)
    <2>1. UNCHANGED <<files, payload, dir>>
      BY <1>6 DEF RemoveMarker
    <2>2. pc' = pc \/ pc'[p] \notin LeftPoints
      BY <1>6 DEF RemoveMarker, MarkerRemovals, AfterRemoval, LeftPoints
    <2>3. pc[p] \notin {"plan", "mark"}
      BY <1>6 DEF RemoveMarker, MarkerRemovals
    <2> QED
      BY <2>1, <2>2, <2>3 DEF LeftPoints
  <1>7. CASE StepFails(p) \/ RefuseArguments(p)
    <2>1. UNCHANGED <<files, payload, dir>>
      BY <1>7 DEF StepFails, RefuseArguments, Pass, workspace
    <2>2. pc'[p] \notin LeftPoints \/ (pc[p] = "layer" /\ pc'[p] = "dropLayer")
      BY <1>7 DEF StepFails, RefuseArguments, Pass, FailTo, Fallible, Building, LeftPoints
    <2> QED
      BY <2>1, <2>2 DEF LeftPoints
  <1>8. CASE Interrupt(p)
    BY <1>8 DEF Interrupt, workspace
  <1>9. ~RemoveFails(p)
    BY DEF RemoveFails, Reliable
  <1> QED
    BY <1>1, <1>2, <1>3, <1>4, <1>5, <1>6, <1>7, <1>8, <1>9 DEF Step, Remove, Fault

LeftInv == IInv /\ \A p \in Procs : Left(p)

LEMMA LeftInit == Init => LeftInv
  BY InvInit DEF LeftInv, Left, Init

LEMMA LeftNext == ASSUME Reliable PROVE LeftInv /\ [Next]_vars => LeftInv'
  <1> SUFFICES ASSUME LeftInv, [Next]_vars PROVE LeftInv'
    OBVIOUS
  <1>1. IInv'
    BY InvNext DEF LeftInv
  <1>2. CASE UNCHANGED vars
    BY <1>1, <1>2 DEF vars, workspace, control, LeftInv, Left, Taken
  <1>3. ASSUME NEW p \in Procs, Start(p) \/ Step(p) \/ Fault(p)
        PROVE  LeftInv'
    <2>1. Left(p)'
      BY <1>3, LeftStep DEF LeftInv
    <2>2. ASSUME NEW q \in Procs \ {p} PROVE Left(q)'
      <3>1. pc'[q] \in Rest
        BY <1>3, AloneNext DEF LeftInv, IInv, Reliable
      <3> QED
        BY <3>1 DEF Left, Rest
    <2> QED
      BY <1>1, <2>1, <2>2 DEF LeftInv
  <1> QED
    BY <1>2, <1>3 DEF Next

(* Whoever got past opening its source and returns 1 has left nothing that *)
(* a retry would refuse: the cleanup lambda removes everything the run may *)
(* have made.                                                              *)
THEOREM FailureFrees == ASSUME Reliable PROVE Spec => FailureLeavesNothing
  <1>1. ASSUME LeftInv, Next, NEW p \in Procs,
               pc[p] \notin {"prepare", "exit1"}, pc'[p] = "exit1"
        PROVE  ~Taken(dir[p])'
    <2>1. PICK q \in Procs : Start(q) \/ Step(q) \/ Fault(q)
      BY <1>1 DEF Next
    <2>2. p = q
      BY <1>1, <2>1, OthersStay DEF LeftInv, IInv
    <2>3. \/ /\ pc[p] = "plan" /\ UNCHANGED <<files, payload, marker, dir>>
          \/ /\ pc[p] \in {"dropLayer", "cMarker"}
             /\ UNCHANGED <<files, payload, dir>> /\ marker' = {}
      <3> USE <1>1 DEF TypeOK, GoTo, Pass, At, KeepRun, LeftInv, IInv
      <3>1. ~(Start(p) \/ Recovery(p) \/ Setup(p))
        BY DEF Start, Recovery, NothingToRecover, KeepCompletedPair, RefuseRootWithoutManifest, RefuseState,
           BeginRecovery, Setup, Prepare, RefuseTaken, AcceptFree, Plan, CreateMarker, OpenState, FlushState, CreateLayer
      <3>2. ~(Author(p) \/ Publish(p))
        BY DEF Author, MakeSpool, BeginPayloads, FinishPayloads, Generate, SaveRoot, SavedRoot, WriteIndex,
           ExportRoot, ExportedRoot, StartCopy, FinishCopy, Publish, OpenManifest, CloseManifest,
           PublishManifest, PublishRoot, Keep, Open, Close, AddParts, Rename
      <3>3. ~(Cancel(p) \/ UndoSpool(p) \/ UndoTiles(p) \/ Interrupt(p) \/ Kill(p))
        BY DEF Cancel, CancelTo, UndoSpool, UndoTiles, Interrupt, Kill
      <3>4. ~(RemoveFile(p) \/ RemovePayload(p))
        BY DEF RemoveFile, RemovePayload, Victim, AfterRemoval
      <3>5. ~RemoveFails(p)
        BY DEF RemoveFails, Reliable
      <3>6. CASE RemoveMarker(p)
        BY <3>6 DEF RemoveMarker, MarkerRemovals, AfterRemoval
      <3>7. CASE StepFails(p) \/ RefuseArguments(p)
        BY <3>7 DEF StepFails, RefuseArguments, Pass, FailTo, workspace
      <3> QED
        BY <2>1, <2>2, <3>1, <3>2, <3>3, <3>4, <3>5, <3>6, <3>7 DEF Step, Remove, Fault
    <2>4. Left(p) /\ Phase(p)
      BY <1>1 DEF LeftInv, IInv
    <2>5. pc[p] \in {"dropLayer", "cMarker"} => files["output"] = NoFile
      BY <2>4 DEF Phase, Unpublished, Cleaning
    <2> QED
      BY <2>3, <2>4, <2>5 DEF Left, Taken
  <1>2. LeftInv /\ [Next]_vars
          => [\A p \in Procs :
                pc[p] \notin {"prepare", "exit1"} /\ pc'[p] = "exit1"
                   => ~Taken(dir[p])']_vars
    BY <1>1
  <1> QED
    BY <1>2, LeftInit, LeftNext, PTL DEF Spec, FailureLeavesNothing

-----------------------------------------------------------------------------
(* Somebody's files are in no directory that a run past its checks was     *)
(* given, in none that a state file records, and so in none that either    *)
(* may remove.                                                             *)
Foreign(d) == "foreign" \in payload[d]

Recovers == {"rManifest", "rTmpRoot", "rTmpManifest", "rPayload"}
Unchecked == Rest \cup Recovering \cup {"prepare", "recover", "dropMarker", "check"}

Spares(p) ==
    /\ pc[p] \notin Unchecked => ~Foreign(dir[p])
    /\ pc[p] \in Recovers => ~Foreign(target[p]) \/ (target[p] = dir[p] /\ "state" \notin marker)

Recording == "state" \in marker => stateDir = Torn \/ ~Foreign(stateDir)

SparesInv == TypeOK /\ Alone /\ Recording /\ \A p \in Procs : Spares(p)

(* Nothing is ever put into a directory that is not a conversion's own.    *)
LEMMA ForeignFades ==
  ASSUME TypeOK, NEW p \in Procs, Start(p) \/ Step(p) \/ Fault(p), NEW d \in Dirs
  PROVE  /\ Foreign(d)' => Foreign(d)
         /\ Foreign(d) /\ ~Foreign(d)' => RemovePayload(p) /\ d = Doomed(p)
  <1> USE DEF TypeOK, Foreign
  <1>1. CASE payload' = payload
    BY <1>1
  <1>2. CASE Start(p) \/ Recovery(p) \/ Setup(p) \/ Cancel(p) \/ Fault(p)
    <2>1. payload' = payload
      BY <1>2 DEF Start, Recovery, NothingToRecover, KeepCompletedPair, RefuseRootWithoutManifest,
         RefuseState, BeginRecovery, Setup, Prepare, RefuseTaken, AcceptFree, Plan, CreateMarker, OpenState,
         FlushState, CreateLayer, Pass, Cancel, Fault, StepFails, RefuseArguments, Pass, RemoveFails, Interrupt, Kill, workspace
    <2> QED
      BY <1>1, <2>1
  <1>3. CASE Author(p) \/ Publish(p)
    <2>1. CASE BeginPayloads(p) \/ FinishPayloads(p)
      BY <2>1 DEF BeginPayloads, FinishPayloads
    <2>2. CASE WriteIndex(p) \/ StartCopy(p) \/ FinishCopy(p)
      BY <2>2 DEF WriteIndex, StartCopy, FinishCopy, Lists, AddParts
    <2>3. CASE ~(BeginPayloads(p) \/ FinishPayloads(p) \/ WriteIndex(p) \/ StartCopy(p) \/ FinishCopy(p))
      <3>1. payload' = payload
        BY <1>3, <2>3 DEF Author, MakeSpool, Generate, SaveRoot, SavedRoot, ExportRoot, ExportedRoot,
           Publish, OpenManifest, CloseManifest, PublishManifest, PublishRoot, Keep, Pass, Open, Close,
           Rename, workspace
      <3> QED
        BY <1>1, <3>1
    <2> QED
      BY <2>1, <2>2, <2>3
  <1>4. CASE RemoveFile(p) \/ RemoveMarker(p) \/ UndoSpool(p)
    BY <1>1, <1>4 DEF RemoveFile, RemoveMarker, UndoSpool
  <1>5. CASE RemovePayload(p)
    BY <1>5 DEF RemovePayload
  <1>6. CASE UndoTiles(p)
    BY <1>6 DEF UndoTiles
  <1> QED
    BY <1>2, <1>3, <1>4, <1>5, <1>6 DEF Step, Remove

LEMMA SparesStep ==
  ASSUME SparesInv, NEW p \in Procs, Start(p) \/ Step(p) \/ Fault(p)
  PROVE  Spares(p)' /\ Recording'
  <1> USE DEF SparesInv, TypeOK, GoTo, KeepRun, At
  <1>0. \A d \in Dirs : Foreign(d)' => Foreign(d)
    BY ForeignFades
  <1>1. CASE Start(p)
    <2>1. pc'[p] = "prepare" /\ UNCHANGED <<payload, marker, stateDir>>
      BY <1>1 DEF Start, workspace
    <2> QED
      BY <2>1 DEF Spares, Recording, Foreign, Unchecked, Recovers
  <1>2. CASE Recovery(p)
    <2>0. UNCHANGED <<payload, marker, stateDir, dir>>
      BY <1>2 DEF Recovery, NothingToRecover, KeepCompletedPair, RefuseRootWithoutManifest, RefuseState,
         BeginRecovery, Pass, workspace
    <2>1. CASE BeginRecovery(p)
      <3>1. pc'[p] = "rManifest" /\ target'[p] = Recorded(p) /\ Recorded(p) # Torn
        BY <2>1 DEF BeginRecovery, Removable
      <3>2. ~Foreign(Recorded(p)) \/ (Recorded(p) = dir[p] /\ "state" \notin marker)
        BY <3>1 DEF Recorded, Recording
      <3> QED
        BY <2>0, <3>1, <3>2 DEF Spares, Recording, Foreign, Unchecked, Recovering
    <2>2. CASE ~BeginRecovery(p)
      <3>1. pc'[p] \in Unchecked \ Recovers
        BY <1>2, <2>2 DEF Recovery, NothingToRecover, KeepCompletedPair, RefuseRootWithoutManifest,
           RefuseState, Pass, Unchecked, Recovers, Rest
      <3> QED
        BY <2>0, <3>1 DEF Spares, Recording, Foreign
    <2> QED
      BY <2>1, <2>2
  <1>3. CASE Setup(p)
    <2>0. payload' = payload /\ dir' = dir
      BY <1>3 DEF Setup, Prepare, RefuseTaken, AcceptFree, Plan, CreateMarker, OpenState, FlushState, CreateLayer,
         Pass, workspace
    <2>1. pc'[p] \notin Recovers
      BY <1>3 DEF Setup, Prepare, RefuseTaken, AcceptFree, Plan, CreateMarker, OpenState, FlushState, CreateLayer,
         Pass, Recovers
    <2>2. ~Foreign(dir[p]) \/ pc'[p] \in Unchecked
      <3>1. CASE Prepare(p) \/ RefuseTaken(p) \/ AcceptFree(p)
        BY <3>1 DEF Prepare, RefuseTaken, AcceptFree, Pass, Taken, Foreign, Unchecked, Rest
      <3>2. CASE ~(Prepare(p) \/ RefuseTaken(p) \/ AcceptFree(p))
        <4>1. pc[p] \notin Unchecked
          BY <1>3, <3>2 DEF Setup, Plan, CreateMarker, OpenState, FlushState, CreateLayer, Pass, Unchecked,
             Rest, Recovering
        <4> QED
          BY <4>1 DEF Spares
      <3> QED
        BY <3>1, <3>2
    <2>3. Recording'
      <3>1. CASE CreateMarker(p) \/ OpenState(p)
        BY <2>0, <3>1 DEF CreateMarker, OpenState, Recording, Foreign
      <3>2. CASE FlushState(p)
        <4>1. ~Foreign(dir[p])
          BY <3>2 DEF FlushState, Spares, Unchecked, Rest, Recovering
        <4> QED
          BY <2>0, <3>2, <4>1 DEF FlushState, Recording, Foreign
      <3>3. CASE Prepare(p) \/ RefuseTaken(p) \/ AcceptFree(p) \/ Plan(p) \/ CreateLayer(p)
        BY <2>0, <3>3 DEF Prepare, RefuseTaken, AcceptFree, Plan, CreateLayer, Pass, workspace, Recording, Foreign
      <3> QED
        BY <1>3, <3>1, <3>2, <3>3 DEF Setup
    <2> QED
      BY <2>0, <2>1, <2>2, <2>3 DEF Spares, Foreign
  <1>4. CASE Author(p) \/ Publish(p) \/ Cancel(p) \/ Remove(p) \/ Fault(p)
    <2>1. dir' = dir /\ target' = target /\ stateDir' = stateDir
      BY <1>4 DEF Author, MakeSpool, BeginPayloads, FinishPayloads, Generate, SaveRoot, SavedRoot, WriteIndex,
         ExportRoot, ExportedRoot, StartCopy, FinishCopy, Publish, OpenManifest, CloseManifest,
         PublishManifest, PublishRoot, Keep, Open, Close, AddParts, Rename, Pass, Cancel, Remove, RemoveFile,
         RemovePayload, RemoveMarker, UndoSpool, UndoTiles, Fault, StepFails, RefuseArguments, Pass, RemoveFails, Interrupt, Kill,
         workspace
    <2>2. "state" \in marker' => "state" \in marker
      BY <1>4 DEF Author, MakeSpool, BeginPayloads, FinishPayloads, Generate, SaveRoot, SavedRoot, WriteIndex,
         ExportRoot, ExportedRoot, StartCopy, FinishCopy, Publish, OpenManifest, CloseManifest,
         PublishManifest, PublishRoot, Keep, Open, Close, AddParts, Rename, Pass, Cancel, Remove, RemoveFile,
         RemovePayload, RemoveMarker, UndoSpool, UndoTiles, Fault, StepFails, RefuseArguments, Pass, RemoveFails, Interrupt, Kill,
         workspace
    <2>3. pc'[p] \notin Unchecked => pc[p] \notin Unchecked
      <3>1. CASE Author(p) \/ Publish(p) \/ Cancel(p) \/ UndoSpool(p) \/ UndoTiles(p)
        BY <3>1 DEF Author, MakeSpool, BeginPayloads, FinishPayloads, Generate, SaveRoot, SavedRoot,
           WriteIndex, ExportRoot, ExportedRoot, StartCopy, FinishCopy, Publish, OpenManifest, CloseManifest,
           PublishManifest, PublishRoot, Keep, Open, Close, AddParts, Rename, Pass, Cancel, Polled,
           UndoSpool, UndoTiles, Unchecked, Rest, Recovering
      <3>2. CASE RemoveFile(p) \/ RemovePayload(p) \/ RemoveMarker(p) \/ RemoveFails(p)
        BY <3>2 DEF RemoveFile, RemovePayload, RemoveMarker, RemoveFails, Victim, MarkerRemovals, AfterRemoval,
           Unchecked, Rest, Recovering
      <3>3. CASE StepFails(p) \/ RefuseArguments(p) \/ Interrupt(p) \/ Kill(p)
        BY <3>3 DEF StepFails, RefuseArguments, Pass, FailTo, Fallible, Building, Interrupt, Kill,
           Unchecked, Rest, Recovering
      <3> QED
        BY <1>4, <3>1, <3>2, <3>3 DEF Remove, Fault
    <2>4. pc'[p] \in Recovers => pc[p] \in Recovers
      <3>1. CASE Author(p) \/ Publish(p) \/ Cancel(p) \/ UndoSpool(p) \/ UndoTiles(p)
        BY <3>1 DEF Author, MakeSpool, BeginPayloads, FinishPayloads, Generate, SaveRoot, SavedRoot,
           WriteIndex, ExportRoot, ExportedRoot, StartCopy, FinishCopy, Publish, OpenManifest, CloseManifest,
           PublishManifest, PublishRoot, Keep, Open, Close, AddParts, Rename, Pass, Cancel, CancelTo,
           UndoSpool, UndoTiles, Recovers
      <3>2. CASE RemoveFile(p) \/ RemovePayload(p) \/ RemoveMarker(p) \/ RemoveFails(p)
        BY <3>2 DEF RemoveFile, RemovePayload, RemoveMarker, RemoveFails, Victim, MarkerRemovals, AfterRemoval,
           Recovers, Recovering
      <3>3. CASE StepFails(p) \/ RefuseArguments(p) \/ Interrupt(p) \/ Kill(p)
        BY <3>3 DEF StepFails, RefuseArguments, Pass, FailTo, Interrupt, Kill, Recovers
      <3> QED
        BY <1>4, <3>1, <3>2, <3>3 DEF Remove, Fault
    <2>5. \A d \in Dirs : ~Foreign(d) => "foreign" \notin payload'[d]
      BY <1>0 DEF Foreign
    <2>6. Spares(p) /\ Recording /\ dir[p] \in Dirs /\ target[p] \in Dirs /\ (stateDir = Torn \/ stateDir \in Dirs)
      OBVIOUS
    <2>7. Spares(p)'
      BY <2>1, <2>2, <2>3, <2>4, <2>5, <2>6 DEF Spares, Foreign
    <2>8. Recording'
      BY <2>1, <2>2, <2>5, <2>6 DEF Recording, Foreign
    <2> QED
      BY <2>7, <2>8
  <1> QED
    BY <1>1, <1>2, <1>3, <1>4 DEF Step

LEMMA SparesInit == Init => SparesInv
  <1>1. Init => TypeOK /\ Alone
    BY InvInit DEF IInv
  <1>2. Init => Recording /\ \A p \in Procs : Spares(p)
    BY DEF Init, Recording, Spares, Unchecked, Recovers, Rest
  <1> QED
    BY <1>1, <1>2 DEF SparesInv

LEMMA SparesNext == ASSUME Serial PROVE SparesInv /\ [Next]_vars => SparesInv'
  <1> SUFFICES ASSUME SparesInv, [Next]_vars PROVE SparesInv'
    OBVIOUS
  <1>1. CASE UNCHANGED vars
    BY <1>1 DEF vars, workspace, control, SparesInv, TypeOK, Alone, Active, Recording, Spares, Foreign
  <1>2. ASSUME NEW p \in Procs, Start(p) \/ Step(p) \/ Fault(p)
        PROVE  SparesInv'
    <2>1. TypeOK'
      BY <1>2, TypeNext DEF SparesInv, Next
    <2>2. Alone' /\ \A q \in Procs \ {p} : pc'[q] \in Rest
      BY <1>2, AloneNext DEF SparesInv
    <2>3. Spares(p)' /\ Recording'
      BY <1>2, SparesStep
    <2>4. ASSUME NEW q \in Procs \ {p} PROVE Spares(q)'
      BY <2>2 DEF Spares, Unchecked, Recovers, Rest
    <2> QED
      BY <2>1, <2>2, <2>3, <2>4 DEF SparesInv
  <1> QED
    BY <1>1, <1>2 DEF Next

(* A payload directory that somebody else filled is emptied by nobody but  *)
(* a recovery that finds no recorded directory and was given this one.     *)
THEOREM UserDataSpared == ASSUME Serial PROVE Spec => UserDataKept
  <1>1. ASSUME SparesInv, Next, NEW d \in Dirs, "foreign" \in payload[d], "foreign" \notin payload'[d]
        PROVE  \E p \in Procs : /\ At(p, "rPayload") /\ target[p] = d
                                /\ dir[p] = d /\ "state" \notin marker
    <2>1. PICK p \in Procs : Start(p) \/ Step(p) \/ Fault(p)
      BY <1>1 DEF Next
    <2>2. RemovePayload(p) /\ d = Doomed(p) /\ Spares(p)
      BY <1>1, <2>1, ForeignFades DEF SparesInv, Foreign
    <2>3. pc[p] # "cPayload"
      BY <1>1, <2>2 DEF Spares, Foreign, Doomed, At, Unchecked, Rest, Recovering
    <2>4. At(p, "rPayload") /\ target[p] = d
      BY <2>2, <2>3 DEF RemovePayload, Doomed, At
    <2>5. dir[p] = d /\ "state" \notin marker
      BY <1>1, <2>2, <2>4 DEF Spares, Foreign, At, Recovers
    <2> QED
      BY <2>4, <2>5
  <1>2. SparesInv /\ [Next]_vars
          => [\A d \in Dirs :
                "foreign" \in payload[d] /\ "foreign" \notin payload'[d] =>
                   \E p \in Procs : /\ At(p, "rPayload") /\ target[p] = d
                                    /\ dir[p] = d /\ "state" \notin marker]_vars
    BY <1>1
  <1> QED
    BY <1>2, SparesInit, SparesNext, PTL DEF Spec, UserDataKept

-----------------------------------------------------------------------------
(* A run that may change something holds the marker; without it, a run has *)
(* not looked yet or has seen the output path free.                        *)
Looking == Rest \cup {"prepare", "recover", "check", "plan", "mark"}

Holds(p) ==
    /\ pc[p] \notin Looking => "dir" \in marker
    /\ pc[p] \in {"plan", "mark"} => files["output"] = NoFile

HoldsInv ==
    /\ TypeOK /\ Alone
    /\ marker # {} => "dir" \in marker
    /\ \A p \in Procs : Holds(p)

LEMMA HoldsStep ==
  ASSUME HoldsInv, NEW p \in Procs, Start(p) \/ Step(p) \/ Fault(p)
  PROVE  Holds(p)' /\ (marker' # {} => "dir" \in marker')
  <1> USE DEF HoldsInv, TypeOK, GoTo, KeepRun, At
  <1>1. CASE Start(p) \/ Recovery(p)
    BY <1>1 DEF Start, Recovery, NothingToRecover, KeepCompletedPair, RefuseRootWithoutManifest, RefuseState,
       BeginRecovery, Pass, workspace, Holds, Looking, Rest
  <1>2. CASE Setup(p)
    <2>1. CASE Prepare(p) \/ RefuseTaken(p) \/ AcceptFree(p) \/ CreateLayer(p)
      BY <2>1 DEF Prepare, RefuseTaken, AcceptFree, CreateLayer, Pass, workspace, Taken, Holds, Looking, Rest
    <2>2. CASE Plan(p)
      BY <2>2 DEF Plan, workspace, Holds, Looking, Rest
    <2>3. CASE CreateMarker(p)
      BY <2>3 DEF CreateMarker, Holds, Looking, Rest
    <2>4. CASE OpenState(p) \/ FlushState(p)
      BY <2>4 DEF OpenState, FlushState, Holds, Looking, Rest
    <2> QED
      BY <1>2, <2>1, <2>2, <2>3, <2>4 DEF Setup
  <1>3. CASE Author(p) \/ Publish(p) \/ Cancel(p) \/ UndoSpool(p) \/ UndoTiles(p)
    <2>1. pc[p] \notin Looking /\ pc'[p] \notin {"plan", "mark"}
      BY <1>3 DEF Author, MakeSpool, BeginPayloads, FinishPayloads, Generate, SaveRoot, SavedRoot, WriteIndex,
         ExportRoot, ExportedRoot, StartCopy, FinishCopy, Publish, OpenManifest, CloseManifest,
         PublishManifest, PublishRoot, Keep, Open, Close, AddParts, Rename, Pass, Cancel, CancelTo, Polled,
         UndoSpool, UndoTiles, Looking, Rest
    <2>2. "dir" \in marker => "dir" \in marker'
      BY <1>3 DEF Author, MakeSpool, BeginPayloads, FinishPayloads, Generate, SaveRoot, SavedRoot, WriteIndex,
         ExportRoot, ExportedRoot, StartCopy, FinishCopy, Publish, OpenManifest, CloseManifest,
         PublishManifest, PublishRoot, Keep, Open, Close, AddParts, Rename, Pass, Cancel, UndoSpool,
         UndoTiles, workspace
    <2> QED
      BY <2>1, <2>2 DEF Holds
  <1>4. CASE RemoveFile(p) \/ RemovePayload(p)
    <2>1. pc[p] \notin Looking /\ pc'[p] \notin {"plan", "mark"} /\ marker' = marker
      BY <1>4 DEF RemoveFile, RemovePayload, Victim, AfterRemoval, Looking, Rest
    <2> QED
      BY <2>1 DEF Holds
  <1>5. CASE RemoveMarker(p)
    BY <1>5 DEF RemoveMarker, MarkerRemovals, AfterRemoval, Holds, Looking, Rest
  <1>6. CASE StepFails(p) \/ RefuseArguments(p) \/ RemoveFails(p)
    <2>1. CASE StepFails(p) \/ RefuseArguments(p)
      BY <2>1 DEF StepFails, RefuseArguments, Pass, FailTo, Fallible, Building, workspace, Holds, Looking, Rest
    <2>2. CASE RemoveFails(p)
      <3>1. pc[p] \notin Looking /\ pc'[p] \notin {"plan", "mark"} /\ (marker = {} => pc'[p] \in Looking) /\ marker' = marker
        BY <2>2 DEF RemoveFails, Victim, MarkerRemovals, AfterRemoval, Recovering, workspace, Looking, Rest, Holds
      <3> QED
        BY <3>1 DEF Holds
    <2> QED
      BY <1>6, <2>1, <2>2
  <1>7. CASE Interrupt(p) \/ Kill(p)
    BY <1>7 DEF Interrupt, Kill, workspace, Holds, Looking, Rest
  <1> QED
    BY <1>1, <1>2, <1>3, <1>4, <1>5, <1>6, <1>7 DEF Step, Remove, Fault

LEMMA HoldsInit == Init => HoldsInv
  <1>1. Init => TypeOK /\ Alone
    BY InvInit DEF IInv
  <1>2. Init => marker = {} /\ \A p \in Procs : Holds(p)
    BY DEF Init, Holds, Looking, Rest
  <1> QED
    BY <1>1, <1>2 DEF HoldsInv

LEMMA HoldsNext == ASSUME Serial PROVE HoldsInv /\ [Next]_vars => HoldsInv'
  <1> SUFFICES ASSUME HoldsInv, [Next]_vars PROVE HoldsInv'
    OBVIOUS
  <1>1. CASE UNCHANGED vars
    BY <1>1 DEF vars, workspace, control, HoldsInv, TypeOK, Alone, Active, Holds
  <1>2. ASSUME NEW p \in Procs, Start(p) \/ Step(p) \/ Fault(p)
        PROVE  HoldsInv'
    <2>1. TypeOK'
      BY <1>2, TypeNext DEF HoldsInv, Next
    <2>2. Alone' /\ \A q \in Procs \ {p} : pc'[q] \in Rest
      BY <1>2, AloneNext DEF HoldsInv
    <2>3. Holds(p)' /\ (marker' # {} => "dir" \in marker')
      BY <1>2, HoldsStep
    <2>4. ASSUME NEW q \in Procs \ {p} PROVE Holds(q)'
      BY <2>2 DEF Holds, Looking, Rest
    <2> QED
      BY <2>1, <2>2, <2>3, <2>4 DEF HoldsInv
  <1> QED
    BY <1>1, <1>2 DEF Next

(* Once the marker of the conversion that published a pair is gone, no     *)
(* later invocation changes the pair, its payloads or the marker: without  *)
(* one, main() only looks, and leaves when it has looked.                  *)
THEOREM PairKept == ASSUME Serial PROVE Spec => CompletedPairKept
  <1>1. ASSUME HoldsInv, Next, PairComplete, marker = {}
        PROVE  UNCHANGED <<files, payload, marker>>
    <2>1. PICK p \in Procs : Start(p) \/ Step(p) \/ Fault(p)
      BY <1>1 DEF Next
    <2>2. pc[p] \in Looking /\ pc[p] \notin {"plan", "mark"}
      BY <1>1 DEF HoldsInv, Holds, PairComplete
    <2>3. CASE Start(p) \/ Recovery(p) \/ Setup(p)
      BY <2>2, <2>3 DEF Start, Recovery, NothingToRecover, KeepCompletedPair, RefuseRootWithoutManifest,
         RefuseState, BeginRecovery, Setup, Prepare, RefuseTaken, AcceptFree, Plan, CreateMarker, OpenState, FlushState,
         CreateLayer, Pass, At, workspace, Looking, Rest
    <2>4. ~(Author(p) \/ Publish(p) \/ Cancel(p) \/ Remove(p) \/ RemoveFails(p))
      <3>1. ~(Author(p) \/ Publish(p) \/ Cancel(p) \/ UndoSpool(p) \/ UndoTiles(p))
        BY <2>2 DEF Author, MakeSpool, BeginPayloads, FinishPayloads, Generate, SaveRoot, SavedRoot,
           WriteIndex, ExportRoot, ExportedRoot, StartCopy, FinishCopy, Publish, OpenManifest, CloseManifest,
           PublishManifest, PublishRoot, Keep, Open, Close, AddParts, Rename, Pass, At, Cancel, Polled,
           UndoSpool, UndoTiles, Looking, Rest
      <3>2. ~(RemoveFile(p) \/ RemovePayload(p) \/ RemoveMarker(p) \/ RemoveFails(p))
        BY <2>2 DEF RemoveFile, RemovePayload, RemoveMarker, RemoveFails, Victim, MarkerRemovals, Looking,
           Rest
      <3> QED
        BY <3>1, <3>2 DEF Remove
    <2>5. CASE StepFails(p) \/ RefuseArguments(p) \/ Interrupt(p) \/ Kill(p)
      BY <2>5 DEF StepFails, RefuseArguments, Interrupt, Kill, Pass, workspace
    <2> QED
      BY <2>1, <2>3, <2>4, <2>5 DEF Step, Fault
  <1>2. HoldsInv /\ [Next]_vars
          => [PairComplete /\ marker = {} => UNCHANGED <<files, payload, marker>>]_vars
    BY <1>1
  <1> QED
    BY <1>2, HoldsInit, HoldsNext, PTL DEF Spec, CompletedPairKept

=============================================================================
