----------------------- MODULE BackupExecutionProofs -----------------------
(***************************************************************************)
(* Machine-checked proofs about BackupExecution, for any set of BackupJobs *)
(* and any bounds.                                                         *)
(***************************************************************************)
EXTENDS BackupExecution, TLAPS

----------------------------------------------------------------------------
(* Type correctness *)

(* The values objects and locals start from have the types declared.       *)
LEMMA DefaultTypes ==
    /\ NoNative \in Native /\ NoPod \in Pod /\ NoSnapshot \in Snapshot
    /\ NoStatus \in Status /\ Idle \in Rec /\ Idle.pc = "idle"
<1>1. NoNative \in Native
  BY DEF NoNative, Native, NativeStates
<1>2. NoStatus \in Status
  BY DEF NoStatus, Status, Phases, Deliveries
<1>3. NoPod \in Pod
  BY DEF NoPod, Pod, ProbeResults
<1>4. NoSnapshot \in Snapshot
  BY DEF NoSnapshot, Snapshot
<1>5. Idle \in Rec /\ Idle.pc = "idle"
  BY <1>1, <1>2 DEF Idle, Rec, PCs
<1>6. QED
  BY <1>1, <1>2, <1>3, <1>4, <1>5

(* A merge patch takes every field from the current object or the new one. *)
LEMMA MergePatchFields ==
    ASSUME NEW current \in Status, NEW base \in Status, NEW new \in Status
    PROVE  /\ MergePatch(current, base, new) \in Status
           /\ MergePatch(current, base, new).phase \in {current.phase, new.phase}
           /\ MergePatch(current, base, new).snapshotRef
                 \in {current.snapshotRef, new.snapshotRef}
    BY DEF MergePatch, Status

(* Whatever well-typed locals a reconcile moves on with, rec stays typed;   *)
(* in particular when it ends, and when it has come to a decision.          *)
LEMMA RecUpdateType ==
    ASSUME RecTypeOK, NEW j \in Jobs, NEW r \in Rec,
           r.pc = "notify" => r.new.phase \in {"Succeeded", "Failed"},
           rec' = [rec EXCEPT ![j] = r]
    PROVE  RecTypeOK'
    BY DEF RecTypeOK

(* A reconcile that ends leaves rec typed. *)
LEMMA ReturnType ==
    ASSUME RecTypeOK, NEW j \in Jobs, Return(j) PROVE RecTypeOK'
    BY DefaultTypes DEF RecTypeOK, Return

(* So does one that goes on to register a Snapshot, or to mark it ready.    *)
LEMMA LocalsType ==
    ASSUME NEW r \in Rec, NEW pc \in PCs, NEW new \in Status, NEW artifact \in Nat
    PROVE  /\ Decided(r, pc, new) \in Rec
           /\ Decided(r, pc, new).pc = pc
           /\ Decided(r, pc, new).new = new
           /\ Registering(r, artifact) \in Rec
           /\ Registering(r, artifact).pc = "persist"
           /\ Registered(r) \in Rec
           /\ Registered(r).pc = "ready"
<1>1. /\ Decided(r, pc, new) \in Rec
      /\ Decided(r, pc, new).pc = pc
      /\ Decided(r, pc, new).new = new
  BY DefaultTypes DEF Decided, Rec
<1>2. "persist" \in PCs /\ "ready" \in PCs
  BY DEF PCs
<1>3. QED
  BY <1>1, <1>2 DEF Registering, Registered, Rec

(* So does one that has come to a decision. *)
LEMMA DecideType ==
    ASSUME RecTypeOK, NEW j \in Jobs, NEW pc \in PCs, NEW new \in Status,
           pc = "notify" => new.phase \in {"Succeeded", "Failed"},
           Decide(j, pc, new)
    PROVE  RecTypeOK'
<1> DEFINE r == Decided(rec[j], pc, new)
<1>1. rec[j] \in Rec
  BY DEF RecTypeOK
<1>2. r \in Rec /\ r.pc = pc /\ r.new = new
  BY <1>1, LocalsType, 0 \in Nat
<1>3. rec' = [rec EXCEPT ![j] = r]
  BY DEF Decide
<1> HIDE DEF r
<1>4. QED
  BY <1>2, <1>3, RecUpdateType

(* A terminal observation fills in a well-typed status.                     *)
LEMMA ObservedType ==
    ASSUME RecTypeOK, NEW j \in Jobs, NEW phase \in {"Succeeded", "Failed"},
           NEW ref \in BOOLEAN
    PROVE  /\ Observed(j, phase, ref) \in Status
           /\ Observed(j, phase, ref).phase = phase
           /\ Observed(j, phase, ref).snapshotRef = ref
           /\ AfterObservation(j) \in PCs
           /\ PhaseWithoutSnapshot(j) \in {"Succeeded", "Failed"}
<1>1. rec[j].new \in Status
  BY DEF RecTypeOK, Rec
<1>0. phase \in Phases
  BY DEF Phases
<1>2. /\ Observed(j, phase, ref) \in Status
      /\ Observed(j, phase, ref).phase = phase
      /\ Observed(j, phase, ref).snapshotRef = ref
  BY <1>0, <1>1 DEF Observed, Status
<1>3. AfterObservation(j) \in PCs /\ PhaseWithoutSnapshot(j) \in {"Succeeded", "Failed"}
  BY DEF AfterObservation, PhaseWithoutSnapshot, PCs
<1>4. QED
  BY <1>2, <1>3

(* Every step keeps every variable in its type.                             *)
LEMMA TypeStep ==
    ASSUME TypeOK, [Next]_vars PROVE TypeOK'
<1>0. RecTypeOK
  BY DEF TypeOK
<1>1. CASE Restart
  BY <1>1, DefaultTypes DEF Restart, TypeOK, RecTypeOK
<1>2. ASSUME NEW j \in Jobs, Begin(j) PROVE TypeOK'
  <2>1. \A b \in Status : \A p \in {"Pending", "Running", "Failed", "Paused"} :
           [b EXCEPT !.phase = p] \in Status
    BY DEF Status, Phases
  <2>2. statusView[j] \in Status /\ nativeView[j] \in Native
    BY DEF TypeOK
  <2>3. ASSUME NEW pc \in PCs \ {"notify"}, NEW new \in Status,
               NEW seen \in Native,
               rec' = [rec EXCEPT ![j] = [pc |-> pc, base |-> statusView[j],
                          new |-> new, seen |-> seen, artifact |-> 0]]
        PROVE  RecTypeOK'
    BY <2>2, <2>3 DEF TypeOK, RecTypeOK, Rec
  <2>4. {"create", "patch", "observe"} \subseteq PCs \ {"notify"}
    BY DEF PCs
  <2>6. \A pc : (IF pc = "observe" THEN nativeView[j] ELSE NoNative) \in Native
    BY <2>2, DefaultTypes
  <2>7. RecTypeOK'
    BY <1>2, <2>1, <2>2, <2>3, <2>4, <2>6 DEF Begin
  <2>5. QED
    BY <1>2, <2>7 DEF Begin, TypeOK
<1>3. ASSUME NEW j \in Jobs, CreateNative(j) PROVE TypeOK'
  <2>1. native' \in [Jobs -> Native]
    BY <1>3 DEF CreateNative, TypeOK, Native, NativeStates
  <2>2. [rec[j].new EXCEPT !.phase = "Running"] \in Status
    BY ZenonT(60) DEF TypeOK, RecTypeOK, Rec, Status, Phases
  <2>3. RecTypeOK'
    BY <1>3, <2>2, DecideType DEF CreateNative, TypeOK, PCs
  <2>4. QED
    BY <1>3, <2>1, <2>3 DEF CreateNative, TypeOK
<1>4. ASSUME NEW j \in Jobs, Observe(j) PROVE TypeOK'
  <2>1. probe' \in ProbeResults
    BY <1>4 DEF Observe, TypeOK, Pod
  <2>2. ASSUME Register(j, pod[j].run) PROVE RecTypeOK'
    <3>1. pod[j].run \in Nat /\ rec[j] \in Rec
      BY DEF TypeOK, RecTypeOK, Pod
    <3> DEFINE r == Registering(rec[j], pod[j].run)
    <3>2. r \in Rec /\ r.pc = "persist"
      BY <3>1, LocalsType, DefaultTypes, "idle" \in PCs DEF PCs
    <3>3. rec' = [rec EXCEPT ![j] = r]
      BY <2>2 DEF Register
    <3> HIDE DEF r
    <3>4. QED
      BY <1>0, <3>2, <3>3, RecUpdateType
  <2>3. ASSUME Decide(j, AfterObservation(j),
                      Observed(j, PhaseWithoutSnapshot(j), FALSE))
        PROVE  RecTypeOK'
    <3>1. PhaseWithoutSnapshot(j) \in {"Succeeded", "Failed"}
      BY DEF PhaseWithoutSnapshot
    <3> DEFINE new == Observed(j, PhaseWithoutSnapshot(j), FALSE)
    <3>2. new \in Status /\ new.phase \in {"Succeeded", "Failed"}
      BY <1>0, <3>1, ObservedType
    <3>3. AfterObservation(j) \in PCs
      BY DEF AfterObservation, PCs
    <3>4. Decide(j, AfterObservation(j), new)
      BY <2>3
    <3> HIDE DEF new
    <3>5. QED
      BY <1>0, <3>2, <3>3, <3>4, DecideType
  <2>4. RecTypeOK'
    BY <1>4, <2>2, <2>3 DEF Observe, TypeOK
  <2>5. QED
    BY <1>4, <2>1, <2>4 DEF Observe, TypeOK
<1>5. ASSUME NEW j \in Jobs, PersistSnapshot(j) PROVE TypeOK'
  <2>1. snap' \in [Jobs -> Snapshot]
    <3>1. snap[j] \in Snapshot /\ rec[j].artifact \in Nat
      BY DEF TypeOK, RecTypeOK, Rec
    <3>2. [snap[j] EXCEPT !.run = rec[j].artifact] \in Snapshot
      BY <3>1 DEF Snapshot
    <3>3. QED
      BY <1>5, <3>2 DEF PersistSnapshot, TypeOK
  <2>2. ASSUME MarkReady(j) PROVE RecTypeOK'
    <3>1. rec[j] \in Rec /\ rec[j].artifact \in Nat /\ rec[j].new \in Status
      BY DEF TypeOK, RecTypeOK, Rec
    <3> DEFINE r == Registered(rec[j])
    <3>2. r \in Rec /\ r.pc = "ready"
      BY <3>1, LocalsType, "idle" \in PCs DEF PCs
    <3>3. rec' = [rec EXCEPT ![j] = r]
      BY <2>2 DEF MarkReady
    <3> HIDE DEF r
    <3>4. QED
      BY <1>0, <3>2, <3>3, RecUpdateType
  <2>3. RecTypeOK'
    BY <1>5, <2>2, ReturnType DEF PersistSnapshot, TypeOK
  <2>4. QED
    BY <1>5, <2>1, <2>3 DEF PersistSnapshot, TypeOK
<1>6. ASSUME NEW j \in Jobs, MarkSnapshotReady(j) PROVE TypeOK'
  <2>1. snap' \in [Jobs -> Snapshot]
    <3>0. snap[j] \in Snapshot
      BY DEF TypeOK
    <3>1. [snap[j] EXCEPT !.ready = TRUE] \in Snapshot
      BY <3>0 DEF Snapshot
    <3>2. QED
      BY <1>6, <3>1 DEF MarkSnapshotReady, TypeOK
  <2>2. RecTypeOK'
    BY <1>6, ReturnType, ObservedType, DecideType DEF MarkSnapshotReady, TypeOK
  <2>3. QED
    BY <1>6, <2>1, <2>2 DEF MarkSnapshotReady, TypeOK
<1>7. ASSUME NEW j \in Jobs, Dispatch(j) PROVE TypeOK'
  <2>1. Delivered(j) \in Event
    BY <1>7 DEF Dispatch, Delivered, Event, TypeOK, RecTypeOK, Rec, Native
  <2>2. /\ [rec[j].new EXCEPT !.notification = "Succeeded"] \in Status
        /\ [rec[j].new EXCEPT !.notification = "Failed"] \in Status
    <3>1. /\ rec[j].new \in Status
          /\ "Succeeded" \in Deliveries /\ "Failed" \in Deliveries
      BY DEF TypeOK, RecTypeOK, Rec, Deliveries
    <3>2. QED
      BY <3>1 DEF Status
  <2>3. RecTypeOK'
    BY <1>7, <2>2, DecideType DEF Dispatch, TypeOK, PCs
  <2>4. notified' \in [Jobs -> SUBSET Event] /\ faults' \in Nat
    BY <1>7, <2>1 DEF Dispatch, TypeOK
  <2>5. QED
    BY <1>7, <2>3, <2>4 DEF Dispatch, TypeOK
<1>8. ASSUME NEW j \in Jobs, PatchStatus(j) PROVE TypeOK'
  <2>1. MergePatch(status[j], rec[j].base, rec[j].new) \in Status
    BY MergePatchFields DEF TypeOK, RecTypeOK, Rec
  <2>2. RecTypeOK'
    BY <1>8, ReturnType DEF PatchStatus, TypeOK
  <2>3. QED
    BY <1>8, <2>1, <2>2 DEF PatchStatus, TypeOK
<1>9. ASSUME NEW j \in Jobs, ApiError(j) PROVE TypeOK'
  <2>1. RecTypeOK'
    BY <1>9, ReturnType DEF ApiError, TypeOK
  <2>2. QED
    BY <1>9, <2>1 DEF ApiError, TypeOK
<1>10. ASSUME NEW j \in Jobs, Sync(j) PROVE TypeOK'
  BY <1>10 DEF Sync, SyncNative, SyncSnapshot, SyncStatus, TypeOK, RecTypeOK
<1>11. ASSUME NEW j \in Jobs, StartJob(j) PROVE TypeOK'
  <2>1. native' \in [Jobs -> Native]
    BY <1>11 DEF StartJob, TypeOK, Native, NativeStates
  <2>2. pod' \in [Jobs -> Pod]
    BY <1>11 DEF StartJob, TypeOK, Native, Pod, NoPod, ProbeResults
  <2>3. QED
    BY <1>11, <2>1, <2>2 DEF StartJob, TypeOK, RecTypeOK
<1>12. ASSUME NEW j \in Jobs, CompleteJob(j) PROVE TypeOK'
  <2>1. native' \in [Jobs -> Native]
    BY <1>12 DEF CompleteJob, TypeOK, Native, NativeStates
  <2>2. pod' \in [Jobs -> Pod]
    BY <1>12 DEF CompleteJob, TypeOK, Native, Pod, ProbeResults
  <2>3. uploaded' \in [Jobs -> SUBSET Nat] /\ completed' \in [Jobs -> SUBSET Nat]
    BY <1>12 DEF CompleteJob, TypeOK, Native
  <2>4. QED
    BY <1>12, <2>1, <2>2, <2>3 DEF CompleteJob, TypeOK, RecTypeOK
<1>13. ASSUME NEW j \in Jobs, FailJob(j) PROVE TypeOK'
  <2>1. native' \in [Jobs -> Native]
    BY <1>13 DEF FailJob, TypeOK, Native, NativeStates
  <2>2. pod' \in [Jobs -> Pod]
    <3>1. native[j].run \in Nat
      BY DEF TypeOK, Native
    <3>2. \A r \in ProbeResults :
            [run |-> native[j].run, artifact |-> FALSE, probe |-> r] \in Pod
      BY <3>1 DEF Pod
    <3>3. QED
      BY <1>13, <3>2, DefaultTypes DEF FailJob, TypeOK
  <2>3. QED
    BY <1>13, <2>1, <2>2 DEF FailJob, TypeOK, RecTypeOK
<1>14. ASSUME NEW j \in Jobs, ExpireJob(j) PROVE TypeOK'
  <2>1. native' \in [Jobs -> Native]
    BY <1>14 DEF ExpireJob, TypeOK, Native, NativeStates
  <2>2. QED
    BY <1>14, <2>1 DEF ExpireJob, TypeOK, RecTypeOK
<1>15. ASSUME NEW j \in Jobs, CollectPod(j) PROVE TypeOK'
  BY <1>15, DefaultTypes DEF CollectPod, TypeOK, RecTypeOK
<1>16. ASSUME NEW j \in Jobs, DeleteSnapshot(j) PROVE TypeOK'
  BY <1>16, DefaultTypes DEF DeleteSnapshot, TypeOK, RecTypeOK
<1>17. ASSUME NEW j \in Jobs, Reconfigure(j) PROVE TypeOK'
  BY <1>17 DEF Reconfigure, TypeOK, RecTypeOK
<1>18. CASE UNCHANGED vars
  BY <1>18 DEF vars, TypeOK, RecTypeOK
<1>19. QED
  BY <1>1, <1>2, <1>3, <1>4, <1>5, <1>6, <1>7, <1>8, <1>9, <1>10, <1>11,
     <1>12, <1>13, <1>14, <1>15, <1>16, <1>17, <1>18
  DEF Next, Reconcile, Environment


----------------------------------------------------------------------------
(* Where claims come from *)

(* How the locals change when a reconcile moves on.                         *)
LEMMA DecideLocals ==
    ASSUME RecTypeOK, NEW j \in Jobs, NEW pc, NEW new, Decide(j, pc, new)
    PROVE  /\ rec'[j].pc = pc
           /\ rec'[j].base = rec[j].base
           /\ rec'[j].new = new
           /\ rec'[j].seen = IF pc = "patch" THEN NoNative ELSE rec[j].seen
           /\ \A k \in Jobs \ {j} : rec'[k] = rec[k]
<1> DEFINE r == Decided(rec[j], pc, new)
<1>1. rec \in [Jobs -> Rec] /\ rec[j] \in Rec
  BY DEF RecTypeOK
<1>2. /\ r.pc = pc /\ r.base = rec[j].base /\ r.new = new
      /\ r.seen = IF pc = "patch" THEN NoNative ELSE rec[j].seen
  BY <1>1 DEF Decided, Rec
<1>3. rec' = [rec EXCEPT ![j] = r]
  BY DEF Decide
<1> HIDE DEF r
<1>4. QED
  BY <1>1, <1>2, <1>3

(* Registering keeps the status being computed and what was seen. *)
LEMMA RegisterLocals ==
    ASSUME RecTypeOK, NEW j \in Jobs, NEW artifact, Register(j, artifact)
    PROVE  /\ rec'[j].pc = "persist"
           /\ rec'[j].artifact = artifact
           /\ rec'[j].seen = rec[j].seen
           /\ rec'[j].base = rec[j].base
           /\ rec'[j].new = rec[j].new
           /\ \A k \in Jobs \ {j} : rec'[k] = rec[k]
<1> DEFINE r == Registering(rec[j], artifact)
<1>1. rec \in [Jobs -> Rec] /\ rec[j] \in Rec
  BY DEF RecTypeOK
<1>2. /\ r.pc = "persist" /\ r.artifact = artifact
      /\ r.seen = rec[j].seen /\ r.base = rec[j].base /\ r.new = rec[j].new
  BY <1>1 DEF Registering, Rec
<1>3. rec' = [rec EXCEPT ![j] = r]
  BY DEF Register
<1> HIDE DEF r
<1>4. QED
  BY <1>1, <1>2, <1>3

(* So does marking the Snapshot ready. *)
LEMMA MarkReadyLocals ==
    ASSUME RecTypeOK, NEW j \in Jobs, MarkReady(j)
    PROVE  /\ rec'[j].pc = "ready"
           /\ rec'[j].seen = rec[j].seen
           /\ rec'[j].base = rec[j].base
           /\ rec'[j].new = rec[j].new
           /\ \A k \in Jobs \ {j} : rec'[k] = rec[k]
<1> DEFINE r == Registered(rec[j])
<1>1. rec \in [Jobs -> Rec] /\ rec[j] \in Rec
  BY DEF RecTypeOK
<1>2. /\ r.pc = "ready"
      /\ r.seen = rec[j].seen /\ r.base = rec[j].base /\ r.new = rec[j].new
  BY <1>1 DEF Registered, Rec
<1>3. rec' = [rec EXCEPT ![j] = r]
  BY DEF MarkReady
<1> HIDE DEF r
<1>4. QED
  BY <1>1, <1>2, <1>3

(* A reconcile that ends forgets everything. *)
LEMMA ReturnLocals ==
    ASSUME RecTypeOK, NEW j \in Jobs, Return(j)
    PROVE  /\ rec'[j] = Idle
           /\ \A k \in Jobs \ {j} : rec'[k] = rec[k]
    BY DEF RecTypeOK, Return

(* What the values objects and locals start from say. *)
LEMMA DefaultFields ==
    /\ Idle.pc = "idle" /\ Idle.base = NoStatus /\ Idle.new = NoStatus
    /\ Idle.seen = NoNative /\ NoNative.state = "absent"
    /\ NoStatus.phase = "" /\ NoStatus.snapshotRef = FALSE
    /\ NoPod.artifact = FALSE
    BY DEF Idle, NoStatus, NoNative, NoPod

(* Native Jobs are created one at a time, whatever the cache shows.         *)
LEMMA OneJobStep ==
    ASSUME TypeOK, OneJobAtATime, [Next]_vars PROVE OneJobAtATime'
<1> USE DEF OneJobAtATime
<1>1. ASSUME NEW j \in Jobs, CreateNative(j) PROVE OneJobAtATime'
  BY <1>1 DEF CreateNative, TypeOK, Native
<1>2. ASSUME NEW j \in Jobs, StartJob(j) PROVE OneJobAtATime'
  BY <1>2 DEF StartJob, TypeOK, Native
<1>3. ASSUME NEW j \in Jobs, CompleteJob(j) PROVE OneJobAtATime'
  BY <1>3 DEF CompleteJob, TypeOK, Native
<1>4. ASSUME NEW j \in Jobs, FailJob(j) PROVE OneJobAtATime'
  BY <1>4 DEF FailJob, TypeOK, Native
<1>5. ASSUME NEW j \in Jobs, ExpireJob(j) PROVE OneJobAtATime'
  BY <1>5 DEF ExpireJob, Finished, TypeOK, Native
<1>6. CASE UNCHANGED <<native, expired>>
  BY <1>6
<1>7. QED
  BY <1>1, <1>2, <1>3, <1>4, <1>5, <1>6
  DEF Next, vars, Restart, Begin, Reconcile, Observe, PersistSnapshot,
      MarkSnapshotReady, Dispatch, PatchStatus, ApiError, Sync, SyncNative,
      SyncSnapshot, SyncStatus, Environment, CollectPod, DeleteSnapshot, Reconfigure

(* A step of a reconcile changes the locals in one of four ways.            *)
LEMMA ReconcileMoves ==
    ASSUME NEW j \in Jobs, Reconcile(j) \/ ApiError(j)
    PROVE  \/ \E pc, new : Decide(j, pc, new)
           \/ \E artifact : Register(j, artifact)
           \/ MarkReady(j)
           \/ Return(j)
<1>1. CASE CreateNative(j)
  BY <1>1, Zenon DEF CreateNative
<1>2. CASE Observe(j)
  BY <1>2, Zenon DEF Observe
<1>3. CASE PersistSnapshot(j)
  BY <1>3, Zenon DEF PersistSnapshot
<1>4. CASE MarkSnapshotReady(j)
  BY <1>4, Zenon DEF MarkSnapshotReady
<1>5. CASE Dispatch(j)
  BY <1>5, Zenon DEF Dispatch
<1>6. CASE PatchStatus(j)
  BY <1>6, Zenon DEF PatchStatus
<1>7. CASE ApiError(j)
  BY <1>7, Zenon DEF ApiError
<1>8. QED
  BY <1>1, <1>2, <1>3, <1>4, <1>5, <1>6, <1>7 DEF Reconcile

(* They only move a reconcile on: seen is kept or forgotten.                *)
LEMMA SeenStep ==
    ASSUME RecTypeOK, NEW j \in Jobs, Reconcile(j) \/ ApiError(j), NEW k \in Jobs
    PROVE  rec'[k].seen \in {rec[k].seen, NoNative}
<1>1. ASSUME NEW pc, NEW new, Decide(j, pc, new)
      PROVE  rec'[k].seen \in {rec[k].seen, NoNative}
  BY <1>1, DecideLocals
<1>2. ASSUME NEW a, Register(j, a)
      PROVE  rec'[k].seen \in {rec[k].seen, NoNative}
  BY <1>2, RegisterLocals
<1>3. ASSUME MarkReady(j)
      PROVE  rec'[k].seen \in {rec[k].seen, NoNative}
  BY <1>3, MarkReadyLocals
<1>4. ASSUME Return(j)
      PROVE  rec'[k].seen \in {rec[k].seen, NoNative}
  BY <1>4, ReturnLocals, DefaultFields
<1>5. QED
  BY <1>1, <1>2, <1>3, <1>4, ReconcileMoves

(* A run observed complete did complete, and artifacts are from such runs.  *)
LEMMA CompletionStep ==
    ASSUME TypeOK, OneJobAtATime, CompletionTraced, [Next]_vars
    PROVE  CompletionTraced'
<1> USE DEF CompletionTraced, TypeOK
<1>1. CASE Restart
  BY <1>1, DefaultFields DEF Restart
<1>2. ASSUME NEW j \in Jobs, Begin(j) PROVE CompletionTraced'
  <2>1. \A k \in Jobs : rec'[k].seen \in {rec[k].seen, NoNative, nativeView[k]}
    BY <1>2 DEF Begin, RecTypeOK
  <2>2. UNCHANGED <<native, nativeView, pod, completed, uploaded>>
    BY <1>2 DEF Begin
  <2>3. QED
    BY <2>1, <2>2, DefaultFields
<1>3. ASSUME NEW j \in Jobs, Reconcile(j) \/ ApiError(j) PROVE CompletionTraced'
  <2>1. \A k \in Jobs : rec'[k].seen \in {rec[k].seen, NoNative}
    BY <1>3, SeenStep
  <2>2. CreateNative(j) =>
           \A k \in Jobs : native'[k].state = "complete" => native'[k] = native[k]
    BY DEF CreateNative
  <2>3. UNCHANGED <<nativeView, pod, completed, uploaded>>
    BY <1>3 DEF Reconcile, ApiError, CreateNative, Observe, PersistSnapshot,
                MarkSnapshotReady, Dispatch, PatchStatus
  <2>4. CreateNative(j) \/ UNCHANGED native
    BY <1>3 DEF Reconcile, ApiError, Observe, PersistSnapshot,
                MarkSnapshotReady, Dispatch, PatchStatus
  <2>5. QED
    BY <2>1, <2>2, <2>3, <2>4, DefaultFields
<1>4. ASSUME NEW j \in Jobs, Sync(j) PROVE CompletionTraced'
  BY <1>4 DEF Sync, SyncNative, SyncSnapshot, SyncStatus
<1>5. ASSUME NEW j \in Jobs, StartJob(j) PROVE CompletionTraced'
  <2>1. \A k \in Jobs : native'[k].state = "complete" => native'[k] = native[k]
    BY <1>5 DEF StartJob, Native
  <2>2. \A k \in Jobs : pod'[k].artifact => pod'[k] = pod[k]
    BY <1>5 DEF StartJob, NoPod
  <2>3. UNCHANGED <<nativeView, rec, completed, uploaded>>
    BY <1>5 DEF StartJob
  <2>4. QED
    BY <2>1, <2>2, <2>3
<1>6. ASSUME NEW j \in Jobs, CompleteJob(j) PROVE CompletionTraced'
  <2>1. native[j].run \in Nat /\ native[j].run # 0
    BY <1>6 DEF CompleteJob, OneJobAtATime, Native
  <2>2. \A k \in Jobs : /\ completed[k] \subseteq completed'[k]
                        /\ k # j => native'[k] = native[k] /\ pod'[k] = pod[k]
                                    /\ uploaded'[k] = uploaded[k]
    BY <1>6 DEF CompleteJob
  <2>3. native'[j].run = native[j].run /\ native[j].run \in completed'[j]
    BY <1>6 DEF CompleteJob, Native
  <2>4. /\ uploaded'[j] \subseteq uploaded[j] \cup {native[j].run}
        /\ pod'[j].artifact => pod'[j].run \in uploaded'[j]
    BY <1>6 DEF CompleteJob, Pod
  <2>5. QED
    BY <1>6, <2>1, <2>2, <2>3, <2>4 DEF CompleteJob
<1>7. ASSUME NEW j \in Jobs, FailJob(j) PROVE CompletionTraced'
  <2>1. \A k \in Jobs : native'[k].state = "complete" => native'[k] = native[k]
    BY <1>7 DEF FailJob, Native
  <2>2. \A k \in Jobs : pod'[k].artifact => pod'[k] = pod[k]
    BY <1>7 DEF FailJob, NoPod
  <2>3. QED
    BY <1>7, <2>1, <2>2 DEF FailJob
<1>8. ASSUME NEW j \in Jobs, ExpireJob(j) PROVE CompletionTraced'
  <2>1. \A k \in Jobs : native'[k].state = "complete" => native'[k] = native[k]
    BY <1>8 DEF ExpireJob, Native
  <2>2. QED
    BY <1>8, <2>1 DEF ExpireJob
<1>9. ASSUME NEW j \in Jobs, CollectPod(j) PROVE CompletionTraced'
  BY <1>9 DEF CollectPod, NoPod
<1>10. ASSUME NEW j \in Jobs, DeleteSnapshot(j) \/ Reconfigure(j)
       PROVE  CompletionTraced'
  BY <1>10 DEF DeleteSnapshot, Reconfigure
<1>11. CASE UNCHANGED vars
  BY <1>11 DEF vars
<1>12. QED
  BY <1>1, <1>2, <1>3, <1>4, <1>5, <1>6, <1>7, <1>8, <1>9, <1>10, <1>11
  DEF Next, Environment

(* Snapshots are made of artifacts that completed runs uploaded.            *)
LEMMA RegistrationStep ==
    ASSUME TypeOK, CompletionTraced, RegistrationTraced, [Next]_vars
    PROVE  RegistrationTraced'
<1> USE DEF RegistrationTraced
<1>0. RecTypeOK /\ snap \in [Jobs -> Snapshot] /\ uploaded \in [Jobs -> SUBSET Nat]
  BY DEF TypeOK
<1>1. CASE Restart
  BY <1>1, DefaultFields DEF Restart
<1>2. ASSUME NEW j \in Jobs, Begin(j) PROVE RegistrationTraced'
  <2>1. \A k \in Jobs : \/ rec'[k] = rec[k]
                        \/ rec'[k].pc \in {"create", "patch", "observe"}
    BY <1>0, <1>2 DEF Begin, RecTypeOK
  <2>2. UNCHANGED <<snap, uploaded>>
    BY <1>2 DEF Begin
  <2>3. QED
    BY <2>1, <2>2
<1>3. ASSUME NEW j \in Jobs, NEW pc \in {"notify", "patch"}, NEW new,
             Decide(j, pc, new), UNCHANGED <<snap, uploaded>>
      PROVE  RegistrationTraced'
  BY <1>0, <1>3, DecideLocals
<1>4. ASSUME NEW j \in Jobs, Return(j), UNCHANGED <<snap, uploaded>>
      PROVE  RegistrationTraced'
  BY <1>0, <1>4, ReturnLocals, DefaultFields
<1>5. ASSUME NEW j \in Jobs, CreateNative(j) \/ Dispatch(j)
      PROVE  RegistrationTraced'
  BY <1>3, <1>5 DEF CreateNative, Dispatch
<1>6. ASSUME NEW j \in Jobs, PatchStatus(j) \/ ApiError(j)
      PROVE  RegistrationTraced'
  BY <1>4, <1>6 DEF PatchStatus, ApiError
<1>7. ASSUME NEW j \in Jobs, Observe(j) PROVE RegistrationTraced'
  <2>1. UNCHANGED <<snap, uploaded>>
    BY <1>7 DEF Observe
  <2>2. CASE rec[j].seen.state = "complete" /\ pod[j].artifact
    <3>1. Register(j, pod[j].run) /\ pod[j].run \in uploaded[j]
      BY <1>7, <2>2 DEF Observe, CompletionTraced
    <3>2. QED
      BY <1>0, <2>1, <2>2, <3>1, RegisterLocals
  <2>3. CASE ~(rec[j].seen.state = "complete" /\ pod[j].artifact)
    <3>1. Decide(j, AfterObservation(j), Observed(j, PhaseWithoutSnapshot(j), FALSE))
      BY <1>7, <2>3 DEF Observe
    <3>2. AfterObservation(j) \in {"notify", "patch"}
      BY DEF AfterObservation
    <3>3. QED
      BY <1>3, <2>1, <3>1, <3>2
  <2>4. QED
    BY <2>2, <2>3
<1>8. ASSUME NEW j \in Jobs, PersistSnapshot(j) PROVE RegistrationTraced'
  <2>1. rec[j].pc = "persist" /\ UNCHANGED uploaded
    BY <1>8 DEF PersistSnapshot
  <2>2. CASE snapView[j] = snap[j]
    <3>1. MarkReady(j) /\ snap' = [snap EXCEPT ![j].run = rec[j].artifact]
      BY <1>8, <2>2 DEF PersistSnapshot
    <3>2. /\ snap'[j].run = rec[j].artifact
          /\ \A k \in Jobs \ {j} : snap'[k] = snap[k]
      BY <1>0, <3>1 DEF Snapshot
    <3>3. QED
      BY <1>0, <2>1, <3>1, <3>2, MarkReadyLocals
  <2>3. CASE snapView[j] # snap[j]
    BY <1>4, <1>8, <2>3 DEF PersistSnapshot
  <2>4. QED
    BY <2>2, <2>3
<1>9. ASSUME NEW j \in Jobs, MarkSnapshotReady(j) PROVE RegistrationTraced'
  <2>1. UNCHANGED uploaded
    BY <1>9 DEF MarkSnapshotReady
  <2>2. CASE snapView[j] = snap[j] /\ snap[j] # NoSnapshot
    <3>1. /\ Decide(j, AfterObservation(j), Observed(j, "Succeeded", TRUE))
          /\ snap' = [snap EXCEPT ![j].ready = TRUE]
      BY <1>9, <2>2 DEF MarkSnapshotReady
    <3>2. \A k \in Jobs : snap'[k].run = snap[k].run
      BY <1>0, <3>1 DEF Snapshot
    <3>3. \A k \in Jobs \ {j} : snap'[k] = snap[k]
      BY <1>0, <3>1
    <3>4. AfterObservation(j) \in {"notify", "patch"}
      BY DEF AfterObservation
    <3>5. /\ rec'[j].pc \in {"notify", "patch"}
          /\ \A k \in Jobs \ {j} : rec'[k] = rec[k]
      BY <1>0, <3>1, <3>4, DecideLocals
    <3>6. QED
      BY <2>1, <2>2, <3>2, <3>3, <3>5
  <2>3. CASE ~(snapView[j] = snap[j] /\ snap[j] # NoSnapshot)
    BY <1>4, <1>9, <2>1, <2>3 DEF MarkSnapshotReady
  <2>4. QED
    BY <2>2, <2>3
<1>10. ASSUME NEW j \in Jobs, CompleteJob(j) PROVE RegistrationTraced'
  <2>1. \A k \in Jobs : uploaded[k] \subseteq uploaded'[k]
    BY <1>0, <1>10 DEF CompleteJob
  <2>2. UNCHANGED <<snap, rec>>
    BY <1>10 DEF CompleteJob
  <2>3. QED
    BY <2>1, <2>2
<1>11. ASSUME NEW j \in Jobs, DeleteSnapshot(j) PROVE RegistrationTraced'
  BY <1>0, <1>11 DEF DeleteSnapshot
<1>12. CASE UNCHANGED <<snap, uploaded, rec>>
  BY <1>12
<1>13. QED
  BY <1>1, <1>2, <1>5, <1>6, <1>7, <1>8, <1>9, <1>10, <1>11, <1>12
  DEF Next, vars, Reconcile, Sync, SyncNative, SyncSnapshot, SyncStatus,
      Environment, StartJob, FailJob, ExpireJob, CollectPod, Reconfigure

(* Evidence is never withdrawn: completions stay, and a Snapshot that was   *)
(* registered is there unless somebody deleted it.                          *)
LEMMA EvidenceStep ==
    ASSUME TypeOK, CompletionTraced, RegistrationTraced, [Next]_vars, NEW k \in Jobs
    PROVE  /\ completed[k] \subseteq completed'[k]
           /\ snap[k] # NoSnapshot \/ removed[k] =>
                 snap'[k] # NoSnapshot \/ removed'[k]
<1> DEFINE Registers == snap[k] # NoSnapshot \/ removed[k]
<1>0. /\ snap \in [Jobs -> Snapshot] /\ completed \in [Jobs -> SUBSET Nat]
      /\ removed \in [Jobs -> BOOLEAN]
  BY DEF TypeOK
<1>1. ASSUME NEW j \in Jobs, CompleteJob(j)
      PROVE  completed[k] \subseteq completed'[k] /\ UNCHANGED <<snap, removed>>
  BY <1>0, <1>1 DEF CompleteJob
<1>2. ASSUME NEW j \in Jobs, DeleteSnapshot(j)
      PROVE  UNCHANGED completed /\ (Registers => Registers')
  BY <1>0, <1>2 DEF DeleteSnapshot
<1>3. ASSUME NEW j \in Jobs, PersistSnapshot(j)
      PROVE  UNCHANGED completed /\ (Registers => Registers')
  <2>1. rec[j].artifact # 0
    BY <1>3 DEF PersistSnapshot, CompletionTraced, RegistrationTraced
  <2>2. ASSUME snap' = [snap EXCEPT ![j].run = rec[j].artifact]
        PROVE  snap'[j] # NoSnapshot
    BY <1>0, <2>1, <2>2 DEF NoSnapshot, Snapshot
  <2>3. QED
    BY <1>0, <1>3, <2>2 DEF PersistSnapshot
<1>4. ASSUME NEW j \in Jobs, MarkSnapshotReady(j)
      PROVE  UNCHANGED completed /\ (Registers => Registers')
  <2>1. ASSUME snap' = [snap EXCEPT ![j].ready = TRUE]
        PROVE  snap'[j] # NoSnapshot
    BY <1>0, <2>1 DEF NoSnapshot, Snapshot
  <2>2. QED
    BY <1>0, <1>4, <2>1 DEF MarkSnapshotReady
<1>5. CASE UNCHANGED <<snap, removed, completed>>
  BY <1>5
<1>6. QED
  BY <1>1, <1>2, <1>3, <1>4, <1>5
  DEF Next, vars, Restart, Begin, Reconcile, CreateNative, Observe, Dispatch,
      PatchStatus, ApiError, Sync, SyncNative, SyncSnapshot, SyncStatus,
      Environment, StartJob, FailJob, ExpireJob, CollectPod, Reconfigure

(* What the BackupJob reports, in any copy of its status, is backed.        *)
LEMMA StatusStep ==
    ASSUME TypeOK, CompletionTraced, RegistrationTraced, StatusTraced, [Next]_vars
    PROVE  StatusTraced'
<1> DEFINE Copies(k) == {status[k], statusView[k], rec[k].base, rec[k].new}
<1>0. /\ RecTypeOK
      /\ status \in [Jobs -> Status] /\ statusView \in [Jobs -> Status]
      /\ \A k \in Jobs : rec[k] \in Rec /\ rec[k].base \in Status
                                       /\ rec[k].new \in Status
  BY DEF TypeOK, RecTypeOK, Rec
<1>1. \A k \in Jobs : \A s : StatusBacked(k, s) => StatusBacked(k, s)'
  BY EvidenceStep DEF StatusBacked
<1>2. \A k \in Jobs : \A s \in Copies(k) : StatusBacked(k, s)
  BY DEF StatusTraced
<1>3. \A k \in Jobs : StatusBacked(k, NoStatus)
  BY DefaultFields DEF StatusBacked
<1>4. SUFFICES ASSUME NEW k \in Jobs, NEW s \in Copies(k)'
               PROVE  StatusBacked(k, s) \/ StatusBacked(k, s)'
  BY <1>1 DEF StatusTraced
<1>5. CASE Restart
  BY <1>2, <1>3, <1>5, DefaultFields DEF Restart
<1>6. ASSUME NEW j \in Jobs, Begin(j) PROVE StatusBacked(k, s)
  <2>1. \A b \in Status : \A p \in {"Pending", "Running", "Failed", "Paused"} :
           StatusBacked(k, b) => StatusBacked(k, [b EXCEPT !.phase = p])
    BY DEF StatusBacked, Status
  <2>2. /\ rec'[k].base \in {rec[k].base, statusView[k]}
        /\ \/ rec'[k].new \in {rec[k].new, statusView[k]}
           \/ \E p \in {"Pending", "Running", "Failed", "Paused"} :
                rec'[k].new = [statusView[k] EXCEPT !.phase = p]
    BY <1>0, <1>6 DEF Begin, RecTypeOK
  <2>3. UNCHANGED <<status, statusView>>
    BY <1>6 DEF Begin
  <2>4. QED
    BY <1>0, <1>2, <2>1, <2>2, <2>3, SMTT(30)
<1>7. ASSUME NEW j \in Jobs, NEW pc, NEW new, Decide(j, pc, new),
             StatusBacked(j, new) \/ (completed'[j] # {} /\ snap'[j] # NoSnapshot),
             UNCHANGED <<status, statusView>>
      PROVE  StatusBacked(k, s) \/ StatusBacked(k, s)'
  <2>1. /\ rec'[j].base = rec[j].base /\ rec'[j].new = new
        /\ \A i \in Jobs \ {j} : rec'[i] = rec[i]
    BY <1>0, <1>7, DecideLocals
  <2>2. CASE k = j
    <3>1. StatusBacked(j, new) \/ StatusBacked(j, new)'
      BY <1>7 DEF StatusBacked
    <3>2. QED
      BY <1>2, <1>7, <2>1, <2>2, <3>1
  <2>3. CASE k # j
    BY <1>2, <1>7, <2>1, <2>3
  <2>4. QED
    BY <2>2, <2>3
<1>8. ASSUME NEW j \in Jobs, NEW artifact,
             Register(j, artifact) \/ MarkReady(j) \/ Return(j),
             UNCHANGED <<status, statusView>>
      PROVE  StatusBacked(k, s)
  <2>1. /\ rec'[j].base \in {rec[j].base, NoStatus}
        /\ rec'[j].new \in {rec[j].new, NoStatus}
        /\ \A i \in Jobs \ {j} : rec'[i] = rec[i]
    BY <1>0, <1>8, RegisterLocals, MarkReadyLocals, ReturnLocals, DefaultFields
  <2>2. CASE k = j
    BY <1>2, <1>3, <1>8, <2>1, <2>2
  <2>3. CASE k # j
    BY <1>2, <1>8, <2>1, <2>3
  <2>4. QED
    BY <2>2, <2>3
<1>9. ASSUME NEW j \in Jobs, CreateNative(j)
      PROVE  StatusBacked(k, s) \/ StatusBacked(k, s)'
  <2>1. StatusBacked(j, [rec[j].new EXCEPT !.phase = "Running"])
    BY <1>0, <1>2 DEF StatusBacked, Status
  <2>2. QED
    BY <1>7, <1>9, <2>1 DEF CreateNative
<1>10. ASSUME NEW j \in Jobs, Observe(j)
       PROVE  StatusBacked(k, s) \/ StatusBacked(k, s)'
  <2>1. UNCHANGED <<status, statusView>>
    BY <1>10 DEF Observe
  <2>2. StatusBacked(j, Observed(j, PhaseWithoutSnapshot(j), FALSE))
    <3>1. PhaseWithoutSnapshot(j) = "Succeeded" => completed[j] # {}
      BY DEF PhaseWithoutSnapshot, CompletionTraced
    <3>2. PhaseWithoutSnapshot(j) \in {"Succeeded", "Failed"}
      BY DEF PhaseWithoutSnapshot
    <3>3. QED
      BY <1>0, <3>1, <3>2, ObservedType DEF StatusBacked
  <2>3. CASE rec[j].seen.state = "complete" /\ pod[j].artifact
    BY <1>8, <1>10, <2>1, <2>3 DEF Observe
  <2>4. CASE ~(rec[j].seen.state = "complete" /\ pod[j].artifact)
    BY <1>7, <1>10, <2>1, <2>2, <2>4 DEF Observe
  <2>5. QED
    BY <2>3, <2>4
<1>11. ASSUME NEW j \in Jobs, PersistSnapshot(j) PROVE StatusBacked(k, s)
  BY <1>8, <1>11 DEF PersistSnapshot
<1>12. ASSUME NEW j \in Jobs, MarkSnapshotReady(j)
       PROVE  StatusBacked(k, s) \/ StatusBacked(k, s)'
  <2>1. UNCHANGED <<status, statusView, completed>> /\ rec[j].pc = "ready"
    BY <1>12 DEF MarkSnapshotReady
  <2>2. CASE snapView[j] = snap[j] /\ snap[j] # NoSnapshot
    <3>1. /\ Decide(j, AfterObservation(j), Observed(j, "Succeeded", TRUE))
          /\ snap' = [snap EXCEPT ![j].ready = TRUE]
      BY <1>12, <2>2 DEF MarkSnapshotReady
    <3>2. snap'[j] # NoSnapshot
      BY <3>1 DEF TypeOK, NoSnapshot, Snapshot
    <3>3. completed[j] # {}
      BY <2>1 DEF CompletionTraced, RegistrationTraced
    <3>4. QED
      BY <1>7, <2>1, <3>1, <3>2, <3>3
  <2>3. CASE ~(snapView[j] = snap[j] /\ snap[j] # NoSnapshot)
    BY <1>8, <1>12, <2>1, <2>3 DEF MarkSnapshotReady
  <2>4. QED
    BY <2>2, <2>3
<1>13. ASSUME NEW j \in Jobs, Dispatch(j)
       PROVE  StatusBacked(k, s) \/ StatusBacked(k, s)'
  <2>1. \A n : StatusBacked(j, [rec[j].new EXCEPT !.notification = n])
    BY <1>0, <1>2 DEF StatusBacked, Status
  <2>2. QED
    BY <1>7, <1>13, <2>1 DEF Dispatch
<1>14. ASSUME NEW j \in Jobs, PatchStatus(j) PROVE StatusBacked(k, s)
  <2> DEFINE merged == MergePatch(status[j], rec[j].base, rec[j].new)
  <2>1. StatusBacked(j, merged)
    <3>0. status[j] \in Status /\ rec[j].base \in Status /\ rec[j].new \in Status
      BY <1>0
    <3>1. /\ merged.phase \in {status[j].phase, rec[j].new.phase}
          /\ merged.snapshotRef \in {status[j].snapshotRef, rec[j].new.snapshotRef}
      BY <3>0, MergePatchFields
    <3>2. StatusBacked(j, status[j]) /\ StatusBacked(j, rec[j].new)
      BY <1>2
    <3> HIDE DEF merged
    <3>3. QED
      BY <3>1, <3>2 DEF StatusBacked
  <2>2. status' = [status EXCEPT ![j] = merged] /\ Return(j) /\ UNCHANGED statusView
    BY <1>14 DEF PatchStatus
  <2> HIDE DEF merged
  <2>3. /\ rec'[j] = Idle
        /\ \A i \in Jobs \ {j} : rec'[i] = rec[i] /\ status'[i] = status[i]
        /\ status'[j] = merged
    BY <1>0, <2>2, ReturnLocals
  <2>4. CASE k = j
    BY <1>2, <1>3, <2>1, <2>2, <2>3, <2>4, DefaultFields
  <2>5. CASE k # j
    BY <1>2, <2>2, <2>3, <2>5
  <2>6. QED
    BY <2>4, <2>5
<1>15. ASSUME NEW j \in Jobs, ApiError(j) PROVE StatusBacked(k, s)
  BY <1>8, <1>15 DEF ApiError
<1>16. ASSUME NEW j \in Jobs, SyncStatus(j) PROVE StatusBacked(k, s)
  BY <1>0, <1>2, <1>16 DEF SyncStatus
<1>17. CASE UNCHANGED <<status, statusView, rec>>
  BY <1>2, <1>17
<1>18. QED
  BY <1>5, <1>6, <1>9, <1>10, <1>11, <1>12, <1>13, <1>14, <1>15, <1>16, <1>17
  DEF Next, vars, Reconcile, Sync, SyncNative, SyncSnapshot, Environment,
      StartJob, CompleteJob, FailJob, ExpireJob, CollectPod, DeleteSnapshot,
      Reconfigure

(* Events are delivered on request, and tell what the observed run did.     *)
LEMMA EventsStep ==
    ASSUME TypeOK, CompletionTraced, RegistrationTraced, EventsTraced, [Next]_vars
    PROVE  EventsTraced'
<1> USE DEF EventsTraced
<1>0. /\ RecTypeOK
      /\ notified \in [Jobs -> SUBSET Event]
      /\ completed \in [Jobs -> SUBSET Nat]
      /\ \A k \in Jobs : completed[k] \subseteq completed'[k]
  BY EvidenceStep DEF TypeOK
<1>1. CASE Restart
  BY <1>1, DefaultFields DEF Restart
<1>2. ASSUME NEW j \in Jobs, Begin(j) PROVE EventsTraced'
  <2>1. \A k \in Jobs : \/ rec'[k] = rec[k]
                        \/ rec'[k].pc \in {"create", "patch", "observe"}
    BY <1>0, <1>2 DEF Begin, RecTypeOK
  <2>2. UNCHANGED <<notified, completed>>
    BY <1>2 DEF Begin
  <2>3. QED
    BY <2>1, <2>2
<1>3. ASSUME NEW j \in Jobs, NEW pc, NEW new, Decide(j, pc, new),
             pc = "notify" =>
                /\ j \in NotifyJobs
                /\ new.phase = "Succeeded" => rec[j].seen.state = "complete",
             UNCHANGED <<notified, completed>>
      PROVE  EventsTraced'
  BY <1>0, <1>3, DecideLocals
<1>4. ASSUME NEW j \in Jobs, NEW artifact,
             Register(j, artifact) \/ MarkReady(j) \/ Return(j),
             UNCHANGED <<notified, completed>>
      PROVE  EventsTraced'
  <2>1. /\ rec'[j].pc # "notify"
        /\ \A k \in Jobs \ {j} : rec'[k] = rec[k]
    BY <1>0, <1>4, RegisterLocals, MarkReadyLocals, ReturnLocals, DefaultFields
  <2>2. QED
    BY <1>4, <2>1
<1>5. ASSUME NEW j \in Jobs, CreateNative(j) PROVE EventsTraced'
  BY <1>3, <1>5 DEF CreateNative
<1>6. ASSUME NEW j \in Jobs, Observe(j) PROVE EventsTraced'
  <2>1. UNCHANGED <<notified, completed>>
    BY <1>6 DEF Observe
  <2>2. CASE rec[j].seen.state = "complete" /\ pod[j].artifact
    BY <1>4, <1>6, <2>1, <2>2 DEF Observe
  <2>3. CASE ~(rec[j].seen.state = "complete" /\ pod[j].artifact)
    <3> DEFINE new == Observed(j, PhaseWithoutSnapshot(j), FALSE)
    <3>1. new.phase = "Succeeded" => rec[j].seen.state = "complete"
      <4>1. PhaseWithoutSnapshot(j) \in {"Succeeded", "Failed"}
        BY DEF PhaseWithoutSnapshot
      <4>2. new.phase = PhaseWithoutSnapshot(j)
        BY <1>0, <4>1, ObservedType
      <4>3. QED
        BY <4>2 DEF PhaseWithoutSnapshot
    <3>2. AfterObservation(j) = "notify" => j \in NotifyJobs
      BY DEF AfterObservation
    <3>3. Decide(j, AfterObservation(j), new)
      BY <1>6, <2>3 DEF Observe
    <3> HIDE DEF new
    <3>4. QED
      BY <1>3, <2>1, <3>1, <3>2, <3>3
  <2>4. QED
    BY <2>2, <2>3
<1>7. ASSUME NEW j \in Jobs, PersistSnapshot(j) PROVE EventsTraced'
  BY <1>4, <1>7 DEF PersistSnapshot
<1>8. ASSUME NEW j \in Jobs, MarkSnapshotReady(j) PROVE EventsTraced'
  <2>1. UNCHANGED <<notified, completed>> /\ rec[j].seen.state = "complete"
    BY <1>8 DEF MarkSnapshotReady, RegistrationTraced
  <2>2. AfterObservation(j) = "notify" => j \in NotifyJobs
    BY DEF AfterObservation
  <2>3. \/ Decide(j, AfterObservation(j), Observed(j, "Succeeded", TRUE))
        \/ Return(j)
    BY <1>8 DEF MarkSnapshotReady
  <2>4. QED
    BY <1>3, <1>4, <2>1, <2>2, <2>3
<1>9. ASSUME NEW j \in Jobs, Dispatch(j) PROVE EventsTraced'
  <2>1. /\ j \in NotifyJobs
        /\ rec[j].new.phase = "Succeeded" => rec[j].seen.run \in completed[j]
    BY <1>9 DEF Dispatch, CompletionTraced
  <2>2. /\ Delivered(j).run = rec[j].seen.run
        /\ Delivered(j).phase = rec[j].new.phase
    BY DEF Delivered
  <2>3. /\ \A k \in Jobs \ {j} : notified'[k] = notified[k]
        /\ notified'[j] \subseteq notified[j] \cup {Delivered(j)}
        /\ UNCHANGED completed
    BY <1>0, <1>9 DEF Dispatch
  <2>4. /\ rec'[j].pc = "patch"
        /\ \A k \in Jobs \ {j} : rec'[k] = rec[k]
    BY <1>0, <1>9, DecideLocals DEF Dispatch
  <2>5. QED
    BY <2>1, <2>2, <2>3, <2>4
<1>10. ASSUME NEW j \in Jobs, PatchStatus(j) PROVE EventsTraced'
  BY <1>4, <1>10 DEF PatchStatus
<1>11. ASSUME NEW j \in Jobs, ApiError(j) PROVE EventsTraced'
  BY <1>4, <1>11 DEF ApiError
<1>12. ASSUME NEW j \in Jobs, CompleteJob(j) PROVE EventsTraced'
  <2>1. UNCHANGED <<notified, rec>>
    BY <1>12 DEF CompleteJob
  <2>2. QED
    BY <1>0, <2>1
<1>13. CASE UNCHANGED <<notified, completed, rec>>
  BY <1>13
<1>14. QED
  BY <1>1, <1>2, <1>5, <1>6, <1>7, <1>8, <1>9, <1>10, <1>11, <1>12, <1>13
  DEF Next, vars, Reconcile, Sync, SyncNative, SyncSnapshot, SyncStatus,
      Environment, StartJob, FailJob, ExpireJob, CollectPod, DeleteSnapshot,
      Reconfigure

----------------------------------------------------------------------------
(* The invariant and what it implies *)

(* At the start nothing is claimed. *)
LEMMA TracedInit == Init => Traced
<1> SUFFICES ASSUME Init PROVE Traced
  OBVIOUS
<1>1. TypeOK
  BY DefaultTypes DEF Init, TypeOK, RecTypeOK, ProbeResults
<1>2. OneJobAtATime
  <2>1. \A j \in Jobs : /\ native[j].run = 0 /\ native[j].state = "absent"
                       /\ expired[j] = 0
    BY DEF Init, NoNative
  <2>2. QED
    BY <2>1, 0 + 0 = 0 DEF OneJobAtATime
<1>3. CompletionTraced
  BY DefaultFields DEF Init, CompletionTraced
<1>4. RegistrationTraced
  BY DefaultFields DEF Init, RegistrationTraced
<1>5. StatusTraced
  <2>1. \A j \in Jobs : StatusBacked(j, NoStatus)
    BY DefaultFields DEF StatusBacked
  <2>2. QED
    BY <2>1, DefaultFields DEF Init, StatusTraced
<1>6. EventsTraced
  BY DefaultFields DEF Init, EventsTraced
<1>7. QED
  BY <1>1, <1>2, <1>3, <1>4, <1>5, <1>6 DEF Traced

(* Traced is inductive: every claim goes back to a run that completed.      *)
LEMMA TracedInvariant == Spec => []Traced
<1>1. Traced /\ [Next]_vars => Traced'
  BY TypeStep, OneJobStep, CompletionStep, RegistrationStep, StatusStep, EventsStep
  DEF Traced
<1>2. QED
  BY TracedInit, <1>1, PTL DEF Spec

(* Every variable keeps its type (BackupJobStatus, Job, Snapshot, ...).     *)
THEOREM TypeCorrect == Spec => []TypeOK
<1>1. Traced => TypeOK
  BY DEF Traced
<1>2. QED
  BY <1>1, TracedInvariant, PTL

(* A second native Job is never created while the first is still there,     *)
(* however stale the cache of the BackupJob controller and wherever one of  *)
(* its reconciles dies.                                                     *)
THEOREM NativeJobsAreSequential == Spec => []OneJobAtATime
<1>1. Traced => OneJobAtATime
  BY DEF Traced
<1>2. QED
  BY <1>1, TracedInvariant, PTL

(* status.phase=Succeeded always rests on a native Job that completed.      *)
THEOREM SuccessTraced == Spec => []SuccessIsReal
<1>1. Traced => SuccessIsReal
  BY DEF Traced, StatusTraced, StatusBacked, SuccessIsReal
<1>2. QED
  BY <1>1, TracedInvariant, PTL

(* persistSnapshot registers only artifacts that completed runs uploaded.   *)
THEOREM SnapshotTraced == Spec => []SnapshotIsReal
<1>1. Traced => SnapshotIsReal
  BY DEF Traced, CompletionTraced, RegistrationTraced, SnapshotIsReal
<1>2. QED
  BY <1>1, TracedInvariant, PTL

(* status.snapshotRef resolves, unless the Snapshot was deleted since.      *)
THEOREM SnapshotRefTraced == Spec => []SnapshotRefResolves
<1>1. Traced => SnapshotRefResolves
  BY DEF Traced, StatusTraced, StatusBacked, SnapshotRefResolves
<1>2. QED
  BY <1>1, TracedInvariant, PTL

(* dispatchNotifications announces BackupSucceeded for completed runs only. *)
THEOREM EventsTrue == Spec => []SuccessNotifiedIsReal
<1>1. Traced => SuccessNotifiedIsReal
  BY DEF Traced, EventsTraced, SuccessNotifiedIsReal
<1>2. QED
  BY <1>1, TracedInvariant, PTL

----------------------------------------------------------------------------
(* The contract of an execution *)

(* How the contract reads the states of a native Job. *)
LEMMA ContractStates ==
    /\ \A n : n.state = "absent" => ContractState(n) = "none"
    /\ \A n : n.state \in {"created", "active"} => ContractState(n) = "running"
    /\ \A n : Finished(n) => ContractState(n) = "done"
    BY DEF ContractState, Finished

(* What the contract sees of a fresh BackupJob. *)
LEMMA ContractInit == Init => Contract!Init
<1> SUFFICES ASSUME Init PROVE Contract!Init
  OBVIOUS
<1>1. \A j \in Jobs : /\ ContractState(native[j]) = "none"
                     /\ native[j].run = 0
                     /\ completed[j] = {}
                     /\ (status[j].phase = "Succeeded") = FALSE
                     /\ notified[j] = {}
  BY DefaultFields, ContractStates DEF Init, NoNative
<1>2. completed = [j \in Jobs |-> {}]
  BY DEF Init
<1>3. \A j \in Jobs :
        {e.run : e \in {n \in notified[j] : n.phase = "Succeeded"}} = {}
  BY <1>1
<1>4. QED
  BY <1>1, <1>2, <1>3 DEF Contract!Init
(* Every step of the controller or of its environment is a step of the      *)
(* contract, or changes nothing the contract speaks of.                     *)
LEMMA ContractStep ==
    ASSUME Traced, [Next]_vars PROVE [Contract!Next]_(Contract!vars)
<1> USE DEF Contract!vars
<1>0. /\ native \in [Jobs -> Native] /\ completed \in [Jobs -> SUBSET Nat]
      /\ status \in [Jobs -> Status] /\ notified \in [Jobs -> SUBSET Event]
  BY DEF Traced, TypeOK
<1>1. ASSUME NEW j \in Jobs, CreateNative(j) PROVE [Contract!Next]_(Contract!vars)
  <2>1. CASE native[j].state = "absent"
    <3>1. /\ native' = [native EXCEPT ![j] = [run |-> native[j].run + 1,
                                             state |-> "created"]]
          /\ UNCHANGED <<completed, status, notified>>
      BY <1>1, <2>1 DEF CreateNative
    <3>2. /\ \A k \in Jobs \ {j} : native'[k] = native[k]
          /\ native'[j].run = native[j].run + 1
          /\ ContractState(native[j]) = "none"
          /\ ContractState(native'[j]) = "running"
      BY <1>0, <2>1, <3>1, ContractStates
    <3>3. [k \in Jobs |-> native'[k].run]
             = [[k \in Jobs |-> native[k].run] EXCEPT ![j] = @ + 1]
      BY <3>2, Zenon
    <3>4. [k \in Jobs |-> ContractState(native'[k])]
             = [[k \in Jobs |-> ContractState(native[k])] EXCEPT ![j] = "running"]
      BY <3>2
    <3>5. Contract!Start(j)
      BY <3>1, <3>2, <3>3, <3>4 DEF Contract!Start
    <3>6. QED
      BY <3>5 DEF Contract!Next
  <2>2. CASE native[j].state # "absent"
    BY <1>1, <2>2 DEF CreateNative
  <2>3. QED
    BY <2>1, <2>2
<1>2. ASSUME NEW j \in Jobs, StartJob(j) PROVE UNCHANGED Contract!vars
  <2>1. \A k \in Jobs : /\ native'[k].run = native[k].run
                       /\ ContractState(native'[k]) = ContractState(native[k])
    BY <1>0, <1>2, ContractStates DEF StartJob, Native
  <2>2. UNCHANGED <<completed, status, notified>>
    BY <1>2 DEF StartJob
  <2>3. QED
    BY <2>1, <2>2
<1>3. ASSUME NEW j \in Jobs, CompleteJob(j) PROVE Contract!Succeed(j)
  <2>1. /\ \A k \in Jobs \ {j} : native'[k] = native[k]
        /\ \A k \in Jobs : native'[k].run = native[k].run
        /\ ContractState(native[j]) = "running"
        /\ ContractState(native'[j]) = "done"
    BY <1>0, <1>3, ContractStates DEF CompleteJob, Native, Finished
  <2>2. /\ completed' = [completed EXCEPT ![j] = @ \cup {native[j].run}]
        /\ UNCHANGED <<status, notified>>
    BY <1>3 DEF CompleteJob
  <2>3. QED
    BY <2>1, <2>2 DEF Contract!Succeed
<1>4. ASSUME NEW j \in Jobs, FailJob(j) PROVE Contract!Fail(j)
  <2>1. /\ \A k \in Jobs \ {j} : native'[k] = native[k]
        /\ \A k \in Jobs : native'[k].run = native[k].run
        /\ ContractState(native[j]) = "running"
        /\ ContractState(native'[j]) = "done"
    BY <1>0, <1>4, ContractStates DEF FailJob, Native, Finished
  <2>2. UNCHANGED <<completed, status, notified>>
    BY <1>4 DEF FailJob
  <2>3. QED
    BY <2>1, <2>2 DEF Contract!Fail
<1>5. ASSUME NEW j \in Jobs, ExpireJob(j) PROVE Contract!Expire(j)
  <2>1. /\ \A k \in Jobs \ {j} : native'[k] = native[k]
        /\ \A k \in Jobs : native'[k].run = native[k].run
        /\ ContractState(native[j]) = "done"
        /\ ContractState(native'[j]) = "none"
    BY <1>0, <1>5, ContractStates DEF ExpireJob, Native
  <2>2. UNCHANGED <<completed, status, notified>>
    BY <1>5 DEF ExpireJob
  <2>3. QED
    BY <2>1, <2>2 DEF Contract!Expire
<1>6. ASSUME NEW j \in Jobs, PatchStatus(j) PROVE [Contract!Next]_(Contract!vars)
  <2>1. \A k \in Jobs \ {j} : status'[k] = status[k]
    BY <1>0, <1>6 DEF PatchStatus
  <2>2. UNCHANGED <<native, completed, notified>>
    BY <1>6 DEF PatchStatus
  <2>3. CASE status'[j].phase = "Succeeded"
    <3>1. status[j].phase = "Succeeded" \/ completed[j] # {}
      <4>1. /\ status[j] \in Status /\ rec[j].base \in Status
            /\ rec[j].new \in Status /\ StatusBacked(j, rec[j].new)
        BY DEF Traced, TypeOK, RecTypeOK, Rec, StatusTraced
      <4>2. status'[j] = MergePatch(status[j], rec[j].base, rec[j].new)
        BY <1>0, <1>6 DEF PatchStatus
      <4>3. status'[j].phase \in {status[j].phase, rec[j].new.phase}
        BY <4>1, <4>2, MergePatchFields
      <4>4. QED
        BY <2>3, <4>1, <4>3 DEF StatusBacked
    <3>2. CASE status[j].phase = "Succeeded"
      BY <2>1, <2>2, <2>3, <3>2
    <3>3. CASE completed[j] # {}
      <4>1. Contract!Claim(j)
        BY <2>1, <2>2, <2>3, <3>3 DEF Contract!Claim
      <4>2. QED
        BY <4>1 DEF Contract!Next
    <3>4. QED
      BY <3>1, <3>2, <3>3
  <2>4. CASE status'[j].phase # "Succeeded"
    <3>1. Contract!Withdraw(j)
      BY <2>1, <2>2, <2>4 DEF Contract!Withdraw
    <3>2. QED
      BY <3>1 DEF Contract!Next
  <2>5. QED
    BY <2>3, <2>4
<1>7. ASSUME NEW j \in Jobs, Dispatch(j) PROVE [Contract!Next]_(Contract!vars)
  <2> DEFINE Successes(events) == {e.run : e \in {n \in events : n.phase = "Succeeded"}}
  <2>1. UNCHANGED <<native, completed, status>>
    BY <1>7 DEF Dispatch
  <2>2. CASE UNCHANGED notified
    BY <2>1, <2>2
  <2>3. CASE notified' = [notified EXCEPT ![j] = @ \cup {Delivered(j)}]
    <3>1. /\ notified'[j] = notified[j] \cup {Delivered(j)}
          /\ \A k \in Jobs \ {j} : notified'[k] = notified[k]
      BY <1>0, <2>3
    <3>2. CASE Delivered(j).phase = "Succeeded"
      <4>1. Delivered(j).run \in completed[j]
        BY <1>7, <3>2 DEF Dispatch, Delivered, Traced, EventsTraced, CompletionTraced
      <4>2. Successes(notified'[j]) = Successes(notified[j]) \cup {Delivered(j).run}
        BY <3>1, <3>2
      <4>3. Contract!Announce(j)
        BY <2>1, <3>1, <4>1, <4>2 DEF Contract!Announce
      <4>4. QED
        BY <4>3 DEF Contract!Next
    <3>3. CASE Delivered(j).phase # "Succeeded"
      <4>1. \A k \in Jobs : Successes(notified'[k]) = Successes(notified[k])
        BY <3>1, <3>3
      <4>2. QED
        BY <2>1, <4>1
    <3>4. QED
      BY <3>2, <3>3
  <2>4. QED
    BY <1>7, <2>2, <2>3 DEF Dispatch
<1>8. CASE UNCHANGED <<native, completed, status, notified>>
  BY <1>8
<1>9. QED
  BY <1>1, <1>2, <1>3, <1>4, <1>5, <1>6, <1>7, <1>8
  DEF Next, vars, Restart, Begin, Reconcile, Observe, PersistSnapshot,
      MarkSnapshotReady, ApiError, Sync, SyncNative, SyncSnapshot, SyncStatus,
      Environment, CollectPod, DeleteSnapshot, Reconfigure, Contract!Next

(* The BackupJob controller implements the contract of an execution: one    *)
(* native Job at a time, and a success reported or announced only after one *)
(* of its native Jobs has completed.                                        *)
THEOREM ContractKept == Spec => ImplementsContract
<1>1. Traced /\ [Next]_vars => [Contract!Next]_(Contract!vars)
  BY ContractStep
<1>2. QED
  BY ContractInit, <1>1, TracedInvariant, PTL DEF Spec, ImplementsContract, Contract!Spec
=============================================================================
