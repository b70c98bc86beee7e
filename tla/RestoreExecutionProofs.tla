---------------------- MODULE RestoreExecutionProofs ----------------------
(***************************************************************************)
(* Machine-checked proofs about RestoreExecution, for any set of           *)
(* RestoreJobs, with and without a Snapshot, and any bounds.               *)
(***************************************************************************)
EXTENDS RestoreExecution, TLAPS

----------------------------------------------------------------------------
(* Type correctness *)

(* The values objects and locals start from have the types declared.       *)
LEMMA DefaultTypes ==
    /\ NoNative \in Native /\ NoStatus \in Status /\ Idle \in Rec
    /\ Idle.pc = "idle" /\ Idle.base = NoStatus /\ Idle.new = NoStatus
    /\ Idle.seen = NoNative /\ ~Finished(NoNative) /\ NoStatus.phase = ""
<1>1. NoNative \in Native /\ ~Finished(NoNative)
  BY DEF NoNative, Native, NativeStates, Finished
<1>2. NoStatus \in Status /\ NoStatus.phase = ""
  BY DEF NoStatus, Status, Phases, Deliveries
<1>3. /\ Idle \in Rec /\ Idle.pc = "idle" /\ Idle.base = NoStatus
      /\ Idle.new = NoStatus /\ Idle.seen = NoNative
  BY <1>1, <1>2 DEF Idle, Rec, PCs
<1>4. QED
  BY <1>1, <1>2, <1>3

(* A status that moves on keeps its type and every field but the changed.   *)
LEMMA StatusUpdate ==
    ASSUME NEW s \in Status
    PROVE  /\ \A p \in Phases : /\ [s EXCEPT !.phase = p] \in Status
                                /\ [s EXCEPT !.phase = p].phase = p
           /\ \A d \in Deliveries : /\ [s EXCEPT !.notification = d] \in Status
                                    /\ [s EXCEPT !.notification = d].phase = s.phase
    BY DEF Status

(* The outcome of a Job is one of the two phases that stand for one.        *)
LEMMA OutcomeType == \A n : Outcome(n) \in Outcomes /\ Outcomes \subseteq Phases
    BY DEF Outcome, Outcomes, Phases

(* A merge patch takes every field from the current object or the new one. *)
LEMMA MergePatchFields ==
    ASSUME NEW current \in Status, NEW base \in Status, NEW new \in Status
    PROVE  /\ MergePatch(current, base, new) \in Status
           /\ MergePatch(current, base, new).phase \in {current.phase, new.phase}
    BY DEF MergePatch, Status

(* How the locals change when a reconcile comes to a decision.              *)
LEMMA DecideLocals ==
    ASSUME rec \in [RestoreJobs -> Rec], NEW j \in RestoreJobs,
           NEW pc \in PCs, NEW new \in Status, Decide(j, pc, new)
    PROVE  /\ rec' \in [RestoreJobs -> Rec]
           /\ rec'[j].pc = pc
           /\ rec'[j].base = rec[j].base
           /\ rec'[j].new = new
           /\ rec'[j].seen = IF pc = "patch" THEN NoNative ELSE rec[j].seen
           /\ \A k \in RestoreJobs \ {j} : rec'[k] = rec[k]
<1> DEFINE r == Decided(rec[j], pc, new)
<1>1. rec[j] \in Rec /\ NoNative \in Native
  BY DefaultTypes
<1>2. /\ r \in Rec /\ r.pc = pc /\ r.base = rec[j].base /\ r.new = new
      /\ r.seen = IF pc = "patch" THEN NoNative ELSE rec[j].seen
  BY <1>1 DEF Decided, Rec
<1>3. rec' = [rec EXCEPT ![j] = r]
  BY DEF Decide
<1> HIDE DEF r
<1>4. QED
  BY <1>2, <1>3

(* A reconcile that ends forgets everything. *)
LEMMA ReturnLocals ==
    ASSUME rec \in [RestoreJobs -> Rec], NEW j \in RestoreJobs, Return(j)
    PROVE  /\ rec' \in [RestoreJobs -> Rec]
           /\ rec'[j] = Idle
           /\ \A k \in RestoreJobs \ {j} : rec'[k] = rec[k]
    BY DefaultTypes DEF Return

(* What a reconcile starts with: the copies in the caches.                  *)
LEMMA BeginLocals ==
    ASSUME TypeOK, NEW j \in RestoreJobs, Begin(j)
    PROVE  /\ rec' \in [RestoreJobs -> Rec]
           /\ rec'[j].base = statusView[j]
           /\ rec'[j].seen \in {nativeView[j], NoNative}
           /\ \/ rec'[j].pc = "create" /\ rec'[j].new = statusView[j]
              \/ /\ rec'[j].pc = "observe" /\ rec'[j].new = statusView[j]
                 /\ Finished(rec'[j].seen)
              \/ /\ rec'[j].pc = "patch"
                 /\ rec'[j].new.phase \in {"Failed", "Pending", "Running"}
           /\ \A k \in RestoreJobs \ {j} : rec'[k] = rec[k]
<1> DEFINE Entered(pc, new) ==
      [pc |-> pc, base |-> statusView[j], new |-> new,
       seen |-> IF pc = "observe" THEN nativeView[j] ELSE NoNative]
<1>1. /\ rec \in [RestoreJobs -> Rec]
      /\ statusView[j] \in Status /\ nativeView[j] \in Native /\ NoNative \in Native
  BY DefaultTypes DEF TypeOK
<1>2. \A pc \in PCs : \A new \in Status :
         /\ Entered(pc, new) \in Rec
         /\ Entered(pc, new).pc = pc /\ Entered(pc, new).new = new
         /\ Entered(pc, new).base = statusView[j]
         /\ Entered(pc, new).seen = IF pc = "observe" THEN nativeView[j] ELSE NoNative
  BY <1>1 DEF Rec
<1>3. {"create", "observe", "patch"} \subseteq PCs
  BY DEF PCs
<1>4. ASSUME NEW pc \in {"create", "observe", "patch"}, NEW new \in Status,
             rec' = [rec EXCEPT ![j] = Entered(pc, new)]
      PROVE  /\ rec' \in [RestoreJobs -> Rec]
             /\ rec'[j].base = statusView[j]
             /\ rec'[j].seen \in {nativeView[j], NoNative}
             /\ rec'[j].pc = pc /\ rec'[j].new = new
             /\ pc = "observe" => rec'[j].seen = nativeView[j]
             /\ \A k \in RestoreJobs \ {j} : rec'[k] = rec[k]
  <2> HIDE DEF Entered
  <2>1. pc \in PCs /\ rec'[j] = Entered(pc, new)
    BY <1>1, <1>3, <1>4
  <2>2. QED
    BY <1>1, <1>2, <1>4, <2>1
<1>5. \A p \in {"Failed", "Pending", "Running"} :
         /\ [statusView[j] EXCEPT !.phase = p] \in Status
         /\ [statusView[j] EXCEPT !.phase = p].phase = p
  <2>1. {"Failed", "Pending", "Running"} \subseteq Phases
    BY DEF Phases
  <2>2. QED
    BY <1>1, <2>1, StatusUpdate
<1>6. CASE rec' = [rec EXCEPT ![j] = Entered("create", statusView[j])]
  BY <1>1, <1>4, <1>6
<1>7. CASE /\ rec' = [rec EXCEPT ![j] = Entered("observe", statusView[j])]
           /\ Finished(nativeView[j])
  BY <1>1, <1>4, <1>7
<1>8. ASSUME NEW p \in {"Failed", "Pending", "Running"},
             rec' = [rec EXCEPT ![j] = Entered("patch", [statusView[j] EXCEPT !.phase = p])]
      PROVE  /\ rec' \in [RestoreJobs -> Rec]
             /\ rec'[j].base = statusView[j]
             /\ rec'[j].seen \in {nativeView[j], NoNative}
             /\ rec'[j].pc = "patch"
             /\ rec'[j].new.phase \in {"Failed", "Pending", "Running"}
             /\ \A k \in RestoreJobs \ {j} : rec'[k] = rec[k]
  <2> HIDE DEF Entered
  <2>1. QED
    BY <1>4, <1>5, <1>8
<1>9. \/ rec' = [rec EXCEPT ![j] = Entered("create", statusView[j])]
      \/ /\ rec' = [rec EXCEPT ![j] = Entered("observe", statusView[j])]
         /\ Finished(nativeView[j])
      \/ \E p \in {"Failed", "Pending", "Running"} :
            rec' = [rec EXCEPT ![j] = Entered("patch", [statusView[j] EXCEPT !.phase = p])]
  BY DEF Begin
<1> HIDE DEF Entered
<1>10. QED
  BY <1>6, <1>7, <1>8, <1>9

(* Every step keeps every variable in its type.                             *)
LEMMA TypeStep ==
    ASSUME TypeOK, EventsTraced, [Next]_vars PROVE TypeOK'
<1>0. /\ rec \in [RestoreJobs -> Rec] /\ NoNative \in Native /\ Idle \in Rec
      /\ \A j \in RestoreJobs : /\ rec[j].new \in Status /\ rec[j].base \in Status
                                /\ rec[j].seen \in Native /\ native[j] \in Native
                                /\ native[j].run \in Nat /\ status[j] \in Status
  BY DefaultTypes DEF TypeOK, Rec, Native
<1>1. CASE Restart
  BY <1>0, <1>1 DEF Restart, TypeOK
<1>2. ASSUME NEW j \in RestoreJobs, Begin(j) PROVE TypeOK'
  <2>1. rec' \in [RestoreJobs -> Rec]
    BY <1>2, BeginLocals
  <2>2. QED
    BY <1>2, <2>1 DEF Begin, TypeOK
<1>3. ASSUME NEW j \in RestoreJobs, CreateNative(j) PROVE TypeOK'
  <2>1. native' \in [RestoreJobs -> Native]
    BY <1>0, <1>3 DEF CreateNative, TypeOK, Native, NativeStates
  <2>2. [rec[j].new EXCEPT !.phase = "Running"] \in Status
    BY <1>0, StatusUpdate DEF Phases
  <2>3. rec' \in [RestoreJobs -> Rec]
    BY <1>0, <1>3, <2>2, DecideLocals DEF CreateNative, PCs
  <2>4. QED
    BY <1>3, <2>1, <2>3 DEF CreateNative, TypeOK
<1>4. ASSUME NEW j \in RestoreJobs, Observe(j) PROVE TypeOK'
  <2>1. [rec[j].new EXCEPT !.phase = Outcome(rec[j].seen)] \in Status
    BY <1>0, StatusUpdate, OutcomeType
  <2>2. AfterObservation(j) \in PCs
    BY DEF AfterObservation, PCs
  <2>3. rec' \in [RestoreJobs -> Rec]
    BY <1>0, <1>4, <2>1, <2>2, DecideLocals DEF Observe
  <2>4. QED
    BY <1>4, <2>3 DEF Observe, TypeOK
<1>5. ASSUME NEW j \in RestoreJobs, Dispatch(j) PROVE TypeOK'
  <2>1. Delivered(j) \in Result
    BY <1>0, <1>5, OutcomeType DEF Dispatch, Delivered, EventsTraced, Result, Native
  <2>2. /\ [rec[j].new EXCEPT !.notification = "Succeeded"] \in Status
        /\ [rec[j].new EXCEPT !.notification = "Failed"] \in Status
    BY <1>0, StatusUpdate DEF Deliveries
  <2>3. rec' \in [RestoreJobs -> Rec]
    BY <1>0, <1>5, <2>2, DecideLocals DEF Dispatch, PCs
  <2>4. notified' \in [RestoreJobs -> SUBSET Result] /\ faults' \in Nat
    BY <1>5, <2>1 DEF Dispatch, TypeOK
  <2>5. QED
    BY <1>5, <2>3, <2>4 DEF Dispatch, TypeOK
<1>6. ASSUME NEW j \in RestoreJobs, PatchStatus(j) PROVE TypeOK'
  <2>1. rec' \in [RestoreJobs -> Rec]
    BY <1>0, <1>6, ReturnLocals DEF PatchStatus
  <2>2. status' \in [RestoreJobs -> Status]
    BY <1>0, <1>6, MergePatchFields DEF PatchStatus, TypeOK
  <2>3. QED
    BY <1>6, <2>1, <2>2 DEF PatchStatus, TypeOK
<1>7. ASSUME NEW j \in RestoreJobs, ApiError(j) PROVE TypeOK'
  <2>1. rec' \in [RestoreJobs -> Rec]
    BY <1>0, <1>7, ReturnLocals DEF ApiError
  <2>2. QED
    BY <1>7, <2>1 DEF ApiError, TypeOK
<1>8. ASSUME NEW j \in RestoreJobs, SyncNative(j) \/ SyncStatus(j) \/ SyncSnapshot
      PROVE  TypeOK'
  BY <1>8 DEF SyncNative, SyncStatus, SyncSnapshot, TypeOK
<1>9. CASE MoveSnapshot \/ SyncSnapshot
  BY <1>9 DEF MoveSnapshot, SnapshotMoves, SyncSnapshot, SnapshotStates, TypeOK
<1>10. ASSUME NEW j \in RestoreJobs, StartJob(j) PROVE TypeOK'
  <2>1. native' \in [RestoreJobs -> Native]
    BY <1>10 DEF StartJob, TypeOK, Native, NativeStates
  <2>2. QED
    BY <1>10, <2>1 DEF StartJob, TypeOK
<1>11. ASSUME NEW j \in RestoreJobs, NEW state \in {"complete", "failed"}, Ends(j, state)
       PROVE  TypeOK'
  <2>1. native' \in [RestoreJobs -> Native]
    BY <1>11 DEF Ends, TypeOK, Native, NativeStates
  <2>2. [run |-> native[j].run, phase |-> Outcome(native'[j])] \in Result
    BY <1>0, OutcomeType DEF Result
  <2>3. outcomes' \in [RestoreJobs -> SUBSET Result]
    BY <1>11, <2>2 DEF Ends, TypeOK
  <2>4. QED
    BY <1>11, <2>1, <2>3 DEF Ends, TypeOK
<1>12. ASSUME NEW j \in RestoreJobs, ExpireJob(j) PROVE TypeOK'
  <2>1. native' \in [RestoreJobs -> Native]
    BY <1>12 DEF ExpireJob, TypeOK, Native, NativeStates
  <2>2. QED
    BY <1>12, <2>1 DEF ExpireJob, TypeOK
<1>13. ASSUME NEW j \in RestoreJobs, Reconfigure(j) PROVE TypeOK'
  BY <1>13 DEF Reconfigure, TypeOK
<1>14. CASE UNCHANGED vars
  BY <1>14 DEF vars, TypeOK
<1>15. QED
  BY <1>1, <1>2, <1>3, <1>4, <1>5, <1>6, <1>7, <1>8, <1>9, <1>10, <1>11, <1>12,
     <1>13, <1>14
  DEF Next, Reconcile, Environment, CompleteJob, FailJob

----------------------------------------------------------------------------
(* Where claims come from *)

(* Native Jobs are created one at a time, whatever the cache shows.         *)
LEMMA OneRestoreStep ==
    ASSUME TypeOK, OneRestoreAtATime, [Next]_vars PROVE OneRestoreAtATime'
<1> USE DEF OneRestoreAtATime, TypeOK, Native
<1>1. ASSUME NEW j \in RestoreJobs, CreateNative(j) PROVE OneRestoreAtATime'
  BY <1>1 DEF CreateNative
<1>2. ASSUME NEW j \in RestoreJobs, StartJob(j) PROVE OneRestoreAtATime'
  BY <1>2 DEF StartJob
<1>3. ASSUME NEW j \in RestoreJobs, CompleteJob(j) PROVE OneRestoreAtATime'
  BY <1>3 DEF CompleteJob, Ends
<1>4. ASSUME NEW j \in RestoreJobs, FailJob(j) PROVE OneRestoreAtATime'
  BY <1>4 DEF FailJob, Ends
<1>5. ASSUME NEW j \in RestoreJobs, ExpireJob(j) PROVE OneRestoreAtATime'
  BY <1>5 DEF ExpireJob, Finished
<1>6. CASE UNCHANGED <<native, expired>>
  BY <1>6
<1>7. QED
  BY <1>1, <1>2, <1>3, <1>4, <1>5, <1>6
  DEF Next, vars, Restart, Begin, Reconcile, Observe, Dispatch, PatchStatus,
      ApiError, SyncNative, SyncStatus, SyncSnapshot, MoveSnapshot,
      Environment, Reconfigure

(* Outcomes are recorded when a run ends, and never withdrawn.              *)
LEMMA OutcomesKept ==
    ASSUME TypeOK, [Next]_vars, NEW k \in RestoreJobs
    PROVE  outcomes[k] \subseteq outcomes'[k]
<1>1. ASSUME NEW j \in RestoreJobs, NEW state, Ends(j, state)
      PROVE  outcomes[k] \subseteq outcomes'[k]
  BY <1>1 DEF Ends, TypeOK
<1>2. CASE UNCHANGED outcomes
  BY <1>2
<1>3. QED
  BY <1>1, <1>2
  DEF Next, vars, Restart, Begin, Reconcile, CreateNative, Observe, Dispatch,
      PatchStatus, ApiError, SyncNative, SyncStatus, SyncSnapshot,
      MoveSnapshot, Environment, StartJob, CompleteJob, FailJob, ExpireJob,
      Reconfigure

(* A copy of a Job that says it ended tells how its run ended.              *)
LEMMA OutcomesStep ==
    ASSUME TypeOK, OutcomesTraced, [Next]_vars PROVE OutcomesTraced'
<1> DEFINE Told(n, recorded) ==
      Finished(n) => [run |-> n.run, phase |-> Outcome(n)] \in recorded
<1>0. /\ rec \in [RestoreJobs -> Rec] /\ native \in [RestoreJobs -> Native]
      /\ nativeView \in [RestoreJobs -> Native]
      /\ \A k \in RestoreJobs : rec[k].new \in Status
      /\ \A k \in RestoreJobs : outcomes[k] \subseteq outcomes'[k]
  BY OutcomesKept DEF TypeOK, Rec
<1>1. \A k \in RestoreJobs : Told(native[k], outcomes[k]) /\ Told(nativeView[k], outcomes[k])
                             /\ Told(rec[k].seen, outcomes[k]) /\ Told(NoNative, outcomes[k])
  BY DefaultTypes DEF OutcomesTraced
<1>2. SUFFICES ASSUME NEW k \in RestoreJobs
               PROVE  /\ Told(native'[k], outcomes'[k]) /\ Told(nativeView'[k], outcomes'[k])
                      /\ Told(rec'[k].seen, outcomes'[k])
                      /\ rec'[k].pc = "observe" => Finished(rec'[k].seen)
  BY DEF OutcomesTraced, Finished, Outcome
<1>3. \A n : Told(n, outcomes[k]) => Told(n, outcomes'[k])
  BY <1>0 DEF Finished, Outcome
<1>4. rec[k].pc = "observe" => Finished(rec[k].seen)
  BY DEF OutcomesTraced
<1>5. CASE Restart
  BY <1>0, <1>1, <1>3, <1>5, DefaultTypes DEF Restart
<1>6. ASSUME NEW j \in RestoreJobs, Begin(j)
      PROVE  /\ UNCHANGED <<native, nativeView>>
             /\ Told(rec'[k].seen, outcomes'[k])
             /\ rec'[k].pc = "observe" => Finished(rec'[k].seen)
  <2>1. UNCHANGED <<native, nativeView>>
    BY <1>6 DEF Begin
  <2>2. rec'[k] = rec[k] \/ rec'[k].seen \in {nativeView[k], NoNative}
    BY <1>6, BeginLocals
  <2>3. rec'[k].pc = "observe" => Finished(rec'[k].seen)
    BY <1>4, <1>6, BeginLocals
  <2>4. Told(rec'[k].seen, outcomes[k])
    BY <1>1, <2>2
  <2>5. Told(rec'[k].seen, outcomes'[k])
    BY <1>3, <2>4
  <2>6. QED
    BY <2>1, <2>3, <2>5
<1> HIDE DEF Told
<1>7. ASSUME NEW j \in RestoreJobs, Return(j) \/ UNCHANGED rec
      PROVE  /\ Told(rec'[k].seen, outcomes'[k])
             /\ rec'[k].pc = "observe" => Finished(rec'[k].seen)
  BY <1>0, <1>1, <1>3, <1>4, <1>7, ReturnLocals, DefaultTypes
<1>8. ASSUME NEW j \in RestoreJobs, NEW pc \in {"notify", "patch"}, NEW new \in Status,
             Decide(j, pc, new)
      PROVE  /\ Told(rec'[k].seen, outcomes'[k])
             /\ rec'[k].pc = "observe" => Finished(rec'[k].seen)
  <2>1. pc \in PCs
    BY DEF PCs
  <2>2. /\ rec'[j].pc = pc /\ rec'[j].seen \in {rec[j].seen, NoNative}
        /\ \A i \in RestoreJobs \ {j} : rec'[i] = rec[i]
    BY <1>0, <1>8, <2>1, DecideLocals
  <2>3. QED
    BY <1>1, <1>3, <1>4, <1>8, <2>2
<1>9. ASSUME NEW j \in RestoreJobs, CreateNative(j)
      PROVE  Told(native'[k], outcomes'[k]) /\ UNCHANGED nativeView
             /\ (\E new \in Status : Decide(j, "patch", new))
  <2>1. [rec[j].new EXCEPT !.phase = "Running"] \in Status
    BY <1>0, StatusUpdate DEF Phases
  <2>2. Finished(native'[k]) => native'[k] = native[k]
    BY <1>0, <1>9 DEF CreateNative, Finished
  <2>3. QED
    BY <1>1, <1>3, <1>9, <2>1, <2>2 DEF CreateNative, Told
<1>10. ASSUME NEW j \in RestoreJobs, Observe(j)
       PROVE  /\ UNCHANGED <<native, nativeView>>
              /\ \E pc \in {"notify", "patch"} : \E new \in Status : Decide(j, pc, new)
  <2>1. [rec[j].new EXCEPT !.phase = Outcome(rec[j].seen)] \in Status
    BY <1>0, StatusUpdate, OutcomeType
  <2>2. AfterObservation(j) \in {"notify", "patch"}
    BY DEF AfterObservation
  <2>3. QED
    BY <1>10, <2>1, <2>2 DEF Observe
<1>11. ASSUME NEW j \in RestoreJobs, Dispatch(j)
       PROVE  /\ UNCHANGED <<native, nativeView>>
              /\ \E new \in Status : Decide(j, "patch", new)
  <2>1. /\ [rec[j].new EXCEPT !.notification = "Succeeded"] \in Status
        /\ [rec[j].new EXCEPT !.notification = "Failed"] \in Status
    BY <1>0, StatusUpdate DEF Deliveries
  <2>2. QED
    BY <1>11, <2>1 DEF Dispatch
<1>12. ASSUME NEW j \in RestoreJobs, PatchStatus(j) \/ ApiError(j)
       PROVE  Return(j) /\ UNCHANGED <<native, nativeView>>
  BY <1>12 DEF PatchStatus, ApiError
<1>13. ASSUME NEW j \in RestoreJobs,
              StartJob(j) \/ ExpireJob(j) \/ Reconfigure(j)
       PROVE  Told(native'[k], outcomes'[k]) /\ UNCHANGED <<nativeView, rec>>
  <2>1. Finished(native'[k]) => native'[k] = native[k]
    BY <1>0, <1>13 DEF StartJob, ExpireJob, Reconfigure, Finished, Native
  <2>2. QED
    BY <1>1, <1>3, <1>13, <2>1 DEF StartJob, ExpireJob, Reconfigure, Told
<1>14. ASSUME NEW j \in RestoreJobs, NEW state, Ends(j, state)
       PROVE  Told(native'[k], outcomes'[k]) /\ UNCHANGED <<nativeView, rec>>
  <2>1. CASE k = j
    BY <1>0, <1>14, <2>1 DEF Ends, TypeOK, Native, Outcome, Told
  <2>2. CASE k # j
    BY <1>0, <1>1, <1>3, <1>14, <2>2 DEF Ends
  <2>3. QED
    BY <1>14, <2>1, <2>2 DEF Ends
<1>15. ASSUME NEW j \in RestoreJobs, SyncNative(j) \/ SyncStatus(j) \/ SyncSnapshot
       PROVE  UNCHANGED <<native, rec>> /\ nativeView'[k] \in {native[k], nativeView[k]}
  BY <1>0, <1>15 DEF SyncNative, SyncStatus, SyncSnapshot
<1>16. CASE MoveSnapshot \/ SyncSnapshot \/ UNCHANGED vars
  BY <1>1, <1>3, <1>4, <1>16 DEF MoveSnapshot, SyncSnapshot, vars
<1>17. QED
  <2>1. UNCHANGED native => Told(native'[k], outcomes'[k])
    BY <1>1, <1>3
  <2>2. nativeView'[k] \in {native[k], nativeView[k]} => Told(nativeView'[k], outcomes'[k])
    BY <1>1, <1>3
  <2>3. UNCHANGED rec => /\ Told(rec'[k].seen, outcomes'[k])
                         /\ rec'[k].pc = "observe" => Finished(rec'[k].seen)
    BY <1>1, <1>3, <1>4
  <2>4. QED
    BY <1>5, <1>6, <1>7, <1>8, <1>9, <1>10, <1>11, <1>12, <1>13, <1>14, <1>15,
       <1>16, <2>1, <2>2, <2>3
    DEF Next, Reconcile, Environment, CompleteJob, FailJob

(* What the RestoreJob reports, in any copy of its status, is backed.       *)
LEMMA StatusStep ==
    ASSUME TypeOK, OutcomesTraced, StatusTraced, [Next]_vars PROVE StatusTraced'
<1> DEFINE Holds(s, recorded) ==
      s.phase = "Succeeded" => \E o \in recorded : o.phase = "Succeeded"
<1>0. /\ rec \in [RestoreJobs -> Rec] /\ status \in [RestoreJobs -> Status]
      /\ statusView \in [RestoreJobs -> Status]
      /\ \A k \in RestoreJobs : /\ rec[k].new \in Status /\ rec[k].base \in Status
                                /\ outcomes[k] \subseteq outcomes'[k]
  BY OutcomesKept DEF TypeOK, Rec
<1>1. \A k \in RestoreJobs : /\ Holds(status[k], outcomes[k])
                             /\ Holds(statusView[k], outcomes[k])
                             /\ Holds(rec[k].base, outcomes[k])
                             /\ Holds(rec[k].new, outcomes[k])
                             /\ Holds(NoStatus, outcomes[k])
  BY DefaultTypes DEF StatusTraced, Backed
<1>2. SUFFICES ASSUME NEW k \in RestoreJobs
               PROVE  /\ Holds(status'[k], outcomes'[k])
                      /\ Holds(statusView'[k], outcomes'[k])
                      /\ Holds(rec'[k].base, outcomes'[k])
                      /\ Holds(rec'[k].new, outcomes'[k])
  BY DEF StatusTraced, Backed
<1>3. \A s : Holds(s, outcomes[k]) => Holds(s, outcomes'[k])
  BY <1>0
<1>4. \A s : s.phase # "Succeeded" => Holds(s, outcomes'[k])
  OBVIOUS
<1>5. \A s, t : s.phase = t.phase /\ Holds(t, outcomes[k]) => Holds(s, outcomes'[k])
  BY <1>3
<1>6. \A n : /\ Finished(n)
             /\ [run |-> n.run, phase |-> Outcome(n)] \in outcomes[k]
             => \A s : s.phase = Outcome(n) => Holds(s, outcomes[k])
  OBVIOUS
<1> HIDE DEF Holds
<1>7. UNCHANGED <<status, statusView, rec>> =>
        /\ Holds(status'[k], outcomes'[k]) /\ Holds(statusView'[k], outcomes'[k])
        /\ Holds(rec'[k].base, outcomes'[k]) /\ Holds(rec'[k].new, outcomes'[k])
  BY <1>1, <1>3
<1>8. UNCHANGED <<status, statusView>> =>
        /\ Holds(status'[k], outcomes'[k]) /\ Holds(statusView'[k], outcomes'[k])
  BY <1>1, <1>3
<1>9. CASE Restart
  BY <1>1, <1>3, <1>9, DefaultTypes DEF Restart
<1>10. ASSUME NEW j \in RestoreJobs, Begin(j)
       PROVE  /\ Holds(rec'[k].base, outcomes'[k]) /\ Holds(rec'[k].new, outcomes'[k])
              /\ UNCHANGED <<status, statusView>>
  <2>1. \/ rec'[k] = rec[k]
        \/ /\ rec'[k].base = statusView[k]
           /\ \/ rec'[k].new = statusView[k]
              \/ rec'[k].new.phase # "Succeeded"
    BY <1>10, BeginLocals
  <2>2. QED
    BY <1>1, <1>3, <1>4, <1>10, <2>1 DEF Begin
<1>11. ASSUME NEW j \in RestoreJobs, NEW pc \in PCs, NEW new \in Status,
              Decide(j, pc, new), k = j => Holds(new, outcomes'[k])
       PROVE  Holds(rec'[k].base, outcomes'[k]) /\ Holds(rec'[k].new, outcomes'[k])
  <2>1. \/ rec'[k] = rec[k]
        \/ k = j /\ rec'[k].base = rec[k].base /\ rec'[k].new = new
    BY <1>0, <1>11, DecideLocals
  <2>2. QED
    BY <1>1, <1>3, <1>11, <2>1
<1>12. ASSUME NEW j \in RestoreJobs, Return(j)
       PROVE  Holds(rec'[k].base, outcomes'[k]) /\ Holds(rec'[k].new, outcomes'[k])
  <2>1. rec'[k] = rec[k] \/ (rec'[k].base = NoStatus /\ rec'[k].new = NoStatus)
    BY <1>0, <1>12, ReturnLocals, DefaultTypes
  <2>2. QED
    BY <1>1, <1>3, <2>1
<1>13. ASSUME NEW j \in RestoreJobs, CreateNative(j)
       PROVE  /\ Holds(rec'[k].base, outcomes'[k]) /\ Holds(rec'[k].new, outcomes'[k])
              /\ UNCHANGED <<status, statusView>>
  <2> DEFINE new == [rec[j].new EXCEPT !.phase = "Running"]
  <2>1. new \in Status /\ new.phase # "Succeeded"
    BY <1>0, StatusUpdate DEF Phases
  <2>2. Decide(j, "patch", new) /\ UNCHANGED <<status, statusView>>
    BY <1>13 DEF CreateNative
  <2> HIDE DEF new
  <2>3. QED
    BY <1>4, <1>11, <2>1, <2>2 DEF PCs
<1>14. ASSUME NEW j \in RestoreJobs, Observe(j)
       PROVE  /\ Holds(rec'[k].base, outcomes'[k]) /\ Holds(rec'[k].new, outcomes'[k])
              /\ UNCHANGED <<status, statusView>>
  <2> DEFINE new == [rec[j].new EXCEPT !.phase = Outcome(rec[j].seen)]
  <2>1. new \in Status /\ new.phase = Outcome(rec[j].seen)
    BY <1>0, StatusUpdate, OutcomeType
  <2>2. Decide(j, AfterObservation(j), new) /\ UNCHANGED <<status, statusView>>
    BY <1>14 DEF Observe
  <2>3. AfterObservation(j) \in PCs
    BY DEF AfterObservation, PCs
  <2> HIDE DEF new
  <2>4. k = j => Holds(new, outcomes[k])
    BY <1>6, <1>14, <2>1 DEF Observe, OutcomesTraced
  <2>5. QED
    BY <1>3, <1>11, <2>1, <2>2, <2>3, <2>4
<1>15. ASSUME NEW j \in RestoreJobs, Dispatch(j)
       PROVE  /\ Holds(rec'[k].base, outcomes'[k]) /\ Holds(rec'[k].new, outcomes'[k])
              /\ UNCHANGED <<status, statusView>>
  <2>1. PICK d \in {"Succeeded", "Failed"} :
           Decide(j, "patch", [rec[j].new EXCEPT !.notification = d])
    BY <1>15 DEF Dispatch
  <2> DEFINE new == [rec[j].new EXCEPT !.notification = d]
  <2>2. new \in Status /\ new.phase = rec[j].new.phase
    BY <1>0, StatusUpdate DEF Deliveries
  <2>3. Decide(j, "patch", new) /\ UNCHANGED <<status, statusView>>
    BY <1>15, <2>1 DEF Dispatch
  <2> HIDE DEF new
  <2>4. k = j => Holds(new, outcomes'[k])
    BY <1>1, <1>5, <2>2
  <2>5. QED
    BY <1>11, <2>2, <2>3, <2>4 DEF PCs
<1>16. ASSUME NEW j \in RestoreJobs, PatchStatus(j)
       PROVE  /\ Holds(rec'[k].base, outcomes'[k]) /\ Holds(rec'[k].new, outcomes'[k])
              /\ Holds(status'[k], outcomes'[k]) /\ Holds(statusView'[k], outcomes'[k])
  <2>1. Return(j) /\ UNCHANGED statusView
    BY <1>16 DEF PatchStatus
  <2>2. \/ status'[k] = status[k]
        \/ status'[k].phase \in {status[k].phase, rec[k].new.phase}
    BY <1>0, <1>16, MergePatchFields DEF PatchStatus
  <2>3. QED
    BY <1>1, <1>3, <1>5, <1>12, <2>1, <2>2
<1>17. ASSUME NEW j \in RestoreJobs, ApiError(j)
       PROVE  Return(j) /\ UNCHANGED <<status, statusView>>
  BY <1>17 DEF ApiError
<1>18. ASSUME NEW j \in RestoreJobs, SyncStatus(j)
       PROVE  UNCHANGED <<status, rec>> /\ statusView'[k] \in {status[k], statusView[k]}
  BY <1>0, <1>18 DEF SyncStatus
<1>19. QED
  <2>1. ASSUME NEW j \in RestoreJobs, SyncStatus(j)
        PROVE  /\ Holds(status'[k], outcomes'[k]) /\ Holds(statusView'[k], outcomes'[k])
               /\ Holds(rec'[k].base, outcomes'[k]) /\ Holds(rec'[k].new, outcomes'[k])
    BY <1>1, <1>3, <1>18, <2>1
  <2>2. QED
    BY <1>7, <1>8, <1>9, <1>10, <1>12, <1>13, <1>14, <1>15, <1>16, <1>17, <2>1
    DEF Next, vars, Reconcile, SyncNative, SyncSnapshot, MoveSnapshot,
        Environment, StartJob, CompleteJob, FailJob, Ends, ExpireJob, Reconfigure

(* Events are prepared and sent from an outcome that was observed.          *)
LEMMA EventsStep ==
    ASSUME TypeOK, OutcomesTraced, EventsTraced, EventsTellOutcomes, [Next]_vars
    PROVE  EventsTraced' /\ EventsTellOutcomes'
<1>0. /\ rec \in [RestoreJobs -> Rec]
      /\ notified \in [RestoreJobs -> SUBSET Result]
      /\ \A k \in RestoreJobs : /\ rec[k].new \in Status
                                /\ outcomes[k] \subseteq outcomes'[k]
  BY OutcomesKept DEF TypeOK, Rec
<1>1. SUFFICES ASSUME NEW k \in RestoreJobs
               PROVE  /\ rec'[k].pc = "notify" =>
                           /\ Finished(rec'[k].seen)
                           /\ rec'[k].new.phase = Outcome(rec'[k].seen)
                      /\ notified'[k] \subseteq outcomes'[k]
  BY DEF EventsTraced, EventsTellOutcomes, Finished, Outcome
<1>2. /\ rec[k].pc = "notify" => /\ Finished(rec[k].seen)
                                 /\ rec[k].new.phase = Outcome(rec[k].seen)
      /\ notified[k] \subseteq outcomes'[k]
  BY <1>0 DEF EventsTraced, EventsTellOutcomes
<1>3. CASE UNCHANGED <<rec, notified>>
  BY <1>2, <1>3
<1>4. CASE Restart
  BY <1>2, <1>4, DefaultTypes DEF Restart
<1>5. ASSUME NEW j \in RestoreJobs, Begin(j)
      PROVE  UNCHANGED notified /\ (rec'[k].pc = "notify" => rec'[k] = rec[k])
  BY <1>5, BeginLocals DEF Begin
<1>6. ASSUME NEW j \in RestoreJobs, NEW new \in Status, Decide(j, "patch", new)
      PROVE  rec'[k].pc = "notify" => rec'[k] = rec[k]
  <2>1. "patch" \in PCs
    BY DEF PCs
  <2>2. QED
    BY <1>0, <1>6, <2>1, DecideLocals
<1>7. ASSUME NEW j \in RestoreJobs, CreateNative(j)
      PROVE  UNCHANGED notified /\ (rec'[k].pc = "notify" => rec'[k] = rec[k])
  <2>1. [rec[j].new EXCEPT !.phase = "Running"] \in Status
    BY <1>0, StatusUpdate DEF Phases
  <2>2. QED
    BY <1>6, <1>7, <2>1 DEF CreateNative
<1>8. ASSUME NEW j \in RestoreJobs, Observe(j)
      PROVE  /\ UNCHANGED notified
             /\ rec'[k].pc = "notify" =>
                  /\ Finished(rec'[k].seen)
                  /\ rec'[k].new.phase = Outcome(rec'[k].seen)
  <2> DEFINE new == [rec[j].new EXCEPT !.phase = Outcome(rec[j].seen)]
  <2>1. new \in Status /\ new.phase = Outcome(rec[j].seen)
    BY <1>0, StatusUpdate, OutcomeType
  <2>2. /\ Decide(j, AfterObservation(j), new) /\ UNCHANGED notified
        /\ Finished(rec[j].seen)
    BY <1>8 DEF Observe, OutcomesTraced
  <2>3. AfterObservation(j) \in PCs
    BY DEF AfterObservation, PCs
  <2> HIDE DEF new
  <2>4. QED
    BY <1>0, <1>2, <2>1, <2>2, <2>3, DecideLocals
<1>9. ASSUME NEW j \in RestoreJobs, Dispatch(j)
      PROVE  /\ notified'[k] \subseteq outcomes'[k]
             /\ rec'[k].pc = "notify" => rec'[k] = rec[k]
  <2>1. /\ [rec[j].new EXCEPT !.notification = "Succeeded"] \in Status
        /\ [rec[j].new EXCEPT !.notification = "Failed"] \in Status
    BY <1>0, StatusUpdate DEF Deliveries
  <2>2. rec'[k].pc = "notify" => rec'[k] = rec[k]
    BY <1>6, <1>9, <2>1 DEF Dispatch
  <2>3. Delivered(j) \in outcomes'[j]
    BY <1>0, <1>9 DEF Dispatch, Delivered, EventsTraced, OutcomesTraced
  <2>4. notified'[k] \subseteq notified[k] \cup (IF k = j THEN {Delivered(j)} ELSE {})
    BY <1>0, <1>9 DEF Dispatch
  <2>5. QED
    BY <1>2, <2>2, <2>3, <2>4
<1>10. ASSUME NEW j \in RestoreJobs, PatchStatus(j) \/ ApiError(j)
       PROVE  UNCHANGED notified /\ (rec'[k].pc = "notify" => rec'[k] = rec[k])
  <2>1. Return(j) /\ UNCHANGED notified
    BY <1>10 DEF PatchStatus, ApiError
  <2>2. QED
    BY <1>0, <2>1, ReturnLocals, DefaultTypes
<1>11. QED
  BY <1>2, <1>3, <1>4, <1>5, <1>7, <1>8, <1>9, <1>10
  DEF Next, vars, Reconcile, SyncNative, SyncStatus, SyncSnapshot, MoveSnapshot,
      Environment, StartJob, CompleteJob, FailJob, Ends, ExpireJob, Reconfigure

----------------------------------------------------------------------------
(* The invariant and what it implies *)

(* At the start nothing is claimed. *)
LEMMA TracedInit == Init => Traced
<1> SUFFICES ASSUME Init PROVE Traced
  OBVIOUS
<1>1. TypeOK
  BY DefaultTypes DEF Init, TypeOK, SnapshotStates
<1>2. OneRestoreAtATime
  <2>1. \A j \in RestoreJobs : /\ native[j].run = 0 /\ native[j].state = "absent"
                              /\ expired[j] = 0
    BY DEF Init, NoNative
  <2>2. QED
    BY <2>1, 0 + 0 = 0 DEF OneRestoreAtATime
<1>3. OutcomesTraced /\ StatusTraced
  BY DefaultTypes DEF Init, OutcomesTraced, StatusTraced, Backed
<1>4. EventsTraced /\ EventsTellOutcomes
  BY DefaultTypes DEF Init, EventsTraced, EventsTellOutcomes
<1>5. QED
  BY <1>1, <1>2, <1>3, <1>4 DEF Traced

(* Traced is inductive: every claim goes back to a run that ended so.       *)
LEMMA TracedInvariant == Spec => []Traced
<1>1. Traced /\ [Next]_vars => Traced'
  BY TypeStep, OneRestoreStep, OutcomesStep, StatusStep, EventsStep DEF Traced
<1>2. QED
  BY TracedInit, <1>1, PTL DEF Spec

(* Every variable keeps its type (RestoreJobStatus, Job, events).           *)
THEOREM TypeCorrect == Spec => []TypeOK
<1>1. Traced => TypeOK
  BY DEF Traced
<1>2. QED
  BY <1>1, TracedInvariant, PTL

(* However stale the RestoreJob controller's cache and wherever one of its  *)
(* reconciles dies, no two native Jobs of a RestoreJob write to the target  *)
(* at once.                                                                 *)
THEOREM RestoresAreSequential == Spec => []OneRestoreAtATime
<1>1. Traced => OneRestoreAtATime
  BY DEF Traced
<1>2. QED
  BY <1>1, TracedInvariant, PTL

(* status.phase=Succeeded always rests on a native Job that completed.      *)
THEOREM SuccessTraced == Spec => []SuccessIsReal
<1>1. Traced => SuccessIsReal
  BY DEF Traced, StatusTraced, Backed, SuccessIsReal
<1>2. QED
  BY <1>1, TracedInvariant, PTL

(* dispatchNotifications announces outcomes that happened, of the run that  *)
(* had them.                                                                *)
THEOREM EventsTrue == Spec => []EventsTellOutcomes
<1>1. Traced => EventsTellOutcomes
  BY DEF Traced
<1>2. QED
  BY <1>1, TracedInvariant, PTL

----------------------------------------------------------------------------
(* The contract of an execution *)

(* How the contract reads the states of a native Job. *)
LEMMA ContractStates ==
    /\ \A n : n.state = "absent" => ContractState(n) = "none"
    /\ \A n : n.state \in {"created", "active"} => ContractState(n) = "running"
    /\ \A n : Finished(n) => ContractState(n) = "done"
    BY DEF ContractState, Finished

(* What a new outcome adds to the runs that succeeded. *)
LEMMA SuccessesAdded ==
    ASSUME NEW results, NEW result
    PROVE  SuccessesIn(results \cup {result}) =
             SuccessesIn(results) \cup
               (IF result.phase = "Succeeded" THEN {result.run} ELSE {})
    BY DEF SuccessesIn

(* What the contract sees of a fresh RestoreJob. *)
LEMMA ContractInit == Init => Contract!Init
<1> SUFFICES ASSUME Init PROVE Contract!Init
  OBVIOUS
<1>1. \A j \in RestoreJobs : /\ ContractState(native[j]) = "none"
                             /\ native[j].run = 0
                             /\ (status[j].phase = "Succeeded") = FALSE
                             /\ outcomes[j] = {} /\ notified[j] = {}
  BY DefaultTypes, ContractStates DEF Init, NoNative
<1>2. SuccessesIn({}) = {}
  BY DEF SuccessesIn
<1>3. QED
  BY <1>1, <1>2 DEF Contract!Init

(* Every step of the controller or of its environment is a step of the      *)
(* contract, or changes nothing the contract speaks of.                     *)
LEMMA ContractStep ==
    ASSUME Traced, [Next]_vars PROVE [Contract!Next]_(Contract!vars)
<1> USE DEF Contract!vars
<1>0. /\ native \in [RestoreJobs -> Native] /\ status \in [RestoreJobs -> Status]
      /\ outcomes \in [RestoreJobs -> SUBSET Result]
      /\ notified \in [RestoreJobs -> SUBSET Result]
  BY DEF Traced, TypeOK
<1>1. ASSUME NEW j \in RestoreJobs, CreateNative(j)
      PROVE  [Contract!Next]_(Contract!vars)
  <2>1. CASE native[j].state = "absent"
    <3>1. /\ native' = [native EXCEPT ![j] = [run |-> native[j].run + 1,
                                             state |-> "created"]]
          /\ UNCHANGED <<status, outcomes, notified>>
      BY <1>1, <2>1 DEF CreateNative
    <3>2. /\ \A k \in RestoreJobs \ {j} : native'[k] = native[k]
          /\ native'[j].run = native[j].run + 1
          /\ ContractState(native[j]) = "none"
          /\ ContractState(native'[j]) = "running"
      BY <1>0, <2>1, <3>1, ContractStates
    <3>3. [k \in RestoreJobs |-> native'[k].run]
             = [[k \in RestoreJobs |-> native[k].run] EXCEPT ![j] = @ + 1]
      BY <3>2, Zenon
    <3>4. [k \in RestoreJobs |-> ContractState(native'[k])]
             = [[k \in RestoreJobs |-> ContractState(native[k])] EXCEPT ![j] = "running"]
      BY <3>2
    <3>5. Contract!Start(j)
      BY <3>1, <3>2, <3>3, <3>4 DEF Contract!Start
    <3>6. QED
      BY <3>5 DEF Contract!Next
  <2>2. CASE native[j].state # "absent"
    BY <1>1, <2>2 DEF CreateNative
  <2>3. QED
    BY <2>1, <2>2
<1>2. ASSUME NEW j \in RestoreJobs, StartJob(j) PROVE UNCHANGED Contract!vars
  <2>1. \A k \in RestoreJobs : /\ native'[k].run = native[k].run
                               /\ ContractState(native'[k]) = ContractState(native[k])
    BY <1>0, <1>2, ContractStates DEF StartJob, Native
  <2>2. UNCHANGED <<status, outcomes, notified>>
    BY <1>2 DEF StartJob
  <2>3. QED
    BY <2>1, <2>2
<1>3. ASSUME NEW j \in RestoreJobs, NEW state \in {"complete", "failed"}, Ends(j, state),
             native[j].state \in {"created", "active"}
      PROVE  Contract!Succeed(j) \/ Contract!Fail(j)
  <2>1. /\ \A k \in RestoreJobs \ {j} : native'[k] = native[k]
        /\ \A k \in RestoreJobs : native'[k].run = native[k].run
        /\ native'[j].state = state
        /\ ContractState(native[j]) = "running"
        /\ ContractState(native'[j]) = "done"
    BY <1>0, <1>3, ContractStates DEF Ends, Native, Finished
  <2>2. UNCHANGED <<status, notified>>
    BY <1>3 DEF Ends
  <2> DEFINE result == [run |-> native[j].run, phase |-> Outcome(native'[j])]
  <2>3. /\ outcomes'[j] = outcomes[j] \cup {result}
        /\ \A k \in RestoreJobs \ {j} : outcomes'[k] = outcomes[k]
    BY <1>0, <1>3 DEF Ends
  <2>4. /\ result.run = native[j].run
        /\ (result.phase = "Succeeded") <=> (state = "complete")
    BY <2>1 DEF Outcome
  <2> HIDE DEF result
  <2>5. CASE state = "complete"
    <3>1. SuccessesIn(outcomes'[j]) = SuccessesIn(outcomes[j]) \cup {native[j].run}
      BY <2>3, <2>4, <2>5, SuccessesAdded
    <3>2. QED
      BY <2>1, <2>2, <2>3, <3>1 DEF Contract!Succeed
  <2>6. CASE state = "failed"
    <3>1. SuccessesIn(outcomes'[j]) = SuccessesIn(outcomes[j])
      BY <2>3, <2>4, <2>6, SuccessesAdded
    <3>2. QED
      BY <2>1, <2>2, <2>3, <3>1 DEF Contract!Fail
  <2>7. QED
    BY <2>5, <2>6
<1>4. ASSUME NEW j \in RestoreJobs, ExpireJob(j) PROVE Contract!Expire(j)
  <2>1. /\ \A k \in RestoreJobs \ {j} : native'[k] = native[k]
        /\ \A k \in RestoreJobs : native'[k].run = native[k].run
        /\ ContractState(native[j]) = "done"
        /\ ContractState(native'[j]) = "none"
    BY <1>0, <1>4, ContractStates DEF ExpireJob, Native
  <2>2. UNCHANGED <<status, outcomes, notified>>
    BY <1>4 DEF ExpireJob
  <2>3. QED
    BY <2>1, <2>2 DEF Contract!Expire
<1>5. ASSUME NEW j \in RestoreJobs, PatchStatus(j)
      PROVE  [Contract!Next]_(Contract!vars)
  <2>1. \A k \in RestoreJobs \ {j} : status'[k] = status[k]
    BY <1>0, <1>5 DEF PatchStatus
  <2>2. UNCHANGED <<native, outcomes, notified>>
    BY <1>5 DEF PatchStatus
  <2>3. CASE status'[j].phase = "Succeeded"
    <3>1. status[j].phase = "Succeeded" \/ SuccessesIn(outcomes[j]) # {}
      <4>1. /\ status[j] \in Status /\ rec[j].base \in Status
            /\ rec[j].new \in Status /\ Backed(j, rec[j].new)
        BY DEF Traced, TypeOK, Rec, StatusTraced
      <4>2. status'[j] = MergePatch(status[j], rec[j].base, rec[j].new)
        BY <1>0, <1>5 DEF PatchStatus
      <4>3. status'[j].phase \in {status[j].phase, rec[j].new.phase}
        BY <4>1, <4>2, MergePatchFields
      <4>4. CASE rec[j].new.phase = "Succeeded"
        <5>1. PICK o \in outcomes[j] : o.phase = "Succeeded"
          BY <4>1, <4>4 DEF Backed
        <5>2. o.run \in SuccessesIn(outcomes[j])
          BY <5>1 DEF SuccessesIn
        <5>3. QED
          BY <5>2
      <4>5. QED
        BY <2>3, <4>3, <4>4
    <3>2. CASE status[j].phase = "Succeeded"
      BY <2>1, <2>2, <2>3, <3>2
    <3>3. CASE SuccessesIn(outcomes[j]) # {}
      <4>1. Contract!Claim(j)
        BY <2>1, <2>2, <2>3, <3>3 DEF Contract!Claim
      <4>2. QED
        BY <4>1 DEF Contract!Next
    <3>4. QED
      BY <3>1, <3>2, <3>3
  <2>4. CASE status'[j].phase # "Succeeded"
    <3>1. Contract!Withdraw(j)
      BY <2>1, <2>2, <2>4 DEF Contract!Withdraw
    <3>2. QED
      BY <3>1 DEF Contract!Next
  <2>5. QED
    BY <2>3, <2>4
<1>6. ASSUME NEW j \in RestoreJobs, Dispatch(j)
      PROVE  [Contract!Next]_(Contract!vars)
  <2>1. UNCHANGED <<native, outcomes, status>>
    BY <1>6 DEF Dispatch
  <2>2. CASE UNCHANGED notified
    BY <2>1, <2>2
  <2>3. CASE notified' = [notified EXCEPT ![j] = @ \cup {Delivered(j)}]
    <3>1. /\ notified'[j] = notified[j] \cup {Delivered(j)}
          /\ \A k \in RestoreJobs \ {j} : notified'[k] = notified[k]
      BY <1>0, <2>3
    <3>2. CASE Delivered(j).phase = "Succeeded"
      <4>1. Delivered(j) \in outcomes[j]
        BY <1>6 DEF Dispatch, Delivered, Traced, EventsTraced, OutcomesTraced
      <4>2. Delivered(j).run \in SuccessesIn(outcomes[j])
        BY <3>2, <4>1 DEF SuccessesIn
      <4>3. SuccessesIn(notified'[j]) = SuccessesIn(notified[j]) \cup {Delivered(j).run}
        BY <3>1, <3>2, SuccessesAdded
      <4>4. Contract!Announce(j)
        BY <2>1, <3>1, <4>2, <4>3, ZenonT(60) DEF Contract!Announce
      <4>5. QED
        BY <4>4 DEF Contract!Next
    <3>3. CASE Delivered(j).phase # "Succeeded"
      <4>1. \A k \in RestoreJobs : SuccessesIn(notified'[k]) = SuccessesIn(notified[k])
        <5>1. SuccessesIn(notified'[j]) = SuccessesIn(notified[j]) \cup {}
          BY <3>1, <3>3, SuccessesAdded
        <5>2. QED
          BY <3>1, <5>1
      <4>2. QED
        BY <2>1, <4>1
    <3>4. QED
      BY <3>2, <3>3
  <2>4. QED
    BY <1>6, <2>2, <2>3 DEF Dispatch
<1>7. CASE UNCHANGED <<native, status, outcomes, notified>>
  BY <1>7
<1>8. QED
  BY <1>1, <1>2, <1>3, <1>4, <1>5, <1>6, <1>7
  DEF Next, vars, Restart, Begin, Reconcile, Observe, ApiError, SyncNative,
      SyncStatus, SyncSnapshot, MoveSnapshot, Environment, CompleteJob, FailJob,
      Reconfigure, Contract!Next

(* The RestoreJob controller implements the contract of an execution: one   *)
(* native Job at a time, and a success reported or announced only after one *)
(* of its native Jobs has completed.                                        *)
THEOREM ContractKept == Spec => ImplementsContract
<1>1. Traced /\ [Next]_vars => [Contract!Next]_(Contract!vars)
  BY ContractStep
<1>2. QED
  BY ContractInit, <1>1, TracedInvariant, PTL DEF Spec, ImplementsContract, Contract!Spec

----------------------------------------------------------------------------
(* The success of an import *)

(* SuccessKept of given values. *)
Keeps(v, n, nv, s, sv, r) ==
    /\ \A m \in {nv, r.seen} : Finished(m) => n = m /\ nv = m
    /\ r.pc = "observe" => v
    /\ r.pc = "create" => r.new.phase # "Succeeded"
    /\ (\E t \in {s, sv, r.base, r.new} : t.phase = "Succeeded")
          => v /\ nv.state = "complete"
    /\ s.phase = "Succeeded" =>
          \/ r.pc = "idle"
          \/ r.pc = "observe" /\ r.seen.state = "complete"
          \/ r.new.phase = "Succeeded"

(* A step of the reconcile of an import, or of its worker's caches, keeps    *)
(* what SuccessKept says of it.                                            *)
LEMMA ReconcileKeeps ==
    ASSUME Traced, NEW k \in imports \ EditedJobs, k \in RestoreJobs, SuccessKept(k),
           Begin(k) \/ Reconcile(k)
    PROVE  SuccessKept(k)' /\ (status[k].phase = "Succeeded" => status'[k].phase = "Succeeded")
<1>0. /\ TypeOK /\ rec[k] \in Rec /\ rec[k].new \in Status /\ rec[k].base \in Status
      /\ status[k] \in Status /\ statusView[k] \in Status
      /\ rec \in [RestoreJobs -> Rec] /\ rec[k].seen \in Native
      /\ native \in [RestoreJobs -> Native] /\ status \in [RestoreJobs -> Status]
  BY DEF Traced, TypeOK, Rec
<1>1. Keeps(valid[k], native[k], nativeView[k], status[k], statusView[k], rec[k])
  BY DEF SuccessKept, Keeps
<1>2. SUFFICES ASSUME TRUE
               PROVE  /\ Keeps(valid'[k], native'[k], nativeView'[k], status'[k],
                               statusView'[k], rec'[k])
                      /\ status[k].phase = "Succeeded" => status'[k].phase = "Succeeded"
  BY DEF SuccessKept, Keeps, Finished
<1>3. CASE Begin(k)
  <2>1. /\ rec[k].pc = "idle" /\ nativeView[k].state = "complete" /\ valid[k] => Finished(nativeView[k])
        /\ valid[k] => Resolved(k)
    BY DEF Finished, Resolved
  <2>2. /\ nativeView[k].state = "complete" /\ valid[k] => rec'[k].pc = "observe"
        /\ rec'[k].pc = "observe" =>
              valid[k] /\ rec'[k].seen = nativeView[k] /\ Finished(nativeView[k])
    BY <1>0, <1>3 DEF Begin, Resolved, Finished
  <2>3. UNCHANGED <<valid, native, nativeView, status, statusView>>
    BY <1>3 DEF Begin
  <2>4. /\ rec'[k].base = statusView[k] /\ rec'[k].seen \in {nativeView[k], NoNative}
        /\ \/ rec'[k].pc \in {"create", "observe"} /\ rec'[k].new = statusView[k]
           \/ rec'[k].pc = "patch" /\ rec'[k].new.phase \in {"Failed", "Pending", "Running"}
    BY <1>0, <1>3, BeginLocals
  <2>5. \A m \in {nativeView[k], rec'[k].seen} :
            Finished(m) => native[k] = m /\ nativeView[k] = m
    BY <1>1, <2>4, DefaultTypes DEF Keeps
  <2>6. (\E t \in {status[k], statusView[k], rec'[k].base, rec'[k].new} : t.phase = "Succeeded")
           => valid[k] /\ nativeView[k].state = "complete"
    BY <1>1, <2>4 DEF Keeps
  <2>7. /\ rec'[k].pc = "observe" => valid[k] /\ rec'[k].seen = nativeView[k]
        /\ rec'[k].pc = "create" => rec'[k].new.phase # "Succeeded"
    BY <2>2, <2>4, <2>6
  <2>8. status[k].phase = "Succeeded" =>
           rec'[k].pc = "observe" /\ rec'[k].seen.state = "complete"
    BY <2>2, <2>6
  <2>9. QED
    BY <2>3, <2>5, <2>6, <2>7, <2>8 DEF Keeps
<1>4. CASE CreateNative(k)
  <2> DEFINE new == [rec[k].new EXCEPT !.phase = "Running"]
  <2>1. new \in Status /\ new.phase = "Running"
    BY <1>0, StatusUpdate DEF Phases
  <2>2. rec'[k].pc = "patch" /\ rec'[k].base = rec[k].base /\ rec'[k].new = new
        /\ rec'[k].seen = NoNative
    BY <1>0, <1>4, <2>1, DecideLocals DEF CreateNative, PCs
  <2>3. /\ UNCHANGED <<valid, nativeView, status, statusView>> /\ rec[k].pc = "create"
        /\ native'[k] # native[k] => native[k].state = "absent"
    BY <1>0, <1>4 DEF CreateNative
  <2> HIDE DEF new
  <2>4. QED
    BY <1>1, <2>1, <2>2, <2>3, DefaultTypes, ZenonT(60) DEF Keeps, Finished
<1>5. CASE Observe(k)
  <2> DEFINE new == [rec[k].new EXCEPT !.phase = Outcome(rec[k].seen)]
  <2>1. new \in Status /\ new.phase = Outcome(rec[k].seen)
    BY <1>0, StatusUpdate, OutcomeType
  <2>2. AfterObservation(k) \in {"notify", "patch"} /\ AfterObservation(k) \in PCs
    BY DEF AfterObservation, PCs
  <2>3. /\ rec'[k].pc \in {"notify", "patch"} /\ rec'[k].base = rec[k].base
        /\ rec'[k].new = new /\ rec'[k].seen \in {rec[k].seen, NoNative}
    BY <1>0, <1>5, <2>1, <2>2, DecideLocals DEF Observe
  <2>4. /\ UNCHANGED <<valid, native, nativeView, status, statusView>>
        /\ rec[k].pc = "observe" /\ Finished(rec[k].seen)
    BY <1>5 DEF Observe, Traced, OutcomesTraced
  <2> HIDE DEF new
  <2>5. valid[k] /\ native[k] = rec[k].seen /\ nativeView[k] = rec[k].seen
    BY <1>1, <2>4 DEF Keeps
  <2>6. rec'[k].new.phase = "Succeeded" <=> nativeView[k].state = "complete"
    BY <2>1, <2>3, <2>5 DEF Outcome
  <2>7. \A m \in {nativeView[k], rec'[k].seen} :
            Finished(m) => native[k] = m /\ nativeView[k] = m
    BY <2>3, <2>5, DefaultTypes DEF Finished
  <2>8. (\E t \in {status[k], statusView[k], rec'[k].base, rec'[k].new} : t.phase = "Succeeded")
           => nativeView[k].state = "complete"
    BY <1>1, <2>3, <2>6 DEF Keeps
  <2>9. rec'[k].pc \notin {"observe", "create"}
    BY <2>3
  <2>10. QED
    BY <2>4, <2>5, <2>6, <2>7, <2>8, <2>9 DEF Keeps
<1>6. CASE Dispatch(k)
  <2>1. ASSUME NEW d \in {"Succeeded", "Failed"},
               Decide(k, "patch", [rec[k].new EXCEPT !.notification = d])
        PROVE  /\ rec'[k].pc = "patch" /\ rec'[k].base = rec[k].base
               /\ rec'[k].seen = NoNative /\ rec'[k].new.phase = rec[k].new.phase
    <3>1. /\ [rec[k].new EXCEPT !.notification = d] \in Status
          /\ [rec[k].new EXCEPT !.notification = d].phase = rec[k].new.phase
      BY <1>0, StatusUpdate DEF Deliveries
    <3>2. QED
      BY <1>0, <2>1, <3>1, DecideLocals DEF PCs
  <2>2. /\ UNCHANGED <<valid, native, nativeView, status, statusView>>
        /\ rec[k].pc = "notify"
    BY <1>6 DEF Dispatch
  <2>3. /\ rec'[k].pc = "patch" /\ rec'[k].base = rec[k].base
        /\ rec'[k].seen = NoNative /\ rec'[k].new.phase = rec[k].new.phase
    BY <1>6, <2>1 DEF Dispatch
  <2>4. QED
    BY <1>1, <2>2, <2>3, DefaultTypes DEF Keeps, Finished
<1>7. CASE PatchStatus(k)
  <2>1. rec'[k] = Idle /\ status'[k].phase \in {status[k].phase, rec[k].new.phase}
    BY <1>0, <1>7, ReturnLocals, MergePatchFields DEF PatchStatus
  <2>2. UNCHANGED <<valid, native, nativeView, statusView>> /\ rec[k].pc = "patch"
    BY <1>7 DEF PatchStatus
  <2>3. QED
    BY <1>1, <2>1, <2>2, DefaultTypes DEF Keeps, Finished
<1>8. QED
  BY <1>3, <1>4, <1>5, <1>6, <1>7 DEF Reconcile

(* So does every other step, and the success of an import is not withdrawn. *)
LEMMA KeptStep ==
    ASSUME Traced, ImportsKept, [Next]_vars,
           NEW k \in imports \ EditedJobs, k \in RestoreJobs, expired'[k] = 0
    PROVE  SuccessKept(k)' /\ (status[k].phase = "Succeeded" => status'[k].phase = "Succeeded")
<1>0. /\ TypeOK /\ rec \in [RestoreJobs -> Rec]
      /\ native \in [RestoreJobs -> Native] /\ status \in [RestoreJobs -> Status]
  BY DEF Traced, TypeOK
<1>1. expired[k] = 0
  <2>1. ASSUME NEW j \in RestoreJobs, ExpireJob(j) PROVE expired[k] = 0
    BY <1>0, <2>1 DEF ExpireJob, TypeOK
  <2>2. QED
    BY <2>1 DEF Next, vars, Restart, Begin, Reconcile, CreateNative, Observe, Dispatch,
                PatchStatus, ApiError, SyncNative, SyncStatus, SyncSnapshot, MoveSnapshot,
                Environment, StartJob, CompleteJob, FailJob, Ends, Reconfigure
<1>2. SuccessKept(k) /\ Keeps(valid[k], native[k], nativeView[k], status[k], statusView[k], rec[k])
  BY <1>1 DEF ImportsKept, SuccessKept, Keeps
<1>3. SUFFICES ASSUME ~(Begin(k) \/ Reconcile(k))
               PROVE  /\ Keeps(valid'[k], native'[k], nativeView'[k], status'[k],
                               statusView'[k], rec'[k])
                      /\ status[k].phase = "Succeeded" => status'[k].phase = "Succeeded"
  BY <1>2, ReconcileKeeps DEF SuccessKept, Keeps, Finished
<1>4. ASSUME UNCHANGED <<valid[k], native[k], status[k]>>,
             \/ /\ UNCHANGED <<nativeView[k], rec[k]>>
                /\ statusView'[k] \in {statusView[k], status[k]}
             \/ /\ UNCHANGED <<statusView[k], rec[k]>>
                /\ nativeView'[k] \in {nativeView[k], native[k]}
             \/ /\ UNCHANGED <<statusView[k], nativeView[k]>> /\ rec'[k] = Idle
             \/ /\ nativeView'[k] = native[k] /\ statusView'[k] = status[k] /\ rec'[k] = Idle
      PROVE  /\ Keeps(valid'[k], native'[k], nativeView'[k], status'[k],
                      statusView'[k], rec'[k])
             /\ status[k].phase = "Succeeded" => status'[k].phase = "Succeeded"
  BY <1>2, <1>4, DefaultTypes, ZenonT(60) DEF Keeps, Finished
<1>5. CASE Restart
  BY <1>0, <1>4, <1>5 DEF Restart
<1>6. ASSUME NEW j \in RestoreJobs, \/ (j # k /\ (Begin(j) \/ Reconcile(j)))
                                    \/ ApiError(j) \/ SyncNative(j) \/ SyncStatus(j)
      PROVE  /\ Keeps(valid'[k], native'[k], nativeView'[k], status'[k],
                      statusView'[k], rec'[k])
             /\ status[k].phase = "Succeeded" => status'[k].phase = "Succeeded"
  <2>1. CASE j # k /\ (Begin(j) \/ Reconcile(j))
    <3>1. UNCHANGED <<valid, nativeView, statusView>> /\ UNCHANGED <<native[k], status[k], rec[k]>>
      BY <1>0, <2>1
         DEF Begin, Reconcile, CreateNative, Observe, Dispatch, PatchStatus, Decide, Return
    <3>2. QED
      BY <1>4, <3>1
  <2>2. CASE ApiError(j)
    BY <1>0, <1>4, <2>2, ReturnLocals DEF ApiError
  <2>3. CASE SyncNative(j)
    BY <1>0, <1>4, <2>3 DEF SyncNative, TypeOK
  <2>4. CASE SyncStatus(j)
    BY <1>0, <1>4, <2>4 DEF SyncStatus, TypeOK
  <2>5. QED
    BY <1>6, <2>1, <2>2, <2>3, <2>4
<1>7. ASSUME NEW j \in RestoreJobs, Environment(j)
      PROVE  /\ Keeps(valid'[k], native'[k], nativeView'[k], status'[k],
                      statusView'[k], rec'[k])
             /\ status[k].phase = "Succeeded" => status'[k].phase = "Succeeded"
  <2>1. CASE StartJob(j) \/ CompleteJob(j) \/ FailJob(j)
    <3>1. /\ UNCHANGED <<valid, nativeView, statusView, status, rec>>
          /\ native'[k] # native[k] => ~Finished(native[k])
      BY <1>0, <2>1 DEF StartJob, CompleteJob, FailJob, Ends, Finished
    <3>2. QED
      BY <1>2, <3>1 DEF Keeps
  <2>2. CASE ExpireJob(j)
    <3>1. UNCHANGED <<valid, nativeView, statusView, status, rec>> /\ native'[k] = native[k]
      BY <1>0, <1>1, <2>2 DEF ExpireJob, TypeOK
    <3>2. QED
      BY <1>4, <3>1
  <2>3. CASE Reconfigure(j)
    <3>1. UNCHANGED <<native, nativeView, statusView, status, rec>> /\ valid'[k] = valid[k]
      BY <1>0, <2>3 DEF Reconfigure, TypeOK
    <3>2. QED
      BY <1>4, <3>1
  <2>4. QED
    BY <1>7, <2>1, <2>2, <2>3 DEF Environment
<1>8. CASE SyncSnapshot \/ MoveSnapshot \/ UNCHANGED vars
  BY <1>4, <1>8 DEF SyncSnapshot, MoveSnapshot, vars
<1>9. QED
  BY <1>3, <1>5, <1>6, <1>7, <1>8 DEF Next

(* ImportOutcomeFinal: once an import that nobody edits reports Succeeded,  *)
(* it does so as long as its native Job has not expired, through stale      *)
(* caches, restarts, lost answers and whatever becomes of the Snapshot.     *)
THEOREM ImportsStandTheirSuccess == Spec => ImportOutcomeFinal
<1>1. Init => ImportsKept
  <2>1. ASSUME Init, NEW j \in RestoreJobs PROVE SuccessKept(j)
    <3>1. /\ rec[j] = Idle /\ nativeView[j] = NoNative
          /\ status[j] = NoStatus /\ statusView[j] = NoStatus
      BY <2>1 DEF Init
    <3>2. QED
      BY <3>1, DefaultTypes DEF SuccessKept
  <2>2. QED
    BY <2>1 DEF Init, ImportsKept
<1>2. Traced /\ ImportsKept /\ [Next]_vars => ImportsKept'
  <2>1. SUFFICES ASSUME Traced, ImportsKept, [Next]_vars,
                        NEW k \in imports' \ EditedJobs, expired'[k] = 0
                 PROVE  SuccessKept(k)'
    BY DEF ImportsKept
  <2>2. k \in imports \ EditedJobs /\ k \in RestoreJobs
    BY <2>1 DEF Traced, TypeOK, Next, vars, Restart, Begin, Reconcile, CreateNative, Observe,
                Dispatch, PatchStatus, ApiError, SyncNative, SyncStatus, SyncSnapshot,
                MoveSnapshot, Environment, StartJob, CompleteJob, FailJob, Ends, ExpireJob,
                Reconfigure
  <2>3. QED
    BY <2>1, <2>2, KeptStep
<1>3. Traced /\ ImportsKept /\ [Next]_vars
        => [\A j \in imports \ EditedJobs :
               status[j].phase = "Succeeded" /\ expired'[j] = 0
                 => status'[j].phase = "Succeeded"]_vars
  <2>1. SUFFICES ASSUME Traced, ImportsKept, [Next]_vars, NEW k \in imports \ EditedJobs,
                        status[k].phase = "Succeeded", expired'[k] = 0
                 PROVE  status'[k].phase = "Succeeded"
    OBVIOUS
  <2>2. k \in RestoreJobs
    BY <2>1 DEF Traced, TypeOK
  <2>3. QED
    BY <2>1, <2>2, KeptStep
<1>4. QED
  BY <1>1, <1>2, <1>3, TracedInvariant, PTL DEF Spec, ImportOutcomeFinal
=============================================================================
