-------------------------- MODULE RestoreExecution --------------------------
(***************************************************************************)
(* The RestoreJob controller: restores from one registered Snapshot, which *)
(* retention or a user may delete meanwhile, and restores of artifacts     *)
(* imported from elsewhere, which need no Snapshot.                        *)
(*                                                                         *)
(* As in BackupExecution, reads of RestoreJobs, Snapshots and native Jobs  *)
(* go through informer caches that may lag, writes go to the API server,   *)
(* Pods are listed live, and one step is the reads between two writes      *)
(* together with the write that ends them.                                 *)
(***************************************************************************)
EXTENDS Naturals

CONSTANTS
    RestoreJobs,  \* RestoreJob objects
    NotifyJobs,   \* those with notificationRefs
    EditedJobs,   \* those whose spec or referenced objects users change
    Pruned,       \* whether the Snapshot may be deleted
    MaxExpiries,  \* bound: TTL deletions of a RestoreJob's native Jobs
    MaxFaults     \* bound: operator crashes, API errors and gateway failures

ASSUME RestoreAssumption ==
    /\ NotifyJobs \subseteq RestoreJobs
    /\ EditedJobs \subseteq RestoreJobs
    /\ Pruned \in BOOLEAN
    /\ MaxExpiries \in Nat
    /\ MaxFaults \in Nat

VARIABLES
    imports,     \* those with an importSource; the others name the Snapshot
    valid,       \* the spec is valid and its source, addon and storage exist
    snapshot,    \* the Snapshot in the API server
    snapView,    \* the informer's copy of it
    native,      \* the native Job in the API server
    nativeView,  \* the informer's copy of it
    status,      \* RestoreJob.status in the API server
    statusView,  \* the informer's copy of it
    probed,      \* BackupStorage.status.lastProbeResult is Succeeded
    rec,         \* the reconcile in progress and its local variables
    expired,     \* native Jobs removed by their TTL, per RestoreJob
    faults,      \* faults so far
    outcomes,    \* history: how each run of the native Jobs ended
    notified     \* history: the events the gateway accepted

vars == <<imports, valid, snapshot, snapView, native, nativeView, status,
          statusView, probed, rec, expired, faults, outcomes, notified>>

----------------------------------------------------------------------------
(* Values *)

SnapshotStates == {"absent", "unready", "ready", "terminating"}
NativeStates   == {"absent", "created", "active", "complete", "failed"}
Phases         == {"", "Pending", "Running", "Succeeded", "Failed"}
Deliveries     == {"none", "Succeeded", "Failed"}
Outcomes       == {"Succeeded", "Failed"}
PCs            == {"idle", "create", "observe", "notify", "patch"}

Native == [run : Nat, state : NativeStates]
Status == [phase : Phases, notification : Deliveries]
Result == [run : Nat, phase : Outcomes]
Rec    == [pc : PCs, base : Status, new : Status, seen : Native]

NoNative == [run |-> 0, state |-> "absent"]
NoStatus == [phase |-> "", notification |-> "none"]
Idle     == [pc |-> "idle", base |-> NoStatus, new |-> NoStatus, seen |-> NoNative]

Finished(n) == n.state \in {"complete", "failed"}

(* The phase a finished Job's conditions stand for. *)
Outcome(n) == IF n.state = "complete" THEN "Succeeded" ELSE "Failed"

TypeOK ==
    /\ imports \subseteq RestoreJobs
    /\ valid \in [RestoreJobs -> BOOLEAN]
    /\ snapshot \in SnapshotStates
    /\ snapView \in SnapshotStates
    /\ native \in [RestoreJobs -> Native]
    /\ nativeView \in [RestoreJobs -> Native]
    /\ status \in [RestoreJobs -> Status]
    /\ statusView \in [RestoreJobs -> Status]
    /\ probed \in BOOLEAN
    /\ rec \in [RestoreJobs -> Rec]
    /\ expired \in [RestoreJobs -> Nat]
    /\ faults \in Nat
    /\ outcomes \in [RestoreJobs -> SUBSET Result]
    /\ notified \in [RestoreJobs -> SUBSET Result]

(* RestoreJobs that were just created, possibly before their Snapshot.      *)
Init ==
    /\ imports \in SUBSET RestoreJobs
    /\ valid \in [RestoreJobs -> BOOLEAN]
    /\ snapshot \in SnapshotStates \ {"terminating"}
    /\ snapView = snapshot
    /\ native = [j \in RestoreJobs |-> NoNative]
    /\ nativeView = native
    /\ status = [j \in RestoreJobs |-> NoStatus]
    /\ statusView = status
    /\ probed = FALSE
    /\ rec = [j \in RestoreJobs |-> Idle]
    /\ expired = [j \in RestoreJobs |-> 0]
    /\ faults = 0
    /\ outcomes = [j \in RestoreJobs |-> {}]
    /\ notified = [j \in RestoreJobs |-> {}]

----------------------------------------------------------------------------
(* The reconcile loop, one worker for all RestoreJobs.  A RestoreJob is due *)
(* at any time: it is requeued after 30 seconds, or found by the informer's *)
(* resync where a reconcile ends without asking to be called again.         *)

Return(j) == rec' = [rec EXCEPT ![j] = Idle]
Decided(r, pc, new) ==
    [r EXCEPT !.pc = pc, !.new = new, !.seen = IF pc = "patch" THEN NoNative ELSE @]
Decide(j, pc, new) == rec' = [rec EXCEPT ![j] = Decided(rec[j], pc, new)]

(* Mutant of Resolved: every RestoreJob waits for the Snapshot. *)
ResolvedThroughSnapshot(j) ==
    valid[j] /\ snapView \in {"ready", "terminating"}

(* What the RestoreJob refers to is there, and a Snapshot is ready.  One    *)
(* that is terminating still counts: its status stays as it was.            *)
Resolved(j) ==
    /\ valid[j]
    /\ j \in imports \/ snapView \in {"ready", "terminating"}

(* Mutant of Begin: a RestoreJob that has ended is left alone. *)
BeginUnlessEnded(j) ==
    LET base == statusView[j]
        seen == nativeView[j]
        Enter(pc, new) ==
            rec' = [rec EXCEPT ![j] = [pc |-> pc, base |-> base, new |-> new,
                       seen |-> IF pc = "observe" THEN seen ELSE NoNative]]
    IN
    /\ \A k \in RestoreJobs : rec[k].pc = "idle"
    /\ base.phase \notin Outcomes
    /\ \/ ~Resolved(j) /\ Enter("patch", [base EXCEPT !.phase = "Failed"])
       \/ /\ Resolved(j)
          /\ \/ seen.state = "absent" /\ Enter("create", base)
             \/ seen.state = "created"
                /\ Enter("patch", [base EXCEPT !.phase = "Pending"])
             \/ seen.state = "active"
                /\ Enter("patch", [base EXCEPT !.phase = "Running"])
             \/ Finished(seen) /\ Enter("observe", base)
    /\ UNCHANGED <<imports, valid, snapshot, snapView, native, nativeView,
                   status, statusView, probed, expired, faults, outcomes,
                   notified>>

(* Reads the cached RestoreJob, what it refers to and the cached native     *)
(* Job, up to the first call that writes.                                   *)
Begin(j) ==
    LET base == statusView[j]
        seen == nativeView[j]
        Enter(pc, new) ==
            rec' = [rec EXCEPT ![j] = [pc |-> pc, base |-> base, new |-> new,
                       seen |-> IF pc = "observe" THEN seen ELSE NoNative]]
    IN
    /\ \A k \in RestoreJobs : rec[k].pc = "idle"
    /\ \/ ~Resolved(j) /\ Enter("patch", [base EXCEPT !.phase = "Failed"])
       \/ /\ Resolved(j)
          /\ \/ seen.state = "absent" /\ Enter("create", base)
             \/ seen.state = "created"
                /\ Enter("patch", [base EXCEPT !.phase = "Pending"])
             \/ seen.state = "active"
                /\ Enter("patch", [base EXCEPT !.phase = "Running"])
             \/ Finished(seen) /\ Enter("observe", base)
    /\ UNCHANGED <<imports, valid, snapshot, snapView, native, nativeView,
                   status, statusView, probed, expired, faults, outcomes,
                   notified>>

(* Mutant of CreateNative: a generated name, so that every Create succeeds. *)
CreateNativeGenerated(j) ==
    /\ rec[j].pc = "create"
    /\ native' = [native EXCEPT ![j] = [run |-> native[j].run + 1,
                                       state |-> "created"]]
    /\ Decide(j, "patch", [rec[j].new EXCEPT !.phase = "Running"])
    /\ UNCHANGED <<imports, valid, snapshot, snapView, nativeView, status,
                   statusView, probed, expired, faults, outcomes,
                   notified>>

(* Creates the native Job; AlreadyExists is ignored.                        *)
CreateNative(j) ==
    /\ rec[j].pc = "create"
    /\ native' = IF native[j].state = "absent"
                 THEN [native EXCEPT ![j] = [run |-> native[j].run + 1,
                                             state |-> "created"]]
                 ELSE native
    /\ Decide(j, "patch", [rec[j].new EXCEPT !.phase = "Running"])
    /\ UNCHANGED <<imports, valid, snapshot, snapView, nativeView, status,
                   statusView, probed, expired, faults, outcomes,
                   notified>>

(* Mutant of AfterObservation: a delivery is attempted only once. *)
AfterObservationOnce(j) ==
    IF j \in NotifyJobs /\ rec[j].base.notification = "none"
    THEN "notify" ELSE "patch"

AfterObservation(j) ==
    IF j \in NotifyJobs /\ rec[j].base.notification # "Succeeded"
    THEN "notify" ELSE "patch"

(* observeTerminalRestoreJob: the Job's own outcome, whatever became of its *)
(* Pod; a storage probe that the Pod still reports is written on the way.   *)
Observe(j) ==
    /\ rec[j].pc = "observe"
    /\ probed' \in {probed, TRUE}
    /\ Decide(j, AfterObservation(j),
              [rec[j].new EXCEPT !.phase = Outcome(rec[j].seen)])
    /\ UNCHANGED <<imports, valid, snapshot, snapView, native, nativeView,
                   status, statusView, expired, faults, outcomes,
                   notified>>

(* Mutant of Delivered: the event carries what the status said before. *)
DeliveredFromBase(j) == [run |-> rec[j].seen.run, phase |-> rec[j].base.phase]

(* Mutant of Delivered: a failure reported once stays a failure. *)
DeliveredSticky(j) ==
    [run |-> rec[j].seen.run,
     phase |-> IF rec[j].base.phase = "Failed" THEN "Failed" ELSE rec[j].new.phase]

(* The event of the observation. *)
Delivered(j) == [run |-> rec[j].seen.run, phase |-> rec[j].new.phase]

(* dispatchNotifications; an error is recorded and does not stop the        *)
(* reconcile, and a delivery that failed may have reached the gateway.      *)
Dispatch(j) ==
    /\ rec[j].pc = "notify"
    /\ \/ /\ notified' = [notified EXCEPT ![j] = @ \cup {Delivered(j)}]
          /\ Decide(j, "patch", [rec[j].new EXCEPT !.notification = "Succeeded"])
          /\ UNCHANGED faults
       \/ /\ faults < MaxFaults
          /\ faults' = faults + 1
          /\ \/ notified' = [notified EXCEPT ![j] = @ \cup {Delivered(j)}]
             \/ UNCHANGED notified
          /\ Decide(j, "patch", [rec[j].new EXCEPT !.notification = "Failed"])
    /\ UNCHANGED <<imports, valid, snapshot, snapView, native, nativeView,
                   status, statusView, probed, expired, outcomes>>

(* The fields that differ from the copy the reconcile started from.         *)
MergePatch(current, base, new) ==
    [f \in DOMAIN current |-> IF new[f] # base[f] THEN new[f] ELSE current[f]]

PatchStatus(j) ==
    /\ rec[j].pc = "patch"
    /\ status' = [status EXCEPT ![j] = MergePatch(@, rec[j].base, rec[j].new)]
    /\ Return(j)
    /\ UNCHANGED <<imports, valid, snapshot, snapView, native, nativeView,
                   statusView, probed, expired, faults, outcomes,
                   notified>>

Reconcile(j) ==
    CreateNative(j) \/ Observe(j) \/ Dispatch(j) \/ PatchStatus(j)

----------------------------------------------------------------------------
(* Faults and the informers, as in BackupExecution.                         *)

ApiError(j) ==
    /\ rec[j].pc # "idle"
    /\ faults < MaxFaults
    /\ faults' = faults + 1
    /\ Return(j)
    /\ UNCHANGED <<imports, valid, snapshot, snapView, native, nativeView,
                   status, statusView, probed, expired, outcomes,
                   notified>>

Restart ==
    /\ faults < MaxFaults
    /\ faults' = faults + 1
    /\ rec' = [j \in RestoreJobs |-> Idle]
    /\ nativeView' = native
    /\ snapView' = snapshot
    /\ statusView' = status
    /\ UNCHANGED <<imports, valid, snapshot, native, status, probed,
                   expired, outcomes, notified>>

SyncNative(j) ==
    /\ nativeView' = [nativeView EXCEPT ![j] = native[j]]
    /\ UNCHANGED <<imports, valid, snapshot, snapView, native, status,
                   statusView, probed, rec, expired, faults, outcomes,
                   notified>>

SyncStatus(j) ==
    /\ statusView' = [statusView EXCEPT ![j] = status[j]]
    /\ UNCHANGED <<imports, valid, snapshot, snapView, native, nativeView,
                   status, probed, rec, expired, faults, outcomes,
                   notified>>

SyncSnapshot ==
    /\ snapView' = snapshot
    /\ UNCHANGED <<imports, valid, snapshot, native, nativeView, status,
                   statusView, probed, rec, expired, faults, outcomes,
                   notified>>

----------------------------------------------------------------------------
(* The Snapshot's life: persistSnapshot creates it and then marks it ready; *)
(* a deletion removes it at once, or leaves it terminating for as long as   *)
(* its finalizer stands; an observation of its run may create it again.     *)

SnapshotMoves ==
    \/ snapshot = "absent" /\ snapshot' = "unready"
    \/ snapshot = "unready" /\ snapshot' = "ready"
    \/ Pruned /\ snapshot = "ready" /\ snapshot' = "terminating"
    \/ Pruned /\ snapshot # "absent" /\ snapshot' = "absent"

MoveSnapshot ==
    /\ SnapshotMoves
    /\ UNCHANGED <<imports, valid, snapView, native, nativeView, status,
                   statusView, probed, rec, expired, faults, outcomes,
                   notified>>

----------------------------------------------------------------------------
(* The environment: Kubernetes' Job, TTL and Pod controllers, and users.    *)

StartJob(j) ==
    /\ native[j].state = "created"
    /\ native' = [native EXCEPT ![j].state = "active"]
    /\ UNCHANGED <<imports, valid, snapshot, snapView, nativeView, status,
                   statusView, probed, rec, expired, faults, outcomes,
                   notified>>

Ends(j, state) ==
    /\ native' = [native EXCEPT ![j].state = state]
    /\ outcomes' = [outcomes EXCEPT ![j] =
                       @ \cup {[run |-> native[j].run, phase |-> Outcome(native'[j])]}]
    /\ UNCHANGED <<imports, valid, snapshot, snapView, nativeView, status,
                   statusView, probed, rec, expired, faults, notified>>

(* Preflight, download and addon-restore succeed one after another.         *)
CompleteJob(j) ==
    /\ native[j].state = "active"
    /\ Ends(j, "complete")

(* A container fails, before or after the preflight has reported, or the    *)
(* deadline passes.                                                         *)
FailJob(j) ==
    /\ native[j].state \in {"created", "active"}
    /\ Ends(j, "failed")

(* ttlSecondsAfterFinished. *)
ExpireJob(j) ==
    /\ Finished(native[j])
    /\ expired[j] < MaxExpiries
    /\ expired' = [expired EXCEPT ![j] = @ + 1]
    /\ native' = [native EXCEPT ![j].state = "absent"]
    /\ UNCHANGED <<imports, valid, snapshot, snapView, nativeView, status,
                   statusView, probed, rec, faults, outcomes, notified>>

Reconfigure(j) ==
    /\ j \in EditedJobs
    /\ valid' = [valid EXCEPT ![j] = ~@]
    /\ UNCHANGED <<imports, snapshot, snapView, native, nativeView, status,
                   statusView, probed, rec, expired, faults, outcomes,
                   notified>>

Environment(j) ==
    \/ StartJob(j) \/ CompleteJob(j) \/ FailJob(j) \/ ExpireJob(j)
    \/ Reconfigure(j)

Next ==
    \/ Restart \/ SyncSnapshot \/ MoveSnapshot
    \/ \E j \in RestoreJobs :
         \/ Begin(j) \/ Reconcile(j) \/ ApiError(j)
         \/ SyncNative(j) \/ SyncStatus(j) \/ Environment(j)

(* The controller and the watches go on; nothing is assumed of the rest.    *)
Fairness ==
    /\ WF_vars(SyncSnapshot)
    /\ \A j \in RestoreJobs :
         /\ SF_vars(Begin(j))
         /\ WF_vars(Reconcile(j))
         /\ WF_vars(SyncNative(j))
         /\ WF_vars(SyncStatus(j))

Spec     == Init /\ [][Next]_vars
FairSpec == Spec /\ Fairness

----------------------------------------------------------------------------
(* Properties *)

(* The native Job as the contract of an execution sees it. *)
ContractState(n) ==
    IF n.state = "absent" THEN "none" ELSE IF Finished(n) THEN "done" ELSE "running"

SuccessesIn(results) == {o.run : o \in {r \in results : r.phase = "Succeeded"}}

Contract == INSTANCE ExecutionContract WITH
    Objects   <- RestoreJobs,
    job       <- [j \in RestoreJobs |-> ContractState(native[j])],
    runs      <- [j \in RestoreJobs |-> native[j].run],
    succeeded <- [j \in RestoreJobs |-> SuccessesIn(outcomes[j])],
    claimed   <- [j \in RestoreJobs |-> status[j].phase = "Succeeded"],
    announced <- [j \in RestoreJobs |-> SuccessesIn(notified[j])]

(* Through stale caches, merge patches against old copies, lost answers and *)
(* re-runs, a RestoreJob keeps the contract of an execution: it restores    *)
(* with one native Job at a time, and reports and announces a success only  *)
(* after a native Job of its own has completed.                             *)
ImplementsContract == Contract!Spec

(* Two native Jobs of one RestoreJob never write to the target at once: a   *)
(* new one is created only after the previous one was deleted.              *)
OneRestoreAtATime ==
    \A j \in RestoreJobs :
        native[j].run = expired[j] + (IF native[j].state = "absent" THEN 0 ELSE 1)

(* A RestoreJob reports Succeeded only if one of its native Jobs completed. *)
SuccessIsReal ==
    \A j \in RestoreJobs :
        status[j].phase = "Succeeded" =>
            \E o \in outcomes[j] : o.phase = "Succeeded"

(* Every announced outcome is the outcome of that run, through lost answers, *)
(* repeated deliveries, re-runs and Failed phases that are not an outcome.  *)
EventsTellOutcomes == \A j \in RestoreJobs : notified[j] \subseteq outcomes[j]

Ready(j) ==
    /\ valid[j]
    /\ j \in imports \/ snapshot = "ready"

(* A RestoreJob that came before its Snapshot was ready, or before the      *)
(* objects it refers to existed, is started in the end.                     *)
StartsWhenReady == \A j \in RestoreJobs : <>[]Ready(j) => <>(native[j].run > 0)

Settled(j) == Ready(j) /\ Finished(native[j])

(* The outcome of a native Job that stays is eventually reported for good   *)
(* and announced, a delivery that failed being attempted again.             *)
OutcomeReported ==
    \A j \in RestoreJobs :
        <>[]Settled(j) =>
            /\ <>[](status[j].phase = Outcome(native[j]))
            /\ j \in NotifyJobs => <>(status[j].notification = "Succeeded")

(* What becomes of the Snapshot does not touch an import: once reported, a  *)
(* success stands while its native Job is there.                            *)
ImportOutcomeFinal ==
    [][\A j \in imports \ EditedJobs :
          status[j].phase = "Succeeded" /\ expired'[j] = 0
            => status'[j].phase = "Succeeded"]_vars

----------------------------------------------------------------------------
(* Where every claim of a status and of an event comes from: an inductive   *)
(* invariant.                                                               *)

(* Each run's outcome is on record when any copy of its Job says it ended,  *)
(* and only a Job that has ended is observed.                               *)
OutcomesTraced ==
    \A j \in RestoreJobs :
        /\ \A n \in {native[j], nativeView[j], rec[j].seen} :
              Finished(n) => [run |-> n.run, phase |-> Outcome(n)] \in outcomes[j]
        /\ rec[j].pc = "observe" => Finished(rec[j].seen)

(* Every copy of the status, current, cached or being computed, is backed.  *)
Backed(j, s) ==
    s.phase = "Succeeded" => \E o \in outcomes[j] : o.phase = "Succeeded"

StatusTraced ==
    \A j \in RestoreJobs : \A s \in {status[j], statusView[j], rec[j].base, rec[j].new} :
        Backed(j, s)

(* An event is prepared from the outcome that was observed.                 *)
EventsTraced ==
    \A j \in RestoreJobs :
        rec[j].pc = "notify" =>
            /\ Finished(rec[j].seen)
            /\ rec[j].new.phase = Outcome(rec[j].seen)

Traced ==
    /\ TypeOK
    /\ OneRestoreAtATime
    /\ OutcomesTraced
    /\ StatusTraced
    /\ EventsTraced
    /\ EventsTellOutcomes

(* What keeps the success of an import: an inductive invariant beside       *)
(* Traced.  As long as no native Job expired, one that a copy says has      *)
(* ended is the one there is; where a success shows, the cache has it too,  *)
(* so that later reconciles find it again; and a reconcile that is under    *)
(* way when the status says Succeeded began with that knowledge.           *)
SuccessKept(j) ==
    /\ \A n \in {nativeView[j], rec[j].seen} :
          Finished(n) => native[j] = n /\ nativeView[j] = n
    /\ rec[j].pc = "observe" => valid[j]
    /\ rec[j].pc = "create" => rec[j].new.phase # "Succeeded"
    /\ (\E s \in {status[j], statusView[j], rec[j].base, rec[j].new} : s.phase = "Succeeded")
          => valid[j] /\ nativeView[j].state = "complete"
    /\ status[j].phase = "Succeeded" =>
          \/ rec[j].pc = "idle"
          \/ rec[j].pc = "observe" /\ rec[j].seen.state = "complete"
          \/ rec[j].new.phase = "Succeeded"

ImportsKept ==
    \A j \in imports \ EditedJobs : expired[j] = 0 => SuccessKept(j)
=============================================================================
