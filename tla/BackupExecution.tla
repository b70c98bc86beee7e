-------------------------- MODULE BackupExecution --------------------------
(***************************************************************************)
(* The BackupJob controller driving one-off backups (BackupJobs without a  *)
(* policyRef, whose snapshot series holds a single Snapshot).              *)
(*                                                                         *)
(* A reconcile is a sequence of API calls.  Every read goes through an     *)
(* informer cache that may lag the API server (nativeView, statusView,     *)
(* snapView); every write goes to the API server; the Pods of a Job are    *)
(* listed live through the APIReader.  One step below is the reads between *)
(* two writes together with the write that ends them, so a crash, an API   *)
(* error, another controller or the Job controller can come between any    *)
(* two writes.                                                             *)
(***************************************************************************)
EXTENDS Naturals

CONSTANTS
    Jobs,         \* BackupJob objects
    NotifyJobs,   \* the BackupJobs with notificationRefs
    EditedJobs,   \* the BackupJobs whose resources users change meanwhile
    MaxExpiries,  \* bound: TTL deletions of a BackupJob's native Jobs
    MaxFaults     \* bound: operator crashes, API errors and gateway failures

ASSUME ConstantsAssumption ==
    /\ NotifyJobs \subseteq Jobs
    /\ EditedJobs \subseteq Jobs
    /\ MaxExpiries \in Nat
    /\ MaxFaults \in Nat

VARIABLES
    config,      \* what the spec and the resources it names allow a reconcile to do
    native,      \* the native Job in the API server
    nativeView,  \* the informer's copy of it
    pod,         \* the Job's latest Pod and what its containers reported
    snap,        \* the Snapshot named after the native Job (run 0: absent)
    snapView,    \* the informer's copy of it
    status,      \* BackupJob.status in the API server
    statusView,  \* the informer's copy of it
    probe,       \* BackupStorage.status.lastProbe*
    rec,         \* the reconcile in progress and its local variables
    expired,     \* native Jobs removed by their TTL, per BackupJob
    faults,      \* faults so far
    completed,   \* history: the runs whose Job condition became Complete
    uploaded,    \* history: the runs whose Pod reported an artifact
    removed,     \* history: the BackupJobs whose Snapshot somebody deleted
    notified     \* history: the events the gateway accepted

vars == <<config, native, nativeView, pod, snap, snapView, status, statusView,
          probe, rec, expired, faults, completed, uploaded, removed, notified>>

----------------------------------------------------------------------------
(* Values *)

Configs      == {"valid", "rejected", "paused"}  \* rejected: an invalid spec or a missing object
NativeStates == {"absent", "created", "active", "complete", "failed"}
Phases       == {"", "Pending", "Running", "Succeeded", "Failed", "Paused"}
Deliveries   == {"none", "Succeeded", "Failed"}
ProbeResults == {"none", "Succeeded"}  \* no script reports a failed probe
PCs          == {"idle", "create", "observe", "persist", "ready", "notify", "patch"}

Native   == [run : Nat, state : NativeStates]
Pod      == [run : Nat, artifact : BOOLEAN, probe : ProbeResults]
Snapshot == [run : Nat, ready : BOOLEAN]
Status   == [phase : Phases, snapshotRef : BOOLEAN, notification : Deliveries]
Event    == [run : Nat, phase : {"Succeeded", "Failed"}]
Rec      == [pc : PCs, base : Status, new : Status, seen : Native, artifact : Nat]

NoPod      == [run |-> 0, artifact |-> FALSE, probe |-> "none"]
NoSnapshot == [run |-> 0, ready |-> FALSE]
NoStatus   == [phase |-> "", snapshotRef |-> FALSE, notification |-> "none"]
NoNative   == [run |-> 0, state |-> "absent"]
Idle       == [pc |-> "idle", base |-> NoStatus, new |-> NoStatus,
               seen |-> NoNative, artifact |-> 0]

Finished(n) == n.state \in {"complete", "failed"}

RecTypeOK ==
    /\ rec \in [Jobs -> Rec]
    /\ \A j \in Jobs : rec[j].pc = "notify" =>
                        rec[j].new.phase \in {"Succeeded", "Failed"}

TypeOK ==
    /\ config \in [Jobs -> Configs]
    /\ native \in [Jobs -> Native]
    /\ nativeView \in [Jobs -> Native]
    /\ pod \in [Jobs -> Pod]
    /\ snap \in [Jobs -> Snapshot]
    /\ snapView \in [Jobs -> Snapshot]
    /\ status \in [Jobs -> Status]
    /\ statusView \in [Jobs -> Status]
    /\ probe \in ProbeResults
    /\ RecTypeOK
    /\ expired \in [Jobs -> Nat]
    /\ faults \in Nat
    /\ completed \in [Jobs -> SUBSET Nat]
    /\ uploaded \in [Jobs -> SUBSET Nat]
    /\ removed \in [Jobs -> BOOLEAN]
    /\ notified \in [Jobs -> SUBSET Event]

(* A BackupJob that was just created; its native Job does not exist yet. *)
Init ==
    /\ config \in [Jobs -> Configs]
    /\ native = [j \in Jobs |-> NoNative]
    /\ nativeView = native
    /\ pod = [j \in Jobs |-> NoPod]
    /\ snap = [j \in Jobs |-> NoSnapshot]
    /\ snapView = snap
    /\ status = [j \in Jobs |-> NoStatus]
    /\ statusView = status
    /\ probe = "none"
    /\ rec = [j \in Jobs |-> Idle]
    /\ expired = [j \in Jobs |-> 0]
    /\ faults = 0
    /\ completed = [j \in Jobs |-> {}]
    /\ uploaded = [j \in Jobs |-> {}]
    /\ removed = [j \in Jobs |-> FALSE]
    /\ notified = [j \in Jobs |-> {}]

----------------------------------------------------------------------------
(* The reconcile loop.  MaxConcurrentReconciles is 1, so a reconcile starts *)
(* only when no other one is in progress.  A BackupJob is due at any time:  *)
(* every exit requeues it, or an event or the informer's resync does.       *)

Registering(r, artifact) == [r EXCEPT !.pc = "persist", !.artifact = artifact]
Registered(r)            == [r EXCEPT !.pc = "ready"]
Decided(r, pc, new)      ==
    [r EXCEPT !.pc = pc, !.new = new, !.artifact = 0,
              !.seen = IF pc = "patch" THEN NoNative ELSE @]

Register(j, artifact) == rec' = [rec EXCEPT ![j] = Registering(rec[j], artifact)]
MarkReady(j)          == rec' = [rec EXCEPT ![j] = Registered(rec[j])]
Decide(j, pc, new)    == rec' = [rec EXCEPT ![j] = Decided(rec[j], pc, new)]
Return(j)             == rec' = [rec EXCEPT ![j] = Idle]

(* Reads the cached BackupJob, its dependencies and the cached native Job,  *)
(* up to the first call that writes.                                        *)
Begin(j) ==
    LET base == statusView[j]
        seen == nativeView[j]
        Enter(pc, new) ==
            rec' = [rec EXCEPT ![j] = [pc |-> pc, base |-> base, new |-> new,
                seen |-> IF pc = "observe" THEN seen ELSE NoNative, artifact |-> 0]]
    IN
    /\ \A k \in Jobs : rec[k].pc = "idle"
    /\ \/ /\ config[j] = "rejected"
          /\ Enter("patch", [base EXCEPT !.phase = "Failed"])
       \/ /\ config[j] = "paused"
          /\ Enter("patch", [base EXCEPT !.phase = "Paused"])
       \/ /\ config[j] = "valid"
          /\ \/ seen.state = "absent" /\ Enter("create", base)
             \/ seen.state = "created"
                /\ Enter("patch", [base EXCEPT !.phase = "Pending"])
             \/ seen.state = "active"
                /\ Enter("patch", [base EXCEPT !.phase = "Running"])
             \/ Finished(seen) /\ Enter("observe", base)
    /\ UNCHANGED <<config, native, nativeView, pod, snap, snapView, status,
                   statusView, probe, expired, faults, completed, uploaded,
                   removed, notified>>

(* Mutant of CreateNative: a generated name, so that every Create succeeds. *)
CreateNativeGenerated(j) ==
    /\ rec[j].pc = "create"
    /\ native' = [native EXCEPT ![j] = [run |-> native[j].run + 1,
                                       state |-> "created"]]
    /\ Decide(j, "patch", [rec[j].new EXCEPT !.phase = "Running"])
    /\ UNCHANGED <<config, nativeView, pod, snap, snapView, status, statusView,
                   probe, expired, faults, completed, uploaded, removed,
                   notified>>

(* Creates the native Job; AlreadyExists is ignored and also reported as    *)
(* "backup native job created".                                             *)
CreateNative(j) ==
    /\ rec[j].pc = "create"
    /\ native' = IF native[j].state = "absent"
                 THEN [native EXCEPT ![j] = [run |-> native[j].run + 1,
                                             state |-> "created"]]
                 ELSE native
    /\ Decide(j, "patch", [rec[j].new EXCEPT !.phase = "Running"])
    /\ UNCHANGED <<config, nativeView, pod, snap, snapView, status, statusView,
                   probe, expired, faults, completed, uploaded, removed,
                   notified>>

(* Where a terminal observation goes next: a delivery that did not succeed  *)
(* yet is attempted before the status is patched.                           *)
AfterObservation(j) ==
    IF j \in NotifyJobs /\ rec[j].base.notification # "Succeeded"
    THEN "notify" ELSE "patch"

Observed(j, phase, ref) ==
    [rec[j].new EXCEPT !.phase = phase, !.snapshotRef = ref]

(* The phase a finished Job is given when no Snapshot is to be registered:  *)
(* its own outcome, unless its Pod is there and reports no artifact.        *)
PhaseWithoutSnapshot(j) ==
    IF rec[j].seen.state = "complete" /\ pod[j] = NoPod
    THEN "Succeeded" ELSE "Failed"

(* Mutant of Observe: registers a Snapshot whether or not the Pod reports   *)
(* an artifact.                                                             *)
ObserveWithoutSummary(j) ==
    /\ rec[j].pc = "observe"
    /\ probe' = probe
    /\ IF rec[j].seen.state = "complete" /\ pod[j] # NoPod
       THEN Register(j, pod[j].run)
       ELSE Decide(j, AfterObservation(j),
                   Observed(j, PhaseWithoutSnapshot(j), FALSE))
    /\ UNCHANGED <<config, native, nativeView, pod, snap, snapView, status,
                   statusView, expired, faults, completed, uploaded, removed,
                   notified>>

(* Mutant of Observe: names the Snapshot and leaves its registration to     *)
(* somebody else.                                                           *)
ObserveWithoutPersisting(j) ==
    /\ rec[j].pc = "observe"
    /\ probe' = probe
    /\ IF rec[j].seen.state = "complete" /\ pod[j].artifact
       THEN Decide(j, AfterObservation(j), Observed(j, "Succeeded", TRUE))
       ELSE Decide(j, AfterObservation(j),
                   Observed(j, PhaseWithoutSnapshot(j), FALSE))
    /\ UNCHANGED <<config, native, nativeView, pod, snap, snapView, status,
                   statusView, expired, faults, completed, uploaded, removed,
                   notified>>

(* observeTerminalBackupJob up to persistSnapshot: list the Job's Pods      *)
(* live, write the storage probe they report, and decide.                   *)
Observe(j) ==
    /\ rec[j].pc = "observe"
    /\ probe' = IF pod[j].probe # "none" THEN pod[j].probe ELSE probe
    /\ IF rec[j].seen.state = "complete" /\ pod[j].artifact
       THEN Register(j, pod[j].run)
       ELSE Decide(j, AfterObservation(j),
                   Observed(j, PhaseWithoutSnapshot(j), FALSE))
    /\ UNCHANGED <<config, native, nativeView, pod, snap, snapView, status,
                   statusView, expired, faults, completed, uploaded, removed,
                   notified>>

(* Mutant of PersistSnapshot: always Create, never Update. *)
PersistSnapshotByCreate(j) ==
    /\ rec[j].pc = "persist"
    /\ IF snap[j] = NoSnapshot
       THEN /\ snap' = [snap EXCEPT ![j].run = rec[j].artifact]
            /\ MarkReady(j)
       ELSE Return(j) /\ UNCHANGED snap
    /\ UNCHANGED <<config, native, nativeView, pod, snapView, status,
                   statusView, probe, expired, faults, completed, uploaded,
                   removed, notified>>

(* The first half of persistSnapshot.  The cached Get chooses Create or     *)
(* Update; Create fails if the Snapshot is there after all, Update if the   *)
(* cached copy is not the current one.  Either error ends the reconcile.    *)
PersistSnapshot(j) ==
    /\ rec[j].pc = "persist"
    /\ IF snapView[j] = snap[j]
       THEN /\ snap' = [snap EXCEPT ![j].run = rec[j].artifact]
            /\ MarkReady(j)
       ELSE Return(j) /\ UNCHANGED snap
    /\ UNCHANGED <<config, native, nativeView, pod, snapView, status,
                   statusView, probe, expired, faults, completed, uploaded,
                   removed, notified>>

(* The second half: a cached Get and a status update, retried on conflicts  *)
(* for as long as the back-off lasts.  A Snapshot the cache does not have   *)
(* yet is a NotFound error.  The series pass that follows finds this        *)
(* Snapshot first and marked latest, and leaves it alone.                   *)
MarkSnapshotReady(j) ==
    /\ rec[j].pc = "ready"
    /\ IF snapView[j] = snap[j] /\ snap[j] # NoSnapshot
       THEN /\ snap' = [snap EXCEPT ![j].ready = TRUE]
            /\ Decide(j, AfterObservation(j), Observed(j, "Succeeded", TRUE))
       ELSE Return(j) /\ UNCHANGED snap
    /\ UNCHANGED <<config, native, nativeView, pod, snapView, status,
                   statusView, probe, expired, faults, completed, uploaded,
                   removed, notified>>

(* Mutant of Delivered: the event carries the phase read at the start. *)
DeliveredFromBase(j) == [run |-> rec[j].seen.run, phase |-> rec[j].base.phase]

(* The event of the observation: the outcome the status will report. *)
Delivered(j) == [run |-> rec[j].seen.run, phase |-> rec[j].new.phase]

(* dispatchNotifications through the gateway.  An error does not stop the   *)
(* reconcile, it is only recorded; a failed delivery may have reached the   *)
(* gateway (a partial failure, or a reply after the client's timeout).      *)
Dispatch(j) ==
    /\ rec[j].pc = "notify"
    /\ \/ /\ notified' = [notified EXCEPT ![j] = @ \cup {Delivered(j)}]
          /\ Decide(j, "patch", [rec[j].new EXCEPT !.notification = "Succeeded"])
          /\ UNCHANGED faults
       \/ /\ faults < MaxFaults
          /\ faults' = faults + 1
          /\ \/ notified' = [notified EXCEPT ![j] = @ \cup {Delivered(j)}]
             \/ UNCHANGED notified
          /\ Decide(j, "patch", [rec[j].new EXCEPT !.notification = "Failed"])
    /\ UNCHANGED <<config, native, nativeView, pod, snap, snapView, status,
                   statusView, probe, expired, completed, uploaded, removed>>

(* A merge patch carries the fields that differ from the copy the reconcile *)
(* started from, whatever the current object holds, and no version.         *)
MergePatch(current, base, new) ==
    [f \in DOMAIN current |-> IF new[f] # base[f] THEN new[f] ELSE current[f]]

PatchStatus(j) ==
    /\ rec[j].pc = "patch"
    /\ status' = [status EXCEPT ![j] = MergePatch(@, rec[j].base, rec[j].new)]
    /\ Return(j)
    /\ UNCHANGED <<config, native, nativeView, pod, snap, snapView, statusView,
                   probe, expired, faults, completed, uploaded, removed,
                   notified>>

Reconcile(j) ==
    \/ CreateNative(j) \/ Observe(j) \/ PersistSnapshot(j)
    \/ MarkSnapshotReady(j) \/ Dispatch(j) \/ PatchStatus(j)

----------------------------------------------------------------------------
(* Faults: an API call fails and the reconcile returns its error, or the    *)
(* operator dies and restarts with caches it has just listed.               *)

ApiError(j) ==
    /\ rec[j].pc # "idle"
    /\ faults < MaxFaults
    /\ faults' = faults + 1
    /\ Return(j)
    /\ UNCHANGED <<config, native, nativeView, pod, snap, snapView, status,
                   statusView, probe, expired, completed, uploaded, removed,
                   notified>>

Restart ==
    /\ faults < MaxFaults
    /\ faults' = faults + 1
    /\ rec' = [j \in Jobs |-> Idle]
    /\ nativeView' = native
    /\ snapView' = snap
    /\ statusView' = status
    /\ UNCHANGED <<config, native, pod, snap, status, probe, expired,
                   completed, uploaded, removed, notified>>

(* The watches deliver the current object. *)
SyncNative(j) ==
    /\ nativeView' = [nativeView EXCEPT ![j] = native[j]]
    /\ UNCHANGED <<config, native, pod, snap, snapView, status, statusView,
                   probe, rec, expired, faults, completed, uploaded, removed,
                   notified>>

SyncSnapshot(j) ==
    /\ snapView' = [snapView EXCEPT ![j] = snap[j]]
    /\ UNCHANGED <<config, native, nativeView, pod, snap, status, statusView,
                   probe, rec, expired, faults, completed, uploaded, removed,
                   notified>>

SyncStatus(j) ==
    /\ statusView' = [statusView EXCEPT ![j] = status[j]]
    /\ UNCHANGED <<config, native, nativeView, pod, snap, snapView, status,
                   probe, rec, expired, faults, completed, uploaded, removed,
                   notified>>

----------------------------------------------------------------------------
(* The environment: Kubernetes' Job controller, TTL controller and Pod      *)
(* garbage collection, and the users who edit the resources.                *)

StartJob(j) ==
    /\ native[j].state = "created"
    /\ native' = [native EXCEPT ![j].state = "active"]
    /\ pod' = [pod EXCEPT ![j] = [NoPod EXCEPT !.run = native[j].run]]
    /\ UNCHANGED <<config, nativeView, snap, snapView, status, statusView,
                   probe, rec, expired, faults, completed, uploaded, removed,
                   notified>>

(* The Pod succeeds.  The upload container's termination message may be     *)
(* lost or unreadable, which leaves the Pod without an artifact summary.    *)
CompleteJob(j) ==
    /\ native[j].state = "active"
    /\ native' = [native EXCEPT ![j].state = "complete"]
    /\ \E artifact \in BOOLEAN :
        /\ pod' = [pod EXCEPT ![j] = [run |-> native[j].run,
                        artifact |-> artifact, probe |-> "Succeeded"]]
        /\ uploaded' = IF artifact
                       THEN [uploaded EXCEPT ![j] = @ \cup {native[j].run}]
                       ELSE uploaded
    /\ completed' = [completed EXCEPT ![j] = @ \cup {native[j].run}]
    /\ UNCHANGED <<config, nativeView, snap, snapView, status, statusView,
                   probe, rec, expired, faults, removed, notified>>

(* A container fails, or the deadline passes, which also deletes the Pod.   *)
(* The preflight's script reports its success only: one that fails leaves   *)
(* no probe in the Pod, and a later container fails after a good probe.     *)
FailJob(j) ==
    /\ native[j].state \in {"created", "active"}
    /\ native' = [native EXCEPT ![j].state = "failed"]
    /\ \/ pod' = [pod EXCEPT ![j] = NoPod]
       \/ /\ native[j].state = "active"
          /\ \E result \in ProbeResults :
               pod' = [pod EXCEPT ![j] = [run |-> native[j].run,
                            artifact |-> FALSE, probe |-> result]]
    /\ UNCHANGED <<config, nativeView, snap, snapView, status, statusView,
                   probe, rec, expired, faults, completed, uploaded, removed,
                   notified>>

(* ttlSecondsAfterFinished: the Job goes, its Pods with it or a little later. *)
ExpireJob(j) ==
    /\ Finished(native[j])
    /\ expired[j] < MaxExpiries
    /\ expired' = [expired EXCEPT ![j] = @ + 1]
    /\ native' = [native EXCEPT ![j].state = "absent"]
    /\ UNCHANGED <<config, nativeView, pod, snap, snapView, status, statusView,
                   probe, rec, faults, completed, uploaded, removed, notified>>

CollectPod(j) ==
    /\ pod[j] # NoPod
    /\ native[j].state # "active"
    /\ pod' = [pod EXCEPT ![j] = NoPod]
    /\ UNCHANGED <<config, native, nativeView, snap, snapView, status,
                   statusView, probe, rec, expired, faults, completed,
                   uploaded, removed, notified>>

(* A Snapshot is deleted by a user and its finalizer has been served; once  *)
(* per BackupJob, as a bound.                                               *)
DeleteSnapshot(j) ==
    /\ j \in EditedJobs
    /\ snap[j] # NoSnapshot
    /\ ~removed[j]
    /\ snap' = [snap EXCEPT ![j] = NoSnapshot]
    /\ removed' = [removed EXCEPT ![j] = TRUE]
    /\ UNCHANGED <<config, native, nativeView, pod, snapView, status,
                   statusView, probe, rec, expired, faults, completed,
                   uploaded, notified>>

(* The BackupSource is paused or resumed, a referenced object goes away or  *)
(* comes back, the spec is edited.                                          *)
Reconfigure(j) ==
    /\ j \in EditedJobs
    /\ \E c \in Configs \ {config[j]} : config' = [config EXCEPT ![j] = c]
    /\ UNCHANGED <<native, nativeView, pod, snap, snapView, status,
                   statusView, probe, rec, expired, faults, completed,
                   uploaded, removed, notified>>

Sync(j) == SyncNative(j) \/ SyncSnapshot(j) \/ SyncStatus(j)

Environment(j) ==
    \/ StartJob(j) \/ CompleteJob(j) \/ FailJob(j) \/ ExpireJob(j)
    \/ CollectPod(j) \/ DeleteSnapshot(j) \/ Reconfigure(j)

Next ==
    \/ Restart
    \/ \E j \in Jobs : \/ Begin(j) \/ Reconcile(j) \/ ApiError(j)
                       \/ Sync(j) \/ Environment(j)

(* The work queue serves every due key in turn, so a BackupJob is never     *)
(* passed over for ever (strong fairness of Begin); a started reconcile     *)
(* runs on; the watches deliver.  Nothing is assumed of the environment.    *)
Fairness ==
    \A j \in Jobs :
        /\ SF_vars(Begin(j))
        /\ WF_vars(Reconcile(j))
        /\ WF_vars(SyncNative(j))
        /\ WF_vars(SyncSnapshot(j))
        /\ WF_vars(SyncStatus(j))

Spec     == Init /\ [][Next]_vars
FairSpec == Spec /\ Fairness

----------------------------------------------------------------------------
(* Properties *)

(* The native Job as the contract of an execution sees it. *)
ContractState(n) ==
    IF n.state = "absent" THEN "none" ELSE IF Finished(n) THEN "done" ELSE "running"

Contract == INSTANCE ExecutionContract WITH
    Objects   <- Jobs,
    job       <- [j \in Jobs |-> ContractState(native[j])],
    runs      <- [j \in Jobs |-> native[j].run],
    succeeded <- completed,
    claimed   <- [j \in Jobs |-> status[j].phase = "Succeeded"],
    announced <- [j \in Jobs |->
                    {e.run : e \in {n \in notified[j] : n.phase = "Succeeded"}}]

(* Through stale caches, merge patches against old copies, lost answers and *)
(* re-runs, a BackupJob keeps the contract of an execution: it runs one     *)
(* native Job at a time, and reports and announces a success only after a   *)
(* native Job of its own has completed.                                     *)
ImplementsContract == Contract!Spec

(* Native Jobs are created once per deletion of the previous one: however   *)
(* stale the cache and wherever a reconcile dies, a re-created reconcile    *)
(* never starts a second backup while the first one's Job is still there.   *)
OneJobAtATime ==
    \A j \in Jobs :
        native[j].run = expired[j] + (IF native[j].state = "absent" THEN 0 ELSE 1)

(* A BackupJob reports Succeeded only if one of its Jobs completed, through *)
(* stale caches, merge patches against old copies, and re-runs.             *)
SuccessIsReal ==
    \A j \in Jobs : status[j].phase = "Succeeded" => completed[j] # {}

(* A Snapshot exists only for a run that completed and uploaded the very    *)
(* artifact it names: a failed execution leaves no Snapshot behind.         *)
SnapshotIsReal ==
    \A j \in Jobs : snap[j] # NoSnapshot => snap[j].run \in uploaded[j] \cap completed[j]

(* status.snapshotRef never names a Snapshot that was not registered: it    *)
(* exists, unless somebody deleted it.                                      *)
SnapshotRefResolves ==
    \A j \in Jobs : status[j].snapshotRef => snap[j] # NoSnapshot \/ removed[j]

(* A BackupSucceeded event is only ever sent for a run that completed, and  *)
(* only for BackupJobs that asked for notifications.                        *)
SuccessNotifiedIsReal ==
    \A j \in Jobs : \A e \in notified[j] :
        /\ j \in NotifyJobs
        /\ e.phase = "Succeeded" => e.run \in completed[j]

(* The Job has completed, its Pod still tells the artifact, and nothing in  *)
(* the BackupJob's way.                                                     *)
Settled(j) ==
    /\ config[j] = "valid"
    /\ native[j].state = "complete"
    /\ pod[j].run = native[j].run
    /\ pod[j].artifact

(* A completed backup is eventually registered and reported for good,       *)
(* whatever was paused, missing, stale or crashed before, and announced: a  *)
(* delivery that failed is attempted again until one succeeds.              *)
CompletionReported ==
    \A j \in Jobs :
        <>[]Settled(j) =>
            /\ <>[](/\ status[j].phase = "Succeeded"
                    /\ status[j].snapshotRef
                    /\ snap[j] # NoSnapshot /\ snap[j].ready)
            /\ j \in NotifyJobs => <>(status[j].notification = "Succeeded")

----------------------------------------------------------------------------
(* Where every claim of the status, of a Snapshot and of an event comes     *)
(* from: together with TypeOK and OneJobAtATime, an inductive invariant.    *)

(* Completion is only ever concluded from a run that completed; artifacts   *)
(* come from such runs, which are numbered from 1.                          *)
CompletionTraced ==
    \A j \in Jobs :
        /\ \A n \in {native[j], nativeView[j], rec[j].seen} :
              n.state = "complete" => n.run \in completed[j]
        /\ uploaded[j] \subseteq completed[j] \ {0}
        /\ pod[j].artifact => pod[j].run \in uploaded[j]

(* A Snapshot is registered only on the way from an uploaded artifact.      *)
RegistrationTraced ==
    \A j \in Jobs :
        /\ snap[j] # NoSnapshot => snap[j].run \in uploaded[j]
        /\ rec[j].pc \in {"persist", "ready"} => rec[j].seen.state = "complete"
        /\ rec[j].pc = "persist" => rec[j].artifact \in uploaded[j]

(* Every copy of the status, current, cached or being computed, is backed.  *)
StatusBacked(j, s) ==
    /\ s.phase = "Succeeded" => completed[j] # {}
    /\ s.snapshotRef => snap[j] # NoSnapshot \/ removed[j]

StatusTraced ==
    \A j \in Jobs : \A s \in {status[j], statusView[j], rec[j].base, rec[j].new} :
        StatusBacked(j, s)

(* A delivery is prepared only when asked for, from the run observed.       *)
EventsTraced ==
    \A j \in Jobs :
        /\ rec[j].pc = "notify" =>
              /\ j \in NotifyJobs
              /\ rec[j].new.phase = "Succeeded" => rec[j].seen.state = "complete"
        /\ \A e \in notified[j] :
              /\ j \in NotifyJobs
              /\ e.phase = "Succeeded" => e.run \in completed[j]

Traced ==
    /\ TypeOK
    /\ OneJobAtATime
    /\ CompletionTraced
    /\ RegistrationTraced
    /\ StatusTraced
    /\ EventsTraced
=============================================================================
