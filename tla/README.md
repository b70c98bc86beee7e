# dataprotection: a TLA+ model of the operator

This directory holds TLA+ specifications of the dataprotection operator
(`src/`), the TLC configurations that check them on small instances, and proofs
of their main safety properties for every value of the constants.

`PROJECT.json` lists the components, the runs, which source lines each
definition stands for (`map`), the hazards of the code, the disagreements
between code and documents (`findings`) and the theorems. To check a module by
hand: `tlc -config SnapshotSeries_passes.cfg SnapshotSeries.tla`; to check its
proofs: `tlapm SnapshotSeriesProofs.tla`, and likewise for the seven other
modules whose name ends in `Proofs`.

## 1. The system

A Kubernetes operator (one process, `src/main.go`) with one controller per
resource and one worker per controller. Controllers do not call each other:
they interact through the API server, and all of them read through one informer
cache, except for Pods, which are listed live.

| Component | State | Operations | Interacts with |
| --- | --- | --- | --- |
| BackupJob controller (`backupjob_controller.go`) | BackupJob.status, the native Job | create the Job, follow it, register its Snapshot, notify | Job controller, registry, gateway |
| RestoreJob controller (`restorejob_controller.go`) | RestoreJob.status, the native Job | create the Job, follow it, notify | Snapshots, Job controller, gateway |
| BackupPolicy controller (`backuppolicy_controller.go`) | one CronJob per storage | create, update, delete CronJobs | CronJob controller |
| JobObserver (`jobobserver_controller.go`) | an annotation on the CronJob's Jobs | look up source and storage by label, record probe results, register Snapshots, notify | registry, gateway |
| Snapshot registry and retention (`execution_helpers.go`) | Snapshots of a series | create or update, mark ready, mark latest, delete the old ones | called by the BackupJob controller and JobObserver |
| Snapshot controller (`snapshot_controller.go`) | finalizer, cleanup Job | protect, clean up, release | storage backend |
| Storage backend scripts (`runtime_helpers.go`) | artifacts, `latest.json` | preflight, upload and prune, download, clean up | run in the Pods of the Jobs |
| Backup Pod pipeline (`runtime_helpers.go`) | marker files | addon, package, upload wait for one another | termination messages read by the controllers |
| Notification dispatch, gateway (`notifications.go`, `notification_gateway.go`) | delivery status | resolve targets, deliver | called by three controllers |
| Configuration controllers (addon, source, storage, retention policy, endpoint) | the status of one object each | validate, look up the addon, write a merge patch | read by the others; the jobs write probe results into a storage's status |
| Naming, validation, import paths, rendering (`naming.go`, `validation.go`, `restorejob_types.go`, `runtime_helpers.go`) | none | pure functions | used by all |

What is hard: every reconcile is a sequence of API calls that may stop between
any two of them and starts over from cached reads that lag; two controllers
register Snapshots of one series while a third one removes them and their
artifacts; the native Jobs, Pods and cleanup Jobs that the controllers decide
from are deleted by Kubernetes (TTL, history limits, garbage collection); the
backend is pruned by the uploads and by the cleanups, and read by restores,
without a lock; objects are found again by labels that are made from their names
and need not be equal to them.

What makes each component correct, and where it is stated:

| Component | Correct means |
| --- | --- |
| BackupJob controller | it keeps the contract of an execution: one native Job at a time, no success in the status or in an event without a run that completed (`ImplementsContract`); a Snapshot names an artifact that was uploaded (`SnapshotIsReal`); `status.snapshotRef` resolves (`SnapshotRefResolves`); a completed backup is registered, reported and announced in the end (`CompletionReported`) |
| RestoreJob controller | it keeps the same contract (`ImplementsContract`); events tell outcomes of runs (`EventsTellOutcomes`); a job that came too early starts (`StartsWhenReady`); outcomes are reported and announced (`OutcomeReported`); imports do not depend on Snapshots (`ImportOutcomeFinal`) |
| Snapshot registry and retention | no more Snapshots stay than the window holds, however the passes of two workers interleave (`SeriesBounded`); every run that stays is registered to the end (`RegistrationCompletes`); those that stay are the newest, and the backend has their artifacts (`LayersAgree`, which does not hold: section 6) |
| Snapshot controller | on NFS a protected Snapshot goes only after its artifact (`CleanedUp`), and no cleanup meets the artifact of a Snapshot that is to stay (`CleanupSparesLive`); a deletion completes (`DeletionCompletes`) |
| BackupPolicy controller | CronJobs are removed only when unwanted (`OnlyUnwantedRemoved`), the status at rest is true (`StatusAgrees`), changes reach the CronJobs (`CronJobsFollow`) |
| Storage backend scripts | what a Snapshot or `latest.json` names is whole (`ReferencedIsWhole`); a cleanup leaves nothing (`CleanedIsGone`); together the scripts are a store whose artifacts come and go as a whole, and go only by age or with their Snapshot, and on NFS no cleanup leaves `latest.json` with what another one has cleaned up (`ImplementsStore`); a restore reads whole archives, and misses one only for a reason (`RestoreFindsWhole`) |
| Backup Pod pipeline | only complete dumps are stored and reported (`StoresWhole`); a failure ends the Pod (`FailureEndsJob`) |
| Notification dispatch, gateway | what is recorded was delivered to all (`RecordedIsDelivered`); healthy targets are reached (`HealthyReached`); a complete delivery is recorded and repeated no more (`DeliveryRecorded`) |
| JobObserver | as the registry and the dispatch; a run whose names are plain is registered as what ran (`RegisteredAsRun`), and is registered if its Pod stays with its report (`RunsRegistered`); other names: section 6 |
| Configuration controllers | the status finally follows the object (`StatusFollows`) |
| Naming, import paths, rendering | names, labels and directories are shared exactly by names of the same words (`NamesTellApart`); an import stays inside its storage (`ImportsStayInside`); every container sees the environment it is to see (`RenderedAsAsked`) |

## 2. The modules

Each module is one component together with the part of Kubernetes it depends
on. Where two components meet and are not composed, each module has the other
one's visible behaviour as actions of its environment, and the table says where
its detail is.

| Module | Models | Takes from elsewhere |
| --- | --- | --- |
| `ExecutionContract` | what both job controllers promise (abstract) | |
| `BackupExecution` | BackupJob controller, registration of a Snapshot of its own; implements `ExecutionContract` | upload and Pod: `BackupPod`, `StorageBackend` |
| `RestoreExecution` | RestoreJob controller; implements `ExecutionContract` | the Snapshot's life: `SnapshotSeries`; the download: `BackendRestore` |
| `SnapshotSeries` | a series shared by a CronJob and BackupJobs: registration, retention, Snapshot controller, cleanup Job, the storage that may be missing | upload and cleanup as one step each: `StorageBackend` |
| `PolicySchedule` | BackupPolicy controller and its CronJobs | what a CronJob starts: `SnapshotSeries` |
| `NotificationDispatch`, `MCNotificationDispatch` | dispatch, gateway and targets | when an event is sent: `BackupExecution`, `RestoreExecution` |
| `ArtifactStore` | what the scripts promise to those who use a series' artifacts (abstract) | |
| `StorageBackend` | upload and cleanup scripts, command by command; implements `ArtifactStore` | the containers before the upload: `BackupPod` |
| `BackendRestore` | `StorageBackend` composed with the preflight and the download of a restore | |
| `BackupPod` | the containers of a backup Pod and their marker files | |
| `Configuration` | the configuration controllers, probe results, JobObserver's lookups | labels: `Naming`; rules: `Validation` |
| `Naming` | names, labels, backend directories | |
| `Validation` | `ValidateBasic` of the five kinds that only configure | |
| `ImportPaths` | normalisation and acceptance of the path of an import | |
| `Rendering` | the environments of the containers of both Pods | |
| `MCConfiguration` | instances of the last five modules | |
| `...Proofs` (eight modules) | proofs about `BackupExecution`, `RestoreExecution`, `SnapshotSeries`, `PolicySchedule`, `NotificationDispatch`, `StorageBackend` with `BackendRestore`, `BackupPod`, and `Configuration` with `Naming`, `ImportPaths` and `Rendering` | |

Conventions. A reconcile is a record `rec` with a program counter and the local
variables that live across API calls. One step is the reads between two writes
and the write that ends them; a crash, an API error, another controller or
Kubernetes may come between any two steps. Everything the controllers read from
an informer has a second copy (`...View`, `seen`) that a `Sync` or `Notice` step
brings up to date; Pods have none, because the code lists them through the
`APIReader`. An operator that is introduced as a mutant of another one is a wrong
version of it, used only to see that a property can fail; no specification
refers to it.

**ExecutionContract.** One BackupJob or RestoreJob and its native Job: `Start`
when there is none, `Succeed` or `Fail`, `Expire`; `Claim` (the status says
Succeeded) needs a run that succeeded, `Withdraw` is always possible, `Announce`
names a run that succeeded. No caches, patches, crashes or retries: those are
what the two detailed modules implement it with. Both state the refinement as
`Contract == INSTANCE ExecutionContract WITH ...`, the native Job mapped by its
state, `claimed` to the phase, `announced` to the events that were sent.

**BackupExecution.** `Begin` is `Reconcile` up to the first write
(`backupjob_controller.go:25-76`): invalid spec or unresolved references lead to
Failed, a paused source to Paused, otherwise the cached native Job decides.
`CreateNative` ignores AlreadyExists as the code does. `Observe` is
`observeTerminalBackupJob` with its live list of Pods; `PersistSnapshot` and
`MarkSnapshotReady` are the two writes of `persistSnapshot`; `Dispatch` is
`dispatchNotifications`, whose failure may hide a delivery; `PatchStatus` is the
merge patch, which writes just the fields that differ from the *cached* copy the
reconcile started from. `native[j].run` numbers the executions of one BackupJob,
since a Job removed by its TTL is created again. History variables
(`completed`, `uploaded`, `removed`, `notified`) record what really happened, so
that the properties can compare it with what is claimed. The module covers
BackupJobs without a `policyRef`; each has a series of its own, whose retention
pass keeps the only Snapshot there is.

**RestoreExecution.** The same shape, with two sources: an import, which needs no
Snapshot, or a Snapshot that must be ready. A Snapshot that is terminating still
counts as ready, as `artifactReady` stays set. When it is not ready the reconcile
ends without a requeue, so the RestoreJob waits for the informer's resync
(`Begin` is possible at any time). The outcome is the Job's own condition
(`jobTerminalState`), so the module has no Pods; `MoveSnapshot` is the Snapshot
that becomes ready, is pruned and is registered again.

**SnapshotSeries.** Runs are numbered by artifact name. Two workers register
them through the same code: `Begin`, `PersistSnapshot`, `MarkSnapshotReady`,
`ListSeries`, then one `SeriesStep` per entry of the list, newest first.
`SortTime` is `snapshotSortTime` with its fallback to the creation time.
Completion times are even, so that a creation may tie with one or fall between
two. Deleting a Snapshot leaves it terminating when it has the finalizer.
`AddFinalizer`, `CreateCleanup` and `RemoveFinalizer` are the writes of the
Snapshot controller; the last two need the BackupStorage, which users delete and
create (`DeleteStorage`, `CreateStorage`). A Snapshot may be created again
(`births`), and the cleanup Job remembers which incarnation owns it. All
controllers share one informer cache, so there is one `view`, and `Sync` brings
it up to date as a whole; that sharing is what keeps an old cleanup's completion
from being taken for that of a re-created Snapshot. `Upload` also prunes. What a
script leaves of the backend is `Left`: just what it is to leave on NFS, where it
fails with its commands, and on MinIO anything more. Any completed run is observed
again at any time, by its worker, whatever else is registered meanwhile; runs
overlap and complete in any order, but for those of a CronJob whose
`concurrencyPolicy` is Forbid (`Concurrency`), the default. `LoseRun` stands for
every way in which a run gives no Snapshot any more: it fails, or its Job or its Pod
is gone. `passed` is the history that `SeriesBounded` speaks of: the runs whose
Snapshot was created and a pass after that came to its end.

**PolicySchedule.** The controller is called for the policy and the CronJobs it
owns, and for nothing else: `source`, `missing` and `keep` are read as they are
when it happens to be called. `pending` holds the undelivered events, and a
cached object is current exactly when it has none, which is what decides whether
an Update conflicts. `Start` has the early returns, `ApplyCronJob` is
`createOrUpdateWithRetry` for one storage, `ListCronJobs` and `DeleteOrphan` the
removal of orphans, `PatchStatus` the status. `lastScheduleTime` is left out: it
is copied from the CronJobs and nothing reads it.

**NotificationDispatch.** One unit of time is ten seconds, the gateway's default
timeout of a target; a controller waits for two. The gateway calls the targets
one after another; a target that hangs may have accepted. The client that gives
up cancels the rest. JobObserver keeps the result in an annotation and is called
by events and resyncs only; the other controllers are requeued every 30 seconds.

**ArtifactStore.** A series without files, listings and commands: `stored` are the
complete artifacts, `phase` is how far a run is (waiting, uploading, uploaded,
kept by a Snapshot, released, cleaned, or failed), `latest` what `latest.json`
names. `Store` adds the artifact as a whole, unless it is already so old that it
was pruned while it came; `Remove` takes an artifact that is `Old` or whose
Snapshot is being deleted; `Point` and `Clean` say what `latest.json` may name
afterwards. `reliable` tells storages on which a failing command is noticed (NFS)
from those on which it is not (MinIO): there a cleanup may pass with its artifact
in place and `latest.json` unchanged.

**StorageBackend.** The files of one series, and every command of the upload and
cleanup scripts that touches them, for NFS and MinIO alike (`kind`): `cp` on NFS
is seen while it grows, an object appears as a whole; a failing `rm` ends the NFS
script and is ignored on MinIO; a listing that fails is an empty one, since it is
the head of a pipeline; a bucket that cannot be looked up makes the MinIO cleanup
succeed without doing anything. The copies of the checksum and the metadata, a
few bytes, are taken to be atomic. `Store == INSTANCE ArtifactStore` maps `phase` to
the places of a run's upload and cleanup (`PhaseOf`) and `stored` to the archives
that are not partial; the checksum, the metadata and the listings have no
counterpart, so commands on them are stutters of the store.

**BackendRestore** adds a restore to that state: `Preflight` finds the artifact
of a Snapshot or fails, `Download` copies and unpacks what is there by then.
Uploads, prunings and cleanups go on between the two.

**BackupPod.** `marks` are the marker files in `/workspace/status`. A shell that
does not know `trap ... ERR` ends at once under `set -e` (`SetTrap`); a container
that is killed leaves no marker. The preflight is an init container: when it
fails the others never start.

**Configuration.** `stored` is what the API server has, `seen` what the cache has,
`events` the changes in between. Each object queues its own controller and no
other (`For` without `Owns` or `Watches`), so that a source is not called when its
addon comes or goes. `PhaseOf` is validation and, for a source, the addon;
`WriteStatus` the merge patch (`Patched`) of what was read. Jobs write their probe
result as an Update that needs a current cache (`Current`, `Probed`): `RecordProbe`
for BackupJobs and RestoreJobs, `Observe` for JobObserver, which finds source,
storage and policy under the names that the labels of the native Job hold
(`Labelled`), and does nothing more when it finds none (`Drop`). `report` is what the
latest Pod of a run tells: the probe result of its preflight, the summary of its
artifact, or neither, and nothing once the Pod is gone (`LosePod`). `Observe` records
and registers what is told; what is not told is not asked for again, although the Job
stays. `ObserveHalf` is an error after the probe result.

**Naming, ImportPaths, Rendering, Validation.** Pure functions. A name is a
sequence of characters, so that separators, trimming and cutting to a length are
modelled as the code does them; the maximal lengths 52 and 63 and the hash of 8
characters are constants. A path is the sequence of its segments, with `""`
between two slashes. An environment is a sequence of variables, merged by
position and read by the last of a name, as Kubernetes does. `Naming` compares
names with the words they consist of, `ImportPaths` with the walk that the
path describes, `Rendering` with what each container was to be told: definitions
that share nothing with the algorithms.

## 3. The runs

| Run (module) | Bounds | States | Checks |
| --- | --- | --- | --- |
| `reruns` (BackupExecution) | one BackupJob with notifications, one expiry, one fault | 610 000 | the contract and the Snapshots of a backup through re-runs |
| `edits` (BackupExecution) | one BackupJob that users edit, no expiry, one fault | 233 000 | references resolve; completed backups are reported and announced |
| `restores` (RestoreExecution) | one RestoreJob, import or Snapshot, pruning, one expiry, one fault | 2 000 000 | the contract and the events of a restore, through re-runs and a Snapshot that comes and goes |
| `settles` (RestoreExecution) | one RestoreJob that users edit, one fault | 62 500 | it starts, and its outcome is reported and announced |
| `passes` (SnapshotSeries) | a scheduled and a manual run, window of one, NFS, two births of the first Snapshot, which its user may delete, no fault | 642 000 | retention leaves no more than the window, cleanups spare what is to stay |
| `turnover` (SnapshotSeries) | two scheduled runs, window of one, NFS, one fault, which may be the storage's | 77 800 | artifacts go before their Snapshots, deletions and registrations complete |
| `layers` (SnapshotSeries, violation) | two scheduled runs, window of one, two births each, two faults | | Snapshots and backend disagree at rest |
| `fanout` (PolicySchedule) | two storages, two edits of anything, one fault | 772 000 | what is removed, what the status says, what reaches the CronJobs |
| `delivery` (MCNotificationDispatch) | two targets, JobObserver and one requeued sender, two faults | 158 000 | what is recorded was delivered; healthy targets are reached |
| `overlap` (BackendRestore) | three runs, two kept, NFS and MinIO, one restore at a time, one fault | 1 240 000 | what overlapping scripts leave in the backend, that they implement `ArtifactStore`, and what a restore finds there |
| `markers` (BackupPod) | none: the state is finite as it is | 359 | what a Pod stores, reports, and when it ends |
| `registry` (MCConfiguration) | two storages of one label, one of them edited, one source, its addon edited, two edits, one scheduled run with its Pod; the inputs of the pure functions below | 152 000 | status, lookups and registration; names, paths and environments |

Why the bounds are enough. A controller's reconciles of one object never
overlap, and the only thing BackupJobs share is the worker and the last probe,
so one BackupJob already meets every interleaving of reads, writes, caches and
environment; one expiry gives a second run, whose claims could be mixed up with
those of the first; one fault can strike at each of the points where a reconcile
may stop, and two successive ones start over from where the first left off. The
theorems of section 5 hold for any number of jobs, expiries and faults. For
retention, two runs with a window of one already have a Snapshot to keep and one to
remove, and a worker each: `passes` has both passes under way at once, each with a
list of another age, and a Snapshot that goes and is registered again before, between
and after them. `passes` is without faults, which would make it six times as large.
`turnover` has one, but does without the second worker and without re-creation,
which its liveness properties would pay for most; `RetentionBounds` and its companions
hold for any number of runs, births and faults (section 5). In `fanout` two edits are enough to take a
storage out and put it back, or to change the source between two CronJobs of one
fan-out. In `delivery` two targets with the default timeout use up exactly the
client's time when the first one hangs. In `overlap`, of three runs one is pruned
by one upload while another one is uploaded and a third is cleaned up or
restored. In `registry` two edits delete an object and create it again, or delete
one while the other changes, and each is seen by the cache at any later time;
a status has only one writer besides its controller.

The inputs of the pure functions, asked about one at a time in the initial state
(`Ask`): for `Naming`, all names of up to three characters over two letters and
the two separators, and some that are longer than the limits (scaled to 7 and 9,
with a hash that tells all names apart), so that every pair of them meets as
policy and storage; for `ImportPaths`, all paths of up to five segments over two
names, `.`, `..` and the empty segment, enough to leave the root, come back and
leave it again; for `Rendering`, keys of which two share a variable and one looks
like a storage's, a template that sets the variables of others, and all the ways
in which a RestoreJob overrides a source or does not.

Deadlock is checked where the system should never stop. `SnapshotSeries`,
`BackendRestore` and `BackupPod` say `CHECK_DEADLOCK FALSE`: a bounded number of
runs comes to an end, and then nothing is left to do.

## 4. Fairness

Safety is checked without any. The liveness properties assume, in every module,
what the code and its libraries do, and of the environment nothing that it does
not promise:

* A reconcile that has begun goes on, and the watches deliver
  (weak fairness). The process may crash, but only as often as `MaxFaults`.
* Every object gets its turn: strong fairness of `Begin`. The worker takes keys
  from a queue in turn (`main.go` sets no concurrency, which makes one worker per
  controller); objects are in it again after 30 seconds, an event or the
  informer's resync (10 hours by default).
* `SnapshotSeries`: a cleanup Job ends (it has a deadline) and is removed when it
  has (it has a TTL); the Snapshot controller, which comes every 30 seconds, sees
  a completed cleanup Job within its TTL of a day now and then (strong fairness of
  `RemoveFinalizer`). That cleanups succeed in the end follows from the bound on
  failures. Runs, users and faults are free; that the storage stays in the end is
  a hypothesis of `DeletionCompletes` and `RegistrationCompletes`. A registration may also be cut
  short by a pass for a newer run that deletes the Snapshot (`RegistrationEnds`).
* `PolicySchedule`: a CronJob fires at most once a minute, so that the owner's
  Updates do not conflict for ever (strong fairness of `ApplyCronJob`).
* `NotificationDispatch`: the gateway answers or the client gives up; the
  informers resync. Targets and endpoints are free.
* `BackupPod`: commands end, and the Job controller notices the end of a Pod. The
  deadline is not assumed: `FailureEndsJob` says when it is not needed.
* `Configuration`: every change is noticed, every queued object and run gets its
  turn (weak fairness per object and per run).

Where something reaches its destination only through the informer's resync,
`[]<><<Resync>>_vars` is a hypothesis of the property, not part of the
specification: in `CronJobsFollow`, `StatusFollows` and `RunsRegistered`, none of
which holds without it. A finished run that nothing looks at between two resyncs
may also be gone by then, which is why `RunsRegistered` speaks of runs that stay.

Properties of the form `<>[]P => ...` make no promise about a system that is
disturbed for ever; they say what happens once it is left in peace, from any
state that disturbances can lead to.

## 5. What is proved

For every value of the constants, under the assumptions on them that the modules
state (types, a constant that is none of the values it stands beside, and in
`NotificationDispatch` that there is a target and that timeouts are positive),
without any bound on jobs, runs, expiries, edits or faults:

| Module | Theorems | State that `Spec` implies |
| --- | --- | --- |
| `BackupExecutionProofs` | `ContractKept` | `ImplementsContract`: the refinement of `ExecutionContract` |
| | `TypeCorrect`, `SnapshotTraced`, `SnapshotRefTraced`; `NativeJobsAreSequential`, `SuccessTraced`, `EventsTrue` | `TypeOK`, `SnapshotIsReal`, `SnapshotRefResolves`; what the contract says, invariant by invariant |
| `RestoreExecutionProofs` | `ContractKept` | `ImplementsContract` |
| | `TypeCorrect`, `EventsTrue`, `ImportsStandTheirSuccess`; `RestoresAreSequential`, `SuccessTraced` | `TypeOK`, `EventsTellOutcomes`, `ImportOutcomeFinal`; what the contract says |
| `SnapshotSeriesProofs` | `TypeCorrect`, `SnapshotsGoAfterArtifacts`, `CleanupsSpareTheLiving`, `RetentionBounds` | `TypeOK`, `CleanedUp`, `CleanupSparesLive`, `SeriesBounded` |
| `PolicyScheduleProofs` | `TypeCorrect`, `RemovalIsWanted`, `StatusIsTrue` | `TypeOK`, `OnlyUnwantedRemoved`, `StatusAgrees` |
| `NotificationDispatchProofs` | `TypeCorrect`, `RecordsAreTrue` | `TypeOK`, `RecordedIsDelivered` |
| `StorageBackendProofs` | `StoreIsImplemented` | `ImplementsStore`: the refinement of `ArtifactStore` |
| | `BackendIsConsistent`, `BackendTypeCorrect`, `ReferencedArchivesAreWhole`, `CleanedArtifactIsGone` | the invariant `Consistent`, `TypeOK`, `ReferencedIsWhole`, `CleanedIsGone` |
| | `ScriptsKeepTheirWord`, `PruningTakesOnlyOld` | `KeepsItsWord` of the store, which the refinement carries over; `PrunesOnlyOld` |
| | `RestoresFindWhole`, of `BackendRestore` | `RestoreFindsWhole` |
| `BackupPodProofs` | `TypeCorrect`, `CompleteDumpsOnly` | `TypeOK`, `StoresWhole` |
| `ConfigurationProofs` | `TypeCorrect`, `RunsAreRegisteredAsThemselves`; `ImportsAreKeptInside`, `ContainersAreToldAsAsked` | `TypeOK`, `RegisteredAsRun`; of `MCSpec`, `ImportsStayInside`, `RenderedAsAsked` |
| | `ObjectsAreToldApart` | of `MCSpec`, `NamesTellApart` |
| | `PathsStayInside`; `SanitizeNameKeepsWords`, `PlainNameIsItsLabel`, `JoinedKeepsWords`, `WordsTell`, `NamesAreToldApart`; `BackupsAreToldAsAsked`, `RestoresAreToldAsAsked` | (of all paths, of all names, of all Pods) |

*BackupExecution and RestoreExecution.* None of the properties is inductive: a
status may become Succeeded because a reconcile is about to patch it, which began
with a cached Job that may have been deleted since. `Traced` follows every such
claim through the places where it can be kept: that whoever believes a Job
complete (the API server, the cache, a reconcile) believes it of a run that did
complete (`CompletionTraced`, `OutcomesTraced`); that a Snapshot, or a reconcile
about to write one, stems from an uploaded artifact (`RegistrationTraced`); that
all four copies of a status (current, cached, the base of a patch, the patch) are
backed by a completed run and a registered Snapshot (`StatusTraced`); that a
delivery is prepared only from what was observed (`EventsTraced`). Each has a
lemma of its own with a step per action; `EvidenceStep` says that the evidence
itself does not go away, and `MergePatchFields` that a merge patch takes each
field from one of two copies. `OneJobAtATime` is inductive with `TypeOK` alone,
and the others need it, since it makes the number of a run identify it. With
`Traced`, each action maps to one action of the contract or to a stutter, which is
the proof of `ContractKept`. `ImportOutcomeFinal` is about
reconciles that read a status long ago. Its invariant (`ImportsKept`) says of an
import whose native Jobs never expired: a copy of the native Job that has ended is
the native Job there is; where a status shows a success, current, cached or being
computed, the cache shows the complete native Job too, so that later reconciles
find the success again; and a reconcile that is under way while the status says
Succeeded began with that knowledge.

*SnapshotSeries.* `CleanedUp` is about what is gone, so the invariant `Protected`
says why it stays gone: nothing is done for a Snapshot, and no finalizer or
cleanup exists, before its run has ended, so that no upload brings an artifact
back (`RunsComeFirst`); a Snapshot that the cache shows as ready is ready, and
only ready ones get the finalizer, so that a re-created one is not mistaken for
its predecessor (`ReadyIsKept`); on NFS a complete cleanup means that the artifact is
gone, and as long as it is not, whatever was protected still has its finalizer
(`Guarded`).

`CleanupSparesLive` adds `Spared`: only what was protected has a finalizer, in the
cache too (`Marks`); a terminating Snapshot in the cache is not yet replaced by
another one of its name, since registration does not create what the cache shows
(`Dying`); and while a cleanup may still remove an artifact, the Snapshot that it
began for is there and terminating (`Aimed`), which the finalizer sees to.

`SeriesBounded` counts what several passes leave together. That one pass keeps
KeepLast entries of its list at most is a fact about ranks: the oldest entry kept has
all the others before it (`OldestKept`, `FewKept`), whatever times the entries are
ranked by. The invariant `Bounded` carries it over to what is there. The cache shows
each Snapshot that has come to stay or whose pass has begun, unless it is gone
(`Seen`): its status was written through the cache, and a re-created one has yet to
come to stay. So what a pass has listed includes all that can stay, and what it has
not yet done is subtracted: `Few` says that of the registered Snapshots, with those of
the passes under way but without those a pass has still to delete, at most KeepLast
are live. One pass alone keeps this for itself. When two are under way, whichever
has read the series last leaves room for both (`Trimmed`), so that the end of either
leaves few enough for the other: `ProceedKeepsBounded`. No order of runs, of
registrations or of completion times is assumed, and none is needed, as the property
says how many stay and not which ones.

*PolicySchedule.* `OnlyUnwantedRemoved` rests on `LeftOutIsUnwanted`: no copy of
the policy, cached or read by a reconcile, leaves a storage out that every version
names. `StatusAgrees` needs three facts that hold while something is still going
on: the controller's copy is current or there is an event or a key in the queue
(`NothingMissed`); the CronJobs done so far are as asked, by a copy that may be
outdated (`AppliedSoFar`); and what the status says is so, unless an event is yet
to come (`Reported`).

*NotificationDispatch.* `Claims`: the success that a request under way carries is
that of the targets before the one it is at, that of an answer is of all, and only
such an answer is recorded.

*StorageBackend.* `Consistent` adds to `TypeOK`: a half copied archive belongs to
an upload that is at work or has failed (`PartialIsBusy`); metadata is there only
after the archive was complete, which is why a cleanup, which picks the newest
metadata without a look at the archive, never points `latest.json` to half of one
(`MetadataComesLast`); a cleanup runs for reported artifacts only, so that no
upload brings files back (`CleanupComesLast`); and an artifact that is missing or
about to be pruned has KeepLast newer runs (`PrunedIsOld`). The lemmas
about sets of runs (`NewestIsMaximal`, `NewerIsMonotonic`, `DoomedLeavesKeepLast`)
are proved from the library's facts on finite sets and well-founded orders.
`BackendRestore` inherits `Consistent`, every one of its steps being one of
`StorageBackend` or none, and adds that a download is of a reported run and that
its result is explained by the state it was taken from. The same steps show that
whatever `Spec` implies holds beside restores (`RestoresOnlyRead`).

The refinement of `ArtifactStore` needs `StoreInv`: `Consistent`, and three more
conjuncts, each for one kind of step. An archive comes with its copy and once, so
that nothing is added to the store by any other command (`ArchiveComesOnce`);
metadata without its archive belongs to a run that is old or being cleaned up,
which is what a cleanup may find when it picks a new `latest.json`
(`MetadataIsBacked`); and no cleanup picks its own run (`SourceIsAnother`). Each
command is then a step of the store or none (`UploadIsStored`, `CleanupIsStored`,
`KillIsStored`). The one place where the store depends on a command being looked at
twice is `ReplaceLatest`: a cleanup that has chosen a run which another cleanup
removes meanwhile must fail in its copy. `KeepsItsWord` is proved of the store alone,
in its own few actions, and holds of the scripts through the refinement.

*BackupPod.* `Orderly`: containers leave their markers last (`MarksComeLast`), and
each starts its work from a marker that was left after a complete output
(`HandedOn`).

*Configuration, Naming, ImportPaths, Rendering.* The type invariant bounds generations by
the edits made so far, so that a status written from an old copy stays within
what the object may be. `RegisteredAsRun` is inductive with it, and rests on what
the rules for names do with every name. These are functions defined by recursion
along a sequence; the induction is over sets of numbers (`Climb`, from the
library's well-founded orders), and that a recursive definition has one solution,
which its value is taken from, is part of the proof (`Recursion`,
`SanitizeNameIsWriting`, `CleanIsWalk`). `SanitizeName`: what has been written only
grows, each letter of the value has a place in it, in the same order, and two
letters are side by side in the result exactly when they are in the value, since
between any others a hyphen was written (`WrittenSideBySide`); names with that
correspondence have the same words (`WordsAlike`). `Clean`: while a path has not
left the root, the walk is the sequence of the segments that one is still inside
of, of which each depth has one (`Stacked`, `WalkHolds`); once it has left, it
begins with `..` for good.

Environments are compared by what is seen of them. `Later` says of a list that it
is like one list but for the names that another one has, where it is like that
other one. Joining two lists and merging one into the other both give such a list
(`JoinIsLater`, `MergeIsLater`, the latter by induction along the overlay), so that
whether two parts of an environment disturb each other is a question of names only.
The first word of a name answers it (`Family`): `envKey` never changes it
(`EnvKeyKeepsFamily`), which keeps what users call their secrets and parameters
apart from the storage, the endpoint, the target and the run; within secrets and
parameters, a key whose variable is its own is seen with its own value
(`SecretSeen`, `ParameterSeen`). `BackupsAreToldAsAsked` and `RestoresAreToldAsAsked`
put this together, for every storage and template, from three hypotheses, each of
which the inputs of the `registry` run satisfy (`SourcesAreProper`,
`RestoresAreProper`, `RunsHaveOwnVariables`): the references of a source, or of a
RestoreJob, have a name each, which `ValidateBasic` requires; parameters are a map
whose keys `SortedKeys` puts in order (`RenderingAssumption`,
`MCKeysAssumption`), as `sort.Strings` does with any; and the variables that
come with a run are none of a source's, a target's or a parameter's, whose names
the operator chooses itself.

Of names the proof of `RegisteredAsRun` assumes no more than that they are sequences of
characters (`NamesAssumption`): a plain name is its own label, whatever the length
(`PlainNameIsItsLabel`), so that nothing depends on what becomes of the others.

`NamesAreToldApart` is about all names that can be built of any set of users' names.
What `SanitizeName` writes is *tidy*: words, with single hyphens between them
(`SanitizedIsTidy`); so is what `strings.Join` makes of tidy names (`TogetherIsTidy`),
and what a name is shortened to (`ShortenedIs`). The words of two joined names are
those of the one and then those of the other (`WordsTogether`: the runs of letters
of the whole are the runs of the parts, since a hyphen is between them, and as many
are ahead of each as before), and by induction along the parts the words of a name
are those of all its parts (`JoinedKeepsWords`). A tidy name in turn is known by its
words: it is one word, or one, a hyphen and a shorter tidy name (`OneWordOrMore`), and
the induction is on the length (`WordsTell`). Of names that are not too long this is
all. Of the others nothing can be proved without the hash, and `HashesTellApart` says
what is assumed, of the names that are really too long: that no two have one hash,
which consists of letters and is of its length, and that nothing is called by what
another name is shortened to. The comment on `shortHash` promises as much (eight
characters are enough, `naming.go:146`); SHA-1 does not, and it is not to be had of
all names at once, so the theorem takes it as a hypothesis about the names in use.
For the names that the `registry` run asks about TLC evaluates it
(`MCHashesAssumption`), and `ObjectsAreToldApart` rests on it.

*Only model-checked.* All liveness properties: they rest on fairness and ENABLED,
which are out of the prover's reach. Every other property of a passing run is
stated by a theorem.

## 6. What the models show about the code

One run finds the code at variance with its documents (`findings` in
`PROJECT.json`):

* `layers`: retention is called consistent over both layers and said to keep the
  newest Snapshots of a series (`docs/EXECUTION-FLOW.zh-CN.md:211-220`, `:232`). The
  backend is pruned by names, the Snapshots by completion times, and a Snapshot that
  was created but not yet marked ready has none and ranks by its creation
  (`common.go:183`). Two runs wait to be registered, because the operator was down
  or slow. The Snapshot of run 1 is created, after run 2 has completed, and the
  write that marks it ready fails (the cached Get does not know it yet). Run 2 is
  registered meanwhile, and its pass takes Snapshot 1 for the newer one and deletes its
  own. When run 1 is observed again, its Snapshot becomes ready and the latest, though
  the upload of run 2 has pruned its artifact. Observing run 2 again would put
  that right; once its Job is collected nothing does.

Other behaviour that follows from the code and that a reader of the properties
should know. The properties are worded so that they hold beside it.

Executions and Snapshots:

* A native Job is deleted by its TTL while its BackupJob or RestoreJob stays; the
  next reconcile finds none and creates it again (`backupjob_controller.go:73`,
  `restorejob_controller.go:69`). A backup runs once more; a restore writes its
  old data again. The contract counts with it (`Expire`, `Start`).
* When the Pod of a complete Job is gone, or was never found, the backup succeeds
  without a Snapshot (`execution_helpers.go:109`); without an artifact summary in the
  Pod it counts as failed, and there is no Snapshot either (`execution_helpers.go:98`).
  Neither is tried again: `RunsRegistered` and `CompletionReported` are about Pods
  that stay, with a report.
* The preflight scripts write a probe result only when they succeed
  (`runtime_helpers.go:747`), so `lastProbeResult` stays Succeeded after a failed
  preflight and `StorageProbeFailed` (`notifications.go:131`) is never sent.
* With two workers on one series, a Snapshot that one has created and not yet
  completed counts with its creation time (`common.go:183`), and the pass of the
  other may remove the Snapshot of the run that completed last. `SeriesBounded` says
  how many stay; which ones, no property says, because the code does not keep the
  newest (`layers`).
* The upload prunes the backend before the run has succeeded (`runtime_helpers.go:826`).
  When the run then fails, or its Job or Pod is gone before it is observed, a Snapshot
  that says ready has lost its artifact, and the new one is not registered.
* A Snapshot that was deleted is registered again by the next observation of its
  native Job, and says ready although its artifact was removed
  (`execution_helpers.go:186`). `CleanupSparesLive` says that no cleanup of its
  predecessor comes after it.
* A BackupJob of an older run that is observed again makes its own Snapshot the
  latest and takes the flag from the newest (`execution_helpers.go:236`, `:268`),
  against `docs/EXECUTION-FLOW.zh-CN.md:214`. It does so every 30 seconds, in every
  series that a BackupJob shares with a policy, so that no property of the flag is
  stated; nothing in the code reads it.
* An import whose path ends in `.tar` is an archive to the download script as to the
  docs (`docs/QUICKSTART.zh-CN.md:188`), which unpacks it with `tar -xzf`
  (`runtime_helpers.go:923`, `:966`): the plain tar file the name announces is not
  gzip. No module models the tar formats; this was seen while reading the code for
  `ImportPaths`.
* A RestoreJob whose Snapshot is deleted while the restore runs becomes Failed, and
  the outcome of the run is not announced (`restorejob_controller.go:46`).
* A Snapshot deleted before it got its finalizer leaves its artifact in the backend
  (`snapshot_controller.go:35`), as does a run that fails after its upload.
* A manual BackupJob with a `policyRef` prunes the series it shares with the policy
  by its own keepLast (`execution_helpers.go:250`).

The backend:

* The MinIO cleanup succeeds when an object could not be removed or the bucket not
  be looked up (`snapshot_controller.go:197`, `:201`): the Snapshot goes and its artifact
  stays, although `README.md:22`, `docs/USER-CASES.zh-CN.md:151-155` and
  `docs/OPERATIONS-RUNBOOK.zh-CN.md:280-285` say that it is removed from MinIO as well.
  `CleanedUp`, `CleanupSparesLive` and `CleanedIsGone` are about NFS.
* `latest.json` is written by an upload and taken over by a cleanup in between, so
  it need not name the newest artifact; nothing promises that it does.
* A restore does not verify the checksum that lies beside an archive
  (`runtime_helpers.go:896`); that it unpacks whole archives only is because of
  the order in which things are written.
* A storage whose spec is changed moves the place where restores and cleanups look
  for the artifacts of older Snapshots (`snapshot_controller.go:57`).
* `trap ... ERR` is not known to every `/bin/sh`; where it is not, a backup ends in
  the first line of two containers, without markers, and the upload container
  waits for the deadline (`runtime_helpers.go:576`).

Policies and configuration:

* A paused source that is resumed, a changed keepLast, or a CronJob deleted by hand
  reaches the CronJobs only by the next event of the policy or the informer's
  resync (`backuppolicy_controller.go:148`).
* A probe result marks a storage's generation as observed although its spec was
  not validated (`execution_helpers.go:167`), so `observedGeneration` may be ahead
  of the phase for a while; `StatusFollows` says that it does not stay so.
* `LastValidatedTime` changes from one second to the next, so that the patch of a
  source's status queues the source again (`backupsource_controller.go:46`).

Names and environments:

* Names of the same words have one CronJob, native Job and label (`naming.go:45`,
  `:94`). Two storages `a.b` and `a-b` of one policy share a CronJob, although each
  backend is said to have its own (`README.md:98`); so do, plain names all of them,
  policy `a` with storage `b-c` and policy `a-b` with storage `c`, as the parts are
  joined before anything tells them apart. Likewise two BackupJobs with plain names
  can share a Snapshot name (job `a` on storage `backup-b`, job `a-backup` on
  storage `b`). Backend directories are shared only when each part has the same words.
  `NamesTellApart` says exactly this, and that nothing else is shared within one kind.
* A run on storage `a.b` is labelled `a-b`. JobObserver registers it for the storage
  `a-b` if there is one, in that one's series, and not at all otherwise
  (`jobobserver_controller.go:44`), against the meaning of a series
  (`docs/EXECUTION-FLOW.zh-CN.md:226-230`); `RegisteredAsRun` is about plain names.
  A policy that is not found, for the same reason or since the cache lags, gives the
  default keepLast of 3; `RegisteredAsRun` holds plain policies whose retention
  lasts to just that one.
* Of two parameter keys that become one variable (`db_name`, `db-name`) the last in
  sorted order counts, so that a source's can win over the RestoreJob's
  (`runtime_helpers.go:722`). An endpoint of a RestoreJob replaces the source's as
  a whole.

## 7. What is not modelled

* Validation of BackupJobs, RestoreJobs and BackupPolicies: only the outcome
  (`valid`, `config`), besides the path of an import.
* Of a RestoreJob that imports: the format and the Snapshot name that are derived
  from the path, and the download of a directory.
* Images, volumes, runtime settings (`mergeJobRuntime`, which replaces resources as
  a block) and annotations of the rendered Jobs: data that no property tells apart.
* BackupJobs with a `policyRef` in BackupExecution: they share a series, which is
  what SnapshotSeries has manual runs for; the two are not composed.
* A storage that is moved while there are Snapshots of it.
* `main.go`, the installers, the addons' own scripts, generated code: wiring and
  material outside the operator's logic. What `main.go` fixes (one worker per
  controller, one cache) is an assumption of the models.

## 8. Plan

What a next step would take up, in this order:

1. BackupExecution and SnapshotSeries composed, for BackupJobs with a policy.
2. SnapshotSeries over `ArtifactStore` in place of its own one-step `Upload`, which
   ties retention in the cluster to what StorageBackend implements.
3. The containers of a restore Pod beside `BackupPod`, with imports in every format.
4. The rules for BackupJobs, RestoreJobs and BackupPolicies in `Validation`.
