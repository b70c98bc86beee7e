--------------------------- MODULE SnapshotSeries ---------------------------
(***************************************************************************)
(* One backup series: the runs of a BackupPolicy's CronJob and of the      *)
(* BackupJobs that name the policy, the Snapshots registered for them, and *)
(* their artifacts in the storage backend.                                 *)
(*                                                                         *)
(* Three controllers act on the series, each with one worker: JobObserver  *)
(* registers the CronJob's runs and the BackupJob controller the manual    *)
(* ones (both through persistSnapshot, which ends with a retention pass    *)
(* over the series), and the Snapshot controller protects a Snapshot with  *)
(* a finalizer and removes its artifact before it goes.  All three read    *)
(* Snapshots through one informer cache (view) that may lag.               *)
(***************************************************************************)
EXTENDS Naturals, FiniteSets

CONSTANTS
    Runs,        \* numbered in the order of their artifacts' names
    ManualRuns,  \* the runs of BackupJobs; JobObserver registers the others
    Unwanted,    \* the runs whose Snapshot a user may delete
    KeepLast,    \* successfulSnapshots.keepLast
    Backend,     \* the storage's type
    Concurrency, \* the CronJob's concurrencyPolicy, Forbid by default
    Reborn,      \* bound: the runs whose Snapshot is created more than once
    MaxBirths,   \* bound: how often it is
    MaxFaults    \* bound: crashes, API errors, failed or collected runs,
                 \* failed cleanups and losses of the BackupStorage

ASSUME SeriesAssumption ==
    /\ Runs \subseteq Nat \ {0} /\ IsFiniteSet(Runs)
    /\ ManualRuns \subseteq Runs
    /\ Unwanted \subseteq Runs
    /\ Reborn \subseteq Runs
    /\ KeepLast \in Nat \ {0}
    /\ Backend \in {"nfs", "minio"}
    /\ Concurrency \in {"Forbid", "Allow", "Replace"}
    /\ MaxBirths \in Nat
    /\ MaxFaults \in Nat

VARIABLES
    storage,   \* whether the series' BackupStorage is there
    job,       \* the run's native Job
    doneAt,    \* its completion time (0: it did not complete)
    files,     \* the runs whose artifact is in the backend
    snaps,     \* the Snapshots in the API server
    view,      \* the informer's copy of them
    births,    \* Snapshots created so far, per name
    cleanup,   \* the cleanup Job of the Snapshot and the one that owns it
    worker,    \* the reconciles in progress
    faults,    \* faults so far
    passed,    \* history: the runs whose Snapshot was created and the pass that
               \* follows came to its end
    guarded    \* history: the runs whose Snapshot got the finalizer

vars == <<storage, job, doneAt, files, snaps, view, births, cleanup, worker, faults,
          passed, guarded>>

----------------------------------------------------------------------------
(* Values *)

Workers   == {"JobObserver", "BackupJob"}
JobStates == {"none", "running", "uploaded", "done", "gone"}
Ops       == {"delete", "mark", "unmark"}
Todo      == [run : Runs, rank : Nat, op : Ops]

Snapshot  == [born : Nat, ready : BOOLEAN, latest : BOOLEAN,
              finalizer : BOOLEAN, deleting : BOOLEAN, created : Nat]
Cleanup   == [state : {"none", "active", "complete", "failed"}, owner : Nat]
Worker    == [pc : {"idle", "persist", "ready", "list", "series"},
              run : Runs \cup {0}, todo : SUBSET Todo]

NoSnapshot == [born |-> 0, ready |-> FALSE, latest |-> FALSE,
               finalizer |-> FALSE, deleting |-> FALSE, created |-> 0]
NoCleanup  == [state |-> "none", owner |-> 0]
Idle       == [pc |-> "idle", run |-> 0, todo |-> {}]

There(s) == s # NoSnapshot
Live(s)  == s # NoSnapshot /\ ~s.deleting

TypeOK ==
    /\ storage \in BOOLEAN
    /\ job \in [Runs -> JobStates]
    /\ doneAt \in [Runs -> Nat]
    /\ files \subseteq Runs
    /\ snaps \in [Runs -> Snapshot]
    /\ view \in [Runs -> Snapshot]
    /\ births \in [Runs -> Nat]
    /\ cleanup \in [Runs -> Cleanup]
    /\ worker \in [Workers -> Worker]
    /\ \A w \in Workers :
          /\ (worker[w].pc = "idle") <=> (worker[w].run = 0)
          /\ (worker[w].pc = "series") <=> (worker[w].todo # {})
    /\ faults \in Nat
    /\ passed \subseteq Runs
    /\ guarded \subseteq Runs

Init ==
    /\ storage = TRUE
    /\ job = [i \in Runs |-> "none"]
    /\ doneAt = [i \in Runs |-> 0]
    /\ files = {}
    /\ snaps = [i \in Runs |-> NoSnapshot]
    /\ view = snaps
    /\ births = [i \in Runs |-> 0]
    /\ cleanup = [i \in Runs |-> NoCleanup]
    /\ worker = [w \in Workers |-> Idle]
    /\ faults = 0
    /\ passed = {}
    /\ guarded = {}

----------------------------------------------------------------------------
(* The runs, as Kubernetes and the pod's containers execute them.           *)

Completed == {i \in Runs : doneAt[i] > 0}

(* Completion times are even, so that a Snapshot can be created in the same *)
(* second as the latest completion or after it.                             *)
Now == 2 * Cardinality(Completed)

(* Names begin with the time of the run.  A CronJob that forbids it does    *)
(* not start a run while another one is going on, and one that replaces it  *)
(* loses that one first (LoseRun); BackupJobs overlap with everything.      *)
Scheduled == Runs \ ManualRuns

StartRun(i) ==
    /\ job[i] = "none"
    /\ \A k \in Runs : k < i => job[k] # "none"
    /\ Concurrency = "Forbid" /\ i \in Scheduled =>
         \A k \in Scheduled : job[k] \notin {"running", "uploaded"}
    /\ job' = [job EXCEPT ![i] = "running"]
    /\ UNCHANGED <<storage, doneAt, files, snaps, view, births, cleanup, worker, faults,
                   passed, guarded>>

(* What a script leaves of stored, which it is to reduce to wanted.  On     *)
(* MinIO a command that fails is ignored, and so is a bucket or a listing   *)
(* that cannot be had; on NFS the script fails with the command.            *)
Left(wanted, stored) ==
    IF Backend = "nfs" THEN {wanted}
    ELSE {wanted \cup kept : kept \in SUBSET (stored \ wanted)}

(* The upload container copies the artifact and prunes the backend to the   *)
(* KeepLast greatest names, its own artifact included.                      *)
Upload(i) ==
    LET stored == files \cup {i} IN
    /\ job[i] = "running"
    /\ job' = [job EXCEPT ![i] = "uploaded"]
    /\ files' \in Left({k \in stored : Cardinality({m \in stored : m > k}) < KeepLast},
                      stored)
    /\ UNCHANGED <<storage, doneAt, snaps, view, births, cleanup, worker, faults,
                   passed, guarded>>

(* The Job completes with its artifact summary in the Pod's status.         *)
CompleteRun(i) ==
    /\ job[i] = "uploaded"
    /\ job' = [job EXCEPT ![i] = "done"]
    /\ doneAt' = [doneAt EXCEPT ![i] = Now + 2]
    /\ UNCHANGED <<storage, files, snaps, view, births, cleanup, worker, faults,
                   passed, guarded>>

(* The Job goes with its Pods: the CronJob's history limit or the TTL; or   *)
(* its Pod alone goes or is without a summary, or the Job fails, before or  *)
(* after the upload.  From then on no Snapshot is registered for the run.   *)
LoseRun(i) ==
    /\ job[i] \in {"running", "uploaded", "done"}
    /\ faults < MaxFaults
    /\ faults' = faults + 1
    /\ job' = [job EXCEPT ![i] = "gone"]
    /\ UNCHANGED <<storage, doneAt, files, snaps, view, births, cleanup, worker,
                   passed, guarded>>

----------------------------------------------------------------------------
(* Registration: persistSnapshot, one API write after another.              *)

MayBeBorn(i) == births[i] < (IF i \in Reborn THEN MaxBirths ELSE 1)

WorkerOf(i) == IF i \in ManualRuns THEN "BackupJob" ELSE "JobObserver"

Return(w)  == worker' = [worker EXCEPT ![w] = Idle]
Goto(w, p) == worker' = [worker EXCEPT ![w].pc = p]

(* Every observation of a completed Job registers its Snapshot again: a     *)
(* BackupJob every 30 seconds, a CronJob's Job on events, resyncs and       *)
(* restarts.  Without its BackupStorage a Job is left alone.                *)
Begin(i) ==
    LET w == WorkerOf(i) IN
    /\ storage
    /\ worker[w] = Idle
    /\ job[i] = "done"
    /\ MayBeBorn(i) \/ There(snaps[i])
    /\ worker' = [worker EXCEPT ![w] = [pc |-> "persist", run |-> i, todo |-> {}]]
    /\ UNCHANGED <<storage, job, doneAt, files, snaps, view, births, cleanup, faults,
                   passed, guarded>>

(* Mutant of PersistSnapshot: always Create, never Update. *)
PersistSnapshotByCreate(w) ==
    LET i == worker[w].run IN
    /\ worker[w].pc = "persist"
    /\ IF ~There(snaps[i]) /\ MayBeBorn(i)
       THEN /\ births' = [births EXCEPT ![i] = @ + 1]
            /\ snaps' = [snaps EXCEPT ![i] =
                 [NoSnapshot EXCEPT !.born = births[i] + 1, !.created = Now + 1]]
            /\ passed' = passed \ {i}
            /\ Goto(w, "ready")
       ELSE Return(w) /\ UNCHANGED <<snaps, births, passed>>
    /\ UNCHANGED <<storage, job, doneAt, files, view, cleanup, faults, guarded>>

(* A cached Get, then Create or Update.  Create fails when the Snapshot is  *)
(* there after all, Update when the cached copy is not the current one.     *)
PersistSnapshot(w) ==
    LET i == worker[w].run IN
    /\ worker[w].pc = "persist"
    /\ IF ~There(view[i]) /\ ~There(snaps[i]) /\ MayBeBorn(i)
       THEN /\ births' = [births EXCEPT ![i] = @ + 1]
            /\ \E time \in {Now, Now + 1} :
                 /\ \A k \in Runs : snaps[k].created <= time /\ view[k].created <= time
                 /\ snaps' = [snaps EXCEPT ![i] =
                      [NoSnapshot EXCEPT !.born = births[i] + 1, !.created = time]]
            /\ passed' = passed \ {i}
            /\ Goto(w, "ready")
       ELSE /\ IF There(view[i]) /\ view[i] = snaps[i]
               THEN Goto(w, "ready") ELSE Return(w)
            /\ UNCHANGED <<snaps, births, passed>>
    /\ UNCHANGED <<storage, job, doneAt, files, view, cleanup, faults, guarded>>

(* A cached Get and a status update; NotFound or the conflicts that outlast *)
(* the retries end the reconcile.                                           *)
MarkSnapshotReady(w) ==
    LET i == worker[w].run IN
    /\ worker[w].pc = "ready"
    /\ \/ /\ There(view[i]) /\ view[i] = snaps[i]
          /\ snaps' = [snaps EXCEPT ![i].ready = TRUE, ![i].latest = TRUE,
                                    ![i].created = 0]
          /\ Goto(w, "list")
       \/ /\ view[i] # snaps[i] \/ ~There(view[i])
          /\ Return(w)
          /\ UNCHANGED snaps
    /\ UNCHANGED <<storage, job, doneAt, files, view, births, cleanup, faults, passed, guarded>>

----------------------------------------------------------------------------
(* Retention: reconcileSnapshotSeries over the cached list.                 *)

(* A Snapshot without a status yet counts as old as its creation, which is  *)
(* forgotten afterwards.                                                    *)
SortTime(k) == IF view[k].ready THEN doneAt[k] ELSE view[k].created

(* sortSnapshotsNewestFirst: by time, then by name. *)
Newer(m, k) ==
    \/ SortTime(m) > SortTime(k)
    \/ SortTime(m) = SortTime(k) /\ m > k

Listed  == {k \in Runs : There(view[k])}
Rank(k) == Cardinality({m \in Listed : Newer(m, k)})

(* Mutant of PassFor: keeps one Snapshot more than asked for. *)
PassOneTooMany(i) ==
    {[run |-> k, rank |-> Rank(k), op |-> "delete"] :
        k \in {l \in Listed : Rank(l) > KeepLast}}
    \cup
    {[run |-> k, rank |-> Rank(k), op |-> IF k = i THEN "mark" ELSE "unmark"] :
        k \in {l \in Listed : Rank(l) <= KeepLast /\ view[l].latest # (l = i)}}

(* What the pass for run i is about to do, given the list it has read.      *)
PassFor(i) ==
    {[run |-> k, rank |-> Rank(k), op |-> "delete"] :
        k \in {l \in Listed : Rank(l) >= KeepLast}}
    \cup
    {[run |-> k, rank |-> Rank(k), op |-> IF k = i THEN "mark" ELSE "unmark"] :
        k \in {l \in Listed : Rank(l) < KeepLast /\ view[l].latest # (l = i)}}

(* Mutant of Proceed: forgets to leave the loop. *)
ProceedOnEmpty(w, todo) ==
    /\ worker' = [worker EXCEPT ![w].pc = "series", ![w].todo = todo]
    /\ passed' = IF todo = {} THEN passed \cup {worker[w].run} ELSE passed

(* The pass goes on with what is left to do, or has come to its end.        *)
Proceed(w, todo) ==
    IF todo = {}
    THEN /\ Return(w)
         /\ passed' = passed \cup {worker[w].run}
    ELSE /\ worker' = [worker EXCEPT ![w].pc = "series", ![w].todo = todo]
         /\ UNCHANGED passed

ListSeries(w) ==
    /\ worker[w].pc = "list"
    /\ Proceed(w, PassFor(worker[w].run))
    /\ UNCHANGED <<storage, job, doneAt, files, snaps, view, births, cleanup, faults, guarded>>

(* What the API server makes of a deletion. *)
Deleted(s) ==
    IF s.finalizer THEN [s EXCEPT !.deleting = TRUE] ELSE NoSnapshot

(* The next entry, newest first.  A deletion names no version, and finding  *)
(* nothing to delete is fine; a latest flag is written through a cached Get *)
(* and a status update, whose NotFound and conflicts end the pass.          *)
SeriesStep(w) ==
    \E t \in worker[w].todo :
    LET rest == worker[w].todo \ {t} IN
    /\ worker[w].pc = "series"
    /\ \A u \in rest : t.rank < u.rank
    /\ \/ /\ t.op = "delete"
          /\ snaps' = [snaps EXCEPT ![t.run] = Deleted(@)]
          /\ Proceed(w, rest)
       \/ /\ t.op # "delete"
          /\ There(view[t.run]) /\ view[t.run] = snaps[t.run]
          /\ snaps' = [snaps EXCEPT ![t.run].latest = (t.op = "mark")]
          /\ Proceed(w, rest)
       \/ /\ t.op # "delete"
          /\ view[t.run] # snaps[t.run] \/ ~There(view[t.run])
          /\ Return(w)
          /\ UNCHANGED <<snaps, passed>>
    /\ UNCHANGED <<storage, job, doneAt, files, view, births, cleanup, faults,
                   guarded>>

Register(w) ==
    \/ PersistSnapshot(w) \/ MarkSnapshotReady(w) \/ ListSeries(w) \/ SeriesStep(w)

----------------------------------------------------------------------------
(* The Snapshot controller.  Each of its reconciles makes at most one       *)
(* write, a patch that names no version, so it is one step on the view.     *)
(* The cleanup Job is read as it is: a lagging copy of it only delays the   *)
(* steps below, since what a completed one has removed never comes back.    *)

Alone(k) == UNCHANGED <<storage, job, doneAt, files, view, births, worker, faults,
                        passed>>

(* Patching the finalizer in; forbidden once the Snapshot is terminating.   *)
AddFinalizer(k) ==
    /\ Live(view[k]) /\ view[k].ready /\ ~view[k].finalizer
    /\ Live(snaps[k]) /\ ~snaps[k].finalizer
    /\ snaps' = [snaps EXCEPT ![k].finalizer = TRUE]
    /\ guarded' = guarded \cup {k}
    /\ Alone(k)
    /\ UNCHANGED cleanup

Terminating(k) == There(view[k]) /\ view[k].deleting /\ view[k].finalizer

(* Patching the finalizer out lets a terminating Snapshot go.               *)
Released(s) ==
    IF s.deleting THEN NoSnapshot ELSE [s EXCEPT !.finalizer = FALSE]

(* Mutant of RemoveFinalizer: without its storage a Snapshot is let go. *)
RemoveFinalizerUnlessStored(k) ==
    /\ Terminating(k)
    /\ view[k].ready => ~storage \/ cleanup[k].state = "complete"
    /\ snaps[k].finalizer
    /\ snaps' = [snaps EXCEPT ![k] = Released(@)]
    /\ Alone(k)
    /\ UNCHANGED <<cleanup, guarded>>

(* Mutant of RemoveFinalizer: a cleanup Job that was started is enough. *)
RemoveFinalizerOnceStarted(k) ==
    /\ Terminating(k)
    /\ view[k].ready => storage /\ cleanup[k].state # "none"
    /\ snaps[k].finalizer
    /\ snaps' = [snaps EXCEPT ![k] = Released(@)]
    /\ Alone(k)
    /\ UNCHANGED <<cleanup, guarded>>

(* There is no artifact to clean up, or the cleanup Job has completed; not  *)
(* even its end is looked at while the BackupStorage is missing.            *)
RemoveFinalizer(k) ==
    /\ Terminating(k)
    /\ view[k].ready => storage /\ cleanup[k].state = "complete"
    /\ snaps[k].finalizer
    /\ snaps' = [snaps EXCEPT ![k] = Released(@)]
    /\ Alone(k)
    /\ UNCHANGED <<cleanup, guarded>>

CreateCleanup(k) ==
    /\ Terminating(k)
    /\ view[k].ready /\ storage
    /\ cleanup[k].state = "none"
    /\ cleanup' = [cleanup EXCEPT ![k] = [state |-> "active", owner |-> view[k].born]]
    /\ Alone(k)
    /\ UNCHANGED <<snaps, guarded>>

ReconcileSnapshot(k) == AddFinalizer(k) \/ RemoveFinalizer(k) \/ CreateCleanup(k)

----------------------------------------------------------------------------
(* The cleanup Job: it removes the artifact, or fails before or after that. *)
(* On MinIO it may succeed and leave the artifact (Left).                   *)
CompleteCleanup(k) ==
    /\ cleanup[k].state = "active"
    /\ files' \in Left(files \ {k}, files)
    /\ cleanup' = [cleanup EXCEPT ![k].state = "complete"]
    /\ UNCHANGED <<storage, job, doneAt, snaps, view, births, worker, faults, passed, guarded>>

FailCleanup(k) ==
    /\ cleanup[k].state = "active"
    /\ faults < MaxFaults
    /\ faults' = faults + 1
    /\ files' \in {files, files \ {k}}
    /\ cleanup' = [cleanup EXCEPT ![k].state = "failed"]
    /\ UNCHANGED <<storage, job, doneAt, snaps, view, births, worker, passed,
                   guarded>>

(* Mutant of CollectCleanup: the cleanup Job is given no TTL. *)
CollectCleanupWithoutTTL(k) ==
    /\ cleanup[k] # NoCleanup
    /\ cleanup[k].owner # snaps[k].born
    /\ cleanup' = [cleanup EXCEPT ![k] = NoCleanup]
    /\ UNCHANGED <<storage, job, doneAt, files, snaps, view, births, worker, faults,
                   passed, guarded>>

(* Its TTL removes it, or its owner has gone and it is garbage.             *)
CollectCleanup(k) ==
    /\ cleanup[k] # NoCleanup
    /\ \/ cleanup[k].state \in {"complete", "failed"}
       \/ cleanup[k].owner # snaps[k].born
    /\ cleanup' = [cleanup EXCEPT ![k] = NoCleanup]
    /\ UNCHANGED <<storage, job, doneAt, files, snaps, view, births, worker, faults,
                   passed, guarded>>

----------------------------------------------------------------------------
(* Users, faults and the informer.                                          *)

(* A user deletes a Snapshot; as a bound, not its last incarnation.         *)
DeleteSnapshot(k) ==
    /\ k \in Unwanted
    /\ MayBeBorn(k)
    /\ Live(snaps[k])
    /\ snaps' = [snaps EXCEPT ![k] = Deleted(@)]
    /\ UNCHANGED <<storage, job, doneAt, files, view, births, cleanup, worker, faults,
                   passed, guarded>>

(* The BackupStorage is deleted, and may be created again. *)
DeleteStorage ==
    /\ storage
    /\ faults < MaxFaults
    /\ faults' = faults + 1
    /\ storage' = FALSE
    /\ UNCHANGED <<job, doneAt, files, snaps, view, births, cleanup, worker,
                   passed, guarded>>

CreateStorage ==
    /\ ~storage
    /\ storage' = TRUE
    /\ UNCHANGED <<job, doneAt, files, snaps, view, births, cleanup, worker,
                   faults, passed, guarded>>

ApiError(w) ==
    /\ worker[w] # Idle
    /\ faults < MaxFaults
    /\ faults' = faults + 1
    /\ Return(w)
    /\ UNCHANGED <<storage, job, doneAt, files, snaps, view, births, cleanup, passed, guarded>>

Restart ==
    /\ faults < MaxFaults
    /\ faults' = faults + 1
    /\ worker' = [w \in Workers |-> Idle]
    /\ view' = snaps
    /\ UNCHANGED <<storage, job, doneAt, files, snaps, births, cleanup, passed,
                   guarded>>

(* The watch delivers all it has fallen behind: the cache is always the     *)
(* series as it was at some earlier moment.                                 *)
Sync ==
    /\ view' = snaps
    /\ UNCHANGED <<storage, job, doneAt, files, snaps, births, cleanup, worker, faults,
                   passed, guarded>>

----------------------------------------------------------------------------
Next ==
    \/ Restart
    \/ Sync
    \/ DeleteStorage
    \/ CreateStorage
    \/ \E w \in Workers : Register(w) \/ ApiError(w)
    \/ \E i \in Runs :
         \/ StartRun(i) \/ Upload(i) \/ CompleteRun(i) \/ LoseRun(i)
         \/ Begin(i) \/ ReconcileSnapshot(i)
         \/ CompleteCleanup(i) \/ FailCleanup(i) \/ CollectCleanup(i)
         \/ DeleteSnapshot(i)

(* Controllers and the watch are never idle for ever with work to do; a     *)
(* cleanup Job ends (it has a deadline) and goes (it has a TTL).  The runs, *)
(* the users and the faults may do as they please.                          *)
Fairness ==
    /\ WF_vars(Sync)
    /\ \A w \in Workers : WF_vars(Register(w))
    /\ \A i \in Runs :
         /\ SF_vars(Begin(i))
         /\ WF_vars(ReconcileSnapshot(i))
         /\ SF_vars(RemoveFinalizer(i))
         /\ WF_vars(CompleteCleanup(i))
         /\ WF_vars(CollectCleanup(i))

Spec     == Init /\ [][Next]_vars
FairSpec == Spec /\ Fairness

----------------------------------------------------------------------------
(* Properties *)

(* On NFS a Snapshot that was protected leaves only after its artifact has. *)
(* On MinIO it may not: a cleanup that could not reach its bucket succeeds. *)
CleanedUp ==
    Backend = "nfs" => \A k \in guarded : There(snaps[k]) \/ k \notin files

(* A cleanup Job never meets the artifact of a Snapshot that is to stay:    *)
(* although a Snapshot that has gone is registered again by the next        *)
(* observation of its run, under the name that its cleanup Job is found by, *)
(* and although the cache may show the one that was being deleted.          *)
CleanupSparesLive ==
    Backend = "nfs" =>
        \A k \in files : cleanup[k].state = "active" => ~Live(snaps[k])

(* However the passes of the two workers interleave, whichever run is       *)
(* observed again and however old the lists are that they act on: of the    *)
(* Snapshots whose registration has come to its end, retention leaves       *)
(* KeepLast at most.                                                        *)
SeriesBounded == Cardinality({k \in passed : Live(snaps[k])}) <= KeepLast

(* A Snapshot being deleted eventually goes, however often its cleanup      *)
(* fails or the operator restarts, once its BackupStorage stays there: the  *)
(* finalizer holds it until then.                                           *)
DeletionCompletes ==
    <>[]storage => \A k \in Runs : []<>~snaps[k].deleting

(* The registration of run i comes to its end, or its Snapshot is removed   *)
(* under way: by a pass for a newer run or by a user.                       *)
RegistrationEnds(i) == i \in passed \/ (births[i] > 0 /\ ~Live(snaps[i]))

(* A completed run that stays does not stay half registered, if its storage *)
(* is there to stay as well.                                                *)
RegistrationCompletes ==
    \A i \in Runs : <>[](job[i] = "done" /\ storage) => []<>RegistrationEnds(i)

(* The KeepLast most recently completed runs. *)
Window ==
    {i \in Completed :
        Cardinality({k \in Completed : doneAt[k] > doneAt[i]}) < KeepLast}

(* Every run that was started has completed, has been registered to the    *)
(* end and has been collected; nothing goes on that could change anything.  *)
AtRest ==
    /\ \A w \in Workers : worker[w] = Idle
    /\ view = snaps
    /\ \A i \in Runs : job[i] = "none" \/ (job[i] = "gone" /\ i \in passed)

(* At rest, retention has made both layers converge: the Snapshots that are *)
(* to stay are those of the window, and their artifacts are in the backend  *)
(* (docs/EXECUTION-FLOW.zh-CN.md:211-220, :232).  The code does not keep    *)
(* this: a Snapshot that was created but not yet marked ready ranks by its  *)
(* creation, and so before the run that completed before that.              *)
LayersAgree ==
    AtRest /\ Unwanted = {} =>
        {k \in Runs : Live(snaps[k])} = Window /\ Window \subseteq files
=============================================================================
