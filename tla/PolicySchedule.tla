--------------------------- MODULE PolicySchedule ---------------------------
(***************************************************************************)
(* The BackupPolicy controller: one BackupPolicy, fanned out into a        *)
(* CronJob for each of its storages.                                       *)
(*                                                                         *)
(* The controller is called for changes of the policy only; it reads the   *)
(* BackupSource, the storages and the RetentionPolicy whenever it is       *)
(* called, and no change of theirs calls it.  It asks to be called for the *)
(* CronJobs it owns, too, but owns none: the owner reference is set on a   *)
(* template of which only labels, annotations and spec are written.        *)
(* CronJobs that change or go are noticed at the next call.  Policy and    *)
(* CronJobs are read from informer caches that may lag (policyView,        *)
(* cronView) and written in the API server one by one, so that a fan-out   *)
(* may stop halfway.  A cached object is the current one exactly when no   *)
(* event of it is pending.                                                 *)
(***************************************************************************)
EXTENDS Naturals, FiniteSets

CONSTANTS
    Storages,    \* BackupStorages a policy may name
    Suspensions, \* values of spec.suspend or spec.schedule.suspend
    Sources,     \* states of the BackupSource
    Keeps,       \* values of successfulSnapshots.keepLast
    MaxEdits,    \* bound: changes that users make
    MaxFaults    \* bound: crashes and API errors

ASSUME ScheduleAssumption ==
    /\ IsFiniteSet(Storages)
    /\ Suspensions \subseteq BOOLEAN /\ FALSE \in Suspensions
    /\ Sources \subseteq {"running", "paused", "missing"} /\ "running" \in Sources
    /\ Keeps \subseteq Nat \ {0} /\ Keeps # {}
    /\ MaxEdits \in Nat
    /\ MaxFaults \in Nat

VARIABLES
    policy,      \* the BackupPolicy: what users wrote and its status
    policyView,  \* the informer's copy of it
    source,      \* the BackupSource
    missing,     \* the storages that do not exist
    keep,        \* the RetentionPolicy's keepLast
    cron,        \* the CronJobs in the API server, by storage
    cronView,    \* the informer's copy of them
    pending,     \* events the watches have not delivered yet
    due,         \* the work queue holds the policy
    rec,         \* the reconcile in progress and its local variables
    edits,       \* changes so far
    faults,      \* faults so far
    unwanted     \* history: storages that some version of the policy left out

vars == <<policy, policyView, source, missing, keep, cron, cronView, pending,
          due, rec, edits, faults, unwanted>>

----------------------------------------------------------------------------
(* Values *)

Phases  == {"", "Failed", "Configured", "Paused"}
Policy  == [refs : SUBSET Storages, suspend : Suspensions,
            phase : Phases, names : SUBSET Storages]
CronJob == [there : BOOLEAN, suspend : BOOLEAN, keep : Keeps \cup {0}]
PCs     == {"idle", "apply", "list", "prune", "patch"}
Rec     == [pc : PCs, base : Policy, suspend : BOOLEAN, keep : Keeps \cup {0},
            todo : SUBSET Storages, phase : Phases, requeue : BOOLEAN]

NoCronJob == [there |-> FALSE, suspend |-> FALSE, keep |-> 0]
NoPolicy  == [refs |-> {}, suspend |-> FALSE, phase |-> "", names |-> {}]
Idle == [pc |-> "idle", base |-> NoPolicy, suspend |-> FALSE, keep |-> 0,
         todo |-> {}, phase |-> "", requeue |-> FALSE]

ThePolicy == "policy"

(* Events of the policy and of its CronJobs are told apart.                 *)
ASSUME EventAssumption == ThePolicy \notin Storages

TypeOK ==
    /\ policy \in Policy
    /\ policyView \in Policy
    /\ source \in Sources
    /\ missing \subseteq Storages
    /\ keep \in Keeps
    /\ cron \in [Storages -> CronJob]
    /\ cronView \in [Storages -> CronJob]
    /\ pending \subseteq Storages \cup {ThePolicy}
    /\ due \in BOOLEAN
    /\ rec \in Rec
    /\ rec.pc \in {"apply", "prune"} => rec.todo # {}
    /\ edits \in Nat
    /\ faults \in Nat
    /\ unwanted \subseteq Storages

(* A policy that was just created; its first event is on the way.           *)
Init ==
    /\ \E refs \in SUBSET Storages, suspend \in Suspensions :
          policy = [refs |-> refs, suspend |-> suspend, phase |-> "", names |-> {}]
    /\ policyView = policy
    /\ source \in Sources
    /\ missing = {}
    /\ keep \in Keeps
    /\ cron = [s \in Storages |-> NoCronJob]
    /\ cronView = cron
    /\ pending = {}
    /\ due = TRUE
    /\ rec = Idle
    /\ edits = 0
    /\ faults = 0
    /\ unwanted = Storages \ policy.refs

----------------------------------------------------------------------------
(* The reconcile, one at a time. *)

Configuration == <<source, missing, keep, edits, unwanted>>

Patch(base, phase, requeue) ==
    [Idle EXCEPT !.pc = "patch", !.base = base, !.phase = phase, !.requeue = requeue]

(* One of the objects the policy names does not exist.                      *)
Unresolved(refs) == source = "missing" \/ refs \cap missing # {}

(* Mutant of Start: a policy whose status is set has nothing new to say.    *)
StartUnlessReported(base) ==
    IF base.phase # "" THEN Patch(base, base.phase, FALSE)
    ELSE [Idle EXCEPT !.pc = "apply", !.base = base, !.keep = keep,
              !.suspend = (base.suspend \/ source = "paused"), !.todo = base.refs]

(* Mutant of Start: storages that do not exist are skipped.                 *)
StartWithPresent(base) ==
    IF base.refs \ missing = {} THEN Patch(base, "Failed", FALSE)
    ELSE [Idle EXCEPT !.pc = "apply", !.base = [base EXCEPT !.refs = @ \ missing],
              !.keep = keep,
              !.suspend = (base.suspend \/ source = "paused"),
              !.todo = base.refs \ missing]

(* An invalid spec and an unresolved reference are reported, the latter     *)
(* with a requeue, and leave the CronJobs as they are.                      *)
Start(base) ==
    IF base.refs = {} THEN Patch(base, "Failed", FALSE)
    ELSE IF Unresolved(base.refs) THEN Patch(base, "Failed", TRUE)
    ELSE [Idle EXCEPT !.pc = "apply", !.base = base, !.keep = keep,
              !.suspend = (base.suspend \/ source = "paused"), !.todo = base.refs]

Begin ==
    /\ rec.pc = "idle"
    /\ due
    /\ due' = FALSE
    /\ rec' = Start(policyView)
    /\ UNCHANGED <<policy, policyView, cron, cronView, pending, faults>>
    /\ UNCHANGED Configuration

(* The error that ends a reconcile puts the policy back into the queue.     *)
Fail ==
    /\ rec' = Idle
    /\ due' = TRUE

(* Mutant of ApplyCronJob: an existing CronJob is updated only when it has  *)
(* to be suspended or resumed.                                              *)
ApplyCronJobIfSuspended(s) ==
    /\ rec.pc = "apply"
    /\ s \in rec.todo
    /\ cronView[s].there = cron[s].there
    /\ cronView[s].there => s \notin pending
    /\ cron' = IF cron[s].there /\ cron[s].suspend = rec.suspend THEN cron
               ELSE [cron EXCEPT ![s] = [there |-> TRUE, suspend |-> rec.suspend,
                                         keep |-> rec.keep]]
    /\ pending' = IF cron' # cron THEN pending \cup {s} ELSE pending
    /\ rec' = [rec EXCEPT !.todo = @ \ {s},
                  !.pc = IF rec.todo = {s} THEN "list" ELSE "apply"]
    /\ UNCHANGED <<policy, policyView, cronView, due, faults>>
    /\ UNCHANGED Configuration

(* createOrUpdateWithRetry.  The cached Get chooses Create or Update; an    *)
(* Update of an outdated copy conflicts and is retried until the cache has  *)
(* caught up (a back-off that is not long enough is an API error below).    *)
ApplyCronJob(s) ==
    /\ rec.pc = "apply"
    /\ s \in rec.todo
    /\ IF cronView[s].there = cron[s].there
       THEN /\ cronView[s].there => s \notin pending
            /\ cron' = [cron EXCEPT ![s] = [there |-> TRUE, suspend |-> rec.suspend,
                                            keep |-> rec.keep]]
            /\ pending' = IF cron' # cron THEN pending \cup {s} ELSE pending
            /\ rec' = [rec EXCEPT !.todo = @ \ {s},
                          !.pc = IF rec.todo = {s} THEN "list" ELSE "apply"]
            /\ UNCHANGED due
       ELSE Fail /\ UNCHANGED <<cron, pending>>
    /\ UNCHANGED <<policy, policyView, cronView, faults>>
    /\ UNCHANGED Configuration

(* The CronJobs with the policy's labels, as far as the cache knows, that   *)
(* the spec does not ask for.                                               *)
Orphans == {s \in Storages : cronView[s].there} \ rec.base.refs

(* The phase is decided from the source that Begin has read. *)
ListCronJobs ==
    /\ rec.pc = "list"
    /\ rec' = [rec EXCEPT !.todo = Orphans,
                  !.pc = IF Orphans = {} THEN "patch" ELSE "prune",
                  !.phase = IF rec.suspend THEN "Paused" ELSE "Configured"]
    /\ UNCHANGED <<policy, policyView, cron, cronView, pending, due, faults>>
    /\ UNCHANGED Configuration

(* A CronJob that is not there any more is not an error. *)
DeleteOrphan(s) ==
    /\ rec.pc = "prune"
    /\ s \in rec.todo
    /\ cron' = [cron EXCEPT ![s] = NoCronJob]
    /\ pending' = IF cron' # cron THEN pending \cup {s} ELSE pending
    /\ rec' = [rec EXCEPT !.todo = @ \ {s},
                  !.pc = IF rec.todo = {s} THEN "patch" ELSE "prune"]
    /\ UNCHANGED <<policy, policyView, cronView, due, faults>>
    /\ UNCHANGED Configuration

(* A merge patch of the fields that differ from the cached copy the         *)
(* reconcile started from; a failed reconcile leaves cronJobNames alone.    *)
PatchStatus ==
    LET base  == rec.base
        names == IF rec.phase = "Failed" THEN base.names ELSE base.refs
    IN
    /\ rec.pc = "patch"
    /\ policy' = [policy EXCEPT
                    !.phase = IF rec.phase # base.phase THEN rec.phase ELSE @,
                    !.names = IF names # base.names THEN names ELSE @]
    /\ pending' = IF policy' # policy THEN pending \cup {ThePolicy} ELSE pending
    /\ due' = (due \/ rec.requeue)
    /\ rec' = Idle
    /\ UNCHANGED <<policyView, cron, cronView, faults>>
    /\ UNCHANGED Configuration

----------------------------------------------------------------------------
(* Events, faults and the informer's periodic resync. *)

(* Mutant of SyncPolicy: changes of the status are filtered out.            *)
SyncPolicyOfSpec ==
    /\ ThePolicy \in pending
    /\ pending' = pending \ {ThePolicy}
    /\ policyView' = policy
    /\ due' = (due \/ policy.refs # policyView.refs
                   \/ policy.suspend # policyView.suspend)
    /\ UNCHANGED <<policy, cron, cronView, rec, faults>>
    /\ UNCHANGED Configuration

SyncPolicy ==
    /\ ThePolicy \in pending
    /\ pending' = pending \ {ThePolicy}
    /\ policyView' = policy
    /\ due' = TRUE
    /\ UNCHANGED <<policy, cron, cronView, rec, faults>>
    /\ UNCHANGED Configuration

(* A CronJob names no owner, so that its changes call nobody. *)
SyncCronJob(s) ==
    /\ s \in pending
    /\ pending' = pending \ {s}
    /\ cronView' = [cronView EXCEPT ![s] = cron[s]]
    /\ UNCHANGED <<policy, policyView, cron, due, rec, faults>>
    /\ UNCHANGED Configuration

Resync ==
    /\ due' = TRUE
    /\ UNCHANGED <<policy, policyView, cron, cronView, pending, rec, faults>>
    /\ UNCHANGED Configuration

ApiError ==
    /\ rec.pc # "idle"
    /\ faults < MaxFaults
    /\ faults' = faults + 1
    /\ Fail
    /\ UNCHANGED <<policy, policyView, cron, cronView, pending>>
    /\ UNCHANGED Configuration

Restart ==
    /\ faults < MaxFaults
    /\ faults' = faults + 1
    /\ Fail
    /\ policyView' = policy
    /\ cronView' = cron
    /\ pending' = {}
    /\ UNCHANGED <<policy, cron>>
    /\ UNCHANGED Configuration

----------------------------------------------------------------------------
(* Users, and Kubernetes' CronJob controller. *)

Edited ==
    /\ edits < MaxEdits
    /\ edits' = edits + 1
    /\ UNCHANGED <<policyView, cron, cronView, due, rec, faults>>

EditPolicy ==
    /\ Edited
    /\ \E refs \in SUBSET Storages, suspend \in Suspensions :
          /\ policy' = [policy EXCEPT !.refs = refs, !.suspend = suspend]
          /\ policy' # policy
          /\ unwanted' = unwanted \cup (Storages \ refs)
    /\ pending' = pending \cup {ThePolicy}
    /\ UNCHANGED <<source, missing, keep>>

EditSource ==
    /\ Edited
    /\ \E state \in Sources \ {source} : source' = state
    /\ UNCHANGED <<policy, missing, keep, pending, unwanted>>

EditStorages ==
    /\ Edited
    /\ \E s \in Storages :
          missing' = IF s \in missing THEN missing \ {s} ELSE missing \cup {s}
    /\ UNCHANGED <<policy, source, keep, pending, unwanted>>

EditRetention ==
    /\ Edited
    /\ \E k \in Keeps \ {keep} : keep' = k
    /\ UNCHANGED <<policy, source, missing, pending, unwanted>>

(* The schedule comes round: a backup Job is created and the CronJob's      *)
(* lastScheduleTime is written.                                             *)
Fire(s) ==
    /\ cron[s].there
    /\ ~cron[s].suspend
    /\ pending' = pending \cup {s}
    /\ UNCHANGED <<policy, policyView, cron, cronView, due, rec, faults>>
    /\ UNCHANGED Configuration

Reconcile ==
    \/ ListCronJobs \/ PatchStatus
    \/ \E s \in Storages : ApplyCronJob(s) \/ DeleteOrphan(s)

Next ==
    \/ Begin \/ Reconcile \/ ApiError \/ Restart \/ Resync \/ SyncPolicy
    \/ EditPolicy \/ EditSource \/ EditStorages \/ EditRetention
    \/ \E s \in Storages : SyncCronJob(s) \/ Fire(s)

(* The controller and the watches go on.  A CronJob fires once a minute at  *)
(* most, so that it cannot make the Updates of the controller conflict for  *)
(* ever (strong fairness of ApplyCronJob).                                  *)
Fairness ==
    /\ WF_vars(Begin)
    /\ WF_vars(ListCronJobs) /\ WF_vars(PatchStatus) /\ WF_vars(SyncPolicy)
    /\ \A s \in Storages :
         /\ SF_vars(ApplyCronJob(s))
         /\ WF_vars(DeleteOrphan(s))
         /\ WF_vars(SyncCronJob(s))

Spec     == Init /\ [][Next]_vars
FairSpec == Spec /\ Fairness

----------------------------------------------------------------------------
(* Properties *)

Scheduled == {s \in Storages : cron[s].there}

(* A CronJob and its history are removed only when some version of the      *)
(* policy did not name its storage; not for want of a storage or source     *)
(* that is missing, a cache that lags or a reconcile that fails halfway.    *)
OnlyUnwantedRemoved ==
    [][\A s \in Storages : cron[s].there /\ ~cron'[s].there => s \in unwanted]_vars

Quiet == rec.pc = "idle" /\ ~due /\ pending = {}

(* When the controller is at rest and says Configured or Paused, all the    *)
(* CronJobs the policy asks for are there, as suspended as it says, and     *)
(* they are the ones it lists.  (One it does not ask for, which the cache   *)
(* did not show in time, may be left over.)                                 *)
StatusAgrees ==
    Quiet /\ policy.phase \in {"Configured", "Paused"} =>
        /\ policy.names = policy.refs
        /\ \A s \in policy.refs :
              cron[s].there /\ cron[s].suspend = (policy.phase = "Paused")

Resolves == policy.refs # {} /\ ~Unresolved(policy.refs)

Halted == policy.suspend \/ source = "paused"

(* What users ask for reaches the CronJobs with the informer's resync, and  *)
(* without one need not: no event of a source that is paused or resumed, of *)
(* a new keepLast or of a CronJob that the cache missed calls the           *)
(* controller.  Then exactly the CronJobs asked for are there, suspended or *)
(* not as the policy and its source say, with the keepLast of today.        *)
CronJobsFollow ==
    <>[]Resolves /\ []<><<Resync>>_vars =>
        <>[](/\ Scheduled = policy.refs
             /\ \A s \in Scheduled : cron[s].suspend = Halted /\ cron[s].keep = keep)
=============================================================================
