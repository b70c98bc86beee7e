--------------------------- MODULE Configuration ---------------------------
(***************************************************************************)
(* The objects that only configure - addons, sources, storages, retention  *)
(* policies, notification endpoints -, the controllers that report their   *)
(* status, and the use that JobObserver makes of them: it finds a scheduled*)
(* run's source and storage by the labels of the native Job.               *)
(*                                                                         *)
(* Every controller reads the informers' cache, which follows the API      *)
(* server at its own pace, and status is written as a merge patch against  *)
(* what was read, without a resource version.                              *)
(***************************************************************************)
EXTENDS Naming, Validation

CONSTANTS
    Addons, Sources, Storages, Retentions, Endpoints,   \* names of objects
    Deployed,          \* objects that are there, and settled, at the start
    Editable,          \* objects that users create, change and delete
    SpecsOf,           \* the specs a user gives to objects of each kind
    Runs,              \* native Jobs that CronJobs start
    RetentionOf,       \* the retention that each policy names
    MaxRuns, MaxEdits

Named(kind, names) == {<<kind, n>> : n \in names}

Objects == Named("BackupAddon", Addons) \cup Named("BackupSource", Sources)
             \cup Named("BackupStorage", Storages) \cup Named("RetentionPolicy", Retentions)
             \cup Named("NotificationEndpoint", Endpoints)

Source(name)  == <<"BackupSource", name>>
Storage(name) == <<"BackupStorage", name>>

ASSUME ConfigurationAssumption ==
    /\ MaxRuns \in Nat /\ MaxEdits \in Nat
    /\ Deployed \subseteq Objects /\ Editable \subseteq Objects
    /\ \A r \in Runs : r.source \in Sources /\ r.storage \in Storages
                        /\ r.policy \in DOMAIN RetentionOf
    /\ \A o \in Objects : None \notin SpecsOf[o[1]]
    /\ \A o \in Deployed : \E spec \in SpecsOf[o[1]] : Valid(o[1], spec)

(* Names are sequences of characters. *)
Names == Sources \cup Storages \cup DOMAIN RetentionOf

ASSUME NamesAssumption == \A n \in Names : n \in Seq(Range(n))

DefaultKeepLast == 3

VARIABLES
    stored,      \* the objects at the API server
    seen,        \* the objects in the cache
    events,      \* objects with a change the cache has yet to see
    due,         \* objects queued for their controller
    run,         \* what became of each native Job
    report,      \* what the messages of its latest Pod hold, {} without a Pod
    dueRuns,     \* native Jobs queued for JobObserver
    registered,  \* what was registered as Snapshots
    edits

vars == <<stored, seen, events, due, run, report, dueRuns, registered, edits>>

Fresh(spec) == [spec |-> spec, gen |-> 1, observed |-> 0, phase |-> "", probe |-> ""]

Gone == [spec |-> None, gen |-> 0, observed |-> 0, phase |-> "", probe |-> ""]

There(at, o) == at[o].spec # None

----------------------------------------------------------------------------
(* Users *)

(* An object is changed at the API server; the cache learns of it later.   *)
Store(o, object) ==
    /\ stored' = [stored EXCEPT ![o] = object]
    /\ events' = events \cup {o}

Apply(o) ==
    /\ o \in Editable /\ edits < MaxEdits
    /\ \E spec \in SpecsOf[o[1]] \ {stored[o].spec} :
          Store(o, IF There(stored, o)
                   THEN [stored[o] EXCEPT !.spec = spec, !.gen = @ + 1]
                   ELSE Fresh(spec))
    /\ edits' = edits + 1
    /\ UNCHANGED <<seen, due, run, report, dueRuns, registered>>

Delete(o) ==
    /\ o \in Editable /\ edits < MaxEdits
    /\ There(stored, o)
    /\ Store(o, Gone)
    /\ edits' = edits + 1
    /\ UNCHANGED <<seen, due, run, report, dueRuns, registered>>

----------------------------------------------------------------------------
(* The informers *)

(* For(...) without predicates: every change, of the status too, queues the *)
(* object for its own controller, and for no other.                        *)
Notice(o) ==
    /\ o \in events
    /\ seen' = [seen EXCEPT ![o] = stored[o]]
    /\ events' = events \ {o}
    /\ due' = due \cup {o}
    /\ UNCHANGED <<stored, run, report, dueRuns, registered, edits>>

Finished == {r \in Runs : run[r] \in {"succeeded", "failed"}}

(* Mutant of Resync: native Jobs are only heard of when they change. *)
ResyncWithoutRuns ==
    /\ due' = due \cup {o \in Objects : There(seen, o)}
    /\ UNCHANGED <<stored, seen, events, run, report, dueRuns, registered, edits>>

(* The informers' resync: all that is cached is queued again.              *)
Resync ==
    /\ due' = due \cup {o \in Objects : There(seen, o)}
    /\ dueRuns' = dueRuns \cup Finished
    /\ UNCHANGED <<stored, seen, events, run, report, registered, edits>>

----------------------------------------------------------------------------
(* The configuration controllers *)

(* What the controller of an object makes of its spec, with the objects    *)
(* found in at.                                                            *)
PhaseOf(at, o) ==
    LET spec == at[o].spec
    IN IF \/ ~Valid(o[1], spec)
          \/ o[1] = "BackupSource" /\ ~There(at, <<"BackupAddon", spec.addonRef>>)
       THEN "Failed"
       ELSE IF o[1] = "BackupSource" /\ spec.paused THEN "Paused" ELSE "Configured"

ProbeOf(o, object) ==
    IF o[1] = "BackupStorage" /\ object.probe = "" THEN "Unknown" ELSE object.probe

(* client.MergeFrom(base): only what differs from base is in the patch.    *)
Patched(object, base, status) ==
    [object EXCEPT
       !.observed = IF status.observed # base.observed THEN status.observed ELSE @,
       !.phase    = IF status.phase # base.phase THEN status.phase ELSE @,
       !.probe    = IF status.probe # base.probe THEN status.probe ELSE @]

(* Mutant of StatusOf: a generation that was observed is not looked at.    *)
StatusOfNewGeneration(o) ==
    LET base == seen[o]
    IN IF base.observed = base.gen THEN base
       ELSE [base EXCEPT !.observed = base.gen, !.phase = PhaseOf(seen, o), !.probe = ProbeOf(o, base)]

StatusOf(o) ==
    LET base == seen[o]
    IN [base EXCEPT !.observed = base.gen, !.phase = PhaseOf(seen, o), !.probe = ProbeOf(o, base)]

(* Mutant of WriteStatus: an object that is gone is written as well. *)
WriteStatusAnyway(o) ==
    LET object == Patched(stored[o], seen[o], StatusOf(o))
    IN /\ stored' = [stored EXCEPT ![o] = object]
       /\ events' = IF object # stored[o] THEN events \cup {o} ELSE events

(* The patch; NotFound is ignored, and one that changes nothing makes no   *)
(* event.  A source's LastValidatedTime, which changes from one second to   *)
(* the next, is left out: its event queues the source once more, as Resync  *)
(* may do at any time.                                                      *)
WriteStatus(o) ==
    LET object == Patched(stored[o], seen[o], StatusOf(o))
    IN IF ~There(stored, o) THEN UNCHANGED <<stored, events>>
       ELSE /\ stored' = [stored EXCEPT ![o] = object]
            /\ events' = IF object # stored[o] THEN events \cup {o} ELSE events

Reconcile(o) ==
    /\ o \in due
    /\ due' = due \ {o}
    /\ IF There(seen, o) THEN WriteStatus(o) ELSE UNCHANGED <<stored, events>>
    /\ UNCHANGED <<seen, run, report, dueRuns, registered, edits>>

----------------------------------------------------------------------------
(* JobObserver and the probe results *)

(* updateBackupStorageProbe: an update of what the cache holds, which the  *)
(* API server takes only if the cache is current.                          *)
Current(o) == There(stored, o) /\ o \notin events

Probed(object) == [object EXCEPT !.observed = object.gen, !.probe = "Succeeded"]

(* A BackupJob or a RestoreJob ends; they name their storage themselves.   *)
RecordProbe(s) ==
    /\ Current(Storage(s))
    /\ stored[Storage(s)] # Probed(stored[Storage(s)])
    /\ Store(Storage(s), Probed(stored[Storage(s)]))
    /\ UNCHANGED <<seen, due, run, report, dueRuns, registered, edits>>

(* The Job ends, and its latest Pod reports in termination messages: the    *)
(* preflight the result of its probe, and then the upload its artifact.     *)
(* The report may break off before either; a failed run's artifact is       *)
(* ignored.                                                                 *)
RunEnds(r) ==
    /\ run[r] = "running"
    /\ \/ run' = [run EXCEPT ![r] = "succeeded"]
          /\ \E messages \in {{}, {"probe"}, {"probe", "artifact"}} : report' = [report EXCEPT ![r] = messages]
       \/ run' = [run EXCEPT ![r] = "failed"]
          /\ \E messages \in SUBSET {"probe"} : report' = [report EXCEPT ![r] = messages]
    /\ dueRuns' = dueRuns \cup {r}
    /\ UNCHANGED <<stored, seen, events, due, registered, edits>>

(* The Pod is deleted - with its node, by a user -, and the Job stays.     *)
LosePod(r) ==
    /\ report[r] # {}
    /\ report' = [report EXCEPT ![r] = {}]
    /\ UNCHANGED <<stored, seen, events, due, run, dueRuns, registered, edits>>

(* Kubernetes collects it after its TTL, or as the CronJob's history grows, *)
(* and its Pods with it.                                                   *)
CollectRun(r) ==
    /\ r \in Finished
    /\ run' = [run EXCEPT ![r] = "collected"]
    /\ report' = [report EXCEPT ![r] = {}]
    /\ UNCHANGED <<stored, seen, events, due, dueRuns, registered, edits>>

(* The names that label an execution, and their labels. *)
Labels == [n \in Names |-> BuildLabelValue(n)]

(* Mutant of Labelled: objects are selected by their label. *)
LabelledAlike(names, name) == {n \in names : Labels[n] = Labels[name]}

(* The label of name is taken for an object's name. *)
Labelled(names, name) == {n \in names : n = Labels[name]}

SourcesFound(r)  == {n \in Labelled(Sources, r.source) : There(seen, Source(n))}
StoragesFound(r) == {n \in Labelled(Storages, r.storage) : There(seen, Storage(n))}

(* effectiveSuccessfulKeepLast: an unset one gives the default. *)
KeepOf(retention) ==
    IF retention.spec.successfulSnapshots > 0
    THEN retention.spec.successfulSnapshots ELSE DefaultKeepLast

(* keepLast, through the policy that the label names; the default, where it *)
(* or its retention cannot be found.                                        *)
KeepLast(r) ==
    LET policies   == Labelled(DOMAIN RetentionOf, r.policy)
        retentions == {t \in {<<"RetentionPolicy", RetentionOf[p]>> : p \in policies} :
                         t \in Objects /\ There(seen, t)}
    IN IF retentions = {} THEN DefaultKeepLast
       ELSE KeepOf(seen[CHOOSE t \in retentions : TRUE])

Registration(r, source, storage) ==
    [run |-> r, source |-> source, storage |-> storage, keep |-> KeepLast(r)]

(* updateBackupStorageProbe, on behalf of a finished run. *)
ProbeFor(storage) ==
    LET o == Storage(storage)
    IN /\ Current(o)
       /\ IF stored[o] = Probed(stored[o]) THEN UNCHANGED <<stored, events>>
          ELSE Store(o, Probed(stored[o]))

(* A finished run is recorded: its storage's probe result, and then, if it *)
(* succeeded, its Snapshot, each if the Pod reports it.  Whatever the Pod   *)
(* does not report is not asked for again.                                 *)
Observe(r) ==
    /\ r \in dueRuns /\ r \in Finished
    /\ \E source \in SourcesFound(r), storage \in StoragesFound(r) :
          /\ IF "probe" \in report[r] THEN ProbeFor(storage) ELSE UNCHANGED <<stored, events>>
          /\ registered' = IF run[r] = "succeeded" /\ "artifact" \in report[r]
                           THEN registered \cup {Registration(r, source, storage)}
                           ELSE registered
    /\ dueRuns' = dueRuns \ {r}
    /\ UNCHANGED <<seen, due, run, report, edits>>

(* The registration fails after the probe result; the run stays queued.    *)
ObserveHalf(r) ==
    /\ r \in dueRuns /\ run[r] = "succeeded"
    /\ report[r] = {"probe", "artifact"}
    /\ SourcesFound(r) # {}
    /\ \E storage \in StoragesFound(r) : ProbeFor(storage)
    /\ UNCHANGED <<seen, due, run, report, dueRuns, registered, edits>>

(* NotFound - of the run, its source or its storage - ends the matter.     *)
Drop(r) ==
    /\ r \in dueRuns
    /\ r \notin Finished \/ SourcesFound(r) = {} \/ StoragesFound(r) = {}
    /\ dueRuns' = dueRuns \ {r}
    /\ UNCHANGED <<stored, seen, events, due, run, report, registered, edits>>

----------------------------------------------------------------------------
(* Long there: its controller has seen it, and jobs have used it.          *)
Settled(o) ==
    [Fresh(CHOOSE spec \in SpecsOf[o[1]] : Valid(o[1], spec)) EXCEPT
       !.observed = 1, !.phase = "Configured",
       !.probe = IF o[1] = "BackupStorage" THEN "Succeeded" ELSE ""]

Init ==
    /\ stored = [o \in Objects |-> IF o \in Deployed THEN Settled(o) ELSE Gone]
    /\ seen = stored
    /\ events = {} /\ due = {}
    /\ run \in [Runs -> {"running", "collected"}]
    /\ Cardinality({r \in Runs : run[r] = "running"}) = MaxRuns
    /\ report = [r \in Runs |-> {}]
    /\ dueRuns = {}
    /\ registered = {}
    /\ edits = 0

Next ==
    \/ \E o \in Objects : Apply(o) \/ Delete(o) \/ Notice(o) \/ Reconcile(o)
    \/ Resync
    \/ \E s \in Storages : RecordProbe(s)
    \/ \E r \in Runs : RunEnds(r) \/ LosePod(r) \/ CollectRun(r)
                       \/ Observe(r) \/ ObserveHalf(r) \/ Drop(r)

Fairness ==
    /\ \A o \in Objects : WF_vars(Notice(o)) /\ WF_vars(Reconcile(o))
    /\ \A r \in Runs : WF_vars(Observe(r) \/ Drop(r))

Spec == Init /\ [][Next]_vars /\ Fairness

----------------------------------------------------------------------------
(* Each object and its status.  What is gone has no status.                *)
Probes(o) == IF o[1] = "BackupStorage" THEN {"", "Unknown", "Succeeded"} ELSE {""}

Present(o) ==
    [spec : SpecsOf[o[1]], gen : 1..(edits + 1), observed : 0..(edits + 1),
     phase : {"", "Failed", "Paused", "Configured"},
     probe : Probes(o)]

TypeOK ==
    /\ edits \in 0..MaxEdits
    /\ \A at \in {stored, seen} :
          /\ at = [o \in Objects |-> at[o]]
          /\ \A o \in Objects : at[o] = Gone \/ at[o] \in Present(o)
    /\ events \subseteq Objects /\ due \subseteq Objects
    /\ \A o \in Objects : o \in events \/ seen[o] = stored[o]
    /\ run \in [Runs -> {"running", "succeeded", "failed", "collected"}]
    /\ report \in [Runs -> SUBSET {"probe", "artifact"}]
    /\ \A r \in Runs : r \in Finished \/ report[r] = {}
    /\ dueRuns \subseteq Runs
    /\ \A g \in registered : g.run \in Runs

(* As long as caches are resynced, the status of every object finally says, *)
(* for good, what its spec, and for a source the presence of its addon,     *)
(* amount to: although patches are made against what the cache held, a      *)
(* probe result marks a generation as observed that no controller has       *)
(* looked at, and nothing queues a source when its addon comes or goes.     *)
(* Nor do jobs and the storage controller fight over a probe result, which  *)
(* the controller may take back, having read the storage before the probe.  *)
StatusFollows ==
    []<><<Resync>>_vars =>
      /\ <>[](\A o \in Objects : There(stored, o) =>
                stored[o].observed = stored[o].gen /\ stored[o].phase = PhaseOf(stored, o))
      /\ <>[][UNCHANGED stored]_vars

(* Retention policies that are there and stay as they are. *)
Lasting == {o \in Deployed \ Editable : o[1] = "RetentionPolicy"}

(* Where names are labels of themselves, what is registered is what ran:    *)
(* the source and the storage of a Snapshot are those of its run, and it is *)
(* pruned by the retention that its policy names, if that one stays.  Of a  *)
(* run on a.b nothing is said: its label is a-b, and it is registered for   *)
(* the storage a-b if there is one, and not at all if there is none.        *)
RegisteredAsRun ==
    \A g \in registered :
        /\ IsPlain(g.run.source) => g.source = g.run.source
        /\ IsPlain(g.run.storage) => g.storage = g.run.storage
        /\ LET retention == <<"RetentionPolicy", RetentionOf[g.run.policy]>>
           IN IsPlain(g.run.policy) /\ retention \in Lasting =>
                g.keep = KeepOf(Settled(retention))

(* A run that succeeded is registered unless Kubernetes collects it, or its *)
(* Pod, first: if its Pod stays with a legible artifact summary - without   *)
(* one there is no Snapshot and no second attempt -, its source and storage *)
(* are there to stay, their names are labels of themselves, and caches are  *)
(* resynced.                                                                *)
RunsRegistered ==
    \A r \in Runs :
        /\ IsPlain(r.source) /\ IsPlain(r.storage)
        /\ []<><<Resync>>_vars
        /\ <>[](/\ run[r] = "succeeded" /\ "artifact" \in report[r]
                /\ There(stored, Source(r.source)) /\ There(stored, Storage(r.storage)))
        => []<>(\E g \in registered : g.run = r)
=============================================================================
