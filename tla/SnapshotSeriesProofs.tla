------------------------ MODULE SnapshotSeriesProofs ------------------------
(***************************************************************************)
(* Machine-checked proofs about SnapshotSeries, for any runs, any          *)
(* retention and any number of faults, restarts and re-created Snapshots:  *)
(* the types, the protection of artifacts, what cleanups spare, and what   *)
(* retention leaves when the passes of two workers interleave.             *)
(***************************************************************************)
EXTENDS SnapshotSeries, FiniteSetTheorems, WellFoundedInduction, TLAPS

----------------------------------------------------------------------------
(* Type correctness *)

(* The values objects and locals start from have the types declared.        *)
LEMMA DefaultTypes ==
    /\ NoSnapshot \in Snapshot /\ ~NoSnapshot.ready /\ ~NoSnapshot.finalizer
    /\ ~NoSnapshot.deleting
    /\ NoCleanup \in Cleanup /\ NoCleanup.state = "none"
    /\ Idle \in Worker /\ Idle.pc = "idle" /\ Idle.run = 0 /\ Idle.todo = {}
    BY DEF NoSnapshot, Snapshot, NoCleanup, Cleanup, Idle, Worker

(* What the steps of the controllers and the API server make of a Snapshot. *)
Marked(s) == [s EXCEPT !.ready = TRUE, !.latest = TRUE, !.created = 0]

LEMMA SnapshotTypes ==
    ASSUME NEW s \in Snapshot
    PROVE  /\ Deleted(s) \in Snapshot /\ Released(s) \in Snapshot
           /\ Marked(s) \in Snapshot
           /\ Marked(s).ready /\ Marked(s).finalizer = s.finalizer
           /\ Marked(s).deleting = s.deleting /\ Marked(s).born = s.born
           /\ [s EXCEPT !.finalizer = TRUE] \in Snapshot
           /\ [s EXCEPT !.finalizer = TRUE].finalizer
           /\ [s EXCEPT !.finalizer = TRUE].ready = s.ready
    BY DefaultTypes DEF Marked, Deleted, Released, Snapshot

LEMMA LatestType ==
    ASSUME NEW s \in Snapshot, NEW b \in BOOLEAN
    PROVE  /\ [s EXCEPT !.latest = b] \in Snapshot
           /\ [s EXCEPT !.latest = b].ready = s.ready
           /\ [s EXCEPT !.latest = b].finalizer = s.finalizer
           /\ [s EXCEPT !.latest = b].deleting = s.deleting
    BY DEF Snapshot

LEMMA BornType ==
    ASSUME NEW born \in Nat, NEW created \in Nat
    PROVE  /\ [NoSnapshot EXCEPT !.born = born, !.created = created] \in Snapshot
           /\ ~[NoSnapshot EXCEPT !.born = born, !.created = created].finalizer
    BY DEF NoSnapshot, Snapshot

(* Time and ranks are numbers, as there are finitely many runs.             *)
LEMMA NowType == Now \in Nat
<1>1. IsFiniteSet(Completed)
  BY SeriesAssumption, FS_Subset DEF Completed
<1>2. Cardinality(Completed) \in Nat
  BY <1>1, FS_CardinalityType
<1>3. QED
  BY <1>2 DEF Now

LEMMA RankType == \A k : Rank(k) \in Nat
<1> SUFFICES ASSUME NEW k PROVE Rank(k) \in Nat
  OBVIOUS
<1>1. {m \in Listed : Newer(m, k)} \subseteq Runs
  BY DEF Listed
<1>2. IsFiniteSet({m \in Listed : Newer(m, k)})
  BY <1>1, SeriesAssumption, FS_Subset
<1>3. QED
  BY <1>2, FS_CardinalityType DEF Rank

LEMMA PassType == \A i : PassFor(i) \subseteq Todo
<1> SUFFICES ASSUME NEW i, NEW t \in PassFor(i) PROVE t \in Todo
  OBVIOUS
<1>1. PICK k \in Listed, op \in Ops : t = [run |-> k, rank |-> Rank(k), op |-> op]
  BY DEF PassFor, Ops
<1>2. k \in Runs /\ Rank(k) \in Nat
  BY <1>1, RankType DEF Listed
<1>3. QED
  BY <1>1, <1>2 DEF Todo

(* The part of the type invariant about the reconciles.                     *)
WorkersOK ==
    /\ worker \in [Workers -> Worker]
    /\ \A w \in Workers :
          /\ (worker[w].pc = "idle") <=> (worker[w].run = 0)
          /\ (worker[w].pc = "series") <=> (worker[w].todo # {})

LEMMA ReturnTypes == ASSUME WorkersOK, NEW w \in Workers, Return(w) PROVE WorkersOK'
    BY DefaultTypes DEF WorkersOK, Return

LEMMA GotoTypes ==
    ASSUME WorkersOK, NEW w \in Workers, NEW p \in {"ready", "list"}, Goto(w, p),
           worker[w].pc \in {"persist", "ready"}
    PROVE  WorkersOK'
<1>1. worker[w] \in Worker /\ worker[w].run # 0 /\ worker[w].todo = {}
  BY DEF WorkersOK
<1>2. LET r == [worker[w] EXCEPT !.pc = p] IN
      r \in Worker /\ r.pc = p /\ r.run # 0 /\ r.todo = {}
  BY <1>1 DEF Worker
<1>3. QED
  BY <1>2 DEF WorkersOK, Goto

LEMMA ProceedTypes ==
    ASSUME WorkersOK, passed \subseteq Runs, NEW w \in Workers,
           worker[w].pc \in {"list", "series"},
           NEW todo \in SUBSET Todo, Proceed(w, todo)
    PROVE  WorkersOK' /\ passed' \subseteq Runs
<1>1. worker[w] \in Worker /\ worker[w].run # 0 /\ worker[w].run \in Runs
  BY DEF WorkersOK, Worker
<1>2. CASE todo = {}
  BY <1>1, <1>2, ReturnTypes DEF Proceed
<1>3. CASE todo # {}
  <2>1. LET r == [worker[w] EXCEPT !.pc = "series", !.todo = todo] IN
        r \in Worker /\ r.pc = "series" /\ r.run # 0 /\ r.todo # {}
    BY <1>1, <1>3 DEF Worker
  <2>2. worker' = [worker EXCEPT ![w] = [worker[w] EXCEPT !.pc = "series", !.todo = todo]]
    BY <1>3 DEF Proceed
  <2>3. QED
    BY <1>3, <2>1, <2>2 DEF WorkersOK, Proceed
<1>4. QED
  BY <1>2, <1>3

(* What a step leaves of the type invariant beside the reconciles.          *)
Rest ==
    /\ storage \in BOOLEAN
    /\ job \in [Runs -> JobStates]
    /\ doneAt \in [Runs -> Nat]
    /\ files \subseteq Runs
    /\ snaps \in [Runs -> Snapshot]
    /\ view \in [Runs -> Snapshot]
    /\ births \in [Runs -> Nat]
    /\ cleanup \in [Runs -> Cleanup]
    /\ faults \in Nat
    /\ passed \subseteq Runs
    /\ guarded \subseteq Runs

LEMMA TypeParts == (TypeOK <=> Rest /\ WorkersOK) /\ (TypeOK' <=> Rest' /\ WorkersOK')
    BY DEF TypeOK, Rest, WorkersOK

LEMMA RegisterTypes ==
    ASSUME TypeOK, NEW w \in Workers, Register(w) PROVE TypeOK'
<1> USE TypeParts
<1>1. /\ Rest /\ WorkersOK /\ worker[w] \in Worker
      /\ worker[w].pc # "idle" => worker[w].run \in Runs
  BY DEF WorkersOK, Worker
<1>2. CASE PersistSnapshot(w)
  <2> DEFINE i == worker[w].run
  <2>1. i \in Runs /\ births[i] + 1 \in Nat
    BY <1>1, <1>2 DEF PersistSnapshot, Rest
  <2>2. CASE ~There(view[i]) /\ ~There(snaps[i]) /\ MayBeBorn(i)
    <3>1. PICK time \in {Now, Now + 1} :
            snaps' = [snaps EXCEPT ![i] =
               [NoSnapshot EXCEPT !.born = births[i] + 1, !.created = time]]
      BY <1>2, <2>2 DEF PersistSnapshot
    <3>2. time \in Nat
      BY NowType
    <3>3. snaps' \in [Runs -> Snapshot]
      BY <1>1, <2>1, <3>1, <3>2, BornType DEF Rest
    <3>4. births' \in [Runs -> Nat] /\ passed' \subseteq Runs
      BY <1>1, <1>2, <2>1, <2>2 DEF PersistSnapshot, Rest
    <3>5. Rest'
      BY <1>1, <1>2, <3>3, <3>4 DEF PersistSnapshot, Rest
    <3>6. WorkersOK'
      BY <1>1, <1>2, <2>2, GotoTypes DEF PersistSnapshot
    <3>7. QED
      BY <3>5, <3>6
  <2>3. CASE ~(~There(view[i]) /\ ~There(snaps[i]) /\ MayBeBorn(i))
    <3>1. Rest'
      BY <1>1, <1>2, <2>3 DEF PersistSnapshot, Rest
    <3>2. WorkersOK'
      BY <1>1, <1>2, <2>3, GotoTypes, ReturnTypes DEF PersistSnapshot
    <3>3. QED
      BY <3>1, <3>2
  <2>4. QED
    BY <2>2, <2>3
<1>3. CASE MarkSnapshotReady(w)
  <2>1. worker[w].run \in Runs
    BY <1>1, <1>3 DEF MarkSnapshotReady
  <2>2. snaps' \in [Runs -> Snapshot]
    <3> DEFINE s == snaps[worker[w].run]
    <3>1. s \in Snapshot
      BY <1>1, <2>1 DEF Rest
    <3>2. Marked(s) \in Snapshot
      BY <3>1, SnapshotTypes
    <3>3. UNCHANGED snaps \/ snaps' = [snaps EXCEPT ![worker[w].run] = Marked(s)]
      BY <1>3 DEF MarkSnapshotReady, Marked
    <3>4. snaps \in [Runs -> Snapshot]
      BY <1>1 DEF Rest
    <3>5. QED
      BY <2>1, <3>2, <3>3, <3>4
  <2>3. WorkersOK'
    BY <1>1, <1>3, GotoTypes, ReturnTypes DEF MarkSnapshotReady
  <2>4. Rest'
    BY <1>1, <1>3, <2>2 DEF MarkSnapshotReady, Rest
  <2>5. QED
    BY <2>3, <2>4
<1>4. CASE ListSeries(w)
  <2>1. WorkersOK' /\ passed' \subseteq Runs
    BY <1>1, <1>4, PassType, ProceedTypes DEF ListSeries, Rest
  <2>2. QED
    BY <1>1, <1>4, <2>1 DEF ListSeries, Rest
<1>5. CASE SeriesStep(w)
  <2>1. PICK t \in worker[w].todo :
          /\ worker[w].pc = "series"
          /\ \/ /\ t.op = "delete"
                /\ snaps' = [snaps EXCEPT ![t.run] = Deleted(@)]
                /\ Proceed(w, worker[w].todo \ {t})
             \/ /\ t.op # "delete"
                /\ snaps' = [snaps EXCEPT ![t.run].latest = (t.op = "mark")]
                /\ Proceed(w, worker[w].todo \ {t})
             \/ Return(w) /\ UNCHANGED <<snaps, passed>>
    BY <1>5 DEF SeriesStep
  <2>2. t.run \in Runs /\ (worker[w].todo \ {t}) \in SUBSET Todo
    BY <1>1, <2>1 DEF Worker, Todo
  <2>3. snaps' \in [Runs -> Snapshot]
    <3>1. snaps[t.run] \in Snapshot
      BY <1>1, <2>2 DEF Rest
    <3>2. Deleted(snaps[t.run]) \in Snapshot
      BY <3>1, SnapshotTypes
    <3>3. PICK b \in BOOLEAN : b = (t.op = "mark")
      OBVIOUS
    <3>4. [snaps[t.run] EXCEPT !.latest = b] \in Snapshot
      BY <3>1, LatestType
    <3>5. CASE snaps' = [snaps EXCEPT ![t.run].latest = (t.op = "mark")]
      BY <1>1, <2>2, <3>3, <3>4, <3>5 DEF Rest
    <3>6. QED
      BY <1>1, <2>1, <2>2, <3>2, <3>5 DEF Rest
  <2>4. WorkersOK' /\ passed' \subseteq Runs
    BY <1>1, <2>1, <2>2, ProceedTypes, ReturnTypes DEF Rest
  <2>5. QED
    BY <1>1, <1>5, <2>3, <2>4 DEF SeriesStep, Rest
<1>6. QED
  BY <1>2, <1>3, <1>4, <1>5 DEF Register

LEMMA BeginTypes == ASSUME TypeOK, NEW i \in Runs, Begin(i) PROVE TypeOK'
<1> DEFINE r == [pc |-> "persist", run |-> i, todo |-> {}]
           w == WorkerOf(i)
<1>1. w \in Workers /\ r \in Worker /\ r.pc = "persist" /\ r.run # 0 /\ r.todo = {}
  BY SeriesAssumption DEF WorkerOf, Workers, Worker
<1>2. worker' = [worker EXCEPT ![w] = r]
  BY DEF Begin
<1>3. WorkersOK'
  BY <1>1, <1>2, TypeParts DEF WorkersOK
<1>4. Rest'
  BY TypeParts DEF Begin, Rest
<1>5. QED
  BY <1>3, <1>4, TypeParts

(* A script removes, at most, what it is to remove; on NFS exactly that.    *)
LEMMA LeftWithin ==
    \A wanted, stored : \A kept \in Left(wanted, stored) :
        /\ wanted \subseteq kept /\ kept \subseteq wanted \cup stored
        /\ Backend = "nfs" => kept = wanted
    BY DEF Left

LEMMA UploadWithin == ASSUME NEW i, Upload(i) PROVE files' \subseteq files \cup {i}
<1>1. PICK wanted \in SUBSET (files \cup {i}) : files' \in Left(wanted, files \cup {i})
  BY DEF Upload
<1>2. QED
  BY <1>1, LeftWithin

(* Steps that leave the reconciles alone.                                   *)
Aside(i) ==
    \/ StartRun(i) \/ Upload(i) \/ CompleteRun(i) \/ LoseRun(i)
    \/ ReconcileSnapshot(i)
    \/ CompleteCleanup(i) \/ FailCleanup(i) \/ CollectCleanup(i)
    \/ DeleteSnapshot(i)

LEMMA AsideTypes == ASSUME TypeOK, NEW i \in Runs, Aside(i) PROVE TypeOK'
<1>1. Rest /\ WorkersOK
  BY TypeParts
<1>2. WorkersOK'
  BY <1>1 DEF Aside, StartRun, Upload, CompleteRun, LoseRun, ReconcileSnapshot, AddFinalizer,
     RemoveFinalizer, CreateCleanup, CompleteCleanup, FailCleanup, CollectCleanup,
     DeleteSnapshot, Alone, WorkersOK
<1>3. Rest'
  <2>1. CASE StartRun(i) \/ Upload(i) \/ LoseRun(i)
    <3>1. CASE Upload(i)
      <4>1. files' \subseteq files \cup {i}
        BY <3>1, UploadWithin
      <4>2. QED
        BY <1>1, <3>1, <4>1 DEF Upload, Rest, JobStates
    <3>2. CASE LoseRun(i)
      <4>1. faults + 1 \in Nat
        BY <1>1 DEF Rest
      <4>2. QED
        BY <1>1, <3>2, <4>1 DEF LoseRun, Rest, JobStates
    <3>3. QED
      BY <1>1, <2>1, <3>1, <3>2 DEF StartRun, Rest, JobStates
  <2>2. CASE CompleteRun(i)
    <3>1. Now + 2 \in Nat
      BY NowType
    <3>2. QED
      BY <1>1, <2>2, <3>1 DEF CompleteRun, Rest, JobStates
  <2>3. CASE AddFinalizer(i) \/ RemoveFinalizer(i) \/ DeleteSnapshot(i)
    <3>1. snaps' \in [Runs -> Snapshot]
      <4>1. snaps[i] \in Snapshot
        BY <1>1 DEF Rest
      <4>2. /\ Deleted(snaps[i]) \in Snapshot /\ Released(snaps[i]) \in Snapshot
            /\ [snaps[i] EXCEPT !.finalizer = TRUE] \in Snapshot
        BY <4>1, SnapshotTypes
      <4>3. QED
        BY <1>1, <2>3, <4>2 DEF AddFinalizer, RemoveFinalizer, DeleteSnapshot, Rest
    <3>2. QED
      BY <1>1, <2>3, <3>1 DEF AddFinalizer, RemoveFinalizer, DeleteSnapshot, Alone, Rest
  <2>4. CASE CreateCleanup(i)
    <3>1. [state |-> "active", owner |-> view[i].born] \in Cleanup
      BY <1>1 DEF Rest, Cleanup, Snapshot
    <3>2. QED
      BY <1>1, <2>4, <3>1 DEF CreateCleanup, Alone, Rest
  <2>5. CASE CompleteCleanup(i) \/ FailCleanup(i) \/ CollectCleanup(i)
    <3>1. cleanup' \in [Runs -> Cleanup]
      BY <1>1, <2>5, DefaultTypes
         DEF CompleteCleanup, FailCleanup, CollectCleanup, Rest, Cleanup
    <3>2. files' \subseteq files
      BY <2>5, LeftWithin DEF CompleteCleanup, FailCleanup, CollectCleanup
    <3>3. QED
      BY <1>1, <2>5, <3>1, <3>2 DEF CompleteCleanup, FailCleanup, CollectCleanup, Rest
  <2>6. QED
    BY <2>1, <2>2, <2>3, <2>4, <2>5 DEF Aside, ReconcileSnapshot
<1>4. QED
  BY <1>2, <1>3, TypeParts

LEMMA TypeStep == TypeOK /\ [Next]_vars => TypeOK'
<1> SUFFICES ASSUME TypeOK, [Next]_vars PROVE TypeOK'
  OBVIOUS
<1>1. Rest /\ WorkersOK
  BY TypeParts
<1>2. CASE Restart \/ Sync \/ DeleteStorage \/ CreateStorage
  <2>1. Rest'
    <3>1. faults + 1 \in Nat
      BY <1>1 DEF Rest
    <3>2. QED
      BY <1>1, <1>2, <3>1 DEF Restart, Sync, DeleteStorage, CreateStorage, Rest
  <2>2. WorkersOK'
    BY <1>1, <1>2, DefaultTypes
       DEF Restart, Sync, DeleteStorage, CreateStorage, WorkersOK
  <2>3. QED
    BY <2>1, <2>2, TypeParts
<1>3. ASSUME NEW w \in Workers, ApiError(w) PROVE TypeOK'
  <2>1. faults + 1 \in Nat
    BY <1>1 DEF Rest
  <2>2. Rest'
    BY <1>1, <1>3, <2>1 DEF ApiError, Rest
  <2>3. QED
    BY <1>1, <1>3, <2>2, ReturnTypes, TypeParts DEF ApiError
<1>4. CASE UNCHANGED vars
  BY <1>4 DEF vars, TypeOK
<1>5. QED
  BY <1>2, <1>3, <1>4, RegisterTypes, BeginTypes, AsideTypes DEF Next, Aside

(* The values stay in their types, and a pass is under way exactly as long  *)
(* as it has something left to do.                                          *)
THEOREM TypeCorrect == Spec => []TypeOK
<1>1. Init => TypeOK
  BY DefaultTypes DEF Init, TypeOK, JobStates
<1>2. QED
  BY <1>1, TypeStep, PTL DEF Spec

----------------------------------------------------------------------------
(* Protected artifacts *)

Ended(k) == job[k] \in {"done", "gone"}

(* All that is done for a Snapshot comes after the run: its artifact is     *)
(* uploaded only once.                                                      *)
RunsComeFirst ==
    /\ \A k \in Runs :
          \/ There(snaps[k]) \/ There(view[k])
          \/ cleanup[k].state # "none" \/ k \in guarded
          => Ended(k)
    /\ \A w \in Workers : worker[w].pc # "idle" => Ended(worker[w].run)

(* The cache has no Snapshot of a name other than the current one, unless   *)
(* it has gone; and the finalizer is for what is ready only.                *)
ReadyIsKept ==
    \A k \in Runs :
        /\ There(view[k]) /\ There(snaps[k]) /\ view[k].ready => snaps[k].ready
        /\ snaps[k].finalizer => snaps[k].ready
        /\ view[k].finalizer => view[k].ready

(* On NFS the finalizer guards an artifact as long as it is there.          *)
Guarded ==
    Backend = "nfs" =>
        /\ \A k \in Runs : cleanup[k].state = "complete" => k \notin files
        /\ \A k \in guarded : snaps[k].finalizer \/ k \notin files

Protected == RunsComeFirst /\ ReadyIsKept /\ Guarded

(* The ways in which registration, retention and users change a Snapshot    *)
(* that is there, and that in which it comes to be there.                   *)
Changes(s, t) ==
    \/ t = s
    \/ There(s) /\ t = Marked(s)
    \/ There(s) /\ \E b \in BOOLEAN : t = [s EXCEPT !.latest = b]
    \/ t = Deleted(s)

Creates(k) ==
    /\ ~There(snaps[k]) /\ ~There(view[k]) /\ Ended(k)
    /\ ~snaps'[k].finalizer

LEMMA ChangesKeep ==
    ASSUME NEW s \in Snapshot, NEW t \in Snapshot, Changes(s, t)
    PROVE  /\ There(t) => There(s) /\ (s.ready => t.ready) /\ (s.deleting => t.deleting)
           /\ There(t) => (t.finalizer <=> s.finalizer)
           /\ s.finalizer => t.finalizer
           /\ (s.finalizer => s.ready) => (t.finalizer => t.ready)
<1>1. CASE There(s) /\ t = Marked(s)
  BY <1>1, SnapshotTypes
<1>2. ASSUME NEW b \in BOOLEAN, There(s), t = [s EXCEPT !.latest = b]
      PROVE  /\ s.ready = t.ready /\ s.deleting = t.deleting
             /\ s.finalizer = t.finalizer
  BY <1>2, LatestType
<1>3. CASE t = Deleted(s)
  <2>1. CASE s.finalizer
    <3>1. t.ready = s.ready /\ t.finalizer = s.finalizer /\ t.deleting
      BY <1>3, <2>1 DEF Deleted, Snapshot
    <3>2. There(s)
      BY <2>1, DefaultTypes DEF There
    <3>3. QED
      BY <3>1, <3>2
  <2>2. CASE ~s.finalizer
    BY <1>3, <2>2, DefaultTypes DEF Deleted, There
  <2>3. QED
    BY <2>1, <2>2
<1>4. QED
  BY <1>1, <1>2, <1>3 DEF Changes

(* Any such step keeps the artifacts protected.                             *)
LEMMA WritesKeepProtected ==
    ASSUME TypeOK, TypeOK', Protected,
           \A k \in Runs : Changes(snaps[k], snaps'[k]) \/ Creates(k),
           UNCHANGED <<job, files, view, cleanup, guarded>>,
           \A w \in Workers : worker'[w].pc # "idle" => Ended(worker'[w].run)
    PROVE  Protected'
<1>1. \A k \in Runs : /\ snaps[k] \in Snapshot /\ snaps'[k] \in Snapshot
                      /\ view[k] \in Snapshot
  BY DEF TypeOK
<1>2. RunsComeFirst'
  BY <1>1, ChangesKeep DEF Protected, RunsComeFirst, Ended, Creates
<1>3. ReadyIsKept'
  BY <1>1, ChangesKeep DEF Protected, ReadyIsKept, Creates
<1>4. Guarded'
  <2>1. \A k \in Runs : snaps[k].finalizer => snaps'[k].finalizer
    BY <1>1, ChangesKeep, DefaultTypes DEF Creates, There
  <2>2. guarded \subseteq Runs
    BY DEF TypeOK
  <2>3. QED
    BY <2>1, <2>2 DEF Protected, Guarded
<1>5. QED
  BY <1>2, <1>3, <1>4 DEF Protected

(* A step of a reconcile, of whichever worker.                              *)
LEMMA WorkerSteps ==
    ASSUME TypeOK, NEW w \in Workers, Register(w)
    PROVE  /\ \A v \in Workers \ {w} : worker'[v] = worker[v]
           /\ worker[w].pc # "idle" /\ worker[w].run \in Runs
           /\ worker'[w].pc # "idle" => worker'[w].run = worker[w].run
           /\ passed' \subseteq passed \cup {worker[w].run}
<1>1. /\ worker \in [Workers -> Worker] /\ worker[w] \in Worker /\ worker[w].pc # "idle"
      /\ worker[w].run \in Runs
  BY DEF TypeOK, Worker, Register, PersistSnapshot, MarkSnapshotReady, ListSeries, SeriesStep
<1>2. \/ Return(w)
      \/ \E p \in {"ready", "list"} : Goto(w, p)
      \/ \E todo : worker' = [worker EXCEPT ![w].pc = "series", ![w].todo = todo]
  BY DEF Register, PersistSnapshot, MarkSnapshotReady, ListSeries, SeriesStep, Proceed
<1>3. /\ \A v \in Workers \ {w} : worker'[v] = worker[v]
      /\ worker'[w].pc # "idle" => worker'[w].run = worker[w].run
  <2>1. CASE Return(w)
    BY <1>1, <2>1, DefaultTypes DEF Return
  <2>2. ASSUME NEW p, Goto(w, p)
        PROVE  /\ \A v \in Workers \ {w} : worker'[v] = worker[v]
               /\ worker'[w].run = worker[w].run
    BY <1>1, <2>2 DEF Goto, Worker
  <2>3. ASSUME NEW todo, worker' = [worker EXCEPT ![w].pc = "series", ![w].todo = todo]
        PROVE  /\ \A v \in Workers \ {w} : worker'[v] = worker[v]
               /\ worker'[w].run = worker[w].run
    BY <1>1, <2>3 DEF Worker
  <2>4. QED
    BY <1>2, <2>1, <2>2, <2>3
<1>4. passed' \subseteq passed \cup {worker[w].run}
  BY DEF Register, PersistSnapshot, MarkSnapshotReady, ListSeries, SeriesStep, Proceed
<1>5. QED
  BY <1>1, <1>3, <1>4

LEMMA WorkerEnds ==
    ASSUME TypeOK, Protected, NEW w \in Workers, Register(w)
    PROVE  \A v \in Workers : worker'[v].pc # "idle" => Ended(worker'[v].run)
<1>1. UNCHANGED job
  BY DEF Register, PersistSnapshot, MarkSnapshotReady, ListSeries, SeriesStep
<1>2. QED
  BY <1>1, WorkerSteps DEF Protected, RunsComeFirst, Ended

(* What registration writes is what Changes and Creates allow.              *)
LEMMA RegisterChanges ==
    ASSUME TypeOK, RunsComeFirst, NEW w \in Workers, Register(w)
    PROVE  /\ UNCHANGED <<job, files, view, cleanup, guarded>>
           /\ \A k \in Runs : Changes(snaps[k], snaps'[k]) \/ Creates(k)
<1>1. UNCHANGED <<job, files, view, cleanup, guarded>>
  BY DEF Register, PersistSnapshot, MarkSnapshotReady, ListSeries, SeriesStep
<1>2. /\ worker[w] \in Worker /\ worker[w].pc # "idle" /\ Ended(worker[w].run)
      /\ worker[w].run \in Runs /\ snaps \in [Runs -> Snapshot]
  BY DEF TypeOK, Worker, Register, PersistSnapshot, MarkSnapshotReady, ListSeries,
         SeriesStep, RunsComeFirst
<1> DEFINE i == worker[w].run
<1>3. CASE UNCHANGED snaps
  BY <1>1, <1>3 DEF Changes
<1>4. CASE PersistSnapshot(w) /\ snaps' # snaps
  <2>1. PICK time \in {Now, Now + 1} :
          snaps' = [snaps EXCEPT ![i] =
             [NoSnapshot EXCEPT !.born = births[i] + 1, !.created = time]]
    BY <1>4 DEF PersistSnapshot
  <2>2. time \in Nat /\ births[i] + 1 \in Nat
    BY <1>2, NowType DEF TypeOK
  <2>3. snaps'[i] = [NoSnapshot EXCEPT !.born = births[i] + 1, !.created = time]
    BY <1>2, <2>1
  <2>4. ~snaps'[i].finalizer
    BY <2>2, <2>3, BornType
  <2>5. ~There(view[i]) /\ ~There(snaps[i])
    BY <1>4 DEF PersistSnapshot
  <2>6. \A k \in Runs \ {i} : snaps'[k] = snaps[k]
    BY <1>2, <2>1
  <2>7. QED
    BY <1>1, <1>2, <2>4, <2>5, <2>6 DEF Changes, Creates
<1>5. CASE MarkSnapshotReady(w) /\ snaps' # snaps
  <2>1. There(snaps[i])
    BY <1>5 DEF MarkSnapshotReady
  <2>2. snaps' = [snaps EXCEPT ![i] = Marked(snaps[i])]
    BY <1>5 DEF MarkSnapshotReady, Marked
  <2>3. QED
    BY <1>1, <1>2, <2>1, <2>2 DEF Changes
<1>6. CASE SeriesStep(w) /\ snaps' # snaps
  <2>1. PICK t \in worker[w].todo :
          \/ snaps' = [snaps EXCEPT ![t.run] = Deleted(@)]
          \/ /\ There(snaps[t.run])
             /\ snaps' = [snaps EXCEPT ![t.run].latest = (t.op = "mark")]
    BY <1>6 DEF SeriesStep
  <2>2. t.run \in Runs
    BY <1>2 DEF Worker, Todo
  <2>3. CASE snaps' = [snaps EXCEPT ![t.run] = Deleted(@)]
    BY <1>1, <1>2, <2>2, <2>3 DEF Changes
  <2>4. CASE /\ There(snaps[t.run])
             /\ snaps' = [snaps EXCEPT ![t.run].latest = (t.op = "mark")]
    <3>1. PICK b \in BOOLEAN : b = (t.op = "mark")
      OBVIOUS
    <3>2. snaps' = [snaps EXCEPT ![t.run] = [snaps[t.run] EXCEPT !.latest = b]]
      BY <2>4, <3>1
    <3>3. QED
      BY <1>1, <1>2, <2>2, <2>4, <3>2 DEF Changes
  <2>5. QED
    BY <2>1, <2>3, <2>4
<1>7. QED
  BY <1>1, <1>3, <1>4, <1>5, <1>6 DEF Register, ListSeries

LEMMA RegisterKeepsProtected ==
    ASSUME TypeOK, TypeOK', Protected, NEW w \in Workers, Register(w) PROVE Protected'
<1>1. RunsComeFirst
  BY DEF Protected
<1>2. QED
  BY <1>1, RegisterChanges, WorkerEnds, WritesKeepProtected

(* The runs themselves: an upload is over before anything else begins.      *)
LEMMA RunsKeepProtected ==
    ASSUME TypeOK, TypeOK', Protected, NEW i \in Runs,
           StartRun(i) \/ Upload(i) \/ CompleteRun(i) \/ LoseRun(i)
    PROVE  Protected'
<1>1. UNCHANGED <<snaps, view, cleanup, guarded, worker>>
  BY DEF StartRun, Upload, CompleteRun, LoseRun
<1>2. \A k \in Runs : Ended(k) => Ended(k)'
  BY DEF TypeOK, StartRun, Upload, CompleteRun, LoseRun, Ended
<1>3. \A w \in Workers : worker[w].pc # "idle" => worker[w].run \in Runs
  BY DEF TypeOK, Worker
<1>4. RunsComeFirst' /\ ReadyIsKept'
  BY <1>1, <1>2, <1>3 DEF Protected, RunsComeFirst, ReadyIsKept
<1>5. \A k \in Runs : Ended(k) /\ k \notin files => k \notin files'
  <2>1. CASE Upload(i)
    <3>1. files' \subseteq files \cup {i} /\ ~Ended(i)
      BY <2>1, UploadWithin DEF Upload, Ended
    <3>2. QED
      BY <3>1
  <2>2. QED
    BY <2>1 DEF StartRun, CompleteRun, LoseRun
<1>6. \A k \in guarded : k \in Runs /\ (Backend = "nfs" => snaps[k].finalizer \/ k \notin files)
  BY DEF TypeOK, Protected, Guarded
<1>7. Guarded'
  BY <1>1, <1>5, <1>6 DEF Protected, Guarded, RunsComeFirst
<1>8. QED
  BY <1>4, <1>7 DEF Protected

LEMMA BeginKeepsProtected ==
    ASSUME TypeOK, TypeOK', Protected, NEW i \in Runs, Begin(i) PROVE Protected'
<1> DEFINE r == [pc |-> "persist", run |-> i, todo |-> {}]
<1>1. worker' = [worker EXCEPT ![WorkerOf(i)] = r] /\ Ended(i)
  BY DEF Begin, Ended
<1>2. \A w \in Workers : worker'[w] \in {worker[w], r}
  BY <1>1 DEF TypeOK
<1>3. RunsComeFirst'
  BY <1>1, <1>2 DEF Begin, Protected, RunsComeFirst, Ended
<1>4. ReadyIsKept' /\ Guarded'
  BY DEF Begin, Protected, ReadyIsKept, Guarded
<1>5. QED
  BY <1>3, <1>4 DEF Protected

(* The finalizer is added to what is ready, and taken away only after the   *)
(* cleanup of what was ready.                                               *)
LEMMA ReconcileKeepsProtected ==
    ASSUME TypeOK, TypeOK', Protected, NEW k \in Runs, ReconcileSnapshot(k)
    PROVE  Protected'
<1>1. /\ snaps \in [Runs -> Snapshot] /\ snaps[k] \in Snapshot /\ view[k] \in Snapshot
      /\ cleanup \in [Runs -> Cleanup] /\ guarded \subseteq Runs
      /\ UNCHANGED <<job, files, view, worker>>
  BY DEF TypeOK, ReconcileSnapshot, AddFinalizer, RemoveFinalizer, CreateCleanup, Alone
<1>2. CASE AddFinalizer(k)
  <2> DEFINE t == [snaps[k] EXCEPT !.finalizer = TRUE]
  <2>1. snaps' = [snaps EXCEPT ![k] = t] /\ guarded' = guarded \cup {k} /\ UNCHANGED cleanup
    BY <1>2 DEF AddFinalizer
  <2>2. t.finalizer /\ t.ready = snaps[k].ready
    BY <1>1, SnapshotTypes
  <2>3. There(snaps[k]) /\ There(view[k]) /\ snaps[k].ready /\ Ended(k)
    BY <1>2 DEF AddFinalizer, Live, There, Protected, ReadyIsKept, RunsComeFirst
  <2>4. snaps'[k] = t /\ \A m \in Runs \ {k} : snaps'[m] = snaps[m]
    BY <1>1, <2>1
  <2>5. RunsComeFirst'
    BY <1>1, <2>1, <2>3, <2>4 DEF Protected, RunsComeFirst, Ended
  <2>6. ReadyIsKept'
    BY <1>1, <2>2, <2>3, <2>4 DEF Protected, ReadyIsKept
  <2>7. Guarded'
    BY <1>1, <2>1, <2>2, <2>4 DEF Protected, Guarded
  <2>8. QED
    BY <2>5, <2>6, <2>7 DEF Protected
<1>3. CASE RemoveFinalizer(k)
  <2>1. snaps' = [snaps EXCEPT ![k] = Released(snaps[k])] /\ UNCHANGED <<cleanup, guarded>>
    BY <1>3 DEF RemoveFinalizer
  <2>2. There(snaps[k])
    BY <1>3, DefaultTypes DEF RemoveFinalizer, There
  <2>3. Backend = "nfs" => k \notin files
    BY <1>3 DEF RemoveFinalizer, Terminating, Protected, ReadyIsKept, Guarded
  <2>4. /\ Released(snaps[k]) = NoSnapshot \/ Released(snaps[k]).ready = snaps[k].ready
        /\ ~Released(snaps[k]).finalizer
    BY <1>1, DefaultTypes DEF Released, Snapshot
  <2>5. snaps'[k] = Released(snaps[k]) /\ \A m \in Runs \ {k} : snaps'[m] = snaps[m]
    BY <1>1, <2>1
  <2>6. RunsComeFirst'
    BY <1>1, <2>1, <2>2, <2>5 DEF Protected, RunsComeFirst, Ended
  <2>7. ReadyIsKept'
    BY <1>1, <2>2, <2>4, <2>5 DEF Protected, ReadyIsKept, There
  <2>8. Guarded'
    BY <1>1, <2>1, <2>3, <2>5 DEF Protected, Guarded
  <2>9. QED
    BY <2>6, <2>7, <2>8 DEF Protected
<1>4. CASE CreateCleanup(k)
  <2>1. UNCHANGED <<snaps, guarded>> /\ There(view[k])
    BY <1>4 DEF CreateCleanup, Terminating
  <2>2. /\ \A m \in Runs \ {k} : cleanup'[m] = cleanup[m]
        /\ cleanup'[k].state = "active"
    BY <1>1, <1>4 DEF CreateCleanup
  <2>3. RunsComeFirst'
    BY <1>1, <2>1, <2>2 DEF Protected, RunsComeFirst, Ended
  <2>4. ReadyIsKept' /\ Guarded'
    BY <1>1, <2>1, <2>2 DEF Protected, ReadyIsKept, Guarded
  <2>5. QED
    BY <2>3, <2>4 DEF Protected
<1>5. QED
  BY <1>2, <1>3, <1>4 DEF ReconcileSnapshot

LEMMA CleanupKeepsProtected ==
    ASSUME TypeOK, TypeOK', Protected, NEW k \in Runs,
           CompleteCleanup(k) \/ FailCleanup(k) \/ CollectCleanup(k)
    PROVE  Protected'
<1>1. /\ UNCHANGED <<job, snaps, view, guarded, worker>>
      /\ cleanup \in [Runs -> Cleanup] /\ guarded \subseteq Runs /\ files' \subseteq files
  BY LeftWithin DEF TypeOK, CompleteCleanup, FailCleanup, CollectCleanup
<1>2. /\ \A m \in Runs \ {k} : cleanup'[m] = cleanup[m]
      /\ cleanup'[k].state # "none" => cleanup[k].state # "none"
      /\ Backend = "nfs" /\ cleanup'[k].state = "complete" => k \notin files'
  <2>1. CASE CompleteCleanup(k)
    <3>1. /\ Backend = "nfs" => files' = files \ {k}
          /\ cleanup[k].state = "active"
      BY <2>1, LeftWithin DEF CompleteCleanup
    <3>2. QED
      BY <1>1, <2>1, <3>1 DEF CompleteCleanup
  <2>2. CASE FailCleanup(k)
    BY <1>1, <2>2 DEF FailCleanup, Cleanup
  <2>3. CASE CollectCleanup(k)
    BY <1>1, <2>3, DefaultTypes DEF CollectCleanup
  <2>4. QED
    BY <2>1, <2>2, <2>3
<1>3. RunsComeFirst'
  BY <1>1, <1>2 DEF Protected, RunsComeFirst, Ended
<1>4. ReadyIsKept'
  BY <1>1 DEF Protected, ReadyIsKept
<1>5. Guarded'
  BY <1>1, <1>2 DEF Protected, Guarded
<1>6. QED
  BY <1>3, <1>4, <1>5 DEF Protected

LEMMA DeleteKeepsProtected ==
    ASSUME TypeOK, TypeOK', Protected, NEW k \in Runs, DeleteSnapshot(k) PROVE Protected'
<1>1. \A m \in Runs : Changes(snaps[m], snaps'[m])
  BY DEF DeleteSnapshot, Changes, TypeOK
<1>2. \A w \in Workers : worker'[w].pc # "idle" => Ended(worker'[w].run)
  BY DEF DeleteSnapshot, Protected, RunsComeFirst
<1>3. QED
  BY <1>1, <1>2, WritesKeepProtected DEF DeleteSnapshot

(* Faults, the storage and the watch.                                       *)
LEMMA OthersKeepProtected ==
    ASSUME TypeOK, TypeOK', Protected,
           \/ Restart \/ Sync \/ DeleteStorage \/ CreateStorage \/ UNCHANGED vars
           \/ \E w \in Workers : ApiError(w)
    PROVE  Protected'
<1>1. /\ UNCHANGED <<job, files, snaps, cleanup, guarded>>
      /\ view' = view \/ view' = snaps
      /\ \A w \in Workers : worker'[w] \in {worker[w], Idle}
  BY DEF Restart, Sync, DeleteStorage, CreateStorage, ApiError, Return, vars, TypeOK
<1>2. RunsComeFirst'
  BY <1>1, DefaultTypes DEF Protected, RunsComeFirst, Ended
<1>3. ReadyIsKept'
  BY <1>1 DEF Protected, ReadyIsKept
<1>4. Guarded'
  BY <1>1 DEF Protected, Guarded
<1>5. QED
  BY <1>2, <1>3, <1>4 DEF Protected

LEMMA ProtectedStep == TypeOK /\ Protected /\ [Next]_vars => Protected'
<1> SUFFICES ASSUME TypeOK, Protected, [Next]_vars PROVE Protected'
  OBVIOUS
<1>1. TypeOK'
  BY TypeStep
<1>2. CASE UNCHANGED vars
  BY <1>1, <1>2, OthersKeepProtected
<1>3. CASE Next
  BY <1>1, <1>3, OthersKeepProtected, RegisterKeepsProtected, RunsKeepProtected,
     BeginKeepsProtected, ReconcileKeepsProtected, CleanupKeepsProtected,
     DeleteKeepsProtected DEF Next
<1>4. QED
  BY <1>2, <1>3

(* A Snapshot that got the finalizer takes its artifact with it: it goes    *)
(* only after the cleanup, and its run uploads no other one.                *)
THEOREM SnapshotsGoAfterArtifacts == Spec => []CleanedUp
<1>1. Init => Protected
  BY DefaultTypes DEF Init, Protected, RunsComeFirst, ReadyIsKept, Guarded, There
<1>2. Guarded => CleanedUp
  BY DefaultTypes DEF Guarded, CleanedUp, There
<1>3. Protected => Guarded
  BY DEF Protected
<1>4. QED
  BY <1>1, <1>2, <1>3, ProtectedStep, TypeCorrect, PTL DEF Spec

----------------------------------------------------------------------------
(* What cleanups spare *)

(* Only a Snapshot that was protected has a finalizer, in the cache too; a  *)
(* terminating one in the cache is not yet replaced by another of its name; *)
(* and as long as a cleanup may still remove an artifact, the Snapshot that *)
(* it began for is there and terminating.                                   *)
Marks ==
    \A k \in Runs : snaps[k].finalizer \/ view[k].finalizer => k \in guarded

Dying ==
    \A k \in Runs : There(snaps[k]) /\ There(view[k]) /\ view[k].deleting => snaps[k].deleting

Cleaning(k) == k \in files /\ cleanup[k].state = "active"

Aimed ==
    Backend = "nfs" =>
        \A k \in Runs : Cleaning(k) => k \in guarded /\ snaps[k].deleting

Spared == Marks /\ Dying /\ Aimed

(* Any write of registration, retention or a user.                          *)
LEMMA WritesSpare ==
    ASSUME TypeOK, TypeOK', Protected, Spared,
           \A k \in Runs : Changes(snaps[k], snaps'[k]) \/ Creates(k),
           UNCHANGED <<files, view, cleanup, guarded>>
    PROVE  Spared'
<1>1. \A k \in Runs : snaps[k] \in Snapshot /\ snaps'[k] \in Snapshot
  BY DEF TypeOK
<1>2. Marks'
  <2>1. ASSUME NEW k \in Runs, snaps'[k].finalizer PROVE snaps[k].finalizer
    <3>1. There(snaps'[k]) /\ ~Creates(k)
      BY <2>1, DefaultTypes DEF There, Creates
    <3>2. QED
      BY <1>1, <2>1, <3>1, ChangesKeep
  <2>2. QED
    BY <2>1 DEF Spared, Marks
<1>3. Dying'
  BY <1>1, ChangesKeep DEF Spared, Dying, Creates
<1>4. Aimed'
  <2>1. ASSUME NEW k \in Runs, Backend = "nfs", Cleaning(k)
        PROVE  k \in guarded /\ snaps'[k].deleting
    <3>1. k \in guarded /\ snaps[k].deleting /\ snaps[k].finalizer
      BY <2>1 DEF Spared, Aimed, Protected, Guarded, Cleaning
    <3>2. There(snaps[k])
      BY <3>1, DefaultTypes DEF There
    <3>3. Changes(snaps[k], snaps'[k])
      BY <3>2 DEF Creates
    <3>4. snaps'[k].finalizer
      BY <1>1, <3>1, <3>3, ChangesKeep
    <3>5. There(snaps'[k])
      BY <3>4, DefaultTypes DEF There
    <3>6. QED
      BY <1>1, <3>1, <3>3, <3>5, ChangesKeep
  <2>2. QED
    BY <2>1 DEF Aimed, Cleaning
<1>5. QED
  BY <1>2, <1>3, <1>4 DEF Spared

(* The Snapshot controller: a cleanup begins while the Snapshot it is for   *)
(* is there and terminating, and holds the finalizer until it has ended.    *)
LEMMA ReconcileSpares ==
    ASSUME TypeOK, TypeOK', Protected, Spared, NEW k \in Runs, ReconcileSnapshot(k)
    PROVE  Spared'
<1>1. /\ snaps \in [Runs -> Snapshot] /\ snaps[k] \in Snapshot /\ view[k] \in Snapshot
      /\ cleanup \in [Runs -> Cleanup] /\ guarded \subseteq Runs
      /\ UNCHANGED <<job, files, view, worker>>
  BY DEF TypeOK, ReconcileSnapshot, AddFinalizer, RemoveFinalizer, CreateCleanup, Alone
<1>2. CASE AddFinalizer(k)
  <2> DEFINE t == [snaps[k] EXCEPT !.finalizer = TRUE]
  <2>1. snaps' = [snaps EXCEPT ![k] = t] /\ guarded' = guarded \cup {k} /\ UNCHANGED cleanup
    BY <1>2 DEF AddFinalizer
  <2>2. /\ snaps'[k].deleting = snaps[k].deleting /\ There(snaps[k])
        /\ \A m \in Runs \ {k} : snaps'[m] = snaps[m]
    BY <1>1, <1>2, <2>1 DEF Snapshot, AddFinalizer, Live, There
  <2>3. Marks'
    BY <1>1, <2>1, <2>2 DEF Spared, Marks
  <2>4. Dying' /\ Aimed'
    BY <1>1, <2>1, <2>2 DEF Spared, Dying, Aimed, Cleaning
  <2>5. QED
    BY <2>3, <2>4 DEF Spared
<1>3. CASE RemoveFinalizer(k)
  <2>1. snaps' = [snaps EXCEPT ![k] = Released(snaps[k])] /\ UNCHANGED <<cleanup, guarded>>
    BY <1>3 DEF RemoveFinalizer
  <2>2. /\ There(snaps[k]) /\ ~snaps'[k].finalizer
        /\ There(snaps'[k]) => snaps'[k].deleting = snaps[k].deleting
        /\ \A m \in Runs \ {k} : snaps'[m] = snaps[m]
    BY <1>1, <1>3, <2>1, DefaultTypes DEF Released, Snapshot, RemoveFinalizer, There
  <2>3. Marks' /\ Dying'
    BY <1>1, <2>1, <2>2 DEF Spared, Marks, Dying
  <2>4. cleanup[k].state = "complete"
    BY <1>3 DEF RemoveFinalizer, Terminating, Protected, ReadyIsKept
  <2>5. ~Cleaning(k)
    BY <2>4 DEF Cleaning
  <2>6. Aimed'
    BY <1>1, <2>1, <2>2, <2>5 DEF Spared, Aimed, Cleaning
  <2>7. QED
    BY <2>3, <2>6 DEF Spared
<1>4. CASE CreateCleanup(k)
  <2>1. UNCHANGED <<snaps, guarded>> /\ There(view[k]) /\ view[k].deleting /\ view[k].finalizer
    BY <1>4 DEF CreateCleanup, Terminating
  <2>2. \A m \in Runs \ {k} : cleanup'[m] = cleanup[m]
    BY <1>1, <1>4 DEF CreateCleanup
  <2>3. Marks' /\ Dying'
    BY <1>1, <2>1 DEF Spared, Marks, Dying
  <2>4. ASSUME Backend = "nfs", k \in files PROVE k \in guarded /\ snaps[k].deleting
    <3>1. k \in guarded
      BY <2>1 DEF Spared, Marks
    <3>2. snaps[k].finalizer
      BY <2>4, <3>1 DEF Protected, Guarded
    <3>3. There(snaps[k])
      BY <3>2, DefaultTypes DEF There
    <3>4. QED
      BY <2>1, <3>1, <3>3 DEF Spared, Dying
  <2>5. Aimed'
    BY <1>1, <2>1, <2>2, <2>4 DEF Spared, Aimed, Cleaning
  <2>6. QED
    BY <2>3, <2>5 DEF Spared
<1>5. QED
  BY <1>2, <1>3, <1>4 DEF ReconcileSnapshot

(* All other steps: none begins a cleanup, and a run uploads before that.   *)
LEMMA OthersSpare ==
    ASSUME TypeOK, TypeOK', Protected, Spared,
           UNCHANGED <<snaps, guarded>>, view' = view \/ view' = snaps,
           \A k \in Runs : Cleaning(k)' => Cleaning(k)
    PROVE  Spared'
<1>1. Marks' /\ Dying'
  BY DEF Spared, Marks, Dying
<1>2. Aimed'
  BY DEF Spared, Aimed
<1>3. QED
  BY <1>1, <1>2 DEF Spared

LEMMA RunsSpare ==
    ASSUME TypeOK, TypeOK', Protected, Spared, NEW i \in Runs,
           \/ StartRun(i) \/ Upload(i) \/ CompleteRun(i) \/ LoseRun(i) \/ Begin(i)
           \/ CompleteCleanup(i) \/ FailCleanup(i) \/ CollectCleanup(i)
    PROVE  Spared'
<1>1. UNCHANGED <<snaps, guarded, view>>
  BY DEF StartRun, Upload, CompleteRun, LoseRun, Begin, CompleteCleanup, FailCleanup,
         CollectCleanup
<1>2. ASSUME NEW k \in Runs, Cleaning(k)' PROVE Cleaning(k)
  <2>1. CASE Upload(i)
    <3>1. files' \subseteq files \cup {i} /\ ~Ended(i) /\ UNCHANGED cleanup
      BY <2>1, UploadWithin DEF Upload, Ended
    <3>2. cleanup[i].state = "none"
      BY <3>1 DEF Protected, RunsComeFirst
    <3>3. QED
      BY <1>2, <3>1, <3>2 DEF Cleaning
  <2>2. CASE StartRun(i) \/ CompleteRun(i) \/ LoseRun(i) \/ Begin(i)
    BY <1>2, <2>2 DEF StartRun, CompleteRun, LoseRun, Begin, Cleaning
  <2>3. CASE CompleteCleanup(i) \/ FailCleanup(i) \/ CollectCleanup(i)
    <3>1. files' \subseteq files
      BY <2>3, LeftWithin DEF CompleteCleanup, FailCleanup, CollectCleanup
    <3>2. cleanup \in [Runs -> Cleanup] /\ \A m \in Runs \ {i} : cleanup'[m] = cleanup[m]
      BY <2>3 DEF TypeOK, CompleteCleanup, FailCleanup, CollectCleanup
    <3>3. cleanup'[i].state # "active"
      BY <2>3, <3>2, DefaultTypes DEF CompleteCleanup, FailCleanup, CollectCleanup, Cleanup
    <3>4. QED
      BY <1>2, <3>1, <3>2, <3>3 DEF Cleaning
  <2>4. QED
    BY <2>1, <2>2, <2>3
<1>3. QED
  BY <1>1, <1>2, OthersSpare

LEMMA SparedStep == TypeOK /\ Protected /\ Spared /\ [Next]_vars => Spared'
<1> SUFFICES ASSUME TypeOK, Protected, Spared, [Next]_vars PROVE Spared'
  OBVIOUS
<1>1. TypeOK' /\ RunsComeFirst
  BY TypeStep DEF Protected
<1>2. CASE \/ Restart \/ Sync \/ DeleteStorage \/ CreateStorage \/ UNCHANGED vars
           \/ \E w \in Workers : ApiError(w)
  <2>1. /\ UNCHANGED <<files, snaps, cleanup, guarded>>
        /\ view' = view \/ view' = snaps
    BY <1>2 DEF Restart, Sync, DeleteStorage, CreateStorage, ApiError, vars
  <2>2. \A k \in Runs : Cleaning(k)' => Cleaning(k)
    BY <2>1 DEF Cleaning
  <2>3. QED
    BY <1>1, <2>1, <2>2, OthersSpare
<1>3. ASSUME NEW w \in Workers, Register(w) PROVE Spared'
  BY <1>1, <1>3, RegisterChanges, WritesSpare
<1>4. ASSUME NEW k \in Runs, DeleteSnapshot(k) PROVE Spared'
  <2>1. \A m \in Runs : Changes(snaps[m], snaps'[m])
    BY <1>4 DEF DeleteSnapshot, Changes, TypeOK
  <2>2. UNCHANGED <<files, view, cleanup, guarded>>
    BY <1>4 DEF DeleteSnapshot
  <2>3. QED
    BY <1>1, <2>1, <2>2, WritesSpare
<1>5. QED
  BY <1>1, <1>2, <1>3, <1>4, ReconcileSpares, RunsSpare DEF Next

(* A cleanup Job never meets the artifact of a Snapshot that is to stay,    *)
(* although a Snapshot that has gone may be registered again under the name *)
(* by which its cleanup Job is found: the finalizer keeps the old one until *)
(* its artifact has gone.                                                   *)
THEOREM CleanupsSpareTheLiving == Spec => []CleanupSparesLive
<1>1. Init => Protected /\ Spared
  BY DefaultTypes DEF Init, Protected, RunsComeFirst, ReadyIsKept, Guarded, There,
     Spared, Marks, Dying, Aimed, Cleaning
<1>2. TypeOK /\ Spared => CleanupSparesLive
  BY DEF Spared, Aimed, Cleaning, CleanupSparesLive, Live, TypeOK
<1>3. QED
  BY <1>1, <1>2, ProtectedStep, SparedStep, TypeCorrect, PTL DEF Spec

----------------------------------------------------------------------------
(* What retention leaves *)

LEMMA FiniteRuns ==
    ASSUME NEW S \in SUBSET Runs
    PROVE  IsFiniteSet(S) /\ Cardinality(S) \in Nat
    BY SeriesAssumption, FS_Subset, FS_CardinalityType

(* Of any numbers that there are, one is the least.                         *)
LEMMA Least ==
    ASSUME NEW T \in SUBSET Nat, T # {}
    PROVE  \E x \in T : \A y \in T : ~(y < x)
<1>1. PICK x \in T : \A y \in T : <<y, x>> \notin OpToRel(<, Nat)
  BY WFMin, NatLessThanWellFounded, Zenon
<1>2. \A y \in T : <<y, x>> \in Nat \X Nat
  OBVIOUS
<1>3. QED
  BY <1>1, <1>2 DEF OpToRel

(* A pass keeps no more than KeepLast of the Snapshots it has listed: the   *)
(* oldest of those it keeps has all the others before it.                   *)
Keeps == {k \in Listed : Rank(k) < KeepLast}

LEMMA SortTimeType == TypeOK => \A k \in Runs : SortTime(k) \in Nat
    BY DEF TypeOK, Snapshot, SortTime

LEMMA OldestKept ==
    ASSUME TypeOK, Keeps # {}
    PROVE  \E old \in Keeps : \A m \in Keeps \ {old} : Newer(m, old)
<1> DEFINE T == {SortTime(k) : k \in Keeps}
<1>1. Keeps \subseteq Runs /\ Runs \subseteq Nat
  BY SeriesAssumption DEF Keeps, Listed
<1>2. T \in SUBSET Nat /\ T # {}
  BY <1>1, SortTimeType
<1> HIDE DEF T
<1>3. PICK x \in T : \A y \in T : ~(y < x)
  BY <1>2, Least
<1> DEFINE First == {k \in Keeps : SortTime(k) = x}
<1>4. First \in SUBSET Nat /\ First # {}
  BY <1>1, <1>3 DEF T
<1> HIDE DEF First
<1>5. PICK old \in First : \A m \in First : ~(m < old)
  BY <1>4, Least
<1>6. ASSUME NEW m \in Keeps, m # old PROVE Newer(m, old)
  <2>1. /\ SortTime(m) \in Nat /\ x \in Nat /\ SortTime(old) = x /\ ~(SortTime(m) < x)
        /\ m \in Nat /\ old \in Nat
    BY <1>1, <1>2, <1>3, <1>5, <1>6, SortTimeType DEF T, First
  <2>2. SortTime(m) = x => ~(m < old)
    BY <1>5, <1>6 DEF First
  <2>3. QED
    BY <1>6, <2>1, <2>2 DEF Newer
<1>7. old \in Keeps
  BY <1>5 DEF First
<1>8. QED
  BY <1>6, <1>7

LEMMA FewKept == TypeOK => Cardinality(Keeps) <= KeepLast
<1> SUFFICES ASSUME TypeOK PROVE Cardinality(Keeps) <= KeepLast
  OBVIOUS
<1>1. Keeps \in SUBSET Runs
  BY DEF Keeps, Listed
<1>2. CASE Keeps = {}
  BY <1>2, FS_EmptySet, SeriesAssumption
<1>3. CASE Keeps # {}
  <2>1. PICK old \in Keeps : \A m \in Keeps \ {old} : Newer(m, old)
    BY <1>3, OldestKept
  <2> DEFINE Before == {m \in Listed : Newer(m, old)}
  <2>2. Before \in SUBSET Runs /\ Keeps \ {old} \subseteq Before
    BY <2>1 DEF Listed, Keeps
  <2>3. Cardinality(Before) < KeepLast
    BY DEF Rank, Keeps
  <2> HIDE DEF Before
  <2>4. /\ IsFiniteSet(Before) /\ IsFiniteSet(Keeps)
        /\ Cardinality(Keeps) \in Nat /\ Cardinality(Before) \in Nat
    BY <1>1, <2>2, FiniteRuns
  <2>5. Cardinality(Keeps \ {old}) = Cardinality(Keeps) - 1
    BY <2>4, FS_RemoveElement
  <2>6. Cardinality(Keeps \ {old}) <= Cardinality(Before)
    BY <2>2, <2>4, FS_Subset
  <2>7. QED
    BY <2>3, <2>4, <2>5, <2>6, SeriesAssumption
<1>4. QED
  BY <1>2, <1>3

(* The Snapshots of a set of runs that are there to stay once a pass has    *)
(* done what it is about to do.                                             *)
Doomed(todo) == {t.run : t \in {u \in todo : u.op = "delete"}}

Staying(series, S, todo) == {k \in S \ Doomed(todo) : Live(series[k])}

Few(series, S, todo) == Cardinality(Staying(series, S, todo)) <= KeepLast

LEMMA StillFew ==
    ASSUME NEW series, NEW S \in SUBSET Runs, NEW todo, Few(series, S, todo),
           NEW series2, NEW S2, NEW todo2,
           Staying(series2, S2, todo2) \subseteq Staying(series, S, todo)
    PROVE  Few(series2, S2, todo2)
<1>1. Staying(series, S, todo) \in SUBSET Runs
  BY DEF Staying
<1>2. IsFiniteSet(Staying(series, S, todo)) /\ Cardinality(Staying(series, S, todo)) \in Nat
  BY <1>1, FiniteRuns
<1>3. /\ Cardinality(Staying(series2, S2, todo2)) <= Cardinality(Staying(series, S, todo))
      /\ IsFiniteSet(Staying(series2, S2, todo2))
  BY <1>2, FS_Subset
<1>4. Cardinality(Staying(series2, S2, todo2)) \in Nat
  BY <1>3, FS_CardinalityType
<1>5. QED
  BY <1>2, <1>3, <1>4, SeriesAssumption DEF Few

(* What a pass has listed it trims.                                         *)
LEMMA PassTrims ==
    ASSUME TypeOK, NEW i, NEW S \in SUBSET Runs,
           \A k \in S : Live(snaps[k]) => There(view[k])
    PROVE  Few(snaps, S, PassFor(i))
<1>1. Staying(snaps, S, PassFor(i)) \subseteq Keeps
  <2>1. ASSUME NEW k \in S, Live(snaps[k]), k \notin Keeps PROVE k \in Doomed(PassFor(i))
    <3>1. k \in Listed /\ Rank(k) >= KeepLast
      BY <2>1, RankType, SeriesAssumption DEF Listed, Keeps
    <3>2. [run |-> k, rank |-> Rank(k), op |-> "delete"] \in PassFor(i)
      BY <3>1 DEF PassFor
    <3>3. QED
      BY <3>2 DEF Doomed
  <2>2. QED
    BY <2>1 DEF Staying
<1>2. IsFiniteSet(Keeps) /\ Cardinality(Keeps) \in Nat /\ Cardinality(Keeps) <= KeepLast
  BY FewKept, FiniteRuns DEF Keeps, Listed
<1>3. /\ Cardinality(Staying(snaps, S, PassFor(i))) <= Cardinality(Keeps)
      /\ IsFiniteSet(Staying(snaps, S, PassFor(i)))
  BY <1>1, <1>2, FS_Subset
<1>4. Cardinality(Staying(snaps, S, PassFor(i))) \in Nat
  BY <1>3, FS_CardinalityType
<1>5. QED
  BY <1>2, <1>3, <1>4, SeriesAssumption DEF Few

(* Each worker registers runs of its own, and the cache has shown it each   *)
(* Snapshot whose series it reads: it still shows it unless it has gone.    *)
Own == \A w \in Workers : worker[w].pc # "idle" => w = WorkerOf(worker[w].run)

Reading(w) == worker[w].pc \in {"list", "series"}

Settling == passed \cup {worker[w].run : w \in {v \in Workers : Reading(v)}}

Seen == \A k \in Settling : There(snaps[k]) => There(view[k])

(* KeepLast Snapshots at most have come to stay, and one more pass does not *)
(* change that; if two are under way, whichever has read the series last    *)
(* leaves room for both.                                                    *)
Passing(w) == worker[w].pc = "series"

Both(v, w) == passed \cup {worker[v].run, worker[w].run}

Trimmed ==
    \A v, w \in Workers : Passing(v) /\ Passing(w) =>
        \E u \in {v, w} : Few(snaps, Both(v, w), worker[u].todo)

Bounded == Own /\ Seen /\ Few(snaps, passed, {}) /\ Trimmed

LEMMA Subsets ==
    ASSUME TypeOK, Own
    PROVE  /\ passed \in SUBSET Runs /\ Settling \in SUBSET Runs
           /\ \A w \in Workers : worker[w].pc # "idle" => worker[w].run \in Runs
           /\ \A v, w \in Workers : Passing(v) /\ Passing(w) => Both(v, w) \in SUBSET Runs
<1>1. \A w \in Workers : worker[w].pc # "idle" => worker[w].run \in Runs
  BY DEF TypeOK, Worker
<1>2. passed \in SUBSET Runs
  BY DEF TypeOK
<1>3. QED
  BY <1>1, <1>2 DEF Settling, Both, Passing, Reading

(* Two passes that a step leaves alone.                                     *)
LEMMA StillTrimmed ==
    ASSUME TypeOK, Bounded, NEW v \in Workers, NEW x \in Workers, Passing(v), Passing(x),
           worker'[v] = worker[v], worker'[x] = worker[x],
           \A k \in Both(v, x)' : k \in Both(v, x) /\ (Live(snaps'[k]) => Live(snaps[k]))
    PROVE  \E u \in {v, x} : Few(snaps', Both(v, x)', worker'[u].todo)
<1>1. PICK u \in {v, x} : Few(snaps, Both(v, x), worker[u].todo)
  BY DEF Bounded, Trimmed
<1>2. Both(v, x) \in SUBSET Runs /\ worker'[u] = worker[u]
  BY Subsets DEF Bounded
<1>3. Staying(snaps', Both(v, x)', worker'[u].todo)
         \subseteq Staying(snaps, Both(v, x), worker[u].todo)
  BY <1>2 DEF Staying
<1>4. Few(snaps', Both(v, x)', worker'[u].todo)
  BY <1>1, <1>2, <1>3, StillFew
<1>5. QED
  BY <1>4

(* Steps that leave the passes alone, or end one early.                     *)
LEMMA AsideKeepsBounded ==
    ASSUME TypeOK, TypeOK', Bounded,
           \A k \in Runs : There(snaps'[k]) => There(snaps[k]),
           \A k \in Runs : Live(snaps'[k]) => Live(snaps[k]),
           view' = view \/ (view' = snaps /\ UNCHANGED snaps),
           UNCHANGED passed,
           \A w \in Workers :
              \/ worker'[w] = worker[w] \/ worker'[w].pc = "idle"
              \/ worker'[w].pc \in {"persist", "ready"} /\ w = WorkerOf(worker'[w].run)
    PROVE  Bounded'
<1>1. Own'
  BY DEF Bounded, Own
<1>2. Settling' \subseteq Settling
  BY DEF Settling, Reading
<1>3. Seen'
  <2>1. Settling \in SUBSET Runs
    BY Subsets DEF Bounded
  <2>2. QED
    BY <1>2, <2>1 DEF Bounded, Seen
<1>4. Few(snaps, passed, {})'
  <2>1. Staying(snaps', passed', {}) \subseteq Staying(snaps, passed, {})
    BY Subsets DEF Bounded, Staying
  <2>2. Few(snaps', passed', {})
    BY <2>1, Subsets, StillFew DEF Bounded
  <2>3. QED
    BY <2>2
<1>5. Trimmed'
  <2>1. ASSUME NEW v \in Workers, NEW w \in Workers, Passing(v)', Passing(w)'
        PROVE  \E u \in {v, w} : Few(snaps', Both(v, w)', worker'[u].todo)
    <3>1. worker'[v] = worker[v] /\ worker'[w] = worker[w] /\ Passing(v) /\ Passing(w)
      BY <2>1 DEF Passing
    <3>2. Both(v, w)' = Both(v, w)
      BY <3>1 DEF Both
    <3>3. Both(v, w) \in SUBSET Runs
      BY <3>1, Subsets DEF Bounded
    <3>4. QED
      BY <3>1, <3>2, <3>3, StillTrimmed
  <2>2. QED
    BY <2>1 DEF Trimmed, Few, Staying
<1>6. QED
  BY <1>1, <1>3, <1>4, <1>5 DEF Bounded

(* A pass that goes on, or comes to its end.                                *)
LEMMA ProceedKeepsBounded ==
    ASSUME TypeOK, TypeOK', Bounded, NEW w \in Workers, Reading(w),
           NEW todo \in SUBSET Todo, Proceed(w, todo), UNCHANGED view,
           \A k \in Runs : There(snaps'[k]) => There(snaps[k]),
           \A k \in Runs : Live(snaps'[k]) => Live(snaps[k]),
           Few(snaps', Both(w, w), todo),
           \A v \in Workers \ {w} : Passing(v) =>
              \/ Few(snaps', Both(v, w), todo)
              \/ Few(snaps', Both(v, w), worker[v].todo)
    PROVE  Bounded'
<1> DEFINE i == worker[w].run
<1>1. /\ worker \in [Workers -> Worker] /\ worker[w] \in Worker /\ worker[w].pc # "idle"
      /\ i \in Runs /\ passed \in SUBSET Runs /\ Both(w, w) = passed \cup {i}
  BY DEF TypeOK, Reading, Worker, Both
<1>2. \A v \in Workers \ {w} : worker'[v] = worker[v]
  BY <1>1 DEF Proceed, Return
<1>3. CASE todo = {}
  <2>1. worker'[w].pc = "idle" /\ passed' = passed \cup {i}
    BY <1>1, <1>3, DefaultTypes DEF Proceed, Return
  <2>2. Own'
    BY <1>2, <2>1 DEF Bounded, Own
  <2>3. Settling' \subseteq Settling
    BY <1>2, <2>1 DEF Settling, Reading
  <2>4. Seen'
    <3>1. Settling \in SUBSET Runs
      BY Subsets DEF Bounded
    <3>2. QED
      BY <2>3, <3>1 DEF Bounded, Seen
  <2>5. Few(snaps', passed', {})
    BY <1>1, <1>3, <2>1
  <2>6. ASSUME NEW v \in Workers, NEW x \in Workers, Passing(v)', Passing(x)'
        PROVE  Few(snaps', Both(v, x)', worker'[v].todo)
    <3>1. v # w /\ x # w /\ v = x /\ worker'[v] = worker[v] /\ Passing(v)
      BY <1>2, <2>1, <2>6 DEF Passing, Workers
    <3>2. Both(v, x)' = Both(v, w)
      BY <2>1, <3>1 DEF Both
    <3>3. Both(v, w) \in SUBSET Runs
      BY <1>1, <3>1, Subsets DEF Bounded, Both, Passing
    <3>4. /\ Staying(snaps', Both(v, w), worker'[v].todo) \subseteq Staying(snaps', Both(v, w), todo)
          /\ Staying(snaps', Both(v, w), worker'[v].todo)
                \subseteq Staying(snaps', Both(v, w), worker[v].todo)
      BY <1>3, <3>1 DEF Staying, Doomed
    <3>5. \/ Few(snaps', Both(v, w), todo)
          \/ Few(snaps', Both(v, w), worker[v].todo)
      BY <3>1
    <3>6. Few(snaps', Both(v, w), worker'[v].todo)
      BY <3>3, <3>4, <3>5, StillFew
    <3>7. QED
      BY <3>2, <3>6
  <2>7. QED
    BY <2>2, <2>4, <2>5, <2>6 DEF Bounded, Trimmed, Few, Staying
<1>4. CASE todo # {}
  <2>1. /\ worker'[w].pc = "series" /\ worker'[w].run = i /\ worker'[w].todo = todo
        /\ passed' = passed
    BY <1>1, <1>4 DEF Proceed, Worker
  <2>2. Own'
    BY <1>1, <1>2, <2>1 DEF Bounded, Own
  <2>3. Settling' = Settling
    <3>1. \A v \in Workers : (Reading(v)' <=> Reading(v)) /\ worker'[v].run = worker[v].run
      BY <1>2, <2>1 DEF Reading
    <3>2. QED
      BY <2>1, <3>1 DEF Settling
  <2>4. Seen'
    <3>1. Settling \in SUBSET Runs
      BY Subsets DEF Bounded
    <3>2. QED
      BY <2>3, <3>1 DEF Bounded, Seen
  <2>5. Few(snaps', passed', {})
    <3>1. Staying(snaps', passed', {}) \subseteq Staying(snaps, passed, {})
      BY <1>1, <2>1 DEF Staying
    <3>2. QED
      BY <1>1, <3>1, StillFew DEF Bounded
  <2>6. ASSUME NEW v \in Workers, NEW x \in Workers, Passing(v)', Passing(x)'
        PROVE  \E u \in {v, x} : Few(snaps', Both(v, x)', worker'[u].todo)
    <3>1. Both(v, x)' = Both(v, x)
      BY <1>2, <2>1 DEF Both
    <3>2. CASE v = w /\ x = w
      BY <2>1, <3>1, <3>2
    <3>3. CASE v # w /\ x = w
      <4>1. Passing(v) /\ worker'[v] = worker[v]
        BY <1>2, <2>6, <3>3 DEF Passing
      <4>2. \/ Few(snaps', Both(v, w), worker'[w].todo)
            \/ Few(snaps', Both(v, w), worker'[v].todo)
        BY <2>1, <3>3, <4>1
      <4>3. QED
        BY <3>1, <3>3, <4>2
    <3>4. CASE v = w /\ x # w
      <4>1. Passing(x) /\ worker'[x] = worker[x]
        BY <1>2, <2>6, <3>4 DEF Passing
      <4>2. \/ Few(snaps', Both(x, w), worker'[w].todo)
            \/ Few(snaps', Both(x, w), worker'[x].todo)
        BY <2>1, <3>4, <4>1
      <4>3. Both(x, w) = Both(v, x)
        BY <3>4 DEF Both
      <4>4. QED
        BY <3>1, <3>4, <4>2, <4>3
    <3>5. CASE v # w /\ x # w
      <4>1. Passing(v) /\ Passing(x) /\ worker'[v] = worker[v] /\ worker'[x] = worker[x]
        BY <1>2, <2>6, <3>5 DEF Passing
      <4>2. Both(v, x) \in SUBSET Runs
        BY <4>1, Subsets DEF Bounded
      <4>3. QED
        BY <3>1, <4>1, <4>2, StillTrimmed
    <3>6. QED
      BY <3>2, <3>3, <3>4, <3>5
  <2>7. QED
    BY <2>2, <2>4, <2>5, <2>6 DEF Bounded, Trimmed, Few, Staying
<1>5. QED
  BY <1>3, <1>4

(* A Snapshot that is created has come to stay only once a pass has seen it. *)
LEMMA PersistKeepsBounded ==
    ASSUME TypeOK, TypeOK', Bounded, NEW w \in Workers, PersistSnapshot(w) PROVE Bounded'
<1> DEFINE i == worker[w].run
<1>1. /\ worker \in [Workers -> Worker] /\ worker[w] \in Worker /\ worker[w].pc = "persist"
      /\ i \in Runs /\ snaps \in [Runs -> Snapshot] /\ w = WorkerOf(i) /\ UNCHANGED view
      /\ passed \in SUBSET Runs
  BY DEF TypeOK, PersistSnapshot, Worker, Bounded, Own
<1>2. /\ \A v \in Workers \ {w} : worker'[v] = worker[v]
      /\ worker'[w].pc \in {"idle", "ready"}
      /\ worker'[w].pc = "ready" => worker'[w].run = i
  BY <1>1, DefaultTypes DEF PersistSnapshot, Goto, Return, Worker
<1>3. CASE UNCHANGED <<snaps, passed>>
  BY <1>1, <1>2, <1>3, AsideKeepsBounded
<1>4. CASE ~UNCHANGED <<snaps, passed>>
  <2>1. passed' = passed \ {i} /\ \A k \in Runs \ {i} : snaps'[k] = snaps[k]
    BY <1>1, <1>4 DEF PersistSnapshot
  <2>2. \A v \in Workers : Reading(v)' => worker'[v] = worker[v] /\ worker[v].run # i
    BY <1>1, <1>2 DEF Reading, Bounded, Own
  <2>3. Own'
    BY <1>1, <1>2 DEF Bounded, Own
  <2>4. Settling' \subseteq Settling \ {i}
    BY <2>1, <2>2 DEF Settling, Reading
  <2>5. Seen'
    <3>1. Settling \in SUBSET Runs
      BY Subsets DEF Bounded
    <3>2. QED
      BY <1>1, <2>1, <2>4, <3>1 DEF Bounded, Seen
  <2>6. Few(snaps', passed', {})
    <3>1. Staying(snaps', passed', {}) \subseteq Staying(snaps, passed, {})
      BY <1>1, <2>1 DEF Staying
    <3>2. QED
      BY <1>1, <3>1, StillFew DEF Bounded
  <2>7. ASSUME NEW v \in Workers, NEW x \in Workers, Passing(v)', Passing(x)'
        PROVE  \E u \in {v, x} : Few(snaps', Both(v, x)', worker'[u].todo)
    <3>1. /\ worker'[v] = worker[v] /\ worker'[x] = worker[x] /\ Passing(v) /\ Passing(x)
          /\ Both(v, x)' \subseteq Both(v, x) \ {i}
      BY <2>1, <2>2, <2>7 DEF Passing, Reading, Both
    <3>2. Both(v, x) \in SUBSET Runs
      BY <3>1, Subsets DEF Bounded
    <3>3. QED
      BY <2>1, <3>1, <3>2, StillTrimmed
  <2>8. QED
    BY <2>3, <2>5, <2>6, <2>7 DEF Bounded, Trimmed, Few, Staying
<1>5. QED
  BY <1>3, <1>4

(* The status is written through the cache, which shows the Snapshot then.  *)
LEMMA MarkKeepsBounded ==
    ASSUME TypeOK, TypeOK', Bounded, NEW w \in Workers, MarkSnapshotReady(w) PROVE Bounded'
<1> DEFINE i == worker[w].run
<1>1. /\ worker \in [Workers -> Worker] /\ worker[w] \in Worker /\ worker[w].pc = "ready"
      /\ i \in Runs /\ snaps \in [Runs -> Snapshot] /\ w = WorkerOf(i)
      /\ UNCHANGED <<view, passed>> /\ passed \in SUBSET Runs
  BY DEF TypeOK, MarkSnapshotReady, Worker, Bounded, Own
<1>2. CASE Return(w) /\ UNCHANGED snaps
  <2>1. \A v \in Workers : worker'[v] = worker[v] \/ worker'[v].pc = "idle"
    BY <1>1, <1>2, DefaultTypes DEF Return
  <2>2. QED
    BY <1>1, <1>2, <2>1, AsideKeepsBounded
<1>3. CASE There(view[i]) /\ view[i] = snaps[i] /\ snaps' = [snaps EXCEPT ![i] = Marked(snaps[i])]
           /\ Goto(w, "list")
  <2>1. /\ \A v \in Workers \ {w} : worker'[v] = worker[v]
        /\ worker'[w].pc = "list" /\ worker'[w].run = i
    BY <1>1, <1>3 DEF Goto, Worker
  <2>2. /\ \A k \in Runs : There(snaps'[k]) => There(snaps[k])
        /\ \A k \in Runs : Live(snaps'[k]) => Live(snaps[k])
    <3>1. snaps[i] \in Snapshot /\ There(snaps[i])
      BY <1>1, <1>3
    <3>2. Marked(snaps[i]).deleting = snaps[i].deleting
      BY <3>1, SnapshotTypes
    <3>3. snaps'[i] = Marked(snaps[i]) /\ \A k \in Runs \ {i} : snaps'[k] = snaps[k]
      BY <1>1, <1>3
    <3>4. QED
      BY <3>1, <3>2, <3>3 DEF Live, There
  <2>3. Own'
    BY <1>1, <2>1 DEF Bounded, Own
  <2>4. Settling' \subseteq Settling \cup {i} /\ Settling \in SUBSET Runs
    BY <1>1, <2>1, Subsets DEF Settling, Reading, Bounded
  <2>5. Seen'
    BY <1>1, <1>3, <2>2, <2>4 DEF Bounded, Seen
  <2>6. Few(snaps', passed', {})
    <3>1. Staying(snaps', passed', {}) \subseteq Staying(snaps, passed, {})
      BY <1>1, <2>2 DEF Staying
    <3>2. QED
      BY <1>1, <3>1, StillFew DEF Bounded
  <2>7. ASSUME NEW v \in Workers, NEW x \in Workers, Passing(v)', Passing(x)'
        PROVE  \E u \in {v, x} : Few(snaps', Both(v, x)', worker'[u].todo)
    <3>1. /\ worker'[v] = worker[v] /\ worker'[x] = worker[x] /\ Passing(v) /\ Passing(x)
          /\ Both(v, x)' = Both(v, x)
      BY <1>1, <2>1, <2>7 DEF Passing, Both
    <3>2. Both(v, x) \in SUBSET Runs
      BY <3>1, Subsets DEF Bounded
    <3>3. QED
      BY <2>2, <3>1, <3>2, StillTrimmed
  <2>8. QED
    BY <2>3, <2>5, <2>6, <2>7 DEF Bounded, Trimmed, Few, Staying
<1>4. QED
  BY <1>2, <1>3 DEF MarkSnapshotReady, Marked

(* A pass that reads the series leaves room for the run it is for, and for  *)
(* that of the other pass.                                                  *)
LEMMA ListKeepsBounded ==
    ASSUME TypeOK, TypeOK', Bounded, NEW w \in Workers, ListSeries(w) PROVE Bounded'
<1> DEFINE todo == PassFor(worker[w].run)
<1>1. /\ Reading(w) /\ UNCHANGED <<view, snaps>> /\ Proceed(w, todo) /\ todo \in SUBSET Todo
  BY PassType DEF ListSeries, Reading
<1> HIDE DEF todo
<1>2. ASSUME NEW v \in Workers, Reading(v) PROVE Few(snaps', Both(v, w), todo)
  <2>1. Both(v, w) \subseteq Settling
    BY <1>1, <1>2 DEF Both, Settling
  <2>2. Settling \in SUBSET Runs
    BY Subsets DEF Bounded
  <2>3. \A k \in Both(v, w) : Live(snaps[k]) => There(view[k])
    BY <2>1 DEF Bounded, Seen, Live, There
  <2>4. Few(snaps, Both(v, w), todo)
    BY <2>1, <2>2, <2>3, PassTrims DEF todo
  <2>5. QED
    BY <1>1, <2>4
<1>3. \A v \in Workers : Passing(v) => Reading(v)
  BY DEF Passing, Reading
<1>4. Few(snaps', Both(w, w), todo)
  BY <1>1, <1>2
<1>5. QED
  BY <1>1, <1>2, <1>3, <1>4, ProceedKeepsBounded

(* A pass that does the next thing it is about to do.                       *)
LEMMA SeriesStepKeepsBounded ==
    ASSUME TypeOK, TypeOK', Bounded, NEW w \in Workers, SeriesStep(w) PROVE Bounded'
<1>1. /\ worker \in [Workers -> Worker] /\ worker[w] \in Worker /\ Passing(w)
      /\ snaps \in [Runs -> Snapshot] /\ UNCHANGED view /\ worker[w].pc # "idle"
  BY DEF TypeOK, SeriesStep, Passing
<1>2. PICK t \in worker[w].todo :
        \/ /\ t.op = "delete"
           /\ snaps' = [snaps EXCEPT ![t.run] = Deleted(@)]
           /\ Proceed(w, worker[w].todo \ {t})
        \/ /\ t.op # "delete" /\ There(snaps[t.run])
           /\ snaps' = [snaps EXCEPT ![t.run].latest = (t.op = "mark")]
           /\ Proceed(w, worker[w].todo \ {t})
        \/ Return(w) /\ UNCHANGED <<snaps, passed>>
  BY DEF SeriesStep
<1> DEFINE rest == worker[w].todo \ {t}
<1>3. t.run \in Runs /\ rest \in SUBSET Todo /\ snaps[t.run] \in Snapshot
  BY <1>1 DEF Worker, Todo
<1>4. CASE Return(w) /\ UNCHANGED <<snaps, passed>>
  <2>1. \A v \in Workers : worker'[v] = worker[v] \/ worker'[v].pc = "idle"
    BY <1>1, <1>4, DefaultTypes DEF Return
  <2>2. QED
    BY <1>1, <1>4, <2>1, AsideKeepsBounded
<1>5. CASE /\ Proceed(w, rest)
           /\ \/ t.op = "delete" /\ snaps' = [snaps EXCEPT ![t.run] = Deleted(@)]
              \/ /\ t.op # "delete" /\ There(snaps[t.run])
                 /\ snaps' = [snaps EXCEPT ![t.run].latest = (t.op = "mark")]
  <2>1. /\ \A k \in Runs \ {t.run} : snaps'[k] = snaps[k]
        /\ There(snaps'[t.run]) => There(snaps[t.run])
        /\ Live(snaps'[t.run]) => Live(snaps[t.run]) /\ t.op # "delete"
    <3>1. CASE t.op = "delete" /\ snaps' = [snaps EXCEPT ![t.run] = Deleted(@)]
      <4>1. snaps'[t.run] = Deleted(snaps[t.run])
        BY <1>1, <1>3, <3>1
      <4>2. There(Deleted(snaps[t.run])) => There(snaps[t.run]) /\ Deleted(snaps[t.run]).deleting
        BY <1>3, DefaultTypes DEF Deleted, There, Snapshot
      <4>3. QED
        BY <1>1, <1>3, <3>1, <4>1, <4>2 DEF Live, There
    <3>2. CASE /\ t.op # "delete" /\ There(snaps[t.run])
               /\ snaps' = [snaps EXCEPT ![t.run].latest = (t.op = "mark")]
      <4>1. PICK b \in BOOLEAN : b = (t.op = "mark")
        OBVIOUS
      <4>2. snaps'[t.run] = [snaps[t.run] EXCEPT !.latest = b]
        BY <1>1, <1>3, <3>2, <4>1
      <4>3. snaps'[t.run].deleting = snaps[t.run].deleting
        BY <1>3, <4>2, LatestType
      <4>4. QED
        BY <1>1, <1>3, <3>2, <4>3 DEF Live, There
    <3>3. QED
      BY <1>5, <3>1, <3>2
  <2>2. /\ \A k \in Runs : There(snaps'[k]) => There(snaps[k])
        /\ \A k \in Runs : Live(snaps'[k]) => Live(snaps[k])
    BY <2>1
  <2>3. \A k \in Runs : Live(snaps'[k]) /\ k \in Doomed(worker[w].todo) => k \in Doomed(rest)
    BY <2>1 DEF Doomed
  <2>4. ASSUME NEW v \in Workers, Passing(v)
        PROVE  \/ Few(snaps', Both(v, w), rest)
               \/ v # w /\ Few(snaps', Both(v, w), worker[v].todo)
    <3>1. Both(v, w) \in SUBSET Runs
      BY <1>1, <2>4, Subsets DEF Bounded
    <3>2. PICK u \in {v, w} : Few(snaps, Both(v, w), worker[u].todo)
      BY <1>1, <2>4 DEF Bounded, Trimmed
    <3>3. CASE u = w
      <4>1. Staying(snaps', Both(v, w), rest) \subseteq Staying(snaps, Both(v, w), worker[w].todo)
        BY <2>2, <2>3, <3>1 DEF Staying
      <4>2. QED
        BY <3>1, <3>2, <3>3, <4>1, StillFew
    <3>4. CASE u # w
      <4>1. Staying(snaps', Both(v, w), worker[v].todo)
               \subseteq Staying(snaps, Both(v, w), worker[v].todo)
        BY <2>2, <3>1 DEF Staying
      <4>2. Few(snaps', Both(v, w), worker[v].todo)
        BY <3>1, <3>2, <3>4, <4>1, StillFew
      <4>3. QED
        BY <3>4, <4>2
    <3>5. QED
      BY <3>3, <3>4
  <2>5. Reading(w) /\ Few(snaps', Both(w, w), rest)
    BY <1>1, <2>4 DEF Passing, Reading
  <2> HIDE DEF rest
  <2>6. QED
    BY <1>1, <1>3, <1>5, <2>2, <2>4, <2>5, ProceedKeepsBounded
<1>6. QED
  BY <1>2, <1>4, <1>5

(* The Snapshot controller, the users, the runs and the faults.             *)
LEMMA OthersKeepBounded ==
    ASSUME TypeOK, TypeOK', Bounded, Next, \A w \in Workers : ~Register(w)
    PROVE  Bounded'
<1>1. /\ snaps \in [Runs -> Snapshot] /\ worker \in [Workers -> Worker]
      /\ \A i \in Runs : WorkerOf(i) \in Workers
  BY DEF TypeOK, WorkerOf, Workers
<1>2. UNCHANGED passed
  BY DEF Next, Restart, Sync, DeleteStorage, CreateStorage, ApiError, StartRun, Upload,
     CompleteRun, LoseRun, Begin, ReconcileSnapshot, AddFinalizer, RemoveFinalizer,
     CreateCleanup, Alone, CompleteCleanup, FailCleanup, CollectCleanup, DeleteSnapshot
<1>3. view' = view \/ (view' = snaps /\ UNCHANGED snaps)
  BY DEF Next, Restart, Sync, DeleteStorage, CreateStorage, ApiError, StartRun, Upload,
     CompleteRun, LoseRun, Begin, ReconcileSnapshot, AddFinalizer, RemoveFinalizer,
     CreateCleanup, Alone, CompleteCleanup, FailCleanup, CollectCleanup, DeleteSnapshot
<1>4. \A k \in Runs : /\ There(snaps'[k]) => There(snaps[k])
                      /\ Live(snaps'[k]) => Live(snaps[k])
  <2>1. CASE UNCHANGED snaps
    BY <2>1
  <2>2. ASSUME NEW i \in Runs, AddFinalizer(i) \/ RemoveFinalizer(i) \/ DeleteSnapshot(i)
        PROVE  /\ \A k \in Runs \ {i} : snaps'[k] = snaps[k]
               /\ There(snaps'[i]) => There(snaps[i])
               /\ Live(snaps'[i]) => Live(snaps[i])
    <3>1. snaps[i] \in Snapshot /\ There(snaps[i])
      BY <1>1, <2>2, DefaultTypes DEF AddFinalizer, RemoveFinalizer, DeleteSnapshot, Live, There
    <3>2. /\ [snaps[i] EXCEPT !.finalizer = TRUE].deleting = snaps[i].deleting
          /\ There(Released(snaps[i])) => Released(snaps[i]).deleting = snaps[i].deleting
          /\ There(Deleted(snaps[i])) => Deleted(snaps[i]).deleting
      BY <3>1 DEF Snapshot, Released, Deleted, There
    <3>3. \/ snaps' = [snaps EXCEPT ![i] = [snaps[i] EXCEPT !.finalizer = TRUE]]
          \/ snaps' = [snaps EXCEPT ![i] = Released(snaps[i])]
          \/ snaps' = [snaps EXCEPT ![i] = Deleted(snaps[i])]
      BY <2>2 DEF AddFinalizer, RemoveFinalizer, DeleteSnapshot
    <3>4. /\ \A k \in Runs \ {i} : snaps'[k] = snaps[k]
          /\ \/ snaps'[i] = [snaps[i] EXCEPT !.finalizer = TRUE]
             \/ snaps'[i] = Released(snaps[i])
             \/ snaps'[i] = Deleted(snaps[i])
      BY <1>1, <3>3
    <3>5. QED
      BY <3>1, <3>2, <3>4 DEF Live, There
  <2>3. \/ UNCHANGED snaps
        \/ \E i \in Runs : AddFinalizer(i) \/ RemoveFinalizer(i) \/ DeleteSnapshot(i)
    BY DEF Next, Restart, Sync, DeleteStorage, CreateStorage, ApiError, StartRun, Upload,
       CompleteRun, LoseRun, Begin, ReconcileSnapshot, CreateCleanup, CompleteCleanup,
       FailCleanup, CollectCleanup
  <2>4. QED
    BY <2>1, <2>2, <2>3
<1>5. \A w \in Workers :
        \/ worker'[w] = worker[w] \/ worker'[w].pc = "idle"
        \/ worker'[w].pc \in {"persist", "ready"} /\ w = WorkerOf(worker'[w].run)
  <2>1. ASSUME NEW i \in Runs, Begin(i) PROVE \A w \in Workers \ {WorkerOf(i)} : worker'[w] = worker[w]
    BY <1>1, <2>1 DEF Begin
  <2>2. ASSUME NEW i \in Runs, Begin(i)
        PROVE  worker'[WorkerOf(i)].pc = "persist" /\ worker'[WorkerOf(i)].run = i
    BY <1>1, <2>2 DEF Begin
  <2>3. CASE Restart \/ \E w \in Workers : ApiError(w)
    BY <1>1, <2>3, DefaultTypes DEF Restart, ApiError, Return
  <2>4. UNCHANGED worker \/ Restart \/ (\E w \in Workers : ApiError(w)) \/ (\E i \in Runs : Begin(i))
    BY DEF Next, Sync, DeleteStorage, CreateStorage, StartRun, Upload,
       CompleteRun, LoseRun, ReconcileSnapshot, AddFinalizer, RemoveFinalizer,
       CreateCleanup, Alone, CompleteCleanup, FailCleanup, CollectCleanup, DeleteSnapshot
  <2>5. QED
    BY <2>1, <2>2, <2>3, <2>4
<1>6. QED
  BY <1>2, <1>3, <1>4, <1>5, AsideKeepsBounded

LEMMA BoundedStep == TypeOK /\ Bounded /\ [Next]_vars => Bounded'
<1> SUFFICES ASSUME TypeOK, Bounded, [Next]_vars PROVE Bounded'
  OBVIOUS
<1>1. TypeOK'
  BY TypeStep
<1>2. CASE UNCHANGED vars
  <2>1. UNCHANGED <<snaps, view, worker, passed>>
    BY <1>2 DEF vars
  <2>2. QED
    BY <1>1, <2>1, AsideKeepsBounded
<1>3. ASSUME NEW w \in Workers, Register(w) PROVE Bounded'
  BY <1>1, <1>3, PersistKeepsBounded, MarkKeepsBounded, ListKeepsBounded,
     SeriesStepKeepsBounded DEF Register
<1>4. CASE Next /\ \A w \in Workers : ~Register(w)
  BY <1>1, <1>4, OthersKeepBounded
<1>5. QED
  BY <1>2, <1>3, <1>4

(* However the passes of the two workers interleave, whichever run is       *)
(* observed again and however old the lists are that they act on, retention *)
(* leaves KeepLast of the registered Snapshots at most.                     *)
THEOREM RetentionBounds == Spec => []SeriesBounded
<1>1. Init => Bounded
  <2> SUFFICES ASSUME Init PROVE Bounded
    OBVIOUS
  <2>1. \A w \in Workers : worker[w].pc = "idle"
    BY DefaultTypes DEF Init
  <2>2. Own /\ Trimmed /\ Seen
    BY <2>1 DEF Init, Own, Trimmed, Passing, Seen, Settling, Reading
  <2>3. Staying(snaps, passed, {}) = {}
    BY DEF Init, Staying
  <2>4. Few(snaps, passed, {})
    BY <2>3, FS_EmptySet, SeriesAssumption DEF Few
  <2>5. QED
    BY <2>2, <2>4 DEF Bounded
<1>2. Bounded => SeriesBounded
  <2> SUFFICES ASSUME Bounded PROVE SeriesBounded
    OBVIOUS
  <2>1. Staying(snaps, passed, {}) = {k \in passed : Live(snaps[k])}
    BY DEF Staying, Doomed
  <2>2. QED
    BY <2>1 DEF Bounded, Few, SeriesBounded
<1>3. QED
  BY <1>1, <1>2, BoundedStep, TypeCorrect, PTL DEF Spec
=============================================================================
