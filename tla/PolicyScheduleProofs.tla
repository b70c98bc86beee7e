------------------------ MODULE PolicyScheduleProofs ------------------------
(***************************************************************************)
(* Machine-checked proofs about PolicySchedule, for any storages and any   *)
(* number of edits and faults.                                             *)
(***************************************************************************)
EXTENDS PolicySchedule, TLAPS

----------------------------------------------------------------------------
(* Type correctness *)

(* The values objects and locals start from have the types declared.        *)
LEMMA DefaultTypes ==
    /\ NoCronJob \in CronJob /\ ~NoCronJob.there
    /\ NoPolicy \in Policy
    /\ Idle \in Rec /\ Idle.pc = "idle"
<1>1. NoPolicy \in Policy
  BY ScheduleAssumption DEF NoPolicy, Policy, Phases
<1>2. QED
  BY <1>1 DEF NoCronJob, CronJob, Idle, Rec, PCs, Phases

(* What a reconcile that goes straight to the status leaves to do.          *)
LEMMA PatchType ==
    ASSUME NEW base \in Policy, NEW phase \in Phases, NEW requeue \in BOOLEAN
    PROVE  LET r == Patch(base, phase, requeue) IN
           r \in Rec /\ r.pc = "patch" /\ r.base = base /\ r.phase = phase
    BY DefaultTypes DEF Patch, Idle, Rec, PCs, Phases

LEMMA ApplyType ==
    ASSUME NEW base \in Policy, NEW k \in Keeps, NEW suspend \in BOOLEAN
    PROVE  LET r == [Idle EXCEPT !.pc = "apply", !.base = base, !.keep = k,
                          !.suspend = suspend, !.todo = base.refs]
           IN  /\ r \in Rec /\ r.pc = "apply" /\ r.base = base
               /\ r.todo = base.refs
    BY DEF Idle, Rec, PCs, Phases, Policy

(* The start of a reconcile: it will report a failure, or apply them all.   *)
LEMMA StartType ==
    ASSUME TypeOK
    PROVE  LET r == Start(policyView) IN
           /\ r \in Rec /\ r.base = policyView
           /\ \/ r.pc = "patch" /\ r.phase = "Failed"
              \/ r.pc = "apply" /\ r.todo = policyView.refs /\ r.todo # {}
<1>1. policyView \in Policy /\ keep \in Keeps /\ "Failed" \in Phases
  BY DEF TypeOK, Phases
<1>2. PICK suspend \in BOOLEAN : suspend = (policyView.suspend \/ source = "paused")
  OBVIOUS
<1>3. \A b \in BOOLEAN :
        LET r == Patch(policyView, "Failed", b) IN
        r \in Rec /\ r.pc = "patch" /\ r.base = policyView /\ r.phase = "Failed"
  BY <1>1, PatchType
<1>4. LET r == [Idle EXCEPT !.pc = "apply", !.base = policyView, !.keep = keep,
                     !.suspend = suspend, !.todo = policyView.refs]
      IN  r \in Rec /\ r.pc = "apply" /\ r.base = policyView /\ r.todo = policyView.refs
  BY <1>1, ApplyType, ZenonT(60)
<1>5. QED
  BY <1>2, <1>3, <1>4 DEF Start

(* The locals of a reconcile step by step.                                  *)
LEMMA ApplyStep ==
    ASSUME TypeOK, NEW s \in Storages, ApplyCronJob(s)
    PROVE  /\ rec.pc = "apply" /\ s \in rec.todo /\ rec' \in Rec
           /\ \/ Fail /\ UNCHANGED <<cron, pending>>
              \/ /\ cron' \in [Storages -> CronJob]
                 /\ cron'[s].there /\ cron'[s].suspend = rec.suspend
                 /\ \A t \in Storages \ {s} : cron'[t] = cron[t]
                 /\ rec'.base = rec.base /\ rec'.suspend = rec.suspend
                 /\ rec'.todo = rec.todo \ {s}
                 /\ rec'.pc = IF rec.todo = {s} THEN "list" ELSE "apply"
                 /\ pending' \in {pending, pending \cup {s}}
                 /\ UNCHANGED due
<1>1. rec \in Rec /\ rec.todo \subseteq Storages /\ rec.suspend \in BOOLEAN
      /\ rec.keep \in Keeps \cup {0} /\ cron \in [Storages -> CronJob]
  BY DEF TypeOK, Rec
<1>2. CASE Fail /\ UNCHANGED <<cron, pending>>
  BY <1>2, DefaultTypes DEF Fail, ApplyCronJob
<1>3. CASE cronView[s].there = cron[s].there
  <2> DEFINE c  == [there |-> TRUE, suspend |-> rec.suspend, keep |-> rec.keep]
             pc == IF rec.todo = {s} THEN "list" ELSE "apply"
  <2>1. c \in CronJob /\ c.there /\ c.suspend = rec.suspend
    BY <1>1 DEF CronJob
  <2>2. cron' = [cron EXCEPT ![s] = c] /\ rec' = [rec EXCEPT !.todo = rec.todo \ {s}, !.pc = pc]
    BY <1>3 DEF ApplyCronJob
  <2>3. pc \in PCs /\ (rec.todo \ {s}) \in SUBSET Storages
    BY <1>1 DEF PCs
  <2>4. /\ rec' \in Rec /\ rec'.pc = pc /\ rec'.todo = rec.todo \ {s}
        /\ rec'.base = rec.base /\ rec'.suspend = rec.suspend
    BY <1>1, <2>2, <2>3 DEF Rec
  <2>5. /\ cron' \in [Storages -> CronJob] /\ cron'[s] = c
        /\ \A t \in Storages \ {s} : cron'[t] = cron[t]
    BY <1>1, <2>1, <2>2
  <2>6. QED
    BY <1>3, <2>1, <2>4, <2>5 DEF ApplyCronJob
<1>4. QED
  BY <1>2, <1>3 DEF ApplyCronJob

LEMMA ListStep ==
    ASSUME TypeOK, ListCronJobs
    PROVE  /\ rec.pc = "list" /\ rec' \in Rec
           /\ rec'.base = rec.base /\ rec'.suspend = rec.suspend
           /\ rec'.todo = Orphans
           /\ rec'.pc = IF Orphans = {} THEN "patch" ELSE "prune"
           /\ rec'.phase = IF rec.suspend THEN "Paused" ELSE "Configured"
<1>1. Orphans \in SUBSET Storages
  BY DEF Orphans
<1>2. (IF Orphans = {} THEN "patch" ELSE "prune") \in PCs
  BY DEF PCs
<1>3. (IF rec.suspend THEN "Paused" ELSE "Configured") \in Phases
  BY DEF Phases
<1>4. rec \in Rec
  BY DEF TypeOK
<1>5. QED
  BY <1>1, <1>2, <1>3, <1>4 DEF ListCronJobs, Rec

LEMMA DeleteStep ==
    ASSUME TypeOK, NEW s \in Storages, DeleteOrphan(s)
    PROVE  /\ rec.pc = "prune" /\ s \in rec.todo /\ rec' \in Rec
           /\ cron' \in [Storages -> CronJob]
           /\ \A t \in Storages \ {s} : cron'[t] = cron[t]
           /\ rec'.base = rec.base /\ rec'.suspend = rec.suspend /\ rec'.phase = rec.phase
           /\ rec'.todo = rec.todo \ {s}
           /\ rec'.pc = IF rec.todo = {s} THEN "patch" ELSE "prune"
           /\ pending' \in {pending, pending \cup {s}}
<1> DEFINE pc == IF rec.todo = {s} THEN "patch" ELSE "prune"
<1>1. rec \in Rec /\ (rec.todo \ {s}) \in SUBSET Storages /\ pc \in PCs
  BY DEF TypeOK, Rec, PCs
<1>2. rec' = [rec EXCEPT !.todo = rec.todo \ {s}, !.pc = pc]
  BY DEF DeleteOrphan
<1>3. /\ rec' \in Rec /\ rec'.pc = pc /\ rec'.todo = rec.todo \ {s}
      /\ rec'.base = rec.base /\ rec'.suspend = rec.suspend /\ rec'.phase = rec.phase
  BY <1>1, <1>2 DEF Rec
<1>4. /\ cron' \in [Storages -> CronJob]
      /\ \A t \in Storages \ {s} : cron'[t] = cron[t]
  BY DefaultTypes DEF DeleteOrphan, TypeOK
<1>5. QED
  BY <1>3, <1>4 DEF DeleteOrphan

(* The status patch keeps what users wrote.                                 *)
LEMMA PatchStep ==
    ASSUME TypeOK, PatchStatus
    PROVE  /\ policy' \in Policy /\ policy'.refs = policy.refs
           /\ policy'.phase = IF rec.phase # rec.base.phase THEN rec.phase ELSE policy.phase
           /\ policy'.names = LET names == IF rec.phase = "Failed" THEN rec.base.names
                                           ELSE rec.base.refs
                              IN  IF names # rec.base.names THEN names ELSE policy.names
           /\ rec' = Idle
<1>1. policy \in Policy /\ rec.phase \in Phases /\ rec.base \in Policy
  BY DEF TypeOK, Rec
<1>2. rec.base.names \subseteq Storages /\ rec.base.refs \subseteq Storages
  BY <1>1 DEF Policy
<1>3. QED
  BY <1>1, <1>2 DEF PatchStatus, Policy

LEMMA EditType ==
    ASSUME NEW p \in Policy, NEW refs \in SUBSET Storages, NEW suspend \in Suspensions
    PROVE  LET n == [p EXCEPT !.refs = refs, !.suspend = suspend] IN
           n \in Policy /\ n.refs = refs
    BY DEF Policy

LEMMA TypeStep == TypeOK /\ [Next]_vars => TypeOK'
<1> SUFFICES ASSUME TypeOK, [Next]_vars PROVE TypeOK'
  OBVIOUS
<1>0. edits + 1 \in Nat /\ faults + 1 \in Nat /\ rec \in Rec
  BY DEF TypeOK
<1>1. CASE UNCHANGED vars
  BY <1>1 DEF vars, TypeOK
<1>2. CASE Begin
  BY <1>2, StartType DEF Begin, Configuration, TypeOK
<1>3. ASSUME NEW s \in Storages, ApplyCronJob(s) PROVE TypeOK'
  <2>1. rec' \in Rec /\ (rec'.pc \in {"apply", "prune"} => rec'.todo # {})
    BY <1>3, ApplyStep, DefaultTypes DEF Fail
  <2>2. /\ cron' \in [Storages -> CronJob] /\ due' \in BOOLEAN
        /\ pending' \subseteq Storages \cup {ThePolicy}
    BY <1>3, ApplyStep DEF Fail, TypeOK
  <2>3. QED
    BY <1>3, <2>1, <2>2 DEF ApplyCronJob, Configuration, TypeOK
<1>4. CASE ListCronJobs
  <2>1. rec' \in Rec /\ (rec'.pc \in {"apply", "prune"} => rec'.todo # {})
    BY <1>4, ListStep
  <2>2. QED
    BY <1>4, <2>1 DEF ListCronJobs, Configuration, TypeOK
<1>5. ASSUME NEW s \in Storages, DeleteOrphan(s) PROVE TypeOK'
  <2>1. rec' \in Rec /\ (rec'.pc \in {"apply", "prune"} => rec'.todo # {})
    BY <1>5, DeleteStep
  <2>2. cron' \in [Storages -> CronJob] /\ pending' \subseteq Storages \cup {ThePolicy}
    BY <1>5, DeleteStep DEF TypeOK
  <2>3. QED
    BY <1>5, <2>1, <2>2 DEF DeleteOrphan, Configuration, TypeOK
<1>6. CASE PatchStatus
  <2>1. policy' \in Policy /\ rec' = Idle
    BY <1>6, PatchStep
  <2>2. due' \in BOOLEAN /\ pending' \subseteq Storages \cup {ThePolicy}
    BY <1>0, <1>6 DEF PatchStatus, TypeOK, Rec
  <2>3. QED
    BY <1>6, <2>1, <2>2, DefaultTypes DEF PatchStatus, Configuration, TypeOK
<1>7. CASE ApiError \/ Restart
  BY <1>0, <1>7, DefaultTypes DEF ApiError, Restart, Fail, Configuration, TypeOK
<1>8. CASE Resync \/ SyncPolicy \/ \E s \in Storages : SyncCronJob(s) \/ Fire(s)
  BY <1>8 DEF Resync, SyncPolicy, SyncCronJob, Fire, Configuration, TypeOK
<1>9. CASE EditPolicy
  <2>1. PICK refs \in SUBSET Storages, suspend \in Suspensions :
          /\ policy' = [policy EXCEPT !.refs = refs, !.suspend = suspend]
          /\ unwanted' = unwanted \cup (Storages \ refs)
    BY <1>9 DEF EditPolicy
  <2>2. policy' \in Policy /\ unwanted' \subseteq Storages
    BY <2>1, EditType DEF TypeOK
  <2>3. QED
    BY <1>0, <1>9, <2>2 DEF EditPolicy, Edited, TypeOK
<1>10. CASE EditSource \/ EditStorages \/ EditRetention
  BY <1>0, <1>10 DEF EditSource, EditStorages, EditRetention, Edited, TypeOK
<1>11. QED
  BY <1>1, <1>2, <1>3, <1>4, <1>5, <1>6, <1>7, <1>8, <1>9, <1>10 DEF Next, Reconcile

LEMMA InitTypes == Init => TypeOK
<1> SUFFICES ASSUME Init PROVE TypeOK
  OBVIOUS
<1>1. PICK refs \in SUBSET Storages, suspend \in Suspensions :
        policy = [refs |-> refs, suspend |-> suspend, phase |-> "", names |-> {}]
  BY DEF Init
<1>2. policy \in Policy
  BY <1>1 DEF Policy, Phases
<1>3. QED
  BY <1>2, DefaultTypes DEF Init, TypeOK

(* The values stay in their types, and a fan-out is under way exactly as    *)
(* long as a CronJob is left to write or to delete.                         *)
THEOREM TypeCorrect == Spec => []TypeOK
    BY InitTypes, TypeStep, PTL DEF Spec

----------------------------------------------------------------------------
(* Removal *)

(* Whatever version of the policy is current, cached or being applied: the  *)
(* storages it leaves out are unwanted, and a reconcile deletes only such.  *)
LeftOutIsUnwanted ==
    /\ Storages \ policy.refs \subseteq unwanted
    /\ Storages \ policyView.refs \subseteq unwanted
    /\ rec.pc # "idle" => Storages \ rec.base.refs \subseteq unwanted
    /\ rec.pc = "prune" => rec.todo \cap rec.base.refs = {}

LEMMA LeftOutStep == TypeOK /\ LeftOutIsUnwanted /\ [Next]_vars => LeftOutIsUnwanted'
<1> SUFFICES ASSUME TypeOK, LeftOutIsUnwanted, [Next]_vars PROVE LeftOutIsUnwanted'
  OBVIOUS
<1>1. CASE UNCHANGED vars
  BY <1>1 DEF vars, LeftOutIsUnwanted
<1>2. CASE Begin
  BY <1>2, StartType DEF Begin, Configuration, LeftOutIsUnwanted
<1>3. ASSUME NEW s \in Storages, ApplyCronJob(s) PROVE LeftOutIsUnwanted'
  BY <1>3, ApplyStep, DefaultTypes DEF ApplyCronJob, Fail, Configuration, LeftOutIsUnwanted
<1>4. CASE ListCronJobs
  BY <1>4, ListStep DEF ListCronJobs, Orphans, Configuration, LeftOutIsUnwanted
<1>5. ASSUME NEW s \in Storages, DeleteOrphan(s) PROVE LeftOutIsUnwanted'
  BY <1>5, DeleteStep DEF DeleteOrphan, Configuration, LeftOutIsUnwanted
<1>6. CASE PatchStatus
  BY <1>6, PatchStep, DefaultTypes DEF PatchStatus, Configuration, LeftOutIsUnwanted
<1>7. CASE ApiError \/ Restart
  BY <1>7, DefaultTypes DEF ApiError, Restart, Fail, Configuration, LeftOutIsUnwanted
<1>8. CASE Resync \/ SyncPolicy \/ \E s \in Storages : SyncCronJob(s) \/ Fire(s)
  BY <1>8 DEF Resync, SyncPolicy, SyncCronJob, Fire, Configuration, LeftOutIsUnwanted
<1>9. CASE EditPolicy
  <2>1. PICK refs \in SUBSET Storages, suspend \in Suspensions :
          /\ policy' = [policy EXCEPT !.refs = refs, !.suspend = suspend]
          /\ unwanted' = unwanted \cup (Storages \ refs)
    BY <1>9 DEF EditPolicy
  <2>2. policy'.refs = refs
    BY <2>1, EditType DEF TypeOK
  <2>3. QED
    BY <1>9, <2>1, <2>2 DEF EditPolicy, Edited, LeftOutIsUnwanted
<1>10. CASE EditSource \/ EditStorages \/ EditRetention
  BY <1>10 DEF EditSource, EditStorages, EditRetention, Edited, LeftOutIsUnwanted
<1>11. QED
  BY <1>1, <1>2, <1>3, <1>4, <1>5, <1>6, <1>7, <1>8, <1>9, <1>10 DEF Next, Reconcile

(* Nothing but DeleteOrphan takes a CronJob away.                           *)
LEMMA RemovalStep ==
    ASSUME TypeOK, LeftOutIsUnwanted, [Next]_vars, NEW s \in Storages,
           cron[s].there, ~cron'[s].there
    PROVE  s \in unwanted
<1>1. ASSUME NEW t \in Storages, ApplyCronJob(t) PROVE FALSE
  BY <1>1, ApplyStep
<1>2. ASSUME NEW t \in Storages, DeleteOrphan(t) PROVE s \in unwanted
  BY <1>2, DeleteStep DEF LeftOutIsUnwanted
<1>3. QED
  BY <1>1, <1>2
     DEF Next, Reconcile, Begin, ListCronJobs, PatchStatus, ApiError, Restart, Resync,
         SyncPolicy, SyncCronJob, Fire, EditPolicy, EditSource, EditStorages,
         EditRetention, Edited, vars

(* A CronJob and its history are removed only if some version of the policy *)
(* left its storage out.                                                    *)
THEOREM RemovalIsWanted == Spec => OnlyUnwantedRemoved
<1>1. Init => LeftOutIsUnwanted
  BY DefaultTypes DEF Init, LeftOutIsUnwanted
<1>2. TypeOK /\ LeftOutIsUnwanted /\ [Next]_vars =>
        [\A s \in Storages : cron[s].there /\ ~cron'[s].there => s \in unwanted]_vars
  BY RemovalStep
<1>3. QED
  BY <1>1, <1>2, LeftOutStep, TypeCorrect, PTL DEF Spec, OnlyUnwantedRemoved

----------------------------------------------------------------------------
(* The status *)

(* A reconcile whose policy has not changed since works on the current copy *)
(* of it, and so does the cache that no event is on the way to.             *)
NothingMissed ==
    /\ ThePolicy \notin pending => policyView = policy
    /\ rec.pc # "idle" /\ ~due => rec.base = policyView

Asked(s, suspend) == cron[s].there /\ cron[s].suspend = suspend

(* The CronJobs that a reconcile has applied so far are as it wants them,   *)
(* and what it is going to report tells it.                                 *)
AppliedSoFar ==
    /\ rec.pc = "apply" => \A s \in rec.base.refs \ rec.todo : Asked(s, rec.suspend)
    /\ rec.pc \in {"list", "prune"} => \A s \in rec.base.refs : Asked(s, rec.suspend)
    /\ rec.pc = "prune" => rec.phase = IF rec.suspend THEN "Paused" ELSE "Configured"
    /\ rec.pc = "patch" =>
          \/ rec.phase = "Failed"
          \/ /\ rec.phase \in {"Configured", "Paused"}
             /\ \A s \in rec.base.refs : Asked(s, rec.phase = "Paused")

(* The status is that of the last reconcile, as soon as nothing calls for   *)
(* another one.                                                             *)
Reported ==
    /\ rec.pc = "idle" /\ ~due /\ ThePolicy \notin pending
    /\ policy.phase \in {"Configured", "Paused"}
    => /\ policy.names = policy.refs
       /\ \A s \in policy.refs : Asked(s, policy.phase = "Paused")

LEMMA StatusInit == Init => NothingMissed /\ AppliedSoFar /\ Reported
    BY DefaultTypes DEF Init, NothingMissed, AppliedSoFar, Reported

LEMMA MissedStep ==
    ASSUME TypeOK, NothingMissed, [Next]_vars PROVE NothingMissed'
<1>1. CASE UNCHANGED vars
  BY <1>1 DEF vars, NothingMissed
<1>2. CASE Begin
  BY <1>2, StartType DEF Begin, NothingMissed
<1>3. ASSUME NEW s \in Storages, ApplyCronJob(s) PROVE NothingMissed'
  <2>1. s # ThePolicy
    BY EventAssumption
  <2>2. QED
    BY <1>3, ApplyStep, DefaultTypes DEF ApplyCronJob, Fail, NothingMissed
<1>4. CASE ListCronJobs
  BY <1>4, ListStep DEF ListCronJobs, NothingMissed
<1>5. ASSUME NEW s \in Storages, DeleteOrphan(s) PROVE NothingMissed'
  BY <1>5, DeleteStep DEF DeleteOrphan, NothingMissed
<1>6. CASE PatchStatus
  BY <1>6, DefaultTypes DEF PatchStatus, NothingMissed
<1>7. CASE ApiError \/ Restart
  BY <1>7, DefaultTypes DEF ApiError, Restart, Fail, NothingMissed
<1>8. CASE Resync \/ SyncPolicy
  BY <1>8 DEF Resync, SyncPolicy, NothingMissed
<1>9. ASSUME NEW s \in Storages, SyncCronJob(s) \/ Fire(s) PROVE NothingMissed'
  BY <1>9, EventAssumption DEF SyncCronJob, Fire, NothingMissed
<1>10. CASE EditPolicy \/ EditSource \/ EditStorages \/ EditRetention
  BY <1>10 DEF EditPolicy, EditSource, EditStorages, EditRetention, Edited, NothingMissed
<1>11. QED
  BY <1>1, <1>2, <1>3, <1>4, <1>5, <1>6, <1>7, <1>8, <1>9, <1>10 DEF Next, Reconcile

LEMMA AppliedStep ==
    ASSUME TypeOK, LeftOutIsUnwanted, AppliedSoFar, [Next]_vars PROVE AppliedSoFar'
<1>1. CASE UNCHANGED vars
  BY <1>1 DEF vars, AppliedSoFar, Asked
<1>2. CASE Begin
  <2>1. rec'.base.refs \ rec'.todo = {} \/ (rec'.pc = "patch" /\ rec'.phase = "Failed")
    BY <1>2, StartType DEF Begin
  <2>2. rec'.pc \in {"apply", "patch"}
    BY <1>2, StartType DEF Begin
  <2>3. rec'.pc = "apply" => rec'.base.refs \ rec'.todo = {}
    BY <1>2, StartType DEF Begin
  <2>4. rec'.pc = "patch" => rec'.phase = "Failed"
    BY <1>2, StartType DEF Begin
  <2>5. QED
    BY <2>2, <2>3, <2>4 DEF AppliedSoFar
<1>3. ASSUME NEW s \in Storages, ApplyCronJob(s) PROVE AppliedSoFar'
  <2>1. CASE Fail
    BY <2>1, DefaultTypes DEF Fail, AppliedSoFar
  <2>2. CASE ~Fail
    <3>1. /\ rec.pc = "apply" /\ s \in rec.todo /\ Asked(s, rec.suspend)'
          /\ \A t \in Storages \ {s} : cron'[t] = cron[t]
          /\ rec'.base = rec.base /\ rec'.suspend = rec.suspend
          /\ rec'.todo = rec.todo \ {s}
          /\ rec'.pc = IF rec.todo = {s} THEN "list" ELSE "apply"
          /\ rec.base.refs \subseteq Storages
      BY <1>3, <2>2, ApplyStep DEF Asked, TypeOK, Rec, Policy
    <3>2. \A t \in rec'.base.refs \ rec'.todo : Asked(t, rec.suspend)'
      BY <3>1 DEF AppliedSoFar, Asked
    <3>3. QED
      BY <3>1, <3>2 DEF AppliedSoFar
  <2>3. QED
    BY <2>1, <2>2
<1>4. CASE ListCronJobs
  <2>1. /\ \A s \in rec.base.refs : Asked(s, rec.suspend)
        /\ UNCHANGED cron /\ rec.suspend \in BOOLEAN
    BY <1>4 DEF ListCronJobs, AppliedSoFar, TypeOK, Rec
  <2>2. \A s \in rec'.base.refs : Asked(s, rec.suspend)'
    BY <1>4, <2>1, ListStep DEF Asked
  <2>3. rec.suspend = (rec'.phase = "Paused")
    BY <1>4, <2>1, ListStep
  <2>4. /\ rec'.pc \in {"patch", "prune"} /\ rec'.suspend = rec.suspend
        /\ rec'.phase = IF rec'.suspend THEN "Paused" ELSE "Configured"
    BY <1>4, ListStep
  <2>5. QED
    BY <2>2, <2>3, <2>4 DEF AppliedSoFar, Asked
<1>5. ASSUME NEW s \in Storages, DeleteOrphan(s) PROVE AppliedSoFar'
  <2>1. /\ rec.pc = "prune" /\ s \notin rec.base.refs /\ rec.base.refs \subseteq Storages
        /\ \A t \in Storages \ {s} : cron'[t] = cron[t]
        /\ rec'.base = rec.base /\ rec'.suspend = rec.suspend /\ rec'.phase = rec.phase
        /\ rec'.pc \in {"patch", "prune"} /\ rec.suspend \in BOOLEAN
    BY <1>5, DeleteStep DEF LeftOutIsUnwanted, TypeOK, Rec, Policy
  <2>2. \A t \in rec'.base.refs : Asked(t, rec.suspend)'
    BY <2>1 DEF AppliedSoFar, Asked
  <2>3. rec'.phase = IF rec.suspend THEN "Paused" ELSE "Configured"
    BY <2>1 DEF AppliedSoFar
  <2>4. rec.suspend = (rec'.phase = "Paused")
    BY <2>1, <2>3
  <2>5. QED
    BY <2>1, <2>2, <2>3, <2>4 DEF AppliedSoFar, Asked
<1>6. CASE PatchStatus \/ ApiError \/ Restart
  BY <1>6, DefaultTypes DEF PatchStatus, ApiError, Restart, Fail, AppliedSoFar
<1>7. CASE Resync \/ SyncPolicy \/ \E s \in Storages : SyncCronJob(s) \/ Fire(s)
  BY <1>7 DEF Resync, SyncPolicy, SyncCronJob, Fire, AppliedSoFar, Asked
<1>8. CASE EditPolicy \/ EditSource \/ EditStorages \/ EditRetention
  BY <1>8 DEF EditPolicy, EditSource, EditStorages, EditRetention, Edited, AppliedSoFar,
              Asked
<1>9. QED
  BY <1>1, <1>2, <1>3, <1>4, <1>5, <1>6, <1>7, <1>8 DEF Next, Reconcile

(* The last reconcile before the rest has found the status that it wrote:   *)
(* otherwise the event of its patch would be on the way.                    *)
LEMMA ReportedStep ==
    ASSUME TypeOK, NothingMissed, AppliedSoFar, Reported, [Next]_vars PROVE Reported'
<1>1. CASE UNCHANGED vars
  BY <1>1 DEF vars, Reported, Asked
<1>2. CASE Begin
  BY <1>2, StartType DEF Begin, Reported
<1>3. ASSUME NEW s \in Storages, ApplyCronJob(s) PROVE Reported'
  BY <1>3, ApplyStep DEF Fail, Reported
<1>4. CASE ListCronJobs
  BY <1>4, ListStep DEF Reported
<1>5. ASSUME NEW s \in Storages, DeleteOrphan(s) PROVE Reported'
  BY <1>5, DeleteStep DEF Reported
<1>6. CASE PatchStatus
  <2> SUFFICES ASSUME ~due', ThePolicy \notin pending',
                      policy'.phase \in {"Configured", "Paused"}
               PROVE  /\ policy'.names = policy'.refs
                      /\ (\A s \in policy.refs : Asked(s, policy.phase = "Paused"))'
    BY DEF Reported
  <2>1. policy' = policy /\ ThePolicy \notin pending /\ ~due /\ rec.pc = "patch"
    BY <1>6 DEF PatchStatus
  <2>2. rec.base = policy
    BY <2>1 DEF NothingMissed
  <2>3. rec.phase = policy.phase
    BY <1>6, <2>1, <2>2, PatchStep
  <2>4. rec.phase # "Failed"
    BY <2>1, <2>3
  <2>5. policy.names = policy.refs
    BY <1>6, <2>1, <2>2, <2>4, PatchStep
  <2>6. \A s \in policy.refs : Asked(s, policy.phase = "Paused")
    BY <2>1, <2>2, <2>3, <2>4 DEF AppliedSoFar
  <2>7. QED
    BY <1>6, <2>1, <2>5, <2>6 DEF PatchStatus, Asked
<1>7. CASE ApiError \/ Restart
  BY <1>7 DEF ApiError, Restart, Fail, Reported
<1>8. CASE Resync \/ SyncPolicy
  BY <1>8 DEF Resync, SyncPolicy, Reported
<1>9. ASSUME NEW s \in Storages, SyncCronJob(s) \/ Fire(s) PROVE Reported'
  BY <1>9, EventAssumption DEF SyncCronJob, Fire, Reported, Asked
<1>10. CASE EditPolicy
  BY <1>10 DEF EditPolicy, Reported
<1>11. CASE EditSource \/ EditStorages \/ EditRetention
  BY <1>11 DEF EditSource, EditStorages, EditRetention, Edited, Reported, Asked
<1>12. QED
  BY <1>1, <1>2, <1>3, <1>4, <1>5, <1>6, <1>7, <1>8, <1>9, <1>10, <1>11
     DEF Next, Reconcile

(* What the status of a policy at rest says of its CronJobs is true,        *)
(* whatever conflicts, errors, restarts and stale copies came before.       *)
THEOREM StatusIsTrue == Spec => []StatusAgrees
<1> DEFINE Inv == LeftOutIsUnwanted /\ NothingMissed /\ AppliedSoFar /\ Reported
<1>1. Init => Inv
  BY StatusInit, DefaultTypes DEF Init, LeftOutIsUnwanted
<1>2. TypeOK /\ Inv /\ [Next]_vars => Inv'
  BY LeftOutStep, MissedStep, AppliedStep, ReportedStep
<1>3. Inv => StatusAgrees
  BY DEF Reported, StatusAgrees, Quiet, Asked
<1>4. QED
  BY <1>1, <1>2, <1>3, TypeCorrect, PTL DEF Spec
=============================================================================
