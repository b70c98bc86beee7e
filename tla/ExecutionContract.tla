------------------------- MODULE ExecutionContract -------------------------
(***************************************************************************)
(* What the BackupJob and RestoreJob controllers promise about the native  *)
(* Jobs they drive, without the caches, merge patches, crashes and retries *)
(* with which they keep it: an object has at most one native Job at a      *)
(* time, each starts afresh, and a success is claimed in the status or     *)
(* announced to the outside only after a native Job has succeeded.         *)
(***************************************************************************)
EXTENDS Naturals

CONSTANTS Objects  \* the BackupJobs or RestoreJobs

VARIABLES
    job,        \* the object's native Job
    runs,       \* native Jobs started so far
    succeeded,  \* the runs that succeeded
    claimed,    \* the object's status says Succeeded
    announced   \* the runs whose success was announced

vars == <<job, runs, succeeded, claimed, announced>>

Init ==
    /\ job = [o \in Objects |-> "none"]
    /\ runs = [o \in Objects |-> 0]
    /\ succeeded = [o \in Objects |-> {}]
    /\ claimed = [o \in Objects |-> FALSE]
    /\ announced = [o \in Objects |-> {}]

Start(o) ==
    /\ job[o] = "none"
    /\ job' = [job EXCEPT ![o] = "running"]
    /\ runs' = [runs EXCEPT ![o] = @ + 1]
    /\ UNCHANGED <<succeeded, claimed, announced>>

Succeed(o) ==
    /\ job[o] = "running"
    /\ job' = [job EXCEPT ![o] = "done"]
    /\ succeeded' = [succeeded EXCEPT ![o] = @ \cup {runs[o]}]
    /\ UNCHANGED <<runs, claimed, announced>>

Fail(o) ==
    /\ job[o] = "running"
    /\ job' = [job EXCEPT ![o] = "done"]
    /\ UNCHANGED <<runs, succeeded, claimed, announced>>

(* A finished native Job is removed; only then may another one start.       *)
Expire(o) ==
    /\ job[o] = "done"
    /\ job' = [job EXCEPT ![o] = "none"]
    /\ UNCHANGED <<runs, succeeded, claimed, announced>>

Claim(o) ==
    /\ succeeded[o] # {}
    /\ claimed' = [claimed EXCEPT ![o] = TRUE]
    /\ UNCHANGED <<job, runs, succeeded, announced>>

(* The status moves on: another run, a missing object, a pause.             *)
Withdraw(o) ==
    /\ claimed' = [claimed EXCEPT ![o] = FALSE]
    /\ UNCHANGED <<job, runs, succeeded, announced>>

Announce(o) ==
    /\ \E run \in succeeded[o] : announced' = [announced EXCEPT ![o] = @ \cup {run}]
    /\ UNCHANGED <<job, runs, succeeded, claimed>>

Next ==
    \E o \in Objects :
        \/ Start(o) \/ Succeed(o) \/ Fail(o) \/ Expire(o)
        \/ Claim(o) \/ Withdraw(o) \/ Announce(o)

Spec == Init /\ [][Next]_vars
=============================================================================
