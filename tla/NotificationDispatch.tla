------------------------ MODULE NotificationDispatch ------------------------
(***************************************************************************)
(* The way of an event from a controller through the notification gateway  *)
(* to its targets.                                                         *)
(*                                                                         *)
(* A sender is the controller that observes one finished native Job:       *)
(* JobObserver for a run of a CronJob, which keeps the result of the       *)
(* delivery in an annotation of the Job and is called again by events and  *)
(* resyncs only, or the BackupJob controller, which keeps it in the        *)
(* BackupJob's status and is requeued every 30 seconds.  A dispatch is one *)
(* HTTP request, which the gateway serves by calling the targets one after *)
(* another; the client does not wait longer than ClientTimeout, and hangs  *)
(* up on the gateway, whose calls depend on the request's context.  What   *)
(* else an observation does is in SnapshotSeries and BackupExecution.      *)
(***************************************************************************)
EXTENDS Naturals, Sequences

CONSTANTS
    TimeoutOf,      \* the targets of an event, in the order of notificationRefs:
                    \* how long the gateway waits for each of them
    Senders,        \* one per native Job
    Observers,      \* those served by JobObserver
    ClientTimeout,  \* how long a controller waits for the gateway
    MaxFaults       \* bound: crashes and API errors

Index == 1..Len(TimeoutOf)

ASSUME DispatchAssumption ==
    /\ TimeoutOf \in Seq(Nat \ {0}) /\ TimeoutOf # <<>>
    /\ Observers \subseteq Senders
    /\ ClientTimeout \in Nat \ {0}
    /\ MaxFaults \in Nat

VARIABLES
    health,     \* what a target makes of a call
    resolves,   \* the endpoints and the secrets of their headers are there
    recorded,   \* the annotation or the status says that the event is delivered
    recView,    \* the informer's copy of that
    due,        \* the work queue holds the native Job or the BackupJob
    request,    \* the sender's dispatch and how far the gateway has come
    received,   \* the targets that have accepted the event
    faults      \* faults so far

vars == <<health, resolves, recorded, recView, due, request, received, faults>>

----------------------------------------------------------------------------
(* Values *)

Healths == {"up", "down", "hangs"}
Request == [pc : {"idle", "sent", "answered", "record"}, at : Index,
            elapsed : Nat, success : BOOLEAN]

Idle == [pc |-> "idle", at |-> 1, elapsed |-> 0, success |-> FALSE]
Sent == [pc |-> "sent", at |-> 1, elapsed |-> 0, success |-> TRUE]

TypeOK ==
    /\ health \in [Index -> Healths]
    /\ resolves \in BOOLEAN
    /\ recorded \in [Senders -> BOOLEAN]
    /\ recView \in [Senders -> BOOLEAN]
    /\ due \subseteq Senders
    /\ request \in [Senders -> Request]
    /\ \A s \in Senders : request[s].pc = "sent" => request[s].elapsed < ClientTimeout
    /\ received \in [Senders -> SUBSET Index]
    /\ faults \in Nat

(* The native Jobs have just ended, and the event that tells it is there.   *)
Init ==
    /\ health \in [Index -> Healths]
    /\ resolves = TRUE
    /\ recorded = [s \in Senders |-> FALSE]
    /\ recView = recorded
    /\ due = Senders
    /\ request = [s \in Senders |-> Idle]
    /\ received = [s \in Senders |-> {}]
    /\ faults = 0

----------------------------------------------------------------------------
(* The sender *)

(* What the queue holds after a reconcile. *)
Requeued(s) == IF s \in Observers THEN due \ {s} ELSE due

(* Mutant of Begin: looks for another value than the one it records.        *)
BeginAlways(s) ==
    /\ request[s] = Idle
    /\ s \in due
    /\ due' = Requeued(s)
    /\ request' = IF resolves THEN [request EXCEPT ![s] = Sent] ELSE request
    /\ UNCHANGED <<health, resolves, recorded, recView, received, faults>>

(* A reconcile gets to the event, and sends it unless its cached copy says  *)
(* that it has been delivered or the targets cannot be resolved.            *)
Begin(s) ==
    /\ request[s] = Idle
    /\ s \in due
    /\ due' = Requeued(s)
    /\ request' = IF ~recView[s] /\ resolves
                  THEN [request EXCEPT ![s] = Sent] ELSE request
    /\ UNCHANGED <<health, resolves, recorded, recView, received, faults>>

(* The answer, or its absence, has arrived; only a success is worth noting. *)
TakeAnswer(s) ==
    /\ request[s].pc = "answered"
    /\ request' = [request EXCEPT ![s] =
                     IF @.success THEN [Idle EXCEPT !.pc = "record"] ELSE Idle]
    /\ UNCHANGED <<health, resolves, recorded, recView, due, received, faults>>

(* The patch of the annotation or of the status, which is an event itself.  *)
Record(s) ==
    /\ request[s].pc = "record"
    /\ recorded' = [recorded EXCEPT ![s] = TRUE]
    /\ request' = [request EXCEPT ![s] = Idle]
    /\ UNCHANGED <<health, resolves, recView, due, received, faults>>

----------------------------------------------------------------------------
(* The gateway *)

Answered(s, success) ==
    request' = [request EXCEPT ![s] = [Idle EXCEPT !.pc = "answered", !.success = success]]

(* Mutant of Advance: the first failure ends the request. *)
AdvanceUntilFailure(s, cost, ok) ==
    LET r == request[s] IN
    IF r.at = Len(TimeoutOf) \/ ~ok
    THEN Answered(s, r.success /\ ok)
    ELSE request' = [request EXCEPT ![s] = [r EXCEPT !.at = @ + 1,
                       !.elapsed = @ + cost]]

(* Mutant of Advance: one target too many. *)
AdvanceTooFar(s, cost, ok) ==
    LET r == request[s] IN
    IF r.at > Len(TimeoutOf)
    THEN Answered(s, r.success /\ ok)
    ELSE request' = [request EXCEPT ![s] = [r EXCEPT !.at = @ + 1,
                       !.elapsed = @ + cost, !.success = @ /\ ok]]

(* Mutant of Advance: the last target decides. *)
AdvanceForgetful(s, cost, ok) ==
    LET r == request[s] IN
    IF r.at = Len(TimeoutOf)
    THEN Answered(s, ok)
    ELSE request' = [request EXCEPT ![s] = [r EXCEPT !.at = @ + 1,
                       !.elapsed = @ + cost]]

(* The next target, or the answer when there is none left.                  *)
Advance(s, cost, ok) ==
    LET r == request[s] IN
    IF r.at = Len(TimeoutOf)
    THEN Answered(s, r.success /\ ok)
    ELSE request' = [request EXCEPT ![s] = [r EXCEPT !.at = @ + 1,
                       !.elapsed = @ + cost, !.success = @ /\ ok]]

Accept(s) == received' = [received EXCEPT ![s] = @ \cup {request[s].at}]

(* A target that is up accepts, one that is down refuses, at once.          *)
DeliverAtOnce(s) ==
    LET up == health[request[s].at] = "up" IN
    /\ request[s].pc = "sent"
    /\ health[request[s].at] # "hangs"
    /\ Advance(s, 0, up)
    /\ IF up THEN Accept(s) ELSE UNCHANGED received
    /\ UNCHANGED <<health, resolves, recorded, recView, due, faults>>

(* One that hangs may accept, but the gateway gives up on it; or the client *)
(* gives up on the gateway first, which cancels the calls that are left.    *)
WaitForTarget(s) ==
    LET cost == TimeoutOf[request[s].at]
        left == ClientTimeout - request[s].elapsed
    IN
    /\ request[s].pc = "sent"
    /\ health[request[s].at] = "hangs"
    /\ \/ cost < left /\ Advance(s, cost, FALSE)
       \/ cost >= left /\ Answered(s, FALSE)
    /\ Accept(s) \/ UNCHANGED received
    /\ UNCHANGED <<health, resolves, recorded, recView, due, faults>>

Gateway(s) == DeliverAtOnce(s) \/ WaitForTarget(s)

----------------------------------------------------------------------------
(* Faults and the environment *)

(* The gateway is not there, or the answer or the patch is lost.  Only a    *)
(* patch that fails is an error of the reconcile, which queues it again.    *)
Lose(s) ==
    /\ request[s].pc # "idle"
    /\ faults < MaxFaults
    /\ faults' = faults + 1
    /\ request' = [request EXCEPT ![s] = Idle]
    /\ due' = IF request[s].pc = "record" THEN due \cup {s} ELSE due
    /\ UNCHANGED <<health, resolves, recorded, recView, received>>

(* All objects are queued after a restart. *)
Restart ==
    /\ faults < MaxFaults
    /\ faults' = faults + 1
    /\ request' = [s \in Senders |-> Idle]
    /\ recView' = recorded
    /\ due' = Senders
    /\ UNCHANGED <<health, resolves, recorded, received>>

Sync(s) ==
    /\ recView[s] # recorded[s]
    /\ recView' = [recView EXCEPT ![s] = recorded[s]]
    /\ due' = due \cup {s}
    /\ UNCHANGED <<health, resolves, recorded, request, received, faults>>

Resync(s) ==
    /\ due' = due \cup {s}
    /\ UNCHANGED <<health, resolves, recorded, recView, request, received, faults>>

ChangeHealth(i) ==
    /\ \E h \in Healths \ {health[i]} : health' = [health EXCEPT ![i] = h]
    /\ UNCHANGED <<resolves, recorded, recView, due, request, received, faults>>

ChangeEndpoints ==
    /\ resolves' = ~resolves
    /\ UNCHANGED <<health, recorded, recView, due, request, received, faults>>

Next ==
    \/ Restart \/ ChangeEndpoints
    \/ \E i \in Index : ChangeHealth(i)
    \/ \E s \in Senders :
         \/ Begin(s) \/ TakeAnswer(s) \/ Record(s) \/ Gateway(s)
         \/ Lose(s) \/ Sync(s) \/ Resync(s)

(* Both processes and the watches go on, and the informer resyncs; a due    *)
(* sender gets its turn.                                                    *)
Fairness ==
    \A s \in Senders :
        /\ WF_vars(Begin(s)) /\ WF_vars(TakeAnswer(s)) /\ WF_vars(Record(s))
        /\ WF_vars(Gateway(s))
        /\ WF_vars(Sync(s)) /\ WF_vars(Resync(s))

Spec     == Init /\ [][Next]_vars
FairSpec == Spec /\ Fairness

----------------------------------------------------------------------------
(* Properties *)

(* A delivery is recorded only after every target has accepted the event,   *)
(* whatever was lost, timed out or cancelled in the requests before.        *)
RecordedIsDelivered == \A s \in Senders : recorded[s] => received[s] = Index

(* The worst that the targets before i can cost the request.                *)
Delay[i \in Index] == IF i = 1 THEN 0 ELSE Delay[i - 1] + TimeoutOf[i - 1]

(* A target that is up gets the event whatever the others do, as long as    *)
(* the client can wait for all those before it.                             *)
HealthyReached ==
    \A s \in Senders, i \in Index :
        Delay[i] < ClientTimeout =>
            (<>[](resolves /\ health[i] = "up") => <>(i \in received[s]))

(* When all targets are up the delivery is recorded, and repeated no more.  *)
DeliveryRecorded ==
    \A s \in Senders :
        <>[](resolves /\ \A i \in Index : health[i] = "up")
            => <>[](recView[s] /\ request[s] = Idle)
=============================================================================
