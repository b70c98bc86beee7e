--------------------- MODULE NotificationDispatchProofs ---------------------
(***************************************************************************)
(* Machine-checked proofs about NotificationDispatch, for any number of    *)
(* targets with any timeouts, any senders and any number of faults.        *)
(***************************************************************************)
EXTENDS NotificationDispatch, TLAPS

(* The facts about the constants in the form in which they are used.        *)
LEMMA Targets ==
    /\ Len(TimeoutOf) \in Nat \ {0}
    /\ Index \subseteq Nat /\ 1 \in Index /\ Len(TimeoutOf) \in Index
    /\ \A i \in Index : TimeoutOf[i] \in Nat \ {0}
    /\ \A i \in Index : i = Len(TimeoutOf) \/ i + 1 \in Index
    /\ 0 < ClientTimeout
<1>1. TimeoutOf \in Seq(Nat \ {0}) /\ TimeoutOf # <<>>
  BY DispatchAssumption
<1>2. Len(TimeoutOf) \in Nat \ {0}
  BY <1>1
<1>3. \A i \in Index : TimeoutOf[i] \in Nat \ {0}
  BY <1>1 DEF Index
<1>4. QED
  BY <1>2, <1>3, DispatchAssumption DEF Index

(* The targets come one after another.                                      *)
LEMMA Order ==
    ASSUME NEW i \in Index, NEW k \in Index
    PROVE  /\ i < k + 1 <=> i <= k
           /\ i <= k => i < k \/ i = k
           /\ i <= Len(TimeoutOf) /\ ~(i < 1)
<1>1. Len(TimeoutOf) \in Nat
  BY Targets
<1>2. QED
  BY <1>1 DEF Index

(* The first and the last state of a request.                               *)
LEMMA RequestTypes ==
    /\ Idle \in Request /\ Idle.pc = "idle"
    /\ Sent \in Request /\ Sent.pc = "sent" /\ Sent.at = 1 /\ Sent.elapsed = 0
    /\ [Idle EXCEPT !.pc = "record"] \in Request
    /\ [Idle EXCEPT !.pc = "record"].pc = "record"
<1>1. 1 \in Index
  BY Targets
<1>2. QED
  BY <1>1 DEF Idle, Sent, Request

LEMMA AnswerType ==
    ASSUME NEW b \in BOOLEAN
    PROVE  LET r == [Idle EXCEPT !.pc = "answered", !.success = b] IN
           r \in Request /\ r.pc = "answered" /\ r.success = b
<1>1. 1 \in Index
  BY Targets
<1>2. QED
  BY <1>1 DEF Idle, Request

(* What a request claims of its targets is true at every point where a      *)
(* claim can be kept: on the way, in the answer, in the record.             *)
Claims(s) ==
    /\ request[s].pc = "sent" /\ request[s].success =>
          \A i \in Index : i < request[s].at => i \in received[s]
    /\ request[s].pc = "answered" /\ request[s].success => received[s] = Index
    /\ request[s].pc = "record" => received[s] = Index
    /\ recorded[s] => received[s] = Index

(* Together with the types, an inductive invariant.                         *)
Accounted == TypeOK /\ \A s \in Senders : Claims(s)

LEMMA AccountedInit == Init => Accounted
<1> SUFFICES ASSUME Init PROVE Accounted
  OBVIOUS
<1>1. \A s \in Senders : request[s] = Idle /\ recorded[s] = FALSE
  BY DEF Init
<1>2. \A s \in Senders : request[s].pc = "idle"
  BY <1>1, RequestTypes
<1>3. request \in [Senders -> Request]
  BY RequestTypes DEF Init
<1>4. QED
  BY <1>1, <1>2, <1>3 DEF Init, Accounted, TypeOK, Claims

(* A request that takes a step keeps the invariant, if its own claims hold. *)
LEMMA OneRequest ==
    ASSUME Accounted, NEW s \in Senders, NEW r \in Request,
           request' = [request EXCEPT ![s] = r],
           r.pc = "sent" => r.elapsed < ClientTimeout,
           UNCHANGED <<health, resolves, recView, recorded, faults>>, due' \subseteq Senders,
           \/ UNCHANGED received
           \/ \E i \in Index : received' = [received EXCEPT ![s] = @ \cup {i}],
           Claims(s)'
    PROVE  Accounted'
<1>1. /\ request' \in [Senders -> Request] /\ request'[s] = r
      /\ \A t \in Senders \ {s} : request'[t] = request[t]
  BY DEF Accounted, TypeOK
<1>2. /\ received' \in [Senders -> SUBSET Index]
      /\ \A t \in Senders \ {s} : received'[t] = received[t]
  BY DEF Accounted, TypeOK
<1>3. TypeOK'
  BY <1>1, <1>2 DEF Accounted, TypeOK
<1>4. \A t \in Senders \ {s} : Claims(t)'
  BY <1>1, <1>2 DEF Accounted, Claims
<1>5. QED
  BY <1>3, <1>4 DEF Accounted

(* The gateway's call of a target, which has cost the request some time and *)
(* was accepted if it went well.                                            *)
LEMMA AdvanceKeepsAccounted ==
    ASSUME Accounted, NEW s \in Senders, request[s].pc = "sent",
           NEW cost \in Nat, request[s].elapsed + cost < ClientTimeout,
           NEW ok \in BOOLEAN, Advance(s, cost, ok),
           Accept(s) \/ (~ok /\ UNCHANGED received),
           UNCHANGED <<health, resolves, recorded, recView, due, faults>>
    PROVE  Accounted'
<1> DEFINE r == request[s]
<1>1. /\ r \in Request /\ r.at \in Index /\ r.elapsed \in Nat /\ r.success \in BOOLEAN
      /\ received \in [Senders -> SUBSET Index] /\ due \subseteq Senders
  BY DEF Accounted, TypeOK, Request
<1>2. \A i \in received[s] : i \in received'[s]
  BY <1>1 DEF Accept
<1>3. ok => r.at \in received'[s]
  BY <1>1 DEF Accept
<1>4. received' \in [Senders -> SUBSET Index]
  BY <1>1 DEF Accept
<1>5. recorded[s] => received'[s] = Index
  BY <1>2, <1>4 DEF Accounted, Claims
<1>6. r.success /\ ok => \A i \in Index : i <= r.at => i \in received'[s]
  <2>1. r.success => \A i \in Index : i < r.at => i \in received'[s]
    BY <1>2 DEF Accounted, Claims
  <2>2. \A i \in Index : i <= r.at => i < r.at \/ i = r.at
    BY <1>1, Order
  <2>3. QED
    BY <1>3, <2>1, <2>2
<1>7. CASE r.at = Len(TimeoutOf)
  <2> DEFINE a == [Idle EXCEPT !.pc = "answered", !.success = r.success /\ ok]
  <2>1. a \in Request /\ a.pc = "answered" /\ a.success = (r.success /\ ok)
    BY <1>1, AnswerType
  <2>2. request' = [request EXCEPT ![s] = a]
    BY <1>7 DEF Advance, Answered
  <2>3. request'[s] = a
    BY <2>2 DEF Accounted, TypeOK
  <2>4. r.success /\ ok => received'[s] = Index
    <3>1. \A i \in Index : i <= r.at
      BY <1>7, Order
    <3>2. received'[s] \subseteq Index
      BY <1>4
    <3>3. QED
      BY <1>6, <3>1, <3>2
  <2>5. Claims(s)'
    BY <1>5, <2>1, <2>3, <2>4 DEF Claims
  <2>6. QED
    BY <1>1, <2>1, <2>2, <2>5, OneRequest DEF Accept
<1>8. CASE r.at # Len(TimeoutOf)
  <2> DEFINE a == [r EXCEPT !.at = @ + 1, !.elapsed = @ + cost, !.success = @ /\ ok]
  <2>1. r.at + 1 \in Index
    BY <1>1, <1>8, Targets
  <2>2. /\ a \in Request /\ a.pc = "sent" /\ a.at = r.at + 1
        /\ a.elapsed = r.elapsed + cost /\ a.success = (r.success /\ ok)
    <3>1. r.elapsed + cost \in Nat /\ (r.success /\ ok) \in BOOLEAN
      BY <1>1
    <3>2. PICK b \in BOOLEAN : b = (r.success /\ ok)
      BY <3>1
    <3>3. PICK at \in Index, elapsed \in Nat : at = r.at + 1 /\ elapsed = r.elapsed + cost
      BY <2>1, <3>1
    <3>4. LET n == [r EXCEPT !.at = at, !.elapsed = elapsed, !.success = b]
          IN  /\ n \in Request /\ n.pc = r.pc /\ n.at = at
              /\ n.elapsed = elapsed /\ n.success = b
      <4> HIDE DEF r, a
      <4>1. r \in Request
        BY <1>1
      <4>2. QED
        BY <4>1 DEF Request
    <3>5. a = [r EXCEPT !.at = at, !.elapsed = elapsed, !.success = b]
      BY <3>2, <3>3
    <3>6. QED
      BY <3>2, <3>3, <3>4, <3>5
  <2>3. request' = [request EXCEPT ![s] = a]
    BY <1>8 DEF Advance
  <2>4. request'[s] = a
    BY <2>3 DEF Accounted, TypeOK
  <2>5. \A i \in Index : i < r.at + 1 => i <= r.at
    BY <1>1, Order
  <2>6. Claims(s)'
    BY <1>5, <1>6, <2>2, <2>4, <2>5 DEF Claims
  <2>7. QED
    BY <1>1, <2>2, <2>3, <2>6, OneRequest DEF Accept
<1>9. QED
  BY <1>7, <1>8

LEMMA GatewayKeepsAccounted ==
    ASSUME Accounted, NEW s \in Senders, Gateway(s) PROVE Accounted'
<1>1. /\ request[s] \in Request /\ request[s].pc = "sent" /\ request[s].at \in Index
      /\ request[s].elapsed \in Nat /\ request[s].elapsed < ClientTimeout
      /\ TimeoutOf[request[s].at] \in Nat /\ ClientTimeout \in Nat
      /\ due \subseteq Senders /\ received \in [Senders -> SUBSET Index]
  BY Targets, DispatchAssumption
     DEF Gateway, DeliverAtOnce, WaitForTarget, Accounted, TypeOK, Request
<1>2. CASE DeliverAtOnce(s)
  <2>1. request[s].elapsed + 0 < ClientTimeout
    BY <1>1
  <2>2. QED
    BY <1>1, <1>2, <2>1, AdvanceKeepsAccounted DEF DeliverAtOnce
<1>3. CASE WaitForTarget(s)
  <2> DEFINE cost == TimeoutOf[request[s].at]
             left == ClientTimeout - request[s].elapsed
  <2>1. CASE cost < left /\ Advance(s, cost, FALSE)
    <3>1. request[s].elapsed + cost < ClientTimeout
      BY <1>1, <2>1
    <3>2. QED
      BY <1>1, <1>3, <2>1, <3>1, AdvanceKeepsAccounted DEF WaitForTarget
  <2>2. CASE cost >= left /\ Answered(s, FALSE)
    <3> DEFINE a == [Idle EXCEPT !.pc = "answered", !.success = FALSE]
    <3>1. a \in Request /\ a.pc = "answered" /\ a.success = FALSE
      BY AnswerType
    <3>2. request' = [request EXCEPT ![s] = a] /\ request'[s] = a
      BY <2>2 DEF Answered, Accounted, TypeOK
    <3>3. received' \in [Senders -> SUBSET Index] /\ received[s] \subseteq received'[s]
      BY <1>1, <1>3 DEF WaitForTarget, Accept
    <3>4. recorded[s] => received'[s] = Index
      BY <3>3 DEF Accounted, Claims
    <3>5. Claims(s)'
      BY <1>3, <3>1, <3>2, <3>4 DEF Claims, WaitForTarget
    <3>6. QED
      BY <1>1, <1>3, <3>1, <3>2, <3>5, OneRequest DEF WaitForTarget, Accept
  <2>3. QED
    BY <1>3, <2>1, <2>2 DEF WaitForTarget
<1>4. QED
  BY <1>2, <1>3 DEF Gateway

(* The sender takes the gateway's word, and nothing but a success is kept.  *)
LEMMA SenderKeepsAccounted ==
    ASSUME Accounted, NEW s \in Senders, Begin(s) \/ TakeAnswer(s) \/ Record(s)
    PROVE  Accounted'
<1>1. request \in [Senders -> Request] /\ due \subseteq Senders
  BY DEF Accounted, TypeOK
<1>2. CASE Begin(s)
  <2>1. due' \subseteq Senders
    BY <1>1, <1>2 DEF Begin, Requeued
  <2>2. CASE request' = [request EXCEPT ![s] = Sent]
    <3>1. request'[s] = Sent
      BY <1>1, <2>2
    <3>2. \A i \in Index : ~(i < 1)
      BY Order
    <3>3. Claims(s)'
      BY <1>2, <3>1, <3>2, RequestTypes DEF Begin, Claims, Accounted
    <3>4. Sent.elapsed < ClientTimeout
      <4>1. Sent.elapsed = 0
        BY RequestTypes
      <4>2. QED
        BY <4>1, Targets
    <3>5. QED
      BY <1>2, <2>1, <2>2, <3>3, <3>4, RequestTypes, OneRequest DEF Begin
  <2>3. CASE UNCHANGED request
    BY <1>2, <2>1, <2>3 DEF Begin, Accounted, TypeOK, Claims
  <2>4. QED
    BY <1>2, <2>2, <2>3 DEF Begin
<1>3. CASE TakeAnswer(s)
  <2>1. CASE request[s].success
    <3> DEFINE r == [Idle EXCEPT !.pc = "record"]
    <3>1. request' = [request EXCEPT ![s] = r] /\ request'[s] = r
      BY <1>1, <1>3, <2>1 DEF TakeAnswer
    <3>2. Claims(s)'
      BY <1>3, <2>1, <3>1, RequestTypes DEF TakeAnswer, Claims, Accounted
    <3>3. QED
      BY <1>1, <1>3, <3>1, <3>2, RequestTypes, OneRequest DEF TakeAnswer
  <2>2. CASE ~request[s].success
    <3>1. request' = [request EXCEPT ![s] = Idle] /\ request'[s] = Idle
      BY <1>1, <1>3, <2>2 DEF TakeAnswer
    <3>2. Claims(s)'
      BY <1>3, <3>1, RequestTypes DEF TakeAnswer, Claims, Accounted
    <3>3. QED
      BY <1>1, <1>3, <3>1, <3>2, RequestTypes, OneRequest DEF TakeAnswer
  <2>3. QED
    BY <2>1, <2>2
<1>4. CASE Record(s)
  <2>1. recorded' \in [Senders -> BOOLEAN] /\ request' \in [Senders -> Request]
        /\ request'[s] = Idle
    BY <1>1, <1>4, RequestTypes DEF Record, Accounted, TypeOK
  <2>2. \A t \in Senders \ {s} : recorded'[t] = recorded[t] /\ request'[t] = request[t]
    BY <1>4 DEF Record, Accounted, TypeOK
  <2>3. TypeOK'
    BY <1>4, <2>1, <2>2, RequestTypes DEF Record, Accounted, TypeOK
  <2>4. Claims(s)'
    BY <1>4, <2>1, RequestTypes DEF Record, Claims, Accounted
  <2>5. \A t \in Senders \ {s} : Claims(t)'
    BY <1>4, <2>2 DEF Record, Claims, Accounted
  <2>6. QED
    BY <2>3, <2>4, <2>5 DEF Accounted
<1>5. QED
  BY <1>2, <1>3, <1>4

(* Faults drop requests, and the environment makes no claims.               *)
LEMMA OthersKeepAccounted ==
    ASSUME Accounted,
           \/ Restart \/ ChangeEndpoints
           \/ \E i \in Index : ChangeHealth(i)
           \/ \E s \in Senders : Lose(s) \/ Sync(s) \/ Resync(s)
    PROVE  Accounted'
<1>0. /\ faults \in Nat /\ faults + 1 \in Nat /\ due \subseteq Senders
      /\ request \in [Senders -> Request]
  BY DEF Accounted, TypeOK
<1>1. CASE Restart
  <2>1. request' \in [Senders -> Request] /\ \A s \in Senders : request'[s].pc = "idle"
    BY <1>1, RequestTypes DEF Restart
  <2>2. TypeOK'
    BY <1>0, <1>1, <2>1 DEF Restart, Accounted, TypeOK
  <2>3. \A s \in Senders : Claims(s)'
    BY <1>1, <2>1 DEF Restart, Accounted, Claims
  <2>4. QED
    BY <2>2, <2>3 DEF Accounted
<1>2. CASE ChangeEndpoints
  BY <1>2 DEF ChangeEndpoints, Accounted, TypeOK, Claims
<1>3. ASSUME NEW i \in Index, ChangeHealth(i) PROVE Accounted'
  BY <1>3 DEF ChangeHealth, Healths, Accounted, TypeOK, Claims
<1>4. ASSUME NEW s \in Senders, Lose(s) PROVE Accounted'
  <2>1. /\ request' \in [Senders -> Request] /\ request'[s] = Idle
        /\ \A t \in Senders \ {s} : request'[t] = request[t]
    BY <1>4, RequestTypes DEF Lose, Accounted, TypeOK
  <2>2. TypeOK'
    <3>1. \A t \in Senders : request'[t].pc = "sent" => request'[t] = request[t]
      BY <2>1, RequestTypes
    <3>2. due' \subseteq Senders /\ faults' \in Nat
      BY <1>0, <1>4 DEF Lose
    <3>3. QED
      BY <1>4, <2>1, <3>1, <3>2 DEF Lose, Accounted, TypeOK
  <2>3. \A t \in Senders : Claims(t)'
    BY <1>4, <2>1, RequestTypes DEF Lose, Accounted, Claims
  <2>4. QED
    BY <2>2, <2>3 DEF Accounted
<1>5. ASSUME NEW s \in Senders, Sync(s) \/ Resync(s) PROVE Accounted'
  BY <1>5 DEF Sync, Resync, Accounted, TypeOK, Claims
<1>6. QED
  BY <1>1, <1>2, <1>3, <1>4, <1>5

LEMMA AccountedInvariant == Spec => []Accounted
<1>1. Accounted /\ [Next]_vars => Accounted'
  <2> SUFFICES ASSUME Accounted, [Next]_vars PROVE Accounted'
    OBVIOUS
  <2>1. CASE UNCHANGED vars
    BY <2>1 DEF vars, Accounted, TypeOK, Claims
  <2>2. CASE Next
    BY <2>2, SenderKeepsAccounted, GatewayKeepsAccounted, OthersKeepAccounted DEF Next
  <2>3. QED
    BY <2>1, <2>2
<1>2. QED
  BY AccountedInit, <1>1, PTL DEF Spec

(* The values stay in their types, and a request under way has not used up  *)
(* the time its client waits.                                               *)
THEOREM TypeCorrect == Spec => []TypeOK
    BY AccountedInvariant, PTL DEF Accounted

(* A delivery that is recorded, and so never repeated, has reached every    *)
(* target, whatever was lost, timed out or cancelled on the way.            *)
THEOREM RecordsAreTrue == Spec => []RecordedIsDelivered
<1>1. Accounted => RecordedIsDelivered
  BY DEF Accounted, Claims, RecordedIsDelivered
<1>2. QED
  BY <1>1, AccountedInvariant, PTL
=============================================================================
