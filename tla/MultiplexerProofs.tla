-------------------------- MODULE MultiplexerProofs --------------------------
(* Proofs that the multiplexer's invariants hold for any number of callers, *)
(* kinds of commands and faults, alone and on a device shared with apps.    *)
EXTENDS SharedDevice, SequenceTheorems, TLAPS

(* A queue that stays or grows by one element stays a queue. *)
LEMMA GrowType ==
  ASSUME NEW S, NEW s \in Seq(S), NEW e \in S, NEW t, t = s \/ t = Append(s, e)
  PROVE  t \in Seq(S)
OBVIOUS

(* Every variable keeps its type, whatever the constants. *)
THEOREM TypeCorrect == Spec => []TypeOK
<1>1. Init => TypeOK
  BY CallersAssumption DEF Init, TypeOK, Places, Answer, Empty
<1>2. TypeOK /\ [Next]_vars => TypeOK'
  <2> SUFFICES ASSUME TypeOK, [Next]_vars PROVE TypeOK'
    OBVIOUS
  <2> USE DEF TypeOK
  <2>1. ASSUME NEW c \in Callers, NEW k \in CmdKinds, Call(c, k)
        PROVE TypeOK'
    BY <2>1 DEF Call, deviceVars, Places
  <2>2. ASSUME NEW c \in Callers, Leave(c)
        PROVE /\ pc' \in [Callers -> Places]
              /\ call' \in [Callers -> Nat]
              /\ kind' \in [Callers -> CmdKinds \cup {Unknown}]
              /\ answer' \in [Callers -> Answer]
              /\ svc' \in Clients \cup {NoOne}
    BY <2>2 DEF Leave, Places, Answer, Empty
  <2>3. ASSUME NEW c \in Callers, Lock(c) PROVE TypeOK'
    BY <2>3 DEF Lock, deviceVars, Places
  <2>4. ASSUME NEW c \in Callers, Enqueue(c) PROVE TypeOK'
    <3>1. [id |-> call[c], kind |-> kind[c]] \in Entry
      BY DEF Entry
    <3>2. QED BY <3>1, <2>4 DEF Enqueue, deviceVars, Places, Engaged
  <2>5. ASSUME NEW c \in Callers, RefusedClosed(c) PROVE TypeOK'
    BY <2>5, <2>2 DEF RefusedClosed, deviceVars
  <2>6. ASSUME NEW c \in Callers, AcquireWrite(c) PROVE TypeOK'
    BY <2>6 DEF AcquireWrite, deviceVars, Places, Engaged
  <2>7. ASSUME NEW c \in Callers, RefusedPoisoned(c) PROVE TypeOK'
    BY <2>7, <2>2 DEF RefusedPoisoned, deviceVars
  <2>8. ASSUME NEW c \in Callers, SendOk(c) PROVE TypeOK'
    <3>1. [id |-> call[c], kind |-> kind[c]] \in Entry
      BY DEF Entry
    <3>2. QED BY <3>1, <2>8 DEF SendOk, Places, Engaged
  <2>9. ASSUME NEW c \in Callers, SendErr(c) PROVE TypeOK'
    BY <2>9, <2>2 DEF SendErr, Poisoned, deviceVars
  <2>10. ASSUME NEW c \in Callers, Receive(c) PROVE TypeOK'
    BY <2>10, <2>2 DEF Receive, deviceVars
  <2>11. ASSUME NEW c \in Callers, Timeout(c) PROVE TypeOK'
    <3>1. [id |-> call[c], kind |-> kind[c]] \in Entry
      BY DEF Entry
    <3>2. wire' \in Seq(Entry)
      <4>1. wire' = wire \/ wire' = Append(wire, [id |-> call[c], kind |-> kind[c]])
        BY <2>11 DEF Timeout
      <4>2. QED BY <4>1, <3>1, GrowType
    <3>3. QED BY <2>11, <2>2, <3>2 DEF Timeout
  <2>12. CASE RecvStep
    <3>1. CASE Dispatch
      <4>0. Head(stream) \in Item
        BY <3>1 DEF Dispatch, IsFrame
      <4>1. Head(stream).id \in Nat
        BY <4>0 DEF Item
      <4>2. answer' \in [Callers -> Answer]
        BY <3>1, <4>1 DEF Dispatch, Answered, Answer
      <4>3. QED
        BY <3>1, <4>2 DEF Dispatch, IsFrame, HeadMatches
    <3>2. CASE ForwardEvent
      <4>0. Head(stream) \in Item
        BY <3>2 DEF ForwardEvent, IsFrame
      <4>1. Head(stream).id \in Nat
        BY <4>0 DEF Item
      <4>2. events' \in SUBSET Nat
        BY <3>2, <4>1 DEF ForwardEvent
      <4>3. QED
        BY <3>2, <4>2 DEF ForwardEvent, IsFrame, callerVars
    <3>3. CASE SkipGarbled
      BY <3>3 DEF SkipGarbled, IsFrame, callerVars
    <3>4. CASE RecvExit
      BY <3>4 DEF RecvExit, callerVars, deviceVars
    <3>5. CASE CloseEvents
      BY <3>5 DEF CloseEvents, callerVars, deviceVars
    <3>6. CASE DrainPending
      BY <3>6 DEF DrainPending, Drained, Closed, Answer, deviceVars
    <3>7. QED BY <2>12, <3>1, <3>2, <3>3, <3>4, <3>5, <3>6 DEF RecvStep
  <2>13. CASE Shutdown
    BY <2>13 DEF Shutdown, callerVars, deviceVars
  <2>14. CASE DeviceStep
    <3>1. ASSUME NEW k \in RespKinds, DeviceAnswer(k) PROVE TypeOK'
      <4>1. Head(wire) \in Entry
        BY <3>1 DEF DeviceAnswer
      <4>2. Frame(Head(wire).id, k) \in Item
        BY <4>1 DEF Frame, Item, Entry
      <4>3. QED
        BY <3>1, <4>2 DEF DeviceAnswer, callerVars
    <3>2. CASE AnswerLost
      <4>1. Head(wire) \in Entry
        BY <3>2 DEF AnswerLost
      <4>2. [status |-> "garbled", id |-> Head(wire).id, kind |-> Unknown]
              \in Item
        BY <4>1 DEF Item, Entry
      <4>3. stream' \in Seq(Item)
        BY <3>2, <4>2, GrowType DEF AnswerLost
      <4>4. lost' \in Nat /\ wire' \in Seq(Entry)
        BY <3>2 DEF AnswerLost
      <4>5. QED
        BY <3>2, <4>3, <4>4 DEF AnswerLost, callerVars
    <3>3. ASSUME NEW k \in EventKinds, DeviceEvent(k) PROVE TypeOK'
      <4>1. Frame(0, k) \in Item
        BY DEF Frame, Item, RespKinds
      <4>2. QED
        BY <3>3, <4>1 DEF DeviceEvent, callerVars
    <3>4. CASE UpstreamEnds
      <4>1. [status |-> "error", id |-> 0, kind |-> Unknown] \in Item
        BY DEF Item
      <4>2. stream' \in Seq(Item)
        BY <3>4, <4>1, GrowType DEF UpstreamEnds
      <4>3. QED
        BY <3>4, <4>2 DEF UpstreamEnds, callerVars
    <3>5. QED BY <2>14, <3>1, <3>2, <3>3, <3>4 DEF DeviceStep
  <2>15. CASE Finished \/ UNCHANGED vars
    BY <2>15 DEF Finished, vars
  <2>16. QED
    BY <2>1, <2>3, <2>4, <2>5, <2>6, <2>7, <2>8, <2>9, <2>10, <2>11, <2>12,
       <2>13, <2>14, <2>15 DEF Next, CallerStep
<1>3. QED BY <1>1, <1>2, PTL DEF Spec

-----------------------------------------------------------------------------
(* The inductive invariant: call numbers name their callers, the queue      *)
(* holds each number once, and the stages of closing shut the queue.        *)
QueueInv ==
    /\ \A i \in DOMAIN pending : pending[i].id \in 1 .. issued
    /\ \A i, j \in DOMAIN pending : pending[i].id = pending[j].id => i = j
    /\ \A c \in Callers : call[c] \in 0 .. issued
    /\ \A c \in Callers : pc[c] = "idle" <=> call[c] = 0
    /\ \A c, d \in Callers : call[c] = call[d] /\ call[c] # 0 => c = d
    /\ \A c \in Callers :
         pc[c] \notin Engaged => answer[c] = Empty /\ ~InQueue(c)
    /\ Tracked
    /\ ~eventTx <=> recv \in {"closing", "done"}
    /\ recv = "done" => pending = <<>>

(* The two mutexes are held exactly where the code is between taking and    *)
(* releasing them.                                                          *)
LockInv ==
    /\ \A c \in Callers : writeLock = c <=> pc[c] = "sending"
    /\ \A c \in Callers : pc[c] = "sending" => sink = "open"
    /\ \A c \in Clients : svc = c <=> pc[c] \in {"enter"} \cup Engaged

-----------------------------------------------------------------------------
LEMMA QueueInit == Init => QueueInv
BY CallersAssumption
   DEF Init, QueueInv, InQueue, Tracked, Engaged, Empty

(* A caller that leaves takes its call number with it. *)
LEMMA QueueLeave ==
  ASSUME TypeOK, QueueInv, NEW c \in Callers, Leave(c),
         UNCHANGED <<pending, eventTx, recv, issued>>
  PROVE  QueueInv'
<1> USE DEF TypeOK, QueueInv, Leave
<1>1. \A d \in Callers : InQueue(d)' => d # c /\ InQueue(d)
  BY DEF InQueue
<1>2. \A d \in Callers : InQueue(d) /\ d # c => InQueue(d)'
  BY DEF InQueue
<1>3. \A d \in Callers : pc'[d] \notin Engaged =>
                            answer'[d] = Empty /\ ~InQueue(d)'
  BY <1>1
<1>4. Tracked'
  BY <1>1, <1>2 DEF Tracked, Engaged
<1>5. \A d \in Callers : call'[d] \in 0 .. issued'
  OBVIOUS
<1>6. \A d \in Callers : pc'[d] = "idle" <=> call'[d] = 0
  OBVIOUS
<1>7. \A d, e \in Callers : call'[d] = call'[e] /\ call'[d] # 0 => d = e
  OBVIOUS
<1>8. QED BY <1>3, <1>4, <1>5, <1>6, <1>7

(* A caller that moves on within a region leaves the queue facts alone. *)
LEMMA QueueMove ==
  ASSUME TypeOK, QueueInv, NEW c \in Callers, NEW q,
         pc' = [pc EXCEPT ![c] = q],
         \/ pc[c] = "locking" /\ q = "enter"
         \/ pc[c] \in Engaged /\ q \in Engaged,
         UNCHANGED <<call, answer, pending, eventTx, recv, issued>>
  PROVE  QueueInv'
<1> USE DEF TypeOK, QueueInv
<1>1. \A d \in Callers : InQueue(d)' <=> InQueue(d)
  BY DEF InQueue
<1>2. \A d \in Callers : pc'[d] \in Engaged <=> pc[d] \in Engaged
  BY DEF Engaged
<1>3. \A d \in Callers : pc'[d] = "idle" <=> pc[d] = "idle"
  BY DEF Engaged
<1>4. Tracked'
  BY <1>1, <1>2 DEF Tracked
<1>5. QED BY <1>1, <1>2, <1>3, <1>4

LEMMA QueueCall ==
  ASSUME TypeOK, QueueInv, NEW c \in Callers, NEW k \in CmdKinds, Call(c, k)
  PROVE  QueueInv'
<1> USE DEF TypeOK, QueueInv, Call
<1>1. \A d \in Callers : InQueue(d)' <=> d # c /\ InQueue(d)
  BY DEF InQueue
<1>2. pc[c] \notin Engaged /\ pc'[c] \notin Engaged
  BY DEF Engaged
<1>3. Tracked'
  BY <1>1, <1>2 DEF Tracked
<1>4. \A d \in Callers : pc'[d] \notin Engaged =>
                            answer'[d] = Empty /\ ~InQueue(d)'
  BY <1>1, <1>2
<1>5. \A d \in Callers : call'[d] \in 0 .. issued'
  OBVIOUS
<1>6. \A d \in Callers : pc'[d] = "idle" <=> call'[d] = 0
  OBVIOUS
<1>7. \A d, e \in Callers : call'[d] = call'[e] /\ call'[d] # 0 => d = e
  OBVIOUS
<1>8. \A i \in DOMAIN pending' : pending'[i].id \in 1 .. issued'
  OBVIOUS
<1>9. QED BY <1>3, <1>4, <1>5, <1>6, <1>7, <1>8

LEMMA QueueEnqueue ==
  ASSUME TypeOK, QueueInv, NEW c \in Callers, Enqueue(c)
  PROVE  QueueInv'
<1> USE DEF TypeOK, QueueInv, Enqueue
<1> DEFINE e == [id |-> call[c], kind |-> kind[c]]
<1>1. /\ DOMAIN pending' = DOMAIN pending \cup {Len(pending) + 1}
      /\ \A i \in DOMAIN pending : pending'[i] = pending[i]
      /\ pending'[Len(pending) + 1] = e
      /\ Len(pending) + 1 \notin DOMAIN pending
  BY DEF Entry
<1>2. pc[c] \notin Engaged /\ pc'[c] \in Engaged /\ call[c] \in 1 .. issued
  BY DEF Engaged
<1>3. ~InQueue(c) /\ answer[c] = Empty
  BY <1>2
<1>4. \A d \in Callers : InQueue(d)' <=> InQueue(d) \/ d = c
  BY <1>1, <1>2 DEF InQueue
<1>5. \A i, j \in DOMAIN pending' :
         pending'[i].id = pending'[j].id => i = j
  BY <1>1, <1>3 DEF InQueue
<1>6. \A i \in DOMAIN pending' : pending'[i].id \in 1 .. issued'
  BY <1>1, <1>2
<1>7. Tracked'
  BY <1>2, <1>3, <1>4 DEF Tracked
<1>8. \A d \in Callers : pc'[d] \notin Engaged =>
                            answer'[d] = Empty /\ ~InQueue(d)'
  BY <1>2, <1>4
<1>9. eventTx /\ recv' # "done"
  BY DEF AcceptsCalls
<1>10. QED BY <1>2, <1>5, <1>6, <1>7, <1>8, <1>9 DEF AcceptsCalls

LEMMA QueueDispatch ==
  ASSUME TypeOK, QueueInv, Dispatch
  PROVE  QueueInv'
<1> USE DEF TypeOK, QueueInv, Dispatch, HeadMatches
<1>1. /\ DOMAIN pending' = 1 .. Len(pending) - 1
      /\ \A i \in DOMAIN pending' : i + 1 \in DOMAIN pending
                                    /\ pending'[i] = pending[i + 1]
      /\ DOMAIN pending = 1 .. Len(pending)
      /\ 1 \in DOMAIN pending /\ Head(pending) = pending[1]
  OBVIOUS
<1>a. ASSUME NEW d \in Callers
      PROVE  InQueue(d)' <=> \E i \in DOMAIN pending :
                                 i # 1 /\ pending[i].id = call[d]
  <2>1. ASSUME NEW i \in DOMAIN pending', pending'[i].id = call'[d]
        PROVE  \E j \in DOMAIN pending : j # 1 /\ pending[j].id = call[d]
    <3>1. i + 1 \in DOMAIN pending /\ pending'[i] = pending[i + 1] /\ i + 1 # 1
      BY <1>1
    <3>2. QED BY <2>1, <3>1
  <2>2. ASSUME NEW i \in DOMAIN pending, i # 1, pending[i].id = call[d]
        PROVE  \E j \in DOMAIN pending' : pending'[j].id = call'[d]
    <3>1. i - 1 \in DOMAIN pending' /\ (i - 1) + 1 = i
      BY <1>1, <2>2
    <3>2. pending'[i - 1] = pending[(i - 1) + 1]
      BY <1>1, <3>1
    <3>3. pending'[i - 1].id = call'[d]
      BY <3>1, <3>2, <2>2
    <3>4. QED BY <3>1, <3>3
  <2>3. QED BY <2>1, <2>2 DEF InQueue
<1>2. ASSUME NEW d \in Callers, call[d] = Head(pending).id
      PROVE  pc[d] \in Engaged /\ InQueue(d) /\ ~InQueue(d)'
  <2>1. InQueue(d)
    BY <1>1, <1>2 DEF InQueue
  <2>2. ~InQueue(d)'
    <3>1. \A i \in DOMAIN pending : pending[i].id = pending[1].id => i = 1
      BY <1>1
    <3>2. ~\E i \in DOMAIN pending : i # 1 /\ pending[i].id = call[d]
      BY <3>1, <1>1, <1>2
    <3>3. QED BY <3>2, <1>a
  <2>3. QED BY <2>1, <2>2
<1>3. ASSUME NEW d \in Callers, call[d] # Head(pending).id
      PROVE  InQueue(d)' <=> InQueue(d)
  <2>1. ASSUME NEW i \in DOMAIN pending, pending[i].id = call[d]
        PROVE  InQueue(d)'
    <3>1. i # 1
      BY <1>1, <1>3, <2>1
    <3> QED BY <1>a, <2>1, <3>1
  <2>2. InQueue(d) => InQueue(d)'
    BY <2>1 DEF InQueue
  <2>3. InQueue(d)' => InQueue(d)
    BY <1>a DEF InQueue
  <2> QED BY <2>2, <2>3
<1>4. \A d \in Callers : answer'[d] = Answered(d)
  OBVIOUS
<1>5. \A d \in Callers : call[d] = Head(pending).id => answer'[d] # Empty
  BY <1>4 DEF Answered, Empty
<1>6. \A d \in Callers : call[d] # Head(pending).id => answer'[d] = answer[d]
  BY <1>4 DEF Answered
<1>7. Tracked'
  BY <1>2, <1>3, <1>5, <1>6 DEF Tracked
<1>8. \A i \in DOMAIN pending' : pending'[i].id \in 1 .. issued'
  <2> SUFFICES ASSUME NEW i \in DOMAIN pending'
               PROVE  pending'[i].id \in 1 .. issued'
    OBVIOUS
  <2>1. i + 1 \in DOMAIN pending /\ pending'[i] = pending[i + 1]
    BY <1>1
  <2>2. pending[i + 1].id \in 1 .. issued
    BY <2>1
  <2>3. QED BY <2>1, <2>2
<1>9. \A i, j \in DOMAIN pending' :
         pending'[i].id = pending'[j].id => i = j
  <2> SUFFICES ASSUME NEW i \in DOMAIN pending', NEW j \in DOMAIN pending',
                      pending'[i].id = pending'[j].id
               PROVE  i = j
    OBVIOUS
  <2>1. /\ i + 1 \in DOMAIN pending /\ pending'[i] = pending[i + 1]
        /\ j + 1 \in DOMAIN pending /\ pending'[j] = pending[j + 1]
        /\ i \in Nat /\ j \in Nat
    BY <1>1
  <2>2. pending[i + 1].id = pending[j + 1].id => i + 1 = j + 1
    BY <2>1
  <2>3. QED BY <2>1, <2>2
<1>10. \A d \in Callers : pc'[d] \notin Engaged =>
                            answer'[d] = Empty /\ ~InQueue(d)'
  BY <1>2, <1>3, <1>6
<1>11. QED BY <1>7, <1>8, <1>9, <1>10

LEMMA QueueDrain ==
  ASSUME TypeOK, QueueInv, DrainPending
  PROVE  QueueInv'
<1> USE DEF TypeOK, QueueInv, DrainPending
<1>1. \A d \in Callers : ~InQueue(d)'
  BY DEF InQueue
<1>0. \A d \in Callers : answer'[d] = Drained(d)
  OBVIOUS
<1>2. \A d \in Callers : answer'[d] = IF InQueue(d) THEN Closed ELSE answer[d]
  BY <1>0 DEF Drained
<1>3. Tracked'
  BY <1>1, <1>2 DEF Tracked, Closed, Empty
<1>4. QED BY <1>1, <1>2, <1>3

(* Every step keeps the queue's invariant. *)
LEMMA QueueStep == TypeOK /\ QueueInv /\ [Next]_vars => QueueInv'
<1> SUFFICES ASSUME TypeOK, QueueInv, [Next]_vars PROVE QueueInv'
  OBVIOUS
<1>1. ASSUME NEW c \in Callers, NEW k \in CmdKinds, Call(c, k)
      PROVE  QueueInv'
  BY <1>1, QueueCall
<1>2. ASSUME NEW c \in Callers, Lock(c) PROVE QueueInv'
  BY <1>2, QueueMove DEF Lock
<1>3. ASSUME NEW c \in Callers, Enqueue(c) PROVE QueueInv'
  BY <1>3, QueueEnqueue
<1>4. ASSUME NEW c \in Callers, RefusedClosed(c) PROVE QueueInv'
  BY <1>4, QueueLeave DEF RefusedClosed
<1>5. ASSUME NEW c \in Callers, AcquireWrite(c) PROVE QueueInv'
  BY <1>5, QueueMove DEF AcquireWrite, Engaged
<1>6. ASSUME NEW c \in Callers, RefusedPoisoned(c) PROVE QueueInv'
  BY <1>6, QueueLeave DEF RefusedPoisoned
<1>7. ASSUME NEW c \in Callers, SendOk(c) PROVE QueueInv'
  BY <1>7, QueueMove DEF SendOk, Engaged
<1>8. ASSUME NEW c \in Callers, SendErr(c) PROVE QueueInv'
  BY <1>8, QueueLeave DEF SendErr
<1>9. ASSUME NEW c \in Callers, Receive(c) PROVE QueueInv'
  BY <1>9, QueueLeave DEF Receive
<1>10. ASSUME NEW c \in Callers, Timeout(c) PROVE QueueInv'
  BY <1>10, QueueLeave DEF Timeout
<1>11. CASE UNCHANGED <<callerVars, pending, eventTx, recv, issued>>
  BY <1>11 DEF callerVars, QueueInv, InQueue, Tracked
<1>12. CASE RecvStep
  <2>1. CASE Dispatch
    BY <2>1, QueueDispatch
  <2>2. CASE ForwardEvent \/ SkipGarbled
    BY <2>2, <1>11 DEF ForwardEvent, SkipGarbled
  <2>3. CASE RecvExit
    BY <2>3 DEF RecvExit, callerVars, QueueInv, InQueue, Tracked
  <2>4. CASE CloseEvents
    BY <2>4 DEF CloseEvents, callerVars, QueueInv, InQueue, Tracked
  <2>5. CASE DrainPending
    BY <2>5, QueueDrain
  <2>6. QED BY <1>12, <2>1, <2>2, <2>3, <2>4, <2>5 DEF RecvStep
<1>13. CASE Shutdown
  BY <1>13, <1>11 DEF Shutdown
<1>14. CASE DeviceStep
  BY <1>14, <1>11
     DEF DeviceStep, DeviceAnswer, AnswerLost, DeviceEvent, UpstreamEnds
<1>15. CASE Finished \/ UNCHANGED vars
  BY <1>15, <1>11 DEF Finished, vars, callerVars
<1>16. QED
  BY <1>1, <1>2, <1>3, <1>4, <1>5, <1>6, <1>7, <1>8, <1>9, <1>10, <1>12,
     <1>13, <1>14, <1>15 DEF Next, CallerStep

THEOREM QueueInvariant == Spec => []QueueInv
<1>1. QED BY TypeCorrect, QueueInit, QueueStep, PTL DEF Spec

(* A call in progress is queued or answered, never both, never neither. *)
THEOREM TrackedTheorem == Spec => []Tracked
<1>1. QueueInv => Tracked
  BY DEF QueueInv
<1>2. QED BY <1>1, QueueInvariant, PTL

(* When the receive task is over nobody is left waiting. *)
THEOREM NoneStrandedTheorem == Spec => []NoneStranded
<1>1. QueueInv => NoneStranded
  BY DEF QueueInv, NoneStranded, Tracked, InQueue
<1>2. QED BY <1>1, QueueInvariant, PTL

-----------------------------------------------------------------------------
LEMMA LockInit == Init => LockInv
BY CallersAssumption DEF Init, LockInv, Engaged, Callers

(* A caller that leaves gives its locks back. *)
LEMMA LockLeave ==
  ASSUME TypeOK, LockInv, NEW c \in Callers, Leave(c),
         writeLock' = IF writeLock = c THEN NoOne ELSE writeLock,
         sink' = sink \/ (pc[c] = "sending" /\ sink' = "taken")
  PROVE  LockInv'
<1> USE CallersAssumption DEF TypeOK, LockInv, Leave
<1>1. \A d \in Callers : pc'[d] = IF d = c THEN "idle" ELSE pc[d]
  OBVIOUS
<1>2. \A d \in Callers : writeLock' = d <=> pc'[d] = "sending"
  BY <1>1
<1>3. \A d \in Callers : pc'[d] = "sending" => sink' = "open"
  BY <1>1
<1>4. \A d \in Clients : svc' = d <=> pc'[d] \in {"enter"} \cup Engaged
  BY <1>1 DEF Engaged, Callers
<1>5. QED BY <1>2, <1>3, <1>4

(* Every step keeps both mutexes exclusive. *)
LEMMA LockStep == TypeOK /\ LockInv /\ [Next]_vars => LockInv'
<1> SUFFICES ASSUME TypeOK, LockInv, [Next]_vars PROVE LockInv'
  OBVIOUS
<1> USE CallersAssumption DEF LockInv
<1>1. ASSUME NEW c \in Callers, NEW k \in CmdKinds, Call(c, k)
      PROVE  LockInv'
  BY <1>1 DEF Call, TypeOK, Engaged, Callers
<1>2. ASSUME NEW c \in Callers, Lock(c) PROVE LockInv'
  BY <1>2 DEF Lock, ServiceFree, TypeOK, Engaged, Callers
<1>3. ASSUME NEW c \in Callers, Enqueue(c) PROVE LockInv'
  BY <1>3 DEF Enqueue, TypeOK, Engaged, Callers
<1>4. ASSUME NEW c \in Callers, RefusedClosed(c) PROVE LockInv'
  BY <1>4, LockLeave DEF RefusedClosed
<1>5. ASSUME NEW c \in Callers, AcquireWrite(c) PROVE LockInv'
  BY <1>5 DEF AcquireWrite, TypeOK, Engaged, Callers
<1>6. ASSUME NEW c \in Callers, RefusedPoisoned(c) PROVE LockInv'
  BY <1>6, LockLeave DEF RefusedPoisoned
<1>7. ASSUME NEW c \in Callers, SendOk(c) PROVE LockInv'
  BY <1>7 DEF SendOk, TypeOK, Engaged, Callers
<1>8. ASSUME NEW c \in Callers, SendErr(c) PROVE LockInv'
  BY <1>8, LockLeave DEF SendErr, Poisoned
<1>9. ASSUME NEW c \in Callers, Receive(c) PROVE LockInv'
  BY <1>9, LockLeave DEF Receive
<1>10. ASSUME NEW c \in Callers, Timeout(c) PROVE LockInv'
  BY <1>10, LockLeave DEF Timeout
<1>11. CASE UNCHANGED <<pc, svc, writeLock, sink>>
  BY <1>11
<1>12. CASE RecvStep
  BY <1>11, <1>12
     DEF RecvStep, Dispatch, ForwardEvent, SkipGarbled, RecvExit, CloseEvents,
         DrainPending, callerVars
<1>13. CASE Shutdown
  BY <1>13 DEF Shutdown, callerVars
<1>14. CASE DeviceStep
  BY <1>14, <1>11
     DEF DeviceStep, DeviceAnswer, AnswerLost, DeviceEvent, UpstreamEnds,
         callerVars
<1>15. CASE Finished \/ UNCHANGED vars
  BY <1>15, <1>11 DEF Finished, vars
<1>16. QED
  BY <1>1, <1>2, <1>3, <1>4, <1>5, <1>6, <1>7, <1>8, <1>9, <1>10, <1>12,
     <1>13, <1>14, <1>15 DEF Next, CallerStep

THEOREM LockInvariant == Spec => []LockInv
<1>1. QED BY TypeCorrect, LockInit, LockStep, PTL DEF Spec

(* One caller at a time sends, and never on a sink that has failed. *)
THEOREM SinkSafeTheorem == Spec => []SinkSafe
<1>1. LockInv => SinkSafe
  BY DEF LockInv, SinkSafe
<1>2. QED BY <1>1, LockInvariant, PTL

-----------------------------------------------------------------------------
(* With clients only, the queue's last entry is the live one. *)
LEMMA LastStep ==
  TypeOK /\ QueueInv /\ LockInv /\ LiveIsLast /\ [Next]_vars => LiveIsLast'
<1> SUFFICES ASSUME TypeOK, QueueInv, LockInv, LiveIsLast, [Next]_vars,
                    Direct = {},
                    NEW d \in Callers, pc'[d] \in Engaged, InQueue(d)'
             PROVE  pending'[Len(pending')].id = call'[d]
  BY DEF LiveIsLast
<1> USE DEF TypeOK
<1>0. Callers = Clients
  BY DEF Callers
<1>1. CASE pending' = pending /\ call'[d] = call[d] /\ pc[d] \in Engaged
  BY <1>1 DEF LiveIsLast, InQueue
<1>2. ASSUME NEW c \in Callers, Enqueue(c)
      PROVE  pending'[Len(pending')].id = call'[d]
  <2>1. svc = c
    BY <1>2, <1>0 DEF Enqueue, LockInv
  <2>2. d = c
    BY <1>2, <1>0, <2>1 DEF Enqueue, LockInv
  <2>3. pending'[Len(pending')] = [id |-> call[c], kind |-> kind[c]]
    BY <1>2 DEF Enqueue, Entry
  <2>4. QED BY <2>2, <2>3, <1>2 DEF Enqueue
<1>3. ASSUME NEW c \in Callers, Leave(c), pending' = pending
      PROVE  pending'[Len(pending')].id = call'[d]
  <2>1. d # c /\ call'[d] = call[d] /\ pc[d] \in Engaged
    BY <1>3 DEF Leave, Engaged
  <2>2. QED BY <2>1, <1>1, <1>3
<1>4. CASE Dispatch
  <2>1. pc[d] \in Engaged /\ call'[d] = call[d]
    BY <1>4 DEF Dispatch
  <2>2. /\ pending # <<>> /\ pending' = Tail(pending)
        /\ DOMAIN pending' = 1 .. Len(pending) - 1
        /\ \A i \in DOMAIN pending' : pending'[i] = pending[i + 1]
    BY <1>4 DEF Dispatch, HeadMatches
  <2>3. PICK i \in DOMAIN pending' : pending'[i].id = call[d]
    BY <2>1 DEF InQueue
  <2>4. i + 1 \in DOMAIN pending /\ pending[i + 1].id = call[d]
    BY <2>2, <2>3
  <2>5. pending[Len(pending)].id = call[d]
    BY <2>1, <2>4 DEF LiveIsLast, InQueue
  <2>6. /\ Len(pending') = Len(pending) - 1
        /\ Len(pending') \in DOMAIN pending'
        /\ Len(pending') + 1 = Len(pending)
    BY <2>2, <2>3
  <2>7. pending'[Len(pending')] = pending[Len(pending') + 1]
    BY <2>2, <2>6
  <2>8. QED BY <2>1, <2>5, <2>6, <2>7
<1>5. ASSUME DrainPending PROVE FALSE
  BY <1>5 DEF DrainPending, InQueue
<1>6. ASSUME NEW c \in Callers, NEW k \in CmdKinds, Call(c, k)
      PROVE  pending'[Len(pending')].id = call'[d]
  <2>1. d # c /\ pc[d] \in Engaged /\ call'[d] = call[d] /\ pending' = pending
    BY <1>6 DEF Call, Engaged
  <2>2. QED BY <2>1, <1>1
<1>7. ASSUME NEW c \in Callers, Lock(c) \/ AcquireWrite(c) \/ SendOk(c)
      PROVE  pending'[Len(pending')].id = call'[d]
  <2>1. pc[d] \in Engaged /\ call'[d] = call[d] /\ pending' = pending
    BY <1>7 DEF Lock, AcquireWrite, SendOk, Engaged
  <2>2. QED BY <2>1, <1>1
<1>8. CASE UNCHANGED <<callerVars, pending>>
  BY <1>8, <1>1 DEF callerVars
<1>9. QED
  BY <1>2, <1>3, <1>4, <1>5, <1>6, <1>7, <1>8
     DEF Next, CallerStep, RecvStep, RefusedClosed, RefusedPoisoned, SendErr,
         Receive, Timeout, ForwardEvent, SkipGarbled, RecvExit, CloseEvents,
         Shutdown, DeviceStep, DeviceAnswer, AnswerLost, DeviceEvent,
         UpstreamEnds, Finished, vars, callerVars

THEOREM LiveIsLastTheorem == Spec => []LiveIsLast
<1>1. Init => LiveIsLast
  BY DEF Init, LiveIsLast, Engaged
<1>2. QED
  BY <1>1, TypeCorrect, QueueInvariant, LockInvariant, LastStep, PTL DEF Spec

-----------------------------------------------------------------------------
(* While nothing is lost and nobody gives up, a client's answer is its own. *)

(* The call an item in flight answers: its caller waits, unanswered, and    *)
(* its command has that kind.                                               *)
Awaited(x) ==
    \E c \in Callers : /\ pc[c] = "waiting" /\ answer[c] = Empty
                       /\ call[c] = x.id /\ kind[c] = x.kind

CallersCalm ==
    /\ \A c \in Callers : pc[c] # "idle" => kind[c] \in CmdKinds
    /\ \A i \in DOMAIN pending : pending[i].kind \in CmdKinds
    /\ \A c \in Callers : pc[c] = "waiting" => sink = "open"
    /\ sink = "open" =>
         \A i \in DOMAIN pending : \E c \in Callers :
             /\ pc[c] \in Engaged
             /\ pending[i].id = call[c] /\ pending[i].kind = kind[c]

FlightCalm ==
    /\ \A c \in Callers : pc[c] \in {"enqueued", "sending"} => answer[c] = Empty
    /\ \A i \in DOMAIN wire : Awaited(wire[i])
    /\ \A i \in DOMAIN stream :
         IF stream[i].id = 0
         THEN stream[i].status = "frame" => stream[i].kind \in EventKinds
         ELSE stream[i].status = "frame" /\ Awaited(stream[i])
    /\ \A i, j \in DOMAIN stream :
         stream[i].id # 0 /\ stream[j].id # 0 => i = j
    /\ wire # <<>> => Len(wire) = 1 /\ \A i \in DOMAIN stream : stream[i].id = 0

(* The inductive invariant: at most one command is in flight, on the wire   *)
(* or as a frame of the stream, and its caller waits for it; an open sink   *)
(* has no queued command whose caller is gone.                              *)
Calm == CallersCalm /\ (recv = "running" => FlightCalm)
CalmInv == Undisturbed => Calm

(* Two clients are never both inside the multiplexer. *)
LEMMA OneInside ==
  ASSUME TypeOK, LockInv, Undisturbed, NEW c \in Callers, NEW d \in Callers,
         pc[c] \in {"enter"} \cup Engaged, pc[d] \in {"enter"} \cup Engaged
  PROVE  c = d
BY DEF LockInv, Undisturbed, Callers

(* What is left of a queue was in it, one place further back. *)
LEMMA TailFacts ==
  ASSUME NEW S, NEW s \in Seq(S), s # <<>>
  PROVE  /\ Head(s) = s[1] /\ 1 \in DOMAIN s
         /\ \A i \in DOMAIN Tail(s) :
              /\ i \in Nat /\ i + 1 \in DOMAIN s /\ i + 1 # 1
              /\ Tail(s)[i] = s[i + 1]
         /\ Tail(s) # s
         /\ \A e \in S : Append(s, e) # Tail(s)
OBVIOUS

LEMMA AppendFacts ==
  ASSUME NEW S, NEW s \in Seq(S), NEW e \in S
  PROVE  /\ DOMAIN Append(s, e) = DOMAIN s \cup {Len(s) + 1}
         /\ \A i \in DOMAIN s : Append(s, e)[i] = s[i] /\ i # Len(s) + 1
         /\ Append(s, e)[Len(s) + 1] = e
OBVIOUS

(* A caller that leaves had nothing in flight. *)
LEMMA CalmLeave ==
  ASSUME TypeOK, QueueInv, LockInv, Undisturbed, Calm,
         NEW c \in Callers, Leave(c), UNCHANGED <<pending, recv, wire, stream>>,
         \/ pc[c] = "enter" /\ sink' = sink
         \/ pc[c] \in {"enqueued", "sending"} /\ sink' = "taken"
         \/ pc[c] = "waiting" /\ answer[c] # Empty /\ sink' = sink
  PROVE  Calm'
<1> USE DEF TypeOK
<1>1. \A d \in Callers : pc[d] \in {"enter"} \cup Engaged => d = c
  BY OneInside DEF Engaged
<1>2. \A d \in Callers : pc'[d] = IF d = c THEN "idle" ELSE pc[d]
  BY DEF Leave
<1>3. \A d \in Callers : pc'[d] \notin Engaged
  BY <1>1, <1>2 DEF Engaged
<1>4. sink' = "open" => sink = "open" /\ pending = <<>>
  <2> SUFFICES ASSUME sink' = "open", pending # <<>> PROVE FALSE
    OBVIOUS
  <2>1. PICK d \in Callers : pc[d] \in Engaged /\ pending[1].id = call[d]
    BY DEF Calm, CallersCalm
  <2>2. d = c /\ InQueue(c)
    BY <2>1, <1>1 DEF InQueue
  <2>3. answer[c] = Empty
    BY <2>1, <2>2 DEF QueueInv, Tracked
  <2>4. QED BY <2>1, <2>2, <2>3 DEF Engaged
<1>5. CallersCalm'
  <2>1. \A d \in Callers : pc'[d] # "idle" => kind'[d] \in CmdKinds
    BY <1>2 DEF Leave, Calm, CallersCalm
  <2>2. QED BY <2>1, <1>3, <1>4 DEF Calm, CallersCalm, Engaged
<1>6. ASSUME recv' = "running" PROVE FlightCalm'
  <2>1. FlightCalm
    BY <1>6 DEF Calm
  <2>2. \A x : ~Awaited(x)
    BY <1>1 DEF Awaited, Engaged
  <2>3. wire = <<>> /\ \A i \in DOMAIN stream : stream[i].id = 0
    BY <2>1, <2>2 DEF FlightCalm
  <2>4. QED BY <2>1, <2>3, <1>3 DEF FlightCalm, Engaged
<1>7. QED BY <1>5, <1>6 DEF Calm

(* Steps of a caller that only moves its place. *)
LEMMA CalmCall ==
  ASSUME TypeOK, QueueInv, LockInv, Undisturbed, Calm,
         NEW c \in Callers, NEW k \in CmdKinds, Call(c, k)
  PROVE  Calm'
<1> USE DEF TypeOK, Call, deviceVars
<1>1. pc[c] \notin Engaged /\ pc'[c] \notin Engaged
      /\ pc'[c] \notin {"waiting", "enqueued", "sending"}
  BY DEF Engaged
<1>2. \A d \in Callers : d # c => /\ pc'[d] = pc[d] /\ call'[d] = call[d]
                                  /\ kind'[d] = kind[d]
  OBVIOUS
<1>3. CallersCalm'
  BY <1>1, <1>2 DEF Calm, CallersCalm
<1>4. \A x : Awaited(x) => Awaited(x)'
  BY <1>1, <1>2 DEF Awaited
<1>5. FlightCalm => FlightCalm'
  BY <1>1, <1>2, <1>4 DEF FlightCalm
<1>6. QED BY <1>3, <1>5 DEF Calm

LEMMA CalmMove ==
  ASSUME TypeOK, QueueInv, LockInv, Undisturbed, Calm,
         NEW c \in Callers, Lock(c) \/ AcquireWrite(c)
  PROVE  Calm'
<1> USE DEF TypeOK, Lock, AcquireWrite, deviceVars
<1>1. /\ pc[c] \in Engaged <=> pc'[c] \in Engaged
      /\ pc[c] # "waiting" /\ pc'[c] # "waiting" /\ pc[c] # "idle"
      /\ pc'[c] \in {"enqueued", "sending"}
           => pc[c] \in {"enqueued", "sending"}
  BY DEF Engaged
<1>2. \A d \in Callers : d # c => pc'[d] = pc[d]
  OBVIOUS
<1>3. CallersCalm'
  <2>1. \A d \in Callers : pc[d] \in Engaged <=> pc'[d] \in Engaged
    BY <1>1, <1>2
  <2>2. UNCHANGED <<call, kind, pending, sink>>
    OBVIOUS
  <2>3. \A d \in Callers : pc'[d] # "idle" => pc[d] # "idle"
    BY <1>1, <1>2
  <2>4. \A d \in Callers : pc'[d] = "waiting" => pc[d] = "waiting"
    BY <1>1, <1>2
  <2>5. QED BY <2>1, <2>2, <2>3, <2>4 DEF Calm, CallersCalm
<1>4. \A x : Awaited(x) => Awaited(x)'
  BY <1>1, <1>2 DEF Awaited
<1>5. FlightCalm => FlightCalm'
  BY <1>1, <1>2, <1>4 DEF FlightCalm
<1>6. QED BY <1>3, <1>5 DEF Calm

LEMMA CalmEnqueue ==
  ASSUME TypeOK, QueueInv, LockInv, Undisturbed, Calm,
         NEW c \in Callers, Enqueue(c)
  PROVE  Calm'
<1> USE DEF TypeOK, Enqueue, deviceVars
<1> DEFINE e == [id |-> call[c], kind |-> kind[c]]
<1>1. /\ DOMAIN pending' = DOMAIN pending \cup {Len(pending) + 1}
      /\ \A i \in DOMAIN pending : pending'[i] = pending[i]
      /\ pending'[Len(pending) + 1] = e
  <2>1. e \in Entry
    BY DEF Entry
  <2>2. QED BY <2>1, AppendFacts
<1>2. \A d \in Callers : pc'[d] = IF d = c THEN "enqueued" ELSE pc[d]
  OBVIOUS
<1>3. kind[c] \in CmdKinds /\ answer[c] = Empty /\ pc[c] # "waiting"
  BY DEF Calm, CallersCalm, QueueInv, Engaged
<1>4. CallersCalm'
  <2>1. sink' = "open" =>
          \A i \in DOMAIN pending' : \E d \in Callers :
             /\ pc'[d] \in Engaged
             /\ pending'[i].id = call'[d] /\ pending'[i].kind = kind'[d]
    <3> SUFFICES ASSUME sink = "open", NEW i \in DOMAIN pending'
                 PROVE  \E d \in Callers :
                          /\ pc'[d] \in Engaged
                          /\ pending'[i].id = call[d]
                          /\ pending'[i].kind = kind[d]
      OBVIOUS
    <3>1. CASE i \in DOMAIN pending
      <4>1. PICK d \in Callers :
              /\ pc[d] \in Engaged
              /\ pending[i].id = call[d] /\ pending[i].kind = kind[d]
        BY <3>1 DEF Calm, CallersCalm
      <4>2. d # c
        BY <4>1 DEF Engaged
      <4>3. pc'[d] = pc[d] /\ pending'[i] = pending[i]
        BY <4>2, <3>1, <1>1, <1>2
      <4>4. QED BY <4>1, <4>3, Zenon
    <3>2. CASE i = Len(pending) + 1
      <4>1. pc'[c] \in Engaged /\ pending'[i] = e
        BY <3>2, <1>1, <1>2 DEF Engaged
      <4>2. e.id = call[c] /\ e.kind = kind[c]
        OBVIOUS
      <4>3. QED BY <4>1, <4>2, Zenon
    <3>3. QED BY <3>1, <3>2, <1>1
  <2>2. \A i \in DOMAIN pending' : pending'[i].kind \in CmdKinds
    BY <1>1, <1>3 DEF Calm, CallersCalm
  <2>3. \A d \in Callers : /\ pc'[d] # "idle" => kind'[d] \in CmdKinds
                           /\ pc'[d] = "waiting" => sink' = "open"
    BY <1>2, <1>3 DEF Calm, CallersCalm
  <2>4. QED BY <2>1, <2>2, <2>3 DEF CallersCalm
<1>5. \A x : Awaited(x) => Awaited(x)'
  BY <1>2, <1>3 DEF Awaited
<1>6. FlightCalm => FlightCalm'
  BY <1>2, <1>3, <1>5 DEF FlightCalm
<1>7. QED BY <1>4, <1>6 DEF Calm

(* The command that goes on the wire is the only thing in flight. *)
LEMMA CalmSend ==
  ASSUME TypeOK, QueueInv, LockInv, Undisturbed, Calm,
         NEW c \in Callers, SendOk(c)
  PROVE  Calm'
<1> USE DEF TypeOK, SendOk
<1> DEFINE e == [id |-> call[c], kind |-> kind[c]]
<1>1. \A d \in Callers : pc[d] \in Engaged => d = c
  BY OneInside DEF Engaged
<1>2. \A d \in Callers : pc'[d] = IF d = c THEN "waiting" ELSE pc[d]
  OBVIOUS
<1>3. CallersCalm'
  BY <1>2 DEF Calm, CallersCalm, Engaged, LockInv
<1>4. ASSUME FlightCalm PROVE FlightCalm'
  <2>1. \A x : ~Awaited(x)
    BY <1>1 DEF Awaited, Engaged
  <2>2. wire = <<>> /\ \A i \in DOMAIN stream : stream[i].id = 0
    BY <2>1, <1>4 DEF FlightCalm
  <2>3. wire' = <<e>>
    BY <2>2
  <2>4. DOMAIN wire' = {1} /\ wire'[1] = e /\ Len(wire') = 1
    BY <2>3
  <2>5. /\ pc'[c] = "waiting" /\ answer'[c] = Empty
        /\ call'[c] = e.id /\ kind'[c] = e.kind
    BY <1>2, <1>4 DEF FlightCalm
  <2>6. (\A i \in DOMAIN wire : Awaited(wire[i]))'
    BY <2>4, <2>5 DEF Awaited
  <2>7. \A d \in Callers : pc'[d] \in {"enqueued", "sending"}
                              => answer'[d] = Empty
    BY <1>2, <1>4 DEF FlightCalm
  <2>8. QED BY <1>4, <2>2, <2>4, <2>6, <2>7 DEF FlightCalm
<1>5. QED BY <1>3, <1>4 DEF Calm

(* A frame whose caller waits for it is at the head of a queue that holds   *)
(* nothing else; any other frame is an event, which matches no command.     *)
LEMMA CalmFrame ==
  ASSUME TypeOK, QueueInv, LockInv, Undisturbed, Calm, recv = "running",
         IsFrame("frame"), Head(stream).id # 0
  PROVE  /\ HeadMatches
         /\ \E c \in Callers : /\ pc[c] = "waiting" /\ answer[c] = Empty
                               /\ call[c] = Head(stream).id
                               /\ \A i \in DOMAIN pending :
                                    pending[i].id = call[c]
<1> USE DEF TypeOK
<1>1. stream # <<>> /\ Head(stream) = stream[1] /\ 1 \in DOMAIN stream
  BY TailFacts DEF IsFrame
<1>2. Awaited(Head(stream))
  BY <1>1 DEF Calm, FlightCalm
<1>3. PICK c \in Callers : /\ pc[c] = "waiting" /\ answer[c] = Empty
                           /\ call[c] = Head(stream).id
                           /\ kind[c] = Head(stream).kind
  BY <1>2 DEF Awaited
<1>4. \A d \in Callers : pc[d] \in Engaged => d = c
  BY <1>3, OneInside DEF Engaged
<1>5. InQueue(c) /\ sink = "open"
  BY <1>3 DEF QueueInv, Tracked, Engaged, Calm, CallersCalm
<1>6. \A i \in DOMAIN pending : pending[i].id = call[c]
                                /\ pending[i].kind = kind[c]
  BY <1>4, <1>5 DEF Calm, CallersCalm
<1>7. pending # <<>> /\ Head(pending) = pending[1] /\ 1 \in DOMAIN pending
  BY <1>5 DEF InQueue
<1>8. HeadMatches
  BY <1>3, <1>6, <1>7 DEF HeadMatches, MatchesResponse
<1>9. QED BY <1>3, <1>6, <1>8

LEMMA CalmEvent ==
  ASSUME TypeOK, Undisturbed, Calm, recv = "running", IsFrame("frame"),
         HeadMatches
  PROVE  Head(stream).id # 0
<1> USE DEF TypeOK
<1>1. stream # <<>> /\ Head(stream) = stream[1] /\ 1 \in DOMAIN stream
  BY TailFacts DEF IsFrame
<1>2. pending # <<>> /\ Head(pending) = pending[1] /\ 1 \in DOMAIN pending
  BY TailFacts DEF HeadMatches
<1>3. Head(pending).kind \in CmdKinds /\ Head(pending).kind # Unknown
  BY <1>2 DEF Calm, CallersCalm, Undisturbed
<1>4. Head(stream).kind \in CmdKinds
  BY <1>3 DEF HeadMatches, MatchesResponse
<1>5. Head(stream).id = 0 => Head(stream).kind \in EventKinds
  BY <1>1 DEF Calm, FlightCalm, IsFrame
<1>6. QED BY <1>4, <1>5 DEF Undisturbed

LEMMA CalmDispatch ==
  ASSUME TypeOK, QueueInv, LockInv, Undisturbed, Calm, Dispatch
  PROVE  Calm'
<1> USE DEF TypeOK
<1>1. /\ recv = "running" /\ IsFrame("frame") /\ HeadMatches
      /\ pending' = Tail(pending) /\ stream' = Tail(stream)
      /\ UNCHANGED <<pc, call, kind, sink, wire, recv>>
      /\ \A d \in Callers : answer'[d] = Answered(d)
  BY DEF Dispatch
<1>2. Head(stream).id # 0
  BY <1>1, CalmEvent
<1>3. PICK c \in Callers : /\ pc[c] = "waiting" /\ answer[c] = Empty
                           /\ call[c] = Head(stream).id
                           /\ \A i \in DOMAIN pending : pending[i].id = call[c]
  BY <1>1, <1>2, CalmFrame
<1>4. stream # <<>> /\ Head(stream) = stream[1] /\ 1 \in DOMAIN stream
      /\ \A i \in DOMAIN stream' : /\ i \in Nat /\ i + 1 \in DOMAIN stream
                                   /\ i + 1 # 1 /\ stream'[i] = stream[i + 1]
  BY <1>1, TailFacts DEF IsFrame
<1>5. pending # <<>> /\ Head(pending) = pending[1] /\ 1 \in DOMAIN pending
      /\ \A i \in DOMAIN pending' : /\ i \in Nat /\ i + 1 \in DOMAIN pending
                                    /\ i + 1 # 1 /\ pending'[i] = pending[i + 1]
  BY <1>1, TailFacts DEF HeadMatches
<1>6. \A i \in DOMAIN pending' : FALSE
  BY <1>3, <1>5 DEF QueueInv
<1>7. CallersCalm'
  BY <1>1, <1>6 DEF Calm, CallersCalm
<1>8. FlightCalm
  BY <1>1 DEF Calm
<1>9. \A i \in DOMAIN stream' : stream'[i].id = 0
  BY <1>2, <1>4, <1>8 DEF FlightCalm
<1>10. wire = <<>>
  BY <1>2, <1>4, <1>8 DEF FlightCalm
<1>11. \A d \in Callers : pc[d] \in {"enqueued", "sending"}
                             => answer'[d] = answer[d]
  <2> SUFFICES ASSUME NEW d \in Callers, pc[d] \in {"enqueued", "sending"}
               PROVE  call[d] # Head(pending).id
    BY <1>1 DEF Answered
  <2>1. d # c /\ pc[d] # "idle"
    BY <1>3
  <2>2. QED BY <2>1, <1>3, <1>5, <1>2 DEF QueueInv
<1>12. \A i \in DOMAIN stream' : stream'[i].status = "frame"
                                    => stream'[i].kind \in EventKinds
  BY <1>4, <1>8, <1>9 DEF FlightCalm
<1>13. FlightCalm'
  BY <1>1, <1>8, <1>9, <1>10, <1>11, <1>12, SMTT(20) DEF FlightCalm
<1>14. QED BY <1>7, <1>13 DEF Calm

(* An item taken off the stream leaves the rest as it was. *)
LEMMA CalmSkip ==
  ASSUME TypeOK, Calm, recv = "running", stream # <<>>, stream' = Tail(stream),
         UNCHANGED <<callerVars, pending, sink, recv, wire>>
  PROVE  Calm'
<1> USE DEF TypeOK, callerVars
<1>1. \A i \in DOMAIN stream' : /\ i \in Nat /\ i + 1 \in DOMAIN stream
                                /\ i + 1 # 1 /\ stream'[i] = stream[i + 1]
  BY TailFacts
<1>2. CallersCalm' /\ FlightCalm
  BY DEF Calm, CallersCalm
<1>3. \A x : Awaited(x)' <=> Awaited(x)
  BY DEF Awaited
<1>4. \A i \in DOMAIN stream' :
         IF stream'[i].id = 0
         THEN stream'[i].status = "frame" => stream'[i].kind \in EventKinds
         ELSE stream'[i].status = "frame" /\ Awaited(stream'[i])
  BY <1>1, <1>2 DEF FlightCalm
<1>5. \A i, j \in DOMAIN stream' :
         stream'[i].id # 0 /\ stream'[j].id # 0 => i = j
  BY <1>1, <1>2 DEF FlightCalm
<1>6. wire' # <<>> => Len(wire') = 1 /\ \A i \in DOMAIN stream' : stream'[i].id = 0
  BY <1>1, <1>2 DEF FlightCalm
<1>7. FlightCalm'
  BY <1>2, <1>3, <1>4, <1>5, <1>6 DEF FlightCalm
<1>8. QED BY <1>2, <1>7 DEF Calm

(* The device answers the only command on the wire, with its kind. *)
LEMMA CalmAnswer ==
  ASSUME TypeOK, QueueInv, Undisturbed, Calm,
         NEW k \in RespKinds, DeviceAnswer(k)
  PROVE  Calm'
<1> USE DEF TypeOK, DeviceAnswer, callerVars
<1> DEFINE f == Frame(Head(wire).id, k)
<1>1. CallersCalm'
  BY DEF Calm, CallersCalm
<1>2. ASSUME recv' = "running" PROVE FlightCalm'
  <2>1. FlightCalm
    BY <1>2 DEF Calm
  <2>2. Head(wire) = wire[1] /\ 1 \in DOMAIN wire /\ Head(wire) \in Entry
    BY TailFacts
  <2>3. PICK c \in Callers : /\ pc[c] = "waiting" /\ answer[c] = Empty
                             /\ call[c] = Head(wire).id
                             /\ kind[c] = Head(wire).kind
    BY <2>1, <2>2 DEF FlightCalm, Awaited
  <2>4. kind[c] = k /\ call[c] # 0
    BY <2>3 DEF Calm, CallersCalm, Undisturbed, QueueInv
  <2>5. f \in Item /\ f.status = "frame" /\ f.id = call[c] /\ f.kind = kind[c]
    BY <2>2, <2>3, <2>4 DEF Frame, Item, Entry
  <2>6. /\ DOMAIN stream' = DOMAIN stream \cup {Len(stream) + 1}
        /\ \A i \in DOMAIN stream : stream'[i] = stream[i] /\ i # Len(stream) + 1
        /\ stream'[Len(stream) + 1] = f
    BY <2>5, AppendFacts
  <2>7. wire' = <<>>
    <3>1. Len(wire) = 1 /\ wire' = Tail(wire)
      BY <2>1 DEF FlightCalm
    <3>2. QED BY <3>1, SMTT(20)
  <2>8. \A x : Awaited(x)' <=> Awaited(x)
    BY DEF Awaited
  <2>9. Awaited(f)
    BY <2>3, <2>5 DEF Awaited
  <2>10. \A i \in DOMAIN stream : stream[i].id = 0
    BY <2>1 DEF FlightCalm
  <2>11. \A i \in DOMAIN stream' :
           IF stream'[i].id = 0
           THEN stream'[i].status = "frame" => stream'[i].kind \in EventKinds
           ELSE stream'[i].status = "frame" /\ Awaited(stream'[i])
    BY <2>1, <2>4, <2>5, <2>6, <2>9, <2>10 DEF FlightCalm
  <2>12. \A i, j \in DOMAIN stream' :
           stream'[i].id # 0 /\ stream'[j].id # 0 => i = j
    BY <2>6, <2>10
  <2>13. QED BY <2>1, <2>7, <2>8, <2>11, <2>12 DEF FlightCalm
<1>3. QED BY <1>1, <1>2 DEF Calm

(* Events and the transport's error carry no call number. *)
LEMMA CalmUnasked ==
  ASSUME TypeOK, Calm, NEW x \in Item, x.id = 0,
         x.status = "frame" => x.kind \in EventKinds,
         stream' = stream \/ stream' = Append(stream, x),
         UNCHANGED <<callerVars, pending, sink, recv, wire>>
  PROVE  Calm'
<1> USE DEF TypeOK, callerVars
<1>1. CallersCalm'
  BY DEF Calm, CallersCalm
<1>2. \A y : Awaited(y)' <=> Awaited(y)
  BY DEF Awaited
<1>3. \A i \in DOMAIN stream' :
        \/ i \in DOMAIN stream /\ stream'[i] = stream[i]
        \/ stream'[i] = x
  <2>1. CASE stream' = stream
    BY <2>1
  <2>2. CASE stream' = Append(stream, x)
    <3>1. /\ DOMAIN stream' = DOMAIN stream \cup {Len(stream) + 1}
          /\ \A i \in DOMAIN stream : stream'[i] = stream[i]
          /\ stream'[Len(stream) + 1] = x
      BY <2>2, AppendFacts
    <3>2. QED BY <3>1
  <2>3. QED BY <2>1, <2>2
<1>4. ASSUME FlightCalm PROVE FlightCalm'
  <2>1. \A i \in DOMAIN stream' :
           IF stream'[i].id = 0
           THEN stream'[i].status = "frame" => stream'[i].kind \in EventKinds
           ELSE stream'[i].status = "frame" /\ Awaited(stream'[i])
    BY <1>3, <1>4 DEF FlightCalm
  <2>2. \A i, j \in DOMAIN stream' :
           stream'[i].id # 0 /\ stream'[j].id # 0 => i = j
    BY <1>3, <1>4 DEF FlightCalm
  <2>3. wire # <<>> => \A i \in DOMAIN stream' : stream'[i].id = 0
    BY <1>3, <1>4 DEF FlightCalm
  <2>4. QED BY <1>2, <1>4, <2>1, <2>2, <2>3 DEF FlightCalm
<1>5. QED BY <1>1, <1>4 DEF Calm

LEMMA CalmStep ==
  TypeOK /\ QueueInv /\ LockInv /\ CalmInv /\ [Next]_vars => CalmInv'
<1> SUFFICES ASSUME TypeOK, QueueInv, LockInv, CalmInv, [Next]_vars,
                    Undisturbed'
             PROVE  Calm'
  BY DEF CalmInv
<1>0. ASSUME lost \in Nat, timeouts \in Nat,
             lost' = lost \/ lost' = lost + 1,
             timeouts' = timeouts \/ timeouts' = timeouts + 1
      PROVE  /\ lost' = lost /\ timeouts' = timeouts
             /\ Undisturbed /\ Calm
  BY <1>0 DEF Undisturbed, CalmInv
<1>1. ASSUME NEW c \in Callers, NEW k \in CmdKinds, Call(c, k)
      PROVE  Calm'
  BY <1>0, <1>1, CalmCall DEF Call, deviceVars, TypeOK
<1>2. ASSUME NEW c \in Callers, Lock(c) \/ AcquireWrite(c) PROVE Calm'
  BY <1>0, <1>2, CalmMove DEF Lock, AcquireWrite, deviceVars, TypeOK
<1>3. ASSUME NEW c \in Callers, Enqueue(c) PROVE Calm'
  BY <1>0, <1>3, CalmEnqueue DEF Enqueue, deviceVars, TypeOK
<1>4. ASSUME NEW c \in Callers, RefusedClosed(c) \/ RefusedPoisoned(c)
                                \/ SendErr(c) \/ Receive(c)
      PROVE  Calm'
  BY <1>0, <1>4, CalmLeave
     DEF RefusedClosed, RefusedPoisoned, SendErr, Poisoned, Receive,
         deviceVars, TypeOK
<1>5. ASSUME NEW c \in Callers, SendOk(c) PROVE Calm'
  BY <1>0, <1>5, CalmSend DEF SendOk, TypeOK
<1>6. ASSUME NEW c \in Callers, Timeout(c) PROVE FALSE
  BY <1>0, <1>6 DEF Timeout, TypeOK
<1>7. CASE RecvStep
  <2>0. Undisturbed /\ Calm
    BY <1>0, <1>7 DEF RecvStep, Dispatch, ForwardEvent, SkipGarbled, RecvExit,
                      CloseEvents, DrainPending, deviceVars, TypeOK
  <2>1. CASE Dispatch
    BY <2>0, <2>1, CalmDispatch
  <2>2. CASE ForwardEvent \/ SkipGarbled
    BY <2>0, <2>2, CalmSkip DEF ForwardEvent, SkipGarbled, IsFrame
  <2>3. CASE RecvExit \/ CloseEvents
    BY <2>0, <2>3 DEF RecvExit, CloseEvents, callerVars, Calm, CallersCalm
  <2>4. CASE DrainPending
    BY <2>0, <2>4 DEF DrainPending, Calm, CallersCalm
  <2>5. QED BY <1>7, <2>1, <2>2, <2>3, <2>4 DEF RecvStep
<1>8. CASE Shutdown
  <2>0. Undisturbed /\ Calm
    BY <1>0, <1>8 DEF Shutdown, deviceVars, TypeOK
  <2>1. \A c \in Callers : pc[c] \notin Engaged
    BY <1>8, <2>0, CallersAssumption
       DEF Shutdown, LockInv, Undisturbed, Callers
  <2>2. CallersCalm'
    BY <1>8, <2>0, <2>1
       DEF Shutdown, callerVars, Calm, CallersCalm, Engaged
  <2>3. \A x : Awaited(x)' <=> Awaited(x)
    BY <1>8 DEF Shutdown, callerVars, Awaited
  <2>4. recv' = "running" => FlightCalm'
    BY <1>8, <2>0, <2>3 DEF Shutdown, callerVars, deviceVars, Calm, FlightCalm
  <2>5. QED BY <2>2, <2>4 DEF Calm
<1>9. CASE DeviceStep
  <2>0. Undisturbed /\ Calm
    BY <1>0, <1>9 DEF DeviceStep, DeviceAnswer, AnswerLost, DeviceEvent,
                      UpstreamEnds, TypeOK
  <2>1. ASSUME NEW k \in RespKinds, DeviceAnswer(k) PROVE Calm'
    BY <2>0, <2>1, CalmAnswer
  <2>2. ASSUME AnswerLost PROVE FALSE
    BY <1>0, <2>2 DEF AnswerLost, TypeOK
  <2>3. ASSUME NEW k \in EventKinds, DeviceEvent(k) PROVE Calm'
    <3>1. Frame(0, k) \in Item /\ Frame(0, k).id = 0 /\ Frame(0, k).kind = k
      BY DEF Frame, Item, RespKinds
    <3>2. QED BY <2>0, <2>3, <3>1, CalmUnasked DEF DeviceEvent
  <2>4. CASE UpstreamEnds
    <3> DEFINE x == [status |-> "error", id |-> 0, kind |-> Unknown]
    <3>1. x \in Item /\ x.id = 0 /\ x.status # "frame"
      BY DEF Item
    <3>2. QED BY <2>0, <2>4, <3>1, CalmUnasked DEF UpstreamEnds
  <2>5. QED BY <1>9, <2>1, <2>2, <2>3, <2>4 DEF DeviceStep
<1>10. CASE UNCHANGED vars
  <2>1. Undisturbed /\ Calm
    BY <1>0, <1>10 DEF vars, TypeOK
  <2>2. QED
    BY <2>1, <1>10 DEF vars, Calm, CallersCalm, FlightCalm, Awaited
<1>11. QED
  BY <1>1, <1>2, <1>3, <1>4, <1>5, <1>6, <1>7, <1>8, <1>9, <1>10
     DEF Next, CallerStep, Finished

THEOREM CalmInvariant == Spec => []CalmInv
<1>1. Init => CalmInv
  BY DEF Init, CalmInv, Calm, CallersCalm, FlightCalm, Engaged, Awaited
<1>2. QED
  BY <1>1, TypeCorrect, QueueInvariant, LockInvariant, CalmStep, PTL DEF Spec

(* Only the receive task takes an item off the stream. *)
LEMMA TakenByRecv ==
  ASSUME TypeOK, [Next]_vars, stream # <<>>, stream' = Tail(stream),
         IsFrame("frame")
  PROVE  Dispatch \/ ForwardEvent
<1> USE DEF TypeOK
<1>1. stream' # stream
  BY TailFacts
<1>2. \A x \in Item : stream' # Append(stream, x)
  BY TailFacts
<1>3. ASSUME NEW k \in RespKinds, DeviceAnswer(k) PROVE FALSE
  <2>1. Head(wire) \in Entry
    BY <1>3, TailFacts DEF DeviceAnswer
  <2>2. Frame(Head(wire).id, k) \in Item
    BY <2>1 DEF Frame, Item, Entry
  <2>3. QED BY <1>2, <1>3, <2>2 DEF DeviceAnswer
<1>4. ASSUME AnswerLost PROVE FALSE
  <2>1. Head(wire) \in Entry
    BY <1>4, TailFacts DEF AnswerLost
  <2>2. [status |-> "garbled", id |-> Head(wire).id, kind |-> Unknown] \in Item
    BY <2>1 DEF Item, Entry
  <2>3. QED BY <1>1, <1>2, <1>4, <2>2 DEF AnswerLost
<1>5. ASSUME NEW k \in EventKinds, DeviceEvent(k) PROVE FALSE
  <2>1. Frame(0, k) \in Item
    BY DEF Frame, Item, RespKinds
  <2>2. QED BY <1>2, <1>5, <2>1 DEF DeviceEvent
<1>6. ASSUME UpstreamEnds PROVE FALSE
  <2>1. [status |-> "error", id |-> 0, kind |-> Unknown] \in Item
    BY DEF Item
  <2>2. QED BY <1>1, <1>2, <1>6, <2>1 DEF UpstreamEnds
<1>7. ~DeviceStep
  BY <1>3, <1>4, <1>5, <1>6 DEF DeviceStep
<1>8. ~SkipGarbled
  BY DEF SkipGarbled, IsFrame
<1>9. QED
  BY <1>1, <1>7, <1>8
     DEF Next, CallerStep, RecvStep, Call, Lock, Enqueue, RefusedClosed,
         AcquireWrite, RefusedPoisoned, SendOk, SendErr, Receive, Timeout,
         RecvExit, CloseEvents, DrainPending, Shutdown, Finished, vars,
         deviceVars

(* Until something is lost or a call is given up, each answer that arrives  *)
(* while its client waits is that client's result.                          *)
THEOREM UndisturbedTheorem == Spec => UndisturbedAnswer
<1> DEFINE Arrives(c) == /\ stream # <<>> /\ stream' = Tail(stream)
                         /\ IsFrame("frame") /\ Head(stream).id = call[c]
                         /\ pc[c] = "waiting"
<1>1. ASSUME TypeOK, QueueInv, LockInv, CalmInv, [Next]_vars, Undisturbed,
             NEW c \in Callers, Arrives(c)
      PROVE  answer'[c] = [status |-> "ok", id |-> call[c]]
  <2>1. Dispatch \/ ForwardEvent
    BY <1>1, TakenByRecv
  <2>2. recv = "running" /\ Calm /\ call[c] # 0
    BY <1>1, <2>1 DEF Dispatch, ForwardEvent, CalmInv, QueueInv
  <2>3. HeadMatches
    BY <1>1, <2>2, CalmFrame
  <2>4. PICK d \in Callers : /\ call[d] = Head(stream).id
                             /\ \A i \in DOMAIN pending : pending[i].id = call[d]
    BY <1>1, <2>2, CalmFrame
  <2>5. d = c
    BY <1>1, <2>2, <2>4 DEF QueueInv
  <2>6. Head(pending).id = call[c]
    BY <1>1, <2>3, <2>4, <2>5, TailFacts DEF HeadMatches, TypeOK
  <2>7. Dispatch
    BY <2>1, <2>3 DEF ForwardEvent
  <2>8. QED BY <1>1, <2>6, <2>7 DEF Dispatch, Answered
<1>2. TypeOK /\ QueueInv /\ LockInv /\ CalmInv /\ [Next]_vars =>
        (Undisturbed => \A c \in Callers : Arrives(c)
            => answer'[c] = [status |-> "ok", id |-> call[c]])
  BY <1>1
<1>3. QED
  BY <1>2, TypeCorrect, QueueInvariant, LockInvariant, CalmInvariant, PTL
     DEF UndisturbedAnswer, Spec

-----------------------------------------------------------------------------
(* The multiplexer implements CommandService. *)

(* phase changes only where the place or the answer of a caller does. *)
LEMMA PhaseSame ==
  ASSUME UNCHANGED answer,
         \A c \in Callers : pc'[c] \in Engaged <=> pc[c] \in Engaged
  PROVE  phase' = phase
BY DEF phase

(* A caller that leaves returns from its call, if it was accepted. *)
LEMMA ServiceLeave ==
  ASSUME TypeOK, NEW c \in Callers, Leave(c), UNCHANGED recv
  PROVE  [Service!Next]_(Service!vars)
<1>1. phase' = [phase EXCEPT ![c] = "idle"]
  BY DEF Leave, phase, TypeOK, Engaged
<1>2. CASE phase[c] = "idle"
  <2>1. phase' = phase
    BY <1>1, <1>2 DEF phase
  <2>2. QED BY <2>1 DEF Service!vars
<1>3. CASE phase[c] # "idle"
  BY <1>1, <1>3 DEF Service!Next, Service!Return
<1>4. QED BY <1>2, <1>3

LEMMA ServiceEnqueue ==
  ASSUME TypeOK, QueueInv, NEW c \in Callers, Enqueue(c)
  PROVE  Service!Accept(c)
<1>1. recv # "done" /\ recv' = recv
  BY DEF Enqueue, AcceptsCalls, QueueInv
<1>2. phase[c] = "idle" /\ answer[c] = Empty
  BY DEF Enqueue, Engaged, QueueInv, phase
<1>3. phase' = [phase EXCEPT ![c] = "waiting"]
  BY <1>2 DEF Enqueue, phase, TypeOK, Engaged
<1>4. QED BY <1>1, <1>2, <1>3 DEF Service!Accept

LEMMA ServiceDispatch ==
  ASSUME TypeOK, QueueInv, Dispatch
  PROVE  [Service!Next]_(Service!vars)
<1> USE DEF TypeOK
<1>1. recv # "done" /\ recv' = recv /\ pc' = pc
  BY DEF Dispatch
<1>2. \A d \in Callers : answer'[d] = Answered(d)
  BY DEF Dispatch
<1>3. CASE \A d \in Callers : call[d] # Head(pending).id
  <2>1. phase' = phase
    BY <1>1, <1>2, <1>3 DEF Answered, phase
  <2>2. QED BY <1>1, <2>1 DEF Service!vars
<1>4. ASSUME NEW c \in Callers, call[c] = Head(pending).id
      PROVE  Service!Complete(c)
  <2>1. InQueue(c) /\ call[c] # 0
    <3>1. 1 \in DOMAIN pending /\ Head(pending) = pending[1]
      BY DEF Dispatch, HeadMatches
    <3>2. QED BY <1>4, <3>1 DEF InQueue, QueueInv
  <2>2. pc[c] \in Engaged /\ answer[c] = Empty
    BY <2>1 DEF QueueInv, Tracked
  <2>3. \A d \in Callers : d # c => call[d] # Head(pending).id
    BY <2>1, <1>4 DEF QueueInv
  <2>4. \A d \in Callers : d # c => answer'[d] = answer[d]
    BY <2>3, <1>2 DEF Answered
  <2>5. answer'[c].status = "ok" /\ answer'[c] # Empty
    BY <1>2, <1>4 DEF Answered, Empty
  <2>6. phase' = [phase EXCEPT ![c] = "ok"]
    BY <1>1, <2>2, <2>4, <2>5 DEF phase
  <2>7. phase[c] = "waiting"
    BY <2>2 DEF phase
  <2>8. QED BY <1>1, <2>6, <2>7 DEF Service!Complete
<1>5. QED BY <1>3, <1>4 DEF Service!Next

LEMMA ServiceDrain ==
  ASSUME TypeOK, QueueInv, DrainPending
  PROVE  Service!Close
<1> USE DEF TypeOK
<1>1. recv # "done" /\ recv' = "done" /\ pc' = pc
  BY DEF DrainPending
<1>2. \A d \in Callers : answer'[d] = Drained(d)
  BY DEF DrainPending
<1>3. \A d \in Callers : pc[d] \in Engaged =>
         answer'[d] = IF answer[d] = Empty THEN Closed ELSE answer[d]
  BY <1>2 DEF Drained, QueueInv, Tracked
<1>4. Closed # Empty /\ Closed.status = "closed"
  BY DEF Closed, Empty
<1>5. \A d \in Callers : answer[d] # Empty => answer[d].status # "waiting"
  BY DEF Answer
<1>6. ASSUME NEW d \in Callers
      PROVE  phase'[d] = IF phase[d] = "waiting" THEN "closed" ELSE phase[d]
  BY <1>1, <1>3, <1>4, <1>5 DEF phase
<1>7. phase' = [d \in Callers |->
                  IF phase[d] = "waiting" THEN "closed" ELSE phase[d]]
  BY <1>6 DEF phase
<1>8. QED BY <1>1, <1>7 DEF Service!Close

(* Every step of the multiplexer is a step of the service, or none. *)
LEMMA ServiceStep ==
  TypeOK /\ QueueInv /\ [Next]_vars => [Service!Next]_(Service!vars)
<1> SUFFICES ASSUME TypeOK, QueueInv, [Next]_vars
             PROVE  [Service!Next]_(Service!vars)
  OBVIOUS
<1>1. ASSUME NEW c \in Callers, Enqueue(c)
      PROVE  [Service!Next]_(Service!vars)
  BY <1>1, ServiceEnqueue DEF Service!Next
<1>2. ASSUME NEW c \in Callers, Leave(c), UNCHANGED recv
      PROVE  [Service!Next]_(Service!vars)
  BY <1>2, ServiceLeave
<1>3. CASE Dispatch
  BY <1>3, ServiceDispatch
<1>4. CASE DrainPending
  BY <1>4, ServiceDrain DEF Service!Next
<1>5. ASSUME UNCHANGED answer, (recv' = "done") <=> (recv = "done"),
             \A c \in Callers : pc'[c] \in Engaged <=> pc[c] \in Engaged
      PROVE  [Service!Next]_(Service!vars)
  BY <1>5, PhaseSame DEF Service!vars
<1>6. ASSUME NEW c \in Callers, NEW k \in CmdKinds, Call(c, k)
      PROVE  [Service!Next]_(Service!vars)
  BY <1>6, <1>5 DEF Call, TypeOK, Engaged
<1>7. ASSUME NEW c \in Callers, Lock(c) \/ AcquireWrite(c) \/ SendOk(c)
      PROVE  [Service!Next]_(Service!vars)
  BY <1>7, <1>5 DEF Lock, AcquireWrite, SendOk, TypeOK, Engaged
<1>8. CASE RecvExit \/ CloseEvents
  BY <1>8, <1>5 DEF RecvExit, CloseEvents, callerVars
<1>9. CASE UNCHANGED <<callerVars, recv>>
  BY <1>9, <1>5 DEF callerVars
<1>10. QED
  BY <1>1, <1>2, <1>3, <1>4, <1>6, <1>7, <1>8, <1>9
     DEF Next, CallerStep, RecvStep, RefusedClosed, RefusedPoisoned, SendErr,
         Receive, Timeout, ForwardEvent, SkipGarbled, Shutdown, DeviceStep,
         DeviceAnswer, AnswerLost, DeviceEvent, UpstreamEnds, Finished, vars,
         callerVars

(* The multiplexer implements the command service: each accepted call is    *)
(* completed at most once, and closing releases every call still waiting.   *)
THEOREM Refinement == Spec => ImplementsService
<1>1. Init => Service!Init
  BY DEF Init, Service!Init, phase, Engaged
<1>2. QED
  BY <1>1, TypeCorrect, QueueInvariant, ServiceStep, PTL
     DEF Spec, ImplementsService, Service!Spec

-----------------------------------------------------------------------------
(* The multiplexer of a device that apps use beside the daemon. *)

(* To the daemon an app on the same device is a source of unsolicited      *)
(* messages and no more: whatever apps do, the multiplexer takes the steps *)
(* of Multiplexer, so that all that holds of it holds beside apps.         *)
THEOREM AppsAreEvents == SharedSpec => Spec
<1>1. SharedInit => Init
  BY DEF SharedInit
<1>2. SharedNext \/ UNCHANGED sharedVars => Next \/ UNCHANGED vars
  <2> SUFFICES ASSUME SharedNext \/ UNCHANGED sharedVars
               PROVE  Next \/ UNCHANGED vars
    OBVIOUS
  <2>1. CASE DaemonRuns
    BY <2>1 DEF DaemonRuns, Next
  <2>2. ASSUME NEW c \in Callers,
               DaemonSends(c) \/ DaemonFails(c) \/ DaemonGivesUp(c)
        PROVE  Next
    BY <2>2 DEF DaemonSends, DaemonFails, DaemonGivesUp, Next
  <2>3. CASE DeviceServes
    BY <2>3 DEF DeviceServes, AnswersDaemon, AnswersApp, SentInVain, Next,
                DeviceStep
  <2>4. CASE SendTaskEnds \/ DeviceGone
    BY <2>4 DEF SendTaskEnds, DeviceGone, Next, DeviceStep
  <2>5. ASSUME NEW a \in Apps,
               \/ Connect(a) \/ ReadCommand(a) \/ Leaves(a)
               \/ WriteCommand(a) \/ Deliver(a) \/ SessionStep(a)
        PROVE  UNCHANGED vars
    BY <2>5 DEF Connect, ReadCommand, Leaves, WriteCommand, Deliver,
                SessionStep, TakeFrame, EndSession, CloseSession
  <2>6. CASE UNCHANGED sharedVars
    BY <2>6 DEF sharedVars
  <2> QED
    BY <2>1, <2>2, <2>3, <2>4, <2>5, <2>6 DEF SharedNext
<1> QED
  BY <1>1, <1>2, PTL DEF SharedSpec, Spec

(* Every variable keeps its type, for any apps and any capacity: no        *)
(* inbox, queue or session holds more than it may, and an app is credited  *)
(* with answers to commands of its own only.                               *)
THEOREM SharedTypeCorrect == SharedSpec => []SharedTypeOK
<1> USE AppsAssumption
<1>1. SharedInit => SharedTypeOK
  BY DEF SharedInit, SharedTypeOK
<1>2. SharedTypeOK /\ [SharedNext]_sharedVars => SharedTypeOK'
  <2> SUFFICES ASSUME SharedTypeOK, [SharedNext]_sharedVars
               PROVE  SharedTypeOK'
    OBVIOUS
  <2>1. CASE UNCHANGED sharedVars
    BY <2>1 DEF SharedTypeOK, sharedVars, appVars, hubVars
  <2>2. CASE DaemonRuns
    BY <2>2 DEF DaemonRuns, SharedTypeOK, appVars, hubVars
  <2>3. ASSUME NEW c \in Callers, DaemonFails(c)
        PROVE  SharedTypeOK'
    BY <2>3 DEF DaemonFails, SharedTypeOK, appVars, hubVars
  <2>4. DaemonQueued => queue' \in Seq(Commands) /\ Len(queue') <= Capacity
    BY DEF DaemonQueued, Room, SharedTypeOK, Command, Commands
  <2>5. ASSUME NEW c \in Callers, DaemonSends(c) \/ DaemonGivesUp(c)
        PROVE  SharedTypeOK'
    <3>1. queue' \in Seq(Commands) /\ Len(queue') <= Capacity
      BY <2>4, <2>5 DEF DaemonSends, DaemonGivesUp, SharedTypeOK
    <3> QED
      BY <2>5, <3>1 DEF DaemonSends, DaemonGivesUp, SharedTypeOK, appVars
  <2>6. ASSUME NEW f \in Frames, Broadcast(f)
        PROVE  /\ inbox' \in [Apps -> Seq(Frames)]
               /\ \A a \in Apps : Len(inbox'[a]) <= Capacity
               /\ missed' \in [Apps -> SUBSET (1 .. MaxAsked)]
    <3>1. ASSUME NEW a \in Apps
          PROVE  /\ Latest(Append(inbox[a], f)) \in Seq(Frames)
                 /\ Len(Latest(Append(inbox[a], f))) <= Capacity
      BY DEF SharedTypeOK, Latest
    <3>2. ASSUME NEW a \in Apps
          PROVE  Overwritten(a) \subseteq 1 .. MaxAsked
      <4>1. CASE inbox[a] = <<>>
        BY <4>1 DEF Overwritten, SharedTypeOK
      <4>2. CASE inbox[a] # <<>>
        <5>1. Head(inbox[a]) \in Frames
          BY <4>2 DEF SharedTypeOK
        <5> QED
          BY <5>1 DEF Overwritten, Frames
      <4> QED
        BY <4>1, <4>2
    <3> QED
      BY <2>6, <3>1, <3>2 DEF Broadcast, SharedTypeOK
  <2>7. Served => /\ queue' \in Seq(Commands) /\ Len(queue') <= Capacity
                  /\ Head(queue) \in Commands
    BY DEF Served, SharedTypeOK
  <2>8. CASE AnswersDaemon
    <3>1. \A sound \in BOOLEAN : Reply(Daemon, 0, sound) \in Frames
      BY DEF Reply, Frames
    <3>2. \/ UNCHANGED <<inbox, missed>>
          \/ \E f \in Frames : Broadcast(f)
      BY <2>8, <3>1 DEF AnswersDaemon
    <3> QED
      BY <2>6, <2>7, <2>8, <3>2 DEF AnswersDaemon, Served, SharedTypeOK
  <2>9. CASE AnswersApp
    <3>1. \A sound \in BOOLEAN :
             Reply(Head(queue).from, Head(queue).n, sound) \in Frames
      BY <2>7, <2>9 DEF AnswersApp, Reply, Frames, Commands
    <3>2. \E f \in Frames : Broadcast(f)
      BY <2>9, <3>1 DEF AnswersApp
    <3> QED
      BY <2>6, <2>7, <2>9, <3>2 DEF AnswersApp, Served, SharedTypeOK
  <2>10. CASE SentInVain
    BY <2>7, <2>10 DEF SentInVain, Served, SharedTypeOK
  <2>11. CASE SendTaskEnds
    <3>1. queue' \in Seq(Commands) /\ Len(queue') <= Capacity
      BY <2>11 DEF SendTaskEnds
    <3> QED
      BY <2>11, <3>1 DEF SendTaskEnds, SharedTypeOK, appVars
  <2>12. CASE DeviceGone
    BY <2>12 DEF DeviceGone, SharedTypeOK, appVars, hubVars
  <2>13. ASSUME NEW a \in Apps, Connect(a) \/ Leaves(a)
         PROVE  SharedTypeOK'
    <3>1. CASE Connect(a)
      BY <3>1, ZenonT(60) DEF Connect, Open, SharedTypeOK, hubVars
    <3>2. CASE Leaves(a)
      BY <3>2, ZenonT(60) DEF Leaves, Open, SharedTypeOK, hubVars
    <3> QED BY <2>13, <3>1, <3>2
  <2>14. ASSUME NEW a \in Apps, ReadCommand(a)
         PROVE  SharedTypeOK'
    <3>1. asked[a] + 1 \in 1 .. MaxAsked
      BY <2>14 DEF ReadCommand, SharedTypeOK
    <3>2. /\ <<Command(a, asked[a] + 1)>> \in Seq(Commands)
          /\ Len(<<Command(a, asked[a] + 1)>>) = 1
      BY <3>1 DEF Command, Commands
    <3> QED
      BY <2>14, <3>1, <3>2 DEF ReadCommand, SharedTypeOK, hubVars
  <2>15. ASSUME NEW a \in Apps, WriteCommand(a)
         PROVE  SharedTypeOK'
    <3>1. Len(toDevice[a]) = 1
      <4>1. toDevice[a] \in Seq(Commands) /\ Len(toDevice[a]) <= 1
        BY DEF SharedTypeOK
      <4>2. toDevice[a] # <<>>
        BY <2>15 DEF WriteCommand
      <4>3. Len(toDevice[a]) \in Nat \ {0}
        BY <4>1, <4>2, EmptySeq, Zenon
      <4>4. \A n \in Nat \ {0} : n <= 1 => n = 1
        OBVIOUS
      <4> QED
        BY <4>1, <4>3, <4>4, Zenon
    <3>2. queue' \in Seq(Commands) /\ Len(queue') <= Capacity
      BY <2>15, <3>1 DEF WriteCommand, Room, SharedTypeOK
    <3> QED
      BY <2>15, <3>2 DEF WriteCommand, SharedTypeOK
  <2>16. ASSUME NEW a \in Apps, Deliver(a)
         PROVE  SharedTypeOK'
    <3>1. toApp[a][1] \in Frames
      BY <2>16 DEF Deliver, SharedTypeOK
    <3>2. got' \in [Apps -> SUBSET (1 .. MaxAsked)]
      BY <2>16, <3>1 DEF Deliver, Frames, SharedTypeOK
    <3> QED
      BY <2>16, <3>2 DEF Deliver, SharedTypeOK, hubVars
  <2>17. ASSUME NEW a \in Apps, CloseSession(a)
         PROVE  SharedTypeOK'
    BY <2>17 DEF CloseSession, SharedTypeOK, hubVars
  <2>18. ASSUME NEW a \in Apps, SessionStep(a)
         PROVE  SharedTypeOK'
    <3>1. CASE CloseSession(a)
      BY <2>17, <3>1
    <3>2. CASE TakeFrame(a) /\ ~CloseSession(a)
      <4>1. /\ <<Head(inbox[a])>> \in Seq(Frames)
            /\ Len(<<Head(inbox[a])>>) = 1
            /\ Tail(inbox[a]) \in Seq(Frames)
            /\ Len(Tail(inbox[a])) <= Capacity
        BY <3>2 DEF TakeFrame, SharedTypeOK
      <4>2. /\ toApp' = [toApp EXCEPT ![a] = <<Head(inbox[a])>>]
            /\ inbox' = [inbox EXCEPT ![a] = Tail(inbox[a])]
            /\ UNCHANGED <<queue, hubSend, guests, session, toDevice, left,
                           asked, got, missed>>
        BY <3>2 DEF TakeFrame, hubVars
      <4>3. /\ toApp' \in [Apps -> Seq(Frames)]
            /\ \A b \in Apps : Len(toApp'[b]) <= 1
        BY <4>1, <4>2 DEF SharedTypeOK
      <4>4. /\ inbox' \in [Apps -> Seq(Frames)]
            /\ \A b \in Apps : Len(inbox'[b]) <= Capacity
        BY <4>1, <4>2 DEF SharedTypeOK
      <4> QED
        BY <4>2, <4>3, <4>4 DEF SharedTypeOK
    <3> QED
      BY <2>18, <3>1, <3>2 DEF SessionStep, EndSession
  <2> QED
    BY <2>1, <2>2, <2>3, <2>5, <2>8, <2>9, <2>10, <2>11, <2>12, <2>13,
       <2>14, <2>15, <2>16, <2>18 DEF SharedNext, DeviceServes
<1> QED
  BY <1>1, <1>2, PTL DEF SharedSpec

(* Apps on the device strand no call of the daemon: each is still queued   *)
(* or already answered, whoever's answer it got, and once the receive task *)
(* is over nobody waits.                                                   *)
THEOREM TrackedBesideApps == SharedSpec => [](Tracked /\ NoneStranded)
BY AppsAreEvents, TrackedTheorem, NoneStrandedTheorem, PTL
=============================================================================
