------------------------------ MODULE HubProofs ------------------------------
(***************************************************************************)
(* Theorems about Hub, for any clones, capacity and number of frames.      *)
(***************************************************************************)
EXTENDS Hub, TLAPS

(* Every variable keeps to its type: a cursor stays between the first      *)
(* frame and the one after the last the device may send, however far the   *)
(* clone lagged (Oldest).                                                  *)
THEOREM TypeCorrect == Spec => []TypeOK
<1>1. ASSUME Init PROVE TypeOK
  <2>1. queue \in Seq(1 .. MaxWrites) /\ written \in 0 .. MaxWrites
    BY <1>1, HubAssumption DEF Init
  <2>2. /\ next \in [Clones -> 1 .. MaxFrames + 1]
        /\ from \in [Clones -> 1 .. MaxFrames + 1]
        /\ handed \in [Clones -> SUBSET (1 .. MaxFrames)]
        /\ sent \in 0 .. MaxFrames
    BY <1>1, HubAssumption DEF Init
  <2>3. clone \in [Clones -> {"unborn", "live", "dropped"}]
    BY <1>1 DEF Init
  <2> QED BY <1>1, <2>1, <2>2, <2>3 DEF Init, TypeOK
<1>2. ASSUME TypeOK, [Next]_vars PROVE TypeOK'
  <2> USE <1>2, HubAssumption
  <2>1. ASSUME NEW c \in Clones, NEW d \in Clones, TryClone(c, d)
        PROVE  TypeOK'
    BY <2>1 DEF TypeOK, TryClone
  <2>2. ASSUME NEW c \in Clones, Drop(c) PROVE TypeOK'
    BY <2>2 DEF TypeOK, Drop, AbortOnDrop
  <2>3. ASSUME NEW c \in Clones, PollFrame(c) PROVE TypeOK'
    <3>1. /\ Oldest(c) \in 1 .. MaxFrames
          /\ Oldest(c) + 1 \in 1 .. MaxFrames + 1
      BY <2>3 DEF TypeOK, PollFrame, Oldest
    <3>2. /\ next' \in [Clones -> 1 .. MaxFrames + 1]
          /\ handed' \in [Clones -> SUBSET (1 .. MaxFrames)]
      BY <2>3, <3>1 DEF TypeOK, PollFrame
    <3> QED BY <2>3, <3>2 DEF TypeOK, PollFrame
  <2>4. ASSUME NEW c \in Clones, PollEnd(c) PROVE TypeOK'
    BY <2>4 DEF TypeOK, PollEnd
  <2>5. ASSUME NEW c \in Clones, Write(c) PROVE TypeOK'
    BY <2>5 DEF TypeOK, Write
  <2>6. ASSUME ReadStep PROVE TypeOK'
    <3>1. CASE ReadFrame
      <4>1. sent' \in 0 .. MaxFrames
        BY <3>1 DEF TypeOK, ReadFrame
      <4> QED BY <3>1, <4>1 DEF TypeOK, ReadFrame
    <3>2. CASE ReadEnd \/ ReleaseSender
      BY <3>2 DEF TypeOK, ReadEnd, ReleaseSender
    <3>3. CASE SignalDeath \/ ReadAborted
      BY <3>3 DEF TypeOK, SignalDeath, InnerTaken, ReadAborted
    <3> QED BY <2>6, <3>1, <3>2, <3>3 DEF ReadStep
  <2>7. ASSUME SendStep PROVE TypeOK'
    <3>1. queue' \in Seq(1 .. MaxWrites)
      <4>1. CASE queue # <<>> /\ queue' = Tail(queue)
        BY <4>1 DEF TypeOK
      <4>2. CASE queue' = <<>>
        BY <4>2
      <4> QED BY <2>7, <4>1, <4>2 DEF SendStep, SendFrame, SendEnd
    <3> QED BY <2>7, <3>1 DEF TypeOK, SendStep, SendFrame, SendEnd
  <2>8. ASSUME ShutdownAbort \/ ShutdownStep \/ UpstreamEnds PROVE TypeOK'
    BY <2>8 DEF TypeOK, ShutdownAbort, ShutdownAborts, ShutdownStep,
                ShutdownTake, ShutdownLock, ShutdownJoin, UpstreamEnds
  <2>9. CASE UNCHANGED vars
    BY <2>9 DEF TypeOK, vars
  <2> QED
    BY <2>1, <2>2, <2>3, <2>4, <2>5, <2>6, <2>7, <2>8, <2>9 DEF Next, Poll
<1> QED BY <1>1, <1>2, PTL DEF Spec

(* No cursor is ahead of the channel: a cursor past the last frame is how  *)
(* the end of the stream is seen.                                          *)
CursorsBehind == \A c \in Clones : next[c] <= sent + 1

(* What a clone's cursor has passed was handed to it or was overwritten    *)
(* before it came for it.                                                  *)
Overwritten(f) == sent - f >= Capacity
PassedOver ==
    \A c \in Clones : \A f \in from[c] .. next[c] - 1 :
        f \in handed[c] \/ Overwritten(f)

(* A frame that is overwritten stays so while more are sent. *)
LEMMA StaysOverwritten ==
    \A f, m, n \in Nat : n >= m => (m - f >= Capacity => n - f >= Capacity)
BY HubAssumption

(* Whoever was told of the end stands past the last frame, and nobody is   *)
(* left who could broadcast another one or become a sender again.          *)
EndIsFinal == \A c \in ended : next[c] = sent + 1 /\ ~SenderAlive

(* For any number of clones and any capacity: a consumer told of the end   *)
(* was handed the newest frames, as many as the channel holds; a lag (poll *)
(* loop of poll_next) costs the oldest ones only and is never taken for    *)
(* the end.  The invariant follows each frame from its broadcast to the    *)
(* cursor that passes it.                                                  *)
THEOREM EndedTheorem == Spec => []EndedAfterNewest
<1> DEFINE IInv == CursorsBehind /\ PassedOver /\ EndIsFinal
<1>1. ASSUME Init PROVE IInv
  BY <1>1 DEF Init, CursorsBehind, PassedOver, EndIsFinal
<1>2. ASSUME TypeOK, TypeOK', IInv, [Next]_vars PROVE IInv'
  <2> USE <1>2, HubAssumption
  <2>1. ASSUME NEW c \in Clones, NEW d \in Clones, TryClone(c, d)
        PROVE  IInv'
    <3>1. /\ next' = [next EXCEPT ![d] = sent + 1]
          /\ from' = [from EXCEPT ![d] = sent + 1]
          /\ sent' = sent /\ handed' = handed /\ ended' = ended
          /\ SenderAlive' = SenderAlive
      BY <2>1 DEF TryClone, SenderAlive
    <3>2. d \notin ended
      BY <2>1 DEF EndIsFinal, TryClone, SenderAlive
    <3>3. CursorsBehind' /\ EndIsFinal'
      BY <3>1, <3>2 DEF TypeOK, CursorsBehind, EndIsFinal
    <3>4. PassedOver'
      BY <3>1 DEF TypeOK, PassedOver, Overwritten
    <3> QED BY <3>3, <3>4
  <2>2. ASSUME NEW c \in Clones, PollFrame(c) PROVE IInv'
    <3>1. /\ next' = [next EXCEPT ![c] = Oldest(c) + 1]
          /\ handed' = [handed EXCEPT ![c] = @ \cup {Oldest(c)}]
          /\ sent' = sent /\ from' = from /\ ended' = ended
          /\ SenderAlive' = SenderAlive
      BY <2>2 DEF PollFrame, SenderAlive
    <3>2. /\ next[c] \in Nat /\ sent \in Nat /\ next[c] <= sent
          /\ Oldest(c) \in next[c] .. sent
          /\ \A f \in next[c] .. Oldest(c) - 1 : Overwritten(f)
      BY <2>2 DEF TypeOK, PollFrame, Oldest, Overwritten
    <3>3. c \notin ended
      BY <3>2 DEF EndIsFinal
    <3>4. CursorsBehind' /\ EndIsFinal'
      BY <3>1, <3>2, <3>3 DEF TypeOK, CursorsBehind, EndIsFinal
    <3>5. PassedOver'
      <4>1. SUFFICES ASSUME NEW k \in Clones,
                            NEW f \in from[k] .. next'[k] - 1
                     PROVE  f \in handed'[k] \/ Overwritten(f)
        BY <3>1 DEF PassedOver, Overwritten
      <4>2. CASE k # c
        BY <3>1, <4>2 DEF TypeOK, PassedOver
      <4>3. CASE k = c
        <5>1. f \in from[c] .. Oldest(c)
          BY <3>1, <3>2, <4>3 DEF TypeOK
        <5>2. handed'[c] = handed[c] \cup {Oldest(c)}
          BY <3>1, <4>3 DEF TypeOK
        <5>3. from[c] \in 1 .. MaxFrames + 1
          BY DEF TypeOK
        <5>4. Oldest(c) \in Nat
          BY <3>2
        <5>5. f \in Nat /\ f <= Oldest(c) /\ from[c] <= f
          BY <5>1, <5>3, <5>4
        <5>6. \/ f \in from[c] .. next[c] - 1
              \/ f \in next[c] .. Oldest(c) - 1
              \/ f = Oldest(c)
          BY <3>2, <5>3, <5>4, <5>5
        <5> QED BY <3>2, <4>3, <5>2, <5>6 DEF PassedOver
      <4> QED BY <4>2, <4>3
    <3> QED BY <3>4, <3>5
  <2>3. ASSUME NEW c \in Clones, PollEnd(c) PROVE IInv'
    <3>1. /\ ended' = ended \cup {c} /\ next' = next /\ sent' = sent
          /\ from' = from /\ handed' = handed /\ SenderAlive' = SenderAlive
          /\ ~SenderAlive
      BY <2>3 DEF PollEnd, Over, SenderAlive
    <3>2. next[c] = sent + 1
      BY <2>3 DEF TypeOK, CursorsBehind, PollEnd, Over
    <3> QED
      BY <3>1, <3>2 DEF CursorsBehind, PassedOver, Overwritten, EndIsFinal
  <2>4. CASE ReadFrame
    <3>1. /\ next' = next /\ from' = from /\ handed' = handed
          /\ ended' = ended /\ sent \in Nat /\ sent' \in {sent, sent + 1}
          /\ SenderAlive
      BY <2>4 DEF TypeOK, ReadFrame, SenderAlive
    <3>2. ended = {}
      BY <3>1 DEF TypeOK, EndIsFinal
    <3>3. CursorsBehind' /\ EndIsFinal'
      BY <3>1, <3>2 DEF TypeOK, CursorsBehind, EndIsFinal
    <3>4. PassedOver'
      <4>1. SUFFICES ASSUME NEW c \in Clones,
                            NEW f \in from[c] .. next[c] - 1
                     PROVE  f \in handed[c] \/ sent' - f >= Capacity
        BY <3>1 DEF PassedOver, Overwritten
      <4>2. f \in handed[c] \/ sent - f >= Capacity
        BY DEF PassedOver, Overwritten
      <4>3. from[c] \in 1 .. MaxFrames + 1 /\ next[c] \in 1 .. MaxFrames + 1
        BY DEF TypeOK
      <4>4. sent' \in Nat /\ sent' >= sent /\ f \in Nat
        BY <3>1, <4>3
      <4> QED BY <3>1, <4>2, <4>4, StaysOverwritten
    <3> QED BY <3>3, <3>4
  <2>5. ASSUME /\ UNCHANGED <<sent, next, from, handed, ended>>
               /\ SenderAlive' => SenderAlive
        PROVE  IInv'
    BY <2>5 DEF CursorsBehind, PassedOver, Overwritten, EndIsFinal
  <2>6. ASSUME NEW c \in Clones, Drop(c) \/ Write(c) PROVE IInv'
    BY <2>5, <2>6 DEF Drop, Write, SenderAlive
  <2>7. CASE ReadEnd \/ ReleaseSender \/ SignalDeath \/ ReadAborted
    BY <2>5, <2>7 DEF ReadEnd, ReleaseSender, SignalDeath, InnerTaken,
                      ReadAborted, SenderAlive
  <2>8. CASE SendStep
    BY <2>5, <2>8 DEF SendStep, SendFrame, SendEnd, SenderAlive
  <2>9. CASE ShutdownAbort \/ ShutdownStep \/ UpstreamEnds
    BY <2>5, <2>9 DEF ShutdownAbort, ShutdownStep, ShutdownTake,
                      ShutdownLock, ShutdownJoin, UpstreamEnds, SenderAlive
  <2>10. CASE UNCHANGED vars
    BY <2>5, <2>10 DEF vars, SenderAlive
  <2> QED
    BY <2>1, <2>2, <2>3, <2>4, <2>6, <2>7, <2>8, <2>9, <2>10
       DEF Next, Poll, ReadStep
<1>3. ASSUME TypeOK, IInv PROVE EndedAfterNewest
  <2>1. SUFFICES ASSUME NEW c \in ended, NEW f \in Lost(c)
                 PROVE  sent - f >= Capacity
    BY DEF EndedAfterNewest
  <2>2. c \in Clones /\ f \in from[c] .. next[c] - 1 /\ f \notin handed[c]
    BY <1>3 DEF TypeOK, EndIsFinal, Lost
  <2> QED BY <1>3, <2>2 DEF PassedOver, Overwritten
<1> QED BY <1>1, <1>2, <1>3, TypeCorrect, PTL DEF Spec
=============================================================================
