------------------------- MODULE StatusSocketProofs -------------------------
(* Proofs about StatusSocket, for all statuses, bounds and options. *)
EXTENDS StatusSocket, TLAPS

(* The channel keeps its capacity and holds statuses only. *)
LEMMA EnqueueType ==
    ASSUME events \in Seq(Values), Len(events) <= CAPACITY, NEW v \in Values
    PROVE  Enqueue(v) \in Seq(Values) /\ Len(Enqueue(v)) <= CAPACITY
<1>1. CASE Len(events) < CAPACITY
    BY <1>1, StatusAssumption DEF Enqueue
<1>2. CASE ~(Len(events) < CAPACITY)
    <2>1. events # <<>> /\ Len(events) = CAPACITY
        BY <1>2, StatusAssumption
    <2>2. Tail(events) \in Seq(Values) /\ Len(Tail(events)) = Len(events) - 1
        BY <2>1
    <2> QED BY <1>2, <2>1, <2>2, StatusAssumption DEF Enqueue
<1> QED BY <1>1, <1>2

(* Every variable keeps its type: in particular a slow session never holds *)
(* more notifications than the channel.                                    *)
THEOREM TypeCorrect == Spec => []TypeOK
<1>1. Init => TypeOK
    BY StatusAssumption DEF Init, TypeOK
<1>2. TypeOK /\ [Next]_vars => TypeOK'
    <2> SUFFICES ASSUME TypeOK, [Next]_vars PROVE TypeOK'
        OBVIOUS
    <2> USE DEF TypeOK
    <2>1. ASSUME NEW source \in session.sources, NEW v \in Values, Change(source, v)
          PROVE  TypeOK'
        <3>1. events' \in Seq(Values) /\ Len(events') <= CAPACITY
            <4>1. CASE events' = events BY <4>1
            <4>2. CASE events' = Enqueue(v) BY <4>2, EnqueueType
            <4> QED BY <2>1, <4>1, <4>2 DEF Change
        <3>2. status' \in Values /\ changes' \in 0 .. MaxChanges
            BY <2>1, StatusAssumption DEF Change
        <3> QED BY <2>1, <3>1, <3>2 DEF Change
    <2>2. CASE MultiplexerEnds BY <2>2 DEF MultiplexerEnds
    <2>3. CASE Fetch BY <2>3 DEF Fetch, Close
    <2>4. CASE SendInitial BY <2>4 DEF SendInitial
    <2>5. CASE Subscribe BY <2>5 DEF Subscribe, Close
    <2>6. CASE Push
        <3>1. Head(events) \in Values /\ Tail(events) \in Seq(Values)
              /\ Len(Tail(events)) <= CAPACITY
            BY <2>6, StatusAssumption DEF Push
        <3> QED BY <2>6, <3>1 DEF Push
    <2>7. CASE PollStatus BY <2>7 DEF PollStatus, Remembered
    <2>8. CASE ClientLeaves BY <2>8 DEF ClientLeaves, Close
    <2>9. CASE UNCHANGED vars BY <2>9 DEF vars
    <2> QED BY <2>1, <2>2, <2>3, <2>4, <2>5, <2>6, <2>7, <2>8, <2>9 DEF Next
<1> QED BY <1>1, <1>2, PTL DEF Spec

(* Without the remote no notification arrives, and the client knows what   *)
(* the session remembers, from the initial message on.                     *)
Quiet == "remote" \notin session.sources
Remembers ==
    Quiet =>
        /\ events = <<>>
        /\ phase = "sent" => view = fetched
        /\ phase = "running" => view = polled

(* A status that polling finds is never held back as already known to the  *)
(* client, as long as polling alone informs it.                            *)
THEOREM NothingWithheldTheorem == Spec => []NothingWithheld
<1>1. Init => Remembers
    BY DEF Init, Remembers
<1>2. Remembers /\ [Next]_vars => Remembers'
    <2> SUFFICES ASSUME Remembers, [Next]_vars PROVE Remembers'
        OBVIOUS
    <2> USE DEF Remembers, Quiet
    <2>1. ASSUME NEW source \in session.sources, NEW v \in Values, Change(source, v)
          PROVE  Remembers'
        BY <2>1 DEF Change
    <2>2. CASE MultiplexerEnds BY <2>2 DEF MultiplexerEnds
    <2>3. CASE Fetch BY <2>3 DEF Fetch, Close
    <2>4. CASE SendInitial BY <2>4 DEF SendInitial
    <2>5. CASE Subscribe BY <2>5 DEF Subscribe, Close
    <2>6. CASE Push BY <2>6 DEF Push
    <2>7. CASE PollStatus BY <2>7 DEF PollStatus, Remembered
    <2>8. CASE ClientLeaves BY <2>8 DEF ClientLeaves, Close
    <2>9. CASE UNCHANGED vars BY <2>9 DEF vars
    <2> QED BY <2>1, <2>2, <2>3, <2>4, <2>5, <2>6, <2>7, <2>8, <2>9 DEF Next
<1>3. Remembers => NothingWithheld
    BY DEF Remembers, NothingWithheld, Quiet
<1> QED BY <1>1, <1>2, <1>3, PTL DEF Spec
=============================================================================
