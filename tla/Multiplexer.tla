----------------------------- MODULE Multiplexer -----------------------------
(***************************************************************************)
(* The command-response multiplexer (minidsp/src/transport/multiplexer.rs) *)
(* and the client that calls it (Client::roundtrip, minidsp/src/client.rs).*)
(*                                                                         *)
(* Commands carry no tag, so an answer is recognised by its shape alone:   *)
(* a command's "kind" stands for what matches_response compares (the       *)
(* response variant, and for reads the address and the length).  A call's  *)
(* number "id" exists only in the model: it names the command an answer    *)
(* was produced for, which the program cannot see.                         *)
(* A definition named Bad... is the faulty twin of the one that follows:   *)
(* the specification never uses it, the mutation checks put it in place.   *)
(***************************************************************************)
EXTENDS Naturals, Sequences

CONSTANTS
    Clients,      \* tasks calling Client::roundtrip: one at a time, 10 s limit
    Direct,       \* tasks calling Multiplexer::roundtrip themselves
    NoOne,        \* the holder of a free lock
    CmdKinds,     \* kinds of commands issued
    EventKinds,   \* kinds of the device's unsolicited messages
    Unknown,      \* the kind of Commands::Unknown, which any response matches
    MaxCalls,     \* bound: commands issued in all
    MaxLost,      \* bound: answers lost or garbled
    MaxEvents,    \* bound: unsolicited messages
    MaxTimeouts   \* bound: calls abandoned by their timer

Callers == Clients \cup Direct
RespKinds == (CmdKinds \ {Unknown}) \cup EventKinds

ASSUME CallersAssumption ==
    /\ Clients \cap Direct = {}
    /\ NoOne \notin Callers
ASSUME BoundsAssumption ==
    /\ MaxCalls \in Nat
    /\ MaxLost \in Nat
    /\ MaxEvents \in Nat
    /\ MaxTimeouts \in Nat

VARIABLES
    pc,           \* where each caller is in roundtrip
    call,         \* the number of the call each caller is making, 0 if none
    kind,         \* the kind of that call's command
    answer,       \* the content of the oneshot channel of that call
    svc,          \* holder of the SharedService mutex
    pending,      \* pending_command: commands awaiting an answer
    eventTx,      \* event_tx is Some
    writeLock,    \* holder of the write mutex
    sink,         \* the write sink: open or taken out (None)
    recv,         \* the receive task: running, exiting, closing, done
    events,       \* ids of the answers that went to the event channel
    wire,         \* commands on their way to the device
    stream,       \* items on their way to recv_loop
    upstream,     \* the transport's stream has not ended
    issued, lost, unsolicited, timeouts    \* what the bounds count

callerVars == <<pc, call, kind, answer>>
deviceVars == <<wire, stream, upstream, lost, unsolicited>>
vars == <<pc, call, kind, answer, svc, pending, eventTx, writeLock, sink,
          recv, events, wire, stream, upstream, issued, lost, unsolicited,
          timeouts>>

(* roundtrip has enqueued its command and not returned: its rx is alive. *)
Engaged == {"enqueued", "sending", "waiting"}
Places == {"idle", "locking", "enter"} \cup Engaged

Entry == [id : Nat, kind : CmdKinds \cup {Unknown}]
Item == [status : {"frame", "garbled", "error"}, id : Nat,
         kind : RespKinds \cup {Unknown}]
Answer == [status : {"empty", "ok", "closed"}, id : Nat]

Empty == [status |-> "empty", id |-> 0]
Closed == [status |-> "closed", id |-> 0]
Frame(i, k) == [status |-> "frame", id |-> i, kind |-> k]

BadMatchesResponse(cmd, resp) == TRUE
MatchesResponse(cmd, resp) == cmd = Unknown \/ cmd = resp

Init ==
    /\ pc = [c \in Callers |-> "idle"]
    /\ call = [c \in Callers |-> 0]
    /\ kind = [c \in Callers |-> Unknown]
    /\ answer = [c \in Callers |-> Empty]
    /\ svc = NoOne
    /\ pending = <<>>
    /\ eventTx = TRUE
    /\ writeLock = NoOne
    /\ sink = "open"
    /\ recv = "running"
    /\ events = {}
    /\ wire = <<>>
    /\ stream = <<>>
    /\ upstream = TRUE
    /\ issued = 0 /\ lost = 0 /\ unsolicited = 0 /\ timeouts = 0

-----------------------------------------------------------------------------
(* The callers *)

(* A task starts a call: a client first waits for the service mutex, a     *)
(* direct caller enters the multiplexer at once.                           *)
Call(c, k) ==
    /\ pc[c] = "idle"
    /\ issued < MaxCalls
    /\ issued' = issued + 1
    /\ call' = [call EXCEPT ![c] = issued + 1]
    /\ kind' = [kind EXCEPT ![c] = k]
    /\ pc' = [pc EXCEPT ![c] = IF c \in Clients THEN "locking" ELSE "enter"]
    /\ UNCHANGED <<answer, svc, pending, eventTx, writeLock, sink, recv,
                   events, deviceVars, timeouts>>

BadServiceFree == TRUE
ServiceFree == svc = NoOne

Lock(c) ==
    /\ c \in Clients
    /\ pc[c] = "locking"
    /\ ServiceFree
    /\ svc' = c
    /\ pc' = [pc EXCEPT ![c] = "enter"]
    /\ UNCHANGED <<call, kind, answer, pending, eventTx, writeLock, sink,
                   recv, events, deviceVars, issued, timeouts>>

(* The future of the call is over, by return or by being dropped: its rx   *)
(* and the service guard it owns go with it.                               *)
BadLeave(c) ==
    /\ pc' = [pc EXCEPT ![c] = "idle"]
    /\ call' = [call EXCEPT ![c] = 0]
    /\ answer' = [answer EXCEPT ![c] = Empty]
    /\ kind' = [kind EXCEPT ![c] = Unknown]
    /\ UNCHANGED svc

Leave(c) ==
    /\ pc' = [pc EXCEPT ![c] = "idle"]
    /\ call' = [call EXCEPT ![c] = 0]
    /\ answer' = [answer EXCEPT ![c] = Empty]
    /\ svc' = IF svc = c THEN NoOne ELSE svc
    /\ kind' = [kind EXCEPT ![c] = Unknown]

(* The event_tx lock is held from the test to the push.                    *)
BadAcceptsCalls == TRUE
AcceptsCalls == eventTx

Enqueue(c) ==
    /\ pc[c] = "enter"
    /\ AcceptsCalls
    /\ pending' = Append(pending, [id |-> call[c], kind |-> kind[c]])
    /\ pc' = [pc EXCEPT ![c] = "enqueued"]
    /\ UNCHANGED <<call, kind, answer, svc, eventTx, writeLock, sink, recv,
                   events, deviceVars, issued, timeouts>>

RefusedClosed(c) ==
    /\ pc[c] = "enter"
    /\ ~AcceptsCalls
    /\ Leave(c)
    /\ UNCHANGED <<pending, eventTx, writeLock, sink, recv, events,
                   deviceVars, issued, timeouts>>

AcquireWrite(c) ==
    /\ pc[c] = "enqueued"
    /\ writeLock = NoOne
    /\ sink # "taken"
    /\ writeLock' = c
    /\ pc' = [pc EXCEPT ![c] = "sending"]
    /\ UNCHANGED <<call, kind, answer, svc, pending, eventTx, sink, recv,
                   events, deviceVars, issued, timeouts>>

(* The sink is gone: the call returns, its entry stays in the queue.       *)
RefusedPoisoned(c) ==
    /\ pc[c] = "enqueued"
    /\ writeLock = NoOne
    /\ sink = "taken"
    /\ Leave(c)
    /\ UNCHANGED <<pending, eventTx, writeLock, sink, recv, events,
                   deviceVars, issued, timeouts>>

SendOk(c) ==
    /\ pc[c] = "sending"
    /\ wire' = Append(wire, [id |-> call[c], kind |-> kind[c]])
    /\ writeLock' = NoOne
    /\ pc' = [pc EXCEPT ![c] = "waiting"]
    /\ UNCHANGED <<call, kind, answer, svc, pending, eventTx, sink, recv,
                   events, stream, upstream, lost, unsolicited, issued,
                   timeouts>>

(* A failed send poisons the sink; the entry stays in the queue.           *)
BadPoisoned == "errored"
Poisoned == "taken"

SendErr(c) ==
    /\ pc[c] = "sending"
    /\ sink' = Poisoned
    /\ writeLock' = NoOne
    /\ Leave(c)
    /\ UNCHANGED <<pending, eventTx, recv, events, deviceVars, issued,
                   timeouts>>

Receive(c) ==
    /\ pc[c] = "waiting"
    /\ answer[c] # Empty
    /\ Leave(c)
    /\ UNCHANGED <<pending, eventTx, writeLock, sink, recv, events,
                   deviceVars, issued, timeouts>>

(* tower's timer drops the roundtrip future where it stands: the write     *)
(* guard is released, a half-made send has reached the device or not, and  *)
(* the entry stays in the queue.  A caller dropped by its own caller does  *)
(* the same.                                                               *)
Timeout(c) ==
    /\ c \in Clients
    /\ pc[c] \in Engaged
    /\ timeouts < MaxTimeouts
    /\ timeouts' = timeouts + 1
    /\ writeLock' = IF writeLock = c THEN NoOne ELSE writeLock
    /\ \/ UNCHANGED wire
       \/ /\ pc[c] = "sending"
          /\ wire' = Append(wire, [id |-> call[c], kind |-> kind[c]])
    /\ Leave(c)
    /\ UNCHANGED <<pending, eventTx, sink, recv, events, stream, upstream,
                   lost, unsolicited, issued>>

(* MultiplexerService::shutdown, called by Device::shutdown with the       *)
(* service mutex held: the sink is taken so that it is not polled again.   *)
Shutdown ==
    /\ svc = NoOne
    /\ writeLock = NoOne
    /\ sink # "taken"
    /\ sink' = "taken"
    /\ UNCHANGED <<callerVars, svc, pending, eventTx, writeLock, recv, events,
                   deviceVars, issued, timeouts>>

-----------------------------------------------------------------------------
(* The receive task *)

IsFrame(r) == stream # <<>> /\ Head(stream).status = r

HeadMatches ==
    /\ pending # <<>>
    /\ MatchesResponse(Head(pending).kind, Head(stream).kind)

BadAnswered(c) ==
    IF pc[c] \in Engaged
    THEN [status |-> "ok", id |-> Head(stream).id]
    ELSE answer[c]
Answered(c) ==
    IF call[c] = Head(pending).id
    THEN [status |-> "ok", id |-> Head(stream).id]
    ELSE answer[c]

(* The answer completes the head of the queue; a caller that gave up has   *)
(* dropped its rx and the answer is discarded.                             *)
Dispatch ==
    /\ recv = "running"
    /\ IsFrame("frame")
    /\ HeadMatches
    /\ pending' = Tail(pending)
    /\ answer' = [c \in Callers |-> Answered(c)]
    /\ stream' = Tail(stream)
    /\ UNCHANGED <<pc, call, kind, svc, eventTx, writeLock, sink, recv,
                   events, wire, upstream, issued, lost, unsolicited,
                   timeouts>>

ForwardEvent ==
    /\ recv = "running"
    /\ IsFrame("frame")
    /\ ~HeadMatches
    /\ events' = events \cup {Head(stream).id}
    /\ stream' = Tail(stream)
    /\ UNCHANGED <<callerVars, svc, pending, eventTx, writeLock, sink, recv,
                   wire, upstream, issued, lost, unsolicited, timeouts>>

(* A ParseError is skipped. *)
SkipGarbled ==
    /\ recv = "running"
    /\ IsFrame("garbled")
    /\ stream' = Tail(stream)
    /\ UNCHANGED <<callerVars, svc, pending, eventTx, writeLock, sink, recv,
                   events, wire, upstream, issued, lost, unsolicited,
                   timeouts>>

(* Any other error, or the end of the stream, ends recv_loop. *)
RecvExit ==
    /\ recv = "running"
    /\ IsFrame("error") \/ (stream = <<>> /\ ~upstream)
    /\ recv' = "exiting"
    /\ UNCHANGED <<callerVars, svc, pending, eventTx, writeLock, sink, events,
                   deviceVars, issued, timeouts>>

(* First event_tx is taken ... *)
CloseEvents ==
    /\ recv = "exiting"
    /\ recv' = "closing"
    /\ eventTx' = FALSE
    /\ UNCHANGED <<callerVars, svc, pending, writeLock, sink, events,
                   deviceVars, issued, timeouts>>

InQueue(c) == \E i \in DOMAIN pending : pending[i].id = call[c]

BadDrained(c) ==
    IF pending # <<>> /\ Head(pending).id = call[c] THEN Closed ELSE answer[c]
Drained(c) == IF InQueue(c) THEN Closed ELSE answer[c]

(* ... and then everything queued is answered with TransportClosed. *)
DrainPending ==
    /\ recv = "closing"
    /\ recv' = "done"
    /\ pending' = <<>>
    /\ answer' = [c \in Callers |-> Drained(c)]
    /\ UNCHANGED <<pc, call, kind, svc, eventTx, writeLock, sink, events,
                   deviceVars, issued, timeouts>>

-----------------------------------------------------------------------------
(* The device and its transport: what src uses of them *)

DeviceAnswer(k) ==
    /\ upstream
    /\ wire # <<>>
    /\ Head(wire).kind \in {k, Unknown}
    /\ stream' = Append(stream, Frame(Head(wire).id, k))
    /\ wire' = Tail(wire)
    /\ UNCHANGED <<callerVars, svc, pending, eventTx, writeLock, sink, recv,
                   events, upstream, issued, lost, unsolicited, timeouts>>

AnswerLost ==
    /\ upstream
    /\ wire # <<>>
    /\ lost < MaxLost
    /\ lost' = lost + 1
    /\ wire' = Tail(wire)
    /\ \/ UNCHANGED stream
       \/ stream' = Append(stream, [status |-> "garbled",
                                    id |-> Head(wire).id, kind |-> Unknown])
    /\ UNCHANGED <<callerVars, svc, pending, eventTx, writeLock, sink, recv,
                   events, upstream, issued, unsolicited, timeouts>>

DeviceEvent(k) ==
    /\ upstream
    /\ unsolicited < MaxEvents
    /\ unsolicited' = unsolicited + 1
    /\ stream' = Append(stream, Frame(0, k))
    /\ UNCHANGED <<callerVars, svc, pending, eventTx, writeLock, sink, recv,
                   events, wire, upstream, issued, lost, timeouts>>

(* The transport ends, after an error item or without one. *)
UpstreamEnds ==
    /\ upstream
    /\ upstream' = FALSE
    /\ \/ UNCHANGED stream
       \/ stream' = Append(stream,
                           [status |-> "error", id |-> 0, kind |-> Unknown])
    /\ UNCHANGED <<callerVars, svc, pending, eventTx, writeLock, sink, recv,
                   events, wire, issued, lost, unsolicited, timeouts>>

-----------------------------------------------------------------------------
(* Nothing is left to do but for the device. *)
Finished ==
    /\ issued = MaxCalls
    /\ \A c \in Callers : pc[c] = "idle"
    /\ UNCHANGED vars

CallerStep(c) ==
    \/ Enqueue(c)
    \/ RefusedClosed(c)
    \/ AcquireWrite(c)
    \/ RefusedPoisoned(c)
    \/ Receive(c)

RecvStep == Dispatch \/ ForwardEvent \/ SkipGarbled \/ RecvExit
            \/ CloseEvents \/ DrainPending

DeviceStep ==
    \/ \E k \in RespKinds : DeviceAnswer(k)
    \/ AnswerLost
    \/ \E k \in EventKinds : DeviceEvent(k)
    \/ UpstreamEnds

Next ==
    \/ \E c \in Callers, k \in CmdKinds : Call(c, k)
    \/ \E c \in Callers : Lock(c) \/ CallerStep(c) \/ SendOk(c) \/ SendErr(c)
                          \/ Timeout(c)
    \/ RecvStep
    \/ Shutdown
    \/ DeviceStep
    \/ Finished

Spec == Init /\ [][Next]_vars

(* The runtime polls every ready task, tokio's mutexes are fair and timers *)
(* fire.  Nothing is assumed of a send in progress (the sink may exert     *)
(* backpressure for ever), of the device, or of who starts a call.         *)
Fairness ==
    /\ \A c \in Callers : WF_vars(CallerStep(c))
    /\ \A c \in Callers : SF_vars(Lock(c)) /\ SF_vars(AcquireWrite(c))
    /\ \A c \in Callers : WF_vars(Timeout(c))
    /\ WF_vars(RecvStep)

FairSpec == Spec /\ Fairness

-----------------------------------------------------------------------------
(* Properties *)

TypeOK ==
    /\ pc \in [Callers -> Places]
    /\ call \in [Callers -> Nat]
    /\ kind \in [Callers -> CmdKinds \cup {Unknown}]
    /\ answer \in [Callers -> Answer]
    /\ svc \in Clients \cup {NoOne}
    /\ pending \in Seq(Entry)
    /\ eventTx \in BOOLEAN
    /\ writeLock \in Callers \cup {NoOne}
    /\ sink \in {"open", "taken"}
    /\ recv \in {"running", "exiting", "closing", "done"}
    /\ events \in SUBSET Nat
    /\ wire \in Seq(Entry)
    /\ stream \in Seq(Item)
    /\ upstream \in BOOLEAN
    /\ issued \in Nat /\ lost \in Nat /\ unsolicited \in Nat /\ timeouts \in Nat

(* A call in progress is either still queued or already answered, never    *)
(* both and never neither: whatever the order of sends, answers, timeouts  *)
(* and the closing of the transport, no caller waits on a channel that     *)
(* nobody will complete, and no second answer can meet a used channel.     *)
Tracked ==
    \A c \in Callers :
        pc[c] \in Engaged => (answer[c] = Empty <=> InQueue(c))

(* Once the receive task is over no caller is left waiting, and the queue  *)
(* it drained stays empty: taking event_tx before draining, and holding    *)
(* its lock while enqueueing, shuts out a late command.                    *)
NoneStranded ==
    recv = "done" =>
        /\ pending = <<>>
        /\ \A c \in Callers : pc[c] \in Engaged => answer[c] # Empty

(* A sink whose error closure was consumed, or that shutdown took, is      *)
(* never polled, and one caller at a time is sending on it.                *)
SinkSafe ==
    \A c \in Callers : pc[c] = "sending" => sink = "open" /\ writeLock = c

(* The service mutex makes clients' calls one at a time.  So, with clients *)
(* only, everything queued ahead of the call in progress belongs to calls  *)
(* that were given up: the queue never reorders two live commands.         *)
LiveIsLast ==
    Direct = {} =>
        \A c \in Callers :
            pc[c] \in Engaged /\ InQueue(c) =>
                pending[Len(pending)].id = call[c]

(* An answer that arrives while its own caller waits for it goes to that   *)
(* caller, not to the event channel and not to another call; and nothing   *)
(* else was given to that caller before.                                   *)
AnswerReachesWaiter ==
    [][\A c \in Callers :
        (/\ stream # <<>> /\ stream' = Tail(stream)
         /\ IsFrame("frame") /\ Head(stream).id = call[c]
         /\ pc[c] = "waiting")
        => answer'[c] = [status |-> "ok", id |-> call[c]]]_vars

(* The same for clients, as far as the code keeps it: until something is   *)
(* lost or a call is given up, each answer goes to its caller, whatever    *)
(* events, failing sends and closings come in between.                     *)
Undisturbed ==
    /\ Direct = {}
    /\ lost = 0 /\ timeouts = 0
    /\ (CmdKinds \cup {Unknown}) \cap EventKinds = {}
    /\ Unknown \notin CmdKinds

UndisturbedAnswer ==
    [][Undisturbed =>
        \A c \in Callers :
            (/\ stream # <<>> /\ stream' = Tail(stream)
             /\ IsFrame("frame") /\ Head(stream).id = call[c]
             /\ pc[c] = "waiting")
            => answer'[c] = [status |-> "ok", id |-> call[c]]]_vars

(* Every call through the client ends: the 10 s timer is a bound whatever  *)
(* the device, the transport or a previous caller did.                     *)
CallsReturn ==
    \A c \in Clients : pc[c] = "locking" ~> pc[c] = "idle"

(* A caller without a timer, waiting for an answer when recv_loop ends,    *)
(* is released by the drain.                                               *)
ReleasedByClose ==
    \A c \in Callers :
        (pc[c] = "waiting" /\ recv # "running") ~> pc[c] = "idle"

-----------------------------------------------------------------------------
(* What the multiplexer promises its callers. *)
phase == [c \in Callers |->
            IF pc[c] \notin Engaged THEN "idle"
            ELSE IF answer[c] = Empty THEN "waiting"
            ELSE answer[c].status]

Service == INSTANCE CommandService WITH open <- recv # "done"

(* The multiplexer implements the command service. *)
ImplementsService == Service!Spec
=============================================================================
