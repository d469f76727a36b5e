---------------------------- MODULE SharedDevice ----------------------------
(***************************************************************************)
(* One device shared by the daemon and by apps forwarded to it: the        *)
(* multiplexer and the sessions of forward (daemon/src/tcp/mod.rs) and of  *)
(* websocket_transport_bridge (daemon/src/http/websocket.rs), all of them  *)
(* writing into the hub's one queue, and all of them handed every frame    *)
(* the device sends.  Nothing in a frame says whose command it answers.    *)
(*                                                                         *)
(* The daemon's part is Multiplexer, whose wire lists its own commands;    *)
(* to it the answer to an app is an unsolicited message.  That message may *)
(* look like the answer it waits for.  The messages a device sends by      *)
(* itself are the same to everybody and are left out here.                 *)
(* A definition named Bad... is the faulty twin of the one that follows,   *)
(* used by the mutation checks only.                                       *)
(***************************************************************************)
EXTENDS Multiplexer, FiniteSets

CONSTANTS
    Tcp,            \* apps forwarded by tcp::forward
    Web,            \* apps forwarded by websocket_transport_bridge
    Slow,           \* apps that may stop reading their connection
    Daemon,         \* whom a frame is for, if not for an app
    Capacity,       \* the hub's CAPACITY: frames kept for each, and queued
    MaxAsked,       \* bound: commands of one app
    CallsBeside     \* bound: the sets of apps that come, and beside each the
                    \* number of calls the daemon makes

Apps == Tcp \cup Web

ASSUME AppsAssumption ==
    /\ Tcp \cap Web = {}
    /\ Slow \subseteq Apps
    /\ Daemon \notin Apps
    /\ Capacity \in Nat \ {0}
    /\ MaxAsked \in Nat
    /\ CallsBeside \in [DOMAIN CallsBeside -> Nat]
    /\ DOMAIN CallsBeside \subseteq SUBSET Apps

VARIABLES
    guests,     \* the apps that come
    session,    \* none, open or over
    inbox,      \* frames the hub keeps for each session
    toApp,      \* the frame a session is sending to its app: none or one
    toDevice,   \* the command a session is writing to the hub: none or one
    left,       \* apps that closed their connection, or whose websocket sent
                \* anything but a binary message
    asked,      \* commands each session has read
    got,        \* of these, the ones whose answers the app received
    missed,     \* and the ones whose answers were overwritten in the hub
    queue,      \* the hub's queue of commands for the device
    hubSend     \* the hub's send task runs

appVars == <<guests, session, inbox, toApp, toDevice, left, asked, got, missed>>
hubVars == <<queue, hubSend>>
sharedVars == <<vars, appVars, hubVars>>

Open == {a \in Apps : session[a] = "open"}
Command(from, n) == [from |-> from, n |-> n]
Reply(to, n, sound) == [to |-> to, n |-> n, sound |-> sound]

SharedInit ==
    /\ Init
    /\ guests \in DOMAIN CallsBeside
    /\ session = [a \in Apps |-> "none"]
    /\ inbox = [a \in Apps |-> <<>>]
    /\ toApp = [a \in Apps |-> <<>>] /\ toDevice = [a \in Apps |-> <<>>]
    /\ left = {}
    /\ asked = [a \in Apps |-> 0]
    /\ got = [a \in Apps |-> {}] /\ missed = [a \in Apps |-> {}]
    /\ queue = <<>> /\ hubSend = TRUE

-----------------------------------------------------------------------------
(* The daemon's calls, through the same hub *)

Room == hubSend /\ Len(queue) < Capacity
DaemonQueued == Room /\ queue' = Append(queue, Command(Daemon, 0))

DaemonSends(c) ==
    /\ SendOk(c)
    /\ DaemonQueued
    /\ UNCHANGED <<appVars, hubSend>>

DaemonFails(c) ==
    /\ ~hubSend
    /\ SendErr(c)
    /\ UNCHANGED <<appVars, hubVars>>

DaemonGivesUp(c) ==
    /\ Timeout(c)
    /\ IF wire' = wire THEN UNCHANGED queue ELSE DaemonQueued
    /\ UNCHANGED <<appVars, hubSend>>

DaemonRuns ==
    /\ \/ /\ issued < CallsBeside[guests]
          /\ \E c \in Callers, k \in CmdKinds : Call(c, k)
       \/ \E c \in Callers : Lock(c) \/ CallerStep(c)
       \/ RecvStep
    /\ UNCHANGED <<appVars, hubVars>>

-----------------------------------------------------------------------------
(* The device, behind the hub's two tasks *)

BadLatest(frames) == frames
Latest(frames) ==
    IF Len(frames) > Capacity THEN Tail(frames) ELSE frames

Overwritten(a) ==
    IF Len(inbox[a]) = Capacity /\ Head(inbox[a]).to = a
    THEN {Head(inbox[a]).n} ELSE {}

(* Every session has its own clone of the hub, and every clone gets every  *)
(* frame; a session that lags loses the oldest.                            *)
BadBroadcast(f) ==
    /\ inbox' = [a \in Apps |-> IF a \in Open /\ pending = <<>>
                               THEN Latest(Append(inbox[a], f)) ELSE inbox[a]]
    /\ UNCHANGED missed
Broadcast(f) ==
    /\ inbox' = [a \in Apps |-> IF a \in Open
                               THEN Latest(Append(inbox[a], f)) ELSE inbox[a]]
    /\ missed' = [a \in Apps |-> IF a \in Open
                                THEN missed[a] \cup Overwritten(a)
                                ELSE missed[a]]

Served ==
    /\ hubSend /\ queue # <<>>
    /\ queue' = Tail(queue)
    /\ UNCHANGED <<hubSend, guests, session, toApp, toDevice, left, asked, got>>

AnswersDaemon ==
    /\ Served
    /\ Head(queue).from = Daemon
    /\ \/ /\ \E k \in RespKinds : DeviceAnswer(k)
          /\ Broadcast(Reply(Daemon, 0, TRUE))
       \/ /\ AnswerLost
          /\ IF stream' = stream THEN UNCHANGED <<inbox, missed>>
             ELSE Broadcast(Reply(Daemon, 0, FALSE))

(* A garbled answer to an app is skipped by recv_loop (SkipGarbled).       *)
AnswersApp ==
    /\ Served
    /\ upstream
    /\ Head(queue).from \in Apps
    /\ \/ /\ \E k \in EventKinds : DeviceEvent(k)
          /\ Broadcast(Reply(Head(queue).from, Head(queue).n, TRUE))
       \/ /\ UNCHANGED vars
          /\ lost < MaxLost
          /\ Broadcast(Reply(Head(queue).from, Head(queue).n, FALSE))

(* With the stream at its end the send task still takes what is queued.    *)
SentInVain ==
    /\ Served
    /\ ~upstream
    /\ UNCHANGED <<vars, inbox, missed>>

(* A write to the device failed: the send task ends, the read task goes on.*)
SendTaskEnds ==
    /\ hubSend /\ queue # <<>>
    /\ hubSend' = FALSE /\ queue' = <<>>
    /\ UNCHANGED <<vars, appVars>>

DeviceGone ==
    /\ UpstreamEnds
    /\ UNCHANGED <<appVars, hubVars>>

-----------------------------------------------------------------------------
(* The sessions *)

(* A clone can be had while the device is there; it gets what comes later. *)
Connect(a) ==
    /\ a \in guests /\ session[a] = "none" /\ upstream
    /\ session' = [session EXCEPT ![a] = "open"]
    /\ UNCHANGED <<vars, hubVars, guests, inbox, toApp, toDevice, left, asked, got,
                   missed>>

(* tcp::forward does one thing at a time: while it sends to one side it    *)
(* reads from neither.  The bridge's two directions are independent.       *)
MayTake(a) == toApp[a] = <<>> /\ (a \in Tcp => toDevice[a] = <<>>)
MayRead(a) == toDevice[a] = <<>> /\ (a \in Tcp => toApp[a] = <<>>)

CloseSession(a) ==
    /\ session' = [session EXCEPT ![a] = "over"]
    /\ inbox' = [inbox EXCEPT ![a] = <<>>]
    /\ toApp' = [toApp EXCEPT ![a] = <<>>]
    /\ toDevice' = [toDevice EXCEPT ![a] = <<>>]
    /\ UNCHANGED <<vars, hubVars, guests, left, asked, got, missed>>

(* A frame shorter than it says ends a TCP session; the bridge passes it   *)
(* on as it is.                                                            *)
TakeFrame(a) ==
    /\ a \in Open /\ MayTake(a) /\ inbox[a] # <<>>
    /\ IF a \in Tcp /\ ~Head(inbox[a]).sound THEN CloseSession(a)
       ELSE /\ toApp' = [toApp EXCEPT ![a] = <<Head(inbox[a])>>]
            /\ inbox' = [inbox EXCEPT ![a] = Tail(@)]
            /\ UNCHANGED <<vars, hubVars, guests, session, toDevice, left, asked, got,
                           missed>>

Deliver(a) ==
    /\ a \in Open \ left /\ toApp[a] # <<>>
    /\ got' = IF toApp[a][1].to = a
              THEN [got EXCEPT ![a] = @ \cup {toApp[a][1].n}] ELSE got
    /\ toApp' = [toApp EXCEPT ![a] = <<>>]
    /\ UNCHANGED <<vars, hubVars, guests, session, inbox, toDevice, left, asked,
                   missed>>

ReadCommand(a) ==
    /\ a \in Open \ left /\ MayRead(a)
    /\ asked[a] < MaxAsked
    /\ asked' = [asked EXCEPT ![a] = @ + 1]
    /\ toDevice' = [toDevice EXCEPT ![a] = <<Command(a, asked[a] + 1)>>]
    /\ UNCHANGED <<vars, hubVars, guests, session, inbox, toApp, left, got, missed>>

WriteCommand(a) ==
    /\ a \in Open /\ toDevice[a] # <<>> /\ Room
    /\ queue' = queue \o toDevice[a]
    /\ toDevice' = [toDevice EXCEPT ![a] = <<>>]
    /\ UNCHANGED <<vars, hubSend, guests, session, inbox, toApp, left, asked, got,
                   missed>>

Leaves(a) ==
    /\ a \in Open \ left
    /\ left' = left \cup {a}
    /\ UNCHANGED <<vars, hubVars, guests, session, inbox, toApp, toDevice, asked, got,
                   missed>>

(* A session ends when its app left, when a command cannot be written, or  *)
(* when the hub's stream ends.  While tcp::forward writes to the hub it    *)
(* notices neither of the others.                                          *)
BadHubEnded(a) == FALSE
HubEnded(a) == ~upstream /\ inbox[a] = <<>> /\ MayTake(a)
AppGone(a) == a \in left /\ (a \in Tcp => toDevice[a] = <<>>)
Refused(a) == toDevice[a] # <<>> /\ ~hubSend

EndSession(a) ==
    /\ a \in Open
    /\ HubEnded(a) \/ AppGone(a) \/ Refused(a)
    /\ CloseSession(a)

-----------------------------------------------------------------------------
DeviceServes == AnswersDaemon \/ AnswersApp \/ SentInVain
SessionStep(a) == TakeFrame(a) \/ EndSession(a)

SharedNext ==
    \/ DaemonRuns
    \/ \E c \in Callers : DaemonSends(c) \/ DaemonFails(c) \/ DaemonGivesUp(c)
    \/ DeviceServes \/ SendTaskEnds \/ DeviceGone
    \/ \E a \in Apps : \/ Connect(a) \/ ReadCommand(a) \/ Leaves(a)
                       \/ WriteCommand(a) \/ Deliver(a) \/ SessionStep(a)

SharedSpec == SharedInit /\ [][SharedNext]_sharedVars

(* The device serves what it is sent, sessions are polled, and the hub's   *)
(* queue lets its writers in one after the other.  Nothing makes a slow    *)
(* app read, and nothing is assumed of the daemon's own calls.             *)
SharedFairSpec ==
    /\ SharedSpec
    /\ WF_sharedVars(DeviceServes)
    /\ \A a \in Apps : SF_sharedVars(WriteCommand(a))
                       /\ WF_sharedVars(SessionStep(a))
    /\ \A a \in Apps \ Slow : WF_sharedVars(Deliver(a))

-----------------------------------------------------------------------------
(* Properties *)

Frames == [to : {Daemon}, n : {0}, sound : BOOLEAN]
          \cup [to : Apps, n : 1 .. MaxAsked, sound : BOOLEAN]
Commands == [from : {Daemon}, n : {0}] \cup [from : Apps, n : 1 .. MaxAsked]

(* Every variable keeps its type; the hub keeps no more than its capacity, *)
(* and a session is busy with one frame or command in each direction.      *)
SharedTypeOK ==
    /\ guests \in DOMAIN CallsBeside
    /\ session \in [Apps -> {"none", "open", "over"}]
    /\ inbox \in [Apps -> Seq(Frames)]
    /\ toApp \in [Apps -> Seq(Frames)] /\ toDevice \in [Apps -> Seq(Commands)]
    /\ \A a \in Apps : Len(inbox[a]) <= Capacity
    /\ \A a \in Apps : Len(toApp[a]) <= 1 /\ Len(toDevice[a]) <= 1
    /\ left \in SUBSET Apps
    /\ asked \in [Apps -> 0 .. MaxAsked]
    /\ got \in [Apps -> SUBSET (1 .. MaxAsked)]
    /\ missed \in [Apps -> SUBSET (1 .. MaxAsked)]
    /\ queue \in Seq(Commands) /\ Len(queue) <= Capacity
    /\ hubSend \in BOOLEAN

(* An app that reads what it is sent gets the answer to each command it    *)
(* sent, as if it had the device for itself: neither the daemon's calls,   *)
(* which may take the answer for theirs, nor an app that stopped reading   *)
(* keeps it away.  What can is the end of the session or of the hub's send *)
(* task, and frames that came faster than the session was run.             *)
AppsAnswered ==
    \A a \in Apps \ Slow : \A n \in 1 .. MaxAsked :
        (asked[a] >= n) ~>
            (n \in got[a] \cup missed[a] \/ session[a] = "over" \/ ~hubSend)

(* A session does not outlive its app, nor a device that is gone while the *)
(* app reads: it gives back its clone of the hub, and with it the device,  *)
(* which the device task waits for (DeviceTask).                           *)
SessionsEnd ==
    \A a \in Apps :
        (session[a] = "open" /\ (a \in left \/ (~upstream /\ a \notin Slow)))
            ~> (session[a] = "over")
=============================================================================
