--------------------------------- MODULE Hub ---------------------------------
(***************************************************************************)
(* The frame hub (minidsp/src/transport/hub.rs): every frame the device    *)
(* sends is broadcast to all clones of the hub, and all clones write to    *)
(* one queue that a task empties into the device.  Frames from the device  *)
(* are numbered 1, 2, ... in the order of their arrival.                   *)
(* A definition named Bad... is the faulty twin of the one that follows,   *)
(* used by the mutation checks only.                                       *)
(***************************************************************************)
EXTENDS Naturals, Sequences, FiniteSets

CONSTANTS
    Clones,     \* identities of hub values: Hub::new's and try_clone's
    First,      \* the value Hub::new returns
    Capacity,   \* CAPACITY: frames the broadcast channel and the queue retain
                \* (nominal: the channel rounds it up to a power of two, the
                \* queue adds a slot per sender)
    MaxFrames,  \* bound: frames the device sends
    MaxWrites   \* bound: frames the clones write

ASSUME HubAssumption ==
    /\ First \in Clones
    /\ Capacity \in Nat \ {0}
    /\ MaxFrames \in Nat
    /\ MaxWrites \in Nat

VARIABLES
    clone,      \* each hub value: unborn, live, dropped
    inner,      \* inner is Some: new clones can subscribe
    readTask,   \* running, broken (left its loop), released (dropped its
                \* reference to the sender), done
    sendTask,   \* running or done
    aborted,    \* the tasks' handles were aborted
    upstream,   \* the device's stream: open or ended (closed or an error)
    sent,       \* frames broadcast so far
    next,       \* each clone's cursor in the broadcast
    from,       \* history: the first frame broadcast after each clone's birth
    handed,     \* history: the frames each clone's stream returned
    ended,      \* clones whose stream returned None
    queue,      \* frames on their way to the device
    written,    \* frames written by clones so far
    shutdown    \* progress of Hub::shutdown: no, taking, locking, joining, done

vars == <<clone, inner, readTask, sendTask, aborted, upstream, sent, next,
          from, handed, ended, queue, written, shutdown>>

Live == {c \in Clones : clone[c] = "live"}

(* The broadcast sender lives in Inner, also in the one a shutdown has     *)
(* taken out and keeps while it waits for the sink, and in the read task.  *)
SenderAlive ==
    inner \/ shutdown = "locking" \/ readTask \in {"running", "broken"}

TypeOK ==
    /\ clone \in [Clones -> {"unborn", "live", "dropped"}]
    /\ inner \in BOOLEAN /\ aborted \in BOOLEAN
    /\ readTask \in {"running", "broken", "released", "done"}
    /\ sendTask \in {"running", "done"}
    /\ upstream \in {"open", "ended"}
    /\ sent \in 0 .. MaxFrames
    /\ next \in [Clones -> 1 .. MaxFrames + 1]
    /\ from \in [Clones -> 1 .. MaxFrames + 1]
    /\ handed \in [Clones -> SUBSET (1 .. MaxFrames)]
    /\ ended \in SUBSET Clones
    /\ queue \in Seq(1 .. MaxWrites) /\ written \in 0 .. MaxWrites
    /\ shutdown \in {"no", "taking", "locking", "joining", "done"}

Init ==
    /\ clone = [c \in Clones |-> IF c = First THEN "live" ELSE "unborn"]
    /\ inner = TRUE
    /\ readTask = "running" /\ sendTask = "running" /\ aborted = FALSE
    /\ upstream = "open"
    /\ sent = 0
    /\ next = [c \in Clones |-> 1]
    /\ from = [c \in Clones |-> 1]
    /\ handed = [c \in Clones |-> {}]
    /\ ended = {}
    /\ queue = <<>> /\ written = 0
    /\ shutdown = "no"

-----------------------------------------------------------------------------
(* The clones *)

(* try_clone: refused once Inner is gone; a clone sees the frames sent     *)
(* after it.                                                               *)
TryClone(c, d) ==
    /\ c \in Live /\ clone[d] = "unborn"
    /\ inner
    /\ clone' = [clone EXCEPT ![d] = "live"]
    /\ next' = [next EXCEPT ![d] = sent + 1]
    /\ from' = [from EXCEPT ![d] = sent + 1]
    /\ UNCHANGED <<inner, readTask, sendTask, aborted, upstream, sent,
                   handed, ended, queue, written, shutdown>>

(* The handles are shared by the clones: dropping the last clone drops     *)
(* them, and a dropped handle aborts its task.                             *)
BadAbortOnDrop(c) == UNCHANGED aborted
AbortOnDrop(c) == aborted' = (aborted \/ Live = {c})

Drop(c) ==
    /\ c \in Live
    /\ clone' = [clone EXCEPT ![c] = "dropped"]
    /\ AbortOnDrop(c)
    /\ UNCHANGED <<inner, readTask, sendTask, upstream, sent, next, from,
                   handed, ended, queue, written, shutdown>>

(* The oldest frame the broadcast channel still holds for c. *)
Oldest(c) == IF sent + 1 - next[c] > Capacity THEN sent + 1 - Capacity
                                              ELSE next[c]

(* poll_next: a lagging clone skips what was overwritten and goes on with  *)
(* the oldest frame that is left.                                          *)
PollFrame(c) ==
    /\ c \in Live
    /\ next[c] <= sent
    /\ next' = [next EXCEPT ![c] = Oldest(c) + 1]
    /\ handed' = [handed EXCEPT ![c] = @ \cup {Oldest(c)}]
    /\ UNCHANGED <<clone, inner, readTask, sendTask, aborted, upstream,
                   sent, from, ended, queue, written, shutdown>>

(* The stream is over for c when no sender and no frame is left; the error *)
(* that reports a lag does not end it.                                     *)
BadOver(c) == next[c] < Oldest(c) \/ (next[c] > sent /\ ~SenderAlive)
Over(c) == next[c] > sent /\ ~SenderAlive

PollEnd(c) ==
    /\ c \in Live \ ended
    /\ Over(c)
    /\ ended' = ended \cup {c}
    /\ UNCHANGED <<clone, inner, readTask, sendTask, aborted, upstream,
                   sent, next, from, handed, queue, written, shutdown>>

(* A clone writes a frame; it waits while the queue is full, and is        *)
(* refused when the send task is gone.                                     *)
Write(c) ==
    /\ c \in Live
    /\ sendTask = "running"
    /\ written < MaxWrites
    /\ Len(queue) < Capacity
    /\ written' = written + 1
    /\ queue' = Append(queue, written + 1)
    /\ UNCHANGED <<clone, inner, readTask, sendTask, aborted, upstream,
                   sent, next, from, handed, ended, shutdown>>

-----------------------------------------------------------------------------
(* The read task *)

(* With a receiver left the frame is broadcast; without one the loop ends. *)
ReadFrame ==
    /\ readTask = "running"
    /\ upstream = "open"
    /\ sent < MaxFrames
    /\ IF Live = {}
       THEN readTask' = "broken" /\ UNCHANGED sent
       ELSE sent' = sent + 1 /\ UNCHANGED readTask
    /\ UNCHANGED <<clone, inner, sendTask, aborted, upstream, next, from,
                   handed, ended, queue, written, shutdown>>

ReadEnd ==
    /\ readTask = "running"
    /\ upstream = "ended"
    /\ readTask' = "broken"
    /\ UNCHANGED <<clone, inner, sendTask, aborted, upstream, sent, next,
                   from, handed, ended, queue, written, shutdown>>

(* Past its loop the task has no await: it drops its own reference and     *)
(* takes Inner even when it was aborted meanwhile.                         *)
ReleaseSender ==
    /\ readTask = "broken"
    /\ readTask' = "released"
    /\ UNCHANGED <<clone, inner, sendTask, aborted, upstream, sent, next,
                   from, handed, ended, queue, written, shutdown>>

BadInnerTaken == UNCHANGED inner
InnerTaken == inner' = FALSE

SignalDeath ==
    /\ readTask = "released"
    /\ readTask' = "done"
    /\ InnerTaken
    /\ UNCHANGED <<clone, sendTask, aborted, upstream, sent, next, from,
                   handed, ended, queue, written, shutdown>>

(* An aborted task may go on to its next await; there it is dropped with   *)
(* all it holds.                                                           *)
ReadAborted ==
    /\ readTask = "running" /\ aborted
    /\ readTask' = "done"
    /\ UNCHANGED <<clone, inner, sendTask, aborted, upstream, sent, next,
                   from, handed, ended, queue, written, shutdown>>

-----------------------------------------------------------------------------
(* The send task holds the transport's sink while it runs *)

SendFrame ==
    /\ sendTask = "running"
    /\ queue # <<>>
    /\ queue' = Tail(queue)
    /\ UNCHANGED <<clone, inner, readTask, sendTask, aborted, upstream,
                   sent, next, from, handed, ended, written, shutdown>>

(* It ends on a failed send, when every clone is gone, or when aborted;    *)
(* what is queued is lost.                                                 *)
SendEnd ==
    /\ sendTask = "running"
    /\ queue # <<>> \/ Live = {} \/ aborted
    /\ sendTask' = "done"
    /\ queue' = <<>>
    /\ UNCHANGED <<clone, inner, readTask, aborted, upstream, sent, next,
                   from, handed, ended, written, shutdown>>

-----------------------------------------------------------------------------
(* Hub::shutdown on some live clone *)

BadShutdownAborts == UNCHANGED aborted
ShutdownAborts == aborted' = TRUE

ShutdownAbort ==
    /\ shutdown = "no" /\ Live # {}
    /\ shutdown' = "taking"
    /\ ShutdownAborts
    /\ UNCHANGED <<clone, inner, readTask, sendTask, upstream, sent, next,
                   from, handed, ended, queue, written>>

(* Only the one who finds Inner has a sink to wait for; what it took is    *)
(* dropped, the sender with it, once it has the sink's lock.               *)
ShutdownTake ==
    /\ shutdown = "taking"
    /\ shutdown' = IF inner THEN "locking" ELSE "joining"
    /\ inner' = FALSE
    /\ UNCHANGED <<clone, readTask, sendTask, aborted, upstream, sent,
                   next, from, handed, ended, queue, written>>

ShutdownLock ==
    /\ shutdown = "locking"
    /\ sendTask = "done"
    /\ shutdown' = "joining"
    /\ UNCHANGED <<clone, inner, readTask, sendTask, aborted, upstream,
                   sent, next, from, handed, ended, queue, written>>

ShutdownJoin ==
    /\ shutdown = "joining"
    /\ readTask = "done" /\ sendTask = "done"
    /\ shutdown' = "done"
    /\ UNCHANGED <<clone, inner, readTask, sendTask, aborted, upstream,
                   sent, next, from, handed, ended, queue, written>>

-----------------------------------------------------------------------------
UpstreamEnds ==
    /\ upstream = "open"
    /\ upstream' = "ended"
    /\ UNCHANGED <<clone, inner, readTask, sendTask, aborted, sent, next,
                   from, handed, ended, queue, written, shutdown>>

ReadStep == ReadFrame \/ ReadEnd \/ ReleaseSender \/ SignalDeath \/ ReadAborted
SendStep == SendFrame \/ SendEnd
ShutdownStep == ShutdownTake \/ ShutdownLock \/ ShutdownJoin
Poll(c) == PollFrame(c) \/ PollEnd(c)

Next ==
    \/ \E c, d \in Clones : TryClone(c, d)
    \/ \E c \in Clones : Drop(c) \/ Poll(c) \/ Write(c)
    \/ ReadStep
    \/ SendStep
    \/ ShutdownAbort
    \/ ShutdownStep
    \/ UpstreamEnds

Spec == Init /\ [][Next]_vars

(* The runtime runs both tasks, and an owner of a clone polls it. *)
FairSpec ==
    /\ Spec
    /\ WF_vars(ReadStep) /\ WF_vars(ReadAborted)
    /\ WF_vars(SendStep)
    /\ WF_vars(ShutdownStep)
    /\ \A c \in Clones : WF_vars(Poll(c))

-----------------------------------------------------------------------------
(* Properties *)

(* What the broadcast sent since c subscribed and c was not handed. *)
Lost(c) == (from[c] .. sent) \ handed[c]

(* A consumer told of the end was handed the newest Capacity frames the    *)
(* device sent since it subscribed (all of them if there were fewer): only *)
(* a lag loses frames, and only the oldest; neither the lag itself nor the *)
(* death of the connection cuts off what is still in the channel, and      *)
(* nothing is sent after the end.                                          *)
EndedAfterNewest == \A c \in ended : \A f \in Lost(c) : sent - f >= Capacity

(* Every clone learns that the connection died or was shut down, whoever   *)
(* else still holds the hub: no consumer waits for frames that cannot come.*)
DeathReachesAll ==
    \A c \in Clones :
        ((upstream = "ended" \/ shutdown # "no") /\ clone[c] = "live")
            ~> (c \in ended \/ clone[c] = "dropped")

(* The tasks, and the device they hold open, outlive no clone.             *)
TasksEndWithClones ==
    (Live = {}) ~> (readTask = "done" /\ sendTask = "done")

(* A started shutdown returns: it never waits for a sink that its own      *)
(* abort does not free.                                                    *)
ShutdownReturns == (shutdown = "taking") ~> (shutdown = "done")
=============================================================================
