---------------------------- MODULE StatusSocket ----------------------------
(***************************************************************************)
(* A status session (get_master_status, daemon/src/http/mod.rs): a client  *)
(* that upgrades to a websocket gets the status, then the device's own     *)
(* notifications and, if it asked for that, what polling finds.            *)
(* The level updates of the session carry no status and are left out.      *)
(* A definition named Bad... is the faulty twin of the one that follows,   *)
(* used by the mutation checks only.                                       *)
(***************************************************************************)
EXTENDS Naturals, Sequences, SequencesExt

CONSTANTS
    Values,         \* master statuses
    Unknown,        \* what a client knows before the first message
    CAPACITY,       \* notifications the event channel holds: 10
    Sessions,       \* the sessions considered, see Session
    MaxChanges      \* bound: changes of the status

(* poll: the poll parameter is set; sources: who changes the status;       *)
(* early: it may change before the session has subscribed.                 *)
Session == [poll : BOOLEAN, sources : SUBSET {"remote", "others"},
            early : BOOLEAN]

ASSUME StatusAssumption ==
    /\ Unknown \notin Values /\ CAPACITY \in Nat \ {0}
    /\ Sessions \subseteq Session /\ MaxChanges \in Nat

VARIABLES
    session,    \* what kind of session this is
    status,     \* the device's
    changes,    \* how often it changed
    phase,      \* of the session: request, fetched, sent, running, closed
    fetched,    \* the status read for the request
    events,     \* notifications this session has not taken
    polled,     \* last_polled_status
    view,       \* what the client knows
    alive       \* the multiplexer's receive task runs

vars == <<session, status, changes, phase, fetched, events, polled, view, alive>>

TypeOK ==
    /\ session \in Sessions
    /\ status \in Values /\ changes \in 0 .. MaxChanges
    /\ phase \in {"request", "fetched", "sent", "running", "closed"}
    /\ fetched \in Values /\ polled \in Values
    /\ view \in Values \cup {Unknown}
    /\ events \in Seq(Values) /\ Len(events) <= CAPACITY
    /\ alive \in BOOLEAN

Init ==
    /\ session \in Sessions
    /\ status \in Values
    /\ fetched = status /\ polled = status /\ view = Unknown
    /\ phase = "request" /\ changes = 0
    /\ events = <<>> /\ alive = TRUE

-----------------------------------------------------------------------------
(* The device and its other users *)

(* The oldest notification gives way. *)
BadNewest(v) == IF Len(events) < CAPACITY THEN Append(events, v) ELSE events
Enqueue(v) ==
    IF Len(events) < CAPACITY THEN Append(events, v)
    ELSE Append(Tail(events), v)

(* The device notifies of changes made by its remote, not of commands.     *)
Change(source, v) ==
    /\ session.early \/ phase = "running"
    /\ phase # "closed"
    /\ changes < MaxChanges /\ v # status
    /\ changes' = changes + 1
    /\ status' = v
    /\ events' = IF source = "remote" /\ phase = "running" /\ alive
                 THEN Enqueue(v) ELSE events
    /\ UNCHANGED <<session, phase, fetched, polled, view, alive>>

MultiplexerEnds ==
    /\ alive
    /\ alive' = FALSE
    /\ UNCHANGED <<session, status, changes, phase, fetched, events, polled, view>>

-----------------------------------------------------------------------------
(* The session *)

Close ==
    /\ phase' = "closed"
    /\ UNCHANGED <<session, status, changes, fetched, events, polled, alive>>

(* StatusSummary::fetch, when the request arrives. *)
Fetch ==
    /\ phase = "request"
    /\ IF alive
       THEN /\ fetched' = status /\ phase' = "fetched"
            /\ UNCHANGED <<session, status, changes, events, polled, view, alive>>
       ELSE Close /\ UNCHANGED view

(* After the upgrade "the initial status right away" ...                   *)
SendInitial ==
    /\ phase = "fetched"
    /\ view' = fetched /\ phase' = "sent"
    /\ UNCHANGED <<session, status, changes, fetched, events, polled, alive>>

(* ... "then watch for updates". *)
Subscribe ==
    /\ phase = "sent"
    /\ IF alive
       THEN /\ phase' = "running" /\ polled' = fetched
            /\ UNCHANGED <<session, status, changes, fetched, events, view, alive>>
       ELSE Close /\ UNCHANGED view

Push ==
    /\ phase = "running" /\ events # <<>>
    /\ view' = Head(events)
    /\ events' = Tail(events)
    /\ UNCHANGED <<session, status, changes, phase, fetched, polled, alive>>

(* What polling read is sent and remembered if it is not what polling read *)
(* before; an error is ignored.                                            *)
BadRemembered == polled
Remembered == status

PollStatus ==
    /\ phase = "running" /\ session.poll /\ alive
    /\ status # polled
    /\ polled' = Remembered
    /\ view' = status
    /\ UNCHANGED <<session, status, changes, phase, fetched, events, alive>>

(* The client closes, or a message cannot be sent to it. *)
ClientLeaves ==
    /\ phase = "running"
    /\ Close /\ UNCHANGED view

Next ==
    \/ \E source \in session.sources, v \in Values : Change(source, v)
    \/ MultiplexerEnds
    \/ Fetch \/ SendInitial \/ Subscribe
    \/ Push \/ PollStatus \/ ClientLeaves

Spec == Init /\ [][Next]_vars

(* The session's task is polled by the runtime, select picks its ready     *)
(* branches at random, and the timer ticks.                                *)
Fairness ==
    /\ WF_vars(Fetch \/ SendInitial \/ Subscribe)
    /\ WF_vars(Push) /\ WF_vars(PollStatus)

LiveSpec == Spec /\ Fairness

-----------------------------------------------------------------------------
(* Properties *)

(* "Upon upgrading, the full current status is provided, followed by       *)
(* updates to properties that have changes", and polling "sends a message  *)
(* if the status summary has changed" (docs/src/daemon/http.md): the       *)
(* client's knowledge catches up with the device whenever it pauses.       *)
ViewCatchesUp == []<>(phase = "closed" \/ ~alive \/ view = status)

(* What polling compares with is what the client was told last, when there *)
(* are no notifications: a status is never held back as already known.     *)
NothingWithheld ==
    phase = "running" /\ "remote" \notin session.sources => view = polled
=============================================================================
