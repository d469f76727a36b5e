----------------------------- MODULE DeviceTask -----------------------------
(***************************************************************************)
(* The life of one device in minidspd (Device::task and task_inner in      *)
(* daemon/src/device_manager.rs): open a connection, probe the device,     *)
(* publish a handle, watch the connection until it dies, start again.      *)
(* A connection is a hub and a multiplexer on top of it (modules Hub and   *)
(* Multiplexer), seen here as the three tasks they run.  Requests clone    *)
(* the handle's hub or its command service and may outlive the handle; the *)
(* multiplexer's receive task owns a clone too, and nothing aborts it.     *)
(* A definition named Bad... is the faulty twin of the one that follows,   *)
(* used by the mutation checks only.                                       *)
(***************************************************************************)
EXTENDS Naturals

CONSTANTS
    Conns,      \* identities of connections, reused once free; bound: with
                \* none free the task waits before it opens
    NoConn,
    Forwards,   \* requests that hold the hub: TCP and websocket forwarding
    Calls,      \* requests that hold the service: HTTP calls, status sockets
    Usb,        \* the device is on USB, where one connection can claim it
    HID_RESET_THRESHOLD,
    MaxFaults   \* bound: faults of a connection while the device is there

Requests == Forwards \cup Calls

ASSUME DeviceTaskAssumption ==
    /\ NoConn \notin Conns
    /\ Forwards \cap Calls = {}
    /\ Usb \in BOOLEAN
    /\ HID_RESET_THRESHOLD \in Nat \ {0}
    /\ MaxFaults \in Nat

VARIABLES
    present,    \* the device is plugged in and answers
    wedged,     \* the cached HidApi context cannot open the device
    failures,   \* consecutive_hid_failures
    phase,      \* of the task: opening, probing, probed, watching, sleeping
    conn,       \* the connection the task works with
    handle,     \* the connection of the published handle
    holds,      \* the connection each request holds
    stalled,    \* forwarding sessions with a frame for an app that reads none
    reading,    \* connections whose hub read task runs
    sending,    \* connections whose hub send task runs
    receiving,  \* connections whose multiplexer receive task runs
    claims,     \* open connections made since the device was plugged in
    faults      \* faults so far

device == <<present, wedged, claims, faults>>
tasks == <<reading, sending, receiving>>
requests == <<holds, stalled>>
vars == <<device, tasks, failures, phase, conn, handle, requests>>

TypeOK ==
    /\ present \in BOOLEAN /\ wedged \in BOOLEAN
    /\ failures \in 0 .. HID_RESET_THRESHOLD - 1
    /\ phase \in {"opening", "probing", "probed", "watching", "sleeping"}
    /\ conn \in Conns \cup {NoConn}
    /\ handle \in Conns \cup {NoConn}
    /\ holds \in [Requests -> Conns \cup {NoConn}]
    /\ stalled \in SUBSET Forwards
    /\ reading \in SUBSET Conns /\ sending \in SUBSET Conns
    /\ receiving \in SUBSET Conns /\ claims \in SUBSET Conns
    /\ faults \in 0 .. MaxFaults

Init ==
    /\ present \in BOOLEAN /\ wedged = FALSE
    /\ failures = 0
    /\ phase = "opening"
    /\ conn = NoConn /\ handle = NoConn
    /\ holds = [r \in Requests |-> NoConn] /\ stalled = {}
    /\ reading = {} /\ sending = {} /\ receiving = {} /\ claims = {}
    /\ faults = 0

(* A hub lives as long as somebody has a clone of it: the task, the        *)
(* handle, a request, or the multiplexer's receive task, which is spawned  *)
(* detached and keeps its half whoever drops the service.  HidStream       *)
(* closes the device when both of its halves are dropped: the read task's  *)
(* and the one the send task locks.                                        *)
Held(c) ==
    \/ c = conn \/ c = handle \/ c \in receiving
    \/ \E r \in Requests : holds[r] = c
Open(c) == c \in reading \cup sending
Free(c) == ~Held(c) /\ ~Open(c)

(* Connections that are free are all alike: which one is taken is fixed.   *)
Fresh == CHOOSE c \in Conns : Free(c)

(* libusb lets one connection claim the interface of a device.             *)
Claimed == Usb /\ claims # {}

-----------------------------------------------------------------------------
(* The task *)

(* transport::open_url, Hub::new and Multiplexer::from_transport           *)
OpenSucceeds(c) ==
    /\ phase = "opening"
    /\ present /\ ~wedged /\ ~Claimed
    /\ Free(c) /\ c = Fresh
    /\ phase' = "probing"
    /\ conn' = c
    /\ reading' = reading \cup {c}
    /\ sending' = sending \cup {c}
    /\ receiving' = receiving \cup {c}
    /\ claims' = claims \cup {c}
    /\ UNCHANGED <<present, wedged, faults, failures, handle, requests>>

(* A USB device that does not open counts; at the threshold the HidApi     *)
(* context is dropped, to be built again by the next attempt.              *)
BadResets == FALSE
Resets == failures + 1 >= HID_RESET_THRESHOLD

BadStillWedged == wedged
StillWedged == wedged /\ ~(Usb /\ Resets)

OpenFails ==
    /\ phase = "opening"
    /\ ~present \/ wedged \/ Claimed
    /\ phase' = "sleeping"
    /\ failures' = IF Usb /\ ~Resets THEN failures + 1 ELSE 0
    /\ wedged' = StillWedged
    /\ UNCHANGED <<present, claims, faults, tasks, conn, handle, requests>>

Answers(c) == present /\ c \in reading /\ c \in sending /\ c \in receiving

ProbeSucceeds ==
    /\ phase = "probing"
    /\ Answers(conn)
    /\ phase' = "probed"
    /\ UNCHANGED <<device, tasks, failures, conn, handle, requests>>

(* The probe fails, or try_clone does because the hub has died meanwhile:  *)
(* not HID errors, so the count starts again.  The device may also just    *)
(* answer too late or not make sense yet, on a connection that works.      *)
NotReady ==
    /\ phase = "probing" /\ Answers(conn)
    /\ faults < MaxFaults
    /\ faults' = faults + 1

GiveUp ==
    /\ \/ phase = "probing" /\ ~Answers(conn) /\ UNCHANGED faults
       \/ phase = "probed" /\ conn \notin reading /\ UNCHANGED faults
       \/ NotReady
    /\ phase' = "sleeping"
    /\ conn' = NoConn
    /\ failures' = 0
    /\ UNCHANGED <<present, wedged, claims, tasks, handle, requests>>

Publish ==
    /\ phase = "probed"
    /\ conn \in reading
    /\ phase' = "watching"
    /\ handle' = conn
    /\ UNCHANGED <<device, tasks, failures, conn, requests>>

(* The transport's stream ended, or the multiplexer's event channel closed *)
(* (or had closed before task_inner could subscribe).                      *)
TransportOnly == conn \notin reading
Dead == conn \notin reading \/ conn \notin receiving

Cleared == NoConn

Exit ==
    /\ phase = "watching"
    /\ Dead
    /\ phase' = "sleeping"
    /\ handle' = Cleared
    /\ conn' = NoConn
    /\ failures' = 0
    /\ UNCHANGED <<device, tasks, requests>>

(* RECONNECT_DELAY_SECS are over. *)
Retry ==
    /\ phase = "sleeping"
    /\ phase' = "opening"
    /\ UNCHANGED <<device, tasks, failures, conn, handle, requests>>

-----------------------------------------------------------------------------
(* Requests *)

(* to_hub refuses a dead hub, to_minidsp does not look. *)
Acquire(r) ==
    /\ holds[r] = NoConn
    /\ handle # NoConn
    /\ r \in Forwards => handle \in reading
    /\ holds' = [holds EXCEPT ![r] = handle]
    /\ UNCHANGED <<device, tasks, failures, phase, conn, handle, stalled>>

(* The request is done, or its peer leaves. *)
Release(r) ==
    /\ holds[r] # NoConn
    /\ holds' = [holds EXCEPT ![r] = NoConn]
    /\ stalled' = stalled \ {r}
    /\ UNCHANGED <<device, tasks, failures, phase, conn, handle>>

(* The app stops reading while the device sends: the session waits in      *)
(* remote.send and looks at neither the hub nor the app.                   *)
Stall(r) ==
    /\ r \in Forwards /\ holds[r] \in reading
    /\ stalled' = stalled \cup {r}
    /\ UNCHANGED <<device, tasks, failures, phase, conn, handle, holds>>

Resume(r) ==
    /\ r \in stalled
    /\ stalled' = stalled \ {r}
    /\ UNCHANGED <<device, tasks, failures, phase, conn, handle, holds>>

(* forward and websocket_transport_bridge return when the hub's stream     *)
(* ends; the status socket only stops listening to it.                     *)
BadNotices(r) == FALSE
Notices(r) == r \in Forwards \ stalled /\ holds[r] \notin reading

ForwardEnds(r) == Notices(r) /\ Release(r)

-----------------------------------------------------------------------------
(* The connection's tasks *)

ReadEnds(c) ==
    /\ c \in reading
    /\ reading' = reading \ {c}
    /\ claims' = claims \cap (reading' \cup sending)
    /\ UNCHANGED <<sending, receiving, failures, phase, conn, handle,
                   requests>>

SendEnds(c) ==
    /\ c \in sending
    /\ sending' = sending \ {c}
    /\ claims' = claims \cap (reading \cup sending')
    /\ UNCHANGED <<reading, receiving, failures, phase, conn, handle,
                   requests>>

ReceiveEnds(c) ==
    /\ c \in receiving
    /\ receiving' = receiving \ {c}
    /\ UNCHANGED <<reading, sending, claims, failures, phase, conn, handle,
                   requests>>

(* The last clone takes the hub's tasks with it. *)
Reap(c) ==
    /\ ~Held(c)
    /\ ReadEnds(c) \/ SendEnds(c)
    /\ UNCHANGED <<present, wedged, faults>>

(* The multiplexer's stream ends with the hub's.  Only that, or an error   *)
(* (Fault), ends the receive task.                                         *)
StreamEnds(c) ==
    /\ c \notin reading
    /\ ReceiveEnds(c)
    /\ UNCHANGED <<present, wedged, faults>>

(* The device is gone: reads fail. *)
Disconnect(c) ==
    /\ Usb
    /\ ~present \/ c \notin claims
    /\ ReadEnds(c)
    /\ UNCHANGED <<present, wedged, faults>>

(* A read fails, a write fails, a frame breaks the protocol. *)
Fault(c) ==
    /\ faults < MaxFaults
    /\ faults' = faults + 1
    /\ ReadEnds(c) \/ SendEnds(c) \/ ReceiveEnds(c)
    /\ UNCHANGED <<present, wedged>>

Unplug ==
    /\ present
    /\ present' = FALSE
    /\ wedged' \in (IF Usb THEN {wedged, TRUE} ELSE {wedged})
    /\ claims' = {}
    /\ UNCHANGED <<faults, tasks, failures, phase, conn, handle, requests>>

PlugIn ==
    /\ ~present
    /\ present' = TRUE
    /\ UNCHANGED <<wedged, claims, faults, tasks, failures, phase, conn, handle,
                   requests>>

-----------------------------------------------------------------------------
Task ==
    \/ \E c \in Conns : OpenSucceeds(c)
    \/ OpenFails \/ ProbeSucceeds \/ GiveUp \/ Publish \/ Exit \/ Retry

Closing(c) == Reap(c) \/ StreamEnds(c) \/ Disconnect(c)

Next ==
    \/ Task
    \/ \E r \in Requests : \/ Acquire(r) \/ Release(r) \/ ForwardEnds(r)
                           \/ Stall(r) \/ Resume(r)
    \/ \E c \in Conns : Closing(c) \/ Fault(c)
    \/ Unplug \/ PlugIn

Spec == Init /\ [][Next]_vars

(* The runtime schedules the tasks that can run.  Nothing is assumed of    *)
(* the peers of the requests: a session may stay for ever, an app may stop *)
(* reading.                                                                *)
Fairness ==
    /\ WF_vars(Task)
    /\ \A r \in Requests : WF_vars(ForwardEnds(r))
    /\ \A c \in Conns : WF_vars(Closing(c))

LiveSpec == Spec /\ Fairness

-----------------------------------------------------------------------------
(* Properties *)

(* Requests are only ever given the connection the task watches: while the *)
(* task sleeps, opens or probes there is no handle to clone.               *)
HandleIsWatched == handle # NoConn => handle = conn /\ phase = "watching"

(* A handle whose connection died, in the hub or in the multiplexer, is    *)
(* withdrawn.                                                              *)
DeadIsWithdrawn ==
    handle # NoConn /\ ~(handle \in reading /\ handle \in receiving)
        ~> handle = NoConn

Ends(r) == []<>(holds[r] = NoConn)
Reads(r) == []<>(r \notin stalled)

(* A connection the task gave up although it works, because the probe      *)
(* failed: its receive task holds it, with the claim on the device, until  *)
(* the transport fails by itself.                                          *)
Orphaned(c) == c # conn /\ c \in reading \cap receiving

(* A device that is there gets its handle again and again, through failed  *)
(* opens, a wedged context and connections that broke, as long as neither  *)
(* a session nor an orphaned connection holds the USB device for ever.     *)
Reconnects ==
    /\ \A r \in Requests : Ends(r)
    /\ \A c \in Conns : []<>~Orphaned(c)
    /\ <>[]present
    => []<>(handle # NoConn)

(* A connection whose stream died lets go of the device, though forwarding *)
(* sessions held it and their peers never leave, as long as these go on    *)
(* reading what they are sent and the calls on it return.                  *)
DeadIsClosed ==
    /\ \A r \in Calls : Ends(r)
    /\ \A r \in Forwards : Reads(r)
    => \A c \in Conns : Open(c) /\ c \notin reading ~> ~Open(c)
=============================================================================
