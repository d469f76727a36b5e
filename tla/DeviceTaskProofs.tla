-------------------------- MODULE DeviceTaskProofs --------------------------
(* Proofs about DeviceTask, for any number of requests and connections. *)
EXTENDS DeviceTask, TLAPS

USE DEF device, tasks, requests, vars

LEMMA TaskEnds ==
    ASSUME TypeOK, NEW c \in Conns, ReadEnds(c) \/ SendEnds(c) \/ ReceiveEnds(c)
    PROVE  /\ reading' \in SUBSET Conns /\ sending' \in SUBSET Conns
           /\ receiving' \in SUBSET Conns /\ claims' \in SUBSET Conns
           /\ UNCHANGED <<failures, phase, conn, handle, requests>>
  BY DEF TypeOK, ReadEnds, SendEnds, ReceiveEnds

(* Every variable keeps its type: in particular consecutive failures to    *)
(* open stay below the threshold at which the context is reset.            *)
THEOREM TypeCorrect == Spec => []TypeOK
<1>1. Init => TypeOK
  <2> SUFFICES ASSUME Init PROVE TypeOK
    OBVIOUS
  <2>1. failures \in 0 .. HID_RESET_THRESHOLD - 1 /\ faults \in 0 .. MaxFaults
    BY DeviceTaskAssumption DEF Init
  <2>2. holds \in [Requests -> Conns \cup {NoConn}]
    BY DEF Init
  <2> QED
    BY <2>1, <2>2 DEF Init, TypeOK
<1>2. TypeOK /\ [Next]_vars => TypeOK'
  <2> SUFFICES ASSUME TypeOK, [Next]_vars PROVE TypeOK'
    OBVIOUS
  <2>1. ASSUME NEW c \in Conns, OpenSucceeds(c) PROVE TypeOK'
    BY <2>1 DEF OpenSucceeds, TypeOK
  <2>2. CASE OpenFails
    <3>1. failures' \in 0 .. HID_RESET_THRESHOLD - 1
      BY <2>2, DeviceTaskAssumption DEF OpenFails, Resets, TypeOK
    <3>2. wedged' \in BOOLEAN
      BY <2>2 DEF OpenFails, StillWedged, TypeOK
    <3> QED
      BY <2>2, <3>1, <3>2 DEF OpenFails, TypeOK
  <2>3. CASE ProbeSucceeds \/ Publish \/ Retry
    BY <2>3 DEF ProbeSucceeds, Publish, Retry, TypeOK
  <2>4. CASE GiveUp \/ Exit
    <3>1. faults' \in 0 .. MaxFaults
      BY <2>4, DeviceTaskAssumption DEF GiveUp, NotReady, Exit, TypeOK
    <3> QED
      BY <2>4, <3>1, DeviceTaskAssumption DEF GiveUp, Exit, Cleared, TypeOK
  <2>5. ASSUME NEW r \in Requests,
               \/ Acquire(r) \/ Release(r) \/ ForwardEnds(r)
               \/ Stall(r) \/ Resume(r)
        PROVE  TypeOK'
    BY <2>5 DEF Acquire, Release, ForwardEnds, Stall, Resume, TypeOK
  <2>6. ASSUME NEW c \in Conns, Closing(c) PROVE TypeOK'
    <3>1. ReadEnds(c) \/ SendEnds(c) \/ ReceiveEnds(c)
      BY <2>6 DEF Closing, Reap, StreamEnds, Disconnect
    <3>2. UNCHANGED <<present, wedged, faults>>
      BY <2>6 DEF Closing, Reap, StreamEnds, Disconnect
    <3> QED
      BY <3>1, <3>2, TaskEnds DEF TypeOK
  <2>7. ASSUME NEW c \in Conns, Fault(c) PROVE TypeOK'
    <3>1. faults' \in 0 .. MaxFaults
      BY <2>7, DeviceTaskAssumption DEF Fault, TypeOK
    <3> QED
      BY <2>7, <3>1, TaskEnds DEF Fault, TypeOK
  <2>8. CASE Unplug \/ PlugIn
    <3>1. wedged' \in BOOLEAN
      BY <2>8 DEF Unplug, PlugIn, TypeOK
    <3> QED
      BY <2>8, <3>1 DEF Unplug, PlugIn, TypeOK
  <2>9. CASE UNCHANGED vars
    BY <2>9 DEF TypeOK
  <2> QED
    BY <2>1, <2>2, <2>3, <2>4, <2>5, <2>6, <2>7, <2>8, <2>9 DEF Next, Task
<1> QED
  BY <1>1, <1>2, PTL DEF Spec

(* Before the task watches a connection there is no handle, and the handle *)
(* it publishes is taken back before it gives the connection up.           *)
THEOREM HandleTheorem == Spec => []HandleIsWatched
<1>1. Init => HandleIsWatched
  BY DEF Init, HandleIsWatched
<1>2. TypeOK /\ HandleIsWatched /\ [Next]_vars => HandleIsWatched'
  <2> SUFFICES ASSUME TypeOK, HandleIsWatched, [Next]_vars PROVE HandleIsWatched'
    OBVIOUS
  <2>1. ASSUME UNCHANGED <<handle, conn, phase>> PROVE HandleIsWatched'
    BY <2>1 DEF HandleIsWatched
  <2>2. ASSUME NEW c \in Conns, OpenSucceeds(c) PROVE HandleIsWatched'
    BY <2>2 DEF OpenSucceeds, HandleIsWatched
  <2>3. CASE OpenFails \/ ProbeSucceeds \/ GiveUp \/ Retry
    BY <2>3 DEF OpenFails, ProbeSucceeds, GiveUp, NotReady, Retry,
                HandleIsWatched
  <2>4. CASE Publish
    BY <2>4 DEF Publish, HandleIsWatched
  <2>5. CASE Exit
    BY <2>5 DEF Exit, Cleared, HandleIsWatched
  <2>6. ASSUME NEW r \in Requests,
               \/ Acquire(r) \/ Release(r) \/ ForwardEnds(r)
               \/ Stall(r) \/ Resume(r)
        PROVE  HandleIsWatched'
    BY <2>1, <2>6 DEF Acquire, Release, ForwardEnds, Stall, Resume
  <2>7. ASSUME NEW c \in Conns, Closing(c) \/ Fault(c)
        PROVE  HandleIsWatched'
    BY <2>1, <2>7, TaskEnds DEF Closing, Reap, StreamEnds, Disconnect, Fault
  <2>8. CASE Unplug \/ PlugIn
    BY <2>1, <2>8 DEF Unplug, PlugIn
  <2>9. CASE UNCHANGED vars
    BY <2>1, <2>9
  <2>10. CASE Task
    BY <2>2, <2>3, <2>4, <2>5, <2>10 DEF Task
  <2> QED
    BY <2>6, <2>7, <2>8, <2>9, <2>10 DEF Next
<1> QED
  BY <1>1, <1>2, TypeCorrect, PTL DEF Spec
=============================================================================
