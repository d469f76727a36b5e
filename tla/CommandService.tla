--------------------------- MODULE CommandService ---------------------------
(***************************************************************************)
(* What Multiplexer::roundtrip promises, without queue, locks or device:   *)
(* while the service is open a call may be accepted and is then answered   *)
(* once; when it closes, every accepted call that has no answer is told so *)
(* in that very step, and nothing is accepted afterwards.                  *)
(***************************************************************************)
CONSTANT Callers

VARIABLES
    phase,   \* of each caller's call: idle, waiting, answered ok, or closed
    open     \* the receive task still serves answers

vars == <<phase, open>>

Init == phase = [c \in Callers |-> "idle"] /\ open = TRUE

(* The call is accepted. *)
Accept(c) ==
    /\ open
    /\ phase[c] = "idle"
    /\ phase' = [phase EXCEPT ![c] = "waiting"]
    /\ UNCHANGED open

(* An answer is found for exactly one waiting call. *)
Complete(c) ==
    /\ open
    /\ phase[c] = "waiting"
    /\ phase' = [phase EXCEPT ![c] = "ok"]
    /\ UNCHANGED open

(* The call returns: with its answer, or because it failed or was given up. *)
Return(c) ==
    /\ phase[c] # "idle"
    /\ phase' = [phase EXCEPT ![c] = "idle"]
    /\ UNCHANGED open

(* The service closes and releases everyone who still waits. *)
Close ==
    /\ open
    /\ open' = FALSE
    /\ phase' = [c \in Callers |->
                    IF phase[c] = "waiting" THEN "closed" ELSE phase[c]]

Next ==
    \/ \E c \in Callers : Accept(c) \/ Complete(c) \/ Return(c)
    \/ Close

Spec == Init /\ [][Next]_vars
=============================================================================
