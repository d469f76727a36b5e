--------------------------- MODULE MCSharedDevice ---------------------------
(* Instances of SharedDevice for TLC. *)
EXTENDS SharedDevice, TLC

CONSTANTS a1, a2, w1

(* The daemon alone, beside one app, and two apps of which one is slow. *)
Scenes == ({a1} :> 1) @@ ({w1} :> 1) @@ ({w1, a2} :> 0)
=============================================================================
