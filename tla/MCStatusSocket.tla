--------------------------- MODULE MCStatusSocket ---------------------------
(* Instances of StatusSocket for TLC. *)
EXTENDS StatusSocket

(* Polling while other applications change the status; the remote's        *)
(* changes pushed, with polling or, once subscribed, without.              *)
KeptSessions ==
    {[poll |-> TRUE, sources |-> {"others"}, early |-> TRUE],
     [poll |-> TRUE, sources |-> {"remote"}, early |-> TRUE],
     [poll |-> FALSE, sources |-> {"remote"}, early |-> FALSE]}
=============================================================================
