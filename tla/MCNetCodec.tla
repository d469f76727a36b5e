----------------------------- MODULE MCNetCodec -----------------------------
(* Instances of NetCodec for TLC, with packets of four bytes. *)
EXTENDS NetCodec

(* Frames of a client: the length, what it counts, and a checksum. *)
ClientFrames == {<<1, 2>>, <<2, 0, 0>>, <<3, 0, 2, 1>>}

(* Answers of a device: the length counts itself; an acknowledgment is     *)
(* nothing but its length.                                                 *)
DeviceFrames == {<<1>>, <<2, 0>>, <<3, 1, 0>>}

(* Apps, padding or not, cut anywhere; devices whose frames come in reads  *)
(* smaller than a packet; devices that fill packets, one or two to a read. *)
SupportedPeers ==
    [server : {TRUE}, padding : {"none", "zero"},
     frames : {ClientFrames}, reads : {{1, 2, 3, 5}}]
    \cup [server : {FALSE}, padding : {"none", "zero"},
          frames : {DeviceFrames}, reads : {{1, 2, 3}}]
    \cup [server : {FALSE}, padding : {"zero", "junk"},
          frames : {DeviceFrames}, reads : {{4, 8}}]

(* What the theorems take for granted. *)
ASSUME PeersSupported == \A p \in Peers : Supported(p)
=============================================================================
