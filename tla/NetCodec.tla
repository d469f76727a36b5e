------------------------------ MODULE NetCodec ------------------------------
(***************************************************************************)
(* The decoder of the TCP transport (minidsp/src/transport/net/codec.rs),  *)
(* fed by a byte stream that reads cut anywhere.  Apps and devices put a   *)
(* length in front of each frame; some pad every frame to a packet, with   *)
(* zeros or with whatever their buffer held.                               *)
(* A definition named Bad... is the faulty twin of the one that follows,   *)
(* used by the mutation checks only.                                       *)
(***************************************************************************)
EXTENDS Naturals, Sequences, SequencesExt

CONSTANTS
    PACKET,         \* size of an HID packet: 64
    LARGEST,        \* the packet size of a device is assumed not to exceed it: 100
    Peers,          \* the connections decoded, see Connection
    PeerPacket,     \* size to which a peer pads
    MaxSent         \* bound: frames sent

(* server: the codec is the server's, where one byte more follows what the *)
(* length counts; padding: the peer's; frames: those it sends; reads: the  *)
(* sizes a read may return.                                                *)
Connection == [server : BOOLEAN, padding : {"none", "zero", "junk"},
               frames : SUBSET Seq(Nat), reads : SUBSET (Nat \ {0})]

ASSUME NetCodecAssumption ==
    /\ PACKET \in Nat \ {0} /\ LARGEST \in Nat /\ PeerPacket \in Nat
    /\ \A p \in Peers : p \in Connection
                       /\ \A f \in p.frames : f # <<>> /\ f[1] > 0
    /\ MaxSent \in Nat

VARIABLES
    peer,       \* the connection
    sent,       \* frames the peer sent
    wire,       \* bytes on their way
    src,        \* the decoder's buffer
    small,      \* received_small_packet
    fixed,      \* fixed_packet_size, 0 for None
    readable,   \* the framed stream decodes before it reads again
    decoded,    \* frames it returned
    panicked    \* a split beyond the end of a buffer

codec == <<src, small, fixed, readable, decoded, panicked>>
vars == <<peer, sent, wire, codec>>

TypeOK ==
    /\ peer \in Peers
    /\ sent \in Seq(peer.frames) /\ Len(sent) <= MaxSent
    /\ wire \in Seq(Nat) /\ src \in Seq(Nat) /\ decoded \in Seq(Seq(Nat))
    /\ small \in BOOLEAN /\ readable \in BOOLEAN /\ panicked \in BOOLEAN
    /\ fixed = 0 \/ fixed >= PACKET

Init ==
    /\ peer \in Peers
    /\ sent = <<>> /\ wire = <<>>
    /\ src = <<>> /\ decoded = <<>>
    /\ small = FALSE /\ fixed = 0
    /\ readable = FALSE /\ panicked = FALSE

-----------------------------------------------------------------------------
(* The peer and the connection *)

Filler == IF peer.padding = "junk" THEN 2 ELSE 0

Packet(f) ==
    IF peer.padding = "none" THEN f
    ELSE [i \in 1 .. PeerPacket |-> IF i <= Len(f) THEN f[i] ELSE Filler]

Send(f) ==
    /\ Len(sent) < MaxSent
    /\ sent' = Append(sent, f)
    /\ wire' = wire \o Packet(f)
    /\ UNCHANGED <<peer, codec>>

Read(n) ==
    /\ ~readable /\ ~panicked
    /\ n <= Len(wire)
    /\ src' = src \o SubSeq(wire, 1, n)
    /\ wire' = SubSeq(wire, n + 1, Len(wire))
    /\ readable' = TRUE
    /\ UNCHANGED <<peer, sent, small, fixed, decoded, panicked>>

-----------------------------------------------------------------------------
(* Codec::decode *)

Rest(s, n) == SubSeq(s, n + 1, Len(s))

(* The outcomes of a call: a frame, or None, which makes Framed read.      *)
Return(frame) == decoded' = Append(decoded, frame) /\ UNCHANGED readable
NeedMore == readable' = FALSE /\ UNCHANGED decoded

(* The length of the first data is halved until it looks like a packet's.  *)
Halved[n \in 0 .. MaxSent * (PeerPacket + PACKET)] ==
    IF n > LARGEST /\ n % 2 = 0 THEN Halved[n \div 2] ELSE n

BadWholeBuffer == IF fixed = 0 THEN Len(src) ELSE fixed
BadFirstFrame == IF fixed = 0 THEN src[1] ELSE fixed
PacketSize == IF fixed = 0 THEN Halved[Len(src)] ELSE fixed

FixedMode == ~peer.server /\ ~small /\ src # <<>>

(* A whole packet is taken; its first byte is the length of its frame, and *)
(* the rest is dropped.                                                    *)
DecodePacket ==
    /\ readable /\ ~panicked
    /\ FixedMode /\ Len(src) >= PACKET
    /\ fixed' = PacketSize
    /\ IF PacketSize > Len(src) \/ src[1] > PacketSize
       THEN panicked' = TRUE /\ UNCHANGED <<src, decoded, readable>>
       ELSE /\ src' = Rest(src, PacketSize)
            /\ IF src[1] = 0 THEN NeedMore ELSE Return(SubSeq(src, 1, src[1]))
            /\ UNCHANGED panicked
    /\ UNCHANGED <<peer, sent, wire, small>>

(* The zeros in front of the buffer are skipped. *)
BadSkipped == src
Skipped ==
    LET first == SelectInSeq(src, LAMBDA x : x # 0)
    IN  IF first = 0 THEN <<>> ELSE Rest(src, first - 1)

FrameLength(s) == s[1] + (IF peer.server THEN 1 ELSE 0)

BadComplete == src # <<>> /\ src[1] # 0 /\ Len(src) >= FrameLength(src)
BadMoreThan == Skipped # <<>> /\ Len(Skipped) > FrameLength(Skipped)
Complete == Skipped # <<>> /\ Len(Skipped) >= FrameLength(Skipped)

(* Less than a packet ends the fixed mode for good. *)
DecodePrefixed ==
    /\ readable /\ ~panicked
    /\ ~(FixedMode /\ Len(src) >= PACKET)
    /\ small' = (small \/ FixedMode)
    /\ IF Complete
       THEN /\ Return(SubSeq(Skipped, 1, FrameLength(Skipped)))
            /\ src' = Rest(Skipped, FrameLength(Skipped))
       ELSE NeedMore /\ src' = Skipped
    /\ UNCHANGED <<peer, sent, wire, fixed, panicked>>

Next ==
    \/ \E f \in peer.frames : Send(f)
    \/ \E n \in peer.reads : Read(n)
    \/ DecodePacket \/ DecodePrefixed

Spec == Init /\ [][Next]_vars

(* The peers the decoder can follow.  The first byte of a frame is its     *)
(* length.  A server is never misled, and a client is not as long as every *)
(* read returns less than a packet; or else each read returns one, two or  *)
(* four whole packets, of a size that halving cannot miss.                 *)
Framed(p) ==
    \A f \in p.frames :
        /\ Len(f) = f[1] + (IF p.server THEN 1 ELSE 0)
        /\ p.padding # "none" => Len(f) <= PeerPacket
Prefixed(p) ==
    p.padding # "junk" /\ (p.server \/ \A n \in p.reads : n < PACKET)
PacketFilled(p) ==
    /\ ~p.server /\ p.padding # "none"
    /\ PACKET <= PeerPacket /\ PeerPacket <= LARGEST
    /\ LARGEST < 2 * PeerPacket
    /\ p.reads \subseteq {PeerPacket, 2 * PeerPacket, 4 * PeerPacket}
Supported(p) == Framed(p) /\ (Prefixed(p) \/ PacketFilled(p))

(* The connection delivers what was sent and the task polls the stream.    *)
Fairness ==
    /\ WF_vars(\E n \in peer.reads : Read(n))
    /\ WF_vars(DecodePacket \/ DecodePrefixed)

LiveSpec == Spec /\ Fairness

-----------------------------------------------------------------------------
(* Properties *)

(* "this codec attempts to decode by length prefix" instead of relying on  *)
(* the operating system's packets (codec.rs): whatever the reads return,   *)
(* the frames come out as they were sent.                                  *)
FramesAsSent == IsPrefix(decoded, sent)

(* Every frame sent comes out, without waiting for a later one. *)
EveryFrameComesOut ==
    \A n \in 1 .. MaxSent : Len(sent) >= n ~> Len(decoded) >= n
=============================================================================
