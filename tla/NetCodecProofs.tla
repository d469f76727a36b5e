--------------------------- MODULE NetCodecProofs ---------------------------
(***************************************************************************)
(* Theorems about NetCodec: from the peers it supports, the decoder gets   *)
(* the frames that were sent, wherever the reads cut them.                 *)
(***************************************************************************)
EXTENDS NetCodec, WellFoundedInduction, SequenceTheorems, TLAPS

-----------------------------------------------------------------------------
(* Induction on sets of numbers *)

LEMMA LeastElement ==
    ASSUME NEW T \in SUBSET Nat, T # {}
    PROVE  \E x \in T : \A y \in T : x <= y
<1>1. PICK x \in T : \A y \in T : ~ (<<y, x>> \in OpToRel(<, Nat))
  BY NatLessThanWellFounded, WFMin, Zenon
<1>2. \A y \in T : ~ (y < x)
  BY <1>1 DEF OpToRel
<1> QED BY <1>2

LEMMA Counting ==
    ASSUME NEW T \in SUBSET Nat, 0 \in T, \A n \in T : n + 1 \in T
    PROVE  T = Nat
<1> SUFFICES ASSUME Nat \ T # {} PROVE FALSE
  OBVIOUS
<1>1. PICK x \in Nat \ T : \A y \in Nat \ T : x <= y
  BY LeastElement
<1>2. x - 1 \in Nat /\ x - 1 \in T
  BY <1>1
<1> QED BY <1>1, <1>2

-----------------------------------------------------------------------------
(* The guess of a packet's size *)

MaxBytes == MaxSent * (PeerPacket + PACKET)
HalfOf(f, k) == IF k > LARGEST /\ k % 2 = 0 THEN f[k \div 2] ELSE k

(* Halving defines a function, because it ends. *)
LEMMA HalvingEnds ==
    ASSUME NEW M \in Nat
    PROVE  \E f : f = [k \in 0 .. M |-> HalfOf(f, k)]
<1> USE NetCodecAssumption DEF HalfOf
<1> DEFINE Upto(n) == \E f : f = [k \in 0 .. n |-> HalfOf(f, k)]
           T == {n \in Nat : Upto(n)}
<1>1. 0 \in T
  <2>1. [k \in 0 .. 0 |-> 0] =
            [k \in 0 .. 0 |-> HalfOf([j \in 0 .. 0 |-> 0], k)]
    OBVIOUS
  <2> QED BY <2>1
<1>2. ASSUME NEW n \in T PROVE n + 1 \in T
  <2>1. PICK f : f = [k \in 0 .. n |-> HalfOf(f, k)]
    OBVIOUS
  <2> DEFINE g == [k \in 0 .. n + 1 |-> IF k <= n THEN f[k] ELSE HalfOf(f, k)]
  <2>2. \A k \in 0 .. n + 1 : k > LARGEST => k \div 2 \in 0 .. n
    OBVIOUS
  <2>3. ASSUME NEW k \in 0 .. n + 1 PROVE g[k] = HalfOf(g, k)
    <3>1. HalfOf(f, k) = HalfOf(g, k)
      BY <2>2
    <3>2. g[k] = HalfOf(f, k)
      BY <2>1
    <3> QED BY <3>1, <3>2
  <2>4. g = [k \in 0 .. n + 1 |-> HalfOf(g, k)]
    BY <2>3
  <2> HIDE DEF g
  <2>5. Upto(n + 1)
    BY <2>4, Zenon
  <2> QED BY <2>5, SMTT(20)
<1>3. T = Nat
  <2> HIDE DEF T
  <2> QED BY <1>1, <1>2, Counting DEF T
<1> QED BY <1>3

LEMMA HalvedFacts ==
    ASSUME NEW n \in 0 .. MaxBytes
    PROVE  Halved[n] = HalfOf(Halved, n)
<1>1. MaxBytes \in Nat
  BY NetCodecAssumption DEF MaxBytes
<1>2. \E f : f = [k \in 0 .. MaxBytes |->
                    IF k > LARGEST /\ k % 2 = 0 THEN f[k \div 2] ELSE k]
  BY <1>1, HalvingEnds DEF HalfOf
<1>3. Halved = [k \in 0 .. MaxBytes |->
                  IF k > LARGEST /\ k % 2 = 0 THEN Halved[k \div 2] ELSE k]
  BY <1>2, Zenon DEF Halved, MaxBytes
<1> QED BY <1>3, Zenon DEF HalfOf

(* One, two or four packets are halved to one. *)
LEMMA HalvedPackets ==
    ASSUME PeerPacket <= LARGEST, LARGEST < 2 * PeerPacket,
           NEW n \in {PeerPacket, 2 * PeerPacket, 4 * PeerPacket},
           n <= MaxBytes
    PROVE  Halved[n] = PeerPacket
<1> USE NetCodecAssumption
<1>0. MaxBytes \in Nat
  BY DEF MaxBytes
<1>1. PeerPacket <= MaxBytes => Halved[PeerPacket] = PeerPacket
  BY <1>0, HalvedFacts DEF HalfOf
<1>2. 2 * PeerPacket <= MaxBytes => Halved[2 * PeerPacket] = PeerPacket
  <2>1. (2 * PeerPacket) \div 2 = PeerPacket /\ (2 * PeerPacket) % 2 = 0
    OBVIOUS
  <2> QED BY <1>0, <1>1, <2>1, HalvedFacts DEF HalfOf
<1>3. 4 * PeerPacket <= MaxBytes => Halved[4 * PeerPacket] = PeerPacket
  <2> DEFINE k == 4 * PeerPacket
  <2>1. k \div 2 = 2 * PeerPacket /\ k % 2 = 0
    OBVIOUS
  <2>2. k \in Nat /\ k > LARGEST /\ 2 * PeerPacket <= k
    OBVIOUS
  <2> HIDE DEF k
  <2>3. k <= MaxBytes => Halved[k] = Halved[2 * PeerPacket]
    BY <1>0, <2>1, <2>2, HalvedFacts DEF HalfOf
  <2>4. k <= MaxBytes => 2 * PeerPacket <= MaxBytes
    BY <1>0, <2>2
  <2> QED BY <1>2, <2>3, <2>4 DEF k
<1> QED BY <1>1, <1>2, <1>3

-----------------------------------------------------------------------------
(* Sequences *)

LEMMA RestFacts ==
    ASSUME NEW s \in Seq(Nat), NEW m \in 0 .. Len(s)
    PROVE  /\ Rest(s, m) \in Seq(Nat) /\ Len(Rest(s, m)) = Len(s) - m
           /\ \A k \in 1 .. Len(s) - m : Rest(s, m)[k] = s[m + k]
<1>1. /\ Len(s) \in Nat /\ m \in Nat /\ m + 1 \in Int
      /\ \A k \in m + 1 .. Len(s) : s[k] \in Nat
  OBVIOUS
<1> DEFINE r == SubSeq(s, m + 1, Len(s))
<1>2. /\ r \in Seq(Nat)
      /\ Len(r) = IF m + 1 <= Len(s) THEN Len(s) - (m + 1) + 1 ELSE 0
      /\ \A k \in 1 .. Len(s) - (m + 1) + 1 : r[k] = s[m + 1 + k - 1]
  BY <1>1, SubSeqProperties
<1> HIDE DEF r
<1>3. Len(r) = Len(s) - m
  BY <1>1, <1>2
<1>4. ASSUME NEW k \in 1 .. Len(s) - m PROVE r[k] = s[m + k]
  <2>1. k \in 1 .. Len(s) - (m + 1) + 1 /\ m + 1 + k - 1 = m + k
    BY <1>1
  <2>2. r[k] = s[m + 1 + k - 1]
    BY <1>2, <2>1
  <2> QED BY <2>1, <2>2
<1> QED BY <1>2, <1>3, <1>4 DEF Rest, r

LEMMA Associative ==
    ASSUME NEW s \in Seq(Nat), NEW t \in Seq(Nat), NEW u \in Seq(Nat)
    PROVE  (s \o t) \o u = s \o (t \o u)
  BY ConcatAssociative, SMTT(20)

(* Reading moves bytes from the wire to the buffer. *)
LEMMA Moved ==
    ASSUME NEW s \in Seq(Nat), NEW w \in Seq(Nat), NEW n \in 0 .. Len(w)
    PROVE  (s \o SubSeq(w, 1, n)) \o Rest(w, n) = s \o w
<1>1. SubSeq(w, 1, n) \in Seq(Nat) /\ SubSeq(w, n + 1, Len(w)) \in Seq(Nat)
  OBVIOUS
<1>2. 1 \in 1 .. Len(w) + 1 /\ n \in 1 - 1 .. Len(w) /\ Len(w) \in n .. Len(w)
  OBVIOUS
<1>3. SubSeq(w, 1, n) \o SubSeq(w, n + 1, Len(w)) = SubSeq(w, 1, Len(w))
  BY <1>2, ConcatAdjacentSubSeq, Zenon
<1> DEFINE a == SubSeq(w, 1, n)
           b == SubSeq(w, n + 1, Len(w))
<1>4. a \o b = w
  BY <1>3, SubSeqFull
<1> HIDE DEF a, b
<1>5. (s \o a) \o b = s \o (a \o b)
  <2>1. a \in Seq(Nat) /\ b \in Seq(Nat)
    BY <1>1 DEF a, b
  <2> QED BY <2>1, ConcatAssociative, SMTT(20)
<1>6. (s \o a) \o b = s \o w
  BY <1>4, <1>5
<1> QED BY <1>6 DEF Rest, a, b

LEMMA BothFacts ==
    ASSUME NEW s \in Seq(Nat), NEW w \in Seq(Nat)
    PROVE  /\ s \o w \in Seq(Nat) /\ Len(s \o w) = Len(s) + Len(w)
           /\ \A k \in 1 .. Len(s) + Len(w) :
                 (s \o w)[k] = IF k <= Len(s) THEN s[k] ELSE w[k - Len(s)]
<1>1. s \o w \in Seq(Nat) /\ Len(s \o w) = Len(s) + Len(w)
  OBVIOUS
<1>2. \A k \in 1 .. Len(s) + Len(w) :
          (s \o w)[k] = IF k <= Len(s) THEN s[k] ELSE w[k - Len(s)]
  OBVIOUS
<1> QED BY <1>1, <1>2

LEMMA AfterFacts ==
    ASSUME NEW s \in Seq(Nat), NEW w \in Seq(Nat)
    PROVE  /\ s \o w \in Seq(Nat) /\ Len(s \o w) = Len(s) + Len(w)
           /\ \A k \in 1 .. Len(s) : (s \o w)[k] = s[k]
           /\ \A k \in 1 .. Len(w) : (s \o w)[Len(s) + k] = w[k]
           /\ \A k \in Len(s) + 1 .. Len(s) + Len(w) :
                 k - Len(s) \in 1 .. Len(w) /\ (s \o w)[k] = w[k - Len(s)]
<1> DEFINE S == s \o w
<1>1. /\ S \in Seq(Nat) /\ Len(S) = Len(s) + Len(w)
      /\ \A k \in 1 .. Len(s) + Len(w) :
            S[k] = IF k <= Len(s) THEN s[k] ELSE w[k - Len(s)]
  BY BothFacts
<1> HIDE DEF S
<1>2. \A k \in 1 .. Len(s) : S[k] = s[k]
  BY <1>1
<1>3. ASSUME NEW k \in 1 .. Len(w) PROVE S[Len(s) + k] = w[k]
  <2> DEFINE q == Len(s) + k
  <2>1. q \in 1 .. Len(s) + Len(w) /\ ~ (q <= Len(s)) /\ q - Len(s) = k
    OBVIOUS
  <2> HIDE DEF q
  <2>2. S[q] = w[q - Len(s)]
    BY <1>1, <2>1
  <2> QED BY <2>1, <2>2 DEF q
<1>4. \A k \in Len(s) + 1 .. Len(s) + Len(w) :
          k - Len(s) \in 1 .. Len(w) /\ S[k] = w[k - Len(s)]
  <2> SUFFICES ASSUME NEW k \in Len(s) + 1 .. Len(s) + Len(w)
               PROVE  k - Len(s) \in 1 .. Len(w) /\ S[k] = w[k - Len(s)]
    OBVIOUS
  <2>1. /\ k \in 1 .. Len(s) + Len(w) /\ ~ (k <= Len(s))
        /\ k - Len(s) \in 1 .. Len(w)
    OBVIOUS
  <2> QED BY <1>1, <2>1
<1> QED BY <1>1, <1>2, <1>3, <1>4 DEF S

LEMMA RestOfBoth ==
    ASSUME NEW s \in Seq(Nat), NEW w \in Seq(Nat), NEW m \in 0 .. Len(s)
    PROVE  Rest(s, m) \o w = Rest(s \o w, m)
<1> DEFINE S == s \o w
           a == Rest(s, m)
           b == Rest(S, m)
           c == a \o w
<1>0. Len(s) \in Nat /\ Len(w) \in Nat
  OBVIOUS
<1>1. a \in Seq(Nat) /\ Len(a) = Len(s) - m
      /\ \A k \in 1 .. Len(s) - m : a[k] = s[m + k]
  BY RestFacts
<1>2. /\ S \in Seq(Nat) /\ Len(S) = Len(s) + Len(w)
      /\ \A k \in 1 .. Len(s) + Len(w) :
            S[k] = IF k <= Len(s) THEN s[k] ELSE w[k - Len(s)]
  BY BothFacts
<1> HIDE DEF S, a
<1>3. b \in Seq(Nat) /\ Len(b) = Len(S) - m
      /\ \A k \in 1 .. Len(S) - m : b[k] = S[m + k]
  <2>1. m \in 0 .. Len(S)
    BY <1>0, <1>2
  <2> QED BY <1>2, <2>1, RestFacts
<1>4. /\ c \in Seq(Nat) /\ Len(c) = Len(a) + Len(w)
      /\ \A k \in 1 .. Len(a) + Len(w) :
            c[k] = IF k <= Len(a) THEN a[k] ELSE w[k - Len(a)]
  BY <1>1, BothFacts
<1> HIDE DEF b, c
<1>5. Len(c) = Len(b)
  BY <1>0, <1>1, <1>2, <1>3, <1>4
<1>6. ASSUME NEW k \in 1 .. Len(c) PROVE c[k] = b[k]
  <2>0. /\ k \in 1 .. Len(a) + Len(w) /\ k \in 1 .. Len(S) - m
        /\ m + k \in 1 .. Len(s) + Len(w)
        /\ k <= Len(a) <=> m + k <= Len(s)
        /\ k - Len(a) = m + k - Len(s)
        /\ k <= Len(a) => k \in 1 .. Len(s) - m
    BY <1>0, <1>1, <1>2, <1>4
  <2>1. b[k] = IF m + k <= Len(s) THEN s[m + k] ELSE w[m + k - Len(s)]
    <3>1. b[k] = S[m + k]
      BY <1>3, <2>0
    <3>2. S[m + k] = IF m + k <= Len(s) THEN s[m + k] ELSE w[m + k - Len(s)]
      <4> DEFINE q == m + k
      <4>1. q \in 1 .. Len(s) + Len(w)
        BY <2>0
      <4> HIDE DEF q
      <4>2. S[q] = IF q <= Len(s) THEN s[q] ELSE w[q - Len(s)]
        BY <1>2, <4>1
      <4> QED BY <4>2 DEF q
    <3> QED BY <3>1, <3>2
  <2>2. c[k] = IF k <= Len(a) THEN a[k] ELSE w[k - Len(a)]
    BY <1>4, <2>0
  <2>3. k <= Len(a) => a[k] = s[m + k]
    BY <1>1, <2>0
  <2>4. CASE k <= Len(a)
    <3>1. c[k] = s[m + k] /\ b[k] = s[m + k]
      BY <2>0, <2>1, <2>2, <2>3, <2>4, Zenon
    <3> QED BY <3>1
  <2>5. CASE ~ (k <= Len(a))
    <3>1. c[k] = w[k - Len(a)] /\ b[k] = w[m + k - Len(s)]
      BY <2>0, <2>1, <2>2, <2>5, Zenon
    <3> QED BY <2>0, <3>1, Zenon
  <2> QED BY <2>4, <2>5
<1>7. c = b
  BY <1>3, <1>4, <1>5, <1>6, SeqEqual
<1> QED BY <1>7 DEF a, b, c, S

(* The zeros skipped are those in front. *)
LEMMA SkippedFacts ==
    ASSUME src \in Seq(Nat)
    PROVE  \E m \in 0 .. Len(src) :
              /\ Skipped = Rest(src, m)
              /\ \A k \in 1 .. m : src[k] = 0
              /\ m < Len(src) => src[m + 1] # 0
<1> DEFINE I == {i \in 1 .. Len(src) : src[i] # 0}
<1>1. SelectInSeq(src, LAMBDA x : x # 0) = IF I # {} THEN Min(I) ELSE 0
  BY DEF SelectInSeq
<1>2. CASE I = {}
  <2>1. Skipped = <<>>
    BY <1>1, <1>2 DEF Skipped
  <2>2. Rest(src, Len(src)) = <<>>
    BY DEF Rest
  <2>3. \A k \in 1 .. Len(src) : src[k] = 0
    BY <1>2
  <2> QED BY <2>1, <2>2, <2>3
<1>3. CASE I # {}
  <2>0. I \in SUBSET Nat
    OBVIOUS
  <2>1. \E x \in I : \A y \in I : x <= y
    <3> HIDE DEF I
    <3> QED BY <1>3, <2>0, LeastElement
  <2>2. Min(I) \in I /\ \A y \in I : Min(I) <= y
    BY <2>1 DEF Min
  <2> DEFINE m == Min(I) - 1
  <2>3. m \in 0 .. Len(src) - 1 /\ m + 1 = Min(I)
    BY <2>2
  <2>4. Skipped = Rest(src, m)
    BY <1>1, <1>3, <2>2 DEF Skipped
  <2>5. \A k \in 1 .. m : src[k] = 0
    <3> TAKE k \in 1 .. m
    <3>1. k \in 1 .. Len(src) /\ ~ (Min(I) <= k)
      BY <2>2
    <3> QED BY <2>2, <3>1
  <2>6. src[m + 1] # 0
    BY <2>2, <2>3
  <2>7. m \in 0 .. Len(src)
    BY <2>3
  <2> HIDE DEF m, I
  <2> QED BY <2>4, <2>5, <2>6, <2>7
<1> QED BY <1>2, <1>3
-----------------------------------------------------------------------------
(* Where the frames are in the bytes not decoded *)

(* What the decoder has in front of it, and the frames it did not return. *)
Undecoded == src \o wire
Unreturned == Len(decoded) + 1 .. Len(sent)

(* Each frame that was not returned is there, from its place on.          *)
Placed(pos) ==
    /\ pos \in [Unreturned -> Nat]
    /\ \A i \in Unreturned :
        /\ pos[i] + Len(sent[i]) <= Len(Undecoded)
        /\ \A k \in 1 .. Len(sent[i]) : Undecoded[pos[i] + k] = sent[i][k]

(* Length-prefixed frames follow each other with nothing but zeros between. *)
Apart(pos) ==
    \A i, j \in Unreturned : i < j => pos[i] + Len(sent[i]) <= pos[j]
ZerosBetween(pos) ==
    \A q \in 1 .. Len(Undecoded) : Undecoded[q] # 0 =>
        \E i \in Unreturned : q \in pos[i] + 1 .. pos[i] + Len(sent[i])

(* A device that fills packets begins each frame with a packet.           *)
InPackets(pos) ==
    /\ Len(Undecoded) = PeerPacket * (Len(sent) - Len(decoded))
    /\ \A i \in Unreturned : pos[i] = PeerPacket * (i - Len(decoded) - 1)

Types ==
    /\ peer \in Peers
    /\ sent \in Seq(peer.frames) /\ Len(sent) <= MaxSent
    /\ wire \in Seq(Nat) /\ src \in Seq(Nat) /\ decoded \in Seq(Seq(Nat))
    /\ small \in BOOLEAN /\ readable \in BOOLEAN

(* A client that never reads a packet's worth leaves the packet mode with  *)
(* its first read.                                                         *)
PrefixedInv ==
    /\ Prefixed(peer)
    /\ ~peer.server /\ ~small =>
        Len(src) < PACKET /\ (~readable => src = <<>>)
    /\ fixed = 0
    /\ \E pos : Placed(pos) /\ Apart(pos) /\ ZerosBetween(pos)

(* A packet device never leaves it, and the buffer holds whole packets.    *)
PacketInv ==
    /\ PacketFilled(peer)
    /\ ~small
    /\ \/ fixed = PeerPacket
       \/ fixed = 0 /\ ~readable /\ src = <<>>
       \/ fixed = 0 /\ readable /\ Len(src) \in
              {PeerPacket, 2 * PeerPacket, 4 * PeerPacket}
    /\ \E n \in Nat : Len(src) = PeerPacket * n
    /\ \E pos : Placed(pos) /\ InPackets(pos)

(* The inductive invariant. *)
CodecInv ==
    /\ Types /\ panicked = FALSE /\ FramesAsSent
    /\ PrefixedInv \/ PacketInv

(* What is known of a frame. *)
LEMMA FrameFacts ==
    ASSUME NEW p \in Peers, Framed(p), NEW f \in p.frames
    PROVE  /\ f \in Seq(Nat) /\ Len(f) \in Nat \ {0} /\ f[1] \in Nat \ {0}
           /\ Len(f) = f[1] + (IF p.server THEN 1 ELSE 0)
           /\ p.padding # "none" => Len(f) <= PeerPacket
<1>1. p \in Connection /\ f # <<>> /\ f[1] > 0
  BY NetCodecAssumption
<1>2. f \in Seq(Nat)
  BY <1>1 DEF Connection
<1>3. Len(f) \in Nat \ {0}
  BY <1>1, <1>2, EmptySeq, Zenon
<1>4. f[1] \in Nat
  BY <1>2, <1>3
<1> QED BY <1>1, <1>2, <1>3, <1>4 DEF Framed

LEMMA SentFacts ==
    ASSUME Types, Framed(peer), NEW i \in 1 .. Len(sent)
    PROVE  /\ sent[i] \in peer.frames
           /\ sent[i] \in Seq(Nat) /\ Len(sent[i]) \in Nat \ {0}
           /\ sent[i][1] \in Nat \ {0}
           /\ Len(sent[i]) = sent[i][1] + (IF peer.server THEN 1 ELSE 0)
           /\ peer.padding # "none" => Len(sent[i]) <= PeerPacket
<1>1. sent[i] \in peer.frames
  BY DEF Types
<1> QED BY <1>1, FrameFacts DEF Types

(* And of its packet. *)
LEMMA PacketFacts ==
    ASSUME Types, Framed(peer), NEW f \in peer.frames
    PROVE  /\ Packet(f) \in Seq(Nat)
           /\ Len(Packet(f)) =
                 IF peer.padding = "none" THEN Len(f) ELSE PeerPacket
           /\ Len(f) <= Len(Packet(f))
           /\ \A k \in 1 .. Len(f) : Packet(f)[k] = f[k]
           /\ peer.padding # "junk" =>
                 \A k \in Len(f) + 1 .. Len(Packet(f)) : Packet(f)[k] = 0
<1>1. /\ f \in Seq(Nat) /\ Len(f) \in Nat \ {0}
      /\ peer.padding # "none" => Len(f) <= PeerPacket
  BY FrameFacts DEF Types
<1>2. CASE peer.padding = "none"
  BY <1>1, <1>2 DEF Packet
<1>3. CASE peer.padding # "none"
  <2> DEFINE p == [i \in 1 .. PeerPacket |->
                      IF i <= Len(f) THEN f[i] ELSE Filler]
  <2>1. Packet(f) = p
    BY <1>3 DEF Packet
  <2>2. PeerPacket \in Nat /\ Filler \in Nat
        /\ (peer.padding # "junk" => Filler = 0)
    BY NetCodecAssumption DEF Filler
  <2>3. \A i \in 1 .. PeerPacket :
            p[i] \in Nat /\ p[i] = IF i <= Len(f) THEN f[i] ELSE Filler
    BY <1>1, <2>2
  <2>4. p \in Seq(Nat) /\ Len(p) = PeerPacket
    BY <2>2, <2>3
  <2> HIDE DEF p
  <2> QED BY <1>1, <1>3, <2>1, <2>2, <2>3, <2>4
<1> QED BY <1>2, <1>3
-----------------------------------------------------------------------------
(* Sending *)

(* A frame that is sent finds its place behind the others. *)
LEMMA SendFacts ==
    ASSUME CodecInv, Supported(peer), NEW f \in peer.frames, Send(f)
    PROVE  /\ Types' /\ FramesAsSent'
           /\ Undecoded' = Undecoded \o Packet(f)
           /\ sent' \in Seq(peer.frames) /\ Len(sent') = Len(sent) + 1
           /\ Unreturned' = Unreturned \cup {Len(sent) + 1}
           /\ \A i \in Unreturned : sent'[i] = sent[i]
           /\ sent'[Len(sent) + 1] = f
<1> USE DEF CodecInv, Send
<1>1. Packet(f) \in Seq(Nat)
  BY PacketFacts DEF Supported
<1>2. Undecoded' = Undecoded \o Packet(f)
  <2>1. src' = src /\ wire' = wire \o Packet(f)
    BY DEF codec
  <2>2. src \in Seq(Nat) /\ wire \in Seq(Nat)
    BY DEF Types
  <2>3. src \o (wire \o Packet(f)) = (src \o wire) \o Packet(f)
    BY <1>1, <2>2, Associative
  <2> QED BY <2>1, <2>3, Zenon DEF Undecoded
<1>3. Types'
  BY <1>1, NetCodecAssumption DEF Types, codec
<1>4. /\ sent' \in Seq(peer.frames) /\ Len(sent') = Len(sent) + 1
      /\ \A i \in 1 .. Len(sent) : sent'[i] = sent[i]
      /\ sent'[Len(sent) + 1] = f
  BY DEF Types
<1>5. Len(decoded) \in Nat /\ Len(decoded) <= Len(sent)
  BY DEF Types, FramesAsSent, IsPrefix
<1>6. Unreturned' = Unreturned \cup {Len(sent) + 1}
  BY <1>4, <1>5 DEF Unreturned, codec, Types
<1>7. FramesAsSent'
  BY <1>4, <1>5 DEF FramesAsSent, IsPrefix, codec, Types
<1> QED BY <1>2, <1>3, <1>4, <1>5, <1>6, <1>7 DEF Unreturned

(* A frame that is sent finds its place behind the others. *)
LEMMA SendPlaces ==
    ASSUME CodecInv, Supported(peer), NEW f \in peer.frames, Send(f),
           NEW pos, Placed(pos),
           NEW new, new = [i \in Unreturned \cup {Len(sent) + 1} |->
                            IF i \in Unreturned THEN pos[i] ELSE Len(Undecoded)]
    PROVE  /\ Placed(new)'
           /\ \A i \in Unreturned : new[i] = pos[i]
           /\ new[Len(sent) + 1] = Len(Undecoded)
           /\ Len(sent) + 1 \notin Unreturned
<1> DEFINE U == Undecoded
           P == Packet(f)
           V == U \o P
           last == Len(sent) + 1
<1>1. U \in Seq(Nat) /\ Len(U) \in Nat
  BY DEF CodecInv, Types, Undecoded
<1>2. /\ P \in Seq(Nat) /\ Len(f) <= Len(P)
      /\ \A k \in 1 .. Len(f) : P[k] = f[k]
  BY PacketFacts DEF CodecInv, Supported
<1>3. f \in Seq(Nat) /\ Len(f) \in Nat /\ Len(P) \in Nat
  BY <1>2, FrameFacts DEF CodecInv, Supported, Types
<1>4. /\ V \in Seq(Nat) /\ Len(V) = Len(U) + Len(P)
      /\ \A k \in 1 .. Len(U) : V[k] = U[k]
      /\ \A k \in 1 .. Len(P) : V[Len(U) + k] = P[k]
  BY <1>1, <1>2, AfterFacts
<1>5. /\ Undecoded' = V /\ Unreturned' = Unreturned \cup {last}
      /\ \A i \in Unreturned : sent'[i] = sent[i]
      /\ sent'[last] = f
  BY SendFacts
<1>6. last \notin Unreturned /\ Len(sent) \in Nat
  BY DEF Unreturned, CodecInv, Types
<1>7. /\ pos \in [Unreturned -> Nat]
      /\ \A i \in Unreturned :
          /\ pos[i] + Len(sent[i]) <= Len(U)
          /\ \A k \in 1 .. Len(sent[i]) : U[pos[i] + k] = sent[i][k]
  BY DEF Placed
<1> HIDE DEF U, P, V
<1>8. /\ new \in [Unreturned \cup {last} -> Nat]
      /\ \A i \in Unreturned : new[i] = pos[i]
      /\ new[last] = Len(U)
  <2> HIDE DEF last
  <2>1. new = [i \in Unreturned \cup {last} |->
                 IF i \in Unreturned THEN pos[i] ELSE Len(U)]
    BY DEF last, U
  <2> QED BY <1>1, <1>6, <1>7, <2>1
<1> HIDE DEF last
<1>9. ASSUME NEW i \in Unreturned \cup {last}
      PROVE  /\ new[i] + Len(sent'[i]) <= Len(V)
             /\ \A k \in 1 .. Len(sent'[i]) : V[new[i] + k] = sent'[i][k]
  <2>1. CASE i \in Unreturned
    <3>1. pos[i] \in Nat /\ new[i] = pos[i] /\ sent'[i] = sent[i]
      BY <1>5, <1>7, <1>8, <2>1
    <3>2. Len(sent[i]) \in Nat
      <4>1. i \in 1 .. Len(sent)
        BY <2>1 DEF Unreturned, CodecInv, Types
      <4> QED BY <4>1, SentFacts DEF CodecInv, Supported
    <3>3. pos[i] + Len(sent[i]) <= Len(U)
      BY <1>7, <2>1
    <3>4. ASSUME NEW k \in 1 .. Len(sent[i])
          PROVE  V[pos[i] + k] = sent[i][k]
      <4>1. pos[i] + k \in 1 .. Len(U)
        BY <1>1, <3>1, <3>2, <3>3
      <4>2. V[pos[i] + k] = U[pos[i] + k]
        BY <1>4, <4>1
      <4> QED BY <1>7, <2>1, <4>2
    <3>5. pos[i] + Len(sent[i]) <= Len(V)
      BY <1>1, <1>3, <1>4, <3>1, <3>2, <3>3
    <3> QED BY <3>1, <3>4, <3>5, Zenon
  <2>2. CASE i = last
    <3>1. new[i] = Len(U) /\ sent'[i] = f
      BY <1>5, <1>8, <2>2
    <3>2. ASSUME NEW k \in 1 .. Len(f) PROVE V[Len(U) + k] = f[k]
      <4>1. k \in 1 .. Len(P) /\ P[k] = f[k]
        BY <1>2, <1>3
      <4> QED BY <1>4, <4>1
    <3>3. Len(U) + Len(f) <= Len(V)
      BY <1>1, <1>2, <1>3, <1>4
    <3> QED BY <3>1, <3>2, <3>3, Zenon
  <2> QED BY <2>1, <2>2
<1>10. Placed(new)'
  BY <1>5, <1>8, <1>9 DEF Placed
<1> QED BY <1>6, <1>8, <1>10 DEF last, U

LEMMA SendPrefixed ==
    ASSUME CodecInv, Supported(peer), NEW f \in peer.frames, Send(f),
           PrefixedInv
    PROVE  PrefixedInv'
<1> DEFINE U == Undecoded
           P == Packet(f)
           V == U \o P
           last == Len(sent) + 1
<1>1. PICK pos : Placed(pos) /\ Apart(pos) /\ ZerosBetween(pos)
  BY DEF PrefixedInv
<1>2. PICK new : new = [i \in Unreturned \cup {last} |->
                         IF i \in Unreturned THEN pos[i] ELSE Len(U)]
  OBVIOUS
<1>3. /\ Placed(new)'
      /\ \A i \in Unreturned : new[i] = pos[i]
      /\ new[last] = Len(U)
      /\ last \notin Unreturned
  BY <1>1, <1>2, SendPlaces
<1>4. U \in Seq(Nat) /\ Len(U) \in Nat
  BY DEF CodecInv, Types, Undecoded
<1>5. /\ P \in Seq(Nat)
      /\ \A k \in Len(f) + 1 .. Len(P) : P[k] = 0
  BY PacketFacts DEF CodecInv, Supported, PrefixedInv, Prefixed
<1>6. Len(f) \in Nat /\ Len(P) \in Nat
  BY <1>5, FrameFacts DEF CodecInv, Supported, Types
<1>7. /\ Len(V) = Len(U) + Len(P)
      /\ \A k \in 1 .. Len(U) : V[k] = U[k]
      /\ \A k \in Len(U) + 1 .. Len(U) + Len(P) :
            k - Len(U) \in 1 .. Len(P) /\ V[k] = P[k - Len(U)]
  BY <1>4, <1>5, AfterFacts
<1>8. /\ Undecoded' = V /\ Unreturned' = Unreturned \cup {last}
      /\ \A i \in Unreturned : sent'[i] = sent[i]
      /\ sent'[last] = f
  BY SendFacts
<1>9. \A i \in Unreturned : i \in Int /\ i < last
  BY DEF Unreturned, CodecInv, Types
<1>10. \A i \in Unreturned : pos[i] + Len(sent[i]) <= Len(U)
  BY <1>1 DEF Placed
<1>11. last \in Int
  BY DEF CodecInv, Types
<1>12. Apart(pos) /\ ZerosBetween(pos)
  BY <1>1
<1> HIDE DEF U, P, V, last
<1>13. Apart(new)'
  <2> SUFFICES ASSUME NEW i \in Unreturned \cup {last},
                      NEW j \in Unreturned \cup {last}, i < j
               PROVE  new[i] + Len(sent'[i]) <= new[j]
    BY <1>8 DEF Apart
  <2>1. i \in Unreturned
    BY <1>9, <1>11
  <2>2. new[i] = pos[i] /\ sent'[i] = sent[i]
    BY <1>3, <1>8, <2>1
  <2>3. CASE j = last
    BY <1>3, <1>10, <2>1, <2>2, <2>3
  <2>4. CASE j \in Unreturned
    BY <1>3, <1>12, <2>1, <2>2, <2>4 DEF Apart
  <2> QED BY <2>3, <2>4
<1>14. ZerosBetween(new)'
  <2> SUFFICES ASSUME NEW q \in 1 .. Len(V), V[q] # 0
               PROVE  \E i \in Unreturned \cup {last} :
                         q \in new[i] + 1 .. new[i] + Len(sent'[i])
    BY <1>8 DEF ZerosBetween
  <2>1. CASE q \in 1 .. Len(U)
    <3>1. U[q] # 0
      BY <1>7, <2>1
    <3>2. PICK i \in Unreturned : q \in pos[i] + 1 .. pos[i] + Len(sent[i])
      BY <1>12, <2>1, <3>1 DEF ZerosBetween, U
    <3>3. new[i] = pos[i] /\ sent'[i] = sent[i]
      BY <1>3, <1>8
    <3> QED BY <3>2, <3>3
  <2>2. CASE q \notin 1 .. Len(U)
    <3>1. q \in Len(U) + 1 .. Len(U) + Len(P)
      BY <1>4, <1>6, <1>7, <2>2
    <3>2. P[q - Len(U)] # 0 /\ q - Len(U) \in 1 .. Len(P)
      BY <1>7, <3>1
    <3>3. q - Len(U) <= Len(f)
      <4>1. q - Len(U) \notin Len(f) + 1 .. Len(P)
        BY <1>5, <3>2
      <4> QED BY <1>4, <1>6, <3>2, <4>1
    <3>4. q \in Len(U) + 1 .. Len(U) + Len(f)
      BY <1>4, <1>6, <3>1, <3>3
    <3> QED BY <1>3, <1>8, <3>4
  <2> QED BY <2>1, <2>2
<1>15. UNCHANGED <<peer, small, src, readable, fixed>>
  BY DEF Send, codec
<1>16. Prefixed(peer)'
  BY <1>15 DEF PrefixedInv, Prefixed
<1> QED BY <1>3, <1>13, <1>14, <1>15, <1>16 DEF PrefixedInv

(* With p packets of n bytes, one packet more. *)
LEMMA OneMore ==
    ASSUME NEW n \in Int, NEW p \in Int
    PROVE  /\ n * p + n = n * (p + 1) /\ n * p - n = n * (p - 1)
           /\ n * p + 2 * n = n * (p + 2) /\ n * p + 4 * n = n * (p + 4)
           /\ n * p \in Int
  OBVIOUS

LEMMA SendPackets ==
    ASSUME CodecInv, Supported(peer), NEW f \in peer.frames, Send(f),
           PacketInv
    PROVE  PacketInv'
<1> DEFINE U == Undecoded
           P == Packet(f)
           last == Len(sent) + 1
           many == Len(sent) - Len(decoded)
<1>1. PICK pos : Placed(pos) /\ InPackets(pos)
  BY DEF PacketInv
<1>2. PICK new : new = [i \in Unreturned \cup {last} |->
                         IF i \in Unreturned THEN pos[i] ELSE Len(U)]
  OBVIOUS
<1>3. /\ Placed(new)'
      /\ \A i \in Unreturned : new[i] = pos[i]
      /\ new[last] = Len(U)
  BY <1>1, <1>2, SendPlaces
<1>4. U \in Seq(Nat)
  BY DEF CodecInv, Types, Undecoded
<1>5. P \in Seq(Nat) /\ Len(P) = PeerPacket
  BY PacketFacts DEF CodecInv, Supported, PacketInv, PacketFilled
<1>6. Len(U \o P) = Len(U) + PeerPacket
  BY <1>4, <1>5
<1>7. /\ Undecoded' = U \o P /\ Unreturned' = Unreturned \cup {last}
      /\ Len(sent') = Len(sent) + 1
  BY SendFacts
<1>8. UNCHANGED <<peer, small, src, readable, fixed, decoded>>
  BY DEF Send, codec
<1>9. Len(sent) \in Nat /\ Len(decoded) \in Nat /\ PeerPacket \in Nat
  BY NetCodecAssumption DEF CodecInv, Types
<1>10. /\ Len(U) = PeerPacket * many
       /\ \A i \in Unreturned : pos[i] = PeerPacket * (i - Len(decoded) - 1)
  BY <1>1 DEF InPackets
<1>11. PeerPacket * many + PeerPacket = PeerPacket * (many + 1)
  BY <1>9, OneMore
<1>12. /\ many + 1 = Len(sent') - Len(decoded)
       /\ many = last - Len(decoded) - 1
  BY <1>7, <1>9
<1> HIDE DEF U, P, many
<1>13. InPackets(new)'
  <2>1. Len(Undecoded') = PeerPacket * (Len(sent') - Len(decoded))
    BY <1>6, <1>7, <1>10, <1>11, <1>12
  <2>2. \A i \in Unreturned' : new[i] = PeerPacket * (i - Len(decoded) - 1)
    BY <1>3, <1>7, <1>10, <1>12
  <2> QED BY <1>8, <2>1, <2>2 DEF InPackets
<1>14. PacketFilled(peer)'
  BY <1>8 DEF PacketInv, PacketFilled
<1> QED BY <1>3, <1>8, <1>13, <1>14 DEF PacketInv

-----------------------------------------------------------------------------
(* Reading *)

LEMMA ReadFacts ==
    ASSUME CodecInv, Supported(peer), NEW n \in peer.reads, Read(n)
    PROVE  /\ Types' /\ FramesAsSent'
           /\ Undecoded' = Undecoded
           /\ Len(src') = Len(src) + n /\ n \in Nat \ {0}
           /\ UNCHANGED <<peer, sent, small, fixed, decoded, panicked>>
           /\ ~readable /\ readable'
<1>1. n \in Nat \ {0} /\ n \in 0 .. Len(wire)
  BY NetCodecAssumption DEF CodecInv, Types, Connection, Read
<1>2. src \in Seq(Nat) /\ wire \in Seq(Nat)
  BY DEF CodecInv, Types
<1>3. Undecoded' = Undecoded
  BY <1>1, <1>2, Moved DEF Read, Undecoded, Rest
<1>4. SubSeq(wire, 1, n) \in Seq(Nat) /\ Len(SubSeq(wire, 1, n)) = n
  BY <1>1, <1>2
<1>5. src' \in Seq(Nat) /\ Len(src') = Len(src) + n
  BY <1>2, <1>4 DEF Read
<1>6. wire' \in Seq(Nat)
  BY <1>1, <1>2, RestFacts DEF Read, Rest
<1>7. Types'
  BY <1>5, <1>6 DEF CodecInv, Types, Read
<1> QED BY <1>1, <1>3, <1>5, <1>7
        DEF Read, CodecInv, FramesAsSent, IsPrefix

LEMMA ReadPrefixed ==
    ASSUME CodecInv, Supported(peer), NEW n \in peer.reads, Read(n),
           PrefixedInv
    PROVE  PrefixedInv'
<1>1. PICK pos : Placed(pos) /\ Apart(pos) /\ ZerosBetween(pos)
  BY DEF PrefixedInv
<1>2. Placed(pos)' /\ Apart(pos)' /\ ZerosBetween(pos)'
  <2>1. Undecoded' = Undecoded /\ sent' = sent /\ decoded' = decoded
    BY ReadFacts
  <2> QED BY <1>1, <2>1
          DEF Placed, Apart, ZerosBetween, InPackets, Unreturned
<1>3. Prefixed(peer)'
  BY ReadFacts DEF PrefixedInv, Prefixed
<1>4. (~peer.server /\ ~small =>
          Len(src) < PACKET /\ (~readable => src = <<>>))'
  <2> SUFFICES ASSUME ~peer.server, ~small PROVE Len(src') < PACKET /\ readable'
    BY ReadFacts
  <2>1. src = <<>> /\ n < PACKET
    BY ReadFacts DEF PrefixedInv, Prefixed
  <2>2. Len(src) = 0
    BY <2>1, EmptySeq, Zenon
  <2> QED BY <2>1, <2>2, ReadFacts
<1> QED BY <1>2, <1>3, <1>4, ReadFacts DEF PrefixedInv

LEMMA ReadPackets ==
    ASSUME CodecInv, Supported(peer), NEW n \in peer.reads, Read(n),
           PacketInv
    PROVE  PacketInv'
<1>1. PICK pos : Placed(pos) /\ InPackets(pos)
  BY DEF PacketInv
<1>2. Placed(pos)' /\ InPackets(pos)'
  <2>1. Undecoded' = Undecoded /\ sent' = sent /\ decoded' = decoded
    BY ReadFacts
  <2>2. peer' = peer
    BY ReadFacts
  <2> QED BY <1>1, <2>1, <2>2 DEF Placed, InPackets, Unreturned
<1>3. PacketFilled(peer)'
  BY ReadFacts DEF PacketInv, PacketFilled
<1>4. n \in {PeerPacket, 2 * PeerPacket, 4 * PeerPacket}
  BY DEF PacketInv, PacketFilled
<1>5. Len(src') = Len(src) + n /\ Len(src) \in Nat /\ PeerPacket \in Nat
  <2>1. Len(src') = Len(src) + n
    BY ReadFacts
  <2>2. Len(src) \in Nat
    BY DEF CodecInv, Types
  <2> QED BY <2>1, <2>2, NetCodecAssumption
<1>6. \E m \in Nat : Len(src') = PeerPacket * m
  <2>1. PICK m \in Nat : Len(src) = PeerPacket * m
    BY DEF PacketInv
  <2>2. /\ PeerPacket * m + PeerPacket = PeerPacket * (m + 1)
        /\ PeerPacket * m + 2 * PeerPacket = PeerPacket * (m + 2)
        /\ PeerPacket * m + 4 * PeerPacket = PeerPacket * (m + 4)
    BY <1>5, OneMore
  <2>3. Len(src') \in {PeerPacket * (m + 1), PeerPacket * (m + 2),
                       PeerPacket * (m + 4)}
    BY <1>4, <1>5, <2>1, <2>2
  <2> QED BY <2>3
<1>7. fixed = 0 => Len(src') = n
  <2> SUFFICES ASSUME fixed = 0 PROVE Len(src) = 0
    BY <1>4, <1>5
  <2>1. src = <<>>
    BY ReadFacts, NetCodecAssumption DEF PacketInv, PacketFilled
  <2> QED BY <2>1, EmptySeq, Zenon
<1> QED BY <1>2, <1>3, <1>4, <1>6, <1>7, ReadFacts DEF PacketInv

-----------------------------------------------------------------------------
(* Decoding *)

(* What is dropped from the front moves the places of the frames behind.  *)
LEMMA DropPlaces ==
    ASSUME CodecInv, Supported(peer), NEW m \in 0 .. Len(src),
           src' = Rest(src, m), wire' = wire, peer' = peer, sent' = sent,
           Unreturned' \subseteq Unreturned,
           NEW pos, Placed(pos), \A i \in Unreturned' : m <= pos[i],
           NEW new, new = [i \in Unreturned' |-> pos[i] - m]
    PROVE  /\ Undecoded' = Rest(Undecoded, m) /\ m \in 0 .. Len(Undecoded)
           /\ Placed(new)' /\ \A i \in Unreturned' : new[i] = pos[i] - m
<1> DEFINE U == Undecoded
           V == Rest(U, m)
<1>1. src \in Seq(Nat) /\ wire \in Seq(Nat) /\ Len(src) \in Nat
  BY DEF CodecInv, Types
<1>2. U \in Seq(Nat) /\ Len(U) = Len(src) + Len(wire) /\ Len(U) \in Nat
  BY <1>1, BothFacts DEF Undecoded
<1>3. Undecoded' = V
  BY <1>1, RestOfBoth DEF Undecoded
<1>4. Len(wire) \in Nat
  BY <1>1
<1> HIDE DEF U
<1>5. m \in 0 .. Len(U)
  BY <1>1, <1>2, <1>4
<1>6. /\ V \in Seq(Nat) /\ Len(V) = Len(U) - m
      /\ \A k \in 1 .. Len(U) - m : V[k] = U[m + k]
  BY <1>2, <1>5, RestFacts
<1> HIDE DEF V
<1>7. /\ pos \in [Unreturned -> Nat]
      /\ \A i \in Unreturned :
          /\ pos[i] + Len(sent[i]) <= Len(U)
          /\ \A k \in 1 .. Len(sent[i]) : U[pos[i] + k] = sent[i][k]
  BY DEF Placed, U
<1>8. \A i \in Unreturned' : pos[i] \in Nat /\ pos[i] - m \in Nat
  BY <1>5, <1>7
<1>9. new \in [Unreturned' -> Nat] /\ \A i \in Unreturned' : new[i] = pos[i] - m
  BY <1>8
<1>10. ASSUME NEW i \in Unreturned'
       PROVE  /\ new[i] + Len(sent[i]) <= Len(V)
              /\ \A k \in 1 .. Len(sent[i]) : V[new[i] + k] = sent[i][k]
  <2>1. Len(sent[i]) \in Nat
    <3>1. i \in 1 .. Len(sent)
      BY DEF Unreturned, CodecInv, Types
    <3> QED BY <3>1, SentFacts DEF CodecInv, Supported
  <2>2. pos[i] + Len(sent[i]) <= Len(U)
    BY <1>7
  <2>5. new[i] = pos[i] - m /\ pos[i] \in Nat /\ pos[i] - m \in Nat
    BY <1>8, <1>9
  <2>3. new[i] + Len(sent[i]) <= Len(V)
    BY <1>2, <1>5, <1>6, <1>8, <1>9, <2>1, <2>2, SMTT(20)
  <2>4. ASSUME NEW k \in 1 .. Len(sent[i]) PROVE V[new[i] + k] = sent[i][k]
    <3>1. U[pos[i] + k] = sent[i][k]
      BY <1>7
    <3> DEFINE j == new[i] + k
    <3>2. j \in 1 .. Len(U) - m /\ m + j = pos[i] + k
      <4>1. m \in Nat /\ Len(U) \in Nat /\ k \in Nat /\ 1 <= k
            /\ k <= Len(sent[i])
        BY <1>2, <1>5, <2>1
      <4>2. m + j = pos[i] + k /\ j \in Nat /\ 1 <= j
        BY <2>5, <4>1, SMTT(20)
      <4>3. m + j <= Len(U)
        <5> DEFINE a == pos[i]
                   l == Len(sent[i])
        <5>1. a \in Nat /\ l \in Nat /\ a + l <= Len(U) /\ k <= l
              /\ m + j = a + k
          BY <2>1, <2>2, <2>5, <4>1, <4>2
        <5> HIDE DEF a, l, j
        <5> QED BY <4>1, <5>1
      <4> HIDE DEF j
      <4> QED BY <4>1, <4>2, <4>3
    <3> HIDE DEF j
    <3>3. V[j] = U[m + j]
      BY <1>6, <3>2
    <3> QED BY <3>1, <3>2, <3>3 DEF j
  <2> QED BY <2>3, <2>4
<1>11. Placed(new)'
  BY <1>3, <1>9, <1>10 DEF Placed
<1> QED BY <1>3, <1>5, <1>9, <1>11 DEF U, V

(* The next frame comes out. *)
LEMMA NextFrame ==
    ASSUME CodecInv, Supported(peer), 1 + Len(decoded) <= Len(sent),
           sent' = sent, decoded' = Append(decoded, sent[1 + Len(decoded)])
    PROVE  /\ FramesAsSent' /\ decoded' \in Seq(Seq(Nat))
           /\ Len(decoded') = Len(decoded) + 1
           /\ Unreturned' = Unreturned \ {1 + Len(decoded)}
<1> DEFINE n == 1 + Len(decoded)
<1>1. Len(sent) \in Nat /\ Len(decoded) \in Nat /\ n \in 1 .. Len(sent)
  BY DEF CodecInv, Types
<1>2. sent[n] \in Seq(Nat)
  BY <1>1, SentFacts DEF CodecInv, Supported
<1>3. /\ decoded' \in Seq(Seq(Nat)) /\ Len(decoded') = Len(decoded) + 1
      /\ \A i \in 1 .. Len(decoded) : decoded'[i] = decoded[i]
      /\ decoded'[n] = sent[n]
  BY <1>2, AppendProperties DEF CodecInv, Types
<1>4. Unreturned' = Unreturned \ {n}
  BY <1>1, <1>3 DEF Unreturned
<1>5. \A i \in 1 .. Len(decoded) : decoded[i] = sent[i]
  BY <1>1 DEF CodecInv, Types, FramesAsSent, IsPrefix
<1>6. \A i \in 1 .. Len(decoded') : decoded'[i] = sent[i]
  BY <1>1, <1>3, <1>5
<1>7. FramesAsSent'
  BY <1>1, <1>3, <1>6 DEF CodecInv, Types, FramesAsSent, IsPrefix
<1> QED BY <1>3, <1>4, <1>7

LEMMA RestTwice ==
    ASSUME NEW s \in Seq(Nat), NEW m \in 0 .. Len(s), NEW n \in 0 .. Len(s) - m
    PROVE  Rest(Rest(s, m), n) = Rest(s, m + n)
<1> DEFINE a == Rest(s, m)
           b == Rest(a, n)
           c == Rest(s, m + n)
<1>1. a \in Seq(Nat) /\ Len(a) = Len(s) - m
      /\ \A k \in 1 .. Len(s) - m : a[k] = s[m + k]
  BY RestFacts
<1>2. m + n \in 0 .. Len(s)
  OBVIOUS
<1>3. c \in Seq(Nat) /\ Len(c) = Len(s) - (m + n)
      /\ \A k \in 1 .. Len(s) - (m + n) : c[k] = s[m + n + k]
  BY <1>2, RestFacts
<1> HIDE DEF a
<1>4. b \in Seq(Nat) /\ Len(b) = Len(a) - n
      /\ \A k \in 1 .. Len(a) - n : b[k] = a[n + k]
  BY <1>1, RestFacts
<1> HIDE DEF b, c
<1>5. Len(b) = Len(c) /\ Len(b) = Len(s) - m - n /\ Len(s) \in Nat
  BY <1>1, <1>3, <1>4
<1>6. ASSUME NEW k \in 1 .. Len(b) PROVE b[k] = c[k]
  <2>1. k \in 1 .. Len(a) - n /\ k \in 1 .. Len(s) - (m + n)
    BY <1>1, <1>5
  <2> DEFINE j == n + k
  <2>2. j \in 1 .. Len(s) - m /\ m + j = m + n + k
    BY <1>5
  <2> HIDE DEF j
  <2>3. b[k] = a[j]
    BY <1>4, <2>1 DEF j
  <2>4. a[j] = s[m + j]
    BY <1>1, <2>2
  <2>5. c[k] = s[m + n + k]
    BY <1>3, <2>1
  <2> QED BY <2>2, <2>3, <2>4, <2>5
<1>7. b = c
  BY <1>3, <1>4, <1>5, <1>6, SeqEqual
<1> QED BY <1>7 DEF a, b, c

(* What is dropped of length-prefixed frames is zeros or a whole frame.   *)
LEMMA DropPrefixed ==
    ASSUME CodecInv, Supported(peer), NEW m \in 0 .. Len(src),
           src' = Rest(src, m), wire' = wire, peer' = peer, sent' = sent,
           Unreturned' \subseteq Unreturned,
           NEW pos, Placed(pos), Apart(pos), ZerosBetween(pos),
           \A i \in Unreturned' : m <= pos[i],
           \A i \in Unreturned \ Unreturned' : pos[i] + Len(sent[i]) <= m
    PROVE  \E new : Placed(new)' /\ Apart(new)' /\ ZerosBetween(new)'
<1> DEFINE U == Undecoded
           V == Rest(U, m)
<1>1. PICK new : new = [i \in Unreturned' |-> pos[i] - m]
  OBVIOUS
<1>2. /\ Undecoded' = V /\ m \in 0 .. Len(U)
      /\ Placed(new)' /\ \A i \in Unreturned' : new[i] = pos[i] - m
  BY <1>1, DropPlaces
<1>3. U \in Seq(Nat)
  BY DEF CodecInv, Types, Undecoded
<1>4. /\ Len(V) = Len(U) - m
      /\ \A k \in 1 .. Len(U) - m : V[k] = U[m + k]
  BY <1>2, <1>3, RestFacts
<1>5. Len(U) \in Nat
  BY <1>3
<1>6. ASSUME NEW i \in Unreturned
      PROVE  pos[i] \in Nat /\ Len(sent[i]) \in Nat
  <2>1. i \in 1 .. Len(sent)
    BY DEF Unreturned, CodecInv, Types
  <2> QED BY <2>1, SentFacts DEF CodecInv, Supported, Placed
<1> HIDE DEF U, V
<1>7. ASSUME NEW i \in Unreturned', NEW j \in Unreturned', i < j
      PROVE  new[i] + Len(sent[i]) <= new[j]
  <2>1. pos[i] + Len(sent[i]) <= pos[j]
    BY <1>7 DEF Apart
  <2>2. new[i] = pos[i] - m /\ new[j] = pos[j] - m
    BY <1>2
  <2>3. i \in Unreturned /\ j \in Unreturned
    OBVIOUS
  <2>4. pos[i] \in Nat /\ pos[j] \in Nat /\ Len(sent[i]) \in Nat
    BY <1>6, <2>3
  <2> QED BY <2>1, <2>2, <2>4
<1>8. Apart(new)'
  BY <1>7 DEF Apart
<1>9. ASSUME NEW q \in 1 .. Len(V), V[q] # 0
      PROVE  \E i \in Unreturned' : q \in new[i] + 1 .. new[i] + Len(sent[i])
  <2> DEFINE p == m + q
  <2>1. V[q] = U[p]
    BY <1>4
  <2>2. p \in 1 .. Len(U) /\ q \in Nat /\ 1 <= q /\ p = m + q /\ m < p
    BY <1>2, <1>4, <1>5
  <2> HIDE DEF p
  <2>3. PICK i \in Unreturned : p \in pos[i] + 1 .. pos[i] + Len(sent[i])
    BY <1>9, <2>1, <2>2 DEF ZerosBetween, U
  <2>4. pos[i] \in Nat /\ Len(sent[i]) \in Nat
    BY <1>6
  <2>5. i \in Unreturned'
    <3>1. ~ (pos[i] + Len(sent[i]) <= m)
      BY <2>2, <2>3, <2>4
    <3> QED BY <3>1
  <2>6. new[i] = pos[i] - m
    BY <1>2, <2>5
  <2>7. q \in new[i] + 1 .. new[i] + Len(sent[i])
    BY <2>2, <2>3, <2>4, <2>6
  <2> QED BY <2>5, <2>7
<1>10. ZerosBetween(new)'
  BY <1>2, <1>9 DEF ZerosBetween
<1> QED BY <1>2, <1>8, <1>10

LEMMA DecodePrefixedStep ==
    ASSUME CodecInv, Supported(peer), PrefixedInv, DecodePrefixed
    PROVE  Types' /\ FramesAsSent' /\ PrefixedInv'
<1> DEFINE U == Undecoded
           n == 1 + Len(decoded)
<1>1. PICK pos : Placed(pos) /\ Apart(pos) /\ ZerosBetween(pos)
  BY DEF PrefixedInv
<1>2. PICK m \in 0 .. Len(src) : /\ Skipped = Rest(src, m)
                                 /\ \A k \in 1 .. m : src[k] = 0
                                 /\ m < Len(src) => src[m + 1] # 0
  BY SkippedFacts DEF CodecInv, Types
<1>3. src \in Seq(Nat) /\ wire \in Seq(Nat)
      /\ Len(src) \in Nat /\ Len(wire) \in Nat
  BY DEF CodecInv, Types
<1>4. /\ U \in Seq(Nat) /\ Len(U) = Len(src) + Len(wire)
      /\ \A k \in 1 .. Len(src) : U[k] = src[k]
  BY <1>3, AfterFacts DEF Undecoded
<1> HIDE DEF U
<1>5. ASSUME NEW i \in Unreturned
      PROVE  /\ pos[i] \in Nat /\ i \in 1 .. Len(sent)
             /\ sent[i] \in Seq(Nat) /\ Len(sent[i]) \in Nat \ {0}
             /\ sent[i][1] \in Nat \ {0}
             /\ Len(sent[i]) = sent[i][1] + (IF peer.server THEN 1 ELSE 0)
             /\ pos[i] + Len(sent[i]) <= Len(U)
             /\ \A k \in 1 .. Len(sent[i]) : U[pos[i] + k] = sent[i][k]
  <2>1. i \in 1 .. Len(sent)
    BY DEF Unreturned, CodecInv, Types
  <2>2. /\ pos[i] \in Nat /\ pos[i] + Len(sent[i]) <= Len(U)
        /\ \A k \in 1 .. Len(sent[i]) : U[pos[i] + k] = sent[i][k]
    BY <1>1 DEF Placed, U
  <2> QED BY <2>1, <2>2, SentFacts DEF CodecInv, Supported
(* Zeros are skipped up to the first frame at most. *)
<1>6. ASSUME NEW i \in Unreturned PROVE m <= pos[i]
  <2> SUFFICES ASSUME ~ (m <= pos[i]) PROVE FALSE
    OBVIOUS
  <2> DEFINE q == pos[i] + 1
  <2>1. q \in 1 .. m /\ q \in 1 .. Len(src)
    BY <1>3, <1>5, SMTT(20)
  <2>2. U[q] = sent[i][1]
    BY <1>5
  <2> HIDE DEF q
  <2>3. U[q] = 0
    BY <1>2, <1>4, <2>1
  <2> QED BY <1>5, <2>2, <2>3
<1>7. UNCHANGED <<peer, sent, wire, fixed, panicked>> /\ readable
      /\ small' = (small \/ FixedMode)
      /\ ~ (FixedMode /\ Len(src) >= PACKET)
  BY DEF DecodePrefixed
<1>8. CASE ~Complete
  <2>1. src' = Rest(src, m) /\ readable' = FALSE /\ decoded' = decoded
    BY <1>2, <1>8 DEF DecodePrefixed, NeedMore
  <2>2. Unreturned' = Unreturned
    BY <1>7, <2>1 DEF Unreturned
  <2>3. \E new : Placed(new)' /\ Apart(new)' /\ ZerosBetween(new)'
    BY <1>1, <1>6, <1>7, <2>1, <2>2, DropPrefixed
  <2>4. src' \in Seq(Nat) /\ Len(src') = Len(src) - m
    BY <1>3, <2>1, RestFacts
  <2>5. Types' /\ FramesAsSent'
    BY <1>7, <2>1, <2>4 DEF CodecInv, Types, FixedMode, FramesAsSent
  <2>6. (~peer.server /\ ~small =>
            Len(src) < PACKET /\ (~readable => src = <<>>))'
    <3> SUFFICES ASSUME ~peer.server, ~small'
                 PROVE  Len(src') < PACKET /\ src' = <<>>
      BY <1>7
    <3>1. src = <<>>
      BY <1>7 DEF FixedMode
    <3>2. Len(src) = 0
      BY <3>1, EmptySeq, Zenon
    <3>3. Len(src') = 0
      <4>1. m = 0
        BY <3>2
      <4> QED BY <2>4, <3>2, <4>1
    <3>4. src' = <<>>
      BY <2>4, <3>3, EmptySeq, Zenon
    <3> QED BY <3>3, <3>4, NetCodecAssumption
  <2>7. Prefixed(peer)'
    BY <1>7 DEF PrefixedInv, Prefixed
  <2> QED BY <1>7, <2>3, <2>5, <2>6, <2>7 DEF PrefixedInv
<1>9. CASE Complete
  <2> DEFINE s == Skipped
             l == FrameLength(s)
  <2>1. /\ s \in Seq(Nat) /\ Len(s) = Len(src) - m
        /\ \A k \in 1 .. Len(src) - m : s[k] = src[m + k]
    BY <1>2, <1>3, RestFacts
  <2>2. s # <<>> /\ Len(s) >= l
    BY <1>9 DEF Complete
  <2>3. Len(s) \in Nat \ {0}
    BY <2>1, <2>2, EmptySeq, Zenon
  <2>4. m < Len(src) /\ src[m + 1] # 0 /\ s[1] = src[m + 1]
    BY <1>2, <1>3, <2>1, <2>3
  <2> DEFINE q == m + 1
  <2>5. q \in 1 .. Len(src) /\ q \in 1 .. Len(U)
    BY <1>3, <1>4, <2>4
  <2>6. U[q] = s[1] /\ U[q] # 0
    BY <1>4, <2>4, <2>5
  <2> HIDE DEF q
  <2>7. PICK i \in Unreturned : q \in pos[i] + 1 .. pos[i] + Len(sent[i])
    BY <1>1, <2>5, <2>6 DEF ZerosBetween, U
  (* It is the first of the frames not returned, and begins there. *)
  <2>8. n \in Unreturned /\ i = n
    <3>1. Len(decoded) \in Nat /\ Len(sent) \in Nat
      BY DEF CodecInv, Types
    <3>2. n \in Unreturned /\ ~ (i < n) /\ i \in Int /\ n \in Int
      BY <3>1 DEF Unreturned
    <3>3. ~ (n < i)
      <4> SUFFICES ASSUME n < i PROVE FALSE
        OBVIOUS
      <4>1. pos[n] + Len(sent[n]) <= pos[i]
        BY <1>1, <3>2 DEF Apart
      <4>2. pos[n] \in Nat /\ Len(sent[n]) \in Nat \ {0} /\ m <= pos[n]
            /\ pos[i] \in Nat
        BY <1>5, <1>6, <3>2
      <4>3. pos[i] + 1 <= q
        BY <1>5, <2>7
      <4> QED BY <4>1, <4>2, <4>3 DEF q
    <3> QED BY <3>2, <3>3
  <2>9. pos[n] = m
    <3>1. pos[n] \in Nat /\ Len(sent[n]) \in Nat /\ m <= pos[n]
      BY <1>5, <1>6, <2>8
    <3>2. pos[n] + 1 <= q
      BY <2>7, <2>8, <3>1
    <3> QED BY <3>1, <3>2 DEF q
  <2>10. /\ sent[n] \in Seq(Nat) /\ Len(sent[n]) \in Nat \ {0}
         /\ \A k \in 1 .. Len(sent[n]) : U[m + k] = sent[n][k]
         /\ Len(sent[n]) = sent[n][1] + (IF peer.server THEN 1 ELSE 0)
    BY <1>5, <2>8, <2>9
  <2>11. l = Len(sent[n])
    <3>1. s[1] = sent[n][1]
      BY <2>6, <2>10 DEF q
    <3> QED BY <2>10, <3>1 DEF FrameLength
  <2> HIDE DEF s, l
  <2>12. SubSeq(s, 1, l) = sent[n]
    <3>1. /\ SubSeq(s, 1, l) \in Seq(Nat) /\ Len(SubSeq(s, 1, l)) = l
          /\ \A k \in 1 .. l : SubSeq(s, 1, l)[k] = s[k]
      <4>1. /\ 1 \in Int /\ l \in Int /\ 1 <= l /\ l - 1 + 1 = l
            /\ \A k \in 1 .. l : 1 + k - 1 = k
        BY <2>10, <2>11
      <4>2. \A k \in 1 .. l : s[k] \in Nat
        BY <2>1, <2>2, <2>3, <4>1
      <4> DEFINE t == SubSeq(s, 1, l)
      <4>3. /\ t \in Seq(Nat)
            /\ Len(t) = IF 1 <= l THEN l - 1 + 1 ELSE 0
            /\ \A k \in 1 .. l - 1 + 1 : t[k] = s[1 + k - 1]
        BY <4>1, <4>2, SubSeqProperties
      <4> HIDE DEF t
      <4> QED BY <4>1, <4>3 DEF t
    <3>2. ASSUME NEW k \in 1 .. l PROVE s[k] = sent[n][k]
      <4>1. k \in 1 .. Len(src) - m
        BY <1>3, <2>1, <2>2, <2>10, <2>11
      <4> DEFINE j == m + k
      <4>2. j \in 1 .. Len(src)
        BY <1>3, <4>1
      <4>3. s[k] = src[j]
        BY <2>1, <4>1
      <4>4. U[j] = sent[n][k]
        BY <2>10, <2>11
      <4> HIDE DEF j
      <4> QED BY <1>4, <4>2, <4>3, <4>4
    <3> QED BY <2>10, <2>11, <3>1, <3>2, SeqEqual
  <2>13. m + l \in 0 .. Len(src) /\ l \in 0 .. Len(src) - m
    <3>1. l \in Nat /\ l <= Len(src) - m /\ Len(src) \in Nat /\ m \in Nat
      BY <1>3, <2>1, <2>2, <2>10, <2>11
    <3> QED BY <3>1
  <2>14. /\ src' = Rest(src, m + l) /\ readable' = readable
         /\ decoded' = Append(decoded, sent[n])
    <3>1. src' = Rest(s, l) /\ readable' = readable
          /\ decoded' = Append(decoded, SubSeq(s, 1, l))
      BY <1>9 DEF DecodePrefixed, Return, s, l
    <3>2. Rest(s, l) = Rest(src, m + l)
      BY <1>2, <1>3, <2>13, RestTwice DEF s
    <3> QED BY <2>12, <3>1, <3>2
  <2>15. n <= Len(sent)
    BY <2>8 DEF Unreturned, CodecInv, Types
  <2>16. /\ FramesAsSent' /\ decoded' \in Seq(Seq(Nat))
         /\ Unreturned' = Unreturned \ {n}
    BY <1>7, <2>14, <2>15, NextFrame
  <2>17. \A j \in Unreturned' : m + l <= pos[j]
    <3> SUFFICES ASSUME NEW j \in Unreturned' PROVE m + l <= pos[j]
      OBVIOUS
    <3>1. j \in Unreturned /\ n < j
      BY <2>16 DEF Unreturned, CodecInv, Types
    <3> QED BY <1>1, <2>8, <2>9, <2>11, <3>1 DEF Apart
  <2>18. \A j \in Unreturned \ Unreturned' : pos[j] + Len(sent[j]) <= m + l
    BY <1>2, <2>9, <2>10, <2>11, <2>16
  <2>19. \E new : Placed(new)' /\ Apart(new)' /\ ZerosBetween(new)'
    BY <1>1, <1>7, <2>13, <2>14, <2>16, <2>17, <2>18, DropPrefixed
  <2>20. src' \in Seq(Nat) /\ Len(src') = Len(src) - (m + l)
    BY <1>3, <2>13, <2>14, RestFacts
  <2>21. Types'
    BY <1>7, <2>14, <2>16, <2>20 DEF CodecInv, Types, FixedMode
  <2>22. ~ (~peer.server /\ ~small')
    <3>1. src # <<>>
      BY <2>4, <1>2, EmptySeq
    <3> QED BY <1>7, <3>1 DEF FixedMode
  <2>23. Prefixed(peer)'
    BY <1>7 DEF PrefixedInv, Prefixed
  <2> QED BY <1>7, <2>16, <2>19, <2>21, <2>22, <2>23 DEF PrefixedInv
<1> QED BY <1>8, <1>9

(* A whole packet holds the next frame. *)
LEMMA DecodePacketStep ==
    ASSUME CodecInv, Supported(peer), PacketInv, DecodePacket
    PROVE  Types' /\ FramesAsSent' /\ PacketInv' /\ panicked' = FALSE
<1> DEFINE U == Undecoded
           n == 1 + Len(decoded)
           many == Len(sent) - Len(decoded)
<1>1. PICK pos : Placed(pos) /\ InPackets(pos)
  BY DEF PacketInv
<1>2. PICK c \in Nat : Len(src) = PeerPacket * c
  BY DEF PacketInv
<1>3. src \in Seq(Nat) /\ wire \in Seq(Nat)
      /\ Len(src) \in Nat /\ Len(wire) \in Nat
      /\ Len(sent) \in Nat /\ Len(decoded) \in Nat /\ Len(sent) <= MaxSent
  BY DEF CodecInv, Types
<1>4. /\ U \in Seq(Nat) /\ Len(U) = Len(src) + Len(wire)
      /\ \A k \in 1 .. Len(src) : U[k] = src[k]
  BY <1>3, AfterFacts DEF Undecoded
<1>5. /\ PeerPacket \in Nat \ {0} /\ PACKET \in Nat \ {0} /\ MaxSent \in Nat
      /\ PACKET <= PeerPacket /\ PeerPacket <= LARGEST
      /\ LARGEST < 2 * PeerPacket
  BY NetCodecAssumption DEF PacketInv, PacketFilled
<1>6. /\ UNCHANGED <<peer, sent, wire, small>> /\ readable
      /\ Len(src) >= PACKET /\ fixed' = PacketSize
  BY DEF DecodePacket
<1>7. c - 1 \in Nat
  BY <1>2, <1>3, <1>5, <1>6
<1>8. Len(src) = PeerPacket + PeerPacket * (c - 1) /\ PeerPacket * (c - 1) \in Nat
  BY <1>2, <1>5, <1>7
<1>9. Len(src) >= PeerPacket
  BY <1>5, <1>8
<1>10. /\ Len(U) = PeerPacket * many
       /\ \A i \in Unreturned : pos[i] = PeerPacket * (i - Len(decoded) - 1)
  BY <1>1 DEF InPackets, U
<1> HIDE DEF U
(* The guess is right. *)
<1>11. PacketSize = PeerPacket
  <2>1. CASE fixed = PeerPacket
    BY <1>5, <2>1 DEF PacketSize
  <2>2. CASE fixed # PeerPacket
    <3>1. /\ fixed = 0
          /\ Len(src) \in {PeerPacket, 2 * PeerPacket, 4 * PeerPacket}
      BY <1>6, <2>2 DEF PacketInv
    <3>2. Len(src) <= MaxBytes
      <4>1. many <= MaxSent /\ many \in Int
        BY <1>3, <1>5
      <4>2. PeerPacket * many <= PeerPacket * MaxSent
        BY <1>5, <4>1
      <4>3. PeerPacket * MaxSent <= MaxSent * (PeerPacket + PACKET)
        BY <1>5
      <4>4. Len(src) <= PeerPacket * many
        BY <1>3, <1>4, <1>10
      <4>5. /\ PeerPacket * many \in Int /\ PeerPacket * MaxSent \in Int
            /\ MaxSent * (PeerPacket + PACKET) \in Int
        BY <1>5, <4>1
      <4> QED BY <1>3, <4>2, <4>3, <4>4, <4>5 DEF MaxBytes
    <3>3. Halved[Len(src)] = PeerPacket
      BY <1>5, <3>1, <3>2, HalvedPackets
    <3> QED BY <3>1, <3>3 DEF PacketSize
  <2> QED BY <2>1, <2>2
<1>12. many \in Nat \ {0}
  <2>1. Len(U) > 0
    BY <1>3, <1>4, <1>5, <1>9
  <2>2. ~ (many <= 0)
    <3> SUFFICES ASSUME many <= 0 PROVE PeerPacket * many <= 0
      BY <1>10, <2>1
    <3>1. many \in Int /\ PeerPacket \in Nat
      BY <1>3, <1>5
    <3> HIDE DEF many
    <3> QED BY <3>1
  <2> QED BY <1>3, <2>2
<1>13. n \in Unreturned /\ n \in 1 .. Len(sent) /\ n <= Len(sent)
  BY <1>3, <1>12 DEF Unreturned
<1>14. pos[n] = 0
  <2>1. n - Len(decoded) - 1 = 0
    BY <1>3
  <2>2. pos[n] = PeerPacket * (n - Len(decoded) - 1)
    BY <1>10, <1>13
  <2> QED BY <1>5, <2>1, <2>2
<1>15. /\ sent[n] \in Seq(Nat) /\ Len(sent[n]) \in Nat \ {0}
       /\ Len(sent[n]) = sent[n][1] /\ Len(sent[n]) <= PeerPacket
  <2>1. Types /\ Framed(peer) /\ ~peer.server /\ peer.padding # "none"
    BY DEF CodecInv, Supported, PacketInv, PacketFilled
  <2> HIDE DEF n
  <2>2. /\ sent[n] \in Seq(Nat) /\ Len(sent[n]) \in Nat \ {0}
        /\ sent[n][1] \in Nat \ {0}
        /\ Len(sent[n]) = sent[n][1] + (IF peer.server THEN 1 ELSE 0)
        /\ peer.padding # "none" => Len(sent[n]) <= PeerPacket
    BY <1>13, <2>1, SentFacts
  <2> QED BY <2>1, <2>2
<1>16. \A k \in 1 .. Len(sent[n]) : src[k] = sent[n][k]
  <2> SUFFICES ASSUME NEW k \in 1 .. Len(sent[n]) PROVE src[k] = sent[n][k]
    OBVIOUS
  <2>1. U[pos[n] + k] = sent[n][k]
    BY <1>1, <1>13 DEF Placed, U
  <2>2. pos[n] + k = k /\ k \in 1 .. Len(src)
    BY <1>3, <1>5, <1>9, <1>14, <1>15, SMTT(20)
  <2> QED BY <1>4, <2>1, <2>2
<1>17. src[1] = Len(sent[n])
  BY <1>15, <1>16
<1>18. SubSeq(src, 1, src[1]) = sent[n]
  <2> DEFINE l == Len(sent[n])
  <2>1. l \in Nat /\ l <= Len(src)
    BY <1>3, <1>5, <1>9, <1>15, SMTT(20)
  <2>2. /\ SubSeq(src, 1, l) \in Seq(Nat) /\ Len(SubSeq(src, 1, l)) = l
        /\ \A k \in 1 .. l : SubSeq(src, 1, l)[k] = src[k]
    BY <1>3, <2>1, SMTT(20)
  <2>3. SubSeq(src, 1, l) = sent[n]
    BY <1>15, <1>16, <2>2, SeqEqual
  <2> QED BY <1>17, <2>3
<1>19. /\ src' = Rest(src, PeerPacket) /\ panicked' = panicked
       /\ readable' = readable /\ decoded' = Append(decoded, sent[n])
       /\ fixed' = PeerPacket
  <2>1. ~ (PacketSize > Len(src) \/ src[1] > PacketSize) /\ src[1] # 0
    BY <1>3, <1>5, <1>9, <1>11, <1>15, <1>17, SMTT(20)
  <2> QED BY <1>11, <1>18, <2>1 DEF DecodePacket, Return
<1>20. /\ FramesAsSent' /\ decoded' \in Seq(Seq(Nat))
       /\ Len(decoded') = Len(decoded) + 1
       /\ Unreturned' = Unreturned \ {n}
  BY <1>6, <1>13, <1>19, NextFrame
<1>21. PeerPacket \in 0 .. Len(src)
  BY <1>3, <1>5, <1>9
<1>22. /\ src' \in Seq(Nat) /\ Len(src') = Len(src) - PeerPacket
  BY <1>3, <1>19, <1>21, RestFacts
<1>23. ASSUME NEW i \in Unreturned'
       PROVE  /\ PeerPacket <= pos[i]
              /\ pos[i] - PeerPacket = PeerPacket * (i - Len(decoded') - 1)
  <2>1. i \in Unreturned /\ i \in Int /\ n < i
    BY <1>3, <1>20 DEF Unreturned
  <2> DEFINE k == i - Len(decoded) - 2
  <2>2. k \in Nat /\ i - Len(decoded) - 1 = k + 1 /\ i - Len(decoded') - 1 = k
    BY <1>3, <1>20, <2>1
  <2> HIDE DEF k
  <2>3. pos[i] = PeerPacket * (k + 1)
    BY <1>10, <2>1, <2>2
  <2>4. PeerPacket * (k + 1) = PeerPacket * k + PeerPacket
        /\ PeerPacket * k \in Nat
    BY <1>5, <2>2
  <2> QED BY <1>5, <2>2, <2>3, <2>4
<1>24. PICK new : new = [i \in Unreturned' |-> pos[i] - PeerPacket]
  OBVIOUS
<1>25. /\ Undecoded' = Rest(U, PeerPacket) /\ PeerPacket \in 0 .. Len(U)
       /\ Placed(new)' /\ \A i \in Unreturned' : new[i] = pos[i] - PeerPacket
  <2>1. Unreturned' \subseteq Unreturned
    BY <1>20
  <2> QED BY <1>1, <1>6, <1>19, <1>21, <1>23, <1>24, <2>1, DropPlaces DEF U
<1>26. InPackets(new)'
  <2>1. Len(Undecoded') = PeerPacket * many - PeerPacket
    BY <1>4, <1>10, <1>25, RestFacts
  <2>2. PeerPacket * many - PeerPacket = PeerPacket * (many - 1)
    BY <1>3, <1>5, OneMore
  <2>3. many - 1 = Len(sent) - Len(decoded')
    BY <1>3, <1>20
  <2>4. Len(Undecoded') = PeerPacket * (Len(sent) - Len(decoded'))
    BY <2>1, <2>2, <2>3
  <2>5. \A i \in Unreturned' : new[i] = PeerPacket * (i - Len(decoded') - 1)
    BY <1>23, <1>25
  <2> QED BY <1>6, <2>4, <2>5 DEF InPackets
<1>27. Len(src') = PeerPacket * (c - 1)
  BY <1>5, <1>8, <1>22
<1>28. Types'
  BY <1>6, <1>19, <1>20, <1>22 DEF CodecInv, Types
<1>29. PacketFilled(peer)'
  BY <1>6 DEF PacketInv, PacketFilled
<1> QED BY <1>6, <1>7, <1>19, <1>20, <1>25, <1>26, <1>27, <1>28, <1>29
        DEF PacketInv, CodecInv

(* Without a packet there is nothing in the buffer. *)
LEMMA NoPacketStep ==
    ASSUME CodecInv, Supported(peer), PacketInv, DecodePrefixed
    PROVE  /\ UNCHANGED <<peer, sent, wire, src, small, fixed, decoded, panicked>>
           /\ src = <<>> /\ readable' = FALSE
           /\ fixed = PeerPacket
<1>1. PICK c \in Nat : Len(src) = PeerPacket * c
  BY DEF PacketInv
<1>2. src \in Seq(Nat)
  BY DEF CodecInv, Types
<1>3. /\ PeerPacket \in Nat \ {0} /\ PACKET \in Nat \ {0}
      /\ PACKET <= PeerPacket
  BY NetCodecAssumption DEF PacketInv, PacketFilled
<1>4. src = <<>>
  <2> SUFFICES ASSUME src # <<>> PROVE FALSE
    OBVIOUS
  <2>1. Len(src) \in Nat \ {0}
    BY <1>2, EmptySeq, Zenon
  <2>2. c - 1 \in Nat
    BY <1>1, <1>3, <2>1
  <2>3. Len(src) = PeerPacket + PeerPacket * (c - 1)
        /\ PeerPacket * (c - 1) \in Nat
    BY <1>1, <1>3, <2>2
  <2>4. Len(src) >= PACKET
    BY <1>3, <2>3
  <2> QED BY <2>4 DEF DecodePrefixed, FixedMode, PacketInv, PacketFilled
<1>5. Len(src) = 0
  BY <1>4, EmptySeq, Zenon
<1>6. Skipped = <<>>
  <2>1. {i \in 1 .. Len(src) : src[i] # 0} = {}
    BY <1>5
  <2>2. SelectInSeq(src, LAMBDA x : x # 0) = 0
    BY <2>1 DEF SelectInSeq
  <2> QED BY <2>2 DEF Skipped
<1>7. fixed = PeerPacket
  BY <1>3, <1>5 DEF PacketInv, DecodePrefixed
<1>8. ~Complete
  BY <1>6 DEF Complete
<1>9. src' = Skipped /\ readable' = FALSE /\ decoded' = decoded
  BY <1>8 DEF DecodePrefixed, NeedMore
<1>10. small' = small
  BY <1>4 DEF DecodePrefixed, FixedMode, CodecInv, Types
<1>11. UNCHANGED <<peer, sent, wire, fixed, panicked>>
  BY DEF DecodePrefixed
<1> QED BY <1>4, <1>6, <1>7, <1>9, <1>10, <1>11

-----------------------------------------------------------------------------
(* The theorems *)

LEMMA CodecInit ==
    ASSUME Init, Supported(peer)
    PROVE  CodecInv
<1>1. /\ src \in Seq(Nat) /\ wire \in Seq(Nat) /\ sent \in Seq(peer.frames)
      /\ decoded \in Seq(Seq(Nat))
      /\ Len(src) = 0 /\ Len(wire) = 0 /\ Len(sent) = 0 /\ Len(decoded) = 0
  BY EmptySeq, Zenon DEF Init
<1>2. Types /\ panicked = FALSE
  <2>1. Len(sent) <= MaxSent
    BY <1>1, NetCodecAssumption
  <2> QED BY <1>1, <2>1 DEF Init, Types
<1>3. FramesAsSent
  BY <1>1 DEF FramesAsSent, IsPrefix, Init
<1>4. Unreturned = {} /\ Len(Undecoded) = 0
  <2>1. Unreturned = {}
    BY <1>1 DEF Unreturned
  <2>2. Len(Undecoded) = 0
    BY <1>1, BothFacts DEF Undecoded
  <2> QED BY <2>1, <2>2
<1>5. PICK pos : pos = [i \in {} |-> 0]
  OBVIOUS
<1>6. Placed(pos) /\ Apart(pos) /\ ZerosBetween(pos)
  BY <1>4, <1>5 DEF Placed, Apart, ZerosBetween
<1>7. InPackets(pos)
  BY <1>1, <1>4, NetCodecAssumption DEF InPackets
<1>8. CASE Prefixed(peer)
  <2>1. PrefixedInv
    BY <1>1, <1>6, <1>8, NetCodecAssumption DEF PrefixedInv, Init
  <2> QED BY <1>2, <1>3, <2>1 DEF CodecInv
<1>9. CASE PacketFilled(peer)
  <2>1. Len(src) = PeerPacket * 0
    BY <1>1, NetCodecAssumption
  <2>2. PacketInv
    BY <1>6, <1>7, <1>9, <2>1 DEF PacketInv, Init
  <2> QED BY <1>2, <1>3, <2>2 DEF CodecInv
<1> QED BY <1>8, <1>9 DEF Supported

LEMMA CodecStep ==
    ASSUME CodecInv, Supported(peer), [Next]_vars
    PROVE  CodecInv' /\ Supported(peer)'
<1>1. peer' = peer
  BY DEF Next, vars, Send, Read, DecodePacket, DecodePrefixed
<1>2. Supported(peer)'
  BY <1>1 DEF Supported, Framed, Prefixed, PacketFilled
<1>3. ASSUME NEW f \in peer.frames, Send(f) PROVE CodecInv'
  <2>1. Types' /\ FramesAsSent'
    BY <1>3, SendFacts
  <2>2. PrefixedInv' \/ PacketInv'
    BY <1>3, SendPrefixed, SendPackets DEF CodecInv
  <2>3. panicked' = FALSE
    BY <1>3 DEF CodecInv, Send, codec
  <2> QED BY <2>1, <2>2, <2>3 DEF CodecInv
<1>4. ASSUME NEW n \in peer.reads, Read(n) PROVE CodecInv'
  <2>1. Types' /\ FramesAsSent' /\ panicked' = panicked
    BY <1>4, ReadFacts
  <2>2. PrefixedInv' \/ PacketInv'
    BY <1>4, ReadPrefixed, ReadPackets DEF CodecInv
  <2> QED BY <2>1, <2>2 DEF CodecInv
<1>5. ASSUME DecodePacket PROVE CodecInv'
  <2>1. ~PrefixedInv
    <3>1. Len(src) \in Nat /\ PACKET \in Nat
      BY NetCodecAssumption DEF CodecInv, Types
    <3>2. ~peer.server /\ ~small /\ Len(src) >= PACKET
      BY <1>5 DEF DecodePacket, FixedMode
    <3> QED BY <3>1, <3>2 DEF PrefixedInv
  <2>2. PacketInv
    BY <2>1 DEF CodecInv
  <2>3. Types' /\ FramesAsSent' /\ PacketInv' /\ panicked' = FALSE
    BY <1>5, <2>2, DecodePacketStep
  <2> QED BY <2>3 DEF CodecInv
<1>6. ASSUME DecodePrefixed PROVE CodecInv'
  <2>1. CASE PrefixedInv
    <3>1. Types' /\ FramesAsSent' /\ PrefixedInv'
      BY <1>6, <2>1, DecodePrefixedStep
    <3>2. panicked' = FALSE
      BY <1>6 DEF DecodePrefixed, CodecInv
    <3> QED BY <3>1, <3>2 DEF CodecInv
  <2>2. CASE PacketInv
    <3>1. /\ UNCHANGED <<peer, sent, wire, src, small, fixed, decoded, panicked>>
          /\ readable' = FALSE /\ fixed = PeerPacket
      BY <1>6, <2>2, NoPacketStep
    <3>2. Types' /\ FramesAsSent' /\ panicked' = FALSE
      BY <3>1 DEF CodecInv, Types, FramesAsSent
    <3>3. PICK pos : Placed(pos) /\ InPackets(pos)
      BY <2>2 DEF PacketInv
    <3>4. Placed(pos)' /\ InPackets(pos)'
      BY <3>1, <3>3 DEF Placed, InPackets, Unreturned, Undecoded
    <3>5. PacketInv'
      BY <2>2, <3>1, <3>4 DEF PacketInv, PacketFilled
    <3> QED BY <3>2, <3>5 DEF CodecInv
  <2> QED BY <2>1, <2>2 DEF CodecInv
<1>7. ASSUME UNCHANGED vars PROVE CodecInv'
  <2>1. UNCHANGED <<peer, sent, wire, src, small, fixed, readable, decoded,
                    panicked>>
    BY <1>7 DEF vars, codec
  <2>2. Types' /\ FramesAsSent' /\ panicked' = FALSE
    BY <2>1 DEF CodecInv, Types, FramesAsSent
  <2>3. PrefixedInv => PrefixedInv'
    <3>1. ASSUME NEW pos, Placed(pos), Apart(pos), ZerosBetween(pos)
          PROVE  Placed(pos)' /\ Apart(pos)' /\ ZerosBetween(pos)'
      BY <2>1, <3>1 DEF Placed, Apart, ZerosBetween, Unreturned, Undecoded
    <3> QED BY <2>1, <3>1 DEF PrefixedInv, Prefixed
  <2>4. PacketInv => PacketInv'
    <3>1. ASSUME NEW pos, Placed(pos), InPackets(pos)
          PROVE  Placed(pos)' /\ InPackets(pos)'
      BY <2>1, <3>1 DEF Placed, InPackets, Unreturned, Undecoded
    <3> QED BY <2>1, <3>1 DEF PacketInv, PacketFilled
  <2> QED BY <2>2, <2>3, <2>4 DEF CodecInv
<1> QED BY <1>2, <1>3, <1>4, <1>5, <1>6, <1>7 DEF Next

LEMMA CodecInvariant ==
    ASSUME \A p \in Peers : Supported(p)
    PROVE  Spec => []CodecInv
<1>1. Init => CodecInv /\ Supported(peer)
  BY CodecInit DEF Init
<1>2. CodecInv /\ Supported(peer) /\ [Next]_vars
          => CodecInv' /\ Supported(peer)'
  BY CodecStep
<1> QED BY <1>1, <1>2, PTL DEF Spec

(* From the peers the decoder can follow, the frames come out as they were *)
(* sent, whatever the reads return (Codec::decode).                        *)
THEOREM FramesTheorem ==
    ASSUME \A p \in Peers : Supported(p)
    PROVE  Spec => []FramesAsSent
<1>1. CodecInv => FramesAsSent
  BY DEF CodecInv
<1> QED BY <1>1, CodecInvariant, PTL

(* Every variable keeps its type, and no packet size is below a packet.    *)
THEOREM TypeCorrect ==
    ASSUME \A p \in Peers : Supported(p)
    PROVE  Spec => []TypeOK
<1>1. CodecInv => TypeOK
  <2> SUFFICES ASSUME CodecInv PROVE TypeOK
    OBVIOUS
  <2>1. fixed = 0 \/ fixed >= PACKET
    BY NetCodecAssumption DEF CodecInv, PrefixedInv, PacketInv, PacketFilled
  <2> QED BY <2>1 DEF CodecInv, Types, TypeOK
<1> QED BY <1>1, CodecInvariant, PTL

(* And nothing is split beyond the end of a buffer, which would panic.     *)
THEOREM NeverPanics ==
    ASSUME \A p \in Peers : Supported(p)
    PROVE  Spec => []~panicked
<1>1. CodecInv => ~panicked
  BY DEF CodecInv
<1> QED BY <1>1, CodecInvariant, PTL
=============================================================================
