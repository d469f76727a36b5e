---------------------------- MODULE ControlProofs ----------------------------
(***************************************************************************)
(* Theorems about Control: what a device, or the mock, reads from the      *)
(* frames the program writes (CommandCodec), and, for every job, that its  *)
(* levels are read with the least number of commands and end up at the     *)
(* channels they belong to (Levels), that it writes only what it was asked *)
(* to, is refused only what is not possible, keeps to its types, has done  *)
(* what it says it did, and has kept to the order wherever it was cut      *)
(* short.                                                                  *)
(***************************************************************************)
EXTENDS Plans, FiniteSetTheorems, SequenceTheorems, WellFoundedInduction,
        TLAPS

-----------------------------------------------------------------------------
(* The frames of the commands that write *)

Address(v, len, extra) == [val |-> v, len |-> len, extra_bit |-> extra]

LEMMA Powers ==
    /\ 256 ^ 0 = 1 /\ 256 ^ 1 = 256 /\ 256 ^ 2 = 65536
    /\ 2 ^ 12 = 4096 /\ 2 ^ 15 = 32768 /\ 2 ^ 16 = 65536
    /\ 2 ^ 20 = 1048576 /\ 2 ^ 23 = 8388608
  BY SMT

(* A number in base 256. *)
LEMMA Digits ==
    ASSUME NEW x \in Nat
    PROVE  /\ x \div 1 = x
           /\ x < 65536 => (x \div 256) % 256 = x \div 256
           /\ x < 16777216 => (x \div 65536) % 256 = x \div 65536
           /\ 256 * (x \div 256) + (x % 256) = x
           /\ ((x \div 65536) % 16) * 65536 + 256 * ((x \div 256) % 256)
                  + (x % 256) = x % 1048576
<1>1. x \div 1 = x
  BY SMT
<1>2. x < 65536 => (x \div 256) % 256 = x \div 256
  <2>1. x < 65536 => x \div 256 < 256
    BY SMT
  <2>2. x \div 256 \in Nat
    BY SMT
  <2> QED BY <2>1, <2>2, SMT
<1>3. x < 16777216 => (x \div 65536) % 256 = x \div 65536
  <2>1. x < 16777216 => x \div 65536 < 256
    BY SMT
  <2>2. x \div 65536 \in Nat
    BY SMT
  <2> QED BY <2>1, <2>2, SMT
<1>4. 256 * (x \div 256) + (x % 256) = x
  BY SMT
<1>5. ((x \div 65536) % 16) * 65536 + 256 * ((x \div 256) % 256)
          + (x % 256) = x % 1048576
  BY SMTT(60)
<1> QED BY <1>1, <1>2, <1>3, <1>4, <1>5, SMT

(* An address with its extra bit, as a number. *)
Tagged(v, top, extra) == (v % top) + (IF extra THEN top ELSE 0)

LEMMA ShortTagged ==
    ASSUME NEW v \in Nat, NEW extra \in BOOLEAN
    PROVE  /\ Tagged(v, 32768, extra) \in Nat
           /\ Tagged(v, 32768, extra) < 65536
           /\ Tagged(v, 32768, extra) % 4096 = v % 4096
           /\ Tagged(v, 32768, extra) >= 32768 <=> extra
<1>1. v % 32768 \in Nat /\ v % 32768 < 32768
  BY SMT
<1>2. (v % 32768) % 4096 = v % 4096
  BY SMT
<1>3. ((v % 32768) + 32768) % 4096 = v % 4096
  BY SMT
<1>4. CASE extra
  BY <1>1, <1>3, <1>4, SMT DEF Tagged
<1>5. CASE ~extra
  BY <1>1, <1>2, <1>5, SMT DEF Tagged
<1> QED BY <1>4, <1>5

LEMMA LongTagged ==
    ASSUME NEW v \in Nat, NEW extra \in BOOLEAN
    PROVE  /\ Tagged(v, 8388608, extra) \in Nat
           /\ Tagged(v, 8388608, extra) < 16777216
           /\ Tagged(v, 8388608, extra) % 1048576 = v % 1048576
           /\ Tagged(v, 8388608, extra) \div 65536 >= 128 <=> extra
<1>1. v % 8388608 \in Nat /\ v % 8388608 < 8388608
  BY SMT
<1>2. (v % 8388608) % 1048576 = v % 1048576
  BY SMT
<1>3. ((v % 8388608) + 8388608) % 1048576 = v % 1048576
  BY SMT
<1>4. \A x \in Nat : x \div 65536 >= 128 <=> x >= 8388608
  BY SMT
<1>5. CASE extra
  BY <1>1, <1>3, <1>4, <1>5, SMT DEF Tagged
<1>6. CASE ~extra
  BY <1>1, <1>2, <1>4, <1>6, SMT DEF Tagged
<1> QED BY <1>5, <1>6

(* The bytes of an address. *)
LEMMA ShortBytes ==
    ASSUME NEW v \in Nat, NEW extra \in BOOLEAN, NEW x,
           x = Tagged(v, 32768, extra)
    PROVE  write(Address(v, 2, extra)) = <<x \div 256, x % 256>>
<1>1. write(Address(v, 2, extra)) =
          [k \in 1 .. 2 |-> (x \div 256 ^ (2 - k)) % 256]
  BY Powers, SMT DEF write, Address, Tagged
<1>2. x \in Nat /\ x < 65536
  BY ShortTagged
<1>3. 256 ^ (2 - 1) = 256 /\ 256 ^ (2 - 2) = 1
  BY SMT
<1>4. [k \in 1 .. 2 |-> (x \div 256 ^ (2 - k)) % 256] =
          <<(x \div 256) % 256, (x \div 1) % 256>>
  BY <1>3, SMT
<1> QED BY <1>1, <1>2, <1>4, Digits, SMT

LEMMA LongBytes ==
    ASSUME NEW v \in Nat, NEW extra \in BOOLEAN, NEW x,
           x = Tagged(v, 8388608, extra)
    PROVE  write(Address(v, 3, extra)) =
               <<x \div 65536, (x \div 256) % 256, x % 256>>
<1>1. write(Address(v, 3, extra)) =
          [k \in 1 .. 3 |-> (x \div 256 ^ (3 - k)) % 256]
  BY Powers, SMT DEF write, Address, Tagged
<1>2. x \in Nat /\ x < 16777216
  BY LongTagged
<1>3. 256 ^ (3 - 1) = 65536 /\ 256 ^ (3 - 2) = 256 /\ 256 ^ (3 - 3) = 1
  BY SMT
<1>4. [k \in 1 .. 3 |-> (x \div 256 ^ (3 - k)) % 256] =
          <<(x \div 65536) % 256, (x \div 256) % 256, (x \div 1) % 256>>
  BY <1>3, SMT
<1> QED BY <1>1, <1>2, <1>4, Digits, SMT

(* What the reader makes of them. *)
LEMMA ShortRead ==
    ASSUME NEW x \in Nat, NEW extra \in BOOLEAN, x >= 32768 <=> extra
    PROVE  read(<<x \div 256, x % 256>>, 2) = Address(x % 4096, 2, extra)
<1>1. 256 * (x \div 256) + (x % 256) = x
  BY SMT
<1>2. read(<<x \div 256, x % 256>>, 2) =
          [val |-> x % 4096, len |-> 2, extra_bit |-> x >= 32768]
  BY <1>1, Powers, SMT DEF read, read_u16
<1>3. (x >= 32768) = extra
  BY SMT
<1> QED BY <1>2, <1>3 DEF Address

LEMMA LongRead ==
    ASSUME NEW x \in Nat, NEW extra \in BOOLEAN, x \div 65536 >= 128 <=> extra
    PROVE  read(<<x \div 65536, (x \div 256) % 256, x % 256>>, 3) =
               Address(x % 1048576, 3, extra)
<1>1. ((x \div 65536) % 16) * 65536 + 256 * ((x \div 256) % 256) + (x % 256)
          = x % 1048576
  BY Digits
<1>2. read(<<x \div 65536, (x \div 256) % 256, x % 256>>, 3) =
          [val |-> x % 1048576, len |-> 3, extra_bit |-> x \div 65536 >= 128]
  BY <1>1, Powers, SMT DEF read, read_u24
<1>3. (x \div 65536 >= 128) = extra
  BY SMT
<1> QED BY <1>2, <1>3 DEF Address

(* A short address is read as it was written if it fits in twelve bits,    *)
(* and otherwise without the bits above: write keeps fifteen (Addr).       *)
THEOREM ShortAddress ==
    ASSUME NEW v \in Nat, NEW extra \in BOOLEAN
    PROVE  read(write(Address(v, 2, extra)), 2) = Address(v % 4096, 2, extra)
<1> DEFINE x == Tagged(v, 32768, extra)
<1>1. write(Address(v, 2, extra)) = <<x \div 256, x % 256>>
  BY ShortBytes
<1>2. /\ x \in Nat /\ x % 4096 = v % 4096
      /\ x >= 32768 <=> extra
  BY ShortTagged
<1>3. read(<<x \div 256, x % 256>>, 2) = Address(x % 4096, 2, extra)
  BY <1>2, ShortRead
<1> QED BY <1>1, <1>2, <1>3

(* A long address is read as it was written if it fits in twenty bits.     *)
THEOREM LongAddress ==
    ASSUME NEW v \in Nat, NEW extra \in BOOLEAN
    PROVE  read(write(Address(v, 3, extra)), 3) =
               Address(v % 1048576, 3, extra)
<1> DEFINE x == Tagged(v, 8388608, extra)
<1>1. write(Address(v, 3, extra)) =
          <<x \div 65536, (x \div 256) % 256, x % 256>>
  BY LongBytes
<1>2. /\ x \in Nat /\ x % 1048576 = v % 1048576
      /\ x \div 65536 >= 128 <=> extra
  BY LongTagged
<1>3. read(<<x \div 65536, (x \div 256) % 256, x % 256>>, 3) =
          Address(x % 1048576, 3, extra)
  BY <1>2, LongRead
<1> QED BY <1>1, <1>2, <1>3

-----------------------------------------------------------------------------
(* Frames *)

Lens == {2, 3}

(* The addresses the reader can tell apart. *)
LEMMA ReachFacts ==
    /\ Reach(2) = 4096 /\ Reach(3) = 1048576
    /\ \A len \in Lens : Reach(len) \in Nat
  BY Powers, SMT DEF Reach, Lens

LEMMA ReadBack ==
    ASSUME NEW len \in Lens, NEW v \in Nat, v < Reach(len),
           NEW extra \in BOOLEAN
    PROVE  /\ write(Address(v, len, extra)) \in Seq(Int)
           /\ Len(write(Address(v, len, extra))) = len
           /\ read(write(Address(v, len, extra)), len) = Address(v, len, extra)
<1>1. \A k, n \in Nat : n # 0 => k \div n \in Int /\ k % n \in Int
  BY SMT
<1>4. \A p, q \in Int : <<p, q>> \in Seq(Int) /\ Len(<<p, q>>) = 2
  OBVIOUS
<1>5. \A p, q, r \in Int : <<p, q, r>> \in Seq(Int) /\ Len(<<p, q, r>>) = 3
  OBVIOUS
<1>2. CASE len = 2
  <2>1. v % 4096 = v
    BY <1>2, ReachFacts, SMT
  <2> DEFINE x == Tagged(v, 32768, extra)
  <2>2. x \in Nat
    BY ShortTagged
  <2>3. write(Address(v, 2, extra)) = <<x \div 256, x % 256>>
    BY ShortBytes
  <2> HIDE DEF x
  <2>4. x \div 256 \in Int /\ x % 256 \in Int
    BY <1>1, <2>2, SMT
  <2> DEFINE p == x \div 256
             q == x % 256
  <2> HIDE DEF p, q
  <2>5. <<p, q>> \in Seq(Int) /\ Len(<<p, q>>) = 2
    <3>1. p \in Int /\ q \in Int
      BY <2>4, SMT DEF p, q
    <3> QED BY <1>4, <3>1
  <2>7. /\ write(Address(v, 2, extra)) \in Seq(Int)
        /\ Len(write(Address(v, 2, extra))) = 2
    <3>1. write(Address(v, 2, extra)) = <<p, q>>
      BY <2>3, SMT DEF p, q
    <3> QED BY <2>5, <3>1
  <2>6. read(write(Address(v, 2, extra)), 2) = Address(v, 2, extra)
    BY <2>1, ShortAddress, SMT
  <2> QED BY <1>2, <2>6, <2>7
<1>3. CASE len = 3
  <2>1. v % 1048576 = v
    BY <1>3, ReachFacts, SMT
  <2> DEFINE x == Tagged(v, 8388608, extra)
  <2>2. x \in Nat
    BY LongTagged
  <2>3. write(Address(v, 3, extra)) =
            <<x \div 65536, (x \div 256) % 256, x % 256>>
    BY LongBytes
  <2> HIDE DEF x
  <2>4. /\ x \div 65536 \in Int /\ (x \div 256) % 256 \in Int
        /\ x % 256 \in Int
    <3>1. x \div 256 \in Nat
      BY <2>2, SMT
    <3> QED BY <1>1, <2>2, <3>1, SMT
  <2> DEFINE p == x \div 65536
             q == (x \div 256) % 256
             r == x % 256
  <2> HIDE DEF p, q, r
  <2>5. <<p, q, r>> \in Seq(Int) /\ Len(<<p, q, r>>) = 3
    <3>1. p \in Int /\ q \in Int /\ r \in Int
      BY <2>4, SMT DEF p, q, r
    <3> QED BY <1>5, <3>1
  <2>7. /\ write(Address(v, 3, extra)) \in Seq(Int)
        /\ Len(write(Address(v, 3, extra))) = 3
    <3>1. write(Address(v, 3, extra)) = <<p, q, r>>
      BY <2>3, SMT DEF p, q, r
    <3> QED BY <2>5, <3>1
  <2>6. read(write(Address(v, 3, extra)), 3) = Address(v, 3, extra)
    BY <2>1, LongAddress, SMT
  <2> QED BY <1>3, <2>6, <2>7
<1> QED BY <1>2, <1>3 DEF Lens

(* What is read of a frame, by its first byte. *)
LEMMA ReadWrite ==
    ASSUME NEW f, f.head[1] = 19
    PROVE  from_bytes(f) =
               [op |-> "Write", addr |-> read(Tail(f.head), AddrLen(f, 6)),
                value |-> f.words[1]]
  BY SMT DEF from_bytes

LEMMA ReadBiquad ==
    ASSUME NEW f, f.head[1] = 48
    PROVE  from_bytes(f) =
               [op |-> "WriteBiquad",
                addr |-> read(Tail(f.head), AddrLen(f, 24)),
                data |-> f.words]
  BY SMT DEF from_bytes

LEMMA ReadBypass ==
    ASSUME NEW f, f.head[1] = 25
    PROVE  from_bytes(f) =
               [op |-> "WriteBiquadBypass",
                addr |-> read(Tail(f.head), AddrLen(f, 2)),
                value |-> read(Tail(f.head), AddrLen(f, 2)).extra_bit]
  BY SMT DEF from_bytes

(* The reader never sees how long an address is; it tells the two dialects *)
(* apart by what is left of the frame (Commands::from_bytes).  It is right *)
(* about every write of a word: the command comes out as it went in,       *)
(* whatever the address within the reader's reach.                         *)
THEOREM WriteUnderstood ==
    ASSUME NEW len \in Lens, NEW v \in Nat, v < Reach(len),
           NEW extra \in BOOLEAN, NEW value,
           NEW c, c = [op |-> "Write", addr |-> Address(v, len, extra),
                       value |-> value]
    PROVE  from_bytes(to_bytes(c)) = c
<1> DEFINE a == write(Address(v, len, extra))
           h == <<19>> \o a
           f == [head |-> h, words |-> <<value>>]
<1>1. to_bytes(c) = f
  BY DEF to_bytes, Frame
<1>2. /\ a \in Seq(Int) /\ Len(a) = len
      /\ read(a, len) = Address(v, len, extra)
  BY ReadBack
<1> HIDE DEF a
<1>3. h[1] = 19 /\ Tail(h) = a /\ Len(h) = 1 + len
  BY <1>2 DEF Lens
<1> HIDE DEF h
<1>4. Left(f) = len + 4
  <2>1. Len(<<value>>) = 1
    OBVIOUS
  <2> QED BY <1>3, <2>1 DEF Left, Lens
<1>5. f.head = h /\ f.words[1] = value
  OBVIOUS
<1> HIDE DEF f
<1>6. AddrLen(f, 6) = len
  BY <1>4 DEF AddrLen, Lens
<1>7. from_bytes(f) = [op |-> "Write", addr |-> read(a, len), value |-> value]
  BY <1>3, <1>5, <1>6, ReadWrite
<1> QED BY <1>1, <1>2, <1>7

(* The reader looks at no more than the bytes of the address.              *)
LEMMA ReadPrefix ==
    ASSUME NEW a, NEW b, NEW len \in Lens, \A i \in 1 .. len : b[i] = a[i]
    PROVE  read(b, len) = read(a, len)
<1>1. ASSUME len = 2 PROVE read(b, len) = read(a, len)
  <2>1. 1 \in 1 .. len /\ 2 \in 1 .. len
    BY <1>1
  <2>2. b[1] = a[1] /\ b[2] = a[2]
    BY <2>1
  <2>3. read_u16(b) = read_u16(a)
    BY <2>2, SMT DEF read_u16
  <2> QED BY <1>1, <2>3 DEF read
<1>2. ASSUME len = 3 PROVE read(b, len) = read(a, len)
  <2>1. 1 \in 1 .. len /\ 2 \in 1 .. len /\ 3 \in 1 .. len
    BY <1>2
  <2>2. b[1] = a[1] /\ b[2] = a[2] /\ b[3] = a[3]
    BY <2>1
  <2>3. read_u24(b) = read_u24(a)
    BY <2>2, SMT DEF read_u24
  <2> QED BY <1>2, <2>3 DEF read
<1> QED BY <1>1, <1>2 DEF Lens

(* A filter's frame: its number, the address, the unused bytes.            *)
BiquadHead(a) == <<48>> \o a \o <<0, 0>>

LEMMA BiquadHeadRead ==
    ASSUME NEW a \in Seq(Int), NEW len \in Lens, Len(a) = len
    PROVE  /\ BiquadHead(a)[1] = 48 /\ Len(BiquadHead(a)) = 3 + len
           /\ read(Tail(BiquadHead(a)), len) = read(a, len)
<1> DEFINE h == <<48>> \o a \o <<0, 0>>
<1>1. h \in Seq(Int) /\ Len(h) = 3 + len
  BY DEF Lens
<1>2. h[1] = 48
  BY DEF Lens
<1>3. \A i \in 1 .. len : h[i + 1] = a[i]
  BY DEF Lens
<1>4. \A i \in 1 .. len : Tail(h)[i] = a[i]
  <2>1. Len(h) - 1 = len + 2
    BY <1>1 DEF Lens
  <2>2. \A i \in 1 .. len + 2 : Tail(h)[i] = h[i + 1]
    BY <1>1, <2>1 DEF Lens
  <2> QED BY <1>3, <2>2 DEF Lens
<1> HIDE DEF h
<1>5. read(Tail(h), len) = read(a, len)
  BY <1>4, ReadPrefix
<1>7. h = BiquadHead(a)
  BY DEF h, BiquadHead
<1> QED BY <1>1, <1>2, <1>5, <1>7

(* It is right about every filter of five coefficients, too.               *)
THEOREM WriteBiquadUnderstood ==
    ASSUME NEW len \in Lens, NEW v \in Nat, v < Reach(len),
           NEW extra \in BOOLEAN, NEW data, Len(data) = 5,
           NEW c, c = [op |-> "WriteBiquad", addr |-> Address(v, len, extra),
                       data |-> data]
    PROVE  from_bytes(to_bytes(c)) = c
<1> DEFINE a == write(Address(v, len, extra))
           h == BiquadHead(a)
           f == [head |-> h, words |-> data]
<1>1. to_bytes(c) = f
  BY DEF to_bytes, Frame, BiquadHead
<1>2. /\ a \in Seq(Int) /\ Len(a) = len
      /\ read(a, len) = Address(v, len, extra)
  BY ReadBack
<1> HIDE DEF a
<1>3. h[1] = 48 /\ Len(h) = 3 + len /\ read(Tail(h), len) = read(a, len)
  BY <1>2, BiquadHeadRead
<1> HIDE DEF h
<1>4. f.head = h /\ f.words = data
  OBVIOUS
<1> HIDE DEF f
<1>5. Left(f) = len + 22
  <2>1. Len(f.head) = 3 + len /\ Len(f.words) = 5
    BY <1>3, <1>4
  <2> QED BY <2>1 DEF Left, Lens
<1>6. AddrLen(f, 24) = len
  BY <1>5 DEF AddrLen, Lens
<1>7. from_bytes(f) =
          [op |-> "WriteBiquad", addr |-> read(a, len), data |-> data]
  BY <1>3, <1>4, <1>6, ReadBiquad
<1> QED BY <1>1, <1>2, <1>7

(* And about the flag of a filter, which travels as the extra bit of the   *)
(* filter's address.                                                       *)
THEOREM BypassUnderstood ==
    ASSUME NEW len \in Lens, NEW v \in Nat, v < Reach(len),
           NEW extra \in BOOLEAN, NEW flag \in BOOLEAN,
           NEW c, c = [op |-> "WriteBiquadBypass",
                       addr |-> Address(v, len, extra), value |-> flag]
    PROVE  from_bytes(to_bytes(c)) =
               [op |-> "WriteBiquadBypass", addr |-> Address(v, len, flag),
                value |-> flag]
<1> DEFINE a == write(Address(v, len, flag))
           h == <<25>> \o a
           f == [head |-> h, words |-> <<>>]
<1>1. to_bytes(c) = f
  <2>1. [c.addr EXCEPT !.extra_bit = c.value] = Address(v, len, flag)
    BY DEF Address
  <2> QED BY <2>1 DEF to_bytes, Frame
<1>2. /\ a \in Seq(Int) /\ Len(a) = len
      /\ read(a, len) = Address(v, len, flag)
  BY ReadBack
<1> HIDE DEF a
<1>3. h[1] = 25 /\ Tail(h) = a /\ Len(h) = 1 + len
  BY <1>2 DEF Lens
<1> HIDE DEF h
<1>4. f.head = h /\ Left(f) = len
  <2>1. Len(<<>>) = 0
    OBVIOUS
  <2> QED BY <1>3, <2>1 DEF Left, Lens
<1> HIDE DEF f
<1>5. AddrLen(f, 2) = len
  BY <1>4 DEF AddrLen, Lens
<1>6. from_bytes(f) =
          [op |-> "WriteBiquadBypass", addr |-> read(a, len),
           value |-> read(a, len).extra_bit]
  BY <1>3, <1>4, <1>5, ReadBypass
<1>7. Address(v, len, flag).extra_bit = flag
  BY DEF Address
<1> QED BY <1>1, <1>2, <1>6, <1>7

-----------------------------------------------------------------------------
(* Sets of meters *)

LEMMA SameCardinality ==
    ASSUME NEW S
    PROVE  Reading!Cardinality(S) = Cardinality(S)
  BY DEF Reading!Cardinality, Cardinality

(* Commands whose first addresses are too far apart for any one to reach   *)
(* two of them: as many are needed whatever the commands.                  *)
LEMMA NoFewer ==
    ASSUME NEW T \in SUBSET Nat, IsFiniteSet(T), NEW M \in Nat,
           \A x, y \in T : x < y => x + M <= y,
           NEW S \in SUBSET Nat, IsFiniteSet(S),
           \A a \in T : \E f \in S : a \in f .. f + M - 1
    PROVE  Cardinality(T) <= Cardinality(S)
<1> SUFFICES ASSUME ~ (Cardinality(T) <= Cardinality(S)) PROVE FALSE
  OBVIOUS
<1>1. Cardinality(T) \in Nat /\ Cardinality(S) \in Nat
  BY FS_CardinalityType
<1>2. Cardinality(S) < Cardinality(T)
  BY <1>1
<1> DEFINE f == [a \in T |-> CHOOSE s \in S : a \in s .. s + M - 1]
<1>3. \A a \in T : f[a] \in S /\ a \in f[a] .. f[a] + M - 1
  OBVIOUS
<1>4. f \in [T -> S]
  BY <1>3
<1> HIDE DEF f
<1>5. PICK x, y \in T : x # y /\ f[x] = f[y]
  BY <1>2, <1>4, FS_PigeonHole
<1>6. ASSUME NEW p \in T, NEW q \in T, p < q, f[p] = f[q] PROVE FALSE
  <2> DEFINE s == f[p]
  <2>1. s \in Nat /\ p \in s .. s + M - 1 /\ q \in s .. s + M - 1
    BY <1>3, <1>6
  <2>2. p + M <= q /\ p \in Nat /\ q \in Nat
    BY <1>6
  <2> HIDE DEF s
  <2> QED BY <2>1, <2>2
<1>7. x < y \/ y < x
  BY <1>5
<1> QED BY <1>5, <1>6, <1>7

(* The rank of an address among the others. *)
Rank(W, a) == Cardinality({b \in W : b < a})

LEMMA RankFacts ==
    ASSUME NEW W \in SUBSET Nat, IsFiniteSet(W)
    PROVE  /\ Cardinality(W) \in Nat
           /\ \A a \in W : Rank(W, a) \in 0 .. Cardinality(W) - 1
           /\ \A a, b \in W : a < b => Rank(W, a) < Rank(W, b)
<1>1. Cardinality(W) \in Nat
  BY FS_CardinalityType
<1>2. ASSUME NEW T \in SUBSET W, NEW a \in W,
             {b \in W : b < a} \subseteq T, a \in T
      PROVE  Rank(W, a) < Cardinality(T) /\ Rank(W, a) \in Nat
             /\ Cardinality(T) \in Nat
  <2> DEFINE B == {b \in W : b < a}
  <2>1. IsFiniteSet(T) /\ IsFiniteSet(B)
    BY FS_Subset
  <2>2. Cardinality(T) \in Nat /\ Cardinality(B) \in Nat
    BY <2>1, FS_CardinalityType
  <2>3. a \notin B
    OBVIOUS
  <2>4. B \in SUBSET T
    BY <1>2
  <2>5. Cardinality(B) <= Cardinality(T)
        /\ (Cardinality(T) = Cardinality(B) => T = B)
    BY <2>1, <2>4, FS_Subset
  <2>6. Cardinality(T) # Cardinality(B)
    BY <1>2, <2>3, <2>5
  <2> HIDE DEF B
  <2>7. Cardinality(B) < Cardinality(T)
    BY <2>2, <2>5, <2>6
  <2> QED BY <2>2, <2>7 DEF Rank, B
<1>3. ASSUME NEW a \in W PROVE Rank(W, a) \in 0 .. Cardinality(W) - 1
  <2>1. W \in SUBSET W /\ {b \in W : b < a} \subseteq W
    OBVIOUS
  <2>2. Rank(W, a) < Cardinality(W) /\ Rank(W, a) \in Nat
    BY <1>2, <2>1
  <2> QED BY <1>1, <2>2
<1>4. ASSUME NEW a \in W, NEW b \in W, a < b
      PROVE  Rank(W, a) < Rank(W, b)
  <2> DEFINE T == {c \in W : c < b}
  <2>1. T \in SUBSET W /\ {c \in W : c < a} \subseteq T /\ a \in T
    <3>1. \A c \in W : c < a => c < b
      BY <1>4
    <3> QED BY <1>4, <3>1
  <2> HIDE DEF T
  <2>2. Rank(W, a) < Cardinality(T)
    BY <1>2, <2>1
  <2> QED BY <2>2 DEF Rank, T
<1> QED BY <1>1, <1>3, <1>4

(* Every rank is somebody's. *)
LEMMA EveryRank ==
    ASSUME NEW W \in SUBSET Nat, IsFiniteSet(W),
           NEW k \in 0 .. Cardinality(W) - 1
    PROVE  \E a \in W : Rank(W, a) = k
<1> DEFINE n == Cardinality(W)
           R == 0 .. n - 1
           r == [a \in W |-> Rank(W, a)]
<1>1. n \in Nat /\ r \in [W -> R]
      /\ \A a, b \in W : a < b => r[a] < r[b]
  BY RankFacts
<1>2. \A a, b \in W : r[a] = r[b] => a = b
  <2> HIDE DEF r
  <2> SUFFICES ASSUME NEW a \in W, NEW b \in W, r[a] = r[b], a # b
               PROVE  FALSE
    OBVIOUS
  <2>1. a < b \/ b < a
    OBVIOUS
  <2>2. r[a] \in R /\ r[b] \in R
    BY <1>1
  <2>3. r[a] \in Int /\ r[b] \in Int
    BY <1>1, <2>2
  <2>4. r[a] < r[b] \/ r[b] < r[a]
    BY <1>1, <2>1
  <2> HIDE DEF R
  <2> QED BY <2>3, <2>4
<1>3. IsFiniteSet(R) /\ Cardinality(R) = n
  <2> HIDE DEF n, r
  <2>1. 0 \in Int /\ n - 1 \in Int
    BY <1>1
  <2>2. IsFiniteSet(R)
        /\ Cardinality(R) = IF 0 > n - 1 THEN 0 ELSE n - 1 - 0 + 1
    BY <2>1, FS_Interval
  <2> HIDE DEF R
  <2> QED BY <1>1, <2>2
<1> HIDE DEF r
<1>4. r \in Injection(W, R)
  BY <1>1, <1>2 DEF Injection, IsInjective
<1>5. r \in Surjection(W, R)
  BY <1>3, <1>4, FS_Injection
<1>6. \E a \in W : r[a] = k
  BY <1>5 DEF Surjection
<1> QED BY <1>6 DEF r

Increasing(s) == \A i, j \in 1 .. Len(s) : i < j => s[i] < s[j]

LEMMA AscendingFacts ==
    ASSUME NEW W \in SUBSET Nat, IsFiniteSet(W),
           NEW s, s = Reading!Ascending(W)
    PROVE  /\ s \in Seq(Nat) /\ Increasing(s)
           /\ \A i \in 1 .. Len(s) : s[i] \in W
           /\ \A a \in W : \E i \in 1 .. Len(s) : s[i] = a
<1> DEFINE n == Cardinality(W)
<1>1. n \in Nat
  BY RankFacts
<1>2. s = [i \in 1 .. n |-> CHOOSE a \in W : Rank(W, a) = i - 1]
  <2>1. \A S : Reading!Cardinality(S) = Cardinality(S)
    BY SameCardinality
  <2>2. s = [i \in 1 .. Reading!Cardinality(W) |->
                CHOOSE a \in W :
                    Reading!Cardinality({b \in W : b < a}) = i - 1]
    BY DEF Reading!Ascending
  <2> QED BY <2>1, <2>2 DEF Rank
<1>3. ASSUME NEW i \in 1 .. n PROVE s[i] \in W /\ Rank(W, s[i]) = i - 1
  <2>1. i - 1 \in 0 .. n - 1
    BY <1>1
  <2>2. \E a \in W : Rank(W, a) = i - 1
    BY <2>1, EveryRank
  <2>3. s[i] = CHOOSE a \in W : Rank(W, a) = i - 1
    BY <1>2
  <2> QED BY <2>2, <2>3
<1> HIDE DEF n
<1>4. s \in Seq(Nat) /\ Len(s) = n
  <2>1. s = [i \in 1 .. n |-> s[i]] /\ \A i \in 1 .. n : s[i] \in Nat
    BY <1>2, <1>3
  <2> QED BY <1>1, <2>1
<1>5. Increasing(s)
  <2> SUFFICES ASSUME NEW i \in 1 .. n, NEW j \in 1 .. n, i < j
               PROVE  s[i] < s[j]
    BY <1>4 DEF Increasing
  <2>1. /\ s[i] \in W /\ Rank(W, s[i]) = i - 1
        /\ s[j] \in W /\ Rank(W, s[j]) = j - 1
    BY <1>3
  <2>2. i - 1 < j - 1 /\ i - 1 \in Int /\ j - 1 \in Int
    BY <1>1
  <2>3. ~ (s[j] < s[i]) /\ s[j] # s[i]
    <3>1. ASSUME s[j] < s[i] PROVE FALSE
      <4>1. Rank(W, s[j]) < Rank(W, s[i])
        BY <2>1, <3>1, RankFacts
      <4> QED BY <2>1, <2>2, <4>1
    <3>2. s[j] # s[i]
      BY <2>1, <2>2
    <3> QED BY <3>1, <3>2
  <2>4. s[i] \in Nat /\ s[j] \in Nat
    BY <2>1
  <2> QED BY <2>3, <2>4
<1>6. ASSUME NEW a \in W PROVE \E i \in 1 .. n : s[i] = a
  <2>1. Rank(W, a) \in 0 .. n - 1
    BY RankFacts DEF n
  <2> DEFINE i == Rank(W, a) + 1
  <2>2. i \in 1 .. n /\ i - 1 = Rank(W, a)
    BY <1>1, <2>1
  <2> HIDE DEF i
  <2>3. s[i] \in W /\ Rank(W, s[i]) = Rank(W, a)
    BY <1>3, <2>2
  <2>4. ~ (s[i] < a) /\ ~ (a < s[i])
    <3>1. \A x, y \in W : x < y => Rank(W, x) # Rank(W, y)
      <4> SUFFICES ASSUME NEW x \in W, NEW y \in W, x < y
                   PROVE  Rank(W, x) # Rank(W, y)
        OBVIOUS
      <4>1. Rank(W, x) < Rank(W, y)
            /\ Rank(W, x) \in 0 .. n - 1 /\ Rank(W, y) \in 0 .. n - 1
        BY RankFacts DEF n
      <4> QED BY <1>1, <4>1
    <3> QED BY <2>3, <3>1
  <2>5. s[i] \in Nat /\ a \in Nat
    BY <2>3
  <2>6. s[i] = a
    BY <2>4, <2>5
  <2> QED BY <2>2, <2>6
<1> QED BY <1>3, <1>4, <1>5, <1>6

-----------------------------------------------------------------------------
(* One chunk after the other *)

M == READ_FLOATS_MAX

LEMMA LeastElement ==
    ASSUME NEW T \in SUBSET Nat, T # {}
    PROVE  \E x \in T : \A y \in T : x <= y
<1>1. PICK x \in T : \A y \in T : ~ (<<y, x>> \in OpToRel(<, Nat))
  BY NatLessThanWellFounded, WFMin, Zenon
<1>2. \A y \in T : ~ (y < x)
  BY <1>1 DEF OpToRel
<1> QED BY <1>2

(* A chunk reaches as far as a command, and no farther. *)
LEMMA ChunkFacts ==
    ASSUME addrs \in Seq(Nat), addrs # <<>>
    PROVE  \E m \in 1 .. Len(addrs) :
              /\ Reading!Chunk = SubSeq(addrs, 1, m)
              /\ \A k \in 1 .. m : addrs[k] - addrs[1] < M
              /\ m < Len(addrs) => ~ (addrs[m + 1] - addrs[1] < M)
<1> DEFINE I == {i \in 1 .. Len(addrs) : ~ (addrs[i] - addrs[1] < M)}
           n == Len(addrs)
<1>1. Reading!Beyond = IF I # {} THEN Reading!Min(I) ELSE 0
  BY DEF Reading!Beyond, Reading!Reached, Reading!SelectInSeq, M
<1>2. n \in Nat \ {0}
  BY EmptySeq, Zenon
<1>3. M \in Nat \ {0}
  BY ControlAssumption DEF M
<1>4. CASE I = {}
  <2>1. Reading!Chunk = addrs
    BY <1>1, <1>4 DEF Reading!Chunk
  <2>2. addrs = SubSeq(addrs, 1, n)
    BY SubSeqFull
  <2>3. \A k \in 1 .. n : addrs[k] - addrs[1] < M
    BY <1>4
  <2> HIDE DEF n, I
  <2>4. n \in 1 .. n /\ ~ (n < n)
    BY <1>2
  <2>5. Reading!Chunk = SubSeq(addrs, 1, n)
    BY <2>1, <2>2
  <2> QED BY <2>3, <2>4, <2>5 DEF n
<1>5. CASE I # {}
  <2>1. I \in SUBSET Nat
    OBVIOUS
  <2>2. \E x \in I : \A y \in I : x <= y
    BY <1>5, <2>1, LeastElement
  <2> DEFINE b == Reading!Min(I)
  <2>3. b \in I /\ \A y \in I : b <= y
    BY <2>2 DEF Reading!Min
  <2>4. Reading!Beyond = b
    BY <1>1, <1>5
  <2> HIDE DEF b
  <2>5. b # 1
    <3>1. addrs[1] - addrs[1] = 0
      BY <1>2
    <3> QED BY <1>3, <2>3, <3>1
  <2> DEFINE m == b - 1
  <2>6. m \in 1 .. n /\ m + 1 = b /\ b # 0
    BY <2>3, <2>5
  <2> HIDE DEF m
  <2>7. Reading!Chunk = SubSeq(addrs, 1, m)
    BY <2>4, <2>6 DEF Reading!Chunk, m
  <2>8. \A k \in 1 .. m : addrs[k] - addrs[1] < M
    <3> SUFFICES ASSUME NEW k \in 1 .. m PROVE addrs[k] - addrs[1] < M
      OBVIOUS
    <3>1. k \in 1 .. n /\ ~ (b <= k)
      BY <2>6
    <3> QED BY <2>3, <3>1
  <2>9. ~ (addrs[m + 1] - addrs[1] < M)
    BY <2>3, <2>6
  <2> QED BY <2>6, <2>7, <2>8, <2>9
<1> QED BY <1>4, <1>5

(* Of the meters W, the addresses left are in ascending order; the         *)
(* commands issued cannot reach them nor one another, and reach the rest.  *)
Greedy(W) ==
    /\ addrs \in Seq(Nat) /\ Increasing(addrs)
    /\ commands \in Seq([addr : Nat, len : Int])
    /\ \A i \in 1 .. Len(addrs) : addrs[i] \in W
    /\ \A j \in 1 .. Len(commands) :
        /\ commands[j].addr \in W
        /\ \A i \in 1 .. Len(addrs) : commands[j].addr + M <= addrs[i]
        /\ \A k \in 1 .. Len(commands) :
            j < k => commands[j].addr + M <= commands[k].addr
    /\ \A a \in W :
        \/ \E j \in 1 .. Len(commands) :
            a \in commands[j].addr .. commands[j].addr + M - 1
        \/ \E i \in 1 .. Len(addrs) : addrs[i] = a

LEMMA GreedyStep ==
    ASSUME NEW W \in SUBSET Nat, Greedy(W), Reading!ReadChunk
    PROVE  Greedy(W)'
<1> DEFINE n == Len(addrs)
           c == Len(commands)
           one == [addr |-> addrs[1],
                   len |-> Reading!Last(Reading!Chunk) - addrs[1] + 1]
<1>1. addrs \in Seq(Nat) /\ Increasing(addrs) /\ addrs # <<>>
      /\ commands \in Seq([addr : Nat, len : Int])
  BY DEF Greedy, Reading!ReadChunk
<1>2. PICK m \in 1 .. n :
          /\ Reading!Chunk = SubSeq(addrs, 1, m)
          /\ \A k \in 1 .. m : addrs[k] - addrs[1] < M
          /\ m < n => ~ (addrs[m + 1] - addrs[1] < M)
  BY <1>1, ChunkFacts
<1>3. M \in Nat \ {0} /\ n \in Nat /\ c \in Nat
      /\ \A i \in 1 .. n : addrs[i] \in Nat
  BY <1>1, ControlAssumption DEF M
<1>4. /\ Len(SubSeq(addrs, 1, m)) = m
      /\ \A k \in 1 .. m : SubSeq(addrs, 1, m)[k] = addrs[k]
  BY <1>1, <1>3
<1>5. 1 \in 1 .. m /\ 1 \in 1 .. n /\ m \in 1 .. m
  BY <1>3
<1>6. /\ Reading!Chunk[1] = addrs[1]
      /\ Reading!Last(Reading!Chunk) = addrs[m]
  BY <1>2, <1>4, <1>5 DEF Reading!Last
<1>7. commands' = Append(commands, one)
  BY <1>6 DEF Reading!ReadChunk
<1>8. one \in [addr : Nat, len : Int]
  <2>1. addrs[1] \in Nat /\ addrs[m] \in Nat
    BY <1>3, <1>5
  <2> QED BY <1>6, <2>1
<1>9. one.addr = addrs[1]
  OBVIOUS
<1> HIDE DEF one
<1>10. /\ commands' \in Seq([addr : Nat, len : Int])
       /\ Len(commands') = c + 1 /\ commands'[c + 1] = one
       /\ \A j \in 1 .. c : commands'[j] = commands[j]
  BY <1>1, <1>7, <1>8
<1>11. addrs' = SubSeq(addrs, m + 1, n)
  BY <1>2, <1>4 DEF Reading!ReadChunk, Reading!Remaining
<1>12. /\ addrs' \in Seq(Nat) /\ Len(addrs') = n - m
       /\ \A i \in 1 .. n - m : m + i \in 1 .. n /\ addrs'[i] = addrs[m + i]
  <2>1. /\ m + 1 \in Int /\ n \in Int
        /\ \A k \in m + 1 .. n : addrs[k] \in Nat
    BY <1>3
  <2>2. /\ addrs' \in Seq(Nat)
        /\ Len(addrs') = IF m + 1 <= n THEN n - (m + 1) + 1 ELSE 0
        /\ \A k \in 1 .. n - (m + 1) + 1 : addrs'[k] = addrs[m + 1 + k - 1]
    BY <1>11, <2>1, SubSeqProperties
  <2>3. Len(addrs') = n - m
    BY <1>3, <2>2
  <2>4. ASSUME NEW i \in 1 .. n - m
        PROVE  m + i \in 1 .. n /\ addrs'[i] = addrs[m + i]
    <3>1. /\ m + i \in 1 .. n /\ i \in 1 .. n - (m + 1) + 1
          /\ m + 1 + i - 1 = m + i
      BY <1>3
    <3>2. addrs'[i] = addrs[m + 1 + i - 1]
      BY <2>2, <3>1
    <3> QED BY <3>1, <3>2
  <2> QED BY <2>2, <2>3, <2>4
(* What is left is out of the new command's reach. *)
<1>13. ASSUME NEW i \in 1 .. n - m PROVE addrs[1] + M <= addrs'[i]
  <2> DEFINE q == m + i
             p == m + 1
  <2>1. q \in 1 .. n /\ p \in 1 .. n /\ m < n /\ (p < q \/ p = q)
    BY <1>3
  <2>2. addrs'[i] = addrs[q]
    BY <1>12
  <2>3. ~ (addrs[p] - addrs[1] < M)
    BY <1>2, <2>1
  <2>4. addrs[p] \in Nat /\ addrs[q] \in Nat /\ addrs[1] \in Nat
    BY <1>3, <1>5, <2>1
  <2> HIDE DEF p, q
  <2>5. addrs[p] <= addrs[q]
    BY <1>1, <2>1, <2>4, SMTT(20) DEF Increasing
  <2> QED BY <1>3, <2>2, <2>3, <2>4, <2>5
<1>14. Increasing(addrs')
  <2> SUFFICES ASSUME NEW i \in 1 .. n - m, NEW j \in 1 .. n - m, i < j
               PROVE  addrs'[i] < addrs'[j]
    BY <1>12 DEF Increasing
  <2> DEFINE p == m + i
             q == m + j
  <2>1. /\ p \in 1 .. n /\ q \in 1 .. n /\ p < q
        /\ addrs'[i] = addrs[p] /\ addrs'[j] = addrs[q]
    BY <1>12
  <2> HIDE DEF p, q
  <2> QED BY <1>1, <2>1 DEF Increasing
<1>15. \A i \in 1 .. n - m : addrs'[i] \in W
  <2>1. \A i \in 1 .. n : addrs[i] \in W
    BY DEF Greedy
  <2> QED BY <1>12, <2>1
<1>16. ASSUME NEW j \in 1 .. c + 1
       PROVE  /\ commands'[j].addr \in W
              /\ \A i \in 1 .. n - m : commands'[j].addr + M <= addrs'[i]
              /\ \A k \in 1 .. c + 1 :
                    j < k => commands'[j].addr + M <= commands'[k].addr
  <2>1. CASE j = c + 1
    <3>1. commands'[j].addr = addrs[1]
      BY <1>9, <1>10, <2>1
    <3>2. addrs[1] \in W
      BY <1>5 DEF Greedy
    <3>3. \A k \in 1 .. c + 1 : ~ (j < k)
      BY <1>3, <2>1
    <3> QED BY <1>13, <3>1, <3>2, <3>3
  <2>2. CASE j # c + 1
    <3>1. j \in 1 .. c /\ commands'[j] = commands[j]
      BY <1>3, <1>10, <2>2
    <3> DEFINE a == commands[j].addr
    <3>2. /\ a \in W /\ \A i \in 1 .. n : a + M <= addrs[i]
          /\ \A k \in 1 .. c : j < k => a + M <= commands[k].addr
      BY <3>1 DEF Greedy
    <3>3. commands'[j].addr = a
      BY <3>1
    <3> HIDE DEF a
    <3>4. \A i \in 1 .. n - m : a + M <= addrs'[i]
      BY <1>12, <3>2
    <3>5. ASSUME NEW k \in 1 .. c + 1, j < k
          PROVE  a + M <= commands'[k].addr
      <4>1. CASE k = c + 1
        <5>1. commands'[k].addr = addrs[1]
          BY <1>9, <1>10, <4>1
        <5> QED BY <1>5, <3>2, <5>1
      <4>2. CASE k # c + 1
        <5>1. k \in 1 .. c /\ commands'[k] = commands[k]
          BY <1>3, <1>10, <4>2, SMTT(20)
        <5> QED BY <3>2, <3>5, <5>1
      <4> QED BY <4>1, <4>2
    <3> QED BY <3>2, <3>3, <3>4, <3>5
  <2> QED BY <2>1, <2>2
<1>17. ASSUME NEW a \in W
       PROVE  \/ \E j \in 1 .. c + 1 :
                    a \in commands'[j].addr .. commands'[j].addr + M - 1
              \/ \E i \in 1 .. n - m : addrs'[i] = a
  <2>1. CASE \E j \in 1 .. c :
                a \in commands[j].addr .. commands[j].addr + M - 1
    <3>1. PICK j \in 1 .. c :
              a \in commands[j].addr .. commands[j].addr + M - 1
      BY <2>1
    <3>2. j \in 1 .. c + 1 /\ commands'[j] = commands[j]
      BY <1>3, <1>10
    <3> QED BY <3>1, <3>2
  <2>2. CASE \E i \in 1 .. n : addrs[i] = a
    <3>1. PICK i \in 1 .. n : addrs[i] = a
      BY <2>2
    <3>2. CASE i <= m
      <4>1. i \in 1 .. m
        BY <3>2
      <4>2. a - addrs[1] < M
        BY <1>2, <3>1, <4>1
      <4>3. addrs[1] <= a /\ addrs[1] \in Nat /\ a \in Nat
        <5>1. addrs[1] \in Nat /\ addrs[i] \in Nat
          BY <1>3, <1>5
        <5>2. CASE i = 1
          BY <3>1, <5>1, <5>2
        <5>3. CASE i # 1
          <6>1. 1 < i
            BY <5>3
          <6> QED BY <1>1, <1>5, <3>1, <5>1, <6>1 DEF Increasing
        <5> QED BY <5>2, <5>3
      <4>4. a \in addrs[1] .. addrs[1] + M - 1
        BY <1>3, <4>2, <4>3
      <4>5. c + 1 \in 1 .. c + 1 /\ commands'[c + 1].addr = addrs[1]
        BY <1>3, <1>9, <1>10
      <4> QED BY <4>4, <4>5
    <3>3. CASE ~ (i <= m)
      <4> DEFINE k == i - m
      <4>1. k \in 1 .. n - m /\ m + k = i
        BY <1>3, <3>3
      <4> HIDE DEF k
      <4>2. addrs'[k] = a
        BY <1>12, <3>1, <4>1
      <4> QED BY <4>1, <4>2
    <3> QED BY <3>2, <3>3
  <2> QED BY <2>1, <2>2 DEF Greedy
<1> HIDE DEF n, c
<1> QED BY <1>10, <1>12, <1>14, <1>15, <1>16, <1>17 DEF Greedy

LEMMA GreedyInit ==
    ASSUME NEW W \in SUBSET Nat, IsFiniteSet(W),
           addrs' = Reading!Ascending(W), commands' = <<>>
    PROVE  Greedy(W)'
<1>1. /\ addrs' \in Seq(Nat) /\ Increasing(addrs')
      /\ \A i \in 1 .. Len(addrs') : addrs'[i] \in W
      /\ \A a \in W : \E i \in 1 .. Len(addrs') : addrs'[i] = a
  BY AscendingFacts
<1>2. commands' \in Seq([addr : Nat, len : Int]) /\ Len(commands') = 0
  BY EmptySeq, Zenon
<1>3. 1 .. Len(commands') = {}
  BY <1>2
<1> QED BY <1>1, <1>2, <1>3 DEF Greedy

(* No commands fewer would have done. *)
LEMMA GreedyLeast ==
    ASSUME MetersIn(TableHere) \in SUBSET Nat,
           IsFiniteSet(MetersIn(TableHere)),
           Greedy(MetersIn(TableHere)), addrs = <<>>
    PROVE  Len(commands) = Reading!Least
<1> DEFINE W == MetersIn(TableHere)
           c == Len(commands)
           f == [j \in 1 .. c |-> commands[j].addr]
           T == {commands[j].addr : j \in 1 .. c}
<1>1. Reading!Wanted = W
  BY DEF Reading!Wanted, MetersIn
<1> HIDE DEF W
<1>2. W \in SUBSET Nat /\ IsFiniteSet(W)
  BY DEF W
<1>3. /\ c \in Nat
      /\ \A j \in 1 .. c : commands[j].addr \in W
      /\ \A j, k \in 1 .. c :
            j < k => commands[j].addr + M <= commands[k].addr
      /\ \A a \in W : \E j \in 1 .. c :
            a \in commands[j].addr .. commands[j].addr + M - 1
  <2>1. commands \in Seq([addr : Nat, len : Int])
    BY DEF Greedy
  <2>2. Len(addrs) = 0
    BY EmptySeq, Zenon
  <2>3. c \in Nat
    BY <2>1
  <2>4. /\ \A j \in 1 .. c : commands[j].addr \in W
        /\ \A j, k \in 1 .. c :
              j < k => commands[j].addr + M <= commands[k].addr
    BY DEF Greedy, W
  <2>5. \A a \in W :
           \/ \E j \in 1 .. c :
                 a \in commands[j].addr .. commands[j].addr + M - 1
           \/ \E i \in 1 .. Len(addrs) : addrs[i] = a
    BY Zenon DEF Greedy, W
  <2>6. 1 .. Len(addrs) = {}
    BY <2>2
  <2> QED BY <2>3, <2>4, <2>5, <2>6, Zenon
<1>4. M \in Nat \ {0}
  BY ControlAssumption DEF M
<1>5. T \in SUBSET W /\ T \in SUBSET Nat
  BY <1>2, <1>3
<1>6. IsFiniteSet(T) /\ Cardinality(T) <= Cardinality(W)
  BY <1>2, <1>5, FS_Subset
<1>7. \A x, y \in T : x < y => x + M <= y
  <2> SUFFICES ASSUME NEW j \in 1 .. c, NEW k \in 1 .. c,
                      commands[j].addr < commands[k].addr
               PROVE  commands[j].addr + M <= commands[k].addr
    OBVIOUS
  <2> DEFINE x == commands[j].addr
             y == commands[k].addr
  <2>1. x \in Nat /\ y \in Nat
    BY <1>2, <1>3
  <2>2. j < k => x + M <= y
    BY <1>3
  <2>3. k < j => y + M <= x
    BY <1>3
  <2>4. j = k => x = y
    OBVIOUS
  <2>5. x < y
    OBVIOUS
  <2>6. j < k \/ k < j \/ j = k
    OBVIOUS
  <2> HIDE DEF x, y
  <2>7. x + M <= y
    BY <1>4, <2>1, <2>2, <2>3, <2>4, <2>5, <2>6
  <2> QED BY <2>7 DEF x, y
<1>8. Cardinality(T) = c
  <2>1. f \in [1 .. c -> T] /\ \A t \in T : \E j \in 1 .. c : f[j] = t
    OBVIOUS
  <2>2. \A j, k \in 1 .. c : j < k => f[j] # f[k]
    <3> SUFFICES ASSUME NEW j \in 1 .. c, NEW k \in 1 .. c, j < k
                 PROVE  commands[j].addr # commands[k].addr
      OBVIOUS
    <3> DEFINE x == commands[j].addr
               y == commands[k].addr
    <3>1. x \in Nat /\ y \in Nat /\ x + M <= y
      BY <1>2, <1>3
    <3> HIDE DEF x, y
    <3>2. x # y
      BY <1>4, <3>1
    <3> QED BY <3>2 DEF x, y
  <2> HIDE DEF f, T
  <2>3. \A j, k \in 1 .. c : f[j] = f[k] => j = k
    <3> SUFFICES ASSUME NEW j \in 1 .. c, NEW k \in 1 .. c, j # k
                 PROVE  f[j] # f[k]
      OBVIOUS
    <3>1. j < k \/ k < j
      OBVIOUS
    <3> QED BY <2>2, <3>1
  <2>4. f \in Bijection(1 .. c, T)
    BY <2>1, <2>3 DEF Bijection, Injection, Surjection, IsInjective
  <2>5. ExistsBijection(1 .. c, T)
    BY <2>4 DEF ExistsBijection
  <2> QED BY <1>3, <2>5, FS_CountingElements
<1>9. \A a \in W : \E t \in T : a \in t .. t + M - 1
  BY <1>3
<1> HIDE DEF T
<1>10. \A k : Reading!Suffices(k) <=>
          \E S \in SUBSET W :
              /\ Cardinality(S) = k
              /\ \A a \in W : \E t \in S : a \in t .. t + M - 1
  <2>1. \A S : Reading!Cardinality(S) = Cardinality(S)
    BY SameCardinality
  <2>2. \A k : Reading!kSubset(k, W) = {S \in SUBSET W : Cardinality(S) = k}
    BY <2>1 DEF Reading!kSubset
  <2>3. \A S : Reading!Covers(S) <=>
                \A a \in W : \E t \in S : a \in t .. t + M - 1
    BY <1>1 DEF Reading!Covers, M
  <2>4. \A k : Reading!Suffices(k) <=>
                \E S \in {S \in SUBSET W : Cardinality(S) = k} :
                    Reading!Covers(S)
    BY <1>1, <2>2 DEF Reading!Suffices
  <2> QED BY <2>3, <2>4
<1>11. Reading!Suffices(c)
  BY <1>5, <1>8, <1>9, <1>10
<1>12. ASSUME NEW k \in Nat, k < c PROVE ~Reading!Suffices(k)
  <2> SUFFICES ASSUME NEW S \in SUBSET W, Cardinality(S) = k,
                      \A a \in W : \E t \in S : a \in t .. t + M - 1
               PROVE  FALSE
    BY <1>10
  <2>1. IsFiniteSet(S) /\ S \in SUBSET Nat
    BY <1>2, FS_Subset
  <2>2. \A a \in T : \E t \in S : a \in t .. t + M - 1
    BY <1>5
  <2>3. Cardinality(T) <= Cardinality(S)
    BY <1>4, <1>5, <1>6, <1>7, <2>1, <2>2, NoFewer
  <2> HIDE DEF c
  <2> QED BY <1>3, <1>8, <1>12, <2>3
<1> DEFINE n == Cardinality(W)
<1>13. n \in Nat /\ c \in 0 .. n
  <2>1. n \in Nat
    BY <1>2, FS_CardinalityType
  <2> HIDE DEF n, c
  <2> QED BY <1>3, <1>6, <1>8, <2>1 DEF n
<1>14. Reading!Least = CHOOSE k \in 0 .. n :
          Reading!Suffices(k) /\ \A j \in 0 .. k - 1 : ~Reading!Suffices(j)
  BY <1>1, SameCardinality DEF Reading!Least
<1> HIDE DEF n, c
<1>15. \A j \in 0 .. c - 1 : ~Reading!Suffices(j)
  BY <1>3, <1>12
<1>16. ASSUME NEW k \in 0 .. n, Reading!Suffices(k),
              \A j \in 0 .. k - 1 : ~Reading!Suffices(j)
       PROVE  k = c
  <2>1. ~ (k < c)
    BY <1>12, <1>16
  <2>2. ~ (c < k)
    <3> SUFFICES ASSUME c < k PROVE FALSE
      OBVIOUS
    <3>1. c \in 0 .. k - 1
      BY <1>3
    <3> QED BY <1>11, <1>16, <3>1
  <2> QED BY <1>3, <2>1, <2>2
<1>17. Reading!Least = c
  BY <1>11, <1>13, <1>14, <1>15, <1>16
<1> QED BY <1>17 DEF c

-----------------------------------------------------------------------------
(* Plans *)

(* A plan, or what is left of it while no levels have been read.           *)
Planned(p) == (\E S : p \in Seq(S)) /\ CollectsFirst(p)

LEMMA PlannedFacts ==
    ASSUME NEW p, NEW S, p \in Seq(S)
    PROVE  /\ Len(p) \in Nat /\ DOMAIN p = 1 .. Len(p)
           /\ IsSequence(p)
  BY DEF IsSequence

LEMMA Sequences ==
    ASSUME NEW p, IsSequence(p)
    PROVE  \E S : p \in Seq(S)
<1> DEFINE R == {p[k] : k \in 1 .. Len(p)}
<1>1. Len(p) \in Nat /\ p = [k \in 1 .. Len(p) |-> p[k]]
  BY DEF IsSequence
<1>2. \A k \in 1 .. Len(p) : p[k] \in R
  OBVIOUS
<1> HIDE DEF R
<1>3. p \in Seq(R)
  BY <1>1, <1>2
<1> QED BY <1>3

LEMMA PlannedEmpty == Planned(<<>>) /\ ~ReadsLevels(<<>>)
<1>1. <<>> \in Seq({}) /\ Len(<<>>) = 0
  BY EmptySeq, Zenon
<1>2. DOMAIN <<>> = {} /\ IsSequence(<<>>)
  <2> PICK p : p = <<>>
    OBVIOUS
  <2>1. p \in Seq({}) /\ Len(p) = 0
    BY <1>1
  <2>2. DOMAIN p = 1 .. 0 /\ IsSequence(p)
    BY <2>1, PlannedFacts
  <2> QED BY <2>2
<1> QED BY <1>1, <1>2 DEF Planned, CollectsFirst, ReadsLevels

LEMMA PlannedTail ==
    ASSUME NEW p, Planned(p), p # <<>>, Head(p).op # "CollectMeters"
    PROVE  /\ Planned(Tail(p)) /\ Head(p).op # "ReadLevels"
           /\ ReadsLevels(Tail(p)) => ReadsLevels(p)
<1>1. PICK S : p \in Seq(S)
  BY DEF Planned
<1> DEFINE t == Tail(p)
           n == Len(p)
<1>2. n \in Nat \ {0} /\ DOMAIN p = 1 .. n /\ Head(p) = p[1]
  BY <1>1, EmptySeq, PlannedFacts
<1>3. t \in Seq(S) /\ Len(t) = n - 1
      /\ \A k \in 1 .. n - 1 : t[k] = p[k + 1]
  BY <1>1, <1>2
<1>4. DOMAIN t = 1 .. n - 1 /\ IsSequence(t)
  BY <1>3, PlannedFacts
<1> HIDE DEF t
<1>5. \A k \in 1 .. n :
        /\ p[k].op = "CollectMeters" =>
            k = n - 1 /\ p[k + 1].op = "ReadLevels"
        /\ p[k].op = "ReadLevels" =>
            k = n /\ k # 1 /\ p[k - 1].op = "CollectMeters"
  BY <1>2 DEF Planned, CollectsFirst
<1> HIDE DEF n
<1>6. ASSUME NEW k \in 1 .. n - 1
      PROVE  /\ t[k].op = "CollectMeters" =>
                k = n - 1 - 1 /\ t[k + 1].op = "ReadLevels"
             /\ t[k].op = "ReadLevels" =>
                k = n - 1 /\ k # 1 /\ t[k - 1].op = "CollectMeters"
  <2> DEFINE q == k + 1
  <2>1. q \in 1 .. n /\ t[k] = p[q] /\ q - 1 = k
    BY <1>2, <1>3
  <2> HIDE DEF q
  <2>2. ASSUME t[k].op = "CollectMeters"
        PROVE  k = n - 1 - 1 /\ t[k + 1].op = "ReadLevels"
    <3>1. q = n - 1 /\ p[q + 1].op = "ReadLevels"
      BY <1>5, <2>1, <2>2
    <3>0. q = k + 1 /\ k \in Nat
      BY DEF q
    <3>2. k = n - 1 - 1 /\ q \in 1 .. n - 1
      BY <1>2, <2>1, <3>0, <3>1
    <3>3. t[q] = p[q + 1]
      BY <1>3, <3>2
    <3> QED BY <3>0, <3>1, <3>2, <3>3
  <2>3. ASSUME t[k].op = "ReadLevels"
        PROVE  k = n - 1 /\ k # 1 /\ t[k - 1].op = "CollectMeters"
    <3>1. q = n /\ p[k].op = "CollectMeters"
      BY <1>5, <2>1, <2>3
    <3>0. k \in 1 .. n
      BY <1>2
    <3>2. k # 1
      <4>1. ASSUME k = 1 PROVE FALSE
        <5>1. Head(p).op = "CollectMeters"
          BY <1>2, <3>1, <4>1
        <5> QED BY <5>1
      <4> QED BY <4>1
    <3> DEFINE r == k - 1
    <3>3. r \in 1 .. n - 1 /\ r + 1 = k /\ k = n - 1
      BY <1>2, <2>1, <3>1, <3>2
    <3> HIDE DEF r
    <3>4. t[r] = p[k]
      BY <1>3, <3>3
    <3> QED BY <3>1, <3>2, <3>3, <3>4 DEF r
  <2> QED BY <2>2, <2>3
<1>7. Planned(t)
  BY <1>3, <1>4, <1>6 DEF Planned, CollectsFirst
<1>8. Head(p).op # "ReadLevels"
  <2>1. 1 \in 1 .. n
    BY <1>2
  <2> QED BY <1>2, <1>5, <2>1
<1>9. ReadsLevels(t) => ReadsLevels(p)
  <2> SUFFICES ASSUME NEW k \in 1 .. n - 1, t[k].op = "ReadLevels"
               PROVE  ReadsLevels(p)
    BY <1>4 DEF ReadsLevels
  <2> DEFINE q == k + 1
  <2>1. q \in 1 .. n /\ t[k] = p[q]
    BY <1>2, <1>3
  <2> HIDE DEF q
  <2>2. p[q].op = "ReadLevels"
    BY <2>1
  <2> QED BY <1>2, <2>1, <2>2 DEF ReadsLevels
<1> QED BY <1>7, <1>8, <1>9 DEF t

(* Nothing follows but the reading, when the meters are collected.         *)
LastStep(p) ==
    (\E S : p \in Seq(S)) /\ Len(p) = 1 /\ p[1].op = "ReadLevels"

LEMMA PlannedCollect ==
    ASSUME NEW p, Planned(p), p # <<>>, Head(p).op = "CollectMeters"
    PROVE  LastStep(Tail(p)) /\ ReadsLevels(p)
<1>1. PICK S : p \in Seq(S)
  BY DEF Planned
<1> DEFINE n == Len(p)
           t == Tail(p)
<1>2. n \in Nat \ {0} /\ DOMAIN p = 1 .. n /\ Head(p) = p[1]
  BY <1>1, EmptySeq, PlannedFacts
<1>3. 1 = n - 1 /\ p[1 + 1].op = "ReadLevels"
  <2>1. 1 \in DOMAIN p
    BY <1>2
  <2> QED BY <1>2, <2>1 DEF Planned, CollectsFirst
<1>4. t \in Seq(S) /\ Len(t) = n - 1
      /\ \A k \in 1 .. n - 1 : t[k] = p[k + 1]
  BY <1>1, <1>2
<1> HIDE DEF n, t
<1>5. n = 2 /\ 1 \in 1 .. n - 1 /\ 2 \in 1 .. n /\ 1 + 1 = 2 /\ n - 1 = 1
  BY <1>2, <1>3
<1>6. t[1] = p[2] /\ p[2].op = "ReadLevels" /\ Len(t) = 1
  BY <1>3, <1>4, <1>5
<1> QED BY <1>2, <1>4, <1>5, <1>6 DEF LastStep, ReadsLevels, t

LEMMA PlannedAgain ==
    ASSUME NEW p, Planned(p)
    PROVE  /\ Planned(get_master_status \o p)
           /\ ReadsLevels(get_master_status \o p) => ReadsLevels(p)
<1> DEFINE g == [op |-> "ReadMemory", addr |-> 65496, size |-> 9]
           t == <<g>> \o p
           n == Len(p)
<1>0. get_master_status = <<g>>
  BY DEF get_master_status
<1>1. PICK S : p \in Seq(S)
  BY DEF Planned
<1>2. n \in Nat /\ DOMAIN p = 1 .. n
  BY <1>1, PlannedFacts
<1>3. g.op = "ReadMemory"
  OBVIOUS
<1> HIDE DEF g
<1>4. t \in Seq(S \cup {g}) /\ Len(t) = n + 1 /\ t[1] = g
      /\ \A k \in 1 .. n : t[k + 1] = p[k]
  <2>1. p \in Seq(S \cup {g}) /\ <<g>> \in Seq(S \cup {g})
    BY <1>1
  <2>2. t \in Seq(S \cup {g}) /\ Len(t) = 1 + n
        /\ \A k \in 1 .. 1 + n :
            t[k] = IF k <= 1 THEN <<g>>[k] ELSE p[k - 1]
    BY <2>1
  <2> HIDE DEF t
  <2>3. t[1] = g
    <3>1. 1 \in 1 .. 1 + n /\ 1 <= 1 /\ <<g>>[1] = g
      BY <1>2
    <3> QED BY <2>2, <3>1
  <2>4. ASSUME NEW k \in 1 .. n PROVE t[k + 1] = p[k]
    <3> DEFINE q == k + 1
    <3>1. q \in 1 .. 1 + n /\ ~ (q <= 1) /\ q - 1 = k
      BY <1>2
    <3> HIDE DEF q
    <3>2. t[q] = p[q - 1]
      BY <2>2, <3>1
    <3> QED BY <3>1, <3>2 DEF q
  <2>5. Len(t) = n + 1
    BY <1>2, <2>2
  <2> QED BY <2>2, <2>3, <2>4, <2>5
<1>5. DOMAIN t = 1 .. n + 1 /\ IsSequence(t)
  BY <1>4, PlannedFacts
<1> HIDE DEF t
<1>6. \A k \in 1 .. n :
        /\ p[k].op = "CollectMeters" =>
            k = n - 1 /\ p[k + 1].op = "ReadLevels"
        /\ p[k].op = "ReadLevels" =>
            k = n /\ k # 1 /\ p[k - 1].op = "CollectMeters"
  BY <1>2 DEF Planned, CollectsFirst
<1>7. ASSUME NEW k \in 1 .. n + 1, k # 1
      PROVE  k - 1 \in 1 .. n /\ t[k] = p[k - 1]
  <2> DEFINE q == k - 1
  <2>1. q \in 1 .. n /\ q + 1 = k
    BY <1>2, <1>7
  <2> HIDE DEF q
  <2>2. t[q + 1] = p[q]
    BY <1>4, <2>1
  <2> QED BY <2>1, <2>2 DEF q
<1>8. ASSUME NEW k \in 1 .. n + 1
      PROVE  /\ t[k].op = "CollectMeters" =>
                k = n + 1 - 1 /\ t[k + 1].op = "ReadLevels"
             /\ t[k].op = "ReadLevels" =>
                k = n + 1 /\ k # 1 /\ t[k - 1].op = "CollectMeters"
  <2>1. CASE k = 1
    BY <1>3, <1>4, <2>1
  <2>2. CASE k # 1
    <3> DEFINE q == k - 1
    <3>1. q \in 1 .. n /\ t[k] = p[q] /\ k = q + 1
      BY <1>2, <1>7, <2>2
    <3> HIDE DEF q
    <3>2. ASSUME t[k].op = "CollectMeters"
          PROVE  k = n + 1 - 1 /\ t[k + 1].op = "ReadLevels"
      <4>1. q = n - 1 /\ p[q + 1].op = "ReadLevels"
        BY <1>6, <3>1, <3>2
      <4>2. k = n /\ k \in 1 .. n /\ p[k].op = "ReadLevels" /\ n = n + 1 - 1
        BY <1>2, <3>1, <4>1
      <4>3. t[k + 1] = p[k]
        BY <1>4, <4>2
      <4> QED BY <4>2, <4>3
    <3>3. ASSUME t[k].op = "ReadLevels"
          PROVE  k = n + 1 /\ k # 1 /\ t[k - 1].op = "CollectMeters"
      <4>1. q = n /\ q # 1 /\ p[q - 1].op = "CollectMeters"
        BY <1>6, <3>1, <3>3
      <4> DEFINE r == q - 1
      <4>2. r \in 1 .. n /\ r + 1 = q /\ q = k - 1 /\ k = n + 1
        BY <1>2, <3>1, <4>1
      <4> HIDE DEF r
      <4>3. t[r + 1] = p[r]
        BY <1>4, <4>2
      <4> QED BY <2>2, <4>1, <4>2, <4>3 DEF r
    <3> QED BY <3>2, <3>3
  <2> QED BY <2>1, <2>2
<1>9. Planned(t)
  BY <1>4, <1>5, <1>8 DEF Planned, CollectsFirst
<1>10. ReadsLevels(t) => ReadsLevels(p)
  <2> SUFFICES ASSUME NEW k \in 1 .. n + 1, t[k].op = "ReadLevels"
               PROVE  ReadsLevels(p)
    BY <1>5 DEF ReadsLevels
  <2>1. k # 1
    BY <1>3, <1>4
  <2> QED BY <1>2, <1>7, <2>1 DEF ReadsLevels
<1> QED BY <1>0, <1>9, <1>10 DEF t

-----------------------------------------------------------------------------
(* A job *)

Places ==
    /\ job \in Jobs /\ tables = [i \in DOMAIN Infos |-> table(Infos[i])]
    /\ line \in DOMAIN Lines /\ at \in DOMAIN Infos

(* Before the meters are collected, while they are read, and after.        *)
Waiting == Idle /\ Planned(todo)
Measuring ==
    /\ LastStep(todo) /\ answer = <<>>
    /\ Greedy(MetersIn(TableHere))
    /\ levels \in Seq(Nat)
    /\ levels \o addrs = Reading!Ascending(MetersIn(TableHere))
Measured ==
    /\ todo = <<>> /\ addrs = <<>>
    /\ Len(commands) = Reading!Least
    /\ levels = Reading!Ascending(MetersIn(TableHere))
    /\ answer = <<Reading!InputLevels, Reading!OutputLevels>>

ReadingInv == Places /\ (Waiting \/ Measuring \/ Measured)

LEMMA JobFacts ==
    ASSUME job \in Jobs
    PROVE  /\ Len(Infos) \in Nat \ {0} /\ DOMAIN Infos = 1 .. Len(Infos)
           /\ Len(Lines) \in Nat \ {0} /\ DOMAIN Lines = 1 .. Len(Lines)
  BY ControlAssumption DEF Infos, Lines

LEMMA MetersFacts ==
    ASSUME Places, \A j \in Jobs : Metered(j)
    PROVE  /\ MetersIn(TableHere) \in SUBSET Nat
           /\ IsFiniteSet(MetersIn(TableHere))
  BY DEF Places, Metered, TableHere, Table, Infos

LEMMA PlanFacts ==
    ASSUME Places, \A j \in Jobs : Metered(j),
           NEW l \in DOMAIN Lines, NEW i \in DOMAIN Infos
    PROVE  Planned(Plan(l, i))
<1>1. CollectsFirst(Plan(l, i))
  BY DEF Places, Metered, Plan, Table, Infos, Lines
<1> DEFINE p == Plan(l, i)
<1>2. CollectsFirst(p)
  BY <1>1
<1> HIDE DEF p
<1>3. \E S : p \in Seq(S)
  BY <1>2, Sequences DEF CollectsFirst
<1>4. Planned(p)
  BY <1>2, <1>3 DEF Planned
<1> QED BY <1>4 DEF p

LEMMA TurnPlaces ==
    ASSUME Places, NEW r, Return(r)
    PROVE  /\ Places' /\ Idle'
           /\ \/ \E l \in DOMAIN Lines, i \in DOMAIN Infos :
                    todo' = Plan(l, i) /\ at' = i
              \/ todo' = <<>>
<1>1. job' = job /\ tables' = tables /\ Idle' /\ Turn(Append(results, r))
  BY DEF Return, Idle
<1>2. Infos' = Infos /\ Lines' = Lines
  BY <1>1 DEF Infos, Lines
<1>3. /\ Len(Infos) \in Nat \ {0} /\ DOMAIN Infos = 1 .. Len(Infos)
      /\ Len(Lines) \in Nat \ {0} /\ DOMAIN Lines = 1 .. Len(Lines)
  BY JobFacts DEF Places
<1>4. line \in DOMAIN Lines /\ at \in DOMAIN Infos
  BY DEF Places
<1>5. \/ at < Len(Infos) /\ line' = line /\ at' = at + 1
         /\ todo' = Plan(line, at + 1)
      \/ line < Len(Lines) /\ line' = line + 1 /\ at' = 1
         /\ todo' = Plan(line + 1, 1)
      \/ line' = line /\ at' = at /\ todo' = <<>>
  BY <1>1 DEF Turn
<1>6. line' \in DOMAIN Lines /\ at' \in DOMAIN Infos
  BY <1>3, <1>4, <1>5
<1>7. Places'
  BY <1>1, <1>2, <1>6 DEF Places
<1>8. \/ \E l \in DOMAIN Lines, i \in DOMAIN Infos :
            todo' = Plan(l, i) /\ at' = i
      \/ todo' = <<>>
  <2>1. CASE line' = line /\ at' = at /\ todo' = <<>>
    BY <2>1
  <2>2. CASE at < Len(Infos) /\ line' = line /\ at' = at + 1
             /\ todo' = Plan(line, at + 1)
    BY <1>4, <1>6, <2>2
  <2>3. CASE line < Len(Lines) /\ line' = line + 1 /\ at' = 1
             /\ todo' = Plan(line + 1, 1)
    BY <1>6, <2>3
  <2> QED BY <1>5, <2>1, <2>2, <2>3
<1> QED BY <1>1, <1>7, <1>8

LEMMA ReturnFacts ==
    ASSUME Places, \A j \in Jobs : Metered(j), NEW r, Return(r)
    PROVE  Places' /\ Waiting'
<1>1. Places' /\ Idle'
  BY TurnPlaces
<1>2. Planned(todo')
  <2>1. CASE todo' = <<>>
    BY <2>1, PlannedEmpty
  <2>2. CASE \E l \in DOMAIN Lines, i \in DOMAIN Infos :
                todo' = Plan(l, i) /\ at' = i
    BY <2>2, PlanFacts
  <2> QED BY <2>1, <2>2, TurnPlaces
<1> QED BY <1>1, <1>2 DEF Waiting, Planned, CollectsFirst

(* What is left of a plan that is begun, but for the reading itself.       *)
LEMMA Before ==
    ASSUME ReadingInv, todo # <<>>, Head(todo).op # "ReadLevels"
    PROVE  Waiting
<1>1. CASE Measuring
  <2>1. PICK S : todo \in Seq(S)
    BY <1>1 DEF Measuring, LastStep
  <2>2. Head(todo) = todo[1]
    BY <2>1
  <2> QED BY <1>1, <2>2 DEF Measuring, LastStep
<1> QED BY <1>1 DEF ReadingInv, Measured

LEMMA During ==
    ASSUME ReadingInv, todo # <<>>, Head(todo).op = "ReadLevels"
    PROVE  Measuring /\ Tail(todo) = <<>>
<1>1. ~Waiting
  <2> SUFFICES ASSUME Planned(todo) PROVE FALSE
    BY DEF Waiting
  <2>1. Head(todo).op # "CollectMeters"
    OBVIOUS
  <2> QED BY <2>1, PlannedTail
<1>2. Measuring
  BY <1>1 DEF ReadingInv, Measured
<1>3. PICK S : todo \in Seq(S) /\ Len(todo) = 1
  BY <1>2 DEF Measuring, LastStep
<1>4. Tail(todo) \in Seq(S) /\ Len(Tail(todo)) = 0
  BY <1>3
<1>5. Tail(todo) = <<>>
  BY <1>4, EmptySeq, Zenon
<1> QED BY <1>2, <1>5

LEMMA ReadingInit ==
    ASSUME \A j \in Jobs : Metered(j), Init
    PROVE  ReadingInv
<1>1. 1 \in DOMAIN Lines /\ 1 \in DOMAIN Infos
  BY JobFacts DEF Init
<1>2. Places /\ Idle /\ todo = Plan(1, 1)
  BY <1>1 DEF Init, Places
<1>3. Planned(todo)
  BY <1>1, <1>2, PlanFacts
<1> QED BY <1>2, <1>3 DEF ReadingInv, Waiting

(* A step that leaves the job where it is, and the levels alone.           *)
LEMMA Stays ==
    ASSUME ReadingInv, UNCHANGED <<job, tables, line, at, reading>>
    PROVE  /\ Places' /\ (Idle <=> Idle')
           /\ todo' = todo => ReadingInv'
<1>1. Places' /\ (Idle <=> Idle')
  BY DEF ReadingInv, Places, Infos, Lines, reading, Idle
<1>2. ASSUME todo' = todo PROVE ReadingInv'
  <2>1. TableHere' = TableHere /\ addrs' = addrs /\ levels' = levels
        /\ commands' = commands /\ answer' = answer
    BY DEF TableHere, Table, reading
  <2>2. Waiting => Waiting'
    BY <1>1, <1>2 DEF Waiting, Planned, CollectsFirst
  <2>3. Measuring => Measuring'
    <3> PICK V : V = MetersIn(TableHere)
      OBVIOUS
    <3>1. MetersIn(TableHere') = V
      BY <2>1
    <3>2. Greedy(V) => Greedy(V)'
      BY <2>1 DEF Greedy, Increasing
    <3> QED BY <1>2, <2>1, <3>1, <3>2 DEF Measuring, LastStep
  <2>4. Measured => Measured'
    <3>1. Reading!Least' = Reading!Least
      BY <2>1 DEF Reading!Least, Reading!Suffices, Reading!Covers,
                  Reading!Wanted
    <3>2. Reading!InputLevels' = Reading!InputLevels
          /\ Reading!OutputLevels' = Reading!OutputLevels
      BY <2>1 DEF Reading!InputLevels, Reading!OutputLevels
    <3> QED BY <1>2, <2>1, <3>1, <3>2 DEF Measured
  <2> QED BY <1>1, <2>2, <2>3, <2>4 DEF ReadingInv
<1> QED BY <1>1, <1>2

LEMMA StaysWaiting ==
    ASSUME ReadingInv, UNCHANGED <<job, tables, line, at, reading>>,
           Waiting, Planned(todo')
    PROVE  ReadingInv'
  BY Stays DEF ReadingInv, Waiting, Planned, CollectsFirst

LEMMA CollectKept ==
    ASSUME \A j \in Jobs : Metered(j), ReadingInv, CollectMeters
    PROVE  ReadingInv'
<1>1. todo # <<>> /\ Head(todo).op = "CollectMeters"
  BY DEF CollectMeters, Doing
<1>2. Waiting /\ Places
  BY <1>1, Before DEF ReadingInv
<1>3. Places' /\ TableHere' = TableHere
  BY <1>2 DEF CollectMeters, Places, Infos, Lines, TableHere, Table
<1>4. LastStep(todo')
  BY <1>1, <1>2, PlannedCollect DEF Waiting, CollectMeters
<1> PICK V : V = MetersIn(TableHere)
  OBVIOUS
<1>5. V \in SUBSET Nat /\ IsFiniteSet(V)
  BY <1>2, MetersFacts
<1>6. MetersIn(TableHere') = V
  BY <1>3
<1>7. addrs' = Reading!Ascending(V) /\ commands' = <<>> /\ levels' = <<>>
      /\ answer' = <<>>
  BY <1>2 DEF CollectMeters, Waiting, Idle, Reading!Wanted, MetersIn
<1>8. Greedy(V)'
  BY <1>5, <1>7, GreedyInit
<1>9. levels' \o addrs' = Reading!Ascending(V) /\ levels' \in Seq(Nat)
  <2>1. addrs' \in Seq(Nat)
    BY <1>8 DEF Greedy
  <2>2. <<>> \o addrs' = addrs'
    BY <2>1, ConcatEmptySeq
  <2> QED BY <1>7, <2>2, EmptySeq
<1>10. Measuring'
  <2>1. LastStep(todo)' /\ (answer = <<>>)' /\ (levels \in Seq(Nat))'
    BY <1>4, <1>7, <1>9 DEF LastStep
  <2>2. Greedy(MetersIn(TableHere))'
    BY <1>6, <1>8
  <2>3. (levels \o addrs = Reading!Ascending(MetersIn(TableHere)))'
    BY <1>6, <1>9
  <2> QED BY <2>1, <2>2, <2>3 DEF Measuring
<1> QED BY <1>3, <1>10 DEF ReadingInv

(* The levels read and those left are the same before and after a chunk.   *)
LEMMA Moved ==
    ASSUME NEW s \in Seq(Nat), NEW w \in Seq(Nat), NEW m \in 1 .. Len(w)
    PROVE  /\ (s \o SubSeq(w, 1, m)) \o SubSeq(w, m + 1, Len(w)) = s \o w
           /\ s \o SubSeq(w, 1, m) \in Seq(Nat)
<1> DEFINE a == SubSeq(w, 1, m)
           b == SubSeq(w, m + 1, Len(w))
<1>1. a \in Seq(Nat) /\ b \in Seq(Nat)
  OBVIOUS
<1>2. a \o b = w
  <2>1. 1 \in 1 .. Len(w) + 1 /\ m \in 1 - 1 .. Len(w)
        /\ Len(w) \in m .. Len(w)
    OBVIOUS
  <2>2. SubSeq(w, 1, m) \o SubSeq(w, m + 1, Len(w)) = SubSeq(w, 1, Len(w))
    BY <2>1, ConcatAdjacentSubSeq, Zenon
  <2> QED BY <2>2, SubSeqFull
<1> HIDE DEF a, b
<1>3. (s \o a) \o b = s \o (a \o b)
  <2>1. a \in Seq(Nat) /\ b \in Seq(Nat)
    BY <1>1 DEF a, b
  <2> QED BY <2>1, SMTT(20)
<1>4. s \o a \in Seq(Nat)
  BY <1>1
<1>5. (s \o a) \o b = s \o w
  BY <1>2, <1>3
<1> QED BY <1>4, <1>5 DEF a, b

LEMMA LevelsKept ==
    ASSUME levels \in Seq(Nat), addrs \in Seq(Nat), Reading!ReadChunk
    PROVE  levels' \in Seq(Nat) /\ levels' \o addrs' = levels \o addrs
<1>1. addrs # <<>> /\ levels' = levels \o Reading!Chunk
      /\ addrs' = Reading!Remaining
  BY DEF Reading!ReadChunk
<1>2. PICK m \in 1 .. Len(addrs) : Reading!Chunk = SubSeq(addrs, 1, m)
  BY <1>1, ChunkFacts
<1>3. Len(SubSeq(addrs, 1, m)) = m
  OBVIOUS
<1>4. levels' = levels \o SubSeq(addrs, 1, m)
      /\ addrs' = SubSeq(addrs, m + 1, Len(addrs))
  BY <1>1, <1>2, <1>3 DEF Reading!Remaining
<1> QED BY <1>4, Moved

LEMMA ChunkKept ==
    ASSUME \A j \in Jobs : Metered(j), ReadingInv, ReadChunk
    PROVE  ReadingInv'
<1>1. Measuring /\ Places
  BY During DEF ReadChunk, Doing, ReadingInv
<1>2. Places' /\ TableHere' = TableHere /\ todo' = todo /\ answer' = answer
  BY <1>1 DEF ReadChunk, Places, Infos, Lines, TableHere, Table,
              Reading!ReadChunk
<1>3. Reading!ReadChunk
  BY DEF ReadChunk
<1> PICK V : V = MetersIn(TableHere)
  OBVIOUS
<1>4. V \in SUBSET Nat /\ Greedy(V)
  BY <1>1, MetersFacts DEF Measuring
<1>5. Greedy(V)'
  BY <1>3, <1>4, GreedyStep
<1>6. levels' \in Seq(Nat) /\ levels' \o addrs' = Reading!Ascending(V)
  BY <1>1, <1>3, <1>4, LevelsKept DEF Measuring, Greedy
<1>7. MetersIn(TableHere') = V
  BY <1>2
<1>8. Measuring'
  <2>1. LastStep(todo)' /\ (answer = <<>>)' /\ (levels \in Seq(Nat))'
    BY <1>1, <1>2, <1>6 DEF Measuring, LastStep
  <2>2. Greedy(MetersIn(TableHere))'
    BY <1>5, <1>7
  <2>3. (levels \o addrs = Reading!Ascending(MetersIn(TableHere)))'
    BY <1>6, <1>7
  <2> QED BY <2>1, <2>2, <2>3 DEF Measuring
<1> QED BY <1>2, <1>8 DEF ReadingInv

LEMMA SplitKept ==
    ASSUME \A j \in Jobs : Metered(j), ReadingInv, Split
    PROVE  ReadingInv' /\ todo' = <<>>
<1>1. Measuring /\ Places /\ Tail(todo) = <<>>
  BY During DEF Split, Doing, ReadingInv
<1>2. Places' /\ TableHere' = TableHere /\ todo' = <<>>
      /\ UNCHANGED <<addrs, levels, commands>> /\ addrs = <<>>
      /\ answer' = <<Reading!InputLevels, Reading!OutputLevels>>
  BY <1>1 DEF Split, Places, Infos, Lines, TableHere, Table, Reading!Split
<1>3. Len(commands) = Reading!Least
  BY <1>1, <1>2, MetersFacts, GreedyLeast DEF Measuring
<1>4. levels = Reading!Ascending(MetersIn(TableHere))
  <2>1. levels \o <<>> = levels
    BY <1>1, ConcatEmptySeq DEF Measuring
  <2> QED BY <1>1, <1>2, <2>1 DEF Measuring
<1>5. Reading!Least' = Reading!Least
  BY <1>2 DEF Reading!Least, Reading!Suffices, Reading!Covers, Reading!Wanted
<1>6. Reading!InputLevels' = Reading!InputLevels
      /\ Reading!OutputLevels' = Reading!OutputLevels
  BY <1>2 DEF Reading!InputLevels, Reading!OutputLevels
<1>7. (levels = Reading!Ascending(MetersIn(TableHere)))'
  BY <1>2, <1>4
<1>8. Measured'
  BY <1>2, <1>3, <1>5, <1>6, <1>7 DEF Measured
<1> QED BY <1>2, <1>8 DEF ReadingInv

LEMMA ReadingStep ==
    ASSUME \A j \in Jobs : Metered(j), ReadingInv, [Next]_vars
    PROVE  ReadingInv'
<1> USE DEF ReadingInv
<1>1. CASE \E i \in DOMAIN Infos : Switch(i)
  BY <1>1, Stays DEF Switch
<1>2. CASE Finished
  BY <1>2, ReturnFacts DEF Finished
<1>3. CASE Refused
  <2>1. CASE Head(todo).error = "panic"
    <3>1. Waiting
      BY <1>3, Before DEF Refused, Doing
    <3>2. todo' = <<>> /\ UNCHANGED <<job, tables, line, at, reading>>
      BY <1>3, <2>1 DEF Refused
    <3> QED BY <3>1, <3>2, PlannedEmpty, StaysWaiting
  <2>2. CASE Head(todo).error # "panic"
    <3> PICK r : r = Head(todo).error
      OBVIOUS
    <3>1. Return(r)
      BY <1>3, <2>2 DEF Refused
    <3> QED BY <3>1, ReturnFacts
  <2> QED BY <2>1, <2>2
<1>4. CASE Answered
  <2>1. todo # <<>> /\ Head(todo).op # "ReadLevels"
        /\ Head(todo).op # "CollectMeters" /\ todo' = Tail(todo)
        /\ UNCHANGED <<job, tables, line, at, reading>>
    BY <1>4 DEF Answered, Sending, Sent
  <2>2. Waiting /\ Planned(todo)
    BY <2>1, Before DEF Waiting
  <2> QED BY <2>1, <2>2, PlannedTail, StaysWaiting
<1>5. CASE Lost
  BY <1>5, ReturnFacts DEF Lost
<1>6. CASE FirFits
  <2>1. todo # <<>> /\ Head(todo).op = "IntoFirSize"
    BY <1>6 DEF FirFits, Doing
  <2>2. Waiting /\ Planned(todo)
    BY <2>1, Before DEF Waiting
  <2>3. CASE Return("TooManyCoefficients")
    BY <2>3, ReturnFacts
  <2>4. CASE todo' = Tail(todo)
             /\ UNCHANGED <<job, tables, line, at, reading>>
    BY <2>1, <2>2, <2>4, PlannedTail, StaysWaiting
  <2> QED BY <1>6, <2>3, <2>4 DEF FirFits
<1>7. CASE PresetRead
  <2>1. todo # <<>> /\ Head(todo).op = "AwaitPreset"
        /\ UNCHANGED <<job, tables, line, at, reading>>
    BY <1>7 DEF PresetRead, Doing
  <2>2. Waiting /\ Planned(todo)
    BY <2>1, Before DEF Waiting
  <2>3. todo' = Tail(todo) \/ todo' = get_master_status \o todo
    BY <1>7 DEF PresetRead
  <2> QED BY <2>1, <2>2, <2>3, PlannedTail, PlannedAgain, StaysWaiting
<1>8. CASE CollectMeters
  BY <1>8, CollectKept
<1>9. CASE ReadChunk
  BY <1>9, ChunkKept
<1>10. CASE Split
  BY <1>10, SplitKept
<1>11. CASE UNCHANGED vars
  BY <1>11, Stays DEF vars
<1> QED
  BY <1>1, <1>2, <1>3, <1>4, <1>5, <1>6, <1>7, <1>8, <1>9, <1>10, <1>11
     DEF Next, Ended

(* Levels are read with "the least amount of commands possible"            *)
(* (client.rs): however the meters of a device lie, no fewer ReadFloats    *)
(* would reach them all.                                                   *)
THEOREM LeastTheorem ==
    ASSUME \A j \in Jobs : Metered(j)
    PROVE  Spec => []LeastCommands
<1>1. Init => ReadingInv
  BY ReadingInit
<1>2. ReadingInv /\ [Next]_vars => ReadingInv'
  BY ReadingStep
<1>3. ReadingInv => LeastCommands
  BY DEF ReadingInv, Waiting, Idle, Measuring, Measured, LeastCommands,
         Reading!LeastCommands
<1> QED BY <1>1, <1>2, <1>3, PTL DEF Spec

-----------------------------------------------------------------------------
(* Whose levels they are *)

(* Where levels will be read or have been, the meters are in order. *)
OrderInv == ReadsLevels(todo) \/ answer # <<>> => MetersInOrder(TableHere)

LEMMA OrderInit ==
    ASSUME \A j \in Jobs : InOrderWhereRead(j), Init
    PROVE  OrderInv
<1>1. 1 \in DOMAIN Lines /\ 1 \in DOMAIN Infos
  BY JobFacts DEF Init
<1>2. TableHere = table(Infos[1]) /\ answer = <<>>
      /\ todo = run_command(table(Infos[1]), Infos[1], Lines[1])
  BY <1>1 DEF Init, TableHere, Table, Plan, Idle
<1> QED BY <1>1, <1>2 DEF OrderInv, InOrderWhereRead, Init, Infos, Lines

LEMMA OrderReturn ==
    ASSUME \A j \in Jobs : InOrderWhereRead(j), Places, NEW r, Return(r)
    PROVE  OrderInv'
<1>1. Places' /\ Idle' /\ job' = job /\ tables' = tables
  BY TurnPlaces DEF Return
<1>2. CASE todo' = <<>>
  BY <1>1, <1>2, PlannedEmpty DEF OrderInv, Idle, ReadsLevels
<1>3. ASSUME NEW l \in DOMAIN Lines, NEW i \in DOMAIN Infos,
             todo' = Plan(l, i), at' = i
      PROVE  OrderInv'
  <2>1. TableHere' = table(Infos[i])
        /\ todo' = run_command(table(Infos[i]), Infos[i], Lines[l])
    BY <1>1, <1>3 DEF Places, TableHere, Table, Plan
  <2>2. ReadsLevels(todo') => MetersInOrder(TableHere')
    BY <2>1 DEF Places, InOrderWhereRead, Infos, Lines
  <2> QED BY <1>1, <2>2 DEF OrderInv, Idle, ReadsLevels
<1> QED BY <1>2, <1>3, TurnPlaces

LEMMA OrderStep ==
    ASSUME \A j \in Jobs : Metered(j), \A j \in Jobs : InOrderWhereRead(j),
           ReadingInv, OrderInv, [Next]_vars
    PROVE  OrderInv'
<1>1. ASSUME UNCHANGED <<tables, at>>, ReadsLevels(todo') => ReadsLevels(todo),
             answer' = answer
      PROVE  OrderInv'
  BY <1>1 DEF OrderInv, TableHere, Table, ReadsLevels
<1>2. ASSUME NEW r, Return(r) PROVE OrderInv'
  BY <1>2, OrderReturn DEF ReadingInv
<1>3. ASSUME todo # <<>>, Head(todo).op # "ReadLevels",
             Head(todo).op # "CollectMeters", todo' = Tail(todo),
             UNCHANGED <<tables, at>>, answer' = answer
      PROVE  OrderInv'
  <2>1. Planned(todo)
    BY <1>3, Before DEF Waiting
  <2> QED BY <1>1, <1>3, <2>1, PlannedTail
<1>4. CASE \E i \in DOMAIN Infos : Switch(i)
  BY <1>1, <1>4 DEF Switch, reading
<1>5. CASE Finished
  BY <1>2, <1>5 DEF Finished
<1>6. CASE Refused
  <2>1. CASE Head(todo).error = "panic"
    <3>1. todo' = <<>> /\ UNCHANGED <<tables, at>> /\ answer' = answer
      BY <1>6, <2>1 DEF Refused, reading
    <3> QED BY <1>1, <3>1, PlannedEmpty
  <2>2. CASE Head(todo).error # "panic"
    <3> PICK r : r = Head(todo).error
      OBVIOUS
    <3>1. Return(r)
      BY <1>6, <2>2 DEF Refused
    <3> QED BY <1>2, <3>1
  <2> QED BY <2>1, <2>2
<1>7. CASE Answered
  <2>1. todo # <<>> /\ Head(todo).op # "ReadLevels"
        /\ Head(todo).op # "CollectMeters" /\ todo' = Tail(todo)
        /\ UNCHANGED <<tables, at>> /\ answer' = answer
    BY <1>7 DEF Answered, Sending, Sent, reading
  <2> QED BY <1>3, <2>1
<1>8. CASE Lost
  BY <1>2, <1>8 DEF Lost
<1>9. CASE FirFits
  <2>1. todo # <<>> /\ Head(todo).op = "IntoFirSize"
    BY <1>9 DEF FirFits, Doing
  <2>2. CASE Return("TooManyCoefficients")
    BY <1>2, <2>2
  <2>3. CASE todo' = Tail(todo) /\ UNCHANGED <<tables, at>>
             /\ answer' = answer
    BY <1>3, <2>1, <2>3
  <2> QED BY <1>9, <2>2, <2>3 DEF FirFits, reading
<1>10. CASE PresetRead
  <2>1. todo # <<>> /\ Head(todo).op = "AwaitPreset"
        /\ UNCHANGED <<tables, at>> /\ answer' = answer
    BY <1>10 DEF PresetRead, Doing, reading
  <2>2. Planned(todo)
    BY <2>1, Before DEF Waiting
  <2>3. todo' = Tail(todo) \/ todo' = get_master_status \o todo
    BY <1>10 DEF PresetRead
  <2>4. CASE todo' = Tail(todo)
    BY <1>3, <2>1, <2>4
  <2>5. CASE todo' = get_master_status \o todo
    BY <1>1, <2>1, <2>2, <2>5, PlannedAgain
  <2> QED BY <2>3, <2>4, <2>5
<1>11. CASE CollectMeters
  <2>1. todo # <<>> /\ Head(todo).op = "CollectMeters"
        /\ UNCHANGED <<tables, at>> /\ answer' = answer
    BY <1>11 DEF CollectMeters, Doing
  <2>2. ReadsLevels(todo)
    BY <2>1, Before, PlannedCollect DEF Waiting
  <2> QED BY <1>1, <2>1, <2>2
<1>12. CASE ReadChunk
  BY <1>1, <1>12 DEF ReadChunk, Reading!ReadChunk
<1>13. CASE Split
  <2>1. Measuring /\ tables' = tables /\ at' = at
    BY <1>13, During DEF Split, Doing
  <2>2. ReadsLevels(todo)
    <3>1. PICK S : todo \in Seq(S) /\ Len(todo) = 1
                   /\ todo[1].op = "ReadLevels"
      BY <2>1 DEF Measuring, LastStep
    <3>2. 1 \in DOMAIN todo
      BY <3>1
    <3> QED BY <3>1, <3>2 DEF ReadsLevels
  <2> QED BY <2>1, <2>2 DEF OrderInv, TableHere, Table
<1>14. CASE UNCHANGED vars
  BY <1>1, <1>14 DEF vars, reading
<1> QED
  BY <1>4, <1>5, <1>6, <1>7, <1>8, <1>9, <1>10, <1>11, <1>12, <1>13, <1>14
     DEF Next, Ended

(* What is cut off behind the levels of the inputs are the outputs'. *)
LEMMA Cut ==
    ASSUME NEW s \in Seq(Nat), NEW t \in Seq(Nat)
    PROVE  /\ SubSeq(s \o t, 1, Len(s)) = s
           /\ SubSeq(s \o t, Len(s) + 1, Len(s \o t)) = t
<1> DEFINE u == s \o t
           n == Len(s)
           m == Len(t)
<1>1. n \in Nat /\ m \in Nat /\ u \in Seq(Nat) /\ Len(u) = n + m
      /\ \A k \in 1 .. n + m : u[k] = IF k <= n THEN s[k] ELSE t[k - n]
  OBVIOUS
<1> HIDE DEF u
<1>2. SubSeq(u, 1, n) = s
  <2>1. SubSeq(u, 1, n) \in Seq(Nat) /\ Len(SubSeq(u, 1, n)) = n
        /\ \A k \in 1 .. n : SubSeq(u, 1, n)[k] = u[k]
    BY <1>1
  <2>2. \A k \in 1 .. n : u[k] = s[k]
    BY <1>1
  <2> QED BY <2>1, <2>2, SeqEqual
<1>3. SubSeq(u, n + 1, n + m) = t
  <2> DEFINE v == SubSeq(u, n + 1, n + m)
  <2>1. v \in Seq(Nat) /\ Len(v) = m /\ \A k \in 1 .. m : v[k] = u[n + k]
    BY <1>1, SMTT(20)
  <2> HIDE DEF v
  <2>2. ASSUME NEW k \in 1 .. m PROVE u[n + k] = t[k]
    <3> DEFINE q == n + k
    <3>1. q \in 1 .. n + m /\ ~ (q <= n) /\ q - n = k
      BY <1>1
    <3> HIDE DEF q
    <3>2. u[q] = t[q - n]
      BY <1>1, <3>1
    <3> QED BY <3>1, <3>2 DEF q
  <2>3. v = t
    BY <2>1, <2>2, SeqEqual
  <2> QED BY <2>3 DEF v
<1> QED BY <1>1, <1>2, <1>3 DEF u

(* Where the meters of the outputs follow those of the inputs, every       *)
(* channel gets the level of its own meter, whichever commands read it.    *)
THEOREM EachItsOwnTheorem ==
    ASSUME \A j \in Jobs : Metered(j), \A j \in Jobs : InOrderWhereRead(j)
    PROVE  Spec => []EachItsOwn
<1>1. Init => ReadingInv /\ OrderInv
  BY ReadingInit, OrderInit
<1>2. ReadingInv /\ OrderInv /\ [Next]_vars => (ReadingInv /\ OrderInv)'
  BY ReadingStep, OrderStep
<1>3. ReadingInv /\ OrderInv => EachItsOwn
  <2> SUFFICES ASSUME ReadingInv, OrderInv, answer # <<>>
               PROVE  answer = <<Reading!MetersOf(TableHere.inputs),
                                 Reading!MetersOf(TableHere.outputs)>>
    BY DEF EachItsOwn, Reading!EachItsOwn
  <2> DEFINE ins == Reading!MetersOf(TableHere.inputs)
             outs == Reading!MetersOf(TableHere.outputs)
  <2>1. Measured
    BY DEF ReadingInv, Waiting, Idle, Measuring
  <2>2. /\ ins \in Seq(Nat) /\ outs \in Seq(Nat)
        /\ Reading!Ascending(MetersIn(TableHere)) = ins \o outs
        /\ Len(ins) = Min({Len(TableHere.inputs), Len(ins \o outs)})
    BY DEF OrderInv, MetersInOrder
  <2>3. levels = ins \o outs
    BY <2>1, <2>2 DEF Measured
  <2>4. Reading!InputLevels = SubSeq(levels, 1, Len(ins))
    BY <2>2, <2>3 DEF Reading!InputLevels, Reading!Min, Min
  <2>5. Reading!OutputLevels = SubSeq(levels, Len(ins) + 1, Len(levels))
    BY DEF Reading!OutputLevels
  <2> HIDE DEF ins, outs
  <2>6. Reading!InputLevels = ins /\ Reading!OutputLevels = outs
    BY <2>2, <2>3, <2>4, <2>5, Cut
  <2> QED BY <2>1, <2>6 DEF Measured, ins, outs
<1> QED BY <1>1, <1>2, <1>3, PTL DEF Spec

-----------------------------------------------------------------------------
(* What a command does to the device's memory *)

IsDsp(d) ==
    /\ d = [k \in DOMAIN d |-> d[k]]
    /\ DOMAIN d = {"words", "bypassed", "filters", "master", "next"}

IsMaster(m) ==
    /\ m = [k \in DOMAIN m |-> m[k]]
    /\ DOMAIN m = {"preset", "source", "volume", "mute", "dirac"}
    /\ m.source \in 0 .. 255 /\ m.volume \in -255 .. 0
    /\ m.mute \in BOOLEAN /\ m.dirac \in BOOLEAN

Memory(d, words, flags) ==
    /\ IsDsp(d)
    /\ DOMAIN d.words \subseteq words
    /\ DOMAIN d.bypassed \subseteq flags
    /\ DOMAIN d.filters \subseteq 0 .. 255
    /\ IsMaster(d.master)

LEMMA StoredDomain ==
    ASSUME NEW f, NEW at0 \in Nat, NEW values, Len(values) \in Nat
    PROVE  DOMAIN Stored(f, at0, values) =
              (at0 .. at0 + Len(values) - 1) \cup DOMAIN f
  BY DEF Stored

(* The commands that are no writes leave it alone. *)
Others == {"FirLoadStart", "FirLoadData", "FirLoadEnd", "SetConfig",
           "SetSource", "SetMute", "SetVolume", "DiracBypass", "ReadMemory"}

Typed(c) ==
    /\ c.op = "FirLoadStart" => c.index \in 0 .. 255
    /\ c.op = "SetSource" => c.source \in 0 .. 255
    /\ c.op = "SetVolume" => c.value \in Int

(* What is left to do with a command that is no write. *)
Mild(e) ==
    \/ e.op \in {"ReadMemory", "SetConfig", "FirLoadData", "FirLoadEnd"}
    \/ e.op = "FirLoadStart" /\ e.index \in 0 .. 255
    \/ e.op = "SetSource" /\ e.source \in 0 .. 255
    \/ e.op = "SetMute" /\ e.value \in BOOLEAN
    \/ e.op = "SetVolume" /\ e.value \in -255 .. 0
    \/ e.op = "Unknown" /\ e.cmd_id = 63

LEMMA Second ==
    ASSUME NEW a, NEW x
    PROVE  <<a, x>>[1] = a /\ Tail(<<a, x>>)[1] = x
<1>1. <<a, x>> \in Seq({a, x}) /\ Len(<<a, x>>) = 2 /\ <<a, x>>[2] = x
  OBVIOUS
<1>2. Tail(<<a, x>>)[1] = <<a, x>>[2]
  BY <1>1
<1> QED BY <1>1, <1>2

(* The frames that are no writes, by their first byte. *)
LEMMA ReadOther ==
    ASSUME NEW f
    PROVE  LET id == f.head[1]
               x == Tail(f.head)[1]
               e == from_bytes(f)
           IN  /\ id = 5 => e.op = "ReadMemory"
               /\ id = 23 => e = [op |-> "SetMute", value |-> x # 0]
               /\ id = 37 => e = [op |-> "SetConfig", config |-> x]
               /\ id = 52 => e = [op |-> "SetSource", source |-> x]
               /\ id = 57 => e = [op |-> "FirLoadStart", index |-> x]
               /\ id = 58 => e.op = "FirLoadData" /\ e.index = x
               /\ id = 59 => e = [op |-> "FirLoadEnd"]
               /\ id = 63 => e = [op |-> "Unknown", cmd_id |-> 63,
                                  payload |-> Tail(f.head)]
               /\ id = 66 => e.op = "SetVolume" /\ e.value = -x
<1> DEFINE id == f.head[1]
           b == Tail(f.head)
           e == from_bytes(f)
           memory == [op |-> "ReadMemory", addr |-> 256 * b[1] + b[2],
                      size |-> b[3]]
           word == [op |-> "Write", addr |-> read(b, AddrLen(f, 6)),
                    value |-> f.words[1]]
           muting == [op |-> "SetMute", value |-> b[1] # 0]
           bypass == [op |-> "WriteBiquadBypass",
                      addr |-> read(b, AddrLen(f, 2)),
                      value |-> read(b, AddrLen(f, 2)).extra_bit]
           config == [op |-> "SetConfig", config |-> b[1]]
           biquad == [op |-> "WriteBiquad", addr |-> read(b, AddrLen(f, 24)),
                      data |-> f.words]
           source == [op |-> "SetSource", source |-> b[1]]
           start == [op |-> "FirLoadStart", index |-> b[1]]
           data == [op |-> "FirLoadData", index |-> b[1],
                    data |-> SubSeq(f.words, 1, Len(f.words) - 1)]
           end == [op |-> "FirLoadEnd"]
           volume == [op |-> "SetVolume", value |-> -b[1]]
           unknown == [op |-> "Unknown", cmd_id |-> id, payload |-> b]
<1>1. e = CASE id = 5 -> memory [] id = 19 -> word [] id = 23 -> muting
            [] id = 25 -> bypass [] id = 37 -> config [] id = 48 -> biquad
            [] id = 52 -> source [] id = 57 -> start [] id = 58 -> data
            [] id = 59 -> end [] id = 66 -> volume [] OTHER -> unknown
  BY DEF from_bytes
<1>2. memory.op = "ReadMemory" /\ data.op = "FirLoadData" /\ data.index = b[1]
      /\ volume.op = "SetVolume" /\ volume.value = -b[1]
  OBVIOUS
<1>3. id = 63 => unknown = [op |-> "Unknown", cmd_id |-> 63, payload |-> b]
  OBVIOUS
<1> HIDE DEF id, e, memory, word, muting, bypass, config, biquad, source,
             start, data, end, volume, unknown
<1>4. /\ id = 5 => e = memory
      /\ id = 23 => e = muting
      /\ id = 37 => e = config
      /\ id = 52 => e = source
      /\ id = 57 => e = start
      /\ id = 58 => e = data
      /\ id = 59 => e = end
      /\ id = 63 => e = unknown
      /\ id = 66 => e = volume
  BY <1>1, SMT
<1> QED
  BY <1>2, <1>3, <1>4, Zenon
     DEF id, e, muting, config, source, start, end, volume

LEMMA OthersUnderstood ==
    ASSUME NEW c, c.op \in Others, Typed(c)
    PROVE  Mild(from_bytes(to_bytes(c)))
<1> DEFINE f == to_bytes(c)
           e == from_bytes(f)
<1>1. CASE c.op = "ReadMemory"
  <2>1. f = Frame(<<5, c.addr \div 256, c.addr % 256, c.size>>, <<>>)
    BY <1>1, SMT DEF to_bytes
  <2> HIDE DEF f
  <2>2. f.head[1] = 5
    BY <2>1 DEF Frame
  <2>3. e.op = "ReadMemory"
    BY <2>2, ReadOther
  <2> QED BY <2>3 DEF Mild, f
<1>2. CASE c.op = "SetConfig"
  <2>1. f = Frame(<<37, c.config, Bit(TRUE)>>, <<>>)
    BY <1>2, SMT DEF to_bytes
  <2> HIDE DEF f
  <2>2. f.head[1] = 37
    BY <2>1 DEF Frame
  <2>3. e.op = "SetConfig"
    BY <2>2, ReadOther
  <2> QED BY <2>3 DEF Mild, f
<1>3. CASE c.op = "SetSource"
  <2>1. f = Frame(<<52, c.source>>, <<>>)
    BY <1>3, SMT DEF to_bytes
  <2> HIDE DEF f
  <2>2. f.head[1] = 52 /\ Tail(f.head)[1] = c.source
    BY <2>1, Second DEF Frame
  <2>3. e = [op |-> "SetSource", source |-> c.source]
    BY <2>2, ReadOther, ZenonT(60)
  <2>4. c.source \in 0 .. 255
    BY <1>3 DEF Typed
  <2> QED BY <2>3, <2>4 DEF Mild, f
<1>4. CASE c.op = "SetMute"
  <2> PICK x : x = Bit(c.value)
    OBVIOUS
  <2>1. f = Frame(<<23, x>>, <<>>)
    BY <1>4, SMT DEF to_bytes
  <2> HIDE DEF f
  <2>2. f.head[1] = 23 /\ Tail(f.head)[1] = x
    BY <2>1, Second DEF Frame
  <2>3. e = [op |-> "SetMute", value |-> x # 0]
    BY <2>2, ReadOther, ZenonT(60)
  <2> QED BY <2>3 DEF Mild, f
<1>5. CASE c.op = "SetVolume"
  <2> PICK x : x = GainByte(c.value)
    OBVIOUS
  <2>1. f = Frame(<<66, x>>, <<>>)
    BY <1>5, SMT DEF to_bytes
  <2> HIDE DEF f
  <2>2. f.head[1] = 66 /\ Tail(f.head)[1] = x
    BY <2>1, Second DEF Frame
  <2>3. e.op = "SetVolume" /\ e.value = -x
    <3>1. f.head[1] = 66
      BY <2>2
    <3>2. e.op = "SetVolume" /\ e.value = -(Tail(f.head)[1])
      BY <3>1, ReadOther, Zenon
    <3> HIDE DEF e
    <3> QED BY <2>2, <3>2, Zenon
  <2>4. x \in 0 .. 255
    BY <1>5 DEF Typed, GainByte
  <2>5. -x \in -255 .. 0
    BY <2>4
  <2> QED BY <2>3, <2>5 DEF Mild, f
<1>6. CASE c.op = "DiracBypass"
  <2>1. f = Frame(<<63, c.value>>, <<>>)
    BY <1>6, SMT DEF to_bytes
  <2> HIDE DEF f
  <2>2. f.head[1] = 63
    BY <2>1 DEF Frame
  <2>3. e.op = "Unknown" /\ e.cmd_id = 63
    BY <2>2, ReadOther
  <2> QED BY <2>3 DEF Mild, f
<1>7. CASE c.op = "FirLoadStart"
  <2>1. f = Frame(<<57, c.index>>, <<>>)
    BY <1>7, SMT DEF to_bytes
  <2> HIDE DEF f
  <2>2. f.head[1] = 57 /\ Tail(f.head)[1] = c.index
    BY <2>1, Second DEF Frame
  <2>3. e = [op |-> "FirLoadStart", index |-> c.index]
    BY <2>2, ReadOther, ZenonT(60)
  <2>4. c.index \in 0 .. 255
    BY <1>7 DEF Typed
  <2> QED BY <2>3, <2>4 DEF Mild, f
<1>8. CASE c.op = "FirLoadData"
  <2>1. f = Frame(<<58, c.index>>, c.data)
    BY <1>8, SMT DEF to_bytes
  <2> HIDE DEF f
  <2>2. f.head[1] = 58
    BY <2>1 DEF Frame
  <2>3. e.op = "FirLoadData"
    BY <2>2, ReadOther
  <2> QED BY <2>3 DEF Mild, f
<1>9. CASE c.op = "FirLoadEnd"
  <2>1. f = Frame(<<59>>, <<>>)
    BY <1>9, SMT DEF to_bytes
  <2> HIDE DEF f
  <2>2. f.head[1] = 59
    BY <2>1 DEF Frame
  <2>3. e.op = "FirLoadEnd"
    BY <2>2, ReadOther
  <2> QED BY <2>3 DEF Mild, f
<1> HIDE DEF e, f
<1> QED
  BY <1>1, <1>2, <1>3, <1>4, <1>5, <1>6, <1>7, <1>8, <1>9 DEF Others

LEMMA StoredSmall ==
    ASSUME NEW g, DOMAIN g \subseteq 0 .. 255, NEW n \in 0 .. 255, NEW v
    PROVE  DOMAIN Stored(g, n, <<v>>) \subseteq 0 .. 255
<1>1. Len(<<v>>) = 1
  OBVIOUS
<1>2. DOMAIN Stored(g, n, <<v>>) = (n .. n + Len(<<v>>) - 1) \cup DOMAIN g
  <2>1. n \in Nat /\ Len(<<v>>) \in Nat
    BY <1>1
  <2> QED BY <2>1, StoredDomain, Zenon
<1> QED BY <1>1, <1>2

LEMMA Elsewhere ==
    ASSUME NEW d, NEW words, NEW flags, Memory(d, words, flags), NEW x
    PROVE  /\ DOMAIN x \subseteq 0 .. 255 =>
                Memory([d EXCEPT !.filters = x], words, flags)
           /\ IsMaster(x) => Memory([d EXCEPT !.master = x], words, flags)
           /\ Memory([d EXCEPT !.next = x], words, flags)
<1>1. DOMAIN x \subseteq 0 .. 255 =>
        Memory([d EXCEPT !.filters = x], words, flags)
  BY SMT DEF Memory, IsDsp
<1>2. IsMaster(x) => Memory([d EXCEPT !.master = x], words, flags)
  BY SMT DEF Memory, IsDsp
<1>3. Memory([d EXCEPT !.next = x], words, flags)
  BY SMT DEF Memory, IsDsp
<1> QED BY <1>1, <1>2, <1>3

LEMMA MasterSet ==
    ASSUME NEW m, IsMaster(m), NEW b \in BOOLEAN, NEW x
    PROVE  /\ IsMaster([m EXCEPT !.mute = b])
           /\ IsMaster([m EXCEPT !.dirac = b])
           /\ IsMaster([m EXCEPT !.preset = x])
           /\ x \in 0 .. 255 => IsMaster([m EXCEPT !.source = x])
           /\ x \in -255 .. 0 => IsMaster([m EXCEPT !.volume = x])
<1>1. IsMaster([m EXCEPT !.mute = b])
  BY SMT DEF IsMaster
<1>2. IsMaster([m EXCEPT !.dirac = b])
  BY SMT DEF IsMaster
<1>3. IsMaster([m EXCEPT !.preset = x])
  BY SMT DEF IsMaster
<1>4. x \in 0 .. 255 => IsMaster([m EXCEPT !.source = x])
  BY SMT DEF IsMaster
<1>5. x \in -255 .. 0 => IsMaster([m EXCEPT !.volume = x])
  BY SMT DEF IsMaster
<1> QED BY <1>1, <1>2, <1>3, <1>4, <1>5

LEMMA OthersMemory ==
    ASSUME NEW d, NEW f, NEW words, NEW flags, Memory(d, words, flags),
           Mild(from_bytes(f))
    PROVE  Memory(execute(d, f), words, flags)
<1> DEFINE c == from_bytes(f)
           e == execute(d, f)
<1>0. IsMaster(d.master) /\ DOMAIN d.filters \subseteq 0 .. 255
  BY DEF Memory
<1> HIDE DEF c
<1>1. CASE c.op = "FirLoadStart" /\ c.index \in 0 .. 255
  <2> PICK x : x = Stored(d.filters, c.index, << <<>> >>)
    OBVIOUS
  <2> PICK d1 : d1 = [d EXCEPT !.filters = x]
    OBVIOUS
  <2> PICK y : y = [d1.master EXCEPT !.mute = TRUE]
    OBVIOUS
  <2>1. e = [d1 EXCEPT !.master = y]
    BY <1>1, SMT DEF execute, c
  <2>2. Memory(d1, words, flags)
    <3> PICK g, n, v : g = d.filters /\ n = c.index /\ v = <<>>
      OBVIOUS
    <3>0. x = Stored(g, n, <<v>>)
      OBVIOUS
    <3>1. DOMAIN g \subseteq 0 .. 255 /\ n \in 0 .. 255
      BY <1>0, <1>1
    <3>2. DOMAIN Stored(g, n, <<v>>) \subseteq 0 .. 255
      BY <3>1, StoredSmall, Zenon
    <3>3. DOMAIN x \subseteq 0 .. 255
      BY <3>0, <3>2, Zenon
    <3> QED BY <3>3, Elsewhere, Zenon
  <2>3. IsMaster(y)
    <3>1. IsMaster(d1.master)
      BY <2>2 DEF Memory
    <3> QED BY <3>1, MasterSet
  <2>4. Memory([d1 EXCEPT !.master = y], words, flags)
    BY <2>2, <2>3, Elsewhere
  <2> QED BY <2>1, <2>4, Zenon
<1>2. CASE c.op = "FirLoadData"
  <2> PICK x : x = [d.filters EXCEPT ![c.index] = @ \o f.words]
    OBVIOUS
  <2>1. e = [d EXCEPT !.filters = x]
    BY <1>2, SMT DEF execute, c
  <2>2. Memory([d EXCEPT !.filters = x], words, flags)
    BY <1>0, Elsewhere
  <2> QED BY <2>1, <2>2, Zenon
<1>3. CASE c.op \in {"FirLoadEnd", "ReadMemory"}
  <2>1. c.op = "FirLoadEnd" => e = d
    BY SMT DEF execute, c
  <2>2. c.op = "ReadMemory" => e = d
    BY SMT DEF execute, c
  <2> QED BY <1>3, <2>1, <2>2
<1>4. CASE c.op = "SetConfig"
  <2> PICK x : x = Some(c.config)
    OBVIOUS
  <2>1. e = [d EXCEPT !.next = x]
    BY <1>4, SMT DEF execute, c
  <2>2. Memory([d EXCEPT !.next = x], words, flags)
    BY Elsewhere
  <2> QED BY <2>1, <2>2, Zenon
<1>5. CASE c.op = "SetSource" /\ c.source \in 0 .. 255
  <2> PICK x : x = [d.master EXCEPT !.source = c.source]
    OBVIOUS
  <2>1. e = [d EXCEPT !.master = x]
    BY <1>5, SMT DEF execute, c
  <2>2. IsMaster(x)
    BY <1>0, <1>5, MasterSet
  <2>3. Memory([d EXCEPT !.master = x], words, flags)
    BY <2>2, Elsewhere
  <2> QED BY <2>1, <2>3, Zenon
<1>6. CASE c.op = "SetMute" /\ c.value \in BOOLEAN
  <2> PICK x : x = [d.master EXCEPT !.mute = c.value]
    OBVIOUS
  <2>1. e = [d EXCEPT !.master = x]
    BY <1>6, SMT DEF execute, c
  <2>2. IsMaster(x)
    BY <1>0, <1>6, MasterSet
  <2>3. Memory([d EXCEPT !.master = x], words, flags)
    BY <2>2, Elsewhere
  <2> QED BY <2>1, <2>3, Zenon
<1>7. CASE c.op = "SetVolume" /\ c.value \in -255 .. 0
  <2> PICK x : x = [d.master EXCEPT !.volume = c.value]
    OBVIOUS
  <2>1. e = [d EXCEPT !.master = x]
    BY <1>7, SMT DEF execute, c
  <2>2. IsMaster(x)
    BY <1>0, <1>7, MasterSet
  <2>3. Memory([d EXCEPT !.master = x], words, flags)
    BY <2>2, Elsewhere
  <2> QED BY <2>1, <2>3, Zenon
<1>8. CASE c.op = "Unknown" /\ c.cmd_id = 63
  <2> PICK b \in BOOLEAN : b = (c.payload[1] = 0)
    OBVIOUS
  <2> PICK x : x = [d.master EXCEPT !.dirac = b]
    OBVIOUS
  <2>1. e = [d EXCEPT !.master = x]
    BY <1>8, SMT DEF execute, c
  <2>2. IsMaster(x)
    BY <1>0, MasterSet
  <2>3. Memory([d EXCEPT !.master = x], words, flags)
    BY <2>2, Elsewhere
  <2> QED BY <2>1, <2>3, Zenon
<1> HIDE DEF e
<1>9. Mild(c)
  BY DEF c
<1> QED
  BY <1>1, <1>2, <1>3, <1>4, <1>5, <1>6, <1>7, <1>8, <1>9 DEF Mild

(* A write reaches the words and the flags its line asks for.              *)
LEMMA WritesMemory ==
    ASSUME NEW t, NEW c, NEW d, NEW words, NEW flags,
           Memory(d, words, flags), WritesWithin(t, c, words, flags)
    PROVE  Memory(execute(d, to_bytes(c)), words, flags)
<1> DEFINE Form(a) ==
        \/ /\ c.op = "Write" /\ a \in words
           /\ \E v \in {c.value} :
                 c = [op |-> "Write", addr |-> addr(t, a), value |-> v]
        \/ /\ c.op = "WriteBiquad"
           /\ a .. a + BiquadWords - 1 \subseteq words
           /\ \E v \in {c.data} :
                 /\ c = [op |-> "WriteBiquad", addr |-> addr(t, a),
                         data |-> v]
                 /\ Len(v) = BiquadWords
        \/ /\ c.op = "WriteBiquadBypass" /\ a \in flags
           /\ \E v \in {c.value} :
                 /\ c = [op |-> "WriteBiquadBypass", addr |-> addr(t, a),
                         value |-> v]
                 /\ v \in BOOLEAN
           N == Reach(t.addr_len)
<1>a. t.addr_len \in {2, 3}
      /\ \E a \in {c.addr.val} : a \in 0 .. N - 1 /\ Form(a)
  BY Zenon DEF WritesWithin
<1> HIDE DEF Form
<1> PICK a : a \in 0 .. N - 1 /\ Form(a)
  BY <1>a
<1> PICK len : len = t.addr_len
  OBVIOUS
<1>b. len \in Lens /\ a \in Nat /\ a < Reach(len)
  BY <1>a, ReachFacts, SMT DEF Lens
<1>c. addr(t, a) = Address(a, len, TRUE)
  BY DEF addr, Address
<1> HIDE DEF N
<1> DEFINE e == execute(d, to_bytes(c))
<1>1. ASSUME NEW v, c = [op |-> "Write", addr |-> addr(t, a), value |-> v],
             a \in words
      PROVE  Memory(e, words, flags)
  <2>1. c = [op |-> "Write", addr |-> Address(a, len, TRUE), value |-> v]
    BY <1>1, <1>c
  <2>2. from_bytes(to_bytes(c)) = c
    BY <1>b, <2>1, WriteUnderstood
  <2>3. e = [d EXCEPT !.words = Stored(@, a, <<v>>)]
    <3>1. c.op = "Write" /\ c.addr.val = a /\ c.value = v
      BY <2>1 DEF Address
    <3> QED BY <2>2, <3>1, SMT DEF execute
  <2>4. DOMAIN Stored(d.words, a, <<v>>) = {a} \cup DOMAIN d.words
    <3>1. Len(<<v>>) = 1 /\ a .. a + 1 - 1 = {a}
      BY <1>b
    <3> QED BY <1>b, <3>1, StoredDomain
  <2> QED BY <1>1, <2>3, <2>4, SMT DEF Memory, IsDsp
<1>2. ASSUME NEW v, Len(v) = 5, a .. a + 5 - 1 \subseteq words,
             c = [op |-> "WriteBiquad", addr |-> addr(t, a), data |-> v]
      PROVE  Memory(e, words, flags)
  <2>1. c = [op |-> "WriteBiquad", addr |-> Address(a, len, TRUE), data |-> v]
    BY <1>2, <1>c
  <2>2. from_bytes(to_bytes(c)) = c
    BY <1>b, <1>2, <2>1, WriteBiquadUnderstood
  <2>3. c.op = "WriteBiquad" /\ c.addr.val = a /\ c.data = v
    BY <2>1 DEF Address
  <2>4. e = [d EXCEPT !.words = Stored(@, a, v)]
    BY <2>2, <2>3, SMT DEF execute
  <2>5. DOMAIN Stored(d.words, a, v) = (a .. a + 5 - 1) \cup DOMAIN d.words
    <3>1. Len(v) \in Nat
      BY <1>2, SMT
    <3>2. DOMAIN Stored(d.words, a, v) =
              (a .. a + Len(v) - 1) \cup DOMAIN d.words
      BY <1>b, <3>1, StoredDomain, Zenon
    <3> QED BY <1>2, <3>2, Zenon
  <2> QED BY <1>2, <2>4, <2>5, SMT DEF Memory, IsDsp
<1>3. ASSUME NEW v \in BOOLEAN, a \in flags,
             c = [op |-> "WriteBiquadBypass", addr |-> addr(t, a),
                  value |-> v]
      PROVE  Memory(e, words, flags)
  <2>1. c = [op |-> "WriteBiquadBypass", addr |-> Address(a, len, TRUE),
             value |-> v]
    BY <1>3, <1>c
  <2> PICK r : r = [op |-> "WriteBiquadBypass", addr |-> Address(a, len, v),
                    value |-> v]
    OBVIOUS
  <2>2. from_bytes(to_bytes(c)) = r
    <3>1. TRUE \in BOOLEAN
      OBVIOUS
    <3> QED BY <1>b, <1>3, <2>1, <3>1, BypassUnderstood, Zenon
  <2>3. r.op = "WriteBiquadBypass" /\ r.value = v /\ r.addr.val = a
    BY <2>1 DEF Address
  <2>4. e = [d EXCEPT !.bypassed = Stored(@, a, <<v>>)]
    BY <2>2, <2>3, SMT DEF execute
  <2>5. DOMAIN Stored(d.bypassed, a, <<v>>) = {a} \cup DOMAIN d.bypassed
    <3>1. Len(<<v>>) = 1 /\ a .. a + 1 - 1 = {a}
      BY <1>b
    <3> QED BY <1>b, <3>1, StoredDomain
  <2> QED BY <1>3, <2>4, <2>5, SMT DEF Memory, IsDsp
<1> HIDE DEF e
<1>4. BiquadWords = 5
  BY DEF BiquadWords
<1>5. \/ a \in words /\ \E v : c = [op |-> "Write", addr |-> addr(t, a),
                                   value |-> v]
      \/ a .. a + 5 - 1 \subseteq words
         /\ \E v : Len(v) = 5
                   /\ c = [op |-> "WriteBiquad", addr |-> addr(t, a),
                           data |-> v]
      \/ a \in flags
         /\ \E v \in BOOLEAN : c = [op |-> "WriteBiquadBypass",
                                    addr |-> addr(t, a), value |-> v]
  BY <1>4, Zenon DEF Form
<1> QED BY <1>1, <1>2, <1>3, <1>5, Zenon DEF e

LEMMA WithinMore ==
    ASSUME NEW t, NEW c, NEW w0, NEW f0, NEW words, NEW flags,
           WritesWithin(t, c, w0, f0), w0 \subseteq words, f0 \subseteq flags
    PROVE  WritesWithin(t, c, words, flags)
<1> PICK a \in {c.addr.val} :
        /\ a \in 0 .. Reach(t.addr_len) - 1
        /\ \/ /\ c.op = "Write" /\ a \in w0
              /\ \E v \in {c.value} :
                    c = [op |-> "Write", addr |-> addr(t, a), value |-> v]
           \/ /\ c.op = "WriteBiquad"
              /\ a .. a + BiquadWords - 1 \subseteq w0
              /\ \E v \in {c.data} :
                    /\ c = [op |-> "WriteBiquad", addr |-> addr(t, a),
                            data |-> v]
                    /\ Len(v) = BiquadWords
           \/ /\ c.op = "WriteBiquadBypass" /\ a \in f0
              /\ \E v \in {c.value} :
                    /\ c = [op |-> "WriteBiquadBypass", addr |-> addr(t, a),
                            value |-> v]
                    /\ v \in BOOLEAN
  BY Zenon DEF WritesWithin
<1> QED BY Zenon DEF WritesWithin

LEMMA SwitchedMemory ==
    ASSUME NEW d, NEW words, NEW flags, Memory(d, words, flags)
    PROVE  Memory(Switched(d), words, flags)
<1>1. DOMAIN <<>> = {}
  OBVIOUS
<1> PICK m : m = [d.master EXCEPT !.preset = The(d.next)]
  OBVIOUS
<1>2. IsMaster(m)
  <2>1. IsMaster(d.master)
    BY DEF Memory
  <2> QED BY <2>1, MasterSet
<1>3. Memory(Blank(m), words, flags)
  BY <1>1, <1>2 DEF Blank, Memory, IsDsp
<1> QED BY <1>3, Zenon DEF Switched

(* What a command and its answer do to the device. *)
LEMMA ReceivedMemory ==
    ASSUME NEW d, NEW info, NEW f, NEW words, NEW flags,
           Memory(execute(d, f), words, flags)
    PROVE  Memory(Received(d, info, f), words, flags)
<1> DEFINE e == execute(d, f)
<1>1. Memory(Switched(e), words, flags)
  BY SwitchedMemory
<1>2. Received(d, info, f) = e \/ Received(d, info, f) = Switched(e)
  BY DEF Received
<1> HIDE DEF e
<1>3. Memory(e, words, flags)
  BY DEF e
<1> QED BY <1>1, <1>2, <1>3

LEMMA ResolvedOp ==
    ASSUME NEW c, "op" \in DOMAIN c
    PROVE  /\ Resolved(c).op = c.op
           /\ c.op \notin {"SetMute", "DiracBypass", "SetVolume"} =>
                Resolved(c) = c
<1>1. CASE c.op = "SetMute"
  <2> PICK v1 : v1 = (c.value = "on")
    OBVIOUS
  <2> PICK v2 : v2 = ~The(saved).mute
    OBVIOUS
  <2> PICK v3 : v3 = The(saved).mute
    OBVIOUS
  <2>2. c.value \in {"on", "off"} => Resolved(c) = [c EXCEPT !.value = v1]
    BY <1>1, Zenon DEF Resolved
  <2>3. c.value = "toggle" => Resolved(c) = [c EXCEPT !.value = v2]
    BY <1>1, Zenon DEF Resolved
  <2>4. c.value = "restore" => Resolved(c) = [c EXCEPT !.value = v3]
    BY <1>1, SMT DEF Resolved
  <2>5. c.value \notin {"on", "off", "toggle", "restore"} => Resolved(c) = c
    BY <1>1, SMT DEF Resolved
  <2>6. Resolved(c) = c \/ \E v : Resolved(c) = [c EXCEPT !.value = v]
    BY <2>2, <2>3, <2>4, <2>5, Zenon
  <2> QED BY <1>1, <2>6 DEF Others
<1>2. CASE c.op = "DiracBypass"
  <2>1. \E v : Resolved(c) = [c EXCEPT !.value = v]
    BY <1>2, SMTT(20) DEF Resolved
  <2> QED BY <1>2, <2>1 DEF Others
<1>3. CASE c.op = "SetVolume"
  <2> PICK w : w = c.value + The(saved).volume
    OBVIOUS
  <2>2. c.relative => Resolved(c) = [c EXCEPT !.value = w]
    BY <1>3, SMT DEF Resolved
  <2>3. ~c.relative => Resolved(c) = c
    BY <1>3, SMT DEF Resolved
  <2>4. Resolved(c) = c \/ \E v : Resolved(c) = [c EXCEPT !.value = v]
    BY <2>2, <2>3
  <2> QED BY <1>3, <2>4 DEF Others
<1>4. CASE c.op \notin {"SetMute", "DiracBypass", "SetVolume"}
  <2>1. Resolved(c) = c
    BY <1>4, SMT DEF Resolved
  <2> QED BY <2>1
<1> QED BY <1>1, <1>2, <1>3, <1>4

LEMMA ResolvedTyped ==
    ASSUME NEW c, NEW t, NEW words, NEW flags, NEW possible,
           StepFits(t, c, words, flags, possible),
           saved = None \/ \E m : IsMaster(m) /\ saved = Some(m),
           IsRelative(c) => saved # None
    PROVE  Typed(Resolved(c))
<1>1. CASE c.op = "SetVolume"
  <2>1. {"value", "relative"} \subseteq DOMAIN c /\ c.value \in Int
        /\ c.relative \in BOOLEAN
    BY <1>1 DEF StepFits
  <2>2. CASE c.relative
    <3> PICK m : IsMaster(m) /\ saved = Some(m)
      BY <1>1, <2>2 DEF IsRelative
    <3>1. The(saved) = m
      BY DEF The, Some
    <3>2. m.volume \in Int
      BY DEF IsMaster
    <3> PICK w \in Int : w = c.value + m.volume
      BY <2>1, <3>2
    <3>3. Resolved(c) = [c EXCEPT !.value = w]
      BY <1>1, <2>2, <3>1, SMT DEF Resolved
    <3> QED BY <1>1, <2>1, <3>3 DEF Typed
  <2>3. CASE ~c.relative
    <3>1. Resolved(c) = c
      BY <1>1, <2>3, SMT DEF Resolved
    <3> QED BY <1>1, <2>1, <3>1 DEF Typed
  <2> QED BY <2>2, <2>3
<1>2. CASE c.op # "SetVolume"
  <2> PICK r : r = Resolved(c)
    OBVIOUS
  <2>1. "op" \in DOMAIN c
    BY DEF StepFits
  <2>2. r.op = c.op
        /\ (c.op \notin {"SetMute", "DiracBypass", "SetVolume"} => r = c)
    BY <2>1, ResolvedOp
  <2>3. Typed(r)
    BY <1>2, <2>2 DEF Typed, StepFits
  <2> QED BY <2>3
<1> QED BY <1>1, <1>2

-----------------------------------------------------------------------------
(* What was asked for *)

PossibleFor(l, i) == \A s \in AskedBy(l, i) : Possible(Table(i), s)
Allowed(c, l, i) ==
    StepFits(Table(i), c, AllWords(Table(i), AskedBy(l, i)),
             AllFlags(Table(i), AskedBy(l, i)), PossibleFor(l, i))
Fitting(p, l, i) == \E S : p \in Seq(S) /\ \A c \in S : Allowed(c, l, i)

LEMMA FittingPlan ==
    ASSUME \A j \in Jobs : Fits(j), Places,
           NEW l \in DOMAIN Lines, NEW i \in DOMAIN Infos
    PROVE  Fitting(Plan(l, i), l, i)
<1>1. PlanFits(Table(i), Plan(l, i), AskedBy(l, i))
  BY DEF Places, Fits, Plan, Table, Infos, Lines, AskedBy
<1> DEFINE p == Plan(l, i)
           S == {p[k] : k \in DOMAIN p}
<1>2. IsSequence(p) /\ \A k \in DOMAIN p : Allowed(p[k], l, i)
  BY <1>1 DEF PlanFits, Allowed, PossibleFor
<1> HIDE DEF p
<1>3. p \in Seq(S)
  <2>1. Len(p) \in Nat /\ p = [k \in 1 .. Len(p) |-> p[k]]
    BY <1>2 DEF IsSequence
  <2>2. \A k \in 1 .. Len(p) : p[k] \in S
    BY <2>1
  <2> HIDE DEF S
  <2> QED BY <2>1, <2>2
<1>4. Fitting(p, l, i)
  BY <1>2, <1>3 DEF Fitting
<1> QED BY <1>4 DEF p

LEMMA FittingRest ==
    ASSUME NEW p, NEW l, NEW i, Fitting(p, l, i)
    PROVE  /\ p # <<>> => Allowed(Head(p), l, i) /\ Fitting(Tail(p), l, i)
           /\ Fitting(get_master_status \o p, l, i)
<1>1. PICK S : p \in Seq(S) /\ \A c \in S : Allowed(c, l, i)
  BY DEF Fitting
<1>2. ASSUME p # <<>>
      PROVE  Allowed(Head(p), l, i) /\ Fitting(Tail(p), l, i)
  <2>1. Head(p) \in S /\ Tail(p) \in Seq(S)
    BY <1>1, <1>2
  <2> QED BY <1>1, <2>1 DEF Fitting
<1>3. Fitting(get_master_status \o p, l, i)
  <2> DEFINE g == [op |-> "ReadMemory", addr |-> 65496, size |-> 9]
  <2>1. get_master_status = <<g>>
    BY DEF get_master_status
  <2>2. Allowed(g, l, i)
    BY DEF Allowed, StepFits
  <2> HIDE DEF g
  <2>3. p \in Seq(S \cup {g}) /\ <<g>> \in Seq(S \cup {g})
    BY <1>1
  <2>4. <<g>> \o p \in Seq(S \cup {g})
    BY <2>3
  <2> QED BY <1>1, <2>1, <2>2, <2>4 DEF Fitting
<1> QED BY <1>2, <1>3

LEMMA FittingEmpty ==
    ASSUME NEW l, NEW i
    PROVE  Fitting(<<>>, l, i)
<1> PICK p, S : p = <<>> /\ S = {}
  OBVIOUS
<1>1. <<>> \in Seq({})
  BY EmptySeq, Zenon
<1>2. p \in Seq(S) /\ \A c \in S : Allowed(c, l, i)
  BY <1>1, Zenon
<1>3. Fitting(p, l, i)
  BY <1>2, Zenon DEF Fitting
<1> QED BY <1>3, Zenon

(* The status that a step is relative to has been read, or will have been. *)
Wary(p) ==
    /\ \E S : p \in Seq(S)
    /\ \A k \in DOMAIN p : IsRelative(p[k]) =>
        \/ saved # None
        \/ \E n \in 1 .. k - 1 : p[n].op = "ReadMemory"
SavedInv ==
    /\ saved = None \/ \E m : IsMaster(m) /\ saved = Some(m)
    /\ Wary(todo)

AskedSoFar(i) ==
    UNION {AskedBy(l, i) : l \in {l \in DOMAIN Lines : Begun(l, i)}}
Kept(i) ==
    Memory(dsp[i], AllWords(Table(i), AskedSoFar(i)),
           AllFlags(Table(i), AskedSoFar(i)))
MemoryInv ==
    /\ dsp = [i \in DOMAIN Infos |-> dsp[i]]
    /\ \A i \in DOMAIN Infos : Kept(i)

(* The device that is being served. *)
LEMMA TakenMemory ==
    ASSUME Places, MemoryInv, SavedInv, Fitting(todo, line, at), Sending
    PROVE  Memory(Received(dsp[at], Infos[at], Outgoing),
                  AllWords(Table(at), AskedSoFar(at)),
                  AllFlags(Table(at), AskedSoFar(at)))
<1> DEFINE words == AllWords(Table(at), AskedSoFar(at))
           flags == AllFlags(Table(at), AskedSoFar(at))
           w0 == AllWords(Table(at), AskedBy(line, at))
           f0 == AllFlags(Table(at), AskedBy(line, at))
           c == Head(todo)
           r == Resolved(c)
<1>1. StepFits(Table(at), c, w0, f0, PossibleFor(line, at)) /\ c.op \in Sent
  BY FittingRest DEF Sending, Allowed
<1>2. w0 \subseteq words /\ f0 \subseteq flags
  <2>1. Begun(line, at)
    <3>1. at <= at
      BY JobFacts DEF Places
    <3> QED BY <3>1 DEF Begun
  <2>2. AskedBy(line, at) \subseteq AskedSoFar(at)
    BY <2>1 DEF Places, AskedSoFar
  <2> QED BY <2>2 DEF AllWords, AllFlags
<1>3. Memory(dsp[at], words, flags)
  BY DEF Places, MemoryInv, Kept
<1> HIDE DEF words, flags, w0, f0, c
<1>a. Typed(r)
  <2>1. IsRelative(c) => saved # None
    <3>1. PICK S : todo \in Seq(S)
      BY DEF SavedInv, Wary
    <3>2. todo # <<>> /\ 1 \in DOMAIN todo /\ c = todo[1]
      BY <3>1 DEF Sending, c
    <3>3. 1 .. 1 - 1 = {}
      OBVIOUS
    <3> QED BY <3>2, <3>3 DEF SavedInv, Wary
  <2> QED BY <1>1, <2>1, ResolvedTyped DEF SavedInv
<1>4. "op" \in DOMAIN c
      /\ (c.op \in {"Write", "WriteBiquad", "WriteBiquadBypass"} =>
            WritesWithin(Table(at), c, w0, f0))
  BY <1>1 DEF StepFits
<1>5. Memory(execute(dsp[at], to_bytes(r)), words, flags)
  <2>1. CASE c.op \in Others
    <3>1. r.op \in Others
      BY <1>4, <2>1, ResolvedOp
    <3> HIDE DEF r
    <3> DEFINE f == to_bytes(r)
    <3>2. Mild(from_bytes(f))
      BY <1>a, <3>1, OthersUnderstood
    <3> HIDE DEF f
    <3>3. Memory(execute(dsp[at], f), words, flags)
      BY <1>3, <3>2, OthersMemory
    <3> QED BY <3>3 DEF f
  <2>2. CASE c.op \notin Others
    <3>1. c.op \in {"Write", "WriteBiquad", "WriteBiquadBypass"}
      BY <1>1, <2>2 DEF Sent, Others
    <3>2. r = c
      BY <1>4, <3>1, ResolvedOp
    <3> HIDE DEF r
    <3>3. WritesWithin(Table(at), c, words, flags)
      BY <1>2, <1>4, <3>1, WithinMore
    <3>4. Memory(execute(dsp[at], to_bytes(c)), words, flags)
      BY <1>3, <3>3, WritesMemory
    <3> QED BY <3>2, <3>4
  <2> QED BY <2>1, <2>2
<1>6. Outgoing = to_bytes(r)
  BY DEF Outgoing, c
<1> HIDE DEF r
<1>7. Memory(Received(dsp[at], Infos[at], Outgoing), words, flags)
  BY <1>5, <1>6, ReceivedMemory
<1> QED BY <1>7 DEF words, flags

LEMMA Wider ==
    ASSUME NEW d, NEW w0, NEW f0, NEW words, NEW flags, Memory(d, w0, f0),
           w0 \subseteq words, f0 \subseteq flags
    PROVE  Memory(d, words, flags)
  BY DEF Memory

LEMMA MemoryKept ==
    ASSUME Places, UNCHANGED <<job, tables>>,
           \A l \in DOMAIN Lines, i \in DOMAIN Infos :
                Begun(l, i) => Begun(l, i)',
           MemoryInv, SavedInv, Fitting(todo, line, at),
           \/ dsp' = dsp
           \/ Sending /\ dsp' = Taken
           \/ \E i \in DOMAIN Infos : dsp' = [dsp EXCEPT ![i] = Switched(@)]
    PROVE  MemoryInv'
<1>1. Infos' = Infos /\ Lines' = Lines
  BY DEF Infos, Lines
<1>2. ASSUME NEW i \in DOMAIN Infos
      PROVE  Memory(dsp'[i], AllWords(Table(i), AskedSoFar(i)),
                    AllFlags(Table(i), AskedSoFar(i)))
  <2> DEFINE words == AllWords(Table(i), AskedSoFar(i))
             flags == AllFlags(Table(i), AskedSoFar(i))
  <2>1. Memory(dsp[i], words, flags) /\ i \in DOMAIN dsp
    BY <1>2 DEF MemoryInv, Kept
  <2>2. CASE dsp' = dsp
    BY <2>1, <2>2
  <2>3. CASE Sending /\ dsp' = Taken
    <3>1. i = at =>
            Memory(Received(dsp[at], Infos[at], Outgoing), words, flags)
      BY <2>3, TakenMemory
    <3> HIDE DEF words, flags
    <3>2. i = at => dsp'[i] = Received(dsp[at], Infos[at], Outgoing)
      BY <2>1, <2>3 DEF Taken
    <3>3. i # at => dsp'[i] = dsp[i]
      BY <2>1, <2>3 DEF Taken
    <3> QED BY <2>1, <3>1, <3>2, <3>3 DEF words, flags
  <2>4. CASE \E k \in DOMAIN Infos : dsp' = [dsp EXCEPT ![k] = Switched(@)]
    <3> HIDE DEF words, flags
    <3>1. dsp'[i] = dsp[i] \/ dsp'[i] = Switched(dsp[i])
      BY <2>1, <2>4
    <3>2. Memory(Switched(dsp[i]), words, flags)
      BY <2>1, SwitchedMemory DEF words, flags
    <3> QED BY <2>1, <3>1, <3>2 DEF words, flags
  <2> QED BY <2>2, <2>3, <2>4
<1>3. ASSUME NEW i \in DOMAIN Infos PROVE Kept(i)'
  <2>1. Table(i)' = Table(i)
    BY DEF Table
  <2>2. \A l \in DOMAIN Lines : AskedBy(l, i)' = AskedBy(l, i)
    BY <1>1, <2>1 DEF AskedBy
  <2>3. AskedSoFar(i) \subseteq AskedSoFar(i)'
    BY <1>1, <1>3, <2>2 DEF AskedSoFar
  <2> PICK t : t = Table(i)
    OBVIOUS
  <2> PICK a : a = AskedSoFar(i)
    OBVIOUS
  <2> PICK b : b = AskedSoFar(i)'
    OBVIOUS
  <2>4. AllWords(t, a) \subseteq AllWords(t, b)
        /\ AllFlags(t, a) \subseteq AllFlags(t, b)
    BY <2>3 DEF AllWords, AllFlags
  <2>5. Memory(dsp'[i], AllWords(t, b), AllFlags(t, b))
    BY <1>2, <1>3, <2>4, Wider
  <2> QED BY <2>1, <2>5 DEF Kept
<1>4. dsp' = [i \in DOMAIN Infos |-> dsp'[i]]
  BY DEF MemoryInv, Taken
<1> QED BY <1>1, <1>3, <1>4 DEF MemoryInv

LEMMA TurnBegun ==
    ASSUME Places, NEW r, Return(r)
    PROVE  \A l \in DOMAIN Lines, i \in DOMAIN Infos :
                Begun(l, i) => Begun(l, i)'
<1>1. /\ Len(Infos) \in Nat \ {0} /\ DOMAIN Infos = 1 .. Len(Infos)
      /\ Len(Lines) \in Nat \ {0} /\ DOMAIN Lines = 1 .. Len(Lines)
      /\ line \in DOMAIN Lines /\ at \in DOMAIN Infos
  BY JobFacts DEF Places
<1>2. \/ line' = line /\ at' \in {at, at + 1}
      \/ line' = line + 1 /\ at' = 1
  BY DEF Return, Turn
<1> QED BY <1>1, <1>2 DEF Begun

(* A return is to the next plan, or to the end. *)
LEMMA FittingReturn ==
    ASSUME \A j \in Jobs : Fits(j), Places, NEW r, Return(r)
    PROVE  Places' /\ Fitting(todo, line, at)'
<1>1. Places' /\ UNCHANGED <<job, tables>>
  BY TurnPlaces DEF Return
<1>2. Infos' = Infos /\ Lines' = Lines
  BY <1>1 DEF Infos, Lines
<1>3. todo' = Plan(line', at') \/ todo' = <<>>
  BY DEF Return, Turn
<1>4. line' \in DOMAIN Lines /\ at' \in DOMAIN Infos
  BY <1>1, <1>2 DEF Places
<1> PICK l \in DOMAIN Lines : l = line'
  BY <1>4
<1> PICK i \in DOMAIN Infos : i = at'
  BY <1>4
<1> PICK p : p = todo'
  OBVIOUS
<1>5. ASSUME Fitting(p, l, i) PROVE Fitting(todo, line, at)'
  <2>1. Table(i)' = Table(i) /\ AskedBy(l, i)' = AskedBy(l, i)
    BY <1>1, <1>2 DEF Table, AskedBy
  <2>2. PossibleFor(l, i)' = PossibleFor(l, i)
    BY <2>1 DEF PossibleFor
  <2>3. \A c : Allowed(c, l, i) => Allowed(c, l, i)'
    BY <2>1, <2>2 DEF Allowed, StepFits, WritesWithin
  <2>4. Table(at)' = Table(i)' /\ AskedBy(line, at)' = AskedBy(l, i)'
    BY DEF Table, AskedBy
  <2>5. PossibleFor(line, at)' = PossibleFor(l, i)'
    BY <2>4 DEF PossibleFor
  <2>6. \A c : Allowed(c, l, i)' => Allowed(c, line, at)'
    BY <2>4, <2>5 DEF Allowed, StepFits, WritesWithin
  <2> QED BY <1>5, <2>3, <2>6 DEF Fitting
<1>6. CASE todo' = <<>>
  <2>1. Fitting(<<>>, l, i)
    BY FittingEmpty
  <2>2. Fitting(p, l, i)
    BY <1>6, <2>1, Zenon
  <2> QED BY <1>1, <1>5, <2>2
<1>7. CASE todo' = Plan(line', at')
  <2>1. p = Plan(l, i)
    BY <1>7
  <2> QED BY <1>1, <1>5, <2>1, FittingPlan
<1> QED BY <1>3, <1>6, <1>7

(* Every step returns what the line has come to on this device, or goes on *)
(* with the plan for it.                                                   *)
Returns ==
    /\ Running
    /\ \E r : /\ Return(r) /\ r \in {"ok", "NoAnswer"} \cup Refusals
              /\ r \in Refusals => ~PossibleFor(line, at)
    /\ dsp' = dsp \/ (Sending /\ dsp' = Taken)
GoesOn ==
    /\ UNCHANGED <<job, tables, line, at, results>>
    /\ result' \in {result, "panic"}
    /\ saved' \in {saved, Some(dsp[at].master)}
    /\ \/ todo' = todo \/ todo' = <<>>
       \/ /\ todo # <<>> /\ todo' = Tail(todo)
          /\ Head(todo).op = "ReadMemory" => saved' # None
       \/ todo' = get_master_status \o todo
    /\ \/ dsp' = dsp
       \/ Sending /\ dsp' = Taken
       \/ \E i \in DOMAIN Infos : dsp' = [dsp EXCEPT ![i] = Switched(@)]

LEMMA EveryStep ==
    ASSUME Fitting(todo, line, at), [Next]_vars
    PROVE  Returns \/ GoesOn
<1>0. "ok" \notin Refusals /\ "NoAnswer" \notin Refusals
  BY DEF Refusals
<1>1. CASE \E i \in DOMAIN Infos : Switch(i)
  BY <1>1 DEF Switch, GoesOn
<1>2. CASE Finished
  BY <1>0, <1>2 DEF Finished, Returns
<1>3. CASE Refused
  <2>1. todo # <<>> /\ Head(todo).op = "Refuse" /\ Running /\ dsp' = dsp
    BY <1>3 DEF Refused, Doing
  <2>2. CASE Head(todo).error = "panic"
    <3>1. result' = "panic" /\ todo' = <<>>
          /\ UNCHANGED <<job, tables, line, at, results>>
      BY <1>3, <2>2 DEF Refused
    <3>2. saved' = saved
      BY <1>3, <2>2 DEF Refused
    <3> QED BY <2>1, <3>1, <3>2 DEF GoesOn
  <2>3. CASE Head(todo).error # "panic"
    <3>1. Return(Head(todo).error)
      BY <1>3, <2>3 DEF Refused
    <3>2. ~PossibleFor(line, at)
      <4>1. Allowed(Head(todo), line, at)
        BY <2>1, FittingRest
      <4> QED BY <2>1, <2>3, <4>1 DEF Allowed, StepFits
    <3>3. Head(todo).error \in Refusals
      <4>1. Allowed(Head(todo), line, at)
        BY <2>1, FittingRest
      <4> QED BY <2>1, <2>3, <4>1 DEF Allowed, StepFits
    <3> QED BY <2>1, <3>1, <3>2, <3>3 DEF Returns
  <2> QED BY <2>2, <2>3
<1>4. CASE Answered
  BY <1>4 DEF Answered, GoesOn, Sending, Some, None
<1>5. CASE Lost
  BY <1>0, <1>5 DEF Lost, Returns, Sending, Doing
<1>6. CASE FirFits
  <2>1. todo # <<>> /\ Head(todo).op = "IntoFirSize" /\ Running /\ dsp' = dsp
    BY <1>6 DEF FirFits, Doing
  <2>2. CASE Head(todo).len > FirLoadSize(TableHere, Head(todo).index)
    <3>1. Return("TooManyCoefficients")
          /\ "TooManyCoefficients" \in Refusals
      BY <1>6, <2>2 DEF FirFits, Refusals
    <3>2. ~PossibleFor(line, at)
      <4>1. Allowed(Head(todo), line, at)
        BY <2>1, FittingRest
      <4> QED BY <2>1, <2>2, <4>1 DEF Allowed, StepFits, TableHere
    <3> QED BY <2>1, <3>1, <3>2 DEF Returns
  <2>3. CASE ~ (Head(todo).len > FirLoadSize(TableHere, Head(todo).index))
    <3>1. todo' = Tail(todo)
          /\ UNCHANGED <<job, tables, line, at, saved, results, result>>
      BY <1>6, <2>3 DEF FirFits
    <3> QED BY <2>1, <3>1 DEF GoesOn
  <2> QED BY <2>2, <2>3
<1>7. CASE PresetRead
  BY <1>7 DEF PresetRead, Doing, GoesOn
<1>8. CASE CollectMeters
  BY <1>8 DEF CollectMeters, Doing, GoesOn
<1>9. CASE ReadChunk
  BY <1>9 DEF ReadChunk, GoesOn
<1>10. CASE Split
  BY <1>10 DEF Split, Doing, GoesOn
<1>11. CASE UNCHANGED vars
  BY <1>11 DEF vars, GoesOn
<1> QED
  BY <1>1, <1>2, <1>3, <1>4, <1>5, <1>6, <1>7, <1>8, <1>9, <1>10, <1>11
     DEF Next, Ended

(* Reading comes first in every plan, and what was read is a status.       *)
LEMMA WaryPlan ==
    ASSUME \A j \in Jobs : Fits(j), Places,
           NEW l \in DOMAIN Lines, NEW i \in DOMAIN Infos
    PROVE  ReadsFirst(Plan(l, i)) /\ \E S : Plan(l, i) \in Seq(S)
<1> DEFINE p == Plan(l, i)
<1>1. PlanFits(Table(i), Plan(l, i), AskedBy(l, i))
  BY DEF Places, Fits, Plan, Table, Infos, Lines, AskedBy
<1>2. IsSequence(p) /\ ReadsFirst(p)
  BY <1>1 DEF PlanFits
<1> HIDE DEF p
<1>3. \E S : p \in Seq(S)
  BY <1>2, Sequences
<1>4. ReadsFirst(p) /\ \E S : p \in Seq(S)
  BY <1>2, <1>3
<1> QED BY <1>4 DEF p

LEMMA WaryEmpty == Wary(<<>>)
<1>1. <<>> \in Seq({})
  BY EmptySeq, Zenon
<1>2. DOMAIN <<>> = {}
  OBVIOUS
<1> QED BY <1>1, <1>2 DEF Wary

LEMMA SavedReturn ==
    ASSUME \A j \in Jobs : Fits(j), Places, NEW r, Return(r)
    PROVE  SavedInv'
<1> PICK p : p = todo'
  OBVIOUS
<1>1. ReadsFirst(p) /\ \E S : p \in Seq(S)
  <2>1. CASE todo' = <<>>
    <3>1. <<>> \in Seq({})
      BY EmptySeq, Zenon
    <3>2. DOMAIN <<>> = {}
      OBVIOUS
    <3> QED BY <2>1, <3>1, <3>2 DEF ReadsFirst
  <2>2. CASE \E l \in DOMAIN Lines, i \in DOMAIN Infos :
                todo' = Plan(l, i) /\ at' = i
    BY <2>2, WaryPlan
  <2> QED BY <2>1, <2>2, TurnPlaces
<1>2. saved' = None
  BY DEF Return
<1> QED BY <1>1, <1>2 DEF SavedInv, Wary, ReadsFirst

FitInv ==
    Places /\ Fitting(todo, line, at) /\ MemoryInv /\ SavedInv

LEMMA FitInit ==
    ASSUME \A j \in Jobs : Fits(j), Init
    PROVE  FitInv
<1>1. 1 \in DOMAIN Lines /\ 1 \in DOMAIN Infos
  BY JobFacts DEF Init
<1>2. Places /\ line = 1 /\ at = 1 /\ todo = Plan(1, 1)
  BY <1>1 DEF Init, Places
<1>3. Fitting(todo, line, at)
  BY <1>1, <1>2, FittingPlan
<1>4. dsp = [i \in DOMAIN Infos |-> Blank(NewMaster)]
  BY DEF Init
<1>5. \A i \in DOMAIN Infos : Kept(i)
  <2>1. DOMAIN <<>> = {}
    OBVIOUS
  <2>2. IsMaster(NewMaster)
    BY DEF IsMaster, NewMaster
  <2> QED BY <1>4, <2>1, <2>2 DEF Kept, Memory, IsDsp, Blank
<1>6. SavedInv
  <2>1. saved = None
    BY DEF Init
  <2> QED BY <1>1, <1>2, <2>1, WaryPlan DEF SavedInv, Wary, ReadsFirst
<1> QED BY <1>2, <1>3, <1>4, <1>5, <1>6 DEF FitInv, MemoryInv

LEMMA FittingGoesOn ==
    ASSUME Places, Fitting(todo, line, at), GoesOn
    PROVE  Places' /\ Fitting(todo, line, at)'
<1> PICK p, l, i : p = todo' /\ l = line /\ i = at
  OBVIOUS
<1>1. Fitting(p, l, i)
  <2>1. CASE todo' = <<>>
    BY <2>1, FittingEmpty
  <2>2. CASE todo # <<>> /\ todo' = Tail(todo)
    BY <2>2, FittingRest
  <2>3. CASE todo' = get_master_status \o todo
    BY <2>3, FittingRest
  <2>4. CASE todo' = todo
    BY <2>4
  <2> QED BY <2>1, <2>2, <2>3, <2>4 DEF GoesOn
<1>2. Infos' = Infos /\ Lines' = Lines /\ Places'
  BY DEF Infos, Lines, Places, GoesOn
<1>3. Table(at)' = Table(i) /\ AskedBy(line, at)' = AskedBy(l, i)
  BY <1>2 DEF GoesOn, Table, AskedBy
<1>4. PossibleFor(line, at)' = PossibleFor(l, i)
  BY <1>3 DEF PossibleFor
<1>5. \A c : Allowed(c, l, i) => Allowed(c, line, at)'
  BY <1>3, <1>4 DEF Allowed, StepFits, WritesWithin
<1> QED BY <1>1, <1>2, <1>5 DEF Fitting

LEMMA WaryRest ==
    ASSUME Wary(todo), GoesOn
    PROVE  Wary(todo)'
<1> PICK p : p = todo'
  OBVIOUS
<1>1. PICK S : todo \in Seq(S)
  BY DEF Wary
<1>2. saved # None => saved' # None
  BY DEF GoesOn, Some, None
<1>3. CASE todo' = todo
  BY <1>2, <1>3 DEF Wary
<1>4. CASE todo' = <<>>
  <2>1. Wary(p)
    BY <1>4, WaryEmpty
  <2> QED BY <1>2, <2>1 DEF Wary
<1>5. CASE /\ todo # <<>> /\ todo' = Tail(todo)
           /\ Head(todo).op = "ReadMemory" => saved' # None
  <2>1. /\ p \in Seq(S) /\ DOMAIN p = 1 .. Len(todo) - 1
        /\ Head(todo) = todo[1] /\ DOMAIN todo = 1 .. Len(todo)
        /\ \A k \in DOMAIN p : p[k] = todo[k + 1]
        /\ Len(todo) \in Nat
    BY <1>1, <1>5
  <2>2. ASSUME NEW k \in DOMAIN p, IsRelative(p[k])
        PROVE  \/ saved' # None
               \/ \E n \in 1 .. k - 1 : p[n].op = "ReadMemory"
    <3>1. k \in Nat /\ 1 <= k /\ k + 1 \in DOMAIN todo
          /\ todo[k + 1] = p[k]
      BY <2>1, <2>2
    <3>2. \/ saved # None
          \/ \E n \in 1 .. (k + 1) - 1 : todo[n].op = "ReadMemory"
      BY <2>2, <3>1 DEF Wary
    <3>3. ASSUME NEW n \in 1 .. (k + 1) - 1, todo[n].op = "ReadMemory",
                 saved' = None
          PROVE  \E m \in 1 .. k - 1 : p[m].op = "ReadMemory"
      <4>1. n # 1
        BY <1>5, <2>1, <3>3
      <4>2. n - 1 \in 1 .. k - 1 /\ n - 1 \in DOMAIN p /\ n - 1 + 1 = n
        BY <2>1, <3>1, <4>1
      <4>3. p[n - 1] = todo[n]
        BY <2>1, <4>2
      <4> QED BY <3>3, <4>2, <4>3
    <3> QED BY <1>2, <3>2, <3>3
  <2> QED BY <2>1, <2>2 DEF Wary
<1>6. CASE todo' = get_master_status \o todo
  <2> DEFINE g == [op |-> "ReadMemory", addr |-> 65496, size |-> 9]
  <2>1. get_master_status = <<g>> /\ g.op = "ReadMemory"
    BY DEF get_master_status
  <2> HIDE DEF g
  <2>2. /\ p \in Seq(S \cup {g}) /\ DOMAIN p = 1 .. Len(todo) + 1
        /\ p[1] = g
    BY <1>1, <1>6, <2>1
  <2>3. ASSUME NEW k \in DOMAIN p, IsRelative(p[k])
        PROVE  \E n \in 1 .. k - 1 : p[n].op = "ReadMemory"
    <3>1. k # 1
      BY <2>1, <2>2, <2>3 DEF IsRelative
    <3>2. 1 \in 1 .. k - 1
      BY <1>1, <2>2, <3>1
    <3> QED BY <2>1, <2>2, <3>2
  <2> QED BY <2>2, <2>3 DEF Wary
<1> QED BY <1>3, <1>4, <1>5, <1>6 DEF GoesOn

LEMMA SavedGoesOn ==
    ASSUME Places, MemoryInv, SavedInv, GoesOn
    PROVE  SavedInv'
<1>1. IsMaster(dsp[at].master)
  BY DEF Places, MemoryInv, Kept, Memory
<1>2. saved' = None \/ \E m : IsMaster(m) /\ saved' = Some(m)
  BY <1>1 DEF GoesOn, SavedInv
<1>3. Wary(todo)'
  BY WaryRest DEF SavedInv
<1> QED BY <1>2, <1>3 DEF SavedInv

LEMMA FitStep ==
    ASSUME \A j \in Jobs : Fits(j), FitInv, [Next]_vars
    PROVE  FitInv'
<1>1. Places /\ Fitting(todo, line, at) /\ MemoryInv /\ SavedInv
  BY DEF FitInv
<1>2. CASE Returns
  <2> PICK r : Return(r)
    BY <1>2 DEF Returns
  <2>1. Places' /\ Fitting(todo, line, at)'
    BY <1>1, FittingReturn
  <2>2. UNCHANGED <<job, tables>>
    BY DEF Return
  <2>3. MemoryInv'
    BY <1>1, <1>2, <2>2, TurnBegun, MemoryKept DEF Returns
  <2> QED BY <1>1, <2>1, <2>3, SavedReturn DEF FitInv
<1>3. CASE GoesOn
  <2>1. Places' /\ Fitting(todo, line, at)'
    BY <1>1, <1>3, FittingGoesOn
  <2>2. UNCHANGED <<job, tables, line, at>>
    BY <1>3 DEF GoesOn
  <2>3. \A l \in DOMAIN Lines, i \in DOMAIN Infos :
            Begun(l, i) => Begun(l, i)'
    BY <2>2 DEF Begun
  <2>4. MemoryInv'
    BY <1>1, <1>3, <2>2, <2>3, MemoryKept DEF GoesOn
  <2> QED BY <1>1, <1>3, <2>1, <2>4, SavedGoesOn DEF FitInv
<1> QED BY <1>1, <1>2, <1>3, EveryStep

(* Whatever the job returned, and whatever was lost on the way, only what  *)
(* was asked for is written, each setting to cells of its own.             *)
THEOREM OnlyAskedTheorem ==
    ASSUME \A j \in Jobs : Fits(j)
    PROVE  Spec => []OnlyAsked
<1>1. Init => FitInv
  BY FitInit
<1>2. FitInv /\ [Next]_vars => FitInv'
  BY FitStep
<1>3. FitInv => OnlyAsked
  <2> SUFFICES ASSUME FitInv, NEW i \in DOMAIN Infos
               PROVE  /\ DOMAIN dsp[i].words \subseteq
                            AllWords(Table(i), AskedSoFar(i))
                      /\ DOMAIN dsp[i].bypassed \subseteq
                            AllFlags(Table(i), AskedSoFar(i))
                      /\ Apart(Table(i), AskedSoFar(i))
    BY DEF OnlyAsked, AskedSoFar
  <2>1. Kept(i) /\ Places
    BY DEF FitInv, MemoryInv
  <2> DEFINE n == IF i <= at THEN line ELSE line - 1
  <2>2. /\ Len(Infos) \in Nat \ {0} /\ DOMAIN Infos = 1 .. Len(Infos)
        /\ Len(Lines) \in Nat \ {0} /\ DOMAIN Lines = 1 .. Len(Lines)
        /\ line \in DOMAIN Lines /\ at \in DOMAIN Infos
    BY <2>1, JobFacts DEF Places
  <2>3. {l \in DOMAIN Lines : Begun(l, i)} = 1 .. n /\ n \in 0 .. Len(Lines)
    BY <2>2 DEF Begun
  <2> HIDE DEF n
  <2>4. Apart(Table(i), UNION {AskedBy(l, i) : l \in 1 .. n})
    <3> PICK d : d = Table(i)
      OBVIOUS
    <3>1. d = table(job.devices[i])
      BY <2>1 DEF Places, Table, Infos
    <3>2. Fits(job) /\ i \in DOMAIN job.devices /\ n \in 0 .. Len(job.lines)
      BY <2>1, <2>3 DEF Places, Infos, Lines
    <3>3. Apart(table(job.devices[i]),
                UNION {AskedOf(table(job.devices[i]), job.lines[l]) :
                       l \in 1 .. n})
      BY <3>2, Zenon DEF Fits
    <3>4. Apart(d, UNION {AskedOf(d, job.lines[l]) : l \in 1 .. n})
      BY <3>1, <3>3, Zenon
    <3> QED BY <3>4 DEF Lines, AskedBy
  <2>5. Apart(Table(i), AskedSoFar(i))
    BY <2>3, <2>4 DEF AskedSoFar
  <2> QED BY <2>1, <2>5 DEF Kept, Memory
<1> QED BY <1>1, <1>2, <1>3, PTL DEF Spec

-----------------------------------------------------------------------------
(* What was refused *)

(* One result for each device that the line has been run on. *)
ReturnedInv ==
    /\ \E S : results \in Seq(S)
    /\ result = "running" => Len(results) = at - 1
    /\ result \in {"running", "ok", "NoAnswer"} \cup Refusals
    /\ \A k \in DOMAIN results :
        /\ results[k] \in {"ok", "NoAnswer"} \cup Refusals
        /\ results[k] \in Refusals => ~PossibleFor(line, k)

LEMMA ReturnedInit ==
    ASSUME Init
    PROVE  ReturnedInv
<1>1. <<>> \in Seq({}) /\ Len(<<>>) = 0
  BY EmptySeq, Zenon
<1>2. DOMAIN <<>> = {}
  OBVIOUS
<1>3. results = <<>> /\ at = 1 /\ result = "running"
  BY DEF Init
<1> QED BY <1>1, <1>2, <1>3 DEF ReturnedInv

LEMMA ReturnedStep ==
    ASSUME FitInv, ReturnedInv, [Next]_vars
    PROVE  ReturnedInv'
<1>1. Places /\ Fitting(todo, line, at)
  BY DEF FitInv
<1>2. ASSUME UNCHANGED <<job, tables, line>>
      PROVE  \A k : PossibleFor(line, k)' = PossibleFor(line, k)
  BY <1>2 DEF PossibleFor, AskedBy, Table, Lines
<1>3. CASE GoesOn
  <2>1. "panic" \in Refusals
    BY DEF Refusals
  <2> QED BY <1>2, <1>3, <2>1 DEF GoesOn, ReturnedInv
<1>4. CASE Returns
  <2> PICK r : /\ Return(r) /\ r \in {"ok", "NoAnswer"} \cup Refusals
               /\ r \in Refusals => ~PossibleFor(line, at)
    BY <1>4 DEF Returns
  <2> DEFINE all == Append(results, r)
  <2>1. PICK S : results \in Seq(S)
    BY DEF ReturnedInv
  <2>2. Len(results) = at - 1 /\ at \in Nat /\ Len(results) \in Nat
    <3>1. at \in 1 .. Len(Infos) /\ Len(Infos) \in Nat
      BY <1>1, JobFacts DEF Places
    <3> QED BY <1>4, <2>1, <3>1 DEF Returns, Running, ReturnedInv
  <2>3. all \in Seq(S \cup {r}) /\ Len(all) = at /\ DOMAIN all = 1 .. at
        /\ all[at] = r
        /\ \A k \in 1 .. at : k # at => k \in DOMAIN results
                                        /\ all[k] = results[k]
    BY <2>1, <2>2
  <2>4. ASSUME NEW k \in DOMAIN all
        PROVE  /\ all[k] \in {"ok", "NoAnswer"} \cup Refusals
               /\ all[k] \in Refusals => ~PossibleFor(line, k)
    BY <2>3, <2>4 DEF ReturnedInv
  <2>5. /\ \/ results' = all /\ at' = at + 1 /\ line' = line
           \/ results' = <<>> /\ at' = 1
           \/ results' = all /\ result' # "running" /\ line' = line
        /\ result' \in {"running", "ok", "NoAnswer"} \cup Refusals
    <3> DEFINE I == {k \in 1 .. Len(all) : all[k] # "ok"}
               b == Min(I)
    <3>1. I # {} => b \in I
      <4>1. I \in SUBSET Nat
        OBVIOUS
      <4>2. I # {} => \E x \in I : \A y \in I : x <= y
        BY <4>1, LeastElement
      <4> QED BY <4>2 DEF Min
    <3>2. I # {} => all[b] \in {"ok", "NoAnswer"} \cup Refusals
      BY <2>3, <2>4, <3>1
    <3>3. SelectInSeq(all, LAMBDA x : x # "ok") = IF I # {} THEN b ELSE 0
      BY DEF SelectInSeq
    <3> HIDE DEF all, b
    <3>4. Turn(all)
      BY DEF Return, all
    <3>5. "running" \notin {"ok", "NoAnswer"} \cup Refusals
      BY DEF Refusals
    <3> QED
      BY <1>4, <2>3, <3>1, <3>2, <3>3, <3>4, <3>5 DEF Turn, Returns, Running
  <2>6. UNCHANGED <<job, tables>>
    BY DEF Return
  <2> HIDE DEF all
  <2>7. CASE results' = <<>> /\ at' = 1
    <3>1. <<>> \in Seq({}) /\ Len(<<>>) = 0
      BY EmptySeq, Zenon
    <3>2. DOMAIN <<>> = {}
      OBVIOUS
    <3> QED BY <2>5, <2>7, <3>1, <3>2 DEF ReturnedInv
  <2>8. CASE results' = all /\ line' = line
             /\ (at' = at + 1 \/ result' # "running")
    <3>1. \A k : PossibleFor(line, k)' = PossibleFor(line, k)
      BY <1>2, <2>6, <2>8
    <3>2. (result = "running")' => Len(all) = at' - 1
      BY <2>2, <2>3, <2>8, <1>4
    <3> QED BY <2>3, <2>4, <2>5, <2>8, <3>1, <3>2 DEF ReturnedInv
  <2> QED BY <2>5, <2>7, <2>8
<1> QED BY <1>1, <1>3, <1>4, EveryStep

(* A line is refused on a device only if that device cannot do it.         *)
THEOREM RefusedTheorem ==
    ASSUME \A j \in Jobs : Fits(j)
    PROVE  Spec => []RefusedIsImpossible
<1>1. Init => FitInv /\ ReturnedInv
  BY FitInit, ReturnedInit
<1>2. FitInv /\ ReturnedInv /\ [Next]_vars => (FitInv /\ ReturnedInv)'
  BY FitStep, ReturnedStep
<1>3. ReturnedInv => RefusedIsImpossible
  BY DEF ReturnedInv, PossibleFor, RefusedIsImpossible
<1> QED BY <1>1, <1>2, <1>3, PTL DEF Spec

(* Every state of a job is of its type: what the devices hold at addresses *)
(* of theirs, a volume within the byte it is sent in, one result for each  *)
(* device before this one.                                                 *)
THEOREM TypeCorrect ==
    ASSUME \A j \in Jobs : Fits(j)
    PROVE  Spec => []TypeOK
<1>1. Init => FitInv /\ ReturnedInv
  BY FitInit, ReturnedInit
<1>2. FitInv /\ ReturnedInv /\ [Next]_vars => (FitInv /\ ReturnedInv)'
  BY FitStep, ReturnedStep
<1>3. FitInv /\ ReturnedInv => TypeOK
  <2> SUFFICES ASSUME FitInv, ReturnedInv PROVE TypeOK
    OBVIOUS
  <2>1. Places /\ MemoryInv
    BY DEF FitInv
  <2>2. line \in DOMAIN Lines /\ at \in DOMAIN Infos
        /\ DOMAIN dsp = DOMAIN Infos
    BY <2>1 DEF Places, MemoryInv
  <2>3. ASSUME NEW i \in DOMAIN Infos
        PROVE  /\ DOMAIN dsp[i].words \subseteq Addr
               /\ DOMAIN dsp[i].bypassed \subseteq Addr
               /\ DOMAIN dsp[i].filters \subseteq 0 .. 255
               /\ IsMaster(dsp[i].master)
    <3>1. ASSUME NEW l \in DOMAIN Lines
          PROVE  /\ AllWords(Table(i), AskedBy(l, i)) \subseteq Addr
                 /\ AllFlags(Table(i), AskedBy(l, i)) \subseteq Addr
      <4>1. PlanFits(Table(i), Plan(l, i), AskedBy(l, i))
        BY <2>1, <2>3, <3>1
           DEF Places, Fits, Plan, Table, Infos, Lines, AskedBy
      <4> QED BY <4>1 DEF PlanFits
    <3>2. /\ AllWords(Table(i), AskedSoFar(i)) \subseteq Addr
          /\ AllFlags(Table(i), AskedSoFar(i)) \subseteq Addr
      BY <3>1 DEF AskedSoFar, AllWords, AllFlags
    <3>3. Kept(i)
      BY <2>1, <2>3 DEF MemoryInv
    <3> QED BY <3>2, <3>3 DEF Kept, Memory
  <2>4. Len(results) < Len(Infos) \/ result # "running"
    <3>1. at \in 1 .. Len(Infos) /\ Len(Infos) \in Nat
      BY <2>1, JobFacts DEF Places
    <3> QED BY <3>1 DEF ReturnedInv
  <2> QED BY <2>2, <2>3, <2>4, ZenonT(60) DEF ReturnedInv, TypeOK, IsMaster
<1> QED BY <1>1, <1>2, <1>3, PTL DEF Spec

-----------------------------------------------------------------------------
(* What a command leaves behind *)

Outcome(d, c, e) ==
    /\ c.op = "Write" =>
        e.words = Stored(d.words, c.addr.val, <<c.value>>)
    /\ c.op = "WriteBiquad" =>
        e.words = Stored(d.words, c.addr.val, c.data)
    /\ c.op \notin {"Write", "WriteBiquad"} => e.words = d.words
    /\ c.op = "WriteBiquadBypass" =>
        e.bypassed = Stored(d.bypassed, c.addr.val, <<c.value>>)
    /\ c.op # "WriteBiquadBypass" => e.bypassed = d.bypassed
    /\ c.op = "FirLoadStart" =>
        e.filters = Stored(d.filters, c.index, << <<>> >>)
    /\ c.op = "FirLoadData" =>
        e.filters = [d.filters EXCEPT ![c.index] = @ \o c.data]
    /\ c.op \notin {"FirLoadStart", "FirLoadData"} => e.filters = d.filters
    /\ e.master.preset = d.master.preset
    /\ c.op = "SetSource" => e.master.source = c.source
    /\ c.op # "SetSource" => e.master.source = d.master.source
    /\ c.op = "SetVolume" /\ ~c.relative =>
        e.master.volume = -GainByte(c.value)
    /\ c.op # "SetVolume" => e.master.volume = d.master.volume
    /\ c.op = "DiracBypass" /\ c.value \in {"on", "off"} =>
        e.master.dirac = (c.value = "on")
    /\ c.op # "DiracBypass" => e.master.dirac = d.master.dirac
    /\ c.op = "SetConfig" => e.next = Some(c.config)
    /\ c.op # "SetConfig" => e.next = d.next

(* And what becomes of the master status, where the step was resolved to   *)
(* the command r.                                                          *)
MasterLeft(d, c, r, e) ==
    /\ c.op \notin {"SetSource", "SetVolume", "SetMute", "DiracBypass",
                    "FirLoadStart"} => e.master = d.master
    /\ c.op \in {"SetSource", "SetVolume", "DiracBypass"} =>
        e.master.mute = d.master.mute
    /\ c.op = "SetVolume" => e.master.volume = -GainByte(r.value)
    /\ c.op = "DiracBypass" => e.master.dirac = (r.value = 0)
    /\ c.op = "SetMute" => e.master.mute = (Bit(r.value) # 0)
    /\ c.op = "FirLoadStart" => e.master.mute = TRUE

LEMMA FieldsSet ==
    ASSUME NEW d, IsDsp(d), NEW x
    PROVE  /\ LET e == [d EXCEPT !.words = x] IN
                /\ e.words = x /\ e.bypassed = d.bypassed
                /\ e.filters = d.filters /\ e.master = d.master
                /\ e.next = d.next
           /\ LET e == [d EXCEPT !.bypassed = x] IN
                /\ e.words = d.words /\ e.bypassed = x
                /\ e.filters = d.filters /\ e.master = d.master
                /\ e.next = d.next
           /\ LET e == [d EXCEPT !.filters = x] IN
                /\ e.words = d.words /\ e.bypassed = d.bypassed
                /\ e.filters = x /\ e.master = d.master
                /\ e.next = d.next /\ IsDsp(e)
           /\ LET e == [d EXCEPT !.master = x] IN
                /\ e.words = d.words /\ e.bypassed = d.bypassed
                /\ e.filters = d.filters /\ e.master = x
                /\ e.next = d.next
           /\ LET e == [d EXCEPT !.next = x] IN
                /\ e.words = d.words /\ e.bypassed = d.bypassed
                /\ e.filters = d.filters /\ e.master = d.master
                /\ e.next = x
<1>1. LET e == [d EXCEPT !.words = x] IN
        /\ e.words = x /\ e.bypassed = d.bypassed
        /\ e.filters = d.filters /\ e.master = d.master /\ e.next = d.next
  BY SMT DEF IsDsp
<1>2. LET e == [d EXCEPT !.bypassed = x] IN
        /\ e.words = d.words /\ e.bypassed = x
        /\ e.filters = d.filters /\ e.master = d.master /\ e.next = d.next
  BY SMT DEF IsDsp
<1>3. LET e == [d EXCEPT !.filters = x] IN
        /\ e.words = d.words /\ e.bypassed = d.bypassed
        /\ e.filters = x /\ e.master = d.master /\ e.next = d.next
        /\ IsDsp(e)
  BY SMT DEF IsDsp
<1>4. LET e == [d EXCEPT !.master = x] IN
        /\ e.words = d.words /\ e.bypassed = d.bypassed
        /\ e.filters = d.filters /\ e.master = x /\ e.next = d.next
  BY SMT DEF IsDsp
<1>5. LET e == [d EXCEPT !.next = x] IN
        /\ e.words = d.words /\ e.bypassed = d.bypassed
        /\ e.filters = d.filters /\ e.master = d.master /\ e.next = x
  BY SMT DEF IsDsp
<1> QED BY <1>1, <1>2, <1>3, <1>4, <1>5

LEMMA WritesOutcome ==
    ASSUME NEW t, NEW c, NEW d, NEW words, NEW flags, IsDsp(d),
           WritesWithin(t, c, words, flags)
    PROVE  /\ Outcome(d, c, execute(d, to_bytes(c)))
           /\ MasterLeft(d, c, c, execute(d, to_bytes(c)))
           /\ \A a : Touches(c, "word", a) => a \in words
           /\ \A a : Touches(c, "flag", a) => a \in flags
           /\ c.addr.val \in Nat
           /\ c.op = "WriteBiquad" => Len(c.data) = BiquadWords
<1> DEFINE Form(a) ==
        \/ /\ c.op = "Write" /\ a \in words
           /\ \E v \in {c.value} :
                 c = [op |-> "Write", addr |-> addr(t, a), value |-> v]
        \/ /\ c.op = "WriteBiquad"
           /\ a .. a + BiquadWords - 1 \subseteq words
           /\ \E v \in {c.data} :
                 /\ c = [op |-> "WriteBiquad", addr |-> addr(t, a),
                         data |-> v]
                 /\ Len(v) = BiquadWords
        \/ /\ c.op = "WriteBiquadBypass" /\ a \in flags
           /\ \E v \in {c.value} :
                 /\ c = [op |-> "WriteBiquadBypass", addr |-> addr(t, a),
                         value |-> v]
                 /\ v \in BOOLEAN
           N == Reach(t.addr_len)
<1>a. t.addr_len \in {2, 3}
      /\ \E a \in {c.addr.val} : a \in 0 .. N - 1 /\ Form(a)
  BY Zenon DEF WritesWithin
<1> HIDE DEF Form
<1> PICK a : a = c.addr.val /\ a \in 0 .. N - 1 /\ Form(a)
  BY <1>a
<1> PICK len : len = t.addr_len
  OBVIOUS
<1>b. len \in Lens /\ a \in Nat /\ a < Reach(len)
  BY <1>a, ReachFacts, SMT DEF Lens
<1>c. addr(t, a) = Address(a, len, TRUE)
  BY DEF addr, Address
<1> HIDE DEF N
<1> DEFINE e == execute(d, to_bytes(c))
           Goal == /\ Outcome(d, c, e) /\ MasterLeft(d, c, c, e)
                   /\ \A x : Touches(c, "word", x) => x \in words
                   /\ \A x : Touches(c, "flag", x) => x \in flags
                   /\ c.op = "WriteBiquad" => Len(c.data) = BiquadWords
<1>1. ASSUME NEW v, c = [op |-> "Write", addr |-> addr(t, a), value |-> v],
             a \in words
      PROVE  Goal
  <2>1. c = [op |-> "Write", addr |-> Address(a, len, TRUE), value |-> v]
    BY <1>1, <1>c
  <2>2. from_bytes(to_bytes(c)) = c
    BY <1>b, <2>1, WriteUnderstood
  <2>3. c.op = "Write" /\ c.value = v
    BY <2>1
  <2> PICK x : x = Stored(d.words, a, <<v>>)
    OBVIOUS
  <2>4. e = [d EXCEPT !.words = x]
    BY <2>2, <2>3, SMT DEF execute
  <2> HIDE DEF e
  <2>5. Outcome(d, c, e)
    BY <2>3, <2>4, FieldsSet DEF Outcome
  <2>6. MasterLeft(d, c, c, e)
    BY <2>3, <2>4, FieldsSet DEF MasterLeft
  <2> QED BY <1>1, <2>3, <2>5, <2>6 DEF Touches
<1>2. ASSUME NEW v, Len(v) = 5, a .. a + 5 - 1 \subseteq words,
             c = [op |-> "WriteBiquad", addr |-> addr(t, a), data |-> v]
      PROVE  Goal
  <2>1. c = [op |-> "WriteBiquad", addr |-> Address(a, len, TRUE), data |-> v]
    BY <1>2, <1>c
  <2>2. from_bytes(to_bytes(c)) = c
    BY <1>b, <1>2, <2>1, WriteBiquadUnderstood
  <2>3. c.op = "WriteBiquad" /\ c.data = v
    BY <2>1
  <2> PICK x : x = Stored(d.words, a, v)
    OBVIOUS
  <2>4. e = [d EXCEPT !.words = x]
    BY <2>2, <2>3, SMT DEF execute
  <2> HIDE DEF e
  <2>5. Outcome(d, c, e)
    BY <2>3, <2>4, FieldsSet DEF Outcome
  <2>6. MasterLeft(d, c, c, e)
    BY <2>3, <2>4, FieldsSet DEF MasterLeft
  <2> QED BY <1>2, <2>3, <2>5, <2>6 DEF Touches, BiquadWords
<1>3. ASSUME NEW v \in BOOLEAN, a \in flags,
             c = [op |-> "WriteBiquadBypass", addr |-> addr(t, a),
                  value |-> v]
      PROVE  Goal
  <2>1. c = [op |-> "WriteBiquadBypass", addr |-> Address(a, len, TRUE),
             value |-> v]
    BY <1>3, <1>c
  <2>0. c.op = "WriteBiquadBypass" /\ c.value = v
    BY <2>1
  <2> PICK r : r = [op |-> "WriteBiquadBypass", addr |-> Address(a, len, v),
                    value |-> v]
    OBVIOUS
  <2>2. from_bytes(to_bytes(c)) = r
    <3>1. TRUE \in BOOLEAN
      OBVIOUS
    <3> QED BY <1>b, <1>3, <2>1, <3>1, BypassUnderstood, Zenon
  <2>3. r.op = "WriteBiquadBypass" /\ r.value = v /\ r.addr.val = a
    BY <2>1 DEF Address
  <2> PICK x : x = Stored(d.bypassed, a, <<v>>)
    OBVIOUS
  <2>4. e = [d EXCEPT !.bypassed = x]
    BY <2>2, <2>3, SMT DEF execute
  <2> HIDE DEF e
  <2>5. Outcome(d, c, e)
    BY <2>0, <2>4, FieldsSet DEF Outcome
  <2>6. MasterLeft(d, c, c, e)
    BY <2>0, <2>4, FieldsSet DEF MasterLeft
  <2> QED BY <1>3, <2>0, <2>5, <2>6 DEF Touches
<1> HIDE DEF e
<1>4. BiquadWords = 5
  BY DEF BiquadWords
<1>5. \/ a \in words /\ \E v : c = [op |-> "Write", addr |-> addr(t, a),
                                   value |-> v]
      \/ a .. a + 5 - 1 \subseteq words
         /\ \E v : Len(v) = 5
                   /\ c = [op |-> "WriteBiquad", addr |-> addr(t, a),
                           data |-> v]
      \/ a \in flags
         /\ \E v \in BOOLEAN : c = [op |-> "WriteBiquadBypass",
                                    addr |-> addr(t, a), value |-> v]
  BY <1>4, Zenon DEF Form
<1>6. Goal
  BY <1>1, <1>2, <1>3, <1>5, Zenon
<1> QED BY <1>b, <1>6 DEF e

(* A status field set. *)
LEMMA StatusSet ==
    ASSUME NEW m, IsMaster(m), NEW x
    PROVE  /\ LET n == [m EXCEPT !.source = x] IN
                /\ n.preset = m.preset /\ n.source = x
                /\ n.volume = m.volume /\ n.dirac = m.dirac
                /\ n.mute = m.mute
           /\ LET n == [m EXCEPT !.volume = x] IN
                /\ n.preset = m.preset /\ n.source = m.source
                /\ n.volume = x /\ n.dirac = m.dirac
                /\ n.mute = m.mute
           /\ LET n == [m EXCEPT !.mute = x] IN
                /\ n.preset = m.preset /\ n.source = m.source
                /\ n.volume = m.volume /\ n.dirac = m.dirac
                /\ n.mute = x
           /\ LET n == [m EXCEPT !.dirac = x] IN
                /\ n.preset = m.preset /\ n.source = m.source
                /\ n.volume = m.volume /\ n.dirac = x
                /\ n.mute = m.mute
<1>1. LET n == [m EXCEPT !.source = x] IN
        /\ n.preset = m.preset /\ n.source = x
        /\ n.volume = m.volume /\ n.dirac = m.dirac
        /\ n.mute = m.mute
  BY SMT DEF IsMaster
<1>2. LET n == [m EXCEPT !.volume = x] IN
        /\ n.preset = m.preset /\ n.source = m.source
        /\ n.volume = x /\ n.dirac = m.dirac
        /\ n.mute = m.mute
  BY SMT DEF IsMaster
<1>3. LET n == [m EXCEPT !.mute = x] IN
        /\ n.preset = m.preset /\ n.source = m.source
        /\ n.volume = m.volume /\ n.dirac = m.dirac
        /\ n.mute = x
  BY SMT DEF IsMaster
<1>4. LET n == [m EXCEPT !.dirac = x] IN
        /\ n.preset = m.preset /\ n.source = m.source
        /\ n.volume = m.volume /\ n.dirac = x
        /\ n.mute = m.mute
  BY SMT DEF IsMaster
<1> QED BY <1>1, <1>2, <1>3, <1>4

LEMMA Third ==
    ASSUME NEW a, NEW x, NEW y
    PROVE  <<a, x, y>>[1] = a /\ Tail(<<a, x, y>>)[1] = x
<1>1. <<a, x, y>> \in Seq({a, x, y}) /\ Len(<<a, x, y>>) = 3
      /\ <<a, x, y>>[2] = x
  OBVIOUS
<1>2. Tail(<<a, x, y>>)[1] = <<a, x, y>>[2]
  BY <1>1
<1> QED BY <1>1, <1>2

(* What is resolved of a step, as far as it is not relative. *)
LEMMA ResolvedValue ==
    ASSUME NEW c, NEW r, r = Resolved(c), "op" \in DOMAIN c
    PROVE  /\ c.op \notin {"SetMute", "DiracBypass", "SetVolume"} => r = c
           /\ c.op = "SetVolume" /\ ~c.relative => r = c
           /\ c.op = "DiracBypass" /\ c.value \in {"on", "off"}
                /\ "value" \in DOMAIN c =>
                    (r.value = 0) = (c.value = "on")
<1>1. c.op \notin {"SetMute", "DiracBypass", "SetVolume"} => r = c
  BY ResolvedOp
<1>2. c.op = "SetVolume" /\ ~c.relative => r = c
  BY SMT DEF Resolved
<1>3. ASSUME c.op = "DiracBypass", c.value \in {"on", "off"},
             "value" \in DOMAIN c
      PROVE  (r.value = 0) = (c.value = "on")
  <2> PICK b \in BOOLEAN : b = ~(c.value = "on"
                \/ (c.value = "toggle" /\ ~The(saved).dirac))
    OBVIOUS
  <2>1. b <=> c.value # "on"
    BY <1>3
  <2>2. r = [c EXCEPT !.value = Bit(b)]
    BY <1>3, SMT DEF Resolved
  <2>3. r.value = Bit(b)
    BY <1>3, <2>2
  <2>4. (b => Bit(b) = 1) /\ (~b => Bit(b) = 0)
    BY DEF Bit
  <2>5. r.value = 0 <=> c.value = "on"
    BY <2>1, <2>3, <2>4, SMT
  <2> QED BY <2>5
<1> QED BY <1>1, <1>2, <1>3

LEMMA OthersOutcome ==
    ASSUME NEW d, IsDsp(d), IsMaster(d.master),
           NEW c, c.op \in Others, "op" \in DOMAIN c,
           c.op = "DiracBypass" => "value" \in DOMAIN c,
           NEW r, r = Resolved(c), NEW f, f = to_bytes(r)
    PROVE  Outcome(d, c, execute(d, f)) /\ MasterLeft(d, c, r, execute(d, f))
<1> DEFINE e == execute(d, f)
           Goal == Outcome(d, c, e) /\ MasterLeft(d, c, r, e)
<1>a. r.op = c.op
  BY ResolvedOp
<1>1. ASSUME c.op = "ReadMemory" PROVE Goal
  <2>1. f.head[1] = 5
    BY <1>1, <1>a, SMT DEF to_bytes, Frame
  <2> PICK g : g = from_bytes(f)
    OBVIOUS
  <2>2. g.op = "ReadMemory"
    BY <2>1, ReadOther
  <2>3. e = d
    BY <2>2, SMT DEF execute
  <2> HIDE DEF e
  <2>4. MasterLeft(d, c, r, e)
    BY <1>1, <2>3 DEF MasterLeft
  <2> QED BY <1>1, <2>3, <2>4 DEF Outcome
<1>2. ASSUME c.op = "SetConfig" PROVE Goal
  <2>1. r = c
    BY <1>2, ResolvedOp
  <2> PICK y, z : y = Bit(TRUE) /\ z = c.config
    OBVIOUS
  <2>2. f = Frame(<<37, z, y>>, <<>>)
    BY <1>2, <2>1, SMT DEF to_bytes
  <2>3. f.head[1] = 37 /\ Tail(f.head)[1] = c.config
    BY <2>2, Third DEF Frame
  <2> PICK g : g = from_bytes(f)
    OBVIOUS
  <2>4. g = [op |-> "SetConfig", config |-> c.config]
    BY <2>3, ReadOther, ZenonT(60)
  <2> PICK x : x = Some(c.config)
    OBVIOUS
  <2>5. e = [d EXCEPT !.next = x]
    BY <2>4, SMT DEF execute
  <2> HIDE DEF e
  <2>6. Outcome(d, c, e)
    BY <1>2, <2>5, FieldsSet DEF Outcome
  <2>7. MasterLeft(d, c, r, e)
    BY <1>2, <2>5, FieldsSet DEF MasterLeft
  <2> QED BY <2>6, <2>7
<1>3. ASSUME c.op = "SetSource" PROVE Goal
  <2>1. r = c
    BY <1>3, ResolvedOp
  <2>2. f = Frame(<<52, c.source>>, <<>>)
    BY <1>3, <2>1, SMT DEF to_bytes
  <2>3. f.head[1] = 52 /\ Tail(f.head)[1] = c.source
    BY <2>2, Second DEF Frame
  <2> PICK g : g = from_bytes(f)
    OBVIOUS
  <2>4. g = [op |-> "SetSource", source |-> c.source]
    BY <2>3, ReadOther, ZenonT(60)
  <2> PICK x : x = [d.master EXCEPT !.source = c.source]
    OBVIOUS
  <2>5. e = [d EXCEPT !.master = x]
    BY <2>4, SMT DEF execute
  <2> HIDE DEF e
  <2>6. /\ x.preset = d.master.preset /\ x.source = c.source
        /\ x.volume = d.master.volume /\ x.dirac = d.master.dirac
        /\ x.mute = d.master.mute
    BY StatusSet
  <2>7. /\ e.words = d.words /\ e.bypassed = d.bypassed
        /\ e.filters = d.filters /\ e.next = d.next /\ e.master = x
    BY <2>5, FieldsSet
  <2>8. Outcome(d, c, e)
    BY <1>3, <2>6, <2>7, Zenon DEF Outcome
  <2>9. MasterLeft(d, c, r, e)
    BY <1>3, <2>6, <2>7, Zenon DEF MasterLeft
  <2> QED BY <2>8, <2>9
<1>4. ASSUME c.op = "SetMute" PROVE Goal
  <2> PICK x : x = Bit(r.value)
    OBVIOUS
  <2>1. f = Frame(<<23, x>>, <<>>)
    BY <1>4, <1>a, SMT DEF to_bytes
  <2>2. f.head[1] = 23 /\ Tail(f.head)[1] = x
    BY <2>1, Second DEF Frame
  <2> PICK g : g = from_bytes(f)
    OBVIOUS
  <2>p. PICK v : v = (Tail(f.head)[1] # 0)
    OBVIOUS
  <2>3. g.op = "SetMute" /\ g.value = v
    <3>1. g = [op |-> "SetMute", value |-> v]
      BY <2>2, <2>p, ReadOther, ZenonT(60)
    <3> QED BY <3>1
  <2> PICK m : m = [d.master EXCEPT !.mute = v]
    OBVIOUS
  <2>4. e = [d EXCEPT !.master = m]
    BY <2>3, SMT DEF execute
  <2> HIDE DEF e
  <2>5. /\ m.preset = d.master.preset /\ m.source = d.master.source
        /\ m.volume = d.master.volume /\ m.dirac = d.master.dirac
        /\ m.mute = v
    BY StatusSet
  <2>6. /\ e.words = d.words /\ e.bypassed = d.bypassed
        /\ e.filters = d.filters /\ e.next = d.next /\ e.master = m
    BY <2>4, FieldsSet
  <2>7. Outcome(d, c, e)
    BY <1>4, <2>5, <2>6, Zenon DEF Outcome
  <2>8. e.master.mute = (Bit(r.value) # 0)
    <3>1. e.master.mute = v
      BY <2>5, <2>6, Zenon
    <3> QED BY <2>2, <2>p, <3>1, Zenon
  <2>9. MasterLeft(d, c, r, e)
    BY <1>4, <2>8 DEF MasterLeft
  <2> QED BY <2>7, <2>9
<1>5. ASSUME c.op = "SetVolume" PROVE Goal
  <2> PICK x : x = GainByte(r.value)
    OBVIOUS
  <2>1. f = Frame(<<66, x>>, <<>>)
    BY <1>5, <1>a, SMT DEF to_bytes
  <2>2. f.head[1] = 66 /\ Tail(f.head)[1] = x
    BY <2>1, Second DEF Frame
  <2> PICK g : g = from_bytes(f)
    OBVIOUS
  <2>3. g.op = "SetVolume" /\ g.value = -x
    <3>1. g.op = "SetVolume" /\ g.value = -(Tail(f.head)[1])
      BY <2>2, ReadOther, Zenon
    <3> QED BY <2>2, <3>1, Zenon
  <2> PICK y : y = g.value
    OBVIOUS
  <2> PICK m : m = [d.master EXCEPT !.volume = y]
    OBVIOUS
  <2>4. e = [d EXCEPT !.master = m]
    BY <2>3, SMT DEF execute
  <2> HIDE DEF e
  <2>5. ~c.relative => y = -GainByte(c.value)
    <3>1. ~c.relative => r = c
      BY <1>5, ResolvedValue
    <3> QED BY <2>3, <3>1, Zenon
  <2>6. /\ m.preset = d.master.preset /\ m.source = d.master.source
        /\ m.volume = y /\ m.dirac = d.master.dirac /\ m.mute = d.master.mute
    BY StatusSet
  <2>7. /\ e.words = d.words /\ e.bypassed = d.bypassed
        /\ e.filters = d.filters /\ e.next = d.next /\ e.master = m
    BY <2>4, FieldsSet
  <2>8. ~c.relative => e.master.volume = -GainByte(c.value)
    BY <2>5, <2>6, <2>7, Zenon
  <2>9. Outcome(d, c, e)
    BY <1>5, <2>6, <2>7, <2>8, Zenon DEF Outcome
  <2>10. e.master.volume = -GainByte(r.value) /\ e.master.mute = d.master.mute
    BY <2>3, <2>6, <2>7, Zenon
  <2>11. MasterLeft(d, c, r, e)
    BY <1>5, <2>10 DEF MasterLeft
  <2> QED BY <2>9, <2>11
<1>6. ASSUME c.op = "DiracBypass" PROVE Goal
  <2> PICK v : v = r.value
    OBVIOUS
  <2>1. f = Frame(<<63, v>>, <<>>)
    BY <1>6, <1>a, SMT DEF to_bytes
  <2>2. f.head[1] = 63 /\ Tail(f.head)[1] = v
    BY <2>1, Second DEF Frame
  <2> PICK g : g = from_bytes(f)
    OBVIOUS
  <2>3. g = [op |-> "Unknown", cmd_id |-> 63, payload |-> Tail(f.head)]
    BY <2>2, ReadOther, ZenonT(60)
  <2>4. g.op = "Unknown" /\ g.cmd_id = 63
    BY <2>3
  <2>5. g.payload[1] = v
    <3>1. g.payload = Tail(f.head)
      BY <2>3
    <3> QED BY <2>2, <3>1, Zenon
  <2> PICK b \in BOOLEAN : b = (g.payload[1] = 0)
    OBVIOUS
  <2>6. b = (v = 0)
    BY <2>5
  <2> PICK m : m = [d.master EXCEPT !.dirac = b]
    OBVIOUS
  <2>7. e = [d EXCEPT !.master = m]
    BY <2>4, SMT DEF execute
  <2> HIDE DEF e
  <2>8. c.value \in {"on", "off"} => b = (c.value = "on")
    <3>1. c.value \in {"on", "off"} => (v = 0) = (c.value = "on")
      BY <1>6, ResolvedValue, Zenon
    <3> QED BY <2>6, <3>1, Zenon
  <2>9. /\ m.preset = d.master.preset /\ m.source = d.master.source
        /\ m.volume = d.master.volume /\ m.dirac = b
        /\ m.mute = d.master.mute
    BY StatusSet
  <2>10. /\ e.words = d.words /\ e.bypassed = d.bypassed
         /\ e.filters = d.filters /\ e.next = d.next /\ e.master = m
    BY <2>7, FieldsSet
  <2>11. c.value \in {"on", "off"} => e.master.dirac = (c.value = "on")
    BY <2>8, <2>9, <2>10, Zenon
  <2>12. Outcome(d, c, e)
    BY <1>6, <2>9, <2>10, <2>11, Zenon DEF Outcome
  <2>13. e.master.dirac = (r.value = 0) /\ e.master.mute = d.master.mute
    BY <2>6, <2>9, <2>10, Zenon
  <2>14. MasterLeft(d, c, r, e)
    BY <1>6, <2>13 DEF MasterLeft
  <2> QED BY <2>12, <2>14
<1>7. ASSUME c.op = "FirLoadStart" PROVE Goal
  <2>1. r = c
    BY <1>7, ResolvedOp
  <2>2. f = Frame(<<57, c.index>>, <<>>)
    BY <1>7, <2>1, SMT DEF to_bytes
  <2>3. f.head[1] = 57 /\ Tail(f.head)[1] = c.index
    BY <2>2, Second DEF Frame
  <2> PICK g : g = from_bytes(f)
    OBVIOUS
  <2>4. g = [op |-> "FirLoadStart", index |-> c.index]
    BY <2>3, ReadOther, ZenonT(60)
  <2> PICK x : x = Stored(d.filters, c.index, << <<>> >>)
    OBVIOUS
  <2> PICK d1 : d1 = [d EXCEPT !.filters = x]
    OBVIOUS
  <2> PICK m : m = [d1.master EXCEPT !.mute = TRUE]
    OBVIOUS
  <2>5. e = [d1 EXCEPT !.master = m]
    <3>1. x = Stored(d.filters, g.index, << <<>> >>)
      BY <2>4
    <3> QED BY <2>4, <3>1, SMT DEF execute
  <2> HIDE DEF e
  <2>6. d1.master = d.master /\ IsDsp(d1) /\ d1.filters = x
        /\ d1.words = d.words /\ d1.bypassed = d.bypassed
        /\ d1.next = d.next
    BY FieldsSet, SMTT(30)
  <2>7. /\ m.preset = d.master.preset /\ m.source = d.master.source
        /\ m.volume = d.master.volume /\ m.dirac = d.master.dirac
        /\ m.mute = TRUE
    BY <2>6, StatusSet
  <2>8. /\ e.words = d1.words /\ e.bypassed = d1.bypassed
        /\ e.filters = d1.filters /\ e.next = d1.next /\ e.master = m
    BY <2>5, <2>6, FieldsSet
  <2>9. Outcome(d, c, e)
    BY <1>7, <2>6, <2>7, <2>8, Zenon DEF Outcome
  <2>10. MasterLeft(d, c, r, e)
    BY <1>7, <2>7, <2>8 DEF MasterLeft
  <2> QED BY <2>9, <2>10
<1>8. ASSUME c.op = "FirLoadData" PROVE Goal
  <2>1. r = c
    BY <1>8, ResolvedOp
  <2>2. f = Frame(<<58, c.index>>, c.data)
    BY <1>8, <2>1, SMT DEF to_bytes
  <2>3. f.head[1] = 58 /\ Tail(f.head)[1] = c.index /\ f.words = c.data
    BY <2>2, Second DEF Frame
  <2> PICK g : g = from_bytes(f)
    OBVIOUS
  <2>4. g.op = "FirLoadData" /\ g.index = c.index
    BY <2>3, ReadOther, ZenonT(60)
  <2> PICK x : x = [d.filters EXCEPT ![c.index] = @ \o c.data]
    OBVIOUS
  <2>5. e = [d EXCEPT !.filters = x]
    <3> PICK i, w : i = g.index /\ w = f.words
      OBVIOUS
    <3>1. x = [d.filters EXCEPT ![i] = @ \o w]
      BY <2>3, <2>4, Zenon
    <3>2. e = [d EXCEPT !.filters[i] = @ \o w]
      BY <2>4, SMT DEF execute
    <3> QED BY <3>1, <3>2, Zenon
  <2> HIDE DEF e
  <2>6. Outcome(d, c, e)
    BY <1>8, <2>5, FieldsSet DEF Outcome
  <2>7. MasterLeft(d, c, r, e)
    BY <1>8, <2>5, FieldsSet DEF MasterLeft
  <2> QED BY <2>6, <2>7
<1>9. ASSUME c.op = "FirLoadEnd" PROVE Goal
  <2>1. f.head[1] = 59
    BY <1>9, <1>a, SMT DEF to_bytes, Frame
  <2> PICK g : g = from_bytes(f)
    OBVIOUS
  <2>2. g = [op |-> "FirLoadEnd"]
    BY <2>1, ReadOther, ZenonT(60)
  <2>3. e = d
    BY <2>2, SMT DEF execute
  <2> HIDE DEF e
  <2>4. MasterLeft(d, c, r, e)
    BY <1>9, <2>3 DEF MasterLeft
  <2> QED BY <1>9, <2>3, <2>4 DEF Outcome
<1> HIDE DEF e
<1>b. Goal
  BY <1>1, <1>2, <1>3, <1>4, <1>5, <1>6, <1>7, <1>8, <1>9, Zenon DEF Others
<1> QED BY <1>b DEF e

(* A single value. *)
Put(f, n, v) == [w \in {n} \cup DOMAIN f |-> IF w = n THEN v ELSE f[w]]

LEMMA StoredOne ==
    ASSUME NEW f, NEW n \in Nat, NEW v
    PROVE  Stored(f, n, <<v>>) = Put(f, n, v)
<1>1. Len(<<v>>) = 1 /\ <<v>>[1] = v
  OBVIOUS
<1>2. n .. n + 1 - 1 = {n} /\ n - n + 1 = 1
  OBVIOUS
<1> DEFINE g == Stored(f, n, <<v>>)
<1>3. g = [w \in {n} \cup DOMAIN f |->
            IF w \in {n} THEN <<v>>[w - n + 1] ELSE f[w]]
  BY <1>1, <1>2, Zenon DEF Stored
<1>4. g = [w \in {n} \cup DOMAIN f |-> IF w = n THEN v ELSE f[w]]
  BY <1>1, <1>2, <1>3
<1> QED BY <1>4 DEF Put

LEMMA LeavesFacts ==
    ASSUME NEW c, NEW a
    PROVE  /\ c.op \in {"Write", "WriteBiquadBypass"} =>
                Leaves(c, a) = c.value
           /\ c.op = "WriteBiquad" =>
                Leaves(c, a) = c.data[a - c.addr.val + 1]
           /\ c.op = "SetSource" => Leaves(c, a) = c.source
           /\ c.op = "SetVolume" => Leaves(c, a) = -GainByte(c.value)
           /\ c.op = "DiracBypass" => Leaves(c, a) = (c.value = "on")
<1> PICK v : v = -GainByte(c.value)
  OBVIOUS
<1> PICK b : b = (c.value = "on")
  OBVIOUS
<1>1. Leaves(c, a) =
        CASE c.op = "WriteBiquad" -> c.data[a - c.addr.val + 1]
          [] c.op = "SetSource" -> c.source
          [] c.op = "SetVolume" -> v
          [] c.op = "DiracBypass" -> b
          [] OTHER -> c.value
  BY Zenon DEF Leaves
<1>2. /\ c.op \in {"Write", "WriteBiquadBypass"} =>
            Leaves(c, a) = c.value
      /\ c.op = "WriteBiquad" =>
            Leaves(c, a) = c.data[a - c.addr.val + 1]
      /\ c.op = "SetSource" => Leaves(c, a) = c.source
      /\ c.op = "SetVolume" => Leaves(c, a) = v
      /\ c.op = "DiracBypass" => Leaves(c, a) = b
  BY <1>1, SMT
<1> QED BY <1>2, Zenon

(* The registers of e are those of d, but for what the command c sets.     *)
Sets(d, c, e) ==
    \A kind, a :
        /\ ~Touches(c, kind, a) =>
            \A v : Has(d, kind, a, v) <=> Has(e, kind, a, v)
        /\ Touches(c, kind, a) /\ IsAbsolute(c) =>
            Has(e, kind, a, Leaves(c, a))

LEMMA OutcomeSets ==
    ASSUME NEW d, NEW c, NEW e, Outcome(d, c, e),
           c.op \in {"Write", "WriteBiquad", "WriteBiquadBypass"} =>
                c.addr.val \in Nat,
           c.op = "WriteBiquad" => Len(c.data) = BiquadWords
    PROVE  Sets(d, c, e)
<1> DEFINE Right(kind, a) ==
        /\ ~Touches(c, kind, a) =>
            \A v : Has(d, kind, a, v) <=> Has(e, kind, a, v)
        /\ Touches(c, kind, a) /\ IsAbsolute(c) =>
            Has(e, kind, a, Leaves(c, a))
<1>1. ASSUME NEW a PROVE Right("word", a)
  <2>1. CASE c.op = "Write"
    <3>1. Stored(d.words, c.addr.val, <<c.value>>) =
            Put(d.words, c.addr.val, c.value)
      BY <2>1, StoredOne, Zenon
    <3>2. e.words = Put(d.words, c.addr.val, c.value)
      BY <2>1, <3>1, Zenon DEF Outcome
    <3>3. Leaves(c, a) = c.value
      BY <2>1, LeavesFacts
    <3>4. Touches(c, "word", a) <=> a = c.addr.val
      BY <2>1 DEF Touches
    <3> QED BY <3>2, <3>3, <3>4 DEF Has, Put
  <2>2. CASE c.op = "WriteBiquad"
    <3> DEFINE new == c.addr.val .. c.addr.val + BiquadWords - 1
    <3> PICK g, n, values : g = Stored(d.words, n, values)
                /\ n = c.addr.val /\ values = c.data
      OBVIOUS
    <3>0. n \in Nat /\ Len(values) = 5
      BY <2>2 DEF BiquadWords
    <3>1. /\ DOMAIN g = new \cup DOMAIN d.words
          /\ \A w \in new : g[w] = values[w - n + 1]
          /\ \A w \in DOMAIN d.words \ new : g[w] = d.words[w]
      BY <3>0 DEF Stored, BiquadWords
    <3>2. e.words = g
      BY <2>2, Zenon DEF Outcome
    <3>3. Leaves(c, a) = c.data[a - c.addr.val + 1]
      BY <2>2, LeavesFacts
    <3>4. Touches(c, "word", a) <=> a \in new
      BY <2>2 DEF Touches
    <3> HIDE DEF new
    <3> QED BY <3>1, <3>2, <3>3, <3>4 DEF Has
  <2>3. CASE c.op \notin {"Write", "WriteBiquad"}
    BY <2>3 DEF Outcome, Touches, Has
  <2> QED BY <2>1, <2>2, <2>3
<1>2. ASSUME NEW a PROVE Right("flag", a)
  <2>1. CASE c.op = "WriteBiquadBypass"
    <3>1. Stored(d.bypassed, c.addr.val, <<c.value>>) =
            Put(d.bypassed, c.addr.val, c.value)
      BY <2>1, StoredOne, Zenon
    <3>2. e.bypassed = Put(d.bypassed, c.addr.val, c.value)
      BY <2>1, <3>1, Zenon DEF Outcome
    <3>3. Leaves(c, a) = c.value
      BY <2>1, LeavesFacts
    <3>4. Touches(c, "flag", a) <=> a = c.addr.val
      BY <2>1 DEF Touches
    <3> QED BY <3>2, <3>3, <3>4 DEF Has, Put
  <2>2. CASE c.op # "WriteBiquadBypass"
    BY <2>2 DEF Outcome, Touches, Has
  <2> QED BY <2>1, <2>2
<1>3. ASSUME NEW a PROVE Right("source", a)
  <2>1. c.op = "SetSource" => Leaves(c, a) = c.source
    BY LeavesFacts
  <2> QED BY <2>1 DEF Outcome, Touches, Has
<1>4. ASSUME NEW a PROVE Right("volume", a)
  <2>1. c.op = "SetVolume" => Leaves(c, a) = -GainByte(c.value)
    BY LeavesFacts
  <2>2. c.op = "SetVolume" /\ ~c.relative => e.master.volume = Leaves(c, a)
    BY <2>1, Zenon DEF Outcome
  <2>3. c.op # "SetVolume" => e.master.volume = d.master.volume
    BY Zenon DEF Outcome
  <2> QED BY <2>2, <2>3 DEF Touches, Has, IsAbsolute
<1>5. ASSUME NEW a PROVE Right("dirac", a)
  <2>1. c.op = "DiracBypass" => Leaves(c, a) = (c.value = "on")
    BY LeavesFacts
  <2>2. c.op = "DiracBypass" /\ c.value \in {"on", "off"} =>
            e.master.dirac = Leaves(c, a)
    BY <2>1, Zenon DEF Outcome
  <2>3. c.op # "DiracBypass" => e.master.dirac = d.master.dirac
    BY Zenon DEF Outcome
  <2> QED BY <2>2, <2>3 DEF Touches, Has, IsAbsolute
<1>6. ASSUME NEW kind, NEW a,
             kind \notin {"word", "flag", "source", "volume", "dirac"}
      PROVE  Right(kind, a)
  BY <1>6 DEF Touches, Has
<1> HIDE DEF Right
<1>7. \A kind, a : Right(kind, a)
  BY <1>1, <1>2, <1>3, <1>4, <1>5, <1>6
<1> QED BY <1>7 DEF Right, Sets

(* The filters of e are those of d, but for what the command loads.        *)
Loaded(d, i, v) == i \in DOMAIN d.filters /\ d.filters[i] = v
Loads(d, c, e) ==
    /\ c.op = "FirLoadStart" => Loaded(e, c.index, <<>>)
    /\ \A i, v : Loaded(d, i, v) =>
        /\ ~IsLoad(c, i) => Loaded(e, i, v)
        /\ c.op = "FirLoadData" /\ c.index = i => Loaded(e, i, v \o c.data)

LEMMA OutcomeLoads ==
    ASSUME NEW d, NEW c, NEW e, Outcome(d, c, e),
           c.op = "FirLoadStart" => c.index \in 0 .. 255
    PROVE  Loads(d, c, e)
<1>0. \A k \in 0 .. 255 : k \in Nat
  OBVIOUS
<1>1. CASE c.op = "FirLoadStart"
  <2> PICK x, n : x = << >> /\ n = c.index
    OBVIOUS
  <2>1. n \in Nat
    BY <1>0, <1>1, Zenon
  <2>2. Stored(d.filters, n, <<x>>) = Put(d.filters, n, x)
    BY <2>1, StoredOne, Zenon
  <2>3. e.filters = Put(d.filters, n, x)
    BY <1>1, <2>2, Zenon DEF Outcome
  <2> PICK g : g = Put(d.filters, n, x)
    OBVIOUS
  <2>4. g[n] = x /\ DOMAIN g = {n} \cup DOMAIN d.filters
    BY Zenon DEF Put
  <2>5. Loaded(e, c.index, <<>>)
    BY <2>3, <2>4, Zenon DEF Loaded
  <2>6. \A i, v : Loaded(d, i, v) /\ ~IsLoad(c, i) => Loaded(e, i, v)
    BY <1>1, <2>3 DEF Loaded, IsLoad, Put
  <2>7. c.op # "FirLoadData"
    BY <1>1
  <2> QED BY <2>5, <2>6, <2>7, Zenon DEF Loads
<1>2. CASE c.op = "FirLoadData"
  <2>1. e.filters = [d.filters EXCEPT ![c.index] = @ \o c.data]
    BY <1>2 DEF Outcome
  <2>2. c.op # "FirLoadStart"
    BY <1>2
  <2>3. ASSUME NEW i, NEW v, Loaded(d, i, v)
        PROVE  /\ ~IsLoad(c, i) => Loaded(e, i, v)
               /\ c.index = i => Loaded(e, i, v \o c.data)
    BY <1>2, <2>1, <2>3 DEF Loaded, IsLoad
  <2> QED BY <2>2, <2>3, Zenon DEF Loads
<1>3. CASE c.op \notin {"FirLoadStart", "FirLoadData"}
  BY <1>3 DEF Loads, Loaded, Outcome
<1> QED BY <1>1, <1>2, <1>3

-----------------------------------------------------------------------------
(* What the first steps of a plan leave behind *)

(* The registers that the first n steps have set are as the last step that *)
(* set them has left them.                                                 *)
Replayed(d, p, n) ==
    \A k \in 1 .. n : \A kind, a :
        /\ Touches(p[k], kind, a) /\ IsAbsolute(p[k])
        /\ \A m \in k + 1 .. n : ~Touches(p[m], kind, a)
        => Has(d, kind, a, Leaves(p[k], a))

LEMMA ReplayedMore ==
    ASSUME NEW d, NEW e, NEW p, NEW n \in Nat, Replayed(d, p, n),
           NEW c, c = p[n + 1], Sets(d, c, e)
    PROVE  Replayed(e, p, n + 1)
<1> SUFFICES ASSUME NEW k \in 1 .. n + 1, NEW kind, NEW a,
                    Touches(p[k], kind, a), IsAbsolute(p[k]),
                    \A m \in k + 1 .. n + 1 : ~Touches(p[m], kind, a)
             PROVE  Has(e, kind, a, Leaves(p[k], a))
  BY DEF Replayed
<1>1. CASE k = n + 1
  <2>1. p[k] = c
    BY <1>1
  <2> QED BY <2>1, Zenon DEF Sets
<1>2. CASE k # n + 1
  <2>1. k \in 1 .. n /\ n + 1 \in k + 1 .. n + 1
        /\ k + 1 .. n \subseteq k + 1 .. n + 1
    BY <1>2
  <2>2. Has(d, kind, a, Leaves(p[k], a))
    BY <2>1, Zenon DEF Replayed
  <2>3. ~Touches(c, kind, a)
    BY <2>1, Zenon
  <2> QED BY <2>2, <2>3, Zenon DEF Sets
<1> QED BY <1>1, <1>2

(* The first b blocks of a filter. *)
FirstBlocks(v, b) ==
    IF CHUNK * b >= Len(v) THEN v ELSE SubSeq(v, 1, CHUNK * b)

LEMMA LesserOfTwo ==
    ASSUME NEW x \in Int, NEW y \in Int
    PROVE  Min({x, y}) = IF x <= y THEN x ELSE y
  BY DEF Min

LEMMA BlockNext ==
    ASSUME NEW v, IsSequence(v), NEW b \in Nat,
           b + 1 <= Len(Chunks(v))
    PROVE  FirstBlocks(v, b) \o Chunks(v)[b + 1] = FirstBlocks(v, b + 1)
<1>1. PICK S : v \in Seq(S)
  BY Sequences
<1> DEFINE L == Len(v)
           n == (L + 13) \div 14
           next == 14 * (b + 1)
           last == IF next <= L THEN next ELSE L
<1>2. L \in Nat
  BY <1>1
<1> HIDE DEF L
<1>3. n \in Nat /\ Len(Chunks(v)) = n
  <2>1. n \in Nat
    BY <1>2
  <2>2. Chunks(v) = [i \in 1 .. n |->
            SubSeq(v, 14 * (i - 1) + 1, Min({14 * i, L}))]
    BY DEF Chunks, CHUNK, L
  <2> HIDE DEF n
  <2> QED BY <2>1, <2>2
<1>4. 14 * b < L
  BY <1>2, <1>3
<1>5. Chunks(v)[b + 1] = SubSeq(v, 14 * b + 1, last)
  <2> DEFINE i == b + 1
  <2>1. i \in 1 .. n /\ i - 1 = b
    BY <1>3
  <2>2. Chunks(v) = [j \in 1 .. n |->
            SubSeq(v, 14 * (j - 1) + 1, Min({14 * j, L}))]
    BY DEF Chunks, CHUNK, L
  <2>3. Min({14 * i, L}) = last
    BY <1>2, LesserOfTwo
  <2> HIDE DEF n, i, last
  <2>4. Chunks(v)[i] = SubSeq(v, 14 * (i - 1) + 1, Min({14 * i, L}))
    BY <2>1, <2>2
  <2>5. Chunks(v)[i] = SubSeq(v, 14 * b + 1, last)
    BY <2>1, <2>3, <2>4, Zenon
  <2> QED BY <2>5 DEF i
<1>6. FirstBlocks(v, b) = SubSeq(v, 1, 14 * b)
  BY <1>2, <1>4 DEF FirstBlocks, CHUNK, L
<1>7. last \in Nat /\ 14 * b < last /\ last <= L
  BY <1>2, <1>4
<1>8. FirstBlocks(v, b + 1) = SubSeq(v, 1, last)
  <2>1. CASE next >= L
    <3>1. SubSeq(v, 1, L) = v
      BY <1>1 DEF L
    <3>2. last = L
      BY <1>2, <2>1
    <3>3. FirstBlocks(v, b + 1) = v
      BY <2>1 DEF FirstBlocks, CHUNK, L
    <3> QED BY <3>1, <3>2, <3>3, Zenon
  <2>2. CASE ~(next >= L)
    <3>1. last = next
      BY <1>2, <2>2
    <3>2. FirstBlocks(v, b + 1) = SubSeq(v, 1, next)
      BY <2>2 DEF FirstBlocks, CHUNK, L
    <3> QED BY <3>1, <3>2, Zenon
  <2> QED BY <2>1, <2>2
<1> HIDE DEF last
<1> DEFINE m == 14 * b
<1>9. m \in Nat /\ m < last /\ last <= Len(v)
  BY <1>7 DEF L
<1> HIDE DEF m
<1>10. SubSeq(v, 1, m) \o SubSeq(v, m + 1, last) = SubSeq(v, 1, last)
  <2> PICK x : x = SubSeq(v, 1, m)
    OBVIOUS
  <2> PICK y : y = SubSeq(v, m + 1, last)
    OBVIOUS
  <2> PICK z : z = SubSeq(v, 1, last)
    OBVIOUS
  <2>1. x \in Seq(S) /\ Len(x) = m /\ \A i \in 1 .. m : x[i] = v[i]
    BY <1>1, <1>7, <1>9
  <2>2. y \in Seq(S) /\ Len(y) = last - m
        /\ \A i \in 1 .. last - m : y[i] = v[m + i]
    BY <1>1, <1>7, <1>9
  <2>3. z \in Seq(S) /\ Len(z) = last /\ \A i \in 1 .. last : z[i] = v[i]
    BY <1>1, <1>7, <1>9
  <2> PICK w : w = x \o y
    OBVIOUS
  <2>4. w \in Seq(S) /\ Len(w) = m + (last - m)
        /\ \A i \in 1 .. Len(w) :
                w[i] = IF i <= Len(x) THEN x[i] ELSE y[i - Len(x)]
    <3>1. /\ x \o y \in Seq(S) /\ Len(x \o y) = Len(x) + Len(y)
          /\ \A i \in 1 .. Len(x) + Len(y) : (x \o y)[i] =
                IF i <= Len(x) THEN x[i] ELSE y[i - Len(x)]
      <4>1. x \in Seq(S) /\ y \in Seq(S)
        BY <2>1, <2>2
      <4> QED BY <4>1, ConcatProperties, SMTT(40)
    <3> QED BY <2>1, <2>2, <3>1
  <2>5. Len(w) = last
    BY <1>7, <1>9, <2>4
  <2>6. \A i \in 1 .. last : w[i] = v[i]
    <3> SUFFICES ASSUME NEW i \in 1 .. last PROVE w[i] = v[i]
      OBVIOUS
    <3>1. CASE i <= m
      BY <1>7, <1>9, <2>1, <2>4, <2>5, <3>1
    <3>2. CASE ~(i <= m)
      <4>1. i - m \in 1 .. last - m /\ m + (i - m) = i
        BY <1>7, <1>9, <3>2
      <4>2. w[i] = y[i - m]
        BY <2>1, <2>4, <2>5, <3>2
      <4>3. y[i - m] = v[m + (i - m)]
        BY <2>2, <4>1
      <4> QED BY <4>1, <4>2, <4>3
    <3> QED BY <3>1, <3>2
  <2>7. w = z
    <3>1. /\ w \in Seq(S) /\ z \in Seq(S) /\ Len(w) = Len(z)
          /\ \A i \in 1 .. Len(w) : w[i] = z[i]
      BY <2>3, <2>4, <2>5, <2>6
    <3> QED BY <3>1, SeqEqual, Zenon
  <2> QED BY <2>7
<1> QED BY <1>5, <1>6, <1>8, <1>10, Zenon DEF m

LEMMA BlockEnds ==
    ASSUME NEW v, IsSequence(v)
    PROVE  /\ FirstBlocks(v, 0) = <<>>
           /\ Len(Chunks(v)) \in Nat
           /\ \A b \in Nat : b >= Len(Chunks(v)) => FirstBlocks(v, b) = v
<1>1. PICK S : v \in Seq(S)
  BY Sequences
<1> DEFINE L == Len(v)
           n == (L + 13) \div 14
<1>2. L \in Nat
  BY <1>1
<1> HIDE DEF L
<1>3. n \in Nat /\ Len(Chunks(v)) = n
  <2>1. n \in Nat
    BY <1>2
  <2>2. Chunks(v) = [i \in 1 .. n |->
            SubSeq(v, 14 * (i - 1) + 1, Min({14 * i, L}))]
    BY DEF Chunks, CHUNK, L
  <2> HIDE DEF n
  <2> QED BY <2>1, <2>2
<1>4. FirstBlocks(v, 0) = <<>>
  <2>1. CASE L = 0
    <3>1. FirstBlocks(v, 0) = v
      BY <2>1 DEF FirstBlocks, CHUNK, L
    <3>2. v = <<>>
      BY <1>1, <2>1 DEF L
    <3> QED BY <3>1, <3>2, Zenon
  <2>2. CASE L # 0
    <3>1. FirstBlocks(v, 0) = SubSeq(v, 1, 0)
      BY <1>2, <2>2 DEF FirstBlocks, CHUNK, L
    <3>2. SubSeq(v, 1, 0) = <<>>
      BY <1>1
    <3> QED BY <3>1, <3>2, Zenon
  <2> QED BY <2>1, <2>2
<1>5. \A b \in Nat : b >= n => 14 * b >= L
  BY <1>2
<1>6. \A b \in Nat : b >= n => FirstBlocks(v, b) = v
  BY <1>5 DEF FirstBlocks, CHUNK, L
<1> QED BY <1>3, <1>4, <1>6, Zenon

(* The filters that the first n steps have begun to load are loaded as far *)
(* as their blocks have come.                                              *)
Fed(d, p, n) ==
    \A k \in 1 .. n : \A i, v : LoadedAt(p, k, i, v) /\ IsSequence(v) =>
        Loaded(d, i, FirstBlocks(v, IF n <= k + 1 THEN 0 ELSE n - k - 1))

LEMMA FedMore ==
    ASSUME NEW d, NEW e, NEW p, Len(p) \in Nat,
           NEW n \in Nat, n + 1 <= Len(p), Fed(d, p, n),
           NEW c, c = p[n + 1], Loads(d, c, e)
    PROVE  Fed(e, p, n + 1)
<1> SUFFICES ASSUME NEW k \in 1 .. n + 1, NEW i, NEW v,
                    LoadedAt(p, k, i, v), IsSequence(v)
             PROVE  Loaded(e, i, FirstBlocks(v,
                        IF n + 1 <= k + 1 THEN 0 ELSE n + 1 - k - 1))
  BY DEF Fed
<1> PICK x : x = IF n + 1 <= k + 1 THEN 0 ELSE n + 1 - k - 1
  OBVIOUS
<1> DEFINE B == Len(Chunks(v))
<1>1. /\ p[k].op = "FirLoadStart" /\ p[k].index = i
      /\ k + 1 + B <= Len(p)
      /\ \A b \in 1 .. B :
            /\ p[k + 1 + b].op = "FirLoadData"
            /\ p[k + 1 + b].index = i
            /\ p[k + 1 + b].data = Chunks(v)[b]
      /\ \A m \in k + 1 .. Len(p) :
            IsLoad(p[m], i) => m \in k + 2 .. k + 1 + B
  BY DEF LoadedAt
<1>2. /\ FirstBlocks(v, 0) = <<>> /\ B \in Nat
      /\ \A b \in Nat : b >= B => FirstBlocks(v, b) = v
  BY BlockEnds
<1>3. CASE k = n + 1
  <2>1. c.op = "FirLoadStart" /\ c.index = i
    BY <1>1, <1>3
  <2>2. Loaded(e, i, <<>>)
    BY <2>1, Zenon DEF Loads
  <2>3. x = 0
    BY <1>3
  <2> QED BY <1>2, <2>2, <2>3, Zenon
<1>4. CASE k # n + 1
  <2> HIDE DEF B
  <2> PICK a : a = IF n <= k + 1 THEN 0 ELSE n - k - 1
    OBVIOUS
  <2>1. k \in 1 .. n /\ a \in Nat
    BY <1>4
  <2> PICK f : f = FirstBlocks(v, a)
    OBVIOUS
  <2>2. Loaded(d, i, f)
    BY <2>1, Zenon DEF Fed
  <2>3. n + 1 \in k + 1 .. Len(p)
    BY <2>1
  <2>4. x = n - k /\ n - k \in Nat
    BY <2>1
  <2>5. CASE IsLoad(c, i)
    <3>1. n + 1 \in k + 2 .. k + 1 + B
      BY <1>1, <2>3, <2>5, Zenon
    <3>2. n - k \in 1 .. B /\ k + 1 + (n - k) = n + 1 /\ a + 1 = n - k
          /\ a + 1 <= B
      BY <1>2, <2>1, <3>1
    <3>3. c.op = "FirLoadData" /\ c.index = i /\ c.data = Chunks(v)[a + 1]
      <4>1. c = p[k + 1 + (n - k)]
        BY <3>2, Zenon
      <4>2. /\ p[k + 1 + (n - k)].op = "FirLoadData"
            /\ p[k + 1 + (n - k)].index = i
            /\ p[k + 1 + (n - k)].data = Chunks(v)[n - k]
        BY <1>1, <3>2, Zenon
      <4> QED BY <3>2, <4>1, <4>2, Zenon
    <3>4. Loaded(e, i, f \o c.data)
      BY <2>2, <3>3, Zenon DEF Loads
    <3>5. f \o Chunks(v)[a + 1] = FirstBlocks(v, a + 1)
      BY <2>1, <3>2, BlockNext DEF B
    <3> QED BY <2>4, <3>2, <3>3, <3>4, <3>5, Zenon
  <2>6. CASE ~IsLoad(c, i)
    <3>1. Loaded(e, i, f)
      BY <2>2, <2>6, Zenon DEF Loads
    <3>2. CASE n = k
      <4>1. a = n - k
        BY <2>1, <3>2
      <4> QED BY <2>4, <3>1, <4>1, Zenon
    <3>3. CASE n # k
      <4>1. a = n - k - 1
        BY <2>1, <3>3
      <4>2. ~(n - k <= B)
        <5> SUFFICES ASSUME n - k <= B PROVE FALSE
          OBVIOUS
        <5>1. n - k \in 1 .. B /\ k + 1 + (n - k) = n + 1
          BY <1>2, <2>1, <3>3
        <5>2. c.op = "FirLoadData" /\ c.index = i
          BY <1>1, <5>1, Zenon
        <5>3. IsLoad(c, i)
          BY <5>2 DEF IsLoad
        <5> QED BY <2>6, <5>3
      <4>3. a >= B /\ n - k >= B
        BY <1>2, <2>1, <2>4, <4>1, <4>2
      <4>4. f = v /\ FirstBlocks(v, n - k) = v
        BY <1>2, <2>1, <2>4, <4>3, Zenon DEF B
      <4> QED BY <2>4, <3>1, <4>4, Zenon
    <3> QED BY <3>2, <3>3
  <2> QED BY <2>5, <2>6
<1> QED BY <1>3, <1>4

(* Commands that set no register and load no filter. *)
Quiet(c) ==
    c.op \notin {"Write", "WriteBiquad", "WriteBiquadBypass", "SetSource",
                 "SetVolume", "DiracBypass", "FirLoadStart", "FirLoadData"}

LEMMA QuietSets ==
    ASSUME NEW c, Quiet(c), NEW d
    PROVE  Sets(d, c, d) /\ Loads(d, c, d)
<1>1. \A kind, a : ~Touches(c, kind, a)
  BY DEF Quiet, Touches
<1>2. \A i : ~IsLoad(c, i)
  BY DEF Quiet, IsLoad
<1>3. c.op # "FirLoadStart" /\ c.op # "FirLoadData"
  BY DEF Quiet
<1> QED BY <1>1, <1>2, <1>3 DEF Sets, Loads

LEMMA QuietStart ==
    ASSUME NEW p, NEW n, \A k \in 1 .. n : Quiet(p[k]), NEW d
    PROVE  Replayed(d, p, n) /\ Fed(d, p, n)
<1>1. \A k \in 1 .. n : \A kind, a : ~Touches(p[k], kind, a)
  BY DEF Quiet, Touches
<1>2. \A k \in 1 .. n : \A i, v : ~LoadedAt(p, k, i, v)
  BY DEF Quiet, LoadedAt
<1> QED BY <1>1, <1>2 DEF Replayed, Fed

(* A plan that does what a setting asks for has done it when it is over.   *)
LEMMA DoesHolds ==
    ASSUME NEW t, NEW p, IsSequence(p), NEW s, Does(t, p, s), NEW d,
           Replayed(d, p, Len(p)), Fed(d, p, Len(p))
    PROVE  Possible(t, s) /\ Holds(t, d, s)
<1>1. Len(p) \in Nat /\ DOMAIN p = 1 .. Len(p)
  BY DEF IsSequence
<1>2. ASSUME NEW kind, NEW a, NEW v \in Final(p, Len(p), kind, a)
      PROVE  Has(d, kind, a, v)
  BY DEF Final, Settled, Replayed
<1>3. ASSUME NEW a \in Words(t, s)
      PROVE  a \in DOMAIN d.words /\ Says(t, s, a, d.words[a])
  <2> PICK v \in Final(p, Len(p), "word", a) : Says(t, s, a, v)
    BY <1>3, Zenon DEF Does, DoneBy
  <2>1. Has(d, "word", a, v)
    BY <1>2, Zenon
  <2>2. a \in DOMAIN d.words /\ d.words[a] = v
    BY <2>1 DEF Has
  <2> QED BY <2>2
<1>4. ASSUME NEW a \in Flags(t, s)
      PROVE  a \in DOMAIN d.bypassed /\ d.bypassed[a] = s.value
  <2>1. s.value \in Final(p, Len(p), "flag", a)
    BY <1>4, Zenon DEF Does, DoneBy
  <2>2. Has(d, "flag", a, s.value)
    BY <1>2, <2>1, Zenon
  <2> QED BY <2>2 DEF Has
<1>5. ASSUME s.what = "taps", NEW f \in Firs(t, s)
      PROVE  Loaded(d, f.index, s.value)
  <2>1. IsSequence(s.value)
    BY <1>5 DEF Does
  <2> PICK k \in DOMAIN p : LoadedAt(p, k, f.index, s.value)
    BY <1>5, Zenon DEF Does
  <2> DEFINE B == Len(Chunks(s.value))
             n == Len(p)
             b == IF n <= k + 1 THEN 0 ELSE n - k - 1
  <2>2. Loaded(d, f.index, FirstBlocks(s.value, b))
    BY <1>1, <2>1, Zenon DEF Fed
  <2>3. B \in Nat /\ \A x \in Nat : x >= B => FirstBlocks(s.value, x) = s.value
    BY <2>1, BlockEnds
  <2>4. k + 1 + B <= n
    BY Zenon DEF LoadedAt
  <2> HIDE DEF B
  <2>5. b \in Nat /\ b >= B
    BY <1>1, <2>3, <2>4
  <2> HIDE DEF b
  <2>6. FirstBlocks(s.value, b) = s.value
    BY <2>3, <2>5, Zenon
  <2> QED BY <2>2, <2>6, Zenon
<1>6. Possible(t, s)
  BY Zenon DEF Does
<1> QED BY <1>3, <1>4, <1>5, <1>6 DEF Holds, Loaded

-----------------------------------------------------------------------------
(* The steps of a job, finer *)

(* The line returns on this device, with "ok" only when no step is left.   *)
Leaving ==
    /\ Running
    /\ \E r : /\ Return(r) /\ r \in {"ok", "NoAnswer"} \cup Refusals
              /\ r = "ok" => todo = <<>> /\ dsp' = dsp
    /\ dsp' = dsp \/ (Sending /\ dsp' = Taken)
(* A step that sends nothing. *)
Skipping ==
    /\ Running /\ todo # <<>> /\ todo' = Tail(todo)
    /\ Head(todo).op \notin Sent /\ ~StopsAt(Table(at), Head(todo))
    /\ Head(todo).op = "AwaitPreset" =>
        The(saved).preset = Head(todo).preset
    /\ UNCHANGED <<job, tables, line, at, saved, dsp, results, result>>
Again ==
    /\ Running /\ todo # <<>> /\ Head(todo).op = "AwaitPreset"
    /\ todo' = get_master_status \o todo
    /\ UNCHANGED <<job, tables, line, at, saved, dsp, results, result>>
Panicking ==
    /\ Running /\ todo # <<>> /\ Head(todo).op = "Refuse"
    /\ result' = "panic" /\ todo' = <<>>
    /\ UNCHANGED <<job, tables, line, at, saved, dsp, results>>
Still ==
    UNCHANGED <<job, tables, line, at, todo, saved, dsp, results, result>>

LEMMA EveryStepFiner ==
    ASSUME Fitting(todo, line, at), [Next]_vars
    PROVE  \/ Leaving \/ Answered \/ Skipping \/ Again \/ Panicking \/ Still
           \/ \E i \in DOMAIN Infos : Switch(i)
<1>0. /\ "ok" \notin Refusals /\ "NoAnswer" \notin Refusals
      /\ "TooManyCoefficients" \in Refusals
  BY DEF Refusals
<1>1. CASE Finished
  BY <1>0, <1>1 DEF Finished, Leaving
<1>2. CASE Refused
  <2>1. todo # <<>> /\ Head(todo).op = "Refuse" /\ Running /\ dsp' = dsp
    BY <1>2 DEF Refused, Doing
  <2>2. CASE Head(todo).error = "panic"
    <3>1. result' = "panic" /\ todo' = <<>>
          /\ UNCHANGED <<job, tables, line, at, results>>
      BY <1>2, <2>2 DEF Refused
    <3>2. saved' = saved
      BY <1>2, <2>2 DEF Refused
    <3> QED BY <2>1, <3>1, <3>2 DEF Panicking
  <2>3. CASE Head(todo).error # "panic"
    <3>1. Return(Head(todo).error)
      BY <1>2, <2>3 DEF Refused
    <3>2. Head(todo).error \in Refusals
      <4>1. Allowed(Head(todo), line, at)
        BY <2>1, FittingRest
      <4> QED BY <2>1, <2>3, <4>1 DEF Allowed, StepFits
    <3> QED BY <1>0, <2>1, <3>1, <3>2 DEF Leaving
  <2> QED BY <2>2, <2>3
<1>3. CASE Lost
  BY <1>0, <1>3 DEF Lost, Leaving, Sending, Doing
<1>4. CASE FirFits
  <2>1. todo # <<>> /\ Head(todo).op = "IntoFirSize" /\ Running /\ dsp' = dsp
    BY <1>4 DEF FirFits, Doing
  <2>2. CASE Head(todo).len > FirLoadSize(TableHere, Head(todo).index)
    <3>1. Return("TooManyCoefficients")
      BY <1>4, <2>2 DEF FirFits
    <3> QED BY <1>0, <2>1, <3>1 DEF Leaving
  <2>3. CASE ~ (Head(todo).len > FirLoadSize(TableHere, Head(todo).index))
    <3>1. todo' = Tail(todo)
          /\ UNCHANGED <<job, tables, line, at, saved, results, result>>
      BY <1>4, <2>3 DEF FirFits
    <3>2. ~StopsAt(Table(at), Head(todo))
      BY <2>1, <2>3 DEF StopsAt, TableHere
    <3> QED BY <2>1, <3>1, <3>2 DEF Skipping, Sent
  <2> QED BY <2>2, <2>3
<1>5. CASE PresetRead
  <2>1. todo # <<>> /\ Head(todo).op = "AwaitPreset" /\ Running
        /\ UNCHANGED <<job, tables, line, at, saved, dsp, results, result>>
    BY <1>5 DEF PresetRead, Doing
  <2>2. CASE The(saved).preset = Head(todo).preset
    <3>1. todo' = Tail(todo)
      BY <1>5, <2>2 DEF PresetRead
    <3> QED BY <2>1, <2>2, <3>1 DEF Skipping, Sent, StopsAt
  <2>3. CASE The(saved).preset # Head(todo).preset
    <3>1. todo' = get_master_status \o todo
      BY <1>5, <2>3 DEF PresetRead
    <3> QED BY <2>1, <3>1 DEF Again
  <2> QED BY <2>2, <2>3
<1>6. CASE CollectMeters
  BY <1>6 DEF CollectMeters, Doing, Skipping, Sent, StopsAt
<1>7. CASE ReadChunk
  BY <1>7 DEF ReadChunk, Still
<1>8. CASE Split
  BY <1>8 DEF Split, Doing, Skipping, Sent, StopsAt
<1>9. CASE UNCHANGED vars
  BY <1>9 DEF vars, Still
<1> QED
  BY <1>1, <1>2, <1>3, <1>4, <1>5, <1>6, <1>7, <1>8, <1>9 DEF Next, Ended

(* To what line and device a return leads, and what is left to complete.   *)
LEMMA Turned ==
    ASSUME Places, ReturnedInv, Running, NEW r, Return(r),
           r \in {"ok", "NoAnswer"} \cup Refusals
    PROVE  \/ /\ at < Len(Infos) /\ line' = line /\ at' = at + 1
              /\ results' = Append(results, r) /\ result' = result
              /\ todo' = Plan(line, at + 1)
           \/ /\ at = Len(Infos) /\ line < Len(Lines) /\ line' = line + 1
              /\ at' = 1 /\ results' = <<>> /\ result' = result
              /\ todo' = Plan(line + 1, 1) /\ r = "ok"
              /\ \A k \in DOMAIN results : results[k] = "ok"
           \/ /\ at = Len(Infos) /\ line' = line /\ at' = at
              /\ results' = Append(results, r) /\ result' # "running"
              /\ todo' = <<>>
              /\ result' = "ok" =>
                    /\ line = Len(Lines) /\ r = "ok"
                    /\ \A k \in DOMAIN results : results[k] = "ok"
<1> DEFINE all == Append(results, r)
<1>1. PICK S : results \in Seq(S)
  BY DEF ReturnedInv
<1>2. /\ at \in 1 .. Len(Infos) /\ Len(Infos) \in Nat
      /\ Len(results) = at - 1 /\ Len(results) \in Nat
  BY <1>1, JobFacts DEF Places, Running, ReturnedInv
<1>3. /\ all \in Seq(S \cup {r}) /\ Len(all) = at /\ DOMAIN all = 1 .. at
      /\ all[at] = r /\ DOMAIN results = 1 .. at - 1
      /\ \A k \in 1 .. at : k # at => k \in DOMAIN results
                                      /\ all[k] = results[k]
  BY <1>1, <1>2
<1> DEFINE I == {k \in 1 .. Len(all) : all[k] # "ok"}
           b == Min(I)
<1>4. I # {} => b \in I
  <2>1. I \in SUBSET Nat
    OBVIOUS
  <2>2. I # {} => \E x \in I : \A y \in I : x <= y
    BY <2>1, LeastElement
  <2> QED BY <2>2 DEF Min
<1>5. SelectInSeq(all, LAMBDA x : x # "ok") = IF I # {} THEN b ELSE 0
  BY DEF SelectInSeq
<1>6. I = {} => /\ \A k \in 1 .. at : all[k] = "ok"
  BY <1>3
<1>7. Turn(all)
  BY DEF Return
<1>8. I # {} => b # 0 /\ all[b] # "ok"
  <2> PICK m : m = b
    OBVIOUS
  <2>1. I # {} => m \in I
    BY <1>4, Zenon
  <2>2. \A k \in I : k # 0 /\ all[k] # "ok"
    <3> HIDE DEF all
    <3> QED OBVIOUS
  <2>3. I # {} => m # 0 /\ all[m] # "ok"
    BY <2>1, <2>2, Zenon
  <2> QED BY <2>3, Zenon
<1> PICK s : s = SelectInSeq(all, LAMBDA x : x # "ok")
  OBVIOUS
<1>9. \/ s = 0 /\ I = {}
      \/ s # 0 /\ all[s] # "ok" /\ I # {}
  BY <1>5, <1>8
<1>10. s # 0 => all[s] # "running"
  <2> SUFFICES ASSUME s # 0 PROVE all[s] # "running"
    OBVIOUS
  <2>1. s \in 1 .. at
    BY <1>3, <1>4, <1>5, <1>9
  <2>2. all[s] \in {"ok", "NoAnswer"} \cup Refusals
    BY <1>3, <2>1 DEF ReturnedInv
  <2>3. "running" \notin {"ok", "NoAnswer"} \cup Refusals
    BY DEF Refusals
  <2> QED BY <2>2, <2>3
<1>s. s # 0 => all[s] # "ok"
  BY <1>9
<1>11. s = 0 => r = "ok" /\ \A k \in DOMAIN results : results[k] = "ok"
  <2> SUFFICES ASSUME s = 0
               PROVE  r = "ok" /\ \A k \in DOMAIN results : results[k] = "ok"
    OBVIOUS
  <2>1. \A k \in 1 .. at : all[k] = "ok"
    BY <1>6, <1>9
  <2>2. \A k \in 1 .. at - 1 : k \in 1 .. at /\ k # at
    BY <1>2
  <2>3. at \in 1 .. at
    BY <1>2
  <2> HIDE DEF all
  <2> QED BY <1>3, <2>1, <2>2, <2>3
<1> HIDE DEF all, I, b
<1>12. Len(Lines) \in Nat /\ line \in 1 .. Len(Lines)
  BY JobFacts DEF Places
<1>13. CASE at < Len(Infos)
  BY <1>7, <1>13 DEF Turn, all
<1>14. CASE ~(at < Len(Infos)) /\ s = 0 /\ line < Len(Lines)
  <2>1. at = Len(Infos)
    BY <1>2, <1>14
  <2>2. results' = <<>> /\ line' = line + 1 /\ at' = 1
        /\ todo' = Plan(line + 1, 1) /\ result' = result
    BY <1>7, <1>14 DEF Turn
  <2> QED BY <1>11, <1>14, <2>1, <2>2
<1>15. CASE ~(at < Len(Infos)) /\ ~(s = 0 /\ line < Len(Lines))
  <2>1. at = Len(Infos)
    BY <1>2, <1>15
  <2>2. results' = all /\ todo' = <<>> /\ line' = line /\ at' = at
        /\ result' = IF s = 0 THEN "ok" ELSE all[s]
    BY <1>7, <1>15 DEF Turn
  <2>3. result' = "ok" =>
            /\ line = Len(Lines) /\ r = "ok"
            /\ \A k \in DOMAIN results : results[k] = "ok"
    <3> SUFFICES ASSUME result' = "ok"
                 PROVE  /\ line = Len(Lines) /\ r = "ok"
                        /\ \A k \in DOMAIN results : results[k] = "ok"
      OBVIOUS
    <3>1. s = 0
      BY <1>s, <2>2
    <3>2. line = Len(Lines)
      BY <1>12, <1>15, <3>1
    <3> QED BY <1>11, <3>1, <3>2
  <2> QED BY <1>10, <2>1, <2>2, <2>3 DEF all
<1> QED BY <1>13, <1>14, <1>15

-----------------------------------------------------------------------------
(* What a step of the plan does to the device that is being served *)

LEMMA TakenOutcome ==
    ASSUME Places, MemoryInv, Fitting(todo, line, at), Sending,
           NEW c, c = Head(todo), NEW e, e = execute(dsp[at], Outgoing)
    PROVE  /\ Outcome(dsp[at], c, e)
           /\ MasterLeft(dsp[at], c, Resolved(c), e)
           /\ c.op \in {"Write", "WriteBiquad", "WriteBiquadBypass"} =>
                c.addr.val \in Nat
           /\ c.op = "WriteBiquad" => Len(c.data) = BiquadWords
           /\ c.op = "FirLoadStart" => c.index \in 0 .. 255
           /\ \A a : Touches(c, "word", a) =>
                a \in AllWords(Table(at), AskedBy(line, at))
           /\ \A a : Touches(c, "flag", a) =>
                a \in AllFlags(Table(at), AskedBy(line, at))
<1> DEFINE words == AllWords(Table(at), AskedBy(line, at))
           flags == AllFlags(Table(at), AskedBy(line, at))
<1>1. StepFits(Table(at), c, words, flags, PossibleFor(line, at))
      /\ c.op \in Sent
  BY FittingRest DEF Sending, Allowed
<1> PICK d : d = dsp[at]
  OBVIOUS
<1>2. IsDsp(d) /\ IsMaster(d.master)
  BY DEF Places, MemoryInv, Kept, Memory
<1> HIDE DEF words, flags
<1>3. /\ "op" \in DOMAIN c
      /\ c.op = "DiracBypass" => "value" \in DOMAIN c
      /\ c.op = "FirLoadStart" => c.index \in 0 .. 255
      /\ c.op \in {"Write", "WriteBiquad", "WriteBiquadBypass"} =>
            WritesWithin(Table(at), c, words, flags)
  BY <1>1 DEF StepFits
<1> PICK r : r = Resolved(c)
  OBVIOUS
<1> PICK f : f = to_bytes(r)
  OBVIOUS
<1>4. Outgoing = f
  BY Zenon DEF Outgoing
<1>5. CASE c.op \in Others
  <2>1. Outcome(d, c, execute(d, f)) /\ MasterLeft(d, c, r, execute(d, f))
    BY <1>2, <1>3, <1>5, OthersOutcome
  <2>2. Outcome(d, c, e) /\ MasterLeft(d, c, r, e)
    BY <1>4, <2>1, Zenon
  <2>3. c.op \notin {"Write", "WriteBiquad", "WriteBiquadBypass"}
    BY <1>5 DEF Others
  <2>4. \A kind, a : ~(kind \in {"word", "flag"} /\ Touches(c, kind, a))
    BY <2>3 DEF Touches
  <2> QED BY <1>3, <2>2, <2>3, <2>4
<1>6. CASE c.op \notin Others
  <2>1. c.op \in {"Write", "WriteBiquad", "WriteBiquadBypass"}
    BY <1>1, <1>6 DEF Sent, Others
  <2>2. r = c
    BY <1>3, <2>1, ResolvedOp
  <2>3. WritesWithin(Table(at), c, words, flags)
    BY <1>3, <2>1
  <2>4. /\ Outcome(d, c, execute(d, to_bytes(c)))
        /\ MasterLeft(d, c, c, execute(d, to_bytes(c)))
        /\ \A a : Touches(c, "word", a) => a \in words
        /\ \A a : Touches(c, "flag", a) => a \in flags
        /\ c.addr.val \in Nat
        /\ c.op = "WriteBiquad" => Len(c.data) = BiquadWords
    BY <1>2, <2>3, WritesOutcome
  <2>5. Outcome(d, c, e) /\ MasterLeft(d, c, r, e)
    BY <1>4, <2>2, <2>4, Zenon
  <2> QED BY <1>3, <2>4, <2>5 DEF words, flags
<1> QED BY <1>5, <1>6

LEMMA TakenSteps ==
    ASSUME Places, MemoryInv, Fitting(todo, line, at), Sending,
           NEW c, c = Head(todo), c.op # "SetConfig",
           dsp[at].next = None \/ SwitchesLate(Infos[at]),
           NEW e, e = Received(dsp[at], Infos[at], Outgoing)
    PROVE  /\ Sets(dsp[at], c, e) /\ Loads(dsp[at], c, e)
           /\ e.next = dsp[at].next
           /\ e.master.preset = dsp[at].master.preset
<1> PICK x : x = execute(dsp[at], Outgoing)
  OBVIOUS
<1>1. /\ Outcome(dsp[at], c, x)
      /\ c.op \in {"Write", "WriteBiquad", "WriteBiquadBypass"} =>
            c.addr.val \in Nat
      /\ c.op = "WriteBiquad" => Len(c.data) = BiquadWords
      /\ c.op = "FirLoadStart" => c.index \in 0 .. 255
  BY TakenOutcome
<1>2. x.next = dsp[at].next /\ x.master.preset = dsp[at].master.preset
  BY <1>1, Zenon DEF Outcome
<1>3. e = IF x.next # None /\ ~SwitchesLate(Infos[at]) THEN Switched(x)
          ELSE x
  BY Zenon DEF Received
<1>4. e = x
  BY <1>2, <1>3, Zenon
<1>5. Sets(dsp[at], c, x)
  BY <1>1, OutcomeSets, Zenon
<1>6. Loads(dsp[at], c, x)
  BY <1>1, OutcomeLoads, Zenon
<1> QED BY <1>2, <1>4, <1>5, <1>6, Zenon

LEMMA TakenSwitch ==
    ASSUME Places, MemoryInv, Fitting(todo, line, at), Sending,
           NEW c, c = Head(todo), c.op = "SetConfig",
           NEW e, e = Received(dsp[at], Infos[at], Outgoing)
    PROVE  IF SwitchesLate(Infos[at])
           THEN /\ e.next = Some(c.config)
                /\ e.master.preset = dsp[at].master.preset
           ELSE e.next = None
<1> PICK x : x = execute(dsp[at], Outgoing)
  OBVIOUS
<1>1. Outcome(dsp[at], c, x)
  BY TakenOutcome
<1>2. x.next = Some(c.config) /\ x.master.preset = dsp[at].master.preset
  BY <1>1, Zenon DEF Outcome
<1>3. e = IF x.next # None /\ ~SwitchesLate(Infos[at]) THEN Switched(x)
          ELSE x
  BY Zenon DEF Received
<1>4. x.next # None
  BY <1>2 DEF Some, None
<1>5. CASE SwitchesLate(Infos[at])
  <2>1. e = x
    BY <1>3, <1>5, Zenon
  <2> QED BY <1>2, <1>5, <2>1
<1>6. CASE ~SwitchesLate(Infos[at])
  <2>1. e = Switched(x)
    BY <1>3, <1>4, <1>6, Zenon
  <2> PICK m : m = [x.master EXCEPT !.preset = The(x.next)]
    OBVIOUS
  <2>2. e = Blank(m)
    BY <2>1, Zenon DEF Switched
  <2>3. Blank(m).next = None
    BY DEF Blank
  <2> QED BY <1>6, <2>2, <2>3, Zenon
<1> QED BY <1>5, <1>6

-----------------------------------------------------------------------------
(* How far a plan has come *)

(* What is left of a plan when n steps of it have been taken.              *)
Remains(q, p, n) ==
    /\ IsSequence(p) /\ IsSequence(q)
    /\ n \in Nat /\ Len(q) + n = Len(p)
    /\ \A k \in 1 .. Len(q) : q[k] = p[n + k]

LEMMA RemainsStart ==
    ASSUME NEW p, IsSequence(p)
    PROVE  Remains(p, p, 0)
<1>1. Len(p) \in Nat
  BY DEF IsSequence
<1>2. /\ 0 \in Nat /\ Len(p) + 0 = Len(p)
      /\ \A k \in 1 .. Len(p) : 0 + k = k
  BY <1>1
<1> QED BY <1>1, <1>2, Zenon DEF Remains

LEMMA RemainsTail ==
    ASSUME NEW q, NEW p, NEW n, Remains(q, p, n), q # <<>>
    PROVE  /\ Remains(Tail(q), p, n + 1) /\ Head(q) = p[n + 1]
           /\ n + 1 \in 1 .. Len(p)
<1>1. PICK S : q \in Seq(S)
  BY Sequences DEF Remains
<1>2. /\ Len(q) \in Nat \ {0} /\ Head(q) = q[1]
      /\ Tail(q) \in Seq(S) /\ Len(Tail(q)) = Len(q) - 1
      /\ \A k \in 1 .. Len(Tail(q)) : Tail(q)[k] = q[k + 1]
  BY <1>1
<1>3. n \in Nat /\ Len(q) + n = Len(p) /\ IsSequence(p)
      /\ \A k \in 1 .. Len(q) : q[k] = p[n + k]
  BY DEF Remains
<1>4. Head(q) = p[n + 1] /\ n + 1 \in 1 .. Len(p)
  BY <1>2, <1>3
<1>5. ASSUME NEW k \in 1 .. Len(Tail(q)) PROVE Tail(q)[k] = p[n + 1 + k]
  <2>1. k + 1 \in 1 .. Len(q) /\ n + (k + 1) = n + 1 + k
    BY <1>2, <1>3, <1>5
  <2>2. Tail(q)[k] = q[k + 1] /\ q[k + 1] = p[n + (k + 1)]
    BY <1>2, <1>3, <1>5, <2>1, Zenon
  <2> QED BY <2>1, <2>2
<1>6. IsSequence(Tail(q))
  BY <1>2, PlannedFacts
<1>7. n + 1 \in Nat /\ Len(Tail(q)) + (n + 1) = Len(p)
  BY <1>2, <1>3
<1> QED BY <1>3, <1>4, <1>5, <1>6, <1>7, Zenon DEF Remains

LEMMA RemainsEnd ==
    ASSUME NEW q, NEW p, NEW n, Remains(q, p, n), q = <<>>
    PROVE  n = Len(p)
<1>1. Len(q) = 0
  OBVIOUS
<1>2. n \in Nat /\ Len(q) + n = Len(p)
  BY DEF Remains
<1> QED BY <1>1, <1>2

(* A step back. *)
LEMMA RemainsBack ==
    ASSUME NEW q, NEW p, NEW g, Remains(q, p, 2), p[2] = g
    PROVE  Remains(<<g>> \o q, p, 1)
<1>1. PICK w : w = <<g>> \o q
  OBVIOUS
<1>2. PICK S : q \in Seq(S)
  BY Sequences DEF Remains
<1>3. /\ w \in Seq(S \cup {g}) /\ Len(w) = Len(q) + 1 /\ Len(q) \in Nat
      /\ w[1] = g
      /\ \A k \in 1 .. Len(q) : w[k + 1] = q[k]
  BY <1>1, <1>2
<1>4. /\ IsSequence(p) /\ Len(q) + 2 = Len(p)
      /\ \A k \in 1 .. Len(q) : q[k] = p[2 + k]
  BY DEF Remains
<1>5. ASSUME NEW k \in 1 .. Len(w) PROVE w[k] = p[1 + k]
  <2>1. CASE k = 1
    BY <1>3, <2>1
  <2>2. CASE k # 1
    <3>1. k - 1 \in 1 .. Len(q) /\ k - 1 + 1 = k /\ 2 + (k - 1) = 1 + k
      BY <1>3, <2>2
    <3>2. w[k - 1 + 1] = q[k - 1] /\ q[k - 1] = p[2 + (k - 1)]
      BY <1>3, <1>4, <3>1, Zenon
    <3> QED BY <3>1, <3>2
  <2> QED BY <2>1, <2>2
<1>6. IsSequence(w)
  BY <1>3, PlannedFacts
<1>7. 1 \in Nat /\ Len(w) + 1 = Len(p)
  BY <1>3, <1>4
<1>8. Remains(w, p, 1)
  BY <1>4, <1>5, <1>6, <1>7, Zenon DEF Remains
<1> QED BY <1>1, <1>8, Zenon

LEMMA HeadOfOne ==
    ASSUME NEW x
    PROVE  Head(<<x>>) = x
<1>1. <<x>> \in Seq({x}) /\ Len(<<x>>) = 1 /\ <<x>>[1] = x
  OBVIOUS
<1>2. Head(<<x>>) = <<x>>[1]
  BY <1>1
<1> QED BY <1>1, <1>2

(* The status is read again. *)
LEMMA MasterStatus ==
    \E g : /\ get_master_status = <<g>> /\ Head(get_master_status) = g
           /\ g.op = "ReadMemory"
<1> DEFINE g == [op |-> "ReadMemory", addr |-> 65496, size |-> 9]
<1>1. get_master_status = <<g>>
  BY DEF get_master_status
<1>2. g.op = "ReadMemory"
  OBVIOUS
<1> HIDE DEF g
<1>3. Head(<<g>>) = g
  BY HeadOfOne, Zenon
<1> QED BY <1>1, <1>2, <1>3, Zenon

LEMMA RemainsAgain ==
    ASSUME NEW q, NEW p, Remains(q, p, 2), p[2] = Head(get_master_status)
    PROVE  Remains(get_master_status \o q, p, 1)
<1>1. PICK g : get_master_status = <<g>> /\ Head(get_master_status) = g
  BY MasterStatus, Zenon
<1>2. p[2] = g
  BY <1>1, Zenon
<1>3. Remains(<<g>> \o q, p, 1)
  BY <1>2, RemainsBack, Zenon
<1> QED BY <1>1, <1>3, Zenon

-----------------------------------------------------------------------------
(* Where a job is in the plan *)

(* After n steps of the plan p: q is left, none of the steps taken stops,  *)
(* and the device d is as they leave it.                                   *)
Taking(p, t, d, q, n) ==
    /\ Remains(q, p, n)
    /\ \A k \in 1 .. n : ~StopsAt(t, p[k])
    /\ Replayed(d, p, n) /\ Fed(d, p, n)

Here == Plan(line, at)
Passed == Len(Here) - Len(todo)
Along == Running => Taking(Here, Table(at), dsp[at], todo, Passed)

(* The presets that a device may be in before line l. *)
PresetsBefore(l) ==
    {NewMaster.preset} \cup UNION {PresetsOf(Lines[k]) : k \in 1 .. l - 1}

(* After n steps of the plan p, which switches to a preset, what was read  *)
(* is not that preset yet.                                                 *)
Waits(p, n, status, preset) ==
    /\ p # <<>> /\ p[1].op = "SetConfig" /\ p[1].config = preset
    /\ \/ n = 1 /\ status = None
       \/ n \in {1, 2} /\ status # None /\ The(status).preset # preset
Failed(i) == i \in DOMAIN results /\ results[i] # "ok"

(* A device that is told to switch either switches before it answers or is *)
(* in another preset than the one it is told; until it has switched, its   *)
(* line waits for it, or has failed there.                                 *)
SwitchOf(i) ==
    /\ SwitchesLate(Infos[i]) \/ dsp[i].next = None
    /\ dsp[i].next # None =>
        \E p \in PresetsOf(Lines[line]) :
            /\ dsp[i].next = Some(p) /\ dsp[i].master.preset # p
            /\ \/ Running /\ i = at /\ Waits(Here, Passed, saved, p)
               \/ Failed(i)
    /\ SwitchesLate(Infos[i]) =>
        /\ dsp[i].master.preset \in PresetsBefore(line + 1)
        /\ Running /\ (i > at \/ (i = at /\ Passed = 0)) =>
            dsp[i].master.preset \in PresetsBefore(line)
SwitchInv ==
    /\ \A k \in DOMAIN results : k <= at
    /\ Running /\ Passed = 0 => saved = None
    /\ \A i \in DOMAIN Infos : SwitchOf(i)

Sound == \A j \in Jobs : Fits(j) /\ PlansDo(j)

LEMMA PlanSound ==
    ASSUME Sound, Places, NEW l \in DOMAIN Lines, NEW i \in DOMAIN Infos
    PROVE  /\ IsSequence(Plan(l, i))
           /\ PlanDoes(Table(i), Plan(l, i), Lines[l])
<1>1. PlanFits(Table(i), Plan(l, i), AskedBy(l, i))
  BY DEF Sound, Places, Fits, Plan, Table, Infos, Lines, AskedBy
<1>2. PlanDoes(Table(i), Plan(l, i), Lines[l])
  BY DEF Sound, Places, PlansDo, Plan, Table, Infos, Lines
<1>3. IsSequence(Plan(l, i))
  BY <1>1 DEF PlanFits
<1> QED BY <1>2, <1>3

LEMMA SettingsMeet ==
    ASSUME Sound, Places, NEW i \in DOMAIN Infos,
           NEW l \in DOMAIN Lines, NEW k \in 1 .. l - 1,
           NEW s \in AskedBy(k, i), NEW t \in AskedBy(l, i),
           Meet(Table(i), s, t)
    PROVE  SameSetting(s, t)
  BY DEF Sound, Places, PlansDo, Table, Infos, Lines, AskedBy

LEMMA NotYetTold ==
    ASSUME Sound, Places, NEW i \in DOMAIN Infos, SwitchesLate(Infos[i]),
           NEW l \in DOMAIN Lines, NEW p \in PresetsOf(Lines[l])
    PROVE  p \notin PresetsBefore(l)
<1>1. PresetsTold(job, job.devices[i])
  BY DEF Sound, Places, PlansDo, Infos
<1>2. p # NewMaster.preset
      /\ \A k \in 1 .. l - 1 : p \notin PresetsOf(Lines[k])
  BY <1>1 DEF PresetsTold, Infos, Lines
<1> QED BY <1>2 DEF PresetsBefore

LEMMA SameJob ==
    ASSUME UNCHANGED <<job, tables>>
    PROVE  /\ Infos' = Infos /\ Lines' = Lines
           /\ \A i : Table(i)' = Table(i)
           /\ \A l, i : Plan(l, i)' = Plan(l, i)
           /\ \A l, i : AskedBy(l, i)' = AskedBy(l, i)
           /\ \A l : PresetsBefore(l)' = PresetsBefore(l)
<1>1. Infos' = Infos /\ Lines' = Lines
  BY DEF Infos, Lines
<1>2. \A i : Table(i)' = Table(i)
  BY DEF Table
<1>3. \A l, i : Plan(l, i)' = Plan(l, i)
  BY <1>1, <1>2 DEF Plan
<1>4. \A l, i : AskedBy(l, i)' = AskedBy(l, i)
  BY <1>1, <1>2 DEF AskedBy
<1>5. \A l : PresetsBefore(l)' = PresetsBefore(l)
  BY <1>1 DEF PresetsBefore
<1> QED BY <1>1, <1>2, <1>3, <1>4, <1>5

(* A plan is begun with nothing of it taken. *)
LEMMA TakingStart ==
    ASSUME NEW p, IsSequence(p), NEW t, NEW d
    PROVE  Taking(p, t, d, p, 0)
<1>1. Remains(p, p, 0)
  BY RemainsStart
<1>2. 1 .. 0 = {}
  OBVIOUS
<1>3. Replayed(d, p, 0) /\ Fed(d, p, 0)
  BY <1>2, QuietStart
<1> QED BY <1>1, <1>2, <1>3 DEF Taking

(* Another step is taken. *)
LEMMA TakingMore ==
    ASSUME NEW p, NEW t, NEW d, NEW q, NEW n, Taking(p, t, d, q, n),
           q # <<>>, NEW c, c = Head(q), ~StopsAt(t, c),
           NEW e, Sets(d, c, e), Loads(d, c, e)
    PROVE  Taking(p, t, e, Tail(q), n + 1)
<1>1. /\ Remains(Tail(q), p, n + 1) /\ c = p[n + 1]
      /\ n + 1 \in 1 .. Len(p)
  BY RemainsTail DEF Taking
<1>2. n \in Nat /\ Len(p) \in Nat /\ n + 1 <= Len(p)
  BY <1>1 DEF Taking, Remains, IsSequence
<1>3. \A k \in 1 .. n + 1 : ~StopsAt(t, p[k])
  <2>1. \A k \in 1 .. n + 1 : k \in 1 .. n \/ k = n + 1
    BY <1>2
  <2> QED BY <1>1, <2>1, Zenon DEF Taking
<1>4. Replayed(d, p, n) /\ Fed(d, p, n)
  BY Zenon DEF Taking
<1>5. Replayed(e, p, n + 1)
  BY <1>1, <1>2, <1>4, ReplayedMore
<1>6. Fed(e, p, n + 1)
  BY <1>1, <1>2, <1>4, FedMore
<1> QED BY <1>1, <1>3, <1>5, <1>6, Zenon DEF Taking

(* As far as the steps taken were quiet, any device is as they leave it.   *)
LEMMA TakingQuiet ==
    ASSUME NEW p, NEW t, NEW d, NEW q, NEW n, Remains(q, p, n),
           \A k \in 1 .. n : Quiet(p[k]) /\ ~StopsAt(t, p[k])
    PROVE  Taking(p, t, d, q, n)
  BY QuietStart DEF Taking

(* The first steps of a plan that switches to a preset. *)
LEMMA SwitchingPlan ==
    ASSUME NEW t, NEW p, NEW req, PlanDoes(t, p, req), IsSequence(p)
    PROVE  /\ \A k \in 1 .. Len(p) :
                /\ p[k].op = "SetConfig" =>
                    /\ k = 1 /\ p[1].config \in PresetsOf(req)
                /\ p[k].op = "AwaitPreset" =>
                    k = 3 /\ p[1].op = "SetConfig"
           /\ p # <<>> /\ p[1].op = "SetConfig" =>
                /\ Len(p) >= 3 /\ p[2] = Head(get_master_status)
                /\ p[2].op = "ReadMemory" /\ p[3].op = "AwaitPreset"
                /\ p[3].preset = p[1].config
                /\ \A k \in 1 .. 2 : Quiet(p[k]) /\ ~StopsAt(t, p[k])
<1>1. SwitchesFirst(p, PresetsOf(req))
  BY DEF PlanDoes
<1>2. PICK S : p \in Seq(S)
  BY Sequences
<1>3. DOMAIN p = 1 .. Len(p) /\ Len(p) \in Nat
      /\ (p # <<>> => 1 \in 1 .. Len(p))
  BY <1>2
<1>4. \A k \in 1 .. Len(p) :
        /\ p[k].op = "SetConfig" =>
            /\ k = 1 /\ Len(p) >= 3 /\ p[1].config \in PresetsOf(req)
            /\ p[2] = Head(get_master_status)
            /\ p[3] = [op |-> "AwaitPreset", preset |-> p[1].config]
        /\ p[k].op = "AwaitPreset" => k = 3 /\ p[1].op = "SetConfig"
  BY <1>1, <1>3 DEF SwitchesFirst
<1>5. ASSUME p # <<>>, p[1].op = "SetConfig"
      PROVE  /\ Len(p) >= 3 /\ p[2] = Head(get_master_status)
             /\ p[2].op = "ReadMemory" /\ p[3].op = "AwaitPreset"
             /\ p[3].preset = p[1].config
             /\ \A k \in 1 .. 2 : Quiet(p[k]) /\ ~StopsAt(t, p[k])
  <2>1. /\ Len(p) >= 3 /\ p[2] = Head(get_master_status)
        /\ p[3] = [op |-> "AwaitPreset", preset |-> p[1].config]
    BY <1>3, <1>4, <1>5
  <2>2. p[2].op = "ReadMemory"
    BY <2>1, MasterStatus, Zenon
  <2>3. p[3].op = "AwaitPreset" /\ p[3].preset = p[1].config
    BY <2>1
  <2>4. ASSUME NEW k \in 1 .. 2 PROVE Quiet(p[k]) /\ ~StopsAt(t, p[k])
    <3>1. p[k].op \in {"SetConfig", "ReadMemory"}
      BY <1>5, <2>2, <2>4
    <3> QED BY <3>1 DEF Quiet, StopsAt
  <2> QED BY <2>1, <2>2, <2>3, <2>4
<1> QED BY <1>4, <1>5

LEMMA PassedIs ==
    ASSUME NEW p, NEW q, NEW n, Remains(q, p, n)
    PROVE  Len(p) - Len(q) = n
<1>1. n \in Nat /\ Len(q) + n = Len(p) /\ Len(q) \in Nat
  BY DEF Remains, IsSequence
<1> QED BY <1>1

LEMMA AlongNext ==
    ASSUME UNCHANGED <<job, tables, line, at>>,
           NEW n, Taking(Here, Table(at), dsp'[at], todo', n)
    PROVE  Along' /\ Passed' = n /\ Here' = Here
<1> PICK p : p = Here
  OBVIOUS
<1> PICK t : t = Table(at)
  OBVIOUS
<1>1. Here' = p /\ Table(at)' = t
  BY SameJob DEF Here, Table
<1>2. Len(p) - Len(todo') = n
  BY PassedIs DEF Taking
<1>3. Passed' = n
  BY <1>1, <1>2 DEF Passed
<1>4. Taking(p, t, dsp'[at], todo', n)
  OBVIOUS
<1>5. Taking(Here, Table(at), dsp[at], todo, Passed)'
  BY <1>1, <1>3, <1>4 DEF Taking, Remains
<1> QED BY <1>1, <1>3, <1>5 DEF Along

LEMMA AlongReturn ==
    ASSUME Sound, Places, UNCHANGED <<job, tables>>,
           NEW l \in DOMAIN Lines, NEW i \in DOMAIN Infos,
           line' = l, at' = i, todo' = Plan(l, i)
    PROVE  Along' /\ Passed' = 0
<1> PICK p : p = Plan(l, i)
  OBVIOUS
<1> PICK t : t = Table(i)
  OBVIOUS
<1>1. IsSequence(p)
  BY PlanSound
<1>2. Here' = p /\ Table(at)' = t /\ todo' = p
  BY SameJob DEF Here, Table
<1>3. Taking(p, t, dsp'[i], p, 0)
  BY <1>1, TakingStart
<1>4. Len(p) \in Nat
  BY <1>1 DEF IsSequence
<1>5. Passed' = 0
  BY <1>2, <1>4 DEF Passed
<1>6. Taking(Here, Table(at), dsp[at], todo, Passed)'
  BY <1>2, <1>3, <1>5 DEF Taking, Remains
<1> QED BY <1>5, <1>6 DEF Along

(* What is known of the next step of a plan that is being taken. *)
LEMMA HeadStep ==
    ASSUME Sound, Places, Along, Running, todo # <<>>
    PROVE  /\ Passed \in Nat /\ Passed + 1 \in 1 .. Len(Here)
           /\ Head(todo) = Here[Passed + 1] /\ IsSequence(Here)
           /\ PlanDoes(Table(at), Here, Lines[line])
           /\ Here # <<>>
           /\ Head(todo).op = "SetConfig" =>
                Passed = 0 /\ Here[1] = Head(todo)
           /\ Head(todo).op = "AwaitPreset" =>
                Passed = 2 /\ Here[1].op = "SetConfig"
<1>1. IsSequence(Here) /\ PlanDoes(Table(at), Here, Lines[line])
  BY PlanSound DEF Here, Places
<1>2. Remains(todo, Here, Passed)
  BY DEF Along, Taking
<1>3. /\ Head(todo) = Here[Passed + 1] /\ Passed + 1 \in 1 .. Len(Here)
  BY <1>2, RemainsTail
<1>4. Passed \in Nat
  BY <1>2 DEF Remains
<1>5. /\ Here[Passed + 1].op = "SetConfig" => Passed + 1 = 1
      /\ Here[Passed + 1].op = "AwaitPreset" =>
            Passed + 1 = 3 /\ Here[1].op = "SetConfig"
  BY <1>1, <1>3, SwitchingPlan
<1>6. Here # <<>>
  <2>1. Len(Here) # 0
    BY <1>1, <1>3 DEF IsSequence
  <2>2. Len(<<>>) = 0
    OBVIOUS
  <2> QED BY <2>1, <2>2
<1> QED BY <1>1, <1>3, <1>4, <1>5, <1>6

LEMMA AlongAnswered ==
    ASSUME Sound, FitInv, Along, SwitchInv, Answered
    PROVE  Along' /\ Passed' = Passed + 1 /\ Here' = Here
<1>1. /\ Places /\ MemoryInv /\ Fitting(todo, line, at)
      /\ Running /\ todo # <<>> /\ Sending
  BY DEF FitInv, Answered, Sending
<1>2. /\ UNCHANGED <<job, tables, line, at>>
      /\ dsp' = Taken /\ todo' = Tail(todo)
  BY DEF Answered
<1> PICK e : e = Received(dsp[at], Infos[at], Outgoing)
  OBVIOUS
<1>3. dsp'[at] = e
  BY <1>1, <1>2 DEF Taken, MemoryInv, Places
<1>4. Taking(Here, Table(at), dsp[at], todo, Passed)
  BY <1>1 DEF Along
<1> PICK c : c = Head(todo)
  OBVIOUS
<1>5. ~StopsAt(Table(at), c)
  BY DEF Answered, Sending, Sent, StopsAt
<1>6. CASE c.op # "SetConfig"
  <2>1. dsp[at].next = None \/ SwitchesLate(Infos[at])
    BY <1>1 DEF SwitchInv, SwitchOf, Places
  <2>2. Sets(dsp[at], c, e) /\ Loads(dsp[at], c, e)
    BY <1>1, <1>6, <2>1, TakenSteps
  <2>3. Taking(Here, Table(at), e, Tail(todo), Passed + 1)
    BY <1>1, <1>4, <1>5, <2>2, TakingMore
  <2> QED BY <1>2, <1>3, <2>3, AlongNext
<1>7. CASE c.op = "SetConfig"
  <2>1. Passed = 0 /\ Here[1] = c
    BY <1>1, <1>7, HeadStep
  <2>2. Remains(Tail(todo), Here, 1)
    BY <1>1, <1>4, <2>1, RemainsTail DEF Taking
  <2>3. \A k \in 1 .. 1 : Quiet(Here[k]) /\ ~StopsAt(Table(at), Here[k])
    <3>1. Quiet(c)
      BY <1>7 DEF Quiet
    <3>2. \A k \in 1 .. 1 : k = 1
      OBVIOUS
    <3> QED BY <1>5, <2>1, <3>1, <3>2
  <2>4. Taking(Here, Table(at), e, Tail(todo), 1)
    BY <2>2, <2>3, TakingQuiet
  <2>5. Passed + 1 = 1
    BY <2>1
  <2> QED BY <1>2, <1>3, <2>4, <2>5, AlongNext
<1> QED BY <1>6, <1>7

LEMMA AlongSkipping ==
    ASSUME Sound, FitInv, Along, Skipping
    PROVE  Along' /\ Passed' = Passed + 1 /\ Here' = Here
<1>1. /\ UNCHANGED <<job, tables, line, at, dsp>>
      /\ Running /\ todo # <<>> /\ todo' = Tail(todo)
  BY DEF Skipping
<1> PICK c : c = Head(todo)
  OBVIOUS
<1>2. Quiet(c) /\ ~StopsAt(Table(at), c)
  BY DEF Skipping, Sent, Quiet
<1>3. Taking(Here, Table(at), dsp[at], todo, Passed)
  BY <1>1 DEF Along
<1>4. Sets(dsp[at], c, dsp[at]) /\ Loads(dsp[at], c, dsp[at])
  BY <1>2, QuietSets
<1>5. Taking(Here, Table(at), dsp[at], Tail(todo), Passed + 1)
  BY <1>1, <1>2, <1>3, <1>4, TakingMore
<1>6. dsp'[at] = dsp[at]
  BY <1>1
<1>7. Taking(Here, Table(at), dsp'[at], todo', Passed + 1)
  BY <1>1, <1>5, <1>6, Zenon
<1> QED BY <1>1, <1>7, AlongNext

LEMMA AlongAgain ==
    ASSUME Sound, FitInv, Along, Again
    PROVE  /\ Along' /\ Passed = 2 /\ Passed' = 1 /\ Here' = Here
           /\ Here # <<>> /\ Here[1].op = "SetConfig"
<1>1. /\ UNCHANGED <<job, tables, line, at, dsp>>
      /\ Running /\ todo # <<>> /\ todo' = get_master_status \o todo
      /\ Head(todo).op = "AwaitPreset" /\ Places
  BY DEF Again, FitInv
<1>2. /\ Passed = 2 /\ Here # <<>> /\ Here[1].op = "SetConfig"
      /\ IsSequence(Here) /\ PlanDoes(Table(at), Here, Lines[line])
  BY <1>1, HeadStep
<1>3. /\ Here[2] = Head(get_master_status)
      /\ \A k \in 1 .. 2 : Quiet(Here[k]) /\ ~StopsAt(Table(at), Here[k])
  BY <1>2, SwitchingPlan
<1>4. Remains(todo, Here, 2)
  BY <1>1, <1>2 DEF Along, Taking
<1>5. Remains(get_master_status \o todo, Here, 1)
  BY <1>3, <1>4, RemainsAgain
<1>6. \A k \in 1 .. 1 : k \in 1 .. 2
  OBVIOUS
<1>7. Taking(Here, Table(at), dsp'[at], get_master_status \o todo, 1)
  BY <1>3, <1>5, <1>6, TakingQuiet
<1>8. Taking(Here, Table(at), dsp'[at], todo', 1)
  BY <1>1, <1>7, Zenon
<1> QED BY <1>1, <1>2, <1>8, AlongNext

(* A device that switches is waited for, or its line has failed there. *)
LEMMA Switches ==
    ASSUME Sound, FitInv, ReturnedInv, Along, SwitchInv,
           NEW i \in DOMAIN Infos, Switch(i)
    PROVE  /\ \E p \in PresetsOf(Lines[line]) :
                dsp[i].next = Some(p) /\ SwitchesLate(Infos[i])
           /\ Running /\ i = at =>
                /\ Passed \in {1, 2} /\ Here # <<>>
                /\ Here[1].op = "SetConfig"
           /\ ~(Running /\ i = at) => Failed(i)
<1>1. dsp[i].next # None
  BY DEF Switch
<1>2. SwitchOf(i)
  BY DEF SwitchInv
<1>3. PICK p \in PresetsOf(Lines[line]) :
        /\ dsp[i].next = Some(p) /\ dsp[i].master.preset # p
        /\ \/ Running /\ i = at /\ Waits(Here, Passed, saved, p)
           \/ Failed(i)
  BY <1>1, <1>2 DEF SwitchOf
<1>4. SwitchesLate(Infos[i])
  BY <1>1, <1>2 DEF SwitchOf
<1>5. ASSUME Running, i = at PROVE ~Failed(i)
  <2>1. PICK S : results \in Seq(S)
    BY DEF ReturnedInv
  <2>2. Len(results) = at - 1 /\ DOMAIN results = 1 .. Len(results)
    BY <1>5, <2>1 DEF ReturnedInv, Running
  <2>3. at \in Nat
    BY JobFacts DEF FitInv, Places
  <2>4. i \notin DOMAIN results
    BY <1>5, <2>2, <2>3
  <2> QED BY <2>4 DEF Failed
<1>6. ASSUME Running, i = at
      PROVE  /\ Passed \in {1, 2} /\ Here # <<>>
             /\ Here[1].op = "SetConfig"
  BY <1>3, <1>5, <1>6 DEF Waits
<1> QED BY <1>3, <1>4, <1>6

LEMMA AlongSwitch ==
    ASSUME Sound, FitInv, ReturnedInv, Along, SwitchInv,
           NEW i \in DOMAIN Infos, Switch(i)
    PROVE  Along' /\ Here' = Here /\ Passed' = Passed
<1>1. /\ UNCHANGED <<job, tables, line, at, todo, result>>
      /\ dsp' = [dsp EXCEPT ![i] = Switched(@)]
  BY DEF Switch
<1>2. Here' = Here
  BY <1>1, SameJob DEF Here
<1>3. Passed' = Passed
  BY <1>1, <1>2 DEF Passed
<1>4. CASE ~Running
  BY <1>1, <1>2, <1>3, <1>4 DEF Along, Running
<1>5. CASE Running /\ i # at
  <2>1. Taking(Here, Table(at), dsp[at], todo, Passed)
    BY <1>5 DEF Along
  <2>2. dsp'[at] = dsp[at] /\ todo' = todo
    BY <1>1, <1>5 DEF MemoryInv, FitInv, Places
  <2>3. Taking(Here, Table(at), dsp'[at], todo', Passed)
    BY <2>1, <2>2, Zenon
  <2> QED BY <1>1, <1>2, <1>3, <2>3, AlongNext
<1>6. CASE Running /\ i = at
  <2>1. Passed \in {1, 2} /\ Here # <<>> /\ Here[1].op = "SetConfig"
    BY <1>6, Switches
  <2>2. IsSequence(Here) /\ PlanDoes(Table(at), Here, Lines[line])
    BY PlanSound DEF Here, Places, FitInv
  <2>3. \A k \in 1 .. 2 : Quiet(Here[k]) /\ ~StopsAt(Table(at), Here[k])
    BY <2>1, <2>2, SwitchingPlan
  <2>4. \A k \in 1 .. Passed : k \in 1 .. 2
    BY <2>1
  <2>5. Remains(todo, Here, Passed)
    BY <1>6 DEF Along, Taking
  <2>6. Taking(Here, Table(at), dsp'[at], todo, Passed)
    BY <2>3, <2>4, <2>5, TakingQuiet
  <2>7. Taking(Here, Table(at), dsp'[at], todo', Passed)
    BY <1>1, <2>6, Zenon
  <2> QED BY <1>1, <1>2, <1>3, <2>7, AlongNext
<1> QED BY <1>4, <1>5, <1>6

(* While the line runs on a device it has no result there. *)
LEMMA NotFailedYet ==
    ASSUME Places, ReturnedInv, Running
    PROVE  /\ \A i : Failed(i) => i < at /\ i # at
           /\ DOMAIN results = 1 .. at - 1 /\ Len(results) = at - 1
           /\ at \in Nat
<1>1. PICK S : results \in Seq(S)
  BY DEF ReturnedInv
<1>2. Len(results) = at - 1 /\ DOMAIN results = 1 .. Len(results)
  BY <1>1 DEF ReturnedInv, Running
<1>3. at \in Nat
  BY JobFacts DEF Places
<1> QED BY <1>2, <1>3 DEF Failed

LEMMA SwitchStays ==
    ASSUME UNCHANGED <<job, tables, line>>,
           NEW i \in DOMAIN Infos, SwitchOf(i), dsp'[i] = dsp[i],
           dsp[i].next # None => \A p :
                \/ Running /\ i = at /\ Waits(Here, Passed, saved, p)
                \/ Failed(i)
                => \/ Running' /\ i = at' /\ Waits(Here', Passed', saved', p)
                   \/ Failed(i)',
           Running' /\ (i > at' \/ (i = at' /\ Passed' = 0)) =>
                Running /\ (i > at \/ (i = at /\ Passed = 0))
    PROVE  SwitchOf(i)'
<1>1. /\ Infos' = Infos /\ Lines' = Lines
      /\ \A l : PresetsBefore(l)' = PresetsBefore(l)
  BY SameJob
<1>2. /\ PresetsBefore(line)' = PresetsBefore(line)
      /\ PresetsBefore(line + 1)' = PresetsBefore(line + 1)
  BY <1>1 DEF PresetsBefore
<1>3. SwitchesLate(Infos[i])' = SwitchesLate(Infos[i])
      /\ dsp[i]' = dsp[i] /\ PresetsOf(Lines[line])' = PresetsOf(Lines[line])
  BY <1>1
<1>4. \A p : Waits(Here, Passed, saved, p)' <=>
             Waits(Here', Passed', saved', p)
  BY DEF Waits
<1>5. SwitchesLate(Infos[i]) \/ dsp[i].next = None
  BY DEF SwitchOf
<1>6. ASSUME dsp[i].next # None
      PROVE  \E p \in PresetsOf(Lines[line]) :
                /\ dsp[i].next = Some(p) /\ dsp[i].master.preset # p
                /\ \/ Running' /\ i = at' /\ Waits(Here', Passed', saved', p)
                   \/ Failed(i)'
  BY <1>6 DEF SwitchOf
<1>7. SwitchesLate(Infos[i]) =>
        /\ dsp[i].master.preset \in PresetsBefore(line + 1)
        /\ Running' /\ (i > at' \/ (i = at' /\ Passed' = 0)) =>
            dsp[i].master.preset \in PresetsBefore(line)
  BY DEF SwitchOf
<1> QED BY <1>1, <1>2, <1>3, <1>4, <1>5, <1>6, <1>7 DEF SwitchOf

(* What a device that is told a preset waits for. *)
LEMMA StillWaiting ==
    ASSUME Sound, Places, ReturnedInv, Along, SwitchInv, Running,
           dsp[at].next # None
    PROVE  /\ \E p \in PresetsOf(Lines[line]) :
                /\ dsp[at].next = Some(p) /\ dsp[at].master.preset # p
                /\ Waits(Here, Passed, saved, p)
           /\ todo # <<>> /\ Passed \in {1, 2}
           /\ Passed = 1 => Head(todo).op = "ReadMemory"
           /\ Passed = 2 => /\ Head(todo).op = "AwaitPreset"
                            /\ Head(todo).preset = Here[1].config
<1>1. PICK p \in PresetsOf(Lines[line]) :
        /\ dsp[at].next = Some(p) /\ dsp[at].master.preset # p
        /\ Waits(Here, Passed, saved, p)
  <2>1. SwitchOf(at) /\ ~Failed(at)
    BY NotFailedYet DEF SwitchInv, Places
  <2> QED BY <2>1 DEF SwitchOf
<1>2. Passed \in {1, 2} /\ Here # <<>> /\ Here[1].op = "SetConfig"
  BY <1>1 DEF Waits
<1>3. IsSequence(Here) /\ PlanDoes(Table(at), Here, Lines[line])
  BY PlanSound DEF Here, Places
<1>4. /\ Len(Here) >= 3 /\ Here[2].op = "ReadMemory"
      /\ Here[3].op = "AwaitPreset" /\ Here[3].preset = Here[1].config
  BY <1>2, <1>3, SwitchingPlan
<1>5. Remains(todo, Here, Passed)
  BY DEF Along, Taking
<1>6. todo # <<>>
  <2>1. Passed # Len(Here)
    BY <1>2, <1>4
  <2> QED BY <1>5, <2>1, RemainsEnd
<1>7. Head(todo) = Here[Passed + 1]
  BY <1>5, <1>6, RemainsTail
<1>8. /\ Passed = 1 => Passed + 1 = 2
      /\ Passed = 2 => Passed + 1 = 3
  OBVIOUS
<1> QED BY <1>1, <1>2, <1>4, <1>6, <1>7, <1>8

(* The device that is being served, after what it is sent: it switches by  *)
(* itself only if it is told to.                                           *)
LEMMA ServedSwitch ==
    ASSUME Sound, FitInv, ReturnedInv, Along, SwitchInv, Sending,
           NEW e, e = Received(dsp[at], Infos[at], Outgoing)
    PROVE  /\ SwitchesLate(Infos[at]) \/ e.next = None
           /\ SwitchesLate(Infos[at]) =>
                e.master.preset = dsp[at].master.preset
           /\ Head(todo).op # "SetConfig" => e.next = dsp[at].next
           /\ Head(todo).op = "SetConfig" /\ e.next # None =>
                /\ e.next = Some(Head(todo).config) /\ Passed = 0
                /\ Head(todo) = Here[1] /\ Here # <<>>
                /\ Head(todo).config \in PresetsOf(Lines[line])
                /\ e.master.preset # Head(todo).config
<1>1. /\ Places /\ MemoryInv /\ Fitting(todo, line, at)
      /\ Running /\ todo # <<>> /\ SwitchOf(at)
  BY DEF FitInv, Sending, SwitchInv, Places
<1> PICK c : c = Head(todo)
  OBVIOUS
<1>2. dsp[at].next = None \/ SwitchesLate(Infos[at])
  BY <1>1 DEF SwitchOf
<1>3. CASE c.op # "SetConfig"
  <2>1. e.next = dsp[at].next /\ e.master.preset = dsp[at].master.preset
    BY <1>1, <1>2, <1>3, TakenSteps
  <2> QED BY <1>2, <1>3, <2>1
<1>4. CASE c.op = "SetConfig"
  <2>1. IF SwitchesLate(Infos[at])
        THEN /\ e.next = Some(c.config)
             /\ e.master.preset = dsp[at].master.preset
        ELSE e.next = None
    BY <1>1, <1>4, TakenSwitch
  <2>2. CASE ~SwitchesLate(Infos[at])
    BY <1>4, <2>1, <2>2
  <2>3. CASE SwitchesLate(Infos[at])
    <3>1. Passed = 0 /\ Here[1] = c /\ Here # <<>> /\ IsSequence(Here)
          /\ PlanDoes(Table(at), Here, Lines[line])
          /\ Passed + 1 \in 1 .. Len(Here)
      BY <1>1, <1>4, HeadStep
    <3>2. c.config \in PresetsOf(Lines[line])
      <4>1. 1 \in 1 .. Len(Here)
        BY <3>1
      <4> QED BY <1>4, <3>1, <4>1, SwitchingPlan
    <3>3. dsp[at].master.preset \in PresetsBefore(line)
      BY <1>1, <2>3, <3>1 DEF SwitchOf
    <3>4. c.config \notin PresetsBefore(line)
      BY <1>1, <2>3, <3>2, NotYetTold DEF Places
    <3> QED BY <1>4, <2>1, <2>3, <3>1, <3>2, <3>3, <3>4
  <2> QED BY <2>2, <2>3
<1> QED BY <1>3, <1>4

LEMMA BeforeMore ==
    ASSUME Places
    PROVE  /\ PresetsBefore(line) \subseteq PresetsBefore(line + 1)
           /\ PresetsOf(Lines[line]) \subseteq PresetsBefore(line + 1)
<1>1. line \in Nat \ {0}
  BY JobFacts DEF Places
<1>2. /\ 1 .. line - 1 \subseteq 1 .. line + 1 - 1
      /\ line \in 1 .. line + 1 - 1
  BY <1>1
<1> QED BY <1>2 DEF PresetsBefore

LEMMA SwitchAnswered ==
    ASSUME Sound, FitInv, ReturnedInv, Along, SwitchInv, Answered
    PROVE  SwitchInv'
<1>1. /\ Places /\ MemoryInv /\ Running /\ todo # <<>> /\ Sending
      /\ UNCHANGED <<job, tables, line, at, results, result>>
      /\ dsp' = Taken /\ Running' /\ Head(todo).op \in Sent
      /\ saved' = IF Head(todo).op = "ReadMemory"
                  THEN Some(dsp[at].master) ELSE saved
  BY DEF FitInv, Answered, Sending, Running
<1>2. Passed' = Passed + 1 /\ Here' = Here
  BY AlongAnswered
<1>3. Passed \in Nat
  BY <1>1, HeadStep
<1>4. \A i : Failed(i)' <=> Failed(i)
  BY <1>1 DEF Failed
<1>5. ASSUME NEW i \in DOMAIN Infos, i # at PROVE SwitchOf(i)'
  <2>1. dsp'[i] = dsp[i]
    BY <1>1, <1>5 DEF Taken, MemoryInv
  <2> QED BY <1>1, <1>4, <1>5, <2>1, SwitchStays DEF SwitchInv
<1>6. SwitchOf(at)'
  <2> PICK e : e = Received(dsp[at], Infos[at], Outgoing)
    OBVIOUS
  <2>1. dsp'[at] = e
    BY <1>1 DEF Taken, MemoryInv, Places
  <2>2. /\ SwitchesLate(Infos[at]) \/ e.next = None
        /\ SwitchesLate(Infos[at]) =>
            e.master.preset = dsp[at].master.preset
        /\ Head(todo).op # "SetConfig" => e.next = dsp[at].next
        /\ Head(todo).op = "SetConfig" /\ e.next # None =>
            /\ e.next = Some(Head(todo).config) /\ Passed = 0
            /\ Head(todo) = Here[1] /\ Here # <<>>
            /\ Head(todo).config \in PresetsOf(Lines[line])
            /\ e.master.preset # Head(todo).config
    BY <1>1, ServedSwitch
  <2>3. SwitchOf(at)
    BY <1>1 DEF SwitchInv, Places
  <2>4. ASSUME e.next # None
        PROVE  \E p \in PresetsOf(Lines[line]) :
                /\ e.next = Some(p) /\ e.master.preset # p
                /\ Waits(Here, Passed + 1, saved', p)
    <3>1. CASE Head(todo).op = "SetConfig"
      <4> PICK p : p = Head(todo).config
        OBVIOUS
      <4>1. /\ e.next = Some(p) /\ e.master.preset # p
            /\ p \in PresetsOf(Lines[line]) /\ Passed = 0
            /\ Here[1].op = "SetConfig" /\ Here[1].config = p /\ Here # <<>>
        BY <2>2, <2>4, <3>1
      <4>2. saved' = None /\ Passed + 1 = 1
        BY <1>1, <3>1, <4>1 DEF SwitchInv
      <4> QED BY <4>1, <4>2 DEF Waits
    <3>2. CASE Head(todo).op # "SetConfig"
      <4>1. dsp[at].next # None /\ e.next = dsp[at].next
        BY <2>2, <2>4, <3>2
      <4>2. e.master.preset = dsp[at].master.preset
        BY <2>2, <2>4
      <4>3. PICK p \in PresetsOf(Lines[line]) :
                /\ dsp[at].next = Some(p) /\ dsp[at].master.preset # p
                /\ Waits(Here, Passed, saved, p)
        BY <1>1, <4>1, StillWaiting
      <4>4. Passed = 1 /\ Head(todo).op = "ReadMemory"
        <5>1. /\ Passed \in {1, 2}
              /\ Passed = 1 => Head(todo).op = "ReadMemory"
              /\ Passed = 2 => Head(todo).op = "AwaitPreset"
          BY <1>1, <4>1, StillWaiting
        <5> QED BY <1>1, <5>1 DEF Sent
      <4>5. saved' = Some(dsp[at].master) /\ Passed + 1 = 2
        BY <1>1, <4>4
      <4>6. saved' # None /\ The(saved') = dsp[at].master
        BY <4>5 DEF Some, None, The
      <4>7. Waits(Here, Passed + 1, saved', p)
        BY <4>3, <4>5, <4>6 DEF Waits
      <4> QED BY <4>1, <4>2, <4>3, <4>7
    <3> QED BY <3>1, <3>2
  <2>5. Passed' # 0
    BY <1>2, <1>3
  <2>6. ~(at > at)
    BY <1>1, NotFailedYet
  <2>7. SwitchesLate(Infos[at]) => e.master.preset \in PresetsBefore(line + 1)
    BY <2>2, <2>3 DEF SwitchOf
  <2>8. /\ Infos' = Infos /\ Lines' = Lines
        /\ \A l : PresetsBefore(l)' = PresetsBefore(l)
    BY <1>1, SameJob
  <2>9. PresetsBefore(line + 1)' = PresetsBefore(line + 1)
    BY <1>1, <2>8 DEF PresetsBefore
  <2>10. \A p : Waits(Here, Passed, saved, p)' <=>
                Waits(Here, Passed + 1, saved', p)
    BY <1>2 DEF Waits
  <2>11. /\ SwitchesLate(Infos[at])' = SwitchesLate(Infos[at])
         /\ dsp[at]' = e /\ (at > at)' = (at > at)
         /\ PresetsOf(Lines[line])' = PresetsOf(Lines[line])
    BY <1>1, <2>1, <2>8
  <2> QED
    BY <1>1, <2>2, <2>4, <2>5, <2>6, <2>7, <2>9, <2>10, <2>11 DEF SwitchOf
<1>7. (Passed = 0)' => FALSE
  BY <1>2, <1>3
<1>8. \A k \in DOMAIN results' : k <= at'
  BY <1>1 DEF SwitchInv
<1>9. Infos' = Infos
  BY <1>1, SameJob
<1> QED BY <1>1, <1>5, <1>6, <1>7, <1>8, <1>9 DEF SwitchInv

LEMMA SwitchSkipping ==
    ASSUME Sound, FitInv, ReturnedInv, Along, SwitchInv, Skipping
    PROVE  SwitchInv'
<1>1. /\ Places /\ Running /\ todo # <<>> /\ Running'
      /\ UNCHANGED <<job, tables, line, at, saved, dsp, results, result>>
      /\ Head(todo).op \notin Sent
      /\ Head(todo).op = "AwaitPreset" =>
            The(saved).preset = Head(todo).preset
  BY DEF FitInv, Skipping, Running
<1>2. Passed' = Passed + 1 /\ Here' = Here
  BY AlongSkipping
<1>3. Passed \in Nat
  BY <1>1, HeadStep
<1>4. dsp[at].next = None
  <2> SUFFICES ASSUME dsp[at].next # None PROVE FALSE
    OBVIOUS
  <2>1. PICK p \in PresetsOf(Lines[line]) : Waits(Here, Passed, saved, p)
    BY <1>1, StillWaiting
  <2>2. /\ Passed \in {1, 2}
        /\ Passed = 1 => Head(todo).op = "ReadMemory"
        /\ Passed = 2 => /\ Head(todo).op = "AwaitPreset"
                         /\ Head(todo).preset = Here[1].config
    BY <1>1, StillWaiting
  <2>3. Passed = 2
    BY <1>1, <2>2 DEF Sent
  <2>4. The(saved).preset # p /\ Here[1].config = p
    BY <2>1, <2>3 DEF Waits
  <2> QED BY <1>1, <2>2, <2>3, <2>4
<1>5. \A i : Failed(i)' <=> Failed(i)
  BY <1>1 DEF Failed
<1>6. Passed' # 0
  BY <1>2, <1>3
<1>7. ASSUME NEW i \in DOMAIN Infos PROVE SwitchOf(i)'
  BY <1>1, <1>4, <1>5, <1>6, <1>7, SwitchStays DEF SwitchInv
<1>8. Infos' = Infos
  BY <1>1, SameJob
<1> QED BY <1>1, <1>6, <1>7, <1>8 DEF SwitchInv

LEMMA SwitchAgain ==
    ASSUME Sound, FitInv, ReturnedInv, Along, SwitchInv, Again
    PROVE  SwitchInv'
<1>1. /\ Places /\ Running /\ todo # <<>> /\ Running'
      /\ UNCHANGED <<job, tables, line, at, saved, dsp, results, result>>
  BY DEF FitInv, Again, Running
<1>2. Passed' = 1 /\ Here' = Here /\ Passed = 2
  BY AlongAgain
<1>3. \A p : Waits(Here, Passed, saved, p) => Waits(Here', Passed', saved', p)
  BY <1>1, <1>2 DEF Waits
<1>4. \A i : Failed(i)' <=> Failed(i)
  BY <1>1 DEF Failed
<1>5. ASSUME NEW i \in DOMAIN Infos PROVE SwitchOf(i)'
  BY <1>1, <1>2, <1>3, <1>4, <1>5, SwitchStays DEF SwitchInv
<1>6. Infos' = Infos
  BY <1>1, SameJob
<1> QED BY <1>1, <1>2, <1>5, <1>6 DEF SwitchInv

LEMMA SwitchPanicking ==
    ASSUME Sound, FitInv, ReturnedInv, Along, SwitchInv, Panicking
    PROVE  SwitchInv'
<1>1. /\ Places /\ Running /\ todo # <<>> /\ ~Running'
      /\ UNCHANGED <<job, tables, line, at, saved, dsp, results>>
      /\ Head(todo).op = "Refuse"
  BY DEF FitInv, Panicking, Running
<1>2. dsp[at].next = None
  <2> SUFFICES ASSUME dsp[at].next # None PROVE FALSE
    OBVIOUS
  <2>1. /\ Passed \in {1, 2}
        /\ Passed = 1 => Head(todo).op = "ReadMemory"
        /\ Passed = 2 => Head(todo).op = "AwaitPreset"
    BY <1>1, StillWaiting
  <2> QED BY <1>1, <2>1
<1>3. \A i : Failed(i)' <=> Failed(i)
  BY <1>1 DEF Failed
<1>4. ASSUME NEW i \in DOMAIN Infos PROVE SwitchOf(i)'
  BY <1>1, <1>2, <1>3, <1>4, SwitchStays DEF SwitchInv
<1>5. Infos' = Infos
  BY <1>1, SameJob
<1> QED BY <1>1, <1>4, <1>5 DEF SwitchInv

LEMMA SwitchStill ==
    ASSUME SwitchInv, Still
    PROVE  SwitchInv'
<1>1. UNCHANGED <<job, tables, line, at, todo, saved, dsp, results, result>>
  BY DEF Still
<1>2. /\ Infos' = Infos /\ Here' = Here
  BY <1>1, SameJob DEF Here
<1>3. Passed' = Passed /\ Running' = Running
  BY <1>1, <1>2 DEF Passed, Running
<1>4. \A i : Failed(i)' <=> Failed(i)
  BY <1>1 DEF Failed
<1>5. ASSUME NEW i \in DOMAIN Infos PROVE SwitchOf(i)'
  BY <1>1, <1>2, <1>3, <1>4, <1>5, SwitchStays DEF SwitchInv
<1> QED BY <1>1, <1>2, <1>3, <1>5 DEF SwitchInv

LEMMA SwitchSwitch ==
    ASSUME Sound, FitInv, ReturnedInv, Along, SwitchInv,
           NEW k \in DOMAIN Infos, Switch(k)
    PROVE  SwitchInv'
<1>1. /\ Places /\ MemoryInv
      /\ UNCHANGED <<job, tables, line, at, todo, saved, results, result>>
      /\ dsp' = [dsp EXCEPT ![k] = Switched(@)]
  BY DEF FitInv, Switch
<1>2. Here' = Here /\ Passed' = Passed /\ Infos' = Infos
  BY <1>1, AlongSwitch, SameJob
<1>3. Running' = Running
  BY <1>1 DEF Running
<1>4. \A i : Failed(i)' <=> Failed(i)
  BY <1>1 DEF Failed
<1>5. ASSUME NEW i \in DOMAIN Infos, i # k PROVE SwitchOf(i)'
  <2>1. dsp'[i] = dsp[i]
    BY <1>1, <1>5 DEF MemoryInv
  <2> QED BY <1>1, <1>2, <1>3, <1>4, <1>5, <2>1, SwitchStays DEF SwitchInv
<1>6. SwitchOf(k)'
  <2>1. PICK p \in PresetsOf(Lines[line]) : dsp[k].next = Some(p)
    BY Switches
  <2> PICK m : m = [dsp[k].master EXCEPT !.preset = The(dsp[k].next)]
    OBVIOUS
  <2>2. m.preset = p
    <3>1. IsMaster(dsp[k].master)
      BY <1>1 DEF MemoryInv, Kept, Memory
    <3>2. The(dsp[k].next) = p
      BY <2>1 DEF The, Some
    <3> QED BY <3>1, <3>2 DEF IsMaster
  <2>3. dsp'[k] = Blank(m)
    BY <1>1, Zenon DEF MemoryInv, Switched
  <2>4. Blank(m).next = None /\ Blank(m).master = m
    BY DEF Blank
  <2>5. ~(Running /\ (k > at \/ (k = at /\ Passed = 0)))
    <3>1. CASE Running /\ k = at
      <4>1. Passed \in {1, 2}
        BY <3>1, Switches
      <4>2. at \in Nat
        BY <1>1, <3>1, NotFailedYet
      <4> QED BY <3>1, <4>1, <4>2
    <3>2. CASE Running /\ k # at
      <4>1. Failed(k)
        BY <3>2, Switches
      <4>2. k < at /\ k \in Nat /\ at \in Nat
        BY <1>1, <3>2, <4>1, NotFailedYet, JobFacts DEF Places
      <4> QED BY <4>2
    <3> QED BY <3>1, <3>2
  <2>6. p \in PresetsBefore(line + 1)
    BY <1>1, BeforeMore
  <2>7. PresetsBefore(line + 1)' = PresetsBefore(line + 1)
    <3>1. \A l : PresetsBefore(l)' = PresetsBefore(l)
      BY <1>1, SameJob
    <3> QED BY <1>1, <1>2, <3>1 DEF PresetsBefore
  <2>8. dsp[k]'.next = None /\ dsp[k]'.master.preset = p
    BY <2>2, <2>3, <2>4
  <2>9. ~(Running /\ (k > at \/ (k = at /\ Passed = 0)))'
    BY <1>1, <1>2, <1>3, <2>5
  <2> QED BY <2>6, <2>7, <2>8, <2>9 DEF SwitchOf
<1> QED BY <1>1, <1>2, <1>3, <1>5, <1>6 DEF SwitchInv

(* Where a return leads, with what is left of the presets to switch to. *)
LEMMA SwitchLeaving ==
    ASSUME Sound, FitInv, ReturnedInv, Along, SwitchInv, Leaving
    PROVE  Along' /\ SwitchInv'
<1> PICK r : /\ Return(r) /\ r \in {"ok", "NoAnswer"} \cup Refusals
             /\ r = "ok" => todo = <<>> /\ dsp' = dsp
  BY DEF Leaving
<1>1. /\ Places /\ MemoryInv /\ Running
      /\ UNCHANGED <<job, tables>> /\ saved' = None
      /\ dsp' = dsp \/ (Sending /\ dsp' = Taken)
  BY DEF FitInv, Leaving, Return
<1>2. /\ Infos' = Infos /\ Lines' = Lines
      /\ \A l : PresetsBefore(l)' = PresetsBefore(l)
  BY <1>1, SameJob
<1>3. /\ Len(Infos) \in Nat \ {0} /\ DOMAIN Infos = 1 .. Len(Infos)
      /\ Len(Lines) \in Nat \ {0} /\ DOMAIN Lines = 1 .. Len(Lines)
      /\ line \in DOMAIN Lines /\ at \in DOMAIN Infos
  BY <1>1, JobFacts DEF Places
<1>4. /\ \A i : Failed(i) => i < at /\ i # at
      /\ DOMAIN results = 1 .. at - 1 /\ Len(results) = at - 1
      /\ at \in Nat
  BY <1>1, NotFailedYet
<1>5. PICK S : results \in Seq(S)
  BY DEF ReturnedInv
<1> PICK all : all = Append(results, r)
  OBVIOUS
<1>6. /\ DOMAIN all = 1 .. at /\ all[at] = r
      /\ \A k \in 1 .. at - 1 : all[k] = results[k]
  BY <1>4, <1>5
(* What is told to the device that was served, or is still to be told. *)
<1>7. /\ SwitchesLate(Infos[at]) \/ dsp'[at].next = None
      /\ dsp'[at].next # None =>
            /\ r # "ok"
            /\ \E p \in PresetsOf(Lines[line]) :
                dsp'[at].next = Some(p) /\ dsp'[at].master.preset # p
      /\ SwitchesLate(Infos[at]) =>
            dsp'[at].master.preset \in PresetsBefore(line + 1)
  <2>1. SwitchOf(at)
    BY <1>3 DEF SwitchInv
  <2>2. CASE dsp' = dsp
    <3>1. ASSUME dsp[at].next # None
          PROVE  /\ r # "ok"
                 /\ \E p \in PresetsOf(Lines[line]) :
                     dsp[at].next = Some(p) /\ dsp[at].master.preset # p
      BY <1>1, <3>1, StillWaiting
    <3> QED BY <2>1, <2>2, <3>1 DEF SwitchOf
  <2>3. CASE Sending /\ dsp' = Taken
    <3> PICK e : e = Received(dsp[at], Infos[at], Outgoing)
      OBVIOUS
    <3>1. dsp'[at] = e
      BY <1>1, <1>3, <2>3 DEF Taken, MemoryInv
    <3>2. r # "ok"
      BY <2>3 DEF Sending
    <3>3. /\ SwitchesLate(Infos[at]) \/ e.next = None
          /\ SwitchesLate(Infos[at]) =>
              e.master.preset = dsp[at].master.preset
          /\ Head(todo).op # "SetConfig" => e.next = dsp[at].next
          /\ Head(todo).op = "SetConfig" /\ e.next # None =>
              /\ e.next = Some(Head(todo).config)
              /\ Head(todo).config \in PresetsOf(Lines[line])
              /\ e.master.preset # Head(todo).config
      BY <2>3, ServedSwitch
    <3>4. ASSUME e.next # None
          PROVE  \E p \in PresetsOf(Lines[line]) :
                     e.next = Some(p) /\ e.master.preset # p
      <4>1. CASE Head(todo).op = "SetConfig"
        BY <3>3, <3>4, <4>1
      <4>2. CASE Head(todo).op # "SetConfig"
        <5>1. dsp[at].next # None /\ e.next = dsp[at].next
              /\ e.master.preset = dsp[at].master.preset
          BY <3>3, <3>4, <4>2
        <5>2. \E p \in PresetsOf(Lines[line]) :
                    dsp[at].next = Some(p) /\ dsp[at].master.preset # p
          BY <1>1, <5>1, StillWaiting
        <5> QED BY <5>1, <5>2
      <4> QED BY <4>1, <4>2
    <3> QED BY <2>1, <3>1, <3>2, <3>3, <3>4 DEF SwitchOf
  <2> QED BY <1>1, <2>2, <2>3
<1>8. ASSUME NEW i \in DOMAIN Infos, i # at PROVE dsp'[i] = dsp[i]
  BY <1>1, <1>8 DEF Taken, MemoryInv
<1>9. ASSUME line' = line, results' = all, at' = at + 1 \/ ~Running',
             at' \in {at, at + 1}
      PROVE  \A i \in DOMAIN Infos : SwitchOf(i)'
  <2>1. \A i : Failed(i) => Failed(i)'
    BY <1>4, <1>6, <1>9 DEF Failed
  <2>2. ASSUME NEW i \in DOMAIN Infos, i # at PROVE SwitchOf(i)'
    <3>1. Running' /\ (i > at' \/ (i = at' /\ Passed' = 0)) =>
                Running /\ i > at
      BY <1>1, <1>3, <1>9, <2>2
    <3>2. SwitchOf(i) /\ dsp'[i] = dsp[i]
      BY <1>8, <2>2 DEF SwitchInv
    <3> QED BY <1>1, <1>9, <2>1, <2>2, <3>1, <3>2, SwitchStays
  <2>3. ASSUME NEW i \in DOMAIN Infos, i = at PROVE SwitchOf(i)'
    <3>1. r # "ok" => Failed(i)'
      BY <1>4, <1>6, <1>9, <2>3 DEF Failed
    <3>2. ~(Running' /\ (i > at' \/ (i = at' /\ Passed' = 0)))
      BY <1>4, <1>9, <2>3
    <3>3. PresetsBefore(line + 1)' = PresetsBefore(line + 1)
      BY <1>2, <1>9 DEF PresetsBefore
    <3>4. /\ SwitchesLate(Infos[i])' = SwitchesLate(Infos[i])
          /\ PresetsOf(Lines[line])' = PresetsOf(Lines[line])
          /\ dsp[i]' = dsp'[i]
      BY <1>2, <1>9
    <3>5. /\ SwitchesLate(Infos[i]) \/ dsp'[i].next = None
          /\ dsp'[i].next # None =>
                /\ Failed(i)'
                /\ \E p \in PresetsOf(Lines[line]) :
                    dsp'[i].next = Some(p) /\ dsp'[i].master.preset # p
          /\ SwitchesLate(Infos[i]) =>
                dsp'[i].master.preset \in PresetsBefore(line + 1)
      BY <1>7, <2>3, <3>1
    <3> QED BY <3>2, <3>3, <3>4, <3>5 DEF SwitchOf
  <2> QED BY <2>2, <2>3
<1>10. CASE /\ at < Len(Infos) /\ line' = line /\ at' = at + 1
            /\ results' = all /\ result' = result
            /\ todo' = Plan(line, at + 1)
  <2>1. at + 1 \in DOMAIN Infos
    BY <1>3, <1>4, <1>10
  <2>2. Along'
    BY <1>1, <1>3, <1>10, <2>1, AlongReturn
  <2>3. \A k \in DOMAIN results' : k <= at'
    BY <1>4, <1>6, <1>10
  <2> QED BY <1>1, <1>2, <1>9, <1>10, <2>2, <2>3 DEF SwitchInv
<1>11. CASE /\ at = Len(Infos) /\ line' = line /\ at' = at
            /\ results' = all /\ result' # "running" /\ todo' = <<>>
  <2>1. ~Running'
    BY <1>11 DEF Running
  <2>2. \A k \in DOMAIN results' : k <= at'
    BY <1>4, <1>6, <1>11
  <2> QED BY <1>1, <1>2, <1>9, <1>11, <2>1, <2>2 DEF SwitchInv, Along
<1>12. CASE /\ at = Len(Infos) /\ line < Len(Lines) /\ line' = line + 1
            /\ at' = 1 /\ results' = <<>> /\ result' = result
            /\ todo' = Plan(line + 1, 1) /\ r = "ok"
            /\ \A k \in DOMAIN results : results[k] = "ok"
  <2>1. line + 1 \in DOMAIN Lines /\ 1 \in DOMAIN Infos
    BY <1>3, <1>12
  <2>2. Along'
    BY <1>1, <1>12, <2>1, AlongReturn
  <2>3. DOMAIN <<>> = {}
    OBVIOUS
  <2>4. \A k \in DOMAIN results' : k <= at'
    BY <1>12, <2>3
  <2>5. ASSUME NEW i \in DOMAIN Infos
        PROVE  /\ dsp'[i].next = None
               /\ SwitchesLate(Infos[i]) =>
                    dsp'[i].master.preset \in PresetsBefore(line + 1)
    <3>1. CASE i = at
      BY <1>7, <1>12, <3>1
    <3>2. CASE i # at
      <4>1. SwitchOf(i) /\ dsp'[i] = dsp[i] /\ ~Failed(i)
        BY <1>8, <1>12, <2>5, <3>2 DEF SwitchInv, Failed
      <4> QED BY <3>2, <4>1 DEF SwitchOf
    <3> QED BY <3>1, <3>2
  <2>6. /\ PresetsBefore(line)' = PresetsBefore(line + 1)
        /\ PresetsBefore(line + 1) \subseteq PresetsBefore(line + 1)'
    <3>1. 1 .. line + 1 - 1 \subseteq 1 .. line' + 1 - 1
      BY <1>3, <1>12
    <3> QED BY <1>2, <1>12, <3>1 DEF PresetsBefore
  <2>7. ASSUME NEW i \in DOMAIN Infos PROVE SwitchOf(i)'
    <3>1. SwitchesLate(Infos[i])' = SwitchesLate(Infos[i])
          /\ dsp[i]' = dsp'[i]
      BY <1>2
    <3> QED BY <2>5, <2>6, <3>1 DEF SwitchOf
  <2> QED BY <1>1, <1>2, <2>2, <2>4, <2>7 DEF SwitchInv
<1>13. \/ /\ at < Len(Infos) /\ line' = line /\ at' = at + 1
          /\ results' = all /\ result' = result
          /\ todo' = Plan(line, at + 1)
       \/ /\ at = Len(Infos) /\ line < Len(Lines) /\ line' = line + 1
          /\ at' = 1 /\ results' = <<>> /\ result' = result
          /\ todo' = Plan(line + 1, 1) /\ r = "ok"
          /\ \A k \in DOMAIN results : results[k] = "ok"
       \/ /\ at = Len(Infos) /\ line' = line /\ at' = at
          /\ results' = all /\ result' # "running"
          /\ todo' = <<>>
  BY <1>1, Turned
<1> QED BY <1>10, <1>11, <1>12, <1>13

PlanInv == FitInv /\ ReturnedInv /\ Along /\ SwitchInv

LEMMA PlanInit ==
    ASSUME Sound, Init
    PROVE  PlanInv
<1>1. FitInv /\ ReturnedInv
  BY FitInit, ReturnedInit DEF Sound
<1>2. Places
  BY <1>1 DEF FitInv
<1>3. /\ line = 1 /\ at = 1 /\ todo = Plan(1, 1) /\ saved = None
      /\ results = <<>>
      /\ dsp = [i \in DOMAIN Infos |-> Blank(NewMaster)]
  BY DEF Init
<1>4. IsSequence(Plan(1, 1))
  BY <1>2, <1>3, PlanSound DEF Places
<1>5. Taking(Plan(1, 1), Table(1), dsp[1], Plan(1, 1), 0)
  BY <1>4, TakingStart
<1>6. Here = Plan(1, 1) /\ Passed = 0
  BY <1>3, <1>4 DEF Here, Passed, IsSequence
<1>7. Along
  BY <1>3, <1>5, <1>6 DEF Along
<1>8. ASSUME NEW i \in DOMAIN Infos PROVE SwitchOf(i)
  <2>1. dsp[i].next = None /\ dsp[i].master.preset = NewMaster.preset
    BY <1>3 DEF Blank
  <2>2. \A l : NewMaster.preset \in PresetsBefore(l)
    BY DEF PresetsBefore
  <2> QED BY <2>1, <2>2 DEF SwitchOf
<1>9. DOMAIN <<>> = {}
  OBVIOUS
<1> QED BY <1>1, <1>3, <1>7, <1>8, <1>9 DEF SwitchInv, PlanInv

LEMMA PlanStep ==
    ASSUME Sound, PlanInv, [Next]_vars
    PROVE  PlanInv'
<1>1. FitInv /\ ReturnedInv /\ Along /\ SwitchInv /\ Fitting(todo, line, at)
  BY DEF PlanInv, FitInv
<1>2. FitInv' /\ ReturnedInv'
  BY <1>1, FitStep, ReturnedStep DEF Sound
<1>3. Along' /\ SwitchInv'
  <2>1. CASE Leaving
    BY <1>1, <2>1, SwitchLeaving
  <2>2. CASE Answered
    BY <1>1, <2>2, AlongAnswered, SwitchAnswered
  <2>3. CASE Skipping
    BY <1>1, <2>3, AlongSkipping, SwitchSkipping
  <2>4. CASE Again
    BY <1>1, <2>4, AlongAgain, SwitchAgain
  <2>5. CASE Panicking
    <3>1. ~Running'
      BY <2>5 DEF Panicking, Running
    <3> QED BY <1>1, <2>5, <3>1, SwitchPanicking DEF Along
  <2>6. CASE Still
    <3>1. Running' = Running /\ todo' = todo /\ dsp'[at] = dsp[at]
          /\ UNCHANGED <<job, tables, line, at>>
      BY <2>6 DEF Still, Running
    <3>2. Running => Along'
      BY <1>1, <3>1, AlongNext DEF Along
    <3> QED BY <1>1, <2>6, <3>1, <3>2, SwitchStill DEF Along
  <2>7. CASE \E i \in DOMAIN Infos : Switch(i)
    BY <1>1, <2>7, AlongSwitch, SwitchSwitch
  <2> QED
    BY <1>1, <2>1, <2>2, <2>3, <2>4, <2>5, <2>6, <2>7, EveryStepFiner
<1> QED BY <1>2, <1>3 DEF PlanInv

-----------------------------------------------------------------------------
(* What was done stays done *)

LEMMA PresetLine ==
    ASSUME NEW req, NEW p \in PresetsOf(req)
    PROVE  IsPreset(req)
<1>1. CASE req.cmd = "config"
  BY <1>1 DEF IsPreset
<1>2. CASE req.cmd # "config"
  <2>1. /\ req.cmd = "apply"
        /\ p \in UNION {s.preset : s \in req.config.master_status}
    BY <1>2 DEF PresetsOf
  <2>2. PICK s \in req.config.master_status : p \in s.preset
    BY <2>1
  <2>3. s.preset # None
    BY <2>2 DEF None
  <2> QED BY <2>1, <2>3 DEF IsPreset
<1> QED BY <1>1, <1>2

(* The line that runs overrules the lines before, where it has begun.      *)
LEMMA OverruledHere ==
    ASSUME Places, NEW i \in DOMAIN Infos, i <= at,
           NEW l \in DOMAIN Lines, l < line, NEW s,
           \/ IsPreset(Lines[line])
           \/ \E u \in AskedBy(line, i) : SameSetting(s, u)
    PROVE  Overruled(s, l, i)
<1>1. line \in l + 1 .. Len(Lines)
  BY JobFacts DEF Places
<1>2. Begun(line, i)
  BY DEF Begun
<1> QED BY <1>1, <1>2 DEF Overruled, SameSetting

LEMMA StillHolds ==
    ASSUME Sound, PlanInv, Sending,
           NEW e, e = Received(dsp[at], Infos[at], Outgoing),
           NEW l \in DOMAIN Lines, l < line,
           NEW s \in AskedBy(l, at), Holds(Table(at), dsp[at], s),
           ~Overruled(s, l, at)
    PROVE  Holds(Table(at), e, s)
<1>1. /\ FitInv /\ Places /\ MemoryInv /\ Fitting(todo, line, at)
      /\ Along /\ SwitchOf(at) /\ Running /\ todo # <<>>
      /\ at \in DOMAIN Infos
  BY DEF PlanInv, FitInv, SwitchInv, Sending, Places
<1>2. /\ line \in DOMAIN Lines /\ l \in 1 .. line - 1 /\ at <= at
  BY <1>1, JobFacts DEF Places
<1> PICK t : t = Table(at)
  OBVIOUS
<1> PICK c : c = Head(todo)
  OBVIOUS
<1> PICK d : d = dsp[at]
  OBVIOUS
<1>3. ~IsPreset(Lines[line])
  BY <1>1, <1>2, OverruledHere
<1>4. ASSUME NEW u \in AskedBy(line, at) PROVE ~Meet(t, s, u)
  <2>1. ~SameSetting(s, u)
    BY <1>1, <1>2, OverruledHere
  <2> QED BY <1>1, <1>2, <2>1, SettingsMeet
<1>5. /\ Passed + 1 \in 1 .. Len(Here) /\ c = Here[Passed + 1]
      /\ IsSequence(Here) /\ PlanDoes(t, Here, Lines[line])
  BY <1>1, HeadStep
<1>6. c.op # "SetConfig"
  <2> SUFFICES ASSUME c.op = "SetConfig" PROVE FALSE
    OBVIOUS
  <2>1. Passed + 1 = 1 /\ Here[1].config \in PresetsOf(Lines[line])
    BY <1>5, SwitchingPlan
  <2> QED BY <1>3, <2>1, PresetLine
<1>7. /\ Sets(d, c, e) /\ Loads(d, c, e)
  <2>1. dsp[at].next = None \/ SwitchesLate(Infos[at])
    BY <1>1 DEF SwitchOf
  <2> QED BY <1>1, <1>6, <2>1, TakenSteps
<1>8. /\ \A a : Touches(c, "word", a) => a \in AllWords(t, AskedBy(line, at))
      /\ \A a : Touches(c, "flag", a) => a \in AllFlags(t, AskedBy(line, at))
  <2> PICK x : x = execute(dsp[at], Outgoing)
    OBVIOUS
  <2> QED BY <1>1, TakenOutcome
<1>9. ASSUME NEW a \in Words(t, s)
      PROVE  a \in DOMAIN e.words /\ Says(t, s, a, e.words[a])
  <2>1. ~Touches(c, "word", a)
    <3> SUFFICES ASSUME Touches(c, "word", a) PROVE FALSE
      OBVIOUS
    <3>1. PICK u \in AskedBy(line, at) : a \in Words(t, u)
      BY <1>8 DEF AllWords
    <3>2. Meet(t, s, u)
      BY <1>9, <3>1 DEF Meet
    <3> QED BY <1>4, <3>2
  <2>2. a \in DOMAIN d.words /\ Says(t, s, a, d.words[a])
    BY <1>9 DEF Holds
  <2>3. Has(d, "word", a, d.words[a])
    BY <2>2 DEF Has
  <2>4. Has(e, "word", a, d.words[a])
    BY <1>7, <2>1, <2>3, Zenon DEF Sets
  <2>5. a \in DOMAIN e.words /\ e.words[a] = d.words[a]
    BY <2>4 DEF Has
  <2> QED BY <2>2, <2>5, Zenon
<1>10. ASSUME NEW a \in Flags(t, s)
       PROVE  a \in DOMAIN e.bypassed /\ e.bypassed[a] = s.value
  <2>1. ~Touches(c, "flag", a)
    <3> SUFFICES ASSUME Touches(c, "flag", a) PROVE FALSE
      OBVIOUS
    <3>1. PICK u \in AskedBy(line, at) : a \in Flags(t, u)
      BY <1>8 DEF AllFlags
    <3>2. Meet(t, s, u)
      BY <1>10, <3>1 DEF Meet
    <3> QED BY <1>4, <3>2
  <2>2. a \in DOMAIN d.bypassed /\ d.bypassed[a] = s.value
    BY <1>10 DEF Holds
  <2>3. Has(d, "flag", a, s.value)
    BY <2>2 DEF Has
  <2>4. Has(e, "flag", a, s.value)
    BY <1>7, <2>1, <2>3, Zenon DEF Sets
  <2> QED BY <2>4 DEF Has
<1>11. ASSUME s.what = "taps", NEW f \in Firs(t, s)
       PROVE  Loaded(e, f.index, s.value)
  <2>1. ~IsLoad(c, f.index)
    <3> SUFFICES ASSUME IsLoad(c, f.index) PROVE FALSE
      OBVIOUS
    <3>1. Here[Passed + 1].op \in {"FirLoadStart", "FirLoadData"}
          /\ Here[Passed + 1].index = f.index
      BY <1>5 DEF IsLoad
    <3>2. Passed + 1 \in DOMAIN Here
      BY <1>5 DEF IsSequence
    <3>3. PICK u \in AskedOf(t, Lines[line]) :
            u.what = "taps" /\ \E g \in Firs(t, u) : g.index = f.index
      BY <1>5, <3>1, <3>2 DEF PlanDoes
    <3>4. u \in AskedBy(line, at)
      BY DEF AskedBy
    <3>5. Meet(t, s, u)
      BY <1>11, <3>3 DEF Meet
    <3> QED BY <1>4, <3>4, <3>5
  <2>2. Loaded(d, f.index, s.value)
    BY <1>11 DEF Holds, Loaded
  <2> QED BY <1>7, <2>1, <2>2, Zenon DEF Loads
<1>12. Holds(t, e, s)
  BY <1>9, <1>10, <1>11 DEF Holds, Loaded
<1> QED BY <1>12

(* A line that has come to its end on a device has done all that it asks.  *)
LEMMA NewlyDone ==
    ASSUME Sound, PlanInv, Running, todo = <<>>, NEW s \in AskedBy(line, at)
    PROVE  Possible(Table(at), s) /\ Holds(Table(at), dsp[at], s)
<1>1. Taking(Here, Table(at), dsp[at], todo, Passed)
  BY DEF PlanInv, Along
<1>2. Passed = Len(Here)
  BY <1>1, RemainsEnd DEF Taking
<1>3. IsSequence(Here) /\ PlanDoes(Table(at), Here, Lines[line])
  BY PlanSound DEF Here, Places, PlanInv, FitInv
<1>4. ~Stopped(Table(at), Here, Len(Here))
  BY <1>1, <1>2 DEF Taking, Stopped
<1>5. s \in AskedOf(Table(at), Lines[line])
  BY DEF AskedBy
<1>6. Does(Table(at), Here, s)
  BY <1>3, <1>4, <1>5 DEF PlanDoes
<1> QED BY <1>1, <1>2, <1>3, <1>6, DoesHolds DEF Taking

LEMMA DoneStep ==
    ASSUME Sound, PlanInv, OkMeansDone, [Next]_vars
    PROVE  OkMeansDone'
<1>1. /\ FitInv /\ ReturnedInv /\ Along /\ SwitchInv
      /\ Fitting(todo, line, at) /\ Places /\ MemoryInv
  BY DEF PlanInv, FitInv
<1>2. /\ Len(Infos) \in Nat \ {0} /\ DOMAIN Infos = 1 .. Len(Infos)
      /\ Len(Lines) \in Nat \ {0} /\ DOMAIN Lines = 1 .. Len(Lines)
      /\ line \in DOMAIN Lines /\ at \in DOMAIN Infos
  BY <1>1, JobFacts DEF Places
<1>3. UNCHANGED <<job, tables>> /\
      \/ Leaving
      \/ /\ UNCHANGED <<line, at, results>>
         /\ \/ dsp' = dsp
            \/ Sending /\ dsp' = Taken
            \/ \E k \in DOMAIN Infos : Switch(k)
  BY <1>1, EveryStepFiner
     DEF Leaving, Return, Answered, Skipping, Again, Panicking, Still, Switch
<1>4. /\ Infos' = Infos /\ Lines' = Lines
      /\ \A i : Table(i)' = Table(i)
      /\ \A l, i : AskedBy(l, i)' = AskedBy(l, i)
  BY <1>3, SameJob
<1>5. \A l \in DOMAIN Lines, i \in DOMAIN Infos :
            Begun(l, i) => Begun(l, i)'
  <2>1. CASE Leaving
    BY <1>1, <2>1, TurnBegun DEF Leaving
  <2>2. CASE UNCHANGED <<line, at>>
    BY <2>2 DEF Begun
  <2> QED BY <1>3, <2>1, <2>2
<1> SUFFICES ASSUME NEW i \in DOMAIN Infos, NEW l \in DOMAIN Lines,
                    Completed(l, i)', NEW s \in AskedBy(l, i)
             PROVE  /\ Possible(Table(i), s)
                    /\ Holds(Table(i), dsp'[i], s) \/ Overruled(s, l, i)'
  BY <1>4 DEF OkMeansDone
<1>6. Overruled(s, l, i) => Overruled(s, l, i)'
  <2> SUFFICES ASSUME Overruled(s, l, i) PROVE Overruled(s, l, i)'
    OBVIOUS
  <2> PICK k \in l + 1 .. Len(Lines) :
            Begun(k, i) /\
            (\/ IsPreset(Lines[k])
             \/ \E t \in AskedBy(k, i) :
                    t.ch = s.ch /\ t.what = s.what /\ t.n = s.n)
    BY DEF Overruled
  <2>1. k \in DOMAIN Lines
    BY <1>2
  <2>2. Begun(k, i)'
    BY <1>5, <2>1
  <2> QED BY <1>4, <2>2 DEF Overruled
<1>7. CASE Completed(l, i)
  <2>1. Possible(Table(i), s)
        /\ (Holds(Table(i), dsp[i], s) \/ Overruled(s, l, i))
    BY <1>7 DEF OkMeansDone
  <2>2. CASE dsp'[i] = dsp[i]
    BY <1>6, <2>1, <2>2
  <2>3. CASE Sending /\ dsp' = Taken /\ i = at
    <3>1. Running
      BY <2>3 DEF Sending
    <3>2. l < line
      <4>1. i \notin DOMAIN results
        BY <1>1, <1>2, <2>3, <3>1, NotFailedYet
      <4> QED BY <1>7, <4>1 DEF Completed
    <3> PICK e : e = Received(dsp[at], Infos[at], Outgoing)
      OBVIOUS
    <3>3. dsp'[i] = e
      BY <1>1, <1>2, <2>3 DEF Taken, MemoryInv
    <3>4. CASE Overruled(s, l, i)
      BY <1>6, <2>1, <3>4
    <3>5. CASE ~Overruled(s, l, i)
      <4>1. Holds(Table(at), e, s)
        BY <2>1, <2>3, <3>2, <3>5, StillHolds
      <4> QED BY <2>1, <2>3, <3>3, <4>1
    <3> QED BY <3>4, <3>5
  <2>4. CASE Switch(i)
    <3>1. /\ \E p \in PresetsOf(Lines[line]) : dsp[i].next = Some(p)
          /\ ~(Running /\ i = at) => Failed(i)
      BY <1>1, <2>4, Switches
    <3>2. IsPreset(Lines[line])
      BY <3>1, PresetLine
    <3>3. i <= at
      <4>1. CASE Running /\ i = at
        BY <1>2, <4>1
      <4>2. CASE Failed(i)
        BY <1>1, <4>2 DEF Failed, SwitchInv
      <4> QED BY <3>1, <4>1, <4>2
    <3>4. l < line
      <4>1. ~(i \in DOMAIN results /\ results[i] = "ok")
        <5>1. CASE Running /\ i = at
          BY <1>1, <1>2, <5>1, NotFailedYet
        <5>2. CASE Failed(i)
          BY <5>2 DEF Failed
        <5> QED BY <3>1, <5>1, <5>2
      <4> QED BY <1>7, <4>1 DEF Completed
    <3>5. Overruled(s, l, i)
      BY <1>1, <3>2, <3>3, <3>4, OverruledHere
    <3> QED BY <1>6, <2>1, <3>5
  <2>5. \/ dsp'[i] = dsp[i]
        \/ Sending /\ dsp' = Taken /\ i = at
        \/ Switch(i)
    <3>1. CASE dsp' = dsp
      BY <3>1
    <3>2. CASE Sending /\ dsp' = Taken
      BY <1>1, <3>2 DEF Taken, MemoryInv
    <3>3. CASE \E k \in DOMAIN Infos : Switch(k)
      BY <1>1, <3>3 DEF Switch, MemoryInv
    <3> QED BY <1>3, <3>1, <3>2, <3>3 DEF Leaving
  <2> QED BY <2>2, <2>3, <2>4, <2>5
<1>8. CASE ~Completed(l, i)
  <2>1. Leaving
    BY <1>3, <1>8 DEF Completed
  <2> PICK r : /\ Return(r) /\ r \in {"ok", "NoAnswer"} \cup Refusals
               /\ r = "ok" => todo = <<>> /\ dsp' = dsp
    BY <2>1 DEF Leaving
  <2>2. Running
    BY <2>1 DEF Leaving
  <2>3. DOMAIN results = 1 .. at - 1
    BY <1>1, <2>2, NotFailedYet
  <2> PICK all : all = Append(results, r)
    OBVIOUS
  <2>4. /\ DOMAIN all = 1 .. at /\ all[at] = r
        /\ \A k \in 1 .. at - 1 : all[k] = results[k]
    <3>1. PICK S : results \in Seq(S)
      BY <1>1 DEF ReturnedInv
    <3>2. Len(results) = at - 1
      BY <1>1, <2>2, NotFailedYet
    <3> QED BY <1>2, <3>1, <3>2
  <2>5. l = line /\ i = at /\ r = "ok"
    <3>1. \/ line' = line /\ results' = all
          \/ /\ at = Len(Infos) /\ line' = line + 1 /\ results' = <<>>
             /\ r = "ok" /\ \A k \in DOMAIN results : results[k] = "ok"
      BY <1>1, <2>2, Turned
    <3>2. CASE line' = line /\ results' = all
      <4>1. l = line /\ i \in DOMAIN all /\ all[i] = "ok"
        BY <1>2, <1>8, <3>2 DEF Completed
      <4>2. i \notin 1 .. at - 1
        BY <1>8, <2>3, <2>4, <4>1 DEF Completed
      <4>3. i = at
        BY <1>2, <2>4, <4>1, <4>2
      <4> QED BY <2>4, <4>1, <4>3
    <3>3. CASE /\ at = Len(Infos) /\ line' = line + 1 /\ results' = <<>>
               /\ r = "ok" /\ \A k \in DOMAIN results : results[k] = "ok"
      <4>1. DOMAIN <<>> = {}
        OBVIOUS
      <4>2. l < line + 1
        BY <3>3, <4>1 DEF Completed
      <4>3. l = line
        BY <1>2, <1>8, <4>2 DEF Completed
      <4>4. i \notin DOMAIN results
        BY <1>8, <3>3, <4>3 DEF Completed
      <4>5. i = at
        BY <1>2, <2>3, <3>3, <4>4
      <4> QED BY <3>3, <4>3, <4>5
    <3> QED BY <3>1, <3>2, <3>3
  <2>6. Possible(Table(at), s) /\ Holds(Table(at), dsp[at], s)
    BY <2>2, <2>5, NewlyDone
  <2> QED BY <2>5, <2>6
<1> QED BY <1>7, <1>8

(* A line that returned "ok" on a device did all it asks for there, and    *)
(* nothing undoes it but a later line that sets the same, or switches to   *)
(* another preset: whatever was lost on the way, and whenever a device     *)
(* that switches late does so.                                             *)
THEOREM DoneTheorem ==
    ASSUME \A j \in Jobs : Fits(j) /\ PlansDo(j)
    PROVE  Spec => []OkMeansDone
<1>0. Sound
  BY DEF Sound
<1>1. Init => PlanInv /\ OkMeansDone
  <2> SUFFICES ASSUME Init PROVE PlanInv /\ OkMeansDone
    OBVIOUS
  <2>1. PlanInv
    BY <1>0, PlanInit
  <2>2. Places /\ line = 1 /\ results = <<>>
    BY <2>1 DEF PlanInv, FitInv, Init
  <2>3. \A l \in DOMAIN Lines : l >= 1
    BY <2>2, JobFacts DEF Places
  <2>4. DOMAIN <<>> = {}
    OBVIOUS
  <2>5. \A i \in DOMAIN Infos : \A l \in DOMAIN Lines : ~Completed(l, i)
    BY <2>2, <2>3, <2>4 DEF Completed
  <2> QED BY <2>1, <2>5 DEF OkMeansDone
<1>2. PlanInv /\ OkMeansDone /\ [Next]_vars => (PlanInv /\ OkMeansDone)'
  BY <1>0, PlanStep, DoneStep
<1> QED BY <1>1, <1>2, PTL DEF Spec

-----------------------------------------------------------------------------
(* The order of a configuration *)

(* What has been written is what the first n steps touch.                  *)
OnlyTouched(p, d, n) ==
    /\ \A a \in DOMAIN d.words : \E k \in 1 .. n : Touches(p[k], "word", a)
    /\ \A a \in DOMAIN d.bypassed : \E k \in 1 .. n : Touches(p[k], "flag", a)
Empty(d) == DOMAIN d.words = {} /\ DOMAIN d.bypassed = {}

(* A plan that has begun with a preset has set it, or the device waits.    *)
PresetSet(p, d, n) ==
    n > 0 /\ p # <<>> /\ p[1].op = "SetConfig" /\ d.next = None =>
        d.master.preset = p[1].config

FreshInv ==
    Running =>
        /\ PresetSet(Here, dsp[at], Passed)
        /\ line = 1 =>
            /\ OnlyTouched(Here, dsp[at], Passed)
            /\ \A i \in DOMAIN Infos : i > at => Empty(dsp[i])

Orderly == \A j \in Jobs : AppliesInOrder(j)

LEMMA FinalHas ==
    ASSUME NEW d, NEW p, NEW n, n \in Nat, n <= Len(p), Len(p) \in Nat,
           Replayed(d, p, n), NEW m \in 0 .. n,
           NEW kind, NEW a, NEW v \in Final(p, m, kind, a)
    PROVE  Has(d, kind, a, v)
<1>1. PICK k \in 1 .. m : /\ v = Leaves(p[k], a) /\ Settled(p, k, kind, a)
  BY DEF Final
<1>2. k \in 1 .. n /\ k + 1 .. n \subseteq k + 1 .. Len(p)
  OBVIOUS
<1> QED BY <1>1, <1>2 DEF Settled, Replayed

LEMMA FirstOfHits ==
    ASSUME NEW p, NEW n \in Nat, NEW words, NEW flags,
           NEW k \in 1 .. n, Hits(p[k], words, flags)
    PROVE  \E m \in 1 .. n : FirstHit(p, m, words, flags)
<1> DEFINE I == {m \in 1 .. n : Hits(p[m], words, flags)}
<1>1. I \in SUBSET Nat /\ I # {}
  OBVIOUS
<1>2. PICK m \in I : \A x \in I : m <= x
  <2> HIDE DEF I
  <2> QED BY <1>1, LeastElement
<1>3. m \in 1 .. n /\ Hits(p[m], words, flags)
  OBVIOUS
<1>4. ASSUME NEW x \in 1 .. m - 1 PROVE ~Hits(p[x], words, flags)
  <2>1. x \in 1 .. n /\ ~(m <= x)
    BY <1>3
  <2> QED BY <1>2, <2>1
<1> QED BY <1>3, <1>4 DEF FirstHit

LEMMA TouchHits ==
    ASSUME NEW c, NEW words, NEW flags
    PROVE  /\ \A a \in words : Touches(c, "word", a) => Hits(c, words, flags)
           /\ \A a \in flags : Touches(c, "flag", a) => Hits(c, words, flags)
  BY DEF Touches, Hits

(* Of a device that nothing was written on but by the first n steps.       *)
LEMMA WrittenHits ==
    ASSUME NEW t, NEW p, NEW n \in Nat, NEW d, OnlyTouched(p, d, n),
           NEW settings, NEW s \in settings, Written(t, d, s)
    PROVE  \E k \in 1 .. n :
                FirstHit(p, k, AllWords(t, settings), AllFlags(t, settings))
<1> PICK words : words = AllWords(t, settings)
  OBVIOUS
<1> PICK flags : flags = AllFlags(t, settings)
  OBVIOUS
<1>1. Words(t, s) \subseteq words /\ Flags(t, s) \subseteq flags
  BY DEF AllWords, AllFlags
<1>2. \E k \in 1 .. n : Hits(p[k], words, flags)
  <2>1. CASE Words(t, s) \cap DOMAIN d.words # {}
    <3> PICK a \in Words(t, s) : a \in DOMAIN d.words
      BY <2>1
    <3> PICK k \in 1 .. n : Touches(p[k], "word", a)
      BY DEF OnlyTouched
    <3> QED BY <1>1, TouchHits
  <2>2. CASE Flags(t, s) \cap DOMAIN d.bypassed # {}
    <3> PICK a \in Flags(t, s) : a \in DOMAIN d.bypassed
      BY <2>2
    <3> PICK k \in 1 .. n : Touches(p[k], "flag", a)
      BY DEF OnlyTouched
    <3> QED BY <1>1, TouchHits
  <2> QED BY <2>1, <2>2 DEF Written
<1>3. \E k \in 1 .. n : FirstHit(p, k, words, flags)
  BY <1>2, FirstOfHits
<1> QED BY <1>3

LEMMA DoneByHolds ==
    ASSUME NEW t, NEW d, NEW p, NEW n \in Nat, n <= Len(p), Len(p) \in Nat,
           Replayed(d, p, n), NEW m \in 0 .. n,
           NEW s, DoneBy(t, p, m, s), s.what # "taps"
    PROVE  Holds(t, d, s)
<1>1. ASSUME NEW a \in Words(t, s)
      PROVE  a \in DOMAIN d.words /\ Says(t, s, a, d.words[a])
  <2> PICK v \in Final(p, m, "word", a) : Says(t, s, a, v)
    BY <1>1, Zenon DEF DoneBy
  <2>1. Has(d, "word", a, v)
    BY FinalHas
  <2> QED BY <2>1 DEF Has
<1>2. ASSUME NEW a \in Flags(t, s)
      PROVE  a \in DOMAIN d.bypassed /\ d.bypassed[a] = s.value
  <2>1. s.value \in Final(p, m, "flag", a)
    BY <1>2, Zenon DEF DoneBy
  <2>2. Has(d, "flag", a, s.value)
    BY <2>1, FinalHas
  <2> QED BY <2>2 DEF Has
<1> QED BY <1>1, <1>2 DEF Holds

(* The master status that a configuration asks for, but for the mute.      *)
LEMMA MasterByThen ==
    ASSUME NEW info, NEW d, IsMaster(d.master), NEW p, NEW n \in Nat,
           n <= Len(p), Len(p) \in Nat, Replayed(d, p, n), NEW m \in 0 .. n,
           NEW s, MasterBy(info, p, m, s),
           n >= 3 /\ p[1].op = "SetConfig" => d.master.preset = p[1].config
    PROVE  LET now == Named(d.master, info)
               then == AfterMaster(now, s)
           IN  [now EXCEPT !.mute = then.mute] = then
<1> PICK x : x = d.master
  OBVIOUS
<1> PICK now : now = [x EXCEPT !.source = from_id(info, @)]
  OBVIOUS
<1> PICK then : then = AfterMaster(now, s)
  OBVIOUS
<1>1. /\ now = [k \in DOMAIN now |-> now[k]]
      /\ DOMAIN now = {"preset", "source", "volume", "mute", "dirac"}
      /\ now.preset = x.preset /\ now.source = from_id(info, x.source)
      /\ now.volume = x.volume /\ now.dirac = x.dirac
  BY DEF IsMaster
<1>2. \A o : o # None => The(o) \in o
  BY DEF None, The
<1>3. s.preset # None => x.preset = The(s.preset)
  <2>1. ASSUME s.preset # None PROVE x.preset = The(s.preset)
    <3>1. The(s.preset) \in s.preset
      BY <1>2, <2>1
    <3>2. m >= 3 /\ p[1].op = "SetConfig" /\ p[1].config = The(s.preset)
      BY <3>1 DEF MasterBy
    <3> QED BY <3>2
  <2> QED BY <2>1
<1>4. s.source # None => from_id(info, x.source) = The(s.source)
  <2>1. ASSUME s.source # None PROVE from_id(info, x.source) = The(s.source)
    <3>1. The(s.source) \in s.source
      BY <1>2, <2>1
    <3>2. PICK v \in Final(p, m, "source", 0) :
            from_id(info, v) = The(s.source)
      BY <3>1 DEF MasterBy
    <3>3. Has(d, "source", 0, v)
      BY FinalHas
    <3> QED BY <3>2, <3>3 DEF Has
  <2> QED BY <2>1
<1>5. s.volume # None => x.volume = Attenuated(The(s.volume))
  <2>1. ASSUME s.volume # None PROVE x.volume = Attenuated(The(s.volume))
    <3>1. The(s.volume) \in s.volume
      BY <1>2, <2>1
    <3> PICK v : v = Attenuated(The(s.volume))
      OBVIOUS
    <3>2. v \in Final(p, m, "volume", 0)
      BY <3>1 DEF MasterBy
    <3>3. Has(d, "volume", 0, v)
      BY <3>2, FinalHas
    <3> QED BY <3>3 DEF Has
  <2> QED BY <2>1
<1>6. s.dirac # None => x.dirac = The(s.dirac)
  <2>1. ASSUME s.dirac # None PROVE x.dirac = The(s.dirac)
    <3> PICK b : b = The(s.dirac)
      OBVIOUS
    <3>1. b \in s.dirac
      BY <1>2, <2>1
    <3>2. b \in Final(p, m, "dirac", 0)
      BY <3>1 DEF MasterBy
    <3>3. Has(d, "dirac", 0, b)
      BY <3>2, FinalHas
    <3> QED BY <3>3 DEF Has
  <2> QED BY <2>1
<1> PICK b : b = IF s.mute = None THEN now.mute ELSE The(s.mute)
  OBVIOUS
<1>7. then = [preset |-> now.preset, source |-> now.source,
              volume |-> now.volume, mute |-> b, dirac |-> now.dirac]
  BY <1>1, <1>3, <1>4, <1>5, <1>6, Zenon DEF AfterMaster
<1>8. [now EXCEPT !.mute = then.mute] = then
  <2>1. then.mute = b
    BY <1>7
  <2> PICK f : f = [now EXCEPT !.mute = b]
    OBVIOUS
  <2>2. /\ f = [k \in DOMAIN f |-> f[k]] /\ DOMAIN f = DOMAIN now
        /\ f.preset = now.preset /\ f.source = now.source
        /\ f.volume = now.volume /\ f.mute = b /\ f.dirac = now.dirac
    BY <1>1
  <2>3. /\ then = [k \in DOMAIN then |-> then[k]]
        /\ DOMAIN then = {"preset", "source", "volume", "mute", "dirac"}
        /\ then.preset = now.preset /\ then.source = now.source
        /\ then.volume = now.volume /\ then.dirac = now.dirac
    BY <1>7
  <2>4. DOMAIN f = DOMAIN then /\ \A k \in DOMAIN f : f[k] = then[k]
    BY <1>1, <2>1, <2>2, <2>3
  <2>5. f = then
    BY <2>2, <2>3, <2>4, Zenon
  <2> QED BY <2>1, <2>5
<1> QED BY <1>8, Zenon DEF Named

(* What the configuration's order asks of a device, wherever it got to.    *)
Applied(d, info, config, dev) ==
    LET outs == AskedOfOutputs(config)
        ins == AskedOfInputs(config)
    IN
    /\ (\E s \in outs : Written(d, dev, s)) => \A s \in ins : Holds(d, dev, s)
    /\ (\E s \in outs \cup ins : Written(d, dev, s)) =>
            \A m \in config.master_status :
                LET now == Named(dev.master, info)
                    then == AfterMaster(now, m)
                IN  [now EXCEPT !.mute = then.mute] = then
AppliedInv ==
    Lines[line].cmd = "apply" => \A i \in DOMAIN Infos :
        Applied(Table(i), Infos[i], Lines[line].config, dsp[i])

LEMMA EmptyApplied ==
    ASSUME NEW d, NEW info, NEW config, NEW dev, Empty(dev)
    PROVE  Applied(d, info, config, dev)
<1>1. \A s : ~Written(d, dev, s)
  BY DEF Empty, Written
<1> QED BY <1>1 DEF Applied

LEMMA OrderApplied ==
    ASSUME NEW d, NEW info, NEW p, NEW config, Ordered(d, info, p, config),
           IsSequence(p), NEW n \in Nat, n <= Len(p),
           \A k \in 1 .. n : ~StopsAt(d, p[k]),
           NEW dev, IsMaster(dev.master), Replayed(dev, p, n),
           OnlyTouched(p, dev, n),
           n >= 3 /\ p[1].op = "SetConfig" => dev.master.preset = p[1].config
    PROVE  Applied(d, info, config, dev)
<1> PICK outs : outs = AskedOfOutputs(config)
  OBVIOUS
<1> PICK ins : ins = AskedOfInputs(config)
  OBVIOUS
<1>1. Len(p) \in Nat /\ DOMAIN p = 1 .. Len(p)
  BY DEF IsSequence
<1>2. ASSUME NEW k \in 1 .. n
      PROVE  k \in DOMAIN p /\ k - 1 \in 0 .. n /\ ~Stopped(d, p, k - 1)
  BY <1>1, <1>2 DEF Stopped
<1>3. /\ \A s \in ins : s.what # "taps"
      /\ \A k \in DOMAIN p :
            /\ FirstHit(p, k, AllWords(d, outs), AllFlags(d, outs)) =>
                \/ Stopped(d, p, k - 1)
                \/ \A s \in ins : DoneBy(d, p, k - 1, s)
            /\ FirstHit(p, k, AllWords(d, outs) \cup AllWords(d, ins),
                        AllFlags(d, outs) \cup AllFlags(d, ins)) =>
                \/ Stopped(d, p, k - 1)
                \/ \A s \in config.master_status :
                        MasterBy(info, p, k - 1, s)
  BY Zenon DEF Ordered
<1>4. ASSUME NEW s \in outs, Written(d, dev, s), NEW u \in ins
      PROVE  Holds(d, dev, u)
  <2> PICK k \in 1 .. n :
            FirstHit(p, k, AllWords(d, outs), AllFlags(d, outs))
    BY <1>4, WrittenHits
  <2>1. DoneBy(d, p, k - 1, u) /\ u.what # "taps" /\ k - 1 \in 0 .. n
    BY <1>2, <1>3
  <2> QED BY <1>1, <2>1, DoneByHolds
<1>5. ASSUME NEW s \in outs \cup ins, Written(d, dev, s),
             NEW m \in config.master_status
      PROVE  LET now == Named(dev.master, info)
                 then == AfterMaster(now, m)
             IN  [now EXCEPT !.mute = then.mute] = then
  <2>1. /\ AllWords(d, outs \cup ins) =
            AllWords(d, outs) \cup AllWords(d, ins)
        /\ AllFlags(d, outs \cup ins) =
            AllFlags(d, outs) \cup AllFlags(d, ins)
    BY DEF AllWords, AllFlags
  <2> PICK k \in 1 .. n :
            FirstHit(p, k, AllWords(d, outs \cup ins),
                     AllFlags(d, outs \cup ins))
    BY <1>5, WrittenHits
  <2>2. MasterBy(info, p, k - 1, m) /\ k - 1 \in 0 .. n
    BY <1>2, <1>3, <2>1
  <2> QED BY <1>1, <2>2, MasterByThen
<1> QED BY <1>4, <1>5 DEF Applied

LEMMA MoreTouched ==
    ASSUME NEW p, NEW d, NEW n \in Nat, OnlyTouched(p, d, n),
           NEW c, c = p[n + 1], NEW e, Sets(d, c, e)
    PROVE  OnlyTouched(p, e, n + 1)
<1>1. n + 1 \in 1 .. n + 1 /\ \A k \in 1 .. n : k \in 1 .. n + 1
  OBVIOUS
<1>2. ASSUME NEW a \in DOMAIN e.words
      PROVE  \E k \in 1 .. n + 1 : Touches(p[k], "word", a)
  <2>1. CASE Touches(c, "word", a)
    BY <1>1, <2>1
  <2>2. CASE ~Touches(c, "word", a)
    <3>1. Has(e, "word", a, e.words[a])
      BY <1>2 DEF Has
    <3>2. Has(d, "word", a, e.words[a])
      BY <2>2, <3>1, Zenon DEF Sets
    <3>3. a \in DOMAIN d.words
      BY <3>2 DEF Has
    <3> QED BY <1>1, <3>3 DEF OnlyTouched
  <2> QED BY <2>1, <2>2
<1>3. ASSUME NEW a \in DOMAIN e.bypassed
      PROVE  \E k \in 1 .. n + 1 : Touches(p[k], "flag", a)
  <2>1. CASE Touches(c, "flag", a)
    BY <1>1, <2>1
  <2>2. CASE ~Touches(c, "flag", a)
    <3>1. Has(e, "flag", a, e.bypassed[a])
      BY <1>3 DEF Has
    <3>2. Has(d, "flag", a, e.bypassed[a])
      BY <2>2, <3>1, Zenon DEF Sets
    <3>3. a \in DOMAIN d.bypassed
      BY <3>2 DEF Has
    <3> QED BY <1>1, <3>3 DEF OnlyTouched
  <2> QED BY <2>1, <2>2
<1> QED BY <1>2, <1>3 DEF OnlyTouched

LEMMA EmptyTouched ==
    ASSUME NEW d
    PROVE  /\ \A p, n : Empty(d) => OnlyTouched(p, d, n)
           /\ \A p : OnlyTouched(p, d, 0) => Empty(d)
<1>1. 1 .. 0 = {}
  OBVIOUS
<1> QED BY <1>1 DEF OnlyTouched, Empty

LEMMA BlankIs ==
    ASSUME NEW m
    PROVE  /\ Blank(m).master = m /\ Blank(m).next = None
           /\ Empty(Blank(m))
<1>1. DOMAIN <<>> = {}
  OBVIOUS
<1>2. Blank(m).words = <<>> /\ Blank(m).bypassed = <<>>
  BY DEF Blank
<1> QED BY <1>1, <1>2 DEF Blank, Empty

(* A device that switches begins with an empty preset, the one it is told. *)
LEMMA SwitchedIs ==
    ASSUME NEW x, "preset" \in DOMAIN x.master, NEW p, x.next = Some(p),
           NEW e, e = Switched(x)
    PROVE  Empty(e) /\ e.master.preset = p /\ e.next = None
<1> PICK m : m = [x.master EXCEPT !.preset = The(x.next)]
  OBVIOUS
<1>1. The(x.next) = p
  BY DEF The, Some
<1>2. m.preset = p
  BY <1>1
<1>3. e = Blank(m)
  BY Zenon DEF Switched
<1> QED BY <1>2, <1>3, BlankIs

(* The device that is being served, after what it is sent.                 *)
LEMMA Served ==
    ASSUME Sound, PlanInv, FreshInv, Sending,
           NEW e, e = Received(dsp[at], Infos[at], Outgoing)
    PROVE  /\ Taking(Here, Table(at), e, Tail(todo), Passed + 1)
           /\ Passed \in Nat /\ Passed + 1 <= Len(Here)
           /\ PresetSet(Here, e, Passed + 1)
           /\ Passed + 1 >= 3 /\ Here[1].op = "SetConfig" =>
                e.master.preset = Here[1].config
           /\ line = 1 => OnlyTouched(Here, e, Passed + 1)
<1>1. /\ FitInv /\ ReturnedInv /\ Places /\ MemoryInv
      /\ Fitting(todo, line, at) /\ Along /\ SwitchInv /\ SwitchOf(at)
      /\ Running /\ todo # <<>> /\ at \in DOMAIN Infos
  BY DEF PlanInv, FitInv, SwitchInv, Sending, Places
<1> PICK c : c = Head(todo)
  OBVIOUS
<1> PICK p : p = Here
  OBVIOUS
<1> PICK n : n = Passed
  OBVIOUS
<1> PICK d : d = dsp[at]
  OBVIOUS
<1>2. /\ n \in Nat /\ n + 1 \in 1 .. Len(p) /\ c = p[n + 1]
      /\ IsSequence(p) /\ p # <<>>
      /\ c.op = "SetConfig" => n = 0
  BY <1>1, HeadStep
<1>3. Taking(p, Table(at), d, todo, n)
  BY <1>1 DEF Along
<1>4. /\ PresetSet(p, d, n)
      /\ line = 1 => OnlyTouched(p, d, n)
  BY <1>1 DEF FreshInv
<1>5. n + 1 <= Len(p) /\ n + 1 > 0
  BY <1>2
<1>6. c.op \in Sent /\ ~StopsAt(Table(at), c)
  BY DEF Sending, Sent, StopsAt
<1>7. CASE c.op # "SetConfig"
  <2>1. d.next = None \/ SwitchesLate(Infos[at])
    BY <1>1 DEF SwitchOf
  <2>2. /\ Sets(d, c, e) /\ Loads(d, c, e)
        /\ e.next = d.next /\ e.master.preset = d.master.preset
    BY <1>1, <1>7, <2>1, TakenSteps
  <2>3. Taking(p, Table(at), e, Tail(todo), n + 1)
    BY <1>1, <1>3, <1>6, <2>2, TakingMore
  <2>4. line = 1 => OnlyTouched(p, e, n + 1)
    BY <1>2, <1>4, <2>2, MoreTouched
  <2>5. n = 0 => p[1].op # "SetConfig"
    BY <1>2, <1>7
  <2>6. PresetSet(p, e, n + 1)
    BY <1>2, <1>4, <2>2, <2>5 DEF PresetSet
  <2>7. n + 1 >= 3 => e.next = None
    <3> SUFFICES ASSUME n + 1 >= 3, e.next # None PROVE FALSE
      OBVIOUS
    <3>1. /\ n \in {1, 2}
          /\ n = 2 => c.op = "AwaitPreset"
      BY <1>1, <2>2, StillWaiting
    <3>2. n = 2
      BY <1>2, <3>1
    <3> QED BY <1>6, <3>1, <3>2 DEF Sent
  <2> QED BY <1>2, <1>5, <2>3, <2>4, <2>6, <2>7 DEF PresetSet
<1>8. CASE c.op = "SetConfig"
  <2>1. n = 0 /\ p[1] = c
    BY <1>2, <1>8
  <2>2. Taking(p, Table(at), e, Tail(todo), n + 1)
    <3>1. Remains(Tail(todo), p, 1)
      BY <1>1, <1>3, <2>1, RemainsTail DEF Taking
    <3>2. Quiet(c) /\ \A k \in 1 .. 1 : k = 1
      BY <1>8 DEF Quiet
    <3>3. \A k \in 1 .. 1 : Quiet(p[k]) /\ ~StopsAt(Table(at), p[k])
      BY <1>6, <2>1, <3>2
    <3>4. Taking(p, Table(at), e, Tail(todo), 1)
      BY <3>1, <3>3, TakingQuiet
    <3> QED BY <2>1, <3>4
  <2> PICK x : x = execute(d, Outgoing)
    OBVIOUS
  <2>3. Outcome(d, c, x)
    BY <1>1, TakenOutcome
  <2>4. /\ x.next = Some(c.config) /\ x.words = d.words
        /\ x.bypassed = d.bypassed
    BY <1>8, <2>3 DEF Outcome
  <2>5. e = IF x.next # None /\ ~SwitchesLate(Infos[at]) THEN Switched(x)
            ELSE x
    BY Zenon DEF Received
  <2>6. x.next # None
    BY <2>4 DEF Some, None
  <2>7. line = 1 => Empty(d)
    BY <1>4, <2>1, EmptyTouched
  <2>8. (line = 1 => Empty(e)) /\ PresetSet(p, e, n + 1)
    <3>1. CASE SwitchesLate(Infos[at])
      <4>1. e = x
        BY <2>5, <3>1, Zenon
      <4> QED BY <2>4, <2>6, <2>7, <4>1 DEF Empty, PresetSet
    <3>2. CASE ~SwitchesLate(Infos[at])
      <4>1. e = Switched(x)
        BY <2>5, <2>6, <3>2, Zenon
      <4>2. "preset" \in DOMAIN x.master
        <5> PICK m : m = [x.master EXCEPT !.preset = The(x.next)]
          OBVIOUS
        <5>1. IsMaster(e.master)
          BY <1>1, TakenMemory DEF FitInv, Memory
        <5>2. e.master = m
          BY <4>1, BlankIs, Zenon DEF Switched
        <5>3. DOMAIN m = DOMAIN x.master
          OBVIOUS
        <5> QED BY <5>1, <5>2, <5>3 DEF IsMaster
      <4>3. Empty(e) /\ e.master.preset = c.config
        BY <2>4, <4>1, <4>2, SwitchedIs
      <4> QED BY <2>1, <4>3 DEF PresetSet
    <3> QED BY <3>1, <3>2
  <2>9. line = 1 => OnlyTouched(p, e, n + 1)
    BY <2>8, EmptyTouched
  <2> QED BY <1>2, <1>5, <2>1, <2>2, <2>8, <2>9
<1> QED BY <1>7, <1>8

LEMMA FreshNext ==
    ASSUME UNCHANGED <<job, tables, line, at>>, Here' = Here,
           NEW n, Passed' = n, PresetSet(Here, dsp'[at], n),
           line = 1 => /\ OnlyTouched(Here, dsp'[at], n)
                       /\ \A i \in DOMAIN Infos : i > at => Empty(dsp'[i])
    PROVE  FreshInv'
<1>1. Infos' = Infos
  BY SameJob
<1>2. PresetSet(Here, dsp[at], Passed)'
  BY DEF PresetSet
<1>3. line' = 1 => /\ OnlyTouched(Here, dsp[at], Passed)'
                   /\ \A i \in DOMAIN Infos' : i > at' => Empty(dsp[i])'
  BY <1>1 DEF OnlyTouched, Empty
<1> QED BY <1>2, <1>3 DEF FreshInv

LEMMA FewerTouched ==
    ASSUME NEW t, NEW p, NEW req, PlanDoes(t, p, req), IsSequence(p),
           p # <<>>, p[1].op = "SetConfig", NEW d, OnlyTouched(p, d, 2)
    PROVE  Empty(d)
<1>1. \A k \in 1 .. 2 : Quiet(p[k])
  BY SwitchingPlan
<1>2. \A k \in 1 .. 2 : \A kind, a : ~Touches(p[k], kind, a)
  BY <1>1 DEF Quiet, Touches
<1> QED BY <1>2 DEF OnlyTouched, Empty

LEMMA FreshLeaving ==
    ASSUME Sound, PlanInv, FreshInv, Leaving
    PROVE  FreshInv'
<1> PICK r : Return(r) /\ r \in {"ok", "NoAnswer"} \cup Refusals
  BY DEF Leaving
<1>1. /\ FitInv /\ ReturnedInv /\ Along /\ SwitchInv /\ Places /\ MemoryInv
      /\ Running /\ UNCHANGED <<job, tables>>
      /\ dsp' = dsp \/ (Sending /\ dsp' = Taken)
  BY DEF PlanInv, FitInv, Leaving, Return
<1>2. /\ Infos' = Infos
      /\ Len(Infos) \in Nat \ {0} /\ DOMAIN Infos = 1 .. Len(Infos)
      /\ Len(Lines) \in Nat \ {0} /\ DOMAIN Lines = 1 .. Len(Lines)
      /\ line \in DOMAIN Lines /\ at \in DOMAIN Infos
  BY <1>1, SameJob, JobFacts DEF Places
<1>3. CASE at < Len(Infos) /\ line' = line /\ at' = at + 1
           /\ todo' = Plan(line, at + 1)
  <2>1. at + 1 \in DOMAIN Infos
    BY <1>2, <1>3
  <2>2. Passed' = 0
    BY <1>1, <1>2, <1>3, <2>1, AlongReturn
  <2>3. ASSUME line = 1, NEW i \in DOMAIN Infos, i > at PROVE Empty(dsp'[i])
    <3>1. i # at
      BY <1>2, <2>3
    <3>2. dsp'[i] = dsp[i]
      BY <1>1, <2>3, <3>1 DEF Taken, MemoryInv
    <3> QED BY <1>1, <2>3, <3>2 DEF FreshInv
  <2>4. line' = 1 => \A i \in DOMAIN Infos : i >= at' => Empty(dsp'[i])
    <3>1. \A i \in DOMAIN Infos : i >= at + 1 => i > at
      BY <1>2
    <3> QED BY <1>3, <2>3, <3>1
  <2>5. line' = 1 => OnlyTouched(Here', dsp'[at'], 0)
    <3>1. at' \in DOMAIN Infos /\ at' >= at'
      BY <1>2, <1>3, <2>1
    <3> QED BY <2>4, <3>1, EmptyTouched
  <2>6. PresetSet(Here, dsp[at], Passed)'
    BY <2>2 DEF PresetSet
  <2>7. line' = 1 => OnlyTouched(Here, dsp[at], Passed)'
    BY <2>2, <2>5 DEF OnlyTouched
  <2>8. line' = 1 => \A i \in DOMAIN Infos' : i > at' => Empty(dsp[i])'
    <3>1. \A i \in DOMAIN Infos : i > at' => i >= at'
      BY <1>2, <1>3
    <3> QED BY <1>2, <2>4, <3>1 DEF Empty
  <2> QED BY <2>6, <2>7, <2>8 DEF FreshInv
<1>4. CASE line < Len(Lines) /\ line' = line + 1 /\ at' = 1
           /\ todo' = Plan(line + 1, 1)
  <2>1. line + 1 \in DOMAIN Lines /\ 1 \in DOMAIN Infos /\ line' # 1
    BY <1>2, <1>4
  <2>2. Passed' = 0
    BY <1>1, <1>4, <2>1, AlongReturn
  <2>3. PresetSet(Here, dsp[at], Passed)'
    BY <2>2 DEF PresetSet
  <2> QED BY <2>1, <2>3 DEF FreshInv
<1>5. CASE result' # "running"
  BY <1>5 DEF FreshInv, Running
<1> QED BY <1>1, <1>3, <1>4, <1>5, Turned

LEMMA FreshStep ==
    ASSUME Sound, PlanInv, FreshInv, [Next]_vars
    PROVE  FreshInv'
<1>1. /\ FitInv /\ ReturnedInv /\ Along /\ SwitchInv /\ Places /\ MemoryInv
      /\ Fitting(todo, line, at)
  BY DEF PlanInv, FitInv
<1>2. at \in DOMAIN Infos /\ at \in Nat
  BY <1>1, JobFacts DEF Places
<1>3. CASE Answered
  <2>1. /\ Sending /\ dsp' = Taken /\ Running
        /\ UNCHANGED <<job, tables, line, at>>
    BY <1>3 DEF Answered, Sending
  <2>2. Passed' = Passed + 1 /\ Here' = Here
    BY <1>1, <1>3, AlongAnswered
  <2> PICK e : e = Received(dsp[at], Infos[at], Outgoing)
    OBVIOUS
  <2>3. dsp'[at] = e
    BY <1>1, <1>2, <2>1 DEF Taken, MemoryInv
  <2>4. /\ PresetSet(Here, e, Passed + 1)
        /\ line = 1 => OnlyTouched(Here, e, Passed + 1)
    BY <2>1, Served
  <2>5. line = 1 => \A i \in DOMAIN Infos : i > at => Empty(dsp'[i])
    <3> SUFFICES ASSUME line = 1, NEW i \in DOMAIN Infos, i > at
                 PROVE  Empty(dsp'[i])
      OBVIOUS
    <3>1. i # at
      BY <1>2
    <3>2. dsp'[i] = dsp[i]
      BY <1>1, <2>1, <3>1 DEF Taken, MemoryInv
    <3> QED BY <2>1, <3>2 DEF FreshInv
  <2> QED BY <2>1, <2>2, <2>3, <2>4, <2>5, FreshNext
<1>4. CASE Skipping
  <2>1. /\ UNCHANGED <<job, tables, line, at, dsp>> /\ Running
        /\ todo # <<>> /\ Head(todo).op \notin Sent
    BY <1>4 DEF Skipping
  <2>2. Passed' = Passed + 1 /\ Here' = Here
    BY <1>1, <1>4, AlongSkipping
  <2>3. Passed \in Nat /\ Head(todo) = Here[Passed + 1]
    BY <1>1, <2>1, HeadStep
  <2>4. /\ PresetSet(Here, dsp[at], Passed)
        /\ line = 1 => /\ OnlyTouched(Here, dsp[at], Passed)
                       /\ \A i \in DOMAIN Infos : i > at => Empty(dsp[i])
    BY <2>1 DEF FreshInv
  <2>5. Passed = 0 => Here[1].op # "SetConfig"
    BY <2>1, <2>3 DEF Sent
  <2>6. PresetSet(Here, dsp[at], Passed + 1)
    BY <2>3, <2>4, <2>5 DEF PresetSet
  <2>7. line = 1 => OnlyTouched(Here, dsp[at], Passed + 1)
    <3>1. \A k \in 1 .. Passed : k \in 1 .. Passed + 1
      BY <2>3
    <3> QED BY <2>4, <3>1 DEF OnlyTouched
  <2> QED BY <2>1, <2>2, <2>4, <2>6, <2>7, FreshNext
<1>5. CASE Again
  <2>1. UNCHANGED <<job, tables, line, at, dsp>> /\ Running
    BY <1>5 DEF Again
  <2>2. /\ Passed = 2 /\ Passed' = 1 /\ Here' = Here
        /\ Here # <<>> /\ Here[1].op = "SetConfig"
    BY <1>1, <1>5, AlongAgain
  <2>3. /\ PresetSet(Here, dsp[at], 2)
        /\ line = 1 => /\ OnlyTouched(Here, dsp[at], 2)
                       /\ \A i \in DOMAIN Infos : i > at => Empty(dsp[i])
    BY <2>1, <2>2 DEF FreshInv
  <2>4. PresetSet(Here, dsp[at], 1)
    BY <2>3 DEF PresetSet
  <2>5. IsSequence(Here) /\ PlanDoes(Table(at), Here, Lines[line])
    BY <1>1, PlanSound DEF Here, Places
  <2>6. line = 1 => OnlyTouched(Here, dsp[at], 1)
    BY <2>2, <2>3, <2>5, FewerTouched, EmptyTouched
  <2> QED BY <2>1, <2>2, <2>3, <2>4, <2>6, FreshNext
<1>6. CASE \E i \in DOMAIN Infos : Switch(i)
  <2> PICK i \in DOMAIN Infos : Switch(i)
    BY <1>6
  <2>1. /\ UNCHANGED <<job, tables, line, at, result>>
        /\ dsp' = [dsp EXCEPT ![i] = Switched(@)]
    BY DEF Switch
  <2>2. Here' = Here /\ Passed' = Passed
    BY <1>1, AlongSwitch
  <2>3. CASE ~Running
    BY <2>1, <2>3 DEF FreshInv, Running
  <2>4. CASE Running
    <3>1. /\ PresetSet(Here, dsp[at], Passed)
          /\ line = 1 => /\ OnlyTouched(Here, dsp[at], Passed)
                         /\ \A k \in DOMAIN Infos : k > at => Empty(dsp[k])
      BY <2>4 DEF FreshInv
    <3>2. PICK p : dsp[i].next = Some(p)
      BY <1>1, Switches
    <3>3. "preset" \in DOMAIN dsp[i].master
      BY <1>1 DEF MemoryInv, Kept, Memory, IsMaster
    <3>4. dsp'[i] = Switched(dsp[i])
      BY <1>1, <2>1 DEF MemoryInv
    <3>5. Empty(dsp'[i]) /\ dsp'[i].master.preset = p
      BY <3>2, <3>3, <3>4, SwitchedIs
    <3>6. \A k \in DOMAIN Infos : k # i => dsp'[k] = dsp[k]
      BY <1>1, <2>1 DEF MemoryInv
    <3>7. line = 1 => \A k \in DOMAIN Infos : k > at => Empty(dsp'[k])
      BY <3>1, <3>5, <3>6
    <3>8. CASE i # at
      BY <1>2, <2>1, <2>2, <3>1, <3>6, <3>7, <3>8, FreshNext
    <3>9. CASE i = at
      <4>1. Here[1].config = p
        <5>1. dsp[at].next # None
          BY <3>9 DEF Switch
        <5>2. PICK q : dsp[at].next = Some(q) /\ Waits(Here, Passed, saved, q)
          BY <1>1, <2>4, <5>1, StillWaiting
        <5>3. q = p
          BY <3>2, <3>9, <5>2 DEF Some
        <5> QED BY <5>2, <5>3 DEF Waits
      <4>2. PresetSet(Here, dsp'[at], Passed)
        BY <3>5, <3>9, <4>1 DEF PresetSet
      <4>3. OnlyTouched(Here, dsp'[at], Passed)
        BY <3>5, <3>9, EmptyTouched
      <4> QED BY <2>1, <2>2, <3>7, <4>2, <4>3, FreshNext
    <3> QED BY <3>8, <3>9
  <2> QED BY <2>3, <2>4
<1>7. CASE Panicking
  BY <1>7 DEF Panicking, FreshInv, Running
<1>8. CASE Still
  <2>1. /\ UNCHANGED <<job, tables, line, at, todo, dsp, result>>
    BY <1>8 DEF Still
  <2>2. Here' = Here
    BY <2>1, SameJob DEF Here
  <2>3. Passed' = Passed
    BY <2>1, <2>2 DEF Passed
  <2>4. CASE Running
    <3>1. /\ PresetSet(Here, dsp[at], Passed)
          /\ line = 1 => /\ OnlyTouched(Here, dsp[at], Passed)
                         /\ \A k \in DOMAIN Infos : k > at => Empty(dsp[k])
      BY <2>4 DEF FreshInv
    <3> QED BY <2>1, <2>2, <2>3, <3>1, FreshNext
  <2>5. CASE ~Running
    BY <2>1, <2>5 DEF FreshInv, Running
  <2> QED BY <2>4, <2>5
<1> QED
  BY <1>1, <1>3, <1>4, <1>5, <1>6, <1>7, <1>8, FreshLeaving, EveryStepFiner

LEMMA OrderHere ==
    ASSUME Orderly, Places, NEW l \in DOMAIN Lines, Lines[l].cmd = "apply",
           NEW i \in DOMAIN Infos
    PROVE  /\ Len(Lines) = 1
           /\ Ordered(Table(i), Infos[i], Plan(l, i), Lines[l].config)
<1>1. AppliesInOrder(job)
  BY DEF Orderly, Places
<1>2. Len(job.lines) = 1
      /\ Ordered(table(job.devices[i]), job.devices[i],
                 run_command(table(job.devices[i]), job.devices[i],
                             job.lines[l]), job.lines[l].config)
  BY <1>1, Zenon DEF AppliesInOrder, Lines, Infos
<1>3. Table(i) = table(job.devices[i])
  BY DEF Places, Table, Infos
<1> QED BY <1>2, <1>3 DEF Lines, Infos, Plan

LEMMA AppliedInit ==
    ASSUME Sound, Init
    PROVE  PlanInv /\ FreshInv /\ AppliedInv
<1>1. PlanInv
  BY PlanInit
<1>2. /\ line = 1 /\ at = 1 /\ todo = Plan(1, 1)
      /\ dsp = [i \in DOMAIN Infos |-> Blank(NewMaster)]
  BY DEF Init
<1>3. \A i \in DOMAIN Infos : Empty(dsp[i])
  BY <1>2, BlankIs
<1>4. at \in DOMAIN Infos
  BY <1>1 DEF PlanInv, FitInv, Places
<1>5. Here = todo
  BY <1>2 DEF Here
<1>6. IsSequence(Here)
  BY <1>1, PlanSound DEF Here, PlanInv, FitInv, Places
<1>7. Passed = 0
  BY <1>5, <1>6 DEF Passed, IsSequence
<1>8. FreshInv
  BY <1>3, <1>4, <1>7, EmptyTouched DEF FreshInv, PresetSet
<1>9. AppliedInv
  BY <1>3, EmptyApplied DEF AppliedInv
<1> QED BY <1>1, <1>8, <1>9

LEMMA AppliedStep ==
    ASSUME Sound, Orderly, PlanInv, FreshInv, AppliedInv, [Next]_vars
    PROVE  AppliedInv'
<1>1. /\ FitInv /\ ReturnedInv /\ Along /\ SwitchInv
      /\ Fitting(todo, line, at) /\ Places /\ MemoryInv
  BY DEF PlanInv, FitInv
<1>2. PlanInv' /\ Places' /\ MemoryInv'
  BY PlanStep DEF PlanInv, FitInv
<1>3. UNCHANGED <<job, tables>> /\
      \/ dsp' = dsp
      \/ Sending /\ dsp' = Taken
      \/ \E k \in DOMAIN Infos : Switch(k)
  BY <1>1, EveryStepFiner
     DEF Leaving, Return, Answered, Skipping, Again, Panicking, Still, Switch
<1>4. Infos' = Infos /\ Lines' = Lines /\ \A i : Table(i)' = Table(i)
  BY <1>3, SameJob
<1> SUFFICES ASSUME Lines[line'].cmd = "apply", NEW i \in DOMAIN Infos
             PROVE  Applied(Table(i), Infos[i], Lines[line'].config, dsp'[i])
  <2>1. \A i \in DOMAIN Infos :
            Applied(Table(i), Infos[i], Lines[line].config, dsp[i])'
                = Applied(Table(i)', Infos'[i], Lines'[line'].config, dsp'[i])
    OBVIOUS
  <2> QED BY <1>4, <2>1 DEF AppliedInv
<1>5. line' = line /\ Lines[line].cmd = "apply" /\ at \in DOMAIN Infos
  <2>1. line \in DOMAIN Lines /\ line' \in DOMAIN Lines /\ at \in DOMAIN Infos
    BY <1>1, <1>2, <1>4 DEF Places
  <2>2. Len(Lines) = 1 /\ DOMAIN Lines = 1 .. Len(Lines)
    BY <1>1, <2>1, OrderHere, JobFacts DEF Places
  <2> QED BY <2>1, <2>2
<1>6. Applied(Table(i), Infos[i], Lines[line].config, dsp[i])
  BY <1>5 DEF AppliedInv
<1>7. CASE dsp'[i] = dsp[i]
  BY <1>5, <1>6, <1>7
<1>8. CASE Sending /\ dsp' = Taken /\ i = at
  <2> PICK e : e = Received(dsp[at], Infos[at], Outgoing)
    OBVIOUS
  <2>1. dsp'[at] = e
    BY <1>1, <1>5, <1>8 DEF Taken, MemoryInv
  <2>2. /\ Taking(Here, Table(at), e, Tail(todo), Passed + 1)
        /\ Passed \in Nat /\ Passed + 1 <= Len(Here)
        /\ Passed + 1 >= 3 /\ Here[1].op = "SetConfig" =>
            e.master.preset = Here[1].config
        /\ line = 1 => OnlyTouched(Here, e, Passed + 1)
    BY <1>8, Served
  <2>3. line \in DOMAIN Lines /\ line = 1
    <3>1. line \in DOMAIN Lines /\ DOMAIN Lines = 1 .. Len(Lines)
      BY <1>1, JobFacts DEF Places
    <3>2. Len(Lines) = 1
      BY <1>1, <1>5, <3>1, OrderHere
    <3> QED BY <3>1, <3>2
  <2>4. Ordered(Table(at), Infos[at], Here, Lines[line].config)
    BY <1>1, <1>5, <2>3, OrderHere DEF Here
  <2>5. IsSequence(Here)
    BY <1>1, PlanSound DEF Here, Places
  <2>6. IsMaster(e.master)
    BY <1>1, <1>8, TakenMemory DEF FitInv, Memory
  <2>7. /\ \A k \in 1 .. Passed + 1 : ~StopsAt(Table(at), Here[k])
        /\ Replayed(e, Here, Passed + 1)
    BY <2>2, Zenon DEF Taking
  <2>8. Passed + 1 \in Nat /\ OnlyTouched(Here, e, Passed + 1)
    BY <2>2, <2>3
  <2>9. Applied(Table(at), Infos[at], Lines[line].config, e)
    BY <2>2, <2>4, <2>5, <2>6, <2>7, <2>8, OrderApplied
  <2> QED BY <1>5, <1>8, <2>1, <2>9
<1>9. CASE Switch(i)
  <2>1. PICK p : dsp[i].next = Some(p)
    BY <1>1, <1>9, Switches
  <2>2. "preset" \in DOMAIN dsp[i].master
    BY <1>1 DEF MemoryInv, Kept, Memory, IsMaster
  <2>3. dsp'[i] = Switched(dsp[i])
    BY <1>1, <1>9 DEF Switch, MemoryInv
  <2>4. Empty(dsp'[i])
    BY <2>1, <2>2, <2>3, SwitchedIs
  <2> QED BY <2>4, EmptyApplied
<1>10. \/ dsp'[i] = dsp[i]
       \/ Sending /\ dsp' = Taken /\ i = at
       \/ Switch(i)
  <2>1. CASE dsp' = dsp
    BY <2>1
  <2>2. CASE Sending /\ dsp' = Taken
    BY <1>1, <2>2 DEF Taken, MemoryInv
  <2>3. CASE \E k \in DOMAIN Infos : Switch(k)
    BY <1>1, <2>3 DEF Switch, MemoryInv
  <2> QED BY <1>3, <2>1, <2>2, <2>3
<1> QED BY <1>7, <1>8, <1>9, <1>10

(* A configuration that is cut short, by whatever is lost or refused, was  *)
(* carried out in order: what is written of an output was written when the *)
(* inputs were as asked, and what is written at all was written into the   *)
(* preset, and with the other master settings, that it asks for.           *)
THEOREM InOrderTheorem ==
    ASSUME \A j \in Jobs : Fits(j) /\ PlansDo(j) /\ AppliesInOrder(j)
    PROVE  Spec => []InOrder
<1>0. Sound /\ Orderly
  BY DEF Sound, Orderly
<1>1. Init => PlanInv /\ FreshInv /\ AppliedInv
  BY <1>0, AppliedInit
<1>2. PlanInv /\ FreshInv /\ AppliedInv /\ [Next]_vars
        => (PlanInv /\ FreshInv /\ AppliedInv)'
  BY <1>0, PlanStep, FreshStep, AppliedStep
<1>3. AppliedInv => InOrder
  BY Zenon DEF AppliedInv, Applied, InOrder
<1> QED BY <1>1, <1>2, <1>3, PTL DEF Spec

-----------------------------------------------------------------------------
(* The master status *)

IsStatus(m) ==
    /\ m = [k \in DOMAIN m |-> m[k]]
    /\ DOMAIN m = {"preset", "source", "volume", "mute", "dirac"}

(* What a field is when n steps of the plan were taken, if it was v.       *)
Wanted(req, p, n, field, v) ==
    IF DecidedBy(p, n, field) THEN FieldAfter(req, field, v) ELSE v

(* The status m of a device follows the plan, which it began as was; s is    *)
(* the status read last.                                                   *)
Follows(info, req, p, n, was, m, s) ==
    /\ from_id(info, m.source) = Wanted(req, p, n, "source", was.source)
    /\ m.volume = Wanted(req, p, n, "volume", was.volume)
    /\ m.dirac = Wanted(req, p, n, "dirac", was.dirac)
    /\ InLoad(p, n) \/ m.mute = Wanted(req, p, n, "mute", was.mute)
    /\ s # None => IsMaster(The(s))
    /\ \A field \in {"volume", "mute", "dirac"} :
        Informed(p, n, field) =>
            s # None /\ The(s)[field] = Wanted(req, p, n, field, was[field])

PresetKept(p, d, n, was) ==
    n = 0 \/ p = <<>> \/ p[1].op # "SetConfig" => d.master.preset = was.preset

After(i) == MasterAfter(Infos[i], Lines)
LeftBy(i, l) == Named(dsp[i].master, Infos[i]) = After(i)[l]

(* The status of a device as a line found it. *)
Began(was, info) ==
    /\ IsStatus(was)
    /\ \A field \in MasterFields : was[field] \in FieldValues(info, field)

Steered ==
    LET was == After(at)[line - 1] IN
    /\ Began(was, Infos[at])
    /\ \/ Stopped(Table(at), Here, Len(Here))
       \/ /\ Follows(Infos[at], Lines[line], Here, Passed, was, dsp[at].master,
                     saved)
          /\ PresetKept(Here, dsp[at], Passed, was)

MasterInv ==
    /\ result = "ok" =>
        \A i \in DOMAIN Infos : LeftBy(i, Len(Lines)) /\ ~Failed(i)
    /\ Running =>
        /\ \A i \in DOMAIN Infos :
            /\ i > at => LeftBy(i, line - 1)
            /\ i < at /\ results[i] = "ok" => LeftBy(i, line)
        /\ Steered

(* The master status after a line is that of the line before, and what the *)
(* line asks for.                                                          *)
LEMMA MasterAfterIs ==
    ASSUME NEW info, NEW lines, Len(lines) \in Nat
    PROVE  LET m == MasterAfter(info, lines) IN
           /\ m[0] = Named(NewMaster, info)
           /\ \A l \in 1 .. Len(lines) :
                    m[l] = AfterRequest(m[l - 1], lines[l])
<1> PICK N \in Nat : N = Len(lines)
  OBVIOUS
<1> PICK A : A = Named(NewMaster, info)
  OBVIOUS
<1> DEFINE Next1(f, l) == IF l = 0 THEN A ELSE AfterRequest(f[l - 1], lines[l])
           Is(f, k) == f = [l \in 0 .. k |-> Next1(f, l)]
           J == {k \in 0 .. N : ~\E f : Is(f, k)}
<1>1. J = {}
  <2> SUFFICES ASSUME J # {} PROVE FALSE
    OBVIOUS
  <2>1. J \in SUBSET Nat
    OBVIOUS
  <2>2. PICK k \in J : \A j \in J : k <= j
    <3> HIDE DEF J
    <3> QED BY <2>1, LeastElement
  <2>3. k \in 0 .. N /\ ~\E f : Is(f, k)
    BY Zenon
  <2>4. CASE k = 0
    <3> DEFINE f == [l \in 0 .. 0 |-> A]
    <3>1. Is(f, 0)
      OBVIOUS
    <3> QED BY <2>3, <2>4, <3>1, Zenon
  <2>5. CASE k # 0
    <3>1. k - 1 \in 0 .. N /\ ~(k <= k - 1) /\ k \in Nat
      BY <2>3, <2>5
    <3>2. k - 1 \notin J
      BY <2>2, <3>1
    <3>3. PICK f : Is(f, k - 1)
      BY <3>1, <3>2, Zenon
    <3> DEFINE g == [l \in 0 .. k |->
                        IF l = k THEN AfterRequest(f[k - 1], lines[k])
                        ELSE f[l]]
    <3>4. ASSUME NEW l \in 0 .. k PROVE g[l] = Next1(g, l)
      <4>1. CASE l = k
        <5>1. k - 1 \in 0 .. k /\ k - 1 # k
          BY <2>5, <3>1
        <5>2. g[k - 1] = f[k - 1]
          BY <5>1
        <5>3. g[k] = AfterRequest(f[k - 1], lines[k])
          BY <3>1
        <5> QED BY <2>5, <4>1, <5>2, <5>3
      <4>2. CASE l # k /\ l # 0
        <5>1. l \in 0 .. k - 1 /\ l - 1 \in 0 .. k /\ l - 1 # k
          BY <3>1, <4>2
        <5>2. f[l] = AfterRequest(f[l - 1], lines[l])
          BY <3>3, <4>2, <5>1
        <5>3. g[l] = f[l] /\ g[l - 1] = f[l - 1]
          BY <4>2, <5>1
        <5> QED BY <4>2, <5>2, <5>3
      <4>3. CASE l # k /\ l = 0
        <5>1. 0 \in 0 .. k - 1
          BY <2>5, <3>1
        <5>2. f[0] = A
          BY <3>3, <5>1
        <5> QED BY <4>3, <5>2
      <4> QED BY <4>1, <4>2, <4>3
    <3>5. g = [l \in 0 .. k |-> Next1(g, l)]
      <4>1. g = [l \in 0 .. k |-> g[l]]
        OBVIOUS
      <4> HIDE DEF g
      <4> QED BY <3>4, <4>1
    <3> HIDE DEF g
    <3> QED BY <2>3, <3>5, Zenon
  <2> QED BY <2>4, <2>5
<1>2. \E f : Is(f, N)
  BY <1>1
<1> PICK m : m = MasterAfter(info, lines)
  OBVIOUS
<1>3. m = CHOOSE f : Is(f, N)
  BY DEF MasterAfter
<1>4. Is(m, N)
  <2> HIDE DEF Is
  <2> QED BY <1>2, <1>3, Zenon
<1>5. \A l \in 0 .. N : m[l] = Next1(m, l)
  BY <1>4
<1>6. m[0] = A
  BY <1>5
<1>7. \A l \in 1 .. N : l \in 0 .. N /\ l # 0
  OBVIOUS
<1>8. \A l \in 1 .. N : m[l] = AfterRequest(m[l - 1], lines[l])
  BY <1>5, <1>7
<1> QED BY <1>6, <1>8

StatusFields == {"preset", "source", "volume", "mute", "dirac"}

SameIn(m, k, field) == m[field] = k[field]

LEMMA PutBoth ==
    ASSUME NEW m, IsStatus(m), NEW k, IsStatus(k), NEW f \in StatusFields,
           NEW x, NEW y, NEW field \in MasterFields, SameIn(m, k, field),
           field = f => x = y,
           NEW n, n = [m EXCEPT ![f] = x], NEW j, j = [k EXCEPT ![f] = y]
    PROVE  SameIn(n, j, field) /\ IsStatus(n)
<1>0. m[field] = k[field]
  BY DEF SameIn
<1>1. field \in DOMAIN m /\ field \in DOMAIN k
  BY DEF IsStatus, MasterFields
<1>2. SameIn(n, j, field)
  BY <1>0, <1>1 DEF SameIn
<1>3. IsStatus(n)
  BY DEF IsStatus
<1> QED BY <1>2, <1>3

(* What a line makes of a field depends on nothing but that field.         *)
LEMMA AfterField ==
    ASSUME NEW m, IsStatus(m), NEW k, IsStatus(k), NEW req,
           NEW field \in MasterFields, SameIn(m, k, field)
    PROVE  /\ SameIn(AfterRequest(m, req), AfterRequest(k, req), field)
           /\ IsStatus(AfterRequest(m, req))
<1> DEFINE Goal == /\ SameIn(AfterRequest(m, req), AfterRequest(k, req), field)
                   /\ IsStatus(AfterRequest(m, req))
<1>s. m[field] = k[field]
  BY DEF SameIn
<1>0. ASSUME NEW f \in StatusFields, NEW x, NEW y, field = f => x = y,
             AfterRequest(m, req) = [m EXCEPT ![f] = x],
             AfterRequest(k, req) = [k EXCEPT ![f] = y]
      PROVE  Goal
  BY <1>0, PutBoth, Zenon
<1>f. /\ "volume" \in StatusFields /\ "mute" \in StatusFields
      /\ "dirac" \in StatusFields /\ "source" \in StatusFields
      /\ "preset" \in StatusFields
  BY DEF StatusFields
<1>1. CASE req.cmd = "gain"
  <2>x. PICK x :
        x = Attenuated(req.value + (IF req.relative THEN m.volume ELSE 0))
    OBVIOUS
  <2>y. PICK y :
        y = Attenuated(req.value + (IF req.relative THEN k.volume ELSE 0))
    OBVIOUS
  <2>1. AfterRequest(m, req) = [m EXCEPT !["volume"] = x]
    BY <1>1, <2>x, SMT DEF AfterRequest
  <2>2. AfterRequest(k, req) = [k EXCEPT !["volume"] = y]
    BY <1>1, <2>y, SMT DEF AfterRequest
  <2>3. field = "volume" => x = y
    BY <1>s, <2>x, <2>y
  <2> QED BY <1>0, <1>f, <2>1, <2>2, <2>3, Zenon
<1>2. CASE req.cmd = "mute"
  <2> PICK x, y : /\ x = Toggled(req.value, m.mute)
                  /\ y = Toggled(req.value, k.mute)
    OBVIOUS
  <2>1. AfterRequest(m, req) = [m EXCEPT !["mute"] = x]
    BY <1>2, SMT DEF AfterRequest
  <2>2. AfterRequest(k, req) = [k EXCEPT !["mute"] = y]
    BY <1>2, SMT DEF AfterRequest
  <2>3. field = "mute" => x = y
    BY <1>s, Zenon
  <2> QED BY <1>0, <1>f, <2>1, <2>2, <2>3, Zenon
<1>3. CASE req.cmd = "dirac"
  <2> PICK x, y : /\ x = Toggled(req.value, m.dirac)
                  /\ y = Toggled(req.value, k.dirac)
    OBVIOUS
  <2>1. AfterRequest(m, req) = [m EXCEPT !["dirac"] = x]
    BY <1>3, SMT DEF AfterRequest
  <2>2. AfterRequest(k, req) = [k EXCEPT !["dirac"] = y]
    BY <1>3, SMT DEF AfterRequest
  <2>3. field = "dirac" => x = y
    BY <1>s, Zenon
  <2> QED BY <1>0, <1>f, <2>1, <2>2, <2>3, Zenon
<1>4. CASE req.cmd = "source"
  <2>1. AfterRequest(m, req) = [m EXCEPT !["source"] = req.value]
    BY <1>4, SMT DEF AfterRequest
  <2>2. AfterRequest(k, req) = [k EXCEPT !["source"] = req.value]
    BY <1>4, SMT DEF AfterRequest
  <2> QED BY <1>0, <1>f, <2>1, <2>2, Zenon
<1>5. CASE req.cmd = "config"
  <2>1. AfterRequest(m, req) = [m EXCEPT !["preset"] = req.value]
    BY <1>5, SMT DEF AfterRequest
  <2>2. AfterRequest(k, req) = [k EXCEPT !["preset"] = req.value]
    BY <1>5, SMT DEF AfterRequest
  <2> QED BY <1>0, <1>f, <2>1, <2>2, Zenon
<1>6. CASE req.cmd = "apply" /\ req.config.master_status # None
  <2> PICK s : s = The(req.config.master_status)
    OBVIOUS
  <2>1. AfterRequest(m, req) = AfterMaster(m, s)
    BY <1>6, SMT DEF AfterRequest
  <2>2. AfterRequest(k, req) = AfterMaster(k, s)
    BY <1>6, SMT DEF AfterRequest
  <2>3. AfterMaster(m, s)[field] = AfterMaster(k, s)[field]
    BY <1>s DEF AfterMaster, MasterFields
  <2>4. IsStatus(AfterMaster(m, s))
    BY DEF AfterMaster, IsStatus
  <2> QED BY <2>1, <2>2, <2>3, <2>4 DEF SameIn
<1>7. CASE \/ req.cmd = "apply" /\ req.config.master_status = None
           \/ req.cmd \notin {"gain", "mute", "dirac", "source", "config",
                               "apply"}
  <2>1. AfterRequest(m, req) = m /\ AfterRequest(k, req) = k
    BY <1>7, SMT DEF AfterRequest
  <2> QED BY <2>1, Zenon
<1> HIDE DEF Goal
<1>8. Goal
  BY <1>1, <1>2, <1>3, <1>4, <1>5, <1>6, <1>7, Zenon DEF Goal
<1> QED BY <1>8 DEF Goal

LEMMA FieldAfterIs ==
    ASSUME NEW m, IsStatus(m), NEW req, NEW field \in MasterFields
    PROVE  AfterRequest(m, req)[field] = FieldAfter(req, field, m[field])
<1> PICK v : v = m[field]
  OBVIOUS
<1> PICK k : k = [NewMaster EXCEPT ![field] = v]
  OBVIOUS
<1>1. IsStatus(k) /\ k[field] = v
  <2>1. IsStatus(NewMaster)
    BY DEF IsStatus, NewMaster
  <2>2. field \in StatusFields
    BY DEF MasterFields, StatusFields
  <2>3. IsStatus(k)
    BY <2>1, <2>2 DEF IsStatus
  <2>4. k[field] = v
    BY <2>1 DEF IsStatus, MasterFields
  <2> QED BY <2>3, <2>4
<1>2. SameIn(m, k, field)
  BY <1>1 DEF SameIn
<1>3. SameIn(AfterRequest(m, req), AfterRequest(k, req), field)
  BY <1>1, <1>2, AfterField, Zenon
<1>4. AfterRequest(m, req)[field] = AfterRequest(k, req)[field]
  BY <1>3 DEF SameIn
<1> QED BY <1>4, Zenon DEF FieldAfter

LEMMA CountMore ==
    ASSUME NEW p, NEW n \in Nat, NEW c, c = p[n + 1]
    PROVE  /\ \A field : DecidedBy(p, n + 1, field)
                            <=> DecidedBy(p, n, field) \/ Decides(c, field)
           /\ \A field : Informed(p, n + 1, field) =>
                \/ c.op = "ReadMemory"
                \/ Informed(p, n, field) /\ ~Decides(c, field)
           /\ InLoad(p, n) => c.op = "SetMute" \/ InLoad(p, n + 1)
           /\ c.op = "FirLoadStart" => InLoad(p, n + 1)
<1>1. /\ \A k \in 1 .. n + 1 : k \in 1 .. n \/ k = n + 1
      /\ \A k \in 1 .. n : k \in 1 .. n + 1
      /\ n + 1 \in 1 .. n + 1
      /\ \A k \in 1 .. n : /\ n + 1 \in k + 1 .. n + 1
                            /\ k + 1 .. n \subseteq k + 1 .. n + 1
                            /\ \A m \in k + 1 .. n + 1 :
                                    m \in k + 1 .. n \/ m = n + 1
      /\ n + 1 + 1 .. n + 1 = {}
  OBVIOUS
<1>2. ASSUME NEW field
      PROVE  DecidedBy(p, n + 1, field)
                <=> DecidedBy(p, n, field) \/ Decides(c, field)
  BY <1>1, Zenon DEF DecidedBy
<1>3. ASSUME NEW field, Informed(p, n + 1, field)
      PROVE  \/ c.op = "ReadMemory"
             \/ Informed(p, n, field) /\ ~Decides(c, field)
  <2> PICK k \in 1 .. n + 1 :
        /\ p[k].op = "ReadMemory"
        /\ \A m \in k + 1 .. n + 1 : ~Decides(p[m], field)
    BY <1>3, Zenon DEF Informed
  <2>1. CASE k = n + 1
    BY <2>1
  <2>2. CASE k \in 1 .. n
    <3>1. ~Decides(c, field)
      BY <1>1, <2>2, Zenon
    <3>2. \A m \in k + 1 .. n : ~Decides(p[m], field)
      BY <1>1, <2>2
    <3> QED BY <2>2, <3>1, <3>2, Zenon DEF Informed
  <2> QED BY <1>1, <2>1, <2>2
<1>4. ASSUME InLoad(p, n), c.op # "SetMute" PROVE InLoad(p, n + 1)
  <2> PICK k \in 1 .. n :
        /\ p[k].op = "FirLoadStart"
        /\ \A m \in k + 1 .. n : p[m].op # "SetMute"
    BY <1>4, Zenon DEF InLoad
  <2>1. \A m \in k + 1 .. n + 1 : p[m].op # "SetMute"
    BY <1>1, <1>4
  <2> QED BY <1>1, <2>1, Zenon DEF InLoad
<1>5. ASSUME c.op = "FirLoadStart" PROVE InLoad(p, n + 1)
  BY <1>1, <1>5, Zenon DEF InLoad
<1> QED BY <1>2, <1>3, <1>4, <1>5

LEMMA CountNone ==
    ASSUME NEW p
    PROVE  /\ \A field : ~DecidedBy(p, 0, field) /\ ~Informed(p, 0, field)
           /\ ~InLoad(p, 0)
<1>1. 1 .. 0 = {}
  OBVIOUS
<1> QED BY <1>1 DEF DecidedBy, Informed, InLoad

LEMMA WantedIs ==
    ASSUME NEW p, NEW n \in Nat, NEW c, c = p[n + 1], NEW req,
           NEW field, NEW v
    PROVE  /\ Decides(c, field) =>
                Wanted(req, p, n + 1, field, v) = FieldAfter(req, field, v)
           /\ ~Decides(c, field) =>
                Wanted(req, p, n + 1, field, v) = Wanted(req, p, n, field, v)
           /\ ~DecidedBy(p, n, field) => Wanted(req, p, n, field, v) = v
<1>1. DecidedBy(p, n + 1, field)
        <=> DecidedBy(p, n, field) \/ Decides(c, field)
  BY CountMore, Zenon
<1> QED BY <1>1, Zenon DEF Wanted

(* Whatever status was read, a step decides what its line asks for.        *)
LEMMA DecisionIs ==
    ASSUME NEW info, NEW p, NEW req, PlanSteers(info, p, req),
           NEW n \in Nat, n + 1 \in DOMAIN p, NEW c, c = p[n + 1],
           NEW field \in MasterFields, Decides(c, field),
           NEW v \in FieldValues(info, field),
           field = "volume" => FieldAfter(req, field, v) <= 0,
           NEW u,
           FromStatus(c) /\ Informed(p, n, field) /\ ~DecidedBy(p, n, field)
                => u = v
    PROVE  Decision(info, c, field, u) = FieldAfter(req, field, v)
<1> PICK k : k = n + 1
  OBVIOUS
<1>1. k \in DOMAIN p /\ p[k] = c /\ k - 1 = n /\ Decides(p[k], field)
  OBVIOUS
<1>2. /\ Decision(info, c, field, v) = FieldAfter(req, field, v)
      /\ FromStatus(c) => Informed(p, n, field) /\ ~DecidedBy(p, n, field)
  <2>1. /\ (field = "volume" => FieldAfter(req, field, v) <= 0) =>
            Decision(info, p[k], field, v) = FieldAfter(req, field, v)
        /\ FromStatus(p[k]) =>
            Informed(p, k - 1, field) /\ ~DecidedBy(p, k - 1, field)
    BY <1>1, Zenon DEF PlanSteers
  <2> QED BY <1>1, <2>1
<1>3. CASE FromStatus(c)
  BY <1>2, <1>3
<1>4. CASE ~FromStatus(c)
  <2>1. CASE field = "source"
    <3>1. Decision(info, c, field, u) = Decision(info, c, field, v)
      BY <2>1, SMT DEF Decision
    <3> QED BY <1>2, <3>1, Zenon
  <2>2. CASE field = "volume"
    <3>1. ~c.relative
      BY <1>4, <2>2 DEF FromStatus, IsRelative, Decides
    <3>2. Decision(info, c, field, u) = Decision(info, c, field, v)
      BY <2>2, <3>1, SMT DEF Decision
    <3> QED BY <1>2, <3>2, Zenon
  <2>3. CASE field \notin {"source", "volume"}
    <3>1. c.value # "toggle"
      BY <1>4, <2>3 DEF FromStatus, Decides
    <3>2. Decision(info, c, field, u) = Decision(info, c, field, v)
      BY <2>3, <3>1, SMT DEF Decision
    <3> QED BY <1>2, <3>2, Zenon
  <2> QED BY <2>1, <2>2, <2>3
<1> QED BY <1>3, <1>4

(* What a step makes of a device's status, where s was read before.        *)
Moves(info, c, s, m, e) ==
    /\ c.op = "SetSource" =>
        from_id(info, e.source) = Decision(info, c, "source", The(s).source)
    /\ c.op # "SetSource" => e.source = m.source
    /\ c.op = "SetVolume" =>
        e.volume = Decision(info, c, "volume", The(s).volume)
    /\ c.op # "SetVolume" => e.volume = m.volume
    /\ c.op = "DiracBypass" =>
        e.dirac = Decision(info, c, "dirac", The(s).dirac)
    /\ c.op # "DiracBypass" => e.dirac = m.dirac
    /\ c.op = "SetMute" /\ c.value # "restore" =>
        e.mute = Decision(info, c, "mute", The(s).mute)
    /\ c.op = "SetMute" /\ c.value = "restore" => e.mute = The(s).mute
    /\ c.op \notin {"SetMute", "FirLoadStart"} => e.mute = m.mute

LEMMA FollowsMore ==
    ASSUME NEW info, NEW p, NEW req, PlanSteers(info, p, req),
           NEW n \in Nat, n + 1 \in DOMAIN p, NEW c, c = p[n + 1],
           NEW was, Began(was, info),
           FieldAfter(req, "volume", was.volume) <= 0,
           NEW m, IsMaster(m), NEW s, Follows(info, req, p, n, was, m, s),
           NEW e, Moves(info, c, s, m, e),
           NEW s2, s2 = IF c.op = "ReadMemory" THEN Some(m) ELSE s
    PROVE  Follows(info, req, p, n + 1, was, e, s2)
<1> DEFINE Then(field) == Wanted(req, p, n + 1, field, was[field])
           Now(field) == Wanted(req, p, n, field, was[field])
<1>1. \A field :
        /\ Decides(c, field) =>
                Then(field) = FieldAfter(req, field, was[field])
        /\ ~Decides(c, field) => Then(field) = Now(field)
        /\ ~DecidedBy(p, n, field) => Now(field) = was[field]
  <2> SUFFICES ASSUME NEW field
               PROVE  /\ Decides(c, field) =>
                            Then(field) = FieldAfter(req, field, was[field])
                      /\ ~Decides(c, field) => Then(field) = Now(field)
                      /\ ~DecidedBy(p, n, field) => Now(field) = was[field]
    OBVIOUS
  <2> PICK v : v = was[field]
    OBVIOUS
  <2>1. /\ Decides(c, field) =>
                Wanted(req, p, n + 1, field, v) = FieldAfter(req, field, v)
        /\ ~Decides(c, field) =>
                Wanted(req, p, n + 1, field, v) = Wanted(req, p, n, field, v)
        /\ ~DecidedBy(p, n, field) => Wanted(req, p, n, field, v) = v
    BY WantedIs
  <2> QED BY <2>1
<1>2. /\ from_id(info, m.source) = Now("source")
      /\ m.volume = Now("volume") /\ m.dirac = Now("dirac")
      /\ InLoad(p, n) \/ m.mute = Now("mute")
      /\ s # None => IsMaster(The(s))
      /\ \A field \in {"volume", "mute", "dirac"} :
            Informed(p, n, field) => s # None /\ The(s)[field] = Now(field)
  BY Zenon DEF Follows
<1>3. ASSUME NEW field \in MasterFields, Decides(c, field)
      PROVE  Decision(info, c, field, The(s)[field]) = Then(field)
  <2> PICK v : v = was[field]
    OBVIOUS
  <2>1. v \in FieldValues(info, field)
    BY DEF Began
  <2>2. field = "volume" => FieldAfter(req, field, v) <= 0
    OBVIOUS
  <2> PICK u : u = The(s)[field]
    OBVIOUS
  <2>3. FromStatus(c) => field \in {"volume", "mute", "dirac"}
    BY <1>3 DEF FromStatus, IsRelative, Decides, MasterFields
  <2>4. FromStatus(c) /\ Informed(p, n, field) /\ ~DecidedBy(p, n, field)
            => u = v
    BY <1>1, <1>2, <2>3, Zenon
  <2>5. Decision(info, c, field, u) = FieldAfter(req, field, v)
    BY <1>3, <2>1, <2>2, <2>4, DecisionIs
  <2> QED BY <1>1, <1>3, <2>5, Zenon
<1>4. /\ Decides(c, "source") <=> c.op = "SetSource"
      /\ Decides(c, "volume") <=> c.op = "SetVolume"
      /\ Decides(c, "dirac") <=> c.op = "DiracBypass"
      /\ Decides(c, "mute") <=> c.op = "SetMute" /\ c.value # "restore"
  BY DEF Decides
<1>5. /\ "source" \in MasterFields /\ "volume" \in MasterFields
      /\ "dirac" \in MasterFields /\ "mute" \in MasterFields
  BY DEF MasterFields
<1>6. /\ c.op = "ReadMemory" => ~InLoad(p, n)
      /\ c.op = "SetMute" /\ c.value = "restore" => Informed(p, n, "mute")
  <2> PICK k : k = n + 1
    OBVIOUS
  <2>1. k \in DOMAIN p /\ p[k] = c /\ k - 1 = n
    OBVIOUS
  <2>2. /\ p[k].op = "ReadMemory" => ~InLoad(p, k - 1)
        /\ p[k].op = "SetMute" =>
            \/ p[k].value \in {"on", "off", "toggle"}
            \/ p[k].value = "restore" /\ Informed(p, k - 1, "mute")
    BY <2>1, Zenon DEF PlanSteers
  <2> QED BY <2>1, <2>2
<1>7. /\ \A field : Informed(p, n + 1, field) =>
            \/ c.op = "ReadMemory"
            \/ Informed(p, n, field) /\ ~Decides(c, field)
      /\ InLoad(p, n) => c.op = "SetMute" \/ InLoad(p, n + 1)
      /\ c.op = "FirLoadStart" => InLoad(p, n + 1)
  BY CountMore
<1> HIDE DEF Then, Now
<1>8. from_id(info, e.source) = Then("source")
  <2>1. CASE c.op = "SetSource"
    BY <1>3, <1>4, <1>5, <2>1, Zenon DEF Moves
  <2>2. CASE c.op # "SetSource"
    BY <1>1, <1>2, <1>4, <2>2, Zenon DEF Moves
  <2> QED BY <2>1, <2>2
<1>9. e.volume = Then("volume")
  <2>1. CASE c.op = "SetVolume"
    BY <1>3, <1>4, <1>5, <2>1, Zenon DEF Moves
  <2>2. CASE c.op # "SetVolume"
    BY <1>1, <1>2, <1>4, <2>2, Zenon DEF Moves
  <2> QED BY <2>1, <2>2
<1>10. e.dirac = Then("dirac")
  <2>1. CASE c.op = "DiracBypass"
    BY <1>3, <1>4, <1>5, <2>1, Zenon DEF Moves
  <2>2. CASE c.op # "DiracBypass"
    BY <1>1, <1>2, <1>4, <2>2, Zenon DEF Moves
  <2> QED BY <2>1, <2>2
<1>11. InLoad(p, n + 1) \/ e.mute = Then("mute")
  <2>1. CASE c.op = "SetMute" /\ c.value # "restore"
    BY <1>3, <1>4, <1>5, <2>1, Zenon DEF Moves
  <2>2. CASE c.op = "SetMute" /\ c.value = "restore"
    <3>1. The(s).mute = Now("mute")
      BY <1>2, <1>6, <2>2, Zenon
    <3> QED BY <1>1, <1>4, <2>2, <3>1, Zenon DEF Moves
  <2>3. CASE c.op # "SetMute"
    <3>1. CASE c.op = "FirLoadStart"
      BY <1>7, <3>1
    <3>2. CASE c.op # "FirLoadStart"
      <4>1. e.mute = m.mute
        BY <2>3, <3>2 DEF Moves
      <4>2. Then("mute") = Now("mute")
        BY <1>1, <1>4, <2>3, Zenon
      <4> QED BY <1>2, <1>7, <2>3, <4>1, <4>2, Zenon
    <3> QED BY <3>1, <3>2
  <2> QED BY <2>1, <2>2, <2>3
<1>12. ASSUME NEW field \in {"volume", "mute", "dirac"},
              Informed(p, n + 1, field)
       PROVE  s2 # None /\ The(s2)[field] = Then(field)
  <2>1. CASE c.op = "ReadMemory"
    <3>1. s2 = Some(m)
      BY <2>1
    <3>2. s2 # None /\ The(s2) = m
      BY <3>1 DEF Some, None, The
    <3>3. ~Decides(c, field)
      BY <2>1 DEF Decides
    <3>4. m[field] = Now(field)
      BY <1>2, <1>6, <2>1
    <3>5. Then(field) = Now(field)
      BY <1>1, <3>3, Zenon
    <3> QED BY <3>2, <3>4, <3>5, Zenon
  <2>2. CASE c.op # "ReadMemory"
    <3>1. s2 = s /\ Informed(p, n, field) /\ ~Decides(c, field)
      BY <1>7, <1>12, <2>2
    <3> QED BY <1>1, <1>2, <3>1, Zenon
  <2> QED BY <2>1, <2>2
<1>13. s2 # None => IsMaster(The(s2))
  <2>1. CASE c.op = "ReadMemory"
    <3>1. The(s2) = m
      BY <2>1 DEF Some, The
    <3> QED BY <3>1
  <2>2. CASE c.op # "ReadMemory"
    BY <1>2, <2>2
  <2> QED BY <2>1, <2>2
<1> QED BY <1>8, <1>9, <1>10, <1>11, <1>12, <1>13, Zenon
    DEF Follows, Then, Now

(* How a line finds a device.                                              *)
LEMMA BeganAs ==
    ASSUME NEW info, NEW m, IsMaster(m), NEW was, Named(m, info) = was
    PROVE  /\ Began(was, info)
           /\ was.source = from_id(info, m.source) /\ was.volume = m.volume
           /\ was.dirac = m.dirac /\ was.mute = m.mute /\ was.preset = m.preset
<1> PICK x : x = from_id(info, m.source)
  OBVIOUS
<1>1. was = [m EXCEPT !.source = x]
  BY Zenon DEF Named
<1>2. /\ was = [k \in DOMAIN was |-> was[k]]
      /\ DOMAIN was = {"preset", "source", "volume", "mute", "dirac"}
      /\ was.source = x /\ was.volume = m.volume
      /\ was.dirac = m.dirac /\ was.mute = m.mute /\ was.preset = m.preset
  BY <1>1 DEF IsMaster
<1>3. IsStatus(was)
  BY <1>2 DEF IsStatus
<1>4. m.source \in 0 .. 255 /\ m.volume \in -255 .. 0 /\ m.mute \in BOOLEAN
      /\ m.dirac \in BOOLEAN
  BY DEF IsMaster
<1>5. x \in {from_id(info, id) : id \in 0 .. 255}
  BY <1>4
<1>6. /\ was["source"] \in FieldValues(info, "source")
      /\ was["volume"] \in FieldValues(info, "volume")
      /\ was["mute"] \in FieldValues(info, "mute")
      /\ was["dirac"] \in FieldValues(info, "dirac")
  BY <1>2, <1>4, <1>5, SMT DEF FieldValues
<1>7. \A field \in MasterFields : was[field] \in FieldValues(info, field)
  BY <1>6, Zenon DEF MasterFields
<1> QED BY <1>2, <1>3, <1>7 DEF Began

LEMMA FollowsStart ==
    ASSUME NEW info, NEW p, NEW req, NEW m, IsMaster(m),
           NEW was, Named(m, info) = was
    PROVE  Follows(info, req, p, 0, was, m, None)
<1>1. \A field, v : Wanted(req, p, 0, field, v) = v
  BY CountNone, Zenon DEF Wanted
<1>2. /\ was.source = from_id(info, m.source) /\ was.volume = m.volume
      /\ was.dirac = m.dirac /\ was.mute = m.mute
  BY BeganAs
<1> QED BY <1>1, <1>2, CountNone, Zenon DEF Follows

(* A device that switches keeps all but the preset.                        *)
LEMMA FollowsSame ==
    ASSUME NEW info, NEW p, NEW req, NEW n, NEW was, NEW m, NEW s,
           Follows(info, req, p, n, was, m, s),
           NEW e, e.source = m.source, e.volume = m.volume,
           e.dirac = m.dirac, e.mute = m.mute
    PROVE  Follows(info, req, p, n, was, e, s)
  BY Zenon DEF Follows

(* The status is read again before anything was decided.                   *)
LEMMA FollowsAgain ==
    ASSUME NEW info, NEW p, NEW req, NEW was, NEW m, NEW s,
           Follows(info, req, p, 2, was, m, s),
           p[1].op = "SetConfig", p[2].op = "ReadMemory"
    PROVE  Follows(info, req, p, 1, was, m, s)
<1>1. \A k \in 1 .. 2 : p[k].op \in {"SetConfig", "ReadMemory"}
  <2>1. \A k \in 1 .. 2 : k = 1 \/ k = 2
    OBVIOUS
  <2> QED BY <2>1
<1>2. \A k \in 1 .. 2 : \A field : ~Decides(p[k], field)
  BY <1>1 DEF Decides
<1>3. \A k \in 1 .. 1 : k \in 1 .. 2 /\ p[k].op = "SetConfig"
  OBVIOUS
<1>4. \A field : ~DecidedBy(p, 1, field) /\ ~DecidedBy(p, 2, field)
  BY <1>2, <1>3 DEF DecidedBy
<1>5. \A field : ~Informed(p, 1, field)
  BY <1>3 DEF Informed
<1>6. ~InLoad(p, 2)
  BY <1>1 DEF InLoad
<1>7. \A field, v : Wanted(req, p, 1, field, v) = Wanted(req, p, 2, field, v)
  BY <1>4, Zenon DEF Wanted
<1> QED BY <1>5, <1>6, <1>7, Zenon DEF Follows

(* When all steps were taken, the status is as the line asks for.          *)
LEMMA FollowsEnd ==
    ASSUME NEW info, NEW p, NEW req, PlanSteers(info, p, req),
           NEW was, Began(was, info), NEW m, IsMaster(m), NEW s,
           Follows(info, req, p, Len(p), was, m, s),
           m.preset = AfterRequest(was, req).preset
    PROVE  Named(m, info) = AfterRequest(was, req)
<1> PICK N : N = AfterRequest(was, req)
  OBVIOUS
<1>1. IsStatus(was)
  BY DEF Began
<1>2. ASSUME NEW field \in MasterFields
      PROVE  N[field] = Wanted(req, p, Len(p), field, was[field])
  <2> PICK v : v = was[field]
    OBVIOUS
  <2>1. v \in FieldValues(info, field)
    BY DEF Began
  <2>2. N[field] = FieldAfter(req, field, v)
    BY <1>1, FieldAfterIs, Zenon
  <2>3. ~DecidedBy(p, Len(p), field) => FieldAfter(req, field, v) = v
    BY <2>1, Zenon DEF PlanSteers
  <2> QED BY <2>2, <2>3, Zenon DEF Wanted
<1>3. /\ "source" \in MasterFields /\ "volume" \in MasterFields
      /\ "dirac" \in MasterFields /\ "mute" \in MasterFields
  BY DEF MasterFields
<1>4. ~InLoad(p, Len(p))
  BY Zenon DEF PlanSteers
<1>5. /\ N.source = from_id(info, m.source) /\ N.volume = m.volume
      /\ N.dirac = m.dirac /\ N.mute = m.mute
  BY <1>2, <1>3, <1>4, Zenon DEF Follows
<1>6. IsStatus(N)
  <2>1. SameIn(was, was, "volume")
    BY DEF SameIn
  <2> QED BY <1>1, <1>3, <2>1, AfterField, Zenon
<1> PICK L : L = Named(m, info)
  OBVIOUS
<1>7. /\ IsStatus(L)
      /\ L.source = from_id(info, m.source) /\ L.volume = m.volume
      /\ L.dirac = m.dirac /\ L.mute = m.mute /\ L.preset = m.preset
  BY BeganAs DEF Began
<1>8. \A k \in DOMAIN L : L[k] = N[k]
  BY <1>5, <1>7 DEF IsStatus
<1>9. DOMAIN L = DOMAIN N
  BY <1>6, <1>7 DEF IsStatus
<1>10. L = [k \in DOMAIN L |-> L[k]] /\ N = [k \in DOMAIN N |-> N[k]]
  BY <1>6, <1>7, Zenon DEF IsStatus
<1>11. L = N
  BY <1>8, <1>9, <1>10, Zenon
<1> QED BY <1>11

-----------------------------------------------------------------------------
(* What a step makes of the status of the device that is being served *)

(* A step that is relative to the status starts from the one read last.    *)
LEMMA ResolvedIs ==
    ASSUME NEW c, NEW r, r = Resolved(c),
           c.op \in {"SetVolume", "DiracBypass", "SetMute"} =>
                "value" \in DOMAIN c
    PROVE  /\ c.op = "SetVolume" /\ c.relative =>
                r.value = c.value + The(saved).volume
           /\ c.op = "SetVolume" /\ ~c.relative => r.value = c.value
           /\ c.op = "DiracBypass" =>
                (r.value = 0) = (c.value = "on"
                    \/ (c.value = "toggle" /\ ~The(saved).dirac))
           /\ c.op = "SetMute" /\ c.value \in {"on", "off", "toggle"} =>
                (Bit(r.value) # 0) = (c.value = "on"
                    \/ (c.value = "toggle" /\ ~The(saved).mute))
           /\ c.op = "SetMute" /\ c.value = "restore"
                /\ The(saved).mute \in BOOLEAN =>
                (Bit(r.value) # 0) = The(saved).mute
<1>0. /\ \A b \in BOOLEAN : (Bit(b) # 0) = b
      /\ \A b \in BOOLEAN : (Bit(b) = 0) = ~b
  BY DEF Bit
<1>1. ASSUME c.op = "SetVolume", c.relative
      PROVE  r.value = c.value + The(saved).volume
  <2> PICK w : w = c.value + The(saved).volume
    OBVIOUS
  <2>1. r = [c EXCEPT !.value = w]
    BY <1>1, SMT DEF Resolved
  <2> QED BY <1>1, <2>1
<1>2. ASSUME c.op = "SetVolume", ~c.relative PROVE r.value = c.value
  BY <1>2, SMT DEF Resolved
<1>3. ASSUME c.op = "DiracBypass"
      PROVE  (r.value = 0) = (c.value = "on"
                    \/ (c.value = "toggle" /\ ~The(saved).dirac))
  <2>p. PICK b \in BOOLEAN : b = ~(c.value = "on"
                \/ (c.value = "toggle" /\ ~The(saved).dirac))
    OBVIOUS
  <2>1. r = [c EXCEPT !.value = Bit(b)]
    BY <1>3, <2>p, Zenon DEF Resolved
  <2>2. r.value = Bit(b)
    BY <1>3, <2>1
  <2>3. (Bit(b) = 0) = ~b
    BY <1>0
  <2> QED BY <2>2, <2>3, <2>p, Zenon
<1>4. ASSUME c.op = "SetMute", c.value \in {"on", "off"}
      PROVE  (Bit(r.value) # 0) = (c.value = "on"
                    \/ (c.value = "toggle" /\ ~The(saved).mute))
  <2>p. PICK b \in BOOLEAN : b = (c.value = "on")
    OBVIOUS
  <2>1. r = [c EXCEPT !.value = b]
    BY <1>4, <2>p, Zenon DEF Resolved
  <2>2. r.value = b
    BY <1>4, <2>1
  <2>3. b = (c.value = "on" \/ (c.value = "toggle" /\ ~The(saved).mute))
    BY <1>4, <2>p
  <2> QED BY <1>0, <2>2, <2>3, Zenon
<1>5. ASSUME c.op = "SetMute", c.value = "toggle"
      PROVE  (Bit(r.value) # 0) = (c.value = "on"
                    \/ (c.value = "toggle" /\ ~The(saved).mute))
  <2>p. PICK b \in BOOLEAN : b = ~The(saved).mute
    OBVIOUS
  <2>1. r = [c EXCEPT !.value = b]
    BY <1>5, <2>p, Zenon DEF Resolved
  <2>2. r.value = b
    BY <1>5, <2>1
  <2>3. b = (c.value = "on" \/ (c.value = "toggle" /\ ~The(saved).mute))
    BY <1>5, <2>p
  <2> QED BY <1>0, <2>2, <2>3, Zenon
<1>6. ASSUME c.op = "SetMute", c.value = "restore", The(saved).mute \in BOOLEAN
      PROVE  (Bit(r.value) # 0) = The(saved).mute
  <2>p. PICK b \in BOOLEAN : b = The(saved).mute
    BY <1>6
  <2>1. r = [c EXCEPT !.value = b]
    BY <1>6, <2>p, SMT DEF Resolved
  <2>2. r.value = b
    BY <1>6, <2>1
  <2> QED BY <1>0, <2>2, <2>p, Zenon
<1>7. c.value \in {"on", "off", "toggle"} =>
            c.value \in {"on", "off"} \/ c.value = "toggle"
  OBVIOUS
<1> QED BY <1>1, <1>2, <1>3, <1>4, <1>5, <1>6, <1>7, Zenon

(* A mute status that is set back was read. *)
Mutes(c, s) ==
    c.op = "SetMute" =>
        /\ "value" \in DOMAIN c
        /\ \/ c.value \in {"on", "off", "toggle"}
           \/ c.value = "restore" /\ The(s).mute \in BOOLEAN

LEMMA OutcomeMoves ==
    ASSUME NEW info, NEW d, NEW c, NEW r, r = Resolved(c), NEW x,
           Outcome(d, c, x), MasterLeft(d, c, r, x), Mutes(c, saved),
           c.op = "SetVolume" => /\ "value" \in DOMAIN c /\ c.value \in Int
                                 /\ c.relative \in BOOLEAN,
           c.op = "DiracBypass" => "value" \in DOMAIN c
    PROVE  Moves(info, c, saved, d.master, x.master)
<1>1. /\ c.op = "SetVolume" /\ c.relative =>
            r.value = c.value + The(saved).volume
      /\ c.op = "SetVolume" /\ ~c.relative => r.value = c.value
      /\ c.op = "DiracBypass" =>
            (r.value = 0) = (c.value = "on"
                \/ (c.value = "toggle" /\ ~The(saved).dirac))
      /\ c.op = "SetMute" /\ c.value \in {"on", "off", "toggle"} =>
            (Bit(r.value) # 0) = (c.value = "on"
                \/ (c.value = "toggle" /\ ~The(saved).mute))
      /\ c.op = "SetMute" /\ c.value = "restore"
            /\ The(saved).mute \in BOOLEAN =>
            (Bit(r.value) # 0) = The(saved).mute
  BY ResolvedIs DEF Mutes
<1>2. /\ \A v : Decision(info, c, "source", v) = from_id(info, c.source)
      /\ \A v : Decision(info, c, "volume", v) =
                    -GainByte(c.value + (IF c.relative THEN v ELSE 0))
      /\ \A field \in {"mute", "dirac"} : \A v :
            Decision(info, c, field, v) =
                (c.value = "on" \/ (c.value = "toggle" /\ ~v))
  <2>1. \A v : Decision(info, c, "source", v) = from_id(info, c.source)
    BY SMT DEF Decision
  <2>2. \A v : Decision(info, c, "volume", v) =
                    -GainByte(c.value + (IF c.relative THEN v ELSE 0))
    BY SMT DEF Decision
  <2>3. ASSUME NEW field \in {"mute", "dirac"}, NEW v
        PROVE  Decision(info, c, field, v) =
                (c.value = "on" \/ (c.value = "toggle" /\ ~v))
    BY SMT DEF Decision
  <2> QED BY <2>1, <2>2, <2>3
<1>3. c.op = "SetSource" => x.master.source = c.source
  BY Zenon DEF Outcome
<1>4. /\ c.op # "SetSource" => x.master.source = d.master.source
      /\ c.op # "SetVolume" => x.master.volume = d.master.volume
      /\ c.op # "DiracBypass" => x.master.dirac = d.master.dirac
  BY Zenon DEF Outcome
<1>5. ASSUME c.op = "SetVolume"
      PROVE  x.master.volume = Decision(info, c, "volume", The(saved).volume)
  <2> PICK v, w : v = The(saved).volume /\ w = c.value
    OBVIOUS
  <2>1. x.master.volume = -GainByte(r.value)
    BY <1>5, Zenon DEF MasterLeft
  <2>2. r.value = w + (IF c.relative THEN v ELSE 0)
    BY <1>1, <1>5
  <2> QED BY <1>2, <2>1, <2>2, Zenon
<1>6. ASSUME c.op = "DiracBypass"
      PROVE  x.master.dirac = Decision(info, c, "dirac", The(saved).dirac)
  <2>1. x.master.dirac = (r.value = 0)
    BY <1>6, Zenon DEF MasterLeft
  <2>2. "dirac" \in {"mute", "dirac"}
    OBVIOUS
  <2> QED BY <1>1, <1>2, <1>6, <2>1, <2>2, Zenon
<1>7. ASSUME c.op = "SetMute", c.value # "restore"
      PROVE  x.master.mute = Decision(info, c, "mute", The(saved).mute)
  <2>1. x.master.mute = (Bit(r.value) # 0)
    BY <1>7, Zenon DEF MasterLeft
  <2>2. "mute" \in {"mute", "dirac"}
    OBVIOUS
  <2>3. c.value \in {"on", "off", "toggle"}
    BY <1>7 DEF Mutes
  <2> QED BY <1>1, <1>2, <1>7, <2>1, <2>2, <2>3, Zenon
<1>8. ASSUME c.op = "SetMute", c.value = "restore"
      PROVE  x.master.mute = The(saved).mute
  <2>1. x.master.mute = (Bit(r.value) # 0)
    BY <1>8, Zenon DEF MasterLeft
  <2>2. The(saved).mute \in BOOLEAN
    BY <1>8 DEF Mutes
  <2> QED BY <1>1, <1>8, <2>1, <2>2, Zenon
<1>9. c.op \notin {"SetMute", "FirLoadStart"} => x.master.mute = d.master.mute
  BY DEF MasterLeft
<1> QED BY <1>2, <1>3, <1>4, <1>5, <1>6, <1>7, <1>8, <1>9, Zenon DEF Moves

LEMMA TakenMoves ==
    ASSUME FitInv, Sending, NEW c, c = Head(todo), Mutes(c, saved),
           NEW e, e = Received(dsp[at], Infos[at], Outgoing)
    PROVE  /\ Moves(Infos[at], c, saved, dsp[at].master, e.master)
           /\ IsMaster(e.master)
<1>1. Places /\ MemoryInv /\ SavedInv /\ Fitting(todo, line, at)
  BY DEF FitInv
<1> PICK x : x = execute(dsp[at], Outgoing)
  OBVIOUS
<1> PICK r : r = Resolved(c)
  OBVIOUS
<1>2. Outcome(dsp[at], c, x) /\ MasterLeft(dsp[at], c, r, x)
  BY <1>1, TakenOutcome
<1>3. Allowed(c, line, at)
  BY <1>1, FittingRest DEF Sending
<1>4. /\ c.op = "SetVolume" => /\ "value" \in DOMAIN c /\ c.value \in Int
                               /\ c.relative \in BOOLEAN
      /\ c.op = "DiracBypass" => "value" \in DOMAIN c
  BY <1>3 DEF Allowed, StepFits
<1>5. Moves(Infos[at], c, saved, dsp[at].master, x.master)
  BY <1>2, <1>4, OutcomeMoves
<1>6. IsMaster(e.master)
  BY <1>1, TakenMemory DEF Memory
<1>7. e = IF x.next # None /\ ~SwitchesLate(Infos[at]) THEN Switched(x)
          ELSE x
  BY Zenon DEF Received
<1>8. CASE e = x
  BY <1>5, <1>6, <1>8
<1>9. CASE e = Switched(x)
  <2> PICK m : m = [x.master EXCEPT !.preset = The(x.next)]
    OBVIOUS
  <2>1. e.master = m
    BY <1>9, BlankIs, Zenon DEF Switched
  <2>2. /\ m.source = x.master.source /\ m.volume = x.master.volume
        /\ m.dirac = x.master.dirac /\ m.mute = x.master.mute
    <3>1. DOMAIN m = {"preset", "source", "volume", "mute", "dirac"}
      BY <1>6, <2>1 DEF IsMaster
    <3>2. DOMAIN m = DOMAIN x.master
      OBVIOUS
    <3> QED BY <3>1, <3>2
  <2>3. Moves(Infos[at], c, saved, dsp[at].master, m)
    BY <1>5, <2>2, Zenon DEF Moves
  <2> QED BY <1>6, <2>1, <2>3, Zenon
<1> QED BY <1>7, <1>8, <1>9, Zenon

-----------------------------------------------------------------------------
(* Where a job is in what its lines ask for *)

Steady == \A j \in Jobs : PlansSteer(j)

LEMMA SteersHere ==
    ASSUME Steady, Places, NEW l \in DOMAIN Lines, NEW i \in DOMAIN Infos,
           NEW p, p = Plan(l, i)
    PROVE  /\ After(i)[l] = AfterRequest(After(i)[l - 1], Lines[l])
           /\ \/ Stopped(Table(i), p, Len(p))
              \/ /\ PlanSteers(Infos[i], p, Lines[l])
                 /\ After(i)[l].volume <= 0
                 /\ p # <<>> /\ p[1].op = "SetConfig" =>
                        After(i)[l].preset = p[1].config
                 /\ p = <<>> \/ p[1].op # "SetConfig" =>
                        After(i)[l].preset = After(i)[l - 1].preset
<1>1. PlansSteer(job)
  BY DEF Steady, Places
<1> PICK info, t : info = Infos[i] /\ t = Table(i)
  OBVIOUS
<1> PICK m : m = After(i)
  OBVIOUS
<1>2. /\ t = table(info) /\ p = run_command(t, info, Lines[l])
      /\ m = MasterAfter(info, Lines)
  BY DEF Places, Table, Plan, After
<1>3. \/ Stopped(t, p, Len(p))
      \/ /\ PlanSteers(info, p, Lines[l])
         /\ m[l].volume <= 0
         /\ m[l].preset =
                IF p # <<>> /\ p[1].op = "SetConfig"
                THEN p[1].config ELSE m[l - 1].preset
  BY <1>1, <1>2, Zenon DEF PlansSteer, Infos, Lines
<1>4. Len(Lines) \in Nat /\ DOMAIN Lines = 1 .. Len(Lines)
  BY JobFacts DEF Places
<1>5. m[l] = AfterRequest(m[l - 1], Lines[l])
  <2>1. \A k \in 1 .. Len(Lines) :
            MasterAfter(info, Lines)[k] =
                AfterRequest(MasterAfter(info, Lines)[k - 1], Lines[k])
    BY <1>4, MasterAfterIs
  <2> QED BY <1>2, <1>4, <2>1
<1>6. \/ Stopped(t, p, Len(p))
      \/ /\ PlanSteers(info, p, Lines[l])
         /\ m[l].volume <= 0
         /\ p # <<>> /\ p[1].op = "SetConfig" => m[l].preset = p[1].config
         /\ p = <<>> \/ p[1].op # "SetConfig" =>
                m[l].preset = m[l - 1].preset
  BY <1>3
<1> QED BY <1>5, <1>6, Zenon

LEMMA SameAfter ==
    ASSUME UNCHANGED job, NEW i
    PROVE  After(i)' = After(i)
  BY DEF After, Infos, Lines

(* A device as a line begins on it. *)
LEMMA SteeredStart ==
    ASSUME NEW i, NEW info, NEW p, NEW req, NEW d, IsMaster(d.master),
           NEW was, Named(d.master, info) = was
    PROVE  /\ Began(was, info)
           /\ Follows(info, req, p, 0, was, d.master, None)
           /\ PresetKept(p, d, 0, was)
<1>1. PresetKept(p, d, 0, was)
  BY BeganAs DEF PresetKept
<1> QED BY <1>1, BeganAs, FollowsStart

(* One step after the other, on the device that is being served.           *)
Was == After(at)[line - 1]
On(d, n, status) ==
    \/ Stopped(Table(at), Here, Len(Here))
    \/ /\ Follows(Infos[at], Lines[line], Here, n, Was, d.master, status)
       /\ PresetKept(Here, d, n, Was)

LEMMA MasterNext ==
    ASSUME UNCHANGED <<job, tables, line, at, results, result>>, Running,
           Places, ReturnedInv, MasterInv,
           \A i \in DOMAIN Infos : dsp'[i] = dsp[i] \/ i = at \/ Failed(i),
           Here' = Here, NEW n, Passed' = n, On(dsp'[at], n, saved')
    PROVE  MasterInv'
<1>1. /\ Infos' = Infos /\ Lines' = Lines /\ Table(at)' = Table(at)
      /\ \A i : After(i)' = After(i)
  BY SameJob, SameAfter DEF Table
<1>2. result' # "ok"
  BY DEF Running
<1>3. Was' = Was /\ Began(Was, Infos[at])
  BY <1>1 DEF Was, MasterInv, Steered
<1>4. On(dsp[at], Passed, saved)'
  <2>1. Follows(Infos[at], Lines[line], Here, n, Was, dsp'[at].master, saved')
        => Follows(Infos[at], Lines[line], Here, Passed, Was, dsp[at].master,
                   saved)'
    BY <1>1, <1>3, Zenon
  <2>2. PresetKept(Here, dsp'[at], n, Was) =>
            PresetKept(Here, dsp[at], Passed, Was)'
    BY <1>3, Zenon
  <2>3. Stopped(Table(at), Here, Len(Here)) =>
            Stopped(Table(at), Here, Len(Here))'
    BY <1>1, Zenon
  <2> QED BY <2>1, <2>2, <2>3, Zenon DEF On
<1>5. Steered'
  BY <1>1, <1>3, <1>4 DEF Steered, On, Was
<1>6. at \in Nat /\ \A i : Failed(i) => i < at /\ i # at
  BY NotFailedYet
<1>7. ASSUME NEW i \in DOMAIN Infos
      PROVE  /\ i > at => LeftBy(i, line - 1)'
             /\ i < at /\ results[i] = "ok" => LeftBy(i, line)'
  <2>1. /\ i > at => LeftBy(i, line - 1) /\ dsp'[i] = dsp[i]
        /\ i < at /\ results[i] = "ok" => LeftBy(i, line) /\ dsp'[i] = dsp[i]
    <3>1. i \in Nat
      BY JobFacts DEF Places
    <3> QED BY <1>6, <3>1 DEF MasterInv, Failed
  <2> QED BY <1>1, <2>1 DEF LeftBy
<1> QED BY <1>1, <1>2, <1>5, <1>7 DEF MasterInv

LEMMA OnHere ==
    ASSUME Running, MasterInv
    PROVE  On(dsp[at], Passed, saved) /\ Began(Was, Infos[at])
  BY DEF MasterInv, Steered, On, Was

(* A step of a plan that can be taken to its end is of the plan.           *)
LEMMA HereSteers ==
    ASSUME Steady, Sound, PlanInv, Running, todo # <<>>, MasterInv,
           ~Stopped(Table(at), Here, Len(Here)),
           NEW n, n = Passed, NEW c, c = Head(todo), NEW p, p = Here,
           NEW req, req = Lines[line], NEW info, info = Infos[at],
           NEW was, was = Was
    PROVE  /\ PlanSteers(info, p, req)
           /\ n \in Nat /\ n + 1 \in DOMAIN p /\ c = p[n + 1]
           /\ Began(was, info) /\ FieldAfter(req, "volume", was.volume) <= 0
           /\ IsMaster(dsp[at].master)
           /\ Follows(info, req, p, n, was, dsp[at].master, saved)
           /\ PresetKept(p, dsp[at], n, was)
           /\ Mutes(c, saved)
<1>1. /\ Places /\ MemoryInv /\ Along /\ SavedInv
  BY DEF PlanInv, FitInv
<1>2. /\ n \in Nat /\ n + 1 \in 1 .. Len(p) /\ c = p[n + 1] /\ IsSequence(p)
  BY <1>1, HeadStep
<1>3. n + 1 \in DOMAIN p
  BY <1>2 DEF IsSequence
<1>4. /\ PlanSteers(info, p, req)
      /\ After(at)[line] = AfterRequest(was, req)
      /\ After(at)[line].volume <= 0
  BY <1>1, SteersHere DEF Here, Places, Was
<1>5. /\ Began(was, info)
      /\ Follows(info, req, p, n, was, dsp[at].master, saved)
      /\ PresetKept(p, dsp[at], n, was)
  BY OnHere DEF On
<1>6. FieldAfter(req, "volume", was.volume) <= 0
  <2> PICK N, v : N = AfterRequest(was, req) /\ v = was.volume
    OBVIOUS
  <2>1. N["volume"] = FieldAfter(req, "volume", v)
    <3>1. IsStatus(was) /\ "volume" \in MasterFields
      BY <1>5 DEF Began, MasterFields
    <3> QED BY <3>1, FieldAfterIs, Zenon
  <2>2. N.volume <= 0
    BY <1>4, Zenon
  <2> QED BY <2>1, <2>2
<1>7. IsMaster(dsp[at].master)
  BY <1>1 DEF Places, MemoryInv, Kept, Memory
<1>8. Mutes(c, saved)
  <2> SUFFICES ASSUME c.op = "SetMute"
               PROVE  /\ "value" \in DOMAIN c
                      /\ \/ c.value \in {"on", "off", "toggle"}
                         \/ /\ c.value = "restore"
                            /\ The(saved).mute \in BOOLEAN
    BY DEF Mutes
  <2> PICK k : k = n + 1
    OBVIOUS
  <2>1. k \in DOMAIN p /\ p[k] = c /\ k - 1 = n
    BY <1>2, <1>3
  <2>2. /\ "value" \in DOMAIN c
        /\ \/ c.value \in {"on", "off", "toggle"}
           \/ c.value = "restore" /\ Informed(p, n, "mute")
    BY <1>4, <2>1, Zenon DEF PlanSteers
  <2>3. Informed(p, n, "mute") => The(saved).mute \in BOOLEAN
    <3>1. "mute" \in {"volume", "mute", "dirac"}
      OBVIOUS
    <3>2. /\ Informed(p, n, "mute") => saved # None
          /\ saved # None => IsMaster(The(saved))
      BY <1>5, <3>1, Zenon DEF Follows
    <3> QED BY <3>2 DEF IsMaster
  <2> QED BY <2>2, <2>3
<1> QED BY <1>2, <1>3, <1>4, <1>5, <1>6, <1>7, <1>8

LEMMA OnAnswered ==
    ASSUME Steady, Sound, PlanInv, MasterInv, Answered,
           NEW e, e = Received(dsp[at], Infos[at], Outgoing)
    PROVE  On(e, Passed + 1, saved')
<1>1. /\ Running /\ todo # <<>> /\ Sending
      /\ saved' = IF Head(todo).op = "ReadMemory"
                  THEN Some(dsp[at].master) ELSE saved
      /\ FitInv /\ Places /\ MemoryInv /\ Fitting(todo, line, at)
      /\ Along /\ SwitchInv
  BY DEF Answered, Sending, PlanInv, FitInv
<1> SUFFICES ASSUME ~Stopped(Table(at), Here, Len(Here))
             PROVE  On(e, Passed + 1, saved')
  BY DEF On
<1> PICK n, c, p : n = Passed /\ c = Head(todo) /\ p = Here
  OBVIOUS
<1> PICK req, info, was : /\ req = Lines[line] /\ info = Infos[at]
                          /\ was = Was
  OBVIOUS
<1> PICK m, s, s2 : m = dsp[at].master /\ s = saved /\ s2 = saved'
  OBVIOUS
<1>2. /\ PlanSteers(info, p, req)
      /\ n \in Nat /\ n + 1 \in DOMAIN p /\ c = p[n + 1]
      /\ Began(was, info) /\ FieldAfter(req, "volume", was.volume) <= 0
      /\ IsMaster(m) /\ Follows(info, req, p, n, was, m, s)
      /\ PresetKept(p, dsp[at], n, was) /\ Mutes(c, s)
  BY <1>1, HereSteers
<1>3. Moves(info, c, s, m, e.master)
  BY <1>1, <1>2, TakenMoves
<1>4. s2 = IF c.op = "ReadMemory" THEN Some(m) ELSE s
  BY <1>1
<1> PICK x : x = e.master
  OBVIOUS
<1>5. Follows(info, req, p, n + 1, was, x, s2)
  BY <1>2, <1>3, <1>4, FollowsMore
<1>6. PresetKept(p, e, n + 1, was)
  <2>1. CASE c.op = "SetConfig"
    <3>1. p[1].op = "SetConfig" /\ p # <<>>
      BY <1>1, <2>1, HeadStep
    <3> QED BY <1>2, <3>1 DEF PresetKept
  <2>2. CASE c.op # "SetConfig"
    <3>1. dsp[at].next = None \/ SwitchesLate(Infos[at])
      BY <1>1 DEF SwitchInv, SwitchOf, Places
    <3>2. e.master.preset = dsp[at].master.preset
      BY <1>1, <2>2, <3>1, TakenSteps
    <3> QED BY <1>2, <3>2 DEF PresetKept
  <2> QED BY <2>1, <2>2
<1> QED BY <1>5, <1>6, Zenon DEF On

LEMMA OnSkipping ==
    ASSUME Steady, Sound, PlanInv, MasterInv, Skipping
    PROVE  On(dsp[at], Passed + 1, saved)
<1>1. /\ Running /\ todo # <<>> /\ Head(todo).op \notin Sent
      /\ FitInv /\ Places /\ Along
  BY DEF Skipping, PlanInv, FitInv
<1> SUFFICES ASSUME ~Stopped(Table(at), Here, Len(Here))
             PROVE  On(dsp[at], Passed + 1, saved)
  BY DEF On
<1> PICK n, c, p : n = Passed /\ c = Head(todo) /\ p = Here
  OBVIOUS
<1> PICK req, info, was : /\ req = Lines[line] /\ info = Infos[at]
                          /\ was = Was
  OBVIOUS
<1> PICK m, s : m = dsp[at].master /\ s = saved
  OBVIOUS
<1>2. /\ PlanSteers(info, p, req)
      /\ n \in Nat /\ n + 1 \in DOMAIN p /\ c = p[n + 1]
      /\ Began(was, info) /\ FieldAfter(req, "volume", was.volume) <= 0
      /\ IsMaster(m) /\ Follows(info, req, p, n, was, m, s)
      /\ PresetKept(p, dsp[at], n, was)
  BY <1>1, HereSteers
<1>3. Moves(info, c, s, m, m)
  BY <1>1 DEF Moves, Sent
<1>4. s = IF c.op = "ReadMemory" THEN Some(m) ELSE s
  BY <1>1 DEF Sent
<1>5. Follows(info, req, p, n + 1, was, m, s)
  BY <1>2, <1>3, <1>4, FollowsMore
<1>6. PresetKept(p, dsp[at], n + 1, was)
  <2> SUFFICES ASSUME p # <<>>, p[1].op = "SetConfig", n = 0 PROVE FALSE
    BY <1>2 DEF PresetKept
  <2>1. c.op = "SetConfig"
    BY <1>2
  <2> QED BY <1>1, <2>1 DEF Sent
<1> QED BY <1>5, <1>6, Zenon DEF On

LEMMA OnAgain ==
    ASSUME Steady, Sound, PlanInv, MasterInv, Again
    PROVE  On(dsp[at], 1, saved)
<1>1. /\ Running /\ FitInv /\ Places /\ Along
      /\ Passed = 2 /\ Here # <<>> /\ Here[1].op = "SetConfig"
  BY AlongAgain DEF Again, PlanInv, FitInv
<1>2. Here[2].op = "ReadMemory"
  <2>1. IsSequence(Here) /\ PlanDoes(Table(at), Here, Lines[line])
    BY <1>1, PlanSound DEF Here, Places
  <2> QED BY <1>1, <2>1, SwitchingPlan
<1> SUFFICES ASSUME ~Stopped(Table(at), Here, Len(Here))
             PROVE  On(dsp[at], 1, saved)
  BY DEF On
<1> PICK req, info, was, p, m : /\ req = Lines[line] /\ info = Infos[at]
                                /\ was = Was /\ p = Here
                                /\ m = dsp[at].master
  OBVIOUS
<1>3. Follows(info, req, p, 2, was, m, saved)
  BY <1>1, OnHere DEF On
<1>4. Follows(info, req, p, 1, was, m, saved)
  BY <1>1, <1>2, <1>3, FollowsAgain
<1>5. PresetKept(p, dsp[at], 1, was)
  BY <1>1 DEF PresetKept
<1> QED BY <1>4, <1>5, Zenon DEF On

LEMMA OnSwitch ==
    ASSUME Steady, Sound, PlanInv, MasterInv, Running, Switch(at)
    PROVE  On(dsp'[at], Passed, saved)
<1>1. /\ FitInv /\ ReturnedInv /\ Places /\ MemoryInv /\ Along /\ SwitchInv
      /\ at \in DOMAIN Infos
      /\ dsp' = [dsp EXCEPT ![at] = Switched(@)]
  BY DEF Switch, PlanInv, FitInv, Places
<1>2. Passed \in {1, 2} /\ Here # <<>> /\ Here[1].op = "SetConfig"
  BY <1>1, Switches
<1> PICK e : e = dsp'[at]
  OBVIOUS
<1>3. e = Switched(dsp[at])
  BY <1>1 DEF MemoryInv
<1> PICK m : m = [dsp[at].master EXCEPT !.preset = The(dsp[at].next)]
  OBVIOUS
<1>4. e.master = m
  BY <1>3, BlankIs, Zenon DEF Switched
<1>5. IsMaster(dsp[at].master)
  BY <1>1 DEF MemoryInv, Kept, Memory
<1>6. /\ m.source = dsp[at].master.source /\ m.volume = dsp[at].master.volume
      /\ m.dirac = dsp[at].master.dirac /\ m.mute = dsp[at].master.mute
  BY <1>5 DEF IsMaster
<1> SUFFICES ASSUME ~Stopped(Table(at), Here, Len(Here))
             PROVE  On(e, Passed, saved)
  BY DEF On
<1> PICK req, info, was, p, n : /\ req = Lines[line] /\ info = Infos[at]
                                /\ was = Was /\ p = Here /\ n = Passed
  OBVIOUS
<1>7. Follows(info, req, p, n, was, dsp[at].master, saved)
  BY OnHere DEF On
<1>8. Follows(info, req, p, n, was, m, saved)
  BY <1>6, <1>7, FollowsSame
<1>9. PresetKept(p, e, n, was)
  BY <1>2 DEF PresetKept
<1> QED BY <1>4, <1>8, <1>9, Zenon DEF On

(* A line that has come to its end on a device leaves the status it asks   *)
(* for there.                                                              *)
LEMMA LeftHere ==
    ASSUME Steady, Sound, PlanInv, FreshInv, MasterInv, Running, todo = <<>>
    PROVE  LeftBy(at, line)
<1>1. /\ FitInv /\ ReturnedInv /\ Places /\ MemoryInv /\ Along /\ SwitchInv
      /\ at \in DOMAIN Infos /\ line \in DOMAIN Lines
  BY DEF PlanInv, FitInv, Places
<1> PICK p, req, info, was : /\ p = Here /\ req = Lines[line]
                             /\ info = Infos[at] /\ was = Was
  OBVIOUS
<1> PICK m : m = dsp[at].master
  OBVIOUS
<1>2. Remains(todo, p, Passed) /\ IsSequence(p)
  BY <1>1 DEF Along, Taking, Remains
<1>3. Passed = Len(p)
  BY <1>2, RemainsEnd
<1>4. ~Stopped(Table(at), p, Len(p))
  BY <1>1, <1>3 DEF Along, Taking, Stopped
<1>5. dsp[at].next = None
  BY <1>1, StillWaiting
<1>6. /\ After(at)[line] = AfterRequest(was, req)
      /\ PlanSteers(info, p, req)
      /\ p # <<>> /\ p[1].op = "SetConfig" =>
            After(at)[line].preset = p[1].config
      /\ p = <<>> \/ p[1].op # "SetConfig" =>
            After(at)[line].preset = was.preset
  BY <1>1, <1>4, SteersHere DEF Here, Was
<1>7. /\ Began(was, info)
      /\ Follows(info, req, p, Len(p), was, m, saved)
      /\ PresetKept(p, dsp[at], Len(p), was)
  BY <1>3, <1>4, OnHere DEF On
<1>8. m.preset = AfterRequest(was, req).preset
  <2>1. CASE p # <<>> /\ p[1].op = "SetConfig"
    <3>1. Len(p) > 0
      BY <1>2, <2>1, Sequences DEF IsSequence
    <3>2. m.preset = p[1].config
      BY <1>3, <1>5, <2>1, <3>1 DEF FreshInv, PresetSet
    <3> QED BY <1>6, <2>1, <3>2
  <2>2. CASE p = <<>> \/ p[1].op # "SetConfig"
    <3>1. m.preset = was.preset
      BY <1>7, <2>2 DEF PresetKept
    <3> QED BY <1>6, <2>2, <3>1
  <2> QED BY <2>1, <2>2
<1>9. IsMaster(m)
  BY <1>1 DEF MemoryInv, Kept, Memory
<1>10. Named(m, info) = AfterRequest(was, req)
  BY <1>6, <1>7, <1>8, <1>9, FollowsEnd
<1> QED BY <1>6, <1>10 DEF LeftBy

LEMMA MasterLeaving ==
    ASSUME Steady, Sound, PlanInv, FreshInv, MasterInv, Leaving,
           [Next]_vars
    PROVE  MasterInv'
<1> PICK r : /\ Return(r) /\ r \in {"ok", "NoAnswer"} \cup Refusals
             /\ r = "ok" => todo = <<>> /\ dsp' = dsp
  BY DEF Leaving
<1>1. /\ FitInv /\ ReturnedInv /\ Places /\ MemoryInv /\ Running
      /\ UNCHANGED <<job, tables>> /\ saved' = None
      /\ dsp' = dsp \/ (Sending /\ dsp' = Taken)
  BY DEF PlanInv, FitInv, Leaving, Return
<1>2. /\ Infos' = Infos /\ Lines' = Lines
      /\ \A i : After(i)' = After(i)
      /\ \A i : Table(i)' = Table(i)
      /\ \A l, i : Plan(l, i)' = Plan(l, i)
  BY <1>1, SameJob, SameAfter
<1>3. /\ Len(Infos) \in Nat \ {0} /\ DOMAIN Infos = 1 .. Len(Infos)
      /\ Len(Lines) \in Nat \ {0} /\ DOMAIN Lines = 1 .. Len(Lines)
      /\ line \in DOMAIN Lines /\ at \in DOMAIN Infos
  BY <1>1, JobFacts DEF Places
<1>4. /\ DOMAIN results = 1 .. at - 1 /\ Len(results) = at - 1 /\ at \in Nat
  BY <1>1, NotFailedYet
<1>5. PICK S : results \in Seq(S)
  BY <1>1 DEF ReturnedInv
<1> PICK all : all = Append(results, r)
  OBVIOUS
<1>6. /\ DOMAIN all = 1 .. at /\ all[at] = r
      /\ \A k \in 1 .. at - 1 : all[k] = results[k]
  BY <1>4, <1>5
<1>7. \A i \in DOMAIN Infos : i # at => dsp'[i] = dsp[i]
  BY <1>1 DEF Taken, MemoryInv
(* What each device was left with. *)
<1>8. \A l, i : dsp'[i] = dsp[i] /\ LeftBy(i, l) =>
            Named(dsp'[i].master, Infos[i]) = After(i)[l]
  BY DEF LeftBy
<1>9. ASSUME NEW i \in DOMAIN Infos, i < at, results[i] = "ok"
      PROVE  Named(dsp'[i].master, Infos[i]) = After(i)[line]
  <2>1. i # at
    BY <1>4, <1>9
  <2> QED BY <1>1, <1>7, <1>8, <1>9, <2>1 DEF MasterInv
<1>10. ASSUME r = "ok"
       PROVE  Named(dsp'[at].master, Infos[at]) = After(at)[line]
  BY <1>1, <1>8, <1>10, LeftHere
<1>11. ASSUME NEW i \in DOMAIN Infos, i > at
       PROVE  Named(dsp'[i].master, Infos[i]) = After(i)[line - 1]
  <2>1. i # at
    BY <1>4, <1>11
  <2> QED BY <1>1, <1>7, <1>8, <1>11, <2>1 DEF MasterInv
(* Where it goes on, it begins with the status that was left there.        *)
<1>12. ASSUME NEW l \in DOMAIN Lines, NEW i \in DOMAIN Infos,
              line' = l, at' = i, todo' = Plan(l, i),
              Named(dsp'[i].master, Infos[i]) = After(i)[l - 1]
       PROVE  Steered'
  <2>1. Passed' = 0
    BY <1>1, <1>12, AlongReturn DEF PlanInv
  <2>2. IsMaster(dsp'[i].master)
    <3>1. MemoryInv' /\ Infos' = Infos
      <4>1. FitInv'
        BY <1>1, FitStep DEF Sound
      <4> QED BY <1>2, <4>1 DEF FitInv
    <3> QED BY <3>1 DEF MemoryInv, Kept, Memory
  <2> PICK info, p, req, d, was :
        /\ info = Infos[i] /\ p = Plan(l, i) /\ req = Lines[l]
        /\ d = dsp'[i] /\ was = After(i)[l - 1]
    OBVIOUS
  <2>3. /\ Began(was, info)
        /\ Follows(info, req, p, 0, was, d.master, None)
        /\ PresetKept(p, d, 0, was)
    BY <1>12, <2>2, SteeredStart
  <2>4. /\ (After(at)[line - 1])' = was /\ Infos[at]' = info
        /\ Here' = p /\ Lines[line]' = req /\ dsp[at]' = d
    BY <1>2, <1>12 DEF Here
  <2>5. /\ Began(After(at)[line - 1], Infos[at])'
        /\ Follows(Infos[at], Lines[line], Here, Passed,
                   After(at)[line - 1], dsp[at].master, saved)'
        /\ PresetKept(Here, dsp[at], Passed, After(at)[line - 1])'
    BY <1>1, <2>1, <2>3, <2>4, Zenon
  <2> QED BY <2>5 DEF Steered
<1>13. CASE /\ at < Len(Infos) /\ line' = line /\ at' = at + 1
            /\ results' = all /\ result' = result
            /\ todo' = Plan(line, at + 1)
  <2>1. at + 1 \in DOMAIN Infos /\ at + 1 > at
    BY <1>3, <1>4, <1>13
  <2>2. Steered'
    BY <1>3, <1>11, <1>12, <1>13, <2>1
  <2>3. ASSUME NEW i \in DOMAIN Infos
        PROVE  /\ i > at + 1 => LeftBy(i, line - 1)'
               /\ i < at + 1 /\ all[i] = "ok" => LeftBy(i, line)'
    <3>1. /\ i > at + 1 => i > at
          /\ i < at + 1 => i = at \/ i \in 1 .. at - 1
      BY <1>3, <1>4
    <3>2. i > at + 1 =>
            Named(dsp'[i].master, Infos[i]) = After(i)[line - 1]
      BY <1>11, <3>1
    <3>3. i < at + 1 /\ all[i] = "ok" =>
            Named(dsp'[i].master, Infos[i]) = After(i)[line]
      <4>1. CASE i = at
        BY <1>6, <1>10, <4>1
      <4>2. CASE i \in 1 .. at - 1
        BY <1>4, <1>6, <1>9, <4>2
      <4> QED BY <3>1, <4>1, <4>2
    <3> QED BY <1>2, <1>13, <3>2, <3>3 DEF LeftBy
  <2>4. result' # "ok"
    BY <1>1, <1>13 DEF Running
  <2> QED BY <1>2, <1>13, <2>2, <2>3, <2>4 DEF MasterInv
<1>14. CASE /\ at = Len(Infos) /\ line < Len(Lines) /\ line' = line + 1
            /\ at' = 1 /\ results' = <<>> /\ result' = result
            /\ todo' = Plan(line + 1, 1) /\ r = "ok"
            /\ \A k \in DOMAIN results : results[k] = "ok"
  <2> PICK next : next = line + 1
    OBVIOUS
  <2>1. /\ next \in DOMAIN Lines /\ 1 \in DOMAIN Infos
        /\ next - 1 = line /\ line' = next /\ todo' = Plan(next, 1)
    BY <1>3, <1>14
  <2>2. ASSUME NEW i \in DOMAIN Infos
        PROVE  Named(dsp'[i].master, Infos[i]) = After(i)[line]
    <3>1. CASE i = at
      BY <1>10, <1>14, <3>1
    <3>2. CASE i # at
      <4>1. i < at /\ i \in DOMAIN results
        BY <1>3, <1>4, <1>14, <3>2
      <4> QED BY <1>9, <1>14, <4>1
    <3> QED BY <3>1, <3>2
  <2>3. Steered'
    <3>1. Named(dsp'[1].master, Infos[1]) = After(1)[next - 1]
      BY <2>1, <2>2
    <3> QED BY <1>12, <1>14, <2>1, <3>1
  <2>4. \A i \in DOMAIN Infos : LeftBy(i, line - 1)' /\ ~(i < at)'
    <3>1. line' - 1 = line /\ \A i \in DOMAIN Infos : ~(i < 1)
      BY <1>3, <2>1
    <3> QED BY <1>2, <1>14, <2>2, <3>1 DEF LeftBy
  <2>5. result' # "ok"
    BY <1>1, <1>14 DEF Running
  <2> QED BY <1>2, <1>14, <2>3, <2>4, <2>5 DEF MasterInv
<1>15. CASE /\ at = Len(Infos) /\ results' = all /\ result' # "running"
            /\ result' = "ok" =>
                /\ line = Len(Lines) /\ r = "ok"
                /\ \A k \in DOMAIN results : results[k] = "ok"
  <2>1. ASSUME result' = "ok", NEW i \in DOMAIN Infos
        PROVE  /\ Named(dsp'[i].master, Infos[i]) = After(i)[Len(Lines)]
               /\ all[i] = "ok"
    <3>1. CASE i = at
      BY <1>6, <1>10, <1>15, <2>1, <3>1
    <3>2. CASE i # at
      <4>1. i < at /\ i \in DOMAIN results /\ i \in 1 .. at - 1
        BY <1>3, <1>4, <1>15, <3>2
      <4> QED BY <1>6, <1>9, <1>15, <2>1, <4>1
    <3> QED BY <3>1, <3>2
  <2>2. result' = "ok" =>
            \A i \in DOMAIN Infos : LeftBy(i, Len(Lines))' /\ ~Failed(i)'
    BY <1>2, <1>15, <2>1 DEF LeftBy, Failed
  <2> QED BY <1>2, <1>15, <2>2 DEF MasterInv, Running
<1>16. \/ /\ at < Len(Infos) /\ line' = line /\ at' = at + 1
          /\ results' = all /\ result' = result
          /\ todo' = Plan(line, at + 1)
       \/ /\ at = Len(Infos) /\ line < Len(Lines) /\ line' = line + 1
          /\ at' = 1 /\ results' = <<>> /\ result' = result
          /\ todo' = Plan(line + 1, 1) /\ r = "ok"
          /\ \A k \in DOMAIN results : results[k] = "ok"
       \/ /\ at = Len(Infos) /\ results' = all /\ result' # "running"
          /\ result' = "ok" =>
                /\ line = Len(Lines) /\ r = "ok"
                /\ \A k \in DOMAIN results : results[k] = "ok"
  BY <1>1, Turned
<1> QED BY <1>13, <1>14, <1>15, <1>16

LEMMA MasterStep ==
    ASSUME Steady, Sound, PlanInv, FreshInv, MasterInv, [Next]_vars
    PROVE  MasterInv'
<1>1. /\ FitInv /\ ReturnedInv /\ Along /\ SwitchInv /\ Places /\ MemoryInv
      /\ Fitting(todo, line, at)
  BY DEF PlanInv, FitInv
<1>2. at \in DOMAIN Infos
  BY <1>1 DEF Places
<1>3. CASE Answered
  <2>1. /\ Sending /\ dsp' = Taken /\ Running
        /\ UNCHANGED <<job, tables, line, at, results, result>>
    BY <1>3 DEF Answered, Sending
  <2>2. Passed' = Passed + 1 /\ Here' = Here
    BY <1>1, <1>3, AlongAnswered
  <2> PICK e : e = Received(dsp[at], Infos[at], Outgoing)
    OBVIOUS
  <2>3. /\ dsp'[at] = e
        /\ \A i \in DOMAIN Infos : dsp'[i] = dsp[i] \/ i = at
    BY <1>1, <1>2, <2>1 DEF Taken, MemoryInv
  <2>4. On(e, Passed + 1, saved')
    BY <1>3, OnAnswered
  <2> QED BY <1>1, <2>1, <2>2, <2>3, <2>4, MasterNext
<1>4. CASE Skipping
  <2>1. /\ UNCHANGED <<job, tables, line, at, saved, dsp, results, result>>
        /\ Running
    BY <1>4 DEF Skipping
  <2>2. Passed' = Passed + 1 /\ Here' = Here
    BY <1>1, <1>4, AlongSkipping
  <2>3. On(dsp[at], Passed + 1, saved)
    BY <1>4, OnSkipping
  <2>4. On(dsp'[at], Passed + 1, saved')
    BY <2>1, <2>3
  <2> QED BY <1>1, <2>1, <2>2, <2>4, MasterNext
<1>5. CASE Again
  <2>1. /\ UNCHANGED <<job, tables, line, at, saved, dsp, results, result>>
        /\ Running
    BY <1>5 DEF Again
  <2>2. Passed' = 1 /\ Here' = Here
    BY <1>1, <1>5, AlongAgain
  <2>3. On(dsp[at], 1, saved)
    BY <1>5, OnAgain
  <2>4. On(dsp'[at], 1, saved')
    BY <2>1, <2>3
  <2> QED BY <1>1, <2>1, <2>2, <2>4, MasterNext
<1>6. CASE \E i \in DOMAIN Infos : Switch(i)
  <2> PICK i \in DOMAIN Infos : Switch(i)
    BY <1>6
  <2>1. /\ UNCHANGED <<job, tables, line, at, saved, results, result>>
        /\ dsp' = [dsp EXCEPT ![i] = Switched(@)]
    BY DEF Switch
  <2>2. Here' = Here /\ Passed' = Passed
    BY <1>1, AlongSwitch
  <2>3. ~(Running /\ i = at) => Failed(i)
    BY <1>1, Switches
  <2>4. CASE Running
    <3>1. \A k \in DOMAIN Infos : dsp'[k] = dsp[k] \/ k = at \/ Failed(k)
      BY <1>1, <2>1, <2>3, <2>4 DEF MemoryInv
    <3>2. On(dsp'[at], Passed, saved)
      <4>1. CASE i = at
        BY <2>4, <4>1, OnSwitch
      <4>2. CASE i # at
        <5>1. dsp'[at] = dsp[at]
          BY <1>1, <1>2, <2>1, <4>2 DEF MemoryInv
        <5> QED BY <2>4, <5>1, OnHere
      <4> QED BY <4>1, <4>2
    <3>3. On(dsp'[at], Passed, saved')
      BY <2>1, <3>2
    <3> QED BY <1>1, <2>1, <2>2, <2>4, <3>1, <3>3, MasterNext
  <2>5. CASE ~Running
    <3>1. result # "ok"
      BY <2>3, <2>5 DEF MasterInv
    <3> QED BY <2>1, <2>5, <3>1 DEF MasterInv, Running
  <2> QED BY <2>4, <2>5
<1>7. CASE Panicking
  BY <1>7 DEF Panicking, MasterInv, Running
<1>8. CASE Still
  <2>1. UNCHANGED <<job, tables, line, at, todo, saved, dsp, results, result>>
    BY <1>8 DEF Still
  <2>2. /\ Here' = Here /\ Infos' = Infos /\ Lines' = Lines
        /\ \A i : After(i)' = After(i)
    BY <2>1, SameJob, SameAfter DEF Here
  <2>3. Passed' = Passed
    BY <2>1, <2>2 DEF Passed
  <2>4. CASE Running
    <3>1. On(dsp[at], Passed, saved)
      BY <2>4, OnHere
    <3>2. On(dsp'[at], Passed, saved')
      BY <2>1, <3>1
    <3> QED BY <1>1, <2>1, <2>2, <2>3, <2>4, <3>2, MasterNext
  <2>5. CASE ~Running
    BY <2>1, <2>2, <2>5 DEF MasterInv, Running, LeftBy, Failed
  <2> QED BY <2>4, <2>5
<1> QED
  BY <1>1, <1>3, <1>4, <1>5, <1>6, <1>7, <1>8, MasterLeaving, EveryStepFiner

LEMMA MasterInit ==
    ASSUME Sound, Init
    PROVE  PlanInv /\ FreshInv /\ MasterInv
<1>1. PlanInv
  BY PlanInit
<1>2. /\ line = 1 /\ at = 1 /\ todo = Plan(1, 1) /\ saved = None
      /\ dsp = [i \in DOMAIN Infos |-> Blank(NewMaster)]
      /\ results = <<>> /\ result = "running"
  BY DEF Init
<1>3. /\ \A i \in DOMAIN Infos : Empty(dsp[i]) /\ dsp[i].master = NewMaster
  BY <1>2, BlankIs
<1>4. Places /\ at \in DOMAIN Infos
  BY <1>1 DEF PlanInv, FitInv, Places
<1>5. Here = todo
  BY <1>2 DEF Here
<1>6. IsSequence(Here)
  BY <1>4, PlanSound DEF Here, Places
<1>7. Passed = 0
  BY <1>5, <1>6 DEF Passed, IsSequence
<1>8. FreshInv
  BY <1>3, <1>4, <1>7, EmptyTouched DEF FreshInv, PresetSet
<1>9. \A i : After(i)[0] = Named(NewMaster, Infos[i])
  <2> SUFFICES ASSUME NEW i PROVE After(i)[0] = Named(NewMaster, Infos[i])
    OBVIOUS
  <2> PICK info : info = Infos[i]
    OBVIOUS
  <2>1. Len(Lines) \in Nat
    BY <1>4, JobFacts DEF Places
  <2>2. MasterAfter(info, Lines)[0] = Named(NewMaster, info)
    BY <2>1, MasterAfterIs
  <2> QED BY <2>2 DEF After
<1>10. \A i \in DOMAIN Infos : LeftBy(i, line - 1)
  BY <1>2, <1>3, <1>9 DEF LeftBy
<1>11. IsMaster(NewMaster)
  BY DEF IsMaster, NewMaster
<1>12. Steered
  <2> PICK info, p, req, d, was :
        /\ info = Infos[at] /\ p = Here /\ req = Lines[line]
        /\ d = dsp[at] /\ was = After(at)[line - 1]
    OBVIOUS
  <2>1. IsMaster(d.master) /\ Named(d.master, info) = was
    BY <1>3, <1>4, <1>10, <1>11 DEF LeftBy
  <2>2. /\ Began(was, info)
        /\ Follows(info, req, p, 0, was, d.master, None)
        /\ PresetKept(p, d, 0, was)
    BY <2>1, SteeredStart
  <2> QED BY <1>2, <1>7, <2>2, Zenon DEF Steered
<1>13. at = 1 /\ \A i \in DOMAIN Infos : ~(i < at)
  BY <1>2, <1>4, JobFacts DEF Places
<1>14. MasterInv
  BY <1>2, <1>10, <1>12, <1>13 DEF MasterInv
<1> QED BY <1>1, <1>8, <1>14

(* A job that returned "ok" leaves every device in the master status that  *)
(* its lines ask for one after the other, whatever was switched late and   *)
(* however often the status was read.                                      *)
THEOREM MasterTheorem ==
    ASSUME \A j \in Jobs : Fits(j) /\ PlansDo(j) /\ PlansSteer(j)
    PROVE  Spec => []MasterAsAsked
<1>0. Sound /\ Steady
  BY DEF Sound, Steady
<1> DEFINE Inv == PlanInv /\ FreshInv /\ MasterInv
<1>1. Init => Inv
  BY <1>0, MasterInit
<1>2. Inv /\ [Next]_vars => Inv'
  BY <1>0, PlanStep, FreshStep, MasterStep
<1>3. Inv => MasterAsAsked
  BY DEF MasterInv, MasterAsAsked, LeftBy, After
<1> QED BY <1>1, <1>2, <1>3, PTL DEF Spec
=============================================================================
