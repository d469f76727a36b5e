---------------------------- MODULE CommandCodec ----------------------------
(***************************************************************************)
(* Values, addresses and commands as they are sent: the dialects           *)
(* (protocol/src/dialect.rs) and Commands (protocol/src/commands.rs).      *)
(*                                                                         *)
(* A value is a tuple of its encoding and what it encodes; it takes four   *)
(* bytes.  A frame is its leading bytes and the values behind them.        *)
(* A definition named Bad... is the faulty twin of the one that follows,   *)
(* used by the mutation checks only.                                       *)
(***************************************************************************)
EXTENDS Integers, Sequences

IntValue(x) == <<"Int", x % 2 ^ 16>>
Int32Value(high, low) == <<"Int32", high, low>>
ENABLING == 2
BYPASSED == 3

-----------------------------------------------------------------------------
(* Dialects, of the device d *)

addr(d, val) == [val |-> val, len |-> d.addr_len, extra_bit |-> TRUE]

float(d, x) == <<d.float_encoding, x>>
db(d, x) ==
    IF d.float_encoding = "FixedPoint" THEN <<"FixedPoint of dB", x>>
    ELSE float(d, x)

delay(d, samples) ==
    IF d.addr_len = 2 THEN Int32Value(samples \div 2 ^ 16, samples % 2 ^ 16)
    ELSE IntValue(samples)

mute(d, muted) ==
    IF d.addr_len = 2 THEN Int32Value(IF muted THEN 0 ELSE 128, 0)
    ELSE IntValue(IF muted THEN 1 ELSE 2)

invert(d, inverted) ==
    IF d.addr_len = 2 THEN Int32Value(IF inverted THEN 65408 ELSE 128, 0)
    ELSE IntValue(IF inverted THEN 1 ELSE 0)

-----------------------------------------------------------------------------
(* Addresses: the highest bit of the bytes is the extra bit. *)

write(a) ==
    LET extra == 2 ^ (8 * a.len - 1)
        v == (a.val % extra) + (IF a.extra_bit THEN extra ELSE 0)
    IN  [k \in 1 .. a.len |-> (v \div 256 ^ (a.len - k)) % 256]

read_u16(b) ==
    LET v == 256 * b[1] + b[2]
    IN  [val |-> v % 2 ^ 12, len |-> 2, extra_bit |-> v >= 2 ^ 15]

read_u24(b) ==
    [val |-> (b[1] % 16) * 2 ^ 16 + 256 * b[2] + b[3], len |-> 3,
     extra_bit |-> b[1] >= 128]

read(b, len) == IF len = 2 THEN read_u16(b) ELSE read_u24(b)

-----------------------------------------------------------------------------
(* Commands *)

Frame(head, words) == [head |-> head, words |-> words]
Bit(b) == IF b THEN 1 ELSE 0

(* A gain in half decibels: the sign is dropped and the cast saturates.    *)
GainByte(gain) ==
    LET steps == IF gain < 0 THEN -gain ELSE gain
    IN  IF steps > 255 THEN 255 ELSE steps

to_bytes(c) ==
    CASE c.op = "ReadMemory" ->
            Frame(<<5, c.addr \div 256, c.addr % 256, c.size>>, <<>>)
      [] c.op = "SetConfig" -> Frame(<<37, c.config, Bit(TRUE)>>, <<>>)
      [] c.op = "SetSource" -> Frame(<<52, c.source>>, <<>>)
      [] c.op = "SetMute" -> Frame(<<23, Bit(c.value)>>, <<>>)
      [] c.op = "SetVolume" -> Frame(<<66, GainByte(c.value)>>, <<>>)
      [] c.op = "DiracBypass" -> Frame(<<63, c.value>>, <<>>)
      [] c.op = "WriteBiquad" ->
            Frame(<<48>> \o write(c.addr) \o <<0, 0>>, c.data)
      [] c.op = "WriteBiquadBypass" ->
            Frame(<<25>> \o write([c.addr EXCEPT !.extra_bit = c.value]), <<>>)
      [] c.op = "Write" -> Frame(<<19>> \o write(c.addr), <<c.value>>)
      [] c.op = "FirLoadStart" -> Frame(<<57, c.index>>, <<>>)
      [] c.op = "FirLoadData" -> Frame(<<58, c.index>>, c.data)
      [] c.op = "FirLoadEnd" -> Frame(<<59>>, <<>>)

(* What follows the command's number decides how long an address is. *)
Left(f) == Len(f.head) - 1 + 4 * Len(f.words)
BadAddrLen(f, longest_short) ==
    IF Left(f) > longest_short + 1 THEN 3 ELSE 2
AddrLen(f, longest_short) == IF Left(f) > longest_short THEN 3 ELSE 2

(* The flag of a filter's bypass is the extra bit of its address; the last *)
(* coefficient of a FirLoadData is not read.                               *)
from_bytes(f) ==
    LET id == f.head[1]
        b == Tail(f.head)
        word == 256 * b[1] + b[2]
    IN
    CASE id = 5 -> [op |-> "ReadMemory", addr |-> word, size |-> b[3]]
      [] id = 19 -> [op |-> "Write", addr |-> read(b, AddrLen(f, 6)),
                     value |-> f.words[1]]
      [] id = 23 -> [op |-> "SetMute", value |-> b[1] # 0]
      [] id = 25 -> LET a == read(b, AddrLen(f, 2)) IN
                    [op |-> "WriteBiquadBypass", addr |-> a,
                     value |-> a.extra_bit]
      [] id = 37 -> [op |-> "SetConfig", config |-> b[1]]
      [] id = 48 -> [op |-> "WriteBiquad", addr |-> read(b, AddrLen(f, 24)),
                     data |-> f.words]
      [] id = 52 -> [op |-> "SetSource", source |-> b[1]]
      [] id = 57 -> [op |-> "FirLoadStart", index |-> b[1]]
      [] id = 58 -> [op |-> "FirLoadData", index |-> b[1],
                     data |-> SubSeq(f.words, 1, Len(f.words) - 1)]
      [] id = 59 -> [op |-> "FirLoadEnd"]
      [] id = 66 -> [op |-> "SetVolume", value |-> -b[1]]
      [] OTHER -> [op |-> "Unknown", cmd_id |-> id, payload |-> b]
=============================================================================
