------------------------------ MODULE DeviceSHD -----------------------------
(***************************************************************************)
(* The SHD, the DDRC-24 and the Flex with Dirac Live, which have the same  *)
(* symbols: protocol/src/device/shd.rs, ddrc24.rs and flexdl.rs, and their *)
(* generators.  The settings of an output lie together, 104 words apart.   *)
(***************************************************************************)
LOCAL INSTANCE DeviceSpec

Mixer_status(i, o) == 4 * i + o
Mixer(i, o) == 8 + 4 * i + o
Meter_D_In(n) == 15 + n
Meter_Comp(n) == 23 + n
Meter_Out(n) == 27 + n

Channel(n) == 32 + 104 * (n - 1)
PEQ(n, k) == Channel(n) + 14 + 5 * (k - 1)
BPF(n, k) == Channel(n) + 64 + 5 * (k - 1)

COMP(n) ==
    LET at == Channel(n) IN
    [bypass |-> at + 1, threshold |-> at + 3, ratio |-> at + 5,
     attack |-> at + 7, release |-> at + 8, meter |-> Some(Meter_Comp(n))]

Symbols ==
    0 .. 31 \cup
    UNION {Channel(n) .. Channel(n) + 13
            \cup {PEQ(n, k) : k \in 1 .. 10} \cup {BPF(n, 1), BPF(n, 5)} :
           n \in 1 .. 4}

input(i) ==
    [gate |-> None,
     meter |-> Some(Meter_D_In(i + 1)),
     peq |-> <<>>,
     routing |-> [o \in 1 .. 4 |->
        [enable |-> Mixer_status(i, o - 1), gain |-> Some(Mixer(i, o - 1))]]]

output(o) ==
    LET n == o + 1 IN
    [gate |-> [enable |-> Channel(n), gain |-> Some(Channel(n) + 2)],
     meter |-> Some(Meter_Out(n)),
     delay_addr |-> Some(Channel(n) + 9),
     invert_addr |-> Channel(n) + 13,
     peq |-> [k \in 1 .. 10 |-> PEQ(n, 11 - k)],
     xover |-> Some(<<BPF(n, 1), BPF(n, 5)>>),
     compressor |-> Some(COMP(n)),
     fir |-> None]

inputs == [i \in 1 .. 2 |-> input(i - 1)]
outputs == [o \in 1 .. 4 |-> output(o - 1)]

DEVICE ==
    [inputs |-> inputs, outputs |-> outputs, fir_max_taps |-> 0,
     internal_sampling_rate |-> 96000, addr_len |-> 3,
     float_encoding |-> "Float32LE",
     symbols |-> Symbols]

(* The DDRC-24: a table of its own with the same contents. *)
SymbolsDDRC24 == Symbols
inputsDDRC24 == inputs
outputsDDRC24 == outputs
DDRC24 ==
    [DEVICE EXCEPT !.inputs = inputsDDRC24, !.outputs = outputsDDRC24,
                   !.symbols = SymbolsDDRC24]

(* The Flex with Dirac Live, said to run at 4800 Hz. *)
SymbolsFlexDL == Symbols
inputsFlexDL == inputs
outputsFlexDL == outputs
FLEXDL ==
    [inputs |-> inputsFlexDL, outputs |-> outputsFlexDL,
     fir_max_taps |-> 4096, internal_sampling_rate |-> 4800,
     addr_len |-> 3,
     float_encoding |-> "Float32LE",
     symbols |-> SymbolsFlexDL]
=============================================================================
