---------------------------- MODULE DeviceM2x4HD ----------------------------
(***************************************************************************)
(* The 2x4HD and the Flex, whose tables differ in their sources only:      *)
(* protocol/src/device/m2x4hd.rs and flex.rs, and their generator.  The    *)
(* first definitions are the symbols, named as the generator names them.   *)
(***************************************************************************)
LOCAL INSTANCE DeviceSpec

DGain_status(n) == n - 1
MixerNxMSmoothed1_status(i, o) == 6 + 4 * i + o
FIR_status(n) == 11 + n
COMP_status(n) == 19 + n
DGain(n) == 25 + n
MixerNxMSmoothed1(i, o) == 32 + 4 * i + o
Delay(n) == 61 + n
Meter02_C1(k) == 68 + k
Meter10_C1(k) == 70 + k
polarity_out(n) == 79 + n
FIR_Taps(n) == 84 + 2049 * (n - 3)
PEQ(n, k) == 8280 + 50 * (n - 1) + 5 * (k - 1)
BPF(n, k) == 8580 + 40 * (n - 3) + 5 * (k - 1)

COMP(n, meter) ==
    LET at == 40 + 6 * (n - 3) IN
    [bypass |-> COMP_status(n), threshold |-> at, ratio |-> at + 2,
     attack |-> at + 4, release |-> at + 5, meter |-> Some(meter)]

Symbols ==
    0 .. 83 \cup {FIR_Taps(n) + k : n \in 3 .. 6, k \in 0 .. 1}
    \cup {PEQ(n, k) : n \in 1 .. 6, k \in 1 .. 10}
    \cup {BPF(n, k) : n \in 3 .. 6, k \in {1, 5}}

DGainGate(n) == [enable |-> DGain_status(n), gain |-> Some(DGain(n))]
PEQs(n) == [k \in 1 .. 10 |-> PEQ(n, 11 - k)]

input(i) ==
    [gate |-> Some(DGainGate(i + 1)),
     meter |-> Some(Meter02_C1(i)),
     peq |-> PEQs(i + 1),
     routing |-> [o \in 1 .. 4 |->
        [enable |-> MixerNxMSmoothed1_status(i, o - 1),
         gain |-> Some(MixerNxMSmoothed1(i, o - 1))]]]

output(o) ==
    [gate |-> DGainGate(o + 3),
     meter |-> Some(Meter10_C1(o + 4)),
     delay_addr |-> Some(Delay(o + 3)),
     invert_addr |-> polarity_out(o + 1),
     peq |-> PEQs(o + 3),
     xover |-> Some(<<BPF(o + 3, 1), BPF(o + 3, 5)>>),
     compressor |-> Some(COMP(o + 3, Meter10_C1(o))),
     fir |-> Some([index |-> o, num_coefficients |-> FIR_Taps(o + 3),
                   bypass |-> FIR_status(o + 3),
                   max_coefficients |-> 4096])]

inputs == [i \in 1 .. 2 |-> input(i - 1)]
outputs == [o \in 1 .. 4 |-> output(o - 1)]

DEVICE ==
    [inputs |-> inputs, outputs |-> outputs, fir_max_taps |-> 4096,
     internal_sampling_rate |-> 96000, addr_len |-> 3,
     float_encoding |-> "Float32LE",
     symbols |-> Symbols]

(* The Flex: a table of its own with the same contents. *)
SymbolsFlex == Symbols
inputsFlex == inputs
outputsFlex == outputs
FLEX ==
    [DEVICE EXCEPT !.inputs = inputsFlex, !.outputs = outputsFlex,
                   !.symbols = SymbolsFlex]
=============================================================================
