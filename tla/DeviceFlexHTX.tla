---------------------------- MODULE DeviceFlexHTX ---------------------------
(***************************************************************************)
(* The Flex HTx: protocol/src/device/flexhtx.rs and its generator.  Its    *)
(* crossovers have four groups, the last two those of bass management, and *)
(* its parametric equalizers are on the inputs only.                       *)
(***************************************************************************)
LOCAL INSTANCE DeviceSpec

BM_DGain_status(n) == 39 + n
BM_DGain(n) == 47 + n
BM_Mixer_status(i, o) == 56 + 8 * (i - 1) + o - 1
BM_Mixer(i, o) == 128 + 8 * (i - 1) + o - 1
BM_BPF(n, k) == 272 + 40 * (n - 1) + 5 * (k - 1)
Meter_In(n) == 783 + n
Meter_Comp(n) == 799 + n
Meter_Out(n) == 807 + n
InputPEQ(n, k) == 1656 + 50 * (n - 1) + 5 * (k - 1)

Channel(n) == 824 + 104 * (n - 9)
OutputPEQ(n, k) == Channel(n) + 14 + 5 * (k - 1)
BPF(n, k) == Channel(n) + 64 + 5 * (k - 1)

COMP(n) ==
    LET at == Channel(n) IN
    [bypass |-> at + 1, threshold |-> at + 3, ratio |-> at + 5,
     attack |-> at + 7, release |-> at + 8, meter |-> Some(Meter_Comp(n))]

BassSymbols ==
    {0, 20} \cup 40 .. 199 \cup {BM_BPF(n, k) : n \in 1 .. 8, k \in {1, 5}}
PolaritySymbols == 200 .. 271
OutMixerSymbols == 592 .. 783
MeterSymbols == 784 .. 823
PEQSymbols == {InputPEQ(n, k) : n \in 1 .. 8, k \in 1 .. 10}
Symbols ==
    BassSymbols \cup PolaritySymbols \cup OutMixerSymbols
    \cup MeterSymbols \cup PEQSymbols \cup
    UNION {Channel(n) .. Channel(n) + 13
            \cup {OutputPEQ(n, k) : k \in 1 .. 10}
            \cup {BPF(n, 1), BPF(n, 5)} : n \in 9 .. 16}

input(i) ==
    LET n == i + 1 IN
    [gate |-> Some([enable |-> BM_DGain_status(n), gain |-> Some(BM_DGain(n))]),
     meter |-> Some(Meter_In(n)),
     peq |-> [k \in 1 .. 10 |-> InputPEQ(n, 11 - k)],
     routing |-> [o \in 1 .. 8 |->
        [enable |-> BM_Mixer_status(n, o), gain |-> Some(BM_Mixer(n, o))]]]

output(o) ==
    LET ch == 9 + o IN
    [gate |-> [enable |-> Channel(ch), gain |-> Some(Channel(ch) + 2)],
     meter |-> Some(Meter_Out(ch)),
     delay_addr |-> Some(Channel(ch) + 9),
     invert_addr |-> Channel(ch) + 13,
     peq |-> <<>>,
     xover |-> Some(<<BPF(ch, 1), BPF(ch, 5),
                      BM_BPF(o + 1, 1), BM_BPF(o + 1, 5)>>),
     compressor |-> Some(COMP(ch)),
     fir |-> None]

inputs == [i \in 1 .. 8 |-> input(i - 1)]
outputs == [o \in 1 .. 8 |-> output(o - 1)]

DEVICE ==
    [inputs |-> inputs, outputs |-> outputs, fir_max_taps |-> 0,
     internal_sampling_rate |-> 48000, addr_len |-> 3,
     float_encoding |-> "Float32LE",
     symbols |-> Symbols]
=============================================================================
