--------------------------- MODULE DeviceDDRC88BM ---------------------------
(***************************************************************************)
(* The DDRC-88BM: protocol/src/device/ddrc88bm.rs and its generator.  The  *)
(* crossovers 9 to 24 and the output mixer are symbols no setting uses.    *)
(***************************************************************************)
LOCAL INSTANCE DeviceSpec

BM_Mixer_status(i, o) == 16 + 8 * (i - 1) + o - 1
BM_Mixer(i, o) == 88 + 8 * (i - 1) + o - 1
Meter_In(n) == 447 + n
Meter_Comp(n) == 455 + n
Meter_Out(n) == 463 + n

Channel(n) == 472 + 104 * (n - 1)
PEQ(n, k) == Channel(n) + 14 + 5 * (k - 1)
BPF(n, k) == Channel(n) + 64 + 5 * (k - 1)

COMP(n) ==
    LET at == Channel(n) IN
    [bypass |-> at + 1, threshold |-> at + 3, ratio |-> at + 5,
     attack |-> at + 7, release |-> at + 8, meter |-> Some(Meter_Comp(n))]

MixerSymbols == 0 .. 159
BassSymbols == {160 + 10 * k : k \in 0 .. 15}
OutMixerSymbols == 320 .. 471
Symbols ==
    MixerSymbols \cup BassSymbols \cup OutMixerSymbols \cup
    UNION {Channel(n) .. Channel(n) + 13
            \cup {PEQ(n, k) : k \in 1 .. 10} \cup {BPF(n, 1), BPF(n, 5)} :
           n \in 1 .. 8}

input(i) ==
    [gate |-> None,
     meter |-> Some(Meter_In(i + 1)),
     peq |-> <<>>,
     routing |-> [o \in 1 .. 8 |->
        [enable |-> BM_Mixer_status(i + 1, o),
         gain |-> Some(BM_Mixer(i + 1, o))]]]

output(o) ==
    LET n == o + 1 IN
    [gate |-> [enable |-> Channel(n), gain |-> Some(Channel(n) + 2)],
     meter |-> Some(Meter_Out(n)),
     delay_addr |-> Some(Channel(n) + 9),
     invert_addr |-> Channel(n) + 13,
     peq |-> [k \in 1 .. 10 |-> PEQ(n, 11 - k)],
     xover |-> Some(<<BPF(n, 1), BPF(n, 5)>>),
     compressor |-> Some(COMP(n)),
     fir |-> None]

inputs == [i \in 1 .. 8 |-> input(i - 1)]
outputs == [o \in 1 .. 8 |-> output(o - 1)]

DEVICE ==
    [inputs |-> inputs, outputs |-> outputs, fir_max_taps |-> 0,
     internal_sampling_rate |-> 48000, addr_len |-> 3,
     float_encoding |-> "Float32LE",
     symbols |-> Symbols]
=============================================================================
