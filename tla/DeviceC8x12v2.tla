---------------------------- MODULE DeviceC8x12v2 ---------------------------
(***************************************************************************)
(* The C-DSP 8x12 v2: protocol/src/device/c8x12v2.rs and its generator.    *)
(* Inputs are the channels 1 to 8 and lie 54 words apart, outputs are the  *)
(* channels 9 to 20 and lie 103 words apart.  An input lists the routing   *)
(* to the first eight outputs only, and the sampling rate is left at 0.    *)
(***************************************************************************)
LOCAL INSTANCE DeviceSpec

Mixer_status(i, o) == 12 * i + o
Mixer(i, o) == 96 + 12 * i + o
Meter_In(n) == 287 + n
Meter_Comp(n) == 295 + n
Meter_Out(n) == 307 + n

InputChannel(n) == 320 + 54 * (n - 1)
InputPEQ(n, k) == InputChannel(n) + 4 + 5 * (k - 1)

OutputChannel(n) == 752 + 103 * (n - 9)
OutputPEQ(n, k) == OutputChannel(n) + 13 + 5 * (k - 1)
BPF(n, k) == OutputChannel(n) + 63 + 5 * (k - 1)

COMP(n) ==
    LET at == OutputChannel(n) IN
    [bypass |-> at + 1, threshold |-> at + 3, ratio |-> at + 5,
     attack |-> at + 7, release |-> at + 8, meter |-> Some(Meter_Comp(n - 8))]

MixerSymbols == 0 .. 191
PolaritySymbols == 192 .. 287
MeterSymbols == 288 .. 319
InputSymbols ==
    UNION {InputChannel(n) .. InputChannel(n) + 3
            \cup {InputPEQ(n, k) : k \in 1 .. 10} : n \in 1 .. 8}
OutputSymbols ==
    UNION {OutputChannel(n) .. OutputChannel(n) + 12
            \cup {OutputPEQ(n, k) : k \in 1 .. 10}
            \cup {BPF(n, 1), BPF(n, 5)} : n \in 9 .. 20}

input(i) ==
    LET n == i + 1 IN
    [gate |-> Some([enable |-> InputChannel(n),
                    gain |-> Some(InputChannel(n) + 1)]),
     meter |-> Some(Meter_In(n)),
     peq |-> [k \in 1 .. 10 |-> InputPEQ(n, 11 - k)],
     routing |-> [o \in 1 .. 8 |->
        [enable |-> Mixer_status(i, o - 1), gain |-> Some(Mixer(i, o - 1))]]]

output(o) ==
    LET n == o + 9 IN
    [gate |-> [enable |-> OutputChannel(n),
               gain |-> Some(OutputChannel(n) + 2)],
     meter |-> Some(Meter_Out(o + 1)),
     delay_addr |-> Some(OutputChannel(n) + 9),
     invert_addr |-> OutputChannel(n) + 12,
     peq |-> [k \in 1 .. 10 |-> OutputPEQ(n, 11 - k)],
     xover |-> Some(<<BPF(n, 1), BPF(n, 5)>>),
     compressor |-> Some(COMP(n)),
     fir |-> None]

inputs == [i \in 1 .. 8 |-> input(i - 1)]
outputs == [o \in 1 .. 12 |-> output(o - 1)]

DEVICE ==
    [inputs |-> inputs, outputs |-> outputs, fir_max_taps |-> 0,
     internal_sampling_rate |-> 0, addr_len |-> 3,
     float_encoding |-> "Float32LE",
     symbols |-> MixerSymbols \cup PolaritySymbols \cup MeterSymbols
        \cup InputSymbols \cup OutputSymbols]
=============================================================================
