-------------------------- MODULE DeviceMSharc4x8 --------------------------
(***************************************************************************)
(* The MiniSHARC 4x8: protocol/src/device/msharc4x8.rs and its generator.  *)
(* The meters of the outputs lie below those of the inputs, and an input   *)
(* lists the routing to the first four outputs only.                       *)
(***************************************************************************)
LOCAL INSTANCE DeviceSpec

DGain_status(n) == n - 1
MixerNxMSmoothed1_status(i, o) == 12 + 8 * i + o
FIR_status(n) == 39 + n
COMP_status(n) == 55 + n
DGain(n) == 67 + n
MixerNxMSmoothed1(i, o) == 80 + 8 * i + o
Delay(n) == 155 + n
Meter10_C1(k) == 168 + k
Meter10_C2(k) == 176 + k
Meter04_C1(k) == 184 + k
polarity_out_1(k) == 188 + k
FIR_Taps(n) == 200 + 2049 * (n - 5)
PEQ(n, k) == 16592 + 50 * (n - 1) + 5 * (k - 1)
BPF(n, k) == 17192 + 40 * (n - 5) + 5 * (k - 1)

COMP(n, meter) ==
    LET at == 112 + 6 * (n - 5) IN
    [bypass |-> COMP_status(n), threshold |-> at, ratio |-> at + 2,
     attack |-> at + 4, release |-> at + 5, meter |-> Some(meter)]

Symbols ==
    0 .. 199 \cup {FIR_Taps(n) + k : n \in 5 .. 12, k \in 0 .. 1}
    \cup {PEQ(n, k) : n \in 1 .. 12, k \in 1 .. 10}
    \cup {BPF(n, k) : n \in 5 .. 12, k \in {1, 5}}

DGainGate(n) == [enable |-> DGain_status(n), gain |-> Some(DGain(n))]
PEQs(n) == [k \in 1 .. 10 |-> PEQ(n, 11 - k)]

input(i) ==
    [gate |-> Some(DGainGate(i + 1)),
     meter |-> Some(Meter04_C1(i)),
     peq |-> PEQs(i + 1),
     routing |-> [o \in 1 .. 4 |->
        [enable |-> MixerNxMSmoothed1_status(i, o - 1),
         gain |-> Some(MixerNxMSmoothed1(i, o - 1))]]]

output(o) ==
    LET n == o + 5 IN
    [gate |-> DGainGate(n),
     meter |-> Some(Meter10_C2(o)),
     delay_addr |-> Some(Delay(n)),
     invert_addr |-> polarity_out_1(4 + o),
     peq |-> PEQs(n),
     xover |-> Some(<<BPF(n, 1), BPF(n, 5)>>),
     compressor |-> Some(COMP(n, Meter10_C1(o))),
     fir |-> Some([index |-> o, num_coefficients |-> FIR_Taps(n),
                   bypass |-> FIR_status(n), max_coefficients |-> 2048])]

inputs == [i \in 1 .. 4 |-> input(i - 1)]
outputs == [o \in 1 .. 8 |-> output(o - 1)]

DEVICE ==
    [inputs |-> inputs, outputs |-> outputs, fir_max_taps |-> 9600,
     internal_sampling_rate |-> 96000, addr_len |-> 3,
     float_encoding |-> "Float32LE",
     symbols |-> Symbols]
=============================================================================
