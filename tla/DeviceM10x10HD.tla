--------------------------- MODULE DeviceM10x10HD ---------------------------
(***************************************************************************)
(* The 10x10HD: protocol/src/device/m10x10hd.rs and its generator.  The    *)
(* routing mutes lie in no order, so they are listed by address.           *)
(***************************************************************************)
LOCAL INSTANCE DeviceSpec

PlaceIn(order, n) == CHOOSE p \in DOMAIN order : order[p] = n
Laid(order, first, apart, n) == first + apart * (PlaceIn(order, n) - 1)

(* The numbers of the routing mutes (MuteNoSlewAlg), from address 384. *)
RoutingOrder ==
  <<68, 110, 98, 19, 27, 58, 37, 42, 24, 36, 32, 53, 70, 56, 99, 12, 66, 62,
    47, 95, 25, 39, 101, 49, 84, 109, 20, 48, 21, 85, 93, 65, 83, 102, 108,
    22, 28, 18, 13, 64, 45, 50, 23, 69, 59, 51, 57, 67, 63, 17, 16, 38, 33,
    55, 111, 14, 35, 107, 87, 29, 15, 46, 103, 118, 61, 113, 40, 30, 94, 114,
    92, 52, 34, 88, 106, 82, 105, 104, 86, 90, 112, 11, 116, 31, 44, 60, 91,
    26, 96, 89, 54, 97, 117, 41, 119, 120, 115, 100, 81, 43>>
RoutingMute(n) == Laid(RoutingOrder, 384, 1, n)

InputMute(i) == 59 + i
InputGain(i) == IF i < 8 THEN 11 + i ELSE 46 + i
InputPEQ(n, k) == 81 + 30 * (n - 11) + 5 * (k - 1)
BPF(n, k) == 494 + 40 * (n - 1) + 5 * (k - 1)
OutputPEQ(n, k) ==
    Laid(<<2, 3, 5, 6, 7, 8, 9, 10, 1, 4>>, 894, 30, n) + 5 * (k - 1)
MultCtrlDelGrowAlg(n) == Laid(<<1, 3, 4, 5, 6, 7, 8, 9, 10, 2>>, 1194, 1, n)
EQ1940Invert(n) == Laid(<<1, 10, 9, 8, 7, 6, 5, 4, 2, 3>>, 1204, 1, n)
OutputMute(n) == Laid(<<1, 2, 3, 5, 6, 7, 8, 9, 10, 4>>, 1214, 1, n)
OutputGain(n) == Laid(<<1, 2, 4, 5, 6, 7, 8, 9, 10, 3>>, 1224, 1, n)

InputSymbols ==
    {0} \cup 8 .. 80 \cup {InputPEQ(n, k) : n \in 11 .. 20, k \in 1 .. 6}
OutputSymbols ==
    {BPF(n, k) : n \in 1 .. 10, k \in {1, 5}}
    \cup {OutputPEQ(n, k) : n \in 1 .. 10, k \in 1 .. 6} \cup 1194 .. 1234
CompressorSymbols ==
    {1269 + 37 * c + k : c \in 0 .. 9, k \in 0 .. 2} \cup 1605 .. 1620
Symbols ==
    InputSymbols \cup 381 .. 493 \cup OutputSymbols \cup CompressorSymbols

(* The outputs' first mutes: ten apart, the inputs' own (71) left out. *)
Starts == <<11, 21, 31, 41, 51, 61, 81, 91, 101, 111>>
routing(i) ==
    [o \in 1 .. 10 |->
        [enable |-> RoutingMute(Starts[o] + i), gain |-> None]]

input(i) ==
    [gate |-> Some([enable |-> InputMute(i), gain |-> Some(InputGain(i))]),
     meter |-> None,
     peq |-> [k \in 1 .. 6 |-> InputPEQ(i + 11, 7 - k)],
     routing |-> routing(i)]

output(o) ==
    LET n == o + 1 IN
    [gate |-> [enable |-> OutputMute(n), gain |-> Some(OutputGain(n))],
     meter |-> None,
     delay_addr |-> Some(MultCtrlDelGrowAlg(n)),
     invert_addr |-> EQ1940Invert(n),
     peq |-> [k \in 1 .. 5 |-> OutputPEQ(n, 6 - k)],
     xover |-> Some(<<BPF(n, 1), BPF(n, 5)>>),
     compressor |-> None,
     fir |-> None]

inputs == [i \in 1 .. 10 |-> input(i - 1)]
outputs == [o \in 1 .. 10 |-> output(o - 1)]

DEVICE ==
    [inputs |-> inputs, outputs |-> outputs, fir_max_taps |-> 0,
     internal_sampling_rate |-> 96000, addr_len |-> 2,
     float_encoding |-> "FixedPoint",
     symbols |-> Symbols]
=============================================================================
