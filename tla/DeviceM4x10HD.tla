---------------------------- MODULE DeviceM4x10HD ---------------------------
(***************************************************************************)
(* The 4x10HD and the nanoDIGI 2x8: protocol/src/device/m4x10hd.rs and     *)
(* nanodigi2x8.rs, and the generator they share.  A symbol that comes in   *)
(* no regular order is a tuple of its addresses, a channel's at its place. *)
(***************************************************************************)
LOCAL INSTANCE DeviceSpec

(* The order in which channels lie, a number of words apart. *)
PlaceIn(order, n) == CHOOSE p \in DOMAIN order : order[p] = n
Laid(order, first, apart, n) == first + apart * (PlaceIn(order, n) - 1)

(* Input mutes 71 to 74, and the routing mutes: four for every output, the *)
(* numbers of two outputs six apart.                                       *)
InputMute(i) == 53 + i
RoutingMute(i, start) == 159 + 4 * ((start - 11) \div 6) + i

BPF(n, k) == Laid(<<3, 5, 6, 7, 8, 9, 10, 4, 2, 1>>, 209, 40, n) + 5 * (k - 1)
InputPEQ(n, k) == Laid(<<13, 14, 12, 11>>, 59, 25, n) + 5 * (k - 1)
OutputPEQ(n, k) ==
    Laid(<<2, 3, 5, 6, 7, 8, 9, 10, 1, 4>>, 609, 25, n) + 5 * (k - 1)
MultCtrlDelGrowAlg(n) == Laid(<<1, 3, 4, 5, 6, 7, 8, 2>>, 859, 1, n)
EQ1940Invert == <<869, 877, 878, 876, 875, 874, 873, 872, 867, 868>>
OutputMute == <<879, 880, 881, 888, 882, 883, 884, 885, 870, 871>>
OutputGain == <<896, 895, 894, 889, 890, 891, 892, 893, 886, 887>>

Symbols ==
    {0} \cup 8 .. 58 \cup {InputPEQ(n, k) : n \in 11 .. 14, k \in 1 .. 5}
    \cup 159 .. 208 \cup {BPF(n, k) : n \in 1 .. 10, k \in {1, 5}}
    \cup {OutputPEQ(n, k) : n \in 1 .. 10, k \in 1 .. 5} \cup 859 .. 914
SymbolsNanodigi == Symbols

(* Output by output, the mutes of one input. *)
routing(i, num_outputs, spacing) ==
    [o \in 1 .. num_outputs |->
        [enable |-> RoutingMute(i, 11 + spacing * (o - 1)), gain |-> None]]

(* gains: the address of the first input's gain. *)
input(i, gains, num_outputs, spacing) ==
    [gate |-> Some([enable |-> InputMute(i), gain |-> Some(gains + i)]),
     meter |-> None,
     peq |-> [k \in 1 .. 5 |-> InputPEQ(i + 11, 6 - k)],
     routing |-> routing(i, num_outputs, spacing)]

output(o) ==
    LET n == o + 1 IN
    [gate |-> [enable |-> OutputMute[n], gain |-> Some(OutputGain[n])],
     meter |-> None,
     delay_addr |-> IF o < 8 THEN Some(MultCtrlDelGrowAlg(n)) ELSE None,
     invert_addr |-> EQ1940Invert[n],
     peq |-> [k \in 1 .. 5 |-> OutputPEQ(n, 6 - k)],
     xover |-> Some(<<BPF(n, 1), BPF(n, 5)>>),
     compressor |-> None,
     fir |-> None]

inputs == [i \in 1 .. 4 |-> input(i - 1, 11, 10, 6)]
outputs == [o \in 1 .. 10 |-> output(o - 1)]

DEVICE ==
    [inputs |-> inputs, outputs |-> outputs, fir_max_taps |-> 0,
     internal_sampling_rate |-> 96000, addr_len |-> 2,
     float_encoding |-> "FixedPoint",
     symbols |-> Symbols]

inputsNanodigi == [i \in 1 .. 2 |-> input(i - 1, 46, 8, 6)]
outputsNanodigi == [o \in 1 .. 8 |-> output(o - 1)]
NANODIGI2x8 ==
    [DEVICE EXCEPT !.inputs = inputsNanodigi, !.outputs = outputsNanodigi,
                   !.symbols = SymbolsNanodigi]
=============================================================================
