------------------------------ MODULE Channels ------------------------------
(***************************************************************************)
(* The settings of a device's channels: MiniDSP, Channel, Input, Output,   *)
(* BiquadFilter, Crossover, Compressor and Fir of minidsp/src/lib.rs.      *)
(*                                                                         *)
(* A method is the sequence of steps it takes on the device d: commands,   *)
(* and at the end the error it returns, if it returns one.  c is the       *)
(* channel's entry in the table.                                           *)
(***************************************************************************)
EXTENDS Dsp, SequencesExt

Refuse(error) == << [op |-> "Refuse", error |-> error] >>
Given(option, Steps(_)) ==
    IF option = None THEN <<>> ELSE Steps(The(option))
Each(seq, Steps(_)) == FlattenSeq([i \in DOMAIN seq |-> Steps(seq[i])])
OrRefuse(option, error, Steps(_)) ==
    IF option = None THEN Refuse(error) ELSE Steps(The(option))

write_dsp(d, at, value) ==
    << [op |-> "Write", addr |-> addr(d, at), value |-> value] >>

input(d, index, Steps(_)) ==
    IF index >= Len(d.inputs) THEN Refuse("OutOfRange")
    ELSE Steps(d.inputs[index + 1])
output(d, index, Steps(_)) ==
    IF index >= Len(d.outputs) THEN Refuse("OutOfRange")
    ELSE Steps(d.outputs[index + 1])

-----------------------------------------------------------------------------
(* Biquad filters *)

(* A coefficient is named by where it comes from, and its place there.     *)
From(origin, n) == [k \in 1 .. n |-> <<origin, k>>]
Default == <<"default", 0, "", 0>>
Zero == <<"zero", 0, "", 0>>
DefaultBiquad == From(Default, BiquadWords)

set_coefficients(d, at, coeff) ==
    IF Len(coeff) # BiquadWords THEN Refuse("panic")
    ELSE << [op |-> "WriteBiquad", addr |-> addr(d, at),
             data |-> [k \in 1 .. BiquadWords |-> float(d, coeff[k])]] >>

clear(d, at) == set_coefficients(d, at, DefaultBiquad)

set_bypass(d, at, bypass) ==
    << [op |-> "WriteBiquadBypass", addr |-> addr(d, at), value |-> bypass] >>

-----------------------------------------------------------------------------
(* Inputs and outputs *)

(* The gate of a channel: an output always has one. *)
gate(c) == IF "routing" \in DOMAIN c THEN c.gate ELSE Some(c.gate)

set_mute(d, c, muted) ==
    OrRefuse(gate(c), "NoSuchPeripheral", LAMBDA g :
        write_dsp(d, g.enable, mute(d, muted)))

set_gain(d, c, gain) ==
    OrRefuse(gate(c), "NoSuchPeripheral", LAMBDA g :
        OrRefuse(g.gain, "NoSuchPeripheral", LAMBDA at :
            write_dsp(d, at, db(d, gain))))

peq(d, c, index, Steps(_)) ==
    IF index >= Len(c.peq) THEN Refuse("OutOfRange")
    ELSE Steps(c.peq[index + 1])

set_output_enable(d, c, o, enabled) ==
    IF o >= Len(c.routing) THEN Refuse("OutOfRange")
    ELSE write_dsp(d, c.routing[o + 1].enable, mute(d, ~enabled))

set_output_gain(d, c, o, gain) ==
    IF o >= Len(c.routing) THEN Refuse("OutOfRange")
    ELSE OrRefuse(c.routing[o + 1].gain, "NoSuchPeripheral", LAMBDA at :
            write_dsp(d, at, db(d, gain)))

set_invert(d, c, inverted) == write_dsp(d, c.invert_addr, invert(d, inverted))

(* A number of samples, rounded; the rates are multiples of 100 Hz. *)
Samples(d, micros) ==
    (micros * (d.internal_sampling_rate \div 100) + 5000) \div 10000
MaxDelay == 8000

set_delay(d, c, micros) ==
    IF Samples(d, micros) > MaxDelay THEN Refuse("InternalError")
    ELSE OrRefuse(c.delay_addr, "NoSuchPeripheral", LAMBDA at :
            write_dsp(d, at, delay(d, Samples(d, micros))))

-----------------------------------------------------------------------------
(* Crossovers: x is the table's groups of biquads *)

num_groups(x) == Len(x)
FilterAt(x, group, index) == x[group + 1] + index * BiquadWords

XoverClear(d, x, group) ==
    IF group >= num_groups(x) THEN Refuse("panic")
    ELSE Each([i \in 1 .. NumFilterPerGroup |-> i - 1],
              LAMBDA i : clear(d, FilterAt(x, group, i)))

XoverSetCoefficients(d, x, group, index, coeff) ==
    IF group >= num_groups(x) \/ index >= NumFilterPerGroup
    THEN Refuse("OutOfRange")
    ELSE set_coefficients(d, FilterAt(x, group, index), coeff)

XoverSetBypass(d, x, group, bypass) ==
    IF group >= num_groups(x) THEN Refuse("OutOfRange")
    ELSE set_bypass(d, x[group + 1], bypass)

-----------------------------------------------------------------------------
(* Compressors and FIR filters *)

BypassInt(bypass) == IntValue(IF bypass THEN BYPASSED ELSE ENABLING)

CompressorBypass(d, comp, bypass) ==
    write_dsp(d, comp.bypass, BypassInt(bypass))
CompressorSet(d, comp, field, x) == write_dsp(d, comp[field], float(d, x))

FirSetBypass(d, fir, bypass) == write_dsp(d, fir.bypass, BypassInt(bypass))

CHUNK == 14
Chunks(coeff) ==
    [i \in 1 .. (Len(coeff) + CHUNK - 1) \div CHUNK |->
        SubSeq(coeff, CHUNK * (i - 1) + 1, Min({CHUNK * i, Len(coeff)}))]

(* The load changes the mute status; that read before it is set back. *)
get_master_status == << [op |-> "ReadMemory", addr |-> 65496, size |-> 9] >>
FirSetCoefficients(d, fir, coeff) ==
    get_master_status
    \o write_dsp(d, fir.num_coefficients, IntValue(Len(coeff)))
    \o << [op |-> "FirLoadStart", index |-> fir.index],
          [op |-> "IntoFirSize", index |-> fir.index, len |-> Len(coeff)] >>
    \o Each(Chunks(coeff), LAMBDA block :
        << [op |-> "FirLoadData", index |-> fir.index, data |-> block] >>)
    \o << [op |-> "FirLoadEnd"], [op |-> "SetMute", value |-> "restore"] >>

FirClear(d, fir) ==
    FirSetCoefficients(d, fir, From(Zero, 16))
=============================================================================
