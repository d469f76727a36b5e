---------------------------- MODULE Configuration ----------------------------
(***************************************************************************)
(* A configuration object and what applying it does: minidsp/src/model.rs. *)
(* A field that is not set is None.                                        *)
(***************************************************************************)
EXTENDS Channels, DeviceTables

Indexed(x, Steps(_)) == OrRefuse(x.index, "InternalError", Steps)

-----------------------------------------------------------------------------
(* The master settings (MiniDSP's methods of the same names) *)

(* The new configuration is polled for, until the status reports it. *)
set_config(config) ==
    << [op |-> "SetConfig", config |-> config] >> \o get_master_status
    \o << [op |-> "AwaitPreset", preset |-> config] >>
set_source(info, source) ==
    << [op |-> "SetSource", source |-> to_id(info, source)] >>
set_master_volume(gain) ==
    << [op |-> "SetVolume", value |-> gain, relative |-> FALSE] >>
set_master_mute(v) == << [op |-> "SetMute", value |-> v] >>
set_dirac(v) == << [op |-> "DiracBypass", value |-> v] >>

OnOff(b) == IF b THEN "on" ELSE "off"

MasterApply(info, s) ==
    Given(s.preset, set_config)
    \o Given(s.source, LAMBDA source : set_source(info, source))
    \o Given(s.volume, set_master_volume)
    \o Given(s.mute, LAMBDA b : set_master_mute(OnOff(b)))
    \o Given(s.dirac, LAMBDA b : set_dirac(OnOff(b)))

-----------------------------------------------------------------------------
(* Channels *)

GateApply(d, g, c) ==
    Given(g.mute, LAMBDA muted : set_mute(d, c, muted))
    \o Given(g.gain, LAMBDA gain : set_gain(d, c, gain))

PeqApply(d, p, c) ==
    Indexed(p, LAMBDA i : peq(d, c, i, LAMBDA at :
        Given(p.bypass, LAMBDA b : set_bypass(d, at, b))
        \o Given(p.coeff, LAMBDA coeff : set_coefficients(d, at, coeff))))

RoutingApply(d, r, c) ==
    Indexed(r, LAMBDA o :
        Given(r.gain, LAMBDA gain : set_output_gain(d, c, o, gain))
        \o Given(r.mute, LAMBDA muted : set_output_enable(d, c, o, ~muted)))

InputApply(d, in) ==
    Indexed(in, LAMBDA index : input(d, index, LAMBDA c :
        GateApply(d, in, c)
        \o Each(in.peq, LAMBDA p : PeqApply(d, p, c))
        \o Each(in.routing, LAMBDA r : RoutingApply(d, r, c))))

(* The indices of all biquads are looked at before any is written. *)
XoverApply(d, x, xover) ==
    Indexed(x, LAMBDA group :
        IF \E i \in DOMAIN x.coeff : x.coeff[i].index = None
        THEN Refuse("InternalError")
        ELSE Each(x.coeff, LAMBDA b :
                XoverSetCoefficients(d, xover, group, The(b.index), b.coeff))
             \o Given(x.bypass, LAMBDA b :
                XoverSetBypass(d, xover, group, b)))

CompressorFields == <<"threshold", "ratio", "attack", "release">>
CompressorApply(d, x, comp) ==
    Given(x.bypass, LAMBDA b : CompressorBypass(d, comp, b))
    \o Each(CompressorFields, LAMBDA field :
        Given(x[field], LAMBDA v : CompressorSet(d, comp, field, v)))

FirApply(d, x, fir) ==
    Given(x.bypass, LAMBDA b : FirSetBypass(d, fir, b))
    \o Given(x.coefficients, LAMBDA coeff :
        IF coeff = <<>> THEN FirClear(d, fir)
        ELSE FirSetCoefficients(d, fir, coeff))

OutputApply(d, out) ==
    Indexed(out, LAMBDA index : output(d, index, LAMBDA c :
        GateApply(d, out, c)
        \o Each(out.peq, LAMBDA p : PeqApply(d, p, c))
        \o Given(out.invert, LAMBDA b : set_invert(d, c, b))
        \o Given(out.delay, LAMBDA micros : set_delay(d, c, micros))
        \o Each(out.crossover, LAMBDA x :
            OrRefuse(c.xover, "NoSuchPeripheral", LAMBDA xover :
                XoverApply(d, x, xover)))
        \o Given(out.compressor, LAMBDA x :
            OrRefuse(c.compressor, "NoSuchPeripheral", LAMBDA comp :
                CompressorApply(d, x, comp)))
        \o Given(out.fir, LAMBDA x :
            OrRefuse(c.fir, "NoSuchPeripheral", LAMBDA fir :
                FirApply(d, x, fir)))))

(* The master status first: it may change the preset in use. *)
Apply(d, info, config) ==
    Given(config.master_status, LAMBDA s : MasterApply(info, s))
    \o Each(config.inputs, LAMBDA in : InputApply(d, in))
    \o Each(config.outputs, LAMBDA out : OutputApply(d, out))
=============================================================================
