----------------------------- MODULE DeviceSpec -----------------------------
(***************************************************************************)
(* The shape of a device table: protocol/src/device/mod.rs, filled in by   *)
(* the generator in devtools/src/codegen.  An optional field is a set of   *)
(* at most one element; an address is a word of the DSP's memory.          *)
(***************************************************************************)
EXTENDS Naturals, Sequences, FiniteSets

None == {}
Some(x) == {x}
The(option) == CHOOSE x \in option : TRUE

Addr == 0 .. 2 ^ 16 - 1
Option(S) == {None} \cup {Some(x) : x \in S}

(* The words of a biquad, and the biquads of a crossover group. *)
BiquadWords == 5
NumFilterPerGroup == 4

IsOption(o, Is(_)) == \A x \in o : Cardinality(o) = 1 /\ Is(x)
IsAddr(a) == a \in Addr
IsGate(g) == IsAddr(g.enable) /\ IsOption(g.gain, IsAddr)
AreAddrs(s) == \A i \in DOMAIN s : IsAddr(s[i])
AreGates(s) == \A i \in DOMAIN s : IsGate(s[i])

IsInput(c) ==
    /\ IsOption(c.gate, IsGate) /\ IsOption(c.meter, IsAddr)
    /\ AreAddrs(c.peq) /\ AreGates(c.routing)

IsCompressor(c) ==
    /\ \A f \in {"bypass", "threshold", "ratio", "attack", "release"} :
        IsAddr(c[f])
    /\ IsOption(c.meter, IsAddr)

IsFir(f) ==
    /\ IsAddr(f.num_coefficients) /\ IsAddr(f.bypass)
    /\ f.index \in 0 .. 255 /\ f.max_coefficients \in Addr

IsOutput(c) ==
    /\ IsGate(c.gate) /\ IsAddr(c.invert_addr) /\ AreAddrs(c.peq)
    /\ IsOption(c.meter, IsAddr) /\ IsOption(c.delay_addr, IsAddr)
    /\ IsOption(c.xover, AreAddrs)
    /\ IsOption(c.compressor, IsCompressor) /\ IsOption(c.fir, IsFir)

IsDevice(d) ==
    /\ \A i \in DOMAIN d.inputs : IsInput(d.inputs[i])
    /\ \A i \in DOMAIN d.outputs : IsOutput(d.outputs[i])
    /\ d.fir_max_taps \in Addr /\ d.internal_sampling_rate \in Nat
    /\ d.addr_len \in {2, 3}
    /\ d.float_encoding \in {"Float32LE", "FixedPoint"}
    /\ d.symbols \subseteq Addr
=============================================================================
