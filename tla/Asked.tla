------------------------------- MODULE Asked -------------------------------
(***************************************************************************)
(* What a request asks for, whatever the steps: the settings of channels   *)
(* it names and the master status it leaves.  The reference for the        *)
(* properties of Control; nothing here sends anything.                     *)
(*                                                                         *)
(* A setting is a channel, what is set in it, a pair that tells filters,   *)
(* routes and fields apart, and the value.                                 *)
(***************************************************************************)
EXTENDS CommandLine

Setting(ch, what, n, v) == [ch |-> ch, what |-> what, n |-> n, value |-> v]
In(i) == <<"input", i>>
Out(o) == <<"output", o>>
Whole == <<0, 0>>

(* The channel a setting is about: a set of at most one table entry.       *)
ChannelOf(d, ch) ==
    LET all == IF ch[1] = "input" THEN d.inputs ELSE d.outputs
    IN  {all[i] : i \in {i \in DOMAIN all : i = ch[2] + 1}}

Entry(seq, i) == {seq[k] : k \in {k \in DOMAIN seq : k = i + 1}}
BiquadAt(starts) == UNION {a .. a + BiquadWords - 1 : a \in starts}

XoverFilter(x, n) ==
    {a + BiquadWords * n[2] :
        a \in {a \in Entry(x, n[1]) : n[2] \in 0 .. NumFilterPerGroup - 1}}

(* The words a setting of the channel c is kept in. *)
WordsIn(c, s) ==
    CASE s.what = "mute" -> {g.enable : g \in gate(c)}
      [] s.what = "gain" -> UNION {g.gain : g \in gate(c)}
      [] s.what = "route" -> {r.enable : r \in Entry(c.routing, s.n[1])}
      [] s.what = "route gain" ->
            UNION {r.gain : r \in Entry(c.routing, s.n[1])}
      [] s.what = "peq" -> BiquadAt(Entry(c.peq, s.n[1]))
      [] s.what = "invert" -> {c.invert_addr}
      [] s.what = "delay" -> c.delay_addr
      [] s.what = "xover" ->
            BiquadAt(UNION {XoverFilter(x, s.n) : x \in c.xover})
      [] s.what = "compressor bypass" -> {x.bypass : x \in c.compressor}
      [] s.what \in {"threshold", "ratio", "attack", "release"} ->
            {x[s.what] : x \in c.compressor}
      [] s.what = "fir bypass" -> {f.bypass : f \in c.fir}
      [] s.what = "taps" -> {f.num_coefficients : f \in c.fir}
      [] OTHER -> {}

(* The flag of a filter, or of a crossover's group. *)
FlagsIn(c, s) ==
    CASE s.what = "peq bypass" -> Entry(c.peq, s.n[1])
      [] s.what = "xover bypass" ->
            UNION {Entry(x, s.n[1]) : x \in c.xover}
      [] OTHER -> {}

Words(d, s) == UNION {WordsIn(c, s) : c \in ChannelOf(d, s.ch)}
Flags(d, s) == UNION {FlagsIn(c, s) : c \in ChannelOf(d, s.ch)}
Firs(d, s) == UNION {c.fir : c \in ChannelOf(d, s.ch)}

(* A delay is a whole number of samples, the nearest one, and 8000 at most *)
Nearest(d, micros, samples) ==
    LET off == 10000 * samples - micros * (d.internal_sampling_rate \div 100)
    IN  2 * off \in -10000 .. 10000

(* The device has what the setting is about, and can take the value. *)
Possible(d, s) ==
    /\ Words(d, s) \cup Flags(d, s) # {}
    /\ s.what \in {"peq", "xover"} => Len(s.value) = BiquadWords
    /\ s.what = "delay" =>
        \E samples \in 0 .. 8000 : Nearest(d, s.value, samples)
    /\ s.what = "taps" =>
        \A f \in Firs(d, s) : Len(s.value) <= f.max_coefficients

-----------------------------------------------------------------------------
(* What a value means to the device *)

Lowest(S) == CHOOSE a \in S : \A b \in S : a <= b
Silent == {<<"Int", 1>>, <<"Int32", 0, 0>>}
Sounding == {<<"Int", 2>>, <<"Int32", 128, 0>>}
Inverted == {<<"Int", 1>>, <<"Int32", 65408, 0>>}
Upright == {<<"Int", 0>>, <<"Int32", 128, 0>>}

(* The number of samples a word stands for. *)
Delayed(word) == IF word[1] = "Int" THEN word[2] ELSE 65536 * word[2] + word[3]

(* The word at the address a holds the setting. *)
Says(d, s, a, word) ==
    CASE s.what = "mute" -> word \in (IF s.value THEN Silent ELSE Sounding)
      [] s.what = "route" -> word \in (IF s.value THEN Sounding ELSE Silent)
      [] s.what = "invert" -> word \in (IF s.value THEN Inverted ELSE Upright)
      [] s.what \in {"gain", "route gain"} -> word = db(d, s.value)
      [] s.what = "delay" -> Nearest(d, s.value, Delayed(word))
      [] s.what \in {"peq", "xover"} ->
            word = float(d, s.value[a - Lowest(Words(d, s)) + 1])
      [] s.what \in {"compressor bypass", "fir bypass"} ->
            word = <<"Int", IF s.value THEN BYPASSED ELSE ENABLING>>
      [] s.what = "taps" -> word = <<"Int", Len(s.value)>>
      [] OTHER -> word = float(d, s.value)

Holds(d, dsp, s) ==
    /\ \A a \in Words(d, s) :
        a \in DOMAIN dsp.words /\ Says(d, s, a, dsp.words[a])
    /\ \A a \in Flags(d, s) :
        a \in DOMAIN dsp.bypassed /\ dsp.bypassed[a] = s.value
    /\ s.what = "taps" => \A f \in Firs(d, s) :
        f.index \in DOMAIN dsp.filters /\ dsp.filters[f.index] = s.value

-----------------------------------------------------------------------------
(* The settings a configuration names; an index left out is no index.      *)

Nowhere == -1
IndexOf(x) == IF x.index = None THEN Nowhere ELSE The(x.index)
Fields(ch, x, names) ==
    UNION {{Setting(ch, f, Whole, v) : v \in x[f]} : f \in names}

AskedOfPeq(ch, p) ==
    {Setting(ch, "peq bypass", <<IndexOf(p), 0>>, b) : b \in p.bypass}
    \cup {Setting(ch, "peq", <<IndexOf(p), 0>>, v) : v \in p.coeff}

AskedOfXover(ch, x) ==
    {Setting(ch, "xover bypass", <<IndexOf(x), 0>>, b) : b \in x.bypass}
    \cup {Setting(ch, "xover", <<IndexOf(x), IndexOf(x.coeff[i])>>,
                  x.coeff[i].coeff) : i \in DOMAIN x.coeff}

AskedOfCompressor(ch, x) ==
    Fields(ch, x, {"threshold", "ratio", "attack", "release"})
    \cup {Setting(ch, "compressor bypass", Whole, b) : b \in x.bypass}

Taps(coeff) == IF coeff = <<>> THEN From(Zero, 16) ELSE coeff
AskedOfFir(ch, x) ==
    {Setting(ch, "fir bypass", Whole, b) : b \in x.bypass}
    \cup {Setting(ch, "taps", Whole, Taps(v)) : v \in x.coefficients}

AskedOfRouting(ch, r) ==
    {Setting(ch, "route", <<IndexOf(r), 0>>, ~muted) : muted \in r.mute}
    \cup {Setting(ch, "route gain", <<IndexOf(r), 0>>, v) : v \in r.gain}

AllOf(seq, Of(_)) == UNION {Of(seq[i]) : i \in DOMAIN seq}

AskedOfInput(in) ==
    LET ch == In(IndexOf(in)) IN
    Fields(ch, in, {"mute", "gain"})
    \cup AllOf(in.peq, LAMBDA p : AskedOfPeq(ch, p))
    \cup AllOf(in.routing, LAMBDA r : AskedOfRouting(ch, r))

AskedOfOutput(out) ==
    LET ch == Out(IndexOf(out)) IN
    Fields(ch, out, {"mute", "gain", "invert", "delay"})
    \cup AllOf(out.peq, LAMBDA p : AskedOfPeq(ch, p))
    \cup AllOf(out.crossover, LAMBDA x : AskedOfXover(ch, x))
    \cup UNION {AskedOfCompressor(ch, x) : x \in out.compressor}
    \cup UNION {AskedOfFir(ch, x) : x \in out.fir}

-----------------------------------------------------------------------------
(* The settings a subcommand names; "clear" is to "set all coefficients    *)
(* back to their default values and un-bypass them" (main.rs).             *)

Chosen(target, all) == IF target = None THEN all ELSE {The(target)}

(* The filter k places into a file, or a cleared one. *)
FromFile(biquads, k) ==
    IF k \in DOMAIN biquads THEN biquads[k] ELSE DefaultBiquad

PeqPlace(index, i) == IF index = None THEN i + 1 ELSE 1
AskedOfPeqs(ch, count, index, cmd) ==
    LET at == Chosen(index, 0 .. count - 1)
        Coeff(V(_)) == {Setting(ch, "peq", <<i, 0>>, V(i)) : i \in at}
        Bypass(b) == {Setting(ch, "peq bypass", <<i, 0>>, b) : i \in at}
    IN
    CASE cmd.do = "set" -> Coeff(LAMBDA i : cmd.coeff)
      [] cmd.do = "bypass" -> Bypass(cmd.value)
      [] cmd.do = "clear" -> Coeff(LAMBDA i : DefaultBiquad) \cup Bypass(FALSE)
      [] cmd.do = "import" ->
            Coeff(LAMBDA i : FromFile(cmd.biquads, PeqPlace(index, i)))
            \cup Bypass(FALSE)

AskedOfCrossover(ch, sub) ==
    LET groups == Chosen(sub.group, 0 .. 1)
        indices == Chosen(sub.index, 0 .. 3)
        cmd == sub.filter
        Place(g, i) ==
            (IF sub.group = None THEN g * Cardinality(indices) ELSE 0)
            + (IF sub.index = None THEN i + 1 ELSE 1)
        Coeff(is, V(_, _)) ==
            {Setting(ch, "xover", <<g, i>>, V(g, i)) : g \in groups, i \in is}
        Bypass(b) == {Setting(ch, "xover bypass", <<g, 0>>, b) : g \in groups}
    IN
    CASE cmd.do = "set" -> Coeff(indices, LAMBDA g, i : cmd.coeff)
      [] cmd.do = "bypass" -> Bypass(cmd.value)
      [] cmd.do = "clear" ->
            Coeff(0 .. 3, LAMBDA g, i : DefaultBiquad) \cup Bypass(FALSE)
      [] cmd.do = "import" ->
            Coeff(indices, LAMBDA g, i : FromFile(cmd.biquads, Place(g, i)))
            \cup Bypass(FALSE)

AskedOfFilter(ch, cmd) ==
    LET Coeff(v) == {Setting(ch, "taps", Whole, v)}
        Bypass(b) == {Setting(ch, "fir bypass", Whole, b)}
    IN
    CASE cmd.do = "bypass" -> Bypass(cmd.value)
      [] cmd.do = "clear" -> Coeff(From(Zero, 16)) \cup Bypass(FALSE)
      [] OTHER -> Coeff(cmd.coeff)

AskedOfSub(ch, peqCount, sub) ==
    CASE sub.do \in {"gain", "mute", "delay", "invert"} ->
            {Setting(ch, sub.do, Whole, sub.value)}
      [] sub.do = "routing enable" ->
            {Setting(ch, "route", <<sub.output, 0>>, sub.value)}
      [] sub.do = "routing gain" ->
            {Setting(ch, "route gain", <<sub.output, 0>>, sub.value)}
      [] sub.do = "peq" -> AskedOfPeqs(ch, peqCount, sub.index, sub.filter)
      [] sub.do = "crossover" -> AskedOfCrossover(ch, sub)
      [] sub.do = "compressor" -> AskedOfCompressor(ch, sub)
      [] sub.do = "fir" -> AskedOfFilter(ch, sub.filter)

PeqCount(d, ch) ==
    IF ChannelOf(d, ch) = {} THEN 0 ELSE Len(The(ChannelOf(d, ch)).peq)

AskedOfInputs(config) == AllOf(config.inputs, AskedOfInput)
AskedOfOutputs(config) == AllOf(config.outputs, AskedOfOutput)

(* Every setting of a channel that the request names. *)
AskedOf(d, req) ==
    CASE req.cmd = "apply" ->
            AskedOfInputs(req.config) \cup AskedOfOutputs(req.config)
      [] req.cmd = "input" ->
            AskedOfSub(In(req.index), PeqCount(d, In(req.index)), req.sub)
      [] req.cmd = "output" ->
            AskedOfSub(Out(req.index), PeqCount(d, Out(req.index)), req.sub)
      [] OTHER -> {}

-----------------------------------------------------------------------------
(* The master status a request leaves, from the one it finds *)

(* In half decibels; the device keeps one byte. *)
Attenuated(v) == IF v < -255 THEN -255 ELSE v
Toggled(v, was) == (v = "on") \/ (v = "toggle" /\ ~was)
AfterMaster(m, s) ==
    [preset |-> IF s.preset = None THEN m.preset ELSE The(s.preset),
     source |-> IF s.source = None THEN m.source ELSE The(s.source),
     volume |-> IF s.volume = None THEN m.volume
                ELSE Attenuated(The(s.volume)),
     mute |-> IF s.mute = None THEN m.mute ELSE The(s.mute),
     dirac |-> IF s.dirac = None THEN m.dirac ELSE The(s.dirac)]

AfterRequest(m, req) ==
    CASE req.cmd = "gain" ->
            [m EXCEPT !.volume =
                Attenuated(req.value + (IF req.relative THEN @ ELSE 0))]
      [] req.cmd = "mute" -> [m EXCEPT !.mute = Toggled(req.value, @)]
      [] req.cmd = "dirac" -> [m EXCEPT !.dirac = Toggled(req.value, @)]
      [] req.cmd = "source" -> [m EXCEPT !.source = req.value]
      [] req.cmd = "config" -> [m EXCEPT !.preset = req.value]
      [] req.cmd = "apply" ->
            (IF req.config.master_status = None THEN m
             ELSE AfterMaster(m, The(req.config.master_status)))
      [] OTHER -> m
=============================================================================
