------------------------------ MODULE MCControl ------------------------------
(* Jobs of Control for TLC. *)
EXTENDS Plans

Info(hw_id, dsp_version) ==
    [hw_id |-> hw_id, dsp_version |-> dsp_version, forced |-> None]
Single == Info(10, 100)         \* a 2x4HD
TwoByte == Info(1, 0)           \* a 4x10HD
Late == Info(27, 100)           \* a Flex
Dirac == Info(10, 101)          \* a DDRC-24
Studio == Info(14, 105)         \* an SHD, of a version with Dirac
Known == {Info(1, 51), TwoByte, Info(4, 0), Single, Dirac, Studio,
          Info(6, 95), Info(2, 54), Info(11, 97), Late,
          Info(32, 115)}
All == Known \cup {Info(2, 22), Info(99, 0)}

Origin(name, i, what, n) == <<name, i, what, n>>
Value(o) == <<o, 0>>
Coeff(o) == From(o, BiquadWords)
Job(devices, lines) == [devices |-> devices, lines |-> lines]

-----------------------------------------------------------------------------
(* A configuration that sets all there is on the device d *)

Peqs(c, name, i) ==
    [k \in DOMAIN c.peq |->
        [index |-> Some(k - 1), bypass |-> Some(k % 2 = 0),
         coeff |-> Some(Coeff(Origin(name, i, "peq", k)))]]

GateHas(c, V) == IF gate(c) = None THEN None ELSE Some(V)
GainHas(c, V) == IF UNION {g.gain : g \in gate(c)} = {} THEN None ELSE Some(V)

EveryInput(d) ==
    [i \in DOMAIN d.inputs |->
        LET c == d.inputs[i] IN
        [index |-> Some(i - 1),
         mute |-> GateHas(c, i % 2 = 0),
         gain |-> GainHas(c, Value(Origin("input", i, "gain", 0))),
         peq |-> Peqs(c, "input", i),
         routing |-> [o \in DOMAIN c.routing |->
            [index |-> Some(o - 1), mute |-> Some(o % 2 = i % 2),
             gain |-> {Value(Origin("input", i, "route", o)) :
                       a \in c.routing[o].gain}]]]]

Xovers(x, o) ==
    [g \in DOMAIN x |->
        [index |-> Some(g - 1), bypass |-> Some(g % 2 = 0),
         coeff |-> [k \in 1 .. NumFilterPerGroup |->
            [index |-> Some(k - 1),
             coeff |-> Coeff(Origin("xover", o, "group", 10 * g + k))]]]]

EveryOutput(d) ==
    [o \in DOMAIN d.outputs |->
        LET c == d.outputs[o]
            V(what) == Value(Origin("output", o, what, 0))
        IN
        [index |-> Some(o - 1),
         mute |-> GateHas(c, o % 2 = 1), gain |-> GainHas(c, V("gain")),
         peq |-> Peqs(c, "output", o),
         invert |-> Some(o % 2 = 0),
         delay |-> {1017 * o : a \in c.delay_addr},
         crossover |-> IF c.xover = None THEN <<>>
                       ELSE Xovers(The(c.xover), o),
         compressor |-> {[bypass |-> Some(o % 2 = 0),
                          threshold |-> Some(V("threshold")),
                          ratio |-> Some(V("ratio")),
                          attack |-> Some(V("attack")),
                          release |-> Some(V("release"))] :
                         x \in c.compressor},
         fir |-> {[bypass |-> Some(o % 2 = 1),
                   coefficients |->
                    Some(From(Origin("fir", o, "tap", 0), 15))] :
                  f \in c.fir}]]

Master(info) ==
    [preset |-> Some(2), source |-> Some(mapping(info)[Len(mapping(info))]),
     volume |-> Some(-81), mute |-> Some(TRUE), dirac |-> Some(TRUE)]

Configure(master, inputs, outputs) ==
    [cmd |-> "apply",
     config |-> [master_status |-> master, inputs |-> inputs,
                 outputs |-> outputs]]
Everything(info) ==
    Configure(Some(Master(info)), EveryInput(probe(info)),
           EveryOutput(probe(info)))
EverythingJobs == {Job(<<info>>, <<Everything(info)>>) : info \in Known}

-----------------------------------------------------------------------------
(* Configurations that cannot be applied in full *)

NoInput == [index |-> Some(0), mute |-> None, gain |-> None,
            peq |-> <<>>, routing |-> <<>>]
NoOutput == [index |-> Some(0), mute |-> None, gain |-> None, peq |-> <<>>,
             invert |-> None, delay |-> None, crossover |-> <<>>,
             compressor |-> None, fir |-> None]
Gain(n) == Value(Origin("gain", n, "", 0))
Filter(n) == Coeff(Origin("filter", n, "", 0))
APeq(index) == [index |-> index, bypass |-> Some(TRUE),
                coeff |-> Some(Filter(0))]
AnXover(index, first, second) ==
    [index |-> index, bypass |-> Some(TRUE),
     coeff |-> <<[index |-> first, coeff |-> Filter(1)],
                 [index |-> second, coeff |-> Filter(2)]>>]
ARoute(index) == [index |-> index, mute |-> Some(TRUE),
                  gain |-> Some(Gain(1))]
AFir(n) == [bypass |-> Some(TRUE),
            coefficients |-> Some(From(Origin("long", n, "", 0), n))]

GoodInput == [NoInput EXCEPT !.gain = Some(Gain(2)), !.peq = <<APeq(Some(1))>>]
GoodOutput == [NoOutput EXCEPT !.gain = Some(Gain(3)), !.invert = Some(TRUE),
                               !.fir = Some(AFir(0))]

Inputs == {
    GoodInput,
    [GoodInput EXCEPT !.index = None],
    [GoodInput EXCEPT !.index = Some(99)],
    [GoodInput EXCEPT !.peq = <<APeq(None)>>],
    [GoodInput EXCEPT !.peq = <<APeq(Some(0)), APeq(Some(10))>>],
    [GoodInput EXCEPT !.routing = <<ARoute(Some(0)), ARoute(None)>>],
    [GoodInput EXCEPT !.routing = <<ARoute(Some(20))>>] }
Outputs == {
    GoodOutput,
    [GoodOutput EXCEPT !.index = None],
    [GoodOutput EXCEPT !.index = Some(99)],
    [GoodOutput EXCEPT !.peq = <<APeq(Some(40))>>],
    [GoodOutput EXCEPT !.delay = Some(90000)],
    [GoodOutput EXCEPT !.crossover = <<AnXover(None, Some(0), Some(1))>>],
    [GoodOutput EXCEPT !.crossover = <<AnXover(Some(4), Some(0), Some(1))>>],
    [GoodOutput EXCEPT !.crossover = <<AnXover(Some(0), Some(0), None)>>],
    [GoodOutput EXCEPT !.crossover = <<AnXover(Some(0), Some(0), Some(4))>>] }

(* A good input before every output, a good output after every input.      *)
ConfigJobs(info) ==
    {Job(<<info>>, <<Configure(Some(Master(info)), <<in>>, <<GoodOutput>>)>>) :
        in \in Inputs}
    \cup
    {Job(<<info>>, <<Configure(Some(Master(info)), <<GoodInput>>,
                           <<out, GoodOutput>>)>>) : out \in Outputs}

-----------------------------------------------------------------------------
(* The subcommands of the tool.  A crossover or FIR filter is never        *)
(* cleared: the tool's help says that clearing also un-bypasses a filter   *)
(* (main.rs), which the code does for the parametric equalizers only.      *)

OnInput(index, sub) == [cmd |-> "input", index |-> index, sub |-> sub]
OnOutput(index, sub) == [cmd |-> "output", index |-> index, sub |-> sub]
Sub(do, v) == [do |-> do, value |-> v]
Route(do, o, v) == [do |-> do, output |-> o, value |-> v]
Peq(index, f) == [do |-> "peq", index |-> index, filter |-> f]
Fir(f) == [do |-> "fir", filter |-> f]
Crossover(g, i, f) ==
    [do |-> "crossover", group |-> g, index |-> i, filter |-> f]
Set(n) == [do |-> "set", coeff |-> From(Origin("set", n, "", 0), n)]
Bypass(b) == [do |-> "bypass", value |-> b]
Clear == [do |-> "clear"]
File(n) == [do |-> "import", biquads |-> [i \in 1 .. n |-> Filter(i)]]
Wav(n) == [do |-> "import", coeff |-> From(Origin("wav", n, "", 0), n)]

Simple(cmd, v) == [cmd |-> cmd, value |-> v]
Volume(v, relative) == [cmd |-> "gain", value |-> v, relative |-> relative]
Status == [cmd |-> "status"]

MasterRequests == {
    Volume(-60, FALSE), Volume(-300, FALSE), Volume(-7, TRUE),
    Volume(6, TRUE), Volume(-250, TRUE),
    Simple("mute", "on"), Simple("mute", "off"), Simple("mute", "toggle"),
    Simple("dirac", "on"), Simple("dirac", "toggle"),
    Simple("source", "Toslink"), Simple("config", 3), Simple("config", 0) }

ChannelSubs == {
    Sub("gain", Gain(4)), Sub("mute", TRUE), Sub("mute", FALSE),
    Peq(Some(0), Set(5)), Peq(Some(4), Bypass(TRUE)), Peq(Some(1), Clear),
    Peq(Some(2), File(2)), Peq(None, Set(5)), Peq(None, Bypass(FALSE)),
    Peq(None, Clear), Peq(None, File(3)), Peq(None, File(12)),
    Peq(Some(10), Clear), Peq(Some(0), Set(4)) }
InputSubs == {
    Route("routing enable", 1, TRUE), Route("routing enable", 0, FALSE),
    Route("routing gain", 1, Gain(5)), Route("routing enable", 20, TRUE) }
OutputSubs == {
    Sub("delay", 1500), Sub("delay", 83330), Sub("delay", 90000),
    Sub("invert", TRUE), Sub("invert", FALSE),
    Fir(Set(16)), Fir(Bypass(TRUE)), Fir(Wav(29)),
    Crossover(Some(0), Some(3), Set(5)), Crossover(None, None, Set(5)),
    Crossover(Some(1), None, Bypass(TRUE)), Crossover(None, None, Bypass(FALSE)),
    Crossover(Some(0), None, File(4)), Crossover(None, None, File(9)),
    Crossover(Some(1), Some(2), File(1)), Crossover(None, Some(1), File(2)),
    Crossover(Some(4), Some(0), Set(5)), Crossover(Some(0), Some(4), Set(5)),
    Crossover(Some(4), Some(0), Bypass(TRUE)), Crossover(Some(4), None, Clear),
    [do |-> "compressor", bypass |-> Some(TRUE), threshold |-> Some(Gain(6)),
     ratio |-> None, attack |-> Some(Gain(7)), release |-> None] }

Requests ==
    MasterRequests
    \cup {OnInput(0, sub) : sub \in ChannelSubs}
    \cup {OnInput(1, sub) : sub \in InputSubs}
    \cup {OnOutput(1, sub) : sub \in ChannelSubs \cup OutputSubs}
    \cup {OnInput(20, Sub("mute", TRUE)), OnOutput(20, Sub("mute", TRUE))}

RequestJobs(devices) ==
    {Job(devices, <<request>>) : request \in Requests}
MasterJobs(devices) ==
    {Job(devices, <<request>>) : request \in MasterRequests}

(* A 2x4HD that takes forty coefficients: filters that fit and that do not *)
Forty == [o \in DOMAIN by_kind.M2x4Hd.outputs |->
            LET c == by_kind.M2x4Hd.outputs[o] IN
            [c EXCEPT !.fir =
                {[f EXCEPT !.max_coefficients = 40] : f \in c.fir}]]
Short == [Single EXCEPT !.forced =
            Some([by_kind.M2x4Hd EXCEPT !.outputs = Forty])]
FirJobs == {
    Job(<<Short>>, <<OnOutput(2, Fir(Set(40)))>>),
    Job(<<Short, Single>>, <<OnOutput(2, Fir(Set(41)))>>),
    Job(<<Short>>, <<Configure(None, <<GoodInput>>,
        <<[GoodOutput EXCEPT !.fir = Some(AFir(41))], GoodOutput>>)>>) }

(* Files: what a line does is there for the next one, on every device that *)
(* took it; output 7 is there on one of the two devices only.              *)
Files == {
    <<Volume(-60, FALSE), Volume(-7, TRUE), Volume(-7, TRUE)>>,
    <<Simple("mute", "toggle"), Simple("mute", "toggle")>>,
    <<Simple("mute", "on"), Simple("dirac", "toggle")>>,
    <<Simple("config", 1), OnOutput(0, Sub("gain", Gain(1))),
      OnOutput(0, Sub("gain", Gain(2))), OnOutput(1, Sub("mute", TRUE))>>,
    <<OnOutput(0, Sub("gain", Gain(1))), Simple("config", 1),
      OnOutput(1, Sub("gain", Gain(2)))>>,
    <<OnOutput(0, Sub("gain", Gain(1))), OnOutput(7, Sub("mute", TRUE)),
      OnOutput(1, Sub("gain", Gain(2)))>>,
    <<OnInput(0, Peq(None, Set(5))), OnInput(0, Peq(Some(1), Clear)), Status>> }
FileJobs ==
    {Job(<<TwoByte, Single, Late>>, lines) : lines \in Files}
    \cup {Job(<<Dirac, Studio>>, lines) : lines \in {
        <<Simple("dirac", "toggle"), Simple("dirac", "toggle")>>,
        <<Simple("dirac", "on"), Simple("dirac", "toggle"),
          Simple("mute", "toggle")>> }}

-----------------------------------------------------------------------------
(* Levels: the devices, and tables with meters at distances around the     *)
(* size of an answer.  The MiniSHARC is left out: its outputs' meters come *)
(* first, and the levels are reported in each other's place.               *)

StatusJobs ==
    {Job(<<info>>, <<Status>>) : info \in {i \in All : i.hw_id # 4}}

Spread == {0, 1, 13, 14, 15, 28, 29}
WithMeters(s) == [i \in DOMAIN s |-> [meter |-> Some(s[i])]]
MadeUp(S, n) ==
    LET s == SetToSortSeq(S, <)
    IN  [inputs |-> WithMeters(SubSeq(s, 1, n)),
         outputs |-> WithMeters(SubSeq(s, n + 1, Len(s))), symbols |-> {}]
MadeUpJobs ==
    {Job(<< [Single EXCEPT !.forced = Some(MadeUp(S, n))] >>, <<Status>>) :
        S \in kSubset(4, Spread), n \in 0 .. 4}

MCJobs ==
    EverythingJobs
    \cup ConfigJobs(Single) \cup ConfigJobs(TwoByte) \cup ConfigJobs(Late)
    \cup RequestJobs(<<Single>>)
    \cup RequestJobs(<<TwoByte, Info(32, 115)>>)
    \cup MasterJobs(<<Dirac, Studio>>) \cup MasterJobs(<<Dirac, Single>>)
    \cup FirJobs \cup FileJobs \cup StatusJobs \cup MadeUpJobs

ASSUME JobsFit ==
    \A j \in Jobs :
        /\ Metered(j) /\ InOrderWhereRead(j) /\ Fits(j)
        /\ PlansDo(j) /\ AppliesInOrder(j) /\ PlansSteer(j)
=============================================================================
