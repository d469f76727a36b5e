-------------------------------- MODULE Plans --------------------------------
(***************************************************************************)
(* What a job of Control takes for granted of the plans it carries out,    *)
(* the steps of each line on each device: what a plan does if every step   *)
(* of it is taken once, in order, on a device that nothing else happens    *)
(* to.  The theorems about Control start from here.                        *)
(***************************************************************************)
EXTENDS Control

-----------------------------------------------------------------------------
(* Reading levels *)

(* What reading the levels takes for granted.  A plan reads them at its    *)
(* end, when the meters have been collected, which are addresses.          *)
IsSequence(s) == Len(s) \in Nat /\ s = [k \in 1 .. Len(s) |-> s[k]]
MetersIn(d) == Reading!Meters(d.inputs) \cup Reading!Meters(d.outputs)
CollectsFirst(plan) ==
    /\ IsSequence(plan)
    /\ \A k \in DOMAIN plan :
        /\ plan[k].op = "CollectMeters" =>
            k = Len(plan) - 1 /\ plan[k + 1].op = "ReadLevels"
        /\ plan[k].op = "ReadLevels" =>
            k = Len(plan) /\ k # 1 /\ plan[k - 1].op = "CollectMeters"
Metered(j) ==
    \A i \in DOMAIN j.devices :
        LET d == table(j.devices[i]) IN
        /\ IsFiniteSet(MetersIn(d)) /\ MetersIn(d) \subseteq Nat
        /\ \A l \in DOMAIN j.lines :
            CollectsFirst(run_command(d, j.devices[i], j.lines[l]))

(* And where they are read, the meters of the inputs come before those of  *)
(* the outputs, in ascending order, and if an output has one, so has every *)
(* input.                                                                  *)
MetersInOrder(d) ==
    LET ins == Reading!MetersOf(d.inputs)
        outs == Reading!MetersOf(d.outputs)
        all == ins \o outs
    IN  /\ ins \in Seq(Nat) /\ outs \in Seq(Nat)
        /\ Reading!Ascending(MetersIn(d)) = all
        /\ Len(ins) = Min({Len(d.inputs), Len(all)})
ReadsLevels(plan) == \E k \in DOMAIN plan : plan[k].op = "ReadLevels"
InOrderWhereRead(j) ==
    \A i \in DOMAIN j.devices : \A l \in DOMAIN j.lines :
        LET d == table(j.devices[i]) IN
        ReadsLevels(run_command(d, j.devices[i], j.lines[l]))
            => MetersInOrder(d)

-----------------------------------------------------------------------------
(* Writing, and refusing *)

(* What a job takes for granted of the plans it carries out: a step writes *)
(* within what its line asks for, at addresses that the device can tell    *)
(* apart, there is a step that refuses only if the line asks for what is   *)
(* not possible (a panic is no refusal), and what is relative to the       *)
(* status comes after reading it.                                          *)
Reach(len) == IF len = 2 THEN 2 ^ 12 ELSE 2 ^ 20
WritesWithin(d, c, words, flags) ==
    /\ d.addr_len \in {2, 3}
    /\ \E a \in {c.addr.val} :
        /\ a \in 0 .. Reach(d.addr_len) - 1
        /\ \/ /\ c.op = "Write" /\ a \in words
              /\ \E v \in {c.value} :
                    c = [op |-> "Write", addr |-> addr(d, a), value |-> v]
           \/ /\ c.op = "WriteBiquad"
              /\ a .. a + BiquadWords - 1 \subseteq words
              /\ \E v \in {c.data} :
                    /\ c = [op |-> "WriteBiquad", addr |-> addr(d, a),
                            data |-> v]
                    /\ Len(v) = BiquadWords
           \/ /\ c.op = "WriteBiquadBypass" /\ a \in flags
              /\ \E v \in {c.value} :
                    /\ c = [op |-> "WriteBiquadBypass", addr |-> addr(d, a),
                            value |-> v]
                    /\ v \in BOOLEAN
StepFits(d, c, words, flags, possible) ==
    /\ "op" \in DOMAIN c
    /\ c.op \in {"Write", "WriteBiquad", "WriteBiquadBypass"} =>
        WritesWithin(d, c, words, flags)
    /\ c.op = "Refuse" =>
        c.error = "panic" \/ (c.error \in Refusals /\ ~possible)
    /\ c.op = "IntoFirSize" /\ c.len > FirLoadSize(d, c.index) => ~possible
    /\ c.op = "FirLoadStart" => c.index \in 0 .. 255
    /\ c.op = "SetSource" => c.source \in 0 .. 255
    /\ c.op = "SetVolume" =>
        /\ {"value", "relative"} \subseteq DOMAIN c
        /\ c.value \in Int /\ c.relative \in BOOLEAN
    /\ c.op = "DiracBypass" => "value" \in DOMAIN c
IsRelative(c) == c.op = "SetVolume" /\ c.relative
ReadsFirst(plan) ==
    \A k \in DOMAIN plan : IsRelative(plan[k]) =>
        \E n \in 1 .. k - 1 : plan[n].op = "ReadMemory"
PlanFits(d, plan, asked) ==
    LET words == AllWords(d, asked)
        flags == AllFlags(d, asked)
        possible == \A s \in asked : Possible(d, s)
    IN  /\ words \subseteq Addr /\ flags \subseteq Addr
        /\ IsSequence(plan) /\ ReadsFirst(plan)
        /\ \A k \in DOMAIN plan :
            StepFits(d, plan[k], words, flags, possible)
Fits(j) ==
    \A i \in DOMAIN j.devices :
        LET d == table(j.devices[i]) IN
        /\ \A l \in DOMAIN j.lines :
            PlanFits(d, run_command(d, j.devices[i], j.lines[l]),
                     AskedOf(d, j.lines[l]))
        /\ \A n \in 0 .. Len(j.lines) :
            Apart(d, UNION {AskedOf(d, j.lines[l]) : l \in 1 .. n})

-----------------------------------------------------------------------------
(* What a plan leaves behind *)

(* A device's registers: a word or a flag at an address; the source, the   *)
(* volume or Dirac, at no address.                                         *)
Has(dev, kind, a, v) ==
    \/ kind = "word" /\ a \in DOMAIN dev.words /\ dev.words[a] = v
    \/ kind = "flag" /\ a \in DOMAIN dev.bypassed /\ dev.bypassed[a] = v
    \/ kind = "source" /\ dev.master.source = v
    \/ kind = "volume" /\ dev.master.volume = v
    \/ kind = "dirac" /\ dev.master.dirac = v

(* The step sets a register; to what, unless it is relative to the status. *)
Touches(c, kind, a) ==
    \/ kind = "word" /\ c.op = "Write" /\ a = c.addr.val
    \/ kind = "word" /\ c.op = "WriteBiquad"
        /\ a \in c.addr.val .. c.addr.val + BiquadWords - 1
    \/ kind = "flag" /\ c.op = "WriteBiquadBypass" /\ a = c.addr.val
    \/ kind = "source" /\ c.op = "SetSource"
    \/ kind = "volume" /\ c.op = "SetVolume"
    \/ kind = "dirac" /\ c.op = "DiracBypass"
IsAbsolute(c) ==
    /\ c.op = "SetVolume" => ~c.relative
    /\ c.op = "DiracBypass" => c.value \in {"on", "off"}
Leaves(c, a) ==
    CASE c.op = "WriteBiquad" -> c.data[a - c.addr.val + 1]
      [] c.op = "SetSource" -> c.source
      [] c.op = "SetVolume" -> -GainByte(c.value)
      [] c.op = "DiracBypass" -> c.value = "on"
      [] OTHER -> c.value

(* What the first n steps leave in a register that no later step touches,  *)
(* if they set it.                                                         *)
Settled(plan, k, kind, a) ==
    /\ Touches(plan[k], kind, a) /\ IsAbsolute(plan[k])
    /\ \A m \in k + 1 .. Len(plan) : ~Touches(plan[m], kind, a)
Final(plan, n, kind, a) ==
    {Leaves(plan[k], a) : k \in {k \in 1 .. n : Settled(plan, k, kind, a)}}

DoneBy(d, plan, n, s) ==
    /\ \A a \in Words(d, s) :
        \E v \in Final(plan, n, "word", a) : Says(d, s, a, v)
    /\ \A a \in Flags(d, s) : s.value \in Final(plan, n, "flag", a)

(* The load of a FIR filter begins with step k, its coefficients follow in *)
(* order, and no later step loads the same filter.                         *)
IsLoad(c, index) == c.op \in {"FirLoadStart", "FirLoadData"} /\ c.index = index
LoadedAt(plan, k, index, coeff) ==
    LET blocks == Len(Chunks(coeff)) IN
    /\ plan[k].op = "FirLoadStart" /\ plan[k].index = index
    /\ k + 1 + blocks <= Len(plan)
    /\ \A b \in 1 .. blocks :
        /\ plan[k + 1 + b].op = "FirLoadData"
        /\ plan[k + 1 + b].index = index
        /\ plan[k + 1 + b].data = Chunks(coeff)[b]
    /\ \A m \in k + 1 .. Len(plan) :
        IsLoad(plan[m], index) => m \in k + 2 .. k + 1 + blocks

Does(d, plan, s) ==
    /\ Possible(d, s)
    /\ DoneBy(d, plan, Len(plan), s)
    /\ s.what = "taps" =>
        /\ IsSequence(s.value)
        /\ \A f \in Firs(d, s) :
            \E k \in DOMAIN plan : LoadedAt(plan, k, f.index, s.value)

(* A step that does not let the plan go on. *)
StopsAt(d, c) ==
    \/ c.op = "Refuse"
    \/ c.op = "IntoFirSize" /\ c.len > FirLoadSize(d, c.index)
Stopped(d, plan, n) == \E k \in 1 .. n : StopsAt(d, plan[k])

(* A preset is switched to before anything else, and waited for. *)
PresetsOf(req) ==
    IF req.cmd = "config" THEN {req.value}
    ELSE IF req.cmd = "apply"
         THEN UNION {s.preset : s \in req.config.master_status}
         ELSE {}
SwitchesFirst(plan, presets) ==
    \A k \in DOMAIN plan :
        /\ plan[k].op = "SetConfig" =>
            /\ k = 1 /\ Len(plan) >= 3 /\ plan[1].config \in presets
            /\ plan[2] = Head(get_master_status)
            /\ plan[3] = [op |-> "AwaitPreset", preset |-> plan[1].config]
        /\ plan[k].op = "AwaitPreset" => k = 3 /\ plan[1].op = "SetConfig"

(* A plan does all that its line asks for, unless there is a step in it    *)
(* that cannot be taken; and only filters that are asked for are loaded.   *)
PlanDoes(d, plan, req) ==
    LET asked == AskedOf(d, req) IN
    /\ Stopped(d, plan, Len(plan)) \/ \A s \in asked : Does(d, plan, s)
    /\ SwitchesFirst(plan, PresetsOf(req))
    /\ \A k \in DOMAIN plan :
        plan[k].op \in {"FirLoadStart", "FirLoadData"} =>
            \E s \in asked : s.what = "taps" /\
                \E f \in Firs(d, s) : f.index = plan[k].index

(* Two lines that set the same thing name the same setting. *)
Meet(d, s, t) ==
    \/ Words(d, s) \cap Words(d, t) # {}
    \/ Flags(d, s) \cap Flags(d, t) # {}
    \/ s.what = "taps" /\ t.what = "taps"
        /\ \E f \in Firs(d, s), g \in Firs(d, t) : f.index = g.index
SameSetting(s, t) == t.ch = s.ch /\ t.what = s.what /\ t.n = s.n

(* A device that switches late is not told to switch to a preset it is in, *)
(* or has been in: the status could not tell whether it has switched.      *)
PresetsTold(j, info) ==
    SwitchesLate(info) =>
        \A l \in DOMAIN j.lines : \A p \in PresetsOf(j.lines[l]) :
            /\ p # NewMaster.preset
            /\ \A k \in 1 .. l - 1 : p \notin PresetsOf(j.lines[k])

PlansDo(j) ==
    \A i \in DOMAIN j.devices :
        LET d == table(j.devices[i]) IN
        /\ \A l \in DOMAIN j.lines :
            PlanDoes(d, run_command(d, j.devices[i], j.lines[l]), j.lines[l])
        /\ \A l \in DOMAIN j.lines : \A k \in 1 .. l - 1 :
            \A s \in AskedOf(d, j.lines[k]), t \in AskedOf(d, j.lines[l]) :
                Meet(d, s, t) => SameSetting(s, t)
        /\ PresetsTold(j, j.devices[i])

-----------------------------------------------------------------------------
(* The order of a configuration *)

Hits(c, words, flags) ==
    \/ c.op = "Write" /\ c.addr.val \in words
    \/ c.op = "WriteBiquad"
        /\ (c.addr.val .. c.addr.val + BiquadWords - 1) \cap words # {}
    \/ c.op = "WriteBiquadBypass" /\ c.addr.val \in flags
FirstHit(plan, k, words, flags) ==
    /\ Hits(plan[k], words, flags)
    /\ \A m \in 1 .. k - 1 : ~Hits(plan[m], words, flags)

MasterBy(info, plan, n, s) ==
    /\ \A p \in s.preset :
        n >= 3 /\ plan[1].op = "SetConfig" /\ plan[1].config = p
    /\ \A x \in s.source :
        \E v \in Final(plan, n, "source", 0) : from_id(info, v) = x
    /\ \A v \in s.volume : Attenuated(v) \in Final(plan, n, "volume", 0)
    /\ \A b \in s.dirac : b \in Final(plan, n, "dirac", 0)

(* The first output that is written to is written to when every input has  *)
(* been, and the first of all when the master status has been set.         *)
Ordered(d, info, plan, config) ==
    LET outs == AskedOfOutputs(config)
        ins == AskedOfInputs(config)
        outWords == AllWords(d, outs)
        outFlags == AllFlags(d, outs)
        words == outWords \cup AllWords(d, ins)
        flags == outFlags \cup AllFlags(d, ins)
    IN  /\ \A s \in ins : s.what # "taps"
        /\ \A k \in DOMAIN plan :
            /\ FirstHit(plan, k, outWords, outFlags) =>
                \/ Stopped(d, plan, k - 1)
                \/ \A s \in ins : DoneBy(d, plan, k - 1, s)
            /\ FirstHit(plan, k, words, flags) =>
                \/ Stopped(d, plan, k - 1)
                \/ \A s \in config.master_status :
                        MasterBy(info, plan, k - 1, s)

(* A configuration is a job of its own (POST /devices/:n/config).          *)
AppliesInOrder(j) ==
    \A l \in DOMAIN j.lines : j.lines[l].cmd = "apply" =>
        /\ Len(j.lines) = 1
        /\ \A i \in DOMAIN j.devices :
            LET d == table(j.devices[i]) IN
            Ordered(d, j.devices[i],
                    run_command(d, j.devices[i], j.lines[l]),
                    j.lines[l].config)

-----------------------------------------------------------------------------
(* The master status *)

(* A step decides a field of the master status; that the mute status read  *)
(* before a load is set back afterwards decides nothing.                   *)
MasterFields == {"source", "volume", "mute", "dirac"}
Decides(c, field) ==
    \/ field = "source" /\ c.op = "SetSource"
    \/ field = "volume" /\ c.op = "SetVolume"
    \/ field = "mute" /\ c.op = "SetMute" /\ c.value # "restore"
    \/ field = "dirac" /\ c.op = "DiracBypass"
DecidedBy(plan, n, field) == \E k \in 1 .. n : Decides(plan[k], field)

(* What it decides, where the status read before has v in that field.      *)
FromStatus(c) ==
    \/ IsRelative(c)
    \/ c.op \in {"SetMute", "DiracBypass"} /\ c.value = "toggle"
Decision(info, c, field, v) ==
    CASE field = "source" -> from_id(info, c.source)
      [] field = "volume" ->
            -GainByte(c.value + (IF c.relative THEN v ELSE 0))
      [] OTHER -> c.value = "on" \/ (c.value = "toggle" /\ ~v)

(* The status was read since the field was decided last.                   *)
Informed(plan, n, field) ==
    \E k \in 1 .. n :
        /\ plan[k].op = "ReadMemory"
        /\ \A m \in k + 1 .. n : ~Decides(plan[m], field)

(* A filter is being loaded, which mutes the device. *)
InLoad(plan, n) ==
    \E k \in 1 .. n :
        /\ plan[k].op = "FirLoadStart"
        /\ \A m \in k + 1 .. n : plan[m].op # "SetMute"

(* What a line makes of a field that has the value v. *)
FieldAfter(req, field, v) ==
    AfterRequest([NewMaster EXCEPT ![field] = v], req)[field]
FieldValues(info, field) ==
    CASE field = "source" -> {from_id(info, id) : id \in 0 .. 255}
      [] field = "volume" -> -255 .. 0
      [] OTHER -> BOOLEAN

(* A plan decides the fields that its line asks for, as it asks; what is   *)
(* relative, or set back after a load, starts from a status that is up to  *)
(* date, and no load is left open.                                         *)
PlanSteers(info, plan, req) ==
    /\ \A field \in MasterFields : \A v \in FieldValues(info, field) :
        LET after == FieldAfter(req, field, v) IN
        /\ ~DecidedBy(plan, Len(plan), field) => after = v
        /\ \A k \in DOMAIN plan : Decides(plan[k], field) =>
            /\ (field = "volume" => after <= 0) =>
                Decision(info, plan[k], field, v) = after
            /\ FromStatus(plan[k]) =>
                Informed(plan, k - 1, field) /\ ~DecidedBy(plan, k - 1, field)
    /\ \A k \in DOMAIN plan :
        /\ plan[k].op = "ReadMemory" => ~InLoad(plan, k - 1)
        /\ plan[k].op = "SetMute" =>
            /\ "value" \in DOMAIN plan[k]
            /\ \/ plan[k].value \in {"on", "off", "toggle"}
               \/ plan[k].value = "restore" /\ Informed(plan, k - 1, "mute")
    /\ ~InLoad(plan, Len(plan))

(* No line asks for a volume above 0 dB, which the code cannot express, and *)
(* a line that leaves the device in another preset has it switch there.    *)
PlansSteer(j) ==
    \A i \in DOMAIN j.devices : \A l \in DOMAIN j.lines :
        LET info == j.devices[i]
            plan == run_command(table(info), info, j.lines[l])
            after == MasterAfter(info, j.lines)
        IN  \/ Stopped(table(info), plan, Len(plan))
            \/ /\ PlanSteers(info, plan, j.lines[l])
               /\ after[l].volume <= 0
               /\ after[l].preset =
                    IF plan # <<>> /\ plan[1].op = "SetConfig"
                    THEN plan[1].config ELSE after[l - 1].preset
=============================================================================
