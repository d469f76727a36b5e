------------------------------ MODULE Control ------------------------------
(***************************************************************************)
(* Requests run on devices: main of the command line tool, which runs the  *)
(* lines of a file on the devices it found (minidsp/src/bin/minidsp), and  *)
(* the daemon's POST /devices/:n/config, which is a file of one line for   *)
(* one device.  Each step is one command and its answer, as the device of  *)
(* Dsp takes it; any command may stay without an answer.                   *)
(* A definition named Bad... is the faulty twin of the one that follows,   *)
(* used by the mutation checks only.                                       *)
(***************************************************************************)
EXTENDS Asked

CONSTANTS
    READ_FLOATS_MAX,    \* floats that fit in one answer: 14
    Jobs                \* jobs: the devices found, the lines to run on each

ASSUME ControlAssumption ==
    /\ READ_FLOATS_MAX \in Nat \ {0}
    /\ \A j \in Jobs : \A part \in {j.devices, j.lines} :
        Len(part) \in Nat \ {0} /\ DOMAIN part = 1 .. Len(part)

VARIABLES
    job,        \* the job
    tables,     \* the tables of its devices
    line,       \* the line that runs
    at,         \* the device it runs on
    todo,       \* the steps left of the line on that device
    saved,      \* the memory of the master status, as read last: an option
    dsp,        \* the devices
    results,    \* what the line returned, for the devices before this one
    result,     \* "running", then what the job returns
    addrs,      \* Levels' addrs, while levels are read
    levels,     \* Levels' output
    commands,   \* Levels' commands
    answer      \* Levels' answer

reading == <<addrs, levels, commands, answer>>
vars == <<job, tables, line, at, todo, saved, dsp, results, result, reading>>

Infos == job.devices
Lines == job.lines

(* The table of a device, unless another was forced on it. *)
table(info) ==
    IF info.forced = None THEN probe(info) ELSE The(info.forced)
Table(i) == tables[i]

(* The steps of a line on a device. *)
Plan(l, i) == run_command(Table(i), Infos[i], Lines[l])

TableHere == Table(at)
Reading == INSTANCE Levels WITH spec <- TableHere

Sent == {"Write", "WriteBiquad", "WriteBiquadBypass", "FirLoadStart",
         "FirLoadData", "FirLoadEnd", "SetConfig", "SetSource", "SetMute",
         "SetVolume", "DiracBypass", "ReadMemory"}
Refusals == {"OutOfRange", "NoSuchPeripheral", "InternalError",
             "TooManyCoefficients", "panic"}

NewMaster ==
    [preset |-> 0, source |-> 0, volume |-> -20, mute |-> FALSE,
     dirac |-> FALSE]

Idle == addrs = <<>> /\ levels = <<>> /\ commands = <<>> /\ answer = <<>>

Init ==
    /\ job \in Jobs
    /\ tables = [i \in DOMAIN Infos |-> table(Infos[i])]
    /\ line = 1 /\ at = 1 /\ todo = Plan(1, 1)
    /\ saved = None /\ results = <<>> /\ result = "running"
    /\ dsp = [i \in DOMAIN Infos |-> Blank(NewMaster)]
    /\ Idle

TypeOK ==
    /\ line \in DOMAIN Lines /\ at \in DOMAIN Infos
    /\ DOMAIN dsp = DOMAIN Infos
    /\ \A i \in DOMAIN dsp :
        /\ DOMAIN dsp[i].words \subseteq Addr
        /\ DOMAIN dsp[i].bypassed \subseteq Addr
        /\ DOMAIN dsp[i].filters \subseteq 0 .. 255
        /\ dsp[i].master.volume \in -255 .. 0
        /\ dsp[i].master.mute \in BOOLEAN /\ dsp[i].master.dirac \in BOOLEAN
        /\ dsp[i].master.source \in 0 .. 255
    /\ Len(results) < Len(Infos) \/ result # "running"
    /\ result \in {"running", "ok", "NoAnswer"} \cup Refusals

-----------------------------------------------------------------------------
(* The device's side *)

(* "The MiniDSP Flex is immediately responding to `SetConfig` without      *)
(* waiting for it to be applied" (lib.rs).                                 *)
SwitchesLate(info) == info.hw_id = 27

Received(d, info, frame) ==
    LET after == execute(d, frame) IN
    IF after.next # None /\ ~SwitchesLate(info) THEN Switched(after)
    ELSE after

Switch(i) ==
    /\ dsp[i].next # None
    /\ dsp' = [dsp EXCEPT ![i] = Switched(@)]
    /\ UNCHANGED <<job, tables, line, at, todo, saved, results, result,
                   reading>>

-----------------------------------------------------------------------------
(* From one device to the next, and from one line to the next *)

(* The line runs on every device; a failure on any ends the job then. *)
BadTurn(returned) ==
    IF at < Len(Infos)
    THEN /\ results' = returned /\ at' = at + 1
         /\ todo' = Plan(line, at + 1) /\ UNCHANGED <<line, result>>
    ELSE IF line < Len(Lines)
    THEN /\ results' = <<>> /\ line' = line + 1 /\ at' = 1
         /\ todo' = Plan(line + 1, 1) /\ UNCHANGED result
    ELSE /\ results' = returned /\ todo' = <<>>
         /\ result' = Last(returned) /\ UNCHANGED <<line, at>>
BadCollect(returned) ==
    LET failed == SelectInSeq(returned, LAMBDA r : r # "ok") IN
    IF at < Len(Infos)
    THEN /\ results' = returned /\ at' = at + 1
         /\ todo' = Plan(line, at + 1) /\ UNCHANGED <<line, result>>
    ELSE IF failed = 0 /\ line < Len(Lines)
    THEN /\ results' = returned /\ line' = line + 1 /\ at' = 1
         /\ todo' = Plan(line + 1, 1) /\ UNCHANGED result
    ELSE /\ results' = returned /\ todo' = <<>>
         /\ result' = (IF failed = 0 THEN "ok" ELSE returned[failed])
         /\ UNCHANGED <<line, at>>
Turn(returned) ==
    LET failed == SelectInSeq(returned, LAMBDA r : r # "ok") IN
    IF at < Len(Infos)
    THEN /\ results' = returned /\ at' = at + 1
         /\ todo' = Plan(line, at + 1) /\ UNCHANGED <<line, result>>
    ELSE IF failed = 0 /\ line < Len(Lines)
    THEN /\ results' = <<>> /\ line' = line + 1 /\ at' = 1
         /\ todo' = Plan(line + 1, 1) /\ UNCHANGED result
    ELSE /\ results' = returned /\ todo' = <<>>
         /\ result' = (IF failed = 0 THEN "ok" ELSE returned[failed])
         /\ UNCHANGED <<line, at>>

Return(r) ==
    /\ Turn(Append(results, r))
    /\ saved' = None
    /\ addrs' = <<>> /\ levels' = <<>> /\ commands' = <<>> /\ answer' = <<>>
    /\ UNCHANGED <<job, tables>>

Running == result = "running"
Doing(op) == Running /\ todo # <<>> /\ Head(todo).op = op

Finished == Running /\ todo = <<>> /\ Return("ok") /\ UNCHANGED dsp

(* A panic ends the program at once. *)
Refused ==
    /\ Doing("Refuse")
    /\ IF Head(todo).error = "panic"
       THEN /\ result' = "panic" /\ todo' = <<>>
            /\ UNCHANGED <<job, tables, line, at, saved, results, reading>>
       ELSE Return(Head(todo).error)
    /\ UNCHANGED dsp

-----------------------------------------------------------------------------
(* Commands *)

(* What is relative to the status read before is now known.  Dirac is part *)
(* of that status on the devices that support it only: on any other, the   *)
(* step that unwraps it (unwrap_dirac) ends the program before.            *)
Resolved(c) ==
    CASE c.op = "SetMute" /\ c.value \in {"on", "off"} ->
            [c EXCEPT !.value = (c.value = "on")]
      [] c.op = "SetMute" /\ c.value = "toggle" ->
            [c EXCEPT !.value = ~The(saved).mute]
      [] c.op = "SetMute" /\ c.value = "restore" ->
            [c EXCEPT !.value = The(saved).mute]
      [] c.op = "DiracBypass" ->
            [c EXCEPT !.value = Bit(~(c.value = "on"
                \/ (c.value = "toggle" /\ ~The(saved).dirac)))]
      [] c.op = "SetVolume" /\ c.relative ->
            [c EXCEPT !.value = @ + The(saved).volume]
      [] OTHER -> c

Outgoing == to_bytes(Resolved(Head(todo)))
Taken == [dsp EXCEPT ![at] = Received(@, Infos[at], Outgoing)]
Sending == Running /\ todo # <<>> /\ Head(todo).op \in Sent

Answered ==
    /\ Sending
    /\ dsp' = Taken
    /\ todo' = Tail(todo)
    /\ saved' = IF Head(todo).op = "ReadMemory" THEN Some(dsp[at].master)
                ELSE saved
    /\ UNCHANGED <<job, tables, line, at, results, result, reading>>

(* The command or its answer is lost, and the call times out. *)
BadLost ==
    /\ Sending /\ Head(todo).op # "ReadMemory"
    /\ dsp' = dsp \/ dsp' = Taken
    /\ todo' = Tail(todo)
    /\ UNCHANGED <<job, tables, line, at, saved, results, result, reading>>
Lost ==
    /\ Sending \/ Doing("ReadLevels")
    /\ dsp' = dsp \/ (Sending /\ dsp' = Taken)
    /\ Return("NoAnswer")

(* What FirLoadStart answered is compared with the length of the filter. *)
BadFirFits ==
    /\ Doing("IntoFirSize")
    /\ IF Head(todo).len >= FirLoadSize(TableHere, Head(todo).index)
       THEN Return("TooManyCoefficients")
       ELSE /\ todo' = Tail(todo)
            /\ UNCHANGED <<job, tables, line, at, saved, results, result,
                           reading>>
    /\ UNCHANGED dsp
FirFits ==
    /\ Doing("IntoFirSize")
    /\ IF Head(todo).len > FirLoadSize(TableHere, Head(todo).index)
       THEN Return("TooManyCoefficients")
       ELSE /\ todo' = Tail(todo)
            /\ UNCHANGED <<job, tables, line, at, saved, results, result,
                           reading>>
    /\ UNCHANGED dsp

(* The preset is read again until it is the one asked for. *)
BadPresetRead ==
    /\ Doing("AwaitPreset")
    /\ todo' = Tail(todo)
    /\ UNCHANGED <<job, tables, line, at, saved, dsp, results, result,
                   reading>>
PresetRead ==
    /\ Doing("AwaitPreset")
    /\ todo' = IF The(saved).preset = Head(todo).preset THEN Tail(todo)
               ELSE get_master_status \o todo
    /\ UNCHANGED <<job, tables, line, at, saved, dsp, results, result,
                   reading>>

-----------------------------------------------------------------------------
(* Levels *)

CollectMeters ==
    /\ Doing("CollectMeters")
    /\ todo' = Tail(todo)
    /\ addrs' = Reading!Ascending(Reading!Wanted)
    /\ UNCHANGED <<job, tables, line, at, saved, dsp, results, result, levels,
                   commands, answer>>

ReadChunk ==
    /\ Doing("ReadLevels")
    /\ UNCHANGED <<job, tables, line, at, todo, saved, dsp, results, result>>
    /\ Reading!ReadChunk

Split ==
    /\ Doing("ReadLevels")
    /\ UNCHANGED <<job, tables, line, at, saved, dsp, results, result>>
    /\ Reading!Split
    /\ todo' = Tail(todo)

Ended == ~Running /\ UNCHANGED vars

Next ==
    \/ \E i \in DOMAIN Infos : Switch(i)
    \/ Finished \/ Refused \/ Answered \/ Lost \/ FirFits \/ PresetRead
    \/ CollectMeters \/ ReadChunk \/ Split \/ Ended

Spec == Init /\ [][Next]_vars

-----------------------------------------------------------------------------
(* Properties *)

AskedBy(l, i) == AskedOf(Table(i), Lines[l])
IsPreset(req) ==
    \/ req.cmd = "config"
    \/ req.cmd = "apply" /\ \E s \in req.config.master_status : s.preset # None

(* Line l has begun on device i, and it has returned "ok" there. *)
Begun(l, i) == l < line \/ (l = line /\ i <= at)
Completed(l, i) ==
    l < line \/ (l = line /\ i \in DOMAIN results /\ results[i] = "ok")

(* A later line asks for another value, or goes to another preset. *)
Overruled(s, l, i) ==
    \E k \in l + 1 .. Len(Lines) : Begun(k, i) /\
        (\/ IsPreset(Lines[k])
         \/ \E t \in AskedBy(k, i) :
                t.ch = s.ch /\ t.what = s.what /\ t.n = s.n)

(* A request that returned "ok" did all it was asked: "Each field is       *)
(* optional, and will trigger an action if set" (model.rs).  Every setting *)
(* it names is in the words the device's table gives it, in the meaning    *)
(* the device's dialect gives them, and in the preset that is in use.      *)
OkMeansDone ==
    \A i \in DOMAIN Infos : \A l \in DOMAIN Lines :
        Completed(l, i) => \A s \in AskedBy(l, i) :
            /\ Possible(Table(i), s)
            /\ Holds(Table(i), dsp[i], s) \/ Overruled(s, l, i)

(* The master status a job leaves behind on each device is the one that    *)
(* its lines ask for one after the other, as the sources are named there.  *)
Named(m, info) == [m EXCEPT !.source = from_id(info, @)]
MasterAfter(info, lines) ==
    LET m[l \in 0 .. Len(lines)] ==
            IF l = 0 THEN Named(NewMaster, info)
            ELSE AfterRequest(m[l - 1], lines[l])
    IN  m
MasterAsAsked ==
    result = "ok" => \A i \in DOMAIN Infos :
        Named(dsp[i].master, Infos[i]) =
            MasterAfter(Infos[i], Lines)[Len(Lines)]

(* Nothing else is written, whatever the job returned: a word that was     *)
(* written is one of exactly one setting that was asked for, and runs into *)
(* no other register of the table, and likewise for the flags.             *)
NoneShared(cells) ==
    Cardinality(UNION {{<<c, a>> : a \in c} : c \in cells}) =
        Cardinality(UNION cells)
Apart(d, asked) ==
    LET cells == {Words(d, s) : s \in asked} IN
    /\ NoneShared(cells)
    /\ \A c \in cells : \A a \in c : a \in d.symbols => a = Lowest(c)
AllWords(d, asked) == UNION {Words(d, s) : s \in asked}
AllFlags(d, asked) == UNION {Flags(d, s) : s \in asked}
OnlyAsked ==
    result # "running" => \A i \in DOMAIN Infos :
        LET asked == UNION {AskedBy(l, i) :
                            l \in {l \in DOMAIN Lines : Begun(l, i)}}
        IN
        /\ DOMAIN dsp[i].words \subseteq AllWords(Table(i), asked)
        /\ DOMAIN dsp[i].bypassed \subseteq AllFlags(Table(i), asked)
        /\ Apart(Table(i), asked)

(* A request is refused only when it asks for what the device does not     *)
(* have or cannot take.                                                    *)
RefusedIsImpossible ==
    \A i \in DOMAIN results :
        results[i] \in Refusals =>
            \E s \in AskedBy(line, i) : ~Possible(Table(i), s)

(* When a configuration is cut short, what was done came first: "Always    *)
(* set master status first, since it might change the current active       *)
(* preset" (model.rs), then the inputs, then the outputs.                  *)
Written(d, dev, s) ==
    Words(d, s) \cap DOMAIN dev.words # {}
    \/ Flags(d, s) \cap DOMAIN dev.bypassed # {}
InOrder ==
    \A i \in DOMAIN Infos :
        (Lines[line].cmd = "apply" /\ result \notin {"running", "ok"}) =>
            LET d == Table(i)
                config == Lines[line].config
                outs == AskedOfOutputs(config)
                ins == AskedOfInputs(config)
            IN
            /\ (\E s \in outs : Written(d, dsp[i], s)) =>
                    \A s \in ins : Holds(d, dsp[i], s)
            /\ (\E s \in outs \cup ins : Written(d, dsp[i], s)) =>
                    \A m \in config.master_status :
                        LET now == Named(dsp[i].master, Infos[i])
                            then == AfterMaster(now, m)
                        IN  [now EXCEPT !.mute = then.mute] = then

(* Levels' properties, for the devices whose status is asked for. *)
EachItsOwn == Reading!EachItsOwn
LeastCommands == Reading!LeastCommands
=============================================================================
