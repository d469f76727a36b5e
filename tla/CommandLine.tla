----------------------------- MODULE CommandLine -----------------------------
(***************************************************************************)
(* The subcommands of the command line tool (minidsp/src/bin/minidsp) as   *)
(* the steps each of them takes on a device: run_command and what it calls *)
(* in handlers.rs.  A request of kind "apply" is the daemon's              *)
(* POST /devices/:n/config, which applies a whole configuration.           *)
(***************************************************************************)
EXTENDS Configuration

(* A PEQTarget: an index, or None for all of them. *)
into_range(target, n) ==
    IF target = None THEN [i \in 1 .. n |-> i - 1] ELSE <<The(target)>>

(* A file's biquads, one for each slot; the slots left over are cleared.   *)
Import(biquads, i, Set(_), Clear) ==
    IF i \in DOMAIN biquads THEN Set(biquads[i]) ELSE Clear

run_peq(d, peqs, cmd) ==
    CASE cmd.do = "set" ->
            Each(peqs, LAMBDA at : set_coefficients(d, at, cmd.coeff))
      [] cmd.do = "bypass" ->
            Each(peqs, LAMBDA at : set_bypass(d, at, cmd.value))
      [] cmd.do = "clear" ->
            Each(peqs, LAMBDA at : clear(d, at) \o set_bypass(d, at, FALSE))
      [] cmd.do = "import" ->
            FlattenSeq([i \in DOMAIN peqs |->
                Import(cmd.biquads, i,
                       LAMBDA b : set_coefficients(d, peqs[i], b),
                       clear(d, peqs[i]))
                \o set_bypass(d, peqs[i], FALSE)])

(* The tool takes a crossover for two groups. *)
GROUPS == 2
XoverImport(d, x, biquads, groups, indices) ==
    FlattenSeq([g \in DOMAIN groups |->
        FlattenSeq([i \in DOMAIN indices |->
            Import(biquads, (g - 1) * Len(indices) + i,
                   LAMBDA b :
                    XoverSetCoefficients(d, x, groups[g], indices[i], b),
                   XoverClear(d, x, groups[g]))])
        \o XoverSetBypass(d, x, groups[g], FALSE)])

run_xover(d, x, cmd, group, index) ==
    LET groups == into_range(group, GROUPS)
        indices == into_range(index, NumFilterPerGroup)
    IN
    CASE cmd.do = "set" ->
            Each(groups, LAMBDA g : Each(indices, LAMBDA i :
                XoverSetCoefficients(d, x, g, i, cmd.coeff)))
      [] cmd.do = "bypass" ->
            Each(groups, LAMBDA g : XoverSetBypass(d, x, g, cmd.value))
      [] cmd.do = "clear" -> Each(groups, LAMBDA g : XoverClear(d, x, g))
      [] cmd.do = "import" -> XoverImport(d, x, cmd.biquads, groups, indices)

run_fir(d, fir, cmd) ==
    CASE cmd.do \in {"set", "import"} -> FirSetCoefficients(d, fir, cmd.coeff)
      [] cmd.do = "bypass" -> FirSetBypass(d, fir, cmd.value)
      [] cmd.do = "clear" -> FirClear(d, fir)

(* The filters a PEQTarget names. *)
peqs(d, c, target, Steps(_)) ==
    IF target = None THEN Steps(c.peq)
    ELSE peq(d, c, The(target), LAMBDA at : Steps(<<at>>))

run_input(d, index, cmd) ==
    input(d, index, LAMBDA c :
        CASE cmd.do = "gain" -> set_gain(d, c, cmd.value)
          [] cmd.do = "mute" -> set_mute(d, c, cmd.value)
          [] cmd.do = "routing enable" ->
                set_output_enable(d, c, cmd.output, cmd.value)
          [] cmd.do = "routing gain" ->
                set_output_gain(d, c, cmd.output, cmd.value)
          [] cmd.do = "peq" ->
                peqs(d, c, cmd.index, LAMBDA all : run_peq(d, all, cmd.filter)))

run_output(d, index, cmd) ==
    output(d, index, LAMBDA c :
        CASE cmd.do = "gain" -> set_gain(d, c, cmd.value)
          [] cmd.do = "mute" -> set_mute(d, c, cmd.value)
          [] cmd.do = "delay" -> set_delay(d, c, cmd.value)
          [] cmd.do = "invert" -> set_invert(d, c, cmd.value)
          [] cmd.do = "peq" ->
                peqs(d, c, cmd.index, LAMBDA all : run_peq(d, all, cmd.filter))
          [] cmd.do = "fir" ->
                OrRefuse(c.fir, "NoSuchPeripheral", LAMBDA fir :
                    run_fir(d, fir, cmd.filter))
          [] cmd.do = "crossover" ->
                OrRefuse(c.xover, "NoSuchPeripheral", LAMBDA x :
                    run_xover(d, x, cmd.filter, cmd.group, cmd.index))
          [] cmd.do = "compressor" ->
                OrRefuse(c.compressor, "NoSuchPeripheral", LAMBDA comp :
                    CompressorApply(d, cmd, comp)))

(* StatusSummary::fetch: the master status, then the levels.               *)
fetch == get_master_status
         \o << [op |-> "CollectMeters"], [op |-> "ReadLevels"] >>

(* DeviceInfo::supports_dirac: of other devices, MasterStatus::from_memory *)
(* gives no Dirac status, and to toggle it unwraps what is not there.      *)
supports_dirac(info) == info.dsp_version \in {61, 94, 95, 101, 105}
unwrap_dirac(info) ==
    IF supports_dirac(info) THEN <<>> ELSE Refuse("panic")

(* What is relative or toggled starts from the status read just before.    *)
run_command(d, info, req) ==
    CASE req.cmd = "gain" ->
            (IF req.relative THEN get_master_status ELSE <<>>)
            \o << [op |-> "SetVolume", value |-> req.value,
                   relative |-> req.relative] >>
      [] req.cmd = "mute" ->
            (IF req.value = "toggle" THEN get_master_status ELSE <<>>)
            \o set_master_mute(req.value)
      [] req.cmd = "dirac" ->
            (IF req.value = "toggle"
             THEN get_master_status \o unwrap_dirac(info) ELSE <<>>)
            \o set_dirac(req.value)
      [] req.cmd = "source" -> set_source(info, req.value)
      [] req.cmd = "config" -> set_config(req.value)
      [] req.cmd = "input" -> run_input(d, req.index, req.sub)
      [] req.cmd = "output" -> run_output(d, req.index, req.sub)
      [] req.cmd = "status" -> fetch
      [] req.cmd = "apply" -> Apply(d, info, req.config)
=============================================================================
