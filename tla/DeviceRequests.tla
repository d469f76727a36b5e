--------------------------- MODULE DeviceRequests ---------------------------
(***************************************************************************)
(* Requests that take several commands of one device: the HTTP handlers    *)
(* (daemon/src/http/mod.rs), MasterStatus::apply and Config::apply         *)
(* (minidsp/src/model.rs), set_config and Fir::set_coefficients            *)
(* (minidsp/src/lib.rs).                                                   *)
(*                                                                         *)
(* The service mutex is held for one command at a time (Multiplexer), so a *)
(* command is one atomic step here and requests interleave between their   *)
(* commands.  A request is the sequence of commands it has yet to issue.   *)
(* A definition named Bad... is the faulty twin of the one that follows,   *)
(* used by the mutation checks only.                                       *)
(***************************************************************************)
EXTENDS Integers, Sequences

CONSTANTS
    Clients,        \* sources of requests: HTTP connections, CLI, apps
    Presets,        \* the configurations of the device
    Keep,           \* an absent field of a request
    RequestsOf,     \* the requests each client may make
    MinGain,        \* Gain::MIN in half decibels: -254
    MaxTaps,        \* what FirLoadStart answers
    CHUNK,          \* coefficients in a FirLoadData: 14
    RemoteChanges,  \* what the IR remote changes: volume, mute
    MaxRequests,    \* bound: requests made in all
    MaxFailures,    \* bound: requests that end early
    MaxRemote       \* bound: changes made by the remote

Requests ==
    [do : {"volume"}, by : {-1, 1}]
        \cup [do : {"toggle"}]
        \cup [do : {"config"}, preset : Presets \cup {Keep},
              mute : BOOLEAN \cup {Keep}, writes : Nat]
        \cup [do : {"fir"}, taps : Nat \ {0}]

ASSUME RequestsAssumption ==
    /\ Presets # {} /\ Keep \notin Presets
    /\ \A c \in Clients : RequestsOf[c] \subseteq Requests
    /\ MinGain \in -255 .. -1 /\ MaxTaps \in Nat
    /\ CHUNK \in Nat \ {0}
    /\ RemoteChanges \subseteq {"volume", "mute"}
    /\ MaxRequests \in Nat /\ MaxFailures \in Nat /\ MaxRemote \in Nat

VARIABLES
    todo,       \* the commands a client's request has yet to issue
    seen,       \* the master status the request read
    volume,     \* the device: half decibels below 0, a byte
    mute,
    preset,     \* the configuration in use, and reported
    chosen,     \* the configuration SetConfig asked for
    loading,    \* between FirLoadStart and FirLoadEnd
    stored,     \* for each preset, the presets its settings were meant for
    wanted,     \* the mute status that was last asked for
    requests, failures, remote, \* what the bounds count
    disturbed   \* a load was cut short, or the remote muted during one: history

device == <<volume, mute, preset, chosen, loading, stored, wanted>>
counters == <<requests, failures, remote>>
vars == <<todo, seen, device, counters, disturbed>>

Cmd(op, arg) == [op |-> op, arg |-> arg]
Status == [volume |-> volume, mute |-> mute, preset |-> preset]

-----------------------------------------------------------------------------
(* What each request issues *)

(* get_master_status, the change, and get_master_status for the answer.    *)
UpdateVolume(by) == <<Cmd("get", 0), Cmd("volume", by), Cmd("get", 0)>>
ToggleMute == <<Cmd("get", 0), Cmd("toggle", 0), Cmd("get", 0)>>

SetConfig(p) ==
    IF p = Keep THEN <<>> ELSE <<Cmd("config", p), Cmd("poll", p)>>

(* The master status comes before anything else; p is the preset in which  *)
(* the settings that follow belong.  The source, volume and Dirac fields   *)
(* are left out: nothing here depends on them.                             *)
Apply(p, m, writes) ==
    SetConfig(p)
        \o (IF m = Keep THEN <<>> ELSE <<Cmd("mute", m)>>)
        \o [i \in 1 .. writes |-> Cmd("write", p)]

Chunks(taps) == (taps + CHUNK - 1) \div CHUNK

SetCoefficients(taps) ==
    <<Cmd("get", 0), Cmd("taps", taps), Cmd("start", taps)>>
        \o [i \in 1 .. Chunks(taps) |-> Cmd("data", i)]
        \o <<Cmd("end", 0), Cmd("unmute", 0)>>

Program(r) ==
    CASE r.do = "volume" -> UpdateVolume(r.by)
      [] r.do = "toggle" -> ToggleMute
      [] r.do = "config" -> Apply(r.preset, r.mute, r.writes)
      [] r.do = "fir" -> SetCoefficients(r.taps)

-----------------------------------------------------------------------------
Init ==
    /\ volume \in {0, 1} /\ mute = FALSE /\ preset \in Presets
    /\ chosen = preset /\ loading = FALSE
    /\ stored = [p \in Presets |-> {}]
    /\ wanted = mute
    /\ todo = [c \in Clients |-> <<>>]
    /\ seen = [c \in Clients |-> Status]
    /\ requests = 0 /\ failures = 0 /\ remote = 0 /\ disturbed = FALSE

Request(c, r) ==
    /\ todo[c] = <<>>
    /\ requests < MaxRequests
    /\ requests' = requests + 1
    /\ todo' = [todo EXCEPT ![c] = Program(r)]
    /\ UNCHANGED <<seen, device, failures, remote, disturbed>>

(* Gain to u8: the sign is dropped and the cast saturates.                 *)
BadEncoded(gain) == -gain
Encoded(gain) ==
    LET steps == IF gain < 0 THEN -gain ELSE gain
    IN  IF steps > 255 THEN 255 ELSE steps

Next1(c) == Head(todo[c])
Gain(c) == Next1(c).arg - seen[c].volume

(* The mute status the load found is set back. *)
BadRestored(c) == mute
Restored(c) == seen[c].mute

(* A write lands in the configuration in use. *)
Store(intent) ==
    stored' = [stored EXCEPT ![preset] =
                  IF intent = Keep THEN @ ELSE @ \cup {intent}]

(* What the device does with the next command of a request.                *)
ExecVolume(c) ==
    /\ Next1(c).op = "volume"
    /\ volume' = Encoded(Gain(c))
    /\ UNCHANGED <<mute, preset, chosen, loading, stored, wanted>>
ExecToggle(c) ==
    /\ Next1(c).op = "toggle"
    /\ mute' = ~seen[c].mute /\ wanted' = mute'
    /\ UNCHANGED <<volume, preset, chosen, loading, stored>>
ExecMute(c) ==
    /\ Next1(c).op = "mute"
    /\ mute' = Next1(c).arg /\ wanted' = mute'
    /\ UNCHANGED <<volume, preset, chosen, loading, stored>>
ExecConfig(c) ==
    /\ Next1(c).op = "config"
    /\ chosen' = Next1(c).arg
    /\ UNCHANGED <<volume, mute, preset, loading, stored, wanted>>
ExecWrite(c) ==
    /\ Next1(c).op = "write"
    /\ Store(Next1(c).arg)
    /\ UNCHANGED <<volume, mute, preset, chosen, loading, wanted>>
ExecStart(c) ==
    /\ Next1(c).op = "start"
    /\ mute' = TRUE /\ loading' = TRUE
    /\ UNCHANGED <<volume, preset, chosen, stored, wanted>>
ExecEnd(c) ==
    /\ Next1(c).op = "end"
    /\ loading' = FALSE
    /\ UNCHANGED <<volume, mute, preset, chosen, stored, wanted>>
ExecUnmute(c) ==
    /\ Next1(c).op = "unmute"
    /\ mute' = Restored(c)
    /\ UNCHANGED <<volume, preset, chosen, loading, stored, wanted>>
ExecOther(c) ==
    /\ Next1(c).op \in {"get", "poll", "taps", "data"}
    /\ UNCHANGED device

Exec(c) ==
    \/ ExecVolume(c) \/ ExecToggle(c) \/ ExecMute(c) \/ ExecConfig(c)
    \/ ExecWrite(c) \/ ExecStart(c) \/ ExecEnd(c) \/ ExecUnmute(c)
    \/ ExecOther(c)

(* set_config reads the status again, after a pause, until it shows the    *)
(* configuration asked for.                                                *)
BadReported(c) == seen[c].preset = Next1(c).arg
BadAcknowledged(c) == TRUE
Reported(c) == preset = Next1(c).arg

(* The filter is longer than what FirLoadStart answered.                   *)
TooManyCoefficients(c) == Next1(c).op = "start" /\ Next1(c).arg > MaxTaps

(* The client has read the mute status and is yet to set it back.          *)
Loads(c) ==
    /\ todo[c] # <<>> /\ Next1(c).op # "get"
    /\ \E i \in DOMAIN todo[c] : todo[c][i].op = "unmute"

Step(c) ==
    /\ todo[c] # <<>>
    /\ Next1(c).op = "poll" => Reported(c)
    /\ Exec(c)
    /\ todo' = [todo EXCEPT ![c] =
                   IF TooManyCoefficients(c) THEN <<>> ELSE Tail(@)]
    /\ seen' = [seen EXCEPT ![c] = IF Next1(c).op = "get" THEN Status ELSE @]
    /\ disturbed' = (disturbed \/ TooManyCoefficients(c))
    /\ UNCHANGED counters

(* A command fails or times out, executed or not, and the ? operator ends  *)
(* the request; a connection that closes drops its handler likewise.       *)
Fail(c) ==
    /\ todo[c] # <<>>
    /\ failures < MaxFailures
    /\ failures' = failures + 1
    /\ Exec(c) \/ UNCHANGED device
    /\ todo' = [todo EXCEPT ![c] = <<>>]
    /\ disturbed' = (disturbed \/ Loads(c))
    /\ UNCHANGED <<seen, requests, remote>>

-----------------------------------------------------------------------------
(* The device and its remote *)

(* A Flex answers SetConfig before it applies it.                          *)
ApplyConfig ==
    /\ preset # chosen
    /\ preset' = chosen
    /\ UNCHANGED <<todo, seen, volume, mute, chosen, loading, stored, wanted,
                   counters, disturbed>>

Remote(what) ==
    /\ remote < MaxRemote
    /\ remote' = remote + 1
    /\ IF what = "mute"
       THEN /\ mute' = ~mute /\ wanted' = mute' /\ UNCHANGED volume
            /\ disturbed' = (disturbed \/ \E c \in Clients : Loads(c))
       ELSE /\ volume' \in {volume - 1, volume + 1} \cap 0 .. -MinGain
            /\ UNCHANGED <<mute, wanted, disturbed>>
    /\ UNCHANGED <<todo, seen, preset, chosen, loading, stored, requests,
                   failures>>

Next ==
    \/ \E c \in Clients : \E r \in RequestsOf[c] : Request(c, r)
    \/ \E c \in Clients : Step(c) \/ Fail(c)
    \/ ApplyConfig
    \/ \E what \in RemoteChanges : Remote(what)

Spec == Init /\ [][Next]_vars

(* The runtime polls every handler, every command is answered or times out *)
(* (Multiplexer), and the device applies a configuration it accepted.      *)
Fairness == WF_vars(ApplyConfig) /\ \A c \in Clients : WF_vars(Step(c))

LiveSpec == Spec /\ Fairness

-----------------------------------------------------------------------------
(* Properties *)

TypeOK ==
    /\ DOMAIN todo = Clients /\ DOMAIN seen = Clients
    /\ volume \in 0 .. 255
    /\ mute \in BOOLEAN /\ wanted \in BOOLEAN /\ loading \in BOOLEAN
    /\ preset \in Presets /\ chosen \in Presets /\ disturbed \in BOOLEAN
    /\ stored \in [Presets -> SUBSET Presets]
    /\ \A c \in Clients : seen[c].volume \in 0 .. 255

(* Loading a filter "re-enables audio after setting the filter's           *)
(* coefficients" (model.rs): when no request is in progress, the device is *)
(* muted only if somebody asked for that, and no load is open, whatever    *)
(* failed, whatever else was requested and however the remote was used;    *)
(* unless a load was cut short, by a failure or as too long, or the remote *)
(* changed the mute status while one was in progress (disturbed).          *)
AudioRestored ==
    ~disturbed /\ (\A c \in Clients : todo[c] = <<>>)
        => mute = wanted /\ ~loading

(* "It is therefore safe to change config and apply other changes to the   *)
(* target config using a single call" (http/mod.rs): the settings of such  *)
(* a request never land in another configuration.                          *)
SettingsInTheirPreset == \A p \in Presets : stored[p] \subseteq {p}

(* Every request ends: set_config's polling has no other bound than the    *)
(* device reporting the configuration.                                     *)
RequestsEnd == \A c \in Clients : todo[c] # <<>> ~> todo[c] = <<>>
=============================================================================
