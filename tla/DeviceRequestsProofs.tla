------------------------ MODULE DeviceRequestsProofs ------------------------
(***************************************************************************)
(* Theorems about DeviceRequests, for any clients, presets and requests.   *)
(***************************************************************************)
EXTENDS DeviceRequests, SequenceTheorems, TLAPS

Commands ==
    [op : {"get", "toggle", "taps", "start", "data", "end", "unmute"},
     arg : Nat]
        \cup [op : {"volume"}, arg : Int]
        \cup [op : {"config", "poll"}, arg : Presets]
        \cup [op : {"mute"}, arg : BOOLEAN]
        \cup [op : {"write"}, arg : Presets \cup {Keep}]

Statuses == [volume : 0 .. 255, mute : BOOLEAN, preset : Presets]

(* What TypeOK leaves open: what is still to be issued, and what was read. *)
Typed ==
    /\ TypeOK
    /\ todo \in [Clients -> Seq(Commands)]
    /\ seen \in [Clients -> Statuses]

LEMMA ApplyType ==
    ASSUME NEW p \in Presets \cup {Keep}, NEW m \in BOOLEAN \cup {Keep},
           NEW writes \in Nat
    PROVE  Apply(p, m, writes) \in Seq(Commands)
<1>1. SetConfig(p) \in Seq(Commands)
  <2>1. CASE p = Keep
    BY <2>1 DEF SetConfig
  <2>2. CASE p # Keep
    <3>1. Cmd("config", p) \in Commands /\ Cmd("poll", p) \in Commands
      BY <2>2 DEF Commands, Cmd
    <3> QED BY <2>2, <3>1 DEF SetConfig
  <2> QED BY <2>1, <2>2
<1>2. (IF m = Keep THEN <<>> ELSE <<Cmd("mute", m)>>) \in Seq(Commands)
  <2>1. CASE m = Keep
    BY <2>1
  <2>2. CASE m # Keep
    <3>1. Cmd("mute", m) \in Commands
      BY <2>2 DEF Commands, Cmd
    <3> QED BY <2>2, <3>1
  <2> QED BY <2>1, <2>2
<1>3. [i \in 1 .. writes |-> Cmd("write", p)] \in Seq(Commands)
  <2>1. Cmd("write", p) \in Commands
    BY DEF Commands, Cmd
  <2> QED BY <2>1
<1> QED BY <1>1, <1>2, <1>3 DEF Apply

LEMMA ProgramType == ASSUME NEW r \in Requests PROVE Program(r) \in Seq(Commands)
<1>1. CASE r \in [do : {"volume"}, by : {-1, 1}]
  <2>1. Program(r) = <<Cmd("get", 0), Cmd("volume", r.by), Cmd("get", 0)>>
    BY <1>1 DEF Program, UpdateVolume
  <2>2. Cmd("get", 0) \in Commands /\ Cmd("volume", r.by) \in Commands
    BY <1>1 DEF Commands, Cmd
  <2> QED BY <2>1, <2>2
<1>2. CASE r \in [do : {"toggle"}]
  <2>1. Program(r) = <<Cmd("get", 0), Cmd("toggle", 0), Cmd("get", 0)>>
    BY <1>2 DEF Program, ToggleMute
  <2>2. Cmd("get", 0) \in Commands /\ Cmd("toggle", 0) \in Commands
    BY DEF Commands, Cmd
  <2> QED BY <2>1, <2>2
<1>3. CASE r \in [do : {"config"}, preset : Presets \cup {Keep},
                  mute : BOOLEAN \cup {Keep}, writes : Nat]
  <2>1. Program(r) = Apply(r.preset, r.mute, r.writes)
    BY <1>3 DEF Program
  <2> QED BY <1>3, <2>1, ApplyType
<1>4. CASE r \in [do : {"fir"}, taps : Nat \ {0}]
  <2>1. Program(r) = SetCoefficients(r.taps)
    BY <1>4 DEF Program
  <2>2. r.taps \in Nat
    BY <1>4
  <2>3. Chunks(r.taps) \in Nat
    BY <2>2, RequestsAssumption DEF Chunks
  <2>4. [i \in 1 .. Chunks(r.taps) |-> Cmd("data", i)] \in Seq(Commands)
    <3>1. \A i \in 1 .. Chunks(r.taps) : Cmd("data", i) \in Commands
      BY <2>3 DEF Commands, Cmd
    <3> QED BY <2>3, <3>1
  <2>5. /\ Cmd("get", 0) \in Commands /\ Cmd("taps", r.taps) \in Commands
        /\ Cmd("start", r.taps) \in Commands /\ Cmd("end", 0) \in Commands
        /\ Cmd("unmute", 0) \in Commands
    BY <2>2 DEF Commands, Cmd
  <2>6. /\ <<Cmd("get", 0), Cmd("taps", r.taps), Cmd("start", r.taps)>>
             \in Seq(Commands)
        /\ <<Cmd("end", 0), Cmd("unmute", 0)>> \in Seq(Commands)
    BY <2>5
  <2> QED BY <2>1, <2>4, <2>6 DEF SetCoefficients
<1> QED BY <1>1, <1>2, <1>3, <1>4 DEF Requests

(* A gain becomes a byte whatever its sign and size. *)
LEMMA EncodedType == ASSUME NEW gain \in Int PROVE Encoded(gain) \in 0 .. 255
<1> DEFINE steps == IF gain < 0 THEN -gain ELSE gain
<1>1. steps \in Nat
  OBVIOUS
<1>2. (IF steps > 255 THEN 255 ELSE steps) \in 0 .. 255
  BY <1>1
<1> QED BY <1>2 DEF Encoded

(* What the device does with a command keeps its state in its types.       *)
LEMMA ExecType ==
    ASSUME Typed, NEW c \in Clients, todo[c] # <<>>, Exec(c)
    PROVE  /\ volume' \in 0 .. 255
           /\ mute' \in BOOLEAN /\ wanted' \in BOOLEAN /\ loading' \in BOOLEAN
           /\ preset' \in Presets /\ chosen' \in Presets
           /\ stored' \in [Presets -> SUBSET Presets]
<1>1. Next1(c) \in Commands
  BY DEF Typed, Next1
<1>2. seen[c] \in Statuses
  BY DEF Typed
<1>3. CASE ExecVolume(c)
  <2>1. Next1(c).arg \in Int
    BY <1>1, <1>3 DEF ExecVolume, Commands
  <2>2. seen[c].volume \in 0 .. 255
    BY <1>2 DEF Statuses
  <2>3. Gain(c) \in Int
    <3>1. \A a \in Int, b \in 0 .. 255 : a - b \in Int
      OBVIOUS
    <3> QED BY <2>1, <2>2, <3>1 DEF Gain
  <2>4. Encoded(Gain(c)) \in 0 .. 255
    BY <2>3, EncodedType
  <2> QED BY <1>3, <2>4 DEF Typed, TypeOK, ExecVolume
<1>4. CASE ExecToggle(c)
  BY <1>4 DEF Typed, TypeOK, ExecToggle
<1>5. CASE ExecMute(c)
  <2>1. Next1(c).arg \in BOOLEAN
    BY <1>1, <1>5 DEF ExecMute, Commands
  <2> QED BY <1>5, <2>1 DEF Typed, TypeOK, ExecMute
<1>6. CASE ExecConfig(c)
  <2>1. Next1(c).arg \in Presets
    BY <1>1, <1>6 DEF ExecConfig, Commands
  <2> QED BY <1>6, <2>1 DEF Typed, TypeOK, ExecConfig
<1>7. CASE ExecWrite(c)
  <2>1. Next1(c).arg \in Presets \cup {Keep}
    BY <1>1, <1>7 DEF ExecWrite, Commands
  <2>2. stored' \in [Presets -> SUBSET Presets]
    BY <1>7, <2>1 DEF Typed, TypeOK, ExecWrite, Store
  <2> QED BY <1>7, <2>2 DEF Typed, TypeOK, ExecWrite
<1>8. CASE ExecStart(c) \/ ExecEnd(c)
  BY <1>8, ZenonT(60) DEF Typed, TypeOK, ExecStart, ExecEnd
<1>9. CASE ExecUnmute(c)
  <2>1. Restored(c) \in BOOLEAN
    BY <1>2 DEF Statuses, Restored
  <2> QED BY <1>9, <2>1 DEF Typed, TypeOK, ExecUnmute
<1>10. CASE ExecOther(c)
  BY <1>10 DEF Typed, TypeOK, ExecOther, device
<1> QED BY <1>3, <1>4, <1>5, <1>6, <1>7, <1>8, <1>9, <1>10 DEF Exec

LEMMA TypedInit == Init => Typed
<1> SUFFICES ASSUME Init PROVE Typed
  OBVIOUS
<1>0. volume \in 0 .. 255 /\ mute = FALSE /\ preset \in Presets
  BY DEF Init
<1>1. Status \in Statuses
  BY <1>0 DEF Status, Statuses
<1>2. seen \in [Clients -> Statuses]
  BY <1>1 DEF Init
<1>3. todo \in [Clients -> Seq(Commands)]
  BY DEF Init
<1>4. \A c \in Clients : seen[c].volume \in 0 .. 255
  BY <1>2 DEF Statuses
<1>5. /\ mute \in BOOLEAN /\ wanted \in BOOLEAN /\ loading \in BOOLEAN
      /\ chosen \in Presets /\ stored \in [Presets -> SUBSET Presets]
      /\ disturbed \in BOOLEAN
  BY DEF Init
<1> QED BY <1>0, <1>2, <1>3, <1>4, <1>5 DEF Typed, TypeOK

LEMMA TypedStep == Typed /\ [Next]_vars => Typed'
<1> SUFFICES ASSUME Typed, [Next]_vars PROVE Typed'
  OBVIOUS
(* Most steps replace one client's commands and leave the rest.            *)
<1>1. ASSUME todo' \in [Clients -> Seq(Commands)],
             seen' \in [Clients -> Statuses],
             volume' \in 0 .. 255, mute' \in BOOLEAN, wanted' \in BOOLEAN,
             loading' \in BOOLEAN, preset' \in Presets, chosen' \in Presets,
             stored' \in [Presets -> SUBSET Presets]
      PROVE  Typed'
  <2>1. \A c \in Clients : seen'[c].volume \in 0 .. 255
    BY <1>1 DEF Statuses
  <2>2. disturbed' \in BOOLEAN
    BY DEF Typed, TypeOK, Next, Request, Step, Fail, ApplyConfig, Remote, vars
  <2> QED BY <1>1, <2>1, <2>2 DEF Typed, TypeOK
<1>2. UNCHANGED device =>
        /\ volume' \in 0 .. 255 /\ mute' \in BOOLEAN /\ wanted' \in BOOLEAN
        /\ loading' \in BOOLEAN /\ preset' \in Presets /\ chosen' \in Presets
        /\ stored' \in [Presets -> SUBSET Presets]
  BY DEF Typed, TypeOK, device
<1>3. todo \in [Clients -> Seq(Commands)] /\ seen \in [Clients -> Statuses]
  BY DEF Typed
<1>4. ASSUME NEW c \in Clients, NEW r \in RequestsOf[c], Request(c, r)
      PROVE  Typed'
  <2>1. Program(r) \in Seq(Commands)
    BY ProgramType, RequestsAssumption
  <2>2. todo' \in [Clients -> Seq(Commands)]
    BY <1>3, <1>4, <2>1 DEF Request
  <2> QED BY <1>1, <1>2, <1>3, <1>4, <2>2 DEF Request
<1>5. ASSUME NEW c \in Clients, Step(c) PROVE Typed'
  <2>1. todo[c] # <<>> /\ todo[c] \in Seq(Commands) /\ Exec(c)
    BY <1>3, <1>5 DEF Step
  <2>2. Tail(todo[c]) \in Seq(Commands)
    BY <2>1
  <2>3. todo' \in [Clients -> Seq(Commands)]
    BY <1>3, <1>5, <2>2 DEF Step
  <2>4. Status \in Statuses
    BY DEF Typed, TypeOK, Status, Statuses
  <2>5. seen' \in [Clients -> Statuses]
    BY <1>3, <1>5, <2>4 DEF Step
  <2> QED BY <1>1, <2>1, <2>3, <2>5, ExecType
<1>6. ASSUME NEW c \in Clients, Fail(c) PROVE Typed'
  <2>1. todo[c] # <<>>
    BY <1>6 DEF Fail
  <2>2. todo' \in [Clients -> Seq(Commands)]
    BY <1>3, <1>6 DEF Fail
  <2>3. seen' \in [Clients -> Statuses]
    BY <1>3, <1>6 DEF Fail
  <2>4. CASE Exec(c)
    BY <1>1, <2>1, <2>2, <2>3, <2>4, ExecType
  <2>5. CASE UNCHANGED device
    BY <1>1, <1>2, <2>2, <2>3, <2>5
  <2> QED BY <1>6, <2>4, <2>5 DEF Fail
<1>7. CASE ApplyConfig
  BY <1>1, <1>3, <1>7 DEF ApplyConfig, Typed, TypeOK
<1>8. ASSUME NEW what \in RemoteChanges, Remote(what) PROVE Typed'
  <2>1. volume' \in 0 .. 255
    <3>1. volume \in 0 .. 255 /\ 0 .. -MinGain \subseteq 0 .. 255
      BY RequestsAssumption DEF Typed, TypeOK
    <3> QED BY <1>8, <3>1 DEF Remote
  <2>2. mute' \in BOOLEAN /\ wanted' \in BOOLEAN
    BY <1>8 DEF Remote, Typed, TypeOK
  <2> QED BY <1>1, <1>3, <1>8, <2>1, <2>2 DEF Remote, Typed, TypeOK
<1>9. CASE UNCHANGED vars
  BY <1>1, <1>2, <1>3, <1>9 DEF vars
<1> QED BY <1>4, <1>5, <1>6, <1>7, <1>8, <1>9 DEF Next

(* The volume stays a byte and every status read is a device's, whatever   *)
(* the requests, their failures and the remote do in between.              *)
THEOREM TypeCorrect == Spec => []TypeOK
<1>1. Typed => TypeOK
  BY DEF Typed
<1> QED BY <1>1, TypedInit, TypedStep, PTL DEF Spec

-----------------------------------------------------------------------------
(* Settings land in the preset they name *)

(* Commands that neither switch nor belong to a preset. *)
Neutral ==
    {cmd \in Commands : /\ cmd.op \notin {"config", "poll"}
                        /\ cmd.op = "write" => cmd.arg = Keep}

(* What may follow a switch to p in one request. *)
SettingsFor(p) == {cmd \in Commands : /\ cmd.op \notin {"config", "poll"}
                                      /\ cmd.op = "write" => cmd.arg = p}

(* A request's remaining commands name one preset p; before it polls, p    *)
(* has been chosen, and before it writes, p is in use and nothing else     *)
(* chosen: or the command that sees to it is still ahead.                  *)
Ordered(s, p, used, asked) ==
    \A i \in 1 .. Len(s) :
        /\ s[i].op \in {"config", "poll", "write"} => s[i].arg = p
        /\ s[i].op = "poll" =>
               asked = p \/ \E k \in 1 .. i - 1 : s[k].op = "config"
        /\ s[i].op = "write" /\ p # Keep =>
               \/ used = p /\ asked = p
               \/ \E k \in 1 .. i - 1 : s[k].op = "poll"

(* Apply of a request without a preset, and every other request.           *)
LEMMA NeutralProgram ==
    ASSUME NEW r \in Requests, r.do = "config" => r.preset = Keep
    PROVE  Program(r) \in Seq(Neutral)
<1>1. CASE r \in [do : {"volume"}, by : {-1, 1}]
  <2>1. Program(r) = <<Cmd("get", 0), Cmd("volume", r.by), Cmd("get", 0)>>
    BY <1>1 DEF Program, UpdateVolume
  <2>2. Cmd("get", 0) \in Neutral /\ Cmd("volume", r.by) \in Neutral
    BY <1>1 DEF Neutral, Commands, Cmd
  <2> QED BY <2>1, <2>2
<1>2. CASE r \in [do : {"toggle"}]
  <2>1. Program(r) = <<Cmd("get", 0), Cmd("toggle", 0), Cmd("get", 0)>>
    BY <1>2 DEF Program, ToggleMute
  <2>2. Cmd("get", 0) \in Neutral /\ Cmd("toggle", 0) \in Neutral
    BY DEF Neutral, Commands, Cmd
  <2> QED BY <2>1, <2>2
<1>3. CASE r \in [do : {"config"}, preset : Presets \cup {Keep},
                  mute : BOOLEAN \cup {Keep}, writes : Nat]
  <2>1. Program(r) = Apply(Keep, r.mute, r.writes)
    BY <1>3 DEF Program
  <2>2. (IF r.mute = Keep THEN <<>> ELSE <<Cmd("mute", r.mute)>>)
            \in Seq(Neutral)
    <3>1. CASE r.mute = Keep
      BY <3>1
    <3>2. CASE r.mute # Keep
      <4>1. Cmd("mute", r.mute) \in Neutral
        BY <1>3, <3>2 DEF Neutral, Commands, Cmd
      <4> QED BY <3>2, <4>1
    <3> QED BY <3>1, <3>2
  <2>3. [i \in 1 .. r.writes |-> Cmd("write", Keep)] \in Seq(Neutral)
    <3>1. Cmd("write", Keep) \in Neutral
      BY DEF Neutral, Commands, Cmd
    <3>2. r.writes \in Nat
      BY <1>3
    <3> QED BY <3>1, <3>2
  <2>4. SetConfig(Keep) \in Seq(Neutral)
    BY DEF SetConfig
  <2> DEFINE b == IF r.mute = Keep THEN <<>> ELSE <<Cmd("mute", r.mute)>>
             c == [i \in 1 .. r.writes |-> Cmd("write", Keep)]
  <2>5. Apply(Keep, r.mute, r.writes) = SetConfig(Keep) \o b \o c
    BY DEF Apply
  <2>6. b \in Seq(Neutral) /\ c \in Seq(Neutral)
    BY <2>2, <2>3
  <2> HIDE DEF b, c
  <2> QED BY <2>1, <2>4, <2>5, <2>6
<1>4. CASE r \in [do : {"fir"}, taps : Nat \ {0}]
  <2>1. Program(r) = SetCoefficients(r.taps)
    BY <1>4 DEF Program
  <2>2. r.taps \in Nat
    BY <1>4
  <2>3. Chunks(r.taps) \in Nat
    BY <2>2, RequestsAssumption DEF Chunks
  <2>4. [i \in 1 .. Chunks(r.taps) |-> Cmd("data", i)] \in Seq(Neutral)
    <3>1. \A i \in 1 .. Chunks(r.taps) : Cmd("data", i) \in Neutral
      BY <2>3 DEF Neutral, Commands, Cmd
    <3> QED BY <2>3, <3>1
  <2>5. /\ Cmd("get", 0) \in Neutral /\ Cmd("taps", r.taps) \in Neutral
        /\ Cmd("start", r.taps) \in Neutral /\ Cmd("end", 0) \in Neutral
        /\ Cmd("unmute", 0) \in Neutral
    BY <2>2 DEF Neutral, Commands, Cmd
  <2>6. /\ <<Cmd("get", 0), Cmd("taps", r.taps), Cmd("start", r.taps)>>
             \in Seq(Neutral)
        /\ <<Cmd("end", 0), Cmd("unmute", 0)>> \in Seq(Neutral)
    BY <2>5
  <2> QED BY <2>1, <2>4, <2>6 DEF SetCoefficients
<1> QED BY <1>1, <1>2, <1>3, <1>4 DEF Requests

(* A switch first, the poll for it next, the settings behind both.         *)
LEMMA SwitchProgram ==
    ASSUME NEW p \in Presets, NEW m \in BOOLEAN \cup {Keep},
           NEW writes \in Nat, NEW used, NEW asked
    PROVE  Ordered(Apply(p, m, writes), p, used, asked)
<1> DEFINE a == <<Cmd("config", p), Cmd("poll", p)>>
           b == IF m = Keep THEN <<>> ELSE <<Cmd("mute", m)>>
           c == [i \in 1 .. writes |-> Cmd("write", p)]
<1>1. p # Keep
  BY RequestsAssumption
<1>2. Apply(p, m, writes) = a \o b \o c
  BY <1>1 DEF Apply, SetConfig
<1>3. b \in Seq(SettingsFor(p))
  <2>1. CASE m = Keep
    BY <2>1
  <2>2. CASE m # Keep
    <3>1. Cmd("mute", m) \in SettingsFor(p)
      BY <2>2 DEF SettingsFor, Commands, Cmd
    <3> QED BY <2>2, <3>1
  <2> QED BY <2>1, <2>2
<1>4. c \in Seq(SettingsFor(p))
  <2>1. Cmd("write", p) \in SettingsFor(p)
    BY DEF SettingsFor, Commands, Cmd
  <2> QED BY <2>1
<1>5. a \in Seq(Commands) /\ Len(a) = 2
  <2>1. Cmd("config", p) \in Commands /\ Cmd("poll", p) \in Commands
    BY DEF Commands, Cmd
  <2> QED BY <2>1
<1>6. SettingsFor(p) \subseteq Commands
  BY DEF SettingsFor
<1> DEFINE rest == b \o c
<1>7. rest \in Seq(SettingsFor(p))
  BY <1>3, <1>4
<1>8. /\ a \o b \o c = a \o rest
      /\ Len(a \o rest) = 2 + Len(rest)
  BY <1>3, <1>4, <1>5, <1>6
<1>9. /\ (a \o rest)[1] = Cmd("config", p)
      /\ (a \o rest)[2] = Cmd("poll", p)
      /\ \A i \in 3 .. 2 + Len(rest) : (a \o rest)[i] \in SettingsFor(p)
  BY <1>5, <1>6, <1>7
<1> DEFINE s == a \o rest
<1>10. \A i \in 3 .. Len(s) : s[i] \in SettingsFor(p)
  BY <1>8, <1>9
<1>11. Len(s) \in Nat
  BY <1>7, <1>8
<1>12. Ordered(s, p, used, asked)
  <2> SUFFICES ASSUME NEW i \in 1 .. Len(s)
               PROVE  /\ s[i].op \in {"config", "poll", "write"} => s[i].arg = p
                      /\ s[i].op = "poll" =>
                           asked = p \/ \E k \in 1 .. i - 1 : s[k].op = "config"
                      /\ s[i].op = "write" /\ p # Keep =>
                           \/ used = p /\ asked = p
                           \/ \E k \in 1 .. i - 1 : s[k].op = "poll"
    BY DEF Ordered
  <2>1. s[1].op = "config" /\ s[1].arg = p /\ s[2].op = "poll" /\ s[2].arg = p
    BY <1>9 DEF Cmd
  <2> HIDE DEF s
  <2>2. CASE i = 1
    BY <2>1, <2>2
  <2>3. CASE i = 2
    BY <2>1, <2>3
  <2>4. CASE i > 2
    <3>1. s[i].op \notin {"config", "poll"} /\ (s[i].op = "write" => s[i].arg = p)
      BY <1>10, <1>11, <2>4 DEF SettingsFor
    <3>2. 2 \in 1 .. i - 1
      BY <1>11, <2>4
    <3> QED BY <2>1, <3>1, <3>2
  <2> QED BY <1>11, <2>2, <2>3, <2>4
<1> QED BY <1>2, <1>8, <1>12

(* Every request of the one that switches, and none of the others'.        *)
LEMMA OrderedProgram ==
    ASSUME NEW r \in Requests, NEW used, NEW asked
    PROVE  \E p \in Presets \cup {Keep} : Ordered(Program(r), p, used, asked)
<1>1. CASE r.do = "config" /\ r.preset # Keep
  <2>1. /\ r.preset \in Presets /\ r.mute \in BOOLEAN \cup {Keep}
        /\ r.writes \in Nat
    BY <1>1 DEF Requests
  <2>2. Program(r) = Apply(r.preset, r.mute, r.writes)
    BY <1>1 DEF Program
  <2>3. Ordered(Program(r), r.preset, used, asked)
    BY <2>1, <2>2, SwitchProgram
  <2> QED BY <2>1, <2>3
<1>2. CASE ~(r.do = "config" /\ r.preset # Keep)
  <2>1. Program(r) \in Seq(Neutral)
    BY <1>2, NeutralProgram
  <2>2. \A i \in 1 .. Len(Program(r)) : Program(r)[i] \in Neutral
    BY <2>1
  <2>3. Ordered(Program(r), Keep, used, asked)
    BY <2>2 DEF Ordered, Neutral
  <2> QED BY <2>3
<1> QED BY <1>1, <1>2

(* A command less: what it did is what the rest relies on.                 *)
LEMMA OrderedTail ==
    ASSUME NEW s \in Seq(Commands), s # <<>>, NEW p, NEW used, NEW asked,
           NEW asked2,
           Ordered(s, p, used, asked),
           Head(s).op = "poll" => used = Head(s).arg,
           asked2 = IF Head(s).op = "config" THEN Head(s).arg ELSE asked
    PROVE  Ordered(Tail(s), p, used, asked2)
<1>1. /\ Len(s) \in Nat /\ Len(s) >= 1 /\ Head(s) = s[1]
      /\ Len(Tail(s)) = Len(s) - 1
      /\ \A i \in 1 .. Len(s) - 1 : Tail(s)[i] = s[i + 1]
  OBVIOUS
<1> DEFINE t == Tail(s)
<1> HIDE DEF t
<1> SUFFICES ASSUME NEW i \in 1 .. Len(t)
             PROVE  /\ t[i].op \in {"config", "poll", "write"} => t[i].arg = p
                    /\ t[i].op = "poll" =>
                         asked2 = p \/ \E k \in 1 .. i - 1 : t[k].op = "config"
                    /\ t[i].op = "write" /\ p # Keep =>
                         \/ used = p /\ asked2 = p
                         \/ \E k \in 1 .. i - 1 : t[k].op = "poll"
  BY DEF Ordered, t
<1>2. /\ Len(t) = Len(s) - 1 /\ t[i] = s[i + 1] /\ i + 1 \in 1 .. Len(s)
      /\ \A k \in 1 .. i - 1 : t[k] = s[k + 1]
  BY <1>1 DEF t
<1>3. s[1].op \in {"config", "poll", "write"} => s[1].arg = p
  BY <1>1 DEF Ordered
<1>4. ASSUME NEW op, \E k \in 1 .. i : s[k].op = op
      PROVE  s[1].op = op \/ \E k \in 1 .. i - 1 : t[k].op = op
  <2>1. PICK k \in 1 .. i : s[k].op = op
    BY <1>4
  <2>2. CASE k = 1
    BY <2>1, <2>2
  <2>3. CASE k # 1
    <3>1. k - 1 \in 1 .. i - 1 /\ t[k - 1] = s[k]
      BY <1>1, <1>2, <2>3
    <3> QED BY <2>1, <3>1
  <2> QED BY <2>2, <2>3
<1>5. t[i].op \in {"config", "poll", "write"} => t[i].arg = p
  BY <1>2 DEF Ordered
<1>6. ASSUME t[i].op = "poll"
      PROVE  asked2 = p \/ \E k \in 1 .. i - 1 : t[k].op = "config"
  <2>1. asked = p \/ \E k \in 1 .. i : s[k].op = "config"
    BY <1>1, <1>2, <1>6 DEF Ordered
  <2> QED BY <1>1, <1>3, <1>4, <2>1
<1>7. ASSUME t[i].op = "write", p # Keep
      PROVE  \/ used = p /\ asked2 = p
             \/ \E k \in 1 .. i - 1 : t[k].op = "poll"
  <2>1. (used = p /\ asked = p) \/ \E k \in 1 .. i : s[k].op = "poll"
    BY <1>1, <1>2, <1>7 DEF Ordered
  <2>2. CASE used = p /\ asked = p
    BY <1>1, <1>3, <2>2
  <2>3. CASE s[1].op = "poll"
    <3>1. used = p /\ asked2 = asked
      BY <1>1, <1>3, <2>3
    <3>2. asked = p
      <4>1. 1 \in 1 .. Len(s) /\ 1 .. 1 - 1 = {}
        BY <1>1
      <4> QED BY <2>3, <4>1 DEF Ordered
    <3> QED BY <3>1, <3>2
  <2> QED BY <1>4, <2>1, <2>2, <2>3
<1> QED BY <1>5, <1>6, <1>7

(* What makes SettingsInTheirPreset inductive, s being the one client that *)
(* switches: its commands are ordered, the others' are neutral.            *)
Isolated(s) ==
    /\ \E p \in Presets \cup {Keep} : Ordered(todo[s], p, preset, chosen)
    /\ \A c \in Clients \ {s} : todo[c] \in Seq(Neutral)
    /\ SettingsInTheirPreset

(* The device side of a command under Isolated. *)
LEMMA IsolatedExec ==
    ASSUME NEW s \in Clients, Typed, Isolated(s), NEW c \in Clients,
           todo[c] # <<>>, Exec(c)
    PROVE  /\ SettingsInTheirPreset'
           /\ preset' = preset
           /\ chosen' = IF Next1(c).op = "config" THEN Next1(c).arg ELSE chosen
           /\ c # s => Next1(c).op \notin {"config", "poll"}
<1>1. todo[c] \in Seq(Commands)
  BY DEF Typed
<1>2. Len(todo[c]) >= 1 /\ Next1(c) = todo[c][1]
  BY <1>1 DEF Next1
<1>3. c # s => Next1(c) \in Neutral
  <2>1. c # s => todo[c] \in Seq(Neutral)
    BY DEF Isolated
  <2> QED BY <1>2, <2>1
<1>4. Next1(c).op = "write" =>
          Next1(c).arg = Keep \/ Next1(c).arg = preset
  <2>1. CASE c = s
    <3>1. PICK p \in Presets \cup {Keep} : Ordered(todo[s], p, preset, chosen)
      BY DEF Isolated
    <3>2. 1 \in 1 .. Len(todo[s]) /\ 1 .. 1 - 1 = {}
      BY <1>1, <1>2, <2>1
    <3> QED BY <1>2, <2>1, <3>1, <3>2 DEF Ordered
  <2> QED BY <1>3, <2>1 DEF Neutral
<1>5. SettingsInTheirPreset'
  <2>1. CASE ExecWrite(c)
    <3>1. stored' = [stored EXCEPT ![preset] =
                        IF Next1(c).arg = Keep THEN @ ELSE @ \cup {Next1(c).arg}]
      BY <2>1 DEF ExecWrite, Store
    <3>2. stored \in [Presets -> SUBSET Presets] /\ preset \in Presets
      BY DEF Typed, TypeOK
    <3>3. Next1(c).arg = Keep \/ Next1(c).arg = preset
      BY <1>4, <2>1 DEF ExecWrite
    <3> QED BY <3>1, <3>2, <3>3 DEF Isolated, SettingsInTheirPreset
  <2>2. CASE UNCHANGED stored
    BY <2>2 DEF Isolated, SettingsInTheirPreset
  <2> QED
    BY <2>1, <2>2 DEF Exec, ExecVolume, ExecToggle, ExecMute, ExecConfig,
                      ExecStart, ExecEnd, ExecUnmute, ExecOther, device
<1>6. /\ preset' = preset
      /\ chosen' = IF Next1(c).op = "config" THEN Next1(c).arg ELSE chosen
  BY DEF Exec, ExecVolume, ExecToggle, ExecMute, ExecConfig, ExecWrite,
         ExecStart, ExecEnd, ExecUnmute, ExecOther, device
<1> QED BY <1>3, <1>5, <1>6 DEF Neutral

(* "It is therefore safe to change config and apply other changes to the   *)
(* target config using a single call" (http/mod.rs), proved where only one *)
(* client switches: set_config chooses the preset and polls until it is in *)
(* use, and no one else chooses another before the settings are written.   *)
(* Neither failed commands nor the device's delay in switching matter.     *)
THEOREM SettingsTheorem ==
    ASSUME NEW s \in Clients,
           \A c \in Clients \ {s} : \A r \in RequestsOf[c] :
               r.do = "config" => r.preset = Keep
    PROVE  Spec => []SettingsInTheirPreset
<1>1. Init => Isolated(s)
  <2> SUFFICES ASSUME Init PROVE Isolated(s)
    OBVIOUS
  <2>1. \A c \in Clients : todo[c] = <<>>
    BY DEF Init
  <2>2. Ordered(todo[s], Keep, preset, chosen)
    BY <2>1 DEF Ordered
  <2> QED BY <2>1, <2>2 DEF Init, Isolated, SettingsInTheirPreset
<1>2. ASSUME Typed, Isolated(s), [Next]_vars PROVE Isolated(s)'
  <2> USE <1>2
  <2>1. todo \in [Clients -> Seq(Commands)]
    BY DEF Typed
  <2>2. PICK p \in Presets \cup {Keep} : Ordered(todo[s], p, preset, chosen)
    BY DEF Isolated
  <2>3. ASSUME NEW c \in Clients, NEW r \in RequestsOf[c], Request(c, r)
        PROVE  Isolated(s)'
    <3>1. r \in Requests
      BY RequestsAssumption
    <3>2. /\ todo' = [todo EXCEPT ![c] = Program(r)]
          /\ UNCHANGED <<preset, chosen, stored>>
      BY <2>3 DEF Request, device
    <3>3. \E q \in Presets \cup {Keep} : Ordered(todo'[s], q, preset', chosen')
      <4>1. CASE c = s
        BY <2>1, <3>1, <3>2, <4>1, OrderedProgram
      <4>2. CASE c # s
        BY <2>1, <2>2, <3>2, <4>2
      <4> QED BY <4>1, <4>2
    <3>4. \A d \in Clients \ {s} : todo'[d] \in Seq(Neutral)
      <4>1. c # s => Program(r) \in Seq(Neutral)
        BY <3>1, NeutralProgram
      <4> QED BY <2>1, <3>2, <4>1 DEF Isolated
    <3> QED BY <3>2, <3>3, <3>4 DEF Isolated, SettingsInTheirPreset
  <2>4. ASSUME NEW c \in Clients, Step(c) PROVE Isolated(s)'
    <3>1. todo[c] # <<>> /\ Exec(c) /\ todo[c] \in Seq(Commands)
      BY <2>1, <2>4 DEF Step
    <3>2. \/ todo' = [todo EXCEPT ![c] = <<>>]
          \/ todo' = [todo EXCEPT ![c] = Tail(todo[c])]
      BY <2>4 DEF Step
    <3>3. Next1(c).op = "poll" => preset = Next1(c).arg
      BY <2>4 DEF Step, Reported
    <3>4. /\ SettingsInTheirPreset' /\ preset' = preset
          /\ chosen' = IF Next1(c).op = "config" THEN Next1(c).arg ELSE chosen
          /\ c # s => Next1(c).op \notin {"config", "poll"}
      BY <3>1, IsolatedExec
    <3>5. Ordered(todo'[s], p, preset', chosen')
      <4>1. CASE c # s
        <5>1. todo'[s] = todo[s] /\ chosen' = chosen
          BY <2>1, <3>2, <3>4, <4>1
        <5> QED BY <2>2, <3>4, <5>1
      <4>2. CASE c = s /\ todo'[s] = <<>>
        BY <4>2 DEF Ordered
      <4>3. CASE c = s /\ todo'[s] = Tail(todo[s])
        <5>1. Next1(c) = Head(todo[s])
          BY <4>3 DEF Next1
        <5>2. Ordered(Tail(todo[s]), p, preset, chosen')
          BY <2>2, <3>1, <3>3, <3>4, <4>3, <5>1, OrderedTail
        <5> QED BY <3>4, <4>3, <5>2
      <4> QED BY <2>1, <3>2, <4>1, <4>2, <4>3
    <3>6. \A d \in Clients \ {s} : todo'[d] \in Seq(Neutral)
      <4>1. \A d \in Clients \ {s} : todo[d] \in Seq(Neutral)
        BY DEF Isolated
      <4>2. todo[c] \in Seq(Neutral) => Tail(todo[c]) \in Seq(Neutral)
        BY <3>1
      <4>3. <<>> \in Seq(Neutral)
        OBVIOUS
      <4> SUFFICES ASSUME NEW d \in Clients \ {s}
                   PROVE  todo'[d] \in Seq(Neutral)
        OBVIOUS
      <4>4. CASE d = c
        BY <2>1, <3>2, <4>1, <4>2, <4>3, <4>4
      <4>5. CASE d # c
        BY <2>1, <3>2, <4>1, <4>5
      <4> QED BY <4>4, <4>5
    <3> QED BY <3>4, <3>5, <3>6 DEF Isolated
  <2>5. ASSUME NEW c \in Clients, Fail(c) PROVE Isolated(s)'
    <3>1. todo[c] # <<>> /\ todo' = [todo EXCEPT ![c] = <<>>]
      BY <2>5 DEF Fail
    <3>2. /\ SettingsInTheirPreset' /\ preset' = preset
          /\ c # s => chosen' = chosen
      <4>1. CASE Exec(c)
        BY <3>1, <4>1, IsolatedExec
      <4>2. CASE UNCHANGED device
        BY <4>2 DEF device, Isolated, SettingsInTheirPreset
      <4> QED BY <2>5, <4>1, <4>2 DEF Fail
    <3>3. Ordered(todo'[s], p, preset', chosen')
      <4>1. CASE c = s
        <5>1. todo'[s] = <<>>
          BY <2>1, <3>1, <4>1
        <5> QED BY <5>1 DEF Ordered
      <4>2. CASE c # s
        BY <2>1, <2>2, <3>1, <3>2, <4>2
      <4> QED BY <4>1, <4>2
    <3>4. \A d \in Clients \ {s} : todo'[d] \in Seq(Neutral)
      BY <2>1, <3>1 DEF Isolated
    <3> QED BY <3>2, <3>3, <3>4 DEF Isolated
  <2>6. CASE ApplyConfig
    <3>1. /\ preset # chosen /\ preset' = chosen
          /\ UNCHANGED <<todo, chosen, stored>>
      BY <2>6 DEF ApplyConfig
    <3>2. Ordered(todo[s], p, chosen, chosen)
      BY <2>2, <3>1 DEF Ordered
    <3> QED BY <3>1, <3>2 DEF Isolated, SettingsInTheirPreset
  <2>7. CASE UNCHANGED <<todo, preset, chosen, stored>>
    BY <2>7 DEF Isolated, SettingsInTheirPreset
  <2> QED BY <2>3, <2>4, <2>5, <2>6, <2>7 DEF Next, Remote, vars, device
<1>3. Isolated(s) => SettingsInTheirPreset
  BY DEF Isolated
<1> QED BY <1>1, <1>2, <1>3, TypedInit, TypedStep, PTL DEF Spec

-----------------------------------------------------------------------------
(* Audio is restored where one client does all the muting *)

(* Commands that leave the mute status alone, and those that set it to      *)
(* what was asked for.                                                      *)
Quiet ==
    {cmd \in Commands : cmd.op \in {"get", "volume", "config", "poll", "write"}}
Plain == Quiet \cup {cmd \in Commands : cmd.op \in {"toggle", "mute"}}

(* Only client l loads filters and changes the mute status.                *)
MutesAlone(l) ==
    \A c \in Clients \ {l} : \A r \in RequestsOf[c] :
        r.do = "volume" \/ (r.do = "config" /\ r.mute = Keep)

(* What is left of a load of t coefficients when k commands are done.      *)
Remaining(s, t, k) ==
    /\ k \in 0 .. 4 + Chunks(t)
    /\ Len(s) = 5 + Chunks(t) - k
    /\ \A i \in 1 .. Len(s) : s[i] = SetCoefficients(t)[k + i]

(* Once the load has read the mute status, that is the one wanted; before  *)
(* it starts, the device has it; once it has ended, no load is open.       *)
InLoad(l, t, k) ==
    /\ Remaining(todo[l], t, k)
    /\ k >= 1 => seen[l].mute = wanted
    /\ k <= 2 => mute = wanted /\ ~loading
    /\ k = 4 + Chunks(t) => ~loading

AtRest(l) == todo[l] \in Seq(Plain) /\ mute = wanted /\ ~loading

AudioInv(l) ==
    ~disturbed =>
        /\ \A c \in Clients \ {l} : todo[c] \in Seq(Quiet)
        /\ AtRest(l) \/ \E t \in Nat \ {0}, k \in Nat : InLoad(l, t, k)

LEMMA ProgramIn ==
    ASSUME NEW S, NEW r \in Requests, r.do # "fir",
           Cmd("get", 0) \in S,
           \A by \in {-1, 1} : Cmd("volume", by) \in S,
           r.do = "toggle" => Cmd("toggle", 0) \in S,
           \A p \in Presets : Cmd("config", p) \in S /\ Cmd("poll", p) \in S,
           r.do = "config" /\ r.mute # Keep => Cmd("mute", r.mute) \in S,
           \A p \in Presets \cup {Keep} : Cmd("write", p) \in S
    PROVE  Program(r) \in Seq(S)
<1>1. CASE r \in [do : {"volume"}, by : {-1, 1}]
  <2>1. Program(r) = <<Cmd("get", 0), Cmd("volume", r.by), Cmd("get", 0)>>
    BY <1>1 DEF Program, UpdateVolume
  <2> QED BY <1>1, <2>1
<1>2. CASE r \in [do : {"toggle"}]
  <2>1. Program(r) = <<Cmd("get", 0), Cmd("toggle", 0), Cmd("get", 0)>>
    BY <1>2 DEF Program, ToggleMute
  <2> QED BY <1>2, <2>1
<1>3. CASE r \in [do : {"config"}, preset : Presets \cup {Keep},
                  mute : BOOLEAN \cup {Keep}, writes : Nat]
  <2> DEFINE a == SetConfig(r.preset)
             b == IF r.mute = Keep THEN <<>> ELSE <<Cmd("mute", r.mute)>>
             w == [i \in 1 .. r.writes |-> Cmd("write", r.preset)]
  <2>1. Program(r) = a \o b \o w
    BY <1>3 DEF Program, Apply
  <2>2. a \in Seq(S)
    <3>1. CASE r.preset = Keep
      BY <3>1 DEF SetConfig
    <3>2. CASE r.preset # Keep
      <4>1. Cmd("config", r.preset) \in S /\ Cmd("poll", r.preset) \in S
        BY <1>3, <3>2
      <4> QED BY <3>2, <4>1 DEF SetConfig
    <3> QED BY <3>1, <3>2
  <2>3. b \in Seq(S)
    <3>1. CASE r.mute = Keep
      BY <3>1
    <3>2. CASE r.mute # Keep
      <4>1. Cmd("mute", r.mute) \in S
        BY <1>3, <3>2
      <4> QED BY <3>2, <4>1
    <3> QED BY <3>1, <3>2
  <2>4. w \in Seq(S)
    <3>1. Cmd("write", r.preset) \in S /\ r.writes \in Nat
      BY <1>3
    <3> QED BY <3>1
  <2> HIDE DEF a, b, w
  <2> QED BY <2>1, <2>2, <2>3, <2>4
<1>4. CASE r \in [do : {"fir"}, taps : Nat \ {0}]
  BY <1>4
<1> QED BY <1>1, <1>2, <1>3, <1>4 DEF Requests

LEMMA PlainProgram ==
    ASSUME NEW r \in Requests, r.do # "fir"
    PROVE  Program(r) \in Seq(Plain)
<1>1. /\ Cmd("get", 0) \in Plain /\ Cmd("toggle", 0) \in Plain
      /\ \A by \in {-1, 1} : Cmd("volume", by) \in Plain
      /\ \A p \in Presets : Cmd("config", p) \in Plain /\ Cmd("poll", p) \in Plain
      /\ \A p \in Presets \cup {Keep} : Cmd("write", p) \in Plain
      /\ \A m \in BOOLEAN : Cmd("mute", m) \in Plain
  BY DEF Plain, Quiet, Commands, Cmd
<1>2. r.do = "config" /\ r.mute # Keep => r.mute \in BOOLEAN
  BY DEF Requests
<1>3. r.do = "config" /\ r.mute # Keep => Cmd("mute", r.mute) \in Plain
  BY <1>1, <1>2
<1> QED BY <1>1, <1>3, ProgramIn

LEMMA QuietProgram ==
    ASSUME NEW r \in Requests,
           r.do = "volume" \/ (r.do = "config" /\ r.mute = Keep)
    PROVE  Program(r) \in Seq(Quiet)
<1>1. /\ Cmd("get", 0) \in Quiet
      /\ \A by \in {-1, 1} : Cmd("volume", by) \in Quiet
      /\ \A p \in Presets : Cmd("config", p) \in Quiet /\ Cmd("poll", p) \in Quiet
      /\ \A p \in Presets \cup {Keep} : Cmd("write", p) \in Quiet
  BY DEF Quiet, Commands, Cmd
<1> QED BY <1>1, ProgramIn

(* Where the parts of a sequence in three parts are. *)
LEMMA ThreeParts ==
    ASSUME NEW S, NEW a \in Seq(S), NEW b \in Seq(S), NEW e \in Seq(S),
           NEW p, p = a \o b \o e
    PROVE  /\ p \in Seq(S) /\ Len(p) = Len(a) + Len(b) + Len(e)
           /\ \A i \in 1 .. Len(a) : p[i] = a[i]
           /\ \A i \in 1 .. Len(b) : p[Len(a) + i] = b[i]
           /\ \A i \in 1 .. Len(e) : p[Len(a) + Len(b) + i] = e[i]
<1> DEFINE f == a \o b
           n == Len(a)
           m == Len(b)
           q == Len(e)
<1>0. n \in Nat /\ m \in Nat /\ q \in Nat
  OBVIOUS
<1>1. /\ f \in Seq(S) /\ Len(f) = n + m
      /\ \A i \in 1 .. n : f[i] = a[i]
      /\ \A i \in 1 .. m : f[n + i] = b[i]
  OBVIOUS
<1> HIDE DEF f
<1>2. /\ f \o e \in Seq(S) /\ Len(f \o e) = Len(f) + q
      /\ \A i \in 1 .. Len(f) : (f \o e)[i] = f[i]
      /\ \A i \in 1 .. q : (f \o e)[Len(f) + i] = e[i]
  <2>1. f \in Seq(S)
    BY <1>1
  <2> QED BY <2>1
<1>6. p = f \o e
  BY DEF f
<1> HIDE DEF n, m, q
<1>3. /\ p \in Seq(S) /\ Len(p) = n + m + q
      /\ \A i \in 1 .. n + m : p[i] = f[i]
      /\ \A i \in 1 .. q : p[n + m + i] = e[i]
  BY <1>1, <1>2, <1>6
<1>4. \A i \in 1 .. m : n + i \in 1 .. n + m
  BY <1>0
<1>5. \A i \in 1 .. n : i \in 1 .. n + m
  BY <1>0
<1> QED BY <1>1, <1>3, <1>4, <1>5 DEF n, m, q

(* The commands of a load, by their places. *)
LEMMA LoadProgram ==
    ASSUME NEW t \in Nat \ {0}
    PROVE  LET m == Chunks(t)  p == SetCoefficients(t) IN
           /\ m \in Nat /\ p \in Seq(Commands) /\ Len(p) = 5 + m
           /\ p[1].op = "get" /\ p[2].op = "taps"
           /\ p[3].op = "start" /\ p[3].arg = t
           /\ \A i \in 4 .. 3 + m : p[i].op = "data"
           /\ p[4 + m].op = "end" /\ p[5 + m].op = "unmute"
<1> DEFINE m == Chunks(t)
           a == <<Cmd("get", 0), Cmd("taps", t), Cmd("start", t)>>
           b == [i \in 1 .. m |-> Cmd("data", i)]
           e == <<Cmd("end", 0), Cmd("unmute", 0)>>
<1>1. m \in Nat
  BY RequestsAssumption DEF Chunks
<1>2. /\ Cmd("get", 0) \in Commands /\ Cmd("taps", t) \in Commands
      /\ Cmd("start", t) \in Commands /\ Cmd("end", 0) \in Commands
      /\ Cmd("unmute", 0) \in Commands
      /\ \A i \in Nat : Cmd("data", i) \in Commands
  BY DEF Commands, Cmd
<1>3. /\ a \in Seq(Commands) /\ Len(a) = 3
      /\ a[1].op = "get" /\ a[2].op = "taps" /\ a[3].op = "start"
      /\ a[3].arg = t
  BY <1>2 DEF Cmd
<1>4. /\ b \in Seq(Commands) /\ Len(b) = m
      /\ \A i \in 1 .. m : b[i].op = "data"
  BY <1>1, <1>2 DEF Cmd
<1>5. /\ e \in Seq(Commands) /\ Len(e) = 2
      /\ e[1].op = "end" /\ e[2].op = "unmute"
  BY <1>2 DEF Cmd
<1>6. SetCoefficients(t) = a \o b \o e
  BY DEF SetCoefficients
<1> HIDE DEF m, a, b, e
<1>7. a \in Seq(Commands) /\ b \in Seq(Commands) /\ e \in Seq(Commands)
  BY <1>3, <1>4, <1>5
<1> DEFINE p == a \o b \o e
<1>a. /\ p \in Seq(Commands) /\ Len(p) = 3 + m + 2
      /\ \A i \in 1 .. 3 : p[i] = a[i]
      /\ \A i \in 1 .. m : p[3 + i] = b[i]
      /\ \A i \in 1 .. 2 : p[3 + m + i] = e[i]
  <2>1. /\ p \in Seq(Commands) /\ Len(p) = Len(a) + Len(b) + Len(e)
        /\ \A i \in 1 .. Len(a) : p[i] = a[i]
        /\ \A i \in 1 .. Len(b) : p[Len(a) + i] = b[i]
        /\ \A i \in 1 .. Len(e) : p[Len(a) + Len(b) + i] = e[i]
    BY <1>7, ThreeParts
  <2> HIDE DEF p
  <2> QED BY <1>3, <1>4, <1>5, <2>1
<1> HIDE DEF p
<1>8. /\ p \in Seq(Commands) /\ Len(p) = 5 + m
      /\ p[1] = a[1] /\ p[2] = a[2] /\ p[3] = a[3]
      /\ \A i \in 4 .. 3 + m : i - 3 \in 1 .. m /\ p[i] = b[i - 3]
      /\ p[4 + m] = e[1] /\ p[5 + m] = e[2]
  <2>1. /\ 3 + m + 2 = 5 + m /\ 3 + m + 1 = 4 + m
        /\ \A i \in 4 .. 3 + m : i - 3 \in 1 .. m /\ 3 + (i - 3) = i
    BY <1>1
  <2>2. p[3 + m + 1] = e[1] /\ p[3 + m + 2] = e[2]
    BY <1>a
  <2>3. p[1] = a[1] /\ p[2] = a[2] /\ p[3] = a[3]
    BY <1>a
  <2>4. \A i \in 4 .. 3 + m : p[3 + (i - 3)] = b[i - 3]
    BY <1>a, <2>1
  <2> QED BY <1>a, <2>1, <2>2, <2>3, <2>4
<1>9. p = SetCoefficients(t)
  BY <1>6 DEF p
<1>10. \A i \in 4 .. 3 + m : p[i].op = "data"
  BY <1>4, <1>8
<1> QED BY <1>1, <1>3, <1>5, <1>8, <1>9, <1>10 DEF m

(* One command less remains. *)
LEMMA RemainingTail ==
    ASSUME NEW t \in Nat \ {0}, NEW k \in Nat, NEW s \in Seq(Commands),
           Remaining(s, t, k)
    PROVE  /\ s # <<>> /\ Head(s) = SetCoefficients(t)[k + 1]
           /\ k < 4 + Chunks(t) => Remaining(Tail(s), t, k + 1)
           /\ k = 4 + Chunks(t) => Tail(s) = <<>>
<1>0. Chunks(t) \in Nat
  BY LoadProgram
<1>1. Len(s) = 5 + Chunks(t) - k /\ Len(s) >= 1
  BY <1>0 DEF Remaining
<1>2. s # <<>> /\ Head(s) = s[1] /\ 1 \in 1 .. Len(s)
  BY <1>1
<1>3. Head(s) = SetCoefficients(t)[k + 1]
  BY <1>2 DEF Remaining
<1>4. Len(Tail(s)) = Len(s) - 1
      /\ \A i \in 1 .. Len(s) - 1 : Tail(s)[i] = s[i + 1] /\ i + 1 \in 1 .. Len(s)
  BY <1>2
<1>5. \A i \in 1 .. Len(s) - 1 : Tail(s)[i] = SetCoefficients(t)[(k + 1) + i]
  <2> SUFFICES ASSUME NEW i \in 1 .. Len(s) - 1
               PROVE  Tail(s)[i] = SetCoefficients(t)[(k + 1) + i]
    OBVIOUS
  <2>1. Tail(s)[i] = SetCoefficients(t)[k + (i + 1)]
    BY <1>4 DEF Remaining
  <2>2. k + (i + 1) = (k + 1) + i
    OBVIOUS
  <2> QED BY <2>1, <2>2
<1>6. k < 4 + Chunks(t) => Remaining(Tail(s), t, k + 1)
  BY <1>0, <1>1, <1>4, <1>5 DEF Remaining
<1>7. k = 4 + Chunks(t) => Tail(s) = <<>>
  <2>1. k = 4 + Chunks(t) => Len(Tail(s)) = 0
    BY <1>0, <1>1, <1>4, SMTT(20)
  <2>2. Tail(s) \in Seq(Commands)
    BY <1>2
  <2>3. \A u \in Seq(Commands) : Len(u) = 0 => u = <<>>
    BY EmptySeq, Zenon
  <2> QED BY <2>1, <2>2, <2>3
<1> QED BY <1>2, <1>3, <1>6, <1>7

(* A step of the load itself. *)
LEMMA LoadStep ==
    ASSUME NEW l \in Clients, Typed, Step(l), ~disturbed',
           NEW t \in Nat \ {0}, NEW k \in Nat, InLoad(l, t, k)
    PROVE  AtRest(l)' \/ InLoad(l, t, k + 1)'
<1> DEFINE m == Chunks(t)
           p == SetCoefficients(t)
<1>1. /\ m \in Nat /\ Len(p) = 5 + m
      /\ p[1].op = "get" /\ p[2].op = "taps"
      /\ p[3].op = "start" /\ p[3].arg = t
      /\ \A i \in 4 .. 3 + m : p[i].op = "data"
      /\ p[4 + m].op = "end" /\ p[5 + m].op = "unmute"
  BY LoadProgram
<1> HIDE DEF m, p
<1>2. todo \in [Clients -> Seq(Commands)] /\ seen \in [Clients -> Statuses]
      /\ todo[l] \in Seq(Commands)
  BY DEF Typed
<1>3. /\ Next1(l) = p[k + 1] /\ k \in 0 .. 4 + m
      /\ k < 4 + m => Remaining(Tail(todo[l]), t, k + 1)
      /\ k = 4 + m => Tail(todo[l]) = <<>>
  BY <1>2, RemainingTail DEF InLoad, Next1, Remaining, m, p
<1>4. /\ k >= 1 => seen[l].mute = wanted
      /\ k <= 2 => mute = wanted /\ ~loading
      /\ k = 4 + m => ~loading
  BY DEF InLoad, m
<1>5. ~TooManyCoefficients(l)
  BY DEF Step
<1>6. /\ todo'[l] = Tail(todo[l])
      /\ seen'[l] = IF Next1(l).op = "get" THEN Status ELSE seen[l]
  BY <1>2, <1>5 DEF Step
<1>7. Exec(l)
  BY DEF Step
<1>8. k < 4 + m => Remaining(todo'[l], t, k + 1)
  BY <1>3, <1>6
<1>9. /\ Next1(l).op \in {"get", "taps", "data"}
            => UNCHANGED <<mute, wanted, loading>>
      /\ Next1(l).op = "start" => UNCHANGED wanted
      /\ Next1(l).op = "end" => UNCHANGED <<mute, wanted>> /\ loading' = FALSE
      /\ Next1(l).op = "unmute"
            => mute' = seen[l].mute /\ UNCHANGED <<wanted, loading>>
  BY <1>7 DEF Exec, ExecVolume, ExecToggle, ExecMute, ExecConfig, ExecWrite,
              ExecStart, ExecEnd, ExecUnmute, ExecOther, device, Restored
<1>10. CASE k = 0
  <2>1. Next1(l).op = "get"
    BY <1>1, <1>3, <1>10
  <2>2. seen'[l].mute = mute
    BY <1>6, <2>1 DEF Status
  <2>3. InLoad(l, t, k + 1)'
    BY <1>1, <1>4, <1>8, <1>9, <1>10, <2>1, <2>2 DEF InLoad, m
  <2> QED BY <2>3
<1>11. CASE k = 1
  <2>1. Next1(l).op = "taps"
    BY <1>1, <1>3, <1>11
  <2>2. InLoad(l, t, k + 1)'
    BY <1>1, <1>4, <1>6, <1>8, <1>9, <1>11, <2>1 DEF InLoad, m
  <2> QED BY <2>2
<1>12. CASE k = 2
  <2>1. Next1(l).op = "start"
    BY <1>1, <1>3, <1>12
  <2>2. InLoad(l, t, k + 1)'
    BY <1>1, <1>4, <1>6, <1>8, <1>9, <1>12, <2>1 DEF InLoad, m
  <2> QED BY <2>2
<1>13. CASE k \in 3 .. 2 + m
  <2>1. Next1(l).op = "data"
    BY <1>1, <1>3, <1>13
  <2>2. InLoad(l, t, k + 1)'
    BY <1>1, <1>4, <1>6, <1>8, <1>9, <1>13, <2>1 DEF InLoad, m
  <2> QED BY <2>2
<1>14. CASE k = 3 + m
  <2>1. Next1(l).op = "end"
    BY <1>1, <1>3, <1>14
  <2>2. InLoad(l, t, k + 1)'
    BY <1>1, <1>4, <1>6, <1>8, <1>9, <1>14, <2>1 DEF InLoad, m
  <2> QED BY <2>2
<1>15. CASE k = 4 + m
  <2>1. Next1(l).op = "unmute"
    BY <1>1, <1>3, <1>15
  <2>2. mute' = wanted' /\ ~loading'
    BY <1>1, <1>4, <1>9, <1>15, <2>1
  <2>3. todo'[l] = <<>>
    BY <1>3, <1>6, <1>15
  <2>4. AtRest(l)'
    BY <2>2, <2>3 DEF AtRest
  <2> QED BY <2>4
<1> QED BY <1>1, <1>3, <1>10, <1>11, <1>12, <1>13, <1>14, <1>15

(* The client's next command is done, and the rest follows or is given up. *)
Goes(c) ==
    /\ todo[c] # <<>> /\ Exec(c)
    /\ todo'[c] = <<>> \/ todo'[c] = Tail(todo[c])

(* A command of any other request of the client that mutes. *)
LEMMA PlainStep ==
    ASSUME NEW l \in Clients, Typed, Goes(l), AtRest(l)
    PROVE  AtRest(l)'
<1>1. todo \in [Clients -> Seq(Commands)] /\ todo[l] # <<>>
      /\ todo[l] \in Seq(Plain) /\ mute = wanted /\ ~loading
  BY DEF Typed, Goes, AtRest
<1>2. Next1(l) \in Plain /\ Tail(todo[l]) \in Seq(Plain)
  BY <1>1 DEF Next1
<1>3. todo'[l] \in Seq(Plain)
  <2>1. <<>> \in Seq(Plain)
    BY EmptySeq, Zenon
  <2> QED BY <1>2, <2>1, Zenon DEF Goes
<1>4. Next1(l).op \in {"get", "volume", "config", "poll", "write", "toggle",
                       "mute"}
  BY <1>2 DEF Plain, Quiet
<1>5. Exec(l)
  BY DEF Goes
<1>6. mute' = wanted' /\ loading' = loading
  BY <1>1, <1>4, <1>5
     DEF Exec, ExecVolume, ExecToggle, ExecMute, ExecConfig, ExecWrite,
         ExecStart, ExecEnd, ExecUnmute, ExecOther, device
<1> QED BY <1>1, <1>3, <1>6 DEF AtRest

(* A command of a client that does not mute. *)
LEMMA QuietStep ==
    ASSUME NEW c \in Clients, Typed, Goes(c), todo[c] \in Seq(Quiet)
    PROVE  todo'[c] \in Seq(Quiet) /\ UNCHANGED <<mute, wanted, loading>>
<1>1. todo \in [Clients -> Seq(Commands)] /\ todo[c] # <<>> /\ Exec(c)
  BY DEF Typed, Goes
<1>2. Next1(c) \in Quiet /\ Tail(todo[c]) \in Seq(Quiet)
  BY <1>1 DEF Next1
<1>3. todo'[c] \in Seq(Quiet)
  <2>1. <<>> \in Seq(Quiet)
    BY EmptySeq, Zenon
  <2> QED BY <1>2, <2>1, Zenon DEF Goes
<1>4. Next1(c).op \in {"get", "volume", "config", "poll", "write"}
  BY <1>2 DEF Quiet
<1>5. UNCHANGED <<mute, wanted, loading>>
  BY <1>1, <1>4
     DEF Exec, ExecVolume, ExecToggle, ExecMute, ExecConfig, ExecWrite,
         ExecStart, ExecEnd, ExecUnmute, ExecOther, device
<1> QED BY <1>3, <1>5

(* A load that is not in progress has not read the mute status yet. *)
LEMMA NotLoading ==
    ASSUME NEW l \in Clients, Typed, NEW t \in Nat \ {0}, NEW k \in Nat,
           InLoad(l, t, k), ~Loads(l)
    PROVE  k = 0 /\ Next1(l).op = "get"
<1> DEFINE m == Chunks(t)
           p == SetCoefficients(t)
<1>1. /\ m \in Nat /\ Len(p) = 5 + m
      /\ p[1].op = "get" /\ p[2].op = "taps" /\ p[3].op = "start"
      /\ \A i \in 4 .. 3 + m : p[i].op = "data"
      /\ p[4 + m].op = "end" /\ p[5 + m].op = "unmute"
  BY LoadProgram
<1> HIDE DEF m, p
<1>2. todo[l] \in Seq(Commands) /\ Remaining(todo[l], t, k)
  BY DEF Typed, InLoad
<1>3. /\ k \in 0 .. 4 + m /\ Len(todo[l]) = 5 + m - k
      /\ \A i \in 1 .. Len(todo[l]) : todo[l][i] = p[k + i]
  BY <1>2 DEF Remaining, m, p
<1>4. todo[l] # <<>> /\ Next1(l) = p[k + 1]
  BY <1>2, RemainingTail DEF Next1, p
<1>5. 5 + m - k \in DOMAIN todo[l] /\ k + (5 + m - k) = 5 + m
  BY <1>1, <1>2, <1>3
<1>6. todo[l][5 + m - k].op = "unmute"
  BY <1>1, <1>3, <1>5
<1>7. Next1(l).op = "get"
  BY <1>4, <1>5, <1>6 DEF Loads
<1>8. k \in 1 .. 4 + m => p[k + 1].op # "get"
  <2>1. k = 1 => p[k + 1].op = "taps"
    BY <1>1
  <2>2. k = 2 => p[k + 1].op = "start"
    BY <1>1
  <2>3. k \in 3 .. 2 + m => p[k + 1].op = "data"
    BY <1>1
  <2>4. k = 3 + m => p[k + 1].op = "end"
    BY <1>1
  <2>5. k = 4 + m => p[k + 1].op = "unmute"
    BY <1>1
  <2>6. k \in 1 .. 4 + m =>
          k = 1 \/ k = 2 \/ k \in 3 .. 2 + m \/ k = 3 + m \/ k = 4 + m
    BY <1>1
  <2> QED BY <2>1, <2>2, <2>3, <2>4, <2>5, <2>6
<1> QED BY <1>3, <1>4, <1>7, <1>8

(* What is cut short before it has read the mute status was no load yet.   *)
LEMMA GivenUp ==
    ASSUME NEW l \in Clients, MutesAlone(l), Typed, AudioInv(l),
           NEW c \in Clients, Fail(c), ~disturbed'
    PROVE  AudioInv(l)'
<1>1. /\ ~disturbed /\ ~Loads(c) /\ todo[c] # <<>>
      /\ todo' = [todo EXCEPT ![c] = <<>>] /\ UNCHANGED seen
      /\ Exec(c) \/ UNCHANGED device
      /\ todo \in [Clients -> Seq(Commands)]
  BY DEF Fail, Typed
<1>2. /\ \A d \in Clients \ {l} : todo[d] \in Seq(Quiet)
      /\ AtRest(l) \/ \E t \in Nat \ {0}, k \in Nat : InLoad(l, t, k)
  BY <1>1 DEF AudioInv
<1>3. \A d \in Clients \ {l} : todo'[d] \in Seq(Quiet)
  BY <1>1, <1>2
<1>4. Exec(c) => Goes(c)
  BY <1>1 DEF Goes
<1>5. CASE c = l
  <2>1. CASE AtRest(l)
    <3>1. CASE Exec(c)
      BY <1>3, <1>4, <1>5, <2>1, <3>1, PlainStep DEF AudioInv
    <3>2. CASE UNCHANGED device
      <4>1. todo'[l] = <<>> /\ UNCHANGED <<mute, wanted, loading>>
        BY <1>1, <1>5, <3>2 DEF device
      <4>2. AtRest(l)'
        BY <2>1, <4>1 DEF AtRest
      <4> QED BY <1>3, <4>2 DEF AudioInv
    <3> QED BY <1>1, <3>1, <3>2
  <2>2. ASSUME NEW t \in Nat \ {0}, NEW k \in Nat, InLoad(l, t, k)
        PROVE  AudioInv(l)'
    <3>1. k = 0 /\ Next1(l).op = "get"
      BY <1>1, <1>5, <2>2, NotLoading
    <3>2. mute = wanted /\ ~loading
      BY <2>2, <3>1 DEF InLoad
    <3>3. UNCHANGED <<mute, wanted, loading>>
      BY <1>1, <1>5, <3>1
         DEF Exec, ExecVolume, ExecToggle, ExecMute, ExecConfig, ExecWrite,
             ExecStart, ExecEnd, ExecUnmute, ExecOther, device
    <3>4. todo'[l] = <<>>
      BY <1>1, <1>5
    <3>5. AtRest(l)'
      BY <3>2, <3>3, <3>4 DEF AtRest
    <3> QED BY <1>3, <3>5 DEF AudioInv
  <2> QED BY <1>2, <2>1, <2>2
<1>6. CASE c # l
  <2>1. UNCHANGED <<mute, wanted, loading>>
    <3>1. CASE Exec(c)
      BY <1>2, <1>4, <1>6, <3>1, QuietStep
    <3>2. CASE UNCHANGED device
      BY <3>2 DEF device
    <3> QED BY <1>1, <3>1, <3>2
  <2>2. todo'[l] = todo[l] /\ seen'[l] = seen[l]
    BY <1>1, <1>6
  <2>3. AtRest(l) => AtRest(l)'
    BY <2>1, <2>2 DEF AtRest
  <2>4. ASSUME NEW t \in Nat \ {0}, NEW k \in Nat, InLoad(l, t, k)
        PROVE  InLoad(l, t, k)'
    BY <2>1, <2>2, <2>4 DEF InLoad
  <2> QED BY <1>2, <1>3, <2>3, <2>4 DEF AudioInv
<1> QED BY <1>5, <1>6

(* The remote sets what is wanted, and where it mutes, no load has read    *)
(* the mute status.                                                        *)
LEMMA RemoteStep ==
    ASSUME NEW l \in Clients, Typed, AudioInv(l), NEW what, Remote(what),
           ~disturbed'
    PROVE  AudioInv(l)'
<1>1. ~disturbed /\ UNCHANGED <<todo, seen, loading>>
  BY DEF Remote
<1>2. /\ \A d \in Clients \ {l} : todo[d] \in Seq(Quiet)
      /\ AtRest(l) \/ \E t \in Nat \ {0}, k \in Nat : InLoad(l, t, k)
  BY <1>1 DEF AudioInv
<1>3. \/ UNCHANGED <<mute, wanted>>
      \/ mute' = wanted' /\ ~Loads(l)
  BY DEF Remote
<1>4. AtRest(l) => AtRest(l)'
  BY <1>1, <1>3 DEF AtRest
<1>5. ASSUME NEW t \in Nat \ {0}, NEW k \in Nat, InLoad(l, t, k)
      PROVE  InLoad(l, t, k)'
  <2>1. CASE UNCHANGED <<mute, wanted>>
    BY <1>1, <1>5, <2>1 DEF InLoad
  <2>2. CASE mute' = wanted' /\ ~Loads(l)
    <3>1. k = 0
      BY <1>5, <2>2, NotLoading
    <3>2. Chunks(t) \in Nat
      BY LoadProgram
    <3>3. Remaining(todo[l], t, k)' /\ ~loading'
      BY <1>1, <1>5, <3>1 DEF InLoad
    <3> QED BY <2>2, <3>1, <3>2, <3>3 DEF InLoad
  <2> QED BY <1>3, <2>1, <2>2
<1> QED BY <1>1, <1>2, <1>4, <1>5 DEF AudioInv

LEMMA AudioStep ==
    ASSUME NEW l \in Clients, MutesAlone(l), Typed, AudioInv(l), [Next]_vars
    PROVE  AudioInv(l)'
<1> DEFINE Others == \A c \in Clients \ {l} : todo[c] \in Seq(Quiet)
           Mine == AtRest(l) \/ \E t \in Nat \ {0}, k \in Nat : InLoad(l, t, k)
<1> SUFFICES ASSUME ~disturbed' PROVE Others' /\ Mine'
  BY DEF AudioInv
<1>0. Others /\ Mine
  <2>1. disturbed => disturbed'
    BY DEF Next, Request, Step, Fail, ApplyConfig, Remote, vars
  <2> QED BY <2>1 DEF AudioInv
<1>1. todo \in [Clients -> Seq(Commands)]
  BY DEF Typed
<1>2. ASSUME Others, Mine, UNCHANGED <<mute, wanted, loading>>,
             todo'[l] = todo[l], seen'[l] = seen[l]
      PROVE  Mine'
  <2>1. AtRest(l) => AtRest(l)'
    BY <1>2 DEF AtRest
  <2>2. ASSUME NEW t \in Nat \ {0}, NEW k \in Nat, InLoad(l, t, k)
        PROVE  InLoad(l, t, k)'
    BY <1>2, <2>2 DEF InLoad
  <2> QED BY <1>2, <2>1, <2>2
<1>3. ASSUME NEW c \in Clients, NEW r \in RequestsOf[c], Request(c, r)
      PROVE  Others' /\ Mine'
  <2>1. /\ r \in Requests /\ todo' = [todo EXCEPT ![c] = Program(r)]
        /\ todo[c] = <<>>
        /\ UNCHANGED <<seen, mute, wanted, loading>>
    BY <1>3, RequestsAssumption DEF Request, device
  <2>2. Others /\ Mine
    BY <1>0, <2>1
  <2>3. CASE c # l
    <3>1. Program(r) \in Seq(Quiet)
      BY <2>1, <2>3, QuietProgram DEF MutesAlone
    <3>2. Others'
      BY <1>1, <2>1, <2>2, <3>1
    <3> QED BY <1>1, <1>2, <2>1, <2>2, <2>3, <3>2
  <2>4. CASE c = l
    <3>1. Others'
      BY <1>1, <2>1, <2>2, <2>4
    <3>2. AtRest(l)
      <4>1. ASSUME NEW t \in Nat \ {0}, NEW k \in Nat, InLoad(l, t, k)
            PROVE  FALSE
        <5>1. t \in Nat \ {0} /\ todo[l] \in Seq(Commands)
          BY <1>1, RequestsAssumption
        <5>2. todo[l] # <<>>
          BY <4>1, <5>1, RemainingTail DEF InLoad
        <5> QED BY <2>1, <2>4, <5>2
      <4> QED BY <2>2, <4>1
    <3>3. CASE r.do # "fir"
      <4>1. Program(r) \in Seq(Plain)
        BY <2>1, <3>3, PlainProgram
      <4>2. AtRest(l)'
        BY <1>1, <2>1, <2>4, <3>2, <4>1 DEF AtRest
      <4> QED BY <3>1, <4>2
    <3>4. CASE r.do = "fir"
      <4>1. r.taps \in Nat \ {0}
        BY <2>1, <3>4 DEF Requests
      <4> DEFINE p == SetCoefficients(r.taps)
      <4>2. /\ Chunks(r.taps) \in Nat
            /\ p \in Seq(Commands) /\ Len(p) = 5 + Chunks(r.taps)
        BY <4>1, LoadProgram
      <4>3. todo'[l] = p
        BY <1>1, <2>1, <2>4, <3>4 DEF Program
      <4> HIDE DEF p
      <4>4. \A i \in 1 .. Len(p) : p[i] = p[0 + i]
        BY <4>2
      <4>5. Remaining(todo'[l], r.taps, 0)
        BY <4>2, <4>3, <4>4 DEF Remaining, p
      <4>6. InLoad(l, r.taps, 0)'
        BY <2>1, <3>2, <4>2, <4>5 DEF InLoad, AtRest
      <4> QED BY <3>1, <4>1, <4>6
    <3> QED BY <3>3, <3>4
  <2> QED BY <2>3, <2>4
<1>4. ASSUME NEW c \in Clients, Step(c) PROVE Others' /\ Mine'
  <2>1. \A d \in Clients \ {c} : todo'[d] = todo[d] /\ seen'[d] = seen[d]
    BY <1>1, <1>4 DEF Step, Typed
  <2>2. Others /\ Mine /\ Goes(c)
    BY <1>0, <1>1, <1>4 DEF Step, Goes
  <2>3. CASE c # l
    <3>1. todo'[c] \in Seq(Quiet) /\ UNCHANGED <<mute, wanted, loading>>
      BY <1>4, <2>2, <2>3, QuietStep
    <3>2. Others'
      BY <2>1, <2>2, <3>1
    <3> QED BY <1>2, <2>1, <2>2, <2>3, <3>1, <3>2
  <2>4. CASE c = l
    <3>1. Others'
      BY <2>1, <2>2, <2>4
    <3>2. CASE AtRest(l)
      BY <2>2, <2>4, <3>1, <3>2, PlainStep
    <3>3. ASSUME NEW t \in Nat \ {0}, NEW k \in Nat, InLoad(l, t, k)
          PROVE  Mine'
      <4>1. AtRest(l)' \/ InLoad(l, t, k + 1)'
        BY <1>4, <2>4, <3>3, LoadStep
      <4>2. k + 1 \in Nat
        OBVIOUS
      <4> QED BY <4>1, <4>2
    <3> QED BY <2>2, <3>1, <3>2, <3>3
  <2> QED BY <2>3, <2>4
<1>5. ASSUME NEW c \in Clients, Fail(c) PROVE Others' /\ Mine'
  BY <1>5, GivenUp DEF AudioInv
<1>6. CASE ApplyConfig
  <2>1. UNCHANGED <<todo, seen, mute, loading, wanted>>
    BY <1>6 DEF ApplyConfig
  <2> QED BY <1>0, <1>2, <2>1
<1>7. ASSUME NEW what \in RemoteChanges, Remote(what) PROVE Others' /\ Mine'
  BY <1>7, RemoteStep DEF AudioInv
<1>8. CASE UNCHANGED vars
  <2>1. UNCHANGED <<todo, seen, mute, loading, wanted>>
    BY <1>8 DEF vars, device
  <2> QED BY <1>0, <1>2, <2>1
<1> QED BY <1>3, <1>4, <1>5, <1>6, <1>7, <1>8 DEF Next

(* Loading a filter "re-enables audio" (model.rs), proved where one client *)
(* does all the muting: the status it reads before a load is still the one *)
(* wanted when the load sets it back, whatever fails outside a load and    *)
(* whenever else the remote mutes.  A second client that mutes, or loads,  *)
(* breaks it (run requests_twice).                                         *)
THEOREM AudioTheorem ==
    ASSUME NEW l \in Clients, MutesAlone(l)
    PROVE  Spec => []AudioRestored
<1>1. Init => AudioInv(l)
  BY DEF Init, AudioInv, AtRest
<1>2. Typed /\ AudioInv(l) /\ [Next]_vars => AudioInv(l)'
  BY AudioStep
<1>3. Typed /\ AudioInv(l) => AudioRestored
  <2> SUFFICES ASSUME Typed, AudioInv(l), ~disturbed,
                      \A c \in Clients : todo[c] = <<>>
               PROVE  mute = wanted /\ ~loading
    BY DEF AudioRestored
  <2>1. ASSUME NEW t \in Nat \ {0}, NEW k \in Nat, InLoad(l, t, k)
        PROVE  FALSE
    <3>1. todo[l] \in Seq(Commands)
      BY DEF Typed
    <3> QED BY <2>1, <3>1, RemainingTail DEF InLoad
  <2> QED BY <2>1 DEF AudioInv, AtRest
<1> QED BY <1>1, <1>2, <1>3, TypedInit, TypedStep, PTL DEF Spec
=============================================================================
