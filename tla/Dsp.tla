-------------------------------- MODULE Dsp --------------------------------
(***************************************************************************)
(* The device at the other end, as the code uses it: MockDevice::execute   *)
(* (minidsp/src/utils/mock_device.rs) for what the mock keeps, and the     *)
(* filters and the FIR loads, which it only acknowledges.  The memory is   *)
(* that of the preset in use: another preset's replaces it when the device *)
(* switches, which it may do later than it says (set_config in lib.rs).    *)
(***************************************************************************)
EXTENDS CommandCodec, DeviceSpec, TLC

(* Nothing written yet. *)
Blank(master) ==
    [words |-> <<>>,        \* the values at the addresses written to
     bypassed |-> <<>>,     \* the bypass flags that were set or reset
     filters |-> <<>>,      \* the coefficients loaded, by FIR index
     master |-> master,
     next |-> None]         \* the preset it was told to switch to

Switched(dsp) ==
    Blank([dsp.master EXCEPT !.preset = The(dsp.next)])

Stored(f, at, values) ==
    LET new == at .. at + Len(values) - 1
    IN  [w \in new \cup DOMAIN f |->
            IF w \in new THEN values[w - at + 1] ELSE f[w]]

(* A FIR load mutes the device, and starts from an empty filter. *)
execute(dsp, f) ==
    LET c == from_bytes(f) IN
    CASE c.op = "Write" ->
            [dsp EXCEPT !.words = Stored(@, c.addr.val, <<c.value>>)]
      [] c.op = "WriteBiquad" ->
            [dsp EXCEPT !.words = Stored(@, c.addr.val, c.data)]
      [] c.op = "WriteBiquadBypass" ->
            [dsp EXCEPT !.bypassed = Stored(@, c.addr.val, <<c.value>>)]
      [] c.op = "FirLoadStart" ->
            [dsp EXCEPT !.filters = Stored(@, c.index, << <<>> >>),
                        !.master.mute = TRUE]
      [] c.op = "FirLoadData" ->
            [dsp EXCEPT !.filters[c.index] = @ \o f.words]
      [] c.op = "FirLoadEnd" -> dsp
      [] c.op = "SetConfig" -> [dsp EXCEPT !.next = Some(c.config)]
      [] c.op = "SetSource" -> [dsp EXCEPT !.master.source = c.source]
      [] c.op = "SetMute" -> [dsp EXCEPT !.master.mute = c.value]
      [] c.op = "SetVolume" -> [dsp EXCEPT !.master.volume = c.value]
      [] c.op = "ReadMemory" -> dsp
      [] c.op = "Unknown" /\ c.cmd_id = 63 ->
            [dsp EXCEPT !.master.dirac = c.payload[1] = 0]

(* What FirLoadStart answers: the most coefficients the filter takes. *)
FirLoadSize(d, index) ==
    (The((CHOOSE c \in {d.outputs[o] : o \in DOMAIN d.outputs} :
            \E f \in c.fir : f.index = index).fir)).max_coefficients
=============================================================================
