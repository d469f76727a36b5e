---------------------------- MODULE DeviceTables ----------------------------
(***************************************************************************)
(* The devices the program knows, by kind, and how a connected device is   *)
(* recognised: protocol/src/device/probe.rs.                               *)
(***************************************************************************)
EXTENDS DeviceSpec

LOCAL M2x4HD == INSTANCE DeviceM2x4HD
LOCAL SHD == INSTANCE DeviceSHD
LOCAL MSharc4x8 == INSTANCE DeviceMSharc4x8
LOCAL DDRC88BM == INSTANCE DeviceDDRC88BM
LOCAL C8x12v2 == INSTANCE DeviceC8x12v2
LOCAL FlexHTX == INSTANCE DeviceFlexHTX
LOCAL M4x10HD == INSTANCE DeviceM4x10HD
LOCAL M10x10HD == INSTANCE DeviceM10x10HD

(* The 2x4 has no channels in its table. *)
M2x4Symbols == 0 .. 381
M2x4 ==
    [inputs |-> <<>>, outputs |-> <<>>, fir_max_taps |-> 0,
     internal_sampling_rate |-> 48000, addr_len |-> 2,
     float_encoding |-> "FixedPoint",
     symbols |-> M2x4Symbols]

GENERIC ==
    [inputs |-> <<>>, outputs |-> <<>>, fir_max_taps |-> 0,
     internal_sampling_rate |-> 0, addr_len |-> 3,
     float_encoding |-> "Float32LE",
     symbols |-> {}]

by_kind ==
    [M10x10Hd |-> M10x10HD!DEVICE, M4x10Hd |-> M4x10HD!DEVICE,
     MSharc4x8 |-> MSharc4x8!DEVICE, M2x4Hd |-> M2x4HD!DEVICE,
     DDRC24 |-> SHD!DDRC24, DDRC88BM |-> DDRC88BM!DEVICE,
     Shd |-> SHD!DEVICE, Nanodigi2x8 |-> M4x10HD!NANODIGI2x8,
     C8x12v2 |-> C8x12v2!DEVICE, M2x4 |-> M2x4, Flex |-> M2x4HD!FLEX,
     FlexHtx |-> FlexHTX!DEVICE, Generic |-> GENERIC]

probe_kind(info) ==
    LET hw_id == info.hw_id
        dsp_version == info.dsp_version
    IN
    CASE hw_id = 1 /\ dsp_version = 51 -> "M10x10Hd"
      [] hw_id = 1 /\ dsp_version # 51 -> "M4x10Hd"
      [] hw_id = 4 -> "MSharc4x8"
      [] hw_id = 10 /\ dsp_version = 100 -> "M2x4Hd"
      [] hw_id = 10 /\ dsp_version = 101 -> "DDRC24"
      [] hw_id = 6 /\ dsp_version = 95 -> "DDRC88BM"
      [] hw_id = 14 -> "Shd"
      [] hw_id = 2 /\ dsp_version = 54 -> "Nanodigi2x8"
      [] hw_id = 11 /\ dsp_version = 97 -> "C8x12v2"
      [] hw_id = 2 /\ dsp_version = 22 -> "M2x4"
      [] hw_id = 27 /\ dsp_version = 100 -> "Flex"
      [] hw_id = 32 /\ dsp_version = 115 -> "FlexHtx"
      [] OTHER -> "Generic"

probe(info) == by_kind[probe_kind(info)]

(* The sources of a device, numbered from 0 (protocol/src/source.rs). *)
mapping(info) ==
    CASE info.hw_id \in {2, 11} -> <<"Toslink", "Spdif">>
      [] info.hw_id \in {1, 4, 5} -> <<"Spdif", "Toslink", "Aesebu">>
      [] info.hw_id = 10 /\ info.dsp_version \in {100, 101} ->
            <<"Analog", "Toslink", "Usb">>
      [] info.hw_id = 10 /\ info.dsp_version \notin {100, 101} ->
            <<"I2S", "Toslink", "Usb">>
      [] info.hw_id = 14 ->
            <<"Toslink", "Spdif", "Aesebu", "Rca", "Xlr", "Usb", "Lan">>
      [] info.hw_id \in {17, 18} ->
            <<"Toslink", "Spdif", "Aesebu", "Usb", "Lan">>
      [] info.hw_id = 27 ->
            <<"Analog", "Toslink", "Spdif", "Usb", "Bluetooth">>
      [] info.hw_id = 32 -> <<"Analog", "Toslink", "Spdif", "Usb", "Hdmi">>
      [] OTHER -> <<"NotInstalled">>

(* A source the device does not have is its first one. *)
to_id(info, source) ==
    LET all == mapping(info) IN
    IF \E i \in DOMAIN all : all[i] = source
    THEN (CHOOSE i \in DOMAIN all : all[i] = source) - 1
    ELSE 0
from_id(info, id) ==
    IF id + 1 \in DOMAIN mapping(info) THEN mapping(info)[id + 1]
    ELSE "NotInstalled"

(* A table that is generated and that no kind stands for. *)
Unreached == SHD!FLEXDL

Tables == {by_kind[k] : k \in DOMAIN by_kind} \cup {Unreached}
=============================================================================
