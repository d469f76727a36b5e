-------------------------- MODULE MCDeviceRequests --------------------------
(* Instances of DeviceRequests for TLC. *)
EXTENDS DeviceRequests

CONSTANTS c1, c2

ShortRange == -3

Steps == [do : {"volume"}, by : {-1, 1}]
Toggle == [do |-> "toggle"]
Config(p, m, n) == [do |-> "config", preset |-> p, mute |-> m, writes |-> n]
FirOf(n) == [do |-> "fir", taps |-> n]

(* c1 loads filters and changes the mute status and the volume, c2         *)
(* switches presets and changes the volume.                                *)
LoaderAndSwitcher ==
    [c \in Clients |->
        IF c = c1
        THEN Steps \cup {FirOf(3), FirOf(4), Toggle, Config(Keep, FALSE, 1)}
        ELSE Steps \cup {Config(1, Keep, 2), Config(2, Keep, 1)}]

OnlyFilters == [c \in Clients |-> {FirOf(1)}]
=============================================================================
