------------------------------ MODULE MCDevice ------------------------------
(* Instances of Device for TLC: the values the configurations give to Device's constants. *)
EXTENDS Device, TLC

AllStates    == {"playing", "paused", "idle", "other"}
JustIdle     == {"idle"}
AllRequests  == {"STREAM", "STOP", "FLUSH", "VOLUME"}
FlushVolume  == {"FLUSH", "VOLUME"}
OneLevel     == {0}
TwoLevels    == {0, 1}
Alike        == Permutations(Streamers)      \* streamers are interchangeable
=============================================================================
