------------------------------ MODULE MCSdInit ------------------------------
(***************************************************************************)
(* Instances of SdInit for TLC.  time_count is bounded by 3 instead of     *)
(* 0xFF: the loop only counts.                                             *)
(***************************************************************************)
EXTENDS SdInit

MCFaultSets == SUBSET {"lost", "release", "swap"}
NoFaults == {{}}
NoBoardFaults == {}
AllBoardFaults == {"pin", "mutex", "spi"}
=============================================================================
