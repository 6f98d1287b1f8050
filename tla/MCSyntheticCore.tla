------------------------------ MODULE MCSyntheticCore ------------------------------
(***********************************************************************************)
(* The periods of the source and a clock of 24 ticks: it has the tick where a      *)
(* packet and a frame fall together, 20, ticks with one of them and with neither,  *)
(* and the end of the clock.                                                       *)
(***********************************************************************************)
EXTENDS SyntheticCore

MCTicks == { 0, 4, 9, 10, 20, 24 }
=====================================================================================
