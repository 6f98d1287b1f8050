----------------------------- MODULE MCNoiseGenerator -----------------------------
(***********************************************************************************)
(* The noise generator with every tap mode, chosen with the reset strobe and       *)
(* without it, the update switched off, and the gates of the other register.       *)
(***********************************************************************************)
EXTENDS NoiseGenerator

\* Each mode with the update on, strobed and not, and the update off, likewise.
Modes == { 24 + m : m \in 0 .. 7 } \union { 16 + m : m \in 0 .. 7 } \union { 8, 0 }

\* The channel off and on, in wave and in noise mode.
Ctrls == { 0, 8, 128, 136 }
=====================================================================================
