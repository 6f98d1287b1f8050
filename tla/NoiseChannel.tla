-------------------------------- MODULE NoiseChannel --------------------------------
(***********************************************************************************)
(* The noise generator of sound channel 4 (core-ws/src/apu.rs): a 15-bit shift     *)
(* register with eight tap positions and the flags that gate and select it.        *)
(***********************************************************************************)
EXTENDS Words

Taps == << 14, 10, 13, 4, 8, 6, 9, 11 >>

Lfsr == 0 .. 32767

Noises == [ counter : Lfsr, tap : 4 .. 14, waveMode : BOOLEAN,
            channelEnable : BOOLEAN, updateEnable : BOOLEAN ]

NewNoise == [ counter |-> 0, tap |-> Taps[1], waveMode |-> FALSE,
              channelEnable |-> FALSE, updateEnable |-> FALSE ]

SetMode(n, mode) == [ n EXCEPT !.tap = Taps[(mode % 8) + 1] ]
ResetLfsr(n)     == [ n EXCEPT !.counter = 0 ]

\* The $8E register: the tap mode, the update enable, then the reset strobe.
WithSoundNoise(n, b) ==
  LET selected == [ SetMode(n, b % 8) EXCEPT !.updateEnable = BitSet(b, 4) ]
  IN  IF BitSet(b, 3) THEN ResetLfsr(selected) ELSE selected

\* The $90 register: the channel enable and the output select.
WithSoundCtrl(n, b) == [ n EXCEPT !.channelEnable = BitSet(b, 3), !.waveMode = ~BitSet(b, 7) ]

\* The register after one step: 1 xor bit 7 xor the tap's bit comes in at the bottom.
Shifted(counter, tap) ==
  (2 * counter + ((1 + (counter \div 2^7) + (counter \div 2^tap)) % 2)) % 2^15

\* Mutation of Ticked: the output select gates the register too.
TickedInNoiseOnly(n) ==
  IF n.channelEnable /\ n.updateEnable /\ ~n.waveMode
  THEN [ n EXCEPT !.counter = Shifted(@, n.tap) ] ELSE n

\* One tick of the sound clock.
Ticked(n) ==
  IF n.channelEnable /\ n.updateEnable
  THEN [ n EXCEPT !.counter = Shifted(@, n.tap) ] ELSE n
=====================================================================================
