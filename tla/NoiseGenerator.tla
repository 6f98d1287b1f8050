------------------------------- MODULE NoiseGenerator -------------------------------
(***********************************************************************************)
(* The noise generator at work (core-ws/src/apu.rs): the program writes its two    *)
(* registers, a sound clock ticks it. No clock of the machine does so yet: tick is *)
(* the component's interface, and the module is about the component.               *)
(***********************************************************************************)
EXTENDS NoiseChannel

CONSTANTS
  NoiseBytes,   \* What the program writes to $8E.
  CtrlBytes     \* What the program writes to $90.

ASSUME NoiseAssumption == NoiseBytes \subseteq Byte /\ CtrlBytes \subseteq Byte

VARIABLES
  noise,        \* The NoiseChannel.
  retapped      \* History: the tap has changed since the register was last reset.

noiseVars == << noise, retapped >>

NoiseInit == noise = NewNoise /\ retapped = FALSE

\* A mode takes effect on the register as it stands, unless the byte resets that too.
WriteSoundNoise(b) ==
  /\ noise' = WithSoundNoise(noise, b)
  /\ retapped' = (~BitSet(b, 3) /\ (retapped \/ noise'.tap # noise.tap))

WriteSoundCtrl(b) == noise' = WithSoundCtrl(noise, b) /\ UNCHANGED retapped

Tick == noise' = Ticked(noise) /\ UNCHANGED retapped

NoiseNext ==
  \/ \E b \in NoiseBytes : WriteSoundNoise(b)
  \/ \E b \in CtrlBytes : WriteSoundCtrl(b)
  \/ Tick

NoiseSpec == NoiseInit /\ [][NoiseNext]_noiseVars
---------------------------------------------------------------------------------

\* The generator that runs stands still only after its tap was changed under way: as
\* long as the tap is the one the register was last reset for, a tick changes the register
\* while the channel and its update are on, in wave and in noise mode alike (tick in
\* apu.rs, "it only stops when the channel or its noise-update is switched off",
\* docs/COMMUNITY-BUG-FIXES.md:103). A tap changed without the reset strobe can bring the
\* register to all ones, which every tap maps to itself; the next strobe frees it.
NoiseAdvances ==
  ~retapped /\ noise.channelEnable /\ noise.updateEnable
    => Ticked(noise).counter # noise.counter
=====================================================================================
