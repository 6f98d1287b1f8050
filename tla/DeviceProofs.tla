------------------------------- MODULE DeviceProofs --------------------------------
(***********************************************************************************)
(* Theorems about three devices that nothing else in the machine is needed for.    *)
(*                                                                                 *)
(* SerialPort, for every set of bytes and masks: NoStaleSerialIrq is inductive as  *)
(* it stands once types are known, for the only steps that make a serial line      *)
(* pending are the two signals, which the enabled port guards, and the only step   *)
(* that disables the port lowers both lines.                                       *)
(*                                                                                 *)
(* NoiseGenerator, for every program. That the shift register is not all ones as   *)
(* long as its tap is the one it was reset for is not inductive; that its bits are *)
(* not all ones up to the tap, or to bit 7 if that is higher, is.                  *)
(*                                                                                 *)
(* SpriteUnit, for every size of the table and histories of every length: the      *)
(* invariant says of each of the three tables at which position of the history it  *)
(* was current, the live one now, the staged one at the last copy, the displayed   *)
(* one at the last copy before the last frame.                                     *)
(***********************************************************************************)
EXTENDS SerialPort, NoiseGenerator, SpriteUnit, CommonLemmas, TLAPS

\* Each method of the controller leaves a controller (interrupt.rs).
LEMMA ControllerClosed ==
  ASSUME NEW ic \in Controller
  PROVE  /\ \A b \in Byte : SetBase(ic, b) \in Controller
         /\ \A m \in SUBSET Irq : SetEnable(ic, m) \in Controller
         /\ \A m : Acknowledge(ic, m) \in Controller
         /\ \A l \in Irq : Raise(ic, l) \in Controller
         /\ \A l : Lower(ic, l) \in Controller
  BY DEF Controller, SetBase, SetEnable, Acknowledge, Raise, Lower

\* Switching a port off leaves neither serial line pending (Serial::set_enabled).
LEMMA DisablingLowers ==
  ASSUME NEW ic \in Controller
  PROVE  LET off == SetEnabled(ic, TRUE, FALSE)
         IN  /\ off \in Controller
             /\ off.pending = ic.pending \ SerialLines
  <1>1. SerialTx \in LevelLines /\ SerialRx \in LevelLines
    BY DEF LevelLines
  <1>2. QED
    BY <1>1 DEF SetEnabled, Lower, SerialLines, Controller

\* Every register keeps its width (the fields of InterruptController and Serial).
THEOREM TypeCorrect == Spec => []TypeOK
  <1>1. Init => TypeOK
    <2>1. 0 \in Byte /\ {} \in SUBSET Irq
      BY DEF Byte, MaxByte
    <2>2. NewController \in Controller
      BY <2>1 DEF NewController, Controller
    <2>3. QED
      BY <2>2 DEF Init, TypeOK
  <1>2. TypeOK /\ [Next]_vars => TypeOK'
    <2> SUFFICES ASSUME TypeOK, [Next]_vars
                 PROVE  TypeOK'
      OBVIOUS
    <2> USE DEF TypeOK
    <2>1. ASSUME NEW b \in Bytes, WriteBase(b) PROVE TypeOK'
      BY <2>1, BytesAssumption, ControllerClosed DEF WriteBase
    <2>2. ASSUME NEW b \in Bytes, WriteAck(b) PROVE TypeOK'
      BY <2>2, ControllerClosed DEF WriteAck
    <2>3. ASSUME NEW b \in Bytes, WriteSerStatus(b) PROVE TypeOK'
      <3>1. serial' \in BOOLEAN
        BY <2>3 DEF WriteSerStatus, SerEnable
      <3>2. interrupts' \in Controller
        BY <2>3, ControllerClosed DEF WriteSerStatus, SetEnabled
      <3>3. QED
        BY <3>1, <3>2
    <2>4. ASSUME SignalTxReady \/ SignalRxReady PROVE TypeOK'
      BY <2>4, ControllerClosed DEF SignalTxReady, SignalRxReady, Irq, SerialTx, SerialRx
    <2>5. ASSUME NEW m \in EnableMasks, HostSetEnable(m) PROVE TypeOK'
      BY <2>5, EnableMasksAssumption, ControllerClosed DEF HostSetEnable
    <2>6. ASSUME NEW l \in Irq \ SerialLines, SourceRaise(l) \/ SourceLower(l)
          PROVE  TypeOK'
      BY <2>6, ControllerClosed DEF SourceRaise, SourceLower
    <2>7. CASE UNCHANGED vars
      BY <2>7 DEF vars
    <2>8. QED
      BY <2>1, <2>2, <2>3, <2>4, <2>5, <2>6, <2>7 DEF Next
  <1>3. QED
    BY <1>1, <1>2, PTL DEF Spec

\* A disabled port never has a serial interrupt pending, for any program, any masks
\* and any order of signals (Serial::set_enabled and the guards of signal_tx_ready and
\* signal_rx_ready).
THEOREM DisabledPortIsQuiet == Spec => []NoStaleSerialIrq
  <1>1. Init => NoStaleSerialIrq
    BY DEF Init, NoStaleSerialIrq, NewController
  <1>2. TypeOK /\ NoStaleSerialIrq /\ [Next]_vars => NoStaleSerialIrq'
    <2> SUFFICES ASSUME TypeOK, NoStaleSerialIrq, [Next]_vars
                 PROVE  NoStaleSerialIrq'
      OBVIOUS
    <2> USE DEF TypeOK, NoStaleSerialIrq
    <2>1. ASSUME NEW b \in Bytes, WriteBase(b) PROVE NoStaleSerialIrq'
      BY <2>1 DEF WriteBase, SetBase, Controller
    <2>2. ASSUME NEW b \in Bytes, WriteAck(b) PROVE NoStaleSerialIrq'
      BY <2>2 DEF WriteAck, Acknowledge, Controller
    <2>3. ASSUME NEW b \in Bytes, WriteSerStatus(b) PROVE NoStaleSerialIrq'
      <3>1. CASE serial /\ ~SerEnable(b)
        <4>1. interrupts' = SetEnabled(interrupts, TRUE, FALSE)
          BY <2>3, <3>1 DEF WriteSerStatus, SetEnabled
        <4>2. QED
          BY <4>1, DisablingLowers
      <3>2. CASE ~(serial /\ ~SerEnable(b))
        BY <2>3, <3>2 DEF WriteSerStatus, SetEnabled
      <3>3. QED
        BY <3>1, <3>2
    <2>4. ASSUME SignalTxReady \/ SignalRxReady PROVE NoStaleSerialIrq'
      BY <2>4 DEF SignalTxReady, SignalRxReady
    <2>5. ASSUME NEW m \in EnableMasks, HostSetEnable(m) PROVE NoStaleSerialIrq'
      BY <2>5 DEF HostSetEnable, SetEnable, Controller
    <2>6. ASSUME NEW l \in Irq \ SerialLines, SourceRaise(l) PROVE NoStaleSerialIrq'
      BY <2>6 DEF SourceRaise, Raise, Controller
    <2>7. ASSUME NEW l \in Irq \ SerialLines, SourceLower(l) PROVE NoStaleSerialIrq'
      BY <2>7 DEF SourceLower, Lower, Controller
    <2>8. CASE UNCHANGED vars
      BY <2>8 DEF vars
    <2>9. QED
      BY <2>1, <2>2, <2>3, <2>4, <2>5, <2>6, <2>7, <2>8 DEF Next
  <1>3. QED
    BY <1>1, <1>2, TypeCorrect, PTL DEF Spec

\* What each step leaves of the pending lines: nothing but the step that is meant to
\* clear a line takes it away (acknowledge, lower and set_enabled).
LEMMA StepKeepsPending ==
  ASSUME TypeOK, Next,
         NEW l \in interrupts.pending, l \notin interrupts'.pending
  PROVE  \/ /\ l \in EdgeLines
            /\ \E b \in Bytes : l \in LinesOf(b) /\ WriteAck(b)
         \/ l \in SerialLines /\ serial /\ ~serial'
         \/ l \in LevelLines \ SerialLines /\ SourceLower(l)
  <1> USE DEF TypeOK
  <1>1. ASSUME NEW b \in Bytes, WriteBase(b) PROVE FALSE
    BY <1>1 DEF WriteBase, SetBase, Controller
  <1>2. ASSUME NEW b \in Bytes, WriteAck(b)
        PROVE  l \in LinesOf(b) /\ l \in EdgeLines
    BY <1>2 DEF WriteAck, Acknowledge, Controller
  <1>3. ASSUME NEW b \in Bytes, WriteSerStatus(b)
        PROVE  l \in SerialLines /\ serial /\ ~serial'
    <2>1. CASE serial /\ ~SerEnable(b)
      <3>1. interrupts' = SetEnabled(interrupts, TRUE, FALSE) /\ ~serial'
        BY <1>3, <2>1 DEF WriteSerStatus, SetEnabled
      <3>2. QED
        BY <3>1, <2>1, DisablingLowers
    <2>2. CASE ~(serial /\ ~SerEnable(b))
      BY <1>3, <2>2 DEF WriteSerStatus, SetEnabled
    <2>3. QED
      BY <2>1, <2>2
  <1>4. ASSUME SignalTxReady \/ SignalRxReady PROVE FALSE
    BY <1>4 DEF SignalTxReady, SignalRxReady, Raise, Controller
  <1>5. ASSUME NEW m \in EnableMasks, HostSetEnable(m) PROVE FALSE
    BY <1>5 DEF HostSetEnable, SetEnable, Controller
  <1>6. ASSUME NEW k \in Irq \ SerialLines, SourceRaise(k) PROVE FALSE
    BY <1>6 DEF SourceRaise, Raise, Controller
  <1>7. ASSUME NEW k \in Irq \ SerialLines, SourceLower(k)
        PROVE  l = k /\ l \in LevelLines \ SerialLines
    BY <1>7 DEF SourceLower, Lower, Controller
  <1>8. QED
    BY <1>1, <1>2, <1>3, <1>4, <1>5, <1>6, <1>7 DEF Next

\* What each step adds to the pending lines: a line is latched only by its own source
\* (raise, signal_tx_ready, signal_rx_ready).
LEMMA StepAddsPending ==
  ASSUME TypeOK, Next,
         NEW l \in interrupts'.pending, l \notin interrupts.pending
  PROVE  \/ l = SerialTx /\ serial /\ SignalTxReady
         \/ l = SerialRx /\ serial /\ SignalRxReady
         \/ l \notin SerialLines /\ SourceRaise(l)
  <1> USE DEF TypeOK
  <1>1. ASSUME NEW b \in Bytes, WriteBase(b) \/ WriteAck(b) PROVE FALSE
    BY <1>1 DEF WriteBase, WriteAck, SetBase, Acknowledge, Controller
  <1>2. ASSUME NEW b \in Bytes, WriteSerStatus(b) PROVE FALSE
    BY <1>2 DEF WriteSerStatus, SetEnabled, Lower, Controller
  <1>3. /\ SignalTxReady => l = SerialTx /\ serial
        /\ SignalRxReady => l = SerialRx /\ serial
    BY DEF SignalTxReady, SignalRxReady, Raise, Controller
  <1>4. ASSUME NEW m \in EnableMasks, HostSetEnable(m) PROVE FALSE
    BY <1>4 DEF HostSetEnable, SetEnable, Controller
  <1>5. ASSUME NEW k \in Irq \ SerialLines, SourceRaise(k)
        PROVE  l = k
    BY <1>5 DEF SourceRaise, Raise, Controller
  <1>6. ASSUME NEW k \in Irq \ SerialLines, SourceLower(k) PROVE FALSE
    BY <1>6 DEF SourceLower, Lower, Controller
  <1>7. QED
    BY <1>1, <1>2, <1>3, <1>4, <1>5, <1>6 DEF Next

LEMMA LineKinds == EdgeLines \intersect LevelLines = {} /\ SerialLines \subseteq LevelLines
  BY DEF EdgeLines, LevelLines, SerialLines, SerialTx, Keypad, Cartridge, SerialRx, LineCompare,
         VblankTimer, Vblank, HblankTimer

\* An edge line is latched only by its source, and cleared by an acknowledge that names
\* it and by nothing else, for every program (raise, acknowledge, lower).
THEOREM EdgeLinesHeld == Spec => EdgeHeldUntilAcknowledged
  <1>1. TypeOK /\ [Next]_vars
          => [ \A l \in EdgeLines :
                 /\ l \in interrupts'.pending \ interrupts.pending
                      => SourceRaise(l)
                 /\ l \in interrupts.pending \ interrupts'.pending
                      => \E b \in Bytes : l \in LinesOf(b) /\ WriteAck(b) ]_vars
    <2> SUFFICES ASSUME TypeOK, Next, NEW l \in EdgeLines
                 PROVE  /\ l \in interrupts'.pending \ interrupts.pending
                             => SourceRaise(l)
                        /\ l \in interrupts.pending \ interrupts'.pending
                             => \E b \in Bytes : l \in LinesOf(b) /\ WriteAck(b)
      BY DEF vars
    <2>1. l \notin LevelLines /\ l \notin SerialLines /\ l # SerialTx /\ l # SerialRx
      BY LineKinds DEF SerialLines
    <2>2. l \in interrupts'.pending \ interrupts.pending => SourceRaise(l)
      BY <2>1, StepAddsPending
    <2>3. l \in interrupts.pending \ interrupts'.pending
            => \E b \in Bytes : l \in LinesOf(b) /\ WriteAck(b)
      BY <2>1, StepKeepsPending
    <2> QED
      BY <2>2, <2>3
  <1>2. QED
    BY <1>1, TypeCorrect, PTL DEF Spec, EdgeHeldUntilAcknowledged

\* A level line is latched by its own source alone, a serial one through an enabled port,
\* and cleared by that source alone, never by an acknowledge, for every program
\* (acknowledge masks with EDGE_MASK).
THEOREM LevelLinesHeld == Spec => LevelHeldUntilSourceClears
  <1>1. TypeOK /\ [Next]_vars
          => [ \A l \in LevelLines :
                 /\ l \in interrupts'.pending \ interrupts.pending
                      => \/ l = SerialTx /\ serial /\ SignalTxReady
                         \/ l = SerialRx /\ serial /\ SignalRxReady
                         \/ l \notin SerialLines /\ SourceRaise(l)
                 /\ l \in interrupts.pending \ interrupts'.pending
                      => IF l \in SerialLines THEN serial /\ ~serial'
                                              ELSE SourceLower(l) ]_vars
    BY LineKinds, StepKeepsPending, StepAddsPending
  <1>2. QED
    BY <1>1, TypeCorrect, PTL DEF Spec, LevelHeldUntilSourceClears

---------------------------------------------------------------------------------
(* The noise generator.                                                            *)

TapBits == { 14, 10, 13, 4, 8, 6, 9, 11 }

\* The bits that feed the register, the tap's and bit 7, and those below them.
Fed(tap) == IF tap < 7 THEN 8 ELSE tap + 1

\* Bits 0 to n - 1 of the register are ones.
Ones(counter, n) == (counter + 1) % 2^n = 0

LEMMA FedPowers ==
  ASSUME NEW t \in TapBits
  PROVE  /\ 2^t \in {16, 64, 256, 512, 1024, 2048, 8192, 16384}
         /\ t < 7 => 2^t \in {16, 64} /\ 2^Fed(t) = 2 * 128
         /\ ~ (t < 7) => 2^t \in {256, 512, 1024, 2048, 8192, 16384} /\ 2^Fed(t) = 2 * 2^t
<1> DEFINE P(n) == 2^n
<1>1. /\ P(4) = 16 /\ P(6) = 64 /\ P(8) = 256 /\ P(9) = 512 /\ P(10) = 1024 /\ P(11) = 2048
      /\ P(12) = 4096 /\ P(13) = 8192 /\ P(14) = 16384 /\ P(15) = 32768
  OBVIOUS
<1> HIDE DEF P
<1>2. /\ P(t) \in {16, 64, 256, 512, 1024, 2048, 8192, 16384}
      /\ t < 7 => P(t) \in {16, 64} /\ P(Fed(t)) = 2 * 128
      /\ ~ (t < 7) => P(t) \in {256, 512, 1024, 2048, 8192, 16384} /\ P(Fed(t)) = 2 * P(t)
  BY <1>1 DEF TapBits, Fed
<1> QED
  BY <1>2 DEF P

\* After c is shifted up and f comes in, the bits below twice p are ones.
RunUp(c, f, p) == (((2 * c + f) % 32768) + 1) % (2 * p) = 0

\* A run of ones was shifted up from one that is shorter by the one that came in.
LEMMA RunShifted ==
  ASSUME NEW c \in Nat, c < 32768, NEW f \in {0, 1},
         NEW p \in {128, 256, 512, 1024, 2048, 8192, 16384},
         RunUp(c, f, p)
  PROVE  f = 1 /\ (c + 1) % p = 0
<1>1. PICK q \in Int, n \in Int : 2 * c + f = 32768 * q + n /\ n = (2 * c + f) % 32768
  OBVIOUS
<1>2. PICK l \in Int : 32768 = (2 * p) * l
  <2>1. 16384 \div p \in Int /\ 32768 = (2 * p) * (16384 \div p)
    OBVIOUS
  <2> QED
    BY <2>1
<1> QED
  BY <1>1, <1>2 DEF RunUp

\* What comes in above a run of ones is a one only if the run goes on.
LongRunGoesOn(c, p) ==
  ((1 + (c \div 128) + (c \div p)) % 2) = 1 /\ (c + 1) % p = 0 => (c + 1) % (2 * p) = 0

ShortRunGoesOn(c, p) ==
  ((1 + (c \div 128) + (c \div p)) % 2) = 1 /\ (c + 1) % 128 = 0 => (c + 1) % 256 = 0

LEMMA RunGoesOn ==
  ASSUME NEW c \in Nat, c < 32768
  PROVE  /\ \A p \in {256, 512, 1024, 2048, 8192, 16384} : LongRunGoesOn(c, p)
         /\ \A p \in {16, 64} : ShortRunGoesOn(c, p)
<1>1. LongRunGoesOn(c, 256)
  BY DEF LongRunGoesOn
<1>2. LongRunGoesOn(c, 512)
  BY DEF LongRunGoesOn
<1>3. LongRunGoesOn(c, 1024)
  BY DEF LongRunGoesOn
<1>4. LongRunGoesOn(c, 2048)
  BY DEF LongRunGoesOn
<1>5. LongRunGoesOn(c, 8192)
  BY DEF LongRunGoesOn
<1>6. LongRunGoesOn(c, 16384)
  BY DEF LongRunGoesOn
<1>7. ShortRunGoesOn(c, 16)
  BY DEF ShortRunGoesOn
<1>8. ShortRunGoesOn(c, 64)
  BY DEF ShortRunGoesOn
<1> QED
  BY <1>1, <1>2, <1>3, <1>4, <1>5, <1>6, <1>7, <1>8

\* So the run of ones up to the bits that feed the register is never completed.
LEMMA RunsDoNotGrow ==
  ASSUME NEW c \in Nat, c < 32768, NEW t \in TapBits, Ones(Shifted(c, t), Fed(t))
  PROVE  Ones(c, Fed(t))
<1>1. 2^7 = 128 /\ 2^15 = 32768
  OBVIOUS
<1>2. PICK tap \in {16, 64, 256, 512, 1024, 2048, 8192, 16384} : tap = 2^t
  BY FedPowers
<1> DEFINE high == IF t < 7 THEN 128 ELSE tap
           f    == (1 + (c \div 128) + (c \div tap)) % 2
<1>3. 2^Fed(t) = 2 * high /\ high \in {128, 256, 512, 1024, 2048, 8192, 16384}
  BY <1>2, FedPowers
<1>4. Shifted(c, t) = (2 * c + f) % 32768
  BY <1>1, <1>2 DEF Shifted
<1>5. f \in {0, 1}
  <2>1. 1 + (c \div 128) + (c \div tap) \in Int
    BY <1>2
  <2> QED
    BY <2>1
<1>6. RunUp(c, f, high)
  BY <1>3, <1>4 DEF Ones, RunUp
<1>7. f = 1 /\ (c + 1) % high = 0
  <2>1. high \in {128, 256, 512, 1024, 2048, 8192, 16384}
    BY <1>3
  <2> HIDE DEF f, high
  <2> QED
    BY <2>1, <1>5, <1>6, RunShifted
<1>8. (c + 1) % (2 * high) = 0
  <2>1. CASE t < 7
    BY <1>2, <1>7, <2>1, RunGoesOn, FedPowers DEF ShortRunGoesOn
  <2>2. CASE ~ (t < 7)
    BY <1>2, <1>7, <2>2, RunGoesOn, FedPowers DEF LongRunGoesOn
  <2> QED
    BY <2>1, <2>2
<1> QED
  BY <1>3, <1>8 DEF Ones

\* Only all ones are mapped to themselves.
LEMMA AllOnesStand ==
  ASSUME NEW c \in Nat, c < 32768, NEW t \in TapBits, Shifted(c, t) = c
  PROVE  Ones(c, Fed(t))
<1>1. 2^7 = 128 /\ 2^15 = 32768
  OBVIOUS
<1>2. PICK tap \in {16, 64, 256, 512, 1024, 2048, 8192, 16384} : tap = 2^t
  BY FedPowers
<1> DEFINE f == (1 + (c \div 128) + (c \div tap)) % 2
<1>3. Shifted(c, t) = (2 * c + f) % 32768
  BY <1>1, <1>2 DEF Shifted
<1>4. f \in {0, 1} /\ (c = 0 => f = 1)
  <2>1. 1 + (c \div 128) + (c \div tap) \in Int
    BY <1>2
  <2> QED
    BY <1>2, <2>1
<1>5. c = 32767
  <2> HIDE DEF f
  <2>1. (2 * c + f) % 32768 = c
    BY <1>3
  <2> QED
    BY <1>4, <2>1
<1>6. 32768 % 2^Fed(t) = 0
  BY FedPowers
<1> QED
  BY <1>5, <1>6 DEF Ones

\* The invariant.
NoiseTyped == noise \in Noises /\ noise.tap \in TapBits /\ retapped \in BOOLEAN

NoAllOnes == retapped \/ ~ Ones(noise.counter, Fed(noise.tap))

\* The register is one of 32768 numbers, before and after it is shifted.
Reduced(n) == n % 32768

LEMMA ReducedTyped == \A n \in Int : Reduced(n) \in Lfsr
  BY DEF Reduced, Lfsr

LEMMA ShiftedTyped ==
  /\ \A c \in Lfsr : c \in Nat /\ c < 32768
  /\ \A c \in Lfsr, t \in TapBits : Shifted(c, t) \in Lfsr
<1>1. \A c \in Lfsr : c \in Nat /\ c < 32768
  BY DEF Lfsr
<1>2. ASSUME NEW c \in Lfsr, NEW t \in TapBits
      PROVE  Shifted(c, t) \in Lfsr
  <2>1. PICK tap \in {16, 64, 256, 512, 1024, 2048, 8192, 16384} : tap = 2^t
    BY FedPowers
  <2>2. 2^7 = 128 /\ 2^15 = 32768
    OBVIOUS
  <2> DEFINE n == 2 * c + ((1 + (c \div 128) + (c \div tap)) % 2)
  <2>3. n \in Int
    BY <1>1, <2>1
  <2>4. Shifted(c, t) = Reduced(n)
    BY <2>1, <2>2 DEF Shifted, Reduced
  <2> HIDE DEF n
  <2> QED
    BY <2>3, <2>4, ReducedTyped
<1> QED
  BY <1>1, <1>2

\* What is chosen is a tap, and the strobe leaves no ones.
LEMMA ResetHasNoOnes ==
  ASSUME NEW t \in TapBits
  PROVE  ~ Ones(0, Fed(t))
<1>1. 1 % 2^Fed(t) # 0
  BY FedPowers
<1> QED
  BY <1>1 DEF Ones

\* The generator that runs stands still only after its tap was changed under way, for
\* every program (tick and set_mode in apu.rs, the $8E register in memory.rs).
THEOREM NoiseNeverStands == NoiseSpec => []NoiseAdvances
<1>1. NoiseInit => NoiseTyped /\ NoAllOnes
  <2> SUFFICES ASSUME NoiseInit PROVE NoiseTyped /\ NoAllOnes
    OBVIOUS
  <2>1. noise.counter = 0 /\ noise.tap = 14 /\ noise \in Noises /\ retapped = FALSE
    BY DEF NoiseInit, NewNoise, Taps, Noises, Lfsr
  <2>2. 14 \in TapBits
    BY DEF TapBits
  <2> QED
    BY <2>1, <2>2, ResetHasNoOnes DEF NoiseTyped, NoAllOnes
<1>2. NoiseTyped /\ NoAllOnes /\ [NoiseNext]_noiseVars => NoiseTyped' /\ NoAllOnes'
  <2> SUFFICES ASSUME NoiseTyped, NoAllOnes, [NoiseNext]_noiseVars
               PROVE  NoiseTyped' /\ NoAllOnes'
    OBVIOUS
  <2> USE DEF NoiseTyped
  <2>1. ASSUME NEW b \in NoiseBytes, WriteSoundNoise(b) PROVE NoiseTyped' /\ NoAllOnes'
    <3> DEFINE t == Taps[((b % 8) % 8) + 1]
               strobe == BitSet(b, 3)
               u == BitSet(b, 4)
    <3>1. b \in Nat /\ strobe \in BOOLEAN /\ u \in BOOLEAN
      BY NoiseAssumption DEF BitSet, Byte
    <3>2. t \in TapBits /\ t \in 4 .. 14
      <4>1. ((b % 8) % 8) + 1 \in 1 .. 8
        BY <3>1
      <4> QED
        BY <4>1 DEF Taps, TapBits
    <3>3. /\ noise' = LET n == [ [ noise EXCEPT !.tap = t ] EXCEPT !.updateEnable = u ]
                      IN  IF strobe THEN [ n EXCEPT !.counter = 0 ] ELSE n
          /\ retapped' = (~strobe /\ (retapped \/ noise'.tap # noise.tap))
      BY <2>1 DEF WriteSoundNoise, WithSoundNoise, SetMode, ResetLfsr
    <3> HIDE DEF t, strobe, u
    <3>4. /\ noise' \in Noises /\ noise'.tap = t
          /\ noise'.counter = IF strobe THEN 0 ELSE noise.counter
      <4> DEFINE x == [ noise EXCEPT !.tap = t ]
                 y == [ x EXCEPT !.updateEnable = u ]
                 z == [ y EXCEPT !.counter = 0 ]
      <4>1. x \in Noises /\ x.tap = t /\ x.counter = noise.counter
        BY <3>2 DEF Noises
      <4> HIDE DEF x
      <4>2. y \in Noises /\ y.tap = t /\ y.counter = noise.counter
        BY <3>1, <4>1 DEF Noises
      <4> HIDE DEF y
      <4>3. z \in Noises /\ z.tap = t /\ z.counter = 0
        <5>1. 0 \in Lfsr
          BY DEF Lfsr
        <5> QED
          BY <4>2, <5>1 DEF Noises
      <4>4. noise' = IF strobe THEN z ELSE y
        BY <3>3 DEF x, y
      <4> HIDE DEF z
      <4> QED
        BY <3>1, <4>2, <4>3, <4>4
    <3>5. retapped' \in BOOLEAN
      BY <3>3
    <3>6. NoAllOnes'
      <4>1. CASE strobe
        BY <3>2, <3>4, <4>1, ResetHasNoOnes DEF NoAllOnes
      <4>2. CASE ~strobe
        BY <3>3, <3>4, <4>2 DEF NoAllOnes
      <4> QED
        BY <4>1, <4>2
    <3> QED
      BY <3>2, <3>4, <3>5, <3>6
  <2>2. ASSUME NEW b \in CtrlBytes, WriteSoundCtrl(b) PROVE NoiseTyped' /\ NoAllOnes'
    <3>1. /\ noise' \in Noises /\ noise'.tap = noise.tap /\ noise'.counter = noise.counter
          /\ retapped' = retapped
      BY <2>2 DEF WriteSoundCtrl, WithSoundCtrl, Noises, BitSet
    <3> QED
      BY <3>1 DEF NoAllOnes
  <2>3. CASE Tick
    <3>1. CASE noise' = noise
      BY <2>3, <3>1 DEF Tick, NoAllOnes
    <3>2. CASE noise' # noise
      <4> DEFINE n == Shifted(noise.counter, noise.tap)
      <4>1. noise' = [ noise EXCEPT !.counter = n ] /\ retapped' = retapped
        BY <2>3, <3>2 DEF Tick, Ticked
      <4>2. n \in Lfsr /\ noise.counter \in Nat /\ noise.counter < 32768
        BY ShiftedTyped DEF Noises
      <4>3. retapped \/ ~ Ones(n, Fed(noise.tap))
        BY <4>2, RunsDoNotGrow DEF NoAllOnes
      <4> HIDE DEF n
      <4>4. noise' \in Noises /\ noise'.tap = noise.tap /\ noise'.counter = n
        BY <4>1, <4>2 DEF Noises
      <4> QED
        BY <4>1, <4>3, <4>4 DEF NoAllOnes
    <3> QED
      BY <3>1, <3>2
  <2>4. CASE UNCHANGED noiseVars
    BY <2>4 DEF noiseVars, NoAllOnes
  <2> QED
    BY <2>1, <2>2, <2>3, <2>4 DEF NoiseNext
<1>3. NoiseTyped /\ NoAllOnes => NoiseAdvances
  <2> SUFFICES ASSUME NoiseTyped, NoAllOnes, ~retapped,
                      noise.channelEnable, noise.updateEnable,
                      Ticked(noise).counter = noise.counter
               PROVE  FALSE
    BY DEF NoiseAdvances
  <2>1. Shifted(noise.counter, noise.tap) = noise.counter
    BY DEF Ticked, NoiseTyped, Noises
  <2>2. noise.counter \in Nat /\ noise.counter < 32768 /\ noise.tap \in TapBits
    BY ShiftedTyped DEF NoiseTyped, Noises
  <2> QED
    BY <2>1, <2>2, AllOnesStand DEF NoAllOnes
<1> QED
  BY <1>1, <1>2, <1>3, PTL DEF NoiseSpec

---------------------------------------------------------------------------------
(* The sprite tables.                                                               *)

Calls == [ call : {"write"}, index : Nat, value : Values ] \union Copies \union Frames

Table == [ 0 .. OamBytes - 1 -> Values ]

\* The tables hold a byte of every index.
TablesTyped ==
  /\ oam \in Table /\ staged \in Table /\ displayed \in Table
  /\ history \in Seq(Calls)

\* The position of the last copy, and the one behind the end of the history.
LatestCopy == LastIn(history, Copies)
Now        == Len(history) + 1

TableIsFrom(table, list, n) == \A k \in 0 .. OamBytes - 1 : table[k] = HeldAt(list, n, k)

Current ==
  /\ TableIsFrom(oam, history, Now)
  /\ TableIsFrom(staged, history, LatestCopy)
  /\ TableIsFrom(displayed, history, ShownCopy)

LEMMA PositionsTyped ==
  ASSUME TablesTyped
  PROVE  /\ Len(history) \in Nat /\ Now \in Nat /\ Now = Len(history) + 1
         /\ LatestCopy \in 0 .. Len(history)
         /\ LatestFrame \in 0 .. Len(history)
         /\ ShownCopy \in 0 .. Len(history)
<1>1. history \in Seq(Calls) /\ Len(history) \in Nat
  BY DEF TablesTyped
<1>2. LatestCopy \in 0 .. Len(history) /\ LatestFrame \in 0 .. Len(history)
  BY <1>1, LastInRange DEF LatestCopy, LatestFrame
<1>3. LatestFrame \in Nat
  BY <1>2
<1>4. ShownCopy = 0 \/ ShownCopy \in 1 .. LatestFrame - 1
  BY <1>1, <1>3, LastBeforeIs DEF ShownCopy
<1> QED
  BY <1>1, <1>2, <1>4 DEF Now

\* What was held at a position of the past stays what was held there.
LEMMA PastKept ==
  ASSUME NEW list \in Seq(Calls), NEW c \in Calls, NEW n \in 0 .. Len(list) + 1, NEW table,
         TableIsFrom(table, list, n)
  PROVE  TableIsFrom(table, Append(list, c), n)
<1> DEFINE new == Append(list, c)
<1>1. Len(list) \in Nat /\ n \in Nat /\ n <= Len(list) + 1
  OBVIOUS
<1>2. \A j \in 1 .. n - 1 : new[j] = list[j]
  BY <1>1
<1>3. ASSUME NEW k \in 0 .. OamBytes - 1
      PROVE  HeldAt(new, n, k) = HeldAt(list, n, k)
  <2> DEFINE before == LastBefore(list, WritesTo(k), n)
  <2>1. LastBefore(new, WritesTo(k), n) = before
    BY <1>1, LastBeforeKept
  <2>2. before = 0 \/ before \in 1 .. n - 1
    BY <1>1, LastBeforeIs
  <2> HIDE DEF before, new
  <2>3. HeldAt(list, n, k) = IF before = 0 THEN 0 ELSE list[before].value
    BY DEF HeldAt, before
  <2>4. HeldAt(new, n, k) = IF before = 0 THEN 0 ELSE new[before].value
    BY <2>1 DEF HeldAt
  <2> QED
    BY <1>2, <2>2, <2>3, <2>4
<1> QED
  BY <1>3 DEF TableIsFrom

\* A call leaves the position of the last copy and of the copy on display where they
\* were, unless it is a copy, or a frame.
LEMMA PositionsKept ==
  ASSUME TablesTyped, NEW c \in Calls, history' = Append(history, c)
  PROVE  /\ LatestCopy'  = IF c \in Copies THEN Now ELSE LatestCopy
         /\ LatestFrame' = IF c \in Frames THEN Now ELSE LatestFrame
         /\ ShownCopy'   = IF c \in Frames THEN LatestCopy ELSE ShownCopy
         /\ Now' = Now + 1
<1>1. history \in Seq(Calls) /\ Len(history) \in Nat
  BY DEF TablesTyped
<1>2. /\ LatestCopy' = LastIn(Append(history, c), Copies)
      /\ LatestFrame' = LastIn(Append(history, c), Frames)
      /\ ShownCopy' = LastBefore(Append(history, c), Copies, LatestFrame')
  BY DEF LatestCopy, LatestFrame, ShownCopy
<1>3. /\ LatestCopy'  = IF c \in Copies THEN Now ELSE LatestCopy
      /\ LatestFrame' = IF c \in Frames THEN Now ELSE LatestFrame
  BY <1>1, <1>2, LastInAppended DEF Now, LatestCopy, LatestFrame
<1>4. LatestFrame' \in Nat /\ LatestFrame' <= Len(history) + 1
  BY <1>3, PositionsTyped
<1>5. ShownCopy' = LastBefore(history, Copies, LatestFrame')
  <2> DEFINE n == LatestFrame'
  <2>1. n \in Nat /\ n <= Len(history) + 1 /\ ShownCopy' = LastBefore(Append(history, c), Copies, n)
    BY <1>2, <1>4
  <2> HIDE DEF n
  <2>2. ShownCopy' = LastBefore(history, Copies, n)
    BY <1>1, <2>1, LastBeforeKept
  <2> QED
    BY <2>2 DEF n
<1>6. Now' = Now + 1
  BY <1>1 DEF Now
<1>7. LatestCopy = LastBefore(history, Copies, Now)
  BY DEF LatestCopy, LastIn, Now
<1> QED
  BY <1>3, <1>5, <1>6, <1>7 DEF ShownCopy

\* The byte of a write is what its index holds from then on; other calls, and writes to
\* other indices, leave what an index holds.
LEMMA HeldNow ==
  ASSUME NEW list \in Seq(Calls), NEW c \in Calls, NEW k \in Nat
  PROVE  HeldAt(Append(list, c), Len(list) + 2, k) =
           IF c \in WritesTo(k) THEN c.value ELSE HeldAt(list, Len(list) + 1, k)
<1> DEFINE new == Append(list, c)
           last == LastIn(list, WritesTo(k))
<1>1. /\ Len(new) = Len(list) + 1 /\ Len(list) \in Nat /\ Len(new) + 1 = Len(list) + 2
      /\ new[Len(list) + 1] = c /\ Len(list) + 1 # 0
      /\ \A j \in 1 .. Len(list) : new[j] = list[j]
  OBVIOUS
<1>2. LastIn(new, WritesTo(k)) = IF c \in WritesTo(k) THEN Len(list) + 1 ELSE last
  BY LastInAppended
<1>3. last \in 0 .. Len(list)
  BY LastInRange
<1> HIDE DEF new, last
<1>4. HeldAt(list, Len(list) + 1, k) = IF last = 0 THEN 0 ELSE list[last].value
  BY DEF HeldAt, LastIn, last
<1>5. LastBefore(new, WritesTo(k), Len(list) + 2) = IF c \in WritesTo(k) THEN Len(list) + 1 ELSE last
  BY <1>1, <1>2 DEF LastIn
<1>6. CASE c \in WritesTo(k)
  BY <1>1, <1>5, <1>6 DEF HeldAt, new
<1>7. CASE c \notin WritesTo(k)
  <2>1. last # 0 => new[last] = list[last]
    BY <1>1, <1>3
  <2>2. HeldAt(new, Len(list) + 2, k) = IF last = 0 THEN 0 ELSE new[last].value
    BY <1>5, <1>7 DEF HeldAt
  <2> QED
    BY <1>4, <1>7, <2>1, <2>2 DEF new
<1> QED
  BY <1>6, <1>7

\* The three kinds of call are different.
LEMMA CallKinds ==
  /\ [ call |-> "copy" ] \in Calls /\ [ call |-> "frame" ] \in Calls
  /\ \A k \in Nat, v \in Values :
       /\ [ call |-> "write", index |-> k, value |-> v ] \in Calls
       /\ [ call |-> "write", index |-> k, value |-> v ] \notin Copies \union Frames
       /\ \A j \in Nat : [ call |-> "write", index |-> k, value |-> v ] \in WritesTo(j) <=> j = k
  /\ [ call |-> "copy" ] \in Copies \ Frames
  /\ [ call |-> "frame" ] \in Frames \ Copies
  /\ \A k \in Nat : [ call |-> "copy" ] \notin WritesTo(k) /\ [ call |-> "frame" ] \notin WritesTo(k)
<1>1. \A c \in Copies \union Frames : c.call # "write"
  BY DEF Copies, Frames
<1>2. \A k : \A c \in WritesTo(k) : c.call = "write" /\ c.index = k
  BY DEF WritesTo
<1>3. [ call |-> "copy" ] # [ call |-> "frame" ]
  <2>1. [ call |-> "copy" ].call # [ call |-> "frame" ].call
    OBVIOUS
  <2> QED
    BY <2>1
<1>4. ASSUME NEW k \in Nat, NEW v \in Values
      PROVE  /\ [ call |-> "write", index |-> k, value |-> v ] \in Calls
             /\ [ call |-> "write", index |-> k, value |-> v ] \notin Copies \union Frames
             /\ \A j \in Nat : [ call |-> "write", index |-> k, value |-> v ] \in WritesTo(j) <=> j = k
  <2> DEFINE c == [ call |-> "write", index |-> k, value |-> v ]
  <2>1. c.call = "write" /\ c.index = k
    OBVIOUS
  <2>2. c \in Calls /\ c \in WritesTo(k)
    BY DEF Calls, WritesTo
  <2> HIDE DEF c
  <2>3. c \notin Copies \union Frames /\ \A j \in Nat : c \in WritesTo(j) <=> j = k
    BY <1>1, <1>2, <2>1, <2>2
  <2> QED
    BY <2>2, <2>3 DEF c
<1>5. [ call |-> "copy" ] \in Copies /\ [ call |-> "frame" ] \in Frames
  BY DEF Copies, Frames
<1>6. [ call |-> "copy" ] \notin Frames /\ [ call |-> "frame" ] \notin Copies
  BY <1>3 DEF Copies, Frames
<1>7. \A k \in Nat : [ call |-> "copy" ] \notin WritesTo(k) /\ [ call |-> "frame" ] \notin WritesTo(k)
  BY <1>1, <1>2, <1>5
<1> QED
  BY <1>4, <1>5, <1>6, <1>7 DEF Calls

LEMMA TypeStep ==
  ASSUME TablesTyped, [SpriteNext]_spriteVars
  PROVE  TablesTyped'
<1> USE DEF TablesTyped
<1>1. ASSUME NEW k \in Indices, NEW v \in Values, WriteOam(k, v)
      PROVE  TablesTyped'
  <2>1. k \in Nat /\ [ call |-> "write", index |-> k, value |-> v ] \in Calls
    BY OamAssumption, CallKinds
  <2>2. history' \in Seq(Calls)
    BY <1>1, <2>1 DEF WriteOam, Recorded
  <2>3. oam' \in Table
    BY <1>1, <2>1, OamAssumption DEF WriteOam, Table
  <2> QED
    BY <1>1, <2>2, <2>3 DEF WriteOam
<1>2. CASE SnapshotForNextFrame
  <2>1. history' \in Seq(Calls)
    BY <1>2, CallKinds DEF SnapshotForNextFrame, Recorded
  <2> QED
    BY <1>2, <2>1 DEF SnapshotForNextFrame
<1>3. CASE BeginFrame
  <2>1. history' \in Seq(Calls)
    BY <1>3, CallKinds DEF BeginFrame, Recorded
  <2> QED
    BY <1>3, <2>1 DEF BeginFrame, BufferAtFrame
<1>4. CASE UNCHANGED spriteVars
  BY <1>4 DEF spriteVars
<1> QED
  BY <1>1, <1>2, <1>3, <1>4 DEF SpriteNext, ReadOam

\* A write brings the live table up to date and leaves the two copies as old as they
\* are; a copy makes the staged table current, a frame shows what was staged.
LEMMA CurrentStep ==
  ASSUME TablesTyped, Current, [SpriteNext]_spriteVars
  PROVE  Current'
<1>1. /\ history \in Seq(Calls) /\ Len(history) \in Nat /\ Now = Len(history) + 1
      /\ LatestCopy \in 0 .. Len(history) + 1 /\ ShownCopy \in 0 .. Len(history) + 1
      /\ Now \in 0 .. Len(history) + 1 /\ Now + 1 = Len(history) + 2
  BY PositionsTyped DEF TablesTyped
<1>2. \A k \in 0 .. OamBytes - 1 : k \in Nat
  BY OamAssumption
<1>3. ASSUME NEW c \in Calls, history' = Append(history, c)
      PROVE  /\ TableIsFrom(oam, history', Now)
             /\ TableIsFrom(staged, history', LatestCopy)
             /\ TableIsFrom(displayed, history', ShownCopy)
             /\ c \notin UNION { WritesTo(k) : k \in Nat } => TableIsFrom(oam, history', Now + 1)
  <2>1. /\ TableIsFrom(oam, history', Now)
        /\ TableIsFrom(staged, history', LatestCopy)
        /\ TableIsFrom(displayed, history', ShownCopy)
    BY <1>1, <1>3, PastKept DEF Current
  <2>2. ASSUME c \notin UNION { WritesTo(k) : k \in Nat }
        PROVE  TableIsFrom(oam, history', Now + 1)
    <3>1. ASSUME NEW k \in 0 .. OamBytes - 1
          PROVE  HeldAt(history', Now + 1, k) = HeldAt(history, Now, k)
      <4>1. c \notin WritesTo(k) /\ k \in Nat
        BY <1>2, <2>2
      <4> QED
        BY <1>1, <1>3, <4>1, HeldNow
    <3> QED
      BY <3>1 DEF TableIsFrom, Current
  <2> QED
    BY <2>1, <2>2
<1>4. ASSUME NEW i \in Indices, NEW v \in Values, WriteOam(i, v)
      PROVE  Current'
  <2> DEFINE c == [ call |-> "write", index |-> i, value |-> v ]
  <2>1. /\ i \in Nat /\ c \in Calls /\ c \notin Copies /\ c \notin Frames /\ c.value = v
        /\ \A j \in Nat : c \in WritesTo(j) <=> j = i
    BY OamAssumption, CallKinds
  <2>2. /\ history' = Append(history, c) /\ staged' = staged /\ displayed' = displayed
        /\ oam' = IF i < OamBytes THEN [ oam EXCEPT ![i] = v ] ELSE oam
    BY <1>4 DEF WriteOam, Recorded
  <2> HIDE DEF c
  <2>3. LatestCopy' = LatestCopy /\ ShownCopy' = ShownCopy /\ Now' = Now + 1
    BY <2>1, <2>2, PositionsKept
  <2>4. ASSUME NEW k \in 0 .. OamBytes - 1
        PROVE  oam'[k] = HeldAt(history', Now + 1, k)
    <3>1. HeldAt(history', Now + 1, k) = IF k = i THEN v ELSE HeldAt(history, Now, k)
      BY <1>1, <1>2, <2>1, <2>2, HeldNow
    <3>2. oam'[k] = IF k = i THEN v ELSE oam[k]
      BY <2>1, <2>2, OamAssumption DEF TablesTyped, Table
    <3> QED
      BY <3>1, <3>2 DEF Current, TableIsFrom
  <2>5. TableIsFrom(oam', history', Now')
    BY <2>3, <2>4 DEF TableIsFrom
  <2> QED
    BY <1>3, <2>1, <2>2, <2>3, <2>5 DEF Current, TableIsFrom
<1>5. CASE SnapshotForNextFrame
  <2> DEFINE c == [ call |-> "copy" ]
  <2>1. c \in Calls /\ c \in Copies /\ c \notin Frames /\ c \notin UNION { WritesTo(k) : k \in Nat }
    BY CallKinds
  <2>2. history' = Append(history, c) /\ staged' = oam /\ UNCHANGED << oam, displayed >>
    BY <1>5 DEF SnapshotForNextFrame, Recorded
  <2> HIDE DEF c
  <2>3. LatestCopy' = Now /\ ShownCopy' = ShownCopy /\ Now' = Now + 1
    BY <2>1, <2>2, PositionsKept
  <2> QED
    BY <1>3, <2>1, <2>2, <2>3 DEF Current, TableIsFrom
<1>6. CASE BeginFrame
  <2> DEFINE c == [ call |-> "frame" ]
  <2>1. c \in Calls /\ c \in Frames /\ c \notin Copies /\ c \notin UNION { WritesTo(k) : k \in Nat }
    BY CallKinds
  <2>2. history' = Append(history, c) /\ displayed' = staged /\ UNCHANGED << oam, staged >>
    BY <1>6 DEF BeginFrame, BufferAtFrame, Recorded
  <2> HIDE DEF c
  <2>3. LatestCopy' = LatestCopy /\ ShownCopy' = LatestCopy /\ Now' = Now + 1
    BY <2>1, <2>2, PositionsKept
  <2> QED
    BY <1>3, <2>1, <2>2, <2>3 DEF Current, TableIsFrom
<1>7. CASE UNCHANGED spriteVars
  BY <1>7 DEF spriteVars, Current, TableIsFrom, Now, LatestCopy, ShownCopy, LatestFrame
<1> QED
  BY <1>4, <1>5, <1>6, <1>7 DEF SpriteNext, ReadOam

\* The types and the currency of the tables at power-up.
LEMMA BlankIsCurrent == SpriteInit => TablesTyped /\ Current
<1> SUFFICES ASSUME SpriteInit PROVE TablesTyped /\ Current
  OBVIOUS
<1>1. TablesTyped
  BY OamAssumption DEF SpriteInit, TablesTyped, Blank, Table
<1>2. history = << >> /\ Len(history) = 0
  BY DEF SpriteInit
<1>3. \A n \in {0, 1} : \A k : HeldAt(history, n, k) = 0
  BY <1>2 DEF HeldAt, LastBefore
<1>4. Now = 1 /\ LatestCopy = 0 /\ ShownCopy = 0
  BY <1>2, LastInNone DEF Now, LatestCopy, ShownCopy, LastBefore, LatestFrame
<1>5. \A k \in 0 .. OamBytes - 1 : Blank[k] = 0
  BY DEF Blank
<1>6. Current
  BY <1>3, <1>4, <1>5 DEF SpriteInit, Current, TableIsFrom
<1> QED
  BY <1>1, <1>6

\* A frame never tears and never shows an update early: every byte on display is the last
\* one written before the last copy line before the frame began, for every size of the
\* table and every order of writes, copies and frames (snapshot_for_next_frame,
\* begin_frame).
THEOREM NoFrameTears == SpriteSpec => []ShowsLastCopyBeforeFrame
<1>1. SpriteInit => TablesTyped /\ Current
  BY BlankIsCurrent
<1>2. TablesTyped /\ Current /\ [SpriteNext]_spriteVars => TablesTyped' /\ Current'
  BY TypeStep, CurrentStep
<1>3. Current => ShowsLastCopyBeforeFrame
  BY OamAssumption DEF Current, TableIsFrom, ShowsLastCopyBeforeFrame, RenderedOam
<1> QED
  BY <1>1, <1>2, <1>3, PTL DEF SpriteSpec
=====================================================================================
