-------------------------------- MODULE SerialPort --------------------------------
(***********************************************************************************)
(* The serial port (core-ws/src/serial.rs) beside the interrupt controller it      *)
(* drives, as Bus in core-ws/src/machine.rs holds them: the CPU reaches both by    *)
(* port writes, the peripherals raise and lower their lines, the host sets the     *)
(* enable register. The steps come in any order, which is what a program that      *)
(* switches the port off while a byte arrives relies on.                           *)
(*                                                                                 *)
(* The two serial lines are driven by the serial port alone; every other line by   *)
(* the peripheral it is named after.                                               *)
(***********************************************************************************)
EXTENDS InterruptController

CONSTANTS
  Bytes,        \* The bytes the program writes to the three ports.
  EnableMasks   \* The enable masks the host sets.

ASSUME BytesAssumption == Bytes \subseteq Byte
ASSUME EnableMasksAssumption == EnableMasks \subseteq SUBSET Irq

VARIABLES
  interrupts,   \* The InterruptController.
  serial        \* Serial.enabled.

vars == << interrupts, serial >>

SerialLines == { SerialTx, SerialRx }

\* Bit 7 of REG_SER_STATUS.
SerEnable(byte) == byte >= 128

\* Mutation of SetEnabled: only the transmit line is lowered.
SetEnabledTxOnly(ic, enabled, enable) ==
  IF enabled /\ ~enable THEN Lower(ic, SerialTx) ELSE ic

\* The controller after set_enabled on a port that was in state enabled.
SetEnabled(ic, enabled, enable) ==
  IF enabled /\ ~enable THEN Lower(Lower(ic, SerialTx), SerialRx) ELSE ic

Init ==
  /\ interrupts = NewController
  /\ serial = FALSE

---------------------------------------------------------------------------------
(* Port writes of the program.                                                    *)

WriteBase(byte) ==
  /\ interrupts' = SetBase(interrupts, byte)
  /\ UNCHANGED serial

WriteAck(byte) ==
  /\ interrupts' = Acknowledge(interrupts, LinesOf(byte))
  /\ UNCHANGED serial

WriteSerStatus(byte) ==
  /\ interrupts' = SetEnabled(interrupts, serial, SerEnable(byte))
  /\ serial' = SerEnable(byte)

---------------------------------------------------------------------------------
(* The serial data path signals its two conditions.                               *)

SignalTxReady ==
  /\ interrupts' = IF serial THEN Raise(interrupts, SerialTx) ELSE interrupts
  /\ UNCHANGED serial

SignalRxReady ==
  /\ interrupts' = IF serial THEN Raise(interrupts, SerialRx) ELSE interrupts
  /\ UNCHANGED serial

---------------------------------------------------------------------------------
(* The host and the other peripherals.                                            *)

HostSetEnable(mask) ==
  /\ interrupts' = SetEnable(interrupts, mask)
  /\ UNCHANGED serial

SourceRaise(line) ==
  /\ interrupts' = Raise(interrupts, line)
  /\ UNCHANGED serial

SourceLower(line) ==
  /\ interrupts' = Lower(interrupts, line)
  /\ UNCHANGED serial

Next ==
  \/ \E b \in Bytes : WriteBase(b)
  \/ \E b \in Bytes : WriteAck(b)
  \/ \E b \in Bytes : WriteSerStatus(b)
  \/ SignalTxReady
  \/ SignalRxReady
  \/ \E m \in EnableMasks : HostSetEnable(m)
  \/ \E l \in Irq \ SerialLines : SourceRaise(l)
  \/ \E l \in Irq \ SerialLines : SourceLower(l)

Spec == Init /\ [][Next]_vars

---------------------------------------------------------------------------------

\* Every register of the controller keeps its width and the port's enable state is
\* a Boolean, whatever is written (the u8 fields of InterruptController).
TypeOK ==
  /\ interrupts \in Controller
  /\ serial \in BOOLEAN

\* A disabled port leaves no serial interrupt behind: while it is disabled neither
\* serial line is pending, in whatever order the signals, the status writes and the
\* enable changes came (Serial::set_enabled, the spurious-IRQ lock-up of games that
\* toggle the port while they start).
NoStaleSerialIrq == ~serial => SerialLines \intersect interrupts.pending = {}

\* An edge line becomes pending only by being raised, and stays so until the program
\* acknowledges that very line: masking and unmasking it in between neither loses nor
\* invents it, and no other port write, no source and no serial signal does (set_enable,
\* acknowledge and lower in interrupt.rs). Whether a masked line may be latched is left
\* open: the code and its documents differ there.
EdgeHeldUntilAcknowledged ==
  [][ \A l \in EdgeLines :
        /\ l \in interrupts'.pending \ interrupts.pending
             => SourceRaise(l)
        /\ l \in interrupts.pending \ interrupts'.pending
             => \E b \in Bytes : l \in LinesOf(b) /\ WriteAck(b) ]_vars

\* A level line becomes pending only by its own source, a serial one only by a signal to
\* an enabled port, and stays so until that source lets go: an acknowledge never clears
\* it, a serial line falls only when the port goes from enabled to disabled, and the
\* cartridge line only when the cartridge lowers it (lower, acknowledge, set_enabled).
LevelHeldUntilSourceClears ==
  [][ \A l \in LevelLines :
        /\ l \in interrupts'.pending \ interrupts.pending
             => \/ l = SerialTx /\ serial /\ SignalTxReady
                \/ l = SerialRx /\ serial /\ SignalRxReady
                \/ l \notin SerialLines /\ SourceRaise(l)
        /\ l \in interrupts.pending \ interrupts'.pending
             => IF l \in SerialLines THEN serial /\ ~serial' ELSE SourceLower(l) ]_vars
=====================================================================================
