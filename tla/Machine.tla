---------------------------------- MODULE Machine ----------------------------------
(***********************************************************************************)
(* The machine (core-ws/src/machine.rs): the CPU, the interrupt controller and the *)
(* serial port behind ports $B0, $B3 and $B6. Machine::step delivers the highest   *)
(* pending, enabled line if IF is set and then executes one instruction, in one    *)
(* call; between two calls the host and the peripherals act on the controller.     *)
(*                                                                                 *)
(* frames, owed and recent are history: they record what the controller and the    *)
(* CPU did and no step depends on them.                                            *)
(***********************************************************************************)
EXTENDS Cpu, InterruptController, Sequences

CONSTANTS
  Sources,      \* The lines, other than the serial ones, that peripherals drive.
  EnableMasks,  \* The enable masks the host sets.
  MaxEvents     \* How often the host and the peripherals act (a bound of the model).

ASSUME SourcesAssumption == Sources \subseteq Irq \ {SerialTx, SerialRx}
ASSUME MachineMasksAssumption == EnableMasks \subseteq SUBSET Irq
ASSUME MaxEventsAssumption == MaxEvents \in Nat

VARIABLES
  cpu,          \* Machine.cpu.
  interrupts,   \* Bus.interrupts.
  serial,       \* Bus.serial.
  events,       \* How often the environment acted.
  frames,       \* History: the interrupts entered and not returned from, each with
                \* its kind and the CPU at the moment of entry.
  owed,         \* History: per edge line, events latched less deliveries made.
  recent        \* History: the last instruction set IF.

vars == << cpu, interrupts, serial, events, frames, owed, recent >>

Port == INSTANCE SerialPort WITH Bytes <- Byte, EnableMasks <- SUBSET Irq

Init ==
  /\ cpu = Reset
  /\ Port!Init
  /\ events = 0
  /\ frames = << >>
  /\ owed = [ l \in EdgeLines |-> 0 ]
  /\ recent = FALSE

---------------------------------------------------------------------------------
(* The ports the bus services itself.                                             *)

RegIntBase   == 176
RegSerStatus == 179
RegIntAck    == 182

\* The bytes a read of the port may return; the memory map answers the other ports.
PortRead(port) ==
  CASE port = RegIntBase   -> { interrupts.base }
    [] port = RegSerStatus -> { IF serial THEN 128 ELSE 0 }
    [] OTHER               -> Byte

\* Mutation of PortWrite: disabling the port leaves its lines alone.
PortWriteNoLower(bus, port, byte) ==
  CASE port = RegIntBase   -> [ bus EXCEPT !.ic = SetBase(@, byte) ]
    [] port = RegIntAck    -> [ bus EXCEPT !.ic = Acknowledge(@, LinesOf(byte)) ]
    [] port = RegSerStatus -> [ bus EXCEPT !.serial = Port!SerEnable(byte) ]
    [] OTHER               -> bus

\* The controller and the serial port after a byte is written to the port.
PortWrite(bus, port, byte) ==
  CASE port = RegIntBase   -> [ bus EXCEPT !.ic = SetBase(@, byte) ]
    [] port = RegIntAck    -> [ bus EXCEPT !.ic = Acknowledge(@, LinesOf(byte)) ]
    [] port = RegSerStatus -> [ ic     |-> Port!SetEnabled(bus.ic, bus.serial, Port!SerEnable(byte)),
                                serial |-> Port!SerEnable(byte) ]
    [] OTHER               -> bus

\* The effect on the bus of instruction i of CPU c: a word goes out as two bytes,
\* the low one first, to consecutive ports.
BusAfter(c, i) ==
  LET bus  == [ ic |-> interrupts, serial |-> serial ]
      byte == PortWrite(bus, i.arg, Al(c))
  IN  CASE i.op = "OUT"  -> byte
        [] i.op = "OUTW" -> PortWrite(byte, (i.arg + 1) % 65536, Ah(c))
        [] OTHER         -> bus

---------------------------------------------------------------------------------
(* Machine::step.                                                                 *)

Deliverable == "interrupt" \in cpu.flags /\ PendingEnabled(interrupts)

\* The CPU that executes the instruction of this step.
AtBoundary ==
  IF Deliverable
  THEN ServiceInterrupt(cpu, Vector(interrupts, Highest(interrupts)))
  ELSE cpu

\* The interrupts that are open when the instruction of this step begins, and after it.
Entered == IF Deliverable THEN Append(frames, [ kind |-> "irq", ctx |-> cpu ]) ELSE frames

Traps(i) == i.op = "INT" \/ (i.op = "INTO" /\ "overflow" \in AtBoundary.flags)

FramesAfter(i) ==
  CASE Traps(i) -> Append(Entered, [ kind |-> "soft", ctx |-> Advance(AtBoundary) ])
    [] i.op = "IRET" /\ Entered # << >> -> SubSeq(Entered, 1, Len(Entered) - 1)
    [] OTHER -> Entered

\* A call of step on a halted CPU that nothing wakes: it returns Halted at once.
StepHalted ==
  /\ AtBoundary.halted
  /\ UNCHANGED vars

\* A call of step that executes an instruction, after delivering an interrupt if one
\* is due.
Step ==
  /\ ~AtBoundary.halted
  /\ Address(AtBoundary) \in DOMAIN Program
  /\ LET i == Fetch(AtBoundary)
     IN  /\ \E input \in IF i.op = "IN" THEN PortRead(i.arg) ELSE {0} :
              cpu' = Execute(AtBoundary, i, input)
         /\ interrupts' = BusAfter(AtBoundary, i).ic
         /\ serial' = BusAfter(AtBoundary, i).serial
         /\ frames' = FramesAfter(i)
         /\ recent' = ("interrupt" \in cpu'.flags /\ i.op \in {"STI", "POPF", "IRET"})
  /\ owed' = IF Deliverable /\ Highest(interrupts) \in EdgeLines
             THEN [ owed EXCEPT ![Highest(interrupts)] = @ - 1 ]
             ELSE owed
  /\ UNCHANGED events

---------------------------------------------------------------------------------
(* The host and the peripherals, between two calls of step.                       *)

Environment(action) ==
  /\ events < MaxEvents
  /\ events' = events + 1
  /\ action
  /\ UNCHANGED << cpu, frames, recent >>

SourceRaise(line) ==
  /\ Environment(Port!SourceRaise(line))
  /\ owed' = IF line \in EdgeLines /\ line \in interrupts'.pending \ interrupts.pending
             THEN [ owed EXCEPT ![line] = @ + 1 ]
             ELSE owed

SourceLower(line)   == Environment(Port!SourceLower(line)) /\ UNCHANGED owed
SignalTxReady       == Environment(Port!SignalTxReady) /\ UNCHANGED owed
SignalRxReady       == Environment(Port!SignalRxReady) /\ UNCHANGED owed
HostSetEnable(mask) == Environment(Port!HostSetEnable(mask)) /\ UNCHANGED owed

Next ==
  \/ Step
  \/ StepHalted
  \/ \E l \in Sources : SourceRaise(l)
  \/ \E l \in Sources : SourceLower(l)
  \/ SignalTxReady
  \/ SignalRxReady
  \/ \E m \in EnableMasks : HostSetEnable(m)

\* The frontend calls step for ever; nothing obliges the environment to act.
Fairness == WF_vars(Step)

Spec     == Init /\ [][Next]_vars
FairSpec == Spec /\ Fairness
---------------------------------------------------------------------------------

Frame == [ kind : {"irq", "soft"}, ctx : CpuStates ]

\* The registers keep their widths, SP stays in its segment and the controller in its
\* registers, whatever the program writes and whenever it is interrupted.
TypeOK ==
  /\ cpu \in CpuStates
  /\ interrupts \in Controller
  /\ serial \in BOOLEAN
  /\ events \in 0 .. MaxEvents
  /\ frames \in Seq(Frame)
  /\ owed \in [ EdgeLines -> Int ]
  /\ recent \in BOOLEAN

\* No event is delivered twice and none is dropped: for every edge line the program
\* acknowledges in the handler of that line, each latching of the line is matched by
\* exactly one delivery before the line is clear again. It relates step's decision
\* not to acknowledge a delivered line to service_interrupt clearing IF, to the
\* vector that picks the handler and to the acknowledge register.
OncePerEvent ==
  \A l \in Sources \intersect EdgeLines :
    owed[l] \in IF l \in interrupts.pending THEN {0, 1} ELSE {0}

\* The return frame of every open interrupt is intact on the stack: under the CPU's
\* stack pointer at entry lie FLAGS, CS and IP as they were at entry, however the
\* handlers above it nest (the push order of service_interrupt, exec.rs).
FramesIntact ==
  \A k \in 1 .. Len(frames) :
    LET c == frames[k].ctx
    IN  /\ cpu.stack[Below(c.sp, 1)] = ToWord(c.flags)
        /\ cpu.stack[Below(c.sp, 2)] = c.cs
        /\ cpu.stack[Below(c.sp, 3)] = c.ip

\* The words that instruction i pops and pushes.
Pops(i)   == CASE i.op \in {"POPAX", "POPF"} -> 1 [] i.op = "IRET" -> 3 [] OTHER -> 0
Pushes(i) == CASE i.op \in {"PUSHAX", "PUSHF"} -> 1 [] Traps(i) -> 3 [] OTHER -> 0

\* The stack has room for what this step pushes, the instruction leaves the words of the
\* innermost open interrupt alone, and IRET finds its frame on top and, in the handler
\* of a hardware interrupt, AX as it was at entry.
StepBehaves ==
  LET i    == Fetch(AtBoundary)
      top  == Entered[Len(Entered)]
      used == Used(AtBoundary)
  IN  /\ Deliverable => Used(cpu) + 3 < StackWords
      /\ used + Pushes(i) < StackWords
      /\ IF Entered = << >> THEN Pops(i) <= used
         ELSE IF i.op = "IRET" THEN /\ used = Used(top.ctx) + 3
                                    /\ top.kind = "irq" => AtBoundary.ax = top.ctx.ax
         ELSE Used(top.ctx) + 3 + Pops(i) <= used

\* The edge lines that were delivered and that no handler has acknowledged yet.
Unacknowledged == { l \in Sources \intersect EdgeLines : l \in interrupts.pending /\ owed[l] = 0 }

\* The instruction acknowledges only lines that were delivered since they were latched,
\* this step's included, and leaves interrupts off while one of them is unacknowledged.
StepAcknowledges ==
  /\ \A l \in Sources \intersect EdgeLines :
       l \in interrupts.pending \ interrupts'.pending => owed'[l] = 0
  /\ "interrupt" \in cpu'.flags => Unacknowledged' = {}

\* The program keeps its stack and its handlers give back what they use, whatever
\* interrupts them and however deep: what FramesIntact and Transparent need of it.
KeepsItsStack == [][ Step => StepBehaves ]_vars

\* Its handlers acknowledge the line they are for and no other before they can be
\* interrupted again: what OncePerEvent needs of it.
AcknowledgesItsLines == [][ Step => StepAcknowledges ]_vars

\* What the theorems on interrupts need of the program, whenever it is interrupted.
ProgramBehaves == KeepsItsStack /\ AcknowledgesItsLines

\* The CPU of the interrupted program: the one saved by the outermost open hardware
\* interrupt, or the CPU itself when there is none.
UserCpu ==
  LET irqs == { k \in 1 .. Len(frames) : frames[k].kind = "irq" }
  IN  IF irqs = {} THEN cpu
      ELSE frames[CHOOSE k \in irqs : \A j \in irqs : k <= j].ctx

Precise == INSTANCE PreciseInterrupts WITH user <- Scrub(UserCpu)

\* Hardware interrupts are invisible to the program they interrupt: with handlers that
\* save what they use, the program's registers, flags, stack and control flow go
\* through exactly the steps they would take on a CPU without interrupts, however
\* deliveries nest (Machine::step, service_interrupt and IRET together).
Transparent == Precise!Spec

\* Whatever the program does, the machine drives the controller and the serial port
\* only in the ways their specification allows: a step, even one that delivers and
\* then writes a word to two ports, is one port write of SerialPort or none.
UsesPort == Port!Spec

\* A program that switches its serial port off, in a handler or out of it, is left
\* with no serial interrupt (Serial::set_enabled, reached through a port write).
PortQuiet == Port!NoStaleSerialIrq

\* Every edge interrupt that is pending and enabled is in the end acknowledged,
\* provided the frontend keeps calling step, the host does not mask the line, and
\* the environment acts finitely often; a CPU in HLT is woken for it.
EdgeIrqServed ==
  \A l \in Sources \intersect EdgeLines :
    l \in Active(interrupts) ~> l \notin Active(interrupts)

\* Every handler returns and the program it interrupted goes on: no re-delivery loop
\* starves it, although nothing is acknowledged on delivery.
HandlersReturn == frames # << >> ~> frames = << >>

\* "the instruction following STI executes before the first maskable IRQ can be taken"
\* (docs/hardware/02-interrupts.md, also for POPF and IRET): no interrupt is delivered
\* on the boundary right after an instruction that set IF.
StiShadow == [][ \A l \in EdgeLines : owed'[l] < owed[l] => ~recent ]_vars

\* "SoC ports alias every 512 entries across the 16-bit port space" (memory.rs:251-252):
\* a byte written to an alias of the interrupt base reaches the controller.
SocPortsAlias ==
  [][ LET i == Fetch(AtBoundary)
      IN  Address(AtBoundary) \in DOMAIN Program /\ cpu' # cpu
            /\ i.op = "OUT" /\ i.arg % 512 = RegIntBase
          => interrupts'.base = SetBase(interrupts, Al(AtBoundary)).base ]_vars
=====================================================================================
