# A formal model of the WonderSwan emulator

This directory holds TLA+ modules that model the emulator's core, TLC
configurations that check them on small instances, and theorems about them that
TLAPS checks for every instance. All definitions are translated from the Rust
sources under `src/crates`; `PROJECT.json` maps each definition to the lines it
stands for.

## 1. Inventory

| Component (source) | State | Operations | Interacts with |
|---|---|---|---|
| Interrupt controller (`core-ws/src/interrupt.rs`) | base, enable, pending | `set_base`, `set_enable`, `raise`, `lower`, `acknowledge`, `pending_enabled`, `vector` | bus ports `$B0`, `$B6`; the host by `interrupts_mut`; serial port; `Machine::step` |
| Serial port (`serial.rs`) | enabled | `signal_tx_ready`, `signal_rx_ready`, `set_enabled`, `write_status` | drives the two serial lines of the controller |
| Machine and bus (`machine.rs`) | CPU, bus | `step`, `load`, port dispatch | all of the above; the memory map behind the bus |
| CPU (`cpu-v30mz`) | registers, flags, halted | `step`, `service_interrupt`, some 200 opcodes | the bus |
| CPU arithmetic and decoding (`alu.rs`, `decode.rs`) | none | flag-setting functions, operand forms | the CPU |
| Memory map (`memory.rs`, `io.rs`) | RAM, SRAM, banks, `$A0` | `read_u8`, `write_u8`, `io_read`, `io_write` | cartridge, palettes, noise, EEPROM |
| Internal EEPROM (`eeprom.rs`) | store, address, command | data, address and command ports | memory map |
| Noise generator (`apu.rs`) | LFSR, tap, three gates | `tick`, `set_mode`, `reset` | memory map |
| Palettes (`palette.rs`) | pool, palettes | register writes and reads, `shade` | memory map |
| Sprite unit (`ppu.rs`) | live, staged, displayed OAM | `write_oam`, `snapshot_for_next_frame`, `begin_frame` | none yet |
| ROM format, cartridge (`format-ws`, `cartridge.rs`) | none | `parse`, header decode, checksum | memory map |
| Contracts, synthetic core (`ws-contracts`, `ws-testkit`) | clock, two schedules, input queue | `set_input`, `run_until`, `reset` | the caller's sink |
| V20 harness (`v20-harness`) | one memory, dirty list, counters | `uses_v20_only`, `run_case`, `evaluate`, `main` | CPU |
| Command line (`ws-cli`) | none | file reading | the crates above |

How they interact. The program is single-threaded: a frontend owns a `Machine`
and calls `step`; between two calls it, or a peripheral it simulates, raises and
lowers interrupt lines. `step` delivers at most one interrupt and then executes
one instruction; an instruction reaches everything else by byte accesses to the
bus, which takes out the three ports of the interrupt controller and the serial
port and hands the rest to the memory map. The synthetic core is the other
customer of the contracts crate: its caller submits timed inputs and runs it to
a deadline, and it calls the caller's sink from inside that run.

### Hard behaviours, and what must hold

- *Interrupts between any two instructions.* Delivery does not acknowledge:
  only IF, which interrupt entry clears, keeps the line from being delivered
  again. Nothing may be delivered twice or lost, and the interrupted program must
  not notice. Handlers nest, re-enable interrupts and acknowledge with a word
  write that straddles two ports.
- *Serial signals against the write that switches the port off.* Either order
  must leave no serial interrupt behind a disabled port.
- *Edge and level lines in one register.* An acknowledge must not clear a level
  line nor a source an edge line, and a change of the mask must neither latch nor
  lose one.
- *A sink that refuses an output in the middle of a run, and a clock that
  overflows after the output was taken.* The caller tries again: nothing may be
  counted, skipped or sent twice.
- *Inputs out of order, for the present tick, and for the tick of an output.*
- *Aliases.* A byte of memory is seen through several banks, mirrors and
  addresses above 1 MiB, a register under several ports, an EEPROM word under
  several addresses. All of them must be the same cell and no other.
- *A double-buffered table* that is written, copied and shown in any order.
- *A feedback register with a fixed point.*
- *One memory for every case of the oracle harness.* What one case leaves behind
  must not decide the next; the scan that skips a case and the CPU that runs it
  must agree on which bytes come first.
- *Two loops inside one step*, over prefixes and over a repeated string
  instruction: both must end, and the second must take each element as those
  before it left memory.
- *Edges of the arithmetic*: carries in, the most negative dividend, shift counts
  past the width, words at the last offset of a segment.
- *Boot.* The footer's far jump, its ROM size, save type and mapper are decoded in
  one crate and take effect through the bank registers of another.

`PROJECT.json` lists these under `hazards`, each at the line where it bites.

## 2. Modules

| Module | Models | State and actions |
|---|---|---|
| `Words` | byte and word halves, bits, a byte store | operators |
| `Flags` | `Flags::to_word`, `from_word` (`registers.rs`) | a set of flag names |
| `InterruptController` | `interrupt.rs` | a record; one operator per method; a mask is a set of lines |
| `SerialPort` | `serial.rs` with the controller | `interrupts`, `serial`; one action per port write, signal, and host or source call |
| `Cpu` | reset, stack, interrupt entry and return, port I/O, IF, HLT (`exec.rs`) | a record; `Execute` is one instruction |
| `Machine` | `Machine::step`, the bus's port dispatch | composes `Cpu`, `InterruptController`, `SerialPort`; `Step` is a whole call of `step` |
| `PreciseInterrupts` | *abstract*: a CPU no hardware interrupt reaches | `user`; refined by `Machine` |
| `OutputSchedule` | *abstract*: what a sink is owed | counts and last output; refined by `SyntheticCore` |
| `SyntheticCore` | `SyntheticCore` (`ws-testkit`) | the fields of the struct and the run under way; one action per call and per loop iteration |
| `InternalEeprom`, `NoiseChannel`, `MonoPalettes` | `eeprom.rs`, `apu.rs`, `palette.rs` | records and operators, used by `MemoryMap` |
| `MemoryMap` | `memory.rs` | RAM, SRAM, banks, `$A0` and the three parts; `MemWrite`, `IoWrite`, `ReadAccess` |
| `MemoryTrace` | `MemoryMap` with a record of the writes | the properties that relate a read to earlier writes |
| `Histories` | what a sequence of events says last about a question | operators, used by `MemoryTrace` and `SpriteUnit` |
| `NoiseGenerator` | `apu.rs` ticked and programmed | `noise`, and whether its tap has changed since the reset; two register writes and `Tick`; `NoiseSpec` |
| `SpriteUnit` | `ppu.rs` | three tables; one action per call; `SpriteSpec` |
| `Alu` | `alu.rs`, and the products and quotients of `exec.rs` | pure operators on values and sets of flags |
| `V30mz` | registers, segmented memory, stack, ModR/M decoding, conditions (`registers.rs`, `decode.rs`, `exec.rs`) | the CPU as a record over any bus: `BusRead`, `BusWrite`, `PortRead`, `PortWrite` are parameters |
| `Instructions` | the opcode table of `exec.rs` | one operator per group of opcodes; `Execute` |
| `V20Harness` | `v20-harness/src/main.rs` and the loops of `Cpu::step` | directory, file, line, CPU, locals of `step`, reports; one action per file, line, prefix, instruction, iteration and verdict |
| `Verdicts` | `V20Harness` with a record of the verdicts | the property that compares two verdicts of one run |
| `InstructionLaws` | *reference*: what an instruction promises, over integers and cells | the properties of the instruction set |
| `RomFormat` | `format-ws` | pure operators on an image |
| `Session` | `cartridge.rs`, `machine.rs` with everything behind the bus | an image and a machine; composes `RomFormat`, `Instructions`, `MemoryMap`, `InterruptController`, `SerialPort` |
| `CommonLemmas` | lemmas several proofs cite: remainders, greatest and least members, the last entry of a kind | – |
| `DeviceProofs` | theorems about `SerialPort`, `NoiseGenerator` and `SpriteUnit` | – |
| `MemoryTraceProofs` | theorems about `MemoryMap` and `MemoryTrace` | – |
| `HarnessProofs`, `InstructionProofs` | theorems about `V20Harness` and `Verdicts`, and about `InstructionLaws` | – |
| `MachineProofs`, `SyntheticCoreProofs`, `SessionProofs` | theorems about the module each is named for | – |
| `MC*` | the instances TLC checks | – |

Abstractions worth knowing:

- *Two CPUs.* `Cpu` is what interrupts need, over words, and small enough for
  every interleaving and for proofs; `V30mz` and `Instructions` are the whole
  instruction set, over bytes. `V20Harness` takes the loops of a step apart, prefix
  by prefix and element by element, so that their end is a property; `Session`
  takes a step whole (`Stepped`).
- *`Cpu`.* An instruction is one unit of its segment, whatever its length. The
  stack segment is an array of `StackWords` word slots in which SP wraps. AX and
  the flags stand for the registers a handler can spoil. The program and the
  vector table are constants. An instruction the model lacks disables `Step`, so
  a program that contained one would end in a deadlock TLC reports; the same
  holds for a vector with no handler.
- *Environment of the machine.* Each raise, lower, signal or mask change takes
  place between two calls of `step`. The source wires no serial data path, so the
  two signals come from the environment; it has no port for the enable register
  either, so only the host sets it, by `interrupts_mut`.
- *Bus.* A read of a port that the memory map answers returns any byte in
  `Machine`; `MemoryMap` models those ports with no CPU in front.
- *`V30mz`.* Flags are a set of names; a register keeps 16 bits. A product is
  formed as two halves and never exceeds the checker's integers.
- *Harness.* A line of a fixture is a parsed case or a malformed one: the
  columns' text is left out, and so are the ranking of offenders and the wording
  of the summary. Ports read 0, as the harness has them.
- *Session.* A damaged image is checked and not run. The host enables the
  vertical blank and raises it in one step, as a frontend does before it has a
  register to do it with. `load` is a loop over the memory map's byte write.
- *ROM format.* An image is its length and its bytes that are not zero. Footer
  fields that nothing in the core reads are left out.
- *Memory.* A store is the function of the bytes that were written to it; ROM
  is never written, so a read of it is represented by its offset. Addresses,
  banks and sizes are exact.
- *Noise.* Nothing in the machine ticks the generator yet: `Tick` is the
  component's interface.
- *Sprites.* The order of the two display calls is left to the caller, as the
  source leaves it.
- *Clock.* `MaxTick` stands for `u64::MAX`, which makes the overflow reachable.

History variables record and never guide: `frames`, `owed`, `recent` (Machine),
`inputs`, `outputs` (SyntheticCore), `log` (MemoryTrace), `history` (SpriteUnit),
`retapped` (NoiseGenerator), `results` (Verdicts).

## 3. Runs

| Run | Question | Bounds, and why they are enough |
|---|---|---|
| `serial_port` | Does any order of port writes, signals and mask changes lose, invent or misdirect an interrupt? | none: the full state space of eight lines; five bytes that meet every decode of the three ports |
| `machine` | Is every delivery exact, every frame intact, the program undisturbed, does the program keep its stack and acknowledge its lines as the theorems suppose (`ProgramBehaves`), is every active edge interrupt served, and does the machine refine `PreciseInterrupts` and `SerialPort`? | four environment events: enough for two lines to nest, be masked and be raised again; 32 slots of stack hold the deepest nest, and SP wraps at the first push |
| `machine_sti` | Is there a shadow after STI? *(violation)* | as `machine` |
| `soc_alias` | Do the bus's own ports alias? *(violation)* | a program of three instructions |
| `synthetic_core` | Are outputs on schedule and frames right under every split of a run, refusal, late input, reset and overflow, and does each call return? | the periods of the source; 24 ticks, which include 20, where input, packet and frame meet, and the overflow; four calls, two inputs |
| `synthetic_replay` | Does a frame depend on the timestamped inputs alone? *(violation)* | as above |
| `memory_map` | Does a read of memory, register or EEPROM return the last write to that cell, through every alias? Is the lockout one-way and the reset vector at the footer? | three programs of three or four writes; both RAM sizes; no, small and large SRAM; both mappers. A confusion of two cells needs two writes and a bank change |
| `boot_odd` | Is the reset vector at the footer for *every* ROM size? *(violation)* | ROMs of 3 and 6 MiB |
| `noise` | Does the generator that is switched on ever stand still, unless its tap was changed without the strobe? | all 15-bit states under all taps, strobed and not, and all gates; the update is switched off with one tap alone, for a register that stands does not depend on the others |
| `sprites` | Does a frame show what was written before the copy line before it? | five calls, a table of two bytes of the 512: tearing takes one write, one copy and one frame, and a second byte to be mixed with |
| `v20_harness` | Does the harness judge a case by the case alone, skip what it must, count everything once and end? Does every instruction obey its law? | every opcode with four ModR/M bytes, in the middle and at the end of its segment; the edges 0, 1, half and full range of both widths, counts to 31, overlaps in both directions, SP at every edge, runs of up to ten prefixes; directories of up to three cases out of nine, in one file and in two with an unreadable one between |
| `boot` | Does a cartridge boot where its footer says, find the save memory it declares and lose no interrupt? Does the checksum tell a damage? | every declared ROM size but 3 and 6 MiB, up to what the mapper reaches; every save type; three models; two interrupts, at any instruction of a program of some twenty, which copies its handler to RAM with a repeated MOVSB; thirteen places of damage and five bytes |

`CHECK_DEADLOCK FALSE` appears where the system may stop: the caller of the
synthetic core stops calling, the harness has printed its summary, an image is
refused. The other systems never stop (a halted machine takes
`StepHalted`, the memory map a read).

**Fairness.** `Machine!Fairness` is `WF_vars(Step)`: the frontend calls `step` for
ever and no call blocks. Nothing obliges the environment to act; that it acts
finitely often is the bound `MaxEvents`, and the liveness properties need it: a
source that re-raises for ever starves the program, on the hardware too.
`SyntheticCore!Fairness` is `WF_vars(RunStep)`: a call of `run_until` runs to its
end on the caller's thread, but nobody is obliged to make one.
`V20Harness!Fairness` says that a sequential program goes on while it can. For
the two actions that compute an instruction, weak fairness is spelled out with
their guards (`[]<>~CanExecute \/ []<><<ExecuteOpcode>>_vars`), which is what
`WF_vars(ExecuteOpcode)` means, since such an action always changes `phase` or
`cpu`, and saves the checker a second evaluation of the instruction. `Terminates`
holds of the checked directories; a code segment of 65,536 prefixes would keep
`Cpu::step` in its loop for ever, and no directory has one.
`Session` has no fairness: its properties are of safety.

**Scope of some properties.** Some hold of programs that do their part.
`ProgramBehaves` says of the checked program what they need, and is a property of
the program and not of the machine; the theorems assume its two halves of other
programs. `FramesIntact` and `Transparent` need `KeepsItsStack`: the stack has
room for what is pushed, and handlers give back what they use. `OncePerEvent`
needs `AcknowledgesItsLines`: handlers acknowledge no line before it is delivered,
and their own before they let themselves be interrupted.
`NoiseAdvances` speaks of a generator whose tap is the one its register was last
reset for; see section 5 for the others. `EntersAtBootEntry` speaks of the first instruction after
power-on, for a program that comes back to the reset vector may have put another
bank there, and of ROMs whose length divides the mapper's range; `boot_odd` is
about the others. `LoadsReturnStores` sets aside a store onto the instruction's own
operand bytes, after which the same instruction names another operand. The guards
on the operands in `MultiplicationIsExact` are the checker's (its integers end at
2^31); the theorem covers all operands. `ShiftsAreExact` takes the count from CL, and leaves
out counts from 32 on and the undocumented operation 6; `QuotientsAreExact` leaves the
status flags of a quotient open, and `EdgeHeldUntilAcknowledged` and
`LevelHeldUntilSourceClears` whether a masked line is latched: on all of these the code
and its documents differ (section 5).
`AdditionIsExact` takes its operands from AX and BX, for what is added is tested
apart from where it comes from (`OperandsAreExact`).

## 4. Proofs

Proved for every value of the constants, from the named `ASSUME`s of the modules
alone. `MachineProofs` quantifies over all programs, vector tables, stack sizes
of three words or more, sources and bounds; `MemoryTraceProofs` over all sets of
cartridges, addresses, ports and bytes; `HarnessProofs` and `InstructionProofs` over
all directories of fixtures whose cases are cases (`WorkloadsAssumption`: registers,
IP and flags are words and memory is a list of bytes, which the parser guarantees),
so that a law of an instruction is proved for every operand, address and content of
memory a case can have; `SessionProofs` over all images that have a length
(`ImagesAssumption`) and all models.

- `DeviceProofs`. Of the serial port: `TypeCorrect`; `DisabledPortIsQuiet`
  (`NoStaleSerialIrq` is inductive once the type is known: a signal on a disabled
  port raises nothing, and the write that disables it lowers both lines, which are
  level lines); `EdgeLinesHeld` and `LevelLinesHeld`, action by action: a line becomes
  pending by its own source alone, and is cleared as its trigger has it.
  Of the noise generator: `NoiseNeverStands`, for every program, strobing or not. The
  invariant `NoAllOnes` says more than that, while the tap is the one of the last
  reset, the register is not all ones: the bits that feed what is shifted in, up to the tap or
  up to bit 7 if that is higher, are not all ones, whatever lies above them. Of the
  sprites: `NoFrameTears`. The invariant says of each of the three tables from which
  copy it is, so that a frame is known to show one copy and not two.
- `MachineProofs`: `MachineTypes`; `ServiceThenReturn`, entry followed by IRET is
  the identity on CS, IP, SP, flags, AX and every word of the stack but the three below
  SP, from every SP, so that it covers a wrap within the frame, which the run does not
  meet; it rests on the round trip of the FLAGS word and on the three slots being
  distinct; `HighestActiveLine`; `MachineUsesPort`, the refinement of
  `SerialPort`: each instruction's bus effect is one port write or none, a word
  write being two of which at most one reaches a modelled port, as no two of the
  three are adjacent; `MachinePortQuiet`, which follows from the refinement and
  `DisabledPortIsQuiet` and is stated as a theorem alone (`PortQuiet` has no run:
  `UsesPort` and `NoStaleSerialIrq` imply it).
  `EventsAreDeliveredOnce` holds of every program with `AcknowledgesItsLines`. That a
  line owes one delivery or none is not inductive: the invariant adds `Undelivered`, a
  line that is pending while IF is set has not been delivered yet. Interrupt entry
  clears IF, and IF comes back (STI, POPF or IRET) only when no delivered line is
  pending still.
  `FramesStayIntact` and `InterruptsAreInvisible` (the refinement of
  `PreciseInterrupts`) hold of every program with `KeepsItsStack`. A
  frame that is intact says nothing of the next IRET, so the invariant is
  `Stacked`: what each open interrupt found on the stack is still there word by
  word, its return frame lies right on top of it, and the frames lie in the order
  they were entered. With it a step is one of four things to the interrupted
  program: nothing, when an outermost hardware interrupt is open before and after
  it; its own instruction, when none is, for an instruction does not tell CPUs apart
  that differ below SP (`Alike`); nothing, when its outermost interrupt returns; or
  the end of its HLT.
- `MemoryTraceProofs`. Its first part is about the memory map: `AddressesInBounds`,
  every address selects a byte inside the store it names for every bank, so that no
  index expression can panic; `MemoryMapTypes`, which uses it for the writes;
  `TransparentHoldsZero`, the palettes' protection rule and the transparency rule
  agree (inductive with the type); `FooterAtResetVector`, `BootVector` under the
  hypothesis that every ROM length divides the mapper's range of 16 or 64 MiB
  (`boot_odd` shows that it is needed). The second is about what was written:
  `ReadsLastWrite`, `EepromReadsBack`, `RegistersAreSeparate`, `LockoutIsOneWay`, for
  every sequence of accesses. The properties speak of the addresses that are read;
  the invariants speak of the cells behind them: `StoresHold`, every cell of RAM,
  SRAM and EEPROM holds what the record says was last written to it, `RegistersHold`,
  the same of every register and the bits it implements. That an access changes one
  cell, the one its address names, is what `AddressesInBounds` and the decoding
  lemmas give.
- `SyntheticCoreProofs`: `CoreTypes`; `NothingIsOverdue`, inductive with `Ahead` (a run
  under way has not passed its deadline); `InputIsSettled`, from
  `Settled`: for *every* time from now on, the core will hold by then what the
  accepted inputs say, which is what survives an input accepted out of order;
  `FramesAreFaithful`, from it and from `Stamped`, which ties each frame to the
  inputs known when it was taken; `KeepsSchedule`, the refinement of
  `OutputSchedule`, from `OnTime`, which ties each next time to its index and says
  what becomes of it at the end of the clock.
- `HarnessProofs`: `CasesLeaveNoTrace`, every cell that is not zero is in the case's
  list or on the dirty list, through the whole opcode table (`Tidy`, `Traced`: an
  opcode writes memory through `BusWrite` alone), so that the memory is blank
  between cases. For `VerdictsAreTheCasesOwn`, `OnTrace`: the run under way is a
  position of a trace that starts from the case on a blank memory and that each
  step continues in one way alone, so that two runs of a case end alike.
  `SkipsAreComplete`, from `Scanned`: while `step` reads prefixes the
  memory is the one the case loaded, IP is as far past its start as it has read, and
  all it has read are prefixes, so that the scan met the same opcode. `CountsAddUp`, from
  `Counting`: the counters agree with the cases before the one under way.
- `InstructionProofs`: what `InstructionLaws` promises of one instruction. All four
  theorems rest on `Stepping` (with `Placed`, `Traced` and `Scanned` from
  `HarnessProofs`): while `Cpu::step` reads prefixes the CPU is the prepared one but
  for IP, and when a case of one plain instruction is judged its CPU is that opcode
  executed on the prepared CPU, past the opcode. From there the laws are about
  operators. `SumsAreOfTheIntegers`: both widths, any operands, all six flags, and the
  conditions of the jumps after CMP, signed and unsigned.
  `ProductsAndQuotientsAreOfTheIntegers`: the products the source forms in 32 bits and
  the model by halves are the products of the integers (`ProductsInFull`,
  `QuotientsInFull`, which imply the checked laws and have no bound); a signed one
  goes by sign and magnitude, and a quotient traps exactly when it does not fit, with
  the operands as they were. `EntriesHaveReturns`: calls, software
  interrupts and #DE against their returns, through a byte-wise stack that wraps in
  its segment and a code segment that wraps in its own, with the FLAGS word taken
  apart and put together. `OperandsAreWhereTheySay`: every addressing mode, its
  displacement, wrap and segment; a store touches its operand's cells and no other,
  and a load finds them again. It needs `Overridden`, an override is the value of a
  segment register, which is inductive with the others.
- `SessionProofs`: `BootsAtEntry`, through the footer's decoding, the reset state, the
  ROM window and its linear bank, the mapper, the fetch of five bytes one at a time
  and JMP FAR. Its invariant `Launched` says that the image a machine runs is one of
  those given and has room for its footer.
- `CommonLemmas`: what these share: division with a remainder, the greatest and
  the least member of a set, the last entry of a kind in a history.

Most invariants are therefore stronger than the properties they are for. Only
`NoStaleSerialIrq`, `TransparentColourZero` and the action properties of
`SerialPort` need no more than the types.

What attempts at these proofs corrected in the properties: an instruction under a
segment override begins one byte later (`OpcodeAt`, which the return address of a call
depends on); the handler of a division trap is read from a vector table that the push
of its frame may have written to (`QuotientsAreExact`); a program may jump back to the
reset vector under another bank (`AtReset`); a store may hit the bytes of its own
operand (`LoadsReturnStores`).

**Only model-checked:**

- the liveness properties (`EdgeIrqServed`, `HandlersReturn`, `CallReturns`,
  `Terminates`), which this prover cannot reach;
- `ShiftsAreExact`, `StringsGoElementByElement` and `ChecksumTellsDamage`, which need
  an induction over a count, a repetition or the length of an image;
- `ProgramBehaves` and `EndsAsDeclared`, which are about the given program and images.

## 5. Where the code and its documents disagree

1. *No shadow after STI* (`machine_sti`). `docs/hardware/02-interrupts.md:143` has
   the instruction after STI execute before an interrupt is taken; `step` tests
   IF alone. STI directly before HLT can therefore lose the wake-up.
2. *Replay* (`synthetic_replay`). `docs/ARCHITECTURE.md:65` identifies a replay by
   the timestamped inputs; `set_input` takes an input for the present tick after
   that tick's frame, so two submissions of the same stream can show different
   frames.
3. *Reset vector* (`boot_odd`). `memory.rs:60` says the top of ROM is at
   `0xFFFF0` for every ROM size; the modulo puts it elsewhere for the sizes of 3
   and 6 MiB.
4. *Port aliases* (`soc_alias`). `memory.rs:251` says SoC ports alias every 512;
   the bus compares `$B0`, `$B3` and `$B6` as whole ports.

Disagreements no run is spent on; the properties are stated so that they hold on
either side:

- *Interrupt status.* `raise` latches a line only while it is enabled
  (`interrupt.rs:157`, and its comment says so); `docs/hardware/02-interrupts.md:53`,
  `:104` and `:163` have the status register ungated, so that a masked line sets its
  bit and can be polled, and `:109` has a level line follow its source. A line that is
  raised while masked is lost in the code, and in the documents waits to be unmasked.
- *Flags of a division.* DIV and IDIV leave all flags as they were (`exec.rs:776-846`);
  `docs/hardware/01-cpu-v30mz.md:534-542` and `:555` take CF and OF after DIV from the
  last multiplication and SF, ZF and PF after IDIV from the quotient, and `:980` quotes
  a rule for ZF. Flags pushed by a division trap differ likewise (`:541`). After MUL, ZF
  depends on the model (`:145`), which the code does not have either.
- *Shifts.* Operation 6 is SHL in the code (`alu.rs:171`), while
  `docs/hardware/01-cpu-v30mz.md:114` and `:154` have it zero the accumulator and ask
  for that. The count is used as it is, while `:457` says that the 80186 masks it;
  `alu.rs:173-175` calls this unresolved. AF survives a shift in the code, while `:443` has
  shifts clear it.
- *The generator that must never stop.* `docs/COMMUNITY-BUG-FIXES.md:103-104` says that it
  stops only when it is switched off. A mode changed without the reset strobe can bring
  the register to `7FFF`, where it stands with every tap until the next strobe: without
  its first conjunct, `NoiseAdvances` is violated.

One is asserted as the code has it: for the most negative dividend IDIV traps whenever
the quotient does not fit (`exec.rs:834-838`), as `docs/hardware/01-cpu-v30mz.md:526-529`
asks of every division, while `:560` reports a reference that returns 81 and asks to
confirm it.

Observations:

- The EEPROM WRITE sequence of `docs/hardware/07-io-registers.md:68` loads the
  data before the command word; a data write stores at once at the address
  latched before, so the sequence writes another word.
- The harness's skip scan walks physical addresses while the CPU wraps IP in its
  segment, and looks at eight bytes: `V20OnlyIsSkipped` carves out exactly these
  cases.
- The harness compares the memory a case lists and no other: a stray write passes,
  and is cleaned up by the dirty list. It ignores what `step` says of itself, so
  an opcode the core lacks counts as a case with its opcode skipped.
- The header comment of `exec.rs` speaks of the documented 80186 set; PUSHA, POPA,
  BOUND, ENTER, LEAVE, the decimal adjustments, XLAT, LDS, LES, LAHF, SAHF and the
  immediate forms of PUSH and IMUL are unimplemented. The comment on `0F` calls it
  a NOP, and it is an unimplemented opcode.

## 6. Not modelled, and the plan

Not modelled on purpose: the command line (pure I/O), the web pages and notes,
`CaptureSink` (a counter and a hash), the packet constructors of the contracts
(length checks without state), the footer fields that only a report reads, the
ranking and wording of the harness's report, accessors of tests.

Modules were written in the order of what matters: interrupts and the CPU's
entry and return, the synthetic core, the memory map and its parts, the
instruction set and its harness, the cartridge and the composed session; then the
proofs, in the same order. What is left:

1. The three laws that need an induction (shifts, strings, the checksum), with a
   prover that can instantiate an induction principle.
2. That the checked program behaves (`ProgramBehaves`) as a theorem rather than a run,
   and with it a program verified from end to end.
3. `OperandsAreExact` speaks of MOV and LEA; the other opcodes with a ModR/M byte decode
   it by the same operator, and a law for each group could say so.
