----------------------------------- MODULE Session -----------------------------------
(***********************************************************************************)
(* A whole session: a cartridge image is parsed, a machine is built with it and    *)
(* powered on, and Machine::step runs the bytes of the image on the byte-level CPU *)
(* with the whole bus behind it: the memory map and the cartridge, the interrupt   *)
(* controller and the serial port (core-ws/src: cartridge.rs, machine.rs). Between *)
(* two steps the host may raise the vertical blank.                                *)
(*                                                                                 *)
(* The bus is a record of the fields of the components' modules.                   *)
(***********************************************************************************)
EXTENDS Integers, Sequences, FiniteSets, TLC

CONSTANTS
  Images,       \* The images as they were dumped.
  Models,       \* The models a machine is built for.
  Damages,      \* The damages to an image: pairs of an offset and a byte.
  MaxEvents,    \* How often the host raises the line (a bound of the model).
  NoCart

VARIABLES
  dumped,   \* The image as it was dumped.
  image,    \* The image the program is given.
  phase,    \* "file" before the image is parsed; then "running" or "refused".
  cpu,      \* Machine.cpu, with Machine.bus as its bus.
  events    \* How often the host raised the line.

vars == << dumped, image, phase, cpu, events >>

---------------------------------------------------------------------------------
(* The bus.                                                                       *)

Rom == INSTANCE RomFormat

\* The memory map, the controller and the serial port of a bus.
Map(bus) == INSTANCE MemoryMap WITH
  model <- bus.model, cart <- bus.cart, ram <- bus.ram, sram <- bus.sram, banks <- bus.banks,
  systemCtrl <- bus.systemCtrl, palette <- bus.palette, noise <- bus.noise, eeprom <- bus.eeprom,
  Carts <- {}, Addresses <- {}, Ports <- {}, Bytes <- {}

Port(bus) == INSTANCE SerialPort WITH
  interrupts <- bus.interrupts, serial <- bus.serial, Bytes <- {}, EnableMasks <- {}

\* What the memory map takes from a cartridge: SRAM is there for an SRAM code alone.
CartOf(rom) ==
  LET code == Rom!SaveType(rom)
  IN  [ romLen  |-> rom.len,
        sramLen |-> IF Rom!SaveKind(code) = "sram" THEN Rom!SaveBytes(code) ELSE 0,
        is2003  |-> Rom!Is2003(rom),
        bus16   |-> Rom!Bus16(rom) ]

\* An image has a length, and a machine that is built with one has a cartridge.
ASSUME ImagesAssumption == \A i \in Images : i.len \in Nat /\ NoCart # CartOf(i)

NewBus(model, rom) ==
  LET map == [ model |-> model ]
  IN  [ model |-> model, cart |-> CartOf(rom),
        ram |-> Map(map)!Zeroed, sram |-> Map(map)!Zeroed, banks |-> Map(map)!PowerUp,
        systemCtrl |-> IF Rom!Bus16(rom) THEN 4 ELSE 0,
        palette |-> Map(map)!NewPalettes, noise |-> Map(map)!NewNoise,
        eeprom |-> Map(map)!NewEeprom(Map(map)!IsColor),
        interrupts |-> Port(map)!NewController, serial |-> FALSE ]

BusRead(bus, address) ==
  LET cell == Map(bus)!Cell(address)
  IN  IF cell[1] = "rom" THEN Rom!At(image.bytes, cell[2]) ELSE Map(bus)!Read(address)

BusWrite(bus, address, b) ==
  [ bus EXCEPT !.ram = Map(bus)!RamAfter(address, b), !.sram = Map(bus)!SramAfter(address, b) ]

RegIntBase   == \hB0
RegSerStatus == \hB3
RegIntAck    == \hB6

PortRead(bus, port) ==
  CASE port = RegIntBase   -> bus.interrupts.base
    [] port = RegSerStatus -> IF bus.serial THEN 128 ELSE 0
    [] OTHER               -> Map(bus)!IoRead(port)

\* A write to a port the memory map decodes.
MapWrite(bus, port, b) ==
  LET block == Map(bus)!Route(port)
      reg   == port % 256
  IN  CASE block = "soc" ->
             [ bus EXCEPT !.systemCtrl = Map(bus)!SystemCtrlAfter(reg, b),
                          !.palette = Map(bus)!PaletteAfter(reg, b), !.noise = Map(bus)!NoiseAfter(reg, b) ]
        [] block = "cartridge" -> [ bus EXCEPT !.banks = Map(bus)!BanksAfter(port, b) ]
        [] block = "eeprom"    -> [ bus EXCEPT !.eeprom = Map(bus)!EepromAfter(port, b) ]
        [] block = "open"      -> bus

PortWrite(bus, port, b) ==
  LET ic     == bus.interrupts
      enable == Port(bus)!SerEnable(b)
  IN  CASE port = RegIntBase   -> [ bus EXCEPT !.interrupts = Port(bus)!SetBase(ic, b) ]
        [] port = RegIntAck    -> [ bus EXCEPT !.interrupts = Port(bus)!Acknowledge(ic, Port(bus)!LinesOf(b)) ]
        [] port = RegSerStatus ->
             [ bus EXCEPT !.interrupts = Port(bus)!SetEnabled(ic, bus.serial, enable), !.serial = enable ]
        [] OTHER               -> MapWrite(bus, port, b)

INSTANCE Instructions

---------------------------------------------------------------------------------

Init ==
  /\ dumped \in Images
  /\ image = dumped
  /\ phase = "file"
  /\ cpu = NewCpu(<< >>)
  /\ events = 0

\* A byte of the file changes before anything reads it: nothing in the program, but
\* what the checksum is there for. A damaged image is not run.
Damage(offset, b) ==
  /\ phase = "file"
  /\ image = dumped
  /\ offset < image.len
  /\ Rom!At(image.bytes, offset) # b
  /\ image' = [ image EXCEPT !.bytes = (offset :> b) @@ @ ]
  /\ UNCHANGED << dumped, phase, cpu, events >>

Refuse ==
  /\ phase = "file"
  /\ Rom!Parse(image) # "Ok"
  /\ phase' = "refused"
  /\ UNCHANGED << dumped, image, cpu, events >>

PowerOn(model) ==
  /\ phase = "file"
  /\ image = dumped
  /\ Rom!Parse(image) = "Ok"
  /\ phase' = "running"
  /\ cpu' = NewCpu(NewBus(model, image))
  /\ UNCHANGED << dumped, image, events >>

\* The CPU that executes the instruction of this step, an interrupt delivered.
AtBoundary ==
  LET ic  == cpu.bus.interrupts
      bus == cpu.bus
  IN  IF "interrupt" \in cpu.flags /\ Port(bus)!PendingEnabled(ic)
      THEN ServiceInterrupt(cpu, Port(bus)!Vector(ic, Port(bus)!Highest(ic)))
      ELSE cpu

\* A call of step on a halted CPU that nothing wakes changes nothing.
StepHalted ==
  /\ phase = "running"
  /\ AtBoundary.halted
  /\ UNCHANGED vars

Step ==
  /\ phase = "running"
  /\ ~ AtBoundary.halted
  /\ cpu' = Stepped(AtBoundary)
  /\ UNCHANGED << dumped, image, phase, events >>

Vblank == 6

\* The host enables the line and raises it anew.
HostRaise ==
  LET ic == cpu.bus.interrupts
  IN  /\ phase = "running"
      /\ events < MaxEvents
      /\ Vblank \notin ic.pending
      /\ cpu' = [ cpu EXCEPT !.bus.interrupts =
                    Port(cpu.bus)!Raise(Port(cpu.bus)!SetEnable(ic, {Vblank}), Vblank) ]
      /\ events' = events + 1
      /\ UNCHANGED << dumped, image, phase >>

Next ==
  \/ \E d \in Damages : Damage(d[1], d[2])
  \/ Refuse
  \/ \E m \in Models : PowerOn(m)
  \/ Step
  \/ StepHalted
  \/ HostRaise

Spec == Init /\ [][Next]_vars
---------------------------------------------------------------------------------

\* The machine has just been powered on; the host may have raised the line.
AtReset ==
  /\ phase = "running"
  /\ \E m \in Models :
       cpu = [ NewCpu(NewBus(m, image)) EXCEPT !.bus.interrupts = cpu.bus.interrupts ]

\* The first instruction is at the reset vector and jumps where the footer's boot entry
\* says, for every ROM whose length divides what its mapper reaches: "footer byte 0x00 is
\* physical 0xFFFF0, so the first five footer bytes are the boot far-jump"
\* (header.rs:4-7). It joins the footer's decoding, the reset state, the windows of the
\* memory map, the mapper, and JMP FAR. A program that comes back to the vector may have
\* another bank there.
EntersAtBootEntry ==
  [][ LET entry == Rom!BootEntry(image)
          range == 1048576 * (IF Rom!Is2003(image) THEN 64 ELSE 16)
      IN  (AtReset /\ events' = events /\ entry.kind = "far" /\ range % image.len = 0)
            => cpu'.seg[CS] = entry.segment /\ cpu'.ip = entry.offset ]_vars

\* One changed byte, of the footer and of the checksum too, never escapes the checksum,
\* and an image as it was dumped has a valid one.
ChecksumTellsDamage == Rom!Parse(image) = "Ok" => (Rom!ChecksumValid(image) <=> image = dumped)
=====================================================================================
