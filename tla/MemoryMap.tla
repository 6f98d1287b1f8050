--------------------------------- MODULE MemoryMap ---------------------------------
(***********************************************************************************)
(* The physical address space and the I/O ports behind it                          *)
(* (core-ws/src/memory.rs): work RAM, the banked windows on the cartridge's SRAM   *)
(* and ROM, the system control register, and the ports of the palettes, the noise  *)
(* generator and the internal EEPROM. The CPU drives it with byte accesses. Nothing *)
(* ticks the noise generator from here: the map wires its registers alone.         *)
(*                                                                                 *)
(* Abstractions. A byte store is the part of it that was written; the image of the *)
(* cartridge never changes, so the model keeps its length and answers a read of it *)
(* with the offset read.                                                           *)
(***********************************************************************************)
EXTENDS InternalEeprom, NoiseChannel, MonoPalettes, FiniteSets

CONSTANTS
  Models,       \* The models a machine is built for.
  Carts,        \* The cartridges a machine is built with.
  NoCart,       \* No cartridge.
  Addresses,    \* The addresses the CPU accesses.
  Ports,        \* The ports the CPU accesses.
  Bytes         \* The bytes the CPU writes.

\* What the map takes from a cartridge; an image is no shorter than its footer.
Cartridges == [ romLen : { n \in Nat : n >= 16 }, sramLen : Nat, is2003 : BOOLEAN,
                bus16 : BOOLEAN ]

ASSUME ModelsAssumption == Models \subseteq { "Mono", "Color", "Crystal" }
ASSUME CartsAssumption  == /\ NoCart \notin Cartridges
                           /\ Carts \subseteq Cartridges \union {NoCart}
ASSUME BusAssumption    == Addresses \subseteq Nat /\ Ports \subseteq Word /\ Bytes \subseteq Byte

VARIABLES
  model, cart,  \* What the session runs on.
  ram, sram,    \* The written parts of the two stores.
  banks,        \* The bank registers.
  systemCtrl,   \* The writable bits of $A0.
  palette, noise, eeprom

vars == << model, cart, ram, sram, banks, systemCtrl, palette, noise, eeprom >>

IsColor == model \in { "Color", "Crystal" }

RamSize == IF IsColor THEN 65536 ELSE 16384
SramLen == IF cart = NoCart THEN 0 ELSE cart.sramLen
Is2003  == cart # NoCart /\ cart.is2003
OpenBus == IF IsColor THEN 0 ELSE 144

\* The bank registers at power-up: the linear bank is what the boot ROM would leave.
PowerUp == [ linear |-> 255, sram |-> 0, rom0 |-> 0, rom1 |-> 255 ]

Init ==
  /\ model \in Models
  /\ cart \in Carts
  /\ ram = Zeroed
  /\ sram = Zeroed
  /\ banks = PowerUp
  /\ systemCtrl = IF cart # NoCart /\ cart.bus16 THEN 4 ELSE 0
  /\ palette = NewPalettes
  /\ noise = NewNoise
  /\ eeprom = NewEeprom(IsColor)

---------------------------------------------------------------------------------
(* The memory bus.                                                                *)

\* The regions of the 20-bit bus; the linear ROM window is the rest of it.
RamRegion  == 0 .. 65535
SramWindow == 65536 .. 131071
Rom0Window == 131072 .. 196607
Rom1Window == 196608 .. 262143

\* Mutation of SramOffset: the bank is forgotten.
SramOffsetFlat(address) == (address % 65536) % SramLen

SramOffset(address) == (65536 * banks.sram + (address % 65536)) % SramLen

\* The linear bank as far as the mapper implements it: 6 bits of the 2003, 4 of the
\* 2001.
LinearBank == banks.linear % (IF Is2003 THEN 64 ELSE 16)

\* Mutation of RomFlat: the linear window is counted from its base.
RomFlatFromBase(address) ==
  CASE address \in Rom0Window -> 65536 * banks.rom0 + (address % 65536)
    [] address \in Rom1Window -> 65536 * banks.rom1 + (address % 65536)
    [] OTHER                  -> 1048576 * LinearBank + (address - 262144)

\* A ROM address with its bank: two windows of 64 KiB, then the linear one.
RomFlat(address) ==
  CASE address \in Rom0Window -> 65536 * banks.rom0 + (address % 65536)
    [] address \in Rom1Window -> 65536 * banks.rom1 + (address % 65536)
    [] OTHER                  -> 1048576 * LinearBank + address

\* The ROM mirrors at its length in every window.
RomOffset(address) == RomFlat(address) % cart.romLen

\* The store an address of the 20-bit bus selects, and the offset in it.
Nowhere == << "open", 0 >>
RamCell(a)  == IF a < RamSize THEN << "ram", a >> ELSE Nowhere
SramCell(a) == IF SramLen = 0 THEN Nowhere ELSE << "sram", SramOffset(a) >>
RomCell(a)  == IF cart = NoCart THEN Nowhere ELSE << "rom", RomOffset(a) >>

Cell(address) ==
  LET a == address % 1048576
  IN  CASE a \in RamRegion  -> RamCell(a)
        [] a \in SramWindow -> SramCell(a)
        [] OTHER           -> RomCell(a)

\* The byte a store other than the ROM answers with.
Read(address) ==
  LET cell == Cell(address)
  IN  CASE cell[1] = "ram"  -> At(ram, cell[2])
        [] cell[1] = "sram" -> At(sram, cell[2])
        [] cell[1] = "open" -> OpenBus

\* A store after a write; one to ROM or to nowhere is ignored.
RamAfter(address, b) ==
  LET cell == Cell(address) IN IF cell[1] = "ram" THEN Put(ram, cell[2], b) ELSE ram
SramAfter(address, b) ==
  LET cell == Cell(address) IN IF cell[1] = "sram" THEN Put(sram, cell[2], b) ELSE sram

MemWrite(address, b) ==
  /\ ram'  = RamAfter(address, b)
  /\ sram' = SramAfter(address, b)
  /\ UNCHANGED << model, cart, banks, systemCtrl, palette, noise, eeprom >>

---------------------------------------------------------------------------------
(* The I/O bus.                                                                   *)

\* Mutation of Route: the SoC decodes the low byte of the port alone.
RouteByLowByte(port) ==
  CASE port \in 184 .. 191 -> "eeprom"
    [] port \in 192 .. 255 -> "cartridge"
    [] port % 256 <= 183   -> "soc"
    [] OTHER               -> "open"

\* The block a port decodes to: the SoC keys off the low nine bits, the others off
\* the whole port.
Route(port) ==
  CASE port \in 184 .. 191 -> "eeprom"
    [] port \in 192 .. 255 -> "cartridge"
    [] port % 512 <= 183   -> "soc"
    [] OTHER               -> "open"

RegBank(port) == << "linear", "sram", "rom0", "rom1" >>[port - 191]

\* Mutation of WithSystemCtrl: the latch can be cleared.
WithSystemCtrlPlain(old, b) == (b % 2) + 4 * ((b \div 4) % 4)

\* The one-way latch in bit 0; bits 2 and 3 are free, the others are not stored.
WithSystemCtrl(old, b) ==
  (IF BitSet(old, 0) \/ BitSet(b, 0) THEN 1 ELSE 0) + 4 * ((b \div 4) % 4)

ReadSystemCtrl ==
  systemCtrl + (IF IsColor THEN 2 ELSE 0) + (IF cart # NoCart THEN 128 ELSE 0)

SocRead(reg) ==
  CASE reg = 160        -> ReadSystemCtrl
    [] reg \in 28 .. 31 -> ReadPool(palette, reg - 28)
    [] reg \in 32 .. 63 -> ReadPalette(palette, reg - 32)
    [] reg = 146        -> LowByte(noise.counter)
    [] reg = 147        -> HighByte(noise.counter)
    [] OTHER            -> OpenBus

EepromRead(port) ==
  CASE port \in {186, 187} -> DataByte(eeprom, port = 187)
    [] port \in {188, 189} -> AddrByte(eeprom, port = 189)
    [] port = 190          -> Status(eeprom)
    [] OTHER               -> OpenBus

CartRead(port) ==
  CASE port = 192          -> LinearBank
    [] port \in 193 .. 195 -> banks[RegBank(port)]
    [] OTHER               -> OpenBus

IoRead(port) ==
  CASE Route(port) = "eeprom"    -> EepromRead(port)
    [] Route(port) = "cartridge" -> CartRead(port)
    [] Route(port) = "soc"       -> SocRead(port % 256)
    [] Route(port) = "open"      -> OpenBus

\* The registers of each block after a write to one of its ports.
SystemCtrlAfter(reg, b) == IF reg = 160 THEN WithSystemCtrl(systemCtrl, b) ELSE systemCtrl

PaletteAfter(reg, b) ==
  CASE reg \in 28 .. 31 -> WritePool(palette, reg - 28, b)
    [] reg \in 32 .. 63 -> WritePalette(palette, reg - 32, b)
    [] OTHER            -> palette

NoiseAfter(reg, b) ==
  CASE reg = 142 -> WithSoundNoise(noise, b)
    [] reg = 144 -> WithSoundCtrl(noise, b)
    [] OTHER     -> noise

BanksAfter(port, b) ==
  IF port \in 192 .. 195 THEN [ banks EXCEPT ![RegBank(port)] = b ] ELSE banks

EepromAfter(port, b) ==
  CASE port \in {186, 187} -> WriteData(eeprom, port = 187, b)
    [] port \in {188, 189} -> SetAddr(eeprom, port = 189, b)
    [] port = 190          -> SetCommand(eeprom, b)
    [] OTHER               -> eeprom

SocWrite(reg, b) ==
  /\ systemCtrl' = SystemCtrlAfter(reg, b)
  /\ palette' = PaletteAfter(reg, b)
  /\ noise' = NoiseAfter(reg, b)
  /\ UNCHANGED << banks, eeprom >>

CartWrite(port, b) ==
  /\ banks' = BanksAfter(port, b)
  /\ UNCHANGED << systemCtrl, palette, noise, eeprom >>

EepromWrite(port, b) ==
  /\ eeprom' = EepromAfter(port, b)
  /\ UNCHANGED << banks, systemCtrl, palette, noise >>

IoWrite(port, b) ==
  /\ \/ Route(port) = "soc" /\ SocWrite(port % 256, b)
     \/ Route(port) = "cartridge" /\ CartWrite(port, b)
     \/ Route(port) = "eeprom" /\ EepromWrite(port, b)
     \/ Route(port) = "open" /\ UNCHANGED << banks, systemCtrl, palette, noise, eeprom >>
  /\ UNCHANGED << model, cart, ram, sram >>

\* read_u8 and io_read change nothing.
ReadAccess == UNCHANGED vars

Next ==
  \/ ReadAccess
  \/ \E a \in Addresses, b \in Bytes : MemWrite(a, b)
  \/ \E p \in Ports, b \in Bytes : IoWrite(p, b)

Spec == Init /\ [][Next]_vars
---------------------------------------------------------------------------------

\* A byte array: its written offsets are below its length.
Store(array, length) ==
  /\ DOMAIN array \subseteq 0 .. length - 1
  /\ \A o \in DOMAIN array : array[o] \in Byte

\* Every register keeps its width, and a store is only written inside its bounds
\* whatever the bank, the mirror and the model are (the index expressions of
\* memory.rs and eeprom.rs, which would panic).
TypeOK ==
  /\ model \in Models /\ cart \in Carts
  /\ Store(ram, RamSize)
  /\ Store(sram, SramLen)
  /\ banks \in [ { "linear", "sram", "rom0", "rom1" } -> Byte ]
  /\ systemCtrl \in {0, 1, 4, 5, 8, 9, 12, 13}
  /\ palette \in [ pool     : [ 0 .. 7 -> 0 .. 15 ],
                   palettes : [ 0 .. 15 -> [ 0 .. 3 -> 0 .. 7 ] ] ]
  /\ noise \in Noises
  /\ DOMAIN eeprom = { "size", "store", "address", "command" }
  /\ eeprom.size = (IF IsColor THEN WscBytes ELSE WsBytes)
  /\ Store(eeprom.store, eeprom.size)
  /\ eeprom.address \in Word
  /\ eeprom.command \in Byte

\* The reset vector reaches the cartridge's footer while the linear bank holds what
\* it powered up with, for every ROM size: "the top of the cartridge ROM maps to the
\* reset vector (0xFFFF0) for *every* ROM size" (memory.rs:60-61).
BootVector ==
  cart # NoCart /\ banks.linear = 255 => Cell(1048560) = << "rom", cart.romLen - 16 >>

\* Where colour 0 is transparent a palette holds index 0 for it, whatever was written
\* to its registers: the rule of write_palette and the rule of
\* color_zero_transparent (palette.rs) name the same palettes.
TransparentColourZero ==
  \A p \in 0 .. 15 : ColorZeroTransparent(TRUE, p, FALSE) => palette.palettes[p][0] = 0
=====================================================================================
