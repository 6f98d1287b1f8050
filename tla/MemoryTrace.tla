-------------------------------- MODULE MemoryTrace --------------------------------
(***********************************************************************************)
(* The memory map with a record of what the CPU wrote, and what the CPU may expect *)
(* of it: a read returns what the last write to the same cell or register stored,  *)
(* under whatever banks, aliases and other writes came between.                    *)
(***********************************************************************************)
EXTENDS MemoryMap, Histories

CONSTANT Workloads   \* What a program writes: to which addresses and ports, which bytes, and
                     \* how often (a bound of the model).

ASSUME WorkloadsAssumption ==
  Workloads \subseteq [ addresses : SUBSET Addresses, ports : SUBSET Ports,
                        bytes : SUBSET Bytes, writes : Nat ]

VARIABLES
  workload,     \* The writes of this session.
  log           \* History: the writes, each with the SRAM bank and EEPROM address then.

Writes == [ bus : {"memory", "io"}, at : Nat, byte : Byte, bank : Byte, word : Word ]

traceVars == << model, cart, ram, sram, banks, systemCtrl, palette, noise, eeprom,
                workload, log >>

Logged(bus, at, b) ==
  /\ Len(log) < workload.writes
  /\ log' = Append(log, [ bus |-> bus, at |-> at, byte |-> b,
                          bank |-> banks.sram, word |-> eeprom.address ])
  /\ UNCHANGED workload

TraceInit == Init /\ workload \in Workloads /\ log = << >>

TraceNext ==
  \/ ReadAccess /\ UNCHANGED << workload, log >>
  \/ \E a \in workload.addresses, b \in workload.bytes :
       MemWrite(a, b) /\ Logged("memory", a % 1048576, b)
  \/ \E p \in workload.ports, b \in workload.bytes : IoWrite(p, b) /\ Logged("io", p, b)

TraceSpec == TraceInit /\ [][TraceNext]_traceVars
---------------------------------------------------------------------------------

\* The byte of the last of some writes of a record, or what was there at power-up.
Latest(list, writes, powerUp) ==
  LET k == LastIn(list, writes) IN IF k = 0 THEN powerUp ELSE list[k].byte

\* Bytes a and b have the same bits in mask.
Agree(a, b, mask) == \A n \in 0 .. 7 : BitSet(mask, n) => BitSet(a, n) = BitSet(b, n)

\* The writes to an address of work RAM, and those to the cell of SRAM that an address of
\* the window shows under the present bank.
RamWrites(a)  == { w \in Writes : w.bus = "memory" /\ w.at = a }
SramWrites(a) ==
  { w \in Writes : /\ w.bus = "memory" /\ w.at \in SramWindow
                   /\ (65536 * (w.bank - banks.sram) + (w.at - a)) % SramLen = 0 }

\* A read of work RAM or of the SRAM window returns the last byte the CPU stored in
\* that cell: for SRAM through whichever bank it is seen, and seen again after other
\* banks were selected, with mirrors at the size of the chip; beyond the RAM of the
\* monochrome model, and without a chip, a read is open bus (read_u8, write_u8).
MemoryReadsLastWrite ==
  \A address \in workload.addresses :
    LET a == address % 1048576
    IN  /\ a < RamSize => Read(address) = Latest(log, RamWrites(a), 0)
        /\ a \in RamRegion /\ a >= RamSize => Read(address) = OpenBus
        /\ a \in SramWindow =>
             Read(address) = IF SramLen = 0 THEN OpenBus ELSE Latest(log, SramWrites(a), 0)

\* The bits of a register that read back as written, and its power-up value.
Readable(port) ==
  CASE port \in 28 .. 31 \union 193 .. 195 \union {188, 189} -> 255
    [] port \in 32 .. 63 -> IF port % 2 = 0 /\ ((port - 32) \div 2) \in 4 .. 7 \union 12 .. 15
                            THEN 112 ELSE 119
    [] port = 160        -> 12
    [] port = 190        -> 252
    [] port = 192        -> IF Is2003 THEN 63 ELSE 15
    [] OTHER             -> 0

PowerUpByte(port) ==
  CASE port \in {192, 195} -> 255
    [] port = 160          -> IF cart # NoCart /\ cart.bus16 THEN 4 ELSE 0
    [] OTHER               -> 0

\* The register a port is an alias of: the SoC block repeats every 512 ports, the
\* cartridge and EEPROM ports do not.
Register(port) == IF port % 512 < 184 THEN port % 512 ELSE port

\* The writes to a register, under any of its aliases.
RegisterWrites(reg) == { w \in Writes : w.bus = "io" /\ Register(w.at) = reg }

\* Every register reads back the last byte written to it under any of its aliases, in
\* the bits it implements, and no write to another register changes it (io_write and
\* io_read route alike).
RegistersReadBack ==
  \A port \in workload.ports :
    LET reg == Register(port)
    IN  Agree(IoRead(port), Latest(log, RegisterWrites(reg), PowerUpByte(reg)), Readable(reg))

\* The boot-ROM lockout is one-way: bit 0 of $A0 reads 1 from the first write that
\* sets it, through any alias, and for ever after (write_system_ctrl).
LockoutOneWay ==
  BitSet(IoRead(160), 0) =
    \E k \in 1 .. Len(log) :
      log[k].bus = "io" /\ Register(log[k].at) = 160 /\ BitSet(log[k].byte, 0)

\* The writes of a data port to the addressed word, or to one that is equal modulo the
\* words of the model's chip, 64 or 1024.
HalfWordWrites(port) ==
  { w \in Writes : /\ w.bus = "io" /\ w.at = port
                   /\ (w.word - eeprom.address) % (IF IsColor THEN 1024 ELSE 64) = 0 }

\* A data port of the EEPROM reads the last byte written to that half of the word, for
\* words that are equal modulo the words of the model's chip: what a game probes the
\* chip's size by (eeprom.rs, community bug 8).
EepromReadsLastWrite ==
  \A port \in {186, 187} : IoRead(port) = Latest(log, HalfWordWrites(port), 0)
=====================================================================================
