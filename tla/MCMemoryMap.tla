-------------------------------- MODULE MCMemoryMap --------------------------------
(***********************************************************************************)
(* The memory map with three programs, on both sizes of RAM and EEPROM: one that   *)
(* uses memory and the SRAM bank, one that programs registers, one that uses the   *)
(* EEPROM.                                                                         *)
(***********************************************************************************)
EXTENDS MemoryTrace

MCModels == { "Mono", "Color" }

Cartridge(romLen, sramLen, is2003) ==
  [ romLen |-> romLen, sramLen |-> sramLen, is2003 |-> is2003, bus16 |-> is2003 ]

MiB == 1048576

\* Without SRAM, with the 32 KiB of save type 2 and the 128 KiB of save type 3; the ROM
\* sizes are powers of two, up to what the mapper reaches.
MCCarts == { NoCart, Cartridge(MiB \div 2, 0, TRUE), Cartridge(16 * MiB, 32768, FALSE),
             Cartridge(64 * MiB, 131072, TRUE) }

\* The edge of the monochrome RAM, two cells 32 KiB apart in the SRAM window, one of
\* them again above 1 MiB, and ROM, with the SRAM bank.
Memory == [ addresses |-> { 16383, 16384, 65536, 98304, 1114112, 131072 },
            ports |-> {193}, bytes |-> {1, 2}, writes |-> 4 ]

\* The system control, palette and bank registers, some under an alias, and ports that
\* only look like an alias.
Registers == [ addresses |-> {}, ports |-> { 28, 31, 42, 43, 554, 160, 672, 416, 192, 704, 195, 190 },
               bytes |-> { 5, 187, 254 }, writes |-> 3 ]

\* The EEPROM ports, with word addresses that alias on the small chip alone.
Settings == [ addresses |-> {}, ports |-> 186 .. 189, bytes |-> { 0, 4, 64 }, writes |-> 4 ]

MCWorkloads == { Memory, Registers, Settings }

\* The vector alone, on the ROMs of 3 and 6 MiB (format-ws/src/header.rs:92,94).
OddCarts     == { Cartridge(3 * MiB, 0, FALSE), Cartridge(6 * MiB, 0, TRUE) }
BootWorkload == { [ addresses |-> {}, ports |-> {192}, bytes |-> {0, 255}, writes |-> 2 ] }

MCAddresses == UNION { w.addresses : w \in MCWorkloads }
MCPorts     == UNION { w.ports : w \in MCWorkloads }
MCBytes     == UNION { w.bytes : w \in MCWorkloads } \union {255}
=====================================================================================
