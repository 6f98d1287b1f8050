---------------------------------- MODULE MCSession ----------------------------------
(***********************************************************************************)
(* Images for Session. All but the smallest hold one program, at F000:0100 in the  *)
(* last bank: it sets up a stack, copies the handler of the vertical blank from    *)
(* ROM to RAM with one repeated and overridden MOVSB, sets up its vector, enables  *)
(* interrupts, stores two bytes at one offset of two banks of save memory, reads   *)
(* the first bank again and halts. The handler acknowledges and counts in BX.      *)
(***********************************************************************************)
EXTENDS Session

LOCAL INSTANCE FiniteSetsExt

Handler == 80   \* Offset of the handler from the program's, in ROM.

Program ==
  << \hBC, \h00, \h20 >>                      \* MOV SP, 2000
  \o << \hBE, \h50, \h01, \hBF, \h00, \h30 >>    \* MOV SI, 0150; MOV DI, 3000
  \o << \hB9, \h08, \h00, \hF3, \h2E, \hA4 >>    \* MOV CX, 8; REP CS: MOVSB
  \o << \hC7, \h06, \h98, \h00, \h00, \h30 >>    \* MOV word [0098], 3000
  \o << \hC7, \h06, \h9A, \h00, \h00, \h00 >>    \* MOV word [009A], 0000
  \o << \hB0, \h20, \hE6, \hB0 >>              \* MOV AL, 20; OUT B0, AL
  \o << \hFB, \hB8, \h00, \h10, \h8E, \hD8 >>    \* STI; MOV AX, 1000; MOV DS, AX
  \o << \hC6, \h06, \h34, \h12, \hA5 >>         \* MOV byte [1234], A5
  \o << \hB0, \h01, \hE6, \hC1 >>              \* MOV AL, 01; OUT C1, AL
  \o << \hC6, \h06, \h34, \h12, \h5A >>         \* MOV byte [1234], 5A
  \o << \hB0, \h00, \hE6, \hC1 >>              \* MOV AL, 00; OUT C1, AL
  \o << \hA0, \h34, \h12, \hF4, \hEB, \hFD >>    \* MOV AL, [1234]; HLT; JMP to the HLT

\* PUSH AX; INC BX; MOV AL, 40; OUT B6, AL; POP AX; IRET
HandlerCode == << \h50, \h43, \hB0, \h40, \hE6, \hB6, \h58, \hCF >>

\* Bytes from an offset on.
Placed(offset, bytes) == [ o \in offset .. offset + Len(bytes) - 1 |-> bytes[o - offset + 1] ]

\* An image of a length with a boot jump, codes in the footer, and a right checksum.
ImageOf(len, boot, save, flags, mapper, program) ==
  LET body == Placed(len - 16, boot) @@ ((len - 5) :> save) @@ ((len - 4) :> flags)
                @@ ((len - 3) :> mapper) @@ program
      sum  == MapThenSumSet(LAMBDA o : body[o], DOMAIN body)
  IN  [ len |-> len, bytes |-> ((len - 2) :> sum % 256) @@ ((len - 1) :> (sum \div 256) % 256) @@ body ]

JumpToProgram == << \hEA, \h00, \h01, \h00, \hF0 >>

\* A NOP first: the footer has no boot entry by its own rule.
NopThenJump == << \h90, \hEA, \h00, \h01, \h00, \hF0 >>

Cartridge(len, boot, save, flags, mapper) ==
  ImageOf(len, boot, save, flags, mapper,
          Placed(len - 65536 + 256, Program) @@ Placed(len - 65536 + 256 + Handler, HandlerCode))

\* The lengths declared by the ROM size codes, less those of 3 and 6 MiB, whose vector
\* is elsewhere, and what the mapper does not reach.
Lengths(mapper) ==
  { Rom!RomSizeBytes(code) : code \in 0 .. (IF mapper = 1 THEN 11 ELSE 9) \ {5, 7} } \union {65536}

SaveCodes == {0, 1, 2, 3, 4, 5, \h10, \h20, \h50, 6}

\* A footer and nothing else, which jumps to itself.
Smallest == ImageOf(16, << \hEA, 0, 0, 255, 255 >>, 0, 0, 0, << >>)

MCImages ==
  UNION { { Cartridge(len, JumpToProgram, 2, 4, mapper) : len \in Lengths(mapper) } : mapper \in {0, 1, 2} }
  \union { Cartridge(131072, boot, save, 0, 16) : save \in SaveCodes, boot \in {JumpToProgram, NopThenJump} }
  \union { Smallest, [ len |-> 15, bytes |-> << >> ], [ len |-> 67108865, bytes |-> << >> ] }

\* The first byte, bytes of the program, of the footer and of the checksum, some of them
\* in no image but those of 128 KiB, and padding.
MCDamages ==
  { 0, 7, 13, 14, 15, 65792, 65793, 100000, 131056, 131057, 131067, 131070, 131071 } \X {0, 1, 127, 128, 255}

MCModels == { "Mono", "Color", "Crystal" }

---------------------------------------------------------------------------------

\* The byte the program ends with, by the table of save types of the hardware notes
\* (docs/hardware/06-cartridge.md): two banks are two cells where there are more than
\* 64 KiB of SRAM, and one cell in 32 KiB; no SRAM is open bus.
Expected ==
  LET save == Rom!SaveType(image)
  IN  CASE save \in {3, 4, 5} -> \hA5
        [] save \in {1, 2}    -> \h5A
        [] OTHER              -> IF cpu.bus.model = "Mono" THEN \h90 ELSE 0

\* Where the program halts it has read the save memory its footer declares, and every
\* interrupt that was raised has been served once or still waits, wherever it arrived:
\* before the vector was set up, between the two stores, or during the halt. It joins
\* the footer's save type, the SRAM bank register, the stores and loads through the
\* memory map, and interrupt entry and return with a stack and vectors in RAM.
EndsAsDeclared ==
  (phase = "running" /\ cpu.halted) =>
    /\ cpu.reg[AX] = 4096 + Expected
    /\ cpu.reg[BX] + Cardinality(cpu.bus.interrupts.pending) = events
    /\ cpu.reg[SP] = 8192 /\ cpu.outcome = "halted"
=====================================================================================
