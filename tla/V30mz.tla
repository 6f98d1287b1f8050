------------------------------------ MODULE V30mz ------------------------------------
(***********************************************************************************)
(* The instruction set of the V30MZ core, byte by byte: fetch, prefixes, operand   *)
(* decoding, execution and the string loop (cpu-v30mz/src: lib.rs, registers.rs,   *)
(* decode.rs, exec.rs). A CPU is a record with the bus it is attached to; what a   *)
(* method does to it is an operator from the CPU to the CPU it leaves behind.      *)
(*                                                                                 *)
(* The byte and the word form of an instruction are one definition for an operand  *)
(* width of 8 or 16 bits. The registers are functions of their encodings, so that  *)
(* every accessor of the register file is an application or an EXCEPT.             *)
(***********************************************************************************)
EXTENDS Alu

CONSTANTS   \* The CpuBus the core is driven with.
  BusRead(_, _),      \* The byte of a bus at a physical address.
  BusWrite(_, _, _),  \* A bus after a byte is written at a physical address.
  PortRead(_, _),     \* The byte a port answers a read with.
  PortWrite(_, _, _)  \* A bus after a byte is written to a port.

\* The encodings of the word registers and of the segment registers.
AX == 0
CX == 1
DX == 2
BX == 3
SP == 4
BP == 5
SI == 6
DI == 7

ES == 0
CS == 1
SS == 2
DS == 3

\* The 20-bit address, wrapping at 1 MiB, and a 16-bit offset.
PhysicalAddress(segment, offset) == (16 * segment + offset) % 1048576
Wrap(offset) == offset % 65536

\* The hard-reset state: CS:IP = FFFF:0000.
NewCpu(bus) ==
  [ reg |-> [ i \in AX .. DI |-> 0 ], seg |-> [ i \in ES .. DS |-> IF i = CS THEN 65535 ELSE 0 ],
    ip |-> 0, flags |-> {}, halted |-> FALSE, outcome |-> "executed", bus |-> bus ]

---------------------------------------------------------------------------------
(* Memory and operands.                                                           *)

ReadMem(c, segment, offset, w) ==
  LET lo == BusRead(c.bus, PhysicalAddress(segment, offset))
      hi == BusRead(c.bus, PhysicalAddress(segment, Wrap(offset + 1)))
  IN  IF w = 8 THEN lo ELSE lo + 256 * hi

\* Mutation of WriteMem: the second byte of a word leaves the segment.
WriteMemFlat(c, segment, offset, v, w) ==
  LET low == BusWrite(c.bus, PhysicalAddress(segment, offset), LowByte(v))
  IN  [ c EXCEPT !.bus = IF w = 8 THEN low
          ELSE BusWrite(low, PhysicalAddress(segment, offset + 1), HighByte(v)) ]

\* The second byte of a word stays in the segment of the first.
WriteMem(c, segment, offset, v, w) ==
  LET low == BusWrite(c.bus, PhysicalAddress(segment, offset), LowByte(v))
  IN  [ c EXCEPT !.bus = IF w = 8 THEN low
          ELSE BusWrite(low, PhysicalAddress(segment, Wrap(offset + 1)), HighByte(v)) ]

\* An operand is a register, by its encoding, or a place in memory.
Register(i)             == [ kind |-> "register", index |-> i ]
Memory(segment, offset) == [ kind |-> "memory", segment |-> segment, offset |-> offset ]

\* The byte registers 4 to 7 are the upper halves of the first four words.
Value(c, operand, w) ==
  LET i == operand.index
  IN  CASE operand.kind = "memory" -> ReadMem(c, operand.segment, operand.offset, w)
        [] operand.kind = "register" /\ w = 16 -> c.reg[i]
        [] operand.kind = "register" /\ w = 8  -> IF i < 4 THEN LowByte(c.reg[i])
                                                           ELSE HighByte(c.reg[i - 4])

SetRegister(c, i, v) == [ c EXCEPT !.reg[i] = v ]

Store(c, operand, v, w) ==
  LET i == operand.index
  IN  CASE operand.kind = "memory" -> WriteMem(c, operand.segment, operand.offset, v, w)
        [] operand.kind = "register" /\ w = 16 -> SetRegister(c, i, v)
        [] operand.kind = "register" /\ w = 8  ->
             IF i < 4 THEN SetRegister(c, i, WithLow(c.reg[i], v))
                      ELSE SetRegister(c, i - 4, WithHigh(c.reg[i - 4], v))

\* The next w bits of the instruction stream, and the CPU past them; IP wraps.
Immediate(c, w) == ReadMem(c, c.seg[CS], c.ip, w)
Past(c, w)      == [ c EXCEPT !.ip = Wrap(@ + w \div 8) ]

SignExtended(b) == IF b >= 128 THEN 65280 + b ELSE b

\* The base of an addressing mode; one with BP in it is relative to SS.
BaseOffset(c, mode, rm) ==
  CASE rm \in {0, 1} -> c.reg[BX] + c.reg[rm + SI]
    [] rm \in {2, 3} -> c.reg[BP] + c.reg[rm - 2 + SI]
    [] rm \in {4, 5} -> c.reg[rm - 4 + SI]
    [] rm = 6        -> IF mode = 0 THEN 0 ELSE c.reg[BP]
    [] rm = 7        -> c.reg[BX]

DefaultSegment(mode, rm) == IF rm \in {2, 3} \/ (rm = 6 /\ mode # 0) THEN SS ELSE DS

DisplacementWidth(mode, rm) ==
  CASE mode = 1 -> 8 [] mode = 2 \/ (mode = 0 /\ rm = 6) -> 16 [] OTHER -> 0

NoOverride == -1

\* The segment a prefix chose, or the default one.
SegmentOr(c, override, default) == IF override = NoOverride THEN c.seg[default] ELSE override

\* The ModR/M byte at IP: its reg field, its operand, and the CPU past it.
DecodeModrm(c, override) ==
  LET modrm == Immediate(c, 8)
      mode  == modrm \div 64
      rm    == modrm % 8
      width == DisplacementWidth(mode, rm)
      next  == Past(c, 8)
      displacement == CASE width = 0 -> 0
                        [] width = 8  -> SignExtended(Immediate(next, 8))
                        [] width = 16 -> Immediate(next, 16)
  IN  [ reg   |-> (modrm \div 8) % 8,
        rm    |-> IF mode = 3 THEN Register(rm)
                  ELSE Memory(SegmentOr(c, override, DefaultSegment(mode, rm)),
                              Wrap(BaseOffset(c, mode, rm) + displacement)),
        after |-> IF mode = 3 THEN next ELSE Past(next, width) ]

---------------------------------------------------------------------------------
(* The stack, interrupts and conditions.                                          *)

Push(c, v) ==
  LET sp == Wrap(c.reg[SP] - 2)
  IN  WriteMem(SetRegister(c, SP, sp), c.seg[SS], sp, v, 16)

Popped(c)   == ReadMem(c, c.seg[SS], c.reg[SP], 16)

Release(c, n) == SetRegister(c, SP, Wrap(c.reg[SP] + n))
PushFar(c)  == Push(Push(c, c.seg[CS]), c.ip)

JumpTo(c, ip)          == [ c EXCEPT !.ip = Wrap(ip) ]
JumpFar(c, cs, ip)     == [ c EXCEPT !.seg[CS] = cs, !.ip = ip ]
WithFlags(c, f)        == [ c EXCEPT !.flags = f ]

\* Push FLAGS, CS and IP, clear IF and TF, enter the handler, leave the halted state.
ServiceInterrupt(c, vector) ==
  LET pushed == PushFar(WithFlags(Push(c, ToWord(c.flags)), c.flags \ {"interrupt", "trap"}))
  IN  [ JumpFar(pushed, ReadMem(pushed, 0, 4 * vector + 2, 16), ReadMem(pushed, 0, 4 * vector, 16))
        EXCEPT !.halted = FALSE ]

\* The condition codes in pairs, the odd one of a pair being the negation.
Condition(f, cc) ==
  LET less  == ("sign" \in f) # ("overflow" \in f)
      holds == << "overflow" \in f, "carry" \in f, "zero" \in f, f \intersect {"carry", "zero"} # {},
                  "sign" \in f, "parity" \in f, less, less \/ "zero" \in f >>[cc \div 2 + 1]
  IN  holds # (cc % 2 = 1)
=====================================================================================
