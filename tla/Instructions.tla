--------------------------------- MODULE Instructions ---------------------------------
(***********************************************************************************)
(* The opcode table of the V30MZ core (cpu-v30mz/src/exec.rs), one operator per    *)
(* group of instructions. Each is given the CPU with IP past the opcode, the       *)
(* opcode and the segment a prefix chose. A string instruction is given as one     *)
(* iteration; the loop a REP prefix makes of it belongs to the step.               *)
(***********************************************************************************)
EXTENDS V30mz

Width(op) == IF op % 2 = 1 THEN 16 ELSE 8

Accumulator == Register(AX)

\* MOV between a register and memory, MOV of a segment register, LEA (which leaves a
\* register operand alone) and MOV of an immediate to memory.
MoveModrm == \h88 .. \h8E \union {\hC6, \hC7}

ExecuteMove(c, op, override) ==
  LET m == DecodeModrm(c, override)
      n == m.after
      w == Width(op)
  IN  CASE op \in {\h88, \h89} -> Store(n, m.rm, Value(n, Register(m.reg), w), w)
        [] op \in {\h8A, \h8B} -> Store(n, Register(m.reg), Value(n, m.rm, w), w)
        [] op = \h8C -> Store(n, m.rm, n.seg[m.reg % 4], 16)
        [] op = \h8E -> [ n EXCEPT !.seg[m.reg % 4] = Value(n, m.rm, 16) ]
        [] op = \h8D -> IF m.rm.kind = "memory" THEN SetRegister(n, m.reg, m.rm.offset) ELSE n
        [] op \in {\hC6, \hC7} -> Store(Past(n, w), m.rm, Immediate(n, w), w)

\* MOV between the accumulator and a direct offset, MOV of an immediate to a register.
MoveDirect == \hA0 .. \hA3 \union \hB0 .. \hBF

ExecuteMoveDirect(c, op, override) ==
  LET place == Memory(SegmentOr(c, override, DS), Immediate(c, 16))
      n     == Past(c, 16)
      w     == Width(op)
  IN  CASE op \in {\hA0, \hA1} -> Store(n, Accumulator, Value(n, place, w), w)
        [] op \in {\hA2, \hA3} -> Store(n, place, Value(n, Accumulator, w), w)
        [] op \in \hB0 .. \hB7 -> Store(Past(c, 8), Register(op % 8), Immediate(c, 8), 8)
        [] op \in \hB8 .. \hBF -> Store(n, Register(op % 8), Immediate(c, 16), 16)

\* XCHG; 90 exchanges AX with itself.
Exchanges == {\h86, \h87} \union \h90 .. \h97

Exchange(c, a, b, w) == Store(Store(c, a, Value(c, b, w), w), b, Value(c, a, w), w)

ExecuteExchange(c, op, override) ==
  LET m == DecodeModrm(c, override)
  IN  IF op \in {\h86, \h87}
      THEN Exchange(m.after, m.rm, Register(m.reg), Width(op))
      ELSE Exchange(c, Accumulator, Register(op % 8), 16)

---------------------------------------------------------------------------------
(* Arithmetic and logic.                                                          *)

\* c with the flags of a result, and its value stored.
Apply(c, result, destination, w) == Store(WithFlags(c, result.flags), destination, result.value, w)

\* One of the eight ALU operations; CMP stores nothing.
Combine(c, operation, destination, b, w) ==
  LET result == Operate(operation, c.flags, Value(c, destination, w), b, w)
  IN  IF operation = 7 THEN WithFlags(c, result.flags) ELSE Apply(c, result, destination, w)

\* The ALU block: two operands in either direction, or the accumulator and an immediate.
AluBlock == { op \in 0 .. \h3F : op % 8 < 6 }

ExecuteAlu(c, op, override) ==
  LET m         == DecodeModrm(c, override)
      n         == m.after
      w         == Width(op)
      operation == op \div 8
  IN  CASE op % 8 \in {0, 1} -> Combine(n, operation, m.rm, Value(n, Register(m.reg), w), w)
        [] op % 8 \in {2, 3} -> Combine(n, operation, Register(m.reg), Value(n, m.rm, w), w)
        [] op % 8 \in {4, 5} -> Combine(Past(c, w), operation, Accumulator, Immediate(c, w), w)

\* GRP1: an immediate, which 83 sign-extends from a byte.
Group1 == \h80 .. \h83

ExecuteGroup1(c, op, override) ==
  LET m == DecodeModrm(c, override)
      n == m.after
      w == Width(op)
      given == IF op = \h81 THEN 16 ELSE 8
      b == IF op = \h83 THEN SignExtended(Immediate(n, 8)) ELSE Immediate(n, given)
  IN  Combine(Past(n, given), m.reg, m.rm, b, w)

\* TEST; INC and DEC of a word register; CBW, CWD and SALC.
Singles == \h40 .. \h4F \union {\h84, \h85, \hA8, \hA9, \h98, \h99, \hD6}

ExecuteSingle(c, op, override) ==
  LET m  == DecodeModrm(c, override)
      w  == Width(op)
      r  == c.reg[op % 8]
      al == LowByte(c.reg[AX])
      ax == c.reg[AX]
  IN  CASE op \in \h40 .. \h47   -> Apply(c, Inc(c.flags, r, 16), Register(op % 8), 16)
        [] op \in \h48 .. \h4F   -> Apply(c, Dec(c.flags, r, 16), Register(op % 8), 16)
        [] op \in {\h84, \h85}   ->
             WithFlags(m.after, Test(c.flags, Value(c, m.rm, w), Value(c, Register(m.reg), w), w).flags)
        [] op \in {\hA8, \hA9}   ->
             WithFlags(Past(c, w), Test(c.flags, Value(c, Accumulator, w), Immediate(c, w), w).flags)
        [] op = \h98 -> SetRegister(c, AX, SignExtended(al))
        [] op = \h99 -> SetRegister(c, DX, IF Top(ax, 16) = 1 THEN 65535 ELSE 0)
        [] op = \hD6 -> Store(c, Accumulator, IF "carry" \in c.flags THEN 255 ELSE 0, 8)

\* The two halves of a product or a dividend: AH and AL, or DX and AX.
Wide(c, w)        == IF w = 8 THEN Halves(HighByte(c.reg[AX]), LowByte(c.reg[AX]))
                              ELSE Halves(c.reg[DX], c.reg[AX])
SetWide(c, d, w)  == IF w = 8 THEN SetRegister(c, AX, 256 * d.hi + d.lo)
                              ELSE SetRegister(SetRegister(c, DX, d.hi), AX, d.lo)

Multiply(c, b, signed, w) ==
  LET a       == Value(c, Accumulator, w)
      product == IF signed THEN Imul(a, b, w) ELSE Mul(a, b, w)
  IN  WithFlags(SetWide(c, product, w), MulFlags(c.flags, signed, product, w))

\* A division that raises #DE leaves its registers alone.
Divide(c, by, signed, w) ==
  LET result == IF signed THEN Idiv(Wide(c, w), by, w) ELSE Div(Wide(c, w), by, w)
  IN  IF result.trap THEN ServiceInterrupt(c, 0)
      ELSE SetWide(c, Halves(result.remainder, result.quotient), w)

\* GRP3: TEST with an immediate, NOT, NEG, MUL, IMUL, DIV, IDIV.
Group3 == {\hF6, \hF7}

ExecuteGroup3(c, op, override) ==
  LET m == DecodeModrm(c, override)
      n == m.after
      w == Width(op)
      a == Value(n, m.rm, w)
  IN  CASE m.reg \in {0, 1} -> WithFlags(Past(n, w), Test(n.flags, a, Immediate(n, w), w).flags)
        [] m.reg = 2        -> Store(n, m.rm, Not(a, w), w)
        [] m.reg = 3        -> Apply(n, Neg(n.flags, a, w), m.rm, w)
        [] m.reg \in {4, 5} -> Multiply(n, a, m.reg = 5, w)
        [] OTHER            -> Divide(n, a, m.reg = 7, w)

\* GRP2: shifts and rotates by one, by CL, or by an immediate that follows the operand.
Group2 == {\hC0, \hC1} \union \hD0 .. \hD3

ExecuteGroup2(c, op, override) ==
  LET m     == DecodeModrm(c, override)
      w     == Width(op)
      n     == IF op \in {\hC0, \hC1} THEN Past(m.after, 8) ELSE m.after
      count == CASE op \in {\hC0, \hC1} -> Immediate(m.after, 8)
                 [] op \in {\hD0, \hD1} -> 1
                 [] op \in {\hD2, \hD3} -> LowByte(c.reg[CX])
  IN  Apply(n, ShiftRotate(n.flags, m.reg, Value(n, m.rm, w), count, w), m.rm, w)

---------------------------------------------------------------------------------
(* The stack and control flow.                                                    *)

\* PUSH and POP of words, segments (but CS), memory and FLAGS.
StackOps == \h50 .. \h5F \union {\h06, \h0E, \h16, \h1E, \h07, \h17, \h1F, \h8F, \h9C, \h9D}

ExecuteStack(c, op, override) ==
  LET m == DecodeModrm(c, override)
      s == (op \div 8) % 4
      v == Popped(c)
      n == Release(c, 2)
  IN  CASE op \in \h50 .. \h57              -> Push(c, c.reg[op % 8])
        [] op \in \h58 .. \h5F              -> SetRegister(n, op % 8, v)
        [] op \in {\h06, \h0E, \h16, \h1E}  -> Push(c, c.seg[s])
        [] op \in {\h07, \h17, \h1F}        -> [ n EXCEPT !.seg[s] = v ]
        [] op = \h8F                        -> Store(Release(m.after, 2), m.rm, Popped(m.after), 16)
        [] op = \h9C                        -> Push(c, ToWord(c.flags))
        [] op = \h9D                        -> WithFlags(n, FromWord(v))

\* Jumps: conditional, short, near, far; LOOPNE, LOOPE, LOOP (CX counts down without
\* flags) and JCXZ.
Jumps == \h70 .. \h7F \union \hE0 .. \hE3 \union {\hE9, \hEA, \hEB}

Looping(c, op) ==
  CASE op = \hE0 -> c.reg[CX] # 0 /\ "zero" \notin c.flags
    [] op = \hE1 -> c.reg[CX] # 0 /\ "zero" \in c.flags
    [] op = \hE2 -> c.reg[CX] # 0
    [] op = \hE3 -> c.reg[CX] = 0

ExecuteJump(c, op) ==
  LET target(n, taken) == IF taken THEN JumpTo(n, n.ip + SignExtended(Immediate(c, 8))) ELSE n
      short   == Past(c, 8)
      near    == Past(c, 16)
      counted == IF op = \hE3 THEN short ELSE SetRegister(short, CX, Wrap(c.reg[CX] - 1))
  IN  CASE op \in \h70 .. \h7F -> target(short, Condition(c.flags, op % 16))
        [] op \in \hE0 .. \hE3 -> target(counted, Looping(counted, op))
        [] op = \hEB -> target(short, TRUE)
        [] op = \hE9 -> JumpTo(near, near.ip + Immediate(c, 16))
        [] op = \hEA -> JumpFar(c, Immediate(near, 16), Immediate(c, 16))

\* Calls, returns that may drop parameters, software interrupts and IRET.
Calls == {\hE8, \h9A, \hC2, \hC3, \hCA, \hCB, \hCC, \hCD, \hCE, \hCF}

ReturnNear(c) == Release(JumpTo(c, Popped(c)), 2)
ReturnFar(c)  == LET n == ReturnNear(c) IN Release(JumpFar(n, Popped(n), n.ip), 2)

\* Mutation of ReturnInterrupt: IF is set by every IRET.
ReturnInterruptSti(c) ==
  LET n == ReturnFar(c) IN Release(WithFlags(n, FromWord(Popped(n)) \union {"interrupt"}), 2)

ReturnInterrupt(c) == LET n == ReturnFar(c) IN Release(WithFlags(n, FromWord(Popped(n))), 2)

ExecuteCall(c, op) ==
  LET near == Past(c, 16)
      far  == Past(near, 16)
  IN  CASE op = \hE8 -> JumpTo(Push(near, near.ip), near.ip + Immediate(c, 16))
        [] op = \h9A -> JumpFar(PushFar(far), Immediate(near, 16), Immediate(c, 16))
        [] op = \hC2 -> Release(ReturnNear(c), Immediate(c, 16))
        [] op = \hC3 -> ReturnNear(c)
        [] op = \hCA -> Release(ReturnFar(c), Immediate(c, 16))
        [] op = \hCB -> ReturnFar(c)
        [] op = \hCC -> ServiceInterrupt(c, 3)
        [] op = \hCD -> ServiceInterrupt(Past(c, 8), Immediate(c, 8))
        [] op = \hCE -> IF "overflow" \in c.flags THEN ServiceInterrupt(c, 4) ELSE c
        [] op = \hCF -> ReturnInterrupt(c)

\* The opcode is not in the table; it has been consumed.
Unimplemented(c) == [ c EXCEPT !.outcome = "unimplemented" ]

\* GRP4 and GRP5: INC, DEC, CALL, JMP and PUSH of an operand; the far forms take a
\* pointer in memory.
Groups45 == {\hFE, \hFF}

ExecuteGroups45(c, op, override) ==
  LET m       == DecodeModrm(c, override)
      n       == m.after
      w       == Width(op)
      v       == Value(n, m.rm, w)
      segment == ReadMem(n, m.rm.segment, Wrap(m.rm.offset + 2), 16)
  IN  CASE m.reg = 0 -> Apply(n, Inc(n.flags, v, w), m.rm, w)
        [] m.reg = 1 -> Apply(n, Dec(n.flags, v, w), m.rm, w)
        [] op = \hFF /\ m.reg = 2 -> JumpTo(Push(n, n.ip), v)
        [] op = \hFF /\ m.reg = 4 -> JumpTo(n, v)
        [] op = \hFF /\ m.reg = 6 -> Push(n, v)
        [] op = \hFF /\ m.reg = 3 /\ m.rm.kind = "memory" -> JumpFar(PushFar(n), segment, v)
        [] op = \hFF /\ m.reg = 5 /\ m.rm.kind = "memory" -> JumpFar(n, segment, v)
        [] OTHER     -> Unimplemented(n)

---------------------------------------------------------------------------------
(* Ports, flags, strings.                                                         *)

\* IN and OUT; the port is an immediate byte or DX, a word goes to two ports.
PortOps == \hE4 .. \hE7 \union \hEC .. \hEF

ExecutePort(c, op) ==
  LET immediate == op < \hE8
      n    == IF immediate THEN Past(c, 8) ELSE c
      port == IF immediate THEN Immediate(c, 8) ELSE c.reg[DX]
      w    == Width(op)
      low  == PortRead(c.bus, port)
      bus  == PortWrite(c.bus, port, LowByte(c.reg[AX]))
  IN  IF op % 4 < 2
      THEN Store(n, Accumulator, IF w = 8 THEN low ELSE low + 256 * PortRead(c.bus, Wrap(port + 1)), w)
      ELSE [ n EXCEPT !.bus = IF w = 8 THEN bus ELSE PortWrite(bus, Wrap(port + 1), HighByte(c.reg[AX])) ]

\* HLT, CMC, and the instructions that clear or set CF, IF and DF.
FlagOps == {\hF4, \hF5} \union \hF8 .. \hFD

ExecuteFlag(c, op) ==
  LET flag == { << "carry", "interrupt", "direction" >>[(op - \hF8) \div 2 + 1] }
  IN  CASE op = \hF4 -> [ c EXCEPT !.halted = TRUE, !.outcome = "halted" ]
        [] op = \hF5 -> WithFlags(c, Update(c.flags, {"carry"}, {"carry"} \ c.flags))
        [] op \in \hF8 .. \hFD ->
             WithFlags(c, Update(c.flags, flag, IF op % 2 = 1 THEN flag ELSE {}))

\* MOVS, CMPS, STOS, LODS, SCAS.
Strings        == \hA4 .. \hA7 \union \hAA .. \hAF
ComparesString == {\hA6, \hA7, \hAE, \hAF}
ReadsSource    == {\hA4, \hA5, \hA6, \hA7, \hAC, \hAD}

\* Mutation of Advanced: the direction flag is forgotten for words.
AdvancedWordsUp(c, op, offset) ==
  Wrap(offset + (IF "direction" \in c.flags /\ Width(op) = 8 THEN -1 ELSE 1) * (Width(op) \div 8))

\* An index register after one element.
Advanced(c, op, offset) ==
  Wrap(offset + (IF "direction" \in c.flags THEN -1 ELSE 1) * (Width(op) \div 8))

\* One iteration. The source is DS:SI or overridden, the destination always ES:DI.
StringIter(c, op, override) ==
  LET w == Width(op)
      source      == Memory(SegmentOr(c, override, DS), c.reg[SI])
      destination == Memory(c.seg[ES], c.reg[DI])
      compare(a)  == WithFlags(c, SubCore(c.flags, a, Value(c, destination, w), 0, w).flags)
      done        == CASE op \in {\hA4, \hA5} -> Store(c, destination, Value(c, source, w), w)
                       [] op \in {\hA6, \hA7} -> compare(Value(c, source, w))
                       [] op \in {\hAA, \hAB} -> Store(c, destination, Value(c, Accumulator, w), w)
                       [] op \in {\hAC, \hAD} -> Store(c, Accumulator, Value(c, source, w), w)
                       [] op \in {\hAE, \hAF} -> compare(Value(c, Accumulator, w))
      si == IF op \in ReadsSource THEN Advanced(c, op, c.reg[SI]) ELSE c.reg[SI]
      di == IF op \notin {\hAC, \hAD} THEN Advanced(c, op, c.reg[DI]) ELSE c.reg[DI]
  IN  SetRegister(SetRegister(done, SI, si), DI, di)

---------------------------------------------------------------------------------

\* What an opcode that is not a prefix does, a string instruction once.
Execute(c, op, override) ==
  CASE op \in AluBlock   -> ExecuteAlu(c, op, override)
    [] op \in MoveModrm  -> ExecuteMove(c, op, override)
    [] op \in MoveDirect -> ExecuteMoveDirect(c, op, override)
    [] op \in Exchanges  -> ExecuteExchange(c, op, override)
    [] op \in Group1     -> ExecuteGroup1(c, op, override)
    [] op \in Singles    -> ExecuteSingle(c, op, override)
    [] op \in StackOps   -> ExecuteStack(c, op, override)
    [] op \in Jumps      -> ExecuteJump(c, op)
    [] op \in Calls      -> ExecuteCall(c, op)
    [] op \in Group2     -> ExecuteGroup2(c, op, override)
    [] op \in Group3     -> ExecuteGroup3(c, op, override)
    [] op \in Groups45   -> ExecuteGroups45(c, op, override)
    [] op \in PortOps    -> ExecutePort(c, op)
    [] op \in FlagOps    -> ExecuteFlag(c, op)
    [] op \in Strings    -> StringIter(c, op, override)
    [] OTHER             -> Unimplemented(c)

---------------------------------------------------------------------------------
(* Prefixes, and the loop a REP prefix makes of a string instruction.              *)

SegmentPrefixes == {\h26, \h2E, \h36, \h3E}
RepPrefixes     == {\hF2, \hF3}
Lock            == \hF0
PrefixBytes     == SegmentPrefixes \union RepPrefixes \union {Lock}

NoPrefix == -1

\* One iteration and the count of CX.
Iterated(c, op, segment) ==
  LET n == StringIter(c, op, segment) IN SetRegister(n, CX, Wrap(n.reg[CX] - 1))

\* A comparison ends REPE when it is unequal and REPNE when it is equal.
Stops(c, op, prefix) ==
  op \in ComparesString /\ (IF prefix = \hF3 THEN "zero" \notin c.flags ELSE "zero" \in c.flags)

\* The iterations of a repeated string instruction, until CX is 0 or a comparison ends it.
Repeated(c, op, segment, prefix) ==
  LET after[k \in 0 .. c.reg[CX]] ==
        IF k = 0 THEN c
        ELSE LET before == after[k - 1]
             IN  IF k > 1 /\ Stops(before, op, prefix) THEN before ELSE Iterated(before, op, segment)
  IN  after[c.reg[CX]]

\* A whole step of a CPU that is not halted: the prefixes, of which the last of a kind
\* counts, and the instruction after them. (Among prefixes alone the step never returns,
\* and it has no value here.)
Stepped(c) ==
  LET byte(i) == Immediate([ c EXCEPT !.ip = Wrap(@ + i) ], 8)
      length  == CHOOSE n \in 0 .. 65535 :
                   byte(n) \notin PrefixBytes /\ \A i \in 0 .. n - 1 : byte(i) \in PrefixBytes
      latest(prefixes) == { i \in 0 .. length - 1 : byte(i) \in prefixes
                              /\ \A j \in i + 1 .. length - 1 : byte(j) \notin prefixes }
      op      == byte(length)
      next    == [ Past(c, 8 * (length + 1)) EXCEPT !.outcome = "executed" ]
      segment == IF latest(SegmentPrefixes) = {} THEN NoOverride
                 ELSE c.seg[(byte(CHOOSE i \in latest(SegmentPrefixes) : TRUE) \div 8) % 4]
      prefix  == IF latest(RepPrefixes) = {} THEN NoPrefix
                 ELSE byte(CHOOSE i \in latest(RepPrefixes) : TRUE)
  IN  IF op \in Strings /\ prefix # NoPrefix THEN Repeated(next, op, segment, prefix)
      ELSE Execute(next, op, segment)
=====================================================================================
