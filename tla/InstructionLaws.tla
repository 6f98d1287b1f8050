------------------------------- MODULE InstructionLaws -------------------------------
(***********************************************************************************)
(* What one instruction of the V30MZ core promises, stated of a case the harness   *)
(* has just run: Before is the CPU it started with, cpu the one the step left. The *)
(* laws are about integers, memory cells and inverses, not about how alu.rs,       *)
(* decode.rs and exec.rs compute.                                                  *)
(***********************************************************************************)
EXTENDS V20Harness

Judged == phase = "judge"

Before == Prepared(Case, Blank)

\* The case has no prefix but an optional segment override; the byte after its opcode.
OpcodeAt  == Wrap(Before.ip + (IF override = NoOverride THEN 0 ELSE 1))
Plain     == rep = NoPrefix /\ ReadMem(Before, Before.seg[CS], OpcodeAt, 8) = opcode
ModrmAt   == Wrap(OpcodeAt + 1)
Modrm     == ReadMem(Before, Before.seg[CS], ModrmAt, 8)
ModrmMode == Modrm \div 64
ModrmReg  == (Modrm \div 8) % 8
ModrmRm   == Modrm % 8

\* Where the instruction after one with a ModR/M byte begins.
AfterModrm ==
  Wrap(ModrmAt + 1 + (CASE ModrmMode = 1 -> 1
                        [] ModrmMode = 2 \/ (ModrmMode = 0 /\ ModrmRm = 6) -> 2
                        [] OTHER -> 0))

A(w) == Value(Before, Register(AX), w)
B(w) == Value(Before, Register(BX), w)

Unsigned(w)    == 0 .. 2^w - 1
SignedRange(w) == -(2^(w - 1)) .. 2^(w - 1) - 1

\* "name" is set exactly when condition holds.
Shows(name, condition) == (name \in cpu.flags) = condition

---------------------------------------------------------------------------------
(* Arithmetic. The operands are AX and BX, or AL and BL (ModR/M D8 or reg 3).        *)

Additive == {\h00, \h01, \h10, \h11, \h18, \h19, \h28, \h29, \h38, \h39}

\* ADD, ADC, SBB, SUB and CMP: the result is the integer sum or difference modulo the
\* width; CF says that it is not an unsigned number of the width, OF that the signed one
\* is not a signed number, AF that the low digit is none; the mode flags stay.
SumsAreExact ==
  (Judged /\ Plain /\ opcode \in Additive /\ Modrm = \hD8) =>
    LET w           == Width(opcode)
        carry       == IF opcode \in {\h10, \h11, \h18, \h19} THEN Bit(Before.flags, "carry") ELSE 0
        exact(a, b) == IF opcode < \h18 THEN a + b + carry ELSE a - b - carry
        n           == exact(A(w), B(w))
        r           == n % 2^w
    IN  /\ Value(cpu, Register(AX), w) = IF opcode \in {\h38, \h39} THEN A(w) ELSE r
        /\ Shows("carry", n \notin Unsigned(w))
        /\ Shows("overflow", exact(Signed(A(w), w), Signed(B(w), w)) \notin SignedRange(w))
        /\ Shows("aux_carry", exact(A(w) % 16, B(w) % 16) \notin 0 .. 15)
        /\ Shows("zero", r = 0)
        /\ Shows("sign", r >= 2^(w - 1))
        /\ cpu.flags \ Status = Before.flags \ Status

\* The conditions a Jcc tests after CMP order the operands, as unsigned and as signed
\* numbers.
CompareDecides ==
  (Judged /\ Plain /\ opcode \in {\h38, \h39} /\ Modrm = \hD8) =>
    LET w == Width(opcode)
        a == A(w)
        b == B(w)
        s == Signed(a, w)
        t == Signed(b, w)
        holds(cc) == Condition(cpu.flags, cc)
    IN  /\ << holds(2), holds(4), holds(6), holds(12), holds(14) >>
             = << a < b, a = b, a <= b, s < t, s <= t >>
        /\ << holds(3), holds(5), holds(7), holds(13), holds(15) >>
             = << a >= b, a # b, a > b, s >= t, s > t >>

\* MUL and IMUL: the two halves hold the integer product; CF and OF say that its lower
\* half alone does not. (A product is checked where it is below 2^31.)
ProductsAreExact ==
  (Judged /\ Plain /\ opcode \in Group3 /\ ModrmRm = BX /\ ModrmMode = 3 /\ ModrmReg \in {4, 5}) =>
    LET w    == Width(opcode)
        signed == ModrmReg = 5
        a    == IF signed THEN Signed(A(w), w) ELSE A(w)
        b    == IF signed THEN Signed(B(w), w) ELSE B(w)
        wide == a * b \notin (IF signed THEN SignedRange(w) ELSE Unsigned(w))
    IN  (a < 32768 \/ b < 32768) =>
          /\ Wide(cpu, w) = Halves(((a * b) \div 2^w) % 2^w, (a * b) % 2^w)
          /\ Shows("carry", wide)
          /\ Shows("overflow", wide)

\* DIV and IDIV: q times the divisor plus r is the dividend, r is smaller than the
\* divisor and has the sign of the dividend; #DE is raised exactly when no such q fits
\* (docs/hardware/01-cpu-v30mz.md:526-529), and it enters the handler of vector 0, as
\* memory holds it once the frame is pushed, with the operands as they were. The program
\* never panics, not even for the most negative dividend by -1. What a quotient leaves in
\* the status flags is left open: the code and its documents differ there.
QuotientsAreExact ==
  (Judged /\ Plain /\ opcode \in Group3 /\ ModrmRm = BX /\ ModrmMode = 3 /\ ModrmReg \in {6, 7}) =>
    LET w      == Width(opcode)
        signed == ModrmReg = 7
        d      == Wide(Before, w)
        n      == (IF signed THEN Signed(d.hi, w) ELSE d.hi) * 2^w + d.lo
        by     == IF signed THEN Signed(B(w), w) ELSE B(w)
        size   == IF by < 0 THEN -by ELSE by
        range  == IF signed THEN SignedRange(w) ELSE Unsigned(w)
        q      == LET lo == Wide(cpu, w).lo IN IF signed THEN Signed(lo, w) ELSE lo
        r      == LET hi == Wide(cpu, w).hi IN IF signed THEN Signed(hi, w) ELSE hi
        least  == 2^(w - 1) * size + size - 1
        most   == (2^(w - 1) - 1) * size + size - 1
        fits   == IF signed THEN n \in (IF by > 0 THEN -least .. most ELSE -most .. least)
                  ELSE n \div 2^w < size
        trapped == cpu.reg[SP] # Before.reg[SP]
    IN  (signed \/ d.hi < 32768) =>
          /\ trapped <=> (by = 0 \/ ~ fits)
          /\ ~ trapped => /\ q * by + r = n
                          /\ (IF r < 0 THEN -r ELSE r) < size
                          /\ r # 0 => ((r < 0) = (n < 0))
                          /\ cpu.flags \ Status = Before.flags \ Status
          /\ trapped => /\ cpu.reg = [ Before.reg EXCEPT ![SP] = Wrap(@ - 6) ]
                        /\ cpu.ip = ReadMem(cpu, 0, 0, 16)
                        /\ cpu.seg[CS] = ReadMem(cpu, 0, 2, 16)

\* A shift, past the width too, is a multiplication or a division by a power of two, and
\* a rotation goes round the width, or one more through CF. OF says that a single shift
\* changed the sign, a count of 0 touches no flag and a rotation none but CF and OF. It
\* speaks of the counts below 32, whether the CPU masks them or not, and of the documented
\* operations: the code and its documents differ on the others (shift_rotate, alu.rs).
ShiftsAreExact ==
  (/\ Judged /\ Plain /\ opcode \in {\hD2, \hD3} /\ ModrmMode = 3 /\ ModrmRm = BX
   /\ ModrmReg # 6 /\ LowByte(Before.reg[CX]) < 32) =>
    LET w     == Width(opcode)
        op    == ModrmReg
        n     == LowByte(Before.reg[CX])
        v     == B(w)
        r     == Value(cpu, Register(BX), w)
        far   == IF n < w THEN n ELSE w
        turn  == n % w
        whole == Bit(Before.flags, "carry") * 2^w + v
        ring  == n % (w + 1)
        \* v rotated left by m in a ring of k bits
        rotated(x, m, k) == (x % 2^(k - m)) * 2^m + x \div 2^(k - m)
        through == rotated(whole, IF op = 2 THEN ring ELSE (w + 1 - ring) % (w + 1), w + 1)
    IN  /\ n = 0 => r = v /\ cpu.flags = Before.flags
        /\ n > 0 =>
             /\ r = CASE op = 0 -> rotated(v, turn, w)
                      [] op = 1 -> rotated(v, (w - turn) % w, w)
                      [] op \in {2, 3} -> through % 2^w
                      [] op = 4 -> (v % 2^(w - far)) * 2^far
                      [] op = 5 -> v \div 2^far
                      [] op = 7 -> (Signed(v, w) \div 2^far) % 2^w
             /\ Shows("carry",
                      CASE op = 0 -> r % 2 = 1
                        [] op = 1 -> r >= 2^(w - 1)
                        [] op \in {2, 3} -> through >= 2^w
                        [] op = 4 -> n <= w /\ BitSet(v, w - far)
                        [] op = 5 -> n <= w /\ BitSet(v, far - 1)
                        [] op = 7 -> BitSet(v, far - 1))
             /\ n = 1 => Shows("overflow", (v >= 2^(w - 1)) # (r >= 2^(w - 1)))
             /\ IF op < 4
                THEN cpu.flags \ {"carry", "overflow"} = Before.flags \ {"carry", "overflow"}
                ELSE /\ Shows("zero", r = 0)
                     /\ Shows("sign", r >= 2^(w - 1))
                     /\ cpu.flags \ Status = Before.flags \ Status

\* Addition, subtraction and comparison are those of the integers (alu.rs, and the
\* conditions of exec.rs).
AdditionIsExact == SumsAreExact /\ CompareDecides

\* So are multiplication and division, with their traps (exec.rs).
MultiplicationIsExact == ProductsAreExact /\ QuotientsAreExact

---------------------------------------------------------------------------------
(* Operands, strings, and transfers of control.                                     *)

\* The sum of registers an addressing mode stands for.
Base(rm) ==
  LET r == Before.reg
  IN  << r[BX] + r[SI], r[BX] + r[DI], r[BP] + r[SI], r[BP] + r[DI],
         r[SI], r[DI], IF ModrmMode = 0 THEN 0 ELSE r[BP], r[BX] >>[rm + 1]

Displacement ==
  LET low == ReadMem(Before, Before.seg[CS], Wrap(ModrmAt + 1), 8)
  IN  CASE AfterModrm = Wrap(ModrmAt + 1) -> 0
        [] AfterModrm = Wrap(ModrmAt + 2) -> Signed(low, 8)
        [] AfterModrm = Wrap(ModrmAt + 3) -> ReadMem(Before, Before.seg[CS], Wrap(ModrmAt + 1), 16)

EffectiveOffset == Wrap(Base(ModrmRm) + Displacement)

EffectiveSegment ==
  CASE override # NoOverride -> override
    [] override = NoOverride /\ (ModrmRm \in {2, 3} \/ (ModrmRm = 6 /\ ModrmMode # 0)) -> Before.seg[SS]
    [] OTHER -> Before.seg[DS]

\* LEA and MOV to memory: every addressing mode consumes its displacement and no more,
\* wraps its offset in the segment, takes SS when BP is in it, and yields to a prefix.
OperandsAreDecoded ==
  (Judged /\ Plain /\ opcode \in {\h88, \h89, \h8D} /\ ModrmMode # 3) =>
    /\ cpu.ip = AfterModrm
    /\ opcode = \h8D => cpu.reg[ModrmReg] = EffectiveOffset /\ cpu.bus.dirty = {}
    /\ opcode # \h8D =>
         cpu.bus.dirty = { PhysicalAddress(EffectiveSegment, Wrap(EffectiveOffset + i))
                           : i \in 0 .. Width(opcode) \div 8 - 1 }

\* The ModR/M byte and its displacement, as cells.
OperandBytes ==
  { PhysicalAddress(Before.seg[CS], Wrap(ModrmAt + i)) : i \in 0 .. Wrap(AfterModrm - ModrmAt) - 1 }

\* What MOV stored, MOV of the same operand loads again, a word that begins at the last
\* offset of its segment included, unless the store changed how the operand is written.
LoadsReturnStores ==
  (Judged /\ Plain /\ opcode \in {\h88, \h89} /\ ModrmMode # 3
     /\ cpu.bus.dirty \intersect OperandBytes = {}) =>
    LET w      == Width(opcode)
        again  == [ cpu EXCEPT !.ip = ModrmAt ]
        \* The register is wiped first, unless the address depends on it.
        wiped  == IF ModrmReg \in {BX, BP, SI, DI} THEN again ELSE Store(again, Register(ModrmReg), 0, w)
        loaded == Execute(wiped, opcode + 2, override)
    IN  Value(loaded, Register(ModrmReg), w) = Value(Before, Register(ModrmReg), w)

\* An operand in memory is the place its addressing mode says, whole and no more
\* (decode.rs, and the word accesses of exec.rs).
OperandsAreExact == OperandsAreDecoded /\ LoadsReturnStores

\* A string instruction, repeated or not: the number of elements it takes is CX, or that
\* up to the comparison that ends it; the registers move by as many elements in the
\* direction of DF; an element is copied as the elements before it left its source, so
\* an overlapping move repeats its start; the flags are those of the last comparison.
StringsGoElementByElement ==
  (Judged /\ opcode \in Strings) =>
    LET w     == Width(opcode)
        size  == w \div 8
        delta == IF "direction" \in Before.flags THEN -size ELSE size
        m     == IF rep = NoPrefix THEN 1 ELSE Before.reg[CX] - cpu.reg[CX]
        from  == IF override = NoOverride THEN Before.seg[DS] ELSE override
        Place(segment, start, i, b) == PhysicalAddress(segment, Wrap(Before.reg[start] + delta * i + b))
        Source(i, b) == Place(from, SI, i, b)
        Target(i, b) == Place(Before.seg[ES], DI, i, b)
        old(a)    == ReadU8(Before.bus, a)
        new(a)    == ReadU8(cpu.bus, a)
        Targets(i) == { Target(j, b) : j \in 0 .. i - 1, b \in 0 .. size - 1 }
        \* Elements of the source and of the destination as numbers.
        Number(place(_, _), i) == old(place(i, 0)) + (IF w = 16 THEN 256 * old(place(i, 1)) ELSE 0)
        left(i)   == IF opcode \in ReadsSource THEN Number(Source, i) ELSE A(w)
        right(i)  == Number(Target, i)
        ends(i)   == (left(i) = right(i)) = (rep = \hF2)
        compares  == opcode \in ComparesString
        stores    == opcode \in {\hA4, \hA5, \hAA, \hAB}
        moved(used) == IF used THEN m * delta ELSE 0
    IN  /\ m >= 0 /\ (rep = NoPrefix => cpu.reg[CX] = Before.reg[CX])
        /\ (rep # NoPrefix /\ ~ compares) => cpu.reg[CX] = 0
        /\ (rep # NoPrefix /\ compares) =>
             /\ \A i \in 0 .. m - 2 : ~ ends(i)
             /\ cpu.reg[CX] = 0 \/ (m > 0 /\ ends(m - 1))
        /\ cpu.reg[SI] = Wrap(Before.reg[SI] + moved(opcode \in ReadsSource))
        /\ cpu.reg[DI] = Wrap(Before.reg[DI] + moved(opcode \notin {\hAC, \hAD}))
        /\ cpu.bus.dirty = IF stores THEN Targets(m) ELSE {}
        /\ opcode \in {\hA4, \hA5} =>
             \A i \in 0 .. m - 1, b \in 0 .. size - 1 :
               new(Target(i, b)) = IF Source(i, b) \in Targets(i) THEN new(Source(i, b))
                                                                  ELSE old(Source(i, b))
        /\ opcode \in {\hAA, \hAB} =>
             \A i \in 0 .. m - 1, b \in 0 .. size - 1 :
               new(Target(i, b)) = (IF b = 0 THEN LowByte(Before.reg[AX]) ELSE HighByte(Before.reg[AX]))
        /\ (opcode \in {\hAC, \hAD} /\ m > 0) => Value(cpu, Register(AX), w) = Number(Source, m - 1)
        /\ IF compares /\ m > 0
           THEN Shows("zero", left(m - 1) = right(m - 1)) /\ Shows("carry", left(m - 1) < right(m - 1))
           ELSE cpu.flags = Before.flags

\* Instructions that enter a procedure or a handler, and the one after them.
Interrupts == {\hCC, \hCD} \union (IF "overflow" \in Before.flags THEN {\hCE} ELSE {})

Trapped == opcode \in Group3 /\ ModrmReg \in {6, 7} /\ cpu.reg[SP] # Before.reg[SP]

NextInstruction ==
  CASE opcode \in {\hCC, \hCE} -> Wrap(OpcodeAt + 1)
    [] opcode = \hCD -> Wrap(OpcodeAt + 2)
    [] opcode = \hE8 -> Wrap(OpcodeAt + 3)
    [] opcode = \h9A -> Wrap(OpcodeAt + 5)
    [] OTHER -> AfterModrm

\* A near return after a near call, a far one after a far call and IRET after an
\* interrupt or a #DE leave every register and flag as it was, with IP past the
\* instruction, wherever SP is in its segment.
ReturnsUndoEntries ==
  LET near  == opcode = \hE8 \/ (opcode = \hFF /\ ModrmReg = 2)
      far   == opcode = \h9A \/ (opcode = \hFF /\ ModrmReg = 3 /\ ModrmMode # 3)
      trap  == opcode \in Interrupts \/ Trapped
      after == CASE near -> ReturnNear(cpu) [] far -> ReturnFar(cpu) [] trap -> ReturnInterrupt(cpu)
  IN  (Judged /\ Plain /\ (near \/ far \/ trap)) =>
        /\ after.reg = Before.reg
        /\ after.seg = Before.seg
        /\ after.flags = Before.flags
        /\ after.ip = NextInstruction
        /\ trap => cpu.flags = Before.flags \ {"interrupt", "trap"}
=====================================================================================
