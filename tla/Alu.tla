------------------------------------- MODULE Alu -------------------------------------
(***********************************************************************************)
(* The arithmetic of the V30MZ: the flag-setting functions of cpu-v30mz/src/alu.rs *)
(* and the multiplications and divisions of exec.rs. Each is given once, for a     *)
(* width w of 8 or 16 bits. An operation takes the flags it starts from and yields *)
(* the value with the flags after it.                                              *)
(*                                                                                 *)
(* A product or a dividend has twice the width and is kept as its two halves.      *)
(***********************************************************************************)
EXTENDS Flags, FiniteSets

Top(v, w) == v \div 2^(w - 1)

\* v as a signed number of w bits, and the w bits of a number.
Signed(v, w)   == IF Top(v, w) = 1 THEN v - 2^w ELSE v
Truncate(n, w) == n % 2^w

\* f with exactly the flags of the set touched that are in the set raised.
Update(f, touched, raised) == (f \ touched) \union raised

Raised(name, condition) == IF condition THEN { name } ELSE {}

\* SF, ZF and PF of a result; parity is of its low byte alone.
Szp(v, w) ==
  Raised("zero", v = 0) \union Raised("sign", Top(v, w) = 1)
    \union Raised("parity", Cardinality({ n \in 0 .. 7 : BitSet(v, n) }) % 2 = 0)

Status == { "carry", "overflow", "aux_carry", "zero", "sign", "parity" }

\* Bit 4 of a, b and their sum or difference differ by the carry that came into it.
HalfCarry(a, b, n) == ((a \div 16) + (b \div 16) + (n \div 16)) % 2 = 1

\* Mutation of AddCore: overflow is judged by the first operand alone.
AddCoreSigned(f, a, b, carryIn, w) ==
  LET sum == a + b + carryIn
      r   == Truncate(sum, w)
  IN  [ value |-> r,
        flags |-> Update(f, Status,
                         Raised("carry", sum >= 2^w) \union Raised("aux_carry", HalfCarry(a, b, sum))
                         \union Raised("overflow", Top(a, w) # Top(r, w)) \union Szp(r, w)) ]

AddCore(f, a, b, carryIn, w) ==
  LET sum == a + b + carryIn
      r   == Truncate(sum, w)
  IN  [ value |-> r,
        flags |-> Update(f, Status,
                         Raised("carry", sum >= 2^w) \union Raised("aux_carry", HalfCarry(a, b, sum))
                         \union Raised("overflow", Top(a, w) = Top(b, w) /\ Top(a, w) # Top(r, w))
                         \union Szp(r, w)) ]

SubCore(f, a, b, borrowIn, w) ==
  LET full == a - b - borrowIn
      r    == Truncate(full, w)
  IN  [ value |-> r,
        flags |-> Update(f, Status,
                         Raised("carry", full < 0) \union Raised("aux_carry", HalfCarry(a, b, full))
                         \union Raised("overflow", Top(a, w) # Top(b, w) /\ Top(a, w) # Top(r, w))
                         \union Szp(r, w)) ]

\* The bits a and b share.
Both(a, b, w) ==
  LET low[n \in 0 .. w] ==
        IF n = 0 THEN 0
        ELSE low[n - 1] + (IF BitSet(a, n - 1) /\ BitSet(b, n - 1) THEN 2^(n - 1) ELSE 0)
  IN  low[w]

AndOf(a, b, w) == Both(a, b, w)
OrOf(a, b, w)  == a + b - Both(a, b, w)
XorOf(a, b, w) == a + b - 2 * Both(a, b, w)

\* CF, OF and AF clear.
Logic(f, r, w) == [ value |-> r, flags |-> Update(f, Status, Szp(r, w)) ]

CarryIn(f) == Bit(f, "carry")

\* The eight operations of the ALU block and of GRP1; CMP (7) is a SUB whose value is
\* not stored.
Operate(operation, f, a, b, w) ==
  CASE operation = 0      -> AddCore(f, a, b, 0, w)
    [] operation = 1      -> Logic(f, OrOf(a, b, w), w)
    [] operation = 2      -> AddCore(f, a, b, CarryIn(f), w)
    [] operation = 3      -> SubCore(f, a, b, CarryIn(f), w)
    [] operation = 4      -> Logic(f, AndOf(a, b, w), w)
    [] operation \in {5, 7} -> SubCore(f, a, b, 0, w)
    [] operation = 6      -> Logic(f, XorOf(a, b, w), w)

Test(f, a, b, w) == Logic(f, AndOf(a, b, w), w)

\* INC and DEC are an ADD and a SUB that leave CF alone.
KeepCarry(f, result) == [ result EXCEPT !.flags = Update(@, {"carry"}, f \intersect {"carry"}) ]

Inc(f, a, w) == KeepCarry(f, AddCore(f, a, 1, 0, w))
Dec(f, a, w) == KeepCarry(f, SubCore(f, a, 1, 0, w))
Neg(f, a, w) == SubCore(f, 0, a, 0, w)
Not(a, w)    == 2^w - 1 - a

---------------------------------------------------------------------------------
(* Shifts and rotates: 0 ROL, 1 ROR, 2 RCL, 3 RCR, 4 and 6 SHL, 5 SHR, 7 SAR.       *)

\* What a shift by one bit of a value and a carry moves in at the free end.
FillBit(op, s, w) ==
  CASE op \in {0, 7}    -> Top(s.value, w)
    [] op = 1           -> s.value % 2
    [] op \in {2, 3}    -> s.carry
    [] op \in {4, 5, 6} -> 0

ShiftOnce(op, s, w) ==
  IF op % 2 = 0
  THEN [ value |-> Truncate(2 * s.value + FillBit(op, s, w), w), carry |-> Top(s.value, w) ]
  ELSE [ value |-> s.value \div 2 + 2^(w - 1) * FillBit(op, s, w), carry |-> s.value % 2 ]

ShiftStates == [ value : Word, carry : 0 .. 1 ]

\* Mutation of Shifted: the count is taken modulo the width.
ShiftedInWidth(op, start, count, w) ==
  LET bits[s \in ShiftStates, n \in 0 .. 15] ==
        IF n = 0 THEN s ELSE bits[ShiftOnce(op, s, w), n - 1]
  IN  bits[start, count % w]

\* A shift by count bits is that many shifts by one, here in runs of sixteen; no count
\* is masked.
Shifted(op, start, count, w) ==
  LET bits[s \in ShiftStates, n \in 0 .. 16] ==
        IF n = 0 THEN s ELSE bits[ShiftOnce(op, s, w), n - 1]
      runs[s \in ShiftStates, n \in 0 .. 15] ==
        IF n = 0 THEN s ELSE runs[bits[s, 16], n - 1]
  IN  bits[runs[start, count \div 16], count % 16]

\* OF after a shift of value by one bit that leaves s.
ShiftOverflow(op, value, s, w) ==
  CASE op % 2 = 0    -> Top(s.value, w) # s.carry
    [] op \in {1, 3} -> Top(s.value, w) # (s.value \div 2^(w - 2)) % 2
    [] op = 5        -> Top(value, w) = 1
    [] op = 7        -> FALSE

\* OF changes for a count of 1 only, SF, ZF and PF for shifts only.
ShiftRotate(f, op, value, count, w) ==
  LET s       == Shifted(op, [ value |-> value, carry |-> CarryIn(f) ], count, w)
      touched == {"carry"} \union (IF count = 1 THEN {"overflow"} ELSE {})
                           \union (IF op >= 4 THEN {"sign", "zero", "parity"} ELSE {})
      raised  == Raised("carry", s.carry = 1)
                   \union Raised("overflow", ShiftOverflow(op, value, s, w)) \union Szp(s.value, w)
  IN  IF count = 0 THEN [ value |-> value, flags |-> f ]
      ELSE [ value |-> s.value, flags |-> Update(f, touched, raised \intersect touched) ]

---------------------------------------------------------------------------------
(* Multiplication and division.                                                   *)

\* A number of 2w bits as its two halves, and its two's complement.
Halves(hi, lo)   == [ hi |-> hi, lo |-> lo ]
Negated(d, w)    == Halves(Truncate(-d.hi - (IF d.lo = 0 THEN 0 ELSE 1), w), Truncate(-d.lo, w))
Magnitude(v, w)  == IF Top(v, w) = 1 THEN 2^w - v ELSE v
Magnitude2(d, w) == IF Top(d.hi, w) = 1 THEN Negated(d, w) ELSE d

\* MUL: the product of two words by the upper and the lower half of the second.
Mul(a, b, w) ==
  LET half  == 2^(w \div 2)
      upper == a * (b \div half)
      lower == a * (b % half) + half * (upper % half)
  IN  Halves(upper \div half + lower \div 2^w, lower % 2^w)

\* IMUL, by sign and magnitude.
Imul(a, b, w) ==
  LET product == Mul(Magnitude(a, w), Magnitude(b, w), w)
  IN  IF Top(a, w) = Top(b, w) THEN product ELSE Negated(product, w)

\* CF and OF after a multiplication: the upper half holds more than the extension of
\* the lower one.
MulFlags(f, signed, d, w) ==
  LET extension == IF signed /\ Top(d.lo, w) = 1 THEN 2^w - 1 ELSE 0
  IN  Update(f, {"carry", "overflow"}, IF d.hi = extension THEN {} ELSE {"carry", "overflow"})

\* What a division that raises #DE yields.
Trap == [ trap |-> TRUE, quotient |-> 0, remainder |-> 0 ]

\* DIV: quotient and remainder, half a word at a time; none when the divisor is zero
\* or the quotient is wider than w bits, which is when the upper half reaches it.
Div(d, by, w) ==
  LET half   == 2^(w \div 2)
      first  == half * d.hi + d.lo \div half
      second == half * (first % by) + (d.lo % half)
  IN  IF by = 0 \/ d.hi >= by THEN Trap
      ELSE [ trap |-> FALSE,
             quotient |-> half * (first \div by) + second \div by,
             remainder |-> second % by ]

\* Mutation of Idiv: the quotient's range is symmetric.
IdivSymmetric(d, by, w) ==
  LET result   == Div(Magnitude2(d, w), Magnitude(by, w), w)
      negative == Top(d.hi, w) # Top(by, w)
  IN  IF result.trap \/ result.quotient > 2^(w - 1)
      THEN Trap
      ELSE [ trap |-> FALSE,
             quotient  |-> Truncate(IF negative THEN -result.quotient ELSE result.quotient, w),
             remainder |-> Truncate(IF Top(d.hi, w) = 1 THEN -result.remainder
                                                        ELSE result.remainder, w) ]

\* IDIV truncates towards zero, so the remainder has the sign of the dividend; no
\* quotient outside -2^(w-1) .. 2^(w-1) - 1.
Idiv(d, by, w) ==
  LET result   == Div(Magnitude2(d, w), Magnitude(by, w), w)
      negative == Top(d.hi, w) # Top(by, w)
      largest  == IF negative THEN 2^(w - 1) ELSE 2^(w - 1) - 1
  IN  IF result.trap \/ result.quotient > largest
      THEN Trap
      ELSE [ trap |-> FALSE,
             quotient  |-> Truncate(IF negative THEN -result.quotient ELSE result.quotient, w),
             remainder |-> Truncate(IF Top(d.hi, w) = 1 THEN -result.remainder
                                                        ELSE result.remainder, w) ]
=====================================================================================
