------------------------------- MODULE InstructionProofs -------------------------------
(***********************************************************************************)
(* Proofs about the laws of single instructions.                                   *)
(***********************************************************************************)
EXTENDS InstructionLaws, HarnessProofs

---------------------------------------------------------------------------------
(* Words of 8 and of 16 bits.                                                       *)

Widths == {8, 16}

LEMMA Powers == 2^7 = 128 /\ 2^8 = 256 /\ 2^15 = 32768 /\ 2^16 = 65536
  BY SMT

\* The width of 2^w numbers has half of them below 2^(w - 1).
LEMMA Half ==
  ASSUME NEW w \in Widths
  PROVE  2^(w - 1) \in Nat \ {0} /\ 2^w = 2^(w - 1) + 2^(w - 1)
<1>1. CASE w = 8
  <2>1. w - 1 = 7
    BY <1>1
  <2> QED
    BY <1>1, <2>1, Powers
<1>2. CASE w = 16
  <2>1. w - 1 = 15
    BY <1>2
  <2> QED
    BY <1>2, <2>1, Powers
<1> QED
  BY <1>1, <1>2 DEF Widths

LEMMA Ranges ==
  ASSUME NEW w \in Widths, NEW n \in Int
  PROVE  /\ n \in Unsigned(w) <=> 0 <= n /\ n < 2^w
         /\ n \in SignedRange(w) <=> -(2^(w - 1)) <= n /\ n < 2^(w - 1)
<1> DEFINE N == 2^w
           H == 2^(w - 1)
<1>1. N \in Int /\ H \in Int
  BY Half
<1>2. Unsigned(w) = 0 .. N - 1 /\ SignedRange(w) = -H .. H - 1
  BY DEF Unsigned, SignedRange
<1> HIDE DEF N, H
<1>3. n \in Unsigned(w) <=> 0 <= n /\ n < N
  BY <1>1, <1>2
<1>4. n \in SignedRange(w) <=> -H <= n /\ n < H
  BY <1>1, <1>2
<1> QED
  BY <1>3, <1>4 DEF N, H

\* Half the numbers of a width have its top bit, and count as negative.
LEMMA Halved ==
  ASSUME NEW w \in Widths, NEW v \in Unsigned(w)
  PROVE  /\ v \in Int /\ 0 <= v /\ v < 2^w
         /\ Top(v, w) = IF v < 2^(w - 1) THEN 0 ELSE 1
         /\ Signed(v, w) = IF v < 2^(w - 1) THEN v ELSE v - 2^w
<1>1. v \in Int /\ 0 <= v /\ v < 2^w
  <2>1. v \in Int
    BY Half DEF Unsigned
  <2> QED
    BY <2>1, Ranges
<1>2. Top(v, w) = IF v < 2^(w - 1) THEN 0 ELSE 1
  <2>1. CASE w = 8
    <3>1. 2^(w - 1) = 128 /\ v < 256
      <4>1. w - 1 = 7
        BY <2>1
      <4> QED
        BY <1>1, <2>1, <4>1, Powers
    <3>2. Top(v, w) = v \div 128
      BY <3>1 DEF Top
    <3> QED
      BY <1>1, <3>1, <3>2
  <2>2. CASE w = 16
    <3>1. 2^(w - 1) = 32768 /\ v < 65536
      <4>1. w - 1 = 15
        BY <2>2
      <4> QED
        BY <1>1, <2>2, <4>1, Powers
    <3>2. Top(v, w) = v \div 32768
      BY <3>1 DEF Top
    <3> QED
      BY <1>1, <3>1, <3>2
  <2> QED
    BY <2>1, <2>2 DEF Widths
<1>3. Signed(v, w) = IF v < 2^(w - 1) THEN v ELSE v - 2^w
  BY <1>2 DEF Signed
<1> QED
  BY <1>1, <1>2, <1>3

\* A sum or difference of two numbers of a width passes it at most once.
LEMMA Passes ==
  ASSUME NEW w \in Widths, NEW n \in Int, -(2^w) <= n, n < 2^w + 2^w
  PROVE  /\ Truncate(n, w) = IF n < 0 THEN n + 2^w ELSE IF n < 2^w THEN n ELSE n - 2^w
         /\ Truncate(n, w) \in Unsigned(w)
<1>1. Truncate(n, w) = IF n < 0 THEN n + 2^w ELSE IF n < 2^w THEN n ELSE n - 2^w
  <2>1. CASE w = 8
    BY <2>1, Powers, SMT DEF Truncate
  <2>2. CASE w = 16
    BY <2>2, Powers, SMT DEF Truncate
  <2> QED
    BY <2>1, <2>2 DEF Widths
<1>2. 2^w \in Int /\ 2^w > 0
  BY Half
<1> DEFINE t == Truncate(n, w)
<1>3. t \in Int /\ 0 <= t /\ t < 2^w
  BY <1>1, <1>2
<1> QED
  BY <1>1, <1>3, Ranges

\* The low digits carry or borrow when bit 4 says so.
LEMMA HalfCarries ==
  ASSUME NEW a \in Nat, NEW b \in Nat, NEW c \in {0, 1}
  PROVE  /\ HalfCarry(a, b, a + b + c) <=> (a % 16) + (b % 16) + c \notin 0 .. 15
         /\ HalfCarry(a, b, a - b - c) <=> (a % 16) - (b % 16) - c \notin 0 .. 15
  BY SMT DEF HalfCarry

---------------------------------------------------------------------------------
(* The flags of a sum or a difference.                                              *)

\* A result is that of the integer n with flags that started as f: signed is the same
\* sum or difference of the numbers as signed ones, digit that of their low digits.
Exact(result, f, n, signed, digit, w) ==
  /\ result.value = n % 2^w /\ result.value \in Unsigned(w)
  /\ "carry" \in result.flags <=> n \notin Unsigned(w)
  /\ "overflow" \in result.flags <=> signed \notin SignedRange(w)
  /\ "aux_carry" \in result.flags <=> digit \notin 0 .. 15
  /\ "zero" \in result.flags <=> n % 2^w = 0
  /\ "sign" \in result.flags <=> n % 2^w >= 2^(w - 1)
  /\ result.flags \ Status = f \ Status

LEMMA AddIsExact ==
  ASSUME NEW w \in Widths, NEW f, NEW a \in Unsigned(w), NEW b \in Unsigned(w), NEW c \in {0, 1}
  PROVE  Exact(AddCore(f, a, b, c, w), f, a + b + c, Signed(a, w) + Signed(b, w) + c,
               (a % 16) + (b % 16) + c, w)
<1> DEFINE n == a + b + c
           r == Truncate(n, w)
           s == Signed(a, w) + Signed(b, w) + c
           H == 2^(w - 1)
           N == 2^w
<1>1. H \in Nat \ {0} /\ N = H + H
  BY Half
<1>2. a \in Nat /\ b \in Nat /\ c \in Nat /\ a < N /\ b < N
  BY Halved
<1>3. /\ r \in Unsigned(w) /\ r \in Int
      /\ r = IF n < N THEN n ELSE n - N
      /\ n \in Int /\ 0 <= n
  <2>1. n \in Int /\ -N <= n /\ n < N + N /\ 0 <= n
    BY <1>1, <1>2
  <2> HIDE DEF n
  <2>2. Truncate(n, w) \in Unsigned(w)
    BY <2>1, Passes
  <2> QED
    BY <2>1, <2>2, Passes, Halved
<1>4. /\ Top(a, w) = IF a < H THEN 0 ELSE 1
      /\ Top(b, w) = IF b < H THEN 0 ELSE 1
      /\ Top(r, w) = IF r < H THEN 0 ELSE 1
      /\ Signed(a, w) = IF a < H THEN a ELSE a - N
      /\ Signed(b, w) = IF b < H THEN b ELSE b - N
  <2> HIDE DEF r
  <2> QED
    BY <1>3, Halved
<1>5. n \in Unsigned(w) <=> n < N
  <2> HIDE DEF n
  <2> QED
    BY <1>3, Ranges
<1>6. s \in Int /\ (s \in SignedRange(w) <=> -H <= s /\ s < H)
  <2>1. s \in Int
    BY <1>1, <1>2, <1>4
  <2> HIDE DEF s
  <2> QED
    BY <2>1, Ranges
<1>7. Top(a, w) = Top(b, w) /\ Top(a, w) # Top(r, w) <=> s \notin SignedRange(w)
  <2> DEFINE x == Signed(a, w)
             y == Signed(b, w)
  <2> HIDE DEF r, H, N, x, y
  <2>1. s = x + y + c
    BY DEF x, y
  <2>2. x = (IF a < H THEN a ELSE a - N) /\ y = (IF b < H THEN b ELSE b - N)
    BY <1>4 DEF x, y
  <2> HIDE DEF s
  <2> QED
    BY <1>1, <1>2, <1>3, <1>4, <1>6, <2>1, <2>2
<1>8. HalfCarry(a, b, n) <=> (a % 16) + (b % 16) + c \notin 0 .. 15
  BY <1>2, HalfCarries
<1>9. Top(r, w) = 1 <=> r >= H
  <2> HIDE DEF r, H
  <2> QED
    BY <1>1, <1>3, <1>4
<1> DEFINE flags == AddCore(f, a, b, c, w).flags
<1>10. /\ "carry" \in flags <=> n >= N
       /\ "aux_carry" \in flags <=> HalfCarry(a, b, n)
       /\ "overflow" \in flags <=> Top(a, w) = Top(b, w) /\ Top(a, w) # Top(r, w)
       /\ "zero" \in flags <=> r = 0
       /\ "sign" \in flags <=> Top(r, w) = 1
       /\ flags \ Status = f \ Status
  <2> DEFINE past == n >= N
             half == HalfCarry(a, b, n)
             over == Top(a, w) = Top(b, w) /\ Top(a, w) # Top(r, w)
  <2>1. flags = Update(f, Status, Raised("carry", past) \union Raised("aux_carry", half)
                                  \union Raised("overflow", over) \union Szp(r, w))
    BY DEF AddCore
  <2> HIDE DEF flags, n, r, N, past, half, over
  <2>2. /\ "carry" \in flags <=> past
        /\ "aux_carry" \in flags <=> half
        /\ "overflow" \in flags <=> over
        /\ "zero" \in flags <=> r = 0
        /\ "sign" \in flags <=> Top(r, w) = 1
        /\ flags \ Status = f \ Status
    BY <2>1 DEF Update, Raised, Szp, Status
  <2> QED
    BY <2>2 DEF past, half, over
<1>11. AddCore(f, a, b, c, w).value = r /\ r = n % N
  BY DEF AddCore, Truncate
<1> HIDE DEF flags, n, r, s, H, N
<1>12. n >= N <=> n \notin Unsigned(w)
  BY <1>1, <1>3, <1>5
<1> QED
  BY <1>3, <1>7, <1>8, <1>9, <1>10, <1>11, <1>12 DEF Exact, flags, n, r, s, H, N

LEMMA SubIsExact ==
  ASSUME NEW w \in Widths, NEW f, NEW a \in Unsigned(w), NEW b \in Unsigned(w), NEW c \in {0, 1}
  PROVE  Exact(SubCore(f, a, b, c, w), f, a - b - c, Signed(a, w) - Signed(b, w) - c,
               (a % 16) - (b % 16) - c, w)
<1> DEFINE n == a - b - c
           r == Truncate(n, w)
           s == Signed(a, w) - Signed(b, w) - c
           H == 2^(w - 1)
           N == 2^w
<1>1. H \in Nat \ {0} /\ N = H + H
  BY Half
<1>2. a \in Nat /\ b \in Nat /\ c \in Nat /\ a < N /\ b < N
  BY Halved
<1>3. /\ r \in Unsigned(w) /\ r \in Int
      /\ r = IF n < 0 THEN n + N ELSE n
      /\ n \in Int /\ n < N
  <2>1. n \in Int /\ -N <= n /\ n < N + N /\ n < N
    BY <1>1, <1>2
  <2> HIDE DEF n
  <2>2. Truncate(n, w) \in Unsigned(w)
    BY <2>1, Passes
  <2> QED
    BY <2>1, <2>2, Passes, Halved
<1>4. /\ Top(a, w) = IF a < H THEN 0 ELSE 1
      /\ Top(b, w) = IF b < H THEN 0 ELSE 1
      /\ Top(r, w) = IF r < H THEN 0 ELSE 1
      /\ Signed(a, w) = IF a < H THEN a ELSE a - N
      /\ Signed(b, w) = IF b < H THEN b ELSE b - N
  <2> HIDE DEF r
  <2> QED
    BY <1>3, Halved
<1>5. n \in Unsigned(w) <=> 0 <= n
  <2> HIDE DEF n
  <2> QED
    BY <1>3, Ranges
<1>6. s \in Int /\ (s \in SignedRange(w) <=> -H <= s /\ s < H)
  <2>1. s \in Int
    BY <1>1, <1>2, <1>4
  <2> HIDE DEF s
  <2> QED
    BY <2>1, Ranges
<1>7. Top(a, w) # Top(b, w) /\ Top(a, w) # Top(r, w) <=> s \notin SignedRange(w)
  <2> DEFINE x == Signed(a, w)
             y == Signed(b, w)
  <2> HIDE DEF r, H, N, x, y
  <2>1. s = x - y - c
    BY DEF x, y
  <2>2. x = (IF a < H THEN a ELSE a - N) /\ y = (IF b < H THEN b ELSE b - N)
    BY <1>4 DEF x, y
  <2> HIDE DEF s
  <2> QED
    BY <1>1, <1>2, <1>3, <1>4, <1>6, <2>1, <2>2
<1>8. HalfCarry(a, b, n) <=> (a % 16) - (b % 16) - c \notin 0 .. 15
  BY <1>2, HalfCarries
<1>9. Top(r, w) = 1 <=> r >= H
  <2> HIDE DEF r, H
  <2> QED
    BY <1>1, <1>3, <1>4
<1> DEFINE flags == SubCore(f, a, b, c, w).flags
<1>10. /\ "carry" \in flags <=> n < 0
       /\ "aux_carry" \in flags <=> HalfCarry(a, b, n)
       /\ "overflow" \in flags <=> Top(a, w) # Top(b, w) /\ Top(a, w) # Top(r, w)
       /\ "zero" \in flags <=> r = 0
       /\ "sign" \in flags <=> Top(r, w) = 1
       /\ flags \ Status = f \ Status
  <2> DEFINE past == n < 0
             half == HalfCarry(a, b, n)
             over == Top(a, w) # Top(b, w) /\ Top(a, w) # Top(r, w)
  <2>1. flags = Update(f, Status, Raised("carry", past) \union Raised("aux_carry", half)
                                  \union Raised("overflow", over) \union Szp(r, w))
    BY DEF SubCore
  <2> HIDE DEF flags, n, r, N, past, half, over
  <2>2. /\ "carry" \in flags <=> past
        /\ "aux_carry" \in flags <=> half
        /\ "overflow" \in flags <=> over
        /\ "zero" \in flags <=> r = 0
        /\ "sign" \in flags <=> Top(r, w) = 1
        /\ flags \ Status = f \ Status
    BY <2>1 DEF Update, Raised, Szp, Status
  <2> QED
    BY <2>2 DEF past, half, over
<1>11. SubCore(f, a, b, c, w).value = r /\ r = n % N
  BY DEF SubCore, Truncate
<1> HIDE DEF flags, n, r, s, H, N
<1>12. n < 0 <=> n \notin Unsigned(w)
  BY <1>1, <1>3, <1>5
<1> QED
  BY <1>3, <1>7, <1>8, <1>9, <1>10, <1>11, <1>12 DEF Exact, flags, n, r, s, H, N

---------------------------------------------------------------------------------
(* Conditions.                                                                      *)

\* Flags that are exactly those of a - b order a and b, as unsigned and as signed numbers.
LEMMA ExactOrders ==
  ASSUME NEW w \in Widths, NEW f, NEW a \in Unsigned(w), NEW b \in Unsigned(w), NEW digit, NEW result,
         Exact(result, f, a - b, Signed(a, w) - Signed(b, w), digit, w)
  PROVE  LET g == result.flags
             s == Signed(a, w)
             t == Signed(b, w)
         IN  /\ "carry" \in g <=> a < b
             /\ "zero" \in g <=> a = b
             /\ ("sign" \in g) # ("overflow" \in g) <=> s < t
             /\ a = b <=> s = t
             /\ a \in Int /\ b \in Int /\ s \in Int /\ t \in Int
<1> DEFINE n == a - b
           r == n % 2^w
           s == Signed(a, w)
           t == Signed(b, w)
           H == 2^(w - 1)
           N == 2^w
           g == result.flags
<1>1. H \in Nat \ {0} /\ N = H + H
  BY Half
<1>2. a \in Int /\ b \in Int /\ 0 <= a /\ a < N /\ 0 <= b /\ b < N
  BY Halved
<1>3. /\ s = IF a < H THEN a ELSE a - N
      /\ t = IF b < H THEN b ELSE b - N
  BY Halved
<1>4. n \in Int /\ -N <= n /\ n < N + N
  BY <1>1, <1>2
<1>5. r = (IF n < 0 THEN n + N ELSE IF n < N THEN n ELSE n - N)
  <2> HIDE DEF n
  <2> QED
    BY <1>4, Passes DEF Truncate
<1>6. n \in Unsigned(w) <=> 0 <= n /\ n < N
  <2> HIDE DEF n
  <2> QED
    BY <1>4, Ranges
<1>7. s - t \in SignedRange(w) <=> -H <= s - t /\ s - t < H
  <2> DEFINE d == s - t
  <2>1. d \in Int
    BY <1>1, <1>2, <1>3
  <2> HIDE DEF d
  <2>2. d \in SignedRange(w) <=> -H <= d /\ d < H
    BY <2>1, Ranges
  <2> QED
    BY <2>2 DEF d
<1>8. /\ "carry" \in g <=> n \notin Unsigned(w)
      /\ "overflow" \in g <=> s - t \notin SignedRange(w)
      /\ "zero" \in g <=> r = 0
      /\ "sign" \in g <=> r >= H
  BY DEF Exact
<1> HIDE DEF r, s, t, H, N, g
<1>9. /\ "carry" \in g <=> a < b
      /\ "zero" \in g <=> a = b
  BY <1>1, <1>2, <1>5, <1>6, <1>8
<1>10. ("sign" \in g) # ("overflow" \in g) <=> s < t
  <2>1. "sign" \in g <=> r >= H
    BY <1>8
  <2>2. "overflow" \in g <=> ~ (-H <= s - t /\ s - t < H)
    BY <1>7, <1>8
  <2>3. (r >= H) # (~ (-H <= s - t /\ s - t < H)) <=> s < t
    BY <1>1, <1>2, <1>3, <1>5
  <2> QED
    BY <2>1, <2>2, <2>3
<1>11. s \in Int /\ t \in Int /\ (a = b <=> s = t)
  BY <1>1, <1>2, <1>3
<1> QED
  BY <1>2, <1>9, <1>10, <1>11 DEF s, t, g

LEMMA Conditions ==
  ASSUME NEW f
  PROVE  /\ Condition(f, 2) <=> "carry" \in f
         /\ Condition(f, 4) <=> "zero" \in f
         /\ Condition(f, 6) <=> "carry" \in f \/ "zero" \in f
         /\ Condition(f, 12) <=> (("sign" \in f) # ("overflow" \in f))
         /\ Condition(f, 14) <=> (("sign" \in f) # ("overflow" \in f)) \/ "zero" \in f
         /\ Condition(f, 3) <=> ~ ("carry" \in f)
         /\ Condition(f, 5) <=> ~ ("zero" \in f)
         /\ Condition(f, 7) <=> ~ ("carry" \in f \/ "zero" \in f)
         /\ Condition(f, 13) <=> ~ (("sign" \in f) # ("overflow" \in f))
         /\ Condition(f, 15) <=> ~ ((("sign" \in f) # ("overflow" \in f)) \/ "zero" \in f)
  BY DEF Condition

---------------------------------------------------------------------------------
(* What an addition or a comparison of two registers leaves behind.                 *)

\* An operand in a register takes no displacement.
LEMMA RegisterModrm ==
  ASSUME NEW c, NEW chosen, NEW modrm, Immediate(c, 8) = modrm, modrm \div 64 = 3
  PROVE  DecodeModrm(c, chosen) = [ reg   |-> (modrm \div 8) % 8,
                                    rm    |-> Register(modrm % 8),
                                    after |-> Past(c, 8) ]
  BY DEF DecodeModrm

\* The operation of an opcode of the ALU block.
LEMMA AdditiveOperation ==
  ASSUME NEW op \in Additive
  PROVE  /\ op \in {0, 1}           => op \div 8 = 0
         /\ op \in {16, 17}         => op \div 8 = 2
         /\ op \in {24, 25}         => op \div 8 = 3
         /\ op \in {40, 41, 56, 57} => op \div 8 \in {5, 7}
  OBVIOUS

LEMMA AdditiveIsAlu ==
  ASSUME NEW op \in Additive
  PROVE  /\ \A c, chosen : Execute(c, op, chosen) = ExecuteAlu(c, op, chosen)
         /\ op % 8 \in {0, 1} /\ Width(op) \in Widths
<1>1. op \in {0, 1, 16, 17, 24, 25, 40, 41, 56, 57}
  BY DEF Additive
<1>2. op \in AluBlock
  BY <1>1 DEF AluBlock
<1>3. op \notin MoveModrm /\ op \notin MoveDirect /\ op \notin Exchanges /\ op \notin Group1
  BY <1>1 DEF MoveModrm, MoveDirect, Exchanges, Group1
<1>4. op \notin Singles /\ op \notin StackOps /\ op \notin Jumps /\ op \notin Calls
  BY <1>1 DEF Singles, StackOps, Jumps, Calls
<1>5. op \notin Group2 /\ op \notin Group3 /\ op \notin Groups45 /\ op \notin PortOps
  BY <1>1 DEF Group2, Group3, Groups45, PortOps
<1>6. op \notin FlagOps /\ op \notin Strings
  BY <1>1 DEF FlagOps, Strings
<1>7. \A c, chosen : Execute(c, op, chosen) = ExecuteAlu(c, op, chosen)
  BY <1>2, <1>3, <1>4, <1>5, <1>6 DEF Execute
<1>8. op % 8 \in {0, 1} /\ Width(op) \in Widths
  BY <1>1 DEF Width, Widths
<1> QED
  BY <1>7, <1>8

LEMMA SetRegisterIs ==
  ASSUME NEW c, CpuShape(c), NEW i, NEW v
  PROVE  /\ SetRegister(c, i, v) = [ c EXCEPT !.reg = [ c.reg EXCEPT ![i] = v ] ]
         /\ SetRegister(c, i, v).reg = [ c.reg EXCEPT ![i] = v ]
         /\ i \in DOMAIN c.reg => SetRegister(c, i, v).reg[i] = v
         /\ SetRegister(c, i, v).flags = c.flags
  BY DEF SetRegister, CpuShape

\* A register of a width holds a number of that width, and what is stored in it.
LEMMA RegisterValue ==
  ASSUME NEW c, CpuShape(c), c.reg \in [ AX .. DI -> Word ], NEW w \in Widths, NEW i \in 0 .. 3
  PROVE  /\ Value(c, Register(i), w) \in Unsigned(w)
         /\ \A v \in Unsigned(w) : Value(Store(c, Register(i), v, w), Register(i), w) = v
         /\ \A v, j : Store(c, Register(j), v, w).flags = c.flags
<1> DEFINE x == c.reg[i]
<1>0. i \in DOMAIN c.reg
  <2>1. DOMAIN c.reg = AX .. DI
    BY Zenon
  <2> QED
    BY <2>1 DEF AX, DI
<1>1. x \in Int /\ 0 <= x /\ x < 65536 /\ i < 4
  <2>1. i \in AX .. DI
    BY DEF AX, DI
  <2>2. x \in Word
    BY <2>1
  <2> HIDE DEF x
  <2>3. x \in Nat /\ x <= MaxWord
    BY <2>2, Offsets
  <2> QED
    BY <2>1, <2>3 DEF MaxWord
<1>2. CASE w = 8
  <2>1. \A d : Value(d, Register(i), w) = LowByte(d.reg[i])
    BY <1>1, <1>2 DEF Value, Register
  <2>2. \A v : Store(c, Register(i), v, w) = SetRegister(c, i, WithLow(x, v))
    BY <1>1, <1>2 DEF Store, Register
  <2>3. \A v : SetRegister(c, i, v).reg[i] = v
    BY <1>0, SetRegisterIs, Zenon
  <2> HIDE DEF x
  <2>4. LowByte(x) \in Unsigned(w) /\ \A v \in Unsigned(w) : LowByte(WithLow(x, v)) = v
    <3>1. Unsigned(w) = 0 .. 255
      BY <1>2, Powers DEF Unsigned
    <3>2. \A v \in 0 .. 255 : (256 * (x \div 256) + v) % 256 = v
      BY <1>1
    <3>3. x % 256 \in 0 .. 255
      BY <1>1
    <3> QED
      BY <3>1, <3>2, <3>3 DEF LowByte, WithLow, HighByte
  <2>5. \A v, j : Store(c, Register(j), v, w).flags = c.flags
    BY <1>2 DEF Store, Register, SetRegister, CpuShape
  <2> QED
    BY <2>1, <2>2, <2>3, <2>4, <2>5 DEF x
<1>3. CASE w = 16
  <2>1. \A d : Value(d, Register(i), w) = d.reg[i]
    BY <1>3 DEF Value, Register
  <2>2. \A v : Store(c, Register(i), v, w) = SetRegister(c, i, v)
    BY <1>3 DEF Store, Register
  <2>3. \A v : SetRegister(c, i, v).reg[i] = v
    BY <1>0, SetRegisterIs, Zenon
  <2>4. x \in Unsigned(w)
    <3> HIDE DEF x
    <3>1. 2^w = 65536
      BY <1>3, Powers
    <3> QED
      BY <1>1, <3>1, Ranges
  <2>5. \A v, j : Store(c, Register(j), v, w).flags = c.flags
    BY <1>3 DEF Store, Register, SetRegister, CpuShape
  <2> QED
    BY <2>1, <2>2, <2>3, <2>4, <2>5 DEF x
<1> QED
  BY <1>2, <1>3 DEF Widths

\* What is stored in a register, and the flags, of ADD, ADC, SBB, SUB and CMP.
LEMMA AdditiveLeaves ==
  ASSUME NEW c, CpuShape(c), c.reg \in [ AX .. DI -> Word ], NEW chosen, NEW op \in Additive,
         Immediate(c, 8) = \hD8
  PROVE  LET n     == Execute(c, op, chosen)
             w     == Width(op)
             a     == Value(c, Register(AX), w)
             b     == Value(c, Register(BX), w)
             carry == IF op \in {\h10, \h11, \h18, \h19} THEN Bit(c.flags, "carry") ELSE 0
             exact(x, y) == IF op < \h18 THEN x + y + carry ELSE x - y - carry
         IN  \E result : /\ Exact(result, c.flags, exact(a, b), exact(Signed(a, w), Signed(b, w)),
                                  exact(a % 16, b % 16), w)
                         /\ n.flags = result.flags
                         /\ Value(n, Register(AX), w) = IF op \in {\h38, \h39} THEN a ELSE result.value
<1> DEFINE n     == Execute(c, op, chosen)
           d     == Past(c, 8)
           w     == Width(op)
           a     == Value(c, Register(AX), w)
           b     == Value(c, Register(BX), w)
           carry == IF op \in {\h10, \h11, \h18, \h19} THEN Bit(c.flags, "carry") ELSE 0
           exact(x, y) == IF op < \h18 THEN x + y + carry ELSE x - y - carry
           operation == op \div 8
           result == Operate(operation, c.flags, a, b, w)
<1>0. op \in {0, 1, 16, 17, 24, 25, 40, 41, 56, 57}
  BY DEF Additive
<1>1. w \in Widths
  BY AdditiveIsAlu
<1>2. /\ CpuShape(d) /\ d.flags = c.flags /\ d.reg = c.reg
      /\ \A i : Value(d, Register(i), w) = Value(c, Register(i), w)
  <2>1. CpuShape(d) /\ d.flags = c.flags /\ d.reg = c.reg
    BY DEF CpuShape, Past
  <2> HIDE DEF d
  <2> QED
    BY <1>1, <2>1 DEF Value, Register, Widths
<1>3. n = Combine(d, operation, Register(AX), b, w)
  <2>1. \hD8 \div 64 = 3 /\ \hD8 % 8 = 0 /\ (\hD8 \div 8) % 8 = 3
    BY SMT
  <2>2. DecodeModrm(c, chosen) = [ reg |-> 3, rm |-> Register(0), after |-> d ]
    BY <2>1, RegisterModrm
  <2>3. op % 8 \in {0, 1} /\ n = ExecuteAlu(c, op, chosen)
    BY AdditiveIsAlu
  <2>4. n = Combine(d, operation, Register(0), Value(d, Register(3), w), w)
    <3> HIDE DEF d
    <3> QED
      BY <2>2, <2>3 DEF ExecuteAlu
  <2> QED
    BY <1>2, <2>4 DEF AX, BX
<1>4. a \in Unsigned(w) /\ b \in Unsigned(w) /\ carry \in {0, 1}
  <2>1. AX \in 0 .. 3 /\ BX \in 0 .. 3
    BY DEF AX, BX
  <2> HIDE DEF w
  <2> QED
    BY <1>1, <2>1, RegisterValue DEF Bit
<1>5. result = IF op < \h18 THEN AddCore(c.flags, a, b, carry, w) ELSE SubCore(c.flags, a, b, carry, w)
  <2> HIDE DEF a, b, w, operation
  <2>2. CASE op \in {0, 1}
    <3>1. carry = 0 /\ op < \h18 /\ operation = 0
      BY AdditiveOperation, <2>2 DEF operation
    <3> HIDE DEF carry
    <3> QED
      BY <3>1 DEF Operate
  <2>3. CASE op \in {16, 17}
    <3>1. carry = CarryIn(c.flags) /\ op < \h18 /\ operation = 2
      BY AdditiveOperation, <2>3 DEF CarryIn, operation
    <3> HIDE DEF carry
    <3> QED
      BY <3>1 DEF Operate
  <2>4. CASE op \in {24, 25}
    <3>1. carry = CarryIn(c.flags) /\ ~ (op < \h18) /\ operation = 3
      BY AdditiveOperation, <2>4 DEF CarryIn, operation
    <3> HIDE DEF carry
    <3> QED
      BY <3>1 DEF Operate
  <2>5. CASE op \in {40, 41, 56, 57}
    <3>1. carry = 0 /\ ~ (op < \h18) /\ operation \in {5, 7}
      BY AdditiveOperation, <2>5 DEF operation
    <3> HIDE DEF carry
    <3> QED
      BY <3>1 DEF Operate
  <2> QED
    BY <1>0, <2>2, <2>3, <2>4, <2>5
<1>6. Exact(result, c.flags, exact(a, b), exact(Signed(a, w), Signed(b, w)), exact(a % 16, b % 16), w)
  <2> HIDE DEF w, a, b, carry, result
  <2>1. /\ Exact(AddCore(c.flags, a, b, carry, w), c.flags, a + b + carry,
                 Signed(a, w) + Signed(b, w) + carry, (a % 16) + (b % 16) + carry, w)
        /\ Exact(SubCore(c.flags, a, b, carry, w), c.flags, a - b - carry,
                 Signed(a, w) - Signed(b, w) - carry, (a % 16) - (b % 16) - carry, w)
    BY <1>1, <1>4, AddIsExact, SubIsExact
  <2>2. CASE op < \h18
    BY <1>5, <2>1, <2>2
  <2>3. CASE ~ (op < \h18)
    BY <1>5, <2>1, <2>3
  <2> QED
    BY <2>2, <2>3
<1>7. Value(d, Register(AX), w) = a /\ d.flags = c.flags
  BY <1>2
<1>8. operation = 7 <=> op \in {\h38, \h39}
  BY <1>0
<1>9. n.flags = result.flags /\ Value(n, Register(AX), w) = IF op \in {\h38, \h39} THEN a ELSE result.value
  <2> DEFINE e == WithFlags(d, result.flags)
  <2>1. CpuShape(e) /\ e.reg = c.reg /\ e.flags = result.flags
    BY <1>2 DEF WithFlags, CpuShape
  <2>2. Value(e, Register(AX), w) = a
    <3> HIDE DEF e, result
    <3> QED
      BY <1>1, <2>1 DEF Value, Register, Widths
  <2>3. n = IF operation = 7 THEN e ELSE Store(e, Register(AX), result.value, w)
    <3> HIDE DEF n, d, w, operation, b
    <3> QED
      BY <1>3, <1>7 DEF Combine, Apply
  <2>4. result.value \in Unsigned(w)
    BY <1>6 DEF Exact
  <2>5. AX \in 0 .. 3
    BY DEF AX
  <2> HIDE DEF e, n, result, operation, w, a
  <2>6. Store(e, Register(AX), result.value, w).flags = e.flags
    BY <1>1, <2>1, <2>5, RegisterValue
  <2>7. Value(Store(e, Register(AX), result.value, w), Register(AX), w) = result.value
    BY <1>1, <2>1, <2>4, <2>5, RegisterValue
  <2> QED
    BY <1>8, <2>1, <2>2, <2>3, <2>6, <2>7
<1> QED
  BY <1>6, <1>9

---------------------------------------------------------------------------------
(* The case as the instruction finds it. While Cpu::step reads prefixes the CPU is  *)
(* the prepared one but for IP, and an override tells that a prefix came first. So a *)
(* plain case is judged on its opcode executed on the prepared CPU, past the opcode. *)

Stepping ==
  /\ phase = "step" =>
       /\ cpu = [ Before EXCEPT !.ip = cpu.ip ]
       /\ override # NoOverride => FetchedAt(0) \in PrefixBytes
  /\ phase = "repeat" => rep # NoPrefix
  /\ (Judged /\ Plain) => cpu = Execute([ Before EXCEPT !.ip = ModrmAt ], opcode, override)

LEMMA BeforeFields ==
  /\ CpuShape(Before)
  /\ Before.bus.bytes = Stored(Zeroed, Case.iram) /\ Before.bus.dirty = {}
  /\ Before.reg = Case.init.reg /\ Before.seg = Case.init.seg /\ Before.ip = Case.init.ip
  /\ Before.flags = FromWord(Case.init.fl)
  /\ \A x : [ Before EXCEPT !.ip = x ].bus = Before.bus
  /\ \A x : [ Before EXCEPT !.ip = x ].ip = x
<1>1. CpuShape(Before)
  BY PreparedTidy DEF Before, Tidy
<1>2. \A x : [ Before EXCEPT !.ip = x ].bus = Before.bus /\ [ Before EXCEPT !.ip = x ].ip = x
  BY <1>1 DEF CpuShape
<1> QED
  BY <1>1, <1>2, PreparedFields DEF Before

\* The opcode of a plain case is where it is fetched.
LEMMA FetchedAtOpcode ==
  ASSUME Placed, Traced, Scanned, Stepping, phase = "step", Fetched \notin PrefixBytes,
         ReadMem(Before, Before.seg[CS], OpcodeAt, 8) = Fetched
  PROVE  cpu.ip = OpcodeAt
<1> DEFINE ip == Case.init.ip
           d  == Distance
<1>1. /\ ip \in Word /\ cpu.ip \in Word /\ d \in Nat /\ Wrap(ip + d) = cpu.ip
      /\ Fetched = FetchedAt(d)
  BY FetchesAtDistance
<1>2. \A j \in 0 .. d - 1 : FetchedAt(j) \in PrefixBytes
  BY DEF Scanned
<1>3. Before.ip = ip /\ Before.seg = Case.init.seg /\ cpu.bus = Before.bus
  BY BeforeFields DEF Stepping
<1>4. \A j : FetchedAt(j) = ReadMem(Before, Before.seg[CS], Wrap(ip + j), 8)
  BY <1>3, Zenon DEF FetchedAt, ReadMem
<1> DEFINE k == IF override = NoOverride THEN 0 ELSE 1
<1>5. OpcodeAt = Wrap(ip + k)
  BY <1>3, Zenon DEF OpcodeAt
<1>6. FetchedAt(k) = Fetched
  BY <1>4, <1>5, Zenon
<1>7. d <= k
  <2>1. k \in {0, 1}
    OBVIOUS
  <2> HIDE DEF k, d
  <2>2. k \in 0 .. d - 1 => FALSE
    BY <1>2, <1>6
  <2> QED
    BY <1>1, <2>1, <2>2
<1>8. d = k
  <2>1. CASE override = NoOverride
    <3> HIDE DEF d
    <3> QED
      BY <1>1, <1>7, <2>1
  <2>2. CASE override # NoOverride
    <3>1. FetchedAt(0) \in PrefixBytes
      BY <2>2 DEF Stepping
    <3> HIDE DEF d
    <3>2. d # 0
      BY <1>1, <3>1
    <3> QED
      BY <1>1, <1>7, <2>2, <3>2
  <2> QED
    BY <2>1, <2>2
<1> QED
  BY <1>1, <1>5, <1>8, Zenon

LEMMA SteppingKept == Placed /\ Traced /\ Scanned /\ Stepping /\ [Next]_vars => Stepping'
<1> SUFFICES ASSUME Placed, Traced, Scanned, Stepping, [Next]_vars PROVE Stepping'
  OBVIOUS
<1>1. CASE WithinCase /\ phase = "step"
  <2>1. Case' = Case /\ Before' = Before
    BY <1>1, WithinCaseStays DEF Before
  <2>2. cpu = [ Before EXCEPT !.ip = cpu.ip ] /\ CpuShape(Before)
    BY <1>1, BeforeFields DEF Stepping
  <2>3. Past(cpu, 8) = [ Before EXCEPT !.ip = Wrap(cpu.ip + 1) ] /\ Past(cpu, 8).bus = cpu.bus
    <3> DEFINE x == cpu.ip
    <3>1. 8 \div 8 = 1
      OBVIOUS
    <3>2. cpu = [ Before EXCEPT !.ip = x ]
      BY <2>2
    <3> HIDE DEF x
    <3>3. Past(cpu, 8) = [ Before EXCEPT !.ip = Wrap(x + 1) ]
      BY <2>2, <3>1, <3>2 DEF Past, CpuShape
    <3>4. Past(cpu, 8).bus = cpu.bus
      <4>1. \A y : [ Before EXCEPT !.ip = y ].bus = Before.bus
        BY BeforeFields
      <4> QED
        BY <3>2, <3>3, <4>1, Zenon
    <3> QED
      BY <3>3, <3>4 DEF x
  <2>4. CASE FetchSegmentPrefix \/ FetchLock \/ FetchRep
    <3>1. cpu' = Past(cpu, 8) /\ phase' = "step" /\ Fetched \in PrefixBytes
      BY <2>4 DEF FetchSegmentPrefix, FetchLock, FetchRep, AfterPrefix, PrefixBytes
    <3>2. FetchedAt(0)' = FetchedAt(0)
      BY <2>1, <2>3, <3>1 DEF FetchedAt
    <3>3. FetchedAt(0) \in PrefixBytes
      <4>1. Fetched = FetchedAt(Distance) /\ Distance \in Nat
        BY <1>1, FetchesAtDistance
      <4>2. \A j \in 0 .. Distance - 1 : FetchedAt(j) \in PrefixBytes
        BY <1>1 DEF Scanned
      <4> QED
        BY <3>1, <4>1, <4>2
    <3>4. cpu' = [ Before' EXCEPT !.ip = cpu'.ip ]
      BY <2>1, <2>3, <3>1, BeforeFields
    <3> QED
      BY <3>1, <3>2, <3>3, <3>4 DEF Stepping, Judged
  <2>5. CASE ExecuteOpcode
    <3>1. /\ phase' = "judge" /\ opcode' = Fetched /\ Fetched \notin PrefixBytes
          /\ cpu' = Execute(Past(cpu, 8), Fetched, override) /\ override' = override
      BY <2>5 DEF ExecuteOpcode, CanExecute
    <3>2. OpcodeAt' = OpcodeAt /\ ModrmAt' = ModrmAt
      BY <2>1, <3>1 DEF OpcodeAt, ModrmAt
    <3>3. ASSUME Plain' PROVE cpu' = Execute([ Before EXCEPT !.ip = ModrmAt ], Fetched, override)
      <4>1. ReadMem(Before, Before.seg[CS], OpcodeAt, 8) = Fetched
        BY <2>1, <3>1, <3>2, <3>3 DEF Plain
      <4>2. cpu.ip = OpcodeAt
        BY <1>1, <3>1, <4>1, FetchedAtOpcode
      <4> QED
        BY <2>3, <3>1, <4>2 DEF ModrmAt
    <3> QED
      BY <2>1, <3>1, <3>2, <3>3 DEF Stepping
  <2>6. CASE BeginRepeat
    BY <2>6 DEF BeginRepeat, Stepping, Judged
  <2> QED
    BY <1>1, <2>4, <2>5, <2>6 DEF WithinCase, Repeat, CanRepeat, EndRepeat
<1>2. CASE WithinCase /\ phase # "step"
  <2>1. phase = "repeat" /\ phase' # "step" /\ rep' = rep
    BY <1>2 DEF WithinCase, FetchSegmentPrefix, FetchLock, FetchRep, ExecuteOpcode, CanExecute,
                BeginRepeat, Repeat, CanRepeat, EndRepeat, StepLocals
  <2> QED
    BY <2>1 DEF Stepping, Plain
<1>3. CASE StartCase
  <2>1. cpu' = Prepared(Case, Blank) /\ Case' = Case /\ phase' = "step" /\ override' = NoOverride
    BY <1>3 DEF StartCase, Traced, MemoryRestored, Running, NewCpu, Program, Case, Lines
  <2>2. cpu' = Before /\ Before' = Before
    BY <2>1 DEF Before
  <2>3. cpu' = [ Before EXCEPT !.ip = Before.ip ]
    BY <2>2, BeforeFields DEF CpuShape
  <2> QED
    BY <2>1, <2>2, <2>3 DEF Stepping, Judged
<1>4. CASE Judge
  BY <1>4 DEF Judge, Stepping, Judged
<1>5. CASE OutsideCase
  <2>1. \/ phase' \notin {"step", "repeat", "judge"}
        \/ UNCHANGED << phase, cpu, opcode, override, rep, Case >>
    BY <1>5 DEF OutsideCase, OpenFile, Finish, SkipMalformed, SkipV20Only, CloseFile, vars, Case, Lines
  <2> QED
    BY <2>1 DEF Stepping, Judged, Plain, Before, OpcodeAt, ModrmAt, FetchedAt
<1> QED
  BY <1>1, <1>2, <1>3, <1>4, <1>5, Steps

\* The CPU an opcode is executed on, IP being past it.
AtModrm == [ Before EXCEPT !.ip = ModrmAt ]

LEMMA AtModrmFields ==
  ASSUME Placed, Running
  PROVE  /\ CpuShape(AtModrm) /\ AtModrm.reg = Before.reg /\ AtModrm.seg = Before.seg
         /\ AtModrm.flags = Before.flags /\ AtModrm.bus = Before.bus /\ AtModrm.ip = ModrmAt
         /\ Before.reg \in [ AX .. DI -> Word ] /\ Before.seg \in [ ES .. DS -> Word ]
         /\ Before.ip \in Word
         /\ Immediate(AtModrm, 8) = Modrm
         /\ \A i, w : w \in Widths => Value(AtModrm, Register(i), w) = Value(Before, Register(i), w)
<1>1. CpuShape(Before)
  BY BeforeFields
<1>2. /\ CpuShape(AtModrm) /\ AtModrm.reg = Before.reg /\ AtModrm.seg = Before.seg
      /\ AtModrm.flags = Before.flags /\ AtModrm.bus = Before.bus /\ AtModrm.ip = ModrmAt
  BY <1>1 DEF AtModrm, CpuShape
<1>3. /\ Before.reg \in [ AX .. DI -> Word ] /\ Before.seg \in [ ES .. DS -> Word ]
      /\ Before.ip \in Word
  BY BeforeFields, CaseTyped
<1>4. Immediate(AtModrm, 8) = Modrm
  BY <1>2 DEF Immediate, Modrm, ReadMem
<1>5. \A i, w : w \in Widths => Value(AtModrm, Register(i), w) = Value(Before, Register(i), w)
  BY <1>2 DEF Value, Register, Widths
<1> QED
  BY <1>2, <1>3, <1>4, <1>5

LEMMA PlainAdditionIsExact ==
  ASSUME Placed, Stepping
  PROVE  AdditionIsExact
<1> SUFFICES ASSUME Judged, Plain, opcode \in Additive, Modrm = \hD8
             PROVE  AdditionIsExact
  <2>1. {\h38, \h39} \subseteq Additive
    BY DEF Additive
  <2> QED
    BY <2>1 DEF AdditionIsExact, SumsAreExact, CompareDecides
<1> DEFINE w     == Width(opcode)
           a     == A(w)
           b     == B(w)
           carry == IF opcode \in {\h10, \h11, \h18, \h19} THEN Bit(Before.flags, "carry") ELSE 0
           exact(x, y) == IF opcode < \h18 THEN x + y + carry ELSE x - y - carry
           n     == exact(a, b)
           signed == exact(Signed(a, w), Signed(b, w))
           digit == exact(a % 16, b % 16)
<1>1. w \in Widths
  BY AdditiveIsAlu
<1>2. cpu = Execute(AtModrm, opcode, override)
  BY DEF Stepping, AtModrm
<1>3. /\ CpuShape(AtModrm) /\ AtModrm.reg \in [ AX .. DI -> Word ] /\ AtModrm.flags = Before.flags
      /\ Immediate(AtModrm, 8) = \hD8
      /\ Before.reg \in [ AX .. DI -> Word ] /\ CpuShape(Before)
  BY AtModrmFields, BeforeFields DEF Judged, Running
<1>4. Value(AtModrm, Register(AX), w) = a /\ Value(AtModrm, Register(BX), w) = b
  BY <1>1, AtModrmFields DEF A, B, Judged, Running
<1>5. PICK result :
        /\ Exact(result, Before.flags, n, signed, digit, w)
        /\ cpu.flags = result.flags
        /\ Value(cpu, Register(AX), w) = IF opcode \in {\h38, \h39} THEN a ELSE result.value
  <2> HIDE DEF a, b, w
  <2> QED
    BY <1>2, <1>3, <1>4, AdditiveLeaves DEF w
<1>6. SumsAreExact
  <2>1. /\ Value(cpu, Register(AX), w) = IF opcode \in {\h38, \h39} THEN A(w) ELSE n % 2^w
        /\ Shows("carry", n \notin Unsigned(w))
        /\ Shows("overflow", signed \notin SignedRange(w))
        /\ Shows("aux_carry", digit \notin 0 .. 15)
        /\ Shows("zero", n % 2^w = 0)
        /\ Shows("sign", n % 2^w >= 2^(w - 1))
        /\ cpu.flags \ Status = Before.flags \ Status
    <3> HIDE DEF w, n, signed, digit
    <3> QED
      BY <1>5 DEF Exact, Shows
  <2> QED
    BY <2>1 DEF SumsAreExact
<1>7. CompareDecides
  <2> SUFFICES ASSUME opcode \in {\h38, \h39} PROVE CompareDecides
    BY DEF CompareDecides
  <2> DEFINE s == Signed(a, w)
             t == Signed(b, w)
             holds(cc) == Condition(cpu.flags, cc)
  <2>1. a \in Unsigned(w) /\ b \in Unsigned(w)
    <3>1. AX \in 0 .. 3 /\ BX \in 0 .. 3
      BY DEF AX, BX
    <3> HIDE DEF w
    <3> QED
      BY <1>1, <1>3, <3>1, RegisterValue DEF A, B
  <2>2. a \in Int /\ b \in Int /\ s \in Int /\ t \in Int
    <3>1. \A v \in Unsigned(w) : v \in Int /\ Signed(v, w) \in Int
      <4> HIDE DEF w
      <4> QED
        BY <1>1, Halved, Half
    <3> HIDE DEF a, b, w
    <3> QED
      BY <2>1, <3>1
  <2>3. n = a - b /\ signed = s - t
    <3> HIDE DEF a, b, s, t
    <3>1. carry = 0 /\ ~ (opcode < \h18)
      OBVIOUS
    <3> HIDE DEF carry
    <3>2. n = a - b
      BY <2>2, <3>1
    <3>3. signed = s - t
      BY <2>2, <3>1 DEF s, t
    <3> QED
      BY <3>2, <3>3
  <2>4. /\ "carry" \in result.flags <=> a < b
        /\ "zero" \in result.flags <=> a = b
        /\ ("sign" \in result.flags) # ("overflow" \in result.flags) <=> s < t
        /\ a = b <=> s = t
    <3>1. Exact(result, Before.flags, a - b, Signed(a, w) - Signed(b, w), digit, w)
      BY <1>5, <2>3
    <3> HIDE DEF a, b, w, digit
    <3> QED
      BY <1>1, <2>1, <3>1, ExactOrders
  <2> HIDE DEF a, b, s, t, w
  <2>5. /\ holds(2) <=> a < b
        /\ holds(4) <=> a = b
        /\ holds(6) <=> a <= b
        /\ holds(12) <=> s < t
        /\ holds(14) <=> s <= t
    BY <1>5, <2>2, <2>4, Conditions
  <2>6. /\ holds(3) <=> a >= b
        /\ holds(5) <=> a # b
        /\ holds(7) <=> a > b
        /\ holds(13) <=> s >= t
        /\ holds(15) <=> s > t
    BY <1>5, <2>2, <2>4, Conditions
  <2>7. \A cc : holds(cc) \in BOOLEAN
    BY DEF Condition
  <2> HIDE DEF holds
  <2>8. << holds(2), holds(4), holds(6), holds(12), holds(14) >> = << a < b, a = b, a <= b, s < t, s <= t >>
    BY <2>5, <2>7
  <2>9. << holds(3), holds(5), holds(7), holds(13), holds(15) >> = << a >= b, a # b, a > b, s >= t, s > t >>
    BY <2>6, <2>7
  <2> QED
    BY <2>8, <2>9 DEF CompareDecides, a, b, s, t, w, holds
<1> QED
  BY <1>6, <1>7 DEF AdditionIsExact

\* Addition, subtraction and comparison are those of the integers in every case any
\* fixtures have, with whatever registers, flags and code: the sum or the difference and
\* all six flags, and so every condition a jump tests after a comparison.
THEOREM SumsAreOfTheIntegers == Spec => []AdditionIsExact
<1> DEFINE Inv == Placed /\ Traced /\ Scanned /\ Stepping
<1>1. Init => Inv
  BY PlacedAtFirst, TracedAtFirst DEF Init, Scanned, V20OnlyIsSkipped, Stepping, Judged
<1>2. Inv /\ [Next]_vars => Inv'
  BY PlacedKept, TracedKept, ScannedKept, SteppingKept
<1>3. Inv => AdditionIsExact
  BY PlainAdditionIsExact
<1> QED
  BY <1>1, <1>2, <1>3, PTL DEF Spec

---------------------------------------------------------------------------------
(* The stack.                                                                       *)

\* Every flag is a bit of the word it is pushed in.
LEMMA FlagsRoundTrip ==
  ASSUME NEW f \in Flags
  PROVE  ToWord(f) \in Word /\ FromWord(ToWord(f)) = f
<1>1. \A n \in FlagNames : Bit(f, n) \in 0 .. 1 /\ (Bit(f, n) = 1 <=> n \in f)
  BY DEF Bit
<1>2. PICK w \in Int : w = ToWord(f)
  BY <1>1 DEF ToWord, AlwaysOne, FlagNames
<1>3. /\ 0 <= w /\ w <= 65535
      /\ (w \div 1) % 2 = Bit(f, "carry")
      /\ (w \div 4) % 2 = Bit(f, "parity")
      /\ (w \div 16) % 2 = Bit(f, "aux_carry")
      /\ (w \div 64) % 2 = Bit(f, "zero")
      /\ (w \div 128) % 2 = Bit(f, "sign")
      /\ (w \div 256) % 2 = Bit(f, "trap")
      /\ (w \div 512) % 2 = Bit(f, "interrupt")
      /\ (w \div 1024) % 2 = Bit(f, "direction")
      /\ (w \div 2048) % 2 = Bit(f, "overflow")
  <2>1. w = 61442 + Bit(f, "carry") + 4 * Bit(f, "parity") + 16 * Bit(f, "aux_carry")
              + 64 * Bit(f, "zero") + 128 * Bit(f, "sign") + 256 * Bit(f, "trap")
              + 512 * Bit(f, "interrupt") + 1024 * Bit(f, "direction")
              + 2048 * Bit(f, "overflow")
    BY <1>2 DEF ToWord, AlwaysOne
  <2>2. /\ Bit(f, "carry") \in 0 .. 1 /\ Bit(f, "parity") \in 0 .. 1
        /\ Bit(f, "aux_carry") \in 0 .. 1 /\ Bit(f, "zero") \in 0 .. 1
        /\ Bit(f, "sign") \in 0 .. 1 /\ Bit(f, "trap") \in 0 .. 1
        /\ Bit(f, "interrupt") \in 0 .. 1 /\ Bit(f, "direction") \in 0 .. 1
        /\ Bit(f, "overflow") \in 0 .. 1
    BY <1>1 DEF FlagNames
  <2>3. PICK a \in 0 .. 1 : a = Bit(f, "carry")
    BY <2>2
  <2>4. PICK b \in 0 .. 1 : b = Bit(f, "parity")
    BY <2>2
  <2>5. PICK c \in 0 .. 1 : c = Bit(f, "aux_carry")
    BY <2>2
  <2>6. PICK d \in 0 .. 1 : d = Bit(f, "zero")
    BY <2>2
  <2>7. PICK e \in 0 .. 1 : e = Bit(f, "sign")
    BY <2>2
  <2>8. PICK g \in 0 .. 1 : g = Bit(f, "trap")
    BY <2>2
  <2>9. PICK h \in 0 .. 1 : h = Bit(f, "interrupt")
    BY <2>2
  <2>10. PICK i \in 0 .. 1 : i = Bit(f, "direction")
    BY <2>2
  <2>11. PICK j \in 0 .. 1 : j = Bit(f, "overflow")
    BY <2>2
  <2>12. w = 61442 + a + 4 * b + 16 * c + 64 * d + 128 * e + 256 * g
              + 512 * h + 1024 * i + 2048 * j
    BY <2>1, <2>3, <2>4, <2>5, <2>6, <2>7, <2>8, <2>9, <2>10, <2>11
  <2>13. /\ 0 <= w /\ w <= 65535
         /\ (w \div 1) % 2 = a
         /\ (w \div 4) % 2 = b
         /\ (w \div 16) % 2 = c
         /\ (w \div 64) % 2 = d
         /\ (w \div 128) % 2 = e
         /\ (w \div 256) % 2 = g
         /\ (w \div 512) % 2 = h
         /\ (w \div 1024) % 2 = i
         /\ (w \div 2048) % 2 = j
    BY <2>12
  <2>14. QED
    BY <2>13, <2>3, <2>4, <2>5, <2>6, <2>7, <2>8, <2>9, <2>10, <2>11
<1>4. ASSUME NEW n \in FlagNames
      PROVE  (w \div FlagMask[n]) % 2 = Bit(f, n)
  BY <1>3 DEF FlagMask, FlagNames
<1>5. FromWord(w) = f
  BY <1>1, <1>4 DEF FromWord, Flags
<1>6. w \in Word
  <2>1. w \in Nat /\ w <= MaxWord
    BY <1>3 DEF MaxWord
  <2> QED
    BY <2>1, Offsets
<1>7. QED
  BY <1>2, <1>5, <1>6

\* A cell that is stored to is read back, and the others stay.
LEMMA CellsRead ==
  \A mem, a, v, b :
    ReadU8(WriteU8(mem, a, v), b) = IF Index(b) = Index(a) THEN v ELSE ReadU8(mem, b)
  BY DEF ReadU8, WriteU8, At, Put

\* Offsets of a segment are addresses of their own.
LEMMA OffsetsApart ==
  ASSUME NEW s \in Word, NEW o \in Word, NEW p \in Word
  PROVE  Index(PhysicalAddress(s, o)) = Index(PhysicalAddress(s, p)) <=> o = p
<1>1. MaxWord = 65535
  BY DEF MaxWord
<1>2. s \in Nat /\ o \in Nat /\ p \in Nat /\ o < 65536 /\ p < 65536
  <2>1. /\ s \in Nat /\ o \in Nat /\ p \in Nat /\ o <= MaxWord /\ p <= MaxWord
    BY Offsets
  <2> QED
    BY <1>1, <2>1
<1>3. Index(PhysicalAddress(s, o)) = Index(16 * s + o) /\ Index(PhysicalAddress(s, p)) = Index(16 * s + p)
  BY <1>2, Offsets
<1>4. (16 * s + o) % 1048576 = (16 * s + p) % 1048576 => o = p
  BY <1>2, SMTT(30)
<1> QED
  BY <1>3, <1>4 DEF Index

LEMMA WordsAreIntegers == \A x \in Word : x \in Int
  BY DEF Word

LEMMA WordBounds == \A x \in Word : 0 <= x /\ x < 65536
<1> TAKE x \in Word
<1>1. x \in Nat /\ x <= MaxWord
  BY Offsets
<1> QED
  BY <1>1 DEF MaxWord

LEMMA WrapAgain ==
  /\ \A x \in Int : Wrap(x) \in Word /\ (x \in Word => Wrap(x) = x)
  /\ \A x \in Int, k \in Int : Wrap(Wrap(x) + k) = Wrap(x + k)
<1>1. ASSUME NEW x \in Int PROVE Wrap(x) \in Word /\ (x \in Word => Wrap(x) = x)
  <2>1. Wrap(x) \in Nat /\ Wrap(x) <= MaxWord
    BY SMT DEF Wrap, MaxWord
  <2> QED
    BY <2>1, Offsets
<1>2. ASSUME NEW x \in Int, NEW k \in Int PROVE Wrap(Wrap(x) + k) = Wrap(x + k)
  BY SMT DEF Wrap
<1> QED
  BY <1>1, <1>2

\* A CPU whose registers hold words, whatever its segments hold, and one whose segments
\* do too.
Stacked(d) == CpuShape(d) /\ d.reg \in [ AX .. DI -> Word ] /\ DOMAIN d.seg = ES .. DS
Typed(d)   == Stacked(d) /\ d.seg \in [ ES .. DS -> Word ]

\* The word k bytes above the top of the stack.
StackWord(d, k) == ReadMem(d, d.seg[SS], Wrap(d.reg[SP] + k), 16)

\* Registers by their names.
LEMMA Names ==
  ASSUME NEW d, Stacked(d)
  PROVE  /\ SP \in DOMAIN d.reg /\ AX \in DOMAIN d.reg /\ DX \in DOMAIN d.reg
         /\ AX # SP /\ DX # SP
         /\ SS \in DOMAIN d.seg /\ CS \in DOMAIN d.seg /\ SS # CS
         /\ d.reg[SP] \in Word /\ d.reg[SP] \in Int /\ Wrap(d.reg[SP]) = d.reg[SP]
<1>1. DOMAIN d.reg = AX .. DI /\ DOMAIN d.seg = ES .. DS
  BY Zenon DEF Stacked
<1>2. SP \in AX .. DI /\ AX \in AX .. DI /\ DX \in AX .. DI /\ AX # SP /\ DX # SP
  BY DEF AX, DI, SP, DX
<1>3. SS \in ES .. DS /\ CS \in ES .. DS /\ SS # CS
  BY DEF SS, CS, ES, DS
<1>4. d.reg[SP] \in Word
  BY <1>2, Zenon DEF Stacked
<1>5. d.reg[SP] \in Int
  BY <1>4, WordsAreIntegers, Zenon
<1>6. Wrap(d.reg[SP]) = d.reg[SP]
  BY <1>4, <1>5, WrapAgain
<1> QED
  BY <1>1, <1>2, <1>3, <1>4, <1>5, <1>6

LEMMA SegmentNames ==
  ASSUME NEW d, Typed(d)
  PROVE  d.seg[SS] \in Word /\ d.seg[CS] \in Word
<1>1. SS \in ES .. DS /\ CS \in ES .. DS
  BY DEF SS, CS, ES, DS
<1> QED
  BY <1>1, Zenon DEF Typed

\* The bytes of the words at two offsets are all different.
Apart(p, q) == p # q /\ p # Wrap(q + 1) /\ Wrap(p + 1) # q /\ Wrap(p + 1) # Wrap(q + 1)

\* m is d with a word stored: it is loaded again, and the words apart from it stay.
WordStored(d, m, s, q, v) ==
  /\ m.reg = d.reg /\ m.seg = d.seg /\ m.ip = d.ip /\ m.flags = d.flags /\ CpuShape(m)
  /\ ReadMem(m, s, q, 16) = v
  /\ \A p \in Word : Apart(p, q) => ReadMem(m, s, p, 16) = ReadMem(d, s, p, 16)

LEMMA WordsRead ==
  ASSUME NEW d, CpuShape(d), NEW s \in Word, NEW q \in Word, NEW v \in Word
  PROVE  WordStored(d, WriteMem(d, s, q, v, 16), s, q, v)
<1> DEFINE m   == WriteMem(d, s, q, v, 16)
           r   == Wrap(q + 1)
           low == WriteU8(d.bus, PhysicalAddress(s, q), LowByte(v))
           bus == WriteU8(low, PhysicalAddress(s, r), HighByte(v))
<1>1. /\ m.reg = d.reg /\ m.seg = d.seg /\ m.ip = d.ip /\ m.flags = d.flags /\ CpuShape(m)
      /\ m.bus = bus
  BY DEF WriteMem, CpuShape
<1>2. q \in Int /\ v \in Int /\ 0 <= v /\ \A p \in Word : p \in Int
  BY Offsets
<1>3. r \in Word /\ \A p \in Word : Wrap(p + 1) \in Word
  <2>1. \A p \in Word : p + 1 \in Int
    BY <1>2
  <2> QED
    BY <2>1, WrapAgain
<1>4. r # q
  BY <1>2, SMT DEF Wrap
<1> HIDE DEF m, r
<1>5. /\ ReadU8(bus, PhysicalAddress(s, q)) = LowByte(v)
      /\ ReadU8(bus, PhysicalAddress(s, r)) = HighByte(v)
  BY <1>3, <1>4, CellsRead, OffsetsApart
<1>6. \A p \in Word : p # q /\ p # r =>
        ReadU8(bus, PhysicalAddress(s, p)) = ReadU8(d.bus, PhysicalAddress(s, p))
  BY <1>3, CellsRead, OffsetsApart
<1>7. LowByte(v) + 256 * HighByte(v) = v
  BY <1>2 DEF LowByte, HighByte
<1>8. ReadMem(m, s, q, 16) = v
  <2> HIDE DEF bus
  <2> QED
    BY <1>1, <1>5, <1>7 DEF ReadMem, r
<1>9. ASSUME NEW p \in Word, Apart(p, q)
      PROVE  ReadMem(m, s, p, 16) = ReadMem(d, s, p, 16)
  <2> HIDE DEF bus
  <2> QED
    BY <1>1, <1>3, <1>6, <1>9 DEF ReadMem, Apart, r
<1> QED
  BY <1>1, <1>8, <1>9 DEF WordStored, m

\* A push puts a word on top of the others.
LEMMA PushIs ==
  ASSUME NEW d, Typed(d), NEW v \in Word
  PROVE  LET n == Push(d, v)
         IN  /\ Typed(n) /\ n.reg = [ d.reg EXCEPT ![SP] = Wrap(@ - 2) ]
             /\ n.seg = d.seg /\ n.ip = d.ip /\ n.flags = d.flags
             /\ StackWord(n, 0) = v
             /\ StackWord(n, 2) = StackWord(d, 0) /\ StackWord(n, 4) = StackWord(d, 2)
<1> DEFINE n  == Push(d, v)
           sp == d.reg[SP]
           q  == Wrap(sp - 2)
           ss == d.seg[SS]
           e  == SetRegister(d, SP, q)
<1>1. SP \in DOMAIN d.reg /\ sp \in Word /\ sp \in Int /\ ss \in Word /\ Stacked(d)
  BY Names, SegmentNames DEF Typed
<1>2. q \in Word /\ q \in Int
  <2>1. sp - 2 \in Int
    BY <1>1
  <2> QED
    BY <2>1, WrapAgain, WordsAreIntegers, Zenon
<1>3. /\ CpuShape(e) /\ e.reg = [ d.reg EXCEPT ![SP] = q ]
      /\ e.seg = d.seg /\ e.ip = d.ip /\ e.flags = d.flags /\ e.bus = d.bus
  BY <1>1 DEF SetRegister, CpuShape, Stacked
<1>4. n = WriteMem(e, ss, q, v, 16)
  BY DEF Push
<1> HIDE DEF n, e, q
<1>5. /\ CpuShape(n) /\ n.reg = [ d.reg EXCEPT ![SP] = q ]
      /\ n.seg = d.seg /\ n.ip = d.ip /\ n.flags = d.flags
      /\ ReadMem(n, ss, q, 16) = v
      /\ \A p \in Word : Apart(p, q) => ReadMem(n, ss, p, 16) = ReadMem(e, ss, p, 16)
  <2> HIDE DEF ss, sp
  <2>1. WordStored(e, n, ss, q, v)
    BY <1>1, <1>2, <1>3, <1>4, WordsRead
  <2> QED
    BY <1>3, <2>1 DEF WordStored
<1>6. Typed(n) /\ n.reg[SP] = q
  BY <1>1, <1>2, <1>5 DEF Typed, Stacked
<1>7. \A p : ReadMem(e, ss, p, 16) = ReadMem(d, ss, p, 16)
  BY <1>3 DEF ReadMem
<1> HIDE DEF ss
<1>8. ASSUME NEW k \in {2, 4}
      PROVE  ReadMem(n, ss, Wrap(q + k), 16) = ReadMem(d, ss, Wrap(sp + (k - 2)), 16)
  <2> DEFINE p == Wrap(q + k)
  <2>1. p = Wrap(sp + (k - 2))
    BY <1>1 DEF q, Wrap
  <2>2. Apart(p, q)
    <3> HIDE DEF sp
    <3>1. p # q /\ p # Wrap(q + 1)
      BY <1>1 DEF q, Wrap
    <3>2. Wrap(p + 1) # q /\ Wrap(p + 1) # Wrap(q + 1)
      BY <1>1 DEF q, Wrap
    <3> QED
      BY <3>1, <3>2 DEF Apart
  <2>3. p \in Word
    <3>1. q + k \in Int
      BY <1>2
    <3> QED
      BY <3>1, WrapAgain
  <2> HIDE DEF p
  <2> QED
    BY <1>5, <1>7, <2>1, <2>2, <2>3 DEF p
<1>9. StackWord(n, 0) = v
  <2>1. Wrap(q + 0) = q
    BY <1>2, WrapAgain
  <2> QED
    BY <1>5, <1>6, <2>1 DEF StackWord, ss
<1>10. StackWord(n, 2) = StackWord(d, 0) /\ StackWord(n, 4) = StackWord(d, 2)
  <2>1. /\ StackWord(n, 2) = ReadMem(n, ss, Wrap(q + 2), 16) /\ StackWord(n, 4) = ReadMem(n, ss, Wrap(q + 4), 16)
        /\ StackWord(d, 0) = ReadMem(d, ss, Wrap(sp + 0), 16) /\ StackWord(d, 2) = ReadMem(d, ss, Wrap(sp + 2), 16)
    BY <1>5, <1>6 DEF StackWord, ss
  <2>2. 2 - 2 = 0 /\ 4 - 2 = 2 /\ 2 \in {2, 4} /\ 4 \in {2, 4}
    OBVIOUS
  <2> QED
    BY <1>8, <2>1, <2>2
<1> QED
  BY <1>5, <1>6, <1>9, <1>10 DEF n, q

\* What is to be known of a CPU.
Has(c, reg, seg, ip, flags, bus) ==
  CpuShape(c) /\ c.reg = reg /\ c.seg = seg /\ c.ip = ip /\ c.flags = flags /\ c.bus = bus

LEMMA Effects ==
  ASSUME NEW c, CpuShape(c), NEW i, NEW v
  PROVE  /\ Has(SetRegister(c, i, v), [ c.reg EXCEPT ![i] = v ], c.seg, c.ip, c.flags, c.bus)
         /\ Has(WithFlags(c, v), c.reg, c.seg, c.ip, v, c.bus)
         /\ Has(JumpTo(c, v), c.reg, c.seg, Wrap(v), c.flags, c.bus)
         /\ Has(JumpFar(c, i, v), c.reg, [ c.seg EXCEPT ![CS] = i ], v, c.flags, c.bus)
         /\ Has(Past(c, v), c.reg, c.seg, Wrap(c.ip + v \div 8), c.flags, c.bus)
         /\ Has([ c EXCEPT !.halted = v ], c.reg, c.seg, c.ip, c.flags, c.bus)
<1>1. \A x : Has([ c EXCEPT !.reg = x ], x, c.seg, c.ip, c.flags, c.bus)
  BY DEF Has, CpuShape
<1>2. \A x : Has([ c EXCEPT !.ip = x ], c.reg, c.seg, x, c.flags, c.bus)
  BY DEF Has, CpuShape
<1>3. \A x : Has([ c EXCEPT !.flags = x ], c.reg, c.seg, c.ip, x, c.bus)
  BY DEF Has, CpuShape
<1>4. \A x, y : Has([ [ c EXCEPT !.seg = x ] EXCEPT !.ip = y ], c.reg, x, y, c.flags, c.bus)
  <2> TAKE x, y
  <2> DEFINE d == [ c EXCEPT !.seg = x ]
  <2>1. Has(d, c.reg, x, c.ip, c.flags, c.bus)
    BY DEF Has, CpuShape
  <2> HIDE DEF d
  <2>2. Has([ d EXCEPT !.ip = y ], d.reg, d.seg, y, d.flags, d.bus)
    BY <2>1 DEF Has, CpuShape
  <2> QED
    BY <2>1, <2>2 DEF Has, d
<1>5. Has([ c EXCEPT !.halted = v ], c.reg, c.seg, c.ip, c.flags, c.bus)
  BY DEF Has, CpuShape
<1>6. SetRegister(c, i, v) = [ c EXCEPT !.reg = [ c.reg EXCEPT ![i] = v ] ]
  BY DEF SetRegister
<1>7. Has(WithFlags(c, v), c.reg, c.seg, c.ip, v, c.bus)
  BY <1>3 DEF WithFlags
<1>8. Has(JumpTo(c, v), c.reg, c.seg, Wrap(v), c.flags, c.bus)
  BY <1>2 DEF JumpTo
<1>9. Has(JumpFar(c, i, v), c.reg, [ c.seg EXCEPT ![CS] = i ], v, c.flags, c.bus)
  BY <1>4 DEF JumpFar
<1>10. Has(Past(c, v), c.reg, c.seg, Wrap(c.ip + v \div 8), c.flags, c.bus)
  BY <1>2 DEF Past
<1> QED
  BY <1>1, <1>5, <1>6, <1>7, <1>8, <1>9, <1>10

\* What returning from d leaves: SP is n bytes up, IP is what was popped first.
Unwound(m, d, n) ==
  /\ CpuShape(m) /\ m.reg = [ d.reg EXCEPT ![SP] = Wrap(@ + n) ]
  /\ m.bus = d.bus /\ m.ip = Wrap(StackWord(d, 0)) /\ SS \in DOMAIN m.seg /\ m.seg[SS] = d.seg[SS]

LEMMA Unwinding ==
  ASSUME NEW d, Stacked(d)
  PROVE  /\ Unwound(ReturnNear(d), d, 2) /\ ReturnNear(d).seg = d.seg /\ ReturnNear(d).flags = d.flags
         /\ Unwound(ReturnFar(d), d, 4) /\ ReturnFar(d).flags = d.flags
         /\ ReturnFar(d).seg = [ d.seg EXCEPT ![CS] = StackWord(d, 2) ]
         /\ Unwound(ReturnInterrupt(d), d, 6) /\ ReturnInterrupt(d).flags = FromWord(StackWord(d, 4))
         /\ ReturnInterrupt(d).seg = [ d.seg EXCEPT ![CS] = StackWord(d, 2) ]
<1> DEFINE n  == ReturnNear(d)
           f  == ReturnFar(d)
           i  == ReturnInterrupt(d)
           sp == d.reg[SP]
<1>1. /\ SP \in DOMAIN d.reg /\ SS \in DOMAIN d.seg /\ CS \in DOMAIN d.seg /\ SS # CS
      /\ sp \in Int /\ Wrap(sp) = sp /\ CpuShape(d)
  BY Names DEF Stacked
<1>2. \A k \in Int, l \in Int : Wrap(Wrap(sp + k) + l) = Wrap(sp + (k + l))
  <2> TAKE k \in Int, l \in Int
  <2>1. sp + k \in Int /\ (sp + k) + l = sp + (k + l)
    BY <1>1
  <2> HIDE DEF sp
  <2> QED
    BY <2>1, WrapAgain
<1>3. Popped(d) = StackWord(d, 0)
  <2>1. sp + 0 = sp
    BY <1>1
  <2> QED
    BY <1>1, <2>1 DEF Popped, StackWord
<1>4. /\ CpuShape(n) /\ n.reg = [ d.reg EXCEPT ![SP] = Wrap(sp + 2) ] /\ n.seg = d.seg
      /\ n.flags = d.flags /\ n.bus = d.bus /\ n.ip = Wrap(StackWord(d, 0))
  <2> DEFINE g == JumpTo(d, Popped(d))
  <2>1. Has(g, d.reg, d.seg, Wrap(StackWord(d, 0)), d.flags, d.bus)
    BY <1>1, <1>3, Effects
  <2>2. n = SetRegister(g, SP, Wrap(g.reg[SP] + 2))
    BY DEF ReturnNear, Release
  <2> HIDE DEF g, n
  <2>3. Has(n, [ g.reg EXCEPT ![SP] = Wrap(g.reg[SP] + 2) ], g.seg, g.ip, g.flags, g.bus)
    <3>1. CpuShape(g)
      BY <2>1 DEF Has
    <3> QED
      BY <2>2, <3>1, Effects
  <2> QED
    BY <2>1, <2>3 DEF Has
<1> HIDE DEF n, sp
<1>5. n.reg[SP] = Wrap(sp + 2)
  BY <1>1, <1>4
<1>6. Popped(n) = StackWord(d, 2)
  BY <1>4, <1>5 DEF Popped, StackWord, ReadMem, sp
<1>7. /\ CpuShape(f) /\ f.reg = [ d.reg EXCEPT ![SP] = Wrap(sp + 4) ]
      /\ f.seg = [ d.seg EXCEPT ![CS] = StackWord(d, 2) ]
      /\ f.flags = d.flags /\ f.bus = d.bus /\ f.ip = Wrap(StackWord(d, 0))
  <2> DEFINE g == JumpFar(n, Popped(n), n.ip)
  <2>1. /\ CpuShape(g) /\ g.reg = n.reg /\ g.seg = [ d.seg EXCEPT ![CS] = StackWord(d, 2) ]
        /\ g.flags = d.flags /\ g.bus = d.bus /\ g.ip = Wrap(StackWord(d, 0))
    <3>1. Has(g, n.reg, [ n.seg EXCEPT ![CS] = Popped(n) ], n.ip, n.flags, n.bus)
      BY <1>4, Effects
    <3> HIDE DEF g
    <3> QED
      BY <1>4, <1>6, <3>1 DEF Has
  <2>2. f = SetRegister(g, SP, Wrap(g.reg[SP] + 2))
    BY DEF ReturnFar, Release, n
  <2> HIDE DEF g, f
  <2>3. g.reg[SP] = Wrap(sp + 2) /\ Wrap(Wrap(sp + 2) + 2) = Wrap(sp + 4)
    BY <1>2, <1>5, <2>1
  <2>4. f = SetRegister(g, SP, Wrap(sp + 4))
    BY <2>2, <2>3
  <2> QED
    BY <1>4, <2>1, <2>4 DEF SetRegister, CpuShape
<1> HIDE DEF f
<1>8. f.reg[SP] = Wrap(sp + 4) /\ f.seg[SS] = d.seg[SS] /\ SS \in DOMAIN f.seg
  BY <1>1, <1>7
<1>9. Popped(f) = StackWord(d, 4)
  BY <1>7, <1>8 DEF Popped, StackWord, ReadMem, sp
<1>10. /\ CpuShape(i) /\ i.reg = [ d.reg EXCEPT ![SP] = Wrap(sp + 6) ]
       /\ i.seg = f.seg /\ i.flags = FromWord(StackWord(d, 4)) /\ i.bus = d.bus /\ i.ip = f.ip
  <2> DEFINE g == WithFlags(f, FromWord(Popped(f)))
  <2>1. /\ CpuShape(g) /\ g.reg = f.reg /\ g.seg = f.seg /\ g.flags = FromWord(StackWord(d, 4))
        /\ g.bus = f.bus /\ g.ip = f.ip
    BY <1>7, <1>9 DEF WithFlags, CpuShape
  <2>2. i = SetRegister(g, SP, Wrap(g.reg[SP] + 2))
    BY DEF ReturnInterrupt, Release, f
  <2> HIDE DEF g, i
  <2>3. g.reg[SP] = Wrap(sp + 4) /\ Wrap(Wrap(sp + 4) + 2) = Wrap(sp + 6)
    BY <1>2, <1>8, <2>1
  <2>4. i = SetRegister(g, SP, Wrap(sp + 6))
    BY <2>2, <2>3
  <2> QED
    BY <1>7, <2>1, <2>4 DEF SetRegister, CpuShape
<1> HIDE DEF i
<1>11. Unwound(n, d, 2)
  BY <1>1, <1>4 DEF Unwound, sp
<1>12. Unwound(f, d, 4)
  BY <1>7, <1>8 DEF Unwound, sp
<1>13. Unwound(i, d, 6)
  BY <1>7, <1>8, <1>10 DEF Unwound, sp
<1> QED
  BY <1>4, <1>7, <1>10, <1>11, <1>12, <1>13 DEF n, f, i

\* c is n again, as far as a program sees it.
SameContext(c, n) == c.reg = n.reg /\ c.seg = n.seg /\ c.flags = n.flags /\ c.ip = n.ip

\* SP returns to where it was, round the end of its segment too.
LEMMA PointerBack ==
  ASSUME NEW n, Stacked(n), NEW reg, NEW k \in Int, reg = [ n.reg EXCEPT ![SP] = Wrap(@ - k) ]
  PROVE  reg[SP] = Wrap(n.reg[SP] - k) /\ [ reg EXCEPT ![SP] = Wrap(@ + k) ] = n.reg
<1> DEFINE sp == n.reg[SP]
<1>1. SP \in DOMAIN n.reg /\ sp \in Int /\ Wrap(sp) = sp /\ n.reg \in [ AX .. DI -> Word ]
  BY Names DEF Stacked
<1>2. Wrap(Wrap(sp - k) + k) = sp
  <2>1. sp - k \in Int /\ (sp - k) + k = sp
    BY <1>1
  <2> HIDE DEF sp
  <2> QED
    BY <1>1, <2>1, WrapAgain
<1>3. reg[SP] = Wrap(sp - k)
  BY <1>1
<1>4. [ reg EXCEPT ![SP] = Wrap(@ + k) ] = [ [ n.reg EXCEPT ![SP] = Wrap(sp - k) ] EXCEPT ![SP] = sp ]
  BY <1>2, <1>3
<1> HIDE DEF sp
<1>5. [ [ n.reg EXCEPT ![SP] = Wrap(sp - k) ] EXCEPT ![SP] = sp ] = n.reg
  BY <1>1 DEF sp
<1> QED
  BY <1>3, <1>4, <1>5 DEF sp

\* So all registers do.
LEMMA RegistersBack ==
  ASSUME NEW n, Stacked(n), NEW k \in Int, NEW d, d.reg = [ n.reg EXCEPT ![SP] = Wrap(@ - k) ],
         NEW m, Unwound(m, d, k)
  PROVE  m.reg = n.reg
<1> DEFINE reg == d.reg
<1>1. reg = [ n.reg EXCEPT ![SP] = Wrap(@ - k) ] /\ m.reg = [ reg EXCEPT ![SP] = Wrap(@ + k) ]
  BY DEF Unwound
<1> HIDE DEF reg
<1>2. [ reg EXCEPT ![SP] = Wrap(@ + k) ] = n.reg
  BY <1>1, PointerBack
<1> QED
  BY <1>1, <1>2

\* And all segments, when CS is given back what it was.
LEMMA SegmentsBack ==
  ASSUME NEW n, Typed(n), NEW x
  PROVE  [ [ n.seg EXCEPT ![CS] = x ] EXCEPT ![CS] = n.seg[CS] ] = n.seg
  BY DEF Typed

\* Whatever is jumped to, a return leads back to where a call was made.
LEMMA ReturnsFromNear ==
  ASSUME NEW n, Typed(n), n.ip \in Word, NEW target
  PROVE  SameContext(ReturnNear(JumpTo(Push(n, n.ip), target)), n)
<1> DEFINE p == Push(n, n.ip)
           d == JumpTo(p, target)
           r == ReturnNear(d)
<1>1. /\ Typed(p) /\ p.reg = [ n.reg EXCEPT ![SP] = Wrap(@ - 2) ] /\ p.seg = n.seg /\ p.flags = n.flags
      /\ StackWord(p, 0) = n.ip
  BY PushIs
<1> HIDE DEF p
<1>2. Has(d, p.reg, p.seg, Wrap(target), p.flags, p.bus)
  BY <1>1, Effects DEF Typed, Stacked
<1> HIDE DEF d
<1>3. Stacked(d) /\ StackWord(d, 0) = n.ip
  BY <1>1, <1>2 DEF Has, Typed, Stacked, StackWord, ReadMem
<1>4. Unwound(r, d, 2) /\ r.seg = d.seg /\ r.flags = d.flags
  BY <1>3, Unwinding
<1> HIDE DEF r
<1>5. r.reg = n.reg
  <2>1. d.reg = [ n.reg EXCEPT ![SP] = Wrap(@ - 2) ] /\ Stacked(n)
    BY <1>1, <1>2 DEF Has, Typed
  <2> QED
    BY <1>4, <2>1, RegistersBack
<1>6. r.ip = n.ip
  BY <1>3, <1>4, WrapAgain, WordsAreIntegers DEF Unwound
<1> QED
  BY <1>1, <1>2, <1>4, <1>5, <1>6 DEF SameContext, Has, r, d, p

LEMMA PushFarIs ==
  ASSUME NEW n, Typed(n), n.ip \in Word, NEW p, p = PushFar(n)
  PROVE  /\ Typed(p) /\ p.reg = [ n.reg EXCEPT ![SP] = Wrap(@ - 4) ] /\ p.seg = n.seg /\ p.flags = n.flags
         /\ StackWord(p, 0) = n.ip /\ StackWord(p, 2) = n.seg[CS] /\ StackWord(p, 4) = StackWord(n, 0)
<1> DEFINE c  == Push(n, n.seg[CS])
           sp == n.reg[SP]
<1>1. n.seg[CS] \in Word /\ SP \in DOMAIN n.reg /\ sp \in Int
  BY Names, SegmentNames DEF Typed
<1>2. /\ Typed(c) /\ c.reg = [ n.reg EXCEPT ![SP] = Wrap(@ - 2) ] /\ c.seg = n.seg /\ c.ip = n.ip
      /\ c.flags = n.flags /\ StackWord(c, 0) = n.seg[CS] /\ StackWord(c, 2) = StackWord(n, 0)
  BY <1>1, PushIs
<1> HIDE DEF c
<1>3. p = Push(c, c.ip)
  BY <1>2 DEF PushFar, c
<1>4. /\ Typed(p) /\ p.reg = [ c.reg EXCEPT ![SP] = Wrap(@ - 2) ] /\ p.seg = c.seg /\ p.flags = c.flags
      /\ StackWord(p, 0) = c.ip /\ StackWord(p, 2) = StackWord(c, 0) /\ StackWord(p, 4) = StackWord(c, 2)
  BY <1>2, <1>3, PushIs
<1>5. Wrap(Wrap(sp - 2) - 2) = Wrap(sp - 4)
  <2>1. sp - 2 \in Int /\ (sp - 2) + (-2) = sp - 4 /\ \A x \in Int : x + (-2) = x - 2
    BY <1>1
  <2>2. Wrap(sp - 2) \in Int
    BY <2>1, WrapAgain, WordsAreIntegers
  <2> HIDE DEF sp
  <2> QED
    BY <2>1, <2>2, WrapAgain
<1>6. p.reg = [ n.reg EXCEPT ![SP] = Wrap(sp - 4) ]
  <2>1. c.reg[SP] = Wrap(sp - 2)
    BY <1>1, <1>2
  <2> HIDE DEF sp
  <2>2. c.reg = [ n.reg EXCEPT ![SP] = Wrap(sp - 2) ]
    BY <1>2 DEF sp
  <2> QED
    BY <1>4, <1>5, <2>1, <2>2
<1> QED
  BY <1>2, <1>4, <1>6

\* A far jump leaves the stack.
SameStack(d, p) == Stacked(d) /\ \A k : StackWord(d, k) = StackWord(p, k)

LEMMA FarStack ==
  ASSUME NEW p, Typed(p), NEW d, NEW s, NEW target, NEW flags,
         Has(d, p.reg, [ p.seg EXCEPT ![CS] = s ], target, flags, p.bus)
  PROVE  SameStack(d, p)
<1>1. CS \in DOMAIN p.seg /\ SS \in DOMAIN p.seg /\ SS # CS
  BY Names DEF Typed
<1>2. d.seg[SS] = p.seg[SS] /\ DOMAIN d.seg = DOMAIN p.seg
  BY <1>1 DEF Has
<1>3. Stacked(d)
  BY <1>2 DEF Has, Typed, Stacked
<1> QED
  BY <1>2, <1>3 DEF SameStack, StackWord, ReadMem, Has

LEMMA ReturnsFromFar ==
  ASSUME NEW n, Typed(n), n.ip \in Word, NEW s, NEW target
  PROVE  SameContext(ReturnFar(JumpFar(PushFar(n), s, target)), n)
<1> DEFINE p == PushFar(n)
           d == JumpFar(p, s, target)
           r == ReturnFar(d)
<1>1. /\ Typed(p) /\ p.reg = [ n.reg EXCEPT ![SP] = Wrap(@ - 4) ] /\ p.seg = n.seg /\ p.flags = n.flags
      /\ StackWord(p, 0) = n.ip /\ StackWord(p, 2) = n.seg[CS]
  BY PushFarIs
<1> HIDE DEF p
<1>2. Has(d, p.reg, [ p.seg EXCEPT ![CS] = s ], target, p.flags, p.bus)
  BY <1>1, Effects DEF Typed, Stacked
<1> HIDE DEF d
<1>3. Stacked(d) /\ StackWord(d, 0) = n.ip /\ StackWord(d, 2) = n.seg[CS]
  <2>1. SameStack(d, p)
    BY <1>1, <1>2, FarStack
  <2> QED
    BY <1>1, <2>1 DEF SameStack
<1>4. Unwound(r, d, 4) /\ r.seg = [ d.seg EXCEPT ![CS] = StackWord(d, 2) ] /\ r.flags = d.flags
  BY <1>3, Unwinding
<1> HIDE DEF r
<1>5. r.reg = n.reg
  <2>1. d.reg = [ n.reg EXCEPT ![SP] = Wrap(@ - 4) ] /\ Stacked(n)
    BY <1>1, <1>2 DEF Has, Typed
  <2> QED
    BY <1>4, <2>1, RegistersBack
<1>6. r.ip = n.ip
  BY <1>3, <1>4, WrapAgain, WordsAreIntegers DEF Unwound
<1>7. r.seg = n.seg
  <2>1. d.seg = [ n.seg EXCEPT ![CS] = s ]
    BY <1>1, <1>2 DEF Has
  <2> QED
    BY <1>3, <1>4, <2>1, SegmentsBack
<1>8. r.flags = n.flags
  BY <1>1, <1>2, <1>4 DEF Has
<1> QED
  BY <1>5, <1>6, <1>7, <1>8 DEF SameContext, r, d, p

\* An interrupt leaves FLAGS, CS and IP on the stack, and enters the handler of its
\* vector, as memory holds it then, with IF and TF clear.
LEMMA InterruptIs ==
  ASSUME NEW n, Typed(n), n.ip \in Word, n.flags \in Flags, NEW vector
  PROVE  LET d == ServiceInterrupt(n, vector)
         IN  /\ Stacked(d) /\ StackWord(d, 0) = n.ip /\ StackWord(d, 2) = n.seg[CS]
             /\ StackWord(d, 4) = ToWord(n.flags)
             /\ d.reg = [ n.reg EXCEPT ![SP] = Wrap(@ - 6) ]
             /\ d.ip = ReadMem(d, 0, 4 * vector, 16)
             /\ d.seg = [ n.seg EXCEPT ![CS] = ReadMem(d, 0, 4 * vector + 2, 16) ]
             /\ d.flags = n.flags \ {"interrupt", "trap"}
<1> DEFINE a == Push(n, ToWord(n.flags))
           b == WithFlags(a, n.flags \ {"interrupt", "trap"})
           p == PushFar(b)
           s == ReadMem(p, 0, 4 * vector + 2, 16)
           target == ReadMem(p, 0, 4 * vector, 16)
           j == JumpFar(p, s, target)
           d == ServiceInterrupt(n, vector)
<1>1. ToWord(n.flags) \in Word /\ FromWord(ToWord(n.flags)) = n.flags
  BY FlagsRoundTrip
<1>2. /\ Typed(a) /\ a.reg = [ n.reg EXCEPT ![SP] = Wrap(@ - 2) ]
      /\ a.seg = n.seg /\ a.ip = n.ip /\ StackWord(a, 0) = ToWord(n.flags)
  BY <1>1, PushIs
<1>3. d = [ j EXCEPT !.halted = FALSE ]
  BY DEF ServiceInterrupt
<1> HIDE DEF a, d
<1>4. Has(b, a.reg, a.seg, a.ip, n.flags \ {"interrupt", "trap"}, a.bus)
  BY <1>2, Effects DEF Typed, Stacked
<1> HIDE DEF b
<1>5. Typed(b) /\ b.ip \in Word /\ StackWord(b, 0) = ToWord(n.flags) /\ b.seg = n.seg
  BY <1>2, <1>4 DEF Has, Typed, Stacked, StackWord, ReadMem
<1>6. /\ Typed(p) /\ p.reg = [ b.reg EXCEPT ![SP] = Wrap(@ - 4) ] /\ p.seg = b.seg /\ p.flags = b.flags
      /\ StackWord(p, 0) = b.ip /\ StackWord(p, 2) = b.seg[CS] /\ StackWord(p, 4) = StackWord(b, 0)
  BY <1>5, PushFarIs
<1> HIDE DEF p, s, target
<1>7. Has(j, p.reg, [ p.seg EXCEPT ![CS] = s ], target, p.flags, p.bus)
  BY <1>6, Effects DEF Typed, Stacked
<1> HIDE DEF j
<1>8. Has(d, j.reg, j.seg, j.ip, j.flags, j.bus)
  <2>1. CpuShape(j)
    BY <1>7 DEF Has
  <2> QED
    BY <1>3, <2>1, Effects
<1>9. Has(d, p.reg, [ p.seg EXCEPT ![CS] = s ], target, p.flags, p.bus)
  BY <1>7, <1>8 DEF Has
<1>10. /\ Stacked(d) /\ StackWord(d, 0) = n.ip /\ StackWord(d, 2) = n.seg[CS]
       /\ StackWord(d, 4) = ToWord(n.flags)
  <2>1. SameStack(d, p)
    BY <1>6, <1>9, FarStack
  <2>2. StackWord(p, 0) = n.ip /\ StackWord(p, 2) = n.seg[CS] /\ StackWord(p, 4) = ToWord(n.flags)
    <3>1. b.ip = n.ip
      BY <1>2, <1>4 DEF Has
    <3> QED
      BY <1>5, <1>6, <3>1
  <2> QED
    BY <2>1, <2>2 DEF SameStack
<1>11. d.reg = [ n.reg EXCEPT ![SP] = Wrap(@ - 6) ]
  <2>1. d.reg = [ b.reg EXCEPT ![SP] = Wrap(@ - 4) ] /\ b.reg = [ n.reg EXCEPT ![SP] = Wrap(@ - 2) ]
    BY <1>2, <1>4, <1>6, <1>9 DEF Has
  <2> DEFINE sp == n.reg[SP]
             reg == b.reg
  <2>2. sp \in Int /\ SP \in DOMAIN n.reg
    BY Names DEF Typed
  <2>3. Wrap(Wrap(sp - 2) - 4) = Wrap(sp - 6)
    <3>1. sp - 2 \in Int /\ (sp - 2) + (-4) = sp - 6 /\ \A x \in Int : x + (-4) = x - 4
      BY <2>2
    <3>2. Wrap(sp - 2) \in Int
      BY <3>1, WrapAgain, WordsAreIntegers
    <3> HIDE DEF sp
    <3> QED
      BY <3>1, <3>2, WrapAgain
  <2>4. reg = [ n.reg EXCEPT ![SP] = Wrap(sp - 2) ] /\ d.reg = [ reg EXCEPT ![SP] = Wrap(reg[SP] - 4) ]
    BY <2>1
  <2> HIDE DEF reg, sp
  <2>5. reg[SP] = Wrap(sp - 2)
    BY <2>2, <2>4
  <2>6. d.reg = [ [ n.reg EXCEPT ![SP] = Wrap(sp - 2) ] EXCEPT ![SP] = Wrap(sp - 6) ]
    BY <2>3, <2>4, <2>5
  <2>7. d.reg = [ n.reg EXCEPT ![SP] = Wrap(sp - 6) ]
    BY <2>6
  <2> QED
    BY <2>7 DEF sp
<1>12. d.bus = p.bus /\ d.ip = target /\ d.seg = [ n.seg EXCEPT ![CS] = s ]
  BY <1>5, <1>6, <1>9 DEF Has
<1>13. s = ReadMem(d, 0, 4 * vector + 2, 16) /\ target = ReadMem(d, 0, 4 * vector, 16)
  BY <1>12, Zenon DEF s, target, ReadMem
<1>14. d.flags = n.flags \ {"interrupt", "trap"}
  BY <1>4, <1>6, <1>9 DEF Has
<1> QED
  BY <1>10, <1>11, <1>12, <1>13, <1>14 DEF d

\* IRET leads back.
LEMMA ReturnsFromInterrupt ==
  ASSUME NEW n, Typed(n), n.ip \in Word, n.flags \in Flags, NEW vector
  PROVE  LET c == ServiceInterrupt(n, vector)
         IN  /\ SameContext(ReturnInterrupt(c), n)
             /\ c.flags = n.flags \ {"interrupt", "trap"}
<1> DEFINE d == ServiceInterrupt(n, vector)
           s == ReadMem(d, 0, 4 * vector + 2, 16)
           r == ReturnInterrupt(d)
<1>1. FromWord(ToWord(n.flags)) = n.flags
  BY FlagsRoundTrip
<1>2. /\ Stacked(d) /\ StackWord(d, 0) = n.ip /\ StackWord(d, 2) = n.seg[CS]
      /\ StackWord(d, 4) = ToWord(n.flags)
      /\ d.reg = [ n.reg EXCEPT ![SP] = Wrap(@ - 6) ] /\ d.seg = [ n.seg EXCEPT ![CS] = s ]
      /\ d.flags = n.flags \ {"interrupt", "trap"}
  BY InterruptIs
<1> HIDE DEF d, s
<1>3. /\ Unwound(r, d, 6) /\ r.flags = FromWord(StackWord(d, 4))
      /\ r.seg = [ d.seg EXCEPT ![CS] = StackWord(d, 2) ]
  BY <1>2, Unwinding
<1> HIDE DEF r
<1>4. r.reg = n.reg
  BY <1>2, <1>3, RegistersBack DEF Typed
<1>5. r.seg = n.seg
  BY <1>2, <1>3, SegmentsBack
<1>6. r.flags = n.flags
  BY <1>1, <1>2, <1>3
<1>7. r.ip = n.ip
  BY <1>2, <1>3, WrapAgain, WordsAreIntegers DEF Unwound
<1> QED
  BY <1>2, <1>4, <1>5, <1>6, <1>7 DEF SameContext, r, d

---------------------------------------------------------------------------------
(* Entries and their returns.                                                       *)

Entries == {\h9A, \hCC, \hCD, \hCE, \hE8, \hF6, \hF7, \hFF}

LEMMA EntriesAre ==
  ASSUME NEW op \in Entries, NEW c, NEW chosen
  PROVE  Execute(c, op, chosen) = CASE op \in Calls    -> ExecuteCall(c, op)
                                    [] op \in Group3   -> ExecuteGroup3(c, op, chosen)
                                    [] op \in Groups45 -> ExecuteGroups45(c, op, chosen)
<1>1. op \in {154, 204, 205, 206, 232, 246, 247, 255}
  BY DEF Entries
<1>2. op \notin AluBlock /\ op \notin MoveModrm /\ op \notin MoveDirect /\ op \notin Exchanges
  BY <1>1 DEF AluBlock, MoveModrm, MoveDirect, Exchanges
<1>3. op \notin Group1 /\ op \notin Singles /\ op \notin StackOps /\ op \notin Jumps
  BY <1>1 DEF Group1, Singles, StackOps, Jumps
<1>4. op \notin Group2 /\ op \notin PortOps /\ op \notin FlagOps /\ op \notin Strings
  BY <1>1 DEF Group2, PortOps, FlagOps, Strings
<1>5. \/ op \in Calls /\ op \notin Group3 /\ op \notin Groups45
      \/ op \notin Calls /\ op \in Group3 /\ op \notin Groups45
      \/ op \notin Calls /\ op \notin Group3 /\ op \in Groups45
  BY <1>1 DEF Calls, Group3, Groups45
<1> QED
  BY <1>2, <1>3, <1>4, <1>5 DEF Execute

\* n is the CPU of the case, gone on to the next instruction.
Resumes(n) ==
  /\ Typed(n) /\ n.ip = NextInstruction /\ n.ip \in Word
  /\ n.reg = Before.reg /\ n.seg = Before.seg /\ n.flags = Before.flags

\* Wherever an instruction goes on, nothing but IP has changed.
LEMMA GoesOn ==
  ASSUME Placed, Running
  PROVE  /\ Before.flags \in Flags /\ OpcodeAt \in Int /\ ModrmAt \in Int /\ ModrmAt \in Word
         /\ \A ip : ip \in Word /\ ip = NextInstruction => Resumes([ Before EXCEPT !.ip = ip ])
         /\ AtModrm = [ Before EXCEPT !.ip = ModrmAt ]
         /\ \A x, w : Past([ Before EXCEPT !.ip = x ], w) = [ Before EXCEPT !.ip = Wrap(x + w \div 8) ]
<1>1. /\ CpuShape(Before) /\ Before.reg \in [ AX .. DI -> Word ] /\ Before.seg \in [ ES .. DS -> Word ]
      /\ Before.ip \in Word
  BY AtModrmFields, BeforeFields
<1>2. Before.flags \in Flags
  BY BeforeFields DEF FromWord, Flags
<1>3. OpcodeAt \in Word
  <2> DEFINE k == IF override = NoOverride THEN 0 ELSE 1
  <2>1. Before.ip \in Int /\ k \in Int
    BY <1>1, WordsAreIntegers
  <2>2. OpcodeAt = Wrap(Before.ip + k)
    BY DEF OpcodeAt
  <2> HIDE DEF k
  <2>3. Before.ip + k \in Int
    BY <2>1
  <2> QED
    BY <2>2, <2>3, WrapAgain
<1>4. ModrmAt \in Word
  <2>1. OpcodeAt + 1 \in Int
    BY <1>3, WordsAreIntegers
  <2> QED
    BY <2>1, WrapAgain DEF ModrmAt
<1>5. ASSUME NEW ip \in Word, ip = NextInstruction
      PROVE  Resumes([ Before EXCEPT !.ip = ip ])
  BY <1>1, <1>5 DEF Resumes, Typed, Stacked, CpuShape
<1>6. ASSUME NEW x, NEW w
      PROVE  Past([ Before EXCEPT !.ip = x ], w) = [ Before EXCEPT !.ip = Wrap(x + w \div 8) ]
  BY <1>1 DEF Past, CpuShape
<1> QED
  BY <1>2, <1>3, <1>4, <1>5, <1>6, WordsAreIntegers DEF AtModrm

\* Behind an operand with a ModR/M byte, and behind the immediates of the others.
LEMMA NextIs ==
  ASSUME Placed, Running
  PROVE  LET m == DecodeModrm(AtModrm, override)
         IN  /\ m.reg = ModrmReg /\ (ModrmMode # 3 => m.rm.kind = "memory")
             /\ m.after = [ Before EXCEPT !.ip = AfterModrm ] /\ AfterModrm \in Word
             /\ Past(AtModrm, 8) = [ Before EXCEPT !.ip = Wrap(OpcodeAt + 2) ]
             /\ Past(AtModrm, 16) = [ Before EXCEPT !.ip = Wrap(OpcodeAt + 3) ]
             /\ Past(Past(AtModrm, 16), 16) = [ Before EXCEPT !.ip = Wrap(OpcodeAt + 5) ]
             /\ \A k \in {1, 2, 3, 5} : Wrap(OpcodeAt + k) \in Word
<1> DEFINE m      == DecodeModrm(AtModrm, override)
           length == CASE ModrmMode = 1 -> 1
                       [] ModrmMode = 2 \/ (ModrmMode = 0 /\ ModrmRm = 6) -> 2
                       [] OTHER -> 0
<1>1. /\ OpcodeAt \in Int /\ ModrmAt \in Int /\ AtModrm = [ Before EXCEPT !.ip = ModrmAt ]
      /\ \A x, w : Past([ Before EXCEPT !.ip = x ], w) = [ Before EXCEPT !.ip = Wrap(x + w \div 8) ]
  BY GoesOn
<1>2. Immediate(AtModrm, 8) = Modrm
  BY AtModrmFields
<1>3. m.reg = ModrmReg /\ (ModrmMode # 3 => m.rm.kind = "memory")
  BY <1>2 DEF DecodeModrm, ModrmReg, ModrmMode, Memory
<1>4. 8 \div 8 = 1 /\ 16 \div 8 = 2 /\ 0 \div 8 = 0
  OBVIOUS
<1>5. /\ Past(AtModrm, 8) = [ Before EXCEPT !.ip = Wrap(ModrmAt + 1) ]
      /\ Past(AtModrm, 16) = [ Before EXCEPT !.ip = Wrap(ModrmAt + 2) ]
  <2>1. /\ Past(AtModrm, 8) = [ Before EXCEPT !.ip = Wrap(ModrmAt + 8 \div 8) ]
        /\ Past(AtModrm, 16) = [ Before EXCEPT !.ip = Wrap(ModrmAt + 16 \div 8) ]
    BY <1>1, Zenon
  <2> QED
    BY <1>4, <2>1, Zenon
<1>6. \A j \in Int, k \in Int : Wrap(Wrap(OpcodeAt + j) + k) = Wrap(OpcodeAt + (j + k))
  <2> TAKE j \in Int, k \in Int
  <2>1. OpcodeAt + j \in Int /\ (OpcodeAt + j) + k = OpcodeAt + (j + k)
    BY <1>1
  <2> QED
    BY <2>1, WrapAgain
<1>7. \A k \in Int : Wrap(OpcodeAt + k) \in Word /\ Wrap(ModrmAt + k) \in Word
  <2> TAKE k \in Int
  <2>1. OpcodeAt + k \in Int /\ ModrmAt + k \in Int
    BY <1>1
  <2> QED
    BY <2>1, WrapAgain
<1>8. length \in {0, 1, 2}
  BY DEF ModrmMode, ModrmRm
<1>9. AfterModrm = Wrap(ModrmAt + 1 + length)
  BY DEF AfterModrm
<1>10. m.after = [ Before EXCEPT !.ip = AfterModrm ]
  <2> DEFINE width == DisplacementWidth(ModrmMode, ModrmRm)
             next  == Past(AtModrm, 8)
  <2>1. m.after = IF ModrmMode = 3 THEN next ELSE Past(next, width)
    BY <1>2 DEF DecodeModrm, ModrmMode, ModrmRm
  <2>2. next = [ Before EXCEPT !.ip = Wrap(ModrmAt + 1) ]
    BY <1>5
  <2>3. width \div 8 = length
    BY <1>4 DEF DisplacementWidth
  <2>4. ModrmMode = 3 => length = 0
    OBVIOUS
  <2> HIDE DEF next, width, length
  <2>5. Past(next, width) = [ Before EXCEPT !.ip = Wrap(Wrap(ModrmAt + 1) + length) ]
    BY <1>1, <2>2, <2>3
  <2>6. Wrap(Wrap(ModrmAt + 1) + length) = Wrap(ModrmAt + 1 + length)
    <3>1. ModrmAt + 1 \in Int /\ length \in Int
      BY <1>1, <1>8
    <3> QED
      BY <3>1, WrapAgain
  <2>7. ModrmMode = 3 => ModrmAt + 1 + length = ModrmAt + 1
    BY <1>1, <2>4
  <2> QED
    BY <1>9, <2>1, <2>2, <2>5, <2>6, <2>7
<1>11. AfterModrm \in Word
  <2> HIDE DEF length
  <2>1. 1 + length \in Int /\ ModrmAt + 1 + length = ModrmAt + (1 + length)
    BY <1>1, <1>8
  <2> QED
    BY <1>7, <1>9, <2>1
<1>12. /\ Past(AtModrm, 8) = [ Before EXCEPT !.ip = Wrap(OpcodeAt + 2) ]
       /\ Past(AtModrm, 16) = [ Before EXCEPT !.ip = Wrap(OpcodeAt + 3) ]
       /\ Past(Past(AtModrm, 16), 16) = [ Before EXCEPT !.ip = Wrap(OpcodeAt + 5) ]
  <2>1. 1 + 1 = 2 /\ 1 + 2 = 3 /\ 3 + 2 = 5
    OBVIOUS
  <2>2. Wrap(ModrmAt + 1) = Wrap(OpcodeAt + 2) /\ Wrap(ModrmAt + 2) = Wrap(OpcodeAt + 3)
    BY <1>6, <2>1 DEF ModrmAt
  <2>3. Wrap(Wrap(OpcodeAt + 3) + 2) = Wrap(OpcodeAt + 5)
    BY <1>6, <2>1
  <2>4. /\ Past(AtModrm, 8) = [ Before EXCEPT !.ip = Wrap(OpcodeAt + 2) ]
        /\ Past(AtModrm, 16) = [ Before EXCEPT !.ip = Wrap(OpcodeAt + 3) ]
    BY <1>5, <2>2, Zenon
  <2>5. Past([ Before EXCEPT !.ip = Wrap(OpcodeAt + 3) ], 16)
          = [ Before EXCEPT !.ip = Wrap(Wrap(OpcodeAt + 3) + 16 \div 8) ]
    BY <1>1, Zenon
  <2>6. Past(Past(AtModrm, 16), 16) = [ Before EXCEPT !.ip = Wrap(OpcodeAt + 5) ]
    BY <1>4, <2>3, <2>4, <2>5, Zenon
  <2> QED
    BY <2>4, <2>6
<1> QED
  BY <1>3, <1>7, <1>10, <1>11, <1>12

\* What is executed on the CPU past the opcode.
LEMMA EntryIs ==
  ASSUME Stepping, Judged, Plain, opcode \in Entries
  PROVE  /\ opcode \in Calls    => cpu = ExecuteCall(AtModrm, opcode)
         /\ opcode \in Group3   => cpu = ExecuteGroup3(AtModrm, opcode, override)
         /\ opcode \in Groups45 => cpu = ExecuteGroups45(AtModrm, opcode, override)
<1>1. cpu = Execute(AtModrm, opcode, override)
  BY DEF Stepping, AtModrm
<1>2. \/ opcode \in Calls /\ opcode \notin Group3 /\ opcode \notin Groups45
      \/ opcode \notin Calls /\ opcode \in Group3 /\ opcode \notin Groups45
      \/ opcode \notin Calls /\ opcode \notin Group3 /\ opcode \in Groups45
  BY DEF Entries, Calls, Group3, Groups45
<1> QED
  BY <1>1, <1>2, EntriesAre

\* The CPU a call with a ModR/M byte or a division goes on from.
LEMMA AfterOperand ==
  ASSUME Placed, Running, opcode \in {\hF6, \hF7, \hFF}
  PROVE  Resumes(DecodeModrm(AtModrm, override).after)
<1>1. NextInstruction = AfterModrm
  BY DEF NextInstruction
<1> QED
  BY <1>1, NextIs, GoesOn

NearCall == opcode = \hE8 \/ (opcode = \hFF /\ ModrmReg = 2)

LEMMA NearEntry ==
  ASSUME Placed, Stepping, Judged, Plain, NearCall
  PROVE  \E n, target : Resumes(n) /\ cpu = JumpTo(Push(n, n.ip), target)
<1>1. Running /\ opcode \in Entries
  BY DEF Judged, Running, NearCall, Entries
<1>2. CASE opcode = \hE8
  <2> DEFINE n == Past(AtModrm, 16)
  <2>1. cpu = JumpTo(Push(n, n.ip), n.ip + Immediate(AtModrm, 16))
    BY <1>1, <1>2, EntryIs DEF ExecuteCall, Calls
  <2>2. NextInstruction = Wrap(OpcodeAt + 3) /\ NextInstruction \in Word
    BY <1>1, <1>2, NextIs DEF NextInstruction
  <2>3. Resumes(n)
    BY <1>1, <2>2, NextIs, GoesOn
  <2> QED
    BY <2>1, <2>3
<1>3. CASE opcode = \hFF /\ ModrmReg = 2
  <2> DEFINE m == DecodeModrm(AtModrm, override)
             n == m.after
  <2>1. Resumes(n) /\ m.reg = 2
    BY <1>1, <1>3, AfterOperand, NextIs
  <2>2. cpu = ExecuteGroups45(AtModrm, opcode, override)
    BY <1>1, <1>3, EntryIs DEF Groups45
  <2>3. cpu = JumpTo(Push(n, n.ip), Value(n, m.rm, Width(opcode)))
    <3> HIDE DEF m
    <3> QED
      BY <1>3, <2>1, <2>2 DEF ExecuteGroups45, m
  <2> QED
    BY <2>1, <2>3
<1> QED
  BY <1>2, <1>3 DEF NearCall

FarCall == opcode = \h9A \/ (opcode = \hFF /\ ModrmReg = 3 /\ ModrmMode # 3)

LEMMA FarEntry ==
  ASSUME Placed, Stepping, Judged, Plain, FarCall
  PROVE  \E n, s, target : Resumes(n) /\ cpu = JumpFar(PushFar(n), s, target)
<1>1. Running /\ opcode \in Entries
  BY DEF Judged, Running, FarCall, Entries
<1>2. CASE opcode = \h9A
  <2> DEFINE near == Past(AtModrm, 16)
             n    == Past(near, 16)
  <2>1. cpu = JumpFar(PushFar(n), Immediate(near, 16), Immediate(AtModrm, 16))
    BY <1>1, <1>2, EntryIs DEF ExecuteCall, Calls
  <2>2. NextInstruction = Wrap(OpcodeAt + 5) /\ NextInstruction \in Word
    BY <1>1, <1>2, NextIs DEF NextInstruction
  <2>3. Resumes(n)
    BY <1>1, <2>2, NextIs, GoesOn
  <2> QED
    BY <2>1, <2>3
<1>3. CASE opcode = \hFF /\ ModrmReg = 3 /\ ModrmMode # 3
  <2> DEFINE m == DecodeModrm(AtModrm, override)
             n == m.after
             s == ReadMem(n, m.rm.segment, Wrap(m.rm.offset + 2), 16)
  <2>1. Resumes(n) /\ m.reg = 3 /\ m.rm.kind = "memory"
    BY <1>1, <1>3, AfterOperand, NextIs
  <2>2. cpu = ExecuteGroups45(AtModrm, opcode, override)
    BY <1>1, <1>3, EntryIs DEF Groups45
  <2>3. cpu = JumpFar(PushFar(n), s, Value(n, m.rm, Width(opcode)))
    <3> HIDE DEF m
    <3> QED
      BY <1>3, <2>1, <2>2 DEF ExecuteGroups45, m
  <2> QED
    BY <2>1, <2>3
<1> QED
  BY <1>2, <1>3 DEF FarCall

Entered == opcode \in Interrupts \/ Trapped

\* Another register is set.
SpStays(c, m) == CpuShape(m) /\ SP \in DOMAIN m.reg /\ m.reg[SP] = c.reg[SP]

LEMMA OtherRegister ==
  ASSUME NEW c, CpuShape(c), SP \in DOMAIN c.reg, NEW i, i # SP, NEW v
  PROVE  SpStays(c, SetRegister(c, i, v))
  BY DEF SpStays, SetRegister, CpuShape

\* A division leaves SP alone unless it raises #DE.
LEMMA InterruptEntry ==
  ASSUME Placed, Stepping, Judged, Plain, Entered
  PROVE  \E n, vector : Resumes(n) /\ cpu = ServiceInterrupt(n, vector)
<1>1. Running /\ opcode \in Entries
  BY DEF Judged, Running, Entered, Interrupts, Trapped, Group3, Entries
<1>2. /\ AtModrm = [ Before EXCEPT !.ip = ModrmAt ] /\ AtModrm.flags = Before.flags
      /\ ModrmAt \in Word /\ ModrmAt = Wrap(OpcodeAt + 1)
  BY <1>1, GoesOn, AtModrmFields DEF ModrmAt
<1>3. CASE opcode \in {\hCC, \hCE} /\ opcode \in Interrupts
  <2>1. Resumes(AtModrm)
    <3>1. NextInstruction = ModrmAt
      BY <1>2, <1>3 DEF NextInstruction
    <3> QED
      BY <1>1, <1>2, <3>1, GoesOn
  <2>2. opcode \in Calls /\ (opcode = \hCE => "overflow" \in AtModrm.flags)
    BY <1>2, <1>3 DEF Calls, Interrupts
  <2>3. cpu = ServiceInterrupt(AtModrm, 3) \/ cpu = ServiceInterrupt(AtModrm, 4)
    BY <1>1, <1>3, <2>2, EntryIs DEF ExecuteCall
  <2> QED
    BY <2>1, <2>3
<1>4. CASE opcode = \hCD
  <2> DEFINE n == Past(AtModrm, 8)
  <2>1. cpu = ServiceInterrupt(n, Immediate(AtModrm, 8))
    BY <1>1, <1>4, EntryIs DEF ExecuteCall, Calls
  <2>2. NextInstruction = Wrap(OpcodeAt + 2) /\ NextInstruction \in Word
    BY <1>1, <1>4, NextIs DEF NextInstruction
  <2>3. Resumes(n)
    BY <1>1, <2>2, NextIs, GoesOn
  <2> QED
    BY <2>1, <2>3
<1>5. CASE Trapped
  <2> DEFINE m  == DecodeModrm(AtModrm, override)
             n  == m.after
             w  == Width(opcode)
             by == Value(n, m.rm, w)
             result == IF m.reg = 7 THEN Idiv(Wide(n, w), by, w) ELSE Div(Wide(n, w), by, w)
  <2>1. Resumes(n) /\ m.reg \in {6, 7}
    BY <1>1, <1>5, AfterOperand, NextIs DEF Trapped, Group3
  <2>2. cpu = ExecuteGroup3(AtModrm, opcode, override)
    BY <1>1, <1>5, EntryIs DEF Trapped
  <2>3. cpu = Divide(n, by, m.reg = 7, w)
    <3> HIDE DEF m, w
    <3> QED
      BY <2>1, <2>2 DEF ExecuteGroup3, m, w
  <2>4. cpu = IF result.trap THEN ServiceInterrupt(n, 0)
              ELSE SetWide(n, Halves(result.remainder, result.quotient), w)
    <3> HIDE DEF m, by, w
    <3> QED
      BY <2>3 DEF Divide
  <2>5. \A d : SetWide(n, d, w).reg[SP] = Before.reg[SP]
    <3> HIDE DEF n, w
    <3>1. /\ CpuShape(n) /\ n.reg = Before.reg
          /\ SP \in DOMAIN n.reg /\ AX # SP /\ DX # SP
      BY <2>1, Names DEF Resumes, Typed, Stacked
    <3>2. \A i, v : i # SP => SpStays(n, SetRegister(n, i, v))
      BY <3>1, OtherRegister
    <3>3. \A u, v : SpStays(n, SetRegister(SetRegister(n, DX, u), AX, v))
      <4> TAKE u, v
      <4> DEFINE c == SetRegister(n, DX, u)
      <4>1. SpStays(n, c)
        BY <3>1, <3>2
      <4> HIDE DEF c
      <4>2. SpStays(c, SetRegister(c, AX, v))
        BY <3>1, <4>1, OtherRegister DEF SpStays
      <4> QED
        BY <4>1, <4>2 DEF SpStays, c
    <3>4. \A v : SpStays(n, SetRegister(n, AX, v))
      BY <3>1, <3>2
    <3> QED
      BY <3>1, <3>3, <3>4 DEF SetWide, SpStays
  <2>6. cpu = ServiceInterrupt(n, 0)
    <3> HIDE DEF n, result, w
    <3> QED
      BY <1>5, <2>4, <2>5 DEF Trapped
  <2> QED
    BY <2>1, <2>6
<1> QED
  BY <1>3, <1>4, <1>5 DEF Entered, Interrupts

LEMMA EntriesAreUndone ==
  ASSUME Placed, Stepping
  PROVE  ReturnsUndoEntries
<1> SUFFICES ASSUME Judged, Plain, NearCall \/ FarCall \/ Entered
             PROVE  ReturnsUndoEntries
  BY DEF ReturnsUndoEntries, NearCall, FarCall, Entered
<1>1. Before.flags \in Flags
  BY GoesOn DEF Judged, Running
<1>2. CASE NearCall
  <2>1. PICK n, target : Resumes(n) /\ cpu = JumpTo(Push(n, n.ip), target)
    BY <1>2, NearEntry
  <2>2. SameContext(ReturnNear(cpu), n)
    BY <2>1, ReturnsFromNear DEF Resumes
  <2>3. ~ Entered
    BY <1>2 DEF NearCall, Entered, Interrupts, Trapped, Group3
  <2> QED
    BY <1>2, <2>1, <2>2, <2>3 DEF ReturnsUndoEntries, NearCall, Entered, Resumes, SameContext
<1>3. CASE FarCall
  <2>1. PICK n, s, target : Resumes(n) /\ cpu = JumpFar(PushFar(n), s, target)
    BY <1>3, FarEntry
  <2>2. SameContext(ReturnFar(cpu), n)
    BY <2>1, ReturnsFromFar DEF Resumes
  <2>3. ~ Entered /\ ~ NearCall
    BY <1>3 DEF FarCall, NearCall, Entered, Interrupts, Trapped, Group3
  <2> QED
    BY <1>3, <2>1, <2>2, <2>3 DEF ReturnsUndoEntries, FarCall, NearCall, Entered, Resumes, SameContext
<1>4. CASE Entered
  <2>1. PICK n, vector : Resumes(n) /\ cpu = ServiceInterrupt(n, vector)
    BY <1>4, InterruptEntry
  <2>2. SameContext(ReturnInterrupt(cpu), n) /\ cpu.flags = Before.flags \ {"interrupt", "trap"}
    BY <1>1, <2>1, ReturnsFromInterrupt DEF Resumes
  <2>3. ~ FarCall /\ ~ NearCall
    BY <1>4 DEF FarCall, NearCall, Entered, Interrupts, Trapped, Group3
  <2> QED
    BY <1>4, <2>1, <2>2, <2>3 DEF ReturnsUndoEntries, FarCall, NearCall, Entered, Resumes, SameContext
<1> QED
  BY <1>2, <1>3, <1>4

\* In every case any fixtures have, a return undoes the call, the interrupt or the trap
\* that entered: registers, segments and flags are what they were and IP is past the
\* instruction, with the stack anywhere in its segment, across its end too, the code
\* anywhere in its own, and any operand a call may have.
THEOREM EntriesHaveReturns == Spec => []ReturnsUndoEntries
<1> DEFINE Inv == Placed /\ Traced /\ Scanned /\ Stepping
<1>1. Init => Inv
  BY PlacedAtFirst, TracedAtFirst DEF Init, Scanned, V20OnlyIsSkipped, Stepping, Judged
<1>2. Inv /\ [Next]_vars => Inv'
  BY PlacedKept, TracedKept, ScannedKept, SteppingKept
<1>3. Inv => ReturnsUndoEntries
  BY EntriesAreUndone
<1> QED
  BY <1>1, <1>2, <1>3, PTL DEF Spec

---------------------------------------------------------------------------------
(* Products and quotients.                                                          *)

\* The numbers of a width, half of them, and those of half the width.
Shape(w, N, H, h) ==
  \/ w = 8 /\ N = 256 /\ H = 128 /\ h = 16
  \/ w = 16 /\ N = 65536 /\ H = 32768 /\ h = 256

LEMMA Shapes ==
  ASSUME NEW w \in Widths
  PROVE  \E N, H, h \in Int : Shape(w, N, H, h) /\ 2^w = N /\ 2^(w - 1) = H /\ 2^(w \div 2) = h
<1>1. CASE w = 8
  <2>1. w - 1 = 7 /\ w \div 2 = 4 /\ 2^4 = 16
    BY <1>1
  <2> QED
    BY <1>1, <2>1, Powers DEF Shape
<1>2. CASE w = 16
  <2>1. w - 1 = 15 /\ w \div 2 = 8
    BY <1>2
  <2> QED
    BY <1>2, <2>1, Powers DEF Shape
<1> QED
  BY <1>1, <1>2 DEF Widths

\* The two halves of the number n.
Parts(n, N) == Halves((n \div N) % N, n % N)

\* A product half by half, where upper is a by the upper half of b.
HalfByHalf(a, b, N, h) ==
  LET upper == a * (b \div h)
      lower == a * (b % h) + h * (upper % h)
  IN  N * (upper \div h + lower \div N) + (lower % N) = a * b

LEMMA ProductByHalves ==
  ASSUME NEW w, NEW N \in Int, NEW H \in Int, NEW h \in Int, Shape(w, N, H, h),
         NEW a \in Nat, NEW b \in Nat
  PROVE  HalfByHalf(a, b, N, h)
<1> DEFINE b1 == b \div h
           b0 == b % h
<1>1. b1 \in Int /\ b0 \in Int /\ b = h * b1 + b0
  <2>1. CASE w = 8
    BY <2>1 DEF Shape
  <2>2. CASE w = 16
    BY <2>2 DEF Shape
  <2> QED
    BY <2>1, <2>2 DEF Shape
<1> HIDE DEF b1, b0
<1> DEFINE U == a * b1
           L == a * b0
<1>2. U \in Int /\ L \in Int /\ a * b = h * U + L
  <2>1. a * (h * b1 + b0) = h * (a * b1) + a * b0
    BY <1>1
  <2> QED
    BY <1>1, <2>1
<1> HIDE DEF U, L
<1>3. LET lower == L + h * (U % h)
      IN  N * (U \div h + lower \div N) + (lower % N) = h * U + L
  <2>1. CASE w = 8
    BY <1>2, <2>1 DEF Shape
  <2>2. CASE w = 16
    BY <1>2, <2>2 DEF Shape
  <2> QED
    BY <2>1, <2>2 DEF Shape
<1>4. a * (b \div h) = U /\ a * (b % h) = L
  BY DEF U, L, b1, b0
<1> QED
  BY <1>2, <1>3, <1>4 DEF HalfByHalf

Sizes == {256, 65536}

\* The halves of a number are its quotient and its remainder.
LEMMA PartsOf ==
  ASSUME NEW N \in Sizes, NEW hi \in Int, NEW lo \in Int, 0 <= lo, lo < N
  PROVE  /\ Parts(N * hi + lo, N) = Halves(hi % N, lo)
         /\ 0 <= hi /\ hi < N => Parts(N * hi + lo, N) = Halves(hi, lo)
<1> DEFINE n == N * hi + lo
<1>1. n \div N = hi /\ n % N = lo /\ (0 <= hi /\ hi < N => hi % N = hi)
  <2>1. CASE N = 256
    BY <2>1
  <2>2. CASE N = 65536
    BY <2>2
  <2> QED
    BY <2>1, <2>2 DEF Sizes
<1> HIDE DEF n
<1>2. Parts(n, N) = Halves(hi % N, lo)
  BY <1>1, Zenon DEF Parts
<1> QED
  BY <1>1, <1>2 DEF n

\* Two numbers of a width have a product of twice the width.
LEMMA ProductBounds ==
  ASSUME NEW M \in Int, NEW a \in Int, NEW b \in Int, 0 <= a, a <= M, 0 <= b, b <= M
  PROVE  a * b \in Int /\ 0 <= a * b /\ a * b <= M * M
<1>1. 0 <= a * b /\ a * b <= a * M
  OBVIOUS
<1>2. a * M <= M * M
  OBVIOUS
<1> QED
  BY <1>1, <1>2

\* MUL yields the product.
LEMMA MulIsExact ==
  ASSUME NEW w \in Widths, NEW N \in Int, NEW H \in Int, NEW h \in Int, Shape(w, N, H, h),
         2^w = N, 2^(w \div 2) = h,
         NEW a \in Int, NEW b \in Int, 0 <= a, a < N, 0 <= b, b < N
  PROVE  Mul(a, b, w) = Parts(a * b, N)
<1> DEFINE upper == a * (b \div h)
           lower == a * (b % h) + h * (upper % h)
           hi    == upper \div h + lower \div N
           lo    == lower % N
<1>1. Mul(a, b, w) = Halves(hi, lo)
  BY Zenon DEF Mul
<1>2. upper \in Int /\ lower \in Int /\ N > 0 /\ h > 0
  BY DEF Shape
<1>3. N * hi + lo = a * b
  BY ProductByHalves DEF HalfByHalf
<1>4. a * b \in Int /\ 0 <= a * b /\ a * b <= (N - 1) * (N - 1)
  BY ProductBounds
<1> HIDE DEF upper, lower
<1>5. hi \in Int /\ lo \in Int /\ 0 <= lo /\ lo < N
  <2>1. CASE w = 8
    BY <1>2, <2>1 DEF Shape
  <2>2. CASE w = 16
    BY <1>2, <2>2 DEF Shape
  <2> QED
    BY <2>1, <2>2 DEF Shape
<1> HIDE DEF hi, lo
<1> DEFINE n == a * b
<1>6. n \in Int /\ 0 <= n /\ n <= (N - 1) * (N - 1) /\ N * hi + lo = n
  BY <1>3, <1>4
<1> HIDE DEF n
<1>7. 0 <= hi /\ hi < N
  <2>1. CASE w = 8
    BY <1>5, <1>6, <2>1 DEF Shape
  <2>2. CASE w = 16
    BY <1>5, <1>6, <2>2 DEF Shape
  <2> QED
    BY <2>1, <2>2 DEF Shape
<1>8. Parts(N * hi + lo, N) = Halves(hi, lo)
  <2>1. N \in Sizes
    BY DEF Shape, Sizes
  <2> QED
    BY <1>5, <1>7, <2>1, PartsOf
<1> QED
  BY <1>1, <1>6, <1>8 DEF n

\* The two's complement of halves is that of the number.
LEMMA NegatedIsExact ==
  ASSUME NEW w \in Widths, NEW N \in Int, NEW H \in Int, NEW h \in Int, Shape(w, N, H, h),
         2^w = N, NEW n \in Int
  PROVE  Negated(Parts(n, N), w) = Parts(-n, N)
<1> DEFINE hi == (n \div N) % N
           lo == n % N
<1>1. Parts(n, N) = Halves(hi, lo)
  BY DEF Parts
<1>2. Negated(Halves(hi, lo), w) = Halves((-hi - (IF lo = 0 THEN 0 ELSE 1)) % N, (-lo) % N)
  BY Zenon DEF Negated, Truncate, Halves
<1>3. (-hi - (IF lo = 0 THEN 0 ELSE 1)) % N = ((-n) \div N) % N /\ (-lo) % N = (-n) % N
  <2>1. CASE w = 8
    BY <2>1 DEF Shape
  <2>2. CASE w = 16
    BY <2>2 DEF Shape
  <2> QED
    BY <2>1, <2>2 DEF Shape
<1> HIDE DEF hi, lo
<1> QED
  BY <1>1, <1>2, <1>3, Zenon DEF Parts

\* A number of a width as a signed number, and its magnitude.
LEMMA SignAndMagnitude ==
  ASSUME NEW w \in Widths, NEW N \in Int, NEW H \in Int, NEW h \in Int, Shape(w, N, H, h),
         2^w = N, 2^(w - 1) = H, NEW v \in Unsigned(w)
  PROVE  LET s == Signed(v, w)
         IN  /\ v \in Int /\ 0 <= v /\ v < N /\ s \in Int /\ -H <= s /\ s < H
             /\ s = IF v < H THEN v ELSE v - N
             /\ Top(v, w) = IF s < 0 THEN 1 ELSE 0
             /\ Magnitude(v, w) = IF s < 0 THEN -s ELSE s
<1>1. /\ v \in Int /\ 0 <= v /\ v < N
      /\ Top(v, w) = IF v < H THEN 0 ELSE 1
      /\ Signed(v, w) = IF v < H THEN v ELSE v - N
  BY Halved
<1>2. N = H + H /\ H > 0
  BY DEF Shape
<1>3. Magnitude(v, w) = IF Top(v, w) = 1 THEN N - v ELSE v
  BY DEF Magnitude
<1> QED
  BY <1>1, <1>2, <1>3

\* IMUL yields the product of the signed numbers.
LEMMA ImulIsExact ==
  ASSUME NEW w \in Widths, NEW N \in Int, NEW H \in Int, NEW h \in Int, Shape(w, N, H, h),
         2^w = N, 2^(w - 1) = H, 2^(w \div 2) = h, NEW a \in Unsigned(w), NEW b \in Unsigned(w)
  PROVE  LET s == Signed(a, w)
             t == Signed(b, w)
         IN  /\ Imul(a, b, w) = Parts(s * t, N)
             /\ s * t \in Int /\ -(H * H) <= s * t /\ s * t <= H * H
<1> DEFINE s == Signed(a, w)
           t == Signed(b, w)
           m == Magnitude(a, w)
           k == Magnitude(b, w)
<1>1. /\ s \in Int /\ -H <= s /\ s < H /\ Top(a, w) = (IF s < 0 THEN 1 ELSE 0)
      /\ m = IF s < 0 THEN -s ELSE s
  BY SignAndMagnitude
<1>2. /\ t \in Int /\ -H <= t /\ t < H /\ Top(b, w) = (IF t < 0 THEN 1 ELSE 0)
      /\ k = IF t < 0 THEN -t ELSE t
  BY SignAndMagnitude
<1>3. Imul(a, b, w) = IF Top(a, w) = Top(b, w) THEN Mul(m, k, w) ELSE Negated(Mul(m, k, w), w)
  BY DEF Imul
<1>4. N > H /\ H > 0
  BY DEF Shape
<1> HIDE DEF s, t, m, k
<1>5. m \in Int /\ 0 <= m /\ m <= H /\ k \in Int /\ 0 <= k /\ k <= H
  BY <1>1, <1>2
<1>6. Mul(m, k, w) = Parts(m * k, N) /\ Negated(Parts(m * k, N), w) = Parts(-(m * k), N)
  <2>1. m < N /\ k < N /\ m * k \in Int
    BY <1>4, <1>5
  <2> QED
    BY <1>5, <2>1, MulIsExact, NegatedIsExact
<1>7. s * t \in Int /\ s * t = IF Top(a, w) = Top(b, w) THEN m * k ELSE -(m * k)
  <2>1. CASE s < 0 /\ t < 0
    BY <1>1, <1>2, <2>1
  <2>2. CASE s < 0 /\ ~ (t < 0)
    BY <1>1, <1>2, <2>2
  <2>3. CASE ~ (s < 0) /\ t < 0
    BY <1>1, <1>2, <2>3
  <2>4. CASE ~ (s < 0) /\ ~ (t < 0)
    BY <1>1, <1>2, <2>4
  <2> QED
    BY <2>1, <2>2, <2>3, <2>4
<1>8. m * k \in Int /\ 0 <= m * k /\ m * k <= H * H
  BY <1>5, ProductBounds
<1>9. -(H * H) <= s * t /\ s * t <= H * H
  <2> DEFINE p == m * k
             n == s * t
             M == H * H
  <2>1. M \in Int
    OBVIOUS
  <2>2. (n = p \/ n = -p) /\ p \in Int /\ 0 <= p /\ p <= M
    BY <1>7, <1>8
  <2> HIDE DEF p, n, M
  <2>3. -M <= n /\ n <= M
    BY <2>1, <2>2
  <2> QED
    BY <2>3 DEF n, M
<1>10. Imul(a, b, w) = Parts(s * t, N)
  BY <1>3, <1>6, <1>7
<1> QED
  BY <1>7, <1>9, <1>10 DEF s, t

\* CF and OF say that a product does not fit into its lower half.
LEMMA MulFlagsAreExact ==
  ASSUME NEW w \in Widths, NEW N \in Int, NEW H \in Int, NEW h \in Int, Shape(w, N, H, h),
         2^w = N, 2^(w - 1) = H, NEW f, NEW signed \in BOOLEAN, NEW n \in Int,
         IF signed THEN -(H * H) <= n /\ n <= H * H ELSE 0 <= n /\ n < N * N
  PROVE  LET g    == MulFlags(f, signed, Parts(n, N), w)
             wide == n \notin (IF signed THEN SignedRange(w) ELSE Unsigned(w))
         IN  ("carry" \in g <=> wide) /\ ("overflow" \in g <=> wide)
<1> DEFINE hi   == (n \div N) % N
           lo   == n % N
           ext  == IF signed /\ lo >= H THEN N - 1 ELSE 0
           g    == MulFlags(f, signed, Parts(n, N), w)
           wide == n \notin (IF signed THEN SignedRange(w) ELSE Unsigned(w))
<1>1. Parts(n, N) = Halves(hi, lo)
  BY DEF Parts
<1>2. hi \in Int /\ lo \in Int /\ 0 <= lo /\ lo < N
  <2>1. CASE w = 8
    BY <2>1 DEF Shape
  <2>2. CASE w = 16
    BY <2>2 DEF Shape
  <2> QED
    BY <2>1, <2>2 DEF Shape
<1>3. hi = ext <=> IF signed THEN -H <= n /\ n < H ELSE 0 <= n /\ n < N
  <2>1. CASE w = 8
    BY <2>1 DEF Shape
  <2>2. CASE w = 16
    BY <2>2 DEF Shape
  <2> QED
    BY <2>1, <2>2 DEF Shape
<1>4. wide <=> ~ (IF signed THEN -H <= n /\ n < H ELSE 0 <= n /\ n < N)
  BY Ranges
<1> HIDE DEF hi, lo
<1>5. Top(lo, w) = IF lo < H THEN 0 ELSE 1
  <2>1. lo \in Unsigned(w)
    BY <1>2, Ranges
  <2> QED
    BY <2>1, Halved
<1>6. MulFlags(f, signed, Halves(hi, lo), w)
        = Update(f, {"carry", "overflow"}, IF hi = ext THEN {} ELSE {"carry", "overflow"})
  <2>1. Halves(hi, lo).hi = hi /\ Halves(hi, lo).lo = lo
    BY DEF Halves
  <2>2. ext = IF signed /\ Top(lo, w) = 1 THEN 2^w - 1 ELSE 0
    BY <1>2, <1>5
  <2> HIDE DEF ext
  <2> QED
    BY <2>1, <2>2, Zenon DEF MulFlags
<1> HIDE DEF ext
<1>7. g = Update(f, {"carry", "overflow"}, IF hi = ext THEN {} ELSE {"carry", "overflow"})
  BY <1>1, <1>6
<1> HIDE DEF g, wide
<1>8. ("carry" \in g <=> hi # ext) /\ ("overflow" \in g <=> hi # ext)
  BY <1>7 DEF Update
<1> QED
  BY <1>3, <1>4, <1>8 DEF g, wide

\* q and r are the quotient and the remainder of two numbers, none negative.
Divided(q, r, n, by) == q \in Int /\ r \in Int /\ 0 <= q /\ 0 <= r /\ r < by /\ q * by + r = n

LEMMA DividedIs ==
  \A a \in Nat, by \in Nat \ {0} : Divided(a \div by, a % by, a, by)
<1> TAKE a \in Nat, by \in Nat \ {0}
<1>1. a = by * (a \div by) + (a % by) /\ a \div by \in Int /\ a % by \in 0 .. by - 1
  BY DivMod
<1> DEFINE q == a \div by
           r == a % by
<1>2. q \in Int /\ r \in Int /\ 0 <= r /\ r < by /\ q * by + r = a
  BY <1>1
<1> HIDE DEF q, r
<1>3. 0 <= q
  <2> SUFFICES ASSUME q <= -1 PROVE FALSE
    BY <1>2
  <2>1. q * by <= -by
    <3>1. (q + 1) * by <= 0
      BY <1>2
    <3> QED
      BY <1>2, <3>1
  <2> QED
    BY <1>2, <2>1
<1> QED
  BY <1>2, <1>3 DEF Divided, q, r

\* A division of hi * N + lo in two steps of half a width.
LEMMA DividedByHalves ==
  ASSUME NEW N \in Int, NEW h \in Int, h > 0, N = h * h, NEW by \in Int, 0 < by,
         NEW hi \in Int, 0 <= hi, hi < by, NEW l1 \in Int, NEW l0 \in Int,
         0 <= l1, l1 < h, 0 <= l0, l0 < h,
         NEW q1, NEW r1, NEW q0, NEW r0,
         Divided(q1, r1, h * hi + l1, by), Divided(q0, r0, h * r1 + l0, by)
  PROVE  Divided(h * q1 + q0, r0, hi * N + h * l1 + l0, by) /\ h * q1 + q0 < N
<1>1. /\ q1 \in Int /\ r1 \in Int /\ q0 \in Int /\ r0 \in Int
      /\ 0 <= q1 /\ 0 <= q0 /\ 0 <= r0 /\ r0 < by
      /\ q1 * by + r1 = h * hi + l1 /\ q0 * by + r0 = h * r1 + l0
  BY DEF Divided
<1> DEFINE q == h * q1 + q0
           n == hi * N + h * l1 + l0
<1>2. q \in Int /\ n \in Int /\ h * q1 \in Int /\ 0 <= h * q1
  BY <1>1
<1>3. q * by + r0 = n
  <2>1. q * by = h * (q1 * by) + q0 * by
    BY <1>1
  <2>2. h * (q1 * by) = h * (h * hi + l1 - r1)
    <3>1. q1 * by = h * hi + l1 - r1
      BY <1>1
    <3> QED
      BY <3>1
  <2>3. h * (h * hi + l1 - r1) = hi * N + h * l1 - h * r1
    BY <1>1
  <2>4. hi * N \in Int /\ h * l1 \in Int /\ h * r1 \in Int /\ h * (q1 * by) \in Int /\ q0 * by \in Int
    BY <1>1
  <2> QED
    BY <1>1, <2>1, <2>2, <2>3, <2>4
<1>4. n < by * N
  <2>1. hi * N <= (by - 1) * N
    <3>1. hi <= by - 1 /\ N >= 0
      OBVIOUS
    <3> QED
      BY <3>1
  <2>2. h * l1 + l0 < N
    <3>1. h * l1 <= h * (h - 1)
      OBVIOUS
    <3>2. h * (h - 1) = N - h
      OBVIOUS
    <3>3. h * l1 \in Int
      OBVIOUS
    <3> QED
      BY <3>1, <3>2, <3>3
  <2>3. (by - 1) * N = by * N - N
    OBVIOUS
  <2>4. hi * N \in Int /\ h * l1 \in Int /\ by * N \in Int
    OBVIOUS
  <2> QED
    BY <2>1, <2>2, <2>3, <2>4
<1>5. 0 <= q
  BY <1>1, <1>2
<1> HIDE DEF q, n
<1>6. q < N
  <2> SUFFICES ASSUME N <= q PROVE FALSE
    BY <1>2
  <2>1. N * by <= q * by
    BY <1>2
  <2>2. N * by \in Int /\ q * by \in Int /\ by * N = N * by
    BY <1>2
  <2> QED
    BY <1>1, <1>2, <1>3, <1>4, <2>1, <2>2
<1> QED
  BY <1>1, <1>2, <1>3, <1>5, <1>6 DEF Divided, q, n

\* DIV traps exactly when the quotient is too wide, and else yields the quotient and the
\* remainder.
Quotient(result, hi, lo, by, N) ==
  /\ result.trap <=> (by = 0 \/ hi >= by)
  /\ ~ result.trap => /\ Divided(result.quotient, result.remainder, hi * N + lo, by)
                      /\ result.quotient < N

LEMMA DivIsExact ==
  ASSUME NEW w \in Widths, NEW N \in Int, NEW H \in Int, NEW h \in Int, Shape(w, N, H, h),
         2^(w \div 2) = h, NEW hi \in Int, NEW lo \in Int, NEW by \in Int,
         0 <= hi, 0 <= lo, lo < N, 0 <= by
  PROVE  Quotient(Div(Halves(hi, lo), by, w), hi, lo, by, N)
<1> DEFINE first  == h * hi + lo \div h
           second == h * (first % by) + (lo % h)
           result == Div(Halves(hi, lo), by, w)
<1>1. CASE by = 0 \/ hi >= by
  <2>1. result = Trap
    BY <1>1 DEF Div, Halves
  <2>2. result.trap
    BY <2>1 DEF Trap
  <2> HIDE DEF result
  <2> QED
    BY <1>1, <2>2 DEF Quotient, result
<1>2. CASE ~ (by = 0 \/ hi >= by)
  <2>1. result = [ trap |-> FALSE, quotient |-> h * (first \div by) + second \div by,
                   remainder |-> second % by ]
    BY <1>2, Zenon DEF Div, Halves
  <2> DEFINE l1 == lo \div h
             l0 == lo % h
             q1 == first \div by
             r1 == first % by
             q0 == second \div by
             r0 == second % by
  <2>2. /\ h > 0 /\ N = h * h /\ l1 \in Int /\ l0 \in Int /\ 0 <= l1 /\ l1 < h /\ 0 <= l0 /\ l0 < h
        /\ h * l1 + l0 = lo
    <3>1. CASE w = 8
      BY <3>1 DEF Shape
    <3>2. CASE w = 16
      BY <3>2 DEF Shape
    <3> QED
      BY <3>1, <3>2 DEF Shape
  <2>3. first = h * hi + l1 /\ second = h * r1 + l0
    OBVIOUS
  <2> HIDE DEF l1, l0
  <2>4. first \in Nat /\ by \in Nat \ {0} /\ hi < by
    <3>1. h * hi \in Int /\ 0 <= h * hi
      BY <2>2
    <3>2. first \in Int /\ 0 <= first
      BY <2>2, <2>3, <3>1
    <3> HIDE DEF first
    <3> QED
      BY <1>2, <3>2
  <2> HIDE DEF first
  <2>5. Divided(q1, r1, first, by)
    BY <2>4, DividedIs
  <2> HIDE DEF q1, r1
  <2>6. second \in Nat
    <3>1. h * r1 \in Int /\ 0 <= h * r1
      BY <2>2, <2>5 DEF Divided
    <3>2. second \in Int /\ 0 <= second
      BY <2>2, <2>3, <3>1
    <3> HIDE DEF second
    <3> QED
      BY <3>2
  <2> HIDE DEF second
  <2>7. Divided(q0, r0, second, by)
    BY <2>4, <2>6, DividedIs
  <2> HIDE DEF q0, r0
  <2>8. Divided(h * q1 + q0, r0, hi * N + h * l1 + l0, by) /\ h * q1 + q0 < N
    <3>1. Divided(q1, r1, h * hi + l1, by)
      BY <2>3, <2>5, Zenon
    <3>2. Divided(q0, r0, h * r1 + l0, by)
      BY <2>3, <2>7, Zenon
    <3>3. 0 < by
      BY <2>4
    <3> QED
      BY <2>2, <2>4, <3>1, <3>2, <3>3, DividedByHalves
  <2>9. hi * N + h * l1 + l0 = hi * N + lo
    <3>1. hi * N \in Int /\ h * l1 \in Int
      BY <2>2
    <3> QED
      BY <2>2, <3>1
  <2> HIDE DEF result
  <2>10. ~ result.trap /\ result.quotient = h * q1 + q0 /\ result.remainder = r0
    BY <2>1 DEF q1, q0, r0
  <2> QED
    BY <1>2, <2>8, <2>9, <2>10 DEF Quotient, result
<1> QED
  BY <1>1, <1>2

\* Whether a quotient is too large shows in the dividend.
LEMMA QuotientFits ==
  ASSUME NEW N \in Int, NEW L \in Int, 0 <= L, L + 1 < N, NEW size \in Int, 0 < size,
         NEW hi \in Int, NEW lo \in Int, 0 <= lo
  PROVE  /\ size <= hi => hi * N + lo > L * size + size - 1
         /\ \A q, r : Divided(q, r, hi * N + lo, size) => (q <= L <=> hi * N + lo <= L * size + size - 1)
<1> DEFINE n == hi * N + lo
           p == L * size
<1>1. n \in Int /\ p \in Int /\ (L + 1) * size = p + size
  OBVIOUS
<1>2. ASSUME size <= hi PROVE n > p + size - 1
  <2>1. size * N <= hi * N
    BY <1>2
  <2>2. (L + 1) * size <= size * N
    OBVIOUS
  <2>3. size * N \in Int /\ hi * N \in Int
    OBVIOUS
  <2> HIDE DEF p
  <2> QED
    BY <1>1, <2>1, <2>2, <2>3
<1>3. ASSUME NEW q, NEW r, Divided(q, r, n, size) PROVE q <= L <=> n <= p + size - 1
  <2>1. q \in Int /\ r \in Int /\ 0 <= r /\ r < size /\ q * size + r = n
    BY <1>3 DEF Divided
  <2>2. CASE q <= L
    <3>1. q * size <= p /\ q * size \in Int
      BY <2>1, <2>2
    <3> HIDE DEF n, p
    <3> QED
      BY <1>1, <2>1, <2>2, <3>1
  <2>3. CASE q >= L + 1
    <3>1. q * size >= (L + 1) * size /\ q * size \in Int
      BY <2>1, <2>3
    <3> HIDE DEF n, p
    <3> QED
      BY <1>1, <2>1, <2>3, <3>1
  <2> QED
    BY <2>1, <2>2, <2>3
<1> QED
  BY <1>2, <1>3

\* A signed number survives being kept in the bits of its width.
LEMMA SignedAgain ==
  ASSUME NEW w \in Widths, NEW N \in Int, NEW H \in Int, NEW h \in Int, Shape(w, N, H, h),
         2^w = N, 2^(w - 1) = H, NEW k \in Int, -H <= k, k < H
  PROVE  Truncate(k, w) \in Unsigned(w) /\ Signed(Truncate(k, w), w) = k
<1> DEFINE v == Truncate(k, w)
<1>1. N = H + H /\ H > 0
  BY DEF Shape
<1>2. -N <= k /\ k < N + N
  BY <1>1
<1>3. v = (IF k < 0 THEN k + N ELSE k) /\ v \in Unsigned(w)
  BY <1>1, <1>2, Passes
<1> HIDE DEF v
<1>4. Signed(v, w) = IF v < H THEN v ELSE v - N
  BY <1>3, SignAndMagnitude
<1> QED
  BY <1>1, <1>3, <1>4 DEF v

\* q and r are the quotient, truncated towards zero, and the remainder of n by s.
SignedDivided(q, r, n, s) ==
  /\ q * s + r = n
  /\ (IF r < 0 THEN -r ELSE r) < (IF s < 0 THEN -s ELSE s)
  /\ r # 0 => ((r < 0) = (n < 0))

Magnitudes(n, s, m, size) ==
  /\ n \in Int /\ s \in Int /\ m = (IF n < 0 THEN -n ELSE n) /\ size = (IF s < 0 THEN -s ELSE s)

LEMMA SignsOfDivision ==
  ASSUME NEW n, NEW s, NEW m, NEW size, Magnitudes(n, s, m, size),
         NEW Q, NEW R, Divided(Q, R, m, size)
  PROVE  SignedDivided(IF (n < 0) # (s < 0) THEN -Q ELSE Q, IF n < 0 THEN -R ELSE R, n, s)
<1> USE DEF Magnitudes, Divided
<1>1. CASE n < 0 /\ s < 0
  <2>1. Q * s = -(Q * size) /\ Q * size \in Int
    BY <1>1
  <2> QED
    BY <1>1, <2>1 DEF SignedDivided
<1>2. CASE n < 0 /\ ~ (s < 0)
  <2>1. (-Q) * s = -(Q * size) /\ Q * size \in Int
    BY <1>2
  <2> QED
    BY <1>2, <2>1 DEF SignedDivided
<1>3. CASE ~ (n < 0) /\ s < 0
  <2>1. (-Q) * s = Q * size /\ Q * size \in Int
    BY <1>3
  <2> QED
    BY <1>3, <2>1 DEF SignedDivided
<1>4. CASE ~ (n < 0) /\ ~ (s < 0)
  <2>1. Q * s = Q * size /\ Q * size \in Int
    BY <1>4
  <2> QED
    BY <1>4, <2>1 DEF SignedDivided
<1> QED
  BY <1>1, <1>2, <1>3, <1>4

\* A dividend's two halves, as a signed number, and its magnitude.
LEMMA Magnitude2Is ==
  ASSUME NEW w \in Widths, NEW N \in Int, NEW H \in Int, NEW h \in Int, Shape(w, N, H, h),
         2^w = N, 2^(w - 1) = H, NEW hi \in Unsigned(w), NEW lo \in Unsigned(w),
         NEW n, n = Signed(hi, w) * N + lo
  PROVE  /\ n \in Int /\ -(H * N) <= n /\ n < H * N /\ (Top(hi, w) = IF n < 0 THEN 1 ELSE 0)
         /\ Magnitude2(Halves(hi, lo), w) = Parts(IF n < 0 THEN -n ELSE n, N)
<1> DEFINE x == Signed(hi, w)
<1>1. /\ hi \in Int /\ 0 <= hi /\ hi < N /\ x \in Int /\ -H <= x /\ x < H
      /\ x = (IF hi < H THEN hi ELSE hi - N)
      /\ Top(hi, w) = IF x < 0 THEN 1 ELSE 0
  BY SignAndMagnitude
<1>2. lo \in Int /\ 0 <= lo /\ lo < N
  BY SignAndMagnitude
<1> HIDE DEF x
<1>3. /\ n = N * x + lo /\ n \in Int /\ -(H * N) <= n /\ n < H * N
      /\ x % N = hi /\ (n < 0 <=> x < 0)
  <2>0. n = x * N + lo
    BY DEF x
  <2>1. CASE w = 8
    BY <1>1, <1>2, <2>0, <2>1 DEF Shape
  <2>2. CASE w = 16
    BY <1>1, <1>2, <2>0, <2>2 DEF Shape
  <2> QED
    BY <2>1, <2>2 DEF Shape
<1>4. Halves(hi, lo) = Parts(n, N)
  <2>1. N \in Sizes
    BY DEF Shape, Sizes
  <2>2. ASSUME NEW k \in Int, NEW l \in Int, 0 <= l, l < N
        PROVE  Parts(N * k + l, N) = Halves(k % N, l)
    BY <2>1, <2>2, PartsOf, Zenon
  <2>3. Parts(N * x + lo, N) = Halves(x % N, lo)
    BY <1>1, <1>2, <2>2
  <2> QED
    BY <1>3, <2>3, Zenon
<1>5. Negated(Halves(hi, lo), w) = Parts(-n, N)
  BY <1>3, <1>4, NegatedIsExact
<1>6. Halves(hi, lo).hi = hi
  BY DEF Halves
<1>7. Magnitude2(Halves(hi, lo), w) = IF Top(hi, w) = 1 THEN Parts(-n, N) ELSE Parts(n, N)
  BY <1>4, <1>5, <1>6 DEF Magnitude2
<1>8. Top(hi, w) = IF n < 0 THEN 1 ELSE 0
  BY <1>1, <1>3
<1> QED
  BY <1>3, <1>7, <1>8

\* The dividends that have a quotient of the width.
Fits(n, s, size, H) ==
  LET least == H * size + size - 1
      most  == (H - 1) * size + size - 1
  IN  n \in (IF s > 0 THEN -least .. most ELSE -most .. least)

SignedQuotient(result, n, s, w, H) ==
  LET size == IF s < 0 THEN -s ELSE s
  IN  /\ result.trap <=> (s = 0 \/ ~ Fits(n, s, size, H))
      /\ ~ result.trap =>
           /\ result.quotient \in Unsigned(w) /\ result.remainder \in Unsigned(w)
           /\ SignedDivided(Signed(result.quotient, w), Signed(result.remainder, w), n, s)

LEMMA FitsIs ==
  ASSUME NEW n \in Int, NEW s \in Int, NEW m, NEW size, Magnitudes(n, s, m, size), s # 0,
         NEW H \in Int, 0 < H
  PROVE  LET L == IF (n < 0) # (s < 0) THEN H ELSE H - 1
         IN  Fits(n, s, size, H) <=> m <= L * size + size - 1
<1> DEFINE a == H * size
           b == (H - 1) * size
           L == IF (n < 0) # (s < 0) THEN H ELSE H - 1
<1>1. size \in Int /\ 0 < size /\ m \in Int /\ 0 <= m
  BY DEF Magnitudes
<1>2. a \in Int /\ b \in Int /\ 0 <= a /\ 0 <= b
  BY <1>1
<1>3. Fits(n, s, size, H) <=> n \in (IF s > 0 THEN -(a + size - 1) .. b + size - 1
                                             ELSE -(b + size - 1) .. a + size - 1)
  BY DEF Fits
<1>4. L * size = IF (n < 0) # (s < 0) THEN a ELSE b
  OBVIOUS
<1> HIDE DEF a, b, L
<1>5. Fits(n, s, size, H) <=> m <= (IF (n < 0) # (s < 0) THEN a ELSE b) + size - 1
  BY <1>1, <1>2, <1>3 DEF Magnitudes
<1> QED
  BY <1>4, <1>5 DEF L

\* IDIV traps exactly when the quotient is not a signed number of the width, and else
\* yields the quotient and the remainder.
LEMMA IdivIsExact ==
  ASSUME NEW w \in Widths, NEW N \in Int, NEW H \in Int, NEW h \in Int, Shape(w, N, H, h),
         2^w = N, 2^(w - 1) = H, 2^(w \div 2) = h,
         NEW hi \in Unsigned(w), NEW lo \in Unsigned(w), NEW by \in Unsigned(w)
  PROVE  SignedQuotient(Idiv(Halves(hi, lo), by, w), Signed(hi, w) * N + lo, Signed(by, w), w, H)
<1> DEFINE n == Signed(hi, w) * N + lo
           s == Signed(by, w)
           m == IF n < 0 THEN -n ELSE n
           size == IF s < 0 THEN -s ELSE s
           mh == (m \div N) % N
           ml == m % N
           plain == Div(Halves(mh, ml), size, w)
           result == Idiv(Halves(hi, lo), by, w)
           negative == Top(hi, w) # Top(by, w)
           L == IF negative THEN H ELSE H - 1
<1>1. /\ n \in Int /\ -(H * N) <= n /\ n < H * N /\ (Top(hi, w) = IF n < 0 THEN 1 ELSE 0)
      /\ Magnitude2(Halves(hi, lo), w) = Halves(mh, ml)
  BY Magnitude2Is DEF Parts
<1>2. /\ s \in Int /\ -H <= s /\ s < H /\ Top(by, w) = (IF s < 0 THEN 1 ELSE 0)
      /\ Magnitude(by, w) = size
  BY SignAndMagnitude
<1>3. result = IF plain.trap \/ plain.quotient > L THEN Trap
               ELSE [ trap |-> FALSE,
                      quotient  |-> Truncate(IF negative THEN -plain.quotient ELSE plain.quotient, w),
                      remainder |-> Truncate(IF Top(hi, w) = 1 THEN -plain.remainder
                                                                ELSE plain.remainder, w) ]
  <2> DEFINE d == Halves(hi, lo)
  <2>1. d.hi = hi
    BY DEF Halves
  <2>2. Div(Magnitude2(d, w), Magnitude(by, w), w) = plain
    BY <1>1, <1>2
  <2> HIDE DEF d, plain
  <2>3. 2^(w - 1) = H
    OBVIOUS
  <2> QED
    BY <2>1, <2>2, <2>3, Zenon DEF Idiv, d
<1> HIDE DEF result, n, s
<1>4. Magnitudes(n, s, m, size)
  BY <1>1, <1>2 DEF Magnitudes
<1>5. (negative <=> ((n < 0) # (s < 0))) /\ (Top(hi, w) = 1 <=> n < 0)
  BY <1>1, <1>2
<1>6. m \in Int /\ 0 <= m /\ m <= H * N /\ size \in Int /\ 0 <= size /\ size <= H
  <2>1. H * N \in Int
    OBVIOUS
  <2> QED
    BY <1>1, <1>2, <2>1
<1> HIDE DEF m, size
<1>7. /\ mh \in Int /\ ml \in Int /\ 0 <= mh /\ 0 <= ml /\ ml < N /\ mh * N + ml = m
  <2>1. CASE w = 8
    BY <1>6, <2>1 DEF Shape
  <2>2. CASE w = 16
    BY <1>6, <2>2 DEF Shape
  <2> QED
    BY <2>1, <2>2 DEF Shape
<1> HIDE DEF mh, ml
<1>8. Quotient(plain, mh, ml, size, N)
  BY <1>6, <1>7, DivIsExact
<1> HIDE DEF plain
<1>9. /\ L \in Int /\ 0 <= L /\ L + 1 < N /\ 0 < H /\ H - 1 <= L /\ L <= H /\ (~ negative => L = H - 1)
  <2>1. N = H + H /\ 1 < H
    BY DEF Shape
  <2> QED
    BY <2>1
<1> HIDE DEF negative
<1>10. size > 0 => (Fits(n, s, size, H) <=> m <= L * size + size - 1)
  <2> SUFFICES ASSUME size > 0 PROVE Fits(n, s, size, H) <=> m <= L * size + size - 1
    OBVIOUS
  <2>1. s # 0
    BY <1>4 DEF Magnitudes
  <2>2. L = IF (n < 0) # (s < 0) THEN H ELSE H - 1
    BY <1>5
  <2> HIDE DEF L
  <2> QED
    BY <1>1, <1>2, <1>4, <1>9, <2>1, <2>2, FitsIs
<1> HIDE DEF L
<1>11. /\ result.trap <=> (plain.trap \/ plain.quotient > L)
       /\ ~ result.trap =>
            /\ result.quotient = Truncate(IF negative THEN -plain.quotient ELSE plain.quotient, w)
            /\ result.remainder = Truncate(IF n < 0 THEN -plain.remainder ELSE plain.remainder, w)
  <2>1. CASE plain.trap \/ plain.quotient > L
    BY <1>3, <2>1 DEF Trap
  <2>2. CASE ~ (plain.trap \/ plain.quotient > L)
    BY <1>3, <1>5, <2>2
  <2> QED
    BY <2>1, <2>2
<1>12. result.trap <=> (s = 0 \/ ~ Fits(n, s, size, H))
  <2>1. s = 0 <=> size = 0
    BY <1>4 DEF Magnitudes
  <2>2. CASE size = 0
    BY <1>8, <1>11, <2>1, <2>2 DEF Quotient
  <2>3. CASE size > 0 /\ size <= mh
    <3>1. m > L * size + size - 1
      BY <1>6, <1>7, <1>9, <2>3, QuotientFits
    <3>2. ~ (m <= L * size + size - 1)
      <4>1. L * size \in Int
        BY <1>6, <1>9
      <4> QED
        BY <1>6, <3>1, <4>1
    <3> QED
      BY <1>8, <1>10, <1>11, <2>1, <2>3, <3>2 DEF Quotient
  <2>4. CASE size > 0 /\ ~ (size <= mh)
    <3>1. ~ plain.trap /\ Divided(plain.quotient, plain.remainder, m, size)
      BY <1>6, <1>7, <1>8, <2>4 DEF Quotient
    <3>2. plain.quotient <= L <=> m <= L * size + size - 1
      BY <1>6, <1>7, <1>9, <2>4, <3>1, QuotientFits
    <3>3. plain.quotient > L <=> ~ (plain.quotient <= L)
      BY <1>9, <3>1 DEF Divided
    <3>4. s # 0
      BY <2>1, <2>4
    <3> QED
      BY <1>10, <1>11, <2>4, <3>1, <3>2, <3>3, <3>4, Zenon
  <2> QED
    BY <1>6, <2>2, <2>3, <2>4
<1>13. ASSUME ~ result.trap
       PROVE  /\ result.quotient \in Unsigned(w) /\ result.remainder \in Unsigned(w)
              /\ SignedDivided(Signed(result.quotient, w), Signed(result.remainder, w), n, s)
  <2> DEFINE Q == plain.quotient
             R == plain.remainder
             q == IF negative THEN -Q ELSE Q
             r == IF n < 0 THEN -R ELSE R
  <2>1. ~ plain.trap /\ Divided(Q, R, m, size) /\ ~ (Q > L)
    BY <1>7, <1>8, <1>11, <1>13 DEF Quotient
  <2>2. Q \in Int /\ 0 <= Q /\ Q <= L /\ R \in Int /\ 0 <= R /\ R < size
    BY <1>9, <2>1 DEF Divided
  <2>3. result.quotient = Truncate(q, w) /\ result.remainder = Truncate(r, w)
    BY <1>11, <1>13
  <2>4. SignedDivided(IF (n < 0) # (s < 0) THEN -Q ELSE Q, r, n, s)
    BY <1>4, <2>1, SignsOfDivision
  <2>5. SignedDivided(q, r, n, s)
    BY <1>5, <2>4
  <2> HIDE DEF Q, R
  <2>6. q \in Int /\ -H <= q /\ q < H /\ r \in Int /\ -H <= r /\ r < H
    BY <1>1, <1>6, <1>9, <2>2
  <2> HIDE DEF q, r
  <2> QED
    BY <2>3, <2>5, <2>6, SignedAgain
<1> QED
  BY <1>12, <1>13, Zenon DEF SignedQuotient, result, n, s, size

\* A CPU that holds words in its registers.
Worded(c) == CpuShape(c) /\ c.reg \in [ AX .. DI -> Word ]

LEMMA WideIs ==
  ASSUME NEW c, Worded(c), NEW w \in Widths
  PROVE  \E hi \in Unsigned(w), lo \in Unsigned(w) : Wide(c, w) = Halves(hi, lo)
<1> DEFINE x == c.reg[AX]
           y == c.reg[DX]
<1>1. x \in Int /\ 0 <= x /\ x < 65536 /\ y \in Int /\ 0 <= y /\ y < 65536
  <2>1. AX \in AX .. DI /\ DX \in AX .. DI
    BY DEF AX, DX, DI
  <2>2. x \in Word /\ y \in Word
    BY <2>1 DEF Worded
  <2> HIDE DEF x, y
  <2> QED
    BY <2>2, WordBounds, WordsAreIntegers
<1>2. CASE w = 8
  <2>1. Wide(c, w) = Halves(HighByte(x), LowByte(x))
    BY <1>2 DEF Wide
  <2> HIDE DEF x
  <2>2. HighByte(x) \in Unsigned(w) /\ LowByte(x) \in Unsigned(w)
    BY <1>1, <1>2, Powers DEF Unsigned, HighByte, LowByte
  <2> QED
    BY <2>1, <2>2
<1>3. CASE w = 16
  <2>1. Wide(c, w) = Halves(y, x)
    BY <1>3 DEF Wide
  <2> HIDE DEF x, y
  <2>2. y \in Unsigned(w) /\ x \in Unsigned(w)
    BY <1>1, <1>3, Powers DEF Unsigned
  <2> QED
    BY <2>1, <2>2
<1> QED
  BY <1>2, <1>3 DEF Widths

\* The halves that are stored are those that are there, and SP stays.
LEMMA SetWideIs ==
  ASSUME NEW c, Worded(c), NEW w \in Widths, NEW hi \in Unsigned(w), NEW lo \in Unsigned(w)
  PROVE  LET e == SetWide(c, Halves(hi, lo), w)
         IN  CpuShape(e) /\ Wide(e, w) = Halves(hi, lo) /\ e.flags = c.flags /\ e.reg[SP] = c.reg[SP]
<1> DEFINE e == SetWide(c, Halves(hi, lo), w)
           v == IF w = 8 THEN 256 * hi + lo ELSE lo
           u == IF w = 8 THEN c.reg ELSE [ c.reg EXCEPT ![DX] = hi ]
           d == IF w = 8 THEN c ELSE SetRegister(c, DX, hi)
<1>1. /\ DOMAIN c.reg = AX .. DI /\ AX \in AX .. DI /\ DX \in AX .. DI /\ SP \in AX .. DI
      /\ AX # DX /\ AX # SP /\ DX # SP
  BY DEF Worded, AX, DX, SP, DI
<1>2. e = SetRegister(d, AX, v)
  BY DEF SetWide, Halves
<1>3. Has(d, u, c.seg, c.ip, c.flags, c.bus)
  <2>1. Has(c, c.reg, c.seg, c.ip, c.flags, c.bus)
    BY DEF Worded, Has
  <2>2. Has(SetRegister(c, DX, hi), [ c.reg EXCEPT ![DX] = hi ], c.seg, c.ip, c.flags, c.bus)
    BY Effects DEF Worded
  <2> QED
    BY <2>1, <2>2
<1>4. DOMAIN u = AX .. DI /\ u[SP] = c.reg[SP] /\ (w # 8 => u[DX] = hi)
  BY <1>1
<1> HIDE DEF d, e, v, u
<1>5. Has(e, [ u EXCEPT ![AX] = v ], c.seg, c.ip, c.flags, c.bus)
  <2>1. /\ CpuShape(d) /\ d.reg = u /\ d.seg = c.seg /\ d.ip = c.ip /\ d.flags = c.flags
        /\ d.bus = c.bus
    BY <1>3 DEF Has
  <2>2. Has(SetRegister(d, AX, v), [ d.reg EXCEPT ![AX] = v ], d.seg, d.ip, d.flags, d.bus)
    BY <2>1, Effects
  <2> QED
    BY <1>2, <2>1, <2>2
<1>6. /\ e.reg[AX] = v /\ e.reg[SP] = c.reg[SP] /\ (w # 8 => e.reg[DX] = hi) /\ e.flags = c.flags
      /\ CpuShape(e)
  BY <1>1, <1>4, <1>5 DEF Has
<1>7. Wide(e, w) = Halves(hi, lo)
  <2>1. CASE w = 8
    <3>1. v = 256 * hi + lo /\ hi \in 0 .. 255 /\ lo \in 0 .. 255
      BY <2>1, Powers DEF v, Unsigned
    <3>2. HighByte(v) = hi /\ LowByte(v) = lo
      BY <3>1 DEF HighByte, LowByte
    <3> QED
      BY <1>6, <2>1, <3>2 DEF Wide
  <2>2. CASE w = 16
    BY <1>6, <2>2 DEF Wide, v
  <2> QED
    BY <2>1, <2>2 DEF Widths
<1> QED
  BY <1>6, <1>7 DEF e

\* What is executed of a multiplication or a division by BX or BL.
ByB(group) ==
  Judged /\ Plain /\ opcode \in Group3 /\ ModrmRm = BX /\ ModrmMode = 3 /\ ModrmReg \in group

LEMMA Group3Is ==
  ASSUME Placed, Stepping, ByB({4, 5, 6, 7})
  PROVE  LET w == Width(opcode)
         IN  \E n :
               /\ Resumes(n) /\ w \in Widths /\ Value(n, Accumulator, w) = A(w)
               /\ A(w) \in Unsigned(w) /\ B(w) \in Unsigned(w) /\ Wide(n, w) = Wide(Before, w)
               /\ ModrmReg \in {4, 5} => (cpu = Multiply(n, B(w), ModrmReg = 5, w))
               /\ ModrmReg \in {6, 7} => (cpu = Divide(n, B(w), ModrmReg = 7, w))
<1> DEFINE w == Width(opcode)
           m == DecodeModrm(AtModrm, override)
           n == m.after
<1>1. Running /\ opcode \in Entries /\ opcode \in {\hF6, \hF7} /\ w \in Widths
  BY DEF ByB, Judged, Running, Entries, Group3, Width, Widths
<1>2. cpu = ExecuteGroup3(AtModrm, opcode, override)
  BY <1>1, EntryIs DEF ByB
<1>3. Resumes(n)
  BY <1>1, AfterOperand
<1>4. m.reg = ModrmReg /\ m.rm = Register(BX)
  <2>1. Immediate(AtModrm, 8) = Modrm
    BY <1>1, AtModrmFields
  <2>2. m = [ reg |-> ModrmReg, rm |-> Register(ModrmRm), after |-> Past(AtModrm, 8) ]
    BY <2>1, RegisterModrm DEF ByB, ModrmMode, ModrmReg, ModrmRm
  <2> QED
    BY <2>2 DEF ByB
<1> HIDE DEF m, w
<1>5. n.reg = Before.reg /\ CpuShape(Before) /\ Before.reg \in [ AX .. DI -> Word ]
  BY <1>1, <1>3, AtModrmFields, BeforeFields DEF Resumes
<1>6. Value(n, Register(AX), w) = A(w) /\ Value(n, Register(BX), w) = B(w)
  BY <1>1, <1>5 DEF Value, Register, Widths, A, B
<1>7. Wide(n, w) = Wide(Before, w)
  BY <1>5 DEF Wide
<1>8. A(w) \in Unsigned(w) /\ B(w) \in Unsigned(w)
  <2>1. AX \in 0 .. 3 /\ BX \in 0 .. 3
    BY DEF AX, BX
  <2> QED
    BY <1>1, <1>5, <2>1, RegisterValue DEF A, B
<1>9. /\ ModrmReg \in {4, 5} => (cpu = Multiply(n, B(w), ModrmReg = 5, w))
      /\ ModrmReg \in {6, 7} => (cpu = Divide(n, B(w), ModrmReg = 7, w))
  BY <1>2, <1>4, <1>6 DEF ExecuteGroup3, m, w
<1>10. Value(n, Accumulator, w) = A(w)
  BY <1>6 DEF Accumulator
<1> HIDE DEF n
<1> QED
  BY <1>1, <1>3, <1>7, <1>8, <1>9, <1>10 DEF w

LEMMA PartsTyped ==
  ASSUME NEW w \in Widths, NEW N \in Int, 2^w = N, NEW n \in Int
  PROVE  /\ (n \div N) % N \in Unsigned(w) /\ n % N \in Unsigned(w)
         /\ Parts(n, N) = Halves((n \div N) % N, n % N)
<1>1. N \in Nat \ {0} /\ Unsigned(w) = 0 .. N - 1
  BY Half DEF Unsigned
<1>2. n \div N \in Int /\ n % N \in 0 .. N - 1
  BY <1>1, DivMod
<1>3. (n \div N) % N \in 0 .. N - 1
  BY <1>1, <1>2, DivMod
<1> QED
  BY <1>1, <1>2, <1>3, Zenon DEF Parts

\* The product of a and b is in its place.
Multiplied(a, b, w, signed) ==
  LET wide == a * b \notin (IF signed THEN SignedRange(w) ELSE Unsigned(w))
  IN  /\ Wide(cpu, w) = Halves(((a * b) \div 2^w) % 2^w, (a * b) % 2^w)
      /\ Shows("carry", wide) /\ Shows("overflow", wide)

\* The law of products for every pair of operands, also those whose product the model
\* checker's integers do not hold.
ProductsInFull ==
  ByB({4, 5}) =>
    LET w      == Width(opcode)
        signed == ModrmReg = 5
    IN  Multiplied(IF signed THEN Signed(A(w), w) ELSE A(w),
                   IF signed THEN Signed(B(w), w) ELSE B(w), w, signed)

LEMMA ProductsFromFull == ProductsInFull => ProductsAreExact
  BY SMTT(30) DEF ProductsAreExact, ProductsInFull, ByB, Multiplied

LEMMA PlainProductsAreExact ==
  ASSUME Placed, Stepping
  PROVE  ProductsInFull
<1> DEFINE w      == Width(opcode)
           signed == ModrmReg = 5
           a      == IF signed THEN Signed(A(w), w) ELSE A(w)
           b      == IF signed THEN Signed(B(w), w) ELSE B(w)
           wide   == a * b \notin (IF signed THEN SignedRange(w) ELSE Unsigned(w))
<1> SUFFICES ASSUME ByB({4, 5}) PROVE Multiplied(a, b, w, signed)
  BY DEF ProductsInFull
<1>1. PICK n : /\ Resumes(n) /\ w \in Widths /\ Value(n, Accumulator, w) = A(w)
               /\ A(w) \in Unsigned(w) /\ B(w) \in Unsigned(w) /\ cpu = Multiply(n, B(w), signed, w)
  <2>1. ByB({4, 5, 6, 7}) /\ ModrmReg \in {4, 5}
    BY DEF ByB
  <2> HIDE DEF w
  <2> QED
    BY <2>1, Group3Is DEF w
<1>2. PICK N, H, h \in Int : Shape(w, N, H, h) /\ 2^w = N /\ 2^(w - 1) = H /\ 2^(w \div 2) = h
  BY <1>1, Shapes
<1> DEFINE product == IF signed THEN Imul(A(w), B(w), w) ELSE Mul(A(w), B(w), w)
           p       == a * b
<1>3. /\ p \in Int /\ product = Parts(p, N)
      /\ IF signed THEN -(H * H) <= p /\ p <= H * H ELSE 0 <= p /\ p < N * N
  <2> HIDE DEF w
  <2>1. CASE signed
    BY <1>1, <1>2, <2>1, ImulIsExact
  <2>2. CASE ~ signed
    <3> DEFINE x == A(w)
               y == B(w)
    <3>1. x \in Int /\ 0 <= x /\ x < N /\ y \in Int /\ 0 <= y /\ y < N
      BY <1>1, <1>2, SignAndMagnitude
    <3>2. p = x * y /\ product = Mul(x, y, w)
      BY <2>2
    <3> HIDE DEF x, y, p, product
    <3>3. Mul(x, y, w) = Parts(x * y, N)
      BY <1>1, <1>2, <3>1, MulIsExact
    <3>4. x * y \in Int /\ 0 <= x * y /\ x * y <= (N - 1) * (N - 1)
      BY <3>1, ProductBounds
    <3>5. (N - 1) * (N - 1) < N * N
      <4>1. N > 0
        BY <3>1
      <4> QED
        BY <4>1
    <3>6. (N - 1) * (N - 1) \in Int /\ N * N \in Int
      OBVIOUS
    <3> QED
      BY <2>2, <3>2, <3>3, <3>4, <3>5, <3>6
  <2> QED
    BY <2>1, <2>2
<1>4. (p \div N) % N \in Unsigned(w) /\ p % N \in Unsigned(w) /\ product = Halves((p \div N) % N, p % N)
  <2> HIDE DEF w, p, product
  <2> QED
    BY <1>1, <1>2, <1>3, PartsTyped
<1> DEFINE e == SetWide(n, product, w)
<1>5. CpuShape(e) /\ Wide(e, w) = product
  <2>1. Worded(n)
    BY <1>1 DEF Resumes, Typed, Stacked, Worded
  <2> HIDE DEF w, p, product
  <2> QED
    BY <1>1, <1>4, <2>1, SetWideIs
<1>6. cpu = WithFlags(e, MulFlags(n.flags, signed, product, w))
  BY <1>1 DEF Multiply
<1> HIDE DEF e
<1>7. Wide(cpu, w) = product /\ cpu.flags = MulFlags(n.flags, signed, product, w)
  <2>1. Has(cpu, e.reg, e.seg, e.ip, MulFlags(n.flags, signed, product, w), e.bus)
    BY <1>5, <1>6, Effects
  <2> HIDE DEF product, w
  <2> QED
    BY <1>5, <2>1 DEF Has, Wide
<1>8. ("carry" \in cpu.flags <=> wide) /\ ("overflow" \in cpu.flags <=> wide)
  <2>1. cpu.flags = MulFlags(n.flags, signed, Parts(p, N), w)
    BY <1>3, <1>7
  <2>2. signed \in BOOLEAN
    OBVIOUS
  <2>3. wide <=> p \notin (IF signed THEN SignedRange(w) ELSE Unsigned(w))
    OBVIOUS
  <2> HIDE DEF signed, p, w, product, wide
  <2> QED
    BY <1>1, <1>2, <1>3, <2>1, <2>2, <2>3, MulFlagsAreExact
<1>9. /\ Wide(cpu, w) = Halves((p \div 2^w) % 2^w, p % 2^w)
      /\ Shows("carry", wide) /\ Shows("overflow", wide)
  <2>1. Wide(cpu, w) = Halves((p \div 2^w) % 2^w, p % 2^w)
    BY <1>2, <1>4, <1>7, Zenon
  <2>2. wide \in BOOLEAN
    OBVIOUS
  <2> HIDE DEF wide
  <2> QED
    BY <1>8, <2>1, <2>2 DEF Shows
<1> HIDE DEF a, b, w, signed
<1> QED
  BY <1>9, Zenon DEF Multiplied

\* A quotient that fits is where it belongs, and one that does not has raised #DE.
TrapTaken ==
  /\ cpu.reg = [ Before.reg EXCEPT ![SP] = Wrap(@ - 6) ]
  /\ cpu.ip = ReadMem(cpu, 0, 0, 16)
  /\ cpu.seg[CS] = ReadMem(cpu, 0, 2, 16)

LeavesQuotient(n, by, size, fits, q, r) ==
  LET trapped == cpu.reg[SP] # Before.reg[SP]
  IN  /\ trapped <=> (by = 0 \/ ~ fits)
      /\ ~ trapped => /\ q * by + r = n
                      /\ (IF r < 0 THEN -r ELSE r) < size
                      /\ r # 0 => ((r < 0) = (n < 0))
                      /\ cpu.flags \ Status = Before.flags \ Status
      /\ trapped => TrapTaken

LEMMA DivideTraps ==
  ASSUME NEW n, Resumes(n), n.flags \in Flags, cpu = ServiceInterrupt(n, 0)
  PROVE  TrapTaken /\ cpu.reg[SP] # Before.reg[SP]
<1>1. Typed(n) /\ n.ip \in Word /\ n.reg = Before.reg
  BY DEF Resumes
<1>2. 4 * 0 = 0 /\ 4 * 0 + 2 = 2
  OBVIOUS
<1>3. /\ cpu.reg = [ n.reg EXCEPT ![SP] = Wrap(@ - 6) ] /\ cpu.ip = ReadMem(cpu, 0, 4 * 0, 16)
      /\ cpu.seg = [ n.seg EXCEPT ![CS] = ReadMem(cpu, 0, 4 * 0 + 2, 16) ]
  BY <1>1, InterruptIs
<1>4. CS \in DOMAIN n.seg /\ SP \in DOMAIN n.reg /\ n.reg[SP] \in Word
  BY <1>1, Names DEF Typed
<1>5. cpu.reg[SP] = Wrap(n.reg[SP] - 6)
  BY <1>3, <1>4
<1>6. cpu.seg[CS] = ReadMem(cpu, 0, 2, 16)
  BY <1>2, <1>3, <1>4
<1>7. TrapTaken
  BY <1>1, <1>2, <1>3, <1>6, Zenon DEF TrapTaken
<1>8. \A sp \in Word : Wrap(sp - 6) # sp
  BY WordsAreIntegers, WordBounds, SMT DEF Wrap
<1> QED
  BY <1>1, <1>4, <1>5, <1>7, <1>8

\* The law of quotients for every dividend.
QuotientsInFull ==
  ByB({6, 7}) =>
    LET w      == Width(opcode)
        signed == ModrmReg = 7
        d      == Wide(Before, w)
        n      == (IF signed THEN Signed(d.hi, w) ELSE d.hi) * 2^w + d.lo
        by     == IF signed THEN Signed(B(w), w) ELSE B(w)
        size   == IF by < 0 THEN -by ELSE by
        least  == 2^(w - 1) * size + size - 1
        most   == (2^(w - 1) - 1) * size + size - 1
        fits   == IF signed THEN n \in (IF by > 0 THEN -least .. most ELSE -most .. least)
                  ELSE n \div 2^w < size
    IN  LeavesQuotient(n, by, size, fits,
                       LET lo == Wide(cpu, w).lo IN IF signed THEN Signed(lo, w) ELSE lo,
                       LET hi == Wide(cpu, w).hi IN IF signed THEN Signed(hi, w) ELSE hi)

LEMMA QuotientsFromFull == QuotientsInFull => QuotientsAreExact
  BY SMTT(30) DEF QuotientsAreExact, QuotientsInFull, ByB, LeavesQuotient, TrapTaken

LEMMA PlainQuotientsAreExact ==
  ASSUME Placed, Stepping
  PROVE  QuotientsInFull
<1> DEFINE w      == Width(opcode)
           signed == ModrmReg = 7
           d      == Wide(Before, w)
           n      == (IF signed THEN Signed(d.hi, w) ELSE d.hi) * 2^w + d.lo
           by     == IF signed THEN Signed(B(w), w) ELSE B(w)
           size   == IF by < 0 THEN -by ELSE by
           q      == LET lo == Wide(cpu, w).lo IN IF signed THEN Signed(lo, w) ELSE lo
           r      == LET hi == Wide(cpu, w).hi IN IF signed THEN Signed(hi, w) ELSE hi
           least  == 2^(w - 1) * size + size - 1
           most   == (2^(w - 1) - 1) * size + size - 1
           fits   == IF signed THEN n \in (IF by > 0 THEN -least .. most ELSE -most .. least)
                     ELSE n \div 2^w < size
<1> SUFFICES ASSUME ByB({6, 7}) PROVE LeavesQuotient(n, by, size, fits, q, r)
  BY DEF QuotientsInFull
<1>1. PICK c : /\ Resumes(c) /\ w \in Widths /\ B(w) \in Unsigned(w) /\ Wide(c, w) = Wide(Before, w)
               /\ cpu = Divide(c, B(w), signed, w)
  <2>1. ByB({4, 5, 6, 7}) /\ ModrmReg \in {6, 7}
    BY DEF ByB
  <2> HIDE DEF w
  <2> QED
    BY <2>1, Group3Is DEF w
<1>2. PICK N, H, h \in Int : Shape(w, N, H, h) /\ 2^w = N /\ 2^(w - 1) = H /\ 2^(w \div 2) = h
  BY <1>1, Shapes
<1>3. Worded(c) /\ c.flags = Before.flags /\ c.reg = Before.reg
  BY <1>1 DEF Resumes, Typed, Stacked, Worded
<1>4. c.flags \in Flags
  <2>1. Running
    BY DEF ByB, Judged, Running
  <2> QED
    BY <1>3, <2>1, GoesOn
<1>5. PICK hi \in Unsigned(w), lo \in Unsigned(w) : Wide(c, w) = Halves(hi, lo)
  <2> HIDE DEF w
  <2> QED
    BY <1>1, <1>3, WideIs
<1>6. d.hi = hi /\ d.lo = lo /\ d = Halves(hi, lo)
  BY <1>1, <1>5 DEF Halves
<1> DEFINE result == IF signed THEN Idiv(Halves(hi, lo), B(w), w) ELSE Div(Halves(hi, lo), B(w), w)
<1>7. cpu = IF result.trap THEN ServiceInterrupt(c, 0)
            ELSE SetWide(c, Halves(result.remainder, result.quotient), w)
  <2> HIDE DEF w
  <2> QED
    BY <1>1, <1>5 DEF Divide
<1>8. /\ result.trap <=> (by = 0 \/ ~ fits)
      /\ ~ result.trap =>
           /\ result.quotient \in Unsigned(w) /\ result.remainder \in Unsigned(w)
           /\ SignedDivided(IF signed THEN Signed(result.quotient, w) ELSE result.quotient,
                            IF signed THEN Signed(result.remainder, w) ELSE result.remainder, n, by)
  <2>1. CASE signed
    <3> DEFINE s == Signed(B(w), w)
               m == Signed(hi, w) * N + lo
    <3>1. result = Idiv(Halves(hi, lo), B(w), w) /\ by = s /\ n = m
      BY <1>2, <1>6, <2>1
    <3>2. SignedQuotient(Idiv(Halves(hi, lo), B(w), w), m, s, w, H)
      <4> HIDE DEF w
      <4> QED
        BY <1>1, <1>2, <1>5, IdivIsExact
    <3>3. fits = Fits(m, s, IF s < 0 THEN -s ELSE s, H)
      <4>1. fits = (n \in (IF by > 0 THEN -least .. most ELSE -most .. least))
        BY <2>1
      <4> HIDE DEF w, signed
      <4> QED
        BY <1>2, <3>1, <4>1 DEF Fits
    <3> HIDE DEF result, by, n, s, m, fits, w
    <3> QED
      BY <2>1, <3>1, <3>2, <3>3 DEF SignedQuotient
  <2>2. CASE ~ signed
    <3> DEFINE s == B(w)
               m == hi * N + lo
    <3>1. result = Div(Halves(hi, lo), s, w) /\ by = s /\ n = m
      BY <1>2, <1>6, <2>2
    <3>2. /\ hi \in Int /\ lo \in Int /\ s \in Int /\ 0 <= hi /\ hi < N /\ 0 <= lo /\ lo < N
          /\ 0 <= s /\ s < N /\ N \in Nat \ {0} /\ Unsigned(w) = 0 .. N - 1
      <4> HIDE DEF w
      <4> QED
        BY <1>1, <1>2, <1>5, Half DEF Unsigned
    <3>3. Quotient(result, hi, lo, s, N)
      <4> HIDE DEF w, s
      <4> QED
        BY <1>1, <1>2, <3>1, <3>2, DivIsExact
    <3>4. fits <=> hi < s
      <4>1. fits = (n \div 2^w < size) /\ size = s
        BY <2>2, <3>1, <3>2
      <4>2. m \div N = hi
        BY <3>2, SMT
      <4> HIDE DEF w, fits, n, size, s, m
      <4> QED
        BY <1>2, <3>1, <4>1, <4>2
    <3>5. ~ result.trap =>
            /\ result.quotient \in 0 .. N - 1 /\ result.remainder \in 0 .. N - 1
            /\ SignedDivided(result.quotient, result.remainder, m, s)
      <4>1. m \in Int /\ 0 <= m /\ m = hi * N + lo
        BY <3>2
      <4> HIDE DEF result, m, s
      <4> SUFFICES ASSUME ~ result.trap
                   PROVE  /\ result.quotient \in 0 .. N - 1 /\ result.remainder \in 0 .. N - 1
                          /\ SignedDivided(result.quotient, result.remainder, m, s)
        OBVIOUS
      <4>2. Divided(result.quotient, result.remainder, m, s) /\ result.quotient < N
        BY <3>3, <4>1 DEF Quotient
      <4>3. /\ result.quotient \in 0 .. N - 1 /\ result.remainder \in 0 .. N - 1
            /\ ~ result.remainder < 0 /\ ~ m < 0 /\ ~ s < 0
        BY <3>2, <4>1, <4>2 DEF Divided
      <4> QED
        BY <4>2, <4>3 DEF Divided, SignedDivided
    <3>6. result.trap <=> (s = 0 \/ hi >= s)
      <4> HIDE DEF result, m, s
      <4> QED
        BY <3>3 DEF Quotient
    <3>7. hi >= s <=> ~ fits
      <4> HIDE DEF fits, s
      <4> QED
        BY <3>2, <3>4
    <3> HIDE DEF result, by, n, s, m, fits, w
    <3> QED
      BY <2>2, <3>1, <3>2, <3>5, <3>6, <3>7
  <2> QED
    BY <2>1, <2>2
<1>9. CASE result.trap
  <2>1. TrapTaken /\ cpu.reg[SP] # Before.reg[SP]
    <3> HIDE DEF result
    <3> QED
      BY <1>1, <1>4, <1>7, <1>9, DivideTraps
  <2> HIDE DEF result, by, n, fits, size, q, r
  <2> QED
    BY <1>8, <1>9, <2>1 DEF LeavesQuotient
<1>10. CASE ~ result.trap
  <2> DEFINE quotient  == result.quotient
             remainder == result.remainder
  <2>1. quotient \in Unsigned(w) /\ remainder \in Unsigned(w)
    BY <1>8, <1>10
  <2>2. cpu = SetWide(c, Halves(remainder, quotient), w)
    <3> HIDE DEF result, w
    <3> QED
      BY <1>7, <1>10
  <2>3. /\ Wide(cpu, w) = Halves(remainder, quotient) /\ cpu.flags = Before.flags
        /\ cpu.reg[SP] = Before.reg[SP]
    <3> HIDE DEF quotient, remainder, w
    <3> QED
      BY <1>1, <1>3, <2>1, <2>2, SetWideIs
  <2>4. Wide(cpu, w).hi = remainder /\ Wide(cpu, w).lo = quotient
    <3> HIDE DEF quotient, remainder, w
    <3> QED
      BY <2>3 DEF Halves
  <2>5. q = (IF signed THEN Signed(quotient, w) ELSE quotient) /\ r = (IF signed THEN Signed(remainder, w) ELSE remainder)
    <3> HIDE DEF quotient, remainder, w, signed
    <3> QED
      BY <2>4
  <2>6. SignedDivided(q, r, n, by)
    <3> HIDE DEF w, signed, n, by, result, q, r
    <3> QED
      BY <1>8, <1>10, <2>5
  <2>7. size = (IF by < 0 THEN -by ELSE by)
    OBVIOUS
  <2> HIDE DEF result, by, n, fits, size, q, r, w
  <2> QED
    BY <1>8, <1>10, <2>3, <2>6, <2>7 DEF LeavesQuotient, SignedDivided
<1> QED
  BY <1>9, <1>10

\* In every case any fixtures have, with any operands of either width, MUL and IMUL leave
\* the product of the integers and say whether it fits; DIV and IDIV leave the quotient
\* and the remainder of the integers, or enter the handler of vector 0 with the operands
\* as they were, exactly when no quotient fits.
THEOREM ProductsAndQuotientsAreOfTheIntegers ==
  Spec => [](MultiplicationIsExact /\ ProductsInFull /\ QuotientsInFull)
<1> DEFINE Inv == Placed /\ Traced /\ Scanned /\ Stepping
<1>1. Init => Inv
  BY PlacedAtFirst, TracedAtFirst DEF Init, Scanned, V20OnlyIsSkipped, Stepping, Judged
<1>2. Inv /\ [Next]_vars => Inv'
  BY PlacedKept, TracedKept, ScannedKept, SteppingKept
<1>3. Inv => MultiplicationIsExact /\ ProductsInFull /\ QuotientsInFull
  BY PlainProductsAreExact, ProductsFromFull, PlainQuotientsAreExact, QuotientsFromFull
     DEF MultiplicationIsExact
<1> QED
  BY <1>1, <1>2, <1>3, PTL DEF Spec

---------------------------------------------------------------------------------
(* Operands in memory.                                                              *)

\* A segment override is a segment.
Overridden == Running => override = NoOverride \/ override \in Word

LEMMA OverriddenKept == Placed /\ Stepping /\ Overridden /\ [Next]_vars => Overridden'
<1> SUFFICES ASSUME Placed, Stepping, Overridden, [Next]_vars PROVE Overridden'
  OBVIOUS
<1>1. CASE FetchSegmentPrefix
  <2> DEFINE i == (Fetched \div 8) % 4
  <2>1. Running /\ phase = "step"
    BY <1>1 DEF FetchSegmentPrefix, Running
  <2>2. cpu.seg = Before.seg /\ Before.seg \in [ ES .. DS -> Word ]
    <3>1. cpu = [ Before EXCEPT !.ip = cpu.ip ] /\ CpuShape(Before)
      BY <2>1, BeforeFields DEF Stepping
    <3>2. cpu.seg = Before.seg
      BY <3>1 DEF CpuShape
    <3> QED
      BY <2>1, <3>2, AtModrmFields
  <2>3. i \in ES .. DS
    BY <1>1 DEF FetchSegmentPrefix, SegmentPrefixes, ES, DS
  <2>4. override' = cpu.seg[i]
    BY <1>1 DEF FetchSegmentPrefix
  <2> HIDE DEF i
  <2>5. override' \in Word
    BY <2>2, <2>3, <2>4, Zenon
  <2> QED
    BY <2>5 DEF Overridden
<1>2. CASE WithinCase /\ ~ FetchSegmentPrefix
  <2>1. override' = override
    BY <1>2 DEF WithinCase, FetchLock, FetchRep, ExecuteOpcode, BeginRepeat, Repeat, EndRepeat, StepLocals
  <2>2. Running
    BY <1>2, WithinCaseStays
  <2> QED
    BY <2>1, <2>2 DEF Overridden
<1>3. CASE StartCase
  BY <1>3 DEF StartCase, Overridden
<1>4. CASE Judge \/ OutsideCase
  <2>1. \/ phase' \notin {"step", "repeat", "judge"}
        \/ UNCHANGED << phase, override >>
    BY <1>4 DEF Judge, OutsideCase, OpenFile, Finish, SkipMalformed, SkipV20Only, CloseFile, vars
  <2> QED
    BY <2>1 DEF Overridden, Running
<1> QED
  BY <1>1, <1>2, <1>3, <1>4, Steps

\* Every cell of a case holds a byte.
LEMMA LastPairIsOne ==
  ASSUME NEW pairs \in Seq(Nat \X Byte), NEW a \in Listed(pairs)
  PROVE  LastPair(pairs, a)[2] \in Byte
<1> DEFINE hits == { i \in DOMAIN pairs : Index(pairs[i][1]) = a }
           Last(i) == /\ Index(pairs[i][1]) = a
                      /\ \A j \in i + 1 .. Len(pairs) : Index(pairs[j][1]) # a
<1>1. Len(pairs) \in Nat /\ DOMAIN pairs = 1 .. Len(pairs)
  OBVIOUS
<1>2. hits \subseteq Nat /\ hits # {} /\ \A i \in hits : i <= Len(pairs)
  BY <1>1 DEF Listed
<1> DEFINE m == Max(hits)
<1>3. m \in hits /\ \A j \in hits : j <= m
  <2> HIDE DEF hits
  <2> QED
    BY <1>1, <1>2, MaxIsGreatest
<1> HIDE DEF m
<1>4. m \in DOMAIN pairs /\ Last(m)
  <2>1. m \in DOMAIN pairs /\ Index(pairs[m][1]) = a /\ m \in Nat
    BY <1>1, <1>3
  <2>2. ASSUME NEW j \in m + 1 .. Len(pairs), Index(pairs[j][1]) = a PROVE FALSE
    <3>1. j \in DOMAIN pairs /\ j > m
      BY <1>1, <2>1
    <3>2. j \in hits
      BY <2>2, <3>1
    <3> QED
      BY <1>3, <2>1, <3>1, <3>2
  <2> QED
    BY <2>1, <2>2
<1>5. PICK k \in DOMAIN pairs : LastPair(pairs, a) = pairs[k]
  BY <1>4 DEF LastPair
<1>6. pairs[k] \in Nat \X Byte
  BY <1>5
<1> QED
  BY <1>5, <1>6

LEMMA CellsAreBytes ==
  ASSUME Placed, Running
  PROVE  \A a : ReadU8(Before.bus, a) \in Byte
<1> TAKE a
<1>1. Case.iram \in Seq(Nat \X Byte)
  BY LinesAreCases DEF Placed, IsCase, Case
<1>2. Before.bus.bytes = Stored(Zeroed, Case.iram)
  BY BeforeFields
<1>3. DOMAIN Zeroed = {}
  BY DEF Zeroed
<1>4. 0 \in Byte
  BY DEF Byte, MaxByte
<1> DEFINE x == Index(a)
<1>5. ReadU8(Before.bus, a) = IF x \in Listed(Case.iram) THEN LastPair(Case.iram, x)[2] ELSE 0
  BY <1>2, <1>3 DEF ReadU8, At, Stored
<1> HIDE DEF x
<1> QED
  BY <1>1, <1>4, <1>5, LastPairIsOne

\* The numbers of the addressing registers.
Addressing == {BX, BP, SI, DI}

\* How far an operand with a ModR/M byte reaches past that byte.
Extra ==
  CASE ModrmMode = 1 -> 1
    [] ModrmMode = 2 \/ (ModrmMode = 0 /\ ModrmRm = 6) -> 2
    [] OTHER -> 0

LEMMA ModrmFields ==
  ASSUME Placed, Running
  PROVE  /\ Modrm \in Int /\ 0 <= Modrm /\ Modrm < 256
         /\ ModrmMode \in 0 .. 3 /\ ModrmReg \in 0 .. 7 /\ ModrmRm \in 0 .. 7
         /\ Extra \in {0, 1, 2} /\ AfterModrm = Wrap(ModrmAt + 1 + Extra)
         /\ ModrmAt \in Int /\ ModrmAt \in Word /\ Wrap(ModrmAt) = ModrmAt
<1>1. Modrm \in Byte
  BY CellsAreBytes DEF Modrm, ReadMem
<1>2. Modrm \in Int /\ 0 <= Modrm /\ Modrm < 256
  BY <1>1 DEF Byte, MaxByte
<1>3. ModrmMode \in 0 .. 3 /\ ModrmReg \in 0 .. 7 /\ ModrmRm \in 0 .. 7
  BY <1>2 DEF ModrmMode, ModrmReg, ModrmRm
<1>4. Extra \in {0, 1, 2}
  BY DEF Extra
<1>5. AfterModrm = Wrap(ModrmAt + 1 + Extra)
  BY DEF AfterModrm, Extra
<1>6. ModrmAt \in Int /\ ModrmAt \in Word
  BY GoesOn
<1> QED
  BY <1>2, <1>3, <1>4, <1>5, <1>6, WrapAgain

\* The offsets of the ModR/M byte and of what follows it.
LEMMA OperandOffsets ==
  ASSUME Placed, Running
  PROVE  /\ Wrap(AfterModrm - ModrmAt) = 1 + Extra
         /\ \A i \in 0 .. Extra : i \in 0 .. Wrap(AfterModrm - ModrmAt) - 1
         /\ AfterModrm = Wrap(ModrmAt + 1) <=> Extra = 0
         /\ AfterModrm = Wrap(ModrmAt + 2) <=> Extra = 1
         /\ AfterModrm = Wrap(ModrmAt + 3) <=> Extra = 2
         /\ Wrap(Wrap(ModrmAt + 1) + 1) = Wrap(ModrmAt + 2)
<1>1. /\ Extra \in {0, 1, 2} /\ AfterModrm = Wrap(ModrmAt + 1 + Extra)
      /\ ModrmAt \in Int
  BY ModrmFields
<1>2. \A x \in Int, j \in {0, 1, 2}, k \in {0, 1, 2} : Wrap(x + 1 + j) = Wrap(x + 1 + k) => j = k
  BY SMT DEF Wrap
<1>3. Wrap(AfterModrm - ModrmAt) = 1 + Extra
  BY <1>1, SMT DEF Wrap
<1>4. /\ AfterModrm = Wrap(ModrmAt + 1) <=> Extra = 0
      /\ AfterModrm = Wrap(ModrmAt + 2) <=> Extra = 1
      /\ AfterModrm = Wrap(ModrmAt + 3) <=> Extra = 2
  <2>1. ModrmAt + 1 = ModrmAt + 1 + 0 /\ ModrmAt + 2 = ModrmAt + 1 + 1 /\ ModrmAt + 3 = ModrmAt + 1 + 2
    BY <1>1
  <2> QED
    BY <1>1, <1>2, <2>1
<1>5. Wrap(Wrap(ModrmAt + 1) + 1) = Wrap(ModrmAt + 2)
  BY <1>1, SMT DEF Wrap
<1>6. \A i \in 0 .. Extra : i \in 0 .. Wrap(AfterModrm - ModrmAt) - 1
  BY <1>1, <1>3
<1> QED
  BY <1>3, <1>4, <1>5, <1>6

\* A displacement of one byte, extended, and as a signed number.
LEMMA SignsAgree ==
  ASSUME NEW b \in Byte, NEW base \in Int
  PROVE  Signed(b, 8) \in Int /\ Wrap(base + SignExtended(b)) = Wrap(base + Signed(b, 8))
<1>1. b \in Int /\ 0 <= b /\ b < 256
  BY DEF Byte, MaxByte
<1>2. Signed(b, 8) = IF b >= 128 THEN b - 256 ELSE b
  <2>1. 2^(8 - 1) = 128 /\ 2^8 = 256
    BY Powers
  <2>2. b \div 128 = 1 <=> b >= 128
    BY <1>1
  <2> QED
    BY <2>1, <2>2 DEF Signed, Top
<1>3. (base + (65280 + b)) % 65536 = (base + (b - 256)) % 65536
  BY <1>1, SMT
<1> QED
  BY <1>1, <1>2, <1>3 DEF Wrap, SignExtended

\* c reads the same operand as the CPU of the case did.
SameOperand(c) ==
  /\ CpuShape(c) /\ c.ip = ModrmAt /\ c.seg = Before.seg
  /\ \A i \in Addressing : c.reg[i] = Before.reg[i]
  /\ \A a \in OperandBytes : ReadU8(c.bus, a) = ReadU8(Before.bus, a)

LEMMA BaseIs ==
  ASSUME Placed, Running, NEW c, SameOperand(c)
  PROVE  BaseOffset(c, ModrmMode, ModrmRm) = Base(ModrmRm) /\ Base(ModrmRm) \in Int
<1>1. \A i \in Addressing : c.reg[i] = Before.reg[i] /\ Before.reg[i] \in Int
  <2>1. Addressing \subseteq AX .. DI
    BY DEF Addressing, AX, BX, BP, SI, DI
  <2>2. Before.reg \in [ AX .. DI -> Word ]
    BY AtModrmFields
  <2> QED
    BY <2>1, <2>2, WordsAreIntegers DEF SameOperand
<1>2. /\ c.reg[3] = Before.reg[3] /\ c.reg[5] = Before.reg[5] /\ c.reg[6] = Before.reg[6]
      /\ c.reg[7] = Before.reg[7]
      /\ Before.reg[3] \in Int /\ Before.reg[5] \in Int /\ Before.reg[6] \in Int /\ Before.reg[7] \in Int
  BY <1>1 DEF Addressing, BX, BP, SI, DI
<1>3. ModrmRm \in 0 .. 7
  BY ModrmFields
<1> DEFINE rm == ModrmRm
<1> HIDE DEF rm
<1>4. rm \in {0, 1, 2, 3, 4, 5, 6, 7}
  BY <1>3 DEF rm
<1>5. BaseOffset(c, ModrmMode, rm) = Base(rm) /\ Base(rm) \in Int
  BY <1>2, <1>4 DEF BaseOffset, Base, BX, BP, SI, DI
<1> QED
  BY <1>5 DEF rm

LEMMA OperandIs ==
  ASSUME Placed, Running, ModrmMode # 3, NEW c, SameOperand(c)
  PROVE  LET m == DecodeModrm(c, override)
         IN  /\ m.reg = ModrmReg /\ m.rm = Memory(EffectiveSegment, EffectiveOffset)
             /\ m.after = [ c EXCEPT !.ip = AfterModrm ]
             /\ EffectiveOffset \in Word
<1> DEFINE m     == DecodeModrm(c, override)
           next  == Past(c, 8)
           width == DisplacementWidth(ModrmMode, ModrmRm)
           disp  == CASE width = 0 -> 0
                      [] width = 8  -> SignExtended(Immediate(next, 8))
                      [] width = 16 -> Immediate(next, 16)
           base  == BaseOffset(c, ModrmMode, ModrmRm)
           place(i) == PhysicalAddress(Before.seg[CS], Wrap(ModrmAt + i))
<1>1. /\ CpuShape(c) /\ c.ip = ModrmAt /\ c.seg = Before.seg
      /\ ModrmAt \in Int /\ Wrap(ModrmAt) = ModrmAt /\ Extra \in {0, 1, 2}
      /\ AfterModrm = Wrap(ModrmAt + 1 + Extra)
  BY ModrmFields DEF SameOperand
<1>2. \A i \in 0 .. Extra : ReadU8(c.bus, place(i)) = ReadU8(Before.bus, place(i))
  BY OperandOffsets DEF SameOperand, OperandBytes
<1>3. Immediate(c, 8) = Modrm
  <2>1. ModrmAt + 0 = ModrmAt /\ 0 \in 0 .. Extra
    BY <1>1
  <2>2. Immediate(c, 8) = ReadU8(c.bus, place(0)) /\ Modrm = ReadU8(Before.bus, place(0))
    BY <1>1, <2>1 DEF Immediate, Modrm, ReadMem
  <2> QED
    BY <1>2, <2>1, <2>2
<1>4. /\ m.reg = ModrmReg
      /\ m.rm = Memory(SegmentOr(c, override, DefaultSegment(ModrmMode, ModrmRm)), Wrap(base + disp))
      /\ m.after = Past(next, width)
  BY <1>3, Zenon DEF DecodeModrm, ModrmMode, ModrmReg, ModrmRm
<1>5. SegmentOr(c, override, DefaultSegment(ModrmMode, ModrmRm)) = EffectiveSegment
  BY <1>1 DEF SegmentOr, DefaultSegment, EffectiveSegment
<1>6. next.seg = Before.seg /\ next.bus = c.bus /\ next.ip = Wrap(ModrmAt + 1)
  BY <1>1, PastByte
<1>7. /\ Extra = 0 => width = 0
      /\ Extra = 1 => width = 8
      /\ Extra = 2 => width = 16
  BY DEF Extra, DisplacementWidth
<1>8. m.after = [ c EXCEPT !.ip = AfterModrm ]
  <2>1. width \div 8 = Extra
    BY <1>1, <1>7
  <2>2. Wrap(Wrap(ModrmAt + 1) + Extra) = AfterModrm
    BY <1>1, WrapAgain
  <2>3. next = [ c EXCEPT !.ip = Wrap(ModrmAt + 1) ]
    <3>1. 8 \div 8 = 1
      OBVIOUS
    <3> QED
      BY <1>1, <3>1 DEF Past, CpuShape
  <2> HIDE DEF width, next
  <2>4. Past(next, width) = [ c EXCEPT !.ip = Wrap(Wrap(ModrmAt + 1) + Extra) ]
    BY <1>1, <2>1, <2>3 DEF Past, CpuShape
  <2> QED
    BY <1>4, <2>2, <2>4
<1>9. base = Base(ModrmRm) /\ base \in Int
  BY BaseIs
<1>10. /\ Extra >= 1 => Immediate(next, 8) = ReadU8(Before.bus, place(1))
       /\ Extra = 2  => Immediate(next, 16) = ReadU8(Before.bus, place(1)) + 256 * ReadU8(Before.bus, place(2))
  <2>1. /\ Immediate(next, 8) = ReadU8(c.bus, place(1))
        /\ Immediate(next, 16) = ReadU8(c.bus, place(1)) + 256 * ReadU8(c.bus, place(2))
    <3> HIDE DEF next
    <3> QED
      BY <1>6, OperandOffsets DEF Immediate, ReadMem
  <2>2. (Extra >= 1 => 1 \in 0 .. Extra) /\ (Extra = 2 => 1 \in 0 .. Extra /\ 2 \in 0 .. Extra)
    BY <1>1
  <2> HIDE DEF next, place
  <2> QED
    BY <1>1, <1>2, <2>1, <2>2
<1>11. /\ ReadMem(Before, Before.seg[CS], Wrap(ModrmAt + 1), 8) = ReadU8(Before.bus, place(1))
       /\ ReadMem(Before, Before.seg[CS], Wrap(ModrmAt + 1), 16)
            = ReadU8(Before.bus, place(1)) + 256 * ReadU8(Before.bus, place(2))
  BY OperandOffsets DEF ReadMem
<1>12. \A i : ReadU8(Before.bus, place(i)) \in Byte /\ ReadU8(Before.bus, place(i)) \in Int
  BY CellsAreBytes DEF Byte
<1>13. Displacement \in Int /\ Wrap(base + disp) = Wrap(base + Displacement)
  <2> DEFINE low  == ReadU8(Before.bus, place(1))
             high == ReadU8(Before.bus, place(2))
  <2>1. CASE Extra = 0
    <3>1. disp = 0 /\ Displacement = 0
      BY <1>7, <2>1, OperandOffsets DEF Displacement
    <3> HIDE DEF disp, base
    <3> QED
      BY <3>1
  <2>2. CASE Extra = 1
    <3>1. disp = SignExtended(low)
      BY <1>7, <1>10, <2>2
    <3>2. Displacement = Signed(low, 8)
      BY <1>11, <2>2, OperandOffsets DEF Displacement
    <3>3. low \in Byte
      BY <1>12
    <3> HIDE DEF disp, low, base
    <3> QED
      BY <1>9, <3>1, <3>2, <3>3, SignsAgree
  <2>3. CASE Extra = 2
    <3>1. disp = low + 256 * high
      BY <1>7, <1>10, <2>3
    <3>2. Displacement = low + 256 * high
      BY <1>11, <2>3, OperandOffsets DEF Displacement
    <3>3. low \in Int /\ high \in Int
      BY <1>12
    <3> HIDE DEF disp, low, high, base
    <3> QED
      BY <3>1, <3>2, <3>3
  <2> QED
    BY <1>1, <2>1, <2>2, <2>3
<1>14. Wrap(base + disp) = EffectiveOffset /\ EffectiveOffset \in Word
  <2> HIDE DEF base, disp
  <2>1. base + Displacement \in Int
    BY <1>9, <1>13
  <2> QED
    BY <1>9, <1>13, <2>1, WrapAgain DEF EffectiveOffset
<1> QED
  BY <1>4, <1>5, <1>8, <1>14

\* MOV and LEA among the opcodes.
LEMMA MovesAre ==
  ASSUME NEW op \in {\h88, \h89, \h8A, \h8B, \h8D}, NEW c, NEW chosen
  PROVE  Execute(c, op, chosen) = ExecuteMove(c, op, chosen)
<1>1. op \in {136, 137, 138, 139, 141}
  OBVIOUS
<1>2. op \notin AluBlock /\ op \in MoveModrm /\ op \notin MoveDirect /\ op \notin Exchanges
  BY <1>1 DEF AluBlock, MoveModrm, MoveDirect, Exchanges
<1>3. op \notin Group1 /\ op \notin Singles /\ op \notin StackOps /\ op \notin Jumps /\ op \notin Calls
  BY <1>1 DEF Group1, Singles, StackOps, Jumps, Calls
<1>4. op \notin Group2 /\ op \notin Group3 /\ op \notin Groups45 /\ op \notin PortOps
  BY <1>1 DEF Group2, Group3, Groups45, PortOps
<1>5. op \notin FlagOps /\ op \notin Strings
  BY <1>1 DEF FlagOps, Strings
<1> QED
  BY <1>2, <1>3, <1>4, <1>5 DEF Execute

\* The cells of an operand in memory.
Cells(s, o, w) == { PhysicalAddress(s, Wrap(o + i)) : i \in 0 .. w \div 8 - 1 }

LEMMA CellsAre ==
  ASSUME NEW s \in Word, NEW o \in Word
  PROVE  /\ Cells(s, o, 8) = { PhysicalAddress(s, o) }
         /\ Cells(s, o, 16) = { PhysicalAddress(s, o), PhysicalAddress(s, Wrap(o + 1)) }
         /\ \A p \in Int : Index(PhysicalAddress(s, p)) = PhysicalAddress(s, p)
<1>1. o \in Int /\ s \in Int /\ Wrap(o) = o
  BY WordsAreIntegers, WrapAgain
<1>2. o + 0 = o
  BY <1>1
<1>3. 0 .. 8 \div 8 - 1 = {0} /\ 0 .. 16 \div 8 - 1 = {0, 1}
  OBVIOUS
<1>4. Cells(s, o, 8) = { PhysicalAddress(s, Wrap(o + 0)) }
  BY <1>3, Zenon DEF Cells
<1>5. Cells(s, o, 16) = { PhysicalAddress(s, Wrap(o + 0)), PhysicalAddress(s, Wrap(o + 1)) }
  <2> DEFINE f(i) == PhysicalAddress(s, Wrap(o + i))
  <2>1. Cells(s, o, 16) = { f(i) : i \in {0, 1} }
    BY <1>3, Zenon DEF Cells
  <2> HIDE DEF f
  <2>2. { f(i) : i \in {0, 1} } = { f(0), f(1) }
    OBVIOUS
  <2> QED
    BY <2>1, <2>2, Zenon DEF f
<1>6. ASSUME NEW p \in Int PROVE Index(PhysicalAddress(s, p)) = PhysicalAddress(s, p)
  <2>1. \A x \in Int : (x % 1048576) % 1048576 = x % 1048576
    BY SMT
  <2> QED
    BY <1>1, <2>1 DEF Index, PhysicalAddress
<1> QED
  BY <1>1, <1>2, <1>4, <1>5, <1>6

\* What is written to an operand in memory is there, and nowhere else.
LEMMA WriteIs ==
  ASSUME NEW d, CpuShape(d), NEW s \in Word, NEW o \in Word, NEW w \in Widths, NEW v
  PROVE  LET m == WriteMem(d, s, o, v, w)
         IN  /\ CpuShape(m) /\ m.reg = d.reg /\ m.seg = d.seg /\ m.ip = d.ip
             /\ m.bus.dirty = d.bus.dirty \union Cells(s, o, w)
             /\ \A a : Index(a) \notin Cells(s, o, w) => ReadU8(m.bus, a) = ReadU8(d.bus, a)
             /\ v \in Unsigned(w) => ReadMem(m, s, o, w) = v
<1> DEFINE m    == WriteMem(d, s, o, v, w)
           r    == Wrap(o + 1)
           low  == WriteU8(d.bus, PhysicalAddress(s, o), LowByte(v))
           both == WriteU8(low, PhysicalAddress(s, r), HighByte(v))
<1>1. /\ CpuShape(m) /\ m.reg = d.reg /\ m.seg = d.seg /\ m.ip = d.ip
      /\ m.bus = IF w = 8 THEN low ELSE both
  BY DEF WriteMem, CpuShape
<1>2. /\ o \in Int /\ r \in Word /\ r \in Int
      /\ Index(PhysicalAddress(s, o)) = PhysicalAddress(s, o)
      /\ Index(PhysicalAddress(s, r)) = PhysicalAddress(s, r)
  <2>1. o \in Int /\ o + 1 \in Int
    BY WordsAreIntegers
  <2>2. r \in Word
    BY <2>1, WrapAgain
  <2>3. r \in Int
    BY <2>2, WordsAreIntegers
  <2> QED
    BY <2>1, <2>2, <2>3, CellsAre
<1>3. /\ low.dirty = d.bus.dirty \union { PhysicalAddress(s, o) }
      /\ both.dirty = low.dirty \union { PhysicalAddress(s, r) }
  BY <1>2 DEF WriteU8
<1>4. CASE w = 8
  <2>1. m.bus = low /\ Cells(s, o, w) = { PhysicalAddress(s, o) }
    BY <1>1, <1>4, CellsAre
  <2>2. \A a : Index(a) \notin Cells(s, o, w) => ReadU8(low, a) = ReadU8(d.bus, a)
    BY <1>2, <2>1, CellsRead
  <2>3. ReadU8(low, PhysicalAddress(s, o)) = LowByte(v)
    BY CellsRead
  <2>4. v \in Unsigned(w) => LowByte(v) = v
    <3>1. Unsigned(8) = 0 .. 255
      BY Powers DEF Unsigned
    <3> QED
      BY <1>4, <3>1 DEF LowByte
  <2> HIDE DEF m, low, both
  <2>5. m.bus.dirty = d.bus.dirty \union Cells(s, o, w)
    BY <1>3, <2>1
  <2>6. v \in Unsigned(w) => ReadMem(m, s, o, w) = v
    BY <1>4, <2>1, <2>3, <2>4 DEF ReadMem
  <2> QED
    BY <1>1, <2>1, <2>2, <2>5, <2>6 DEF m
<1>5. CASE w = 16
  <2>1. m.bus = both /\ Cells(s, o, w) = { PhysicalAddress(s, o), PhysicalAddress(s, r) }
    BY <1>1, <1>5, CellsAre
  <2>2. \A a : Index(a) \notin Cells(s, o, w) => ReadU8(both, a) = ReadU8(d.bus, a)
    BY <1>2, <2>1, CellsRead
  <2> HIDE DEF low, both
  <2>3. m.bus.dirty = d.bus.dirty \union Cells(s, o, w)
    <3> HIDE DEF m
    <3> QED
      BY <1>3, <2>1
  <2>4. ASSUME v \in Unsigned(w) PROVE ReadMem(m, s, o, w) = v
    <3>1. v \in Word
      <4>1. 2^16 - 1 = MaxWord
        BY Powers DEF MaxWord
      <4>2. Unsigned(16) = Word
        BY <4>1, Zenon DEF Unsigned, Word
      <4> QED
        BY <1>5, <2>4, <4>2, Zenon
    <3>2. ReadMem(WriteMem(d, s, o, v, 16), s, o, 16) = v
      BY <3>1, WordsRead DEF WordStored
    <3> QED
      BY <1>5, <3>2
  <2> QED
    BY <1>1, <2>1, <2>2, <2>3, <2>4 DEF m
<1> QED
  BY <1>4, <1>5 DEF Widths

\* A CPU whose registers hold numbers, and the word register a register belongs to.
Numbered(d) == CpuShape(d) /\ d.reg \in [ AX .. DI -> Int ]
WordOf(i, w) == IF w = 8 /\ i >= 4 THEN i - 4 ELSE i

\* m is d with v stored in register i: a byte register of either half included, it holds
\* v, and the other word registers stay.
Held(m, d, i, w, v) ==
  /\ Numbered(m) /\ m.seg = d.seg /\ m.ip = d.ip /\ m.bus = d.bus
  /\ Value(m, Register(i), w) = v
  /\ \A j \in AX .. DI : j # WordOf(i, w) => m.reg[j] = d.reg[j]

LEMMA RegisterHolds ==
  ASSUME NEW d, Numbered(d), NEW i \in 0 .. 7, NEW w \in Widths, NEW v \in Unsigned(w)
  PROVE  Held(Store(d, Register(i), v, w), d, i, w, v)
<1> DEFINE k == WordOf(i, w)
           m == Store(d, Register(i), v, w)
           x == d.reg[k]
           y == IF w = 16 THEN v ELSE IF i < 4 THEN WithLow(x, v) ELSE WithHigh(x, v)
<1>1. k \in AX .. DI
  BY DEF WordOf, AX, DI, Widths
<1>2. CpuShape(d) /\ d.reg \in [ AX .. DI -> Int ] /\ x \in Int
  BY <1>1 DEF Numbered
<1>3. v \in Int /\ 0 <= v /\ (w = 8 => v < 256)
  <2>1. Unsigned(w) = 0 .. (2^w - 1)
    BY DEF Unsigned
  <2>2. 2^w - 1 \in Int /\ (w = 8 => 2^w - 1 = 255)
    <3>1. w = 8 => 2^w = 2^8
      OBVIOUS
    <3>2. w = 16 => 2^w = 2^16
      OBVIOUS
    <3>3. w = 8 \/ w = 16
      BY DEF Widths
    <3> HIDE DEF Widths
    <3> QED
      BY <3>1, <3>2, <3>3, Powers
  <2> DEFINE top == 2^w - 1
  <2>3. v \in 0 .. top
    BY <2>1, Zenon
  <2>4. top \in Int /\ (w = 8 => top = 255)
    BY <2>2
  <2> HIDE DEF top
  <2> QED
    BY <2>3, <2>4
<1>4. y \in Int /\ (w = 8 /\ i < 4 => LowByte(y) = v) /\ (w = 8 /\ i >= 4 => HighByte(y) = v)
  <2> HIDE DEF x
  <2>1. WithLow(x, v) \in Int /\ WithHigh(x, v) \in Int
    BY <1>2, <1>3 DEF WithLow, WithHigh, LowByte, HighByte
  <2>2. w = 8 => LowByte(WithLow(x, v)) = v /\ HighByte(WithHigh(x, v)) = v
    BY <1>2, <1>3 DEF WithLow, WithHigh, LowByte, HighByte
  <2> QED
    BY <1>3, <2>1, <2>2 DEF Widths
<1>5. m = SetRegister(d, k, y)
  BY DEF Store, Register, WordOf, Widths
<1>6. Has(m, [ d.reg EXCEPT ![k] = y ], d.seg, d.ip, d.flags, d.bus)
  <2> HIDE DEF k, y
  <2> QED
    BY <1>2, <1>5, Effects
<1> HIDE DEF m, y
<1>7. Numbered(m)
  <2> HIDE DEF k
  <2> QED
    BY <1>1, <1>2, <1>4, <1>6 DEF Has, Numbered
<1>8. m.reg[k] = y /\ \A j \in AX .. DI : j # k => m.reg[j] = d.reg[j]
  <2> HIDE DEF k
  <2>1. DOMAIN d.reg = AX .. DI
    BY <1>2, Zenon
  <2>2. m.reg = [ d.reg EXCEPT ![k] = y ] /\ k \in DOMAIN d.reg
    BY <1>1, <1>6, <2>1 DEF Has
  <2>3. m.reg[k] = y
    BY <2>2, Zenon
  <2>4. ASSUME NEW j \in AX .. DI, j # k PROVE m.reg[j] = d.reg[j]
    <3>1. j \in DOMAIN d.reg
      BY <2>1, Zenon
    <3> QED
      BY <2>2, <2>4, <3>1, Zenon
  <2> QED
    BY <2>3, <2>4
<1>9. Value(m, Register(i), w) = v
  <2>1. CASE w = 16
    BY <1>8, <2>1 DEF Value, Register, WordOf, y
  <2>2. CASE w = 8 /\ i < 4
    BY <1>4, <1>8, <2>2 DEF Value, Register, WordOf
  <2>3. CASE w = 8 /\ i >= 4
    BY <1>4, <1>8, <2>3 DEF Value, Register, WordOf
  <2> QED
    BY <2>1, <2>2, <2>3 DEF Widths
<1> QED
  BY <1>6, <1>7, <1>8, <1>9 DEF Has, Held, m

\* A MOV to memory is a write at the operand's place.
Source(w) == Value(Before, Register(ModrmReg), w)

LEMMA NumberedBefore ==
  ASSUME Placed, Running
  PROVE  /\ Numbered(Before) /\ SameOperand(AtModrm)
         /\ \A w \in Widths : Source(w) \in Unsigned(w)
         /\ Overridden => EffectiveSegment \in Word
<1>1. /\ CpuShape(AtModrm) /\ AtModrm.reg = Before.reg /\ AtModrm.seg = Before.seg
      /\ AtModrm.bus = Before.bus /\ AtModrm.ip = ModrmAt
      /\ Before.reg \in [ AX .. DI -> Word ] /\ Before.seg \in [ ES .. DS -> Word ]
      /\ CpuShape(Before)
  BY AtModrmFields, BeforeFields
<1>2. Numbered(Before)
  <2>1. Word \subseteq Int
    BY WordsAreIntegers
  <2> QED
    BY <1>1, <2>1 DEF Numbered
<1>3. SameOperand(AtModrm)
  BY <1>1 DEF SameOperand
<1>4. ASSUME NEW w \in Widths PROVE Source(w) \in Unsigned(w)
  <2> DEFINE k == WordOf(ModrmReg, w)
             x == Before.reg[k]
  <2>1. k \in AX .. DI
    BY ModrmFields DEF WordOf, AX, DI
  <2>2. x \in Word
    BY <1>1, <2>1, Zenon
  <2>3. CASE w = 8
    <3>1. Source(w) = LowByte(x) \/ Source(w) = HighByte(x)
      <4>1. /\ Register(ModrmReg).index = ModrmReg
            /\ Source(w) = IF ModrmReg < 4 THEN LowByte(Before.reg[ModrmReg])
                                           ELSE HighByte(Before.reg[ModrmReg - 4])
        BY <2>3 DEF Source, Value, Register
      <4> QED
        BY <4>1, <2>3, ModrmFields DEF WordOf
    <3>2. x \in Int /\ 0 <= x /\ x < 65536
      BY <2>2, WordBounds, WordsAreIntegers
    <3>3. Unsigned(8) = 0 .. 255
      BY Powers DEF Unsigned
    <3>4. LowByte(x) \in 0 .. 255 /\ HighByte(x) \in 0 .. 255
      <4> HIDE DEF x
      <4> QED
        BY <3>2 DEF LowByte, HighByte
    <3> QED
      BY <2>3, <3>1, <3>3, <3>4, Zenon
  <2>4. CASE w = 16
    <3>1. Source(w) = x
      BY <2>4 DEF Source, Value, Register, WordOf
    <3>2. 2^16 - 1 = MaxWord
      BY Powers DEF MaxWord
    <3>3. Unsigned(16) = Word
      BY <3>2, Zenon DEF Unsigned, Word
    <3> QED
      BY <2>2, <2>4, <3>1, <3>3, Zenon
  <2> QED
    BY <2>3, <2>4 DEF Widths
<1>5. ASSUME Overridden PROVE EffectiveSegment \in Word
  <2>1. SS \in ES .. DS /\ DS \in ES .. DS
    BY DEF SS, DS, ES
  <2>2. Before.seg[SS] \in Word /\ Before.seg[DS] \in Word
    BY <1>1, <2>1, Zenon
  <2> QED
    BY <1>5, <2>2 DEF Overridden, EffectiveSegment
<1> QED
  BY <1>2, <1>3, <1>4, <1>5

\* MOV to memory and LEA.
LEMMA StoresAre ==
  ASSUME Placed, Stepping, Overridden, Judged, Plain, opcode \in {\h88, \h89, \h8D}, ModrmMode # 3
  PROVE  LET w == Width(opcode)
             n == [ AtModrm EXCEPT !.ip = AfterModrm ]
         IN  /\ opcode # \h8D => cpu = WriteMem(n, EffectiveSegment, EffectiveOffset, Source(w), w)
             /\ opcode = \h8D => cpu = SetRegister(n, ModrmReg, EffectiveOffset)
             /\ CpuShape(n) /\ n.reg = Before.reg /\ n.seg = Before.seg /\ n.bus = Before.bus
             /\ n.ip = AfterModrm
             /\ w \in Widths /\ EffectiveOffset \in Word
<1> DEFINE w == Width(opcode)
           n == [ AtModrm EXCEPT !.ip = AfterModrm ]
           m == DecodeModrm(AtModrm, override)
<1>1. Running
  BY DEF Judged, Running
<1>2. cpu = ExecuteMove(AtModrm, opcode, override)
  BY MovesAre DEF Stepping, AtModrm
<1>3. /\ m.reg = ModrmReg /\ m.rm = Memory(EffectiveSegment, EffectiveOffset) /\ m.after = n
      /\ EffectiveOffset \in Word
  BY <1>1, OperandIs, NumberedBefore
<1>4. /\ CpuShape(n) /\ n.reg = Before.reg /\ n.seg = Before.seg /\ n.bus = Before.bus /\ n.ip = AfterModrm
  BY <1>1, AtModrmFields DEF CpuShape
<1>5. w \in Widths
  BY Operands DEF Widths
<1>6. Value(n, Register(ModrmReg), w) = Source(w)
  <2> HIDE DEF w, n
  <2> QED
    BY <1>4, <1>5 DEF Value, Register, Source, Widths
<1> HIDE DEF m, n
<1>7. /\ opcode # \h8D => cpu = Store(n, m.rm, Value(n, Register(m.reg), w), w)
      /\ opcode = \h8D => cpu = IF m.rm.kind = "memory" THEN SetRegister(n, m.reg, m.rm.offset) ELSE n
  BY <1>2, <1>3 DEF ExecuteMove, m
<1>8. \A s, o, v : Store(n, Memory(s, o), v, w) = WriteMem(n, s, o, v, w)
  BY DEF Store, Memory
<1>9. \A s, o : Memory(s, o).kind = "memory" /\ Memory(s, o).offset = o
  BY DEF Memory
<1> HIDE DEF w
<1>10. opcode # \h8D => cpu = WriteMem(n, EffectiveSegment, EffectiveOffset, Source(w), w)
  BY <1>3, <1>6, <1>7, <1>8
<1>11. opcode = \h8D => cpu = SetRegister(n, ModrmReg, EffectiveOffset)
  BY <1>3, <1>7, <1>9
<1> QED
  BY <1>3, <1>4, <1>5, <1>10, <1>11 DEF n, w

\* Setting a register changes that register alone.
LEMMA RegisterSet ==
  ASSUME NEW c, CpuShape(c), NEW i \in DOMAIN c.reg, NEW v
  PROVE  /\ SetRegister(c, i, v).reg[i] = v
         /\ SetRegister(c, i, v).ip = c.ip /\ SetRegister(c, i, v).bus = c.bus
<1> DEFINE m == SetRegister(c, i, v)
<1>1. Has(m, [ c.reg EXCEPT ![i] = v ], c.seg, c.ip, c.flags, c.bus)
  BY Effects
<1> HIDE DEF m
<1> QED
  BY <1>1 DEF Has, m

\* Every addressing mode is decoded as it should be.
LEMMA OperandsFound ==
  ASSUME Placed, Stepping, Overridden
  PROVE  OperandsAreDecoded
<1> SUFFICES ASSUME Judged, Plain, opcode \in {\h88, \h89, \h8D}, ModrmMode # 3
             PROVE  /\ cpu.ip = AfterModrm
                    /\ opcode = \h8D => cpu.reg[ModrmReg] = EffectiveOffset /\ cpu.bus.dirty = {}
                    /\ opcode # \h8D =>
                         cpu.bus.dirty = Cells(EffectiveSegment, EffectiveOffset, Width(opcode))
  BY DEF OperandsAreDecoded, Cells
<1> DEFINE w == Width(opcode)
           n == [ AtModrm EXCEPT !.ip = AfterModrm ]
<1>1. Running
  BY DEF Judged, Running
<1>2. /\ opcode # \h8D => cpu = WriteMem(n, EffectiveSegment, EffectiveOffset, Source(w), w)
      /\ opcode = \h8D => cpu = SetRegister(n, ModrmReg, EffectiveOffset)
      /\ CpuShape(n) /\ n.reg = Before.reg /\ n.bus = Before.bus /\ n.ip = AfterModrm
      /\ w \in Widths /\ EffectiveOffset \in Word
  BY StoresAre
<1>3. EffectiveSegment \in Word /\ Before.bus.dirty = {}
  BY <1>1, NumberedBefore, BeforeFields
<1> HIDE DEF n, w
<1>4. CASE opcode # \h8D
  <2> DEFINE s == EffectiveSegment
             o == EffectiveOffset
             v == Source(w)
  <2>2. cpu = WriteMem(n, s, o, v, w) /\ CpuShape(n) /\ s \in Word /\ o \in Word /\ w \in Widths
    BY <1>2, <1>3, <1>4
  <2>1. cpu.ip = n.ip /\ cpu.bus.dirty = n.bus.dirty \union Cells(EffectiveSegment, EffectiveOffset, w)
    <3>1. cpu.ip = n.ip /\ cpu.bus.dirty = n.bus.dirty \union Cells(s, o, w)
      <4> HIDE DEF s, o, v
      <4> QED
        BY <2>2, WriteIs
    <3> QED
      BY <3>1
  <2> QED
    BY <1>2, <1>3, <1>4, <2>1 DEF w
<1>5. CASE opcode = \h8D
  <2>1. ModrmReg \in DOMAIN n.reg
    <3>1. ModrmReg \in AX .. DI
      BY <1>1, ModrmFields DEF AX, DI
    <3>2. DOMAIN n.reg = AX .. DI
      BY <1>1, <1>2, NumberedBefore, Zenon DEF Numbered
    <3> QED
      BY <3>1, <3>2
  <2>2. CpuShape(n) /\ cpu = SetRegister(n, ModrmReg, EffectiveOffset)
    BY <1>2, <1>5
  <2>3. cpu.reg[ModrmReg] = EffectiveOffset /\ cpu.ip = n.ip /\ cpu.bus = n.bus
    BY <2>1, <2>2, RegisterSet
  <2> QED
    BY <1>2, <1>3, <1>5, <2>3
<1> QED
  BY <1>4, <1>5

\* MOV of a register to memory.
MovesToMemory == {\h88, \h89}

LEMMA ZeroIsUnsigned ==
  ASSUME NEW w \in Widths
  PROVE  0 \in Unsigned(w)
<1>1. 0 < 2^w /\ 2^w \in Int
  BY Half
<1> QED
  BY <1>1 DEF Unsigned

LEMMA OperandBytesAreCells ==
  ASSUME Placed, Running, NEW a \in OperandBytes
  PROVE  Index(a) = a
<1>1. PICK i \in 0 .. Wrap(AfterModrm - ModrmAt) - 1 :
        a = PhysicalAddress(Before.seg[CS], Wrap(ModrmAt + i))
  BY DEF OperandBytes
<1> DEFINE p == Wrap(ModrmAt + i)
<1>2. p \in Int
  <2>1. ModrmAt \in Int /\ i \in Int
    BY ModrmFields
  <2> QED
    BY <2>1 DEF Wrap
<1>3. Before.seg[CS] \in Word /\ 0 \in Word
  <2>1. CS \in ES .. DS
    BY DEF CS, ES, DS
  <2>2. Before.seg[CS] \in Word
    BY <2>1, AtModrmFields
  <2>3. 0 \in Word
    BY DEF Word, MaxWord
  <2> QED
    BY <2>2, <2>3
<1>4. Index(PhysicalAddress(Before.seg[CS], p)) = PhysicalAddress(Before.seg[CS], p)
  BY <1>2, <1>3, CellsAre
<1> QED
  BY <1>1, <1>4

\* MOV from memory loads what a byte or word access of its operand reads.
LEMMA LoadIs ==
  ASSUME Placed, Running, ModrmMode # 3, NEW op \in MovesToMemory,
         NEW d, SameOperand(d), Numbered(d), NEW v \in Unsigned(Width(op)),
         ReadMem(d, EffectiveSegment, EffectiveOffset, Width(op)) = v
  PROVE  Value(Execute(d, op + 2, override), Register(ModrmReg), Width(op)) = v
<1> DEFINE w == Width(op)
           m == DecodeModrm(d, override)
           n == [ d EXCEPT !.ip = AfterModrm ]
           e == ExecuteMove(d, op + 2, override)
<1>1. w \in Widths /\ Width(op + 2) = w
  BY DEF Width, Widths, MovesToMemory
<1>2. op + 2 \in {\h8A, \h8B}
  BY DEF MovesToMemory
<1>3. Execute(d, op + 2, override) = e
  BY <1>2, MovesAre
<1>4. m.reg = ModrmReg /\ m.rm = Memory(EffectiveSegment, EffectiveOffset) /\ m.after = n
  BY OperandIs
<1>5. Numbered(n) /\ n.bus = d.bus
  BY DEF Numbered, CpuShape
<1>6. Value(n, Memory(EffectiveSegment, EffectiveOffset), w) = v
  <2>1. ReadMem(n, EffectiveSegment, EffectiveOffset, w) = v
    <3> HIDE DEF n
    <3> QED
      BY <1>5 DEF ReadMem
  <2> QED
    BY <2>1 DEF Value, Memory
<1> HIDE DEF m, n, w
<1>7. e = Store(n, Register(ModrmReg), v, w)
  <2>1. e = Store(m.after, Register(m.reg), Value(m.after, m.rm, w), w)
    BY <1>1, <1>2 DEF ExecuteMove, m
  <2> QED
    BY <2>1, <1>4, <1>6
<1> HIDE DEF e
<1>8. Value(e, Register(ModrmReg), w) = v
  <2>1. ModrmReg \in 0 .. 7
    BY ModrmFields
  <2>2. v \in Unsigned(w)
    BY DEF w
  <2> DEFINE i == ModrmReg
  <2>3. Held(Store(n, Register(i), v, w), n, i, w, v)
    <3>1. i \in 0 .. 7 /\ Numbered(n) /\ w \in Widths /\ v \in Unsigned(w)
      BY <1>1, <1>5, <2>1, <2>2
    <3> HIDE DEF i
    <3> QED
      BY <3>1, RegisterHolds
  <2> QED
    BY <1>7, <2>3 DEF Held
<1> QED
  BY <1>3, <1>8 DEF w

\* A stored register comes back, also when the wipe between changes the register's other half.
LEMMA LoadsReturn ==
  ASSUME Placed, Stepping, Overridden
  PROVE  LoadsReturnStores
<1> SUFFICES ASSUME Judged, Plain, opcode \in MovesToMemory, ModrmMode # 3,
                    cpu.bus.dirty \intersect OperandBytes = {}
             PROVE  LET w     == Width(opcode)
                        again == [ cpu EXCEPT !.ip = ModrmAt ]
                        wiped == IF ModrmReg \in Addressing THEN again
                                 ELSE Store(again, Register(ModrmReg), 0, w)
                    IN  Value(Execute(wiped, opcode + 2, override), Register(ModrmReg), w)
                          = Value(Before, Register(ModrmReg), w)
  BY DEF LoadsReturnStores, Addressing, MovesToMemory
<1> DEFINE w     == Width(opcode)
           n     == [ AtModrm EXCEPT !.ip = AfterModrm ]
           s     == EffectiveSegment
           o     == EffectiveOffset
           x     == Source(w)
           again == [ cpu EXCEPT !.ip = ModrmAt ]
           wiped == IF ModrmReg \in Addressing THEN again ELSE Store(again, Register(ModrmReg), 0, w)
<1>1. Running
  BY DEF Judged, Running
<1>2. opcode \in {\h88, \h89, \h8D} /\ opcode # \h8D
  BY DEF MovesToMemory
<1>3. /\ cpu = WriteMem(n, s, o, x, w)
      /\ CpuShape(n) /\ n.reg = Before.reg /\ n.seg = Before.seg /\ n.bus = Before.bus
      /\ w \in Widths /\ o \in Word
  BY <1>2, StoresAre
<1>4. s \in Word /\ x \in Unsigned(w) /\ Numbered(Before) /\ Before.bus.dirty = {} /\ ModrmReg \in 0 .. 7
  BY <1>1, <1>3, NumberedBefore, BeforeFields, ModrmFields
<1>5. /\ CpuShape(cpu) /\ cpu.reg = Before.reg /\ cpu.seg = Before.seg
      /\ cpu.bus.dirty = Cells(s, o, w)
      /\ \A a : Index(a) \notin Cells(s, o, w) => ReadU8(cpu.bus, a) = ReadU8(Before.bus, a)
      /\ ReadMem(cpu, s, o, w) = x
  <2> DEFINE m == WriteMem(n, s, o, x, w)
  <2> HIDE DEF w, n, s, o, x
  <2>1. CpuShape(n) /\ s \in Word /\ o \in Word /\ w \in Widths /\ x \in Unsigned(w)
    BY <1>3, <1>4
  <2>2. /\ CpuShape(m) /\ m.reg = n.reg /\ m.seg = n.seg
        /\ m.bus.dirty = n.bus.dirty \union Cells(s, o, w)
        /\ \A a : Index(a) \notin Cells(s, o, w) => ReadU8(m.bus, a) = ReadU8(n.bus, a)
        /\ ReadMem(m, s, o, w) = x
    BY <2>1, WriteIs
  <2>3. cpu = m
    BY <1>3
  <2> HIDE DEF m
  <2> QED
    BY <1>3, <1>4, <2>2, <2>3
<1> HIDE DEF w, n, s, o, x
<1>6. SameOperand(again) /\ Numbered(again) /\ again.bus = cpu.bus
  <2>1. /\ CpuShape(again) /\ again.ip = ModrmAt /\ again.reg = Before.reg /\ again.seg = Before.seg
        /\ again.bus = cpu.bus
    BY <1>5 DEF CpuShape
  <2>2. ASSUME NEW a \in OperandBytes PROVE ReadU8(cpu.bus, a) = ReadU8(Before.bus, a)
    <3>1. Index(a) = a
      BY <1>1, OperandBytesAreCells
    <3>2. a \notin Cells(s, o, w)
      BY <1>5
    <3> QED
      BY <1>5, <3>1, <3>2
  <2> HIDE DEF again
  <2> QED
    BY <1>4, <2>1, <2>2 DEF SameOperand, Numbered
<1> HIDE DEF again
<1>7. SameOperand(wiped) /\ Numbered(wiped) /\ wiped.bus = cpu.bus
  <2>1. CASE ModrmReg \in Addressing
    BY <1>6, <2>1
  <2>2. CASE ModrmReg \notin Addressing
    <3> DEFINE i == ModrmReg
    <3>1. 0 \in Unsigned(w)
      BY <1>3, ZeroIsUnsigned
    <3>2. i \in 0 .. 7 /\ Numbered(again) /\ w \in Widths
      BY <1>3, <1>4, <1>6
    <3>3. /\ Numbered(wiped) /\ wiped.seg = again.seg /\ wiped.ip = again.ip /\ wiped.bus = again.bus
          /\ \A j \in AX .. DI : j # WordOf(i, w) => wiped.reg[j] = again.reg[j]
      <4>1. wiped = Store(again, Register(i), 0, w)
        BY <2>2
      <4> DEFINE m == Store(again, Register(i), 0, w)
      <4> HIDE DEF i
      <4>2. Held(m, again, i, w, 0)
        BY <3>1, <3>2, RegisterHolds
      <4>3. wiped = m
        BY <4>1
      <4> HIDE DEF wiped, m
      <4> QED
        BY <4>2, <4>3 DEF Held
    <3>4. WordOf(i, w) \notin Addressing
      BY <1>3, <1>4, <2>2 DEF WordOf, Addressing, BX, BP, SI, DI, Widths
    <3>5. Addressing \subseteq AX .. DI
      BY DEF Addressing, AX, BX, BP, SI, DI
    <3> HIDE DEF wiped, i
    <3> QED
      BY <1>6, <3>3, <3>4, <3>5 DEF SameOperand, Numbered
  <2> QED
    BY <2>1, <2>2
<1> HIDE DEF wiped
<1>8. ReadMem(wiped, s, o, w) = x
  BY <1>5, <1>7 DEF ReadMem
<1>9. Value(Execute(wiped, opcode + 2, override), Register(ModrmReg), w) = x
  BY <1>1, <1>4, <1>7, <1>8, LoadIs DEF w, s, o
<1> QED
  BY <1>9 DEF x, Source, w, wiped, again

\* In every case any fixtures have, LEA and MOV to memory take the operand where its
\* addressing mode, its displacement and its segment say, at the ends of a segment and of
\* memory too, consume its bytes and no more, touch the cells of that operand and no
\* others, and MOV loads from there what MOV stored.
THEOREM OperandsAreWhereTheySay == Spec => []OperandsAreExact
<1> DEFINE Inv == Placed /\ Traced /\ Scanned /\ Stepping /\ Overridden
<1>1. Init => Inv
  BY PlacedAtFirst, TracedAtFirst
     DEF Init, Scanned, V20OnlyIsSkipped, Stepping, Judged, Overridden, Running
<1>2. Inv /\ [Next]_vars => Inv'
  BY PlacedKept, TracedKept, ScannedKept, SteppingKept, OverriddenKept
<1>3. Inv => OperandsAreExact
  BY OperandsFound, LoadsReturn DEF OperandsAreExact
<1> QED
  BY <1>1, <1>2, <1>3, PTL DEF Spec
=====================================================================================
