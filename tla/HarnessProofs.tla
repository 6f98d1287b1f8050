-------------------------------- MODULE HarnessProofs --------------------------------
(***********************************************************************************)
(* Proofs about V20Harness and the verdicts it comes to.                           *)
(***********************************************************************************)
EXTENDS Verdicts, CommonLemmas, FiniteSetTheorems

---------------------------------------------------------------------------------
(* Nothing escapes the list of dirty cells. A CPU is tidy for a set of cells when  *)
(* its bus holds no cell but those and the ones marked dirty. No instruction makes *)
(* a tidy CPU untidy: whatever it computes, it stores through Mem::write_u8.       *)

CpuShape(c) ==
  c = [ reg |-> c.reg, seg |-> c.seg, ip |-> c.ip, flags |-> c.flags, halted |-> c.halted,
        outcome |-> c.outcome, bus |-> c.bus ]

Kept(bus, cells) == DOMAIN bus.bytes \subseteq cells \union bus.dirty

Tidy(c, cells) == CpuShape(c) /\ Kept(c.bus, cells)

\* A byte written is a dirty cell.
LEMMA WriteKeeps ==
  ASSUME NEW cells, NEW bus, NEW a, NEW v, Kept(bus, cells)
  PROVE  Kept(WriteU8(bus, a, v), cells)
  BY DEF Kept, WriteU8, Put

\* Registers, flags and the like have nothing to do with the memory.
LEMMA FieldsTidy ==
  ASSUME NEW c, NEW cells, NEW v, Tidy(c, cells)
  PROVE  /\ Tidy([ c EXCEPT !.reg = v ], cells) /\ Tidy([ c EXCEPT !.seg = v ], cells)
         /\ Tidy([ c EXCEPT !.ip = v ], cells) /\ Tidy([ c EXCEPT !.flags = v ], cells)
         /\ Tidy([ c EXCEPT !.halted = v ], cells) /\ Tidy([ c EXCEPT !.outcome = v ], cells)
<1>1. Tidy([ c EXCEPT !.reg = v ], cells) /\ Tidy([ c EXCEPT !.seg = v ], cells)
  BY DEF Tidy, CpuShape
<1>2. Tidy([ c EXCEPT !.ip = v ], cells) /\ Tidy([ c EXCEPT !.flags = v ], cells)
  BY DEF Tidy, CpuShape
<1>3. Tidy([ c EXCEPT !.halted = v ], cells) /\ Tidy([ c EXCEPT !.outcome = v ], cells)
  BY DEF Tidy, CpuShape
<1> QED
  BY <1>1, <1>2, <1>3

LEMMA RegistersTidy ==
  ASSUME NEW c, NEW cells, NEW v, NEW i, Tidy(c, cells)
  PROVE  /\ Tidy(SetRegister(c, i, v), cells) /\ Tidy([ c EXCEPT !.seg[i] = v ], cells)
         /\ Tidy(WithFlags(c, v), cells) /\ Tidy(Past(c, v), cells)
         /\ Tidy(JumpTo(c, v), cells) /\ Tidy(JumpFar(c, i, v), cells)
<1>1. Tidy(SetRegister(c, i, v), cells) /\ Tidy(WithFlags(c, v), cells)
  BY FieldsTidy DEF SetRegister, WithFlags
<1>2. Tidy(Past(c, v), cells) /\ Tidy(JumpTo(c, v), cells)
  BY FieldsTidy DEF Past, JumpTo
<1>3. \A j : Tidy([ c EXCEPT !.seg[j] = v ], cells) /\ Tidy([ c EXCEPT !.seg[j] = i ], cells)
  BY FieldsTidy
<1>4. Tidy(JumpFar(c, i, v), cells)
  BY <1>3, FieldsTidy DEF JumpFar
<1> QED
  BY <1>1, <1>2, <1>3, <1>4

LEMMA ReleaseTidy ==
  ASSUME NEW c, NEW cells, NEW n, Tidy(c, cells)
  PROVE  Tidy(Release(c, n), cells) /\ Tidy(Unimplemented(c), cells)
  BY FieldsTidy, RegistersTidy DEF Release, Unimplemented

LEMMA WriteMemTidy ==
  ASSUME NEW c, NEW cells, Tidy(c, cells), NEW s, NEW o, NEW v, NEW w
  PROVE  Tidy(WriteMem(c, s, o, v, w), cells)
  BY WriteKeeps DEF Tidy, CpuShape, WriteMem

\* An operand is a register or a place in memory, whatever its number.
IsOperand(p) == p.kind \in {"register", "memory"}

LEMMA Operands ==
  /\ \A i : IsOperand(Register(i))
  /\ \A s, o : IsOperand(Memory(s, o))
  /\ \A op : Width(op) \in {8, 16}
  BY DEF IsOperand, Register, Memory, Width

LEMMA StoreTidy ==
  ASSUME NEW c, NEW cells, Tidy(c, cells), NEW p, IsOperand(p), NEW v, NEW w \in {8, 16}
  PROVE  Tidy(Store(c, p, v, w), cells)
<1>1. CASE p.kind = "memory"
  BY <1>1, WriteMemTidy DEF Store
<1>2. CASE p.kind = "register"
  <2>1. \A i, x : Tidy(SetRegister(c, i, x), cells)
    BY RegistersTidy
  <2> QED
    BY <1>2, <2>1 DEF Store
<1> QED
  BY <1>1, <1>2 DEF IsOperand

LEMMA DecodeTidy ==
  ASSUME NEW c, NEW cells, Tidy(c, cells), NEW chosen
  PROVE  LET m == DecodeModrm(c, chosen) IN Tidy(m.after, cells) /\ IsOperand(m.rm)
<1>1. \A w, u : Tidy(Past(c, w), cells) /\ Tidy(Past(Past(c, w), u), cells)
  BY RegistersTidy
<1>2. Tidy(DecodeModrm(c, chosen).after, cells)
  BY <1>1 DEF DecodeModrm
<1>3. IsOperand(DecodeModrm(c, chosen).rm)
  BY Operands DEF DecodeModrm
<1> QED
  BY <1>2, <1>3

LEMMA PushTidy ==
  ASSUME NEW c, NEW cells, Tidy(c, cells), NEW v
  PROVE  Tidy(Push(c, v), cells) /\ Tidy(PushFar(c), cells)
<1>1. \A d, x : Tidy(d, cells) => Tidy(Push(d, x), cells)
  <2> TAKE d, x
  <2> HAVE Tidy(d, cells)
  <2>1. \A y : Tidy(SetRegister(d, SP, y), cells)
    BY RegistersTidy
  <2> QED
    BY <2>1, WriteMemTidy DEF Push
<1> QED
  BY <1>1 DEF PushFar

LEMMA ServiceTidy ==
  ASSUME NEW c, NEW cells, Tidy(c, cells), NEW vector
  PROVE  Tidy(ServiceInterrupt(c, vector), cells)
<1> DEFINE pushed == PushFar(WithFlags(Push(c, ToWord(c.flags)), c.flags \ {"interrupt", "trap"}))
<1>1. Tidy(pushed, cells)
  BY PushTidy, RegistersTidy
<1>2. ServiceInterrupt(c, vector) =
        [ JumpFar(pushed, ReadMem(pushed, 0, 4 * vector + 2, 16), ReadMem(pushed, 0, 4 * vector, 16))
          EXCEPT !.halted = FALSE ]
  BY DEF ServiceInterrupt
<1> HIDE DEF pushed
<1>3. \A i, v : Tidy(JumpFar(pushed, i, v), cells)
  BY <1>1, RegistersTidy
<1>4. \A d : Tidy(d, cells) => Tidy([ d EXCEPT !.halted = FALSE ], cells)
  BY FieldsTidy
<1> QED
  BY <1>2, <1>3, <1>4

LEMMA ResultsTidy ==
  ASSUME NEW c, NEW cells, Tidy(c, cells), NEW p, IsOperand(p), NEW w \in {8, 16}
  PROVE  /\ \A r : Tidy(Apply(c, r, p, w), cells)
         /\ \A operation, b : Tidy(Combine(c, operation, p, b, w), cells)
<1>1. \A r : Tidy(WithFlags(c, r.flags), cells)
  BY RegistersTidy
<1>2. \A r : Tidy(Apply(c, r, p, w), cells)
  BY <1>1, StoreTidy DEF Apply
<1> QED
  BY <1>1, <1>2 DEF Combine

---------------------------------------------------------------------------------
(* The opcode table, group by group.                                               *)

LEMMA AluTidy ==
  ASSUME NEW c, NEW cells, Tidy(c, cells), NEW chosen, NEW op \in AluBlock
  PROVE  Tidy(ExecuteAlu(c, op, chosen), cells)
<1> DEFINE m == DecodeModrm(c, chosen)
           w == Width(op)
<1>1. Tidy(m.after, cells) /\ IsOperand(m.rm)
  BY DecodeTidy
<1>2. w \in {8, 16}
  BY Operands
<1>3. Tidy(Past(c, w), cells)
  BY RegistersTidy
<1>4. op % 8 \in 0 .. 5
  BY DEF AluBlock
<1>5. IsOperand(Register(m.reg)) /\ IsOperand(Accumulator)
  BY Operands DEF Accumulator
<1> HIDE DEF m, w
<1>6. \A operation, b : /\ Tidy(Combine(m.after, operation, m.rm, b, w), cells)
                        /\ Tidy(Combine(m.after, operation, Register(m.reg), b, w), cells)
                        /\ Tidy(Combine(Past(c, w), operation, Accumulator, b, w), cells)
  BY <1>1, <1>2, <1>3, <1>5, ResultsTidy
<1> QED
  BY <1>4, <1>6 DEF ExecuteAlu, m, w

LEMMA MoveTidy ==
  ASSUME NEW c, NEW cells, Tidy(c, cells), NEW chosen, NEW op \in MoveModrm
  PROVE  Tidy(ExecuteMove(c, op, chosen), cells)
<1> DEFINE m == DecodeModrm(c, chosen)
           n == m.after
           w == Width(op)
<1>1. Tidy(n, cells) /\ IsOperand(m.rm)
  BY DecodeTidy
<1>2. w \in {8, 16}
  BY Operands
<1>3. IsOperand(Register(m.reg))
  BY Operands
<1> HIDE DEF m, n, w
<1>4. \A v : /\ Tidy(Store(n, m.rm, v, w), cells) /\ Tidy(Store(n, m.rm, v, 16), cells)
             /\ Tidy(Store(n, Register(m.reg), v, w), cells)
             /\ Tidy(Store(Past(n, w), m.rm, v, w), cells)
             /\ Tidy(SetRegister(n, m.reg, v), cells)
             /\ Tidy([ n EXCEPT !.seg[m.reg % 4] = v ], cells)
  BY <1>1, <1>2, <1>3, StoreTidy, RegistersTidy
<1>5. CASE op \in {\h88, \h89}
  <2>1. ExecuteMove(c, op, chosen) = Store(n, m.rm, Value(n, Register(m.reg), w), w)
    BY <1>5 DEF ExecuteMove, m, n, w
  <2> QED
    BY <1>4, <2>1
<1>6. CASE op \in {\h8A, \h8B}
  <2>1. ExecuteMove(c, op, chosen) = Store(n, Register(m.reg), Value(n, m.rm, w), w)
    BY <1>6 DEF ExecuteMove, m, n, w
  <2> QED
    BY <1>4, <2>1
<1>7. CASE op = \h8C
  <2>1. ExecuteMove(c, op, chosen) = Store(n, m.rm, n.seg[m.reg % 4], 16)
    BY <1>7 DEF ExecuteMove, m, n, w
  <2> QED
    BY <1>4, <2>1
<1>8. CASE op = \h8D
  <2>1. ExecuteMove(c, op, chosen) = IF m.rm.kind = "memory" THEN SetRegister(n, m.reg, m.rm.offset) ELSE n
    BY <1>8 DEF ExecuteMove, m, n, w
  <2> QED
    BY <1>1, <1>4, <2>1
<1>9. CASE op = \h8E
  <2>1. ExecuteMove(c, op, chosen) = [ n EXCEPT !.seg[m.reg % 4] = Value(n, m.rm, 16) ]
    BY <1>9 DEF ExecuteMove, m, n, w
  <2> QED
    BY <1>4, <2>1
<1>10. CASE op \in {\hC6, \hC7}
  <2>1. ExecuteMove(c, op, chosen) = Store(Past(n, w), m.rm, Immediate(n, w), w)
    BY <1>10 DEF ExecuteMove, m, n, w
  <2> QED
    BY <1>4, <2>1
<1> QED
  BY <1>5, <1>6, <1>7, <1>8, <1>9, <1>10 DEF MoveModrm

LEMMA MoveDirectTidy ==
  ASSUME NEW c, NEW cells, Tidy(c, cells), NEW chosen, NEW op \in MoveDirect
  PROVE  Tidy(ExecuteMoveDirect(c, op, chosen), cells)
<1> DEFINE place == Memory(SegmentOr(c, chosen, DS), Immediate(c, 16))
           n == Past(c, 16)
           w == Width(op)
<1>1. Tidy(n, cells) /\ Tidy(Past(c, 8), cells)
  BY RegistersTidy
<1>2. w \in {8, 16}
  BY Operands
<1>3. IsOperand(place) /\ IsOperand(Accumulator) /\ IsOperand(Register(op % 8))
  BY Operands DEF Accumulator
<1> HIDE DEF place, n, w
<1>4. \A v : /\ Tidy(Store(n, Accumulator, v, w), cells) /\ Tidy(Store(n, place, v, w), cells)
             /\ Tidy(Store(Past(c, 8), Register(op % 8), v, 8), cells)
             /\ Tidy(Store(n, Register(op % 8), v, 16), cells)
  BY <1>1, <1>2, <1>3, StoreTidy
<1>5. CASE op \in {\hA0, \hA1}
  <2>1. ExecuteMoveDirect(c, op, chosen) = Store(n, Accumulator, Value(n, place, w), w)
    BY <1>5 DEF ExecuteMoveDirect, place, n, w
  <2> QED
    BY <1>4, <2>1
<1>6. CASE op \in {\hA2, \hA3}
  <2>1. ExecuteMoveDirect(c, op, chosen) = Store(n, place, Value(n, Accumulator, w), w)
    BY <1>6 DEF ExecuteMoveDirect, place, n, w
  <2> QED
    BY <1>4, <2>1
<1>7. CASE op \in \hB0 .. \hB7
  <2>1. ExecuteMoveDirect(c, op, chosen) = Store(Past(c, 8), Register(op % 8), Immediate(c, 8), 8)
    BY <1>7 DEF ExecuteMoveDirect
  <2> QED
    BY <1>4, <2>1
<1>8. CASE op \in \hB8 .. \hBF
  <2>1. ExecuteMoveDirect(c, op, chosen) = Store(n, Register(op % 8), Immediate(c, 16), 16)
    BY <1>8 DEF ExecuteMoveDirect, n
  <2> QED
    BY <1>4, <2>1
<1> QED
  BY <1>5, <1>6, <1>7, <1>8 DEF MoveDirect

LEMMA ExchangeTidy ==
  ASSUME NEW c, NEW cells, Tidy(c, cells), NEW chosen, NEW op
  PROVE  Tidy(ExecuteExchange(c, op, chosen), cells)
<1> DEFINE m == DecodeModrm(c, chosen)
           w == Width(op)
<1>1. Tidy(m.after, cells) /\ IsOperand(m.rm)
  BY DecodeTidy
<1>2. w \in {8, 16}
  BY Operands
<1>3. IsOperand(Register(m.reg)) /\ IsOperand(Accumulator) /\ IsOperand(Register(op % 8))
  BY Operands DEF Accumulator
<1>4. \A d, p, q, u : Tidy(d, cells) /\ IsOperand(p) /\ IsOperand(q) /\ u \in {8, 16}
                        => Tidy(Exchange(d, p, q, u), cells)
  BY StoreTidy DEF Exchange
<1> HIDE DEF m, w
<1>5. ExecuteExchange(c, op, chosen) = IF op \in {\h86, \h87}
                                       THEN Exchange(m.after, m.rm, Register(m.reg), w)
                                       ELSE Exchange(c, Accumulator, Register(op % 8), 16)
  BY DEF ExecuteExchange, m, w
<1> QED
  BY <1>1, <1>2, <1>3, <1>4, <1>5

LEMMA Group1Tidy ==
  ASSUME NEW c, NEW cells, Tidy(c, cells), NEW chosen, NEW op
  PROVE  Tidy(ExecuteGroup1(c, op, chosen), cells)
<1> DEFINE m == DecodeModrm(c, chosen)
           n == m.after
           w == Width(op)
           given == IF op = \h81 THEN 16 ELSE 8
           b == IF op = \h83 THEN SignExtended(Immediate(n, 8)) ELSE Immediate(n, given)
<1>1. Tidy(n, cells) /\ IsOperand(m.rm)
  BY DecodeTidy
<1>2. w \in {8, 16}
  BY Operands
<1> HIDE DEF m, n, w, given, b
<1>3. Tidy(Past(n, given), cells)
  BY <1>1, RegistersTidy
<1>4. ExecuteGroup1(c, op, chosen) = Combine(Past(n, given), m.reg, m.rm, b, w)
  BY DEF ExecuteGroup1, m, n, w, given, b
<1> QED
  BY <1>1, <1>2, <1>3, <1>4, ResultsTidy

LEMMA SingleTidy ==
  ASSUME NEW c, NEW cells, Tidy(c, cells), NEW chosen, NEW op \in Singles
  PROVE  Tidy(ExecuteSingle(c, op, chosen), cells)
<1> DEFINE m == DecodeModrm(c, chosen)
           w == Width(op)
<1>1. Tidy(m.after, cells)
  BY DecodeTidy
<1>2. w \in {8, 16}
  BY Operands
<1>3. IsOperand(Accumulator) /\ IsOperand(Register(op % 8))
  BY Operands DEF Accumulator
<1> HIDE DEF m, w
<1>4. \A v, i : /\ Tidy(Apply(c, v, Register(op % 8), 16), cells)
                /\ Tidy(WithFlags(m.after, v), cells) /\ Tidy(WithFlags(Past(c, w), v), cells)
                /\ Tidy(SetRegister(c, i, v), cells) /\ Tidy(Store(c, Accumulator, v, 8), cells)
  BY <1>1, <1>2, <1>3, StoreTidy, RegistersTidy, ResultsTidy
<1>5. CASE op \in \h40 .. \h47
  BY <1>4, <1>5 DEF ExecuteSingle
<1>6. CASE op \in \h48 .. \h4F
  BY <1>4, <1>6 DEF ExecuteSingle
<1>7. CASE op \in {\h84, \h85}
  <2>1. ExecuteSingle(c, op, chosen)
          = WithFlags(m.after, Test(c.flags, Value(c, m.rm, w), Value(c, Register(m.reg), w), w).flags)
    BY <1>7 DEF ExecuteSingle, m, w
  <2> QED
    BY <1>4, <2>1
<1>8. CASE op \in {\hA8, \hA9}
  <2>1. ExecuteSingle(c, op, chosen)
          = WithFlags(Past(c, w), Test(c.flags, Value(c, Accumulator, w), Immediate(c, w), w).flags)
    BY <1>8 DEF ExecuteSingle, w
  <2> QED
    BY <1>4, <2>1
<1>9. CASE op \in {\h98, \h99, \hD6}
  BY <1>4, <1>9 DEF ExecuteSingle
<1> QED
  BY <1>5, <1>6, <1>7, <1>8, <1>9 DEF Singles

LEMMA WideTidy ==
  ASSUME NEW c, NEW cells, Tidy(c, cells), NEW b, NEW signed, NEW w
  PROVE  Tidy(Multiply(c, b, signed, w), cells) /\ Tidy(Divide(c, b, signed, w), cells)
<1>1. \A d, i, v : Tidy(d, cells) => Tidy(SetRegister(d, i, v), cells) /\ Tidy(WithFlags(d, v), cells)
  BY RegistersTidy
<1>2. \A d : Tidy(SetWide(c, d, w), cells)
  BY <1>1 DEF SetWide
<1>3. Tidy(Multiply(c, b, signed, w), cells)
  BY <1>1, <1>2 DEF Multiply
<1>4. Tidy(ServiceInterrupt(c, 0), cells)
  BY ServiceTidy
<1> QED
  BY <1>2, <1>3, <1>4 DEF Divide

LEMMA Group3Tidy ==
  ASSUME NEW c, NEW cells, Tidy(c, cells), NEW chosen, NEW op
  PROVE  Tidy(ExecuteGroup3(c, op, chosen), cells)
<1> DEFINE m == DecodeModrm(c, chosen)
           n == m.after
           w == Width(op)
           a == Value(n, m.rm, w)
<1>1. Tidy(n, cells) /\ IsOperand(m.rm)
  BY DecodeTidy
<1>2. w \in {8, 16}
  BY Operands
<1> HIDE DEF m, n, w, a
<1>3. Tidy(Past(n, w), cells)
  BY <1>1, RegistersTidy
<1>4. /\ \A v : /\ Tidy(WithFlags(Past(n, w), v), cells)
                /\ Tidy(Store(n, m.rm, v, w), cells) /\ Tidy(Apply(n, v, m.rm, w), cells)
      /\ \A s : Tidy(Multiply(n, a, s, w), cells) /\ Tidy(Divide(n, a, s, w), cells)
  BY <1>1, <1>2, <1>3, RegistersTidy, StoreTidy, ResultsTidy, WideTidy
<1>5. ExecuteGroup3(c, op, chosen) =
        CASE m.reg \in {0, 1} -> WithFlags(Past(n, w), Test(n.flags, a, Immediate(n, w), w).flags)
          [] m.reg = 2        -> Store(n, m.rm, Not(a, w), w)
          [] m.reg = 3        -> Apply(n, Neg(n.flags, a, w), m.rm, w)
          [] m.reg \in {4, 5} -> Multiply(n, a, m.reg = 5, w)
          [] OTHER            -> Divide(n, a, m.reg = 7, w)
  BY DEF ExecuteGroup3, m, n, w, a
<1> QED
  BY <1>4, <1>5

LEMMA Group2Tidy ==
  ASSUME NEW c, NEW cells, Tidy(c, cells), NEW chosen, NEW op
  PROVE  Tidy(ExecuteGroup2(c, op, chosen), cells)
<1> DEFINE m == DecodeModrm(c, chosen)
           w == Width(op)
           n == IF op \in {\hC0, \hC1} THEN Past(m.after, 8) ELSE m.after
           count == CASE op \in {\hC0, \hC1} -> Immediate(m.after, 8)
                      [] op \in {\hD0, \hD1} -> 1
                      [] op \in {\hD2, \hD3} -> LowByte(c.reg[CX])
<1>1. Tidy(m.after, cells) /\ IsOperand(m.rm)
  BY DecodeTidy
<1>2. w \in {8, 16}
  BY Operands
<1> HIDE DEF m, w, n, count
<1>3. Tidy(Past(m.after, 8), cells)
  BY <1>1, RegistersTidy
<1>4. Tidy(n, cells)
  BY <1>1, <1>3 DEF n
<1>5. ExecuteGroup2(c, op, chosen)
        = Apply(n, ShiftRotate(n.flags, m.reg, Value(n, m.rm, w), count, w), m.rm, w)
  BY DEF ExecuteGroup2, m, w, n, count
<1> QED
  BY <1>1, <1>2, <1>4, <1>5, ResultsTidy

LEMMA StackTidy ==
  ASSUME NEW c, NEW cells, Tidy(c, cells), NEW chosen, NEW op \in StackOps
  PROVE  Tidy(ExecuteStack(c, op, chosen), cells)
<1> DEFINE m == DecodeModrm(c, chosen)
           n == Release(c, 2)
           s == (op \div 8) % 4
           WithSegment(v) == [ n EXCEPT !.seg[s] = v ]
<1>1. Tidy(m.after, cells) /\ IsOperand(m.rm)
  BY DecodeTidy
<1>2. Tidy(n, cells)
  BY ReleaseTidy
<1> HIDE DEF m, n, s
<1>3. Tidy(Release(m.after, 2), cells)
  BY <1>1, ReleaseTidy
<1>4. \A v, i : /\ Tidy(Push(c, v), cells) /\ Tidy(SetRegister(n, i, v), cells)
                /\ Tidy(Store(Release(m.after, 2), m.rm, v, 16), cells)
                /\ Tidy(WithSegment(v), cells) /\ Tidy(WithFlags(n, v), cells)
  BY <1>1, <1>2, <1>3, PushTidy, RegistersTidy, StoreTidy
<1> HIDE DEF WithSegment
<1>5. CASE op \in \h50 .. \h57
  <2>1. ExecuteStack(c, op, chosen) = Push(c, c.reg[op % 8])
    BY <1>5 DEF ExecuteStack
  <2> QED
    BY <1>4, <2>1
<1>6. CASE op \in \h58 .. \h5F
  <2>1. ExecuteStack(c, op, chosen) = SetRegister(n, op % 8, Popped(c))
    BY <1>6 DEF ExecuteStack, n
  <2> QED
    BY <1>4, <2>1
<1>7. CASE op \in {\h06, \h0E, \h16, \h1E}
  <2>1. ExecuteStack(c, op, chosen) = Push(c, c.seg[s])
    BY <1>7 DEF ExecuteStack, s
  <2> QED
    BY <1>4, <2>1
<1>8. CASE op \in {\h07, \h17, \h1F}
  <2>1. ExecuteStack(c, op, chosen) = WithSegment(Popped(c))
    BY <1>8 DEF ExecuteStack, WithSegment, n, s
  <2> QED
    BY <1>4, <2>1
<1>9. CASE op = \h8F
  <2>1. ExecuteStack(c, op, chosen) = Store(Release(m.after, 2), m.rm, Popped(m.after), 16)
    BY <1>9 DEF ExecuteStack, m
  <2> QED
    BY <1>4, <2>1
<1>10. CASE op = \h9D
  <2>1. ExecuteStack(c, op, chosen) = WithFlags(n, FromWord(Popped(c)))
    BY <1>10 DEF ExecuteStack, n
  <2> QED
    BY <1>4, <2>1
<1>11. CASE op = \h9C
  <2>1. ExecuteStack(c, op, chosen) = Push(c, ToWord(c.flags))
    BY <1>11 DEF ExecuteStack
  <2> QED
    BY <1>4, <2>1
<1> QED
  BY <1>5, <1>6, <1>7, <1>8, <1>9, <1>10, <1>11 DEF StackOps

LEMMA JumpTidy ==
  ASSUME NEW c, NEW cells, Tidy(c, cells), NEW op \in Jumps
  PROVE  Tidy(ExecuteJump(c, op), cells)
<1> DEFINE short   == Past(c, 8)
           near    == Past(c, 16)
           counted == IF op = \hE3 THEN short ELSE SetRegister(short, CX, Wrap(c.reg[CX] - 1))
<1>1. Tidy(short, cells) /\ Tidy(near, cells)
  BY RegistersTidy
<1> HIDE DEF short, near
<1>2. Tidy(counted, cells)
  BY <1>1, RegistersTidy
<1> HIDE DEF counted
<1>3. \A i, v : Tidy(JumpTo(short, v), cells) /\ Tidy(JumpTo(counted, v), cells)
               /\ Tidy(JumpTo(near, v), cells) /\ Tidy(JumpFar(c, i, v), cells)
  BY <1>1, <1>2, RegistersTidy
<1>4. CASE op \in \h70 .. \h7F
  <2>1. ExecuteJump(c, op) = IF Condition(c.flags, op % 16)
                             THEN JumpTo(short, short.ip + SignExtended(Immediate(c, 8))) ELSE short
    BY <1>4 DEF ExecuteJump, short
  <2> QED
    BY <1>1, <1>3, <2>1
<1>5. CASE op \in \hE0 .. \hE3
  <2>1. ExecuteJump(c, op) = IF Looping(counted, op)
                             THEN JumpTo(counted, counted.ip + SignExtended(Immediate(c, 8))) ELSE counted
    BY <1>5 DEF ExecuteJump, counted, short
  <2> QED
    BY <1>2, <1>3, <2>1
<1>6. CASE op = \hEB
  <2>1. ExecuteJump(c, op) = JumpTo(short, short.ip + SignExtended(Immediate(c, 8)))
    BY <1>6 DEF ExecuteJump, short
  <2> QED
    BY <1>3, <2>1
<1>7. CASE op = \hE9
  <2>1. ExecuteJump(c, op) = JumpTo(near, near.ip + Immediate(c, 16))
    BY <1>7 DEF ExecuteJump, near
  <2> QED
    BY <1>3, <2>1
<1>8. CASE op = \hEA
  <2>1. ExecuteJump(c, op) = JumpFar(c, Immediate(near, 16), Immediate(c, 16))
    BY <1>8 DEF ExecuteJump, near
  <2> QED
    BY <1>3, <2>1
<1> QED
  BY <1>4, <1>5, <1>6, <1>7, <1>8 DEF Jumps

LEMMA ReturnsTidy ==
  ASSUME NEW c, NEW cells, Tidy(c, cells)
  PROVE  /\ Tidy(ReturnNear(c), cells) /\ Tidy(ReturnFar(c), cells) /\ Tidy(ReturnInterrupt(c), cells)
<1>1. \A d, i, v : Tidy(d, cells) =>
        /\ Tidy(Release(d, v), cells) /\ Tidy(JumpTo(d, v), cells) /\ Tidy(JumpFar(d, i, v), cells)
        /\ Tidy(WithFlags(d, v), cells)
  BY ReleaseTidy, RegistersTidy
<1>2. Tidy(ReturnNear(c), cells)
  BY <1>1 DEF ReturnNear
<1>3. Tidy(ReturnFar(c), cells)
  BY <1>1, <1>2 DEF ReturnFar
<1> QED
  BY <1>1, <1>2, <1>3 DEF ReturnInterrupt

LEMMA CallTidy ==
  ASSUME NEW c, NEW cells, Tidy(c, cells), NEW op \in Calls
  PROVE  Tidy(ExecuteCall(c, op), cells)
<1> DEFINE near == Past(c, 16)
           far  == Past(near, 16)
<1>1. Tidy(near, cells) /\ Tidy(Past(c, 8), cells)
  BY RegistersTidy
<1> HIDE DEF near
<1>2. Tidy(far, cells)
  BY <1>1, RegistersTidy
<1> HIDE DEF far
<1>3. Tidy(PushFar(far), cells) /\ \A v : Tidy(Push(near, v), cells)
  BY <1>1, <1>2, PushTidy
<1>4. \A v, i, u : Tidy(JumpTo(Push(near, v), i), cells) /\ Tidy(JumpFar(PushFar(far), i, u), cells)
  BY <1>3, RegistersTidy
<1>5. /\ Tidy(ReturnNear(c), cells) /\ Tidy(ReturnFar(c), cells) /\ Tidy(ReturnInterrupt(c), cells)
      /\ \A v : Tidy(Release(ReturnNear(c), v), cells) /\ Tidy(Release(ReturnFar(c), v), cells)
  BY ReturnsTidy, ReleaseTidy
<1>6. \A v : Tidy(ServiceInterrupt(c, v), cells) /\ Tidy(ServiceInterrupt(Past(c, 8), v), cells)
  BY <1>1, ServiceTidy
<1>7. CASE op = \hE8
  <2>1. ExecuteCall(c, op) = JumpTo(Push(near, near.ip), near.ip + Immediate(c, 16))
    BY <1>7 DEF ExecuteCall, near
  <2> QED
    BY <1>4, <2>1
<1>8. CASE op = \h9A
  <2>1. ExecuteCall(c, op) = JumpFar(PushFar(far), Immediate(near, 16), Immediate(c, 16))
    BY <1>8 DEF ExecuteCall, near, far
  <2> QED
    BY <1>4, <2>1
<1>9. CASE op \in {\hC2, \hC3, \hCA, \hCB, \hCF}
  BY <1>5, <1>9 DEF ExecuteCall
<1>10. CASE op \in {\hCC, \hCD, \hCE}
  BY <1>6, <1>10 DEF ExecuteCall
<1> QED
  BY <1>7, <1>8, <1>9, <1>10 DEF Calls

LEMMA Groups45Tidy ==
  ASSUME NEW c, NEW cells, Tidy(c, cells), NEW chosen, NEW op
  PROVE  Tidy(ExecuteGroups45(c, op, chosen), cells)
<1> DEFINE m       == DecodeModrm(c, chosen)
           n       == m.after
           w       == Width(op)
           v       == Value(n, m.rm, w)
           segment == ReadMem(n, m.rm.segment, Wrap(m.rm.offset + 2), 16)
<1>1. Tidy(n, cells) /\ IsOperand(m.rm)
  BY DecodeTidy
<1>2. w \in {8, 16}
  BY Operands
<1> HIDE DEF m, n, w, v, segment
<1>3. /\ \A r : Tidy(Apply(n, r, m.rm, w), cells) /\ Tidy(Push(n, r), cells)
      /\ Tidy(PushFar(n), cells) /\ Tidy(Unimplemented(n), cells)
  BY <1>1, <1>2, ResultsTidy, PushTidy, ReleaseTidy
<1>4. /\ \A r : Tidy(JumpTo(Push(n, r), v), cells) /\ Tidy(JumpTo(n, v), cells)
      /\ Tidy(JumpFar(PushFar(n), segment, v), cells) /\ Tidy(JumpFar(n, segment, v), cells)
  BY <1>1, <1>3, RegistersTidy
<1>5. ExecuteGroups45(c, op, chosen) =
        CASE m.reg = 0 -> Apply(n, Inc(n.flags, v, w), m.rm, w)
          [] m.reg = 1 -> Apply(n, Dec(n.flags, v, w), m.rm, w)
          [] op = \hFF /\ m.reg = 2 -> JumpTo(Push(n, n.ip), v)
          [] op = \hFF /\ m.reg = 4 -> JumpTo(n, v)
          [] op = \hFF /\ m.reg = 6 -> Push(n, v)
          [] op = \hFF /\ m.reg = 3 /\ m.rm.kind = "memory" -> JumpFar(PushFar(n), segment, v)
          [] op = \hFF /\ m.reg = 5 /\ m.rm.kind = "memory" -> JumpFar(n, segment, v)
          [] OTHER     -> Unimplemented(n)
  BY DEF ExecuteGroups45, m, n, w, v, segment
<1> QED
  BY <1>3, <1>4, <1>5

LEMMA PortTidy ==
  ASSUME NEW c, NEW cells, Tidy(c, cells), NEW op
  PROVE  Tidy(ExecutePort(c, op), cells)
<1> DEFINE n == IF op < \hE8 THEN Past(c, 8) ELSE c
<1>1. Tidy(n, cells)
  BY RegistersTidy
<1>2. IsOperand(Accumulator) /\ Width(op) \in {8, 16}
  BY Operands DEF Accumulator
<1> HIDE DEF n
<1>3. \A v : Tidy(Store(n, Accumulator, v, Width(op)), cells)
  BY <1>1, <1>2, StoreTidy
<1>4. Tidy([ n EXCEPT !.bus = c.bus ], cells)
  BY <1>1 DEF Tidy, CpuShape
<1>5. \/ \E v : ExecutePort(c, op) = Store(n, Accumulator, v, Width(op))
      \/ ExecutePort(c, op) = [ n EXCEPT !.bus = c.bus ]
  BY DEF ExecutePort, IoWriteU8, n
<1> QED
  BY <1>3, <1>4, <1>5

LEMMA FlagTidy ==
  ASSUME NEW c, NEW cells, Tidy(c, cells), NEW op \in FlagOps
  PROVE  Tidy(ExecuteFlag(c, op), cells)
<1>1. \A f : Tidy(WithFlags(c, f), cells)
  BY RegistersTidy
<1>2. Tidy([ c EXCEPT !.halted = TRUE, !.outcome = "halted" ], cells)
  <2>1. Tidy([ c EXCEPT !.halted = TRUE ], cells)
    BY FieldsTidy
  <2>2. \A d : Tidy(d, cells) => Tidy([ d EXCEPT !.outcome = "halted" ], cells)
    BY FieldsTidy
  <2> QED
    BY <2>1, <2>2
<1>3. CASE op = \hF4
  BY <1>2, <1>3 DEF ExecuteFlag
<1>4. CASE op = \hF5
  BY <1>1, <1>4 DEF ExecuteFlag
<1>5. CASE op \in \hF8 .. \hFD
  BY <1>1, <1>5 DEF ExecuteFlag
<1> QED
  BY <1>3, <1>4, <1>5 DEF FlagOps

LEMMA StringTidy ==
  ASSUME NEW c, NEW cells, Tidy(c, cells), NEW chosen, NEW op \in Strings
  PROVE  Tidy(StringIter(c, op, chosen), cells) /\ Tidy(Iterated(c, op, chosen), cells)
<1> DEFINE w == Width(op)
           source      == Memory(SegmentOr(c, chosen, DS), c.reg[SI])
           destination == Memory(c.seg[ES], c.reg[DI])
           compare(a)  == WithFlags(c, SubCore(c.flags, a, Value(c, destination, w), 0, w).flags)
           done        == CASE op \in {\hA4, \hA5} -> Store(c, destination, Value(c, source, w), w)
                            [] op \in {\hA6, \hA7} -> compare(Value(c, source, w))
                            [] op \in {\hAA, \hAB} -> Store(c, destination, Value(c, Accumulator, w), w)
                            [] op \in {\hAC, \hAD} -> Store(c, Accumulator, Value(c, source, w), w)
                            [] op \in {\hAE, \hAF} -> compare(Value(c, Accumulator, w))
           si == IF op \in ReadsSource THEN Advanced(c, op, c.reg[SI]) ELSE c.reg[SI]
           di == IF op \notin {\hAC, \hAD} THEN Advanced(c, op, c.reg[DI]) ELSE c.reg[DI]
<1>1. w \in {8, 16}
  BY Operands
<1>2. IsOperand(source) /\ IsOperand(destination) /\ IsOperand(Accumulator)
  BY Operands DEF Accumulator
<1> HIDE DEF w, source, destination
<1>3. \A v : /\ Tidy(Store(c, destination, v, w), cells) /\ Tidy(Store(c, Accumulator, v, w), cells)
             /\ Tidy(WithFlags(c, v), cells)
  BY <1>1, <1>2, StoreTidy, RegistersTidy
<1>4. Tidy(done, cells)
  BY <1>3 DEF Strings
<1>5. StringIter(c, op, chosen) = SetRegister(SetRegister(done, SI, si), DI, di)
  BY DEF StringIter, w, source, destination
<1> HIDE DEF done, si, di
<1>6. Tidy(StringIter(c, op, chosen), cells)
  BY <1>4, <1>5, RegistersTidy
<1> QED
  BY <1>6, RegistersTidy DEF Iterated

\* No instruction writes a cell without marking it.
LEMMA ExecuteTidy ==
  ASSUME NEW c, NEW cells, Tidy(c, cells), NEW op, NEW chosen
  PROVE  Tidy(Execute(c, op, chosen), cells)
  BY AluTidy, MoveTidy, MoveDirectTidy, ExchangeTidy, Group1Tidy, SingleTidy, StackTidy, JumpTidy,
     CallTidy, Group2Tidy, Group3Tidy, Groups45Tidy, PortTidy, FlagTidy, StringTidy, ReleaseTidy
  DEF Execute

---------------------------------------------------------------------------------
(* Where the program is. A case is run only when it is one, and not skipped.       *)

Running == phase \in {"step", "repeat", "judge"}

Placed ==
  /\ work \in Workloads
  /\ phase \in {"main", "line", "step", "repeat", "judge", "done", "missing"}
  /\ file \in 1 .. Len(work.files) + 1
  /\ phase = "done" => file = Len(work.files) + 1
  /\ (phase = "line" \/ Running) => file <= Len(work.files) /\ line \in 1 .. Len(Lines) + 1
  /\ Running => line <= Len(Lines) /\ Case.kind = "case" /\ ~ UsesV20Only(Case)

\* The actions that stay in the case, and those that end it or have none.
WithinCase ==
  \/ FetchSegmentPrefix \/ FetchLock \/ FetchRep
  \/ ExecuteOpcode \/ BeginRepeat \/ Repeat \/ EndRepeat

OutsideCase ==
  OpenFile \/ Finish \/ SkipMalformed \/ SkipV20Only \/ CloseFile \/ UNCHANGED vars

LEMMA Steps == [Next]_vars => WithinCase \/ OutsideCase \/ StartCase \/ Judge
  BY DEF Next, Proceed, WithinCase, OutsideCase

LEMMA WithinCaseStays ==
  ASSUME WithinCase
  PROVE  /\ phase \in {"step", "repeat"} /\ Running /\ Running'
         /\ UNCHANGED << work, file, line, Lines, Case, report, grand >>
<1>1. phase \in {"step", "repeat"} /\ Running /\ Running'
  BY DEF WithinCase, Running, FetchSegmentPrefix, FetchLock, FetchRep, ExecuteOpcode, CanExecute,
         BeginRepeat, Repeat, CanRepeat, EndRepeat
<1>2. UNCHANGED << work, file, line, report, grand >>
  BY DEF WithinCase, FetchSegmentPrefix, FetchLock, FetchRep, ExecuteOpcode, BeginRepeat, Repeat,
         EndRepeat, Program
<1>3. UNCHANGED << Lines, Case >>
  BY <1>2 DEF Lines, Case
<1> QED
  BY <1>1, <1>2, <1>3

\* The lines of the file that is open.
LEMMA LinesAreCases ==
  ASSUME Placed, phase = "line" \/ Running
  PROVE  /\ file \in DOMAIN work.files /\ file \in Nat /\ line \in Nat
         /\ Len(Lines) \in Nat /\ DOMAIN Lines = 1 .. Len(Lines)
         /\ \A l \in DOMAIN Lines : \/ Lines[l].kind = "malformed"
                                   \/ (Lines[l].kind = "case" /\ IsCase(Lines[l]))
<1>1. /\ Len(work.files) \in Nat /\ DOMAIN work.files = 1 .. Len(work.files)
      /\ file \in DOMAIN work.files
  BY WorkloadsAssumption DEF Placed
<1> DEFINE lines == work.files[file].lines
<1>2. /\ work.files[file].readable \in BOOLEAN
      /\ Len(lines) \in Nat /\ DOMAIN lines = 1 .. Len(lines)
      /\ \A l \in DOMAIN lines : lines[l].kind = "malformed"
                                \/ (lines[l].kind = "case" /\ IsCase(lines[l]))
  BY <1>1, WorkloadsAssumption DEF Placed
<1>3. Lines = lines \/ Lines = << >>
  BY DEF Lines
<1> HIDE DEF lines
<1>4. line \in 1 .. Len(Lines) + 1
  BY DEF Placed
<1> QED
  BY <1>1, <1>2, <1>3, <1>4

LEMMA PlacedAtFirst == Init => Placed
<1> SUFFICES ASSUME Init PROVE Placed
  OBVIOUS
<1>1. work \in Workloads /\ Len(work.files) \in Nat /\ file = 1 /\ phase \in {"main", "missing"}
  BY WorkloadsAssumption DEF Init
<1> QED
  BY <1>1 DEF Placed, Running

LEMMA PlacedKept == Placed /\ [Next]_vars => Placed'
<1> SUFFICES ASSUME Placed, [Next]_vars PROVE Placed'
  OBVIOUS
<1>1. Len(work.files) \in Nat
  BY WorkloadsAssumption DEF Placed
<1>2. CASE WithinCase
  <2>1. Running /\ Running' /\ UNCHANGED << work, file, line, Lines, Case >>
    BY <1>2, WithinCaseStays
  <2>2. UsesV20Only(Case)' = UsesV20Only(Case)
    BY <2>1
  <2> QED
    BY <2>1, <2>2 DEF Placed, Running
<1>3. CASE StartCase
  <2>1. UNCHANGED << work, file, line, Lines, Case >>
    BY <1>3 DEF StartCase, Program, Lines, Case
  <2> QED
    BY <1>3, <2>1 DEF Placed, StartCase, Running
<1>4. CASE Judge
  <2>1. UNCHANGED << work, file, Lines >> /\ line' = line + 1 /\ phase = "judge" /\ phase' = "line"
    BY <1>4 DEF Judge, Program, Lines
  <2>2. Len(Lines) \in Nat /\ line \in 1 .. Len(Lines) /\ file <= Len(work.files)
    BY <2>1, LinesAreCases DEF Placed, Running
  <2> QED
    BY <2>1, <2>2 DEF Placed, Running
<1>5. CASE OpenFile
  <2>1. UNCHANGED << work, file >> /\ line' = 1 /\ phase' = "line" /\ file <= Len(work.files)
    BY <1>5 DEF OpenFile, Program
  <2>2. Len(Lines') \in Nat
    BY <1>1, <2>1, WorkloadsAssumption DEF Placed, Lines
  <2> QED
    BY <2>1, <2>2 DEF Placed, Running
<1>6. CASE Finish
  BY <1>1, <1>6 DEF Placed, Finish, Program, Running
<1>7. CASE SkipMalformed \/ SkipV20Only
  <2>1. UNCHANGED << work, file, Lines, phase >> /\ line' = line + 1 /\ phase = "line" /\ line <= Len(Lines)
    BY <1>7 DEF SkipMalformed, SkipV20Only, Program, Lines
  <2>2. Len(Lines) \in Nat
    BY <2>1, LinesAreCases
  <2> QED
    BY <2>1, <2>2 DEF Placed, Running
<1>8. CASE CloseFile
  BY <1>1, <1>8 DEF Placed, CloseFile, Running
<1>9. CASE UNCHANGED vars
  <2>1. UNCHANGED << work, file, line, phase, Lines, Case >>
    BY <1>9 DEF vars, Lines, Case
  <2> QED
    BY <2>1 DEF Placed, Running
<1> QED
  BY <1>2, <1>3, <1>4, <1>5, <1>6, <1>7, <1>8, <1>9, Steps DEF OutsideCase

---------------------------------------------------------------------------------
(* The memory is as it was before. While a case runs its CPU is tidy for the cells *)
(* the case lists, so that zeroing those and the dirty ones leaves nothing.        *)

MemoryRestored == ~ Running => cpu = NewCpu(Blank)

Traced ==
  /\ MemoryRestored
  /\ Running => Tidy(cpu, Listed(Case.iram))
  /\ phase = "repeat" => opcode \in Strings

LEMMA PreparedTidy == \A k : Tidy(Prepared(k, Blank), Listed(k.iram))
<1> TAKE k
<1> DEFINE c == NewCpu([ bytes |-> Stored(Blank.bytes, k.iram), dirty |-> {} ])
           d == [ c EXCEPT !.reg = k.init.reg ]
           e == [ d EXCEPT !.seg = k.init.seg ]
           f == [ e EXCEPT !.ip = k.init.ip ]
<1>1. DOMAIN Stored(Blank.bytes, k.iram) = Listed(k.iram)
  BY DEF Stored, Blank, Zeroed
<1>2. Tidy(c, Listed(k.iram))
  BY <1>1 DEF Tidy, CpuShape, Kept, NewCpu
<1>3. Prepared(k, Blank) = [ f EXCEPT !.flags = FromWord(k.init.fl) ]
  BY DEF Prepared
<1> HIDE DEF c
<1>4. Tidy(d, Listed(k.iram))
  BY <1>2, FieldsTidy
<1> HIDE DEF d
<1>5. Tidy(e, Listed(k.iram))
  BY <1>4, FieldsTidy
<1> HIDE DEF e
<1>6. Tidy(f, Listed(k.iram))
  BY <1>5, FieldsTidy
<1> HIDE DEF f
<1>7. Tidy([ f EXCEPT !.flags = FromWord(k.init.fl) ], Listed(k.iram))
  BY <1>6, FieldsTidy
<1> QED
  BY <1>3, <1>7

LEMMA TidyIsRestored ==
  ASSUME NEW k, NEW c, Tidy(c, Listed(k.iram))
  PROVE  Restored(k, c.bus) = Blank
<1>1. DOMAIN c.bus.bytes \ (Listed(k.iram) \union c.bus.dirty) = {}
  BY DEF Tidy, Kept
<1>2. [ a \in DOMAIN c.bus.bytes \ (Listed(k.iram) \union c.bus.dirty) |-> c.bus.bytes[a] ] = Zeroed
  BY <1>1 DEF Zeroed
<1> QED
  BY <1>2 DEF Restored, Blank

LEMMA TracedAtFirst == Init => Traced
  BY DEF Init, Traced, MemoryRestored, Running

LEMMA TracedKept == Placed /\ Traced /\ [Next]_vars => Traced'
<1> SUFFICES ASSUME Placed, Traced, [Next]_vars PROVE Traced'
  OBVIOUS
<1> DEFINE cells == Listed(Case.iram)
<1>1. CASE WithinCase
  <2>1. Running /\ Running' /\ Case' = Case /\ Tidy(cpu, cells)
    BY <1>1, WithinCaseStays DEF Traced
  <2>2. Tidy(cpu', cells)
    <3>1. CASE FetchSegmentPrefix \/ FetchLock \/ FetchRep \/ BeginRepeat
      <4>1. cpu' = Past(cpu, 8)
        BY <3>1 DEF FetchSegmentPrefix, FetchLock, FetchRep, BeginRepeat, AfterPrefix
      <4> QED
        BY <2>1, <4>1, RegistersTidy
    <3>2. CASE ExecuteOpcode
      <4>1. cpu' = Execute(Past(cpu, 8), Fetched, override)
        BY <3>2 DEF ExecuteOpcode
      <4>2. Tidy(Past(cpu, 8), cells)
        BY <2>1, RegistersTidy
      <4> QED
        BY <4>1, <4>2, ExecuteTidy
    <3>3. CASE Repeat
      <4>1. cpu' = Iterated(cpu, opcode, override)
        BY <3>3 DEF Repeat
      <4>2. opcode \in Strings
        BY <3>3 DEF Repeat, CanRepeat, Traced
      <4> QED
        BY <2>1, <4>1, <4>2, StringTidy
    <3>4. CASE EndRepeat
      BY <2>1, <3>4 DEF EndRepeat
    <3> QED
      BY <1>1, <3>1, <3>2, <3>3, <3>4 DEF WithinCase
  <2>3. phase' = "repeat" => opcode' \in Strings
    BY <1>1 DEF WithinCase, FetchSegmentPrefix, FetchLock, FetchRep, ExecuteOpcode, CanExecute,
                BeginRepeat, Repeat, CanRepeat, EndRepeat, StepLocals, Traced
  <2> QED
    BY <2>1, <2>2, <2>3 DEF Traced, MemoryRestored
<1>2. CASE StartCase
  <2>1. cpu' = Prepared(Case, cpu.bus) /\ cpu.bus = Blank /\ Case' = Case /\ Running'
    BY <1>2 DEF StartCase, Traced, MemoryRestored, Running, NewCpu, Program, Case, Lines
  <2>2. phase' = "step"
    BY <1>2 DEF StartCase
  <2> QED
    BY <2>1, <2>2, PreparedTidy DEF Traced, MemoryRestored
<1>3. CASE Judge
  <2>1. cpu' = NewCpu(Restored(Case, cpu.bus)) /\ Running /\ ~ Running'
    BY <1>3 DEF Judge, Running
  <2> QED
    BY <2>1, TidyIsRestored DEF Traced, MemoryRestored, Running
<1>4. CASE OutsideCase
  <2>1. /\ cpu' = cpu /\ opcode' = opcode /\ (Running' <=> Running) /\ (Running => Case' = Case)
        /\ phase' = "repeat" => phase = "repeat"
    BY <1>4 DEF OutsideCase, OpenFile, Finish, SkipMalformed, SkipV20Only, CloseFile, vars, StepLocals,
                Running, Case, Lines
  <2> QED
    BY <2>1 DEF Traced, MemoryRestored
<1> QED
  BY <1>1, <1>2, <1>3, <1>4, Steps

\* Whatever the fixtures are, the harness's one memory is blank again whenever no case
\* runs: what Cpu::step wrote is in the list of dirty cells, or the case named it.
THEOREM CasesLeaveNoTrace == Spec => []MemoryRestored
<1>1. Init => Placed /\ Traced
  BY PlacedAtFirst, TracedAtFirst
<1>2. Placed /\ Traced /\ [Next]_vars => (Placed /\ Traced)'
  BY PlacedKept, TracedKept
<1>3. Traced => MemoryRestored
  BY DEF Traced
<1> QED
  BY <1>1, <1>2, <1>3, PTL DEF Spec

---------------------------------------------------------------------------------
(* Verdicts. Cpu::step is a function of the CPU it starts with, so two runs of a   *)
(* case go through the same states. A trace is the list of those states.           *)

Current == [ phase |-> phase, cpu |-> cpu, override |-> override, rep |-> rep,
             opcode |-> IF phase = "repeat" THEN opcode ELSE 0 ]

First(k) == [ phase |-> "step", cpu |-> Prepared(k, Blank), override |-> NoOverride,
              rep |-> NoPrefix, opcode |-> 0 ]

AfterFetch(s) ==
  LET b    == Immediate(s.cpu, 8)
      past == Past(s.cpu, 8)
  IN  CASE b \in SegmentPrefixes -> [ s EXCEPT !.cpu = past, !.override = s.cpu.seg[(b \div 8) % 4] ]
        [] b = Lock              -> [ s EXCEPT !.cpu = past ]
        [] b \in RepPrefixes     -> [ s EXCEPT !.cpu = past, !.rep = b ]
        [] b \in Strings /\ s.rep # NoPrefix -> [ s EXCEPT !.cpu = past, !.phase = "repeat", !.opcode = b ]
        [] OTHER -> [ s EXCEPT !.cpu = Execute(past, b, s.override), !.phase = "judge" ]

AfterIteration(s) ==
  LET next == Iterated(s.cpu, s.opcode, s.override)
  IN  IF s.cpu.reg[CX] = 0 THEN [ s EXCEPT !.phase = "judge", !.opcode = 0 ]
      ELSE IF Stops(next, s.opcode, s.rep)
           THEN [ s EXCEPT !.cpu = next, !.phase = "judge", !.opcode = 0 ]
           ELSE [ s EXCEPT !.cpu = next ]

After(s) == IF s.phase = "step" THEN AfterFetch(s) ELSE AfterIteration(s)

\* What a step of the case does is a function of where it is.
LEMMA StepsAreDetermined == WithinCase => Current' = After(Current)
<1> SUFFICES ASSUME WithinCase PROVE Current' = After(Current)
  OBVIOUS
<1> DEFINE b == Immediate(cpu, 8)
           past == Past(cpu, 8)
           next == Iterated(cpu, opcode, override)
<1>1. \A p \in SegmentPrefixes : p # Lock /\ p \notin RepPrefixes /\ p \notin Strings
  BY DEF SegmentPrefixes, RepPrefixes, Lock, Strings
<1>2. \A p \in RepPrefixes : p # Lock /\ p \notin Strings
  BY DEF RepPrefixes, Lock, Strings
<1>3. Lock \notin Strings
  BY DEF Lock, Strings
<1>4. CASE FetchSegmentPrefix
  <2>1. AfterFetch(Current) = [ Current EXCEPT !.cpu = past, !.override = cpu.seg[(b \div 8) % 4] ]
    BY <1>1, <1>4 DEF FetchSegmentPrefix, Fetched, AfterFetch, Current
  <2> QED
    BY <1>4, <2>1 DEF FetchSegmentPrefix, Fetched, AfterPrefix, After, Current
<1>5. CASE FetchLock
  <2>1. AfterFetch(Current) = [ Current EXCEPT !.cpu = past ]
    BY <1>1, <1>2, <1>3, <1>5 DEF FetchLock, Fetched, AfterFetch, Current
  <2> QED
    BY <1>5, <2>1 DEF FetchLock, Fetched, AfterPrefix, After, Current, StepLocals
<1>6. CASE FetchRep
  <2>1. AfterFetch(Current) = [ Current EXCEPT !.cpu = past, !.rep = b ]
    BY <1>1, <1>2, <1>3, <1>6 DEF FetchRep, Fetched, AfterFetch, Current
  <2> QED
    BY <1>6, <2>1 DEF FetchRep, Fetched, AfterPrefix, After, Current
<1>7. CASE ExecuteOpcode
  <2>1. AfterFetch(Current) = [ Current EXCEPT !.cpu = Execute(past, b, override), !.phase = "judge" ]
    BY <1>7 DEF ExecuteOpcode, CanExecute, PrefixBytes, Fetched, AfterFetch, Current
  <2> QED
    BY <1>7, <2>1 DEF ExecuteOpcode, CanExecute, Fetched, After, Current
<1>8. CASE BeginRepeat
  <2>1. AfterFetch(Current) = [ Current EXCEPT !.cpu = past, !.phase = "repeat", !.opcode = b ]
    BY <1>1, <1>2, <1>3, <1>8 DEF BeginRepeat, Fetched, AfterFetch, Current
  <2> QED
    BY <1>8, <2>1 DEF BeginRepeat, Fetched, After, Current
<1>9. CASE Repeat
  BY <1>9 DEF Repeat, CanRepeat, AfterIteration, After, Current, StepLocals
<1>10. CASE EndRepeat
  BY <1>10 DEF EndRepeat, AfterIteration, After, Current, StepLocals
<1> QED
  BY <1>4, <1>5, <1>6, <1>7, <1>8, <1>9, <1>10 DEF WithinCase

\* t[0], ..., t[n] are the states a case has gone through.
IsTrace(t, n, k) ==
  /\ n \in Nat
  /\ t[0] = First(k)
  /\ \A i \in 0 .. n - 1 : t[i].phase # "judge" /\ t[i + 1] = After(t[i])

\* Two traces of a case agree as far as the shorter one goes.
LEMMA TracesAgree ==
  ASSUME NEW k, NEW t, NEW n, NEW u, NEW m, IsTrace(t, n, k), IsTrace(u, m, k), n <= m
  PROVE  t[n] = u[n]
<1> DEFINE wrong == { i \in 0 .. n : t[i] # u[i] }
<1> SUFFICES ASSUME wrong # {} PROVE FALSE
  BY DEF IsTrace
<1>1. n \in Nat /\ m \in Nat
  BY DEF IsTrace
<1> wrong \subseteq Nat
  BY <1>1
<1>2. PICK i \in wrong : \A j \in wrong : i <= j
  <2> HIDE DEF wrong
  <2> QED
    BY LeastExists
<1>3. i # 0
  BY <1>2 DEF IsTrace
<1>4. i - 1 \in 0 .. n - 1 /\ i - 1 \in 0 .. m - 1 /\ (i - 1) + 1 = i /\ i - 1 \in 0 .. n
  BY <1>1, <1>2, <1>3
<1>5. t[i - 1] = u[i - 1]
  BY <1>2, <1>4
<1>6. t[i] = After(t[i - 1]) /\ u[i] = After(u[i - 1])
  BY <1>4 DEF IsTrace
<1> QED
  BY <1>2, <1>5, <1>6

\* So they end in the same state.
LEMMA TracesEndAlike ==
  ASSUME NEW k, NEW t, NEW n, NEW u, NEW m, IsTrace(t, n, k), IsTrace(u, m, k),
         t[n].phase = "judge", u[m].phase = "judge"
  PROVE  t[n] = u[m]
<1>1. n \in Nat /\ m \in Nat
  BY DEF IsTrace
<1>2. CASE n < m
  <2>1. u[n].phase # "judge"
    BY <1>1, <1>2 DEF IsTrace
  <2> QED
    BY <1>1, <1>2, <2>1, TracesAgree
<1>3. CASE m < n
  <2>1. t[m].phase # "judge"
    BY <1>1, <1>3 DEF IsTrace
  <2> QED
    BY <1>1, <1>3, <2>1, TracesAgree
<1>4. CASE n = m
  BY <1>1, <1>4, TracesAgree
<1> QED
  BY <1>1, <1>2, <1>3, <1>4

OnTrace == Running => \E t, n : IsTrace(t, n, Case) /\ t[n] = Current

\* Every verdict was passed on the end of a trace of its case.
Justified ==
  \A x \in results :
    \E k, t, n : IsTrace(t, n, k) /\ t[n].phase = "judge" /\ x = << k, Verdict(k, t[n].cpu) >>

LEMMA OnTraceKept == Placed /\ Traced /\ OnTrace /\ [Next]_vars => OnTrace'
<1> SUFFICES ASSUME Placed, Traced, OnTrace, [Next]_vars, Running' PROVE OnTrace'
  BY DEF OnTrace
<1>1. CASE WithinCase
  <2>1. Running /\ Case' = Case /\ phase # "judge" /\ Current' = After(Current)
    BY <1>1, WithinCaseStays, StepsAreDetermined
  <2>2. PICK t, n : IsTrace(t, n, Case) /\ t[n] = Current
    BY <2>1 DEF OnTrace
  <2> DEFINE u == [ i \in 0 .. n + 1 |-> IF i <= n THEN t[i] ELSE Current' ]
  <2>3. n \in Nat /\ n + 1 \in Nat /\ (n + 1) - 1 = n /\ t[n].phase # "judge"
    BY <2>1, <2>2 DEF IsTrace, Current
  <2>4. u[n + 1] = Current' /\ \A i \in 0 .. n : u[i] = t[i]
    BY <2>3
  <2> HIDE DEF u
  <2>5. ASSUME NEW i \in 0 .. n PROVE u[i].phase # "judge" /\ u[i + 1] = After(u[i])
    <3>1. CASE i = n
      BY <2>1, <2>2, <2>3, <2>4, <3>1
    <3>2. CASE i # n
      <4>1. i \in 0 .. n - 1 /\ i + 1 \in 0 .. n
        BY <2>3, <3>2
      <4> QED
        BY <2>2, <2>4, <4>1 DEF IsTrace
    <3> QED
      BY <3>1, <3>2
  <2>6. u[0] = First(Case)
    BY <2>2, <2>3, <2>4 DEF IsTrace
  <2>7. IsTrace(u, n + 1, Case)
    BY <2>3, <2>5, <2>6 DEF IsTrace
  <2> QED
    BY <2>1, <2>4, <2>7 DEF OnTrace
<1>2. CASE StartCase
  <2>1. /\ phase' = "step" /\ cpu' = Prepared(Case, cpu.bus) /\ override' = NoOverride
        /\ rep' = NoPrefix /\ Case' = Case /\ cpu.bus = Blank
    BY <1>2 DEF StartCase, Traced, MemoryRestored, Running, NewCpu, Program, Case, Lines
  <2>2. Current' = First(Case')
    BY <2>1 DEF Current, First
  <2> DEFINE t == [ i \in {0} |-> Current' ]
  <2>3. IsTrace(t, 0, Case') /\ t[0] = Current'
    BY <2>2 DEF IsTrace
  <2> QED
    BY <2>3 DEF OnTrace
<1>3. CASE Judge
  BY <1>3 DEF Judge, Running
<1>4. CASE OutsideCase
  <2>1. Running /\ UNCHANGED << Case, Current >>
    BY <1>4 DEF OutsideCase, OpenFile, Finish, SkipMalformed, SkipV20Only, CloseFile, vars,
                Running, Case, Lines, Current
  <2> QED
    BY <2>1 DEF OnTrace
<1> QED
  BY <1>1, <1>2, <1>3, <1>4, Steps

LEMMA JustifiedKept ==
  Traced /\ OnTrace /\ Justified /\ [NextVerdicts]_<< vars, results >> => Justified'
<1> SUFFICES ASSUME Traced, OnTrace, Justified, NextVerdicts PROVE Justified'
  BY DEF Justified
<1>1. results' = results \union Concluded
  BY DEF NextVerdicts
<1>2. ASSUME NEW x \in Concluded
      PROVE  \E k, t, n : IsTrace(t, n, k) /\ t[n].phase = "judge" /\ x = << k, Verdict(k, t[n].cpu) >>
  <2>1. phase = "judge" /\ Running /\ x = << Case, Verdict(Case, cpu) >>
    BY <1>2 DEF Concluded, Running
  <2>2. PICK t, n : IsTrace(t, n, Case) /\ t[n] = Current
    BY <2>1 DEF OnTrace
  <2>3. t[n].phase = "judge" /\ t[n].cpu = cpu
    BY <2>1, <2>2 DEF Current
  <2> QED
    BY <2>1, <2>2, <2>3
<1> QED
  BY <1>1, <1>2 DEF Justified

LEMMA JustifiedAgree == Justified => SameCaseSameVerdict
<1> SUFFICES ASSUME Justified, NEW x \in results, NEW y \in results, x[1] = y[1] PROVE x = y
  BY DEF SameCaseSameVerdict
<1>1. PICK k, t, n : IsTrace(t, n, k) /\ t[n].phase = "judge" /\ x = << k, Verdict(k, t[n].cpu) >>
  BY DEF Justified
<1>2. PICK l, u, m : IsTrace(u, m, l) /\ u[m].phase = "judge" /\ y = << l, Verdict(l, u[m].cpu) >>
  BY DEF Justified
<1>3. k = l
  BY <1>1, <1>2
<1>4. t[n] = u[m]
  BY <1>1, <1>2, <1>3, TracesEndAlike
<1> QED
  BY <1>1, <1>2, <1>3, <1>4

\* The verdict on a case does not depend on the cases run before it, however many there
\* are and whatever they wrote, and however long the step takes.
THEOREM VerdictsAreTheCasesOwn == SpecVerdicts => []SameCaseSameVerdict
<1> DEFINE Inv == Placed /\ Traced /\ OnTrace /\ Justified
<1>1. InitVerdicts => Inv
  BY PlacedAtFirst, TracedAtFirst DEF InitVerdicts, Init, OnTrace, Running, Justified
<1>2. Inv /\ [NextVerdicts]_<< vars, results >> => Inv'
  <2>1. [NextVerdicts]_<< vars, results >> => [Next]_vars
    BY DEF NextVerdicts
  <2> QED
    BY <2>1, PlacedKept, TracedKept, OnTraceKept, JustifiedKept
<1>3. Inv => SameCaseSameVerdict
  BY JustifiedAgree
<1> QED
  BY <1>1, <1>2, <1>3, PTL DEF SpecVerdicts

---------------------------------------------------------------------------------
(* The scan and the fetch see the same opcode. While Cpu::step reads prefixes the  *)
(* memory is the one the case loaded, all it has read are prefixes, and IP is as   *)
(* far past its start as it has read.                                              *)

Distance == Wrap(cpu.ip - Case.init.ip)

FetchedAt(j) ==
  ReadU8(cpu.bus, PhysicalAddress(Case.init.seg[CS], Wrap(Case.init.ip + j)))

Scanned ==
  /\ phase = "step" =>
       /\ cpu.bus.bytes = Stored(Zeroed, Case.iram)
       /\ cpu.seg = Case.init.seg /\ cpu.ip \in Word
       /\ \A j \in 0 .. Distance - 1 : FetchedAt(j) \in PrefixBytes
  /\ phase = "repeat" => opcode \notin V20Only
  /\ V20OnlyIsSkipped

\* A remainder is its own remainder.
LEMMA SmallMod == \A r \in Nat, n \in Nat \ {0} : r < n => r % n = r
  OBVIOUS

LEMMA ModTwice == \A a \in Nat, n \in Nat \ {0} : (a % n) % n = a % n
<1> TAKE a \in Nat, n \in Nat \ {0}
<1> DEFINE r == a % n
<1>1. r \in 0 .. n - 1
  BY ModBounds
<1> HIDE DEF r
<1>2. r \in Nat /\ r < n
  BY <1>1
<1> QED
  BY <1>2, SmallMod DEF r

\* Offsets that do not wrap, and addresses that are taken modulo the memory twice.
LEMMA Offsets ==
  /\ MaxWord \in Nat /\ \A x : x \in Word <=> x \in Nat /\ x <= MaxWord
  /\ \A x \in Nat : x <= MaxWord => Wrap(x) = x
  /\ \A s \in Nat, x \in Nat : Index(PhysicalAddress(s, x)) = Index(16 * s + x)
<1>1. MaxWord \in Nat /\ \A x : x \in Word <=> x \in Nat /\ x <= MaxWord
  <2>1. MaxWord \in Nat
    BY SMT DEF MaxWord
  <2> QED
    BY <2>1 DEF Word
<1>2. \A x \in Nat : x <= MaxWord => Wrap(x) = x
  BY SMT DEF MaxWord, Wrap
<1>3. ASSUME NEW s \in Nat, NEW x \in Nat
      PROVE  Index(PhysicalAddress(s, x)) = Index(16 * s + x)
  <2> DEFINE n == 1048576
  <2>1. n \in Nat \ {0} /\ 16 * s + x \in Nat
    BY SMT
  <2>2. Index(PhysicalAddress(s, x)) = ((16 * s + x) % n) % n /\ Index(16 * s + x) = (16 * s + x) % n
    BY SMT DEF Index, PhysicalAddress
  <2> HIDE DEF n
  <2> QED
    BY <2>1, <2>2, ModTwice
<1> QED
  BY <1>1, <1>2, <1>3

LEMMA CaseTyped ==
  ASSUME Placed, Running
  PROVE  /\ Case.init.reg \in [ AX .. DI -> Word ] /\ Case.init.seg \in [ ES .. DS -> Word ]
         /\ Case.init.ip \in Word /\ Case.init.seg[CS] \in Word
<1>1. line \in DOMAIN Lines /\ Case.kind = "case"
  BY LinesAreCases DEF Placed
<1>2. IsCase(Case)
  BY <1>1, LinesAreCases DEF Case
<1>3. CS \in ES .. DS
  BY DEF CS, ES, DS
<1> QED
  BY <1>2, <1>3 DEF IsCase

\* The scan's byte at a distance below the end of the segment is the one fetched there.
LEMMA ScanFetchesToo ==
  ASSUME Placed, phase = "step", Scanned, NEW i \in Nat, Case.init.ip + i <= MaxWord
  PROVE  ByteAt(Case, 16 * Case.init.seg[CS] + Case.init.ip + i) = FetchedAt(i)
<1> DEFINE base == Case.init.seg[CS]
           ip   == Case.init.ip
           a    == 16 * base + ip + i
<1>1. base \in Nat /\ ip \in Nat /\ ip + i \in Nat
  <2>1. base \in Word /\ ip \in Word
    BY CaseTyped DEF Running
  <2>2. base \in Nat /\ ip \in Nat
    BY <2>1, Offsets
  <2> QED
    BY <2>2
<1>2. Wrap(ip + i) = ip + i
  BY <1>1, Offsets
<1>3. Index(PhysicalAddress(base, ip + i)) = Index(a)
  <2>1. 16 * base + (ip + i) = a
    BY <1>1
  <2> HIDE DEF a
  <2> QED
    BY <1>1, <2>1, Offsets
<1>4. FetchedAt(i) = At(cpu.bus.bytes, Index(a))
  BY <1>2, <1>3 DEF FetchedAt, ReadU8
<1>5. cpu.bus.bytes = Stored(Zeroed, Case.iram)
  BY DEF Scanned
<1>6. \A c : At(Stored(Zeroed, Case.iram), c) = IF c \in Listed(Case.iram) THEN LastPair(Case.iram, c)[2] ELSE 0
  BY DEF At, Stored, Zeroed
<1> QED
  BY <1>4, <1>5, <1>6 DEF ByteAt

\* What wrapping does to a number within a segment of the first.
LEMMA WrapCases ==
  ASSUME NEW x \in Int
  PROVE  /\ 0 <= x /\ x < 65536 => Wrap(x) = x
         /\ -65536 <= x /\ x < 0 => Wrap(x) = x + 65536
         /\ x = 65536 => Wrap(x) = 0
<1>1. 0 <= x /\ x < 65536 => Wrap(x) = x
  BY SMTT(60) DEF Wrap
<1>2. -65536 <= x /\ x < 0 => Wrap(x) = x + 65536
  BY SMTT(60) DEF Wrap
<1>3. x = 65536 => Wrap(x) = 0
  BY SMTT(60) DEF Wrap
<1> QED
  BY <1>1, <1>2, <1>3

\* Distances in a segment of 2^16 bytes.
LEMMA Distances ==
  ASSUME NEW p \in Word, NEW q \in Word, NEW d, d = Wrap(p - q), NEW n, n = Wrap(p + 1)
  PROVE  /\ d \in Nat /\ Wrap(q + d) = p /\ n \in Word
         /\ Wrap(n - q) = 0 \/ Wrap(n - q) = d + 1
         /\ Wrap(n - 1 - q) = d
<1>0. MaxWord = 65535
  BY SMT DEF MaxWord
<1>1. p \in Int /\ q \in Int /\ 0 <= p /\ p < 65536 /\ 0 <= q /\ q < 65536
  <2>1. p \in Nat /\ p <= MaxWord /\ q \in Nat /\ q <= MaxWord
    BY Offsets
  <2> QED
    BY <1>0, <2>1
<1>2. d = IF q <= p THEN p - q ELSE p - q + 65536
  BY <1>1, WrapCases, SMTT(60)
<1>3. n = IF p < 65535 THEN p + 1 ELSE 0
  BY <1>1, WrapCases, SMTT(60)
<1>4. n \in Word
  <2>1. n \in Nat /\ n <= MaxWord
    BY <1>0, <1>1, <1>3
  <2> QED
    BY <2>1, Offsets
<1>5. d \in Nat /\ Wrap(q + d) = p
  <2>1. CASE q <= p
    <3>1. d = p - q /\ q + d = p
      BY <1>1, <1>2, <2>1
    <3> QED
      BY <1>1, <2>1, <3>1, WrapCases
  <2>2. CASE p < q
    <3>1. d = p - q + 65536 /\ q + d = p + 65536
      BY <1>1, <1>2, <2>2
    <3>2. Wrap(p + 65536) = p
      BY <1>1, SMTT(60) DEF Wrap
    <3> QED
      BY <1>1, <2>2, <3>1, <3>2
  <2> QED
    BY <1>1, <2>1, <2>2
<1>6. n \in Int /\ 0 <= n /\ n < 65536
  BY <1>1, <1>3
<1>7. Wrap(n - 1 - q) = d
  <2>1. CASE p < 65535
    BY <1>3, <2>1, <1>1
  <2>2. CASE p = 65535
    <3>1. n - 1 - q = -1 - q /\ d = 65535 - q
      BY <1>1, <1>2, <1>3, <2>2
    <3>2. Wrap(-1 - q) = 65535 - q
      BY <1>1, WrapCases, SMTT(60)
    <3> QED
      BY <3>1, <3>2
  <2> QED
    BY <1>1, <2>1, <2>2
<1>8. Wrap(n - q) = 0 \/ Wrap(n - q) = d + 1
  <2>1. CASE p < 65535 /\ q <= p
    BY <1>1, <1>2, <1>3, <2>1, WrapCases, SMTT(60)
  <2>2. CASE p < 65535 /\ p < q
    BY <1>1, <1>2, <1>3, <2>2, WrapCases, SMTT(60)
  <2>3. CASE p = 65535
    BY <1>1, <1>2, <1>3, <2>3, WrapCases, SMTT(60)
  <2> QED
    BY <1>1, <2>1, <2>2, <2>3
<1> QED
  BY <1>4, <1>5, <1>7, <1>8

\* A byte is fetched: IP moves on by one.
LEMMA PastByte ==
  ASSUME NEW c, CpuShape(c)
  PROVE  /\ Past(c, 8).ip = Wrap(c.ip + 1) /\ Past(c, 8).seg = c.seg /\ Past(c, 8).bus = c.bus
         /\ Unimplemented(c).ip = c.ip
<1>1. 8 \div 8 = 1
  OBVIOUS
<1> QED
  BY <1>1 DEF CpuShape, Past, Unimplemented

LEMMA PreparedFields ==
  ASSUME NEW k
  PROVE  LET c == Prepared(k, Blank)
         IN  /\ c.bus.bytes = Stored(Zeroed, k.iram) /\ c.bus.dirty = {}
             /\ c.reg = k.init.reg /\ c.seg = k.init.seg /\ c.ip = k.init.ip
             /\ c.flags = FromWord(k.init.fl) /\ c.outcome = "executed"
  BY DEF Prepared, NewCpu, Blank

\* An opcode only the V20 has is none of the table.
LEMMA V20OnlyIsUnimplemented ==
  /\ \A op \in V20Only : \A c, chosen : Execute(c, op, chosen) = Unimplemented(c)
  /\ \A op \in V20Only : op \notin Strings
<1> SUFFICES ASSUME NEW op \in V20Only
             PROVE  op \notin Strings /\ \A c, chosen : Execute(c, op, chosen) = Unimplemented(c)
  OBVIOUS
<1>1. op \in {15, 100, 101}
  BY DEF V20Only
<1>2. op \notin AluBlock
  BY <1>1 DEF AluBlock
<1>3. op \notin MoveModrm /\ op \notin MoveDirect /\ op \notin Exchanges /\ op \notin Group1
  BY <1>1 DEF MoveModrm, MoveDirect, Exchanges, Group1
<1>4. op \notin Singles /\ op \notin StackOps /\ op \notin Jumps /\ op \notin Calls
  BY <1>1 DEF Singles, StackOps, Jumps, Calls
<1>5. op \notin Group2 /\ op \notin Group3 /\ op \notin Groups45 /\ op \notin PortOps
  BY <1>1 DEF Group2, Group3, Groups45, PortOps
<1>6. op \notin FlagOps /\ op \notin Strings
  BY <1>1 DEF FlagOps, Strings
<1> QED
  BY <1>2, <1>3, <1>4, <1>5, <1>6 DEF Execute

\* What is fetched next is the byte at the distance.
LEMMA FetchesAtDistance ==
  ASSUME Placed, Traced, Scanned, phase = "step"
  PROVE  /\ CpuShape(cpu) /\ Fetched = FetchedAt(Distance)
         /\ Case.init.ip \in Word /\ cpu.ip \in Word
         /\ Distance \in Nat /\ Wrap(Case.init.ip + Distance) = cpu.ip
<1> DEFINE ip == Case.init.ip
           d  == Distance
<1>1. CpuShape(cpu)
  BY DEF Traced, Tidy, Running
<1>2. ip \in Word /\ cpu.ip \in Word
  BY CaseTyped DEF Scanned, Running
<1>3. d \in Nat /\ Wrap(ip + d) = cpu.ip
  <2>1. \A p \in Word, q \in Word : \A e : e = Wrap(p - q) => e \in Nat /\ Wrap(q + e) = p
    BY Distances
  <2>2. d = Wrap(cpu.ip - ip)
    BY Zenon DEF Distance
  <2> DEFINE at == cpu.ip
  <2>3. at \in Word /\ ip \in Word /\ d = Wrap(at - ip)
    BY <1>2, <2>2
  <2> HIDE DEF at, d, ip
  <2>4. d \in Nat /\ Wrap(ip + d) = at
    BY <2>1, <2>3
  <2> QED
    BY <2>4 DEF at
<1>4. Fetched = ReadU8(cpu.bus, PhysicalAddress(cpu.seg[CS], cpu.ip))
  BY Zenon DEF Fetched, Immediate, ReadMem
<1>5. FetchedAt(d) = ReadU8(cpu.bus, PhysicalAddress(Case.init.seg[CS], cpu.ip))
  BY <1>3, Zenon DEF FetchedAt
<1>6. cpu.seg = Case.init.seg
  BY DEF Scanned
<1> QED
  BY <1>1, <1>2, <1>3, <1>4, <1>5, <1>6

LEMMA ScannedKept == Placed /\ Traced /\ Scanned /\ [Next]_vars => Scanned'
<1> SUFFICES ASSUME Placed, Traced, Scanned, [Next]_vars PROVE Scanned'
  OBVIOUS
<1> DEFINE ip == Case.init.ip
           d  == Distance
<1>1. CASE WithinCase /\ phase = "step"
  <2>1. Case' = Case /\ CpuShape(cpu) /\ Fetched = FetchedAt(d) /\ ip \in Word /\ cpu.ip \in Word
    BY <1>1, WithinCaseStays, FetchesAtDistance
  <2>2. CASE FetchSegmentPrefix \/ FetchLock \/ FetchRep
    <3>1. cpu' = Past(cpu, 8) /\ phase' = "step" /\ Fetched \in PrefixBytes
      BY <2>2 DEF FetchSegmentPrefix, FetchLock, FetchRep, AfterPrefix, PrefixBytes
    <3>2. cpu'.ip = Wrap(cpu.ip + 1) /\ cpu'.seg = cpu.seg /\ cpu'.bus = cpu.bus
      BY <2>1, <3>1, PastByte
    <3>3. d \in Nat /\ cpu'.ip \in Word /\ (Distance' = 0 \/ Distance' = d + 1)
      BY <2>1, <3>2, Distances DEF Distance
    <3>4. \A j : FetchedAt(j)' = FetchedAt(j)
      BY <2>1, <3>2 DEF FetchedAt
    <3>5. \A j \in 0 .. Distance' - 1 : FetchedAt(j)' \in PrefixBytes
      <4>1. ASSUME NEW j \in 0 .. Distance' - 1 PROVE FetchedAt(j) \in PrefixBytes
        <5>1. j \in 0 .. d - 1 \/ j = d
          BY <3>3, <4>1
        <5> QED
          BY <1>1, <2>1, <3>1, <5>1 DEF Scanned
      <4> QED
        BY <3>4, <4>1
    <3>6. cpu'.bus.bytes = Stored(Zeroed, Case'.iram) /\ cpu'.seg = Case'.init.seg
      BY <1>1, <2>1, <3>2 DEF Scanned
    <3> QED
      BY <3>1, <3>3, <3>5, <3>6 DEF Scanned, V20OnlyIsSkipped
  <2>3. CASE ExecuteOpcode
    <3>1. phase' = "judge" /\ opcode' = Fetched /\ cpu' = Execute(Past(cpu, 8), Fetched, override)
      BY <2>3 DEF ExecuteOpcode
    <3>2. ASSUME Fetched \in V20Only, ~ BeyondScan(Case, Wrap(cpu'.ip - 1 - ip)) PROVE FALSE
      <4>1. Tidy(cpu, Listed(Case.iram))
        BY <1>1 DEF Traced, Running
      <4>2. CpuShape(Past(cpu, 8))
        BY <4>1, RegistersTidy DEF Tidy
      <4>3. cpu'.ip = Wrap(cpu.ip + 1)
        BY <2>1, <3>1, <3>2, <4>2, V20OnlyIsUnimplemented, PastByte
      <4>4. Wrap(cpu'.ip - 1 - ip) = d /\ d \in Nat
        BY <2>1, <4>3, Distances DEF Distance
      <4>5. d \in 0 .. 7 /\ ip + d <= MaxWord
        <5>1. ~ (d >= 8) /\ ~ (ip + d > MaxWord)
          BY <3>2, <4>4 DEF BeyondScan
        <5>2. ip \in Nat /\ MaxWord \in Nat
          BY <2>1, Offsets
        <5> HIDE DEF d, ip
        <5> QED
          BY <4>4, <5>1, <5>2
      <4> DEFINE byte(i) == ByteAt(Case, 16 * Case.init.seg[CS] + ip + i)
      <4>6. ASSUME NEW i \in 0 .. d PROVE byte(i) = FetchedAt(i)
        <5>1. i \in Nat /\ ip + i <= MaxWord
          <6>1. ip \in Nat /\ MaxWord \in Nat
            BY <2>1, Offsets
          <6> HIDE DEF d, ip
          <6> QED
            BY <4>4, <4>5, <6>1
        <5> QED
          BY <1>1, <5>1, ScanFetchesToo
      <4>7. byte(d) \in V20Only
        BY <2>1, <3>2, <4>4, <4>6
      <4>8. \A j \in 0 .. d - 1 : byte(j) \in PrefixBytes
        BY <1>1, <4>4, <4>6 DEF Scanned
      <4>9. UsesV20Only(Case)
        BY <4>5, <4>7, <4>8 DEF UsesV20Only
      <4> QED
        BY <1>1, <4>9 DEF Placed, Running
    <3> QED
      BY <2>1, <3>1, <3>2 DEF Scanned, V20OnlyIsSkipped
  <2>4. CASE BeginRepeat
    <3>1. phase' = "repeat" /\ opcode' \in Strings
      BY <2>4 DEF BeginRepeat
    <3> QED
      BY <3>1, V20OnlyIsUnimplemented DEF Scanned, V20OnlyIsSkipped
  <2> QED
    BY <1>1, <2>2, <2>3, <2>4 DEF WithinCase, Repeat, CanRepeat, EndRepeat
<1>2. CASE WithinCase /\ phase # "step"
  <2>1. phase = "repeat" /\ phase' # "step" /\ opcode' = opcode
    BY <1>2 DEF WithinCase, FetchSegmentPrefix, FetchLock, FetchRep, ExecuteOpcode, CanExecute,
                BeginRepeat, Repeat, CanRepeat, EndRepeat, StepLocals
  <2> QED
    BY <2>1 DEF Scanned, V20OnlyIsSkipped
<1>3. CASE StartCase
  <2>1. cpu' = Prepared(Case, Blank) /\ Case' = Case /\ phase' = "step"
    BY <1>3 DEF StartCase, Traced, MemoryRestored, Running, NewCpu, Program, Case, Lines
  <2>2. ip \in Word
    <3>1. line \in DOMAIN Lines /\ Case.kind = "case"
      BY <1>3, LinesAreCases DEF StartCase, Placed
    <3> QED
      BY <1>3, <3>1, LinesAreCases DEF StartCase, Case, IsCase
  <2>3. Distance' = 0
    <3>1. Wrap(ip - ip) = 0
      <4>1. ip \in Nat /\ Wrap(0) = 0
        BY <2>2, Offsets, SMT DEF Wrap
      <4> HIDE DEF ip
      <4>2. ip - ip = 0
        BY <4>1
      <4> QED
        BY <4>1, <4>2
    <3>2. cpu'.ip = ip
      BY <2>1, PreparedFields
    <3> QED
      BY <2>1, <3>1, <3>2 DEF Distance
  <2> QED
    BY <2>1, <2>2, <2>3, PreparedFields DEF Scanned, V20OnlyIsSkipped
<1>4. CASE Judge
  BY <1>4 DEF Judge, Scanned, V20OnlyIsSkipped
<1>5. CASE OutsideCase
  <2>1. (phase' \notin {"step", "repeat", "judge"}) \/ UNCHANGED << phase, cpu, opcode, Case >>
    BY <1>5 DEF OutsideCase, OpenFile, Finish, SkipMalformed, SkipV20Only, CloseFile, vars, Case, Lines
  <2> QED
    BY <2>1 DEF Scanned, V20OnlyIsSkipped, Distance, FetchedAt
<1> QED
  BY <1>1, <1>2, <1>3, <1>4, <1>5, Steps

\* A case that is run reaches an opcode only the V20 has where the scan cannot see it or
\* not at all, however its bytes are listed and wherever its code lies.
THEOREM SkipsAreComplete == Spec => []V20OnlyIsSkipped
<1>1. Init => Placed /\ Traced /\ Scanned
  BY PlacedAtFirst, TracedAtFirst DEF Init, Scanned, V20OnlyIsSkipped
<1>2. Placed /\ Traced /\ Scanned /\ [Next]_vars => (Placed /\ Traced /\ Scanned)'
  BY PlacedKept, TracedKept, ScannedKept
<1>3. Scanned => V20OnlyIsSkipped
  BY DEF Scanned
<1> QED
  BY <1>1, <1>2, <1>3, PTL DEF Spec

---------------------------------------------------------------------------------
(* The counters. The reports count the cases that come before the line evaluated,  *)
(* file by file: CasesBefore is the set of them, and it grows by one case at most. *)

CasesBefore(f, l) == { p \in CasesOf(work.files) : p[1] < f \/ (p[1] = f /\ p[2] < l) }

Seen(r) == r.total + r.skipped

Reports ==
  [ total : Nat, pass : Nat, state_fail : Nat, flag_fail : Nat, skipped : Nat,
    flag_bit_diffs : [ 0 .. 11 -> Nat ] ]

Counting ==
  /\ report \in Reports /\ Adds(report) /\ grand \in Reports /\ Adds(grand)
  /\ phase \in {"main", "done"} =>
       /\ IsFiniteSet(CasesBefore(file, 1))
       /\ Seen(grand) = Cardinality(CasesBefore(file, 1))
  /\ phase = "line" \/ Running =>
       /\ IsFiniteSet(CasesBefore(file, line))
       /\ Seen(grand) + Seen(report) = Cardinality(CasesBefore(file, line))

LEMMA NoReportAdds == NoReport \in Reports /\ Adds(NoReport) /\ Seen(NoReport) = 0
  BY DEF NoReport, Reports, Adds, Seen

\* A report by its fields.
LEMMA ReportFields ==
  ASSUME NEW r \in Reports
  PROVE  /\ r.total \in Nat /\ r.pass \in Nat /\ r.state_fail \in Nat /\ r.flag_fail \in Nat
         /\ r.skipped \in Nat /\ \A i \in 0 .. 11 : r.flag_bit_diffs[i] \in Nat
  BY DEF Reports

Made(t, p, s, f, n, bits) ==
  [ total |-> t, pass |-> p, state_fail |-> s, flag_fail |-> f, skipped |-> n, flag_bit_diffs |-> bits ]

Tally(t, p, s, f, n, bits) ==
  /\ t \in Nat /\ p \in Nat /\ s \in Nat /\ f \in Nat /\ n \in Nat /\ t = p + s + f
  /\ bits \in [ 0 .. 11 -> Nat ]
  /\ \A i \in 0 .. 11 : bits[i] <= f
  /\ f > 0 => \E i \in FlagBits : bits[i] > 0

LEMMA MadeAdds ==
  ASSUME NEW t, NEW p, NEW s, NEW f, NEW n, NEW bits, Tally(t, p, s, f, n, bits)
  PROVE  /\ Made(t, p, s, f, n, bits) \in Reports
         /\ Adds(Made(t, p, s, f, n, bits)) /\ Seen(Made(t, p, s, f, n, bits)) = t + n
  BY DEF Made, Tally, Reports, Adds, Seen

\* One more case judged.
LEMMA CountedAdds ==
  ASSUME NEW r \in Reports, Adds(r), NEW k, NEW c
  PROVE  Counted(r, k, c) \in Reports /\ Adds(Counted(r, k, c)) /\ Seen(Counted(r, k, c)) = Seen(r) + 1
<1> DEFINE verdict == Verdict(k, c)
           diff == IF verdict = "flag_fail" THEN FlagDiff(ToWord(c.flags), k.exp.fl) ELSE {}
           bits == [ b \in 0 .. 11 |-> r.flag_bit_diffs[b] + (IF b \in diff THEN 1 ELSE 0) ]
           new == Counted(r, k, c)
<1>1. verdict \in {"pass", "state_fail", "flag_fail"} /\ diff \subseteq FlagBits
      /\ (verdict = "flag_fail" <=> diff # {})
  BY DEF Verdict, FlagDiff
<1>2. new = [ r EXCEPT !.total = @ + 1, ![verdict] = @ + 1, !.flag_bit_diffs = bits ]
  BY DEF Counted
<1>3. /\ bits \in [ 0 .. 11 -> Nat ]
      /\ \A b \in 0 .. 11 : bits[b] = r.flag_bit_diffs[b] + (IF b \in diff THEN 1 ELSE 0)
  <2> HIDE DEF diff
  <2> QED
    BY ReportFields
<1> HIDE DEF verdict, diff, new, bits
<1>4. /\ r.total = r.pass + r.state_fail + r.flag_fail
      /\ \A i \in 0 .. 11 : bits[i] \in Nat /\ r.flag_bit_diffs[i] \in Nat
                            /\ r.flag_bit_diffs[i] <= bits[i] /\ bits[i] <= r.flag_bit_diffs[i] + 1
      /\ \A i \in 0 .. 11 : r.flag_bit_diffs[i] <= r.flag_fail
      /\ r.flag_fail > 0 => \E i \in FlagBits : r.flag_bit_diffs[i] > 0
      /\ FlagBits \subseteq 0 .. 11
  <2>1. \A i \in 0 .. 11 : r.flag_bit_diffs[i] \in Nat
    BY ReportFields
  <2>2. \A i \in 0 .. 11 : /\ bits[i] \in Nat
                           /\ r.flag_bit_diffs[i] <= bits[i] /\ bits[i] <= r.flag_bit_diffs[i] + 1
    BY <1>3, <2>1
  <2>3. FlagBits \subseteq 0 .. 11
    BY DEF FlagBits
  <2> QED
    BY <2>1, <2>2, <2>3 DEF Adds
<1>5. r.flag_fail > 0 => \E i \in FlagBits : bits[i] > 0
  <2> SUFFICES ASSUME NEW i \in FlagBits, r.flag_bit_diffs[i] > 0 PROVE bits[i] > 0
    BY <1>4
  <2>1. /\ bits[i] \in Nat /\ r.flag_bit_diffs[i] \in Nat /\ r.flag_bit_diffs[i] <= bits[i]
    BY <1>4
  <2> QED
    BY <2>1
<1>6. CASE verdict = "pass" \/ verdict = "state_fail"
  <2> DEFINE p == IF verdict = "pass" THEN r.pass + 1 ELSE r.pass
             s == IF verdict = "pass" THEN r.state_fail ELSE r.state_fail + 1
  <2>1. new = Made(r.total + 1, p, s, r.flag_fail, r.skipped, bits)
    BY <1>2, <1>6 DEF Reports, Made
  <2>2. p \in Nat /\ s \in Nat /\ r.flag_fail \in Nat /\ r.skipped \in Nat /\ r.total + 1 \in Nat
        /\ r.total + 1 = p + s + r.flag_fail
    BY <1>4, ReportFields
  <2>3. \A i \in 0 .. 11 : bits[i] <= r.flag_fail
    BY <1>1, <1>3, <1>4, <1>6
  <2> HIDE DEF p, s
  <2>4. new \in Reports /\ Adds(new) /\ Seen(new) = r.total + 1 + r.skipped
    <3>1. Tally(r.total + 1, p, s, r.flag_fail, r.skipped, bits)
      BY <1>3, <1>5, <2>2, <2>3 DEF Tally
    <3> QED
      BY <2>1, <3>1, MadeAdds
  <2> QED
    BY <2>4, ReportFields DEF Seen, new
<1>7. CASE verdict = "flag_fail"
  <2> DEFINE f == r.flag_fail + 1
  <2>1. new = Made(r.total + 1, r.pass, r.state_fail, f, r.skipped, bits)
    BY <1>2, <1>7 DEF Reports, Made
  <2>2. r.pass \in Nat /\ r.state_fail \in Nat /\ f \in Nat /\ r.skipped \in Nat /\ r.total + 1 \in Nat
        /\ r.total + 1 = r.pass + r.state_fail + f
    BY <1>4, ReportFields
  <2>3. PICK b \in FlagBits : b \in diff
    BY <1>1, <1>7
  <2>4. bits[b] > 0
    BY <1>3, <1>4, <2>3
  <2>5. \A i \in 0 .. 11 : bits[i] <= f
    BY <1>4, ReportFields
  <2> HIDE DEF f
  <2>6. new \in Reports /\ Adds(new) /\ Seen(new) = r.total + 1 + r.skipped
    <3>1. Tally(r.total + 1, r.pass, r.state_fail, f, r.skipped, bits)
      BY <1>3, <2>2, <2>4, <2>5 DEF Tally
    <3> QED
      BY <2>1, <3>1, MadeAdds
  <2> QED
    BY <2>6, ReportFields DEF Seen, new
<1> QED
  BY <1>1, <1>6, <1>7

LEMMA SummedAdds ==
  ASSUME NEW a \in Reports, Adds(a), NEW b \in Reports, Adds(b)
  PROVE  Summed(a, b) \in Reports /\ Adds(Summed(a, b)) /\ Seen(Summed(a, b)) = Seen(a) + Seen(b)
<1> DEFINE bits == [ i \in 0 .. 11 |-> a.flag_bit_diffs[i] + b.flag_bit_diffs[i] ]
           t == a.total + b.total
           p == a.pass + b.pass
           s == a.state_fail + b.state_fail
           f == a.flag_fail + b.flag_fail
           n == a.skipped + b.skipped
           new == Summed(a, b)
<1>1. /\ bits \in [ 0 .. 11 -> Nat ]
      /\ \A i \in 0 .. 11 : bits[i] = a.flag_bit_diffs[i] + b.flag_bit_diffs[i]
  BY ReportFields
<1>2. new = Made(t, p, s, f, n, bits)
  BY DEF Summed, Made
<1> HIDE DEF bits, new
<1>3. /\ t \in Nat /\ p \in Nat /\ s \in Nat /\ f \in Nat /\ n \in Nat
      /\ t = p + s + f /\ t + n = Seen(a) + Seen(b)
  BY ReportFields DEF Adds, Seen
<1>4. \A i \in 0 .. 11 : bits[i] <= f
  BY <1>1, ReportFields DEF Adds
<1>5. FlagBits \subseteq 0 .. 11
  BY DEF FlagBits
<1>6. f > 0 => \E i \in FlagBits : bits[i] > 0
  <2>1. CASE a.flag_fail > 0
    <3>1. PICK i \in FlagBits : a.flag_bit_diffs[i] > 0
      BY <2>1 DEF Adds
    <3>2. bits[i] > 0
      BY <1>1, <1>5, <3>1, ReportFields
    <3> QED
      BY <3>2
  <2>2. CASE b.flag_fail > 0
    <3>1. PICK i \in FlagBits : b.flag_bit_diffs[i] > 0
      BY <2>2 DEF Adds
    <3>2. bits[i] > 0
      BY <1>1, <1>5, <3>1, ReportFields
    <3> QED
      BY <3>2
  <2>3. f > 0 => a.flag_fail > 0 \/ b.flag_fail > 0
    BY ReportFields
  <2> QED
    BY <2>1, <2>2, <2>3
<1> HIDE DEF t, p, s, f, n
<1>7. new \in Reports /\ Adds(new) /\ Seen(new) = t + n
  <2>1. Tally(t, p, s, f, n, bits)
    BY <1>1, <1>3, <1>4, <1>6 DEF Tally
  <2> QED
    BY <1>2, <2>1, MadeAdds
<1> QED
  BY <1>3, <1>7 DEF new

\* A skipped case is seen and not judged.
LEMMA SkippedAdds ==
  ASSUME NEW r \in Reports, Adds(r), NEW new, new = [ r EXCEPT !.skipped = @ + 1 ]
  PROVE  new \in Reports /\ Adds(new) /\ Seen(new) = Seen(r) + 1
<1>1. new = Made(r.total, r.pass, r.state_fail, r.flag_fail, r.skipped + 1, r.flag_bit_diffs)
  BY DEF Reports, Made
<1>2. r.flag_bit_diffs \in [ 0 .. 11 -> Nat ]
  BY DEF Reports
<1>3. Tally(r.total, r.pass, r.state_fail, r.flag_fail, r.skipped + 1, r.flag_bit_diffs)
  BY <1>2, ReportFields DEF Tally, Adds
<1>4. new \in Reports /\ Adds(new) /\ Seen(new) = r.total + (r.skipped + 1)
  BY <1>1, <1>3, MadeAdds
<1> QED
  BY <1>4, ReportFields DEF Seen

\* The cases before the first line, after a line, after a file, and in the end.
LEMMA CasesFrom ==
  ASSUME NEW files, NEW p
  PROVE  p \in CasesOf(files) <=> \E f \in DOMAIN files : \E l \in CasesIn(files[f]) : p = << f, l >>
  BY DEF CasesOf

LEMMA BeforeFirst ==
  ASSUME work \in Workloads
  PROVE  CasesBefore(1, 1) = {}
<1>1. DOMAIN work.files = 1 .. Len(work.files) /\ Len(work.files) \in Nat
  BY WorkloadsAssumption
<1>2. ASSUME NEW p \in CasesBefore(1, 1) PROVE FALSE
  <2>1. PICK f \in DOMAIN work.files : \E l \in CasesIn(work.files[f]) : p = << f, l >>
    BY <1>2, CasesFrom DEF CasesBefore
  <2>2. PICK l \in CasesIn(work.files[f]) : p = << f, l >>
    BY <2>1
  <2>3. l \in 1 .. Len(work.files[f].lines) /\ Len(work.files[f].lines) \in Nat
    BY <2>2, WorkloadsAssumption DEF CasesIn
  <2>4. p[1] = f /\ p[2] = l /\ (p[1] < 1 \/ (p[1] = 1 /\ p[2] < 1))
    BY <1>2, <2>2 DEF CasesBefore
  <2> QED
    BY <1>1, <2>3, <2>4
<1> QED
  BY <1>2

\* What a line of the open file is to the directory.
LEMMA LineOfFile ==
  ASSUME Placed, phase = "line" \/ Running
  PROVE  \A l : << file, l >> \in CasesOf(work.files) <=> l \in DOMAIN Lines /\ Lines[l].kind = "case"
<1> TAKE l
<1>1. file \in DOMAIN work.files
  BY LinesAreCases
<1>2. << file, l >> \in CasesOf(work.files) <=> l \in CasesIn(work.files[file])
  BY <1>1, CasesFrom
<1>3. l \in CasesIn(work.files[file]) <=> l \in DOMAIN Lines /\ Lines[l].kind = "case"
  <2>1. DOMAIN << >> = {}
    OBVIOUS
  <2> QED
    BY <2>1 DEF CasesIn, Lines
<1> QED
  BY <1>2, <1>3

\* The numbers of a case of the directory.
LEMMA CaseNumbers ==
  ASSUME Placed, NEW p \in CasesOf(work.files)
  PROVE  /\ p = << p[1], p[2] >> /\ p[1] \in Nat /\ p[2] \in Nat
         /\ 1 <= p[1] /\ p[1] <= Len(work.files) /\ 1 <= p[2]
<1>1. PICK f \in DOMAIN work.files : \E l \in CasesIn(work.files[f]) : p = << f, l >>
  BY CasesFrom
<1>2. PICK l \in CasesIn(work.files[f]) : p = << f, l >>
  BY <1>1
<1>3. f \in 1 .. Len(work.files) /\ Len(work.files) \in Nat
  BY <1>1, WorkloadsAssumption DEF Placed
<1>4. l \in 1 .. Len(work.files[f].lines) /\ Len(work.files[f].lines) \in Nat
  BY <1>2, WorkloadsAssumption DEF Placed, CasesIn
<1> QED
  BY <1>2, <1>3, <1>4

LEMMA AfterLine ==
  ASSUME Placed, phase = "line" \/ Running, line <= Len(Lines)
  PROVE  /\ << file, line >> \notin CasesBefore(file, line)
         /\ Case.kind = "case" => CasesBefore(file, line + 1) = CasesBefore(file, line) \union {<< file, line >>}
         /\ Case.kind # "case" => CasesBefore(file, line + 1) = CasesBefore(file, line)
<1>1. /\ file \in Nat /\ line \in Nat /\ line \in DOMAIN Lines
      /\ << file, line >> \in CasesOf(work.files) <=> Case.kind = "case"
  <2>1. file \in Nat /\ line \in Nat /\ Len(Lines) \in Nat /\ DOMAIN Lines = 1 .. Len(Lines)
    BY LinesAreCases
  <2>2. line \in DOMAIN Lines
    BY <2>1 DEF Placed
  <2> QED
    BY <2>1, <2>2, LineOfFile DEF Case
<1>2. << file, line >> \notin CasesBefore(file, line)
  BY <1>1 DEF CasesBefore
<1>3. ASSUME NEW p
      PROVE  p \in CasesBefore(file, line + 1)
               <=> p \in CasesBefore(file, line) \/ (Case.kind = "case" /\ p = << file, line >>)
  <2>1. CASE p \in CasesOf(work.files)
    <3>1. p = << p[1], p[2] >> /\ p[1] \in Nat /\ p[2] \in Nat
      BY <2>1, CaseNumbers
    <3>2. p = << file, line >> <=> p[1] = file /\ p[2] = line
      BY <3>1
    <3> QED
      BY <1>1, <2>1, <3>1, <3>2 DEF CasesBefore
  <2>2. CASE p \notin CasesOf(work.files)
    BY <1>1, <2>2 DEF CasesBefore
  <2> QED
    BY <2>1, <2>2
<1> QED
  BY <1>2, <1>3

LEMMA AfterFile ==
  ASSUME Placed, phase = "line", line > Len(Lines)
  PROVE  CasesBefore(file, line) = CasesBefore(file + 1, 1)
<1>1. file \in Nat /\ line \in Nat /\ Len(Lines) \in Nat /\ DOMAIN Lines = 1 .. Len(Lines)
  BY LinesAreCases
<1>2. ASSUME NEW p \in CasesOf(work.files)
      PROVE  p \in CasesBefore(file, line) <=> p \in CasesBefore(file + 1, 1)
  <2>1. p = << p[1], p[2] >> /\ p[1] \in Nat /\ p[2] \in Nat /\ 1 <= p[2]
    BY CaseNumbers
  <2>2. p[1] = file => p[2] < line
    <3>1. p[1] = file => << file, p[2] >> \in CasesOf(work.files)
      BY <2>1
    <3>2. p[1] = file => p[2] \in DOMAIN Lines
      BY <3>1, LineOfFile
    <3> QED
      BY <1>1, <2>1, <3>2
  <2> QED
    BY <1>1, <2>1, <2>2 DEF CasesBefore
<1> QED
  BY <1>2 DEF CasesBefore

LEMMA BeforeTheEnd ==
  ASSUME Placed, file = Len(work.files) + 1
  PROVE  CasesBefore(file, 1) = CasesOf(work.files)
<1>1. Len(work.files) \in Nat
  BY WorkloadsAssumption DEF Placed
<1>2. ASSUME NEW p \in CasesOf(work.files) PROVE p[1] < file
  BY <1>1, CaseNumbers
<1> QED
  BY <1>2 DEF CasesBefore

LEMMA CountingAtFirst == Init => Counting
<1> SUFFICES ASSUME Init PROVE Counting
  OBVIOUS
<1>1. CasesBefore(file, 1) = {} /\ phase \in {"main", "missing"} /\ report = NoReport /\ grand = NoReport
  BY BeforeFirst DEF Init
<1> QED
  BY <1>1, NoReportAdds, FS_EmptySet DEF Counting, Running

\* No case is counted twice or lost by a step.
LEMMA CountingKept == Placed /\ Counting /\ [Next]_vars => Counting'
<1> SUFFICES ASSUME Placed, Counting, [Next]_vars PROVE Counting'
  OBVIOUS
<1> DEFINE before == CasesBefore(file, line)
<1>1. /\ report \in Reports /\ Adds(report) /\ Seen(report) \in Nat
      /\ grand \in Reports /\ Adds(grand) /\ Seen(grand) \in Nat
  BY ReportFields DEF Counting, Seen
<1>2. ASSUME phase = "line" \/ Running, line <= Len(Lines)
      PROVE  /\ IsFiniteSet(before) /\ Seen(grand) + Seen(report) = Cardinality(before)
             /\ Case.kind # "case" => CasesBefore(file, line + 1) = before
             /\ Case.kind = "case" =>
                  /\ IsFiniteSet(CasesBefore(file, line + 1))
                  /\ Seen(grand) + (Seen(report) + 1) = Cardinality(CasesBefore(file, line + 1))
  <2>1. /\ IsFiniteSet(before) /\ Seen(grand) + Seen(report) = Cardinality(before)
    BY <1>2 DEF Counting
  <2>2. /\ << file, line >> \notin before
        /\ Case.kind = "case" => CasesBefore(file, line + 1) = before \union {<< file, line >>}
        /\ Case.kind # "case" => CasesBefore(file, line + 1) = before
    BY <1>2, AfterLine
  <2> HIDE DEF before
  <2>3. /\ IsFiniteSet(before \union {<< file, line >>})
        /\ Cardinality(before \union {<< file, line >>}) = Cardinality(before) + 1
    BY <2>1, <2>2, FS_AddElement
  <2> QED
    BY <1>1, <2>1, <2>2, <2>3
<1> HIDE DEF before
<1>3. CASE UNCHANGED << work, file, line, report, grand >> /\ (phase = "line" \/ Running)
           /\ (phase = "line" \/ Running)' /\ phase' \notin {"main", "done"}
  <2>1. CasesBefore(file, line)' = CasesBefore(file, line)
    BY <1>3 DEF CasesBefore
  <2> QED
    BY <1>3, <2>1 DEF Counting, Seen, Adds
<1>4. CASE WithinCase
  BY <1>3, <1>4, WithinCaseStays DEF Running
<1>5. CASE StartCase
  <2>1. UNCHANGED << work, file, line, report, grand >> /\ phase = "line" /\ phase' = "step"
    BY <1>5 DEF StartCase, Program
  <2> QED
    BY <1>3, <2>1 DEF Running
<1>6. CASE Judge \/ SkipV20Only
  <2>1. /\ phase \in {"judge", "line"} /\ phase' = "line" /\ line' = line + 1
        /\ UNCHANGED << work, file, grand >>
    BY <1>6 DEF Judge, SkipV20Only, Program
  <2>2. Running \/ phase = "line"
    BY <2>1 DEF Running
  <2>3. line <= Len(Lines) /\ Case.kind = "case"
    BY <1>6 DEF Judge, SkipV20Only, Placed, Running
  <2>4. report' \in Reports /\ Adds(report') /\ Seen(report') = Seen(report) + 1
    <3>1. CASE Judge
      BY <1>1, <3>1, CountedAdds DEF Judge
    <3>2. CASE SkipV20Only
      BY <1>1, <3>2, SkippedAdds DEF SkipV20Only
    <3> QED
      BY <1>6, <3>1, <3>2
  <2>5. CasesBefore(file, line)' = CasesBefore(file, line + 1)
    BY <2>1 DEF CasesBefore
  <2> QED
    BY <1>1, <1>2, <2>1, <2>2, <2>3, <2>4, <2>5 DEF Counting, Running, Seen, Adds
<1>7. CASE SkipMalformed
  <2>1. /\ phase = "line" /\ phase' = "line" /\ line' = line + 1 /\ line <= Len(Lines) /\ Case.kind # "case"
        /\ UNCHANGED << work, file, report, grand >>
    BY <1>7 DEF SkipMalformed, Program
  <2>2. CasesBefore(file, line)' = CasesBefore(file, line + 1)
    BY <2>1 DEF CasesBefore
  <2> QED
    BY <1>1, <1>2, <2>1, <2>2 DEF Counting, Running, Seen, Adds, before
<1>8. CASE OpenFile
  <2>1. /\ phase = "main" /\ phase' = "line" /\ line' = 1 /\ report' = NoReport
        /\ UNCHANGED << work, file, grand >>
    BY <1>8 DEF OpenFile, Program
  <2>2. CasesBefore(file, line)' = CasesBefore(file, 1)
    BY <2>1 DEF CasesBefore
  <2>3. IsFiniteSet(CasesBefore(file, 1)) /\ Seen(grand) = Cardinality(CasesBefore(file, 1))
    BY <2>1 DEF Counting
  <2> QED
    BY <1>1, <2>1, <2>2, <2>3, NoReportAdds DEF Counting, Running, Seen, Adds
<1>9. CASE CloseFile
  <2>1. /\ phase = "line" /\ line > Len(Lines) /\ phase' = "main" /\ file' = file + 1
        /\ grand' = Summed(grand, report) /\ UNCHANGED << work, report >>
    BY <1>9 DEF CloseFile
  <2>2. CasesBefore(file, 1)' = CasesBefore(file, line)
    BY <2>1, AfterFile DEF CasesBefore
  <2>3. IsFiniteSet(CasesBefore(file, line)) /\ Seen(grand) + Seen(report) = Cardinality(CasesBefore(file, line))
    BY <2>1 DEF Counting
  <2>4. grand' \in Reports /\ Adds(grand') /\ Seen(grand') = Seen(grand) + Seen(report)
    BY <1>1, <2>1, SummedAdds
  <2> QED
    BY <1>1, <2>1, <2>2, <2>3, <2>4 DEF Counting, Running, Seen, Adds
<1>10. CASE Finish \/ UNCHANGED vars
  <2>1. UNCHANGED << work, file, line, report, grand >>
    BY <1>10 DEF Finish, Program, vars
  <2>2. (phase = "main" /\ phase' = "done") \/ phase' = phase
    BY <1>10 DEF Finish, vars
  <2>3. /\ CasesBefore(file, line)' = CasesBefore(file, line)
        /\ CasesBefore(file, 1)' = CasesBefore(file, 1)
    BY <2>1 DEF CasesBefore
  <2> QED
    BY <2>1, <2>2, <2>3 DEF Counting, Running, Seen, Adds
<1> QED
  BY <1>4, <1>5, <1>6, <1>7, <1>8, <1>9, <1>10, Steps DEF OutsideCase

\* The reports of v20-harness add up, in a file and over all, and its summary accounts
\* for each case of each file it could read, once.
THEOREM CountsAddUp == Spec => []ReportsAddUp
<1>1. Init => Placed /\ Counting
  BY PlacedAtFirst, CountingAtFirst
<1>2. Placed /\ Counting /\ [Next]_vars => (Placed /\ Counting)'
  BY PlacedKept, CountingKept
<1>3. Placed /\ Counting => ReportsAddUp
  <2> SUFFICES ASSUME Placed, Counting, phase = "done"
               PROVE  grand.total + grand.skipped = Cardinality(CasesOf(work.files))
    BY DEF Counting, ReportsAddUp
  <2>1. file = Len(work.files) + 1
    BY DEF Placed
  <2>2. CasesBefore(file, 1) = CasesOf(work.files)
    BY <2>1, BeforeTheEnd
  <2> QED
    BY <2>2 DEF Counting, Seen
<1> QED
  BY <1>1, <1>2, <1>3, PTL DEF Spec
=====================================================================================
