-------------------------------- MODULE SessionProofs --------------------------------
(***********************************************************************************)
(* Theorem about the boot of a session, for every set of images, models, damages   *)
(* and bounds: the first instruction of a machine goes where the footer of its     *)
(* image says. The footer is decoded from the end of the image and the CPU reads   *)
(* the top of the bus; that both are the same bytes is what the bank at power-up,  *)
(* the mapper and the length of the image come to.                                 *)
(***********************************************************************************)
EXTENDS Session, CommonLemmas, TLAPS

\* The image behind a machine is one that was dumped, and is no shorter than its footer.
Launched ==
  /\ dumped \in Images
  /\ events \in Nat
  /\ phase = "running" => image = dumped /\ Rom!Parse(image) = "Ok"

LEMMA LaunchedKept == Launched /\ [Next]_vars => Launched'
<1> SUFFICES ASSUME Launched, [Next]_vars PROVE Launched'
  OBVIOUS
<1>1. CASE UNCHANGED vars
  BY <1>1 DEF Launched, vars
<1>2. ASSUME NEW o, NEW b, Damage(o, b) PROVE Launched'
  BY <1>2 DEF Launched, Damage
<1>3. CASE Refuse
  BY <1>3 DEF Launched, Refuse
<1>4. ASSUME NEW m, PowerOn(m) PROVE Launched'
  BY <1>4 DEF Launched, PowerOn
<1>5. CASE Step
  BY <1>5 DEF Launched, Step
<1>6. CASE StepHalted
  BY <1>6 DEF Launched, StepHalted, vars
<1>7. CASE HostRaise
  BY <1>7 DEF Launched, HostRaise
<1> QED
  BY <1>1, <1>2, <1>3, <1>4, <1>5, <1>6, <1>7 DEF Next

---------------------------------------------------------------------------------
(* The top of the bus.                                                              *)

\* A bus of the present image whose banks are those of power-up.
Fresh(bus) == bus.cart = CartOf(image) /\ bus.banks = [ linear |-> 255, sram |-> 0, rom0 |-> 0, rom1 |-> 255 ]

\* What the mapper of the image reaches.
Reach == IF Rom!Is2003(image) THEN 67108864 ELSE 16777216

BusTop == 1048560

\* The end of a range is the end of what divides it.
LEMMA EndOfRange ==
  ASSUME NEW n \in Nat, n >= 16, NEW range \in Nat, range >= n, range % n = 0, NEW k \in 0 .. 15
  PROVE  (range - 16 + k) % n = n - 16 + k
<1> DEFINE x == range - 16 + k
           y == n - 16 + k
<1>1. x \in Int /\ y \in Int /\ n \in Nat \ {0} /\ y \in 0 .. n - 1
  OBVIOUS
<1>2. PICK q \in Int : range = n * q
  <2>1. range \in Int /\ range = n * (range \div n) + (range % n) /\ range \div n \in Int
    BY DivMod
  <2> QED
    BY <2>1
<1>3. x - y = n * (q - 1)
  BY <1>2
<1>4. (n * (q - 1)) % n = 0
  <2>1. q - 1 \in Int
    BY <1>2
  <2> HIDE DEF x, y
  <2> QED
    BY <1>1, <2>1, SMTT(30)
<1>5. x % n = y % n
  <2> HIDE DEF x, y
  <2> QED
    BY <1>1, <1>3, <1>4, SameRemainder
<1>6. y % n = y
  <2> HIDE DEF x, y
  <2> QED
    BY <1>1
<1> QED
  BY <1>5, <1>6

\* Above the windows is the linear one.
LEMMA AboveWindows ==
  ASSUME NEW bus, NEW a \in Int, a > 262143
  PROVE  /\ a \notin Map(bus)!RamRegion /\ a \notin Map(bus)!SramWindow
         /\ a \notin Map(bus)!Rom0Window /\ a \notin Map(bus)!Rom1Window
<1>1. \A low \in Int, high \in Int : a > high => a \notin low .. high
  OBVIOUS
<1>2. a \notin Map(bus)!RamRegion
  <2> DEFINE low  == 0
             high == 65535
  <2>1. Map(bus)!RamRegion = low .. high
    BY SMT DEF Map!RamRegion
  <2>2. low \in Int /\ high \in Int /\ a > high
    BY SMT
  <2> HIDE DEF low, high
  <2> QED
    BY <1>1, <2>1, <2>2
<1>3. a \notin Map(bus)!SramWindow
  <2> DEFINE low  == 65536
             high == 131071
  <2>1. Map(bus)!SramWindow = low .. high
    BY SMT DEF Map!SramWindow
  <2>2. low \in Int /\ high \in Int /\ a > high
    BY SMT
  <2> HIDE DEF low, high
  <2> QED
    BY <1>1, <2>1, <2>2
<1>4. a \notin Map(bus)!Rom0Window
  <2> DEFINE low  == 131072
             high == 196607
  <2>1. Map(bus)!Rom0Window = low .. high
    BY SMT DEF Map!Rom0Window
  <2>2. low \in Int /\ high \in Int /\ a > high
    BY SMT
  <2> HIDE DEF low, high
  <2> QED
    BY <1>1, <2>1, <2>2
<1>5. a \notin Map(bus)!Rom1Window
  <2> DEFINE low  == 196608
             high == 262143
  <2>1. Map(bus)!Rom1Window = low .. high
    BY SMT DEF Map!Rom1Window
  <2>2. low \in Int /\ high \in Int /\ a > high
    BY SMT
  <2> HIDE DEF low, high
  <2> QED
    BY <1>1, <2>1, <2>2
<1> QED
  BY <1>2, <1>3, <1>4, <1>5

LEMMA FooterOnBus ==
  ASSUME Launched, phase = "running", Reach % image.len = 0, NEW bus, Fresh(bus), NEW k \in 0 .. 15
  PROVE  BusRead(bus, BusTop + k) = Rom!Footer(image, k)
<1> DEFINE a == BusTop + k
           n == image.len
<1>1. n \in Nat /\ n >= 16 /\ bus.cart # NoCart /\ bus.cart.romLen = n /\ bus.cart.is2003 = Rom!Is2003(image)
  BY ImagesAssumption DEF Launched, Fresh, CartOf, Rom!Parse, Rom!HeaderLen
<1>2. a \in Int /\ 1048560 <= a /\ a < 1048576
  BY SMT DEF BusTop
<1>3. a % 1048576 = a /\ a > 262143
  <2> HIDE DEF a
  <2> QED
    BY <1>2, SMT
<1> HIDE DEF a
<1>4. Map(bus)!Cell(a) = << "rom", Map(bus)!RomOffset(a) >>
  <2>1. a \notin Map(bus)!RamRegion /\ a \notin Map(bus)!SramWindow
    BY <1>2, <1>3, AboveWindows
  <2> QED
    BY <1>1, <1>3, <2>1, SMT DEF Map!Cell, Map!RomCell
<1>5. Map(bus)!RomFlat(a) = 1048576 * Map(bus)!LinearBank + a
  <2>1. a \notin Map(bus)!Rom0Window /\ a \notin Map(bus)!Rom1Window
    BY <1>2, <1>3, AboveWindows
  <2> QED
    BY <2>1, SMT DEF Map!RomFlat
<1>6. Map(bus)!LinearBank = IF Rom!Is2003(image) THEN 63 ELSE 15
  BY <1>1 DEF Map!LinearBank, Map!Is2003, Fresh
<1>7. Map(bus)!RomFlat(a) = Reach - 16 + k
  BY <1>5, <1>6, SMT DEF Reach, BusTop, a
<1>8. Reach - 16 + k >= 0
  BY DEF Reach
<1>9. (Reach - 16 + k) % n = n - 16 + k
  <2>1. Reach \in Nat /\ Reach > 0
    BY DEF Reach
  <2>2. n <= Reach
    <3> HIDE DEF n
    <3>1. ~ n > Reach
      <4> SUFFICES ASSUME n > Reach PROVE FALSE
        OBVIOUS
      <4>1. Reach % n = Reach
        BY <1>1, <2>1
      <4> QED
        BY <2>1, <4>1 DEF n
    <3> QED
      BY <1>1, <2>1, <3>1
  <2> QED
    BY <1>1, <2>1, <2>2, EndOfRange
<1>10. Map(bus)!RomOffset(a) = n - 16 + k
  BY <1>1, <1>7, <1>9 DEF Map!RomOffset
<1>11. BusRead(bus, a) = Rom!At(image.bytes, n - 16 + k)
  <2> HIDE DEF n
  <2> QED
    BY <1>4, <1>10 DEF BusRead
<1> QED
  BY <1>11 DEF Rom!Footer, Rom!HeaderLen, a

---------------------------------------------------------------------------------
(* The first instruction.                                                           *)

\* A CPU at the reset vector on a fresh bus.
Booting(c) ==
  /\ c = [ reg |-> c.reg, seg |-> c.seg, ip |-> c.ip, flags |-> c.flags, halted |-> c.halted,
           outcome |-> c.outcome, bus |-> c.bus ]
  /\ DOMAIN c.seg = ES .. DS /\ c.seg[CS] = 65535 /\ c.ip = 0 /\ c.flags = {} /\ c.halted = FALSE
  /\ Fresh(c.bus)

LEMMA ResetBoots == AtReset => Booting(cpu)
<1> SUFFICES ASSUME AtReset PROVE Booting(cpu)
  OBVIOUS
<1>1. PICK m \in Models : cpu = [ NewCpu(NewBus(m, image)) EXCEPT !.bus.interrupts = cpu.bus.interrupts ]
  BY DEF AtReset
<1> DEFINE fresh == NewBus(m, image)
           ic    == cpu.bus.interrupts
           bus   == [ fresh EXCEPT !.interrupts = ic ]
<1>2. cpu = NewCpu(bus)
  <2> DEFINE reg == [ i \in AX .. DI |-> 0 ]
             seg == [ i \in ES .. DS |-> IF i = CS THEN 65535 ELSE 0 ]
  <2>1. cpu = [ NewCpu(fresh) EXCEPT !.bus.interrupts = ic ]
    BY <1>1
  <2>2. \A b : NewCpu(b) = [ reg |-> reg, seg |-> seg, ip |-> 0, flags |-> {}, halted |-> FALSE,
                           outcome |-> "executed", bus |-> b ]
    BY DEF NewCpu
  <2> HIDE DEF fresh, ic, reg, seg
  <2> QED
    BY <2>1, <2>2
<1>3. Fresh(bus)
  <2>1. Fresh(fresh)
    BY DEF Fresh, NewBus, Map!PowerUp
  <2>2. DOMAIN fresh = DOMAIN bus
    OBVIOUS
  <2> QED
    BY <2>1 DEF Fresh, NewBus
<1> HIDE DEF bus
<1> QED
  BY <1>2, <1>3 DEF NewCpu, Booting, ES, CS, DS

LEMMA Fetched ==
  ASSUME Launched, phase = "running", Reach % image.len = 0,
         NEW c, c.seg[CS] = 65535, NEW k \in 0 .. 14, c.ip = k, Fresh(c.bus)
  PROVE  /\ Immediate(c, 8) = Rom!Footer(image, k)
         /\ Immediate(c, 16) = Rom!FooterWord(image, k)
<1>1. PhysicalAddress(65535, k) = BusTop + k /\ Wrap(k + 1) = k + 1 /\ PhysicalAddress(65535, k + 1) = BusTop + (k + 1)
  BY DEF PhysicalAddress, Wrap, BusTop
<1>2. k \in 0 .. 15 /\ k + 1 \in 0 .. 15
  OBVIOUS
<1>3. BusRead(c.bus, BusTop + k) = Rom!Footer(image, k) /\ BusRead(c.bus, BusTop + (k + 1)) = Rom!Footer(image, k + 1)
  BY <1>2, FooterOnBus
<1> QED
  BY <1>1, <1>3 DEF Immediate, ReadMem, Rom!FooterWord

LEMMA LengthRange == 0 \in 0 .. 65535 /\ \A n \in 0 .. 65535 : n \in Int /\ 0 <= n
<1> DEFINE high == 65535
<1>1. high \in Int /\ 0 <= high
  BY SMT
<1> HIDE DEF high
<1>2. 0 \in 0 .. high /\ \A n \in 0 .. high : n \in Int /\ 0 <= n
  BY <1>1, SMT
<1> QED
  BY <1>2, SMT DEF high

\* With no prefix before it, the instruction of a step is the one at IP.
LEMMA SteppedIs ==
  ASSUME NEW c, Booting(c), Immediate(c, 8) \notin PrefixBytes, Immediate(c, 8) \notin Strings
  PROVE  Stepped(c) = Execute([ Past(c, 8) EXCEPT !.outcome = "executed" ], Immediate(c, 8), NoOverride)
<1> DEFINE byte(i) == Immediate([ c EXCEPT !.ip = Wrap(@ + i) ], 8)
           first(n) == byte(n) \notin PrefixBytes /\ \A i \in 0 .. n - 1 : byte(i) \in PrefixBytes
           words  == 0 .. 65535
           length == CHOOSE n \in words : first(n)
<1>1. byte(0) = Immediate(c, 8)
  <2>1. Wrap(0 + 0) = 0
    BY DEF Wrap
  <2>2. [ c EXCEPT !.ip = Wrap(@ + 0) ] = c
    BY <2>1 DEF Booting
  <2> QED
    BY <2>2
<1>2. length = 0
  <2>1. 0 \in words /\ \A n \in words : n \in Int /\ 0 <= n
    BY LengthRange, SMT
  <2> HIDE DEF byte, words
  <2>2. first(0)
    BY <1>1
  <2>3. ASSUME NEW n \in words, first(n) PROVE n = 0
    <3>1. n # 0 => 0 \in 0 .. n - 1
      BY <2>1
    <3> QED
      BY <1>1, <2>3, <3>1, Zenon
  <2> HIDE DEF first
  <2>4. length \in words /\ first(length)
    BY <2>1, <2>2, Zenon
  <2> HIDE DEF length
  <2> QED
    BY <2>3, <2>4
<1> HIDE DEF length
<1>3. 0 .. length - 1 = {} /\ 8 * (length + 1) = 8
  BY <1>2
<1> DEFINE latest(prefixes) == { i \in 0 .. length - 1 : byte(i) \in prefixes
                                   /\ \A j \in i + 1 .. length - 1 : byte(j) \notin prefixes }
           op      == byte(length)
           next    == [ Past(c, 8 * (length + 1)) EXCEPT !.outcome = "executed" ]
           segment == IF latest(SegmentPrefixes) = {} THEN NoOverride
                      ELSE c.seg[(byte(CHOOSE i \in latest(SegmentPrefixes) : TRUE) \div 8) % 4]
           prefix  == IF latest(RepPrefixes) = {} THEN NoPrefix
                      ELSE byte(CHOOSE i \in latest(RepPrefixes) : TRUE)
<1>4. Stepped(c) = IF op \in Strings /\ prefix # NoPrefix THEN Repeated(next, op, segment, prefix)
                   ELSE Execute(next, op, segment)
  BY DEF Stepped, length
<1>5. latest(SegmentPrefixes) = {} /\ latest(RepPrefixes) = {}
  <2> HIDE DEF byte
  <2> QED
    BY <1>3
<1>6. segment = NoOverride
  <2> HIDE DEF latest
  <2> QED
    BY <1>5
<1>7. op = Immediate(c, 8) /\ next = [ Past(c, 8) EXCEPT !.outcome = "executed" ]
  <2> HIDE DEF byte
  <2> QED
    BY <1>1, <1>2, <1>3
<1> HIDE DEF op, next, segment, prefix
<1> QED
  BY <1>4, <1>6, <1>7

LEMMA FirstInstruction ==
  ASSUME Launched, phase = "running", Reach % image.len = 0, Rom!Footer(image, 0) = \hEA,
         NEW c, Booting(c)
  PROVE  LET d == Stepped(c)
         IN  d.seg[CS] = Rom!FooterWord(image, 3) /\ d.ip = Rom!FooterWord(image, 1)
<1> DEFINE n    == [ Past(c, 8) EXCEPT !.outcome = "executed" ]
           near == Past(n, 16)
<1>1. Immediate(c, 8) = \hEA
  BY Fetched DEF Booting
<1>2. Stepped(c) = Execute(n, \hEA, NoOverride)
  BY <1>1, SteppedIs DEF PrefixBytes, SegmentPrefixes, RepPrefixes, Lock, Strings
<1>3. Execute(n, \hEA, NoOverride) = ExecuteJump(n, \hEA)
  <2> DEFINE op == \hEA
  <2>1. op = 234
    BY SMT
  <2> HIDE DEF n, op
  <2>2. op \notin AluBlock /\ op \notin MoveModrm /\ op \notin MoveDirect /\ op \notin Exchanges
    BY <2>1 DEF AluBlock, MoveModrm, MoveDirect, Exchanges
  <2>3. op \notin Group1 /\ op \notin Singles /\ op \notin StackOps /\ op \in Jumps
    BY <2>1 DEF Group1, Singles, StackOps, Jumps
  <2>4. op \notin Calls /\ op \notin Group2 /\ op \notin Group3 /\ op \notin Groups45
    BY <2>1 DEF Calls, Group2, Group3, Groups45
  <2>5. op \notin PortOps /\ op \notin FlagOps /\ op \notin Strings
    BY <2>1 DEF PortOps, FlagOps, Strings
  <2>6. Execute(n, op, NoOverride) = ExecuteJump(n, op)
    BY <2>2, <2>3, <2>4, <2>5, SMT DEF Execute
  <2> QED
    BY <2>6 DEF op
<1>4. ExecuteJump(n, \hEA) = JumpFar(n, Immediate(near, 16), Immediate(n, 16))
  <2> HIDE DEF n
  <2> QED
    BY DEF ExecuteJump
<1>5. n.seg = c.seg /\ n.ip = 1 /\ n.bus = c.bus /\ near.seg = c.seg /\ near.ip = 3 /\ near.bus = c.bus
  BY DEF Past, Booting, Wrap
<1>6. Immediate(n, 16) = Rom!FooterWord(image, 1)
  <2> HIDE DEF n
  <2> QED
    BY <1>5, Fetched DEF Booting
<1>7. Immediate(near, 16) = Rom!FooterWord(image, 3)
  <2> HIDE DEF n, near
  <2> QED
    BY <1>5, Fetched DEF Booting
<1>8. \A s, o : LET d == JumpFar(n, s, o) IN d.seg[CS] = s /\ d.ip = o
  BY DEF JumpFar, Past, Booting, ES, CS, DS
<1> HIDE DEF n, near
<1> QED
  BY <1>2, <1>3, <1>4, <1>6, <1>7, <1>8

LEMMA FirstStep ==
  ASSUME Launched, Next, AtReset, events' = events, Rom!BootEntry(image).kind = "far",
         Reach % image.len = 0
  PROVE  cpu'.seg[CS] = Rom!BootEntry(image).segment /\ cpu'.ip = Rom!BootEntry(image).offset
<1>1. phase = "running" /\ Booting(cpu)
  BY ResetBoots DEF AtReset
<1>2. /\ Rom!Footer(image, 0) = \hEA
      /\ Rom!BootEntry(image).segment = Rom!FooterWord(image, 3)
      /\ Rom!BootEntry(image).offset = Rom!FooterWord(image, 1)
  BY SMT DEF Rom!BootEntry, Rom!NoEntry, Rom!FarPointer
<1>3. AtBoundary = cpu /\ ~ cpu.halted
  BY <1>1 DEF AtBoundary, Booting
<1>4. Step
  <2>1. ~ StepHalted /\ ~ Refuse
    BY <1>1, <1>3 DEF StepHalted, Refuse
  <2>2. \A o, b : ~ Damage(o, b)
    BY <1>1 DEF Damage
  <2>3. \A m : ~ PowerOn(m)
    BY <1>1 DEF PowerOn
  <2>4. ~ HostRaise
    BY DEF HostRaise, Launched
  <2> QED
    BY <2>1, <2>2, <2>3, <2>4 DEF Next
<1>5. cpu' = Stepped(cpu)
  BY <1>3, <1>4 DEF Step
<1> QED
  BY <1>1, <1>2, <1>5, FirstInstruction, SMT

\* Every machine, of any model and with any image whose length divides what its mapper
\* reaches, takes its first instruction to the boot entry of the footer, whatever the
\* host has raised.
THEOREM BootsAtEntry == Spec => EntersAtBootEntry
<1> DEFINE range == 1048576 * (IF Rom!Is2003(image) THEN 64 ELSE 16)
           entry == Rom!BootEntry(image)
           Enters == (AtReset /\ events' = events /\ entry.kind = "far" /\ range % image.len = 0)
                       => cpu'.seg[CS] = entry.segment /\ cpu'.ip = entry.offset
<1>1. Init => Launched
  BY DEF Init, Launched
<1>2. range = Reach
  BY SMT DEF Reach
<1>3. Launched /\ [Next]_vars => [Enters]_vars
  <2> HIDE DEF range
  <2> QED
    BY <1>2, FirstStep, SMT
<1> QED
  BY <1>1, <1>3, LaunchedKept, PTL DEF Spec, EntersAtBootEntry
=====================================================================================
