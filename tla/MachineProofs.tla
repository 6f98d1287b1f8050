------------------------------- MODULE MachineProofs -------------------------------
(***********************************************************************************)
(* Theorems about Machine, for every program, vector table, stack size, set of     *)
(* sources and number of events. The last two, on the frames of the open           *)
(* interrupts and on the program they interrupt, hold of every program that keeps  *)
(* its stack (KeepsItsStack). Their invariant is Stacked: what each open interrupt *)
(* found on the stack is still there, with its return frame on top of it. The one  *)
(* before them, on deliveries, holds of every program that acknowledges its lines. *)
(***********************************************************************************)
EXTENDS Machine, CommonLemmas, SequenceTheorems

---------------------------------------------------------------------------------
(* The FLAGS word.                                                                *)

LEMMA WordRange == \A n \in Int : n \in Word <=> 0 <= n /\ n <= 65535
  <1>1. MaxWord \in Int /\ MaxWord = 65535
    BY DEF MaxWord
  <1>2. MaxWord \in Int => \A n \in Int : n \in Word <=> 0 <= n /\ n <= MaxWord
    BY DEF Word
  <1>3. QED
    BY <1>1, <1>2

LEMMA ByteRange == \A n \in Int : n \in Byte <=> 0 <= n /\ n <= 255
  <1>1. MaxByte \in Int /\ MaxByte = 255
    BY DEF MaxByte
  <1>2. \A n \in Int : n \in Byte <=> 0 <= n /\ n <= MaxByte
    BY <1>1 DEF Byte
  <1>3. QED
    BY <1>1, <1>2

\* What PUSHF and interrupt entry write is a word that POPF and IRET read back as the
\* same flags: the reserved and mode bits disturb none of them (to_word, from_word).
LEMMA FlagsRoundTrip ==
  ASSUME NEW f \in Flags
  PROVE  ToWord(f) \in Word /\ FromWord(ToWord(f)) = f
  <1>1. \A n \in FlagNames : Bit(f, n) \in 0 .. 1 /\ (Bit(f, n) = 1 <=> n \in f)
    BY DEF Bit
  <1>2. PICK w \in Int : w = ToWord(f)
    BY <1>1 DEF ToWord, AlwaysOne, FlagNames
  <1>3. /\ 0 <= w /\ w <= 65535
        /\ (w \div 1) % 2 = Bit(f, "carry")
        /\ (w \div 4) % 2 = Bit(f, "parity")
        /\ (w \div 16) % 2 = Bit(f, "aux_carry")
        /\ (w \div 64) % 2 = Bit(f, "zero")
        /\ (w \div 128) % 2 = Bit(f, "sign")
        /\ (w \div 256) % 2 = Bit(f, "trap")
        /\ (w \div 512) % 2 = Bit(f, "interrupt")
        /\ (w \div 1024) % 2 = Bit(f, "direction")
        /\ (w \div 2048) % 2 = Bit(f, "overflow")
    <2>1. w = 61442 + Bit(f, "carry") + 4 * Bit(f, "parity") + 16 * Bit(f, "aux_carry")
                + 64 * Bit(f, "zero") + 128 * Bit(f, "sign") + 256 * Bit(f, "trap")
                + 512 * Bit(f, "interrupt") + 1024 * Bit(f, "direction")
                + 2048 * Bit(f, "overflow")
      BY <1>2 DEF ToWord, AlwaysOne
    <2>2. /\ Bit(f, "carry") \in 0 .. 1 /\ Bit(f, "parity") \in 0 .. 1
          /\ Bit(f, "aux_carry") \in 0 .. 1 /\ Bit(f, "zero") \in 0 .. 1
          /\ Bit(f, "sign") \in 0 .. 1 /\ Bit(f, "trap") \in 0 .. 1
          /\ Bit(f, "interrupt") \in 0 .. 1 /\ Bit(f, "direction") \in 0 .. 1
          /\ Bit(f, "overflow") \in 0 .. 1
      BY <1>1 DEF FlagNames
    <2>3. PICK a \in 0 .. 1 : a = Bit(f, "carry")
      BY <2>2
    <2>4. PICK b \in 0 .. 1 : b = Bit(f, "parity")
      BY <2>2
    <2>5. PICK c \in 0 .. 1 : c = Bit(f, "aux_carry")
      BY <2>2
    <2>6. PICK d \in 0 .. 1 : d = Bit(f, "zero")
      BY <2>2
    <2>7. PICK e \in 0 .. 1 : e = Bit(f, "sign")
      BY <2>2
    <2>8. PICK g \in 0 .. 1 : g = Bit(f, "trap")
      BY <2>2
    <2>9. PICK h \in 0 .. 1 : h = Bit(f, "interrupt")
      BY <2>2
    <2>10. PICK i \in 0 .. 1 : i = Bit(f, "direction")
      BY <2>2
    <2>11. PICK j \in 0 .. 1 : j = Bit(f, "overflow")
      BY <2>2
    <2>12. w = 61442 + a + 4 * b + 16 * c + 64 * d + 128 * e + 256 * g
                + 512 * h + 1024 * i + 2048 * j
      BY <2>1, <2>3, <2>4, <2>5, <2>6, <2>7, <2>8, <2>9, <2>10, <2>11
    <2>13. /\ 0 <= w /\ w <= 65535
           /\ (w \div 1) % 2 = a
           /\ (w \div 4) % 2 = b
           /\ (w \div 16) % 2 = c
           /\ (w \div 64) % 2 = d
           /\ (w \div 128) % 2 = e
           /\ (w \div 256) % 2 = g
           /\ (w \div 512) % 2 = h
           /\ (w \div 1024) % 2 = i
           /\ (w \div 2048) % 2 = j
      BY <2>12
    <2>14. QED
      BY <2>13, <2>3, <2>4, <2>5, <2>6, <2>7, <2>8, <2>9, <2>10, <2>11
  <1>4. ASSUME NEW n \in FlagNames
        PROVE  (w \div FlagMask[n]) % 2 = Bit(f, n)
    BY <1>3 DEF FlagMask, FlagNames
  <1>5. FromWord(w) = f
    BY <1>1, <1>4 DEF FromWord, Flags
  <1>6. w \in Word
    BY <1>3, WordRange
  <1>7. QED
    BY <1>2, <1>5, <1>6

---------------------------------------------------------------------------------
(* The CPU.                                                                       *)

\* SP stays in its segment (wrapping_sub and wrapping_add in push16 and pop16).
LEMMA SlotsClosed ==
  ASSUME NEW sp \in Slots, NEW n \in 0 .. 3
  PROVE  Below(sp, n) \in Slots /\ Above(sp, n) \in Slots
  BY StackAssumption DEF Below, Above, Slots

LEMMA PushType ==
  ASSUME NEW c \in CpuStates, NEW w \in Word
  PROVE  Push(c, w) \in CpuStates
  <1>1. c.sp \in Slots /\ c.stack \in [ Slots -> Word ]
    BY DEF CpuStates
  <1>2. Below(c.sp, 1) \in Slots
    BY <1>1, SlotsClosed
  <1>3. [ c.stack EXCEPT ![Below(c.sp, 1)] = w ] \in [ Slots -> Word ]
    BY <1>1
  <1>4. QED
    BY <1>2, <1>3 DEF Push, CpuStates

LEMMA DropType ==
  ASSUME NEW c \in CpuStates, NEW n \in 0 .. 3
  PROVE  Drop(c, n) \in CpuStates /\ Peek(c, n) \in Word
  BY SlotsClosed DEF Drop, Peek, CpuStates

LEMMA FromWordType == \A w : FromWord(w) \in Flags
  BY DEF FromWord, Flags

\* Interrupt entry keeps every register in its width (service_interrupt).
LEMMA ServiceType ==
  ASSUME NEW c \in CpuStates, NEW v \in Byte
  PROVE  ServiceInterrupt(c, v) \in CpuStates
  <1> DEFINE framed == Push(Push(Push(c, ToWord(c.flags)), c.cs), c.ip)
  <1>1. c.flags \in Flags /\ c.cs \in Word /\ c.ip \in Word
    BY DEF CpuStates
  <1>2. framed \in CpuStates
    BY <1>1, PushType, FlagsRoundTrip
  <1>3. Ivt[v][1] \in Word /\ Ivt[v][2] \in Word
    BY IvtAssumption
  <1>4. framed.flags \ { "interrupt", "trap" } \in Flags
    BY <1>2 DEF CpuStates, Flags
  <1> HIDE DEF framed
  <1>5. QED
    BY <1>2, <1>3, <1>4 DEF ServiceInterrupt, Framed, framed, CpuStates

\* Interrupt return keeps every register in its width, whatever words it pops (IRET).
LEMMA ReturnType ==
  ASSUME NEW c \in CpuStates
  PROVE  InterruptReturn(c) \in CpuStates
  <1>1. /\ Drop(c, 3) \in CpuStates
        /\ Peek(c, 0) \in Word
        /\ Peek(c, 1) \in Word
    BY DropType
  <1>2. QED
    BY <1>1, FromWordType DEF InterruptReturn, CpuStates

\* Every instruction keeps every register in its width (execute).
LEMMA ExecuteType ==
  ASSUME NEW c \in CpuStates, NEW i \in Instructions, NEW input \in Byte,
         i.op = "INT" => i.arg \in Byte
  PROVE  Execute(c, i, input) \in CpuStates
  <1> DEFINE n == Advance(c)
  <1>1. n \in CpuStates
    <2>1. c.ip \in Int /\ 0 <= c.ip
      BY WordRange DEF CpuStates, Word
    <2>2. (c.ip + 1) % 65536 \in Word
      BY <2>1, WordRange
    <2>3. QED
      BY <2>2 DEF Advance, CpuStates
  <1> HIDE DEF n
  <1>2. i.op \in Ops /\ i.arg \in Word
    BY DEF Instructions
  <1>3. n.ax \in Word /\ n.flags \in Flags
    BY <1>1 DEF CpuStates
  <1>4. ToWord(n.flags) \in Word
    BY <1>3, FlagsRoundTrip
  <1>5. CASE i.op \in {"NOP", "OUT", "OUTW"}
    BY <1>1, <1>5 DEF Execute, n
  <1>6. CASE i.op = "MOVAX"
    BY <1>1, <1>2, <1>6 DEF Execute, n, CpuStates
  <1>7. CASE i.op = "IN"
    <2>1. n.ax \in Int /\ 0 <= n.ax /\ n.ax <= 65535
      BY <1>3, WordRange DEF Word
    <2>2. input \in Int /\ 0 <= input /\ input <= 255
      BY ByteRange DEF Byte
    <2>3. 256 * (n.ax \div 256) + input \in Word
      BY <2>1, <2>2, WordRange
    <2>4. SetAl(n, input) \in CpuStates
      BY <1>1, <2>3 DEF SetAl, CpuStates
    <2>5. QED
      BY <1>7, <2>4 DEF Execute, n
  <1>8. CASE i.op = "PUSHAX"
    BY <1>1, <1>3, <1>8, PushType DEF Execute, n
  <1>9. CASE i.op = "POPAX"
    <2>1. Drop(n, 1) \in CpuStates /\ Peek(n, 0) \in Word
      BY <1>1, DropType
    <2>2. [ Drop(n, 1) EXCEPT !.ax = Peek(n, 0) ] \in CpuStates
      BY <2>1 DEF CpuStates
    <2>3. QED
      BY <1>9, <2>2 DEF Execute, n
  <1>10. CASE i.op = "PUSHF"
    BY <1>1, <1>4, <1>10, PushType DEF Execute, n
  <1>11. CASE i.op = "POPF"
    <2>1. Drop(n, 1) \in CpuStates
      BY <1>1, DropType
    <2>2. [ Drop(n, 1) EXCEPT !.flags = FromWord(Peek(n, 0)) ] \in CpuStates
      BY <2>1, FromWordType DEF CpuStates
    <2>3. QED
      BY <1>11, <2>2 DEF Execute, n
  <1>12. CASE i.op \in {"CLI", "STI"}
    <2>1. n.flags \ {"interrupt"} \in Flags /\ n.flags \union {"interrupt"} \in Flags
      BY <1>3 DEF Flags, FlagNames
    <2>2. \A f \in Flags : [ n EXCEPT !.flags = f ] \in CpuStates
      BY <1>1 DEF CpuStates
    <2>3. QED
      BY <1>12, <2>1, <2>2 DEF Execute, n
  <1>13. CASE i.op = "HLT"
    BY <1>1, <1>13 DEF Execute, n, CpuStates
  <1>14. CASE i.op = "JMP"
    BY <1>1, <1>2, <1>14 DEF Execute, n, CpuStates
  <1>15. CASE i.op = "INT"
    BY <1>1, <1>15, ServiceType DEF Execute, n
  <1>16. CASE i.op = "INTO"
    <2>1. 4 \in Byte
      BY ByteRange
    <2>2. QED
      BY <1>1, <1>16, <2>1, ServiceType DEF Execute, n
  <1>17. CASE i.op = "IRET"
    BY <1>1, <1>17, ReturnType DEF Execute, n
  <1>18. QED
    BY <1>2, <1>5, <1>6, <1>7, <1>8, <1>9, <1>10, <1>11, <1>12, <1>13, <1>14, <1>15,
       <1>16, <1>17 DEF Ops

\* An interrupt that is serviced and returned from leaves the program where and as it
\* was, except that HLT is over: code address, flags (IF and TF with them), AX and stack
\* pointer, and every word of the stack but the three below SP. It holds for every stack
\* of three words or more and every SP, those included from which SP wraps before, within
\* and after the frame (service_interrupt against IRET, exec.rs).
THEOREM ServiceThenReturn ==
  ASSUME NEW c \in CpuStates, NEW v \in Byte
  PROVE  LET r == InterruptReturn(ServiceInterrupt(c, v))
         IN  /\ r.cs = c.cs /\ r.ip = c.ip
             /\ r.flags = c.flags /\ r.ax = c.ax
             /\ r.sp = c.sp
             /\ ~r.halted
             /\ \A s \in Slots \ { Below(c.sp, n) : n \in 1 .. 3 } : r.stack[s] = c.stack[s]
  <1> DEFINE a == Push(c, ToWord(c.flags))
             b == Push(a, c.cs)
             d == Push(b, c.ip)
             h == ServiceInterrupt(c, v)
             p == Below(c.sp, 1)
             q == Below(p, 1)
             r == Below(q, 1)
  <1>1. /\ c.flags \in Flags /\ c.cs \in Word /\ c.ip \in Word
        /\ c.sp \in Slots /\ c.stack \in [ Slots -> Word ]
    BY DEF CpuStates
  <1>2. /\ p \in Slots /\ q \in Slots /\ r \in Slots
        /\ p # q /\ q # r /\ p # r
        /\ Above(r, 0) = r /\ Above(r, 1) = q /\ Above(r, 2) = p /\ Above(r, 3) = c.sp
        /\ q = Below(c.sp, 2) /\ r = Below(c.sp, 3)
    <2>1. /\ StackWords \in Nat /\ StackWords >= 3 /\ c.sp \in Nat /\ c.sp < StackWords
          /\ Slots = 0 .. StackWords - 1
      BY <1>1, StackAssumption DEF Slots
    <2>2. CASE c.sp = 0
      <3>1. p = StackWords - 1 /\ q = StackWords - 2 /\ r = StackWords - 3
        BY <2>1, <2>2 DEF Below
      <3> HIDE DEF p, q, r
      <3>2. QED
        BY <2>1, <2>2, <3>1 DEF Above, Below
    <2>3. CASE c.sp = 1
      <3>1. p = 0 /\ q = StackWords - 1 /\ r = StackWords - 2
        BY <2>1, <2>3 DEF Below
      <3> HIDE DEF p, q, r
      <3>2. QED
        BY <2>1, <2>3, <3>1 DEF Above, Below
    <2>4. CASE c.sp = 2
      <3>1. p = 1 /\ q = 0 /\ r = StackWords - 1
        BY <2>1, <2>4 DEF Below
      <3> HIDE DEF p, q, r
      <3>2. QED
        BY <2>1, <2>4, <3>1 DEF Above, Below
    <2>5. CASE c.sp >= 3
      <3>1. p = c.sp - 1 /\ q = c.sp - 2 /\ r = c.sp - 3
        BY <2>1, <2>5 DEF Below
      <3> HIDE DEF p, q, r
      <3>2. QED
        BY <2>1, <2>5, <3>1 DEF Above, Below
    <2>6. QED
      BY <2>1, <2>2, <2>3, <2>4, <2>5
  <1>3. { Below(c.sp, n) : n \in 1 .. 3 } = { p, q, r }
    BY <1>2
  <1>4. /\ a \in CpuStates /\ b \in CpuStates /\ d \in CpuStates
        /\ ToWord(c.flags) \in Word
    BY <1>1, PushType, FlagsRoundTrip
  <1>5. /\ d.sp = r
        /\ d.stack = [ [ [ c.stack EXCEPT ![p] = ToWord(c.flags) ]
                          EXCEPT ![q] = c.cs ] EXCEPT ![r] = c.ip ]
        /\ d.ax = c.ax
    <2>1. a.sp = p /\ a.stack = [ c.stack EXCEPT ![p] = ToWord(c.flags) ] /\ a.ax = c.ax
      BY DEF Push, CpuStates
    <2> HIDE DEF p, q, r, a
    <2>2. b.sp = q /\ b.stack = [ a.stack EXCEPT ![q] = c.cs ] /\ b.ax = c.ax
      BY <1>4, <2>1 DEF Push, CpuStates, q
    <2> HIDE DEF b
    <2>3. d.sp = r /\ d.stack = [ b.stack EXCEPT ![r] = c.ip ] /\ d.ax = c.ax
      BY <1>4, <2>2 DEF Push, CpuStates, r
    <2>4. QED
      BY <2>1, <2>2, <2>3
  <1> HIDE DEF a, b, d, p, q, r
  <1>6. /\ h.sp = r /\ h.stack = d.stack /\ h.ax = c.ax /\ h.halted = FALSE
        /\ h \in CpuStates
    <2>1. h \in CpuStates
      BY ServiceType
    <2>2. QED
      BY <1>4, <1>5, <2>1 DEF ServiceInterrupt, Framed, a, b, d, CpuStates
  <1> HIDE DEF h
  <1>7. /\ h.stack[p] = ToWord(c.flags) /\ h.stack[q] = c.cs /\ h.stack[r] = c.ip
        /\ \A s \in Slots \ { p, q, r } : h.stack[s] = c.stack[s]
    BY <1>1, <1>2, <1>5, <1>6
  <1>8. /\ InterruptReturn(h).cs = c.cs
        /\ InterruptReturn(h).ip = c.ip
        /\ InterruptReturn(h).flags = FromWord(ToWord(c.flags))
        /\ InterruptReturn(h).ax = c.ax
        /\ InterruptReturn(h).sp = c.sp
        /\ InterruptReturn(h).halted = FALSE
        /\ InterruptReturn(h).stack = h.stack
    BY <1>2, <1>6, <1>7 DEF InterruptReturn, Drop, Peek, CpuStates
  <1>9. QED
    BY <1>1, <1>3, <1>7, <1>8, FlagsRoundTrip DEF h

---------------------------------------------------------------------------------
(* The controller.                                                                *)

\* A set of lines has a highest one (pending_enabled).
LEMMA HighestExists ==
  ASSUME NEW S \in SUBSET Irq, S # {}
  PROVE  \E l \in S : \A m \in S : m <= l
  <1>1. CASE 7 \in S
    BY <1>1 DEF Irq
  <1>2. CASE 7 \notin S /\ 6 \in S
    BY <1>2 DEF Irq
  <1>3. CASE 7 \notin S /\ 6 \notin S /\ 5 \in S
    BY <1>3 DEF Irq
  <1>4. CASE S \intersect {5, 6, 7} = {} /\ 4 \in S
    BY <1>4 DEF Irq
  <1>5. CASE S \intersect {4, 5, 6, 7} = {} /\ 3 \in S
    BY <1>5 DEF Irq
  <1>6. CASE S \intersect {3, 4, 5, 6, 7} = {} /\ 2 \in S
    BY <1>6 DEF Irq
  <1>7. CASE S \subseteq {0, 1}
    <2>1. CASE 1 \in S
      BY <1>7, <2>1
    <2>2. CASE S = {0}
      BY <2>2
    <2>3. QED
      BY <1>7, <2>1, <2>2
  <1>8. QED
    BY <1>1, <1>2, <1>3, <1>4, <1>5, <1>6, <1>7 DEF Irq

\* The line that is delivered is an active one and no active line outranks it, and its
\* vector is the base's block with the line as its low three bits (pending_enabled,
\* vector): dirty low bits of the base never reach the vector.
THEOREM HighestActiveLine ==
  ASSUME NEW ic \in Controller, PendingEnabled(ic)
  PROVE  /\ Highest(ic) \in Active(ic)
         /\ \A m \in Active(ic) : m <= Highest(ic)
         /\ Vector(ic, Highest(ic)) \in Byte
         /\ Vector(ic, Highest(ic)) % 8 = Highest(ic)
         /\ Vector(ic, Highest(ic)) \div 8 = ic.base \div 8
  <1>1. Active(ic) \in SUBSET Irq /\ Active(ic) # {}
    BY DEF Active, PendingEnabled, Controller
  <1>2. Highest(ic) \in Active(ic) /\ \A m \in Active(ic) : m <= Highest(ic)
    BY <1>1, HighestExists DEF Highest
  <1>3. Highest(ic) \in 0 .. 7
    BY <1>1, <1>2 DEF Irq
  <1>4. ic.base \in Int /\ 0 <= ic.base /\ ic.base <= 255
    BY ByteRange DEF Controller, Byte
  <1>5. PICK v \in Int : v = Vector(ic, Highest(ic))
    BY <1>3, <1>4 DEF Vector
  <1>6. 0 <= v /\ v <= 255 /\ v % 8 = Highest(ic) /\ v \div 8 = ic.base \div 8
    BY <1>3, <1>4, <1>5 DEF Vector
  <1>7. QED
    BY <1>2, <1>5, <1>6, ByteRange

---------------------------------------------------------------------------------
(* The machine drives its serial port and controller as SerialPort says.          *)

\* The operators the machine and SerialPort take from InterruptController are the same.
LEMMA SameController ==
  /\ Port!Irq = Irq /\ Port!Byte = Byte /\ Port!Controller = Controller
  /\ Port!SerialLines = {SerialTx, SerialRx}
  /\ Port!NewController = NewController
  /\ \A b : Port!LinesOf(b) = LinesOf(b)
  /\ \A ic, x : /\ Port!SetBase(ic, x) = SetBase(ic, x)
                /\ Port!Acknowledge(ic, x) = Acknowledge(ic, x)
  <1>1. Port!Irq = Irq
    BY DEF Port!Irq, Irq
  <1>2. Port!Byte = Byte
    BY DEF Port!Byte, Byte, Port!MaxByte, MaxByte
  <1>3. Port!EdgeLines = EdgeLines
    BY DEF Port!EdgeLines, EdgeLines, Port!Keypad, Keypad, Port!LineCompare, LineCompare,
           Port!VblankTimer, VblankTimer, Port!Vblank, Vblank, Port!HblankTimer, HblankTimer
  <1>4. Port!Controller = Controller /\ Port!NewController = NewController
    BY <1>1, <1>2 DEF Port!Controller, Controller, Port!NewController, NewController
  <1>5. Port!SerialLines = {SerialTx, SerialRx}
    BY DEF Port!SerialLines, Port!SerialTx, SerialTx, Port!SerialRx, SerialRx
  <1>6. \A b : Port!LinesOf(b) = LinesOf(b)
    BY <1>1 DEF Port!LinesOf, LinesOf
  <1>7. \A ic, x : /\ Port!SetBase(ic, x) = SetBase(ic, x)
                  /\ Port!Acknowledge(ic, x) = Acknowledge(ic, x)
    BY <1>3 DEF Port!SetBase, SetBase, Port!Acknowledge, Acknowledge
  <1>8. QED
    BY <1>1, <1>2, <1>4, <1>5, <1>6, <1>7

\* One port write is one write of SerialPort or leaves the bus alone (io_write_u8).
LEMMA PortWriteIsWrite ==
  ASSUME NEW ic, NEW ser, NEW port, NEW byte \in Byte,
         NEW after, after = PortWrite([ ic |-> ic, serial |-> ser ], port, byte)
  PROVE  \/ port = RegIntBase /\ after = [ ic |-> SetBase(ic, byte), serial |-> ser ]
         \/ /\ port = RegIntAck
            /\ after = [ ic |-> Acknowledge(ic, LinesOf(byte)), serial |-> ser ]
         \/ /\ port = RegSerStatus
            /\ after = [ ic     |-> Port!SetEnabled(ic, ser, Port!SerEnable(byte)),
                         serial |-> Port!SerEnable(byte) ]
         \/ /\ port \notin {RegIntBase, RegIntAck, RegSerStatus}
            /\ after = [ ic |-> ic, serial |-> ser ]
  BY DEF PortWrite, RegIntBase, RegIntAck, RegSerStatus

\* The bytes of AX are bytes.
LEMMA BytesOfAx ==
  ASSUME NEW c \in CpuStates
  PROVE  Al(c) \in Byte /\ Ah(c) \in Byte
  <1>1. c.ax \in Int /\ 0 <= c.ax /\ c.ax <= 65535
    BY WordRange DEF CpuStates, Word
  <1>2. QED
    BY <1>1, ByteRange DEF Al, Ah

\* An instruction, a word write to two ports included, does at most one write of
\* SerialPort: no two of the three ports are neighbours (io_write_u16).
LEMMA BusAfterIsWrite ==
  ASSUME NEW c \in CpuStates, NEW i \in Instructions,
         interrupts' = BusAfter(c, i).ic, serial' = BusAfter(c, i).serial
  PROVE  \/ \E b \in Byte : Port!WriteBase(b) \/ Port!WriteAck(b) \/ Port!WriteSerStatus(b)
         \/ UNCHANGED << interrupts, serial >>
  <1> DEFINE bus  == [ ic |-> interrupts, serial |-> serial ]
             low  == PortWrite(bus, i.arg, Al(c))
             next == (i.arg + 1) % 65536
             both == PortWrite(low, next, Ah(c))
  <1>1. Al(c) \in Byte /\ Ah(c) \in Byte
    BY BytesOfAx
  <1>2. ASSUME NEW port, NEW b \in Byte,
               interrupts' = PortWrite(bus, port, b).ic,
               serial' = PortWrite(bus, port, b).serial
        PROVE  \/ \E x \in Byte : Port!WriteBase(x) \/ Port!WriteAck(x) \/ Port!WriteSerStatus(x)
               \/ UNCHANGED << interrupts, serial >>
    <2>1. PICK after : after = PortWrite(bus, port, b)
      OBVIOUS
    <2>2. interrupts' = after.ic /\ serial' = after.serial
      BY <1>2, <2>1
    <2>3. \/ after = [ ic |-> SetBase(interrupts, b), serial |-> serial ]
          \/ after = [ ic |-> Acknowledge(interrupts, LinesOf(b)), serial |-> serial ]
          \/ after = [ ic     |-> Port!SetEnabled(interrupts, serial, Port!SerEnable(b)),
                       serial |-> Port!SerEnable(b) ]
          \/ after = bus
      BY <2>1, PortWriteIsWrite
    <2>4. QED
      BY <2>2, <2>3, SameController
         DEF Port!WriteBase, Port!WriteAck, Port!WriteSerStatus
  <1>3. CASE i.op = "OUT"
    BY <1>1, <1>2, <1>3 DEF BusAfter
  <1>4. CASE i.op = "OUTW"
    <2>1. interrupts' = both.ic /\ serial' = both.serial
      BY <1>4 DEF BusAfter
    <2>2. i.arg \in Int /\ 0 <= i.arg /\ i.arg <= 65535
      BY WordRange DEF Instructions, Word
    <2>3. CASE i.arg \in {RegIntBase, RegIntAck, RegSerStatus}
      <3>1. next \notin {RegIntBase, RegIntAck, RegSerStatus}
        BY <2>2, <2>3 DEF RegIntBase, RegIntAck, RegSerStatus
      <3>2. both = low
        BY <3>1 DEF PortWrite
      <3>3. QED
        BY <1>1, <1>2, <2>1, <3>2
    <2>4. CASE i.arg \notin {RegIntBase, RegIntAck, RegSerStatus}
      <3>1. low = bus
        BY <2>4 DEF PortWrite
      <3>2. QED
        BY <1>1, <1>2, <2>1, <3>1
    <2>5. QED
      BY <2>3, <2>4
  <1>5. CASE i.op \notin {"OUT", "OUTW"}
    BY <1>5 DEF BusAfter
  <1>6. QED
    BY <1>3, <1>4, <1>5

---------------------------------------------------------------------------------
(* Types.                                                                         *)

\* The CPU that executes the instruction of a step is well typed, and so is what it
\* fetches.
LEMMA BoundaryType ==
  ASSUME TypeOK
  PROVE  /\ AtBoundary \in CpuStates
         /\ Address(AtBoundary) \in DOMAIN Program =>
              /\ Fetch(AtBoundary) \in Instructions
              /\ Fetch(AtBoundary).op = "INT" => Fetch(AtBoundary).arg \in Byte
  <1>1. AtBoundary \in CpuStates
    <2>1. CASE Deliverable
      <3>1. Vector(interrupts, Highest(interrupts)) \in Byte
        BY <2>1, HighestActiveLine DEF Deliverable, TypeOK
      <3>2. QED
        BY <2>1, <3>1, ServiceType DEF AtBoundary, TypeOK
    <2>2. CASE ~Deliverable
      BY <2>2 DEF AtBoundary, TypeOK
    <2>3. QED
      BY <2>1, <2>2
  <1>2. QED
    BY <1>1, ProgramAssumption DEF Fetch

LEMMA InputIsByte ==
  ASSUME TypeOK, NEW port
  PROVE  PortRead(port) \subseteq Byte
  <1>1. 0 \in Byte /\ 128 \in Byte
    BY ByteRange
  <1>2. QED
    BY <1>1 DEF PortRead, TypeOK, Controller

\* The reset state is well typed.
LEMMA ResetType == Reset \in CpuStates
  <1>1. 0 \in Word /\ 65535 \in Word
    BY WordRange
  <1>2. {} \in Flags /\ 0 \in Slots
    BY StackAssumption DEF Flags, Slots
  <1> QED
    BY <1>1, <1>2 DEF Reset, CpuStates

\* The methods of the controller keep its registers in their widths.
LEMMA PortStepType ==
  ASSUME TypeOK
  PROVE  /\ \A b \in Byte :
              Port!WriteBase(b) \/ Port!WriteAck(b) \/ Port!WriteSerStatus(b)
                => interrupts' \in Controller /\ serial' \in BOOLEAN
         /\ \A l \in Irq : Port!SourceRaise(l) \/ Port!SourceLower(l)
                => interrupts' \in Controller /\ serial' \in BOOLEAN
         /\ \A m \in SUBSET Irq : Port!HostSetEnable(m)
                => interrupts' \in Controller /\ serial' \in BOOLEAN
         /\ Port!SignalTxReady \/ Port!SignalRxReady
                => interrupts' \in Controller /\ serial' \in BOOLEAN
  <1> USE DEF TypeOK
  <1>1. ASSUME NEW ic \in Controller
        PROVE  /\ \A l \in Irq : Port!Raise(ic, l) \in Controller
               /\ \A l : Port!Lower(ic, l) \in Controller
               /\ \A b \in Byte : SetBase(ic, b) \in Controller
               /\ \A m : Acknowledge(ic, m) \in Controller
               /\ \A m \in SUBSET Irq : Port!SetEnable(ic, m) \in Controller
    BY DEF Controller, Port!Raise, Port!Lower, SetBase, Acknowledge, Port!SetEnable
  <1>2. ASSUME NEW b \in Byte, Port!WriteBase(b) \/ Port!WriteAck(b)
        PROVE  interrupts' \in Controller /\ serial' \in BOOLEAN
    BY <1>1, <1>2, SameController DEF Port!WriteBase, Port!WriteAck
  <1>3. ASSUME NEW b \in Byte, Port!WriteSerStatus(b)
        PROVE  interrupts' \in Controller /\ serial' \in BOOLEAN
    BY <1>1, <1>3 DEF Port!WriteSerStatus, Port!SetEnabled, Port!SerEnable
  <1>4. ASSUME NEW l \in Irq, Port!SourceRaise(l) \/ Port!SourceLower(l)
        PROVE  interrupts' \in Controller /\ serial' \in BOOLEAN
    BY <1>1, <1>4 DEF Port!SourceRaise, Port!SourceLower
  <1>5. ASSUME NEW m \in SUBSET Irq, Port!HostSetEnable(m)
        PROVE  interrupts' \in Controller /\ serial' \in BOOLEAN
    BY <1>1, <1>5 DEF Port!HostSetEnable
  <1>6. ASSUME Port!SignalTxReady \/ Port!SignalRxReady
        PROVE  interrupts' \in Controller /\ serial' \in BOOLEAN
    <2>1. Port!SerialTx \in Irq /\ Port!SerialRx \in Irq
      BY DEF Port!SerialTx, Port!SerialRx, Irq
    <2>2. QED
      BY <1>1, <1>6, <2>1 DEF Port!SignalTxReady, Port!SignalRxReady
  <1>7. QED
    BY <1>2, <1>3, <1>4, <1>5, <1>6

LEMMA FramesType ==
  ASSUME TypeOK, NEW i
  PROVE  Entered \in Seq(Frame) /\ FramesAfter(i) \in Seq(Frame)
  <1>1. AtBoundary \in CpuStates /\ cpu \in CpuStates /\ frames \in Seq(Frame)
    BY BoundaryType DEF TypeOK
  <1>2. Advance(AtBoundary) \in CpuStates
    <2>1. AtBoundary.ip \in Int /\ 0 <= AtBoundary.ip
      BY <1>1, WordRange DEF CpuStates, Word
    <2>2. (AtBoundary.ip + 1) % 65536 \in Word
      BY <2>1, WordRange
    <2>3. QED
      BY <1>1, <2>2 DEF Advance, CpuStates
  <1>3. Entered \in Seq(Frame)
    <2>1. [ kind |-> "irq", ctx |-> cpu ] \in Frame
      BY <1>1 DEF Frame
    <2>2. QED
      BY <1>1, <2>1 DEF Entered
  <1>4. Append(Entered, [ kind |-> "soft", ctx |-> Advance(AtBoundary) ]) \in Seq(Frame)
    <2>1. [ kind |-> "soft", ctx |-> Advance(AtBoundary) ] \in Frame
      BY <1>2 DEF Frame
    <2>2. QED
      BY <1>3, <2>1
  <1>5. Entered # << >> => SubSeq(Entered, 1, Len(Entered) - 1) \in Seq(Frame)
    BY <1>3
  <1>6. QED
    BY <1>3, <1>4, <1>5 DEF FramesAfter

\* The machine never leaves its types, for any program (Machine::step).
THEOREM MachineTypes == Spec => []TypeOK
  <1>1. Init => TypeOK
    <2>1. Reset \in CpuStates
      BY ResetType
    <2>2. NewController \in Controller
      <3>1. 0 \in Byte /\ {} \in SUBSET Irq
        BY ByteRange
      <3>2. QED
        BY <3>1 DEF NewController, Controller
    <2>3. SUFFICES ASSUME Init PROVE TypeOK
      OBVIOUS
    <2>4. interrupts \in Controller /\ serial \in BOOLEAN
      BY <2>2, <2>3, SameController DEF Init, Port!Init
    <2>5. events \in 0 .. MaxEvents
      BY <2>3, MaxEventsAssumption DEF Init
    <2>6. frames \in Seq(Frame)
      <3>1. << >> \in Seq(Frame)
        OBVIOUS
      <3>2. QED
        BY <2>3, <3>1 DEF Init
    <2>7. owed \in [ EdgeLines -> Int ]
      <3>1. [ l \in EdgeLines |-> 0 ] \in [ EdgeLines -> Int ]
        OBVIOUS
      <3>2. QED
        BY <2>3, <3>1 DEF Init
    <2>8. QED
      BY <2>1, <2>3, <2>4, <2>5, <2>6, <2>7 DEF Init, TypeOK
  <1>2. TypeOK /\ [Next]_vars => TypeOK'
    <2> SUFFICES ASSUME TypeOK, [Next]_vars
                 PROVE  TypeOK'
      OBVIOUS
    <2>1. CASE Step
      <3> DEFINE i == Fetch(AtBoundary)
      <3>1. /\ AtBoundary \in CpuStates
            /\ i \in Instructions
            /\ i.op = "INT" => i.arg \in Byte
        BY <2>1, BoundaryType DEF Step
      <3> HIDE DEF i
      <3>2. cpu' \in CpuStates
        <4>1. 0 \in Byte
          BY ByteRange
        <4>2. PICK input \in Byte : cpu' = Execute(AtBoundary, i, input)
          BY <2>1, <4>1, InputIsByte DEF Step, i
        <4>3. QED
          BY <3>1, <4>2, ExecuteType
      <3>3. interrupts' \in Controller /\ serial' \in BOOLEAN
        <4>1. interrupts' = BusAfter(AtBoundary, i).ic
              /\ serial' = BusAfter(AtBoundary, i).serial
          BY <2>1 DEF Step, i
        <4>2. QED
          BY <3>1, <4>1, BusAfterIsWrite, PortStepType DEF TypeOK
      <3>4. frames' \in Seq(Frame)
        BY <2>1, FramesType DEF Step
      <3>5. owed' \in [ EdgeLines -> Int ]
        BY <2>1 DEF Step, TypeOK
      <3>6. events' \in 0 .. MaxEvents /\ recent' \in BOOLEAN
        BY <2>1 DEF Step, TypeOK
      <3>7. QED
        BY <3>2, <3>3, <3>4, <3>5, <3>6 DEF TypeOK
    <2>2. CASE StepHalted
      BY <2>2 DEF StepHalted, vars, TypeOK
    <2>3. ASSUME NEW l \in Sources, SourceRaise(l) PROVE TypeOK'
      <3>1. l \in Irq
        BY SourcesAssumption
      <3>2. interrupts' \in Controller /\ serial' \in BOOLEAN
        BY <2>3, <3>1, PortStepType DEF SourceRaise, Environment
      <3>3. owed' \in [ EdgeLines -> Int ]
        BY <2>3 DEF SourceRaise, TypeOK
      <3>4. QED
        BY <2>3, <3>2, <3>3, MaxEventsAssumption DEF SourceRaise, Environment, TypeOK
    <2>4. ASSUME NEW l \in Sources, SourceLower(l) PROVE TypeOK'
      <3>1. l \in Irq
        BY SourcesAssumption
      <3>2. interrupts' \in Controller /\ serial' \in BOOLEAN
        BY <2>4, <3>1, PortStepType DEF SourceLower, Environment
      <3>3. QED
        BY <2>4, <3>2, MaxEventsAssumption DEF SourceLower, Environment, TypeOK
    <2>5. ASSUME SignalTxReady \/ SignalRxReady PROVE TypeOK'
      <3>1. interrupts' \in Controller /\ serial' \in BOOLEAN
        BY <2>5, PortStepType DEF SignalTxReady, SignalRxReady, Environment
      <3>2. QED
        BY <2>5, <3>1, MaxEventsAssumption
           DEF SignalTxReady, SignalRxReady, Environment, TypeOK
    <2>6. ASSUME NEW m \in EnableMasks, HostSetEnable(m) PROVE TypeOK'
      <3>1. m \in SUBSET Irq
        BY MachineMasksAssumption
      <3>2. interrupts' \in Controller /\ serial' \in BOOLEAN
        BY <2>6, <3>1, PortStepType DEF HostSetEnable, Environment
      <3>3. QED
        BY <2>6, <3>2, MaxEventsAssumption DEF HostSetEnable, Environment, TypeOK
    <2>7. CASE UNCHANGED vars
      BY <2>7 DEF vars, TypeOK
    <2>8. QED
      BY <2>1, <2>2, <2>3, <2>4, <2>5, <2>6, <2>7 DEF Next
  <1>3. QED
    BY <1>1, <1>2, PTL DEF Spec

---------------------------------------------------------------------------------
(* The refinement of SerialPort, and what follows from it.                        *)

\* Whatever program runs and however it is interrupted, the machine uses its serial
\* port and its interrupt controller only as SerialPort allows (Bus in machine.rs).
THEOREM MachineUsesPort == Spec => UsesPort
  <1>1. Init => Port!Init
    BY DEF Init
  <1>2. TypeOK /\ [Next]_vars => [Port!Next]_(Port!vars)
    <2> SUFFICES ASSUME TypeOK, [Next]_vars
                 PROVE  Port!Next \/ UNCHANGED Port!vars
      OBVIOUS
    <2> USE DEF Port!Next, Port!vars
    <2>1. CASE Step
      <3>1. /\ AtBoundary \in CpuStates
            /\ Fetch(AtBoundary) \in Instructions
        BY <2>1, BoundaryType DEF Step
      <3>2. /\ interrupts' = BusAfter(AtBoundary, Fetch(AtBoundary)).ic
            /\ serial' = BusAfter(AtBoundary, Fetch(AtBoundary)).serial
        BY <2>1 DEF Step
      <3>3. QED
        BY <3>1, <3>2, BusAfterIsWrite, SameController
    <2>2. CASE StepHalted
      BY <2>2 DEF StepHalted, vars
    <2>3. ASSUME NEW l \in Sources, SourceRaise(l) \/ SourceLower(l)
          PROVE  Port!Next
      <3>1. l \in Port!Irq \ Port!SerialLines
        BY SourcesAssumption, SameController
      <3>2. QED
        BY <2>3, <3>1 DEF SourceRaise, SourceLower, Environment
    <2>4. CASE SignalTxReady \/ SignalRxReady
      BY <2>4 DEF SignalTxReady, SignalRxReady, Environment
    <2>5. ASSUME NEW m \in EnableMasks, HostSetEnable(m) PROVE Port!Next
      <3>1. m \in SUBSET Irq
        BY MachineMasksAssumption
      <3>2. QED
        BY <2>5, <3>1 DEF HostSetEnable, Environment
    <2>6. CASE UNCHANGED vars
      BY <2>6 DEF vars
    <2>7. QED
      BY <2>1, <2>2, <2>3, <2>4, <2>5, <2>6 DEF Next
  <1>3. QED
    BY <1>1, <1>2, MachineTypes, PTL DEF Spec, UsesPort, Port!Spec

\* What SerialPort promises therefore holds of the machine: no program, interrupted
\* anywhere, is left with a serial interrupt of a port it switched off.
THEOREM MachinePortQuiet == Spec => []PortQuiet
  <1> USE DEF PortQuiet, Port!NoStaleSerialIrq
  <1>1. Init => PortQuiet
    BY SameController DEF Init, Port!Init, NewController
  <1>2. TypeOK /\ PortQuiet /\ [Port!Next]_(Port!vars) => PortQuiet'
    <2> SUFFICES ASSUME TypeOK, PortQuiet, Port!Next \/ UNCHANGED Port!vars
                 PROVE  PortQuiet'
      OBVIOUS
    <2>1. interrupts \in Controller /\ serial \in BOOLEAN
      BY DEF TypeOK
    <2>2. ASSUME NEW b \in Byte, Port!WriteBase(b) \/ Port!WriteAck(b)
          PROVE  PortQuiet'
      BY <2>1, <2>2, SameController
         DEF Port!WriteBase, Port!WriteAck, SetBase, Acknowledge, Controller
    <2>3. ASSUME NEW b \in Byte, Port!WriteSerStatus(b) PROVE PortQuiet'
      <3>1. Port!SerialTx \in Port!LevelLines /\ Port!SerialRx \in Port!LevelLines
        BY DEF Port!LevelLines
      <3>2. QED
        BY <2>1, <2>3, <3>1
           DEF Port!WriteSerStatus, Port!SetEnabled, Port!Lower, Port!SerialLines,
               Controller
    <2>4. CASE Port!SignalTxReady \/ Port!SignalRxReady
      BY <2>4 DEF Port!SignalTxReady, Port!SignalRxReady
    <2>5. ASSUME NEW m \in SUBSET Irq, Port!HostSetEnable(m) PROVE PortQuiet'
      BY <2>1, <2>5 DEF Port!HostSetEnable, Port!SetEnable, Controller
    <2>6. ASSUME NEW l \in Port!Irq \ Port!SerialLines,
                 Port!SourceRaise(l) \/ Port!SourceLower(l)
          PROVE  PortQuiet'
      BY <2>1, <2>6
         DEF Port!SourceRaise, Port!SourceLower, Port!Raise, Port!Lower, Controller
    <2>7. CASE UNCHANGED Port!vars
      BY <2>7 DEF Port!vars
    <2>8. QED
      BY <2>2, <2>3, <2>4, <2>5, <2>6, <2>7 DEF Port!Next
  <1>3. QED
    BY <1>1, <1>2, MachineTypes, MachineUsesPort, PTL DEF Spec, UsesPort, Port!Spec

---------------------------------------------------------------------------------
(* Deliveries and what they were latched for.                                     *)

\* A line that is pending while interrupts are on has not been delivered yet: that is
\* what keeps step, which acknowledges nothing, from delivering it again.
Undelivered ==
  \A l \in Sources \intersect EdgeLines :
    "interrupt" \in cpu.flags /\ l \in interrupts.pending => owed[l] = 1

LEMMA StepDelivers ==
  ASSUME TypeOK, OncePerEvent, Undelivered, Step, StepAcknowledges
  PROVE  OncePerEvent' /\ Undelivered'
<1> SUFFICES ASSUME NEW l \in Sources \intersect EdgeLines
             PROVE  /\ owed'[l] \in IF l \in interrupts'.pending THEN {0, 1} ELSE {0}
                    /\ "interrupt" \in cpu'.flags /\ l \in interrupts'.pending => owed'[l] = 1
  BY DEF OncePerEvent, Undelivered
<1>1. owed \in [ EdgeLines -> Int ] /\ interrupts \in Controller
  BY DEF TypeOK
<1>2. interrupts'.pending \subseteq interrupts.pending
  <2>1. AtBoundary \in CpuStates /\ Fetch(AtBoundary) \in Instructions
    BY BoundaryType DEF Step
  <2>2. \/ \E b \in Byte : Port!WriteBase(b) \/ Port!WriteAck(b) \/ Port!WriteSerStatus(b)
        \/ UNCHANGED << interrupts, serial >>
    BY <2>1, BusAfterIsWrite DEF Step
  <2> QED
    BY <1>1, <2>2, SameController
       DEF Port!WriteBase, Port!WriteAck, Port!WriteSerStatus, Port!SetEnabled, Port!SetBase,
           Port!Acknowledge, Port!Lower, Controller
<1>3. /\ owed[l] \in IF l \in interrupts.pending THEN {0, 1} ELSE {0}
      /\ l \in interrupts.pending \ interrupts'.pending => owed'[l] = 0
      /\ "interrupt" \in cpu'.flags /\ l \in interrupts'.pending => owed'[l] # 0
  BY DEF OncePerEvent, StepAcknowledges, Unacknowledged
<1>4. CASE Deliverable /\ l = Highest(interrupts)
  <2>1. l \in interrupts.pending
    BY <1>1, <1>4, HighestActiveLine DEF Deliverable, Active
  <2>2. owed[l] = 1
    BY <1>4, <2>1 DEF Undelivered, Deliverable
  <2>3. owed'[l] = 0
    BY <1>1, <1>4, <2>2 DEF Step
  <2> QED
    BY <1>3, <2>3
<1>5. CASE ~ (Deliverable /\ l = Highest(interrupts))
  <2>1. owed'[l] = owed[l]
    BY <1>1, <1>5 DEF Step
  <2> QED
    BY <1>2, <1>3, <2>1
<1> QED
  BY <1>4, <1>5

LEMMA SameLines ==
  /\ Port!SerialTx = SerialTx /\ Port!SerialRx = SerialRx
  /\ \A ic, l : /\ Port!Raise(ic, l) = Raise(ic, l)
                /\ Port!Lower(ic, l) = Lower(ic, l)
                /\ Port!SetEnable(ic, l) = SetEnable(ic, l)
<1>1. Port!SerialTx = SerialTx /\ Port!SerialRx = SerialRx
  BY DEF Port!SerialTx, SerialTx, Port!SerialRx, SerialRx
<1>2. Port!LevelLines = LevelLines
  BY <1>1 DEF Port!LevelLines, LevelLines, Port!Cartridge, Cartridge
<1> QED
  BY <1>1, <1>2 DEF Port!Raise, Raise, Port!Lower, Lower, Port!SetEnable, SetEnable

LEMMA OthersDeliverNothing ==
  ASSUME TypeOK, OncePerEvent, Undelivered, [Next]_vars, ~ Step
  PROVE  OncePerEvent' /\ Undelivered'
<1> SUFFICES ASSUME NEW l \in Sources \intersect EdgeLines
             PROVE  /\ owed'[l] \in IF l \in interrupts'.pending THEN {0, 1} ELSE {0}
                    /\ l \in interrupts'.pending /\ "interrupt" \in cpu'.flags => owed'[l] = 1
  BY DEF OncePerEvent, Undelivered
<1>1. owed \in [ EdgeLines -> Int ] /\ interrupts \in Controller
  BY DEF TypeOK
<1>2. /\ owed[l] \in IF l \in interrupts.pending THEN {0, 1} ELSE {0}
      /\ "interrupt" \in cpu.flags /\ l \in interrupts.pending => owed[l] = 1
  BY DEF OncePerEvent, Undelivered
<1>3. l \notin LevelLines
  BY DEF EdgeLines, LevelLines, SerialTx, SerialRx, Keypad, Cartridge, LineCompare,
         VblankTimer, Vblank, HblankTimer
<1>4. ASSUME NEW k \in Sources, SourceRaise(k)
      PROVE  /\ owed'[l] \in IF l \in interrupts'.pending THEN {0, 1} ELSE {0}
             /\ l \in interrupts'.pending /\ "interrupt" \in cpu'.flags => owed'[l] = 1
  <2>1. cpu' = cpu /\ interrupts' = Raise(interrupts, k)
    BY <1>4, SameLines DEF SourceRaise, Environment, Port!SourceRaise
  <2>2. interrupts'.pending \subseteq interrupts.pending \union {k}
        /\ interrupts.pending \subseteq interrupts'.pending
    BY <1>1, <2>1 DEF Raise, Controller
  <2>3. CASE l = k /\ l \in interrupts'.pending \ interrupts.pending
    <3>1. owed' = [ owed EXCEPT ![l] = @ + 1 ]
      BY <1>4, <2>3 DEF SourceRaise
    <3>2. owed'[l] = 1
      BY <1>1, <1>2, <2>3, <3>1
    <3> QED
      BY <2>3, <3>2
  <2>4. CASE ~ (l = k /\ l \in interrupts'.pending \ interrupts.pending)
    <3>1. owed'[l] = owed[l]
      BY <1>1, <1>4, <2>4 DEF SourceRaise
    <3>2. l \in interrupts'.pending <=> l \in interrupts.pending
      BY <2>2, <2>4
    <3> QED
      BY <1>2, <2>1, <3>1, <3>2
  <2> QED
    BY <2>3, <2>4
<1>5. ASSUME cpu' = cpu, owed' = owed,
             l \in interrupts'.pending <=> l \in interrupts.pending
      PROVE  /\ owed'[l] \in IF l \in interrupts'.pending THEN {0, 1} ELSE {0}
             /\ l \in interrupts'.pending /\ "interrupt" \in cpu'.flags => owed'[l] = 1
  BY <1>2, <1>5
<1>6. ASSUME NEW k \in Sources, SourceLower(k)
      PROVE  cpu' = cpu /\ owed' = owed /\ (l \in interrupts'.pending <=> l \in interrupts.pending)
  BY <1>1, <1>3, <1>6, SameLines
     DEF SourceLower, Environment, Port!SourceLower, Lower, Controller
<1>7. ASSUME SignalTxReady \/ SignalRxReady
      PROVE  cpu' = cpu /\ owed' = owed /\ (l \in interrupts'.pending <=> l \in interrupts.pending)
  <2>1. cpu' = cpu /\ owed' = owed
    BY <1>7 DEF SignalTxReady, SignalRxReady, Environment
  <2>2. \/ interrupts' = interrupts
        \/ interrupts' = Raise(interrupts, SerialTx)
        \/ interrupts' = Raise(interrupts, SerialRx)
    BY <1>7, SameLines
       DEF SignalTxReady, SignalRxReady, Environment, Port!SignalTxReady, Port!SignalRxReady
  <2>3. l # SerialTx /\ l # SerialRx
    BY <1>3 DEF LevelLines
  <2> QED
    BY <1>1, <2>1, <2>2, <2>3 DEF Raise, Controller
<1>8. ASSUME NEW m \in EnableMasks, HostSetEnable(m)
      PROVE  cpu' = cpu /\ owed' = owed /\ (l \in interrupts'.pending <=> l \in interrupts.pending)
  BY <1>1, <1>8, SameLines
     DEF HostSetEnable, Environment, Port!HostSetEnable, SetEnable, Controller
<1>9. ASSUME StepHalted \/ UNCHANGED vars
      PROVE  cpu' = cpu /\ owed' = owed /\ (l \in interrupts'.pending <=> l \in interrupts.pending)
  BY <1>9 DEF StepHalted, vars
<1> QED
  BY <1>4, <1>5, <1>6, <1>7, <1>8, <1>9 DEF Next

\* However deliveries nest and whenever a source raises its line or the host masks it, each
\* latching of a line is delivered once before the line is clear again, in every program
\* whose handlers acknowledge their own lines before they let themselves be interrupted
\* (Machine::step, which acknowledges nothing, and service_interrupt, which clears IF).
THEOREM EventsAreDeliveredOnce == Spec /\ AcknowledgesItsLines => []OncePerEvent
<1>1. Init => OncePerEvent /\ Undelivered
  BY SameController
     DEF Init, OncePerEvent, Undelivered, Reset, Port!Init, NewController
<1>2. TypeOK /\ OncePerEvent /\ Undelivered /\ [Next]_vars /\ [Step => StepAcknowledges]_vars
        => OncePerEvent' /\ Undelivered'
  <2>1. CASE UNCHANGED vars
    BY <2>1 DEF OncePerEvent, Undelivered, vars
  <2>2. CASE ~ UNCHANGED vars
    BY <2>2, StepDelivers, OthersDeliverNothing
  <2> QED
    BY <2>1, <2>2
<1> QED
  BY <1>1, <1>2, MachineTypes, PTL DEF Spec, AcknowledgesItsLines

---------------------------------------------------------------------------------
(* The stack, by the depth of its words: the word at depth d is the dth below slot *)
(* 0, so that those in use are the words at depths 1 .. Used.                      *)

Word0(c, d) == c.stack[StackWords - d]

\* The words of a down to depth d are those of b.
Same(a, b, d) == \A k \in 1 .. d : Word0(a, k) = Word0(b, k)

LEMMA Depths ==
  ASSUME NEW c, c.sp \in Slots
  PROVE  /\ StackWords \in Nat /\ StackWords >= 3 /\ Used(c) \in Nat /\ Used(c) < StackWords
         /\ \A s \in Slots : s \in Nat /\ s < StackWords
         /\ \A d \in 1 .. StackWords - 1 : StackWords - d \in Slots
         /\ \A n \in 1 .. 3 : Used(c) + n < StackWords =>
              /\ Below(c.sp, n) = StackWords - (Used(c) + n)
              /\ Below(c.sp, n) # 0
         /\ \A n \in 0 .. 3 : n < Used(c) => Above(c.sp, n) = StackWords - (Used(c) - n)
         /\ \A n \in 0 .. 3 : n <= Used(c) =>
              Above(c.sp, n) = IF Used(c) = n THEN 0 ELSE StackWords - (Used(c) - n)
         /\ \A s \in Slots : Live(c, s) <=> StackWords - s <= Used(c)
  <1>1. StackWords \in Nat /\ StackWords >= 3 /\ c.sp \in Nat /\ c.sp < StackWords
    BY StackAssumption DEF Slots
  <1>2. Used(c) \in Nat /\ Used(c) < StackWords
    BY <1>1 DEF Used
  <1>3. \A s \in Slots : s \in Nat /\ s < StackWords
    BY <1>1 DEF Slots
  <1>4. \A d \in 1 .. StackWords - 1 : StackWords - d \in Slots
    BY <1>1 DEF Slots
  <1>5. \A n \in 1 .. 3 : Used(c) + n < StackWords =>
          Below(c.sp, n) = StackWords - (Used(c) + n) /\ Below(c.sp, n) # 0
    BY <1>1 DEF Used, Below
  <1>6. \A n \in 0 .. 3 : n < Used(c) => Above(c.sp, n) = StackWords - (Used(c) - n)
    BY <1>1 DEF Used, Above
  <1>7. \A n \in 0 .. 3 : n <= Used(c) =>
          Above(c.sp, n) = IF Used(c) = n THEN 0 ELSE StackWords - (Used(c) - n)
    BY <1>1 DEF Used, Above
  <1>8. \A s \in Slots : Live(c, s) <=> StackWords - s <= Used(c)
    BY <1>1, <1>3 DEF Used, Live
  <1> QED
    BY <1>1, <1>2, <1>3, <1>4, <1>5, <1>6, <1>7, <1>8

\* How much is in use when SP lies at a depth.
LEMMA UsedAt ==
  ASSUME NEW c, NEW u \in Nat, u < StackWords, c.sp = IF u = 0 THEN 0 ELSE StackWords - u
  PROVE  Used(c) = u
  BY StackAssumption DEF Used

LEMMA SameTransitive ==
  ASSUME NEW a, NEW b, NEW c, NEW m \in Nat, NEW n \in Nat, m <= n, Same(a, b, m), Same(b, c, n)
  PROVE  Same(a, c, m)
  BY DEF Same

\* a and b differ in the stack and its pointer at most.
OtherFields(a, b) ==
  a.cs = b.cs /\ a.ip = b.ip /\ a.flags = b.flags /\ a.ax = b.ax /\ a.halted = b.halted

\* A push puts the word below those in use and leaves them alone.
LEMMA PushEffect ==
  ASSUME NEW c \in CpuStates, NEW w \in Word, Used(c) + 1 < StackWords
  PROVE  LET p == Push(c, w)
         IN  /\ p \in CpuStates /\ Used(p) = Used(c) + 1
             /\ Word0(p, Used(c) + 1) = w /\ Same(c, p, Used(c))
             /\ OtherFields(c, p)
  <1> DEFINE p == Push(c, w)
             u == Used(c)
             at == Below(c.sp, 1)
  <1>1. c.sp \in Slots /\ c.stack \in [ Slots -> Word ]
    BY DEF CpuStates
  <1>2. /\ StackWords \in Nat /\ u \in Nat /\ at = StackWords - (u + 1) /\ at \in Slots
        /\ \A d \in 1 .. StackWords - 1 : StackWords - d \in Slots
    BY <1>1, Depths
  <1>3. p.sp = at /\ p.stack = [ c.stack EXCEPT ![at] = w ]
    BY DEF Push, CpuStates
  <1> HIDE DEF at
  <1>4. Used(p) = u + 1
    BY <1>2, <1>3, UsedAt
  <1>5. Word0(p, u + 1) = w
    BY <1>1, <1>2, <1>3 DEF Word0
  <1>6. Same(c, p, u)
    <2> SUFFICES ASSUME NEW k \in 1 .. u PROVE Word0(c, k) = Word0(p, k)
      BY DEF Same
    <2>1. StackWords - k # at /\ StackWords - k \in Slots
      BY <1>2
    <2> QED
      BY <1>1, <1>3, <2>1 DEF Word0
  <1>7. p \in CpuStates
    BY PushType
  <1>8. OtherFields(c, p)
    BY DEF Push, OtherFields, CpuStates
  <1> QED
    BY <1>4, <1>5, <1>6, <1>7, <1>8

\* A pop gives the deepest word in use and leaves the others alone.
LEMMA PopEffect ==
  ASSUME NEW c \in CpuStates, NEW n \in 0 .. 3, n <= Used(c)
  PROVE  /\ Drop(c, n) \in CpuStates /\ Used(Drop(c, n)) = Used(c) - n
         /\ Drop(c, n).stack = c.stack
         /\ \A k \in 0 .. n - 1 : Peek(c, k) = Word0(c, Used(c) - k)
  <1>1. c.sp \in Slots
    BY DEF CpuStates
  <1>2. Drop(c, n).sp = Above(c.sp, n) /\ Drop(c, n).stack = c.stack
    BY DEF Drop, CpuStates
  <1>3. Used(c) \in Nat /\ Used(c) < StackWords /\ StackWords \in Nat
        /\ Above(c.sp, n) = IF Used(c) = n THEN 0 ELSE StackWords - (Used(c) - n)
    BY <1>1, Depths
  <1>4. Used(Drop(c, n)) = Used(c) - n
    <2>1. Used(c) - n \in Nat /\ Used(c) - n < StackWords /\ (Used(c) - n = 0 <=> Used(c) = n)
      BY <1>3
    <2> QED
      BY <1>2, <1>3, <2>1, UsedAt
  <1>5. ASSUME NEW k \in 0 .. n - 1 PROVE Peek(c, k) = Word0(c, Used(c) - k)
    <2>1. k \in 0 .. 3 /\ k < Used(c)
      BY <1>3
    <2> QED
      BY <1>1, <2>1, Depths DEF Peek, Word0
  <1> QED
    BY <1>2, <1>4, <1>5, DropType

\* The return frame of x lies on the stack of c, right below what x had in use.
FrameOn(x, c) ==
  /\ Word0(c, Used(x) + 1) = ToWord(x.flags)
  /\ Word0(c, Used(x) + 2) = x.cs
  /\ Word0(c, Used(x) + 3) = x.ip

\* Interrupt entry.
LEMMA ServiceEffect ==
  ASSUME NEW c \in CpuStates, NEW v \in Byte, Used(c) + 3 < StackWords
  PROVE  LET h == ServiceInterrupt(c, v)
         IN  /\ h \in CpuStates /\ Used(h) = Used(c) + 3 /\ FrameOn(c, h) /\ Same(c, h, Used(c))
             /\ h.ax = c.ax /\ ~ h.halted
  <1> DEFINE a == Push(c, ToWord(c.flags))
             b == Push(a, c.cs)
             d == Push(b, c.ip)
             h == ServiceInterrupt(c, v)
             u == Used(c)
  <1>1. /\ c.flags \in Flags /\ c.cs \in Word /\ c.ip \in Word /\ c.sp \in Slots
        /\ ToWord(c.flags) \in Word
    BY FlagsRoundTrip DEF CpuStates
  <1>2. u \in Nat /\ StackWords \in Nat
    BY <1>1, Depths
  <1>3. /\ a \in CpuStates /\ Used(a) = u + 1 /\ Word0(a, u + 1) = ToWord(c.flags)
        /\ Same(c, a, u)
        /\ a.ax = c.ax
    BY <1>1, <1>2, PushEffect DEF OtherFields
  <1> HIDE DEF a
  <1>4. /\ b \in CpuStates /\ Used(b) = u + 2 /\ Word0(b, u + 2) = c.cs /\ Same(a, b, u + 1)
        /\ b.ax = c.ax
    BY <1>1, <1>2, <1>3, PushEffect DEF OtherFields
  <1> HIDE DEF b
  <1>5. /\ d \in CpuStates /\ Used(d) = u + 3 /\ Word0(d, u + 3) = c.ip /\ Same(b, d, u + 2)
        /\ d.ax = c.ax
    BY <1>1, <1>2, <1>4, PushEffect DEF OtherFields
  <1> HIDE DEF d
  <1>6. h = [ d EXCEPT !.flags = @ \ { "interrupt", "trap" }, !.cs = Ivt[v][1],
                       !.ip = Ivt[v][2], !.halted = FALSE ]
    BY DEF ServiceInterrupt, Framed, a, b, d
  <1>7. h \in CpuStates
    BY ServiceType
  <1> HIDE DEF h
  <1>8. h.sp = d.sp /\ h.stack = d.stack /\ h.ax = c.ax /\ ~ h.halted
    BY <1>5, <1>6 DEF CpuStates
  <1>9. Used(h) = u + 3 /\ \A k : Word0(h, k) = Word0(d, k)
    BY <1>5, <1>8 DEF Used, Word0
  <1> HIDE DEF u
  <1>10. /\ Word0(d, u + 1) = Word0(a, u + 1) /\ Word0(d, u + 2) = Word0(b, u + 2)
    BY <1>2, <1>4, <1>5 DEF Same
  <1>11. Same(c, d, u)
    BY <1>2, <1>3, <1>4, <1>5 DEF Same
  <1>12. FrameOn(c, h) /\ Same(c, h, u)
    BY <1>3, <1>4, <1>5, <1>9, <1>10, <1>11 DEF FrameOn, Same, u
  <1> QED
    BY <1>7, <1>8, <1>9, <1>12 DEF h, u

\* Interrupt return, when the stack holds a frame on top.
LEMMA ReturnEffect ==
  ASSUME NEW c \in CpuStates, Used(c) >= 3
  PROVE  LET r == InterruptReturn(c)
         IN  /\ Used(r) = Used(c) - 3 /\ r.stack = c.stack
             /\ r.flags = FromWord(Word0(c, Used(c) - 2))
             /\ r.cs = Word0(c, Used(c) - 1) /\ r.ip = Word0(c, Used(c))
             /\ r.ax = c.ax /\ r.halted = c.halted
  <1>1. Used(c) \in Nat
    BY Depths DEF CpuStates
  <1>2. /\ Drop(c, 3) \in CpuStates /\ Used(Drop(c, 3)) = Used(c) - 3
        /\ Drop(c, 3).stack = c.stack
        /\ \A k \in 0 .. 2 : Peek(c, k) = Word0(c, Used(c) - k)
    BY PopEffect
  <1>3. Peek(c, 0) = Word0(c, Used(c)) /\ Peek(c, 1) = Word0(c, Used(c) - 1)
        /\ Peek(c, 2) = Word0(c, Used(c) - 2)
    BY <1>1, <1>2
  <1>4. Drop(c, 3).ax = c.ax /\ Drop(c, 3).halted = c.halted
    BY DEF Drop, CpuStates
  <1> QED
    BY <1>2, <1>3, <1>4 DEF InterruptReturn, CpuStates, Used

\* The registers of a CPU other than the stack and its pointer can be set at will.
LEMMA SetField ==
  ASSUME NEW c \in CpuStates
  PROVE  /\ \A v \in Word : /\ [ c EXCEPT !.ax = v ] \in CpuStates
                            /\ [ c EXCEPT !.ip = v ] \in CpuStates
                            /\ [ c EXCEPT !.cs = v ] \in CpuStates
         /\ \A v \in Flags : [ c EXCEPT !.flags = v ] \in CpuStates
         /\ \A v \in BOOLEAN : [ c EXCEPT !.halted = v ] \in CpuStates
  BY DEF CpuStates

LEMMA AdvanceEffect ==
  ASSUME NEW c \in CpuStates
  PROVE  LET n == Advance(c)
         IN  /\ n \in CpuStates /\ Used(n) = Used(c) /\ n.sp = c.sp /\ n.stack = c.stack
             /\ n.cs = c.cs /\ n.flags = c.flags /\ n.ax = c.ax /\ n.halted = c.halted
             /\ n.ip = (c.ip + 1) % 65536
  <1> DEFINE v == (c.ip + 1) % 65536
  <1>1. c.ip \in Int /\ 0 <= c.ip
    BY WordRange DEF CpuStates, Word
  <1>2. v \in Word
    BY <1>1, WordRange
  <1>3. Advance(c) = [ c EXCEPT !.ip = v ]
    BY DEF Advance
  <1> HIDE DEF v
  <1>4. [ c EXCEPT !.ip = v ] \in CpuStates
    BY <1>2, SetField
  <1>5. /\ Advance(c).sp = c.sp /\ Advance(c).stack = c.stack /\ Advance(c).cs = c.cs
        /\ Advance(c).flags = c.flags /\ Advance(c).ax = c.ax
        /\ Advance(c).halted = c.halted /\ Advance(c).ip = v
    BY <1>3 DEF CpuStates
  <1> QED
    BY <1>3, <1>4, <1>5 DEF Used, v

\* What an instruction does to the stack, if it keeps to the words in use: it pops, or it
\* pushes below them, and changes none of them.
LEMMA ExecuteEffect ==
  ASSUME NEW c \in CpuStates, c = AtBoundary, NEW i \in Instructions, NEW input \in Byte,
         i.op = "INT" => i.arg \in Byte,
         Pops(i) <= Used(c), Used(c) + Pushes(i) < StackWords
  PROVE  LET e == Execute(c, i, input)
         IN  /\ Used(e) = Used(c) - Pops(i) + Pushes(i)
             /\ Same(c, e, Used(c))
             /\ Traps(i) => FrameOn(Advance(c), e)
  <1> DEFINE n == Advance(c)
             e == Execute(c, i, input)
  <1>1. /\ n \in CpuStates /\ Used(n) = Used(c) /\ n.stack = c.stack /\ n.flags = c.flags
        /\ Used(c) \in Nat /\ \A k : Word0(n, k) = Word0(c, k)
    BY AdvanceEffect, Depths DEF CpuStates, Word0
  <1>2. n.ax \in Word /\ ToWord(n.flags) \in Word /\ n.flags \in Flags
    BY <1>1, FlagsRoundTrip DEF CpuStates
  <1>3. \A d : /\ Used(d) = Used(n) /\ d.stack = n.stack /\ d = e /\ Pops(i) = 0 /\ Pushes(i) = 0
               => Used(e) = Used(c) - Pops(i) + Pushes(i) /\ Same(c, e, Used(c))
    BY <1>1 DEF Same, Word0
  <1> HIDE DEF n
  <1>4. CASE i.op \in {"NOP", "OUT", "OUTW", "MOVAX", "IN", "CLI", "STI", "HLT", "JMP"}
    <2>1. e.sp = n.sp /\ e.stack = n.stack
      BY <1>1, <1>4 DEF Execute, n, SetAl, CpuStates
    <2>2. Pops(i) = 0 /\ Pushes(i) = 0 /\ ~ Traps(i)
      BY <1>4 DEF Pops, Pushes, Traps
    <2> QED
      BY <1>3, <2>1, <2>2 DEF Used
  <1>5. CASE i.op \in {"PUSHAX", "PUSHF"}
    <2>1. PICK w \in Word : e = Push(n, w)
      BY <1>2, <1>5 DEF Execute, n
    <2>2. Pops(i) = 0 /\ Pushes(i) = 1 /\ ~ Traps(i)
      BY <1>5 DEF Pops, Pushes, Traps
    <2>3. Used(e) = Used(n) + 1 /\ Same(n, e, Used(n))
      BY <1>1, <2>1, <2>2, PushEffect
    <2> QED
      BY <1>1, <2>2, <2>3 DEF Same
  <1>6. CASE i.op \in {"POPAX", "POPF"}
    <2>1. Pops(i) = 1 /\ Pushes(i) = 0 /\ ~ Traps(i)
      BY <1>6 DEF Pops, Pushes, Traps
    <2>2. Drop(n, 1) \in CpuStates /\ Used(Drop(n, 1)) = Used(n) - 1 /\ Drop(n, 1).stack = n.stack
      BY <1>1, <2>1, PopEffect
    <2>3. e.sp = Drop(n, 1).sp /\ e.stack = Drop(n, 1).stack
      BY <1>6, <2>2 DEF Execute, n, CpuStates
    <2>4. Used(e) = Used(c) - 1 /\ e.stack = c.stack
      BY <1>1, <2>2, <2>3 DEF Used
    <2> QED
      BY <1>1, <2>1, <2>4 DEF Same, Word0
  <1>7. CASE Traps(i)
    <2>1. PICK v \in Byte : e = ServiceInterrupt(n, v)
      <3>1. 4 \in Byte
        BY ByteRange
      <3> QED
        BY <1>1, <1>7, <3>1 DEF Execute, n, Traps
    <2>2. Pops(i) = 0 /\ Pushes(i) = 3
      BY <1>7 DEF Pops, Pushes, Traps
    <2>3. Used(e) = Used(n) + 3 /\ FrameOn(n, e) /\ Same(n, e, Used(n))
      BY <1>1, <2>1, <2>2, ServiceEffect
    <2> QED
      BY <1>1, <2>2, <2>3 DEF Same, n
  <1>8. CASE i.op = "INTO" /\ ~ Traps(i)
    <2>1. e = n
      BY <1>1, <1>8 DEF Execute, n, Traps
    <2>2. Pops(i) = 0 /\ Pushes(i) = 0
      BY <1>8 DEF Pops, Pushes
    <2> QED
      BY <1>3, <1>8, <2>1, <2>2
  <1>9. CASE i.op = "IRET"
    <2>1. Pops(i) = 3 /\ Pushes(i) = 0 /\ ~ Traps(i)
      BY <1>9 DEF Pops, Pushes, Traps
    <2>2. e = InterruptReturn(n)
      BY <1>9 DEF Execute, n
    <2>3. Used(e) = Used(n) - 3 /\ e.stack = n.stack
      BY <1>1, <2>1, <2>2, ReturnEffect
    <2> QED
      BY <1>1, <2>1, <2>3 DEF Same, Word0
  <1> QED
    BY <1>4, <1>5, <1>6, <1>7, <1>8, <1>9 DEF Instructions, Ops, Traps

---------------------------------------------------------------------------------
(* CPUs that differ in dead words alone.                                          *)

Alike(a, b) ==
  /\ a \in CpuStates /\ b \in CpuStates /\ OtherFields(a, b) /\ a.sp = b.sp
  /\ Same(a, b, Used(a))

LEMMA AlikeScrubbed ==
  ASSUME NEW c \in CpuStates
  PROVE  Alike(c, Scrub(c))
  <1>1. /\ c.sp \in Slots /\ StackWords \in Nat /\ Used(c) \in Nat /\ Used(c) < StackWords
        /\ \A d \in 1 .. StackWords - 1 : StackWords - d \in Slots
        /\ \A s \in Slots : s \in Nat /\ (Live(c, s) <=> StackWords - s <= Used(c))
    BY Depths DEF CpuStates
  <1> DEFINE words == [ s \in Slots |-> IF Live(c, s) THEN c.stack[s] ELSE 0 ]
  <1>2. Scrub(c) = [ c EXCEPT !.stack = words ]
    BY DEF Scrub
  <1>3. words \in [ Slots -> Word ]
    <2>1. 0 \in Word
      BY WordRange
    <2> QED
      BY <2>1 DEF CpuStates
  <1> HIDE DEF words
  <1>4. Scrub(c) \in CpuStates /\ OtherFields(c, Scrub(c)) /\ c.sp = Scrub(c).sp /\ Scrub(c).stack = words
    BY <1>2, <1>3 DEF OtherFields, CpuStates
  <1>5. ASSUME NEW k \in 1 .. Used(c) PROVE Word0(c, k) = Word0(Scrub(c), k)
    <2>1. StackWords - k \in Slots /\ StackWords - (StackWords - k) <= Used(c)
      BY <1>1
    <2> QED
      BY <1>1, <1>4, <2>1 DEF Word0, words
  <1> QED
    BY <1>4, <1>5 DEF Alike, Same

LEMMA AlikeIsScrubEqual ==
  ASSUME NEW a, NEW b, Alike(a, b)
  PROVE  Scrub(a) = Scrub(b)
  <1>1. /\ a.sp \in Slots /\ StackWords \in Nat /\ Used(a) \in Nat /\ a \in CpuStates
        /\ b \in CpuStates
        /\ a.sp = b.sp
        /\ \A s \in Slots : s \in Nat /\ s < StackWords /\ (Live(a, s) <=> StackWords - s <= Used(a))
    BY Depths DEF Alike, CpuStates
  <1>2. ASSUME NEW s \in Slots PROVE Live(a, s) = Live(b, s) /\ (Live(a, s) => a.stack[s] = b.stack[s])
    <2>1. Live(a, s) = Live(b, s)
      BY <1>1 DEF Live
    <2>2. ASSUME Live(a, s) PROVE a.stack[s] = b.stack[s]
      <3>1. StackWords - s \in 1 .. Used(a) /\ StackWords - (StackWords - s) = s
        BY <1>1, <2>2
      <3>2. Word0(a, StackWords - s) = Word0(b, StackWords - s)
        BY <3>1 DEF Alike, Same
      <3> QED
        BY <3>1, <3>2 DEF Word0
    <2> QED
      BY <2>1, <2>2
  <1> DEFINE wa == [ s \in Slots |-> IF Live(a, s) THEN a.stack[s] ELSE 0 ]
             wb == [ s \in Slots |-> IF Live(b, s) THEN b.stack[s] ELSE 0 ]
  <1>3. wa = wb
    BY <1>2
  <1>4. Scrub(a) = [ a EXCEPT !.stack = wa ] /\ Scrub(b) = [ b EXCEPT !.stack = wb ]
    BY DEF Scrub
  <1> HIDE DEF wa, wb
  <1>5. \A w : [ a EXCEPT !.stack = w ] = [ b EXCEPT !.stack = w ]
    BY <1>1 DEF Alike, OtherFields, CpuStates
  <1> QED
    BY <1>3, <1>4, <1>5

LEMMA AlikePush ==
  ASSUME NEW a, NEW b, Alike(a, b), NEW w \in Word, Used(a) + 1 < StackWords
  PROVE  Alike(Push(a, w), Push(b, w))
  <1> DEFINE p == Push(a, w)
             q == Push(b, w)
             u == Used(a)
  <1>1. a \in CpuStates /\ b \in CpuStates /\ a.sp = b.sp /\ Used(b) = u /\ u \in Nat
    BY Depths DEF Alike, Used, CpuStates
  <1>2. /\ p \in CpuStates /\ Used(p) = u + 1 /\ Word0(p, u + 1) = w /\ Same(a, p, u)
        /\ OtherFields(a, p)
        /\ q \in CpuStates /\ Used(q) = u + 1 /\ Word0(q, u + 1) = w /\ Same(b, q, u)
        /\ OtherFields(b, q)
    BY <1>1, PushEffect
  <1>3. p.sp = q.sp
    BY <1>1 DEF Push, CpuStates
  <1>4. OtherFields(p, q)
    BY <1>2 DEF OtherFields, Alike
  <1> HIDE DEF p, q
  <1>5. Same(a, b, u)
    BY DEF Alike
  <1> HIDE DEF u
  <1>6. ASSUME NEW k \in 1 .. u + 1 PROVE Word0(p, k) = Word0(q, k)
    <2>1. k = u + 1 \/ k \in 1 .. u
      BY <1>1
    <2> QED
      BY <1>2, <1>5, <2>1 DEF Same
  <1>7. Same(p, q, u + 1)
    BY <1>6 DEF Same
  <1> QED
    BY <1>2, <1>3, <1>4, <1>7 DEF Alike, p, q

LEMMA AlikePop ==
  ASSUME NEW a, NEW b, Alike(a, b), NEW n \in 0 .. 3, n <= Used(a)
  PROVE  /\ Alike(Drop(a, n), Drop(b, n))
         /\ \A k \in 0 .. n - 1 : Peek(a, k) = Peek(b, k) /\ Peek(a, k) \in Word
  <1> DEFINE u == Used(a)
  <1>1. a \in CpuStates /\ b \in CpuStates /\ a.sp = b.sp /\ Used(b) = u /\ u \in Nat
    BY Depths DEF Alike, Used, CpuStates
  <1>2. /\ Drop(a, n) \in CpuStates /\ Used(Drop(a, n)) = u - n
        /\ Drop(a, n).stack = a.stack
        /\ \A k \in 0 .. n - 1 : Peek(a, k) = Word0(a, u - k)
        /\ Drop(b, n) \in CpuStates /\ Used(Drop(b, n)) = u - n
        /\ Drop(b, n).stack = b.stack
        /\ \A k \in 0 .. n - 1 : Peek(b, k) = Word0(b, u - k)
    BY <1>1, PopEffect
  <1>3. Drop(a, n).sp = Drop(b, n).sp /\ OtherFields(Drop(a, n), Drop(b, n))
    BY <1>1 DEF Drop, CpuStates, OtherFields, Alike
  <1>4. \A k \in 1 .. u : Word0(a, k) = Word0(b, k)
    BY DEF Alike, Same
  <1>5. \A k \in 0 .. n - 1 : Peek(a, k) \in Word
    BY <1>1, DropType
  <1> HIDE DEF u
  <1>6. \A k \in 0 .. n - 1 : u - k \in 1 .. u
    BY <1>1 DEF u
  <1>7. Same(Drop(a, n), Drop(b, n), u - n)
    BY <1>1, <1>2, <1>4 DEF Same, Word0
  <1> QED
    BY <1>2, <1>3, <1>4, <1>5, <1>6, <1>7 DEF Alike

\* Alike CPUs stay so when what changes is the same registers of both.
LEMMA AlikeOthers ==
  ASSUME NEW a, NEW b, Alike(a, b),
         NEW c \in CpuStates, NEW d \in CpuStates, OtherFields(c, d),
         c.sp = a.sp, c.stack = a.stack, d.sp = b.sp, d.stack = b.stack
  PROVE  Alike(c, d)
  BY DEF Alike, Same, Used, Word0

LEMMA AlikeAdvance ==
  ASSUME NEW a, NEW b, Alike(a, b)
  PROVE  Alike(Advance(a), Advance(b)) /\ Used(Advance(a)) = Used(a)
  <1>1. a \in CpuStates /\ b \in CpuStates /\ OtherFields(a, b)
    BY DEF Alike
  <1> DEFINE n == Advance(a)
             m == Advance(b)
  <1>2. /\ n \in CpuStates /\ n.sp = a.sp /\ n.stack = a.stack /\ Used(n) = Used(a)
        /\ m \in CpuStates /\ m.sp = b.sp /\ m.stack = b.stack
    BY <1>1, AdvanceEffect
  <1>3. OtherFields(n, m)
    <2>1. /\ n.cs = a.cs /\ n.flags = a.flags /\ n.ax = a.ax /\ n.halted = a.halted
          /\ n.ip = (a.ip + 1) % 65536
          /\ m.cs = b.cs /\ m.flags = b.flags /\ m.ax = b.ax /\ m.halted = b.halted
          /\ m.ip = (b.ip + 1) % 65536
      BY <1>1, AdvanceEffect
    <2> HIDE DEF n, m
    <2> QED
      BY <1>1, <2>1 DEF OtherFields
  <1> HIDE DEF n, m
  <1> QED
    BY <1>2, <1>3, AlikeOthers DEF n, m

LEMMA AlikeService ==
  ASSUME NEW a, NEW b, Alike(a, b), NEW v \in Byte, Used(a) + 3 < StackWords
  PROVE  Alike(ServiceInterrupt(a, v), ServiceInterrupt(b, v))
  <1> DEFINE w == ToWord(a.flags)
             a1 == Push(a, w)
             b1 == Push(b, w)
             a2 == Push(a1, a.cs)
             b2 == Push(b1, a.cs)
             a3 == Push(a2, a.ip)
             b3 == Push(b2, a.ip)
             h == ServiceInterrupt(a, v)
             g == ServiceInterrupt(b, v)
  <1>1. /\ a \in CpuStates /\ b \in CpuStates /\ OtherFields(a, b)
        /\ Used(a) \in Nat /\ StackWords \in Nat
    BY Depths DEF Alike, CpuStates
  <1>2. a.cs \in Word /\ a.ip \in Word /\ a.flags \in Flags /\ w \in Word
    BY <1>1, FlagsRoundTrip DEF CpuStates
  <1>3. ServiceInterrupt(a, v) = [ a3 EXCEPT !.flags = @ \ { "interrupt", "trap" }, !.cs = Ivt[v][1],
                                             !.ip = Ivt[v][2], !.halted = FALSE ]
    BY DEF ServiceInterrupt, Framed
  <1>4. ServiceInterrupt(b, v) = [ b3 EXCEPT !.flags = @ \ { "interrupt", "trap" }, !.cs = Ivt[v][1],
                                             !.ip = Ivt[v][2], !.halted = FALSE ]
    BY <1>1 DEF ServiceInterrupt, Framed, OtherFields
  <1> HIDE DEF w
  <1>5. Alike(a1, b1) /\ Used(a1) = Used(a) + 1
    BY <1>1, <1>2, AlikePush, PushEffect
  <1> HIDE DEF a1, b1
  <1>6. Alike(a2, b2) /\ Used(a2) = Used(a) + 2
    <2>1. a1 \in CpuStates /\ Used(a1) + 1 < StackWords
      BY <1>1, <1>5 DEF Alike
    <2> QED
      BY <1>1, <1>2, <1>5, <2>1, AlikePush, PushEffect
  <1> HIDE DEF a2, b2
  <1>7. Alike(a3, b3)
    BY <1>1, <1>2, <1>6, AlikePush
  <1> HIDE DEF a3, b3
  <1>8. h \in CpuStates /\ g \in CpuStates
    BY <1>1, ServiceType
  <1>9. /\ h.sp = a3.sp /\ h.stack = a3.stack /\ g.sp = b3.sp /\ g.stack = b3.stack
        /\ OtherFields(h, g)
    <2>1. a3 \in CpuStates /\ b3 \in CpuStates /\ OtherFields(a3, b3)
      BY <1>7 DEF Alike
    <2> QED
      BY <1>3, <1>4, <2>1 DEF OtherFields, CpuStates
  <1> HIDE DEF h, g
  <1> QED
    BY <1>7, <1>8, <1>9, AlikeOthers DEF h, g

\* An instruction does not tell alike CPUs apart, if it keeps to the words in use.
LEMMA AlikeExecute ==
  ASSUME NEW a, NEW b, Alike(a, b), a = AtBoundary, NEW i \in Instructions, NEW input \in Byte,
         i.op = "INT" => i.arg \in Byte,
         Pops(i) <= Used(a), Used(a) + Pushes(i) < StackWords
  PROVE  Alike(Execute(a, i, input), Execute(b, i, input))
  <1> DEFINE n == Advance(a)
             m == Advance(b)
             e == Execute(a, i, input)
             f == Execute(b, i, input)
  <1>1. Alike(n, m) /\ Used(n) = Used(a) /\ n \in CpuStates /\ m \in CpuStates /\ OtherFields(n, m)
    BY AlikeAdvance DEF Alike
  <1>2. /\ n.ax \in Word /\ ToWord(n.flags) \in Word /\ n.flags = a.flags
        /\ Used(n) \in Nat /\ StackWords \in Nat
    BY <1>1, AdvanceEffect, FlagsRoundTrip, Depths DEF CpuStates, Alike
  <1>3. e \in CpuStates /\ f \in CpuStates
    BY ExecuteType DEF Alike
  <1> HIDE DEF n, m
  <1>4. CASE i.op \in {"NOP", "OUT", "OUTW", "MOVAX", "IN", "CLI", "STI", "HLT", "JMP"}
    <2>1. /\ e.sp = n.sp /\ e.stack = n.stack /\ f.sp = m.sp /\ f.stack = m.stack
      <3>1. e.sp = n.sp /\ e.stack = n.stack
        BY <1>1, <1>4 DEF Execute, n, SetAl, CpuStates
      <3>2. f.sp = m.sp /\ f.stack = m.stack
        BY <1>1, <1>4 DEF Execute, m, SetAl, CpuStates
      <3> QED
        BY <3>1, <3>2
    <2>2. OtherFields(e, f)
      <3>1. n.ax = m.ax /\ n.flags = m.flags
        BY <1>1 DEF OtherFields
      <3>2. CASE i.op \in {"NOP", "OUT", "OUTW"}
        BY <1>1, <3>2 DEF Execute, n, m
      <3>3. CASE i.op \in {"MOVAX", "IN", "JMP", "HLT"}
        <4>1. \/ \E v : e = [ n EXCEPT !.ax = v ] /\ f = [ m EXCEPT !.ax = v ]
              \/ \E v : e = [ n EXCEPT !.ip = v ] /\ f = [ m EXCEPT !.ip = v ]
              \/ e = [ n EXCEPT !.halted = TRUE ] /\ f = [ m EXCEPT !.halted = TRUE ]
          <5>1. CASE i.op = "MOVAX"
            BY <5>1 DEF Execute, n, m
          <5>2. CASE i.op = "JMP"
            BY <5>2 DEF Execute, n, m
          <5>3. CASE i.op = "HLT"
            BY <5>3 DEF Execute, n, m
          <5>4. CASE i.op = "IN"
            <6>1. e = SetAl(n, input) /\ f = SetAl(m, input)
              BY <5>4 DEF Execute, n, m
            <6> HIDE DEF e, f, n, m
            <6> DEFINE v == 256 * (n.ax \div 256) + input
            <6>2. SetAl(n, input) = [ n EXCEPT !.ax = v ]
              BY Zenon DEF SetAl
            <6>3. SetAl(m, input) = [ m EXCEPT !.ax = v ]
              BY <3>1, Zenon DEF SetAl
            <6> HIDE DEF v
            <6> QED
              BY <6>1, <6>2, <6>3
          <5> QED
            BY <3>3, <5>1, <5>2, <5>3, <5>4
        <4> HIDE DEF e, f
        <4> QED
          BY <1>1, <4>1 DEF OtherFields, CpuStates
      <3>4. CASE i.op \in {"CLI", "STI"}
        <4>1. \E v : e = [ n EXCEPT !.flags = v ] /\ f = [ m EXCEPT !.flags = v ]
          BY <3>1, <3>4 DEF Execute, n, m
        <4> HIDE DEF e, f
        <4> QED
          BY <1>1, <4>1 DEF OtherFields, CpuStates
      <3> QED
        BY <1>4, <3>2, <3>3, <3>4
    <2> HIDE DEF e, f
    <2> QED
      BY <1>1, <1>3, <2>1, <2>2, AlikeOthers DEF e, f
  <1>5. CASE i.op \in {"PUSHAX", "PUSHF"}
    <2>1. PICK w \in Word : e = Push(n, w) /\ f = Push(m, w)
      BY <1>1, <1>2, <1>5 DEF Execute, n, m, OtherFields
    <2>2. Used(n) + 1 < StackWords
      <3>1. Pushes(i) = 1
        BY <1>5 DEF Pushes, Traps
      <3> QED
        BY <1>1, <3>1
    <2> QED
      BY <1>1, <2>1, <2>2, AlikePush
  <1>6. CASE i.op \in {"POPAX", "POPF"}
    <2>1. 1 <= Used(n)
      BY <1>1, <1>6 DEF Pops
    <2> DEFINE p == Drop(n, 1)
               q == Drop(m, 1)
    <2>2. Alike(p, q) /\ Peek(n, 0) = Peek(m, 0)
      BY <1>1, <2>1, AlikePop
    <2>3. \/ e = [ p EXCEPT !.ax = Peek(n, 0) ] /\ f = [ q EXCEPT !.ax = Peek(n, 0) ]
          \/ e = [ p EXCEPT !.flags = FromWord(Peek(n, 0)) ]
             /\ f = [ q EXCEPT !.flags = FromWord(Peek(n, 0)) ]
      BY <1>6, <2>2 DEF Execute, n, m
    <2> HIDE DEF p, q, e, f
    <2>4. e.sp = p.sp /\ e.stack = p.stack /\ f.sp = q.sp /\ f.stack = q.stack /\ OtherFields(e, f)
      BY <2>2, <2>3 DEF Alike, OtherFields, CpuStates
    <2> QED
      BY <1>3, <2>2, <2>4, AlikeOthers DEF e, f
  <1>7. CASE Traps(i)
    <2>1. PICK v \in Byte : e = ServiceInterrupt(n, v) /\ f = ServiceInterrupt(m, v)
      <3>1. 4 \in Byte
        BY ByteRange
      <3> QED
        BY <1>1, <1>2, <1>7, <3>1 DEF Execute, n, m, Traps, OtherFields
    <2>2. Used(n) + 3 < StackWords
      BY <1>1, <1>7 DEF Pushes, Traps
    <2> QED
      BY <1>1, <2>1, <2>2, AlikeService
  <1>8. CASE i.op = "INTO" /\ ~ Traps(i)
    <2>1. e = n /\ f = m
      BY <1>1, <1>2, <1>8 DEF Execute, n, m, Traps, OtherFields
    <2> QED
      BY <1>1, <2>1
  <1>9. CASE i.op = "IRET"
    <2>1. 3 <= Used(n)
      BY <1>1, <1>9 DEF Pops
    <2> DEFINE p == Drop(n, 3)
               q == Drop(m, 3)
    <2>2. /\ Alike(p, q) /\ Peek(n, 0) = Peek(m, 0) /\ Peek(n, 1) = Peek(m, 1)
          /\ Peek(n, 2) = Peek(m, 2)
      BY <1>1, <2>1, AlikePop
    <2>3. /\ e = [ p EXCEPT !.ip = Peek(n, 0), !.cs = Peek(n, 1), !.flags = FromWord(Peek(n, 2)) ]
          /\ f = [ q EXCEPT !.ip = Peek(n, 0), !.cs = Peek(n, 1), !.flags = FromWord(Peek(n, 2)) ]
      BY <1>9, <2>2 DEF Execute, n, m, InterruptReturn
    <2> HIDE DEF p, q, e, f
    <2>4. e.sp = p.sp /\ e.stack = p.stack /\ f.sp = q.sp /\ f.stack = q.stack /\ OtherFields(e, f)
      BY <2>2, <2>3 DEF Alike, OtherFields, CpuStates
    <2> QED
      BY <1>3, <2>2, <2>4, AlikeOthers DEF e, f
  <1> QED
    BY <1>4, <1>5, <1>6, <1>7, <1>8, <1>9 DEF Instructions, Ops, Traps

\* An instruction does the same to a CPU whose dead words were forgotten.
LEMMA ScrubCommutes ==
  ASSUME NEW c \in CpuStates, c = AtBoundary, NEW i \in Instructions, NEW input \in Byte,
         i.op = "INT" => i.arg \in Byte,
         Pops(i) <= Used(c), Used(c) + Pushes(i) < StackWords
  PROVE  Scrub(Execute(c, i, input)) = Scrub(Execute(Scrub(c), i, input))
  <1>1. Alike(c, Scrub(c))
    BY AlikeScrubbed
  <1>2. Alike(Execute(c, i, input), Execute(Scrub(c), i, input))
    BY <1>1, AlikeExecute
  <1> QED
    BY <1>2, AlikeIsScrubEqual

---------------------------------------------------------------------------------
(* The open interrupts on the stack.                                              *)

\* What x had in use lies on the stack of c as it was, and its return frame on top of it.
OnStack(x, c) == Used(x) + 3 <= Used(c) /\ FrameOn(x, c) /\ Same(x, c, Used(x))

\* The open interrupts lie on the stack in the order they were entered.
Stacked(list, c) ==
  \A k \in 1 .. Len(list) :
    /\ OnStack(list[k].ctx, c)
    /\ \A j \in 1 .. k - 1 : Used(list[j].ctx) + 3 <= Used(list[k].ctx)

LEMMA FrameTypes ==
  ASSUME NEW list \in Seq(Frame)
  PROVE  /\ Len(list) \in Nat
         /\ \A k \in 1 .. Len(list) : /\ list[k] \in Frame /\ list[k].ctx \in CpuStates
                                     /\ Used(list[k].ctx) \in Nat
  <1>1. \A k \in 1 .. Len(list) : list[k] \in Frame
    OBVIOUS
  <1>2. ASSUME NEW f \in Frame PROVE f.ctx \in CpuStates /\ Used(f.ctx) \in Nat
    <2>1. f.ctx \in CpuStates
      BY DEF Frame
    <2>2. f.ctx.sp \in Slots
      BY <2>1 DEF CpuStates
    <2> QED
      BY <2>1, <2>2, Depths
  <1> QED
    BY <1>1, <1>2

\* What leaves the words of the open interrupts alone leaves them on the stack.
LEMMA StackedKept ==
  ASSUME NEW list \in Seq(Frame), NEW c \in CpuStates, NEW e \in CpuStates,
         Stacked(list, c), Same(c, e, Used(c)),
         \A k \in 1 .. Len(list) : Used(list[k].ctx) + 3 <= Used(e)
  PROVE  Stacked(list, e)
  <1>1. Used(c) \in Nat
    BY Depths DEF CpuStates
  <1>2. ASSUME NEW k \in 1 .. Len(list) PROVE OnStack(list[k].ctx, e)
    <2> DEFINE x == list[k].ctx
               u == Used(x)
    <2>1. u \in Nat /\ OnStack(x, c) /\ u + 3 <= Used(e)
      BY <1>2, FrameTypes DEF Stacked
    <2> HIDE DEF x, u
    <2>2. u + 3 <= Used(c) /\ FrameOn(x, c) /\ Same(x, c, u)
      BY <2>1 DEF OnStack, u
    <2>3. \A d \in 1 .. u + 3 : Word0(c, d) = Word0(e, d)
      BY <1>1, <2>1, <2>2 DEF Same
    <2>4. FrameOn(x, e)
      <3>1. /\ Word0(c, u + 1) = Word0(e, u + 1) /\ Word0(c, u + 2) = Word0(e, u + 2)
            /\ Word0(c, u + 3) = Word0(e, u + 3)
        BY <2>1, <2>3
      <3> QED
        BY <2>2, <3>1 DEF FrameOn, u
    <2>5. Same(x, e, u)
      <3>1. \A d \in 1 .. u : d \in 1 .. u + 3
        BY <2>1
      <3> QED
        BY <2>2, <2>3, <3>1 DEF Same
    <2> QED
      BY <2>1, <2>4, <2>5 DEF OnStack, u, x
  <1> QED
    BY <1>2 DEF Stacked

\* An interrupt that is entered goes on top.
LEMMA StackedPushed ==
  ASSUME NEW list \in Seq(Frame), NEW c \in CpuStates, NEW h \in CpuStates, NEW f \in Frame,
         Stacked(list, c), Same(c, h, Used(c)), Used(h) = Used(c) + 3,
         Used(f.ctx) = Used(c), FrameOn(f.ctx, h), f.ctx.stack = c.stack
  PROVE  Stacked(Append(list, f), h)
  <1> DEFINE new == Append(list, f)
             n == Len(list)
  <1>1. Used(c) \in Nat
    BY Depths DEF CpuStates
  <1>2. n \in Nat /\ Len(new) = n + 1 /\ new[n + 1] = f /\ \A k \in 1 .. n : new[k] = list[k]
    OBVIOUS
  <1>3. \A k \in 1 .. n : Used(list[k].ctx) \in Nat /\ Used(list[k].ctx) + 3 <= Used(c)
    BY FrameTypes DEF Stacked, OnStack
  <1>4. \A k \in 1 .. n : Used(list[k].ctx) + 3 <= Used(h)
    BY <1>1, <1>3
  <1>5. Stacked(list, h)
    BY <1>4, StackedKept
  <1>6. OnStack(f.ctx, h)
    <2>1. Same(f.ctx, h, Used(f.ctx))
      BY DEF Same, Word0
    <2> QED
      BY <1>1, <2>1 DEF OnStack
  <1> HIDE DEF new, n
  <1>7. ASSUME NEW k \in 1 .. n + 1
        PROVE  /\ OnStack(new[k].ctx, h)
               /\ \A j \in 1 .. k - 1 : Used(new[j].ctx) + 3 <= Used(new[k].ctx)
    <2>1. CASE k = n + 1
      <3>1. \A j \in 1 .. k - 1 : j \in 1 .. n
        BY <1>2, <2>1
      <3> QED
        BY <1>2, <1>3, <1>6, <2>1, <3>1
    <2>2. CASE k \in 1 .. n
      <3>1. \A j \in 1 .. k - 1 : j \in 1 .. n
        BY <1>2, <2>2
      <3> QED
        BY <1>2, <1>5, <2>2, <3>1 DEF Stacked, n
    <2> QED
      BY <1>2, <2>1, <2>2
  <1> QED
    BY <1>2, <1>7 DEF Stacked, new

\* One that is left goes off the top.
LEMMA StackedPopped ==
  ASSUME NEW list \in Seq(Frame), list # << >>, NEW c, Stacked(list, c)
  PROVE  LET rest == SubSeq(list, 1, Len(list) - 1)
         IN  /\ rest \in Seq(Frame) /\ Len(rest) = Len(list) - 1
             /\ \A k \in 1 .. Len(rest) : rest[k] = list[k]
             /\ Stacked(rest, c)
             /\ \A k \in 1 .. Len(rest) :
                  Used(rest[k].ctx) + 3 <= Used(list[Len(list)].ctx)
  <1> DEFINE rest == SubSeq(list, 1, Len(list) - 1)
             n == Len(list)
  <1>1. /\ n \in Nat /\ n >= 1 /\ rest \in Seq(Frame) /\ Len(rest) = n - 1
        /\ \A k \in 1 .. n - 1 : rest[k] = list[k]
    <2>1. n \in Nat /\ n >= 1
      OBVIOUS
    <2>2. rest \in Seq(Frame)
      OBVIOUS
    <2>3. Len(rest) = n - 1 /\ \A k \in 1 .. n - 1 : rest[k] = list[k]
      <3>1. PICK m \in Int : m = n - 1
        BY <2>1
      <3>2. \A k \in 1 .. m : list[k] \in Frame
        BY <3>1
      <3>3. /\ Len(SubSeq(list, 1, m)) = IF 1 <= m THEN m - 1 + 1 ELSE 0
            /\ \A k \in 1 .. m - 1 + 1 : SubSeq(list, 1, m)[k] = list[1 + k - 1]
        BY <3>2, SubSeqProperties
      <3>4. rest = SubSeq(list, 1, m)
        BY <3>1
      <3> HIDE DEF rest, n
      <3> QED
        BY <2>1, <3>1, <3>3, <3>4
    <2> QED
      BY <2>1, <2>2, <2>3
  <1> HIDE DEF rest, n
  <1>2. /\ n \in 1 .. n
        /\ \A k \in 1 .. n - 1 : k \in 1 .. n
        /\ \A k \in 1 .. n - 1 : \A j \in 1 .. k - 1 : j \in 1 .. n - 1
    BY <1>1
  <1>3. Stacked(rest, c)
    BY <1>1, <1>2 DEF Stacked, n
  <1>4. \A k \in 1 .. n - 1 : Used(rest[k].ctx) + 3 <= Used(list[n].ctx)
    BY <1>1, <1>2 DEF Stacked, n
  <1> QED
    BY <1>1, <1>3, <1>4 DEF rest, n

\* The innermost open interrupt lies highest.
LEMMA StackedTop ==
  ASSUME NEW list \in Seq(Frame), list # << >>, NEW c, Stacked(list, c)
  PROVE  /\ Len(list) \in 1 .. Len(list) /\ list[Len(list)].ctx \in CpuStates
         /\ OnStack(list[Len(list)].ctx, c)
         /\ \A k \in 1 .. Len(list) : Used(list[k].ctx) <= Used(list[Len(list)].ctx)
  <1> DEFINE n == Len(list)
  <1>1. n \in Nat /\ n >= 1
    OBVIOUS
  <1>2. \A k \in 1 .. n : list[k].ctx \in CpuStates /\ Used(list[k].ctx) \in Nat
    BY FrameTypes
  <1> HIDE DEF n
  <1>3. n \in 1 .. n /\ \A k \in 1 .. n : k = n \/ k \in 1 .. n - 1
    BY <1>1
  <1>4. ASSUME NEW k \in 1 .. n PROVE Used(list[k].ctx) <= Used(list[n].ctx)
    <2>1. \A j \in 1 .. n - 1 : Used(list[j].ctx) + 3 <= Used(list[n].ctx)
      BY <1>3 DEF Stacked, n
    <2>2. CASE k = n
      BY <1>2, <1>3, <2>2
    <2>3. CASE k \in 1 .. n - 1
      <3> DEFINE low  == Used(list[k].ctx)
                 high == Used(list[n].ctx)
      <3>1. low \in Nat /\ high \in Nat /\ low + 3 <= high
        BY <1>2, <1>3, <2>1, <2>3
      <3> HIDE DEF low, high
      <3>2. low <= high
        BY <3>1
      <3> QED
        BY <3>2 DEF low, high
    <2> QED
      BY <1>3, <2>2, <2>3
  <1> QED
    BY <1>2, <1>3, <1>4 DEF Stacked, n

\* Delivery keeps the open interrupts stacked.
LEMMA EnteredStacked ==
  ASSUME TypeOK, Stacked(frames, cpu), Deliverable => Used(cpu) + 3 < StackWords
  PROVE  Entered \in Seq(Frame) /\ Stacked(Entered, AtBoundary)
  <1>1. /\ cpu \in CpuStates /\ frames \in Seq(Frame) /\ AtBoundary \in CpuStates
        /\ Entered \in Seq(Frame)
    BY BoundaryType, FramesType DEF TypeOK
  <1>2. CASE Deliverable
    <2> DEFINE v == Vector(interrupts, Highest(interrupts))
               f == [ kind |-> "irq", ctx |-> cpu ]
    <2>1. v \in Byte
      BY <1>2, HighestActiveLine DEF Deliverable, TypeOK
    <2>2. AtBoundary = ServiceInterrupt(cpu, v) /\ Entered = Append(frames, f)
      BY <1>2 DEF AtBoundary, Entered
    <2>3. f \in Frame /\ f.ctx = cpu
      BY <1>1 DEF Frame
    <2> HIDE DEF v, f
    <2>4. /\ Used(AtBoundary) = Used(cpu) + 3 /\ FrameOn(cpu, AtBoundary)
          /\ Same(cpu, AtBoundary, Used(cpu))
      BY <1>1, <1>2, <2>1, <2>2, ServiceEffect
    <2> QED
      BY <1>1, <2>2, <2>3, <2>4, StackedPushed
  <1>3. CASE ~ Deliverable
    BY <1>1, <1>3 DEF AtBoundary, Entered
  <1> QED
    BY <1>2, <1>3

\* So does the instruction, if the program behaves.
LEMMA StepStacked ==
  ASSUME TypeOK, Stacked(frames, cpu), Step, StepBehaves, cpu' \in CpuStates
  PROVE  Stacked(frames', cpu')
  <1> DEFINE top == Entered[Len(Entered)]
  <1>0. PICK c \in CpuStates, i \in Instructions :
          c = AtBoundary /\ i = Fetch(AtBoundary) /\ (i.op = "INT" => i.arg \in Byte)
    BY BoundaryType DEF Step
  <1>1. /\ Advance(c) \in CpuStates /\ Used(Advance(c)) = Used(c)
        /\ Advance(c).stack = c.stack
        /\ Used(c) \in Nat
    BY AdvanceEffect, Depths DEF CpuStates
  <1>2. Entered \in Seq(Frame) /\ Stacked(Entered, c)
    BY <1>0, EnteredStacked DEF StepBehaves
  <1>3. /\ Used(c) + Pushes(i) < StackWords
        /\ Entered = << >> => Pops(i) <= Used(c)
        /\ Entered # << >> /\ i.op = "IRET" => Used(c) = Used(top.ctx) + 3
        /\ Entered # << >> /\ i.op # "IRET" => Used(top.ctx) + 3 + Pops(i) <= Used(c)
    BY <1>0 DEF StepBehaves
  <1>4. PICK input \in Byte : cpu' = Execute(c, i, input)
    <2>1. 0 \in Byte
      BY ByteRange
    <2> QED
      BY <1>0, <2>1, InputIsByte DEF Step
  <1>5. frames' = FramesAfter(i)
    BY <1>0 DEF Step
  <1> HIDE DEF top
  <1>6. Entered # << >> => /\ top.ctx \in CpuStates /\ Used(top.ctx) \in Nat
                           /\ Len(Entered) \in 1 .. Len(Entered)
                           /\ \A k \in 1 .. Len(Entered) : Used(Entered[k].ctx) <= Used(top.ctx)
    BY <1>2, StackedTop, FrameTypes DEF top
  <1>7. Pops(i) \in 0 .. 3 /\ Pushes(i) \in 0 .. 3 /\ (i.op = "IRET" => Pops(i) = 3 /\ Pushes(i) = 0)
    <2>1. Pops(i) \in 0 .. 3 /\ Pushes(i) \in 0 .. 3
      BY DEF Pops, Pushes
    <2>2. i.op = "IRET" => Pops(i) = 3 /\ Pushes(i) = 0
      BY DEF Pops, Pushes, Traps
    <2> QED
      BY <2>1, <2>2
  <1>8. Pops(i) <= Used(c)
    BY <1>1, <1>3, <1>6, <1>7
  <1>9. /\ Used(cpu') = Used(c) - Pops(i) + Pushes(i) /\ Same(c, cpu', Used(c))
        /\ Traps(i) => FrameOn(Advance(c), cpu')
    BY <1>0, <1>3, <1>4, <1>8, ExecuteEffect
  <1>10. CASE Traps(i)
    <2> DEFINE f == [ kind |-> "soft", ctx |-> Advance(c) ]
    <2>1. FramesAfter(i) = Append(Entered, [ kind |-> "soft", ctx |-> Advance(AtBoundary) ])
      <3>1. i.op # "IRET"
        BY <1>10 DEF Traps
      <3> QED
        BY <1>10, <3>1 DEF FramesAfter, Traps
    <2>2. f \in Frame /\ f.ctx = Advance(c)
      BY <1>1 DEF Frame
    <2>3. Pops(i) = 0 /\ Pushes(i) = 3
      BY <1>10 DEF Pops, Pushes, Traps
    <2>4. frames' = Append(Entered, f)
      BY <1>0, <1>5, <2>1
    <2> HIDE DEF f
    <2>5. Used(cpu') = Used(c) + 3
      BY <1>1, <1>9, <2>3
    <2> QED
      BY <1>1, <1>2, <1>9, <1>10, <2>2, <2>5, <2>4, StackedPushed
  <1>11. CASE i.op = "IRET" /\ Entered # << >>
    <2> DEFINE rest == SubSeq(Entered, 1, Len(Entered) - 1)
    <2>1. frames' = rest
      BY <1>5, <1>11 DEF FramesAfter, Traps
    <2>2. /\ rest \in Seq(Frame) /\ Stacked(rest, c)
          /\ \A k \in 1 .. Len(rest) : Used(rest[k].ctx) + 3 <= Used(top.ctx)
      BY <1>2, <1>11, StackedPopped DEF top
    <2> HIDE DEF rest
    <2>3. Used(cpu') = Used(top.ctx)
      BY <1>3, <1>6, <1>7, <1>9, <1>11
    <2> QED
      BY <1>1, <1>9, <2>1, <2>2, <2>3, StackedKept
  <1>12. CASE ~ Traps(i) /\ ~ (i.op = "IRET" /\ Entered # << >>)
    <2>1. frames' = Entered
      BY <1>5, <1>12 DEF FramesAfter
    <2>2. ASSUME NEW k \in 1 .. Len(Entered) PROVE Used(Entered[k].ctx) + 3 <= Used(cpu')
      <3>1. Entered # << >> /\ i.op # "IRET"
        BY <1>12, <2>2
      <3>2. Used(Entered[k].ctx) \in Nat /\ Used(Entered[k].ctx) <= Used(top.ctx)
        BY <1>2, <1>6, <3>1, FrameTypes
      <3> QED
        BY <1>1, <1>3, <1>6, <1>7, <1>9, <3>1, <3>2
    <2> QED
      BY <1>1, <1>2, <1>9, <2>1, <2>2, StackedKept
  <1> QED
    BY <1>10, <1>11, <1>12

\* As long as the program behaves, everything open is on the stack.
LEMMA StackedAlways == Spec /\ KeepsItsStack => []Stacked(frames, cpu)
  <1>1. Init => Stacked(frames, cpu)
    BY DEF Init, Stacked
  <1>2. TypeOK /\ TypeOK' /\ Stacked(frames, cpu) /\ [Next]_vars /\ [Step => StepBehaves]_vars
          => Stacked(frames, cpu)'
    <2> SUFFICES ASSUME TypeOK, TypeOK', Stacked(frames, cpu), Next, Step => StepBehaves
                 PROVE  Stacked(frames', cpu')
      BY DEF vars
    <2>1. CASE Step
      BY <2>1, StepStacked DEF TypeOK
    <2>2. CASE ~ Step
      <3>1. UNCHANGED << cpu, frames >>
        BY <2>2
           DEF Next, StepHalted, vars, SourceRaise, SourceLower, SignalTxReady, SignalRxReady,
                    HostSetEnable, Environment
      <3> QED
        BY <3>1
    <2> QED
      BY <2>1, <2>2
  <1> QED
    BY <1>1, <1>2, MachineTypes, PTL DEF Spec, KeepsItsStack

\* Whatever nests in what, the return frame of every open interrupt stays intact on the
\* stack, for every program that keeps its stack (service_interrupt, IRET and the stack
\* instructions in exec.rs).
THEOREM FramesStayIntact == Spec /\ KeepsItsStack => []FramesIntact
  <1>1. TypeOK /\ Stacked(frames, cpu) => FramesIntact
    <2> SUFFICES ASSUME TypeOK, Stacked(frames, cpu), NEW k \in 1 .. Len(frames)
                 PROVE  LET c == frames[k].ctx
                        IN  /\ cpu.stack[Below(c.sp, 1)] = ToWord(c.flags)
                            /\ cpu.stack[Below(c.sp, 2)] = c.cs
                            /\ cpu.stack[Below(c.sp, 3)] = c.ip
      BY DEF FramesIntact
    <2> DEFINE c == frames[k].ctx
               u == Used(c)
    <2>1. c \in CpuStates /\ u \in Nat /\ OnStack(c, cpu) /\ cpu \in CpuStates
      BY FrameTypes DEF TypeOK, Stacked
    <2> HIDE DEF c, u
    <2>2. u + 3 <= Used(cpu) /\ FrameOn(c, cpu)
      BY <2>1 DEF OnStack, u
    <2>3. Used(cpu) \in Nat /\ Used(cpu) < StackWords /\ StackWords \in Nat
      BY <2>1, Depths DEF CpuStates
    <2>4. \A n \in 1 .. 3 : Below(c.sp, n) = StackWords - (u + n)
      <3>1. \A n \in 1 .. 3 : u + n < StackWords
        BY <2>1, <2>2, <2>3
      <3>2. c.sp \in Slots
        BY <2>1 DEF CpuStates
      <3> QED
        BY <3>1, <3>2, Depths DEF u
    <2> QED
      BY <2>2, <2>4 DEF FrameOn, Word0, u, c
  <1> QED
    BY <1>1, MachineTypes, StackedAlways, PTL

---------------------------------------------------------------------------------
(* The interrupted program.                                                       *)

\* The operators of the CPU that PreciseInterrupts names are the machine's own.
LEMMA SameCpu ==
  /\ Precise!Reset = Reset
  /\ \A c : /\ Precise!Scrub(c) = Scrub(c) /\ Precise!Address(c) = Address(c)
            /\ Precise!Fetch(c) = Fetch(c)
  /\ \A c, i, input : Precise!Execute(c, i, input) = Execute(c, i, input)
  <1>1. Precise!Reset = Reset
    BY DEF Precise!Reset, Reset, Precise!Slots, Slots
  <1>2. ASSUME NEW c
        PROVE  /\ Precise!Scrub(c) = Scrub(c) /\ Precise!Address(c) = Address(c)
               /\ Precise!Fetch(c) = Fetch(c)
    BY
       DEF Precise!Scrub, Scrub, Precise!Live, Live, Precise!Slots, Slots, Precise!Address, Address,
           Precise!Fetch, Fetch
  <1>3. ASSUME NEW c, NEW i, NEW input PROVE Precise!Execute(c, i, input) = Execute(c, i, input)
    <2> USE DEF Precise!Below, Below, Precise!Above, Above
    <2>1. Precise!Advance(c) = Advance(c)
      BY DEF Precise!Advance, Advance
    <2>2. \A x, w : Precise!Push(x, w) = Push(x, w)
      BY DEF Precise!Push, Push
    <2>3. \A x, k : Precise!Peek(x, k) = Peek(x, k) /\ Precise!Drop(x, k) = Drop(x, k)
      BY DEF Precise!Peek, Peek, Precise!Drop, Drop
    <2>4. \A f, w : Precise!ToWord(f) = ToWord(f) /\ Precise!FromWord(w) = FromWord(w)
      BY
         DEF Precise!ToWord, ToWord, Precise!FromWord, FromWord, Precise!Bit, Bit, Precise!AlwaysOne,
             AlwaysOne, Precise!FlagNames, FlagNames, Precise!FlagMask, FlagMask
    <2>5. \A x, v : Precise!ServiceInterrupt(x, v) = ServiceInterrupt(x, v)
      BY <2>2, <2>4 DEF Precise!ServiceInterrupt, ServiceInterrupt, Precise!Framed, Framed
    <2>6. \A x : Precise!InterruptReturn(x) = InterruptReturn(x)
      BY <2>3, <2>4 DEF Precise!InterruptReturn, InterruptReturn
    <2>7. \A x, w : Precise!SetAl(x, w) = SetAl(x, w)
      BY DEF Precise!SetAl, SetAl
    <2> QED
      BY <2>1, <2>2, <2>3, <2>4, <2>5, <2>6, <2>7 DEF Precise!Execute, Execute
  <1> QED
    BY <1>1, <1>2, <1>3

\* The interrupted program's CPU, of a list of open interrupts and a CPU (UserCpu).
UserOf(list, c) ==
  LET irqs == { k \in 1 .. Len(list) : list[k].kind = "irq" }
  IN  IF irqs = {} THEN c ELSE list[CHOOSE k \in irqs : \A j \in irqs : k <= j].ctx

\* It is the one saved by the outermost hardware interrupt.
LEMMA UserIs ==
  ASSUME NEW list \in Seq(Frame), NEW c
  PROVE  /\ (\A k \in 1 .. Len(list) : list[k].kind # "irq") => UserOf(list, c) = c
         /\ \A k \in 1 .. Len(list) :
              /\ list[k].kind = "irq"
              /\ \A j \in 1 .. k - 1 : list[j].kind # "irq"
              => UserOf(list, c) = list[k].ctx
  <1> DEFINE irqs == { k \in 1 .. Len(list) : list[k].kind = "irq" }
  <1>1. UserOf(list, c)
          = IF irqs = {} THEN c ELSE list[CHOOSE k \in irqs : \A j \in irqs : k <= j].ctx
    BY DEF UserOf
  <1>2. (\A k \in 1 .. Len(list) : list[k].kind # "irq") => irqs = {}
    OBVIOUS
  <1>3. ASSUME NEW k \in 1 .. Len(list), list[k].kind = "irq",
               \A j \in 1 .. k - 1 : list[j].kind # "irq"
        PROVE  UserOf(list, c) = list[k].ctx
    <2>1. k \in irqs /\ irqs \subseteq Nat
      BY <1>3
    <2>2. \A j \in irqs : k <= j
      <3>1. \A j \in 1 .. Len(list) : k <= j \/ j \in 1 .. k - 1
        OBVIOUS
      <3> QED
        BY <1>3, <3>1
    <2> HIDE DEF irqs
    <2> DEFINE least == CHOOSE l \in irqs : \A j \in irqs : l <= j
    <2>3. least \in irqs /\ \A j \in irqs : least <= j
      BY <2>1, <2>2
    <2> HIDE DEF least
    <2>4. least = k
      BY <2>1, <2>2, <2>3
    <2> QED
      BY <1>1, <2>1, <2>4 DEF least
  <1> QED
    BY <1>1, <1>2, <1>3

\* There is an outermost hardware interrupt if there is any.
LEMMA OutermostExists ==
  ASSUME NEW list \in Seq(Frame), NEW n \in 1 .. Len(list), list[n].kind = "irq"
  PROVE  \E k \in 1 .. n : list[k].kind = "irq" /\ \A j \in 1 .. k - 1 : list[j].kind # "irq"
  <1> DEFINE irqs == { k \in 1 .. Len(list) : list[k].kind = "irq" }
  <1>1. irqs \subseteq Nat /\ irqs # {} /\ n \in irqs
    OBVIOUS
  <1>2. PICK k \in irqs : \A j \in irqs : k <= j
    BY <1>1, LeastExists
  <1>3. k \in 1 .. n /\ list[k].kind = "irq"
    BY <1>1, <1>2
  <1>4. \A j \in 1 .. k - 1 : j \in 1 .. Len(list) /\ ~ (k <= j)
    BY <1>2
  <1> QED
    BY <1>2, <1>3, <1>4

\* What is entered above an open hardware interrupt, and what is left above it, is nothing
\* to the interrupted program.
LEMMA UserKept ==
  ASSUME NEW list \in Seq(Frame), NEW more \in Seq(Frame), NEW c, NEW d,
         NEW n \in 1 .. Len(list), n <= Len(more), list[n].kind = "irq",
         \A k \in 1 .. n : more[k] = list[k]
  PROVE  UserOf(more, d) = UserOf(list, c)
  <1>1. PICK k \in 1 .. n : list[k].kind = "irq" /\ \A j \in 1 .. k - 1 : list[j].kind # "irq"
    BY OutermostExists
  <1>2. /\ k \in 1 .. Len(list) /\ k \in 1 .. Len(more)
        /\ \A j \in 1 .. k - 1 : j \in 1 .. n
    OBVIOUS
  <1>3. UserOf(list, c) = list[k].ctx
    BY <1>1, <1>2, UserIs
  <1>4. UserOf(more, d) = more[k].ctx
    <2>1. more[k].kind = "irq" /\ \A j \in 1 .. k - 1 : more[j].kind # "irq"
      BY <1>1, <1>2
    <2> QED
      BY <1>2, <2>1, UserIs
  <1> QED
    BY <1>3, <1>4

\* Delivery is nothing to the interrupted program.
LEMMA UserEntered ==
  ASSUME TypeOK
  PROVE  UserOf(Entered, AtBoundary) = UserCpu
  <1>1. frames \in Seq(Frame) /\ Entered \in Seq(Frame) /\ Len(frames) \in Nat
    BY FramesType DEF TypeOK
  <1>2. UserCpu = UserOf(frames, cpu)
    BY DEF UserCpu, UserOf
  <1>3. CASE ~ Deliverable
    BY <1>2, <1>3 DEF Entered, AtBoundary
  <1>4. CASE Deliverable
    <2> DEFINE f == [ kind |-> "irq", ctx |-> cpu ]
               n == Len(frames)
    <2>1. Entered = Append(frames, f)
      BY <1>4 DEF Entered
    <2>2. /\ Len(Entered) = n + 1 /\ Entered[n + 1] = f
          /\ \A k \in 1 .. n : Entered[k] = frames[k]
      BY <1>1, <2>1
    <2>3. CASE \E k \in 1 .. n : frames[k].kind = "irq"
      <3>1. PICK k \in 1 .. n : frames[k].kind = "irq"
        BY <2>3
      <3>2. k <= Len(Entered) /\ \A j \in 1 .. k : Entered[j] = frames[j]
        BY <1>1, <2>2
      <3> QED
        BY <1>1, <1>2, <3>1, <3>2, UserKept
    <2>4. CASE \A k \in 1 .. n : frames[k].kind # "irq"
      <3>1. UserCpu = cpu
        BY <1>1, <1>2, <2>4, UserIs
      <3>2. f.kind = "irq" /\ f.ctx = cpu
        OBVIOUS
      <3> HIDE DEF f, n
      <3>3. /\ n + 1 \in 1 .. Len(Entered) /\ Entered[n + 1].kind = "irq"
            /\ \A j \in 1 .. (n + 1) - 1 : Entered[j].kind # "irq"
        BY <1>1, <2>2, <2>4, <3>2 DEF n
      <3>4. UserOf(Entered, AtBoundary) = Entered[n + 1].ctx
        BY <1>1, <3>3, UserIs
      <3> QED
        BY <2>2, <3>1, <3>2, <3>4
    <2> QED
      BY <2>3, <2>4
  <1> QED
    BY <1>3, <1>4

\* The return from the outermost hardware interrupt restores the interrupted program.
LEMMA ReturnRestores ==
  ASSUME NEW x \in CpuStates, NEW c \in CpuStates, OnStack(x, c), Used(c) = Used(x) + 3,
         c.ax = x.ax, ~ c.halted
  PROVE  Scrub(InterruptReturn(Advance(c))) = [ Scrub(x) EXCEPT !.halted = FALSE ]
  <1> DEFINE m == Advance(c)
             r == InterruptReturn(m)
             w == [ x EXCEPT !.halted = FALSE ]
             u == Used(x)
  <1>1. u \in Nat /\ u < StackWords /\ StackWords \in Nat /\ x.flags \in Flags
    BY Depths DEF CpuStates
  <1>2. /\ m \in CpuStates /\ Used(m) = u + 3 /\ m.stack = c.stack /\ m.ax = x.ax
        /\ m.halted = FALSE /\ \A k : Word0(m, k) = Word0(c, k)
    BY AdvanceEffect DEF CpuStates, Word0
  <1> HIDE DEF m
  <1>3. r \in CpuStates
    BY <1>2, ReturnType
  <1>4. /\ Used(r) = Used(m) - 3 /\ r.stack = m.stack
        /\ r.flags = FromWord(Word0(m, Used(m) - 2))
        /\ r.cs = Word0(m, Used(m) - 1) /\ r.ip = Word0(m, Used(m))
        /\ r.ax = m.ax /\ r.halted = m.halted
    BY <1>1, <1>2, ReturnEffect
  <1> HIDE DEF r
  <1>5. /\ Word0(c, u + 1) = ToWord(x.flags) /\ Word0(c, u + 2) = x.cs
        /\ Word0(c, u + 3) = x.ip
        /\ Same(x, c, u)
    BY DEF OnStack, FrameOn
  <1> HIDE DEF u
  <1>6. Used(m) - 3 = u /\ Used(m) - 2 = u + 1 /\ Used(m) - 1 = u + 2 /\ Used(m) = u + 3
    BY <1>1, <1>2
  <1>7. /\ r.flags = x.flags /\ r.cs = x.cs /\ r.ip = x.ip /\ r.ax = x.ax
        /\ r.halted = FALSE
        /\ Used(r) = u /\ \A k : Word0(r, k) = Word0(c, k)
    BY <1>1, <1>2, <1>4, <1>5, <1>6, FlagsRoundTrip DEF Word0
  <1>8. r.sp = x.sp
    <2>1. r.sp \in Slots /\ x.sp \in Slots
      BY <1>3 DEF CpuStates
    <2> QED
      BY <1>1, <1>7, <2>1 DEF Used, u, Slots
  <1>9. /\ w \in CpuStates /\ w.sp = x.sp /\ w.stack = x.stack /\ w.flags = x.flags
        /\ w.cs = x.cs
        /\ w.ip = x.ip /\ w.ax = x.ax /\ w.halted = FALSE
    BY DEF CpuStates
  <1>10. Scrub(w) = [ Scrub(x) EXCEPT !.halted = FALSE ]
    <2>1. \A s \in Slots : Live(w, s) = Live(x, s)
      BY <1>9 DEF Live
    <2> QED
      BY <1>9, <2>1 DEF Scrub, CpuStates
  <1> HIDE DEF w
  <1>11. Alike(w, r)
    <2>1. Used(w) = u /\ \A k : Word0(w, k) = Word0(x, k)
      BY <1>9 DEF Used, Word0, u
    <2> QED
      BY <1>3, <1>5, <1>7, <1>8, <1>9, <2>1 DEF Alike, OtherFields, Same
  <1> QED
    BY <1>10, <1>11, AlikeIsScrubEqual DEF r, m

\* A step of the machine is a step of the interrupted program, or nothing to it, or the
\* end of its HLT.
LEMMA UserStepped ==
  ASSUME TypeOK, TypeOK', Stacked(frames, cpu), Step, StepBehaves
  PROVE  Precise!Next \/ Scrub(UserCpu)' = Scrub(UserCpu)
  <1> DEFINE top == Entered[Len(Entered)]
             n == Len(Entered)
  <1>1. PICK c \in CpuStates, i \in Instructions :
          c = AtBoundary /\ i = Fetch(AtBoundary) /\ (i.op = "INT" => i.arg \in Byte)
    BY BoundaryType DEF Step
  <1>2. Entered \in Seq(Frame) /\ Stacked(Entered, c) /\ n \in Nat
    BY <1>1, EnteredStacked DEF StepBehaves
  <1>3. PICK input \in IF i.op = "IN" THEN Byte ELSE {0} : cpu' = Execute(c, i, input)
    BY <1>1, InputIsByte DEF Step
  <1>4. input \in Byte
    BY <1>3, ByteRange
  <1>5. frames' = FramesAfter(i) /\ ~ c.halted /\ Address(c) \in DOMAIN Program
    BY <1>1 DEF Step
  <1>6. frames' \in Seq(Frame)
    BY DEF TypeOK
  <1>7. UserOf(Entered, c) = UserCpu /\ UserCpu' = UserOf(frames', cpu')
    BY <1>1, UserEntered DEF UserCpu, UserOf
  <1>8. \/ Traps(i) /\ frames' = Append(Entered, [ kind |-> "soft", ctx |-> Advance(c) ])
        \/ ~ Traps(i) /\ i.op = "IRET" /\ Entered # << >> /\ frames' = SubSeq(Entered, 1, n - 1)
        \/ ~ Traps(i) /\ ~ (i.op = "IRET" /\ Entered # << >>) /\ frames' = Entered
    <2>1. Traps(i) => i.op # "IRET"
      BY DEF Traps
    <2>2. CASE Traps(i)
      BY <1>1, <1>5, <2>1, <2>2 DEF FramesAfter
    <2>3. CASE ~ Traps(i)
      BY <1>5, <2>3 DEF FramesAfter
    <2> QED
      BY <2>2, <2>3
  <1> HIDE DEF n, top
  <1>9. \/ i.op = "IRET" /\ Entered # << >> /\ n >= 1 /\ Len(frames') = n - 1
           /\ \A k \in 1 .. n - 1 : frames'[k] = Entered[k]
        \/ Len(frames') \in {n, n + 1} /\ (\A k \in 1 .. n : frames'[k] = Entered[k])
           /\ (Len(frames') = n + 1 => frames'[n + 1].kind = "soft")
    <2>1. CASE Traps(i)
      BY <1>2, <1>8, <2>1 DEF n
    <2>2. CASE ~ Traps(i) /\ i.op = "IRET" /\ Entered # << >>
      <3>1. n >= 1
        BY <1>2, <2>2 DEF n
      <3> QED
        BY <1>2, <1>8, <2>2, <3>1, StackedPopped DEF n
    <2>3. CASE ~ Traps(i) /\ ~ (i.op = "IRET" /\ Entered # << >>)
      BY <1>2, <1>8, <2>3 DEF n
    <2> QED
      BY <2>1, <2>2, <2>3
  <1>10. CASE \A k \in 1 .. n : Entered[k].kind # "irq"
    <2>1. UserCpu = c /\ c = cpu
      <3>1. UserOf(Entered, c) = c
        BY <1>2, <1>10, UserIs DEF n
      <3>2. ~ Deliverable
        <4>1. ASSUME Deliverable PROVE FALSE
          <5>1. Entered = Append(frames, [ kind |-> "irq", ctx |-> cpu ]) /\ frames \in Seq(Frame)
            BY <4>1 DEF Entered, TypeOK
          <5>2. n \in 1 .. n /\ Entered[n].kind = "irq"
            BY <5>1 DEF n
          <5> QED
            BY <1>10, <5>2
        <4> QED
          BY <4>1
      <3> QED
        BY <1>1, <1>7, <3>1, <3>2 DEF AtBoundary
    <2>2. UserCpu' = cpu'
      <3>1. \A k \in 1 .. Len(frames') : frames'[k].kind # "irq"
        BY <1>2, <1>9, <1>10
      <3> QED
        BY <1>6, <1>7, <3>1, UserIs
    <2>3. Pops(i) <= Used(c) /\ Used(c) + Pushes(i) < StackWords
      <3>1. Used(c) \in Nat /\ Pops(i) \in Nat
        BY Depths DEF CpuStates, Pops
      <3>2. CASE Entered = << >>
        BY <1>1, <3>2 DEF StepBehaves
      <3>3. CASE Entered # << >>
        <4>1. Used(top.ctx) \in Nat
          BY <1>2, <3>3, StackedTop, FrameTypes DEF top
        <4>2. i.op = "IRET" => Pops(i) = 3
          BY DEF Pops
        <4> QED
          BY <1>1, <3>1, <3>3, <4>1, <4>2 DEF StepBehaves, top
      <3> QED
        BY <1>1, <3>2, <3>3 DEF StepBehaves
    <2>4. Scrub(cpu') = Scrub(Execute(Scrub(c), i, input))
      BY <1>1, <1>3, <1>4, <2>3, ScrubCommutes
    <2>5. Scrub(c).halted = c.halted /\ Address(Scrub(c)) = Address(c) /\ Fetch(Scrub(c)) = i
      BY <1>1 DEF Scrub, Address, Fetch, CpuStates
    <2>6. Precise!UserStep
      <3>1. UserCpu = c /\ Scrub(UserCpu)' = Scrub(cpu')
        BY <2>1, <2>2
      <3>2. ~ Scrub(c).halted /\ Address(Scrub(c)) \in DOMAIN Program
        BY <1>5, <2>5
      <3>3. Precise!Byte = Byte
        BY DEF Precise!Byte, Byte, Precise!MaxByte, MaxByte
      <3>4. input \in IF Fetch(Scrub(c)).op = "IN" THEN Byte ELSE {0}
        BY <1>3, <2>5
      <3>5. Scrub(cpu') = Scrub(Execute(Scrub(c), Fetch(Scrub(c)), input))
        BY <2>4, <2>5
      <3> QED
        BY <3>1, <3>2, <3>3, <3>4, <3>5, SameCpu DEF Precise!UserStep
    <2> QED
      BY <2>6 DEF Precise!Next
  <1>11. CASE \E k \in 1 .. n : Entered[k].kind = "irq" /\ k <= Len(frames')
    <2>1. PICK k \in 1 .. n : Entered[k].kind = "irq" /\ k <= Len(frames')
      BY <1>11
    <2>2. \A j \in 1 .. k : frames'[j] = Entered[j]
      BY <1>2, <1>9, <2>1
    <2>3. UserOf(frames', cpu') = UserOf(Entered, c)
      BY <1>2, <1>6, <2>1, <2>2, UserKept DEF n
    <2> QED
      BY <1>7, <2>3
  <1>12. CASE /\ \E k \in 1 .. n : Entered[k].kind = "irq"
              /\ \A k \in 1 .. n : k <= Len(frames') => Entered[k].kind # "irq"
    <2>1. /\ i.op = "IRET" /\ Entered # << >> /\ n >= 1 /\ Len(frames') = n - 1
          /\ \A k \in 1 .. n - 1 : frames'[k] = Entered[k]
      BY <1>2, <1>9, <1>12
    <2>2. n \in 1 .. n /\ Entered[n].kind = "irq" /\ \A k \in 1 .. n - 1 : Entered[k].kind # "irq"
      BY <1>2, <1>12, <2>1
    <2>3. UserCpu = top.ctx /\ UserCpu' = cpu'
      <3>1. UserOf(Entered, c) = Entered[n].ctx
        BY <1>2, <2>2, UserIs DEF n
      <3>2. UserOf(frames', cpu') = cpu'
        BY <1>6, <2>1, <2>2, UserIs
      <3> QED
        BY <1>7, <3>1, <3>2 DEF top, n
    <2>4. top.ctx \in CpuStates /\ OnStack(top.ctx, c)
      BY <1>2, <2>1, StackedTop DEF top
    <2>5. Used(c) = Used(top.ctx) + 3 /\ c.ax = top.ctx.ax
      BY <1>1, <2>1, <2>2 DEF StepBehaves, top, n
    <2>6. cpu' = InterruptReturn(Advance(c))
      BY <1>3, <2>1 DEF Execute
    <2>7. Scrub(cpu') = [ Scrub(top.ctx) EXCEPT !.halted = FALSE ]
      BY <1>5, <2>4, <2>5, <2>6, ReturnRestores
    <2>8. Scrub(top.ctx).halted \in BOOLEAN
          /\ (Scrub(top.ctx).halted = FALSE
               => [ Scrub(top.ctx) EXCEPT !.halted = FALSE ] = Scrub(top.ctx))
      <3>1. Scrub(top.ctx) \in CpuStates
        BY <2>4, AlikeScrubbed DEF Alike
      <3> QED
        BY <3>1 DEF CpuStates
    <2> QED
      BY <2>3, <2>7, <2>8, SameCpu DEF Precise!Next, Precise!WakeUp
  <1> QED
    BY <1>10, <1>11, <1>12

\* Hardware interrupts are invisible to the program they interrupt, for every program and
\* vector table with which the handlers give back what they use, every stack and every
\* order of events, however deep deliveries nest (Machine::step, service_interrupt and
\* IRET together): the machine implements PreciseInterrupts.
THEOREM InterruptsAreInvisible == Spec /\ KeepsItsStack => Transparent
  <1>1. Init => Precise!Init
    <2> SUFFICES ASSUME Init PROVE Precise!Init
      OBVIOUS
    <2>1. UserCpu = Reset
      <3>1. frames = << >> /\ cpu = Reset
        BY DEF Init
      <3>2. { k \in 1 .. Len(frames) : frames[k].kind = "irq" } = {}
        BY <3>1
      <3> QED
        BY <3>1, <3>2 DEF UserCpu
    <2>2. Scrub(Reset) = Reset
      <3> DEFINE none == [ s \in Slots |-> 0 ]
      <3>1. Reset.sp = 0 /\ Reset.stack = none
        BY DEF Reset
      <3>2. [ s \in Slots |-> IF Live(Reset, s) THEN Reset.stack[s] ELSE 0 ] = none
        BY <3>1 DEF Live
      <3>3. Scrub(Reset) = [ Reset EXCEPT !.stack = none ]
        BY <3>2 DEF Scrub
      <3> HIDE DEF none
      <3>4. \A c \in CpuStates : c.stack = none => [ c EXCEPT !.stack = none ] = c
        BY DEF CpuStates
      <3> QED
        BY <3>1, <3>3, <3>4, ResetType
    <2> QED
      BY <2>1, <2>2, SameCpu DEF Precise!Init
  <1>2. /\ TypeOK /\ TypeOK' /\ Stacked(frames, cpu)
        /\ [Next]_vars /\ [Step => StepBehaves]_vars
        => [Precise!Next]_(Scrub(UserCpu))
    <2> SUFFICES ASSUME TypeOK, TypeOK', Stacked(frames, cpu), [Next]_vars,
                        [Step => StepBehaves]_vars
                 PROVE  Precise!Next \/ Scrub(UserCpu)' = Scrub(UserCpu)
      BY SameCpu
    <2>1. CASE Step /\ StepBehaves
      BY <2>1, UserStepped
    <2>2. CASE ~ (Step /\ StepBehaves)
      <3>1. UNCHANGED << cpu, frames >>
        BY <2>2
           DEF Next, StepHalted, vars, SourceRaise, SourceLower, SignalTxReady, SignalRxReady,
                    HostSetEnable, Environment
      <3>2. UserCpu' = UserCpu
        BY <3>1 DEF UserCpu
      <3> QED
        BY <3>2
    <2> QED
      BY <2>1, <2>2
  <1> QED
    BY <1>1, <1>2, MachineTypes, StackedAlways, PTL
       DEF Spec, KeepsItsStack, Transparent, Precise!Spec
=====================================================================================
