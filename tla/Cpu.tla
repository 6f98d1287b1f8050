------------------------------------ MODULE Cpu ------------------------------------
(***********************************************************************************)
(* The V30MZ core as far as interrupts, the stack and port I/O go                  *)
(* (cpu-v30mz/src/exec.rs). A CPU is a record; an instruction is an operator from  *)
(* the CPU to the CPU it leaves behind.                                            *)
(*                                                                                 *)
(* Abstractions. An instruction occupies one unit of its segment, whatever its     *)
(* encoded length. The stack segment is an array of StackWords word slots that SP  *)
(* indexes and wraps in, as SP wraps in its segment. Only AX and the flags are     *)
(* kept of the data registers: they are what a handler can spoil.                  *)
(***********************************************************************************)
EXTENDS Flags, FiniteSets

CONSTANTS
  StackWords,   \* The word slots of the stack segment.
  Program,      \* The program: a function from <<cs, ip>> to an instruction.
  Ivt           \* The interrupt vector table: vector number to <<cs, ip>>.

Ops == { "NOP", "MOVAX", "PUSHAX", "POPAX", "PUSHF", "POPF", "CLI", "STI", "HLT",
         "JMP", "INT", "INTO", "IRET", "IN", "OUT", "OUTW" }

Instructions == [ op : Ops, arg : Word ]

ASSUME StackAssumption == StackWords \in Nat \ {0, 1, 2}
ASSUME ProgramAssumption ==
  /\ DOMAIN Program \subseteq Word \X Word
  /\ \A a \in DOMAIN Program :
       /\ Program[a] \in Instructions
       /\ Program[a].op = "INT" => Program[a].arg \in Byte
ASSUME IvtAssumption == Ivt \in [ Byte -> Word \X Word ]

Slots == 0 .. StackWords - 1

CpuStates == [ cs : Word, ip : Word, flags : Flags, ax : Word, sp : Slots,
               stack : [ Slots -> Word ], halted : BOOLEAN ]

\* The hard-reset state: CS:IP = FFFF:0000, everything else zero.
Reset == [ cs |-> 65535, ip |-> 0, flags |-> {}, ax |-> 0, sp |-> 0,
           stack |-> [ s \in Slots |-> 0 ], halted |-> FALSE ]

Address(c) == << c.cs, c.ip >>
Fetch(c)   == Program[Address(c)]

\* c with IP past the instruction it fetched, wrapping in the code segment.
Advance(c) == [ c EXCEPT !.ip = (@ + 1) % 65536 ]

Al(c) == c.ax % 256
Ah(c) == c.ax \div 256

---------------------------------------------------------------------------------
(* The stack.                                                                     *)

\* The slot n words below the stack top, and n words above it, SP wrapping.
\* Mutation of Below: SP does not wrap.
BelowNoWrap(sp, n) == sp - n

Below(sp, n) == IF n <= sp THEN sp - n ELSE sp + StackWords - n
Above(sp, n) == IF sp + n < StackWords THEN sp + n ELSE sp + n - StackWords

Push(c, w) ==
  [ c EXCEPT !.sp = Below(@, 1), !.stack = [ @ EXCEPT ![Below(c.sp, 1)] = w ] ]

\* The nth word from the top, counting from 0, and c after n words are popped.
Peek(c, n) == c.stack[Above(c.sp, n)]
Drop(c, n) == [ c EXCEPT !.sp = Above(@, n) ]

\* The stack grows down from slot 0, which it wraps at: what lies below SP holds
\* nothing a program may rely on. Scrub forgets it.
Live(c, slot) == c.sp # 0 /\ slot >= c.sp
Scrub(c) == [ c EXCEPT !.stack = [ s \in Slots |-> IF Live(c, s) THEN @[s] ELSE 0 ] ]

\* How many words are live.
Used(c) == IF c.sp = 0 THEN 0 ELSE StackWords - c.sp

---------------------------------------------------------------------------------
(* Interrupt entry and return.                                                    *)

\* Mutation of Framed: CS and IP are pushed in the other order.
FramedSwapped(c) == Push(Push(Push(c, ToWord(c.flags)), c.ip), c.cs)

\* Mutation of Framed: the frame of a far call, without FLAGS.
FramedShort(c) == Push(Push(c, c.cs), c.ip)

\* c with the return frame on its stack: FLAGS, then CS, then IP.
Framed(c) == Push(Push(Push(c, ToWord(c.flags)), c.cs), c.ip)

\* Mutations of ServiceInterrupt: IF survives; the CPU stays halted.
ServiceKeepsIf(c, vector) ==
  [ Framed(c) EXCEPT !.flags = @ \ { "trap" }, !.cs = Ivt[vector][1],
                     !.ip = Ivt[vector][2], !.halted = FALSE ]
ServiceStaysHalted(c, vector) ==
  [ Framed(c) EXCEPT !.flags = @ \ { "interrupt", "trap" }, !.cs = Ivt[vector][1],
                     !.ip = Ivt[vector][2] ]

\* Push the frame, clear IF and TF, enter the handler of the vector, leave the halted
\* state.
ServiceInterrupt(c, vector) ==
  [ Framed(c) EXCEPT !.flags = @ \ { "interrupt", "trap" }, !.cs = Ivt[vector][1],
                     !.ip = Ivt[vector][2], !.halted = FALSE ]

\* Mutation of InterruptReturn: the popped FLAGS are dropped.
ReturnKeepsFlags(c) == [ Drop(c, 3) EXCEPT !.ip = Peek(c, 0), !.cs = Peek(c, 1) ]

\* Pop IP, then CS, then FLAGS.
InterruptReturn(c) ==
  [ Drop(c, 3) EXCEPT !.ip = Peek(c, 0), !.cs = Peek(c, 1), !.flags = FromWord(Peek(c, 2)) ]

---------------------------------------------------------------------------------
(* The instructions. The CPU they are given has IP past the instruction.          *)

SetAl(c, byte) == [ c EXCEPT !.ax = 256 * (@ \div 256) + byte ]

\* c after it fetches and executes instruction i; input is the byte a port read
\* returns. The effect of a port write is the machine's.
Execute(c, i, input) ==
  LET n == Advance(c)
  IN  CASE i.op \in {"NOP", "OUT", "OUTW"} -> n
        [] i.op = "MOVAX"  -> [ n EXCEPT !.ax = i.arg ]
        [] i.op = "IN"     -> SetAl(n, input)
        [] i.op = "PUSHAX" -> Push(n, n.ax)
        [] i.op = "POPAX"  -> [ Drop(n, 1) EXCEPT !.ax = Peek(n, 0) ]
        [] i.op = "PUSHF"  -> Push(n, ToWord(n.flags))
        [] i.op = "POPF"   -> [ Drop(n, 1) EXCEPT !.flags = FromWord(Peek(n, 0)) ]
        [] i.op = "CLI"    -> [ n EXCEPT !.flags = @ \ {"interrupt"} ]
        [] i.op = "STI"    -> [ n EXCEPT !.flags = @ \union {"interrupt"} ]
        [] i.op = "HLT"    -> [ n EXCEPT !.halted = TRUE ]
        [] i.op = "JMP"    -> [ n EXCEPT !.ip = i.arg ]
        [] i.op = "INT"    -> ServiceInterrupt(n, i.arg)
        [] i.op = "INTO"   -> IF "overflow" \in n.flags THEN ServiceInterrupt(n, 4) ELSE n
        [] i.op = "IRET"   -> InterruptReturn(n)
=====================================================================================
