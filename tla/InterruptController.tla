--------------------------- MODULE InterruptController ---------------------------
(***********************************************************************************)
(* The interrupt controller (core-ws/src/interrupt.rs): eight lines that share the *)
(* base, enable, status and acknowledge registers. The controller is a value, as   *)
(* it is a struct in the source; each method of the struct is an operator from the *)
(* controller to the controller it leaves behind. A register mask is the set of    *)
(* the lines whose bit it sets; LinesOf reads a byte written to a port as such a   *)
(* set.                                                                            *)
(***********************************************************************************)
EXTENDS Flags

\* A line is its bit position, which is also its priority: higher wins.
SerialTx    == 0
Keypad      == 1
Cartridge   == 2
SerialRx    == 3
LineCompare == 4
VblankTimer == 5
Vblank      == 6
HblankTimer == 7

Irq == 0 .. 7

\* Level lines follow their source; edge lines are latched until acknowledged.
LevelLines == { SerialTx, Cartridge, SerialRx }
\* Mutation of EdgeLines: the edge mask leaves out the line-compare line.
EdgeLinesShort == { Keypad, VblankTimer, Vblank, HblankTimer }
EdgeLines  == { Keypad, LineCompare, VblankTimer, Vblank, HblankTimer }

Controller == [ base : Byte, enable : SUBSET Irq, pending : SUBSET Irq ]

NewController == [ base |-> 0, enable |-> {}, pending |-> {} ]

\* The lines whose bits a register byte sets.
LinesOf(byte) == { l \in Irq : (byte \div 2^l) % 2 = 1 }

SetBase(ic, byte)   == [ ic EXCEPT !.base = byte ]
SetEnable(ic, mask) == [ ic EXCEPT !.enable = mask ]

\* Mutation of Raise: the line's bit latched as if it were its number.
RaiseBit(ic, line) ==
  IF line \in ic.enable THEN [ ic EXCEPT !.pending = @ \union {2^line} ] ELSE ic

\* A source asserts its line: latched only while the line is enabled.
Raise(ic, line) ==
  IF line \in ic.enable THEN [ ic EXCEPT !.pending = @ \union {line} ] ELSE ic

\* Mutation of Lower: it clears lines of either kind.
LowerAny(ic, line) == [ ic EXCEPT !.pending = @ \ {line} ]

\* The condition of a level source cleared: no effect on an edge line.
Lower(ic, line) ==
  IF line \in LevelLines THEN [ ic EXCEPT !.pending = @ \ {line} ] ELSE ic

\* Mutation of Acknowledge: level lines are cleared too.
AcknowledgeAny(ic, mask) == [ ic EXCEPT !.pending = @ \ mask ]

\* A write of the acknowledge register clears the edge lines it names, only those.
Acknowledge(ic, mask) == [ ic EXCEPT !.pending = @ \ (mask \intersect EdgeLines) ]

Active(ic) == ic.pending \intersect ic.enable

\* pending_enabled() is Some(Highest(ic)) if PendingEnabled(ic), or else None.
PendingEnabled(ic) == Active(ic) # {}

Highest(ic) == CHOOSE l \in Active(ic) : \A m \in Active(ic) : m <= l

\* The high five bits of the base with the line in the low three.
Vector(ic, line) == (ic.base - (ic.base % 8)) + line
=====================================================================================
