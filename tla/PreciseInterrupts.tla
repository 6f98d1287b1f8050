----------------------------- MODULE PreciseInterrupts -----------------------------
(***********************************************************************************)
(* What hardware interrupts promise the program they interrupt: nothing happens to *)
(* it. The program runs on a CPU of its own that no hardware interrupt ever        *)
(* reaches; the only trace an interrupt leaves is that a halted program goes on    *)
(* with the instruction after HLT. The bytes it reads from ports are unconstrained.*)
(***********************************************************************************)
EXTENDS Cpu

VARIABLE user   \* The CPU as the interrupted program sees it.

Init == user = Reset

\* One instruction of the program, alone on its CPU.
UserStep ==
  /\ ~user.halted
  /\ Address(user) \in DOMAIN Program
  /\ \E input \in IF Fetch(user).op = "IN" THEN Byte ELSE {0} :
       user' = Scrub(Execute(user, Fetch(user), input))

\* Some interrupt was serviced while the program was halted.
WakeUp ==
  /\ user.halted
  /\ user' = [ user EXCEPT !.halted = FALSE ]

Next == UserStep \/ WakeUp

Spec == Init /\ [][Next]_user
=====================================================================================
