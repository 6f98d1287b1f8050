--------------------------------- MODULE MCMachine ---------------------------------
(***********************************************************************************)
(* A program for the machine: it relocates the vector base with dirty low bits,    *)
(* switches the serial port on, raises a software interrupt and waits in HLT, for  *)
(* ever. Its handlers save what they use. The handler of Vblank acknowledges with  *)
(* a word write to the port before the acknowledge register and re-enables         *)
(* interrupts before it returns, so that lines of any priority nest in it; the     *)
(* one of LineCompare keeps them disabled; the one of SerialTx resolves its source *)
(* by switching the port off. The software interrupt loads a FLAGS word of its     *)
(* own, which makes INTO trap.                                                     *)
(***********************************************************************************)
EXTENDS Machine, TLC

I(op, arg) == [ op |-> op, arg |-> arg ]
Do(op) == I(op, 0)

\* Code segments: the reset segment, one per handler.
Main    == 65535
OnVblank == 2
OnLine  == 3
OnSoft  == 4
OnTx    == 5
OnInto  == 6

Code == [
  main   |-> << I("MOVAX", 37), I("OUT", 176),
                I("MOVAX", 128), I("OUT", 179), Do("STI"),
                I("INT", 3), Do("HLT"), I("JMP", 2) >>,
  vblank |-> << Do("PUSHAX"), I("MOVAX", 16384), I("OUTW", 181), Do("STI"),
                Do("POPAX"), Do("IRET") >>,
  line   |-> << Do("PUSHF"), Do("PUSHAX"), I("MOVAX", 16), I("OUT", 182),
                Do("POPAX"), Do("POPF"), Do("IRET") >>,
  soft   |-> << I("MOVAX", 2560), Do("PUSHAX"), Do("POPF"), I("IN", 179), Do("CLI"),
                Do("INTO"), Do("IRET") >>,
  tx     |-> << Do("PUSHAX"), I("MOVAX", 0), I("OUT", 179), Do("POPAX"), Do("IRET") >>,
  into   |-> << Do("NOP"), Do("IRET") >> ]

SegmentCode ==
  (Main :> Code.main) @@ (OnVblank :> Code.vblank) @@ (OnLine :> Code.line)
    @@ (OnSoft :> Code.soft) @@ (OnTx :> Code.tx) @@ (OnInto :> Code.into)

MCProgram ==
  [ a \in UNION { { << s, n >> : n \in 0 .. Len(SegmentCode[s]) - 1 }
                    : s \in DOMAIN SegmentCode }
      |-> SegmentCode[a[1]][a[2] + 1] ]

\* It writes the vector base under the port's first alias.
AliasProgram ==
  << Main, 0 >> :> I("MOVAX", 37) @@ << Main, 1 >> :> I("OUT", 688) @@ << Main, 2 >> :> I("JMP", 0)

\* The hardware block starts at the base's upper bits, 32.
MCIvt == [ v \in Byte |-> CASE v = 32 + Vblank      -> << OnVblank, 0 >>
                            [] v = 32 + LineCompare -> << OnLine, 0 >>
                            [] v = 32 + SerialTx    -> << OnTx, 0 >>
                            [] v = 3                -> << OnSoft, 0 >>
                            [] v = 4                -> << OnInto, 0 >>
                            [] OTHER                -> << 0, 0 >> ]

MCSources == { LineCompare, Vblank }
MCMasks   == { {}, { SerialTx, LineCompare, Vblank } }
=====================================================================================
