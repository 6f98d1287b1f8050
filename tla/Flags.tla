---------------------------------- MODULE Flags ----------------------------------
(***********************************************************************************)
(* The processor status flags of the V30MZ and the 16-bit word PUSHF, IRET and     *)
(* interrupt entry exchange with the stack (cpu-v30mz/src/registers.rs).           *)
(* The nine Booleans of the source are the set of the flags that are set; a word   *)
(* is a natural number below 2^16, because the reserved and mode bits of the word  *)
(* are observable on the stack while the register does not hold them.              *)
(***********************************************************************************)
EXTENDS Words

FlagNames == { "carry", "parity", "aux_carry", "zero", "sign", "trap", "interrupt",
               "direction", "overflow" }

Flags == SUBSET FlagNames

\* The bit each flag occupies in the FLAGS word.
FlagMask == [ carry |-> 1, parity |-> 4, aux_carry |-> 16, zero |-> 64, sign |-> 128,
              trap |-> 256, interrupt |-> 512, direction |-> 1024, overflow |-> 2048 ]

\* Reserved bit 1 and bits 12-15 read 1 in native mode.
AlwaysOne == 61442

Bit(f, name) == IF name \in f THEN 1 ELSE 0

\* The word with the bits of f and the always-1 bits.
ToWord(f) ==
  AlwaysOne + Bit(f, "carry") + 4 * Bit(f, "parity") + 16 * Bit(f, "aux_carry")
            + 64 * Bit(f, "zero") + 128 * Bit(f, "sign") + 256 * Bit(f, "trap")
            + 512 * Bit(f, "interrupt") + 1024 * Bit(f, "direction")
            + 2048 * Bit(f, "overflow")

\* The flags a word names; its reserved and mode bits are ignored.
FromWord(w) == { n \in FlagNames : (w \div FlagMask[n]) % 2 = 1 }
=====================================================================================
