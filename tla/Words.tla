----------------------------------- MODULE Words -----------------------------------
(***********************************************************************************)
(* Bytes and 16-bit words, their halves and bits, and zero-filled byte arrays. A   *)
(* Vec<u8> is kept as the part of it that was written: a function from the offsets *)
(* written to their bytes.                                                         *)
(***********************************************************************************)
EXTENDS Integers

MaxByte == 255
MaxWord == 65535

Byte == 0 .. MaxByte
Word == 0 .. MaxWord

LowByte(w)  == w % 256
HighByte(w) == w \div 256

\* w with one of its halves replaced.
WithLow(w, b)  == 256 * HighByte(w) + b
WithHigh(w, b) == 256 * b + LowByte(w)

BitSet(b, n) == (b \div 2^n) % 2 = 1

\* b with bit n set.
SetBit(b, n) == IF BitSet(b, n) THEN b ELSE b + 2^n

\* A new array, the byte at an offset, the array after a byte was stored.
Zeroed == [ x \in {} |-> 0 ]
At(array, offset) == IF offset \in DOMAIN array THEN array[offset] ELSE 0
Put(array, offset, b) ==
  [ x \in DOMAIN array \union {offset} |-> IF x = offset THEN b ELSE array[x] ]
=====================================================================================
