---------------------------------- MODULE RomFormat ----------------------------------
(***********************************************************************************)
(* The cartridge image (crates/format-ws/src): the bounds of its length, the       *)
(* footer of 16 bytes at its end, and the checksum. An image is its length and the *)
(* bytes of it that are not zero. The fields of the footer that nothing in the     *)
(* core reads (maintenance, publisher, system, game, version, orientation, ROM     *)
(* speed, clock) are left out.                                                     *)
(***********************************************************************************)
EXTENDS Words, Sequences

LOCAL INSTANCE FiniteSetsExt

HeaderLen == 16
MaxRomLen == 67108864

\* RomImage::parse accepts a length or refuses it with one of its two errors.
Parse(image) ==
  CASE image.len < HeaderLen -> "TooSmall"
    [] image.len > MaxRomLen -> "TooLarge"
    [] OTHER                 -> "Ok"

Footer(image, offset) == At(image.bytes, image.len - HeaderLen + offset)

\* A little-endian word of the footer.
FooterWord(image, offset) == Footer(image, offset) + 256 * Footer(image, offset + 1)

---------------------------------------------------------------------------------
(* The fields at their offsets. A code no source documents has an answer of its own. *)

NoEntry == [ kind |-> "none" ]

FarPointer(segment, offset) == [ kind |-> "far", segment |-> segment, offset |-> offset ]

\* Mutation of BootEntry: segment and offset change places.
BootEntrySwapped(image) ==
  IF Footer(image, 0) = \hEA THEN FarPointer(FooterWord(image, 1), FooterWord(image, 3)) ELSE NoEntry

\* The target of the boot jump, if the footer begins with one.
BootEntry(image) ==
  IF Footer(image, 0) = \hEA THEN FarPointer(FooterWord(image, 3), FooterWord(image, 1)) ELSE NoEntry

Unknown == -1

\* The declared capacity of the ROM by its code.
RomSizeBytes(code) ==
  LET kib == << 128, 256, 512, 1024, 2048, 3072, 4096, 6144, 8192, 16384, 32768, 65536 >>
  IN  IF code < Len(kib) THEN 1024 * kib[code + 1] ELSE Unknown

\* Mutation of SaveKind: the largest of the SRAM codes is forgotten.
SaveKindFour(code) ==
  CASE code = 0                     -> "none"
    [] code \in 1 .. 4              -> "sram"
    [] code \in {\h10, \h20, \h50}  -> "eeprom"
    [] OTHER                        -> "unknown"

\* The backing store of the save memory by its code, and its capacity.
SaveKind(code) ==
  CASE code = 0                     -> "none"
    [] code \in 1 .. 5              -> "sram"
    [] code \in {\h10, \h20, \h50}  -> "eeprom"
    [] OTHER                        -> "unknown"

SaveBytes(code) ==
  CASE code = 0         -> 0
    [] code \in {1, 2}  -> 32768
    [] code \in 3 .. 5  -> 131072 * 2^(code - 3)
    [] code = \h10      -> 128
    [] code = \h20      -> 2048
    [] code = \h50      -> 1024
    [] OTHER            -> Unknown

SaveType(image)  == Footer(image, 11)
Bus16(image)     == BitSet(Footer(image, 12), 2)
Is2003(image)    == Footer(image, 13) % 16 = 1

---------------------------------------------------------------------------------
(* The checksum, informational: nothing refuses an image whose checksum is wrong.   *)

StoredChecksum(image) == FooterWord(image, 14)

\* Mutation of ComputedChecksum: the whole footer is left out.
ComputedChecksumBody(image) ==
  MapThenSumSet(LAMBDA o : image.bytes[o], { o \in DOMAIN image.bytes : o < image.len - HeaderLen }) % 65536

\* The sum of all bytes but the two of the checksum itself.
ComputedChecksum(image) ==
  MapThenSumSet(LAMBDA o : image.bytes[o], { o \in DOMAIN image.bytes : o < image.len - 2 }) % 65536

ChecksumValid(image) == StoredChecksum(image) = ComputedChecksum(image)
=====================================================================================
