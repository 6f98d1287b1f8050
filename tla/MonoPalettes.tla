-------------------------------- MODULE MonoPalettes --------------------------------
(***********************************************************************************)
(* The two-stage palette of the monochrome display (core-ws/src/palette.rs): a     *)
(* pool of eight shades, and sixteen palettes of four colours that are indices in  *)
(* the pool. A register byte holds two entries.                                    *)
(***********************************************************************************)
EXTENDS Words

NewPalettes == [ pool     |-> [ k \in 0 .. 7 |-> 0 ],
                 palettes |-> [ k \in 0 .. 15 |-> [ c \in 0 .. 3 |-> 0 ] ] ]

WritePool(p, reg, b) ==
  [ p EXCEPT !.pool[2 * reg] = b % 16, !.pool[2 * reg + 1] = b \div 16 ]

ReadPool(p, reg) == p.pool[2 * reg] + 16 * p.pool[2 * reg + 1]

\* The palette a register belongs to, and the first of the two colours it holds.
PaletteOf(reg) == reg \div 2
ColourOf(reg)  == 2 * (reg % 2)

\* Mutation of Protected: palettes 8 to 15 are protected in place of 4-7 and 12-15.
ProtectedHalf(reg) == ColourOf(reg) = 0 /\ BitSet(PaletteOf(reg), 3)

\* The register whose first colour is the transparency colour and cannot be written.
Protected(reg) == ColourOf(reg) = 0 /\ BitSet(PaletteOf(reg), 2)

\* Mutation of WithRegister: the index is not cut to the size of the pool.
WithRegisterWide(colours, reg, b) ==
  [ colours EXCEPT ![ColourOf(reg)]     = IF Protected(reg) THEN @ ELSE b % 8,
                   ![ColourOf(reg) + 1] = b \div 16 ]

\* The colours of a palette after byte b is written to one of its registers.
WithRegister(colours, reg, b) ==
  [ colours EXCEPT ![ColourOf(reg)]     = IF Protected(reg) THEN @ ELSE b % 8,
                   ![ColourOf(reg) + 1] = (b \div 16) % 8 ]

WritePalette(p, reg, b) ==
  [ p EXCEPT !.palettes[PaletteOf(reg)] = WithRegister(@, reg, b) ]

ReadPalette(p, reg) ==
  p.palettes[PaletteOf(reg)][ColourOf(reg)] + 16 * p.palettes[PaletteOf(reg)][ColourOf(reg) + 1]

\* Whether colour 0 is transparent, for tiles of two or four bits per pixel.
ColorZeroTransparent(twoBpp, palette, asBackColor) ==
  ~asBackColor /\ (twoBpp => BitSet(palette, 2))
=====================================================================================
