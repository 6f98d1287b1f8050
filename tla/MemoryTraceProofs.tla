----------------------------- MODULE MemoryTraceProofs ------------------------------
(***********************************************************************************)
(* Theorems about the memory map, for every set of models, cartridges, addresses,  *)
(* ports and bytes, and about what the CPU reads back of it, for every program and *)
(* record of any length. The inductive invariant of the second part says of every  *)
(* cell of the three stores and of every register, whether the present bank and    *)
(* address show it or not, what the record says was stored there last.             *)
(***********************************************************************************)
EXTENDS MemoryTrace, CommonLemmas, TLAPS

\* A cartridge has a footer's length at least.
LEMMA CartFacts ==
  ASSUME cart \in Carts, cart # NoCart
  PROVE  cart.romLen \in Nat /\ cart.romLen >= 16 /\ cart.sramLen \in Nat /\ cart.is2003 \in BOOLEAN
  BY CartsAssumption DEF Cartridges

\* Putting a byte at an offset of a store keeps the store.
LEMMA PutKeepsStore ==
  ASSUME NEW array, NEW length \in Nat, NEW offset \in 0 .. length - 1, NEW b \in Byte,
         Store(array, length)
  PROVE  Store(Put(array, offset, b), length)
  BY DEF Store, Put

LEMMA ZeroedIsStore == \A n \in Nat : Store(Zeroed, n)
  BY DEF Store, Zeroed

\* The halves and bits of a byte.
LEMMA ByteFacts ==
  ASSUME NEW b \in Byte
  PROVE  /\ b % 16 \in 0 .. 15 /\ b \div 16 \in 0 .. 15
         /\ b % 8 \in 0 .. 7 /\ (b \div 16) % 8 \in 0 .. 7
  BY DEF Byte, MaxByte

\* Words and the regions of the bus by their ends: no step below lists a range of
\* addresses element by element.
LEMMA WordRange == \A n : n \in Word <=> n \in Int /\ 0 <= n /\ n <= 65535
<1>1. MaxWord \in Int /\ MaxWord = 65535
  BY SMT DEF MaxWord
<1>2. MaxWord \in Int => \A n : n \in Word <=> n \in Int /\ 0 <= n /\ n <= MaxWord
  BY DEF Word
<1> QED
  BY <1>1, <1>2, SMT

LEMMA Between == \A low \in Int, high \in Int, n \in Int : n \in low .. high <=> low <= n /\ n <= high
  OBVIOUS

LEMMA RamRange == \A n \in Int : n \in RamRegion <=> 0 <= n /\ n <= 65535
<1> DEFINE high == 65535
<1>1. RamRegion = 0 .. high
  BY SMT DEF RamRegion
<1>2. high \in Int
  BY SMT
<1>3. high = 65535
  BY SMT
<1> HIDE DEF high
<1>4. \A n \in Int : n \in RamRegion <=> 0 <= n /\ n <= high
  BY <1>1, <1>2, Between
<1> QED
  BY <1>3, <1>4, SMT

LEMMA SramRange == \A n \in Int : n \in SramWindow <=> 65536 <= n /\ n <= 131071
<1> DEFINE low  == 65536
           high == 131071
<1>1. SramWindow = low .. high
  BY SMT DEF SramWindow
<1>2. low \in Int /\ high \in Int
  BY SMT
<1>3. low = 65536 /\ high = 131071
  BY SMT
<1> HIDE DEF low, high
<1>4. \A n \in Int : n \in SramWindow <=> low <= n /\ n <= high
  BY <1>1, <1>2, Between
<1> QED
  BY <1>3, <1>4, SMT

LEMMA Rom0Range == \A n \in Int : n \in Rom0Window <=> 131072 <= n /\ n <= 196607
<1> DEFINE low  == 131072
           high == 196607
<1>1. Rom0Window = low .. high
  BY SMT DEF Rom0Window
<1>2. low \in Int /\ high \in Int
  BY SMT
<1>3. low = 131072 /\ high = 196607
  BY SMT
<1> HIDE DEF low, high
<1>4. \A n \in Int : n \in Rom0Window <=> low <= n /\ n <= high
  BY <1>1, <1>2, Between
<1> QED
  BY <1>3, <1>4, SMT

LEMMA Rom1Range == \A n \in Int : n \in Rom1Window <=> 196608 <= n /\ n <= 262143
<1> DEFINE low  == 196608
           high == 262143
<1>1. Rom1Window = low .. high
  BY SMT DEF Rom1Window
<1>2. low \in Int /\ high \in Int
  BY SMT
<1>3. low = 196608 /\ high = 262143
  BY SMT
<1> HIDE DEF low, high
<1>4. \A n \in Int : n \in Rom1Window <=> low <= n /\ n <= high
  BY <1>1, <1>2, Between
<1> QED
  BY <1>3, <1>4, SMT

LEMMA HighTyped == \A w \in Word : w \div 256 \in Byte
<1> SUFFICES ASSUME NEW w \in Word PROVE w \div 256 \in Byte
  OBVIOUS
<1>1. w \in Int /\ 0 <= w /\ w <= 65535
  BY WordRange
<1>2. w \div 256 \in Int /\ 0 <= w \div 256 /\ w \div 256 <= 255
  BY <1>1, SMT
<1> QED
  BY <1>2, SMT DEF Byte, MaxByte

LEMMA LowTyped == \A w \in Word : w % 256 \in Byte
<1>1. \A w \in Int : w % 256 \in 0 .. 255
  BY SMT
<1>2. \A w \in Word : w \in Int
  BY WordRange
<1> QED
  BY <1>1, <1>2 DEF Byte, MaxByte

LEMMA Joined == \A h \in Byte, l \in Byte : 256 * h + l \in Word
<1> SUFFICES ASSUME NEW h \in Byte, NEW l \in Byte PROVE 256 * h + l \in Word
  OBVIOUS
<1>1. h \in Int /\ 0 <= h /\ h <= 255 /\ l \in Int /\ 0 <= l /\ l <= 255
  BY SMT DEF Byte, MaxByte
<1>2. 256 * h + l \in Int /\ 0 <= 256 * h + l /\ 256 * h + l <= 65535
  BY <1>1, SMT
<1> QED
  BY <1>2, WordRange

LEMMA WordHalves ==
  ASSUME NEW w \in Word, NEW b \in Byte
  PROVE  WithLow(w, b) \in Word /\ WithHigh(w, b) \in Word
  BY HighTyped, LowTyped, Joined DEF WithLow, WithHigh, LowByte, HighByte

LEMMA WordsAreNaturals == \A w \in Word : w \in Nat
  BY WordRange

---------------------------------------------------------------------------------
(* The types of the parts.                                                        *)

PalettesType == [ pool : [ 0 .. 7 -> 0 .. 15 ], palettes : [ 0 .. 15 -> [ 0 .. 3 -> 0 .. 7 ] ] ]

LEMMA PoolTyped ==
  ASSUME NEW p \in PalettesType, NEW reg \in 0 .. 3, NEW b \in Byte
  PROVE  WritePool(p, reg, b) \in PalettesType
<1>1. 2 * reg \in 0 .. 7 /\ 2 * reg + 1 \in 0 .. 7
  OBVIOUS
<1> QED
  BY <1>1, ByteFacts DEF WritePool, PalettesType

LEMMA PaletteRegisters ==
  ASSUME NEW reg \in 0 .. 31
  PROVE  PaletteOf(reg) \in 0 .. 15 /\ ColourOf(reg) \in {0, 2}
  BY DEF PaletteOf, ColourOf

LEMMA RowTyped ==
  ASSUME NEW row \in [ 0 .. 3 -> 0 .. 7 ], NEW reg \in 0 .. 31, NEW b \in Byte
  PROVE  WithRegister(row, reg, b) \in [ 0 .. 3 -> 0 .. 7 ]
<1>1. ColourOf(reg) \in 0 .. 3 /\ ColourOf(reg) + 1 \in 0 .. 3
  BY PaletteRegisters
<1> QED
  BY <1>1, ByteFacts DEF WithRegister

LEMMA PaletteTyped ==
  ASSUME NEW p \in PalettesType, NEW reg \in 0 .. 31, NEW b \in Byte
  PROVE  WritePalette(p, reg, b) \in PalettesType
<1>1. WithRegister(p.palettes[PaletteOf(reg)], reg, b) \in [ 0 .. 3 -> 0 .. 7 ]
  BY RowTyped, PaletteRegisters DEF PalettesType
<1> QED
  BY <1>1, PaletteRegisters DEF WritePalette, PalettesType

LEMMA TapTyped == \A k \in 0 .. 7 : Taps[k + 1] \in 4 .. 14
  BY DEF Taps

LEMMA SoundTyped ==
  ASSUME NEW n \in Noises, NEW b \in Byte
  PROVE  WithSoundNoise(n, b) \in Noises /\ WithSoundCtrl(n, b) \in Noises
<1>1. (b % 8) % 8 \in 0 .. 7 /\ 0 \in Lfsr
  BY DEF Byte, MaxByte, Lfsr
<1>2. Taps[((b % 8) % 8) + 1] \in 4 .. 14
  BY <1>1, TapTyped
<1> DEFINE update == BitSet(b, 4)
           enabled == BitSet(b, 3)
           waves   == ~BitSet(b, 7)
           selected == [ SetMode(n, b % 8) EXCEPT !.updateEnable = update ]
<1>3. update \in BOOLEAN /\ enabled \in BOOLEAN /\ waves \in BOOLEAN
  BY DEF BitSet
<1>4. WithSoundNoise(n, b) = IF enabled THEN ResetLfsr(selected) ELSE selected
  BY DEF WithSoundNoise
<1>5. WithSoundCtrl(n, b) = [ n EXCEPT !.channelEnable = enabled, !.waveMode = waves ]
  BY DEF WithSoundCtrl
<1> HIDE DEF update, enabled, waves
<1>6. SetMode(n, b % 8) \in Noises
  BY <1>2 DEF SetMode, Noises
<1>7. selected \in Noises
  BY <1>3, <1>6 DEF Noises
<1> HIDE DEF selected
<1>8. ResetLfsr(selected) \in Noises
  BY <1>1, <1>7 DEF ResetLfsr, Noises
<1>9. WithSoundCtrl(n, b) \in Noises
  BY <1>3, <1>5 DEF Noises
<1> QED
  BY <1>4, <1>7, <1>8, <1>9

LEMMA SystemCtrlTyped ==
  ASSUME NEW old, NEW b \in Byte
  PROVE  WithSystemCtrl(old, b) \in {0, 1, 4, 5, 8, 9, 12, 13}
<1>1. (b \div 4) % 4 \in 0 .. 3
  BY DEF Byte, MaxByte
<1> QED
  BY <1>1 DEF WithSystemCtrl

EepromType(e) ==
  /\ DOMAIN e = { "size", "store", "address", "command" }
  /\ e.size \in { WsBytes, WscBytes }
  /\ Store(e.store, e.size)
  /\ e.address \in Word
  /\ e.command \in Byte

LEMMA OffsetInStore ==
  ASSUME NEW e, EepromType(e), NEW high \in BOOLEAN
  PROVE  Offset(e, high) \in 0 .. e.size - 1
<1>1. 2 * e.address + (IF high THEN 1 ELSE 0) \in Nat
  <2>1. e.address \in Nat
    BY WordsAreNaturals DEF EepromType
  <2>2. CASE high  BY <2>1, <2>2
  <2>3. CASE ~high BY <2>1, <2>3
  <2> QED BY <2>2, <2>3
<1>2. e.size \in Nat \ {0}
  BY DEF EepromType, WsBytes, WscBytes
<1> QED
  BY <1>1, <1>2, ModBounds DEF Offset

LEMMA EepromTyped ==
  ASSUME NEW e, EepromType(e), NEW high \in BOOLEAN, NEW b \in Byte
  PROVE  /\ EepromType(WriteData(e, high, b)) /\ WriteData(e, high, b).size = e.size
         /\ EepromType(SetAddr(e, high, b))   /\ SetAddr(e, high, b).size = e.size
         /\ EepromType(SetCommand(e, b))      /\ SetCommand(e, b).size = e.size
<1>1. e.size \in Nat
  BY DEF EepromType, WsBytes, WscBytes
<1>2. Store(Put(e.store, Offset(e, high), b), e.size)
  BY <1>1, OffsetInStore, PutKeepsStore DEF EepromType
<1>3. EepromType(WriteData(e, high, b)) /\ WriteData(e, high, b).size = e.size
  BY <1>2 DEF EepromType, WriteData
<1>4. EepromType(SetAddr(e, high, b)) /\ SetAddr(e, high, b).size = e.size
  BY WordHalves DEF EepromType, SetAddr
<1>5. EepromType(SetCommand(e, b)) /\ SetCommand(e, b).size = e.size
  BY DEF EepromType, SetCommand
<1> QED
  BY <1>3, <1>4, <1>5

---------------------------------------------------------------------------------
(* Type correctness.                                                              *)

\* TypeOK with the parts' types.
LEMMA TypeParts ==
  TypeOK <=> /\ model \in Models /\ cart \in Carts
             /\ Store(ram, RamSize) /\ Store(sram, SramLen)
             /\ banks \in [ { "linear", "sram", "rom0", "rom1" } -> Byte ]
             /\ systemCtrl \in {0, 1, 4, 5, 8, 9, 12, 13}
             /\ palette \in PalettesType /\ noise \in Noises
             /\ EepromType(eeprom) /\ eeprom.size = (IF IsColor THEN WscBytes ELSE WsBytes)
  BY DEF TypeOK, PalettesType, Noises, EepromType

LEMMA Sizes ==
  ASSUME cart \in Carts
  PROVE  RamSize \in Nat \ {0} /\ SramLen \in Nat
  BY CartFacts, SMT DEF RamSize, SramLen

LEMMA LinearBankTyped ==
  ASSUME banks \in [ { "linear", "sram", "rom0", "rom1" } -> Byte ]
  PROVE  LinearBank \in 0 .. 63
  BY DEF LinearBank, Byte, MaxByte

LEMMA BankFacts ==
  ASSUME banks \in [ { "linear", "sram", "rom0", "rom1" } -> Byte ]
  PROVE  banks.sram \in Nat /\ banks.rom0 \in Nat /\ banks.rom1 \in Nat /\ LinearBank \in Nat
  BY LinearBankTyped, SMT DEF Byte

\* The regions of the bus are disjoint.
LEMMA Windows ==
  ASSUME NEW a \in Nat
  PROVE  (a \in RamRegion => a \notin SramWindow) /\ (a \in Rom0Window => a \notin Rom1Window)
<1>1. a \in RamRegion => a <= 65535
  BY RamRange, SMT
<1>2. a \in SramWindow => a >= 65536
  BY SramRange, SMT
<1>3. a \in Rom0Window => a <= 196607
  BY Rom0Range, SMT
<1>4. a \in Rom1Window => a >= 196608
  BY Rom1Range, SMT
<1> QED
  BY <1>1, <1>2, <1>3, <1>4, SMT

\* The three regions of the bus.
LEMMA Regions ==
  ASSUME NEW address \in Nat
  PROVE  \/ Cell(address) = RamCell(address % 1048576)
         \/ Cell(address) = SramCell(address % 1048576)
         \/ Cell(address) = RomCell(address % 1048576)
<1> DEFINE a == address % 1048576
<1>1. Cell(address) = CASE a \in RamRegion  -> RamCell(a)
                        [] a \in SramWindow -> SramCell(a)
                        [] OTHER           -> RomCell(a)
  BY SMT DEF Cell
<1>5. a \in Nat
  BY ModBounds, SMT
<1> HIDE DEF a
<1>2. a \in RamRegion => Cell(address) = RamCell(a)
  BY <1>1, <1>5, Windows, SMT
<1>3. a \in SramWindow => Cell(address) = SramCell(a)
  BY <1>1, <1>5, Windows, SMT
<1>4. ~(a \in RamRegion) /\ ~(a \in SramWindow) => Cell(address) = RomCell(a)
  BY <1>1, SMT
<1> QED
  BY <1>2, <1>3, <1>4, SMT DEF a

LEMMA RamInBounds ==
  ASSUME cart \in Carts, NEW a \in Nat
  PROVE  RamCell(a) = Nowhere \/ (RamCell(a) = << "ram", a >> /\ a \in 0 .. RamSize - 1)
  BY Sizes, SMT DEF RamCell

LEMMA SramInBounds ==
  ASSUME cart \in Carts, banks \in [ { "linear", "sram", "rom0", "rom1" } -> Byte ], NEW a \in Nat
  PROVE  \/ SramCell(a) = Nowhere
         \/ SramCell(a) = << "sram", SramOffset(a) >> /\ SramOffset(a) \in 0 .. SramLen - 1
<1> DEFINE flat == 65536 * banks.sram + (a % 65536)
<1>1. flat \in Nat
  BY BankFacts, SMT
<1>2. SramOffset(a) = flat % SramLen
  BY SMT DEF SramOffset
<1> HIDE DEF flat
<1>3. SramLen # 0 => SramOffset(a) \in 0 .. SramLen - 1
  BY <1>1, <1>2, Sizes, ModBounds, SMT
<1> QED
  BY <1>3, SMT DEF SramCell

LEMMA RomInBounds ==
  ASSUME cart \in Carts, banks \in [ { "linear", "sram", "rom0", "rom1" } -> Byte ], NEW a \in Nat
  PROVE  \/ RomCell(a) = Nowhere
         \/ RomCell(a) = << "rom", RomOffset(a) >> /\ RomOffset(a) \in 0 .. cart.romLen - 1
<1>1. a % 65536 \in Nat
  BY SMT
<1> DEFINE x == 65536 * banks.rom0 + (a % 65536)
           y == 65536 * banks.rom1 + (a % 65536)
           z == 1048576 * LinearBank + a
<1>2. x \in Nat /\ y \in Nat /\ z \in Nat
  BY <1>1, BankFacts, SMT
<1>3. RomFlat(a) = CASE a \in Rom0Window -> x
                     [] a \in Rom1Window -> y
                     [] OTHER           -> z
  BY SMT DEF RomFlat
<1> HIDE DEF x, y, z
<1>4. RomFlat(a) \in Nat
  <2>1. a \in Rom0Window => RomFlat(a) = x
    BY <1>3, Windows, SMT
  <2>2. a \in Rom1Window => RomFlat(a) = y
    BY <1>3, Windows, SMT
  <2>3. ~(a \in Rom0Window) /\ ~(a \in Rom1Window) => RomFlat(a) = z
    BY <1>3, SMT
  <2> QED BY <1>2, <2>1, <2>2, <2>3, SMT
<1>5. cart # NoCart => RomOffset(a) \in 0 .. cart.romLen - 1
  <2> SUFFICES ASSUME cart # NoCart
               PROVE  RomOffset(a) \in 0 .. cart.romLen - 1
    OBVIOUS
  <2>1. cart.romLen \in Nat \ {0}
    BY CartFacts, SMT
  <2>2. RomFlat(a) % cart.romLen \in 0 .. cart.romLen - 1
    BY <1>4, <2>1, ModBounds
  <2> QED BY <2>2 DEF RomOffset
<1> QED
  BY <1>5 DEF RomCell

\* Every address selects a byte inside the store it names: the index expressions of
\* read_u8 and write_u8 are in bounds, whatever the banks and the cartridge.
THEOREM AddressesInBounds ==
  ASSUME TypeOK, NEW address \in Nat
  PROVE  \/ Cell(address) = Nowhere
         \/ \E o \in 0 .. RamSize - 1     : Cell(address) = << "ram", o >>
         \/ \E o \in 0 .. SramLen - 1     : Cell(address) = << "sram", o >>
         \/ \E o \in 0 .. cart.romLen - 1 : Cell(address) = << "rom", o >>
<1> DEFINE a == address % 1048576
<1>1. a \in Nat
  BY ModBounds, SMT
<1>2. cart \in Carts /\ banks \in [ { "linear", "sram", "rom0", "rom1" } -> Byte ]
  BY DEF TypeOK
<1>3. Cell(address) = RamCell(a) \/ Cell(address) = SramCell(a) \/ Cell(address) = RomCell(a)
  BY Regions, SMT
<1> HIDE DEF a
<1>4. CASE Cell(address) = RamCell(a)
  BY <1>1, <1>2, <1>4, RamInBounds
<1>5. CASE Cell(address) = SramCell(a)
  BY <1>1, <1>2, <1>5, SramInBounds
<1>6. CASE Cell(address) = RomCell(a)
  BY <1>1, <1>2, <1>6, RomInBounds
<1> QED
  BY <1>3, <1>4, <1>5, <1>6

---------------------------------------------------------------------------------
(* Type correctness.                                                              *)

LEMMA TypesAtPowerUp == Init => TypeOK
<1> SUFFICES ASSUME Init PROVE TypeOK
  OBVIOUS
<1>1. cart \in Carts /\ model \in Models
  BY DEF Init
<1>2. Store(ram, RamSize) /\ Store(sram, SramLen)
  BY <1>1, Sizes, ZeroedIsStore DEF Init
<1>3. banks \in [ { "linear", "sram", "rom0", "rom1" } -> Byte ]
  BY SMT DEF Init, PowerUp, Byte, MaxByte
<1>4. systemCtrl \in {0, 1, 4, 5, 8, 9, 12, 13}
  BY SMT DEF Init
<1>5. palette \in PalettesType
  BY SMT DEF Init, NewPalettes, PalettesType
<1>6. noise \in Noises
  <2>1. 0 \in Lfsr
    BY SMT DEF Lfsr
  <2>2. Taps[1] \in 4 .. 14
    BY DEF Taps
  <2> QED BY <2>1, <2>2 DEF Init, NewNoise, Noises
<1>7. EepromType(eeprom) /\ eeprom.size = (IF IsColor THEN WscBytes ELSE WsBytes)
  <2> DEFINE size == IF IsColor THEN WscBytes ELSE WsBytes
  <2>1. size \in { WsBytes, WscBytes } /\ size \in Nat
    BY DEF WsBytes, WscBytes
  <2>2. Store(Zeroed, size)
    BY <2>1, ZeroedIsStore
  <2>3. 0 \in Word /\ 0 \in Byte
    BY SMT DEF Word, MaxWord, Byte, MaxByte
  <2>4. eeprom = [ size |-> size, store |-> Zeroed, address |-> 0, command |-> 0 ]
    BY DEF Init, NewEeprom
  <2> HIDE DEF size
  <2>5. eeprom.size = size /\ EepromType(eeprom)
    BY <2>1, <2>2, <2>3, <2>4 DEF EepromType
  <2> QED BY <2>5 DEF size
<1> QED
  BY <1>1, <1>2, <1>3, <1>4, <1>5, <1>6, <1>7, TypeParts

\* The sizes of the stores are the session's.
LEMMA SizesFixed ==
  ASSUME UNCHANGED << model, cart >>
  PROVE  /\ RamSize' = RamSize /\ SramLen' = SramLen
         /\ IsColor' = IsColor
  BY DEF RamSize, SramLen, IsColor

LEMMA WritesTyped ==
  ASSUME TypeOK, NEW a \in Nat, NEW b \in Byte, MemWrite(a, b)
  PROVE  TypeOK'
<1>1. UNCHANGED << model, cart, banks, systemCtrl, palette, noise, eeprom >>
  BY DEF MemWrite
<1>2. cart \in Carts /\ Store(ram, RamSize) /\ Store(sram, SramLen)
  BY DEF TypeOK
<1>3. RamSize \in Nat /\ SramLen \in Nat
  BY <1>2, Sizes
<1>4. Store(ram', RamSize)
  <2>1. CASE Cell(a)[1] = "ram"
    <3>1. PICK o \in 0 .. RamSize - 1 : Cell(a) = << "ram", o >>
      BY <2>1, AddressesInBounds DEF Nowhere
    <3>2. ram' = Put(ram, o, b)
      BY <3>1 DEF MemWrite, RamAfter, SramAfter
    <3> QED BY <1>2, <1>3, <3>2, PutKeepsStore
  <2>2. CASE Cell(a)[1] # "ram"
    BY <1>2, <2>2 DEF MemWrite, RamAfter, SramAfter
  <2> QED BY <2>1, <2>2
<1>5. Store(sram', SramLen)
  <2>1. CASE Cell(a)[1] = "sram"
    <3>1. PICK o \in 0 .. SramLen - 1 : Cell(a) = << "sram", o >>
      BY <2>1, AddressesInBounds DEF Nowhere
    <3>2. sram' = Put(sram, o, b)
      BY <3>1 DEF MemWrite, RamAfter, SramAfter
    <3> QED BY <1>2, <1>3, <3>2, PutKeepsStore
  <2>2. CASE Cell(a)[1] # "sram"
    BY <1>2, <2>2 DEF MemWrite, RamAfter, SramAfter
  <2> QED BY <2>1, <2>2
<1>6. Store(ram', RamSize') /\ Store(sram', SramLen')
  BY <1>1, <1>4, <1>5, SizesFixed
<1> QED
  BY <1>1, <1>6 DEF TypeOK, IsColor

LEMMA SocTyped ==
  ASSUME TypeOK, NEW reg \in Nat, NEW b \in Byte, SocWrite(reg, b)
  PROVE  /\ systemCtrl' \in {0, 1, 4, 5, 8, 9, 12, 13}
         /\ palette' \in PalettesType /\ noise' \in Noises
<1>1. palette \in PalettesType /\ noise \in Noises
  BY TypeParts
<1>2. systemCtrl' \in {0, 1, 4, 5, 8, 9, 12, 13}
  BY SystemCtrlTyped DEF SocWrite, SystemCtrlAfter, TypeOK
<1>3. palette' \in PalettesType
  <2>1. CASE reg \in 28 .. 31
    <3>1. reg - 28 \in 0 .. 3 /\ reg \notin 32 .. 63
      BY <2>1
    <3>2. palette' = WritePool(palette, reg - 28, b)
      BY <2>1, <3>1 DEF SocWrite, PaletteAfter
    <3> QED BY <1>1, <3>1, <3>2, PoolTyped
  <2>2. CASE reg \in 32 .. 63
    <3>1. reg - 32 \in 0 .. 31 /\ reg \notin 28 .. 31
      BY <2>2
    <3>2. palette' = WritePalette(palette, reg - 32, b)
      BY <2>2, <3>1 DEF SocWrite, PaletteAfter
    <3> QED BY <1>1, <3>1, <3>2, PaletteTyped
  <2>3. CASE reg \notin 28 .. 31 /\ reg \notin 32 .. 63
    BY <1>1, <2>3 DEF SocWrite, PaletteAfter
  <2> QED BY <2>1, <2>2, <2>3
<1>4. noise' \in Noises
  <2>1. noise' \in { WithSoundNoise(noise, b), WithSoundCtrl(noise, b), noise }
    BY DEF SocWrite, NoiseAfter
  <2> QED BY <1>1, <2>1, SoundTyped
<1> QED
  BY <1>2, <1>3, <1>4

LEMMA CartTyped ==
  ASSUME TypeOK, NEW port \in Nat, NEW b \in Byte, CartWrite(port, b)
  PROVE  banks' \in [ { "linear", "sram", "rom0", "rom1" } -> Byte ]
<1>1. banks \in [ { "linear", "sram", "rom0", "rom1" } -> Byte ]
  BY DEF TypeOK
<1>2. banks' = banks \/ banks' = [ banks EXCEPT ![RegBank(port)] = b ]
  BY DEF CartWrite, BanksAfter
<1> QED
  BY <1>1, <1>2

LEMMA EepromKept ==
  ASSUME TypeOK, NEW port \in Nat, NEW b \in Byte, EepromWrite(port, b)
  PROVE  EepromType(eeprom') /\ eeprom'.size = eeprom.size
<1>1. EepromType(eeprom)
  BY TypeParts
<1> DEFINE highData == port = 187
           highAddr == port = 189
           data     == WriteData(eeprom, highData, b)
           addr     == SetAddr(eeprom, highAddr, b)
           cmd      == SetCommand(eeprom, b)
<1>2. highData \in BOOLEAN /\ highAddr \in BOOLEAN
  OBVIOUS
<1>3. eeprom' = data \/ eeprom' = addr \/ eeprom' = cmd \/ eeprom' = eeprom
  BY DEF EepromWrite, EepromAfter
<1> HIDE DEF highData, highAddr
<1>4. EepromType(data) /\ data.size = eeprom.size
  BY <1>1, <1>2, EepromTyped
<1>5. EepromType(addr) /\ addr.size = eeprom.size
  BY <1>1, <1>2, EepromTyped
<1>6. EepromType(cmd) /\ cmd.size = eeprom.size
  BY <1>1, <1>2, EepromTyped
<1> HIDE DEF data, addr, cmd
<1> QED
  BY <1>1, <1>3, <1>4, <1>5, <1>6

LEMMA IoTyped ==
  ASSUME TypeOK, NEW port \in Nat, NEW b \in Byte, IoWrite(port, b)
  PROVE  TypeOK'
<1>1. UNCHANGED << model, cart, ram, sram >>
  BY DEF IoWrite
<1>2. RamSize' = RamSize /\ SramLen' = SramLen /\ IsColor' = IsColor
  BY <1>1, SizesFixed
<1>3. Store(ram', RamSize') /\ Store(sram', SramLen') /\ model' \in Models /\ cart' \in Carts
  BY <1>1, <1>2 DEF TypeOK
<1> SUFFICES /\ banks' \in [ { "linear", "sram", "rom0", "rom1" } -> Byte ]
             /\ systemCtrl' \in {0, 1, 4, 5, 8, 9, 12, 13}
             /\ palette' \in PalettesType /\ noise' \in Noises
             /\ EepromType(eeprom') /\ eeprom'.size = eeprom.size
  BY <1>2, <1>3 DEF TypeOK, PalettesType, EepromType
<1>4. CASE SocWrite(port % 256, b)
  <2>1. port % 256 \in Nat
    BY ModBounds, SMT
  <2>2. UNCHANGED << banks, eeprom >>
    BY <1>4 DEF SocWrite
  <2> QED BY <1>4, <2>1, <2>2, SocTyped, TypeParts
<1>5. CASE CartWrite(port, b)
  <2>1. UNCHANGED << systemCtrl, palette, noise, eeprom >>
    BY <1>5 DEF CartWrite
  <2> QED BY <1>5, <2>1, CartTyped, TypeParts
<1>6. CASE EepromWrite(port, b)
  <2>1. UNCHANGED << banks, systemCtrl, palette, noise >>
    BY <1>6 DEF EepromWrite
  <2> QED BY <1>6, <2>1, EepromKept, TypeParts
<1>7. CASE UNCHANGED << banks, systemCtrl, palette, noise, eeprom >>
  BY <1>7, TypeParts
<1> QED
  BY <1>4, <1>5, <1>6, <1>7 DEF IoWrite

\* The registers keep their widths and the stores are written inside their bounds, for
\* every cartridge and every access.
THEOREM MemoryMapTypes == Spec => []TypeOK
<1>1. Init => TypeOK
  BY TypesAtPowerUp
<1>2. TypeOK /\ [Next]_vars => TypeOK'
  <2> SUFFICES ASSUME TypeOK, [Next]_vars
               PROVE  TypeOK'
    OBVIOUS
  <2>1. CASE UNCHANGED vars
    <3>1. RamSize' = RamSize /\ SramLen' = SramLen /\ IsColor' = IsColor
      BY <2>1 DEF vars, RamSize, SramLen, IsColor
    <3> QED
      BY <2>1, <3>1 DEF vars, TypeOK
  <2>2. CASE ReadAccess
    BY <2>1, <2>2 DEF ReadAccess
  <2>3. ASSUME NEW a \in Addresses, NEW b \in Bytes, MemWrite(a, b)
        PROVE  TypeOK'
    BY <2>3, BusAssumption, WritesTyped
  <2>4. ASSUME NEW p \in Ports, NEW b \in Bytes, IoWrite(p, b)
        PROVE  TypeOK'
    <3>1. p \in Nat /\ b \in Byte
      BY BusAssumption, WordsAreNaturals
    <3> QED BY <2>4, <3>1, IoTyped
  <2> QED
    BY <2>1, <2>2, <2>3, <2>4 DEF Next
<1> QED
  BY <1>1, <1>2, PTL DEF Spec

---------------------------------------------------------------------------------
(* The transparent colour and the reset vector.                                   *)

\* A register whose palette has bit 2 set cannot be given a colour 0.
LEMMA TransparentKept ==
  ASSUME NEW p \in PalettesType, NEW reg \in 0 .. 31, NEW b \in Byte, NEW k \in 0 .. 15,
         BitSet(k, 2), p.palettes[k][0] = 0
  PROVE  WritePalette(p, reg, b).palettes[k][0] = 0
<1>1. PaletteOf(reg) \in 0 .. 15 /\ ColourOf(reg) \in {0, 2}
  BY PaletteRegisters
<1>2. p.palettes[k] \in [ 0 .. 3 -> 0 .. 7 ]
  BY DEF PalettesType
<1>3. CASE PaletteOf(reg) # k
  BY <1>1, <1>3 DEF WritePalette, PalettesType
<1>4. CASE PaletteOf(reg) = k
  <2>1. WritePalette(p, reg, b).palettes[k] = WithRegister(p.palettes[k], reg, b)
    BY <1>4 DEF WritePalette, PalettesType
  <2>2. CASE ColourOf(reg) = 0
    <3>1. Protected(reg)
      BY <1>4, <2>2 DEF Protected
    <3> QED BY <1>2, <2>1, <2>2, <3>1 DEF WithRegister
  <2>3. CASE ColourOf(reg) = 2
    BY <1>2, <2>1, <2>3 DEF WithRegister
  <2> QED BY <1>1, <2>2, <2>3
<1> QED
  BY <1>3, <1>4

\* Colour 0 of a palette that shows it as transparent holds index 0, whatever the
\* program writes to the ports.
THEOREM TransparentHoldsZero == Spec => []TransparentColourZero
<1>1. Init => TransparentColourZero
  BY SMT DEF Init, NewPalettes, TransparentColourZero, ColorZeroTransparent
<1>2. TypeOK /\ TransparentColourZero /\ [Next]_vars => TransparentColourZero'
  <2> SUFFICES ASSUME TypeOK, TransparentColourZero, [Next]_vars,
                      NEW k \in 0 .. 15, BitSet(k, 2)
               PROVE  palette'.palettes[k][0] = 0
    BY DEF TransparentColourZero, ColorZeroTransparent
  <2>1. palette.palettes[k][0] = 0 /\ palette \in PalettesType
    BY TypeParts DEF TransparentColourZero, ColorZeroTransparent
  <2>2. CASE UNCHANGED palette
    BY <2>1, <2>2
  <2>3. ASSUME NEW reg \in 28 .. 31, NEW b \in Byte, palette' = WritePool(palette, reg - 28, b)
        PROVE  palette'.palettes[k][0] = 0
    <3>1. palette'.palettes = palette.palettes
      BY <2>1, <2>3 DEF WritePool, PalettesType
    <3> QED BY <2>1, <3>1
  <2>4. ASSUME NEW reg \in 32 .. 63, NEW b \in Byte, palette' = WritePalette(palette, reg - 32, b)
        PROVE  palette'.palettes[k][0] = 0
    <3>1. reg - 32 \in 0 .. 31
      OBVIOUS
    <3> QED BY <2>1, <2>4, <3>1, TransparentKept
  <2>5. ASSUME NEW port \in Nat, NEW b \in Byte, SocWrite(port, b)
        PROVE  palette'.palettes[k][0] = 0
    <3>1. CASE port \in 28 .. 31
      BY <2>3, <2>5, <3>1 DEF SocWrite, PaletteAfter
    <3>2. CASE port \in 32 .. 63
      <4>1. port \notin 28 .. 31
        BY <3>2
      <4> QED BY <2>4, <2>5, <3>2, <4>1 DEF SocWrite, PaletteAfter
    <3>3. CASE port \notin 28 .. 31 /\ port \notin 32 .. 63
      BY <2>2, <2>5, <3>3 DEF SocWrite, PaletteAfter
    <3> QED BY <3>1, <3>2, <3>3
  <2>6. ASSUME NEW p \in Ports, NEW b \in Bytes, IoWrite(p, b)
        PROVE  palette'.palettes[k][0] = 0
    <3>1. p \in Nat /\ p % 256 \in Nat /\ b \in Byte
      BY BusAssumption, WordsAreNaturals, ModBounds, SMT
    <3>2. CASE SocWrite(p % 256, b)
      BY <2>5, <3>1, <3>2
    <3>3. CASE UNCHANGED palette
      BY <2>2, <3>3
    <3> QED BY <2>6, <3>2, <3>3 DEF IoWrite, CartWrite, EepromWrite
  <2> QED
    BY <2>2, <2>6 DEF Next, MemWrite, ReadAccess, vars
<1> QED
  BY <1>1, <1>2, MemoryMapTypes, PTL DEF Spec

\* The length of a cartridge's image divides what the linear bank reaches.
FooterAligned(c) ==
  \E k \in Nat \ {0} : c.romLen * k = (IF c.is2003 THEN 67108864 ELSE 16777216)

\* A ROM size that divides the mapper's range puts its footer at the reset vector; that
\* hypothesis is what the comment of memory.rs leaves out.
THEOREM FooterAtResetVector ==
  ASSUME \A c \in Carts \ {NoCart} : FooterAligned(c)
  PROVE  Spec => []BootVector
<1>1. TypeOK => BootVector
  <2> SUFFICES ASSUME TypeOK, cart # NoCart, banks.linear = 255
               PROVE  Cell(1048560) = << "rom", cart.romLen - 16 >>
    BY DEF BootVector
  <2>1. cart \in Carts /\ cart.romLen \in Nat /\ cart.romLen >= 16
    BY CartFacts DEF TypeOK
  <2> DEFINE top == IF cart.is2003 THEN 67108864 ELSE 16777216
  <2>2. 1048576 * LinearBank + 1048560 = top - 16
    BY SMT DEF LinearBank, Is2003
  <2>3. PICK k \in Nat \ {0} : cart.romLen * k = top
    BY <2>1 DEF FooterAligned
  <2> DEFINE boot == 1048560
  <2>4. boot \in Int /\ boot % 1048576 = boot /\ boot \notin RamRegion /\ boot \notin SramWindow
        /\ boot \notin Rom0Window /\ boot \notin Rom1Window
    BY RamRange, SramRange, Rom0Range, Rom1Range, SMT
  <2>5. RomFlat(boot) = top - 16
    BY <2>2, <2>4, SMT DEF RomFlat
  <2> HIDE DEF top
  <2>6. top - 16 = cart.romLen * (k - 1) + (cart.romLen - 16)
    BY <2>1, <2>3, SMT
  <2>7. (top - 16) % cart.romLen = cart.romLen - 16
    <3> DEFINE n == cart.romLen
               q == k - 1
               r == n - 16
    <3>1. n \in Nat \ {0} /\ q \in Nat /\ r \in Nat /\ r < n
      BY <2>1, SMT
    <3>2. top - 16 = n * q + r
      BY <2>6
    <3> HIDE DEF n, q, r
    <3>3. (n * q + r) % n = r
      BY <3>1, ModUnique
    <3>4. (top - 16) % n = r
      BY <3>2, <3>3, Zenon
    <3> QED BY <3>4, Zenon DEF n, r
  <2>8. Cell(boot) = RomCell(boot)
    BY <2>4, SMT DEF Cell
  <2> QED
    BY <2>5, <2>7, <2>8 DEF RomCell, RomOffset
<1> QED
  BY <1>1, MemoryMapTypes, PTL

---------------------------------------------------------------------------------
(* What is read back.                                                              *)

\* The record is typed, and the program is one of those given.
TraceOK == TypeOK /\ workload \in Workloads /\ log \in Seq(Writes)

\* The entry of a write made now.
Entry(bus, at, b) ==
  [ bus |-> bus, at |-> at, byte |-> b, bank |-> banks.sram, word |-> eeprom.address ]

\* The two kinds of write, each with its entry.
MemStep(a, b) == MemWrite(a, b) /\ log' = Append(log, Entry("memory", a % 1048576, b))
IoStep(p, b)  == IoWrite(p, b) /\ log' = Append(log, Entry("io", p, b))

LEMMA EntryTyped ==
  ASSUME TypeOK, NEW bus \in {"memory", "io"}, NEW at \in Nat, NEW b \in Byte
  PROVE  Entry(bus, at, b) \in Writes
<1>1. banks.sram \in Byte /\ eeprom.address \in Word
  BY DEF TypeOK
<1> QED
  BY <1>1 DEF Entry, Writes

LEMMA WorkloadTyped ==
  ASSUME workload \in Workloads
  PROVE  workload.addresses \subseteq Nat /\ workload.ports \subseteq Word /\ workload.bytes \subseteq Byte
         /\ workload.addresses \subseteq Addresses /\ workload.ports \subseteq Ports
         /\ workload.bytes \subseteq Bytes
  BY WorkloadsAssumption, BusAssumption

\* Every step is a read, a write to memory or a write to a port.
LEMMA TraceSteps ==
  ASSUME TraceOK, [TraceNext]_traceVars
  PROVE  /\ workload' = workload
         /\ \/ UNCHANGED vars /\ log' = log
            \/ \E a \in Nat, b \in Byte : MemStep(a, b)
            \/ \E p \in Word, b \in Byte : IoStep(p, b)
<1> USE DEF TraceOK
<1>1. CASE UNCHANGED traceVars
  BY <1>1 DEF traceVars, vars
<1>2. CASE ReadAccess /\ UNCHANGED << workload, log >>
  BY <1>2 DEF ReadAccess
<1>3. ASSUME NEW a \in workload.addresses, NEW b \in workload.bytes,
             MemWrite(a, b), Logged("memory", a % 1048576, b)
      PROVE  workload' = workload /\ a \in Nat /\ b \in Byte /\ MemStep(a, b)
  BY <1>3, WorkloadTyped DEF Logged, MemStep, Entry
<1>4. ASSUME NEW p \in workload.ports, NEW b \in workload.bytes, IoWrite(p, b), Logged("io", p, b)
      PROVE  workload' = workload /\ p \in Word /\ b \in Byte /\ IoStep(p, b)
  BY <1>4, WorkloadTyped DEF Logged, IoStep, Entry
<1> QED
  BY <1>1, <1>2, <1>3, <1>4 DEF TraceNext

LEMMA TraceTyped ==
  ASSUME TraceOK, [TraceNext]_traceVars
  PROVE  TraceOK'
<1>1. workload' \in Workloads /\ TypeOK /\ log \in Seq(Writes)
  BY TraceSteps DEF TraceOK
<1>2. CASE UNCHANGED vars /\ log' = log
  <2>1. TypeOK'
    <3>1. RamSize' = RamSize /\ SramLen' = SramLen /\ IsColor' = IsColor
      BY <1>2 DEF vars, RamSize, SramLen, IsColor
    <3> QED
      BY <1>1, <1>2, <3>1 DEF vars, TypeOK
  <2> QED
    BY <1>1, <1>2, <2>1 DEF TraceOK
<1>3. ASSUME NEW a \in Nat, NEW b \in Byte, MemStep(a, b) PROVE TraceOK'
  <2>1. a % 1048576 \in Nat
    BY ModBounds, SMT
  <2>2. log' \in Seq(Writes)
    BY <1>1, <1>3, <2>1, EntryTyped DEF MemStep
  <2> QED
    BY <1>1, <1>3, <2>2, WritesTyped DEF MemStep, TraceOK
<1>4. ASSUME NEW p \in Word, NEW b \in Byte, IoStep(p, b) PROVE TraceOK'
  <2>1. p \in Nat
    BY WordsAreNaturals
  <2>2. log' \in Seq(Writes)
    BY <1>1, <1>4, <2>1, EntryTyped DEF IoStep
  <2> QED
    BY <1>1, <1>4, <2>1, <2>2, IoTyped DEF IoStep, TraceOK
<1> QED
  BY <1>2, <1>3, <1>4, TraceSteps

LEMMA TraceInitTyped == TraceInit => TraceOK /\ log = << >>
  BY TypesAtPowerUp DEF TraceInit, TraceOK

\* The last write of some writes is the one just made, if it is one of them.
LEMMA LatestAppended ==
  ASSUME NEW list \in Seq(Writes), NEW e \in Writes, NEW writes, NEW powerUp
  PROVE  Latest(Append(list, e), writes, powerUp) =
           IF e \in writes THEN e.byte ELSE Latest(list, writes, powerUp)
<1> DEFINE new == Append(list, e)
           n   == LastIn(list, writes)
<1>1. /\ Len(list) \in Nat /\ Len(list) + 1 # 0 /\ new[Len(list) + 1] = e
      /\ \A k \in 1 .. Len(list) : new[k] = list[k]
  OBVIOUS
<1>2. LastIn(new, writes) = IF e \in writes THEN Len(list) + 1 ELSE n
  BY LastInAppended
<1>3. n \in 0 .. Len(list)
  BY LastInRange
<1> HIDE DEF new, n
<1>4. Latest(list, writes, powerUp) = IF n = 0 THEN powerUp ELSE list[n].byte
  BY DEF Latest, n
<1>5. CASE e \in writes
  BY <1>1, <1>2, <1>5 DEF Latest, new
<1>6. CASE e \notin writes
  <2>1. n # 0 => new[n] = list[n]
    BY <1>1, <1>3
  <2>2. Latest(new, writes, powerUp) = IF n = 0 THEN powerUp ELSE new[n].byte
    BY <1>2, <1>6 DEF Latest
  <2> QED
    BY <1>4, <1>6, <2>1, <2>2 DEF new
<1> QED
  BY <1>5, <1>6

LEMMA LatestOfNone == \A writes, powerUp : Latest(<< >>, writes, powerUp) = powerUp
  BY LastInNone DEF Latest

LEMMA LatestTyped ==
  ASSUME NEW list \in Seq(Writes), NEW writes, NEW powerUp \in Byte
  PROVE  Latest(list, writes, powerUp) \in Byte
<1> DEFINE k == LastIn(list, writes)
<1>1. k \in 0 .. Len(list)
  BY LastInRange
<1>2. k # 0 => list[k].byte \in Byte
  <2>1. k # 0 => list[k] \in Writes
    BY <1>1
  <2> QED
    BY <2>1 DEF Writes
<1> QED
  BY <1>2 DEF Latest

\* A byte that was put is there, and the others are as they were.
LEMMA AtPut ==
  ASSUME NEW array, NEW o, NEW b, NEW k
  PROVE  At(Put(array, o, b), k) = IF k = o THEN b ELSE At(array, k)
  BY DEF At, Put

---------------------------------------------------------------------------------
(* Memory.                                                                        *)

\* The writes to a cell of an SRAM of a length, and of an EEPROM of a size.
SramCellWrites(o, length) ==
  { w \in Writes : /\ w.bus = "memory" /\ w.at \in SramWindow
                   /\ (65536 * w.bank + (w.at % 65536)) % length = o }
EepromCellWrites(o, size) ==
  { w \in Writes : /\ w.bus = "io" /\ w.at \in {186, 187}
                   /\ (2 * w.word + (IF w.at = 187 THEN 1 ELSE 0)) % size = o }

\* Every cell of every store holds what was last stored in it.
RamHolds    == \A a \in 0 .. RamSize - 1 : At(ram, a) = Latest(log, RamWrites(a), 0)
SramHolds   == \A o \in 0 .. SramLen - 1 : At(sram, o) = Latest(log, SramCellWrites(o, SramLen), 0)
EepromHolds ==
  \A o \in 0 .. eeprom.size - 1 :
    At(eeprom.store, o) = Latest(log, EepromCellWrites(o, eeprom.size), 0)

\* A write to memory is one to the cell of RAM its address names, or to the cell of SRAM
\* it names under the present bank.
LEMMA MemStores ==
  ASSUME TypeOK, NEW x \in Nat, NEW b \in Byte, MemWrite(x, b)
  PROVE  LET a == x % 1048576
         IN  /\ a \in Nat
             /\ ram' = IF a < RamSize THEN Put(ram, a, b) ELSE ram
             /\ sram' = IF a \in SramWindow /\ SramLen # 0
                        THEN Put(sram, (65536 * banks.sram + (a % 65536)) % SramLen, b)
                        ELSE sram
<1> DEFINE a == x % 1048576
<1>1. a \in Nat
  BY ModBounds, SMT
<1>2. Cell(x) = CASE a \in RamRegion  -> RamCell(a)
                  [] a \in SramWindow -> SramCell(a)
                  [] OTHER           -> RomCell(a)
  BY DEF Cell
<1>3. RamSize \in Nat /\ RamSize <= 65536
  BY DEF RamSize
<1>4. ram' = RamAfter(x, b) /\ sram' = SramAfter(x, b)
  BY DEF MemWrite
<1> HIDE DEF a
<1>5. CASE a \in RamRegion
  <2>1. Cell(x) = RamCell(a) /\ a \notin SramWindow
    BY <1>1, <1>2, <1>5, Windows
  <2>2. CASE a < RamSize
    BY <1>4, <2>1, <2>2 DEF RamAfter, SramAfter, RamCell, a
  <2>3. CASE ~ (a < RamSize)
    BY <1>4, <2>1, <2>3 DEF RamAfter, SramAfter, RamCell, Nowhere, a
  <2> QED
    BY <1>1, <2>2, <2>3 DEF a
<1>6. CASE a \in SramWindow
  <2>1. Cell(x) = SramCell(a) /\ ~ (a < RamSize)
    <3>1. a \notin RamRegion
      BY <1>1, <1>6, Windows
    <3>2. a >= 65536
      BY <1>1, <1>6, SramRange
    <3> QED
      BY <1>1, <1>2, <1>3, <1>6, <3>1, <3>2
  <2>2. CASE SramLen = 0
    BY <1>1, <1>4, <2>1, <2>2 DEF RamAfter, SramAfter, SramCell, Nowhere, a
  <2>3. CASE SramLen # 0
    BY <1>1, <1>4, <1>6, <2>1, <2>3 DEF RamAfter, SramAfter, SramCell, SramOffset, a
  <2> QED
    BY <2>2, <2>3
<1>7. CASE a \notin RamRegion /\ a \notin SramWindow
  <2>1. Cell(x) = RomCell(a)
    BY <1>2, <1>7
  <2>2. ~ (a < RamSize)
    BY <1>1, <1>3, <1>7, RamRange
  <2>3. Cell(x)[1] # "ram" /\ Cell(x)[1] # "sram"
    BY <2>1 DEF RomCell, Nowhere
  <2> QED
    BY <1>1, <1>4, <1>7, <2>2, <2>3 DEF RamAfter, SramAfter, a
<1> QED
  BY <1>5, <1>6, <1>7

\* Which block a write reaches.
LEMMA Routes ==
  ASSUME NEW p \in Word
  PROVE  /\ p \in 184 .. 191 => Route(p) = "eeprom"
         /\ p \in 192 .. 255 => Route(p) = "cartridge"
         /\ Register(p) <= 183 /\ p \notin 184 .. 255 => Route(p) = "soc"
         /\ Register(p) > 183 /\ p \notin 184 .. 255 => Route(p) = "open"
         /\ Route(p) = "soc" => p % 256 = Register(p)
         /\ Register(p) \in 184 .. 255 => p = Register(p)
         /\ p \in 184 .. 255 => Register(p) = p
         /\ Register(p) \in Nat
<1>1. p \in Nat /\ p <= 65535
  BY WordRange
<1> DEFINE r == p % 512
<1>2. r \in Nat /\ r <= 511 /\ r <= p /\ (r <= 183 => p % 256 = r)
  BY <1>1, SMT
<1>3. p \in 184 .. 255 => r = p
  BY <1>1, SMT
<1>4. Register(p) = IF r < 184 THEN r ELSE p
  BY DEF Register
<1>5. Route(p) = CASE p \in 184 .. 191 -> "eeprom"
                   [] p \in 192 .. 255 -> "cartridge"
                   [] r <= 183         -> "soc"
                   [] OTHER            -> "open"
  BY DEF Route
<1> HIDE DEF r
<1>6. p \in 184 .. 191 => Route(p) = "eeprom"
  BY <1>1, <1>2, <1>3, <1>5
<1>7. p \in 192 .. 255 => Route(p) = "cartridge"
  BY <1>1, <1>2, <1>3, <1>5
<1>8. p \notin 184 .. 255 => Route(p) = IF r <= 183 THEN "soc" ELSE "open"
  BY <1>1, <1>5
<1>9. p \in 184 .. 255 => p \in 184 .. 191 \/ p \in 192 .. 255
  BY <1>1
<1>10. Register(p) <= 183 <=> r <= 183
  BY <1>1, <1>2, <1>4
<1>11. Register(p) \in Nat /\ (r <= 183 => Register(p) = r) /\ (r > 183 => Register(p) = p)
  BY <1>1, <1>2, <1>4
<1>12. Route(p) = "soc" => p % 256 = Register(p)
  BY <1>2, <1>6, <1>7, <1>8, <1>9, <1>11
<1>13. Register(p) \in 184 .. 255 => p = Register(p)
  BY <1>1, <1>2, <1>11
<1>14. p \in 184 .. 255 => Register(p) = p
  BY <1>1, <1>2, <1>3, <1>11
<1>15. p \notin 184 .. 255 => Route(p) = IF Register(p) <= 183 THEN "soc" ELSE "open"
  BY <1>8, <1>10
<1>16. Register(p) > 183 => ~ (Register(p) <= 183)
  BY <1>11
<1> QED
  BY <1>6, <1>7, <1>11, <1>12, <1>13, <1>14, <1>15, <1>16

LEMMA IoSteps ==
  ASSUME NEW p \in Word, NEW b \in Byte, IoWrite(p, b)
  PROVE  /\ UNCHANGED << model, cart, ram, sram >>
         /\ p \in 184 .. 191 => EepromWrite(p, b)
         /\ p \in 192 .. 255 => CartWrite(p, b)
         /\ Register(p) <= 183 /\ p \notin 184 .. 255 => SocWrite(Register(p), b)
         /\ Register(p) > 183 /\ p \notin 184 .. 255
              => UNCHANGED << banks, systemCtrl, palette, noise, eeprom >>
<1>1. \/ Route(p) = "soc" /\ SocWrite(p % 256, b)
      \/ Route(p) = "cartridge" /\ CartWrite(p, b)
      \/ Route(p) = "eeprom" /\ EepromWrite(p, b)
      \/ Route(p) = "open" /\ UNCHANGED << banks, systemCtrl, palette, noise, eeprom >>
  BY DEF IoWrite
<1>2. UNCHANGED << model, cart, ram, sram >>
  BY DEF IoWrite
<1>3. p \in 184 .. 191 => EepromWrite(p, b)
  BY <1>1, Routes
<1>4. p \in 192 .. 255 => CartWrite(p, b)
  BY <1>1, Routes
<1>5. Register(p) <= 183 /\ p \notin 184 .. 255 => SocWrite(Register(p), b)
  BY <1>1, Routes
<1>6. Register(p) > 183 /\ p \notin 184 .. 255
              => UNCHANGED << banks, systemCtrl, palette, noise, eeprom >>
  BY <1>1, Routes
<1> QED
  BY <1>2, <1>3, <1>4, <1>5, <1>6

\* A write to a data port stores its byte in the half of the word the address selects; no
\* other port reaches the store.
LEMMA EepromStores ==
  ASSUME TypeOK, NEW p \in Word, NEW b \in Byte, IoWrite(p, b)
  PROVE  /\ eeprom'.size = eeprom.size
         /\ eeprom'.store =
              IF p \in {186, 187}
              THEN Put(eeprom.store,
                       (2 * eeprom.address + (IF p = 187 THEN 1 ELSE 0)) % eeprom.size, b)
              ELSE eeprom.store
<1>1. EepromType(eeprom) /\ p \in Nat /\ Register(p) \in Nat
  BY TypeParts, WordsAreNaturals, Routes
<1>2. CASE p \in {186, 187}
  <2> DEFINE high == p = 187
             o    == (2 * eeprom.address + (IF p = 187 THEN 1 ELSE 0)) % eeprom.size
  <2>1. EepromWrite(p, b)
    BY <1>2, IoSteps
  <2>2. eeprom' = WriteData(eeprom, high, b)
    BY <1>2, <2>1 DEF EepromWrite, EepromAfter
  <2>3. Offset(eeprom, high) = o
    BY DEF Offset
  <2> HIDE DEF high, o
  <2>4. eeprom' = [ eeprom EXCEPT !.store = Put(@, o, b) ]
    BY <2>2, <2>3 DEF WriteData
  <2>5. eeprom'.size = eeprom.size /\ eeprom'.store = Put(eeprom.store, o, b)
    BY <1>1, <2>4 DEF EepromType
  <2> QED
    BY <1>2, <2>5 DEF o
<1>3. CASE p \in 184 .. 191 \ {186, 187}
  <2> DEFINE addr == SetAddr(eeprom, p = 189, b)
             cmd  == SetCommand(eeprom, b)
  <2>1. EepromWrite(p, b)
    BY <1>3, IoSteps
  <2>2. eeprom' = addr \/ eeprom' = cmd \/ eeprom' = eeprom
    BY <1>3, <2>1 DEF EepromWrite, EepromAfter
  <2>3. addr.size = eeprom.size /\ addr.store = eeprom.store
    BY <1>1 DEF SetAddr, EepromType
  <2>4. cmd.size = eeprom.size /\ cmd.store = eeprom.store
    BY <1>1 DEF SetCommand, EepromType
  <2> HIDE DEF addr, cmd
  <2> QED
    BY <1>3, <2>2, <2>3, <2>4
<1>4. CASE p \notin 184 .. 191
  <2>1. eeprom' = eeprom
    <3>1. CASE p \in 192 .. 255
      BY <3>1, IoSteps DEF CartWrite
    <3>2. CASE p \notin 184 .. 255 /\ Register(p) <= 183
      BY <3>2, IoSteps DEF SocWrite
    <3>3. CASE p \notin 184 .. 255 /\ Register(p) > 183
      BY <3>3, IoSteps
    <3> QED
      BY <1>1, <1>4, <3>1, <3>2, <3>3
  <2> QED
    BY <1>1, <1>4, <2>1
<1> QED
  BY <1>2, <1>3, <1>4

\* Every step keeps the three agreements.
LEMMA StoresStep ==
  ASSUME TraceOK, RamHolds, SramHolds, EepromHolds, [TraceNext]_traceVars
  PROVE  RamHolds' /\ SramHolds' /\ EepromHolds'
<1>1. TypeOK /\ log \in Seq(Writes)
  BY DEF TraceOK
<1>2. RamSize \in Nat /\ SramLen \in Nat
  BY <1>1, Sizes DEF TypeOK
<1>3. CASE UNCHANGED vars /\ log' = log
  BY <1>3 DEF vars, RamHolds, SramHolds, EepromHolds, RamSize, SramLen, IsColor
<1>4. ASSUME NEW x \in Nat, NEW b \in Byte, MemStep(x, b)
      PROVE  RamHolds' /\ SramHolds' /\ EepromHolds'
  <2> DEFINE a == x % 1048576
             e == Entry("memory", a, b)
             o == (65536 * banks.sram + (a % 65536)) % SramLen
  <2>1. /\ a \in Nat
        /\ ram' = IF a < RamSize THEN Put(ram, a, b) ELSE ram
        /\ sram' = IF a \in SramWindow /\ SramLen # 0 THEN Put(sram, o, b) ELSE sram
    BY <1>1, <1>4, MemStores DEF MemStep
  <2>2. /\ log' = Append(log, e) /\ UNCHANGED << model, cart, banks, eeprom >>
        /\ RamSize' = RamSize /\ SramLen' = SramLen
    BY <1>4, SizesFixed DEF MemStep, MemWrite
  <2>3. e \in Writes /\ e.bus = "memory" /\ e.at = a /\ e.byte = b /\ e.bank = banks.sram
    BY <1>1, <2>1, EntryTyped DEF Entry
  <2> HIDE DEF a, e, o
  <2>4. RamHolds'
    <3>1. ASSUME NEW k \in 0 .. RamSize - 1
          PROVE  At(ram', k) = Latest(log', RamWrites(k), 0)
      <4>1. e \in RamWrites(k) <=> a = k
        BY <2>3 DEF RamWrites
      <4>2. Latest(log', RamWrites(k), 0) = IF a = k THEN b ELSE Latest(log, RamWrites(k), 0)
        BY <1>1, <2>2, <2>3, <4>1, LatestAppended
      <4>3. At(ram', k) = IF a = k THEN b ELSE At(ram, k)
        <5>1. a = k => a < RamSize
          BY <1>2
        <5> QED
          BY <2>1, <5>1, AtPut
      <4> QED
        BY <4>2, <4>3 DEF RamHolds
    <3> QED
      BY <2>2, <3>1 DEF RamHolds
  <2>5. SramHolds'
    <3>1. ASSUME NEW k \in 0 .. SramLen - 1
          PROVE  At(sram', k) = Latest(log', SramCellWrites(k, SramLen), 0)
      <4>1. e \in SramCellWrites(k, SramLen) <=> a \in SramWindow /\ o = k
        BY <2>3 DEF SramCellWrites, o
      <4>2. Latest(log', SramCellWrites(k, SramLen), 0) =
              IF a \in SramWindow /\ o = k THEN b ELSE Latest(log, SramCellWrites(k, SramLen), 0)
        BY <1>1, <2>2, <2>3, <4>1, LatestAppended
      <4>3. At(sram', k) = IF a \in SramWindow /\ o = k THEN b ELSE At(sram, k)
        <5>1. SramLen # 0
          BY <1>2
        <5> QED
          BY <2>1, <5>1, AtPut
      <4> QED
        BY <4>2, <4>3 DEF SramHolds
    <3> QED
      BY <2>2, <3>1 DEF SramHolds
  <2>6. EepromHolds'
    <3>1. ASSUME NEW k \in 0 .. eeprom.size - 1
          PROVE  At(eeprom.store, k) = Latest(log', EepromCellWrites(k, eeprom.size), 0)
      <4>1. e \notin EepromCellWrites(k, eeprom.size)
        BY <2>3 DEF EepromCellWrites
      <4> QED
        BY <1>1, <2>2, <2>3, <4>1, LatestAppended DEF EepromHolds
    <3> QED
      BY <2>2, <3>1 DEF EepromHolds
  <2> QED
    BY <2>4, <2>5, <2>6
<1>5. ASSUME NEW p \in Word, NEW b \in Byte, IoStep(p, b)
      PROVE  RamHolds' /\ SramHolds' /\ EepromHolds'
  <2> DEFINE e == Entry("io", p, b)
             o == (2 * eeprom.address + (IF p = 187 THEN 1 ELSE 0)) % eeprom.size
  <2>1. /\ eeprom'.size = eeprom.size
        /\ eeprom'.store = IF p \in {186, 187} THEN Put(eeprom.store, o, b) ELSE eeprom.store
    BY <1>1, <1>5, EepromStores DEF IoStep
  <2>2. /\ log' = Append(log, e) /\ UNCHANGED << model, cart, ram, sram >>
        /\ RamSize' = RamSize /\ SramLen' = SramLen
    BY <1>5, SizesFixed DEF IoStep, IoWrite
  <2>3. e \in Writes /\ e.bus = "io" /\ e.at = p /\ e.byte = b /\ e.word = eeprom.address
    <3>1. p \in Nat
      BY WordsAreNaturals
    <3> QED
      BY <1>1, <3>1, EntryTyped DEF Entry
  <2> HIDE DEF e, o
  <2>4. RamHolds'
    <3>1. ASSUME NEW k \in 0 .. RamSize - 1
          PROVE  At(ram, k) = Latest(log', RamWrites(k), 0)
      <4>1. e \notin RamWrites(k)
        BY <2>3 DEF RamWrites
      <4> QED
        BY <1>1, <2>2, <2>3, <4>1, LatestAppended DEF RamHolds
    <3> QED
      BY <2>2, <3>1 DEF RamHolds
  <2>5. SramHolds'
    <3>1. ASSUME NEW k \in 0 .. SramLen - 1
          PROVE  At(sram, k) = Latest(log', SramCellWrites(k, SramLen), 0)
      <4>1. e \notin SramCellWrites(k, SramLen)
        BY <2>3 DEF SramCellWrites
      <4> QED
        BY <1>1, <2>2, <2>3, <4>1, LatestAppended DEF SramHolds
    <3> QED
      BY <2>2, <3>1 DEF SramHolds
  <2>6. EepromHolds'
    <3>1. ASSUME NEW k \in 0 .. eeprom.size - 1
          PROVE  At(eeprom'.store, k) = Latest(log', EepromCellWrites(k, eeprom.size), 0)
      <4>1. e \in EepromCellWrites(k, eeprom.size) <=> p \in {186, 187} /\ o = k
        BY <2>3 DEF EepromCellWrites, o
      <4>2. Latest(log', EepromCellWrites(k, eeprom.size), 0) =
              IF p \in {186, 187} /\ o = k THEN b ELSE Latest(log, EepromCellWrites(k, eeprom.size), 0)
        BY <1>1, <2>2, <2>3, <4>1, LatestAppended
      <4>3. At(eeprom'.store, k) = IF p \in {186, 187} /\ o = k THEN b ELSE At(eeprom.store, k)
        BY <2>1, AtPut
      <4> QED
        BY <4>2, <4>3 DEF EepromHolds
    <3> QED
      BY <2>1, <3>1 DEF EepromHolds
  <2> QED
    BY <2>4, <2>5, <2>6
<1> QED
  BY <1>3, <1>4, <1>5, TraceSteps

\* The two regions by their bounds.
LEMMA RegionBounds ==
  ASSUME NEW a \in Nat
  PROVE  /\ a \in RamRegion <=> a <= 65535
         /\ a \in SramWindow <=> 65536 <= a /\ a <= 131071
  BY RamRange, SramRange

\* A read of memory is of the cell its address names under the present bank.
LEMMA ReadsCell ==
  ASSUME TypeOK, NEW x \in Nat
  PROVE  LET a == x % 1048576
         IN  /\ a \in Nat
             /\ a < RamSize => Read(x) = At(ram, a)
             /\ a \in RamRegion /\ a >= RamSize => Read(x) = OpenBus
             /\ a \in SramWindow =>
                  Read(x) = IF SramLen = 0 THEN OpenBus
                            ELSE At(sram, (65536 * banks.sram + (a % 65536)) % SramLen)
<1> DEFINE a == x % 1048576
<1>1. a \in Nat
  BY ModBounds, SMT
<1>2. Cell(x) = CASE a \in RamRegion  -> RamCell(a)
                  [] a \in SramWindow -> SramCell(a)
                  [] OTHER           -> RomCell(a)
  BY DEF Cell
<1>3. RamSize \in Nat /\ RamSize <= 65536
  BY DEF RamSize
<1>4. Read(x) = CASE Cell(x)[1] = "ram"  -> At(ram, Cell(x)[2])
                  [] Cell(x)[1] = "sram" -> At(sram, Cell(x)[2])
                  [] Cell(x)[1] = "open" -> OpenBus
  BY DEF Read
<1> HIDE DEF a
<1>5. ASSUME a < RamSize PROVE Read(x) = At(ram, a)
  <2>1. a \in RamRegion
    BY <1>1, <1>3, <1>5, RegionBounds, SMT
  <2>2. Cell(x) = << "ram", a >>
    BY <1>1, <1>2, <1>5, <2>1, Windows DEF RamCell
  <2> QED
    BY <1>4, <2>2
<1>6. ASSUME a \in RamRegion, a >= RamSize PROVE Read(x) = OpenBus
  <2>1. a \in RamRegion /\ ~ (a < RamSize)
    BY <1>1, <1>3, <1>6
  <2>2. Cell(x) = << "open", 0 >>
    BY <1>1, <1>2, <2>1, Windows DEF RamCell, Nowhere
  <2> QED
    BY <1>4, <2>2
<1>7. ASSUME a \in SramWindow
      PROVE  Read(x) = IF SramLen = 0 THEN OpenBus
                       ELSE At(sram, (65536 * banks.sram + (a % 65536)) % SramLen)
  <2>1. Cell(x) = SramCell(a)
    BY <1>1, <1>2, <1>7, Windows
  <2>2. CASE SramLen = 0
    <3>1. Cell(x) = << "open", 0 >>
      BY <2>1, <2>2 DEF SramCell, Nowhere
    <3> QED
      BY <1>4, <2>2, <3>1
  <2>3. CASE SramLen # 0
    <3>1. Cell(x) = << "sram", SramOffset(a) >>
      BY <2>1, <2>3 DEF SramCell
    <3> QED
      BY <1>4, <2>3, <3>1 DEF SramOffset
  <2> QED
    BY <2>2, <2>3
<1> QED
  BY <1>1, <1>5, <1>6, <1>7 DEF a

\* Two accesses to the window are to the same cell if the distance of their banked
\* addresses is a multiple of the length of the chip.
LEMMA SameSramCell ==
  ASSUME TypeOK, NEW w \in Writes, w.at \in SramWindow, NEW a \in Nat, a \in SramWindow, SramLen # 0
  PROVE  (65536 * (w.bank - banks.sram) + (w.at - a)) % SramLen = 0
           <=> (65536 * w.bank + (w.at % 65536)) % SramLen
                 = (65536 * banks.sram + (a % 65536)) % SramLen
<1> DEFINE x == 65536 * w.bank + (w.at % 65536)
           y == 65536 * banks.sram + (a % 65536)
           n == SramLen
<1>1. /\ w.bank \in Int /\ banks.sram \in Int /\ w.at \in Nat
      /\ 65536 <= w.at /\ w.at <= 131071 /\ 65536 <= a /\ a <= 131071
  <2>1. w.bank \in Byte /\ banks.sram \in Byte /\ w.at \in Nat
    BY DEF Writes, TypeOK
  <2> QED
    BY <2>1, RegionBounds, SMT DEF Byte
<1>2. w.at % 65536 = w.at - 65536 /\ a % 65536 = a - 65536
  BY <1>1
<1>3. x \in Int /\ y \in Int
  BY <1>1
<1>4. n \in Nat \ {0}
  BY Sizes DEF TypeOK
<1>5. 65536 * (w.bank - banks.sram) + (w.at - a) = x - y
  <2> DEFINE p == w.bank
             q == banks.sram
             i == w.at
  <2>1. 65536 * (p - q) + (i - a) = (65536 * p + (i - 65536)) - (65536 * q + (a - 65536))
    <3> HIDE DEF p, q, i
    <3>1. p \in Int /\ q \in Int /\ i \in Int
      BY <1>1 DEF p, q, i
    <3> QED
      BY <3>1, SMT
  <2> QED
    BY <1>2, <2>1, SMT
<1> HIDE DEF x, y, n
<1>6. (x - y) % n = 0 <=> x % n = y % n
  BY <1>3, <1>4, SameRemainder
<1> QED
  BY <1>5, <1>6 DEF x, y, n

LEMMA StoresAtPowerUp ==
  TraceInit => RamHolds /\ SramHolds /\ EepromHolds
<1> SUFFICES ASSUME TraceInit PROVE RamHolds /\ SramHolds /\ EepromHolds
  OBVIOUS
<1>1. \A k : At(Zeroed, k) = 0
  BY DEF At, Zeroed
<1>2. ram = Zeroed /\ sram = Zeroed /\ eeprom.store = Zeroed /\ log = << >>
  BY DEF TraceInit, Init, NewEeprom
<1> QED
  BY <1>1, <1>2, LatestOfNone DEF RamHolds, SramHolds, EepromHolds

\* The writes that a read through the window should see are those of the cell it reads.
LEMMA SramWritesOfCell ==
  ASSUME TypeOK, NEW a \in Nat, a \in SramWindow, SramLen # 0
  PROVE  SramWrites(a) = SramCellWrites((65536 * banks.sram + (a % 65536)) % SramLen, SramLen)
<1> DEFINE o == (65536 * banks.sram + (a % 65536)) % SramLen
<1>1. ASSUME NEW w \in Writes
      PROVE  w \in SramWrites(a) <=> w \in SramCellWrites(o, SramLen)
  <2>1. CASE w.at \in SramWindow
    BY <2>1, SameSramCell DEF SramWrites, SramCellWrites
  <2>2. CASE w.at \notin SramWindow
    BY <2>2 DEF SramWrites, SramCellWrites
  <2> QED
    BY <2>1, <2>2
<1>2. SramWrites(a) \subseteq Writes /\ SramCellWrites(o, SramLen) \subseteq Writes
  BY DEF SramWrites, SramCellWrites
<1> HIDE DEF o
<1>3. SramWrites(a) = SramCellWrites(o, SramLen)
  BY <1>1, <1>2
<1> QED
  BY <1>3 DEF o

\* Two halves of words are the same cell if they are the same half and the words are equal
\* modulo the words of the chip.
LEMMA SamePair ==
  ASSUME NEW x \in Int, NEW y \in Int, NEW g \in {0, 1}, NEW h \in {0, 1}, NEW n \in {64, 1024}
  PROVE  (2 * x + g) % (2 * n) = (2 * y + h) % (2 * n) <=> g = h /\ (x - y) % n = 0
<1> DEFINE d == x - y
           j == g - h
<1>1. d \in Int /\ j \in {0, 1, -1} /\ (g = h <=> j = 0) /\ (2 * x + g) - (2 * y + h) = 2 * d + j
  OBVIOUS
<1>2. 2 * x + g \in Int /\ 2 * y + h \in Int /\ 2 * n \in Nat \ {0}
  OBVIOUS
<1>3. ((2 * x + g) - (2 * y + h)) % (2 * n) = 0 <=> (2 * x + g) % (2 * n) = (2 * y + h) % (2 * n)
  BY <1>2, SameRemainder
<1> HIDE DEF d, j
<1>4. (2 * d + j) % (2 * n) = 0 <=> j = 0 /\ d % n = 0
  <2>1. CASE n = 64
    BY <1>1, <2>1, SMT
  <2>2. CASE n = 1024
    BY <1>1, <2>2, SMT
  <2> QED
    BY <2>1, <2>2
<1>5. (2 * x + g) % (2 * n) = (2 * y + h) % (2 * n) <=> j = 0 /\ d % n = 0
  BY <1>1, <1>3, <1>4
<1> QED
  BY <1>1, <1>5 DEF d

\* Likewise for a data port of the EEPROM.
LEMMA HalfWordWritesOfCell ==
  ASSUME TypeOK, NEW port \in {186, 187}
  PROVE  LET o == (2 * eeprom.address + (IF port = 187 THEN 1 ELSE 0)) % eeprom.size
         IN  /\ o \in 0 .. eeprom.size - 1
             /\ IoRead(port) = At(eeprom.store, o)
             /\ HalfWordWrites(port) = EepromCellWrites(o, eeprom.size)
<1> DEFINE words == IF IsColor THEN 1024 ELSE 64
           half  == IF port = 187 THEN 1 ELSE 0
           o     == (2 * eeprom.address + half) % eeprom.size
<1>1. eeprom.address \in Nat /\ words \in {64, 1024} /\ eeprom.size = 2 * words
  <2>1. eeprom.address \in Word /\ eeprom.size = (IF IsColor THEN WscBytes ELSE WsBytes)
    BY DEF TypeOK
  <2> QED
    BY <2>1, WordsAreNaturals DEF WscBytes, WsBytes
<1>2. half \in {0, 1}
  OBVIOUS
<1>3. IoRead(port) = At(eeprom.store, o)
  <2>1. Route(port) = "eeprom"
    BY DEF Route
  <2>2. EepromRead(port) = DataByte(eeprom, port = 187)
    BY DEF EepromRead
  <2> QED
    BY <2>1, <2>2 DEF IoRead, DataByte, Offset
<1> HIDE DEF words
<1>4. o \in 0 .. eeprom.size - 1
  BY <1>1, <1>2
<1>5. ASSUME NEW w \in Writes
      PROVE  w \in HalfWordWrites(port) <=> w \in EepromCellWrites(o, eeprom.size)
  <2> DEFINE mine == IF w.at = 187 THEN 1 ELSE 0
  <2>1. w.word \in Nat
    BY WordsAreNaturals DEF Writes
  <2>2. w \in HalfWordWrites(port) <=>
          w.bus = "io" /\ w.at = port /\ (w.word - eeprom.address) % words = 0
    BY DEF HalfWordWrites, words
  <2>3. w \in EepromCellWrites(o, eeprom.size) <=>
          w.bus = "io" /\ w.at \in {186, 187} /\ (2 * w.word + mine) % (2 * words) = o
    BY <1>1 DEF EepromCellWrites
  <2>4. ASSUME w.at \in {186, 187}
        PROVE  (w.at = port /\ (w.word - eeprom.address) % words = 0)
                 <=> (2 * w.word + mine) % (2 * words) = o
    <3>1. mine \in {0, 1} /\ (w.at = port <=> half = mine)
      BY <2>4
    <3>2. o = (2 * eeprom.address + half) % (2 * words)
      BY <1>1
    <3> HIDE DEF half, mine, o
    <3>3. (2 * w.word + mine) % (2 * words) = (2 * eeprom.address + half) % (2 * words)
            <=> mine = half /\ (w.word - eeprom.address) % words = 0
      <4> DEFINE x == w.word
                 y == eeprom.address
      <4>1. x \in Int /\ y \in Int /\ mine \in {0, 1} /\ half \in {0, 1} /\ words \in {64, 1024}
        BY <1>1, <1>2, <2>1, <3>1
      <4> HIDE DEF x, y
      <4>2. (2 * x + mine) % (2 * words) = (2 * y + half) % (2 * words)
              <=> mine = half /\ (x - y) % words = 0
        BY <4>1, SamePair
      <4> QED
        BY <4>2 DEF x, y
    <3> QED
      BY <3>1, <3>2, <3>3
  <2> HIDE DEF mine, o
  <2> QED
    BY <2>2, <2>3, <2>4
<1>6. HalfWordWrites(port) \subseteq Writes /\ EepromCellWrites(o, eeprom.size) \subseteq Writes
  BY DEF HalfWordWrites, EepromCellWrites
<1>7. /\ o \in 0 .. eeprom.size - 1
      /\ IoRead(port) = At(eeprom.store, o)
      /\ HalfWordWrites(port) = EepromCellWrites(o, eeprom.size)
  <2> HIDE DEF o
  <2> QED
    BY <1>3, <1>4, <1>5, <1>6
<1> QED
  BY <1>7

\* Every store holds in every cell what was last stored there.
StoresHold == TraceOK /\ RamHolds /\ SramHolds /\ EepromHolds

LEMMA StoresAlwaysHold == TraceSpec => []StoresHold
<1>1. TraceInit => StoresHold
  BY TraceInitTyped, StoresAtPowerUp DEF StoresHold
<1>2. StoresHold /\ [TraceNext]_traceVars => StoresHold'
  BY TraceTyped, StoresStep DEF StoresHold
<1> QED
  BY <1>1, <1>2, PTL DEF TraceSpec

\* A read of work RAM or of the SRAM window returns the last byte stored in that cell,
\* through whichever bank it was stored and is seen, with mirrors at the size of the
\* chip, for every cartridge and every program (read_u8, write_u8).
THEOREM ReadsLastWrite == TraceSpec => []MemoryReadsLastWrite
<1>1. ASSUME StoresHold, NEW x \in workload.addresses, NEW a, a = x % 1048576
      PROVE  /\ a < RamSize => Read(x) = Latest(log, RamWrites(a), 0)
             /\ a \in RamRegion /\ a >= RamSize => Read(x) = OpenBus
             /\ a \in SramWindow =>
                  Read(x) = IF SramLen = 0 THEN OpenBus ELSE Latest(log, SramWrites(a), 0)
  <2> DEFINE o == (65536 * banks.sram + (a % 65536)) % SramLen
  <2>1. TypeOK /\ x \in Nat /\ RamHolds /\ SramHolds
    BY <1>1, WorkloadTyped DEF StoresHold, TraceOK
  <2>2. /\ a \in Nat
        /\ a < RamSize => Read(x) = At(ram, a)
        /\ a \in RamRegion /\ a >= RamSize => Read(x) = OpenBus
        /\ a \in SramWindow => Read(x) = IF SramLen = 0 THEN OpenBus ELSE At(sram, o)
    BY <1>1, <2>1, ReadsCell
  <2>3. ASSUME a < RamSize PROVE Read(x) = Latest(log, RamWrites(a), 0)
    <3>1. a \in 0 .. RamSize - 1
      BY <2>2, <2>3, SMT DEF RamSize
    <3> QED
      BY <2>1, <2>2, <2>3, <3>1 DEF RamHolds
  <2>4. ASSUME a \in SramWindow, SramLen # 0 PROVE Read(x) = Latest(log, SramWrites(a), 0)
    <3>1. SramLen \in Nat \ {0}
      BY <2>1, <2>4, Sizes DEF TypeOK
    <3> DEFINE y == 65536 * banks.sram + (a % 65536)
    <3>2. y \in Nat
      <4>1. banks.sram \in Nat /\ a % 65536 \in Nat
        BY <2>1, <2>2, BankFacts, ModBounds, SMT DEF TypeOK
      <4> QED
        BY <4>1, SMT
    <3>3. o \in 0 .. SramLen - 1
      <4> HIDE DEF y
      <4>1. y % SramLen \in 0 .. SramLen - 1
        BY <3>1, <3>2, ModBounds
      <4> QED
        BY <4>1 DEF y
    <3>4. SramWrites(a) = SramCellWrites(o, SramLen)
      BY <2>1, <2>2, <2>4, SramWritesOfCell
    <3> HIDE DEF o
    <3> QED
      BY <2>1, <2>2, <2>4, <3>3, <3>4 DEF SramHolds
  <2> QED
    BY <2>2, <2>3, <2>4
<1>2. StoresHold => MemoryReadsLastWrite
  BY <1>1 DEF MemoryReadsLastWrite
<1> QED
  BY <1>2, StoresAlwaysHold, PTL

\* A data port of the EEPROM reads the last byte written to that half of any word that is
\* equal to the addressed one modulo the words of the model's chip, for every program
\* (eeprom.rs, community bug 8).
THEOREM EepromReadsBack == TraceSpec => []EepromReadsLastWrite
<1>1. ASSUME StoresHold, NEW port \in {186, 187}
      PROVE  IoRead(port) = Latest(log, HalfWordWrites(port), 0)
  <2> DEFINE o == (2 * eeprom.address + (IF port = 187 THEN 1 ELSE 0)) % eeprom.size
  <2>1. /\ o \in 0 .. eeprom.size - 1
        /\ IoRead(port) = At(eeprom.store, o)
        /\ HalfWordWrites(port) = EepromCellWrites(o, eeprom.size)
    BY <1>1, HalfWordWritesOfCell DEF StoresHold, TraceOK
  <2> HIDE DEF o
  <2> QED
    BY <1>1, <2>1 DEF StoresHold, EepromHolds
<1>2. StoresHold => EepromReadsLastWrite
  BY <1>1 DEF EepromReadsLastWrite
<1> QED
  BY <1>2, StoresAlwaysHold, PTL

---------------------------------------------------------------------------------
(* The registers.                                                                 *)

\* What the record says of a register, and the writes that close the lockout.
Last(reg) == Latest(log, RegisterWrites(reg), PowerUpByte(reg))
Locks(w)  == w.bus = "io" /\ Register(w.at) = 160 /\ BitSet(w.byte, 0)

\* Every register that stores what is written to it holds what the record says, in the
\* bits it stores.
PoolHolds == \A r \in 0 .. 3 : ReadPool(palette, r) = Last(28 + r)
Colour(p, r, c) == p.palettes[PaletteOf(r)][ColourOf(r) + c]
ColoursHold ==
  \A r \in 0 .. 31 :
    /\ Colour(palette, r, 1) = (Last(32 + r) \div 16) % 8
    /\ ~Protected(r) => Colour(palette, r, 0) = Last(32 + r) % 8
ControlHolds == systemCtrl \div 4 = (Last(160) \div 4) % 4
LatchHolds   == BitSet(systemCtrl, 0) <=> \E k \in 1 .. Len(log) : Locks(log[k])
AddressHolds == eeprom.address = 256 * Last(189) + Last(188)
CommandHolds == eeprom.command = Last(190)
BanksHold    == \A port \in 192 .. 195 : banks[RegBank(port)] = Last(port)

\* What the record says is a byte, and a write changes it for the register written alone.
LEMMA LastTyped == ASSUME TraceOK, NEW reg PROVE Last(reg) \in Byte
<1>1. PowerUpByte(reg) \in Byte
  BY SMT DEF PowerUpByte, Byte, MaxByte
<1> QED
  BY <1>1, LatestTyped DEF Last, TraceOK

LEMMA LastWritten ==
  ASSUME TraceOK, NEW p \in Word, NEW b \in Byte, IoStep(p, b), NEW reg
  PROVE  Last(reg)' = IF Register(p) = reg THEN b ELSE Last(reg)
<1> DEFINE e == Entry("io", p, b)
           power == PowerUpByte(reg)
<1>1. e \in Writes /\ e.bus = "io" /\ e.at = p /\ e.byte = b
  <2>1. p \in Nat
    BY WordsAreNaturals
  <2> QED
    BY <2>1, EntryTyped DEF Entry, TraceOK
<1>2. log' = Append(log, e) /\ log \in Seq(Writes) /\ UNCHANGED cart
  BY DEF IoStep, TraceOK, IoWrite
<1>3. power' = power
  BY <1>2 DEF PowerUpByte
<1> HIDE DEF e, power
<1>4. e \in RegisterWrites(reg) <=> Register(p) = reg
  BY <1>1 DEF RegisterWrites
<1>5. Latest(log', RegisterWrites(reg), power) =
        IF Register(p) = reg THEN b ELSE Latest(log, RegisterWrites(reg), power)
  BY <1>1, <1>2, <1>4, LatestAppended
<1> QED
  BY <1>3, <1>5 DEF Last, power

LEMMA LastKept ==
  ASSUME TraceOK, NEW a \in Nat, NEW b \in Byte, MemStep(a, b), NEW reg
  PROVE  Last(reg)' = Last(reg)
<1> DEFINE e == Entry("memory", a % 1048576, b)
           power == PowerUpByte(reg)
<1>1. e \in Writes /\ e.bus = "memory"
  <2>1. a % 1048576 \in Nat
    BY ModBounds, SMT
  <2> QED
    BY <2>1, EntryTyped DEF Entry, TraceOK
<1>2. log' = Append(log, e) /\ log \in Seq(Writes) /\ UNCHANGED cart
  BY DEF MemStep, TraceOK, MemWrite
<1>3. power' = power
  BY <1>2 DEF PowerUpByte
<1> HIDE DEF e, power
<1>4. e \notin RegisterWrites(reg)
  BY <1>1 DEF RegisterWrites
<1>5. Latest(log', RegisterWrites(reg), power) = Latest(log, RegisterWrites(reg), power)
  BY <1>1, <1>2, <1>4, LatestAppended
<1> QED
  BY <1>3, <1>5 DEF Last, power

\* Whichever block a port decodes to, the write is one to its register.
LEMMA RegistersAfter ==
  ASSUME NEW p \in Word, NEW b \in Byte, IoWrite(p, b)
  PROVE  /\ Register(p) \in Nat
         /\ palette' = PaletteAfter(Register(p), b)
         /\ systemCtrl' = SystemCtrlAfter(Register(p), b)
         /\ eeprom' = EepromAfter(Register(p), b)
         /\ banks' = BanksAfter(Register(p), b)
<1> DEFINE r == Register(p)
<1>1. r \in Nat /\ (p \in 184 .. 255 => r = p) /\ (r \in 184 .. 255 => p = r)
  BY Routes
<1>2. r \notin 28 .. 31 /\ r \notin 32 .. 63 => PaletteAfter(r, b) = palette
  BY DEF PaletteAfter
<1>3. r # 160 => SystemCtrlAfter(r, b) = systemCtrl
  BY DEF SystemCtrlAfter
<1>4. r \notin 184 .. 191 => EepromAfter(r, b) = eeprom
  BY <1>1 DEF EepromAfter
<1>5. r \notin 192 .. 255 => BanksAfter(r, b) = banks
  BY <1>1 DEF BanksAfter
<1>6. CASE p \in 184 .. 191
  <2>1. r = p /\ r \in 184 .. 191 /\ r \notin 192 .. 255 /\ r \notin 28 .. 31 /\ r \notin 32 .. 63 /\ r # 160
    BY <1>1, <1>6
  <2>2. EepromWrite(p, b)
    BY <1>6, IoSteps
  <2> QED
    BY <1>1, <1>2, <1>3, <1>5, <2>1, <2>2 DEF EepromWrite
<1>7. CASE p \in 192 .. 255
  <2>1. r = p /\ r \notin 184 .. 191 /\ r \notin 28 .. 31 /\ r \notin 32 .. 63 /\ r # 160
    BY <1>1, <1>7
  <2>2. CartWrite(p, b)
    BY <1>7, IoSteps
  <2> QED
    BY <1>1, <1>2, <1>3, <1>4, <2>1, <2>2 DEF CartWrite
<1>8. CASE p \notin 184 .. 255 /\ r <= 183
  <2>1. SocWrite(r, b)
    BY <1>8, IoSteps
  <2>2. r \notin 184 .. 191 /\ r \notin 192 .. 255
    BY <1>1, <1>8
  <2> QED
    BY <1>1, <1>4, <1>5, <2>1, <2>2 DEF SocWrite
<1>9. CASE p \notin 184 .. 255 /\ r > 183
  <2>1. UNCHANGED << banks, systemCtrl, palette, noise, eeprom >>
    BY <1>9, IoSteps
  <2>2. r \notin 184 .. 255
    BY <1>1, <1>9
  <2>3. r \notin 184 .. 191 /\ r \notin 192 .. 255 /\ r \notin 28 .. 31 /\ r \notin 32 .. 63 /\ r # 160
    BY <1>1, <1>9, <2>2
  <2> QED
    BY <1>1, <1>2, <1>3, <1>4, <1>5, <2>1, <2>3
<1>10. p \in 184 .. 191 \/ p \in 192 .. 255 \/ p \notin 184 .. 255
  BY WordsAreNaturals
<1>11. r <= 183 \/ r > 183
  BY <1>1
<1> QED
  BY <1>6, <1>7, <1>8, <1>9, <1>10, <1>11

\* A write to a pool or palette register sets what that register reads, and no other.
LEMMA PoolWritten ==
  ASSUME NEW p \in PalettesType, NEW q \in 0 .. 3, NEW r \in 0 .. 3, NEW b \in Byte
  PROVE  ReadPool(WritePool(p, q, b), r) = IF r = q THEN b ELSE ReadPool(p, r)
<1> DEFINE new == WritePool(p, q, b).pool
<1>1. p.pool \in [ 0 .. 7 -> 0 .. 15 ] /\ b \in Int
  BY DEF PalettesType, Byte
<1>2. /\ 2 * r \in 0 .. 7 /\ 2 * r + 1 \in 0 .. 7 /\ 2 * q \in 0 .. 7 /\ 2 * q + 1 \in 0 .. 7
      /\ 2 * r # 2 * q + 1 /\ 2 * r + 1 # 2 * q
      /\ (2 * r = 2 * q <=> r = q) /\ (2 * r + 1 = 2 * q + 1 <=> r = q)
  OBVIOUS
<1>3. new = [ p.pool EXCEPT ![2 * q] = b % 16, ![2 * q + 1] = b \div 16 ]
  BY DEF WritePool, PalettesType
<1>4. (b % 16) + 16 * (b \div 16) = b
  BY <1>1
<1> HIDE DEF new
<1>5. new[2 * r] = (IF r = q THEN b % 16 ELSE p.pool[2 * r])
  BY <1>1, <1>2, <1>3, Zenon
<1>6. new[2 * r + 1] = (IF r = q THEN b \div 16 ELSE p.pool[2 * r + 1])
  BY <1>1, <1>2, <1>3, Zenon
<1>7. ReadPool(WritePool(p, q, b), r) = new[2 * r] + 16 * new[2 * r + 1]
  BY DEF ReadPool, new
<1> QED
  BY <1>4, <1>5, <1>6, <1>7 DEF ReadPool

LEMMA ColourWritten ==
  ASSUME NEW p \in PalettesType, NEW q \in 0 .. 31, NEW r \in 0 .. 31, NEW b \in Byte
  PROVE  LET new == WritePalette(p, q, b)
         IN  /\ Colour(new, r, 1) = IF r = q THEN (b \div 16) % 8 ELSE Colour(p, r, 1)
             /\ Colour(new, r, 0) = IF r = q /\ ~Protected(q) THEN b % 8 ELSE Colour(p, r, 0)
<1> DEFINE new == WritePalette(p, q, b)
           k   == PaletteOf(q)
           c   == ColourOf(q)
           row == p.palettes[k]
<1>1. k \in 0 .. 15 /\ c \in {0, 2} /\ PaletteOf(r) \in 0 .. 15 /\ ColourOf(r) \in {0, 2}
  BY PaletteRegisters
<1>2. r = q <=> PaletteOf(r) = k /\ ColourOf(r) = c
  BY DEF PaletteOf, ColourOf
<1>3. row \in [ 0 .. 3 -> 0 .. 7 ] /\ p.palettes \in [ 0 .. 15 -> [ 0 .. 3 -> 0 .. 7 ] ]
  BY <1>1 DEF PalettesType
<1>4. new.palettes = [ p.palettes EXCEPT ![k] = WithRegister(row, q, b) ]
  BY DEF WritePalette, PalettesType
<1>5. WithRegister(row, q, b) = [ row EXCEPT ![c]     = IF Protected(q) THEN row[c] ELSE b % 8,
                                             ![c + 1] = (b \div 16) % 8 ]
  BY DEF WithRegister
<1> HIDE DEF new, k, c
<1>6. CASE PaletteOf(r) # k
  <2>1. new.palettes[PaletteOf(r)] = p.palettes[PaletteOf(r)]
    BY <1>1, <1>3, <1>4, <1>6
  <2> QED
    BY <1>2, <1>6, <2>1 DEF Colour, new
<1>7. CASE PaletteOf(r) = k
  <2>1. new.palettes[PaletteOf(r)] = WithRegister(row, q, b) /\ p.palettes[PaletteOf(r)] = row
    BY <1>1, <1>3, <1>4, <1>7
  <2> DEFINE after == WithRegister(row, q, b)
  <2> HIDE DEF row
  <2>2. /\ after[c + 1] = (b \div 16) % 8
        /\ after[c] = IF Protected(q) THEN row[c] ELSE b % 8
        /\ \A i \in 0 .. 3 : i # c /\ i # c + 1 => after[i] = row[i]
    BY <1>1, <1>3, <1>5
  <2> HIDE DEF after
  <2>3. /\ Colour(new, r, 0) = after[ColourOf(r)] /\ Colour(new, r, 1) = after[ColourOf(r) + 1]
        /\ Colour(p, r, 0) = row[ColourOf(r)] /\ Colour(p, r, 1) = row[ColourOf(r) + 1]
    BY <1>1, <2>1 DEF Colour, after
  <2>4. CASE ColourOf(r) = c
    BY <1>2, <1>7, <2>2, <2>3, <2>4 DEF new
  <2>5. CASE ColourOf(r) # c
    <3>1. /\ ColourOf(r) \in 0 .. 3 /\ ColourOf(r) + 1 \in 0 .. 3 /\ ColourOf(r) # c + 1
          /\ ColourOf(r) + 1 # c /\ ColourOf(r) + 1 # c + 1
      BY <1>1, <2>5
    <3> QED
      BY <1>2, <2>2, <2>3, <2>5, <3>1 DEF new
  <2> QED
    BY <2>4, <2>5
<1> QED
  BY <1>6, <1>7

\* Each block of registers follows the record.
LEMMA PoolStep ==
  ASSUME TraceOK, PoolHolds, NEW p \in Word, NEW b \in Byte, IoStep(p, b)
  PROVE  PoolHolds'
<1> DEFINE q == Register(p)
<1>1. palette \in PalettesType /\ palette' = PaletteAfter(q, b) /\ q \in Nat
  BY TypeParts, RegistersAfter DEF TraceOK, IoStep
<1>2. \A reg : Last(reg)' = IF q = reg THEN b ELSE Last(reg)
  BY LastWritten
<1> HIDE DEF q
<1>3. ASSUME NEW r \in 0 .. 3 PROVE ReadPool(palette', r) = Last(28 + r)'
  <2>1. Last(28 + r)' = IF q = 28 + r THEN b ELSE Last(28 + r)
    BY <1>2
  <2>2. ReadPool(palette, r) = Last(28 + r)
    BY DEF PoolHolds
  <2>3. CASE q \in 28 .. 31
    <3>1. palette' = WritePool(palette, q - 28, b)
      BY <1>1, <2>3 DEF PaletteAfter
    <3>2. q - 28 \in 0 .. 3 /\ (r = q - 28 <=> q = 28 + r)
      BY <2>3
    <3>3. ReadPool(palette', r) = IF r = q - 28 THEN b ELSE ReadPool(palette, r)
      BY <1>1, <3>1, <3>2, PoolWritten
    <3> QED
      BY <2>1, <2>2, <3>2, <3>3
  <2>4. CASE q \in 32 .. 63
    <3>1. palette' = WritePalette(palette, q - 32, b) /\ q # 28 + r
      BY <1>1, <2>4 DEF PaletteAfter
    <3>2. palette'.pool = palette.pool
      BY <1>1, <3>1 DEF WritePalette, PalettesType
    <3> QED
      BY <2>1, <2>2, <3>1, <3>2 DEF ReadPool
  <2>5. CASE q \notin 28 .. 31 /\ q \notin 32 .. 63
    <3>1. palette' = palette /\ q # 28 + r
      BY <1>1, <2>5 DEF PaletteAfter
    <3> QED
      BY <2>1, <2>2, <3>1
  <2> QED
    BY <2>3, <2>4, <2>5
<1> QED
  BY <1>3 DEF PoolHolds

LEMMA ColoursStep ==
  ASSUME TraceOK, ColoursHold, NEW p \in Word, NEW b \in Byte, IoStep(p, b)
  PROVE  ColoursHold'
<1> DEFINE q == Register(p)
<1>1. palette \in PalettesType /\ palette' = PaletteAfter(q, b) /\ q \in Nat
  BY TypeParts, RegistersAfter DEF TraceOK, IoStep
<1>2. \A reg : Last(reg)' = IF q = reg THEN b ELSE Last(reg)
  BY LastWritten
<1> HIDE DEF q
<1>3. ASSUME NEW r \in 0 .. 31
      PROVE  /\ Colour(palette', r, 1) = (Last(32 + r)' \div 16) % 8
             /\ ~Protected(r) => Colour(palette', r, 0) = Last(32 + r)' % 8
  <2>1. Last(32 + r)' = IF q = 32 + r THEN b ELSE Last(32 + r)
    BY <1>2
  <2>2. /\ Colour(palette, r, 1) = (Last(32 + r) \div 16) % 8
        /\ ~Protected(r) => Colour(palette, r, 0) = Last(32 + r) % 8
    BY DEF ColoursHold
  <2>3. CASE q \in 32 .. 63
    <3>1. palette' = WritePalette(palette, q - 32, b)
      BY <1>1, <2>3 DEF PaletteAfter
    <3>2. q - 32 \in 0 .. 31 /\ (r = q - 32 <=> q = 32 + r)
      BY <2>3
    <3> DEFINE x == q - 32
               new == WritePalette(palette, x, b)
    <3>3. x \in 0 .. 31 /\ palette' = new /\ (r = x <=> q = 32 + r)
      BY <3>1, <3>2
    <3> HIDE DEF x
    <3>4. /\ Colour(new, r, 1) = IF r = x THEN (b \div 16) % 8 ELSE Colour(palette, r, 1)
          /\ Colour(new, r, 0) = IF r = x /\ ~Protected(x) THEN b % 8 ELSE Colour(palette, r, 0)
      BY <1>1, <3>3, ColourWritten, Zenon
    <3> HIDE DEF new
    <3> QED
      BY <2>1, <2>2, <3>3, <3>4
  <2>4. CASE q \in 28 .. 31
    <3>1. palette' = WritePool(palette, q - 28, b) /\ q # 32 + r
      BY <1>1, <2>4 DEF PaletteAfter
    <3>2. palette'.palettes = palette.palettes
      BY <1>1, <3>1 DEF WritePool, PalettesType
    <3> QED
      BY <2>1, <2>2, <3>1, <3>2 DEF Colour
  <2>5. CASE q \notin 28 .. 31 /\ q \notin 32 .. 63
    <3>1. palette' = palette /\ q # 32 + r
      BY <1>1, <2>5 DEF PaletteAfter
    <3> QED
      BY <2>1, <2>2, <3>1
  <2> QED
    BY <2>3, <2>4, <2>5
<1> QED
  BY <1>3 DEF ColoursHold

LEMMA ControlStep ==
  ASSUME TraceOK, ControlHolds, NEW p \in Word, NEW b \in Byte, IoStep(p, b)
  PROVE  ControlHolds'
<1> DEFINE q == Register(p)
<1>1. systemCtrl' = SystemCtrlAfter(q, b)
  BY RegistersAfter DEF IoStep
<1>2. Last(160)' = IF q = 160 THEN b ELSE Last(160)
  BY LastWritten
<1> HIDE DEF q
<1>3. WithSystemCtrl(systemCtrl, b) \div 4 = (b \div 4) % 4
  <2> DEFINE latch == IF BitSet(systemCtrl, 0) \/ BitSet(b, 0) THEN 1 ELSE 0
             free  == (b \div 4) % 4
  <2>1. latch \in {0, 1} /\ free \in 0 .. 3
    BY DEF Byte, MaxByte
  <2>2. WithSystemCtrl(systemCtrl, b) = latch + 4 * free
    BY DEF WithSystemCtrl
  <2> HIDE DEF latch, free
  <2>3. (latch + 4 * free) \div 4 = free
    BY <2>1
  <2> QED
    BY <2>2, <2>3 DEF free
<1> QED
  BY <1>1, <1>2, <1>3 DEF ControlHolds, SystemCtrlAfter

\* The lockout bit is set by a write that locks, and no other write clears it.
LEMMA LatchStep ==
  ASSUME TraceOK, LatchHolds, NEW p \in Word, NEW b \in Byte, IoStep(p, b)
  PROVE  LatchHolds'
<1> DEFINE q == Register(p)
           e == Entry("io", p, b)
<1>1. systemCtrl' = SystemCtrlAfter(q, b)
  BY RegistersAfter DEF IoStep
<1>2. log' = Append(log, e) /\ log \in Seq(Writes)
  BY DEF IoStep, TraceOK
<1>3. Locks(e) <=> q = 160 /\ BitSet(b, 0)
  BY DEF Locks, Entry
<1> HIDE DEF q, e
<1>4. /\ Len(log) \in Nat /\ Len(log') = Len(log) + 1 /\ log'[Len(log) + 1] = e
      /\ \A k \in 1 .. Len(log) : log'[k] = log[k]
  BY <1>2
<1>5. (\E k \in 1 .. Len(log') : Locks(log'[k]))
        <=> Locks(e) \/ \E k \in 1 .. Len(log) : Locks(log[k])
  BY <1>4
<1>6. BitSet(WithSystemCtrl(systemCtrl, b), 0) <=> BitSet(systemCtrl, 0) \/ BitSet(b, 0)
  <2> DEFINE latch == IF BitSet(systemCtrl, 0) \/ BitSet(b, 0) THEN 1 ELSE 0
             free  == (b \div 4) % 4
  <2>1. /\ latch \in {0, 1} /\ free \in 0 .. 3
        /\ latch = 1 <=> BitSet(systemCtrl, 0) \/ BitSet(b, 0)
    BY DEF Byte, MaxByte
  <2>2. WithSystemCtrl(systemCtrl, b) = latch + 4 * free
    BY DEF WithSystemCtrl
  <2> HIDE DEF latch, free
  <2>3. BitSet(latch + 4 * free, 0) <=> latch = 1
    BY <2>1 DEF BitSet
  <2> QED
    BY <2>1, <2>2, <2>3
<1> QED
  BY <1>1, <1>3, <1>5, <1>6 DEF LatchHolds, SystemCtrlAfter

LEMMA EepromStep ==
  ASSUME TraceOK, AddressHolds, CommandHolds, NEW p \in Word, NEW b \in Byte, IoStep(p, b)
  PROVE  AddressHolds' /\ CommandHolds'
<1> DEFINE q == Register(p)
           high == Last(189)
           low  == Last(188)
<1>1. eeprom' = EepromAfter(q, b) /\ q \in Nat
  BY RegistersAfter DEF IoStep
<1>2. \A reg : Last(reg)' = IF q = reg THEN b ELSE Last(reg)
  BY LastWritten
<1>3. EepromType(eeprom)
  BY TypeParts DEF TraceOK
<1>4. high \in Byte /\ low \in Byte /\ eeprom.address = 256 * high + low
  BY LastTyped DEF AddressHolds
<1> HIDE DEF q, high, low
<1>5. HighByte(eeprom.address) = high /\ LowByte(eeprom.address) = low
  BY <1>4 DEF HighByte, LowByte, Byte, MaxByte
<1>6. eeprom'.address = 256 * (IF q = 189 THEN b ELSE high) + (IF q = 188 THEN b ELSE low)
  <2>1. CASE q = 189
    <3>1. eeprom' = [ eeprom EXCEPT !.address = WithHigh(@, b) ]
      BY <1>1, <2>1 DEF EepromAfter, SetAddr
    <3> QED
      BY <1>3, <1>5, <2>1, <3>1 DEF WithHigh, EepromType
  <2>2. CASE q = 188
    <3>1. eeprom' = [ eeprom EXCEPT !.address = WithLow(@, b) ]
      BY <1>1, <2>2 DEF EepromAfter, SetAddr
    <3> QED
      BY <1>3, <1>5, <2>2, <3>1 DEF WithLow, EepromType
  <2>3. CASE q \notin {188, 189}
    <3>1. eeprom'.address = eeprom.address
      BY <1>1, <1>3, <2>3 DEF EepromAfter, WriteData, SetCommand, EepromType
    <3> QED
      BY <1>4, <2>3, <3>1
  <2> QED
    BY <2>1, <2>2, <2>3
<1>7. AddressHolds'
  BY <1>2, <1>6 DEF AddressHolds, high, low
<1>8. eeprom'.command = IF q = 190 THEN b ELSE eeprom.command
  <2>1. CASE q = 190
    BY <1>1, <1>3, <2>1 DEF EepromAfter, SetCommand, EepromType
  <2>2. CASE q # 190
    BY <1>1, <1>3, <2>2 DEF EepromAfter, WriteData, SetAddr, EepromType
  <2> QED
    BY <2>1, <2>2
<1>9. CommandHolds'
  BY <1>2, <1>8 DEF CommandHolds
<1> QED
  BY <1>7, <1>9

LEMMA BanksStep ==
  ASSUME TraceOK, BanksHold, NEW p \in Word, NEW b \in Byte, IoStep(p, b)
  PROVE  BanksHold'
<1> DEFINE q == Register(p)
<1>1. banks' = BanksAfter(q, b) /\ q \in Nat /\ banks \in [ { "linear", "sram", "rom0", "rom1" } -> Byte ]
  BY RegistersAfter DEF IoStep, TraceOK, TypeOK
<1>2. \A reg : Last(reg)' = IF q = reg THEN b ELSE Last(reg)
  BY LastWritten
<1>3. \A i \in 192 .. 195, j \in 192 .. 195 :
        RegBank(i) \in { "linear", "sram", "rom0", "rom1" } /\ (RegBank(i) = RegBank(j) <=> i = j)
  BY DEF RegBank
<1> HIDE DEF q
<1>4. ASSUME NEW port \in 192 .. 195
      PROVE  banks'[RegBank(port)] = IF q = port THEN b ELSE banks[RegBank(port)]
  <2>1. CASE q \in 192 .. 195
    BY <1>1, <1>3, <2>1 DEF BanksAfter
  <2>2. CASE q \notin 192 .. 195
    BY <1>1, <2>2 DEF BanksAfter
  <2> QED
    BY <2>1, <2>2
<1> QED
  BY <1>2, <1>4 DEF BanksHold

\* At power-up the record is empty and the registers hold their power-up values.
RegistersHold ==
  /\ PoolHolds /\ ColoursHold /\ ControlHolds /\ LatchHolds
  /\ AddressHolds /\ CommandHolds /\ BanksHold

LEMMA RegistersAtPowerUp == TraceInit => RegistersHold
<1> SUFFICES ASSUME TraceInit PROVE RegistersHold
  OBVIOUS
<1>1. \A reg : Last(reg) = PowerUpByte(reg)
  BY LatestOfNone DEF TraceInit, Last
<1>2. \A reg \in 0 .. 191 : reg # 160 => PowerUpByte(reg) = 0
  BY DEF PowerUpByte
<1>3. PoolHolds
  <2>1. ASSUME NEW r \in 0 .. 3 PROVE ReadPool(palette, r) = 0
    BY DEF ReadPool, TraceInit, Init, NewPalettes
  <2> QED
    BY <1>1, <1>2, <2>1 DEF PoolHolds
<1>4. ColoursHold
  <2>1. ASSUME NEW r \in 0 .. 31 PROVE Colour(palette, r, 0) = 0 /\ Colour(palette, r, 1) = 0
    <3>1. PaletteOf(r) \in 0 .. 15 /\ ColourOf(r) \in {0, 2}
      BY PaletteRegisters
    <3> QED
      BY <3>1 DEF Colour, TraceInit, Init, NewPalettes
  <2> QED
    BY <1>1, <1>2, <2>1 DEF ColoursHold
<1>5. ControlHolds
  BY <1>1 DEF ControlHolds, PowerUpByte, TraceInit, Init
<1>6. LatchHolds
  <2>1. ~ BitSet(systemCtrl, 0)
    BY DEF BitSet, TraceInit, Init
  <2> QED
    BY <2>1 DEF LatchHolds, TraceInit
<1>7. AddressHolds /\ CommandHolds
  <2>1. Last(188) = 0 /\ Last(189) = 0 /\ Last(190) = 0
    BY <1>1, <1>2
  <2>2. eeprom.address = 0 /\ eeprom.command = 0
    BY DEF TraceInit, Init, NewEeprom
  <2> QED
    BY <2>1, <2>2 DEF AddressHolds, CommandHolds
<1>8. BanksHold
  BY <1>1 DEF BanksHold, PowerUpByte, RegBank, TraceInit, Init, PowerUp
<1> QED
  BY <1>3, <1>4, <1>5, <1>6, <1>7, <1>8 DEF RegistersHold

LEMMA RegistersStep ==
  ASSUME TraceOK, RegistersHold, [TraceNext]_traceVars
  PROVE  RegistersHold'
<1> USE DEF RegistersHold
<1>1. CASE UNCHANGED vars /\ log' = log
  <2>1. \A reg : Last(reg)' = Last(reg)
    BY <1>1 DEF vars, Last, PowerUpByte
  <2>2. PoolHolds' /\ ColoursHold'
    BY <1>1, <2>1 DEF vars, PoolHolds, ColoursHold
  <2> QED
    BY <1>1, <2>1, <2>2 DEF vars, ControlHolds, LatchHolds, AddressHolds, CommandHolds, BanksHold
<1>2. ASSUME NEW a \in Nat, NEW b \in Byte, MemStep(a, b) PROVE RegistersHold'
  <2> DEFINE e == Entry("memory", a % 1048576, b)
  <2>1. \A reg : Last(reg)' = Last(reg)
    BY <1>2, LastKept
  <2>2. UNCHANGED << banks, systemCtrl, palette, eeprom >> /\ log' = Append(log, e) /\ log \in Seq(Writes)
    BY <1>2 DEF MemStep, MemWrite, TraceOK
  <2>3. ~ Locks(e)
    BY DEF Locks, Entry
  <2> HIDE DEF e
  <2>4. (\E k \in 1 .. Len(log') : Locks(log'[k])) <=> (\E k \in 1 .. Len(log) : Locks(log[k]))
    <3>1. /\ Len(log) \in Nat /\ Len(log') = Len(log) + 1 /\ log'[Len(log) + 1] = e
          /\ \A k \in 1 .. Len(log) : log'[k] = log[k]
      BY <2>2
    <3> QED
      BY <2>3, <3>1
  <2>5. PoolHolds' /\ ColoursHold'
    BY <2>1, <2>2 DEF PoolHolds, ColoursHold
  <2> QED
    BY <2>1, <2>2, <2>4, <2>5 DEF ControlHolds, LatchHolds, AddressHolds, CommandHolds, BanksHold
<1>3. ASSUME NEW p \in Word, NEW b \in Byte, IoStep(p, b) PROVE RegistersHold'
  BY <1>3, PoolStep, ColoursStep, ControlStep, LatchStep, EepromStep, BanksStep
<1> QED
  BY <1>1, <1>2, <1>3, TraceSteps

\* Which bits the reads of the registers share with the bytes they were written.
LEMMA SameByteAgrees == \A x, mask : Agree(x, x, mask)
  BY DEF Agree

LEMMA MaskBits ==
  /\ \A n \in 0 .. 7 : ~ BitSet(0, n)
  /\ \A n \in 0 .. 7 : BitSet(12, n) <=> n \in {2, 3}
  /\ \A n \in 0 .. 7 : BitSet(15, n) <=> n \in 0 .. 3
  /\ \A n \in 0 .. 7 : BitSet(63, n) <=> n \in 0 .. 5
  /\ \A n \in 0 .. 7 : BitSet(112, n) <=> n \in {4, 5, 6}
  /\ \A n \in 0 .. 7 : BitSet(119, n) <=> n \in {0, 1, 2, 4, 5, 6}
  /\ \A n \in 0 .. 7 : BitSet(252, n) <=> n \in 2 .. 7
<1>1. \A n \in 0 .. 7 : n \in {0, 1, 2, 3, 4, 5, 6, 7}
  OBVIOUS
<1>2. ASSUME NEW m \in {0, 12, 15, 63, 112, 119, 252}
      PROVE  /\ BitSet(m, 0) <=> m \in {15, 63, 119}
             /\ BitSet(m, 1) <=> m \in {15, 63, 119}
             /\ BitSet(m, 2) <=> m \in {12, 15, 63, 119, 252}
             /\ BitSet(m, 3) <=> m \in {12, 15, 63, 252}
             /\ BitSet(m, 4) <=> m \in {63, 112, 119, 252}
             /\ BitSet(m, 5) <=> m \in {63, 112, 119, 252}
             /\ BitSet(m, 6) <=> m \in {112, 119, 252}
             /\ BitSet(m, 7) <=> m \in {252}
  BY DEF BitSet
<1> QED
  BY <1>1, <1>2

LEMMA ControlBits ==
  ASSUME NEW x \in Nat, NEW y \in Nat, (x \div 4) % 4 = (y \div 4) % 4
  PROVE  Agree(x, y, 12)
<1>1. BitSet(x, 2) = BitSet(y, 2)
  BY DEF BitSet
<1>2. BitSet(x, 3) = BitSet(y, 3)
  BY DEF BitSet
<1> QED
  BY <1>1, <1>2, MaskBits DEF Agree

LEMMA BankBits ==
  ASSUME NEW y \in Byte
  PROVE  Agree(y % 64, y, 63) /\ Agree(y % 16, y, 15)
<1>1. \A n \in 0 .. 5 : BitSet(y % 64, n) = BitSet(y, n)
  <2>1. /\ BitSet(y % 64, 0) = BitSet(y, 0) /\ BitSet(y % 64, 1) = BitSet(y, 1)
        /\ BitSet(y % 64, 2) = BitSet(y, 2) /\ BitSet(y % 64, 3) = BitSet(y, 3)
        /\ BitSet(y % 64, 4) = BitSet(y, 4) /\ BitSet(y % 64, 5) = BitSet(y, 5)
    <3>0. y \in Int /\ 0 <= y
      BY DEF Byte, MaxByte
    <3>1. BitSet(y % 64, 0) = BitSet(y, 0)
      BY <3>0 DEF BitSet
    <3>2. BitSet(y % 64, 1) = BitSet(y, 1)
      BY <3>0 DEF BitSet
    <3>3. BitSet(y % 64, 2) = BitSet(y, 2)
      BY <3>0 DEF BitSet
    <3>4. BitSet(y % 64, 3) = BitSet(y, 3)
      BY <3>0 DEF BitSet
    <3>5. BitSet(y % 64, 4) = BitSet(y, 4)
      BY <3>0 DEF BitSet
    <3>6. BitSet(y % 64, 5) = BitSet(y, 5)
      BY <3>0 DEF BitSet
    <3> QED
      BY <3>1, <3>2, <3>3, <3>4, <3>5, <3>6
  <2> QED
    BY <2>1
<1>2. \A n \in 0 .. 3 : BitSet(y % 16, n) = BitSet(y, n)
  <2>1. /\ BitSet(y % 16, 0) = BitSet(y, 0) /\ BitSet(y % 16, 1) = BitSet(y, 1)
        /\ BitSet(y % 16, 2) = BitSet(y, 2) /\ BitSet(y % 16, 3) = BitSet(y, 3)
    BY DEF BitSet, Byte, MaxByte
  <2> QED
    BY <2>1
<1> QED
  BY <1>1, <1>2, MaskBits DEF Agree

LEMMA ColourBits ==
  ASSUME NEW low \in 0 .. 7, NEW y \in Byte
  PROVE  LET x == low + 16 * ((y \div 16) % 8)
         IN  Agree(x, y, 112) /\ (low = y % 8 => Agree(x, y, 119))
<1> DEFINE high == (y \div 16) % 8
           x    == low + 16 * high
<1>1. high \in 0 .. 7 /\ y \in Int
  BY DEF Byte, MaxByte
<1>2. BitSet(x, 4) = BitSet(y, 4) /\ BitSet(x, 5) = BitSet(y, 5) /\ BitSet(x, 6) = BitSet(y, 6)
  <2>1. (x \div 16) % 2 = high % 2 /\ (x \div 32) % 2 = (high \div 2) % 2 /\ (x \div 64) % 2 = (high \div 4) % 2
    <3> HIDE DEF high
    <3> QED
      BY <1>1
  <2>2. /\ high % 2 = (y \div 16) % 2 /\ (high \div 2) % 2 = (y \div 32) % 2
        /\ (high \div 4) % 2 = (y \div 64) % 2
    BY <1>1
  <2> HIDE DEF x, high
  <2> QED
    BY <2>1, <2>2 DEF BitSet
<1>3. ASSUME low = y % 8
      PROVE  BitSet(x, 0) = BitSet(y, 0) /\ BitSet(x, 1) = BitSet(y, 1) /\ BitSet(x, 2) = BitSet(y, 2)
  <2>1. x % 2 = low % 2 /\ (x \div 2) % 2 = (low \div 2) % 2 /\ (x \div 4) % 2 = (low \div 4) % 2
    <3> HIDE DEF high
    <3> QED
      BY <1>1
  <2>2. low % 2 = y % 2 /\ (low \div 2) % 2 = (y \div 2) % 2 /\ (low \div 4) % 2 = (y \div 4) % 2
    BY <1>1, <1>3
  <2>3. x \in Int
    BY <1>1
  <2> HIDE DEF x, high
  <2> QED
    BY <1>1, <2>1, <2>2, <2>3 DEF BitSet
<1> HIDE DEF x
<1> QED
  BY <1>2, <1>3, MaskBits DEF Agree, x

LEMMA StatusBits ==
  ASSUME NEW y \in Byte
  PROVE  /\ SetBit(y, 0) \in Byte /\ Agree(SetBit(y, 0), y, 252)
         /\ SetBit(y, 1) \in Byte /\ Agree(SetBit(y, 1), y, 252)
<1>1. y \in Nat /\ y <= 255
  BY DEF Byte, MaxByte
<1> DEFINE Same(x) == /\ BitSet(x, 2) = BitSet(y, 2) /\ BitSet(x, 3) = BitSet(y, 3)
                      /\ BitSet(x, 4) = BitSet(y, 4) /\ BitSet(x, 5) = BitSet(y, 5)
                      /\ BitSet(x, 6) = BitSet(y, 6) /\ BitSet(x, 7) = BitSet(y, 7)
<1>2. ASSUME NEW x \in Nat, x \div 4 = y \div 4 PROVE Same(x)
  BY <1>1, <1>2 DEF BitSet
<1>3. ASSUME NEW x, Same(x) PROVE Agree(x, y, 252)
  <2>1. \A n \in 2 .. 7 : BitSet(x, n) = BitSet(y, n)
    BY <1>3
  <2> QED
    BY <2>1, MaskBits DEF Agree
<1>4. SetBit(y, 0) \in Nat /\ SetBit(y, 0) <= 255 /\ SetBit(y, 0) \div 4 = y \div 4
  BY <1>1 DEF SetBit, BitSet
<1>5. SetBit(y, 1) \in Nat /\ SetBit(y, 1) <= 255 /\ SetBit(y, 1) \div 4 = y \div 4
  BY <1>1 DEF SetBit, BitSet
<1> HIDE DEF Same
<1> QED
  BY <1>2, <1>3, <1>4, <1>5 DEF Byte, MaxByte

\* What a read of a port is of, for the registers that store something.
LEMMA ReadsOf ==
  ASSUME NEW p \in Word
  PROVE  LET r == Register(p)
         IN  /\ r \in Nat
             /\ r \in 28 .. 31 => IoRead(p) = ReadPool(palette, r - 28)
             /\ r \in 32 .. 63 => IoRead(p) = ReadPalette(palette, r - 32)
             /\ r = 160 => IoRead(p) = ReadSystemCtrl
             /\ r \in {188, 189} => IoRead(p) = AddrByte(eeprom, r = 189)
             /\ r = 190 => IoRead(p) = Status(eeprom)
             /\ r = 192 => IoRead(p) = LinearBank
             /\ r \in 193 .. 195 => IoRead(p) = banks[RegBank(r)]
<1> DEFINE r == Register(p)
<1>1. /\ r \in Nat
      /\ p \in 184 .. 191 => Route(p) = "eeprom"
      /\ p \in 192 .. 255 => Route(p) = "cartridge"
      /\ r <= 183 /\ p \notin 184 .. 255 => Route(p) = "soc"
      /\ Route(p) = "soc" => p % 256 = r
      /\ r \in 184 .. 255 => p = r
      /\ p \in 184 .. 255 => r = p
  BY Routes
<1> HIDE DEF r
<1>2. ASSUME r <= 183 PROVE IoRead(p) = SocRead(r)
  <2>1. Route(p) = "soc"
    BY <1>1, <1>2
  <2> QED
    BY <1>1, <2>1 DEF IoRead
<1>3. ASSUME r \in 184 .. 191 PROVE IoRead(p) = EepromRead(r)
  <2>1. p = r /\ Route(p) = "eeprom"
    BY <1>1, <1>3
  <2> QED
    BY <2>1 DEF IoRead
<1>4. ASSUME r \in 192 .. 255 PROVE IoRead(p) = CartRead(r)
  <2>1. p = r /\ Route(p) = "cartridge"
    BY <1>1, <1>4
  <2> QED
    BY <2>1 DEF IoRead
<1>5. r \in 28 .. 31 => IoRead(p) = ReadPool(palette, r - 28)
  BY <1>1, <1>2 DEF SocRead
<1>6. r \in 32 .. 63 => IoRead(p) = ReadPalette(palette, r - 32)
  BY <1>1, <1>2 DEF SocRead
<1>7. r = 160 => IoRead(p) = ReadSystemCtrl
  BY <1>2 DEF SocRead
<1>8. r \in {188, 189} => IoRead(p) = AddrByte(eeprom, r = 189)
  BY <1>3 DEF EepromRead
<1>9. r = 190 => IoRead(p) = Status(eeprom)
  BY <1>3 DEF EepromRead
<1>10. r = 192 => IoRead(p) = LinearBank
  BY <1>4 DEF CartRead
<1>11. r \in 193 .. 195 => IoRead(p) = banks[RegBank(r)]
  BY <1>4 DEF CartRead
<1> QED
  BY <1>1, <1>5, <1>6, <1>7, <1>8, <1>9, <1>10, <1>11 DEF r

LEMMA ReadsRegister ==
  ASSUME TraceOK, RegistersHold, NEW p \in Word
  PROVE  Agree(IoRead(p), Last(Register(p)), Readable(Register(p)))
<1> DEFINE r == Register(p)
           y == Last(r)
<1>1. /\ r \in Nat
      /\ r \in 28 .. 31 => IoRead(p) = ReadPool(palette, r - 28)
      /\ r \in 32 .. 63 => IoRead(p) = ReadPalette(palette, r - 32)
      /\ r = 160 => IoRead(p) = ReadSystemCtrl
      /\ r \in {188, 189} => IoRead(p) = AddrByte(eeprom, r = 189)
      /\ r = 190 => IoRead(p) = Status(eeprom)
      /\ r = 192 => IoRead(p) = LinearBank
      /\ r \in 193 .. 195 => IoRead(p) = banks[RegBank(r)]
  BY ReadsOf
<1>2. y \in Byte
  BY LastTyped
<1> HIDE DEF r, y
<1>3. CASE r \in 28 .. 31
  <2>1. r - 28 \in 0 .. 3 /\ 28 + (r - 28) = r
    BY <1>3
  <2>2. ReadPool(palette, r - 28) = Last(28 + (r - 28))
    BY <2>1 DEF RegistersHold, PoolHolds
  <2>3. IoRead(p) = y
    BY <1>1, <1>3, <2>1, <2>2 DEF y
  <2> QED
    BY <2>3, SameByteAgrees DEF r, y
<1>4. CASE r \in 32 .. 63
  <2> DEFINE q   == r - 32
             low == Colour(palette, q, 0)
  <2>1. q \in 0 .. 31 /\ 32 + q = r
    BY <1>4
  <2>2. /\ Colour(palette, q, 1) = (Last(32 + q) \div 16) % 8
        /\ ~Protected(q) => low = Last(32 + q) % 8
    BY <2>1 DEF RegistersHold, ColoursHold
  <2>3. low \in 0 .. 7
    <3>1. PaletteOf(q) \in 0 .. 15 /\ ColourOf(q) + 0 \in 0 .. 3
      BY <2>1, PaletteRegisters
    <3>2. palette \in PalettesType
      BY TypeParts DEF TraceOK
    <3> HIDE DEF q
    <3> QED
      BY <3>1, <3>2 DEF Colour, PalettesType
  <2>4. IoRead(p) = low + 16 * ((y \div 16) % 8)
    <3>1. IoRead(p) = low + 16 * Colour(palette, q, 1)
      <4>1. ColourOf(q) + 0 = ColourOf(q)
        BY <2>1, PaletteRegisters
      <4> QED
        BY <1>1, <1>4, <4>1 DEF ReadPalette, Colour
    <3> QED
      BY <2>1, <2>2, <3>1 DEF y
  <2>5. Readable(r) = IF Protected(q) THEN 112 ELSE 119
    <3>1. Protected(q) <=> r % 2 = 0 /\ ((r - 32) \div 2) \in 4 .. 7 \union 12 .. 15
      BY <1>4 DEF Protected, PaletteOf, ColourOf, BitSet
    <3>2. Readable(r) = IF r % 2 = 0 /\ ((r - 32) \div 2) \in 4 .. 7 \union 12 .. 15 THEN 112 ELSE 119
      BY <1>4 DEF Readable
    <3> QED
      BY <3>1, <3>2
  <2>6. ~Protected(q) => low = y % 8
    BY <2>1, <2>2 DEF y
  <2> HIDE DEF low, q
  <2>7. Agree(IoRead(p), y, Readable(r))
    BY <1>2, <2>3, <2>4, <2>5, <2>6, ColourBits
  <2> QED
    BY <2>7 DEF r, y
<1>5. CASE r = 160
  <2>1. IoRead(p) \in Nat /\ (IoRead(p) \div 4) % 4 = systemCtrl \div 4
    <3>1. systemCtrl \in {0, 1, 4, 5, 8, 9, 12, 13}
      BY DEF TraceOK, TypeOK
    <3> QED
      BY <1>1, <1>5, <3>1 DEF ReadSystemCtrl
  <2>2. systemCtrl \div 4 = (y \div 4) % 4
    BY <1>5 DEF RegistersHold, ControlHolds, y
  <2>3. Agree(IoRead(p), y, 12)
    BY <1>2, <2>1, <2>2, ControlBits DEF Byte
  <2>4. Readable(r) = 12
    BY <1>5 DEF Readable
  <2> QED
    BY <2>3, <2>4 DEF r, y
<1>6. CASE r \in {188, 189}
  <2>1. Last(189) \in Byte /\ Last(188) \in Byte /\ eeprom.address = 256 * Last(189) + Last(188)
    BY LastTyped DEF RegistersHold, AddressHolds
  <2>2. HighByte(eeprom.address) = Last(189) /\ LowByte(eeprom.address) = Last(188)
    <3> DEFINE high == Last(189)
               low  == Last(188)
    <3> HIDE DEF high, low
    <3>1. high \in Byte /\ low \in Byte /\ eeprom.address = 256 * high + low
      BY <2>1 DEF high, low
    <3>2. HighByte(eeprom.address) = high /\ LowByte(eeprom.address) = low
      BY <3>1 DEF HighByte, LowByte, Byte, MaxByte
    <3> QED
      BY <3>2 DEF high, low
  <2>3. IoRead(p) = y
    BY <1>1, <1>6, <2>2 DEF AddrByte, y
  <2> QED
    BY <2>3, SameByteAgrees DEF r, y
<1>7. CASE r = 190
  <2>1. eeprom.command = y
    BY <1>7 DEF RegistersHold, CommandHolds, y
  <2>2. IoRead(p) \in { SetBit(y, 0), SetBit(y, 1), SetBit(SetBit(y, 0), 1) }
    BY <1>1, <1>7, <2>1 DEF Status
  <2>3. Agree(SetBit(SetBit(y, 0), 1), y, 252)
    <3>1. SetBit(y, 0) \in Byte /\ Agree(SetBit(y, 0), y, 252)
      BY <1>2, StatusBits
    <3>2. Agree(SetBit(SetBit(y, 0), 1), SetBit(y, 0), 252)
      BY <3>1, StatusBits
    <3> QED
      BY <3>1, <3>2 DEF Agree
  <2>4. Agree(IoRead(p), y, 252)
    BY <1>2, <2>2, <2>3, StatusBits
  <2>5. Readable(r) = 252
    BY <1>7 DEF Readable
  <2> QED
    BY <2>4, <2>5 DEF r, y
<1>8. CASE r = 192
  <2>1. banks.linear = y
    BY <1>8 DEF RegistersHold, BanksHold, RegBank, y
  <2>2. IoRead(p) = y % (IF Is2003 THEN 64 ELSE 16)
    BY <1>1, <1>8, <2>1 DEF LinearBank
  <2>3. Readable(r) = IF Is2003 THEN 63 ELSE 15
    BY <1>8 DEF Readable
  <2>4. Agree(IoRead(p), y, Readable(r))
    BY <1>2, <2>2, <2>3, BankBits
  <2> QED
    BY <2>4 DEF r, y
<1>9. CASE r \in 193 .. 195
  <2>1. banks[RegBank(r)] = y
    BY <1>9 DEF RegistersHold, BanksHold, y
  <2>2. IoRead(p) = y
    BY <1>1, <1>9, <2>1
  <2> QED
    BY <2>2, SameByteAgrees DEF r, y
<1>10. CASE r \notin 28 .. 63 /\ r # 160 /\ r \notin {188, 189, 190, 192, 193, 194, 195}
  <2>1. Readable(r) = 0
    BY <1>10 DEF Readable
  <2>2. Agree(IoRead(p), y, 0)
    BY MaskBits DEF Agree
  <2> QED
    BY <2>1, <2>2 DEF r, y
<1> QED
  BY <1>1, <1>3, <1>4, <1>5, <1>6, <1>7, <1>8, <1>9, <1>10

LEMMA RegistersAlwaysHold == TraceSpec => [](TraceOK /\ RegistersHold)
<1>1. TraceInit => TraceOK /\ RegistersHold
  BY TraceInitTyped, RegistersAtPowerUp
<1>2. (TraceOK /\ RegistersHold) /\ [TraceNext]_traceVars => (TraceOK /\ RegistersHold)'
  BY TraceTyped, RegistersStep
<1> QED
  BY <1>1, <1>2, PTL DEF TraceSpec

\* Every register reads back the last byte written to it under any of its aliases, in the
\* bits it implements, and no write to another register changes it, for every program
\* (io_write and io_read route alike).
THEOREM RegistersAreSeparate == TraceSpec => []RegistersReadBack
<1>1. TraceOK /\ RegistersHold => RegistersReadBack
  <2>1. ASSUME TraceOK, RegistersHold, NEW p \in workload.ports
        PROVE  LET reg == Register(p)
               IN  Agree(IoRead(p), Latest(log, RegisterWrites(reg), PowerUpByte(reg)), Readable(reg))
    <3>1. p \in Word
      BY <2>1, WorkloadTyped DEF TraceOK
    <3> QED
      BY <2>1, <3>1, ReadsRegister DEF Last
  <2> QED
    BY <2>1 DEF RegistersReadBack
<1> QED
  BY <1>1, RegistersAlwaysHold, PTL

\* The boot-ROM lockout is set exactly when some write so far set it, through any alias of
\* its port, for every program: nothing clears it (write_system_ctrl).
THEOREM LockoutIsOneWay == TraceSpec => []LockoutOneWay
<1>1. TraceOK /\ RegistersHold => LockoutOneWay
  <2> SUFFICES ASSUME TraceOK, RegistersHold PROVE LockoutOneWay
    OBVIOUS
  <2>1. IoRead(160) = ReadSystemCtrl
    <3>1. 160 \in Word /\ Register(160) = 160
      BY DEF Word, MaxWord, Register
    <3> QED
      BY <3>1, ReadsOf
  <2>2. BitSet(ReadSystemCtrl, 0) = BitSet(systemCtrl, 0)
    <3>1. systemCtrl \in {0, 1, 4, 5, 8, 9, 12, 13}
      BY DEF TraceOK, TypeOK
    <3> QED
      BY <3>1 DEF ReadSystemCtrl, BitSet
  <2>3. BitSet(systemCtrl, 0) <=> \E k \in 1 .. Len(log) : Locks(log[k])
    BY DEF RegistersHold, LatchHolds
  <2>4. BitSet(systemCtrl, 0) \in BOOLEAN
    BY DEF BitSet
  <2> QED
    BY <2>1, <2>2, <2>3, <2>4 DEF LockoutOneWay, Locks
<1> QED
  BY <1>1, RegistersAlwaysHold, PTL
=====================================================================================
