------------------------------- MODULE InternalEeprom -------------------------------
(***********************************************************************************)
(* The internal EEPROM behind its ports (core-ws/src/eeprom.rs): a byte store      *)
(* sized by the model, and the address and command latches. The data ports are a   *)
(* window on the word the address selects; the command changes the status alone.   *)
(***********************************************************************************)
EXTENDS Words

WsBytes  == 128
WscBytes == 2048

NewEeprom(isColor) == [ size    |-> IF isColor THEN WscBytes ELSE WsBytes,
                        store   |-> Zeroed,
                        address |-> 0,
                        command |-> 0 ]

\* Mutation of Offset: the word address is cut before it is doubled.
OffsetCutEarly(e, high) == 2 * (e.address % e.size) + (IF high THEN 1 ELSE 0)

\* The offset of a half of the addressed word; the store aliases at its size.
Offset(e, high) == (2 * e.address + (IF high THEN 1 ELSE 0)) % e.size

DataByte(e, high)     == At(e.store, Offset(e, high))
WriteData(e, high, b) == [ e EXCEPT !.store = Put(@, Offset(e, high), b) ]

SetAddr(e, high, b) ==
  [ e EXCEPT !.address = IF high THEN WithHigh(@, b) ELSE WithLow(@, b) ]
AddrByte(e, high) == IF high THEN HighByte(e.address) ELSE LowByte(e.address)

SetCommand(e, b) == [ e EXCEPT !.command = b ]

\* Ready after a WRITE strobe, done after a READ strobe, both otherwise.
Status(e) ==
  IF BitSet(e.command, 5) THEN SetBit(e.command, 1)
  ELSE IF BitSet(e.command, 4) THEN SetBit(e.command, 0)
  ELSE SetBit(SetBit(e.command, 0), 1)
=====================================================================================
