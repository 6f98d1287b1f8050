------------------------------- MODULE MCSerialPort -------------------------------
(* The instance of SerialPort that TLC checks. *)
EXTENDS SerialPort

\* A byte that disables the port and acknowledges nothing, one that enables it and
\* acknowledges HblankTimer, one that acknowledges Vblank alone, one with every bit
\* set, and a base with dirty low bits.
MCBytes == { 0, 64, 128, 255, 37 }

\* No line, both serial lines with Vblank, the other lines, and all of them.
MCEnableMasks == { {}, { SerialTx, SerialRx, Vblank },
                   Irq \ { SerialTx, SerialRx, Vblank }, Irq }
=====================================================================================
