------------------------------- MODULE OutputSchedule -------------------------------
(***********************************************************************************)
(* What a core owes the sink of its output: packets and frames at exact multiples  *)
(* of their periods, numbered without a gap, in the order of their timestamps, a   *)
(* packet before a frame of the same tick. A restart begins the count anew. The    *)
(* clock ends at MaxTick; from there the last output that fits it is due for ever. *)
(***********************************************************************************)
EXTENDS Integers

CONSTANTS
  FramePeriod, AudioPeriod,   \* The ticks from one frame, or packet, to the next.
  MaxTick                     \* The last tick of the clock; no period is longer.

VARIABLES
  packets, frames,   \* How many of each the sink has taken.
  latest             \* The last output it took.

vars == << packets, frames, latest >>

Nothing == [ kind |-> "none", timestamp |-> 0, index |-> 0 ]

\* The timestamp of the output that follows n outputs of a period.
Due(n, period) ==
  IF (n + 1) * period <= MaxTick THEN (n + 1) * period ELSE MaxTick - (MaxTick % period)

NextPacket == [ kind |-> "audio", timestamp |-> Due(packets, AudioPeriod), index |-> packets ]
NextFrame  == [ kind |-> "video", timestamp |-> Due(frames, FramePeriod), index |-> frames ]

Init == packets = 0 /\ frames = 0 /\ latest = Nothing

TakePacket ==
  /\ NextPacket.timestamp <= NextFrame.timestamp
  /\ latest' = NextPacket
  /\ packets' = packets + 1
  /\ UNCHANGED frames

TakeFrame ==
  /\ NextFrame.timestamp < NextPacket.timestamp
  /\ latest' = NextFrame
  /\ frames' = frames + 1
  /\ UNCHANGED packets

Restart == packets' = 0 /\ frames' = 0 /\ latest' = Nothing

Next == TakePacket \/ TakeFrame \/ Restart

Spec == Init /\ [][Next]_vars
=====================================================================================
