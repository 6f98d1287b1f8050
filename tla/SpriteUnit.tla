--------------------------------- MODULE SpriteUnit ---------------------------------
(***********************************************************************************)
(* The double-buffered sprite attribute table (core-ws/src/ppu.rs). The program    *)
(* writes the live table at any time; the display copies it at the copy line and   *)
(* shows the copy from the next frame start on. The order of the two display calls *)
(* is left to the caller, as in the source.                                        *)
(***********************************************************************************)
EXTENDS Integers, Histories

CONSTANTS
  OamBytes,     \* The size of the table, 512 in the source.
  Indices,      \* The indices the program writes, in the table or not.
  Values,       \* The bytes it writes.
  MaxEvents     \* The length of a history (a bound of the model).

ASSUME OamAssumption == OamBytes \in Nat /\ Indices \subseteq Nat /\ 0 \in Values /\ MaxEvents \in Nat

VARIABLES
  oam, staged, displayed,
  history       \* History: the calls so far.

spriteVars == << oam, staged, displayed, history >>

Blank == [ k \in 0 .. OamBytes - 1 |-> 0 ]

SpriteInit ==
  /\ oam = Blank
  /\ staged = Blank
  /\ displayed = Blank
  /\ history = << >>

Recorded(call) == Len(history) < MaxEvents /\ history' = Append(history, call)

\* A write outside the table is ignored.
WriteOam(k, v) ==
  /\ oam' = IF k < OamBytes THEN [ oam EXCEPT ![k] = v ] ELSE oam
  /\ Recorded([ call |-> "write", index |-> k, value |-> v ])
  /\ UNCHANGED << staged, displayed >>

SnapshotForNextFrame ==
  /\ staged' = oam
  /\ Recorded([ call |-> "copy" ])
  /\ UNCHANGED << oam, displayed >>

\* Mutation of BufferAtFrame: a single buffer, shown in the frame it was copied in.
BufferLive == oam

\* The buffer a new frame shows.
BufferAtFrame == staged

BeginFrame ==
  /\ displayed' = BufferAtFrame
  /\ Recorded([ call |-> "frame" ])
  /\ UNCHANGED << oam, staged >>

\* read_oam and rendered_oam change nothing.
ReadOam == UNCHANGED spriteVars

RenderedOam(k) == IF k < OamBytes THEN displayed[k] ELSE 0

SpriteNext ==
  \/ \E k \in Indices, v \in Values : WriteOam(k, v)
  \/ SnapshotForNextFrame
  \/ BeginFrame
  \/ ReadOam

SpriteSpec == SpriteInit /\ [][SpriteNext]_spriteVars
---------------------------------------------------------------------------------

\* The calls that put a byte at an index of the table, and those of the display.
WritesTo(k) == { [ call |-> "write", index |-> k, value |-> v ] : v \in Values }
Copies      == { [ call |-> "copy" ] }
Frames      == { [ call |-> "frame" ] }

\* The byte an index of the table held at position n of a history.
HeldAt(list, n, k) ==
  LET write == LastBefore(list, WritesTo(k), n)
  IN  IF write = 0 THEN 0 ELSE list[write].value

\* The positions of the frame on display and of the copy it shows.
LatestFrame == LastIn(history, Frames)
ShownCopy   == LastBefore(history, Copies, LatestFrame)

\* A frame never tears and never shows an update early: every sprite byte is the last
\* one written before the last copy line before the frame began, whatever the program
\* writes since, and blank before the first copy (community bug 2).
ShowsLastCopyBeforeFrame ==
  \A k \in Indices : RenderedOam(k) = IF k < OamBytes THEN HeldAt(history, ShownCopy, k) ELSE 0
=====================================================================================
