------------------------------- MODULE SyntheticCore -------------------------------
(***********************************************************************************)
(* The event scheduler of SyntheticCore (ws-testkit/src/lib.rs), the one           *)
(* implementation of the Core contract: timed input, periodic audio packets and    *)
(* video frames, and a sink that may refuse any of them in the middle of a run.    *)
(*                                                                                 *)
(* run_until is a loop with a call to the sink in it. Each iteration is a step and *)
(* deadline holds the argument of the call under way; the borrow checker keeps     *)
(* every other call out until it returns, by its last step or by an error. Calls   *)
(* that fail their first checks change nothing and are left out.                   *)
(***********************************************************************************)
EXTENDS Integers, SequencesExt

CONSTANTS
  FramePeriod, AudioPeriod,   \* FRAME_PERIOD and AUDIO_PERIOD.
  MaxTick,                    \* The last tick of the 64-bit clock.
  Ticks,                      \* The times the caller passes.
  MaxCalls, MaxInputs         \* Bounds of the model: calls, inputs since a reset.

ASSUME ClockAssumption ==
  /\ FramePeriod \in Nat \ {0} /\ AudioPeriod \in Nat \ {0}
  /\ MaxTick \in Nat /\ FramePeriod <= MaxTick /\ AudioPeriod <= MaxTick
  /\ Ticks \subseteq 0 .. MaxTick
ASSUME BoundsAssumption == MaxCalls \in Nat /\ MaxInputs \in Nat

Idle == -1
Time == 0 .. MaxTick

VARIABLES
  core,       \* The SyntheticCore.
  deadline,   \* The deadline of the run under way, or Idle.
  calls,      \* How many runs and resets the caller made.
  inputs,     \* History: the inputs accepted since the last reset, in order.
  outputs     \* History: what the sink took since the last reset, in order.

vars == << core, deadline, calls, inputs, outputs >>

Input  == [ timestamp : Time, pressed : BOOLEAN ]
Output == [ kind : {"audio", "video"}, timestamp : Time, index : Nat,
            pressed : BOOLEAN, seen : Nat ]

NewCore == [ now |-> 0, nextFrame |-> FramePeriod, nextAudio |-> AudioPeriod,
             frameIndex |-> 0, audioIndex |-> 0, pressed |-> FALSE, pending |-> << >> ]

Init ==
  /\ core = NewCore
  /\ deadline = Idle
  /\ calls = 0
  /\ inputs = << >>
  /\ outputs = << >>

---------------------------------------------------------------------------------
(* set_input and reset.                                                           *)

\* Mutations of Enqueue: before the inputs of the same tick; always last.
EnqueueBeforeEqual(queue, event) ==
  LET later == { k \in 1 .. Len(queue) : queue[k].timestamp >= event.timestamp }
  IN  IF later = {} THEN Append(queue, event) ELSE InsertAt(queue, Min(later), event)
EnqueueLast(queue, event) == Append(queue, event)

\* queue with the event before the first one later than it.
Enqueue(queue, event) ==
  LET later == { k \in 1 .. Len(queue) : queue[k].timestamp > event.timestamp }
  IN  IF later = {} THEN Append(queue, event) ELSE InsertAt(queue, Min(later), event)

\* Mutation of WithInput: an input of the present tick waits in the queue.
WithInputQueued(c, event) == [ c EXCEPT !.pending = Enqueue(@, event) ]

\* c after it accepted the input: at once if it is for now, or else queued.
WithInput(c, event) ==
  IF event.timestamp = c.now THEN [ c EXCEPT !.pressed = event.pressed ]
                             ELSE [ c EXCEPT !.pending = Enqueue(@, event) ]

SetInput(event) ==
  /\ deadline = Idle
  /\ Len(inputs) < MaxInputs
  /\ core.now <= event.timestamp
  /\ core' = WithInput(core, event)
  /\ inputs' = Append(inputs, event)
  /\ UNCHANGED << deadline, calls, outputs >>

Reset ==
  /\ deadline = Idle
  /\ calls < MaxCalls
  /\ calls' = calls + 1
  /\ core' = NewCore
  /\ inputs' = << >>
  /\ outputs' = << >>
  /\ UNCHANGED deadline

---------------------------------------------------------------------------------
(* run_until.                                                                     *)

Call(until) ==
  /\ deadline = Idle
  /\ calls < MaxCalls
  /\ core.now <= until
  /\ deadline' = until
  /\ calls' = calls + 1
  /\ UNCHANGED << core, inputs, outputs >>

Running == deadline # Idle

\* Some queued input is due at the time or before it.
InputDue(time) == core.pending # << >> /\ Head(core.pending).timestamp <= time

\* The first queued input is the next event.
ApplyInput ==
  /\ Running
  /\ InputDue(deadline) /\ InputDue(core.nextAudio) /\ InputDue(core.nextFrame)
  /\ core' = [ core EXCEPT !.now     = Head(core.pending).timestamp,
                           !.pressed = Head(core.pending).pressed,
                           !.pending = Tail(@) ]
  /\ UNCHANGED << deadline, calls, inputs, outputs >>

\* An addition to the clock that would pass its end fails.
Overflows(time, period) == time + period > MaxTick

\* The time of the next output of a period; on overflow the call fails before it is set.
Rescheduled(time, period) == IF Overflows(time, period) THEN time ELSE time + period

\* Mutation of EmitAudio: the packet is counted and rescheduled although refused.
EmitAudioCountsRefused(taken) ==
  /\ Running
  /\ core.nextAudio <= deadline /\ core.nextAudio <= core.nextFrame
  /\ ~InputDue(core.nextAudio)
  /\ core' = [ core EXCEPT !.now = core.nextAudio,
                           !.audioIndex = @ + 1,
                           !.nextAudio = Rescheduled(@, AudioPeriod) ]
  /\ outputs' = IF taken
                THEN Append(outputs, [ kind |-> "audio", timestamp |-> core.nextAudio,
                                       index |-> core.audioIndex, pressed |-> FALSE,
                                       seen |-> Len(inputs) ])
                ELSE outputs
  /\ deadline' = IF taken /\ ~Overflows(core.nextAudio, AudioPeriod) THEN deadline ELSE Idle
  /\ UNCHANGED << calls, inputs >>

\* The next packet is the next event; the sink takes it or refuses it.
EmitAudio(taken) ==
  /\ Running
  /\ core.nextAudio <= deadline /\ core.nextAudio <= core.nextFrame
  /\ ~InputDue(core.nextAudio)
  /\ IF taken
     THEN /\ outputs' = Append(outputs, [ kind |-> "audio", timestamp |-> core.nextAudio,
                                          index |-> core.audioIndex, pressed |-> FALSE,
                                          seen |-> Len(inputs) ])
          /\ core' = [ core EXCEPT !.now = core.nextAudio,
                                   !.audioIndex = @ + 1,
                                   !.nextAudio = Rescheduled(@, AudioPeriod) ]
     ELSE /\ core' = [ core EXCEPT !.now = core.nextAudio ]
          /\ UNCHANGED outputs
  /\ deadline' = IF taken /\ ~Overflows(core.nextAudio, AudioPeriod) THEN deadline ELSE Idle
  /\ UNCHANGED << calls, inputs >>

\* The next frame is the next event, and no packet is due at its tick.
EmitFrame(taken) ==
  /\ Running
  /\ core.nextFrame <= deadline /\ core.nextFrame < core.nextAudio
  /\ ~InputDue(core.nextFrame)
  /\ IF taken
     THEN /\ outputs' = Append(outputs, [ kind |-> "video", timestamp |-> core.nextFrame,
                                          index |-> core.frameIndex, pressed |-> core.pressed,
                                          seen |-> Len(inputs) ])
          /\ core' = [ core EXCEPT !.now = core.nextFrame,
                                   !.frameIndex = @ + 1,
                                   !.nextFrame = Rescheduled(@, FramePeriod) ]
     ELSE /\ core' = [ core EXCEPT !.now = core.nextFrame ]
          /\ UNCHANGED outputs
  /\ deadline' = IF taken /\ ~Overflows(core.nextFrame, FramePeriod) THEN deadline ELSE Idle
  /\ UNCHANGED << calls, inputs >>

\* Mutation of Finish: a run whose next event is one tick away does not end.
FinishLate ==
  /\ Running
  /\ core.nextAudio > deadline + 1 /\ core.nextFrame > deadline + 1
  /\ ~InputDue(deadline)
  /\ core' = [ core EXCEPT !.now = deadline ]
  /\ deadline' = Idle
  /\ UNCHANGED << calls, inputs, outputs >>

\* Every event left lies behind the deadline.
Finish ==
  /\ Running
  /\ core.nextAudio > deadline /\ core.nextFrame > deadline
  /\ ~InputDue(deadline)
  /\ core' = [ core EXCEPT !.now = deadline ]
  /\ deadline' = Idle
  /\ UNCHANGED << calls, inputs, outputs >>

RunStep == ApplyInput \/ Finish \/ \E taken \in BOOLEAN : EmitAudio(taken) \/ EmitFrame(taken)

Next ==
  \/ \E t \in Ticks, p \in BOOLEAN : SetInput([ timestamp |-> t, pressed |-> p ])
  \/ Reset
  \/ \E t \in Ticks : Call(t)
  \/ RunStep

\* A call runs to its end on the caller's thread; nothing obliges the caller to make one.
Fairness == WF_vars(RunStep)

Spec     == Init /\ [][Next]_vars
FairSpec == Spec /\ Fairness
---------------------------------------------------------------------------------

\* Time never passes anything that is due: neither an output nor a queued input lies
\* behind the present, and the queue is in the order of time, however runs are split,
\* refused and mixed with inputs (the minimum run_until takes, the insert of set_input).
NothingOverdue ==
  LET queue == core.pending
  IN  /\ core.now <= core.nextAudio /\ core.now <= core.nextFrame
      /\ \A k \in 1 .. Len(queue) : core.now <= queue[k].timestamp
      /\ \A j, k \in 1 .. Len(queue) : j < k => queue[j].timestamp <= queue[k].timestamp

\* The input held at a time under a list of inputs: the latest one not after it, and
\* of those of one tick the one that was accepted last.
Held(list, time) ==
  LET past == { k \in 1 .. Len(list) : list[k].timestamp <= time }
      last == { k \in past : \A j \in past : list[j].timestamp <= list[k].timestamp }
  IN  IF past = {} THEN FALSE ELSE list[Max(last)].pressed

\* Between two calls the core holds the input of the present tick, and no queued one
\* is due: an input for now never overtakes one that was queued for now (set_input's
\* immediate branch against run_until's inputs-first rule).
InputSettled ==
  deadline = Idle =>
    /\ core.pressed = Held(inputs, core.now)
    /\ \A k \in 1 .. Len(core.pending) : core.pending[k].timestamp > core.now

\* A frame shows the input held at its timestamp among those accepted before it was
\* emitted, in whatever order they were queued, and no later input is for an earlier
\* time: splitting or retrying a run never changes what a frame shows.
FramesShowHeldInput ==
  \A k \in 1 .. Len(outputs) :
    LET o == outputs[k]
    IN  /\ o.kind = "video" => o.pressed = Held(SubSeq(inputs, 1, o.seen), o.timestamp)
        /\ \A j \in o.seen + 1 .. Len(inputs) : o.timestamp <= inputs[j].timestamp

Latest ==
  IF outputs = << >> THEN [ kind |-> "none", timestamp |-> 0, index |-> 0 ]
  ELSE LET o == outputs[Len(outputs)]
       IN  [ kind |-> o.kind, timestamp |-> o.timestamp, index |-> o.index ]

Schedule == INSTANCE OutputSchedule
              WITH packets <- core.audioIndex, frames <- core.frameIndex, latest <- Latest

\* The sink takes each packet and each frame exactly once, at its tick and in order,
\* although it may refuse any of them and the caller may stop and resume anywhere.
OnSchedule == Schedule!Spec

\* Every call of run_until returns (its loop has no bound of its own).
CallReturns == Running ~> ~Running

\* "A replay is identified by core version, cartridge identity, configuration, initial
\* state, and the timestamped input stream" (docs/ARCHITECTURE.md): what a frame shows
\* is a function of the inputs and their timestamps.
Replayable ==
  \A k \in 1 .. Len(outputs) :
    outputs[k].kind = "video" => outputs[k].pressed = Held(inputs, outputs[k].timestamp)
=====================================================================================
