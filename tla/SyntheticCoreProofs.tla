----------------------------- MODULE SyntheticCoreProofs -----------------------------
(***********************************************************************************)
(* Theorems about the event scheduler for every pair of periods, every clock and   *)
(* every set of times a caller passes.                                             *)
(*                                                                                 *)
(* The inductive invariant has four parts: the types; NothingOverdue with Ahead;   *)
(* Settled, which says for every time to come that the queue and the held input    *)
(* together foretell what the accepted inputs hold at that time; and OnTime, which *)
(* ties the tick of each next output to its index.                                 *)
(***********************************************************************************)
EXTENDS SyntheticCore, CommonLemmas, SequenceTheorems

---------------------------------------------------------------------------------
(* The queue.                                                                     *)

\* No input of the queue is behind one that is later.
Sorted(queue) ==
  \A j, k \in 1 .. Len(queue) : j < k => queue[j].timestamp <= queue[k].timestamp

\* The times of inputs and queues are ticks of the clock, hence integers.
LEMMA TimesAreIntegers ==
  /\ \A t \in Time : t \in Int /\ t \in Nat /\ 0 <= t /\ t <= MaxTick
  /\ \A e \in Input : e.timestamp \in Time /\ e.timestamp \in Int /\ e.pressed \in BOOLEAN
  /\ \A queue \in Seq(Input) : \A k \in 1 .. Len(queue) :
       queue[k] \in Input /\ queue[k].timestamp \in Time /\ queue[k].timestamp \in Int
<1>1. \A t \in Time : t \in Int /\ t \in Nat /\ 0 <= t /\ t <= MaxTick
  BY ClockAssumption DEF Time
<1>2. \A e \in Input : e.timestamp \in Time /\ e.pressed \in BOOLEAN
  BY DEF Input
<1>3. \A queue \in Seq(Input) : \A k \in 1 .. Len(queue) : queue[k] \in Input
  OBVIOUS
<1> QED
  BY <1>1, <1>2, <1>3

\* new is s with e at position p: what is before it stays, the rest moves up by one.
Inserted(new, s, p, e) ==
  /\ Len(new) = Len(s) + 1
  /\ \A k \in 1 .. p - 1 : new[k] = s[k]
  /\ new[p] = e
  /\ \A k \in p .. Len(s) : new[k + 1] = s[k]

\* InsertAt puts an element in place and moves the rest up.
LEMMA InsertAtShape ==
  ASSUME NEW S, NEW s \in Seq(S), NEW p \in 1 .. Len(s), NEW e \in S
  PROVE  InsertAt(s, p, e) \in Seq(S) /\ Inserted(InsertAt(s, p, e), s, p, e)
<1> DEFINE n == Len(s)
           front == SubSeq(s, 1, p - 1)
           start == front \o << e >>
           back  == SubSeq(s, p, n)
<1>1. n \in Nat /\ p \in Nat /\ 1 <= p /\ p <= n
  OBVIOUS
<1>2. /\ front \in Seq(S) /\ Len(front) = p - 1
      /\ \A k \in 1 .. p - 1 : front[k] = s[k]
  <2>1. \A k \in 1 .. p - 1 : 1 + k - 1 = k /\ s[k] \in S
    BY <1>1
  <2>2. front \in Seq(S)
    BY <1>1, <2>1, SubSeqProperties
  <2> QED
    BY <1>1, <2>1, <2>2, SubSeqProperties
<1>3. /\ back \in Seq(S) /\ Len(back) = n + 1 - p
      /\ \A k \in 1 .. n + 1 - p : back[k] = s[p + k - 1]
  BY <1>1, SubSeqProperties
<1>4. InsertAt(s, p, e) = start \o back
  BY DEF InsertAt
<1>5. << e >> \in Seq(S) /\ Len(<< e >>) = 1 /\ << e >>[1] = e
  OBVIOUS
<1> HIDE DEF front, back, n
<1>6. /\ start \in Seq(S) /\ Len(start) = p
      /\ \A k \in 1 .. p - 1 : start[k] = s[k]
      /\ start[p] = e
  BY <1>1, <1>2, <1>5, ConcatProperties
<1> HIDE DEF start
<1>7. /\ start \o back \in Seq(S) /\ Len(start \o back) = n + 1
      /\ \A k \in 1 .. p : (start \o back)[k] = start[k]
      /\ \A k \in p + 1 .. n + 1 : (start \o back)[k] = back[k - p]
  <2>1. n \in Nat /\ p + (n + 1 - p) = n + 1
    BY <1>1 DEF n
  <2>2. /\ start \o back \in Seq(S) /\ Len(start \o back) = Len(start) + Len(back)
        /\ \A k \in 1 .. Len(start) + Len(back) :
             (start \o back)[k] = IF k <= Len(start) THEN start[k] ELSE back[k - Len(start)]
    BY <1>3, <1>6, ConcatProperties, Zenon
  <2> QED
    BY <1>1, <1>3, <1>6, <2>1, <2>2
<1>8. ASSUME NEW k \in p .. n PROVE (start \o back)[k + 1] = s[k]
  <2>1. k + 1 \in p + 1 .. n + 1 /\ k + 1 - p \in 1 .. n + 1 - p /\ p + (k + 1 - p) - 1 = k
    BY <1>1
  <2>2. (start \o back)[k + 1] = back[k + 1 - p]
    <3> DEFINE i == k + 1
    <3>1. i \in p + 1 .. n + 1
      BY <2>1
    <3> HIDE DEF i
    <3>2. (start \o back)[i] = back[i - p]
      BY <1>7, <3>1, Zenon
    <3> QED
      BY <3>2 DEF i
  <2>3. back[k + 1 - p] = s[k]
    BY <1>3, <2>1, SMT
  <2> QED
    BY <2>2, <2>3
<1> DEFINE whole == start \o back
<1>9. Len(whole) = n + 1 /\ whole \in Seq(S) /\ whole[p] = e
  BY <1>1, <1>6, <1>7
<1>10. \A k \in 1 .. p - 1 : whole[k] = s[k]
  <2>1. \A k \in 1 .. p - 1 : k \in 1 .. p
    BY <1>1
  <2> QED
    BY <1>6, <1>7, <2>1
<1>11. \A k \in p .. n : whole[k + 1] = s[k]
  BY <1>8
<1>12. InsertAt(s, p, e) = whole
  BY <1>4
<1> HIDE DEF whole
<1> QED
  BY <1>9, <1>10, <1>11, <1>12 DEF n, Inserted

\* An event is inserted at one place of a sorted queue: what is before it stays and is
\* not later than it, what is behind it moves up by one and is later.
LEMMA EnqueueShape ==
  ASSUME NEW queue \in Seq(Input), NEW event \in Input, Sorted(queue)
  PROVE  /\ Enqueue(queue, event) \in Seq(Input)
         /\ \E p \in 1 .. Len(queue) + 1 :
              /\ Inserted(Enqueue(queue, event), queue, p, event)
              /\ \A k \in 1 .. p - 1 : queue[k].timestamp <= event.timestamp
              /\ \A k \in p .. Len(queue) : queue[k].timestamp > event.timestamp
<1> DEFINE n == Len(queue)
           later == { k \in 1 .. n : queue[k].timestamp > event.timestamp }
           new == Enqueue(queue, event)
<1>1. n \in Nat /\ \A k \in 1 .. n : queue[k].timestamp \in Int
  BY TimesAreIntegers
<1>2. event.timestamp \in Int
  BY TimesAreIntegers
<1>3. CASE later = {}
  <2>1. new = Append(queue, event)
    BY <1>3 DEF Enqueue
  <2>2. \A k \in 1 .. n : queue[k].timestamp <= event.timestamp
    BY <1>1, <1>2, <1>3
  <2>3. /\ new \in Seq(Input) /\ Len(new) = n + 1 /\ new[n + 1] = event
        /\ \A k \in 1 .. n : new[k] = queue[k]
    BY <2>1
  <2>4. n + 1 \in 1 .. n + 1 /\ n + 1 - 1 = n /\ (n + 1) .. n = {}
    BY <1>1
  <2> QED
    BY <2>2, <2>3, <2>4 DEF Inserted
<1>4. CASE later # {}
  <2> DEFINE p == Min(later)
  <2>1. p \in later /\ \A k \in later : p <= k
    <3>1. later \subseteq Nat
      OBVIOUS
    <3>2. \E x \in later : \A y \in later : x <= y
      BY <1>4, <3>1, LeastExists
    <3> QED
      BY <3>2 DEF Min
  <2>2. new = InsertAt(queue, p, event)
    BY <1>4 DEF Enqueue
  <2> HIDE DEF p
  <2>3. p \in 1 .. n /\ queue[p].timestamp > event.timestamp
    BY <2>1
  <2>4. \A k \in 1 .. p - 1 : queue[k].timestamp <= event.timestamp
    BY <1>1, <1>2, <2>1, <2>3
  <2>5. \A k \in p .. n : queue[k].timestamp > event.timestamp
    BY <1>1, <1>2, <2>3 DEF Sorted
  <2>6. new \in Seq(Input) /\ Inserted(new, queue, p, event)
    BY <2>2, <2>3, InsertAtShape
  <2>7. p \in 1 .. n + 1
    BY <1>1, <2>3
  <2> HIDE DEF later, new
  <2> QED
    BY <2>4, <2>5, <2>6, <2>7 DEF new
<1> QED
  BY <1>3, <1>4

---------------------------------------------------------------------------------
(* What a list of inputs holds at a time.                                         *)

\* Input j is the latest of a list at a time, and of its tick the one accepted last.
Newest(list, time, j) ==
  /\ j \in 1 .. Len(list)
  /\ list[j].timestamp <= time
  /\ \A i \in 1 .. Len(list) :
       list[i].timestamp <= time =>
         \/ list[i].timestamp < list[j].timestamp
         \/ list[i].timestamp = list[j].timestamp /\ i <= j

\* Held is what the newest input says.
LEMMA HeldIsNewest ==
  ASSUME NEW list \in Seq(Input), NEW time \in Time, NEW j, Newest(list, time, j)
  PROVE  Held(list, time) = list[j].pressed
<1> DEFINE past == { k \in 1 .. Len(list) : list[k].timestamp <= time }
           last == { k \in past : \A i \in past : list[i].timestamp <= list[k].timestamp }
<1>1. time \in Int /\ \A k \in 1 .. Len(list) : list[k].timestamp \in Int
  BY TimesAreIntegers
<1>2. j \in past /\ j \in last
  BY <1>1 DEF Newest
<1>3. \A k \in last : k <= j
  BY <1>1, <1>2 DEF Newest
<1>4. last \subseteq Nat
  OBVIOUS
<1>5. Max(last) = j
  BY <1>2, <1>3, <1>4, MaxIsUnique
<1>6. Held(list, time) = IF past = {} THEN FALSE ELSE list[Max(last)].pressed
  BY DEF Held
<1> HIDE DEF past, last
<1> QED
  BY <1>2, <1>5, <1>6

\* If any input is at the time or before it, one of them is the newest.
LEMMA NewestExists ==
  ASSUME NEW list \in Seq(Input), NEW time \in Time,
         NEW k \in 1 .. Len(list), list[k].timestamp <= time
  PROVE  \E j : Newest(list, time, j)
<1> DEFINE past   == { i \in 1 .. Len(list) : list[i].timestamp <= time }
           stamps == { list[i].timestamp : i \in past }
<1>1. /\ time \in Nat /\ Len(list) \in Nat
      /\ \A i \in 1 .. Len(list) : list[i].timestamp \in Nat /\ list[i].timestamp \in Int
  BY TimesAreIntegers
<1>2. stamps # {} /\ stamps \subseteq Nat /\ \A s \in stamps : s <= time
  BY <1>1
<1>3. Max(stamps) \in stamps /\ \A s \in stamps : s <= Max(stamps)
  BY <1>1, <1>2, MaxIsGreatest
<1> DEFINE last == { i \in past : list[i].timestamp = Max(stamps) }
<1>4. last # {} /\ last \subseteq Nat /\ \A i \in last : i <= Len(list)
  <2>1. \E i \in past : list[i].timestamp = Max(stamps)
    BY <1>3
  <2> HIDE DEF stamps
  <2> QED
    BY <1>1, <2>1
<1>5. Max(last) \in last /\ \A i \in last : i <= Max(last)
  BY <1>1, <1>4, MaxIsGreatest
<1>6. \A i \in past : list[i].timestamp <= Max(stamps)
  BY <1>3
<1>7. Max(last) \in past /\ list[Max(last)].timestamp = Max(stamps)
  BY <1>5
<1> DEFINE j == Max(last)
           newest == Max(stamps)
<1> HIDE DEF j, newest, last, stamps
<1>8. \A i \in past : list[i].timestamp < newest \/ (list[i].timestamp = newest /\ i <= j)
  BY <1>1, <1>5, <1>6, <1>7 DEF last, newest, j
<1> QED
  BY <1>7, <1>8 DEF Newest, j, newest

\* Before the first input nothing is held.
LEMMA HeldOfNone ==
  ASSUME NEW list \in Seq(Input), NEW time \in Time,
         \A k \in 1 .. Len(list) : ~ (list[k].timestamp <= time)
  PROVE  Held(list, time) = FALSE
  BY DEF Held

\* The three ways an input bears on what is held at a time. It is for a later time.
LEMMA HeldBeforeInput ==
  ASSUME NEW list \in Seq(Input), NEW time \in Time, NEW event \in Input,
         time < event.timestamp
  PROVE  Held(Append(list, event), time) = Held(list, time)
<1> DEFINE new == Append(list, event)
<1>1. /\ new \in Seq(Input) /\ Len(new) = Len(list) + 1 /\ Len(list) \in Nat
      /\ new[Len(list) + 1] = event /\ \A k \in 1 .. Len(list) : new[k] = list[k]
  OBVIOUS
<1>2. /\ time \in Int /\ event.timestamp \in Int
      /\ \A k \in 1 .. Len(list) : list[k].timestamp \in Int
  BY TimesAreIntegers
<1> HIDE DEF new
<1>3. CASE \E k \in 1 .. Len(list) : list[k].timestamp <= time
  <2>1. PICK j : Newest(list, time, j)
    BY <1>3, NewestExists
  <2>2. Newest(new, time, j)
    <3>1. \A i \in 1 .. Len(new) : i \in 1 .. Len(list) \/ i = Len(list) + 1
      BY <1>1
    <3>2. \A i \in 1 .. Len(new) : new[i].timestamp <= time => i \in 1 .. Len(list)
      BY <1>1, <1>2, <3>1
    <3> QED
      BY <1>1, <2>1, <3>2 DEF Newest
  <2>3. new[j] = list[j]
    BY <1>1, <2>1 DEF Newest
  <2>4. Held(new, time) = new[j].pressed /\ Held(list, time) = list[j].pressed
    BY <1>1, <2>1, <2>2, HeldIsNewest
  <2> QED
    BY <2>3, <2>4 DEF new
<1>4. CASE \A k \in 1 .. Len(list) : ~ (list[k].timestamp <= time)
  <2>1. \A k \in 1 .. Len(new) : ~ (new[k].timestamp <= time)
    BY <1>1, <1>2, <1>4
  <2> QED
    BY <1>1, <1>4, <2>1, HeldOfNone DEF new
<1> QED
  BY <1>3, <1>4

\* An accepted input is nearer to the time.
LEMMA HeldPastInput ==
  ASSUME NEW list \in Seq(Input), NEW time \in Time, NEW event \in Input,
         NEW k \in 1 .. Len(list), list[k].timestamp <= time,
         event.timestamp < list[k].timestamp
  PROVE  Held(Append(list, event), time) = Held(list, time)
<1> DEFINE new == Append(list, event)
<1>1. /\ new \in Seq(Input) /\ Len(new) = Len(list) + 1 /\ Len(list) \in Nat
      /\ new[Len(list) + 1] = event /\ \A i \in 1 .. Len(list) : new[i] = list[i]
  OBVIOUS
<1>2. /\ time \in Int /\ event.timestamp \in Int
      /\ \A i \in 1 .. Len(list) : list[i].timestamp \in Int
  BY TimesAreIntegers
<1> HIDE DEF new
<1>3. PICK j : Newest(list, time, j)
  BY NewestExists
<1>4. /\ j \in 1 .. Len(list) /\ list[j].timestamp \in Int /\ list[j].timestamp <= time
      /\ list[k].timestamp <= list[j].timestamp
      /\ \A i \in 1 .. Len(list) :
           list[i].timestamp <= time =>
             \/ list[i].timestamp < list[j].timestamp
             \/ list[i].timestamp = list[j].timestamp /\ i <= j
  BY <1>2, <1>3 DEF Newest
<1>5. new[j] = list[j] /\ j \in 1 .. Len(new)
  BY <1>1, <1>4
<1>6. Newest(new, time, j)
  <2>1. event.timestamp < list[j].timestamp
    BY <1>2, <1>4
  <2>2. ASSUME NEW i \in 1 .. Len(new), new[i].timestamp <= time
        PROVE  \/ new[i].timestamp < new[j].timestamp
               \/ new[i].timestamp = new[j].timestamp /\ i <= j
    <3>1. CASE i \in 1 .. Len(list)
      <4>1. new[i] = list[i]
        BY <1>1, <3>1
      <4> QED
        BY <1>4, <1>5, <2>2, <3>1, <4>1
    <3>2. CASE i = Len(list) + 1
      <4>1. new[i] = event
        BY <1>1, <3>2
      <4> QED
        BY <1>5, <2>1, <4>1
    <3> QED
      BY <1>1, <3>1, <3>2
  <2>3. new[j].timestamp <= time
    BY <1>4, <1>5
  <2> QED
    BY <1>5, <2>2, <2>3 DEF Newest
<1>7. Held(new, time) = new[j].pressed /\ Held(list, time) = list[j].pressed
  BY <1>1, <1>3, <1>6, HeldIsNewest
<1> QED
  BY <1>5, <1>7 DEF new

\* The input is the newest of all.
LEMMA HeldFromInput ==
  ASSUME NEW list \in Seq(Input), NEW time \in Time, NEW event \in Input,
         event.timestamp <= time,
         \A k \in 1 .. Len(list) :
           list[k].timestamp <= time => list[k].timestamp <= event.timestamp
  PROVE  Held(Append(list, event), time) = event.pressed
<1> DEFINE new == Append(list, event)
           n   == Len(list) + 1
<1>1. /\ new \in Seq(Input) /\ Len(new) = n /\ Len(list) \in Nat
      /\ new[n] = event /\ \A i \in 1 .. Len(list) : new[i] = list[i]
  OBVIOUS
<1>2. /\ time \in Int /\ event.timestamp \in Int
      /\ \A i \in 1 .. Len(list) : list[i].timestamp \in Int
  BY TimesAreIntegers
<1> HIDE DEF new
<1>3. Newest(new, time, n)
  <2>1. n \in 1 .. Len(new) /\ new[n].timestamp <= time
    BY <1>1
  <2>2. ASSUME NEW i \in 1 .. Len(new), new[i].timestamp <= time
        PROVE  \/ new[i].timestamp < new[n].timestamp
               \/ new[i].timestamp = new[n].timestamp /\ i <= n
    <3>1. CASE i = n
      BY <1>1, <3>1
    <3>2. CASE i \in 1 .. Len(list)
      <4>1. new[i] = list[i] /\ i <= n
        BY <1>1, <3>2
      <4>2. list[i].timestamp <= event.timestamp
        BY <2>2, <3>2, <4>1
      <4> QED
        BY <1>1, <1>2, <3>2, <4>1, <4>2
    <3> QED
      BY <1>1, <3>1, <3>2
  <2> QED
    BY <2>1, <2>2 DEF Newest
<1>4. Held(new, time) = new[n].pressed
  BY <1>1, <1>3, HeldIsNewest
<1> QED
  BY <1>1, <1>4 DEF new

---------------------------------------------------------------------------------
(* Types.                                                                         *)

\* The values a core takes.
Cores == [ now : Time, nextFrame : Time, nextAudio : Time, frameIndex : Nat,
           audioIndex : Nat, pressed : BOOLEAN, pending : Seq(Input) ]

\* The clock never passes MaxTick, although additions to it may fail, and the queue
\* holds inputs.
TypeOK ==
  /\ core \in Cores
  /\ deadline \in Time \union {Idle}
  /\ inputs \in Seq(Input)
  /\ outputs \in Seq(Output)

\* The next time of an output is a tick, and not before the present one.
LEMMA RescheduledTyped ==
  ASSUME NEW time \in Time, NEW period \in Nat
  PROVE  Rescheduled(time, period) \in Time /\ time <= Rescheduled(time, period)
<1>1. time \in Nat /\ time <= MaxTick
  BY TimesAreIntegers
<1> QED
  BY <1>1, ClockAssumption DEF Rescheduled, Overflows, Time

\* The types of the parts of a core, as the steps use them.
LEMMA CoreParts ==
  ASSUME TypeOK
  PROVE  /\ core.now \in Time /\ core.nextFrame \in Time /\ core.nextAudio \in Time
         /\ core.frameIndex \in Nat /\ core.audioIndex \in Nat /\ core.pressed \in BOOLEAN
         /\ core.pending \in Seq(Input)
         /\ Len(inputs) \in Nat /\ Len(core.pending) \in Nat /\ Len(outputs) \in Nat
         /\ core.pending # << >> => Head(core.pending) \in Input
         /\ Running => deadline \in Time
<1>1. core.pending \in Seq(Input)
  BY DEF TypeOK, Cores
<1>2. core.pending # << >> => Head(core.pending) \in Input
  BY <1>1
<1> QED
  BY <1>1, <1>2 DEF TypeOK, Cores, Running

\* What a caller passes is an input.
LEMMA InputTyped ==
  ASSUME NEW t \in Ticks, NEW p \in BOOLEAN
  PROVE  [ timestamp |-> t, pressed |-> p ] \in Input
  BY ClockAssumption DEF Input, Time

\* No step leaves the types.
LEMMA TypeStep ==
  ASSUME TypeOK, Sorted(core.pending), [Next]_vars
  PROVE  TypeOK'
<1> USE DEF TypeOK
<1>1. ASSUME NEW t \in Ticks, NEW p \in BOOLEAN, SetInput([ timestamp |-> t, pressed |-> p ])
      PROVE  TypeOK'
  <2> DEFINE e == [ timestamp |-> t, pressed |-> p ]
  <2>1. e \in Input
    BY InputTyped
  <2> HIDE DEF e
  <2>2. core' = WithInput(core, e) /\ inputs' = Append(inputs, e) /\ UNCHANGED << deadline, outputs >>
    BY <1>1 DEF SetInput, e
  <2>3. Enqueue(core.pending, e) \in Seq(Input)
    BY <2>1, CoreParts, EnqueueShape
  <2>4. core' \in Cores
    BY <2>1, <2>2, <2>3 DEF WithInput, Cores, Input
  <2> QED
    BY <2>1, <2>2, <2>4
<1>2. CASE Reset
  <2>1. NewCore \in Cores
    BY ClockAssumption DEF NewCore, Cores, Time
  <2> QED
    BY <1>2, <2>1 DEF Reset
<1>3. ASSUME NEW t \in Ticks, Call(t) PROVE TypeOK'
  BY <1>3, ClockAssumption DEF Call, Time
<1>4. CASE ApplyInput
  <2>1. Tail(core.pending) \in Seq(Input) /\ Head(core.pending) \in Input
    BY <1>4, CoreParts DEF ApplyInput, InputDue
  <2>2. core' \in Cores
    BY <1>4, <2>1 DEF ApplyInput, Cores, Input
  <2> QED
    BY <1>4, <2>2 DEF ApplyInput
<1>5. ASSUME NEW taken \in BOOLEAN, EmitAudio(taken) PROVE TypeOK'
  <2>1. Rescheduled(core.nextAudio, AudioPeriod) \in Time
    BY CoreParts, ClockAssumption, RescheduledTyped
  <2>2. [ kind |-> "audio", timestamp |-> core.nextAudio, index |-> core.audioIndex,
          pressed |-> FALSE, seen |-> Len(inputs) ] \in Output
    BY CoreParts DEF Output
  <2>3. core' \in Cores
    <3>1. CASE taken
      <4> DEFINE next == Rescheduled(core.nextAudio, AudioPeriod)
                 count == core.audioIndex + 1
      <4>1. core' = [ core EXCEPT !.now = core.nextAudio, !.audioIndex = count, !.nextAudio = next ]
        BY <1>5, <3>1 DEF EmitAudio
      <4>2. next \in Time /\ count \in Nat
        BY <2>1, CoreParts
      <4> HIDE DEF next, count
      <4> QED
        BY <4>1, <4>2 DEF Cores
    <3>2. CASE ~ taken
      BY <1>5, <3>2, CoreParts DEF EmitAudio, Cores
    <3> QED
      BY <3>1, <3>2
  <2>4. outputs' \in Seq(Output)
    BY <1>5, <2>2 DEF EmitAudio
  <2> QED
    BY <1>5, <2>3, <2>4 DEF EmitAudio
<1>6. ASSUME NEW taken \in BOOLEAN, EmitFrame(taken) PROVE TypeOK'
  <2>1. Rescheduled(core.nextFrame, FramePeriod) \in Time
    BY CoreParts, ClockAssumption, RescheduledTyped
  <2>2. [ kind |-> "video", timestamp |-> core.nextFrame, index |-> core.frameIndex,
          pressed |-> core.pressed, seen |-> Len(inputs) ] \in Output
    BY CoreParts DEF Output
  <2>3. core' \in Cores
    <3>1. CASE taken
      <4> DEFINE next == Rescheduled(core.nextFrame, FramePeriod)
                 count == core.frameIndex + 1
      <4>1. core' = [ core EXCEPT !.now = core.nextFrame, !.frameIndex = count, !.nextFrame = next ]
        BY <1>6, <3>1 DEF EmitFrame
      <4>2. next \in Time /\ count \in Nat
        BY <2>1, CoreParts
      <4> HIDE DEF next, count
      <4> QED
        BY <4>1, <4>2 DEF Cores
    <3>2. CASE ~ taken
      BY <1>6, <3>2, CoreParts DEF EmitFrame, Cores
    <3> QED
      BY <3>1, <3>2
  <2>4. outputs' \in Seq(Output)
    BY <1>6, <2>2 DEF EmitFrame
  <2> QED
    BY <1>6, <2>3, <2>4 DEF EmitFrame
<1>7. CASE Finish
  BY <1>7, CoreParts DEF Finish, Cores
<1>8. CASE UNCHANGED vars
  BY <1>8 DEF vars
<1> QED
  BY <1>1, <1>2, <1>3, <1>4, <1>5, <1>6, <1>7, <1>8 DEF Next, RunStep

---------------------------------------------------------------------------------
(* Time and what is due.                                                          *)

\* A run under way has not passed its deadline.
Ahead == Running => core.now <= deadline

\* The tail of a queue is the queue without its first input, one place down.
LEMMA TailShape ==
  ASSUME NEW queue \in Seq(Input), queue # << >>
  PROVE  /\ Len(queue) \in Nat /\ Len(queue) >= 1 /\ Head(queue) = queue[1]
         /\ Len(Tail(queue)) = Len(queue) - 1
         /\ \A k \in 1 .. Len(queue) - 1 : Tail(queue)[k] = queue[k + 1]
  OBVIOUS

\* When the head of the queue is not due, nothing in it is.
LEMMA NoneDue ==
  ASSUME TypeOK, Sorted(core.pending), NEW time \in Time, ~ InputDue(time)
  PROVE  \A k \in 1 .. Len(core.pending) : core.pending[k].timestamp > time
<1> DEFINE queue == core.pending
<1>1. queue \in Seq(Input)
  BY CoreParts
<1>2. time \in Int /\ \A k \in 1 .. Len(queue) : queue[k].timestamp \in Int
  BY <1>1, TimesAreIntegers
<1>3. CASE queue = << >>
  BY <1>3
<1>4. CASE queue # << >>
  <2>1. Len(queue) >= 1 /\ Head(queue) = queue[1] /\ Len(queue) \in Nat
    BY <1>1, <1>4, TailShape
  <2>2. queue[1].timestamp > time
    BY <1>2, <1>4, <2>1 DEF InputDue
  <2>3. \A k \in 1 .. Len(queue) : k = 1 \/ queue[1].timestamp <= queue[k].timestamp
    BY <2>1 DEF Sorted
  <2> QED
    BY <1>2, <2>1, <2>2, <2>3
<1> QED
  BY <1>3, <1>4

\* NothingOverdue with the order of the queue named.
LEMMA OverdueParts ==
  NothingOverdue <=>
    /\ core.now <= core.nextAudio /\ core.now <= core.nextFrame
    /\ \A k \in 1 .. Len(core.pending) : core.now <= core.pending[k].timestamp
    /\ Sorted(core.pending)
  BY DEF NothingOverdue, Sorted

\* What an accepted input does to the queue, when all of it is at or after the present.
LEMMA QueueAfterInput ==
  ASSUME TypeOK, NothingOverdue, NEW e \in Input, core.now <= e.timestamp
  PROVE  LET queue == Enqueue(core.pending, e)
         IN  /\ queue \in Seq(Input) /\ Sorted(queue)
             /\ \A k \in 1 .. Len(queue) : core.now <= queue[k].timestamp
<1> DEFINE old == core.pending
           queue == Enqueue(old, e)
           n == Len(old)
<1>1. old \in Seq(Input) /\ Sorted(old) /\ n \in Nat
  BY CoreParts, OverdueParts
<1>2. queue \in Seq(Input)
  BY <1>1, EnqueueShape
<1>3. PICK p \in 1 .. n + 1 :
        /\ Inserted(queue, old, p, e)
        /\ \A k \in 1 .. p - 1 : old[k].timestamp <= e.timestamp
        /\ \A k \in p .. n : old[k].timestamp > e.timestamp
  BY <1>1, EnqueueShape
<1>4. /\ e.timestamp \in Int /\ core.now \in Int /\ \A k \in 1 .. n : old[k].timestamp \in Int
      /\ \A k \in 1 .. Len(queue) : queue[k].timestamp \in Int
  BY <1>1, <1>2, CoreParts, TimesAreIntegers
<1>5. \A k \in 1 .. n : core.now <= old[k].timestamp
  BY OverdueParts
<1> HIDE DEF old, queue, n
<1>6. /\ Len(queue) = n + 1 /\ queue[p] = e
      /\ \A k \in 1 .. p - 1 : queue[k] = old[k]
      /\ \A k \in p .. n : queue[k + 1] = old[k]
  BY <1>3 DEF Inserted, n
<1>7. \A k \in 1 .. n + 1 : k \in 1 .. p - 1 \/ k = p \/ (k - 1 \in p .. n /\ k = (k - 1) + 1)
  BY <1>1, <1>3
<1>8. \A k \in p + 1 .. n + 1 : k - 1 \in p .. n /\ queue[k] = old[k - 1]
  BY <1>1, <1>3, <1>6, <1>7
<1>9. \A j, k \in 1 .. n : j < k => old[j].timestamp <= old[k].timestamp
  BY <1>1 DEF Sorted, n
<1>10. ASSUME NEW k \in 1 .. n + 1
       PROVE  core.now <= queue[k].timestamp
  <2>1. CASE k \in 1 .. p - 1
    <3>1. k \in 1 .. n /\ queue[k] = old[k]
      BY <1>1, <1>3, <1>6, <2>1
    <3> QED
      BY <1>5, <3>1
  <2>2. CASE k = p
    BY <1>6, <2>2
  <2>3. CASE k \in p + 1 .. n + 1
    <3>1. k - 1 \in 1 .. n /\ queue[k] = old[k - 1]
      BY <1>1, <1>3, <1>8, <2>3
    <3> QED
      BY <1>5, <3>1
  <2> QED
    BY <1>1, <1>3, <2>1, <2>2, <2>3
<1>11. ASSUME NEW j \in 1 .. n + 1, NEW k \in 1 .. n + 1, j < k
       PROVE  queue[j].timestamp <= queue[k].timestamp
  <2>1. CASE k < p
    BY <1>1, <1>3, <1>6, <1>9, <1>11, <2>1
  <2>2. CASE k = p
    BY <1>1, <1>3, <1>6, <1>11, <2>2
  <2>3. CASE k > p /\ j < p
    BY <1>1, <1>3, <1>6, <1>8, <1>9, <1>11, <2>3
  <2>4. CASE j = p
    BY <1>1, <1>3, <1>4, <1>6, <1>8, <1>11, <2>4
  <2>5. CASE j > p
    <3>1. j - 1 \in 1 .. n /\ k - 1 \in 1 .. n /\ j - 1 < k - 1
      BY <1>1, <1>3, <1>11, <2>5
    <3>2. queue[j] = old[j - 1] /\ queue[k] = old[k - 1]
      BY <1>1, <1>3, <1>8, <1>11, <2>5
    <3> QED
      BY <1>9, <3>1, <3>2
  <2> QED
    BY <1>1, <1>3, <1>11, <2>1, <2>2, <2>3, <2>4, <2>5
<1> QED
  BY <1>2, <1>6, <1>10, <1>11 DEF Sorted, queue, old

\* No step passes what is due, and a run under way stays before its deadline.
LEMMA OrderStep ==
  ASSUME TypeOK, NothingOverdue, Ahead, [Next]_vars
  PROVE  NothingOverdue' /\ Ahead'
<1>1. TypeOK'
  BY TypeStep, OverdueParts
<1>2. /\ core.now \in Int /\ core.nextAudio \in Int /\ core.nextFrame \in Int
      /\ deadline \in Int /\ AudioPeriod \in Nat /\ FramePeriod \in Nat
  BY CoreParts, TimesAreIntegers, ClockAssumption DEF TypeOK, Idle
<1>3. /\ core.now <= core.nextAudio /\ core.now <= core.nextFrame
      /\ \A k \in 1 .. Len(core.pending) : core.now <= core.pending[k].timestamp
      /\ Sorted(core.pending)
  BY OverdueParts
<1>4. /\ core.pending \in Seq(Input) /\ Len(core.pending) \in Nat
      /\ \A k \in 1 .. Len(core.pending) : core.pending[k].timestamp \in Int
  BY CoreParts, TimesAreIntegers
<1>5. ASSUME NEW t \in Ticks, NEW p \in BOOLEAN, SetInput([ timestamp |-> t, pressed |-> p ])
      PROVE  NothingOverdue' /\ Ahead'
  <2> DEFINE e == [ timestamp |-> t, pressed |-> p ]
             queue == Enqueue(core.pending, e)
  <2>1. e \in Input
    BY InputTyped
  <2> HIDE DEF e, queue
  <2>2. core' = WithInput(core, e) /\ core.now <= e.timestamp /\ deadline = Idle /\ deadline' = deadline
    BY <1>5 DEF SetInput, e
  <2>3. Sorted(queue) /\ \A k \in 1 .. Len(queue) : core.now <= queue[k].timestamp
    BY <2>1, <2>2, QueueAfterInput DEF queue
  <2>4. /\ core'.now = core.now /\ core'.nextAudio = core.nextAudio
        /\ core'.nextFrame = core.nextFrame
        /\ core'.pending = core.pending \/ core'.pending = queue
    BY <2>2 DEF WithInput, queue, TypeOK, Cores
  <2>5. NothingOverdue'
    BY <1>3, <2>3, <2>4, OverdueParts DEF NothingOverdue, Sorted
  <2> QED
    BY <2>2, <2>5 DEF Ahead, Running
<1>6. CASE Reset
  <2>1. core' = NewCore /\ deadline' = Idle
    BY <1>6 DEF Reset
  <2> QED
    BY <1>2, <2>1 DEF NewCore, NothingOverdue, Ahead, Running
<1>7. ASSUME NEW t \in Ticks, Call(t) PROVE NothingOverdue' /\ Ahead'
  BY <1>7 DEF Call, NothingOverdue, Ahead, Running
<1>8. CASE ApplyInput
  <2> DEFINE queue == core.pending
             head  == Head(core.pending).timestamp
  <2>1. queue # << >> /\ head <= deadline /\ head <= core.nextAudio /\ head <= core.nextFrame
    BY <1>8 DEF ApplyInput, InputDue
  <2>2. /\ core'.now = head /\ core'.pending = Tail(queue) /\ core'.nextAudio = core.nextAudio
        /\ core'.nextFrame = core.nextFrame /\ deadline' = deadline
    BY <1>8 DEF ApplyInput, TypeOK, Cores
  <2>3. /\ Len(queue) >= 1 /\ Head(queue) = queue[1] /\ Len(Tail(queue)) = Len(queue) - 1
        /\ \A k \in 1 .. Len(queue) - 1 : Tail(queue)[k] = queue[k + 1]
    BY <1>4, <2>1, TailShape
  <2>4. \A j, k \in 1 .. Len(queue) : j < k => queue[j].timestamp <= queue[k].timestamp
    BY <1>3 DEF Sorted
  <2>5. \A k \in 1 .. Len(queue) - 1 : k + 1 \in 1 .. Len(queue) /\ 1 < k + 1
    BY <1>4
  <2>6. 1 \in 1 .. Len(queue)
    BY <1>4, <2>3
  <2> HIDE DEF queue
  <2>7. \A k \in 1 .. Len(queue) - 1 : queue[1].timestamp <= Tail(queue)[k].timestamp
    BY <2>3, <2>4, <2>5, <2>6
  <2>8. \A j, k \in 1 .. Len(queue) - 1 :
          j < k => Tail(queue)[j].timestamp <= Tail(queue)[k].timestamp
    <3>1. \A j, k \in 1 .. Len(queue) - 1 : j < k => j + 1 < k + 1
      BY <1>4
    <3> QED
      BY <2>3, <2>4, <2>5, <3>1
  <2>9. NothingOverdue'
    BY <2>1, <2>2, <2>3, <2>7, <2>8 DEF NothingOverdue, queue
  <2> QED
    BY <2>1, <2>2, <2>9 DEF Ahead, Running
<1>9. ASSUME NEW taken \in BOOLEAN, EmitAudio(taken) PROVE NothingOverdue' /\ Ahead'
  <2>1. core.nextAudio <= deadline /\ core.nextAudio <= core.nextFrame /\ ~ InputDue(core.nextAudio)
    BY <1>9 DEF EmitAudio
  <2>2. \A k \in 1 .. Len(core.pending) : core.pending[k].timestamp > core.nextAudio
    BY <1>3, <2>1, CoreParts, NoneDue
  <2>3. core.nextAudio <= Rescheduled(core.nextAudio, AudioPeriod)
    BY <1>2, CoreParts, RescheduledTyped
  <2>4. /\ core'.now = core.nextAudio /\ core'.nextFrame = core.nextFrame
        /\ core'.pending = core.pending
        /\ core'.nextAudio = core.nextAudio
             \/ core'.nextAudio = Rescheduled(core.nextAudio, AudioPeriod)
        /\ deadline' = deadline \/ deadline' = Idle
    BY <1>9 DEF EmitAudio, TypeOK, Cores
  <2>5. NothingOverdue'
    BY <1>2, <1>3, <1>4, <2>1, <2>2, <2>3, <2>4 DEF NothingOverdue, Sorted
  <2> QED
    BY <2>1, <2>4, <2>5 DEF Ahead, Running
<1>10. ASSUME NEW taken \in BOOLEAN, EmitFrame(taken) PROVE NothingOverdue' /\ Ahead'
  <2>1. core.nextFrame <= deadline /\ core.nextFrame < core.nextAudio /\ ~ InputDue(core.nextFrame)
    BY <1>10 DEF EmitFrame
  <2>2. \A k \in 1 .. Len(core.pending) : core.pending[k].timestamp > core.nextFrame
    BY <1>3, <2>1, CoreParts, NoneDue
  <2>3. core.nextFrame <= Rescheduled(core.nextFrame, FramePeriod)
    BY <1>2, CoreParts, RescheduledTyped
  <2>4. /\ core'.now = core.nextFrame /\ core'.nextAudio = core.nextAudio
        /\ core'.pending = core.pending
        /\ core'.nextFrame = core.nextFrame
             \/ core'.nextFrame = Rescheduled(core.nextFrame, FramePeriod)
        /\ deadline' = deadline \/ deadline' = Idle
    BY <1>10 DEF EmitFrame, TypeOK, Cores
  <2>5. NothingOverdue'
    BY <1>2, <1>3, <1>4, <2>1, <2>2, <2>3, <2>4 DEF NothingOverdue, Sorted
  <2> QED
    BY <2>1, <2>4, <2>5 DEF Ahead, Running
<1>11. CASE Finish
  <2>1. \A k \in 1 .. Len(core.pending) : core.pending[k].timestamp > deadline
    BY <1>3, <1>11, CoreParts, NoneDue DEF Finish
  <2>2. /\ core'.now = deadline /\ core'.nextAudio = core.nextAudio
        /\ core'.nextFrame = core.nextFrame /\ core'.pending = core.pending /\ deadline' = Idle
        /\ core.nextAudio > deadline /\ core.nextFrame > deadline
    BY <1>11 DEF Finish, TypeOK, Cores
  <2> QED
    BY <1>2, <1>3, <1>4, <2>1, <2>2 DEF NothingOverdue, Sorted, Ahead, Running
<1>12. CASE UNCHANGED vars
  BY <1>12 DEF vars, NothingOverdue, Ahead, Running
<1> QED
  BY <1>5, <1>6, <1>7, <1>8, <1>9, <1>10, <1>11, <1>12 DEF Next, RunStep

\* The clock never passes MaxTick and the registers of the core keep their types, although
\* an addition to the clock may overflow in any output.
THEOREM CoreTypes == Spec => []TypeOK
<1> DEFINE Inv == TypeOK /\ NothingOverdue /\ Ahead
<1>1. Init => Inv
  <2>1. NewCore \in Cores /\ Idle \in Int
    BY ClockAssumption DEF NewCore, Cores, Time, Idle
  <2> QED
    BY <2>1, ClockAssumption
    DEF Init, TypeOK, NothingOverdue, Ahead, Running, NewCore
<1>2. Inv /\ [Next]_vars => Inv'
  BY TypeStep, OrderStep, OverdueParts
<1> QED
  BY <1>1, <1>2, PTL DEF Spec

\* Time never passes anything that is due, and the queue stays in the order of time, for
\* every sequence of runs, refusals and inputs (run_until's minimum, set_input's insert).
THEOREM NothingIsOverdue == Spec => []NothingOverdue
<1> DEFINE Inv == TypeOK /\ NothingOverdue /\ Ahead
<1>1. Init => Inv
  <2>1. NewCore \in Cores /\ Idle \in Int
    BY ClockAssumption DEF NewCore, Cores, Time, Idle
  <2> QED
    BY <2>1, ClockAssumption
    DEF Init, TypeOK, NothingOverdue, Ahead, Running, NewCore
<1>2. Inv /\ [Next]_vars => Inv'
  BY TypeStep, OrderStep, OverdueParts
<1> QED
  BY <1>1, <1>2, PTL DEF Spec

---------------------------------------------------------------------------------
(* The core and the inputs it has accepted.                                       *)

\* Every accepted input that is still to come waits in the queue under its time, and
\* what waits there was accepted.
Queued ==
  /\ \A j \in 1 .. Len(inputs) : inputs[j].timestamp > core.now =>
       \E k \in 1 .. Len(core.pending) : core.pending[k].timestamp = inputs[j].timestamp
  /\ \A k \in 1 .. Len(core.pending) :
       \E j \in 1 .. Len(inputs) : inputs[j].timestamp = core.pending[k].timestamp

\* Between two calls every queued input is still to come.
IdleSettled ==
  deadline = Idle => \A k \in 1 .. Len(core.pending) : core.pending[k].timestamp > core.now

\* The last of a queue that is due at a time says what it says.
LastDue(queue, time, pressed) ==
  \E k \in 1 .. Len(queue) :
    /\ queue[k].timestamp <= time /\ pressed = queue[k].pressed
    /\ \A i \in k + 1 .. Len(queue) : queue[i].timestamp > time

\* All of a queue is later than a time.
NoneIsDue(queue, time) == \A k \in 1 .. Len(queue) : queue[k].timestamp > time

\* What a core with this queue and this held input will hold at a time, if nothing is
\* added: the last of what is due by then, or what it holds now.
WillHold(queue, held, time, pressed) ==
  \/ NoneIsDue(queue, time) /\ pressed = held
  \/ LastDue(queue, time, pressed)

\* For every time from now on the core will hold what the accepted inputs hold.
Foretold ==
  \A t \in Time : core.now <= t =>
    WillHold(core.pending, core.pressed, t, Held(inputs, t))

\* An input for the present tick, which the core takes at once.
LEMMA ForetoldAfterImmediate ==
  ASSUME TypeOK, Queued, IdleSettled, Foretold, deadline = Idle,
         NEW e \in Input, e.timestamp = core.now,
         NEW t \in Time, core.now <= t
  PROVE  WillHold(core.pending, e.pressed, t, Held(Append(inputs, e), t))
<1> DEFINE queue == core.pending
<1>1. /\ t \in Int /\ core.now \in Int /\ e.timestamp \in Int /\ inputs \in Seq(Input)
      /\ \A k \in 1 .. Len(queue) : queue[k].timestamp \in Int
      /\ \A j \in 1 .. Len(inputs) : inputs[j].timestamp \in Int
  BY CoreParts, TimesAreIntegers DEF TypeOK
<1>2. WillHold(queue, core.pressed, t, Held(inputs, t))
  BY DEF Foretold
<1>3. CASE NoneIsDue(queue, t)
  <2>1. ASSUME NEW j \in 1 .. Len(inputs), inputs[j].timestamp <= t
        PROVE  inputs[j].timestamp <= e.timestamp
    <3>1. SUFFICES ASSUME inputs[j].timestamp > core.now PROVE FALSE
      BY <1>1
    <3>2. PICK k \in 1 .. Len(queue) : queue[k].timestamp = inputs[j].timestamp
      BY <3>1 DEF Queued
    <3> QED
      BY <1>1, <1>3, <2>1, <3>2 DEF NoneIsDue
  <2>2. Held(Append(inputs, e), t) = e.pressed
    BY <1>1, <2>1, HeldFromInput
  <2> QED
    BY <1>3, <2>2 DEF WillHold
<1>4. CASE LastDue(queue, t, Held(inputs, t))
  <2>1. PICK k \in 1 .. Len(queue) : queue[k].timestamp <= t
    BY <1>4 DEF LastDue
  <2>2. PICK j \in 1 .. Len(inputs) : inputs[j].timestamp = queue[k].timestamp
    BY DEF Queued
  <2>3. inputs[j].timestamp <= t /\ e.timestamp < inputs[j].timestamp
    BY <1>1, <2>1, <2>2 DEF IdleSettled
  <2>4. Held(Append(inputs, e), t) = Held(inputs, t)
    BY <1>1, <2>3, HeldPastInput
  <2> QED
    BY <1>4, <2>4 DEF WillHold
<1> QED
  BY <1>2, <1>3, <1>4 DEF WillHold

\* An input for a later tick, which goes into the queue.
LEMMA ForetoldAfterQueued ==
  ASSUME TypeOK, NothingOverdue, Queued, Foretold,
         NEW e \in Input, core.now < e.timestamp,
         NEW t \in Time, core.now <= t
  PROVE  WillHold(Enqueue(core.pending, e), core.pressed, t, Held(Append(inputs, e), t))
<1> DEFINE old == core.pending
           n == Len(old)
           queue == Enqueue(old, e)
           before == Held(inputs, t)
           after == Held(Append(inputs, e), t)
<1>1. /\ t \in Int /\ core.now \in Int /\ e.timestamp \in Int /\ inputs \in Seq(Input)
      /\ old \in Seq(Input) /\ Sorted(old) /\ n \in Nat
      /\ \A k \in 1 .. n : old[k].timestamp \in Int
      /\ \A j \in 1 .. Len(inputs) : inputs[j].timestamp \in Int
  BY CoreParts, TimesAreIntegers, OverdueParts DEF TypeOK
<1>2. PICK p \in 1 .. n + 1 :
        /\ Inserted(queue, old, p, e)
        /\ \A k \in 1 .. p - 1 : old[k].timestamp <= e.timestamp
        /\ \A k \in p .. n : old[k].timestamp > e.timestamp
  BY <1>1, EnqueueShape
<1>3. WillHold(old, core.pressed, t, before)
  BY DEF Foretold
<1>4. CASE t < e.timestamp
  <2>1. after = before
    BY <1>1, <1>4, HeldBeforeInput
  <2> HIDE DEF old, n, queue, before, after
  <2>2. /\ Len(queue) = n + 1 /\ queue[p] = e
        /\ \A k \in 1 .. p - 1 : queue[k] = old[k]
        /\ \A k \in p .. n : queue[k + 1] = old[k]
    BY <1>2 DEF Inserted, n
  <2>3. \A k \in p .. n + 1 : queue[k].timestamp > t
    <3>1. \A k \in p .. n + 1 : k = p \/ (k - 1 \in p .. n /\ (k - 1) + 1 = k)
      BY <1>1, <1>2
    <3>2. \A k \in p .. n : k \in 1 .. n /\ old[k].timestamp > t
      BY <1>1, <1>2, <1>4
    <3> QED
      BY <1>1, <1>2, <1>4, <2>2, <3>1, <3>2
  <2>4. CASE NoneIsDue(old, t) /\ before = core.pressed
    <3>1. NoneIsDue(queue, t)
      <4>1. \A k \in 1 .. n + 1 : (k \in 1 .. p - 1 /\ k \in 1 .. n) \/ k \in p .. n + 1
        BY <1>1
      <4>2. \A k \in 1 .. n : old[k].timestamp > t
        BY <2>4 DEF NoneIsDue, n
      <4>3. \A k \in 1 .. n + 1 : queue[k].timestamp > t
        BY <2>2, <2>3, <4>1, <4>2
      <4> QED
        BY <2>2, <4>3 DEF NoneIsDue
    <3> QED
      BY <2>1, <2>4, <3>1 DEF WillHold, before, after, old, queue
  <2>5. CASE LastDue(old, t, before)
    <3>1. PICK k \in 1 .. n :
            /\ old[k].timestamp <= t /\ before = old[k].pressed
            /\ \A i \in k + 1 .. n : old[i].timestamp > t
      BY <2>5 DEF LastDue, n
    <3>2. k \in 1 .. p - 1
      BY <1>1, <1>2, <1>4, <3>1
    <3>3. \A i \in k + 1 .. n + 1 : queue[i].timestamp > t
      BY <1>1, <1>2, <2>2, <2>3, <3>1, <3>2
    <3>4. k \in 1 .. n + 1 /\ queue[k] = old[k]
      BY <1>1, <1>2, <2>2, <3>2
    <3>5. LastDue(queue, t, before)
      BY <2>2, <3>1, <3>3, <3>4 DEF LastDue
    <3> QED
      BY <2>1, <3>5 DEF WillHold, before, after, old, queue
  <2> QED
    BY <1>3, <2>4, <2>5 DEF WillHold
<1>5. CASE e.timestamp <= t /\ \E k \in p .. n : old[k].timestamp <= t
  <2>1. PICK m \in p .. n : old[m].timestamp <= t
    BY <1>5
  <2>2. m \in 1 .. n /\ old[m].timestamp > e.timestamp
    BY <1>1, <1>2
  <2>3. PICK j \in 1 .. Len(inputs) : inputs[j].timestamp = old[m].timestamp
    BY <2>2 DEF Queued
  <2>4. after = before
    BY <1>1, <2>1, <2>2, <2>3, HeldPastInput
  <2>5. LastDue(old, t, before)
    BY <1>1, <1>3, <2>1, <2>2 DEF WillHold, NoneIsDue
  <2> HIDE DEF old, n, queue, before, after
  <2>6. PICK k \in 1 .. n :
          /\ old[k].timestamp <= t /\ before = old[k].pressed
          /\ \A i \in k + 1 .. n : old[i].timestamp > t
    BY <2>5 DEF LastDue, n
  <2>7. k \in p .. n
    BY <1>1, <1>2, <2>1, <2>2, <2>6
  <2>8. /\ Len(queue) = n + 1 /\ queue[k + 1] = old[k]
        /\ \A i \in p .. n : queue[i + 1] = old[i]
    BY <1>2, <2>7 DEF Inserted, n
  <2>9. \A i \in (k + 1) + 1 .. n + 1 : queue[i].timestamp > t
    <3>1. \A i \in (k + 1) + 1 .. n + 1 : i - 1 \in p .. n /\ i - 1 \in k + 1 .. n /\ (i - 1) + 1 = i
      BY <1>1, <1>2, <2>7
    <3> QED
      BY <2>6, <2>8, <3>1
  <2>10. LastDue(queue, t, before)
    <3>1. k + 1 \in 1 .. n + 1
      BY <1>1, <1>2, <2>7
    <3> QED
      BY <2>6, <2>8, <2>9, <3>1 DEF LastDue
  <2> QED
    BY <2>4, <2>10 DEF WillHold, before, after, old, queue
<1>6. CASE e.timestamp <= t /\ ~ \E k \in p .. n : old[k].timestamp <= t
  <2>1. \A k \in p .. n : old[k].timestamp > t
    <3>1. \A k \in p .. n : k \in 1 .. n
      BY <1>1, <1>2
    <3> QED
      BY <1>1, <1>6, <3>1
  <2>2. \A k \in 1 .. n : old[k].timestamp <= e.timestamp \/ old[k].timestamp > t
    <3>1. \A k \in 1 .. n : k \in 1 .. p - 1 \/ k \in p .. n
      BY <1>1, <1>2
    <3> QED
      BY <1>2, <2>1, <3>1
  <2>3. ASSUME NEW j \in 1 .. Len(inputs), inputs[j].timestamp <= t
        PROVE  inputs[j].timestamp <= e.timestamp
    <3>1. SUFFICES ASSUME inputs[j].timestamp > e.timestamp PROVE FALSE
      BY <1>1
    <3>2. inputs[j].timestamp > core.now
      BY <1>1, <3>1
    <3>3. PICK k \in 1 .. n : old[k].timestamp = inputs[j].timestamp
      BY <3>2 DEF Queued
    <3> QED
      BY <1>1, <2>2, <2>3, <3>1, <3>3
  <2>4. after = e.pressed
    BY <1>1, <1>6, <2>3, HeldFromInput
  <2> HIDE DEF old, n, queue, before, after
  <2>5. /\ Len(queue) = n + 1 /\ queue[p] = e
        /\ \A i \in p .. n : queue[i + 1] = old[i]
    BY <1>2 DEF Inserted, n
  <2>6. \A i \in p + 1 .. n + 1 : queue[i].timestamp > t
    <3>1. \A i \in p + 1 .. n + 1 : i - 1 \in p .. n /\ (i - 1) + 1 = i
      BY <1>1, <1>2
    <3> QED
      BY <2>1, <2>5, <3>1
  <2>7. LastDue(queue, t, after)
    BY <1>6, <2>4, <2>5, <2>6 DEF LastDue
  <2> QED
    BY <2>7 DEF WillHold, after, old, queue
<1> QED
  BY <1>1, <1>4, <1>5, <1>6

\* What the core holds and will hold agrees with the accepted inputs.
Settled == Queued /\ IdleSettled /\ Foretold

\* Time alone changes nothing of it, as long as it does not reach a queued input.
LEMMA SettledForward ==
  ASSUME TypeOK, TypeOK', Settled,
         core'.pending = core.pending, core'.pressed = core.pressed, inputs' = inputs,
         core.now <= core'.now,
         deadline' = Idle => NoneIsDue(core.pending, core'.now)
  PROVE  Settled'
<1>1. /\ core.now \in Int /\ core'.now \in Int /\ \A t \in Time : t \in Int
      /\ \A k \in 1 .. Len(core.pending) : core.pending[k].timestamp \in Int
      /\ \A j \in 1 .. Len(inputs) : inputs[j].timestamp \in Int
  BY CoreParts, TimesAreIntegers DEF TypeOK, Cores
<1>2. Queued'
  BY <1>1 DEF Settled, Queued
<1>3. IdleSettled'
  BY DEF IdleSettled, NoneIsDue
<1>4. Foretold'
  <2>1. \A t \in Time : core'.now <= t => core.now <= t
    BY <1>1
  <2> QED
    BY <2>1 DEF Settled, Foretold
<1> QED
  BY <1>2, <1>3, <1>4 DEF Settled

\* set_input keeps the agreement, at once or through the queue.
LEMMA SettledInput ==
  ASSUME TypeOK, NothingOverdue, Settled, deadline = Idle,
         NEW e \in Input, core.now <= e.timestamp,
         core' = WithInput(core, e), inputs' = Append(inputs, e), deadline' = deadline
  PROVE  Settled'
<1> DEFINE old == core.pending
           n == Len(old)
           m == Len(inputs)
<1>1. /\ core.now \in Int /\ e.timestamp \in Int /\ inputs \in Seq(Input) /\ m \in Nat
      /\ old \in Seq(Input) /\ n \in Nat /\ Sorted(old)
      /\ \A k \in 1 .. n : old[k].timestamp \in Int
      /\ \A t \in Time : t \in Int
  BY CoreParts, TimesAreIntegers, OverdueParts DEF TypeOK
<1>2. /\ Len(inputs') = m + 1 /\ inputs'[m + 1] = e
      /\ \A j \in 1 .. m : inputs'[j] = inputs[j]
  BY <1>1
<1>3. \A j \in 1 .. m + 1 : j = m + 1 \/ j \in 1 .. m
  BY <1>1
<1>4. Queued /\ IdleSettled /\ Foretold
  BY DEF Settled
<1>5. CASE e.timestamp = core.now
  <2>1. /\ core'.now = core.now /\ core'.pending = old /\ core'.pressed = e.pressed
    BY <1>5 DEF WithInput, TypeOK, Cores
  <2>2. Queued'
    <3>1. ASSUME NEW j \in 1 .. m + 1, inputs'[j].timestamp > core.now
          PROVE  \E k \in 1 .. n : old[k].timestamp = inputs'[j].timestamp
      BY <1>1, <1>2, <1>3, <1>4, <1>5, <3>1 DEF Queued
    <3>2. ASSUME NEW k \in 1 .. n
          PROVE  \E j \in 1 .. m + 1 : inputs'[j].timestamp = old[k].timestamp
      <4>1. PICK j \in 1 .. m : inputs[j].timestamp = old[k].timestamp
        BY <1>4 DEF Queued
      <4>2. j \in 1 .. m + 1
        BY <1>1
      <4> QED
        BY <1>2, <4>1, <4>2
    <3> HIDE DEF m, n, old
    <3> QED
      BY <1>2, <2>1, <3>1, <3>2 DEF Queued, n, old
  <2>3. IdleSettled'
    BY <1>4, <2>1 DEF IdleSettled
  <2>4. Foretold'
    <3>1. \A t \in Time : core.now <= t =>
            WillHold(old, e.pressed, t, Held(Append(inputs, e), t))
      BY <1>4, <1>5, ForetoldAfterImmediate
    <3> QED
      BY <2>1, <3>1 DEF Foretold
  <2> QED
    BY <2>2, <2>3, <2>4 DEF Settled
<1>6. CASE core.now < e.timestamp
  <2> DEFINE queue == Enqueue(old, e)
  <2>1. /\ core'.now = core.now /\ core'.pending = queue /\ core'.pressed = core.pressed
    BY <1>1, <1>6 DEF WithInput, TypeOK, Cores
  <2>2. PICK p \in 1 .. n + 1 : Inserted(queue, old, p, e)
    BY <1>1, EnqueueShape
  <2> HIDE DEF queue
  <2>3. /\ Len(queue) = n + 1 /\ queue[p] = e
        /\ \A k \in 1 .. p - 1 : queue[k] = old[k]
        /\ \A k \in p .. n : queue[k + 1] = old[k]
    BY <2>2 DEF Inserted
  <2>4. ASSUME NEW k \in 1 .. n
        PROVE  \E i \in 1 .. n + 1 : queue[i] = old[k]
    <3>1. CASE k \in 1 .. p - 1
      BY <1>1, <2>3, <3>1
    <3>2. CASE k \in p .. n
      <4>1. k + 1 \in 1 .. n + 1
        BY <1>1
      <4> QED
        BY <2>3, <3>2, <4>1
    <3> QED
      BY <1>1, <2>2, <3>1, <3>2
  <2>5. ASSUME NEW i \in 1 .. n + 1
        PROVE  queue[i] = e \/ \E k \in 1 .. n : queue[i] = old[k]
    <3>1. CASE i \in 1 .. p - 1
      BY <1>1, <2>3, <3>1
    <3>2. CASE i \in p + 1 .. n + 1
      <4>1. i - 1 \in p .. n /\ i - 1 \in 1 .. n /\ (i - 1) + 1 = i
        BY <1>1, <3>2
      <4> QED
        BY <2>3, <4>1
    <3> QED
      BY <1>1, <2>3, <3>1, <3>2
  <2>6. Queued'
    <3>1. ASSUME NEW j \in 1 .. m + 1, inputs'[j].timestamp > core.now
          PROVE  \E k \in 1 .. n + 1 : queue[k].timestamp = inputs'[j].timestamp
      <4>1. CASE j = m + 1
        BY <1>1, <1>2, <2>3, <4>1
      <4>2. CASE j \in 1 .. m
        <5>1. PICK k \in 1 .. n : old[k].timestamp = inputs[j].timestamp
          BY <1>2, <1>4, <3>1, <4>2 DEF Queued
        <5> QED
          BY <1>2, <2>4, <4>2, <5>1
      <4> QED
        BY <1>3, <4>1, <4>2
    <3>2. ASSUME NEW i \in 1 .. n + 1
          PROVE  \E j \in 1 .. m + 1 : inputs'[j].timestamp = queue[i].timestamp
      <4>1. CASE queue[i] = e
        <5>1. m + 1 \in 1 .. m + 1
          BY <1>1
        <5> QED
          BY <1>2, <4>1, <5>1
      <4>2. CASE \E k \in 1 .. n : queue[i] = old[k]
        <5>1. PICK j \in 1 .. m : inputs[j].timestamp = queue[i].timestamp
          BY <1>4, <4>2 DEF Queued
        <5>2. j \in 1 .. m + 1
          BY <1>1
        <5> QED
          BY <1>2, <5>1, <5>2
      <4> QED
        BY <2>5, <4>1, <4>2
    <3>3. /\ Len(core'.pending) = n + 1 /\ Len(inputs') = m + 1
          /\ core'.pending = queue /\ core'.now = core.now
      BY <1>2, <2>1, <2>3
    <3> HIDE DEF m, n, old
    <3>4. \A j \in 1 .. Len(inputs') : inputs'[j].timestamp > core'.now =>
            \E k \in 1 .. Len(core'.pending) : core'.pending[k].timestamp = inputs'[j].timestamp
      BY <3>1, <3>3
    <3>5. \A k \in 1 .. Len(core'.pending) :
            \E j \in 1 .. Len(inputs') : inputs'[j].timestamp = core'.pending[k].timestamp
      BY <3>2, <3>3
    <3> QED
      BY <3>4, <3>5, Zenon DEF Queued
  <2>7. IdleSettled'
    <3>1. \A k \in 1 .. n : old[k].timestamp > core.now
      BY <1>4 DEF IdleSettled
    <3>2. \A i \in 1 .. n + 1 : queue[i].timestamp > core.now
      BY <1>1, <1>6, <2>5, <3>1
    <3> QED
      BY <2>1, <2>3, <3>2 DEF IdleSettled
  <2>8. Foretold'
    <3>1. \A t \in Time : core.now <= t =>
            WillHold(queue, core.pressed, t, Held(Append(inputs, e), t))
      BY <1>4, <1>6, ForetoldAfterQueued DEF queue
    <3> QED
      BY <2>1, <3>1 DEF Foretold
  <2> QED
    BY <2>6, <2>7, <2>8 DEF Settled
<1> QED
  BY <1>1, <1>5, <1>6

\* Taking the first queued input keeps the agreement.
LEMMA SettledApply ==
  ASSUME TypeOK, NothingOverdue, Settled, ApplyInput
  PROVE  Settled'
<1> DEFINE queue == core.pending
           n == Len(queue)
           rest == Tail(queue)
<1>1. /\ queue # << >> /\ Running /\ deadline' = deadline /\ inputs' = inputs
      /\ core'.now = Head(queue).timestamp /\ core'.pressed = Head(queue).pressed
      /\ core'.pending = rest
  BY DEF ApplyInput, InputDue, TypeOK, Cores
<1>2. /\ core.now \in Int /\ queue \in Seq(Input) /\ n \in Nat
      /\ \A k \in 1 .. n : queue[k].timestamp \in Int
      /\ \A t \in Time : t \in Int
  BY CoreParts, TimesAreIntegers
<1>3. /\ n >= 1 /\ Head(queue) = queue[1] /\ Len(rest) = n - 1
      /\ \A k \in 1 .. n - 1 : rest[k] = queue[k + 1]
  BY <1>1, <1>2, TailShape
<1>4. core.now <= queue[1].timestamp
  <2>1. 1 \in 1 .. n
    BY <1>2, <1>3
  <2> QED
    BY <2>1, OverdueParts
<1>5. \A k \in 1 .. n : k = 1 \/ (k - 1 \in 1 .. n - 1 /\ rest[k - 1] = queue[k])
  BY <1>2, <1>3
<1>6. \A k \in 1 .. n - 1 : k + 1 \in 1 .. n
  BY <1>2
<1>7. Queued /\ Foretold
  BY DEF Settled
<1> HIDE DEF queue, n, rest
<1>8. Queued'
  <2>1. ASSUME NEW j \in 1 .. Len(inputs), inputs[j].timestamp > core'.now
        PROVE  \E k \in 1 .. n - 1 : rest[k].timestamp = inputs[j].timestamp
    <3>1. inputs[j].timestamp > queue[1].timestamp /\ inputs[j].timestamp \in Int
      BY <1>1, <1>3, <2>1, TimesAreIntegers DEF TypeOK
    <3>2. 1 \in 1 .. n
      BY <1>2, <1>3
    <3>3. inputs[j].timestamp > core.now
      BY <1>2, <1>4, <3>1, <3>2
    <3>4. PICK k \in 1 .. n : queue[k].timestamp = inputs[j].timestamp
      BY <1>7, <3>3 DEF Queued, queue, n
    <3>5. k # 1
      BY <1>2, <3>1, <3>4
    <3> QED
      BY <1>5, <3>4, <3>5
  <2>2. ASSUME NEW k \in 1 .. n - 1
        PROVE  \E j \in 1 .. Len(inputs) : inputs[j].timestamp = rest[k].timestamp
    <3>1. PICK j \in 1 .. Len(inputs) : inputs[j].timestamp = queue[k + 1].timestamp
      BY <1>6, <1>7 DEF Queued, queue, n
    <3> QED
      BY <1>3, <3>1
  <2> QED
    BY <1>1, <1>3, <2>1, <2>2 DEF Queued
<1>9. Foretold'
  <2>1. ASSUME NEW t \in Time, core'.now <= t
        PROVE  WillHold(rest, core'.pressed, t, Held(inputs, t))
    <3> DEFINE held == Held(inputs, t)
    <3> HIDE DEF held
    <3>1. queue[1].timestamp <= t /\ 1 \in 1 .. n
      BY <1>1, <1>2, <1>3, <2>1
    <3>2. core.now <= t
      BY <1>2, <1>4, <3>1
    <3>3. WillHold(queue, core.pressed, t, held)
      BY <1>7, <3>2 DEF Foretold, queue, held
    <3>4. ~ NoneIsDue(queue, t)
      BY <1>2, <3>1 DEF NoneIsDue, n
    <3>5. PICK k \in 1 .. n :
            /\ queue[k].timestamp <= t /\ held = queue[k].pressed
            /\ \A i \in k + 1 .. n : queue[i].timestamp > t
      BY <3>3, <3>4 DEF WillHold, LastDue, n
    <3>6. CASE k = 1
      <4>1. NoneIsDue(rest, t)
        <5>1. \A i \in 1 .. n - 1 : i + 1 \in k + 1 .. n
          BY <1>2, <3>6
        <5> QED
          BY <1>3, <3>5, <5>1 DEF NoneIsDue
      <4> QED
        BY <1>1, <1>3, <3>5, <3>6, <4>1 DEF WillHold, held
    <3>7. CASE k # 1
      <4>1. k - 1 \in 1 .. n - 1 /\ rest[k - 1] = queue[k]
        BY <1>5, <3>7
      <4>2. \A i \in (k - 1) + 1 .. n - 1 : i \in 1 .. n - 1 /\ i + 1 \in k + 1 .. n
        BY <1>2, <4>1
      <4>3. \A i \in (k - 1) + 1 .. n - 1 : rest[i].timestamp > t
        BY <1>3, <3>5, <4>2
      <4>4. LastDue(rest, t, held)
        BY <1>3, <3>5, <4>1, <4>3 DEF LastDue
      <4> QED
        BY <4>4 DEF WillHold, held
    <3> QED
      BY <3>6, <3>7
  <2> QED
    BY <1>1, <2>1 DEF Foretold
<1>10. IdleSettled'
  BY <1>1 DEF IdleSettled, Running
<1> QED
  BY <1>8, <1>9, <1>10 DEF Settled

\* No step breaks the agreement.
LEMMA SettledStep ==
  ASSUME TypeOK, NothingOverdue, Ahead, Settled, [Next]_vars
  PROVE  Settled'
<1>1. TypeOK' /\ NothingOverdue'
  BY TypeStep, OrderStep, OverdueParts
<1>2. core.now <= core.nextAudio /\ core.now <= core.nextFrame /\ Sorted(core.pending)
  BY OverdueParts
<1>3. ASSUME NEW t \in Ticks, NEW p \in BOOLEAN, SetInput([ timestamp |-> t, pressed |-> p ])
      PROVE  Settled'
  <2> DEFINE e == [ timestamp |-> t, pressed |-> p ]
  <2>1. e \in Input
    BY InputTyped
  <2> HIDE DEF e
  <2>2. /\ core' = WithInput(core, e) /\ inputs' = Append(inputs, e)
        /\ core.now <= e.timestamp /\ deadline = Idle /\ deadline' = deadline
    BY <1>3 DEF SetInput, e
  <2> QED
    BY <2>1, <2>2, SettledInput
<1>4. CASE Reset
  <2>1. core'.pending = << >> /\ core'.pressed = FALSE /\ inputs' = << >>
    BY <1>4 DEF Reset, NewCore
  <2>2. \A t : Held(<< >>, t) = FALSE
    BY DEF Held
  <2>3. \A t : NoneIsDue(<< >>, t)
    BY DEF NoneIsDue
  <2>4. 1 .. Len(<< >>) = {}
    OBVIOUS
  <2>5. Queued' /\ IdleSettled'
    BY <2>1, <2>4 DEF Queued, IdleSettled
  <2>6. Foretold'
    BY <2>1, <2>2, <2>3 DEF Foretold, WillHold
  <2> QED
    BY <2>5, <2>6 DEF Settled
<1>5. ASSUME NEW t \in Ticks, Call(t) PROVE Settled'
  <2>1. UNCHANGED << core, inputs >> /\ deadline' \in Ticks
    BY <1>5 DEF Call
  <2>2. deadline' # Idle
    BY <2>1, ClockAssumption DEF Idle
  <2> QED
    BY <2>1, <2>2 DEF Settled, Queued, IdleSettled, Foretold
<1>6. CASE ApplyInput
  BY <1>6, SettledApply
<1>7. ASSUME NEW taken \in BOOLEAN, EmitAudio(taken) PROVE Settled'
  <2>1. NoneIsDue(core.pending, core.nextAudio)
    BY <1>2, <1>7, CoreParts, NoneDue DEF EmitAudio, NoneIsDue
  <2>2. /\ core'.now = core.nextAudio /\ core'.pending = core.pending
        /\ core'.pressed = core.pressed /\ inputs' = inputs
    BY <1>7 DEF EmitAudio, TypeOK, Cores
  <2> QED
    BY <1>1, <1>2, <2>1, <2>2, SettledForward
<1>8. ASSUME NEW taken \in BOOLEAN, EmitFrame(taken) PROVE Settled'
  <2>1. NoneIsDue(core.pending, core.nextFrame)
    BY <1>2, <1>8, CoreParts, NoneDue DEF EmitFrame, NoneIsDue
  <2>2. /\ core'.now = core.nextFrame /\ core'.pending = core.pending
        /\ core'.pressed = core.pressed /\ inputs' = inputs
    BY <1>8 DEF EmitFrame, TypeOK, Cores
  <2> QED
    BY <1>1, <1>2, <2>1, <2>2, SettledForward
<1>9. CASE Finish
  <2>1. NoneIsDue(core.pending, deadline) /\ core.now <= deadline
    BY <1>2, <1>9, CoreParts, NoneDue DEF Finish, NoneIsDue, Ahead
  <2>2. /\ core'.now = deadline /\ core'.pending = core.pending
        /\ core'.pressed = core.pressed /\ inputs' = inputs
    BY <1>9 DEF Finish, TypeOK, Cores
  <2> QED
    BY <1>1, <2>1, <2>2, SettledForward
<1>10. CASE UNCHANGED vars
  BY <1>10 DEF vars, Settled, Queued, IdleSettled, Foretold
<1> QED
  BY <1>3, <1>4, <1>5, <1>6, <1>7, <1>8, <1>9, <1>10 DEF Next, RunStep

\* Between two calls nothing queued is due, so what the core holds is what it will hold
\* at the present tick.
LEMMA SettledShows ==
  ASSUME TypeOK, Settled
  PROVE  InputSettled
<1>1. SUFFICES ASSUME deadline = Idle
               PROVE  /\ core.pressed = Held(inputs, core.now)
                      /\ \A k \in 1 .. Len(core.pending) : core.pending[k].timestamp > core.now
  BY DEF InputSettled
<1>2. core.now \in Time /\ core.now \in Int
  BY CoreParts, TimesAreIntegers
<1>3. \A k \in 1 .. Len(core.pending) :
        core.pending[k].timestamp > core.now /\ core.pending[k].timestamp \in Int
  BY <1>1, CoreParts, TimesAreIntegers DEF Settled, IdleSettled
<1>4. WillHold(core.pending, core.pressed, core.now, Held(inputs, core.now))
  BY <1>2 DEF Settled, Foretold
<1> DEFINE held == Held(inputs, core.now)
<1> HIDE DEF held
<1>5. ~ LastDue(core.pending, core.now, held)
  BY <1>2, <1>3 DEF LastDue
<1> QED
  BY <1>3, <1>4, <1>5 DEF WillHold, held

\* A new core starts with every part of the invariant.
LEMMA SettledInit == Init => TypeOK /\ NothingOverdue /\ Ahead /\ Settled
<1>1. NewCore \in Cores
  BY ClockAssumption DEF NewCore, Cores, Time
<1>2. \A t : Held(<< >>, t) = FALSE
  BY DEF Held
<1>3. Init => TypeOK /\ NothingOverdue /\ Ahead
  BY <1>1, ClockAssumption DEF Init, TypeOK, NothingOverdue, Ahead, Running, NewCore
<1>4. \A t : NoneIsDue(<< >>, t)
  BY DEF NoneIsDue
<1>5. 1 .. Len(<< >>) = {}
  OBVIOUS
<1>6. Init => core.pending = << >> /\ core.pressed = FALSE /\ inputs = << >>
  BY DEF Init, NewCore
<1>7. Init => Queued /\ IdleSettled
  BY <1>5, <1>6 DEF Queued, IdleSettled
<1>8. Init => Foretold
  BY <1>2, <1>4, <1>6 DEF Foretold, WillHold
<1> QED
  BY <1>3, <1>7, <1>8 DEF Settled

\* Between two calls the core holds what the accepted inputs hold at the present tick, and
\* no queued one is due, for every order in which inputs and runs were made.
THEOREM InputIsSettled == Spec => []InputSettled
<1> DEFINE Inv == TypeOK /\ NothingOverdue /\ Ahead /\ Settled
<1>1. Init => Inv
  BY SettledInit
<1>2. Inv /\ [Next]_vars => Inv'
  BY TypeStep, OrderStep, SettledStep, OverdueParts
<1>3. Inv => InputSettled
  BY SettledShows
<1> QED
  BY <1>1, <1>2, <1>3, PTL DEF Spec

---------------------------------------------------------------------------------
(* What the frames show.                                                          *)

\* What a frame shows is right, and no input that came after an output is for an
\* earlier time.
Shows(o, list) ==
  /\ o.kind = "video" => o.pressed = Held(SubSeq(list, 1, o.seen), o.timestamp)
  /\ \A j \in o.seen + 1 .. Len(list) : o.timestamp <= list[j].timestamp

\* An output lies in the past and saw inputs that are still in the history.
Stamped ==
  \A k \in 1 .. Len(outputs) :
    outputs[k].seen <= Len(inputs) /\ outputs[k].timestamp <= core.now

\* FramesShowHeldInput, output by output.
LEMMA FramesByOutput ==
  FramesShowHeldInput <=> \A k \in 1 .. Len(outputs) : Shows(outputs[k], inputs)
  BY DEF FramesShowHeldInput, Shows

\* An input added at or after the time of an output leaves what it shows right.
LEMMA ShowsAfterInput ==
  ASSUME NEW list \in Seq(Input), NEW e \in Input, NEW o \in Output,
         Shows(o, list), o.seen <= Len(list), o.timestamp <= e.timestamp
  PROVE  Shows(o, Append(list, e))
<1> DEFINE new == Append(list, e)
           n == Len(list)
<1>1. /\ new \in Seq(Input) /\ Len(new) = n + 1 /\ n \in Nat /\ o.seen \in Nat
      /\ new[n + 1] = e /\ \A j \in 1 .. n : new[j] = list[j]
  BY DEF Output
<1>2. SubSeq(new, 1, o.seen) = SubSeq(list, 1, o.seen)
  <2>1. /\ \A i \in 1 .. o.seen : list[1 + i - 1] \in Input /\ new[1 + i - 1] \in Input
        /\ \A i \in 1 .. o.seen : new[1 + i - 1] = list[1 + i - 1]
    BY <1>1
  <2> DEFINE a == SubSeq(new, 1, o.seen)
             b == SubSeq(list, 1, o.seen)
  <2>2. /\ a \in Seq(Input) /\ Len(a) = o.seen
        /\ \A i \in 1 .. o.seen : a[i] = new[1 + i - 1]
    BY <1>1, <2>1, SubSeqProperties
  <2>3. /\ b \in Seq(Input) /\ Len(b) = o.seen
        /\ \A i \in 1 .. o.seen : b[i] = list[1 + i - 1]
    BY <1>1, <2>1, SubSeqProperties
  <2> HIDE DEF a, b, new
  <2>4. a = b
    BY <2>1, <2>2, <2>3, SeqEqual
  <2> QED
    BY <2>4 DEF a, b
<1>3. ASSUME NEW j \in o.seen + 1 .. n + 1
      PROVE  o.timestamp <= new[j].timestamp
  <2>1. CASE j = n + 1
    BY <1>1, <2>1
  <2>2. CASE j # n + 1
    <3>1. j \in o.seen + 1 .. n /\ j \in 1 .. n
      BY <1>1, <2>2
    <3> QED
      BY <1>1, <3>1 DEF Shows
  <2> QED
    BY <2>1, <2>2
<1> QED
  BY <1>1, <1>2, <1>3 DEF Shows

\* An accepted input leaves the history of outputs right.
LEMMA FramesAfterInput ==
  ASSUME TypeOK, Stamped, FramesShowHeldInput, NEW e \in Input, core.now <= e.timestamp,
         inputs' = Append(inputs, e), outputs' = outputs, core'.now = core.now
  PROVE  FramesShowHeldInput' /\ Stamped'
<1>1. /\ inputs \in Seq(Input) /\ Len(inputs) \in Nat /\ Len(inputs') = Len(inputs) + 1
      /\ core.now \in Int /\ e.timestamp \in Int
  BY CoreParts, TimesAreIntegers DEF TypeOK
<1>2. \A k \in 1 .. Len(outputs) :
        /\ outputs[k] \in Output /\ outputs[k].seen \in Nat /\ outputs[k].timestamp \in Int
        /\ outputs[k].seen <= Len(inputs) /\ outputs[k].timestamp <= core.now
  <2>1. \A k \in 1 .. Len(outputs) : outputs[k] \in Output
    BY DEF TypeOK
  <2>2. \A o \in Output : o.seen \in Nat /\ o.timestamp \in Int
    BY TimesAreIntegers DEF Output
  <2> QED
    BY <2>1, <2>2 DEF Stamped
<1>3. Stamped'
  BY <1>1, <1>2 DEF Stamped
<1>4. \A k \in 1 .. Len(outputs) : outputs[k].timestamp <= e.timestamp
  BY <1>1, <1>2
<1>5. \A k \in 1 .. Len(outputs) : Shows(outputs[k], inputs')
  BY <1>1, <1>2, <1>4, FramesByOutput, ShowsAfterInput
<1> QED
  BY <1>3, <1>5 DEF FramesShowHeldInput, Shows

\* An output that shows what is held at its time joins the history.
LEMMA FramesAfterOutput ==
  ASSUME TypeOK, Stamped, FramesShowHeldInput, NEW o \in Output,
         o.seen = Len(inputs), o.timestamp = core'.now,
         o.kind = "video" => o.pressed = Held(inputs, o.timestamp),
         inputs' = inputs, outputs' = Append(outputs, o),
         core'.now \in Time, core.now <= core'.now
  PROVE  FramesShowHeldInput' /\ Stamped'
<1>1. /\ inputs \in Seq(Input) /\ Len(inputs) \in Nat /\ core.now \in Int /\ core'.now \in Int
      /\ outputs \in Seq(Output) /\ Len(outputs) \in Nat /\ Len(outputs') = Len(outputs) + 1
      /\ outputs'[Len(outputs) + 1] = o
      /\ \A k \in 1 .. Len(outputs) : outputs'[k] = outputs[k]
  BY CoreParts, TimesAreIntegers DEF TypeOK
<1>2. \A k \in 1 .. Len(outputs) + 1 : k = Len(outputs) + 1 \/ k \in 1 .. Len(outputs)
  BY <1>1
<1>3. \A k \in 1 .. Len(outputs) : outputs[k].timestamp \in Int
  <2>1. \A k \in 1 .. Len(outputs) : outputs[k] \in Output
    BY <1>1
  <2>2. \A x \in Output : x.timestamp \in Int
    BY TimesAreIntegers DEF Output
  <2> QED
    BY <2>1, <2>2
<1>4. SubSeq(inputs, 1, Len(inputs)) = inputs
  BY <1>1, SubSeqFull
<1>5. Len(inputs) + 1 .. Len(inputs) = {}
  BY <1>1
<1>6. Shows(o, inputs)
  BY <1>4, <1>5 DEF Shows
<1>7. \A k \in 1 .. Len(outputs) + 1 : Shows(outputs'[k], inputs)
  BY <1>1, <1>2, <1>6, FramesByOutput
<1>8. \A k \in 1 .. Len(outputs) + 1 :
        outputs'[k].seen <= Len(inputs) /\ outputs'[k].timestamp <= core'.now
  BY <1>1, <1>2, <1>3 DEF Stamped
<1> QED
  BY <1>1, <1>7, <1>8 DEF FramesShowHeldInput, Stamped, Shows

\* The past stays as it was.
LEMMA FramesForward ==
  ASSUME TypeOK, Stamped, FramesShowHeldInput,
         inputs' = inputs, outputs' = outputs, core'.now \in Time, core.now <= core'.now
  PROVE  FramesShowHeldInput' /\ Stamped'
<1>1. core.now \in Int /\ core'.now \in Int
  BY CoreParts, TimesAreIntegers
<1>2. \A k \in 1 .. Len(outputs) : outputs[k].timestamp \in Int
  <2>1. \A k \in 1 .. Len(outputs) : outputs[k] \in Output
    BY DEF TypeOK
  <2>2. \A x \in Output : x.timestamp \in Int
    BY TimesAreIntegers DEF Output
  <2> QED
    BY <2>1, <2>2
<1>3. Stamped'
  BY <1>1, <1>2 DEF Stamped
<1> QED
  BY <1>3 DEF FramesShowHeldInput

\* No step makes a frame wrong: at the tick of a frame nothing queued is due.
LEMMA FramesStep ==
  ASSUME TypeOK, NothingOverdue, Ahead, Settled, Stamped, FramesShowHeldInput, [Next]_vars
  PROVE  FramesShowHeldInput' /\ Stamped'
<1>1. TypeOK'
  BY TypeStep, OverdueParts
<1>2. core'.now \in Time
  BY <1>1 DEF TypeOK, Cores
<1>3. /\ core.now <= core.nextAudio /\ core.now <= core.nextFrame /\ Sorted(core.pending)
      /\ core.now \in Int
  BY OverdueParts, CoreParts, TimesAreIntegers
<1>4. ASSUME NEW t \in Ticks, NEW p \in BOOLEAN, SetInput([ timestamp |-> t, pressed |-> p ])
      PROVE  FramesShowHeldInput' /\ Stamped'
  <2> DEFINE e == [ timestamp |-> t, pressed |-> p ]
  <2>1. e \in Input
    BY InputTyped
  <2> HIDE DEF e
  <2>2. /\ core' = WithInput(core, e) /\ inputs' = Append(inputs, e)
        /\ core.now <= e.timestamp /\ outputs' = outputs
    BY <1>4 DEF SetInput, e
  <2>3. core'.now = core.now
    BY <2>2 DEF WithInput, TypeOK, Cores
  <2> QED
    BY <2>1, <2>2, <2>3, FramesAfterInput
<1>5. CASE Reset
  <2>1. outputs' = << >> /\ 1 .. Len(<< >>) = {}
    BY <1>5 DEF Reset
  <2> QED
    BY <2>1 DEF FramesShowHeldInput, Stamped
<1>6. ASSUME NEW t \in Ticks, Call(t) PROVE FramesShowHeldInput' /\ Stamped'
  BY <1>6 DEF Call, FramesShowHeldInput, Stamped
<1>7. CASE ApplyInput
  <2>1. /\ core'.now = Head(core.pending).timestamp /\ core.pending # << >>
        /\ inputs' = inputs /\ outputs' = outputs
    BY <1>7 DEF ApplyInput, InputDue, TypeOK, Cores
  <2>2. Head(core.pending) = core.pending[1] /\ 1 \in 1 .. Len(core.pending)
    BY <2>1, CoreParts, TailShape
  <2>3. core.now <= core'.now
    BY <2>1, <2>2, OverdueParts
  <2> QED
    BY <1>2, <2>1, <2>3, FramesForward
<1>8. ASSUME NEW taken \in BOOLEAN, EmitAudio(taken) PROVE FramesShowHeldInput' /\ Stamped'
  <2> DEFINE o == [ kind |-> "audio", timestamp |-> core.nextAudio,
                    index |-> core.audioIndex, pressed |-> FALSE, seen |-> Len(inputs) ]
  <2>1. /\ core'.now = core.nextAudio /\ inputs' = inputs
        /\ outputs' = outputs \/ outputs' = Append(outputs, o)
    BY <1>8 DEF EmitAudio, TypeOK, Cores
  <2>2. o \in Output
    BY CoreParts DEF Output
  <2>3. o.seen = Len(inputs) /\ o.timestamp = core'.now /\ o.kind # "video"
    BY <2>1
  <2> HIDE DEF o
  <2> QED
    BY <1>2, <1>3, <2>1, <2>2, <2>3, FramesForward, FramesAfterOutput
<1>9. ASSUME NEW taken \in BOOLEAN, EmitFrame(taken) PROVE FramesShowHeldInput' /\ Stamped'
  <2> DEFINE o == [ kind |-> "video", timestamp |-> core.nextFrame,
                    index |-> core.frameIndex, pressed |-> core.pressed,
                    seen |-> Len(inputs) ]
  <2>1. /\ core'.now = core.nextFrame /\ inputs' = inputs
        /\ outputs' = outputs \/ outputs' = Append(outputs, o)
    BY <1>9 DEF EmitFrame, TypeOK, Cores
  <2>2. o \in Output
    BY CoreParts DEF Output
  <2>3. core.pressed = Held(inputs, core.nextFrame)
    <3> DEFINE held == Held(inputs, core.nextFrame)
    <3>1. \A k \in 1 .. Len(core.pending) :
            core.pending[k].timestamp > core.nextFrame /\ core.pending[k].timestamp \in Int
      BY <1>3, <1>9, CoreParts, NoneDue, TimesAreIntegers DEF EmitFrame
    <3>2. WillHold(core.pending, core.pressed, core.nextFrame, held)
      BY <1>3, CoreParts DEF Settled, Foretold
    <3>3. core.nextFrame \in Int
      BY CoreParts, TimesAreIntegers
    <3> HIDE DEF held
    <3>4. ~ LastDue(core.pending, core.nextFrame, held)
      BY <3>1, <3>3 DEF LastDue
    <3> QED
      BY <3>2, <3>4 DEF WillHold, held
  <2>4. /\ o.seen = Len(inputs) /\ o.timestamp = core'.now
        /\ o.pressed = Held(inputs, o.timestamp)
    BY <2>1, <2>3
  <2> HIDE DEF o
  <2> QED
    BY <1>2, <1>3, <2>1, <2>2, <2>4, FramesForward, FramesAfterOutput
<1>10. CASE Finish
  BY <1>2, <1>10, FramesForward DEF Finish, Ahead, TypeOK, Cores
<1>11. CASE UNCHANGED vars
  BY <1>11 DEF vars, FramesShowHeldInput, Stamped
<1> QED
  BY <1>4, <1>5, <1>6, <1>7, <1>8, <1>9, <1>10, <1>11 DEF Next, RunStep

\* Every frame shows the input held at its timestamp among those accepted before it, and
\* no later input is for an earlier time, however runs are split, refused and retried.
THEOREM FramesAreFaithful == Spec => []FramesShowHeldInput
<1> DEFINE Inv == TypeOK /\ NothingOverdue /\ Ahead /\ Settled
                  /\ Stamped /\ FramesShowHeldInput
<1>1. Init => Inv
  <2>1. 1 .. Len(<< >>) = {}
    OBVIOUS
  <2>2. Init => Stamped /\ FramesShowHeldInput
    BY <2>1 DEF Init, Stamped, FramesShowHeldInput
  <2> QED
    BY <2>2, SettledInit
<1>2. Inv /\ [Next]_vars => Inv'
  BY TypeStep, OrderStep, SettledStep, FramesStep, OverdueParts
<1> QED
  BY <1>1, <1>2, PTL DEF Spec

---------------------------------------------------------------------------------
(* The schedule of the outputs.                                                   *)

\* The next packet and the next frame are at the ticks their numbers give.
OnTime ==
  /\ core.nextAudio = Schedule!Due(core.audioIndex, AudioPeriod)
  /\ core.nextFrame = Schedule!Due(core.frameIndex, FramePeriod)

\* One period after the tick due to an index is the tick due to the next one; at the end
\* of the clock both are the last multiple that fits.
LEMMA DueNext ==
  ASSUME NEW n \in Nat, NEW period \in Nat \ {0}, period <= MaxTick
  PROVE  Rescheduled(Schedule!Due(n, period), period) = Schedule!Due(n + 1, period)
<1> DEFINE this == (n + 1) * period
           next == (n + 2) * period
<1>1. this \in Nat /\ next \in Nat /\ next = this + period /\ MaxTick \in Nat /\ period \in Nat
  <2>1. this \in Nat /\ MaxTick \in Nat
    BY ClockAssumption
  <2>2. next = this + period
    BY SMT
  <2> QED
    BY <2>1, <2>2
<1>2. (n + 1) + 1 = n + 2
  OBVIOUS
<1>3. /\ Schedule!Due(n, period) = IF this <= MaxTick THEN this ELSE MaxTick - (MaxTick % period)
      /\ Schedule!Due(n + 1, period) = IF next <= MaxTick THEN next ELSE MaxTick - (MaxTick % period)
  BY <1>2 DEF Schedule!Due
<1>4. MaxTick % period \in Nat /\ MaxTick % period < period
  BY <1>1, ModBounds
<1>5. this <= MaxTick /\ next > MaxTick => MaxTick % period = MaxTick - this
  <2> SUFFICES ASSUME this <= MaxTick, next > MaxTick PROVE MaxTick % period = MaxTick - this
    OBVIOUS
  <2> DEFINE r == MaxTick - this
  <2>1. r \in Nat /\ r < period
    BY <1>1
  <2>2. period * (n + 1) = this /\ n + 1 \in Nat
    OBVIOUS
  <2>3. MaxTick = period * (n + 1) + r
    BY <1>1, <2>2
  <2> HIDE DEF r, this
  <2>4. (period * (n + 1) + r) % period = r
    BY <2>1, <2>2, ModUnique
  <2> QED
    BY <2>3, <2>4 DEF r
<1> DEFINE rest == MaxTick % period
<1> HIDE DEF this, next, rest
<1>6. /\ Schedule!Due(n, period) = IF this <= MaxTick THEN this ELSE MaxTick - rest
      /\ Schedule!Due(n + 1, period) = IF next <= MaxTick THEN next ELSE MaxTick - rest
      /\ rest \in Nat /\ rest < period
      /\ this <= MaxTick /\ next > MaxTick => rest = MaxTick - this
  BY <1>3, <1>4, <1>5 DEF rest
<1> QED
  BY <1>1, <1>6 DEF Rescheduled, Overflows

\* Only a taken output moves a next time, and with it the index.
LEMMA OnTimeStep ==
  ASSUME TypeOK, OnTime, [Next]_vars
  PROVE  OnTime'
<1>1. core.audioIndex \in Nat /\ core.frameIndex \in Nat
  BY CoreParts
<1>2. ASSUME UNCHANGED << core.nextAudio, core.nextFrame, core.audioIndex, core.frameIndex >>
      PROVE  OnTime'
  BY <1>2 DEF OnTime, Schedule!Due
<1>3. ASSUME NEW t \in Ticks, NEW p \in BOOLEAN, SetInput([ timestamp |-> t, pressed |-> p ])
      PROVE  OnTime'
  BY <1>2, <1>3 DEF SetInput, WithInput, TypeOK, Cores
<1>4. CASE Reset
  <2>1. core' = NewCore
    BY <1>4 DEF Reset
  <2>2. 0 + 1 = 1 /\ 1 * AudioPeriod = AudioPeriod /\ 1 * FramePeriod = FramePeriod
    BY ClockAssumption
  <2> QED
    BY <2>1, <2>2, ClockAssumption DEF NewCore, OnTime, Schedule!Due
<1>5. ASSUME NEW t \in Ticks, Call(t) PROVE OnTime'
  BY <1>2, <1>5 DEF Call
<1>6. CASE ApplyInput
  BY <1>2, <1>6 DEF ApplyInput, TypeOK, Cores
<1>7. ASSUME NEW taken \in BOOLEAN, EmitAudio(taken) PROVE OnTime'
  <2>1. CASE taken
    <3>1. /\ core'.nextAudio = Rescheduled(core.nextAudio, AudioPeriod)
          /\ core'.audioIndex = core.audioIndex + 1
          /\ core'.nextFrame = core.nextFrame /\ core'.frameIndex = core.frameIndex
      BY <1>7, <2>1 DEF EmitAudio, TypeOK, Cores
    <3>2. core'.nextAudio = Schedule!Due(core.audioIndex + 1, AudioPeriod)
      BY <1>1, <3>1, ClockAssumption, DueNext DEF OnTime
    <3> QED
      BY <3>1, <3>2 DEF OnTime, Schedule!Due
  <2>2. CASE ~ taken
    BY <1>2, <1>7, <2>2 DEF EmitAudio, TypeOK, Cores
  <2> QED
    BY <2>1, <2>2
<1>8. ASSUME NEW taken \in BOOLEAN, EmitFrame(taken) PROVE OnTime'
  <2>1. CASE taken
    <3>1. /\ core'.nextFrame = Rescheduled(core.nextFrame, FramePeriod)
          /\ core'.frameIndex = core.frameIndex + 1
          /\ core'.nextAudio = core.nextAudio /\ core'.audioIndex = core.audioIndex
      BY <1>8, <2>1 DEF EmitFrame, TypeOK, Cores
    <3>2. core'.nextFrame = Schedule!Due(core.frameIndex + 1, FramePeriod)
      BY <1>1, <3>1, ClockAssumption, DueNext DEF OnTime
    <3> QED
      BY <3>1, <3>2 DEF OnTime, Schedule!Due
  <2>2. CASE ~ taken
    BY <1>2, <1>8, <2>2 DEF EmitFrame, TypeOK, Cores
  <2> QED
    BY <2>1, <2>2
<1>9. CASE Finish
  BY <1>2, <1>9 DEF Finish, TypeOK, Cores
<1>10. CASE UNCHANGED vars
  BY <1>2, <1>10 DEF vars
<1> QED
  BY <1>3, <1>4, <1>5, <1>6, <1>7, <1>8, <1>9, <1>10 DEF Next, RunStep

\* A step that takes no output and counts none is a stutter of the schedule.
LEMMA ScheduleStutters ==
  ASSUME core'.audioIndex = core.audioIndex, core'.frameIndex = core.frameIndex,
         outputs' = outputs
  PROVE  UNCHANGED Schedule!vars
  BY DEF Schedule!vars, Latest

\* The last output is the one just taken.
LEMMA LatestAppended ==
  ASSUME TypeOK, NEW o \in Output, outputs' = Append(outputs, o)
  PROVE  Latest' = [ kind |-> o.kind, timestamp |-> o.timestamp, index |-> o.index ]
<1>1. outputs \in Seq(Output)
  BY DEF TypeOK
<1>2. outputs' # << >> /\ outputs'[Len(outputs')] = o
  BY <1>1
<1> QED
  BY <1>2 DEF Latest

\* Every step of the core is a step of the schedule or none.
LEMMA ScheduleStep ==
  ASSUME TypeOK, OnTime, [Next]_vars
  PROVE  [Schedule!Next]_Schedule!vars
<1>1. ASSUME NEW t \in Ticks, NEW p \in BOOLEAN, SetInput([ timestamp |-> t, pressed |-> p ])
      PROVE  UNCHANGED Schedule!vars
  BY <1>1, ScheduleStutters DEF SetInput, WithInput, TypeOK, Cores
<1>2. CASE Reset
  <2>1. core'.audioIndex = 0 /\ core'.frameIndex = 0 /\ Latest' = Schedule!Nothing
    BY <1>2 DEF Reset, NewCore, Latest, Schedule!Nothing
  <2> QED
    BY <2>1 DEF Schedule!Next, Schedule!Restart
<1>3. ASSUME NEW t \in Ticks, Call(t) PROVE UNCHANGED Schedule!vars
  BY <1>3, ScheduleStutters DEF Call
<1>4. CASE ApplyInput
  BY <1>4, ScheduleStutters DEF ApplyInput, TypeOK, Cores
<1>5. ASSUME NEW taken \in BOOLEAN, EmitAudio(taken) PROVE [Schedule!Next]_Schedule!vars
  <2>1. CASE taken
    <3> DEFINE o == [ kind |-> "audio", timestamp |-> core.nextAudio,
                      index |-> core.audioIndex, pressed |-> FALSE, seen |-> Len(inputs) ]
    <3>1. o \in Output
      BY CoreParts DEF Output
    <3>2. /\ core.nextAudio <= core.nextFrame /\ outputs' = Append(outputs, o)
          /\ core'.audioIndex = core.audioIndex + 1 /\ core'.frameIndex = core.frameIndex
      BY <1>5, <2>1 DEF EmitAudio, TypeOK, Cores
    <3>3. o.kind = "audio" /\ o.timestamp = core.nextAudio /\ o.index = core.audioIndex
      OBVIOUS
    <3> HIDE DEF o
    <3>4. Latest' = Schedule!NextPacket
      BY <3>1, <3>2, <3>3, LatestAppended DEF Schedule!NextPacket, OnTime
    <3>5. Schedule!NextPacket.timestamp <= Schedule!NextFrame.timestamp
      BY <3>2 DEF Schedule!NextPacket, Schedule!NextFrame, OnTime
    <3>6. Schedule!TakePacket
      BY <3>2, <3>4, <3>5 DEF Schedule!TakePacket
    <3> QED
      BY <3>6 DEF Schedule!Next
  <2>2. CASE ~ taken
    BY <1>5, <2>2, ScheduleStutters DEF EmitAudio, TypeOK, Cores
  <2> QED
    BY <2>1, <2>2
<1>6. ASSUME NEW taken \in BOOLEAN, EmitFrame(taken) PROVE [Schedule!Next]_Schedule!vars
  <2>1. CASE taken
    <3> DEFINE o == [ kind |-> "video", timestamp |-> core.nextFrame,
                      index |-> core.frameIndex, pressed |-> core.pressed,
                      seen |-> Len(inputs) ]
    <3>1. o \in Output
      BY CoreParts DEF Output
    <3>2. /\ core.nextFrame < core.nextAudio /\ outputs' = Append(outputs, o)
          /\ core'.frameIndex = core.frameIndex + 1 /\ core'.audioIndex = core.audioIndex
      BY <1>6, <2>1 DEF EmitFrame, TypeOK, Cores
    <3>3. o.kind = "video" /\ o.timestamp = core.nextFrame /\ o.index = core.frameIndex
      OBVIOUS
    <3> HIDE DEF o
    <3>4. Latest' = Schedule!NextFrame
      BY <3>1, <3>2, <3>3, LatestAppended DEF Schedule!NextFrame, OnTime
    <3>5. Schedule!NextFrame.timestamp < Schedule!NextPacket.timestamp
      BY <3>2 DEF Schedule!NextPacket, Schedule!NextFrame, OnTime
    <3>6. Schedule!TakeFrame
      BY <3>2, <3>4, <3>5 DEF Schedule!TakeFrame
    <3> QED
      BY <3>6 DEF Schedule!Next
  <2>2. CASE ~ taken
    BY <1>6, <2>2, ScheduleStutters DEF EmitFrame, TypeOK, Cores
  <2> QED
    BY <2>1, <2>2
<1>7. CASE Finish
  BY <1>7, ScheduleStutters DEF Finish, TypeOK, Cores
<1>8. CASE UNCHANGED vars
  BY <1>8, ScheduleStutters DEF vars
<1> QED
  BY <1>1, <1>2, <1>3, <1>4, <1>5, <1>6, <1>7, <1>8 DEF Next, RunStep

\* The core implements OutputSchedule: each packet and each frame is taken exactly once,
\* at its tick and in order, although the sink may refuse any of them.
THEOREM KeepsSchedule == Spec => OnSchedule
<1> DEFINE Inv == TypeOK /\ NothingOverdue /\ Ahead /\ OnTime
<1>1. Init => Inv
  <2>1. 0 + 1 = 1 /\ 1 * AudioPeriod = AudioPeriod /\ 1 * FramePeriod = FramePeriod
    BY ClockAssumption
  <2>2. Init => OnTime
    BY <2>1, ClockAssumption DEF Init, NewCore, OnTime, Schedule!Due
  <2> QED
    BY <2>2, SettledInit
<1>2. Inv /\ [Next]_vars => Inv'
  BY TypeStep, OrderStep, OnTimeStep, OverdueParts
<1>3. Init => Schedule!Init
  BY DEF Init, NewCore, Latest, Schedule!Init, Schedule!Nothing
<1>4. Inv /\ [Next]_vars => [Schedule!Next]_Schedule!vars
  BY ScheduleStep
<1> QED
  BY <1>1, <1>2, <1>3, <1>4, PTL DEF Spec, OnSchedule, Schedule!Spec
=====================================================================================
