---------------------------------- MODULE V20Harness ----------------------------------
(***********************************************************************************)
(* The v20-harness program (src/crates/v20-harness/src/main.rs): it runs one       *)
(* Cpu::step for every case of every prepared file and counts the cases that pass, *)
(* that diverge in registers or memory, and that diverge in flags alone. All cases *)
(* share one memory of a megabyte, whose touched cells are zeroed after each case. *)
(*                                                                                 *)
(* A step is not one action: every prefix it fetches and every iteration of a      *)
(* repeated string instruction is one, so that the loops of Cpu::step are loops    *)
(* here too.                                                                       *)
(***********************************************************************************)
EXTENDS Words, Sequences, FiniteSets

CONSTANT Workloads  \* The fixture directories a run may find: what each has is below.

VARIABLES
  work,      \* The fixture directory: [found, files], its files in the order of their names.
  phase,     \* Where main is: "main", "line", "step", "repeat", "judge", "done" or "missing".
  file,      \* The file evaluated, and the line of it.
  line,
  cpu,       \* The CPU of the case, its bus being the memory all cases share.
  override,  \* The locals of Cpu::step: the segment override, the REP prefix, the opcode.
  rep,
  opcode,
  report,    \* The counters of the file, and those of all files before it.
  grand

vars == << work, phase, file, line, cpu, override, rep, opcode, report, grand >>

---------------------------------------------------------------------------------
(* The memory: the cells stored to since they were last zeroed, and the cells      *)
(* written since a case began.                                                     *)

Index(address) == address % 1048576

ReadU8(mem, address) == At(mem.bytes, Index(address))

WriteU8(mem, address, v) ==
  [ bytes |-> Put(mem.bytes, Index(address), v), dirty |-> mem.dirty \union {Index(address)} ]

\* Ports read 0 and ignore what is written.
IoReadU8(mem, port)     == 0
IoWriteU8(mem, port, v) == mem

INSTANCE Instructions WITH BusRead <- ReadU8, BusWrite <- WriteU8,
                           PortRead <- IoReadU8, PortWrite <- IoWriteU8

Blank == [ bytes |-> Zeroed, dirty |-> {} ]

---------------------------------------------------------------------------------
(* Cases. A line is [kind |-> "malformed"], or a case: the initial registers init, *)
(* the initial memory iram (pairs of an address and a byte), and what the oracle   *)
(* expects of both.                                                                *)

\* A directory is a list of files and a file a list of lines, malformed or a case.
IsCase(k) ==
  /\ k.init.reg \in [ AX .. DI -> Word ] /\ k.init.seg \in [ ES .. DS -> Word ]
  /\ k.init.ip \in Word /\ k.init.fl \in Word
  /\ k.iram \in Seq(Nat \X Byte)

ASSUME WorkloadsAssumption ==
  \A d \in Workloads :
    /\ Len(d.files) \in Nat /\ DOMAIN d.files = 1 .. Len(d.files)
    /\ \A f \in DOMAIN d.files :
         LET lines == d.files[f].lines
         IN  /\ d.files[f].readable \in BOOLEAN
             /\ Len(lines) \in Nat /\ DOMAIN lines = 1 .. Len(lines)
             /\ \A l \in DOMAIN lines : lines[l].kind = "malformed"
                                       \/ (lines[l].kind = "case" /\ IsCase(lines[l]))

\* The cells a list names, and the last of its pairs for one of them.
Listed(pairs) == { Index(pairs[i][1]) : i \in DOMAIN pairs }

LastPair(pairs, a) ==
  pairs[CHOOSE i \in DOMAIN pairs : /\ Index(pairs[i][1]) = a
                                    /\ \A j \in i + 1 .. Len(pairs) : Index(pairs[j][1]) # a]

\* The cells with the pairs of a list stored in its order.
Stored(cells, pairs) ==
  [ a \in DOMAIN cells \union Listed(pairs) |->
      IF a \in Listed(pairs) THEN LastPair(pairs, a)[2] ELSE cells[a] ]

\* The byte a case puts at an address: the last of its list, or none.
ByteAt(k, address) ==
  IF Index(address) \in Listed(k.iram) THEN LastPair(k.iram, Index(address))[2] ELSE 0

V20Only == {\h64, \h65, \h0F}

\* Mutation of UsesV20Only: only the first byte is looked at.
UsesV20OnlyFirst(k) == ByteAt(k, 16 * k.init.seg[CS] + k.init.ip) \in V20Only

\* One of the first eight bytes is V20-only and prefixes alone precede it. The scan
\* walks physical addresses.
UsesV20Only(k) ==
  LET byte(i) == ByteAt(k, 16 * k.init.seg[CS] + k.init.ip + i)
  IN  \E i \in 0 .. 7 : byte(i) \in V20Only /\ \A j \in 0 .. i - 1 : byte(j) \in PrefixBytes

\* The CPU a case starts with, on the memory earlier cases left.
Prepared(k, mem) ==
  [ NewCpu([ bytes |-> Stored(mem.bytes, k.iram), dirty |-> {} ])
    EXCEPT !.reg = k.init.reg, !.seg = k.init.seg, !.ip = k.init.ip, !.flags = FromWord(k.init.fl) ]

\* Mutation of Restored: only the cells of the case's list are zeroed.
RestoredListed(k, mem) ==
  [ bytes |-> [ a \in DOMAIN mem.bytes \ Listed(k.iram) |-> mem.bytes[a] ], dirty |-> {} ]

\* The memory with the cells of the case and the cells it wrote zeroed.
Restored(k, mem) ==
  [ bytes |-> [ a \in DOMAIN mem.bytes \ (Listed(k.iram) \union mem.dirty) |-> mem.bytes[a] ],
    dirty |-> {} ]

\* The bits of FLAG_MASK, and those in which two FLAGS words differ.
FlagBits == 0 .. 11 \ {3, 5}

FlagDiff(got, expected) == { b \in FlagBits : BitSet(got, b) # BitSet(expected, b) }

RegistersMatch(k, c) == c.reg = k.exp.reg /\ c.seg = k.exp.seg /\ c.ip = k.exp.ip
MemoryMatches(k, c)  == \A i \in DOMAIN k.eram : ReadU8(c.bus, k.eram[i][1]) = k.eram[i][2]

\* A divergence of state hides one of flags.
Verdict(k, c) ==
  IF ~ RegistersMatch(k, c) \/ ~ MemoryMatches(k, c) THEN "state_fail"
  ELSE IF FlagDiff(ToWord(c.flags), k.exp.fl) # {} THEN "flag_fail"
  ELSE "pass"

NoReport == [ total |-> 0, pass |-> 0, state_fail |-> 0, flag_fail |-> 0, skipped |-> 0,
              flag_bit_diffs |-> [ b \in 0 .. 11 |-> 0 ] ]

\* Mutation of Counted: the bits of a divergence of state are counted too.
CountedAlways(r, k, c) ==
  LET diff == FlagDiff(ToWord(c.flags), k.exp.fl)
  IN  [ r EXCEPT !.total = @ + 1, ![Verdict(k, c)] = @ + 1,
                 !.flag_bit_diffs = [ b \in 0 .. 11 |-> @[b] + (IF b \in diff THEN 1 ELSE 0) ] ]

\* A report with one more case judged; flag bits are counted for flag failures only.
Counted(r, k, c) ==
  LET diff == IF Verdict(k, c) = "flag_fail" THEN FlagDiff(ToWord(c.flags), k.exp.fl) ELSE {}
  IN  [ r EXCEPT !.total = @ + 1, ![Verdict(k, c)] = @ + 1,
                 !.flag_bit_diffs = [ b \in 0 .. 11 |-> @[b] + (IF b \in diff THEN 1 ELSE 0) ] ]

\* Two reports added up.
Summed(a, b) ==
  [ total |-> a.total + b.total, pass |-> a.pass + b.pass, state_fail |-> a.state_fail + b.state_fail,
    flag_fail |-> a.flag_fail + b.flag_fail, skipped |-> a.skipped + b.skipped,
    flag_bit_diffs |-> [ i \in 0 .. 11 |-> a.flag_bit_diffs[i] + b.flag_bit_diffs[i] ] ]

---------------------------------------------------------------------------------
(* The program.                                                                    *)

Init ==
  /\ work \in Workloads
  /\ phase = IF work.found THEN "main" ELSE "missing"
  /\ file = 1
  /\ line = 1
  /\ cpu = NewCpu(Blank)
  /\ override = NoOverride
  /\ rep = NoPrefix
  /\ opcode = 0
  /\ report = NoReport
  /\ grand = NoReport

Lines == IF work.files[file].readable THEN work.files[file].lines ELSE << >>

Case == Lines[line]

Program == << work, file >>
StepLocals == << override, rep, opcode >>

\* main takes the next file; one it cannot read has no lines.
OpenFile ==
  /\ phase = "main"
  /\ file <= Len(work.files)
  /\ phase' = "line"
  /\ line' = 1
  /\ report' = NoReport
  /\ UNCHANGED << Program, cpu, StepLocals, grand >>

Finish ==
  /\ phase = "main"
  /\ file > Len(work.files)
  /\ phase' = "done"
  /\ UNCHANGED << Program, line, cpu, StepLocals, report, grand >>

\* A line that does not parse is not counted at all.
SkipMalformed ==
  /\ phase = "line"
  /\ line <= Len(Lines)
  /\ Case.kind = "malformed"
  /\ line' = line + 1
  /\ UNCHANGED << Program, phase, cpu, StepLocals, report, grand >>

SkipV20Only ==
  /\ phase = "line"
  /\ line <= Len(Lines)
  /\ Case.kind = "case"
  /\ UsesV20Only(Case)
  /\ line' = line + 1
  /\ report' = [ report EXCEPT !.skipped = @ + 1 ]
  /\ UNCHANGED << Program, phase, cpu, StepLocals, grand >>

StartCase ==
  /\ phase = "line"
  /\ line <= Len(Lines)
  /\ Case.kind = "case"
  /\ ~ UsesV20Only(Case)
  /\ phase' = "step"
  /\ cpu' = Prepared(Case, cpu.bus)
  /\ override' = NoOverride
  /\ rep' = NoPrefix
  /\ UNCHANGED << Program, line, opcode, report, grand >>

\* evaluate returns and main adds its report up.
CloseFile ==
  /\ phase = "line"
  /\ line > Len(Lines)
  /\ phase' = "main"
  /\ file' = file + 1
  /\ grand' = Summed(grand, report)
  /\ UNCHANGED << work, line, cpu, StepLocals, report >>

Fetched == Immediate(cpu, 8)

\* Mutation of AfterPrefix: LOCK is looked at and not consumed.
AfterPrefixPeeked(c, prefix) == IF prefix = Lock THEN c ELSE Past(c, 8)

AfterPrefix(c, prefix) == Past(c, 8)

\* Cpu::step reads prefixes until another opcode comes; the last of a kind counts.
FetchSegmentPrefix ==
  /\ phase = "step"
  /\ Fetched \in SegmentPrefixes
  /\ override' = cpu.seg[(Fetched \div 8) % 4]
  /\ cpu' = AfterPrefix(cpu, Fetched)
  /\ UNCHANGED << Program, phase, line, rep, opcode, report, grand >>

FetchLock ==
  /\ phase = "step"
  /\ Fetched = Lock
  /\ cpu' = AfterPrefix(cpu, Fetched)
  /\ UNCHANGED << Program, phase, line, StepLocals, report, grand >>

FetchRep ==
  /\ phase = "step"
  /\ Fetched \in RepPrefixes
  /\ rep' = Fetched
  /\ cpu' = AfterPrefix(cpu, Fetched)
  /\ UNCHANGED << Program, phase, line, override, opcode, report, grand >>

CanExecute == phase = "step" /\ Fetched \notin PrefixBytes /\ ~ (Fetched \in Strings /\ rep # NoPrefix)

ExecuteOpcode ==
  /\ CanExecute
  /\ opcode' = Fetched
  /\ cpu' = Execute(Past(cpu, 8), Fetched, override)
  /\ phase' = "judge"
  /\ UNCHANGED << Program, line, override, rep, report, grand >>

BeginRepeat ==
  /\ phase = "step"
  /\ Fetched \in Strings
  /\ rep # NoPrefix
  /\ opcode' = Fetched
  /\ cpu' = Past(cpu, 8)
  /\ phase' = "repeat"
  /\ UNCHANGED << Program, line, override, rep, report, grand >>

CanRepeat == phase = "repeat" /\ cpu.reg[CX] # 0

Repeat ==
  /\ CanRepeat
  /\ cpu' = Iterated(cpu, opcode, override)
  /\ phase' = IF Stops(cpu', opcode, rep) THEN "judge" ELSE "repeat"
  /\ UNCHANGED << Program, line, StepLocals, report, grand >>

EndRepeat ==
  /\ phase = "repeat"
  /\ cpu.reg[CX] = 0
  /\ phase' = "judge"
  /\ UNCHANGED << Program, line, cpu, StepLocals, report, grand >>

\* The step has returned, whatever it says of itself: run_case reads the registers and
\* the expected cells, restores the memory, and evaluate counts the verdict.
Judge ==
  /\ phase = "judge"
  /\ report' = Counted(report, Case, cpu)
  /\ cpu' = NewCpu(Restored(Case, cpu.bus))
  /\ line' = line + 1
  /\ phase' = "line"
  /\ UNCHANGED << Program, StepLocals, grand >>

\* The actions but the two that compute an instruction.
Proceed ==
  \/ OpenFile \/ Finish \/ CloseFile
  \/ SkipMalformed \/ SkipV20Only \/ StartCase
  \/ FetchSegmentPrefix \/ FetchLock \/ FetchRep
  \/ BeginRepeat \/ EndRepeat
  \/ Judge

Next == Proceed \/ ExecuteOpcode \/ Repeat

\* The program is sequential: it goes on while it can. For the two actions that compute
\* an instruction the weak fairness is spelled out, with their enabling condition.
Fairness ==
  /\ WF_vars(Proceed)
  /\ []<>~CanExecute \/ []<><<ExecuteOpcode>>_vars
  /\ []<>~CanRepeat \/ []<><<Repeat>>_vars

Spec == Init /\ [][Next]_vars /\ Fairness

---------------------------------------------------------------------------------
(* Properties.                                                                     *)

\* The bytes a run of the scan cannot see: past the first eight, or past the end of the
\* segment, where IP wraps and the scan does not.
BeyondScan(k, distance) == distance >= 8 \/ k.init.ip + distance > MaxWord

\* A case that is run reaches a V20-only opcode only where the scan could not see it, so
\* such a case is skipped however many prefixes it has below eight.
V20OnlyIsSkipped ==
  (phase = "judge" /\ opcode \in V20Only) => BeyondScan(Case, Wrap(cpu.ip - 1 - Case.init.ip))

Adds(r) ==
  /\ r.total = r.pass + r.state_fail + r.flag_fail
  /\ \A b \in 0 .. 11 : r.flag_bit_diffs[b] <= r.flag_fail
  /\ r.flag_fail > 0 => \E b \in FlagBits : r.flag_bit_diffs[b] > 0

\* The cases of a file, none if it cannot be read, and those of a directory.
CasesIn(source) ==
  { l \in DOMAIN source.lines : source.readable /\ source.lines[l].kind = "case" }

CasesOf(files) == UNION { {f} \X CasesIn(files[f]) : f \in DOMAIN files }

\* The counters tell a story that adds up, in a file and over all: every case passed or
\* failed in one way or was skipped, none is counted twice or lost, and a flag bit is
\* blamed for nothing but flag failures.
ReportsAddUp ==
  /\ Adds(report) /\ Adds(grand)
  /\ phase = "done" => grand.total + grand.skipped = Cardinality(CasesOf(work.files))

\* The program comes to its summary: no step loops for ever on prefixes or on a repeated
\* string instruction.
Terminates == <>(phase \in {"done", "missing"})
=====================================================================================
