--------------------------------- MODULE MCV20Harness ---------------------------------
(***********************************************************************************)
(* Fixtures for V20Harness: directories of one case each, that between them take   *)
(* every opcode and the edges of every law, and directories of a few cases whose   *)
(* verdicts would differ if one case saw what another left behind. A case expects  *)
(* its own initial state unless said.                                              *)
(***********************************************************************************)
EXTENDS InstructionLaws, Verdicts, TLC

\* CS is 4096 and IP 256, data is in DS = ES = 8192, the stack in SS = 12288.
Start == [ reg |-> [ i \in AX .. DI |-> IF i = SP THEN 512 ELSE 0 ],
           seg |-> << 8192, 4096, 12288, 8192 >>, ip |-> 256, fl |-> 0 ]

\* The segments of Start by their encodings.
Segments(s) == [ i \in ES .. DS |-> s[i + 1] ]

Initial == [ Start EXCEPT !.seg = Segments(@) ]

With(s, settings) ==
  [ s EXCEPT !.reg = settings @@ @ ]

\* Bytes from an offset of a segment on, and the code of a case.
Bytes(segment, offset, bytes) ==
  [ i \in DOMAIN bytes |-> << PhysicalAddress(segment, Wrap(offset + i - 1)), bytes[i] >> ]
Code(s, bytes) == Bytes(s.seg[CS], s.ip, bytes)

\* Handlers 0, 3, 4 and 32 are at 5:7, 6:8, ...
Vectors ==
  Bytes(0, 0, << 7, 0, 5, 0 >>) \o Bytes(0, 12, << 8, 0, 6, 0 >>) \o Bytes(0, 16, << 9, 0, 7, 0 >>)
    \o Bytes(0, 128, << 10, 0, 8, 0 >>)

CaseOf(s, bytes, more) ==
  [ kind |-> "case", init |-> s, iram |-> Code(s, bytes) \o more, exp |-> s, eram |-> << >> ]

File(lines) == [ readable |-> TRUE, lines |-> lines ]
Directory(files) == [ found |-> TRUE, files |-> files ]
Single(k)   == Directory(<< File(<< k >>) >>)

---------------------------------------------------------------------------------
(* Cases for the laws.                                                              *)

EdgeBytes == {0, 1, 16, 127, 128, 255}
EdgeWords == {0, 1, 256, 32767, 32768, 65535}

\* AX and BX of the width of an opcode; the upper bytes of AL and BL are not zero.
Operands(op, a, b) == IF Width(op) = 8 THEN (AX :> 23040 + a @@ BX :> 42240 + b) ELSE (AX :> a @@ BX :> b)
Edges(op) == IF Width(op) = 8 THEN EdgeBytes ELSE EdgeWords

Sums ==
  UNION { { CaseOf([ With(Initial, Operands(op, a, b)) EXCEPT !.fl = f ], << op, \hD8 >>, << >>)
            : a \in Edges(op), b \in Edges(op), f \in {0, 1025} } : op \in Additive }

Products ==
  UNION { { CaseOf(With(Initial, Operands(op, a, b)), << op, modrm >>, << >>)
            : a \in Edges(op), b \in Edges(op), modrm \in {\hE3, \hEB} } : op \in Group3 }

Quotients ==
  { CaseOf(With(Initial, AX :> a @@ BX :> b), << \hF6, modrm >>, Vectors)
    : a \in {0, 1, 127, 128, 255, 256, 16256, 32767, 32768, 65408, 65535},
      b \in EdgeBytes, modrm \in {\hF3, \hFB} }
  \union
  { CaseOf(With(Initial, AX :> a @@ DX :> d @@ BX :> b), << \hF7, modrm >>, Vectors)
    : a \in {0, 1, 32768, 65535}, d \in {0, 1, 16383, 32767, 32768, 49152, 65535},
      b \in {0, 1, 2, 32767, 32768, 65534, 65535}, modrm \in {\hF3, \hFB} }

Shifts ==
  UNION { { CaseOf([ With(Initial, BX :> v @@ CX :> n) EXCEPT !.fl = f ], << op, 195 + 8 * r >>, << >>)
            : v \in IF op = \hD2 THEN {90, 165, 128} ELSE {23130, 42405, 32768},
              n \in {0, 1, 2, 7, 8, 9, 10, 16, 17, 18, 31}, f \in {0, 2049},
              r \in (0 .. 7) \ {6} }
          : op \in {\hD2, \hD3} }

\* Disjoint, overlapping in both directions, the same place, and round the end.
Places == { << 16, 64 >>, << 16, 17 >>, << 17, 16 >>, << 65534, 32 >>, << 30, 65535 >>, << 16, 16 >> }

StringCases ==
  { CaseOf([ With(Initial, AX :> 513 @@ CX :> n @@ SI :> p[1] @@ DI :> p[2]) EXCEPT !.fl = f ],
           prefixes \o << op >>,
           Bytes(8192, Wrap(p[1] - 4), << 1, 2, 1, 2, 1, 2, 1, 2, 3, 1 >>)
             \o Bytes(8192, Wrap(p[2] + 3), << 2, 5 >>))
    : op \in Strings, n \in {0, 1, 3}, p \in Places, f \in {0, 1024},
      prefixes \in { << >>, << \hF2 >>, << \hF3 >>, << \hF2, \h36, \hF3 >> } }

OperandCases ==
  { CaseOf(With(Initial, AX :> 4660 @@ CX :> 22136 @@ BX :> r @@ BP :> 48 @@ SI :> 33 @@ DI :> 65534),
           prefix \o << op, 64 * mode + 8 * reg + rm, d, 1 >>, << >>)
    : op \in {\h88, \h89, \h8D}, mode \in 0 .. 2, reg \in {0, 3}, rm \in 0 .. 7,
      r \in {32, 65502}, d \in {16, 255}, prefix \in { << >>, << \h2E >>, << \h36 >> } }

Entries ==
  { CaseOf([ With(Initial, SP :> sp @@ AX :> 7 @@ BX :> 77) EXCEPT !.fl = f ], prefix \o code,
           Vectors \o Bytes(8192, 40, << 11, 0, 9, 0 >>))
    : sp \in {0, 1, 2, 4, 5, 256, 65535}, f \in {0, 769, 2048, 4053}, prefix \in { << >>, << \h26 >> },
      code \in { << \hE8, 3, 255 >>, << \h9A, 1, 2, 3, 4 >>, << \hCC >>, << \hCD, 32 >>, << \hCE >>,
                 << \hFF, \h16, 40, 0 >>, << \hFF, \h1E, 40, 0 >>, << \hFF, \hD3 >>,
                 << \hF6, \hF1 >>, << \hF7, \hF9 >> } }

\* Every opcode with an operand in a register and in memory, IP at the end of its
\* segment and SP at the edge of its.
Table ==
  { CaseOf([ With(Initial, SP :> 65535 @@ BX :> 65535 @@ CX :> 2) EXCEPT !.ip = ip, !.fl = 4053 ],
           << op, modrm, 4, 255, 2 >>, Vectors \o Bytes(12288, 65535, << 9, 9, 8, 8, 7, 7 >>))
    : op \in 0 .. 255, modrm \in {\hC4, \h2F, \h37, \h06}, ip \in {256, 65534} }

\* Prefixes in front of an opcode only the V20 has, and of others; one case runs past
\* the end of its segment.
PrefixRun(n) == [ i \in 1 .. n |-> << \hF0, \h26, \hF3, \h3E, \hF2, \h2E, \h36 >>[(i % 7) + 1] ]

PrefixCases ==
  { CaseOf([ With(Initial, CX :> 2) EXCEPT !.ip = ip ], PrefixRun(n) \o << op, op >>, << >>)
    : n \in 0 .. 10, op \in {\h64, \h65, \h0F, \h90, \hA4}, ip \in {256, 65533} }

---------------------------------------------------------------------------------
(* Directories of several cases.                                                    *)

\* STOSB to 8192:40 as expected; LODSB from there, which is 0 unless a case left
\* something; NOP with the exact, or a wrong flag, register or cell expected.
StosCase == [ CaseOf(With(Initial, AX :> 90 @@ DI :> 40), << \hAA >>, << >>)
              EXCEPT !.exp = [ With(Initial, AX :> 90 @@ DI :> 41) EXCEPT !.ip = 257 ],
                     !.eram = Bytes(8192, 40, << 90 >>) ]
LodsCase == [ CaseOf(With(Initial, SI :> 40), << \hAC >>, << >>)
              EXCEPT !.exp = [ With(Initial, SI :> 41) EXCEPT !.ip = 257 ] ]
NopCase(exp, eram) ==
  [ CaseOf(Initial, << \h90 >>, << >>) EXCEPT !.exp = [ exp EXCEPT !.ip = 257 ], !.eram = eram ]

WrongBoth == [ With(Initial, AX :> 1) EXCEPT !.fl = 2049 ]

SmallLines ==
  { [ kind |-> "malformed" ], CaseOf(Initial, << \hF3, \h0F, 0 >>, << >>), StosCase, LodsCase,
    NopCase(Initial, << >>), NopCase([ Initial EXCEPT !.fl = 2089 ], << >>),
    NopCase(WrongBoth, << >>), NopCase(Initial, Bytes(8192, 40, << 1 >>)),
    CaseOf(With(Initial, AX :> 90 @@ DI :> 0), << \hAA >>, Bytes(8192, 41, << 3 >>)) }

Sequences(n) == UNION { [ 1 .. k -> SmallLines ] : k \in 0 .. n }

Directories ==
  { Directory(<< File(s) >>) : s \in Sequences(2) }
  \union { Directory(<< File(<< a, b, a >>) >>) : a \in SmallLines, b \in SmallLines }
  \union { Directory(<< File(<< a >>), [ readable |-> FALSE, lines |-> << a >> ], File(<< b >>) >>)
           : a \in SmallLines, b \in SmallLines }
  \union { [ found |-> FALSE, files |-> << >> ], Directory(<< >>) }

Fixtures ==
  Directories \union { Single(k) : k \in Sums \union Products \union Quotients \union Shifts
                          \union StringCases \union OperandCases \union Entries \union Table
                          \union PrefixCases }
=====================================================================================
