---------------------------------- MODULE Histories ----------------------------------
(***********************************************************************************)
(* Histories are sequences of what happened, in order, that the properties look    *)
(* back on.                                                                        *)
(***********************************************************************************)
EXTENDS Integers, Sequences, FiniteSetsExt

\* The last position of a history before position n whose entry is one of entries, 0 if
\* there is none.
LastBefore(list, entries, n) ==
  LET hits == { k \in 1 .. n - 1 : list[k] \in entries }
  IN  IF hits = {} THEN 0 ELSE Max(hits)

\* The last position of all.
LastIn(list, entries) == LastBefore(list, entries, Len(list) + 1)
=====================================================================================
