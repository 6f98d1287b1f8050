----------------------------------- MODULE Verdicts -----------------------------------
(***********************************************************************************)
(* What the v20-harness concludes of each case it runs, remembered over a whole    *)
(* run of V20Harness.                                                              *)
(***********************************************************************************)
EXTENDS V20Harness

VARIABLE results    \* Pairs of a case and the verdict on it.

Concluded == IF phase = "judge" THEN { << Case, Verdict(Case, cpu) >> } ELSE {}

InitVerdicts == Init /\ results = {}
NextVerdicts == Next /\ results' = results \union Concluded
SpecVerdicts == InitVerdicts /\ [][NextVerdicts]_<< vars, results >> /\ Fairness

\* The verdict on a case does not depend on the cases, files and lines before it.
SameCaseSameVerdict == \A x \in results, y \in results : x[1] = y[1] => x = y
=====================================================================================
