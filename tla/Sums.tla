-------------------------------- MODULE Sums --------------------------------
(***************************************************************************)
(* Sums over an initial segment of the natural numbers, written as a       *)
(* recursive function, and sums over a set.  What both return is proved in *)
(* module SumsProofs.                                                      *)
(***************************************************************************)
EXTENDS Integers, FiniteSets

\* RunningSums(v, n)[i] = v[1] + ... + v[i]
RunningSums(v, n) ==
  LET sum[i \in 0..n] == IF i = 0 THEN 0 ELSE sum[i - 1] + v[i]
  IN  sum

SumTo(v, n) == RunningSums(v, n)[n]

SetSums == INSTANCE FiniteSetsExt

\* The sum of f[x] for every x in S
SumOver(f, S) == SetSums!MapThenSumSet(LAMBDA x : f[x], S)
=============================================================================
