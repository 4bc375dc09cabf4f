-------------------------------- MODULE Sums --------------------------------
(***************************************************************************)
(* The sum of the first elements of a sequence, as a recursive function:   *)
(* SumsProofs has the facts about it that the filter's proofs rest on.     *)
(***************************************************************************)
EXTENDS Integers, Sequences

Totals(s) == LET total[k \in Nat] == IF k = 0 THEN 0 ELSE total[k - 1] + s[k]
             IN  total

\* s[1] + ... + s[n]
Total(s, n) == Totals(s)[n]

Sum(s) == Total(s, Len(s))
=============================================================================
