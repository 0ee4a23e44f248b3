-------------------------------- MODULE Sums --------------------------------
(***************************************************************************)
(* Adding up a column of a table: the sum of f over the rows in S.         *)
(***************************************************************************)
EXTENDS Integers, FiniteSetsExt

Total(f, S) == MapThenSumSet(LAMBDA x : f[x], S)
=============================================================================
