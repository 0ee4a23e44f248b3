---------------------------- MODULE MCSimCommands ----------------------------
(* Requests of one tamer that may come at the same time.                   *)
EXTENDS SimCommands, TLC
CallSymmetry == Permutations(Calls)
=============================================================================
