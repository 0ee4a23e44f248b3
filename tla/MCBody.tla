------------------------------- MODULE MCBody -------------------------------
(* One soul with nothing and one with two gifts.                           *)
EXTENDS Body, TLC
CONSTANTS s1, s2
FeedSymmetry == Permutations(Feeds)
SavedDef == {[sat |-> SatFull, hp |-> 0, idle |-> TRUE, food |-> 1]}
StartEssenceDef == s1 :> 1 @@ s2 :> 2
=============================================================================
