----------------------------- MODULE MCMetering -----------------------------
(***************************************************************************)
(* Two souls: s1 can pay for a little, s2 for nothing.  Two calls, one     *)
(* change of the price, one crash and two failed writes.                   *)
(***************************************************************************)
EXTENDS Metering

CONSTANTS s1, s2

MCCalls == {[soul |-> s1, tokens |-> 1], [soul |-> s2, tokens |-> 2]}
MCEssence == [s \in {s1, s2} |-> IF s = s1 THEN 5 ELSE 1]
=============================================================================
