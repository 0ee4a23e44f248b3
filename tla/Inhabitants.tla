---------------------------- MODULE Inhabitants -----------------------------
(***************************************************************************)
(* The souls of the world (the souls table), which every component that    *)
(* speaks of them has in common.                                           *)
(***************************************************************************)
CONSTANT Souls

=============================================================================
