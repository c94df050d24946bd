---------------------------- MODULE MCMioRequest ----------------------------
(***************************************************************************)
(* MioRequest for TLC: calls are interchangeable model values.             *)
(***************************************************************************)
EXTENDS MioRequest, TLC

CallSymmetry == Permutations(Calls)
=============================================================================
