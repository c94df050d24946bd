----------------------------- MODULE MCMioReference -----------------------------
(***************************************************************************)
(* MioReference for TLC: nodes and clients are interchangeable.            *)
(***************************************************************************)
EXTENDS MioReference, TLC

NodeSymmetry == Permutations(Nodes) \cup Permutations(Clients)
===============================================================================
