------------------------------ MODULE MCPubsubRx ------------------------------
(***************************************************************************)
(* PubsubRx for TLC: receivers and packets are interchangeable.            *)
(***************************************************************************)
EXTENDS PubsubRx, TLC

Symmetry == Permutations(Receivers) \cup Permutations(Packets)
===============================================================================
