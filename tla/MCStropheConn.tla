----------------------------- MODULE MCStropheConn -----------------------------
(* StropheConn for TLC. *)
EXTENDS StropheConn
===============================================================================
