--------------------------- MODULE MCStropheHandlers ---------------------------
(* StropheHandlers for TLC. *)
EXTENDS StropheHandlers
===============================================================================
