---------------------------- MODULE MCMioConnect ----------------------------
(* MioConnect for TLC. *)
EXTENDS MioConnect
===============================================================================
