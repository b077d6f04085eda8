---------------------------- MODULE MCDailySeed ----------------------------
(***************************************************************************)
(* Two servers over two days, with three secrets so that a redeployed      *)
(* server always finds a new one.                                          *)
(***************************************************************************)
EXTENDS DailySeed
=============================================================================
