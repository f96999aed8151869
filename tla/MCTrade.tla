------------------------------ MODULE MCTrade ------------------------------
(* Trade for TLC. *)
EXTENDS Trade
=============================================================================
