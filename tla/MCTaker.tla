------------------------------ MODULE MCTaker ------------------------------
(* Taker for TLC. *)
EXTENDS Taker
=============================================================================
