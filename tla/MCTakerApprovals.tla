-------------------------- MODULE MCTakerApprovals --------------------------
(* TakerApprovals for TLC: an account without allowances, and makers that ask  *)
(* for MAGIC, the one token the taker lets Seaport take, or for another.  Of   *)
(* the grants to the settlement engine, which no trade draws on, the first     *)
(* stands for all.                                                             *)
EXTENDS TakerApprovals

NoAllowance == {{}}
FirstGrants == SubSeq(TakerGrants, 1, 3)
=============================================================================
