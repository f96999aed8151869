-------------------------- MODULE MCMakerApprovals --------------------------
(* MakerApprovals for TLC: an account without allowances. *)
EXTENDS MakerApprovals

NoAllowance == {{}}
=============================================================================
