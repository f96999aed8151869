--------------------------- MODULE MakerApprovals ---------------------------
(***************************************************************************)
(* The connection life cycle of the maker with the approvals one by one:   *)
(* MakerSession, in which approve_tokens is a single step that succeeds or *)
(* kills the process, composed with Approvals.  Every run of the maker     *)
(* with approve_tokens set grants everything again.                        *)
(***************************************************************************)
EXTENDS MakerSession, Approvals

\* approve_tokens: what Seaport may move for the maker, and what the settlement
\* engine may take as collateral.
MakerGrants ==
    <<[token |-> "usdc", spender |-> "seaport"], [token |-> "option", spender |-> "seaport"],
      [token |-> "usdc", spender |-> "engine"], [token |-> "weth", spender |-> "engine"],
      [token |-> "wbtc", spender |-> "engine"], [token |-> "gmx", spender |-> "engine"],
      [token |-> "magic", spender |-> "engine"]>>

vars == <<sessionVars, approvalVars>>

Init == SessionInit /\ ApprovalsInit

Approving ==
    /\ pc = "approve"
    /\ ApprovalStep
    /\ UNCHANGED sessionVars

\* approve_tokens returns.
Approved ==
    /\ AllPassed
    /\ Approve
    /\ UNCHANGED approvalVars

\* Mutant: a failed approval ends the run like any other failure.
PanicsWhileApprovingRetries ==
    /\ pc = "approve"
    /\ ReturnNone
    /\ UNCHANGED <<authenticated, tlsValid>>
    /\ ApprovalPanics

PanicsWhileApproving ==
    /\ pc = "approve"
    /\ Panic
    /\ ApprovalPanics

ReachApprovals ==
    /\ pc = "signer"
    /\ CreateSigner
    /\ StartOver

\* Everything else is MakerSession's.
Elsewhere ==
    /\ \/ pc # "approve" /\ SessionNext /\ ~CreateSigner
       \/ \E s \in Sessions : Expire(s)
    /\ UNCHANGED approvalVars

NodeStep == Node /\ UNCHANGED sessionVars

Next == Approving \/ Approved \/ PanicsWhileApproving \/ ReachApprovals \/ Elsewhere \/ NodeStep

Spec == Init /\ [][Next]_vars

\* The node mines, reverts or forgets every transaction it has taken; the wait
\* for a receipt has no timeout of its own.
FairSpec ==
    /\ Spec
    /\ SessionFairness
    /\ WF_vars(Approving)
    /\ WF_vars(Approved)
    /\ WF_vars(NodeStep)

-----------------------------------------------------------------------------
(* Properties                                                              *)

\* While a stream of the maker is open, and so while it may be asked to write or
\* to pay, every allowance it counts on is in force or was refused by the chain in
\* this very run: no RFQ ever meets an approval that is still under way, however
\* many runs the maker has been through (run awaits approve_tokens before it opens
\* the streams).
ServesWithAllowances ==
    pc \in {"open_soft", "open_rfq", "serve"} /\ ApproveTokens =>
        AllPassed /\ NothingUnderWay

\* The composition is a behaviour of MakerSession: with the approvals one by one
\* the life cycle is the same.
ImplementsSession == SessionSpec
=============================================================================
