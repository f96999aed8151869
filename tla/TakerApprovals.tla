--------------------------- MODULE TakerApprovals ---------------------------
(***************************************************************************)
(* The taker with the allowances it grants at its start, and what it can   *)
(* pay because of them: Taker composed with Approvals.  In which token a   *)
(* maker asks to be paid is the maker's setting; the taker reads it in the *)
(* order and looks no further.                                             *)
(***************************************************************************)
EXTENDS Taker, Approvals

CONSTANTS
    ApproveTokens,  \* settings.approve_tokens
    PriceTokens     \* external: tokens makers ask to be paid in

ASSUME TakerApprovalsAssumption == ApproveTokens \in BOOLEAN

VARIABLE priceToken   \* external: the usdc_address of the makers' settings

allVars == <<vars, approvalVars, priceToken>>

\* approve_test_tokens: Seaport may move the options and MAGIC, and no other token.
TakerGrants ==
    <<[token |-> "magic", spender |-> "seaport"], [token |-> "option", spender |-> "seaport"],
      [token |-> "usdc", spender |-> "engine"], [token |-> "weth", spender |-> "engine"],
      [token |-> "wbtc", spender |-> "engine"], [token |-> "gmx", spender |-> "engine"],
      [token |-> "magic", spender |-> "engine"]>>

PayInit == Init /\ ApprovalsInit /\ priceToken \in PriceTokens

SameTerms == UNCHANGED <<approvalVars, priceToken>>

Approving ==
    /\ pc = "setup"
    /\ ApproveTokens
    /\ ApprovalStep
    /\ UNCHANGED <<vars, priceToken>>

SetupApproved ==
    /\ ApproveTokens => AllPassed
    /\ Setup
    /\ SameTerms

FailsInSetup ==
    /\ pc = "setup"
    /\ Fails
    /\ UNCHANGED approvalVars \/ (ApproveTokens /\ ApprovalPanics)
    /\ UNCHANGED priceToken

\* What Seaport takes from the taker for an order.
Payment == [token |-> IF asked[order] = "Buy" THEN priceToken ELSE "option", spender |-> "seaport"]

\* Seaport fills an order only if it may take the payment.
SettleAllowed ==
    /\ Settle
    /\ holds' # holds => Payment \in allowed
    /\ SameTerms

Elsewhere ==
    /\ \/ pc \notin {"setup", "settle"} /\ (Step \/ Fails \/ Ended)
       \/ pc = "settle" /\ Fails
       \/ Answer
    /\ SameTerms

NodeStep == Node /\ UNCHANGED <<vars, priceToken>>

PayNext ==
    Approving \/ SetupApproved \/ FailsInSetup \/ SettleAllowed \/ Elsewhere \/ NodeStep

PaySpec == PayInit /\ [][PayNext]_allVars

\* As Fairness of Taker, and the node mines, reverts or forgets what it takes.
FairPaySpec ==
    /\ PaySpec
    /\ WF_allVars(Approving)
    /\ WF_allVars(SetupApproved)
    /\ WF_allVars(SettleAllowed)
    /\ WF_allVars(pc \notin {"setup", "settle"} /\ Step /\ SameTerms)
    /\ WF_allVars(SameTerms /\ \E b \in BOOLEAN : AnswerSoft(b))
    /\ \A m \in Makers :
          WF_allVars(SameTerms /\ \E k \in DOMAIN asked, b \in BOOLEAN : AnswerRfq(m, k, b))
    /\ WF_allVars(NodeStep)

-----------------------------------------------------------------------------
(* Properties                                                              *)

\* A taker that reports success has been able to pay: Seaport may spend the token
\* the makers ask for.  Approvals that reverted or got lost pass unnoticed when
\* they are made, and so does an order that reverts for want of one; what stops
\* the taker is the balance it looks at after the purchase.
SuccessWasPayable ==
    pc = "done" => [token |-> priceToken, spender |-> "seaport"] \in allowed
=============================================================================
