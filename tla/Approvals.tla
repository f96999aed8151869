------------------------------ MODULE Approvals ------------------------------
(***************************************************************************)
(* Granting token allowances, as approve_tokens of the maker and           *)
(* approve_test_tokens of the taker do it (token_approvals.rs of both):    *)
(* one transaction after the other, each awaited before the next is sent.  *)
(* What is awaited is a Result: an error ends the process, but a receipt   *)
(* passes whatever its status, and so does the absence of one, which the   *)
(* client reports when the node no longer knows the transaction.           *)
(*                                                                         *)
(* External: the node, which takes, mines, reverts or forgets a            *)
(* transaction.  A forgotten one is not mined later: the account's next    *)
(* transaction takes its nonce.                                            *)
(***************************************************************************)
EXTENDS Naturals, Sequences, FiniteSets

CONSTANTS
    Grants,     \* the allowances to grant, in order
    Before,     \* external: the sets of allowances the account may have at first
    MaxRefused  \* bound: how many transactions of one pass revert or get lost

Allowances == {Grants[k] : k \in DOMAIN Grants} \cup UNION Before

Statuses == {"pending", "mined", "reverted", "forgotten"}

ASSUME ApprovalsAssumption ==
    /\ Grants \in Seq(Allowances)
    /\ MaxRefused \in Nat

VARIABLES
    passed,   \* how many of the approvals the program has got past
    txs,      \* external: the statuses of the transactions of this pass
    allowed   \* external: the allowances in force

approvalVars == <<passed, txs, allowed>>

ApprovalsInit ==
    /\ passed = 0
    /\ txs = <<>>
    /\ allowed \in Before

AllPassed == passed = Len(Grants)

Awaits == Len(txs) = passed + 1

\* Mutant: the list is read one past its end.
SendOneMore ==
    /\ Len(txs) = passed
    /\ txs' = Append(txs, "pending")
    /\ UNCHANGED <<passed, allowed>>

\* send_transaction
SendApproval ==
    /\ Len(txs) = passed
    /\ ~AllPassed
    /\ txs' = Append(txs, "pending")
    /\ UNCHANGED <<passed, allowed>>

\* Mutant: the second await is left out, the transaction is sent and forgotten about.
PassUnawaited ==
    /\ Awaits
    /\ passed' = passed + 1
    /\ UNCHANGED <<txs, allowed>>

\* A receipt of either status, or none.
Pass ==
    /\ Awaits
    /\ txs[Len(txs)] # "pending"
    /\ passed' = passed + 1
    /\ UNCHANGED <<txs, allowed>>

\* unwrap on an error of the send or of the wait, with the transaction taken or not.
ApprovalPanics ==
    \/ ~AllPassed /\ UNCHANGED approvalVars
    \/ SendApproval

\* The next run of the program starts over, whatever it was granted before.
StartOver ==
    /\ passed' = 0
    /\ txs' = <<>>
    /\ UNCHANGED allowed

-----------------------------------------------------------------------------
(* External: the node.                                                     *)

Becomes(k, s) ==
    /\ txs[k] = "pending"
    /\ txs' = [txs EXCEPT ![k] = s]

MineApproval(k) ==
    /\ Becomes(k, "mined")
    /\ allowed' = allowed \cup {Grants[k]}
    /\ UNCHANGED passed

RefuseApproval(k) ==
    /\ Cardinality({j \in DOMAIN txs : txs[j] \in {"reverted", "forgotten"}}) < MaxRefused
    /\ Becomes(k, "reverted") \/ Becomes(k, "forgotten")
    /\ UNCHANGED <<passed, allowed>>

Node == \E k \in DOMAIN txs : MineApproval(k) \/ RefuseApproval(k)

ApprovalStep == SendApproval \/ Pass

-----------------------------------------------------------------------------
ApprovalsTypeOK ==
    /\ passed \in 0..Len(Grants)
    /\ txs \in Seq(Statuses)
    /\ Len(txs) \in passed..Len(Grants)
    /\ allowed \subseteq Allowances

\* What the program has got past is in force, or the chain has refused it: the
\* program never runs ahead of a transaction that is still under way.
NothingUnderWay ==
    \A k \in 1..passed :
        \/ txs[k] = "mined" /\ Grants[k] \in allowed
        \/ txs[k] \in {"reverted", "forgotten"}
=============================================================================
