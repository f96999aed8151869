------------------------ MODULE MakerApprovalsProofs ------------------------
(* Proofs about the maker's approvals, for any list of them.               *)
EXTENDS MakerApprovals, SequenceTheorems, TLAPS

\* A step of the composition is a step of the session or leaves it alone.
LEMMA SessionStepped == [Next]_vars => [SessionNext]_sessionVars
<1> SUFFICES ASSUME [Next]_vars PROVE [SessionNext]_sessionVars
    OBVIOUS
<1>1. CASE Approving
    BY <1>1 DEF Approving
<1>2. CASE Approved
    BY <1>2 DEF Approved, SessionNext, SessionStep, Open
<1>3. CASE PanicsWhileApproving
    BY <1>3 DEF PanicsWhileApproving, SessionNext, SessionStep
<1>4. CASE ReachApprovals
    BY <1>4 DEF ReachApprovals, SessionNext, SessionStep, Open
<1>5. CASE Elsewhere
    BY <1>5 DEF Elsewhere, SessionNext
<1>6. CASE NodeStep
    BY <1>6 DEF NodeStep
<1>7. CASE UNCHANGED vars
    BY <1>7 DEF vars
<1> QED
    BY <1>1, <1>2, <1>3, <1>4, <1>5, <1>6, <1>7 DEF Next

\* With the approvals one by one, whatever they are, the life cycle is the one of
\* MakerSession: what is proved of it holds.
THEOREM ApprovalsKeepSession == Spec => ImplementsSession
<1>1. Init => SessionInit
    BY DEF Init
<1> QED
    BY <1>1, SessionStepped, PTL DEF Spec, SessionSpec, ImplementsSession

-----------------------------------------------------------------------------

\* The points of run at which the maker may be asked to write or to pay.
WithStreams == {"open_soft", "open_rfq", "serve"}

\* A mined transaction has granted its allowance.
MinedIsGranted == \A k \in DOMAIN txs : txs[k] = "mined" => Grants[k] \in allowed

\* Only an approval that has not been got past can be under way.
ApprovalsInv ==
    /\ ApprovalsTypeOK
    /\ MinedIsGranted
    /\ NothingUnderWay

\* What the maker serves with: run does not open a stream before approve_tokens
\* has returned.
ServingInv == pc \in WithStreams /\ ApproveTokens => AllPassed

\* Sending, receiving, panicking and what the node does leave the account of the
\* approvals right.
LEMMA ApprovalsStep ==
    ASSUME ApprovalsInv,
           \/ ApprovalStep \/ ApprovalPanics \/ StartOver \/ Node \/ UNCHANGED approvalVars
    PROVE  ApprovalsInv'
<1>0. /\ Grants \in Seq(Allowances) /\ Len(Grants) \in Nat /\ DOMAIN Grants = 1..Len(Grants)
      /\ passed \in Nat /\ passed <= Len(Grants) /\ txs \in Seq(Statuses)
      /\ Len(txs) \in Nat /\ passed <= Len(txs) /\ Len(txs) <= Len(Grants)
      /\ DOMAIN txs = 1..Len(txs) /\ allowed \subseteq Allowances
    BY ApprovalsAssumption DEF ApprovalsInv, ApprovalsTypeOK
<1>1. CASE SendApproval
    <2>1. /\ txs' = Append(txs, "pending") /\ UNCHANGED <<passed, allowed>>
          /\ Len(txs) = passed /\ passed # Len(Grants)
        BY <1>1 DEF SendApproval, AllPassed
    <2>2. passed' = passed /\ allowed' = allowed /\ Len(txs) + 1 <= Len(Grants)
        <3>1. \A l, g \in Nat : l <= g /\ l # g => l + 1 <= g
            OBVIOUS
        <3>2. Len(txs) # Len(Grants) /\ Len(txs) \in Nat /\ Len(Grants) \in Nat
              /\ Len(txs) <= Len(Grants)
            BY <1>0, <2>1, Zenon
        <3>3. Len(txs) + 1 <= Len(Grants)
            BY <3>1, <3>2
        <3> QED
            BY <2>1, <3>3
    <2>3. "pending" \in Statuses
        BY DEF Statuses
    <2>4. /\ txs' \in Seq(Statuses) /\ Len(txs') = Len(txs) + 1
          /\ \A k \in 1..Len(txs) : txs'[k] = txs[k]
          /\ txs'[Len(txs) + 1] = "pending"
        <3>1. txs \in Seq(Statuses)
            BY <1>0
        <3> HIDE DEF Statuses
        <3> QED
            BY <2>1, <2>3, <3>1, AppendProperties
    <2>5. DOMAIN txs' = 1..Len(txs')
        BY <2>4, LenProperties
    <2>6. ApprovalsTypeOK'
        <3>1. Len(txs') \in passed'..Len(Grants)
            BY <1>0, <2>2, <2>4
        <3>2. passed' \in 0..Len(Grants) /\ allowed' \subseteq Allowances
            BY <1>0, <2>2
        <3> QED
            BY <2>4, <3>1, <3>2 DEF ApprovalsTypeOK
    <2>7. MinedIsGranted'
        <3> SUFFICES ASSUME NEW k \in DOMAIN txs', txs'[k] = "mined"
                     PROVE  Grants[k] \in allowed'
            BY DEF MinedIsGranted
        <3>1. k \in 1..Len(txs)
            BY <1>0, <2>4, <2>5
        <3> QED
            BY <1>0, <2>2, <2>4, <3>1 DEF ApprovalsInv, MinedIsGranted
    <2>8. NothingUnderWay'
        <3> SUFFICES ASSUME NEW k \in 1..passed' PROVE txs'[k] = txs[k]
            BY <2>2 DEF ApprovalsInv, NothingUnderWay
        <3> QED
            BY <1>0, <2>2, <2>4
    <2> QED
        BY <2>6, <2>7, <2>8 DEF ApprovalsInv
<1>2. CASE Pass
    <2>1. /\ passed' = passed + 1 /\ UNCHANGED <<txs, allowed>>
          /\ Len(txs) = passed + 1 /\ txs[passed + 1] # "pending"
        BY <1>2 DEF Pass, Awaits
    <2>2. txs[passed + 1] \in Statuses /\ passed + 1 \in DOMAIN txs
        BY <1>0, <2>1
    <2>3. ApprovalsTypeOK' /\ MinedIsGranted'
        BY <1>0, <2>1 DEF ApprovalsInv, ApprovalsTypeOK, MinedIsGranted
    <2>4. ASSUME NEW k \in 1..passed'
          PROVE  \/ txs[k] = "mined" /\ Grants[k] \in allowed
                 \/ txs[k] \in {"reverted", "forgotten"}
        <3>1. CASE k = passed + 1
            BY <2>1, <2>2, <3>1 DEF ApprovalsInv, MinedIsGranted, Statuses
        <3>2. CASE k # passed + 1
            BY <1>0, <2>1, <3>2 DEF ApprovalsInv, NothingUnderWay
        <3> QED
            BY <3>1, <3>2
    <2> QED
        BY <2>1, <2>3, <2>4 DEF ApprovalsInv, NothingUnderWay
<1>3. CASE StartOver
    BY <1>0, <1>3 DEF StartOver, ApprovalsInv, ApprovalsTypeOK, MinedIsGranted, NothingUnderWay
<1>4. CASE Node
    <2>1. PICK k \in DOMAIN txs : MineApproval(k) \/ RefuseApproval(k)
        BY <1>4 DEF Node
    <2>2. PICK s \in {"mined", "reverted", "forgotten"} :
              /\ Becomes(k, s) /\ passed' = passed
              /\ allowed' = IF s = "mined" THEN allowed \cup {Grants[k]} ELSE allowed
        BY <2>1 DEF MineApproval, RefuseApproval
    <2>3. /\ txs[k] = "pending" /\ txs' = [txs EXCEPT ![k] = s] /\ s \in Statuses
        BY <2>2 DEF Becomes, Statuses
    <2>4. /\ txs' \in Seq(Statuses) /\ Len(txs') = Len(txs) /\ DOMAIN txs' = DOMAIN txs
          /\ txs'[k] = s /\ \A j \in DOMAIN txs : j # k => txs'[j] = txs[j]
        BY <1>0, <2>3, ExceptSeq
    <2>5. Grants[k] \in Allowances
        BY <1>0, ElementOfSeq
    <2>6. ApprovalsTypeOK'
        BY <1>0, <2>2, <2>4, <2>5 DEF ApprovalsTypeOK
    <2>7. MinedIsGranted'
        BY <2>2, <2>4 DEF ApprovalsInv, MinedIsGranted
    <2>8. NothingUnderWay'
        BY <1>0, <2>2, <2>3, <2>4 DEF ApprovalsInv, NothingUnderWay
    <2> QED
        BY <2>6, <2>7, <2>8 DEF ApprovalsInv
<1>5. CASE UNCHANGED approvalVars
    BY <1>5 DEF approvalVars, ApprovalsInv, ApprovalsTypeOK, MinedIsGranted, NothingUnderWay
<1> QED
    BY <1>1, <1>2, <1>3, <1>4, <1>5 DEF ApprovalStep, ApprovalPanics

\* A fresh process has sent nothing.
LEMMA ApprovalsInitInv == Init => ApprovalsInv /\ ServingInv
<1> SUFFICES ASSUME Init PROVE ApprovalsInv /\ ServingInv
    OBVIOUS
<1>1. /\ passed = 0 /\ txs = <<>> /\ allowed \in Before /\ pc = "node" /\ Len(Grants) \in Nat
    BY ApprovalsAssumption DEF Init, ApprovalsInit, SessionInit
<1>2. allowed \subseteq Allowances
    BY <1>1 DEF Allowances
<1> QED
    BY <1>1, <1>2
    DEF ApprovalsInv, ServingInv, ApprovalsTypeOK, MinedIsGranted, NothingUnderWay, WithStreams

\* Every step keeps the account of the approvals.
LEMMA ApprovalsNextInv == ApprovalsInv /\ [Next]_vars => ApprovalsInv'
<1> SUFFICES ASSUME ApprovalsInv, [Next]_vars PROVE ApprovalsInv'
    OBVIOUS
<1>1. \/ ApprovalStep \/ ApprovalPanics \/ StartOver \/ Node \/ UNCHANGED approvalVars
    BY DEF Next, Approving, Approved, PanicsWhileApproving, ReachApprovals, Elsewhere,
           NodeStep, vars
<1> QED
    BY <1>1, ApprovalsStep

\* No step reaches a stream with an approval ahead of it.
LEMMA ServingNextInv == ServingInv /\ [Next]_vars => ServingInv'
<1> SUFFICES ASSUME ServingInv, [Next]_vars PROVE ServingInv'
    OBVIOUS
<1> USE DEF ServingInv, WithStreams, AllPassed
<1>1. CASE Approving
    BY <1>1 DEF Approving, sessionVars
<1>2. CASE Approved
    BY <1>2 DEF Approved, approvalVars
<1>3. CASE PanicsWhileApproving
    BY <1>3 DEF PanicsWhileApproving, Panic
<1>4. CASE ReachApprovals
    BY <1>4 DEF ReachApprovals, CreateSigner
<1>5. CASE Elsewhere
    <2>1. passed' = passed
        BY <1>5 DEF Elsewhere, approvalVars
    <2>2. ASSUME pc # "approve", SessionNext, ~CreateSigner, pc' \in WithStreams
          PROVE  pc \in WithStreams
        BY <2>2
        DEF SessionNext, SessionStep, Login, Open, ConnectNode, Dial, Nonce, FetchChainId,
            Verify, Authenticate, Approve, OpenSoft, OpenRfq, RunFails, VerifyAnswerLost,
            ReturnNone, Panic, Retry, Halted, Expire, sessionVars, AfterDial, Dials
    <2>3. ASSUME NEW s \in Sessions, Expire(s) PROVE pc' = pc
        BY <2>3 DEF Expire
    <2> QED
        BY <1>5, <2>1, <2>2, <2>3 DEF Elsewhere
<1>6. CASE NodeStep
    BY <1>6 DEF NodeStep, sessionVars, Node, MineApproval, RefuseApproval
<1>7. CASE UNCHANGED vars
    BY <1>7 DEF vars, sessionVars, approvalVars
<1> QED
    BY <1>1, <1>2, <1>3, <1>4, <1>5, <1>6, <1>7 DEF Next

\* The account of the approvals stays in its type: for no list of grants is a
\* transaction sent that the list does not name.
THEOREM ApprovalsTypeCorrect == Spec => []ApprovalsTypeOK
<1>1. ApprovalsInv => ApprovalsTypeOK
    BY DEF ApprovalsInv
<1> QED
    BY <1>1, ApprovalsInitInv, ApprovalsNextInv, PTL DEF Spec

\* While the maker has a stream open no approval of its run is under way, for any
\* list of approvals, any number of failed ones and any number of runs.
THEOREM ApprovalsSettledBeforeServing == Spec => []ServesWithAllowances
<1>1. ApprovalsInv /\ ServingInv => ServesWithAllowances
    BY DEF ApprovalsInv, ServingInv, ServesWithAllowances, WithStreams
<1> QED
    BY <1>1, ApprovalsInitInv, ApprovalsNextInv, ServingNextInv, PTL DEF Spec
=============================================================================
