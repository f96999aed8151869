----------------------------- MODULE TakerProofs -----------------------------
(* Proofs about the taker: its types, what it sends to Seaport, and what it  *)
(* can pay.                                                                  *)
EXTENDS TakerApprovals, TLAPS, SequenceTheorems, FiniteSetTheorems

BeforeTrading == {"setup", "option", "ask_soft", "soft_wait", "ask_buy"}

\* How far the taker has come: which orders it has sent to Seaport and what it can
\* hold, at each await of the purchase and of the sale.
Phase ==
    /\ pc \in BeforeTrading => ~sellRfq /\ asked = <<>> /\ fulfilled = <<>> /\ holds = 0
    /\ ~sellRfq => \A k \in DOMAIN asked : asked[k] = "Buy"
    /\ pc \in {"fulfil", "settle", "check"} => order \in DOMAIN asked
    /\ pc \in {"rfq_wait", "fulfil"} =>
          IF sellRfq THEN Len(fulfilled) = 1 /\ holds = Amount
                     ELSE fulfilled = <<>> /\ holds = 0
    /\ pc \in {"settle", "check"} =>
          IF sellRfq THEN Len(fulfilled) = 2 /\ fulfilled[2] = order
                     ELSE Len(fulfilled) = 1 /\ fulfilled[1] = order
    /\ pc = "settle" => holds = IF sellRfq THEN Amount ELSE 0
    /\ pc = "check" /\ sellRfq /\ asked[order] = "Buy" => holds >= Amount

TakerInv == TypeOK /\ Phase /\ AtMostTwoOrders /\ DoneOnlyAfterSale

LEMMA TakerInit == Init => TakerInv
<1> SUFFICES ASSUME Init PROVE TakerInv
    OBVIOUS
<1>1. /\ Len(asked) = 0 /\ DOMAIN asked = {} /\ Len(fulfilled) = 0 /\ fulfilled = <<>>
      /\ Amount \in Nat
    BY TakerAssumption DEF Init
<1>2. /\ asked \in Seq({"Buy", "Sell"}) /\ fulfilled \in Seq(1..Len(asked))
      /\ inbox \in Seq([rfq : 1..Len(asked), offer : BOOLEAN]) /\ softInbox \in Seq(BOOLEAN)
    BY EmptySeq DEF Init
<1>3. /\ order \in 0..Len(asked)
      /\ softAsked \in Nat /\ declines \in Nat /\ holds \in Nat
  <2>1. order = 0 /\ softAsked = 0 /\ declines = 0 /\ holds = 0
      BY DEF Init
  <2>2. QED
      BY <1>1, <2>1
<1>4. /\ pc \in ProgramPoints /\ sellRfq \in BOOLEAN
      /\ unanswered \subseteq Makers \X (1..Len(asked))
    BY DEF Init, ProgramPoints
<1>5. Phase
    BY <1>1 DEF Init, Phase, BeforeTrading
<1>6. AtMostTwoOrders /\ DoneOnlyAfterSale
    BY <1>1 DEF Init, AtMostTwoOrders, DoneOnlyAfterSale
<1>7. QED
    BY <1>2, <1>3, <1>4, <1>5, <1>6 DEF TakerInv, TypeOK

-----------------------------------------------------------------------------
(* Types.                                                                  *)

\* A request more: what referred to one of the earlier requests still does.
LEMMA AskType ==
    ASSUME TypeOK, NEW a \in {"Buy", "Sell"}, Ask(a)
    PROVE  /\ asked' \in Seq({"Buy", "Sell"})
           /\ Len(asked) \in Nat /\ Len(asked') = Len(asked) + 1
           /\ DOMAIN asked = 1..Len(asked) /\ DOMAIN asked' = 1..Len(asked')
           /\ \A k \in DOMAIN asked : asked'[k] = asked[k]
           /\ asked'[Len(asked')] = a
           /\ unanswered' \subseteq Makers \X (1..Len(asked'))
           /\ \A q \in Seq(1..Len(asked)) : q \in Seq(1..Len(asked'))
           /\ \A q \in Seq([rfq : 1..Len(asked), offer : BOOLEAN]) :
                  q \in Seq([rfq : 1..Len(asked'), offer : BOOLEAN])
<1>1. /\ asked \in Seq({"Buy", "Sell"}) /\ asked' = Append(asked, a)
      /\ unanswered \subseteq Makers \X (1..Len(asked))
    BY DEF TypeOK, Ask
<1>2. /\ asked' \in Seq({"Buy", "Sell"})
      /\ Len(asked) \in Nat /\ Len(asked') = Len(asked) + 1
      /\ \A k \in 1..Len(asked) : asked'[k] = asked[k]
      /\ asked'[Len(asked')] = a
    BY <1>1, AppendProperties, LenProperties
<1>3. DOMAIN asked = 1..Len(asked) /\ DOMAIN asked' = 1..Len(asked')
    BY <1>1, <1>2, LenProperties
<1>4. 1..Len(asked) \subseteq 1..Len(asked') /\ Len(asked') \in 1..Len(asked')
    BY <1>2
<1>5. unanswered' \subseteq Makers \X (1..Len(asked'))
    BY <1>1, <1>4 DEF Ask
<1>6. [rfq : 1..Len(asked), offer : BOOLEAN] \subseteq [rfq : 1..Len(asked'), offer : BOOLEAN]
    BY <1>4
<1>7. QED
    BY <1>2, <1>3, <1>4, <1>5, <1>6, SeqMonotonic

LEMMA TypeNext == TypeOK /\ Phase /\ [Next]_vars => TypeOK'
<1> SUFFICES ASSUME TypeOK, Phase, [Next]_vars PROVE TypeOK'
    OBVIOUS
<1>0. /\ Cardinality(Makers) \in Nat /\ Amount \in Nat
      /\ Len(asked) \in Nat /\ DOMAIN asked = 1..Len(asked)
    BY TakerAssumption, FS_CardinalityType, LenProperties DEF TypeOK
<1>1. ASSUME UNCHANGED <<rfqVars, softVars, declines, holds>>, pc' \in ProgramPoints PROVE TypeOK'
    BY <1>1 DEF TypeOK, rfqVars, softVars
<1>2. CASE AskSoft
    BY <1>0, <1>2 DEF AskSoft, TypeOK, rfqVars, ProgramPoints
<1>3. CASE ReadSoft
  <2>1. Tail(softInbox) \in Seq(BOOLEAN)
      BY <1>3, HeadTailProperties DEF ReadSoft, TypeOK
  <2>2. QED
      BY <1>3, <2>1 DEF ReadSoft, TypeOK, rfqVars, ProgramPoints
<1>4. ASSUME NEW a \in {"Buy", "Sell"}, Ask(a), pc' \in ProgramPoints, sellRfq' \in BOOLEAN,
             inbox' \in Seq([rfq : 1..Len(asked), offer : BOOLEAN]),
             UNCHANGED <<order, fulfilled, softVars, declines, holds>>
      PROVE  TypeOK'
  <2>1. /\ asked' \in Seq({"Buy", "Sell"})
        /\ Len(asked) \in Nat /\ Len(asked') = Len(asked) + 1
        /\ unanswered' \subseteq Makers \X (1..Len(asked'))
        /\ fulfilled \in Seq(1..Len(asked'))
        /\ inbox' \in Seq([rfq : 1..Len(asked'), offer : BOOLEAN])
      BY <1>4, AskType DEF TypeOK
  <2>2. order' \in 0..Len(asked') /\ fulfilled' \in Seq(1..Len(asked'))
      BY <1>4, <2>1 DEF TypeOK
  <2>3. QED
      BY <1>4, <2>1, <2>2 DEF TypeOK, softVars
<1>5. CASE AskBuy
    BY <1>4, <1>5 DEF AskBuy, TypeOK, ProgramPoints
<1>6. inbox # <<>> => /\ Head(inbox) \in [rfq : 1..Len(asked), offer : BOOLEAN]
                      /\ Tail(inbox) \in Seq([rfq : 1..Len(asked), offer : BOOLEAN])
    BY HeadTailProperties DEF TypeOK
<1>7. CASE ReadDecline
    BY <1>4, <1>6, <1>7 DEF ReadDecline, TypeOK
<1>8. CASE ReadOffer
  <2>1. order' \in 0..Len(asked)
      BY <1>0, <1>6, <1>8 DEF ReadOffer
  <2>2. QED
      BY <1>6, <1>8, <2>1 DEF ReadOffer, TypeOK, ProgramPoints, softVars
<1>9. CASE FulfillOrder
  <2>1. order \in 1..Len(asked)
      BY <1>0, <1>9 DEF FulfillOrder, Phase
  <2>2. Append(fulfilled, order) \in Seq(1..Len(asked))
      BY <2>1, AppendProperties DEF TypeOK
  <2>3. QED
      BY <1>9, <2>2 DEF FulfillOrder, TypeOK, ProgramPoints, softVars
<1>10. CASE Settle
    BY <1>0, <1>10 DEF Settle, TypeOK, ProgramPoints, rfqVars, softVars
<1>11. CASE CheckBought
    BY <1>4, <1>11 DEF CheckBought, TypeOK, ProgramPoints
<1>12. ASSUME NEW m \in Makers, NEW k \in DOMAIN asked, NEW b \in BOOLEAN, AnswerRfq(m, k, b)
       PROVE  TypeOK'
  <2>1. [rfq |-> k, offer |-> b] \in [rfq : 1..Len(asked), offer : BOOLEAN]
      BY <1>0
  <2>2. Append(inbox, [rfq |-> k, offer |-> b]) \in Seq([rfq : 1..Len(asked), offer : BOOLEAN])
      BY <2>1, AppendProperties DEF TypeOK
  <2>3. QED
      BY <1>12, <2>2 DEF AnswerRfq, Declines, TypeOK, softVars
<1>13. ASSUME NEW b \in BOOLEAN, AnswerSoft(b) PROVE TypeOK'
  <2>1. Append(softInbox, b) \in Seq(BOOLEAN)
      BY AppendProperties DEF TypeOK
  <2>2. QED
      BY <1>13, <2>1 DEF AnswerSoft, Declines, TypeOK, rfqVars
<1>14. QED
    BY <1>1, <1>2, <1>3, <1>5, <1>7, <1>8, <1>9, <1>10, <1>11, <1>12, <1>13
    DEF Next, Step, Answer, Setup, SetupOption, CheckSold, AssertionFails, Fails, Ended,
        ProgramPoints, TypeOK, vars, rfqVars, softVars

-----------------------------------------------------------------------------
(* Phases.                                                                 *)

LEMMA PhaseNext == TakerInv /\ [Next]_vars => (Phase /\ AtMostTwoOrders /\ DoneOnlyAfterSale)'
<1> DEFINE Goal == Phase /\ AtMostTwoOrders /\ DoneOnlyAfterSale
<1> SUFFICES ASSUME TakerInv, [Next]_vars PROVE Goal'
    OBVIOUS
<1>0. /\ TypeOK /\ Goal
      /\ Amount \in Nat \ {0} /\ holds \in Nat
      /\ Len(asked) \in Nat /\ DOMAIN asked = 1..Len(asked)
      /\ Len(fulfilled) \in Nat /\ DOMAIN fulfilled = 1..Len(fulfilled)
      /\ \A i \in 1..Len(fulfilled) : fulfilled[i] \in DOMAIN asked
    BY TakerAssumption, LenProperties, ElementOfSeq DEF TypeOK, TakerInv
<1> USE DEF Phase, AtMostTwoOrders, DoneOnlyAfterSale, BeforeTrading
<1>1. ASSUME UNCHANGED <<pc, sellRfq, asked, order, fulfilled, holds>> PROVE Goal'
    BY <1>0, <1>1
<1>2. CASE Setup \/ SetupOption \/ AskSoft \/ ReadSoft
  <2>1. /\ UNCHANGED <<sellRfq, asked, order, fulfilled, holds>>
        /\ pc \in BeforeTrading /\ pc' \in BeforeTrading
      BY <1>2 DEF Setup, SetupOption, AskSoft, ReadSoft, rfqVars
  <2>2. AtMostTwoOrders' /\ DoneOnlyAfterSale'
      BY <1>0, <2>1
  <2>3. Phase'
      BY <1>0, <2>1
  <2>4. QED
      BY <2>2, <2>3
<1>3. CASE AskBuy
  <2>1. /\ Len(asked') = Len(asked) + 1 /\ asked'[Len(asked')] = "Buy"
        /\ DOMAIN asked' = 1..Len(asked') /\ \A k \in DOMAIN asked : asked'[k] = asked[k]
      BY <1>0, <1>3, AskType DEF AskBuy
  <2>2. QED
      BY <1>0, <1>3, <2>1 DEF AskBuy
<1>4. CASE ReadDecline
  <2>1. /\ Len(asked') = Len(asked) + 1 /\ asked'[Len(asked')] = "Buy"
        /\ DOMAIN asked' = 1..Len(asked') /\ \A k \in DOMAIN asked : asked'[k] = asked[k]
      BY <1>0, <1>4, AskType DEF ReadDecline
  <2>2. QED
      BY <1>0, <1>4, <2>1 DEF ReadDecline
<1>5. CASE ReadOffer
  <2>1. Head(inbox) \in [rfq : 1..Len(asked), offer : BOOLEAN]
      BY <1>0, <1>5, HeadTailProperties DEF ReadOffer, TypeOK
  <2>2. order' \in DOMAIN asked
      BY <1>0, <1>5, <2>1 DEF ReadOffer
  <2>3. QED
      BY <1>0, <1>5, <2>2 DEF ReadOffer
<1>6. CASE FulfillOrder
  <2>1. fulfilled \in Seq(1..Len(asked)) /\ order \in 1..Len(asked)
      BY <1>0, <1>6 DEF FulfillOrder, TypeOK
  <2>2. /\ Len(fulfilled') = Len(fulfilled) + 1
        /\ fulfilled'[Len(fulfilled')] = order
        /\ \A i \in 1..Len(fulfilled) : fulfilled'[i] = fulfilled[i]
      BY <1>6, <2>1, AppendProperties, LenProperties DEF FulfillOrder
  <2>3. fulfilled = <<>> => Len(fulfilled) = 0
      OBVIOUS
  <2>4. Len(fulfilled) = 1 => fulfilled # <<>>
      OBVIOUS
  <2>5. QED
      BY <1>0, <1>6, <2>1, <2>2, <2>3, <2>4 DEF FulfillOrder
<1>7. CASE Settle
    BY <1>0, <1>7 DEF Settle, rfqVars
<1>8. CASE CheckBought
  <2>1. /\ Len(asked') = Len(asked) + 1
        /\ DOMAIN asked' = 1..Len(asked') /\ \A k \in DOMAIN asked : asked'[k] = asked[k]
      BY <1>0, <1>8, AskType DEF CheckBought
  <2>2. asked[order] = "Buy" /\ holds = Amount
      BY <1>0, <1>8 DEF CheckBought, OwnedTokens
  <2>3. QED
      BY <1>0, <1>8, <2>1, <2>2 DEF CheckBought
<1>9. CASE CheckSold
  <2>1. asked[order] = "Sell"
      BY <1>0, <1>9, ElementOfSeq DEF CheckSold, OwnedTokens, TypeOK
  <2>2. QED
      BY <1>0, <1>9, <2>1 DEF CheckSold, rfqVars
<1>10. CASE AssertionFails \/ Fails
    BY <1>0, <1>10 DEF AssertionFails, Fails, rfqVars
<1>11. CASE Ended \/ Answer
    BY <1>1, <1>11 DEF Ended, Answer, AnswerRfq, AnswerSoft, vars, rfqVars
<1>12. QED
    BY <1>1, <1>2, <1>3, <1>4, <1>5, <1>6, <1>7, <1>8, <1>9, <1>10, <1>11
    DEF Next, Step, vars

-----------------------------------------------------------------------------
LEMMA TakerInvariant == Spec => []TakerInv
<1>1. TakerInv /\ [Next]_vars => TakerInv'
    BY TypeNext, PhaseNext DEF TakerInv
<1>2. QED
    BY <1>1, TakerInit, PTL DEF Spec

\* The taker's variables keep their types: what an answer, an order in hand or an
\* order sent refers to is a request that was made.
THEOREM TakerTypeCorrect == Spec => []TypeOK
<1>1. TakerInv => TypeOK
    BY DEF TakerInv
<1>2. QED
    BY <1>1, TakerInvariant, PTL

\* With any number of makers, answering, declining or late, the taker sends at most
\* two orders to Seaport, the first of them a purchase.
THEOREM TakerStopsAtTwo == Spec => []AtMostTwoOrders
<1>1. TakerInv => AtMostTwoOrders
    BY DEF TakerInv
<1>2. QED
    BY <1>1, TakerInvariant, PTL

\* Whatever makers answer, the taker reports success only after its second order,
\* and that one was a sale.
THEOREM SuccessFollowsSale == Spec => []DoneOnlyAfterSale
<1>1. TakerInv => DoneOnlyAfterSale
    BY DEF TakerInv
<1>2. QED
    BY <1>1, TakerInvariant, PTL

-----------------------------------------------------------------------------
(* The taker with its allowances.                                          *)

\* A step of the composition is a step of the taker or leaves it alone.
LEMMA PayStep == [PayNext]_allVars => [Next]_vars
<1> SUFFICES ASSUME [PayNext]_allVars PROVE [Next]_vars
    OBVIOUS
<1>1. CASE Approving
    BY <1>1 DEF Approving
<1>2. CASE SetupApproved
    BY <1>2 DEF SetupApproved, Next, Step
<1>3. CASE FailsInSetup
    BY <1>3 DEF FailsInSetup, Next
<1>4. CASE SettleAllowed
    BY <1>4 DEF SettleAllowed, Next, Step
<1>5. CASE Elsewhere
    BY <1>5 DEF Elsewhere, Next
<1>6. CASE NodeStep
    BY <1>6 DEF NodeStep
<1>7. CASE UNCHANGED allVars
    BY <1>7 DEF allVars
<1> QED
    BY <1>1, <1>2, <1>3, <1>4, <1>5, <1>6, <1>7 DEF PayNext

\* With its allowances the taker behaves as Taker says: what is proved of Taker
\* holds of it.
THEOREM PayingTakerIsTaker == PaySpec => Spec
<1>1. PayInit => Init
    BY DEF PayInit
<1> QED
    BY <1>1, PayStep, PTL DEF PaySpec, Spec

Payable == [token |-> priceToken, spender |-> "seaport"] \in allowed

\* The taker never holds an option, nor asks to sell one, unless it could pay: what
\* it holds it was given for a purchase, and what it reports it has read off the
\* balance.
PayInv ==
    /\ holds # 0 => Payable
    /\ sellRfq => Payable
    /\ pc = "done" => sellRfq

\* No allowance is taken back and the makers keep asking for the same token.
LEMMA StaysPayable == [PayNext]_allVars /\ Payable => Payable'
<1> SUFFICES ASSUME [PayNext]_allVars, Payable PROVE Payable'
    OBVIOUS
<1>1. allowed \subseteq allowed' /\ priceToken' = priceToken
    BY DEF PayNext, allVars, Approving, SetupApproved, FailsInSetup, SettleAllowed, Elsewhere,
       NodeStep, SameTerms, approvalVars, ApprovalStep, SendApproval, Pass, ApprovalPanics,
       Node, MineApproval, RefuseApproval
<1> QED
    BY <1>1 DEF Payable

\* Only Settle changes what the taker holds, only CheckBought turns it to selling,
\* and only CheckSold ends it well.
LEMMA PayInvNext == TakerInv /\ PayInv /\ [PayNext]_allVars => PayInv'
<1> SUFFICES ASSUME TakerInv, PayInv, [PayNext]_allVars PROVE PayInv'
    OBVIOUS
<1>0. Payable => Payable'
    BY StaysPayable
<1>a. ASSUME UNCHANGED <<holds, sellRfq>>, pc' = "done" => pc = "done" PROVE PayInv'
    BY <1>0, <1>a DEF PayInv
<1>1. CASE SettleAllowed
    <2>1. sellRfq' = sellRfq /\ pc' = "check"
        BY <1>1 DEF SettleAllowed, Settle, rfqVars
    <2>2. ASSUME holds' # 0 PROVE Payable
        <3>1. CASE holds' = holds
            BY <2>2, <3>1 DEF PayInv
        <3>2. CASE holds' # holds /\ asked[order] = "Buy"
            BY <1>1, <3>2 DEF SettleAllowed, Payment, Payable
        <3>3. CASE holds' # holds /\ asked[order] = "Sell"
            <4>1. holds >= Amount /\ Amount \in Nat \ {0} /\ holds \in Nat
                BY <1>1, <3>3, TakerAssumption DEF SettleAllowed, Settle, TakerInv, TypeOK
            <4>2. holds # 0
                BY <4>1
            <4> QED
                BY <4>2 DEF PayInv
        <3> QED
            BY <1>1, <3>1, <3>2, <3>3 DEF SettleAllowed, Settle
    <2> QED
        BY <1>0, <2>1, <2>2 DEF PayInv
<1>2. CASE CheckBought
    <2>1. holds' = holds /\ pc' = "rfq_wait" /\ OwnedTokens = Amount /\ Amount # 0
        BY <1>2, TakerAssumption DEF CheckBought
    <2>2. holds # 0
        BY <2>1 DEF OwnedTokens
    <2> QED
        BY <1>0, <2>1, <2>2 DEF PayInv
<1>3. CASE CheckSold
    BY <1>0, <1>3 DEF CheckSold, PayInv, rfqVars
<1>4. CASE Approving \/ SetupApproved \/ FailsInSetup \/ NodeStep \/ UNCHANGED allVars
    BY <1>a, <1>4 DEF Approving, SetupApproved, Setup, FailsInSetup, Fails, NodeStep, vars, allVars, rfqVars
<1>5. CASE Elsewhere
    <2>1. CASE Fails \/ Ended \/ Answer
        BY <1>a, <2>1 DEF Fails, Ended, Answer, AnswerRfq, AnswerSoft, rfqVars, vars
    <2>2. CASE SetupOption \/ AskSoft \/ ReadSoft \/ AskBuy \/ ReadDecline \/ ReadOffer
               \/ FulfillOrder \/ AssertionFails
        BY <1>a, <2>2 DEF SetupOption, AskSoft, ReadSoft, AskBuy, ReadDecline, ReadOffer,
           FulfillOrder, AssertionFails, Ask, rfqVars
    <2>3. CASE pc \notin {"setup", "settle"} /\ (Setup \/ Settle)
        BY <2>3 DEF Setup, Settle
    <2> QED
        BY <1>2, <1>3, <1>5, <2>1, <2>2, <2>3 DEF Elsewhere, Step
<1> QED
    BY <1>1, <1>4, <1>5 DEF PayNext

\* Whatever reverts or gets lost among the approvals and the orders, the taker
\* reports success only if Seaport may spend the token the makers ask for.
THEOREM SuccessMeansPayable == PaySpec => []SuccessWasPayable
<1>1. PayInit => PayInv
    BY DEF PayInit, Init, PayInv
<1>2. PayInv => SuccessWasPayable
    BY DEF PayInv, SuccessWasPayable, Payable
<1> QED
    BY <1>1, <1>2, PayInvNext, PayingTakerIsTaker, TakerInvariant, PTL DEF PaySpec
=============================================================================
