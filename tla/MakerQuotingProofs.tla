------------------------- MODULE MakerQuotingProofs -------------------------
(* Proofs about the maker: its connection life cycle, its types, that every *)
(* offer of options it signs is backed by a write of its own, that it       *)
(* implements QuoteDesk, and that it holds what it offers.                  *)
EXTENDS MakerQuotingProperties, FoldLemmas

-----------------------------------------------------------------------------
(* The connection life cycle, by itself and within the maker.              *)

\* While the maker logs in its streams are closed, and from the answer to Nonce
\* to the end of the run it holds a session: what StreamsOfThisRun needs at the
\* steps that change the cookie and at those that open a stream.
HoldsSession == {"dial_verify", "chain_id", "verify", "authenticate", "dial_streams",
                 "signer", "approve", "open_soft", "open_rfq", "serve"}

StreamsByStage ==
    /\ pc \in HoldsSession => cookie \in Sessions
    /\ pc \notin {"open_rfq", "serve"} => streams = NoStreams
    /\ pc = "open_rfq" => streams = [NoStreams EXCEPT !["soft"] = cookie]
    /\ pc = "serve" => streams = [s \in Streams |-> cookie]

SessionInv == SessionTypeOK /\ StreamsByStage

LEMMA SessionInitInv == SessionInit => SessionInv
BY SessionAssumption DEF SessionInit, SessionInv, SessionTypeOK, StreamsByStage,
       NoStreams, Streams, ProgramPoints, HoldsSession

\* Every step, the maker's or the service's, preserves the invariant.
LEMMA SessionNextInv == SessionInv /\ [SessionNext]_sessionVars => SessionInv'
<1> SUFFICES ASSUME SessionInv, [SessionNext]_sessionVars
             PROVE  SessionInv'
    OBVIOUS
<1> USE SessionAssumption
    DEF SessionInv, SessionTypeOK, StreamsByStage, HoldsSession, ProgramPoints,
        Fallible, Dials, AfterDial, Streams, NoStreams
<1>1. CASE ConnectNode
    BY <1>1 DEF ConnectNode
<1>2. CASE Dial
    BY <1>2 DEF Dial
<1>3. CASE Nonce
    BY <1>3 DEF Nonce
<1>4. CASE FetchChainId
    BY <1>4 DEF FetchChainId
<1>5. CASE Verify
    BY <1>5 DEF Verify
<1>6. CASE Authenticate
    BY <1>6 DEF Authenticate
<1>7. CASE CreateSigner
    BY <1>7 DEF CreateSigner
<1>8. CASE Approve
    BY <1>8 DEF Approve
<1>9. CASE OpenSoft
    BY <1>9 DEF OpenSoft
<1>10. CASE OpenRfq
    BY <1>10 DEF OpenRfq
<1>11. CASE RunFails
    BY <1>11 DEF RunFails, ReturnNone
<1>12. CASE VerifyAnswerLost
    BY <1>12 DEF VerifyAnswerLost, ReturnNone
<1>13. CASE Panic
    BY <1>13 DEF Panic
<1>14. CASE Retry
    BY <1>14 DEF Retry
<1>15. CASE Halted
    BY <1>15 DEF Halted, sessionVars
<1>16. ASSUME NEW s \in Sessions, Expire(s)
       PROVE  SessionInv'
    BY <1>16 DEF Expire
<1>17. CASE UNCHANGED sessionVars
    BY <1>17 DEF sessionVars
<1>18. QED
    BY <1>1, <1>2, <1>3, <1>4, <1>5, <1>6, <1>7, <1>8, <1>9, <1>10, <1>11, <1>12,
       <1>13, <1>14, <1>15, <1>16, <1>17
    DEF SessionNext, SessionStep, Login, Open

\* The variables of the life cycle stay in their types, for any set of sessions.
THEOREM SessionTypeCorrect == SessionSpec => []SessionTypeOK
<1>1. SessionInv => SessionTypeOK
    BY DEF SessionInv
<1>2. QED
    BY <1>1, SessionInitInv, SessionNextInv, PTL DEF SessionSpec

\* Open streams always carry the session of the run that uses them, and serving
\* begins with both (run of maker.rs, over any number of reconnections).
THEOREM SessionStreamsOfThisRun == SessionSpec => []StreamsOfThisRun
<1>1. SessionInv => StreamsOfThisRun
    BY SessionAssumption
    DEF SessionInv, SessionTypeOK, StreamsByStage, StreamsOfThisRun, HoldsSession,
        Streams, NoStreams
<1>2. QED
    BY <1>1, SessionInitInv, SessionNextInv, PTL DEF SessionSpec

\* A step of the composed maker is a step of its connection life cycle, or
\* leaves it alone.
LEMMA StepOfSession == [Next]_vars => [SessionNext]_sessionVars
<1> SUFFICES ASSUME Next PROVE [SessionNext]_sessionVars
    BY DEF vars, sessionVars
<1>1. CASE Pick
    BY <1>1 DEF Pick, Ignore, Decline, TakeBuy, TakeSell, TakeSoftQuote
<1>2. CASE Handle
    BY <1>2 DEF Handle, AmountPanics, SendWrite, SendWriteFails, AwaitsReceipt, ReceiptOfWrite,
       ReceiptOfRevert, ReceiptMissing, SignOrder, BuildOffer, BuildQuote, Send, RunReturns,
       SessionNext, SessionStep
<1>3. CASE Reconnects
    BY <1>3 DEF Reconnects
<1>4. CASE SessionExpires
    BY <1>4 DEF SessionExpires, SessionNext
<1>5. CASE External
    BY <1>5 DEF External, Deliver, Transmit, Mine, Revert, Fill, Tick
<1>6. QED
    BY <1>1, <1>2, <1>3, <1>4, <1>5 DEF Next

\* The maker that serves requests still follows its connection life cycle.
THEOREM QuotingKeepsSession == Spec => SessionSpec
<1>1. Init => SessionInit
    BY DEF Init
<1>2. QED
    BY <1>1, StepOfSession, PTL DEF Spec, SessionSpec

-----------------------------------------------------------------------------
(* Types.                                                                  *)

\* What an answer refers to exists: the order of an offer has been signed.
OfferRef(m, orders) == m.kind = "offer" => m.order \in DOMAIN orders

References ==
    /\ published \subseteq DOMAIN signed
    /\ OfferRef(reply, signed)
    /\ \A s \in Streams : \A k \in DOMAIN outq[s] : OfferRef(outq[s][k], signed)

\* A handler has a request in hand; the write it waits for exists, and so does
\* the order it is about to hand out.
InHandler ==
    /\ at \in {"write", "receipt", "sign", "chain_id"} => cur \in Requests
    /\ at = "receipt" => lot \in DOMAIN writes
    /\ at = "chain_id" /\ branch = "rfq" => signed # <<>>

TypeInv == TypeOK /\ References /\ InHandler

LEMMA TypeInit == Init => TypeInv
BY SessionAssumption, RequestAssumption, QuotingAssumption, EmptySeq
DEF Init, TypeInv, TypeOK, SessionInit, SessionTypeOK, LocalsOK, ChannelsOK, LedgerOK,
    References, OfferRef, InHandler, NoReply, NoRequest, Replies, Tasks, Streams, Empty,
    NoStreams, ProgramPoints

LEMMA NoOfferType == \A r \in Requests \cup {NoRequest} : NoOffer(r) \in Replies
BY DEF NoOffer, Replies, NoRequest

LEMMA OfferType ==
    \A r \in Requests, k \in Nat : Offer(r, k) \in Replies /\ Quote(r) \in Replies
BY DEF Offer, Quote, Replies


\* The message a stream is read of is a request, what is left is a queue of them.
LEMMA ReadsType ==
    ASSUME NEW s \in Streams, ChannelsOK, Reads(s)
    PROVE  /\ Head(inq[s]) \in Requests
           /\ inq' \in [Streams -> Seq(Requests)]
<1>1. inq[s] \in Seq(Requests) /\ inq[s] # <<>>
    BY DEF ChannelsOK, Reads
<1>2. Head(inq[s]) \in Requests /\ Tail(inq[s]) \in Seq(Requests)
    BY <1>1, HeadTailProperties
<1>3. QED
    BY <1>2 DEF ChannelsOK, Reads

LEMMA BackToSelectType == BackToSelect => LocalsOK' /\ OfferRef(reply, signed)'
BY DEF BackToSelect, LocalsOK, Tasks, Streams, Replies, NoReply, OfferRef

LEMMA DropRunType ==
    /\ DropRun => LocalsOK' /\ ChannelsOK' /\ OfferRef(reply, signed)'
    /\ DropRun => \A s \in Streams : outq'[s] = <<>>
BY BackToSelectType, EmptySeq DEF DropRun, ChannelsOK, Empty, Streams

LEMMA AddToBalance ==
    ASSUME NEW f \in [Options -> Nat], NEW o, NEW n \in Nat
    PROVE  [f EXCEPT ![o] = @ + n] \in [Options -> Nat]
<1>1. CASE o \in Options
    BY <1>1
<1>2. CASE o \notin Options
    BY <1>2
<1>3. QED
    BY <1>1, <1>2

\* The steps by the group of variables they disturb.
LEMMA LocalsNext == TypeInv /\ [Next]_vars => LocalsOK'
<1> SUFFICES ASSUME TypeInv, [Next]_vars PROVE LocalsOK'
    OBVIOUS
<1> USE DEF TypeInv, TypeOK
<1>1. CASE UNCHANGED locals
    BY <1>1 DEF locals, LocalsOK
<1>2. ASSUME NEW s \in Streams, Decline(s) PROVE LocalsOK'
    BY <1>2, ReadsType, NoOfferType DEF Decline, Answer, LocalsOK, Tasks
<1>3. CASE TakeBuy
    BY <1>3, ReadsType DEF TakeBuy, LocalsOK, Tasks, Streams
<1>4. CASE TakeSell
    BY <1>4, ReadsType, QuotingAssumption DEF TakeSell, LocalsOK, LedgerOK, Tasks, Streams
<1>5. CASE TakeSoftQuote
    BY <1>5, ReadsType, QuotingAssumption DEF TakeSoftQuote, LocalsOK, LedgerOK, Tasks, Streams
<1>6. ASSUME DropRun PROVE LocalsOK'
    BY <1>6, DropRunType
<1>7. CASE SendWrite
    BY <1>7 DEF SendWrite, Write, Writes, Writing, LocalsOK, LedgerOK, InHandler, Tasks
<1>8. CASE SendWriteFails
    BY <1>8, NoOfferType DEF SendWriteFails, Answer, LocalsOK, Tasks
<1>9. CASE ReceiptOfWrite
    BY <1>9, QuotingAssumption DEF ReceiptOfWrite, AwaitsReceipt, LocalsOK, LedgerOK, Tasks
<1>10. CASE ReceiptOfRevert
    BY <1>10, NoOfferType DEF ReceiptOfRevert, AwaitsReceipt, Answer, LocalsOK, Tasks
<1>11. CASE ReceiptMissing
    BY <1>11, NoOfferType DEF ReceiptMissing, AwaitsReceipt, Answer, LocalsOK, Tasks
<1>12. CASE SignOrder
    BY <1>12 DEF SignOrder, LocalsOK, Tasks
<1>13. CASE BuildOffer
  <2>1. cur \in Requests /\ Len(signed) \in Nat
    BY <1>13, LenProperties DEF BuildOffer, InHandler, LedgerOK
  <2>2. QED
    BY <1>13, <2>1, OfferType DEF BuildOffer, Answer, LocalsOK, Tasks
<1>14. CASE BuildQuote
    BY <1>14, OfferType DEF BuildQuote, Answer, LocalsOK, InHandler, Tasks
<1>15. CASE Send
    BY <1>15, BackToSelectType DEF Send
<1>16. CASE Reconnects
    BY <1>16, <1>1, <1>6 DEF Reconnects, locals
<1>17. QED
    BY <1>1, <1>2, <1>3, <1>4, <1>5, <1>6, <1>7, <1>8, <1>9, <1>10, <1>11, <1>12, <1>13,
       <1>14, <1>15, <1>16
    DEF Next, Pick, Handle, External, Ignore, AmountPanics, RunReturns, SessionExpires,
        Deliver, Transmit, Mine, Revert, Fill, Tick, vars

LEMMA ChannelsNext == TypeInv /\ [Next]_vars => ChannelsOK'
<1> SUFFICES ASSUME TypeInv, [Next]_vars PROVE ChannelsOK'
    OBVIOUS
<1> USE DEF TypeInv, TypeOK
<1>1. CASE UNCHANGED channels
    BY <1>1 DEF channels, ChannelsOK
<1>2. ASSUME NEW s \in Streams, Reads(s), UNCHANGED <<outq, got, said>> PROVE ChannelsOK'
    BY <1>2, ReadsType DEF ChannelsOK
<1>3. ASSUME DropRun PROVE ChannelsOK'
    BY <1>3, DropRunType
<1>4. CASE Send
  <2>1. reply \in Replies /\ branch \in Streams
      BY DEF LocalsOK
  <2>2. /\ Append(outq[branch], reply) \in Seq(Replies)
        /\ Append(said[branch], reply) \in Seq(Replies)
      BY <2>1, AppendProperties DEF ChannelsOK
  <2>3. QED
      BY <1>4, <2>1, <2>2 DEF Send, ChannelsOK
<1>5. ASSUME NEW s \in Streams, NEW r \in Requests, Deliver(s, r) PROVE ChannelsOK'
  <2>1. Append(inq[s], r) \in Seq(Requests) /\ Append(got[s], r) \in Seq(Requests)
      BY AppendProperties DEF ChannelsOK
  <2>2. QED
      BY <1>5, <2>1 DEF Deliver, ChannelsOK
<1>6. ASSUME NEW s \in Streams, Transmit(s) PROVE ChannelsOK'
  <2>1. Tail(outq[s]) \in Seq(Replies)
      BY <1>6, HeadTailProperties DEF Transmit, ChannelsOK
  <2>2. QED
      BY <1>6, <2>1 DEF Transmit, ChannelsOK
<1>7. CASE Reconnects
    BY <1>7, <1>1, <1>3 DEF Reconnects, channels
<1>8. CASE Pick
    BY <1>8, <1>2 DEF Pick, Ignore, Decline, TakeBuy, TakeSell, TakeSoftQuote, Streams
<1>9. QED
    BY <1>1, <1>3, <1>4, <1>5, <1>6, <1>7, <1>8
    DEF Next, Handle, External, AmountPanics, SendWrite, SendWriteFails, ReceiptOfWrite,
        ReceiptOfRevert, ReceiptMissing, AwaitsReceipt, SignOrder, BuildOffer, BuildQuote,
        RunReturns, SessionExpires, Mine, Revert, Fill, Tick, vars

\* Only Sign adds to the orders, and it adds at the end.
LEMMA SignedGrows ==
    TypeInv /\ [Next]_vars =>
        /\ DOMAIN signed \subseteq DOMAIN signed'
        /\ \A i \in DOMAIN signed : signed'[i] = signed[i]
<1> SUFFICES ASSUME TypeInv, [Next]_vars
             PROVE  /\ DOMAIN signed \subseteq DOMAIN signed'
                    /\ \A i \in DOMAIN signed : signed'[i] = signed[i]
    OBVIOUS
<1>1. CASE SignOrder
  <2>1. signed \in Seq(Orders) /\ cur \in Requests /\ lot \in Nat /\ until \in Nat
      BY <1>1 DEF SignOrder, TypeInv, TypeOK, LedgerOK, LocalsOK, InHandler
  <2>2. [req |-> cur, lot |-> lot, until |-> until] \in Orders
      BY <2>1 DEF Orders
  <2>3. QED
      BY <1>1, <2>1, <2>2, AppendProperties, LenProperties DEF SignOrder
<1>2. CASE UNCHANGED signed
    BY <1>2
<1>3. QED
    BY <1>1, <1>2
    DEF Next, Pick, Handle, External, Ignore, Decline, TakeBuy, TakeSell, TakeSoftQuote,
        AmountPanics, SendWrite, SendWriteFails, ReceiptOfWrite, ReceiptOfRevert,
        ReceiptMissing, AwaitsReceipt, BuildOffer, BuildQuote, Send, RunReturns, Reconnects,
        SessionExpires, Deliver, Transmit, Mine, Revert, Fill, Tick, vars

LEMMA LedgerNext == TypeInv /\ [Next]_vars => LedgerOK'
<1> SUFFICES ASSUME TypeInv, [Next]_vars PROVE LedgerOK'
    OBVIOUS
<1> USE DEF TypeInv, TypeOK
<1>1. CASE UNCHANGED <<signed, relayVars, chainVars>>
    BY <1>1 DEF relayVars, chainVars, LedgerOK
<1>2. ASSUME cur \in Requests, writes' = Append(writes, Write(cur)),
             UNCHANGED <<signed, relayVars, balance, usdc, filled, now>>
      PROVE  LedgerOK'
  <2>1. Write(cur) \in Writes
      BY <1>2 DEF Write, Writes
  <2>2. writes' \in Seq(Writes)
      BY <1>2, <2>1, AppendProperties DEF LedgerOK
  <2>3. QED
      BY <1>2, <2>2 DEF LedgerOK, relayVars
<1>3. CASE SendWrite
    BY <1>3, <1>2 DEF SendWrite, Writing, InHandler
<1>4. CASE SendWriteFails
    BY <1>4, <1>1, <1>2 DEF SendWriteFails, Writing, InHandler, chainVars
<1>5. CASE SignOrder
  <2>1. [req |-> cur, lot |-> lot, until |-> until] \in Orders
      BY <1>5 DEF SignOrder, Orders, InHandler, LocalsOK
  <2>2. signed' \in Seq(Orders)
      BY <1>5, <2>1, AppendProperties DEF SignOrder, LedgerOK
  <2>3. QED
      BY <1>5, <2>2 DEF SignOrder, LedgerOK, relayVars, chainVars
<1>6. ASSUME NEW s \in Streams, NEW r \in Requests, Deliver(s, r) PROVE LedgerOK'
    BY <1>6 DEF Deliver, LedgerOK, chainVars
<1>7. ASSUME NEW s \in Streams, Transmit(s) PROVE LedgerOK'
  <2>1. Head(outq[s]) \in Replies
      BY <1>7, HeadTailProperties DEF Transmit, ChannelsOK
  <2>2. Head(outq[s]).order \in Nat
      BY <2>1 DEF Replies
  <2>3. QED
      BY <1>7, <2>2 DEF Transmit, LedgerOK, chainVars
<1>8. ASSUME NEW i \in DOMAIN writes, Mine(i) \/ Revert(i) PROVE LedgerOK'
  <2>1. i \in 1..Len(writes) /\ writes[i] \in Writes
      BY LenProperties, ElementOfSeq DEF LedgerOK
  <2>2. \A st \in {"mined", "reverted"} : [writes[i] EXCEPT !.status = st] \in Writes
      BY <2>1 DEF Writes
  <2>3. \A st \in {"mined", "reverted"} : [writes EXCEPT ![i] = [writes[i] EXCEPT !.status = st]] \in Seq(Writes)
      BY <2>1, <2>2, ExceptSeq DEF LedgerOK
  <2>4. writes' \in Seq(Writes)
      BY <1>8, <2>3 DEF Mine, Revert
  <2>5. writes[i].req.amount \in Nat
      BY <2>1, RequestAssumption DEF Writes
  <2>6. [balance EXCEPT ![writes[i].req.option] = @ + writes[i].req.amount]
            \in [Options -> Nat]
      BY <2>5, AddToBalance DEF LedgerOK
  <2>7. balance' \in [Options -> Nat]
    <3>1. CASE Mine(i)
        BY ONLY <3>1, <2>6 DEF Mine
    <3>2. CASE Revert(i)
        BY <3>2 DEF Revert, LedgerOK
    <3>3. QED
        BY <1>8, <3>1, <3>2
  <2>8. QED
      BY <1>8, <2>4, <2>7 DEF Mine, Revert, LedgerOK, relayVars
<1>9. ASSUME NEW i \in published, Fill(i) PROVE LedgerOK'
  <2>1. i \in DOMAIN signed /\ signed[i] \in Orders
      BY LenProperties, ElementOfSeq DEF References, LedgerOK
  <2>2. signed[i].req.amount \in Nat
      BY <2>1, RequestAssumption DEF Orders
  <2>3. balance' \in [Options -> Nat]
      BY <1>9, <2>2 DEF Fill, Holds, LedgerOK
  <2>4. usdc' \in Nat
      BY <1>9, QuotingAssumption DEF Fill, Holds, LedgerOK
  <2>5. QED
      BY <1>9, <2>1, <2>3, <2>4, LenProperties DEF Fill, LedgerOK, relayVars
<1>10. CASE Tick
    BY <1>10 DEF Tick, LedgerOK, relayVars
<1>11. QED
    BY <1>1, <1>3, <1>4, <1>5, <1>6, <1>7, <1>8, <1>9, <1>10
    DEF Next, Pick, Handle, External, Ignore, Decline, TakeBuy, TakeSell, TakeSoftQuote,
        AmountPanics, ReceiptOfWrite, ReceiptOfRevert, ReceiptMissing, AwaitsReceipt,
        BuildOffer, BuildQuote, Send, RunReturns, Reconnects, SessionExpires, vars

LEMMA ReferencesNext == TypeInv /\ [Next]_vars => References'
<1> SUFFICES ASSUME TypeInv, [Next]_vars PROVE References'
    OBVIOUS
<1> USE DEF TypeInv, TypeOK
<1>0. DOMAIN signed \subseteq DOMAIN signed'
    BY SignedGrows
<1>1. ASSUME UNCHANGED <<published, outq>>, OfferRef(reply, signed)' PROVE References'
    BY <1>0, <1>1 DEF References, OfferRef
<1>2. ASSUME UNCHANGED <<published, outq, reply>> PROVE References'
    BY <1>0, <1>2 DEF References, OfferRef
<1>3. ASSUME NEW r, Answer(NoOffer(r)) PROVE OfferRef(reply, signed)'
    BY <1>3 DEF Answer, NoOffer, OfferRef
<1>4. ASSUME DropRun, UNCHANGED published PROVE References'
    BY <1>0, <1>4, DropRunType DEF References, Streams, DropRun, Empty
<1>5. CASE BuildOffer
  <2>1. Len(signed) \in DOMAIN signed
      BY <1>5, LenProperties, EmptySeq DEF BuildOffer, InHandler, LedgerOK
  <2>2. OfferRef(Offer(cur, Len(signed)), signed)
      BY <2>1 DEF Offer, OfferRef
  <2>3. QED
      BY <1>1, <1>5, <2>2 DEF BuildOffer, Answer, OfferRef, Offer, channels, relayVars
<1>6. CASE BuildQuote
    BY <1>1, <1>6 DEF BuildQuote, Answer, Quote, OfferRef, channels, relayVars
<1>7. CASE Send
  <2>1. ASSUME NEW s \in Streams, NEW k \in DOMAIN outq'[s]
        PROVE  OfferRef(outq'[s][k], signed')
    <3>1. branch \in Streams /\ reply \in Replies /\ OfferRef(reply, signed) /\ outq[s] \in Seq(Replies)
        BY DEF LocalsOK, References, ChannelsOK
    <3>2. CASE s = branch
      <4>1. outq'[s] = Append(outq[s], reply)
          BY <1>7, <3>1, <3>2 DEF Send, ChannelsOK
      <4>2. outq'[s][k] = reply \/ (k \in DOMAIN outq[s] /\ outq'[s][k] = outq[s][k])
          BY <2>1, <3>1, <4>1, AppendProperties, LenProperties
      <4>3. QED
          BY <1>0, <3>1, <4>2, <2>1 DEF References, OfferRef
    <3>3. CASE s # branch
      <4>1. outq'[s] = outq[s]
          BY <1>7, <3>1, <3>3 DEF Send, ChannelsOK
      <4>2. QED
          BY <1>0, <2>1, <4>1 DEF References, OfferRef
    <3>4. QED
        BY <3>2, <3>3
  <2>2. OfferRef(reply, signed)'
      BY <1>7, BackToSelectType DEF Send
  <2>3. UNCHANGED published
      BY <1>7 DEF Send, relayVars
  <2>4. QED
      BY <1>0, <2>1, <2>2, <2>3 DEF References, OfferRef
<1>8. ASSUME NEW s \in Streams, Transmit(s) PROVE References'
  <2>1. outq[s] \in Seq(Replies) /\ outq[s] # <<>>
      BY <1>8 DEF Transmit, ChannelsOK
  <2>2. 1 \in DOMAIN outq[s] /\ Head(outq[s]) = outq[s][1]
      BY <2>1, LenProperties, EmptySeq
  <2>3. published' \subseteq DOMAIN signed
      BY <1>8, <2>2 DEF Transmit, References, OfferRef
  <2>4. ASSUME NEW t \in Streams, NEW k \in DOMAIN outq'[t]
        PROVE  \E l \in DOMAIN outq[t] : outq'[t][k] = outq[t][l]
    <3>1. CASE t = s
      <4>1. outq'[t] = Tail(outq[s])
          BY <1>8, <3>1 DEF Transmit, ChannelsOK
      <4>2. k + 1 \in DOMAIN outq[t] /\ outq'[t][k] = outq[t][k + 1]
          BY <2>1, <2>4, <3>1, <4>1, HeadTailProperties, LenProperties
      <4>3. QED
          BY <4>2
    <3>2. CASE t # s
        BY <1>8, <2>4, <3>2 DEF Transmit, ChannelsOK
    <3>3. QED
        BY <3>1, <3>2
  <2>5. UNCHANGED <<signed, reply>>
      BY <1>8 DEF Transmit, locals
  <2>6. QED
      BY <2>3, <2>4, <2>5 DEF References, OfferRef
<1>9. CASE Handle
    BY <1>1, <1>2, <1>3, <1>4, <1>5, <1>6, <1>7, <1>9
    DEF Handle, AmountPanics, SendWrite, SendWriteFails, ReceiptOfWrite, ReceiptOfRevert,
        ReceiptMissing, AwaitsReceipt, SignOrder, RunReturns, channels, relayVars
<1>10. CASE Pick
    BY <1>1, <1>2, <1>3, <1>10
    DEF Pick, Ignore, Decline, TakeBuy, TakeSell, TakeSoftQuote, locals, relayVars
<1>11. CASE Reconnects
    BY <1>2, <1>4, <1>11 DEF Reconnects, locals, channels, relayVars
<1>12. CASE SessionExpires \/ UNCHANGED vars
    BY <1>2, <1>12 DEF SessionExpires, vars, locals, channels, relayVars
<1>13. CASE External
    BY <1>2, <1>8, <1>13
    DEF External, Deliver, Mine, Revert, Fill, Tick, locals, channels, relayVars
<1>14. QED
    BY <1>9, <1>10, <1>11, <1>12, <1>13 DEF Next

LEMMA InHandlerNext == TypeInv /\ [Next]_vars => InHandler'
<1> SUFFICES ASSUME TypeInv, [Next]_vars PROVE InHandler'
    OBVIOUS
<1> USE DEF TypeInv, TypeOK
<1>1. ASSUME NEW s \in Streams, Decline(s) PROVE InHandler'
    BY <1>1 DEF Decline, Answer, InHandler
<1>2. CASE TakeBuy \/ TakeSell
    BY <1>2, ReadsType DEF TakeBuy, TakeSell, InHandler, Streams
<1>3. CASE TakeSoftQuote
    BY <1>3, ReadsType DEF TakeSoftQuote, InHandler, Streams
<1>4. ASSUME BackToSelect PROVE InHandler'
    BY <1>4 DEF BackToSelect, InHandler
<1>5. ASSUME NEW r, Answer(r) PROVE InHandler'
    BY <1>5 DEF Answer, InHandler
<1>6. CASE SendWrite
  <2>1. cur \in Requests /\ Write(cur) \in Writes
      BY <1>6 DEF SendWrite, Writing, InHandler, Write, Writes
  <2>2. Len(writes') \in DOMAIN writes'
      BY <1>6, <2>1, AppendProperties, LenProperties DEF SendWrite, LedgerOK
  <2>3. QED
      BY <1>6, <2>1, <2>2 DEF SendWrite, InHandler
<1>7. CASE ReceiptOfWrite
    BY <1>7 DEF ReceiptOfWrite, AwaitsReceipt, InHandler
<1>8. CASE SignOrder
  <2>1. [req |-> cur, lot |-> lot, until |-> until] \in Orders
      BY <1>8 DEF SignOrder, Orders, InHandler, LocalsOK
  <2>2. signed' # <<>>
      BY <1>8, <2>1, AppendProperties, EmptySeq DEF SignOrder, LedgerOK
  <2>3. QED
      BY <1>8, <2>2 DEF SignOrder, InHandler
<1>9. ASSUME UNCHANGED <<at, branch, cur, lot, signed>>, DOMAIN writes \subseteq DOMAIN writes'
      PROVE  InHandler'
    BY <1>9 DEF InHandler
<1>10. ASSUME NEW i \in DOMAIN writes, Mine(i) \/ Revert(i) PROVE InHandler'
    BY <1>9, <1>10 DEF Mine, Revert, locals
<1>11. QED
    BY <1>1, <1>2, <1>3, <1>4, <1>5, <1>6, <1>7, <1>8, <1>9, <1>10
    DEF Next, Pick, Handle, External, Ignore, AmountPanics, SendWriteFails, ReceiptOfRevert,
        ReceiptMissing, BuildOffer, BuildQuote, Send, RunReturns, DropRun, Reconnects,
        SessionExpires, Deliver, Transmit, Fill, Tick, locals, chainVars, vars

LEMMA TypeNext == TypeInv /\ SessionInv' /\ [Next]_vars => TypeInv'
BY LocalsNext, ChannelsNext, LedgerNext, ReferencesNext, InHandlerNext
DEF TypeInv, TypeOK, SessionInv

\* The variables of the maker and of what surrounds it stay in their types: no
\* balance goes below zero, and what an answer or a fill refers to exists.
THEOREM TypeCorrect == Spec => []TypeOK
<1>1. Init => TypeInv /\ SessionInv
    BY TypeInit, SessionInitInv DEF Init
<1>2. TypeInv /\ SessionInv /\ [Next]_vars => TypeInv' /\ SessionInv'
    BY TypeNext, StepOfSession, SessionNextInv
<1>3. TypeInv => TypeOK
    BY DEF TypeInv
<1>4. QED
    BY <1>1, <1>2, <1>3, PTL DEF Spec

-----------------------------------------------------------------------------
(* Every offer of options has a lot of its own.                            *)

\* The handler's write is for the request in hand and backs no order yet.
Reserved ==
    /\ lot \in DOMAIN writes
    /\ writes[lot].req = cur
    /\ \A i \in BuyOrders : signed[i].lot # lot

\* A lot is reserved from the moment its write is sent, and only a mined one gets
\* as far as the signature.  TakeSell reaches the signature too, with no lot.
LotInv ==
    /\ OfferHasOwnLot
    /\ at = "write" => cur.action = "Buy"
    /\ at = "receipt" => Reserved
    /\ at = "sign" /\ cur.action = "Buy" => Reserved /\ writes[lot].status = "mined"

\* A write keeps its request, and once mined it stays mined.
LEMMA WritesGrow ==
    TypeInv /\ [Next]_vars =>
        /\ DOMAIN writes \subseteq DOMAIN writes'
        /\ \A i \in DOMAIN writes :
              /\ writes'[i].req = writes[i].req
              /\ writes[i].status = "mined" => writes'[i] = writes[i]
<1> SUFFICES ASSUME TypeInv, [Next]_vars
             PROVE  /\ DOMAIN writes \subseteq DOMAIN writes'
                    /\ \A i \in DOMAIN writes :
                          /\ writes'[i].req = writes[i].req
                          /\ writes[i].status = "mined" => writes'[i] = writes[i]
    OBVIOUS
<1>0. writes \in Seq(Writes)
    BY DEF TypeInv, TypeOK, LedgerOK
<1>1. CASE UNCHANGED writes
    BY <1>1
<1>2. CASE (SendWrite \/ SendWriteFails) /\ writes' = Append(writes, Write(cur))
  <2>1. Write(cur) \in Writes
      BY <1>2 DEF SendWrite, SendWriteFails, Writing, TypeInv, InHandler, Write, Writes
  <2>2. QED
      BY <1>0, <1>2, <2>1, AppendProperties, LenProperties
<1>3. ASSUME NEW k \in DOMAIN writes, Mine(k) \/ Revert(k)
      PROVE  /\ DOMAIN writes \subseteq DOMAIN writes'
             /\ \A i \in DOMAIN writes :
                   /\ writes'[i].req = writes[i].req
                   /\ writes[i].status = "mined" => writes'[i] = writes[i]
  <2>1. writes[k].status = "pending" /\ writes[k] \in Writes
      BY <1>0, <1>3, LenProperties, ElementOfSeq DEF Mine, Revert
  <2>2. \E st \in {"mined", "reverted"} : writes' = [writes EXCEPT ![k] = [writes[k] EXCEPT !.status = st]]
      BY <1>3 DEF Mine, Revert
  <2>3. QED
      BY <1>0, <2>1, <2>2 DEF Writes
<1>4. QED
    BY <1>1, <1>2, <1>3
    DEF Next, Pick, Handle, External, Ignore, Decline, TakeBuy, TakeSell, TakeSoftQuote,
        AmountPanics, SendWrite, SendWriteFails, ReceiptOfWrite, ReceiptOfRevert,
        ReceiptMissing, AwaitsReceipt, SignOrder, BuildOffer, BuildQuote, Send, RunReturns,
        Reconnects, SessionExpires, Deliver, Transmit, Fill, Tick, chainVars, vars

\* What a step that signs nothing leaves standing.
LEMMA LotFrame ==
    ASSUME TypeInv, LotInv, [Next]_vars, UNCHANGED signed
    PROVE  /\ OfferHasOwnLot'
           /\ Reserved /\ UNCHANGED <<cur, lot>> => Reserved'
<1>1. BuyOrders' = BuyOrders
    BY DEF BuyOrders
<1>2. OfferHasOwnLot'
    BY <1>1, WritesGrow DEF LotInv, OfferHasOwnLot
<1>3. Reserved /\ UNCHANGED <<cur, lot>> => Reserved'
    BY <1>1, WritesGrow DEF Reserved
<1>4. QED
    BY <1>2, <1>3

LEMMA LotNext == TypeInv /\ LotInv /\ [Next]_vars => LotInv'
<1> SUFFICES ASSUME TypeInv, LotInv, [Next]_vars PROVE LotInv'
    OBVIOUS
<1>1. ASSUME UNCHANGED <<signed, at, cur, lot>> PROVE LotInv'
    BY <1>1, LotFrame, WritesGrow DEF LotInv, Reserved
<1>2. ASSUME UNCHANGED signed, at' \notin {"write", "receipt", "sign"} PROVE LotInv'
    BY <1>2, LotFrame DEF LotInv
<1>3. CASE TakeBuy
    BY <1>3, LotFrame DEF TakeBuy, LotInv
<1>4. CASE TakeSell
    BY <1>4, LotFrame DEF TakeSell, LotInv
<1>5. CASE SendWrite
  <2>1. Write(cur) \in Writes /\ writes \in Seq(Writes)
      BY <1>5 DEF SendWrite, Writing, TypeInv, TypeOK, LedgerOK, InHandler, Write, Writes
  <2>2. lot' \in DOMAIN writes' /\ lot' \notin DOMAIN writes /\ writes'[lot'].req = cur
      BY <1>5, <2>1, AppendProperties, LenProperties DEF SendWrite, Write
  <2>3. Reserved'
      BY <1>5, <2>2 DEF SendWrite, Reserved, LotInv, OfferHasOwnLot, BuyOrders
  <2>4. QED
      BY <1>5, <2>3, LotFrame DEF SendWrite, LotInv
<1>6. CASE SendWriteFails
    BY <1>6, <1>2 DEF SendWriteFails, Answer
<1>7. CASE ReceiptOfWrite
    BY <1>7, LotFrame, WritesGrow DEF ReceiptOfWrite, AwaitsReceipt, LotInv, Reserved
<1>8. CASE SignOrder
  <2> DEFINE o == [req |-> cur, lot |-> lot, until |-> until]
  <2>1. o \in Orders /\ signed \in Seq(Orders) /\ signed' = Append(signed, o)
      BY <1>8 DEF SignOrder, Orders, TypeInv, TypeOK, LedgerOK, LocalsOK, InHandler
  <2>2. /\ DOMAIN signed' = DOMAIN signed \cup {Len(signed) + 1}
        /\ Len(signed) + 1 \notin DOMAIN signed
        /\ signed'[Len(signed) + 1] = o
        /\ \A i \in DOMAIN signed : signed'[i] = signed[i]
      BY <2>1, AppendProperties, LenProperties
  <2>3. UNCHANGED <<writes, cur, lot>> /\ at = "sign" /\ at' = "chain_id"
      BY <1>8 DEF SignOrder, chainVars
  <2>4. CASE cur.action = "Buy"
    <3>1. BuyOrders' = BuyOrders \cup {Len(signed) + 1}
        BY <2>2, <2>4 DEF BuyOrders
    <3>2. Reserved /\ writes[lot] = [req |-> cur, status |-> "mined"]
      <4>1. Reserved /\ writes[lot].status = "mined" /\ writes[lot].req = cur
          BY <2>3, <2>4 DEF LotInv, Reserved
      <4>2. writes[lot] \in Writes
          BY <4>1, LenProperties, ElementOfSeq DEF Reserved, TypeInv, TypeOK, LedgerOK
      <4>3. QED
          BY <4>1, <4>2 DEF Writes
    <3>3. OfferHasOwnLot'
        BY <2>2, <2>3, <3>1, <3>2 DEF OfferHasOwnLot, LotInv, Reserved, BuyOrders
    <3>4. QED
        BY <2>3, <3>3 DEF LotInv
  <2>5. CASE cur.action # "Buy"
    <3>1. BuyOrders' = BuyOrders
        BY <2>2, <2>5 DEF BuyOrders
    <3>2. QED
        BY <2>2, <2>3, <3>1 DEF OfferHasOwnLot, LotInv, BuyOrders
  <2>6. QED
      BY <2>4, <2>5
<1>9. QED
    BY <1>1, <1>2, <1>3, <1>4, <1>5, <1>6, <1>7, <1>8
    DEF Next, Pick, Handle, External, Ignore, Decline, TakeSoftQuote, AmountPanics,
        ReceiptOfRevert, ReceiptMissing, AwaitsReceipt, BuildOffer, BuildQuote, Send,
        RunReturns, DropRun, BackToSelect, Answer, Reconnects, SessionExpires, Deliver,
        Transmit, Mine, Revert, Fill, Tick, locals, vars

\* However many receipts are lost, writes revert and runs end, an order that offers
\* options is backed by a mined write of just that request, promised to no other
\* order (handle_rfq_request with write_option).
THEOREM OffersHaveOwnLots == Spec => []OfferHasOwnLot
<1>1. Init => TypeInv /\ SessionInv /\ LotInv
    BY TypeInit, SessionInitInv DEF Init, LotInv, OfferHasOwnLot, BuyOrders
<1>2. TypeInv /\ SessionInv /\ LotInv /\ [Next]_vars => TypeInv' /\ SessionInv' /\ LotInv'
    BY TypeNext, StepOfSession, SessionNextInv, LotNext
<1>3. LotInv => OfferHasOwnLot
    BY DEF LotInv
<1>4. QED
    BY <1>1, <1>2, <1>3, PTL DEF Spec

-----------------------------------------------------------------------------
(* The maker implements the abstract desk.                                 *)

FilledSigned == filled \subseteq DOMAIN signed

LEMMA FilledNext == TypeInv /\ FilledSigned /\ [Next]_vars => FilledSigned'
<1> SUFFICES ASSUME TypeInv, FilledSigned, [Next]_vars PROVE FilledSigned'
    OBVIOUS
<1>1. CASE UNCHANGED filled
    BY <1>1, SignedGrows DEF FilledSigned
<1>2. ASSUME NEW i \in published, Fill(i) PROVE FilledSigned'
    BY <1>2, SignedGrows DEF Fill, FilledSigned, TypeInv, References
<1>3. QED
    BY <1>1, <1>2
    DEF Next, Pick, Handle, External, Ignore, Decline, TakeBuy, TakeSell, TakeSoftQuote,
        AmountPanics, SendWrite, SendWriteFails, ReceiptOfWrite, ReceiptOfRevert,
        ReceiptMissing, AwaitsReceipt, SignOrder, BuildOffer, BuildQuote, Send, RunReturns,
        Reconnects, SessionExpires, Deliver, Transmit, Mine, Revert, Tick, chainVars, vars

\* The promised lots are mined, the sold ones promised, and no two orders share one.
LEMMA LotSets ==
    ASSUME OfferHasOwnLot
    PROVE  /\ Promised \subseteq Mined
           /\ Sold \subseteq Promised
           /\ \A i \in BuyOrders \ filled : signed[i].lot \in Promised \ Sold
<1>1. ASSUME NEW l \in Promised PROVE l \in Mined
  <2>1. PICK i \in BuyOrders : l = signed[i].lot
      BY <1>1 DEF Promised
  <2>2. l \in DOMAIN writes /\ writes[l] = [req |-> signed[i].req, status |-> "mined"]
      BY <2>1 DEF OfferHasOwnLot
  <2>3. writes[l].status = "mined"
      BY <2>2
  <2>4. QED
      BY <2>2, <2>3 DEF Mined
<1>2. Sold \subseteq Promised
    BY DEF Promised, Sold
<1>3. ASSUME NEW i \in BuyOrders \ filled PROVE signed[i].lot \in Promised \ Sold
  <2>1. \A j \in BuyOrders \cap filled : signed[j].lot # signed[i].lot
      BY <1>3 DEF OfferHasOwnLot
  <2>2. QED
      BY <2>1, <1>3 DEF Promised, Sold
<1>4. QED
    BY <1>1, <1>2, <1>3

DeskInv == TypeInv /\ LotInv /\ FilledSigned

LEMMA DeskStep == DeskInv /\ [Next]_vars => [Desk!DeskNext]_(Desk!deskVars)
<1> SUFFICES ASSUME DeskInv, [Next]_vars PROVE [Desk!DeskNext]_(Desk!deskVars)
    OBVIOUS
<1>0. TypeInv /\ LotInv /\ FilledSigned /\ OfferHasOwnLot
    BY DEF DeskInv, LotInv
<1>1. ASSUME UNCHANGED <<Mined, Promised, Sold>> PROVE [Desk!DeskNext]_(Desk!deskVars)
    BY <1>1 DEF Desk!deskVars
<1>2. ASSUME UNCHANGED <<signed, filled>> PROVE UNCHANGED <<Promised, Sold>>
    BY <1>2 DEF Promised, Sold, BuyOrders
<1>3. CASE UNCHANGED <<signed, filled, writes>>
    BY <1>1, <1>2, <1>3 DEF Mined
<1>4. CASE (SendWrite \/ SendWriteFails) /\ writes' = Append(writes, Write(cur))
  <2>1. Write(cur) \in Writes /\ writes \in Seq(Writes)
      BY <1>0, <1>4 DEF SendWrite, SendWriteFails, Writing, TypeInv, TypeOK, LedgerOK,
         InHandler, Write, Writes
  <2>2. Mined' = Mined
    <3>1. /\ DOMAIN writes' = DOMAIN writes \cup {Len(writes) + 1}
          /\ writes'[Len(writes) + 1] = Write(cur)
          /\ \A i \in DOMAIN writes : writes'[i] = writes[i]
          /\ Len(writes) + 1 \notin DOMAIN writes
        BY <1>4, <2>1, AppendProperties, LenProperties
    <3>2. QED
        BY <3>1 DEF Mined, Write
  <2>3. QED
      BY <1>1, <1>2, <1>4, <2>2 DEF SendWrite, SendWriteFails
<1>5. ASSUME NEW i \in DOMAIN writes, Mine(i) PROVE [Desk!DeskNext]_(Desk!deskVars)
  <2>1. writes[i] \in Writes /\ writes[i].status = "pending"
      BY <1>0, <1>5, LenProperties, ElementOfSeq DEF TypeInv, TypeOK, LedgerOK, Mine
  <2>2. Mined' = Mined \cup {i} /\ i \notin Mined
      BY <1>5, <2>1 DEF Mine, Mined, Writes
  <2>3. UNCHANGED <<Promised, Sold>>
      BY <1>2, <1>5 DEF Mine
  <2>4. Desk!Acquire
      BY <1>0, <2>2, <2>3, LotSets DEF Desk!Acquire
  <2>5. QED
      BY <2>4 DEF Desk!DeskNext
<1>6. ASSUME NEW i \in DOMAIN writes, Revert(i) PROVE [Desk!DeskNext]_(Desk!deskVars)
  <2>1. writes[i] \in Writes /\ writes[i].status = "pending"
      BY <1>0, <1>6, LenProperties, ElementOfSeq DEF TypeInv, TypeOK, LedgerOK, Revert
  <2>2. Mined' = Mined
      BY <1>6, <2>1 DEF Revert, Mined, Writes
  <2>3. QED
      BY <1>1, <1>2, <1>6, <2>2 DEF Revert
<1>7. CASE SignOrder
  <2> DEFINE o == [req |-> cur, lot |-> lot, until |-> until]
  <2>1. o \in Orders /\ signed \in Seq(Orders) /\ signed' = Append(signed, o)
      BY <1>0, <1>7 DEF SignOrder, Orders, TypeInv, TypeOK, LedgerOK, LocalsOK, InHandler
  <2>2. /\ DOMAIN signed' = DOMAIN signed \cup {Len(signed) + 1}
        /\ Len(signed) + 1 \notin DOMAIN signed
        /\ signed'[Len(signed) + 1] = o
        /\ \A i \in DOMAIN signed : signed'[i] = signed[i]
      BY <2>1, AppendProperties, LenProperties
  <2>3. UNCHANGED <<writes, filled>> /\ at = "sign"
      BY <1>7 DEF SignOrder, chainVars
  <2>4. UNCHANGED Mined
      BY <2>3 DEF Mined
  <2>5. CASE cur.action = "Buy"
    <3>1. BuyOrders' = BuyOrders \cup {Len(signed) + 1}
        BY <2>2, <2>5 DEF BuyOrders
    <3>2. Promised' = Promised \cup {lot}
        BY <2>2, <3>1 DEF Promised, BuyOrders
    <3>3. Sold' = Sold
        BY <1>0, <2>2, <2>3, <3>1 DEF Sold, FilledSigned, BuyOrders
    <3>4. lot \in Mined \ Promised
        BY <1>0, <2>3, <2>5 DEF LotInv, Reserved, Mined, Promised
    <3>5. Desk!Commit
        BY <1>0, <2>4, <3>2, <3>3, <3>4, LotSets DEF Desk!Commit
    <3>6. QED
        BY <3>5 DEF Desk!DeskNext
  <2>6. CASE cur.action # "Buy"
    <3>1. BuyOrders' = BuyOrders
        BY <2>2, <2>6 DEF BuyOrders
    <3>2. UNCHANGED <<Promised, Sold>>
        BY <2>2, <2>3, <3>1 DEF Promised, Sold, BuyOrders
    <3>3. QED
        BY <1>1, <2>4, <3>2
  <2>7. QED
      BY <2>5, <2>6
<1>8. ASSUME NEW i \in published, Fill(i) PROVE [Desk!DeskNext]_(Desk!deskVars)
  <2>1. i \in DOMAIN signed /\ i \notin filled /\ filled' = filled \cup {i}
      BY <1>0, <1>8 DEF Fill, Live, TypeInv, References
  <2>2. UNCHANGED <<signed, writes, BuyOrders, Mined, Promised>>
      BY <1>8 DEF Fill, BuyOrders, Mined, Promised
  <2>3. CASE i \in BuyOrders
    <3>1. Sold' = Sold \cup {signed[i].lot}
        BY <2>1, <2>2, <2>3 DEF Sold
    <3>2. signed[i].lot \in Promised \ Sold
        BY <1>0, <2>1, <2>3, LotSets
    <3>3. Desk!HandOver
        BY <2>2, <3>1, <3>2 DEF Desk!HandOver
    <3>4. QED
        BY <3>3 DEF Desk!DeskNext
  <2>4. CASE i \notin BuyOrders
    <3>1. Sold' = Sold
        BY <2>1, <2>2, <2>4 DEF Sold
    <3>2. QED
        BY <1>1, <2>2, <3>1
  <2>5. QED
      BY <2>3, <2>4
<1>9. QED
    BY <1>3, <1>4, <1>5, <1>6, <1>7, <1>8
    DEF Next, Pick, Handle, External, Ignore, Decline, TakeBuy, TakeSell, TakeSoftQuote,
        AmountPanics, SendWrite, SendWriteFails, ReceiptOfWrite, ReceiptOfRevert,
        ReceiptMissing, AwaitsReceipt, BuildOffer, BuildQuote, Send, RunReturns, Reconnects,
        SessionExpires, Deliver, Transmit, Tick, chainVars, vars

\* The maker, through lost receipts, reverted writes and reconnections, does
\* nothing to its lots that the abstract desk does not: written, then committed
\* to one order, then sold.
THEOREM MakerImplementsDesk == Spec => ImplementsDesk
<1>1. Init => Desk!DeskInit
    BY DEF Init, Desk!DeskInit, Mined, Promised, Sold, BuyOrders
<1>2. Init => DeskInv /\ SessionInv
    BY TypeInit, SessionInitInv
    DEF Init, DeskInv, LotInv, OfferHasOwnLot, BuyOrders, FilledSigned
<1>3. DeskInv /\ SessionInv /\ [Next]_vars => DeskInv' /\ SessionInv'
    BY TypeNext, StepOfSession, SessionNextInv, LotNext, FilledNext DEF DeskInv
<1>4. QED
    BY <1>1, <1>2, <1>3, DeskStep, PTL DEF Spec, ImplementsDesk, Desk!DeskSpec
-----------------------------------------------------------------------------
(* The maker holds what it offers.                                         *)

WriteAmounts == [i \in DOMAIN writes |-> writes[i].req.amount]

\* The mined lots of an option type that no fill has taken.
Unsold(o) == {i \in Mined \ Sold : writes[i].req.option = o}

\* The maker still holds the lots it has not sold, what it buys back on top.
Stocked == \A o \in Options : balance[o] >= SumFunctionOnSet(WriteAmounts, Unsold(o))

LEMMA LotOfOrder ==
    ASSUME OfferHasOwnLot, NEW i \in BuyOrders
    PROVE  signed[i].lot \in DOMAIN writes /\ writes[signed[i].lot].req = signed[i].req
<1>1. /\ signed[i].lot \in DOMAIN writes
      /\ writes[signed[i].lot] = [req |-> signed[i].req, status |-> "mined"]
    BY DEF OfferHasOwnLot
<1> QED
    BY <1>1

LEMMA UnsoldFinite ==
    ASSUME TypeInv, NEW o
    PROVE  /\ IsFiniteSet(Unsold(o))
           /\ Unsold(o) \subseteq DOMAIN writes
           /\ \A i \in DOMAIN writes : WriteAmounts[i] \in Nat /\ WriteAmounts[i] = writes[i].req.amount
<1>1. writes \in Seq(Writes)
    BY DEF TypeInv, TypeOK, LedgerOK
<1>2. Len(writes) \in Nat /\ DOMAIN writes = 1..Len(writes)
    BY <1>1, LenProperties
<1>3. IsFiniteSet(DOMAIN writes)
    BY <1>2, FS_Interval
<1>4. Unsold(o) \subseteq DOMAIN writes
    BY DEF Unsold, Mined
<1>5. ASSUME NEW i \in DOMAIN writes PROVE writes[i].req.amount \in Nat
  <2>1. writes[i] \in Writes
      BY <1>1, <1>2, ElementOfSeq
  <2> QED
      BY <2>1, RequestAssumption DEF Writes
<1>6. IsFiniteSet(Unsold(o))
    BY <1>3, <1>4, FS_Subset
<1>7. ASSUME NEW i \in DOMAIN writes PROVE WriteAmounts[i] = writes[i].req.amount
    BY DEF WriteAmounts
<1> QED
    BY <1>4, <1>5, <1>6, <1>7

\* A step that moves no lot and takes nothing from the maker.
LEMMA StockStays ==
    ASSUME TypeInv, Stocked, [Next]_vars, TypeInv',
           Mined' = Mined, Sold' = Sold,
           \A o \in Options : balance'[o] >= balance[o]
    PROVE  Stocked'
<1> SUFFICES ASSUME NEW o \in Options
             PROVE  balance'[o] >= SumFunctionOnSet(WriteAmounts, Unsold(o))'
    BY DEF Stocked
<1> DEFINE U == Unsold(o)
<1>1. \A i \in DOMAIN writes : i \in DOMAIN writes' /\ writes'[i].req = writes[i].req
    BY WritesGrow
<1>2. U' = U
    BY <1>1 DEF Unsold, Mined
<1>3. /\ IsFiniteSet(U) /\ U \subseteq DOMAIN writes
      /\ \A i \in U : WriteAmounts[i] \in Nat /\ WriteAmounts[i] = writes[i].req.amount
    BY UnsoldFinite
<1>4. \A i \in DOMAIN writes' : WriteAmounts'[i] = writes'[i].req.amount
    BY DEF WriteAmounts
<1>5. \A i \in U : WriteAmounts[i] \in Nat /\ WriteAmounts'[i] = WriteAmounts[i]
    BY <1>1, <1>3, <1>4
<1> HIDE DEF U
<1>6. SumFunctionOnSet(WriteAmounts, U) = SumFunctionOnSet(WriteAmounts', U)
    BY <1>3, <1>5, SumSame
<1>7. SumFunctionOnSet(WriteAmounts, U) \in Nat
    BY <1>3, <1>5, SumType
<1>8. balance[o] >= SumFunctionOnSet(WriteAmounts, U)
    BY DEF Stocked, U
<1>9. balance[o] \in Nat /\ balance'[o] \in Nat
    BY DEF TypeInv, TypeOK, LedgerOK
<1>10. SumFunctionOnSet(WriteAmounts, Unsold(o))' = SumFunctionOnSet(WriteAmounts', U')
    BY DEF U
<1> QED
    BY <1>2, <1>6, <1>7, <1>8, <1>9, <1>10

\* A lot that is mined is paid into the balance.
LEMMA StockMined ==
    ASSUME DeskInv, Stocked, NEW i \in DOMAIN writes, Mine(i)
    PROVE  Stocked'
<1> SUFFICES ASSUME NEW o \in Options
             PROVE  balance'[o] >= SumFunctionOnSet(WriteAmounts, Unsold(o))'
    BY DEF Stocked
<1>0. TypeInv /\ OfferHasOwnLot
    BY DEF DeskInv, LotInv
<1>1. writes[i] \in Writes /\ writes[i].status = "pending"
    BY <1>0, LenProperties, ElementOfSeq DEF TypeInv, TypeOK, LedgerOK, Mine
<1>2. /\ DOMAIN writes' = DOMAIN writes
      /\ \A j \in DOMAIN writes : writes'[j].req = writes[j].req
      /\ Mined' = Mined \cup {i} /\ i \notin Mined
    BY <1>1 DEF Mine, Mined, Writes
<1>3. UNCHANGED <<signed, filled>>
    BY DEF Mine
<1>4. Sold' = Sold /\ i \notin Sold
    BY <1>0, <1>2, <1>3, LotSets DEF Sold, BuyOrders
<1> DEFINE U == Unsold(o)
           S == SumFunctionOnSet(WriteAmounts, U)
           n == writes[i].req.amount
<1>5. /\ IsFiniteSet(U) /\ U \subseteq DOMAIN writes
      /\ \A j \in DOMAIN writes : WriteAmounts[j] \in Nat /\ WriteAmounts[j] = writes[j].req.amount
    BY <1>0, UnsoldFinite
<1>6. WriteAmounts' = WriteAmounts
    BY <1>2 DEF WriteAmounts
<1>7. i \notin U /\ U' = IF writes[i].req.option = o THEN U \cup {i} ELSE U
    BY <1>2, <1>4 DEF Unsold, Mined
<1>8. balance[o] \in Nat /\ balance \in [Options -> Nat]
    BY <1>0 DEF TypeInv, TypeOK, LedgerOK
<1>9. balance'[o] = IF writes[i].req.option = o THEN balance[o] + n ELSE balance[o]
    BY <1>8 DEF Mine
<1>10. balance[o] >= S
    BY DEF Stocked
<1> HIDE DEF U
<1>11. S \in Nat
    BY <1>5, SumType
<1>12. SumFunctionOnSet(WriteAmounts, U \cup {i}) = WriteAmounts[i] + S
    BY <1>5, <1>7, SumAdd
<1>13. WriteAmounts[i] = n /\ n \in Nat
    BY <1>5
<1>14. SumFunctionOnSet(WriteAmounts, Unsold(o))' = SumFunctionOnSet(WriteAmounts, U')
    BY <1>6 DEF U
<1> HIDE DEF n, S
<1>15. CASE writes[i].req.option = o
    BY <1>7, <1>8, <1>9, <1>10, <1>11, <1>12, <1>13, <1>14, <1>15
<1>16. CASE writes[i].req.option # o
    BY <1>7, <1>9, <1>10, <1>14, <1>16 DEF S
<1> QED
    BY <1>15, <1>16

\* A fill takes the lot of its order, or adds to the balance.
LEMMA StockFilled ==
    ASSUME DeskInv, Stocked, NEW k \in published, Fill(k)
    PROVE  Stocked'
<1> SUFFICES ASSUME NEW o \in Options
             PROVE  balance'[o] >= SumFunctionOnSet(WriteAmounts, Unsold(o))'
    BY DEF Stocked
<1>0. TypeInv /\ OfferHasOwnLot /\ signed \in Seq(Orders)
    BY DEF DeskInv, LotInv, TypeInv, TypeOK, LedgerOK
<1>1. k \in DOMAIN signed /\ k \notin filled /\ filled' = filled \cup {k}
    BY <1>0 DEF Fill, Live, TypeInv, References
<1>2. UNCHANGED <<signed, writes, BuyOrders, Mined, WriteAmounts>>
    BY DEF Fill, BuyOrders, Mined, WriteAmounts
<1> DEFINE U == Unsold(o)
           S == SumFunctionOnSet(WriteAmounts, U)
           r == signed[k].req
<1>3. /\ IsFiniteSet(U) /\ U \subseteq DOMAIN writes
      /\ \A j \in DOMAIN writes : WriteAmounts[j] \in Nat /\ WriteAmounts[j] = writes[j].req.amount
    BY <1>0, UnsoldFinite
<1>4. /\ r.amount \in Nat
      /\ balance \in [Options -> Nat] /\ balance[o] \in Nat
  <2>1. signed[k] \in Orders
      BY <1>0, <1>1, LenProperties, ElementOfSeq
  <2>2. r \in Requests
      BY <2>1 DEF Orders
  <2>3. r.amount \in Nat
      BY <2>2, RequestAssumption
  <2> QED
      BY <1>0, <2>3 DEF TypeInv, TypeOK, LedgerOK
<1>5. balance[o] >= S
    BY DEF Stocked
<1>6. SumFunctionOnSet(WriteAmounts, Unsold(o))' = SumFunctionOnSet(WriteAmounts, U')
    BY <1>2 DEF U
<1>7. S \in Nat
    <2> HIDE DEF U
    <2> QED
        BY <1>3, SumType
<1>8. CASE k \notin BuyOrders
  <2>1. Sold' = Sold
      BY <1>1, <1>2, <1>8 DEF Sold
  <2>2. U' = U
      BY <1>2, <2>1 DEF Unsold
  <2>3. r.action # "Buy"
      BY <1>1, <1>8 DEF BuyOrders
  <2>4. balance'[o] = IF r.option = o THEN balance[o] + r.amount ELSE balance[o]
      BY <1>4, <2>3 DEF Fill
  <2>5. balance'[o] \in Nat /\ balance'[o] >= balance[o]
    <3> HIDE DEF r
    <3> QED
        BY <1>4, <2>4
  <2> HIDE DEF U
  <2> QED
      BY <1>4, <1>5, <1>6, <1>7, <2>2, <2>4, <2>5
<1>9. CASE k \in BuyOrders
  <2> DEFINE l == signed[k].lot
  <2>1. Sold' = Sold \cup {l} /\ l \in Mined \ Sold
      BY <1>0, <1>1, <1>2, <1>9, LotSets DEF Sold
  <2>2. l \in DOMAIN writes /\ writes[l].req = r
      BY <1>0, <1>9, LotOfOrder
  <2>3. U' = U \ {l} /\ (l \in U <=> r.option = o)
      BY <1>2, <2>1, <2>2 DEF Unsold
  <2>4. r.action = "Buy" /\ balance[r.option] >= r.amount
      BY <1>9 DEF BuyOrders, Fill, Holds
  <2>5. balance'[o] = IF r.option = o THEN balance[o] - r.amount ELSE balance[o]
      BY <1>4, <2>4 DEF Fill
  <2>6. WriteAmounts[l] = r.amount
      BY <1>3, <2>2
  <2> HIDE DEF U, l
  <2>7. CASE r.option = o
    <3>1. S = WriteAmounts[l] + SumFunctionOnSet(WriteAmounts, U \ {l})
        BY <1>3, <2>3, <2>7, SumRemove
    <3>2. IsFiniteSet(U \ {l}) /\ \A j \in U \ {l} : WriteAmounts[j] \in Nat
        BY <1>3, FS_Subset
    <3>3. SumFunctionOnSet(WriteAmounts, U \ {l}) \in Nat
        BY <3>2, SumType
    <3> QED
        BY <1>4, <1>5, <1>6, <2>3, <2>5, <2>6, <2>7, <3>1, <3>3
  <2>8. CASE r.option # o
    <3>1. U' = U
        BY <2>3, <2>8
    <3> QED
        BY <1>5, <1>6, <2>5, <2>8, <3>1
  <2> QED
      BY <2>7, <2>8
<1> QED
    BY <1>8, <1>9

LEMMA StockNext == DeskInv /\ DeskInv' /\ Stocked /\ [Next]_vars => Stocked'
<1> SUFFICES ASSUME DeskInv, DeskInv', Stocked, [Next]_vars PROVE Stocked'
    OBVIOUS
<1>0. TypeInv /\ LotInv /\ FilledSigned /\ TypeInv' /\ balance \in [Options -> Nat]
    BY DEF DeskInv, TypeInv, TypeOK, LedgerOK
<1>1. ASSUME UNCHANGED <<balance, Mined, Sold>> PROVE Stocked'
    BY <1>0, <1>1, StockStays
<1>2. ASSUME UNCHANGED <<signed, filled>> PROVE Sold' = Sold
    BY <1>2 DEF Sold, BuyOrders
<1>3. CASE UNCHANGED <<signed, filled, writes, balance>>
    BY <1>1, <1>2, <1>3 DEF Mined
<1>4. CASE (SendWrite \/ SendWriteFails) /\ writes' = Append(writes, Write(cur))
  <2>1. Write(cur) \in Writes /\ writes \in Seq(Writes)
      BY <1>0, <1>4 DEF SendWrite, SendWriteFails, Writing, TypeInv, TypeOK, LedgerOK,
         InHandler, Write, Writes
  <2>2. Mined' = Mined
    <3>1. /\ DOMAIN writes' = DOMAIN writes \cup {Len(writes) + 1}
          /\ writes'[Len(writes) + 1] = Write(cur)
          /\ \A i \in DOMAIN writes : writes'[i] = writes[i]
          /\ Len(writes) + 1 \notin DOMAIN writes
        BY <1>4, <2>1, AppendProperties, LenProperties
    <3>2. QED
        BY <3>1 DEF Mined, Write
  <2>3. QED
      BY <1>1, <1>2, <1>4, <2>2 DEF SendWrite, SendWriteFails
<1>5. ASSUME NEW i \in DOMAIN writes, Revert(i) PROVE Stocked'
  <2>1. writes[i] \in Writes /\ writes[i].status = "pending"
      BY <1>0, <1>5, LenProperties, ElementOfSeq DEF TypeInv, TypeOK, LedgerOK, Revert
  <2>2. Mined' = Mined
      BY <1>5, <2>1 DEF Revert, Mined, Writes
  <2>3. QED
      BY <1>1, <1>2, <1>5, <2>2 DEF Revert
<1>6. CASE SignOrder
  <2>1. UNCHANGED <<writes, filled, balance>>
      BY <1>6 DEF SignOrder, chainVars
  <2>2. \A i \in DOMAIN signed : i \in DOMAIN signed' /\ signed'[i] = signed[i]
      BY <1>0, SignedGrows
  <2>3. BuyOrders' \cap filled = BuyOrders \cap filled
      BY <1>0, <2>2 DEF BuyOrders, FilledSigned
  <2>4. Sold' = Sold
      BY <2>1, <2>2, <2>3 DEF Sold, BuyOrders
  <2> QED
      BY <1>1, <2>1, <2>4 DEF Mined
<1> QED
    BY <1>3, <1>4, <1>5, <1>6, StockMined, StockFilled
    DEF Next, Pick, Handle, External, Ignore, Decline, TakeBuy, TakeSell, TakeSoftQuote,
        AmountPanics, SendWrite, SendWriteFails, ReceiptOfWrite, ReceiptOfRevert,
        ReceiptMissing, AwaitsReceipt, BuildOffer, BuildQuote, Send, RunReturns, Reconnects,
        SessionExpires, Deliver, Transmit, Tick, chainVars, vars

\* What the unfilled offers promise is in the lots that are not sold: to each its
\* own.
LEMMA StockCoversOffers == DeskInv /\ Stocked => OffersAreCovered
<1> SUFFICES ASSUME DeskInv, Stocked, NEW o \in Options
             PROVE  balance[o] >= SumFunctionOnSet(Amounts, Outstanding(o))
    BY DEF OffersAreCovered
<1>0. TypeInv /\ OfferHasOwnLot /\ signed \in Seq(Orders) /\ balance[o] \in Nat
    BY DEF DeskInv, LotInv, TypeInv, TypeOK, LedgerOK
<1> DEFINE A == Outstanding(o)
           U == Unsold(o)
           j == [i \in A |-> signed[i].lot]
<1>1. /\ Len(signed) \in Nat /\ DOMAIN signed = 1..Len(signed)
      /\ A \subseteq DOMAIN signed
    BY <1>0, LenProperties DEF Outstanding, BuyOrders
<1>2. IsFiniteSet(A)
  <2>1. IsFiniteSet(DOMAIN signed)
      BY <1>1, FS_Interval
  <2> QED
      BY <1>1, <2>1, FS_Subset
<1>3. ASSUME NEW i \in A PROVE Amounts[i] = signed[i].req.amount /\ Amounts[i] \in Nat
  <2>1. i \in DOMAIN signed
      BY <1>1
  <2>2. signed[i] \in Orders
      BY <1>0, <1>1, <2>1, ElementOfSeq
  <2>3. signed[i].req.amount \in Nat
      BY <2>2, RequestAssumption DEF Orders
  <2> QED
      BY <2>1, <2>3 DEF Amounts
<1>4. /\ IsFiniteSet(U) /\ U \subseteq DOMAIN writes
      /\ \A i \in DOMAIN writes : WriteAmounts[i] \in Nat /\ WriteAmounts[i] = writes[i].req.amount
    BY <1>0, UnsoldFinite
<1>5. ASSUME NEW i \in A
      PROVE  /\ signed[i].lot \in U
             /\ WriteAmounts[signed[i].lot] = Amounts[i]
  <2>1. i \in BuyOrders \ filled /\ signed[i].req.option = o
      BY <1>5 DEF Outstanding
  <2>2. signed[i].lot \in Mined \ Sold
      BY <1>0, <2>1, LotSets
  <2>3. writes[signed[i].lot].req = signed[i].req /\ signed[i].lot \in DOMAIN writes
      BY <1>0, <2>1, LotOfOrder
  <2>4. signed[i].lot \in U
      BY <2>1, <2>2, <2>3 DEF Unsold
  <2>5. Amounts[i] = signed[i].req.amount
      BY <1>3, <1>5
  <2>6. WriteAmounts[signed[i].lot] = writes[signed[i].lot].req.amount
      BY <1>4, <2>3
  <2> HIDE DEF U
  <2> QED
      BY <2>3, <2>4, <2>5, <2>6
<1>6. \A x, y \in A : signed[x].lot = signed[y].lot => x = y
    BY <1>0 DEF OfferHasOwnLot, Outstanding
<1>7. balance[o] >= SumFunctionOnSet(WriteAmounts, U)
    BY DEF Stocked
<1> HIDE DEF A, U
<1>8. j \in [A -> U] /\ \A x, y \in A : j[x] = j[y] => x = y
    BY <1>5, <1>6
<1>9. \A x \in A : j[x] \in U /\ Amounts[x] \in Nat /\ Amounts[x] <= WriteAmounts[j[x]]
    BY <1>3, <1>5
<1>10. \A y \in U : WriteAmounts[y] \in Nat
    BY <1>4
<1> HIDE DEF j
<1>11. SumFunctionOnSet(Amounts, A) <= SumFunctionOnSet(WriteAmounts, U)
    BY <1>2, <1>4, <1>8, <1>9, <1>10, SumInjection
<1>12. SumFunctionOnSet(Amounts, A) \in Nat /\ SumFunctionOnSet(WriteAmounts, U) \in Nat
    BY <1>2, <1>3, <1>4, SumType
<1> QED
    BY <1>0, <1>7, <1>11, <1>12 DEF A

\* Whatever fails, and in whatever order writes are mined and orders filled, the
\* maker holds enough of every option type for all the orders over it that are
\* still to be filled: it writes what it offers for each order anew, and sells
\* only what an order of its own offers (write_option with sign_order).
THEOREM OffersStayCovered == Spec => []OffersAreCovered
<1>1. Init => DeskInv /\ SessionInv
    BY TypeInit, SessionInitInv
    DEF Init, DeskInv, LotInv, OfferHasOwnLot, BuyOrders, FilledSigned
<1>2. Init => Stocked
  <2> SUFFICES ASSUME Init, NEW o \in Options
               PROVE  balance[o] >= SumFunctionOnSet(WriteAmounts, Unsold(o))
      BY DEF Stocked
  <2>1. Unsold(o) = {}
      BY DEF Init, Unsold, Mined
  <2>2. SumFunctionOnSet(WriteAmounts, {}) = 0
      BY SumEmpty
  <2> QED
      BY <2>1, <2>2 DEF Init
<1>3. DeskInv /\ SessionInv /\ Stocked /\ [Next]_vars => DeskInv' /\ SessionInv' /\ Stocked'
    BY TypeNext, StepOfSession, SessionNextInv, LotNext, FilledNext, StockNext DEF DeskInv
<1> QED
    BY <1>1, <1>2, <1>3, StockCoversOffers, PTL DEF Spec
=============================================================================
