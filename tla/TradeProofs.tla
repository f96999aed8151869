----------------------------- MODULE TradeProofs -----------------------------
(* Proofs about the trade of one taker with one maker: each is, with the     *)
(* other in the place of its environment, the program it was modelled as     *)
(* alone, so that what is proved of each alone holds of the two together.    *)
(* Then what only the two together do: the taker goes on to sell once it has *)
(* bought, what it reports was bought, and all they do is an exchange.       *)
EXTENDS Trade, MakerCommitmentProofs, FiniteSetTheorems

-----------------------------------------------------------------------------
(* Where a request is.                                                     *)

\* The requests of a stream that the maker has and may still answer, and those its
\* answers to are on their way.
Held(s) == Waiting(s) \cup (IF at # "select" /\ branch = s THEN {cur} ELSE {})

Coming(s) == {outq[s][j].ulid : j \in DOMAIN outq[s]}

MakerQuiet ==
    /\ UNCHANGED <<outq, routed, published>>
    /\ \A s \in Streams : Held(s)' \subseteq Held(s)

MakerSends ==
    /\ at = "send"
    /\ outq' = [outq EXCEPT ![branch] = Append(@, reply)]
    /\ UNCHANGED <<routed, published>>
    /\ \A s \in Streams : Held(s)' \subseteq Held(s)
    /\ \A s \in Streams : s = branch => cur \notin Held(s)'

MakerDrops ==
    /\ UNCHANGED <<routed, published>>
    /\ \A s \in Streams : Held(s)' = {} /\ outq'[s] = <<>>

\* Whatever a maker does of its own accord, it takes up nothing that it was not
\* asked, and what it answers it has no more.
LEMMA MakerKinds ==
    ASSUME TypeInv, OnePlace,
           \/ Pick \/ Handle \/ Reconnects \/ SessionExpires \/ Tick
           \/ \E i \in DOMAIN writes : Mine(i) \/ Revert(i)
           \/ \E i \in published : Fill(i)
           \/ UNCHANGED vars
    PROVE  MakerQuiet \/ MakerSends \/ MakerDrops
<1>0. ChannelsOK /\ LocalsOK
    BY DEF TypeInv, TypeOK
<1>1. ASSUME UNCHANGED <<outq, routed, published, inq>>,
             at' = "select" \/ (at # "select" /\ UNCHANGED <<branch, cur>>)
      PROVE  MakerQuiet
    BY <1>1 DEF MakerQuiet, Held, Waiting
<1>2. ASSUME UNCHANGED <<outq, routed, published, inq, at, branch, cur>> PROVE MakerQuiet
    BY <1>2 DEF MakerQuiet, Held, Waiting
<1>3. ASSUME DropRun, UNCHANGED <<routed, published>> PROVE MakerDrops
    BY <1>3 DEF DropRun, BackToSelect, Empty, MakerDrops, Held, Waiting, Streams
<1>4. CASE Pick
  <2>1. UNCHANGED <<outq, routed, published>>
      BY <1>4 DEF Pick, Ignore, Decline, TakeBuy, TakeSell, TakeSoftQuote, relayVars
  <2>2. PICK s \in Streams :
            /\ Reads(s)
            /\ \/ UNCHANGED <<at, branch, cur>>
               \/ branch' = s /\ cur' = Head(inq[s]) /\ at' # "select"
      BY <1>4, PickTakesOne
  <2>3. /\ Head(inq[s]) \in Waiting(s)
        /\ Waiting(s)' = Waiting(s) \ {Head(inq[s])}
        /\ \A t \in Streams \ {s} : Waiting(t)' = Waiting(t)
      BY <1>0, <2>2, ReadTakesOne DEF Waiting
  <2>4. at = "select"
      BY <2>2 DEF Reads
  <2> QED
      BY <2>1, <2>2, <2>3, <2>4 DEF MakerQuiet, Held
<1>5. CASE Send
  <2>1. /\ at = "send" /\ at' = "select" /\ UNCHANGED <<inq, routed, published>>
        /\ outq' = [outq EXCEPT ![branch] = Append(@, reply)]
      BY <1>5 DEF Send, BackToSelect, relayVars
  <2>2. cur \notin Waiting(branch)
      BY <2>1 DEF OnePlace
  <2> QED
      BY <2>1, <2>2 DEF MakerSends, Held, Waiting
<1>6. CASE AmountPanics \/ RunReturns
    BY <1>3, <1>6 DEF AmountPanics, RunReturns, relayVars
<1>7. CASE Handle
    BY <1>1, <1>5, <1>6, <1>7
    DEF Handle, SendWrite, SendWriteFails, Writing, ReceiptOfWrite, ReceiptOfRevert,
        ReceiptMissing, AwaitsReceipt, SignOrder, BuildOffer, BuildQuote, Answer, channels,
        relayVars
<1>8. CASE Reconnects
    BY <1>2, <1>3, <1>8 DEF Reconnects, locals, channels, relayVars
<1>9. CASE ~Pick /\ ~Handle /\ ~Reconnects
    BY <1>2, <1>9 DEF SessionExpires, Tick, Mine, Revert, Fill, vars, locals, channels, relayVars
<1> QED
    BY <1>4, <1>7, <1>8, <1>9

-----------------------------------------------------------------------------
(* What the taker does of its own accord.                                  *)

TradeTypes ==
    /\ asked \in Seq({"Buy", "Sell"})
    /\ inbox \in Seq([rfq : Nat, offer : BOOLEAN])
    /\ softAsked \in Nat
    /\ declines \in Nat
    /\ received \in [1..MaxAsks -> Nat]

Asks == \E a \in {"Buy", "Sell"} :
            /\ asked' = Append(asked, a)
            /\ unanswered' = unanswered \cup {<<"maker", Len(asked) + 1>>}

\* A taker asks, reads an answer or does neither, and answers nothing itself.
TakerMoves ==
    /\ Asks \/ UNCHANGED <<asked, unanswered>>
    /\ UNCHANGED inbox \/ (inbox # <<>> /\ inbox' = Tail(inbox))
    /\ softAsked' \in {softAsked, softAsked + 1}
    /\ UNCHANGED declines
    /\ tpc' = "fulfil" =>
          inbox # <<>> /\ Head(inbox).offer /\ order' = Head(inbox).rfq
    /\ tpc' \in {"settle", "check"} =>
          tpc \in {"fulfil", "settle", "check"} /\ UNCHANGED <<order, asked>>

LEMMA TakerKinds ==
    ASSUME TradeTypes, T!Step \/ T!Fails \/ T!Ended
    PROVE  TakerMoves
<1>0. Len(asked) \in Nat /\ Len(Append(asked, "Buy")) = Len(asked) + 1
      /\ Len(Append(asked, "Sell")) = Len(asked) + 1
    BY LenProperties, AppendProperties DEF TradeTypes
<1>1. ASSUME NEW a \in {"Buy", "Sell"}, T!Ask(a) PROVE Asks
    BY <1>0, <1>1 DEF T!Ask, Asks
<1>2. T!Cardinality({"maker"}) = 1
  <2>1. T!Cardinality({"maker"}) = Cardinality({"maker"})
      BY DEF T!Cardinality, Cardinality
  <2> QED
      BY <2>1, FS_Singleton
<1>3. CASE T!AskSoft
    BY <1>2, <1>3 DEF T!AskSoft, T!rfqVars, TakerMoves
<1>4. CASE T!AskBuy \/ T!ReadDecline \/ T!CheckBought
    BY <1>1, <1>4 DEF T!AskBuy, T!ReadDecline, T!CheckBought, T!softVars, TakerMoves
<1>5. CASE T!ReadOffer \/ T!FulfillOrder \/ T!Settle \/ T!ReadSoft \/ T!Setup \/ T!SetupOption
    BY <1>5 DEF T!ReadOffer, T!FulfillOrder, T!Settle, T!ReadSoft, T!Setup, T!SetupOption,
                T!softVars, T!rfqVars, TakerMoves
<1>6. CASE T!CheckSold \/ T!AssertionFails \/ T!Fails \/ T!Ended
    BY <1>6 DEF T!CheckSold, T!AssertionFails, T!Fails, T!Ended, T!softVars, T!rfqVars, T!vars,
                TakerMoves
<1> QED
    BY <1>3, <1>4, <1>5, <1>6 DEF T!Step

-----------------------------------------------------------------------------
(* The invariant of the trade.                                             *)

Asked(k) == k \in 1..MaxAsks /\ k \in DOMAIN asked

Unanswered(k) == <<"maker", k>> \in unanswered

\* The relay has carried nothing but what the taker asked.
RoutedInv ==
    /\ \A r \in routed["rfq"] : Asked(r.ulid) /\ r = QuoteRequest(r.ulid, asked[r.ulid])
    /\ routed["soft"] \subseteq {SoftQuote}

\* A request that the maker holds, or whose answer is on its way, is still to be
\* answered, and has but one of these two places; one that was answered was carried.
PendingInv ==
    /\ \A r \in Held("rfq") : Unanswered(r.ulid) /\ r.ulid \notin Coming("rfq")
    /\ \A u \in Coming("rfq") : Unanswered(u) /\ \E r \in routed["rfq"] : r.ulid = u
    /\ \A i, j \in DOMAIN outq["rfq"] : outq["rfq"][i].ulid = outq["rfq"][j].ulid => i = j
    /\ \A k \in DOMAIN asked : ~Unanswered(k) => \E r \in routed["rfq"] : r.ulid = k

\* The same of the Soft Quote, which is always quoted.
SoftInv ==
    /\ Held("soft") # {} => softAsked > 0 /\ outq["soft"] = <<>>
    /\ outq["soft"] # <<>> =>
          /\ softAsked > 0 /\ routed["soft"] # {}
          /\ Len(outq["soft"]) = 1 /\ outq["soft"][1].kind = "quote"

\* The order numbered i is signed for the RFQ u.
SignedFor(u, i) == Asked(u) /\ i \in DOMAIN signed /\ signed[i].req = QuoteRequest(u, asked[u])

\* On its way, in the inbox or in hand, an offer is the order signed for what it
\* answers.
OffersInv ==
    /\ \A j \in DOMAIN outq["rfq"] :
          outq["rfq"][j].kind = "offer" => SignedFor(outq["rfq"][j].ulid, outq["rfq"][j].order)
    /\ \A j \in DOMAIN inbox :
          inbox[j].offer => /\ SignedFor(inbox[j].rfq, received[inbox[j].rfq])
                            /\ received[inbox[j].rfq] \in published
    /\ tpc \in {"fulfil", "settle", "check"} =>
          SignedFor(order, received[order]) /\ received[order] \in published

\* Every decline was the answer to an RFQ of its own.
Answered == {k \in 1..MaxAsks : Asked(k) /\ ~Unanswered(k)}

CountInv == declines <= Cardinality(Answered)

TradeInv ==
    /\ TypeInv /\ CommitmentInv /\ AnswerInv
    /\ TradeTypes /\ RoutedInv /\ PendingInv /\ SoftInv /\ OffersInv /\ CountInv

\* The steps of the trade by what they do to the requests and the answers.
MakerKind == (MakerQuiet \/ MakerSends \/ MakerDrops) /\ UNCHANGED <<takerVars, received>>

TakerKind ==
    /\ TakerMoves
    /\ UNCHANGED <<outq, inq, at, branch, cur, routed, published, signed, received>>

LEMMA TradeKinds ==
    ASSUME TradeInv, [TradeNext]_tradeVars
    PROVE  MakerKind \/ TakerKind \/ CarryRfq \/ CarrySoft \/ ReturnRfq \/ ReturnSoft
<1>0. TypeInv /\ OnePlace /\ TradeTypes /\ OffersInv
    BY DEF TradeInv, CommitmentInv
<1>1. CASE MakerAlone
    BY <1>0, <1>1, MakerKinds DEF MakerAlone, MakerKind
<1>2. CASE TakerAlone
    BY <1>0, <1>2, TakerKinds DEF TakerAlone, TakerKind, vars, locals, channels, relayVars
<1>3. CASE SettleTrade
  <2>1. TakerMoves
      BY <1>0, <1>3, TakerKinds DEF SettleTrade, T!Step
  <2>2. UNCHANGED <<outq, inq, at, branch, cur, routed, published, signed, received>>
      BY <1>3 DEF SettleTrade, Fill, vars, locals, channels, relayVars
  <2> QED
      BY <2>1, <2>2 DEF TakerKind
<1>4. CASE UNCHANGED tradeVars
    BY <1>0, <1>4, MakerKinds DEF tradeVars, MakerKind
<1> QED
    BY <1>1, <1>2, <1>3, <1>4 DEF TradeNext

\* A step of the trade is a step of the maker, or leaves it alone.
LEMMA MakerStepped == TradeInv /\ [TradeNext]_tradeVars => [Next]_vars
<1> SUFFICES ASSUME TradeInv, [TradeNext]_tradeVars PROVE [Next]_vars
    OBVIOUS
<1>1. CASE MakerAlone
    BY <1>1 DEF MakerAlone, Next, External
<1>2. CASE TakerAlone
    BY <1>2 DEF TakerAlone
<1>3. CASE CarryRfq
  <2>1. PICK k \in DOMAIN asked : k <= MaxAsks /\ Deliver("rfq", QuoteRequest(k, asked[k]))
      BY <1>3 DEF CarryRfq
  <2>2. asked[k] \in {"Buy", "Sell"} /\ k \in 1..MaxAsks
      BY <2>1, ElementOfSeq, LenProperties, TradeAssumption DEF TradeInv, TradeTypes
  <2>3. QuoteRequest(k, asked[k]) \in Requests
      BY <2>2, TradeAssumption DEF TakerRequests
  <2> QED
      BY <2>1, <2>3 DEF Next, External, Streams
<1>4. CASE CarrySoft
  <2>1. SoftQuote \in Requests
      BY TradeAssumption DEF TakerRequests
  <2> QED
      BY <1>4, <2>1 DEF CarrySoft, Next, External, Streams
<1>5. CASE ReturnRfq \/ ReturnSoft
    BY <1>5 DEF ReturnRfq, ReturnSoft, Next, External, Streams
<1>6. CASE SettleTrade
  <2>1. tpc = "settle" /\ \/ UNCHANGED vars
                          \/ Fill(received[order])
      BY <1>6 DEF SettleTrade, T!Settle
  <2>2. received[order] \in published
      BY <2>1 DEF TradeInv, OffersInv
  <2> QED
      BY <2>1, <2>2 DEF Next, External
<1>7. CASE UNCHANGED tradeVars
    BY <1>7 DEF tradeVars
<1> QED
    BY <1>1, <1>2, <1>3, <1>4, <1>5, <1>6, <1>7 DEF TradeNext

-----------------------------------------------------------------------------
(* Each part of the invariant is kept.                                     *)

\* What the maker holds was carried to it.
LEMMA HeldRouted == OnePlace => \A s \in Streams : Held(s) \subseteq routed[s]
BY DEF OnePlace, Held

\* An RFQ that was asked stays as it was asked.
LEMMA AskedStays ==
    ASSUME TradeTypes, Asks \/ UNCHANGED asked
    PROVE  /\ \A k \in DOMAIN asked : k \in DOMAIN asked' /\ asked'[k] = asked[k]
           /\ \A k \in DOMAIN asked' \ DOMAIN asked : Asks /\ k = Len(asked) + 1
<1>1. asked \in Seq({"Buy", "Sell"})
    BY DEF TradeTypes
<1>2. CASE UNCHANGED asked
    BY <1>2
<1>3. CASE Asks
    BY <1>1, <1>3, Pushed DEF Asks
<1> QED
    BY <1>2, <1>3

\* The first answer of a stream, if it is an answer to an RFQ that was asked.
LEMMA FirstAnswer ==
    ASSUME TradeInv, NEW s \in Streams, outq[s] # <<>>
    PROVE  /\ Head(outq[s]) = outq[s][1] /\ 1 \in DOMAIN outq[s]
           /\ Head(outq[s]).order \in Nat
           /\ s = "rfq" => /\ Head(outq[s]).ulid \in Coming("rfq")
                           /\ Asked(Head(outq[s]).ulid) /\ Unanswered(Head(outq[s]).ulid)
<1>1. outq[s] \in Seq(Replies)
    BY DEF TradeInv, TypeInv, TypeOK, ChannelsOK
<1>2. Head(outq[s]) = outq[s][1] /\ 1 \in DOMAIN outq[s] /\ Head(outq[s]) \in Replies
    BY <1>1, Popped
<1>3. Head(outq[s]).order \in Nat
    BY <1>2 DEF Replies
<1>4. ASSUME s = "rfq"
      PROVE  /\ Head(outq[s]).ulid \in Coming("rfq")
             /\ Asked(Head(outq[s]).ulid) /\ Unanswered(Head(outq[s]).ulid)
    BY <1>2, <1>4 DEF Coming, TradeInv, PendingInv, RoutedInv
<1> QED
    BY <1>2, <1>3, <1>4

LEMMA TradeTypesNext == TradeInv /\ [TradeNext]_tradeVars => TradeTypes'
<1> SUFFICES ASSUME TradeInv, [TradeNext]_tradeVars PROVE TradeTypes'
    OBVIOUS
<1>0. TradeTypes /\ MaxAsks \in Nat
    BY TradeAssumption DEF TradeInv
<1>1. CASE MakerKind \/ CarryRfq \/ CarrySoft
    BY <1>0, <1>1 DEF MakerKind, CarryRfq, CarrySoft, takerVars, TradeTypes
<1>2. CASE TakerKind
  <2>1. asked' \in Seq({"Buy", "Sell"})
    <3>1. ASSUME NEW a \in {"Buy", "Sell"} PROVE Append(asked, a) \in Seq({"Buy", "Sell"})
        BY <1>0, AppendProperties DEF TradeTypes
    <3>2. CASE Asks
        BY <3>1, <3>2 DEF Asks
    <3> QED
        BY <1>0, <1>2, <3>2 DEF TakerKind, TakerMoves, TradeTypes
  <2>2. inbox' \in Seq([rfq : Nat, offer : BOOLEAN])
      BY <1>0, <1>2, Popped DEF TakerKind, TakerMoves, TradeTypes
  <2>3. softAsked' \in Nat /\ declines' \in Nat /\ received' \in [1..MaxAsks -> Nat]
      BY <1>0, <1>2 DEF TakerKind, TakerMoves, TradeTypes
  <2> QED
      BY <2>1, <2>2, <2>3 DEF TradeTypes
<1>3. CASE ReturnRfq
  <2> DEFINE answer == Head(outq["rfq"])
             offer == answer.kind = "offer"
  <2>1. outq["rfq"] # <<>>
      BY <1>3 DEF ReturnRfq, Transmit
  <2>2. answer.ulid \in 1..MaxAsks /\ answer.order \in Nat
      BY <2>1, FirstAnswer DEF Asked, Streams
  <2>3. [rfq |-> answer.ulid, offer |-> offer] \in [rfq : Nat, offer : BOOLEAN]
      BY <1>0, <2>2
  <2>4. /\ inbox' = Append(inbox, [rfq |-> answer.ulid, offer |-> offer])
        /\ declines' = IF offer THEN declines ELSE declines + 1
        /\ received' = IF offer THEN [received EXCEPT ![answer.ulid] = answer.order]
                       ELSE received
        /\ UNCHANGED <<asked, softAsked>>
      BY <1>3 DEF ReturnRfq
  <2> HIDE DEF answer, offer
  <2>5. inbox' \in Seq([rfq : Nat, offer : BOOLEAN])
      BY <1>0, <2>3, <2>4, Pushed DEF TradeTypes
  <2>6. declines' \in Nat /\ received' \in [1..MaxAsks -> Nat]
      BY <1>0, <2>2, <2>4 DEF TradeTypes
  <2> QED
      BY <1>0, <2>4, <2>5, <2>6 DEF TradeTypes
<1>4. CASE ReturnSoft
  <2>1. softAsked > 0
      BY <1>4 DEF ReturnSoft, Transmit, TradeInv, SoftInv
  <2>2. UNCHANGED <<asked, inbox, received>> /\ softAsked' = softAsked - 1
        /\ declines' \in {declines, declines + 1}
      BY <1>4 DEF ReturnSoft
  <2> QED
      BY <1>0, <2>1, <2>2 DEF TradeTypes
<1> QED
    BY <1>1, <1>2, <1>3, <1>4, TradeKinds

LEMMA RoutedNext == TradeInv /\ [TradeNext]_tradeVars => RoutedInv'
<1> SUFFICES ASSUME TradeInv, [TradeNext]_tradeVars PROVE RoutedInv'
    OBVIOUS
<1>0. /\ TradeTypes /\ RoutedInv
      /\ routed \in [Streams -> SUBSET Requests]
    BY DEF TradeInv, TypeInv, TypeOK, LedgerOK
<1>1. ASSUME UNCHANGED routed, Asks \/ UNCHANGED asked PROVE RoutedInv'
  <2>1. \A k : Asked(k) => Asked(k)' /\ asked'[k] = asked[k]
      BY <1>0, <1>1, AskedStays DEF Asked
  <2> QED
      BY <1>0, <1>1, <2>1 DEF RoutedInv, QuoteRequest
<1>2. CASE MakerKind \/ TakerKind \/ ReturnRfq \/ ReturnSoft
    BY <1>1, <1>2 DEF MakerKind, MakerQuiet, MakerSends, MakerDrops, TakerKind, TakerMoves,
                      ReturnRfq, ReturnSoft, Transmit, takerVars
<1>3. CASE CarryRfq
  <2>1. PICK k \in DOMAIN asked : k <= MaxAsks /\ Deliver("rfq", QuoteRequest(k, asked[k]))
      BY <1>3 DEF CarryRfq
  <2>2. Asked(k)
      BY <1>0, <2>1, LenProperties, TradeAssumption DEF TradeTypes, Asked
  <2>3. routed' = [routed EXCEPT !["rfq"] = @ \cup {QuoteRequest(k, asked[k])}] /\ UNCHANGED asked
      BY <1>3, <2>1 DEF Deliver, CarryRfq, takerVars
  <2>4. QuoteRequest(k, asked[k]).ulid = k
      BY DEF QuoteRequest
  <2> QED
      BY <1>0, <2>2, <2>3, <2>4 DEF RoutedInv, Asked, Streams, QuoteRequest
<1>4. CASE CarrySoft
    BY <1>0, <1>4 DEF CarrySoft, Deliver, takerVars, RoutedInv, Asked, Streams, QuoteRequest
<1> QED
    BY <1>2, <1>3, <1>4, TradeKinds

LEMMA PendingNext == TradeInv /\ [TradeNext]_tradeVars => PendingInv'
<1> SUFFICES ASSUME TradeInv, [TradeNext]_tradeVars PROVE PendingInv'
    OBVIOUS
<1>0. /\ TradeTypes /\ RoutedInv /\ PendingInv /\ OnePlace /\ AnswerInv
      /\ Held("rfq") \subseteq routed["rfq"]
      /\ outq \in [Streams -> Seq(Replies)]
      /\ inq \in [Streams -> Seq(Requests)]
      /\ routed \in [Streams -> SUBSET Requests]
      /\ reply \in Replies /\ branch \in Streams
      /\ "rfq" \in Streams
    BY HeldRouted
    DEF TradeInv, CommitmentInv, TypeInv, TypeOK, ChannelsOK, LedgerOK, LocalsOK, Streams
<1>a. \A r, s \in routed["rfq"] : r.ulid = s.ulid => r = s
    BY <1>0 DEF RoutedInv
<1>1. ASSUME Held("rfq")' \subseteq Held("rfq"), outq'["rfq"] = outq["rfq"],
             routed["rfq"] \subseteq routed'["rfq"], UNCHANGED <<asked, unanswered>>
      PROVE  PendingInv'
    BY <1>0, <1>1 DEF PendingInv, Coming, Unanswered
<1>2. CASE MakerKind
  <2>0. UNCHANGED <<routed, asked, unanswered>>
      BY <1>2 DEF MakerKind, MakerQuiet, MakerSends, MakerDrops, takerVars
  <2>1. CASE MakerQuiet
      BY <1>0, <1>1, <2>0, <2>1 DEF MakerQuiet
  <2>2. CASE MakerDrops
    <3>1. Held("rfq")' = {} /\ outq'["rfq"] = <<>>
        BY <1>0, <2>2 DEF MakerDrops
    <3> QED
        BY <1>0, <2>0, <3>1 DEF PendingInv, Coming, Unanswered
  <2>3. CASE MakerSends /\ branch = "soft"
    <3>1. outq'["rfq"] = outq["rfq"] /\ Held("rfq")' \subseteq Held("rfq")
        BY <1>0, <2>3 DEF MakerSends
    <3> QED
        BY <1>1, <2>0, <3>1
  <2>4. CASE MakerSends /\ branch = "rfq"
    <3> DEFINE q == outq["rfq"]
    <3>1. /\ q \in Seq(Replies) /\ outq'["rfq"] = Append(q, reply)
          /\ Held("rfq")' \subseteq Held("rfq") \ {cur} /\ at = "send"
        BY <1>0, <2>4 DEF MakerSends
    <3>2. cur \in Held("rfq") /\ reply.ulid = cur.ulid
        BY <1>0, <2>4, <3>1 DEF Held, AnswerInv
    <3>3. Unanswered(cur.ulid) /\ cur.ulid \notin Coming("rfq") /\ cur \in routed["rfq"]
        BY <1>0, <3>2 DEF PendingInv
    <3>4. /\ Len(q) + 1 \notin DOMAIN q /\ Append(q, reply)[Len(q) + 1] = reply
          /\ \A k \in DOMAIN q : k \in DOMAIN Append(q, reply) /\ Append(q, reply)[k] = q[k]
          /\ \A k \in DOMAIN Append(q, reply) : k \in DOMAIN q \/ k = Len(q) + 1
        BY <1>0, <3>1, Pushed
    <3>5. Coming("rfq")' \subseteq Coming("rfq") \cup {cur.ulid}
        BY <3>1, <3>2, <3>4 DEF Coming
    <3>6. ASSUME NEW r \in Held("rfq")' PROVE Unanswered(r.ulid) /\ r.ulid \notin Coming("rfq")'
      <4>1. r \in Held("rfq") /\ r # cur /\ r \in routed["rfq"]
          BY <1>0, <3>1
      <4>2. r.ulid # cur.ulid
          BY <1>a, <3>3, <4>1
      <4> QED
          BY <1>0, <3>5, <4>1, <4>2 DEF PendingInv
    <3>7. ASSUME NEW i \in DOMAIN outq'["rfq"], NEW j \in DOMAIN outq'["rfq"],
                 outq'["rfq"][i].ulid = outq'["rfq"][j].ulid
          PROVE  i = j
      <4>1. \A k \in DOMAIN q : q[k].ulid # cur.ulid
          BY <3>3 DEF Coming
      <4>2. \A k, l \in DOMAIN q : q[k].ulid = q[l].ulid => k = l
          BY <1>0 DEF PendingInv
      <4> HIDE DEF q
      <4> QED
          BY <3>1, <3>2, <3>4, <3>7, <4>1, <4>2
    <3>8. \A u \in Coming("rfq")' : Unanswered(u) /\ \E r \in routed["rfq"] : r.ulid = u
        BY <1>0, <3>3, <3>5 DEF PendingInv
    <3>9. \A k \in DOMAIN asked : ~Unanswered(k) => \E r \in routed["rfq"] : r.ulid = k
        BY <1>0 DEF PendingInv
    <3> HIDE DEF q
    <3> QED
        BY <2>0, <3>6, <3>7, <3>8, <3>9 DEF PendingInv, Unanswered
  <2> QED
      BY <1>0, <1>2, <2>1, <2>2, <2>3, <2>4 DEF MakerKind, Streams
<1>3. CASE TakerKind
  <2>1. UNCHANGED <<outq, routed>> /\ Held("rfq")' = Held("rfq")
      BY <1>3 DEF TakerKind, Held, Waiting
  <2>2. CASE UNCHANGED <<asked, unanswered>>
      BY <1>1, <2>1, <2>2
  <2>3. CASE Asks
    <3>1. /\ \A k : Unanswered(k) => Unanswered(k)'
          /\ \A k \in DOMAIN asked' \ DOMAIN asked : Unanswered(k)'
        BY <1>0, <2>3, AskedStays DEF Asks, Unanswered
    <3>2. Coming("rfq")' = Coming("rfq")
        BY <2>1 DEF Coming
    <3>3. \A r \in Held("rfq")' : Unanswered(r.ulid)' /\ r.ulid \notin Coming("rfq")'
        BY <1>0, <2>1, <3>1, <3>2 DEF PendingInv
    <3>4. \A u \in Coming("rfq")' : Unanswered(u)' /\ \E r \in routed'["rfq"] : r.ulid = u
        BY <1>0, <2>1, <3>1, <3>2 DEF PendingInv
    <3>5. \A i, j \in DOMAIN outq'["rfq"] : outq'["rfq"][i].ulid = outq'["rfq"][j].ulid => i = j
        BY <1>0, <2>1 DEF PendingInv
    <3>6. \A k \in DOMAIN asked' : ~Unanswered(k)' => \E r \in routed'["rfq"] : r.ulid = k
        BY <1>0, <2>1, <3>1 DEF PendingInv
    <3> QED
        BY <3>3, <3>4, <3>5, <3>6 DEF PendingInv
  <2> QED
      BY <1>3, <2>2, <2>3 DEF TakerKind, TakerMoves
<1>4. CASE CarryRfq
  <2>1. PICK k \in DOMAIN asked : k <= MaxAsks /\ Deliver("rfq", QuoteRequest(k, asked[k]))
      BY <1>4 DEF CarryRfq
  <2> DEFINE d == QuoteRequest(k, asked[k])
  <2>2. /\ d \notin routed["rfq"] /\ routed'["rfq"] = routed["rfq"] \cup {d}
        /\ inq' = [inq EXCEPT !["rfq"] = Append(@, d)]
        /\ UNCHANGED <<at, branch, cur, outq, asked, unanswered>>
      BY <1>0, <1>4, <2>1 DEF Deliver, CarryRfq, takerVars, locals
  <2>3. d.ulid = k
      BY DEF QuoteRequest
  <2>4. \A r \in routed["rfq"] : r.ulid # k
      BY <1>0, <2>2 DEF RoutedInv
  <2>5. Unanswered(k) /\ k \notin Coming("rfq")
      BY <1>0, <2>4 DEF PendingInv
  <2>6. d \in Requests
    <3>1. asked[k] \in {"Buy", "Sell"} /\ k \in 1..MaxAsks
        BY <1>0, <2>1, ElementOfSeq, LenProperties, TradeAssumption DEF TradeTypes
    <3> QED
        BY <3>1, TradeAssumption DEF TakerRequests
  <2>7. Waiting("rfq")' \subseteq Waiting("rfq") \cup {d}
    <3> HIDE DEF d
    <3>1. inq["rfq"] \in Seq(Requests) /\ inq'["rfq"] = Append(inq["rfq"], d)
        BY <1>0, <2>2
    <3>2. \A j \in DOMAIN inq'["rfq"] :
              inq'["rfq"][j] = d \/ (j \in DOMAIN inq["rfq"] /\ inq'["rfq"][j] = inq["rfq"][j])
        BY <2>6, <3>1, Pushed
    <3> QED
        BY <3>2 DEF Waiting
  <2>8. Held("rfq")' \subseteq Held("rfq") \cup {d}
      BY <2>2, <2>7 DEF Held
  <2> HIDE DEF d
  <2>9. Coming("rfq")' = Coming("rfq") /\ \A v : Unanswered(v)' <=> Unanswered(v)
      BY <2>2 DEF Coming, Unanswered
  <2>10. \A r \in Held("rfq")' : Unanswered(r.ulid)' /\ r.ulid \notin Coming("rfq")'
      BY <1>0, <2>3, <2>5, <2>8, <2>9 DEF PendingInv
  <2>11. \A u \in Coming("rfq")' : Unanswered(u)' /\ \E r \in routed'["rfq"] : r.ulid = u
      BY <1>0, <2>2, <2>9 DEF PendingInv
  <2>12. \A i, j \in DOMAIN outq'["rfq"] : outq'["rfq"][i].ulid = outq'["rfq"][j].ulid => i = j
      BY <1>0, <2>2 DEF PendingInv
  <2>13. \A v \in DOMAIN asked' : ~Unanswered(v)' => \E r \in routed'["rfq"] : r.ulid = v
      BY <1>0, <2>2, <2>9 DEF PendingInv
  <2> QED
      BY <2>10, <2>11, <2>12, <2>13 DEF PendingInv
<1>5. CASE CarrySoft
  <2>1. /\ outq'["rfq"] = outq["rfq"] /\ inq'["rfq"] = inq["rfq"]
        /\ routed'["rfq"] = routed["rfq"]
        /\ UNCHANGED <<at, branch, cur, asked, unanswered>>
      BY <1>0, <1>5 DEF CarrySoft, Deliver, locals, takerVars
  <2>2. Held("rfq")' = Held("rfq")
      BY <2>1 DEF Held, Waiting
  <2> QED
      BY <1>1, <2>1, <2>2
<1>6. CASE ReturnRfq
  <2> DEFINE q == outq["rfq"]
             u == Head(q).ulid
  <2>1. /\ q \in Seq(Replies) /\ q # <<>> /\ outq'["rfq"] = Tail(q)
        /\ unanswered' = unanswered \ {<<"maker", u>>}
        /\ UNCHANGED <<inq, at, branch, cur, routed, asked>>
      BY <1>0, <1>6 DEF ReturnRfq, Transmit, locals
  <2>2. /\ 1 \in DOMAIN q /\ Head(q) = q[1]
        /\ \A k \in DOMAIN Tail(q) :
              k \in Nat /\ k + 1 \in DOMAIN q /\ k + 1 # 1 /\ Tail(q)[k] = q[k + 1]
      BY <2>1, Popped
  <2>3. \A i, j \in DOMAIN q : q[i].ulid = q[j].ulid => i = j
      BY <1>0 DEF PendingInv
  <2>4. u \in Coming("rfq")
      BY <2>2 DEF Coming
  <2>5. Coming("rfq")' \subseteq Coming("rfq") \ {u}
    <3>1. ASSUME NEW k \in DOMAIN Tail(q) PROVE Tail(q)[k].ulid \in Coming("rfq") \ {u}
        BY <2>2, <2>3 DEF Coming
    <3> HIDE DEF q
    <3> QED
        BY <2>1, <3>1 DEF Coming
  <2>6. Held("rfq")' = Held("rfq")
      BY <2>1 DEF Held, Waiting
  <2>7. ASSUME NEW i \in DOMAIN outq'["rfq"], NEW j \in DOMAIN outq'["rfq"],
               outq'["rfq"][i].ulid = outq'["rfq"][j].ulid
        PROVE  i = j
    <3>1. i + 1 \in DOMAIN q /\ j + 1 \in DOMAIN q /\ q[i + 1].ulid = q[j + 1].ulid
          /\ i \in Nat /\ j \in Nat
        BY <2>1, <2>2, <2>7
    <3>2. i + 1 = j + 1
        BY <2>3, <3>1
    <3> QED
        BY <3>1, <3>2
  <2>8. \A v : v # u /\ Unanswered(v) => Unanswered(v)'
      BY <2>1 DEF Unanswered
  <2>9. \E r \in routed["rfq"] : r.ulid = u
      BY <1>0, <2>4 DEF PendingInv
  <2> HIDE DEF q, u
  <2>10. \A r \in Held("rfq")' : Unanswered(r.ulid)' /\ r.ulid \notin Coming("rfq")'
      BY <1>0, <2>4, <2>5, <2>6, <2>8 DEF PendingInv
  <2>11. \A v \in Coming("rfq")' : Unanswered(v)' /\ \E r \in routed'["rfq"] : r.ulid = v
      BY <1>0, <2>1, <2>5, <2>8 DEF PendingInv
  <2>12. \A k \in DOMAIN asked' : ~Unanswered(k)' => \E r \in routed'["rfq"] : r.ulid = k
      BY <1>0, <2>1, <2>8, <2>9 DEF PendingInv
  <2> QED
      BY <2>7, <2>10, <2>11, <2>12 DEF PendingInv
<1>7. CASE ReturnSoft
  <2>1. /\ outq'["rfq"] = outq["rfq"]
        /\ UNCHANGED <<inq, at, branch, cur, routed, asked, unanswered>>
      BY <1>0, <1>7 DEF ReturnSoft, Transmit, locals
  <2>2. Held("rfq")' = Held("rfq")
      BY <2>1 DEF Held, Waiting
  <2> QED
      BY <1>1, <2>1, <2>2
<1> QED
    BY <1>2, <1>3, <1>4, <1>5, <1>6, <1>7, TradeKinds

\* The taker's Soft Quote is one that validate_soft_quote passes.
LEMMA SoftQuoteValid == ValidSoftQuote(SoftQuote)
BY TradeAssumption, RequestAssumption DEF ValidSoftQuote, SoftQuote, QuoteRequest

LEMMA SoftNext == TradeInv /\ [TradeNext]_tradeVars => SoftInv'
<1> SUFFICES ASSUME TradeInv, [TradeNext]_tradeVars PROVE SoftInv'
    OBVIOUS
<1>0. /\ TradeTypes /\ RoutedInv /\ SoftInv /\ AnswerInv /\ softAsked \in Nat
      /\ Held("soft") \subseteq routed["soft"] /\ routed["soft"] \subseteq {SoftQuote}
      /\ outq \in [Streams -> Seq(Replies)]
      /\ inq \in [Streams -> Seq(Requests)]
      /\ routed \in [Streams -> SUBSET Requests]
      /\ reply \in Replies /\ branch \in Streams /\ "soft" \in Streams
    BY HeldRouted
    DEF TradeInv, TradeTypes, RoutedInv, CommitmentInv, TypeInv, TypeOK, ChannelsOK, LedgerOK,
        LocalsOK, Streams
<1>1. ASSUME Held("soft")' \subseteq Held("soft"), outq'["soft"] = outq["soft"],
             UNCHANGED routed, softAsked' \in {softAsked, softAsked + 1}
      PROVE  SoftInv'
    BY <1>0, <1>1 DEF SoftInv
<1>2. ASSUME Held("soft")' = {}, outq'["soft"] = <<>> PROVE SoftInv'
    BY <1>2 DEF SoftInv
<1>3. CASE MakerKind
  <2>0. UNCHANGED <<routed, softAsked>>
      BY <1>3 DEF MakerKind, MakerQuiet, MakerSends, MakerDrops, takerVars
  <2>1. CASE MakerQuiet
      BY <1>0, <1>1, <2>0, <2>1 DEF MakerQuiet
  <2>2. CASE MakerDrops
      BY <1>0, <1>2, <2>2 DEF MakerDrops
  <2>3. CASE MakerSends /\ branch = "rfq"
    <3>1. outq'["soft"] = outq["soft"] /\ Held("soft")' \subseteq Held("soft")
        BY <1>0, <2>3 DEF MakerSends
    <3> QED
        BY <1>1, <2>0, <3>1
  <2>4. CASE MakerSends /\ branch = "soft"
    <3>1. /\ at = "send" /\ outq'["soft"] = Append(outq["soft"], reply)
          /\ Held("soft")' \subseteq Held("soft") \ {cur}
        BY <1>0, <2>4 DEF MakerSends
    <3>2. cur \in Held("soft")
        BY <2>4, <3>1 DEF Held
    <3>3. cur = SoftQuote /\ routed["soft"] # {} /\ Held("soft")' = {}
        BY <1>0, <3>1, <3>2
    <3>4. softAsked > 0 /\ outq["soft"] = <<>>
        BY <1>0, <3>2 DEF SoftInv
    <3>5. reply.kind = "quote"
        BY <1>0, <2>4, <3>1, <3>3, SoftQuoteValid DEF AnswerInv
    <3>6. Len(outq'["soft"]) = 1 /\ outq'["soft"][1] = reply
        BY <3>1, <3>4
    <3> QED
        BY <2>0, <3>3, <3>4, <3>5, <3>6 DEF SoftInv
  <2> QED
      BY <1>0, <1>3, <2>1, <2>2, <2>3, <2>4 DEF MakerKind, Streams
<1>4. CASE TakerKind
  <2>1. Held("soft")' = Held("soft") /\ UNCHANGED <<outq, routed>>
        /\ softAsked' \in {softAsked, softAsked + 1}
      BY <1>4 DEF TakerKind, TakerMoves, Held, Waiting
  <2> QED
      BY <1>1, <2>1
<1>5. CASE CarryRfq \/ ReturnRfq
  <2>1. /\ outq'["soft"] = outq["soft"] /\ inq'["soft"] = inq["soft"]
        /\ routed'["soft"] = routed["soft"]
        /\ UNCHANGED <<at, branch, cur, softAsked>>
      BY <1>0, <1>5 DEF CarryRfq, ReturnRfq, Deliver, Transmit, locals, takerVars
  <2>2. Held("soft")' = Held("soft")
      BY <2>1 DEF Held, Waiting
  <2> QED
      BY <1>0, <2>1, <2>2 DEF SoftInv
<1>6. CASE CarrySoft
  <2>1. /\ softAsked > 0 /\ SoftQuote \notin routed["soft"] /\ UNCHANGED <<outq, softAsked>>
      BY <1>0, <1>6 DEF CarrySoft, Deliver, takerVars
  <2>2. routed["soft"] = {}
      BY <1>0, <2>1
  <2>3. outq["soft"] = <<>>
      BY <1>0, <2>2 DEF SoftInv
  <2> QED
      BY <2>1, <2>3 DEF SoftInv
<1>7. CASE ReturnSoft
  <2>1. outq["soft"] # <<>> /\ outq'["soft"] = Tail(outq["soft"])
        /\ UNCHANGED <<inq, at, branch, cur>>
      BY <1>0, <1>7 DEF ReturnSoft, Transmit, locals
  <2>2. Len(outq["soft"]) = 1 /\ Held("soft") = {}
      BY <1>0, <2>1 DEF SoftInv
  <2>3. outq'["soft"] = <<>>
      BY <1>0, <2>1, <2>2, Popped
  <2>4. Held("soft")' = Held("soft")
      BY <2>1 DEF Held, Waiting
  <2> QED
      BY <1>2, <2>2, <2>3, <2>4
<1> QED
    BY <1>3, <1>4, <1>5, <1>6, <1>7, TradeKinds

\* What was signed for an RFQ stays so.
LEMMA SignedForStays ==
    ASSUME TradeInv, [TradeNext]_tradeVars
    PROVE  \A u, i : SignedFor(u, i) => SignedFor(u, i)'
<1>1. Asks \/ UNCHANGED asked
    BY TradeKinds DEF MakerKind, TakerKind, TakerMoves, CarryRfq, CarrySoft, ReturnRfq,
                      ReturnSoft, takerVars
<1>2. \A u \in DOMAIN asked : u \in DOMAIN asked' /\ asked'[u] = asked[u]
    BY <1>1, AskedStays DEF TradeInv
<1>3. \A i \in DOMAIN signed : i \in DOMAIN signed' /\ signed'[i] = signed[i]
    BY SignedGrows, MakerStepped DEF TradeInv
<1> QED
    BY <1>2, <1>3 DEF SignedFor, Asked, QuoteRequest

LEMMA OffersNext == TradeInv /\ [TradeNext]_tradeVars => OffersInv'
<1> SUFFICES ASSUME TradeInv, [TradeNext]_tradeVars PROVE OffersInv'
    OBVIOUS
<1>0. /\ TradeTypes /\ RoutedInv /\ OffersInv /\ AnswerInv /\ References
      /\ Held("rfq") \subseteq routed["rfq"]
      /\ outq \in [Streams -> Seq(Replies)]
      /\ reply \in Replies /\ branch \in Streams /\ "rfq" \in Streams
    BY HeldRouted
    DEF TradeInv, CommitmentInv, TypeInv, TypeOK, ChannelsOK, LocalsOK, Streams
<1>a. \A u, i : SignedFor(u, i) => SignedFor(u, i)'
    BY SignedForStays
<1> DEFINE OnWay  == \A j \in DOMAIN outq["rfq"] :
                        outq["rfq"][j].kind = "offer" =>
                            SignedFor(outq["rfq"][j].ulid, outq["rfq"][j].order)
           InBox  == \A j \in DOMAIN inbox :
                        inbox[j].offer => /\ SignedFor(inbox[j].rfq, received[inbox[j].rfq])
                                          /\ received[inbox[j].rfq] \in published
           AtSeaport == tpc \in {"fulfil", "settle", "check"} =>
                        SignedFor(order, received[order]) /\ received[order] \in published
<1>b. OffersInv <=> OnWay /\ InBox /\ AtSeaport
    BY DEF OffersInv
<1>1. ASSUME UNCHANGED <<inbox, tpc, order, received>>, published \subseteq published'
      PROVE  InBox' /\ AtSeaport'
    BY <1>0, <1>a, <1>b, <1>1
<1>2. ASSUME outq'["rfq"] = outq["rfq"] PROVE OnWay'
    BY <1>0, <1>a, <1>b, <1>2
<1>3. CASE MakerKind
  <2>1. UNCHANGED <<inbox, tpc, order, received, published>>
      BY <1>3 DEF MakerKind, MakerQuiet, MakerSends, MakerDrops, takerVars
  <2>2. ASSUME MakerQuiet PROVE OnWay'
      BY <1>2, <2>2 DEF MakerQuiet
  <2>3. ASSUME MakerDrops PROVE OnWay'
      BY <1>0, <2>3 DEF MakerDrops
  <2>4. ASSUME MakerSends, branch # "rfq" PROVE OnWay'
      BY <1>0, <1>2, <2>4 DEF MakerSends
  <2>5. ASSUME MakerSends, branch = "rfq" PROVE OnWay'
    <3> DEFINE q == outq["rfq"]
    <3>1. q \in Seq(Replies) /\ outq'["rfq"] = Append(q, reply) /\ at = "send"
        BY <1>0, <2>5 DEF MakerSends
    <3>2. cur \in routed["rfq"] /\ reply.ulid = cur.ulid
        BY <1>0, <2>5, <3>1 DEF Held, AnswerInv
    <3>3. reply.kind = "offer" => SignedFor(reply.ulid, reply.order)
        BY <1>0, <3>1, <3>2 DEF References, OfferRef, AnswerInv, RoutedInv, SignedFor
    <3>4. ASSUME NEW j \in DOMAIN outq'["rfq"], outq'["rfq"][j].kind = "offer"
          PROVE  SignedFor(outq'["rfq"][j].ulid, outq'["rfq"][j].order)
      <4>1. CASE outq'["rfq"][j] = reply
          BY <3>3, <3>4, <4>1
      <4>2. CASE j \in DOMAIN q /\ outq'["rfq"][j] = q[j]
          BY <1>0, <1>b, <3>4, <4>2
      <4>3. \/ outq'["rfq"][j] = reply
            \/ j \in DOMAIN q /\ outq'["rfq"][j] = q[j]
        <5> HIDE DEF q
        <5> QED
            BY <1>0, <3>1, Pushed
      <4> QED
          BY <4>1, <4>2, <4>3
    <3> QED
        BY <1>a, <3>4
  <2>6. OnWay'
      BY <1>3, <2>2, <2>3, <2>4, <2>5 DEF MakerKind
  <2> HIDE DEF OnWay, InBox, AtSeaport
  <2> QED
      BY <1>1, <1>b, <2>1, <2>6 DEF OffersInv, OnWay, InBox, AtSeaport
<1>4. CASE CarryRfq \/ CarrySoft
  <2>1. UNCHANGED <<inbox, tpc, order, received, published, outq>>
      BY <1>4 DEF CarryRfq, CarrySoft, Deliver, takerVars
  <2> QED
      BY <1>1, <1>2, <2>1 DEF OffersInv
<1>5. CASE ReturnSoft
  <2>1. /\ UNCHANGED <<inbox, tpc, order, received>> /\ outq'["rfq"] = outq["rfq"]
        /\ published \subseteq published'
      BY <1>0, <1>5 DEF ReturnSoft, Transmit
  <2> QED
      BY <1>1, <1>2, <2>1 DEF OffersInv
<1>6. CASE ReturnRfq
  <2> DEFINE q == outq["rfq"]
             a == Head(q)
             offer == a.kind = "offer"
  <2>1. /\ q \in Seq(Replies) /\ q # <<>> /\ outq'["rfq"] = Tail(q)
        /\ published' = published \cup IF offer THEN {a.order} ELSE {}
        /\ inbox' = Append(inbox, [rfq |-> a.ulid, offer |-> offer])
        /\ received' = IF offer THEN [received EXCEPT ![a.ulid] = a.order] ELSE received
        /\ UNCHANGED <<tpc, order>>
      BY <1>0, <1>6 DEF ReturnRfq, Transmit
  <2>2. /\ 1 \in DOMAIN q /\ Head(q) = q[1]
        /\ \A k \in DOMAIN Tail(q) : k + 1 \in DOMAIN q /\ Tail(q)[k] = q[k + 1]
      BY <2>1, Popped
  <2>3. OnWay'
    <3>1. ASSUME NEW k \in DOMAIN Tail(q), Tail(q)[k].kind = "offer"
          PROVE  SignedFor(Tail(q)[k].ulid, Tail(q)[k].order)
        BY <1>0, <1>b, <2>2, <3>1
    <3> QED
        BY <1>a, <2>1, <3>1
  <2>4. offer => SignedFor(a.ulid, a.order)
      BY <1>0, <1>b, <2>2
  <2>5. a.ulid \in 1..MaxAsks
      BY <2>1, FirstAnswer DEF Asked, Streams
  <2> HIDE DEF q, a, offer
  <2>6. /\ offer => received'[a.ulid] = a.order /\ a.order \in published'
        /\ \A v : v # a.ulid \/ ~offer => received'[v] = received[v]
        /\ published \subseteq published'
      BY <1>0, <2>1, <2>5 DEF TradeTypes
  <2>7. ASSUME NEW v, SignedFor(v, received[v]), received[v] \in published
        PROVE  SignedFor(v, received'[v]) /\ received'[v] \in published'
      BY <2>4, <2>6, <2>7
  <2>8. ASSUME NEW j \in DOMAIN inbox', inbox'[j].offer
        PROVE  /\ SignedFor(inbox'[j].rfq, received'[inbox'[j].rfq])
               /\ received'[inbox'[j].rfq] \in published'
    <3> DEFINE e == [rfq |-> a.ulid, offer |-> offer]
    <3>1. e \in [rfq : Nat, offer : BOOLEAN] /\ e.rfq = a.ulid /\ e.offer = offer
        BY <2>5, TradeAssumption DEF offer
    <3>2. \/ inbox'[j] = e
          \/ j \in DOMAIN inbox /\ inbox'[j] = inbox[j]
      <4> HIDE DEF e
      <4>1. inbox' = Append(inbox, e) /\ inbox \in Seq([rfq : Nat, offer : BOOLEAN])
          BY <1>0, <2>1 DEF TradeTypes, e
      <4> QED
          BY <2>8, <3>1, <4>1, Pushed
    <3>3. CASE inbox'[j] = e
        BY <2>4, <2>6, <2>8, <3>1, <3>3
    <3>4. CASE j \in DOMAIN inbox /\ inbox'[j] = inbox[j]
        BY <1>0, <1>b, <2>7, <2>8, <3>4
    <3> QED
        BY <3>2, <3>3, <3>4
  <2>9. InBox'
      BY <1>a, <2>8
  <2>10. AtSeaport'
      BY <1>0, <1>a, <1>b, <2>1, <2>7
  <2> QED
      BY <2>3, <2>9, <2>10 DEF OffersInv
<1>7. CASE TakerKind
  <2>1. UNCHANGED <<outq, published, received>>
      BY <1>7 DEF TakerKind
  <2>2. UNCHANGED inbox \/ (inbox # <<>> /\ inbox' = Tail(inbox))
      BY <1>7 DEF TakerKind, TakerMoves
  <2>3. InBox'
    <3>1. ASSUME NEW j \in DOMAIN inbox' PROVE \E k \in DOMAIN inbox : inbox'[j] = inbox[k]
      <4>1. CASE inbox # <<>> /\ inbox' = Tail(inbox)
        <5>1. \A k \in DOMAIN Tail(inbox) : k + 1 \in DOMAIN inbox /\ Tail(inbox)[k] = inbox[k + 1]
            BY <1>0, <4>1, Popped DEF TradeTypes
        <5> QED
            BY <3>1, <4>1, <5>1
      <4> QED
          BY <2>2, <3>1, <4>1
    <3> QED
        BY <1>0, <1>a, <1>b, <2>1, <3>1
  <2>4. AtSeaport'
    <3>1. ASSUME tpc' = "fulfil" PROVE AtSeaport'
      <4>1. inbox # <<>> /\ Head(inbox).offer /\ order' = Head(inbox).rfq
          BY <1>7, <3>1 DEF TakerKind, TakerMoves
      <4>2. 1 \in DOMAIN inbox /\ Head(inbox) = inbox[1]
          BY <1>0, <4>1, Popped DEF TradeTypes
      <4>3. SignedFor(order', received[order']) /\ received[order'] \in published
          BY <1>0, <1>b, <4>1, <4>2
      <4> QED
          BY <1>a, <2>1, <4>3
    <3>2. ASSUME tpc' \in {"settle", "check"} PROVE AtSeaport'
      <4>1. /\ tpc \in {"fulfil", "settle", "check"}
            /\ order' = order /\ received' = received /\ published' = published
          BY <1>7, <2>1, <3>2 DEF TakerKind, TakerMoves
      <4>2. SignedFor(order, received[order]) /\ received[order] \in published
          BY <1>0, <1>b, <4>1
      <4>3. SignedFor(order, received[order])'
          BY <1>a, <4>1, <4>2
      <4> QED
          BY <4>1, <4>2, <4>3
    <3> QED
        BY <3>1, <3>2
  <2>5. OnWay'
      BY <1>2, <2>1
  <2> QED
      BY <2>3, <2>4, <2>5 DEF OffersInv
<1> QED
    BY <1>3, <1>4, <1>5, <1>6, <1>7, TradeKinds

\* A decline uses up one of the RFQs that the relay carries.
LEMMA CountNext == TradeInv /\ [TradeNext]_tradeVars => CountInv'
<1> SUFFICES ASSUME TradeInv, [TradeNext]_tradeVars PROVE CountInv'
    OBVIOUS
<1>0. /\ TradeTypes /\ RoutedInv /\ SoftInv /\ CountInv
      /\ MaxAsks \in Nat /\ declines \in Nat
    BY TradeAssumption DEF TradeInv, TradeTypes
<1>1. /\ IsFiniteSet(1..MaxAsks)
      /\ IsFiniteSet(Answered) /\ Cardinality(Answered) \in Nat
      /\ IsFiniteSet(Answered') /\ Cardinality(Answered') \in Nat
  <2>1. IsFiniteSet(1..MaxAsks)
      BY <1>0, FS_Interval
  <2>2. Answered \subseteq 1..MaxAsks /\ Answered' \subseteq 1..MaxAsks
      BY DEF Answered
  <2>3. IsFiniteSet(Answered) /\ IsFiniteSet(Answered')
      BY <2>1, <2>2, FS_Subset
  <2> QED
      BY <2>1, <2>3, FS_CardinalityType
<1>2. ASSUME UNCHANGED declines, Answered \subseteq Answered' PROVE CountInv'
  <2>1. Cardinality(Answered) <= Cardinality(Answered')
      BY <1>1, <1>2, FS_Subset
  <2> HIDE DEF Answered
  <2> QED
      BY <1>0, <1>1, <1>2, <2>1 DEF CountInv
<1>3. CASE MakerKind \/ CarryRfq \/ CarrySoft
    BY <1>2, <1>3 DEF MakerKind, CarryRfq, CarrySoft, takerVars, Answered, Asked, Unanswered
<1>4. CASE TakerKind
  <2>1. UNCHANGED declines /\ (Asks \/ UNCHANGED <<asked, unanswered>>)
      BY <1>4 DEF TakerKind, TakerMoves
  <2>2. ASSUME NEW k \in Answered PROVE k \in Answered'
    <3>1. k \in 1..MaxAsks /\ k \in DOMAIN asked /\ <<"maker", k>> \notin unanswered
        BY DEF Answered, Asked, Unanswered
    <3>2. k \in DOMAIN asked'
        BY <1>0, <2>1, <3>1, AskedStays
    <3>3. k # Len(asked) + 1
        BY <1>0, <3>1, LenProperties DEF TradeTypes
    <3>4. <<"maker", k>> \notin unanswered'
        BY <2>1, <3>1, <3>3 DEF Asks
    <3> QED
        BY <3>1, <3>2, <3>4 DEF Answered, Asked, Unanswered
  <2> QED
      BY <1>2, <2>1, <2>2
<1>5. CASE ReturnRfq
  <2> DEFINE u == Head(outq["rfq"]).ulid
  <2>1. /\ outq["rfq"] # <<>> /\ unanswered' = unanswered \ {<<"maker", u>>}
        /\ UNCHANGED asked /\ declines' \in {declines, declines + 1}
      BY <1>5 DEF ReturnRfq, Transmit
  <2>2. Asked(u) /\ Unanswered(u)
      BY <2>1, FirstAnswer DEF Streams
  <2> HIDE DEF u
  <2>3. Answered' = Answered \cup {u} /\ u \notin Answered
      BY <2>1, <2>2 DEF Answered, Asked, Unanswered
  <2>4. Cardinality(Answered') = Cardinality(Answered) + 1
      BY <1>1, <2>3, FS_AddElement
  <2> QED
      BY <1>0, <1>1, <2>1, <2>4 DEF CountInv
<1>6. CASE ReturnSoft
  <2>1. outq["soft"] # <<>>
      BY <1>6 DEF ReturnSoft, Transmit
  <2>2. Head(outq["soft"]).kind = "quote"
      BY <1>0, <2>1, FirstAnswer DEF SoftInv, Streams
  <2>3. UNCHANGED <<declines, asked, unanswered>>
      BY <1>6, <2>2 DEF ReturnSoft
  <2> QED
      BY <1>2, <2>3 DEF Answered, Asked, Unanswered
<1> QED
    BY <1>3, <1>4, <1>5, <1>6, TradeKinds

-----------------------------------------------------------------------------
(* The whole.                                                              *)

LEMMA TradeInvInit == TradeInit => TradeInv /\ SessionInv
<1> SUFFICES ASSUME TradeInit PROVE TradeInv /\ SessionInv
    OBVIOUS
<1>1. TypeInv /\ SessionInv /\ CommitmentInv
    BY TypeInit, SessionInitInv, CommitmentInit DEF TradeInit, Init
<1>2. /\ at = "select" /\ inq = Empty /\ outq = Empty /\ routed = [s \in Streams |-> {}]
      /\ tpc = "setup" /\ asked = <<>> /\ unanswered = {} /\ inbox = <<>> /\ softAsked = 0
      /\ declines = 0 /\ received = [k \in 1..MaxAsks |-> 0]
    BY DEF TradeInit, Init, T!Init
<1>3. \A s \in Streams : outq[s] = <<>> /\ routed[s] = {} /\ Held(s) = {}
    BY <1>2 DEF Held, Waiting, Empty
<1>4. AnswerInv
    BY <1>2 DEF AnswerInv
<1>5. TradeTypes
    BY <1>2 DEF TradeTypes
<1>6. RoutedInv /\ PendingInv /\ SoftInv /\ OffersInv
    BY <1>2, <1>3 DEF RoutedInv, PendingInv, SoftInv, OffersInv, Coming, Streams
<1>7. CountInv
  <2>1. Answered = {}
      BY <1>2 DEF Answered, Asked
  <2> QED
      BY <1>2, <2>1, FS_EmptySet DEF CountInv
<1> QED
    BY <1>1, <1>4, <1>5, <1>6, <1>7 DEF TradeInv

LEMMA TradeInvNext ==
    TradeInv /\ SessionInv /\ [TradeNext]_tradeVars => TradeInv' /\ SessionInv'
<1> SUFFICES ASSUME TradeInv, SessionInv, [TradeNext]_tradeVars
             PROVE  TradeInv' /\ SessionInv'
    OBVIOUS
<1>1. [Next]_vars /\ TypeInv /\ CommitmentInv /\ AnswerInv
    BY MakerStepped DEF TradeInv
<1>2. SessionInv'
    BY <1>1, StepOfSession, SessionNextInv
<1>3. TypeInv' /\ CommitmentInv' /\ AnswerInv'
    BY <1>1, <1>2, TypeNext, CommitmentNext, AnswerNext
<1>4. TradeTypes' /\ RoutedInv' /\ PendingInv'
    BY TradeTypesNext, RoutedNext, PendingNext
<1>5. SoftInv' /\ OffersInv' /\ CountInv'
    BY SoftNext, OffersNext, CountNext
<1> QED
    BY <1>2, <1>3, <1>4, <1>5 DEF TradeInv

\* An answer that the relay brings is one the taker's own model expects.
LEMMA AnswerIsExpected == TradeInv /\ ReturnRfq => T!Answer
<1> SUFFICES ASSUME TradeInv, ReturnRfq PROVE T!Answer
    OBVIOUS
<1> DEFINE u == Head(outq["rfq"]).ulid
           offer == Head(outq["rfq"]).kind = "offer"
<1>1. /\ outq["rfq"] # <<>>
      /\ unanswered' = unanswered \ {<<"maker", u>>}
      /\ inbox' = Append(inbox, [rfq |-> u, offer |-> offer])
      /\ declines' = IF offer THEN declines ELSE declines + 1
      /\ UNCHANGED <<tpc, sellRfq, asked, order, fulfilled, softAsked, softInbox, holds>>
    BY DEF ReturnRfq, Transmit
<1>2. Asked(u) /\ Unanswered(u)
    BY <1>1, FirstAnswer DEF Streams
<1> HIDE DEF u, offer
<1>3. declines < MaxAsks
  <2>1. MaxAsks \in Nat /\ declines \in Nat /\ declines <= Cardinality(Answered)
      BY TradeAssumption DEF TradeInv, TradeTypes, CountInv
  <2>2. IsFiniteSet(1..MaxAsks) /\ Cardinality(1..MaxAsks) = MaxAsks
      BY <2>1, FS_Interval
  <2>3. Answered \subseteq 1..MaxAsks /\ u \in 1..MaxAsks /\ u \notin Answered
      BY <1>2 DEF Answered, Asked
  <2>4. /\ Cardinality(Answered) <= MaxAsks /\ Cardinality(Answered) # MaxAsks
        /\ Cardinality(Answered) \in Nat
      BY <2>2, <2>3, FS_Subset, FS_CardinalityType
  <2> QED
      BY <2>1, <2>4
<1>4. T!Declines(offer)
  <2>1. offer \in BOOLEAN
      BY DEF offer
  <2> QED
      BY <1>1, <1>3, <2>1 DEF T!Declines
<1>5. T!AnswerRfq("maker", u, offer)
    BY <1>1, <1>2, <1>4 DEF T!AnswerRfq, T!softVars, Unanswered
<1>6. u \in DOMAIN asked /\ offer \in BOOLEAN
    BY <1>2 DEF Asked, offer
<1> QED
    BY <1>5, <1>6 DEF T!Answer

\* A step of the trade is a step of the taker, or leaves it alone.
LEMMA TakerStepped == TradeInv /\ [TradeNext]_tradeVars => [T!Next]_(T!vars)
<1> SUFFICES ASSUME TradeInv, [TradeNext]_tradeVars PROVE [T!Next]_(T!vars)
    OBVIOUS
<1>1. CASE MakerAlone \/ CarryRfq \/ CarrySoft \/ UNCHANGED tradeVars
    BY <1>1 DEF MakerAlone, CarryRfq, CarrySoft, tradeVars, takerVars, T!vars
<1>2. CASE TakerAlone
    BY <1>2 DEF TakerAlone, T!Next
<1>3. CASE ReturnRfq
    BY <1>3, AnswerIsExpected DEF T!Next
<1>4. CASE ReturnSoft
  <2>1. outq["soft"] # <<>>
      BY <1>4 DEF ReturnSoft, Transmit
  <2>2. softAsked > 0 /\ Head(outq["soft"]).kind = "quote"
      BY <2>1, FirstAnswer DEF TradeInv, SoftInv, Streams
  <2>3. T!AnswerSoft(TRUE)
      BY <1>4, <2>2 DEF ReturnSoft, T!AnswerSoft, T!Declines, T!rfqVars
  <2> QED
      BY <2>3 DEF T!Next, T!Answer
<1>5. CASE SettleTrade
    BY <1>5 DEF SettleTrade, T!Next, T!Step
<1> QED
    BY <1>1, <1>2, <1>3, <1>4, <1>5 DEF TradeNext

LEMMA TradeInvariant == TradeSpec => []TradeInv
<1> QED
    BY TradeInvInit, TradeInvNext, PTL DEF TradeSpec

\* The maker that trades with this taker is the maker of MakerQuoting, with the
\* taker and the relay among what may surround it: what is proved of every maker
\* (one commitment per request, a lot of its own behind every offer) holds here.
THEOREM TradeKeepsMaker == TradeSpec => Spec
<1>1. TradeInit => Init
    BY DEF TradeInit
<1> QED
    BY <1>1, TradeInvariant, MakerStepped, PTL DEF TradeSpec, Spec

\* The taker that trades with this maker is the taker of Taker: the maker answers
\* no request twice and none that was not asked (maker.rs: one send per handler),
\* a Soft Quote of the taker is never declined, and each order is filled once.
THEOREM TradeKeepsTaker == TradeSpec => ImplementsTaker
<1>1. TradeInit => T!Init
    BY DEF TradeInit
<1> QED
    BY <1>1, TradeInvariant, TakerStepped, PTL DEF TradeSpec, ImplementsTaker, T!Spec

\* The order that the taker sends to Seaport is the one the maker signed for the
\* request the taker takes it to answer, whatever runs of the maker came between.
THEOREM OrdersAreThoseAsked == TradeSpec => []OrderIsTheOneAsked
<1>1. TradeInv => OrderIsTheOneAsked
    BY DEF TradeInv, OffersInv, SignedFor, OrderIsTheOneAsked
<1> QED
    BY <1>1, TradeInvariant, PTL

-----------------------------------------------------------------------------
(* Buying, then selling.                                                   *)

\* The maker turns no sale down.
PricesSales ==
    at = "send" /\ branch = "rfq" /\ ValidRfq(cur) /\ cur.action = "Sell" => reply.kind = "offer"

\* So what is declined, on its way or in the inbox, is a purchase.
DeclinesInv ==
    /\ \A j \in DOMAIN outq["rfq"] :
          outq["rfq"][j].kind # "offer" => asked[outq["rfq"][j].ulid] = "Buy"
    /\ \A j \in DOMAIN inbox :
          ~inbox[j].offer => inbox[j].rfq \in DOMAIN asked /\ asked[inbox[j].rfq] = "Buy"

BeforeAsking == {"setup", "option", "ask_soft", "soft_wait", "ask_buy"}

Idle == unanswered = {} /\ inbox = <<>>

\* The taker waits for the answer to its last RFQ, or has it in its inbox.
Awaits(a) ==
    /\ asked # <<>> /\ asked[Len(asked)] = a
    /\ unanswered \subseteq {<<"maker", Len(asked)>>}
    /\ inbox # <<>> => unanswered = {} /\ Len(inbox) = 1 /\ inbox[1].rfq = Len(asked)

\* With one maker the taker has one RFQ out at a time, and none while it trades.
OneAtATime ==
    /\ tpc \in BeforeAsking => ~sellRfq /\ asked = <<>>
    /\ tpc = "rfq_wait" => Awaits(IF sellRfq THEN "Sell" ELSE "Buy")
    /\ tpc \in {"rfq_wait", "failed"} \/ Idle
    /\ ~sellRfq => \A k \in DOMAIN asked : asked[k] = "Buy"
    /\ T!NoBuyAfterSell

\* The taker has bought what its k-th RFQ asked for.
BoughtWith(k) ==
    asked[k] = "Buy" /\ SignedFor(k, received[k]) /\ received[k] \in filled

\* Nothing but a filled purchase gives the taker options, and nothing but options
\* turns it to selling.
Purchase ==
    /\ fulfilled \in Seq(Nat)
    /\ ~sellRfq =>
          /\ tpc \in BeforeAsking \cup {"rfq_wait", "fulfil"} => fulfilled = <<>> /\ holds = 0
          /\ tpc = "settle" => fulfilled = <<order>> /\ holds = 0
          /\ tpc = "check" => fulfilled = <<order>> /\ (holds # 0 => BoughtWith(order))
          /\ tpc # "done"
    /\ sellRfq /\ tpc # "failed" => fulfilled # <<>> /\ BoughtWith(fulfilled[1])

SaleInv == PricesSales /\ DeclinesInv /\ OneAtATime /\ Purchase

LEMMA PricesNext ==
    TypeInv /\ CommitmentInv /\ PricesSales /\ [Next]_vars => PricesSales'
<1> SUFFICES ASSUME TypeInv, CommitmentInv, PricesSales, [Next]_vars PROVE PricesSales'
    OBVIOUS
<1>1. ASSUME at' # "send" PROVE PricesSales'
    BY <1>1 DEF PricesSales
<1>2. ASSUME UNCHANGED <<at, branch, cur, reply>> PROVE PricesSales'
    BY <1>2 DEF PricesSales, ValidRfq
<1>3. ASSUME NEW s \in Streams, Decline(s) PROVE PricesSales'
    BY <1>3 DEF Decline, Valid, ValidRfq, PricesSales
<1>4. CASE SendWriteFails \/ ReceiptOfRevert \/ ReceiptMissing
    BY <1>4 DEF SendWriteFails, Writing, ReceiptOfRevert, ReceiptMissing, AwaitsReceipt,
                CommitmentInv, CostSoFar, PricesSales
<1>5. CASE BuildOffer \/ BuildQuote
    BY <1>5 DEF BuildOffer, BuildQuote, Answer, Offer, PricesSales
<1>6. CASE Pick
    BY <1>1, <1>2, <1>3, <1>6 DEF Pick, Ignore, TakeBuy, TakeSell, TakeSoftQuote, locals
<1>7. CASE Handle
    BY <1>1, <1>4, <1>5, <1>7
    DEF Handle, AmountPanics, SendWrite, ReceiptOfWrite, AwaitsReceipt, SignOrder, Send,
        RunReturns, DropRun, BackToSelect
<1>8. CASE Reconnects
    BY <1>1, <1>2, <1>8 DEF Reconnects, DropRun, BackToSelect, locals
<1>9. CASE SessionExpires \/ External \/ UNCHANGED vars
    BY <1>2, <1>9
    DEF SessionExpires, External, Deliver, Transmit, Mine, Revert, Fill, Tick, vars, locals
<1> QED
    BY <1>6, <1>7, <1>8, <1>9 DEF Next

\* Every RFQ of the taker is well formed.
LEMMA RfqIsValid ==
    ASSUME NEW k \in 1..MaxAsks, NEW a \in {"Buy", "Sell"}
    PROVE  ValidRfq(QuoteRequest(k, a))
BY TradeAssumption, RequestAssumption DEF ValidRfq, QuoteRequest

\* Asking goes on where it was, and what was asked stays.
LEMMA AskedOnward ==
    ASSUME TradeInv, [TradeNext]_tradeVars
    PROVE  \A k \in DOMAIN asked : k \in DOMAIN asked' /\ asked'[k] = asked[k]
<1>0. TradeTypes
    BY DEF TradeInv
<1>1. CASE TakerKind
    BY <1>0, <1>1, AskedStays DEF TakerKind, TakerMoves
<1>2. CASE MakerKind \/ CarryRfq \/ CarrySoft \/ ReturnRfq \/ ReturnSoft
    BY <1>2 DEF MakerKind, CarryRfq, CarrySoft, ReturnRfq, ReturnSoft, takerVars
<1> QED
    BY <1>1, <1>2, TradeKinds

LEMMA DeclinesNext ==
    TradeInv /\ PricesSales /\ DeclinesInv /\ [TradeNext]_tradeVars => DeclinesInv'
<1> SUFFICES ASSUME TradeInv, PricesSales, DeclinesInv, [TradeNext]_tradeVars PROVE DeclinesInv'
    OBVIOUS
<1>0. /\ TradeTypes /\ RoutedInv /\ AnswerInv /\ PendingInv
      /\ Held("rfq") \subseteq routed["rfq"]
      /\ outq \in [Streams -> Seq(Replies)]
      /\ reply \in Replies /\ branch \in Streams /\ "rfq" \in Streams
      /\ \A k \in DOMAIN asked : k \in DOMAIN asked' /\ asked'[k] = asked[k]
    BY HeldRouted, AskedOnward
    DEF TradeInv, CommitmentInv, TypeInv, TypeOK, ChannelsOK, LocalsOK, Streams
<1> DEFINE OnWay == \A j \in DOMAIN outq["rfq"] :
                        outq["rfq"][j].kind # "offer" => asked[outq["rfq"][j].ulid] = "Buy"
           InBox == \A j \in DOMAIN inbox :
                        ~inbox[j].offer => /\ inbox[j].rfq \in DOMAIN asked
                                           /\ asked[inbox[j].rfq] = "Buy"
<1>b. DeclinesInv <=> OnWay /\ InBox
    BY DEF DeclinesInv
<1>d. OnWay' /\ InBox' => DeclinesInv'
    BY DEF DeclinesInv
<1>c. \A j \in DOMAIN outq["rfq"] : outq["rfq"][j].ulid \in DOMAIN asked
    BY <1>0 DEF PendingInv, Coming, RoutedInv, Asked
<1>1. ASSUME outq'["rfq"] = outq["rfq"] PROVE OnWay'
    BY <1>0, <1>b, <1>c, <1>1
<1>2. ASSUME UNCHANGED inbox PROVE InBox'
    BY <1>0, <1>b, <1>2
<1>3. CASE MakerKind
  <2>1. UNCHANGED <<inbox, asked>>
      BY <1>3 DEF MakerKind, takerVars
  <2>2. CASE MakerQuiet
      BY <1>d, <1>1, <1>2, <2>1, <2>2 DEF MakerQuiet
  <2>3. CASE MakerDrops
    <3>1. outq'["rfq"] = <<>>
        BY <1>0, <2>3 DEF MakerDrops
    <3>2. OnWay'
        BY <3>1
    <3> QED
        BY <1>d, <1>2, <2>1, <3>2
  <2>4. CASE MakerSends /\ branch # "rfq"
    <3>1. outq'["rfq"] = outq["rfq"]
        BY <1>0, <2>4 DEF MakerSends
    <3> QED
        BY <1>d, <1>1, <1>2, <2>1, <3>1
  <2>5. CASE MakerSends /\ branch = "rfq"
    <3> DEFINE q == outq["rfq"]
    <3>1. q \in Seq(Replies) /\ outq'["rfq"] = Append(q, reply) /\ at = "send"
        BY <1>0, <2>5 DEF MakerSends
    <3>2. cur \in routed["rfq"] /\ reply.ulid = cur.ulid
        BY <1>0, <2>5, <3>1 DEF Held, AnswerInv
    <3>3. Asked(cur.ulid) /\ cur = QuoteRequest(cur.ulid, asked[cur.ulid])
        BY <1>0, <3>2 DEF RoutedInv
    <3>4. asked[cur.ulid] \in {"Buy", "Sell"}
        BY <1>0, <3>3, ElementOfSeq, LenProperties DEF Asked, TradeTypes
    <3>5. asked[cur.ulid] = "Sell" => reply.kind = "offer"
      <4>1. PICK a : a = asked[cur.ulid]
          OBVIOUS
      <4>2. PICK u : u = cur.ulid
          OBVIOUS
      <4>3. ValidRfq(QuoteRequest(u, a))
          BY <3>3, <3>4, <4>1, <4>2, RfqIsValid DEF Asked
      <4>4. cur = QuoteRequest(u, a)
          BY <3>3, <4>1, <4>2
      <4>5. QuoteRequest(u, a).action = a
          BY DEF QuoteRequest
      <4> QED
          BY <2>5, <3>1, <4>1, <4>3, <4>4, <4>5 DEF PricesSales
    <3>6. reply.kind # "offer" => asked[reply.ulid] = "Buy"
        BY <3>2, <3>4, <3>5
    <3>7. ASSUME NEW j \in DOMAIN outq'["rfq"], outq'["rfq"][j].kind # "offer"
          PROVE  asked'[outq'["rfq"][j].ulid] = "Buy"
      <4>1. \/ outq'["rfq"][j] = reply
            \/ j \in DOMAIN q /\ outq'["rfq"][j] = q[j]
        <5> HIDE DEF q
        <5> QED
            BY <1>0, <3>1, Pushed
      <4> QED
          BY <1>b, <2>1, <3>6, <3>7, <4>1
    <3> QED
        BY <1>d, <1>2, <2>1, <3>7
  <2> QED
      BY <1>3, <2>2, <2>3, <2>4, <2>5 DEF MakerKind
<1>4. CASE CarryRfq \/ CarrySoft
    BY <1>d, <1>1, <1>2, <1>4 DEF CarryRfq, CarrySoft, Deliver, takerVars
<1>5. CASE ReturnSoft
  <2>1. UNCHANGED inbox /\ outq'["rfq"] = outq["rfq"]
      BY <1>0, <1>5 DEF ReturnSoft, Transmit
  <2> QED
      BY <1>d, <1>1, <1>2, <2>1
<1>6. CASE ReturnRfq
  <2> DEFINE q == outq["rfq"]
             a == Head(q)
             e == [rfq |-> a.ulid, offer |-> a.kind = "offer"]
  <2>1. /\ q \in Seq(Replies) /\ q # <<>> /\ outq'["rfq"] = Tail(q)
        /\ inbox' = Append(inbox, e) /\ UNCHANGED asked
      BY <1>0, <1>6 DEF ReturnRfq, Transmit
  <2>2. /\ 1 \in DOMAIN q /\ a = q[1]
        /\ \A k \in DOMAIN Tail(q) : k + 1 \in DOMAIN q /\ Tail(q)[k] = q[k + 1]
      BY <2>1, Popped
  <2>3. ASSUME NEW k \in DOMAIN Tail(q), Tail(q)[k].kind # "offer"
        PROVE  asked[Tail(q)[k].ulid] = "Buy"
      BY <1>b, <2>2, <2>3
  <2>4. OnWay'
      BY <2>1, <2>3
  <2>5. /\ e.rfq \in DOMAIN asked /\ e \in [rfq : Nat, offer : BOOLEAN]
        /\ ~e.offer => asked[e.rfq] = "Buy"
    <3>1. a.ulid \in DOMAIN asked /\ (a.kind # "offer" => asked[a.ulid] = "Buy")
        BY <1>b, <1>c, <2>2
    <3>2. a.ulid \in Nat
        BY <2>1, FirstAnswer, TradeAssumption DEF Asked, Streams
    <3> HIDE DEF a
    <3> QED
        BY <3>1, <3>2
  <2> HIDE DEF q, a, e
  <2>6. ASSUME NEW j \in DOMAIN inbox', ~inbox'[j].offer
        PROVE  inbox'[j].rfq \in DOMAIN asked /\ asked[inbox'[j].rfq] = "Buy"
    <3>1. \/ inbox'[j] = e
          \/ j \in DOMAIN inbox /\ inbox'[j] = inbox[j]
        BY <1>0, <2>1, <2>5, <2>6, Pushed DEF TradeTypes
    <3> QED
        BY <1>b, <2>5, <2>6, <3>1
  <2>7. InBox'
      BY <2>1, <2>6
  <2> QED
      BY <1>d, <2>4, <2>7
<1>7. CASE TakerKind
  <2>1. outq'["rfq"] = outq["rfq"]
      BY <1>7 DEF TakerKind
  <2>2. ASSUME NEW j \in DOMAIN inbox' PROVE \E k \in DOMAIN inbox : inbox'[j] = inbox[k]
    <3>1. CASE inbox # <<>> /\ inbox' = Tail(inbox)
      <4>1. \A k \in DOMAIN Tail(inbox) : k + 1 \in DOMAIN inbox /\ Tail(inbox)[k] = inbox[k + 1]
          BY <1>0, <3>1, Popped DEF TradeTypes
      <4> QED
          BY <2>2, <3>1, <4>1
    <3> QED
        BY <1>7, <2>2, <3>1 DEF TakerKind, TakerMoves
  <2>3. InBox'
      BY <1>0, <1>b, <2>2
  <2> QED
      BY <1>d, <1>1, <2>1, <2>3
<1> QED
    BY <1>3, <1>4, <1>5, <1>6, <1>7, TradeKinds

\* One RFQ more, where there was none out.
LEMMA AsksOne ==
    ASSUME TradeTypes, NEW a \in {"Buy", "Sell"}, T!Ask(a), unanswered = {}, inbox' = <<>>
    PROVE  /\ Awaits(a)'
           /\ a = "Buy" /\ (\A k \in DOMAIN asked : asked[k] = "Buy")
                => \A k \in DOMAIN asked' : asked'[k] = "Buy"
           /\ a = "Sell" /\ T!NoBuyAfterSell => T!NoBuyAfterSell'
<1>1. asked \in Seq({"Buy", "Sell"}) /\ asked' = Append(asked, a)
      /\ unanswered' = {"maker"} \X {Len(asked')}
    BY DEF TradeTypes, T!Ask
<1>2. /\ asked' \in Seq({"Buy", "Sell"}) /\ Len(asked) \in Nat
      /\ Len(asked') = Len(asked) + 1 /\ DOMAIN asked = 1..Len(asked)
      /\ DOMAIN asked' = 1..Len(asked') /\ asked'[Len(asked')] = a
      /\ \A k \in 1..Len(asked) : asked'[k] = asked[k]
    BY <1>1, AppendProperties, LenProperties
<1>3. asked' # <<>>
    BY <1>2, EmptySeq
<1>4. Awaits(a)'
    BY <1>1, <1>2, <1>3 DEF Awaits
<1>5. \A k \in DOMAIN asked' : k \in DOMAIN asked \/ k = Len(asked')
    BY <1>2
<1>6. a = "Buy" /\ (\A k \in DOMAIN asked : asked[k] = "Buy")
          => \A k \in DOMAIN asked' : asked'[k] = "Buy"
    BY <1>2, <1>5
<1>7. ASSUME a = "Sell", T!NoBuyAfterSell, NEW i \in DOMAIN asked', NEW j \in DOMAIN asked',
             i < j, asked'[i] = "Sell"
      PROVE  asked'[j] = "Sell"
  <2>1. i \in DOMAIN asked
      BY <1>2, <1>7
  <2> QED
      BY <1>2, <1>5, <1>7, <2>1 DEF T!NoBuyAfterSell
<1> QED
    BY <1>4, <1>6, <1>7 DEF T!NoBuyAfterSell

\* A decline is read while buying only, and only a decline makes the taker ask to
\* buy again.
LEMMA OneAtATimeNext ==
    TradeTypes /\ DeclinesInv /\ OneAtATime /\ [T!Next]_(T!vars) => OneAtATime'
<1> SUFFICES ASSUME TradeTypes, DeclinesInv, OneAtATime, [T!Next]_(T!vars) PROVE OneAtATime'
    OBVIOUS
<1>0. inbox \in Seq([rfq : Nat, offer : BOOLEAN])
    BY DEF TradeTypes
<1>1. ASSUME UNCHANGED <<sellRfq, asked, unanswered, inbox>>,
             tpc' \in BeforeAsking => tpc \in BeforeAsking,
             tpc' = "rfq_wait" => tpc = "rfq_wait",
             tpc \in {"rfq_wait", "failed"} => tpc' \in {"rfq_wait", "failed"}
      PROVE  OneAtATime'
    BY <1>1 DEF OneAtATime, Awaits, Idle, T!NoBuyAfterSell
<1>2. CASE T!Setup \/ T!SetupOption \/ T!AskSoft
    BY <1>1, <1>2 DEF T!Setup, T!SetupOption, T!AskSoft, T!rfqVars, BeforeAsking
<1>3. CASE T!ReadSoft
    BY <1>1, <1>3 DEF T!ReadSoft, T!rfqVars, BeforeAsking
<1>4. CASE T!AskBuy
  <2>1. /\ T!Ask("Buy") /\ tpc' = "rfq_wait" /\ UNCHANGED <<sellRfq, inbox>>
        /\ ~sellRfq /\ unanswered = {} /\ inbox = <<>>
      BY <1>4 DEF T!AskBuy, OneAtATime, BeforeAsking, Idle
  <2>2. Awaits("Buy")' /\ \A k \in DOMAIN asked' : asked'[k] = "Buy"
      BY <2>1, AsksOne DEF OneAtATime
  <2> QED
      BY <2>1, <2>2 DEF OneAtATime, BeforeAsking, T!NoBuyAfterSell
<1>5. ASSUME tpc = "rfq_wait", inbox # <<>>
      PROVE  /\ unanswered = {} /\ Tail(inbox) = <<>> /\ Head(inbox) = inbox[1]
             /\ 1 \in DOMAIN inbox /\ inbox[1].rfq = Len(asked)
             /\ asked[Len(asked)] = IF sellRfq THEN "Sell" ELSE "Buy"
  <2>1. unanswered = {} /\ Len(inbox) = 1 /\ inbox[1].rfq = Len(asked)
        /\ asked[Len(asked)] = IF sellRfq THEN "Sell" ELSE "Buy"
      BY <1>5 DEF OneAtATime, Awaits
  <2>2. Tail(inbox) = <<>> /\ 1 \in DOMAIN inbox /\ Head(inbox) = inbox[1]
      BY <1>0, <1>5, <2>1, Popped
  <2> QED
      BY <2>1, <2>2
<1>6. CASE T!ReadDecline
  <2>1. /\ T!Ask("Buy") /\ tpc = "rfq_wait" /\ tpc' = "rfq_wait" /\ UNCHANGED sellRfq
        /\ inbox # <<>> /\ ~Head(inbox).offer /\ inbox' = Tail(inbox)
      BY <1>6 DEF T!ReadDecline
  <2>2. ~sellRfq
      BY <1>5, <2>1 DEF DeclinesInv
  <2>3. Awaits("Buy")' /\ \A k \in DOMAIN asked' : asked'[k] = "Buy"
      BY <1>5, <2>1, <2>2, AsksOne DEF OneAtATime
  <2> QED
      BY <2>1, <2>2, <2>3 DEF OneAtATime, BeforeAsking, T!NoBuyAfterSell
<1>7. CASE T!ReadOffer
  <2>1. /\ tpc = "rfq_wait" /\ inbox # <<>> /\ inbox' = Tail(inbox) /\ tpc' = "fulfil"
        /\ UNCHANGED <<sellRfq, asked, unanswered>>
      BY <1>7 DEF T!ReadOffer
  <2> QED
      BY <1>5, <2>1 DEF OneAtATime, BeforeAsking, Idle, T!NoBuyAfterSell
<1>8. CASE T!FulfillOrder \/ T!Settle
    BY <1>1, <1>8 DEF T!FulfillOrder, T!Settle, T!rfqVars, BeforeAsking
<1>9. CASE T!CheckBought
  <2>1. /\ T!Ask("Sell") /\ tpc' = "rfq_wait" /\ sellRfq' /\ UNCHANGED inbox
        /\ unanswered = {} /\ inbox = <<>>
      BY <1>9 DEF T!CheckBought, OneAtATime, Idle
  <2>2. Awaits("Sell")' /\ T!NoBuyAfterSell'
      BY <2>1, AsksOne DEF OneAtATime
  <2> QED
      BY <2>1, <2>2 DEF OneAtATime, BeforeAsking
<1>10. CASE T!CheckSold \/ T!AssertionFails \/ T!Fails
    BY <1>1, <1>10 DEF T!CheckSold, T!AssertionFails, T!Fails, T!rfqVars, BeforeAsking
<1>11. CASE T!Ended \/ UNCHANGED T!vars
    BY <1>1, <1>11 DEF T!Ended, T!vars
<1>12. ASSUME NEW m \in {"maker"}, NEW k \in DOMAIN asked, NEW b \in BOOLEAN, T!AnswerRfq(m, k, b)
       PROVE  OneAtATime'
  <2>1. /\ <<"maker", k>> \in unanswered /\ unanswered' = unanswered \ {<<"maker", k>>}
        /\ inbox' = Append(inbox, [rfq |-> k, offer |-> b])
        /\ UNCHANGED <<tpc, sellRfq, asked>>
      BY <1>12 DEF T!AnswerRfq
  <2>2. tpc \in {"rfq_wait", "failed"}
      BY <2>1 DEF OneAtATime, Idle
  <2>3. ASSUME tpc = "rfq_wait" PROVE Awaits(IF sellRfq THEN "Sell" ELSE "Buy")'
    <3>1. /\ asked # <<>> /\ asked[Len(asked)] = IF sellRfq THEN "Sell" ELSE "Buy"
          /\ unanswered \subseteq {<<"maker", Len(asked)>>} /\ inbox = <<>>
        BY <2>1, <2>3 DEF OneAtATime, Awaits
    <3>2. k = Len(asked) /\ unanswered' = {}
        BY <2>1, <3>1
    <3>3. inbox' = <<[rfq |-> k, offer |-> b]>>
        BY <2>1, <3>1
    <3>4. Len(inbox') = 1 /\ inbox'[1].rfq = k
        BY <3>3
    <3> QED
        BY <2>1, <3>1, <3>2, <3>4 DEF Awaits
  <2> QED
      BY <2>1, <2>2, <2>3 DEF OneAtATime, BeforeAsking, T!NoBuyAfterSell
<1>13. ASSUME NEW b \in BOOLEAN, T!AnswerSoft(b) PROVE OneAtATime'
    BY <1>1, <1>13 DEF T!AnswerSoft, T!rfqVars
<1> QED
    BY <1>2, <1>3, <1>4, <1>6, <1>7, <1>8, <1>9, <1>10, <1>11, <1>12, <1>13
    DEF T!Next, T!Step, T!Answer

LEMMA FilledStays == [Next]_vars => filled \subseteq filled'
<1> SUFFICES ASSUME [Next]_vars PROVE filled \subseteq filled'
    OBVIOUS
<1>1. ASSUME NEW i \in published, Fill(i) PROVE filled \subseteq filled'
    BY <1>1 DEF Fill
<1>2. ASSUME UNCHANGED filled PROVE filled \subseteq filled'
    BY <1>2
<1> QED
    BY <1>1, <1>2
    DEF Next, Pick, Handle, External, Ignore, Decline, TakeBuy, TakeSell, TakeSoftQuote,
        AmountPanics, SendWrite, SendWriteFails, ReceiptOfWrite, ReceiptOfRevert,
        ReceiptMissing, AwaitsReceipt, SignOrder, BuildOffer, BuildQuote, Send, RunReturns,
        Reconnects, SessionExpires, Deliver, Transmit, Mine, Revert, Tick, chainVars, vars

LEMMA BoughtStays ==
    ASSUME TradeInv, [TradeNext]_tradeVars, NEW k, BoughtWith(k), received'[k] = received[k]
    PROVE  BoughtWith(k)'
<1>1. k \in DOMAIN asked /\ asked'[k] = asked[k]
    BY AskedOnward DEF BoughtWith, SignedFor, Asked
<1>2. SignedFor(k, received[k])'
  <2>1. \A u, i : SignedFor(u, i) => SignedFor(u, i)'
      BY SignedForStays
  <2>2. PICK i : i = received[k]
      OBVIOUS
  <2>3. SignedFor(k, i)'
      BY <2>1, <2>2 DEF BoughtWith
  <2> QED
      BY <2>2, <2>3
<1>3. filled \subseteq filled'
    BY MakerStepped, FilledStays
<1> QED
    BY <1>1, <1>2, <1>3 DEF BoughtWith

LEMMA PurchaseNext ==
    TradeInv /\ OneAtATime /\ Purchase /\ [TradeNext]_tradeVars => Purchase'
<1> SUFFICES ASSUME TradeInv, OneAtATime, Purchase, [TradeNext]_tradeVars PROVE Purchase'
    OBVIOUS
<1>0. TradeTypes /\ OffersInv /\ Amount \in Nat \ {0}
    BY TradeAssumption DEF TradeInv
<1>1. ASSUME NEW k, BoughtWith(k), UNCHANGED received PROVE BoughtWith(k)'
    BY <1>1, BoughtStays
<1>2. ASSUME UNCHANGED <<tpc, sellRfq, order, fulfilled, holds, received>> PROVE Purchase'
    BY <1>1, <1>2 DEF Purchase
<1>3. ASSUME UNCHANGED <<sellRfq, fulfilled, holds, received>>,
             tpc \in BeforeAsking \cup {"rfq_wait"},
             tpc' \in BeforeAsking \cup {"rfq_wait", "fulfil"}
      PROVE  Purchase'
    BY <1>1, <1>3 DEF Purchase, BeforeAsking
<1>4. ASSUME UNCHANGED <<sellRfq, fulfilled>>, tpc' = "failed" PROVE Purchase'
    BY <1>4 DEF Purchase, BeforeAsking
<1>5. CASE MakerAlone \/ CarryRfq \/ CarrySoft \/ ReturnSoft \/ UNCHANGED tradeVars
    BY <1>2, <1>5 DEF MakerAlone, CarryRfq, CarrySoft, ReturnSoft, takerVars, tradeVars
<1>6. CASE ReturnRfq
  <2> DEFINE u == Head(outq["rfq"]).ulid
  <2>1. /\ outq["rfq"] # <<>> /\ UNCHANGED <<tpc, sellRfq, order, fulfilled, holds, asked>>
        /\ \/ UNCHANGED received
           \/ received' = [received EXCEPT ![u] = Head(outq["rfq"]).order]
      BY <1>6 DEF ReturnRfq, Transmit
  <2>2. <<"maker", u>> \in unanswered
      BY <2>1, FirstAnswer DEF Unanswered, Streams
  <2> HIDE DEF u
  <2>3. tpc \in {"rfq_wait", "failed"}
      BY <2>2 DEF OneAtATime, Idle
  <2>4. ASSUME sellRfq, tpc = "rfq_wait" PROVE BoughtWith(fulfilled[1])'
    <3>1. u = Len(asked) /\ asked[u] = "Sell"
        BY <2>2, <2>4 DEF OneAtATime, Awaits
    <3>2. PICK k : k = fulfilled[1]
        OBVIOUS
    <3>3. BoughtWith(k)
        BY <2>4, <3>2 DEF Purchase
    <3>4. k # u /\ k \in 1..MaxAsks
        BY <3>1, <3>3 DEF BoughtWith, SignedFor, Asked
    <3>5. received'[k] = received[k]
        BY <1>0, <2>1, <3>4 DEF TradeTypes
    <3>6. BoughtWith(k)'
        BY <3>3, <3>5, BoughtStays
    <3> QED
        BY <2>1, <3>2, <3>6
  <2> QED
      BY <2>1, <2>3, <2>4 DEF Purchase, BeforeAsking
<1>7. CASE TakerAlone
  <2>1. UNCHANGED received
      BY <1>7 DEF TakerAlone
  <2>2. CASE T!Setup \/ T!SetupOption \/ T!AskSoft \/ T!ReadSoft \/ T!AskBuy
             \/ T!ReadDecline \/ T!ReadOffer
      BY <1>3, <2>1, <2>2 DEF T!Setup, T!SetupOption, T!AskSoft, T!ReadSoft, T!AskBuy,
         T!ReadDecline, T!ReadOffer, T!rfqVars, BeforeAsking
  <2>3. CASE T!FulfillOrder
    <3>1. /\ tpc = "fulfil" /\ tpc' = "settle" /\ fulfilled' = Append(fulfilled, order)
          /\ UNCHANGED <<sellRfq, order, holds>>
        BY <2>3 DEF T!FulfillOrder
    <3>2. order \in Nat /\ fulfilled \in Seq(Nat)
        BY <1>0, <3>1, TradeAssumption DEF OffersInv, SignedFor, Asked, Purchase
    <3>3. fulfilled' \in Seq(Nat)
        BY <3>1, <3>2, Pushed
    <3>4. ~sellRfq => fulfilled' = <<order>> /\ holds = 0
        BY <3>1 DEF Purchase
    <3>5. ASSUME sellRfq PROVE fulfilled' # <<>> /\ BoughtWith(fulfilled[1])'
      <4>1. fulfilled # <<>> /\ BoughtWith(fulfilled[1])
          BY <3>1, <3>5 DEF Purchase
      <4>2. 1 \in DOMAIN fulfilled
          BY <3>2, <4>1, Popped
      <4>3. 1 \in DOMAIN fulfilled' /\ fulfilled'[1] = fulfilled[1]
          BY <3>1, <3>2, <4>2, Pushed
      <4>4. PICK k : k = fulfilled[1]
          OBVIOUS
      <4>5. BoughtWith(k)
          BY <4>1, <4>4
      <4>6. BoughtWith(k)'
          BY <1>1, <2>1, <4>5
      <4> QED
          BY <4>3, <4>4, <4>6
    <3> QED
        BY <3>1, <3>3, <3>4, <3>5 DEF Purchase, BeforeAsking
  <2>4. CASE T!CheckBought
    <3>1. /\ tpc = "check" /\ ~sellRfq /\ sellRfq' /\ tpc' = "rfq_wait" /\ UNCHANGED fulfilled
          /\ T!OwnedTokens = Amount
        BY <2>4 DEF T!CheckBought
    <3>2. holds # 0
        BY <1>0, <3>1 DEF T!OwnedTokens
    <3>3. fulfilled = <<order>> /\ BoughtWith(order)
        BY <3>1, <3>2 DEF Purchase
    <3>4. PICK k : k = order
        OBVIOUS
    <3>5. BoughtWith(k)' /\ fulfilled'[1] = k /\ fulfilled' # <<>>
        BY <1>1, <2>1, <3>1, <3>3, <3>4
    <3> QED
        BY <3>1, <3>5 DEF Purchase
  <2>5. CASE T!CheckSold
    <3>1. tpc = "check" /\ sellRfq /\ tpc' = "done" /\ UNCHANGED <<sellRfq, fulfilled>>
        BY <2>5 DEF T!CheckSold, T!rfqVars
    <3> QED
        BY <1>1, <2>1, <3>1 DEF Purchase
  <2>6. CASE T!AssertionFails \/ T!Fails
      BY <1>4, <2>6 DEF T!AssertionFails, T!Fails, T!rfqVars
  <2>7. CASE T!Ended
      BY <1>2, <2>1, <2>7 DEF T!Ended, T!vars
  <2>8. ~T!Settle \/ T!Fails \/ T!Ended
      BY <1>7 DEF TakerAlone, T!Settle
  <2> QED
      BY <1>7, <2>2, <2>3, <2>4, <2>5, <2>6, <2>7, <2>8 DEF TakerAlone, T!Step, T!Settle
<1>8. CASE SettleTrade
  <2>1. /\ tpc = "settle" /\ tpc' = "check" /\ UNCHANGED <<sellRfq, asked, order, fulfilled, received>>
        /\ \/ asked[order] = "Buy" /\ holds' = holds + Amount
           \/ asked[order] = "Sell" /\ holds >= Amount /\ holds' = holds - Amount
           \/ UNCHANGED holds
        /\ holds' # holds => Fill(received[order])
      BY <1>8 DEF SettleTrade, T!Settle, T!rfqVars
  <2>2. SignedFor(order, received[order])
      BY <1>0, <2>1 DEF OffersInv
  <2>3. ASSUME ~sellRfq, holds' # 0 PROVE BoughtWith(order)'
    <3>1. holds = 0
        BY <2>1, <2>3 DEF Purchase
    <3>2. asked[order] = "Buy" /\ Fill(received[order])
        BY <1>0, <2>1, <2>3, <3>1
    <3>3. received[order] \in filled'
        BY <3>2 DEF Fill
    <3>4. SignedFor(order, received[order])'
      <4>1. \A v, i : SignedFor(v, i) => SignedFor(v, i)'
          BY SignedForStays
      <4>2. PICK i : i = received[order]
          OBVIOUS
      <4>3. PICK v : v = order
          OBVIOUS
      <4>4. SignedFor(v, i)'
          BY <2>2, <4>1, <4>2, <4>3
      <4> QED
          BY <2>1, <4>2, <4>3, <4>4
    <3> QED
        BY <2>1, <3>2, <3>3, <3>4 DEF BoughtWith
  <2>4. sellRfq => fulfilled # <<>> /\ BoughtWith(fulfilled[1])'
      BY <1>1, <2>1 DEF Purchase
  <2> QED
      BY <2>1, <2>3, <2>4 DEF Purchase, BeforeAsking
<1> QED
    BY <1>5, <1>6, <1>7, <1>8 DEF TradeNext

LEMMA SaleInit == TradeInit => SaleInv
<1> SUFFICES ASSUME TradeInit PROVE SaleInv
    OBVIOUS
<1>1. /\ at = "select" /\ outq = Empty
      /\ tpc = "setup" /\ sellRfq = FALSE /\ asked = <<>> /\ unanswered = {} /\ inbox = <<>>
      /\ fulfilled = <<>> /\ holds = 0
    BY DEF TradeInit, Init, T!Init
<1>2. outq["rfq"] = <<>> /\ DOMAIN <<>> = {} /\ <<>> \in Seq(Nat)
    BY <1>1 DEF Empty, Streams
<1> QED
    BY <1>1, <1>2
    DEF SaleInv, PricesSales, DeclinesInv, OneAtATime, Idle, Purchase, BeforeAsking,
        T!NoBuyAfterSell

LEMMA SaleInvariant == TradeSpec => []SaleInv
<1>1. TradeInv /\ SaleInv /\ [TradeNext]_tradeVars => SaleInv'
  <2> SUFFICES ASSUME TradeInv, SaleInv, [TradeNext]_tradeVars PROVE SaleInv'
      OBVIOUS
  <2>1. TypeInv /\ CommitmentInv /\ TradeTypes
      BY DEF TradeInv
  <2>2. PricesSales'
      BY <2>1, MakerStepped, PricesNext DEF SaleInv
  <2>3. DeclinesInv'
      BY DeclinesNext DEF SaleInv
  <2>4. OneAtATime'
      BY <2>1, TakerStepped, OneAtATimeNext DEF SaleInv
  <2>5. Purchase'
      BY PurchaseNext DEF SaleInv
  <2> QED
      BY <2>2, <2>3, <2>4, <2>5 DEF SaleInv
<1> QED
    BY <1>1, SaleInit, TradeInvariant, PTL DEF TradeSpec

\* A taker that has begun to sell never asks to buy again: a decline would make it
\* (taker.rs answers every decline with the purchase request), but with this maker
\* alone it has one request out at a time, and the maker declines no sale
\* (rfq_request.rs checks nothing against the wallet).
THEOREM TakerSellsOn == TradeSpec => []SellsOn
<1>1. SaleInv => SellsOn
    BY DEF SaleInv, OneAtATime, SellsOn
<1> QED
    BY <1>1, SaleInvariant, PTL

\* What the taker reports rests on a trade that took place: whatever was declined,
\* lost or reverted, success means that its purchase was filled, with options
\* written for that very request.
THEOREM SuccessFollowsPurchase == TradeSpec => []SuccessMeansBought
<1>1. SaleInv /\ OfferHasOwnLot => SuccessMeansBought
  <2> SUFFICES ASSUME SaleInv, OfferHasOwnLot, tpc = "done"
               PROVE  LET bought == received[fulfilled[1]]
                      IN  /\ bought \in filled
                          /\ signed[bought].req.action = "Buy"
                          /\ writes[signed[bought].lot] =
                                [req |-> signed[bought].req, status |-> "mined"]
      BY DEF SuccessMeansBought
  <2>1. PICK k : k = fulfilled[1]
      OBVIOUS
  <2>2. BoughtWith(k)
      BY <2>1 DEF SaleInv, Purchase
  <2>3. PICK i : i = received[k]
      OBVIOUS
  <2>4. i \in filled /\ i \in DOMAIN signed /\ signed[i].req = QuoteRequest(k, "Buy")
      BY <2>2, <2>3 DEF BoughtWith, SignedFor
  <2>5. signed[i].req.action = "Buy"
      BY <2>4 DEF QuoteRequest
  <2>6. writes[signed[i].lot] = [req |-> signed[i].req, status |-> "mined"]
      BY <2>4, <2>5 DEF OfferHasOwnLot, BuyOrders
  <2> QED
      BY <2>1, <2>3, <2>4, <2>5, <2>6
<1> QED
    BY <1>1, SaleInvariant, TradeKeepsMaker, OffersHaveOwnLots, PTL

-----------------------------------------------------------------------------
(* The exchange.                                                           *)

\* Every order is signed for an RFQ the taker asked, as it was asked, and for no
\* RFQ there are two.
AsAsked ==
    \A i \in DOMAIN signed :
        LET k == signed[i].req.ulid
        IN  /\ k \in 1..MaxAsks /\ k \in DOMAIN asked /\ asked[k] \in {"Buy", "Sell"}
            /\ signed[i].req = QuoteRequest(k, asked[k])
            /\ Struck(k) = {i}

LEMMA SignedAsAsked == TradeInv => AsAsked
<1> SUFFICES ASSUME TradeInv, NEW i \in DOMAIN signed
             PROVE  LET k == signed[i].req.ulid
                    IN  /\ k \in 1..MaxAsks /\ k \in DOMAIN asked /\ asked[k] \in {"Buy", "Sell"}
                        /\ signed[i].req = QuoteRequest(k, asked[k])
                        /\ Struck(k) = {i}
    BY DEF AsAsked
<1>1. \A j \in DOMAIN signed :
          /\ signed[j].req \in routed["rfq"]
          /\ \A l \in DOMAIN signed : signed[l].req = signed[j].req => l = j
    BY DEF TradeInv, CommitmentInv, OneCommitmentPerRequest, Warranted
<1>2. \A r \in routed["rfq"] : Asked(r.ulid) /\ r = QuoteRequest(r.ulid, asked[r.ulid])
    BY DEF TradeInv, RoutedInv
<1>3. \A j \in DOMAIN signed :
          signed[j].req.ulid = signed[i].req.ulid => signed[j].req = signed[i].req
    BY <1>1, <1>2
<1>4. Struck(signed[i].req.ulid) = {i}
    BY <1>1, <1>3 DEF Struck
<1>5. \A k \in DOMAIN asked : asked[k] \in {"Buy", "Sell"}
    BY ElementOfSeq, LenProperties DEF TradeInv, TradeTypes
<1> QED
    BY <1>1, <1>2, <1>4, <1>5 DEF Asked

\* So the deal over an RFQ is that of its one order.
LEMMA StruckOnce ==
    ASSUME TradeInv
    PROVE  /\ \A i \in DOMAIN signed :
                Deal(signed[i].req.ulid) =
                    IF i \in filled THEN "settled" ELSE asked[signed[i].req.ulid]
           /\ \A k : Deal(k) # "open" =>
                \E i \in DOMAIN signed : signed[i].req.ulid = k /\ Struck(k) = {i}
<1>1. ASSUME NEW i \in DOMAIN signed
      PROVE  Deal(signed[i].req.ulid) =
                 IF i \in filled THEN "settled" ELSE asked[signed[i].req.ulid]
    BY SignedAsAsked DEF AsAsked, Deal
<1>2. ASSUME NEW k, Deal(k) # "open"
      PROVE  \E i \in DOMAIN signed : signed[i].req.ulid = k /\ Struck(k) = {i}
  <2>1. PICK i \in DOMAIN signed : signed[i].req.ulid = k
      BY <1>2 DEF Deal, Struck
  <2> QED
      BY <2>1, SignedAsAsked DEF AsAsked
<1> QED
    BY <1>1, <1>2

\* The options of all purchases that are struck and not settled are there.
OwedCovered == E!Owed <= balance[CreatedOption]

\* Each of these purchases is an offer of the maker, of just its amount.
LEMMA OffersCoverDeals ==
    TradeInv /\ OffersAreCovered => OwedCovered
<1> SUFFICES ASSUME TradeInv, OffersAreCovered PROVE OwedCovered
    OBVIOUS
<1>0. /\ signed \in Seq(Orders) /\ balance \in [Options -> Nat] /\ CreatedOption \in Options
      /\ Amount \in Nat \ {0} /\ MaxAsks \in Nat /\ usdc \in Nat
    BY TradeAssumption DEF TradeInv, TypeInv, TypeOK, LedgerOK
<1> DEFINE due == [k \in 1..MaxAsks |-> Amount]
           P == E!Purchases
           O == Outstanding(CreatedOption)
<1>1. P = {k \in 1..MaxAsks : Deal(k) = "Buy"}
    BY DEF E!Purchases
<1>2. E!Owed = SumFunctionOnSet(due, P)
    BY DEF E!Owed, E!SumFunctionOnSet, E!FoldFunctionOnSet, E!MapThenFoldSet,
           SumFunctionOnSet, FoldFunctionOnSet, MapThenFoldSet
<1>3. \A k \in P : \E i \in DOMAIN signed :
          /\ signed[i].req.ulid = k /\ Struck(k) = {i}
          /\ i \in O /\ Amounts[i] = Amount
  <2> SUFFICES ASSUME NEW k \in P
               PROVE  \E i \in DOMAIN signed : /\ signed[i].req.ulid = k /\ Struck(k) = {i}
                                               /\ i \in O /\ Amounts[i] = Amount
      OBVIOUS
  <2>1. PICK i \in DOMAIN signed : signed[i].req.ulid = k /\ Struck(k) = {i}
      BY <1>1, StruckOnce
  <2>2. asked[k] = "Buy" /\ i \notin filled
      BY <1>1, <2>1, StruckOnce
  <2>3. signed[i].req = QuoteRequest(k, "Buy")
      BY <2>1, <2>2, SignedAsAsked DEF AsAsked
  <2>4. signed[i].req.action = "Buy" /\ signed[i].req.option = CreatedOption
        /\ signed[i].req.amount = Amount
      BY <2>3 DEF QuoteRequest
  <2> QED
      BY <2>1, <2>2, <2>4 DEF Outstanding, BuyOrders, Amounts
<1> DEFINE its(k) == CHOOSE i \in DOMAIN signed : Struck(k) = {i}
<1>4. \A k \in P : /\ its(k) \in DOMAIN signed /\ signed[its(k)].req.ulid = k
                   /\ its(k) \in O /\ Amounts[its(k)] = Amount
  <2> SUFFICES ASSUME NEW k \in P
               PROVE  /\ its(k) \in DOMAIN signed /\ signed[its(k)].req.ulid = k
                      /\ its(k) \in O /\ Amounts[its(k)] = Amount
      OBVIOUS
  <2>1. PICK i \in DOMAIN signed : /\ signed[i].req.ulid = k /\ Struck(k) = {i}
                                   /\ i \in O /\ Amounts[i] = Amount
      BY <1>3
  <2>2. its(k) = i
      BY <2>1
  <2> QED
      BY <2>1, <2>2
<1>5. /\ IsFiniteSet(P) /\ IsFiniteSet(O)
      /\ \A k \in P : due[k] \in Nat /\ due[k] = Amount
  <2>1. P \subseteq 1..MaxAsks
      BY <1>1
  <2>2. DOMAIN signed = 1..Len(signed) /\ Len(signed) \in Nat
      BY <1>0, LenProperties
  <2>3. O \subseteq DOMAIN signed
      BY DEF Outstanding, BuyOrders
  <2>4. \A k \in P : due[k] = Amount
      BY <2>1
  <2> HIDE DEF P, O
  <2>5. IsFiniteSet(1..MaxAsks) /\ IsFiniteSet(1..Len(signed))
      BY <1>0, <2>2, FS_Interval
  <2>6. IsFiniteSet(P)
      BY <2>1, <2>5, FS_Subset
  <2>7. IsFiniteSet(O)
      BY <2>2, <2>3, <2>5, FS_Subset
  <2> QED
      BY <1>0, <2>4, <2>6, <2>7
<1>6. \A i \in O : Amounts[i] \in Nat
  <2>1. ASSUME NEW i \in DOMAIN signed PROVE signed[i].req.amount = Amount
    <3>1. \E k, a : signed[i].req = QuoteRequest(k, a)
        BY <2>1, SignedAsAsked DEF AsAsked
    <3> QED
        BY <3>1 DEF QuoteRequest
  <2> QED
      BY <1>0, <2>1 DEF Outstanding, BuyOrders, Amounts
<1> HIDE DEF its, due, P, O
<1> DEFINE j == [k \in P |-> its(k)]
<1>7. j \in [P -> O] /\ (\A k \in P : j[k] = its(k))
    BY <1>4
<1>8. /\ \A k, l \in P : j[k] = j[l] => k = l
      /\ \A k \in P : due[k] <= Amounts[j[k]]
    BY <1>0, <1>4, <1>5, <1>7
<1> HIDE DEF j
<1>9. SumFunctionOnSet(due, P) <= SumFunctionOnSet(Amounts, O)
    BY <1>5, <1>6, <1>7, <1>8, SumInjection
<1>10. SumFunctionOnSet(due, P) \in Nat /\ SumFunctionOnSet(Amounts, O) \in Nat
    BY <1>5, <1>6, SumType
<1>11. SumFunctionOnSet(Amounts, O) <= balance[CreatedOption]
    BY <1>0, <1>10 DEF OffersAreCovered, O
<1> QED
    BY <1>0, <1>2, <1>9, <1>10, <1>11 DEF OwedCovered

\* Asking strikes nothing, and what was asked stays.
LEMMA DealsStay ==
    ASSUME TradeInv, [TradeNext]_tradeVars, UNCHANGED <<signed, filled>>
    PROVE  \A k \in 1..MaxAsks : Deal(k)' = Deal(k)
<1> SUFFICES ASSUME NEW k \in 1..MaxAsks PROVE Deal(k)' = Deal(k)
    OBVIOUS
<1>1. Struck(k)' = Struck(k)
    BY DEF Struck
<1>2. CASE Struck(k) = {}
    BY <1>1, <1>2 DEF Deal
<1>3. CASE Struck(k) # {}
  <2>1. k \in DOMAIN asked
      BY <1>3, SignedAsAsked DEF AsAsked, Struck
  <2>2. asked'[k] = asked[k]
      BY <2>1, AskedOnward
  <2> QED
      BY <1>1, <2>2 DEF Deal
<1> QED
    BY <1>2, <1>3

Deals == [k \in 1..MaxAsks |-> Deal(k)]

LEMMA ExchangeStutters ==
    ASSUME TradeInv, [TradeNext]_tradeVars, UNCHANGED <<signed, filled, balance, usdc, holds>>
    PROVE  UNCHANGED E!exchangeVars
<1>1. Deals' = Deals
    BY DealsStay DEF Deals
<1> QED
    BY <1>1 DEF E!exchangeVars, Deals

\* A signature strikes the deal of the request in hand, which was open.
LEMMA SigningStrikes ==
    ASSUME TradeInv, AsAsked', [TradeNext]_tradeVars, FilledSigned, OwedCovered',
           SignOrder, UNCHANGED holds
    PROVE  \E k \in 1..MaxAsks : \E side \in {"Buy", "Sell"} : E!Strike(k, side)
<1> DEFINE i == Len(signed) + 1
<1>1. /\ signed' = Append(signed, [req |-> cur, lot |-> lot, until |-> until])
      /\ UNCHANGED <<balance, usdc, filled>>
      /\ signed \in Seq(Orders) /\ [req |-> cur, lot |-> lot, until |-> until] \in Orders
    BY DEF SignOrder, chainVars, TradeInv, TypeInv, TypeOK, LedgerOK, LocalsOK, InHandler, Orders
<1>2. /\ i \notin DOMAIN signed /\ i \in DOMAIN signed'
      /\ \A j \in DOMAIN signed : j \in DOMAIN signed' /\ signed'[j] = signed[j]
      /\ \A j \in DOMAIN signed' : j \in DOMAIN signed \/ j = i
    BY <1>1, Pushed
<1>3. PICK n : n = i
    OBVIOUS
<1>4. PICK k : k = signed'[n].req.ulid
    OBVIOUS
<1>5. /\ k \in 1..MaxAsks /\ asked'[k] \in {"Buy", "Sell"} /\ Struck(k)' = {n}
    BY <1>2, <1>3, <1>4 DEF AsAsked
<1>6. Deal(k) = "open" /\ Deal(k)' = asked'[k]
  <2>1. ASSUME NEW m \in Struck(k) PROVE FALSE
      BY <1>2, <1>3, <1>5, <2>1 DEF Struck
  <2>2. n \notin filled'
      BY <1>1, <1>2, <1>3 DEF FilledSigned
  <2> QED
      BY <1>5, <2>1, <2>2 DEF Deal
<1>7. ASSUME NEW l \in 1..MaxAsks, l # k PROVE Deal(l)' = Deal(l)
  <2>1. Struck(l)' = Struck(l)
      BY <1>2, <1>3, <1>4, <1>7 DEF Struck
  <2>2. CASE Struck(l) = {}
      BY <2>1, <2>2 DEF Deal
  <2>3. CASE Struck(l) # {}
    <3>1. l \in DOMAIN asked
        BY <2>3, SignedAsAsked DEF AsAsked, Struck
    <3>2. asked'[l] = asked[l]
        BY <3>1, AskedOnward
    <3> QED
        BY <1>1, <2>1, <3>2 DEF Deal
  <2> QED
      BY <2>2, <2>3
<1>8. Deals' = [Deals EXCEPT ![k] = asked'[k]] /\ Deals[k] = "open"
    BY <1>5, <1>6, <1>7 DEF Deals
<1>9. E!Owed' <= balance[CreatedOption]
    BY <1>1 DEF OwedCovered
<1>10. E!Strike(k, asked'[k])
    BY <1>1, <1>8, <1>9 DEF E!Strike, Deals
<1> QED
    BY <1>5, <1>10

LEMMA MiningWrites ==
    ASSUME TradeInv, [TradeNext]_tradeVars, NEW i \in DOMAIN writes, Mine(i), UNCHANGED holds
    PROVE  E!WriteOptions
<1>1. /\ balance' = [balance EXCEPT ![writes[i].req.option] = @ + writes[i].req.amount]
      /\ UNCHANGED <<signed, usdc, filled>>
    BY DEF Mine
<1>2. balance \in [Options -> Nat] /\ CreatedOption \in Options
    BY TradeAssumption DEF TradeInv, TypeInv, TypeOK, LedgerOK
<1>3. writes[i].req \in routed["rfq"]
    BY DEF TradeInv, CommitmentInv, OneCommitmentPerRequest, Warranted
<1>4. writes[i].req.option = CreatedOption /\ writes[i].req.amount = Amount
    BY <1>3 DEF TradeInv, RoutedInv, QuoteRequest
<1>5. balance'[CreatedOption] = balance[CreatedOption] + Amount
    BY <1>1, <1>2, <1>4
<1>6. Deals' = Deals
    BY <1>1, DealsStay DEF Deals
<1> QED
    BY <1>1, <1>5, <1>6 DEF E!WriteOptions, Deals

\* The order that Seaport fills is the order of the deal the taker settles.
LEMMA FillingSettles ==
    ASSUME TradeInv, AsAsked', [TradeNext]_tradeVars, SettleTrade, holds' # holds
    PROVE  \E k \in 1..MaxAsks : E!SettleBuy(k) \/ E!SettleSell(k)
<1>1. PICK i : i = received[order]
    OBVIOUS
<1>2. PICK k : k = order
    OBVIOUS
<1>3. /\ Fill(i) /\ UNCHANGED asked
      /\ \/ asked[k] = "Buy" /\ holds' = holds + Amount
         \/ asked[k] = "Sell" /\ holds >= Amount /\ holds' = holds - Amount
    BY <1>1, <1>2 DEF SettleTrade, T!Settle, T!rfqVars
<1>4. k \in 1..MaxAsks /\ i \in DOMAIN signed /\ signed[i].req = QuoteRequest(k, asked[k])
  <2>1. SignedFor(k, i)
      BY <1>1, <1>2 DEF SettleTrade, T!Settle, TradeInv, OffersInv
  <2> QED
      BY <2>1 DEF SignedFor, Asked
<1>5. /\ signed[i].req.ulid = k /\ signed[i].req.option = CreatedOption
      /\ signed[i].req.amount = Amount /\ signed[i].req.action = asked[k]
    BY <1>4 DEF QuoteRequest
<1>6. Struck(k) = {i}
    BY <1>4, <1>5, SignedAsAsked DEF AsAsked
<1>7. /\ i \notin filled /\ filled' = filled \cup {i} /\ UNCHANGED signed
    BY <1>3 DEF Fill, Live
<1>8. Deal(k) = asked[k] /\ Deal(k)' = "settled"
    BY <1>3, <1>6, <1>7 DEF Deal, Struck
<1>9. ASSUME NEW l \in 1..MaxAsks, l # k PROVE Deal(l)' = Deal(l)
  <2>1. Struck(l)' = Struck(l) /\ i \notin Struck(l)
      BY <1>5, <1>7, <1>9 DEF Struck
  <2> QED
      BY <1>3, <1>7, <2>1 DEF Deal
<1>10. Deals' = [Deals EXCEPT ![k] = "settled"] /\ Deals[k] = asked[k]
    BY <1>4, <1>8, <1>9 DEF Deals
<1>11. balance \in [Options -> Nat] /\ CreatedOption \in Options
    BY TradeAssumption DEF TradeInv, TypeInv, TypeOK, LedgerOK
<1>12. CASE asked[k] = "Buy"
  <2>1. /\ balance[CreatedOption] >= Amount /\ usdc' = usdc + Price
        /\ balance'[CreatedOption] = balance[CreatedOption] - Amount
      BY <1>3, <1>5, <1>11, <1>12 DEF Fill, Holds
  <2>2. E!SettleBuy(k)
      BY <1>3, <1>10, <1>12, <2>1 DEF E!SettleBuy, Deals
  <2> QED
      BY <1>4, <2>2
<1>13. CASE asked[k] = "Sell"
  <2>1. /\ usdc >= Price /\ usdc' = usdc - Price
        /\ balance'[CreatedOption] = balance[CreatedOption] + Amount
      BY <1>3, <1>5, <1>11, <1>13 DEF Fill, Holds
  <2>2. E!SettleSell(k)
      BY <1>3, <1>10, <1>13, <2>1 DEF E!SettleSell, Deals
  <2> QED
      BY <1>4, <2>2
<1> QED
    BY <1>3, <1>12, <1>13

\* Every step of either program, of the relay or of Seaport is a step of the
\* exchange or none.
LEMMA ExchangeStep ==
    TradeInv /\ AsAsked' /\ FilledSigned /\ OwedCovered' /\ [TradeNext]_tradeVars
        => [E!ExchangeNext]_(E!exchangeVars)
<1> SUFFICES ASSUME TradeInv, AsAsked', FilledSigned, OwedCovered', [TradeNext]_tradeVars
             PROVE  [E!ExchangeNext]_(E!exchangeVars)
    OBVIOUS
<1>1. ASSUME UNCHANGED <<signed, filled, balance, usdc, holds>>
      PROVE  [E!ExchangeNext]_(E!exchangeVars)
    BY <1>1, ExchangeStutters
<1>2. CASE MakerAlone
  <2>0. UNCHANGED holds
      BY <1>2 DEF MakerAlone, takerVars
  <2>1. CASE SignOrder
      BY <2>0, <2>1, SigningStrikes DEF E!ExchangeNext
  <2>2. ASSUME NEW i \in DOMAIN writes, Mine(i) PROVE E!ExchangeNext
      BY <2>0, <2>2, MiningWrites DEF E!ExchangeNext
  <2>3. CASE UNCHANGED <<signed, filled, balance, usdc>>
      BY <1>1, <2>0, <2>3
  <2> QED
      BY <1>2, <2>1, <2>2, <2>3
      DEF MakerAlone, Pick, Handle, Ignore, Decline, TakeBuy, TakeSell, TakeSoftQuote,
          AmountPanics, SendWrite, SendWriteFails, ReceiptOfWrite, ReceiptOfRevert,
          ReceiptMissing, AwaitsReceipt, BuildOffer, BuildQuote, Send, RunReturns,
          Reconnects, SessionExpires, Revert, Tick, chainVars
<1>3. CASE TakerAlone
  <2>1. UNCHANGED holds
      BY <1>3 DEF TakerAlone, T!Step, T!Setup, T!SetupOption, T!AskSoft, T!ReadSoft, T!AskBuy,
                  T!ReadDecline, T!ReadOffer, T!FulfillOrder, T!Settle, T!CheckBought,
                  T!CheckSold, T!AssertionFails, T!Fails, T!Ended, T!vars
  <2> QED
      BY <1>1, <1>3, <2>1 DEF TakerAlone, vars, chainVars
<1>4. CASE CarryRfq \/ CarrySoft \/ ReturnRfq \/ ReturnSoft
    BY <1>1, <1>4
    DEF CarryRfq, CarrySoft, ReturnRfq, ReturnSoft, Deliver, Transmit, chainVars, takerVars
<1>5. CASE SettleTrade
  <2>1. CASE holds' = holds
      BY <1>1, <1>5, <2>1 DEF SettleTrade, vars, chainVars
  <2>2. CASE holds' # holds
      BY <1>5, <2>2, FillingSettles DEF E!ExchangeNext
  <2> QED
      BY <2>1, <2>2
<1>6. CASE UNCHANGED tradeVars
    BY <1>1, <1>6 DEF tradeVars, vars, chainVars, takerVars
<1> QED
    BY <1>2, <1>3, <1>4, <1>5, <1>6 DEF TradeNext

\* Whatever is lost, declined or reverted between the two programs, every RFQ is
\* struck at most once, on the side and for the amount the taker asked, with the
\* options of all struck purchases in the maker's hands (rfq_request.rs writes
\* before it signs), and settled at most once, both accounts at the same time.
THEOREM TradeIsAnExchange == TradeSpec => ImplementsExchange
<1>1. TradeInit => E!ExchangeInit
  <2> SUFFICES ASSUME TradeInit PROVE E!ExchangeInit
      OBVIOUS
  <2>1. /\ signed = <<>> /\ balance = [o \in Options |-> 0] /\ usdc = Funds /\ holds = 0
      BY DEF TradeInit, Init, T!Init
  <2>2. \A k \in 1..MaxAsks : Deal(k) = "open"
      BY <2>1 DEF Deal, Struck
  <2>3. balance[CreatedOption] = 0
      BY <2>1, TradeAssumption
  <2> QED
      BY <2>1, <2>2, <2>3 DEF E!ExchangeInit
<1>2. TradeSpec => []FilledSigned
  <2>1. TradeInit => FilledSigned
      BY DEF TradeInit, Init, FilledSigned
  <2>2. TradeInv /\ FilledSigned /\ [TradeNext]_tradeVars => FilledSigned'
    <3>1. TradeInv => TypeInv
        BY DEF TradeInv
    <3> QED
        BY <3>1, MakerStepped, FilledNext
  <2> QED
      BY <2>1, <2>2, TradeInvariant, PTL DEF TradeSpec
<1>3. TradeSpec => []OwedCovered
    BY TradeInvariant, TradeKeepsMaker, OffersStayCovered, OffersCoverDeals, PTL
<1>4. TradeSpec => []AsAsked
    BY TradeInvariant, SignedAsAsked, PTL
<1> QED
    BY <1>1, <1>2, <1>3, <1>4, TradeInvariant, ExchangeStep, PTL
    DEF TradeSpec, ImplementsExchange, E!ExchangeSpec
=============================================================================
