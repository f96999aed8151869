-------------------------------- MODULE Trade --------------------------------
(***************************************************************************)
(* One taker trading with one maker: the programs of MakerQuoting and of   *)
(* Taker, each with the other in the place of its environment.  The relay  *)
(* carries the taker's requests to the maker while that has a stream open  *)
(* and brings back what the maker answers; Seaport fills an order for both *)
(* or for neither.  What the relay has handed to a run of the maker that   *)
(* ends is lost: neither program sends it again.                           *)
(***************************************************************************)
EXTENDS MakerQuoting

CONSTANTS
    CreatedOption,  \* the option type the taker has created
    Amount,         \* options bought and sold back, 5 in the code
    TakerChain,     \* settings.chain_id of the taker
    MaxAsks         \* bound: the RFQs the relay carries

VARIABLES
    tpc,        \* the await the taker is at
    sellRfq,    \* this and the following: see Taker
    asked,
    order,
    fulfilled,
    unanswered,
    inbox,
    softAsked,
    softInbox,
    declines,
    holds,
    received    \* the signed order in the answer to each RFQ, 0 for none

takerVars == <<tpc, sellRfq, asked, order, fulfilled, unanswered, inbox,
               softAsked, softInbox, declines, holds>>

tradeVars == <<vars, takerVars, received>>

\* The relay names requests; the k-th RFQ of the taker is k, its Soft Quote 0.
QuoteRequest(ulid, action) ==
    [ulid |-> ulid, action |-> action, option |-> CreatedOption, amount |-> Amount,
     chain |-> TakerChain, defects |-> {}]

SoftQuote == QuoteRequest(0, "Buy")

TakerRequests ==
    {SoftQuote} \cup {QuoteRequest(k, a) : k \in 1..MaxAsks, a \in {"Buy", "Sell"}}

ASSUME TradeAssumption ==
    /\ Requests = TakerRequests
    /\ CreatedOption \in Options
    /\ Amount \in Nat \ {0}
    /\ MaxAsks \in Nat
    /\ NoUlid \notin 1..MaxAsks

T == INSTANCE Taker WITH pc <- tpc, Makers <- {"maker"}, MaxDeclines <- MaxAsks

TradeInit ==
    /\ Init
    /\ T!Init
    /\ received = [k \in 1..MaxAsks |-> 0]

-----------------------------------------------------------------------------
(* Steps of one party.                                                     *)

MakerAlone ==
    /\ \/ Pick
       \/ Handle
       \/ Reconnects
       \/ SessionExpires
       \/ \E i \in DOMAIN writes : Mine(i) \/ Revert(i)
       \/ Tick
    /\ UNCHANGED <<takerVars, received>>

TakerAlone ==
    /\ \/ tpc # "settle" /\ T!Step
       \/ T!Fails
       \/ T!Ended
    /\ UNCHANGED <<vars, received>>

-----------------------------------------------------------------------------
(* The relay and Seaport.                                                  *)

CarryRfq ==
    /\ \E k \in DOMAIN asked :
          /\ k <= MaxAsks
          /\ Deliver("rfq", QuoteRequest(k, asked[k]))
    /\ UNCHANGED <<takerVars, received>>

CarrySoft ==
    /\ softAsked > 0
    /\ Deliver("soft", SoftQuote)
    /\ UNCHANGED <<takerVars, received>>

ReturnRfq ==
    /\ Transmit("rfq")
    /\ LET answer == Head(outq["rfq"])
           offer  == answer.kind = "offer"
       IN  /\ unanswered' = unanswered \ {<<"maker", answer.ulid>>}
           /\ inbox' = Append(inbox, [rfq |-> answer.ulid, offer |-> offer])
           /\ declines' = IF offer THEN declines ELSE declines + 1
           /\ received' = IF offer THEN [received EXCEPT ![answer.ulid] = answer.order]
                          ELSE received
    /\ UNCHANGED <<tpc, sellRfq, asked, order, fulfilled, softAsked, softInbox, holds>>

ReturnSoft ==
    /\ Transmit("soft")
    /\ softAsked' = softAsked - 1
    /\ softInbox' = Append(softInbox, Head(outq["soft"]).kind = "quote")
    /\ declines' = IF Head(outq["soft"]).kind = "quote" THEN declines ELSE declines + 1
    /\ UNCHANGED <<tpc, sellRfq, asked, order, fulfilled, unanswered, inbox, holds, received>>

\* Seaport fills the order that the taker has sent it, or nothing happens.
SettleTrade ==
    /\ T!Settle
    /\ IF holds' = holds THEN UNCHANGED vars ELSE Fill(received[order])
    /\ UNCHANGED received

TradeNext ==
    \/ MakerAlone
    \/ TakerAlone
    \/ CarryRfq
    \/ CarrySoft
    \/ ReturnRfq
    \/ ReturnSoft
    \/ SettleTrade

TradeSpec == TradeInit /\ [][TradeNext]_tradeVars

\* The fairness of the maker; the taker's calls end; a request is carried if the
\* maker has its stream open over and over.
FairTradeSpec ==
    /\ TradeSpec
    /\ Fairness
    /\ WF_takerVars(T!Step)
    /\ SF_tradeVars(CarryRfq)
    /\ SF_tradeVars(CarrySoft)

-----------------------------------------------------------------------------
(* Properties.                                                             *)

\* The order that the taker sends to Seaport is the one the maker has signed for
\* the very request that the taker takes it to answer: same action, option and
\* amount, whatever the maker's run the answer comes from.
OrderIsTheOneAsked ==
    tpc \in {"fulfil", "settle", "check"} =>
        /\ received[order] \in DOMAIN signed
        /\ signed[received[order]].req = QuoteRequest(order, asked[order])

\* With this maker the taker that has begun to sell never asks to buy again: what
\* makes it do so is a declined sale (a decline is always followed by the purchase
\* request), and this maker prices every sale.
SellsOn == T!NoBuyAfterSell

\* A taker that reports success has bought what it asked for: its first order was
\* filled, and the options it got are those written for that request.
SuccessMeansBought ==
    tpc = "done" =>
        LET bought == received[fulfilled[1]]
        IN  /\ bought \in filled
            /\ signed[bought].req.action = "Buy"
            /\ writes[signed[bought].lot] = [req |-> signed[bought].req, status |-> "mined"]

\* Everything this maker does to the taker is what the taker is prepared for: one
\* answer at most to every request, none to a request it has not made, and for
\* every purchase or sale its own order filled once.
ImplementsTaker == T!Spec

\* The orders signed for the k-th RFQ; the deal the two parties have over it.
Struck(k) == {i \in DOMAIN signed : signed[i].req.ulid = k}

Deal(k) == IF Struck(k) = {} THEN "open"
           ELSE IF Struck(k) \subseteq filled THEN "settled" ELSE asked[k]

E == INSTANCE Exchange
     WITH Rfqs <- 1..MaxAsks, deals <- [k \in 1..MaxAsks |-> Deal(k)],
          stock <- balance[CreatedOption], held <- holds, cash <- usdc

\* The trade of the two programs is an exchange: whatever is lost, reverted or
\* declined between them, an RFQ is struck once and on the side the taker asked
\* for, the options of all purchases not settled yet are there when it is, and the
\* two accounts move together, once for each deal.
ImplementsExchange == E!ExchangeSpec

\* The run of the maker that had the request in hand has ended, or the request is
\* one that a maker ignores: nobody answers it, and the taker waits for ever.
Handed(s, r) ==
    \/ \E k \in DOMAIN inq[s] : inq[s][k] = r
    \/ at # "select" /\ branch = s /\ cur = r
    \/ \E k \in DOMAIN outq[s] : outq[s][k].ulid = r.ulid

Abandoned ==
    \/ /\ tpc = "rfq_wait"
       /\ inbox = <<>>
       /\ LET k == Len(asked)
          IN  \/ k > MaxAsks
              \/ /\ QuoteRequest(k, asked[k]) \in routed["rfq"]
                 /\ ~Handed("rfq", QuoteRequest(k, asked[k]))
    \/ /\ tpc = "soft_wait"
       /\ softInbox = <<>>
       /\ SoftQuote \in routed["soft"]
       /\ ~Handed("soft", SoftQuote)

\* While the maker keeps coming back, the taker comes to an end, unless its request
\* was lost with a run of the maker: no order of requests, writes, receipts and
\* reconnections leaves both waiting for each other.
TradeEnds == <>[](pc # "serve") \/ <>(tpc \in {"done", "failed"} \/ Abandoned)
=============================================================================
