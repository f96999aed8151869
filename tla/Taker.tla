-------------------------------- MODULE Taker --------------------------------
(***************************************************************************)
(* The taker (examples/taker/taker.rs): one pass of a program that logs    *)
(* in, creates an option type, asks for a Soft Quote, buys Amount options  *)
(* through an RFQ, and sells them back through another.  Whatever goes     *)
(* wrong ends the process; nothing is retried but a request that every     *)
(* maker has declined.                                                     *)
(*                                                                         *)
(* External: the makers and the relay, which pass a request to every maker *)
(* and return the answers one by one, and Seaport, which fills or reverts. *)
(***************************************************************************)
EXTENDS Naturals, Sequences, FiniteSets

CONSTANTS
    Makers,       \* the makers the relay routes a request to
    Amount,       \* options bought and sold back, 5 in the code
    MaxDeclines   \* bound: how often makers decline

ASSUME TakerAssumption ==
    /\ IsFiniteSet(Makers) /\ Makers # {}
    /\ Amount \in Nat \ {0}
    /\ MaxDeclines \in Nat

VARIABLES
    pc,         \* the await the taker is at
    sellRfq,    \* sell_rfq: the options were bought, the sale is on
    asked,      \* what each RFQ sent so far asks for
    order,      \* the RFQ that the offer being fulfilled answers
    fulfilled,  \* history: the RFQs whose offers were sent to Seaport
    unanswered, \* external: <<m, k>> when maker m may still answer RFQ k
    inbox,      \* external: answers on the RFQ stream, not read yet
    softAsked,  \* external: answers to Soft Quotes that may still come
    softInbox,  \* external: answers on the Soft Quote stream, not read yet
    declines,   \* external: how often makers have declined
    holds       \* external: the options of the created type the taker holds

vars == <<pc, sellRfq, asked, order, fulfilled, unanswered, inbox,
          softAsked, softInbox, declines, holds>>

ProgramPoints == {"setup", "option", "ask_soft", "soft_wait", "ask_buy", "rfq_wait",
                  "fulfil", "settle", "check", "done", "failed"}

TypeOK ==
    /\ pc \in ProgramPoints
    /\ sellRfq \in BOOLEAN
    /\ asked \in Seq({"Buy", "Sell"})
    /\ order \in 0..Len(asked)
    /\ fulfilled \in Seq(1..Len(asked))
    /\ unanswered \subseteq Makers \X (1..Len(asked))
    /\ inbox \in Seq([rfq : 1..Len(asked), offer : BOOLEAN])
    /\ softAsked \in Nat
    /\ softInbox \in Seq(BOOLEAN)
    /\ declines \in Nat
    /\ holds \in Nat

Init ==
    /\ pc = "setup"
    /\ sellRfq = FALSE
    /\ asked = <<>>
    /\ order = 0
    /\ fulfilled = <<>>
    /\ unanswered = {}
    /\ inbox = <<>>
    /\ softAsked = 0
    /\ softInbox = <<>>
    /\ declines = 0
    /\ holds = 0

rfqVars == <<sellRfq, asked, order, fulfilled, unanswered, inbox>>
softVars == <<softAsked, softInbox>>

-----------------------------------------------------------------------------
(* Login, option type, Soft Quote.                                         *)

\* Session, clients, signer, approvals and both streams.
Setup ==
    /\ pc = "setup"
    /\ pc' = "option"
    /\ UNCHANGED <<rfqVars, softVars, declines, holds>>

SetupOption ==
    /\ pc = "option"
    /\ pc' = "ask_soft"
    /\ UNCHANGED <<rfqVars, softVars, declines, holds>>

AskSoft ==
    /\ pc = "ask_soft"
    /\ softAsked' = softAsked + Cardinality(Makers)
    /\ pc' = "soft_wait"
    /\ UNCHANGED <<rfqVars, softInbox, declines, holds>>

\* Mutant: a declined Soft Quote is not asked for again.
ReadSoftOnce ==
    /\ pc = "soft_wait"
    /\ softInbox # <<>>
    /\ softInbox' = Tail(softInbox)
    /\ pc' = IF Head(softInbox) THEN "ask_buy" ELSE "soft_wait"
    /\ UNCHANGED <<rfqVars, softAsked, declines, holds>>

ReadSoft ==
    /\ pc = "soft_wait"
    /\ softInbox # <<>>
    /\ softInbox' = Tail(softInbox)
    /\ pc' = IF Head(softInbox) THEN "ask_buy" ELSE "ask_soft"
    /\ UNCHANGED <<rfqVars, softAsked, declines, holds>>

-----------------------------------------------------------------------------
(* The RFQs.                                                               *)

\* tx_rfq.send: the relay routes the request to every maker.
Ask(a) ==
    /\ asked' = Append(asked, a)
    /\ unanswered' = unanswered \cup (Makers \X {Len(asked')})

AskBuy ==
    /\ pc = "ask_buy"
    /\ Ask("Buy")
    /\ pc' = "rfq_wait"
    /\ UNCHANGED <<sellRfq, order, fulfilled, inbox, softVars, declines, holds>>

\* A decline is answered by sending rfq again, which is the request to buy.
ReadDecline ==
    /\ pc = "rfq_wait"
    /\ inbox # <<>>
    /\ ~Head(inbox).offer
    /\ inbox' = Tail(inbox)
    /\ Ask("Buy")
    /\ UNCHANGED <<pc, sellRfq, order, fulfilled, softVars, declines, holds>>

\* Mutant: the offer is booked under the request after the one it answers.
ReadOfferOffByOne ==
    /\ pc = "rfq_wait"
    /\ inbox # <<>>
    /\ Head(inbox).offer
    /\ inbox' = Tail(inbox)
    /\ order' = Head(inbox).rfq + 1
    /\ pc' = "fulfil"
    /\ UNCHANGED <<sellRfq, asked, fulfilled, unanswered, softVars, declines, holds>>

\* An offer is taken whichever request it answers, whatever it costs.
ReadOffer ==
    /\ pc = "rfq_wait"
    /\ inbox # <<>>
    /\ Head(inbox).offer
    /\ inbox' = Tail(inbox)
    /\ order' = Head(inbox).rfq
    /\ pc' = "fulfil"
    /\ UNCHANGED <<sellRfq, asked, fulfilled, unanswered, softVars, declines, holds>>

FulfillOrder ==
    /\ pc = "fulfil"
    /\ fulfilled' = Append(fulfilled, order)
    /\ pc' = "settle"
    /\ UNCHANGED <<sellRfq, asked, order, unanswered, inbox, softVars, declines, holds>>

\* pending_tx.await.unwrap() looks at no status: a transaction that was filled,
\* one that reverted and one that got lost end it alike.
Settle ==
    /\ pc = "settle"
    /\ \/ asked[order] = "Buy" /\ holds' = holds + Amount
       \/ asked[order] = "Sell" /\ holds >= Amount /\ holds' = holds - Amount
       \/ UNCHANGED holds
    /\ pc' = "check"
    /\ UNCHANGED <<rfqVars, softVars, declines>>

\* option_id is offer[0] of the order: the option when the order answers a Buy,
\* and 0, which nobody holds, when it offers USDC for a Sell.
OwnedTokens == IF asked[order] = "Buy" THEN holds ELSE 0

\* Mutant: the balance after the purchase is not asserted.
CheckBoughtUnasserted ==
    /\ pc = "check"
    /\ ~sellRfq
    /\ sellRfq' = TRUE
    /\ Ask("Sell")
    /\ pc' = "rfq_wait"
    /\ UNCHANGED <<order, fulfilled, inbox, softVars, declines, holds>>

CheckBought ==
    /\ pc = "check"
    /\ ~sellRfq
    /\ OwnedTokens = Amount
    /\ sellRfq' = TRUE
    /\ Ask("Sell")
    /\ pc' = "rfq_wait"
    /\ UNCHANGED <<order, fulfilled, inbox, softVars, declines, holds>>

\* Mutant: the taker does not exit after the sale.
CheckSoldGoesOn ==
    /\ pc = "check"
    /\ sellRfq
    /\ OwnedTokens = 0
    /\ pc' = "rfq_wait"
    /\ UNCHANGED <<rfqVars, softVars, declines, holds>>

\* Mutant: the final balance is not asserted.
CheckSoldUnasserted ==
    /\ pc = "check"
    /\ sellRfq
    /\ pc' = "done"
    /\ UNCHANGED <<rfqVars, softVars, declines, holds>>

CheckSold ==
    /\ pc = "check"
    /\ sellRfq
    /\ OwnedTokens = 0
    /\ pc' = "done"
    /\ UNCHANGED <<rfqVars, softVars, declines, holds>>

AssertionFails ==
    /\ pc = "check"
    /\ OwnedTokens # IF sellRfq THEN 0 ELSE Amount
    /\ pc' = "failed"
    /\ UNCHANGED <<rfqVars, softVars, declines, holds>>

\* Every await is unwrapped, matched against exit(1), or panics.
Fails ==
    /\ pc \notin {"done", "failed"}
    /\ pc' = "failed"
    /\ UNCHANGED <<rfqVars, softVars, declines, holds>>

Ended ==
    /\ pc \in {"done", "failed"}
    /\ UNCHANGED vars

-----------------------------------------------------------------------------
(* External: the makers.                                                   *)

Declines(offer) ==
    \/ offer /\ UNCHANGED declines
    \/ ~offer /\ declines < MaxDeclines /\ declines' = declines + 1

AnswerRfq(m, k, offer) ==
    /\ <<m, k>> \in unanswered
    /\ Declines(offer)
    /\ unanswered' = unanswered \ {<<m, k>>}
    /\ inbox' = Append(inbox, [rfq |-> k, offer |-> offer])
    /\ UNCHANGED <<pc, sellRfq, asked, order, fulfilled, softVars, holds>>

AnswerSoft(offer) ==
    /\ softAsked > 0
    /\ Declines(offer)
    /\ softAsked' = softAsked - 1
    /\ softInbox' = Append(softInbox, offer)
    /\ UNCHANGED <<pc, rfqVars, holds>>

-----------------------------------------------------------------------------
Step ==
    \/ Setup
    \/ SetupOption
    \/ AskSoft
    \/ ReadSoft
    \/ AskBuy
    \/ ReadDecline
    \/ ReadOffer
    \/ FulfillOrder
    \/ Settle
    \/ CheckBought
    \/ CheckSold
    \/ AssertionFails

Answer ==
    \/ \E m \in Makers, k \in DOMAIN asked, b \in BOOLEAN : AnswerRfq(m, k, b)
    \/ \E b \in BOOLEAN : AnswerSoft(b)

Next == Step \/ Fails \/ Ended \/ Answer

Spec == Init /\ [][Next]_vars

\* The taker's calls end, and a request that can be answered is answered: the
\* program waits on its streams without a timeout.
Fairness ==
    /\ WF_vars(Step)
    /\ WF_vars(\E b \in BOOLEAN : AnswerSoft(b))
    /\ \A m \in Makers :
          WF_vars(\E k \in DOMAIN asked, b \in BOOLEAN : AnswerRfq(m, k, b))

FairSpec == Spec /\ Fairness

-----------------------------------------------------------------------------
(* Properties.                                                             *)

\* The taker sends at most two orders to Seaport, the second only after the first
\* was a purchase that left it with just Amount options: however many makers
\* answer, decline or answer late, it does not buy a third time.
AtMostTwoOrders ==
    /\ Len(fulfilled) <= 2
    /\ fulfilled # <<>> => asked[fulfilled[1]] = "Buy"
    /\ holds <= 2 * Amount

\* The success the taker reports means at least that the last order it sent was a
\* sale: buying once more by mistake never passes for selling back.
DoneOnlyAfterSale ==
    pc = "done" => /\ Len(fulfilled) = 2
                   /\ asked[fulfilled[2]] = "Sell"

\* The program comes to an end when makers stop declining.
Terminates == <>(pc \in {"done", "failed"})

-----------------------------------------------------------------------------
(* Statements of the source that the code does not meet.                   *)

\* taker.rs:68-70: once the options are bought the taker requests a sell quote
\* and fulfils it, so it asks for nothing to buy any more.
NoBuyAfterSell ==
    \A i, j \in DOMAIN asked : i < j /\ asked[i] = "Sell" => asked[j] = "Sell"

\* taker.rs:292-293: at the end the taker owns none of the options, "Sold all
\* options back to Maker".
SoldAllBack == pc = "done" => holds = 0
=============================================================================
