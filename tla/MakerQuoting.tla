---------------------------- MODULE MakerQuoting ----------------------------
(***************************************************************************)
(* The serving half of the maker: the select loop of run (maker.rs), the   *)
(* validation and handling of RFQs (rfq_request.rs) and of Soft Quotes     *)
(* (soft_quote_request.rs), the write of options and the signature of the  *)
(* order (seaport_helper.rs), composed with the connection life cycle of   *)
(* MakerSession.                                                           *)
(*                                                                         *)
(* External, as the code uses them: the relay (Valorem Trade), which       *)
(* delivers requests on the two streams and takes the answers; the         *)
(* settlement engine (Valorem Clear), which mines or reverts writes; and   *)
(* Seaport, on which takers fill the signed orders.                        *)
(***************************************************************************)
EXTENDS Naturals, Sequences, MakerSession

CONSTANTS
    Requests,         \* the requests takers make, see RequestAssumption
    Options,          \* option types
    NoOption,         \* identifier_or_criteria is None
    Chains,           \* chain ids a request can name
    SupportedChains,  \* 421614 and 31337
    NodeChain,        \* the chain of the maker's node
    NoUlid,           \* ulid is None
    MaxU128,          \* the largest amount the write call can encode
    Capacity,         \* of the two response channels, 64 in the code
    OfferWindow,      \* validity of an order in time units: 1200 s
    Price,            \* the hardcoded price of an order, 10 USDC
    Funds,            \* external: the USDC the maker starts with
    MaxTime           \* bound: the clock stops here

Actions == {"Buy", "Sell", "Invalid"}

\* The other fields of a QuoteRequest matter through being as expected or not.
Fields == {"item_type", "token_address", "seaport_address"}

\* An amount of 0 stands for None too: both are rejected alike.
ASSUME RequestAssumption ==
    /\ \A r \in Requests :
          /\ DOMAIN r = {"ulid", "action", "option", "amount", "chain", "defects"}
          /\ r.action \in Actions
          /\ r.option \in Options \cup {NoOption}
          /\ r.amount \in Nat
          /\ r.defects \subseteq Fields
    /\ NoOption \notin Options

ASSUME QuotingAssumption ==
    /\ SupportedChains \subseteq Chains
    /\ MaxU128 \in Nat
    /\ Capacity \in Nat \ {0}
    /\ {OfferWindow, Price, Funds, MaxTime} \subseteq Nat

NoRequest == [ulid |-> NoUlid, action |-> "Invalid", option |-> NoOption,
              amount |-> 0, chain |-> NodeChain, defects |-> Fields]

VARIABLES
    at,        \* the await of the select loop or of a handler below it
    branch,    \* the stream whose request is handled
    cur,       \* the request that is handled
    lot,       \* local of write_option: the write it waits for or has made
    until,     \* end_time of the order that is put together
    reply,     \* the response a handler has built
    inq,       \* requests delivered on each stream and not read yet
    outq,      \* tx_quote_response and tx_soft_quote_response
    got,       \* history: requests delivered on each stream in this run
    said,      \* history: responses put on each channel in this run
    signed,    \* the orders the maker has signed so far
    routed,    \* external: the requests each stream has ever carried
    published, \* external: the signed orders takers have received
    writes,    \* external: the write transactions, by account nonce
    balance,   \* external: the options the maker holds
    usdc,      \* external: the USDC the maker holds
    filled,    \* external: the signed orders filled on Seaport
    now        \* the clock

locals == <<at, branch, cur, lot, until, reply>>
channels == <<inq, outq, got, said>>
chainVars == <<writes, balance, usdc, filled, now>>
relayVars == <<routed, published>>
vars == <<sessionVars, locals, channels, signed, relayVars, chainVars>>

Tasks == {"select", "write", "receipt", "sign", "chain_id", "send"}

Orders == [req : Requests, lot : Nat, until : Nat]

Writes == [req : Requests, status : {"pending", "mined", "reverted"}]

Replies == [ulid : {r.ulid : r \in Requests} \cup {NoUlid},
            kind : {"none", "no_offer", "quote", "offer"},
            order : Nat,
            chain : Chains \cup {NodeChain} \cup {r.chain : r \in Requests}]

NoReply == [ulid |-> NoUlid, kind |-> "none", order |-> 0, chain |-> NodeChain]

LocalsOK ==
    /\ at \in Tasks
    /\ branch \in Streams
    /\ cur \in Requests \cup {NoRequest}
    /\ lot \in Nat
    /\ until \in Nat
    /\ reply \in Replies

ChannelsOK ==
    /\ inq \in [Streams -> Seq(Requests)]
    /\ got \in [Streams -> Seq(Requests)]
    /\ outq \in [Streams -> Seq(Replies)]
    /\ said \in [Streams -> Seq(Replies)]

LedgerOK ==
    /\ signed \in Seq(Orders)
    /\ routed \in [Streams -> SUBSET Requests]
    /\ published \subseteq Nat
    /\ writes \in Seq(Writes)
    /\ balance \in [Options -> Nat]
    /\ usdc \in Nat
    /\ filled \subseteq Nat
    /\ now \in Nat

TypeOK == SessionTypeOK /\ LocalsOK /\ ChannelsOK /\ LedgerOK

Empty == [s \in Streams |-> <<>>]

Init ==
    /\ SessionInit
    /\ at = "select"
    /\ branch = "rfq"
    /\ cur = NoRequest
    /\ lot = 0
    /\ until = 0
    /\ reply = NoReply
    /\ inq = Empty
    /\ outq = Empty
    /\ got = Empty
    /\ said = Empty
    /\ signed = <<>>
    /\ routed = [s \in Streams |-> {}]
    /\ published = {}
    /\ writes = <<>>
    /\ balance = [o \in Options |-> 0]
    /\ usdc = Funds
    /\ filled = {}
    /\ now = 0

-----------------------------------------------------------------------------
(* Validation and responses.                                               *)

\* validate_rfq
ValidRfq(r) ==
    /\ r.ulid # NoUlid
    /\ r.defects = {}
    /\ r.option # NoOption
    /\ r.amount > 0
    /\ r.action # "Invalid"

\* validate_soft_quote looks at fewer fields.
ValidSoftQuote(r) ==
    /\ "token_address" \notin r.defects
    /\ r.option # NoOption
    /\ r.amount > 0
    /\ r.action # "Invalid"

Valid(s, r) == IF s = "rfq" THEN ValidRfq(r) ELSE ValidSoftQuote(r)

\* create_no_offer and create_soft_quote_no_offer
NoOffer(r) == [ulid |-> r.ulid, kind |-> "no_offer", order |-> 0, chain |-> r.chain]

\* The response of handle_rfq_request and of handle_soft_quote_request: the
\* chain is the node's.
Offer(r, k) == [ulid |-> r.ulid, kind |-> "offer", order |-> k, chain |-> NodeChain]
Quote(r) == [ulid |-> r.ulid, kind |-> "quote", order |-> 0, chain |-> NodeChain]

Answer(r) ==
    /\ reply' = r
    /\ at' = "send"

BackToSelect ==
    /\ at' = "select"
    /\ branch' = "rfq"
    /\ cur' = NoRequest
    /\ lot' = 0
    /\ until' = 0
    /\ reply' = NoReply

\* What run drops when it returns, or the process when it dies.
DropRun ==
    /\ BackToSelect
    /\ inq' = Empty
    /\ outq' = Empty
    /\ got' = Empty
    /\ said' = Empty

-----------------------------------------------------------------------------
(* The select loop.                                                        *)

\* The message of a stream that select! has picked.
Reads(s) ==
    /\ pc = "serve"
    /\ at = "select"
    /\ inq[s] # <<>>
    /\ inq' = [inq EXCEPT ![s] = Tail(@)]

\* A request for another chain, or that names none, is ignored: no response.
Ignore(s) ==
    /\ Reads(s)
    /\ Head(inq[s]).chain \notin SupportedChains
    /\ UNCHANGED <<sessionVars, locals, outq, got, said, signed, relayVars, chainVars>>

\* Mutant: a malformed request gets no response at all.
DeclineSilently(s) ==
    /\ Reads(s)
    /\ Head(inq[s]).chain \in SupportedChains
    /\ ~Valid(s, Head(inq[s]))
    /\ UNCHANGED <<sessionVars, locals, outq, got, said, signed, relayVars, chainVars>>

\* A malformed request is answered with no offer.
Decline(s) ==
    /\ Reads(s)
    /\ Head(inq[s]).chain \in SupportedChains
    /\ ~Valid(s, Head(inq[s]))
    /\ branch' = s
    /\ cur' = Head(inq[s])
    /\ Answer(NoOffer(Head(inq[s])))
    /\ UNCHANGED <<sessionVars, lot, until, outq, got, said, signed, relayVars, chainVars>>

\* An RFQ to buy goes to write_option.
TakeBuy ==
    /\ Reads("rfq")
    /\ Head(inq["rfq"]).chain \in SupportedChains
    /\ ValidRfq(Head(inq["rfq"]))
    /\ Head(inq["rfq"]).action = "Buy"
    /\ branch' = "rfq"
    /\ cur' = Head(inq["rfq"])
    /\ at' = "write"
    /\ UNCHANGED <<sessionVars, lot, until, reply, outq, got, said, signed, relayVars, chainVars>>

\* Mutant: the end of the window is put before its start.
TakeSellBackwards ==
    /\ Reads("rfq")
    /\ Head(inq["rfq"]).chain \in SupportedChains
    /\ ValidRfq(Head(inq["rfq"]))
    /\ Head(inq["rfq"]).action = "Sell"
    /\ branch' = "rfq"
    /\ cur' = Head(inq["rfq"])
    /\ until' = now - OfferWindow
    /\ at' = "sign"
    /\ UNCHANGED <<sessionVars, lot, reply, outq, got, said, signed, relayVars, chainVars>>

\* Mutant: the maker buys nothing back.
TakeSellDeclined ==
    /\ Reads("rfq")
    /\ Head(inq["rfq"]).chain \in SupportedChains
    /\ ValidRfq(Head(inq["rfq"]))
    /\ Head(inq["rfq"]).action = "Sell"
    /\ branch' = "rfq"
    /\ cur' = Head(inq["rfq"])
    /\ Answer(NoOffer(Head(inq["rfq"])))
    /\ UNCHANGED <<sessionVars, lot, until, outq, got, said, signed, relayVars, chainVars>>

\* An RFQ to sell is priced at once; nothing is checked against the wallet.
TakeSell ==
    /\ Reads("rfq")
    /\ Head(inq["rfq"]).chain \in SupportedChains
    /\ ValidRfq(Head(inq["rfq"]))
    /\ Head(inq["rfq"]).action = "Sell"
    /\ branch' = "rfq"
    /\ cur' = Head(inq["rfq"])
    /\ until' = now + OfferWindow
    /\ at' = "sign"
    /\ UNCHANGED <<sessionVars, lot, reply, outq, got, said, signed, relayVars, chainVars>>

\* Mutant: the order of a Soft Quote is signed like that of an RFQ.
TakeSoftQuoteSigned ==
    /\ Reads("soft")
    /\ Head(inq["soft"]).chain \in SupportedChains
    /\ ValidSoftQuote(Head(inq["soft"]))
    /\ branch' = "soft"
    /\ cur' = Head(inq["soft"])
    /\ until' = now + OfferWindow
    /\ at' = "sign"
    /\ UNCHANGED <<sessionVars, lot, reply, outq, got, said, signed, relayVars, chainVars>>

\* A Soft Quote gets an order nobody signs.
TakeSoftQuote ==
    /\ Reads("soft")
    /\ Head(inq["soft"]).chain \in SupportedChains
    /\ ValidSoftQuote(Head(inq["soft"]))
    /\ branch' = "soft"
    /\ cur' = Head(inq["soft"])
    /\ until' = now + OfferWindow
    /\ at' = "chain_id"
    /\ UNCHANGED <<sessionVars, lot, reply, outq, got, said, signed, relayVars, chainVars>>

-----------------------------------------------------------------------------
(* write_option.                                                           *)

Write(r) == [req |-> r, status |-> "pending"]

\* as_u128 panics on an amount the contract call cannot encode.
AmountPanics ==
    /\ pc = "serve"
    /\ at = "write"
    /\ cur.amount > MaxU128
    /\ Panic
    /\ DropRun
    /\ UNCHANGED <<signed, relayVars, chainVars>>

Writing ==
    /\ pc = "serve"
    /\ at = "write"
    /\ cur.amount <= MaxU128

\* Mutant: the order is signed while the write is still pending.
SendWriteOptimistic ==
    /\ Writing
    /\ writes' = Append(writes, Write(cur))
    /\ lot' = Len(writes')
    /\ until' = now + OfferWindow
    /\ at' = "sign"
    /\ UNCHANGED <<sessionVars, branch, cur, reply, channels, signed, relayVars,
                   balance, usdc, filled, now>>

SendWrite ==
    /\ Writing
    /\ writes' = Append(writes, Write(cur))
    /\ lot' = Len(writes')
    /\ at' = "receipt"
    /\ UNCHANGED <<sessionVars, branch, cur, until, reply, channels, signed, relayVars,
                   balance, usdc, filled, now>>

\* Mutant: a write that reported an error is sent again.
SendWriteFailsRetries ==
    /\ Writing
    /\ \/ UNCHANGED writes
       \/ writes' = Append(writes, Write(cur))
    /\ UNCHANGED <<sessionVars, locals, channels, signed, relayVars,
                   balance, usdc, filled, now>>

\* send_transaction reports an error: the node has not taken the transaction,
\* or it has and its answer was lost.
SendWriteFails ==
    /\ Writing
    /\ \/ UNCHANGED writes
       \/ writes' = Append(writes, Write(cur))
    /\ Answer(NoOffer(cur))
    /\ UNCHANGED <<sessionVars, branch, cur, lot, until, channels, signed, relayVars,
                   balance, usdc, filled, now>>

AwaitsReceipt ==
    /\ pc = "serve"
    /\ at = "receipt"
    /\ UNCHANGED <<sessionVars, branch, cur, channels, signed, relayVars, chainVars>>

\* The logs of the receipt carry OptionsWritten.
ReceiptOfWrite ==
    /\ AwaitsReceipt
    /\ writes[lot].status = "mined"
    /\ until' = now + OfferWindow
    /\ at' = "sign"
    /\ UNCHANGED <<lot, reply>>

\* Mutant: the ids a receipt without logs leaves at zero are not looked at.
ReceiptOfRevertUnchecked ==
    /\ AwaitsReceipt
    /\ writes[lot].status = "reverted"
    /\ until' = now + OfferWindow
    /\ at' = "sign"
    /\ UNCHANGED <<lot, reply>>

\* Mutant: a receipt without the event is not taken for an answer.
ReceiptOfRevertIgnored ==
    /\ AwaitsReceipt
    /\ writes[lot].status = "reverted"
    /\ UNCHANGED <<at, lot, until, reply>>

\* The transaction reverted: a receipt without logs leaves the ids at zero.
ReceiptOfRevert ==
    /\ AwaitsReceipt
    /\ writes[lot].status = "reverted"
    /\ lot' = 0
    /\ Answer(NoOffer(cur))
    /\ UNCHANGED until

\* Mutant: without a receipt the write is presumed to have gone through.
ReceiptMissingPresumed ==
    /\ AwaitsReceipt
    /\ until' = now + OfferWindow
    /\ at' = "sign"
    /\ UNCHANGED <<lot, reply>>

\* pending_tx ends with an error or without a receipt; the transaction may be
\* mined, before or later, for all the maker knows.
ReceiptMissing ==
    /\ AwaitsReceipt
    /\ lot' = 0
    /\ Answer(NoOffer(cur))
    /\ UNCHANGED until

-----------------------------------------------------------------------------
(* Signing and answering.                                                  *)

\* Mutant: signing reports an error after the signature and is done again.
SignOrderRetried ==
    /\ pc = "serve"
    /\ at = "sign"
    /\ signed' = Append(signed, [req |-> cur, lot |-> lot, until |-> until])
    /\ at' \in {"sign", "chain_id"}
    /\ UNCHANGED <<sessionVars, branch, cur, lot, until, reply, channels, relayVars, chainVars>>

\* sign_order: the counter, the hash and the domain separator are fetched,
\* then the order is signed.  Any failure makes run return.
SignOrder ==
    /\ pc = "serve"
    /\ at = "sign"
    /\ signed' = Append(signed, [req |-> cur, lot |-> lot, until |-> until])
    /\ at' = "chain_id"
    /\ UNCHANGED <<sessionVars, branch, cur, lot, until, reply, channels, relayVars, chainVars>>

\* Mutant: the order is looked up by its place in this run.
BuildOfferOfRun ==
    /\ pc = "serve"
    /\ at = "chain_id"
    /\ branch = "rfq"
    /\ Answer(Offer(cur, Len(said["rfq"]) + 1))
    /\ UNCHANGED <<sessionVars, branch, cur, lot, until, channels, signed, relayVars, chainVars>>

BuildOffer ==
    /\ pc = "serve"
    /\ at = "chain_id"
    /\ branch = "rfq"
    /\ Answer(Offer(cur, Len(signed)))
    /\ UNCHANGED <<sessionVars, branch, cur, lot, until, channels, signed, relayVars, chainVars>>

BuildQuote ==
    /\ pc = "serve"
    /\ at = "chain_id"
    /\ branch = "soft"
    /\ Answer(Quote(cur))
    /\ UNCHANGED <<sessionVars, branch, cur, lot, until, channels, signed, relayVars, chainVars>>

\* Mutant: the response stays in place and is sent again.
SendRepeats ==
    /\ pc = "serve"
    /\ at = "send"
    /\ Len(outq[branch]) < Capacity
    /\ outq' = [outq EXCEPT ![branch] = Append(@, reply)]
    /\ said' = [said EXCEPT ![branch] = Append(@, reply)]
    /\ BackToSelect \/ UNCHANGED locals
    /\ UNCHANGED <<sessionVars, inq, got, signed, relayVars, chainVars>>

\* send waits while the channel is full.
Send ==
    /\ pc = "serve"
    /\ at = "send"
    /\ Len(outq[branch]) < Capacity
    /\ outq' = [outq EXCEPT ![branch] = Append(@, reply)]
    /\ said' = [said EXCEPT ![branch] = Append(@, reply)]
    /\ BackToSelect
    /\ UNCHANGED <<sessionVars, inq, got, signed, relayVars, chainVars>>

\* run returns None: a stream ends or errs while select! polls it, a call of
\* sign_order or fetch_chain_id fails, or a channel has lost its receiver.
\* While a write is sent or mined nothing makes run return.
RunReturns ==
    /\ pc = "serve"
    /\ at \in {"select", "sign", "chain_id", "send"}
    /\ RunFails
    /\ DropRun
    /\ UNCHANGED <<signed, relayVars, chainVars>>

\* Everything before serving is MakerSession's.
Reconnects ==
    /\ pc # "serve"
    /\ SessionNext
    /\ IF pc' \in {"sleep", "dead"} THEN DropRun ELSE UNCHANGED <<locals, channels>>
    /\ UNCHANGED <<signed, relayVars, chainVars>>

SessionExpires ==
    /\ pc = "serve"
    /\ \E s \in Sessions : Expire(s)
    /\ UNCHANGED <<locals, channels, signed, relayVars, chainVars>>

-----------------------------------------------------------------------------
(* External: the relay, the settlement engine, Seaport, the clock.         *)

\* The ulid of a request is unique: the relay delivers it to the maker once.
Deliver(s, r) ==
    /\ streams[s] # NoSession
    /\ \A t \in Streams : r \notin routed[t]
    /\ routed' = [routed EXCEPT ![s] = @ \cup {r}]
    /\ inq' = [inq EXCEPT ![s] = Append(@, r)]
    /\ got' = [got EXCEPT ![s] = Append(@, r)]
    /\ UNCHANGED <<sessionVars, locals, outq, said, signed, published, chainVars>>

\* The transport takes a response from its channel and the relay passes it on.
Transmit(s) ==
    /\ outq[s] # <<>>
    /\ outq' = [outq EXCEPT ![s] = Tail(@)]
    /\ published' = published \cup
          IF Head(outq[s]).kind = "offer" THEN {Head(outq[s]).order} ELSE {}
    /\ UNCHANGED <<sessionVars, locals, inq, got, said, signed, routed, chainVars>>

\* A write is mined: the maker holds the options; or it reverts, for want of
\* collateral, of an approval, or because the option has expired.
Mine(i) ==
    /\ writes[i].status = "pending"
    /\ writes' = [writes EXCEPT ![i].status = "mined"]
    /\ balance' = [balance EXCEPT ![writes[i].req.option] = @ + writes[i].req.amount]
    /\ UNCHANGED <<sessionVars, locals, channels, signed, relayVars, usdc, filled, now>>

Revert(i) ==
    /\ writes[i].status = "pending"
    /\ writes' = [writes EXCEPT ![i].status = "reverted"]
    /\ UNCHANGED <<sessionVars, locals, channels, signed, relayVars, balance, usdc, filled, now>>

\* The order is still to be filled: it is within its window and not used up.
Live(i) == i \notin filled /\ now < signed[i].until

\* The maker holds what the order offers.
Holds(i) == IF signed[i].req.action = "Buy"
            THEN balance[signed[i].req.option] >= signed[i].req.amount
            ELSE usdc >= Price

\* A taker fills an order it has received, all of it (FULL_OPEN).
Fill(i) ==
    /\ Live(i)
    /\ Holds(i)
    /\ filled' = filled \cup {i}
    /\ LET r == signed[i].req
       IN  IF r.action = "Buy"
           THEN /\ balance' = [balance EXCEPT ![r.option] = @ - r.amount]
                /\ usdc' = usdc + Price
           ELSE /\ balance' = [balance EXCEPT ![r.option] = @ + r.amount]
                /\ usdc' = usdc - Price
    /\ UNCHANGED <<sessionVars, locals, channels, signed, relayVars, writes, now>>

Tick ==
    /\ now < MaxTime
    /\ now' = now + 1
    /\ UNCHANGED <<sessionVars, locals, channels, signed, relayVars, writes, balance, usdc, filled>>

-----------------------------------------------------------------------------
Handle ==
    \/ AmountPanics
    \/ SendWrite
    \/ SendWriteFails
    \/ ReceiptOfWrite
    \/ ReceiptOfRevert
    \/ ReceiptMissing
    \/ SignOrder
    \/ BuildOffer
    \/ BuildQuote
    \/ Send
    \/ RunReturns

Pick ==
    \/ \E s \in Streams : Ignore(s) \/ Decline(s)
    \/ TakeBuy
    \/ TakeSell
    \/ TakeSoftQuote

External ==
    \/ \E s \in Streams, r \in Requests : Deliver(s, r)
    \/ \E s \in Streams : Transmit(s)
    \/ \E i \in DOMAIN writes : Mine(i) \/ Revert(i)
    \/ \E i \in published : Fill(i)
    \/ Tick

Next == Pick \/ Handle \/ Reconnects \/ SessionExpires \/ External

Spec == Init /\ [][Next]_vars

\* The calls of a login and of a handler end, and select!, which picks at random, does not pass
\* over a stream for ever.  The wait for a receipt has no timeout: that it ends
\* rests on the chain, which mines or reverts every write, as that a full channel
\* empties rests on the transport.
Fairness ==
    /\ WF_vars(Reconnects /\ pc' # pc)
    /\ WF_vars(at \in {"write", "sign", "chain_id"} /\ Handle)
    /\ WF_vars(Send)
    /\ WF_vars(ReceiptOfWrite)
    /\ WF_vars(ReceiptOfRevert)
    /\ \A s \in Streams : SF_vars(Pick /\ inq'[s] # inq[s])
    /\ \A s \in Streams : WF_vars(Transmit(s))
    /\ WF_vars(\E i \in DOMAIN writes : Mine(i) \/ Revert(i))

FairSpec == Spec /\ Fairness

-----------------------------------------------------------------------------
(* Properties.                                                             *)

BuyOrders == {i \in DOMAIN signed : signed[i].req.action = "Buy"}

\* Every order that offers options is backed by a write of its own: a write of
\* just that option type and amount, mined before the order was signed, and
\* promised by no other order, whatever receipts were lost, whichever run of the
\* maker signed it (handle_rfq_request signs only what write_option returned).
OfferHasOwnLot ==
    \A i \in BuyOrders :
        /\ signed[i].lot \in DOMAIN writes
        /\ writes[signed[i].lot] = [req |-> signed[i].req, status |-> "mined"]
        /\ \A j \in BuyOrders : signed[j].lot = signed[i].lot => j = i

\* The maker may be bound by this request.
Warranted(r) == r \in routed["rfq"] /\ ValidRfq(r) /\ r.chain \in SupportedChains

\* A request costs the maker at most one write and one signature, and none unless
\* it arrived as an RFQ, is well formed and names a supported chain: Soft Quotes
\* commit the maker to nothing, and neither a lost answer of the node nor a
\* reconnection makes it write or sign again.
OneCommitmentPerRequest ==
    /\ \A i \in DOMAIN writes :
          /\ Warranted(writes[i].req) /\ writes[i].req.action = "Buy"
          /\ \A j \in DOMAIN writes : writes[j].req = writes[i].req => j = i
    /\ \A i \in DOMAIN signed :
          /\ Warranted(signed[i].req)
          /\ \A j \in DOMAIN signed : signed[j].req = signed[i].req => j = i

\* What the maker does is what the abstract desk does: a lot is committed only
\* after it was written, and only a committed lot is sold.
Mined == {i \in DOMAIN writes : writes[i].status = "mined"}
Promised == {signed[i].lot : i \in BuyOrders}
Sold == {signed[i].lot : i \in BuyOrders \cap filled}

Desk == INSTANCE QuoteDesk
        WITH free <- Mined \ Promised, committed <- Promised \ Sold, sold <- Sold

ImplementsDesk == Desk!DeskSpec
=============================================================================
