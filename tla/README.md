# TLA+ development for valorem-labs-inc/trade-interfaces

The repository holds the interfaces of Valorem Trade, a request-for-quote relay between
option makers and takers, and example programs that use them. The programs are the subject
here: a maker that answers requests and signs Seaport orders, a taker that buys options
and sells them back, both in Rust, and a simpler maker and taker in TypeScript. All talk to three services whose code is not in the repository: the
relay (gRPC), the settlement engine (Valorem Clear) and Seaport (contracts).

## Inventory

| Component | State | Operations | Talks to |
|---|---|---|---|
| maker, life cycle (`maker.rs` main, setup, connect_*, first half of run) | session cookie, open streams | connect, log in (nonce, verify, authenticate), approve, open streams, give up, retry | node, Auth service |
| maker, select loop (`maker.rs` run, `rfq_request.rs`, `soft_quote_request.rs`) | request in hand, two response channels | read, ignore, decline, quote, send | RFQ and Soft Quote services |
| maker, `seaport_helper.rs` | none of its own; writes and signatures are its effects | write_option, sign_order | settlement engine, Seaport |
| session interceptor | the cookie it was built with | put the cookie on a request | every client |
| taker (`taker.rs`) | phase (`sell_rfq`), option id, streams | log in, create option type, ask, fulfil, check balance | all services |
| token approvals (one per program) | on-chain allowances | approve ERC-20s, set_approval_for_all | ERC-20, ERC-1155 |
| order transformation, gRPC adapters | none | conversions | - |
| settings | none | load once | files, terminal |
| TypeScript maker (`RFQ_maker.ts`) | cookie, request in hand, responses under way | log in, listen, answer purchases of WETH options | the same services |
| TypeScript taker (`RFQ_taker.ts`) | SDK objects | ask, accept the first quote | the same services, through the SDK |
| protos, ABIs, bindings, deployment | none | - | - |

What is hard, and what has to be true of it:

* **Maker, life cycle.** Any await can fail, the service can forget a session at any time, and
  everything leads back to one loop. A stream must belong to the session of the present run, and
  the maker must come back.
* **Maker, serving.** One task serves two streams, and while it waits for a write to be mined it
  serves none. Receipts get lost, writes revert, runs end between signing and sending, and
  earlier orders are filled meanwhile. Every request must be answered once and in order, cost at
  most one write and one signature, and every order that offers options must be covered by
  a write that no other order counts on.
* **Taker.** Several makers answer every request, early or late, with or without an offer; the
  program has two phases and one loop. It must not buy on and on, must end, and must not take
  one thing for the other.
* **Approvals.** One transaction after the other, with a `Result` unwrapped that says nothing of the
  receipt's status. Nothing may run ahead of an approval under way, and a taker that could not
  pay must not report success.
* **TypeScript maker.** Three transactions per request, a response that nobody awaits, no exception
  caught. Collateral, lots and approvals of different requests and of an earlier process must not mix.
* **Conversions.** A message's fields may be missing, and numbers travel in halves. The maker hashes one
  reading of an order and sends the message; the taker submits another reading of it. The two must agree,
  for orders of any maker.
* **The two programs together.** Requests get lost with a run of the maker, answers come from
  another run than the request's neighbours, fills fail. Each program must be to the other what the
  other was written for.

`PROJECT.json` lists every component with its status and every hazard at its line.

## Modules

| Module | Models | Uses |
|---|---|---|
| `MakerSession` | the maker's connection life cycle | - |
| `MakerQuoting` | the serving maker with relay, chain and Seaport around it | extends `MakerSession` |
| `MakerQuotingProperties` | properties that need sums and filtered sequences | extends `MakerQuoting` |
| `MakerQuotingDocs` | statements of the documentation that the code does not meet | extends `MakerQuotingProperties` |
| `QuoteDesk` | abstract: lots are written, committed to one order, sold | implemented by `MakerQuoting` and by `WebMaker` |
| `Taker` | the taker with makers, relay and Seaport around it | - |
| `Approvals` | granting allowances one by one | - |
| `MakerApprovals` | the life cycle with the approvals in it | extends `MakerSession`, `Approvals`; implements `MakerSession` |
| `TakerApprovals` | the taker with its approvals, and fills that need them | extends `Taker`, `Approvals`; implements `Taker` |
| `WebMaker` | the TypeScript maker with relay, chain and Seaport around it | - |
| `Wire` | conversions, the order as filled in, hashed, sent and submitted | - |
| `Trade` | the maker and the taker, each as the other's environment | extends `MakerQuoting`, instantiates `Taker` |
| `Exchange` | abstract: a deal is struck once for an RFQ and settled once, options against USDC | implemented by `Trade` |
| `MCMakerApprovals`, `MCMakerQuoting`, `MCTaker`, `MCTakerApprovals`, `MCWebMaker`, `MCWire`, `MCTrade` | instances for TLC | |
| `FoldLemmas` | lemmas: what sums over sets and folds over sequences compute, queues | - |
| `MakerQuotingProofs`, `MakerCommitmentProofs`, `MakerApprovalsProofs`, `TakerProofs`, `WebMakerProofs`, `WireProofs`, `TradeProofs` | theorems | extend the modules they are about |

### MakerSession

`pc` names the await the maker is at. The actions are the awaits, in the order of the code:
`ConnectNode`, `Dial` (to the Auth service without cookie), `Nonce`, `Dial` (with the cookie),
`FetchChainId`, `Verify`, `Authenticate`, `Dial` (for the streams), `CreateSigner`, `Approve`,
`OpenSoft`, `OpenRfq`, and then `pc = "serve"`. `AfterDial` says where each of the three calls of
`connect_to_valorem` leads. `RunFails` is `run` returning `None`, which drops its locals;
`VerifyAnswerLost` is the same after the service has done its part; `Panic` stands for the
`panic!` and `unwrap` at the points that have one; `Retry` is the `sleep` of `main`. `Expire` is
the service forgetting a session. The service's own state is the set `authenticated`.

The outer `loop` of `run` around the two `maker` calls is entered once: every way out of the inner
loop returns from `run`. So no action goes back from serving to opening streams.

### MakerQuoting

`at` names the await of the select loop or of the handler below it: `select`, `write`
(`send_transaction`), `receipt` (`pending_tx.await`), `sign` (`sign_order`), `chain_id`
(`fetch_chain_id`), `send` (the response channel). `branch` and `cur` are the stream and
the request in hand; `lot` is the write the handler has made, `until` the end of the order's window (from the second reading of the clock; the first is in `Wire`),
`reply` the response it has built. `inq` and `outq` are what the streams have delivered and what
the two response channels hold. `signed` remembers every order the maker has signed; `writes` is
the maker's write transactions in order of account nonce, pending, mined or reverted.
`got` and `said` are histories of the present run; `routed` is the relay's.

A request keeps the fields the code decides on. `defects` says which of the item type, the token
address and the Seaport address are not as expected: the RFQ validation looks at all three, the
Soft Quote validation at one. An amount of 0 stands for a missing amount, too, and an unsupported
chain for a missing one: the code treats the two alike.

`Ignore`, `Decline`, `TakeBuy`, `TakeSell` and `TakeSoftQuote` are the ways out of `select!`
with a message. `SendWrite`, `SendWriteFails`, `ReceiptOfWrite`, `ReceiptOfRevert` and
`ReceiptMissing` are the ways through `write_option`; an error of `send_transaction` leaves open whether the
node has the transaction. `RunReturns` is possible wherever the code has `?` or `return None`, and
drops everything but what is on chain, signed or published. `Reconnects` embeds `MakerSession`.

`Deliver` gives a request to the maker once: its ulid is unique, and the relay in front of this code
has no other way to repeat it. `Fill` fills an order in full (the orders are FULL_OPEN), while the maker
holds what it offers. The price is the constant of the code, whatever the amount.

### Taker

`pc` is the await; `asked` is what each RFQ so far asks for; `order` is the RFQ that the offer
being fulfilled answers. `Settle` is `pending_tx.await.unwrap()`, which looks at no status, so that
the order was filled or not. `ReadDecline` sends the variable `rfq` of the code, which is the
purchase in either phase. `OwnedTokens` is the balance the code asks for: of the option when the
order at hand is a purchase, and of token 0 when it is a sale. The login, the approvals and the
opening of the streams are one step, since any failure in them ends the process (`Fails`);
`TakerApprovals` takes the approvals out of it.

### Approvals, MakerApprovals, TakerApprovals

`Grants` is the list of allowances, `passed` how far the program has got, `txs` the transactions of this
pass. `Pass` is the second `.await.unwrap()`: the receipt may have either status, and there may be
none, when the node no longer knows the transaction; all three pass. `ApprovalPanics` is an error of either
await, which leaves open whether the node has the transaction. In `MakerApprovals` the step `Approve` of the
life cycle is possible when all have passed, and the panic leads to `dead`; a run that gets there again starts
over, while the allowances stay. In `TakerApprovals` a fill needs the allowance for the payment: the
token of the maker's price, which is a setting of the maker (`priceToken`), or the options.

### WebMaker

`pc` is the await. `LoginStep` is the four calls of the login, `Listen` opens the stream, `Reads` takes a
request off it. A request without an option, or a purchase without an amount, is logged as skipped and
converted all the same, which throws (`ReadMalformed`). A request that is skipped properly makes
`constructQuoteResponse` return `undefined`, and the loop goes on with that: it approves and opens a stream
for a response that says nothing (`reply = 0`). `SendTx` sends each of the three transactions; `Approved`, `Written`,
`Granted` and `Reverted`, `NotGranted` are the two branches on the receipt's status. The wait of
ethers v5 throws on status 0, so that the branches for a revert are reached only with a provider that does not: the
model has both, since `Throws` is possible at every await. Nothing is caught, so a throw ends the
process; `Restart` is whoever runs the example again. `sending` is the set of responses nobody awaits:
`Publish` and `Lose` take them in any order. `Mine` and `Revert` take the account's transactions in order of nonce, and
a write needs the allowance left by the approval before it.

The typed data is signed with an empty EIP-712 domain (RFQ_maker.ts:319). Whether Seaport accepts
such a signature is outside this model: `Fill` supposes that it does.

### Wire

Numbers are numbers, and H128, H160 and H256 are records of halves of which any may be missing. `Half` stands
for 2^32, and everything else is derived from it: a limb is `Half * Half`, an address `Limb * Limb * Half`, a word
four limbs. The taker's own requests are complete (`Ask`); those of other takers may lack halves of their numbers or name a
claim (`OtherAsks`), since the maker checks neither. `WriteOption` is what `write_option` makes of a receipt: the
ids of the last `OptionsWritten` event, and nothing when one of them is 0. A purchase is answered with the option of that
event, a sale with the id of the request (`TradedIds`). `OrderFor` is the order of `handle_rfq_request`, with the two
readings of the clock that start and end its window; `Components` is the reading that
`sign_order` has hashed, with a default for most fields that are missing; `Parameters` is the reading of
`transform_to_seaport_order`, which unwraps more. `Transformable` collects what it, and the lines before it in
`run`, unwrap; a signature may be spoilt or absent. `OtherAnswers` is a maker that fills in the order in a way of its own and signs it with
`sign_order`.

### Trade

The variables of both programs; `T` is the taker with one maker. `MakerAlone` and `TakerAlone` are steps
of one of them. The relay's `CarryRfq` and `CarrySoft` are `Deliver` of the maker; `ReturnRfq` and `ReturnSoft` are
its `Transmit` together with the arrival at the taker. `received` maps an RFQ to the order its answer
carried. `SettleTrade` fills the order on both sides (`Fill`) or on neither. `DropRun` loses
what the relay had handed to the run.

`Exchange` is what the two owe each other, with neither program in it. Its `deals` are mapped to the orders signed for
each RFQ (`Struck`): a deal is struck by the signature, on the side the taker asked for, and settled when the order is
filled. It is struck only while the maker holds the options of all struck purchases together (`Owed`), and the two
accounts change only at once, by one deal. A second signature for an RFQ, one for the other side, or
a write promised twice is a step it does not have.

## Runs

| Run | Instance | Shows |
|---|---|---|
| `session` | 2 sessions, 7 approvals, 1 refusal | types; streams carry the session of this run and open with no approval under way; implements `MakerSession`; the maker keeps coming back |
| `quoting` | 2 purchases, 1 sale, 1 foreign request; channels of 2, clock to 1 | own lots, coverage, one commitment per request, offers answer their request, implements `QuoteDesk` |
| `quoting_live` | 4 requests, 3 of them malformed, foreign or too large; channels of 1 | one answer each, in order; one commitment per request; every request leaves the maker's hands |
| `taker` | 2 makers, payment in a token that is approved or not, up to 2 declines, 3 approvals, 1 refusal | at most two orders, success only after a sale and only if payable, termination |
| `web_maker` | 2 purchases, 1 sale, 1 malformed request, clock to 1 | own lots, collateral in place, offers can be honoured, implements `QuoteDesk`, handling ends |
| `wire` | a u32 of one bit; 3 options, 4 amounts, 2 times; requests of other takers with halves left out or naming claims; orders of other makers with fields left out, too large or halved | what is submitted is what was signed, and what was asked for, in a window of 1200 s or more; own orders are readable |
| `trade` | 1 taker, 1 maker, 3 RFQs, clock to 1 | the order is the one asked for, success means bought, implements `Taker` and `Exchange`, no mutual wait |
| `unbacked_sell`, `chain_id`, `offer_window`, `taker_sell_phase`, `taker_sold` | as small as the case needs | findings, below |

**Bounds.** `Requests` bounds writes, signatures and answers; all requests of a run interleave
freely, on either stream, before and after any number of reconnections, since nothing bounds those.
Two purchases of different amounts of one option type are what it takes for one order to live off
another's options; a sale adds options and takes USDC in between. Amounts are 1 and 2, and 3 lies
beyond `MaxU128 = 2`. `Capacity` is 2 or 1 instead of 64: full channels happen. In `quoting`, `web_maker` and
`trade` the clock takes one step, and an order lasts that long: orders are filled in time and run out. In
`offer_window` it takes three. In the other runs `MaxTime = 0` and orders do not run out, which allows more fills rather than fewer. Two sessions are this run's and an
earlier one's; sessions outnumber what the maker holds, so a cookie that survives a run shows.
One session suffices where the life cycle is not the subject. In `taker`, two makers make answers late,
and two declines reach both phases. `MaxDeclines` bounds what an endless loop of declines would make infinite.
One refused transaction (`MaxRefused`) makes each approval the missing one in turn; in `taker`, the five grants to the
settlement engine, which no trade draws on, are one. `web_maker` has two purchases of one option type, whose
collateral differs, one request that is skipped and one that is malformed; restarts are not
bounded. A purchase of another underlying is skipped one await later than a sale and then treated alike; with it as a fifth
request the safety properties hold, too (4.9 million states), but the run takes too long with the liveness property. In `wire` an address has 5 bits and a word 8, so
that every carry between the limbs happens; amounts reach past 128 bits (there: 4), enums past a byte and below
zero. Four ids make an option type and its claims there, and a write is reported in one event or reverts. `trade` has the purchase, a sale and one RFQ more, for declined purchases; what the taker asks beyond
`MaxAsks` is not carried, and `Abandoned` says so.

**Deadlock** is checked in every run; a process that has ended stutters (`Halted`, `Ended`).

## Fairness

*MakerSession.* Weak fairness of the maker's step while it connects, the approvals apart: the clients have timeouts of 10 s and
`sleep` ends. Strong fairness of each success: no call fails for ever. `OutlivesLogin` says that
from some time on the service does not forget a session while the maker is still logging in
with it; without it no login need ever succeed. Nothing is assumed once the maker
serves. `KeepsComingBack` allows a dead process: at a `panic!`, nothing restarts it.

*MakerQuoting.* Weak fairness of the handler's calls, of `Send` and of the transport. `select!`
polls its branches in random order: strong fairness of reading each stream. The wait for a receipt has no timeout
in the code; that it ends rests on the chain, which mines or reverts every write. This is an assumption about
the chain, and `ReceiptMissing` is not relied on.

*Taker.* Weak fairness of its steps, and of every maker's answer: the taker waits
without a timeout, so a request nobody answers would hold it for ever.

*Approvals.* The program goes on when it can, and the node mines, reverts or forgets every transaction it
has: the wait has no timeout of its own, so this, too, is an assumption about the chain.

*WebMaker.* Weak fairness of the handler and of the chain, which mines or reverts what it has. Nothing is
assumed of the streams, of restarts or of the responses nobody awaits.

*Trade.* The fairness of the maker, weak fairness of the taker's calls, and a request is carried if the maker has its
streams open over and over. The maker may reconnect for ever, or die: `TradeEnds` speaks of a maker that
keeps coming back, and allows the taker to wait for a request that was lost with a run.

## Proofs

Every invariant and every refinement that a run checks is a theorem, too. All hold for every value of the constants
under the named assumptions of the modules. Those say of what types the constants are; that `NoSession`, `NoOption` and
`Absent` are no session, option type or value; that there are makers, and finitely many; that the numbers on the wire
are within the widths of their types; and, in `Trade`, that the requests are the taker's and that the relay names each (`NoUlid` is not one of
its names: a request without a ulid is declined, which a taker could not tell from a maker that turns it down).

One assumption is about a contract: `EngineAssumption` of `Wire` says that the settlement engine reports a write of an id
under the option type of that id, which for the id of an option type is the id itself. The example takes the option it
sells from that report (seaport_helper.rs:223), and nothing in it compares the two. `MakerQuoting` and `Trade`
make the same assumption by naming options by their type. The TypeScript maker offers the id of the request itself:
`WebMaker` supposes that requests name option types, as src/README.md:665-671 requires. Another is about the clock: `AnswerRfq` of `Wire` supposes that
the system time is not set back between its two readings. Were it, the window would be that much shorter.

* `SessionTypeCorrect`, `SessionStreamsOfThisRun`. The inductive invariant is `SessionInv`: types
  and `StreamsByStage`, which says of each stage of `run` exactly which streams are open and
  with which session. The property alone is not inductive: opening the second stream
  needs to know what the first was opened with.
* `QuotingKeepsSession`: the serving maker refines its life cycle, so the session
  theorems carry over.
* `TypeCorrect`. Needs `References` (an offer, in hand, queued or published, names a signed
  order) and `InHandler` (at each await of a handler the request is a real one, the write it waits for exists).
  Balances staying natural numbers is part of the type, and rests on `Fill` taking only what is held.
* `OffersHaveOwnLots`. `LotInv` adds to the property that from the write to the signature the lot in
  hand is `Reserved`: a write of this request that no signed order uses. `WritesGrow` and
  `SignedGrows` say that ledgers only grow, and mined writes stay mined.
* `MakerImplementsDesk`. Under the refinement mapping a lot is free when mined and not promised,
  committed when promised and not sold. `DeskStep` maps `Mine` of a write to `Acquire`, signing a purchase
  to `Commit`, filling one to `HandOver`, and everything else to a stutter.
* `OffersStayCovered`. The property is not inductive: signing adds to what is promised and nothing to the balance, and
  nothing in it says that the options written for the new order are not counted on yet. `Stocked` is: of every
  option type the maker holds at least the sum of its mined lots that are not sold, promised or not. Mining
  adds a lot to both sides, filling a purchase takes one from both, filling a sale adds to the balance alone. Since no
  two orders have the same lot, `StockCoversOffers` injects the unfilled offers into these lots. `WebOffersHonoured`
  is the same for the TypeScript maker, with `GrantInv`: what is published was granted to Seaport before.
* `OneCommitment`. The inductive invariant `CommitmentInv` adds two facts. `OnePlace`: a request waits on
  the one stream that carried it, once, or is in hand, or has been dealt with. `CostSoFar`: what waits has
  cost nothing, and what is in hand has cost what the handler's place says, so that the write is
  sent for a request with none and the order signed for one unsigned.
* `AnswersAreInOrder`, `OffersAreForTheirRequest`. `InOrder` names, for each stream, the requests this run has answered:
  followed by the one in hand and by those that wait, they are all it is to answer; what was said was said to
  them, one by one, and an offer is the order signed for its own. Each kind of step moves one request at most:
  `ArrivedMoves` to the end of the queue, `TakenMoves` into the handler's hands, `SentMoves` to the answered ones.
  `OwnOrders`: the orders handed out are distinct, and the one about to be handed out is none of them.
* `FoldLemmas` is what the two previous items rest on. The sum over a set grows by what is added to the set, is the same
  under an injection, and is no larger on a subset; filtering a sequence commutes with reading its head and with
  appending to it. The induction is taken from the well-foundedness of the natural numbers and of finite sets under
  inclusion: a set of counterexamples would have a least one.
* `TakerTypeCorrect`, `TakerStopsAtTwo`, `SuccessFollowsSale`. `Phase` says at each await which orders have
  been sent and what the taker can hold. The last two properties hold because only purchases are asked for before the
  first check has passed, and because a purchase taken for the sale leaves at least `Amount` options, which the
  last check rejects.
* `PayingTakerIsTaker` maps every approval to a stutter, so these three hold with approvals. `SuccessMeansPayable`
  rests on `PayInv`: holding options, or having passed the first check, means that the payment was allowed, and
  allowances are never taken back.
* `ApprovalsKeepSession`: the life cycle with approvals refines `MakerSession`. `ApprovalsSettledBeforeServing` needs
  that a pass behind the approvals has them all settled, and that a new pass begins with none sent.
* `WebTypeCorrect`, `WebOffersHaveOwnLots`, `WritesAreApproved`, `WebMakerImplementsDesk`. `LotInv` is as for the Rust
  maker: what is in hand between write and signature is backed by no order. `ApprovalInv` follows the allowance:
  pending transactions are the end of the account's queue, every write comes right after a mined approval for the
  same request, in whichever process, and an approval that was the last to be mined is the whole allowance.
* `WireTypeCorrect`, `SubmittedOrderWasSigned`, `OwnOrdersAreReadable`, `OrdersAnswerTheRequest`, for every size of the
  limbs, 2^32 included. They rest on lemmas about division by products (`DivMod`, `HighHalf`, `Join`), on one
  round trip per type (`To128` and `From128` up to `To256` and `From256`), and on the two readings of an item agreeing
  where the second is defined (`SameReading`). `TradedId` is where `EngineAssumption` is used: it says which id the order
has. `OrdersAnswerTheRequest` needs no more of the two readings of the clock than that the second is not
the earlier one (`TimesFit`), so that it gives the end of the window a lower bound and no upper one.
* `TradeKeepsMaker` and `TradeKeepsTaker`: the composition refines both of its parts, so that what is proved of
  each alone holds of the two together. `TradeInv` has six parts beside the maker's own invariants. `AnswerInv`: a
  handler answers the request it was called with, and an offer is the order signed for it. `RoutedInv`: the relay
  carries only what was asked. `PendingInv`: an RFQ that the maker holds, or whose answer is on its way, is
  unanswered, and is in one of these places only. `SoftInv`: the same of the Soft Quote, which is quoted. `OffersInv`: on
  its way, in the inbox or in hand, an offer is the order signed for its RFQ. `CountInv`: there are no more declines
  than RFQs answered, which keeps the bound of `Taker`. `OrdersAreThoseAsked` follows from `OffersInv`.
* `TakerSellsOn`. The maker declines no valid sale (`PricesSales`), so that whatever is declined, on its way or in the inbox,
  is a purchase (`DeclinesInv`); and the taker has one RFQ out at a time, the last, which is a sale once it sells
  (`OneAtATime`). So it reads no decline any more, and nothing else makes it ask to buy.
* `SuccessFollowsPurchase`. `Purchase` follows the first order: before it is settled the taker holds nothing, what it holds
  then comes from that order having been filled, and only holding it turns the taker to selling. That the options were
  written for this very request is `OffersHaveOwnLots`, which `TradeKeepsMaker` brings here.
* `TradeIsAnExchange`. `AsAsked`, from `RoutedInv` and `OneCommitmentPerRequest`: an order is signed for an RFQ as it was
  asked, and is the only one for it. So signing maps to striking an open deal (`SigningStrikes`), mining to writing
  (`MiningWrites`), and what the taker settles is the deal of the order that Seaport fills (`FillingSettles`, with
  `OffersInv`). `OwedCovered` injects the struck purchases into the maker's unfilled offers, which
  `OffersStayCovered` has covered. Everything else, reconnections, reverts and declines included, is a stutter.

Only model-checked: liveness (`KeepsComingBack`, `EveryRequestLeaves`, `Terminates`, `HandlingEnds`, `TradeEnds`), which is
out of the prover's reach.

## Findings

1. `unbacked_sell`: an offer to pay USDC is signed without looking at the wallet (rfq_request.rs:135),
   against README.md:101-103.
2. `chain_id`: the answer names the node's chain, not the request's (rfq_request.rs:202), against README.md:800.
3. `offer_window`: offers last 1200 s (rfq_request.rs:169); the comment above says 30 minutes.
4. `taker_sell_phase`: a declined sale is answered by asking to buy (taker.rs:226), against taker.rs:68-70.
5. `taker_sold`: the final balance is read for token 0 (taker.rs:245), so that the assertion at taker.rs:292 shows nothing.

Worth knowing although no statement contradicts it:

* Options written for an order that is not signed, not sent or not filled stay with the maker for good. In `QuoteDesk`
  such lots are never given back.
* The maker logs "Approved ..." also when the approval reverted (maker/token_approvals.rs:27-37), and serves
  without the allowance until it happens to log in again. A failing node kills it there, though everywhere else in
  `run` it makes it retry.
* The taker lets Seaport take MAGIC only (taker/token_approvals.rs:20-27), while the price is in the maker's
  `usdc_address`, which the settings template gives another value. With such makers no purchase is filled, and the
  taker stops at the balance (`SuccessWasPayable`). The comment at taker.rs:124 speaks of "the tokens the example
  will be using".
* With the repository's own maker the taker never asks to buy again after a purchase (`SellsOn`): finding 4 needs a maker that
  declines a sale.
* A request that is lost with a run of the maker leaves the taker waiting for ever: no timeout, no repetition on either side
  (`Abandoned`).

## Not modelled

The hashing and encoding of EIP-712, SIWE texts, gas, prices beyond the constant, `Settings`, generated code, and the
Fees and Spot interfaces, which no program calls. The counter that `sign_order` reads from Seaport (seaport_helper.rs:75) and
hashes with the order: it is not part of the message, Seaport uses its own when the order is fulfilled, and no program
here increments it, so that `Wire` compares the orders without it. The conversions of the TypeScript maker
(`lib/fromBNToH`, `lib/fromHToBN`) are not in the repository; `WebMaker` takes from their use that they throw on a field that
is not there, which is what its `ReadMalformed` rests on. The TypeScript taker: when `sendRFQ` repeats its request, whether it
awaits the callback and what `abort()` cancels is decided in the Valorem SDK, which is not in the repository, and
without it there is nothing to interleave. The relay and the contracts are modelled only
as the programs use them. Exercise, redemption and expiry of options are used by no program.

## What could follow

`Trade` with several makers, of which some decline: the relay's side of `Taker` allows it, but the names of orders would
have to be the makers'. `Exchange` is about safety only: that a struck deal is ever settled is promised by neither
program, since an order that is not filled in time runs out.
