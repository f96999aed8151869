------------------------------ MODULE WebMaker ------------------------------
(***************************************************************************)
(* The TypeScript maker (RFQ_maker.ts): it logs in, listens on one RFQ     *)
(* stream, and for every request to buy approves the collateral, writes    *)
(* the options, signs an order, approves Seaport and sends the response on *)
(* a stream of its own, which it does not wait for.  Nothing is caught: a  *)
(* call that throws ends the process, and somebody starts it again.        *)
(*                                                                         *)
(* External: the relay, the collateral token, the settlement engine and    *)
(* Seaport, which take the transactions of the account in order of nonce.  *)
(***************************************************************************)
EXTENDS Naturals, Sequences, Functions

CONSTANTS
    Requests,     \* the requests takers make, see WebRequestAssumption
    Options,      \* option types
    NoOption,     \* identifierOrCriteria is undefined
    WethOptions,  \* those whose underlying asset is WETH
    Underlying,   \* external: collateral per option
    OfferWindow,  \* validity of an order in time units, two minutes
    MaxTime       \* bound: the clock stops here

\* An amount of 0 stands for undefined.
ASSUME WebRequestAssumption ==
    \A r \in Requests :
        /\ DOMAIN r = {"ulid", "action", "option", "amount"}
        /\ r.action \in {"Buy", "Sell"}
        /\ r.option \in Options \cup {NoOption}
        /\ r.amount \in Nat

ASSUME WebAssumption ==
    /\ NoOption \notin Options
    /\ WethOptions \subseteq Options
    /\ Underlying \in [Options -> Nat]
    /\ OfferWindow \in Nat
    /\ MaxTime \in Nat

VARIABLES
    pc,         \* the await the maker is at
    inbox,      \* requests on the listening stream, not read yet
    cur,        \* quoteRequest: the request in hand
    reply,      \* quoteResponse: the order it carries, 0 when it is undefined
    tx,         \* the transaction that wait() waits for
    sending,    \* the responses whose streams were opened and not awaited
    signed,     \* the orders the maker has signed so far
    routed,     \* external: the requests the relay has delivered
    published,  \* external: the orders takers have received
    txs,        \* external: the account's transactions, by nonce
    allowance,  \* external: the WETH the settlement engine may take
    operator,   \* external: Seaport may move the maker's options
    balance,    \* external: the options the maker holds
    filled,     \* external: the orders filled on Seaport
    now         \* the clock

locals == <<cur, reply, tx>>
chainVars == <<txs, allowance, operator, balance, filled, now>>
relayVars == <<routed, published>>
vars == <<pc, inbox, locals, sending, signed, relayVars, chainVars>>

Login == {"nonce", "network", "verify", "authenticate"}
Handling == {"option", "approve", "approving", "write", "writing", "order", "grant", "granting"}
ProgramPoints == Login \cup Handling \cup {"listen", "read", "ended"}

NoRequest == [ulid |-> "none", action |-> "Sell", option |-> NoOption, amount |-> 0]

Txs == [kind : {"approve", "write", "grant"}, req : Requests,
        status : {"pending", "mined", "reverted"}]

Orders == [req : Requests, lot : Nat, until : Nat]

TypeOK ==
    /\ pc \in ProgramPoints
    /\ inbox \in Seq(Requests)
    /\ cur \in Requests \cup {NoRequest}
    /\ reply \in 0..Len(signed)
    /\ tx \in 0..Len(txs)
    /\ sending \subseteq 0..Len(signed)
    /\ signed \in Seq(Orders)
    /\ routed \subseteq Requests
    /\ published \subseteq DOMAIN signed
    /\ txs \in Seq(Txs)
    /\ allowance \in Nat
    /\ operator \in BOOLEAN
    /\ balance \in [Options -> Nat]
    /\ filled \subseteq DOMAIN signed
    /\ now \in Nat

Init ==
    /\ pc = "nonce"
    /\ inbox = <<>>
    /\ cur = NoRequest
    /\ reply = 0
    /\ tx = 0
    /\ sending = {}
    /\ signed = <<>>
    /\ routed = {}
    /\ published = {}
    /\ txs = <<>>
    /\ allowance = 0
    /\ operator = FALSE
    /\ balance = [o \in Options |-> 0]
    /\ filled = {}
    /\ now = 0

-----------------------------------------------------------------------------
(* Login and listening.                                                    *)

AfterLogin == [nonce |-> "network", network |-> "verify", verify |-> "authenticate",
               authenticate |-> "listen"]

LoginStep ==
    /\ pc \in Login
    /\ pc' = AfterLogin[pc]
    /\ UNCHANGED <<inbox, locals, sending, signed, relayVars, chainVars>>

\* The stream is opened with an empty response.
Listen ==
    /\ pc = "listen"
    /\ pc' = "read"
    /\ UNCHANGED <<inbox, locals, sending, signed, relayVars, chainVars>>

\* for await comes to the end of the stream, and the loop opens another.
StreamEnds ==
    /\ pc = "read"
    /\ inbox = <<>>
    /\ pc' = "listen"
    /\ UNCHANGED <<inbox, locals, sending, signed, relayVars, chainVars>>

Reads ==
    /\ pc = "read"
    /\ inbox # <<>>
    /\ inbox' = Tail(inbox)
    /\ cur' = Head(inbox)
    /\ UNCHANGED <<sending, signed, relayVars, chainVars>>

\* constructQuoteResponse returns undefined; the loop goes on with that.
Undefined ==
    /\ reply' = 0
    /\ pc' = "grant"

\* fromH256 is called all the same with what is said to be skipped, and throws
\* on undefined.
Malformed(r) == r.option = NoOption \/ (r.action = "Buy" /\ r.amount = 0)

\* A field that is missing is logged as a reason to skip; the conversion that
\* follows throws.
ReadMalformed ==
    /\ Reads
    /\ Malformed(Head(inbox))
    /\ pc' = "ended"
    /\ UNCHANGED <<reply, tx>>

ReadSell ==
    /\ Reads
    /\ ~Malformed(Head(inbox))
    /\ Head(inbox).action # "Buy"
    /\ Undefined
    /\ UNCHANGED tx

ReadBuy ==
    /\ Reads
    /\ ~Malformed(Head(inbox))
    /\ Head(inbox).action = "Buy"
    /\ pc' = "option"
    /\ UNCHANGED <<reply, tx>>

-----------------------------------------------------------------------------
(* constructQuoteResponse.                                                 *)

FetchOption ==
    /\ pc = "option"
    /\ IF cur.option \in WethOptions
       THEN pc' = "approve" /\ UNCHANGED reply
       ELSE Undefined
    /\ UNCHANGED <<inbox, cur, tx, sending, signed, relayVars, chainVars>>

\* Where the maker waits for the receipt of each kind of transaction.
Awaiting == [approve |-> "approving", write |-> "writing", grant |-> "granting"]

SendTx(kind) ==
    /\ pc = kind
    /\ txs' = Append(txs, [kind |-> kind, req |-> cur, status |-> "pending"])
    /\ tx' = Len(txs')
    /\ pc' = Awaiting[kind]
    /\ UNCHANGED <<inbox, cur, reply, sending, signed, relayVars,
                   allowance, operator, balance, filled, now>>

\* Mutant: the approval is sent, and the write follows without waiting for it.
ApprovedUnawaited ==
    /\ pc = "approving"
    /\ pc' = "write"
    /\ UNCHANGED <<inbox, locals, sending, signed, relayVars, chainVars>>

Approved ==
    /\ pc = "approving"
    /\ txs[tx].status = "mined"
    /\ pc' = "write"
    /\ UNCHANGED <<inbox, locals, sending, signed, relayVars, chainVars>>

\* Mutant: the status of the receipt is not looked at.
WrittenUnchecked ==
    /\ pc = "writing"
    /\ txs[tx].status # "pending"
    /\ pc' = "order"
    /\ UNCHANGED <<inbox, locals, sending, signed, relayVars, chainVars>>

\* Mutant: the write is not waited for.
WrittenUnawaited ==
    /\ pc = "writing"
    /\ pc' = "order"
    /\ UNCHANGED <<inbox, locals, sending, signed, relayVars, chainVars>>

Written ==
    /\ pc = "writing"
    /\ txs[tx].status = "mined"
    /\ pc' = "order"
    /\ UNCHANGED <<inbox, locals, sending, signed, relayVars, chainVars>>

\* Mutant: a reverted approval or write leaves the maker waiting.
RevertedIgnored ==
    /\ pc \in {"approving", "writing"}
    /\ txs[tx].status = "reverted"
    /\ UNCHANGED vars

\* The receipt has status 0: no order, and still a response.
Reverted ==
    /\ pc \in {"approving", "writing"}
    /\ txs[tx].status = "reverted"
    /\ Undefined
    /\ UNCHANGED <<inbox, cur, tx, sending, signed, relayVars, chainVars>>

\* Mutant: the response names the order after the one signed.
SignOrderOffByOne ==
    /\ pc = "order"
    /\ signed' = Append(signed, [req |-> cur, lot |-> tx, until |-> now + OfferWindow])
    /\ reply' = Len(signed') + 1
    /\ pc' = "grant"
    /\ UNCHANGED <<inbox, cur, tx, sending, relayVars, chainVars>>

\* The block, its timestamp and the counter are fetched, then the order is signed.
SignOrder ==
    /\ pc = "order"
    /\ signed' = Append(signed, [req |-> cur, lot |-> tx, until |-> now + OfferWindow])
    /\ reply' = Len(signed')
    /\ pc' = "grant"
    /\ UNCHANGED <<inbox, cur, tx, sending, relayVars, chainVars>>

-----------------------------------------------------------------------------
(* Sending the response.                                                   *)

\* Mutant: the response is sent whether Seaport may move the options or not.
GrantedUnchecked ==
    /\ pc = "granting"
    /\ txs[tx].status # "pending"
    /\ sending' = sending \cup {reply}
    /\ pc' = "read"
    /\ UNCHANGED <<inbox, locals, signed, relayVars, chainVars>>

\* setApprovalForAll is in effect: a stream for the response is opened, and the
\* loop goes on to the next request.
Granted ==
    /\ pc = "granting"
    /\ txs[tx].status = "mined"
    /\ sending' = sending \cup {reply}
    /\ pc' = "read"
    /\ UNCHANGED <<inbox, locals, signed, relayVars, chainVars>>

\* return leaves respondToRfqs, not the turn of the loop.
NotGranted ==
    /\ pc = "granting"
    /\ txs[tx].status = "reverted"
    /\ pc' = "ended"
    /\ UNCHANGED <<inbox, locals, sending, signed, relayVars, chainVars>>

\* A call throws, wait() for its receipt included, or a response that nobody
\* awaits is rejected: the process ends.
Throws ==
    /\ pc # "ended"
    /\ pc' = "ended"
    /\ UNCHANGED <<inbox, locals, sending, signed, relayVars, chainVars>>

\* Started again, the maker knows nothing of what it has signed and sent.
Restart ==
    /\ pc = "ended"
    /\ pc' = "nonce"
    /\ inbox' = <<>>
    /\ cur' = NoRequest
    /\ reply' = 0
    /\ tx' = 0
    /\ sending' = {}
    /\ UNCHANGED <<signed, relayVars, chainVars>>

-----------------------------------------------------------------------------
(* External: the relay, the chain and the clock.                           *)

Deliver(r) ==
    /\ pc \in Handling \cup {"read"}
    /\ r \notin routed
    /\ routed' = routed \cup {r}
    /\ inbox' = Append(inbox, r)
    /\ UNCHANGED <<pc, locals, sending, signed, published, chainVars>>

\* The responses go out on streams of their own, in any order; an undefined
\* one, and one whose stream breaks, is lost.
Publish(k) ==
    /\ k # 0
    /\ sending' = sending \ {k}
    /\ published' = published \cup {k}
    /\ UNCHANGED <<pc, inbox, locals, signed, routed, chainVars>>

Lose(k) ==
    /\ sending' = sending \ {k}
    /\ UNCHANGED <<pc, inbox, locals, signed, relayVars, chainVars>>

Collateral(r) == r.amount * Underlying[r.option]

\* The first transaction that is pending: later nonces wait for it.
NextTx(i) ==
    /\ txs[i].status = "pending"
    /\ \A j \in 1..(i - 1) : txs[j].status # "pending"

Mine(i) ==
    /\ NextTx(i)
    /\ txs' = [txs EXCEPT ![i].status = "mined"]
    /\ LET r == txs[i].req
       IN  \/ /\ txs[i].kind = "approve"
              /\ allowance' = Collateral(r)
              /\ UNCHANGED <<operator, balance>>
           \/ /\ txs[i].kind = "write"
              /\ allowance >= Collateral(r)
              /\ allowance' = allowance - Collateral(r)
              /\ balance' = [balance EXCEPT ![r.option] = @ + r.amount]
              /\ UNCHANGED operator
           \/ /\ txs[i].kind = "grant"
              /\ operator' = TRUE
              /\ UNCHANGED <<allowance, balance>>
    /\ UNCHANGED <<pc, inbox, locals, sending, signed, relayVars, filled, now>>

Revert(i) ==
    /\ NextTx(i)
    /\ txs' = [txs EXCEPT ![i].status = "reverted"]
    /\ UNCHANGED <<pc, inbox, locals, sending, signed, relayVars,
                   allowance, operator, balance, filled, now>>

Live(k) == k \notin filled /\ now < signed[k].until

Fill(k) ==
    /\ Live(k)
    /\ operator
    /\ balance[signed[k].req.option] >= signed[k].req.amount
    /\ filled' = filled \cup {k}
    /\ balance' = [balance EXCEPT ![signed[k].req.option] = @ - signed[k].req.amount]
    /\ UNCHANGED <<pc, inbox, locals, sending, signed, relayVars, txs, allowance, operator, now>>

Tick ==
    /\ now < MaxTime
    /\ now' = now + 1
    /\ UNCHANGED <<pc, inbox, locals, sending, signed, relayVars,
                   txs, allowance, operator, balance, filled>>

-----------------------------------------------------------------------------
Handle ==
    \/ FetchOption
    \/ SendTx("approve")
    \/ Approved
    \/ SendTx("write")
    \/ Written
    \/ Reverted
    \/ SignOrder
    \/ SendTx("grant")
    \/ Granted
    \/ NotGranted

Program ==
    \/ LoginStep
    \/ Listen
    \/ StreamEnds
    \/ ReadMalformed
    \/ ReadSell
    \/ ReadBuy
    \/ Handle
    \/ Throws
    \/ Restart

External ==
    \/ \E r \in Requests : Deliver(r)
    \/ \E k \in sending : Publish(k) \/ Lose(k)
    \/ \E i \in DOMAIN txs : Mine(i) \/ Revert(i)
    \/ \E k \in published : Fill(k)
    \/ Tick

Next == Program \/ External

Spec == Init /\ [][Next]_vars

\* Calls come back, and the chain mines or reverts what it was sent: wait() has no
\* timeout.
Fairness ==
    /\ WF_vars(Handle)
    /\ WF_vars(\E i \in DOMAIN txs : Mine(i) \/ Revert(i))

FairSpec == Spec /\ Fairness

-----------------------------------------------------------------------------
(* Properties.                                                             *)

\* Every order is backed by a write of its own: a write for the very request,
\* mined before the order was signed and promised by no other order, across
\* receipts that never came and processes that were started again.
OfferHasOwnLot ==
    \A k \in DOMAIN signed :
        /\ signed[k].lot \in DOMAIN txs
        /\ txs[signed[k].lot] = [kind |-> "write", req |-> signed[k].req, status |-> "mined"]
        /\ \A l \in DOMAIN signed : signed[l].lot = signed[k].lot => l = k

\* A write that is about to be mined finds the collateral approved for it: the
\* approval before it was for its amount, and neither another request nor the
\* remains of an earlier process have come in between.
WriteIsApproved ==
    \A i \in DOMAIN txs :
        NextTx(i) /\ txs[i].kind = "write" => allowance >= Collateral(txs[i].req)

Amounts == [k \in DOMAIN signed |-> signed[k].req.amount]

\* The offers of an option type that takers have received and not filled yet.
Outstanding(o) == {k \in published \ filled : signed[k].req.option = o}

\* The maker can hand over what it has offered: once an offer has reached a taker
\* Seaport may move the maker's options, and the maker holds enough of them for all
\* such offers together, in any order of answers, fills, failures and restarts
\* (respondToRfqs approves before it sends; README.md:101-103).
OffersCanBeHonoured ==
    /\ published # {} => operator
    /\ \A o \in Options : balance[o] >= SumFunctionOnSet(Amounts, Outstanding(o))

Mined == {i \in DOMAIN txs : txs[i].kind = "write" /\ txs[i].status = "mined"}
Promised == {signed[k].lot : k \in DOMAIN signed}
Sold == {signed[k].lot : k \in filled}

\* This maker, too, does what the abstract desk does: it promises a lot only
\* after it was written, and no lot twice.
Desk == INSTANCE QuoteDesk
        WITH free <- Mined \ Promised, committed <- Promised \ Sold, sold <- Sold

ImplementsDesk == Desk!DeskSpec

\* A request the maker has begun to handle does not stay in its hands: it is
\* answered or the process ends.
HandlingEnds == (pc \in Handling) ~> (pc \notin Handling)
=============================================================================
