-------------------------------- MODULE Wire --------------------------------
(***************************************************************************)
(* A request and the signed order that answers it, on the wire: the        *)
(* conversions between Ethereum and proto types (grpc_adapters.rs), the    *)
(* order the maker fills in (rfq_request.rs) and what sign_order hashes of *)
(* it (maker/seaport_helper.rs), and what the taker makes of the message   *)
(* (taker/seaport_helper.rs).                                              *)
(*                                                                         *)
(* Numbers keep their layout but not their width: Half stands for 2^32.    *)
(* External: the clock, the random number and the wallet's signature; the  *)
(* settlement engine, whose events say what a write has written; takers    *)
(* that fill in a request, and makers that fill in an order, in their own  *)
(* way, the latter signing it with sign_order, as the example invites to.  *)
(***************************************************************************)
EXTENDS Integers, Sequences

CONSTANTS
    Half,          \* the number of values of a u32, 2^32
    Absent,        \* a message field that is not set
    Options,       \* ids of option types
    Amounts,       \* amounts takers ask for
    OptionType,    \* the option type the engine writes for an id: a claim's, or the id itself
    Receipts,      \* for each id, the OptionsWritten events a receipt of its write may hold
    OtherRequests, \* requests as other takers fill them in
    Times,         \* readings of the maker's clock
    Nonces,        \* random numbers for the salt
    Signatures,    \* signatures the maker's wallet may return
    OtherOrders,   \* orders as other makers fill them in
    OtherSignatures, \* signature messages as other makers send them
    Maker, Engine, Usdc, SeaportAddress,   \* addresses
    Price,         \* 10 USDC
    Window,        \* 1200 s
    DomainTag      \* 0x60DD32CF

Limb == Half * Half   \* the number of values of a u64
U32 == 0..(Half - 1)
U64 == 0..(Limb - 1)
U128 == 0..(Limb * Limb - 1)
Address == 0..(Limb * Limb * Half - 1)
U256 == 0..((Limb * Limb) * (Limb * Limb) - 1)
U8 == 0..255

Opt(S) == S \cup {Absent}

H128 == [hi : U64, lo : U64]
H160 == [hi : Opt(H128), lo : U32]
H256 == [hi : Opt(H128), lo : Opt(H128)]

\* Bytes that stand for a number: how many they are, and the number.
Bytes == [len : Nat, val : U256]

EthSignature == [r : Bytes, s : Bytes, v : Seq(U8)]
Signature == [r : U256, s : U256, v : U8]

\* Orders as a message holds them. Any field but the lists and the enums may be missing.
WireItem == [item_type : Int, token : Opt(H160), identifier_or_criteria : Opt(H256),
             start_amount : Opt(H256), end_amount : Opt(H256)]
WirePayment == [item_type : Int, token : Opt(H160), identifier_or_criteria : Opt(H256),
                start_amount : Opt(H256), end_amount : Opt(H256), recipient : Opt(H160)]
Order == [offerer : Opt(H160), zone : Opt(H160), offer : Seq(WireItem),
          consideration : Seq(WirePayment), order_type : Int, start_time : Opt(H256),
          end_time : Opt(H256), zone_hash : Opt(H256), salt : Opt(H256), conduit_key : Opt(H256)]

Requests == [action : {"Buy", "Sell"}, option : H256, amount : H256, seaport : H160]

\* An OptionsWritten event, of which the code reads the two ids.
WrittenEvent == [option : U256, claim : U256]

ASSUME WireAssumption ==
    /\ Half \in Nat \ {0}
    /\ Absent \notin H128 /\ Absent \notin H160 /\ Absent \notin H256 /\ Absent \notin EthSignature
    /\ Options \subseteq U256 /\ Amounts \subseteq U256
    /\ Times \subseteq Nat /\ Window \in Nat /\ \A t \in Times : t + Window \in U256
    /\ Nonces \subseteq U128 /\ DomainTag \in U32 /\ Price \in U256
    /\ Signatures \subseteq Signature
    /\ OtherRequests \subseteq Requests
    /\ OtherOrders \subseteq Order /\ OtherSignatures \subseteq Opt(EthSignature)
    /\ {Maker, Engine, Usdc, SeaportAddress} \subseteq Address

\* What is taken on trust of the settlement engine: a write of an id is reported
\* as one of the id's option type, which for the id of an option type is that id.
ASSUME EngineAssumption ==
    /\ OptionType \in [U256 -> U256] /\ \A o \in Options : OptionType[o] = o
    /\ Receipts \in [U256 -> SUBSET Seq(WrittenEvent)]
    /\ \A id \in U256 : \A receipt \in Receipts[id] : \A k \in DOMAIN receipt :
          receipt[k].option = OptionType[id]

-----------------------------------------------------------------------------
(* grpc_adapters.rs                                                        *)

OrElse(p, d) == IF p = Absent THEN d ELSE p

\* Mutant: the low half goes first.
ToH128Swapped(n) == [hi |-> n % Limb, lo |-> n \div Limb]

ToH128(n) == [hi |-> n \div Limb, lo |-> n % Limb]
FromH128(h) == h.hi * Limb + h.lo

ToH160(n) == [hi |-> ToH128(n \div Half), lo |-> n % Half]

ToH256(n) == [hi |-> ToH128(n \div (Limb * Limb)), lo |-> ToH128(n % (Limb * Limb))]

Default128 == [hi |-> 0, lo |-> 0]
Default160 == [hi |-> Absent, lo |-> 0]
Default256 == [hi |-> Absent, lo |-> Absent]

FromH160(h) == FromH128(OrElse(h.hi, Default128)) * Half + h.lo

FromH256(h) == FromH128(OrElse(h.hi, Default128)) * (Limb * Limb)
               + FromH128(OrElse(h.lo, Default128))

\* U256::encode: 32 bytes, most significant first.
Encode(n) == [len |-> 32, val |-> n]

\* Of v only the lowest byte is sent.
ToEthSignature(g) == [r |-> Encode(g.r), s |-> Encode(g.s), v |-> <<g.v % 256>>]

\* unwrap panics on a missing signature or an empty v, copy_from_slice on another length.
Readable(e) == e # Absent /\ e.r.len = 32 /\ e.s.len = 32 /\ e.v # <<>>

FromEthSignature(e) == [r |-> e.r.val, s |-> e.s.val, v |-> e.v[1]]

\* Mutant: an enum's number is not cut to the byte Seaport takes.
AsU8Wide(i) == i

\* as u8
AsU8(i) == i % 256

\* zone_hash and conduit_key: bytes of a word, zeros when it is not set.
Word(p) == IF p \in {Absent, Default256} THEN 0 ELSE Encode(FromH256(p)).val

-----------------------------------------------------------------------------
(* What the maker fills in, and what sign_order hashes of it.              *)

Erc20 == 1
Erc1155 == 3
FullOpen == 0

\* validate_rfq
Valid(q) == FromH256(q.amount) # 0 /\ FromH160(q.seaport) = SeaportAddress

\* write_option panics in as_u128 on an amount beyond 128 bits.
Writable(q) == q.action = "Buy" => FromH256(q.amount) \in U128

\* Mutant: the two ids change places.
LastIdsSwapped(receipt) ==
    IF receipt = <<>> THEN [option |-> 0, claim |-> 0]
    ELSE [option |-> receipt[Len(receipt)].claim, claim |-> receipt[Len(receipt)].option]

\* The loop over the logs keeps the ids of the last event, defaults when there is none.
LastIds(receipt) ==
    IF receipt = <<>> THEN [option |-> 0, claim |-> 0] ELSE receipt[Len(receipt)]

\* The ids write_option may return; with either of them 0 it returns None.
WriteOption(q) ==
    {ids \in {LastIds(receipt) : receipt \in Receipts[FromH256(q.option)]} :
        ids.option # 0 /\ ids.claim # 0}

\* The id in the order: what was written for a purchase, what was asked for in a sale.
TradedIds(q) ==
    IF q.action = "Buy" THEN {ids.option : ids \in WriteOption(q)} ELSE {FromH256(q.option)}

OptionItem(q, id) ==
    [item_type |-> Erc1155, token |-> ToH160(Engine), identifier_or_criteria |-> ToH256(id),
     start_amount |-> q.amount, end_amount |-> q.amount]

PriceItem ==
    [item_type |-> Erc20, token |-> ToH160(Usdc), identifier_or_criteria |-> Absent,
     start_amount |-> ToH256(Price), end_amount |-> ToH256(Price)]

\* A consideration item has a recipient, an offer item has none.
Item(i, to) ==
    [item_type |-> i.item_type, token |-> i.token,
     identifier_or_criteria |-> i.identifier_or_criteria,
     start_amount |-> i.start_amount, end_amount |-> i.end_amount, recipient |-> to]

\* Mutant: the consideration does not say who is to be paid.
PaidUnnamed(i) == Item(i, Absent)

Paid(i) == Item(i, ToH160(Maker))

\* The random number without its low 32 bits, and the tag in their place.
Salt(n) == (n \div Half) * Half + DomainTag

\* The clock is read twice, for the start and, later, for the end.
OrderFor(q, id, now, later, nonce) ==
    [offerer |-> ToH160(Maker), zone |-> Absent,
     offer |-> <<IF q.action = "Buy" THEN OptionItem(q, id) ELSE PriceItem>>,
     consideration |-> <<Paid(IF q.action = "Buy" THEN PriceItem ELSE OptionItem(q, id))>>,
     order_type |-> FullOpen, start_time |-> ToH256(now), end_time |-> ToH256(later + Window),
     zone_hash |-> Absent, salt |-> ToH256(Salt(nonce)), conduit_key |-> Absent]

\* sign_order falls back on defaults for what an item does not say.
HashedItem(i) ==
    [item_type |-> AsU8(i.item_type), token |-> FromH160(OrElse(i.token, Default160)),
     identifier_or_criteria |-> FromH256(OrElse(i.identifier_or_criteria, Default256)),
     start_amount |-> FromH256(OrElse(i.start_amount, Default256)),
     end_amount |-> FromH256(OrElse(i.end_amount, Default256))]

HashedPayment(i) == [item |-> HashedItem(i), recipient |-> FromH160(OrElse(i.recipient, Default160))]

\* sign_order unwraps these.
Signable(m) == Absent \notin {m.offerer, m.start_time, m.end_time, m.salt}

\* The components of which Seaport returns the hash.
Components(m) ==
    [offerer |-> FromH160(m.offerer), zone |-> FromH160(OrElse(m.zone, Default160)),
     offer |-> [k \in DOMAIN m.offer |-> HashedItem(m.offer[k])],
     consideration |-> [k \in DOMAIN m.consideration |-> HashedPayment(m.consideration[k])],
     order_type |-> AsU8(m.order_type), start_time |-> FromH256(m.start_time),
     end_time |-> FromH256(m.end_time), zone_hash |-> Word(m.zone_hash),
     salt |-> FromH256(m.salt), conduit_key |-> Word(m.conduit_key)]

-----------------------------------------------------------------------------
(* What the taker makes of the message.                                    *)

\* run looks at the first items before it transforms the order, and
\* transform_to_seaport_order unwraps more than sign_order does.
Complete(i) == Absent \notin {i.token, i.start_amount, i.end_amount}
PaymentComplete(i) == Absent \notin {i.start_amount, i.end_amount, i.recipient}

Transformable(m, e) ==
    /\ m.offer # <<>> /\ m.consideration # <<>>
    /\ m.consideration[1].token # Absent
    /\ Readable(e)
    /\ \A k \in DOMAIN m.offer : Complete(m.offer[k])
    /\ \A k \in DOMAIN m.consideration : PaymentComplete(m.consideration[k])
    /\ Absent \notin {m.offerer, m.start_time, m.end_time, m.salt}

\* Mutant: an auction's end is taken for its start.
SubmittedItemFlat(i) ==
    [item_type |-> AsU8(i.item_type), token |-> FromH160(i.token),
     identifier_or_criteria |-> FromH256(OrElse(i.identifier_or_criteria, Default256)),
     start_amount |-> FromH256(i.start_amount), end_amount |-> FromH256(i.start_amount)]

SubmittedItem(i) ==
    [item_type |-> AsU8(i.item_type), token |-> FromH160(i.token),
     identifier_or_criteria |-> FromH256(OrElse(i.identifier_or_criteria, Default256)),
     start_amount |-> FromH256(i.start_amount), end_amount |-> FromH256(i.end_amount)]

SubmittedPayment(i) ==
    [item |-> [item_type |-> AsU8(i.item_type),
               token |-> FromH160(OrElse(i.token, Default160)),
               identifier_or_criteria |-> FromH256(OrElse(i.identifier_or_criteria, Default256)),
               start_amount |-> FromH256(i.start_amount),
               end_amount |-> FromH256(i.end_amount)],
     recipient |-> FromH160(i.recipient)]

\* transform_to_seaport_order, without the length of the consideration.
Parameters(m) ==
    [offerer |-> FromH160(m.offerer), zone |-> FromH160(OrElse(m.zone, Default160)),
     offer |-> [k \in DOMAIN m.offer |-> SubmittedItem(m.offer[k])],
     consideration |-> [k \in DOMAIN m.consideration |-> SubmittedPayment(m.consideration[k])],
     order_type |-> AsU8(m.order_type), start_time |-> FromH256(m.start_time),
     end_time |-> FromH256(m.end_time), zone_hash |-> Word(m.zone_hash),
     salt |-> FromH256(m.salt), conduit_key |-> Word(m.conduit_key)]

-----------------------------------------------------------------------------
VARIABLES
    stage,      \* where the request or its answer is
    asked,      \* what the taker wants: the option, the amount and the action
    request,    \* the QuoteRequest
    own,        \* whether this repository's maker answers
    message,    \* parameters of the SignedOrder in the response
    signature,  \* its signature
    hashed,     \* the components that were hashed
    wallet,     \* the signature of the hash
    submitted   \* parameters and signature of the order sent to Seaport

maker == <<own, message, signature, hashed, wallet>>
wireVars == <<stage, asked, request, maker, submitted>>

Stages == {"idle", "asked", "signed", "submitted", "panic"}

Nothing == [none |-> TRUE]

SeaportItem ==
    [item_type : U8, token : Address, identifier_or_criteria : U256,
     start_amount : U256, end_amount : U256]

\* The parameters of a Seaport order, every number in its width.
SeaportOrder ==
    [offerer : Address, zone : Address, offer : Seq(SeaportItem),
     consideration : Seq([item : SeaportItem, recipient : Address]),
     order_type : U8, start_time : U256, end_time : U256, zone_hash : U256,
     salt : U256, conduit_key : U256]

Init ==
    /\ stage = "idle"
    /\ asked = Nothing
    /\ request = Nothing
    /\ own = TRUE
    /\ message = Nothing
    /\ signature = Nothing
    /\ hashed = Nothing
    /\ wallet = Nothing
    /\ submitted = Nothing

\* The taker's QuoteRequest.
Ask(action, option, amount) ==
    /\ stage = "idle"
    /\ asked' = [action |-> action, option |-> option, amount |-> amount]
    /\ request' = [action |-> action, option |-> ToH256(option), amount |-> ToH256(amount),
                   seaport |-> ToH160(SeaportAddress)]
    /\ stage' = "asked"
    /\ UNCHANGED <<maker, submitted>>

\* External: the request of another taker, whose numbers may lack halves.
OtherAsks(q) ==
    /\ stage = "idle"
    /\ asked' = [action |-> q.action, option |-> FromH256(q.option), amount |-> FromH256(q.amount)]
    /\ request' = q
    /\ stage' = "asked"
    /\ UNCHANGED <<maker, submitted>>

\* sign_order: what is hashed and what is sent are two readings of the same order.
SignAndSend(m, g) ==
    /\ Signable(m)
    /\ message' = m
    /\ hashed' = Components(m)
    /\ wallet' = g
    /\ stage' = "signed"
    /\ UNCHANGED <<asked, request, submitted>>

\* handle_rfq_request of this repository's maker. Its clock is not set back between
\* the two readings.
AnswerRfq(now, later, nonce, g) ==
    /\ stage = "asked"
    /\ Valid(request) /\ Writable(request)
    /\ now <= later
    /\ own' = TRUE
    /\ \E id \in TradedIds(request) : SignAndSend(OrderFor(request, id, now, later, nonce), g)
    /\ signature' = ToEthSignature(g)

\* There is no order for a request that is not valid or kills the maker, nor after
\* a write or a call of sign_order that fails.
NoAnswer ==
    /\ stage = "asked"
    /\ stage' = "idle"
    /\ asked' = Nothing
    /\ request' = Nothing
    /\ UNCHANGED <<maker, submitted>>

\* External: another maker fills in the order, and sends the signature as it came
\* or spoilt.
OtherAnswers(m, g, e) ==
    /\ stage = "asked"
    /\ own' = FALSE
    /\ SignAndSend(m, g)
    /\ signature' = e

Submit ==
    /\ stage = "signed"
    /\ Transformable(message, signature)
    /\ submitted' = [parameters |-> Parameters(message),
                     signature |-> FromEthSignature(signature)]
    /\ stage' = "submitted"
    /\ UNCHANGED <<asked, request, maker>>

Panics ==
    /\ stage = "signed"
    /\ ~Transformable(message, signature)
    /\ stage' = "panic"
    /\ UNCHANGED <<asked, request, maker, submitted>>

\* The taker goes on to its next request, or is started again.
NextRequest ==
    /\ stage \in {"submitted", "panic"}
    /\ stage' = "idle"
    /\ asked' = Nothing
    /\ request' = Nothing
    /\ own' = TRUE
    /\ message' = Nothing
    /\ signature' = Nothing
    /\ hashed' = Nothing
    /\ wallet' = Nothing
    /\ submitted' = Nothing

Next ==
    \/ \E a \in {"Buy", "Sell"}, o \in Options, n \in Amounts : Ask(a, o, n)
    \/ \E q \in OtherRequests : OtherAsks(q)
    \/ \E t, u \in Times, n \in Nonces, g \in Signatures : AnswerRfq(t, u, n, g)
    \/ NoAnswer
    \/ \E m \in OtherOrders, g \in Signatures :
          \E e \in OtherSignatures \cup {ToEthSignature(g)} : OtherAnswers(m, g, e)
    \/ Submit
    \/ Panics
    \/ NextRequest

Spec == Init /\ [][Next]_wireVars

-----------------------------------------------------------------------------
(* Properties                                                              *)

\* What is hashed and what is submitted are Seaport orders with every number in
\* its width, whatever the message leaves out or puts in an i32.
WireTypeOK ==
    /\ stage \in Stages
    /\ own \in BOOLEAN
    /\ stage # "idle" => request \in Requests
    /\ stage \in {"signed", "submitted"} =>
          message \in Order /\ hashed \in SeaportOrder /\ wallet \in Signature
    /\ stage = "submitted" => /\ submitted.parameters \in SeaportOrder
                              /\ submitted.signature \in Signature

\* The order the taker submits is the one the maker's signature is for, for
\* every order a maker may fill in, with fields left out or not ("if we change
\* anything the signature will not match", taker/seaport_helper.rs); and the
\* signature is submitted as the wallet made it, if it was sent that way.
SubmitsWhatWasSigned ==
    stage = "submitted" =>
        /\ submitted.parameters = hashed
        /\ signature = ToEthSignature(wallet) => submitted.signature = wallet

\* What Seaport is asked to fulfil for this repository's maker trades what the
\* taker asked for, in the direction it asked for, at the maker's price, to the
\* maker, and carries Valorem's domain tag in the low bits of its salt. What is sold
\* to a taker that names a claim are options of the claim's type. The window lasts
\* 1200 s, and longer by what passes between the two readings of the clock
\* (rfq_request.rs:168-169).
OrderIsForRequest ==
    stage = "submitted" /\ own =>
        LET given == submitted.parameters.offer[1]
            paid == submitted.parameters.consideration[1]
            option == IF asked.action = "Buy" THEN given ELSE paid.item
            price == IF asked.action = "Buy" THEN paid.item ELSE given
        IN  /\ option.token = Engine
            /\ option.identifier_or_criteria =
                  IF asked.action = "Buy" THEN OptionType[asked.option] ELSE asked.option
            /\ option.start_amount = asked.amount /\ option.end_amount = asked.amount
            /\ price.token = Usdc
            /\ price.start_amount = Price /\ price.end_amount = Price
            /\ {submitted.parameters.offerer, paid.recipient} = {Maker}
            /\ submitted.parameters.end_time >= submitted.parameters.start_time + Window
            /\ submitted.parameters.salt % Half = DomainTag

\* No order of this repository's maker lacks a field that the taker unwraps
\* where sign_order falls back on a default.
TakerReadsOwnOrders == own => stage # "panic"
=============================================================================
