----------------------------- MODULE WireProofs -----------------------------
(* Theorems about the wire, for every width of its words.                  *)
EXTENDS Wire, SequenceTheorems, TLAPS

-----------------------------------------------------------------------------
(* A number and its two halves.                                            *)

\* A number is what its quotient and its remainder make.
LEMMA DivMod ==
    ASSUME NEW n \in Nat, NEW k \in Nat \ {0}
    PROVE  n \div k \in Nat /\ n % k \in 0..(k - 1) /\ (n \div k) * k + (n % k) = n
<1>1. (n \div k) * k + (n % k) = n
    OBVIOUS
<1>2. n \div k \in Nat /\ n % k \in 0..(k - 1)
    OBVIOUS
<1> QED
    BY <1>1, <1>2

\* The high half of a number of m times k values has m values.
LEMMA HighHalf ==
    ASSUME NEW m \in Nat \ {0}, NEW k \in Nat \ {0}, NEW n \in 0..(m * k - 1)
    PROVE  n \div k \in 0..(m - 1)
OBVIOUS

\* Two halves make a number that has room for both.
LEMMA Join ==
    ASSUME NEW m \in Nat \ {0}, NEW k \in Nat \ {0}, NEW a \in 0..(m - 1), NEW b \in 0..(k - 1)
    PROVE  a * k + b \in 0..(m * k - 1)
<1>1. a * k <= (m - 1) * k
    OBVIOUS
<1>2. (m - 1) * k = m * k - k
    OBVIOUS
<1>3. a * k \in Nat /\ m * k \in Nat
    OBVIOUS
<1> QED
    BY <1>1, <1>2, <1>3

\* The product of two sizes is a size.
LEMMA Product ==
    ASSUME NEW m \in Nat \ {0}, NEW k \in Nat \ {0}
    PROVE  m * k \in Nat \ {0}
OBVIOUS

\* The sizes of the words are positive.
LEMMA Sizes ==
    /\ Half \in Nat \ {0} /\ Limb \in Nat \ {0} /\ Limb * Limb \in Nat \ {0}
    /\ Limb * Limb * Half \in Nat \ {0} /\ (Limb * Limb) * (Limb * Limb) \in Nat \ {0}
<1>1. Half \in Nat \ {0}
    BY WireAssumption
<1>2. Limb \in Nat \ {0}
    BY <1>1, Product DEF Limb
<1>3. Limb * Limb \in Nat \ {0}
    BY <1>2, Product
<1>4. Limb * Limb * Half \in Nat \ {0}
    BY <1>1, <1>3, Product
<1>5. (Limb * Limb) * (Limb * Limb) \in Nat \ {0}
    BY <1>3, Product
<1> QED
    BY <1>1, <1>2, <1>3, <1>4, <1>5

-----------------------------------------------------------------------------
(* The conversions of grpc_adapters.rs.                                    *)

\* A 128-bit number survives the way through an H128.
LEMMA To128 ==
    ASSUME NEW n \in U128
    PROVE  ToH128(n) \in H128 /\ FromH128(ToH128(n)) = n
<1>1. n \in Nat
    BY Sizes DEF U128
<1>2. n \div Limb \in U64
    BY Sizes, HighHalf DEF U128, U64
<1>3. n % Limb \in U64 /\ (n \div Limb) * Limb + (n % Limb) = n
    BY <1>1, Sizes, DivMod DEF U64
<1>4. ToH128(n) \in H128
    BY <1>2, <1>3 DEF ToH128, H128
<1>5. FromH128(ToH128(n)) = (n \div Limb) * Limb + (n % Limb)
    BY DEF ToH128, FromH128
<1> QED
    BY <1>3, <1>4, <1>5

\* An H128 stands for a 128-bit number.
LEMMA From128 ==
    ASSUME NEW h \in H128
    PROVE  FromH128(h) \in U128
BY Sizes, Join DEF H128, FromH128, U64, U128

\* An address survives the way through an H160.
LEMMA To160 ==
    ASSUME NEW n \in Address
    PROVE  ToH160(n) \in H160 /\ FromH160(ToH160(n)) = n
<1>1. n \in Nat
    BY Sizes DEF Address
<1>2. n \div Half \in U128
    BY Sizes, HighHalf DEF U128, Address
<1>3. n % Half \in U32 /\ (n \div Half) * Half + (n % Half) = n
    BY <1>1, Sizes, DivMod DEF U32
<1>4. ToH128(n \div Half) \in H128 /\ FromH128(ToH128(n \div Half)) = n \div Half
    BY <1>2, To128
<1>5. ToH128(n \div Half) # Absent
    BY <1>4, WireAssumption
<1>6. ToH160(n) \in H160
    BY <1>3, <1>4 DEF ToH160, H160, Opt
<1>7. FromH160(ToH160(n)) = FromH128(ToH128(n \div Half)) * Half + (n % Half)
    BY <1>5 DEF ToH160, FromH160, OrElse
<1> QED
    BY <1>3, <1>4, <1>6, <1>7

\* The defaults for unset fields are values of their types.
LEMMA Defaults ==
    /\ Default128 \in H128 /\ Default160 \in H160 /\ Default256 \in H256
BY Sizes DEF Default128, Default160, Default256, H128, H160, H256, Opt, U64, U32

\* An H160, with its high part set or not, stands for an address.
LEMMA From160 ==
    ASSUME NEW h \in H160
    PROVE  FromH160(h) \in Address
<1> DEFINE p == OrElse(h.hi, Default128)
<1>1. p \in H128
    BY Defaults DEF OrElse, Opt, H160
<1>2. FromH128(p) \in 0..(Limb * Limb - 1)
    BY <1>1, From128 DEF U128
<1>3. h.lo \in 0..(Half - 1)
    BY DEF H160, U32
<1>4. FromH128(p) * Half + h.lo \in 0..(Limb * Limb * Half - 1)
    BY <1>2, <1>3, Sizes, Join
<1> QED
    BY <1>4 DEF FromH160, Address

\* A 256-bit number survives the way through an H256.
LEMMA To256 ==
    ASSUME NEW n \in U256
    PROVE  ToH256(n) \in H256 /\ FromH256(ToH256(n)) = n
<1> DEFINE B == Limb * Limb
<1>1. n \in Nat /\ B \in Nat \ {0}
    BY Sizes DEF U256
<1>2. n \div B \in U128
    BY <1>1, HighHalf DEF U128, U256
<1>3. n % B \in U128 /\ (n \div B) * B + (n % B) = n
    BY <1>1, DivMod DEF U128
<1>4. ToH128(n \div B) \in H128 /\ FromH128(ToH128(n \div B)) = n \div B
    BY <1>2, To128
<1>5. ToH128(n % B) \in H128 /\ FromH128(ToH128(n % B)) = n % B
    BY <1>3, To128
<1>6. ToH128(n \div B) # Absent /\ ToH128(n % B) # Absent
    BY <1>4, <1>5, WireAssumption
<1>7. ToH256(n) \in H256
    BY <1>4, <1>5 DEF ToH256, H256, Opt
<1>8. FromH256(ToH256(n)) = FromH128(ToH128(n \div B)) * B + FromH128(ToH128(n % B))
    BY <1>6 DEF ToH256, FromH256, OrElse
<1> QED
    BY <1>3, <1>4, <1>5, <1>7, <1>8

\* An H256, with its halves set or not, stands for a 256-bit number.
LEMMA From256 ==
    ASSUME NEW h \in H256
    PROVE  FromH256(h) \in U256
<1> DEFINE p == OrElse(h.hi, Default128)
           q == OrElse(h.lo, Default128)
           B == Limb * Limb
<1>1. p \in H128 /\ q \in H128
    BY Defaults DEF OrElse, Opt, H256
<1>2. FromH128(p) \in 0..(B - 1) /\ FromH128(q) \in 0..(B - 1)
    BY <1>1, From128 DEF U128
<1>3. B \in Nat \ {0}
    BY Sizes
<1> HIDE DEF B, p, q
<1>4. FromH128(p) * B + FromH128(q) \in 0..(B * B - 1)
    BY <1>2, <1>3, Join
<1> QED
    BY <1>4 DEF FromH256, U256, B, p, q

\* A signature of the wallet is readable on the other side, and comes out as it went in.
LEMMA SignatureRoundTrip ==
    ASSUME NEW g \in Signature
    PROVE  /\ ToEthSignature(g) \in EthSignature /\ Readable(ToEthSignature(g))
           /\ FromEthSignature(ToEthSignature(g)) = g
<1>1. g.v % 256 = g.v /\ g.v \in U8 /\ g.r \in U256 /\ g.s \in U256
    BY DEF Signature, U8
<1>2. ToEthSignature(g) = [r |-> [len |-> 32, val |-> g.r], s |-> [len |-> 32, val |-> g.s], v |-> <<g.v>>]
    BY <1>1 DEF ToEthSignature, Encode
<1>3. ToEthSignature(g) \in EthSignature
    BY <1>1, <1>2 DEF EthSignature, Bytes
<1>4. Readable(ToEthSignature(g))
    BY <1>2, <1>3, WireAssumption DEF Readable
<1>5. g = [r |-> g.r, s |-> g.s, v |-> g.v]
    BY DEF Signature
<1> QED
    BY <1>2, <1>3, <1>4, <1>5 DEF FromEthSignature

-----------------------------------------------------------------------------
(* The readings of an order.                                               *)

\* Every optional field reads as a number of its width.
LEMMA FieldsTyped ==
    /\ \A p \in Opt(H160) : FromH160(OrElse(p, Default160)) \in Address
    /\ \A p \in Opt(H256) : FromH256(OrElse(p, Default256)) \in U256
    /\ \A p \in Opt(H256) : Word(p) \in U256
    /\ \A i \in Int : AsU8(i) \in U8
<1>1. \A p \in Opt(H160) : OrElse(p, Default160) \in H160
    BY Defaults DEF Opt, OrElse
<1>2. \A p \in Opt(H256) : OrElse(p, Default256) \in H256
    BY Defaults DEF Opt, OrElse
<1>3. ASSUME NEW p \in Opt(H256) PROVE Word(p) \in U256
    <2>1. 0 \in U256
        BY Sizes DEF U256
    <2>2. p # Absent => FromH256(p) \in U256
        BY From256 DEF Opt
    <2> QED
        BY <2>1, <2>2 DEF Word, Encode
<1>4. \A i \in Int : AsU8(i) \in U8
    BY DEF AsU8, U8
<1> QED
    BY <1>1, <1>2, <1>3, <1>4, From160, From256

\* sign_order makes a Seaport item of every offer item.
LEMMA ItemTyped ==
    ASSUME NEW i \in WireItem
    PROVE  HashedItem(i) \in SeaportItem
<1>1. /\ i.item_type \in Int /\ i.token \in Opt(H160)
      /\ i.identifier_or_criteria \in Opt(H256)
      /\ i.start_amount \in Opt(H256) /\ i.end_amount \in Opt(H256)
    BY DEF WireItem
<1> QED
    BY <1>1, FieldsTyped DEF HashedItem, SeaportItem

\* sign_order makes a Seaport item of every consideration item.
LEMMA PaymentTyped ==
    ASSUME NEW i \in WirePayment
    PROVE  HashedPayment(i) \in [item : SeaportItem, recipient : Address]
<1>1. /\ i.item_type \in Int /\ i.token \in Opt(H160)
      /\ i.identifier_or_criteria \in Opt(H256)
      /\ i.start_amount \in Opt(H256) /\ i.end_amount \in Opt(H256)
      /\ i.recipient \in Opt(H160)
    BY DEF WirePayment
<1>2. HashedItem(i) \in SeaportItem
    BY <1>1, FieldsTyped DEF HashedItem, SeaportItem
<1> QED
    BY <1>1, <1>2, FieldsTyped DEF HashedPayment

\* What is hashed of a signable order is a Seaport order.
LEMMA ComponentsTyped ==
    ASSUME NEW m \in Order, Signable(m)
    PROVE  Components(m) \in SeaportOrder
<1>1. /\ m.offerer \in H160 /\ m.start_time \in H256 /\ m.end_time \in H256 /\ m.salt \in H256
      /\ m.zone \in Opt(H160) /\ m.zone_hash \in Opt(H256) /\ m.conduit_key \in Opt(H256)
      /\ m.order_type \in Int /\ m.offer \in Seq(WireItem) /\ m.consideration \in Seq(WirePayment)
    BY DEF Order, Signable, Opt
<1>2. [k \in DOMAIN m.offer |-> HashedItem(m.offer[k])] \in Seq(SeaportItem)
    <2>1. DOMAIN m.offer = 1..Len(m.offer) /\ Len(m.offer) \in Nat
        BY <1>1
    <2>2. \A k \in 1..Len(m.offer) : HashedItem(m.offer[k]) \in SeaportItem
        BY <1>1, ItemTyped
    <2> QED
        BY <2>1, <2>2, IsASeq
<1>3. [k \in DOMAIN m.consideration |-> HashedPayment(m.consideration[k])]
          \in Seq([item : SeaportItem, recipient : Address])
    <2>1. DOMAIN m.consideration = 1..Len(m.consideration) /\ Len(m.consideration) \in Nat
        BY <1>1
    <2>2. \A k \in 1..Len(m.consideration) :
              HashedPayment(m.consideration[k]) \in [item : SeaportItem, recipient : Address]
        BY <1>1, PaymentTyped
    <2> QED
        BY <2>1, <2>2, IsASeq
<1>4. /\ FromH160(m.offerer) \in Address /\ FromH256(m.start_time) \in U256
      /\ FromH256(m.end_time) \in U256 /\ FromH256(m.salt) \in U256
    BY <1>1, From160, From256
<1>5. /\ FromH160(OrElse(m.zone, Default160)) \in Address
      /\ Word(m.zone_hash) \in U256 /\ Word(m.conduit_key) \in U256
      /\ AsU8(m.order_type) \in U8
    BY <1>1, FieldsTyped
<1> QED
    BY <1>2, <1>3, <1>4, <1>5 DEF Components, SeaportOrder

\* The taker and sign_order read the same order out of a message, when the
\* taker can read one at all.
LEMMA SameReading ==
    ASSUME NEW m \in Order, NEW e, Transformable(m, e)
    PROVE  Parameters(m) = Components(m)
<1>1. \A k \in DOMAIN m.offer : SubmittedItem(m.offer[k]) = HashedItem(m.offer[k])
    BY DEF Transformable, Complete, SubmittedItem, HashedItem, OrElse
<1>2. \A k \in DOMAIN m.consideration :
          SubmittedPayment(m.consideration[k]) = HashedPayment(m.consideration[k])
    BY DEF Transformable, PaymentComplete, SubmittedPayment, HashedPayment, HashedItem, OrElse
<1> QED
    BY <1>1, <1>2 DEF Parameters, Components

-----------------------------------------------------------------------------
(* The order of this repository's maker.                                   *)

Asked == [action : {"Buy", "Sell"}, option : U256, amount : U256]

\* The message says what the taker wants, in whatever halves.
Says(q, a) ==
    /\ q \in Requests /\ q.action = a.action
    /\ FromH256(q.option) = a.option /\ FromH256(q.amount) = a.amount

\* The addresses the maker puts into an order arrive as they are.
LEMMA Addresses ==
    \A a \in {Maker, Engine, Usdc, SeaportAddress} :
        ToH160(a) \in H160 /\ ToH160(a) # Absent /\ FromH160(ToH160(a)) = a
<1>1. \A a \in {Maker, Engine, Usdc, SeaportAddress} : a \in Address
    BY WireAssumption
<1>2. Absent \notin H160
    BY WireAssumption
<1> QED
    BY <1>1, <1>2, To160

\* Every number the maker puts into an order arrives as that number.
LEMMA Numbers ==
    \A n \in U256 : ToH256(n) \in H256 /\ ToH256(n) # Absent /\ FromH256(ToH256(n)) = n
BY To256, WireAssumption

\* The taker's request says what the taker wants.
LEMMA OwnRequest ==
    ASSUME NEW a \in {"Buy", "Sell"}, NEW o \in Options, NEW n \in Amounts
    PROVE  /\ [action |-> a, option |-> o, amount |-> n] \in Asked
           /\ Says([action |-> a, option |-> ToH256(o), amount |-> ToH256(n),
                     seaport |-> ToH160(SeaportAddress)],
                    [action |-> a, option |-> o, amount |-> n])
<1>1. o \in U256 /\ n \in U256
    BY WireAssumption
<1> QED
    BY <1>1, Numbers, Addresses DEF Asked, Says, Requests

\* What another taker's request says is what that taker wants.
LEMMA OtherRequest ==
    ASSUME NEW q \in Requests
    PROVE  LET a == [action |-> q.action, option |-> FromH256(q.option),
                     amount |-> FromH256(q.amount)]
           IN  a \in Asked /\ Says(q, a)
<1>1. q.action \in {"Buy", "Sell"} /\ q.option \in H256 /\ q.amount \in H256
    BY DEF Requests
<1>2. FromH256(q.option) \in U256 /\ FromH256(q.amount) \in U256
    BY <1>1, From256
<1> QED
    BY <1>1, <1>2 DEF Asked, Says

\* The id in the order: on a purchase the engine's report of what was written.
LEMMA TradedId ==
    ASSUME NEW q \in Requests, NEW id \in TradedIds(q)
    PROVE  /\ id \in U256
           /\ id = IF q.action = "Buy" THEN OptionType[FromH256(q.option)] ELSE FromH256(q.option)
<1> DEFINE o == FromH256(q.option)
<1>1. o \in U256 /\ q.action \in {"Buy", "Sell"}
    BY From256 DEF Requests
<1>2. CASE q.action = "Sell"
    BY <1>1, <1>2 DEF TradedIds
<1>3. CASE q.action = "Buy"
    <2>1. PICK receipt \in Receipts[o] : LastIds(receipt).option = id /\ id # 0
        BY <1>3 DEF TradedIds, WriteOption
    <2>2. Receipts[o] \subseteq Seq(WrittenEvent) /\ OptionType[o] \in U256
        BY <1>1, EngineAssumption
    <2>3. receipt # <<>>
        BY <2>1 DEF LastIds
    <2>4. receipt \in Seq(WrittenEvent) /\ Len(receipt) \in DOMAIN receipt
        BY <2>2, <2>3
    <2>5. id = receipt[Len(receipt)].option
        BY <2>1, <2>3 DEF LastIds
    <2>6. receipt[Len(receipt)].option = OptionType[o]
        BY <1>1, <2>4, EngineAssumption
    <2> QED
        BY <1>3, <2>2, <2>5, <2>6
<1> QED
    BY <1>1, <1>2, <1>3

\* The salt fits in its word and ends with the tag.
LEMMA SaltTagged ==
    ASSUME NEW n \in Nonces
    PROVE  Salt(n) \in U256 /\ Salt(n) % Half = DomainTag
<1>1. n \in 0..(Limb * Limb - 1) /\ DomainTag \in 0..(Half - 1)
    BY WireAssumption DEF U128, U32
<1> DEFINE m == Limb * Half
<1>2. Limb * Limb = m * Half /\ m \in Nat \ {0}
    <2>1. Limb * Limb = (Limb * Half) * Half
        BY Sizes DEF Limb
    <2> QED
        BY <2>1, Sizes, Product
<1> HIDE DEF m
<1>3. n \div Half \in 0..(m - 1)
    BY <1>1, <1>2, Sizes, HighHalf
<1>4. Salt(n) \in 0..(m * Half - 1)
    BY <1>1, <1>2, <1>3, Sizes, Join DEF Salt
<1>5. Salt(n) \in U256
    <2> DEFINE B == Limb * Limb
    <2>1. B \in Nat \ {0}
        BY Sizes
    <2> HIDE DEF B
    <2>2. B * B \in Nat /\ B <= B * B
        BY <2>1
    <2>3. Salt(n) \in 0..(B - 1)
        BY <1>2, <1>4 DEF B
    <2>4. Salt(n) \in 0..(B * B - 1)
        BY <2>1, <2>2, <2>3
    <2> QED
        BY <2>4 DEF U256, B
<1>6. Salt(n) % Half = DomainTag
    <2> DEFINE q == n \div Half
    <2>1. q \in Nat /\ Half \in Nat \ {0} /\ DomainTag \in Nat /\ DomainTag < Half
        BY <1>1, <1>3, <1>2, Sizes
    <2> HIDE DEF q
    <2>2. (q * Half + DomainTag) % Half = DomainTag
        BY <2>1
    <2> QED
        BY <2>2 DEF Salt, q
<1> QED
    BY <1>5, <1>6

\* The maker's two items can be read, and read as the option and the price.
LEMMA OwnItems ==
    ASSUME NEW q \in Requests, NEW id \in U256
    PROVE  LET o == OptionItem(q, id)
           IN  /\ o \in WireItem /\ Complete(o)
               /\ PriceItem \in WireItem /\ Complete(PriceItem)
               /\ \A i \in {o, PriceItem} : Paid(i) \in WirePayment /\ PaymentComplete(Paid(i))
               /\ HashedItem(o).token = Engine
               /\ HashedItem(o).identifier_or_criteria = id
               /\ HashedItem(o).start_amount = FromH256(q.amount)
               /\ HashedItem(o).end_amount = FromH256(q.amount)
               /\ HashedItem(PriceItem).token = Usdc
               /\ HashedItem(PriceItem).start_amount = Price
               /\ HashedItem(PriceItem).end_amount = Price
<1> DEFINE o == OptionItem(q, id)
<1>1. q.amount \in H256 /\ q.amount # Absent /\ Price \in U256
    BY WireAssumption DEF Requests
<1>2. o = [item_type |-> 3, token |-> ToH160(Engine), identifier_or_criteria |-> ToH256(id),
           start_amount |-> q.amount, end_amount |-> q.amount]
    BY DEF OptionItem, Erc1155
<1>3. PriceItem = [item_type |-> 1, token |-> ToH160(Usdc), identifier_or_criteria |-> Absent,
                   start_amount |-> ToH256(Price), end_amount |-> ToH256(Price)]
    BY DEF PriceItem, Erc20
<1> HIDE DEF o
<1>4. o \in WireItem /\ Complete(o)
    BY <1>1, <1>2, Numbers, Addresses DEF WireItem, Complete, Opt
<1>5. PriceItem \in WireItem /\ Complete(PriceItem)
    BY <1>1, <1>3, Numbers, Addresses DEF WireItem, Complete, Opt
<1>6. ASSUME NEW i \in WireItem, Complete(i)
      PROVE  Paid(i) \in WirePayment /\ PaymentComplete(Paid(i))
    BY <1>6, Addresses DEF Paid, Item, WireItem, WirePayment, Complete, PaymentComplete, Opt
<1>7. /\ HashedItem(o).token = Engine
      /\ HashedItem(o).identifier_or_criteria = id
      /\ HashedItem(o).start_amount = FromH256(q.amount)
      /\ HashedItem(o).end_amount = FromH256(q.amount)
    BY <1>1, <1>2, Numbers, Addresses DEF HashedItem, OrElse
<1>8. /\ HashedItem(PriceItem).token = Usdc
      /\ HashedItem(PriceItem).start_amount = Price
      /\ HashedItem(PriceItem).end_amount = Price
    BY <1>1, <1>3, Numbers, Addresses DEF HashedItem, OrElse
<1> QED
    BY <1>4, <1>5, <1>6, <1>7, <1>8 DEF o

\* A reading of the clock, and the end of a window from then on, fit in their words.
LEMMA TimesFit ==
    ASSUME NEW t \in Times
    PROVE  t \in Nat /\ Window \in Nat /\ t \in U256 /\ t + Window \in U256
<1>1. t \in Nat /\ Window \in Nat /\ t + Window \in U256
    BY WireAssumption
<1> QED
    BY <1>1, Sizes DEF U256

\* The maker's order is one that sign_order and the taker can both read.
LEMMA OwnOrder ==
    ASSUME NEW q \in Requests, NEW id \in U256, NEW t \in Times, NEW u \in Times,
           NEW n \in Nonces, NEW g \in Signatures
    PROVE  LET m == OrderFor(q, id, t, u, n)
           IN  m \in Order /\ Signable(m) /\ Transformable(m, ToEthSignature(g))
<1> DEFINE m == OrderFor(q, id, t, u, n)
           o == OptionItem(q, id)
<1>1. /\ o \in WireItem /\ Complete(o) /\ PriceItem \in WireItem /\ Complete(PriceItem)
      /\ \A i \in {o, PriceItem} : Paid(i) \in WirePayment /\ PaymentComplete(Paid(i))
    BY OwnItems
<1>2. t \in U256 /\ u + Window \in U256
    BY TimesFit
<1>3. Salt(n) \in U256
    BY SaltTagged
<1>4. Readable(ToEthSignature(g))
    BY WireAssumption, SignatureRoundTrip
<1>5. PICK i \in {o, PriceItem}, j \in {o, PriceItem} : m.offer = <<i>> /\ m.consideration = <<Paid(j)>>
    BY DEF OrderFor
<1>6. i \in WireItem /\ Complete(i) /\ j \in WireItem
    BY <1>1
<1>7. Paid(j) \in WirePayment /\ PaymentComplete(Paid(j))
    BY <1>1
<1>8. Paid(j).token # Absent
    <2>1. Paid(j).token = j.token
        BY DEF Paid, Item
    <2> QED
        BY <1>1, <2>1 DEF Complete
<1>9. /\ m.offerer \in H160 /\ m.zone \in Opt(H160) /\ m.start_time \in H256 /\ m.end_time \in H256
      /\ m.zone_hash \in Opt(H256) /\ m.salt \in H256 /\ m.conduit_key \in Opt(H256)
      /\ m.order_type \in Int
    BY <1>2, <1>3, Numbers, Addresses DEF OrderFor, Opt, FullOpen
<1>10. Absent \notin {m.offerer, m.start_time, m.end_time, m.salt}
    BY <1>9, WireAssumption
<1>11. m \in Order
    <2>1. m = [offerer |-> m.offerer, zone |-> m.zone, offer |-> m.offer,
               consideration |-> m.consideration, order_type |-> m.order_type,
               start_time |-> m.start_time, end_time |-> m.end_time,
               zone_hash |-> m.zone_hash, salt |-> m.salt, conduit_key |-> m.conduit_key]
        BY DEF OrderFor
    <2>2. m.offer \in Seq(WireItem) /\ m.consideration \in Seq(WirePayment)
        BY <1>5, <1>6, <1>7
    <2> HIDE DEF m
    <2> QED
        BY <1>9, <2>1, <2>2 DEF Order, Opt
<1>12. Signable(m)
    BY <1>10 DEF Signable
<1>13. Transformable(m, ToEthSignature(g))
    <2>1. \A k \in DOMAIN m.offer : Complete(m.offer[k])
        BY <1>5, <1>6
    <2>2. \A k \in DOMAIN m.consideration : PaymentComplete(m.consideration[k])
        BY <1>5, <1>7
    <2>3. m.offer # <<>> /\ m.consideration # <<>> /\ m.consideration[1].token # Absent
        BY <1>5, <1>8
    <2> QED
        BY <1>4, <1>10, <2>1, <2>2, <2>3 DEF Transformable
<1> QED
    BY <1>11, <1>12, <1>13

-----------------------------------------------------------------------------
(* The inductive invariant: what each stage remembers of the stages before. *)

WireInv ==
    /\ stage \in Stages /\ own \in BOOLEAN
    /\ stage # "idle" => asked \in Asked /\ Says(request, asked)
    /\ stage \in {"signed", "submitted", "panic"} =>
          /\ message \in Order /\ Signable(message) /\ hashed = Components(message)
          /\ wallet \in Signatures /\ signature \in Opt(EthSignature)
          /\ own => \E id \in TradedIds(request), t, u \in Times, n \in Nonces :
                       /\ t <= u
                       /\ message = OrderFor(request, id, t, u, n)
                       /\ signature = ToEthSignature(wallet)
    /\ stage = "submitted" =>
          /\ Transformable(message, signature)
          /\ submitted = [parameters |-> Parameters(message),
                          signature |-> FromEthSignature(signature)]
    /\ stage = "panic" => ~Transformable(message, signature)

\* The invariant is inductive.
LEMMA WireInvHolds == Spec => []WireInv
<1>1. Init => WireInv
    BY DEF Init, WireInv, Stages
<1>2. WireInv /\ [Next]_wireVars => WireInv'
    <2> SUFFICES ASSUME WireInv, [Next]_wireVars PROVE WireInv'
        OBVIOUS
    <2>1. ASSUME NEW a \in {"Buy", "Sell"}, NEW o \in Options, NEW n \in Amounts, Ask(a, o, n)
          PROVE  WireInv'
        <3>1. asked' \in Asked /\ Says(request', asked')
            BY <2>1, OwnRequest DEF Ask
        <3> QED
            BY <2>1, <3>1 DEF Ask, WireInv, Stages, maker
    <2>2. ASSUME NEW q \in OtherRequests, OtherAsks(q)
          PROVE  WireInv'
        <3>1. asked' \in Asked /\ Says(request', asked')
            BY <2>2, WireAssumption, OtherRequest DEF OtherAsks
        <3> QED
            BY <2>2, <3>1 DEF OtherAsks, WireInv, Stages, maker
    <2>3. ASSUME NEW t \in Times, NEW u \in Times, NEW n \in Nonces, NEW g \in Signatures,
                 AnswerRfq(t, u, n, g)
          PROVE  WireInv'
        <3>1. asked \in Asked /\ Says(request, asked) /\ request \in Requests
            BY <2>3 DEF AnswerRfq, WireInv, Says
        <3>2. PICK id \in TradedIds(request) : SignAndSend(OrderFor(request, id, t, u, n), g)
            BY <2>3 DEF AnswerRfq
        <3>3. OrderFor(request, id, t, u, n) \in Order
            BY <3>1, OwnOrder, TradedId
        <3>4. ToEthSignature(g) \in Opt(EthSignature)
            BY WireAssumption, SignatureRoundTrip DEF Opt
        <3>5. /\ stage' = "signed" /\ own' /\ UNCHANGED <<asked, request>> /\ wallet' = g
              /\ message' = OrderFor(request, id, t, u, n) /\ Signable(message')
              /\ hashed' = Components(message') /\ signature' = ToEthSignature(g)
              /\ own' \in BOOLEAN /\ t <= u
            BY <2>3, <3>2 DEF AnswerRfq, SignAndSend
        <3>6. \E i \in TradedIds(request'), v, w \in Times, k \in Nonces :
                 /\ v <= w
                 /\ message' = OrderFor(request', i, v, w, k)
                 /\ signature' = ToEthSignature(wallet')
            BY <3>5
        <3> QED
            BY <3>1, <3>3, <3>4, <3>5, <3>6 DEF WireInv, Stages
    <2>4. CASE NoAnswer
        BY <2>4 DEF NoAnswer, WireInv, Stages, maker
    <2>5. ASSUME NEW m \in OtherOrders, NEW g \in Signatures,
                 NEW e \in OtherSignatures \cup {ToEthSignature(g)}, OtherAnswers(m, g, e)
          PROVE  WireInv'
        <3>1. m \in Order /\ e \in Opt(EthSignature)
            BY WireAssumption, SignatureRoundTrip DEF Opt
        <3>2. asked \in Asked /\ Says(request, asked)
            BY <2>5 DEF OtherAnswers, WireInv
        <3> QED
            BY <2>5, <3>1, <3>2 DEF OtherAnswers, SignAndSend, WireInv, Stages
    <2>6. CASE Submit
        BY <2>6 DEF Submit, WireInv, Stages, maker
    <2>7. CASE Panics
        BY <2>7 DEF Panics, WireInv, Stages, maker
    <2>8. CASE NextRequest
        BY <2>8 DEF NextRequest, WireInv, Stages
    <2>9. CASE UNCHANGED wireVars
        BY <2>9 DEF wireVars, maker, WireInv
    <2> QED
        BY <2>1, <2>3, <2>4, <2>5, <2>6, <2>7, <2>8, <2>9, <2>2 DEF Next
<1> QED
    BY <1>1, <1>2, PTL DEF Spec

-----------------------------------------------------------------------------
(* Theorems.                                                               *)

\* Whatever a maker leaves out of its order or puts into an i32, what is hashed
\* and what is submitted are Seaport orders with every number in its width, for
\* words of every width.
THEOREM WireTypeCorrect == Spec => []WireTypeOK
<1>1. WireInv => WireTypeOK
    <2> SUFFICES ASSUME WireInv PROVE WireTypeOK
        OBVIOUS
    <2>1. stage # "idle" => request \in Requests
        BY DEF WireInv, Says
    <2>2. stage \in {"signed", "submitted"} =>
             message \in Order /\ hashed \in SeaportOrder /\ wallet \in Signature
        BY ComponentsTyped, WireAssumption DEF WireInv
    <2>3. ASSUME stage = "submitted"
          PROVE  submitted.parameters \in SeaportOrder /\ submitted.signature \in Signature
        <3>1. /\ message \in Order /\ Signable(message) /\ Transformable(message, signature)
              /\ signature \in Opt(EthSignature)
              /\ submitted.parameters = Parameters(message)
              /\ submitted.signature = FromEthSignature(signature)
            BY <2>3 DEF WireInv
        <3>2. Parameters(message) \in SeaportOrder
            BY <3>1, SameReading, ComponentsTyped
        <3>3. FromEthSignature(signature) \in Signature
            <4>1. signature \in EthSignature
                BY <3>1 DEF Opt, Transformable, Readable
            <4>2. signature.r.val \in U256 /\ signature.s.val \in U256
                BY <4>1 DEF EthSignature, Bytes
            <4>3. signature.v \in Seq(U8) /\ signature.v # <<>>
                BY <3>1, <4>1 DEF EthSignature, Transformable, Readable
            <4>4. signature.v[1] \in U8
                BY <4>3
            <4> QED
                BY <4>2, <4>4 DEF FromEthSignature, Signature
        <3> QED
            BY <3>1, <3>2, <3>3
    <2> QED
        BY <2>1, <2>2, <2>3 DEF WireTypeOK, WireInv
<1> QED
    BY <1>1, WireInvHolds, PTL

\* The taker submits the order that was signed, with the signature it was signed
\* with, for every order a maker may fill in and every width of a word.
THEOREM SubmittedOrderWasSigned == Spec => []SubmitsWhatWasSigned
<1>1. WireInv => SubmitsWhatWasSigned
    <2> SUFFICES ASSUME WireInv, stage = "submitted"
                 PROVE  /\ submitted.parameters = hashed
                        /\ signature = ToEthSignature(wallet) => submitted.signature = wallet
        BY DEF SubmitsWhatWasSigned
    <2>1. /\ message \in Order /\ Transformable(message, signature)
          /\ hashed = Components(message) /\ wallet \in Signature
          /\ submitted.parameters = Parameters(message)
          /\ submitted.signature = FromEthSignature(signature)
        BY WireAssumption DEF WireInv
    <2> QED
        BY <2>1, SameReading, SignatureRoundTrip
<1> QED
    BY <1>1, WireInvHolds, PTL

\* No order of this repository's maker makes the taker panic.
THEOREM OwnOrdersAreReadable == Spec => []TakerReadsOwnOrders
<1>1. WireInv => TakerReadsOwnOrders
    <2> SUFFICES ASSUME WireInv, own, stage = "panic" PROVE FALSE
        BY DEF TakerReadsOwnOrders
    <2>1. PICK id \in TradedIds(request), t \in Times, u \in Times, n \in Nonces :
              message = OrderFor(request, id, t, u, n) /\ signature = ToEthSignature(wallet)
        BY DEF WireInv
    <2>2. /\ request \in Requests /\ wallet \in Signatures
          /\ ~Transformable(message, signature)
        BY DEF WireInv, Says
    <2> QED
        BY <2>1, <2>2, TradedId, OwnOrder
<1> QED
    BY <1>1, WireInvHolds, PTL

\* The order Seaport is asked to fulfil for this repository's maker is the trade
\* the taker asked for, as far as the engine reports what it has written
\* (EngineAssumption): the conversions lose nothing of it on the way, whichever
\* halves the request leaves out. It may be fulfilled for Window or longer.
THEOREM OrdersAnswerTheRequest == Spec => []OrderIsForRequest
<1>1. WireInv => OrderIsForRequest
    <2> SUFFICES ASSUME WireInv, stage = "submitted", own PROVE OrderIsForRequest
        BY DEF OrderIsForRequest
    <2>1. PICK id \in TradedIds(request), t \in Times, u \in Times, n \in Nonces :
              t <= u /\ message = OrderFor(request, id, t, u, n)
        BY DEF WireInv
    <2>2. /\ asked \in Asked /\ request \in Requests /\ request.action = asked.action
          /\ FromH256(request.option) = asked.option /\ FromH256(request.amount) = asked.amount
          /\ message \in Order /\ submitted.parameters = Components(message)
        BY SameReading DEF WireInv, Says
    <2>3. /\ id \in U256
           /\ id = IF asked.action = "Buy" THEN OptionType[asked.option] ELSE asked.option
        BY <2>2, TradedId
    <2> DEFINE o == OptionItem(request, id)
               buy == asked.action = "Buy"
               given == IF buy THEN o ELSE PriceItem
               taken == IF buy THEN PriceItem ELSE o
    <2>4. message.offer = <<given>> /\ message.consideration = <<Paid(taken)>>
        BY <2>1, <2>2 DEF OrderFor
    <2>5. /\ submitted.parameters.offer[1] = HashedItem(given)
          /\ submitted.parameters.consideration[1] = HashedPayment(Paid(taken))
        BY <2>2, <2>4 DEF Components
    <2>6. \A i : HashedItem(Paid(i)) = HashedItem(i)
        BY DEF Paid, Item, HashedItem
    <2>7. HashedPayment(Paid(taken)).item = HashedItem(taken)
        BY <2>6 DEF HashedPayment
    <2>8. HashedPayment(Paid(taken)).recipient = Maker
        BY Addresses DEF HashedPayment, Paid, Item, OrElse
    <2>9. submitted.parameters.offerer = Maker
        BY <2>1, <2>2, Addresses DEF Components, OrderFor
    <2>10. submitted.parameters.end_time >= submitted.parameters.start_time + Window
        <3>1. t \in Nat /\ u \in Nat /\ Window \in Nat /\ t \in U256 /\ u + Window \in U256
            BY TimesFit
        <3>2. message.start_time = ToH256(t) /\ message.end_time = ToH256(u + Window)
            BY <2>1 DEF OrderFor
        <3>3. /\ submitted.parameters.start_time = t
              /\ submitted.parameters.end_time = u + Window
            BY <2>2, <3>1, <3>2, Numbers DEF Components
        <3> QED
            BY <2>1, <3>1, <3>3
    <2>11. submitted.parameters.salt % Half = DomainTag
        <3>1. message.salt = ToH256(Salt(n))
            BY <2>1 DEF OrderFor
        <3>2. submitted.parameters.salt = Salt(n)
            BY <2>2, <3>1, SaltTagged, Numbers DEF Components
        <3> QED
            BY <3>2, SaltTagged
    <2>12. /\ HashedItem(o).token = Engine
           /\ HashedItem(o).identifier_or_criteria = id
           /\ HashedItem(o).start_amount = asked.amount /\ HashedItem(o).end_amount = asked.amount
           /\ HashedItem(PriceItem).token = Usdc
           /\ HashedItem(PriceItem).start_amount = Price
           /\ HashedItem(PriceItem).end_amount = Price
        BY <2>2, <2>3, OwnItems
    <2>13. /\ (IF buy THEN HashedItem(given) ELSE HashedItem(taken)) = HashedItem(o)
           /\ (IF buy THEN HashedItem(taken) ELSE HashedItem(given)) = HashedItem(PriceItem)
        OBVIOUS
    <2> HIDE DEF o, given, taken
    <2> QED
        BY <2>5, <2>7, <2>8, <2>9, <2>10, <2>11, <2>12, <2>13, <2>3 DEF OrderIsForRequest
<1> QED
    BY <1>1, WireInvHolds, PTL

=============================================================================
