------------------------------- MODULE MCWire -------------------------------
(* Wire with a u32 of one bit: addresses have 5 bits, words 8.             *)
EXTENDS Wire

\* A token's payment for an option, as the example's maker fills it in.
GivenItem == [item_type |-> 1, token |-> ToH160(Usdc), identifier_or_criteria |-> Absent,
              start_amount |-> ToH256(10), end_amount |-> ToH256(10)]

TakenItem == Item(OptionItem([amount |-> ToH256(5)], 148), ToH160(Maker))

PlainOrder ==
    [offerer |-> ToH160(Maker), zone |-> Absent, offer |-> <<GivenItem>>,
     consideration |-> <<TakenItem>>, order_type |-> 0, start_time |-> ToH256(3),
     end_time |-> ToH256(9), zone_hash |-> Absent, salt |-> ToH256(6), conduit_key |-> Absent]

\* A word of which only the low half is set.
HalfWord == [hi |-> Absent, lo |-> [hi |-> 2, lo |-> 1]]

Items == {GivenItem,
          [GivenItem EXCEPT !.token = Absent],
          [GivenItem EXCEPT !.end_amount = Absent],
          [GivenItem EXCEPT !.end_amount = ToH256(200)],
          [GivenItem EXCEPT !.item_type = 259],
          [GivenItem EXCEPT !.identifier_or_criteria = HalfWord]}

Payments == {TakenItem,
             [TakenItem EXCEPT !.token = Absent],
             [TakenItem EXCEPT !.recipient = Absent],
             [TakenItem EXCEPT !.start_amount = Absent],
             [TakenItem EXCEPT !.end_amount = ToH256(77)],
             [TakenItem EXCEPT !.item_type = -1]}

SomeOrders ==
    {[PlainOrder EXCEPT !.offer = i, !.consideration = p] :
        i \in {<<>>} \cup {<<k>> : k \in Items} \cup {<<GivenItem, k>> : k \in Items},
        p \in {<<>>} \cup {<<k>> : k \in Payments} \cup {<<TakenItem, k>> : k \in Payments}}
    \cup {[PlainOrder EXCEPT !.zone_hash = w, !.conduit_key = x, !.zone = z] :
             w \in {Absent, Default256, HalfWord, ToH256(90)},
             x \in {Absent, ToH256(255)}, z \in {Absent, ToH160(21)}}
    \cup {[PlainOrder EXCEPT !.salt = Absent], [PlainOrder EXCEPT !.end_time = HalfWord],
          [PlainOrder EXCEPT !.order_type = 258]}

\* Four ids to an option type: its own and those of three claims.
TypeOfId == [id \in U256 |-> (id \div 4) * 4]

\* A write is reported with a new claim, or has reverted.
WriteReceipts ==
    [id \in U256 |-> {<<>>, <<[option |-> TypeOfId[id], claim |-> TypeOfId[id] + 1]>>}]

\* A word of which only the high half is set.
HighWord == [hi |-> [hi |-> 1, lo |-> 0], lo |-> Absent]

SomeRequests ==
    [action : {"Buy", "Sell"}, option : {HalfWord, HighWord, ToH256(149)},
     amount : {[hi |-> Absent, lo |-> ToH128(2)], HighWord, Default256},
     seaport : {ToH160(SeaportAddress)}]
    \cup [action : {"Buy"}, option : {ToH256(148)}, amount : {ToH256(1)},
          seaport : {[hi |-> Absent, lo |-> 0]}]

TwoSignatures == {[r |-> 201, s |-> 7, v |-> 27], [r |-> 0, s |-> 255, v |-> 28]}

SpoiltSignatures ==
    {Absent,
     [r |-> [len |-> 31, val |-> 7], s |-> Encode(9), v |-> <<27>>],
     [r |-> Encode(7), s |-> Encode(9), v |-> <<>>],
     [r |-> Encode(7), s |-> Encode(9), v |-> <<0, 27>>]}
=============================================================================
