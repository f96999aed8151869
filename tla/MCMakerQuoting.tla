--------------------------- MODULE MCMakerQuoting ---------------------------
(* MakerQuoting for TLC: the requests the runs choose from. *)
EXTENDS MakerQuotingDocs

Ask(u, a, n) == [ulid |-> u, action |-> a, option |-> "o", amount |-> n,
                 chain |-> "421614", defects |-> {}]

BuyOne == Ask("u1", "Buy", 1)
BuyTwo == Ask("u2", "Buy", 2)
SellOne == Ask("u3", "Sell", 1)
SellTwo == Ask("u4", "Sell", 2)
BuyTooMany == Ask("u5", "Buy", 3)                    \* beyond MaxU128
BuyElsewhere == [Ask("u6", "Buy", 1) EXCEPT !.chain = "1"]
BuyOnOther == [Ask("u7", "Buy", 1) EXCEPT !.chain = "31337"]
BuyErc20 == [Ask("u9", "Buy", 1) EXCEPT !.defects = {"item_type"}]

\* Orders that draw on the same options and the same USDC.
RequestsMixed == {BuyOne, BuyTwo, SellOne, BuyElsewhere}

\* Requests the handlers reject, ignore or trip over, beside one they serve;
\* BuyErc20 is a valid Soft Quote.
RequestsOdd == {BuyOne, BuyErc20, BuyElsewhere, BuyTooMany}

RequestsToSell == {SellOne, SellTwo}
RequestsOtherChain == {BuyOne, BuyOnOther}
=============================================================================
