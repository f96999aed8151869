------------------------------ MODULE Exchange ------------------------------
(***************************************************************************)
(* What a maker and a taker who do not trust each other, and who may lose  *)
(* each other's messages, expect of a trade: a deal is struck once for     *)
(* every RFQ, on one side, and settled once, options against USDC; and the *)
(* options of every purchase that is struck are there, for all of them     *)
(* together, before it is.                                                 *)
(***************************************************************************)
EXTENDS Naturals, Functions

CONSTANTS
    Rfqs,
    Amount,     \* options of a deal
    Price,      \* USDC of a deal
    Funds       \* USDC the maker begins with

VARIABLES
    deals,      \* of each RFQ: "open", the side it was struck on, or "settled"
    stock,      \* options the maker holds
    held,       \* options the taker holds
    cash        \* USDC the maker holds

exchangeVars == <<deals, stock, held, cash>>

\* What the purchases that were struck are still to deliver.
Purchases == {k \in Rfqs : deals[k] = "Buy"}
Owed == SumFunctionOnSet([k \in Rfqs |-> Amount], Purchases)

ExchangeInit ==
    /\ deals = [k \in Rfqs |-> "open"]
    /\ stock = 0
    /\ held = 0
    /\ cash = Funds

WriteOptions ==
    /\ stock' = stock + Amount
    /\ UNCHANGED <<deals, held, cash>>

Strike(k, side) ==
    /\ deals[k] = "open"
    /\ deals' = [deals EXCEPT ![k] = side]
    /\ Owed' <= stock
    /\ UNCHANGED <<stock, held, cash>>

SettleBuy(k) ==
    /\ deals[k] = "Buy"
    /\ deals' = [deals EXCEPT ![k] = "settled"]
    /\ stock >= Amount
    /\ stock' = stock - Amount
    /\ held' = held + Amount
    /\ cash' = cash + Price

SettleSell(k) ==
    /\ deals[k] = "Sell"
    /\ deals' = [deals EXCEPT ![k] = "settled"]
    /\ held >= Amount
    /\ cash >= Price
    /\ stock' = stock + Amount
    /\ held' = held - Amount
    /\ cash' = cash - Price

ExchangeNext ==
    \/ WriteOptions
    \/ \E k \in Rfqs :
          \/ \E side \in {"Buy", "Sell"} : Strike(k, side)
          \/ SettleBuy(k)
          \/ SettleSell(k)

ExchangeSpec == ExchangeInit /\ [][ExchangeNext]_exchangeVars
=============================================================================
