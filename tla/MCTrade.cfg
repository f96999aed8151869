CONSTANTS
    Sessions = {s1}
    NoSession = NoSession
    ApproveTokens = FALSE
    Requests <- TakerRequests
    Options = {"o"}
    NoOption = NoOption
    Chains = {"421614"}
    SupportedChains = {"421614"}
    NodeChain = "421614"
    NoUlid = NoUlid
    MaxU128 = 1
    Capacity = 1
    OfferWindow = 1
    Price = 1
    Funds = 0
    MaxTime = 1
    CreatedOption = "o"
    Amount = 1
    TakerChain = "421614"
    MaxAsks = 3

SPECIFICATION FairTradeSpec

INVARIANTS
    OrderIsTheOneAsked
    SellsOn
    SuccessMeansBought

PROPERTIES
    ImplementsTaker
    ImplementsExchange
    TradeEnds
