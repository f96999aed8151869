CONSTANTS
    Sessions = {s1}
    NoSession = NoSession
    ApproveTokens = FALSE
    Requests <- RequestsOtherChain
    Options = {"o"}
    NoOption = "none"
    Chains = {"421614", "31337", "1"}
    SupportedChains = {"421614", "31337"}
    NodeChain = "421614"
    NoUlid = "none"
    MaxU128 = 2
    Capacity = 1
    OfferWindow = 2
    Price = 1
    Funds = 0
    MaxTime = 0
    DocumentedWindow = 3

SPECIFICATION Spec

INVARIANTS
    ChainIdMatches
