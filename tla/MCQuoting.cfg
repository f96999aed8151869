CONSTANTS
    Sessions = {s1}
    NoSession = NoSession
    ApproveTokens = FALSE
    Requests <- RequestsMixed
    Options = {"o"}
    NoOption = "none"
    Chains = {"421614", "31337", "1"}
    SupportedChains = {"421614", "31337"}
    NodeChain = "421614"
    NoUlid = "none"
    MaxU128 = 2
    Capacity = 2
    OfferWindow = 1
    Price = 1
    Funds = 1
    MaxTime = 1
    DocumentedWindow = 3

SPECIFICATION Spec

INVARIANTS
    TypeOK
    OfferHasOwnLot
    OffersAreCovered
    OneCommitmentPerRequest
    OffersAnswerTheirRequest

PROPERTIES
    ImplementsDesk
