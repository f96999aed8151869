CONSTANTS
    Makers = {m1, m2}
    Amount = 1
    MaxDeclines = 2
    ApproveTokens = TRUE
    PriceTokens = {"magic", "usdc"}
    Grants <- FirstGrants
    Before <- NoAllowance
    MaxRefused = 1

SPECIFICATION FairPaySpec

INVARIANTS
    TypeOK
    AtMostTwoOrders
    DoneOnlyAfterSale
    SuccessWasPayable

PROPERTIES
    Terminates
