CONSTANTS
    Requests <- RequestsWeb
    Options = {"weth", "wbtc"}
    NoOption = "none"
    WethOptions = {"weth"}
    Underlying <- TwoPerOption
    OfferWindow = 1
    MaxTime = 1

SPECIFICATION FairSpec

INVARIANTS
    TypeOK
    OfferHasOwnLot
    WriteIsApproved
    OffersCanBeHonoured

PROPERTIES
    ImplementsDesk
    HandlingEnds
