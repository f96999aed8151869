SPECIFICATION Spec
CONSTANTS
    Half = 2
    Absent = Absent
    Options = {4, 148, 252}
    Amounts = {0, 1, 5, 16}
    OptionType <- TypeOfId
    Receipts <- WriteReceipts
    OtherRequests <- SomeRequests
    Times = {3, 100}
    Nonces = {0, 6, 15}
    Signatures <- TwoSignatures
    OtherOrders <- SomeOrders
    OtherSignatures <- SpoiltSignatures
    Maker = 19
    Engine = 6
    Usdc = 9
    SeaportAddress = 30
    Price = 10
    Window = 20
    DomainTag = 1
INVARIANTS
    WireTypeOK
    SubmitsWhatWasSigned
    OrderIsForRequest
    TakerReadsOwnOrders
