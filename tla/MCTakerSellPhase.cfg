CONSTANTS
    Makers = {m1}
    Amount = 1
    MaxDeclines = 1

SPECIFICATION Spec

INVARIANTS
    NoBuyAfterSell
