CONSTANTS
    Makers = {m1}
    Amount = 1
    MaxDeclines = 0

SPECIFICATION Spec

INVARIANTS
    SoldAllBack
