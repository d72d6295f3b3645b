SPECIFICATION FairSpec
CONSTANTS
    o1 = o1
    o2 = o2
    NoOp = NoOp
    Ops = {o1, o2}
    MaxLeases <- MCLeases
    Crashable = {o1}
    Cancellable = {o2}
    Promotable = {o1}
    Racing = {o2}
    Losing = {o1}
    Endings <- MCEndings
    Exits <- MCExits
    Tearable = TRUE
INVARIANT SkippedExplained
INVARIANT ReceiptCounts
INVARIANT StreamAgrees
PROPERTY DeadOwnerSettled
