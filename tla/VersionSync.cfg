SPECIFICATION FairSpec
CONSTANTS
    Ids = {a, b}
    Values = {x, y}
    NoItem = NoItem
    MaxVersion = 2
    MaxEpoch = 2
INVARIANTS UidListCoversItems UidListKeepsOrder
PROPERTIES ImplementsReplica CatchesUp
CHECK_DEADLOCK FALSE
