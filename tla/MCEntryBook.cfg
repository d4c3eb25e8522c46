CONSTANTS
    None = None
    Entry = {e1}
    Value = {v1}
    Account = {a1, a2}
    Key = {k1}
    Handler = {h1, h2}
    MaxRequests = 4
    MaxRollbacks = 1
SPECIFICATION FairSpec
CONSTRAINT OneField
CHECK_DEADLOCK FALSE
INVARIANTS IInv
PROPERTIES KeepsPromise EveryoneAnswered
