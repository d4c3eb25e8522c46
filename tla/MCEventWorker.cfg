CONSTANTS
    e1 = e1
    w1 = w1
    w2 = w2
    None = None
    Event = {e1}
    Worker = {w1, w2}
    MaxAttempts = 2
    BatchSize = 1
    MaxCrashes = 1
    MaxStalls = 2
    MaxReplays = 1
SPECIFICATION FairSpec
CHECK_DEADLOCK FALSE
INVARIANTS IInv
PROPERTIES OutcomeByHolder ImplementsLifecycle EventuallySettled
