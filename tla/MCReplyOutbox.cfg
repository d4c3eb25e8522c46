CONSTANTS
    file = file
    card = card
    None = None
    Reply <- Export
    FileReply <- Files
    CardReply <- Cards
    Earlier <- FileFirst
    Worker = {w1, w2}
    MaxAttempts = 2
    BatchSize = 1
    MaxCrashes = 1
    MaxStalls = 1
    MaxWindows = 1
    MaxResultReplays = 1
    MaxDeadLetterReplays = 1
    MaxReconciles = 1
SPECIFICATION FairSpec
CONSTRAINT TwoTroubles
CHECK_DEADLOCK FALSE
INVARIANTS IInv NoOvertaking OneMessagePerWindow
PROPERTIES OutcomeByHolder EventuallyResolved
