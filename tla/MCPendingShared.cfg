CONSTANTS
    rent = rent
    photo = photo
    again = again
    image = image
    w1 = w1
    w2 = w2
    None = None
    Rule = {rent}
    Shared = {rent}
    Message = {}
    Image <- SamePhoto
    Session = {w1, w2}
    LastDay = 2
    Period = 2
    BatchSize = 1
    MaxMoves = 1
    MaxFailures = 0
    MaxCrashes = 0
SPECIFICATION Spec
CHECK_DEADLOCK FALSE
INVARIANTS OneOfConfirmAndCancel
