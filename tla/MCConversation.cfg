CONSTANTS
    Conv = {c1}
    Key = {k1, k2}
    Text = {t1}
    Handler = {h1, h2}
    None = None
    MaxHistory = 3
    MaxRequests = 3
    MaxRollbacks = 1
SPECIFICATION Spec
SYMMETRY Symmetric
CHECK_DEADLOCK FALSE
INVARIANTS IInv TurnsAreWhole NobodyStuck
PROPERTIES ArchivedIsClosed KeepsPromise
