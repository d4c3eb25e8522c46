CONSTANTS
    None = None
    Subject = {s1}
    User = {u1, u2}
    Ledger = {l1, l2}
    Session = {d1, d2}
    Credential = {c1}
    Name = {"main", "other"}
    First = "main"
    Handler = {h1, h2}
    MaxRequests = 4
SPECIFICATION Spec
SYMMETRY Symmetry
CHECK_DEADLOCK FALSE
INVARIANTS IInv
PROPERTIES RevokedIsFinal
