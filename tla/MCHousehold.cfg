CONSTANTS
    None = None
    t1 = t1
    t2 = t2
    u3 = u3
    User = {u1, u2, u3}
    Household = {hh1}
    Name = {n1}
    Text = {t1, t2}
    Folded <- MCFolded
    DisplayName <- MCDisplayName
    Subject <- MCSubject
    Invitation = {i1, i2}
    Handler = {h1, h2}
    MaxRequests = 7
SPECIFICATION Spec
SYMMETRY Symmetry
CHECK_DEADLOCK FALSE
INVARIANTS IInv OnlyLateStays
PROPERTIES DecidedOnce BackByInvitation
