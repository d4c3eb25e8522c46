CONSTANTS
    m1 = m1
    c1 = c1
    r1 = r1
    d1 = d1
    d2 = d2
    d3 = d3
    Message = {m1}
    Card = {c1}
    Reminder = {r1}
    Delivery = {d1, d2, d3}
    EventOf <- MCEventOf
    Settings <- MCSettings
    None = None
    MaxCrashes = 1
    MaxStarts = 2
    MaxDelivered = 2

SPECIFICATION FairSpec

INVARIANTS
    IInv
    AckedIsHanded
    NoWakeupLost

PROPERTIES
    ShutdownEnds

CONSTRAINT SmallRestarts

CHECK_DEADLOCK FALSE
