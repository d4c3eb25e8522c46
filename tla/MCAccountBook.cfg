CONSTANTS
    None = None
    User = {owner, member}
    Owner = owner
    Account = {a1, a2, a3}
    First = a1
    Draft <- Drafts
    Currency = {"CNY"}
    Base = "CNY"
    Amount = {1}
    Entry = {e1}
    Transfer = {t1}
    Goal = {g1}
    GoalChange <- OneFieldChanges
    Handler = {h1, h2}
    MaxRequests = 3
SPECIFICATION Spec
SYMMETRY Symmetry
CHECK_DEADLOCK FALSE
INVARIANTS IInv SomeoneGoesOn
PROPERTIES NetMovesOnlyByEntries
