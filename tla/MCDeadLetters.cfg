SPECIFICATION Spec
CONSTANTS
  e1 = e1
  r1 = r1
  c1 = c1
  o1 = o1
  o2 = o2
  None = None
  Event = {e1}
  Reply = {r1}
  Command = {c1}
  Operator = {o1, o2}
  EventOf <- MCEventOf
  Raised = {"ReadTimeout", "http_418", "OperationalError"}
  MaxRequests = 3
  MaxFailures = 1
SYMMETRY Symmetry
CHECK_DEADLOCK FALSE
INVARIANTS IInv
PROPERTIES TrailTellsTheStep
