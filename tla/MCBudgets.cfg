SPECIFICATION Spec
CONSTANTS
  m1 = m1
  m2 = m2
  food = food
  fare = fare
  Total = Total
  Message = {m1, m2}
  Category = {food, fare}
  OrdersOf <- MCOrdersOf
  Opening <- MCOpening
  Amount = {10}
  LastMonth = 2
  MaxChanges = 1
  MaxFlips = 1
CHECK_DEADLOCK FALSE
INVARIANTS IInv
PROPERTIES TellsOnceUpwards NoThresholdMissed EveryMessageEnds
