CONSTANTS
  A = A
  t1 = t1
  t2 = t2
  Client = {c1, c2}
  Road = {A}
  Ticket = {t1, t2}
  RoadOf <- OneRoad
  HeartBeat = HeartBeat
  Nothing = Nothing
  Capacity = 1
SPECIFICATION FairSpec
INVARIANT OnePlace
PROPERTIES ImplementsDelivery TicketsServed
CHECK_DEADLOCK FALSE
