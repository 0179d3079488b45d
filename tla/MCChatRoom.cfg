CONSTANTS
  Client = {c1, c2, c3}
  NoEvent = NoEvent
  MaxMessages = 1
  Capacity = 2
SPECIFICATION Spec
SYMMETRY Symmetry
INVARIANTS MembersListed LaterKnowsEarlier HeardInOrder QuietJoinIsExact
CHECK_DEADLOCK FALSE
