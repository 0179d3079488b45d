CONSTANTS
  a = a
  b = b
  Backslash = Backslash
  Slash = Slash
  Newline = Newline
  Char = {a, b, Backslash, Slash, Newline}
  MaxSize = 2
  Epoch = {1}
  Input <- ShortLines
  Cuts = {0, 2, 4}
  MaxConnects = 2
  Capacity = 2
SPECIFICATION Spec
INVARIANTS AnswersIntact AcksAccepted NoStall RetransmitPromised
PROPERTY ImplementsSession
CHECK_DEADLOCK FALSE
