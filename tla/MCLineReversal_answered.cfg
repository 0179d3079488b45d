CONSTANTS
  a = a
  b = b
  Backslash = Backslash
  Slash = Slash
  Newline = Newline
  Char = {a, b, Backslash, Slash, Newline}
  MaxSize = 2
  Epoch = {1}
  Input <- LongLine
  Cuts = {0, 2, 3}
  MaxConnects = 1
  Capacity = 2
SPECIFICATION FairSpec
PROPERTY LinesAnswered
CHECK_DEADLOCK FALSE
