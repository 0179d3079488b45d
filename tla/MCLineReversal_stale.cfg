CONSTANTS
  a = a
  b = b
  Backslash = Backslash
  Slash = Slash
  Newline = Newline
  Char = {a, b, Backslash, Slash, Newline}
  MaxSize = 2
  Epoch = {1, 2}
  Input <- TwoEpochs
  Cuts = {0, 1, 2}
  MaxConnects = 2
  Capacity = 2
SPECIFICATION Spec
INVARIANT AnswersIntact
CHECK_DEADLOCK FALSE
