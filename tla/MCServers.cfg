CONSTANTS
  old = old
  new = new
  help = help
  binary = binary
  w = w
  c = c
  Client = {c1, c2}
  Name = {"a", "b"}
  Empty = ""
  FilePath <- MCFilePath
  Folder <- MCFolder
  FileContent = {old, new, help, binary}
  NotText = {binary}
  ReadAs <- MCReadAs
  Request <- MCRequest
  Nothing = Nothing
  Illegal = Illegal
  MaxRequests = 3
  Word = {w}
  Address = Address
  Tony = Tony
  Space = Space
  NewLine = NewLine
  Wide = Wide
  Texts <- MCTexts
  MaxTokens = 6
  ByteWidth = 3
  NewLineByte = 7
  Comma = 6
  Lead = 4
  Trail = 5
  Digit = {2, 3}
  CipherSpec <- MCCipherSpec
  Plaintext <- MCPlaintext
  MaxRead = 3
  Bytes = 2
  Time <- MCTime
  Price <- MCPrice
  MaxInserts = 3
  Packet <- MCPacket
  Equals = "="
  NotUtf8 = "bad"
  VERSION_KEY <- MCVersionKey
  VERSION_VAL <- MCVersionVal
  PacketLen = 4
  MaxPackets = 3
  U64Width = 4
  Number <- MCNumber
  MaxNumbers = 2
  Base = 16
  Size <- MCSize
  MaxMessages = 2
  PestMessage <- MCPestMessage
  PestLength = "u32"
  TOO_MUCH_LENGTH = 40
  SpeedMessage <- MCSpeedMessage
  SpeedLength = "u8"
  Char = {c, Backslash, Slash, Newline}
  Backslash = Backslash
  Slash = Slash
  Newline = Newline
  MaxSize = 3
  MaxText = 6
  ConnectWord = connect
  DataWord = data
  AckWord = ack
  CloseWord = close
  NoMessage = NoMessage
  Session = {s1, s2}
  NoSession = NoSession
  Capacity = 2
  MaxInternal = 2
SPECIFICATION FairSpec
INVARIANTS
  TypeOK PromisesKept AnswersInStep RelayedExactly RepliesUnderstood MeanAnswered
  AnswersRepeatInserts PrimesTold MessagesUnforged MessagesReadBack
  PacketsReadBack
PROPERTIES ImplementsStore LinesRelayed LoopGoesOn
CHECK_DEADLOCK FALSE
