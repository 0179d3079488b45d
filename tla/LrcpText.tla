------------------------------ MODULE LrcpText ------------------------------
(***************************************************************************)
(* Problem 7: the packets of LRCP, over every text of at most MaxText      *)
(* characters, taken as data to be sent and as what packets received are   *)
(* made of.  A word and a number are one token of a packet.                *)
(***************************************************************************)
EXTENDS Lrcp

CONSTANTS
  MaxText,                    \* bound: the longest text
  ConnectWord, DataWord, AckWord, CloseWord,  \* the words of the types of messages
  NoMessage

(* The characters and the words that are told apart.                       *)
PacketAssumption ==
  /\ {Backslash, Slash, Newline} \subseteq Char /\ Backslash # Slash
  /\ MaxSize \in Nat /\ MaxSize >= 2
  /\ DataWord \notin {ConnectWord, CloseWord, AckWord} /\ AckWord \notin {ConnectWord, CloseWord}

VARIABLE text

Init == text = << >>

Type(c) == Len(text) < MaxText /\ text' = Append(text, c)

Next == \E c \in Char : Type(c)

Spec == Init /\ [][Next]_text

-----------------------------------------------------------------------------
(* serialize.                                                              *)
Enclosed(parts) == <<Slash>> \o Text([i \in DOMAIN parts |-> Append(parts[i], Slash)])

serialize(msg) ==
  Enclosed(CASE msg.type \in {ConnectWord, CloseWord} -> <<<<msg.type>>, <<msg.session>>>>
             [] msg.type = AckWord -> <<<<AckWord>>, <<msg.session>>, <<msg.length>>>>
             [] msg.type = DataWord -> <<<<DataWord>>, <<msg.session>>, <<msg.pos>>, escape_data(msg.data)>>)

(* The regular expressions: numbers stand in the places given, between     *)
(* slashes, and the packet has last tokens, or more for its content.       *)
Matches(packet, numbers, last) ==
  /\ Len(packet) >= last
  /\ \A i \in numbers : packet[i] \in Nat /\ packet[i - 1] = Slash /\ packet[i + 1] = Slash

(* ClientMessage::parse.  The content of data ends before the last slash.  *)
parse(packet) ==
  LET content == SubSeq(packet, 8, Len(packet) - 1) IN
  IF ~(Len(packet) > 2 /\ packet[1] = Slash /\ packet[Len(packet)] = Slash) THEN NoMessage
  ELSE IF packet[2] \in {ConnectWord, CloseWord} /\ Len(packet) = 5 /\ Matches(packet, {4}, 5)
  THEN [type |-> packet[2], session |-> packet[4]]
  ELSE IF packet[2] = AckWord /\ Len(packet) = 7 /\ Matches(packet, {4, 6}, 7)
  THEN [type |-> AckWord, session |-> packet[4], length |-> packet[6]]
  ELSE IF packet[2] = DataWord /\ Matches(packet, {4, 6}, 8) /\ Valid(content)
  THEN [type |-> DataWord, session |-> packet[4], pos |-> packet[6], data |-> unescape_data(content)]
  ELSE NoMessage

DataMessage(pos, data) == [type |-> DataWord, session |-> 1, pos |-> pos, data |-> data]

(* A peer reads a text that is sent in chunks, from any position, without  *)
(* gap or overlap; no chunk is empty, and none is longer than a packet may *)
(* be once it is escaped.                                                  *)
ReadInChunks ==
  \A pos \in {0, 7} :
    LET cut == split_data(pos, text)
        read == [i \in DOMAIN cut |-> parse(serialize(DataMessage(cut[i].pos, cut[i].data)))]
    IN /\ Text([i \in DOMAIN cut |-> read[i].data]) = text
       /\ \A i \in DOMAIN cut :
            /\ read[i].pos = IF i = 1 THEN pos ELSE read[i-1].pos + Len(read[i-1].data)
            /\ text # << >> => read[i].data # << >>
            /\ Len(escape_data(read[i].data)) <= MaxSize

Messages == {DataMessage(2, text)}
              \union [type : {ConnectWord, CloseWord}, session : {1}]
              \union [type : {AckWord}, session : {1}, length : {2}]
Heads == {<<>>, <<Slash>>, <<Slash, ConnectWord, Slash, 1>>, <<Slash, CloseWord>>,
          <<Slash, AckWord, Slash, 1, Slash, 2>>, <<Slash, DataWord, Slash, 1, Slash>>,
          <<Slash, DataWord, Slash, 1, Slash, 2>>,
          <<Slash, DataWord, Slash, 1, Slash, 2, Slash>>}

(* A peer of the same code reads every message back from its packet, with  *)
(* any text as its data, and a text from the chunks it is sent in; and no  *)
(* packet but that one is read as it: two blind replacements and a         *)
(* comparison of sizes accept exactly the contents in which every slash    *)
(* and backslash is escaped, and a content without its last slash is none. *)
PacketsReadBack ==
  /\ ReadInChunks
  /\ \A msg \in Messages : parse(serialize(msg)) = msg
  /\ \A head \in Heads : LET packet == head \o text IN
       parse(packet) # NoMessage => serialize(parse(packet)) = packet
=============================================================================
