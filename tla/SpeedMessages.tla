---------------------------- MODULE SpeedMessages ----------------------------
(***************************************************************************)
(* Problem 6, the binary messages of the speed limit server (Message in    *)
(* src/src/p6_speed.rs).  A message is a code and its fields, without a    *)
(* length of the whole: who reads one field wrong reads all that follows   *)
(* wrong.  Cameras and dispatchers send, and the server reads with         *)
(* parse_next; what the server writes is read by its clients.              *)
(***************************************************************************)
EXTENDS ByteFields

CONSTANTS
  Message,    \* the messages sent, each [kind, values]
  MaxMessages \* bound: messages on the stream

VARIABLES
  reader,     \* who reads the stream, "server" or "client"; "nobody" yet
  sent,       \* messages written to the stream
  stream,     \* bytes not read yet
  arrived,    \* how many of them have arrived
  got,        \* the messages read
  failed      \* whether the reader has given up

speedMessageVars == <<reader, sent, stream, arrived, got, failed>>

Init ==
  /\ reader = "nobody"
  /\ sent = <<>> /\ stream = <<>> /\ arrived = 0
  /\ got = <<>> /\ failed = FALSE

-----------------------------------------------------------------------------
(* The codes are numbers of a byte, such as 0x20; here the places in Kind. *)
Kind == <<"Error", "Plate", "Ticket", "WantHeartBeat", "HeartBeat",
          "IAmCamera", "IAmDispatcher">>

Code(kind) == CHOOSE i \in DOMAIN Kind : Kind[i] = kind

Layout(kind) ==
  CASE kind = "Error" -> <<One("str")>>
    [] kind = "Plate" -> <<One("str"), One("u32")>>
    [] kind = "Ticket" -> <<One("str"), One("u16"), One("u16"), One("u32"),
                            One("u16"), One("u32"), One("u16")>>
    [] kind = "WantHeartBeat" -> <<One("u32")>>
    [] kind = "HeartBeat" -> <<>>
    [] kind = "IAmCamera" -> <<One("u16"), One("u16"), One("u16")>>
    [] kind = "IAmDispatcher" -> <<Many(<<"u16">>)>>

(* What each reader knows: parse_next reads the messages of clients only.  *)
ReadBy(r) == IF r = "server" THEN {"Plate", "WantHeartBeat", "IAmCamera", "IAmDispatcher"}
             ELSE {"Error", "Ticket", "HeartBeat"}

(* serialize; a length is cut to one byte.                                 *)
serialize(msg) == <<Code(msg.kind)>> \o Content(msg.values, Layout(msg.kind))

(* parse_next awaits every field: it has no message until all have         *)
(* arrived.                                                                *)
Received == SubSeq(stream, 1, arrived)
Unknown == arrived > 0 /\ stream[1] \notin {Code(kind) : kind \in ReadBy(reader)}
parse_next ==
  IF arrived = 0 \/ Unknown THEN {} ELSE ReadContent(Received, At(2), Layout(Kind[stream[1]]))

-----------------------------------------------------------------------------
Open(r) ==
  /\ reader = "nobody" /\ reader' = r
  /\ UNCHANGED <<sent, stream, arrived, got, failed>>

(* The server writes what its clients read; a client may write anything.   *)
Send(msg) ==
  /\ reader # "nobody" /\ Len(sent) < MaxMessages
  /\ reader = "client" => msg.kind \in ReadBy("client")
  /\ sent' = Append(sent, msg)
  /\ stream' = stream \o serialize(msg)
  /\ UNCHANGED <<reader, arrived, got, failed>>

Arrive(n) ==
  /\ arrived' = n
  /\ UNCHANGED <<reader, sent, stream, got, failed>>

Read ==
  /\ ~failed
  /\ \E r \in parse_next :
       /\ got' = Append(got, [kind |-> Kind[stream[1]], values |-> r.values])
       /\ stream' = SubSeq(stream, r.next, Len(stream))
       /\ arrived' = arrived - (r.next - 1)
  /\ UNCHANGED <<reader, sent, failed>>

Refuse ==
  /\ ~failed /\ Unknown
  /\ failed' = TRUE
  /\ UNCHANGED <<reader, sent, stream, arrived, got>>

Next ==
  \/ \E r \in {"server", "client"} : Open(r)
  \/ \E msg \in Message : Send(msg)
  \/ \E n \in (arrived + 1)..Len(stream) : Arrive(n)
  \/ Read
  \/ Refuse

Spec == Init /\ [][Next]_speedMessageVars
-----------------------------------------------------------------------------
TypeOK ==
  /\ reader \in {"nobody", "server", "client"}
  /\ sent \in Seq(Message) /\ stream \in Seq(0..(Base - 1))
  /\ arrived \in 0..Len(stream) /\ failed \in BOOLEAN

(* However the bytes arrive, the reader reads the messages written, in     *)
(* order and unchanged; it never stops in the middle of one, and gives up  *)
(* only at one it does not know: for texts whose length fits the byte that *)
(* counts it.                                                              *)
MessagesReadBack ==
  /\ IsPrefix(got, sent)
  /\ failed => sent[Len(got) + 1].kind \notin ReadBy(reader)
  /\ stream = Concat([i \in 1..(Len(sent) - Len(got)) |-> serialize(sent[Len(got) + i])])
  /\ arrived = Len(stream) /\ stream # <<>> =>
       parse_next # {} \/ sent[Len(got) + 1].kind \notin ReadBy(reader)
=============================================================================
