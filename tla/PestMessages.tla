---------------------------- MODULE PestMessages ----------------------------
(***************************************************************************)
(* Problem 11, the binary messages of the pest control server              *)
(* (src/src/p11_pest_control/data_types.rs, and read_msg of                *)
(* src/src/p11_pest_control.rs).                                           *)
(*                                                                         *)
(* A message is its kind, its length, its fields, and a checksum that      *)
(* makes the sum of its bytes zero.  A peer sends messages on a stream,    *)
(* one byte of which may come out damaged; the server reads them one by    *)
(* one, and ends the connection at the first one it cannot read.           *)
(***************************************************************************)
EXTENDS ByteFields

CONSTANTS
  Message,          \* the messages peers send, each [kind, values]
  TOO_MUCH_LENGTH,
  MaxMessages       \* bound: messages on the stream

VARIABLES
  sent,      \* messages sent by the peer
  stream,    \* bytes that have not been read yet
  damaged,   \* whether a byte was changed
  got,       \* the messages read
  refused    \* whether the connection was ended for an unreadable message

pestMessageVars == <<sent, stream, damaged, got, refused>>

Init ==
  /\ sent = <<>> /\ stream = <<>> /\ damaged = FALSE
  /\ got = <<>> /\ refused = FALSE

-----------------------------------------------------------------------------
(* MessageKind: the codes, from 0x50 on, are the places here.              *)
Kind == <<"Hello", "Error", "Ok", "DialAuthority", "TargetPopulations",
          "CreatePolicy", "DeletePolicy", "PolicyResult", "SiteVisit">>

Code(kind) == CHOOSE i \in DOMAIN Kind : Kind[i] = kind

Layout(kind) ==
  CASE kind = "Hello" -> <<One("str"), One("u32")>>
    [] kind = "Error" -> <<One("str")>>
    [] kind = "Ok" -> <<>>
    [] kind = "TargetPopulations" -> <<One("u32"), Many(<<"str", "u32", "u32">>)>>
    [] kind = "CreatePolicy" -> <<One("str"), One("u8")>>
    [] kind = "SiteVisit" -> <<One("u32"), Many(<<"str", "u32">>)>>
    [] OTHER -> <<One("u32")>>

(* The kinds that from_bytes reads; any other is refused.                  *)
Readable == {"Hello", "Ok", "TargetPopulations", "PolicyResult", "SiteVisit"}

(* Mutant: nothing is summed.                                              *)
SumNothing(bytes) == 0

Sum(bytes) == FoldLeft(LAMBDA total, b : (total + b) % Base, 0, bytes)

Overhead == 1 + Size["u32"] + 1

(* What a message is on the wire, also the ones the server sends.          *)
to_bytes(msg) ==
  LET content == Content(msg.values, Layout(msg.kind))
      rv == <<Code(msg.kind)>> \o ToBytes(Overhead + Len(content), "u32") \o content
  IN  Append(rv, (0 - Sum(rv)) % Base)

(* The kind, and the length of the message.                                *)
ReadHeader(bytes) == ReadContent(bytes, At(1), <<One("u8"), One("u32")>>)

(* The message that the bytes are, or none: the header, the sum and the    *)
(* kind are looked at, the fields read, and one byte is left after them.   *)
from_bytes(bytes) ==
  UNION {{[kind |-> Kind[h.values[1]], values |-> c.values] :
            c \in {d \in ReadContent(bytes, At(h.next), Layout(Kind[h.values[1]])) :
                    d.next = Len(bytes)}} :
           h \in {g \in ReadHeader(bytes) :
                   /\ g.values[2] = Len(bytes) /\ Sum(bytes) = 0
                   /\ g.values[1] \in DOMAIN Kind /\ Kind[g.values[1]] \in Readable}}

-----------------------------------------------------------------------------
Send(msg) ==
  /\ ~refused /\ Len(sent) < MaxMessages
  /\ sent' = Append(sent, msg)
  /\ stream' = stream \o to_bytes(msg)
  /\ UNCHANGED <<damaged, got, refused>>

Damage(i, b) ==
  /\ ~damaged /\ stream[i] # b
  /\ stream' = [stream EXCEPT ![i] = b]
  /\ damaged' = TRUE
  /\ UNCHANGED <<sent, got, refused>>

(* read_msg: the length is looked at first, and decides how much is read.  *)
Read ==
  /\ ~refused
  /\ \E h \in ReadHeader(stream) : LET MsgLen == h.values[2] IN
       IF MsgLen > TOO_MUCH_LENGTH \/ MsgLen < Overhead - 1
       THEN refused' = TRUE /\ UNCHANGED <<stream, got>>
       ELSE /\ MsgLen <= Len(stream)
            /\ LET msgs == from_bytes(SubSeq(stream, 1, MsgLen)) IN
               /\ refused' = (msgs = {})
               /\ IF msgs = {} THEN got' = got
                  ELSE \E msg \in msgs : got' = Append(got, msg)
            /\ stream' = SubSeq(stream, MsgLen + 1, Len(stream))
  /\ UNCHANGED <<sent, damaged>>

Next ==
  \/ \E msg \in Message : Send(msg)
  \/ \E i \in DOMAIN stream, b \in 0..(Base - 1) : Damage(i, b)
  \/ Read

Spec == Init /\ [][Next]_pestMessageVars
-----------------------------------------------------------------------------
TypeOK ==
  /\ sent \in Seq(Message) /\ stream \in Seq(0..(Base - 1))
  /\ damaged \in BOOLEAN /\ refused \in BOOLEAN

(* The messages read are the first ones sent, in order and unchanged, also *)
(* when one byte of the stream, of a length as well, was damaged: such a   *)
(* message is refused and none after it is read, from whatever byte        *)
(* reading would go on.  Without damage the stream stays in step: what is  *)
(* left of it is the messages not read yet, and none that the server can   *)
(* be sent is refused.                                                     *)
MessagesUnforged ==
  /\ IsPrefix(got, sent)
  /\ ~damaged =>
       /\ refused => ~(sent[Len(got) + 1].kind \in Readable)
       /\ ~refused => stream = Concat([i \in 1..(Len(sent) - Len(got)) |->
                                         to_bytes(sent[Len(got) + i])])
=============================================================================
