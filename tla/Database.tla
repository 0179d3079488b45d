------------------------------ MODULE Database ------------------------------
(***************************************************************************)
(* Problem 4, the unusual database (src/src/p4_db.rs): a store of keys and *)
(* values behind a UDP socket.                                             *)
(*                                                                         *)
(* A packet is a text, cut to PacketLen when it is received.  The network  *)
(* loses, repeats and reorders: the packets of the clients are received in *)
(* any order and number.                                                   *)
(***************************************************************************)
EXTENDS Integers, SequencesExt

CONSTANTS
  Packet,     \* what clients send
  Equals,     \* the character between a key and a value
  NotUtf8,    \* a byte that is no character
  VERSION_KEY, VERSION_VAL,
  PacketLen,  \* PACKET_LEN, 999 in the code
  MaxPackets  \* bound: packets received

(* Packets are texts; the version, without an =, fits a packet.            *)
DatabaseAssumption ==
  /\ \A text \in Packet \union {VERSION_KEY, VERSION_VAL} : text \in Seq(Range(text))
  /\ \A i \in DOMAIN VERSION_KEY : VERSION_KEY[i] # Equals
  /\ PacketLen \in Nat /\ Len(VERSION_KEY) + 1 + Len(VERSION_VAL) <= PacketLen

VARIABLES
  kv_store,   \* the values by key
  received,   \* the packets received, in order
  answers     \* answers sent, with the number of packets received before

databaseVars == <<kv_store, received, answers>>

Init ==
  /\ kv_store = <<>>
  /\ received = <<>> /\ answers = {}

-----------------------------------------------------------------------------
Cut(packet) == IF Len(packet) <= PacketLen THEN packet ELSE SubSeq(packet, 1, PacketLen)

Has(text, char) == \E i \in DOMAIN text : text[i] = char

(* Mutant: the last = ends the key.                                        *)
SplitAtLast(text) ==
  CHOOSE i \in DOMAIN text : text[i] = Equals /\ \A j \in (i + 1)..Len(text) : text[j] # Equals

(* Request::parse: the first = ends the key.                               *)
SplitAt(text) == CHOOSE i \in DOMAIN text : text[i] = Equals /\ \A j \in 1..(i - 1) : text[j] # Equals
KeyOf(text) == IF Has(text, Equals) THEN SubSeq(text, 1, SplitAt(text) - 1) ELSE text
ValueOf(text) == SubSeq(text, SplitAt(text) + 1, Len(text))

Receive(packet) ==
  /\ Len(received) < MaxPackets
  /\ received' = Append(received, Cut(packet))

Ignore(packet) ==
  /\ Receive(packet) /\ Has(Cut(packet), NotUtf8)
  /\ UNCHANGED <<kv_store, answers>>

(* The version is never stored.                                            *)
Insert(packet) ==
  LET text == Cut(packet) IN
  /\ Receive(packet) /\ ~Has(text, NotUtf8) /\ Has(text, Equals)
  /\ kv_store' = IF KeyOf(text) = VERSION_KEY THEN kv_store
                 ELSE [k \in DOMAIN kv_store \union {KeyOf(text)} |->
                         IF k = KeyOf(text) THEN ValueOf(text) ELSE kv_store[k]]
  /\ UNCHANGED answers

Query(packet) ==
  LET key == Cut(packet)
      value == IF key \in DOMAIN kv_store THEN kv_store[key] ELSE VERSION_VAL
  IN
  /\ Receive(packet) /\ ~Has(key, NotUtf8) /\ ~Has(key, Equals)
  /\ answers' = IF key \in DOMAIN kv_store \union {VERSION_KEY}
                THEN answers \union {[text |-> key \o <<Equals>> \o value,
                                      key |-> key, after |-> Len(received)]}
                ELSE answers
  /\ UNCHANGED kv_store

Next == \E packet \in Packet : Ignore(packet) \/ Insert(packet) \/ Query(packet)

Spec == Init /\ [][Next]_databaseVars
-----------------------------------------------------------------------------
TypeOK ==
  /\ \A k \in DOMAIN kv_store : ~Has(k, Equals)
  /\ received \in Seq({Cut(p) : p \in Packet})
  /\ \A a \in answers : a.after \in 0..MaxPackets

(* An answer repeats the packet that inserted its key last, character for  *)
(* character, in the order in which the packets arrived; or it tells the   *)
(* version, which no packet changes; and it never needs more than a packet *)
(* can hold, as the debug_assert says.  So a packet that was cut inside of *)
(* its key, which reads as a query of another key, is never answered.      *)
Inserts(text, key) ==
  /\ ~Has(text, NotUtf8)
  /\ Len(text) > Len(key) /\ SubSeq(text, 1, Len(key) + 1) = key \o <<Equals>>
AnswersRepeatInserts ==
  \A a \in answers :
    /\ Len(a.text) <= PacketLen
    /\ IF a.key = VERSION_KEY THEN a.text = VERSION_KEY \o <<Equals>> \o VERSION_VAL
       ELSE \E i \in 1..a.after :
              /\ received[i] = a.text /\ Inserts(a.text, a.key)
              /\ \A j \in (i + 1)..a.after : ~Inserts(received[j], a.key)
=============================================================================
