---------------------------- MODULE LineReversal ----------------------------
(***************************************************************************)
(* Problem 7, line reversal over LRCP (src/src/p7_reversal.rs): one        *)
(* session of the server and the peer it serves.                           *)
(*                                                                         *)
(* The main loop puts the packets of the session into a bounded channel.   *)
(* The session's task is the only reader of that channel, and it also      *)
(* sends into it: every chunk of an answer goes through the channel to be  *)
(* written, and comes back through it from a sleeping task every three     *)
(* seconds until it is acknowledged or a minute has passed.                *)
(*                                                                         *)
(* Packets are lost, duplicated, delayed and reordered: whatever the peer  *)
(* may have sent can arrive at any time, any number of times, and so can   *)
(* whatever the server has written to the peer.                            *)
(***************************************************************************)
EXTENDS Lrcp, FiniteSets

CONSTANTS
  Epoch,       \* bound: how many times the peer opens the session, 1..n
  Input,       \* the text the peer sends in each epoch
  Cuts,        \* bound: the positions where the peer cuts it into packets
  MaxConnects, \* bound: the connect packets that arrive
  Capacity     \* of the session's channel, 1024 in the code

ASSUME EpochAssumption == Epoch \subseteq Nat /\ IsFiniteSet(Epoch) /\ 1 \in Epoch
ASSUME InputAssumption == Input \in [Epoch -> Seq(Char)]
ASSUME BoundsAssumption == Cuts \subseteq Nat /\ MaxConnects \in Nat
ASSUME CapacityAssumption == Capacity \in Nat \ {0}

VARIABLES
  state,    \* LRConnectionState
  conn,     \* the ActiveConnection, or what is left of the last one
  born,     \* connections opened so far: tells their internal messages apart
  msg_recv, \* the session's channel
  pending,  \* the internal message the task waits to send, or Nothing
  timers,   \* internal messages in the hands of sleeping tasks
  written,  \* data packets written to the peer in this epoch
  told,     \* whether close was written to the peer in this epoch
  connects, \* connect packets that have arrived
  epoch,    \* the peer: how many times it has opened the session
  got       \* the peer: the text it has received in this epoch

serverVars == <<state, conn, born, pending, timers, written, told>>
peerVars == <<connects, epoch, got>>
vars == <<serverVars, msg_recv, peerVars>>

Packet == [pos : Nat, data : Seq(Char)]
Internal == [pos : Nat, data : Seq(Char), born : Nat, sends : BOOLEAN]
Nothing == [none |-> TRUE]
Message ==
  [kind : {"connect", "close"}] \union [kind : {"data"}, pos : Nat, data : Seq(Char)]
    \union [kind : {"ack"}, length : Nat] \union [kind : {"internal"}, msg : Internal]

Fresh == [sent_ack_until |-> 0, sent_until |-> 0, consumed_until |-> 0,
          buffered |-> << >>, send_buffered |-> << >>]

TypeOK ==
  /\ state \in {"closed", "active"}
  /\ conn \in [sent_ack_until : Nat, sent_until : Nat, consumed_until : Nat,
               buffered : Seq(Char), send_buffered : Seq(Packet)]
  /\ born \in Nat
  /\ msg_recv \in Seq(Message) /\ Len(msg_recv) <= Capacity
  /\ pending \in Internal \union {Nothing}
  /\ timers \subseteq Internal
  /\ written \subseteq Packet
  /\ told \in BOOLEAN
  /\ connects \in 0..MaxConnects
  /\ epoch \in Epoch \union {0}
  /\ got \in Seq(Char)

Init ==
  /\ state = "closed" /\ conn = Fresh /\ born = 0
  /\ msg_recv = << >> /\ pending = Nothing /\ timers = {}
  /\ written = {} /\ told = TRUE
  /\ connects = 0 /\ epoch = 0 /\ got = << >>

-----------------------------------------------------------------------------
(* The peer, and the network between it and the main loop. *)

(* The peer opens the session, again only when it is closed, the peer was  *)
(* told, and no packet is left in the network or in the session's channel. *)
Open ==
  /\ state = "closed" /\ told /\ epoch + 1 \in Epoch
  /\ \A i \in DOMAIN msg_recv : msg_recv[i].kind = "internal"
  /\ epoch' = epoch + 1
  /\ got' = << >> /\ written' = {} /\ told' = FALSE
  /\ UNCHANGED <<state, conn, born, pending, timers, msg_recv, connects>>

(* A packet arrives, and the main loop sends it into the channel. *)
Arrive(m) ==
  /\ epoch > 0 /\ Len(msg_recv) < Capacity
  /\ msg_recv' = Append(msg_recv, m)
  /\ UNCHANGED <<serverVars, epoch, got>>

ArriveConnect ==
  /\ connects < MaxConnects
  /\ connects' = connects + 1
  /\ Arrive([kind |-> "connect"])

ArriveData(i, j) ==
  /\ epoch > 0 /\ i <= j /\ j <= Len(Input[epoch])
  /\ Arrive([kind |-> "data", pos |-> i, data |-> SubSeq(Input[epoch], i + 1, j)])
  /\ UNCHANGED connects

(* The peer acknowledges what it has received, or had received before. *)
ArriveAck(n) ==
  /\ n <= Len(got)
  /\ Arrive([kind |-> "ack", length |-> n])
  /\ UNCHANGED connects

ArriveClose == Arrive([kind |-> "close"]) /\ UNCHANGED connects

(* The peer receives a data packet, and keeps what extends its text. *)
Receive(p) ==
  /\ p \in written
  /\ p.pos <= Len(got) /\ p.pos + Len(p.data) > Len(got)
  /\ got' = got \o SubSeq(p.data, Len(got) - p.pos + 1, Len(p.data))
  /\ UNCHANGED <<serverVars, msg_recv, connects, epoch>>

(* A packet to the peer is lost; one that arrives twice is Receive twice.  *)
Lose(p) ==
  /\ p \in written
  /\ written' = written \ {p}
  /\ UNCHANGED <<state, conn, born, pending, timers, told, msg_recv, peerVars>>

-----------------------------------------------------------------------------
(* The session's task. *)

recv_until(c) == Len(c.buffered) + c.consumed_until
ack_until(m) == m.pos + Len(m.data)

(* When no chunk is left to send, the first line received is answered. *)
TakeLine(c) ==
  IF c.send_buffered = << >> /\ Contains(c.buffered, Newline)
  THEN LET i == SelectInSeq(c.buffered, LAMBDA x : x = Newline)
       IN [c EXCEPT !.consumed_until = @ + i,
                    !.buffered = SubSeq(@, i + 1, Len(@)),
                    !.send_buffered = split_data(c.sent_until, Reversed(SubSeq(c.buffered, 1, i)))]
  ELSE c

(* Mutant: sent_until does not count the chunk. *)
SendUncounted(c) ==
  LET d == TakeLine(c)
  IN IF d.send_buffered = << >>
     THEN conn' = d /\ UNCHANGED pending
     ELSE /\ conn' = [d EXCEPT !.send_buffered = Tail(@), !.sent_until = Head(d.send_buffered).pos]
          /\ pending' = [pos |-> Head(d.send_buffered).pos, data |-> Head(d.send_buffered).data,
                         born |-> born, sends |-> FALSE]

(* One chunk is sent, if there is one, and c is the connection after it. *)
process_buffers(c) ==
  LET d == TakeLine(c)
  IN IF d.send_buffered = << >>
     THEN conn' = d /\ UNCHANGED pending
     ELSE LET chunk == Head(d.send_buffered)
          IN /\ conn' = [d EXCEPT !.send_buffered = Tail(@), !.sent_until = ack_until(chunk)]
             /\ pending' = [pos |-> chunk.pos, data |-> chunk.data,
                            born |-> born, sends |-> FALSE]

(* The task waits for its own send while the channel is full. *)
SelfSend ==
  /\ pending # Nothing /\ Len(msg_recv) < Capacity
  /\ msg_recv' = Append(msg_recv, [kind |-> "internal", msg |-> pending])
  /\ pending' = Nothing
  /\ UNCHANGED <<state, conn, born, timers, written, told, peerVars>>

(* The task takes a message of kind k out of its channel. *)
Takes(k) ==
  /\ pending = Nothing
  /\ msg_recv # << >> /\ Head(msg_recv).kind = k
  /\ msg_recv' = Tail(msg_recv)
  /\ UNCHANGED peerVars

HandleConnect ==
  /\ Takes("connect")
  /\ IF state = "closed"
     THEN state' = "active" /\ conn' = Fresh /\ born' = born + 1
     ELSE UNCHANGED <<state, conn, born>>
  /\ UNCHANGED <<pending, timers, written, told>>

(* Whatever else a closed session takes is answered with close. *)
HandleClosed ==
  /\ state = "closed"
  /\ \E k \in {"data", "ack", "close", "internal"} : Takes(k)
  /\ told' = TRUE
  /\ UNCHANGED <<state, conn, born, pending, timers, written>>

(* Mutant: what was received before is appended again. *)
AbsorbWhole(c, m) ==
  IF m.pos <= recv_until(c) /\ m.pos + Len(m.data) > recv_until(c)
  THEN [c EXCEPT !.buffered = @ \o m.data] ELSE c

(* Data that extend what was received are kept from there on. *)
Absorb(c, m) ==
  LET n == recv_until(c)
  IN IF m.pos <= n /\ m.pos + Len(m.data) > n
     THEN [c EXCEPT !.buffered = @ \o SubSeq(m.data, n - m.pos + 1, Len(m.data))]
     ELSE c

HandleData ==
  /\ state = "active" /\ Takes("data")
  /\ process_buffers(Absorb(conn, Head(msg_recv)))
  /\ UNCHANGED <<state, born, timers, written, told>>

(* The session ends, without or with a close packet. *)
Expire == state' = "closed" /\ UNCHANGED <<conn, born, pending, timers, written, told>>
Close == state' = "closed" /\ told' = TRUE /\ UNCHANGED <<conn, born, pending, timers, written>>

(* Mutant: an acknowledgement does not send the next chunk. *)
HandleAckOnly ==
  /\ state = "active" /\ Takes("ack")
  /\ LET length == Head(msg_recv).length
     IN IF length > conn.sent_until
        THEN Close
        ELSE /\ conn' = [conn EXCEPT !.sent_ack_until = IF length > @ THEN length ELSE @]
             /\ UNCHANGED <<state, born, pending, timers, written, told>>

HandleAck ==
  /\ state = "active" /\ Takes("ack")
  /\ LET length == Head(msg_recv).length
     IN IF length > conn.sent_until
        THEN Close
        ELSE /\ process_buffers([conn EXCEPT !.sent_ack_until = IF length > @ THEN length ELSE @])
             /\ UNCHANGED <<state, born, timers, written, told>>

HandleClose == state = "active" /\ Takes("close") /\ Close

(* Mutant: a chunk is written once. *)
HandleInternalOnce ==
  /\ state = "active" /\ Takes("internal")
  /\ written' = written \union {[pos |-> Head(msg_recv).msg.pos, data |-> Head(msg_recv).msg.data]}
  /\ UNCHANGED <<state, conn, born, pending, timers, told>>

(* A chunk that was acknowledged is forgotten; one first sent a minute ago *)
(* ends the session; any other is written, and will be again.              *)
HandleInternal ==
  /\ state = "active" /\ Takes("internal")
  /\ LET m == Head(msg_recv).msg
     IN \/ /\ ack_until(m) <= conn.sent_ack_until
           /\ UNCHANGED serverVars
        \/ /\ ack_until(m) > conn.sent_ack_until
           /\ m.sends
           /\ Expire
        \/ /\ ack_until(m) > conn.sent_ack_until
           /\ written' = written \union {[pos |-> m.pos, data |-> m.data]}
           /\ timers' = timers \union {[m EXCEPT !.sends = TRUE]}
           /\ UNCHANGED <<state, conn, born, pending, told>>

(* Mutant: the sleeping task sends its message every three seconds. *)
WakeUpAgain(m) ==
  /\ m \in timers /\ Len(msg_recv) < Capacity
  /\ msg_recv' = Append(msg_recv, [kind |-> "internal", msg |-> m])
  /\ UNCHANGED <<state, conn, born, pending, timers, written, told, peerVars>>

(* Three seconds later.  The runtime is taken to poll a new task before    *)
(* they are over: one polled later finds no time left to sleep, and its    *)
(* expect ends it.                                                         *)
WakeUp(m) ==
  /\ m \in timers /\ Len(msg_recv) < Capacity
  /\ timers' = timers \ {m}
  /\ msg_recv' = Append(msg_recv, [kind |-> "internal", msg |-> m])
  /\ UNCHANGED <<state, conn, born, pending, written, told, peerVars>>

Handle == HandleConnect \/ HandleClosed \/ HandleData \/ HandleAck \/ HandleClose \/ HandleInternal

Next ==
  \/ Open \/ ArriveConnect \/ ArriveClose
  \/ \E i, j \in Cuts : ArriveData(i, j)
  \/ \E n \in 0..Len(got) : ArriveAck(n)
  \/ \E p \in written : Receive(p) \/ Lose(p)
  \/ SelfSend \/ HandleConnect \/ HandleClosed \/ HandleData \/ HandleAck \/ HandleClose
  \/ HandleInternal
  \/ \E m \in timers : WakeUp(m)

Spec == Init /\ [][Next]_vars

(* The internal message that carries the first unacknowledged byte. *)
Carries(m) ==
  /\ m.born = born
  /\ m.pos <= conn.sent_ack_until /\ conn.sent_ack_until < ack_until(m)

(* The runtime polls the tasks and the clock advances.  The peer repeats   *)
(* its text until the server has it, and acknowledges what it received     *)
(* until the server knows; a packet written again and again is received.   *)
(* Strong fairness, since the channel fills up now and then: tokio serves  *)
(* those that wait to send in their turn.                                  *)
Fairness ==
  /\ WF_vars(SelfSend) /\ WF_vars(Handle)
  /\ SF_vars(\E m \in timers : Carries(m) /\ WakeUp(m))
  /\ SF_vars(/\ epoch > 0 /\ recv_until(conn) < Len(Input[epoch])
             /\ ArriveData(0, Len(Input[epoch])))
  /\ SF_vars(conn.sent_ack_until < Len(got) /\ ArriveAck(Len(got)))
  /\ SF_vars(\E p \in written : Receive(p))

FairSpec == Spec /\ Fairness

-----------------------------------------------------------------------------
(* The answers to the complete lines of a text: every line reversed, every *)
(* newline where it was.                                                   *)
LineEnds(text) == {i \in DOMAIN text : text[i] = Newline}
FirstOf(text, i) == CHOOSE k \in 1..i :
                      /\ k = 1 \/ k - 1 \in LineEnds(text)
                      /\ \A l \in k..(i - 1) : l \notin LineEnds(text)
LastOf(text, i) == CHOOSE k \in LineEnds(text) :
                     k >= i /\ \A l \in LineEnds(text) : l >= i => l >= k
Answers(text) ==
  LET complete == {i \in DOMAIN text : \E k \in LineEnds(text) : k >= i}
  IN [i \in complete |-> IF text[i] = Newline THEN Newline
                        ELSE text[FirstOf(text, i) + LastOf(text, i) - 1 - i]]

(* However packets are lost, repeated and reordered, what the server       *)
(* writes are pieces of the answers to the peer's own lines, each at its   *)
(* position, so that the peer's text is a prefix of the answers.           *)
AnswersIntact ==
  epoch > 0 =>
    LET answers == Answers(Input[epoch])
    IN /\ IsPrefix(got, answers)
       /\ \A p \in written : /\ ack_until(p) <= Len(answers)
                             /\ p.data = SubSeq(answers, p.pos + 1, ack_until(p))

(* process_buffers sends one chunk at a time, and runs only when data or   *)
(* an acknowledgement is handled.  Nevertheless a session never has a      *)
(* chunk or a complete line left over with nothing unacknowledged, which   *)
(* would leave it waiting for ever.                                        *)
NoStall ==
  state = "active" /\ (conn.send_buffered # << >> \/ Contains(conn.buffered, Newline))
    => conn.sent_ack_until < conn.sent_until

InFlight == timers \union ({pending} \ {Nothing})
              \union {msg_recv[i].msg : i \in {j \in DOMAIN msg_recv : msg_recv[j].kind = "internal"}}

(* While anything is unacknowledged, the internal message that will write  *)
(* the first unacknowledged byte again exists, in the channel, in a        *)
(* sleeping task or in the hands of the session's task.                    *)
RetransmitPromised ==
  state = "active" /\ conn.sent_ack_until < conn.sent_until =>
    \E m \in InFlight : Carries(m)

(* The session is not closed on a peer for an acknowledgement of what the  *)
(* server wrote: neither one in the channel nor one the peer may yet send  *)
(* exceeds sent_until.  For a session opened once: after it expired and a  *)
(* late connect packet opened it again, positions start from 0.            *)
AcksAccepted ==
  state = "active" /\ born = 1 =>
    /\ Len(got) <= conn.sent_until
    /\ \A i \in DOMAIN msg_recv :
         msg_recv[i].kind = "ack" => msg_recv[i].length <= conn.sent_until

(* What the session is to the main loop and to the other sessions. *)
Listener == INSTANCE LineListener WITH
  Session <- {1}, NoSession <- 0,
  MaxInternal <- MaxConnects * Max({Len(Input[e]) : e \in Epoch}),
  up <- TRUE, held <- 0,
  task <- <<IF pending = Nothing THEN "receiving" ELSE "sending">>,
  channel <- <<[i \in DOMAIN msg_recv |->
                  IF msg_recv[i].kind = "internal" THEN "internal" ELSE "client"]>>,
  asleep <- <<Cardinality(timers)>>

(* A session takes one message at a time, owes its channel one internal    *)
(* message at most, and only after a packet, and has a sleeping task for   *)
(* each message that it wrote and that will come back: all that            *)
(* LineListener takes its sessions to do, whatever the packets say.        *)
ImplementsSession == Listener!Spec

(* The session's task waits for room in a channel only it can empty. *)
Stuck == pending # Nothing /\ Len(msg_recv) = Capacity

(* All lines of the peer are answered in the end, unless the session is    *)
(* closed, by the peer or because it expired, or is stuck.                 *)
LinesAnswered ==
  state = "active" ~> (state = "closed" \/ Stuck \/ got = Answers(Input[epoch]))
=============================================================================
