--------------------------- MODULE TicketDispatch ---------------------------
(***************************************************************************)
(* Problem 6, the speed limit server (src/src/p6_speed.rs): how tickets    *)
(* reach dispatchers.                                                      *)
(*                                                                         *)
(* Every road has an unbounded queue of tickets.  For every road a         *)
(* dispatcher names, its connection spawns a forwarder task that moves     *)
(* tickets from the road's queue to the connection's bounded channel; the  *)
(* writer half of the connection takes them out and writes them.  When     *)
(* either half of the connection ends, the other one is cancelled, what    *)
(* the channel holds is put back on the queues, an error is written, and   *)
(* then the channel is dropped.  Forwarders are never cancelled: one finds *)
(* out that its channel is gone when it next sends, and puts the ticket    *)
(* back.                                                                   *)
(***************************************************************************)
EXTENDS Integers, Sequences, FiniteSets

CONSTANTS
  Client,    \* connections that may become dispatchers
  Road,
  Ticket,    \* bound: the tickets ever created, see SpeedTickets
  RoadOf,    \* the road of a ticket
  HeartBeat, \* the other message a channel carries
  Nothing,   \* no message
  Capacity   \* of a connection's channel, 128 in the code

ASSUME TicketAssumption == RoadOf \in [Ticket -> Road]
ASSUME MessageAssumption == {HeartBeat, Nothing} \intersect Ticket = {} /\ HeartBeat # Nothing
ASSUME CapacityAssumption == Capacity \in Nat \ {0}

VARIABLES
  ticket_queues, \* State.ticket_queues, the tickets of each road
  issued,        \* the tickets created so far
  client_type,   \* the roads of a dispatcher, {} for any other client
  forwarder,     \* per client and road, the state of the forwarder task
  hand,          \* per client and road, the ticket a forwarder sends
  heartbeat,     \* whether the client has a heartbeat task
  events,        \* per client, the messages in its channel
  writing,       \* per client, the message the writer half writes
  pc,            \* where the connection's own task is
  up,            \* whether the peer is connected
  delivered      \* per client, the tickets written to its socket

queueVars == <<ticket_queues, issued>>
taskVars == <<client_type, forwarder, hand, heartbeat>>
vars == <<queueVars, taskVars, events, writing, pc, up, delivered>>

Message == Ticket \union {HeartBeat}

(* "serving": both halves run.  "draining": one has ended, and the channel *)
(* is emptied.  "closing": the error is written.  "ended".                 *)
ConnectionState == {"serving", "draining", "closing", "ended"}

TypeOK ==
  /\ ticket_queues \in [Road -> Seq(Ticket)]
  /\ issued \in SUBSET Ticket
  /\ client_type \in [Client -> SUBSET Road]
  /\ forwarder \in [Client -> [Road -> {"none", "receiving", "sending", "ended"}]]
  /\ hand \in [Client -> [Road -> Ticket \union {Nothing}]]
  /\ heartbeat \in [Client -> BOOLEAN]
  /\ events \in [Client -> Seq(Message)]
  /\ \A c \in Client : Len(events[c]) <= Capacity
  /\ writing \in [Client -> Message \union {Nothing}]
  /\ pc \in [Client -> ConnectionState]
  /\ up \in [Client -> BOOLEAN]
  /\ delivered \in [Client -> SUBSET Ticket]

Init ==
  /\ ticket_queues = [r \in Road |-> << >>]
  /\ issued = {}
  /\ client_type = [c \in Client |-> {}]
  /\ forwarder = [c \in Client |-> [r \in Road |-> "none"]]
  /\ hand = [c \in Client |-> [r \in Road |-> Nothing]]
  /\ heartbeat = [c \in Client |-> FALSE]
  /\ events = [c \in Client |-> << >>]
  /\ writing = [c \in Client |-> Nothing]
  /\ pc = [c \in Client |-> "serving"]
  /\ up = [c \in Client |-> TRUE]
  /\ delivered = [c \in Client |-> {}]

-----------------------------------------------------------------------------
PutBack(t) ==
  ticket_queues' = [ticket_queues EXCEPT ![RoadOf[t]] = Append(@, t)]

(* State::new_entry created a ticket. *)
Issue(t) ==
  /\ t \notin issued
  /\ issued' = issued \union {t}
  /\ PutBack(t)
  /\ UNCHANGED <<taskVars, events, writing, pc, up, delivered>>

(* The reader half reads IAmDispatcher: one forwarder per road. *)
IAmDispatcher(c, roads) ==
  /\ pc[c] = "serving" /\ up[c]
  /\ client_type[c] = {} /\ roads # {}
  /\ client_type' = [client_type EXCEPT ![c] = roads]
  /\ forwarder' = [forwarder EXCEPT ![c] =
                     [r \in Road |-> IF r \in roads THEN "receiving" ELSE "none"]]
  /\ UNCHANGED <<queueVars, hand, heartbeat, events, writing, pc, up, delivered>>

(* The reader half reads WantHeartBeat. *)
WantHeartBeat(c) ==
  /\ pc[c] = "serving" /\ up[c]
  /\ ~heartbeat[c]
  /\ heartbeat' = [heartbeat EXCEPT ![c] = TRUE]
  /\ UNCHANGED <<queueVars, client_type, forwarder, hand, events, writing, pc, up, delivered>>

(* A task other than the connection's own sends m into the channel.  It    *)
(* waits while the channel is full.                                        *)
SendEvent(c, m) ==
  /\ pc[c] # "ended" /\ Len(events[c]) < Capacity
  /\ events' = [events EXCEPT ![c] = Append(@, m)]

Tick(c) ==
  /\ heartbeat[c]
  /\ SendEvent(c, HeartBeat)
  /\ UNCHANGED <<queueVars, taskVars, writing, pc, up, delivered>>

(* A forwarder receives a ticket of its road. *)
Receive(c, r) ==
  /\ forwarder[c][r] = "receiving"
  /\ ticket_queues[r] # << >>
  /\ hand' = [hand EXCEPT ![c][r] = Head(ticket_queues[r])]
  /\ ticket_queues' = [ticket_queues EXCEPT ![r] = Tail(@)]
  /\ forwarder' = [forwarder EXCEPT ![c][r] = "sending"]
  /\ UNCHANGED <<issued, client_type, heartbeat, events, writing, pc, up, delivered>>

(* Mutant: the ticket is sent a second time. *)
SendTwice(c, r) ==
  /\ forwarder[c][r] = "sending"
  /\ SendEvent(c, hand[c][r])
  /\ forwarder' = [forwarder EXCEPT ![c][r] = "receiving"]
  /\ UNCHANGED <<queueVars, client_type, hand, heartbeat, writing, pc, up, delivered>>

(* Mutant: the ticket is dropped when the channel is full. *)
TrySend(c, r) ==
  /\ forwarder[c][r] = "sending" /\ pc[c] # "ended"
  /\ events' = IF Len(events[c]) < Capacity
               THEN [events EXCEPT ![c] = Append(@, hand[c][r])] ELSE events
  /\ hand' = [hand EXCEPT ![c][r] = Nothing]
  /\ forwarder' = [forwarder EXCEPT ![c][r] = "receiving"]
  /\ UNCHANGED <<queueVars, client_type, heartbeat, writing, pc, up, delivered>>

(* Mutant: no loop, the forwarder ends with its first ticket. *)
SendAndEnd(c, r) ==
  /\ forwarder[c][r] = "sending"
  /\ SendEvent(c, hand[c][r])
  /\ hand' = [hand EXCEPT ![c][r] = Nothing]
  /\ forwarder' = [forwarder EXCEPT ![c][r] = "ended"]
  /\ UNCHANGED <<queueVars, client_type, heartbeat, writing, pc, up, delivered>>

(* The forwarder sends its ticket, and goes on with the next. *)
Send(c, r) ==
  /\ forwarder[c][r] = "sending"
  /\ SendEvent(c, hand[c][r])
  /\ hand' = [hand EXCEPT ![c][r] = Nothing]
  /\ forwarder' = [forwarder EXCEPT ![c][r] = "receiving"]
  /\ UNCHANGED <<queueVars, client_type, heartbeat, writing, pc, up, delivered>>

(* The channel is gone: the ticket goes back, to the end of its queue. *)
SendFails(c, r) ==
  /\ forwarder[c][r] = "sending"
  /\ pc[c] = "ended"
  /\ PutBack(hand[c][r])
  /\ hand' = [hand EXCEPT ![c][r] = Nothing]
  /\ forwarder' = [forwarder EXCEPT ![c][r] = "ended"]
  /\ UNCHANGED <<issued, client_type, heartbeat, events, writing, pc, up, delivered>>

-----------------------------------------------------------------------------
(* The writer half takes a message out of the channel. *)
Take(c) ==
  /\ pc[c] = "serving"
  /\ writing[c] = Nothing /\ events[c] # << >>
  /\ writing' = [writing EXCEPT ![c] = Head(events[c])]
  /\ events' = [events EXCEPT ![c] = Tail(@)]
  /\ UNCHANGED <<queueVars, taskVars, pc, up, delivered>>

(* It writes the message; to a peer that is gone the write may succeed, or *)
(* fail and end the half.  The message is then lost: putting it back is    *)
(* commented out.                                                          *)
Write(c) ==
  /\ pc[c] = "serving"
  /\ writing[c] # Nothing
  /\ delivered' = IF writing[c] \in Ticket
                  THEN [delivered EXCEPT ![c] = @ \union {writing[c]}] ELSE delivered
  /\ writing' = [writing EXCEPT ![c] = Nothing]
  /\ UNCHANGED <<queueVars, taskVars, events, pc, up>>

WriteFails(c) ==
  /\ pc[c] = "serving" /\ ~up[c]
  /\ writing[c] # Nothing
  /\ writing' = [writing EXCEPT ![c] = Nothing]
  /\ pc' = [pc EXCEPT ![c] = "draining"]
  /\ UNCHANGED <<queueVars, taskVars, events, up, delivered>>

(* The reader half ends: the peer is gone, or broke the protocol.  The     *)
(* writer half is cancelled, with the message it was writing.              *)
ReaderEnds(c) ==
  /\ pc[c] = "serving"
  /\ writing' = [writing EXCEPT ![c] = Nothing]
  /\ pc' = [pc EXCEPT ![c] = "draining"]
  /\ UNCHANGED <<queueVars, taskVars, events, up, delivered>>

(* One turn of the loop that empties the channel with try_recv. *)
Drain(c) ==
  /\ pc[c] = "draining"
  /\ events[c] # << >>
  /\ events' = [events EXCEPT ![c] = Tail(@)]
  /\ IF Head(events[c]) \in Ticket
     THEN PutBack(Head(events[c])) ELSE UNCHANGED ticket_queues
  /\ UNCHANGED <<issued, taskVars, writing, pc, up, delivered>>

Drained(c) ==
  /\ pc[c] = "draining"
  /\ events[c] = << >>
  /\ pc' = [pc EXCEPT ![c] = "closing"]
  /\ UNCHANGED <<queueVars, taskVars, events, writing, up, delivered>>

(* The error is written, or fails to be, and the channel is dropped with   *)
(* what was sent into it since it was found empty.                         *)
Closed(c) ==
  /\ pc[c] = "closing"
  /\ pc' = [pc EXCEPT ![c] = "ended"]
  /\ events' = [events EXCEPT ![c] = << >>]
  /\ heartbeat' = [heartbeat EXCEPT ![c] = FALSE]
  /\ UNCHANGED <<queueVars, client_type, forwarder, hand, writing, up, delivered>>

(* The peer goes away, at any moment. *)
Disconnect(c) ==
  /\ up[c]
  /\ up' = [up EXCEPT ![c] = FALSE]
  /\ UNCHANGED <<queueVars, taskVars, events, writing, pc, delivered>>

Next ==
  \/ \E t \in Ticket : Issue(t)
  \/ \E c \in Client :
       \/ \E roads \in SUBSET Road : IAmDispatcher(c, roads)
       \/ \E r \in Road : Receive(c, r) \/ Send(c, r) \/ SendFails(c, r)
       \/ WantHeartBeat(c) \/ Tick(c)
       \/ Take(c) \/ Write(c) \/ WriteFails(c)
       \/ ReaderEnds(c) \/ Drain(c) \/ Drained(c) \/ Closed(c) \/ Disconnect(c)

Spec == Init /\ [][Next]_vars

(* The runtime polls the tasks, and a peer that stays reads what is        *)
(* written to it.  A sender that waits for room in the channel is served   *)
(* in its turn (tokio's channel is first come, first served), hence the    *)
(* strong fairness.  Nothing is assumed of cameras, of heartbeats, nor of  *)
(* a peer that leaves or misbehaves.                                       *)
Fairness ==
  \A c \in Client :
    /\ \A r \in Road : /\ WF_vars(Receive(c, r))
                       /\ SF_vars(Send(c, r))
                       /\ WF_vars(SendFails(c, r))
    /\ WF_vars(Take(c)) /\ WF_vars(Write(c))
    /\ WF_vars(~up[c] /\ ReaderEnds(c))
    /\ WF_vars(Drain(c)) /\ WF_vars(Drained(c)) /\ WF_vars(Closed(c))

FairSpec == Spec /\ Fairness

-----------------------------------------------------------------------------
(* Where the copies of a message are. *)
InQueue(t) == UNION {{r} \X {i \in DOMAIN ticket_queues[r] : ticket_queues[r][i] = t} : r \in Road}
InHand(t) == {x \in Client \X Road : hand[x[1]][x[2]] = t}
InChannel(t) == UNION {{c} \X {i \in DOMAIN events[c] : events[c][i] = t} : c \in Client}
Taken(t) == {c \in Client : writing[c] = t}
Delivered(t) == {c \in Client : t \in delivered[c]}

Copies(t) == Cardinality(InQueue(t)) + Cardinality(InHand(t)) + Cardinality(InChannel(t))
               + Cardinality(Taken(t)) + Cardinality(Delivered(t))

(* A ticket is never in two places: putting it back and delivering it      *)
(* exclude each other, so that no car is sent two letters.                 *)
OnePlace == \A t \in Ticket : Copies(t) <= 1

Lost(t) == t \in issued /\ Copies(t) = 0
Settled(t) == Delivered(t) # {} \/ Lost(t)

Delivery == INSTANCE TicketDelivery WITH
  pending <- {t \in issued : ~Settled(t)},
  received <- delivered,
  lost <- {t \in issued : Lost(t)},
  roads <- client_type,
  left <- {c \in Client : pc[c] # "serving"}

(* The queues, forwarders and channels deliver tickets as TicketDelivery   *)
(* promises: once, on the right road, and lost only with a dispatcher of   *)
(* that road which left.                                                   *)
ImplementsDelivery == Delivery!Spec

Serves(c, r) == pc[c] = "serving" /\ up[c] /\ r \in client_type[c]

(* A ticket does not wait for ever while a dispatcher of its road stays:   *)
(* it is delivered, or lost with another dispatcher that leaves.  While a  *)
(* connection empties its channel it may fetch the tickets it puts back    *)
(* again, which is the excuse draining makes.                              *)
TicketsServed ==
  \A t \in Ticket, c \in Client :
    (t \in issued /\ Serves(c, RoadOf[t]))
      ~> (Settled(t) \/ ~Serves(c, RoadOf[t]) \/ \E d \in Client : pc[d] = "draining")
=============================================================================
