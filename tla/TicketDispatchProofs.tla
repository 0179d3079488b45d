------------------------ MODULE TicketDispatchProofs ------------------------
(***************************************************************************)
(* Proofs about TicketDispatch, for any number of dispatchers, roads and   *)
(* tickets and any capacity of the channels: no ticket has two copies, and *)
(* the queues, forwarders and channels implement TicketDelivery.           *)
(***************************************************************************)
EXTENDS TicketDispatch, FiniteSetTheorems, TLAPS

(* A copy of ticket t is at the place <<kind, a, b>>.                      *)
Copy(t, kind, a, b) ==
  \/ kind = "queue" /\ a \in Road /\ b \in DOMAIN ticket_queues[a] /\ ticket_queues[a][b] = t
  \/ kind = "hand" /\ a \in Client /\ b \in Road /\ hand[a][b] = t
  \/ kind = "channel" /\ a \in Client /\ b \in DOMAIN events[a] /\ events[a][b] = t
  \/ kind = "writing" /\ a \in Client /\ b = 0 /\ writing[a] = t
  \/ kind = "delivered" /\ a \in Client /\ b = 0 /\ t \in delivered[a]

Somewhere(t) == \E kind, a, b : Copy(t, kind, a, b)

(* The ticket is still to be delivered.                                    *)
InPlay(t) == \E kind, a, b : kind # "delivered" /\ Copy(t, kind, a, b)

Unique(t) ==
  \A k1, a1, b1, k2, a2, b2 :
    Copy(t, k1, a1, b1) /\ Copy(t, k2, a2, b2) => k1 = k2 /\ a1 = a2 /\ b1 = b2

(* A forwarder has a ticket in its hand while it sends it, and it is one   *)
(* of its own road, which is one of its client's.                          *)
Forwarding(c, r) ==
  /\ forwarder[c][r] = "sending" <=> hand[c][r] # Nothing
  /\ forwarder[c][r] # "none" <=> r \in client_type[c]
  /\ hand[c][r] # Nothing => RoadOf[hand[c][r]] = r

OnRoad(c, m) == m \in Ticket => RoadOf[m] \in client_type[c]

TicketsOnRoad(c) ==
  /\ \A i \in DOMAIN events[c] : OnRoad(c, events[c][i])
  /\ OnRoad(c, writing[c])

Queued(r) == \A i \in DOMAIN ticket_queues[r] : RoadOf[ticket_queues[r][i]] = r

Based ==
  /\ TypeOK
  /\ \A c \in Client, r \in Road : Forwarding(c, r)
  /\ \A c \in Client : TicketsOnRoad(c)
  /\ \A r \in Road : Queued(r)
  /\ \A c \in Client : pc[c] # "serving" => writing[c] = Nothing

Kept == \A t \in Ticket : InPlay(t)' <=> InPlay(t)

IInv == Based /\ \A t \in Ticket : Unique(t) /\ (t \notin issued => ~Somewhere(t))

-----------------------------------------------------------------------------
(* Queues and channels.                                                    *)
LEMMA AppendFacts ==
  ASSUME NEW S, NEW s \in Seq(S), NEW x \in S
  PROVE  /\ Append(s, x) \in Seq(S)
         /\ DOMAIN Append(s, x) = DOMAIN s \union {Len(s) + 1}
         /\ Len(s) + 1 \notin DOMAIN s
         /\ Append(s, x)[Len(s) + 1] = x
         /\ \A i \in DOMAIN s : Append(s, x)[i] = s[i]
         /\ Len(Append(s, x)) = Len(s) + 1
OBVIOUS

LEMMA TailFacts ==
  ASSUME NEW S, NEW s \in Seq(S), s # << >>
  PROVE  /\ Tail(s) \in Seq(S) /\ Head(s) \in S /\ Len(Tail(s)) = Len(s) - 1
         /\ Len(s) \in Nat \ {0} /\ 1 \in DOMAIN s /\ Head(s) = s[1]
         /\ \A i \in DOMAIN Tail(s) : i + 1 \in DOMAIN s /\ i + 1 # 1 /\ Tail(s)[i] = s[i + 1]
         /\ \A i \in DOMAIN s : i # 1 => i - 1 \in DOMAIN Tail(s) /\ Tail(s)[i - 1] = s[i]
OBVIOUS

LEMMA MessageFacts ==
  /\ HeartBeat \notin Ticket /\ Nothing \notin Ticket /\ Nothing # HeartBeat
  /\ \A t \in Ticket : RoadOf[t] \in Road
BY TicketAssumption, MessageAssumption

(* A ticket is put on the queue of its road.                               *)
LEMMA PutBackFacts ==
  ASSUME Based, NEW t \in Ticket, PutBack(t)
  PROVE  LET r == RoadOf[t]
             n == Len(ticket_queues[r]) + 1
         IN  /\ r \in Road /\ ticket_queues' \in [Road -> Seq(Ticket)]
             /\ DOMAIN ticket_queues'[r] = DOMAIN ticket_queues[r] \union {n}
             /\ ticket_queues'[r][n] = t
             /\ \A i \in DOMAIN ticket_queues[r] : ticket_queues'[r][i] = ticket_queues[r][i]
             /\ \A q \in Road \ {r} : ticket_queues'[q] = ticket_queues[q]
             /\ \A q \in Road : Queued(q)'
<1> DEFINE r == RoadOf[t]
<1>1. r \in Road /\ ticket_queues[r] \in Seq(Ticket)
  BY MessageFacts DEF Based, TypeOK
<1>2. ticket_queues' = [ticket_queues EXCEPT ![r] = Append(@, t)]
  BY DEF PutBack
<1>3. /\ ticket_queues'[r] = Append(ticket_queues[r], t)
      /\ ticket_queues' \in [Road -> Seq(Ticket)]
      /\ \A q \in Road \ {r} : ticket_queues'[q] = ticket_queues[q]
  BY <1>1, <1>2, AppendFacts DEF Based, TypeOK
<1>4. /\ DOMAIN ticket_queues'[r] = DOMAIN ticket_queues[r] \union {Len(ticket_queues[r]) + 1}
      /\ ticket_queues'[r][Len(ticket_queues[r]) + 1] = t
      /\ \A i \in DOMAIN ticket_queues[r] : ticket_queues'[r][i] = ticket_queues[r][i]
  BY <1>1, <1>3, AppendFacts
<1>5. ASSUME NEW q \in Road
      PROVE  Queued(q)'
  <2>1. CASE q = r
    <3>1. \A i \in DOMAIN ticket_queues[r] : RoadOf[ticket_queues[r][i]] = r
      BY <1>1 DEF Based, Queued
    <3>2. \A i \in DOMAIN ticket_queues'[r] : RoadOf[ticket_queues'[r][i]] = r
      BY <1>4, <3>1
    <3>. QED  BY <2>1, <3>2 DEF Queued
  <2>2. CASE q # r
    BY <1>3, <2>2 DEF Based, Queued
  <2>. QED  BY <2>1, <2>2
<1>. QED  BY <1>1, <1>3, <1>4, <1>5

LEMMA SendEventFacts ==
  ASSUME Based, NEW c \in Client, NEW m \in Message, SendEvent(c, m)
  PROVE  LET n == Len(events[c]) + 1
         IN  /\ events' \in [Client -> Seq(Message)]
             /\ \A d \in Client : Len(events'[d]) <= Capacity
             /\ DOMAIN events'[c] = DOMAIN events[c] \union {n}
             /\ events'[c][n] = m
             /\ \A i \in DOMAIN events[c] : events'[c][i] = events[c][i]
             /\ \A d \in Client \ {c} : events'[d] = events[d]
<1>1. events[c] \in Seq(Message) /\ Len(events[c]) \in Nat /\ Len(events[c]) < Capacity
  BY DEF Based, TypeOK, SendEvent
<1>2. /\ events'[c] = Append(events[c], m)
      /\ events' \in [Client -> Seq(Message)]
      /\ \A d \in Client \ {c} : events'[d] = events[d]
  BY <1>1, AppendFacts DEF Based, TypeOK, SendEvent
<1>3. /\ DOMAIN events'[c] = DOMAIN events[c] \union {Len(events[c]) + 1}
      /\ events'[c][Len(events[c]) + 1] = m
      /\ \A i \in DOMAIN events[c] : events'[c][i] = events[c][i]
      /\ Len(events'[c]) <= Capacity
  BY <1>1, <1>2, AppendFacts, CapacityAssumption
<1>4. \A d \in Client : Len(events'[d]) <= Capacity
  BY <1>2, <1>3 DEF Based, TypeOK
<1>. QED  BY <1>2, <1>3, <1>4

(* A message is taken out of a channel.                                    *)
LEMMA TakeFacts ==
  ASSUME Based, NEW c \in Client, events[c] # << >>, events' = [events EXCEPT ![c] = Tail(@)]
  PROVE  /\ events' \in [Client -> Seq(Message)]
         /\ \A d \in Client : Len(events'[d]) <= Capacity
         /\ 1 \in DOMAIN events[c] /\ Head(events[c]) = events[c][1] /\ Head(events[c]) \in Message
         /\ \A i \in DOMAIN events'[c] :
              i + 1 \in DOMAIN events[c] /\ i + 1 # 1 /\ events'[c][i] = events[c][i + 1]
         /\ \A i \in DOMAIN events[c] :
              i # 1 => i - 1 \in DOMAIN events'[c] /\ events'[c][i - 1] = events[c][i]
         /\ \A d \in Client \ {c} : events'[d] = events[d]
<1>1. events[c] \in Seq(Message) /\ Len(events[c]) <= Capacity
  BY DEF Based, TypeOK
<1>2. /\ Tail(events[c]) \in Seq(Message) /\ Head(events[c]) \in Message
      /\ Len(Tail(events[c])) <= Capacity
      /\ 1 \in DOMAIN events[c] /\ Head(events[c]) = events[c][1]
      /\ \A i \in DOMAIN Tail(events[c]) :
           i + 1 \in DOMAIN events[c] /\ i + 1 # 1 /\ Tail(events[c])[i] = events[c][i + 1]
      /\ \A i \in DOMAIN events[c] :
           i # 1 => i - 1 \in DOMAIN Tail(events[c]) /\ Tail(events[c])[i - 1] = events[c][i]
  BY <1>1, TailFacts, CapacityAssumption
<1>3. /\ events'[c] = Tail(events[c]) /\ \A d \in Client \ {c} : events'[d] = events[d]
      /\ events' \in [Client -> Seq(Message)]
  BY <1>2 DEF Based, TypeOK
<1>. QED  BY <1>2, <1>3 DEF Based, TypeOK

-----------------------------------------------------------------------------
(* A step that moves no message.                                           *)
LEMMA StillCopies ==
  ASSUME UNCHANGED <<ticket_queues, hand, events, writing, delivered>>
  PROVE  \A t, kind, a, b : Copy(t, kind, a, b)' <=> Copy(t, kind, a, b)
BY DEF Copy

LEMMA StillUnique ==
  ASSUME IInv, Based', issued' = issued, NEW t \in Ticket,
         \A kind, a, b : Copy(t, kind, a, b)' => Copy(t, kind, a, b)
  PROVE  Unique(t)' /\ (t \notin issued => ~Somewhere(t))'
BY DEF IInv, Unique, Somewhere

LEMMA QuietStep ==
  ASSUME IInv, NEW c \in Client,
         \/ \E roads \in SUBSET Road : IAmDispatcher(c, roads)
         \/ WantHeartBeat(c) \/ Drained(c) \/ Disconnect(c)
  PROVE  IInv' /\ Kept
<1>0. Based /\ TypeOK
  BY DEF IInv, Based
<1>1. UNCHANGED <<ticket_queues, issued, hand, events, writing, delivered>>
  BY DEF IAmDispatcher, WantHeartBeat, Drained, Disconnect, queueVars, taskVars
<1>2. Based'
  <2>1. ASSUME NEW roads \in SUBSET Road, IAmDispatcher(c, roads)
        PROVE  Based'
    <3>1. /\ client_type' = [client_type EXCEPT ![c] = roads] /\ client_type[c] = {}
          /\ forwarder' = [forwarder EXCEPT ![c] =
                             [r \in Road |-> IF r \in roads THEN "receiving" ELSE "none"]]
          /\ UNCHANGED <<ticket_queues, issued, hand, heartbeat, events, writing, pc, up, delivered>>
      BY <2>1 DEF IAmDispatcher, queueVars
    <3>2. TypeOK'
      BY <1>0, <3>1 DEF TypeOK
    <3>3. ASSUME NEW d \in Client, NEW r \in Road PROVE Forwarding(d, r)'
      <4>1. CASE d = c
        <5>1. hand[c][r] = Nothing
          BY <1>0, <3>1 DEF Based, Forwarding
        <5>. QED  BY <1>0, <3>1, <4>1, <5>1 DEF TypeOK, Forwarding
      <4>2. CASE d # c
        BY <1>0, <3>1, <4>2 DEF Based, TypeOK, Forwarding
      <4>. QED  BY <4>1, <4>2
    <3>4. ASSUME NEW d \in Client PROVE TicketsOnRoad(d)'
      BY <1>0, <3>1 DEF Based, TypeOK, TicketsOnRoad, OnRoad
    <3>. QED  BY <1>0, <3>1, <3>2, <3>3, <3>4 DEF Based, Queued
  <2>2. CASE WantHeartBeat(c) \/ Disconnect(c)
    <3>1. UNCHANGED <<ticket_queues, issued, client_type, forwarder, hand, events, writing, pc, delivered>>
      BY <2>2 DEF WantHeartBeat, Disconnect, queueVars, taskVars
    <3>2. TypeOK'
      BY <1>0, <2>2 DEF TypeOK, WantHeartBeat, Disconnect, queueVars, taskVars
    <3>. QED  BY <1>0, <3>1, <3>2 DEF Based, Forwarding, TicketsOnRoad, OnRoad, Queued
  <2>3. CASE Drained(c)
    <3>1. /\ pc[c] = "draining" /\ pc' = [pc EXCEPT ![c] = "closing"]
          /\ UNCHANGED <<ticket_queues, issued, client_type, forwarder, hand, heartbeat, events,
                         writing, up, delivered>>
      BY <2>3 DEF Drained, queueVars, taskVars
    <3>2. TypeOK'
      BY <1>0, <3>1 DEF TypeOK, ConnectionState
    <3>. QED  BY <1>0, <3>1, <3>2 DEF Based, TypeOK, Forwarding, TicketsOnRoad, OnRoad, Queued
  <2>. QED  BY <2>1, <2>2, <2>3
<1>3. IInv'
  BY <1>1, <1>2, StillCopies, StillUnique DEF IInv
<1>4. Kept
  BY <1>1, StillCopies DEF Kept, InPlay
<1>. QED  BY <1>3, <1>4

LEMMA IssueStep ==
  ASSUME IInv, NEW t \in Ticket, Issue(t)
  PROVE  IInv' /\ \A x \in Ticket : InPlay(x)' <=> InPlay(x) \/ x = t
<1>0. Based /\ TypeOK
  BY DEF IInv, Based
<1>1. /\ t \notin issued /\ issued' = issued \union {t} /\ PutBack(t)
      /\ UNCHANGED <<client_type, forwarder, hand, heartbeat, events, writing, pc, up, delivered>>
  BY DEF Issue, taskVars
<1>2. Based'
  <2>1. TypeOK'
    BY <1>0, <1>1, PutBackFacts DEF TypeOK
  <2>. QED  BY <1>0, <1>1, <2>1, PutBackFacts DEF Based, Forwarding, TicketsOnRoad, OnRoad
<1>3. ASSUME NEW x \in Ticket, NEW kind, NEW a, NEW b, Copy(x, kind, a, b)'
      PROVE  Copy(x, kind, a, b) \/ (x = t /\ kind = "queue" /\ a = RoadOf[t]
                                       /\ b = Len(ticket_queues[RoadOf[t]]) + 1)
  BY <1>0, <1>1, <1>3, PutBackFacts DEF Copy
<1>4. ASSUME NEW x \in Ticket
      PROVE  Unique(x)' /\ (x \notin issued => ~Somewhere(x))'
  BY <1>1, <1>3 DEF IInv, Unique, Somewhere
<1>5. ASSUME NEW x \in Ticket, InPlay(x) \/ x = t
      PROVE  InPlay(x)'
  <2>1. ASSUME NEW i, i = Len(ticket_queues[RoadOf[t]]) + 1
        PROVE  Copy(t, "queue", RoadOf[t], i)'
    BY <1>0, <1>1, <2>1, PutBackFacts DEF Copy
  <2>2. ASSUME NEW kind, NEW a, NEW b, Copy(x, kind, a, b)
        PROVE  Copy(x, kind, a, b)'
    BY <1>0, <1>1, <2>2, PutBackFacts DEF Copy
  <2>. QED  BY <1>5, <2>1, <2>2 DEF InPlay
<1>6. \A x \in Ticket : InPlay(x)' => InPlay(x) \/ x = t
  BY <1>3 DEF InPlay
<1>. QED  BY <1>2, <1>4, <1>5, <1>6 DEF IInv

LEMMA ReceiveStep ==
  ASSUME IInv, NEW c \in Client, NEW r \in Road, Receive(c, r)
  PROVE  IInv' /\ Kept
<1>0. Based /\ TypeOK
  BY DEF IInv, Based
<1> DEFINE t == Head(ticket_queues[r])
<1>1. /\ ticket_queues[r] \in Seq(Ticket) /\ ticket_queues[r] # << >>
      /\ hand' = [hand EXCEPT ![c][r] = t]
      /\ ticket_queues' = [ticket_queues EXCEPT ![r] = Tail(@)]
      /\ forwarder[c][r] = "receiving" /\ forwarder' = [forwarder EXCEPT ![c][r] = "sending"]
      /\ UNCHANGED <<issued, client_type, heartbeat, events, writing, pc, up, delivered>>
  BY <1>0 DEF Receive, TypeOK
<1>2. /\ t \in Ticket /\ RoadOf[t] = r /\ 1 \in DOMAIN ticket_queues[r] /\ t = ticket_queues[r][1]
      /\ Tail(ticket_queues[r]) \in Seq(Ticket)
      /\ \A i \in DOMAIN Tail(ticket_queues[r]) :
           i + 1 \in DOMAIN ticket_queues[r] /\ i + 1 # 1
           /\ Tail(ticket_queues[r])[i] = ticket_queues[r][i + 1]
      /\ \A i \in DOMAIN ticket_queues[r] : i # 1 =>
           i - 1 \in DOMAIN Tail(ticket_queues[r])
           /\ Tail(ticket_queues[r])[i - 1] = ticket_queues[r][i]
  BY <1>0, <1>1, TailFacts DEF Based, Queued
<1> HIDE DEF t
<1>3. /\ ticket_queues'[r] = Tail(ticket_queues[r])
      /\ \A q \in Road \ {r} : ticket_queues'[q] = ticket_queues[q]
      /\ hand'[c][r] = t /\ forwarder'[c][r] = "sending"
      /\ \A d \in Client, q \in Road : d # c \/ q # r =>
           hand'[d][q] = hand[d][q] /\ forwarder'[d][q] = forwarder[d][q]
  BY <1>0, <1>1 DEF TypeOK
<1>4. TypeOK'
  BY <1>0, <1>1, <1>2 DEF TypeOK
<1>5. Based'
  <2>1. ASSUME NEW d \in Client, NEW q \in Road PROVE Forwarding(d, q)'
    <3>1. CASE d = c /\ q = r
      <4>1. t # Nothing /\ r \in client_type[c]
        BY <1>0, <1>1, <1>2, MessageFacts DEF Based, Forwarding
      <4>. QED  BY <1>1, <1>2, <1>3, <3>1, <4>1 DEF Forwarding
    <3>2. CASE d # c \/ q # r
      BY <1>0, <1>1, <1>3, <3>2 DEF Based, Forwarding
    <3>. QED  BY <3>1, <3>2
  <2>2. ASSUME NEW q \in Road PROVE Queued(q)'
    <3>1. CASE q = r
      <4>1. \A i \in DOMAIN ticket_queues[r] : RoadOf[ticket_queues[r][i]] = r
        BY <1>0 DEF Based, Queued
      <4>2. \A i \in DOMAIN ticket_queues'[r] : RoadOf[ticket_queues'[r][i]] = r
        BY <1>2, <1>3, <4>1
      <4>. QED  BY <3>1, <4>2 DEF Queued
    <3>2. CASE q # r
      BY <1>0, <1>3, <3>2 DEF Based, Queued
    <3>. QED  BY <3>1, <3>2
  <2>. QED  BY <1>0, <1>1, <1>4, <2>1, <2>2 DEF Based, TicketsOnRoad, OnRoad
<1>6. ASSUME NEW x \in Ticket, NEW kind, NEW a, NEW b, Copy(x, kind, a, b)'
      PROVE  IF kind = "queue" /\ a = r THEN b + 1 # 1 /\ b \in Int /\ Copy(x, kind, a, b + 1)
             ELSE IF kind = "hand" /\ a = c /\ b = r THEN Copy(x, "queue", r, 1)
             ELSE Copy(x, kind, a, b)
  <2>1. CASE kind = "queue" /\ a = r
    <3>1. b \in DOMAIN Tail(ticket_queues[r]) /\ Tail(ticket_queues[r])[b] = x
      BY <1>3, <1>6, <2>1 DEF Copy
    <3>2. b \in Int
      BY <1>2, <3>1
    <3>. QED  BY <1>2, <2>1, <3>1, <3>2 DEF Copy
  <2>2. CASE kind = "hand" /\ a = c /\ b = r
    BY <1>2, <1>3, <1>6, <2>2 DEF Copy
  <2>3. CASE ~(kind = "queue" /\ a = r) /\ ~(kind = "hand" /\ a = c /\ b = r)
    BY <1>1, <1>3, <1>6, <2>3 DEF Copy
  <2>. QED  BY <2>1, <2>2, <2>3
<1>7. ASSUME NEW x \in Ticket
      PROVE  Unique(x)' /\ (x \notin issued => ~Somewhere(x))'
  <2>1. Unique(x) /\ (x \notin issued => ~Somewhere(x))
    BY DEF IInv
  <2>2. ASSUME NEW k1, NEW a1, NEW b1, NEW k2, NEW a2, NEW b2,
               Copy(x, k1, a1, b1)', Copy(x, k2, a2, b2)'
        PROVE  k1 = k2 /\ a1 = a2 /\ b1 = b2
    BY <1>6, <2>1, <2>2 DEF Unique
  <2>. QED  BY <1>1, <1>6, <2>1, <2>2 DEF Unique, Somewhere
<1>8. ASSUME NEW x \in Ticket, NEW kind, NEW a, NEW b, kind # "delivered", Copy(x, kind, a, b)
      PROVE  InPlay(x)'
  <2>1. CASE kind = "queue" /\ a = r /\ b = 1
    <3>1. Copy(x, "hand", c, r)'
      BY <1>2, <1>3, <1>8, <2>1 DEF Copy
    <3>. QED  BY <3>1 DEF InPlay
  <2>2. CASE kind = "queue" /\ a = r /\ b # 1
    <3>1. Copy(x, "queue", r, b - 1)'
      BY <1>2, <1>3, <1>8, <2>2 DEF Copy
    <3>. QED  BY <3>1 DEF InPlay
  <2>3. CASE ~(kind = "queue" /\ a = r)
    <3>1. hand[c][r] = Nothing
      BY <1>0, <1>1 DEF Based, Forwarding
    <3>2. Copy(x, kind, a, b)'
      BY <1>1, <1>3, <1>8, <2>3, <3>1, MessageFacts DEF Copy
    <3>. QED  BY <1>8, <3>2 DEF InPlay
  <2>. QED  BY <2>1, <2>2, <2>3
<1>9. Kept
  <2>1. \A x \in Ticket : InPlay(x)' => InPlay(x)
    BY <1>6 DEF InPlay
  <2>. QED  BY <1>8, <2>1 DEF Kept, InPlay
<1>. QED  BY <1>5, <1>7, <1>9 DEF IInv

(* A ticket goes from a forwarder's hand into the channel, or a heartbeat  *)
(* goes into it.                                                           *)
LEMMA SendStep ==
  ASSUME IInv, NEW c \in Client, NEW r \in Road, Send(c, r)
  PROVE  IInv' /\ Kept
<1>0. Based /\ TypeOK
  BY DEF IInv, Based
<1> DEFINE t == hand[c][r]
           n == Len(events[c]) + 1
<1>1. /\ t \in Ticket /\ RoadOf[t] = r /\ r \in client_type[c] /\ t \in Message
  BY <1>0 DEF Based, TypeOK, Forwarding, Send, Message
<1>2. /\ SendEvent(c, t) /\ hand' = [hand EXCEPT ![c][r] = Nothing]
      /\ forwarder' = [forwarder EXCEPT ![c][r] = "receiving"]
      /\ UNCHANGED <<ticket_queues, issued, client_type, heartbeat, writing, pc, up, delivered>>
  BY DEF Send, queueVars
<1> HIDE DEF t
<1>3. /\ events' \in [Client -> Seq(Message)] /\ \A d \in Client : Len(events'[d]) <= Capacity
      /\ DOMAIN events'[c] = DOMAIN events[c] \union {n} /\ events'[c][n] = t
      /\ \A i \in DOMAIN events[c] : events'[c][i] = events[c][i]
      /\ \A d \in Client \ {c} : events'[d] = events[d]
  BY <1>0, <1>1, <1>2, SendEventFacts
<1> HIDE DEF n
<1>4. /\ hand'[c][r] = Nothing /\ forwarder'[c][r] = "receiving"
      /\ \A d \in Client, q \in Road : d # c \/ q # r =>
           hand'[d][q] = hand[d][q] /\ forwarder'[d][q] = forwarder[d][q]
  BY <1>0, <1>2 DEF TypeOK
<1>5. Based'
  <2>1. TypeOK'
    BY <1>0, <1>2, <1>3 DEF TypeOK
  <2>2. ASSUME NEW d \in Client, NEW q \in Road PROVE Forwarding(d, q)'
    BY <1>0, <1>1, <1>2, <1>4 DEF Based, Forwarding
  <2>3. ASSUME NEW d \in Client PROVE TicketsOnRoad(d)'
    BY <1>0, <1>1, <1>2, <1>3 DEF Based, TicketsOnRoad, OnRoad
  <2>. QED  BY <1>0, <1>2, <2>1, <2>2, <2>3 DEF Based, Queued
<1>6. ASSUME NEW x \in Ticket, NEW kind, NEW a, NEW b, Copy(x, kind, a, b)'
      PROVE  IF kind = "channel" /\ a = c /\ b = n THEN Copy(x, "hand", c, r)
             ELSE ~(kind = "hand" /\ a = c /\ b = r) /\ Copy(x, kind, a, b)
  <2>1. CASE kind = "channel" /\ a = c /\ b = n
    BY <1>3, <1>6, <2>1 DEF Copy, t
  <2>2. CASE ~(kind = "channel" /\ a = c /\ b = n)
    BY <1>2, <1>3, <1>4, <1>6, <2>2, MessageFacts DEF Copy
  <2>. QED  BY <2>1, <2>2
<1>7. ASSUME NEW x \in Ticket
      PROVE  Unique(x)' /\ (x \notin issued => ~Somewhere(x))'
  <2>1. Unique(x) /\ (x \notin issued => ~Somewhere(x))
    BY DEF IInv
  <2>2. ASSUME NEW k1, NEW a1, NEW b1, NEW k2, NEW a2, NEW b2,
               Copy(x, k1, a1, b1)', Copy(x, k2, a2, b2)'
        PROVE  k1 = k2 /\ a1 = a2 /\ b1 = b2
    BY <1>6, <2>1, <2>2 DEF Unique
  <2>. QED  BY <1>2, <1>6, <2>1, <2>2 DEF Unique, Somewhere
<1>8. ASSUME NEW x \in Ticket, NEW kind, NEW a, NEW b, kind # "delivered", Copy(x, kind, a, b)
      PROVE  InPlay(x)'
  <2>1. CASE kind = "hand" /\ a = c /\ b = r
    <3>1. ASSUME NEW i, i = n PROVE Copy(x, "channel", c, i)'
      BY <1>1, <1>3, <1>8, <2>1, <3>1 DEF Copy, t
    <3>. QED  BY <3>1 DEF InPlay
  <2>2. CASE ~(kind = "hand" /\ a = c /\ b = r)
    <3>1. Copy(x, kind, a, b)'
      BY <1>2, <1>3, <1>4, <1>8, <2>2 DEF Copy
    <3>. QED  BY <1>8, <3>1 DEF InPlay
  <2>. QED  BY <2>1, <2>2
<1>9. Kept
  <2>1. \A x \in Ticket : InPlay(x)' => InPlay(x)
    BY <1>6 DEF InPlay
  <2>. QED  BY <1>8, <2>1 DEF Kept, InPlay
<1>. QED  BY <1>5, <1>7, <1>9 DEF IInv

LEMMA TickStep ==
  ASSUME IInv, NEW c \in Client, Tick(c)
  PROVE  IInv' /\ Kept
<1>0. Based /\ TypeOK
  BY DEF IInv, Based
<1>1. /\ SendEvent(c, HeartBeat) /\ HeartBeat \in Message
      /\ UNCHANGED <<ticket_queues, issued, client_type, forwarder, hand, heartbeat, writing, pc, up, delivered>>
  BY DEF Tick, queueVars, taskVars, Message
<1>2. /\ events' \in [Client -> Seq(Message)] /\ \A d \in Client : Len(events'[d]) <= Capacity
      /\ \A i \in DOMAIN events'[c] :
           events'[c][i] = HeartBeat \/ (i \in DOMAIN events[c] /\ events'[c][i] = events[c][i])
      /\ \A i \in DOMAIN events[c] : i \in DOMAIN events'[c] /\ events'[c][i] = events[c][i]
      /\ \A d \in Client \ {c} : events'[d] = events[d]
  <2>1. /\ events' \in [Client -> Seq(Message)] /\ \A d \in Client : Len(events'[d]) <= Capacity
        /\ DOMAIN events'[c] = DOMAIN events[c] \union {Len(events[c]) + 1}
        /\ events'[c][Len(events[c]) + 1] = HeartBeat
        /\ \A i \in DOMAIN events[c] : events'[c][i] = events[c][i]
        /\ \A d \in Client \ {c} : events'[d] = events[d]
    BY <1>0, <1>1, SendEventFacts
  <2>2. ASSUME NEW i \in DOMAIN events'[c]
        PROVE  events'[c][i] = HeartBeat \/ (i \in DOMAIN events[c] /\ events'[c][i] = events[c][i])
    <3>1. CASE i = Len(events[c]) + 1
      BY <2>1, <3>1
    <3>2. CASE i # Len(events[c]) + 1
      BY <2>1, <3>2
    <3>. QED  BY <3>1, <3>2
  <2>. QED  BY <2>1, <2>2
<1>3. Based'
  <2>1. TypeOK'
    BY <1>0, <1>1, <1>2 DEF TypeOK
  <2>. QED  BY <1>0, <1>1, <1>2, <2>1, MessageFacts DEF Based, Forwarding, TicketsOnRoad, OnRoad, Queued
<1>4. \A t \in Ticket : \A kind, a, b : Copy(t, kind, a, b)' => Copy(t, kind, a, b)
  BY SMTT(30), <1>1, <1>2, MessageFacts DEF Copy
<1>5. \A t \in Ticket : \A kind, a, b : Copy(t, kind, a, b) => Copy(t, kind, a, b)'
  BY <1>1, <1>2 DEF Copy
<1>6. Kept
  BY <1>4, <1>5 DEF Kept, InPlay
<1>7. IInv'
  BY <1>1, <1>3, <1>4, StillUnique DEF IInv
<1>. QED  BY <1>6, <1>7

(* A ticket whose channel is gone goes back to its queue.                  *)
LEMMA SendFailsStep ==
  ASSUME IInv, NEW c \in Client, NEW r \in Road, SendFails(c, r)
  PROVE  IInv' /\ Kept
<1>0. Based /\ TypeOK
  BY DEF IInv, Based
<1> DEFINE t == hand[c][r]
           n == Len(ticket_queues[r]) + 1
<1>1. t \in Ticket /\ RoadOf[t] = r /\ r \in client_type[c]
  BY <1>0 DEF Based, TypeOK, Forwarding, SendFails
<1>2. /\ PutBack(t) /\ hand' = [hand EXCEPT ![c][r] = Nothing]
      /\ forwarder' = [forwarder EXCEPT ![c][r] = "ended"]
      /\ UNCHANGED <<issued, client_type, heartbeat, events, writing, pc, up, delivered>>
  BY DEF SendFails
<1> HIDE DEF t
<1>3. /\ ticket_queues' \in [Road -> Seq(Ticket)]
      /\ DOMAIN ticket_queues'[r] = DOMAIN ticket_queues[r] \union {n} /\ ticket_queues'[r][n] = t
      /\ \A i \in DOMAIN ticket_queues[r] : ticket_queues'[r][i] = ticket_queues[r][i]
      /\ \A q \in Road \ {r} : ticket_queues'[q] = ticket_queues[q]
      /\ \A q \in Road : Queued(q)'
  BY <1>0, <1>1, <1>2, PutBackFacts
<1> HIDE DEF n
<1>4. /\ hand'[c][r] = Nothing /\ forwarder'[c][r] = "ended"
      /\ \A d \in Client, q \in Road : d # c \/ q # r =>
           hand'[d][q] = hand[d][q] /\ forwarder'[d][q] = forwarder[d][q]
  BY <1>0, <1>2 DEF TypeOK
<1>5. Based'
  <2>1. TypeOK'
    BY <1>0, <1>2, <1>3 DEF TypeOK
  <2>2. ASSUME NEW d \in Client, NEW q \in Road PROVE Forwarding(d, q)'
    BY <1>0, <1>1, <1>2, <1>4 DEF Based, Forwarding
  <2>. QED  BY <1>0, <1>2, <1>3, <2>1, <2>2 DEF Based, TicketsOnRoad, OnRoad
<1>6. ASSUME NEW x \in Ticket, NEW kind, NEW a, NEW b, Copy(x, kind, a, b)'
      PROVE  IF kind = "queue" /\ a = r /\ b = n THEN Copy(x, "hand", c, r)
             ELSE ~(kind = "hand" /\ a = c /\ b = r) /\ Copy(x, kind, a, b)
  <2>1. CASE kind = "queue" /\ a = r /\ b = n
    BY <1>3, <1>6, <2>1 DEF Copy, t
  <2>2. CASE ~(kind = "queue" /\ a = r /\ b = n)
    BY <1>2, <1>3, <1>4, <1>6, <2>2, MessageFacts DEF Copy
  <2>. QED  BY <2>1, <2>2
<1>7. ASSUME NEW x \in Ticket
      PROVE  Unique(x)' /\ (x \notin issued => ~Somewhere(x))'
  <2>1. Unique(x) /\ (x \notin issued => ~Somewhere(x))
    BY DEF IInv
  <2>2. ASSUME NEW k1, NEW a1, NEW b1, NEW k2, NEW a2, NEW b2,
               Copy(x, k1, a1, b1)', Copy(x, k2, a2, b2)'
        PROVE  k1 = k2 /\ a1 = a2 /\ b1 = b2
    BY <1>6, <2>1, <2>2 DEF Unique
  <2>. QED  BY <1>2, <1>6, <2>1, <2>2 DEF Unique, Somewhere
<1>8. ASSUME NEW x \in Ticket, NEW kind, NEW a, NEW b, kind # "delivered", Copy(x, kind, a, b)
      PROVE  InPlay(x)'
  <2>1. CASE kind = "hand" /\ a = c /\ b = r
    <3>1. ASSUME NEW i, i = n PROVE Copy(x, "queue", r, i)'
      BY <1>1, <1>3, <1>8, <2>1, <3>1 DEF Copy, t
    <3>. QED  BY <3>1 DEF InPlay
  <2>2. CASE ~(kind = "hand" /\ a = c /\ b = r)
    <3>1. Copy(x, kind, a, b)'
      BY <1>2, <1>3, <1>4, <1>8, <2>2 DEF Copy
    <3>. QED  BY <1>8, <3>1 DEF InPlay
  <2>. QED  BY <2>1, <2>2
<1>9. Kept
  <2>1. \A x \in Ticket : InPlay(x)' => InPlay(x)
    BY <1>6 DEF InPlay
  <2>. QED  BY <1>8, <2>1 DEF Kept, InPlay
<1>. QED  BY <1>5, <1>7, <1>9 DEF IInv

-----------------------------------------------------------------------------
(* The connection's own task.                                              *)
LEMMA TakeStep ==
  ASSUME IInv, NEW c \in Client, Take(c)
  PROVE  IInv' /\ Kept
<1>0. Based /\ TypeOK
  BY DEF IInv, Based
<1> DEFINE m == Head(events[c])
<1>1. /\ pc[c] = "serving" /\ writing[c] = Nothing /\ events[c] # << >>
      /\ writing' = [writing EXCEPT ![c] = m] /\ events' = [events EXCEPT ![c] = Tail(@)]
      /\ UNCHANGED <<ticket_queues, issued, client_type, forwarder, hand, heartbeat, pc, up, delivered>>
  BY DEF Take, queueVars, taskVars
<1>2. /\ events' \in [Client -> Seq(Message)] /\ \A d \in Client : Len(events'[d]) <= Capacity
      /\ 1 \in DOMAIN events[c] /\ m = events[c][1] /\ m \in Message
      /\ \A i \in DOMAIN events'[c] :
           i + 1 \in DOMAIN events[c] /\ i + 1 # 1 /\ events'[c][i] = events[c][i + 1]
      /\ \A i \in DOMAIN events[c] :
           i # 1 => i - 1 \in DOMAIN events'[c] /\ events'[c][i - 1] = events[c][i]
      /\ \A d \in Client \ {c} : events'[d] = events[d]
  BY <1>0, <1>1, TakeFacts
<1> HIDE DEF m
<1>3. writing'[c] = m /\ \A d \in Client \ {c} : writing'[d] = writing[d]
  BY <1>0, <1>1 DEF TypeOK
<1>4. Based'
  <2>1. TypeOK'
    BY <1>0, <1>1, <1>2 DEF TypeOK
  <2>2. ASSUME NEW d \in Client PROVE TicketsOnRoad(d)'
    <3>1. CASE d = c
      <4>1. \A i \in DOMAIN events[c] : OnRoad(c, events[c][i])
        BY <1>0 DEF Based, TicketsOnRoad
      <4>2. OnRoad(c, m) /\ \A i \in DOMAIN events'[c] : OnRoad(c, events'[c][i])
        BY <1>2, <4>1
      <4>. QED  BY <1>1, <1>3, <3>1, <4>2 DEF TicketsOnRoad, OnRoad
    <3>2. CASE d # c
      BY <1>0, <1>1, <1>2, <1>3, <3>2 DEF Based, TicketsOnRoad, OnRoad
    <3>. QED  BY <3>1, <3>2
  <2>. QED  BY <1>0, <1>1, <1>3, <2>1, <2>2 DEF Based, Forwarding, Queued
<1>5. ASSUME NEW x \in Ticket, NEW kind, NEW a, NEW b, Copy(x, kind, a, b)'
      PROVE  IF kind = "channel" /\ a = c THEN b + 1 # 1 /\ b \in Int /\ Copy(x, kind, a, b + 1)
             ELSE IF kind = "writing" /\ a = c THEN b = 0 /\ Copy(x, "channel", c, 1)
             ELSE Copy(x, kind, a, b)
  <2>1. CASE kind = "channel" /\ a = c
    <3>1. b \in DOMAIN events'[c] /\ events'[c][b] = x
      BY <1>5, <2>1 DEF Copy
    <3>2. b \in Int
      <4>1. events'[c] \in Seq(Message)
        BY <1>2
      <4>. QED  BY <3>1, <4>1
    <3>. QED  BY <1>2, <2>1, <3>1, <3>2 DEF Copy
  <2>2. CASE kind = "writing" /\ a = c
    BY <1>2, <1>3, <1>5, <2>2 DEF Copy
  <2>3. CASE ~(kind = "channel" /\ a = c) /\ ~(kind = "writing" /\ a = c)
    BY <1>1, <1>2, <1>3, <1>5, <2>3 DEF Copy
  <2>. QED  BY <2>1, <2>2, <2>3
<1>6. ASSUME NEW x \in Ticket
      PROVE  Unique(x)' /\ (x \notin issued => ~Somewhere(x))'
  <2>1. Unique(x) /\ (x \notin issued => ~Somewhere(x))
    BY DEF IInv
  <2>2. ASSUME NEW k1, NEW a1, NEW b1, NEW k2, NEW a2, NEW b2,
               Copy(x, k1, a1, b1)', Copy(x, k2, a2, b2)'
        PROVE  k1 = k2 /\ a1 = a2 /\ b1 = b2
    BY <1>5, <2>1, <2>2 DEF Unique
  <2>. QED  BY <1>1, <1>5, <2>1, <2>2 DEF Unique, Somewhere
<1>7. ASSUME NEW x \in Ticket, NEW kind, NEW a, NEW b, kind # "delivered", Copy(x, kind, a, b)
      PROVE  InPlay(x)'
  <2>1. CASE kind = "channel" /\ a = c /\ b = 1
    <3>1. Copy(x, "writing", c, 0)'
      BY <1>2, <1>3, <1>7, <2>1 DEF Copy
    <3>. QED  BY <3>1 DEF InPlay
  <2>2. CASE kind = "channel" /\ a = c /\ b # 1
    <3>1. Copy(x, "channel", c, b - 1)'
      BY <1>2, <1>7, <2>2 DEF Copy
    <3>. QED  BY <3>1 DEF InPlay
  <2>3. CASE ~(kind = "channel" /\ a = c)
    <3>1. Copy(x, kind, a, b)'
      BY <1>1, <1>2, <1>3, <1>7, <2>3, MessageFacts DEF Copy
    <3>. QED  BY <1>7, <3>1 DEF InPlay
  <2>. QED  BY <2>1, <2>2, <2>3
<1>8. Kept
  <2>1. \A x \in Ticket : InPlay(x)' => InPlay(x)
    BY <1>5 DEF InPlay
  <2>. QED  BY <1>7, <2>1 DEF Kept, InPlay
<1>. QED  BY <1>4, <1>6, <1>8 DEF IInv

LEMMA WriteStep ==
  ASSUME IInv, NEW c \in Client, Write(c)
  PROVE  IInv' /\ \A x \in Ticket : InPlay(x)' <=> InPlay(x) /\ x # writing[c]
<1>0. Based /\ TypeOK
  BY DEF IInv, Based
<1>1. /\ pc[c] = "serving" /\ writing' = [writing EXCEPT ![c] = Nothing]
      /\ delivered' = IF writing[c] \in Ticket
                      THEN [delivered EXCEPT ![c] = @ \union {writing[c]}] ELSE delivered
      /\ UNCHANGED <<ticket_queues, issued, client_type, forwarder, hand, heartbeat, events, pc, up>>
  BY DEF Write, queueVars, taskVars
<1>2. writing'[c] = Nothing /\ \A d \in Client \ {c} : writing'[d] = writing[d]
  BY <1>0, <1>1 DEF TypeOK
<1>3. /\ delivered' \in [Client -> SUBSET Ticket]
      /\ \A x \in delivered'[c] : x \in delivered[c] \/ x = writing[c]
      /\ \A d \in Client \ {c} : delivered'[d] = delivered[d]
  BY <1>0, <1>1 DEF TypeOK
<1>4. Based'
  <2>1. TypeOK'
    BY <1>0, <1>1, <1>3 DEF TypeOK
  <2>2. ASSUME NEW d \in Client PROVE TicketsOnRoad(d)'
    BY <1>0, <1>1, <1>2, MessageFacts DEF Based, TicketsOnRoad, OnRoad
  <2>. QED  BY <1>0, <1>1, <1>2, <2>1, <2>2 DEF Based, Forwarding, Queued
<1>5. ASSUME NEW x \in Ticket, NEW kind, NEW a, NEW b, Copy(x, kind, a, b)'
      PROVE  /\ ~(kind = "writing" /\ a = c)
             /\ \/ Copy(x, kind, a, b)
                \/ kind = "delivered" /\ a = c /\ b = 0 /\ Copy(x, "writing", c, 0)
  BY <1>1, <1>2, <1>3, <1>5, MessageFacts DEF Copy
<1>6. ASSUME NEW x \in Ticket
      PROVE  Unique(x)' /\ (x \notin issued => ~Somewhere(x))'
  <2>1. Unique(x) /\ (x \notin issued => ~Somewhere(x))
    BY DEF IInv
  <2>2. ASSUME NEW k1, NEW a1, NEW b1, NEW k2, NEW a2, NEW b2,
               Copy(x, k1, a1, b1)', Copy(x, k2, a2, b2)'
        PROVE  k1 = k2 /\ a1 = a2 /\ b1 = b2
    BY <1>5, <2>1, <2>2 DEF Unique
  <2>. QED  BY <1>1, <1>5, <2>1, <2>2 DEF Unique, Somewhere
<1>7. ASSUME NEW x \in Ticket PROVE InPlay(x)' <=> InPlay(x) /\ x # writing[c]
  <2>1. ASSUME NEW kind, NEW a, NEW b, kind # "delivered", Copy(x, kind, a, b), x # writing[c]
        PROVE  Copy(x, kind, a, b)'
    BY <1>1, <1>2, <2>1 DEF Copy
  <2>2. ASSUME NEW kind, NEW a, NEW b, kind # "delivered", Copy(x, kind, a, b)'
        PROVE  Copy(x, kind, a, b) /\ x # writing[c]
    <3>1. Copy(x, kind, a, b) /\ ~(kind = "writing" /\ a = c)
      BY <1>5, <2>2
    <3>2. x = writing[c] => Copy(x, "writing", c, 0)
      BY DEF Copy
    <3>. QED  BY <3>1, <3>2 DEF IInv, Unique
  <2>. QED  BY <2>1, <2>2 DEF InPlay
<1>. QED  BY <1>4, <1>6, <1>7 DEF IInv

(* The half that writes ends, with the message it was writing.             *)
LEMMA EndsStep ==
  ASSUME IInv, NEW c \in Client, WriteFails(c) \/ ReaderEnds(c)
  PROVE  IInv' /\ \A x \in Ticket : InPlay(x)' <=> InPlay(x) /\ x # writing[c]
<1>0. Based /\ TypeOK
  BY DEF IInv, Based
<1>1. /\ writing' = [writing EXCEPT ![c] = Nothing] /\ pc' = [pc EXCEPT ![c] = "draining"]
      /\ UNCHANGED <<ticket_queues, issued, client_type, forwarder, hand, heartbeat, events, up, delivered>>
  BY DEF WriteFails, ReaderEnds, queueVars, taskVars
<1>2. /\ writing'[c] = Nothing /\ \A d \in Client \ {c} : writing'[d] = writing[d] /\ pc'[d] = pc[d]
  BY <1>0, <1>1 DEF TypeOK
<1>3. Based'
  <2>1. TypeOK'
    BY <1>0, <1>1 DEF TypeOK, ConnectionState
  <2>2. ASSUME NEW d \in Client PROVE TicketsOnRoad(d)'
    BY <1>0, <1>1, <1>2, MessageFacts DEF Based, TicketsOnRoad, OnRoad
  <2>. QED  BY <1>0, <1>1, <1>2, <2>1, <2>2 DEF Based, Forwarding, Queued
<1>4. \A t \in Ticket : \A kind, a, b : Copy(t, kind, a, b)' => Copy(t, kind, a, b)
  BY <1>1, <1>2, MessageFacts DEF Copy
<1>5. ASSUME NEW x \in Ticket PROVE InPlay(x)' <=> InPlay(x) /\ x # writing[c]
  <2>1. ASSUME NEW kind, NEW a, NEW b, kind # "delivered", Copy(x, kind, a, b), x # writing[c]
        PROVE  Copy(x, kind, a, b)'
    BY <1>1, <1>2, <2>1 DEF Copy
  <2>2. ASSUME NEW kind, NEW a, NEW b, kind # "delivered", Copy(x, kind, a, b)'
        PROVE  Copy(x, kind, a, b) /\ x # writing[c]
    <3>1. Copy(x, kind, a, b) /\ ~(kind = "writing" /\ a = c)
      BY <1>2, <1>4, <2>2, MessageFacts DEF Copy
    <3>2. x = writing[c] => Copy(x, "writing", c, 0)
      BY DEF Copy
    <3>. QED  BY <3>1, <3>2 DEF IInv, Unique
  <2>. QED  BY <2>1, <2>2 DEF InPlay
<1>6. IInv'
  BY <1>1, <1>3, <1>4, StillUnique DEF IInv
<1>. QED  BY <1>5, <1>6

(* A channel is emptied: a ticket goes back to its queue.                  *)
LEMMA DrainStep ==
  ASSUME IInv, NEW c \in Client, Drain(c)
  PROVE  IInv' /\ Kept
<1>0. Based /\ TypeOK
  BY DEF IInv, Based
<1> DEFINE m == Head(events[c])
<1>1. /\ events[c] # << >> /\ events' = [events EXCEPT ![c] = Tail(@)]
      /\ IF m \in Ticket THEN PutBack(m) ELSE UNCHANGED ticket_queues
      /\ UNCHANGED <<issued, client_type, forwarder, hand, heartbeat, writing, pc, up, delivered>>
  BY DEF Drain, taskVars
<1>2. /\ events' \in [Client -> Seq(Message)] /\ \A d \in Client : Len(events'[d]) <= Capacity
      /\ 1 \in DOMAIN events[c] /\ m = events[c][1]
      /\ \A i \in DOMAIN events'[c] :
           i + 1 \in DOMAIN events[c] /\ i + 1 # 1 /\ events'[c][i] = events[c][i + 1]
      /\ \A i \in DOMAIN events[c] :
           i # 1 => i - 1 \in DOMAIN events'[c] /\ events'[c][i - 1] = events[c][i]
      /\ \A d \in Client \ {c} : events'[d] = events[d]
  BY <1>0, <1>1, TakeFacts
<1> HIDE DEF m
<1>3. /\ ticket_queues' \in [Road -> Seq(Ticket)]
      /\ \A q \in Road : Queued(q)'
      /\ \A q \in Road : \A i \in DOMAIN ticket_queues'[q] :
           \/ i \in DOMAIN ticket_queues[q] /\ ticket_queues'[q][i] = ticket_queues[q][i]
           \/ /\ m \in Ticket /\ q = RoadOf[m] /\ i = Len(ticket_queues[RoadOf[m]]) + 1
              /\ ticket_queues'[q][i] = m
      /\ \A q \in Road : \A i \in DOMAIN ticket_queues[q] :
           i \in DOMAIN ticket_queues'[q] /\ ticket_queues'[q][i] = ticket_queues[q][i]
      /\ m \in Ticket =>
           /\ RoadOf[m] \in Road
           /\ Len(ticket_queues[RoadOf[m]]) + 1 \in DOMAIN ticket_queues'[RoadOf[m]]
           /\ ticket_queues'[RoadOf[m]][Len(ticket_queues[RoadOf[m]]) + 1] = m
  <2>1. CASE m \in Ticket
    BY SMTT(30), <1>0, <1>1, <2>1, PutBackFacts
  <2>2. CASE m \notin Ticket
    BY <1>0, <1>1, <2>2 DEF Based, TypeOK, Queued
  <2>. QED  BY <2>1, <2>2
<1>4. Based'
  <2>1. TypeOK'
    BY <1>0, <1>1, <1>2, <1>3 DEF TypeOK
  <2>2. ASSUME NEW d \in Client PROVE TicketsOnRoad(d)'
    BY <1>0, <1>1, <1>2 DEF Based, TicketsOnRoad, OnRoad
  <2>. QED  BY <1>0, <1>1, <1>3, <2>1, <2>2 DEF Based, Forwarding
<1>5. ASSUME NEW x \in Ticket, NEW kind, NEW a, NEW b, Copy(x, kind, a, b)'
      PROVE  IF kind = "channel" /\ a = c THEN b + 1 # 1 /\ b \in Int /\ Copy(x, kind, a, b + 1)
             ELSE \/ Copy(x, kind, a, b)
                  \/ /\ kind = "queue" /\ a = RoadOf[x] /\ b = Len(ticket_queues[RoadOf[x]]) + 1
                     /\ Copy(x, "channel", c, 1)
  <2>1. CASE kind = "channel" /\ a = c
    <3>1. b \in DOMAIN events'[c] /\ events'[c][b] = x
      BY <1>5, <2>1 DEF Copy
    <3>2. b \in Int
      <4>1. events'[c] \in Seq(Message)
        BY <1>2
      <4>. QED  BY <3>1, <4>1
    <3>. QED  BY <1>2, <2>1, <3>1, <3>2 DEF Copy
  <2>2. CASE kind = "queue"
    BY <1>2, <1>3, <1>5, <2>2 DEF Copy
  <2>3. CASE ~(kind = "channel" /\ a = c) /\ kind # "queue"
    BY <1>1, <1>2, <1>5, <2>3 DEF Copy
  <2>. QED  BY <2>1, <2>2, <2>3
<1>6. ASSUME NEW x \in Ticket
      PROVE  Unique(x)' /\ (x \notin issued => ~Somewhere(x))'
  <2>1. Unique(x) /\ (x \notin issued => ~Somewhere(x))
    BY DEF IInv
  <2>2. ASSUME NEW k1, NEW a1, NEW b1, NEW k2, NEW a2, NEW b2,
               Copy(x, k1, a1, b1)', Copy(x, k2, a2, b2)'
        PROVE  k1 = k2 /\ a1 = a2 /\ b1 = b2
    BY <1>5, <2>1, <2>2 DEF Unique
  <2>. QED  BY <1>1, <1>5, <2>1, <2>2 DEF Unique, Somewhere
<1>7. ASSUME NEW x \in Ticket, NEW kind, NEW a, NEW b, kind # "delivered", Copy(x, kind, a, b)
      PROVE  InPlay(x)'
  <2>1. CASE kind = "channel" /\ a = c /\ b = 1
    <3>1. ASSUME NEW i, i = Len(ticket_queues[RoadOf[x]]) + 1
          PROVE  Copy(x, "queue", RoadOf[x], i)'
      BY <1>2, <1>3, <1>7, <2>1, <3>1 DEF Copy
    <3>. QED  BY <3>1 DEF InPlay
  <2>2. CASE kind = "channel" /\ a = c /\ b # 1
    <3>1. Copy(x, "channel", c, b - 1)'
      BY <1>2, <1>7, <2>2 DEF Copy
    <3>. QED  BY <3>1 DEF InPlay
  <2>3. CASE ~(kind = "channel" /\ a = c)
    <3>1. Copy(x, kind, a, b)'
      BY <1>1, <1>2, <1>3, <1>7, <2>3 DEF Copy
    <3>. QED  BY <1>7, <3>1 DEF InPlay
  <2>. QED  BY <2>1, <2>2, <2>3
<1>8. Kept
  <2>1. \A x \in Ticket : InPlay(x)' => InPlay(x)
    BY <1>5 DEF InPlay
  <2>. QED  BY <1>7, <2>1 DEF Kept, InPlay
<1>. QED  BY <1>4, <1>6, <1>8 DEF IInv

LEMMA ClosedStep ==
  ASSUME IInv, NEW c \in Client, Closed(c)
  PROVE  /\ IInv'
         /\ \A x \in Ticket : InPlay(x)' <=>
              InPlay(x) /\ x \notin {events[c][i] : i \in DOMAIN events[c]}
<1>0. Based /\ TypeOK
  BY DEF IInv, Based
<1>1. /\ pc[c] = "closing" /\ pc' = [pc EXCEPT ![c] = "ended"]
      /\ events' = [events EXCEPT ![c] = << >>] /\ heartbeat' = [heartbeat EXCEPT ![c] = FALSE]
      /\ UNCHANGED <<ticket_queues, issued, client_type, forwarder, hand, writing, up, delivered>>
  BY DEF Closed, queueVars
<1>2. /\ events'[c] = << >> /\ DOMAIN events'[c] = {} /\ Len(events'[c]) = 0
      /\ \A d \in Client \ {c} : events'[d] = events[d] /\ pc'[d] = pc[d]
      /\ events' \in [Client -> Seq(Message)]
  BY <1>0, <1>1 DEF TypeOK
<1>3. Based'
  <2>1. TypeOK'
    BY <1>0, <1>1, <1>2, CapacityAssumption DEF TypeOK, ConnectionState
  <2>2. ASSUME NEW d \in Client PROVE TicketsOnRoad(d)'
    BY <1>0, <1>1, <1>2 DEF Based, TicketsOnRoad, OnRoad
  <2>. QED  BY <1>0, <1>1, <1>2, <2>1, <2>2 DEF Based, Forwarding, Queued
<1>4. \A t \in Ticket : \A kind, a, b : Copy(t, kind, a, b)' => Copy(t, kind, a, b)
  BY <1>1, <1>2 DEF Copy
<1> DEFINE L == {events[c][i] : i \in DOMAIN events[c]}
<1>5. ASSUME NEW x \in Ticket PROVE InPlay(x)' <=> InPlay(x) /\ x \notin L
  <2>1. ASSUME NEW kind, NEW a, NEW b, kind # "delivered", Copy(x, kind, a, b), x \notin L
        PROVE  Copy(x, kind, a, b)'
    BY <1>1, <1>2, <2>1 DEF Copy
  <2>2. ASSUME NEW kind, NEW a, NEW b, kind # "delivered", Copy(x, kind, a, b)'
        PROVE  Copy(x, kind, a, b) /\ x \notin L
    <3>1. Copy(x, kind, a, b)
      BY <1>4, <2>2
    <3>2. ~(kind = "channel" /\ a = c)
      BY <1>2, <2>2 DEF Copy
    <3>3. \A i \in DOMAIN events[c] : events[c][i] = x => Copy(x, "channel", c, i)
      BY DEF Copy
    <3>. QED  BY <3>1, <3>2, <3>3 DEF IInv, Unique
  <2>. QED  BY <2>1, <2>2 DEF InPlay
<1>6. IInv'
  BY <1>1, <1>3, <1>4, StillUnique DEF IInv
<1>. QED  BY <1>5, <1>6

-----------------------------------------------------------------------------
(* All together.                                                           *)
LEMMA InitInv == Init => IInv
<1> SUFFICES ASSUME Init PROVE IInv
  OBVIOUS
<1>1. TypeOK
  <2>1. /\ ticket_queues \in [Road -> Seq(Ticket)] /\ events \in [Client -> Seq(Message)]
        /\ \A c \in Client : Len(events[c]) = 0
    BY DEF Init
  <2>. QED  BY <2>1, CapacityAssumption DEF Init, TypeOK, ConnectionState
<1>2. Based
  BY <1>1, MessageFacts DEF Init, Based, Forwarding, TicketsOnRoad, OnRoad, Queued
<1>3. \A t \in Ticket : ~Somewhere(t)
  BY MessageFacts DEF Init, Somewhere, Copy
<1>. QED  BY <1>2, <1>3 DEF IInv, Unique, Somewhere

LEMMA NextInv == IInv /\ [Next]_vars => IInv'
<1> SUFFICES ASSUME IInv, [Next]_vars PROVE IInv'
  OBVIOUS
<1>1. CASE UNCHANGED vars
  <2>1. UNCHANGED <<ticket_queues, issued, client_type, forwarder, hand, heartbeat, events,
                    writing, pc, up, delivered>>
    BY <1>1 DEF vars, queueVars, taskVars
  <2>2. Based'
    BY <2>1 DEF IInv, Based, TypeOK, Forwarding, TicketsOnRoad, OnRoad, Queued
  <2>. QED  BY <2>1, <2>2, StillCopies, StillUnique DEF IInv
<1>2. ASSUME NEW t \in Ticket, Issue(t) PROVE IInv'
  BY <1>2, IssueStep
<1>3. ASSUME NEW c \in Client,
             \/ \E roads \in SUBSET Road : IAmDispatcher(c, roads)
             \/ WantHeartBeat(c) \/ Drained(c) \/ Disconnect(c)
      PROVE  IInv'
  BY <1>3, QuietStep
<1>4. ASSUME NEW c \in Client, NEW r \in Road, Receive(c, r) \/ Send(c, r) \/ SendFails(c, r)
      PROVE  IInv'
  BY <1>4, ReceiveStep, SendStep, SendFailsStep
<1>5. ASSUME NEW c \in Client,
             \/ Tick(c) \/ Take(c) \/ Write(c) \/ WriteFails(c) \/ ReaderEnds(c)
             \/ Drain(c) \/ Closed(c)
      PROVE  IInv'
  BY <1>5, TickStep, TakeStep, WriteStep, EndsStep, DrainStep, ClosedStep
<1>. QED  BY <1>1, <1>2, <1>3, <1>4, <1>5 DEF Next

LEMMA Invariant == Spec => []IInv
BY InitInv, NextInv, PTL DEF Spec

(* Types, for any number of clients, roads and tickets.                    *)
THEOREM TypeCorrect == Spec => []TypeOK
BY Invariant, PTL DEF IInv, Based

(* Counting copies.                                                        *)
LEMMA AtMostOne ==
  ASSUME NEW S, \A x, y \in S : x = y
  PROVE  Cardinality(S) = IF S = {} THEN 0 ELSE 1
<1>1. CASE S = {}
  BY <1>1, FS_EmptySet
<1>2. CASE S # {}
  <2>1. PICK x \in S : S = {x}
    BY <1>2
  <2>. QED  BY <1>2, <2>1, FS_Singleton
<1>. QED  BY <1>1, <1>2

LEMMA PlacesOf ==
  ASSUME NEW t
  PROVE  /\ \A p \in InQueue(t) : p = <<p[1], p[2]>> /\ Copy(t, "queue", p[1], p[2])
         /\ \A p \in InHand(t) : p = <<p[1], p[2]>> /\ Copy(t, "hand", p[1], p[2])
         /\ \A p \in InChannel(t) : p = <<p[1], p[2]>> /\ Copy(t, "channel", p[1], p[2])
         /\ \A c \in Taken(t) : Copy(t, "writing", c, 0)
         /\ \A c \in Delivered(t) : Copy(t, "delivered", c, 0)
<1>1. ASSUME NEW p \in InQueue(t)
      PROVE  p = <<p[1], p[2]>> /\ Copy(t, "queue", p[1], p[2])
  <2>1. PICK r \in Road : p \in {r} \X {i \in DOMAIN ticket_queues[r] : ticket_queues[r][i] = t}
    BY DEF InQueue
  <2>. QED  BY <2>1 DEF Copy
<1>2. ASSUME NEW p \in InChannel(t)
      PROVE  p = <<p[1], p[2]>> /\ Copy(t, "channel", p[1], p[2])
  <2>1. PICK c \in Client : p \in {c} \X {i \in DOMAIN events[c] : events[c][i] = t}
    BY DEF InChannel
  <2>. QED  BY <2>1 DEF Copy
<1>3. ASSUME NEW p \in InHand(t)
      PROVE  p = <<p[1], p[2]>> /\ Copy(t, "hand", p[1], p[2])
  <2>1. p \in Client \X Road /\ hand[p[1]][p[2]] = t
    BY DEF InHand
  <2>. QED  BY <2>1 DEF Copy
<1>4. \A c \in Taken(t) : Copy(t, "writing", c, 0)
  BY DEF Taken, Copy
<1>5. \A c \in Delivered(t) : Copy(t, "delivered", c, 0)
  BY DEF Delivered, Copy
<1>. QED  BY <1>1, <1>2, <1>3, <1>4, <1>5

LEMMA SomePlace ==
  ASSUME NEW t, Somewhere(t)
  PROVE  InQueue(t) # {} \/ InHand(t) # {} \/ InChannel(t) # {} \/ Taken(t) # {} \/ Delivered(t) # {}
<1>1. PICK kind, a, b : Copy(t, kind, a, b)
  BY DEF Somewhere
<1>2. CASE kind = "queue" /\ a \in Road /\ b \in DOMAIN ticket_queues[a] /\ ticket_queues[a][b] = t
  <2>1. <<a, b>> \in {a} \X {i \in DOMAIN ticket_queues[a] : ticket_queues[a][i] = t}
    BY <1>2
  <2>. QED  BY <1>2, <2>1 DEF InQueue
<1>3. CASE kind = "hand" /\ a \in Client /\ b \in Road /\ hand[a][b] = t
  <2>1. <<a, b>> \in InHand(t)
    BY <1>3 DEF InHand
  <2>. QED  BY <2>1
<1>4. CASE kind = "channel" /\ a \in Client /\ b \in DOMAIN events[a] /\ events[a][b] = t
  <2>1. <<a, b>> \in {a} \X {i \in DOMAIN events[a] : events[a][i] = t}
    BY <1>4
  <2>. QED  BY <1>4, <2>1 DEF InChannel
<1>5. CASE kind = "writing" /\ a \in Client /\ writing[a] = t
  BY <1>5 DEF Taken
<1>6. CASE kind = "delivered" /\ a \in Client /\ t \in delivered[a]
  BY <1>6 DEF Delivered
<1>. QED  BY <1>1, <1>2, <1>3, <1>4, <1>5, <1>6 DEF Copy

LEMMA CopiesCounted ==
  ASSUME NEW t, Unique(t)
  PROVE  Copies(t) = IF Somewhere(t) THEN 1 ELSE 0
<1>1. /\ Cardinality(InQueue(t)) = IF InQueue(t) = {} THEN 0 ELSE 1
      /\ Cardinality(InHand(t)) = IF InHand(t) = {} THEN 0 ELSE 1
      /\ Cardinality(InChannel(t)) = IF InChannel(t) = {} THEN 0 ELSE 1
      /\ Cardinality(Taken(t)) = IF Taken(t) = {} THEN 0 ELSE 1
      /\ Cardinality(Delivered(t)) = IF Delivered(t) = {} THEN 0 ELSE 1
  <2>1. \A p, q \in InQueue(t) : p = q
    BY PlacesOf DEF Unique
  <2>2. \A p, q \in InHand(t) : p = q
    BY PlacesOf DEF Unique
  <2>3. \A p, q \in InChannel(t) : p = q
    BY PlacesOf DEF Unique
  <2>4. \A p, q \in Taken(t) : p = q
    BY PlacesOf DEF Unique
  <2>5. \A p, q \in Delivered(t) : p = q
    BY PlacesOf DEF Unique
  <2>. QED  BY <2>1, <2>2, <2>3, <2>4, <2>5, AtMostOne
<1>2. \A p, q :
        /\ p \in InQueue(t) => q \notin InHand(t) /\ q \notin InChannel(t)
                                 /\ q \notin Taken(t) /\ q \notin Delivered(t)
        /\ p \in InHand(t) => q \notin InChannel(t) /\ q \notin Taken(t) /\ q \notin Delivered(t)
        /\ p \in InChannel(t) => q \notin Taken(t) /\ q \notin Delivered(t)
        /\ p \in Taken(t) => q \notin Delivered(t)
  BY PlacesOf DEF Unique
<1>3. CASE ~Somewhere(t)
  <2>1. InQueue(t) = {} /\ InHand(t) = {} /\ InChannel(t) = {} /\ Taken(t) = {} /\ Delivered(t) = {}
    BY <1>3, PlacesOf DEF Somewhere
  <2>. QED  BY <1>1, <1>3, <2>1 DEF Copies
<1>4. CASE Somewhere(t)
  <2>1. InQueue(t) # {} \/ InHand(t) # {} \/ InChannel(t) # {} \/ Taken(t) # {} \/ Delivered(t) # {}
    BY <1>4, SomePlace
  <2>. QED  BY <1>1, <1>2, <1>4, <2>1 DEF Copies
<1>. QED  BY <1>3, <1>4

(* No ticket is in two places: putting a ticket back never races with its  *)
(* delivery.                                                               *)
THEOREM NeverTwoCopies == Spec => []OnePlace
<1>1. IInv => OnePlace
  BY CopiesCounted DEF IInv, OnePlace
<1>. QED  BY <1>1, Invariant, PTL
-----------------------------------------------------------------------------
(* The refinement.                                                         *)
Pending == {t \in issued : ~Settled(t)}
Missing == {t \in issued : Lost(t)}

(* What TicketDelivery sees of a ticket.                                   *)
Abstracted ==
  /\ Pending = {t \in Ticket : InPlay(t)}
  /\ Missing = {t \in issued : ~InPlay(t) /\ \A c \in Client : t \notin delivered[c]}
  /\ issued \subseteq Ticket

LEMMA Abstraction == IInv => Abstracted
<1> SUFFICES ASSUME IInv PROVE Abstracted
  OBVIOUS
<1>1. issued \subseteq Ticket
  BY DEF IInv, Based, TypeOK
<1>2. ASSUME NEW t \in Ticket
      PROVE  /\ Unique(t) /\ (InPlay(t) => t \in issued)
             /\ InPlay(t) => Delivered(t) = {} /\ Somewhere(t)
             /\ Somewhere(t) => InPlay(t) \/ Delivered(t) # {}
             /\ Delivered(t) # {} => Somewhere(t)
             /\ Delivered(t) = {} <=> \A c \in Client : t \notin delivered[c]
  <2>1. Unique(t) /\ (t \notin issued => ~Somewhere(t))
    BY DEF IInv
  <2>2. \A c \in Delivered(t) : Copy(t, "delivered", c, 0)
    BY DEF Delivered, Copy
  <2>3. ASSUME NEW kind, NEW a, NEW b, Copy(t, kind, a, b), kind = "delivered"
        PROVE  a \in Delivered(t)
    BY <2>3 DEF Copy, Delivered
  <2>. QED  BY <2>1, <2>2, <2>3 DEF InPlay, Somewhere, Unique, Delivered
<1>3. ASSUME NEW t \in Ticket
      PROVE  Copies(t) = 0 <=> ~InPlay(t) /\ \A c \in Client : t \notin delivered[c]
  <2>1. Copies(t) = 0 <=> ~Somewhere(t)
    BY <1>2, CopiesCounted
  <2>. QED  BY <1>2, <2>1
<1>4. Missing = {t \in issued : ~InPlay(t) /\ \A c \in Client : t \notin delivered[c]}
  BY <1>1, <1>3 DEF Missing, Lost
<1>5. Pending = {t \in Ticket : InPlay(t)}
  BY <1>1, <1>2, <1>3 DEF Pending, Settled, Lost
<1>. QED  BY <1>1, <1>4, <1>5 DEF Abstracted

(* Tickets L leave the server, and no other ticket is touched.             *)
LEMMA SomeGone ==
  ASSUME IInv, IInv', issued' = issued, delivered' = delivered,
         NEW L \in SUBSET Ticket, \A t \in L : InPlay(t),
         \A t \in Ticket : InPlay(t)' <=> InPlay(t) /\ t \notin L
  PROVE  /\ Pending' = Pending \ L /\ Missing' = Missing \union L
         /\ L \subseteq Pending
<1>1. /\ Pending = {t \in Ticket : InPlay(t)}
      /\ Missing = {t \in issued : ~InPlay(t) /\ \A c \in Client : t \notin delivered[c]}
      /\ issued \subseteq Ticket
  BY Abstraction DEF Abstracted
<1>2. /\ Pending' = {t \in Ticket : InPlay(t)'}
      /\ Missing' = {t \in issued' : ~InPlay(t)' /\ \A c \in Client : t \notin delivered'[c]}
  <2>1. Abstracted'
    BY Abstraction, PTL
  <2>. QED  BY <2>1 DEF Abstracted
<1>3. \A t \in L : t \in issued /\ \A c \in Client : t \notin delivered[c]
  <2>1. ASSUME NEW t \in L PROVE t \in issued /\ \A c \in Client : t \notin delivered[c]
    <3>1. PICK kind, a, b : kind # "delivered" /\ Copy(t, kind, a, b)
      BY DEF InPlay
    <3>2. \A c \in Client : t \in delivered[c] => Copy(t, "delivered", c, 0)
      BY DEF Copy
    <3>. QED  BY <3>1, <3>2 DEF IInv, Unique, Somewhere
  <2>. QED  BY <2>1
<1>4. Missing' = Missing \union L
  BY <1>1, <1>2, <1>3
<1>5. Pending' = Pending \ L /\ L \subseteq Pending
  BY <1>1, <1>2
<1>. QED  BY <1>4, <1>5

LEMMA Mapped ==
  ASSUME IInv, IInv', Next
  PROVE  [Delivery!Next]_(Delivery!deliveryVars)
<1> DEFINE left == {c \in Client : pc[c] # "serving"}
<1>0. TypeOK
  BY DEF IInv, Based
<1>1. ASSUME NEW t \in Ticket, Issue(t) PROVE Delivery!Create(t)
  <2>1. /\ t \notin issued /\ issued' = issued \union {t}
        /\ UNCHANGED <<delivered, client_type, pc>>
    BY <1>1 DEF Issue, taskVars
  <2>2. \A x \in Ticket : InPlay(x)' <=> InPlay(x) \/ x = t
    BY <1>1, IssueStep
  <2>3. /\ Pending = {x \in Ticket : InPlay(x)}
        /\ Missing = {x \in issued : ~InPlay(x) /\ \A c \in Client : x \notin delivered[c]}
        /\ issued \subseteq Ticket
    BY Abstraction DEF Abstracted
  <2>4. /\ Pending' = {x \in Ticket : InPlay(x)'}
        /\ Missing' = {x \in issued' : ~InPlay(x)' /\ \A c \in Client : x \notin delivered'[c]}
    <3>1. Abstracted'
      BY Abstraction, PTL
    <3>. QED  BY <3>1 DEF Abstracted
  <2>5. t \notin Pending \union Missing /\ \A c \in Client : t \notin delivered[c]
    <3>1. \A c \in Client : t \in delivered[c] => Copy(t, "delivered", c, 0)
      BY DEF Copy
    <3>. QED  BY <2>1, <3>1 DEF IInv, Somewhere, Pending, Missing
  <2>6. Pending' = Pending \union {t}
    BY <2>2, <2>3, <2>4
  <2>7. Missing' = Missing
    BY <2>1, <2>2, <2>3, <2>4
  <2>. QED  BY <2>1, <2>5, <2>6, <2>7 DEF Delivery!Create, Pending, Missing
<1>2. ASSUME NEW c \in Client, NEW roads \in SUBSET Road, IAmDispatcher(c, roads)
      PROVE  Delivery!Register(c, roads)
  <2>1. /\ pc[c] = "serving" /\ client_type[c] = {}
        /\ client_type' = [client_type EXCEPT ![c] = roads]
        /\ UNCHANGED <<issued, delivered, pc>>
    BY <1>2 DEF IAmDispatcher, queueVars
  <2>2. Kept
    BY <1>2, QuietStep
  <2>3. Pending' = Pending /\ Missing' = Missing
    <3>1. /\ Pending' = Pending \ {} /\ Missing' = Missing \union {}
      BY <2>1, <2>2, SomeGone DEF Kept
    <3>. QED  BY <3>1
  <2>. QED  BY <2>1, <2>3 DEF Delivery!Register, Pending, Missing
<1>3. ASSUME NEW c \in Client,
             \/ WantHeartBeat(c) \/ Drained(c) \/ Disconnect(c) \/ Tick(c) \/ Take(c) \/ Drain(c)
             \/ \E r \in Road : Receive(c, r) \/ Send(c, r) \/ SendFails(c, r)
      PROVE  UNCHANGED Delivery!deliveryVars
  <2>1. Kept
    BY <1>3, QuietStep, TickStep, TakeStep, DrainStep, ReceiveStep, SendStep, SendFailsStep
  <2>2. UNCHANGED <<issued, delivered, client_type>>
    BY <1>3 DEF WantHeartBeat, Drained, Disconnect, Tick, Take, Drain, Receive, Send, SendFails,
                queueVars, taskVars
  <2>3. left' = left
    <3>1. \A d \in Client : pc'[d] # "serving" <=> pc[d] # "serving"
      BY <1>0, <1>3 DEF WantHeartBeat, Drained, Disconnect, Tick, Take, Drain, Receive, Send, SendFails,
                        TypeOK
    <3>. QED  BY <3>1
  <2>4. Pending' = Pending /\ Missing' = Missing
    <3>1. /\ Pending' = Pending \ {} /\ Missing' = Missing \union {}
      BY <2>1, <2>2, SomeGone DEF Kept
    <3>. QED  BY <3>1
  <2>. QED  BY <2>2, <2>3, <2>4 DEF Delivery!deliveryVars, Pending, Missing
<1>4. ASSUME NEW c \in Client, Write(c)
      PROVE  UNCHANGED Delivery!deliveryVars \/ \E t \in Ticket : Delivery!Deliver(c, t)
  <2>1. /\ pc[c] = "serving" /\ writing[c] # Nothing
        /\ delivered' = IF writing[c] \in Ticket
                        THEN [delivered EXCEPT ![c] = @ \union {writing[c]}] ELSE delivered
        /\ UNCHANGED <<issued, client_type, pc>>
    BY <1>4 DEF Write, queueVars, taskVars
  <2>2. \A x \in Ticket : InPlay(x)' <=> InPlay(x) /\ x # writing[c]
    BY <1>4, WriteStep
  <2>3. CASE writing[c] \notin Ticket
    <3>1. Pending' = Pending \ {} /\ Missing' = Missing \union {}
      BY <2>1, <2>2, <2>3, SomeGone
    <3>2. Pending' = Pending /\ Missing' = Missing
      BY <3>1
    <3>. QED  BY <2>1, <2>3, <3>2 DEF Delivery!deliveryVars, Pending, Missing
  <2>4. ASSUME NEW t \in Ticket, t = writing[c] PROVE Delivery!Deliver(c, t)
    <3>1. /\ Pending = {x \in Ticket : InPlay(x)}
          /\ Missing = {x \in issued : ~InPlay(x) /\ \A d \in Client : x \notin delivered[d]}
          /\ issued \subseteq Ticket
      BY Abstraction DEF Abstracted
    <3>2. /\ Pending' = {x \in Ticket : InPlay(x)'}
          /\ Missing' = {x \in issued' : ~InPlay(x)' /\ \A d \in Client : x \notin delivered'[d]}
      <4>1. Abstracted'
        BY Abstraction, PTL
      <4>. QED  BY <4>1 DEF Abstracted
    <3>3. InPlay(t) /\ RoadOf[t] \in client_type[c]
      <4>1. Copy(t, "writing", c, 0)
        BY <2>4 DEF Copy
      <4>. QED  BY <2>4, <4>1 DEF InPlay, IInv, Based, TicketsOnRoad, OnRoad
    <3>4. /\ delivered' = [delivered EXCEPT ![c] = @ \union {t}] /\ t \in delivered'[c]
          /\ \A d \in Client, x \in Ticket : x # t => (x \in delivered'[d] <=> x \in delivered[d])
      BY <1>0, <2>1, <2>4 DEF TypeOK
    <3>5. Pending' = Pending \ {t} /\ t \in Pending
      BY <2>2, <2>4, <3>1, <3>2, <3>3
    <3>6. Missing' = Missing
      BY <2>1, <2>2, <2>4, <3>1, <3>2, <3>3, <3>4
    <3>. QED  BY <2>1, <3>3, <3>4, <3>5, <3>6 DEF Delivery!Deliver, Pending, Missing
  <2>. QED  BY <2>3, <2>4
<1>5. ASSUME NEW c \in Client, NEW L \in SUBSET Ticket, \A t \in L : InPlay(t) /\ RoadOf[t] \in client_type[c],
             \A t \in Ticket : InPlay(t)' <=> InPlay(t) /\ t \notin L,
             UNCHANGED <<issued, delivered, client_type>>,
             pc'[c] # "serving",
             \A d \in Client : d # c => pc'[d] = pc[d]
      PROVE  Delivery!Leave(c, L)
  <2>1. Pending' = Pending \ L /\ Missing' = Missing \union L /\ L \subseteq Pending
    BY <1>5, SomeGone
  <2>2. left' = left \union {c}
    BY <1>5
  <2>. QED  BY <1>5, <2>1, <2>2 DEF Delivery!Leave, Pending, Missing
<1>6. ASSUME NEW c \in Client, WriteFails(c) \/ ReaderEnds(c)
      PROVE  \E L \in SUBSET Ticket : Delivery!Leave(c, L)
  <2>1. \A x \in Ticket : InPlay(x)' <=> InPlay(x) /\ x # writing[c]
    BY <1>6, EndsStep
  <2>2. /\ UNCHANGED <<issued, delivered, client_type>>
        /\ pc'[c] # "serving" /\ \A d \in Client : d # c => pc'[d] = pc[d]
    BY <1>0, <1>6 DEF WriteFails, ReaderEnds, queueVars, taskVars, TypeOK
  <2>3. ASSUME NEW t \in Ticket, t = writing[c] PROVE InPlay(t) /\ RoadOf[t] \in client_type[c]
    <3>1. Copy(t, "writing", c, 0)
      BY <2>3 DEF Copy
    <3>. QED  BY <2>3, <3>1 DEF InPlay, IInv, Based, TicketsOnRoad, OnRoad
  <2>4. ASSUME NEW L, L = {t \in Ticket : t = writing[c]} PROVE Delivery!Leave(c, L)
    <3>1. \A t \in Ticket : t \in L <=> t = writing[c]
      BY <2>4
    <3>2. L \in SUBSET Ticket
      BY <2>4
    <3>. QED  BY <1>5, <2>1, <2>2, <2>3, <3>1, <3>2
  <2>. QED  BY <2>4
<1>7. ASSUME NEW c \in Client, Closed(c)
      PROVE  \E L \in SUBSET Ticket : Delivery!Leave(c, L)
  <2>1. \A x \in Ticket : InPlay(x)' <=> InPlay(x) /\ x \notin {events[c][i] : i \in DOMAIN events[c]}
    BY <1>7, ClosedStep
  <2>2. /\ UNCHANGED <<issued, delivered, client_type>>
        /\ pc'[c] # "serving" /\ \A d \in Client : d # c => pc'[d] = pc[d]
    BY <1>0, <1>7 DEF Closed, queueVars, TypeOK
  <2>3. ASSUME NEW i \in DOMAIN events[c], events[c][i] \in Ticket
        PROVE  InPlay(events[c][i]) /\ RoadOf[events[c][i]] \in client_type[c]
    <3>1. Copy(events[c][i], "channel", c, i)
      BY DEF Copy
    <3>. QED  BY <2>3, <3>1 DEF InPlay, IInv, Based, TicketsOnRoad, OnRoad
  <2>4. ASSUME NEW L, L = {t \in Ticket : \E i \in DOMAIN events[c] : t = events[c][i]}
        PROVE  Delivery!Leave(c, L)
    <3>1. \A t \in Ticket : t \in L <=> t \in {events[c][i] : i \in DOMAIN events[c]}
      BY <2>4
    <3>2. L \in SUBSET Ticket /\ \A t \in L : InPlay(t) /\ RoadOf[t] \in client_type[c]
      BY <2>3, <2>4
    <3>. QED  BY <1>5, <2>1, <2>2, <3>1, <3>2
  <2>. QED  BY <2>4
<1>. QED  BY <1>1, <1>2, <1>3, <1>4, <1>6, <1>7 DEF Next, Delivery!Next

(* The tasks deliver tickets as TicketDelivery promises: each at most      *)
(* once, to a dispatcher of its road, and lost only with one that leaves.  *)
THEOREM DeliveryImplemented == Spec => ImplementsDelivery
<1>1. Init => Delivery!Init
  <2> SUFFICES ASSUME Init PROVE Delivery!Init
    OBVIOUS
  <2>1. issued = {} /\ Pending = {} /\ Missing = {}
    BY DEF Init, Pending, Missing
  <2>2. {c \in Client : pc[c] # "serving"} = {}
    BY DEF Init
  <2>. QED  BY <2>1, <2>2 DEF Init, Delivery!Init, Pending, Missing
<1>2. IInv /\ IInv' /\ [Next]_vars => [Delivery!Next]_(Delivery!deliveryVars)
  <2> SUFFICES ASSUME IInv, IInv', [Next]_vars PROVE [Delivery!Next]_(Delivery!deliveryVars)
    OBVIOUS
  <2>1. CASE Next
    BY <2>1, Mapped
  <2>2. CASE UNCHANGED vars
    <3>1. UNCHANGED <<ticket_queues, issued, client_type, hand, events, writing, pc, delivered>>
      BY <2>2 DEF vars, queueVars, taskVars
    <3>. QED  BY <3>1 DEF Delivery!deliveryVars, Settled, Lost, Copies, InQueue, InHand, InChannel,
                        Taken, Delivered
  <2>. QED  BY <2>1, <2>2
<1>. QED  BY <1>1, <1>2, Invariant, PTL DEF Spec, ImplementsDelivery, Delivery!Spec
=============================================================================
