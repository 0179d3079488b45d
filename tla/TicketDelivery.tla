--------------------------- MODULE TicketDelivery ---------------------------
(***************************************************************************)
(* What the speed limit server of problem 6 promises of its tickets,       *)
(* without queues, channels and tasks: a ticket is delivered at most once, *)
(* to a dispatcher of its road; and it is lost only with a dispatcher of   *)
(* its road that leaves.  TicketDispatch implements this specification.    *)
(***************************************************************************)
CONSTANTS Client, Road, Ticket, RoadOf

VARIABLES
  pending,    \* tickets created, and neither delivered nor lost
  received,   \* per client, the tickets delivered to it
  lost,       \* tickets nobody will receive
  roads,      \* the roads each client is a dispatcher for
  left        \* clients that have left

deliveryVars == <<pending, received, lost, roads, left>>

Init ==
  /\ pending = {} /\ lost = {}
  /\ received = [c \in Client |-> {}]
  /\ roads = [c \in Client |-> {}]
  /\ left = {}

(* A ticket is created once. *)
Create(t) ==
  /\ t \notin pending \union lost
  /\ \A c \in Client : t \notin received[c]
  /\ pending' = pending \union {t}
  /\ UNCHANGED <<received, lost, roads, left>>

Register(c, S) ==
  /\ c \notin left /\ roads[c] = {}
  /\ roads' = [roads EXCEPT ![c] = S]
  /\ UNCHANGED <<pending, received, lost, left>>

Deliver(c, t) ==
  /\ t \in pending /\ RoadOf[t] \in roads[c] /\ c \notin left
  /\ pending' = pending \ {t}
  /\ received' = [received EXCEPT ![c] = @ \union {t}]
  /\ UNCHANGED <<lost, roads, left>>

(* A dispatcher leaves, or has left, and tickets L of its roads with it. *)
Leave(c, L) ==
  /\ \A t \in L : t \in pending /\ RoadOf[t] \in roads[c]
  /\ left' = left \union {c}
  /\ pending' = pending \ L
  /\ lost' = lost \union L
  /\ UNCHANGED <<received, roads>>

Next ==
  \/ \E t \in Ticket : Create(t)
  \/ \E c \in Client :
       \/ \E S \in SUBSET Road : Register(c, S)
       \/ \E t \in Ticket : Deliver(c, t)
       \/ \E L \in SUBSET Ticket : Leave(c, L)

Spec == Init /\ [][Next]_deliveryVars
=============================================================================
