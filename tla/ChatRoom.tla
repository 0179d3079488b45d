------------------------------ MODULE ChatRoom ------------------------------
(***************************************************************************)
(* Problem 3, a chat room (src/src/p3_chat.rs).  The users are in a map    *)
(* behind a mutex; what happens is announced on a broadcast channel.       *)
(*                                                                         *)
(* A join is three steps: the task adds its user and copies the list of    *)
(* the others under the lock, announces the user, and only then subscribes *)
(* to the channel.  A departure is two: the task removes its user, then    *)
(* announces it.  The tasks of other users run in between.                 *)
(*                                                                         *)
(* The channel is the log of all events, of which it keeps the last        *)
(* Capacity; a task that falls further behind ends its session.  A client  *)
(* stands for the name of its user as well.                                *)
(***************************************************************************)
EXTENDS Naturals, Sequences, FiniteSets, Functions

CONSTANTS
  Client,
  MaxMessages, \* bound: the chat messages that are sent
  Capacity,    \* of the broadcast channel, 128 in the code
  NoEvent

ASSUME CapacityAssumption == Capacity \in Nat \ {0}
ASSUME BoundAssumption == MaxMessages \in Nat

VARIABLES
  users,       \* Room.users: from ids to clients
  total_users, \* Room.total_users
  id,          \* per client, the id of its user
  log,         \* the events sent into the broadcast channel
  pc,          \* per client, where its task is
  roster,      \* per client, the users it was sent when it joined
  listed_at,   \* per client, how long the log was when the list was copied
  joined_at,   \* per client, how long it was when the task subscribed
  position,    \* per client, how far it has read the log
  writing,     \* per client, the event its task writes to the peer
  heard,       \* per client, the events written to the peer
  up           \* per client, whether its peer is there

roomVars == <<users, total_users, id>>
joinVars == <<roster, listed_at, joined_at>>
hearVars == <<position, writing, heard>>
vars == <<roomVars, log, pc, joinVars, hearVars, up>>

EventType == {"joined", "message", "left"}
RoomEvent == [user : Client, type : EventType]
Event(c, type) == [user |-> c, type |-> type]

ASSUME NoEventAssumption == NoEvent \notin RoomEvent

TaskState == {"naming", "announcing", "subscribing", "listening", "removing", "leaving", "ended"}
Joining == {"announcing", "subscribing", "listening"}
Inside == Joining \union {"removing"}

TypeOK ==
  /\ total_users \in Nat
  /\ DOMAIN users \subseteq 0..(total_users - 1) /\ Range(users) \subseteq Client
  /\ id \in [Client -> Nat]
  /\ log \in Seq(RoomEvent)
  /\ pc \in [Client -> TaskState]
  /\ roster \in [Client -> SUBSET Client]
  /\ listed_at \in [Client -> Nat] /\ joined_at \in [Client -> Nat]
  /\ position \in [Client -> Nat]
  /\ writing \in [Client -> RoomEvent \union {NoEvent}]
  /\ heard \in [Client -> Seq(RoomEvent)]
  /\ up \in [Client -> BOOLEAN]

Init ==
  /\ users = << >> /\ total_users = 0
  /\ id = [c \in Client |-> 0]
  /\ log = << >>
  /\ pc = [c \in Client |-> "naming"]
  /\ roster = [c \in Client |-> {}]
  /\ listed_at = [c \in Client |-> 0] /\ joined_at = [c \in Client |-> 0]
  /\ position = [c \in Client |-> 0]
  /\ writing = [c \in Client |-> NoEvent]
  /\ heard = [c \in Client |-> << >>]
  /\ up = [c \in Client |-> TRUE]

-----------------------------------------------------------------------------
Goto(c, place) == pc' = [pc EXCEPT ![c] = place]

AddUser(key, c) == users' = [k \in DOMAIN users \union {key} |-> IF k = key THEN c ELSE users[k]]

(* Mutant: ids are counted from the users that are present. *)
EnterReusesId(c) ==
  /\ pc[c] = "naming"
  /\ Goto(c, "announcing")
  /\ roster' = [roster EXCEPT ![c] = Range(users)]
  /\ listed_at' = [listed_at EXCEPT ![c] = Len(log)]
  /\ id' = [id EXCEPT ![c] = Cardinality(DOMAIN users)]
  /\ AddUser(Cardinality(DOMAIN users), c)
  /\ total_users' = total_users + 1
  /\ UNCHANGED <<log, joined_at, hearVars, up>>

(* Mutant: the list is not copied under the lock that adds the user. *)
EnterUnlisted(c) ==
  /\ pc[c] = "naming"
  /\ Goto(c, "announcing")
  /\ \E d \in Client : roster' = [roster EXCEPT ![c] = Range(users) \ {d}]
  /\ listed_at' = [listed_at EXCEPT ![c] = Len(log)]
  /\ id' = [id EXCEPT ![c] = total_users]
  /\ AddUser(total_users, c)
  /\ total_users' = total_users + 1
  /\ UNCHANGED <<log, joined_at, hearVars, up>>

(* Under the lock, the users are listed and the client becomes one. *)
Enter(c) ==
  /\ pc[c] = "naming"
  /\ Goto(c, "announcing")
  /\ roster' = [roster EXCEPT ![c] = Range(users)]
  /\ listed_at' = [listed_at EXCEPT ![c] = Len(log)]
  /\ id' = [id EXCEPT ![c] = total_users]
  /\ AddUser(total_users, c)
  /\ total_users' = total_users + 1
  /\ UNCHANGED <<log, joined_at, hearVars, up>>

(* The name is not valid, or the peer is gone before it gave one. *)
Refuse(c) ==
  /\ pc[c] = "naming"
  /\ Goto(c, "ended")
  /\ UNCHANGED <<roomVars, log, joinVars, hearVars, up>>

Announce(c) ==
  /\ pc[c] = "announcing"
  /\ Goto(c, "subscribing")
  /\ log' = Append(log, Event(c, "joined"))
  /\ UNCHANGED <<roomVars, joinVars, hearVars, up>>

(* The list is written, or fails to be, and the task subscribes. *)
Subscribe(c) ==
  /\ pc[c] = "subscribing"
  /\ Goto(c, "listening")
  /\ joined_at' = [joined_at EXCEPT ![c] = Len(log)]
  /\ position' = [position EXCEPT ![c] = Len(log)]
  /\ UNCHANGED <<roomVars, log, roster, listed_at, writing, heard, up>>

-----------------------------------------------------------------------------
(* The two halves of a session. *)

Says(c) ==
  /\ pc[c] = "listening"
  /\ Cardinality({i \in DOMAIN log : log[i].type = "message"}) < MaxMessages
  /\ log' = Append(log, Event(c, "message"))
  /\ UNCHANGED <<roomVars, pc, joinVars, hearVars, up>>

(* Events that the channel still keeps and this task has not yet read. *)
Lagged(c) == Len(log) - position[c] > Capacity

(* Mutant: a task that lags goes on with the oldest event that is kept. *)
HearsOldest(c) ==
  /\ pc[c] = "listening"
  /\ writing[c] = NoEvent /\ position[c] < Len(log)
  /\ LET next == IF Lagged(c) THEN Len(log) - Capacity + 1 ELSE position[c] + 1 IN
     /\ position' = [position EXCEPT ![c] = next]
     /\ writing' = [writing EXCEPT ![c] = IF log[next].user = c THEN NoEvent ELSE log[next]]
  /\ UNCHANGED <<roomVars, log, pc, joinVars, heard, up>>

(* inform_user receives the next event; those of its own user are skipped. *)
Hears(c) ==
  /\ pc[c] = "listening"
  /\ writing[c] = NoEvent /\ position[c] < Len(log) /\ ~Lagged(c)
  /\ LET next == position[c] + 1 IN
     /\ position' = [position EXCEPT ![c] = next]
     /\ writing' = [writing EXCEPT ![c] = IF log[next].user = c THEN NoEvent ELSE log[next]]
  /\ UNCHANGED <<roomVars, log, pc, joinVars, heard, up>>

Write(c) ==
  /\ pc[c] = "listening"
  /\ writing[c] # NoEvent
  /\ heard' = [heard EXCEPT ![c] = Append(@, writing[c])]
  /\ writing' = [writing EXCEPT ![c] = NoEvent]
  /\ UNCHANGED <<roomVars, log, pc, joinVars, position, up>>

(* Either half ends, which cancels the other: nothing can be read or       *)
(* written any more, or the task lags.  What belongs to the session is     *)
(* dropped.                                                                *)
SessionEnds(c) ==
  /\ pc[c] = "listening"
  /\ ~up[c] \/ (writing[c] = NoEvent /\ Lagged(c))
  /\ Goto(c, "removing")
  /\ roster' = [roster EXCEPT ![c] = {}]
  /\ listed_at' = [listed_at EXCEPT ![c] = 0] /\ joined_at' = [joined_at EXCEPT ![c] = 0]
  /\ position' = [position EXCEPT ![c] = 0]
  /\ writing' = [writing EXCEPT ![c] = NoEvent]
  /\ heard' = [heard EXCEPT ![c] = << >>]
  /\ UNCHANGED <<roomVars, log, up>>

(* remove_user unwraps: the id must be in the map. *)
Remove(c) ==
  /\ pc[c] = "removing"
  /\ id[c] \in DOMAIN users
  /\ Goto(c, "leaving")
  /\ users' = Restrict(users, DOMAIN users \ {id[c]})
  /\ UNCHANGED <<total_users, id, log, joinVars, hearVars, up>>

(* Mutant: the departure is not announced. *)
LeaveSilently(c) ==
  /\ pc[c] = "leaving"
  /\ Goto(c, "ended")
  /\ UNCHANGED <<roomVars, log, joinVars, hearVars, up>>

Leave(c) ==
  /\ pc[c] = "leaving"
  /\ Goto(c, "ended")
  /\ log' = Append(log, Event(c, "left"))
  /\ UNCHANGED <<roomVars, joinVars, hearVars, up>>

(* The peer goes away.  A task that joins does not notice (the list that   *)
(* it cannot write is ignored), so that this can wait until it listens.    *)
HangUp(c) ==
  /\ pc[c] = "listening" /\ up[c]
  /\ up' = [up EXCEPT ![c] = FALSE]
  /\ UNCHANGED <<roomVars, log, pc, joinVars, hearVars>>

Next ==
  \E c \in Client :
    \/ Enter(c) \/ Refuse(c) \/ Announce(c) \/ Subscribe(c)
    \/ Says(c) \/ Hears(c) \/ Write(c)
    \/ SessionEnds(c) \/ Remove(c) \/ Leave(c) \/ HangUp(c)

Spec == Init /\ [][Next]_vars

-----------------------------------------------------------------------------
(* From Enter to Remove a user is in the map under its own id, and nobody  *)
(* else is: the unwrap in remove_user, which would leave the room's list   *)
(* wrong for ever, never fails.                                            *)
MembersListed ==
  /\ \A c \in Client : pc[c] \in Inside => id[c] \in DOMAIN users /\ users[id[c]] = c
  /\ \A k \in DOMAIN users : pc[users[k]] \in Inside /\ id[users[k]] = k

(* Of two users that are in the room, the later one was sent the name of   *)
(* the earlier one, even when they joined at the same time.  (The earlier  *)
(* may miss the later one: see QuietJoinIsExact.)                          *)
LaterKnowsEarlier ==
  \A c, d \in Client :
    pc[c] \in Inside /\ pc[d] \in Joining /\ id[c] < id[d] => c \in roster[d]

(* What the task of c received and passes on: what its peer was sent, and  *)
(* the event that it writes.                                               *)
Relayed(c) == heard[c] \o (IF writing[c] = NoEvent THEN << >> ELSE <<writing[c]>>)

(* The events of others that it received, by their places in the log. *)
OthersAt(c) == {i \in (joined_at[c] + 1)..position[c] : log[i].user # c}

(* What the peer hears are the events of the others, all of them and in    *)
(* order, from its subscription on: a slow peer does not miss events, it   *)
(* is disconnected.                                                        *)
HeardInOrder ==
  \A c \in Client : pc[c] = "listening" =>
    /\ Len(Relayed(c)) = Cardinality(OthersAt(c))
    /\ \A i \in OthersAt(c) :
         Relayed(c)[Cardinality({j \in OthersAt(c) : j <= i})] = log[i]

(* The users a peer takes to be in the room, from what it was sent. *)
Known(c) ==
  {d \in Client \ {c} :
     LET news == {i \in DOMAIN heard[c] : heard[c][i].user = d /\ heard[c][i].type # "message"}
     IN IF news = {} THEN d \in roster[c]
        ELSE \E i \in news : heard[c][i].type = "joined" /\ \A j \in news : j <= i}

UpToDate(c) ==
  pc[c] = "listening" /\ writing[c] = NoEvent /\ position[c] = Len(log)

(* No user joined or left between the list and the subscription of c. *)
Quiet(c) ==
  \A i \in (listed_at[c] + 1)..joined_at[c] : log[i].user = c \/ log[i].type = "message"

(* A peer that has heard everything, and during whose join nobody else     *)
(* joined or left, knows exactly the users of the room as soon as nobody   *)
(* is on the way in or out.                                                *)
QuietJoinIsExact ==
  \A c \in Client :
    /\ UpToDate(c) /\ Quiet(c)
    /\ \A d \in Client : pc[d] \in {"naming", "listening", "ended"}
    => Known(c) = Range(users) \ {c}
=============================================================================
