--------------------------- MODULE ChatRoomProofs ---------------------------
(***************************************************************************)
(* Proofs about ChatRoom, for any clients, messages and capacity.  The     *)
(* inductive invariant IInv is the conjunction of the type invariant, of   *)
(* MembersListed and of LaterKnowsEarlier: a new user is listed under an   *)
(* id that no present user has because all of theirs are below total_users,*)
(* and it is sent the name of every present user because these are in the  *)
(* map.                                                                    *)
(*                                                                         *)
(* What a peer hears rests on two more invariants.  Following relates what *)
(* one task relayed to the part of the log it has read.  Told and Rostered *)
(* relate the log, and the list a task was sent, to where the tasks of the *)
(* other users are: a user whose place is not the one that its last event  *)
(* or the list says has an event in the log that is still to be heard.     *)
(***************************************************************************)
EXTENDS ChatRoom, FiniteSetTheorems, SequenceTheorems, WellFoundedInduction, TLAPS

IInv == TypeOK /\ MembersListed /\ LaterKnowsEarlier

LEMMA InitInv == Init => IInv
  BY DEF Init, IInv, TypeOK, MembersListed, LaterKnowsEarlier, TaskState, Inside, Joining, Range

(* The types, by action. *)
LEMMA TypeStep ==
  ASSUME TypeOK, [Next]_vars
  PROVE  TypeOK'
<1> USE DEF TypeOK, roomVars, joinVars, hearVars, Goto, TaskState
<1>e. \A c \in Client, type \in EventType : Event(c, type) \in RoomEvent
  BY DEF Event, RoomEvent
<1>1. CASE UNCHANGED vars
  BY <1>1 DEF vars
<1>2. ASSUME NEW c \in Client, Enter(c)
      PROVE  TypeOK'
  <2>1. DOMAIN users' = DOMAIN users \union {total_users} /\ Range(users') \subseteq Client
    BY ZenonT(60), <1>2 DEF Enter, AddUser, Range
  <2>2. DOMAIN users' \subseteq 0..(total_users' - 1)
    BY <1>2, <2>1 DEF Enter
  <2> QED BY <1>2, <2>1, <2>2 DEF Enter, Range
<1>3. ASSUME NEW c \in Client, Refuse(c)
      PROVE  TypeOK'
  BY <1>3 DEF Refuse
<1>4. ASSUME NEW c \in Client, Announce(c)
      PROVE  TypeOK'
  BY SMTT(30), <1>4, <1>e DEF Announce, EventType
<1>5. ASSUME NEW c \in Client, Subscribe(c)
      PROVE  TypeOK'
  BY <1>5 DEF Subscribe
<1>6. ASSUME NEW c \in Client, Says(c)
      PROVE  TypeOK'
  BY SMTT(30), <1>6, <1>e DEF Says, EventType
<1>7. ASSUME NEW c \in Client, Hears(c)
      PROVE  TypeOK'
  <2>1. position[c] + 1 \in 1..Len(log)
    BY <1>7 DEF Hears
  <2>2. /\ position' = [position EXCEPT ![c] = position[c] + 1]
        /\ writing' = [writing EXCEPT ![c] = IF log[position[c] + 1].user = c
                                            THEN NoEvent ELSE log[position[c] + 1]]
        /\ UNCHANGED <<users, total_users, id, log, pc, roster, listed_at, joined_at, heard, up>>
    BY <1>7 DEF Hears
  <2>3. log[position[c] + 1] \in RoomEvent
    BY <2>1
  <2>4. position' \in [Client -> Nat]
    BY <2>2
  <2>5. writing' \in [Client -> RoomEvent \union {NoEvent}]
    BY <2>2, <2>3
  <2> QED BY <2>2, <2>4, <2>5
<1>8. ASSUME NEW c \in Client, Write(c)
      PROVE  TypeOK'
  BY <1>8 DEF Write
<1>9. ASSUME NEW c \in Client, SessionEnds(c)
      PROVE  TypeOK'
  BY <1>9 DEF SessionEnds
<1>10. ASSUME NEW c \in Client, Remove(c)
       PROVE  TypeOK'
  BY <1>10 DEF Remove, Restrict, Range
<1>11. ASSUME NEW c \in Client, Leave(c)
       PROVE  TypeOK'
  BY SMTT(30), <1>11, <1>e DEF Leave, EventType
<1>12. ASSUME NEW c \in Client, HangUp(c)
       PROVE  TypeOK'
  BY <1>12 DEF HangUp
<1> QED
  BY <1>1, <1>2, <1>3, <1>4, <1>5, <1>6, <1>7, <1>8, <1>9, <1>10, <1>11, <1>12 DEF Next

(* Only Enter and Remove change the map; the steps of a session move a     *)
(* task within Inside.                                                     *)
LEMMA ListedStep ==
  ASSUME TypeOK, MembersListed, [Next]_vars
  PROVE  MembersListed'
<1> USE DEF TypeOK, MembersListed, Inside, Joining, TaskState, Goto
<1>1. ASSUME NEW c \in Client, Enter(c)
      PROVE  MembersListed'
  <2>1. /\ users' = [k \in DOMAIN users \union {total_users} |-> IF k = total_users THEN c ELSE users[k]]
        /\ id' = [id EXCEPT ![c] = total_users]
        /\ pc' = [pc EXCEPT ![c] = "announcing"]
        /\ total_users \notin DOMAIN users
    BY <1>1 DEF Enter, AddUser
  <2>2. pc[c] \notin Inside
    BY <1>1 DEF Enter
  <2>3. ASSUME NEW d \in Client, pc'[d] \in Inside
        PROVE  id'[d] \in DOMAIN users' /\ users'[id'[d]] = d
    BY <2>1, <2>3
  <2>4. ASSUME NEW k \in DOMAIN users'
        PROVE  pc'[users'[k]] \in Inside /\ id'[users'[k]] = k
    <3>1. CASE k = total_users
      BY <2>1, <3>1
    <3>2. CASE k \in DOMAIN users
      <4>1. users[k] # c /\ users[k] \in Client
        BY <2>2, <3>2 DEF Range
      <4> QED BY <2>1, <3>2, <4>1
    <3> QED BY <2>1, <3>1, <3>2
  <2> QED BY <2>3, <2>4
<1>2. ASSUME NEW c \in Client, Remove(c)
      PROVE  MembersListed'
  <2>1. /\ users' = [k \in DOMAIN users \ {id[c]} |-> users[k]]
        /\ id' = id
        /\ pc' = [pc EXCEPT ![c] = "leaving"]
        /\ users[id[c]] = c
    BY <1>2 DEF Remove, Restrict, roomVars
  <2>2. ASSUME NEW d \in Client, pc'[d] \in Inside
        PROVE  id'[d] \in DOMAIN users' /\ users'[id'[d]] = d
    <3>1. d # c /\ pc[d] \in Inside
      BY <2>1, <2>2
    <3>2. id[d] # id[c]
      BY <2>1, <3>1
    <3> QED BY <2>1, <3>1, <3>2
  <2>3. ASSUME NEW k \in DOMAIN users'
        PROVE  pc'[users'[k]] \in Inside /\ id'[users'[k]] = k
    <3>1. k \in DOMAIN users /\ k # id[c] /\ users[k] \in Client
      BY <2>1 DEF Range
    <3>2. users[k] # c
      BY <3>1
    <3> QED BY <2>1, <3>1, <3>2
  <2> QED BY <2>2, <2>3
<1>3. ASSUME UNCHANGED <<users, id>>,
             \A d \in Client : pc'[d] \in Inside <=> pc[d] \in Inside
      PROVE  MembersListed'
  BY <1>3 DEF Range
<1>4. \/ \E c \in Client : Enter(c) \/ Remove(c)
      \/ /\ UNCHANGED <<users, id>>
         /\ \A d \in Client : pc'[d] \in Inside <=> pc[d] \in Inside
  <2>1. ASSUME NEW c \in Client, Refuse(c) \/ Leave(c)
        PROVE  /\ UNCHANGED <<users, id>>
               /\ \A d \in Client : pc'[d] \in Inside <=> pc[d] \in Inside
    BY SMTT(30), <2>1 DEF Refuse, Leave, roomVars
  <2>2. ASSUME NEW c \in Client, Announce(c) \/ Subscribe(c) \/ SessionEnds(c)
        PROVE  /\ UNCHANGED <<users, id>>
               /\ \A d \in Client : pc'[d] \in Inside <=> pc[d] \in Inside
    BY SMTT(30), <2>2 DEF Announce, Subscribe, SessionEnds, roomVars
  <2>3. ASSUME NEW c \in Client, Says(c) \/ Hears(c) \/ Write(c) \/ HangUp(c)
        PROVE  UNCHANGED <<users, id, pc>>
    BY <2>3 DEF Says, Hears, Write, HangUp, roomVars
  <2> QED BY <2>1, <2>2, <2>3 DEF Next, vars, roomVars
<1> QED BY <1>1, <1>2, <1>3, <1>4

LEMMA KnownStep ==
  ASSUME TypeOK, MembersListed, LaterKnowsEarlier, [Next]_vars
  PROVE  LaterKnowsEarlier'
<1> USE DEF TypeOK, LaterKnowsEarlier, Inside, Joining, TaskState, Goto
<1>1. ASSUME NEW c \in Client, Enter(c)
      PROVE  LaterKnowsEarlier'
  <2>1. /\ roster' = [roster EXCEPT ![c] = Range(users)]
        /\ id' = [id EXCEPT ![c] = total_users]
        /\ pc' = [pc EXCEPT ![c] = "announcing"]
    BY <1>1 DEF Enter
  <2>2. ASSUME NEW a \in Client, NEW b \in Client,
               pc'[a] \in Inside, pc'[b] \in Joining, id'[a] < id'[b]
        PROVE  a \in roster'[b]
    <3>1. CASE b = c
      <4>1. a # c /\ pc[a] \in Inside
        BY <2>1, <2>2, <3>1
      <4>2. id[a] \in DOMAIN users /\ users[id[a]] = a
        BY <4>1 DEF MembersListed
      <4> QED BY <2>1, <3>1, <4>2 DEF Range
    <3>2. CASE a = c /\ b # c
      <4>1. id[b] \in DOMAIN users
        BY <2>1, <2>2, <3>2 DEF MembersListed
      <4> QED BY <2>1, <2>2, <3>2, <4>1
    <3>3. CASE a # c /\ b # c
      BY <2>1, <2>2, <3>3
    <3> QED BY <3>1, <3>2, <3>3
  <2> QED BY <2>2
<1>2. ASSUME NEW c \in Client, SessionEnds(c)
      PROVE  LaterKnowsEarlier'
  BY <1>2 DEF SessionEnds, roomVars
<1>3. ASSUME UNCHANGED <<id, roster>>,
             \A d \in Client : /\ pc'[d] \in Inside => pc[d] \in Inside
                               /\ pc'[d] \in Joining => pc[d] \in Joining
      PROVE  LaterKnowsEarlier'
  BY <1>3
<1>4. \/ \E c \in Client : Enter(c) \/ SessionEnds(c)
      \/ /\ UNCHANGED <<id, roster>>
         /\ \A d \in Client : /\ pc'[d] \in Inside => pc[d] \in Inside
                              /\ pc'[d] \in Joining => pc[d] \in Joining
  BY ZenonT(60) DEF Next, vars, roomVars, joinVars, Refuse, Announce, Subscribe, Says, Hears, Write, Remove,
         Leave, HangUp
<1> QED BY <1>1, <1>2, <1>3, <1>4

THEOREM Invariance == Spec => []IInv
<1>1. Init => IInv
  BY InitInv
<1>2. IInv /\ [Next]_vars => IInv'
  BY TypeStep, ListedStep, KnownStep DEF IInv
<1> QED BY <1>1, <1>2, PTL DEF Spec

(* Type correctness of the chat room. *)
THEOREM TypeCorrect == Spec => []TypeOK
<1>1. IInv => TypeOK
  BY DEF IInv
<1> QED BY <1>1, Invariance, PTL

(* remove_user always finds the user it removes, and no other one: a user  *)
(* is in the map from its Enter to its Remove.                             *)
THEOREM RoomListed == Spec => []MembersListed
<1>1. IInv => MembersListed
  BY DEF IInv
<1> QED BY <1>1, Invariance, PTL

(* Of two users in the room the later one was sent the earlier one's name, *)
(* however their joins overlap.                                            *)
THEOREM LaterKnows == Spec => []LaterKnowsEarlier
<1>1. IInv => LaterKnowsEarlier
  BY DEF IInv
<1> QED BY <1>1, Invariance, PTL

-----------------------------------------------------------------------------
(* What a peer hears. *)

(* How many elements of S are not above i. *)
Rank(i, S) == Cardinality({k \in S : k <= i})

(* A number above those of a set ranks last. *)
LEMMA RankAdded ==
  ASSUME NEW S \in SUBSET Nat, IsFiniteSet(S), NEW n \in Nat, \A i \in S : i < n
  PROVE  /\ Cardinality(S \union {n}) = Cardinality(S) + 1
         /\ Cardinality(S) \in Nat
         /\ Rank(n, S \union {n}) = Cardinality(S) + 1
         /\ \A i \in S : Rank(i, S \union {n}) = Rank(i, S)
<1>1. n \notin S
  OBVIOUS
<1>2. Cardinality(S \union {n}) = Cardinality(S) + 1 /\ Cardinality(S) \in Nat
  BY <1>1, FS_AddElement, FS_CardinalityType
<1>3. {k \in S \union {n} : k <= n} = S \union {n}
  <2>1. \A k \in S \union {n} : k <= n
    OBVIOUS
  <2> QED BY <2>1
<1>4. ASSUME NEW i \in S
      PROVE  {k \in S \union {n} : k <= i} = {k \in S : k <= i}
  OBVIOUS
<1> QED BY <1>2, <1>3, <1>4 DEF Rank

(* A rank is between 1 and the size of the set. *)
LEMMA RankBounds ==
  ASSUME NEW S \in SUBSET Nat, IsFiniteSet(S), NEW i \in S
  PROVE  Rank(i, S) \in 1..Cardinality(S)
<1> DEFINE upto == {k \in S : k <= i}
<1>1. upto \subseteq S /\ i \in upto
  OBVIOUS
<1> HIDE DEF upto
<1>2. IsFiniteSet(upto) /\ Cardinality(upto) \in Nat /\ Cardinality(S) \in Nat
      /\ Cardinality(upto) <= Cardinality(S)
  BY <1>1, FS_Subset, FS_CardinalityType
<1>3. Cardinality(upto) # 0
  BY <1>1, <1>2, FS_EmptySet
<1> QED BY <1>2, <1>3 DEF Rank, upto

(* Ranks are in the order of the elements. *)
LEMMA RankOrdered ==
  ASSUME NEW S \in SUBSET Nat, IsFiniteSet(S), NEW i \in S, NEW j \in S, i < j
  PROVE  Rank(i, S) \in Nat /\ Rank(j, S) \in Nat /\ Rank(i, S) < Rank(j, S)
<1> DEFINE below == {k \in S : k <= i}
           upto == {k \in S : k <= j}
<1>1. IsFiniteSet(below) /\ IsFiniteSet(upto) /\ below \subseteq upto
  <2>1. below \subseteq S /\ upto \subseteq S
    OBVIOUS
  <2>2. below \subseteq upto
    <3>1. \A k \in S : k <= i => k <= j
      OBVIOUS
    <3> QED BY <3>1
  <2> HIDE DEF below, upto
  <2> QED BY <2>1, <2>2, FS_Subset
<1>2. below # upto
  <2>1. j \in upto /\ j \notin below
    OBVIOUS
  <2> QED BY <2>1
<1> HIDE DEF below, upto
<1>3. /\ Cardinality(below) \in Nat /\ Cardinality(upto) \in Nat
      /\ Cardinality(below) <= Cardinality(upto)
      /\ Cardinality(below) = Cardinality(upto) => below = upto
  BY <1>1, FS_Subset, FS_CardinalityType
<1>4. Cardinality(below) < Cardinality(upto)
  BY <1>2, <1>3
<1> QED BY <1>3, <1>4 DEF Rank, below, upto

(* The task of c has read the log as far as its position, and relayed the  *)
(* events of others one by one; outside of a session it keeps nothing.     *)
Following(c) ==
  IF pc[c] = "listening"
  THEN /\ joined_at[c] <= position[c] /\ position[c] <= Len(log)
       /\ Len(Relayed(c)) = Cardinality(OthersAt(c))
       /\ \A i \in OthersAt(c) : Relayed(c)[Rank(i, OthersAt(c))] = log[i]
       /\ \A k \in 1..Len(Relayed(c)) : \E i \in OthersAt(c) : k = Rank(i, OthersAt(c))
  ELSE heard[c] = << >> /\ writing[c] = NoEvent

LEMMA OthersFinite ==
  ASSUME TypeOK, NEW c \in Client
  PROVE  OthersAt(c) \in SUBSET Nat /\ IsFiniteSet(OthersAt(c))
<1>1. joined_at[c] + 1 \in Int /\ position[c] \in Int
  BY DEF TypeOK
<1>2. IsFiniteSet((joined_at[c] + 1)..position[c])
  BY <1>1, FS_Interval
<1>3. OthersAt(c) \subseteq (joined_at[c] + 1)..position[c]
  BY DEF OthersAt
<1>4. (joined_at[c] + 1)..position[c] \subseteq Nat
  BY DEF TypeOK
<1> QED BY <1>2, <1>3, <1>4, FS_Subset

(* The log only grows. *)
LEMMA LogGrows ==
  ASSUME TypeOK, [Next]_vars
  PROVE  /\ Len(log) \in Nat /\ Len(log') \in Nat /\ Len(log) <= Len(log')
         /\ \A i \in 1..Len(log) : log'[i] = log[i]
<1>e. \A c \in Client, type \in EventType : Event(c, type) \in RoomEvent
  BY DEF Event, RoomEvent
<1>1. \/ log' = log
      \/ \E e \in RoomEvent : log' = Append(log, e)
  BY <1>e DEF Next, vars, roomVars, Enter, Refuse, Announce, Subscribe, Says, Hears, Write,
              SessionEnds, Remove, Leave, HangUp, EventType
<1>2. log \in Seq(RoomEvent)
  BY DEF TypeOK
<1>3. ASSUME NEW e \in RoomEvent
      PROVE  /\ Len(Append(log, e)) = Len(log) + 1 /\ Len(log) \in Nat
             /\ \A i \in 1..Len(log) : Append(log, e)[i] = log[i]
  BY <1>2
<1> QED BY <1>1, <1>2, <1>3

(* What a task that does not move has relayed stays right. *)
LEMMA FollowingKept ==
  ASSUME TypeOK, [Next]_vars, NEW c \in Client, Following(c),
         pc'[c] = pc[c], joined_at'[c] = joined_at[c], position'[c] = position[c],
         Relayed(c)' = Relayed(c),
         pc[c] # "listening" => heard'[c] = heard[c] /\ writing'[c] = writing[c]
  PROVE  Following(c)'
<1>1. CASE pc[c] # "listening"
  BY <1>1 DEF Following
<1>2. CASE pc[c] = "listening"
  <2>1. joined_at[c] <= position[c] /\ position[c] <= Len(log)
    BY <1>2 DEF Following
  <2>2. /\ joined_at[c] \in Nat /\ position[c] \in Nat
        /\ Len(log) \in Nat /\ Len(log') \in Nat /\ Len(log) <= Len(log')
    BY LogGrows DEF TypeOK
  <2>3. position[c] <= Len(log')
    BY <2>1, <2>2
  <2>4. \A i \in (joined_at[c] + 1)..position[c] : log'[i] = log[i]
    <3>1. \A i \in (joined_at[c] + 1)..position[c] : i \in 1..Len(log)
      BY <2>1, <2>2
    <3> QED BY <3>1, LogGrows
  <2>5. OthersAt(c)' = OthersAt(c) /\ \A i \in OthersAt(c) : log'[i] = log[i]
    BY <2>4 DEF OthersAt
  <2>6. \A i \in OthersAt(c)' : Relayed(c)'[Rank(i, OthersAt(c)')] = log'[i]
    BY <1>2, <2>5 DEF Following
  <2>7. \A k \in 1..Len(Relayed(c)') : \E i \in OthersAt(c)' : k = Rank(i, OthersAt(c)')
    BY <1>2, <2>5 DEF Following
  <2>8. Len(Relayed(c)') = Cardinality(OthersAt(c)')
    BY <1>2, <2>5 DEF Following
  <2>9. pc'[c] = "listening" /\ joined_at'[c] <= position'[c] /\ position'[c] <= Len(log')
    BY <1>2, <2>1, <2>3
  <2> QED BY <2>6, <2>7, <2>8, <2>9 DEF Following
<1> QED BY <1>1, <1>2

LEMMA FollowingSubscribe ==
  ASSUME TypeOK, NEW c \in Client, Following(c), Subscribe(c)
  PROVE  Following(c)'
<1>1. /\ pc'[c] = "listening" /\ joined_at'[c] = Len(log) /\ position'[c] = Len(log)
      /\ heard'[c] = << >> /\ writing'[c] = NoEvent /\ log' = log
  BY DEF Subscribe, Goto, TypeOK, Following
<1>2. Len(log) \in Nat
  BY DEF TypeOK
<1>3. OthersAt(c)' = {}
  BY <1>1, <1>2 DEF OthersAt
<1>4. Relayed(c)' = << >>
  BY <1>1 DEF Relayed
<1>5. Cardinality({}) = 0
  BY FS_EmptySet
<1>6. Len(Relayed(c)') = 0
  BY <1>4
<1> QED BY <1>1, <1>2, <1>3, <1>5, <1>6 DEF Following

LEMMA FollowingHears ==
  ASSUME TypeOK, NEW c \in Client, Following(c), Hears(c)
  PROVE  Following(c)'
<1> DEFINE next == position[c] + 1
           others == OthersAt(c)
<1>1. /\ pc[c] = "listening" /\ pc' = pc /\ joined_at' = joined_at /\ log' = log /\ heard' = heard
      /\ position[c] < Len(log) /\ writing[c] = NoEvent
      /\ position'[c] = next
      /\ writing'[c] = IF log[next].user = c THEN NoEvent ELSE log[next]
  <2>1. /\ pc[c] = "listening" /\ pc' = pc /\ joined_at' = joined_at /\ log' = log
        /\ heard' = heard /\ position[c] < Len(log) /\ writing[c] = NoEvent
        /\ position' = [position EXCEPT ![c] = next]
        /\ writing' = [writing EXCEPT ![c] = IF log[next].user = c THEN NoEvent ELSE log[next]]
    BY DEF Hears, roomVars, joinVars
  <2>2. c \in DOMAIN position /\ c \in DOMAIN writing
    BY DEF TypeOK
  <2> HIDE DEF next
  <2> QED BY <2>1, <2>2
<1>2. /\ joined_at[c] \in Nat /\ position[c] \in Nat /\ Len(log) \in Nat
      /\ joined_at[c] <= position[c]
      /\ log \in Seq(RoomEvent) /\ heard[c] \in Seq(RoomEvent)
  BY <1>1 DEF TypeOK, Following
<1>3. /\ joined_at[c] <= next /\ next <= Len(log) /\ next \in Nat /\ next \in 1..Len(log)
      /\ (joined_at[c] + 1)..next = ((joined_at[c] + 1)..position[c]) \union {next}
  BY <1>1, <1>2
<1>4. OthersAt(c)' = IF log[next].user = c THEN others ELSE others \union {next}
  BY <1>1, <1>3 DEF OthersAt
<1>5. Relayed(c) = heard[c]
  BY <1>1, <1>2 DEF Relayed
<1>6. /\ Len(heard[c]) = Cardinality(others)
      /\ \A i \in others : heard[c][Rank(i, others)] = log[i]
      /\ \A k \in 1..Len(heard[c]) : \E i \in others : k = Rank(i, others)
  BY <1>1, <1>5 DEF Following
<1>7. CASE log[next].user = c
  <2>1. Relayed(c)' = heard[c]
    BY <1>1, <1>2, <1>7 DEF Relayed
  <2> QED BY <1>1, <1>3, <1>4, <1>6, <1>7, <2>1 DEF Following
<1>8. CASE log[next].user # c
  <2>1. log[next] \in RoomEvent /\ log[next] # NoEvent
    BY <1>2, <1>3, NoEventAssumption
  <2>2. Relayed(c)' = heard[c] \o <<log[next]>>
    BY <1>1, <1>8, <2>1 DEF Relayed
  <2>3. /\ Len(Relayed(c)') = Len(heard[c]) + 1
        /\ \A k \in 1..Len(heard[c]) : Relayed(c)'[k] = heard[c][k]
        /\ Relayed(c)'[Len(heard[c]) + 1] = log[next]
    BY <1>2, <2>1, <2>2
  <2>4. others \in SUBSET Nat /\ IsFiniteSet(others)
    BY OthersFinite
  <2>5. \A i \in others : i < next
    BY <1>2 DEF OthersAt
  <2> DEFINE more == others \union {next}
  <2>6. OthersAt(c)' = more
    BY <1>4, <1>8
  <2>7. /\ Cardinality(more) = Cardinality(others) + 1 /\ Cardinality(others) \in Nat
        /\ Rank(next, more) = Cardinality(others) + 1
        /\ \A i \in others : Rank(i, more) = Rank(i, others)
    BY <1>3, <2>4, <2>5, RankAdded
  <2>8. \A i \in others : Rank(i, others) \in 1..Len(heard[c])
    BY <1>6, <2>4, RankBounds
  <2> HIDE DEF more, next, others
  <2>9. ASSUME NEW i \in more
        PROVE  Relayed(c)'[Rank(i, more)] = log[i]
    <3>1. CASE i = next
      BY <1>6, <2>3, <2>7, <3>1
    <3>2. CASE i \in others
      BY <1>6, <2>3, <2>7, <2>8, <3>2
    <3> QED BY <2>9, <3>1, <3>2 DEF more
  <2>10. ASSUME NEW k \in 1..Len(Relayed(c)')
         PROVE  \E i \in more : k = Rank(i, more)
    <3>1. CASE k = Cardinality(others) + 1
      BY <2>7, <3>1 DEF more
    <3>2. CASE k \in 1..Len(heard[c])
      BY <1>6, <2>7, <3>2 DEF more
    <3> QED BY <1>6, <2>3, <2>7, <2>10, <3>1, <3>2
  <2>11. Len(Relayed(c)') = Cardinality(more)
    BY <1>6, <2>3, <2>7
  <2>12. pc'[c] = "listening" /\ joined_at'[c] <= position'[c] /\ position'[c] <= Len(log')
    BY <1>1, <1>3
  <2> QED BY <1>1, <2>6, <2>9, <2>10, <2>11, <2>12 DEF Following
<1> QED BY <1>7, <1>8

LEMMA FollowingWrite ==
  ASSUME TypeOK, [Next]_vars, NEW c \in Client, Following(c), Write(c)
  PROVE  Following(c)'
<1>1. /\ pc[c] = "listening" /\ pc' = pc /\ joined_at' = joined_at /\ position' = position
      /\ writing[c] # NoEvent
      /\ heard' = [heard EXCEPT ![c] = Append(heard[c], writing[c])]
      /\ writing' = [writing EXCEPT ![c] = NoEvent]
  BY DEF Write, joinVars
<1>2. heard[c] \in Seq(RoomEvent) /\ writing[c] \in RoomEvent
  BY <1>1 DEF TypeOK
<1>3. heard'[c] = Append(heard[c], writing[c]) /\ writing'[c] = NoEvent
  BY <1>1 DEF TypeOK
<1>4. Append(heard[c], writing[c]) \o << >> = heard[c] \o <<writing[c]>>
  BY <1>2
<1>5. Relayed(c)' = Relayed(c)
  BY <1>1, <1>3, <1>4 DEF Relayed
<1> QED BY <1>1, <1>5, FollowingKept

LEMMA FollowingEnds ==
  ASSUME TypeOK, NEW c \in Client, SessionEnds(c)
  PROVE  Following(c)'
<1>1. /\ pc' = [pc EXCEPT ![c] = "removing"]
      /\ heard' = [heard EXCEPT ![c] = << >>]
      /\ writing' = [writing EXCEPT ![c] = NoEvent]
  BY DEF SessionEnds, Goto
<1>2. pc'[c] = "removing" /\ heard'[c] = << >> /\ writing'[c] = NoEvent
  BY <1>1 DEF TypeOK
<1> QED BY <1>2 DEF Following

(* The steps of other tasks, and those that leave the session alone. *)
LEMMA FollowingStep ==
  ASSUME TypeOK, [Next]_vars, \A c \in Client : Following(c)
  PROVE  \A c \in Client : Following(c)'
<1> SUFFICES ASSUME NEW c \in Client
             PROVE  Following(c)'
  OBVIOUS
<1>1. CASE Subscribe(c) \/ Hears(c) \/ Write(c) \/ SessionEnds(c)
  BY <1>1, FollowingSubscribe, FollowingHears, FollowingWrite, FollowingEnds
<1>2. CASE ~(Subscribe(c) \/ Hears(c) \/ Write(c) \/ SessionEnds(c))
  <2> DEFINE kept == /\ joined_at'[c] = joined_at[c] /\ position'[c] = position[c]
                     /\ heard'[c] = heard[c] /\ writing'[c] = writing[c]
  <2>1. kept
    <3>1. ASSUME NEW d \in Client, Enter(d) \/ Refuse(d) \/ Announce(d) \/ Says(d)
                                   \/ Remove(d) \/ Leave(d) \/ HangUp(d)
          PROVE  UNCHANGED <<joined_at, position, heard, writing>>
      BY <3>1 DEF Enter, Refuse, Announce, Says, Remove, Leave, HangUp, joinVars, hearVars
    <3>2. ASSUME NEW d \in Client, d # c, Subscribe(d) \/ Hears(d) \/ Write(d) \/ SessionEnds(d)
          PROVE  kept
      <4>1. CASE Subscribe(d)
        BY <3>2, <4>1 DEF Subscribe, TypeOK
      <4>2. CASE Hears(d)
        BY <3>2, <4>2 DEF Hears, TypeOK, joinVars
      <4>3. CASE Write(d)
        BY <3>2, <4>3 DEF Write, TypeOK, joinVars
      <4>4. CASE SessionEnds(d)
        BY <3>2, <4>4 DEF SessionEnds, TypeOK
      <4> QED BY <3>2, <4>1, <4>2, <4>3, <4>4
    <3>3. CASE UNCHANGED vars
      BY <3>3 DEF vars, joinVars, hearVars
    <3> QED BY <1>2, <3>1, <3>2, <3>3 DEF Next
  <2>2. Relayed(c)' = Relayed(c)
    BY <2>1 DEF Relayed
  <2>3. CASE pc'[c] = pc[c]
    BY <2>1, <2>2, <2>3, FollowingKept
  <2>4. CASE pc'[c] # pc[c]
    <3>1. ASSUME NEW d \in Client, Enter(d) \/ Refuse(d) \/ Announce(d) \/ Remove(d) \/ Leave(d)
          PROVE  /\ pc[d] # "listening" /\ pc'[d] # "listening"
                 /\ \A a \in Client : a # d => pc'[a] = pc[a]
      BY <3>1 DEF Enter, Refuse, Announce, Remove, Leave, Goto, TypeOK
    <3>2. ASSUME NEW d \in Client, Says(d) \/ Hears(d) \/ Write(d) \/ HangUp(d)
          PROVE  pc' = pc
      BY <3>2 DEF Says, Hears, Write, HangUp
    <3>3. ASSUME NEW d \in Client, Subscribe(d) \/ SessionEnds(d), c # d
          PROVE  pc'[c] = pc[c]
      BY <3>3 DEF Subscribe, SessionEnds, Goto, TypeOK
    <3>4. UNCHANGED vars => pc' = pc
      BY DEF vars
    <3>5. pc[c] # "listening" /\ pc'[c] # "listening"
      BY <1>2, <2>4, <3>1, <3>2, <3>3, <3>4 DEF Next
    <3> QED BY <2>1, <3>5 DEF Following
  <2> QED BY <2>3, <2>4
<1> QED BY <1>1, <1>2

THEOREM Followed == Spec => [](\A c \in Client : Following(c))
<1>1. Init => \A c \in Client : Following(c)
  BY DEF Init, Following
<1>2. TypeOK /\ (\A c \in Client : Following(c)) /\ [Next]_vars => (\A c \in Client : Following(c))'
  BY FollowingStep
<1> QED BY <1>1, <1>2, TypeCorrect, PTL DEF Spec

(* A peer hears the events of the others, all of them and in order: after  *)
(* inform_user has skipped or relayed an event it is at the next place of  *)
(* the log, and a task that lags ends.                                     *)
THEOREM HeardAllInOrder == Spec => []HeardInOrder
<1>1. (\A c \in Client : Following(c)) => HeardInOrder
  BY DEF Following, HeardInOrder, Rank
<1> QED BY <1>1, Followed, PTL

-----------------------------------------------------------------------------
(* What a peer knows. *)

JoinedAt(d) == {i \in DOMAIN log : log[i] = Event(d, "joined")}
LeftAt(d) == {i \in DOMAIN log : log[i] = Event(d, "left")}

(* What the log says of a user, and where its task is. *)
Told(d) ==
  /\ JoinedAt(d) # {} => pc[d] \notin {"naming", "announcing"}
  /\ LeftAt(d) # {} => pc[d] = "ended"
  /\ pc[d] = "ended" /\ JoinedAt(d) # {} => LeftAt(d) # {}
  /\ \A i \in JoinedAt(d), j \in LeftAt(d) : i < j

(* What the list that c was sent says of a user d, what the log says of it *)
(* from then on, and where its task is.                                    *)
Rostered(c, d) ==
  pc[c] \in Joining =>
    /\ listed_at[c] <= Len(log)
    /\ d \in roster[c] /\ pc[d] \in {"naming", "ended"} =>
         \E i \in LeftAt(d) : i > listed_at[c]
    /\ d \notin roster[c] /\ pc[d] \in {"subscribing", "listening", "removing"} =>
         \E i \in JoinedAt(d) : i > listed_at[c]

(* An event that is added to the log. *)
LEMMA AtAppend ==
  ASSUME TypeOK, NEW e \in RoomEvent, log' = Append(log, e), NEW d \in Client
  PROVE  /\ JoinedAt(d)' = JoinedAt(d) \union IF e = Event(d, "joined") THEN {Len(log) + 1} ELSE {}
         /\ LeftAt(d)' = LeftAt(d) \union IF e = Event(d, "left") THEN {Len(log) + 1} ELSE {}
         /\ Len(log') = Len(log) + 1
<1>1. log \in Seq(RoomEvent)
  BY DEF TypeOK
<1>2. /\ DOMAIN log' = (DOMAIN log) \union {Len(log) + 1} /\ Len(log') = Len(log) + 1
      /\ \A i \in DOMAIN log : log'[i] = log[i]
      /\ log'[Len(log) + 1] = e
      /\ Len(log) + 1 \notin DOMAIN log
  BY <1>1
<1>3. JoinedAt(d)' = JoinedAt(d) \union IF e = Event(d, "joined") THEN {Len(log) + 1} ELSE {}
  BY <1>2 DEF JoinedAt
<1>4. LeftAt(d)' = LeftAt(d) \union IF e = Event(d, "left") THEN {Len(log) + 1} ELSE {}
  BY <1>2 DEF LeftAt
<1> QED BY <1>2, <1>3, <1>4

LEMMA EventsDiffer ==
  ASSUME NEW c, NEW d, NEW s, NEW t
  PROVE  Event(c, s) = Event(d, t) <=> c = d /\ s = t
BY DEF Event

(* The places of the joins and departures are places of the log. *)
LEMMA AtInLog ==
  ASSUME TypeOK, NEW d \in Client
  PROVE  /\ Len(log) \in Nat
         /\ \A i \in JoinedAt(d) \union LeftAt(d) : i \in Nat /\ i <= Len(log)
BY DEF JoinedAt, LeftAt, TypeOK

(* The steps by what they do to the log, the tasks and the lists. *)
LEMMA TellingStep ==
  ASSUME TypeOK, [Next]_vars
  PROVE  \/ \E c \in Client : Enter(c)
         \/ \E c \in Client : Announce(c)
         \/ \E c \in Client : Leave(c)
         \/ \E c \in Client : SessionEnds(c)
         \/ /\ \/ log' = log
               \/ \E c \in Client : log' = Append(log, Event(c, "message"))
            /\ UNCHANGED <<roster, listed_at>>
            /\ \/ pc' = pc
               \/ \E c \in Client :
                    /\ \/ pc[c] = "naming" /\ pc' = [pc EXCEPT ![c] = "ended"]
                       \/ pc[c] = "subscribing" /\ pc' = [pc EXCEPT ![c] = "listening"]
                       \/ pc[c] = "removing" /\ pc' = [pc EXCEPT ![c] = "leaving"]
<1>1. ASSUME NEW c \in Client, Refuse(c)
      PROVE  /\ pc[c] = "naming" /\ pc' = [pc EXCEPT ![c] = "ended"]
             /\ UNCHANGED <<log, roster, listed_at>>
  BY <1>1 DEF Refuse, Goto, joinVars
<1>2. ASSUME NEW c \in Client, Subscribe(c)
      PROVE  /\ pc[c] = "subscribing" /\ pc' = [pc EXCEPT ![c] = "listening"]
             /\ UNCHANGED <<log, roster, listed_at>>
  BY <1>2 DEF Subscribe, Goto
<1>3. ASSUME NEW c \in Client, Remove(c)
      PROVE  /\ pc[c] = "removing" /\ pc' = [pc EXCEPT ![c] = "leaving"]
             /\ UNCHANGED <<log, roster, listed_at>>
  BY <1>3 DEF Remove, Goto, joinVars
<1>4. ASSUME NEW c \in Client, Says(c)
      PROVE  /\ log' = Append(log, Event(c, "message"))
             /\ UNCHANGED <<pc, roster, listed_at>>
  BY <1>4 DEF Says, joinVars
<1>5. ASSUME NEW c \in Client, Hears(c) \/ Write(c) \/ HangUp(c)
      PROVE  UNCHANGED <<log, pc, roster, listed_at>>
  BY <1>5 DEF Hears, Write, HangUp, joinVars
<1>6. UNCHANGED vars => UNCHANGED <<log, pc, roster, listed_at>>
  BY DEF vars, joinVars
<1> QED BY <1>1, <1>2, <1>3, <1>4, <1>5, <1>6 DEF Next

LEMMA ToldStep ==
  ASSUME TypeOK, [Next]_vars, \A d \in Client : Told(d)
  PROVE  \A d \in Client : Told(d)'
<1> SUFFICES ASSUME NEW d \in Client
             PROVE  Told(d)'
  OBVIOUS
<1>e. \A c \in Client, type \in EventType : Event(c, type) \in RoomEvent
  BY DEF Event, RoomEvent
<1>t. pc \in [Client -> TaskState]
  BY DEF TypeOK
<1>k. /\ JoinedAt(d) # {} => pc[d] \notin {"naming", "announcing"}
      /\ LeftAt(d) # {} => pc[d] = "ended"
      /\ pc[d] = "ended" /\ JoinedAt(d) # {} => LeftAt(d) # {}
      /\ \A i \in JoinedAt(d), j \in LeftAt(d) : i < j
  BY DEF Told
<1>1. ASSUME JoinedAt(d)' = JoinedAt(d), LeftAt(d)' = LeftAt(d),
             \/ pc'[d] = pc[d]
             \/ pc[d] = "naming"
             \/ pc'[d] \notin {"naming", "announcing", "ended"} /\ pc[d] # "ended"
                /\ pc[d] \notin {"naming", "announcing"}
      PROVE  Told(d)'
  BY <1>1, <1>k DEF Told
<1>2. ASSUME NEW c \in Client, Enter(c)
      PROVE  Told(d)'
  <2>1. log' = log /\ pc[c] = "naming" /\ pc' = [pc EXCEPT ![c] = "announcing"]
    BY <1>2 DEF Enter, Goto
  <2> QED BY <1>1, <2>1, <1>t DEF JoinedAt, LeftAt
<1>3. ASSUME NEW c \in Client, Announce(c)
      PROVE  Told(d)'
  <2>1. /\ log' = Append(log, Event(c, "joined"))
        /\ pc[c] = "announcing" /\ pc' = [pc EXCEPT ![c] = "subscribing"]
    BY <1>3 DEF Announce, Goto
  <2>2. /\ JoinedAt(d)' = JoinedAt(d) \union IF c = d THEN {Len(log) + 1} ELSE {}
        /\ LeftAt(d)' = LeftAt(d)
    <3>1. Event(c, "joined") \in RoomEvent
      BY <1>e DEF EventType
    <3>2. (Event(c, "joined") = Event(d, "joined") <=> c = d) /\ Event(c, "joined") # Event(d, "left")
      BY EventsDiffer
    <3> QED BY <2>1, <3>1, <3>2, AtAppend
  <2>3. CASE c = d
    BY <1>k, <1>t, <2>1, <2>2, <2>3 DEF Told
  <2> QED BY <1>1, <1>t, <2>1, <2>2, <2>3
<1>4. ASSUME NEW c \in Client, Leave(c)
      PROVE  Told(d)'
  <2>1. /\ log' = Append(log, Event(c, "left"))
        /\ pc[c] = "leaving" /\ pc' = [pc EXCEPT ![c] = "ended"]
    BY <1>4 DEF Leave, Goto
  <2>2. /\ LeftAt(d)' = LeftAt(d) \union IF c = d THEN {Len(log) + 1} ELSE {}
        /\ JoinedAt(d)' = JoinedAt(d)
    <3>1. Event(c, "left") \in RoomEvent
      BY <1>e DEF EventType
    <3>2. (Event(c, "left") = Event(d, "left") <=> c = d) /\ Event(c, "left") # Event(d, "joined")
      BY EventsDiffer
    <3> QED BY <2>1, <3>1, <3>2, AtAppend
  <2>3. CASE c = d
    <3>1. LeftAt(d) = {} /\ \A i \in JoinedAt(d) : i < Len(log) + 1
      BY <1>k, <2>1, <2>3, AtInLog
    <3> QED BY <1>k, <1>t, <2>1, <2>2, <2>3, <3>1 DEF Told
  <2> QED BY <1>1, <1>t, <2>1, <2>2, <2>3
<1>5. ASSUME NEW c \in Client, SessionEnds(c)
      PROVE  Told(d)'
  <2>1. log' = log /\ pc[c] = "listening" /\ pc' = [pc EXCEPT ![c] = "removing"]
    BY <1>5 DEF SessionEnds, Goto
  <2> QED BY <1>1, <2>1, <1>t DEF JoinedAt, LeftAt
<1>6. ASSUME log' = log \/ \E c \in Client : log' = Append(log, Event(c, "message"))
      PROVE  JoinedAt(d)' = JoinedAt(d) /\ LeftAt(d)' = LeftAt(d)
  <2>1. CASE log' = log
    BY <2>1 DEF JoinedAt, LeftAt
  <2>2. ASSUME NEW c \in Client, log' = Append(log, Event(c, "message"))
        PROVE  JoinedAt(d)' = JoinedAt(d) /\ LeftAt(d)' = LeftAt(d)
    <3>1. Event(c, "message") \in RoomEvent
      BY <1>e DEF EventType
    <3>2. Event(c, "message") # Event(d, "joined") /\ Event(c, "message") # Event(d, "left")
      BY EventsDiffer
    <3> QED BY <2>2, <3>1, <3>2, AtAppend
  <2> QED BY <1>6, <2>1, <2>2
<1>7. ASSUME \/ pc' = pc
             \/ \E c \in Client :
                  /\ \/ pc[c] = "naming" /\ pc' = [pc EXCEPT ![c] = "ended"]
                     \/ pc[c] = "subscribing" /\ pc' = [pc EXCEPT ![c] = "listening"]
                     \/ pc[c] = "removing" /\ pc' = [pc EXCEPT ![c] = "leaving"]
      PROVE  \/ pc'[d] = pc[d]
             \/ pc[d] = "naming"
             \/ pc'[d] \notin {"naming", "announcing", "ended"} /\ pc[d] # "ended"
                /\ pc[d] \notin {"naming", "announcing"}
  BY <1>7, <1>t
<1> QED BY <1>1, <1>2, <1>3, <1>4, <1>5, <1>6, <1>7, TellingStep

LEMMA RosteredStep ==
  ASSUME TypeOK, MembersListed, [Next]_vars,
         \A c, d \in Client : c # d => Rostered(c, d)
  PROVE  \A c, d \in Client : c # d => Rostered(c, d)'
<1> SUFFICES ASSUME NEW c \in Client, NEW d \in Client, c # d, pc'[c] \in Joining
             PROVE  Rostered(c, d)'
  BY DEF Rostered
<1>e. \A a \in Client, type \in EventType : Event(a, type) \in RoomEvent
  BY DEF Event, RoomEvent
<1>t. /\ pc \in [Client -> TaskState] /\ roster \in [Client -> SUBSET Client]
      /\ listed_at \in [Client -> Nat] /\ Len(log) \in Nat
  BY DEF TypeOK
<1>l. /\ Len(log') \in Nat /\ Len(log) <= Len(log')
      /\ JoinedAt(d) \subseteq JoinedAt(d)' /\ LeftAt(d) \subseteq LeftAt(d)'
  <2>1. /\ Len(log') \in Nat /\ Len(log) <= Len(log')
        /\ \A i \in 1..Len(log) : log'[i] = log[i]
    BY LogGrows
  <2>2. DOMAIN log = 1..Len(log) /\ DOMAIN log' = 1..Len(log')
    BY TypeStep DEF TypeOK
  <2>3. DOMAIN log \subseteq DOMAIN log'
    BY <1>t, <2>1, <2>2
  <2> QED BY <2>1, <2>2, <2>3 DEF JoinedAt, LeftAt
(* Nothing that the list is compared with changes. *)
<1>1. ASSUME pc[c] \in Joining, roster'[c] = roster[c], listed_at'[c] = listed_at[c],
             \/ pc'[d] = pc[d]
             \/ pc[d] = "naming" /\ pc'[d] \in {"announcing", "ended"}
             \/ pc[d] \in {"subscribing", "listening", "removing"}
                /\ pc'[d] \notin {"naming", "ended"}
      PROVE  Rostered(c, d)'
  <2>1. /\ listed_at[c] <= Len(log)
        /\ d \in roster[c] /\ pc[d] \in {"naming", "ended"} =>
             \E i \in LeftAt(d) : i > listed_at[c]
        /\ d \notin roster[c] /\ pc[d] \in {"subscribing", "listening", "removing"} =>
             \E i \in JoinedAt(d) : i > listed_at[c]
    BY <1>1 DEF Rostered
  <2>2. listed_at[c] <= Len(log')
    BY <1>t, <1>l, <2>1
  <2> QED BY <1>1, <1>l, <2>1, <2>2 DEF Rostered
<1>2. ASSUME NEW a \in Client, Enter(a)
      PROVE  Rostered(c, d)'
  <2>1. /\ log' = log /\ pc[a] = "naming" /\ pc' = [pc EXCEPT ![a] = "announcing"]
        /\ roster' = [roster EXCEPT ![a] = Range(users)]
        /\ listed_at' = [listed_at EXCEPT ![a] = Len(log)]
    BY <1>2 DEF Enter, Goto
  <2>2. CASE a = c
    <3>1. pc'[d] = pc[d] /\ roster'[c] = Range(users) /\ listed_at'[c] = Len(log')
      BY <1>t, <2>1, <2>2
    <3>2. d \in Range(users) <=> pc[d] \in Inside
      BY DEF MembersListed, Range
    <3> QED BY <1>l, <3>1, <3>2 DEF Rostered, Inside, Joining
  <2>3. CASE a # c
    BY <1>1, <1>t, <2>1, <2>3
  <2> QED BY <2>2, <2>3
<1>3. ASSUME NEW a \in Client, Announce(a)
      PROVE  Rostered(c, d)'
  <2>1. /\ log' = Append(log, Event(a, "joined"))
        /\ pc[a] = "announcing" /\ pc' = [pc EXCEPT ![a] = "subscribing"]
        /\ UNCHANGED <<roster, listed_at>>
    BY <1>3 DEF Announce, Goto, joinVars
  <2>2. pc[c] \in Joining
    BY <1>t, <2>1 DEF Joining
  <2>3. CASE a = d
    <3>1. Len(log) + 1 \in JoinedAt(d)' /\ Len(log') = Len(log) + 1
      BY <2>1, <2>3, <1>e, AtAppend DEF EventType
    <3>2. listed_at[c] <= Len(log)
      BY <2>2 DEF Rostered
    <3>3. Len(log) + 1 > listed_at[c] /\ listed_at[c] <= Len(log')
      BY <1>t, <3>1, <3>2
    <3>4. pc'[d] = "subscribing"
      BY <1>t, <2>1, <2>3
    <3> QED BY <2>1, <3>1, <3>3, <3>4 DEF Rostered
  <2>4. CASE a # d
    BY <1>1, <1>t, <2>1, <2>2, <2>4
  <2> QED BY <2>3, <2>4
<1>4. ASSUME NEW a \in Client, Leave(a)
      PROVE  Rostered(c, d)'
  <2>1. /\ log' = Append(log, Event(a, "left"))
        /\ pc[a] = "leaving" /\ pc' = [pc EXCEPT ![a] = "ended"]
        /\ UNCHANGED <<roster, listed_at>>
    BY <1>4 DEF Leave, Goto, joinVars
  <2>2. pc[c] \in Joining
    BY <1>t, <2>1 DEF Joining
  <2>3. CASE a = d
    <3>1. Len(log) + 1 \in LeftAt(d)' /\ Len(log') = Len(log) + 1
      BY <2>1, <2>3, <1>e, AtAppend DEF EventType
    <3>2. listed_at[c] <= Len(log)
      BY <2>2 DEF Rostered
    <3>3. Len(log) + 1 > listed_at[c] /\ listed_at[c] <= Len(log')
      BY <1>t, <3>1, <3>2
    <3>4. pc'[d] = "ended"
      BY <1>t, <2>1, <2>3
    <3> QED BY <2>1, <3>1, <3>3, <3>4 DEF Rostered
  <2>4. CASE a # d
    BY <1>1, <1>t, <2>1, <2>2, <2>4
  <2> QED BY <2>3, <2>4
<1>5. ASSUME NEW a \in Client, SessionEnds(a)
      PROVE  Rostered(c, d)'
  <2>1. /\ pc[a] = "listening" /\ pc' = [pc EXCEPT ![a] = "removing"]
        /\ roster' = [roster EXCEPT ![a] = {}] /\ listed_at' = [listed_at EXCEPT ![a] = 0]
    BY <1>5 DEF SessionEnds, Goto
  <2>2. a # c
    BY <1>t, <2>1 DEF Joining
  <2> QED BY <1>1, <1>t, <2>1, <2>2 DEF Joining
<1>6. ASSUME UNCHANGED <<roster, listed_at>>,
             \/ pc' = pc
             \/ \E a \in Client :
                  /\ \/ pc[a] = "naming" /\ pc' = [pc EXCEPT ![a] = "ended"]
                     \/ pc[a] = "subscribing" /\ pc' = [pc EXCEPT ![a] = "listening"]
                     \/ pc[a] = "removing" /\ pc' = [pc EXCEPT ![a] = "leaving"]
      PROVE  Rostered(c, d)'
  <2>1. pc[c] \in Joining
    BY <1>6, <1>t DEF Joining
  <2>2. \/ pc'[d] = pc[d]
        \/ pc[d] = "naming" /\ pc'[d] \in {"announcing", "ended"}
        \/ pc[d] \in {"subscribing", "listening", "removing"}
           /\ pc'[d] \notin {"naming", "ended"}
    BY <1>6, <1>t
  <2> QED BY <1>1, <1>6, <2>1, <2>2
<1> QED BY <1>2, <1>3, <1>4, <1>5, <1>6, TellingStep

THEOREM Announced ==
  Spec => []((\A d \in Client : Told(d)) /\ \A c, d \in Client : c # d => Rostered(c, d))
<1> DEFINE told == \A d \in Client : Told(d)
           rostered == \A c, d \in Client : c # d => Rostered(c, d)
<1>1. Init => told /\ rostered
  BY DEF Init, Told, Rostered, JoinedAt, LeftAt, Joining
<1>2. TypeOK /\ MembersListed /\ told /\ rostered /\ [Next]_vars => told' /\ rostered'
  BY ToldStep, RosteredStep
<1> HIDE DEF told, rostered
<1>3. Spec => [](told /\ rostered)
  BY <1>1, <1>2, TypeCorrect, RoomListed, PTL DEF Spec
<1> QED BY <1>3 DEF told, rostered

(* A set of numbers that has an element and a bound has a greatest element. *)
LEMMA GreatestNumber ==
  ASSUME NEW S \in SUBSET Nat, S # {}, NEW n \in Nat, \A i \in S : i <= n
  PROVE  \E k \in S : \A j \in S : j <= k
<1> DEFINE R == OpToRel(<, Nat)
           gaps == {g \in 0..n : n - g \in S}
<1>1. \A i, j \in Nat : i < j => <<i, j>> \in R
  BY DEF OpToRel
<1>2. IsWellFoundedOn(R, Nat)
  BY NatLessThanWellFounded
<1> HIDE DEF R
<1>3. gaps \subseteq Nat
  OBVIOUS
<1>4. gaps # {}
  <2>1. PICK i \in S : TRUE
    OBVIOUS
  <2>2. n - i \in 0..n /\ n - (n - i) = i
    OBVIOUS
  <2> QED BY <2>1, <2>2
<1>5. \E g \in gaps : \A h \in gaps : <<h, g>> \notin R
  BY <1>2, <1>3, <1>4, WFMin
<1>6. PICK g \in gaps : \A h \in gaps : <<h, g>> \notin R
  BY <1>5
<1>7. \A h \in gaps : h \in Nat /\ g \in Nat /\ ~(h < g)
  BY <1>1, <1>3, <1>6
<1>8. ASSUME NEW j \in S
      PROVE  j <= n - g
  <2>1. n - j \in 0..n /\ n - (n - j) = j
    OBVIOUS
  <2>2. n - j \in gaps
    BY <2>1
  <2> QED BY <1>7, <2>2
<1> QED BY <1>6, <1>8

(* The last event about a user that a peer has heard, when it is as recent *)
(* as the log, or else its list, says where the user's task is.            *)
LEMMA KnownExactly ==
  ASSUME TypeOK, MembersListed, NEW c \in Client, Following(c), UpToDate(c), Quiet(c),
         \A d \in Client : Told(d), \A d \in Client : c # d => Rostered(c, d),
         \A d \in Client : pc[d] \in {"naming", "listening", "ended"},
         NEW d \in Client, d # c
  PROVE  d \in Known(c) <=> d \in Range(users)
<1> DEFINE news == {k \in DOMAIN heard[c] : heard[c][k].user = d /\ heard[c][k].type # "message"}
           others == OthersAt(c)
<1>1. d \in Known(c) <=> IF news = {} THEN d \in roster[c]
                        ELSE \E k \in news : heard[c][k].type = "joined" /\ \A j \in news : j <= k
  BY DEF Known
<1>2. d \in Range(users) <=> pc[d] = "listening"
  BY DEF MembersListed, Range, Inside, Joining
<1>3. pc[c] = "listening" /\ writing[c] = NoEvent /\ position[c] = Len(log)
  BY DEF UpToDate
<1>4. /\ heard[c] \in Seq(RoomEvent) /\ log \in Seq(RoomEvent) /\ Len(log) \in Nat
      /\ joined_at[c] \in Nat /\ joined_at[c] <= Len(log) /\ listed_at[c] \in Nat
  BY <1>3 DEF TypeOK, Following
<1>5. Relayed(c) = heard[c]
  BY <1>3, <1>4 DEF Relayed
<1>6. /\ others \in SUBSET Nat /\ IsFiniteSet(others)
      /\ Len(heard[c]) = Cardinality(others)
      /\ \A i \in others : heard[c][Rank(i, others)] = log[i]
      /\ \A k \in DOMAIN heard[c] : \E i \in others : k = Rank(i, others)
  BY <1>3, <1>4, <1>5, OthersFinite DEF Following
<1>7. \A i \in DOMAIN log : i > joined_at[c] /\ log[i].user # c => i \in others
  BY <1>3, <1>4 DEF OthersAt
<1>8. \A i \in others : Rank(i, others) \in DOMAIN heard[c]
  BY <1>4, <1>6, RankBounds
<1>9. \A i \in others : i \in DOMAIN log /\ i > joined_at[c]
  BY <1>3, <1>4 DEF OthersAt
<1>j. /\ \A i \in JoinedAt(d) : i \in DOMAIN log /\ log[i].user = d /\ log[i].type = "joined"
      /\ \A i \in LeftAt(d) : i \in DOMAIN log /\ log[i].user = d /\ log[i].type = "left"
  BY DEF JoinedAt, LeftAt, Event
<1>k. /\ JoinedAt(d) # {} => pc[d] \notin {"naming", "announcing"}
      /\ LeftAt(d) # {} => pc[d] = "ended"
      /\ pc[d] = "ended" /\ JoinedAt(d) # {} => LeftAt(d) # {}
      /\ \A i \in JoinedAt(d), j \in LeftAt(d) : i < j
  BY DEF Told
<1> HIDE DEF news, others
(* An event about d that c is sent after its list, or after its            *)
(* subscription, is one of those it heard.                                 *)
<1>10. ASSUME NEW i \in JoinedAt(d) \union LeftAt(d), i > joined_at[c]
       PROVE  i \in others /\ Rank(i, others) \in news
  <2>1. i \in others
    BY <1>7, <1>j, <1>10
  <2>2. heard[c][Rank(i, others)] = log[i] /\ Rank(i, others) \in DOMAIN heard[c]
    BY <1>6, <1>8, <2>1
  <2> QED BY <1>j, <2>1, <2>2 DEF news
<1>11. ASSUME NEW i \in JoinedAt(d) \union LeftAt(d), i > listed_at[c]
       PROVE  i > joined_at[c]
  <2>1. i \in Nat /\ i \in DOMAIN log /\ log[i].user # c /\ log[i].type # "message"
    BY <1>4, <1>j
  <2>2. i \notin (listed_at[c] + 1)..joined_at[c]
    BY <2>1 DEF Quiet
  <2> QED BY <1>4, <1>11, <2>1, <2>2
<1>12. CASE news = {}
  <2>1. \A i \in JoinedAt(d) \union LeftAt(d) : ~(i > listed_at[c])
    BY <1>10, <1>11, <1>12
  <2>2. pc[c] \in Joining
    BY <1>3 DEF Joining
  <2>3. d \in roster[c] => pc[d] \notin {"naming", "ended"}
    BY <2>1, <2>2 DEF Rostered
  <2>4. d \notin roster[c] => pc[d] # "listening"
    BY <2>1, <2>2 DEF Rostered
  <2> QED BY <1>1, <1>2, <1>12, <2>3, <2>4
<1>13. CASE news # {}
  <2>h. ASSUME NEW k \in news
        PROVE  \E i \in others : /\ k = Rank(i, others) /\ i > joined_at[c] /\ i \in DOMAIN log
                                /\ log[i] = heard[c][k]
    <3>1. k \in DOMAIN heard[c]
      BY DEF news
    <3>2. PICK i \in others : k = Rank(i, others)
      BY <1>6, <3>1
    <3> QED BY <1>6, <1>9, <3>2
  <2>n. ASSUME NEW k \in news
        PROVE  heard[c][k] = Event(d, "joined") \/ heard[c][k] = Event(d, "left")
    <3>1. heard[c][k] \in RoomEvent /\ heard[c][k].user = d /\ heard[c][k].type # "message"
      BY <1>4 DEF news
    <3> DEFINE e == heard[c][k]
    <3>2. e \in RoomEvent
      BY <3>1
    <3>3. e = Event(e.user, e.type) /\ e.type \in {"joined", "message", "left"}
      BY <3>2 DEF RoomEvent, Event, EventType
    <3> QED BY <3>1, <3>3
  <2>1. ASSUME NEW k \in news, heard[c][k].type = "joined"
        PROVE  \E i \in others : k = Rank(i, others) /\ i > joined_at[c] /\ i \in JoinedAt(d)
    <3>1. heard[c][k] = Event(d, "joined")
      BY <2>1, <2>n DEF Event
    <3> QED BY <2>h, <3>1 DEF JoinedAt
  <2>l. ASSUME NEW k \in news, heard[c][k].type # "joined"
        PROVE  LeftAt(d) # {}
    <3>1. heard[c][k] = Event(d, "left")
      BY <2>l, <2>n DEF Event
    <3>2. PICK i \in others : i \in DOMAIN log /\ log[i] = heard[c][k]
      BY <2>h
    <3> QED BY <3>1, <3>2 DEF LeftAt
  <2>2. ASSUME NEW k \in news, heard[c][k].type = "joined", \A j \in news : j <= k
        PROVE  pc[d] = "listening"
    <3>1. PICK i \in others : k = Rank(i, others) /\ i > joined_at[c] /\ i \in JoinedAt(d)
      BY <2>1, <2>2
    <3>2. ASSUME NEW j \in LeftAt(d)
          PROVE  FALSE
      <4>1. i < j /\ i \in Nat /\ j \in Nat /\ j > joined_at[c]
        BY <1>4, <1>k, <1>j, <3>1
      <4>2. j \in others /\ Rank(j, others) \in news
        BY <1>10, <4>1
      <4>3. Rank(i, others) \in Nat /\ Rank(j, others) \in Nat /\ Rank(i, others) < Rank(j, others)
        BY <1>6, <3>1, <4>1, <4>2, RankOrdered
      <4> QED BY <2>2, <3>1, <4>2, <4>3
    <3> QED BY <1>k, <3>1, <3>2
  <2>3. ASSUME pc[d] = "listening"
        PROVE  \E k \in news : heard[c][k].type = "joined" /\ \A j \in news : j <= k
    <3>1. LeftAt(d) = {}
      BY <1>k, <2>3
    <3>2. \A k \in news : heard[c][k].type = "joined"
      BY <2>l, <3>1
    <3>3. news \in SUBSET Nat /\ \A k \in news : k <= Len(heard[c])
      BY <1>4 DEF news
    <3>4. Len(heard[c]) \in Nat
      BY <1>4
    <3>5. \E k \in news : \A j \in news : j <= k
      BY <1>13, <3>3, <3>4, GreatestNumber
    <3> QED BY <3>2, <3>5
  <2> QED BY <1>1, <1>2, <1>13, <2>2, <2>3
<1> QED BY <1>12, <1>13

(* A peer that has heard everything, and whose join no other join or       *)
(* departure overlapped, knows exactly the users of the room when nobody   *)
(* is on the way in or out.                                                *)
THEOREM QuietJoinExact == Spec => []QuietJoinIsExact
<1> DEFINE told == \A d \in Client : Told(d)
           rostered == \A c, d \in Client : c # d => Rostered(c, d)
           followed == \A c \in Client : Following(c)
<1>1. TypeOK /\ MembersListed /\ told /\ rostered /\ followed => QuietJoinIsExact
  <2> SUFFICES ASSUME TypeOK, MembersListed, told, rostered, followed, NEW c \in Client,
                      UpToDate(c), Quiet(c),
                      \A d \in Client : pc[d] \in {"naming", "listening", "ended"}
               PROVE  Known(c) = Range(users) \ {c}
    BY DEF QuietJoinIsExact
  <2>1. \A d \in Client : d # c => (d \in Known(c) <=> d \in Range(users))
    BY KnownExactly
  <2>2. Known(c) \subseteq Client \ {c}
    BY DEF Known
  <2>3. Range(users) \subseteq Client
    BY DEF TypeOK
  <2> QED BY <2>1, <2>2, <2>3
<1>2. Spec => [](told /\ rostered)
  BY Announced
<1>3. Spec => []followed
  BY Followed
<1> HIDE DEF told, rostered, followed
<1> QED BY <1>1, <1>2, <1>3, TypeCorrect, RoomListed, PTL
=============================================================================
