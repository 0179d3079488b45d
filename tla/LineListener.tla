----------------------------- MODULE LineListener -----------------------------
(***************************************************************************)
(* Problem 7, line reversal (src/src/p7_reversal.rs): the main loop that   *)
(* receives the packets of all sessions, and their tasks.                  *)
(*                                                                         *)
(* The loop sends a packet into the bounded channel of its session and     *)
(* waits for room there, while the packets of all other sessions wait for  *)
(* the loop.  The task of a session may owe its own channel one internal   *)
(* message, and sleeping tasks send into it as well.  A task whose         *)
(* send_to fails ends, and the loop ends, and with it the program, when it *)
(* sends to an ended session.                                              *)
(*                                                                         *)
(* What a message says is left to LineReversal, whose session is one of    *)
(* these.  A session without a packet yet is one with an empty channel:    *)
(* its task is spawned with the channel by the first packet.               *)
(***************************************************************************)
EXTENDS Naturals, Sequences, FiniteSets

CONSTANTS
  Session,
  NoSession,   \* the loop waits for no session
  Capacity,    \* of a session's channel, 1024 in the code
  MaxInternal  \* bound: internal messages of a session at any time

ListenerAssumption ==
  NoSession \notin Session /\ Capacity \in Nat \ {0} /\ MaxInternal \in Nat

VARIABLES
  up,      \* whether the main loop, and so the program, runs
  held,    \* the session whose channel the loop waits to send a packet into
  task,    \* what the task of a session does
  channel, \* the session's channel
  asleep   \* internal messages of a session in the hands of sleeping tasks

listenerVars == <<up, held, task, channel, asleep>>

TypeOK ==
  /\ up \in BOOLEAN
  /\ held \in Session \union {NoSession}
  /\ task \in [Session -> {"receiving", "sending", "ended"}]
  /\ channel \in [Session -> Seq({"client", "internal"})]
  /\ asleep \in [Session -> 0..MaxInternal]
  /\ \A s \in Session : Len(channel[s]) <= Capacity

Init ==
  /\ up = TRUE /\ held = NoSession
  /\ task = [s \in Session |-> "receiving"]
  /\ channel = [s \in Session |-> << >>]
  /\ asleep = [s \in Session |-> 0]

Room(s) == Len(channel[s]) < Capacity
Put(s, kind) == channel' = [channel EXCEPT ![s] = Append(@, kind)]

-----------------------------------------------------------------------------
(* The main loop. *)

(* A packet is received, and there is room for it. *)
Arrive(s) ==
  /\ up /\ held = NoSession
  /\ task[s] # "ended" /\ Room(s)
  /\ Put(s, "client")
  /\ UNCHANGED <<up, held, task, asleep>>

(* Or there is none, or nobody to take it. *)
Hold(s) ==
  /\ up /\ held = NoSession
  /\ task[s] = "ended" \/ ~Room(s)
  /\ held' = s
  /\ UNCHANGED <<up, task, channel, asleep>>

Forward(s) ==
  /\ up /\ held = s
  /\ task[s] # "ended" /\ Room(s)
  /\ Put(s, "client")
  /\ held' = NoSession
  /\ UNCHANGED <<up, task, asleep>>

(* The channel is closed: its error leaves run, and main. *)
Fail(s) ==
  /\ up /\ held = s
  /\ task[s] = "ended"
  /\ up' = FALSE /\ held' = NoSession
  /\ UNCHANGED <<task, channel, asleep>>

-----------------------------------------------------------------------------
(* The task of a session. *)

(* The internal messages of s: sleeping, in its channel, in its hands. *)
InChannel(s) == Cardinality({i \in DOMAIN channel[s] : channel[s][i] = "internal"})
Internals(s) == asleep[s] + InChannel(s) + (IF task[s] = "sending" THEN 1 ELSE 0)

(* A message is taken that asks for nothing but a packet to the peer. *)
Answer(s) ==
  /\ channel' = [channel EXCEPT ![s] = Tail(@)]
  /\ UNCHANGED <<up, held, task, asleep>>

(* The next chunk of an answer is to be sent after a packet. *)
Owe(s) ==
  /\ Head(channel[s]) = "client" /\ Internals(s) < MaxInternal
  /\ channel' = [channel EXCEPT ![s] = Tail(@)]
  /\ task' = [task EXCEPT ![s] = "sending"]
  /\ UNCHANGED <<up, held, asleep>>

(* A chunk is written, and will be again. *)
Repeat(s) ==
  /\ Head(channel[s]) = "internal"
  /\ channel' = [channel EXCEPT ![s] = Tail(@)]
  /\ asleep' = [asleep EXCEPT ![s] = @ + 1]
  /\ UNCHANGED <<up, held, task>>

(* send_to fails: the task ends, and its channel is closed. *)
End(s) ==
  /\ task' = [task EXCEPT ![s] = "ended"]
  /\ channel' = [channel EXCEPT ![s] = << >>]
  /\ UNCHANGED <<up, held, asleep>>

Takes(s) == up /\ task[s] = "receiving" /\ channel[s] # << >>

(* Mutant: the main loop runs the sessions itself, between two packets. *)
HandleInLoop(s) ==
  /\ held = NoSession
  /\ Takes(s) /\ (Answer(s) \/ Owe(s) \/ Repeat(s) \/ End(s))

Handle(s) == Takes(s) /\ (Answer(s) \/ Owe(s) \/ Repeat(s) \/ End(s))

(* The task waits for room in the channel that only it empties. *)
SelfSend(s) ==
  /\ up /\ task[s] = "sending" /\ Room(s)
  /\ Put(s, "internal")
  /\ task' = [task EXCEPT ![s] = "receiving"]
  /\ UNCHANGED <<up, held, asleep>>

(* A sleeping task sends its message, or finds the channel closed. *)
WakeUp(s) ==
  /\ up /\ asleep[s] > 0
  /\ IF task[s] = "ended"
     THEN UNCHANGED channel
     ELSE Room(s) /\ Put(s, "internal")
  /\ asleep' = [asleep EXCEPT ![s] = @ - 1]
  /\ UNCHANGED <<up, held, task>>

Next == \E s \in Session :
  Arrive(s) \/ Hold(s) \/ Forward(s) \/ Fail(s) \/ Handle(s) \/ SelfSend(s) \/ WakeUp(s)

Spec == Init /\ [][Next]_listenerVars

(* The runtime polls the tasks.  The loop is among those that wait for     *)
(* room in a channel, and tokio serves them in their turn.                 *)
Fairness ==
  \A s \in Session :
    WF_listenerVars(Handle(s) \/ SelfSend(s)) /\ SF_listenerVars(Forward(s) \/ Fail(s))

FairSpec == Spec /\ Fairness

-----------------------------------------------------------------------------
Stuck(s) == task[s] = "sending" /\ ~Room(s)

(* A session that floods its channel, repeats its answers or ends delays   *)
(* the packets of all others only for a while: the main loop goes on, or   *)
(* the program ends, unless the session it waits for is stuck.             *)
LoopGoesOn == held # NoSession ~> (held = NoSession \/ Stuck(held))
=============================================================================
