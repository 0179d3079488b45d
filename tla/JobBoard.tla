------------------------------ MODULE JobBoard ------------------------------
(***************************************************************************)
(* What the job server of problem 9 promises, without its maps, waiter     *)
(* ids, replies or connections.  A job is posted once; it is then ready,   *)
(* or held by exactly one client, or gone for good.  A client that asks    *)
(* for work is given a most urgent ready job of the queues it names, or,   *)
(* when there is none, may wait; a job that becomes available in a queue   *)
(* somebody waits on goes to one of those who wait, in the same step.      *)
(* JobQueue implements this specification.                                 *)
(***************************************************************************)
EXTENDS Integers, Sequences

CONSTANTS
  ClientId,   \* clients
  NoClient,   \* the holder of a job nobody holds
  QueueId,    \* queue names
  Priority,   \* priorities, a set of integers
  MaxJobs     \* bound on the jobs ever posted

VARIABLES
  jobs,      \* every job ever posted, by id: its queue and its priority
  ready,     \* ids of the jobs anyone may be given
  holder,    \* who holds each job
  waiting    \* the queues each client waits on, {} when it does not wait

boardVars == <<jobs, ready, holder, waiting>>

Init ==
  /\ jobs = << >>
  /\ ready = {}
  /\ holder = [j \in 1..MaxJobs |-> NoClient]
  /\ waiting = [c \in ClientId |-> {}]

(* Job j of queue q has no holder: a client waiting on q receives it at    *)
(* once, and it becomes ready only when no client does.                    *)
Offer(j, q) ==
  \/ /\ \A c \in ClientId : q \notin waiting[c]
     /\ ready' = ready \union {j}
     /\ holder' = [holder EXCEPT ![j] = NoClient]
     /\ UNCHANGED waiting
  \/ \E c \in ClientId :
       /\ q \in waiting[c]
       /\ holder' = [holder EXCEPT ![j] = c]
       /\ waiting' = [waiting EXCEPT ![c] = {}]
       /\ UNCHANGED ready

Post(q, p) ==
  /\ Len(jobs) < MaxJobs
  /\ jobs' = Append(jobs, [queue |-> q, priority |-> p])
  /\ Offer(Len(jobs) + 1, q)

(* A client is given a most urgent ready job of a set of queues.  The board *)
(* does not record requests: that S is the set the client named is the      *)
(* guard of JobQueue!GetJob.                                                *)
Take(c, S, j) ==
  /\ j \in ready
  /\ jobs[j].queue \in S
  /\ \A k \in ready : jobs[k].queue \in S => jobs[k].priority <= jobs[j].priority
  /\ waiting[c] = {}
  /\ ready' = ready \ {j}
  /\ holder' = [holder EXCEPT ![j] = c]
  /\ UNCHANGED <<jobs, waiting>>

(* A client may start to wait only when none of its queues has a ready job. *)
Wait(c, S) ==
  /\ \A k \in ready : jobs[k].queue \notin S
  /\ waiting[c] = {}
  /\ waiting' = [waiting EXCEPT ![c] = S]
  /\ UNCHANGED <<jobs, ready, holder>>

(* Only the holder of a job gives it back. *)
Release(c, j) ==
  /\ holder[j] = c
  /\ Offer(j, jobs[j].queue)
  /\ UNCHANGED jobs

(* Anyone may delete a job, held or not; nothing brings it back. *)
Delete(j) ==
  /\ j \in ready \/ holder[j] # NoClient
  /\ ready' = ready \ {j}
  /\ holder' = [holder EXCEPT ![j] = NoClient]
  /\ UNCHANGED <<jobs, waiting>>

Next ==
  \/ \E q \in QueueId, p \in Priority : Post(q, p)
  \/ \E c \in ClientId, S \in SUBSET QueueId :
       \/ Wait(c, S)
       \/ \E j \in 1..MaxJobs : Take(c, S, j)
  \/ \E c \in ClientId, j \in 1..MaxJobs : Release(c, j)
  \/ \E j \in 1..MaxJobs : Delete(j)

Spec == Init /\ [][Next]_boardVars
=============================================================================
