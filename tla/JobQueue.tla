------------------------------ MODULE JobQueue ------------------------------
(***************************************************************************)
(* Problem 9, the job server (src/src/p9_jobqueue.rs).                     *)
(*                                                                         *)
(* One Storage behind a mutex, one task per client connection.  A task     *)
(* reads a request, takes the lock, runs handle_message and releases the   *)
(* lock, then awaits the oneshot channel that carries the reply, which a   *)
(* waiting Get shares with whichever task serves it later.  When its peer  *)
(* is gone the task takes the lock and aborts every job it was given.      *)
(*                                                                         *)
(* Every job id belongs to one queue, msg_queues[id], so the per-queue     *)
(* maps of the code that are keyed by job id are kept here as one map, and *)
(* the details of a job, which are never removed, as one sequence.  Ids    *)
(* count from 1 here and from 0 in the code.                               *)
(***************************************************************************)
EXTENDS Integers, Sequences, FiniteSets

CONSTANTS
  ClientId,   \* client connections
  NoClient,   \* no client: the owner of a job that is not active
  QueueId,    \* queue names
  Priority,   \* job priorities
  QueueLists, \* the lists of queues a Get may name
  MaxJobs,    \* bound: jobs ever put
  MaxWaits    \* bound: waiting Gets ever registered

ASSUME ClientAssumption == NoClient \notin ClientId
ASSUME PriorityAssumption == Priority \subseteq Int
ASSUME QueueListsAssumption == QueueLists \subseteq Seq(QueueId)
ASSUME BoundsAssumption == MaxJobs \in Nat /\ MaxWaits \in Nat

VARIABLES
  jobs,             \* msg_queues and every Queue.jobs: queue and priority by id
  priorities,       \* per queue, the ids in Queue.priorities
  active_jobs,      \* the client each job is active for, or NoClient
  waiters,          \* per queue, the ids of the waiting Gets
  waiters_to_queue, \* per waiting Get, its queues and its client
  last_waiter_id,
  pc,               \* where each client task is
  up,               \* whether the peer of each task is still connected
  oneshot,          \* the reply channel each task awaits
  owned_messages    \* the job ids each task was given

storageVars == <<jobs, priorities, active_jobs, waiters, waiters_to_queue, last_waiter_id>>
clientVars == <<pc, up, oneshot, owned_messages>>
vars == <<storageVars, clientVars>>

JobId == 1..MaxJobs
WaiterId == 1..MaxWaits
JobDetails == [queue : QueueId, priority : Priority]

(* "reading": at the top of the loop.  "await": on the oneshot.            *)
(* "closing": aborting its jobs under the lock.  "closed": ended after     *)
(* that.  "dead": ended by a failed write.                                 *)
TaskState == {"reading", "await", "closing", "closed", "dead"}

Waiter == [queues : SUBSET QueueId, client : ClientId]
NoWaiter == [queues |-> {}, client |-> NoClient]

(* A oneshot holds nothing yet, a reply without a job, or the id of the    *)
(* job of a GetResponse::Ok.                                               *)
Empty == -1
NoJob == 0

TypeOK ==
  /\ jobs \in Seq(JobDetails) /\ Len(jobs) \in 0..MaxJobs
  /\ priorities \in [QueueId -> SUBSET JobId]
  /\ active_jobs \in [JobId -> ClientId \union {NoClient}]
  /\ waiters \in [QueueId -> SUBSET WaiterId]
  /\ waiters_to_queue \in [WaiterId -> Waiter \union {NoWaiter}]
  /\ last_waiter_id \in 0..MaxWaits
  /\ pc \in [ClientId -> TaskState]
  /\ up \in [ClientId -> BOOLEAN]
  /\ oneshot \in [ClientId -> {Empty, NoJob} \union JobId]
  /\ owned_messages \in [ClientId -> SUBSET JobId]

Init ==
  /\ jobs = << >>
  /\ priorities = [q \in QueueId |-> {}]
  /\ active_jobs = [j \in JobId |-> NoClient]
  /\ waiters = [q \in QueueId |-> {}]
  /\ waiters_to_queue = [w \in WaiterId |-> NoWaiter]
  /\ last_waiter_id = 0
  /\ pc = [c \in ClientId |-> "reading"]
  /\ up = [c \in ClientId |-> TRUE]
  /\ oneshot = [c \in ClientId |-> Empty]
  /\ owned_messages = [c \in ClientId |-> {}]

-----------------------------------------------------------------------------
(* The lock is held between two steps only by a task that aborts its jobs. *)
LockFree == \A c \in ClientId : pc[c] # "closing"

(* Mutant: the first in the order, not the last. *)
IsBestFirst(js, j, S) ==
  /\ j \in S
  /\ \A k \in S : \/ js[k].priority > js[j].priority
                  \/ js[k].priority = js[j].priority /\ k >= j

(* Queue::get_best_job on a queue whose available jobs are S, with details *)
(* as in js: the last in the order (priority, id).                         *)
IsBest(js, j, S) ==
  /\ j \in S
  /\ \A k \in S : \/ js[k].priority < js[j].priority
                  \/ js[k].priority = js[j].priority /\ k <= j

IsOldest(w, S) == w \in S /\ \A v \in S : w <= v

(* Mutant: a served waiter stays registered in its other queues. *)
QueueUpdateOneQueue(q, ready, active, replies) ==
  \/ /\ ready[q] = {} \/ waiters[q] = {}
     /\ priorities' = ready /\ active_jobs' = active /\ oneshot' = replies
     /\ UNCHANGED <<waiters, waiters_to_queue>>
  \/ \E j \in ready[q], w \in waiters[q] :
       LET reg == waiters_to_queue[w] IN
       /\ IsBest(jobs', j, ready[q]) /\ IsOldest(w, waiters[q])
       /\ priorities' = [ready EXCEPT ![q] = @ \ {j}]
       /\ active_jobs' = [active EXCEPT ![j] = reg.client]
       /\ oneshot' = [replies EXCEPT ![reg.client] = j]
       /\ waiters' = [waiters EXCEPT ![q] = @ \ {w}]
       /\ waiters_to_queue' = [waiters_to_queue EXCEPT ![w] = NoWaiter]

(* WaitingSystem::queue_update, called last by the handlers that make a    *)
(* job available in q: if q has a job and a waiter, the oldest waiter      *)
(* leaves every queue it waits on and receives the best job.  The handler  *)
(* passes on what it has made of the maps so far.                          *)
QueueUpdate(q, ready, active, replies) ==
  \/ /\ ready[q] = {} \/ waiters[q] = {}
     /\ priorities' = ready
     /\ active_jobs' = active
     /\ oneshot' = replies
     /\ UNCHANGED <<waiters, waiters_to_queue>>
  \/ \E j \in ready[q], w \in waiters[q] :
       LET reg == waiters_to_queue[w] IN
       /\ IsBest(jobs', j, ready[q])
       /\ IsOldest(w, waiters[q])
       /\ priorities' = [ready EXCEPT ![q] = @ \ {j}]
       /\ active_jobs' = [active EXCEPT ![j] = reg.client]
       /\ oneshot' = [replies EXCEPT ![reg.client] = j]
       /\ waiters' = [r \in QueueId |-> IF r = q \/ r \in reg.queues
                                        THEN waiters[r] \ {w} ELSE waiters[r]]
       /\ waiters_to_queue' = [waiters_to_queue EXCEPT ![w] = NoWaiter]

(* A task reads a line, whose reply it then has, or awaits.  A line that   *)
(* is read after the peer left is taken as read before: no other task can  *)
(* tell the difference.                                                    *)
ReadLine(c) ==
  /\ pc[c] = "reading" /\ up[c]
  /\ pc' = [pc EXCEPT ![c] = "await"]
  /\ UNCHANGED <<up, owned_messages>>

(* A request is handled with the lock held. *)
Request(c) == ReadLine(c) /\ LockFree

Put(c, q, p) ==
  /\ Request(c)
  /\ Len(jobs) < MaxJobs
  /\ jobs' = Append(jobs, [queue |-> q, priority |-> p])
  /\ QueueUpdate(q, [priorities EXCEPT ![q] = @ \union {Len(jobs) + 1}],
                 active_jobs, [oneshot EXCEPT ![c] = NoJob])
  /\ UNCHANGED last_waiter_id

(* Mutant: the job is not taken out of priorities. *)
GetJobKept(c, qs) ==
  /\ Request(c)
  /\ \E i \in DOMAIN qs, j \in JobId :
       /\ IsBest(jobs, j, priorities[qs[i]])
       /\ active_jobs' = [active_jobs EXCEPT ![j] = c]
       /\ oneshot' = [oneshot EXCEPT ![c] = j]
  /\ UNCHANGED <<jobs, priorities, waiters, waiters_to_queue, last_waiter_id>>

(* The best jobs of the listed queues are compared in the order of the     *)
(* list, and a later one wins only with a higher priority.                 *)
GetJob(c, qs) ==
  /\ Request(c)
  /\ \E i \in DOMAIN qs, j \in JobId :
       /\ IsBest(jobs, j, priorities[qs[i]])
       /\ \A n \in DOMAIN qs, k \in JobId :
            IsBest(jobs, k, priorities[qs[n]]) =>
              \/ jobs[k].priority < jobs[j].priority
              \/ jobs[k].priority = jobs[j].priority /\ i <= n
       /\ priorities' = [priorities EXCEPT ![qs[i]] = @ \ {j}]
       /\ active_jobs' = [active_jobs EXCEPT ![j] = c]
       /\ oneshot' = [oneshot EXCEPT ![c] = j]
  /\ UNCHANGED <<jobs, waiters, waiters_to_queue, last_waiter_id>>

NothingReady(qs) == \A i \in DOMAIN qs : priorities[qs[i]] = {}

GetNoJob(c, qs) ==
  /\ Request(c)
  /\ NothingReady(qs)
  /\ oneshot' = [oneshot EXCEPT ![c] = NoJob]
  /\ UNCHANGED storageVars

(* A Get with wait = true that finds no job: WaitingSystem::wait registers *)
(* the sending end of the channel in every listed queue, under a fresh id. *)
GetWait(c, qs) ==
  LET w == last_waiter_id + 1
      queues == {qs[i] : i \in DOMAIN qs} IN
  /\ Request(c)
  /\ NothingReady(qs)
  /\ last_waiter_id < MaxWaits
  /\ waiters' = [q \in QueueId |-> IF q \in queues THEN waiters[q] \union {w}
                                                   ELSE waiters[q]]
  /\ waiters_to_queue' = [waiters_to_queue EXCEPT ![w] = [queues |-> queues, client |-> c]]
  /\ last_waiter_id' = w
  /\ UNCHANGED <<jobs, priorities, active_jobs, oneshot>>

(* Mutant: an aborted job is put back without looking for a waiter. *)
AbortJobNoUpdate(c, j, replies) ==
  /\ UNCHANGED <<jobs, last_waiter_id, waiters, waiters_to_queue>>
  /\ oneshot' = replies
  /\ IF j \notin 1..Len(jobs) \/ active_jobs[j] # c
     THEN UNCHANGED <<priorities, active_jobs>>
     ELSE /\ priorities' = [priorities EXCEPT ![jobs[j].queue] = @ \union {j}]
          /\ active_jobs' = [active_jobs EXCEPT ![j] = NoClient]

(* handle_message(Abort) for client c: refused when another client owns    *)
(* the job; otherwise the job, if c owns it, is put back, and the queue's  *)
(* waiters are looked at in any case.                                      *)
AbortJob(c, j, replies) ==
  /\ UNCHANGED <<jobs, last_waiter_id>>
  /\ IF j \notin 1..Len(jobs) \/ active_jobs[j] \notin {c, NoClient}
     THEN /\ oneshot' = replies
          /\ UNCHANGED <<priorities, active_jobs, waiters, waiters_to_queue>>
     ELSE LET q == jobs[j].queue IN
          IF active_jobs[j] = c
          THEN QueueUpdate(q, [priorities EXCEPT ![q] = @ \union {j}],
                           [active_jobs EXCEPT ![j] = NoClient], replies)
          ELSE QueueUpdate(q, priorities, active_jobs, replies)

Abort(c, j) ==
  /\ Request(c)
  /\ AbortJob(c, j, [oneshot EXCEPT ![c] = NoJob])

(* Delete does not ask who owns the job, and keeps its details. *)
Delete(c, j) ==
  /\ Request(c)
  /\ oneshot' = [oneshot EXCEPT ![c] = NoJob]
  /\ IF j \notin 1..Len(jobs)
     THEN UNCHANGED <<active_jobs, priorities>>
     ELSE IF active_jobs[j] # NoClient
     THEN /\ active_jobs' = [active_jobs EXCEPT ![j] = NoClient]
          /\ UNCHANGED priorities
     ELSE /\ priorities' = [priorities EXCEPT ![jobs[j].queue] = @ \ {j}]
          /\ UNCHANGED active_jobs
  /\ UNCHANGED <<jobs, waiters, waiters_to_queue, last_waiter_id>>

(* A line that is not a request is answered with an error, without the     *)
(* lock; like the refusal of an abort, the error goes straight to the peer *)
(* in the code and through the channel here.                               *)
BadLine(c) ==
  /\ ReadLine(c)
  /\ oneshot' = [oneshot EXCEPT ![c] = NoJob]
  /\ UNCHANGED storageVars

-----------------------------------------------------------------------------
(* Mutant: a job received after a wait is not noted. *)
ReplyUnnoted(c) ==
  /\ pc[c] = "await" /\ oneshot[c] # Empty
  /\ oneshot' = [oneshot EXCEPT ![c] = Empty]
  /\ pc' = [pc EXCEPT ![c] = "reading"]
  /\ UNCHANGED <<storageVars, up, owned_messages>>

(* The channel holds a reply: the task notes the job it was given and      *)
(* writes the reply.  A write to a peer that is gone may still succeed;    *)
(* when it fails the task returns at once.                                 *)
Reply(c) ==
  /\ pc[c] = "await" /\ oneshot[c] # Empty
  /\ owned_messages' = IF oneshot[c] \in JobId
                       THEN [owned_messages EXCEPT ![c] = @ \union {oneshot[c]}]
                       ELSE owned_messages
  /\ oneshot' = [oneshot EXCEPT ![c] = Empty]
  /\ \/ pc' = [pc EXCEPT ![c] = "reading"]
     \/ ~up[c] /\ pc' = [pc EXCEPT ![c] = "dead"]
  /\ UNCHANGED <<storageVars, up>>

(* The peer goes away: from outside, at any moment. *)
Disconnect(c) ==
  /\ up[c]
  /\ up' = [up EXCEPT ![c] = FALSE]
  /\ UNCHANGED <<storageVars, pc, oneshot, owned_messages>>

(* next_line returns nothing: the task takes the lock. *)
EndOfInput(c) ==
  /\ pc[c] = "reading" /\ ~up[c]
  /\ LockFree
  /\ pc' = [pc EXCEPT ![c] = "closing"]
  /\ UNCHANGED <<storageVars, up, oneshot, owned_messages>>

(* Mutant: the jobs are forgotten, not aborted. *)
AbortOwnedForgets(c, j) ==
  /\ pc[c] = "closing"
  /\ j \in owned_messages[c]
  /\ owned_messages' = [owned_messages EXCEPT ![c] = @ \ {j}]
  /\ UNCHANGED <<storageVars, pc, up, oneshot>>

(* One turn of the loop over owned_messages; its replies are dropped. *)
AbortOwned(c, j) ==
  /\ pc[c] = "closing"
  /\ j \in owned_messages[c]
  /\ owned_messages' = [owned_messages EXCEPT ![c] = @ \ {j}]
  /\ UNCHANGED <<pc, up>>
  /\ AbortJob(c, j, oneshot)

(* The loop is over: the task releases the lock and returns. *)
Closed(c) ==
  /\ pc[c] = "closing"
  /\ owned_messages[c] = {}
  /\ pc' = [pc EXCEPT ![c] = "closed"]
  /\ UNCHANGED <<storageVars, up, oneshot, owned_messages>>

Next ==
  \E c \in ClientId :
    \/ \E q \in QueueId, p \in Priority : Put(c, q, p)
    \/ \E qs \in QueueLists : GetJob(c, qs) \/ GetNoJob(c, qs) \/ GetWait(c, qs)
    \/ \E j \in JobId : Abort(c, j) \/ Delete(c, j) \/ AbortOwned(c, j)
    \/ BadLine(c) \/ Reply(c) \/ Disconnect(c) \/ EndOfInput(c) \/ Closed(c)

Spec == Init /\ [][Next]_vars

(* The runtime polls every task that can go on, so replies, the end of     *)
(* input and the clean-up happen.  Peers owe nothing: no fairness on       *)
(* requests, nor on Disconnect.                                            *)
Fairness ==
  \A c \in ClientId :
    /\ WF_vars(Reply(c))
    /\ WF_vars(EndOfInput(c))
    /\ WF_vars(\E j \in JobId : AbortOwned(c, j))
    /\ WF_vars(Closed(c))

FairSpec == Spec /\ Fairness

-----------------------------------------------------------------------------
(* The two maps of the waiting system agree: whoever is popped from a      *)
(* queue is registered (the unwrap in queue_update), and once served it is *)
(* in no queue any more.                                                   *)
RegistryAgrees ==
  \A q \in QueueId, w \in WaiterId :
    w \in waiters[q] <=> q \in waiters_to_queue[w].queues

(* A registered waiter is a task that still awaits its empty channel, and  *)
(* no task has two: so the send in queue_update, which unwraps under the   *)
(* lock, finds its receiver alive, and no reply overwrites another.        *)
WaiterAwaits ==
  \A w \in WaiterId :
    LET c == waiters_to_queue[w].client IN
    c # NoClient => /\ pc[c] = "await" /\ oneshot[c] = Empty
                    /\ \A v \in WaiterId : waiters_to_queue[v].client = c => v = w

Registered(c) == \E w \in WaiterId : waiters_to_queue[w].client = c

(* A task awaits only a reply that exists or that a registration promises. *)
ReplyPromised ==
  \A c \in ClientId :
    pc[c] = "await" => oneshot[c] # Empty \/ Registered(c)

(* The waiting system is sound: its maps agree, whoever they name can be    *)
(* served, and whoever awaits will be.                                      *)
RegistrationsSound == RegistryAgrees /\ WaiterAwaits /\ ReplyPromised

(* No lost wakeup: no queue has a job to give and a client that waits.     *)
NoIdleWaiter == \A q \in QueueId : priorities[q] = {} \/ waiters[q] = {}

(* A job is available in its own queue only, and not while it is active:   *)
(* so it is never given to two clients, and the unwraps of the job maps in *)
(* get_best_job and abort_active_job find it.                              *)
OneHome ==
  \A j \in JobId :
    /\ \A q \in QueueId : j \in priorities[q] => /\ j \in 1..Len(jobs)
                                               /\ jobs[j].queue = q
                                               /\ active_jobs[j] = NoClient
    /\ active_jobs[j] # NoClient => j \in 1..Len(jobs)

(* The task a job is active for knows it, so that it can abort the job     *)
(* when its peer leaves; in particular a task that closed its connection   *)
(* holds nothing.  The exception is a task that died of a failed write.    *)
HolderKnows ==
  \A c \in ClientId, j \in JobId :
    active_jobs[j] = c => \/ j \in owned_messages[c] /\ pc[c] # "closed"
                          \/ oneshot[c] = j
                          \/ pc[c] = "dead"

(* What the proofs need besides: ids not handed out yet are unused, and    *)
(* only a task that awaits its channel finds something in it.              *)
FreshIds == \A w \in WaiterId : w > last_waiter_id => waiters_to_queue[w] = NoWaiter
ReplyAwaited == \A c \in ClientId : pc[c] # "await" => oneshot[c] = Empty

(* The inductive invariant of JobQueueProofs. *)
IInv ==
  /\ TypeOK
  /\ RegistryAgrees /\ WaiterAwaits /\ FreshIds
  /\ ReplyAwaited /\ ReplyPromised
  /\ NoIdleWaiter /\ OneHome /\ HolderKnows

Holds(c) == \E j \in JobId : active_jobs[j] = c

(* When a peer leaves, its jobs do not stay with it, unless its task died  *)
(* of a failed write or is parked in a waiting Get.                        *)
JobsReleased ==
  \A c \in ClientId :
    (Holds(c) /\ ~up[c]) ~> (~Holds(c) \/ pc[c] = "dead" \/ Registered(c))

(* What the comments in handle_client and test_client_disconnect3 say: the *)
(* jobs of a client that disconnects are aborted and another client gets   *)
(* them.  The code breaks it even where no write fails: a task that awaits *)
(* a waiting Get does not read, so it does not see its peer leave, and     *)
(* keeps the jobs it was given before.                                     *)
DisconnectReleases ==
  \A c \in ClientId : (Holds(c) /\ ~up[c]) ~> (~Holds(c) \/ pc[c] = "dead")

-----------------------------------------------------------------------------
(* The server as a job board: the ready jobs are those in priorities, the  *)
(* holder of a job is the client it is active for, and a client waits on   *)
(* the queues in which one of its registrations stands.                    *)
Available == UNION {priorities[q] : q \in QueueId}
WaitingOn(c) ==
  {q \in QueueId : \E w \in waiters[q] : waiters_to_queue[w].client = c}

Board == INSTANCE JobBoard WITH
           ready   <- Available,
           holder  <- active_jobs,
           waiting <- [c \in ClientId |-> WaitingOn(c)]

(* Every step of the server is one step of the board, or none: jobs change *)
(* hands only as the board allows, through queue_update and the four       *)
(* requests alike.                                                         *)
ImplementsBoard == Board!Spec
=============================================================================
