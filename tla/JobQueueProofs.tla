--------------------------- MODULE JobQueueProofs ---------------------------
(* Theorems about JobQueue, for every value of its constants: its          *)
(* invariants, and that it implements JobBoard.                            *)
EXTENDS JobQueue, TLAPS

(* A request list names queues only. *)
LEMMA ListedQueues ==
  ASSUME NEW qs \in QueueLists
  PROVE  /\ qs \in Seq(QueueId)
         /\ {qs[i] : i \in DOMAIN qs} \subseteq QueueId
         /\ \A i \in DOMAIN qs : qs[i] \in QueueId
<1>1. qs \in Seq(QueueId)
  BY QueueListsAssumption
<1>2. \A i \in DOMAIN qs : qs[i] \in QueueId
  BY <1>1
<1>. QED  BY <1>1, <1>2

LEMMA QueueUpdateType ==
  ASSUME TypeOK, NEW q \in QueueId,
         NEW ready \in [QueueId -> SUBSET JobId],
         NEW active \in [JobId -> ClientId \union {NoClient}],
         NEW replies \in [ClientId -> {Empty, NoJob} \union JobId],
         QueueUpdate(q, ready, active, replies)
  PROVE  /\ priorities' \in [QueueId -> SUBSET JobId]
         /\ active_jobs' \in [JobId -> ClientId \union {NoClient}]
         /\ waiters' \in [QueueId -> SUBSET WaiterId]
         /\ waiters_to_queue' \in [WaiterId -> Waiter \union {NoWaiter}]
         /\ oneshot' \in [ClientId -> {Empty, NoJob} \union JobId]
<1>1. CASE /\ priorities' = ready
           /\ active_jobs' = active
           /\ oneshot' = replies
           /\ UNCHANGED <<waiters, waiters_to_queue>>
  BY <1>1 DEF TypeOK
<1>2. CASE \E j \in ready[q], w \in waiters[q] :
       LET reg == waiters_to_queue[w] IN
       /\ priorities' = [ready EXCEPT ![q] = @ \ {j}]
       /\ active_jobs' = [active EXCEPT ![j] = reg.client]
       /\ oneshot' = [replies EXCEPT ![reg.client] = j]
       /\ waiters' = [r \in QueueId |-> IF r = q \/ r \in reg.queues
                                        THEN waiters[r] \ {w} ELSE waiters[r]]
       /\ waiters_to_queue' = [waiters_to_queue EXCEPT ![w] = NoWaiter]
  <2>1. PICK j \in ready[q], w \in waiters[q] :
       LET reg == waiters_to_queue[w] IN
       /\ priorities' = [ready EXCEPT ![q] = @ \ {j}]
       /\ active_jobs' = [active EXCEPT ![j] = reg.client]
       /\ oneshot' = [replies EXCEPT ![reg.client] = j]
       /\ waiters' = [r \in QueueId |-> IF r = q \/ r \in reg.queues
                                        THEN waiters[r] \ {w} ELSE waiters[r]]
       /\ waiters_to_queue' = [waiters_to_queue EXCEPT ![w] = NoWaiter]
    BY <1>2
  <2>2. j \in JobId /\ w \in WaiterId
    BY DEF TypeOK
  <2>3. waiters_to_queue[w].client \in ClientId \union {NoClient}
    BY <2>2 DEF TypeOK, Waiter, NoWaiter
  <2>. QED  BY <2>1, <2>2, <2>3 DEF TypeOK
<1>. QED  BY <1>1, <1>2 DEF QueueUpdate

(* What every line does to the tasks. *)
LEMMA ReadLineType ==
  ASSUME TypeOK, NEW c \in ClientId, ReadLine(c)
  PROVE  /\ pc' \in [ClientId -> TaskState]
         /\ up' \in [ClientId -> BOOLEAN]
         /\ owned_messages' \in [ClientId -> SUBSET JobId]
BY DEF TypeOK, ReadLine, TaskState

LEMMA AbortJobType ==
  ASSUME TypeOK, NEW c \in ClientId, NEW j \in JobId,
         NEW replies \in [ClientId -> {Empty, NoJob} \union JobId],
         AbortJob(c, j, replies)
  PROVE  /\ jobs' = jobs
         /\ last_waiter_id' = last_waiter_id
         /\ priorities' \in [QueueId -> SUBSET JobId]
         /\ active_jobs' \in [JobId -> ClientId \union {NoClient}]
         /\ waiters' \in [QueueId -> SUBSET WaiterId]
         /\ waiters_to_queue' \in [WaiterId -> Waiter \union {NoWaiter}]
         /\ oneshot' \in [ClientId -> {Empty, NoJob} \union JobId]
<1> DEFINE q == jobs[j].queue
           put == [priorities EXCEPT ![q] = @ \union {j}]
           freed == [active_jobs EXCEPT ![j] = NoClient]
<1>1. CASE j \notin 1..Len(jobs) \/ active_jobs[j] \notin {c, NoClient}
  BY <1>1 DEF AbortJob, TypeOK
<1>2. CASE ~(j \notin 1..Len(jobs) \/ active_jobs[j] \notin {c, NoClient})
  <2>1. q \in QueueId
    <3>1. jobs \in Seq(JobDetails) /\ j \in 1..Len(jobs)
      BY <1>2 DEF TypeOK
    <3>2. jobs[j] \in JobDetails
      BY <3>1
    <3>. QED  BY <3>2 DEF JobDetails
  <2>2. /\ put \in [QueueId -> SUBSET JobId]
        /\ freed \in [JobId -> ClientId \union {NoClient}]
        /\ priorities \in [QueueId -> SUBSET JobId]
        /\ active_jobs \in [JobId -> ClientId \union {NoClient}]
    BY DEF TypeOK
  <2>3. \/ QueueUpdate(q, put, freed, replies)
        \/ QueueUpdate(q, priorities, active_jobs, replies)
    BY <1>2 DEF AbortJob
  <2>4. /\ jobs' = jobs
        /\ last_waiter_id' = last_waiter_id
    BY DEF AbortJob
  <2> HIDE DEF q, put, freed
  <2>5. CASE QueueUpdate(q, put, freed, replies)
    BY <2>1, <2>2, <2>4, <2>5, QueueUpdateType
  <2>6. CASE QueueUpdate(q, priorities, active_jobs, replies)
    BY <2>1, <2>2, <2>4, <2>6, QueueUpdateType
  <2>. QED  BY <2>3, <2>5, <2>6
<1>. QED  BY <1>1, <1>2

LEMMA TypeInit == Init => TypeOK
<1> SUFFICES ASSUME Init PROVE TypeOK
  OBVIOUS
<1>1. /\ jobs \in Seq(JobDetails)
      /\ Len(jobs) \in 0..MaxJobs
      /\ last_waiter_id \in 0..MaxWaits
  BY BoundsAssumption DEF Init
<1>. QED  BY <1>1 DEF Init, TypeOK, TaskState

LEMMA TypeStep == TypeOK /\ [Next]_vars => TypeOK'
<1> SUFFICES ASSUME TypeOK, [Next]_vars PROVE TypeOK'
  OBVIOUS
<1>1. ASSUME NEW c \in ClientId, NEW q \in QueueId, NEW p \in Priority, Put(c, q, p)
      PROVE  TypeOK'
  <2> DEFINE put == [priorities EXCEPT ![q] = @ \union {Len(jobs) + 1}]
             replies == [oneshot EXCEPT ![c] = NoJob]
  <2>1. /\ put \in [QueueId -> SUBSET JobId]
        /\ replies \in [ClientId -> {Empty, NoJob} \union JobId]
    BY <1>1, BoundsAssumption DEF TypeOK, Put, JobId
  <2>2. QueueUpdate(q, put, active_jobs, replies)
    BY <1>1 DEF Put
  <2>3. active_jobs \in [JobId -> ClientId \union {NoClient}]
    BY DEF TypeOK
  <2> HIDE DEF put, replies
  <2>4. /\ priorities' \in [QueueId -> SUBSET JobId]
        /\ active_jobs' \in [JobId -> ClientId \union {NoClient}]
        /\ waiters' \in [QueueId -> SUBSET WaiterId]
        /\ waiters_to_queue' \in [WaiterId -> Waiter \union {NoWaiter}]
        /\ oneshot' \in [ClientId -> {Empty, NoJob} \union JobId]
    BY <2>1, <2>2, <2>3, QueueUpdateType
  <2>5. /\ jobs' \in Seq(JobDetails)
        /\ Len(jobs') \in 0..MaxJobs
        /\ last_waiter_id' \in 0..MaxWaits
    BY <1>1, BoundsAssumption DEF TypeOK, Put, JobDetails
  <2>6. ReadLine(c)
    BY <1>1 DEF Put, Request
  <2>. QED  BY <2>4, <2>5, <2>6, ReadLineType DEF TypeOK
<1>2. ASSUME NEW c \in ClientId, NEW qs \in QueueLists, GetJob(c, qs)
      PROVE  TypeOK'
  <2>1. PICK i \in DOMAIN qs, j \in JobId :
          /\ priorities' = [priorities EXCEPT ![qs[i]] = @ \ {j}]
          /\ active_jobs' = [active_jobs EXCEPT ![j] = c]
          /\ oneshot' = [oneshot EXCEPT ![c] = j]
    BY <1>2 DEF GetJob
  <2>2. ReadLine(c) /\ UNCHANGED <<jobs, waiters, waiters_to_queue, last_waiter_id>>
    BY <1>2 DEF GetJob, Request
  <2>. QED  BY <2>1, <2>2, ReadLineType, ListedQueues DEF TypeOK
<1>3. ASSUME NEW c \in ClientId, NEW qs \in QueueLists, GetNoJob(c, qs)
      PROVE  TypeOK'
  <2>1. ReadLine(c)
    BY <1>3 DEF GetNoJob, Request
  <2>. QED  BY <1>3, <2>1, ReadLineType DEF GetNoJob, storageVars, TypeOK
<1>4. ASSUME NEW c \in ClientId, NEW qs \in QueueLists, GetWait(c, qs)
      PROVE  TypeOK'
  <2> DEFINE w == last_waiter_id + 1
             queues == {qs[i] : i \in DOMAIN qs}
  <2>1. ReadLine(c)
    BY <1>4 DEF GetWait, Request
  <2>2. w \in WaiterId
    BY <1>4, BoundsAssumption DEF GetWait, WaiterId, TypeOK
  <2>3. [queues |-> queues, client |-> c] \in Waiter
    BY ListedQueues DEF Waiter
  <2>4. last_waiter_id' \in 0..MaxWaits
    BY <1>4, <2>2 DEF GetWait, WaiterId
  <2>5. waiters' \in [QueueId -> SUBSET WaiterId]
    BY <1>4, <2>2 DEF GetWait, TypeOK
  <2>6. waiters_to_queue' \in [WaiterId -> Waiter \union {NoWaiter}]
    BY <1>4, <2>2, <2>3 DEF GetWait, TypeOK
  <2>. QED  BY <1>4, <2>1, <2>4, <2>5, <2>6, ReadLineType DEF GetWait, TypeOK
<1>5. ASSUME NEW c \in ClientId, NEW j \in JobId, Abort(c, j)
      PROVE  TypeOK'
  <2> DEFINE replies == [oneshot EXCEPT ![c] = NoJob]
  <2>1. ReadLine(c) /\ AbortJob(c, j, replies)
    BY <1>5 DEF Abort, Request
  <2>2. replies \in [ClientId -> {Empty, NoJob} \union JobId]
    BY DEF TypeOK
  <2> HIDE DEF replies
  <2>. QED  BY <2>1, <2>2, ReadLineType, AbortJobType DEF TypeOK
<1>6. ASSUME NEW c \in ClientId, NEW j \in JobId, Delete(c, j)
      PROVE  TypeOK'
  <2>1. ReadLine(c)
    BY <1>6 DEF Delete, Request
  <2>2. oneshot' \in [ClientId -> {Empty, NoJob} \union JobId]
    BY <1>6 DEF Delete, TypeOK
  <2>3. active_jobs' \in [JobId -> ClientId \union {NoClient}]
    BY <1>6 DEF Delete, TypeOK
  <2>4. priorities' \in [QueueId -> SUBSET JobId]
    BY <1>6 DEF Delete, TypeOK
  <2>. QED  BY <1>6, <2>1, <2>2, <2>3, <2>4, ReadLineType DEF Delete, TypeOK
<1>7. ASSUME NEW c \in ClientId, BadLine(c)
      PROVE  TypeOK'
  <2>1. ReadLine(c)
    BY <1>7 DEF BadLine
  <2>. QED  BY <1>7, <2>1, ReadLineType DEF BadLine, storageVars, TypeOK
<1>8. ASSUME NEW c \in ClientId, Reply(c)
      PROVE  TypeOK'
  <2>1. owned_messages' \in [ClientId -> SUBSET JobId]
    BY <1>8 DEF Reply, TypeOK
  <2>. QED  BY <1>8, <2>1 DEF Reply, storageVars, TypeOK, TaskState
<1>9. ASSUME NEW c \in ClientId, Disconnect(c)
      PROVE  TypeOK'
  BY <1>9 DEF Disconnect, storageVars, TypeOK
<1>10. ASSUME NEW c \in ClientId, EndOfInput(c)
      PROVE  TypeOK'
  BY <1>10 DEF EndOfInput, storageVars, TypeOK, TaskState
<1>11. ASSUME NEW c \in ClientId, NEW j \in JobId, AbortOwned(c, j)
      PROVE  TypeOK'
  <2>1. AbortJob(c, j, oneshot) /\ oneshot \in [ClientId -> {Empty, NoJob} \union JobId]
    BY <1>11 DEF AbortOwned, TypeOK
  <2>2. owned_messages' \in [ClientId -> SUBSET JobId]
    BY <1>11 DEF AbortOwned, TypeOK
  <2>. QED  BY <1>11, <2>1, <2>2, AbortJobType DEF AbortOwned, TypeOK
<1>12. ASSUME NEW c \in ClientId, Closed(c)
      PROVE  TypeOK'
  BY <1>12 DEF Closed, storageVars, TypeOK, TaskState
<1>13. CASE UNCHANGED vars
  BY <1>13 DEF vars, storageVars, clientVars, TypeOK
<1>. QED
  BY <1>1, <1>2, <1>3, <1>4, <1>5, <1>6, <1>7, <1>8, <1>9, <1>10, <1>11, <1>12, <1>13
  DEF Next

(* Type correctness of the job server, whatever the clients send. *)
THEOREM TypeCorrect == Spec => []TypeOK
BY TypeInit, TypeStep, PTL DEF Spec

-----------------------------------------------------------------------------
(* The same, for the inductive invariant. *)

(* queue_update's two outcomes, with what the registry says of the waiter  *)
(* it serves.                                                              *)
LEMMA QueueUpdateCases ==
  ASSUME TypeOK, RegistryAgrees, NEW q \in QueueId,
         NEW ready \in [QueueId -> SUBSET JobId], NEW active, NEW replies,
         QueueUpdate(q, ready, active, replies)
  PROVE  \/ /\ ready[q] = {} \/ waiters[q] = {}
            /\ priorities' = ready /\ active_jobs' = active /\ oneshot' = replies
            /\ UNCHANGED <<waiters, waiters_to_queue>>
         \/ \E j \in JobId, w \in WaiterId, d \in ClientId :
              /\ j \in ready[q] /\ w \in waiters[q]
              /\ waiters_to_queue[w] \in Waiter /\ waiters_to_queue[w].client = d
              /\ priorities' = [ready EXCEPT ![q] = @ \ {j}]
              /\ active_jobs' = [active EXCEPT ![j] = d]
              /\ oneshot' = [replies EXCEPT ![d] = j]
              /\ waiters' = [r \in QueueId |-> waiters[r] \ {w}]
              /\ waiters_to_queue' = [waiters_to_queue EXCEPT ![w] = NoWaiter]
<1>1. ASSUME NEW j \in ready[q], NEW w \in waiters[q],
             priorities' = [ready EXCEPT ![q] = @ \ {j}],
             active_jobs' = [active EXCEPT ![j] = waiters_to_queue[w].client],
             oneshot' = [replies EXCEPT ![waiters_to_queue[w].client] = j],
             waiters' = [r \in QueueId |-> IF r = q \/ r \in waiters_to_queue[w].queues
                                           THEN waiters[r] \ {w} ELSE waiters[r]],
             waiters_to_queue' = [waiters_to_queue EXCEPT ![w] = NoWaiter]
      PROVE  \E k \in JobId, v \in WaiterId, d \in ClientId :
              /\ k \in ready[q] /\ v \in waiters[q]
              /\ waiters_to_queue[v] \in Waiter /\ waiters_to_queue[v].client = d
              /\ priorities' = [ready EXCEPT ![q] = @ \ {k}]
              /\ active_jobs' = [active EXCEPT ![k] = d]
              /\ oneshot' = [replies EXCEPT ![d] = k]
              /\ waiters' = [r \in QueueId |-> waiters[r] \ {v}]
              /\ waiters_to_queue' = [waiters_to_queue EXCEPT ![v] = NoWaiter]
  <2>1. j \in JobId /\ w \in WaiterId
    BY DEF TypeOK
  <2>2. q \in waiters_to_queue[w].queues
    BY <2>1 DEF RegistryAgrees
  <2>3. waiters_to_queue[w] \in Waiter
    BY <2>1, <2>2 DEF TypeOK, NoWaiter
  <2>4. waiters_to_queue[w].client \in ClientId
    BY <2>3 DEF Waiter
  <2>5. ASSUME NEW r \in QueueId
        PROVE  (IF r = q \/ r \in waiters_to_queue[w].queues
                THEN waiters[r] \ {w} ELSE waiters[r]) = waiters[r] \ {w}
    BY <2>1 DEF RegistryAgrees
  <2>6. waiters' = [r \in QueueId |-> waiters[r] \ {w}]
    BY <1>1, <2>5
  <2>. QED  BY <1>1, <2>1, <2>3, <2>4, <2>6
<1>. QED  BY <1>1 DEF QueueUpdate

(* A handler that ends in queue_update on behalf of client c: ready,       *)
(* active and replies are what it made of the maps before, and satisfy the *)
(* invariant but for a job that may now be available to a waiter.          *)
LEMMA QueueUpdateKeeps ==
  ASSUME IInv, NEW c \in ClientId, NEW q \in QueueId,
         NEW ready \in [QueueId -> SUBSET JobId],
         NEW active \in [JobId -> ClientId \union {NoClient}],
         NEW replies \in [ClientId -> {Empty, NoJob} \union JobId],
         QueueUpdate(q, ready, active, replies),
         last_waiter_id' = last_waiter_id,
         ~Registered(c),
         pc' \in [ClientId -> TaskState],
         \A d \in ClientId \ {c} : pc'[d] = pc[d] /\ replies[d] = oneshot[d],
         replies[c] = Empty <=> pc'[c] # "await",
         \A r \in QueueId \ {q} : ready[r] = priorities[r],
         \/ ready[q] \subseteq priorities[q]
         \/ \E k \in JobId : ready[q] = priorities[q] \union {k},
         \A j \in JobId :
           /\ \A r \in QueueId : j \in ready[r] => /\ j \in 1..Len(jobs')
                                                   /\ jobs'[j].queue = r
                                                   /\ active[j] = NoClient
           /\ active[j] # NoClient => j \in 1..Len(jobs'),
         \A d \in ClientId, j \in JobId :
           active[j] = d => \/ j \in owned_messages'[d] /\ pc'[d] # "closed"
                            \/ replies[d] = j
                            \/ pc'[d] = "dead"
  PROVE  /\ RegistryAgrees' /\ WaiterAwaits' /\ FreshIds'
         /\ ReplyAwaited' /\ ReplyPromised'
         /\ NoIdleWaiter' /\ OneHome' /\ HolderKnows'
<1> USE DEF IInv
<1>1. CASE /\ ready[q] = {} \/ waiters[q] = {}
           /\ priorities' = ready /\ active_jobs' = active /\ oneshot' = replies
           /\ UNCHANGED <<waiters, waiters_to_queue>>
  <2>1. RegistryAgrees' /\ FreshIds'
    BY <1>1 DEF RegistryAgrees, FreshIds
  <2>2. WaiterAwaits'
    BY <1>1 DEF WaiterAwaits, Registered, TypeOK, Waiter, NoWaiter
  <2>3. ReplyAwaited'
    BY <1>1 DEF ReplyAwaited
  <2>4. ReplyPromised'
    BY <1>1 DEF ReplyPromised, Registered
  <2>5. NoIdleWaiter'
    BY <1>1 DEF NoIdleWaiter
  <2>6. OneHome'
    BY <1>1 DEF OneHome
  <2>7. HolderKnows'
    BY <1>1 DEF HolderKnows
  <2>. QED  BY <2>1, <2>2, <2>3, <2>4, <2>5, <2>6, <2>7
<1>2. ASSUME NEW j \in JobId, NEW w \in WaiterId, NEW d \in ClientId,
             j \in ready[q], w \in waiters[q],
             waiters_to_queue[w] \in Waiter, waiters_to_queue[w].client = d,
             priorities' = [ready EXCEPT ![q] = @ \ {j}],
             active_jobs' = [active EXCEPT ![j] = d],
             oneshot' = [replies EXCEPT ![d] = j],
             waiters' = [r \in QueueId |-> waiters[r] \ {w}],
             waiters_to_queue' = [waiters_to_queue EXCEPT ![w] = NoWaiter]
      PROVE  /\ RegistryAgrees' /\ WaiterAwaits' /\ FreshIds'
             /\ ReplyAwaited' /\ ReplyPromised'
             /\ NoIdleWaiter' /\ OneHome' /\ HolderKnows'
  <2>1. d # NoClient /\ d # c
    BY <1>2, ClientAssumption DEF Registered
  <2>2. /\ pc[d] = "await" /\ oneshot[d] = Empty
        /\ \A v \in WaiterId : waiters_to_queue[v].client = d => v = w
    BY <1>2, <2>1 DEF WaiterAwaits
  <2>3. pc'[d] = "await" /\ replies[d] = Empty
    BY <2>1, <2>2
  <2>4. oneshot'[d] = j /\ j # Empty
    BY <1>2 DEF Empty, JobId
  <2>5. \A b \in ClientId \ {d} : oneshot'[b] = replies[b]
    BY <1>2
  <2>6. /\ waiters_to_queue'[w] = NoWaiter
        /\ \A v \in WaiterId \ {w} : waiters_to_queue'[v] = waiters_to_queue[v]
    BY <1>2 DEF TypeOK
  <2>7. /\ active_jobs'[j] = d
        /\ \A k \in JobId \ {j} : active_jobs'[k] = active[k]
    BY <1>2
  <2>8. /\ priorities'[q] = ready[q] \ {j}
        /\ \A r \in QueueId \ {q} : priorities'[r] = priorities[r]
    BY <1>2
  <2>9. RegistryAgrees'
    BY <1>2, <2>6 DEF RegistryAgrees, NoWaiter
  <2>10. WaiterAwaits'
    <3> SUFFICES ASSUME NEW v \in WaiterId, waiters_to_queue'[v].client # NoClient
                 PROVE  LET b == waiters_to_queue'[v].client IN
                        /\ pc'[b] = "await" /\ oneshot'[b] = Empty
                        /\ \A u \in WaiterId : waiters_to_queue'[u].client = b => u = v
      BY DEF WaiterAwaits
    <3> DEFINE b == waiters_to_queue[v].client
    <3>1. v # w /\ waiters_to_queue'[v] = waiters_to_queue[v]
      BY <2>6 DEF NoWaiter
    <3>2. b \in ClientId /\ b # NoClient
      BY <3>1 DEF TypeOK, Waiter, NoWaiter
    <3>3. /\ pc[b] = "await" /\ oneshot[b] = Empty
          /\ \A u \in WaiterId : waiters_to_queue[u].client = b => u = v
      BY <3>2 DEF WaiterAwaits
    <3>4. b # c /\ b # d
      BY <2>2, <3>1, <1>2, <3>3 DEF Registered
    <3>5. pc'[b] = "await" /\ oneshot'[b] = Empty
      BY <3>2, <3>3, <3>4, <2>5
    <3>6. \A u \in WaiterId : waiters_to_queue'[u].client = b => u = v
      BY <3>2, <3>3, <2>6 DEF NoWaiter
    <3>. QED  BY <3>1, <3>5, <3>6
  <2>11. FreshIds'
    BY <2>6 DEF FreshIds
  <2>12. ReplyAwaited'
    BY <2>3, <2>5 DEF ReplyAwaited
  <2>13. ReplyPromised'
    <3> SUFFICES ASSUME NEW b \in ClientId, pc'[b] = "await", oneshot'[b] = Empty
                 PROVE  \E v \in WaiterId : waiters_to_queue'[v].client = b
      BY DEF ReplyPromised, Registered
    <3>1. b # d /\ b # c
      BY <2>1, <2>4, <2>5
    <3>2. PICK v \in WaiterId : waiters_to_queue[v].client = b
      BY <3>1, <2>5 DEF ReplyPromised, Registered
    <3>3. v # w
      BY <3>1, <3>2, <1>2
    <3>. QED  BY <3>2, <3>3, <2>6
  <2>14. NoIdleWaiter'
    <3> SUFFICES ASSUME NEW r \in QueueId
                 PROVE  priorities'[r] = {} \/ waiters'[r] = {}
      BY DEF NoIdleWaiter
    <3>1. CASE r # q
      BY <3>1, <2>8, <1>2 DEF NoIdleWaiter
    <3>2. CASE r = q
      <4>1. priorities[q] = {}
        BY <1>2 DEF NoIdleWaiter
      <4>2. ready[q] = {j}
        BY <4>1, <1>2
      <4>. QED  BY <3>2, <4>2, <2>8
    <3>. QED  BY <3>1, <3>2
  <2>15. OneHome'
    <3> SUFFICES ASSUME NEW k \in JobId
                 PROVE  /\ \A r \in QueueId :
                             k \in priorities'[r] => /\ k \in 1..Len(jobs')
                                                     /\ jobs'[k].queue = r
                                                     /\ active_jobs'[k] = NoClient
                        /\ active_jobs'[k] # NoClient => k \in 1..Len(jobs')
      BY DEF OneHome
    <3>1. CASE k = j
      <4>1. \A r \in QueueId : k \notin priorities'[r]
        BY <3>1, <1>2
      <4>. QED  BY <4>1, <3>1, <1>2
    <3>2. CASE k # j
      BY <3>2, <2>7, <1>2
    <3>. QED  BY <3>1, <3>2
  <2>16. HolderKnows'
    <3> SUFFICES ASSUME NEW b \in ClientId, NEW k \in JobId, active_jobs'[k] = b
                 PROVE  \/ k \in owned_messages'[b] /\ pc'[b] # "closed"
                        \/ oneshot'[b] = k
                        \/ pc'[b] = "dead"
      BY DEF HolderKnows
    <3>1. CASE k = j
      BY <3>1, <2>4, <2>7
    <3>2. CASE k # j /\ b # d
      BY <3>2, <2>5, <2>7
    <3>3. CASE k # j /\ b = d
      <4>1. active[k] = d /\ replies[d] # k
        BY <3>3, <2>3, <2>7 DEF Empty, JobId
      <4>. QED  BY <4>1, <3>3
    <3>. QED  BY <3>1, <3>2, <3>3
  <2>. QED  BY <2>9, <2>10, <2>11, <2>12, <2>13, <2>14, <2>15, <2>16
<1>3. TypeOK /\ RegistryAgrees
  OBVIOUS
<1> HIDE DEF IInv
<1>. QED  BY SMTT(30), <1>1, <1>2, <1>3, QueueUpdateCases

(* The same for an abort, by a request or by the clean-up of task c. *)
LEMMA AbortJobKeeps ==
  ASSUME IInv, NEW c \in ClientId, NEW j \in JobId,
         NEW replies \in [ClientId -> {Empty, NoJob} \union JobId],
         AbortJob(c, j, replies),
         ~Registered(c),
         pc' \in [ClientId -> TaskState],
         \A d \in ClientId \ {c} : /\ pc'[d] = pc[d] /\ replies[d] = oneshot[d]
                                   /\ owned_messages'[d] = owned_messages[d],
         replies[c] = Empty <=> pc'[c] # "await",
         pc'[c] # "closed",
         \A k \in JobId \ {j} : active_jobs[k] = c => k \in owned_messages'[c]
  PROVE  /\ RegistryAgrees' /\ WaiterAwaits' /\ FreshIds'
         /\ ReplyAwaited' /\ ReplyPromised'
         /\ NoIdleWaiter' /\ OneHome' /\ HolderKnows'
<1> DEFINE q == jobs[j].queue
           put == [priorities EXCEPT ![q] = @ \union {j}]
           freed == [active_jobs EXCEPT ![j] = NoClient]
<1>1. TypeOK /\ RegistryAgrees /\ WaiterAwaits /\ FreshIds /\ ReplyAwaited
      /\ ReplyPromised /\ NoIdleWaiter /\ OneHome /\ HolderKnows
  BY DEF IInv
<1>2. jobs' = jobs /\ last_waiter_id' = last_waiter_id
  BY DEF AbortJob
<1>3. \A d \in ClientId \ {c}, k \in JobId :
        active_jobs[k] = d => \/ k \in owned_messages'[d] /\ pc'[d] # "closed"
                              \/ replies[d] = k
                              \/ pc'[d] = "dead"
  BY <1>1 DEF HolderKnows
<1>4. CASE j \notin 1..Len(jobs) \/ active_jobs[j] \notin {c, NoClient}
  <2>1. active_jobs[j] # c
    BY <1>1, <1>4, ClientAssumption DEF OneHome
  <2>2. /\ oneshot' = replies
        /\ UNCHANGED <<priorities, active_jobs, waiters, waiters_to_queue>>
    BY <1>4 DEF AbortJob
  <2>3. RegistryAgrees' /\ FreshIds' /\ NoIdleWaiter'
    BY <1>1, <1>2, <2>2 DEF RegistryAgrees, FreshIds, NoIdleWaiter
  <2>4. OneHome'
    BY <1>1, <1>2, <2>2 DEF OneHome
  <2>5. WaiterAwaits'
    BY <1>1, <2>2 DEF WaiterAwaits, Registered, TypeOK, Waiter, NoWaiter
  <2>6. ReplyAwaited'
    BY <1>1, <2>2 DEF ReplyAwaited
  <2>7. ReplyPromised'
    BY <1>1, <2>2 DEF ReplyPromised, Registered
  <2>8. HolderKnows'
    BY <1>3, <2>1, <2>2 DEF HolderKnows
  <2>. QED  BY <2>3, <2>4, <2>5, <2>6, <2>7, <2>8
<1>5. CASE j \in 1..Len(jobs) /\ active_jobs[j] \in {c, NoClient}
  <2>1. q \in QueueId
    <3>1. jobs \in Seq(JobDetails)
      BY <1>1 DEF TypeOK
    <3>2. jobs[j] \in JobDetails
      BY <3>1, <1>5
    <3>. QED  BY <3>2 DEF JobDetails
  <2>2. priorities \in [QueueId -> SUBSET JobId] /\ active_jobs \in [JobId -> ClientId \union {NoClient}]
    BY <1>1 DEF TypeOK
  <2>3. CASE active_jobs[j] = c
    <3>1. /\ put \in [QueueId -> SUBSET JobId]
          /\ freed \in [JobId -> ClientId \union {NoClient}]
          /\ freed[j] = NoClient
          /\ \A k \in JobId \ {j} : freed[k] = active_jobs[k]
          /\ put[q] = priorities[q] \union {j}
          /\ \A r \in QueueId \ {q} : put[r] = priorities[r]
      BY <2>1, <2>2
    <3>2. QueueUpdate(q, put, freed, replies)
      BY <1>5, <2>3 DEF AbortJob
    <3>3. \A k \in JobId :
            /\ \A r \in QueueId : k \in put[r] => /\ k \in 1..Len(jobs')
                                                  /\ jobs'[k].queue = r
                                                  /\ freed[k] = NoClient
            /\ freed[k] # NoClient => k \in 1..Len(jobs')
      <4> SUFFICES ASSUME NEW k \in JobId
                   PROVE  /\ \A r \in QueueId : k \in put[r] => /\ k \in 1..Len(jobs)
                                                                /\ jobs[k].queue = r
                                                                /\ freed[k] = NoClient
                          /\ freed[k] # NoClient => k \in 1..Len(jobs)
        BY <1>2
      <4> HIDE DEF put, freed
      <4>1. CASE k = j
        BY <4>1, <1>1, <1>5, <2>3, <3>1, ClientAssumption DEF OneHome
      <4>2. CASE k # j
        BY <4>2, <1>1, <3>1 DEF OneHome
      <4>. QED  BY <4>1, <4>2
    <3>4. \A d \in ClientId, k \in JobId :
            freed[k] = d => \/ k \in owned_messages'[d] /\ pc'[d] # "closed"
                            \/ replies[d] = k
                            \/ pc'[d] = "dead"
      BY <1>3, <3>1, ClientAssumption
    <3>5. \E k \in JobId : put[q] = priorities[q] \union {k}
      BY <3>1
    <3>6. \A r \in QueueId \ {q} : put[r] = priorities[r]
      BY <3>1
    <3>7. \A d \in ClientId \ {c} : pc'[d] = pc[d] /\ replies[d] = oneshot[d]
      OBVIOUS
    <3> HIDE DEF q, put, freed
    <3>. QED  BY SMTT(30), <1>2, <2>1, <3>1, <3>2, <3>3, <3>4, <3>5, <3>6, <3>7, QueueUpdateKeeps
  <2>4. CASE active_jobs[j] = NoClient
    <3>1. QueueUpdate(q, priorities, active_jobs, replies)
      BY <1>5, <2>4, ClientAssumption DEF AbortJob
    <3>2. \A k \in JobId :
            /\ \A r \in QueueId : k \in priorities[r] => /\ k \in 1..Len(jobs')
                                                         /\ jobs'[k].queue = r
                                                         /\ active_jobs[k] = NoClient
            /\ active_jobs[k] # NoClient => k \in 1..Len(jobs')
      BY <1>1, <1>2 DEF OneHome
    <3>3. \A d \in ClientId, k \in JobId :
            active_jobs[k] = d => \/ k \in owned_messages'[d] /\ pc'[d] # "closed"
                                  \/ replies[d] = k
                                  \/ pc'[d] = "dead"
      BY <1>3, <2>4, ClientAssumption
    <3> HIDE DEF q
    <3>. QED  BY SMTT(30), <1>2, <2>1, <2>2, <3>1, <3>2, <3>3, QueueUpdateKeeps
  <2>. QED  BY <1>5, <2>3, <2>4
<1>. QED  BY <1>4, <1>5

(* What the handling of a line may assume of the task that read it. *)
LEMMA ReadLineFacts ==
  ASSUME IInv, NEW c \in ClientId, ReadLine(c)
  PROVE  /\ pc[c] = "reading" /\ oneshot[c] = Empty /\ ~Registered(c)
         /\ pc' \in [ClientId -> TaskState] /\ pc'[c] = "await"
         /\ \A d \in ClientId \ {c} : pc'[d] = pc[d]
         /\ owned_messages' = owned_messages
         /\ \A k \in JobId : active_jobs[k] = c => k \in owned_messages[c]
<1>1. pc[c] = "reading" /\ oneshot[c] = Empty
  BY DEF IInv, ReadLine, ReplyAwaited
<1>2. ~Registered(c)
  BY <1>1, ClientAssumption DEF IInv, Registered, WaiterAwaits
<1>3. /\ pc' \in [ClientId -> TaskState] /\ pc'[c] = "await"
      /\ \A d \in ClientId \ {c} : pc'[d] = pc[d]
      /\ owned_messages' = owned_messages
  BY DEF IInv, TypeOK, ReadLine, TaskState
<1>4. \A k \in JobId : active_jobs[k] = c => k \in owned_messages[c]
  BY <1>1 DEF IInv, HolderKnows, Empty, JobId
<1>. QED  BY <1>1, <1>2, <1>3, <1>4

LEMMA InvInit == Init => IInv
<1> SUFFICES ASSUME Init PROVE IInv
  OBVIOUS
<1>1. TypeOK
  BY TypeInit
<1>2. RegistryAgrees /\ WaiterAwaits /\ FreshIds
  BY DEF Init, RegistryAgrees, WaiterAwaits, FreshIds, NoWaiter
<1>3. ReplyAwaited /\ ReplyPromised /\ NoIdleWaiter /\ OneHome
  BY DEF Init, ReplyAwaited, ReplyPromised, NoIdleWaiter, OneHome
<1>4. HolderKnows
  BY ClientAssumption DEF Init, HolderKnows
<1>. QED  BY <1>1, <1>2, <1>3, <1>4 DEF IInv

(* A step that leaves the storage alone and puts a reply without a job in  *)
(* the channel of the task that asked.                                     *)
LEMMA PlainReplyKeeps ==
  ASSUME IInv, NEW c \in ClientId, ReadLine(c),
         oneshot' = [oneshot EXCEPT ![c] = NoJob],
         UNCHANGED <<jobs, waiters, waiters_to_queue, last_waiter_id>>
  PROVE  /\ RegistryAgrees' /\ WaiterAwaits' /\ FreshIds'
         /\ ReplyAwaited' /\ ReplyPromised'
<1>1. oneshot'[c] # Empty /\ \A d \in ClientId \ {c} : oneshot'[d] = oneshot[d]
  BY DEF IInv, TypeOK, Empty, NoJob
<1>2. RegistryAgrees' /\ FreshIds'
  BY DEF IInv, RegistryAgrees, FreshIds
<1>3. WaiterAwaits'
  BY <1>1, ReadLineFacts DEF IInv, WaiterAwaits, Registered, TypeOK, Waiter, NoWaiter
<1>4. ReplyAwaited'
  BY <1>1, ReadLineFacts DEF IInv, ReplyAwaited
<1>5. ReplyPromised'
  BY <1>1, ReadLineFacts DEF IInv, ReplyPromised, Registered
<1>. QED  BY <1>2, <1>3, <1>4, <1>5

LEMMA InvStep == IInv /\ [Next]_vars => IInv'
<1> SUFFICES ASSUME IInv, [Next]_vars PROVE IInv'
  OBVIOUS
<1> DEFINE Rest == /\ RegistryAgrees /\ WaiterAwaits /\ FreshIds
                   /\ ReplyAwaited /\ ReplyPromised
                   /\ NoIdleWaiter /\ OneHome /\ HolderKnows
<1>0. TypeOK /\ TypeOK' /\ Rest
  BY TypeStep DEF IInv
<1>1. ASSUME NEW c \in ClientId, NEW q \in QueueId, NEW p \in Priority, Put(c, q, p)
      PROVE  Rest'
  <2> DEFINE new == Len(jobs) + 1
             put == [priorities EXCEPT ![q] = @ \union {new}]
             replies == [oneshot EXCEPT ![c] = NoJob]
  <2>1. ReadLine(c) /\ QueueUpdate(q, put, active_jobs, replies)
    BY <1>1 DEF Put, Request
  <2>2. /\ new \in JobId
        /\ jobs' = Append(jobs, [queue |-> q, priority |-> p])
        /\ last_waiter_id' = last_waiter_id
    BY <1>0, <1>1, BoundsAssumption DEF Put, TypeOK, JobId
  <2>3. /\ put \in [QueueId -> SUBSET JobId]
        /\ put[q] = priorities[q] \union {new}
        /\ \A r \in QueueId \ {q} : put[r] = priorities[r]
    BY <1>0, <2>2 DEF TypeOK
  <2>4. /\ replies \in [ClientId -> {Empty, NoJob} \union JobId]
        /\ replies[c] # Empty
        /\ \A d \in ClientId \ {c} : replies[d] = oneshot[d]
    BY <1>0 DEF TypeOK, Empty, NoJob
  <2>5. active_jobs \in [JobId -> ClientId \union {NoClient}]
    BY <1>0 DEF TypeOK
  <2>6. /\ jobs'[new].queue = q
        /\ \A k \in 1..Len(jobs) : jobs'[k] = jobs[k]
        /\ Len(jobs') = new
        /\ Len(jobs) \in Nat
    BY <1>0, <2>2 DEF TypeOK
  <2>7. \A k \in JobId :
          /\ \A r \in QueueId : k \in put[r] => /\ k \in 1..Len(jobs')
                                                /\ jobs'[k].queue = r
                                                /\ active_jobs[k] = NoClient
          /\ active_jobs[k] # NoClient => k \in 1..Len(jobs')
    <3> HIDE DEF put, new
    <3> SUFFICES ASSUME NEW k \in JobId
                 PROVE  /\ \A r \in QueueId : k \in put[r] => /\ k \in 1..Len(jobs')
                                                              /\ jobs'[k].queue = r
                                                              /\ active_jobs[k] = NoClient
                        /\ active_jobs[k] # NoClient => k \in 1..Len(jobs')
      OBVIOUS
    <3>0. new = Len(jobs) + 1
      BY DEF new
    <3>1. CASE k = new
      <4>1. active_jobs[k] = NoClient /\ \A r \in QueueId : k \notin priorities[r]
        BY <3>0, <3>1, <1>0, <2>6 DEF OneHome
      <4>. QED  BY <3>0, <3>1, <4>1, <2>3, <2>6
    <3>2. CASE k # new
      <4>1. \A r \in QueueId : k \in put[r] => k \in priorities[r]
        BY <3>2, <2>3
      <4>2. k \in 1..Len(jobs) => k \in 1..Len(jobs') /\ jobs'[k] = jobs[k]
        BY <3>0, <2>6
      <4>. QED  BY <4>1, <4>2, <1>0 DEF OneHome
    <3>. QED  BY <3>1, <3>2
  <2>8. \A d \in ClientId, k \in JobId :
          active_jobs[k] = d => \/ k \in owned_messages'[d] /\ pc'[d] # "closed"
                               \/ replies[d] = k
                               \/ pc'[d] = "dead"
    <3> HIDE DEF replies
    <3>1. ASSUME NEW k \in JobId, active_jobs[k] = c
          PROVE  k \in owned_messages'[c] /\ pc'[c] # "closed"
      BY <2>1, <3>1, ReadLineFacts
    <3>2. ASSUME NEW d \in ClientId \ {c}, NEW k \in JobId, active_jobs[k] = d
          PROVE  \/ k \in owned_messages'[d] /\ pc'[d] # "closed"
                 \/ replies[d] = k
                 \/ pc'[d] = "dead"
      BY <1>0, <2>1, <2>4, <3>2, ReadLineFacts DEF HolderKnows
    <3>. QED  BY <3>1, <3>2
  <2>9. \E k \in JobId : put[q] = priorities[q] \union {k}
    BY <2>2, <2>3
  <2>10. /\ ~Registered(c)
         /\ pc' \in [ClientId -> TaskState] /\ pc'[c] = "await"
         /\ \A d \in ClientId \ {c} : pc'[d] = pc[d]
    BY <2>1, ReadLineFacts
  <2>11. \A d \in ClientId \ {c} : pc'[d] = pc[d] /\ replies[d] = oneshot[d]
    BY <2>4, <2>10
  <2>12. replies[c] = Empty <=> pc'[c] # "await"
    BY <2>4, <2>10
  <2>13. \A r \in QueueId \ {q} : put[r] = priorities[r]
    BY <2>3
  <2>14. QueueUpdate(q, put, active_jobs, replies)
    BY <2>1
  <2>15. last_waiter_id' = last_waiter_id
    BY <2>2
  <2>16. put \in [QueueId -> SUBSET JobId] /\ replies \in [ClientId -> {Empty, NoJob} \union JobId]
    BY <2>3, <2>4
  <2>17. ~Registered(c) /\ pc' \in [ClientId -> TaskState]
    BY <2>10
  <2> HIDE DEF put, replies, new
  <2>. QED  BY SMTT(30), <2>5, <2>7, <2>8, <2>9, <2>11, <2>12, <2>13, <2>14, <2>15, <2>16, <2>17,
               QueueUpdateKeeps
<1>2. ASSUME NEW c \in ClientId, NEW qs \in QueueLists, GetJob(c, qs)
      PROVE  Rest'
  <2>1. PICK i \in DOMAIN qs, j \in JobId :
          /\ j \in priorities[qs[i]]
          /\ priorities' = [priorities EXCEPT ![qs[i]] = @ \ {j}]
          /\ active_jobs' = [active_jobs EXCEPT ![j] = c]
          /\ oneshot' = [oneshot EXCEPT ![c] = j]
    BY <1>2 DEF GetJob, IsBest
  <2> DEFINE q == qs[i]
  <2>2. ReadLine(c) /\ UNCHANGED <<jobs, waiters, waiters_to_queue, last_waiter_id>>
    BY <1>2 DEF GetJob, Request
  <2>3. q \in QueueId
    BY ListedQueues
  <2> HIDE DEF q
  <2>4. /\ priorities'[q] = priorities[q] \ {j}
        /\ \A r \in QueueId \ {q} : priorities'[r] = priorities[r]
        /\ active_jobs'[j] = c
        /\ \A k \in JobId \ {j} : active_jobs'[k] = active_jobs[k]
        /\ oneshot'[c] = j
        /\ \A d \in ClientId \ {c} : oneshot'[d] = oneshot[d]
    BY <1>0, <2>1, <2>3 DEF TypeOK, q
  <2>5. j # Empty
    BY DEF JobId, Empty
  <2>6. RegistryAgrees' /\ FreshIds'
    BY <1>0, <2>2 DEF RegistryAgrees, FreshIds
  <2>7. WaiterAwaits'
    BY <1>0, <2>2, <2>4, ReadLineFacts DEF WaiterAwaits, Registered, TypeOK, Waiter, NoWaiter
  <2>8. ReplyAwaited'
    BY <1>0, <2>2, <2>4, ReadLineFacts DEF ReplyAwaited
  <2>9. ReplyPromised'
    BY <1>0, <2>2, <2>4, <2>5, ReadLineFacts DEF ReplyPromised, Registered
  <2>10. NoIdleWaiter'
    BY <1>0, <2>2, <2>4 DEF NoIdleWaiter
  <2>11. OneHome'
    <3>1. j \in 1..Len(jobs) /\ jobs[j].queue = q
      BY <1>0, <2>1, <2>3 DEF OneHome, q
    <3>2. \A r \in QueueId : j \notin priorities'[r]
      BY <1>0, <2>4, <3>1 DEF OneHome
    <3>3. \A r \in QueueId : priorities'[r] \subseteq priorities[r]
      BY <2>4
    <3>. QED  BY <1>0, <2>2, <2>4, <3>1, <3>2, <3>3 DEF OneHome
  <2>12. HolderKnows'
    BY <1>0, <2>2, <2>4, ReadLineFacts DEF HolderKnows
  <2>. QED  BY <2>6, <2>7, <2>8, <2>9, <2>10, <2>11, <2>12
<1>3. ASSUME NEW c \in ClientId, ReadLine(c), oneshot' = [oneshot EXCEPT ![c] = NoJob],
             UNCHANGED storageVars
      PROVE  Rest'
  <2>1. UNCHANGED <<jobs, priorities, active_jobs, waiters, waiters_to_queue, last_waiter_id>>
    BY <1>3 DEF storageVars
  <2>2. /\ RegistryAgrees' /\ WaiterAwaits' /\ FreshIds'
        /\ ReplyAwaited' /\ ReplyPromised'
    BY <1>3, <2>1, PlainReplyKeeps
  <2>3. NoIdleWaiter' /\ OneHome'
    BY <1>0, <2>1 DEF NoIdleWaiter, OneHome
  <2>4. HolderKnows'
    <3>1. \A d \in ClientId \ {c} : oneshot'[d] = oneshot[d]
      BY <1>0, <1>3 DEF TypeOK
    <3>. QED  BY <1>0, <1>3, <2>1, <3>1, ReadLineFacts DEF HolderKnows
  <2>. QED  BY <2>2, <2>3, <2>4
<1>4. ASSUME NEW c \in ClientId, NEW qs \in QueueLists, GetWait(c, qs)
      PROVE  Rest'
  <2> DEFINE w == last_waiter_id + 1
             listed == {qs[i] : i \in DOMAIN qs}
  <2>1. ReadLine(c) /\ UNCHANGED <<jobs, priorities, active_jobs, oneshot>>
    BY <1>4 DEF GetWait, Request
  <2>2. w \in WaiterId /\ last_waiter_id' = w
    BY <1>0, <1>4, BoundsAssumption DEF GetWait, WaiterId, TypeOK
  <2>3. waiters_to_queue[w] = NoWaiter
    BY <1>0, <2>2 DEF FreshIds, TypeOK
  <2>4. /\ waiters_to_queue'[w] = [queues |-> listed, client |-> c]
        /\ \A v \in WaiterId \ {w} : waiters_to_queue'[v] = waiters_to_queue[v]
    BY <1>0, <1>4, <2>2 DEF GetWait, TypeOK
  <2>5. \A q \in QueueId :
          waiters'[q] = IF q \in listed THEN waiters[q] \union {w} ELSE waiters[q]
    BY <1>4 DEF GetWait
  <2>6. \A q \in listed : priorities[q] = {}
    BY <1>4 DEF GetWait, NothingReady
  <2>7. \A q \in QueueId : w \notin waiters[q]
    BY <1>0, <2>2, <2>3 DEF RegistryAgrees, NoWaiter
  <2>8. FreshIds'
    BY <1>0, <2>2, <2>4 DEF FreshIds, TypeOK, WaiterId
  <2> HIDE DEF w, listed
  <2>9. RegistryAgrees'
    <3> SUFFICES ASSUME NEW q \in QueueId, NEW v \in WaiterId
                 PROVE  v \in waiters'[q] <=> q \in waiters_to_queue'[v].queues
      BY DEF RegistryAgrees
    <3>0. waiters'[q] = IF q \in listed THEN waiters[q] \union {w} ELSE waiters[q]
      BY <2>5
    <3>1. CASE v = w
      <4>1. waiters_to_queue'[v].queues = listed
        BY <3>1, <2>4
      <4>2. v \notin waiters[q]
        BY <3>1, <2>7
      <4>. QED  BY <3>0, <3>1, <4>1, <4>2
    <3>2. CASE v # w
      <4>1. waiters_to_queue'[v] = waiters_to_queue[v]
        BY <3>2, <2>4
      <4>2. v \in waiters'[q] <=> v \in waiters[q]
        BY <3>0, <3>2
      <4>. QED  BY <1>0, <4>1, <4>2 DEF RegistryAgrees
    <3>. QED  BY <3>1, <3>2
  <2>10. WaiterAwaits'
    <3>1. \A v \in WaiterId : waiters_to_queue[v].client # c
      BY <2>1, ReadLineFacts DEF Registered
    <3>2. pc'[c] = "await" /\ oneshot'[c] = Empty
      BY <2>1, ReadLineFacts
    <3>3. ASSUME NEW v \in WaiterId \ {w}, waiters_to_queue'[v].client # NoClient
          PROVE  /\ pc'[waiters_to_queue'[v].client] = "await"
                 /\ oneshot'[waiters_to_queue'[v].client] = Empty
      <4>1. /\ waiters_to_queue'[v].client = waiters_to_queue[v].client
            /\ waiters_to_queue[v].client \in ClientId \ {c}
        BY <1>0, <2>4, <3>1, <3>3 DEF TypeOK, Waiter, NoWaiter
      <4>. QED  BY <1>0, <2>1, <3>3, <4>1, ReadLineFacts DEF WaiterAwaits
    <3>. QED  BY <1>0, <2>4, <3>1, <3>2, <3>3 DEF WaiterAwaits
  <2>11. ReplyAwaited'
    BY <1>0, <2>1, ReadLineFacts DEF ReplyAwaited
  <2>12. ReplyPromised'
    <3>1. ASSUME NEW d \in ClientId \ {c}, Registered(d)
          PROVE  Registered(d)'
      <4>1. PICK v \in WaiterId : waiters_to_queue[v].client = d
        BY <3>1 DEF Registered
      <4>2. CASE v # w
        BY <4>1, <4>2, <2>4 DEF Registered
      <4>3. CASE v = w
        BY <4>1, <4>3, <2>3, ClientAssumption DEF NoWaiter
      <4>. QED  BY <4>2, <4>3
    <3>2. Registered(c)'
      BY <2>2, <2>4 DEF Registered
    <3>. QED  BY <1>0, <2>1, <3>1, <3>2, ReadLineFacts DEF ReplyPromised
  <2>13. NoIdleWaiter'
    BY <1>0, <2>1, <2>5, <2>6 DEF NoIdleWaiter
  <2>14. OneHome'
    BY <1>0, <2>1 DEF OneHome
  <2>15. HolderKnows'
    BY <1>0, <2>1, ReadLineFacts DEF HolderKnows
  <2>. QED  BY <2>8, <2>9, <2>10, <2>11, <2>12, <2>13, <2>14, <2>15
<1>5. ASSUME NEW c \in ClientId, NEW j \in JobId, Abort(c, j)
      PROVE  Rest'
  <2> DEFINE replies == [oneshot EXCEPT ![c] = NoJob]
  <2>1. ReadLine(c) /\ AbortJob(c, j, replies)
    BY <1>5 DEF Abort, Request
  <2>2. /\ replies \in [ClientId -> {Empty, NoJob} \union JobId]
        /\ replies[c] # Empty
        /\ \A d \in ClientId \ {c} : replies[d] = oneshot[d]
    BY <1>0 DEF TypeOK, Empty, NoJob
  <2> HIDE DEF replies
  <2>. QED  BY <2>1, <2>2, ReadLineFacts, AbortJobKeeps
<1>6. ASSUME NEW c \in ClientId, NEW j \in JobId, Delete(c, j)
      PROVE  Rest'
  <2>1. /\ ReadLine(c) /\ oneshot' = [oneshot EXCEPT ![c] = NoJob]
        /\ UNCHANGED <<jobs, waiters, waiters_to_queue, last_waiter_id>>
    BY <1>6 DEF Delete, Request
  <2>2. /\ RegistryAgrees' /\ WaiterAwaits' /\ FreshIds'
        /\ ReplyAwaited' /\ ReplyPromised'
    BY <2>1, PlainReplyKeeps
  <2>3. \A q \in QueueId : priorities'[q] \subseteq priorities[q]
    BY <1>0, <1>6 DEF Delete, TypeOK
  <2>4. \A k \in JobId : active_jobs'[k] \in {active_jobs[k], NoClient}
    BY <1>0, <1>6 DEF Delete, TypeOK
  <2>5. NoIdleWaiter'
    BY <1>0, <2>1, <2>3 DEF NoIdleWaiter
  <2>6. OneHome'
    BY <1>0, <2>1, <2>3, <2>4 DEF OneHome
  <2>7. HolderKnows'
    <3>1. \A d \in ClientId \ {c} : oneshot'[d] = oneshot[d]
      BY <1>0, <2>1 DEF TypeOK
    <3>. QED  BY <1>0, <2>1, <2>4, <3>1, ReadLineFacts, ClientAssumption DEF HolderKnows
  <2>. QED  BY <2>2, <2>5, <2>6, <2>7
<1>7. ASSUME NEW c \in ClientId, Reply(c)
      PROVE  Rest'
  <2>1. /\ UNCHANGED <<jobs, priorities, active_jobs, waiters, waiters_to_queue, last_waiter_id>>
        /\ pc[c] = "await" /\ oneshot[c] # Empty
        /\ oneshot'[c] = Empty
        /\ \A d \in ClientId \ {c} : oneshot'[d] = oneshot[d]
        /\ pc'[c] \in {"reading", "dead"}
        /\ \A d \in ClientId \ {c} : pc'[d] = pc[d]
    BY <1>0, <1>7 DEF Reply, storageVars, TypeOK
  <2>2. \A d \in ClientId, k \in JobId :
          k \in owned_messages[d] \/ (d = c /\ k = oneshot[c]) => k \in owned_messages'[d]
    BY <1>0, <1>7 DEF Reply, TypeOK
  <2>3. RegistryAgrees' /\ FreshIds' /\ NoIdleWaiter' /\ OneHome'
    BY <1>0, <2>1 DEF RegistryAgrees, FreshIds, NoIdleWaiter, OneHome
  <2>4. WaiterAwaits'
    BY <1>0, <2>1 DEF WaiterAwaits, TypeOK, Waiter, NoWaiter
  <2>5. ReplyAwaited' /\ ReplyPromised'
    BY <1>0, <2>1 DEF ReplyAwaited, ReplyPromised, Registered
  <2>6. HolderKnows'
    BY <1>0, <2>1, <2>2 DEF HolderKnows
  <2>. QED  BY <2>3, <2>4, <2>5, <2>6
<1>8. ASSUME NEW c \in ClientId, Disconnect(c)
      PROVE  Rest'
  BY <1>0, <1>8 DEF Disconnect, storageVars, RegistryAgrees, WaiterAwaits, FreshIds,
     ReplyAwaited, ReplyPromised, Registered, NoIdleWaiter, OneHome, HolderKnows
<1>9. ASSUME NEW c \in ClientId, pc[c] \in {"reading", "closing"},
             pc' = [pc EXCEPT ![c] = "closing"] \/ pc' = [pc EXCEPT ![c] = "closed"],
             pc'[c] = "closed" => owned_messages[c] = {},
             UNCHANGED <<storageVars, up, oneshot, owned_messages>>
      PROVE  Rest'
  <2>1. /\ UNCHANGED <<jobs, priorities, active_jobs, waiters, waiters_to_queue, last_waiter_id>>
        /\ \A d \in ClientId \ {c} : pc'[d] = pc[d]
        /\ pc'[c] \in {"closing", "closed"}
    BY <1>0, <1>9 DEF storageVars, TypeOK
  <2>2. RegistryAgrees' /\ FreshIds' /\ NoIdleWaiter' /\ OneHome'
    BY <1>0, <2>1 DEF RegistryAgrees, FreshIds, NoIdleWaiter, OneHome
  <2>3. WaiterAwaits'
    BY <1>0, <1>9, <2>1 DEF WaiterAwaits, TypeOK, Waiter, NoWaiter
  <2>4. ReplyAwaited' /\ ReplyPromised'
    BY <1>0, <1>9, <2>1 DEF ReplyAwaited, ReplyPromised, Registered
  <2>5. HolderKnows'
    <3>1. oneshot[c] = Empty
      BY <1>0, <1>9 DEF ReplyAwaited
    <3>. QED  BY <1>0, <1>9, <2>1, <3>1 DEF HolderKnows, Empty, JobId
  <2>. QED  BY <2>2, <2>3, <2>4, <2>5
<1>10. ASSUME NEW c \in ClientId, NEW j \in JobId, AbortOwned(c, j)
       PROVE  Rest'
  <2>1. /\ AbortJob(c, j, oneshot)
        /\ pc[c] = "closing" /\ pc' = pc
        /\ owned_messages' = [owned_messages EXCEPT ![c] = @ \ {j}]
    BY <1>10 DEF AbortOwned
  <2>2. oneshot[c] = Empty /\ ~Registered(c)
    BY <1>0, <2>1, ClientAssumption DEF ReplyAwaited, Registered, WaiterAwaits
  <2>3. oneshot \in [ClientId -> {Empty, NoJob} \union JobId] /\ pc' \in [ClientId -> TaskState]
    BY <1>0 DEF TypeOK
  <2>4. \A d \in ClientId \ {c} : owned_messages'[d] = owned_messages[d]
    BY <1>0, <2>1 DEF TypeOK
  <2>5. \A k \in JobId \ {j} : active_jobs[k] = c => k \in owned_messages'[c]
    <3>1. \A k \in JobId : active_jobs[k] = c => k \in owned_messages[c]
      BY <1>0, <2>1, <2>2 DEF HolderKnows, Empty, JobId
    <3>2. owned_messages'[c] = owned_messages[c] \ {j}
      BY <1>0, <2>1 DEF TypeOK
    <3>. QED  BY <3>1, <3>2
  <2>. QED  BY <2>1, <2>2, <2>3, <2>4, <2>5, AbortJobKeeps
<1>11. ASSUME UNCHANGED vars
       PROVE  Rest'
  BY <1>0, <1>11 DEF vars, storageVars, clientVars, RegistryAgrees, WaiterAwaits, FreshIds,
     ReplyAwaited, ReplyPromised, Registered, NoIdleWaiter, OneHome, HolderKnows
<1>12. ASSUME NEW c \in ClientId,
              \/ \E qs \in QueueLists : GetNoJob(c, qs)
              \/ BadLine(c)
       PROVE  Rest'
  BY <1>3, <1>12 DEF GetNoJob, BadLine, Request
<1>13. ASSUME NEW c \in ClientId, EndOfInput(c) \/ Closed(c)
       PROVE  Rest'
  <2>1. CASE EndOfInput(c)
    <3>1. pc'[c] = "closing"
      BY <1>0, <2>1 DEF EndOfInput, TypeOK
    <3>. QED  BY <1>9, <2>1, <3>1 DEF EndOfInput
  <2>2. CASE Closed(c)
    BY <1>9, <2>2 DEF Closed
  <2>. QED  BY <1>13, <2>1, <2>2
<1> HIDE DEF Rest
<1>14. Rest'
  BY <1>1, <1>2, <1>4, <1>5, <1>6, <1>7, <1>8, <1>10, <1>11, <1>12, <1>13 DEF Next
<1>. QED  BY <1>0, <1>14 DEF IInv, Rest

LEMMA InvCorrect == Spec => []IInv
BY InvInit, InvStep, PTL DEF Spec

(* No lost wakeup, however the requests and disconnections interleave.     *)
THEOREM NoLostWakeup == Spec => []NoIdleWaiter
BY InvCorrect, PTL DEF IInv

(* A job is in one place, so no job is given to two clients.               *)
THEOREM OneHomeAlways == Spec => []OneHome
BY InvCorrect, PTL DEF IInv

(* A registered waiter exists and awaits, so the unwraps in queue_update,  *)
(* made with the lock held, never fail; and nobody awaits a reply that     *)
(* cannot come.                                                            *)
THEOREM WaitersServable == Spec => []RegistrationsSound
BY InvCorrect, PTL DEF IInv, RegistrationsSound

(* A task knows the jobs that are active for it, until it dies.            *)
THEOREM HoldersKnow == Spec => []HolderKnows
BY InvCorrect, PTL DEF IInv

-----------------------------------------------------------------------------
(* JobQueue implements JobBoard, for every value of the constants: every   *)
(* step of the server is a step of the board, or leaves it as it is.       *)
Waiting == [c \in ClientId |-> WaitingOn(c)]

LEMMA AvailableFacts ==
  ASSUME IInv, NEW j
  PROVE  /\ j \in Available <=> \E q \in QueueId : j \in priorities[q]
         /\ j \in Available => /\ j \in JobId
                               /\ j \in 1..Len(jobs)
                               /\ j \in priorities[jobs[j].queue]
                               /\ jobs[j].queue \in QueueId
                               /\ active_jobs[j] = NoClient
<1>1. j \in Available <=> \E q \in QueueId : j \in priorities[q]
  BY DEF Available
<1>2. ASSUME NEW q \in QueueId, j \in priorities[q]
      PROVE  /\ j \in JobId
             /\ j \in 1..Len(jobs)
             /\ j \in priorities[jobs[j].queue]
             /\ jobs[j].queue \in QueueId
             /\ active_jobs[j] = NoClient
  <2>1. j \in JobId
    BY <1>2 DEF IInv, TypeOK
  <2>2. jobs[j].queue = q /\ j \in 1..Len(jobs) /\ active_jobs[j] = NoClient
    BY <1>2, <2>1 DEF IInv, OneHome
  <2>. QED  BY <1>2, <2>1, <2>2
<1>. QED  BY <1>1, <1>2

(* A queue with a waiting client, and only such a queue, has a waiter. *)
LEMMA WaitingFacts ==
  ASSUME IInv, NEW c \in ClientId
  PROVE  /\ WaitingOn(c) \subseteq QueueId
         /\ ~Registered(c) => WaitingOn(c) = {}
         /\ \A q \in QueueId : q \in WaitingOn(c) => waiters[q] # {}
<1>1. WaitingOn(c) \subseteq QueueId
  BY DEF WaitingOn
<1>2. ASSUME NEW q \in QueueId, q \in WaitingOn(c)
      PROVE  Registered(c) /\ waiters[q] # {}
  <2>1. PICK w \in waiters[q] : waiters_to_queue[w].client = c
    BY <1>2 DEF WaitingOn
  <2>2. w \in WaiterId
    BY DEF IInv, TypeOK
  <2>. QED  BY <2>1, <2>2 DEF Registered
<1>. QED  BY <1>1, <1>2

(* A job that nobody holds and no queue has is offered by queue_update.    *)
LEMMA OfferStep ==
  ASSUME IInv, NEW k \in JobId, NEW q \in QueueId, NEW replies,
         k \notin Available,
         NEW ready \in [QueueId -> SUBSET JobId],
         ready[q] = priorities[q] \union {k},
         \A r \in QueueId \ {q} : ready[r] = priorities[r],
         NEW active \in [JobId -> ClientId \union {NoClient}],
         active[k] = NoClient,
         \A i \in JobId \ {k} : active[i] = active_jobs[i],
         QueueUpdate(q, ready, active, replies)
  PROVE  Board!Offer(k, q)
<1>1. TypeOK /\ RegistryAgrees /\ WaiterAwaits /\ NoIdleWaiter
  BY DEF IInv
<1>2. /\ ready \in [QueueId -> SUBSET JobId]
      /\ ready[q] = priorities[q] \union {k}
      /\ \A r \in QueueId \ {q} : ready[r] = priorities[r]
      /\ active = [active_jobs EXCEPT ![k] = NoClient]
  BY <1>1 DEF TypeOK
<1>3. CASE /\ ready[q] = {} \/ waiters[q] = {}
           /\ priorities' = ready /\ active_jobs' = active /\ oneshot' = replies
           /\ UNCHANGED <<waiters, waiters_to_queue>>
  <2>1. waiters[q] = {}
    BY <1>2, <1>3
  <2>2. \A c \in ClientId : q \notin Waiting[c]
    BY <2>1, WaitingFacts DEF Waiting
  <2>3. Available' = Available \union {k}
    BY <1>2, <1>3 DEF Available
  <2>4. Waiting' = Waiting
    BY <1>3 DEF Waiting, WaitingOn
  <2>. QED  BY <1>2, <1>3, <2>2, <2>3, <2>4 DEF Board!Offer, Waiting
<1>4. ASSUME NEW j \in JobId, NEW w \in WaiterId, NEW d \in ClientId,
             j \in ready[q], w \in waiters[q],
             waiters_to_queue[w] \in Waiter, waiters_to_queue[w].client = d,
             priorities' = [ready EXCEPT ![q] = @ \ {j}],
             active_jobs' = [active EXCEPT ![j] = d],
             waiters' = [r \in QueueId |-> waiters[r] \ {w}],
             waiters_to_queue' = [waiters_to_queue EXCEPT ![w] = NoWaiter]
      PROVE  Board!Offer(k, q)
  <2>1. priorities[q] = {} /\ j = k
    BY <1>1, <1>2, <1>4 DEF NoIdleWaiter
  <2>2. Available' = Available
    <3>1. \A r \in QueueId : priorities'[r] = priorities[r]
      BY <1>2, <1>4, <2>1
    <3>. QED  BY <3>1 DEF Available
  <2>3. active_jobs' = [active_jobs EXCEPT ![k] = d]
    BY <1>1, <1>2, <1>4, <2>1 DEF TypeOK
  <2>4. q \in Waiting[d]
    BY <1>4 DEF Waiting, WaitingOn
  <2>5. d # NoClient /\ \A v \in WaiterId : waiters_to_queue[v].client = d => v = w
    BY <1>1, <1>4, ClientAssumption DEF WaiterAwaits
  <2>6. Waiting' = [Waiting EXCEPT ![d] = {}]
    <3>1. ASSUME NEW c \in ClientId
          PROVE  WaitingOn(c)' = IF c = d THEN {} ELSE WaitingOn(c)
      <4>1. ASSUME NEW r \in QueueId
            PROVE  (\E v \in waiters'[r] : waiters_to_queue'[v].client = c)
                     <=> c # d /\ \E v \in waiters[r] : waiters_to_queue[v].client = c
        <5>1. \A v \in waiters[r] : v \in WaiterId
          BY <1>1 DEF TypeOK
        <5>2. waiters'[r] = waiters[r] \ {w}
          BY <1>4
        <5>3. \A v \in WaiterId \ {w} : waiters_to_queue'[v] = waiters_to_queue[v]
          BY <1>1, <1>4 DEF TypeOK
        <5>. QED  BY <1>4, <2>5, <5>1, <5>2, <5>3
      <4>2. WaitingOn(c)' = {r \in QueueId : \E v \in waiters'[r] : waiters_to_queue'[v].client = c}
        BY DEF WaitingOn
      <4>3. WaitingOn(c) = {r \in QueueId : \E v \in waiters[r] : waiters_to_queue[v].client = c}
        BY DEF WaitingOn
      <4>. QED  BY <4>1, <4>2, <4>3
    <3>2. Waiting' = [c \in ClientId |-> WaitingOn(c)']
      BY DEF Waiting
    <3>. QED  BY <3>1, <3>2 DEF Waiting
  <2>. QED  BY <2>2, <2>3, <2>4, <2>6 DEF Board!Offer, Waiting
<1> HIDE DEF Waiting
<1>. QED  BY SMTT(30), <1>1, <1>3, <1>4, QueueUpdateCases

LEMMA SameBoard ==
  ASSUME UNCHANGED <<jobs, priorities, active_jobs, waiters, waiters_to_queue>>
  PROVE  UNCHANGED Board!boardVars
BY DEF Board!boardVars, Available, WaitingOn

LEMMA AbortStep ==
  ASSUME IInv, NEW c \in ClientId, NEW j \in JobId, NEW replies, AbortJob(c, j, replies)
  PROVE  Board!Release(c, j) \/ UNCHANGED Board!boardVars
<1> DEFINE q == jobs[j].queue
           put == [priorities EXCEPT ![q] = @ \union {j}]
           freed == [active_jobs EXCEPT ![j] = NoClient]
<1>1. jobs' = jobs
  BY DEF AbortJob
<1>2. CASE j \notin 1..Len(jobs) \/ active_jobs[j] \notin {c, NoClient}
  BY <1>1, <1>2, SameBoard DEF AbortJob
<1>3. CASE j \in 1..Len(jobs) /\ active_jobs[j] \in {c, NoClient}
  <2>1. q \in QueueId
    <3>1. jobs \in Seq(JobDetails)
      BY DEF IInv, TypeOK
    <3>2. jobs[j] \in JobDetails
      BY <3>1, <1>3
    <3>. QED  BY <3>2 DEF JobDetails
  <2>2. CASE active_jobs[j] = c
    <3>1. QueueUpdate(q, put, freed, replies)
      BY <1>3, <2>2 DEF AbortJob
    <3>2. j \notin Available
      BY <2>2, AvailableFacts, ClientAssumption
    <3>3. /\ put \in [QueueId -> SUBSET JobId]
          /\ put[q] = priorities[q] \union {j}
          /\ \A r \in QueueId \ {q} : put[r] = priorities[r]
          /\ freed \in [JobId -> ClientId \union {NoClient}]
          /\ freed[j] = NoClient
          /\ \A i \in JobId \ {j} : freed[i] = active_jobs[i]
      BY <2>1 DEF IInv, TypeOK
    <3>4. Board!Offer(j, q)
      <4> HIDE DEF q, put, freed
      <4>. QED  BY <2>1, <3>1, <3>2, <3>3, OfferStep
    <3>. QED  BY <1>1, <2>2, <3>4 DEF Board!Release
  <2>3. CASE active_jobs[j] = NoClient
    <3>1. QueueUpdate(q, priorities, active_jobs, replies)
      BY <1>3, <2>3, ClientAssumption DEF AbortJob
    <3>2. priorities[q] = {} \/ waiters[q] = {}
      BY <2>1 DEF IInv, NoIdleWaiter
    <3>3. UNCHANGED <<priorities, active_jobs, waiters, waiters_to_queue>>
      BY <3>1, <3>2 DEF QueueUpdate
    <3>. QED  BY <1>1, <3>3, SameBoard
  <2>. QED  BY <1>3, <2>2, <2>3
<1>. QED  BY <1>2, <1>3

LEMMA BoardInit == Init => Board!Init
<1> SUFFICES ASSUME Init PROVE Board!Init
  OBVIOUS
<1>1. Available = {}
  BY DEF Init, Available
<1>2. \A c \in ClientId : WaitingOn(c) = {}
  BY DEF Init, WaitingOn
<1>3. active_jobs = [j \in 1..MaxJobs |-> NoClient]
  BY DEF Init, JobId
<1>. QED  BY <1>1, <1>2, <1>3 DEF Init, Board!Init

LEMMA BoardStep == IInv /\ IInv' /\ [Next]_vars => [Board!Next]_(Board!boardVars)
<1> SUFFICES ASSUME IInv, IInv', [Next]_vars
             PROVE  Board!Next \/ UNCHANGED Board!boardVars
  OBVIOUS
<1>0. TypeOK
  BY DEF IInv
<1>1. ASSUME NEW c \in ClientId, NEW q \in QueueId, NEW p \in Priority, Put(c, q, p)
      PROVE  Board!Next
  <2> DEFINE new == Len(jobs) + 1
             put == [priorities EXCEPT ![q] = @ \union {new}]
  <2>1. /\ new \in JobId /\ new \notin 1..Len(jobs)
        /\ Len(jobs) < MaxJobs
        /\ jobs' = Append(jobs, [queue |-> q, priority |-> p])
    BY <1>0, <1>1, BoundsAssumption DEF Put, TypeOK, JobId
  <2>2. QueueUpdate(q, put, active_jobs, [oneshot EXCEPT ![c] = NoJob])
    BY <1>1 DEF Put
  <2>3. new \notin Available
    BY <2>1, AvailableFacts
  <2>4. active_jobs[new] = NoClient
    BY <2>1 DEF IInv, OneHome
  <2>5. /\ put \in [QueueId -> SUBSET JobId]
        /\ put[q] = priorities[q] \union {new}
        /\ \A r \in QueueId \ {q} : put[r] = priorities[r]
        /\ active_jobs \in [JobId -> ClientId \union {NoClient}]
    BY <1>0, <2>1 DEF TypeOK
  <2> HIDE DEF new, put
  <2>6. Board!Offer(new, q)
    BY <2>1, <2>2, <2>3, <2>4, <2>5, OfferStep
  <2>7. Board!Post(q, p)
    BY <2>1, <2>6 DEF Board!Post, new
  <2>. QED  BY <2>7 DEF Board!Next
<1>2. ASSUME NEW c \in ClientId, NEW qs \in QueueLists, GetJob(c, qs)
      PROVE  Board!Next
  <2>1. PICK i \in DOMAIN qs, j \in JobId :
          /\ IsBest(jobs, j, priorities[qs[i]])
          /\ priorities' = [priorities EXCEPT ![qs[i]] = @ \ {j}]
          /\ active_jobs' = [active_jobs EXCEPT ![j] = c]
    BY <1>2 DEF GetJob
  <2> DEFINE q == qs[i]
  <2>2. ReadLine(c) /\ UNCHANGED <<jobs, waiters, waiters_to_queue>>
    BY <1>2 DEF GetJob, Request
  <2>3. q \in QueueId /\ {q} \in SUBSET QueueId
    BY ListedQueues
  <2>4. j \in priorities[q]
    BY <2>1 DEF IsBest
  <2>5. j \in Available /\ jobs[j].queue = q
    BY <2>3, <2>4 DEF IInv, OneHome, Available
  <2>6. \A k \in Available : jobs[k].queue \in {q} => jobs[k].priority <= jobs[j].priority
    <3> SUFFICES ASSUME NEW k \in Available, jobs[k].queue = q
                 PROVE  jobs[k].priority <= jobs[j].priority
      OBVIOUS
    <3>1. k \in priorities[q] /\ k \in 1..Len(jobs) /\ j \in 1..Len(jobs)
      BY <2>5, AvailableFacts
    <3>2. jobs[k].priority \in Int /\ jobs[j].priority \in Int
      <4>1. jobs \in Seq(JobDetails)
        BY <1>0 DEF TypeOK
      <4>2. jobs[k] \in JobDetails /\ jobs[j] \in JobDetails
        BY <3>1, <4>1
      <4>. QED  BY <4>2, PriorityAssumption DEF JobDetails
    <3>. QED  BY <2>1, <3>1, <3>2 DEF IsBest
  <2>7. WaitingOn(c) = {}
    BY <2>2, ReadLineFacts, WaitingFacts
  <2>8. Available' = Available \ {j}
    <3>1. \A r \in QueueId : r # q => j \notin priorities[r]
      BY <2>5 DEF IInv, OneHome
    <3>2. \A r \in QueueId : priorities'[r] = priorities[r] \ {j}
      BY <1>0, <2>1, <2>3, <3>1 DEF TypeOK
    <3>. QED  BY <3>2 DEF Available
  <2>9. UNCHANGED [d \in ClientId |-> WaitingOn(d)]
    BY <2>2 DEF WaitingOn
  <2> HIDE DEF q
  <2>10. Board!Take(c, {q}, j)
    BY <2>1, <2>2, <2>5, <2>6, <2>7, <2>8, <2>9 DEF Board!Take
  <2>. QED  BY <2>3, <2>10 DEF Board!Next, JobId
<1>3. ASSUME NEW c \in ClientId, NEW qs \in QueueLists, GetWait(c, qs)
      PROVE  Board!Next
  <2> DEFINE w == last_waiter_id + 1
             listed == {qs[i] : i \in DOMAIN qs}
  <2>1. ReadLine(c) /\ UNCHANGED <<jobs, priorities, active_jobs>>
    BY <1>3 DEF GetWait, Request
  <2>2. w \in WaiterId /\ waiters_to_queue[w] = NoWaiter
    BY <1>0, <1>3, BoundsAssumption DEF GetWait, WaiterId, TypeOK, IInv, FreshIds
  <2>3. /\ waiters_to_queue'[w].client = c
        /\ \A v \in WaiterId \ {w} : waiters_to_queue'[v] = waiters_to_queue[v]
    BY <1>0, <1>3, <2>2 DEF GetWait, TypeOK
  <2>4. \A q \in QueueId :
          waiters'[q] = IF q \in listed THEN waiters[q] \union {w} ELSE waiters[q]
    BY <1>3 DEF GetWait
  <2>5. \A q \in QueueId : waiters[q] \subseteq WaiterId /\ w \notin waiters[q]
    BY <1>0, <2>2 DEF TypeOK, IInv, RegistryAgrees, NoWaiter
  <2>6. listed \subseteq QueueId
    BY ListedQueues
  <2>7. \A k \in Available : jobs[k].queue \notin listed
    <3>1. \A q \in listed : priorities[q] = {}
      BY <1>3 DEF GetWait, NothingReady
    <3>. QED  BY <3>1, AvailableFacts
  <2>8. WaitingOn(c) = {}
    BY <2>1, ReadLineFacts, WaitingFacts
  <2> HIDE DEF w, listed
  <2>9. ASSUME NEW d \in ClientId
        PROVE  WaitingOn(d)' = IF d = c THEN listed ELSE WaitingOn(d)
    <3>1. WaitingOn(d)' = {r \in QueueId : \E v \in waiters'[r] : waiters_to_queue'[v].client = d}
      BY DEF WaitingOn
    <3>2. WaitingOn(d) = {r \in QueueId : \E v \in waiters[r] : waiters_to_queue[v].client = d}
      BY DEF WaitingOn
    <3>3. ASSUME NEW r \in QueueId
          PROVE  (\E v \in waiters'[r] : waiters_to_queue'[v].client = d)
                   <=> \/ d = c /\ r \in listed
                       \/ \E v \in waiters[r] : waiters_to_queue[v].client = d
      BY <2>3, <2>4, <2>5
    <3>. QED  BY <2>6, <2>8, <3>1, <3>2, <3>3
  <2>10. Waiting' = [Waiting EXCEPT ![c] = listed]
    BY <2>9 DEF Waiting
  <2>11. Available' = Available
    BY <2>1 DEF Available
  <2>12. Board!Wait(c, listed)
    BY <2>1, <2>7, <2>8, <2>10, <2>11 DEF Board!Wait, Waiting
  <2>. QED  BY <2>6, <2>12 DEF Board!Next
<1>4. ASSUME NEW c \in ClientId, NEW j \in JobId, Abort(c, j) \/ AbortOwned(c, j)
      PROVE  Board!Next \/ UNCHANGED Board!boardVars
  <2>1. \E replies : AbortJob(c, j, replies)
    BY <1>4 DEF Abort, AbortOwned
  <2>. QED  BY <2>1, AbortStep DEF Board!Next, JobId
<1>5. ASSUME NEW c \in ClientId, NEW j \in JobId, Delete(c, j)
      PROVE  Board!Next \/ UNCHANGED Board!boardVars
  <2>1. UNCHANGED <<jobs, waiters, waiters_to_queue>>
    BY <1>5 DEF Delete
  <2>2. UNCHANGED [d \in ClientId |-> WaitingOn(d)]
    BY <2>1 DEF WaitingOn
  <2>3. CASE j \notin 1..Len(jobs)
    BY <1>5, <2>3, SameBoard DEF Delete
  <2>4. CASE j \in 1..Len(jobs) /\ active_jobs[j] # NoClient
    <3>1. UNCHANGED priorities /\ active_jobs' = [active_jobs EXCEPT ![j] = NoClient]
      BY <1>5, <2>4 DEF Delete
    <3>2. j \notin Available
      BY <2>4, AvailableFacts
    <3>3. Available' = Available \ {j}
      BY <3>1, <3>2 DEF Available
    <3>4. Board!Delete(j)
      BY <2>1, <2>2, <2>4, <3>1, <3>3 DEF Board!Delete
    <3>. QED  BY <3>4 DEF Board!Next, JobId
  <2>5. CASE j \in 1..Len(jobs) /\ active_jobs[j] = NoClient
    <3>1. /\ priorities' = [priorities EXCEPT ![jobs[j].queue] = @ \ {j}]
          /\ UNCHANGED active_jobs
      BY <1>5, <2>5 DEF Delete
    <3>2. CASE j \in Available
      <4>1. \A r \in QueueId : priorities'[r] = priorities[r] \ {j}
        BY <1>0, <3>1, <3>2, AvailableFacts DEF TypeOK, IInv, OneHome
      <4>2. Available' = Available \ {j}
        BY <4>1 DEF Available
      <4>3. active_jobs' = [active_jobs EXCEPT ![j] = NoClient]
        BY <1>0, <2>5, <3>1 DEF TypeOK
      <4>4. Board!Delete(j)
        BY <2>1, <2>2, <3>2, <4>2, <4>3 DEF Board!Delete
      <4>. QED  BY <4>4 DEF Board!Next, JobId
    <3>3. CASE j \notin Available
      <4>1. \A r \in QueueId : j \notin priorities[r]
        BY <3>3, AvailableFacts
      <4>2. priorities' = priorities
        BY <1>0, <3>1, <4>1 DEF TypeOK
      <4>. QED  BY <2>1, <3>1, <4>2, SameBoard
    <3>. QED  BY <3>2, <3>3
  <2>. QED  BY <2>3, <2>4, <2>5
<1>6. ASSUME NEW c \in ClientId,
             \/ \E qs \in QueueLists : GetNoJob(c, qs)
             \/ BadLine(c) \/ Reply(c) \/ Disconnect(c) \/ EndOfInput(c) \/ Closed(c)
      PROVE  UNCHANGED Board!boardVars
  <2>1. UNCHANGED storageVars
    BY <1>6 DEF GetNoJob, BadLine, Reply, Disconnect, EndOfInput, Closed
  <2>. QED  BY <2>1, SameBoard DEF storageVars
<1>7. ASSUME UNCHANGED vars
      PROVE  UNCHANGED Board!boardVars
  BY <1>7, SameBoard DEF vars, storageVars
<1>. QED  BY <1>1, <1>2, <1>3, <1>4, <1>5, <1>6, <1>7 DEF Next

(* The server implements the job board: the maps, waiter ids, channels and *)
(* connections of the code hand jobs out exactly as the board allows.      *)
THEOREM BoardImplemented == Spec => ImplementsBoard
BY BoardInit, BoardStep, InvCorrect, PTL DEF Spec, ImplementsBoard, Board!Spec
=============================================================================
