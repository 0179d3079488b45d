CONSTANTS
  q1 = q1
  q2 = q2
  ClientId = {c1, c2}
  NoClient = NoClient
  QueueId = {q1, q2}
  Priority = {1, 2}
  QueueLists <- BothQueues
  MaxJobs = 2
  MaxWaits = 2
SPECIFICATION FairSpec
INVARIANTS RegistrationsSound NoIdleWaiter OneHome HolderKnows
PROPERTIES ImplementsBoard JobsReleased
CHECK_DEADLOCK FALSE
