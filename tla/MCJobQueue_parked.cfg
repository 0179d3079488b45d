CONSTANTS
  q1 = q1
  q2 = q2
  ClientId = {c1, c2}
  NoClient = NoClient
  QueueId = {q1}
  Priority = {1, 2}
  QueueLists <- OneQueue
  MaxJobs = 2
  MaxWaits = 2
SPECIFICATION FairSpec
PROPERTIES DisconnectReleases
CHECK_DEADLOCK FALSE
