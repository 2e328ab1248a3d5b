SPECIFICATION FairSpec
CHECK_DEADLOCK FALSE
CONSTANTS
  j1 = j1 j2 = j2 j3 = j3 w1 = w1 w2 = w2 q1 = q1 q2 = q2
  l1 = l1 l2 = l2 l3 = l3 c1 = c1 c2 = c2 c3 = c3
  Jobs = {j1}
  Queues = {q1}
  Workers = {w1, w2}
  QueueOf <- SameQueue
  Limit <- LimitOne
  MaxAttempts <- TwoAttempts
  Priority <- FlatPriority
  Delayed = {j1}
  MaxLaunches = 4
  NoJob = NoJob NoQueue = NoQueue NoWorker = NoWorker
  MaxFaults = 0
  Reapers = {l1, l2}
  HostOf <- LoopEach
  MaxStalls = 0
  Requests = {}
  MaxCrashes = 0
  MaxStops = 0
  MaxTimeouts = 0
PROPERTIES
  DelayedJobsRun
