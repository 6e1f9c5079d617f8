\* Two workers and another thread, two queues, three jobs, one of them through the timer.
SPECIFICATION TimerFairSpec
CONSTANTS
  w1 = w1
  w2 = w2
  x = x
  q1 = q1
  q2 = q2
  j1 = j1
  j2 = j2
  j3 = j3
  Workers <- MCWorkers
  Others <- MCOthers
  Queues <- MCQueues
  Jobs <- MCJobs
  Reserved <- MCReserved
  Delays <- MCDelays
  MaxTick = 1
  NoQueue = NoQueue
  NoJob = NoJob
INVARIANTS
  OneExecutor
  NoStrandedJob
PROPERTIES
  RunsEventually
  
