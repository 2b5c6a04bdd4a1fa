SPECIFICATION FairSpec
CONSTANTS
  j1 = j1
  j2 = j2
  j3 = j3
  Jobs <- ThreeJobs
  Priorities = {1}
  MaxConcurrentJobs = 1
INVARIANTS
  LiveProcessBound
PROPERTIES
  CancelledJobNeverStarts
  CancelledStaysCancelled
  QueuedJobsStart
CHECK_DEADLOCK FALSE
