SPECIFICATION FairSpec
CONSTANTS
  j1 = j1
  j2 = j2
  j3 = j3
  Jobs <- ThreeJobs
  Priorities <- TwoPriorities
  MaxConcurrentJobs = 1
INVARIANTS
  SlotsAreReleasable
  NoLostWakeup
  MetricsConserved
PROPERTIES
  StartsInPriorityOrder
  JobsMoveOn
CHECK_DEADLOCK FALSE
