SPECIFICATION Spec
CONSTANTS
  c1 = c1
  c2 = c2
  c3 = c3
  connect = connect
  input = input
  Calls <- ThreeCalls
  Ops <- TwoOps
  MaxAttempts = 2
  Threshold = 2
  SuccessesToClose = 2
INVARIANTS
  HalfOpenAttemptsLimited
CHECK_DEADLOCK FALSE
