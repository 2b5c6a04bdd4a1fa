SPECIFICATION FairSpec
CONSTANTS
  c1 = c1
  c2 = c2
  c3 = c3
  connect = connect
  input = input
  Calls <- ThreeCalls
  Ops = {connect}
  MaxAttempts = 2
  Threshold = 2
  SuccessesToClose = 2
INVARIANTS
  BreakerConsistent
PROPERTIES
  OpenStaysUntilWindow
  CallsEnd
CHECK_DEADLOCK FALSE
