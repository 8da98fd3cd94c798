\* Two callers of a manager of two ports: the lab and an operator.
SPECIFICATION FairSpec
CONSTANTS
  p1 = p1
  p2 = p2
  lab = lab
  user = user
  AllPorts <- TwoPorts
  Callers = {lab, user}
  CallKinds <- TwoPortCalls
  MaxSilent = 1
INVARIANTS TypeOK OffIsOff
PROPERTIES RestartLeavesOn WaitsEnd
CHECK_DEADLOCK FALSE
