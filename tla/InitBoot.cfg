\* One run with a wipe; a hypervisor with its machine, one of which restarts by itself.
SPECIFICATION FairSpec
CONSTANTS
  h1 = h1
  v1 = v1
  p1 = p1
  Hyps = {h1}
  Phys = {}
  VMs = {v1}
  VMsOf <- OneGuest
  WipeRuns = {1}
  Cap = 2
  MaxRuns = 1
  MaxFlaps = 1
INVARIANTS CountedOnce
PROPERTIES LoopEnds
CHECK_DEADLOCK FALSE
