\* Two runs one after the other, the second with a wipe; a hypervisor and its machine.
SPECIFICATION Spec
CONSTANTS
  h1 = h1
  v1 = v1
  p1 = p1
  Hyps = {h1}
  Phys = {}
  VMs = {v1}
  VMsOf <- OneGuest
  WipeRuns = {2}
  Cap = 1
  MaxRuns = 2
  MaxFlaps = 0
INVARIANTS TypeOK NoSilentLoss CountedHaveArrived PushesFit
CHECK_DEADLOCK FALSE
