\* Two runs of the test one after the other, two iterations, a step timer.
SPECIFICATION Spec
CONSTANTS
  MaxTests = 2
  MaxIters = 2
  MaxTimers = 1
  MaxOutcomes = 2
  Starters = 1
  Overrides = {FALSE}
  ChanCap = 1
  NoStep = NoStep
  WorkSteps = {boot}
  Done = Done
  TimedSteps = {boot}
  AbortSteps = {}
INVARIANTS TypeOK OutcomesPerIteration LiveTestHasRunner IterationReleasable
CHECK_DEADLOCK FALSE
