\* Two start requests at a time, runs that abort on any failure, one iteration, a step timer.
SPECIFICATION FairSpec
CONSTANTS
  MaxTests = 2
  MaxIters = 1
  MaxTimers = 1
  MaxOutcomes = 1
  Starters = 2
  Overrides = {TRUE}
  ChanCap = 1
  NoStep = NoStep
  WorkSteps = {boot}
  Done = Done
  TimedSteps = {boot}
  AbortSteps = {}
INVARIANTS IterationReleasable
PROPERTIES StoppedRunEnds
CHECK_DEADLOCK FALSE
