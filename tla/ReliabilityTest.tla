--------------------------- MODULE ReliabilityTest ---------------------------
(***************************************************************************)
(* handlers/reliabilitytesthandler: a client starts and stops a test run;  *)
(* a runner goroutine starts labs one after the other (iterations); Watch  *)
(* follows the lab's status and counts successes and failures; a goroutine *)
(* per step timer counts timeouts.                                         *)
(*                                                                         *)
(* None of the handler's contexts and cancel functions is protected by a   *)
(* lock.  A context is a number, in the order of creation; 0 is nil.  The  *)
(* lab that is tested is the environment.                                  *)
(***************************************************************************)
EXTENDS Integers, Sequences, FiniteSets

CONSTANTS
  MaxTests,    \* bound: calls of startTest
  MaxIters,    \* bound: iterations
  MaxTimers,   \* bound: step timers
  MaxOutcomes, \* bound: outcomes counted by Watch
  Starters,    \* start requests served at the same time
  Overrides,   \* what start requests say of abortOnAnyFailure
  ChanCap,     \* capacity of the status channel; 2 in labwatch.go
  NoStep,      \* CurrentStep = ""
  WorkSteps,   \* the steps of a lab between "" and "done"
  Done,        \* "done"
  TimedSteps,  \* config.Timeouts
  AbortSteps   \* abortSteps

Steps == WorkSteps \cup {NoStep, Done}

ASSUME ConstantsAssumption ==
  /\ MaxTests \in Nat /\ MaxIters \in Nat /\ MaxTimers \in Nat /\ MaxOutcomes \in Nat
  /\ Starters \in Nat /\ Overrides \subseteq BOOLEAN /\ ChanCap \in Nat
  /\ NoStep # Done /\ {NoStep, Done} \cap WorkSteps = {}
  /\ TimedSteps \subseteq Steps /\ AbortSteps \subseteq Steps

VARIABLES
  testCtx,    \* h.testCtx
  stopped,    \* the test contexts that are cancelled
  abortAny,   \* h.currentTestAbortOnAnyFailure
  starting,   \* start requests between the check and the act of startTest
  iterCtx,    \* h.currentTestCtx
  iterCancel, \* h.currentTestCancel: the iteration it cancels, or 0
  iters,      \* iterations created so far
  parent,     \* the test context each iteration is a child of
  ended,      \* iterations cancelled through their own cancel function
  overtaken,  \* history: iterations created while somebody was about to clear
              \* the cancel function of an earlier one
  timers,     \* timers created so far
  stepTimer,  \* h.stepTimeoutCancel: the timer it cancels, or 0
  timer,      \* where the goroutine of each timer stands,
  timerStep,  \* and the step it was set for
  runner,     \* the goroutine of each test: where it stands,
  waitTest,   \* and the contexts its select waits for
  waitIter,
  watch,      \* where Watch stands,
  msg,        \* and the status it processes
  statusChan, \* the channel Watch reads
  labStatus,  \* the status of the lab that is tested
  curStep,    \* h.status.CurrentStep
  isRunning,  \* h.status.IsRunning
  successes, failures, timeouts, tests  \* h.status.Total...

testVars  == <<testCtx, stopped, abortAny, starting>>
iterVars  == <<iterCtx, iterCancel, iters, parent, ended, overtaken>>
timerVars == <<timers, stepTimer, timer, timerStep>>
runVars   == <<runner, waitTest, waitIter, isRunning>>
watchVars == <<watch, msg>>
labVars   == <<statusChan, labStatus>>
counts    == <<successes, failures, timeouts, tests>>
vars == <<testVars, iterVars, timerVars, runVars, watchVars, labVars, curStep, counts>>

Tests  == 1..MaxTests
Iters  == 1..MaxIters
Timers == 1..MaxTimers
Status == [step : Steps, failed : BOOLEAN]
Fresh  == [step |-> NoStep, failed |-> FALSE]

TypeOK ==
  /\ testCtx \in 0..MaxTests
  /\ stopped \subseteq Tests
  /\ abortAny \in BOOLEAN
  /\ starting \in 0..Starters /\ testCtx + starting <= MaxTests
  /\ iterCtx \in 0..MaxIters
  /\ iterCancel \in 0..MaxIters
  /\ iters \in 0..MaxIters
  /\ parent \in [Iters -> 0..MaxTests]
  /\ ended \subseteq Iters /\ overtaken \subseteq Iters
  /\ timers \in 0..MaxTimers
  /\ stepTimer \in 0..MaxTimers
  /\ timer \in [Timers -> {"none", "armed", "expired", "stop", "complete", "cancel", "call",
                           "clear", "panic", "gone"}]
  /\ timerStep \in [Timers -> Steps]
  /\ runner \in [Tests -> {"none", "loop", "setlab", "begin", "select", "wait",
                           "interval", "exiting", "gone"}]
  /\ waitTest \in [Tests -> 0..MaxTests]
  /\ waitIter \in [Tests -> 0..MaxIters]
  /\ watch \in {"idle", "arm", "check", "success", "failure", "stop", "complete", "cancel",
                "call", "clear", "panic"}
  /\ msg \in Status
  /\ statusChan \in Seq(Status)
  /\ labStatus \in Status
  /\ curStep \in Steps
  /\ isRunning \in BOOLEAN
  /\ successes \in Nat /\ failures \in Nat /\ timeouts \in Nat /\ tests \in Nat

Init ==
  /\ testCtx = 0 /\ stopped = {} /\ abortAny = FALSE /\ starting = 0
  /\ iterCtx = 0 /\ iterCancel = 0 /\ iters = 0
  /\ parent = [i \in Iters |-> 0] /\ ended = {} /\ overtaken = {}
  /\ timers = 0 /\ stepTimer = 0
  /\ timer = [k \in Timers |-> "none"] /\ timerStep = [k \in Timers |-> NoStep]
  /\ runner = [t \in Tests |-> "none"]
  /\ waitTest = [t \in Tests |-> 0] /\ waitIter = [t \in Tests |-> 0]
  /\ watch = "idle" /\ msg = Fresh /\ statusChan = << >> /\ labStatus = Fresh
  /\ curStep = NoStep /\ isRunning = FALSE
  /\ successes = 0 /\ failures = 0 /\ timeouts = 0 /\ tests = 0

\* ctx != nil && ctx.Err() == nil, for a test and for its child, an iteration.
TestLive(t) == t # 0 /\ t \notin stopped
IterLive(i) == i # 0 /\ i \notin ended /\ parent[i] \notin stopped

\* A goroutine that has called a cancel function and not yet set it to nil.
Clearing == watch = "clear" \/ \E k \in Timers : timer[k] = "clear"

\* A goroutine that calls a nil function takes the process with it.
Alive == watch # "panic" /\ \A k \in Timers : timer[k] # "panic"

----------------------------------------------------------------------------
\* The lab (environment): labwatch broadcasts its status with every change of
\* any part of it, and drops it when the channel is full.

Send(s) ==
  statusChan' = IF Len(statusChan) < ChanCap THEN Append(statusChan, s) ELSE statusChan

LabAdvances ==
  /\ labStatus.step # Done /\ ~labStatus.failed
  /\ \/ \E s \in WorkSteps : labStatus.step = NoStep /\ labStatus' = [Fresh EXCEPT !.step = s]
     \/ labStatus.step \in WorkSteps /\ labStatus' = [labStatus EXCEPT !.failed = TRUE]
     \/ labStatus.step \in WorkSteps /\ labStatus' = [Fresh EXCEPT !.step = Done]
  /\ Send(labStatus')
  /\ UNCHANGED <<testVars, iterVars, timerVars, runVars, watchVars, curStep, counts>>

LabRepeats ==
  /\ Len(statusChan) < ChanCap
  /\ Send(labStatus)
  /\ UNCHANGED <<testVars, iterVars, timerVars, runVars, watchVars, labStatus, curStep, counts>>

----------------------------------------------------------------------------
\* Timers.

\* Cancelling a timer ends its goroutine, unless it has expired already.
Disarmed ==
  [k \in Timers |-> IF k = stepTimer /\ timer[k] = "armed" THEN "gone" ELSE timer[k]]

\* clearStepTimer
ClearStepTimer ==
  /\ timer' = Disarmed
  /\ stepTimer' = 0
  /\ UNCHANGED <<timers, timerStep>>

\* A step without a timeout cancels the old timer and keeps its function.
SetStepTimer(step) ==
  \/ /\ step \notin TimedSteps
     /\ timer' = Disarmed
     /\ UNCHANGED <<timers, stepTimer, timerStep>>
  \/ /\ step \in TimedSteps
     /\ timers < MaxTimers
     /\ timers' = timers + 1
     /\ timer' = [Disarmed EXCEPT ![timers'] = "armed"]
     /\ timerStep' = [timerStep EXCEPT ![timers'] = step]
     /\ stepTimer' = timers'

----------------------------------------------------------------------------
\* /reliabilitytest?action=start and action=stop.

\* "reliability test is already running"
StartCheck ==
  /\ ~TestLive(testCtx)
  /\ starting < Starters /\ testCtx + starting < MaxTests
  /\ starting' = starting + 1
  /\ UNCHANGED <<testCtx, stopped, abortAny, iterVars, timerVars, runVars, watchVars,
                 labVars, curStep, counts>>

\* A bug to be caught: the test is started without the check.
StartUnchecked(override) ==
  /\ testCtx < MaxTests
  /\ starting' = starting - 1
  /\ abortAny' = override
  /\ testCtx' = testCtx + 1
  /\ isRunning' = TRUE
  /\ runner' = [runner EXCEPT ![testCtx'] = "loop"]
  /\ UNCHANGED <<stopped, iterVars, timerVars, waitTest, waitIter, watchVars, labVars,
                 curStep, counts>>

StartAct(override) ==
  /\ starting > 0
  /\ starting' = starting - 1
  /\ abortAny' = override
  /\ testCtx' = testCtx + 1
  /\ isRunning' = TRUE
  /\ runner' = [runner EXCEPT ![testCtx'] = "loop"]
  /\ UNCHANGED <<stopped, iterVars, timerVars, waitTest, waitIter, watchVars, labVars,
                 curStep, counts>>

\* stopTest; CurrentStep keeps its value.
StopTest ==
  IF TestLive(testCtx)
  THEN stopped' = stopped \cup {testCtx} /\ ClearStepTimer
  ELSE UNCHANGED <<stopped, timerVars>>

StopRequest ==
  /\ TestLive(testCtx)
  /\ StopTest
  /\ UNCHANGED <<testCtx, abortAny, starting, iterVars, runVars, watchVars, labVars,
                 curStep, counts>>

----------------------------------------------------------------------------
\* The runner goroutine started by the t-th startTest.  It reads h.testCtx anew
\* each time, so it may find the context of a later start.

RunnerGoto(t, label) == runner' = [runner EXCEPT ![t] = label]

\* A bug to be caught: the loop does not look at testCtx.
RunnerLoopForever(t) ==
  /\ runner[t] = "loop"
  /\ RunnerGoto(t, "setlab")
  /\ UNCHANGED <<testVars, iterVars, timerVars, waitTest, waitIter, isRunning, watchVars,
                 labVars, curStep, counts>>

RunnerLoop(t) ==
  /\ runner[t] = "loop"
  /\ RunnerGoto(t, IF TestLive(testCtx) THEN "setlab" ELSE "exiting")
  /\ UNCHANGED <<testVars, iterVars, timerVars, waitTest, waitIter, isRunning, watchVars,
                 labVars, curStep, counts>>

\* A bug to be caught: the runner returns when the lab cannot be started.
StartLabOrReturn(t) ==
  /\ runner[t] = "setlab"
  /\ \/ /\ iters + Cardinality({u \in Tests : runner[u] = "begin"}) < MaxIters
        /\ RunnerGoto(t, "begin") /\ labStatus' = Fresh /\ Send(Fresh)
     \/ RunnerGoto(t, "exiting") /\ UNCHANGED labVars
  /\ UNCHANGED <<testVars, iterVars, timerVars, waitTest, waitIter, isRunning, watchVars,
                 curStep, counts>>

\* startLab: GET /setlab, which resets the lab's status before it answers, or
\* fails, at the latest when the client's timeout expires.
StartLab(t) ==
  /\ runner[t] = "setlab"
  /\ \/ /\ iters + Cardinality({u \in Tests : runner[u] = "begin"}) < MaxIters
        /\ RunnerGoto(t, "begin") /\ labStatus' = Fresh /\ Send(Fresh)
     \/ RunnerGoto(t, "loop") /\ UNCHANGED labVars
  /\ UNCHANGED <<testVars, iterVars, timerVars, waitTest, waitIter, isRunning, watchVars,
                 curStep, counts>>

BeginIteration(t) ==
  /\ runner[t] = "begin"
  /\ iters' = iters + 1
  /\ iterCtx' = iters'
  /\ iterCancel' = iters'
  /\ parent' = [parent EXCEPT ![iters'] = testCtx]
  /\ overtaken' = IF Clearing THEN overtaken \cup {iters'} ELSE overtaken
  /\ RunnerGoto(t, "select")
  /\ UNCHANGED <<testVars, ended, timerVars, waitTest, waitIter, isRunning, watchVars,
                 labVars, curStep, counts>>

\* The select reads both contexts again: another runner may have replaced them.
AwaitIteration(t) ==
  /\ runner[t] = "select"
  /\ waitTest' = [waitTest EXCEPT ![t] = testCtx]
  /\ waitIter' = [waitIter EXCEPT ![t] = iterCtx]
  /\ RunnerGoto(t, "wait")
  /\ UNCHANGED <<testVars, iterVars, timerVars, isRunning, watchVars, labVars,
                 curStep, counts>>

\* Either branch of the select leads to the wait between tests, whose select
\* reads testCtx again.
IterationOver(t) ==
  /\ runner[t] = "wait"
  /\ ~TestLive(waitTest[t]) \/ ~IterLive(waitIter[t])
  /\ waitTest' = [waitTest EXCEPT ![t] = testCtx]
  /\ waitIter' = [waitIter EXCEPT ![t] = 0]
  /\ RunnerGoto(t, "interval")
  /\ UNCHANGED <<testVars, iterVars, timerVars, isRunning, watchVars, labVars,
                 curStep, counts>>

Interval(t) ==
  /\ runner[t] = "interval"
  /\ \/ ~TestLive(waitTest[t]) /\ RunnerGoto(t, "exiting")
     \/ RunnerGoto(t, "loop")
  /\ waitTest' = [waitTest EXCEPT ![t] = 0]
  /\ UNCHANGED <<testVars, iterVars, timerVars, waitIter, isRunning, watchVars, labVars,
                 curStep, counts>>

RunnerExit(t) ==
  /\ runner[t] = "exiting"
  /\ isRunning' = FALSE
  /\ RunnerGoto(t, "gone")
  /\ UNCHANGED <<testVars, iterVars, timerVars, waitTest, waitIter, watchVars, labVars,
                 curStep, counts>>

----------------------------------------------------------------------------
\* What Watch and the timer goroutines have in common.

ShouldAbort(step) == step \in AbortSteps \/ abortAny

\* handleStepFailure up to the unlock.
CountFailure ==
  /\ tests' = tests + 1
  /\ failures' = failures + 1
  /\ UNCHANGED <<successes, timeouts>>

CountTimeout ==
  /\ tests' = tests + 1
  /\ timeouts' = timeouts + 1
  /\ UNCHANGED <<successes, failures>>

CountSuccess ==
  /\ tests' = tests + 1
  /\ successes' = successes + 1
  /\ UNCHANGED <<failures, timeouts>>

\* markTestComplete ends with three statements that no lock protects: a nil test
\* ("cancel"), the call of currentTestCancel ("call") and currentTestCancel = nil
\* ("clear").  Another goroutine may replace or clear the function in between.
NextIfCancel(none) == IF iterCancel = 0 THEN none ELSE "call"

\* A bug to be caught: the cancel function is dropped, not called.
CancelForgotten == UNCHANGED iterVars

CallCancel ==
  /\ ended' = ended \cup ({iterCancel} \ {0})
  /\ UNCHANGED <<iterCtx, iterCancel, iters, parent, overtaken>>

NextIfCalled == IF iterCancel = 0 THEN "panic" ELSE "clear"

ClearCancel ==
  /\ iterCancel' = 0
  /\ UNCHANGED <<iterCtx, iters, parent, ended, overtaken>>

----------------------------------------------------------------------------
\* Watch.

WatchGoto(label) == watch' = label /\ msg' = Fresh

\* Watch and the first half of processStatusUpdate.  currentTestCtx stays
\* non-nil once the first iteration has been created.
WatchReceive ==
  /\ watch = "idle"
  /\ statusChan # << >>
  /\ statusChan' = Tail(statusChan)
  /\ IF ~TestLive(testCtx) \/ iterCtx = 0
     THEN UNCHANGED <<watchVars, curStep>>
     ELSE /\ msg' = Head(statusChan)
          /\ curStep' = msg'.step
          /\ watch' = IF msg'.step # curStep THEN "arm" ELSE "check"
  /\ UNCHANGED <<testVars, iterVars, timerVars, runVars, labStatus, counts>>

WatchArm ==
  /\ watch = "arm"
  /\ SetStepTimer(msg.step)
  /\ watch' = "check"
  /\ UNCHANGED <<testVars, iterVars, runVars, msg, labVars, curStep, counts>>

\* A bug to be caught: the iteration's context is not checked.
WatchUnchecked ==
  /\ watch = "check"
  /\ WatchGoto(IF msg.failed THEN "failure"
               ELSE IF msg.step = Done THEN "success" ELSE "idle")
  /\ UNCHANGED <<testVars, iterVars, timerVars, runVars, labVars, curStep, counts>>

\* "Check if we've already processed ..."
WatchCheck ==
  /\ watch = "check"
  /\ WatchGoto(IF ~IterLive(iterCtx) THEN "idle"
               ELSE IF msg.failed THEN "failure"
               ELSE IF msg.step = Done THEN "success" ELSE "idle")
  /\ UNCHANGED <<testVars, iterVars, timerVars, runVars, labVars, curStep, counts>>

WatchSuccess ==
  /\ watch = "success"
  /\ successes + failures < MaxOutcomes
  /\ CountSuccess
  /\ WatchGoto("complete")
  /\ UNCHANGED <<testVars, iterVars, timerVars, runVars, labVars, curStep>>

\* The step that failed is read from h.status at this point.
WatchFailure ==
  /\ watch = "failure"
  /\ successes + failures < MaxOutcomes
  /\ CountFailure
  /\ WatchGoto(IF ShouldAbort(curStep) THEN "stop" ELSE "complete")
  /\ UNCHANGED <<testVars, iterVars, timerVars, runVars, labVars, curStep>>

WatchStop ==
  /\ watch = "stop"
  /\ StopTest
  /\ WatchGoto("idle")
  /\ UNCHANGED <<testCtx, abortAny, starting, iterVars, runVars, labVars, curStep, counts>>

WatchComplete ==
  /\ watch = "complete"
  /\ ClearStepTimer
  /\ curStep' = NoStep
  /\ WatchGoto("cancel")
  /\ UNCHANGED <<testVars, iterVars, runVars, labVars, counts>>

WatchCancel ==
  /\ watch = "cancel"
  /\ WatchGoto(NextIfCancel("idle"))
  /\ UNCHANGED <<testVars, iterVars, timerVars, runVars, labVars, curStep, counts>>

WatchCall ==
  /\ watch = "call"
  /\ CallCancel
  /\ WatchGoto(NextIfCalled)
  /\ UNCHANGED <<testVars, timerVars, runVars, labVars, curStep, counts>>

WatchClear ==
  /\ watch = "clear"
  /\ ClearCancel
  /\ WatchGoto("idle")
  /\ UNCHANGED <<testVars, timerVars, runVars, labVars, curStep, counts>>

----------------------------------------------------------------------------
\* The goroutine of timer k.  It looks neither at the test nor at the iteration.

TimerGoto(k, label, others) == timer' = [others EXCEPT ![k] = label]

TimerExpire(k) ==
  /\ timer[k] = "armed"
  /\ TimerGoto(k, "expired", timer)
  /\ UNCHANGED <<testVars, iterVars, timers, stepTimer, timerStep, runVars, watchVars,
                 labVars, curStep, counts>>

TimerCount(k) ==
  /\ timer[k] = "expired"
  /\ CountTimeout
  /\ TimerGoto(k, IF ShouldAbort(timerStep[k]) THEN "stop" ELSE "complete", timer)
  /\ UNCHANGED <<testVars, iterVars, timers, stepTimer, timerStep, runVars, watchVars,
                 labVars, curStep>>

TimerStop(k) ==
  /\ timer[k] = "stop"
  /\ IF TestLive(testCtx)
     THEN /\ stopped' = stopped \cup {testCtx}
          /\ stepTimer' = 0
          /\ TimerGoto(k, "gone", Disarmed)
     ELSE UNCHANGED <<stopped, stepTimer>> /\ TimerGoto(k, "gone", timer)
  /\ UNCHANGED <<testCtx, abortAny, starting, iterVars, timers, timerStep, runVars,
                 watchVars, labVars, curStep, counts>>

TimerComplete(k) ==
  /\ timer[k] = "complete"
  /\ stepTimer' = 0
  /\ TimerGoto(k, "cancel", Disarmed)
  /\ curStep' = NoStep
  /\ UNCHANGED <<testVars, iterVars, timers, timerStep, runVars, watchVars, labVars, counts>>

TimerCancel(k) ==
  /\ timer[k] = "cancel"
  /\ TimerGoto(k, NextIfCancel("gone"), timer)
  /\ UNCHANGED <<testVars, iterVars, timers, stepTimer, timerStep, runVars, watchVars,
                 labVars, curStep, counts>>

TimerCall(k) ==
  /\ timer[k] = "call"
  /\ CallCancel
  /\ TimerGoto(k, NextIfCalled, timer)
  /\ UNCHANGED <<testVars, timers, stepTimer, timerStep, runVars, watchVars, labVars,
                 curStep, counts>>

TimerClear(k) ==
  /\ timer[k] = "clear"
  /\ ClearCancel
  /\ TimerGoto(k, "gone", timer)
  /\ UNCHANGED <<testVars, timers, stepTimer, timerStep, runVars, watchVars, labVars,
                 curStep, counts>>

----------------------------------------------------------------------------
Runner(t) ==
  \/ RunnerLoop(t) \/ StartLab(t) \/ BeginIteration(t) \/ AwaitIteration(t)
  \/ IterationOver(t) \/ Interval(t) \/ RunnerExit(t)

Watch ==
  \/ WatchReceive \/ WatchArm \/ WatchCheck \/ WatchSuccess \/ WatchFailure
  \/ WatchStop \/ WatchComplete \/ WatchCancel \/ WatchCall \/ WatchClear

Timer(k) ==
  \/ TimerExpire(k) \/ TimerCount(k) \/ TimerStop(k) \/ TimerComplete(k) \/ TimerCancel(k)
  \/ TimerCall(k) \/ TimerClear(k)

Step ==
  \/ StartCheck
  \/ \E override \in Overrides : StartAct(override)
  \/ StopRequest
  \/ LabAdvances \/ LabRepeats
  \/ \E t \in Tests : Runner(t)
  \/ Watch
  \/ \E k \in Timers : Timer(k)

Next == Alive /\ Step

Spec == Init /\ [][Next]_vars

FairSpec == Spec /\ \A t \in Tests : WF_vars(Alive /\ Runner(t))

----------------------------------------------------------------------------
\* Tests that run and that nobody can stop: a start request that passed its check
\* beside another one has replaced their context.
Orphans == {t \in Tests : t < testCtx /\ t \notin stopped}

\* Every test that is counted is a success, a failure or a timeout.  And Watch
\* counts at most one outcome per iteration, however its check of the iteration's
\* context, its counting and its cancelling interleave with timers, runners and
\* clients; unless the iteration cannot be cancelled any more, because it was
\* created between the call and the clearing of an earlier cancel function or is
\* a child of a test that was orphaned.
OutcomesPerIteration ==
  /\ tests = successes + failures + timeouts
  /\ overtaken = {} /\ Orphans = {} =>
       successes + failures + (IF watch \in {"success", "failure"} THEN 1 ELSE 0) <= iters

RunnerAlive(t) == runner[t] \notin {"none", "exiting", "gone"}

\* While the test can be stopped (and refuses to be started again), some
\* goroutine is there to run its iterations.
LiveTestHasRunner == TestLive(testCtx) => \E t \in Tests : RunnerAlive(t)

\* A runner that waits for a live iteration of the current test can be released:
\* the cancel function of that iteration is still in the handler.  Unless a second
\* runner, left over from a run that was stopped, has replaced it, or somebody set
\* it to nil after having called an earlier one.
IterationReleasable ==
  \A t \in Tests :
    runner[t] = "wait" /\ waitTest[t] = testCtx /\ TestLive(testCtx) /\ IterLive(waitIter[t]) =>
      \/ iterCancel = waitIter[t]
      \/ waitIter[t] \in overtaken
      \/ \E u \in Tests \ {t} : RunnerAlive(u)

\* A run that is stopped comes to an end: its goroutine terminates, unless the
\* test is started again or the process ends.
StoppedRunEnds ==
  \A t \in Tests :
    t \in stopped ~> (runner[t] = "gone" \/ TestLive(testCtx) \/ ~Alive)

=============================================================================
