------------------------- MODULE ReliabilityTestProofs -------------------------
(***************************************************************************)
(* The reliability test is well typed; a live test has a goroutine that    *)
(* runs it; an iteration counts for at most one outcome; and a runner that *)
(* waits for it can be released; the last two with the exceptions that     *)
(* their definitions name.  For any number of start requests served at the *)
(* same time, of tests, iterations, timers and steps.                      *)
(***************************************************************************)
EXTENDS ReliabilityTest, FiniteSetTheorems, TLAPS

----------------------------------------------------------------------------
\* Type correctness.  The bound on iterations is kept because it counts the runners
\* that are about to begin one.

Beginning == {u \in Tests : runner[u] = "begin"}

RoomToBegin == iters + Cardinality(Beginning) <= MaxIters

TypeInv == TypeOK /\ RoomToBegin

TimerLabels == {"none", "armed", "expired", "stop", "complete", "cancel", "call", "clear", "panic", "gone"}

\* A runner leaves the set of those that are about to begin, or enters it.
LEMMA BeginningOf ==
  ASSUME TypeOK, NEW t \in Tests, NEW label, runner' = [runner EXCEPT ![t] = label]
  PROVE  /\ IsFiniteSet(Beginning) /\ Cardinality(Beginning) \in Nat
         /\ runner[t] # "begin" /\ label # "begin" => Beginning' = Beginning
         /\ runner[t] # "begin" /\ label = "begin" => Cardinality(Beginning') = Cardinality(Beginning) + 1
         /\ runner[t] = "begin" /\ label # "begin" => Cardinality(Beginning') = Cardinality(Beginning) - 1
<1> USE ConstantsAssumption
<1>1. IsFiniteSet(Tests)
  BY FS_Interval DEF Tests
<1>2. IsFiniteSet(Beginning) /\ Cardinality(Beginning) \in Nat
  BY <1>1, FS_Subset, FS_CardinalityType DEF Beginning
<1>3. ASSUME runner[t] # "begin", label = "begin"
      PROVE  Cardinality(Beginning') = Cardinality(Beginning) + 1
  <2>1. Beginning' = Beginning \cup {t} /\ t \notin Beginning
    BY <1>3 DEF Beginning, TypeOK
  <2> QED
    BY <2>1, <1>2, FS_AddElement
<1>4. ASSUME runner[t] = "begin", label # "begin"
      PROVE  Cardinality(Beginning') = Cardinality(Beginning) - 1
  <2>1. Beginning' = Beginning \ {t} /\ t \in Beginning
    BY <1>4 DEF Beginning, TypeOK
  <2> QED
    BY <2>1, <1>2, FS_RemoveElement
<1>5. runner[t] # "begin" /\ label # "begin" => Beginning' = Beginning
  BY DEF Beginning, TypeOK
<1> QED
  BY <1>2, <1>3, <1>4, <1>5

LEMMA InitTypeInv == Init => TypeInv
<1> SUFFICES ASSUME Init PROVE TypeInv
  OBVIOUS
<1> USE ConstantsAssumption
<1>1. Beginning = {}
  BY DEF Init, Beginning
<1>2. RoomToBegin
  BY <1>1, FS_EmptySet DEF Init, RoomToBegin
<1>3. Fresh \in Status /\ << >> \in Seq(Status)
  BY DEF Fresh, Status, Steps
<1>4. 0 \in 0..MaxTests /\ 0 \in 0..MaxIters /\ 0 \in 0..MaxTimers /\ 0 \in 0..Starters
  OBVIOUS
<1>6. testCtx + starting <= MaxTests
  BY DEF Init
<1>7. /\ parent \in [Iters -> 0..MaxTests] /\ runner \in [Tests -> {"none"}]
      /\ waitTest \in [Tests -> 0..MaxTests] /\ waitIter \in [Tests -> 0..MaxIters]
      /\ timer \in [Timers -> {"none"}] /\ timerStep \in [Timers -> Steps]
  BY <1>4 DEF Init, Steps
<1>8. successes \in Nat /\ failures \in Nat /\ timeouts \in Nat /\ tests \in Nat
  BY DEF Init
<1>5. TypeOK
  BY <1>3, <1>4, <1>6, <1>7, <1>8 DEF Init, TypeOK, Steps
<1> QED
  BY <1>2, <1>5 DEF TypeInv

LEMMA RunnerTypeInv ==
  ASSUME TypeInv, NEW t \in Tests, Runner(t)
  PROVE  TypeInv'
<1> USE ConstantsAssumption DEF TypeInv, TypeOK, RunnerGoto, testVars, iterVars, timerVars, watchVars, labVars,
                                counts
<1>1. Fresh \in Status
  BY DEF Fresh, Status, Steps
<1>2. CASE RunnerLoop(t) \/ IterationOver(t) \/ Interval(t) \/ RunnerExit(t) \/ AwaitIteration(t)
  <2>1. PICK label \in {"wait", "interval", "exiting", "gone", "setlab", "loop"} :
           runner' = [runner EXCEPT ![t] = label]
    BY <1>2 DEF RunnerLoop, IterationOver, Interval, RunnerExit, AwaitIteration
  <2>2. runner[t] # "begin"
    BY <1>2 DEF RunnerLoop, IterationOver, Interval, RunnerExit, AwaitIteration
  <2>3. Beginning' = Beginning
    BY <2>1, <2>2, BeginningOf
  <2>6. iters' = iters
    BY <1>2 DEF RunnerLoop, IterationOver, Interval, RunnerExit, AwaitIteration
  <2>4. RoomToBegin'
    BY <2>3, <2>6 DEF RoomToBegin
  <2>5. runner' \in [Tests -> {"none", "loop", "setlab", "begin", "select", "wait",
                              "interval", "exiting", "gone"}]
    BY <2>1
  <2>7. /\ waitTest' \in [Tests -> 0..MaxTests] /\ waitIter' \in [Tests -> 0..MaxIters]
        /\ isRunning' \in BOOLEAN
    <3>1. 0 \in 0..MaxTests /\ 0 \in 0..MaxIters
      OBVIOUS
    <3>2. CASE RunnerLoop(t) \/ RunnerExit(t)
      BY <3>2 DEF RunnerLoop, RunnerExit
    <3>3. CASE AwaitIteration(t)
      BY <3>3 DEF AwaitIteration
    <3>4. CASE IterationOver(t)
      <4>1. waitTest' = [waitTest EXCEPT ![t] = testCtx] /\ waitIter' = [waitIter EXCEPT ![t] = 0]
            /\ UNCHANGED isRunning
        BY <3>4 DEF IterationOver
      <4> QED
        BY <3>1, <4>1
    <3>5. CASE Interval(t)
      <4>1. waitTest' = [waitTest EXCEPT ![t] = 0] /\ UNCHANGED <<waitIter, isRunning>>
        BY <3>5 DEF Interval
      <4> QED
        BY <3>1, <4>1
    <3> QED
      BY <1>2, <3>2, <3>3, <3>4, <3>5
  <2>8. UNCHANGED <<testVars, iterVars, timerVars, watchVars, labVars, curStep, counts>>
    BY <1>2 DEF RunnerLoop, IterationOver, Interval, RunnerExit, AwaitIteration
  <2>9. TypeOK'
    BY <2>5, <2>7, <2>8
  <2> QED
    BY <2>4, <2>9
<1>3. CASE StartLab(t)
  <2>1. CASE runner' = [runner EXCEPT ![t] = "loop"] /\ UNCHANGED labVars
    BY <1>3, <2>1, BeginningOf DEF StartLab, RoomToBegin
  <2>2. CASE /\ iters + Cardinality(Beginning) < MaxIters
             /\ RunnerGoto(t, "begin") /\ labStatus' = Fresh /\ Send(Fresh)
    <3>1. RoomToBegin'
      <4>1. Cardinality(Beginning') = Cardinality(Beginning) + 1 /\ Cardinality(Beginning) \in Nat
        BY <1>3, <2>2, BeginningOf DEF StartLab
      <4>2. iters' = iters
        BY <1>3 DEF StartLab
      <4> QED
        BY <2>2, <4>1, <4>2 DEF RoomToBegin
    <3>2. statusChan' \in Seq(Status)
      BY <1>1, <2>2 DEF Send
    <3>3. TypeOK'
      BY <1>1, <1>3, <2>2, <3>2 DEF StartLab
    <3> QED
      BY <3>1, <3>3
  <2> QED
    BY <1>3, <2>1, <2>2 DEF StartLab, Beginning
<1>4. CASE BeginIteration(t)
  <2>1. Cardinality(Beginning') \in Nat /\ Cardinality(Beginning') = Cardinality(Beginning) - 1
    <3>1. t \in Beginning /\ Cardinality(Beginning) \in Nat /\ IsFiniteSet(Beginning)
      BY <1>4, BeginningOf DEF BeginIteration, Beginning
    <3>2. Cardinality(Beginning) # 0
      BY <3>1, FS_EmptySet
    <3>4. runner[t] = "begin" /\ \E label : label # "begin" /\ runner' = [runner EXCEPT ![t] = label]
      BY <1>4 DEF BeginIteration
    <3>3. Cardinality(Beginning') = Cardinality(Beginning) - 1
      BY <3>4, BeginningOf
    <3> QED
      BY <3>1, <3>2, <3>3
  <2>2. iters' \in 1..MaxIters /\ RoomToBegin'
    <3>1. iters' = iters + 1 /\ iters + Cardinality(Beginning) <= MaxIters /\ Cardinality(Beginning) \in Nat
      BY <1>4, BeginningOf DEF BeginIteration, RoomToBegin
    <3> QED
      BY <2>1, <3>1 DEF RoomToBegin
  <2> QED
    BY <1>4, <2>2 DEF BeginIteration, Iters
<1> QED
  BY <1>2, <1>3, <1>4 DEF Runner

LEMMA OthersTypeInv ==
  ASSUME TypeInv,
         \/ StartCheck \/ (\E override \in Overrides : StartAct(override)) \/ StopRequest
         \/ LabAdvances \/ LabRepeats
         \/ Watch
         \/ \E k \in Timers : Timer(k)
         \/ UNCHANGED vars
  PROVE  TypeInv'
<1> USE ConstantsAssumption DEF TypeInv, TypeOK, testVars, iterVars, timerVars, runVars, watchVars, labVars,
                                counts, TimerLabels
<1>1. Fresh \in Status /\ \A s \in Status : s.step \in Steps /\ s.failed \in BOOLEAN
  BY DEF Fresh, Status, Steps
<1>2. ASSUME UNCHANGED <<runner, iters>> PROVE RoomToBegin'
  BY <1>2 DEF RoomToBegin, Beginning
<1>3. Disarmed \in [Timers -> TimerLabels]
  BY DEF Disarmed
<1>4. CASE StartCheck
  BY <1>2, <1>4 DEF StartCheck
<1>13. ASSUME StopTest
       PROVE  /\ stopped' \subseteq Tests /\ stepTimer' \in 0..MaxTimers
              /\ UNCHANGED <<timers, timerStep>>
              /\ timer' \in [Timers -> TimerLabels]
  <2>1. CASE TestLive(testCtx)
    <3>1. testCtx \in Tests
      BY <2>1 DEF TestLive, Tests
    <3>2. /\ stopped' = stopped \cup {testCtx} /\ timer' = Disarmed /\ stepTimer' = 0
          /\ UNCHANGED <<timers, timerStep>>
      BY <1>13, <2>1 DEF StopTest, ClearStepTimer
    <3>3. stopped' \subseteq Tests /\ stepTimer' \in 0..MaxTimers
      BY <3>1, <3>2
    <3> QED
      BY <1>3, <3>2, <3>3
  <2>2. CASE ~TestLive(testCtx)
    BY <1>13, <2>2 DEF StopTest
  <2> QED
    BY <2>1, <2>2
<1>14. CASE StopRequest
  BY <1>2, <1>13, <1>14 DEF StopRequest
<1>5. ASSUME NEW override \in Overrides, StartAct(override) PROVE TypeInv'
  <2>1. testCtx' \in Tests /\ runner' = [runner EXCEPT ![testCtx'] = "loop"]
    BY <1>5 DEF StartAct, Tests
  <2>2. TypeOK'
    BY <1>5, <2>1 DEF StartAct
  <2>3. Cardinality(Beginning') \in Nat /\ Cardinality(Beginning') <= Cardinality(Beginning)
    <3>1. /\ IsFiniteSet(Beginning) /\ Beginning' \subseteq Beginning
      BY <2>1, BeginningOf DEF Beginning
    <3> QED
      BY <3>1, FS_Subset, FS_CardinalityType
  <2>4. iters' = iters /\ Cardinality(Beginning) \in Nat
    BY <1>5, <2>1, BeginningOf DEF StartAct
  <2>5. RoomToBegin'
    BY <2>3, <2>4 DEF RoomToBegin
  <2> QED
    BY <2>2, <2>5
<1>6. CASE LabAdvances \/ LabRepeats
  <2>1. labStatus' \in Status
    BY <1>6, <1>1 DEF LabAdvances, LabRepeats, Fresh, Status, Steps
  <2>2. statusChan' \in Seq(Status)
    <3>1. Send(labStatus')
      BY <1>6 DEF LabAdvances, LabRepeats
    <3> QED
      BY <2>1, <3>1 DEF Send
  <2> QED
    BY <1>2, <1>6, <2>1, <2>2 DEF LabAdvances, LabRepeats
<1>7. CASE WatchReceive
  BY <1>1, <1>2, <1>7 DEF WatchReceive
<1>8. CASE WatchArm
  <2>1. /\ timers' \in 0..MaxTimers /\ stepTimer' \in 0..MaxTimers
        /\ timer' \in [Timers -> TimerLabels]
        /\ timerStep' \in [Timers -> Steps]
    <3>1. CASE msg.step \notin TimedSteps
      BY <1>3, <1>8, <3>1 DEF WatchArm, SetStepTimer
    <3>2. CASE msg.step \in TimedSteps
      <4>1. timers' = timers + 1 /\ timers' \in Timers
        BY <1>8, <3>2 DEF WatchArm, SetStepTimer, Timers
      <4>2. msg.step \in Steps
        BY <1>1
      <4>3. timer' = [Disarmed EXCEPT ![timers'] = "armed"] /\ timerStep' = [timerStep EXCEPT ![timers'] = msg.step]
        BY <1>8, <3>2 DEF WatchArm, SetStepTimer
      <4>4. stepTimer' = timers'
        BY <1>8, <3>2 DEF WatchArm, SetStepTimer
      <4> QED
        BY <1>3, <4>1, <4>2, <4>3, <4>4 DEF Timers
    <3> QED
      BY <3>1, <3>2
  <2>2. watch' = "check" /\ UNCHANGED <<testVars, iterVars, runVars, msg, labVars, curStep, counts>>
    BY <1>8 DEF WatchArm
  <2> QED
    BY <1>2, <2>1, <2>2
<1>9. CASE WatchCheck
  BY <1>1, <1>2, <1>9 DEF WatchCheck, WatchGoto
<1>15. CASE WatchSuccess
  BY <1>1, <1>2, <1>15 DEF WatchSuccess, WatchGoto, CountSuccess
<1>16. CASE WatchFailure
  BY <1>1, <1>2, <1>16 DEF WatchFailure, WatchGoto, CountFailure
<1>10. CASE WatchStop
  BY <1>1, <1>2, <1>10, <1>13 DEF WatchStop, WatchGoto
<1>17. CASE WatchComplete
  BY <1>1, <1>2, <1>3, <1>17 DEF WatchComplete, WatchGoto, ClearStepTimer, Steps
<1>18. ASSUME CallCancel \/ ClearCancel
       PROVE  /\ ended' \subseteq Iters /\ iterCancel' \in 0..MaxIters
              /\ UNCHANGED <<iterCtx, iters, parent, overtaken>>
  <2>1. iterCancel # 0 => iterCancel \in Iters
    BY DEF Iters
  <2>2. UNCHANGED <<iterCtx, iters, parent, overtaken>> /\ iterCancel' \in {0, iterCancel}
    BY <1>18 DEF CallCancel, ClearCancel
  <2>3. ended' = ended \/ ended' = ended \cup ({iterCancel} \ {0})
    BY <1>18 DEF CallCancel, ClearCancel
  <2>4. ended' \subseteq Iters
    BY <2>1, <2>3
  <2> QED
    BY <2>2, <2>4
<1>19. CASE WatchCancel \/ WatchCall \/ WatchClear
  <2>1. watch' \in {"idle", "call", "clear", "panic"} /\ msg' = Fresh
    BY <1>19 DEF WatchCancel, WatchCall, WatchClear, WatchGoto, NextIfCancel, NextIfCalled
  <2>2. /\ ended' \subseteq Iters /\ iterCancel' \in 0..MaxIters
        /\ UNCHANGED <<iterCtx, iters, parent, overtaken>>
    BY <1>18, <1>19 DEF WatchCancel, WatchCall, WatchClear
  <2>3. UNCHANGED <<testVars, timerVars, runVars, labVars, curStep, counts>>
    BY <1>19 DEF WatchCancel, WatchCall, WatchClear
  <2>4. RoomToBegin'
    BY <1>2, <2>2, <2>3
  <2>5. watch' \in {"idle", "arm", "check", "success", "failure", "stop", "complete", "cancel", "call", "clear",
                    "panic"} /\ msg' \in Status
    BY <1>1, <2>1
  <2>6. TypeOK'
    BY <2>2, <2>3, <2>5
  <2> QED
    BY <2>4, <2>6
<1>11. ASSUME NEW k \in Timers, Timer(k) PROVE TypeInv'
  <2>1. CASE TimerExpire(k)
    BY <1>2, <2>1 DEF TimerExpire, TimerGoto
  <2>2. CASE TimerCount(k)
    BY <1>2, <2>2 DEF TimerCount, TimerGoto, CountTimeout
  <2>3. CASE TimerStop(k)
    <3>1. CASE TestLive(testCtx)
      <4>1. testCtx \in Tests
        BY <3>1 DEF TestLive, Tests
      <4>2. stopped' = stopped \cup {testCtx} /\ stepTimer' = 0 /\ timer' = [Disarmed EXCEPT ![k] = "gone"]
        BY <2>3, <3>1 DEF TimerStop, TimerGoto
      <4>3. stopped' \subseteq Tests /\ stepTimer' \in 0..MaxTimers
        BY <4>1, <4>2
      <4>4. timer' \in [Timers -> TimerLabels]
        BY <1>3, <4>2
      <4>5. UNCHANGED <<testCtx, abortAny, starting, iterVars, timers, timerStep, runVars,
                        watchVars, labVars, curStep, counts>>
        BY <2>3 DEF TimerStop
      <4> QED
        BY <1>2, <4>3, <4>4, <4>5
    <3>2. CASE ~TestLive(testCtx)
      BY <1>2, <2>3, <3>2 DEF TimerStop, TimerGoto
    <3> QED
      BY <3>1, <3>2
  <2>4. CASE TimerComplete(k)
    BY <1>2, <1>3, <2>4 DEF TimerComplete, TimerGoto, Steps
  <2>5. CASE TimerCancel(k) \/ TimerCall(k) \/ TimerClear(k)
    <3>1. PICK label \in {"gone", "call", "clear", "panic"} : timer' = [timer EXCEPT ![k] = label]
      BY <2>5 DEF TimerCancel, TimerCall, TimerClear, TimerGoto, NextIfCancel, NextIfCalled
    <3>2. /\ ended' \subseteq Iters /\ iterCancel' \in 0..MaxIters
          /\ UNCHANGED <<iterCtx, iters, parent, overtaken>>
      BY <1>18, <2>5 DEF TimerCancel, TimerCall, TimerClear
    <3>3. UNCHANGED <<testVars, timers, stepTimer, timerStep, runVars, watchVars, labVars, curStep, counts>>
      BY <2>5 DEF TimerCancel, TimerCall, TimerClear
    <3>4. timer' \in [Timers -> TimerLabels]
      BY <3>1
    <3> QED
      BY <1>2, <3>2, <3>3, <3>4
  <2> QED
    BY <1>11, <2>1, <2>2, <2>3, <2>4, <2>5 DEF Timer
<1>12. CASE UNCHANGED vars
  BY <1>2, <1>12 DEF vars
<1> QED
  BY <1>4, <1>5, <1>6, <1>7, <1>8, <1>9, <1>10, <1>11, <1>12, <1>14, <1>15, <1>16, <1>17, <1>19 DEF Watch

LEMMA NextTypeInv == TypeInv /\ [Next]_vars => TypeInv'
BY RunnerTypeInv, OthersTypeInv DEF Next, Step

LEMMA TypeInvHolds == Spec => []TypeInv
BY InitTypeInv, NextTypeInv, PTL DEF Spec

\* The variables keep their types, and no iteration is created beyond the bound.
THEOREM TypeCorrect == Spec => []TypeOK
<1>1. TypeInv => TypeOK
  BY DEF TypeInv
<1> QED
  BY <1>1, TypeInvHolds, PTL


----------------------------------------------------------------------------
\* The invariant.

\* Runners, their waits and the last iteration belong to tests that were started.
Placed ==
  /\ \A t \in Tests : runner[t] # "none" => testCtx # 0
  /\ \A t \in Tests : waitTest[t] <= testCtx

\* The handler has the context of the last iteration and, until it is cleared, its
\* cancel function.  It is cleared, or about to be, after it was called; unless the
\* iteration was created in between.
LastIteration ==
  /\ iterCtx = iters
  /\ iterCancel \in {0, iters}
  /\ iters # 0 =>
       /\ parent[iters] \in 1..testCtx
       /\ iterCancel = 0 \/ Clearing => iters \in ended \cup overtaken

\* A runner that is alive, and looks at the test that is current.
Following(u) ==
  RunnerAlive(u) /\ (runner[u] \in {"wait", "interval"} => waitTest[u] = testCtx)

\* A live test has its own runner.
OwnRunner == TestLive(testCtx) => Following(testCtx)

\* IterationReleasable, with a second runner that looks at the current test.
Releasable ==
  \A t \in Tests :
    runner[t] = "wait" /\ waitTest[t] = testCtx /\ TestLive(testCtx) /\ IterLive(waitIter[t]) =>
      \/ iterCancel = waitIter[t]
      \/ waitIter[t] \in overtaken
      \/ \E u \in Tests \ {t} : Following(u)

\* The outcomes that Watch has counted or is about to count.
Outcomes == successes + failures + (IF watch \in {"success", "failure"} THEN 1 ELSE 0)

\* If every iteration has its outcome then Watch does not get past its check; as long
\* as every iteration can be cancelled.
Counted ==
  /\ tests = successes + failures + timeouts
  /\ overtaken = {} /\ Orphans = {} =>
       /\ Outcomes <= iters
       /\ Outcomes = iters /\ watch \in {"idle", "arm", "check"} => ~IterLive(iters)

RunInv == Placed /\ LastIteration /\ Releasable

\* What stops tests, cancels the iteration and clears its cancel function at most.
Quiet ==
  /\ UNCHANGED <<testCtx, iterCtx, iters, parent, overtaken, runner, waitTest, waitIter>>
  /\ stopped \subseteq stopped' /\ ended \subseteq ended'
  /\ iterCancel' = iterCancel \/ (iterCancel' = 0 /\ Clearing)
  /\ Clearing' => Clearing \/ (iterCancel # 0 /\ iterCancel \in ended' /\ iterCancel' = iterCancel)

LEMMA QuietKeeps ==
  ASSUME TypeOK, TypeOK', Quiet
  PROVE  /\ OwnRunner => OwnRunner'
         /\ RunInv => RunInv'
<1>1. OwnRunner => OwnRunner'
  BY DEF Quiet, OwnRunner, Following, RunnerAlive, TestLive
<1>2. ASSUME RunInv PROVE Placed'
  BY <1>2 DEF Quiet, RunInv, Placed
<1>3. ASSUME RunInv PROVE LastIteration'
  <2>1. iterCtx' = iters' /\ iterCancel' \in {0, iters'} /\ (iters' # 0 => parent'[iters'] \in 1..testCtx')
    BY <1>3 DEF Quiet, RunInv, LastIteration
  <2>2. ASSUME iters # 0, iterCancel' = 0 \/ Clearing' PROVE iters \in ended' \cup overtaken
    <3>1. CASE iterCancel = 0 \/ Clearing
      BY <1>3, <2>2, <3>1 DEF Quiet, RunInv, LastIteration
    <3>2. CASE iterCancel # 0 /\ ~Clearing
      BY <1>3, <2>2, <3>2 DEF Quiet, RunInv, LastIteration
    <3> QED
      BY <3>1, <3>2
  <2> QED
    BY <2>1, <2>2 DEF Quiet, LastIteration
<1>4. ASSUME RunInv PROVE Releasable'
  <2> SUFFICES ASSUME NEW t \in Tests, runner'[t] = "wait", waitTest'[t] = testCtx', TestLive(testCtx)',
                      IterLive(waitIter[t])', waitIter[t] \notin overtaken,
                      ~\E u \in Tests \ {t} : Following(u)'
               PROVE  iterCancel' = waitIter'[t]
    BY DEF Quiet, Releasable
  <2>1. ~\E u \in Tests \ {t} : Following(u)
    BY DEF Quiet, Following, RunnerAlive
  <2>2. runner[t] = "wait" /\ waitTest[t] = testCtx /\ TestLive(testCtx) /\ waitIter' = waitIter
    BY DEF Quiet, TestLive
  <2>3. IterLive(waitIter[t]) /\ waitIter[t] # 0 /\ waitIter[t] \notin ended
    BY DEF Quiet, IterLive
  <2>4. iterCancel = waitIter[t]
    BY <1>4, <2>1, <2>2, <2>3 DEF RunInv, Releasable
  <2>5. ~Clearing
    BY <1>4, <2>3, <2>4 DEF RunInv, LastIteration
  <2> QED
    BY <2>2, <2>4, <2>5 DEF Quiet
<1> QED
  BY <1>1, <1>2, <1>3, <1>4 DEF RunInv

LEMMA NothingClears ==
  ASSUME TypeOK, TypeOK', watch' = "clear" => watch = "clear",
         timer' \in {timer, Disarmed} \/ (\E k \in Timers, label \in TimerLabels \ {"clear"} :
                                          timer' \in {[timer EXCEPT ![k] = label], [Disarmed EXCEPT ![k] = label]})
  PROVE  Clearing' => Clearing
<1>1. ASSUME NEW k \in Timers, timer'[k] = "clear" PROVE timer[k] = "clear"
  BY <1>1 DEF TypeOK, Disarmed, TimerLabels
<1> QED
  BY <1>1 DEF Clearing

LEMMA QuietSteps ==
  ASSUME TypeOK, TypeOK',
         StopRequest \/ LabAdvances \/ LabRepeats \/ Watch \/ (\E k \in Timers : Timer(k)) \/ UNCHANGED vars
  PROVE  Quiet
<1> USE DEF testVars, iterVars, runVars, timerVars, watchVars, TimerLabels
<1>1. StopTest => stopped \subseteq stopped' /\ timer' \in {timer, Disarmed}
  BY DEF StopTest, ClearStepTimer
<1>2. CASE StopRequest \/ LabAdvances \/ LabRepeats \/ UNCHANGED vars
  <2>1. watch' = watch /\ timer' \in {timer, Disarmed}
    BY <1>1, <1>2 DEF StopRequest, LabAdvances, LabRepeats, vars
  <2>2. UNCHANGED <<testCtx, iterVars, runner, waitTest, waitIter>> /\ stopped \subseteq stopped'
    BY <1>1, <1>2 DEF StopRequest, LabAdvances, LabRepeats, vars
  <2> QED
    BY <2>1, <2>2, NothingClears DEF Quiet
<1>3. CASE WatchReceive \/ WatchCheck \/ WatchSuccess \/ WatchFailure \/ WatchComplete \/ WatchCancel
  <2>1. watch' # "clear" \/ watch' = watch
    BY <1>3 DEF WatchReceive, WatchCheck, WatchSuccess, WatchFailure, WatchComplete, WatchCancel, WatchGoto,
                NextIfCancel, ShouldAbort
  <2>2. timer' \in {timer, Disarmed}
    BY <1>3 DEF WatchReceive, WatchCheck, WatchSuccess, WatchFailure, WatchComplete, WatchCancel, ClearStepTimer
  <2>3. UNCHANGED <<testCtx, iterVars, runner, waitTest, waitIter, stopped>>
    BY <1>3 DEF WatchReceive, WatchCheck, WatchSuccess, WatchFailure, WatchComplete, WatchCancel
  <2> QED
    BY <2>1, <2>2, <2>3, NothingClears DEF Quiet
<1>4. CASE WatchArm \/ WatchStop
  <2>1. watch' # "clear"
    BY <1>4 DEF WatchArm, WatchStop, WatchGoto
  <2>2. timer' \in {timer, Disarmed} \/ \E k \in Timers : timer' = [Disarmed EXCEPT ![k] = "armed"]
    <3>1. CASE WatchStop
      BY <1>1, <3>1 DEF WatchStop
    <3>2. CASE WatchArm
      <4>1. timers \in Nat
        BY ConstantsAssumption DEF TypeOK
      <4> QED
        BY <3>2, <4>1, ConstantsAssumption DEF WatchArm, SetStepTimer, Timers
    <3> QED
      BY <1>4, <3>1, <3>2
  <2>3. UNCHANGED <<testCtx, iterVars, runner, waitTest, waitIter>> /\ stopped \subseteq stopped'
    BY <1>1, <1>4 DEF WatchArm, WatchStop
  <2> QED
    BY <2>1, <2>2, <2>3, NothingClears DEF Quiet
<1>5. CASE WatchCall \/ \E k \in Timers : TimerCall(k)
  <2>1. /\ UNCHANGED <<testCtx, iterCtx, iterCancel, iters, parent, overtaken, runner, waitTest, waitIter, stopped>>
        /\ ended' = ended \cup ({iterCancel} \ {0})
    BY <1>5 DEF WatchCall, TimerCall, CallCancel
  <2>2. ASSUME iterCancel = 0 PROVE Clearing' => Clearing
    <3>1. CASE WatchCall
      <4>1. watch' # "clear" /\ timer' = timer
        BY <2>2, <3>1 DEF WatchCall, WatchGoto, NextIfCalled
      <4> QED
        BY <4>1, NothingClears
    <3>2. ASSUME NEW k \in Timers, TimerCall(k) PROVE Clearing' => Clearing
      <4>1. watch' = watch /\ timer' = [timer EXCEPT ![k] = "panic"]
        BY <2>2, <3>2 DEF TimerCall, TimerGoto, NextIfCalled
      <4> QED
        BY <4>1, NothingClears
    <3> QED
      BY <1>5, <3>1, <3>2
  <2> QED
    BY <2>1, <2>2 DEF Quiet
<1>6. CASE WatchClear \/ \E k \in Timers : TimerClear(k)
  <2>1. /\ UNCHANGED <<testCtx, iterCtx, iters, parent, overtaken, runner, waitTest, waitIter, stopped, ended>>
        /\ iterCancel' = 0 /\ Clearing
    BY <1>6 DEF WatchClear, TimerClear, ClearCancel, Clearing
  <2> QED
    BY <2>1 DEF Quiet
<1>7. ASSUME NEW k \in Timers,
             TimerExpire(k) \/ TimerCount(k) \/ TimerStop(k) \/ TimerComplete(k) \/ TimerCancel(k)
      PROVE  Quiet
  <2>1. UNCHANGED <<testCtx, iterVars, runner, waitTest, waitIter, watch>> /\ stopped \subseteq stopped'
    BY <1>7 DEF TimerExpire, TimerCount, TimerStop, TimerComplete, TimerCancel
  <2>2. \E label \in TimerLabels \ {"clear"} :
          timer' \in {[timer EXCEPT ![k] = label], [Disarmed EXCEPT ![k] = label]}
    BY <1>7 DEF TimerExpire, TimerCount, TimerStop, TimerComplete, TimerCancel, TimerGoto, NextIfCancel
  <2> QED
    BY <2>1, <2>2, NothingClears DEF Quiet
<1> QED
  BY <1>2, <1>3, <1>4, <1>5, <1>6, <1>7 DEF Watch, Timer

----------------------------------------------------------------------------
\* A live test has its runner.

\* A step of the runner of t leaves the other runners alone.
LEMMA RunnerMoves ==
  ASSUME TypeOK, OwnRunner, NEW t \in Tests, NEW label, runner' = [runner EXCEPT ![t] = label],
         UNCHANGED <<testCtx, stopped>>, \A u \in Tests \ {t} : waitTest'[u] = waitTest[u],
         t = testCtx /\ TestLive(testCtx) =>
           /\ label \notin {"none", "exiting", "gone"}
           /\ label \in {"wait", "interval"} => waitTest'[t] = testCtx
  PROVE  OwnRunner'
<1> SUFFICES ASSUME TestLive(testCtx)' PROVE Following(testCtx)'
  BY DEF OwnRunner
<1>1. TestLive(testCtx) /\ testCtx \in Tests /\ DOMAIN runner = Tests
  <2>1. TestLive(testCtx)
    BY DEF TestLive
  <2>2. testCtx \in 0..MaxTests /\ DOMAIN runner = Tests
    BY DEF TypeOK
  <2> QED
    BY <2>1, <2>2, ConstantsAssumption DEF TestLive, Tests
<1>2. runner'[t] = label /\ \A u \in Tests \ {t} : runner'[u] = runner[u]
  BY <1>1
<1>3. CASE t = testCtx
  BY <1>1, <1>2, <1>3 DEF Following, RunnerAlive
<1>4. CASE t # testCtx
  <2>1. runner'[testCtx] = runner[testCtx] /\ waitTest'[testCtx] = waitTest[testCtx]
    BY <1>1, <1>2, <1>4
  <2> QED
    BY <1>1, <2>1 DEF OwnRunner, Following, RunnerAlive
<1> QED
  BY <1>3, <1>4

LEMMA OwnRunnerKept ==
  ASSUME TypeOK, TypeOK', OwnRunner, [Next]_vars
  PROVE  OwnRunner'
<1>1. CASE StartCheck
  BY <1>1 DEF StartCheck, runVars, OwnRunner, Following, RunnerAlive, TestLive
<1>2. ASSUME NEW override \in Overrides, StartAct(override) PROVE OwnRunner'
  <2>1. runner'[testCtx'] = "loop"
    <3>1. testCtx' \in Tests
      BY <1>2 DEF StartAct, TypeOK, Tests
    <3> QED
      BY <1>2, <3>1 DEF StartAct, TypeOK
  <2> QED
    BY <2>1 DEF OwnRunner, Following, RunnerAlive
<1>3. ASSUME NEW t \in Tests, Runner(t) PROVE OwnRunner'
  <2>1. UNCHANGED <<testCtx, stopped>> /\ waitTest \in [Tests -> 0..MaxTests]
    BY <1>3 DEF Runner, RunnerLoop, StartLab, BeginIteration, AwaitIteration, IterationOver, Interval, RunnerExit,
                testVars, TypeOK
  <2>2. CASE RunnerLoop(t)
    <3>1. runner' = [runner EXCEPT ![t] = IF TestLive(testCtx) THEN "setlab" ELSE "exiting"] /\ UNCHANGED waitTest
      BY <2>2 DEF RunnerLoop, RunnerGoto
    <3> QED
      BY <2>1, <3>1, RunnerMoves
  <2>3. CASE StartLab(t)
    <3>1. UNCHANGED waitTest
      BY <2>3 DEF StartLab
    <3>2. CASE runner' = [runner EXCEPT ![t] = "begin"]
      BY <2>1, <3>1, <3>2, RunnerMoves
    <3>3. CASE runner' = [runner EXCEPT ![t] = "loop"]
      BY <2>1, <3>1, <3>3, RunnerMoves
    <3> QED
      BY <2>3, <3>2, <3>3 DEF StartLab, RunnerGoto
  <2>4. CASE BeginIteration(t)
    <3>1. runner' = [runner EXCEPT ![t] = "select"] /\ UNCHANGED waitTest
      BY <2>4 DEF BeginIteration, RunnerGoto
    <3> QED
      BY <2>1, <3>1, RunnerMoves
  <2>5. CASE AwaitIteration(t) \/ IterationOver(t)
    <3>1. waitTest' = [waitTest EXCEPT ![t] = testCtx]
      BY <2>5 DEF AwaitIteration, IterationOver
    <3>2. waitTest'[t] = testCtx /\ \A u \in Tests \ {t} : waitTest'[u] = waitTest[u]
      BY <2>1, <3>1
    <3>3. CASE runner' = [runner EXCEPT ![t] = "wait"]
      BY <2>1, <3>2, <3>3, RunnerMoves
    <3>4. CASE runner' = [runner EXCEPT ![t] = "interval"]
      BY <2>1, <3>2, <3>4, RunnerMoves
    <3> QED
      BY <2>5, <3>3, <3>4 DEF AwaitIteration, IterationOver, RunnerGoto
  <2>6. CASE Interval(t)
    <3>1. waitTest' = [waitTest EXCEPT ![t] = 0] /\ runner[t] = "interval"
      BY <2>6 DEF Interval
    <3>2. \A u \in Tests \ {t} : waitTest'[u] = waitTest[u]
      BY <2>1, <3>1
    <3>3. CASE runner' = [runner EXCEPT ![t] = "loop"]
      BY <2>1, <3>2, <3>3, RunnerMoves
    <3>4. CASE runner' = [runner EXCEPT ![t] = "exiting"] /\ ~TestLive(waitTest[t])
      <4>1. t = testCtx => ~TestLive(testCtx)
        BY <3>1, <3>4 DEF OwnRunner, Following
      <4> QED
        BY <2>1, <3>2, <3>4, <4>1, RunnerMoves
    <3> QED
      BY <2>6, <3>3, <3>4 DEF Interval, RunnerGoto
  <2>7. CASE RunnerExit(t)
    <3>1. runner' = [runner EXCEPT ![t] = "gone"] /\ UNCHANGED waitTest /\ runner[t] = "exiting"
      BY <2>7 DEF RunnerExit, RunnerGoto
    <3>2. t = testCtx => ~TestLive(testCtx)
      BY <3>1 DEF OwnRunner, Following, RunnerAlive
    <3> QED
      BY <2>1, <3>1, <3>2, RunnerMoves
  <2> QED
    BY <1>3, <2>2, <2>3, <2>4, <2>5, <2>6, <2>7 DEF Runner
<1>4. CASE StopRequest \/ LabAdvances \/ LabRepeats \/ Watch \/ (\E k \in Timers : Timer(k)) \/ UNCHANGED vars
  BY <1>4, QuietSteps, QuietKeeps
<1> QED
  BY <1>1, <1>2, <1>3, <1>4 DEF Next, Step

\* While a test can be stopped and refuses to be started again, some goroutine is there
\* to run it, however many start requests are served at once.
THEOREM LiveTestIsRun == Spec => []LiveTestHasRunner
<1>1. Init => OwnRunner
  BY DEF Init, OwnRunner, TestLive
<1>2. TypeOK /\ OwnRunner => LiveTestHasRunner
  BY DEF TypeOK, OwnRunner, Following, LiveTestHasRunner, TestLive, Tests
<1>3. TypeOK /\ TypeOK' /\ OwnRunner /\ [Next]_vars => OwnRunner'
  BY OwnRunnerKept
<1> QED
  BY <1>1, <1>2, <1>3, TypeCorrect, PTL DEF Spec

----------------------------------------------------------------------------
\* Iterations can be released.

\* What a step of the runner t leaves of Releasable: its own wait, if it begins one
\* here, and itself as the second runner of the others.
LEMMA RunnerReleases ==
  ASSUME TypeOK, Releasable, NEW t \in Tests,
         UNCHANGED <<testCtx, stopped, iterCancel, ended, parent, overtaken>>,
         \A u \in Tests \ {t} :
           runner'[u] = runner[u] /\ waitTest'[u] = waitTest[u] /\ waitIter'[u] = waitIter[u],
         runner'[t] # "wait",
         Following(t) => Following(t)' \/ ~TestLive(testCtx)
  PROVE  Releasable'
<1> SUFFICES ASSUME NEW s \in Tests, runner'[s] = "wait", waitTest'[s] = testCtx', TestLive(testCtx)',
                    IterLive(waitIter[s])'
             PROVE  iterCancel' = waitIter'[s] \/ waitIter'[s] \in overtaken' \/ \E u \in Tests \ {s} : Following(u)'
  BY DEF Releasable
<1>1. s # t /\ runner[s] = "wait" /\ waitTest[s] = testCtx /\ TestLive(testCtx) /\ IterLive(waitIter[s])
  BY DEF TestLive, IterLive
<1>2. CASE iterCancel = waitIter[s] \/ waitIter[s] \in overtaken
  BY <1>1, <1>2
<1>3. ASSUME NEW u \in Tests \ {s}, Following(u) PROVE Following(u)'
  <2>2. CASE u = t
    BY <1>1, <1>3, <2>2
  <2>3. CASE u # t
    BY <1>3, <2>3 DEF Following, RunnerAlive
  <2> QED
    BY <2>2, <2>3
<1> QED
  BY <1>1, <1>2, <1>3 DEF Releasable

LEMMA RunnerKeepsRunInv ==
  ASSUME TypeOK, TypeOK', RunInv, NEW t \in Tests, Runner(t)
  PROVE  RunInv'
<1>1. testCtx # 0 /\ testCtx \in Tests
  <2>1. runner[t] # "none"
    BY DEF Runner, RunnerLoop, StartLab, BeginIteration, AwaitIteration, IterationOver, Interval, RunnerExit
  <2> QED
    <3>1. testCtx # 0
      BY <2>1 DEF RunInv, Placed
    <3>2. testCtx \in 0..MaxTests
      BY DEF TypeOK
    <3> QED
      BY <3>1, <3>2, ConstantsAssumption DEF Tests
<1>2. UNCHANGED <<testCtx, stopped>>
  BY DEF Runner, RunnerLoop, StartLab, BeginIteration, AwaitIteration, IterationOver, Interval, RunnerExit,
         testVars
<1>3. Placed'
  <2>1. \A u \in Tests : waitTest'[u] <= testCtx
    <3>1. CASE UNCHANGED waitTest
      BY <3>1 DEF RunInv, Placed
    <3>2. CASE \E w \in {0, testCtx} : waitTest' = [waitTest EXCEPT ![t] = w]
      <4>1. waitTest \in [Tests -> 0..MaxTests] /\ testCtx \in 0..MaxTests
        BY DEF TypeOK
      <4>2. \A u \in Tests : waitTest[u] <= testCtx
        BY DEF RunInv, Placed
      <4> QED
        BY <3>2, <4>1, <4>2, ConstantsAssumption
    <3> QED
      BY <3>1, <3>2
      DEF Runner, RunnerLoop, StartLab, BeginIteration, AwaitIteration, IterationOver, Interval, RunnerExit
  <2> QED
    BY <1>1, <1>2, <2>1 DEF RunInv, Placed
<1>4. CASE BeginIteration(t)
  <2>1. LastIteration'
    <3>1. /\ iters' = iters + 1 /\ iterCtx' = iters' /\ iterCancel' = iters' /\ UNCHANGED <<testCtx, ended, timer, watch>>
          /\ parent' = [parent EXCEPT ![iters'] = testCtx]
          /\ overtaken' = IF Clearing THEN overtaken \cup {iters'} ELSE overtaken
      BY <1>4 DEF BeginIteration, testVars, timerVars, watchVars
    <3>2. Clearing' = Clearing
      BY <3>1 DEF Clearing
    <3>3. iters \in Nat /\ iters' \in 0..MaxIters /\ parent \in [Iters -> 0..MaxTests] /\ testCtx \in Nat
      BY ConstantsAssumption DEF TypeOK
    <3>4. iters' \in Iters /\ parent'[iters'] = testCtx
      BY <3>1, <3>3, ConstantsAssumption DEF Iters
    <3>5. testCtx \in 1..testCtx
      BY <1>1, <3>3
    <3> QED
      BY <3>1, <3>2, <3>3, <3>4, <3>5 DEF LastIteration
  <2>2. Following(t)'
    BY <1>4 DEF BeginIteration, RunnerGoto, Following, RunnerAlive, TypeOK
  <2>3. \A s \in Tests : runner'[s] = "wait" => s # t
    BY <1>4 DEF BeginIteration, RunnerGoto, TypeOK
  <2>4. Releasable'
    BY <2>2, <2>3 DEF Releasable
  <2> QED
    BY <1>3, <2>1, <2>4 DEF RunInv
<1>5. CASE AwaitIteration(t)
  <2>1. LastIteration'
    BY <1>5 DEF AwaitIteration, RunInv, LastIteration, testVars, iterVars, timerVars, watchVars, Clearing
  <2>2. /\ UNCHANGED <<testCtx, stopped, iterCtx, iterCancel, ended, parent, overtaken>>
        /\ \A u \in Tests \ {t} :
             runner'[u] = runner[u] /\ waitTest'[u] = waitTest[u] /\ waitIter'[u] = waitIter[u]
        /\ runner'[t] = "wait" /\ waitTest'[t] = testCtx /\ waitIter'[t] = iterCtx
    BY <1>5 DEF AwaitIteration, RunnerGoto, testVars, iterVars, TypeOK
  <2>3. SUFFICES ASSUME NEW s \in Tests, runner'[s] = "wait", waitTest'[s] = testCtx', TestLive(testCtx)',
                        IterLive(waitIter[s])'
                 PROVE  iterCancel' = waitIter'[s] \/ waitIter'[s] \in overtaken' \/ \E u \in Tests \ {s} : Following(u)'
    BY <1>3, <2>1 DEF RunInv, Releasable
  <2>4. CASE s = t
    <3>1. iters # 0 /\ iters \notin ended /\ waitIter'[s] = iters
      BY <2>2, <2>3, <2>4 DEF IterLive, RunInv, LastIteration
    <3> QED
      BY <2>2, <3>1 DEF RunInv, LastIteration
  <2>5. CASE s # t
    <3>1. runner[s] = "wait" /\ waitTest[s] = testCtx /\ TestLive(testCtx) /\ IterLive(waitIter[s])
      BY <2>2, <2>3, <2>5 DEF TestLive, IterLive
    <3>2. iterCancel = waitIter[s] \/ waitIter[s] \in overtaken \/ \E u \in Tests \ {s} : Following(u)
      BY <3>1 DEF RunInv, Releasable
    <3>3. ASSUME NEW u \in Tests \ {s}, Following(u) PROVE Following(u)'
      BY <2>2, <3>3 DEF Following, RunnerAlive
    <3> QED
      BY <2>2, <2>5, <3>2, <3>3
  <2> QED
    BY <2>4, <2>5
<1>6. CASE RunnerLoop(t) \/ StartLab(t) \/ IterationOver(t) \/ Interval(t) \/ RunnerExit(t)
  <2>1. LastIteration' /\ UNCHANGED <<testCtx, stopped, iterCancel, ended, parent, overtaken>>
    BY <1>6 DEF RunnerLoop, StartLab, IterationOver, Interval, RunnerExit, RunInv, LastIteration, testVars, iterVars,
                timerVars, watchVars, Clearing
  <2>2. \A u \in Tests \ {t} :
          runner'[u] = runner[u] /\ waitTest'[u] = waitTest[u] /\ waitIter'[u] = waitIter[u]
    BY <1>6 DEF RunnerLoop, StartLab, IterationOver, Interval, RunnerExit, RunnerGoto, TypeOK
  <2>3. runner'[t] # "wait"
    BY <1>6 DEF RunnerLoop, StartLab, IterationOver, Interval, RunnerExit, RunnerGoto, TypeOK
  <2>4. Following(t) => Following(t)' \/ ~TestLive(testCtx)
    <3>1. CASE RunnerLoop(t) \/ StartLab(t)
      BY <3>1 DEF RunnerLoop, StartLab, RunnerGoto, Following, RunnerAlive, TypeOK
    <3>2. CASE IterationOver(t)
      BY <1>2, <3>2 DEF IterationOver, RunnerGoto, Following, RunnerAlive, TypeOK
    <3>3. CASE Interval(t)
      BY <3>3 DEF Interval, RunnerGoto, Following, RunnerAlive, TypeOK
    <3>4. CASE RunnerExit(t)
      BY <3>4 DEF RunnerExit, Following, RunnerAlive
    <3> QED
      BY <1>6, <3>1, <3>2, <3>3, <3>4
  <2>5. Releasable'
    BY <2>1, <2>2, <2>3, <2>4, RunnerReleases DEF RunInv
  <2> QED
    BY <1>3, <2>1, <2>5 DEF RunInv
<1> QED
  BY <1>4, <1>5, <1>6 DEF Runner

LEMMA StartKeepsRunInv ==
  ASSUME TypeOK, TypeOK', RunInv, NEW override \in Overrides, StartAct(override)
  PROVE  RunInv'
<1>1. /\ testCtx \in Nat /\ testCtx' = testCtx + 1
      /\ UNCHANGED <<iterCtx, iterCancel, iters, parent, ended, overtaken, waitTest, watch, timer>>
  BY ConstantsAssumption DEF StartAct, iterVars, timerVars, watchVars, TypeOK
<1>2. \A t \in Tests : waitTest[t] \in Nat /\ waitTest[t] <= testCtx
  BY ConstantsAssumption DEF RunInv, Placed, TypeOK
<1>3. Placed'
  BY <1>1, <1>2 DEF Placed
<1>4. LastIteration'
  <2>1. LastIteration /\ Clearing' = Clearing
    BY <1>1 DEF RunInv, Clearing
  <2>2. iters # 0 => parent[iters] \in 1..testCtx'
    BY <1>1, <2>1 DEF LastIteration
  <2> QED
    BY <1>1, <2>1, <2>2 DEF LastIteration
<1>5. Releasable'
  <2>1. \A t \in Tests : waitTest'[t] # testCtx'
    BY <1>1, <1>2
  <2> QED
    BY <2>1 DEF Releasable
<1> QED
  BY <1>3, <1>4, <1>5 DEF RunInv

LEMMA NextKeepsRunInv ==
  ASSUME TypeOK, TypeOK', RunInv, [Next]_vars
  PROVE  RunInv'
<1>1. CASE StartCheck
  BY <1>1 DEF StartCheck, RunInv, Placed, LastIteration, Releasable, Following, RunnerAlive, TestLive, IterLive,
              iterVars, runVars, timerVars, watchVars, Clearing
<1>2. CASE StopRequest \/ LabAdvances \/ LabRepeats \/ Watch \/ (\E k \in Timers : Timer(k)) \/ UNCHANGED vars
  BY <1>2, QuietSteps, QuietKeeps
<1> QED
  BY <1>1, <1>2, StartKeepsRunInv, RunnerKeepsRunInv DEF Next, Step

LEMMA InitRunInv == Init => RunInv
BY ConstantsAssumption DEF Init, RunInv, Placed, LastIteration, Releasable, Tests

\* A runner that waits for a live iteration of the current test can be released: the
\* handler has the cancel function of that iteration, or another runner is alive, or the
\* iteration was created between the call and the clearing of an earlier function.
THEOREM IterationIsReleasable == Spec => []IterationReleasable
<1>1. RunInv => IterationReleasable
  BY DEF RunInv, Releasable, Following, IterationReleasable
<1>2. TypeOK /\ TypeOK' /\ RunInv /\ [Next]_vars => RunInv'
  BY NextKeepsRunInv
<1> QED
  BY <1>1, <1>2, InitRunInv, TypeCorrect, PTL DEF Spec

----------------------------------------------------------------------------
\* Outcomes.

\* An iteration that cannot be cancelled stays so.
AllCancellable == overtaken = {} /\ Orphans = {}

LEMMA ExceptionsStay ==
  ASSUME TypeOK, TypeOK', [Next]_vars
  PROVE  AllCancellable' => AllCancellable
<1> USE DEF testVars, iterVars
<1>1. /\ testCtx \in Nat /\ testCtx' \in Nat /\ testCtx <= testCtx'
      /\ stopped' \subseteq stopped \cup {testCtx} /\ overtaken \subseteq overtaken'
  <2>1. testCtx \in Nat /\ testCtx' \in Nat
    BY ConstantsAssumption DEF TypeOK
  <2>2. CASE StartCheck \/ (\E override \in Overrides : StartAct(override)) \/ LabAdvances \/ LabRepeats
             \/ UNCHANGED vars
    BY <2>1, <2>2 DEF StartCheck, StartAct, LabAdvances, LabRepeats, vars
  <2>3. CASE StopRequest \/ WatchStop
    BY <2>1, <2>3 DEF StopRequest, WatchStop, StopTest
  <2>4. ASSUME NEW t \in Tests, Runner(t)
        PROVE  UNCHANGED <<testCtx, stopped>> /\ overtaken \subseteq overtaken'
    BY <2>4 DEF Runner, RunnerLoop, StartLab, BeginIteration, AwaitIteration, IterationOver, Interval, RunnerExit
  <2>5. CASE Watch /\ ~WatchStop
    BY <2>1, <2>5 DEF Watch, WatchReceive, WatchArm, WatchCheck, WatchSuccess, WatchFailure, WatchComplete,
                      WatchCancel, WatchCall, WatchClear, CallCancel, ClearCancel
  <2>6. ASSUME NEW k \in Timers, Timer(k)
        PROVE  testCtx' = testCtx /\ stopped' \subseteq stopped \cup {testCtx} /\ overtaken' = overtaken
    BY <2>6 DEF Timer, TimerExpire, TimerCount, TimerStop, TimerComplete, TimerCancel, TimerCall, TimerClear,
                CallCancel, ClearCancel
  <2> QED
    BY <2>1, <2>2, <2>3, <2>4, <2>5, <2>6 DEF Next, Step
<1>2. Orphans \subseteq Orphans'
  BY <1>1 DEF Orphans, Tests
<1> QED
  BY <1>1, <1>2 DEF AllCancellable

\* Steps that count nothing and leave Watch on its side of the check.
LEMMA CountedFrame ==
  ASSUME TypeOK, TypeOK', RunInv, Counted,
         UNCHANGED <<successes, failures, iters, parent>>,
         \/ UNCHANGED <<tests, timeouts>>
         \/ tests' = tests + 1 /\ timeouts' = timeouts + 1,
         stopped \subseteq stopped', ended \subseteq ended', AllCancellable' => AllCancellable,
         watch' \in {"success", "failure"} <=> watch \in {"success", "failure"},
         watch' \in {"idle", "arm", "check"} => watch \in {"idle", "arm", "check"}
  PROVE  Counted'
<1>1. tests' = successes' + failures' + timeouts'
  <2>1. tests \in Nat /\ successes \in Nat /\ failures \in Nat /\ timeouts \in Nat
    BY DEF TypeOK
  <2>2. tests = successes + failures + timeouts
    BY DEF Counted
  <2> QED
    BY <2>1, <2>2
<1>3. Outcomes' = Outcomes
  BY DEF Outcomes
<1>2. ~IterLive(iters) => ~IterLive(iters)'
  BY DEF IterLive
<1> QED
  BY <1>1, <1>2, <1>3 DEF Counted, AllCancellable

LEMMA NextKeepsCounted ==
  ASSUME TypeOK, TypeOK', RunInv, Counted, [Next]_vars
  PROVE  Counted'
<1> USE DEF testVars, iterVars, timerVars, runVars, watchVars, labVars, counts
<1>1. StopTest => stopped \subseteq stopped'
  BY DEF StopTest
<1>2. CallCancel \/ ClearCancel => ended \subseteq ended' /\ UNCHANGED <<iterCtx, iters, parent, overtaken>>
  BY DEF CallCancel, ClearCancel
<1>12. AllCancellable' => AllCancellable
  BY ExceptionsStay
<1>3. CASE StartCheck \/ (\E override \in Overrides : StartAct(override)) \/ StopRequest \/ LabAdvances
             \/ LabRepeats \/ UNCHANGED vars
  BY <1>1, <1>3, <1>12, CountedFrame DEF StartCheck, StartAct, StopRequest, LabAdvances, LabRepeats, vars
<1>4. ASSUME NEW t \in Tests, Runner(t) PROVE Counted'
  <2>1. CASE BeginIteration(t)
    <3>1. UNCHANGED <<successes, failures, timeouts, tests, watch>> /\ iters' = iters + 1
      BY <2>1 DEF BeginIteration
    <3>2. Outcomes' = Outcomes /\ Outcomes \in Nat /\ iters \in Nat
      BY <3>1, ConstantsAssumption DEF Outcomes, TypeOK
    <3> QED
      BY <1>12, <3>1, <3>2 DEF Counted, AllCancellable
  <2>2. CASE ~BeginIteration(t)
    <3>1. UNCHANGED <<testVars, iterVars, watchVars, counts>>
      BY <1>4, <2>2
      DEF Runner, RunnerLoop, StartLab, AwaitIteration, IterationOver, Interval, RunnerExit
    <3> QED
      BY <3>1, <1>12, CountedFrame
  <2> QED
    BY <2>1, <2>2
<1>5. CASE WatchReceive \/ WatchArm
  BY <1>5, <1>12, CountedFrame DEF WatchReceive, WatchArm
<1>6. CASE WatchCheck
  <2>1. UNCHANGED <<testVars, iterVars, counts>> /\ watch = "check" /\ iterCtx = iters
    BY <1>6 DEF WatchCheck, RunInv, LastIteration
  <2>2. CASE watch' = "idle"
    BY <2>1, <2>2, <1>12, CountedFrame
  <2>3. CASE watch' # "idle"
    <3>1. IterLive(iters) /\ watch' \in {"success", "failure"}
      BY <1>6, <2>1, <2>3 DEF WatchCheck, WatchGoto
    <3>2. /\ AllCancellable => Outcomes < iters
          /\ Outcomes' = Outcomes + 1 /\ Outcomes \in Nat /\ iters \in Nat
      BY <2>1, <3>1, ConstantsAssumption DEF Counted, Outcomes, TypeOK, AllCancellable
    <3> QED
      BY <1>12, <2>1, <3>1, <3>2 DEF Counted, AllCancellable
  <2> QED
    BY <2>2, <2>3
<1>7. CASE WatchSuccess \/ WatchFailure
  <2>1. /\ Outcomes' = Outcomes /\ watch' \in {"stop", "complete"}
        /\ tests' = successes' + failures' + timeouts'
        /\ UNCHANGED <<iters>>
    <3>1. tests \in Nat /\ successes \in Nat /\ failures \in Nat /\ timeouts \in Nat
      BY DEF TypeOK
    <3>2. /\ tests' = tests + 1 /\ watch \in {"success", "failure"} /\ watch' \in {"stop", "complete"}
          /\ UNCHANGED <<iters, timeouts>>
          /\ \/ successes' = successes + 1 /\ UNCHANGED failures
             \/ failures' = failures + 1 /\ UNCHANGED successes
      BY <1>7 DEF WatchSuccess, WatchFailure, WatchGoto, CountSuccess, CountFailure
    <3>3. tests = successes + failures + timeouts
      BY DEF Counted
    <3> QED
      BY <3>1, <3>2, <3>3 DEF Outcomes
  <2> QED
    BY <1>12, <2>1 DEF Counted, AllCancellable
<1>8. CASE WatchStop
  <2>1. UNCHANGED <<testCtx, iterVars, counts>> /\ watch = "stop" /\ watch' = "idle" /\ StopTest
    BY <1>8 DEF WatchStop, WatchGoto
  <2>2. AllCancellable => ~IterLive(iters)'
    <3>1. SUFFICES ASSUME iters # 0, Orphans = {} PROVE parent[iters] \in stopped'
      BY <2>1 DEF IterLive, AllCancellable
    <3>2. parent[iters] \in 1..testCtx /\ testCtx \in 0..MaxTests
      BY <3>1 DEF RunInv, LastIteration, TypeOK
    <3>3. testCtx \in stopped'
      BY <2>1, <3>2 DEF StopTest, TestLive
    <3>4. parent[iters] # testCtx => parent[iters] \in stopped
      BY <3>1, <3>2, ConstantsAssumption DEF Orphans, Tests
    <3> QED
      BY <1>1, <2>1, <3>3, <3>4
  <2> QED
    BY <1>12, <2>1, <2>2 DEF Counted, Outcomes, AllCancellable
<1>9. CASE WatchComplete
  BY <1>9, <1>12, CountedFrame DEF WatchComplete, WatchGoto
<1>10. CASE WatchCancel \/ WatchClear
  <2>1. UNCHANGED <<testVars, iters, parent, ended, overtaken, counts>> /\ watch \in {"cancel", "clear"}
    BY <1>10 DEF WatchCancel, WatchClear, ClearCancel
  <2>2. watch' \in {"idle", "call"}
    BY <1>10 DEF WatchCancel, WatchClear, WatchGoto, NextIfCancel
  <2>3. watch' = "idle" /\ AllCancellable => ~IterLive(iters)'
    <3>1. watch' = "idle" => iterCancel = 0 \/ Clearing
      BY <1>10 DEF WatchCancel, WatchClear, WatchGoto, NextIfCancel, Clearing
    <3> QED
      BY <2>1, <3>1 DEF AllCancellable, RunInv, LastIteration, IterLive
  <2> QED
    BY <1>12, <2>1, <2>2, <2>3 DEF Counted, Outcomes, AllCancellable
<1>13. CASE WatchCall
  BY <1>2, <1>12, <1>13, CountedFrame DEF WatchCall, WatchGoto, NextIfCalled
<1>11. ASSUME NEW k \in Timers, Timer(k) PROVE Counted'
  <2>1. CASE TimerExpire(k) \/ TimerComplete(k) \/ TimerCancel(k)
    BY <1>12, <2>1, CountedFrame DEF TimerExpire, TimerComplete, TimerCancel
  <2>2. CASE TimerCount(k)
    BY <1>12, <2>2, CountedFrame DEF TimerCount, CountTimeout
  <2>3. CASE TimerStop(k)
    BY <1>12, <2>3, CountedFrame DEF TimerStop
  <2>4. CASE TimerCall(k) \/ TimerClear(k)
    BY <1>2, <1>12, <2>4, CountedFrame DEF TimerCall, TimerClear
  <2> QED
    BY <1>11, <2>1, <2>2, <2>3, <2>4 DEF Timer
<1> QED
  BY <1>3, <1>4, <1>5, <1>6, <1>7, <1>8, <1>9, <1>10, <1>11, <1>13 DEF Next, Step, Watch

\* However the check, the counting and the cancelling of Watch interleave with timers,
\* runners and clients, an iteration counts for at most one outcome; unless it was created
\* between the call and the clearing of an earlier cancel function, or a test was orphaned.
THEOREM OutcomeCountedOnce == Spec => []OutcomesPerIteration
<1>1. Init => Counted
  BY DEF Init, Counted, Outcomes, IterLive
<1>2. Counted => OutcomesPerIteration
  BY DEF Counted, Outcomes, OutcomesPerIteration
<1>3. TypeOK /\ TypeOK' /\ RunInv /\ [Next]_vars => RunInv'
  BY NextKeepsRunInv
<1>4. TypeOK /\ TypeOK' /\ RunInv /\ Counted /\ [Next]_vars => Counted'
  BY NextKeepsCounted
<1> QED
  BY <1>1, <1>2, <1>3, <1>4, InitRunInv, TypeCorrect, PTL DEF Spec
=============================================================================
