# labwatch: models, checks and proofs

labwatch is the service of a demonstration rack. It powers six small computers
("boxes") through a relay board, chooses what they netboot, installs Talos
Linux and Kubernetes on them, and shows the state of everything to web clients. This
directory holds TLA+ models of its control logic, the TLC runs that check them on
small instances, and TLAPS proofs of the main results for any instance. Paths
and lines are those of the Go sources under `src/`.

## 1. The system

| part | state | operations | correct if |
|---|---|---|---|
| `/setlab` and the watchers (`labwatch.go`) | `activeLab`, `initializerMutex`, `initializerCancel`, `initializerDone`, the watchers' contexts | `/setlab`, `/resetwatchers`, `resetWatchers`, `startWatchers`, the event and status loops | one lab is initialised at a time; a request replaces whatever ran; every request returns; no watcher set is orphaned; no status is lost for good |
| Talos initializer (`talosinitializer`) | `needDiskWipe`, `diskWipeDone`, the endpoint and pod maps, the `lastlab` file | `Initialize`, its callback goroutine, `INITLOOP`, `BootstrapEtcd`, `FinalizeInstall`, `watchPods` | bare-metal disks are wiped before an installation; boxes do not keep booting the wipe image; it ends when cancelled |
| netboot link (`lablinkmanager`) | one symlink | `EnableLab`, `EnableDiskWipe` | the link points where its current owner says |
| power manager (`powerman`) | the cached status of the relays | `TurnOn`, `TurnOff`, `PortIsOff`, `Restart`, the poll, `/power` | "off" means off; commands end |
| switch manager (`switchman`) | the cached status of the switch ports | as `powerman`, over HTTP | as `powerman` |
| callback watcher (`watchers/callbacks`) | a map from key to the boxes that called | `ServeHTTP`, `Watch`, `Reset` | a callback counts for the run it belongs to; senders do not block for ever |
| reliability test (`handlers/reliabilitytesthandler`) | two contexts with their cancel functions, a step timer, counters | start, stop, the runner goroutine, `Watch`, timers | each iteration has one outcome; a stopped run ends; a running one goes on |
| status, event, load and browser handlers | clients with bounded channels, statistics | fan-out, `Reset` | the last status reaches every client; a reset is a reset |
| port watcher (`watchers/port`) | one flag per endpoint | `Watch`, a prober per endpoint | a change reaches whoever waits for it |
| log watcher (`watchers/otelfile`) | the open file, its place, statistics | `Watch`, `openFile`, `checkFileRotation` | each event is forwarded once and in order, over rotations |
| OpenWrt, Loki, Talos and Kubernetes watchers | what each saw last | poll, report changes | each change is reported once |
| Statusinator, scaler, router manager, `reliability-test` command | little | thin | – |

How the parts meet. `/setlab` takes `initializerMutex`, cancels the previous
initializer and waits until it has closed `initializerDone`. It then moves the
netboot link, powers the boxes down, resets the watchers, starts a new
`Initialize` goroutine and unlocks. `Initialize` starts a callback goroutine
which outlives it and ends with the context; both share `diskWipeDone` and the
link. A box that has finished wiping calls `/callbacks`; the callback watcher
sends its whole map to the status loop, which drops it if the initializer's
channel is full. `powerman` answers from a status which it polls once a
second. The reliability test is a client of `/setlab` in the same process and
reads the status that the status loop broadcasts. Watchers report on channels to the
status loop of their set, which merges each report into the current status; the status handler
broadcasts every status to the channels of its clients. The port watcher's updates
also go to the initializer, whose `INITLOOP` counts endpoints and starts virtual machines.

What is hard: overlapping requests, each of which replaces the same two
handles; goroutines that outlive the function that started them; loops that
ignore the context while the goroutine that would end them follows it; decisions
taken from a status up to a second old; files and links that fail half-way; contexts
and cancel functions that four goroutines of the reliability test read and write
without a lock. `PROJECT.json` lists each hazard at its line with the
properties that address it, or why none does.

## 2. The modules

### LabControl – replacing one lab by another

`/setlab`, `Initialize`, its callback and pod goroutines, the link, the relays.
A request is an element of `Requests` and starts at most one initializer,
so it also names that initializer, its context, its done channel and its
goroutines.

| variable | in the code |
|---|---|
| `pc`, `lab` | where the handler stands; its local `lab` |
| `activeLab`, `mutex`, `handle`, `cancelled` | `activeLab`; `initializerMutex`; the request `initializerCancel` and `initializerDone` belong to; cancelled contexts |
| `phase`, `linkOf`, `needWipe`, `wipeDone`, `podsReady` | where `Initialize` stands; the folder its `LinkManager` was built with; `needDiskWipe`, `diskWipeDone`; the pod counts as the loop compares them |
| `cb`, `podWatch` | the two goroutines that `Initialize` starts |
| `link`, `lastLab` | the symlink; the `lastlab` file |
| `relay`, `seen` | the board; `powerman`'s cached status |
| `booted`, `dirty` | environment: what each box runs; boxes with an installation on disk |
| `wipes`, `cbChan` | the callback watcher's map under "wipe"; the initializer's channel |

The actions follow the source from one blocking call or visible effect to
the next: `Accept` … `Spawn` are the handler, `Begin` … `CloseDone` are
`Initialize`, `Callback…` and `Pod…` its goroutines, `PowerRequest` and
`ResetRequest` the other two HTTP requests that matter here, `Poll` the once-a-second poll, and
`BoxBoots` and `WipeCallback` the boxes.

The abstractions:

- `TurnOn` and `TurnOff` are one step each. With `SerialErrors`
  they may stop at any port, as a failed write makes them do; callers ignore the error.
- A box netboots only after some poll has shown it on: the poll comes every
  second, and firmware takes longer.
- A lab has bare-metal nodes exactly if its name contains "hybrid" or
  "physical"; the code tests the name in one place and the nodes in another.
- `INITLOOP` is left when all endpoints are up (at any time, up to the boxes)
  or when the context is done.
- A callback's way from `/callbacks` through the status loop into the
  initializer's channel is one step. `resetWatchers` is one step that clears
  the map and returns. WatcherReset takes both apart. It shows that a reset can fail to
  return, and that a loop may forward a callback it received before a reset to the initializer
  started after it; LabControl assumes that a callback is forwarded sooner than
  the boxes are powered down, which takes a poll of the board at least.
- The switch, which `/setlab` also powers on and waits for, is one step (`NetworkUp`).

**LabOwner** is the abstract promise: at most one request owns the lab,
each owns it at most once, and boxes are powered on only while somebody owns it.
`ImplementsLabOwner` maps it: the owner is the request of `handle` while its
initializer runs, `served` is the set of requests whose initializer was started, `power` is `relay`.
**MCLabControl** gives `WipeBoxes` for TLC (in a physical lab every box is a Talos node, in a
hybrid one box 1) and the symmetry of requests, used where only safety is checked. **LabControlProofs** holds the theorems, and every
other module has its theorems in a module of that kind too.

### WatcherReset – the watchers and their reset

Each reset starts a new set of watchers with a status loop of its own; a set is named by the
request that started it, and the set started by `main` by `Nobody`.

| variable | in the code |
|---|---|
| `pc`, `local`, `mutex` | the handlers of `/setlab` and `/resetwatchers`, their `updatedStatus`, `initializerMutex` |
| `watcherCancel`, `cancelled` | the set that `watcherCancel` cancels; cancelled sets |
| `loop`, `update` | where each status loop stands; its `updatedStatus` |
| `status` | the callbacks in `currentStatus` |
| `caller`, `cbMux`, `kvPairs` | requests to `/callbacks`; the callback watcher's mutex and map |
| `cbStatuses`, `statusChan` | the two channels of the initializer, which all sets share |
| `handle`, `initializer`, `news`, `takers` | the initializer as the watchers see it |
| `overlapped` | history: the sets that were assigned in the middle of another reset |

A status loop reads the current status, replaces one part and writes all of it
back: two steps (`LoopInitializer`, `LoopCallback` or `LoopOther`, then
`LoopUpdate`), and between them resets, `/setlab` (`ReadStatus`, `WriteStatus`) and the
loops of other sets may write. Checking the initializer's channel for room and sending to
it are two steps as well (`LoopCheck`, `LoopPush`). The select of a cancelled loop may still
choose another ready case, as Go's does. `resetWatchers` takes no lock, so its steps in different
handlers interleave (`Overlap = TRUE`), and two resets may cancel one set and assign two: the one assigned first
is left behind. Of the statuses only the callbacks are kept; the web
clients, each sent what fits into its channel, and the event loop are left out.

### InitLoop – from a port that answers to an initializer that counts it

A run is one call of `Initialize` with the set of watchers started for it; runs follow
one another and share the initializer's port channel.

| variable | in the code |
|---|---|
| `run`, `phase`, `todo`, `current`, `counts` | the current `Initialize`, where it stands; its endpoint maps, `currentStatus`, the two counters |
| `known`, `sending`, `watcher`, `seen` | per run: the probers' `up`, those blocked in a report; `PortWatcher.Watch` and its map |
| `loop`, `held`, `queue` | the status loops and the update each holds; `portStatuses` |
| `starting`, `starts` | what each `StartVMsOnHypervisor` has yet to start; how often it was called |
| `discards` | the goroutines that throw updates away after `INITLOOP` |
| `powered`, `up`, `machines` | environment: boxes and virtual machines |

The watcher's first message is its own map and not a copy: an update with `own` set is read when
it is used. A dial that a reset interrupts counts as made before it. A box or machine takes longer
to come up than the pause of a prober (five seconds), so a prober that is not blocked has seen it down before.
The wipe may end before or after `generate.sh` (`Generated`).

### PowerManager – a status that trails the relays

Polls (`PollRequest`, then a good, garbled or failed reply) and calls are interleaved;
calls read the cached status port by port and write to the board. A caller is an
HTTP request, or the power-down that `/setlab` and `Initialize` make: `TurnOff(PALL)`, error
ignored, then a wait for `PortIsOff(PALL)`. The assignment of a new status is one step.
Time appears only as the number of polls without a good reply (`silent`), because the
manager panics on it: at `manager.go:113` it takes `err.Error()` of an error that is nil after a
garbled reply. A panicked manager has taken the process with it (`Alive`).

### StatusPath – from the power manager to a browser

`Watch` reports changes of its status, the loop of its set merges them, `UpdateStatus` stores and
broadcasts, and browsers connect, read and leave. Of the status one bit is kept, a port of
its `Power`: every other update writes that bit back as it has read it (`MergeOther`, `ClearInit`), which
is where updates get lost. `/setlab` and `/resetwatchers` are the updater `Lab`. The switch
manager's `Watch` and the event handler's fan-out have the same form.

### OtelFile – the log watcher

A line is its number, the file at the path a generation. The collector writes
lines whole or in halves, renames its file and creates the next one. The
reader opens, checks for rotation, reads and sends; the forwarder batches
and forwards what fits. What the content of a line yields is the number of its events.

| variable | in the code |
|---|---|
| `written`, `half`, `gen`, `exists`, `start` | environment: the log, and the file at `w.path` |
| `file`, `next`, `torn`, `reader`, `offered`, `counted` | `currentFile`, its place, where the reading goroutine stands, the event it sends, `NumMessages` |
| `forwarder`, `batch`, `eventChan`, `statChan` | the loop that forwards, the batch it collects, the channels it forwards to |
| `broadcast`, `shown`, `cancelled` | what the main program has made of them; the context |
| `errors` | calls to the file system that went wrong (bounded) |
| `pass`, `halved`, `behind`, `failed`, `gap`, `full` | history: how often a file was started anew; what was lost, by cause |

A check of the path that fails, or that finds the time of change gone backwards, passes for a rotation whatever file is
there (`CheckWrong`): `openFile(false)` then reads the same file from its first line once more, which is another
`pass`. Opening may fail after the old file was closed (`ReopenFails`), and a read may fail, which closes the file
(`ReadFails`); in both cases the next turn tails the file at the path, and what had not been read is `failed`. A collector
that truncates its file in place (the size that decreased, `otelfilewatcher.go:141`) is left out.

### LoadStat – the load statistics

One counter stands for the four totals. A pod's entry, its connections' local counters,
`statChan` and a viewer's channel are kept; the maps that a report carries are those of the handler
(Go copies a struct, not the maps in it), so the broadcaster sees their present entries (`Copy`). The
ticker that smooths rates is left out.

### ReliabilityTest – the reliability test handler

A context is a number in the order of creation, 0 is nil. Each
`startTest` has a runner goroutine; as in the code it reads `h.testCtx` anew at each
turn. `Watch` is split where another goroutine can intervene: setting the
timer, checking the iteration's context, counting, completing, cancelling, and the last again in three, for
no lock joins the nil test of `currentTestCancel`, its call and its assignment of nil (`NextIfCancel`, `CallCancel`,
`ClearCancel`). In between another goroutine may clear the function, so that nil is called and the process ends
(`Alive`), or a runner may store that of the next iteration, which is then set to nil (`overtaken`). A
timer goroutine is split in the same way from its expiry on. The lab is the
environment: it advances, fails or finishes, or labwatch repeats its status,
and statuses are dropped when the channel is full.

Left out, because no decision reads them: step timings, the tallies per step,
and the broadcast to web clients. One step each are `stopTest` (check, cancel, clear the timer), `clearStepTimer`
and `setStepTimer`, and the two stores of line 285 (context and cancel function of an iteration). Of two of them at once on
`stepTimeoutCancel` one may lose a timer's cancel function or call it twice: a timer that nobody cancels expires and counts,
as one does here that expires just before it is cancelled, and a second call does nothing.

## 3. The runs

| run | configuration | result |
|---|---|---|
| `lab_safety` | 2 requests, 2 labs (bare metal, virtual), 2 relays, channel of 2, serial and file errors | `TypeOK`, `OneInitializer`, `WipedBeforePowerUp`, `PowerOnOnlyByOwner`, `ImplementsLabOwner` hold; 1.3 million states up to the symmetry of requests |
| `lab_liveness` | 2 requests, 1 lab, 1 relay, serial errors, operators using `/power`; `FairSpec` | `WipeLinkOwned` and `SetLabCompletes` hold; 95 thousand states |
| `lab_no_wipe` | 2 requests, 2 labs (hybrid, virtual), 2 relays, no failures | `NoWipeMeansClean` violated |
| `rel_safety` | 2 tests one after the other, 2 iterations, 1 timer, no aborts | `TypeOK`, `OutcomesPerIteration`, `LiveTestHasRunner`, `IterationReleasable` hold; 5.8 million states |
| `rel_stop` | 2 start requests at once, 2 tests, 1 iteration, 1 timer, aborting on any failure; `FairSpec` | `IterationReleasable`, `StoppedRunEnds` hold; 259 thousand states |
| `watcher_reset` | a `/setlab` and a `/resetwatchers`, one after the other or overlapping, a box that keeps calling, channels of 1; `FairSpec` | `TypeOK`, `WatchersCancellable`, `ResetReturns`, `CallbackAnswered` hold; 98 thousand states |
| `init_safety` | 2 runs, the second with a wipe; a hypervisor and its machine, channel of 1 | `TypeOK`, `NoSilentLoss`, `CountedHaveArrived`, `PushesFit` hold; 2.2 million states |
| `init_boot` | 1 run with a wipe, a hypervisor and its machine of which one goes down by itself, channel of 2; `FairSpec` | `CountedOnce`, `LoopEnds` hold; 165 thousand states |
| `power_calls` | 2 ports; the lab's power-down and a restart of all, an operator who switches; panic after 2 polls without a good reply; `FairSpec` | `TypeOK`, `OffIsOff`, `RestartLeavesOn`, `WaitsEnd` hold; 185 thousand states |
| `status_path` | 2 sets of watchers, a change of power, an update of another field, a browser with a channel of 1; `FairSpec` | `TypeOK`, `ClientCurrent`, `PowerCurrent`, `PowerReachesClients` hold; 723 thousand states |
| `otel_file` | 2 lines of 2 events, 2 generations, a call that fails, channels of 1; `FairSpec` | `TypeOK`, `InOrder`, `NothingElseLost`, `LinesHandled` hold; 1.5 million states |
| `load_stats` | 2 connections of one pod or of two, 2 reports, 2 resets, a viewer, channels of 1; `FairSpec` | `TypeOK`, `EntryOfConnected`, `EntriesWithinTotal`, `ViewerCurrent`, `ResetEnds` hold; 788 thousand states |

Why these bounds. Two requests are what it takes for one lab to replace
another; `lastLab` starts with any value and so stands for a lab before the first
one. Two relays are the least at which a failing or early return of `TurnOn`
and `TurnOff` leaves the ports in different states. Two callback slots hold a stale
callback next to a good one; with two boxes each calling once per boot the channel
also fills up. For the reliability test two tests give a
runner that outlives its stop and meets the next start, or two that were started at once (with that and two iterations together the properties hold as well, over
10.2 million states); two iterations give an outcome
that may be attributed to the wrong one, and a timer that outlives its iteration.
For the watchers two resets make three sets, so that
one may be left behind where they overlap and the loop of a replaced set meets its successor; a channel of one is full after one callback, which is
what the race of two loops for its last slot needs. Two runs of the initializer give the loop, the prober
and the discarding goroutine of one that is over beside those of its successor; the hypervisor and
its machine are the shortest chain in which one endpoint depends on another. Two ports are the least
at which a call that stops at the first one leaves the other as it was. Channels of one are full at once
and empty at once. Two sets of watchers make one that is cancelled and one that replaced it. Two
generations of the log file give a rotation that is noticed late, or one that is not there (with three
and lines of one event the properties hold as well, over 717 thousand states); one failure is what separates the
reader from a file that it has open. Two
connections of one pod are a pod that reconnects before its old connection is closed.
The theorems have no such bounds. Deadlock is not checked: requests, iterations, lines, reports
and the like are finite in number, so every run may stop.

**Where the code falls short.** `lab_no_wipe` is a disagreement between code and comment
(`findings` in `PROJECT.json`): `lastlab` names a lab before that lab has touched any disk, so
replacing a virtual lab early hides the bare-metal installation under it.

Elsewhere a property holds but for cases which it names, each of which the
runs reach. They are what a maintainer should know of:

- `SetLabCompletes` exempts three waits that never end (`Wedged`), with the mutex held: a `/setlab` during a
  disk wipe (`for !diskWipeDone` does not watch the context, and the callback
  goroutine, which does, was the only one to set the flag), the same pattern with pods, and the wait for "all
  off" after a lost off command.
- `ResetReturns` and `CallbackAnswered` exempt two deadlocks (`Stuck`): a callback that waits for a
  reader with the mutex which the reset needs before it starts the next reader, and a loop that waits for
  room in a channel nobody empties.
- `WatchersCancellable`: of overlapping resets each may leave a set of watchers that nobody can cancel (`overlapped`).
- `OutcomesPerIteration` bounds successes and failures by the iterations, not timeouts: a step timer that expires
  while `Watch` is completing an iteration counts it once more.
- `OutcomesPerIteration` and `IterationReleasable`: `Watch` or a timer that sets `currentTestCancel` to nil
  after calling it may clear that of the next iteration (`overtaken`), which then has no end but the test's and
  counts each repeated result. Two goroutines that both pass the nil test may call nil, which ends the process (`Alive`). And
  `startTest` checks and acts without a lock: of two start requests served at once both may pass, and the first test
  can then never be stopped (`Orphans`).
- `OffIsOff` exempts ports that were switched on after the last good poll and before the power-down
  began: the power-down takes them for off, skips them, and its wait believes the same status.
- `WaitsEnd`: a restart or power-down whose port stays on waits for ever. (And five seconds
  of garbled replies end the process, see above.)
- `NoSilentLoss` and `LoopEnds`: a port update that finds the initializer's channel full, or is taken by the
  discarding goroutine of an earlier run (`lost`), is never repeated, and `INITLOOP` waits for ever; so it
  does when a hypervisor restarts after its machines were started and before they are counted (`MachinesGone`).
- `CountedHaveArrived`: updates that `drainChans` cannot reach (`leak`) count boxes that
  were up before the last power-down; so they are if the wipe ends before `generate.sh` does, when
  boxes are not restarted at all.
- `PowerCurrent` and `PowerReachesClients`: `Watch` reads its status again after it has sent it (`missed`), and
  unlocked read-modify-writes of the current status overwrite each other or bring the status of a cancelled set back (`undone`).
- `ClientCurrent`: a full channel, or two broadcasts at once, leave a browser with an older status (`excused`).
- `InOrder`: a file that was not rotated but taken for rotated is read again, and its events are broadcast again (`pass`).
- `NothingElseLost`: at the end of a file in the middle of a line `readLine` has a comment (`otelfilewatcher.go:97`)
  that what was read is saved for the next time, and returns without it. The rest of the line is not JSON, and its
  events are lost (`halved`): without that exception TLC finds the property violated by one line in one file, with
  no rotation and no failing call. The rest of a file at its rotation is lost as well (`behind`), and so are
  what was unread when a read or the opening of a file failed (`failed`), lines written while
  no file is open (`gap`), and events that find the channel full (`full`).
- `LoadStat`: a pod that reconnects loses its entry when the old connection closes (`displaced`), and after a reset a
  connection's next report brings its old count back (`inflated`); reports may be sent in another order than
  they were counted (`late`), and a viewer's full channel drops the last one (`missed`).

### Fairness

`LabControl!FairSpec` assumes that goroutines that can run do run (weak
fairness of the handlers, of `Initialize`'s own steps, and of the exits and
link switch of its goroutines), that the board is polled, that the ports of the network switch come up once `/setlab` has turned them on (its wait for them
has no other end, and holds the mutex), and that a command started
with `exec.CommandContext` ends once its context is cancelled. It assumes
nothing of clients, boxes, pods or of a command that has not been cancelled. The
mutex needs no strong fairness: `SetLabCompletes` speaks of whoever holds it.
Weak fairness of the repeated waits is enough because their conditions, once
true under a cancelled context, stay true or fall under `Wedged`.

`WatcherReset!FairSpec` assumes that handlers and loops are scheduled, that a loop's select
chooses a callback that is ready time and again (Go chooses at random), and that the
callback watcher's mutex is not denied for ever to a reset that waits for it (Go's mutex
hands over to a waiter that has starved). These last two are strong fairness. It assumes nothing
of the initializer, of boxes, or of the exit of a cancelled loop.

`ReliabilityTest!FairSpec` assumes only that runner goroutines are
scheduled: their HTTP client has a timeout of 30 s, their commands as well, and the interval
between tests is finite. Nothing is assumed of `Watch`, timers, clients or the lab.

`InitLoop!FairSpec` assumes that probers, watcher, loop and `INITLOOP` are scheduled, that the
watcher's select does not pass over a prober for ever (strong fairness: Go chooses at random), that an
attempt to start a machine succeeds in the end, as the retry loop presumes, and that what is
powered or created comes up. `PowerManager!FairSpec` assumes that goroutines run and
that good replies do not stop for good (strong fairness of `PollGood`). `StatusPath!FairSpec`
assumes that `Watch`, the updaters and the clients' handlers run. `OtelFile!FairSpec` assumes that the two
goroutines run, that a rotation check falls due, and that a collector which has renamed
its file creates the next one; nothing of the main program's loops. `LoadStat!FairSpec` assumes that the broadcasting
goroutine and the handler of `/setlab` run; nothing of connections or viewers.

## 4. What is proved

For any finite or infinite set of requests, any labs, any number of relays and
any channel capacity, any log, any pods, connections and browsers; the only assumption on the constants is
`ConstantsAssumption` of each module, except where a theorem names another. (InitLoop's has the boxes and machines finite,
since counts of them are compared, and LoadStat's keeps the name of the resetter apart from those of connections.)

| theorem | property | also assumes |
|---|---|---|
| `TypeCorrect` | `TypeOK` | – |
| `Exclusion` | `OneInitializer` | – |
| `OwnedPower` | `PowerOnOnlyByOwner` | no `/power` |
| `Refinement` | `ImplementsLabOwner` | no `/power` |
| `WipeLink` | `WipeLinkOwned` | no file errors |
| `CleanPowerUp` | `WipedBeforePowerUp` | no `/power` |
| `WatcherResetProofs!TypeCorrect` | `WatcherReset!TypeOK` | – |
| `Cancellable` | `WatchersCancellable` | – |
| `PowerManagerProofs!TypeCorrect` | `PowerManager!TypeOK` | – |
| `SeenOffIsOff` | `OffIsOff` | – |
| `RestartEndsOn` | `RestartLeavesOn` | – |
| `ReliabilityTestProofs!TypeCorrect` | `ReliabilityTest!TypeOK` | – |
| `LiveTestIsRun` | `LiveTestHasRunner` | – |
| `IterationIsReleasable` | `IterationReleasable` | – |
| `OutcomeCountedOnce` | `OutcomesPerIteration` | – |
| `InitLoopProofs!TypeCorrect` | `InitLoop!TypeOK` | – |
| `CheckedFits` | `PushesFit` | – |
| `EachCountedOnce` | `CountedOnce` | – |
| `CountedAnswered` | `CountedHaveArrived` | – |
| `NoneLostSilently` | `NoSilentLoss` | – |
| `StatusPathProofs!TypeCorrect` | `StatusPath!TypeOK` | – |
| `CurrentHasPower` | `PowerCurrent` | – |
| `BrowsersAreCurrent` | `ClientCurrent` | – |
| `OtelFileProofs!TypeCorrect` | `OtelFile!TypeOK` | – |
| `EventsInOrder` | `InOrder` | – |
| `OnlyExcusedLost` | `NothingElseLost` | – |
| `LoadStatProofs!TypeCorrect` | `LoadStat!TypeOK` | – |
| `ConnectedHaveEntry` | `EntryOfConnected` | – |
| `ViewersAreCurrent` | `ViewerCurrent` | – |
| `EntriesAddUp` | `EntriesWithinTotal` | – |
| `CutIsForGood` | stated in the theorem | – |
| `OffMissedIsForGood` | stated in the theorem | no `/power` |
| `DeadlockIsForGood` | stated in the theorem | – |
| `DoomedNeverDone` | stated in the theorem | boxes and machines have different names, a machine has one hypervisor |

The assumptions are needed: an operator with `/power` may switch on whatever
he likes, and a link that cannot be moved stays where it is.

Four theorems have no run of their own. They say that what the liveness properties exempt is no passing
state: a loop of the initializer that ignores its cancelled context after its waker has followed it
(`CutIsForGood`) and a wait for "all off" that began with a relay on (`OffMissedIsForGood`), two parts of `Wedged`; the first
deadlock of `Stuck` (`DeadlockIsForGood`, unless another reset is already past the mutex and about to start its watchers); and an `INITLOOP` whose machine is gone and known to be
gone, `MachinesGone` (`DoomedNeverDone`), which only a cancel ends. In each a state, once reached, can only be
left by the steps that the theorem names.

The inductive invariants, each shown to hold initially, to be kept by every
action (one step of the proof per action), and to imply the property:

- **IInv**, for exclusion. `OneInitializer` says nothing of the lock and so is not
  inductive. IInv adds: a handler is in its critical region exactly while it holds
  the mutex (`MutexOwned`); an initializer that has not closed its done channel is the
  one `handle` names (`ActiveHandled`); none is active from the end of `Await` to
  `Spawn` (`HandoverQuiet`); an initializer exists only if its handler has finished
  (`SpawnedLast`). Ownership of power and the refinement follow from IInv step by step:
  only `WipePowerOn` and `PowerUp` of an active initializer add relays.
- **WInv**, for the link, on top of IInv. From the handler's `EnableLab` to the
  initializer's `EnableDiskWipe` the link points at a lab (`LinkIsSet`), no box runs the
  wipe image in that stretch (`BoxesQuiet`, for which a running box must be on and seen on,
  `RunningSeen`), no callback waits in the channel when the wipe begins (`Drained`), and no
  wipe is complete before it begins (`NotWiped`). Otherwise a late callback of the previous
  wipe would end the new one and leave the link to nobody.
- **CInv**, for clean power-up, on top of IInv. A box is fresh while it has been wiped and
  has not been off since. From the reset of the watchers to the end of the wipe the
  callback map holds only fresh boxes (`WipesFresh`), so do the snapshots in the channel
  once `Begin` has drained it (`SnapshotsFresh`), and a completed wipe means that all
  its boxes are fresh (`DoneFresh`); they then stay clean until they are powered
  (`StaysClean`). A box that boots a lab image meanwhile would break it, and an operator with
  `/power` can bring that about; hence the assumption.
- **SInv**, for the sets of watchers. From `Cancel` to `Assign` the set that `watcherCancel` refers to is cancelled, or
  another request has assigned it since (`OldKnown`); and a set that runs is cancelled, or is the one that `watcherCancel`
  refers to, or is about to be assigned, or was assigned in the middle of another reset
  (`RunningKnown`, which is not inductive without the other). **LInv**: what is cancelled has been assigned before, the set assigned last is
  cancelled only while some request is replacing it, and what is not cancelled listens. Both give `Cancellable`; neither
  needs resets to exclude each other.
- **StatusInv**, for the power manager. `m.status`, and the reply under way, differ from the
  relays at most in the ports switched since they were taken (`StatusKnown`). In the half of a call that
  switches off, an untouched port is on in the status if it is on in the reply, and there if it is on
  (`OffOrder`): copies are late but only ever become emptier. So the ports that a wait is past stay off in
  the status (`SeenOff`) and in truth. In the second half of a restart the order is reversed
  (`OnOrder`), and what the restart is past is on (`TurnedOn`). Every other caller's step is on record in
  `touched`, which is what makes the argument go caller by caller.
- **RunInv** and **Counted**, for the reliability test. The handler has the context of the last iteration and its cancel
  function until that is cleared, which is done only after it was called, or by somebody who called an earlier one: then the
  iteration was created in between and is in `overtaken` (`LastIteration`, which has to say the same of a goroutine that is
  about to clear it). If each iteration has its outcome, the last one is over whenever `Watch` is before its check
  (`Counted`, as long as there are neither overtaken iterations nor orphaned tests). A runner whose iteration was replaced has
  a second runner beside it that looks at the current test
  (`Releasable`), which `IterationReleasable` does not say and needs. **OwnRunner**: a live test has the runner that was
  started with it. None of this needs start requests to be served one at a time.
- **Prepared**, **Clean**, **Agreed** and **Awaited**, for the loop of the initializer. Until INITLOOP begins nothing is
  counted and all is waited for (`Prepared`, which `CountedOnce` needs at the start of the loop). `CountedHaveArrived` speaks
  of what is counted, and the cause lies upstream: once the channel was drained for the last time with nothing on its
  way, everything that the current watchers know, probe, hold or have sent has answered since, and replaced sets have
  nothing to say (`Reported`, `Quiet`). For `NoSilentLoss` the direction is the other: a prober with nothing to report
  agrees with its watcher's map (`Agreed`), so what is known to be up and is waited for is still to be sent, held
  or queued (`Awaited`).
- **Carried** and **Delivered**, for the status path. What `Watch` has recorded as sent is in the current status, or the
  last set's loop has it in hand, or another updater has undone it (`Carried`, which follows the value through each
  stage of `Watch`). A client that is not excused has at most one broadcast under way, of the current status, and
  has that status or will get it (`Delivered`).
- **Files**, **Order**, **Skippable** and **Lossless**, for the trace file. Lines of later files are later (`Files`), the
  broadcast, the channel and the batch hold events in order, each before the next, and all of them before what the reader
  comes to, in its pass over the file (`Order`). A line that the reader may skip is on record as halved, behind, failed or
  in a gap before it is skipped
  (`Skippable`), so that a skipped line is always excused (`Lossless`).
- **Newest** and **Shows**, for the load statistics. The newest snapshot is sent or some sender has it (`Newest`); if
  all is sent and none was overtaken, it is the last in `statChan`, or being broadcast, or what the browser
  got last (`Arriving`).
- **Accounted**, also for the load statistics. A sum over pods cannot be unfolded here, so `EntriesWithinTotal`
  counts units: the pairs of a pod and a number up to its entry. The reports of connections that made none before the last
  reset are `Units` as well, each of which was added to the total. An entry that is not inflated is
  the count of one connection (`EntryOf`), of a different one for each pod; that maps the units of the pods one-to-one
  into `Units`, and the theorem on cardinalities of injections does the rest.
- **Hosted**, for `DoomedNeverDone`. `StartVMsOnHypervisor` has only its own machines left to start, and a
  machine that answers exists.

Every invariant and every action property of the passing runs is a theorem. Only model-checked: liveness (temporal properties
under fairness are out of reach of the installed provers). TLC
reaches the states that the four permanence theorems speak of on the instances of the runs, so their premises are not empty.

## 5. Not modelled

- *The switch manager* is a poll, a `Watch` and a wait over HTTP of the power manager's kind, except that calls fetch
  the status as well as the poll, so that an older page may replace a newer one until the next poll; `/setlab`'s use of it
  is `NetworkUp` of LabControl. *The event handler* is the status handler's fan-out without a current
  value. *The OpenWrt and Kubernetes watchers* poll and report; StatusPath has their reports as `Report` and `MergeOther`.
- *LabControl with WatcherReset composed*: LabControl takes a reset and the way of a callback as one step each, and
  WatcherReset takes them apart without the boxes. Their product is beyond TLC.
- *Rates, step timings, tallies, status texts*: numbers and words that are displayed and that nothing decides on.
- *What cluster commands do* (`talosctl`, `kubectl`, `virsh`): they succeed, fail or are killed.
- *The Statusinator, the scaler, the router manager, the browser handler and the reliability-test command*: thin
  wrappers around a device, a deployment, a router, programs on a screen, and a sequential predecessor of the handler.
- *Web pages* (`src/site`, with the vendored chart and slide libraries): user interface. All of the JavaScript of the
  repository is there; labwatch itself is written in Go, which is what the models are of.
- *The Talos and Loki watchers*: `startWatchers` has them commented out.

## 6. Running

    tlc -workers 2 -config LabSafety.cfg MCLabControl.tla
    tlc -workers 2 -config RelSafety.cfg ReliabilityTest.tla
    tlc -workers 2 -config WatcherReset.cfg WatcherReset.tla
    tlc -workers 2 -config InitSafety.cfg MCInitLoop.tla
    tlc -workers 2 -config PowerCalls.cfg MCPowerManager.tla
    tlc -workers 2 -config StatusPath.cfg StatusPath.tla
    tlc -workers 2 -config OtelFile.cfg OtelFile.tla
    tlc -workers 2 -config LoadStats.cfg MCLoadStat.tla
    tlapm LabControlProofs.tla
    tlapm WatcherResetProofs.tla
    tlapm PowerManagerProofs.tla
    tlapm ReliabilityTestProofs.tla
    tlapm InitLoopProofs.tla
    tlapm StatusPathProofs.tla
    tlapm OtelFileProofs.tla
    tlapm LoadStatProofs.tla

The `Lab*.cfg` files belong to MCLabControl, `Rel*.cfg` to
ReliabilityTest, `Init*.cfg` to MCInitLoop; the MC modules give TLC its instances. Operators introduced by "A bug to be
caught" stand for plausible mistakes in the code (a dropped wait, a forgotten reset); `mutants` in
`PROJECT.json` pairs each with the definition it would replace and the property that
catches it.
