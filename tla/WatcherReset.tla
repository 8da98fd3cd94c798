---------------------------- MODULE WatcherReset ----------------------------
(***************************************************************************)
(* The watchers of labwatch.go and their reset: resetWatchers, the status  *)
(* loop that startWatchers starts for each set of watchers, the callback   *)
(* watcher's mutex and unbuffered channel, the current status of the       *)
(* status handler, and the two channels of the initializer that every set  *)
(* of watchers shares.                                                     *)
(*                                                                         *)
(* A set of watchers is named by the request that started it; Nobody names *)
(* the set started by main, which knows no initializer.  What the          *)
(* initializer does with a lab is the subject of LabControl.               *)
(***************************************************************************)
EXTENDS Integers, Sequences

CONSTANTS
  Requests,  \* the requests that reset the watchers
  SetLabs,   \* those of them that are /setlab; the others adopt, or /resetwatchers
  Callers,   \* the requests to /callbacks
  Overlap,   \* do other requests reset the watchers while one is doing so?
  CbCap,     \* capacity of the initializer's callback channel, 5 in the code
  StatusCap, \* capacity of its status channel, 5 in the code
  MaxNews,   \* bound: status updates of each initializer
  Nobody

ASSUME ConstantsAssumption ==
  /\ SetLabs \subseteq Requests
  /\ Nobody \notin Requests \cup Callers
  /\ Overlap \in BOOLEAN
  /\ CbCap \in Nat \ {0} /\ StatusCap \in Nat \ {0} /\ MaxNews \in Nat

Sets == Requests \cup {Nobody}

VARIABLES
  pc,            \* where the handler of each request stands
  local,         \* its updatedStatus
  mutex,         \* initializerMutex: its holder or Nobody
  watcherCancel, \* the set that watcherCancel cancels
  cancelled,     \* the sets that are cancelled
  loop,          \* where the status loop of each set stands,
  update,        \* and its updatedStatus
  status,        \* the status handler's currentStatus
  caller,        \* where each request to /callbacks stands
  cbMux,         \* the callback watcher's mutex: the caller that holds it or Nobody
  kvPairs,       \* the callback watcher's map: the callers it has an entry of
  cbStatuses,    \* the initializer's callback channel
  statusChan,    \* the initializer's status channel
  handle,        \* whose context initializerCancel refers to
  initializer,   \* where that initializer stands
  news,          \* status updates it has sent
  takers,        \* the initializers that have started a callback goroutine
  overlapped     \* history: the sets assigned in the middle of another reset

handlerVars == <<pc, local, mutex, watcherCancel, overlapped>>
loopVars    == <<cancelled, loop, update>>
cbVars      == <<caller, cbMux, kvPairs>>
initVars    == <<handle, initializer, news, takers>>
chanVars    == <<cbStatuses, statusChan>>
vars == <<handlerVars, loopVars, status, cbVars, initVars, chanVars>>

\* Of a status: its callbacks.  Its other parts are left out.
Status == SUBSET Callers
Fresh  == {}

Resetting(r) == pc[r] \in {"cancel", "callbacks", "status", "start", "assign"}

\* It has cancelled a set of watchers and not assigned its own yet.
Replacing(r) == pc[r] \in {"callbacks", "status", "start", "assign"}

TypeOK ==
  /\ pc \in [Requests -> {"idle", "await", "cancel", "callbacks", "status", "start",
                          "assign", "read", "write", "spawn", "done"}]
  /\ \A r \in Requests : pc[r] \in {"await", "read", "write", "spawn"} => r \in SetLabs
  /\ local \in [Requests -> Status]
  /\ mutex \in SetLabs \cup {Nobody}
  /\ watcherCancel \in Sets
  /\ cancelled \subseteq Sets
  /\ loop \in [Sets -> {"none", "select", "check", "push", "update", "gone"}]
  /\ update \in [Sets -> Status]
  /\ status \in Status
  /\ caller \in [Callers -> {"idle", "send"}]
  /\ cbMux \in Callers \cup {Nobody}
  /\ \A c \in Callers : caller[c] = "send" <=> cbMux = c
  /\ kvPairs \subseteq Callers
  /\ cbStatuses \in Seq(SUBSET Callers) /\ Len(cbStatuses) <= CbCap
  /\ statusChan \in Seq(Requests) /\ Len(statusChan) <= StatusCap
  /\ handle \in SetLabs \cup {Nobody}
  /\ initializer \in {"none", "start", "run", "over"}
  /\ handle = Nobody <=> initializer = "none"
  /\ news \in 0..MaxNews
  /\ takers \subseteq SetLabs
  /\ overlapped \subseteq Requests

Init ==
  /\ pc = [r \in Requests |-> "idle"]
  /\ local = [r \in Requests |-> Fresh]
  /\ mutex = Nobody
  /\ watcherCancel = Nobody
  /\ cancelled = {}
  /\ loop = [s \in Sets |-> IF s = Nobody THEN "select" ELSE "none"]
  /\ update = [s \in Sets |-> Fresh]
  /\ status = Fresh
  /\ caller = [c \in Callers |-> "idle"]
  /\ cbMux = Nobody
  /\ kvPairs = {}
  /\ cbStatuses = << >> /\ statusChan = << >>
  /\ handle = Nobody /\ initializer = "none" /\ news = 0 /\ takers = {}
  /\ overlapped = {}

----------------------------------------------------------------------------
\* The initializer, as the watchers see it.

Begin ==
  /\ initializer = "start"
  /\ initializer' = "run"
  /\ cbStatuses' = << >>
  /\ takers' = takers \cup {handle}
  /\ UNCHANGED <<handlerVars, loopVars, status, cbVars, handle, news, statusChan>>

\* sendStatusUpdate; a full channel discards the update.
SendStatusUpdate ==
  /\ initializer = "run"
  /\ news < MaxNews
  /\ news' = news + 1
  /\ statusChan' = IF Len(statusChan) < StatusCap THEN Append(statusChan, handle)
                   ELSE statusChan
  /\ UNCHANGED <<handlerVars, loopVars, status, cbVars, handle, initializer, takers,
                 cbStatuses>>

\* Initialize returns: when it is cancelled, fails or is done.
Return ==
  /\ initializer = "run"
  /\ initializer' = "over"
  /\ UNCHANGED <<handlerVars, loopVars, status, cbVars, handle, news, takers, chanVars>>

\* "Always consume the callbacks to avoid blocking the main loop".  The goroutine
\* ends at some time after its context is cancelled: it is never sure to take.
Take(r) ==
  /\ r \in takers
  /\ cbStatuses # << >>
  /\ cbStatuses' = Tail(cbStatuses)
  /\ UNCHANGED <<handlerVars, loopVars, status, cbVars, initVars, statusChan>>

----------------------------------------------------------------------------
\* /callbacks

\* A box may call any number of times.  ServeHTTP up to its send on the unbuffered
\* channel, with the mutex held.
Callback(c) ==
  /\ caller[c] = "idle"
  /\ cbMux = Nobody
  /\ cbMux' = c
  /\ caller' = [caller EXCEPT ![c] = "send"]
  /\ kvPairs' = kvPairs \cup {c}
  /\ UNCHANGED <<handlerVars, loopVars, status, initVars, chanVars>>

----------------------------------------------------------------------------
\* The status loop of the set s.

LoopGoto(s, label) == loop' = [loop EXCEPT ![s] = label]

\* The select may choose any of its ready cases, also after ctx.Done is ready.
LoopExit(s) ==
  /\ loop[s] = "select"
  /\ s \in cancelled
  /\ LoopGoto(s, "gone")
  /\ UNCHANGED <<handlerVars, cancelled, update, status, cbVars, initVars, chanVars>>

\* A bug to be caught: ServeHTTP returns with the mutex locked.
LoopCallbackLocked(s) ==
  /\ loop[s] = "select"
  /\ \E c \in Callers :
       /\ caller[c] = "send"
       /\ caller' = [caller EXCEPT ![c] = "idle"]
  /\ update' = [update EXCEPT ![s] = kvPairs]
  /\ LoopGoto(s, IF s = Nobody THEN "update" ELSE "check")
  /\ UNCHANGED <<handlerVars, cancelled, status, cbMux, kvPairs, initVars, chanVars>>

\* case c := <-cbStatus, which also lets ServeHTTP return and unlock.
LoopCallback(s) ==
  /\ loop[s] = "select"
  /\ \E c \in Callers :
       /\ caller[c] = "send"
       /\ caller' = [caller EXCEPT ![c] = "idle"]
  /\ cbMux' = Nobody
  /\ update' = [update EXCEPT ![s] = kvPairs]
  /\ LoopGoto(s, IF s = Nobody THEN "update" ELSE "check")
  /\ UNCHANGED <<handlerVars, cancelled, status, kvPairs, initVars, chanVars>>

\* Is the initializer's channel full?
LoopCheck(s) ==
  /\ loop[s] = "check"
  /\ LoopGoto(s, IF Len(cbStatuses) = CbCap THEN "update" ELSE "push")
  /\ UNCHANGED <<handlerVars, cancelled, update, status, cbVars, initVars, chanVars>>

\* cbBroadcast <- c, which blocks if the channel has filled up since.
LoopPush(s) ==
  /\ loop[s] = "push"
  /\ Len(cbStatuses) < CbCap
  /\ cbStatuses' = Append(cbStatuses, update[s])
  /\ LoopGoto(s, "update")
  /\ UNCHANGED <<handlerVars, cancelled, update, status, cbVars, initVars, statusChan>>

\* case i := <-iInfo
LoopInitializer(s) ==
  /\ loop[s] = "select"
  /\ s # Nobody
  /\ statusChan # << >>
  /\ statusChan' = Tail(statusChan)
  /\ update' = [update EXCEPT ![s] = status]
  /\ LoopGoto(s, "update")
  /\ UNCHANGED <<handlerVars, cancelled, status, cbVars, initVars, cbStatuses>>

\* Any other case: the status is read, another part of it is replaced, and all of it
\* is written back.
LoopOther(s) ==
  /\ loop[s] = "select"
  /\ update' = [update EXCEPT ![s] = status]
  /\ LoopGoto(s, "update")
  /\ UNCHANGED <<handlerVars, cancelled, status, cbVars, initVars, chanVars>>

\* UpdateStatus
LoopUpdate(s) ==
  /\ loop[s] = "update"
  /\ status' = update[s]
  /\ update' = [update EXCEPT ![s] = Fresh]
  /\ LoopGoto(s, "select")
  /\ UNCHANGED <<handlerVars, cancelled, cbVars, initVars, chanVars>>

----------------------------------------------------------------------------
\* The handlers.

Goto(r, label) == pc' = [pc EXCEPT ![r] = label]

MayReset == Overlap \/ \A q \in Requests : pc[q] \in {"idle", "done"}

\* /resetwatchers, or /setlab to adopt a lab: no mutex.
Reset(r) ==
  /\ r \notin SetLabs
  /\ pc[r] = "idle"
  /\ MayReset
  /\ Goto(r, "cancel")
  /\ UNCHANGED <<local, mutex, watcherCancel, overlapped, loopVars, status, cbVars,
                 initVars, chanVars>>

\* /setlab cancels the initializer.
SetLab(r) ==
  /\ r \in SetLabs
  /\ pc[r] = "idle"
  /\ MayReset
  /\ mutex = Nobody
  /\ mutex' = r
  /\ Goto(r, "await")
  /\ UNCHANGED <<local, watcherCancel, overlapped, loopVars, status, cbVars, initVars, chanVars>>

\* It waits for it and prepares the lab.
Await(r) ==
  /\ pc[r] = "await"
  /\ handle # Nobody => initializer = "over"
  /\ Goto(r, "cancel")
  /\ UNCHANGED <<local, mutex, watcherCancel, overlapped, loopVars, status, cbVars,
                 initVars, chanVars>>

\* A bug to be caught: the old watchers go on.
CancelForgotten(r) ==
  /\ pc[r] = "cancel"
  /\ Goto(r, "callbacks")
  /\ UNCHANGED <<local, mutex, watcherCancel, overlapped, loopVars, status, cbVars,
                 initVars, chanVars>>

\* watcherCancel()
Cancel(r) ==
  /\ pc[r] = "cancel"
  /\ cancelled' = cancelled \cup {watcherCancel}
  /\ Goto(r, "callbacks")
  /\ UNCHANGED <<local, mutex, watcherCancel, overlapped, loop, update, status, cbVars,
                 initVars, chanVars>>

\* A bug to be caught: Reset does not unlock.
ResetCallbacksLocked(r) ==
  /\ pc[r] = "callbacks"
  /\ cbMux = Nobody
  /\ cbMux' = r
  /\ kvPairs' = {}
  /\ Goto(r, "status")
  /\ UNCHANGED <<local, mutex, watcherCancel, overlapped, loopVars, status, caller,
                 initVars, chanVars>>

\* cbWatcher.Reset()
ResetCallbacks(r) ==
  /\ pc[r] = "callbacks"
  /\ cbMux = Nobody
  /\ kvPairs' = {}
  /\ Goto(r, "status")
  /\ UNCHANGED <<local, mutex, watcherCancel, overlapped, loopVars, status, caller, cbMux,
                 initVars, chanVars>>

\* statusWatcher.ResetStatus(), and loadWatcher.Reset()
ResetStatus(r) ==
  /\ pc[r] = "status"
  /\ status' = Fresh
  /\ Goto(r, "start")
  /\ UNCHANGED <<local, mutex, watcherCancel, overlapped, loopVars, cbVars, initVars, chanVars>>

\* A bug to be caught: the new set does not listen to the callback watcher.
StartWatchersDeaf(r) ==
  /\ pc[r] = "start"
  /\ LoopGoto(r, "gone")
  /\ Goto(r, "assign")
  /\ UNCHANGED <<local, mutex, watcherCancel, overlapped, cancelled, update, status,
                 cbVars, initVars, chanVars>>

\* startWatchers; its goroutines run before it has returned.
StartWatchers(r) ==
  /\ pc[r] = "start"
  /\ LoopGoto(r, "select")
  /\ Goto(r, "assign")
  /\ UNCHANGED <<local, mutex, watcherCancel, overlapped, cancelled, update, status,
                 cbVars, initVars, chanVars>>

Assign(r) ==
  /\ pc[r] = "assign"
  /\ watcherCancel' = r
  /\ overlapped' = IF \E q \in Requests \ {r} : Replacing(q) THEN overlapped \cup {r}
                   ELSE overlapped
  /\ Goto(r, IF r \in SetLabs THEN "read" ELSE "done")
  /\ UNCHANGED <<local, mutex, loopVars, status, cbVars, initVars, chanVars>>

\* "Reset the initialization state and inform clients"
ReadStatus(r) ==
  /\ pc[r] = "read"
  /\ local' = [local EXCEPT ![r] = status]
  /\ Goto(r, "write")
  /\ UNCHANGED <<mutex, watcherCancel, overlapped, loopVars, status, cbVars, initVars, chanVars>>

WriteStatus(r) ==
  /\ pc[r] = "write"
  /\ status' = local[r]
  /\ local' = [local EXCEPT ![r] = Fresh]
  /\ Goto(r, "spawn")
  /\ UNCHANGED <<mutex, watcherCancel, overlapped, loopVars, cbVars, initVars, chanVars>>

\* go initializer.Initialize, unlock
Spawn(r) ==
  /\ pc[r] = "spawn"
  /\ handle' = r
  /\ initializer' = "start"
  /\ news' = 0
  /\ mutex' = Nobody
  /\ Goto(r, "done")
  /\ UNCHANGED <<local, watcherCancel, overlapped, loopVars, status, cbVars, takers, chanVars>>

----------------------------------------------------------------------------
Handler(r) ==
  \/ Await(r) \/ Cancel(r) \/ ResetCallbacks(r) \/ ResetStatus(r) \/ StartWatchers(r)
  \/ Assign(r) \/ ReadStatus(r) \/ WriteStatus(r) \/ Spawn(r)

Loop(s) ==
  \/ LoopExit(s) \/ LoopCallback(s) \/ LoopCheck(s) \/ LoopPush(s)
  \/ LoopInitializer(s) \/ LoopOther(s) \/ LoopUpdate(s)

Initializer == Begin \/ SendStatusUpdate \/ Return

Next ==
  \/ \E r \in Requests : Reset(r) \/ SetLab(r) \/ Handler(r)
  \/ \E s \in Sets : Loop(s)
  \/ \E c \in Callers : Callback(c)
  \/ Initializer
  \/ \E r \in Requests : Take(r)

Spec == Init /\ [][Next]_vars

\* Goroutines are scheduled; a select that is executed again and again does not
\* pass over a callback for ever, for Go chooses among the ready cases at random;
\* and a mutex is not denied for ever to a goroutine that waits for it.
Fairness ==
  /\ \A r \in Requests : SF_vars(Handler(r))
  /\ \A s \in Sets :
       /\ WF_vars(LoopCheck(s) \/ LoopPush(s) \/ LoopUpdate(s))
       /\ SF_vars(LoopCallback(s))

FairSpec == Spec /\ Fairness

----------------------------------------------------------------------------
Listening(s) == loop[s] \notin {"none", "gone"}

\* However resets overlap, for resetWatchers takes no lock: when none of them is replacing
\* the watchers, the set that the next one will cancel runs and is not cancelled, and any
\* other that does so was assigned in the middle of another reset.  There is never no set,
\* and resets one after the other leave none behind.
WatchersCancellable ==
  (\A r \in Requests : ~Replacing(r)) =>
    /\ Listening(watcherCancel) /\ watcherCancel \notin cancelled
    /\ \A s \in Sets :
         Listening(s) /\ s \notin cancelled => s = watcherCancel \/ s \in overlapped

\* A caller holds the callback watcher's mutex and nobody reads its callback.  Either
\* the only reader followed its cancelled context, and the reset that would start the
\* next one waits for the mutex;
Deadlocked(r) ==
  /\ pc[r] = "callbacks"
  /\ \E c \in Callers : cbMux = c
  /\ \A s \in Sets : ~Listening(s)

\* or a reader waits for room in a channel that nobody empties, having found room there
\* before another reader took it.
Stuck ==
  \/ \E r \in Requests : Deadlocked(r)
  \/ /\ \E c \in Callers : cbMux = c
     /\ \E s \in Sets : loop[s] = "push" /\ Len(cbStatuses) = CbCap

\* A reset of the watchers returns, except when it is stuck in those two ways.
ResetReturns ==
  \A r \in Requests : Resetting(r) ~> (~Resetting(r) \/ Stuck)

\* A box that calls /callbacks gets its answer, with the same exceptions, so that
\* boxes do not hang and callbacks behind it do not either.
CallbackAnswered ==
  \A c \in Callers : caller[c] = "send" ~> (caller[c] # "send" \/ Stuck)

=============================================================================
