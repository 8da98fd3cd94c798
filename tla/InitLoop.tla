------------------------------- MODULE InitLoop -------------------------------
(***************************************************************************)
(* From a box that answers on its port to the initializer that counts it:  *)
(* the goroutines of the port watcher, the status loop that forwards its   *)
(* updates, the initializer's port channel, INITLOOP, the goroutine that   *)
(* throws updates away after it, and StartVMsOnHypervisor.                 *)
(*                                                                         *)
(* A run is one call of Initialize and the set of watchers that was        *)
(* started for it; runs follow one another, all of the same scenario, and  *)
(* share the initializer's channel.                                        *)
(***************************************************************************)
EXTENDS Integers, Sequences, FiniteSets

CONSTANTS
  Hyps,     \* hypervisors: endpoints on port 22
  Phys,     \* physical Talos nodes: endpoints on port 50000
  VMs,      \* virtual Talos nodes: endpoints on port 50000
  VMsOf,    \* the virtual machines of each hypervisor, in the order they are started
  WipeRuns, \* the runs that wipe the disks first
  Cap,      \* capacity of the initializer's port channel, 5 in the code
  MaxRuns,  \* bound: runs
  MaxFlaps  \* bound: times that a box or a machine goes down by itself

ASSUME ConstantsAssumption ==
  /\ IsFiniteSet(Hyps) /\ IsFiniteSet(Phys) /\ IsFiniteSet(VMs)
  /\ VMsOf \in [Hyps -> Seq(VMs)]
  /\ WipeRuns \subseteq Nat
  /\ Cap \in Nat \ {0} /\ MaxRuns \in Nat /\ MaxFlaps \in Nat

Boxes     == Hyps \cup Phys
Nodes     == Phys \cup VMs
Endpoints == Boxes \cup VMs
Runs      == 1..MaxRuns

VARIABLES
  run,      \* the current run, 0 before the first
  phase,    \* where Initialize stands
  powered,  \* are the boxes on?
  up,       \* the endpoints that answer
  machines, \* the virtual machines that exist
  flaps,    \* how often something went down by itself
  known,    \* per run: `up` of the prober of each endpoint
  sending,  \* per run: the endpoints whose prober waits to report `up`
  watcher,  \* per run: where PortWatcher.Watch stands,
  seen,     \* and the endpoints that are true in its map
  loop,     \* per run: where the status loop stands,
  held,     \* and the update it holds
  queue,    \* the initializer's port channel
  current,  \* currentStatus: the endpoints that are true in it
  todo,     \* hypervisorEndpointMap and nodeEndpointMap
  counts,   \* InitializedHypervisors and InitializedNodes
  starting, \* per hypervisor: what StartVMsOnHypervisor has yet to start
  starts,   \* per hypervisor: calls of StartVMsOnHypervisor in this run
  discards, \* the runs whose goroutine throws port updates away
  arrived,  \* history: endpoints that answered since the boxes were powered up
  leak,     \* history: an update was on its way when the channel was last drained, or it
            \* was not drained after the wipe
  lost      \* history: an update was dropped, or thrown away by an earlier run

boxVars   == <<powered, up, machines, flaps>>
watchVars == <<known, sending, watcher, seen>>
loopVars  == <<loop, held>>
countVars == <<current, todo, counts>>
startVars == <<starting, starts>>
history   == <<arrived, leak, lost>>
vars == <<run, phase, boxVars, watchVars, loopVars, queue, countVars, startVars,
          discards, history>>

\* A port update: the set of watchers it comes from and the endpoints that are
\* up.  The first one of a set is not a copy but the watcher's own map.
Update == [set : Runs, own : BOOLEAN, ups : SUBSET Endpoints]
Ups(u) == IF u.own THEN seen[u.set] ELSE u.ups
None   == [set |-> 1, own |-> FALSE, ups |-> {}]

TypeOK ==
  /\ run \in 0..MaxRuns
  /\ phase \in {"none", "start", "gen", "wipe", "wiped", "ready", "loop", "done", "over"}
  /\ powered \in BOOLEAN
  /\ up \subseteq Endpoints /\ machines \subseteq VMs
  /\ flaps \in 0..MaxFlaps
  /\ known \in [Runs -> SUBSET Endpoints]
  /\ sending \in [Runs -> SUBSET Endpoints]
  /\ watcher \in [Runs -> {"none", "first", "select", "send", "gone"}]
  /\ seen \in [Runs -> SUBSET Endpoints]
  /\ loop \in [Runs -> {"none", "select", "check", "push", "gone"}]
  /\ held \in [Runs -> Update]
  /\ queue \in Seq(Update) /\ Len(queue) <= Cap
  /\ current \subseteq Endpoints /\ todo \subseteq Endpoints
  /\ counts \in [hyps : Nat, nodes : Nat]
  /\ starting \in [Hyps -> Seq(VMs)]
  /\ starts \in [Hyps -> Nat]
  /\ discards \subseteq Runs
  /\ arrived \subseteq Endpoints
  /\ leak \in BOOLEAN /\ lost \in BOOLEAN

Init ==
  /\ run = 0 /\ phase = "none"
  /\ powered = FALSE /\ up = {} /\ machines = {} /\ flaps = 0
  /\ known = [r \in Runs |-> {}] /\ sending = [r \in Runs |-> {}]
  /\ watcher = [r \in Runs |-> "none"] /\ seen = [r \in Runs |-> {}]
  /\ loop = [r \in Runs |-> "none"] /\ held = [r \in Runs |-> None]
  /\ queue = << >>
  /\ current = {} /\ todo = {} /\ counts = [hyps |-> 0, nodes |-> 0]
  /\ starting = [h \in Hyps |-> << >>] /\ starts = [h \in Hyps |-> 0]
  /\ discards = {}
  /\ arrived = {} /\ leak = FALSE /\ lost = FALSE

----------------------------------------------------------------------------
\* The port watcher of the run r.  A cancelled run is one that has a successor.

Cancelled(r) == r < run

WatcherGoto(r, label) == watcher' = [watcher EXCEPT ![r] = label]
LoopGoto(r, label)    == loop' = [loop EXCEPT ![r] = label]

\* A bug to be caught: a prober takes an endpoint that has been up for up for good.
DialUpOnly(r, e) ==
  /\ r = run
  /\ watcher[r] \in {"select", "send"}
  /\ e \notin sending[r]
  /\ e \in up /\ e \notin known[r]
  /\ known' = [known EXCEPT ![r] = @ \cup {e}]
  /\ sending' = [sending EXCEPT ![r] = @ \cup {e}]
  /\ UNCHANGED <<run, phase, boxVars, watcher, seen, loopVars, queue, countVars,
                 startVars, discards, history>>

\* The goroutine of an endpoint dials it, and has news if the answer is not the
\* one it knew.  (A dial that the reset interrupts counts as made before it.)
Dial(r, e) ==
  /\ r = run
  /\ watcher[r] \in {"select", "send"}
  /\ e \notin sending[r]
  /\ e \in up <=> e \notin known[r]
  /\ known' = [known EXCEPT ![r] = IF e \in up THEN @ \cup {e} ELSE @ \ {e}]
  /\ sending' = [sending EXCEPT ![r] = @ \cup {e}]
  /\ UNCHANGED <<run, phase, boxVars, watcher, seen, loopVars, queue, countVars,
                 startVars, discards, history>>

\* case s := <-w.internalStatusChan, up to the send of a copy of the map
Report(r, e) ==
  /\ watcher[r] = "select"
  /\ e \in sending[r]
  /\ sending' = [sending EXCEPT ![r] = @ \ {e}]
  /\ seen' = [seen EXCEPT ![r] = IF e \in known[r] THEN @ \cup {e} ELSE @ \ {e}]
  /\ WatcherGoto(r, "send")
  /\ UNCHANGED <<run, phase, boxVars, known, loopVars, queue, countVars, startVars,
                 discards, history>>

\* The probers end as well, or wait for ever to report to a watcher that is gone.
WatcherExit(r) ==
  /\ watcher[r] = "select"
  /\ Cancelled(r)
  /\ WatcherGoto(r, "gone")
  /\ known' = [known EXCEPT ![r] = {}]
  /\ sending' = [sending EXCEPT ![r] = {}]
  /\ UNCHANGED <<run, phase, boxVars, seen, loopVars, queue, countVars,
                 startVars, discards, history>>

\* resultChan <- ..., received by the loop's case p := <-portInfo.  The map itself is
\* sent first, and only then are the probers started.
WatcherSend(r) ==
  /\ watcher[r] \in {"first", "send"}
  /\ loop[r] = "select"
  /\ held' = [held EXCEPT ![r] = [set |-> r, own |-> watcher[r] = "first", ups |-> seen[r]]]
  /\ WatcherGoto(r, "select")
  /\ LoopGoto(r, "check")
  /\ UNCHANGED <<run, phase, boxVars, known, sending, seen, queue, countVars, startVars,
                 discards, history>>

----------------------------------------------------------------------------
\* The status loop of the run r.

\* A bug to be caught: the last place in the channel is never used.
LoopCheckOffByOne(r) ==
  /\ loop[r] = "check"
  /\ \/ /\ Len(queue) >= Cap - 1
        /\ LoopGoto(r, "select")
        /\ held' = [held EXCEPT ![r] = None]
        /\ lost' = (lost \/ Len(queue) = Cap)
     \/ /\ Len(queue) < Cap - 1
        /\ LoopGoto(r, "push")
        /\ UNCHANGED <<held, lost>>
  /\ UNCHANGED <<run, phase, boxVars, watchVars, queue, countVars, startVars,
                 discards, arrived, leak>>

\* A bug to be caught: the loop sends without looking for room.
LoopCheckForgotten(r) ==
  /\ loop[r] = "check"
  /\ LoopGoto(r, "push")
  /\ UNCHANGED <<run, phase, boxVars, watchVars, held, queue, countVars, startVars,
                 discards, history>>

\* Is the initializer's channel full?  Then the update is not broadcast.
LoopCheck(r) ==
  /\ loop[r] = "check"
  /\ \/ /\ Len(queue) = Cap
        /\ LoopGoto(r, "select")
        /\ held' = [held EXCEPT ![r] = None]
        /\ lost' = TRUE
     \/ /\ Len(queue) < Cap
        /\ LoopGoto(r, "push")
        /\ UNCHANGED <<held, lost>>
  /\ UNCHANGED <<run, phase, boxVars, watchVars, queue, countVars, startVars,
                 discards, arrived, leak>>

\* A bug to be caught: a queue without bound in the place of the channel.
LoopPushUnbounded(r) ==
  /\ loop[r] = "push"
  /\ queue' = Append(queue, held[r])
  /\ held' = [held EXCEPT ![r] = None]
  /\ LoopGoto(r, "select")
  /\ UNCHANGED <<run, phase, boxVars, watchVars, countVars, startVars, discards,
                 history>>

\* portBroadcast <- p, which blocks if the channel has filled up since.
LoopPush(r) ==
  /\ loop[r] = "push"
  /\ Len(queue) < Cap
  /\ queue' = Append(queue, held[r])
  /\ held' = [held EXCEPT ![r] = None]
  /\ LoopGoto(r, "select")
  /\ UNCHANGED <<run, phase, boxVars, watchVars, countVars, startVars, discards,
                 history>>

\* The select of a cancelled loop may still choose another case that is ready.
LoopExit(r) ==
  /\ loop[r] = "select"
  /\ Cancelled(r)
  /\ LoopGoto(r, "gone")
  /\ UNCHANGED <<run, phase, boxVars, watchVars, held, queue, countVars, startVars,
                 discards, history>>

----------------------------------------------------------------------------
\* Initialize

Forget ==
  /\ current' = {} /\ todo' = {} /\ counts' = [hyps |-> 0, nodes |-> 0]
  /\ starting' = [h \in Hyps |-> << >>] /\ starts' = [h \in Hyps |-> 0]

\* /setlab: the previous Initialize has returned, the boxes are down, the watchers
\* are reset, and Initialize starts.
StartRun ==
  /\ run < MaxRuns
  /\ phase \in {"none", "done", "over"}
  /\ run' = run + 1
  /\ phase' = "start"
  /\ powered' = FALSE /\ up' = {} /\ machines' = {}
  /\ watcher' = [watcher EXCEPT ![run + 1] = "first"]
  /\ loop' = [loop EXCEPT ![run + 1] = "select"]
  /\ Forget
  /\ arrived' = {} /\ leak' = FALSE /\ lost' = FALSE
  /\ UNCHANGED <<flaps, known, sending, seen, held, queue, discards>>

\* Updates out of reach of drainChans: what the watcher of this run has seen up, what
\* an earlier one can still send, and what a loop holds.
OnTheWay(r) ==
  \/ /\ known[r] \cup seen[r] # {}
     /\ \/ r = run
        \/ watcher[r] = "send"
        \/ watcher[r] = "select" /\ sending[r] # {}
  \/ loop[r] \in {"check", "push"} /\ Ups(held[r]) # {}

\* drainChans, and the maps of what is to come up.
Drain ==
  /\ phase = "start"
  /\ queue' = << >>
  /\ todo' = Endpoints
  /\ leak' = \E r \in Runs : OnTheWay(r)
  /\ phase' = "gen"
  /\ powered' = (run \in WipeRuns)
  /\ UNCHANGED <<run, up, machines, flaps, watchVars, loopVars, current, counts, startVars,
                 discards, arrived, lost>>

\* generate.sh has ended.  If by then the disks are wiped already, boxes are neither
\* powered down nor is the channel drained.
Generated ==
  /\ phase = "gen"
  /\ \/ run \in WipeRuns /\ phase' = "wipe" /\ UNCHANGED leak
     \/ run \in WipeRuns /\ phase' = "ready" /\ leak' = TRUE
     \/ run \notin WipeRuns /\ phase' = "ready" /\ UNCHANGED leak
  /\ UNCHANGED <<run, boxVars, watchVars, loopVars, queue, countVars, startVars, discards,
                 arrived, lost>>

\* The disks are wiped: the boxes are powered down again.
WipeDone ==
  /\ phase = "wipe"
  /\ phase' = "wiped"
  /\ powered' = FALSE /\ up' = {}
  /\ UNCHANGED <<run, machines, flaps, watchVars, loopVars, queue, countVars, startVars,
                 discards, history>>

\* A bug to be caught: what the boxes reported during the wipe is kept.
DrainForgotten ==
  /\ phase = "wiped"
  /\ leak' = \E r \in Runs : OnTheWay(r)
  /\ phase' = "ready"
  /\ UNCHANGED <<run, boxVars, watchVars, loopVars, queue, countVars, startVars, discards,
                 arrived, lost>>

\* drainChans once more.
DrainAgain ==
  /\ phase = "wiped"
  /\ queue' = << >>
  /\ leak' = \E r \in Runs : OnTheWay(r)
  /\ phase' = "ready"
  /\ UNCHANGED <<run, boxVars, watchVars, loopVars, countVars, startVars, discards,
                 arrived, lost>>

\* pMan.TurnOn and into INITLOOP.
PowerUp ==
  /\ phase = "ready"
  /\ phase' = "loop"
  /\ powered' = TRUE
  /\ arrived' = {}
  /\ UNCHANGED <<run, up, machines, flaps, watchVars, loopVars, queue, countVars,
                 startVars, discards, leak, lost>>

\* A bug to be caught: an endpoint stays in its map after it has been dealt with.
TakeUpdateKeeping ==
  /\ phase = "loop"
  /\ queue # << >>
  /\ LET ups == Ups(Head(queue))
         new == (ups \ current) \cap todo
     IN /\ current' = ups
        /\ counts' = [hyps  |-> counts.hyps + Cardinality(new \cap Hyps),
                      nodes |-> counts.nodes + Cardinality(new \cap Nodes)]
        /\ starting' = [h \in Hyps |-> IF h \in new THEN VMsOf[h] ELSE starting[h]]
        /\ starts' = [h \in Hyps |-> IF h \in new THEN starts[h] + 1 ELSE starts[h]]
        /\ todo' = IF new = todo THEN {} ELSE todo
        /\ phase' = IF new = todo THEN "done" ELSE "loop"
  /\ queue' = Tail(queue)
  /\ discards' = IF phase' = "done" THEN discards \cup {run} ELSE discards
  /\ UNCHANGED <<run, boxVars, watchVars, loopVars, history>>

\* case s := <-i.portStatuses
TakeUpdate ==
  /\ phase = "loop"
  /\ queue # << >>
  /\ LET ups == Ups(Head(queue))
         new == (ups \ current) \cap todo
     IN /\ current' = ups
        /\ todo' = todo \ new
        /\ counts' = [hyps  |-> counts.hyps + Cardinality(new \cap Hyps),
                      nodes |-> counts.nodes + Cardinality(new \cap Nodes)]
        /\ starting' = [h \in Hyps |-> IF h \in new THEN VMsOf[h] ELSE starting[h]]
        /\ starts' = [h \in Hyps |-> IF h \in new THEN starts[h] + 1 ELSE starts[h]]
  /\ queue' = Tail(queue)
  /\ phase' = IF todo' = {} THEN "done" ELSE "loop"
  /\ discards' = IF todo' = {} THEN discards \cup {run} ELSE discards
  /\ UNCHANGED <<run, boxVars, watchVars, loopVars, history>>

\* Secret generation fails, or the context is cancelled; what StartVMs runs dies
\* with the context, and the local variables with the call.
GiveUp ==
  /\ phase \in {"gen", "loop"}
  /\ phase' = "over"
  /\ Forget
  /\ UNCHANGED <<run, boxVars, watchVars, loopVars, queue, discards, history>>

\* "We're done blocking on port updates - start discarding them".  The select of a
\* cancelled run may still choose an update, also one meant for the next run.
Discard(r) ==
  /\ r \in discards
  /\ queue # << >>
  /\ queue' = Tail(queue)
  /\ lost' = (lost \/ r < run)
  /\ UNCHANGED <<run, phase, boxVars, watchVars, loopVars, countVars, startVars, discards,
                 arrived, leak>>

DiscardExit(r) ==
  /\ r \in discards
  /\ Cancelled(r)
  /\ discards' = discards \ {r}
  /\ UNCHANGED <<run, phase, boxVars, watchVars, loopVars, queue, countVars, startVars,
                 history>>

----------------------------------------------------------------------------
\* StartVMsOnHypervisor: one attempt destroys the machine and creates it anew.
\* It is repeated until its output says that it succeeded.

Attempt(h) ==
  /\ starting[h] # << >>
  /\ h \in up
  /\ machines' = machines \cup {Head(starting[h])}
  /\ up' = up \ {Head(starting[h])}

VMStarted(h) ==
  /\ Attempt(h)
  /\ starting' = [starting EXCEPT ![h] = Tail(@)]
  /\ UNCHANGED <<run, phase, powered, flaps, watchVars, loopVars, queue, countVars, starts,
                 discards, history>>

\* The machine exists but the connection was lost before ssh could say so.
VMRetried(h) ==
  /\ Attempt(h)
  /\ UNCHANGED <<run, phase, powered, flaps, watchVars, loopVars, queue, countVars,
                 startVars, discards, history>>

----------------------------------------------------------------------------
\* The boxes and the machines (external).

\* A box answers some time after it was powered on, a machine after it was
\* created.  Either takes longer than a prober's longest pause (five seconds), so
\* a prober that is not blocked has seen the endpoint down before.
ComesUp(e) ==
  /\ e \notin up
  /\ IF e \in Boxes THEN powered ELSE e \in machines
  /\ e \notin known[run] \/ e \in sending[run]
  /\ up' = up \cup {e}
  /\ arrived' = arrived \cup {e}
  /\ UNCHANGED <<run, phase, powered, machines, flaps, watchVars, loopVars, queue, countVars,
                 startVars, discards, leak, lost>>

Guests(h) == {VMsOf[h][i] : i \in DOMAIN VMsOf[h]}

\* A box or a machine restarts; with a hypervisor its machines are gone.
GoesDown(e) ==
  /\ flaps < MaxFlaps
  /\ e \in up
  /\ flaps' = flaps + 1
  /\ LET gone == IF e \in Hyps THEN Guests(e) ELSE {}
     IN up' = up \ ({e} \cup gone) /\ machines' = machines \ gone
  /\ UNCHANGED <<run, phase, powered, watchVars, loopVars, queue, countVars, startVars,
                 discards, history>>

----------------------------------------------------------------------------
Pipeline(r) ==
  \/ \E e \in Endpoints : Dial(r, e) \/ Report(r, e)
  \/ WatcherSend(r) \/ LoopCheck(r) \/ LoopPush(r)

Initialize == Drain \/ Generated \/ WipeDone \/ DrainAgain \/ PowerUp \/ TakeUpdate \/ GiveUp

Next ==
  \/ \E r \in Runs :
       Pipeline(r) \/ WatcherExit(r) \/ LoopExit(r) \/ Discard(r) \/ DiscardExit(r)
  \/ StartRun \/ Initialize
  \/ \E h \in Hyps : VMStarted(h) \/ VMRetried(h)
  \/ \E e \in Endpoints : ComesUp(e) \/ GoesDown(e)

Spec == Init /\ [][Next]_vars

\* The probers, the watcher, the loop and INITLOOP are scheduled; an attempt to
\* start a machine does not fail for ever; what is powered or created comes up.
\* Nothing is assumed of wipes, of the generation of secrets or of failures.
Fairness ==
  /\ \A r \in Runs :
       /\ \A e \in Endpoints : WF_vars(Dial(r, e)) /\ SF_vars(Report(r, e))
       /\ WF_vars(WatcherSend(r)) /\ WF_vars(LoopCheck(r)) /\ WF_vars(LoopPush(r))
  /\ WF_vars(TakeUpdate)
  /\ \A h \in Hyps : WF_vars(VMStarted(h))
  /\ \A e \in Endpoints : WF_vars(ComesUp(e))

FairSpec == Spec /\ Fairness

----------------------------------------------------------------------------
\* An update is in the hands of a prober, the watcher or the loop, or in the
\* channel, and will show e up when INITLOOP gets it.
Announced(e) ==
  \/ e \in sending[run]
  \/ watcher[run] \in {"first", "send"}
  \/ loop[run] \in {"check", "push"} /\ e \in Ups(held[run])
  \/ \E i \in DOMAIN queue : e \in Ups(queue[i])

\* What is up, known to be up by its prober and still waited for by INITLOOP is on its
\* way to INITLOOP, unless an update was dropped because the channel was full, or
\* taken by the goroutine of an earlier run.
NoSilentLoss ==
  phase = "loop" /\ ~lost =>
    \A e \in todo \cap up : e \in known[run] => Announced(e)

\* INITLOOP counts an endpoint, and starts the machines of a hypervisor, only if the
\* endpoint has answered since the boxes were powered up; provided that no older
\* update was under way, out of reach of drainChans, when the channel was drained, and
\* that the wipe did not end before generate.sh did.
CountedHaveArrived ==
  phase \in {"loop", "done"} /\ ~leak => Endpoints \ todo \subseteq arrived

\* However often endpoints go up and down and updates repeat, each is counted once
\* and the machines of each hypervisor are started once: a second start would
\* destroy the machines of the first.
CountedOnce ==
  phase \in {"loop", "done"} =>
    /\ counts.hyps = Cardinality(Hyps \ todo)
    /\ counts.nodes = Cardinality(Nodes \ todo)
    /\ \A h \in Hyps : starts[h] = IF h \in todo THEN 0 ELSE 1

Pushing == {r \in Runs : loop[r] = "push"}

\* The check for room and the send are not atomic, yet every update that was
\* checked fits, but for one per set of watchers that came before: with a single
\* set the loop never blocks on the initializer, which itself waits for callbacks
\* that come through the same loop.
PushesFit == run > 0 => Len(queue) + Cardinality(Pushing) <= Cap + run - 1

\* Machines that INITLOOP waits for died with their hypervisor after they had been
\* started; nobody starts them again.
MachinesGone ==
  \E h \in Hyps : h \notin todo /\ starting[h] = << >> /\ (Guests(h) \cap todo) \ machines # {}

\* INITLOOP ends if boxes come up, except if an update was lost or machines are gone
\* for good: it has no other way to learn of an endpoint.
LoopEnds == (phase = "loop") ~> (phase # "loop" \/ lost \/ MachinesGone)

=============================================================================
