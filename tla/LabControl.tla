----------------------------- MODULE LabControl -----------------------------
(***************************************************************************)
(* The part of labwatch that replaces one lab by another: the /setlab      *)
(* handler of labwatch.go, the TalosInitializer.Initialize goroutine it    *)
(* starts, the callback goroutine Initialize starts in turn, the netboot   *)
(* link of lablinkmanager and the cached relay status of powerman.         *)
(*                                                                         *)
(* Every HTTP request of the run is an element of Requests and starts at   *)
(* most one initializer, so the request also names that initializer, its   *)
(* context and its done channel.  The boxes, their disks and the time at   *)
(* which they netboot are the environment.                                 *)
(***************************************************************************)
EXTENDS Integers, Sequences

CONSTANTS
  Requests,       \* the /setlab requests of the run
  Labs,           \* the scenarios a request may ask for
  WipeBoxes,      \* for each lab the boxes that are its physical Talos nodes
  NumPorts,       \* number of relays; powerman's ALL_PORTS in order
  CbCap,          \* capacity of the initializer's callback channel
  SerialErrors,   \* may a write to the relay board fail?
  FileErrors,     \* may a write to the file system fail?
  ManualPower,    \* do operators use /power?
  Nobody, NoLab,
  DiskWipe,       \* the netboot folder of the disk-wipe image
  Off, Wiped      \* a box without power; one that has finished the wipe image

ASSUME ConstantsAssumption ==
  /\ NumPorts \in Nat \ {0}
  /\ WipeBoxes \in [Labs -> SUBSET (1..NumPorts)]
  /\ CbCap \in Nat \ {0}
  /\ SerialErrors \in BOOLEAN /\ FileErrors \in BOOLEAN /\ ManualPower \in BOOLEAN
  /\ Nobody \notin Requests
  /\ {NoLab, DiskWipe, Off, Wiped} \cap Labs = {}
  /\ DiskWipe \notin {NoLab, Off, Wiped} /\ Off # Wiped

Boxes  == 1..NumPorts
Images == Labs \cup {DiskWipe}

\* The labs with bare-metal Talos nodes; they are also the ones whose names
\* contain "hybrid" or "physical", which is how lastlab is read back.
PhysicalLabs == {l \in Labs : WipeBoxes[l] # {}}

VARIABLES
  pc,         \* where the handler of each request stands
  lab,        \* the handler's own variable lab
  activeLab,  \* the process-wide activeLab
  mutex,      \* initializerMutex: its holder or Nobody
  handle,     \* whose context initializerCancel/initializerDone refer to
  cancelled,  \* requests whose initializer context is cancelled
  phase,      \* where the initializer of each request stands
  linkOf,     \* the lab its LinkManager was built with
  needWipe,   \* its needDiskWipe
  wipeDone,   \* its diskWipeDone, shared with its callback goroutine
  cb,         \* its callback goroutine
  podWatch,   \* its watchPods goroutine
  podsReady,  \* NumPods = 0 or NumPods = InitializedPods
  link,       \* what the netboot link points at
  lastLab,    \* contents of the lastlab file
  relay,      \* the relays that are on
  seen,       \* the relays powerman's cached status shows on
  booted,     \* the image each box runs
  dirty,      \* boxes whose disk holds a Talos installation
  wipes,      \* boxes with a "wipe" key in the callback watcher's map
  cbChan      \* the initializer's callback channel: snapshots of wipes

reqVars  == <<pc, lab, activeLab, mutex, handle>>
initVars == <<cancelled, phase, linkOf, needWipe, wipeDone, podWatch, podsReady>>
hwVars   == <<relay, seen, booted, dirty>>
cbVars   == <<cb, wipes, cbChan>>
vars     == <<reqVars, initVars, hwVars, cbVars, link, lastLab>>

PCs == {"idle", "adopt", "lock", "await", "link", "poweroff", "waitoff",
        "network", "reset", "spawn", "done"}
Phases == {"none", "start", "wipelink", "wipepower", "secret", "diskwipe",
           "wipeoff", "lastlab", "powerup", "boot", "bootstrap", "etcdwait", "finalize",
           "pods", "returned", "closed"}

\* The initializer goroutine of r exists and has not closed its done channel.
Active(r) == phase[r] \notin {"none", "closed"}

\* The handler of r has got past "Bail on it" and has not started its own
\* initializer yet.
Handover(r) == pc[r] \in {"link", "poweroff", "waitoff", "network", "reset", "spawn"}

InCritical(r) == pc[r] = "await" \/ Handover(r)

TypeOK ==
  /\ pc \in [Requests -> PCs]
  /\ lab \in [Requests -> Labs \cup {NoLab}]
  /\ activeLab \in Labs \cup {NoLab}
  /\ mutex \in Requests \cup {Nobody}
  /\ handle \in Requests \cup {Nobody}
  /\ cancelled \subseteq Requests
  /\ phase \in [Requests -> Phases]
  /\ linkOf \in [Requests -> Labs \cup {NoLab}]
  /\ needWipe \in [Requests -> BOOLEAN]
  /\ wipeDone \in [Requests -> BOOLEAN]
  /\ cb \in [Requests -> {"none", "run", "enable", "gone"}]
  /\ podWatch \in [Requests -> {"none", "run", "gone"}]
  /\ podsReady \in [Requests -> BOOLEAN]
  /\ link \in Images \cup {NoLab}
  /\ lastLab \in Labs \cup {NoLab}
  /\ relay \subseteq Boxes
  /\ seen \subseteq Boxes
  /\ booted \in [Boxes -> Images \cup {Off, Wiped}]
  /\ dirty \subseteq Boxes
  /\ wipes \subseteq Boxes
  /\ cbChan \in Seq(SUBSET Boxes)

Init ==
  /\ pc = [r \in Requests |-> "idle"]
  /\ lab = [r \in Requests |-> NoLab]
  /\ activeLab = NoLab
  /\ mutex = Nobody
  /\ handle = Nobody
  /\ cancelled = {}
  /\ phase = [r \in Requests |-> "none"]
  /\ linkOf = [r \in Requests |-> NoLab]
  /\ needWipe = [r \in Requests |-> FALSE]
  /\ wipeDone = [r \in Requests |-> FALSE]
  /\ cb = [r \in Requests |-> "none"]
  /\ podWatch = [r \in Requests |-> "none"]
  /\ podsReady = [r \in Requests |-> TRUE]
  /\ lastLab \in Labs \cup {NoLab}
  /\ link = lastLab
  /\ relay = {}
  /\ seen = {}
  /\ booted = [b \in Boxes |-> Off]
  /\ dirty = IF lastLab = NoLab THEN {} ELSE WipeBoxes[lastLab]
  /\ wipes = {}
  /\ cbChan = << >>

----------------------------------------------------------------------------
\* The relay board and powerman's cached view of it.

\* TurnOff(PALL): ports the cache shows off are skipped; a failed write
\* leaves the ports after it as they were.
TurnOffOutcomes ==
  {relay \ (seen \cap 1..k) : k \in IF SerialErrors THEN 0..NumPorts ELSE {NumPorts}}

\* A bug to be caught: the range over the ports runs one too far.
TurnOnReachPastEnd == {k \in 0..(NumPorts + 1) : (1..k) \cap seen = {}}

\* TurnOn(PALL) returns at the first port the cache shows on, and at a
\* failed write.
TurnOnReach == {k \in 0..NumPorts : (1..k) \cap seen = {}}
TurnOnOutcomes ==
  {relay \cup 1..k : k \in IF SerialErrors THEN TurnOnReach
                           ELSE {k \in TurnOnReach : \A j \in TurnOnReach : j <= k}}

SwitchRelays(outcomes) ==
  /\ relay' \in outcomes
  /\ booted' = [b \in Boxes |-> IF b \in relay' THEN booted[b] ELSE Off]
  /\ UNCHANGED <<seen, dirty>>

PortIsOff == seen = {}

\* /power: an operator turns all ports or one port on or off, whatever labwatch
\* is doing; a restart is such a turning off and, later, on.
PowerRequest ==
  /\ ManualPower
  /\ \/ SwitchRelays(TurnOffOutcomes)
     \/ SwitchRelays(TurnOnOutcomes)
     \/ \E p \in seen : SwitchRelays({relay \ {p}})
     \/ \E p \in Boxes \ seen : SwitchRelays({relay \cup {p}})
  /\ UNCHANGED <<reqVars, initVars, cbVars, link, lastLab>>

\* updateStatus: the once-a-second poll of the board.
Poll ==
  /\ seen # relay
  /\ seen' = relay
  /\ UNCHANGED <<reqVars, initVars, cbVars, link, lastLab, relay, booted, dirty>>

\* internalSet removes the link and creates it again; callers ignore a
\* failure of either half.
SetLink(target) ==
  link' \in {target} \cup (IF FileErrors THEN {link, NoLab} ELSE {})

----------------------------------------------------------------------------
\* The boxes (environment).

\* A powered box netboots whatever the link points at when it gets to it: not
\* before a poll has shown it on, for the board is polled every second and
\* firmware takes longer than that.
\* A hypervisor wipes its own disk as it boots, a physical node installs
\* Talos on it.
BoxBoots(b) ==
  /\ b \in relay \cap seen
  /\ booted[b] = Off
  /\ link # NoLab
  /\ booted' = [booted EXCEPT ![b] = link]
  /\ dirty' = IF link = DiskWipe THEN dirty
              ELSE (dirty \ {b}) \cup (WipeBoxes[link] \cap {b})
  /\ UNCHANGED <<reqVars, initVars, cbVars, link, lastLab, relay, seen>>

\* A box that runs the wipe image has finished and calls /callbacks.  The
\* status loop forwards the map unless the initializer's channel is full.
WipeCallback(b) ==
  /\ booted[b] = DiskWipe
  /\ booted' = [booted EXCEPT ![b] = Wiped]
  /\ wipes' = wipes \cup {b}
  /\ cbChan' = IF Len(cbChan) = CbCap THEN cbChan ELSE Append(cbChan, wipes')
  /\ dirty' = dirty \ {b}
  /\ UNCHANGED <<reqVars, initVars, cb, link, lastLab, relay, seen>>

----------------------------------------------------------------------------
\* The /setlab handler.

Goto(r, label) == pc' = [pc EXCEPT ![r] = label]

\* Everything up to and including the assignment of activeLab.
Accept(r, l, adopt) ==
  /\ pc[r] = "idle"
  /\ lab' = [lab EXCEPT ![r] = IF adopt THEN lastLab ELSE l]
  /\ IF adopt /\ lastLab = NoLab
     THEN Goto(r, "done") /\ UNCHANGED activeLab
     ELSE /\ activeLab' = lab'[r]
          /\ Goto(r, IF adopt THEN "adopt" ELSE "lock")
  /\ UNCHANGED <<mutex, handle, initVars, hwVars, cbVars, link, lastLab>>

\* resetWatchers, as far as the initializer can see it: cbWatcher.Reset.
ResetWatchers == wipes' = {} /\ UNCHANGED <<cb, cbChan>>

Adopt(r) ==
  /\ pc[r] = "adopt"
  /\ ResetWatchers
  /\ Goto(r, "done")
  /\ UNCHANGED <<lab, activeLab, mutex, handle, initVars, hwVars, link, lastLab>>

\* /resetwatchers
ResetRequest ==
  /\ wipes # {}
  /\ ResetWatchers
  /\ UNCHANGED <<reqVars, initVars, hwVars, link, lastLab>>

\* A bug to be caught: no initializerMutex.
LockWithoutMutex(r) ==
  /\ pc[r] = "lock"
  /\ mutex' = r
  /\ cancelled' = cancelled \cup ({handle} \ {Nobody})
  /\ Goto(r, IF handle = Nobody THEN "link" ELSE "await")
  /\ UNCHANGED <<lab, activeLab, handle, phase, linkOf, needWipe, wipeDone,
                 podWatch, podsReady, hwVars, cbVars, link, lastLab>>

\* "Already running a lab? Bail on it"
Lock(r) ==
  /\ pc[r] = "lock"
  /\ mutex = Nobody
  /\ mutex' = r
  /\ cancelled' = cancelled \cup ({handle} \ {Nobody})
  /\ Goto(r, IF handle = Nobody THEN "link" ELSE "await")
  /\ UNCHANGED <<lab, activeLab, handle, phase, linkOf, needWipe, wipeDone,
                 podWatch, podsReady, hwVars, cbVars, link, lastLab>>

\* A bug to be caught: the previous initializer is cancelled, not waited for.
AwaitNothing(r) ==
  /\ pc[r] = "await"
  /\ Goto(r, "link")
  /\ UNCHANGED <<lab, activeLab, mutex, handle, initVars, hwVars, cbVars, link, lastLab>>

\* <-initializerDone
Await(r) ==
  /\ pc[r] = "await"
  /\ phase[handle] = "closed"
  /\ Goto(r, "link")
  /\ UNCHANGED <<lab, activeLab, mutex, handle, initVars, hwVars, cbVars, link, lastLab>>

\* A bug to be caught: the link manager is built, EnableLab is not called.
EnableLabForgotten(r) ==
  /\ pc[r] = "link"
  /\ linkOf' = [linkOf EXCEPT ![r] = activeLab]
  /\ Goto(r, "poweroff")
  /\ UNCHANGED <<lab, activeLab, mutex, handle, cancelled, phase, needWipe,
                 wipeDone, podWatch, podsReady, hwVars, cbVars, link, lastLab>>

\* The link manager is built from the shared activeLab, not from lab.
EnableLab(r) ==
  /\ pc[r] = "link"
  /\ linkOf' = [linkOf EXCEPT ![r] = activeLab]
  /\ SetLink(activeLab)
  /\ Goto(r, "poweroff")
  /\ UNCHANGED <<lab, activeLab, mutex, handle, cancelled, phase, needWipe,
                 wipeDone, podWatch, podsReady, hwVars, cbVars, lastLab>>

EnsureDown(r) ==
  /\ pc[r] = "poweroff"
  /\ SwitchRelays(TurnOffOutcomes)
  /\ Goto(r, "waitoff")
  /\ UNCHANGED <<lab, activeLab, mutex, handle, initVars, cbVars, link, lastLab>>

WaitOff(r) ==
  /\ pc[r] = "waitoff"
  /\ PortIsOff
  /\ Goto(r, "network")
  /\ UNCHANGED <<lab, activeLab, mutex, handle, initVars, hwVars, cbVars, link, lastLab>>

\* The switch ports of the nodes are turned on and waited for; the switch
\* itself is not part of this module.
NetworkUp(r) ==
  /\ pc[r] = "network"
  /\ Goto(r, "reset")
  /\ UNCHANGED <<lab, activeLab, mutex, handle, initVars, hwVars, cbVars, link, lastLab>>

\* A bug to be caught: the callbacks of the previous lab are kept.
ResetForgotten(r) ==
  /\ pc[r] = "reset"
  /\ Goto(r, "spawn")
  /\ UNCHANGED <<lab, activeLab, mutex, handle, initVars, hwVars, cbVars, link, lastLab>>

Reset(r) ==
  /\ pc[r] = "reset"
  /\ ResetWatchers
  /\ Goto(r, "spawn")
  /\ UNCHANGED <<lab, activeLab, mutex, handle, initVars, hwVars, link, lastLab>>

\* New context and done channel, go Initialize, unlock.
Spawn(r) ==
  /\ pc[r] = "spawn"
  /\ handle' = r
  /\ phase' = [phase EXCEPT ![r] = "start"]
  /\ mutex' = Nobody
  /\ Goto(r, "done")
  /\ UNCHANGED <<lab, activeLab, cancelled, linkOf, needWipe, wipeDone, podWatch,
                 podsReady, hwVars, cbVars, link, lastLab>>

----------------------------------------------------------------------------
\* TalosInitializer.Initialize, run by the goroutine of request r.

Step(r, from, to) == phase[r] = from /\ phase' = [phase EXCEPT ![r] = to]

\* Read lastlab, drain the channels, start the callback goroutine.
Begin(r) ==
  LET need == lab[r] \in PhysicalLabs /\ lastLab \in PhysicalLabs IN
  /\ Step(r, "start", IF need THEN "wipelink" ELSE "secret")
  /\ needWipe' = [needWipe EXCEPT ![r] = need]
  /\ cbChan' = << >>
  /\ cb' = [cb EXCEPT ![r] = "run"]
  /\ UNCHANGED <<reqVars, cancelled, linkOf, wipeDone, podWatch, podsReady,
                 hwVars, wipes, link, lastLab>>

EnableDiskWipe(r) ==
  /\ Step(r, "wipelink", "wipepower")
  /\ SetLink(DiskWipe)
  /\ UNCHANGED <<reqVars, cancelled, linkOf, needWipe, wipeDone, podWatch, podsReady,
                 hwVars, cbVars, lastLab>>

WipePowerOn(r) ==
  /\ Step(r, "wipepower", "secret")
  /\ SwitchRelays(TurnOnOutcomes)
  /\ UNCHANGED <<reqVars, cancelled, linkOf, needWipe, wipeDone, podWatch, podsReady,
                 cbVars, link, lastLab>>

\* generate.sh runs under the context: it fails by itself or when killed, and
\* cannot succeed once the context is cancelled.
SecretGen(r) ==
  /\ \/ Step(r, "secret", "returned")
     \/ /\ r \notin cancelled
        /\ Step(r, "secret", IF needWipe[r] /\ ~wipeDone[r] THEN "diskwipe" ELSE "lastlab")
  /\ UNCHANGED <<reqVars, cancelled, linkOf, needWipe, wipeDone, podWatch, podsReady,
                 hwVars, cbVars, link, lastLab>>

\* for !diskWipeDone does not look at the context.
DiskWiped(r) ==
  /\ wipeDone[r]
  /\ Step(r, "diskwipe", "wipeoff")
  /\ SwitchRelays(TurnOffOutcomes)
  /\ UNCHANGED <<reqVars, cancelled, linkOf, needWipe, wipeDone, podWatch, podsReady,
                 cbVars, link, lastLab>>

WipedAndOff(r) ==
  /\ PortIsOff
  /\ Step(r, "wipeoff", "lastlab")
  /\ cbChan' = << >>
  /\ UNCHANGED <<reqVars, cancelled, linkOf, needWipe, wipeDone, podWatch, podsReady,
                 hwVars, cb, wipes, link, lastLab>>

\* A failed write, which may leave the file empty, is only logged.
WriteLastLab(r) ==
  /\ Step(r, "lastlab", "powerup")
  /\ lastLab' \in {lab[r]} \cup (IF FileErrors THEN {lastLab, NoLab} ELSE {})
  /\ UNCHANGED <<reqVars, cancelled, linkOf, needWipe, wipeDone, podWatch, podsReady,
                 hwVars, cbVars, link>>

PowerUp(r) ==
  /\ Step(r, "powerup", "boot")
  /\ SwitchRelays(TurnOnOutcomes)
  /\ UNCHANGED <<reqVars, cancelled, linkOf, needWipe, wipeDone, podWatch, podsReady,
                 cbVars, link, lastLab>>

\* INITLOOP ends when every endpoint has come up, which is up to the boxes,
Booted(r) ==
  /\ Step(r, "boot", "bootstrap")
  /\ UNCHANGED <<reqVars, cancelled, linkOf, needWipe, wipeDone, podWatch, podsReady,
                 hwVars, cbVars, link, lastLab>>

\* A bug to be caught: INITLOOP does not watch the context.
BootIgnoresContext(r) ==
  /\ r \notin Requests
  /\ Step(r, "boot", "returned")
  /\ UNCHANGED <<reqVars, cancelled, linkOf, needWipe, wipeDone, podWatch, podsReady,
                 hwVars, cbVars, link, lastLab>>

\* or when the context is done.
BootCancelled(r) ==
  /\ r \in cancelled
  /\ Step(r, "boot", "returned")
  /\ UNCHANGED <<reqVars, cancelled, linkOf, needWipe, wipeDone, podWatch, podsReady,
                 hwVars, cbVars, link, lastLab>>

\* BootstrapEtcd: "talosctl bootstrap" under the context,
Bootstrap(r) ==
  /\ \/ Step(r, "bootstrap", "returned")
     \/ r \notin cancelled /\ Step(r, "bootstrap", "etcdwait")
  /\ UNCHANGED <<reqVars, cancelled, linkOf, needWipe, wipeDone, podWatch, podsReady,
                 hwVars, cbVars, link, lastLab>>

\* then a wait for the ports of the control plane, which a done context ends
\* without an error, and a fetch of the kubeconfig, which may fail.  watchPods
\* runs from here on; without a client it returns at once.
EtcdWait(r) ==
  /\ \/ Step(r, "etcdwait", "returned") /\ UNCHANGED podWatch
     \/ /\ Step(r, "etcdwait", "finalize")
        /\ \E w \in {"run", "gone"} : podWatch' = [podWatch EXCEPT ![r] = w]
  /\ UNCHANGED <<reqVars, cancelled, linkOf, needWipe, wipeDone, podsReady,
                 hwVars, cbVars, link, lastLab>>

FinalizeInstall(r) ==
  /\ \/ Step(r, "finalize", "returned") /\ podWatch' = [podWatch EXCEPT ![r] = "gone"]
     \/ /\ r \notin cancelled
        /\ Step(r, "finalize", "pods")
        /\ UNCHANGED podWatch
  /\ UNCHANGED <<reqVars, cancelled, linkOf, needWipe, wipeDone, podsReady,
                 hwVars, cbVars, link, lastLab>>

\* The pod loop does not look at the context either.
PodsStarted(r) ==
  /\ podsReady[r]
  /\ Step(r, "pods", "returned")
  /\ podWatch' = [podWatch EXCEPT ![r] = "gone"]
  /\ UNCHANGED <<reqVars, cancelled, linkOf, needWipe, wipeDone, podsReady,
                 hwVars, cbVars, link, lastLab>>

\* close(initializerDone)
CloseDone(r) ==
  /\ Step(r, "returned", "closed")
  /\ UNCHANGED <<reqVars, cancelled, linkOf, needWipe, wipeDone, podWatch, podsReady,
                 hwVars, cbVars, link, lastLab>>

\* watchPods: a list result is stored whether or not the context is done by now.
PodsListed(r) ==
  /\ podWatch[r] = "run"
  /\ podsReady' = [podsReady EXCEPT ![r] = ~podsReady[r]]
  /\ UNCHANGED <<reqVars, cancelled, phase, linkOf, needWipe, wipeDone, podWatch,
                 hwVars, cbVars, link, lastLab>>

PodWatchExit(r) ==
  /\ podWatch[r] = "run"
  /\ r \in cancelled
  /\ podWatch' = [podWatch EXCEPT ![r] = "gone"]
  /\ UNCHANGED <<reqVars, cancelled, phase, linkOf, needWipe, wipeDone, podsReady,
                 hwVars, cbVars, link, lastLab>>

----------------------------------------------------------------------------
\* The callback goroutine of the initializer of r.  It outlives Initialize and
\* ends when the context is cancelled.

CallbackExit(r) ==
  /\ cb[r] = "run"
  /\ r \in cancelled
  /\ cb' = [cb EXCEPT ![r] = "gone"]
  /\ UNCHANGED <<reqVars, initVars, hwVars, wipes, cbChan, link, lastLab>>

AllWiped(r, snapshot) == WipeBoxes[lab[r]] \subseteq snapshot

CallbackTake(r) ==
  /\ cb[r] = "run"
  /\ cbChan # << >>
  /\ cbChan' = Tail(cbChan)
  /\ IF needWipe[r] /\ ~wipeDone[r] /\ AllWiped(r, Head(cbChan))
     THEN /\ wipeDone' = [wipeDone EXCEPT ![r] = TRUE]
          /\ cb' = [cb EXCEPT ![r] = "enable"]
     ELSE UNCHANGED <<wipeDone, cb>>
  /\ UNCHANGED <<reqVars, cancelled, phase, linkOf, needWipe, podWatch, podsReady,
                 hwVars, wipes, link, lastLab>>

\* diskWipeDone is already visible when the link is switched back.
CallbackEnable(r) ==
  /\ cb[r] = "enable"
  /\ SetLink(linkOf[r])
  /\ cb' = [cb EXCEPT ![r] = "run"]
  /\ UNCHANGED <<reqVars, initVars, hwVars, wipes, cbChan, lastLab>>

----------------------------------------------------------------------------
Handler(r) ==
  \/ Adopt(r) \/ Lock(r) \/ Await(r) \/ EnableLab(r) \/ EnsureDown(r)
  \/ WaitOff(r) \/ NetworkUp(r) \/ Reset(r) \/ Spawn(r)

Initialize(r) ==
  \/ Begin(r) \/ EnableDiskWipe(r) \/ WipePowerOn(r) \/ SecretGen(r)
  \/ DiskWiped(r) \/ WipedAndOff(r) \/ WriteLastLab(r) \/ PowerUp(r)
  \/ Booted(r) \/ BootCancelled(r) \/ Bootstrap(r) \/ EtcdWait(r)
  \/ FinalizeInstall(r) \/ PodsStarted(r)
  \/ CloseDone(r)

Callbacks(r) == CallbackExit(r) \/ CallbackTake(r) \/ CallbackEnable(r)

Next ==
  \/ \E r \in Requests, l \in Labs, adopt \in BOOLEAN : Accept(r, l, adopt)
  \/ \E r \in Requests : Handler(r)
  \/ \E r \in Requests : Initialize(r)
  \/ \E r \in Requests : Callbacks(r)
  \/ \E r \in Requests : PodsListed(r) \/ PodWatchExit(r)
  \/ \E b \in Boxes : BoxBoots(b) \/ WipeCallback(b)
  \/ ResetRequest
  \/ PowerRequest
  \/ Poll

Spec == Init /\ [][Next]_vars

\* Commands started with exec.CommandContext are killed once the context is
\* cancelled; before that they end when they like.
Killed(r) ==
  /\ r \in cancelled
  /\ SecretGen(r) \/ Bootstrap(r) \/ EtcdWait(r) \/ FinalizeInstall(r)

Running(r) ==
  \/ Begin(r) \/ EnableDiskWipe(r) \/ WipePowerOn(r) \/ DiskWiped(r)
  \/ WipedAndOff(r) \/ WriteLastLab(r) \/ PowerUp(r) \/ BootCancelled(r)
  \/ PodsStarted(r) \/ CloseDone(r)

\* Goroutines are scheduled and the board is polled.  Nothing is assumed of the
\* clients, the boxes, the pods or a running command.
Fairness ==
  /\ \A r \in Requests :
       /\ WF_vars(Handler(r))
       /\ WF_vars(Running(r))
       /\ WF_vars(Killed(r))
       /\ WF_vars(CallbackExit(r)) /\ WF_vars(CallbackEnable(r))
       /\ WF_vars(PodWatchExit(r))
  /\ WF_vars(Poll)

FairSpec == Spec /\ Fairness

----------------------------------------------------------------------------
\* Safety.

\* The handler waits for initializerDone under initializerMutex, so two
\* initializers never run at once, and none runs from the moment a handler
\* has got past "Bail on it" until it starts its own.
OneInitializer ==
  /\ \A q, r \in Requests : Active(q) /\ Active(r) => q = r
  /\ \A q, r \in Requests : Handover(r) => ~Active(q)

\* Nothing switches a relay on while a handler holds the lab between powering
\* it down and starting the new initializer; whatever does switch one on is the
\* initializer the handles refer to, so that the next /setlab can stop it.  (An
\* operator can, with /power.)
PowerOnOnlyByOwner ==
  [][ ~(relay' \subseteq relay) =>
        /\ handle \in Requests /\ Active(handle)
        /\ \A r \in Requests : ~Handover(r) ]_vars

\* The netboot link points at the disk-wipe image only while the initializer
\* the handles refer to still owes the switch back (EnableLab in its callback
\* goroutine): no earlier initializer leaves boxes wiping for a later one.
WipeLinkOwned ==
  link = DiskWipe =>
    /\ handle \in Requests
    /\ needWipe[handle]
    /\ wipeDone[handle] => cb[handle] = "enable"

\* When an initializer that found an earlier bare-metal lab in lastlab goes on to
\* power its own lab up, the disks of all its bare-metal nodes have been wiped:
\* no stale callback of an earlier wipe was taken for a new one.
WipedBeforePowerUp ==
  \A r \in Requests :
    needWipe[r] /\ phase[r] \in {"lastlab", "powerup"} =>
      dirty \cap WipeBoxes[lab[r]] = {}

----------------------------------------------------------------------------
\* The abstract promise: one owner at a time powers the lab.

Owner == IF handle \in Requests /\ Active(handle) THEN handle ELSE Nobody

Abstract == INSTANCE LabOwner WITH
  owner <- Owner,
  served <- {r \in Requests : phase[r] # "none"},
  power <- relay

\* setlab, with its mutex, its cancel function and its done channel, implements
\* exclusive, one-shot ownership of the lab and of the right to power it on.
ImplementsLabOwner == Abstract!Spec

----------------------------------------------------------------------------
\* Liveness.

\* The three ways in which a handler or an initializer waits for something that can no
\* longer happen.  Initialize is in the loop for the disk wipe, or in the loop for the
\* pods, after the goroutine that would end it has followed the cancelled context;
WipeCut(r) == r \in cancelled /\ phase[r] = "diskwipe" /\ cb[r] = "gone" /\ ~wipeDone[r]
PodsCut(r) == r \in cancelled /\ phase[r] = "pods" /\ podWatch[r] = "gone" /\ ~podsReady[r]
\* or one of them waits for "all off" after a relay has missed its only off command.
OffMissed(r) == (pc[r] = "waitoff" \/ phase[r] = "wipeoff") /\ relay # {} /\ seen # {}

Wedged == \E r \in Requests : WipeCut(r) \/ PodsCut(r) \/ OffMissed(r)

\* Whoever takes initializerMutex gives it back, except in those three cases:
\* every other wait of the handler and of the initializer it waits for ends when
\* the context is cancelled, whatever operators do with the relays meanwhile.
\* (resetWatchers is one step of this module: that it returns is assumed.)
SetLabCompletes ==
  \A r \in Requests : mutex = r ~> (mutex # r \/ Wedged)

\* lastlab is kept "so we can know if the disks potentially need to be wiped":
\* the bare-metal nodes of a lab that is powered up without a wipe are clean.
NoWipeMeansClean ==
  \A r \in Requests :
    phase[r] = "powerup" /\ lab[r] \in PhysicalLabs /\ ~needWipe[r] =>
      dirty \cap WipeBoxes[lab[r]] = {}

=============================================================================
