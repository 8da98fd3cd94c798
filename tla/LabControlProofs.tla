-------------------------- MODULE LabControlProofs --------------------------
(***************************************************************************)
(* What setlab's mutex, cancel function and done channel guarantee for any *)
(* number of requests, labs and relays: LabControl is well typed, runs one *)
(* initializer at a time, lets only its owner power boxes on, and          *)
(* implements LabOwner.                                                    *)
(***************************************************************************)
EXTENDS LabControl, TLAPS

USE DEF Boxes, Images

----------------------------------------------------------------------------
\* The relays: no outcome of TurnOff or TurnOn leaves the board's ports, and
\* TurnOff turns none on.

LEMMA TurnOffBounds ==
  ASSUME NEW r \in TurnOffOutcomes
  PROVE  r \subseteq relay
BY DEF TurnOffOutcomes

LEMMA TurnOnBounds ==
  ASSUME TypeOK, NEW r \in TurnOnOutcomes
  PROVE  r \subseteq Boxes /\ relay \subseteq r
<1> DEFINE Reached == IF SerialErrors THEN TurnOnReach
                      ELSE {k \in TurnOnReach : \A j \in TurnOnReach : j <= k}
<1>1. PICK k \in Reached : r = relay \cup 1..k
  BY DEF TurnOnOutcomes
<1>2. k \in 0..NumPorts
  BY DEF TurnOnReach
<1>3. 1..k \subseteq Boxes
  BY <1>2, ConstantsAssumption
<1> QED
  BY <1>1, <1>3 DEF TypeOK

\* What any switching of the relays does to the types of the hardware.
LEMMA SwitchRelaysType ==
  ASSUME TypeOK, NEW S, \A r \in S : r \subseteq Boxes, SwitchRelays(S)
  PROVE  /\ relay' \subseteq Boxes /\ seen' \subseteq Boxes /\ dirty' \subseteq Boxes
         /\ booted' \in [Boxes -> Images \cup {Off, Wiped}]
BY DEF TypeOK, SwitchRelays

\* The link is set to the lab or image it is given, or left as it was or removed.
LEMMA SetLinkType ==
  ASSUME TypeOK, NEW l \in Images \cup {NoLab}, SetLink(l)
  PROVE  link' \in Images \cup {NoLab}
BY DEF TypeOK, SetLink

----------------------------------------------------------------------------
\* Type correctness.

LEMMA InitTypeOK == Init => TypeOK
BY ConstantsAssumption DEF Init, TypeOK, PCs, Phases

LEMMA HandlerTypeOK ==
  ASSUME TypeOK, NEW r \in Requests, Handler(r)
  PROVE  TypeOK'
<1> USE DEF TypeOK, Goto, initVars, hwVars, cbVars, PCs, Phases
<1>1. CASE Adopt(r)
  BY <1>1 DEF Adopt, ResetWatchers
<1>2. CASE Lock(r)
  BY <1>2 DEF Lock
<1>3. CASE Await(r)
  BY <1>3 DEF Await
<1>4. CASE EnableLab(r)
  <2>1. link' \in Images \cup {NoLab}
    BY <1>4, SetLinkType DEF EnableLab
  <2> QED
    BY <1>4, <2>1 DEF EnableLab
<1>5. CASE EnsureDown(r)
  <2>1. SwitchRelays(TurnOffOutcomes)
    BY <1>5 DEF EnsureDown
  <2>2. \A s \in TurnOffOutcomes : s \subseteq Boxes
    BY TurnOffBounds
  <2>3. /\ relay' \subseteq Boxes /\ seen' \subseteq Boxes /\ dirty' \subseteq Boxes
        /\ booted' \in [Boxes -> Images \cup {Off, Wiped}]
    BY <2>1, <2>2, SwitchRelaysType
  <2> QED
    BY <1>5, <2>3 DEF EnsureDown
<1>6. CASE WaitOff(r)
  BY <1>6 DEF WaitOff
<1>7. CASE NetworkUp(r)
  BY <1>7 DEF NetworkUp
<1>8. CASE Reset(r)
  BY <1>8 DEF Reset, ResetWatchers
<1>9. CASE Spawn(r)
  BY <1>9 DEF Spawn
<1> QED
  BY <1>1, <1>2, <1>3, <1>4, <1>5, <1>6, <1>7, <1>8, <1>9 DEF Handler

LEMMA InitializeTypeOK ==
  ASSUME TypeOK, NEW r \in Requests, Initialize(r)
  PROVE  TypeOK'
<1> USE DEF TypeOK, Step, reqVars, hwVars, cbVars, PCs, Phases
<1>1. CASE Begin(r)
  BY <1>1 DEF Begin
<1>2. CASE EnableDiskWipe(r)
  <2>1. link' \in Images \cup {NoLab}
    BY <1>2, SetLinkType DEF EnableDiskWipe
  <2> QED
    BY <1>2, <2>1 DEF EnableDiskWipe
<1>3. ASSUME SwitchRelays(TurnOnOutcomes)
      PROVE  /\ relay' \subseteq Boxes /\ seen' \subseteq Boxes /\ dirty' \subseteq Boxes
             /\ booted' \in [Boxes -> Images \cup {Off, Wiped}]
  BY <1>3, TurnOnBounds, SwitchRelaysType
<1>4. ASSUME SwitchRelays(TurnOffOutcomes)
      PROVE  /\ relay' \subseteq Boxes /\ seen' \subseteq Boxes /\ dirty' \subseteq Boxes
             /\ booted' \in [Boxes -> Images \cup {Off, Wiped}]
  <2>1. \A s \in TurnOffOutcomes : s \subseteq Boxes
    BY TurnOffBounds
  <2> QED
    BY <1>4, <2>1, SwitchRelaysType
<1>5. CASE WipePowerOn(r)
  BY <1>3, <1>5 DEF WipePowerOn
<1>6. CASE SecretGen(r)
  BY <1>6 DEF SecretGen
<1>7. CASE DiskWiped(r)
  BY <1>4, <1>7 DEF DiskWiped
<1>8. CASE WipedAndOff(r)
  BY <1>8 DEF WipedAndOff
<1>9. CASE WriteLastLab(r)
  BY <1>9 DEF WriteLastLab
<1>10. CASE PowerUp(r)
  BY <1>3, <1>10 DEF PowerUp
<1>11. CASE Booted(r)
  BY <1>11 DEF Booted
<1>12. CASE BootCancelled(r)
  BY <1>12 DEF BootCancelled
<1>13. CASE Bootstrap(r)
  BY <1>13 DEF Bootstrap
<1>14. CASE EtcdWait(r)
  <2>1. phase' \in [Requests -> Phases]
    BY <1>14 DEF EtcdWait
  <2>2. podWatch' \in [Requests -> {"none", "run", "gone"}]
    BY <1>14 DEF EtcdWait
  <2> QED
    BY <1>14, <2>1, <2>2 DEF EtcdWait
<1>15. CASE FinalizeInstall(r)
  BY <1>15 DEF FinalizeInstall
<1>16. CASE PodsStarted(r)
  BY <1>16 DEF PodsStarted
<1>17. CASE CloseDone(r)
  BY <1>17 DEF CloseDone
<1> QED
  BY <1>1, <1>2, <1>5, <1>6, <1>7, <1>8, <1>9, <1>10, <1>11, <1>12, <1>13, <1>14,
     <1>15, <1>16, <1>17 DEF Initialize

LEMMA CallbacksTypeOK ==
  ASSUME TypeOK, NEW r \in Requests, Callbacks(r)
  PROVE  TypeOK'
<1> USE DEF TypeOK, reqVars, initVars, hwVars
<1>1. CASE CallbackExit(r)
  BY <1>1 DEF CallbackExit
<1>2. CASE CallbackTake(r)
  <2>1. wipeDone' \in [Requests -> BOOLEAN]
    BY <1>2 DEF CallbackTake
  <2>2. cb' \in [Requests -> {"none", "run", "enable", "gone"}]
    BY <1>2 DEF CallbackTake
  <2>3. cbChan' \in Seq(SUBSET Boxes)
    BY <1>2 DEF CallbackTake
  <2> QED
    BY <1>2, <2>1, <2>2, <2>3 DEF CallbackTake
<1>3. CASE CallbackEnable(r)
  <2>1. link' \in Images \cup {NoLab}
    BY <1>3, SetLinkType DEF CallbackEnable
  <2> QED
    BY <1>3, <2>1 DEF CallbackEnable
<1> QED
  BY <1>1, <1>2, <1>3 DEF Callbacks

LEMMA BoxTypeOK ==
  ASSUME TypeOK, NEW b \in Boxes, BoxBoots(b) \/ WipeCallback(b)
  PROVE  TypeOK'
<1> USE DEF TypeOK, reqVars, initVars, cbVars
<1>1. CASE BoxBoots(b)
  BY <1>1, ConstantsAssumption DEF BoxBoots
<1>2. CASE WipeCallback(b)
  <2>1. booted' \in [Boxes -> Images \cup {Off, Wiped}]
    BY <1>2 DEF WipeCallback
  <2>2. wipes' \in SUBSET Boxes
    BY <1>2 DEF WipeCallback
  <2>3. cbChan' \in Seq(SUBSET Boxes)
    <3>1. cbChan \in Seq(SUBSET Boxes)
      OBVIOUS
    <3> HIDE DEF TypeOK
    <3>2. Append(cbChan, wipes') \in Seq(SUBSET Boxes)
      BY <2>2, <3>1
    <3> QED
      BY <1>2, <3>1, <3>2 DEF WipeCallback
  <2> QED
    BY <1>2, <2>1, <2>2, <2>3 DEF WipeCallback
<1> QED
  BY <1>1, <1>2

LEMMA NextTypeOK == TypeOK /\ [Next]_vars => TypeOK'
<1> SUFFICES ASSUME TypeOK, [Next]_vars
             PROVE  TypeOK'
  OBVIOUS
<1>1. ASSUME NEW r \in Requests, NEW l \in Labs, NEW adopt \in BOOLEAN, Accept(r, l, adopt)
      PROVE  TypeOK'
  BY <1>1 DEF Accept, TypeOK, Goto, initVars, hwVars, cbVars, PCs, Phases
<1>2. ASSUME NEW r \in Requests, PodsListed(r) \/ PodWatchExit(r)
      PROVE  TypeOK'
  BY <1>2 DEF PodsListed, PodWatchExit, TypeOK, reqVars, hwVars, cbVars
<1>3. CASE ResetRequest
  BY <1>3 DEF ResetRequest, ResetWatchers, TypeOK, reqVars, initVars, hwVars
<1>4. CASE Poll
  BY <1>4 DEF Poll, TypeOK, reqVars, initVars, cbVars
<1>5. CASE UNCHANGED vars
  BY <1>5 DEF vars, TypeOK, reqVars, initVars, hwVars, cbVars
<1>6. CASE PowerRequest
  <2>1. PICK S : SwitchRelays(S) /\ \A s \in S : s \subseteq Boxes
    <3>1. \A s \in TurnOffOutcomes : s \subseteq Boxes
      BY TurnOffBounds DEF TypeOK
    <3>2. \A s \in TurnOnOutcomes : s \subseteq Boxes
      BY TurnOnBounds
    <3>3. CASE SwitchRelays(TurnOffOutcomes)
      BY <3>1, <3>3
    <3>4. CASE SwitchRelays(TurnOnOutcomes)
      BY <3>2, <3>4
    <3>5. ASSUME NEW p \in seen, SwitchRelays({relay \ {p}})
          PROVE  \E S : SwitchRelays(S) /\ \A s \in S : s \subseteq Boxes
      <4>1. \A s \in {relay \ {p}} : s \subseteq Boxes
        BY <3>5 DEF TypeOK
      <4> QED
        BY <3>5, <4>1
    <3>6. ASSUME NEW p \in Boxes \ seen, SwitchRelays({relay \cup {p}})
          PROVE  \E S : SwitchRelays(S) /\ \A s \in S : s \subseteq Boxes
      <4>1. \A s \in {relay \cup {p}} : s \subseteq Boxes
        BY <3>6 DEF TypeOK
      <4> QED
        BY <3>6, <4>1
    <3> QED
      BY <1>6, <3>3, <3>4, <3>5, <3>6 DEF PowerRequest
  <2>2. /\ relay' \subseteq Boxes /\ seen' \subseteq Boxes /\ dirty' \subseteq Boxes
        /\ booted' \in [Boxes -> Images \cup {Off, Wiped}]
    BY <2>1, SwitchRelaysType
  <2> QED
    BY <1>6, <2>2 DEF PowerRequest, TypeOK, reqVars, initVars, cbVars
<1> QED
  BY <1>1, <1>2, <1>3, <1>4, <1>5, <1>6, HandlerTypeOK, InitializeTypeOK,
     CallbacksTypeOK, BoxTypeOK DEF Next

\* Every variable of setlab, of the initializers and of the hardware keeps its
\* type; in particular no relay outside the board's ports is ever switched.
THEOREM TypeCorrect == Spec => []TypeOK
BY InitTypeOK, NextTypeOK, PTL DEF Spec

----------------------------------------------------------------------------
\* The inductive invariant behind exclusion.

\* initializerMutex is held from "Bail on it" to the unlock, and only then.
MutexOwned == \A r \in Requests : InCritical(r) <=> mutex = r

\* A running initializer is the one the handles refer to.
ActiveHandled == \A r \in Requests : Active(r) => handle = r

\* No initializer runs under a handler that has got past the wait.
HandoverQuiet == \A q, r \in Requests : Handover(r) => ~Active(q)

\* The initializer of a request starts when its handler is done.
SpawnedLast == \A r \in Requests : phase[r] # "none" => pc[r] = "done"

IInv == TypeOK /\ MutexOwned /\ ActiveHandled /\ HandoverQuiet /\ SpawnedLast

LEMMA InitIInv == Init => IInv
BY InitTypeOK, ConstantsAssumption
   DEF Init, IInv, MutexOwned, ActiveHandled, HandoverQuiet, SpawnedLast, Active, Handover,
       InCritical

LEMMA HandlerIInv ==
  ASSUME IInv, TypeOK', NEW r \in Requests, Handler(r)
  PROVE  IInv'
<1> USE DEF IInv, MutexOwned, ActiveHandled, HandoverQuiet, SpawnedLast, Active, Handover,
            InCritical, Goto
<1>1. CASE Adopt(r)
  BY <1>1 DEF Adopt, TypeOK, initVars
<1>2. CASE Lock(r)
  BY <1>2, ConstantsAssumption DEF Lock, TypeOK
<1>3. CASE Await(r)
  BY <1>3 DEF Await, TypeOK, initVars
<1>4. CASE EnableLab(r)
  BY <1>4 DEF EnableLab, TypeOK
<1>5. CASE EnsureDown(r)
  BY <1>5 DEF EnsureDown, TypeOK, initVars
<1>6. CASE WaitOff(r)
  BY <1>6 DEF WaitOff, TypeOK, initVars
<1>7. CASE NetworkUp(r)
  BY <1>7 DEF NetworkUp, TypeOK, initVars
<1>8. CASE Reset(r)
  BY <1>8 DEF Reset, TypeOK, initVars
<1>9. CASE Spawn(r)
  BY <1>9, ConstantsAssumption DEF Spawn, TypeOK
<1> QED
  BY <1>1, <1>2, <1>3, <1>4, <1>5, <1>6, <1>7, <1>8, <1>9 DEF Handler

\* A step of Initialize moves a running initializer, never back to "none", and
\* leaves the handlers and the handles alone.
LEMMA InitializeMoves ==
  ASSUME NEW r \in Requests, Initialize(r)
  PROVE  /\ Active(r)
         /\ \E l \in Phases \ {"none"} : phase' = [phase EXCEPT ![r] = l]
         /\ UNCHANGED reqVars
<1> USE DEF Step, Active, Phases
<1>1. CASE Begin(r)
  BY <1>1 DEF Begin
<1>2. CASE EnableDiskWipe(r) \/ WipePowerOn(r) \/ SecretGen(r)
  BY <1>2 DEF EnableDiskWipe, WipePowerOn, SecretGen
<1>3. CASE DiskWiped(r) \/ WipedAndOff(r) \/ WriteLastLab(r) \/ PowerUp(r)
  BY <1>3 DEF DiskWiped, WipedAndOff, WriteLastLab, PowerUp
<1>4. CASE Booted(r) \/ BootCancelled(r) \/ Bootstrap(r) \/ EtcdWait(r)
  BY <1>4 DEF Booted, BootCancelled, Bootstrap, EtcdWait
<1>5. CASE FinalizeInstall(r) \/ PodsStarted(r) \/ CloseDone(r)
  BY <1>5 DEF FinalizeInstall, PodsStarted, CloseDone
<1> QED
  BY <1>1, <1>2, <1>3, <1>4, <1>5 DEF Initialize

\* The steps of everyone else but an operator leave handlers, handles and phases alone.
LEMMA OthersKeep ==
  ASSUME \/ \E r \in Requests : Callbacks(r) \/ PodsListed(r) \/ PodWatchExit(r)
         \/ \E b \in Boxes : BoxBoots(b) \/ WipeCallback(b)
         \/ ResetRequest \/ Poll \/ UNCHANGED vars
  PROVE  UNCHANGED <<reqVars, phase>> /\ relay' = relay
BY DEF Callbacks, CallbackExit, CallbackTake, CallbackEnable, PodsListed, PodWatchExit,
       BoxBoots, WipeCallback, ResetRequest, Poll, vars, initVars, hwVars

LEMMA NextIInv == IInv /\ [Next]_vars => IInv'
<1> SUFFICES ASSUME IInv, [Next]_vars
             PROVE  IInv'
  OBVIOUS
<1>1. TypeOK'
  BY NextTypeOK DEF IInv
<1>2. ASSUME NEW r \in Requests, NEW l \in Labs, NEW adopt \in BOOLEAN, Accept(r, l, adopt)
      PROVE  IInv'
  BY <1>1, <1>2 DEF Accept, Goto, initVars, IInv, TypeOK, MutexOwned, ActiveHandled,
                    HandoverQuiet, SpawnedLast, Active, Handover, InCritical
<1>3. ASSUME NEW r \in Requests, Handler(r)
      PROVE  IInv'
  BY <1>1, <1>3, HandlerIInv
<1>4. ASSUME NEW r \in Requests, Initialize(r)
      PROVE  IInv'
  BY <1>1, <1>4, InitializeMoves DEF reqVars, IInv, TypeOK, MutexOwned, ActiveHandled,
                    HandoverQuiet, SpawnedLast, Active, Handover, InCritical
<1>5. CASE UNCHANGED <<reqVars, phase>>
  BY <1>1, <1>5 DEF reqVars, IInv, MutexOwned, ActiveHandled, HandoverQuiet, SpawnedLast,
                    Active, Handover, InCritical
<1>6. CASE PowerRequest
  BY <1>5, <1>6 DEF PowerRequest, initVars
<1> QED
  BY <1>2, <1>3, <1>4, <1>5, <1>6, OthersKeep DEF Next

LEMMA IInvAlways == Spec => []IInv
BY InitIInv, NextIInv, PTL DEF Spec

\* However many /setlab requests overlap, two initializers never run at once
\* and none runs while a handler prepares the lab for its own.
THEOREM Exclusion == Spec => []OneInitializer
<1>1. IInv => OneInitializer
  BY DEF IInv, ActiveHandled, HandoverQuiet, OneInitializer
<1> QED
  BY <1>1, IInvAlways, PTL

----------------------------------------------------------------------------
\* Power.

\* The only steps that turn a relay on are two steps of a running initializer,
\* unless operators interfere.
LEMMA PowerOnSteps ==
  ASSUME ~ManualPower, TypeOK, [Next]_vars, ~(relay' \subseteq relay)
  PROVE  /\ \E r \in Requests : Active(r) /\ (WipePowerOn(r) \/ PowerUp(r))
         /\ relay \subseteq relay'
<1>1. ASSUME NEW r \in Requests, NEW l \in Labs, NEW adopt \in BOOLEAN, Accept(r, l, adopt)
      PROVE  relay' \subseteq relay
  BY <1>1 DEF Accept, hwVars
<1>2. ASSUME SwitchRelays(TurnOffOutcomes)
      PROVE  relay' \subseteq relay
  BY <1>2, TurnOffBounds DEF SwitchRelays
<1>3. ASSUME NEW r \in Requests, Handler(r)
      PROVE  relay' \subseteq relay
  BY <1>2, <1>3 DEF Handler, Adopt, Lock, Await, EnableLab, EnsureDown, WaitOff, NetworkUp,
                    Reset, Spawn, hwVars
<1>4. ASSUME NEW r \in Requests, Initialize(r), ~WipePowerOn(r), ~PowerUp(r)
      PROVE  relay' \subseteq relay
  BY <1>2, <1>4 DEF Initialize, Begin, EnableDiskWipe, SecretGen, DiskWiped, WipedAndOff,
                    WriteLastLab, Booted, BootCancelled, Bootstrap, EtcdWait,
                    FinalizeInstall, PodsStarted, CloseDone, hwVars
<1>5. PICK r \in Requests : Initialize(r) /\ (WipePowerOn(r) \/ PowerUp(r))
  BY <1>1, <1>3, <1>4, OthersKeep DEF Next, PowerRequest
<1>6. Active(r)
  BY <1>5, InitializeMoves
<1>7. relay \subseteq relay'
  BY <1>5, TurnOnBounds DEF WipePowerOn, PowerUp, SwitchRelays
<1> QED
  BY <1>5, <1>6, <1>7

\* If operators keep out, relays are switched on only by the initializer that the next /setlab can
\* stop, and never behind the back of a handler that has powered the lab down.
THEOREM OwnedPower ==
  ASSUME ~ManualPower
  PROVE  Spec => PowerOnOnlyByOwner
<1>1. ASSUME IInv, [Next]_vars
      PROVE  ~(relay' \subseteq relay) =>
               /\ handle \in Requests /\ Active(handle)
               /\ \A r \in Requests : ~Handover(r)
  <2> SUFFICES ASSUME ~(relay' \subseteq relay)
               PROVE  /\ handle \in Requests /\ Active(handle)
                      /\ \A r \in Requests : ~Handover(r)
    OBVIOUS
  <2>1. PICK r \in Requests : Active(r)
    BY <1>1, PowerOnSteps DEF IInv
  <2> QED
    BY <1>1, <2>1 DEF IInv, ActiveHandled, HandoverQuiet
<1>2. ASSUME IInv, [Next]_vars
      PROVE  [~(relay' \subseteq relay) =>
                /\ handle \in Requests /\ Active(handle)
                /\ \A r \in Requests : ~Handover(r)]_vars
  BY <1>1, <1>2
<1> QED
  BY <1>2, IInvAlways, PTL DEF Spec, PowerOnOnlyByOwner

----------------------------------------------------------------------------
\* LabControl implements LabOwner.

Served == {r \in Requests : phase[r] # "none"}

\* The handler steps that start no initializer are invisible or power down.
LEMMA HandlerRefines ==
  ASSUME IInv, NEW r \in Requests, Handler(r)
  PROVE  [Abstract!Next]_Abstract!vars
<1> USE DEF Abstract!vars, Owner, Active
<1>1. CASE Spawn(r)
  <2>1. \A q \in Requests : ~Active(q)
    BY <1>1 DEF Spawn, IInv, HandoverQuiet, Handover
  <2>2. phase[r] = "none"
    BY <1>1 DEF Spawn, IInv, SpawnedLast
  <2>3. phase' = [phase EXCEPT ![r] = "start"] /\ handle' = r /\ relay' = relay
    BY <1>1 DEF Spawn, hwVars
  <2>4. Owner = Nobody /\ Owner' = r
    BY <2>1, <2>3 DEF IInv, TypeOK
  <2>5. r \notin Served /\ Served' = Served \cup {r}
    BY <2>2, <2>3 DEF Served, IInv, TypeOK
  <2> QED
    BY <2>3, <2>4, <2>5 DEF Abstract!Next, Abstract!Take, Served
<1>2. CASE EnsureDown(r)
  <2>1. relay' \subseteq relay
    BY <1>2, TurnOffBounds DEF EnsureDown, SwitchRelays
  <2>2. UNCHANGED <<handle, phase>>
    BY <1>2 DEF EnsureDown, initVars
  <2> QED
    BY <2>1, <2>2 DEF Abstract!Next, Abstract!PowerOff
<1>3. ASSUME ~Spawn(r), ~EnsureDown(r)
      PROVE  UNCHANGED <<handle, phase, relay>>
  BY <1>3 DEF Handler, Adopt, Lock, Await, EnableLab, WaitOff, NetworkUp, Reset, initVars,
              hwVars
<1> QED
  BY <1>1, <1>2, <1>3

\* An initializer closes its done channel, powers boxes on or off, or does what
\* the abstract specification does not see.
LEMMA InitializeRefines ==
  ASSUME ~ManualPower, IInv, NEW r \in Requests, Initialize(r)
  PROVE  [Abstract!Next]_Abstract!vars
<1> USE DEF Abstract!vars, Owner
<1>1. Active(r) /\ handle = r /\ handle' = r /\ Owner = r /\ r # Nobody
  BY InitializeMoves, ConstantsAssumption DEF reqVars, IInv, ActiveHandled
<1>2. PICK l \in Phases \ {"none"} : phase' = [phase EXCEPT ![r] = l]
  BY InitializeMoves
<1>3. Served' = Served
  BY <1>1, <1>2 DEF Served, Active, IInv, TypeOK
<1>4. CASE CloseDone(r)
  <2>1. phase'[r] = "closed" /\ relay' = relay
    BY <1>4 DEF CloseDone, Step, hwVars, IInv, TypeOK
  <2>2. Owner' = Nobody
    BY <1>1, <2>1 DEF Active
  <2> QED
    BY <1>1, <1>3, <2>1, <2>2 DEF Abstract!Next, Abstract!Leave, Served
<1>5. ASSUME ~CloseDone(r)
      PROVE  Owner' = r
  <2>1. phase'[r] # "closed"
    BY <1>5 DEF Initialize, Begin, EnableDiskWipe, WipePowerOn, SecretGen, DiskWiped,
                WipedAndOff, WriteLastLab, PowerUp, Booted, BootCancelled, Bootstrap,
                EtcdWait, FinalizeInstall, PodsStarted, Step, IInv, TypeOK
  <2>2. phase'[r] # "none"
    BY <1>2 DEF IInv, TypeOK
  <2> QED
    BY <1>1, <2>1, <2>2 DEF Active
<1>6. relay' \subseteq relay \/ relay \subseteq relay'
  BY PowerOnSteps DEF Next, IInv
<1>7. CASE ~CloseDone(r)
  BY <1>1, <1>3, <1>5, <1>6, <1>7
     DEF Abstract!Next, Abstract!PowerOn, Abstract!PowerOff, Served
<1> QED
  BY <1>4, <1>7

\* For any number of overlapping requests, operators apart, what setlab does with its mutex, its
\* context and its done channel is exclusive, one-shot ownership of the lab.
THEOREM Refinement ==
  ASSUME ~ManualPower
  PROVE  Spec => ImplementsLabOwner
<1>1. Init => Abstract!Init
  BY DEF Init, Abstract!Init, Owner, Active
<1>2. ASSUME IInv, [Next]_vars
      PROVE  [Abstract!Next]_Abstract!vars
  <2> USE DEF Abstract!vars, Owner, Active
  <2>1. ASSUME NEW r \in Requests, NEW l \in Labs, NEW adopt \in BOOLEAN,
               Accept(r, l, adopt)
        PROVE  UNCHANGED <<handle, phase, relay>>
    BY <2>1 DEF Accept, initVars, hwVars
  <2>2. CASE UNCHANGED <<handle, phase, relay>>
    BY <2>2
  <2> QED
    BY <1>2, <2>1, <2>2, HandlerRefines, InitializeRefines, OthersKeep
       DEF Next, PowerRequest, reqVars
<1> QED
  BY <1>1, <1>2, IInvAlways, PTL DEF Spec, ImplementsLabOwner, Abstract!Spec

----------------------------------------------------------------------------
\* Who switches the netboot link back from the disk-wipe image.

\* From EnableLab until EnableDiskWipe the link is known to point at a lab.
LinkSet(r) == \/ pc[r] \in {"poweroff", "waitoff", "network", "reset", "spawn"}
              \/ phase[r] \in {"start", "wipelink"}

\* From the wait for "all off" until EnableDiskWipe no box runs the wipe image.
Quiet(r) == pc[r] \in {"network", "reset", "spawn"} \/ phase[r] \in {"start", "wipelink"}

\* A box that runs something has been seen on.
RunningSeen == \A b \in Boxes : booted[b] # Off => b \in relay \cap seen
LinkIsSet   == \A r \in Requests : LinkSet(r) => link # DiskWipe
BoxesQuiet  == \A r \in Requests : Quiet(r) => \A b \in Boxes : booted[b] # DiskWipe
\* An initializer about to wipe has no callback to take yet.
Drained     == \A r \in Requests : phase[r] = "wipelink" => cbChan = << >> /\ needWipe[r]
\* Nobody has completed a wipe that has not begun.
NotWiped    == \A r \in Requests :
                 /\ phase[r] \in {"none", "start", "wipelink"} => ~wipeDone[r]
                 /\ phase[r] \in {"none", "start"} => cb[r] = "none"

WInv == /\ RunningSeen /\ LinkIsSet /\ BoxesQuiet /\ Drained /\ NotWiped /\ WipeLinkOwned

LEMMA InitWInv == Init => WInv
BY ConstantsAssumption
   DEF Init, WInv, RunningSeen, LinkIsSet, BoxesQuiet, Drained, NotWiped, WipeLinkOwned,
       LinkSet, Quiet

\* Switching relays only turns boxes off.
LEMMA SwitchRelaysRunning ==
  ASSUME RunningSeen, NEW S, SwitchRelays(S)
  PROVE  /\ RunningSeen'
         /\ \A b \in Boxes : booted'[b] \in {booted[b], Off}
BY DEF RunningSeen, SwitchRelays

LEMMA HandlerWInv ==
  ASSUME ~FileErrors, IInv, WInv, NEW r \in Requests, Handler(r)
  PROVE  WInv'
<1> USE DEF WInv, RunningSeen, LinkIsSet, BoxesQuiet, Drained, NotWiped, WipeLinkOwned,
            LinkSet, Quiet, Goto, initVars, hwVars, cbVars
<1>1. CASE Adopt(r)
  BY <1>1 DEF Adopt, ResetWatchers, IInv, TypeOK
<1>2. CASE Lock(r)
  BY <1>2 DEF Lock, IInv, TypeOK
<1>3. CASE Await(r)
  BY <1>3 DEF Await, IInv, TypeOK
<1>4. CASE EnableLab(r)
  <2>1. link' # DiskWipe
    BY <1>4, ConstantsAssumption DEF EnableLab, SetLink, IInv, TypeOK
  <2> QED
    BY <1>4, <2>1 DEF EnableLab, IInv, TypeOK
<1>5. CASE EnsureDown(r)
  <2>1. RunningSeen' /\ \A b \in Boxes : booted'[b] \in {booted[b], Off}
    BY <1>5, SwitchRelaysRunning DEF EnsureDown
  <2> QED
    BY <1>5, <2>1, ConstantsAssumption DEF EnsureDown, IInv, TypeOK
<1>6. CASE WaitOff(r)
  <2>1. \A b \in Boxes : booted[b] # DiskWipe
    BY <1>6, ConstantsAssumption DEF WaitOff, PortIsOff
  <2> QED
    BY <1>6, <2>1 DEF WaitOff, IInv, TypeOK
<1>7. CASE NetworkUp(r)
  BY <1>7 DEF NetworkUp, IInv, TypeOK
<1>8. CASE Reset(r)
  BY <1>8 DEF Reset, ResetWatchers, IInv, TypeOK
<1>9. CASE Spawn(r)
  <2>1. phase[r] = "none"
    BY <1>9 DEF Spawn, IInv, SpawnedLast
  <2> QED
    BY <1>9, <2>1 DEF Spawn, IInv, TypeOK
<1> QED
  BY <1>1, <1>2, <1>3, <1>4, <1>5, <1>6, <1>7, <1>8, <1>9 DEF Handler

LEMMA InitializeWInv ==
  ASSUME ~FileErrors, IInv, WInv, NEW r \in Requests, Initialize(r)
  PROVE  WInv'
<1>1. /\ handle = r /\ UNCHANGED reqVars
      /\ \A q \in Requests : ~Handover(q)
      /\ \A q \in Requests : q # r => phase[q] \in {"none", "closed"} /\ phase'[q] = phase[q]
      /\ \A q \in Requests : LinkSet(q) \/ Quiet(q) => q = r
  <2>1. Active(r)
    BY InitializeMoves
  <2> QED
    BY <2>1, InitializeMoves DEF IInv, ActiveHandled, HandoverQuiet, Active, Handover,
                                 LinkSet, Quiet, reqVars, TypeOK
<1> USE <1>1 DEF reqVars, hwVars, cbVars, Step, WInv, NotWiped, WipeLinkOwned
<1>2. CASE Begin(r)
  <2>1. phase' = [phase EXCEPT ![r] = IF needWipe'[r] THEN "wipelink" ELSE "secret"]
    BY <1>2 DEF Begin, IInv, TypeOK
  <2>2. RunningSeen' /\ LinkIsSet' /\ BoxesQuiet'
    BY <1>2, <2>1 DEF Begin, RunningSeen, LinkIsSet, BoxesQuiet, LinkSet, Quiet, IInv, TypeOK
  <2>3. Drained'
    BY <1>2, <2>1 DEF Begin, Drained, IInv, TypeOK
  <2>4. NotWiped'
    BY <1>2, <2>1 DEF Begin, IInv, TypeOK
  <2>5. link' # DiskWipe
    BY <1>2 DEF Begin, LinkIsSet, LinkSet
  <2> QED
    BY <2>2, <2>3, <2>4, <2>5
<1>3. CASE EnableDiskWipe(r)
  <2>1. needWipe[r] /\ ~wipeDone[r]
    BY <1>3 DEF EnableDiskWipe, Drained
  <2>2. \A q \in Requests : ~LinkSet(q)' /\ ~Quiet(q)'
    BY <1>3 DEF EnableDiskWipe, LinkSet, Quiet, Handover, IInv, TypeOK
  <2> QED
    BY <1>3, <2>1, <2>2 DEF EnableDiskWipe, RunningSeen, LinkIsSet, BoxesQuiet, Drained,
                            LinkSet, IInv, TypeOK
<1>4. ASSUME phase[r] \notin {"none", "start", "wipelink"},
             phase'[r] \notin {"none", "start", "wipelink"},
             RunningSeen', UNCHANGED <<link, needWipe, wipeDone, cb>>
      PROVE  WInv'
  <2>1. \A q \in Requests : ~LinkSet(q)' /\ ~Quiet(q)' /\ phase'[q] # "wipelink"
    BY <1>4 DEF LinkSet, Quiet, Handover
  <2> QED
    BY <1>4, <2>1 DEF LinkIsSet, BoxesQuiet, Drained
<1>5. ASSUME ~Begin(r), ~EnableDiskWipe(r)
      PROVE  /\ phase[r] \notin {"none", "start", "wipelink"}
             /\ phase'[r] \notin {"none", "start", "wipelink"}
             /\ UNCHANGED <<link, needWipe, wipeDone, cb>>
  BY <1>5 DEF Initialize, WipePowerOn, SecretGen, DiskWiped, WipedAndOff, WriteLastLab,
              PowerUp, Booted, BootCancelled, Bootstrap, EtcdWait, FinalizeInstall,
              PodsStarted, CloseDone, IInv, TypeOK
<1>6. ASSUME ~Begin(r), ~EnableDiskWipe(r)
      PROVE  RunningSeen'
  <2>1. CASE UNCHANGED <<relay, seen, booted>>
    BY <2>1 DEF RunningSeen
  <2>2. ASSUME NEW S, SwitchRelays(S)
        PROVE  RunningSeen'
    BY <2>2, SwitchRelaysRunning
  <2> QED
    BY <1>6, <2>1, <2>2
       DEF Initialize, WipePowerOn, SecretGen, DiskWiped, WipedAndOff, WriteLastLab,
           PowerUp, Booted, BootCancelled, Bootstrap, EtcdWait, FinalizeInstall,
           PodsStarted, CloseDone
<1> QED
  BY <1>2, <1>3, <1>4, <1>5, <1>6

LEMMA CallbacksWInv ==
  ASSUME ~FileErrors, IInv, WInv, NEW r \in Requests, Callbacks(r)
  PROVE  WInv'
<1> USE DEF WInv, RunningSeen, LinkIsSet, BoxesQuiet, Drained, NotWiped, WipeLinkOwned,
            LinkSet, Quiet, reqVars, initVars, hwVars
<1>1. CASE CallbackExit(r)
  BY <1>1 DEF CallbackExit, IInv, TypeOK
<1>2. CASE CallbackTake(r)
  <2>1. phase[r] \notin {"none", "start", "wipelink"}
    BY <1>2 DEF CallbackTake
  <2>2. NotWiped' /\ WipeLinkOwned'
    BY <1>2, <2>1 DEF CallbackTake, IInv, TypeOK
  <2>3. Drained'
    BY <1>2 DEF CallbackTake
  <2> QED
    BY <1>2, <2>2, <2>3 DEF CallbackTake
<1>3. CASE CallbackEnable(r)
  <2>1. link' # DiskWipe
    BY <1>3, ConstantsAssumption DEF CallbackEnable, SetLink, IInv, TypeOK
  <2> QED
    BY <1>3, <2>1 DEF CallbackEnable, IInv, TypeOK
<1> QED
  BY <1>1, <1>2, <1>3 DEF Callbacks

LEMMA BoxWInv ==
  ASSUME IInv, WInv, NEW b \in Boxes, BoxBoots(b) \/ WipeCallback(b)
  PROVE  WInv'
<1> USE DEF WInv, RunningSeen, LinkIsSet, BoxesQuiet, Drained, NotWiped, WipeLinkOwned,
            LinkSet, Quiet, reqVars, initVars
<1>1. CASE BoxBoots(b)
  BY <1>1 DEF BoxBoots, cbVars, IInv, TypeOK
<1>2. CASE WipeCallback(b)
  <2>1. \A r \in Requests : phase[r] # "wipelink"
    BY <1>2 DEF WipeCallback
  <2> QED
    BY <1>2, <2>1, ConstantsAssumption DEF WipeCallback, IInv, TypeOK
<1> QED
  BY <1>1, <1>2

LEMMA NextWInv == ~FileErrors /\ IInv /\ WInv /\ [Next]_vars => WInv'
<1> SUFFICES ASSUME ~FileErrors, IInv, WInv, [Next]_vars
             PROVE  WInv'
  OBVIOUS
<1> USE DEF WInv, RunningSeen, LinkIsSet, BoxesQuiet, Drained, NotWiped, WipeLinkOwned,
            LinkSet, Quiet
<1>1. ASSUME NEW r \in Requests, NEW l \in Labs, NEW adopt \in BOOLEAN, Accept(r, l, adopt)
      PROVE  WInv'
  BY <1>1 DEF Accept, Goto, initVars, hwVars, cbVars, IInv, TypeOK
<1>2. ASSUME NEW r \in Requests, PodsListed(r) \/ PodWatchExit(r)
      PROVE  WInv'
  BY <1>2 DEF PodsListed, PodWatchExit, reqVars, hwVars, cbVars
<1>3. CASE ResetRequest
  BY <1>3 DEF ResetRequest, ResetWatchers, reqVars, initVars, hwVars
<1>4. CASE Poll
  BY <1>4 DEF Poll, reqVars, initVars, cbVars
<1>5. CASE UNCHANGED vars
  BY <1>5 DEF vars, reqVars, initVars, hwVars, cbVars
<1>6. CASE PowerRequest
  <2>1. PICK S : SwitchRelays(S)
    BY <1>6 DEF PowerRequest
  <2>2. RunningSeen' /\ \A b \in Boxes : booted'[b] \in {booted[b], Off}
    BY <2>1, SwitchRelaysRunning
  <2> QED
    BY <1>6, <2>2, ConstantsAssumption DEF PowerRequest, reqVars, initVars, cbVars
<1> HIDE DEF WInv
<1> QED
  BY <1>1, <1>2, <1>3, <1>4, <1>5, <1>6, HandlerWInv, InitializeWInv, CallbacksWInv, BoxWInv
     DEF Next

\* As long as the link can be written, it points at the disk-wipe image only
\* while the initializer that put it there, the one the handles refer to, has
\* still to switch it back; no later lab finds its boxes wiping for an earlier
\* one.
THEOREM WipeLink ==
  ASSUME ~FileErrors
  PROVE  Spec => []WipeLinkOwned
<1>1. IInv /\ WInv /\ [Next]_vars => WInv'
  BY NextWInv
<1>2. WInv => WipeLinkOwned
  BY DEF WInv
<1> QED
  BY <1>1, <1>2, InitWInv, IInvAlways, PTL DEF Spec

----------------------------------------------------------------------------
\* Why a wipe that is believed is a wipe that happened.

\* A box that has been wiped and has not been off since.
Fresh(b) == b \notin dirty /\ booted[b] = Wiped

\* The lab between the last reset of the watchers and the end of the wipe, and
\* the part of that in which the initializer's channel holds only its own
\* callbacks.
Window(r) ==
  \/ pc[r] = "spawn"
  \/ phase[r] \in {"start", "wipelink", "wipepower", "secret", "diskwipe"}
Wiping(r) == phase[r] \in {"wipelink", "wipepower", "secret", "diskwipe"}

WipesFresh ==
  \A r \in Requests : Window(r) => \A b \in Boxes : b \in wipes => Fresh(b)
SnapshotsFresh ==
  \A r \in Requests : Wiping(r) =>
    \A i \in 1..Len(cbChan) : \A b \in Boxes : b \in cbChan[i] => Fresh(b)
DoneFresh ==
  \A r \in Requests : Wiping(r) /\ wipeDone[r] =>
    \A b \in Boxes : b \in WipeBoxes[lab[r]] => Fresh(b)
NotWipedYet ==
  \A r \in Requests : phase[r] \in {"none", "start"} => ~wipeDone[r] /\ cb[r] = "none"
\* After the wipe a box is clean, and keeps off the new lab until it is powered.
StaysClean ==
  \A r \in Requests : needWipe[r] /\ phase[r] \in {"wipeoff", "lastlab", "powerup"} =>
    \A b \in Boxes : b \in WipeBoxes[lab[r]] =>
      b \notin dirty /\ (booted[b] = Wiped \/ b \notin relay)

CInv == /\ RunningSeen /\ WipesFresh /\ SnapshotsFresh /\ DoneFresh /\ NotWipedYet
        /\ StaysClean

LEMMA InitCInv == Init => CInv
BY ConstantsAssumption
   DEF Init, CInv, RunningSeen, WipesFresh, SnapshotsFresh, DoneFresh, NotWipedYet,
       StaysClean, Window, Wiping

LEMMA HandlerCInv ==
  ASSUME IInv, CInv, NEW r \in Requests, Handler(r)
  PROVE  CInv'
<1> USE DEF CInv, WipesFresh, SnapshotsFresh, DoneFresh, NotWipedYet, StaysClean, Window,
            Wiping, Fresh, Goto, initVars, hwVars, cbVars
<1>1. CASE Adopt(r)
  BY <1>1 DEF Adopt, ResetWatchers, RunningSeen, IInv, TypeOK
<1>2. CASE Lock(r)
  BY <1>2 DEF Lock, RunningSeen, IInv, TypeOK
<1>3. CASE Await(r)
  BY <1>3 DEF Await, RunningSeen, IInv, TypeOK
<1>4. CASE EnableLab(r)
  BY <1>4 DEF EnableLab, RunningSeen, IInv, TypeOK
<1>5. CASE EnsureDown(r)
  <2>1. \A q \in Requests : phase[q] \in {"none", "closed"}
    BY <1>5 DEF EnsureDown, IInv, HandoverQuiet, Handover, Active
  <2>2. \A q \in Requests : ~Window(q)' /\ ~Wiping(q)'
    BY <1>5, <2>1 DEF EnsureDown, IInv, TypeOK, MutexOwned, InCritical, Handover
  <2>3. RunningSeen'
    BY <1>5, SwitchRelaysRunning DEF EnsureDown
  <2> QED
    BY <1>5, <2>1, <2>2, <2>3 DEF EnsureDown
<1>6. CASE WaitOff(r)
  BY <1>6 DEF WaitOff, RunningSeen, IInv, TypeOK
<1>7. CASE NetworkUp(r)
  BY <1>7 DEF NetworkUp, RunningSeen, IInv, TypeOK
<1>8. CASE Reset(r)
  BY <1>8 DEF Reset, ResetWatchers, RunningSeen, IInv, TypeOK
<1>9. CASE Spawn(r)
  <2>1. phase[r] = "none"
    BY <1>9 DEF Spawn, IInv, SpawnedLast
  <2> QED
    BY <1>9, <2>1 DEF Spawn, RunningSeen, IInv, TypeOK
<1> QED
  BY <1>1, <1>2, <1>3, <1>4, <1>5, <1>6, <1>7, <1>8, <1>9 DEF Handler

LEMMA InitializeCInv ==
  ASSUME IInv, CInv, NEW r \in Requests, Initialize(r)
  PROVE  CInv'
<1>1. /\ UNCHANGED reqVars
      /\ \A q \in Requests : pc[q] # "spawn"
      /\ \A q \in Requests : q # r => phase[q] \in {"none", "closed"} /\ phase'[q] = phase[q]
  <2>1. Active(r)
    BY InitializeMoves
  <2> QED
    BY <2>1, InitializeMoves DEF IInv, ActiveHandled, HandoverQuiet, Active, Handover, TypeOK
<1> USE <1>1 DEF reqVars, hwVars, cbVars, Step, CInv, NotWipedYet, Window, Wiping
<1>2. CASE Begin(r)
  <2>1. cbChan' = << >> /\ UNCHANGED <<wipes, dirty, booted, relay, seen, wipeDone>>
    BY <1>2 DEF Begin
  <2>2. phase[r] = "start" /\ phase'[r] \in {"wipelink", "secret"}
    BY <1>2 DEF Begin, IInv, TypeOK
  <2>3. NotWipedYet' /\ ~wipeDone[r]
    BY <1>2, <2>2 DEF Begin, IInv, TypeOK
  <2> QED
    BY <2>1, <2>2, <2>3 DEF RunningSeen, WipesFresh, SnapshotsFresh, DoneFresh, StaysClean,
                            Fresh
<1>3. ASSUME SwitchRelays(TurnOnOutcomes)
      PROVE  /\ RunningSeen'
             /\ \A b \in Boxes : booted[b] = Wiped => booted'[b] = Wiped
             /\ dirty' = dirty
  <2>1. relay \subseteq relay'
    BY <1>3, TurnOnBounds DEF SwitchRelays, IInv
  <2> QED
    BY <1>3, <2>1, SwitchRelaysRunning, ConstantsAssumption DEF SwitchRelays, RunningSeen
<1>4. CASE WipePowerOn(r)
  <2>1. UNCHANGED <<wipes, cbChan, wipeDone, cb>> /\ SwitchRelays(TurnOnOutcomes)
    BY <1>4 DEF WipePowerOn
  <2>2. \A b \in Boxes : Fresh(b) => Fresh(b)'
    BY <1>3, <2>1 DEF Fresh
  <2>4. phase[r] = "wipepower" /\ phase'[r] = "secret"
    BY <1>4 DEF WipePowerOn, IInv, TypeOK
  <2> QED
    BY <1>3, <2>1, <2>2, <2>4 DEF WipesFresh, SnapshotsFresh, DoneFresh, StaysClean
<1>5. CASE EnableDiskWipe(r) \/ SecretGen(r)
  <2>1. UNCHANGED <<wipes, cbChan, wipeDone, cb, needWipe, relay, seen, booted, dirty>>
    BY <1>5 DEF EnableDiskWipe, SecretGen
  <2>2. Wiping(r)
    BY <1>5 DEF EnableDiskWipe, SecretGen
  <2>3. \/ Wiping(r)' \/ phase'[r] = "returned"
        \/ phase'[r] = "lastlab" /\ ~(needWipe[r] /\ ~wipeDone[r])
    BY <1>5 DEF EnableDiskWipe, SecretGen, IInv, TypeOK
  <2> HIDE DEF Wiping
  <2>4. RunningSeen' /\ NotWipedYet'
    BY <2>1, <2>2, <2>3 DEF RunningSeen, Wiping
  <2>5. WipesFresh' /\ SnapshotsFresh' /\ DoneFresh'
    BY <2>1, <2>2, <2>3 DEF WipesFresh, SnapshotsFresh, DoneFresh, Fresh, Wiping
  <2>6. StaysClean'
    BY <2>1, <2>2, <2>3 DEF StaysClean, DoneFresh, Fresh, Wiping, IInv, TypeOK
  <2> QED
    BY <2>4, <2>5, <2>6
<1>6. CASE DiskWiped(r)
  <2>1. UNCHANGED <<wipes, cbChan, wipeDone, cb, needWipe, dirty>>
    BY <1>6 DEF DiskWiped, SwitchRelays
  <2>2. phase[r] = "diskwipe" /\ phase'[r] = "wipeoff" /\ wipeDone[r]
    BY <1>6 DEF DiskWiped, IInv, TypeOK
  <2>3. RunningSeen' /\ \A b \in Boxes : booted'[b] = booted[b] \/ b \notin relay'
    BY <1>6, SwitchRelaysRunning DEF DiskWiped, SwitchRelays
  <2>4. StaysClean'
    BY <2>1, <2>2, <2>3 DEF StaysClean, DoneFresh, Fresh
  <2> QED
    BY <2>1, <2>2, <2>3, <2>4 DEF WipesFresh, SnapshotsFresh, DoneFresh
<1>7. ASSUME phase[r] \notin {"none", "start"}, ~Wiping(r), ~Wiping(r)',
             phase'[r] \notin {"none", "start", "wipeoff"},
             phase'[r] \in {"lastlab", "powerup"} =>
               phase[r] \in {"wipeoff", "lastlab"} /\ UNCHANGED <<booted, relay>>,
             UNCHANGED <<needWipe, wipeDone, cb, dirty, wipes>>, RunningSeen'
      PROVE  CInv'
  BY <1>7 DEF WipesFresh, SnapshotsFresh, DoneFresh, StaysClean
<1>8. ASSUME NEW S, SwitchRelays(S)
      PROVE  RunningSeen' /\ dirty' = dirty
  BY <1>8, SwitchRelaysRunning DEF SwitchRelays
<1>9. CASE WipedAndOff(r) \/ WriteLastLab(r)
  BY <1>7, <1>9 DEF WipedAndOff, WriteLastLab, RunningSeen, IInv, TypeOK
<1>10. CASE PowerUp(r)
  BY <1>7, <1>8, <1>10 DEF PowerUp, IInv, TypeOK
\* The steps after the power is on leave the boxes and the wipe alone.
<1>11. ASSUME NEW x \in {"boot", "bootstrap", "etcdwait", "finalize", "pods", "returned"},
              NEW y \in {"bootstrap", "etcdwait", "finalize", "pods", "returned", "closed"},
              Step(r, x, y), UNCHANGED <<needWipe, wipeDone, cb, dirty, wipes, booted, relay, seen>>
       PROVE  CInv'
  <2>1. phase[r] = x /\ phase'[r] = y
    BY <1>11 DEF IInv, TypeOK
  <2> QED
    BY <1>7, <1>11, <2>1 DEF RunningSeen
<1>12. CASE Booted(r)
  BY <1>11, <1>12 DEF Booted
<1>13. CASE BootCancelled(r)
  BY <1>11, <1>13 DEF BootCancelled
<1>14. CASE Bootstrap(r)
  BY <1>11, <1>14 DEF Bootstrap
<1>15. CASE EtcdWait(r)
  BY <1>11, <1>15 DEF EtcdWait
<1>16. CASE FinalizeInstall(r)
  BY <1>11, <1>16 DEF FinalizeInstall
<1>17. CASE PodsStarted(r)
  BY <1>11, <1>17 DEF PodsStarted
<1>18. CASE CloseDone(r)
  BY <1>11, <1>18 DEF CloseDone
<1> QED
  BY <1>2, <1>4, <1>5, <1>6, <1>9, <1>10, <1>12, <1>13, <1>14, <1>15, <1>16, <1>17, <1>18
  DEF Initialize

LEMMA CallbacksCInv ==
  ASSUME IInv, CInv, NEW r \in Requests, Callbacks(r)
  PROVE  CInv'
<1> USE DEF CInv, NotWipedYet, reqVars, initVars, hwVars
<1>1. CASE CallbackExit(r)
  BY <1>1 DEF CallbackExit, RunningSeen, WipesFresh, SnapshotsFresh, DoneFresh, StaysClean,
              Fresh, Window, Wiping, IInv, TypeOK
<1>2. CASE CallbackTake(r)
  <2>1. /\ cb[r] = "run" /\ cbChan # << >> /\ cbChan \in Seq(SUBSET Boxes)
        /\ cbChan' = Tail(cbChan)
        /\ UNCHANGED <<lab, phase, pc, needWipe, relay, seen, booted, dirty, wipes>>
    BY <1>2 DEF CallbackTake, IInv, TypeOK
  <2>2. phase[r] \notin {"none", "start"}
    BY <2>1
  <2>3. \A i \in 1..Len(cbChan') : cbChan'[i] = cbChan[i + 1] /\ i + 1 \in 1..Len(cbChan)
    BY <2>1
  <2>4. SnapshotsFresh'
    BY <2>1, <2>3 DEF SnapshotsFresh, Wiping, Fresh
  <2>5. \A q \in Requests :
          wipeDone'[q] = wipeDone[q] \/ (q = r /\ WipeBoxes[lab[r]] \subseteq cbChan[1])
    BY <1>2, <2>1 DEF CallbackTake, AllWiped, IInv, TypeOK
  <2>6. 1 \in 1..Len(cbChan)
    BY <2>1
  <2>7. DoneFresh'
    BY <2>1, <2>5, <2>6 DEF DoneFresh, SnapshotsFresh, Wiping, Fresh
  <2>8. NotWipedYet'
    BY <1>2, <2>1, <2>2 DEF CallbackTake, IInv, TypeOK
  <2> QED
    BY <2>1, <2>4, <2>7, <2>8 DEF RunningSeen, WipesFresh, StaysClean, Fresh, Window
<1>3. CASE CallbackEnable(r)
  BY <1>3 DEF CallbackEnable, RunningSeen, WipesFresh, SnapshotsFresh, DoneFresh,
              StaysClean, Fresh, Window, Wiping, IInv, TypeOK
<1> QED
  BY <1>1, <1>2, <1>3 DEF Callbacks

LEMMA BoxCInv ==
  ASSUME IInv, CInv, NEW b \in Boxes, BoxBoots(b) \/ WipeCallback(b)
  PROVE  CInv'
<1> USE DEF CInv, NotWipedYet, reqVars, initVars
<1>1. UNCHANGED <<lab, phase, pc, needWipe, wipeDone, cb, relay, seen>> /\ RunningSeen'
  <2>1. UNCHANGED <<lab, phase, pc, needWipe, wipeDone, cb, relay, seen>>
    BY DEF BoxBoots, WipeCallback, cbVars
  <2>2. b \in relay \cap seen
    BY ConstantsAssumption DEF BoxBoots, WipeCallback, RunningSeen
  <2>3. \A c \in Boxes : c # b => booted'[c] = booted[c]
    BY DEF BoxBoots, WipeCallback, IInv, TypeOK
  <2> QED
    BY <2>1, <2>2, <2>3 DEF RunningSeen
<1>2. \A c \in Boxes : Fresh(c) => Fresh(c)'
  BY ConstantsAssumption DEF Fresh, BoxBoots, WipeCallback, IInv, TypeOK
<1>3. DoneFresh' /\ NotWipedYet'
  BY <1>1, <1>2 DEF DoneFresh, Wiping
<1>4. StaysClean'
  BY <1>1, ConstantsAssumption DEF StaysClean, BoxBoots, WipeCallback, IInv, TypeOK
<1>5. CASE BoxBoots(b)
  <2>1. UNCHANGED <<wipes, cbChan>>
    BY <1>5 DEF BoxBoots, cbVars
  <2> QED
    BY <1>1, <1>2, <1>3, <1>4, <2>1 DEF WipesFresh, SnapshotsFresh, Window, Wiping
<1>6. CASE WipeCallback(b)
  <2>1. Fresh(b)' /\ wipes' = wipes \cup {b}
    BY <1>6 DEF WipeCallback, Fresh, IInv, TypeOK
  <2>2. WipesFresh'
    BY <1>1, <1>2, <2>1 DEF WipesFresh, Window
  <2>3. ASSUME cbChan' = Append(cbChan, wipes')
        PROVE  SnapshotsFresh'
    <3>1. cbChan \in Seq(SUBSET Boxes)
      BY DEF IInv, TypeOK
    <3>2. \A i \in 1..Len(cbChan') :
            (i \in 1..Len(cbChan) /\ cbChan'[i] = cbChan[i]) \/ cbChan'[i] = wipes'
      BY <2>3, <3>1
    <3> QED
      BY <1>1, <1>2, <2>2, <3>2 DEF WipesFresh, SnapshotsFresh, Window, Wiping
  <2>4. SnapshotsFresh'
    BY <1>1, <1>2, <1>6, <2>3 DEF WipeCallback, SnapshotsFresh, Wiping
  <2> QED
    BY <1>1, <1>3, <1>4, <2>2, <2>4
<1> QED
  BY <1>5, <1>6

LEMMA NextCInv == ~ManualPower /\ IInv /\ CInv /\ [Next]_vars => CInv'
<1> SUFFICES ASSUME ~ManualPower, IInv, CInv, [Next]_vars
             PROVE  CInv'
  OBVIOUS
<1> USE DEF CInv, RunningSeen, WipesFresh, SnapshotsFresh, DoneFresh, NotWipedYet,
            StaysClean, Fresh, Window, Wiping
<1>1. ASSUME NEW r \in Requests, NEW l \in Labs, NEW adopt \in BOOLEAN, Accept(r, l, adopt)
      PROVE  CInv'
  <2>1. phase[r] = "none"
    BY <1>1 DEF Accept, IInv, SpawnedLast
  <2> QED
    BY <1>1, <2>1 DEF Accept, Goto, initVars, hwVars, cbVars, IInv, TypeOK
<1>2. ASSUME NEW r \in Requests, PodsListed(r) \/ PodWatchExit(r)
      PROVE  CInv'
  BY <1>2 DEF PodsListed, PodWatchExit, reqVars, hwVars, cbVars
<1>3. CASE ResetRequest
  BY <1>3 DEF ResetRequest, ResetWatchers, reqVars, initVars, hwVars
<1>4. CASE Poll
  BY <1>4 DEF Poll, reqVars, initVars, cbVars
<1>5. CASE UNCHANGED vars
  BY <1>5 DEF vars, reqVars, initVars, hwVars, cbVars
<1> HIDE DEF CInv
<1> QED
  BY <1>1, <1>2, <1>3, <1>4, <1>5, HandlerCInv, InitializeCInv, CallbacksCInv, BoxCInv
     DEF Next, PowerRequest

\* Left alone by operators, an initializer that has found it must wipe never powers its lab up over a
\* bare-metal node that still holds an old installation: no callback of an
\* earlier wipe, of an earlier lab or from before a reset is taken for one of
\* its own, whatever fails on the way.
THEOREM CleanPowerUp ==
  ASSUME ~ManualPower
  PROVE  Spec => []WipedBeforePowerUp
<1>1. IInv /\ CInv => WipedBeforePowerUp
  BY DEF IInv, TypeOK, CInv, StaysClean, WipedBeforePowerUp
<1>2. IInv /\ CInv /\ [Next]_vars => CInv'
  BY NextCInv
<1> QED
  BY <1>1, <1>2, InitCInv, IInvAlways, PTL DEF Spec

----------------------------------------------------------------------------
\* What the exceptions of SetLabCompletes mean: such a wait is for ever.

\* While an initializer runs, the other requests stand before it.
LEMMA OnlyLabSteps ==
  ASSUME IInv, NEW r \in Requests, Active(r), [Next]_vars
  PROVE  \/ \E q \in Requests, l \in Labs, adopt \in BOOLEAN : Accept(q, l, adopt)
         \/ \E q \in Requests : Adopt(q) \/ Lock(q) \/ (Await(q) /\ phase[r] = "closed")
         \/ Initialize(r)
         \/ \E q \in Requests : Callbacks(q) \/ PodsListed(q) \/ PodWatchExit(q)
         \/ \E b \in Boxes : BoxBoots(b) \/ WipeCallback(b)
         \/ ResetRequest \/ PowerRequest \/ Poll \/ UNCHANGED vars
<1>1. handle = r /\ \A q \in Requests : ~Handover(q) /\ (Active(q) => q = r)
  BY DEF IInv, ActiveHandled, HandoverQuiet
<1>2. \A q \in Requests : Initialize(q) => q = r
  BY <1>1, InitializeMoves
<1>3. \A q \in Requests : Handler(q) => Adopt(q) \/ Lock(q) \/ (Await(q) /\ phase[r] = "closed")
  BY <1>1 DEF Handler, EnableLab, EnsureDown, WaitOff, NetworkUp, Reset, Spawn, Await, Handover
<1> QED
  BY <1>2, <1>3 DEF Next

Cut(r) == WipeCut(r) \/ PodsCut(r)

\* Nothing brings back the goroutine that would end the loop.
LEMMA CutKept ==
  ASSUME IInv, NEW r \in Requests, Cut(r), [Next]_vars
  PROVE  Cut(r)'
<1>1. Active(r) /\ phase[r] \in {"diskwipe", "pods"} /\ r \in cancelled
  BY DEF Cut, WipeCut, PodsCut, Active
<1> USE <1>1 DEF Cut, WipeCut, PodsCut
<1>2. ASSUME UNCHANGED <<phase, cb, wipeDone, podWatch, podsReady>>, cancelled \subseteq cancelled'
      PROVE  Cut(r)'
  BY <1>2
<1>3. CASE \/ \E q \in Requests, l \in Labs, adopt \in BOOLEAN : Accept(q, l, adopt)
           \/ \E q \in Requests : Adopt(q) \/ Lock(q)
           \/ \E b \in Boxes : BoxBoots(b) \/ WipeCallback(b)
           \/ ResetRequest \/ PowerRequest \/ Poll \/ UNCHANGED vars
  BY <1>2, <1>3 DEF Accept, Adopt, Lock, BoxBoots, WipeCallback, ResetRequest, ResetWatchers, PowerRequest, Poll,
                    initVars, cbVars, vars
<1>4. CASE Initialize(r)
  BY <1>4 DEF Initialize, Step, Begin, EnableDiskWipe, WipePowerOn, SecretGen, DiskWiped, WipedAndOff, WriteLastLab,
              PowerUp, Booted, BootCancelled, Bootstrap, EtcdWait, FinalizeInstall, PodsStarted, CloseDone
<1>5. ASSUME NEW q \in Requests, Callbacks(q) PROVE Cut(r)'
  <2>1. UNCHANGED <<phase, podWatch, podsReady, cancelled>>
    BY <1>5 DEF Callbacks, CallbackExit, CallbackTake, CallbackEnable, initVars
  <2>2. cb[r] = "gone" => cb'[r] = "gone" /\ wipeDone'[r] = wipeDone[r]
    BY <1>5 DEF Callbacks, CallbackExit, CallbackTake, CallbackEnable, initVars, IInv, TypeOK
  <2> QED
    BY <2>1, <2>2
<1>6. ASSUME NEW q \in Requests, PodsListed(q) \/ PodWatchExit(q) PROVE Cut(r)'
  <2>1. UNCHANGED <<phase, cb, wipeDone, cancelled>>
    BY <1>6 DEF PodsListed, PodWatchExit, cbVars
  <2>2. podWatch[r] = "gone" => podWatch'[r] = "gone" /\ podsReady'[r] = podsReady[r]
    BY <1>6 DEF PodsListed, PodWatchExit, IInv, TypeOK
  <2> QED
    BY <2>1, <2>2
<1> QED
  BY <1>3, <1>4, <1>5, <1>6, OnlyLabSteps

OnlyLab(r) == Active(r) /\ \A q \in Requests : ~Handover(q) /\ (Active(q) => q = r)
HeldUp(q, r) == Cut(r) /\ mutex = q

\* An initializer that is cancelled in its disk wipe, or while it waits for the pods, after
\* which its goroutine ends first, is the last: it never ends, no request gets to powering
\* boxes down or starts another one, and one that has taken initializerMutex keeps it.
THEOREM CutIsForGood ==
  ASSUME NEW r \in Requests, NEW q \in Requests
  PROVE  Spec => /\ [](Cut(r) => []OnlyLab(r))
                 /\ [](HeldUp(q, r) => []HeldUp(q, r))
<1>1. IInv /\ Cut(r) /\ [Next]_vars => Cut(r)'
  BY CutKept
<1>2. IInv /\ Cut(r) => OnlyLab(r)
  BY DEF IInv, ActiveHandled, HandoverQuiet, Cut, WipeCut, PodsCut, OnlyLab, Active
<1>3. IInv /\ HeldUp(q, r) /\ [Next]_vars => HeldUp(q, r)'
  <2> SUFFICES ASSUME IInv, Cut(r), mutex = q, [Next]_vars PROVE mutex' = q
    BY <1>1 DEF HeldUp
  <2>1. Active(r) /\ phase[r] # "closed"
    BY DEF Cut, WipeCut, PodsCut, Active
  <2>2. mutex # Nobody
    BY ConstantsAssumption
  <2>3. CASE Initialize(r)
    BY <2>3, InitializeMoves DEF reqVars
  <2>4. CASE UNCHANGED reqVars
    BY <2>4 DEF reqVars
  <2>5. CASE \/ \E p \in Requests, l \in Labs, adopt \in BOOLEAN : Accept(p, l, adopt)
             \/ \E p \in Requests : Adopt(p) \/ Lock(p)
    BY <2>2, <2>5 DEF Accept, Adopt, Lock
  <2>6. PowerRequest => UNCHANGED reqVars
    BY DEF PowerRequest
  <2> QED
    BY <2>1, <2>3, <2>4, <2>5, <2>6, OnlyLabSteps, OthersKeep
<1> QED
  BY <1>1, <1>2, <1>3, IInvAlways, PTL DEF Spec

\* A wait for "all off" that began with a relay that is on is for ever too, unless an
\* operator switches it: the handler and the initializer switch nothing while they wait, and
\* nobody else has the lab.
THEOREM OffMissedIsForGood ==
  ASSUME ~ManualPower, NEW r \in Requests
  PROVE  Spec => [](OffMissed(r) => []OffMissed(r))
<1>1. IInv /\ OffMissed(r) /\ [Next]_vars => OffMissed(r)'
  <2> SUFFICES ASSUME IInv, OffMissed(r), [Next]_vars PROVE OffMissed(r)'
    OBVIOUS
  <2>1. ASSUME UNCHANGED relay, UNCHANGED seen \/ seen' = relay,
               (pc[r] = "waitoff" /\ pc'[r] = pc[r]) \/ (phase[r] = "wipeoff" /\ phase'[r] = phase[r])
        PROVE  OffMissed(r)'
    BY <2>1 DEF OffMissed
  <2>2. CASE \/ \E q \in Requests : Callbacks(q) \/ PodsListed(q) \/ PodWatchExit(q)
             \/ \E b \in Boxes : BoxBoots(b) \/ WipeCallback(b)
             \/ ResetRequest \/ Poll \/ UNCHANGED vars
    <3>1. UNCHANGED <<pc, phase>> /\ UNCHANGED relay
      BY <2>2, OthersKeep DEF reqVars
    <3>2. UNCHANGED seen \/ seen' = relay
      BY <2>2 DEF Callbacks, CallbackExit, CallbackTake, CallbackEnable, PodsListed, PodWatchExit, BoxBoots, WipeCallback,
                  ResetRequest, Poll, vars, hwVars
    <3> QED
      BY <2>1, <3>1, <3>2 DEF OffMissed
  <2>3. CASE \/ \E q \in Requests, l \in Labs, adopt \in BOOLEAN : Accept(q, l, adopt)
             \/ \E q \in Requests : Adopt(q) \/ Lock(q)
    <3>1. UNCHANGED <<relay, seen, phase>>
      BY <2>3 DEF Accept, Adopt, Lock, initVars, hwVars
    <3>2. pc[r] = "waitoff" => pc'[r] = pc[r]
      BY <2>3 DEF Accept, Adopt, Lock, Goto, IInv, TypeOK
    <3> QED
      BY <2>1, <3>1, <3>2 DEF OffMissed
  <2>4. ~PowerRequest
    BY DEF PowerRequest
  <2>5. CASE pc[r] = "waitoff"
    <3>1. mutex = r /\ \A q \in Requests : ~Active(q)
      BY <2>5 DEF IInv, MutexOwned, HandoverQuiet, InCritical, Handover
    <3>2. \A q \in Requests : ~Initialize(q)
      BY <3>1, InitializeMoves
    <3>3. \A q \in Requests : Handler(q) => Adopt(q) \/ Lock(q)
      <4> SUFFICES ASSUME NEW q \in Requests, Handler(q), ~Adopt(q), ~Lock(q) PROVE FALSE
        OBVIOUS
      <4>1. InCritical(q)
        BY DEF Handler, Await, EnableLab, EnsureDown, WaitOff, NetworkUp, Reset, Spawn, InCritical, Handover
      <4>2. q = r
        BY <3>1, <4>1 DEF IInv, MutexOwned
      <4> QED
        BY <2>5, <4>2 DEF Handler, Await, EnableLab, EnsureDown, WaitOff, NetworkUp, Reset, Spawn, PortIsOff, OffMissed
    <3> QED
      BY <2>2, <2>3, <2>4, <3>2, <3>3 DEF Next
  <2>6. CASE phase[r] = "wipeoff"
    <3>1. Active(r)
      BY <2>6 DEF Active
    <3>2. ~Initialize(r)
      BY <2>6 DEF Initialize, Step, Begin, EnableDiskWipe, WipePowerOn, SecretGen, DiskWiped, WipedAndOff, WriteLastLab,
                  PowerUp, Booted, BootCancelled, Bootstrap, EtcdWait, FinalizeInstall, PodsStarted, CloseDone,
                  PortIsOff, OffMissed
    <3> QED
      BY <2>2, <2>3, <2>4, <2>6, <3>1, <3>2, OnlyLabSteps
  <2> QED
    BY <2>5, <2>6 DEF OffMissed
<1> QED
  BY <1>1, IInvAlways, PTL DEF Spec

=============================================================================
