---------------------------- MODULE InitLoopProofs ----------------------------
(***************************************************************************)
(* Initialize and the port updates that reach it are well typed; a checked *)
(* update fits, every endpoint is counted once and only if it has answered *)
(* since the boxes were powered up, and none is lost silently.  For any    *)
(* boxes, machines and capacity and any number of runs.                    *)
(***************************************************************************)
EXTENDS InitLoop, FiniteSetTheorems, TLAPS

----------------------------------------------------------------------------
\* Type correctness, and where the sets of watchers may stand.

Stages ==
  /\ \A r \in Runs : r > run => /\ watcher[r] = "none" /\ loop[r] = "none"
                                /\ known[r] = {} /\ seen[r] = {} /\ sending[r] = {}
  /\ \A r \in Runs : watcher[r] = "first" => known[r] = {} /\ seen[r] = {} /\ sending[r] = {}
  /\ discards \subseteq 1..run /\ (run \in discards => phase = "done")
  /\ run = 0 <=> phase = "none"

Inv == TypeOK /\ Stages

LEMMA Facts ==
  /\ Runs \subseteq Nat /\ MaxRuns \in Nat /\ Cap \in Nat \ {0} /\ MaxFlaps \in Nat
  /\ \A r \in Runs : 1 \in Runs /\ None \in Update
  /\ \A r \in 0..MaxRuns : r > 0 => r \in Runs
  /\ VMs \subseteq Endpoints /\ Hyps \subseteq Endpoints /\ Boxes \subseteq Endpoints /\ Nodes \subseteq Endpoints
  /\ \A h \in Hyps : VMsOf[h] \in Seq(VMs)
BY ConstantsAssumption DEF Runs, None, Update, Endpoints, Boxes, Nodes

LEMMA UpsType == TypeOK => \A u \in Update : Ups(u) \subseteq Endpoints
BY DEF TypeOK, Update, Ups

LEMMA InitInv == Init => Inv
<1> SUFFICES ASSUME Init PROVE Inv
  OBVIOUS
<1> USE Facts DEF Init
<1>1. << >> \in Seq(Update) /\ << >> \in Seq(VMs) /\ Len(<< >>) = 0
  OBVIOUS
<1>2. TypeOK
  <2>1. /\ run \in 0..MaxRuns /\ phase = "none" /\ powered = FALSE /\ up = {} /\ machines = {}
        /\ flaps \in 0..MaxFlaps /\ queue \in Seq(Update) /\ Len(queue) <= Cap
        /\ current = {} /\ todo = {} /\ discards = {} /\ arrived = {} /\ leak = FALSE /\ lost = FALSE
    BY <1>1
  <2>2. /\ known \in [Runs -> SUBSET Endpoints] /\ sending \in [Runs -> SUBSET Endpoints]
        /\ seen \in [Runs -> SUBSET Endpoints] /\ held \in [Runs -> Update]
    OBVIOUS
  <2>3. /\ watcher \in [Runs -> {"none", "first", "select", "send", "gone"}]
        /\ loop \in [Runs -> {"none", "select", "check", "push", "gone"}]
    OBVIOUS
  <2>4. counts \in [hyps : Nat, nodes : Nat] /\ starting \in [Hyps -> Seq(VMs)] /\ starts \in [Hyps -> Nat]
    BY <1>1
  <2> QED
    BY <2>1, <2>2, <2>3, <2>4 DEF TypeOK
<1>3. Stages
  BY DEF Stages
<1> QED
  BY <1>2, <1>3 DEF Inv

LEMMA WatcherInv ==
  ASSUME Inv, NEW r \in Runs,
         \/ \E e \in Endpoints : Dial(r, e) \/ Report(r, e)
         \/ WatcherExit(r) \/ WatcherSend(r)
  PROVE  Inv'
<1> USE Facts DEF Inv
<1>1. ASSUME NEW e \in Endpoints, Dial(r, e)
      PROVE  Inv'
  <2>1. TypeOK'
    BY <1>1 DEF Dial, TypeOK, boxVars, loopVars, countVars, startVars, history
  <2>2. Stages'
    BY <1>1 DEF Dial, Stages, TypeOK, loopVars
  <2> QED
    BY <2>1, <2>2
<1>2. ASSUME NEW e \in Endpoints, Report(r, e)
      PROVE  Inv'
  <2>1. TypeOK'
    BY <1>2 DEF Report, WatcherGoto, TypeOK, boxVars, loopVars, countVars, startVars, history
  <2>2. Stages'
    BY <1>2 DEF Report, WatcherGoto, Stages, TypeOK, loopVars
  <2> QED
    BY <2>1, <2>2
<1>3. CASE WatcherExit(r)
  <2>1. TypeOK'
    BY <1>3 DEF WatcherExit, WatcherGoto, TypeOK, boxVars, loopVars, countVars, startVars, history
  <2>2. Stages'
    BY <1>3 DEF WatcherExit, WatcherGoto, Stages, TypeOK, loopVars
  <2> QED
    BY <2>1, <2>2
<1>4. CASE WatcherSend(r)
  <2>1. [set |-> r, own |-> watcher[r] = "first", ups |-> seen[r]] \in Update
    BY DEF TypeOK, Update
  <2>2. held' \in [Runs -> Update]
    BY <1>4, <2>1 DEF WatcherSend, TypeOK
  <2>3. TypeOK'
    BY <1>4, <2>2 DEF WatcherSend, WatcherGoto, LoopGoto, TypeOK, boxVars, countVars, startVars, history
  <2>4. Stages'
    BY <1>4 DEF WatcherSend, WatcherGoto, LoopGoto, Stages, TypeOK
  <2> QED
    BY <2>3, <2>4
<1> QED
  BY <1>1, <1>2, <1>3, <1>4

LEMMA LoopInv ==
  ASSUME Inv, NEW r \in Runs, LoopCheck(r) \/ LoopPush(r) \/ LoopExit(r) \/ Discard(r) \/ DiscardExit(r)
  PROVE  Inv'
<1> USE Facts DEF Inv
<1>1. queue \in Seq(Update) /\ Len(queue) <= Cap /\ held[r] \in Update
  BY DEF TypeOK
<1>2. CASE LoopCheck(r)
  <2>1. TypeOK'
    <3>1. loop' \in [Runs -> {"none", "select", "check", "push", "gone"}] /\ lost' \in BOOLEAN
      BY <1>2 DEF LoopCheck, LoopGoto, TypeOK, history
    <3>2. held' \in [Runs -> Update]
      BY <1>2 DEF LoopCheck, TypeOK
    <3>3. UNCHANGED <<run, phase, boxVars, watchVars, queue, countVars, startVars, discards, arrived, leak>>
      BY <1>2 DEF LoopCheck
    <3> QED
      BY <3>1, <3>2, <3>3 DEF TypeOK, boxVars, watchVars, countVars, startVars
  <2>2. Stages'
    BY <1>2 DEF LoopCheck, LoopGoto, Stages, TypeOK, watchVars
  <2> QED
    BY <2>1, <2>2
<1>3. CASE LoopPush(r)
  <2>1. queue' \in Seq(Update) /\ Len(queue') <= Cap
    BY <1>1, <1>3 DEF LoopPush
  <2>2. TypeOK'
    BY <1>3, <2>1 DEF LoopPush, LoopGoto, TypeOK, boxVars, watchVars, countVars, startVars, history
  <2>3. Stages'
    BY <1>3 DEF LoopPush, LoopGoto, Stages, TypeOK, watchVars
  <2> QED
    BY <2>2, <2>3
<1>4. CASE LoopExit(r)
  <2>1. TypeOK'
    BY <1>4 DEF LoopExit, LoopGoto, TypeOK, boxVars, watchVars, countVars, startVars, history
  <2>2. Stages'
    BY <1>4 DEF LoopExit, LoopGoto, Stages, TypeOK, watchVars
  <2> QED
    BY <2>1, <2>2
<1>5. CASE Discard(r)
  <2>1. queue' \in Seq(Update) /\ Len(queue') <= Cap
    BY <1>1, <1>5 DEF Discard
  <2>2. TypeOK'
    BY <1>5, <2>1 DEF Discard, TypeOK, boxVars, watchVars, loopVars, countVars, startVars, history
  <2>3. Stages'
    BY <1>5 DEF Discard, Stages, watchVars, loopVars
  <2> QED
    BY <2>2, <2>3
<1>6. CASE DiscardExit(r)
  <2>1. TypeOK'
    BY <1>6 DEF DiscardExit, TypeOK, boxVars, watchVars, loopVars, countVars, startVars, history
  <2>2. Stages'
    BY <1>6 DEF DiscardExit, Stages, watchVars, loopVars
  <2> QED
    BY <2>1, <2>2
<1> QED
  BY <1>2, <1>3, <1>4, <1>5, <1>6

LEMMA Finite ==
  /\ IsFiniteSet(Hyps) /\ IsFiniteSet(Nodes)
  /\ \A S \in SUBSET Endpoints : Cardinality(S \cap Hyps) \in Nat /\ Cardinality(S \cap Nodes) \in Nat
<1>1. IsFiniteSet(Hyps) /\ IsFiniteSet(Nodes)
  BY ConstantsAssumption, FS_Union DEF Nodes
<1>2. \A S \in SUBSET Endpoints : IsFiniteSet(S \cap Hyps) /\ IsFiniteSet(S \cap Nodes)
  BY <1>1, FS_Subset
<1> QED
  BY <1>1, <1>2, FS_CardinalityType

LEMMA InitializeInv ==
  ASSUME Inv, StartRun \/ Initialize
  PROVE  Inv'
<1> USE Facts DEF Inv
<1>1. queue \in Seq(Update) /\ Len(queue) <= Cap
  BY DEF TypeOK
<1>2. Forget => /\ current' \subseteq Endpoints /\ todo' \subseteq Endpoints /\ counts' \in [hyps : Nat, nodes : Nat]
                /\ starting' \in [Hyps -> Seq(VMs)] /\ starts' \in [Hyps -> Nat]
  BY DEF Forget
<1>3. CASE StartRun
  <2>1. run + 1 \in Runs /\ run' = run + 1
    BY <1>3 DEF StartRun, TypeOK, Runs
  <2>2. TypeOK'
    <3>1. /\ run' \in 0..MaxRuns /\ phase' = "start" /\ powered' = FALSE /\ up' = {} /\ machines' = {}
          /\ arrived' = {} /\ leak' = FALSE /\ lost' = FALSE
          /\ UNCHANGED <<flaps, known, sending, seen, held, queue, discards>> /\ Forget
      BY <1>3, <2>1 DEF StartRun, Runs
    <3>2. discards' \subseteq Runs
      BY <3>1 DEF TypeOK
    <3>3. /\ watcher' \in [Runs -> {"none", "first", "select", "send", "gone"}]
          /\ loop' \in [Runs -> {"none", "select", "check", "push", "gone"}]
      BY <1>3 DEF StartRun, TypeOK
    <3> QED
      BY <1>2, <3>1, <3>2, <3>3 DEF TypeOK
  <2>3. /\ watcher' = [watcher EXCEPT ![run + 1] = "first"] /\ loop' = [loop EXCEPT ![run + 1] = "select"]
        /\ UNCHANGED <<known, seen, sending, discards>> /\ phase' = "start"
    BY <1>3 DEF StartRun
  <2>4. \A q \in Runs : q # run + 1 => watcher'[q] = watcher[q] /\ loop'[q] = loop[q]
    BY <2>3 DEF TypeOK
  <2>5. known[run + 1] = {} /\ seen[run + 1] = {} /\ sending[run + 1] = {}
    BY <2>1 DEF Stages, TypeOK
  <2>6. run \in Nat /\ run' # 0 /\ run' \notin discards /\ discards \subseteq 1..run'
    BY <2>1 DEF Stages, TypeOK
  <2>7. \A q \in Runs : q > run' => q > run /\ q # run + 1
    BY <2>1, <2>6
  <2> QED
    BY <2>1, <2>2, <2>3, <2>4, <2>5, <2>6, <2>7 DEF Stages
<1>4. CASE Drain \/ Generated \/ WipeDone \/ DrainAgain \/ PowerUp
  <2>1. TypeOK'
    <3>1. << >> \in Seq(Update) /\ Len(<< >>) <= Cap
      OBVIOUS
    <3>2. CASE Drain
      <4>1. leak' \in BOOLEAN /\ (run \in WipeRuns) \in BOOLEAN
        BY <3>2 DEF Drain
      <4> QED
        BY <3>1, <3>2, <4>1 DEF Drain, TypeOK, watchVars, loopVars, startVars
    <3>3. CASE Generated
      BY <3>3 DEF Generated, TypeOK, boxVars, watchVars, loopVars, countVars, startVars
    <3>4. CASE WipeDone
      BY <3>4 DEF WipeDone, TypeOK, watchVars, loopVars, countVars, startVars, history
    <3>5. CASE DrainAgain
      <4>1. leak' \in BOOLEAN
        BY <3>5 DEF DrainAgain
      <4> QED
        BY <3>1, <3>5, <4>1 DEF DrainAgain, TypeOK, boxVars, watchVars, loopVars, countVars, startVars
    <3>6. CASE PowerUp
      BY <3>6 DEF PowerUp, TypeOK, watchVars, loopVars, countVars, startVars
    <3> QED
      BY <1>4, <3>2, <3>3, <3>4, <3>5, <3>6
  <2>2. Stages'
    BY <1>4 DEF Drain, Generated, WipeDone, DrainAgain, PowerUp, Stages, watchVars, loopVars
  <2> QED
    BY <2>1, <2>2
<1>5. CASE TakeUpdate
  <2> DEFINE ups == Ups(Head(queue))
             new == (ups \ current) \cap todo
  <2>1. Head(queue) \in Update /\ queue' \in Seq(Update) /\ Len(queue') <= Cap
    BY <1>1, <1>5 DEF TakeUpdate
  <2>2. ups \subseteq Endpoints /\ new \in SUBSET Endpoints
    BY <2>1, UpsType DEF TypeOK
  <2>3. Cardinality(new \cap Hyps) \in Nat /\ Cardinality(new \cap Nodes) \in Nat
    BY <2>2, Finite
  <2>4. counts' = [hyps |-> counts.hyps + Cardinality(new \cap Hyps), nodes |-> counts.nodes + Cardinality(new \cap Nodes)]
    BY <1>5 DEF TakeUpdate
  <2>5. counts' \in [hyps : Nat, nodes : Nat]
    BY <2>3, <2>4 DEF TypeOK
  <2>6. /\ current' \subseteq Endpoints /\ todo' \subseteq Endpoints
        /\ starting' \in [Hyps -> Seq(VMs)] /\ starts' \in [Hyps -> Nat]
    BY <1>5, <2>2 DEF TakeUpdate, TypeOK
  <2>7. phase' \in {"loop", "done"} /\ run \in Runs /\ UNCHANGED <<run, boxVars, watchVars, loopVars, history>>
        /\ discards' = IF phase' = "done" THEN discards \cup {run} ELSE discards
    BY <1>5 DEF TakeUpdate, Stages, TypeOK
  <2>8. TypeOK'
    BY <2>1, <2>5, <2>6, <2>7 DEF TypeOK, boxVars, watchVars, loopVars, history
  <2>9. Stages'
    BY <1>5, <2>7 DEF TakeUpdate, Stages, watchVars, loopVars
  <2> QED
    BY <2>8, <2>9
<1>6. CASE GiveUp
  <2>1. TypeOK'
    BY <1>2, <1>6 DEF GiveUp, TypeOK, boxVars, watchVars, loopVars, history
  <2>2. Stages'
    BY <1>6 DEF GiveUp, Stages, watchVars, loopVars
  <2> QED
    BY <2>1, <2>2
<1> QED
  BY <1>3, <1>4, <1>5, <1>6 DEF Initialize

LEMMA BoxInv ==
  ASSUME Inv,
         \/ \E h \in Hyps : VMStarted(h) \/ VMRetried(h)
         \/ \E e \in Endpoints : ComesUp(e) \/ GoesDown(e)
  PROVE  Inv'
<1> USE Facts DEF Inv
<1>1. Stages'
  BY DEF VMStarted, VMRetried, ComesUp, GoesDown, Stages, watchVars, loopVars
<1>2. ASSUME NEW h \in Hyps, VMStarted(h) \/ VMRetried(h)
      PROVE  TypeOK'
  <2>1. starting[h] \in Seq(VMs) /\ starting[h] # << >> /\ Head(starting[h]) \in VMs /\ Tail(starting[h]) \in Seq(VMs)
    BY <1>2 DEF VMStarted, VMRetried, Attempt, TypeOK
  <2>2. machines' \subseteq VMs /\ up' \subseteq Endpoints
    BY <1>2, <2>1 DEF VMStarted, VMRetried, Attempt, TypeOK
  <2>3. starting' \in [Hyps -> Seq(VMs)] /\ starts' \in [Hyps -> Nat]
    BY <1>2, <2>1 DEF VMStarted, VMRetried, TypeOK, startVars
  <2>4. UNCHANGED <<run, phase, powered, flaps, watchVars, loopVars, queue, countVars, discards, history>>
    BY <1>2 DEF VMStarted, VMRetried
  <2> QED
    BY <2>2, <2>3, <2>4 DEF TypeOK, watchVars, loopVars, countVars, history
<1>3. ASSUME NEW e \in Endpoints, ComesUp(e)
      PROVE  TypeOK'
  BY <1>3 DEF ComesUp, TypeOK, watchVars, loopVars, countVars, startVars
<1>4. ASSUME NEW e \in Endpoints, GoesDown(e)
      PROVE  TypeOK'
  <2>1. flaps' \in 0..MaxFlaps /\ up' \subseteq Endpoints /\ machines' \subseteq VMs
    BY <1>4 DEF GoesDown, TypeOK
  <2> QED
    BY <1>4, <2>1 DEF GoesDown, TypeOK, watchVars, loopVars, countVars, startVars, history
<1> QED
  BY <1>1, <1>2, <1>3, <1>4

LEMMA InvHolds == Spec => []Inv
<1>1. Inv /\ [Next]_vars => Inv'
  <2> SUFFICES ASSUME Inv, [Next]_vars PROVE Inv'
    OBVIOUS
  <2>1. CASE UNCHANGED vars
    BY <2>1 DEF vars, boxVars, watchVars, loopVars, countVars, startVars, history, Inv, TypeOK, Stages
  <2>2. CASE Next
    BY <2>2, WatcherInv, LoopInv, InitializeInv, BoxInv DEF Next, Pipeline
  <2> QED
    BY <2>1, <2>2
<1> QED
  BY <1>1, InitInv, PTL DEF Spec

\* Every variable keeps its type: nothing but an endpoint is ever reported or counted,
\* and the initializer's channel holds no more than its capacity.
THEOREM TypeCorrect == Spec => []TypeOK
BY InvHolds, PTL DEF Inv

----------------------------------------------------------------------------
\* Room in the channel.

LEMMA SubsetOfRuns ==
  ASSUME NEW n \in Nat, NEW P \in SUBSET (1..n)
  PROVE  IsFiniteSet(P) /\ Cardinality(P) \in Nat /\ Cardinality(P) <= n
<1>1. IsFiniteSet(1..n) /\ Cardinality(1..n) = n
  BY FS_Interval
<1> QED
  BY <1>1, FS_Subset, FS_CardinalityType

LEMMA FitKept ==
  ASSUME Inv, Inv', PushesFit, [Next]_vars
  PROVE  PushesFit'
<1> USE DEF Inv
<1>1. /\ run \in Nat /\ Cap \in Nat /\ queue \in Seq(Update) /\ Len(queue) <= Cap
      /\ Cardinality(Pushing) \in Nat /\ Cardinality(Pushing) <= run /\ IsFiniteSet(Pushing)
  <2>1. run \in Nat /\ Pushing \in SUBSET (1..run)
    BY DEF TypeOK, Stages, Pushing, Runs
  <2> QED
    BY <2>1, Facts, SubsetOfRuns DEF TypeOK
<1>2. /\ run' \in Nat /\ Len(queue') \in Nat
      /\ Cardinality(Pushing') \in Nat /\ Cardinality(Pushing') <= run'
  <2>1. run' \in Nat /\ Pushing' \in SUBSET (1..run') /\ queue' \in Seq(Update)
    BY DEF TypeOK, Stages, Pushing, Runs
  <2> QED
    BY <2>1, SubsetOfRuns
<1>3. ASSUME Pushing' = Pushing, run' = run, Len(queue') <= Len(queue)
      PROVE  PushesFit'
  BY <1>1, <1>2, <1>3 DEF PushesFit
<1>4. ASSUME UNCHANGED <<run, queue>>, NEW r \in Runs, NEW label \in {"select", "check", "gone"},
             loop' = [loop EXCEPT ![r] = label], loop[r] # "push"
      PROVE  PushesFit'
  <2>1. Pushing' = Pushing
    BY <1>4 DEF Pushing, TypeOK
  <2> QED
    BY <1>1, <1>3, <1>4, <2>1
<1>5. ASSUME NEW r \in Runs, LoopCheck(r)
      PROVE  PushesFit'
  <2>1. CASE Len(queue) = Cap
    BY <1>1, <1>4, <1>5, <2>1 DEF LoopCheck, LoopGoto
  <2>2. CASE Len(queue) < Cap
    BY <1>1, <1>2, <1>5, <2>2 DEF LoopCheck, PushesFit
  <2> QED
    BY <1>1, <2>1, <2>2
<1>6. ASSUME NEW r \in Runs, LoopPush(r)
      PROVE  PushesFit'
  <2>1. r \in Pushing /\ Pushing' = Pushing \ {r} /\ run' = run
    BY <1>6 DEF LoopPush, LoopGoto, Pushing, TypeOK
  <2>2. Cardinality(Pushing') = Cardinality(Pushing) - 1
    BY <1>1, <2>1, FS_RemoveElement
  <2>3. Len(queue') = Len(queue) + 1
    BY <1>1, <1>6 DEF LoopPush, TypeOK
  <2> QED
    BY <1>1, <2>1, <2>2, <2>3 DEF PushesFit
<1>7. CASE StartRun
  <2>1. run + 1 \in Runs /\ run' = run + 1 /\ queue' = queue
    BY <1>7 DEF StartRun, TypeOK, Runs
  <2>2. loop[run + 1] = "none"
    BY <1>1, <2>1 DEF Stages
  <2>3. Pushing' = Pushing
    BY <1>7, <2>2 DEF StartRun, Pushing, TypeOK
  <2> QED
    BY <1>1, <2>1, <2>3 DEF PushesFit
<1>8. ASSUME UNCHANGED <<run, loop>>, Len(queue') <= Len(queue)
      PROVE  PushesFit'
  BY <1>3, <1>8 DEF Pushing
<1>9. ASSUME NEW r \in Runs, WatcherSend(r) \/ LoopExit(r)
      PROVE  PushesFit'
  BY <1>4, <1>9 DEF WatcherSend, LoopExit, LoopGoto
<1>10. CASE Drain \/ DrainAgain
  <2>1. queue' = << >> /\ UNCHANGED <<run, loop>>
    BY <1>10 DEF Drain, DrainAgain, loopVars
  <2>2. Len(<< >>) = 0
    OBVIOUS
  <2>3. Len(queue') = 0
    BY <2>1, <2>2, Zenon
  <2>4. Len(queue') <= Len(queue)
    BY <1>1, <2>3
  <2> QED
    BY <1>8, <2>1, <2>4
<1>11. CASE TakeUpdate \/ \E r \in Runs : Discard(r)
  <2>1. queue # << >> /\ queue' = Tail(queue) /\ UNCHANGED <<run, loop>>
    BY <1>11 DEF TakeUpdate, Discard, loopVars
  <2> QED
    BY <1>1, <1>8, <2>1
<1>12. CASE \/ UNCHANGED vars \/ Generated \/ WipeDone \/ PowerUp \/ GiveUp
            \/ \E r \in Runs : WatcherExit(r) \/ DiscardExit(r) \/ \E e \in Endpoints : Dial(r, e) \/ Report(r, e)
            \/ \E h \in Hyps : VMStarted(h) \/ VMRetried(h)
            \/ \E e \in Endpoints : ComesUp(e) \/ GoesDown(e)
  <2>1. UNCHANGED <<run, loop, queue>>
    BY <1>12 DEF vars, Generated, WipeDone, PowerUp, GiveUp, WatcherExit, DiscardExit, Dial, Report,
                 VMStarted, VMRetried, ComesUp, GoesDown, loopVars
  <2> QED
    BY <1>1, <1>8, <2>1
<1> QED
  BY <1>5, <1>6, <1>7, <1>9, <1>10, <1>11, <1>12 DEF Next, Pipeline, Initialize

\* Although the check for room and the send are not atomic: what was checked fits, but
\* for one update per earlier set of watchers.  With the first set the status loop,
\* which brings the callbacks too, never blocks on the initializer.
THEOREM CheckedFits == Spec => []PushesFit
<1>1. Init => PushesFit
  BY DEF Init, PushesFit
<1>2. Inv /\ Inv' /\ PushesFit /\ [Next]_vars => PushesFit'
  BY FitKept
<1> QED
  BY <1>1, <1>2, InvHolds, PTL DEF Spec

----------------------------------------------------------------------------
\* Counting.

\* Before INITLOOP nothing is counted and everything is waited for.
Prepared ==
  /\ phase \in {"start", "gen", "wipe", "wiped", "ready"} =>
       /\ machines = {} /\ current = {} /\ counts = [hyps |-> 0, nodes |-> 0]
       /\ starts = [h \in Hyps |-> 0]
  /\ phase \in {"gen", "wipe", "wiped", "ready"} => todo = Endpoints
  /\ phase \notin {"loop", "done"} => starting = [h \in Hyps |-> << >>]
  /\ phase \in {"start", "wiped"} => ~powered /\ up = {}
  /\ phase = "gen" /\ run \notin WipeRuns => ~powered /\ up = {}
  /\ phase = "ready" => (~powered /\ up = {}) \/ leak

LEMMA PreparedKept ==
  ASSUME Inv, Prepared, [Next]_vars
  PROVE  Prepared'
<1>1. CASE \/ UNCHANGED vars
           \/ \E r \in Runs : Pipeline(r) \/ WatcherExit(r) \/ LoopExit(r) \/ Discard(r) \/ DiscardExit(r)
  <2>1. UNCHANGED <<run, phase, boxVars, countVars, startVars, leak>>
    BY <1>1 DEF vars, history, Pipeline, Dial, Report, WatcherSend, LoopCheck, LoopPush, WatcherExit, LoopExit,
                Discard, DiscardExit
  <2> QED
    BY <2>1 DEF Prepared, boxVars, countVars, startVars
<1>2. CASE StartRun
  BY <1>2 DEF StartRun, Forget, Prepared
<1>3. CASE Drain
  BY <1>3 DEF Drain, Prepared, startVars
<1>4. CASE Generated
  BY <1>4 DEF Generated, Prepared, boxVars, countVars, startVars
<1>5. CASE WipeDone \/ DrainAgain
  <2>1. CASE WipeDone
    BY <2>1 DEF WipeDone, Prepared, countVars, startVars
  <2>2. CASE DrainAgain
    <3>1. phase = "wiped" /\ phase' = "ready" /\ UNCHANGED <<boxVars, countVars, startVars>>
      BY <2>2 DEF DrainAgain
    <3> QED
      BY <3>1 DEF Prepared, boxVars, countVars, startVars
  <2> QED
    BY <1>5, <2>1, <2>2
<1>6. CASE PowerUp \/ TakeUpdate \/ GiveUp
  BY <1>6 DEF PowerUp, TakeUpdate, GiveUp, Forget, Prepared
<1>7. ASSUME NEW h \in Hyps, VMStarted(h) \/ VMRetried(h)
      PROVE  Prepared'
  <2>1. phase \in {"loop", "done"} /\ phase' = phase
    BY <1>7 DEF VMStarted, VMRetried, Attempt, Prepared
  <2> QED
    BY <2>1 DEF Prepared
<1>8. ASSUME NEW e \in Endpoints, ComesUp(e) \/ GoesDown(e)
      PROVE  Prepared'
  <2>1. /\ UNCHANGED <<run, phase, powered, countVars, startVars, leak>>
        /\ machines' \subseteq machines
    BY <1>8 DEF ComesUp, GoesDown, history
  <2>2. ~powered /\ machines = {} /\ up = {} => up' = {}
    BY <1>8 DEF ComesUp, GoesDown
  <2> QED
    BY <2>1, <2>2 DEF Prepared, countVars, startVars
<1> QED
  BY <1>1, <1>2, <1>3, <1>4, <1>5, <1>6, <1>7, <1>8 DEF Next, Initialize

\* What is counted is what is no longer waited for.
LEMMA CountGrows ==
  ASSUME NEW S, IsFiniteSet(S), S \subseteq Endpoints, NEW T, NEW N \in SUBSET T
  PROVE  Cardinality(S \ (T \ N)) = Cardinality(S \ T) + Cardinality(N \cap S)
<1>1. IsFiniteSet(S \ T) /\ IsFiniteSet(N \cap S)
  BY FS_Subset
<1>2. S \ (T \ N) = (S \ T) \cup (N \cap S) /\ (S \ T) \cap (N \cap S) = {}
  OBVIOUS
<1>3. Cardinality((S \ T) \cup (N \cap S))
        = Cardinality(S \ T) + Cardinality(N \cap S) - Cardinality((S \ T) \cap (N \cap S))
  BY <1>1, FS_Union
<1>4. Cardinality((S \ T) \cap (N \cap S)) = 0
  BY <1>2, FS_EmptySet
<1>5. Cardinality(S \ T) \in Nat /\ Cardinality(N \cap S) \in Nat
  BY <1>1, FS_CardinalityType
<1>6. Cardinality((S \ T) \cup (N \cap S)) = Cardinality(S \ T) + Cardinality(N \cap S)
  BY <1>3, <1>4, <1>5
<1> QED
  BY <1>2, <1>6, Zenon

LEMMA CountedKept ==
  ASSUME Inv, Prepared, CountedOnce, [Next]_vars
  PROVE  CountedOnce'
<1> USE Facts DEF Inv
<1>1. CASE PowerUp
  <2>1. todo' = Endpoints /\ counts' = [hyps |-> 0, nodes |-> 0] /\ starts' = [h \in Hyps |-> 0]
    BY <1>1 DEF PowerUp, Prepared, countVars, startVars
  <2>2. Hyps \ Endpoints = {} /\ Nodes \ Endpoints = {} /\ Cardinality({}) = 0
    BY FS_EmptySet
  <2> QED
    BY <2>1, <2>2 DEF CountedOnce
<1>2. CASE TakeUpdate
  <2> DEFINE ups == Ups(Head(queue))
             new == (ups \ current) \cap todo
  <2>1. /\ todo' = todo \ new /\ phase = "loop"
        /\ counts' = [hyps  |-> counts.hyps + Cardinality(new \cap Hyps),
                      nodes |-> counts.nodes + Cardinality(new \cap Nodes)]
        /\ starts' = [h \in Hyps |-> IF h \in new THEN starts[h] + 1 ELSE starts[h]]
    BY <1>2 DEF TakeUpdate
  <2>2. /\ Cardinality(Hyps \ (todo \ new)) = Cardinality(Hyps \ todo) + Cardinality(new \cap Hyps)
        /\ Cardinality(Nodes \ (todo \ new)) = Cardinality(Nodes \ todo) + Cardinality(new \cap Nodes)
    BY Finite, CountGrows
  <2>3. counts'.hyps = Cardinality(Hyps \ todo') /\ counts'.nodes = Cardinality(Nodes \ todo')
    BY <2>1, <2>2 DEF CountedOnce
  <2>4. ASSUME NEW h \in Hyps
        PROVE  starts'[h] = IF h \in todo' THEN 0 ELSE 1
    <3>1. starts[h] = IF h \in todo THEN 0 ELSE 1
      BY <2>1 DEF CountedOnce
    <3>2. starts'[h] = IF h \in new THEN starts[h] + 1 ELSE starts[h]
      BY <2>1
    <3> QED
      BY <2>1, <3>1, <3>2
  <2> QED
    BY <2>3, <2>4 DEF CountedOnce
<1>3. CASE StartRun \/ Drain \/ Generated \/ WipeDone \/ DrainAgain \/ GiveUp
  BY <1>3 DEF StartRun, Drain, Generated, WipeDone, DrainAgain, GiveUp, CountedOnce
<1>4. CASE \/ UNCHANGED vars
           \/ \E r \in Runs : Pipeline(r) \/ WatcherExit(r) \/ LoopExit(r) \/ Discard(r) \/ DiscardExit(r)
           \/ \E h \in Hyps : VMStarted(h) \/ VMRetried(h)
           \/ \E e \in Endpoints : ComesUp(e) \/ GoesDown(e)
  <2>1. UNCHANGED <<phase, todo, counts, starts>>
    BY <1>4 DEF vars, countVars, startVars, Pipeline, Dial, Report, WatcherSend, LoopCheck, LoopPush, WatcherExit,
                LoopExit, Discard, DiscardExit, VMStarted, VMRetried, ComesUp, GoesDown
  <2> QED
    BY <2>1 DEF CountedOnce
<1> QED
  BY <1>1, <1>2, <1>3, <1>4 DEF Next, Initialize

LEMMA PreparedHolds == Spec => []Prepared
<1>1. Init => Prepared
  BY DEF Init, Prepared
<1>2. Inv /\ Prepared /\ [Next]_vars => Prepared'
  BY PreparedKept
<1> QED
  BY <1>1, <1>2, InvHolds, PTL DEF Spec

\* However often endpoints go up and down and updates repeat or come late: each is
\* counted once, and the machines of each hypervisor are started once.
THEOREM EachCountedOnce == Spec => []CountedOnce
<1>1. Init => CountedOnce
  BY DEF Init, CountedOnce
<1>2. Inv /\ Prepared /\ CountedOnce /\ [Next]_vars => CountedOnce'
  BY CountedKept
<1> QED
  BY <1>1, <1>2, InvHolds, PreparedHolds, PTL DEF Spec

----------------------------------------------------------------------------
\* What is counted has answered.

\* A set of watchers that was replaced has nothing to say, or cannot say it any more.
Quiet(r) ==
  \/ known[r] = {} /\ seen[r] = {}
  \/ watcher[r] \in {"none", "gone"}
  \/ watcher[r] = "select" /\ sending[r] = {}

\* Nothing but endpoints of A is up, or is reported to be.
Reported(A) ==
  /\ up \subseteq A /\ known[run] \subseteq A /\ seen[run] \subseteq A
  /\ \A r \in Runs : r # run => Quiet(r)
  /\ \A r \in Runs : loop[r] \in {"check", "push"} => Ups(held[r]) \subseteq A
  /\ \A i \in DOMAIN queue : Ups(queue[i]) \subseteq A

\* The channel was drained for the last time and nothing was on its way.
Drained == ~leak /\ (phase \in {"ready", "loop", "done"} \/ (phase = "gen" /\ run \notin WipeRuns))

Answered == IF phase \in {"loop", "done"} THEN arrived ELSE {}

Clean == Drained => Reported(Answered) /\ Endpoints \ todo \subseteq Answered

LEMMA ReportedPipeline ==
  ASSUME Inv, NEW A, Reported(A), run \in Runs, NEW r \in Runs,
         Pipeline(r) \/ WatcherExit(r) \/ LoopExit(r) \/ Discard(r) \/ DiscardExit(r)
  PROVE  Reported(A)'
<1> USE DEF Inv
<1>1. /\ queue \in Seq(Update) /\ held \in [Runs -> Update] /\ \A u \in Update : u.set \in Runs
  BY DEF TypeOK, Update
<1>2. UNCHANGED <<run, up>>
  BY DEF Pipeline, Dial, Report, WatcherSend, LoopCheck, LoopPush, WatcherExit, LoopExit, Discard, DiscardExit, boxVars
<1>3. ASSUME UNCHANGED <<known, seen, sending, watcher>>,
             \A q \in Runs : loop'[q] \in {"check", "push"} => loop[q] \in {"check", "push"} /\ held'[q] = held[q],
             \A i \in DOMAIN queue' : (\E j \in DOMAIN queue : queue'[i] = queue[j])
                                      \/ (loop[r] = "push" /\ queue'[i] = held[r])
      PROVE  Reported(A)'
  <2>1. \A u \in Update : Ups(u)' = Ups(u)
    BY <1>3 DEF Ups
  <2>2. \A q \in Runs : loop'[q] \in {"check", "push"} => Ups(held'[q]) \subseteq A
    BY <1>3 DEF Reported
  <2>3. \A i \in DOMAIN queue' : Ups(queue'[i]) \subseteq A
    BY <1>3 DEF Reported
  <2>4. \A u : (Ups(u) \subseteq A) = (IF u.own THEN seen[u.set] \subseteq A ELSE u.ups \subseteq A)
    BY DEF Ups
  <2>5. \A q \in Runs : loop'[q] \in {"check", "push"} => Ups(held[q])' \subseteq A
    BY <1>3, <2>2 DEF Ups
  <2>6. \A i \in DOMAIN queue' : Ups(queue[i])' \subseteq A
    BY <1>3, <2>3 DEF Ups
  <2>7. \A q \in Runs : q # run' => Quiet(q)'
    BY <1>2, <1>3 DEF Reported, Quiet
  <2> QED
    BY <1>2, <1>3, <2>5, <2>6, <2>7 DEF Reported
<1>4. ASSUME NEW e \in Endpoints, Dial(r, e)
      PROVE  Reported(A)'
  <2>1. /\ r = run /\ known' = [known EXCEPT ![r] = IF e \in up THEN @ \cup {e} ELSE @ \ {e}]
        /\ sending' = [sending EXCEPT ![r] = @ \cup {e}] /\ UNCHANGED <<seen, watcher, loop, held, queue>>
    BY <1>4 DEF Dial, loopVars
  <2>2. known'[run] \subseteq A /\ \A q \in Runs : q # run => Quiet(q)'
    BY <2>1 DEF TypeOK, Reported, Quiet
  <2> QED
    BY <1>2, <2>1, <2>2 DEF Reported, Ups
<1>5. ASSUME NEW e \in Endpoints, Report(r, e)
      PROVE  Reported(A)'
  <2>1. /\ watcher[r] = "select" /\ e \in sending[r] /\ UNCHANGED <<known, loop, held, queue>>
        /\ seen'[r] = IF e \in known[r] THEN seen[r] \cup {e} ELSE seen[r] \ {e}
        /\ \A q \in Runs : q # r => seen'[q] = seen[q] /\ watcher'[q] = watcher[q] /\ sending'[q] = sending[q]
    BY <1>5 DEF Report, WatcherGoto, TypeOK, loopVars
  <2>2. r # run => known[r] = {} /\ seen[r] = {} /\ seen'[r] = {}
    BY <2>1 DEF Reported, Quiet
  <2>3. seen'[r] \subseteq A
    BY <2>1, <2>2 DEF Reported
  <2>4. \A q \in Runs : q # run => Quiet(q)'
    BY <2>1, <2>2 DEF Reported, Quiet
  <2>5. ASSUME NEW u \in Update, Ups(u) \subseteq A
        PROVE  (IF u.own THEN seen'[u.set] ELSE u.ups) \subseteq A
    BY <1>1, <2>1, <2>3, <2>5 DEF Ups
  <2>6. \A q \in Runs : loop'[q] \in {"check", "push"} => Ups(held[q])' \subseteq A
    BY <1>1, <2>1, <2>5 DEF Reported, Ups
  <2>7. \A i \in DOMAIN queue' : Ups(queue[i])' \subseteq A
    BY <1>1, <2>1, <2>5 DEF Reported, Ups
  <2>8. known'[run] \subseteq A /\ seen'[run] \subseteq A
    BY <2>1, <2>3 DEF Reported
  <2> QED
    BY <1>2, <2>4, <2>6, <2>7, <2>8 DEF Reported
<1>6. CASE WatcherExit(r)
  <2>1. /\ r # run /\ UNCHANGED <<seen, loop, held, queue>> /\ watcher'[r] = "gone"
        /\ \A q \in Runs : q # r => known'[q] = known[q] /\ watcher'[q] = watcher[q] /\ sending'[q] = sending[q]
    BY <1>6 DEF WatcherExit, WatcherGoto, Cancelled, TypeOK, loopVars
  <2>2. \A q \in Runs : q # run => Quiet(q)'
    BY <2>1 DEF Reported, Quiet
  <2> QED
    BY <1>2, <2>1, <2>2 DEF Reported, Ups
<1>7. CASE WatcherSend(r)
  <2>1. /\ watcher[r] \in {"first", "send"} /\ UNCHANGED <<known, sending, seen, queue>>
        /\ held'[r] = [set |-> r, own |-> watcher[r] = "first", ups |-> seen[r]]
        /\ \A q \in Runs : q # r => held'[q] = held[q] /\ watcher'[q] = watcher[q] /\ loop'[q] = loop[q]
    BY <1>7 DEF WatcherSend, WatcherGoto, LoopGoto, TypeOK
  <2>2. r # run => known[r] = {} /\ seen[r] = {}
    BY <2>1 DEF Reported, Quiet
  <2>3. Ups(held[r])' = seen[r] /\ seen[r] \subseteq A
    BY <2>1, <2>2 DEF Ups, Reported
  <2>4. \A q \in Runs : q # run => Quiet(q)'
    BY <2>1, <2>2 DEF Reported, Quiet
  <2>5. \A q \in Runs : loop'[q] \in {"check", "push"} => Ups(held[q])' \subseteq A
    BY <2>1, <2>3 DEF Reported, Ups
  <2>6. \A i \in DOMAIN queue' : Ups(queue[i])' \subseteq A
    BY <2>1 DEF Reported, Ups
  <2> QED
    BY <1>2, <2>1, <2>4, <2>5, <2>6 DEF Reported
<1>8. CASE LoopCheck(r) \/ LoopExit(r) \/ DiscardExit(r)
  <2>1. UNCHANGED <<known, seen, sending, watcher, queue>>
    BY <1>8 DEF LoopCheck, LoopExit, DiscardExit, watchVars
  <2>2. \A q \in Runs : loop'[q] \in {"check", "push"} => loop[q] \in {"check", "push"} /\ held'[q] = held[q]
    BY <1>8 DEF LoopCheck, LoopExit, DiscardExit, LoopGoto, TypeOK, loopVars
  <2> QED
    BY <1>3, <2>1, <2>2
<1>9. CASE LoopPush(r)
  <2>1. UNCHANGED <<known, seen, sending, watcher>> /\ loop[r] = "push" /\ queue' = Append(queue, held[r])
    BY <1>9 DEF LoopPush, watchVars
  <2>2. \A q \in Runs : loop'[q] \in {"check", "push"} => loop[q] \in {"check", "push"} /\ held'[q] = held[q]
    BY <1>9 DEF LoopPush, LoopGoto, TypeOK
  <2>3. \A i \in DOMAIN queue' : (\E j \in DOMAIN queue : queue'[i] = queue[j]) \/ queue'[i] = held[r]
    BY <1>1, <2>1
  <2> QED
    BY <1>3, <2>1, <2>2, <2>3
<1>10. CASE Discard(r)
  <2>1. UNCHANGED <<known, seen, sending, watcher, loop, held>> /\ queue # << >> /\ queue' = Tail(queue)
    BY <1>10 DEF Discard, watchVars, loopVars
  <2>2. \A i \in DOMAIN queue' : i + 1 \in DOMAIN queue /\ queue'[i] = queue[i + 1]
    BY <1>1, <2>1
  <2> QED
    BY <1>3, <2>1, <2>2
<1> QED
  BY <1>4, <1>5, <1>6, <1>7, <1>8, <1>9, <1>10 DEF Pipeline

LEMMA CleanKept ==
  ASSUME Inv, Prepared, Clean, [Next]_vars
  PROVE  Clean'
<1> USE DEF Inv
<1>1. /\ queue \in Seq(Update) /\ (Drained => run \in Runs)
  BY Facts DEF TypeOK, Stages, Drained
<1>2. ASSUME NEW A, NEW B, Reported(A), A \subseteq B, up' \subseteq B, UNCHANGED <<run, watchVars, loopVars>>,
             \A i \in DOMAIN queue' : \E j \in DOMAIN queue : queue'[i] = queue[j]
      PROVE  Reported(B)'
  <2>1. \A r \in Runs : r # run' => Quiet(r)'
    BY <1>2 DEF Reported, Quiet, watchVars
  <2>2. \A r \in Runs : loop'[r] \in {"check", "push"} => Ups(held[r])' \subseteq B
    BY <1>2 DEF Reported, Ups, watchVars, loopVars
  <2>3. \A i \in DOMAIN queue' : Ups(queue[i])' \subseteq B
    BY <1>2 DEF Reported, Ups, watchVars
  <2> QED
    BY <1>2, <2>1, <2>2, <2>3 DEF Reported, watchVars
<1>3. ASSUME NEW r \in Runs, Pipeline(r) \/ WatcherExit(r) \/ LoopExit(r) \/ Discard(r) \/ DiscardExit(r)
      PROVE  Clean'
  <2>1. UNCHANGED <<run, phase, arrived, leak, todo>>
    BY <1>3 DEF Pipeline, Dial, Report, WatcherSend, LoopCheck, LoopPush, WatcherExit, LoopExit, Discard, DiscardExit,
                countVars, history
  <2>2. Drained' = Drained /\ Answered' = Answered
    BY <2>1 DEF Drained, Answered
  <2>3. ASSUME NEW A, Drained, Reported(A)
        PROVE  Reported(A)'
    BY <1>1, <1>3, <2>3, ReportedPipeline
  <2>4. Drained => (Reported(Answered))'
    BY <2>2, <2>3 DEF Clean, Reported
  <2> QED
    BY <2>1, <2>2, <2>4 DEF Clean
<1>4. CASE StartRun \/ GiveUp \/ WipeDone
  BY <1>4 DEF StartRun, GiveUp, WipeDone, Clean, Drained
<1>5. CASE Drain \/ DrainAgain
  <2>1. /\ queue' = << >> /\ leak' = (\E r \in Runs : OnTheWay(r)) /\ UNCHANGED <<run, watchVars, loopVars, up>>
        /\ todo' = Endpoints /\ up = {} /\ phase' \in {"gen", "ready"} /\ run \in Runs
    <3>1. run \in Runs
      <4>1. phase # "none" /\ run \in 0..MaxRuns
        BY <1>5 DEF Drain, DrainAgain, TypeOK
      <4>2. run # 0
        BY <4>1 DEF Stages
      <4> QED
        BY <4>1, <4>2, Facts
    <3>2. CASE Drain
      BY <3>1, <3>2 DEF Drain, Prepared
    <3>3. CASE DrainAgain
      BY <3>1, <3>3 DEF DrainAgain, Prepared, boxVars, countVars
    <3> QED
      BY <1>5, <3>2, <3>3
  <2> SUFFICES ASSUME Drained' PROVE Reported({})'
    BY <2>1 DEF Clean, Answered, Reported
  <2>2. \A r \in Runs : ~OnTheWay(r)
    BY <2>1 DEF Drained
  <2>3. known[run] = {} /\ seen[run] = {}
    BY <2>1, <2>2 DEF OnTheWay
  <2>4. ASSUME NEW r \in Runs
        PROVE  Quiet(r)
    <3>1. watcher[r] \in {"none", "first", "select", "send", "gone"}
      BY DEF TypeOK
    <3>2. watcher[r] = "first" => known[r] = {} /\ seen[r] = {}
      BY DEF Stages
    <3> QED
      BY <2>2, <3>1, <3>2 DEF OnTheWay, Quiet
  <2>5. \A r \in Runs : loop[r] \in {"check", "push"} => Ups(held[r]) = {}
    BY <2>2 DEF OnTheWay
  <2>6. DOMAIN queue' = {}
    BY <2>1
  <2>7. \A r \in Runs : Quiet(r)' /\ (loop'[r] \in {"check", "push"} => Ups(held[r])' = {})
    BY <2>1, <2>4, <2>5 DEF Quiet, Ups, watchVars, loopVars
  <2> QED
    BY <2>1, <2>3, <2>6, <2>7 DEF Reported, watchVars
<1>6. CASE Generated
  <2>1. UNCHANGED <<run, up, watchVars, loopVars, queue, todo, arrived>> /\ Answered' = {} /\ Answered = {}
    BY <1>6 DEF Generated, boxVars, countVars, Answered
  <2>2. Drained' => Drained
    BY <1>6 DEF Generated, Drained
  <2>3. Drained => Reported({}) /\ Endpoints \ todo \subseteq {}
    BY <2>1 DEF Clean
  <2>4. Drained => Reported({})'
    BY <1>2, <2>1, <2>3 DEF Reported
  <2> QED
    BY <2>1, <2>2, <2>3, <2>4 DEF Clean, Reported
<1>7. CASE PowerUp
  <2>1. UNCHANGED <<run, up, watchVars, loopVars, queue, todo>> /\ Answered' = {} /\ Answered = {}
    BY <1>7 DEF PowerUp, countVars, Answered
  <2>2. Drained' => Drained
    BY <1>7 DEF PowerUp, Drained
  <2>3. Drained => Reported({}) /\ Endpoints \ todo \subseteq {}
    BY <2>1 DEF Clean
  <2>4. Drained => Reported({})'
    BY <1>2, <2>1, <2>3 DEF Reported
  <2> QED
    BY <2>1, <2>2, <2>3, <2>4 DEF Clean, Reported
<1>8. CASE TakeUpdate
  <2> DEFINE new == (Ups(Head(queue)) \ current) \cap todo
  <2>1. /\ queue # << >> /\ queue' = Tail(queue) /\ todo' = todo \ new /\ phase = "loop" /\ phase' \in {"loop", "done"}
        /\ UNCHANGED <<run, up, leak, arrived, watchVars, loopVars>>
    BY <1>8 DEF TakeUpdate, boxVars, history
  <2>2. (Drained /\ Answered = arrived /\ Answered' = arrived) \/ ~Drained'
    BY <2>1 DEF Drained, Answered
  <2>3. \A i \in DOMAIN queue' : i + 1 \in DOMAIN queue /\ queue'[i] = queue[i + 1]
    BY <1>1, <2>1
  <2>4. 1 \in DOMAIN queue /\ Head(queue) = queue[1]
    BY <1>1, <2>1
  <2>5. Drained => Reported(arrived) /\ Endpoints \ todo \subseteq arrived
    BY <2>1 DEF Clean, Answered
  <2>6. Drained => new \subseteq arrived
    BY <2>4, <2>5 DEF Reported
  <2>7. Drained => Reported(arrived)'
    BY <1>2, <2>1, <2>3, <2>5 DEF Reported
  <2> QED
    BY <2>1, <2>2, <2>5, <2>6, <2>7 DEF Clean, Reported
<1>9. CASE \/ UNCHANGED vars
           \/ \E h \in Hyps : VMStarted(h) \/ VMRetried(h)
           \/ \E e \in Endpoints : ComesUp(e) \/ GoesDown(e)
  <2>1. /\ UNCHANGED <<run, phase, watchVars, loopVars, queue, leak, todo>> /\ arrived \subseteq arrived'
        /\ up' \subseteq up \cup (arrived' \ arrived) \/ \E e \in Endpoints : ComesUp(e)
    BY <1>9 DEF vars, boxVars, countVars, history, VMStarted, VMRetried, Attempt, ComesUp, GoesDown
  <2>2. \A e \in Endpoints : ComesUp(e) => up' \subseteq up \cup {e} /\ e \in arrived'
    BY DEF ComesUp
  <2>3. \A e \in Endpoints : ComesUp(e) /\ Drained => phase \in {"loop", "done"}
    BY DEF ComesUp, Drained, Prepared
  <2>4. Drained' = Drained
    BY <2>1 DEF Drained
  <2>5. Answered \subseteq Answered'
    BY <2>1 DEF Answered
  <2>6. Drained => up' \subseteq Answered'
    <3>1. CASE \E e \in Endpoints : ComesUp(e)
      BY <2>1, <2>2, <2>3, <2>5, <3>1 DEF Clean, Reported, Answered
    <3>2. CASE ~(\E e \in Endpoints : ComesUp(e))
      <4>1. up' \subseteq up
        BY <1>9, <3>2 DEF vars, boxVars, VMStarted, VMRetried, Attempt, GoesDown
      <4> QED
        BY <2>5, <4>1 DEF Clean, Reported
    <3> QED
      BY <3>1, <3>2
  <2>7. ASSUME NEW B, B = Answered', Drained
        PROVE  Reported(B)'
    BY <1>2, <2>1, <2>5, <2>6, <2>7 DEF Clean
  <2>8. Drained => (Reported(Answered))'
    BY <2>7 DEF Reported
  <2> QED
    BY <2>1, <2>4, <2>5, <2>8 DEF Clean
<1> QED
  BY <1>3, <1>4, <1>5, <1>6, <1>7, <1>8, <1>9 DEF Next, Initialize

\* Whatever earlier runs left behind: INITLOOP counts only what has answered since the
\* boxes were powered up, unless an update was out of reach of drainChans or the wipe
\* ended before generate.sh did.
THEOREM CountedAnswered == Spec => []CountedHaveArrived
<1>1. Init => Clean
  BY DEF Init, Clean, Drained
<1>2. Inv /\ Prepared /\ Clean /\ [Next]_vars => Clean'
  BY CleanKept
<1>3. Clean => CountedHaveArrived
  BY DEF Clean, Drained, Answered, CountedHaveArrived
<1> QED
  BY <1>1, <1>2, <1>3, InvHolds, PreparedHolds, PTL DEF Spec

----------------------------------------------------------------------------
\* What is known to be up reaches INITLOOP.

\* An update of the current run shows e up, or will.
OnItsWay(e) ==
  \/ e \in sending[run]
  \/ watcher[run] \in {"first", "send"}
  \/ loop[run] \in {"check", "push"} /\ e \in Ups(held[run])
  \/ \E i \in DOMAIN queue : queue[i].set = run /\ e \in Ups(queue[i])

\* A prober that has nothing to report and the watcher's map agree, and each loop holds
\* an update of its own set.
Agreed ==
  /\ run \in Runs => \A e \in Endpoints : e \notin sending[run] => (e \in known[run] <=> e \in seen[run])
  /\ \A r \in Runs : loop[r] \in {"check", "push"} => held[r].set = r
  /\ phase = "loop" => current \cap todo = {}

Waiting == phase \in {"start", "gen", "wipe", "wiped", "ready", "loop"} /\ ~lost

Awaited == Waiting => \A e \in todo \cap up : e \in known[run] => OnItsWay(e)

LEMMA AgreedKept ==
  ASSUME Inv, Prepared, Agreed, [Next]_vars
  PROVE  Agreed'
<1> USE DEF Inv
<1>1. ASSUME UNCHANGED <<run, watchVars, loopVars>>, phase' = "loop" => current' \cap todo' = {}
      PROVE  Agreed'
  BY <1>1 DEF Agreed, watchVars, loopVars
<1>2. ASSUME NEW r \in Runs, NEW e \in Endpoints, Dial(r, e)
      PROVE  Agreed'
  <2>1. /\ r = run /\ UNCHANGED <<run, phase, current, todo, seen, loopVars>>
        /\ e \in sending'[r]
        /\ \A d \in Endpoints : d # e => (d \in known'[r]) = (d \in known[r]) /\ (d \in sending'[r]) = (d \in sending[r])
    BY <1>2 DEF Dial, TypeOK, countVars
  <2> QED
    BY <2>1 DEF Agreed, loopVars
<1>3. ASSUME NEW r \in Runs, NEW e \in Endpoints, Report(r, e)
      PROVE  Agreed'
  <2>1. /\ UNCHANGED <<run, phase, current, todo, known, loopVars>>
        /\ \A q \in Runs : q # r => seen'[q] = seen[q] /\ sending'[q] = sending[q]
        /\ \A d \in Endpoints : d # e => (d \in seen'[r]) = (d \in seen[r]) /\ (d \in sending'[r]) = (d \in sending[r])
        /\ (e \in seen'[r]) = (e \in known[r])
    BY <1>3 DEF Report, TypeOK, countVars
  <2> QED
    BY <2>1 DEF Agreed, loopVars
<1>4. ASSUME NEW r \in Runs, WatcherExit(r)
      PROVE  Agreed'
  <2>1. /\ UNCHANGED <<run, phase, current, todo, seen, loopVars>> /\ r # run
        /\ \A q \in Runs : q # r => known'[q] = known[q] /\ sending'[q] = sending[q]
    BY <1>4 DEF WatcherExit, Cancelled, TypeOK, countVars
  <2> QED
    BY <2>1 DEF Agreed, loopVars
<1>5. ASSUME NEW r \in Runs, WatcherSend(r)
      PROVE  Agreed'
  <2>1. /\ UNCHANGED <<run, phase, current, todo, known, sending, seen>>
        /\ held'[r].set = r /\ \A q \in Runs : q # r => loop'[q] = loop[q] /\ held'[q] = held[q]
    BY <1>5 DEF WatcherSend, LoopGoto, TypeOK, countVars
  <2> QED
    BY <2>1 DEF Agreed
<1>6. ASSUME NEW r \in Runs, LoopCheck(r) \/ LoopPush(r) \/ LoopExit(r)
      PROVE  Agreed'
  <2>1. /\ UNCHANGED <<run, phase, current, todo, watchVars>>
        /\ \A q \in Runs : loop'[q] \in {"check", "push"} => loop[q] \in {"check", "push"} /\ held'[q] = held[q]
    BY <1>6 DEF LoopCheck, LoopPush, LoopExit, LoopGoto, TypeOK, countVars
  <2> QED
    BY <2>1 DEF Agreed, watchVars
<1>7. CASE StartRun
  <2>1. /\ run' = run + 1 /\ run + 1 \in Runs /\ phase' = "start" /\ UNCHANGED <<known, seen, sending, held>>
        /\ \A q \in Runs : loop'[q] \in {"check", "push"} => loop[q] \in {"check", "push"}
    <3>1. run' = run + 1 /\ run + 1 \in Runs
      BY <1>7, Facts DEF StartRun, TypeOK, Runs
    <3>2. phase' = "start" /\ UNCHANGED <<known, seen, sending, held>> /\ loop' = [loop EXCEPT ![run + 1] = "select"]
      BY <1>7 DEF StartRun
    <3> QED
      BY <3>1, <3>2 DEF TypeOK
  <2>2. known[run + 1] = {} /\ seen[run + 1] = {}
    BY <2>1 DEF Stages, TypeOK
  <2> QED
    BY <2>1, <2>2 DEF Agreed
<1>8. CASE Drain \/ Generated \/ WipeDone \/ DrainAgain \/ GiveUp
  BY <1>1, <1>8 DEF Drain, Generated, WipeDone, DrainAgain, GiveUp
<1>9. CASE PowerUp
  BY <1>1, <1>9 DEF PowerUp, Prepared, countVars
<1>10. CASE TakeUpdate
  <2>1. current' \cap todo' = {}
    BY <1>10 DEF TakeUpdate, Agreed
  <2> QED
    BY <1>1, <1>10, <2>1 DEF TakeUpdate
<1>11. CASE \/ UNCHANGED vars
            \/ \E r \in Runs : Discard(r) \/ DiscardExit(r)
            \/ \E h \in Hyps : VMStarted(h) \/ VMRetried(h)
            \/ \E e \in Endpoints : ComesUp(e) \/ GoesDown(e)
  <2>1. UNCHANGED <<run, watchVars, loopVars, phase, current, todo>>
    BY <1>11 DEF vars, countVars, Discard, DiscardExit, VMStarted, VMRetried, ComesUp, GoesDown
  <2> QED
    BY <1>1, <2>1 DEF Agreed
<1> QED
  BY <1>2, <1>3, <1>4, <1>5, <1>6, <1>7, <1>8, <1>9, <1>10, <1>11 DEF Next, Pipeline, Initialize

LEMMA AwaitedPipeline ==
  ASSUME Inv, Agreed, Awaited, run \in Runs, NEW r \in Runs,
         Pipeline(r) \/ WatcherExit(r) \/ LoopExit(r) \/ Discard(r) \/ DiscardExit(r)
  PROVE  Awaited'
<1> USE DEF Inv
<1>1. /\ queue \in Seq(Update) /\ held \in [Runs -> Update] /\ \A u \in Update : u.set \in Runs
      /\ UNCHANGED <<run, phase, up, todo>> /\ todo \subseteq Endpoints
  BY DEF TypeOK, Update, Pipeline, Dial, Report, WatcherSend, LoopCheck, LoopPush, WatcherExit, LoopExit, Discard,
         DiscardExit, boxVars, countVars
<1>2. Waiting' => Waiting
  BY DEF Waiting, Pipeline, Dial, Report, WatcherSend, LoopCheck, LoopPush, WatcherExit, LoopExit, Discard,
         DiscardExit, history
\* A step of another set leaves the updates of this one alone.
<1>3. ASSUME known'[run] = known[run], sending'[run] = sending[run], seen'[run] = seen[run],
             watcher'[run] = watcher[run],
             loop[run] \in {"check", "push"} => loop'[run] \in {"check", "push"} /\ held'[run] = held[run],
             \A i \in DOMAIN queue : i \in DOMAIN queue' /\ queue'[i] = queue[i]
      PROVE  Awaited'
  <2>1. ASSUME NEW u \in Update, u.set = run
        PROVE  (IF u.own THEN seen'[u.set] ELSE u.ups) = Ups(u)
    BY <1>3, <2>1 DEF Ups
  <2>2. loop[run] \in {"check", "push"} => Ups(held[run])' = Ups(held[run])
    BY <1>1, <1>3, <2>1 DEF Agreed, Ups
  <2>3. \A i \in DOMAIN queue : queue[i].set = run =>
          i \in DOMAIN queue' /\ queue'[i].set = run /\ Ups(queue[i])' = Ups(queue[i])
    BY <1>1, <1>3, <2>1 DEF Ups
  <2>4. \A e \in Endpoints : OnItsWay(e) => OnItsWay(e)'
    BY <1>1, <1>3, <2>2, <2>3 DEF OnItsWay
  <2> QED
    BY <1>1, <1>2, <1>3, <2>4 DEF Awaited
<1>4. ASSUME NEW e \in Endpoints, Dial(r, e)
      PROVE  Awaited'
  <2>1. /\ r = run /\ UNCHANGED <<seen, watcher, loop, held, queue>> /\ e \in sending'[run]
        /\ \A d \in Endpoints : d # e => (d \in known'[run]) = (d \in known[run])
        /\ sending[run] \subseteq sending'[run]
    BY <1>4 DEF Dial, TypeOK, loopVars
  <2>2. \A d \in Endpoints : OnItsWay(d) => OnItsWay(d)'
    BY <1>1, <2>1 DEF OnItsWay, Ups
  <2>3. OnItsWay(e)'
    BY <1>1, <2>1 DEF OnItsWay
  <2> QED
    BY <1>1, <1>2, <2>1, <2>2, <2>3 DEF Awaited
<1>5. ASSUME NEW e \in Endpoints, Report(r, e)
      PROVE  Awaited'
  <2>1. CASE r = run
    <3>1. watcher'[run] = "send"
      BY <1>5, <2>1 DEF Report, WatcherGoto, TypeOK
    <3> QED
      BY <1>1, <3>1 DEF Awaited, OnItsWay
  <2>2. CASE r # run
    BY <1>3, <1>5, <2>2 DEF Report, WatcherGoto, TypeOK, loopVars
  <2> QED
    BY <2>1, <2>2
<1>6. CASE WatcherExit(r)
  BY <1>3, <1>6 DEF WatcherExit, WatcherGoto, Cancelled, TypeOK, loopVars
<1>7. CASE WatcherSend(r)
  <2>1. CASE r = run
    <3>1. /\ UNCHANGED <<known, sending, seen>> /\ loop'[run] = "check"
          /\ held'[run] = [set |-> run, own |-> watcher[run] = "first", ups |-> seen[run]]
      BY <1>7, <2>1 DEF WatcherSend, LoopGoto, TypeOK
    <3>2. Ups(held[run])' = seen[run]
      BY <1>1, <3>1 DEF Ups
    <3>3. \A e \in Endpoints : e \in known[run] => OnItsWay(e)'
      BY <1>1, <3>1, <3>2 DEF Agreed, OnItsWay
    <3> QED
      BY <1>1, <3>1, <3>3 DEF Awaited
  <2>2. CASE r # run
    BY <1>3, <1>7, <2>2 DEF WatcherSend, WatcherGoto, LoopGoto, TypeOK
  <2> QED
    BY <2>1, <2>2
<1>8. CASE LoopCheck(r)
  <2>1. CASE Len(queue) = Cap
    <3>1. lost'
      BY <1>1, <1>8, <2>1 DEF LoopCheck
    <3> QED
      BY <3>1 DEF Awaited, Waiting
  <2>2. CASE Len(queue) # Cap
    <3>1. UNCHANGED <<watchVars, held, queue>> /\ loop[r] = "check" /\ loop' = [loop EXCEPT ![r] = "push"]
      BY <1>8, <2>2 DEF LoopCheck, LoopGoto
    <3> QED
      BY <1>3, <3>1 DEF TypeOK, watchVars
  <2> QED
    BY <2>1, <2>2
<1>9. CASE LoopPush(r)
  <2>1. /\ UNCHANGED watchVars /\ loop[r] = "push" /\ queue' = Append(queue, held[r])
        /\ \A q \in Runs : q # r => loop'[q] = loop[q] /\ held'[q] = held[q]
    BY <1>9 DEF LoopPush, LoopGoto, TypeOK
  <2>2. /\ \A i \in DOMAIN queue : i \in DOMAIN queue' /\ queue'[i] = queue[i]
        /\ \E i \in DOMAIN queue' : queue'[i] = held[r]
    BY <1>1, <2>1
  <2>3. CASE r # run
    BY <1>3, <2>1, <2>2, <2>3 DEF watchVars
  <2>4. CASE r = run
    <3>1. held[run].set = run
      BY <2>1, <2>4 DEF Agreed
    <3>2. \A e \in Endpoints : OnItsWay(e) => OnItsWay(e)'
      BY <1>1, <2>1, <2>2, <2>4, <3>1 DEF OnItsWay, Ups, watchVars
    <3> QED
      BY <1>1, <1>2, <2>1, <3>2 DEF Awaited, watchVars
  <2> QED
    BY <2>3, <2>4
<1>10. CASE LoopExit(r)
  BY <1>3, <1>10 DEF LoopExit, LoopGoto, Cancelled, TypeOK, watchVars
<1>11. CASE Discard(r)
  <2>1. r = run \/ r < run
    BY <1>11 DEF Discard, Stages, TypeOK, Runs
  <2>2. r = run => phase' = "done"
    BY <1>1, <1>11 DEF Discard, Stages
  <2>3. r < run => lost'
    BY <1>11 DEF Discard
  <2> QED
    BY <2>1, <2>2, <2>3 DEF Awaited, Waiting
<1>12. CASE DiscardExit(r)
  BY <1>3, <1>12 DEF DiscardExit, watchVars, loopVars
<1> QED
  BY <1>4, <1>5, <1>6, <1>7, <1>8, <1>9, <1>10, <1>11, <1>12 DEF Pipeline

LEMMA AwaitedKept ==
  ASSUME Inv, Prepared, Agreed, Awaited, [Next]_vars
  PROVE  Awaited'
<1> USE DEF Inv
<1>1. /\ queue \in Seq(Update) /\ (Waiting => run \in Runs) /\ todo \subseteq Endpoints
  BY Facts DEF TypeOK, Stages, Waiting
<1>2. ASSUME UNCHANGED <<run, watchVars, loopVars, queue, todo>>, Waiting' => Waiting,
             Waiting => \A e \in up' : e \in up \/ e \notin known[run] \/ e \in sending[run]
      PROVE  Awaited'
  <2>1. \A e : OnItsWay(e) => OnItsWay(e)'
    BY <1>2 DEF OnItsWay, Ups, watchVars, loopVars
  <2>2. \A e : e \in sending[run] => OnItsWay(e)'
    BY <1>2 DEF OnItsWay, watchVars
  <2> QED
    BY <1>2, <2>1, <2>2 DEF Awaited, watchVars
<1>3. ASSUME NEW r \in Runs, Pipeline(r) \/ WatcherExit(r) \/ LoopExit(r) \/ Discard(r) \/ DiscardExit(r)
      PROVE  Awaited'
  <2>1. CASE run \in Runs
    BY <1>3, <2>1, AwaitedPipeline
  <2>2. CASE run \notin Runs
    <3>1. ~Waiting
      BY <1>1, <2>2
    <3>2. phase' = phase /\ (lost => lost')
      <4>1. phase' = phase
        BY <1>3 DEF Pipeline, Dial, Report, WatcherSend, LoopCheck, LoopPush, WatcherExit, LoopExit, Discard,
                    DiscardExit
      <4>2. CASE Discard(r) \/ LoopCheck(r)
        <5>1. lost \in BOOLEAN
          BY DEF TypeOK
        <5>2. lost' = TRUE \/ lost' = lost \/ lost' = (lost \/ r < run)
          BY <4>2 DEF Discard, LoopCheck
        <5> QED
          BY <4>1, <5>1, <5>2
      <4>3. CASE ~(Discard(r) \/ LoopCheck(r))
        BY <1>3, <4>3 DEF Pipeline, Dial, Report, WatcherSend, LoopPush, WatcherExit, LoopExit, DiscardExit, history
      <4> QED
        BY <4>1, <4>2, <4>3
    <3>3. ~Waiting'
      BY <3>1, <3>2 DEF Waiting
    <3> QED
      BY <3>3 DEF Awaited
  <2> QED
    BY <2>1, <2>2
<1>4. CASE StartRun \/ Drain \/ WipeDone \/ DrainAgain
  <2>1. up' = {}
    BY <1>4 DEF StartRun, Drain, WipeDone, DrainAgain, Prepared, boxVars
  <2> QED
    BY <2>1 DEF Awaited
<1>5. CASE Generated \/ PowerUp
  <2>1. UNCHANGED <<run, watchVars, loopVars, queue, todo, up>> /\ (Waiting' => Waiting)
    BY <1>5 DEF Generated, PowerUp, boxVars, countVars, Waiting
  <2> QED
    BY <1>2, <2>1
<1>6. CASE TakeUpdate
  <2> DEFINE ups == Ups(Head(queue))
  <2>1. /\ phase = "loop" /\ queue # << >> /\ queue' = Tail(queue) /\ todo' = todo \ ((ups \ current) \cap todo)
        /\ UNCHANGED <<run, up, watchVars, loopVars, lost>>
    BY <1>6 DEF TakeUpdate, boxVars, history
  <2>2. \A e \in todo' : e \in todo /\ e \notin ups
    BY <2>1 DEF Agreed
  <2>3. /\ Head(queue) = queue[1]
        /\ \A i \in DOMAIN queue : i # 1 => i - 1 \in DOMAIN queue' /\ queue'[i - 1] = queue[i]
    BY <1>1, <2>1
  <2>4. \A i \in DOMAIN queue : i = 1 \/ \E j \in DOMAIN queue' : queue'[j] = queue[i]
    BY <2>3
  <2>5. \A u : (IF u.own THEN seen'[u.set] ELSE u.ups) = Ups(u)
    BY <2>1 DEF Ups, watchVars
  <2>6. \A e \in todo' : OnItsWay(e) => OnItsWay(e)'
    <3>1. \A e \in todo' : (\E i \in DOMAIN queue : queue[i].set = run /\ e \in Ups(queue[i]))
                              => \E j \in DOMAIN queue' : queue'[j].set = run /\ e \in Ups(queue[j])'
      BY <2>2, <2>3, <2>4, <2>5 DEF Ups
    <3> QED
      BY <2>1, <3>1 DEF OnItsWay, Ups, watchVars, loopVars
  <2>7. Waiting' => Waiting
    BY <2>1 DEF Waiting
  <2> QED
    BY <2>1, <2>2, <2>6, <2>7 DEF Awaited, watchVars
<1>7. CASE GiveUp
  BY <1>7 DEF GiveUp, Awaited, Waiting
<1>8. CASE \/ UNCHANGED vars
           \/ \E h \in Hyps : VMStarted(h) \/ VMRetried(h)
           \/ \E e \in Endpoints : ComesUp(e) \/ GoesDown(e)
  <2>1. UNCHANGED <<run, phase, watchVars, loopVars, queue, todo, lost>>
    BY <1>8 DEF vars, countVars, history, VMStarted, VMRetried, ComesUp, GoesDown
  <2>2. \A e \in up' : e \in up \/ e \notin known[run] \/ e \in sending[run]
    BY <1>8 DEF vars, boxVars, VMStarted, VMRetried, Attempt, ComesUp, GoesDown
  <2>3. Waiting' => Waiting
    BY <2>1 DEF Waiting
  <2> QED
    BY <1>2, <2>1, <2>2, <2>3
<1> QED
  BY <1>3, <1>4, <1>5, <1>6, <1>7, <1>8 DEF Next, Initialize

\* However updates of several sets mix in the channel: what is up and known to be up,
\* and still waited for, is on its way to INITLOOP, unless an update was dropped because
\* the channel was full or was taken by the goroutine of an earlier run.
THEOREM NoneLostSilently == Spec => []NoSilentLoss
<1>1. Init => Agreed /\ Awaited
  BY DEF Init, Agreed, Awaited, Waiting, Runs
<1>2. Inv /\ Prepared /\ Agreed /\ [Next]_vars => Agreed'
  BY AgreedKept
<1>3. Inv /\ Prepared /\ Agreed /\ Awaited /\ [Next]_vars => Awaited'
  BY AwaitedKept
<1>4. Awaited => NoSilentLoss
  BY DEF Awaited, Waiting, OnItsWay, Announced, NoSilentLoss
<1> QED
  BY <1>1, <1>2, <1>3, <1>4, InvHolds, PreparedHolds, PTL DEF Spec

----------------------------------------------------------------------------
\* Machines that are gone are gone for good.

\* No prober, watcher, loop or update says that e is up.
Unseen(e) ==
  /\ \A r \in Runs : e \notin known[r] \cup seen[r] \cup held[r].ups
  /\ \A i \in DOMAIN queue : e \notin queue[i].ups

\* INITLOOP waits for the machine v of the hypervisor h, which was started and is gone.
Doomed(h, v) ==
  /\ phase = "loop"
  /\ h \notin todo /\ starting[h] = << >>
  /\ v \in (Guests(h) \cap todo) \ machines
  /\ Unseen(v)

\* A hypervisor starts its own machines, and only a machine that exists answers.
Hosted ==
  /\ \A h \in Hyps : \A i \in DOMAIN starting[h] : starting[h][i] \in Guests(h)
  /\ up \cap VMs \subseteq machines

LEMMA HostedKept ==
  ASSUME VMs \cap Boxes = {}, Inv, Hosted, [Next]_vars
  PROVE  Hosted'
<1>1. ASSUME UNCHANGED starting, up' \cap VMs \subseteq machines' PROVE Hosted'
  BY <1>1 DEF Hosted, Guests
<1>2. CASE \E r \in Runs : Pipeline(r) \/ WatcherExit(r) \/ LoopExit(r) \/ Discard(r) \/ DiscardExit(r)
  <2>1. UNCHANGED <<starting, up, machines>>
    BY <1>2 DEF Pipeline, Dial, Report, WatcherSend, LoopCheck, LoopPush, WatcherExit, LoopExit, Discard,
                DiscardExit, boxVars, startVars
  <2> QED
    BY <1>1, <2>1 DEF Hosted
<1>3. CASE \/ UNCHANGED vars \/ Drain \/ Generated \/ WipeDone \/ DrainAgain \/ PowerUp
           \/ \E e \in Endpoints : ComesUp(e) \/ GoesDown(e)
  <2>1. UNCHANGED starting
    BY <1>3 DEF vars, Drain, Generated, WipeDone, DrainAgain, PowerUp, ComesUp, GoesDown, startVars
  <2>2. up' \cap VMs \subseteq machines'
    BY <1>3 DEF Hosted, vars, Drain, Generated, WipeDone, DrainAgain, PowerUp, ComesUp, GoesDown, boxVars
  <2> QED
    BY <1>1, <2>1, <2>2
<1>4. CASE TakeUpdate
  <2>1. \A h \in Hyps : starting'[h] \in {VMsOf[h], starting[h]}
    BY <1>4 DEF TakeUpdate
  <2>2. UNCHANGED <<up, machines>>
    BY <1>4 DEF TakeUpdate, boxVars
  <2> QED
    BY <2>1, <2>2 DEF Hosted, Guests
<1>5. CASE StartRun \/ GiveUp
  <2>1. \A h \in Hyps : starting'[h] = << >>
    BY <1>5 DEF StartRun, GiveUp, Forget
  <2>2. up' = {} \/ UNCHANGED <<up, machines>>
    BY <1>5 DEF StartRun, GiveUp, boxVars
  <2> QED
    BY <2>1, <2>2 DEF Hosted
<1>6. ASSUME NEW h \in Hyps, VMStarted(h) \/ VMRetried(h) PROVE Hosted'
  <2>1. up' \cap VMs \subseteq machines'
    BY <1>6 DEF VMStarted, VMRetried, Attempt, Hosted
  <2>2. \A g \in Hyps : g # h => starting'[g] = starting[g]
    BY <1>6 DEF VMStarted, VMRetried, startVars, Inv, TypeOK
  <2>3. starting[h] \in Seq(VMs) /\ starting[h] # << >>
    BY <1>6 DEF VMStarted, VMRetried, Attempt, Inv, TypeOK
  <2>4. starting'[h] = starting[h] \/ starting'[h] = Tail(starting[h])
    BY <1>6 DEF VMStarted, VMRetried, startVars, Inv, TypeOK
  <2>5. \A i \in DOMAIN starting'[h] : starting'[h][i] \in Guests(h)
    <3>1. \A i \in DOMAIN Tail(starting[h]) : /\ i + 1 \in DOMAIN starting[h]
                                              /\ Tail(starting[h])[i] = starting[h][i + 1]
      BY <2>3
    <3> QED
      BY <2>4, <3>1 DEF Hosted
  <2> QED
    BY <2>1, <2>2, <2>5 DEF Hosted, Guests
<1> QED
  BY <1>2, <1>3, <1>4, <1>5, <1>6 DEF Next, Initialize

LEMMA DoomedPipeline ==
  ASSUME VMs \cap Boxes = {}, Inv, Hosted, NEW h \in Hyps, NEW v \in VMs, Doomed(h, v), NEW r \in Runs,
         Pipeline(r) \/ WatcherExit(r) \/ LoopExit(r) \/ Discard(r) \/ DiscardExit(r)
  PROVE  Doomed(h, v)'
<1>1. UNCHANGED <<phase, machines, todo, starting>>
  BY DEF Pipeline, Dial, Report, WatcherSend, LoopCheck, LoopPush, WatcherExit, LoopExit, Discard,
         DiscardExit, boxVars, countVars, startVars
<1>2. v \notin up
  BY DEF Doomed, Hosted
<1>3. \A q \in Runs : v \notin known'[q] \cup seen'[q]
  <2>1. CASE UNCHANGED <<known, seen>>
    BY <2>1 DEF Doomed, Unseen
  <2>2. CASE \E e \in Endpoints : Dial(r, e) \/ Report(r, e)
    <3>1. ASSUME NEW e \in Endpoints, Dial(r, e) PROVE \A q \in Runs : v \notin known'[q] \cup seen'[q]
      <4>1. UNCHANGED seen /\ \A q \in Runs : known'[q] \subseteq known[q] \cup (up \cap {e})
        BY <3>1 DEF Dial, Inv, TypeOK
      <4> QED
        BY <1>2, <4>1 DEF Doomed, Unseen
    <3>2. ASSUME NEW e \in Endpoints, Report(r, e) PROVE \A q \in Runs : v \notin known'[q] \cup seen'[q]
      <4>1. UNCHANGED known /\ \A q \in Runs : seen'[q] \subseteq seen[q] \cup known[q]
        BY <3>2 DEF Report, Inv, TypeOK
      <4> QED
        BY <4>1 DEF Doomed, Unseen
    <3> QED
      BY <2>2, <3>1, <3>2
  <2>3. CASE WatcherExit(r)
    BY <2>3 DEF WatcherExit, Doomed, Unseen, Inv, TypeOK
  <2> QED
    BY <2>1, <2>2, <2>3 DEF Pipeline, WatcherSend, LoopCheck, LoopPush, LoopExit, Discard, DiscardExit, watchVars
<1>4. \A q \in Runs : v \notin held'[q].ups
  <2>1. CASE UNCHANGED held
    BY <2>1 DEF Doomed, Unseen
  <2>2. CASE held' = [held EXCEPT ![r] = None]
    <3>1. \A q \in Runs : held'[q] = IF q = r THEN None ELSE held[q]
      BY <2>2 DEF Inv, TypeOK
    <3> QED
      BY <3>1 DEF None, Doomed, Unseen
  <2>3. CASE WatcherSend(r)
    <3>1. \A q \in Runs : held'[q] = IF q = r THEN [set |-> r, own |-> watcher[r] = "first", ups |-> seen[r]]
                                   ELSE held[q]
      BY <2>3 DEF WatcherSend, Inv, TypeOK
    <3> QED
      BY <3>1 DEF Doomed, Unseen
  <2> QED
    BY <2>1, <2>2, <2>3
       DEF Pipeline, Dial, Report, LoopCheck, LoopPush, WatcherExit, LoopExit, Discard, DiscardExit, loopVars
<1>5. \A i \in DOMAIN queue' : v \notin queue'[i].ups
  <2>1. queue \in Seq(Update) /\ held[r] \in Update
    BY DEF Inv, TypeOK
  <2>2. CASE UNCHANGED queue
    BY <2>2 DEF Doomed, Unseen
  <2>3. CASE LoopPush(r)
    <3>1. queue' = Append(queue, held[r])
      BY <2>3 DEF LoopPush
    <3> QED
      BY <2>1, <3>1 DEF Doomed, Unseen
  <2>4. CASE Discard(r)
    <3>1. queue # << >> /\ queue' = Tail(queue)
      BY <2>4 DEF Discard
    <3>2. \A i \in DOMAIN Tail(queue) : i + 1 \in DOMAIN queue /\ Tail(queue)[i] = queue[i + 1]
      BY <2>1, <3>1
    <3> QED
      BY <3>1, <3>2 DEF Doomed, Unseen
  <2> QED
    BY <2>2, <2>3, <2>4 DEF Pipeline, Dial, Report, WatcherSend, LoopCheck, WatcherExit, LoopExit, DiscardExit
<1> QED
  BY <1>1, <1>3, <1>4, <1>5 DEF Doomed, Unseen, Guests

\* Once INITLOOP waits for a machine that died with its hypervisor after it was started,
\* and whose end everybody has noticed, INITLOOP can only be given up: whatever boxes,
\* machines and watchers do, it does not end by itself.  This is why LoopEnds names
\* MachinesGone.  (The names of boxes and machines differ, and a machine has one hypervisor.)
THEOREM DoomedNeverDone ==
  ASSUME VMs \cap Boxes = {}, \A g, h \in Hyps : Guests(g) \cap Guests(h) # {} => g = h,
         NEW h \in Hyps, NEW v \in VMs, NEW k \in Runs
  PROVE  Spec => [](Doomed(h, v) /\ run = k => [](run = k => Doomed(h, v) \/ phase = "over"))
<1> DEFINE Ended == run > k \/ (run = k /\ (Doomed(h, v) \/ phase = "over"))
<1>1. Inv /\ Hosted /\ Ended /\ [Next]_vars => Ended'
  <2> SUFFICES ASSUME Inv, Hosted, Ended, [Next]_vars PROVE Ended'
    OBVIOUS
  <2>1. run \in Nat /\ run' \in {run, run + 1} /\ (run' # run => StartRun) /\ k \in Nat
    <3>1. UNCHANGED run \/ StartRun
      BY DEF Next, Initialize, Pipeline, Dial, Report, WatcherSend, LoopCheck, LoopPush, WatcherExit, LoopExit,
             Discard, DiscardExit, Drain, Generated, WipeDone, DrainAgain, PowerUp, TakeUpdate, GiveUp,
             VMStarted, VMRetried, ComesUp, GoesDown, vars
    <3> QED
      BY <3>1, Facts DEF StartRun, Inv, TypeOK
  <2>2. CASE run > k \/ StartRun
    BY <2>1, <2>2 DEF StartRun
  <2>3. CASE run = k /\ ~StartRun /\ phase = "over"
    <3>1. UNCHANGED phase
      BY <2>3 DEF Next, Initialize, Pipeline, Dial, Report, WatcherSend, LoopCheck, LoopPush, WatcherExit, LoopExit,
                  Discard, DiscardExit, Drain, Generated, WipeDone, DrainAgain, PowerUp, TakeUpdate, GiveUp,
                  VMStarted, VMRetried, ComesUp, GoesDown, vars
    <3> QED
      BY <2>1, <2>3, <3>1
  <2>4. CASE run = k /\ ~StartRun /\ Doomed(h, v)
    <3>1. ASSUME Doomed(h, v)' \/ phase' = "over" PROVE Ended'
      BY <2>1, <2>4, <3>1
    <3>2. CASE \E r \in Runs : Pipeline(r) \/ WatcherExit(r) \/ LoopExit(r) \/ Discard(r) \/ DiscardExit(r)
      BY <2>4, <3>1, <3>2, DoomedPipeline
    <3>3. CASE Drain \/ Generated \/ WipeDone \/ DrainAgain \/ PowerUp
      BY <2>4, <3>3 DEF Doomed, Drain, Generated, WipeDone, DrainAgain, PowerUp
    <3>4. CASE GiveUp
      BY <3>1, <3>4 DEF GiveUp
    <3>5. CASE TakeUpdate
      <4>1. queue \in Seq(Update) /\ queue # << >> /\ queue' = Tail(queue)
        BY <3>5 DEF TakeUpdate, Inv, TypeOK
      <4>2. v \notin Ups(Head(queue))
        <5>1. Head(queue) = queue[1] /\ 1 \in DOMAIN queue /\ Head(queue) \in Update
          BY <4>1
        <5> QED
          BY <2>4, <5>1 DEF Doomed, Unseen, Ups, Update
      <4>3. v \in todo' /\ phase' = "loop" /\ h \notin todo' /\ starting'[h] = << >>
        BY <2>4, <3>5, <4>2 DEF TakeUpdate, Doomed
      <4>4. \A i \in DOMAIN queue' : v \notin queue'[i].ups
        <5>1. \A i \in DOMAIN Tail(queue) : i + 1 \in DOMAIN queue /\ Tail(queue)[i] = queue[i + 1]
          BY <4>1
        <5> QED
          BY <2>4, <4>1, <5>1 DEF Doomed, Unseen
      <4>5. UNCHANGED <<machines, known, seen, held>>
        BY <3>5 DEF TakeUpdate, boxVars, watchVars, loopVars
      <4> QED
        BY <2>4, <3>1, <4>3, <4>4, <4>5 DEF Doomed, Unseen, Guests
    <3>6. CASE UNCHANGED vars \/ \E e \in Endpoints : ComesUp(e) \/ GoesDown(e)
      <4>1. UNCHANGED <<phase, todo, starting, known, seen, held, queue>> /\ machines' \subseteq machines
        BY <3>6 DEF vars, ComesUp, GoesDown, boxVars, watchVars, loopVars, countVars, startVars
      <4> QED
        BY <2>4, <3>1, <4>1 DEF Doomed, Unseen, Guests
    <3>7. ASSUME NEW g \in Hyps, VMStarted(g) \/ VMRetried(g) PROVE Ended'
      <4>1. UNCHANGED <<phase, todo, known, seen, held, queue>>
        BY <3>7 DEF VMStarted, VMRetried, watchVars, loopVars, countVars
      <4>2. starting[g] \in Seq(VMs) /\ starting[g] # << >> /\ machines' = machines \cup {Head(starting[g])}
        BY <3>7 DEF VMStarted, VMRetried, Attempt, Inv, TypeOK
      <4>3. Head(starting[g]) \in Guests(g)
        BY <4>2 DEF Hosted
      <4>4. g # h
        BY <2>4, <4>2 DEF Doomed
      <4>5. v \notin machines'
        BY <2>4, <4>2, <4>3, <4>4 DEF Doomed
      <4>6. starting'[h] = << >>
        BY <2>4, <3>7, <4>4 DEF VMStarted, VMRetried, startVars, Doomed, Inv, TypeOK
      <4> QED
        BY <2>4, <3>1, <4>1, <4>5, <4>6 DEF Doomed, Unseen, Guests
    <3> QED
      BY <2>4, <3>2, <3>3, <3>4, <3>5, <3>6, <3>7 DEF Next, Initialize
  <2> QED
    BY <2>2, <2>3, <2>4
<1>2. Init => Hosted
  BY DEF Init, Hosted
<1>3. Inv /\ Hosted /\ [Next]_vars => Hosted'
  BY HostedKept
<1>4. Doomed(h, v) /\ run = k => Ended
  OBVIOUS
<1>5. Inv /\ Ended => (run = k => Doomed(h, v) \/ phase = "over")
  BY Facts DEF Inv, TypeOK
<1> QED
  BY <1>1, <1>2, <1>3, <1>4, <1>5, InvHolds, PTL DEF Spec

=============================================================================
