--------------------------- MODULE StatusPathProofs ---------------------------
(***************************************************************************)
(* The way of a status to a browser is well typed; the current status has  *)
(* the Power of the manager, and an idle browser shows the current status, *)
(* with the exceptions that the properties name.  For any clients, any     *)
(* capacity of their channels and any number of sets of watchers.          *)
(***************************************************************************)
EXTENDS StatusPath, TLAPS

----------------------------------------------------------------------------
\* Type correctness, and where the handler and the sets of watchers may stand.

Stages ==
  /\ updater[Lab] \in IF live THEN {"idle", "other", "clear", "store", "snapshot", "cast"}
                      ELSE {"reset", "storeOwn", "snapshot", "cast", "start"}
  /\ ~live => set < MaxSets
  /\ \A s \in Sets : s > set => /\ watch[s] = "none" /\ updater[s] = "none"
                                /\ cur[s] = Zero /\ missed[s] = FALSE

Inv == TypeOK /\ Stages

LEMMA Facts ==
  /\ Sets \subseteq Nat /\ Sets \subseteq Updaters /\ Lab \in Updaters /\ Lab \notin Sets
  /\ \A u \in Updaters : u = Lab \/ u \in Sets
  /\ 1 \in Sets /\ Zero \in Status /\ Cap \in Nat \ {0}
BY ConstantsAssumption DEF Sets, Updaters, Lab, Zero, Status

LEMMA InitInv == Init => Inv
<1> SUFFICES ASSUME Init PROVE Inv
  OBVIOUS
<1> USE Facts DEF Init
<1>1. /\ actual \in Status /\ changes \in 0..MaxChanges /\ others \in 0..MaxOthers
      /\ set \in Sets /\ live \in BOOLEAN
  BY ConstantsAssumption
<1>2. /\ watch \in [Sets -> {"none", "check", "send", "record", "gone"}]
      /\ cur \in [Sets -> Status] /\ sent \in [Sets -> Status] /\ missed \in [Sets -> BOOLEAN]
  OBVIOUS
<1>3. /\ updater \in [Updaters -> {"none", "idle", "power", "other", "clear", "reset", "start",
                                   "store", "storeOwn", "snapshot", "cast", "gone"}]
      /\ update \in [Updaters -> Status] /\ base \in [Updaters -> Status]
      /\ todo \in [Updaters -> SUBSET Clients]
  OBVIOUS
<1>4. /\ current \in Status /\ client \in [Clients -> {"away", "added", "open", "gone"}]
      /\ chan \in [Clients -> Seq(Status)] /\ \A c \in Clients : Len(chan[c]) <= Cap
      /\ shown \in [Clients -> Status] /\ undone \in BOOLEAN /\ excused \in [Clients -> BOOLEAN]
  <2>1. /\ << >> \in Seq(Status) /\ Len(<< >>) <= Cap
        /\ chan = [c \in Clients |-> << >>]
    OBVIOUS
  <2>2. chan \in [Clients -> Seq(Status)] /\ \A c \in Clients : Len(chan[c]) <= Cap
    BY <2>1
  <2> QED
    BY <2>2
<1>5. Stages
  BY DEF Stages
<1> QED
  BY <1>1, <1>2, <1>3, <1>4, <1>5 DEF Inv, TypeOK

\* The steps of Watch, of the browsers and of m.status.
LEMMA WatchInv ==
  ASSUME Inv, NEW s \in Sets, Watch(s) \/ WatchExit(s)
  PROVE  Inv'
<1> USE Facts DEF Inv, TypeOK, WatchGoto
<1>1. CASE WatchCheck(s)
  BY <1>1 DEF WatchCheck, Stages, bounds, updaterVars, clientVars
<1>2. CASE WatchSend(s)
  <2>1. TypeOK'
    BY <1>2 DEF WatchSend, bounds, clientVars
  <2>2. Stages'
    BY <1>2 DEF WatchSend, Stages
  <2> QED
    BY <2>1, <2>2
<1>3. CASE WatchRecord(s)
  <2>1. TypeOK'
    BY <1>3 DEF WatchRecord, bounds, updaterVars, clientVars
  <2>2. Stages'
    BY <1>3 DEF WatchRecord, Stages, updaterVars
  <2> QED
    BY <2>1, <2>2
<1>4. CASE WatchExit(s)
  <2>1. TypeOK'
    BY <1>4 DEF WatchExit, bounds, updaterVars, clientVars
  <2>2. Stages'
    BY <1>4 DEF WatchExit, Stages, updaterVars
  <2> QED
    BY <2>1, <2>2
<1> QED
  BY <1>1, <1>2, <1>3, <1>4 DEF Watch

LEMMA ClientInv ==
  ASSUME Inv, Change \/ \E c \in Clients : Connect(c) \/ Serve(c) \/ Disconnect(c)
  PROVE  Inv'
<1> USE Facts DEF Inv
<1>1. Stages'
  BY DEF Change, Connect, Serve, Greet, Show, Disconnect, Stages, watchVars, updaterVars
<1>2. CASE Change
  <2>1. actual' \in Status /\ changes' \in 0..MaxChanges
    BY <1>2, ConstantsAssumption DEF Change, TypeOK, Status
  <2>2. UNCHANGED <<others, set, live, watchVars, updaterVars, current, clientVars, undone, excused>>
    BY <1>2 DEF Change
  <2> QED
    BY <1>1, <2>1, <2>2 DEF TypeOK, watchVars, updaterVars, clientVars
<1>3. ASSUME NEW c \in Clients, Connect(c) \/ Serve(c) \/ Disconnect(c)
      PROVE  TypeOK'
  <2>1. UNCHANGED <<actual, bounds, set, live, watchVars, updaterVars, current, undone>>
    BY <1>3 DEF Connect, Serve, Greet, Show, Disconnect
  <2>2. client' \in [Clients -> {"away", "added", "open", "gone"}] /\ excused' \in [Clients -> BOOLEAN]
    <3>1. client' \in [Clients -> {"away", "added", "open", "gone"}]
      BY <1>3 DEF Connect, Serve, Greet, Show, Disconnect, ClientGoto, TypeOK
    <3>2. UNCHANGED excused \/ excused' = [excused EXCEPT ![c] = FALSE]
      BY <1>3 DEF Connect, Serve, Greet, Show, Disconnect
    <3> QED
      BY <3>1, <3>2 DEF TypeOK
  <2>3. /\ chan' \in [Clients -> Seq(Status)] /\ \A d \in Clients : Len(chan'[d]) <= Cap
        /\ shown' \in [Clients -> Status]
    <3>1. CASE Show(c)
      <4>1. chan[c] \in Seq(Status) /\ chan[c] # << >> /\ Len(chan[c]) <= Cap
        BY <3>1 DEF Show, TypeOK
      <4>2. Head(chan[c]) \in Status /\ Tail(chan[c]) \in Seq(Status) /\ Len(Tail(chan[c])) <= Cap
        BY <4>1
      <4> QED
        BY <3>1, <4>2 DEF Show, TypeOK
    <3>2. CASE Disconnect(c)
      BY <3>2 DEF Disconnect, TypeOK
    <3>3. CASE Connect(c) \/ Greet(c)
      BY <3>3 DEF Connect, Greet, TypeOK
    <3> QED
      BY <1>3, <3>1, <3>2, <3>3 DEF Serve
  <2> QED
    BY <2>1, <2>2, <2>3 DEF TypeOK, bounds, watchVars, updaterVars
<1> QED
  BY <1>1, <1>2, <1>3

\* The steps of an updater but Store, Snapshot and Cast.
LEMMA UpdaterInv ==
  ASSUME Inv, Cancel \/ Reset \/ \E s \in Updaters : MergePower(s) \/ MergeOther(s) \/ Report(s) \/ LoopExit(s)
  PROVE  Inv'
<1> USE Facts DEF Inv, UpdaterGoto
<1>1. ASSUME NEW u \in Updaters, NEW label \in {"store", "storeOwn"}, NEW status \in Status, Take(u, label, status)
      PROVE  TypeOK' /\ UNCHANGED <<set, live, watch, cur, missed>> /\ updater' = [updater EXCEPT ![u] = label]
  BY <1>1 DEF Take, TypeOK, bounds, watchVars, clientVars
<1>2. CASE \E u \in Updaters : MergePower(u) \/ MergeOther(u)
  <2>1. PICK u \in Updaters : MergePower(u) \/ MergeOther(u)
    BY <1>2
  <2>2. updater[u] \in {"power", "other"}
    BY <2>1 DEF MergePower, MergeOther
  <2>3. PICK label \in {"store", "storeOwn"}, status \in Status :
          Take(u, label, status) /\ (label = "storeOwn" => updater[u] = "power")
    BY <2>1 DEF MergePower, MergeOther, TypeOK
  <2>4. TypeOK' /\ UNCHANGED <<set, live, watch, cur, missed>> /\ updater' = [updater EXCEPT ![u] = label]
    BY <1>1, <2>3
  <2>5. u = Lab => label = "store" /\ live
    BY <2>2, <2>3 DEF Stages
  <2>6. \A s \in Sets : s > set => updater'[s] = updater[s]
    BY <2>2, <2>4 DEF Stages, TypeOK
  <2>7. updater'[Lab] = IF u = Lab THEN label ELSE updater[Lab]
    BY <2>4 DEF TypeOK
  <2> QED
    BY <2>4, <2>5, <2>6, <2>7 DEF Stages
<1>3. CASE \E u \in Updaters : Report(u) \/ LoopExit(u)
  <2>1. PICK u \in Updaters : Report(u) \/ LoopExit(u)
    BY <1>3
  <2>2. TypeOK'
    <3>1. others' \in 0..MaxOthers
      BY <2>1, ConstantsAssumption DEF Report, LoopExit, TypeOK, bounds
    <3>2. updater' = [updater EXCEPT ![u] = "other"] \/ updater' = [updater EXCEPT ![u] = "gone"]
      BY <2>1 DEF Report, LoopExit
    <3>3. UNCHANGED <<actual, changes, set, live, watchVars, update, base, todo, current, clientVars, undone, excused>>
      BY <2>1 DEF Report, LoopExit, bounds
    <3> QED
      BY <3>1, <3>2, <3>3 DEF TypeOK, watchVars, clientVars
  <2>3. Stages'
    BY <2>1 DEF Report, LoopExit, Stages, TypeOK, watchVars
  <2> QED
    BY <2>2, <2>3
<1>4. CASE Cancel
  <2>1. TypeOK'
    BY <1>4 DEF Cancel, TypeOK, bounds, clientVars
  <2>2. Stages'
    BY <1>4 DEF Cancel, Stages, TypeOK
  <2> QED
    BY <2>1, <2>2
<1>5. CASE ResetStatus
  <2>1. TypeOK' /\ UNCHANGED <<set, live, watch, cur, missed>> /\ updater' = [updater EXCEPT ![Lab] = "storeOwn"]
    BY <1>1, <1>5 DEF ResetStatus
  <2> QED
    BY <1>5, <2>1 DEF ResetStatus, Stages, TypeOK
<1>6. CASE StartSet
  <2>1. ~live /\ set + 1 \in Sets /\ set' = set + 1 /\ live' = TRUE
    BY <1>6, ConstantsAssumption DEF StartSet, Stages, TypeOK, Sets
  <2>2. /\ watch' = [watch EXCEPT ![set + 1] = "check"]
        /\ updater' = [updater EXCEPT ![set + 1] = "idle", ![Lab] = "clear"]
        /\ UNCHANGED <<actual, bounds, cur, sent, missed, update, base, todo, current, clientVars, undone, excused>>
    BY <1>6 DEF StartSet
  <2>3. TypeOK'
    BY <2>1, <2>2 DEF TypeOK, bounds, clientVars
  <2>4. Stages'
    <3>1. updater'[Lab] = "clear" /\ live'
      BY <2>1, <2>2 DEF TypeOK
    <3>2. ASSUME NEW s \in Sets, s > set'
          PROVE  s > set /\ watch'[s] = watch[s] /\ updater'[s] = updater[s]
      BY <2>1, <2>2, <3>2 DEF TypeOK
    <3>3. \A s \in Sets : s > set' => /\ watch'[s] = "none" /\ updater'[s] = "none"
                                      /\ cur'[s] = Zero /\ missed'[s] = FALSE
      BY <2>2, <3>2 DEF Stages
    <3> QED
      BY <3>1, <3>3 DEF Stages
  <2> QED
    BY <2>3, <2>4
<1>7. CASE ClearInit \/ ResetOnly
  <2>1. TypeOK'
    BY <1>7, ConstantsAssumption DEF ClearInit, ResetOnly, TypeOK, bounds, watchVars, clientVars
  <2>2. Stages'
    BY <1>7 DEF ClearInit, ResetOnly, Stages, TypeOK, watchVars
  <2> QED
    BY <2>1, <2>2
<1> QED
  BY <1>2, <1>3, <1>4, <1>5, <1>6, <1>7 DEF Reset

\* The steps of UpdateStatus.
LEMMA UpdateInv ==
  ASSUME Inv, NEW u \in Updaters, Store(u) \/ Snapshot(u) \/ \E c \in Clients : Cast(u, c)
  PROVE  Inv'
<1> USE Facts DEF Inv
<1>1. ASSUME UNCHANGED <<set, live, watchVars>>,
             \/ updater' = updater
             \/ updater' = [updater EXCEPT ![u] = "snapshot"] /\ updater[u] \in {"store", "storeOwn"}
             \/ updater' = [updater EXCEPT ![u] = "cast"] /\ updater[u] = "snapshot"
             \/ /\ updater' = [updater EXCEPT ![u] = IF u = Lab /\ ~live THEN "start" ELSE "idle"]
                /\ updater[u] \in {"snapshot", "cast"}
      PROVE  Stages'
  <2>1. \A s \in Sets : s > set => updater'[s] = updater[s]
    BY <1>1 DEF TypeOK, Stages
  <2>2. updater'[Lab] \in IF live THEN {"idle", "other", "clear", "store", "snapshot", "cast"}
                          ELSE {"reset", "storeOwn", "snapshot", "cast", "start"}
    BY <1>1 DEF TypeOK, Stages
  <2> QED
    BY <1>1, <2>1, <2>2 DEF Stages, watchVars
<1>2. CASE Store(u)
  <2>1. /\ update[u] \in Status
        /\ \A c \in Clients : (client[c] # "gone" /\ \E v \in Updaters \ {u} : Broadcasting(v)) \in BOOLEAN
    BY DEF TypeOK
  <2>2. undone' \in BOOLEAN
    BY <1>2, <2>1 DEF Store, TypeOK
  <2>3. excused' \in [Clients -> BOOLEAN] /\ current' \in Status
    BY <1>2, <2>1 DEF Store
  <2>4. updater' = [updater EXCEPT ![u] = "snapshot"] /\ updater[u] \in {"store", "storeOwn"}
        /\ base' = [base EXCEPT ![u] = Zero]
        /\ UNCHANGED <<actual, bounds, set, live, watchVars, update, todo, clientVars>>
    BY <1>2 DEF Store, UpdaterGoto
  <2> QED
    BY <1>1, <2>2, <2>3, <2>4 DEF TypeOK, bounds, watchVars, clientVars
<1>3. CASE Snapshot(u)
  <2>1. /\ updater' \in [Updaters -> {"none", "idle", "power", "other", "clear", "reset", "start",
                                      "store", "storeOwn", "snapshot", "cast", "gone"}]
        /\ update' \in [Updaters -> Status]
    <3>1. \/ UpdaterGoto(u, "cast") /\ UNCHANGED update
          \/ UpdateEnds(u)
      BY <1>3 DEF Snapshot
    <3>2. \/ updater' = [updater EXCEPT ![u] = "cast"]
          \/ updater' = [updater EXCEPT ![u] = "idle"]
          \/ updater' = [updater EXCEPT ![u] = "start"]
      BY <3>1 DEF UpdateEnds, UpdaterGoto
    <3>3. update' = update \/ update' = [update EXCEPT ![u] = Zero]
      BY <3>1 DEF UpdateEnds
    <3>4. updater' \in [Updaters -> {"none", "idle", "power", "other", "clear", "reset", "start",
                                     "store", "storeOwn", "snapshot", "cast", "gone"}]
      BY <3>2 DEF TypeOK
    <3>5. update' \in [Updaters -> Status]
      BY <3>3 DEF TypeOK
    <3> QED
      BY <3>4, <3>5
  <2>2. todo' \in [Updaters -> SUBSET Clients]
    BY <1>3 DEF Snapshot, TypeOK
  <2>3. UNCHANGED <<actual, bounds, set, live, watchVars, base, current, clientVars, undone, excused>>
    BY <1>3 DEF Snapshot
  <2>4. TypeOK'
    BY <2>1, <2>2, <2>3 DEF TypeOK, bounds, watchVars, clientVars
  <2> QED
    BY <1>1, <1>3, <2>3, <2>4 DEF Snapshot, UpdateEnds, UpdaterGoto
<1>4. ASSUME NEW c \in Clients, Cast(u, c)
      PROVE  Inv'
  <2>1. /\ updater' \in [Updaters -> {"none", "idle", "power", "other", "clear", "reset", "start",
                                      "store", "storeOwn", "snapshot", "cast", "gone"}]
        /\ update' \in [Updaters -> Status]
    BY <1>4 DEF Cast, UpdateEnds, UpdaterGoto, TypeOK
  <2>2. todo' \in [Updaters -> SUBSET Clients] /\ excused' \in [Clients -> BOOLEAN]
    BY <1>4 DEF Cast, TypeOK
  <2>3. UNCHANGED <<actual, bounds, set, live, watchVars, base, current, client, shown, undone>>
    BY <1>4 DEF Cast
  <2>4. chan' \in [Clients -> Seq(Status)] /\ \A d \in Clients : Len(chan'[d]) <= Cap
    <3>1. update[u] \in Status /\ chan[c] \in Seq(Status) /\ Len(chan[c]) <= Cap
      BY DEF TypeOK
    <3>2. CASE UNCHANGED chan
      BY <3>2 DEF TypeOK
    <3>3. CASE Len(chan[c]) < Cap /\ chan' = [chan EXCEPT ![c] = Append(@, update[u])]
      <4>1. Append(chan[c], update[u]) \in Seq(Status) /\ Len(Append(chan[c], update[u])) <= Cap
        BY <3>1, <3>3
      <4> QED
        BY <3>3, <4>1 DEF TypeOK
    <3> QED
      BY <1>4, <3>2, <3>3 DEF Cast
  <2>5. TypeOK'
    BY <2>1, <2>2, <2>3, <2>4 DEF TypeOK, bounds, watchVars
  <2> QED
    BY <1>1, <1>4, <2>3, <2>5 DEF Cast, UpdateEnds, UpdaterGoto
<1> QED
  BY <1>2, <1>3, <1>4

LEMMA InvHolds == Spec => []Inv
<1>1. Inv /\ [Next]_vars => Inv'
  <2> SUFFICES ASSUME Inv, [Next]_vars PROVE Inv'
    OBVIOUS
  <2>1. CASE UNCHANGED vars
    BY <2>1 DEF vars, bounds, watchVars, updaterVars, clientVars, Inv, TypeOK, Stages
  <2>2. CASE Next
    BY <2>2, Facts, WatchInv, ClientInv, UpdaterInv, UpdateInv DEF Next, Update
  <2> QED
    BY <2>1, <2>2
<1> QED
  BY <1>1, InitInv, PTL DEF Spec

\* Every variable keeps its type: no updater or browser is at a stage it cannot reach,
\* and no channel holds more than its capacity.
THEOREM TypeCorrect == Spec => []TypeOK
BY InvHolds, PTL DEF Inv

----------------------------------------------------------------------------
\* The Power of the current status.

\* The value v has reached the current status, or the loop of the last set has it in hand.
Carries(v) ==
  IF updater[set] \in {"power", "storeOwn"} THEN update[set] = v ELSE current = v \/ undone

Carried ==
  /\ live /\ watch[set] = "record" => Carries(sent[set])
  /\ live /\ watch[set] \in {"check", "send"} => Carries(cur[set]) \/ missed[set]
  /\ ~live /\ updater[Lab] \in {"snapshot", "cast", "start"} => current = Zero \/ undone
  /\ updater[Lab] = "storeOwn" => update[Lab] = Zero
  /\ \A u \in Updaters : updater[u] = "store" => update[u] = base[u]

LEMMA CarriedKept ==
  ASSUME Inv, Carried, [Next]_vars
  PROVE  Carried'
<1> USE Facts DEF Inv
<1>1. set \in Sets
  BY DEF TypeOK
<1>2. ASSUME UNCHANGED <<set, live, watch, cur, missed, updater, update, base, current, undone>>,
             sent' = sent \/ watch[set] # "record"
      PROVE  Carried'
  BY <1>2 DEF Carried, Carries
<1>3. CASE UNCHANGED vars \/ Change \/ \E c \in Clients : Connect(c) \/ Serve(c) \/ Disconnect(c)
  BY <1>2, <1>3 DEF vars, Change, Connect, Serve, Greet, Show, Disconnect, watchVars, updaterVars
<1>4. ASSUME NEW s \in Sets, Watch(s) \/ WatchExit(s)
      PROVE  Carried'
  <2>1. UNCHANGED <<set, live, base, current, undone>>
    BY <1>4 DEF Watch, WatchCheck, WatchSend, WatchRecord, WatchExit, updaterVars
  <2>2. UNCHANGED <<updater, update>> \/ WatchSend(s)
    BY <1>4 DEF Watch, WatchCheck, WatchSend, WatchRecord, WatchExit, updaterVars
  <2>3. CASE s # set
    <3>1. watch'[set] = watch[set] /\ cur'[set] = cur[set] /\ sent'[set] = sent[set] /\ missed'[set] = missed[set]
      BY <1>1, <1>4, <2>3 DEF Watch, WatchCheck, WatchSend, WatchRecord, WatchExit, WatchGoto, TypeOK
    <3>2. ASSUME NEW u \in Updaters, u # s
          PROVE  updater'[u] = updater[u] /\ update'[u] = update[u]
      BY <2>2, <3>2 DEF WatchSend, TypeOK
    <3>3. UNCHANGED <<updater, update>> \/ updater'[s] = "power"
      BY <2>2 DEF WatchSend, TypeOK
    <3> QED
      BY <1>1, <2>1, <2>3, <3>1, <3>2, <3>3 DEF Carried, Carries
  <2>4. CASE s = set
    <3>1. CASE WatchCheck(s)
      BY <1>1, <2>1, <2>4, <3>1 DEF WatchCheck, WatchGoto, TypeOK, Carried, Carries, updaterVars
    <3>2. CASE WatchSend(s)
      <4>1. /\ watch'[set] = "record" /\ updater'[set] = "power" /\ update'[set] = sent'[set]
        BY <1>1, <2>4, <3>2 DEF WatchSend, WatchGoto, TypeOK
      <4>2. \A u \in Updaters : u # set => updater'[u] = updater[u] /\ update'[u] = update[u]
        BY <2>4, <3>2 DEF WatchSend, TypeOK
      <4> QED
        BY <1>1, <2>1, <4>1, <4>2 DEF Carried, Carries
    <3>3. CASE WatchRecord(s)
      <4>1. /\ watch[set] = "record" /\ watch'[set] = "check" /\ cur'[set] = actual
            /\ missed'[set] = (~Cancelled(set) /\ actual # sent[set]) /\ UNCHANGED <<updater, update>>
        BY <1>1, <2>4, <3>3 DEF WatchRecord, WatchGoto, TypeOK, updaterVars
      <4>2. live => ~Cancelled(set)
        BY <1>1 DEF Cancelled
      <4> QED
        BY <2>1, <4>1, <4>2 DEF Carried, Carries
    <3>4. CASE WatchExit(s)
      <4>1. ~live
        BY <1>1, <2>4, <3>4 DEF WatchExit, Cancelled
      <4> QED
        BY <2>1, <2>2, <3>4, <4>1 DEF WatchExit, Carried, updaterVars
    <3> QED
      BY <1>4, <3>1, <3>2, <3>3, <3>4 DEF Watch
  <2> QED
    BY <2>3, <2>4
<1>5. ASSUME NEW u \in Updaters, MergePower(u) \/ MergeOther(u)
      PROVE  Carried'
  <2>1. UNCHANGED <<set, live, watchVars, current, undone>>
    BY <1>5 DEF MergePower, MergeOther, Take
  <2>2. \A v \in Updaters : v # u => updater'[v] = updater[v] /\ update'[v] = update[v] /\ base'[v] = base[v]
    BY <1>5 DEF MergePower, MergeOther, Take, UpdaterGoto, TypeOK
  <2>3. CASE MergePower(u)
    <3>1. updater[u] = "power" /\ updater'[u] = "storeOwn" /\ update'[u] = update[u]
      BY <2>3 DEF MergePower, Take, UpdaterGoto, TypeOK
    <3>2. u # Lab
      BY <3>1 DEF Stages
    <3> QED
      BY <1>1, <2>1, <2>2, <3>1, <3>2 DEF Carried, Carries, watchVars
  <2>4. CASE MergeOther(u)
    <3>1. updater[u] = "other" /\ updater'[u] = "store" /\ update'[u] = current /\ base'[u] = current
      BY <2>4 DEF MergeOther, Take, UpdaterGoto, TypeOK
    <3> QED
      BY <1>1, <2>1, <2>2, <3>1 DEF Carried, Carries, watchVars
  <2> QED
    BY <1>5, <2>3, <2>4
<1>6. ASSUME NEW u \in Updaters, Report(u) \/ LoopExit(u)
      PROVE  Carried'
  <2>1. /\ UNCHANGED <<set, live, watchVars, update, base, current, undone>>
        /\ updater[u] = "idle" /\ updater'[u] \in {"other", "gone"}
        /\ \A v \in Updaters : v # u => updater'[v] = updater[v]
    BY <1>6 DEF Report, LoopExit, UpdaterGoto, TypeOK
  <2> QED
    BY <1>1, <2>1 DEF Carried, Carries, watchVars
<1>7. CASE Cancel
  <2>1. /\ ~live' /\ updater[Lab] = "idle" /\ updater'[Lab] = "reset"
        /\ UNCHANGED <<update, base>> /\ \A v \in Updaters : v # Lab => updater'[v] = updater[v]
    BY <1>7 DEF Cancel, UpdaterGoto, TypeOK
  <2> QED
    BY <2>1 DEF Carried
<1>8. CASE ResetStatus
  <2>1. /\ ~live /\ UNCHANGED live /\ updater'[Lab] = "storeOwn" /\ update'[Lab] = Zero
        /\ \A v \in Updaters : v # Lab => updater'[v] = updater[v] /\ update'[v] = update[v] /\ base'[v] = base[v]
    BY <1>8 DEF ResetStatus, Take, UpdaterGoto, TypeOK, Stages
  <2> QED
    BY <2>1 DEF Carried
<1>9. CASE StartSet
  <2>1. ~live /\ set + 1 \in Sets /\ set' = set + 1 /\ set + 1 > set
    BY <1>1, <1>9, ConstantsAssumption DEF StartSet, Stages, Sets
  <2>2. /\ watch'[set'] = "check" /\ updater'[set'] = "idle" /\ updater'[Lab] = "clear" /\ updater[Lab] = "start"
        /\ UNCHANGED <<cur, update, base, current, undone>> /\ live'
    BY <1>9, <2>1 DEF StartSet, TypeOK
  <2>3. cur'[set'] = Zero
    BY <2>1, <2>2 DEF Stages
  <2>4. \A v \in Updaters : v # Lab /\ v # set' => updater'[v] = updater[v]
    BY <1>9, <2>1 DEF StartSet, TypeOK
  <2>5. Carries(cur[set])'
    BY <2>1, <2>2, <2>3 DEF Carried, Carries
  <2> QED
    BY <2>2, <2>4, <2>5 DEF Carried
<1>10. CASE ClearInit \/ ResetOnly
  <2>1. /\ UNCHANGED <<set, live, watchVars, update, base, current, undone>>
        /\ live /\ updater'[Lab] \in {"other", "idle"}
        /\ \A v \in Updaters : v # Lab => updater'[v] = updater[v]
    BY <1>10 DEF ClearInit, ResetOnly, UpdaterGoto, TypeOK, Stages
  <2> QED
    BY <1>1, <2>1 DEF Carried, Carries, watchVars
<1>11. ASSUME NEW u \in Updaters, Store(u)
       PROVE  Carried'
  <2>1. /\ UNCHANGED <<set, live, watchVars, update>> /\ current' = update[u]
        /\ updater[u] \in {"store", "storeOwn"} /\ updater'[u] = "snapshot"
        /\ \A v \in Updaters : v # u => updater'[v] = updater[v] /\ base'[v] = base[v]
    BY <1>11 DEF Store, UpdaterGoto, TypeOK
  <2>2. undone \in BOOLEAN /\ undone' = IF InTurn(u) THEN undone /\ update[u] = current
                                         ELSE undone \/ update[u] # current
    BY <1>11 DEF Store, TypeOK
  <2>3. undone' \/ current' = current \/ (updater[u] = "storeOwn" /\ (u = Lab \/ (u = set /\ live)))
    <3>1. u # Lab => u \in Sets /\ (u = set \/ u < set \/ u > set)
      BY <1>1
    <3>2. u # Lab => ~(u > set)
      BY <2>1, <3>1 DEF Stages
    <3> QED
      BY <2>1, <2>2, <3>1, <3>2 DEF InTurn, Cancelled, Carried
  <2>4. undone /\ current' = current => undone'
    BY <2>1, <2>2
  <2>5. u = set /\ updater[u] = "storeOwn" /\ live => \A x \in Status : Carries(x) => current' = x
    BY <2>1 DEF Carries
  <2>6. u = Lab => IF updater[u] = "storeOwn" THEN ~live /\ current' = Zero ELSE live
    BY <2>1 DEF Stages, Carried
  <2>7. ASSUME NEW x \in Status, Carries(x), live
        PROVE  Carries(x)'
    BY <1>1, <2>1, <2>3, <2>4, <2>5, <2>6, <2>7 DEF Carries
  <2>8. sent[set] \in Status /\ cur[set] \in Status /\ UNCHANGED <<sent, cur, watch, missed, set, live>>
    BY <1>1, <2>1 DEF TypeOK, watchVars
  <2>9. ~live' /\ updater'[Lab] \in {"snapshot", "cast", "start"} => current' = Zero \/ undone'
    BY <1>1, <2>1, <2>3, <2>4, <2>6, <2>8 DEF Carried
  <2>10. live' /\ watch'[set'] = "record" => Carries(sent[set])'
    BY <2>7, <2>8 DEF Carried, Carries
  <2>11. live' /\ watch'[set'] \in {"check", "send"} => Carries(cur[set])' \/ missed'[set']
    BY <2>7, <2>8 DEF Carried, Carries
  <2> QED
    BY <2>1, <2>9, <2>10, <2>11 DEF Carried
<1>12. ASSUME NEW u \in Updaters, Snapshot(u) \/ \E c \in Clients : Cast(u, c)
       PROVE  Carried'
  <2>1. /\ UNCHANGED <<set, live, watchVars, base, current, undone>>
        /\ updater[u] \in {"snapshot", "cast"} /\ updater'[u] \in {"cast", "start", "idle"}
        /\ updater'[u] = "start" => ~live
        /\ \A v \in Updaters : v # u => updater'[v] = updater[v] /\ update'[v] = update[v]
    BY <1>12 DEF Snapshot, Cast, UpdateEnds, UpdaterGoto, TypeOK
  <2> QED
    BY <1>1, <2>1 DEF Carried, Carries, watchVars
<1> QED
  BY <1>3, <1>4, <1>5, <1>6, <1>7, <1>8, <1>9, <1>10, <1>11, <1>12 DEF Next, Update, Reset

\* However resets, the updates of other fields and changes of the power interleave: when
\* Watch has nothing to report and the loop nothing in hand, the current status has the
\* Power of the manager, with the exceptions that PowerCurrent names.
THEOREM CurrentHasPower == Spec => []PowerCurrent
<1>1. Init => Carried
  BY Facts DEF Init, Carried, Carries
<1>2. Inv /\ Carried /\ [Next]_vars => Carried'
  BY CarriedKept
<1>3. Carried => PowerCurrent
  BY DEF Carried, Carries, PowerCurrent
<1> QED
  BY <1>1, <1>2, <1>3, InvHolds, PTL DEF Spec

----------------------------------------------------------------------------
\* What the browsers show.

\* u has yet to send what it has stored to c.
Due(u, c) == updater[u] = "snapshot" \/ (updater[u] = "cast" /\ c \in todo[u])

\* If c is not excused there is one broadcast at most, it is of the current status, and
\* c gets it or has it.
UpToDate(c) ==
  /\ \A u \in Updaters : Broadcasting(u) =>
       update[u] = current /\ \A v \in Updaters : Broadcasting(v) => u = v
  /\ (\A u \in Updaters : ~Due(u, c)) =>
       IF chan[c] = << >> THEN client[c] = "open" => shown[c] = current
       ELSE chan[c][Len(chan[c])] = current

Delivered ==
  \A c \in Clients :
    /\ client[c] # "gone" => UpToDate(c) \/ excused[c]
    /\ client[c] = "away" => chan[c] = << >> /\ \A u \in Updaters : c \notin todo[u]

LEMMA LastOf ==
  \A q \in Seq(Status) :
    /\ q # << >> => /\ Tail(q) = << >> => Head(q) = q[Len(q)]
                    /\ Tail(q) # << >> => Tail(q)[Len(Tail(q))] = q[Len(q)]
    /\ \A x \in Status : Append(q, x) # << >> /\ Append(q, x)[Len(Append(q, x))] = x
<1> SUFFICES ASSUME NEW q \in Seq(Status)
             PROVE  /\ q # << >> => /\ Tail(q) = << >> => Head(q) = q[Len(q)]
                                    /\ Tail(q) # << >> => Tail(q)[Len(Tail(q))] = q[Len(q)]
                    /\ \A x \in Status : Append(q, x) # << >> /\ Append(q, x)[Len(Append(q, x))] = x
  OBVIOUS
<1>1. ASSUME q # << >>
      PROVE  /\ Tail(q) = << >> => Head(q) = q[Len(q)]
             /\ Tail(q) # << >> => Tail(q)[Len(Tail(q))] = q[Len(q)]
  <2>1. Len(q) \in Nat /\ Len(q) >= 1 /\ Len(Tail(q)) = Len(q) - 1 /\ Head(q) = q[1]
    BY <1>1
  <2>2. Tail(q) = << >> => Len(q) = 1
    <3>1. Len(<< >>) = 0
      OBVIOUS
    <3>2. Tail(q) = << >> => Len(Tail(q)) = 0
      BY <3>1, Zenon
    <3> QED
      BY <2>1, <3>2
  <2>3. Tail(q) # << >> => Len(Tail(q)) >= 1 /\ Tail(q)[Len(Tail(q))] = q[Len(Tail(q)) + 1]
    BY <1>1
  <2> QED
    BY <2>1, <2>2, <2>3
<1>2. ASSUME NEW x \in Status
      PROVE  Append(q, x) # << >> /\ Append(q, x)[Len(Append(q, x))] = x
  OBVIOUS
<1> QED
  BY <1>1, <1>2

\* A step that leaves the broadcasts, the current status and the browsers alone.
LEMMA DeliveredFrame ==
  ASSUME Delivered, UNCHANGED <<current, clientVars, excused, todo>>,
         \A u \in Updaters : \/ updater'[u] = updater[u] /\ update'[u] = update[u]
                             \/ ~Broadcasting(u) /\ ~Broadcasting(u)'
  PROVE  Delivered'
<1>1. \A u \in Updaters : /\ Broadcasting(u)' <=> Broadcasting(u)
                          /\ Broadcasting(u) => update'[u] = update[u] /\ updater'[u] = updater[u]
  BY DEF Broadcasting
<1>2. \A u \in Updaters, c \in Clients : Due(u, c)' <=> Due(u, c)
  BY <1>1 DEF Due, Broadcasting
<1>3. \A c \in Clients : UpToDate(c) => UpToDate(c)'
  BY <1>1, <1>2 DEF UpToDate, clientVars
<1> QED
  BY <1>3 DEF Delivered, clientVars

\* A broadcast makes its way: to its clients, and to one of them.
LEMMA CastKept ==
  ASSUME Inv, Delivered, NEW u \in Updaters, Store(u) \/ Snapshot(u) \/ \E c \in Clients : Cast(u, c)
  PROVE  Delivered'
<1> USE DEF Inv
<1>1. \A v \in Updaters : v # u => updater'[v] = updater[v] /\ update'[v] = update[v]
  BY DEF Store, Snapshot, Cast, UpdateEnds, UpdaterGoto, TypeOK
<1>2. UNCHANGED <<client, shown>>
  BY DEF Store, Snapshot, Cast, clientVars
<1>3. CASE Store(u)
  <2>1. /\ updater'[u] = "snapshot" /\ current' = update[u] /\ UNCHANGED <<update, todo, chan>>
        /\ excused' = [c \in Clients |-> client[c] # "gone" /\ \E v \in Updaters \ {u} : Broadcasting(v)]
    BY <1>3 DEF Store, UpdaterGoto, TypeOK, clientVars
  <2>2. ASSUME NEW c \in Clients, client[c] # "gone", ~excused'[c]
        PROVE  UpToDate(c)'
    <3>1. \A v \in Updaters : v # u => ~Broadcasting(v)'
      BY <1>1, <2>1, <2>2 DEF Broadcasting
    <3>2. Due(u, c)'
      BY <2>1 DEF Due
    <3> QED
      BY <2>1, <3>1, <3>2 DEF UpToDate
  <2> QED
    BY <1>2, <2>1, <2>2 DEF Delivered
<1>4. CASE Snapshot(u)
  <2> DEFINE clients == {c \in Clients : client[c] \in {"added", "open"}}
  <2>1. /\ updater[u] = "snapshot" /\ UNCHANGED <<current, chan, excused>>
        /\ todo' = [todo EXCEPT ![u] = clients]
        /\ \/ clients = {} /\ updater'[u] \in {"start", "idle"}
           \/ clients # {} /\ updater'[u] = "cast" /\ UNCHANGED update
    BY <1>4 DEF Snapshot, UpdateEnds, UpdaterGoto, TypeOK, clientVars
  <2>2. todo'[u] = clients /\ \A v \in Updaters : v # u => todo'[v] = todo[v]
    BY <2>1 DEF TypeOK
  <2>3. \A v \in Updaters : Broadcasting(v)' => Broadcasting(v) /\ update'[v] = update[v]
    BY <1>1, <2>1 DEF Broadcasting
  <2>4. ASSUME NEW c \in Clients, UpToDate(c), client[c] # "gone"
        PROVE  UpToDate(c)'
    <3>1. \A v \in Updaters : Broadcasting(v)' =>
            update'[v] = current' /\ \A w \in Updaters : Broadcasting(w)' => v = w
      BY <2>1, <2>3, <2>4 DEF UpToDate
    <3>2. CASE client[c] \in {"added", "open"}
      BY <2>1, <2>2, <3>1, <3>2 DEF UpToDate, Due
    <3>3. CASE client[c] = "away"
      BY <1>2, <2>1, <3>1, <3>3 DEF UpToDate, Delivered
    <3> QED
      BY <2>4, <3>2, <3>3 DEF TypeOK
  <2>5. ASSUME NEW c \in Clients, client[c] = "away"
        PROVE  chan'[c] = << >> /\ \A v \in Updaters : c \notin todo'[v]
    BY <2>1, <2>2, <2>5 DEF Delivered
  <2> QED
    BY <1>2, <2>1, <2>4, <2>5 DEF Delivered
<1>5. ASSUME NEW c \in Clients, Cast(u, c)
      PROVE  Delivered'
  <2>1. /\ updater[u] = "cast" /\ c \in todo[u] /\ UNCHANGED current
        /\ todo' = [todo EXCEPT ![u] = @ \ {c}]
        /\ \/ todo[u] = {c} /\ updater'[u] \in {"start", "idle"}
           \/ todo[u] # {c} /\ UNCHANGED <<updater, update>>
    BY <1>5 DEF Cast, UpdateEnds, UpdaterGoto, TypeOK
  <2>2. todo'[u] = todo[u] \ {c} /\ \A v \in Updaters : v # u => todo'[v] = todo[v]
    BY <2>1 DEF TypeOK
  <2>3. \A v \in Updaters : Broadcasting(v)' => Broadcasting(v) /\ update'[v] = update[v]
    BY <1>1, <2>1 DEF Broadcasting
  <2>4. \A d \in Clients : d # c => chan'[d] = chan[d] /\ excused'[d] = excused[d]
    BY <1>5 DEF Cast, TypeOK
  <2>5. ASSUME NEW d \in Clients, UpToDate(d)
        PROVE  \A v \in Updaters : Broadcasting(v)' =>
                 update'[v] = current' /\ \A w \in Updaters : Broadcasting(w)' => v = w
    BY <2>1, <2>3, <2>5 DEF UpToDate
  <2>6. ASSUME NEW d \in Clients, d # c, UpToDate(d)
        PROVE  UpToDate(d)'
    <3>1. \A v \in Updaters : Due(v, d) => Due(v, d)'
      BY <1>1, <2>1, <2>2, <2>6 DEF Due
    <3> QED
      BY <1>2, <2>1, <2>4, <2>5, <2>6, <3>1 DEF UpToDate
  <2>7. ASSUME client[c] # "gone", UpToDate(c) \/ excused[c]
        PROVE  UpToDate(c)' \/ excused'[c]
    <3>1. CASE Len(chan[c]) = Cap /\ excused' = [excused EXCEPT ![c] = TRUE]
      BY <3>1 DEF TypeOK
    <3>2. CASE chan' = [chan EXCEPT ![c] = Append(@, update[u])] /\ UNCHANGED excused
      <4>1. chan'[c] = Append(chan[c], update[u]) /\ chan[c] \in Seq(Status) /\ update[u] \in Status
        BY <3>2 DEF TypeOK
      <4>2. chan'[c] # << >> /\ chan'[c][Len(chan'[c])] = update[u]
        BY <4>1, LastOf
      <4>3. UpToDate(c) => update[u] = current
        BY <2>1 DEF UpToDate, Broadcasting
      <4>4. UpToDate(c) => UpToDate(c)'
        BY <2>1, <2>5, <4>2, <4>3 DEF UpToDate
      <4> QED
        BY <2>7, <3>2, <4>4
    <3> QED
      BY <1>5, <2>7, <3>1, <3>2 DEF Cast
  <2>8. ASSUME NEW d \in Clients, client[d] = "away"
        PROVE  chan'[d] = << >> /\ \A v \in Updaters : d \notin todo'[v]
    BY <2>1, <2>2, <2>4, <2>8 DEF Delivered
  <2>9. ASSUME NEW d \in Clients, client'[d] # "gone"
        PROVE  UpToDate(d)' \/ excused'[d]
    BY <1>2, <2>4, <2>6, <2>7, <2>9 DEF Delivered
  <2> QED
    BY <1>2, <2>8, <2>9 DEF Delivered
<1> QED
  BY <1>3, <1>4, <1>5

\* A browser connects, is greeted, shows a status and disconnects.
LEMMA ServeKept ==
  ASSUME Inv, Delivered, NEW c \in Clients, Connect(c) \/ Serve(c) \/ Disconnect(c)
  PROVE  Delivered'
<1> USE DEF Inv
<1>1. UNCHANGED <<updater, update, todo, current>>
  BY DEF Connect, Serve, Greet, Show, Disconnect, updaterVars
<1>2. ASSUME NEW d \in Clients
      PROVE  /\ \A u \in Updaters : Broadcasting(u)' = Broadcasting(u) /\ Due(u, d)' = Due(u, d)
             /\ \A u \in Updaters : Broadcasting(u)' => (update'[u] = current') = (update[u] = current)
  BY <1>1 DEF Broadcasting, Due
<1>3. ASSUME NEW d \in Clients, d # c
      PROVE  client'[d] = client[d] /\ chan'[d] = chan[d] /\ shown'[d] = shown[d] /\ excused'[d] = excused[d]
  BY <1>3 DEF Connect, Serve, Greet, Show, Disconnect, ClientGoto, TypeOK
<1>4. ASSUME NEW d \in Clients, d # c, UpToDate(d)
      PROVE  UpToDate(d)'
  BY <1>1, <1>2, <1>3, <1>4 DEF UpToDate
<1>5. client'[c] # "away"
  BY DEF Connect, Serve, Greet, Show, Disconnect, ClientGoto, TypeOK
<1>6. ASSUME client'[c] # "gone", UpToDate(c)
      PROVE  UpToDate(c)'
  <2>1. ~Disconnect(c)
    BY <1>6 DEF Disconnect, ClientGoto, TypeOK
  <2>2. \A u \in Updaters : Broadcasting(u)' =>
          update'[u] = current' /\ \A v \in Updaters : Broadcasting(v)' => u = v
    BY <1>1, <1>2, <1>6 DEF UpToDate
  <2>3. CASE Connect(c)
    <3>1. client[c] = "away" /\ client'[c] = "added" /\ chan'[c] = chan[c]
      BY <2>3 DEF Connect, ClientGoto, TypeOK
    <3> QED
      BY <2>2, <3>1 DEF UpToDate, Delivered
  <2>4. CASE Greet(c)
    <3>1. shown'[c] = current /\ chan'[c] = chan[c]
      BY <2>4 DEF Greet, TypeOK
    <3> QED
      BY <1>1, <1>2, <1>6, <2>2, <3>1 DEF UpToDate
  <2>5. CASE Show(c)
    <3>1. /\ chan[c] # << >> /\ chan[c] \in Seq(Status)
          /\ shown'[c] = Head(chan[c]) /\ chan'[c] = Tail(chan[c])
      BY <2>5 DEF Show, TypeOK
    <3>2. IF chan'[c] = << >> THEN shown'[c] = chan[c][Len(chan[c])]
          ELSE chan'[c][Len(chan'[c])] = chan[c][Len(chan[c])]
      BY <3>1, LastOf
    <3> QED
      BY <1>1, <1>2, <1>6, <2>2, <3>1, <3>2 DEF UpToDate
  <2> QED
    BY <2>1, <2>3, <2>4, <2>5 DEF Serve
<1>7. client'[c] # "gone" => client[c] # "gone" /\ excused'[c] = excused[c]
  BY DEF Connect, Serve, Greet, Show, Disconnect, ClientGoto, TypeOK
<1>8. ASSUME NEW d \in Clients, client'[d] # "gone"
      PROVE  UpToDate(d)' \/ excused'[d]
  BY <1>3, <1>4, <1>6, <1>7, <1>8 DEF Delivered
<1>9. ASSUME NEW d \in Clients, client'[d] = "away"
      PROVE  chan'[d] = << >> /\ \A u \in Updaters : d \notin todo'[u]
  BY <1>1, <1>3, <1>5, <1>9 DEF Delivered
<1> QED
  BY <1>8, <1>9 DEF Delivered

LEMMA DeliveredKept ==
  ASSUME Inv, Delivered, [Next]_vars
  PROVE  Delivered'
<1> USE Facts DEF Inv
<1>1. CASE UNCHANGED vars \/ Change
  BY <1>1, DeliveredFrame DEF vars, Change, updaterVars
<1>2. CASE \E s \in Sets : Watch(s) \/ WatchExit(s)
  <2>1. PICK s \in Sets : Watch(s) \/ WatchExit(s)
    BY <1>2
  <2>2. UNCHANGED <<current, clientVars, excused, todo>>
    BY <2>1 DEF Watch, WatchCheck, WatchSend, WatchRecord, WatchExit, updaterVars
  <2>3. UNCHANGED <<updater, update>> \/ WatchSend(s)
    BY <2>1 DEF Watch, WatchCheck, WatchSend, WatchRecord, WatchExit, updaterVars
  <2>4. CASE UNCHANGED <<updater, update>>
    BY <2>2, <2>4, DeliveredFrame
  <2>5. CASE WatchSend(s)
    <3>1. /\ updater[s] = "idle" /\ updater'[s] = "power"
          /\ \A u \in Updaters : u # s => updater'[u] = updater[u] /\ update'[u] = update[u]
      BY <2>5 DEF WatchSend, TypeOK
    <3>2. ~Broadcasting(s) /\ ~Broadcasting(s)'
      BY <3>1 DEF Broadcasting
    <3> QED
      BY <2>2, <3>1, <3>2, DeliveredFrame
  <2> QED
    BY <2>3, <2>4, <2>5
<1>3. CASE StartSet
  <2>1. set + 1 \in Sets /\ set + 1 > set
    BY <1>3, ConstantsAssumption DEF StartSet, Stages, TypeOK, Sets
  <2>2. /\ UNCHANGED <<current, clientVars, excused, todo, update>>
        /\ updater[Lab] = "start" /\ updater'[Lab] = "clear" /\ updater'[set + 1] = "idle"
        /\ \A u \in Updaters : u \notin {Lab, set + 1} => updater'[u] = updater[u]
    BY <1>3, <2>1 DEF StartSet, TypeOK
  <2>3. updater[set + 1] = "none"
    BY <2>1 DEF Stages
  <2>4. \A u \in {Lab, set + 1} : ~Broadcasting(u) /\ ~Broadcasting(u)'
    BY <2>2, <2>3 DEF Broadcasting
  <2> QED
    BY <2>2, <2>4, DeliveredFrame
<1>4. CASE \/ Cancel \/ ResetStatus \/ ClearInit \/ ResetOnly
           \/ \E u \in Updaters : MergePower(u) \/ MergeOther(u) \/ Report(u) \/ LoopExit(u)
  <2>1. PICK u \in Updaters :
          /\ UNCHANGED <<current, clientVars, excused, todo>>
          /\ updater[u] \in {"idle", "reset", "clear", "power", "other"}
          /\ updater'[u] \in {"idle", "reset", "storeOwn", "store", "other", "gone"}
          /\ \A v \in Updaters : v # u => updater'[v] = updater[v] /\ update'[v] = update[v]
    <3>1. CASE Cancel \/ ResetStatus \/ ClearInit \/ ResetOnly
      <4>1. /\ UNCHANGED <<current, clientVars, excused, todo>>
            /\ updater[Lab] \in {"idle", "reset", "clear", "power", "other"}
            /\ updater'[Lab] \in {"idle", "reset", "storeOwn", "store", "other", "gone"}
            /\ \A v \in Updaters : v # Lab => updater'[v] = updater[v] /\ update'[v] = update[v]
        BY <3>1 DEF Cancel, ResetStatus, ClearInit, ResetOnly, Take, UpdaterGoto, TypeOK
      <4> QED
        BY <4>1
    <3>2. CASE \E u \in Updaters : MergePower(u) \/ MergeOther(u) \/ Report(u) \/ LoopExit(u)
      <4>1. PICK u \in Updaters : MergePower(u) \/ MergeOther(u) \/ Report(u) \/ LoopExit(u)
        BY <3>2
      <4>2. /\ UNCHANGED <<current, clientVars, excused, todo>>
            /\ updater[u] \in {"idle", "reset", "clear", "power", "other"}
            /\ updater'[u] \in {"idle", "reset", "storeOwn", "store", "other", "gone"}
            /\ \A v \in Updaters : v # u => updater'[v] = updater[v] /\ update'[v] = update[v]
        BY <4>1 DEF MergePower, MergeOther, Report, LoopExit, Take, UpdaterGoto, TypeOK
      <4> QED
        BY <4>2
    <3> QED
      BY <1>4, <3>1, <3>2
  <2>2. ~Broadcasting(u) /\ ~Broadcasting(u)'
    BY <2>1 DEF Broadcasting
  <2> QED
    BY <2>1, <2>2, DeliveredFrame
<1>5. CASE \E u \in Updaters : Store(u) \/ Snapshot(u) \/ \E c \in Clients : Cast(u, c)
  BY <1>5, CastKept
<1>6. CASE \E c \in Clients : Connect(c) \/ Serve(c) \/ Disconnect(c)
  BY <1>6, ServeKept
<1> QED
  BY <1>1, <1>2, <1>3, <1>4, <1>5, <1>6 DEF Next, Update, Reset

\* However updates, broadcasts and browsers that come and go interleave: one that has
\* shown all it was sent shows the current status, with the exceptions that
\* ClientCurrent names.
THEOREM BrowsersAreCurrent == Spec => []ClientCurrent
<1>1. Init => Delivered
  BY Facts DEF Init, Delivered, UpToDate, Broadcasting
<1>2. Inv /\ Delivered /\ [Next]_vars => Delivered'
  BY DeliveredKept
<1>3. Delivered => ClientCurrent
  <2> SUFFICES ASSUME Delivered, \A u \in Updaters : ~Broadcasting(u), NEW c \in Clients,
                      client[c] = "open", chan[c] = << >>
               PROVE  shown[c] = current \/ excused[c]
    BY DEF ClientCurrent
  <2>1. \A u \in Updaters : ~Due(u, c)
    BY DEF Due, Broadcasting
  <2> QED
    BY <2>1 DEF Delivered, UpToDate
<1> QED
  BY <1>1, <1>2, <1>3, InvHolds, PTL DEF Spec
=============================================================================
