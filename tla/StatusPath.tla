------------------------------ MODULE StatusPath ------------------------------
(***************************************************************************)
(* From m.status of the power manager to a browser: Watch reports changes, *)
(* the status loop of its set of watchers merges each into the current     *)
(* status, /setlab and the resets of watchers write the current status     *)
(* too, and every write is broadcast to the channels of the clients.       *)
(*                                                                         *)
(* Of the status one bit is kept, a port of its Power; the zero status is  *)
(* FALSE.  An update of another field, of any source of the loop or by     *)
(* /setlab, writes Power back as it has read it.                           *)
(***************************************************************************)
EXTENDS Integers, Sequences, FiniteSets

CONSTANTS
  Clients,    \* browsers
  Cap,        \* capacity of a client's channel, 5 in the code
  MaxSets,    \* bound: sets of watchers
  MaxChanges, \* bound: changes of m.status
  MaxOthers   \* bound: updates of other fields

ASSUME ConstantsAssumption ==
  /\ Cap \in Nat \ {0} /\ MaxSets \in Nat \ {0}
  /\ MaxChanges \in Nat /\ MaxOthers \in Nat

Sets     == 1..MaxSets
Lab      == 0               \* the handler of /setlab, or of /resetwatchers
Updaters == Sets \cup {Lab}

Status == BOOLEAN
Zero   == FALSE

VARIABLES
  actual,   \* m.status
  changes,  \* how often it changed
  set,      \* the sets of watchers that were started
  live,     \* the last one is not cancelled
  watch,    \* per set: where Watch stands,
  cur,      \* its curStatus
  sent,     \* the status it is sending,
  missed,   \* history: and did m.status change while it was being sent, if s is not cancelled?
  updater,  \* per updater: where it stands,
  update,   \* what it has received, then the status it is to store and send,
  base,     \* history: the Power field it has read,
  todo,     \* and the clients it has yet to send to
  others,   \* updates of other fields, by another source or by /setlab
  current,  \* currentStatus
  client,   \* per client: where its handler stands,
  chan,     \* its channel,
  shown,    \* the status that the browser shows
  undone,   \* history: Power was overwritten out of turn
  excused   \* history: per client, an update was dropped or broadcast out of turn

watchVars   == <<watch, cur, sent, missed>>
updaterVars == <<updater, update, base, todo>>
clientVars  == <<client, chan, shown>>
bounds      == <<changes, others>>
vars == <<actual, bounds, set, live, watchVars, updaterVars, current, clientVars, undone,
          excused>>

Broadcasting(u) == updater[u] \in {"snapshot", "cast"}

TypeOK ==
  /\ actual \in Status /\ changes \in 0..MaxChanges /\ others \in 0..MaxOthers
  /\ set \in Sets /\ live \in BOOLEAN
  /\ watch \in [Sets -> {"none", "check", "send", "record", "gone"}]
  /\ cur \in [Sets -> Status] /\ sent \in [Sets -> Status] /\ missed \in [Sets -> BOOLEAN]
  /\ updater \in [Updaters -> {"none", "idle", "power", "other", "clear", "reset", "start",
                                "store", "storeOwn", "snapshot", "cast", "gone"}]
  /\ update \in [Updaters -> Status] /\ base \in [Updaters -> Status]
  /\ todo \in [Updaters -> SUBSET Clients]
  /\ current \in Status
  /\ client \in [Clients -> {"away", "added", "open", "gone"}]
  /\ chan \in [Clients -> Seq(Status)]
  /\ \A c \in Clients : Len(chan[c]) <= Cap
  /\ shown \in [Clients -> Status]
  /\ undone \in BOOLEAN /\ excused \in [Clients -> BOOLEAN]

Init ==
  /\ actual \in Status /\ changes = 0 /\ others = 0
  /\ set = 1 /\ live = TRUE
  /\ watch = [s \in Sets |-> IF s = 1 THEN "check" ELSE "none"]
  /\ cur = [s \in Sets |-> Zero] /\ sent = [s \in Sets |-> Zero]
  /\ missed = [s \in Sets |-> FALSE]
  /\ updater = [u \in Updaters |-> IF u \in {1, Lab} THEN "idle" ELSE "none"]
  /\ update = [u \in Updaters |-> Zero] /\ base = [u \in Updaters |-> Zero]
  /\ todo = [u \in Updaters |-> {}]
  /\ current = Zero
  /\ client = [c \in Clients |-> "away"] /\ chan = [c \in Clients |-> << >>]
  /\ shown = [c \in Clients |-> Zero]
  /\ undone = FALSE /\ excused = [c \in Clients |-> FALSE]

Cancelled(s) == s < set \/ ~live

\* The poll stores another status (PollGood of PowerManager).
Change ==
  /\ changes < MaxChanges
  /\ changes' = changes + 1
  /\ actual' = ~actual
  /\ UNCHANGED <<others, set, live, watchVars, updaterVars, current, clientVars, undone,
                 excused>>

----------------------------------------------------------------------------
\* PowerManager.Watch of the set s

WatchGoto(s, label) == watch' = [watch EXCEPT ![s] = label]

\* A bug to be caught: only a port that came on counts as a change.
WatchCheckOn(s) ==
  /\ watch[s] = "check"
  /\ actual # Zero /\ cur[s] = Zero
  /\ sent' = [sent EXCEPT ![s] = actual]
  /\ WatchGoto(s, "send")
  /\ UNCHANGED <<actual, bounds, set, live, cur, missed, updaterVars, current, clientVars,
                 undone, excused>>

WatchCheck(s) ==
  /\ watch[s] = "check"
  /\ actual # cur[s]
  /\ sent' = [sent EXCEPT ![s] = actual]
  /\ WatchGoto(s, "send")
  /\ UNCHANGED <<actual, bounds, set, live, cur, missed, updaterVars, current, clientVars,
                 undone, excused>>

\* resultChan <- m.status, received by the loop's case p, ok := <-pInfo
WatchSend(s) ==
  /\ watch[s] = "send"
  /\ updater[s] = "idle"
  /\ WatchGoto(s, "record")
  /\ updater' = [updater EXCEPT ![s] = "power"]
  /\ update' = [update EXCEPT ![s] = sent[s]]
  /\ UNCHANGED <<actual, bounds, set, live, cur, sent, missed, base, todo, current,
                 clientVars, undone, excused>>

\* curStatus = m.status reads the status once more.
WatchRecord(s) ==
  /\ watch[s] = "record"
  /\ cur' = [cur EXCEPT ![s] = actual]
  /\ missed' = [missed EXCEPT ![s] = ~Cancelled(s) /\ actual # sent[s]]
  /\ sent' = [sent EXCEPT ![s] = Zero]
  /\ WatchGoto(s, "check")
  /\ UNCHANGED <<actual, bounds, set, live, updaterVars, current, clientVars, undone, excused>>

WatchExit(s) ==
  /\ watch[s] = "check"
  /\ Cancelled(s)
  /\ WatchGoto(s, "gone")
  /\ cur' = [cur EXCEPT ![s] = Zero]
  /\ UNCHANGED <<actual, bounds, set, live, sent, missed, updaterVars, current, clientVars, undone,
                 excused>>

----------------------------------------------------------------------------
\* The updaters: the status loop of each set, /setlab and /resetwatchers.

UpdaterGoto(u, label) == updater' = [updater EXCEPT ![u] = label]

Take(u, label, status) ==
  /\ UpdaterGoto(u, label)
  /\ update' = [update EXCEPT ![u] = status]
  /\ base' = [base EXCEPT ![u] = IF label = "store" THEN current ELSE Zero]
  /\ UNCHANGED <<actual, bounds, set, live, watchVars, todo, current, clientVars, undone,
                 excused>>

\* GetCurrentStatus, and the field of the source that has reported.
MergePower(s) == updater[s] = "power" /\ Take(s, "storeOwn", update[s])
MergeOther(s) == updater[s] = "other" /\ Take(s, "store", current)

\* The loop receives from another channel.
Report(s) ==
  /\ others < MaxOthers
  /\ updater[s] = "idle" /\ s # Lab
  /\ others' = others + 1
  /\ UpdaterGoto(s, "other")
  /\ UNCHANGED <<actual, changes, set, live, watchVars, update, base, todo, current, clientVars,
                 undone, excused>>

LoopExit(s) ==
  /\ updater[s] = "idle" /\ s # Lab
  /\ Cancelled(s)
  /\ UpdaterGoto(s, "gone")
  /\ UNCHANGED <<actual, bounds, set, live, watchVars, update, base, todo, current, clientVars,
                 undone, excused>>

\* resetWatchers: the watchers are cancelled, then the status is reset.
Cancel ==
  /\ updater[Lab] = "idle"
  /\ set < MaxSets
  /\ live' = FALSE
  /\ UpdaterGoto(Lab, "reset")
  /\ missed' = [missed EXCEPT ![set] = FALSE]
  /\ UNCHANGED <<actual, bounds, set, watch, cur, sent, update, base, todo, current, clientVars, undone,
                 excused>>

\* A bug to be caught: the reset leaves Power as it is.
ResetPartly == updater[Lab] = "reset" /\ Take(Lab, "storeOwn", current)

ResetStatus == updater[Lab] = "reset" /\ Take(Lab, "storeOwn", Zero)

\* startWatchers
StartSet ==
  /\ updater[Lab] = "start"
  /\ set' = set + 1
  /\ live' = TRUE
  /\ watch' = [watch EXCEPT ![set + 1] = "check"]
  /\ updater' = [updater EXCEPT ![set + 1] = "idle", ![Lab] = "clear"]
  /\ UNCHANGED <<actual, bounds, cur, sent, missed, update, base, todo, current, clientVars,
                 undone, excused>>

\* "Reset the initialization state and inform clients", or the end of /resetwatchers.
ClearInit ==
  /\ updater[Lab] = "clear"
  /\ others < MaxOthers
  /\ others' = others + 1
  /\ UpdaterGoto(Lab, "other")
  /\ UNCHANGED <<actual, changes, set, live, watchVars, update, base, todo, current, clientVars,
                 undone, excused>>

ResetOnly ==
  /\ updater[Lab] = "clear"
  /\ UpdaterGoto(Lab, "idle")
  /\ UNCHANGED <<actual, bounds, set, live, watchVars, update, base, todo, current, clientVars,
                 undone, excused>>

----------------------------------------------------------------------------
\* UpdateStatus

UpdateEnds(u) ==
  /\ UpdaterGoto(u, IF u = Lab /\ ~live THEN "start" ELSE "idle")
  /\ update' = [update EXCEPT ![u] = Zero]

\* The Power that u stores is in turn if u has it from the live Watch or from the reset,
\* or else has read it since it was stored.
InTurn(u) ==
  IF updater[u] = "storeOwn" THEN u = Lab \/ ~Cancelled(u) ELSE base[u] = current

\* currentStatus = safeCopy, with currentMutex held
Store(u) ==
  /\ updater[u] \in {"store", "storeOwn"}
  /\ UpdaterGoto(u, "snapshot")
  /\ current' = update[u]
  /\ undone' = IF InTurn(u) THEN undone /\ update[u] = current
               ELSE undone \/ update[u] # current
  /\ excused' = [c \in Clients |-> client[c] # "gone" /\ \E v \in Updaters \ {u} : Broadcasting(v)]
  /\ base' = [base EXCEPT ![u] = Zero]
  /\ UNCHANGED <<actual, bounds, set, live, watchVars, update, todo, clientVars>>

\* The clients are copied with clientsMutex held.
Snapshot(u) ==
  /\ updater[u] = "snapshot"
  /\ LET clients == {c \in Clients : client[c] \in {"added", "open"}}
     IN /\ todo' = [todo EXCEPT ![u] = clients]
        /\ IF clients = {} THEN UpdateEnds(u) ELSE UpdaterGoto(u, "cast") /\ UNCHANGED update
  /\ UNCHANGED <<actual, bounds, set, live, watchVars, base, current, clientVars, undone,
                 excused>>

\* A bug to be caught: the channel grows with what a slow browser has not read.
CastUnbounded(u, c) ==
  /\ updater[u] = "cast"
  /\ c \in todo[u]
  /\ chan' = [chan EXCEPT ![c] = Append(@, update[u])]
  /\ todo' = [todo EXCEPT ![u] = @ \ {c}]
  /\ IF todo[u] = {c} THEN UpdateEnds(u) ELSE UNCHANGED <<updater, update>>
  /\ UNCHANGED <<actual, bounds, set, live, watchVars, base, current, client, shown, undone,
                 excused>>

\* The send does not wait for room.
Cast(u, c) ==
  /\ updater[u] = "cast"
  /\ c \in todo[u]
  /\ \/ client[c] = "gone" /\ UNCHANGED <<chan, excused>>
     \/ /\ client[c] # "gone" /\ Len(chan[c]) < Cap
        /\ chan' = [chan EXCEPT ![c] = Append(@, update[u])]
        /\ UNCHANGED excused
     \/ /\ client[c] # "gone" /\ Len(chan[c]) = Cap
        /\ excused' = [excused EXCEPT ![c] = TRUE]
        /\ UNCHANGED chan
  /\ todo' = [todo EXCEPT ![u] = @ \ {c}]
  /\ IF todo[u] = {c} THEN UpdateEnds(u) ELSE UNCHANGED <<updater, update>>
  /\ UNCHANGED <<actual, bounds, set, live, watchVars, base, current, client, shown, undone>>

----------------------------------------------------------------------------
\* StatusSendHandler.ServeHTTP

ClientGoto(c, label) == client' = [client EXCEPT ![c] = label]

\* AddClient
Connect(c) ==
  /\ client[c] = "away"
  /\ ClientGoto(c, "added")
  /\ UNCHANGED <<actual, bounds, set, live, watchVars, updaterVars, current, chan, shown,
                 undone, excused>>

\* A bug to be caught: the first status is the next one, not the current one.
GreetForgotten(c) ==
  /\ client[c] = "added"
  /\ ClientGoto(c, "open")
  /\ UNCHANGED <<actual, bounds, set, live, watchVars, updaterVars, current, chan, shown,
                 undone, excused>>

\* "Send current status immediately"
Greet(c) ==
  /\ client[c] = "added"
  /\ ClientGoto(c, "open")
  /\ shown' = [shown EXCEPT ![c] = current]
  /\ UNCHANGED <<actual, bounds, set, live, watchVars, updaterVars, current, chan, undone,
                 excused>>

Show(c) ==
  /\ client[c] = "open"
  /\ chan[c] # << >>
  /\ shown' = [shown EXCEPT ![c] = Head(chan[c])]
  /\ chan' = [chan EXCEPT ![c] = Tail(@)]
  /\ UNCHANGED <<actual, bounds, set, live, watchVars, updaterVars, current, client, undone,
                 excused>>

\* The request ends or a write fails: RemoveClient.  A broadcast under way may still
\* put a status into the channel, where nobody will look.
Disconnect(c) ==
  /\ client[c] \in {"added", "open"}
  /\ ClientGoto(c, "gone")
  /\ chan' = [chan EXCEPT ![c] = << >>]
  /\ shown' = [shown EXCEPT ![c] = Zero]
  /\ excused' = [excused EXCEPT ![c] = FALSE]
  /\ UNCHANGED <<actual, bounds, set, live, watchVars, updaterVars, current, undone>>

----------------------------------------------------------------------------
Watch(s) == WatchCheck(s) \/ WatchSend(s) \/ WatchRecord(s)

Update(u) ==
  \/ MergePower(u) \/ MergeOther(u) \/ Store(u) \/ Snapshot(u) \/ \E c \in Clients : Cast(u, c)

Reset == ResetStatus \/ StartSet \/ ClearInit \/ ResetOnly

Serve(c) == Greet(c) \/ Show(c)

Next ==
  \/ Change \/ Cancel \/ Reset
  \/ \E s \in Sets : Watch(s) \/ WatchExit(s) \/ Report(s) \/ LoopExit(s)
  \/ \E u \in Updaters : Update(u)
  \/ \E c \in Clients : Connect(c) \/ Serve(c) \/ Disconnect(c)

Spec == Init /\ [][Next]_vars

\* The goroutines run and browsers read what they are sent.
Fairness ==
  /\ \A s \in Sets : WF_vars(Watch(s))
  /\ \A u \in Updaters : WF_vars(Update(u))
  /\ WF_vars(Reset)
  /\ \A c \in Clients : WF_vars(Serve(c))

FairSpec == Spec /\ Fairness

----------------------------------------------------------------------------
\* A browser that has shown all it was sent shows the current status, whenever it
\* connected, unless its channel was full or two updates were broadcast at once.
ClientCurrent ==
  (\A u \in Updaters : ~Broadcasting(u)) =>
    \A c \in Clients :
      client[c] = "open" /\ chan[c] = << >> => shown[c] = current \/ excused[c]

\* When Watch has nothing to report and the loop nothing in hand, the current status
\* has the Power of the manager, over resets and other fields' updates; unless it
\* changed while Watch was sending, or was overwritten by an updater that had read an
\* older status or that was cancelled.
PowerCurrent ==
  live /\ watch[set] = "check" /\ cur[set] = actual /\ updater[set] \notin {"power", "storeOwn"} =>
    current = actual \/ missed[set] \/ undone

\* Every change reaches every browser in the end, with the same exceptions.
PowerReachesClients ==
  <>[](\A c \in Clients :
         client[c] = "open" => shown[c] = actual \/ excused[c] \/ missed[set] \/ undone)

=============================================================================
