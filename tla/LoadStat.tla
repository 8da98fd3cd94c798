------------------------------- MODULE LoadStat -------------------------------
(***************************************************************************)
(* The load statistics: pods report their counts over connections, the     *)
(* handler adds them up and keeps an entry per pod, and one goroutine      *)
(* broadcasts snapshots to the browsers.  /setlab resets the statistics    *)
(* while the connections of pods live on.                                  *)
(*                                                                         *)
(* Of the counts of a pod one is kept, and of the two kinds of pods one;   *)
(* the rates, which another goroutine computes, are left out.              *)
(***************************************************************************)
EXTENDS Integers, Sequences, FiniteSets

CONSTANTS
  Pods,      \* names that pods report under
  Conns,     \* connections of pods, each used once,
  PodsOf,    \* and the ways the pods may share them
  Viewers,   \* browsers
  StatCap,   \* capacity of statChan, 10 in the code
  ViewCap,   \* capacity of a browser's channel, 5 in the code
  MaxReports, \* bound: reports
  MaxResets  \* bound: resets

NoEntry  == -1
Resetter == "resetter"
Senders  == Conns \cup {Resetter}

ASSUME ConstantsAssumption ==
  /\ PodsOf \subseteq [Conns -> Pods] /\ Resetter \notin Conns
  /\ StatCap \in Nat \ {0} /\ ViewCap \in Nat \ {0}
  /\ MaxReports \in Nat /\ MaxResets \in Nat

VARIABLES
  conn,     \* per connection: where ServeHTTP stands,
  pod,      \* podName,
  ok,       \* and stat.OK
  reports,  \* reports of all pods
  total,    \* stats.TotalServerOk
  entry,    \* stats.Servers
  reset,    \* where Reset stands
  pending,  \* per sender: what it is to send to statChan
  statChan,
  consumer, \* where the goroutine that broadcasts stands,
  copy,     \* what it has copied, the total first
  todo,     \* the browsers it has yet to send to
  viewer,   \* per browser: where its handler stands,
  chan,     \* its channel,
  shown,    \* and what it shows
  version,  \* history: changes of total,
  newest,   \* history: the newest of them in statChan so far,
  late,     \* history: and was the last snapshot sent older?
  resets,   \* how often Reset was called
  carried,  \* history: connections that had reported before the last reset,
  inflated, \* history: and the pods whose entry is theirs
  displaced, \* history: connections whose entry another one of the pod removed
  silent,   \* history: an entry came or went and nothing was sent since
  missed    \* history: browsers that did not get the last broadcast

podVars     == <<conn, pod, ok, reports, displaced>>
statVars    == <<total, entry, version, inflated, silent>>
resetVars   == <<reset, resets, carried>>
chanVars    == <<pending, statChan, newest, late>>
castVars    == <<consumer, copy, todo>>
viewerVars  == <<viewer, chan, shown>>
vars == <<podVars, statVars, resetVars, chanVars, castVars, viewerVars, missed>>

Totals    == 0..MaxReports
Versions  == 0..(MaxReports + MaxResets)
Snapshot  == [total : Totals, version : Versions]
Entries   == [Pods -> 0..MaxReports \cup {NoEntry}]
Shown     == [total : Totals, entry : Entries]
NoPods    == [p \in Pods |-> NoEntry]
Nothing   == [total |-> 0, entry |-> NoPods]
NoReport  == [total |-> 0, version |-> 0]

TypeOK ==
  /\ conn \in [Conns -> {"none", "open", "send", "gone"}]
  /\ pod \in PodsOf /\ ok \in [Conns -> 0..MaxReports] /\ reports \in 0..MaxReports
  /\ total \in Totals /\ entry \in Entries /\ version \in Versions
  /\ reset \in {"idle", "send"} /\ resets \in 0..MaxResets
  /\ pending \in [Senders -> Snapshot]
  /\ statChan \in Seq(Snapshot) /\ Len(statChan) <= StatCap
  /\ consumer \in {"idle", "copy", "cast"} /\ copy \in Shown
  /\ todo \subseteq Viewers
  /\ viewer \in [Viewers -> {"away", "open", "gone"}]
  /\ chan \in [Viewers -> Seq(Shown)] /\ \A v \in Viewers : Len(chan[v]) <= ViewCap
  /\ shown \in [Viewers -> Shown]
  /\ newest \in Versions /\ late \in BOOLEAN /\ silent \in BOOLEAN
  /\ carried \subseteq Conns /\ displaced \subseteq Conns /\ inflated \subseteq Pods
  /\ missed \subseteq Viewers

Init ==
  /\ conn = [c \in Conns |-> "none"] /\ pod \in PodsOf
  /\ ok = [c \in Conns |-> 0] /\ reports = 0
  /\ total = 0 /\ entry = NoPods /\ version = 0
  /\ reset = "idle" /\ resets = 0
  /\ pending = [s \in Senders |-> NoReport] /\ statChan = << >>
  /\ consumer = "idle" /\ copy = Nothing /\ todo = {}
  /\ viewer = [v \in Viewers |-> "away"]
  /\ chan = [v \in Viewers |-> << >>] /\ shown = [v \in Viewers |-> Nothing]
  /\ newest = 0 /\ late = FALSE /\ silent = FALSE
  /\ carried = {} /\ displaced = {} /\ inflated = {} /\ missed = Viewers

Registered(c) == conn[c] \in {"open", "send"}
SamePod(c)    == {d \in Conns : pod[d] = pod[c]}

----------------------------------------------------------------------------
\* A pod's connection

\* The pod gives its name and gets an entry, or the entry of its name starts again.
Register(c) ==
  /\ conn[c] = "none"
  /\ conn' = [conn EXCEPT ![c] = "open"]
  /\ entry' = [entry EXCEPT ![pod[c]] = 0]
  /\ displaced' = displaced \ SamePod(c) /\ inflated' = inflated \ {pod[c]}
  /\ silent' = TRUE
  /\ UNCHANGED <<pod, ok, reports, total, version, resetVars, chanVars, castVars, viewerVars, missed>>

\* The handler's statistics are copied, their maps shared.
Take(s) ==
  /\ version' = version + 1
  /\ pending' = [pending EXCEPT ![s] = [total |-> total', version |-> version']]
  /\ silent' = FALSE

\* A bug to be caught: the copy is taken before the report is added.
ReportStale(c) ==
  /\ conn[c] = "open" /\ reports < MaxReports
  /\ reports' = reports + 1
  /\ ok' = [ok EXCEPT ![c] = @ + 1]
  /\ total' = total + 1
  /\ entry' = [entry EXCEPT ![pod[c]] = ok'[c]]
  /\ version' = version + 1 /\ silent' = FALSE
  /\ pending' = [pending EXCEPT ![c] = [total |-> total, version |-> version']]
  /\ conn' = [conn EXCEPT ![c] = "send"]
  /\ displaced' = displaced \ SamePod(c)
  /\ inflated' = IF c \in carried THEN inflated \cup {pod[c]} ELSE inflated \ {pod[c]}
  /\ UNCHANGED <<pod, resetVars, statChan, newest, late, castVars, viewerVars, missed>>

\* The pod's count has grown: what is new is added to the total, the entry is the
\* count itself.
Report(c) ==
  /\ conn[c] = "open" /\ reports < MaxReports
  /\ reports' = reports + 1
  /\ ok' = [ok EXCEPT ![c] = @ + 1]
  /\ total' = total + 1
  /\ entry' = [entry EXCEPT ![pod[c]] = ok'[c]]
  /\ Take(c)
  /\ conn' = [conn EXCEPT ![c] = "send"]
  /\ displaced' = displaced \ SamePod(c)
  /\ inflated' = IF c \in carried THEN inflated \cup {pod[c]} ELSE inflated \ {pod[c]}
  /\ UNCHANGED <<pod, resetVars, statChan, newest, late, castVars, viewerVars, missed>>

\* The connection breaks: the entry of the name goes, whoever's it is by now.
Close(c) ==
  /\ conn[c] = "open"
  /\ conn' = [conn EXCEPT ![c] = "gone"]
  /\ entry' = [entry EXCEPT ![pod[c]] = NoEntry]
  /\ displaced' = (displaced \cup {d \in SamePod(c) : Registered(d)}) \ {c}
  /\ inflated' = inflated \ {pod[c]}
  /\ silent' = TRUE
  /\ UNCHANGED <<pod, ok, reports, total, version, resetVars, chanVars, castVars, viewerVars, missed>>

\* A bug to be caught: the capacity of statChan is not looked at.
SendUnbounded(s) ==
  /\ statChan' = Append(statChan, pending[s])
  /\ late' = (pending[s].version < newest)
  /\ newest' = IF late' THEN newest ELSE pending[s].version
  /\ pending' = [pending EXCEPT ![s] = NoReport]

\* statChan <- currentStats, after the mutex was given back
Send(s) ==
  /\ Len(statChan) < StatCap
  /\ statChan' = Append(statChan, pending[s])
  /\ late' = (pending[s].version < newest)
  /\ newest' = IF late' THEN newest ELSE pending[s].version
  /\ pending' = [pending EXCEPT ![s] = NoReport]

ReportSend(c) ==
  /\ conn[c] = "send"
  /\ Send(c)
  /\ conn' = [conn EXCEPT ![c] = "open"]
  /\ UNCHANGED <<pod, ok, reports, displaced, statVars, resetVars, castVars, viewerVars, missed>>

----------------------------------------------------------------------------
\* Reset, called by resetWatchers.  One at a time.

\* What is true of every reset: connections keep their own counts.
ResetBegins ==
  /\ reset = "idle" /\ resets < MaxResets
  /\ resets' = resets + 1 /\ reset' = "send"
  /\ total' = 0
  /\ Take(Resetter)
  /\ carried' = {c \in Conns : Registered(c) /\ ok[c] > 0}
  /\ inflated' = {}
  /\ UNCHANGED <<conn, pod, ok, reports, statChan, newest, late, castVars, viewerVars, missed>>

Zeroed == [p \in Pods |-> IF entry[p] = NoEntry THEN NoEntry ELSE 0]

\* A bug to be caught: the entries go.
ResetDeletes == ResetBegins /\ entry' = NoPods /\ UNCHANGED displaced

\* A bug to be caught: only the total is reset.
ResetTotalOnly == ResetBegins /\ UNCHANGED <<entry, displaced>>

ResetStats == ResetBegins /\ entry' = Zeroed /\ UNCHANGED displaced

\* "Broadcast the reset": /setlab waits here, with its mutex held.
ResetSend ==
  /\ reset = "send"
  /\ Send(Resetter)
  /\ reset' = "idle"
  /\ UNCHANGED <<podVars, statVars, resets, carried, castVars, viewerVars, missed>>

----------------------------------------------------------------------------
\* The goroutine that broadcasts

Known == {v \in Viewers : viewer[v] = "open"}

\* A snapshot is taken from statChan, for nobody if no browser is there.
Receive ==
  /\ consumer = "idle" /\ statChan # << >>
  /\ statChan' = Tail(statChan)
  /\ IF Known = {}
     THEN missed' = Viewers /\ UNCHANGED <<consumer, copy>>
     ELSE /\ consumer' = "copy" /\ copy' = [Nothing EXCEPT !.total = Head(statChan).total]
          /\ UNCHANGED missed
  /\ UNCHANGED <<pending, newest, late, todo, podVars, statVars, resetVars, viewerVars>>

CastDone == consumer' = "idle" /\ copy' = Nothing

\* The maps are copied as they are now, then the browsers.
Copy ==
  /\ consumer = "copy"
  /\ todo' = Known /\ missed' = Viewers \ Known
  /\ IF Known = {} THEN CastDone
     ELSE consumer' = "cast" /\ copy' = [copy EXCEPT !.entry = entry]
  /\ UNCHANGED <<podVars, statVars, resetVars, chanVars, viewerVars>>

\* A bug to be caught: the send waits for a browser that is slow.
CastBlocking(v) ==
  /\ consumer = "cast" /\ v \in todo
  /\ todo' = todo \ {v}
  /\ viewer[v] = "gone" \/ Len(chan[v]) < ViewCap
  /\ chan' = [chan EXCEPT ![v] = IF viewer[v] = "gone" THEN @ ELSE Append(@, copy)]
  /\ IF todo' = {} THEN CastDone ELSE UNCHANGED <<consumer, copy>>
  /\ UNCHANGED <<viewer, shown, podVars, statVars, resetVars, chanVars, missed>>

\* "Skip slow clients"
Cast(v) ==
  /\ consumer = "cast" /\ v \in todo
  /\ todo' = todo \ {v}
  /\ \/ viewer[v] = "gone" /\ UNCHANGED <<chan, missed>>
     \/ /\ viewer[v] # "gone" /\ Len(chan[v]) < ViewCap
        /\ chan' = [chan EXCEPT ![v] = Append(@, copy)] /\ UNCHANGED missed
     \/ /\ viewer[v] # "gone" /\ Len(chan[v]) = ViewCap
        /\ missed' = missed \cup {v} /\ UNCHANGED chan
  /\ IF todo' = {} THEN CastDone ELSE UNCHANGED <<consumer, copy>>
  /\ UNCHANGED <<viewer, shown, podVars, statVars, resetVars, chanVars>>

----------------------------------------------------------------------------
\* A browser, which is not told the statistics when it connects

Connect(v) ==
  /\ viewer[v] = "away"
  /\ viewer' = [viewer EXCEPT ![v] = "open"]
  /\ UNCHANGED <<chan, shown, podVars, statVars, resetVars, chanVars, castVars, missed>>

Show(v) ==
  /\ viewer[v] = "open" /\ chan[v] # << >>
  /\ shown' = [shown EXCEPT ![v] = Head(chan[v])]
  /\ chan' = [chan EXCEPT ![v] = Tail(@)]
  /\ UNCHANGED <<viewer, podVars, statVars, resetVars, chanVars, castVars, missed>>

Disconnect(v) ==
  /\ viewer[v] = "open"
  /\ viewer' = [viewer EXCEPT ![v] = "gone"]
  /\ chan' = [chan EXCEPT ![v] = << >>] /\ shown' = [shown EXCEPT ![v] = Nothing]
  /\ UNCHANGED <<podVars, statVars, resetVars, chanVars, castVars, missed>>

----------------------------------------------------------------------------
Broadcast == Receive \/ Copy \/ \E v \in Viewers : Cast(v)

Next ==
  \/ \E c \in Conns : Register(c) \/ Report(c) \/ ReportSend(c) \/ Close(c)
  \/ ResetStats \/ ResetSend \/ Broadcast
  \/ \E v \in Viewers : Connect(v) \/ Show(v) \/ Disconnect(v)

Spec == Init /\ [][Next]_vars

\* The goroutine that broadcasts runs, and /setlab; pods and browsers may stop at any
\* point, in a send too.
Fairness == WF_vars(Broadcast) /\ WF_vars(ResetSend)

FairSpec == Spec /\ Fairness

----------------------------------------------------------------------------
\* A pod that is connected has its entry, over resets and the ends of other
\* connections, unless an earlier or later connection under its name has ended since
\* its last report: the deferred delete does not ask whose entry it is.
EntryOfConnected ==
  \A c \in Conns : Registered(c) => entry[pod[c]] # NoEntry \/ c \in displaced

\* The entries never add up to more than the total, but for those of pods that had
\* reported before the last reset and have reported again: their counts go on where
\* they were (stat of ServeHTTP against Reset).  The sum is the number of the units that
\* the entries count: <<p, k>> for every k up to the entry of p.
EntriesWithinTotal ==
  Cardinality({u \in (Pods \ inflated) \X (1..MaxReports) : u[2] <= entry[u[1]]}) <= total

\* When nothing is on its way, a browser that got the last broadcast shows the total,
\* and the entries if none came or went without a report; unless two senders were
\* overtaken between the mutex and the channel.
ViewerCurrent ==
  (reset = "idle" /\ statChan = << >> /\ consumer = "idle"
     /\ (\A c \in Conns : conn[c] # "send") /\ ~late) =>
  \A v \in Viewers \ missed :
     viewer[v] = "open" /\ chan[v] = << >> =>
       shown[v].total = total /\ (silent \/ shown[v].entry = entry)

\* Reset, and with it /setlab and its mutex, does not wait forever to send, whatever the
\* browsers do and however many pods are waiting too.
ResetEnds == reset = "send" ~> reset = "idle"
=============================================================================
