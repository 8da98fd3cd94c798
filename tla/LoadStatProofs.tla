---------------------------- MODULE LoadStatProofs ----------------------------
(***************************************************************************)
(* The load statistics are well typed, a connected pod has its entry, and  *)
(* an idle browser shows the current statistics, with the exceptions that  *)
(* the properties name.  For any pods, connections, browsers and capacities.*)
(***************************************************************************)
EXTENDS LoadStat, FiniteSetTheorems, TLAPS

----------------------------------------------------------------------------
\* Type correctness, and how far the counters can be.

Counters ==
  /\ total <= reports /\ version = reports + resets
  /\ \A c \in Conns : ok[c] <= reports

Inv == TypeOK /\ Counters

LEMMA Facts ==
  /\ MaxReports \in Nat /\ MaxResets \in Nat /\ StatCap \in Nat \ {0} /\ ViewCap \in Nat \ {0}
  /\ NoReport \in Snapshot /\ NoPods \in Entries /\ Nothing \in Shown
  /\ 0 # NoEntry /\ \A n \in Nat : n # NoEntry
  /\ Conns \subseteq Senders /\ Resetter \in Senders /\ Resetter \notin Conns
  /\ \A s \in Senders : s = Resetter \/ s \in Conns
  /\ PodsOf \subseteq [Conns -> Pods]
<1>1. MaxReports \in Nat /\ MaxResets \in Nat /\ 0 \in Totals /\ 0 \in Versions
  BY ConstantsAssumption DEF Totals, Versions
<1>2. NoPods \in Entries
  BY DEF NoPods, Entries
<1>3. NoReport \in Snapshot /\ Nothing \in Shown
  BY <1>1, <1>2 DEF NoReport, Snapshot, Nothing, Shown
<1>4. 0 # NoEntry /\ \A n \in Nat : n # NoEntry
  BY DEF NoEntry
<1> QED
  BY <1>1, <1>2, <1>3, <1>4, ConstantsAssumption DEF Senders

LEMMA InitInv == Init => Inv
<1> SUFFICES ASSUME Init PROVE Inv
  OBVIOUS
<1> USE Facts DEF Init
<1>1. << >> \in Seq(Snapshot) /\ << >> \in Seq(Shown) /\ Len(<< >>) = 0
  OBVIOUS
<1>2. /\ conn \in [Conns -> {"none", "open", "send", "gone"}]
      /\ pod \in PodsOf /\ ok \in [Conns -> 0..MaxReports] /\ reports \in 0..MaxReports
      /\ total \in Totals /\ entry \in Entries /\ version \in Versions /\ resets \in 0..MaxResets
  BY DEF Totals, Versions
<1>3. /\ pending \in [Senders -> Snapshot] /\ statChan \in Seq(Snapshot) /\ Len(statChan) <= StatCap
      /\ copy \in Shown /\ newest \in Versions
  BY <1>1 DEF Versions
<1>4. /\ viewer \in [Viewers -> {"away", "open", "gone"}] /\ shown \in [Viewers -> Shown]
  OBVIOUS
<1>5. chan \in [Viewers -> Seq(Shown)] /\ \A v \in Viewers : Len(chan[v]) <= ViewCap
  BY <1>1
<1>6. TypeOK
  BY <1>2, <1>3, <1>4, <1>5 DEF TypeOK
<1>7. Counters
  BY DEF Counters
<1> QED
  BY <1>6, <1>7 DEF Inv

\* What a send does to the channel.
LEMMA SendType ==
  ASSUME TypeOK, NEW s \in Senders, Send(s)
  PROVE  /\ statChan' \in Seq(Snapshot) /\ Len(statChan') <= StatCap
         /\ pending' \in [Senders -> Snapshot] /\ newest' \in Versions /\ late' \in BOOLEAN
<1> USE Facts
<1>1. statChan \in Seq(Snapshot) /\ pending[s] \in Snapshot /\ pending[s].version \in Versions /\ newest \in Versions
  BY DEF TypeOK, Snapshot
<1>2. statChan' \in Seq(Snapshot) /\ Len(statChan') <= StatCap
  BY <1>1 DEF Send
<1>3. pending' \in [Senders -> Snapshot]
  BY DEF Send, TypeOK
<1>4. newest' \in Versions /\ late' \in BOOLEAN
  BY <1>1 DEF Send
<1> QED
  BY <1>2, <1>3, <1>4

LEMMA PodInv ==
  ASSUME Inv, NEW c \in Conns, Register(c) \/ Report(c) \/ ReportSend(c) \/ Close(c)
  PROVE  Inv'
<1> USE Facts DEF Inv
<1>1. pod[c] \in Pods
  BY DEF TypeOK
<1>2. CASE Register(c) \/ Close(c)
  <2>1. conn' \in [Conns -> {"none", "open", "send", "gone"}]
    BY <1>2 DEF Register, Close, TypeOK
  <2>2. entry' \in Entries
    <3>1. 0 \in 0..MaxReports
      BY SMT
    <3>2. CASE Register(c)
      <4>1. entry' = [entry EXCEPT ![pod[c]] = 0]
        BY <3>2 DEF Register
      <4> QED
        BY <3>1, <4>1 DEF TypeOK, Entries
    <3>3. CASE Close(c)
      <4>1. entry' = [entry EXCEPT ![pod[c]] = NoEntry]
        BY <3>3 DEF Close
      <4> QED
        BY <4>1 DEF TypeOK, Entries
    <3> QED
      BY <1>2, <3>2, <3>3
  <2>3. displaced' \subseteq Conns /\ inflated' \subseteq Pods /\ silent' \in BOOLEAN
    BY <1>2 DEF Register, Close, TypeOK, SamePod
  <2>4. UNCHANGED <<pod, ok, reports, total, version, resetVars, chanVars, castVars, viewerVars, missed>>
    BY <1>2 DEF Register, Close
  <2> QED
    BY <2>1, <2>2, <2>3, <2>4 DEF TypeOK, Counters, resetVars, chanVars, castVars, viewerVars
<1>3. CASE Report(c)
  <2>1. /\ reports \in Nat /\ reports < MaxReports /\ reports' = reports + 1 /\ total' = total + 1
        /\ version' = version + 1 /\ total \in Nat /\ version \in Nat /\ resets \in 0..MaxResets
    BY <1>3 DEF Report, Take, TypeOK, Totals, Versions
  <2>2. /\ reports' \in 0..MaxReports /\ total' \in Totals /\ version' \in Versions
        /\ total' <= reports' /\ version' = reports' + resets
    BY <2>1 DEF Counters, Totals, Versions
  <2>3. ok[c] + 1 \in 0..MaxReports /\ ok[c] + 1 <= reports' /\ ok' = [ok EXCEPT ![c] = ok[c] + 1]
    BY <1>3, <2>1 DEF Report, Counters, TypeOK
  <2>4. ok' \in [Conns -> 0..MaxReports] /\ \A d \in Conns : ok'[d] <= reports'
    BY <2>1, <2>3 DEF Counters, TypeOK
  <2>5. entry' \in Entries
    BY <1>1, <1>3, <2>4 DEF Report, Entries, TypeOK
  <2>6. pending' \in [Senders -> Snapshot]
    <3>1. [total |-> total', version |-> version'] \in Snapshot
      BY <2>2 DEF Snapshot
    <3> QED
      BY <1>3, <3>1 DEF Report, Take, TypeOK
  <2>7. conn' \in [Conns -> {"none", "open", "send", "gone"}]
    BY <1>3 DEF Report, TypeOK
  <2>8. displaced' \subseteq Conns /\ inflated' \subseteq Pods /\ silent' \in BOOLEAN
    BY <1>1, <1>3 DEF Report, Take, TypeOK
  <2>9. UNCHANGED <<pod, resetVars, statChan, newest, late, castVars, viewerVars, missed>>
    BY <1>3 DEF Report
  <2>10. TypeOK'
    BY <2>2, <2>4, <2>5, <2>6, <2>7, <2>8, <2>9 DEF TypeOK, resetVars, castVars, viewerVars
  <2> QED
    BY <2>2, <2>4, <2>9, <2>10 DEF Counters, resetVars
<1>4. CASE ReportSend(c)
  <2>1. conn' \in [Conns -> {"none", "open", "send", "gone"}]
    BY <1>4 DEF ReportSend, TypeOK
  <2>2. /\ statChan' \in Seq(Snapshot) /\ Len(statChan') <= StatCap
        /\ pending' \in [Senders -> Snapshot] /\ newest' \in Versions /\ late' \in BOOLEAN
    BY <1>4, SendType DEF ReportSend
  <2>3. UNCHANGED <<pod, ok, reports, displaced, statVars, resetVars, castVars, viewerVars, missed>>
    BY <1>4 DEF ReportSend
  <2> QED
    BY <2>1, <2>2, <2>3 DEF TypeOK, Counters, statVars, resetVars, castVars, viewerVars
<1> QED
  BY <1>2, <1>3, <1>4

LEMMA ResetInv ==
  ASSUME Inv, ResetStats \/ ResetSend
  PROVE  Inv'
<1> USE Facts DEF Inv
<1>1. CASE ResetStats
  <2>1. /\ resets \in 0..MaxResets /\ resets < MaxResets /\ resets' = resets + 1 /\ total' = 0
        /\ version' = version + 1 /\ reports \in 0..MaxReports
    BY <1>1 DEF ResetStats, ResetBegins, Take, TypeOK
  <2>2. resets' \in 0..MaxResets /\ total' \in Totals /\ version' \in Versions /\ version' = reports + resets'
    BY <2>1 DEF Counters, Totals, Versions
  <2>3. pending' \in [Senders -> Snapshot]
    <3>1. [total |-> total', version |-> version'] \in Snapshot
      BY <2>2 DEF Snapshot
    <3> QED
      BY <1>1, <3>1 DEF ResetStats, ResetBegins, Take, TypeOK
  <2>4. entry' \in Entries
    BY <1>1 DEF ResetStats, Zeroed, TypeOK, Entries
  <2>5. carried' \subseteq Conns /\ inflated' \subseteq Pods /\ silent' \in BOOLEAN /\ reset' \in {"idle", "send"}
    BY <1>1 DEF ResetStats, ResetBegins, Take
  <2>6. UNCHANGED <<conn, pod, ok, reports, displaced, statChan, newest, late, castVars, viewerVars, missed>>
    BY <1>1 DEF ResetStats, ResetBegins
  <2>7. TypeOK'
    BY <2>2, <2>3, <2>4, <2>5, <2>6 DEF TypeOK, castVars, viewerVars
  <2>8. Counters'
    BY <2>1, <2>2, <2>6 DEF Counters
  <2> QED
    BY <2>7, <2>8
<1>2. CASE ResetSend
  <2>1. /\ statChan' \in Seq(Snapshot) /\ Len(statChan') <= StatCap
        /\ pending' \in [Senders -> Snapshot] /\ newest' \in Versions /\ late' \in BOOLEAN
    BY <1>2, SendType DEF ResetSend
  <2>2. reset' = "idle" /\ UNCHANGED <<podVars, statVars, resets, carried, castVars, viewerVars, missed>>
    BY <1>2 DEF ResetSend
  <2> QED
    BY <2>1, <2>2 DEF TypeOK, Counters, podVars, statVars, castVars, viewerVars
<1> QED
  BY <1>1, <1>2

LEMMA BroadcastInv ==
  ASSUME Inv, Broadcast
  PROVE  Inv'
<1> USE Facts DEF Inv
<1>1. UNCHANGED <<podVars, statVars, resetVars, pending, newest, late>>
  BY DEF Broadcast, Receive, Copy, Cast, chanVars
<1>2. Counters'
  BY <1>1 DEF Counters, podVars, statVars, resetVars
<1>3. CASE Receive
  <2>1. statChan \in Seq(Snapshot) /\ statChan # << >> /\ Len(statChan) <= StatCap /\ statChan' = Tail(statChan)
    BY <1>3 DEF Receive, TypeOK
  <2>2. /\ statChan' \in Seq(Snapshot) /\ Len(statChan') <= StatCap /\ Head(statChan) \in Snapshot
    BY <2>1
  <2>3. [Nothing EXCEPT !.total = Head(statChan).total] \in Shown
    BY <2>2 DEF Nothing, Shown, Snapshot
  <2>4. consumer' \in {"idle", "copy", "cast"} /\ copy' \in Shown /\ missed' \subseteq Viewers
    BY <1>3, <2>3 DEF Receive, TypeOK
  <2>5. UNCHANGED <<todo, viewerVars>>
    BY <1>3 DEF Receive
  <2> QED
    BY <1>1, <1>2, <2>2, <2>4, <2>5 DEF TypeOK, podVars, statVars, resetVars, viewerVars
<1>4. CASE Copy
  <2>1. todo' \subseteq Viewers /\ missed' \subseteq Viewers /\ UNCHANGED <<statChan, viewerVars>>
    BY <1>4 DEF Copy, Known, chanVars
  <2>2. [copy EXCEPT !.entry = entry] \in Shown
    BY DEF TypeOK, Shown
  <2>3. consumer' \in {"idle", "copy", "cast"} /\ copy' \in Shown
    BY <1>4, <2>2 DEF Copy, CastDone
  <2> QED
    BY <1>1, <1>2, <2>1, <2>3 DEF TypeOK, podVars, statVars, resetVars, viewerVars
<1>5. ASSUME NEW v \in Viewers, Cast(v)
      PROVE  Inv'
  <2>1. todo' \subseteq Viewers /\ missed' \subseteq Viewers /\ UNCHANGED <<statChan, viewer, shown>>
    BY <1>5 DEF Cast, TypeOK, chanVars
  <2>2. consumer' \in {"idle", "copy", "cast"} /\ copy' \in Shown
    BY <1>5 DEF Cast, CastDone, TypeOK
  <2>3. chan' \in [Viewers -> Seq(Shown)] /\ \A w \in Viewers : Len(chan'[w]) <= ViewCap
    <3>1. chan[v] \in Seq(Shown) /\ copy \in Shown /\ Len(chan[v]) <= ViewCap
      BY DEF TypeOK
    <3>2. CASE UNCHANGED chan
      BY <3>2 DEF TypeOK
    <3>3. CASE Len(chan[v]) < ViewCap /\ chan' = [chan EXCEPT ![v] = Append(@, copy)]
      <4>1. Append(chan[v], copy) \in Seq(Shown) /\ Len(Append(chan[v], copy)) <= ViewCap
        BY <3>1, <3>3
      <4> QED
        BY <3>3, <4>1 DEF TypeOK
    <3> QED
      BY <1>5, <3>2, <3>3 DEF Cast
  <2> QED
    BY <1>1, <1>2, <2>1, <2>2, <2>3 DEF TypeOK, podVars, statVars, resetVars
<1> QED
  BY <1>3, <1>4, <1>5 DEF Broadcast

LEMMA ViewerInv ==
  ASSUME Inv, NEW v \in Viewers, Connect(v) \/ Show(v) \/ Disconnect(v)
  PROVE  Inv'
<1> USE Facts DEF Inv
<1>1. UNCHANGED <<podVars, statVars, resetVars, chanVars, castVars, missed>>
  BY DEF Connect, Show, Disconnect
<1>2. viewer' \in [Viewers -> {"away", "open", "gone"}]
  BY DEF Connect, Show, Disconnect, TypeOK
<1>3. /\ chan' \in [Viewers -> Seq(Shown)] /\ \A w \in Viewers : Len(chan'[w]) <= ViewCap
      /\ shown' \in [Viewers -> Shown]
  <2>1. CASE Show(v)
    <3>1. chan[v] \in Seq(Shown) /\ chan[v] # << >> /\ Len(chan[v]) <= ViewCap
      BY <2>1 DEF Show, TypeOK
    <3>2. Head(chan[v]) \in Shown /\ Tail(chan[v]) \in Seq(Shown) /\ Len(Tail(chan[v])) <= ViewCap
      BY <3>1
    <3> QED
      BY <2>1, <3>2 DEF Show, TypeOK
  <2>2. CASE Connect(v)
    BY <2>2 DEF Connect, TypeOK
  <2>3. CASE Disconnect(v)
    BY <2>3 DEF Disconnect, TypeOK
  <2> QED
    BY <2>1, <2>2, <2>3
<1> QED
  BY <1>1, <1>2, <1>3 DEF TypeOK, Counters, podVars, statVars, resetVars, chanVars, castVars

LEMMA InvHolds == Spec => []Inv
<1>1. Inv /\ [Next]_vars => Inv'
  <2> SUFFICES ASSUME Inv, [Next]_vars PROVE Inv'
    OBVIOUS
  <2>1. CASE UNCHANGED vars
    BY <2>1 DEF vars, podVars, statVars, resetVars, chanVars, castVars, viewerVars, Inv, TypeOK, Counters
  <2>2. CASE Next
    BY <2>2, PodInv, ResetInv, BroadcastInv, ViewerInv DEF Next
  <2> QED
    BY <2>1, <2>2
<1> QED
  BY <1>1, InitInv, PTL DEF Spec

\* Every variable keeps its type: no total or entry is beyond what was reported, and no
\* channel holds more than its capacity.
THEOREM TypeCorrect == Spec => []TypeOK
BY InvHolds, PTL DEF Inv

----------------------------------------------------------------------------
\* The entries of connected pods.

\* However connections under one name come and go and resets fall in between: a pod that
\* is connected has its entry, unless another connection under its name has ended since
\* its last report.
THEOREM ConnectedHaveEntry == Spec => []EntryOfConnected
<1>1. Init => EntryOfConnected
  BY DEF Init, EntryOfConnected, Registered
<1>2. Inv /\ EntryOfConnected /\ [Next]_vars => EntryOfConnected'
  <2> SUFFICES ASSUME Inv, EntryOfConnected, [Next]_vars PROVE EntryOfConnected'
    OBVIOUS
  <2> USE Facts DEF Inv
  <2>1. pod \in [Conns -> Pods] /\ pod' = pod
    BY DEF TypeOK, Next, Register, Report, ReportSend, Close, ResetStats, ResetBegins, ResetSend, Broadcast, Receive,
           Copy, Cast, Connect, Show, Disconnect, vars, podVars
  <2>2. ASSUME NEW c \in Conns, Register(c)
        PROVE  EntryOfConnected'
    <3>1. /\ entry' = [entry EXCEPT ![pod[c]] = 0] /\ displaced' = displaced \ SamePod(c)
          /\ \A d \in Conns : d # c => conn'[d] = conn[d]
      BY <2>2 DEF Register, TypeOK
    <3>2. ASSUME NEW d \in Conns, pod[d] = pod[c]
          PROVE  entry'[pod[d]] # NoEntry
      BY <2>1, <3>1, <3>2 DEF TypeOK, Entries
    <3>3. ASSUME NEW d \in Conns, pod[d] # pod[c], Registered(d)'
          PROVE  entry'[pod[d]] # NoEntry \/ d \in displaced'
      BY <2>1, <3>1, <3>3 DEF TypeOK, Entries, EntryOfConnected, Registered, SamePod
    <3> QED
      BY <2>1, <3>2, <3>3 DEF EntryOfConnected
  <2>3. ASSUME NEW c \in Conns, Report(c)
        PROVE  EntryOfConnected'
    <3>1. /\ entry' = [entry EXCEPT ![pod[c]] = ok'[c]] /\ displaced' = displaced \ SamePod(c)
          /\ \A d \in Conns : Registered(d)' => Registered(d)
      BY <2>3 DEF Report, TypeOK, Registered
    <3>2. ok'[c] \in Nat
      BY <2>3 DEF Report, TypeOK
    <3>3. ASSUME NEW d \in Conns, pod[d] = pod[c]
          PROVE  entry'[pod[d]] # NoEntry
      BY <2>1, <3>1, <3>2, <3>3 DEF TypeOK, Entries
    <3>4. ASSUME NEW d \in Conns, pod[d] # pod[c], Registered(d)'
          PROVE  entry'[pod[d]] # NoEntry \/ d \in displaced'
      BY <2>1, <3>1, <3>4 DEF TypeOK, Entries, EntryOfConnected, SamePod
    <3> QED
      BY <2>1, <3>3, <3>4 DEF EntryOfConnected
  <2>4. ASSUME NEW c \in Conns, Close(c)
        PROVE  EntryOfConnected'
    <3>1. /\ entry' = [entry EXCEPT ![pod[c]] = NoEntry] /\ ~Registered(c)'
          /\ displaced' = (displaced \cup {d \in SamePod(c) : Registered(d)}) \ {c}
          /\ \A d \in Conns : Registered(d)' => Registered(d)
      BY <2>4 DEF Close, TypeOK, Registered
    <3>2. ASSUME NEW d \in Conns, pod[d] = pod[c], Registered(d)'
          PROVE  d \in displaced'
      BY <3>1, <3>2 DEF SamePod
    <3>3. ASSUME NEW d \in Conns, pod[d] # pod[c], Registered(d)'
          PROVE  entry'[pod[d]] # NoEntry \/ d \in displaced'
      BY <2>1, <3>1, <3>3 DEF TypeOK, Entries, EntryOfConnected
    <3> QED
      BY <2>1, <3>2, <3>3 DEF EntryOfConnected
  <2>5. ASSUME NEW c \in Conns, ReportSend(c)
        PROVE  EntryOfConnected'
    BY <2>5 DEF ReportSend, TypeOK, EntryOfConnected, Registered, statVars
  <2>6. CASE ResetStats
    <3>1. entry' = Zeroed /\ UNCHANGED <<conn, displaced>>
      BY <2>6 DEF ResetStats, ResetBegins
    <3>2. \A p \in Pods : entry[p] # NoEntry => entry'[p] # NoEntry
      BY <3>1 DEF Zeroed
    <3> QED
      BY <2>1, <3>1, <3>2 DEF EntryOfConnected, Registered
  <2>7. CASE UNCHANGED vars \/ ResetSend \/ Broadcast \/ \E v \in Viewers : Connect(v) \/ Show(v) \/ Disconnect(v)
    <3>1. UNCHANGED <<conn, displaced, entry>>
      BY <2>7 DEF vars, podVars, statVars, ResetSend, Broadcast, Receive, Copy, Cast, Connect, Show, Disconnect
    <3> QED
      BY <2>1, <3>1 DEF EntryOfConnected, Registered
  <2> QED
    BY <2>2, <2>3, <2>4, <2>5, <2>6, <2>7 DEF Next
<1> QED
  BY <1>1, <1>2, InvHolds, PTL DEF Spec

----------------------------------------------------------------------------
\* What the browsers show.

Sending(s) == IF s = Resetter THEN reset = "send" ELSE conn[s] = "send"

\* The newest statistics are in statChan or past it, or somebody is to send them.
Newest ==
  /\ newest <= version
  /\ \A s \in Senders : Sending(s) =>
       pending[s].version <= version /\ (pending[s].version = version => pending[s].total = total)
  /\ version = newest \/ \E s \in Senders : Sending(s) /\ pending[s].version = version

\* Everything was sent, and the newest last.
Settled == ~late /\ \A s \in Senders : ~Sending(s)

Fresh(x) == x.total = total /\ (silent \/ x.entry = entry)

\* The last statistics that v has got.
Got(v) == IF chan[v] = << >> THEN shown[v] ELSE chan[v][Len(chan[v])]

\* Then the newest is the last in statChan, or the goroutine broadcasts it, or browsers
\* have got it.
Arriving ==
  IF statChan # << >> THEN statChan[Len(statChan)].total = total
  ELSE /\ consumer = "copy" => copy.total = total
       /\ consumer = "cast" => Fresh(copy)
       /\ consumer # "copy" =>
            \A v \in Viewers \ missed : viewer[v] = "open" =>
              Fresh(Got(v)) \/ (consumer = "cast" /\ v \in todo)

Shows ==
  /\ Settled => Arriving
  /\ \A v \in Viewers : viewer[v] = "away" => v \in missed

LEMMA NewestKept ==
  ASSUME Inv, Newest, [Next]_vars
  PROVE  Newest'
<1> USE Facts DEF Inv
<1>1. /\ version \in Nat /\ newest \in Nat /\ \A s \in Senders : pending[s].version \in Nat
  BY DEF TypeOK, Versions, Snapshot
<1>2. ASSUME NEW s \in Senders, Take(s), Sending(s)', newest' = newest,
             \A q \in Senders : q # s /\ Sending(q)' => Sending(q)
      PROVE  Newest'
  <2>1. /\ version' = version + 1 /\ pending'[s] = [total |-> total', version |-> version']
        /\ \A q \in Senders : q # s => pending'[q] = pending[q]
    BY <1>2 DEF Take, TypeOK
  <2> QED
    BY <1>1, <1>2, <2>1 DEF Newest
<1>3. ASSUME NEW s \in Senders, Send(s), Sending(s), ~Sending(s)', UNCHANGED <<version, total>>,
             \A q \in Senders : q # s => Sending(q)' = Sending(q)
      PROVE  Newest'
  <2>1. /\ newest' = IF pending[s].version < newest THEN newest ELSE pending[s].version
        /\ \A q \in Senders : q # s => pending'[q] = pending[q]
    BY <1>3 DEF Send, TypeOK
  <2>2. newest' \in Nat /\ newest' <= version
    BY <1>1, <1>3, <2>1 DEF Newest
  <2>3. pending[s].version = version \/ version = newest => version = newest'
    BY <1>1, <1>3, <2>1 DEF Newest
  <2> QED
    BY <1>1, <1>3, <2>1, <2>2, <2>3 DEF Newest
<1>4. ASSUME UNCHANGED <<version, total, newest, pending>>, \A q \in Senders : Sending(q)' = Sending(q)
      PROVE  Newest'
  BY <1>4 DEF Newest
<1>5. ASSUME NEW c \in Conns, Register(c) \/ Close(c)
      PROVE  Newest'
  <2>1. UNCHANGED <<version, total, newest, pending, reset>>
    BY <1>5 DEF Register, Close, chanVars, resetVars
  <2>2. \A d \in Conns : (conn'[d] = "send") = (conn[d] = "send")
    BY <1>5 DEF Register, Close, TypeOK
  <2> QED
    BY <1>4, <2>1, <2>2 DEF Sending
<1>6. ASSUME NEW c \in Conns, Report(c)
      PROVE  Newest'
  <2>1. /\ Take(c) /\ newest' = newest /\ conn'[c] = "send" /\ reset' = reset
        /\ \A d \in Conns : d # c => conn'[d] = conn[d]
    BY <1>6 DEF Report, TypeOK, resetVars
  <2> QED
    BY <1>2, <2>1 DEF Sending
<1>7. ASSUME NEW c \in Conns, ReportSend(c)
      PROVE  Newest'
  <2>1. /\ Send(c) /\ UNCHANGED <<version, total, reset>> /\ conn[c] = "send" /\ conn'[c] = "open"
        /\ \A d \in Conns : d # c => conn'[d] = conn[d]
    BY <1>7 DEF ReportSend, TypeOK, statVars, resetVars
  <2> QED
    BY <1>3, <2>1 DEF Sending
<1>8. CASE ResetStats
  <2>1. Take(Resetter) /\ newest' = newest /\ reset' = "send" /\ conn' = conn
    BY <1>8 DEF ResetStats, ResetBegins
  <2> QED
    BY <1>2, <2>1 DEF Sending
<1>9. CASE ResetSend
  <2>1. Send(Resetter) /\ UNCHANGED <<version, total, conn>> /\ reset = "send" /\ reset' = "idle"
    BY <1>9 DEF ResetSend, statVars, podVars
  <2> QED
    BY <1>3, <2>1 DEF Sending
<1>10. CASE UNCHANGED vars \/ Broadcast \/ \E v \in Viewers : Connect(v) \/ Show(v) \/ Disconnect(v)
  <2>1. UNCHANGED <<version, total, newest, pending, reset, conn>>
    BY <1>10 DEF vars, podVars, statVars, resetVars, chanVars, Broadcast, Receive, Copy, Cast, Connect, Show, Disconnect
  <2> QED
    BY <1>4, <2>1 DEF Sending
<1> QED
  BY <1>5, <1>6, <1>7, <1>8, <1>9, <1>10 DEF Next

LEMMA LastOf ==
  ASSUME NEW S, NEW q \in Seq(S)
  PROVE  /\ q # << >> => /\ Tail(q) = << >> => Head(q) = q[Len(q)]
                         /\ Tail(q) # << >> => Tail(q)[Len(Tail(q))] = q[Len(q)]
         /\ \A x \in S : Append(q, x) # << >> /\ Append(q, x)[Len(Append(q, x))] = x
<1>1. ASSUME q # << >>
      PROVE  /\ Tail(q) = << >> => Head(q) = q[Len(q)]
             /\ Tail(q) # << >> => Tail(q)[Len(Tail(q))] = q[Len(q)]
  <2>1. Len(q) \in Nat /\ Len(q) >= 1 /\ Len(Tail(q)) = Len(q) - 1 /\ Head(q) = q[1]
    BY <1>1
  <2>2. Tail(q) = << >> => Len(q) = 1
    <3>1. Len(<< >>) = 0
      OBVIOUS
    <3>2. Tail(q) = << >> => Len(Tail(q)) = 0
      BY <3>1, Zenon
    <3> QED
      BY <2>1, <3>2
  <2>3. Tail(q) # << >> => Len(Tail(q)) >= 1 /\ Tail(q)[Len(Tail(q))] = q[Len(Tail(q)) + 1]
    BY <1>1
  <2> QED
    BY <2>1, <2>2, <2>3
<1>2. ASSUME NEW x \in S
      PROVE  Append(q, x) # << >> /\ Append(q, x)[Len(Append(q, x))] = x
  OBVIOUS
<1> QED
  BY <1>1, <1>2

\* The last sender sends, and is not late: it is the newest that it sends.
LEMMA SendSettles ==
  ASSUME Inv, Newest, NEW s \in Senders, Send(s), Sending(s), UNCHANGED <<version, total>>,
         \A q \in Senders : q # s => Sending(q)' = Sending(q), Settled'
  PROVE  Arriving'
<1> USE Facts DEF Inv
<1>1. /\ version \in Nat /\ newest \in Nat /\ pending[s] \in Snapshot /\ pending[s].version \in Nat
      /\ statChan \in Seq(Snapshot)
  BY DEF TypeOK, Versions, Snapshot
<1>2. \A q \in Senders : q # s => ~Sending(q)
  BY DEF Settled
<1>3. ~(pending[s].version < newest)
  BY DEF Send, Settled
<1>4. pending[s].version = version
  BY <1>1, <1>2, <1>3 DEF Newest
<1>5. pending[s].total = total
  BY <1>4 DEF Newest
<1>6. statChan' # << >> /\ statChan'[Len(statChan')] = pending[s]
  BY <1>1, LastOf DEF Send
<1> QED
  BY <1>5, <1>6 DEF Arriving

LEMMA ShowsKept ==
  ASSUME Inv, Newest, Shows, [Next]_vars
  PROVE  Shows'
<1> USE Facts DEF Inv
<1>1. statChan \in Seq(Snapshot) /\ chan \in [Viewers -> Seq(Shown)] /\ copy \in Shown
  BY DEF TypeOK
<1>2. CASE \/ \E c \in Conns : Register(c) \/ Report(c) \/ ReportSend(c) \/ Close(c)
           \/ ResetStats \/ ResetSend
  <2>1. UNCHANGED <<viewer, missed, chan, shown, consumer, copy, todo>>
    BY <1>2 DEF Register, Report, ReportSend, Close, ResetStats, ResetBegins, ResetSend, castVars, viewerVars
  <2>2. ASSUME NEW c \in Conns, Register(c) \/ Close(c), Settled'
        PROVE  Arriving'
    <3>1. /\ UNCHANGED <<late, reset, statChan, total>> /\ silent' = TRUE
          /\ \A d \in Conns : (conn'[d] = "send") = (conn[d] = "send")
      BY <2>2 DEF Register, Close, TypeOK, resetVars, chanVars
    <3>2. Settled
      BY <2>2, <3>1 DEF Settled, Sending
    <3>3. \A x : Fresh(x) => Fresh(x)'
      BY <3>1 DEF Fresh
    <3> QED
      BY <2>1, <3>1, <3>2, <3>3 DEF Shows, Arriving, Got, Fresh
  <2>3. ASSUME NEW c \in Conns, Report(c)
        PROVE  ~Settled'
    <3>1. conn'[c] = "send"
      BY <2>3 DEF Report, TypeOK
    <3> QED
      BY <3>1 DEF Settled, Sending
  <2>4. ResetStats => ~Settled'
    BY DEF ResetStats, ResetBegins, Settled, Sending
  <2>5. ASSUME NEW c \in Conns, ReportSend(c), Settled'
        PROVE  Arriving'
    <3>1. /\ Send(c) /\ UNCHANGED <<version, total, reset>> /\ conn[c] = "send"
          /\ \A d \in Conns : d # c => conn'[d] = conn[d]
      BY <2>5 DEF ReportSend, TypeOK, statVars, resetVars
    <3> QED
      BY <2>5, <3>1, SendSettles DEF Sending
  <2>6. ASSUME ResetSend, Settled'
        PROVE  Arriving'
    <3>1. Send(Resetter) /\ UNCHANGED <<version, total, conn>> /\ reset = "send"
      BY <2>6 DEF ResetSend, statVars, podVars
    <3> QED
      BY <2>6, <3>1, SendSettles DEF Sending
  <2> QED
    BY <1>2, <2>1, <2>2, <2>3, <2>4, <2>5, <2>6 DEF Shows
<1>3. ASSUME UNCHANGED <<conn, reset, late, total, entry, silent>>
      PROVE  Settled' = Settled /\ \A x : Fresh(x)' = Fresh(x)
  BY <1>3 DEF Settled, Sending, Fresh
<1>4. CASE Receive
  <2>1. /\ UNCHANGED <<conn, reset, late, total, entry, silent, todo, viewer, chan, shown>>
        /\ consumer = "idle" /\ statChan # << >> /\ statChan' = Tail(statChan)
        /\ \/ missed' = Viewers /\ UNCHANGED <<consumer, copy>>
           \/ consumer' = "copy" /\ copy'.total = Head(statChan).total /\ UNCHANGED missed
    BY <1>4 DEF Receive, Nothing, podVars, resetVars, statVars, viewerVars
  <2>2. /\ statChan' = << >> => Head(statChan) = statChan[Len(statChan)]
        /\ statChan' # << >> => statChan'[Len(statChan')] = statChan[Len(statChan)]
    BY <1>1, <2>1, LastOf
  <2>3. Arriving => Arriving'
    BY <2>1, <2>2 DEF Arriving
  <2>4. Settled' = Settled
    BY <1>3, <2>1
  <2> QED
    BY <2>1, <2>3, <2>4 DEF Shows
<1>5. CASE Copy
  <2>1. /\ UNCHANGED <<conn, reset, late, total, entry, silent, statChan, viewer, chan, shown>>
        /\ consumer = "copy" /\ todo' = Known /\ missed' = Viewers \ Known
        /\ \/ Known = {} /\ consumer' = "idle"
           \/ consumer' = "cast" /\ copy' = [copy EXCEPT !.entry = entry]
    BY <1>5 DEF Copy, CastDone, podVars, resetVars, statVars, chanVars, viewerVars
  <2>2. copy' = [copy EXCEPT !.entry = entry] => copy'.total = copy.total /\ copy'.entry = entry
    BY <1>1 DEF Shown
  <2>3. Arriving => Arriving'
    BY <2>1, <2>2 DEF Arriving, Fresh
  <2>4. Settled' = Settled
    BY <1>3, <2>1
  <2>5. \A v \in Viewers : viewer'[v] = "away" => v \in missed'
    BY <2>1 DEF Known
  <2> QED
    BY <2>3, <2>4, <2>5 DEF Shows
<1>6. ASSUME NEW v \in Viewers, Cast(v)
      PROVE  Shows'
  <2>1. /\ UNCHANGED <<conn, reset, late, total, entry, silent, statChan, viewer, shown>>
        /\ consumer = "cast" /\ v \in todo /\ todo' = todo \ {v} /\ missed \subseteq missed'
        /\ \/ todo' = {} /\ consumer' = "idle"
           \/ consumer' = "cast" /\ copy' = copy
        /\ \A w \in Viewers : w # v => chan'[w] = chan[w]
    BY <1>6 DEF Cast, CastDone, TypeOK, podVars, resetVars, statVars, chanVars
  <2>2. viewer[v] = "open" => v \in missed' \/ Got(v)' = copy
    <3>1. viewer[v] = "open" => v \in missed' \/ chan' = [chan EXCEPT ![v] = Append(@, copy)]
      BY <1>6 DEF Cast
    <3>2. chan' = [chan EXCEPT ![v] = Append(@, copy)] => chan'[v] = Append(chan[v], copy)
      BY <1>1
    <3>3. chan[v] \in Seq(Shown)
      BY <1>1
    <3> QED
      BY <1>1, <3>1, <3>2, <3>3, LastOf DEF Got
  <2>3. \A w \in Viewers : w # v => Got(w)' = Got(w)
    BY <2>1 DEF Got
  <2>4. \A x : Fresh(x)' = Fresh(x)
    BY <1>3, <2>1
  <2>5. CASE statChan # << >>
    BY <1>3, <2>1, <2>5 DEF Shows, Arriving
  <2>6. CASE statChan = << >> /\ Settled
    <3>1. Fresh(copy) /\ \A w \in Viewers \ missed : viewer[w] = "open" => Fresh(Got(w)) \/ w \in todo
      BY <2>1, <2>6 DEF Shows, Arriving
    <3>2. ASSUME NEW w \in Viewers \ missed', viewer'[w] = "open"
          PROVE  Fresh(Got(w))' \/ w \in todo'
      <4>1. CASE w = v
        <5>1. Got(w)' = copy
          BY <2>1, <2>2, <3>2, <4>1
        <5> QED
          BY <2>1, <3>1, <5>1 DEF Fresh
      <4>2. CASE w # v
        <5>1. Got(w)' = Got(w) /\ (Fresh(Got(w)) \/ w \in todo)
          BY <2>1, <2>3, <3>1, <3>2, <4>2
        <5> QED
          BY <2>1, <4>2, <5>1 DEF Fresh
      <4> QED
        BY <4>1, <4>2
    <3>3. consumer' = "cast" => Fresh(copy)'
      BY <2>1, <3>1 DEF Fresh
    <3>4. Arriving'
      BY <2>1, <2>6, <3>2, <3>3 DEF Arriving
    <3> QED
      BY <2>1, <3>4 DEF Shows
  <2>7. CASE ~Settled
    BY <1>3, <2>1, <2>7 DEF Shows
  <2> QED
    BY <2>5, <2>6, <2>7
<1>7. ASSUME NEW v \in Viewers, Connect(v) \/ Show(v) \/ Disconnect(v)
      PROVE  Shows'
  <2>1. /\ UNCHANGED <<conn, reset, late, total, entry, silent, statChan, consumer, copy, todo, missed>>
        /\ \A w \in Viewers : w # v => viewer'[w] = viewer[w] /\ chan'[w] = chan[w] /\ shown'[w] = shown[w]
    BY <1>7 DEF Connect, Show, Disconnect, TypeOK, podVars, resetVars, statVars, chanVars, castVars
  <2>2. viewer'[v] # "away"
    BY <1>7 DEF Connect, Show, Disconnect, TypeOK
  <2>3. viewer'[v] = "open" => v \in missed \/ (viewer[v] = "open" /\ Got(v)' = Got(v))
    <3>1. CASE Connect(v)
      BY <3>1 DEF Connect, Shows
    <3>2. CASE Show(v)
      <4>1. /\ viewer[v] = "open" /\ chan[v] # << >> /\ chan[v] \in Seq(Shown)
            /\ shown'[v] = Head(chan[v]) /\ chan'[v] = Tail(chan[v])
        BY <3>2 DEF Show, TypeOK
      <4> QED
        BY <4>1, LastOf DEF Got
    <3>3. CASE Disconnect(v)
      BY <3>3 DEF Disconnect, TypeOK
    <3> QED
      BY <1>7, <3>1, <3>2, <3>3
  <2>4. \A w \in Viewers \ missed : viewer'[w] = "open" => viewer[w] = "open" /\ Got(w)' = Got(w)
    BY <2>1, <2>3 DEF Got
  <2>5. Settled' = Settled
    BY <1>3, <2>1
  <2>6. Arriving => Arriving'
    BY <2>1, <2>4 DEF Arriving, Fresh
  <2> QED
    BY <2>1, <2>2, <2>5, <2>6 DEF Shows
<1>8. CASE UNCHANGED vars
  BY <1>8 DEF vars, podVars, statVars, resetVars, chanVars, castVars, viewerVars, Shows, Settled, Sending, Arriving,
              Fresh, Got
<1> QED
  BY <1>2, <1>4, <1>5, <1>6, <1>7, <1>8 DEF Next, Broadcast

\* However reports, resets, broadcasts and browsers that come and go interleave: when
\* nothing is on its way a browser shows the current statistics, with the exceptions that
\* ViewerCurrent names.
THEOREM ViewersAreCurrent == Spec => []ViewerCurrent
<1>1. Init => Newest /\ Shows
  BY Facts DEF Init, Newest, Shows, Settled, Sending, Arriving
<1>2. Inv /\ Newest /\ [Next]_vars => Newest'
  BY NewestKept
<1>3. Inv /\ Newest /\ Shows /\ [Next]_vars => Shows'
  BY ShowsKept
<1>4. Shows => ViewerCurrent
  <2> SUFFICES ASSUME Shows, reset = "idle", statChan = << >>, consumer = "idle",
                      \A c \in Conns : conn[c] # "send", ~late,
                      NEW v \in Viewers \ missed, viewer[v] = "open", chan[v] = << >>
               PROVE  shown[v].total = total /\ (silent \/ shown[v].entry = entry)
    BY DEF ViewerCurrent
  <2>1. Settled
    BY Facts DEF Settled, Sending
  <2> QED
    BY <2>1 DEF Shows, Arriving, Fresh, Got
<1> QED
  BY <1>1, <1>2, <1>3, <1>4, InvHolds, PTL DEF Spec

----------------------------------------------------------------------------
\* The entries and the total.

\* The reports of those connections that had made none before the last reset.
Units ==
  {u \in Conns \X (1..MaxReports) : Registered(u[1]) /\ u[1] \notin carried /\ u[2] <= ok[u[1]]}

\* The entry of p is the count of the connection c.
EntryOf(p, c) == Registered(c) /\ c \notin carried /\ pod[c] = p /\ entry[p] <= ok[c]

\* Each of them was added to the total, and an entry that is not inflated is one
\* connection's: two pods have their entries of two connections.
Accounted ==
  /\ \A c \in Conns : conn[c] = "none" => ok[c] = 0
  /\ IsFiniteSet(Units) /\ Cardinality(Units) <= total
  /\ \A p \in Pods \ inflated : entry[p] > 0 => \E c \in Conns : EntryOf(p, c)

\* The units that the entries count are as many as some that the connections do.
LEMMA AccountedWithin ==
  ASSUME Inv, Accounted
  PROVE  EntriesWithinTotal
<1> DEFINE Counted == {u \in (Pods \ inflated) \X (1..MaxReports) : u[2] <= entry[u[1]]}
           Owner(p) == CHOOSE c \in Conns : EntryOf(p, c)
           f == [u \in Counted |-> <<Owner(u[1]), u[2]>>]
<1>1. \A u \in Counted : /\ u = <<u[1], u[2]>> /\ u[1] \in Pods \ inflated /\ u[2] \in 1..MaxReports
                         /\ u[2] <= entry[u[1]] /\ entry[u[1]] \in Int
  BY Facts DEF Inv, TypeOK, Entries, NoEntry
<1>2. \A u \in Counted : Owner(u[1]) \in Conns /\ EntryOf(u[1], Owner(u[1]))
  <2> SUFFICES ASSUME NEW u \in Counted PROVE \E c \in Conns : EntryOf(u[1], c)
    OBVIOUS
  <2>1. entry[u[1]] > 0
    BY <1>1, Facts
  <2> QED
    BY <1>1, <2>1 DEF Accounted
<1>3. \A c \in Conns : ok[c] \in Int
  BY DEF Inv, TypeOK
<1> HIDE DEF Owner, Counted
<1>4. \A u \in Counted : <<Owner(u[1]), u[2]>> \in Units
  <2> SUFFICES ASSUME NEW u \in Counted PROVE <<Owner(u[1]), u[2]>> \in Units
    OBVIOUS
  <2>1. u[2] \in 1..MaxReports /\ u[2] <= entry[u[1]] /\ entry[u[1]] <= ok[Owner(u[1])]
    BY <1>1, <1>2 DEF EntryOf
  <2>2. u[2] <= ok[Owner(u[1])]
    BY <1>1, <1>2, <1>3, <2>1, Facts
  <2> QED
    BY <1>2, <2>1, <2>2 DEF EntryOf, Units
<1>5. f \in [Counted -> Units]
  BY <1>4
<1>6. \A u, w \in Counted : f[u] = f[w] => u = w
  <2> SUFFICES ASSUME NEW u \in Counted, NEW w \in Counted, f[u] = f[w] PROVE u = w
    OBVIOUS
  <2>1. Owner(u[1]) = Owner(w[1]) /\ u[2] = w[2]
    OBVIOUS
  <2>2. u[1] = w[1]
    BY <1>2, <2>1 DEF EntryOf
  <2> QED
    BY <1>1, <2>1, <2>2
<1>7. f \in Injection(Counted, Units)
  BY <1>5, <1>6 DEF Injection, IsInjective
<1>8. Cardinality(Counted) <= Cardinality(Units) /\ IsFiniteSet(Counted)
  BY <1>7, FS_Injection DEF Accounted
<1>9. Cardinality(Counted) <= total
  <2>1. Cardinality(Counted) \in Nat /\ Cardinality(Units) \in Nat
    BY <1>8, FS_CardinalityType DEF Accounted
  <2> QED
    BY <1>8, <2>1 DEF Accounted, Inv, TypeOK, Totals
<1> QED
  BY <1>9 DEF EntriesWithinTotal, Counted

\* The steps of a pod's connection.
LEMMA PodAccounted ==
  ASSUME Inv, Accounted, NEW c \in Conns, Register(c) \/ Report(c) \/ ReportSend(c) \/ Close(c)
  PROVE  Accounted'
<1> USE Facts
<1>1. /\ pod \in [Conns -> Pods] /\ conn \in [Conns -> {"none", "open", "send", "gone"}]
      /\ ok \in [Conns -> 0..MaxReports] /\ entry \in Entries /\ total \in Nat
  BY DEF Inv, TypeOK, Totals
<1>2. UNCHANGED <<pod, carried>> /\ total' \in {total, total + 1}
  BY DEF Register, Report, ReportSend, Close, resetVars, statVars
<1>3. IsFiniteSet(Units) /\ Cardinality(Units) \in Nat /\ Cardinality(Units) <= total
  BY FS_CardinalityType DEF Accounted
<1>4. ASSUME Units' \subseteq Units, UNCHANGED total
      PROVE  IsFiniteSet(Units') /\ Cardinality(Units') <= total'
  <2>1. IsFiniteSet(Units') /\ Cardinality(Units') <= Cardinality(Units)
    BY <1>3, <1>4, FS_Subset
  <2>2. Cardinality(Units') \in Nat
    BY <2>1, FS_CardinalityType
  <2> QED
    BY <1>1, <1>3, <1>4, <2>1, <2>2
<1>5. CASE Register(c)
  <2>1. /\ conn[c] = "none" /\ conn' = [conn EXCEPT ![c] = "open"] /\ UNCHANGED <<ok, total>>
        /\ entry' = [entry EXCEPT ![pod[c]] = 0] /\ inflated' = inflated \ {pod[c]}
    BY <1>5 DEF Register
  <2>2. ok[c] = 0
    BY <2>1 DEF Accounted
  <2>3. Units' \subseteq Units
    BY <1>1, <1>2, <2>1, <2>2 DEF Units, Registered
  <2>4. \A p \in Pods \ inflated' : entry'[p] > 0 => p # pod[c] /\ p \in Pods \ inflated /\ entry'[p] = entry[p]
    BY <1>1, <2>1 DEF Entries
  <2>5. \A p \in Pods \ inflated', d \in Conns :
           entry'[p] > 0 /\ EntryOf(p, d) => EntryOf(p, d)'
    BY <1>1, <1>2, <2>1, <2>4 DEF EntryOf, Registered
  <2> QED
    BY <1>1, <1>4, <2>1, <2>3, <2>4, <2>5 DEF Accounted
<1>6. CASE Report(c)
  <2>1. /\ conn[c] = "open" /\ conn' = [conn EXCEPT ![c] = "send"] /\ ok' = [ok EXCEPT ![c] = @ + 1]
        /\ total' = total + 1 /\ entry' = [entry EXCEPT ![pod[c]] = ok'[c]]
        /\ inflated' = IF c \in carried THEN inflated \cup {pod[c]} ELSE inflated \ {pod[c]}
    BY <1>6 DEF Report
  <2>2. /\ ok'[c] = ok[c] + 1 /\ ok[c] \in Nat /\ \A d \in Conns : d # c => ok'[d] = ok[d]
        /\ \A d \in Conns : Registered(d)' = Registered(d)
        /\ entry'[pod[c]] = ok'[c] /\ \A p \in Pods : p # pod[c] => entry'[p] = entry[p]
    BY <1>1, <2>1 DEF Registered, Entries
  <2>3. Units' \subseteq Units \cup {<<c, ok[c] + 1>>}
    <3> SUFFICES ASSUME NEW u \in Units', u \notin Units PROVE u = <<c, ok[c] + 1>>
      OBVIOUS
    <3>1. /\ u = <<u[1], u[2]>> /\ u[1] \in Conns /\ u[2] \in 1..MaxReports /\ Registered(u[1])
          /\ u[1] \notin carried /\ u[2] <= ok'[u[1]]
      BY <1>2, <2>2 DEF Units
    <3>2. ~(u[2] <= ok[u[1]])
      BY <3>1 DEF Units
    <3>3. u[1] = c
      BY <2>2, <3>1, <3>2
    <3>4. u[2] = ok[c] + 1
      BY <2>2, <3>1, <3>2, <3>3
    <3> QED
      BY <3>1, <3>3, <3>4
  <2>4. IsFiniteSet(Units') /\ Cardinality(Units') <= total'
    <3> DEFINE More == Units \cup {<<c, ok[c] + 1>>}
    <3>1. IsFiniteSet(More) /\ Cardinality(More) \in {Cardinality(Units), Cardinality(Units) + 1}
      BY <1>3, FS_AddElement
    <3>2. Cardinality(More) \in Nat /\ Cardinality(More) <= total + 1
      BY <1>1, <1>3, <3>1
    <3>3. IsFiniteSet(Units') /\ Cardinality(Units') <= Cardinality(More)
      BY <2>3, <3>1, FS_Subset
    <3>4. Cardinality(Units') \in Nat
      BY <3>3, FS_CardinalityType
    <3> HIDE DEF More
    <3> QED
      BY <1>1, <2>1, <3>2, <3>3, <3>4
  <2>5. \A d \in Conns : conn'[d] = "none" => ok'[d] = 0
    BY <1>1, <2>1, <2>2 DEF Accounted
  <2>6. ASSUME NEW p \in Pods \ inflated', entry'[p] > 0
        PROVE  \E d \in Conns : EntryOf(p, d)'
    <3>1. CASE p = pod[c]
      <4>1. c \notin carried /\ Registered(c)'
        BY <1>1, <2>1, <2>6, <3>1 DEF Registered
      <4> QED
        BY <1>1, <1>2, <2>2, <3>1, <4>1 DEF EntryOf
    <3>2. CASE p # pod[c]
      <4>1. p \in Pods \ inflated /\ entry'[p] = entry[p]
        BY <2>1, <2>2, <2>6, <3>2
      <4>2. PICK d \in Conns : EntryOf(p, d)
        BY <2>6, <4>1 DEF Accounted
      <4>3. d # c
        BY <3>2, <4>2 DEF EntryOf
      <4> QED
        BY <1>2, <2>2, <4>1, <4>2, <4>3 DEF EntryOf
    <3> QED
      BY <3>1, <3>2
  <2> QED
    BY <2>4, <2>5, <2>6 DEF Accounted
<1>7. CASE ReportSend(c)
  <2>1. UNCHANGED <<ok, total, entry, inflated>> /\ \A d \in Conns : Registered(d)' = Registered(d)
    BY <1>1, <1>7 DEF ReportSend, statVars, Registered
  <2>2. Units' \subseteq Units
    BY <1>2, <2>1 DEF Units
  <2>3. \A d \in Conns : conn'[d] = "none" => conn[d] = "none"
    BY <1>1, <1>7 DEF ReportSend
  <2>4. \A p \in Pods, d \in Conns : EntryOf(p, d)' = EntryOf(p, d)
    BY <1>2, <2>1 DEF EntryOf
  <2> QED
    BY <1>4, <2>1, <2>2, <2>3, <2>4 DEF Accounted
<1>8. CASE Close(c)
  <2>1. /\ conn[c] = "open" /\ conn' = [conn EXCEPT ![c] = "gone"] /\ UNCHANGED <<ok, total>>
        /\ entry' = [entry EXCEPT ![pod[c]] = NoEntry] /\ inflated' = inflated \ {pod[c]}
    BY <1>8 DEF Close
  <2>2. \A d \in Conns : (Registered(d)' => Registered(d)) /\ (conn'[d] = "none" => conn[d] = "none")
    BY <1>1, <2>1 DEF Registered
  <2>3. Units' \subseteq Units
    BY <1>2, <2>1, <2>2 DEF Units
  <2>4. \A p \in Pods \ inflated' : entry'[p] > 0 => p # pod[c] /\ p \in Pods \ inflated /\ entry'[p] = entry[p]
    BY <1>1, <2>1 DEF Entries, NoEntry
  <2>5. \A p \in Pods \ inflated', d \in Conns :
           entry'[p] > 0 /\ EntryOf(p, d) => EntryOf(p, d)'
    BY <1>1, <1>2, <2>1, <2>4 DEF EntryOf, Registered
  <2> QED
    BY <1>4, <2>1, <2>2, <2>3, <2>4, <2>5 DEF Accounted
<1> QED
  BY <1>5, <1>6, <1>7, <1>8

\* A reset: the connections that have reported are carried over, and all entries are zero.
LEMMA ResetAccounted ==
  ASSUME Inv, Accounted, ResetStats
  PROVE  Accounted'
<1> USE Facts
<1>1. /\ UNCHANGED <<conn, pod, ok>> /\ total' = 0 /\ entry' = Zeroed
      /\ carried' = {c \in Conns : Registered(c) /\ ok[c] > 0}
  BY DEF ResetStats, ResetBegins
<1>2. Units' = {}
  <2> SUFFICES ASSUME NEW u \in Units' PROVE FALSE
    OBVIOUS
  <2>1. u[1] \in Conns /\ u[2] \in 1..MaxReports /\ Registered(u[1]) /\ u[1] \notin carried' /\ u[2] <= ok[u[1]]
    BY <1>1 DEF Units, Registered
  <2>2. ok[u[1]] > 0
    BY <2>1 DEF Inv, TypeOK
  <2> QED
    BY <1>1, <2>1, <2>2
<1>3. IsFiniteSet(Units') /\ Cardinality(Units') = 0
  BY <1>2, FS_EmptySet
<1>4. \A p \in Pods : ~(entry'[p] > 0)
  BY <1>1 DEF Zeroed, NoEntry
<1> QED
  BY <1>1, <1>3, <1>4 DEF Accounted

\* The entries never add up to more than the total, whatever pods share a name, however
\* often the statistics are reset under their connections, and however many pods there
\* are; but for those of pods that have reported before and after the last reset.
THEOREM EntriesAddUp == Spec => []EntriesWithinTotal
<1>1. Init => Accounted
  <2> SUFFICES ASSUME Init PROVE Accounted
    OBVIOUS
  <2>1. Units = {}
    BY Facts DEF Init, Units, Registered
  <2>2. IsFiniteSet(Units) /\ Cardinality(Units) = 0
    BY <2>1, FS_EmptySet
  <2> QED
    BY <2>2 DEF Init, Accounted, NoPods, NoEntry
<1>2. Inv /\ Accounted /\ [Next]_vars => Accounted'
  <2> SUFFICES ASSUME Inv, Accounted, [Next]_vars PROVE Accounted'
    OBVIOUS
  <2>1. ASSUME UNCHANGED <<podVars, statVars, carried>>
        PROVE  Accounted'
    BY <2>1 DEF Accounted, Units, EntryOf, Registered, podVars, statVars
  <2>2. CASE ResetSend \/ Broadcast \/ (\E v \in Viewers : Connect(v) \/ Show(v) \/ Disconnect(v)) \/ UNCHANGED vars
    BY <2>1, <2>2 DEF ResetSend, Broadcast, Receive, Copy, Cast, Connect, Show, Disconnect, vars, resetVars
  <2> QED
    BY <2>2, PodAccounted, ResetAccounted DEF Next
<1>3. Inv /\ Accounted => EntriesWithinTotal
  BY AccountedWithin
<1> QED
  BY <1>1, <1>2, <1>3, InvHolds, PTL DEF Spec

=============================================================================
