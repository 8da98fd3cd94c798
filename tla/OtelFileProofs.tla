---------------------------- MODULE OtelFileProofs ----------------------------
(***************************************************************************)
(* The log watcher is well typed, events are broadcast in order and once   *)
(* unless a file is started anew, and no event is lost but in the ways     *)
(* that NothingElseLost names.  For any number of lines, files, events and *)
(* failing calls and any capacities.                                       *)
(***************************************************************************)
EXTENDS OtelFile, TLAPS

----------------------------------------------------------------------------
\* Type correctness, and what the reader knows of the files.

\* Lines of later files are later, and the reader is not past the file it has open.
Files ==
  /\ \A g, h \in Gens : g <= h /\ h <= gen => start[g] <= start[h]
  /\ \A g \in Gens : g <= gen => start[g] <= written + 1
  /\ file <= gen /\ next <= written + 1 /\ (~exists => gen < MaxGens)
  /\ half => written < MaxLines
  /\ file # NoFile => next <= LastLine + 1
  /\ reader = "reopen" => file # NoFile

\* The event on offer is of the line before `next`, in the pass that goes on.
Offering == reader = "event" => offered \in Event /\ offered[1] = pass /\ offered[2] = next - 1

Inv == TypeOK /\ Files /\ Offering

LEMMA InitInv == Init => Inv
<1> SUFFICES ASSUME Init PROVE Inv
  OBVIOUS
<1> USE ConstantsAssumption DEF Init
<1>2. 1 \in Gens /\ 1 \in 1..(MaxLines + 1) /\ start \in [Gens -> 1..(MaxLines + 1)]
  BY DEF Gens
<1>6. batch \in Seq(Event) /\ eventChan \in Seq(Event) /\ Len(eventChan) <= EventCap
  OBVIOUS
<1>7. statChan \in Seq(Nat) /\ Len(statChan) <= StatCap /\ broadcast \in Seq(Event)
  OBVIOUS
<1>8. counted \in Nat /\ shown \in Nat /\ pass \in Nat /\ errors \in 0..MaxErrors
  OBVIOUS
<1>9. written \in 0..MaxLines /\ gen \in Gens /\ next \in 1..(MaxLines + 1)
  BY <1>2
<1>10. /\ half \in BOOLEAN /\ exists \in BOOLEAN /\ torn \in BOOLEAN /\ cancelled \in BOOLEAN
       /\ file \in Gens \cup {NoFile} /\ offered \in Event \cup {<<0, 0, 0>>}
       /\ reader \in {"top", "reopen", "event", "stats", "gone"}
       /\ forwarder \in {"select", "drain", "forward", "gone"}
       /\ halved \subseteq Lines /\ behind \subseteq Lines /\ failed \subseteq Lines /\ gap \subseteq Lines
       /\ full \subseteq Event
  OBVIOUS
<1>3. TypeOK
  BY <1>2, <1>6, <1>7, <1>8, <1>9, <1>10 DEF TypeOK
<1>4. Files
  BY <1>2 DEF Files, Gens, NoFile
<1>5. Offering
  BY DEF Offering
<1> QED
  BY <1>3, <1>4, <1>5 DEF Inv

\* The last line of the reader's file has been written.
LEMMA LastLineType ==
  ASSUME TypeOK, Files, file # NoFile
  PROVE  /\ LastLine \in 0..written
         /\ file < gen => file + 1 \in Gens /\ LastLine + 1 = start[file + 1] /\ start[file + 1] <= start[gen]
<1>1. file \in Gens /\ gen \in Gens /\ file <= gen /\ Gens \subseteq Nat /\ written \in Nat
  BY ConstantsAssumption DEF TypeOK, Files, Gens
<1>2. CASE file = gen
  BY <1>1, <1>2 DEF LastLine
<1>3. CASE file < gen
  <2>1. file + 1 \in Gens /\ file + 1 <= gen
    BY <1>1, <1>3, ConstantsAssumption DEF Gens
  <2>2. start[file + 1] \in 1..(MaxLines + 1) /\ start[file + 1] <= written + 1 /\ start[file + 1] <= start[gen]
    BY <1>1, <2>1 DEF TypeOK, Files
  <2> QED
    BY <1>1, <1>3, <2>1, <2>2, ConstantsAssumption DEF LastLine
<1> QED
  BY <1>1, <1>2, <1>3

LEMMA CollectorInv ==
  ASSUME Inv, Collector
  PROVE  Inv'
<1> USE ConstantsAssumption DEF Inv, readerVars, forwarderVars, mainVars
<1>1. file # NoFile => LastLine \in 0..written
  BY LastLineType
<1>2. CASE WriteHalf
  <2>1. TypeOK'
    <3>1. gap' \subseteq Lines
      BY <1>2 DEF WriteHalf, Missed, TypeOK, Lines
    <3> QED
      BY <1>2, <3>1 DEF WriteHalf, TypeOK
  <2>2. Files' /\ Offering'
    BY <1>2 DEF WriteHalf, Files, Offering, LastLine
  <2> QED
    BY <2>1, <2>2
<1>3. CASE WriteLine
  <2>1. TypeOK'
    <3>1. written' \in Lines /\ written' = written + 1
      BY <1>3 DEF WriteLine, TypeOK, Lines
    <3>2. gap' \subseteq Lines
      BY <1>3, <3>1 DEF WriteLine, Missed, TypeOK
    <3>3. written' \in 0..MaxLines /\ half' = FALSE
      BY <1>3, <3>1 DEF WriteLine, Lines
    <3>4. UNCHANGED <<gen, exists, start, behind, readerVars, forwarderVars, mainVars, cancelled>>
      BY <1>3 DEF WriteLine
    <3> QED
      BY <3>2, <3>3, <3>4 DEF TypeOK
  <2>2. /\ written \in Nat /\ written' = written + 1 /\ ~half'
        /\ UNCHANGED <<gen, exists, start, file, next, reader>>
    BY <1>3 DEF WriteLine, TypeOK
  <2>3. Files'
    <3>1. \/ LastLine' = LastLine
          \/ LastLine' = LastLine + 1 /\ LastLine = written
      BY <2>2 DEF LastLine
    <3>2. \A g \in Gens : start[g] \in Nat
      BY DEF TypeOK
    <3>3. next \in Nat /\ next <= written + 1
      BY DEF TypeOK, Files
    <3> QED
      BY <1>1, <2>2, <3>1, <3>2, <3>3 DEF Files
  <2>4. Offering'
    BY <1>3 DEF WriteLine, Offering
  <2> QED
    BY <2>1, <2>3, <2>4
<1>4. CASE Rename
  <2>1. TypeOK'
    <3>1. next..written \subseteq Lines
      BY DEF TypeOK, Lines
    <3> QED
      BY <1>4, <3>1 DEF Rename, TypeOK
  <2>2. Files' /\ Offering'
    BY <1>4 DEF Rename, Files, Offering, LastLine
  <2> QED
    BY <2>1, <2>2
<1>5. CASE Create
  <2>1. gen + 1 \in Gens /\ gen \in Gens /\ written + 1 \in 1..(MaxLines + 1) /\ Gens \subseteq Nat
    <3>1. gen \in 1..MaxGens /\ gen + 1 <= MaxGens /\ written \in 0..MaxLines
      BY <1>5 DEF Create, TypeOK, Gens, Files
    <3> QED
      BY <3>1 DEF Gens
  <2>2. /\ gen' = gen + 1 /\ start' = [start EXCEPT ![gen + 1] = written + 1]
        /\ exists' /\ UNCHANGED <<written, half, file, next, reader>>
    BY <1>5 DEF Create
  <2>3. TypeOK'
    BY <1>5, <2>1, <2>2 DEF Create, TypeOK
  <2>4. /\ \A g \in Gens : g <= gen => start'[g] = start[g]
        /\ start'[gen + 1] = written + 1
    BY <2>1, <2>2 DEF TypeOK
  <2>5. file # NoFile => LastLine' = LastLine
    <3>1. file # NoFile => file \in Gens /\ file <= gen /\ (file < gen => file + 1 \in Gens)
      BY <2>1, LastLineType DEF TypeOK, Files
    <3>2. written \in Nat
      BY DEF TypeOK
    <3>3. CASE file = gen
      <4>1. file # gen'
        BY <2>1, <2>2, <3>3
      <4>2. LastLine = written /\ LastLine' = start'[gen + 1] - 1
        BY <2>2, <3>3, <4>1 DEF LastLine
      <4> QED
        BY <2>4, <3>2, <4>2
    <3>4. CASE file # NoFile /\ file # gen
      <4>1. file \in Nat /\ gen \in Nat /\ file < gen /\ file + 1 \in Gens /\ file + 1 <= gen
        <5>1. file \in Nat /\ gen \in Nat /\ file <= gen /\ file # gen
          BY <2>1, <3>1, <3>4
        <5>2. file < gen
          BY <5>1
        <5> QED
          BY <3>1, <3>4, <5>1, <5>2
      <4>2. LastLine = start[file + 1] - 1 /\ LastLine' = start'[file + 1] - 1
        BY <2>2, <3>4, <4>1 DEF LastLine
      <4> QED
        BY <2>4, <4>1, <4>2
    <3> QED
      BY <3>3, <3>4
  <2>6. \A g, h \in Gens : g <= h /\ h <= gen' => start'[g] <= start'[h]
    <3> SUFFICES ASSUME NEW g \in Gens, NEW h \in Gens, g <= h, h <= gen + 1
                 PROVE  start'[g] <= start'[h]
      BY <2>2
    <3>1. CASE h <= gen
      BY <2>1, <2>4, <3>1 DEF Files
    <3>2. CASE h = gen + 1 /\ g <= gen
      BY <2>1, <2>4, <3>2 DEF Files
    <3>3. CASE h = gen + 1 /\ g = gen + 1
      BY <2>4, <3>3 DEF TypeOK
    <3> QED
      BY <2>1, <3>1, <3>2, <3>3
  <2>7. \A g \in Gens : g <= gen' => start'[g] <= written' + 1
    BY <2>1, <2>2, <2>4 DEF Files, TypeOK
  <2>8. file' <= gen' /\ (reader' = "reopen" => file' # NoFile)
    BY <2>1, <2>2 DEF Files, TypeOK, NoFile
  <2>9. Files'
    BY <2>2, <2>5, <2>6, <2>7, <2>8 DEF Files
  <2>10. Offering'
    BY <1>5 DEF Create, Offering
  <2> QED
    BY <2>3, <2>9, <2>10
<1> QED
  BY <1>2, <1>3, <1>4, <1>5 DEF Collector

LEMMA ReaderInv ==
  ASSUME Inv, Reader
  PROVE  Inv'
<1> USE ConstantsAssumption DEF Inv, Others, collectorVars, forwarderVars, mainVars
<1>1. /\ file # NoFile => LastLine \in 0..written
      /\ file # NoFile /\ file < gen => LastLine + 1 <= start[gen]
  BY LastLineType
<1>2. /\ written \in 0..MaxLines /\ next \in 1..(MaxLines + 1) /\ gen \in Gens /\ Gens \subseteq Nat
      /\ next <= written + 1 /\ pass \in Nat
      /\ start[gen] \in 1..(MaxLines + 1) /\ start[gen] <= written + 1
  BY DEF TypeOK, Files, Gens
<1>4. CASE OpenTail
  <2>1. /\ reader = "top" /\ UNCHANGED <<reader, offered, written, half, gen, start, exists>>
        /\ file' = gen /\ next' = written + 1
    BY <1>4 DEF OpenTail
  <2>2. TypeOK'
    BY <1>2, <1>4 DEF OpenTail, TypeOK
  <2>3. Files'
    BY <1>2, <2>1 DEF Files, LastLine
  <2>4. Offering'
    BY <2>1 DEF Offering
  <2> QED
    BY <2>2, <2>3, <2>4
<1>5. CASE CheckRotation \/ CheckWrong
  <2>1. /\ file # NoFile /\ reader' = "reopen" /\ errors' \in 0..MaxErrors
        /\ UNCHANGED <<file, next, torn, pass, offered, counted, halved, failed, Others>>
    <3>1. errors \in Nat /\ errors <= MaxErrors
      BY DEF TypeOK
    <3> QED
      BY <1>5, <3>1 DEF CheckRotation, CheckWrong
  <2>2. TypeOK'
    BY <2>1 DEF TypeOK
  <2>3. Files' /\ Offering'
    BY <2>1 DEF Files, Offering, LastLine
  <2> QED
    BY <2>1, <2>2, <2>3
<1>6. CASE Reopen
  <2>1. CASE exists
    <3>1. /\ reader = "reopen" /\ reader' = "top" /\ file' = gen /\ next' = start[gen] /\ torn' = FALSE
          /\ UNCHANGED <<offered, written, half, gen, start, exists>>
      BY <1>6, <2>1 DEF Reopen
    <3>2. pass' \in Nat /\ UNCHANGED <<errors, counted, halved, failed>>
      BY <1>6 DEF Reopen, TypeOK
    <3>3. UNCHANGED <<collectorVars, forwarderVars, mainVars, cancelled>>
      BY <1>6 DEF Reopen
    <3>4. TypeOK'
      BY <1>2, <3>1, <3>2, <3>3 DEF TypeOK
    <3>5. Files'
      BY <1>2, <3>1 DEF Files, LastLine
    <3>6. Offering'
      BY <3>1 DEF Offering
    <3> QED
      BY <3>4, <3>5, <3>6
  <2>2. CASE ~exists
    <3>1. /\ reader = "reopen" /\ reader' = "top" /\ file' = NoFile
          /\ UNCHANGED <<offered, written, half, gen, start, exists, next>>
      BY <1>6, <2>2 DEF Reopen
    <3>2. TypeOK'
      BY <1>6, <2>2 DEF Reopen, TypeOK
    <3>3. Files'
      BY <1>2, <3>1 DEF Files, NoFile
    <3>4. Offering'
      BY <3>1 DEF Offering
    <3> QED
      BY <3>2, <3>3, <3>4
  <2> QED
    BY <2>1, <2>2
<1>7. CASE ReadLine
  <2>1. /\ reader = "top" /\ file # NoFile /\ next <= LastLine /\ next' = next + 1
        /\ UNCHANGED <<file, pass, written, half, gen, start, exists>>
        /\ \/ reader' = "top" /\ UNCHANGED offered
           \/ reader' = "event" /\ offered' = <<pass, next, 1>>
    BY <1>7 DEF ReadLine
  <2>2. next + 1 <= written + 1 /\ next \in Lines /\ next + 1 \in 1..(MaxLines + 1)
        /\ <<pass, next, 1>> \in Event
    BY <1>1, <1>2, <2>1 DEF Lines, Event
  <2>3. TypeOK'
    BY <1>7, <2>1, <2>2 DEF ReadLine, TypeOK
  <2>4. Files'
    BY <1>1, <1>2, <2>1, <2>2 DEF Files, LastLine
  <2>5. Offering'
    BY <1>2, <2>1, <2>2 DEF Offering
  <2> QED
    BY <2>3, <2>4, <2>5
<1>8. CASE ReadHalf \/ ReaderExit
  <2>1. TypeOK'
    <3>1. ReadHalf => next \in Lines
      BY <1>2 DEF ReadHalf, Files, Lines
    <3> QED
      BY <1>8, <3>1 DEF ReadHalf, ReaderExit, TypeOK
  <2>2. Files' /\ Offering'
    BY <1>8 DEF ReadHalf, ReaderExit, Files, Offering, LastLine
  <2> QED
    BY <2>1, <2>2
<1>9. CASE ReopenFails \/ ReadFails
  <2>1. /\ reader' = "top" /\ file' = NoFile /\ LoseFile
        /\ UNCHANGED <<next, offered, written, half, gen, start, exists>>
    BY <1>9 DEF ReopenFails, ReadFails, LoseFile, Others
  <2>2. failed' \subseteq Lines /\ errors' \in 0..MaxErrors
    <3>1. /\ errors \in 0..MaxErrors /\ errors < MaxErrors /\ errors' = errors + 1
          /\ failed' = failed \cup next..(IF half THEN written + 1 ELSE written)
          /\ failed \subseteq Lines /\ (half => written < MaxLines)
      BY <2>1 DEF LoseFile, TypeOK, Files
    <3>2. next..(IF half THEN written + 1 ELSE written) \subseteq Lines
      BY <1>2, <3>1 DEF Lines
    <3>3. errors' \in 0..MaxErrors
      BY <3>1
    <3> QED
      BY <3>1, <3>2, <3>3
  <2>3. TypeOK'
    BY <2>1, <2>2 DEF LoseFile, Others, TypeOK
  <2>4. Files'
    BY <1>2, <2>1 DEF Files, NoFile
  <2>5. Offering'
    BY <2>1 DEF Offering
  <2> QED
    BY <2>3, <2>4, <2>5
<1> QED
  BY <1>4, <1>5, <1>6, <1>7, <1>8, <1>9 DEF Reader

\* The capacities are kept.
LEMMA ForwarderInv ==
  ASSUME Inv, Forwarder
  PROVE  Inv'
<1> USE ConstantsAssumption DEF Inv, collectorVars, readerVars, mainVars
<1>1. CASE ReceiveEvent
  <2>1. /\ reader = "event" /\ counted \in Nat /\ Events \in Nat
        /\ offered \in Event /\ offered[1] = pass /\ offered[2] = next - 1 /\ offered[3] \in 1..Events
    BY <1>1 DEF ReceiveEvent, Offering, TypeOK, Event
  <2>2. /\ \/ /\ offered' \in Event /\ offered'[1] = offered[1] /\ offered'[2] = offered[2]
              /\ UNCHANGED <<reader, counted>>
           \/ reader' = "stats" /\ counted' = counted + Events /\ UNCHANGED offered
        /\ UNCHANGED <<pass, file, next, written, half, gen, start, exists>>
    BY <1>1, <2>1 DEF ReceiveEvent, EventSent, Event
  <2>3. batch' \in Seq(Event)
    BY <1>1, <2>1 DEF ReceiveEvent, TypeOK
  <2>4. /\ UNCHANGED <<eventChan, statChan, full, file, next, torn, errors, pass, halved, failed, collectorVars,
                       mainVars, cancelled>>
        /\ forwarder' = "drain"
    BY <1>1 DEF ReceiveEvent
  <2>5. reader' \in {"event", "stats"} /\ offered' \in Event /\ counted' \in Nat
    BY <2>1, <2>2
  <2>6. TypeOK'
    BY <2>3, <2>4, <2>5 DEF TypeOK
  <2>7. Files'
    BY <2>1, <2>2 DEF Files, LastLine
  <2>8. Offering'
    BY <2>1, <2>2 DEF Offering
  <2> QED
    BY <2>6, <2>7, <2>8
<1>2. CASE Forward
  <2>1. TypeOK'
    <3>1. batch # << >> => Head(batch) \in Event /\ Tail(batch) \in Seq(Event)
      BY DEF TypeOK
    <3>2. batch' \in Seq(Event) /\ full' \subseteq Event
      BY <1>2, <3>1 DEF Forward, TypeOK
    <3>3. eventChan' \in Seq(Event) /\ Len(eventChan') <= EventCap
      <4>1. CASE UNCHANGED eventChan
        BY <4>1 DEF TypeOK
      <4>2. CASE batch # << >> /\ Len(eventChan) < EventCap /\ eventChan' = Append(eventChan, Head(batch))
        BY <3>1, <4>2 DEF TypeOK
      <4> QED
        BY <1>2, <4>1, <4>2 DEF Forward
    <3>4. forwarder' \in {"select", "drain", "forward", "gone"}
      BY <1>2 DEF Forward, TypeOK
    <3>5. UNCHANGED <<statChan, collectorVars, readerVars, mainVars, cancelled>>
      BY <1>2 DEF Forward
    <3> QED
      BY <3>2, <3>3, <3>4, <3>5 DEF TypeOK
  <2>2. Files' /\ Offering'
    BY <1>2 DEF Forward, Files, Offering, LastLine
  <2> QED
    BY <2>1, <2>2
<1>3. CASE ReceiveStats
  <2>1. /\ UNCHANGED <<forwarder, batch, eventChan, full, file, next, torn, errors, pass, offered, counted, halved,
                       failed, collectorVars, mainVars, cancelled>>
        /\ reader' = "top"
    BY <1>3 DEF ReceiveStats
  <2>2. statChan' \in Seq(Nat) /\ Len(statChan') <= StatCap
    <3>1. counted \in Nat /\ statChan \in Seq(Nat) /\ Len(statChan) <= StatCap
      BY DEF TypeOK
    <3>2. CASE UNCHANGED statChan
      BY <3>1, <3>2
    <3>3. CASE Len(statChan) < StatCap /\ statChan' = Append(statChan, counted)
      BY <3>1, <3>3
    <3> QED
      BY <1>3, <3>2, <3>3 DEF ReceiveStats
  <2>3. TypeOK'
    BY <2>1, <2>2 DEF TypeOK
  <2>4. Files' /\ Offering'
    BY <2>1 DEF Files, Offering, LastLine
  <2> QED
    BY <2>3, <2>4
<1>4. CASE DrainDone \/ ForwarderExit
  <2>1. TypeOK'
    BY <1>4 DEF DrainDone, ForwarderExit, TypeOK
  <2>2. Files' /\ Offering'
    BY <1>4 DEF DrainDone, ForwarderExit, Files, Offering, LastLine
  <2> QED
    BY <2>1, <2>2
<1> QED
  BY <1>1, <1>2, <1>3, <1>4 DEF Forwarder

LEMMA MainInv ==
  ASSUME Inv, Main \/ UNCHANGED vars
  PROVE  Inv'
<1> USE ConstantsAssumption DEF Inv, collectorVars, readerVars, forwarderVars
<1>1. CASE TakeEvent
  <2>1. TypeOK'
    BY <1>1 DEF TakeEvent, TypeOK
  <2>2. Files' /\ Offering'
    BY <1>1 DEF TakeEvent, Files, Offering, LastLine
  <2> QED
    BY <2>1, <2>2
<1>2. CASE TakeStats
  <2>1. statChan \in Seq(Nat) /\ Len(statChan) <= StatCap /\ statChan # << >>
        /\ shown' = Head(statChan) /\ statChan' = Tail(statChan)
    BY <1>2 DEF TakeStats, TypeOK
  <2>2. shown' \in Nat /\ statChan' \in Seq(Nat) /\ Len(statChan') <= StatCap
    BY <2>1
  <2>3. UNCHANGED <<broadcast, forwarder, batch, eventChan, full, collectorVars, readerVars, cancelled>>
    BY <1>2 DEF TakeStats
  <2>4. TypeOK'
    BY <2>2, <2>3 DEF TypeOK
  <2>5. Files' /\ Offering'
    BY <2>3 DEF Files, Offering, LastLine
  <2> QED
    BY <2>4, <2>5
<1>3. CASE Cancel \/ UNCHANGED vars
  <2>1. cancelled' \in BOOLEAN
    BY <1>3 DEF Cancel, vars, TypeOK
  <2>2. UNCHANGED <<collectorVars, readerVars, forwarderVars, mainVars>>
    BY <1>3 DEF Cancel, vars, mainVars
  <2>3. TypeOK'
    BY <2>1, <2>2 DEF mainVars, TypeOK
  <2>4. Files' /\ Offering'
    BY <2>2 DEF mainVars, Files, Offering, LastLine
  <2> QED
    BY <2>3, <2>4
<1> QED
  BY <1>1, <1>2, <1>3 DEF Main

LEMMA InvHolds == Spec => []Inv
<1>1. Inv /\ [Next]_vars => Inv'
  BY CollectorInv, ReaderInv, ForwarderInv, MainInv DEF Next
<1> QED
  BY <1>1, InitInv, PTL DEF Spec

\* The variables keep their types: channels keep to their capacities, whatever the
\* reader reads anew.
THEOREM TypeCorrect == Spec => []TypeOK
<1>1. Inv => TypeOK
  BY DEF Inv
<1> QED
  BY <1>1, InvHolds, PTL

----------------------------------------------------------------------------
\* The order of events.

Sorted(s)   == \A i, j \in DOMAIN s : i < j => Before(s[i], s[j])
Precede(s, t) == \A i \in DOMAIN s, j \in DOMAIN t : Before(s[i], t[j])
Earlier(s, e) == \A i \in DOMAIN s : Before(s[i], e)

\* What the reader comes to next is later than all it has handed on.
Passed(e) == e[1] < pass \/ (e[1] = pass /\ e[2] < next)

ReadBefore(s) ==
  /\ \A i \in DOMAIN s : Passed(s[i])
  /\ reader = "event" => Earlier(s, offered)

\* From the main program back to the reader events are in order.
Order ==
  /\ Sorted(broadcast) /\ Sorted(eventChan) /\ Sorted(batch)
  /\ Precede(broadcast, eventChan) /\ Precede(broadcast, batch) /\ Precede(eventChan, batch)
  /\ ReadBefore(broadcast) /\ ReadBefore(eventChan) /\ ReadBefore(batch)

LEMMA BeforeIsTransitive ==
  \A e, f, g \in Event : Before(e, f) /\ Before(f, g) => Before(e, g)
<1>1. \A e \in Event : e[1] \in Nat /\ e[2] \in Nat /\ e[3] \in Nat
  BY ConstantsAssumption DEF Event, Lines
<1> QED
  BY <1>1 DEF Before

\* Sequences without their head, and with an event that is later than all of theirs.
LEMMA TailOrder ==
  ASSUME NEW s \in Seq(Event), s # << >>, Sorted(s)
  PROVE  /\ Head(s) \in Event /\ Tail(s) \in Seq(Event) /\ Sorted(Tail(s))
         /\ Head(s) = s[1] /\ 1 \in DOMAIN s
         /\ \A i \in DOMAIN Tail(s) : i + 1 \in DOMAIN s /\ Tail(s)[i] = s[i + 1]
<1>1. \A i \in DOMAIN Tail(s) : i + 1 \in DOMAIN s /\ Tail(s)[i] = s[i + 1] /\ i \in Nat /\ 1 < i + 1
  OBVIOUS
<1>2. Head(s) = s[1] /\ 1 \in DOMAIN s /\ Head(s) \in Event /\ Tail(s) \in Seq(Event)
  OBVIOUS
<1>3. Sorted(Tail(s))
  BY <1>1 DEF Sorted
<1>4. \A i \in DOMAIN Tail(s) : Before(Head(s), Tail(s)[i])
  BY <1>1, <1>2 DEF Sorted
<1> QED
  BY <1>1, <1>2, <1>3, <1>4

LEMMA AppendOrder ==
  ASSUME NEW s \in Seq(Event), NEW e \in Event, Sorted(s), Earlier(s, e)
  PROVE  /\ Append(s, e) \in Seq(Event) /\ Sorted(Append(s, e))
         /\ \A i \in DOMAIN Append(s, e) :
              (i \in DOMAIN s /\ Append(s, e)[i] = s[i]) \/ Append(s, e)[i] = e
<1>1. \A i \in DOMAIN Append(s, e) :
        \/ i \in DOMAIN s /\ Append(s, e)[i] = s[i]
        \/ i = Len(s) + 1 /\ Append(s, e)[i] = e
  OBVIOUS
<1>2. Append(s, e) \in Seq(Event) /\ DOMAIN s = 1..Len(s) /\ Len(s) \in Nat
  OBVIOUS
<1>3. Sorted(Append(s, e))
  BY <1>1, <1>2 DEF Sorted, Earlier
<1> QED
  BY <1>1, <1>2, <1>3

LEMMA OrderKept ==
  ASSUME Inv, Inv', Order, [Next]_vars
  PROVE  Order'
<1> USE ConstantsAssumption
<1>1. /\ batch \in Seq(Event) /\ eventChan \in Seq(Event) /\ broadcast \in Seq(Event)
      /\ next \in Nat /\ next' \in Nat /\ pass \in Nat /\ pass' \in Nat
      /\ \A e \in Event : e[1] \in Nat /\ e[2] \in Nat /\ e[3] \in Nat
      /\ reader = "event" => offered \in Event /\ offered[1] = pass /\ offered[2] = next - 1
  <2>1. \A e \in Event : e[1] \in Nat /\ e[2] \in Nat /\ e[3] \in Nat
    BY DEF Event, Lines
  <2>2. reader = "event" => offered \in Event /\ offered[1] = pass /\ offered[2] = next - 1
    BY DEF Inv, Offering
  <2>3. batch \in Seq(Event) /\ eventChan \in Seq(Event) /\ broadcast \in Seq(Event)
    BY DEF Inv, TypeOK
  <2>4. next \in Nat /\ next' \in Nat /\ pass \in Nat /\ pass' \in Nat
    BY DEF Inv, TypeOK
  <2> QED
    BY <2>1, <2>2, <2>3, <2>4
\* Steps in which no event moves: the reader may get ahead, or start a new pass.
<1>2. ASSUME UNCHANGED <<batch, eventChan, broadcast>>,
             (pass' = pass /\ next <= next') \/ pass' = pass + 1,
             \/ reader' # "event"
             \/ reader' = "event" /\ offered' = <<pass, next, 1>> /\ next' = next + 1
             \/ UNCHANGED <<reader, offered, next, pass>>
      PROVE  Order'
  <2>1. ASSUME NEW s \in Seq(Event), ReadBefore(s), UNCHANGED s PROVE ReadBefore(s)'
    <3>1. \A i \in DOMAIN s : s[i] \in Event /\ s[i][1] \in Nat /\ s[i][2] \in Nat /\ Passed(s[i])
      BY <1>1, <2>1 DEF ReadBefore
    <3>7. \A m, n \in Nat : m < pass \/ (m = pass /\ n < next) => m < pass' \/ (m = pass' /\ n < next')
      <4>1. CASE pass' = pass /\ next <= next'
        BY <1>1, <4>1
      <4>2. CASE pass' = pass + 1
        BY <1>1, <4>2
      <4> QED
        BY <1>2, <4>1, <4>2
    <3>2. \A i \in DOMAIN s : s[i][1] < pass' \/ (s[i][1] = pass' /\ s[i][2] < next')
      BY <3>1, <3>7 DEF Passed
    <3>3. \A i \in DOMAIN s' : Passed(s[i])'
      BY <2>1, <3>2 DEF Passed
    <3>4. CASE reader' # "event"
      BY <2>1, <3>3, <3>4 DEF ReadBefore, Passed
    <3>5. CASE reader' = "event" /\ offered' = <<pass, next, 1>>
      <4>1. \A i \in DOMAIN s : Before(s[i], <<pass, next, 1>>)
        BY <3>1 DEF Passed, Before
      <4> QED
        BY <2>1, <3>3, <3>5, <4>1 DEF ReadBefore, Earlier, Passed
    <3>6. CASE UNCHANGED <<reader, offered, next, pass>>
      BY <2>1, <3>6 DEF ReadBefore, Earlier, Passed
    <3> QED
      BY <1>2, <3>4, <3>5, <3>6
  <2>2. ReadBefore(batch)' /\ ReadBefore(eventChan)' /\ ReadBefore(broadcast)'
    BY <1>1, <1>2, <2>1 DEF Order
  <2> QED
    BY <1>2, <2>2 DEF Order, Sorted, Precede
<1>3. CASE Collector \/ (Main /\ ~TakeEvent) \/ UNCHANGED vars
  BY <1>1, <1>2, <1>3
  DEF Collector, WriteHalf, WriteLine, Rename, Create, Main, TakeStats, Cancel, vars, readerVars, forwarderVars,
      mainVars
<1>4. CASE Reader
  <2>1. UNCHANGED <<batch, eventChan, broadcast>>
    BY <1>4 DEF Reader, OpenTail, CheckRotation, CheckWrong, Reopen, ReopenFails, ReadFails, LoseFile, ReadLine,
                ReadHalf, ReaderExit, Others, forwarderVars, mainVars
  <2>2. CASE Reopen /\ exists /\ file # gen
    <3>1. file # NoFile /\ file <= gen /\ next <= LastLine + 1 /\ file \in Gens /\ gen \in Gens /\ Gens \subseteq Nat
      BY <2>2 DEF Reopen, Inv, Files, TypeOK, Gens
    <3>2. LastLine + 1 <= start[gen] /\ LastLine \in 0..written
      BY <2>2, <3>1, LastLineType DEF Inv
    <3>3. start[gen] \in 1..(MaxLines + 1) /\ written \in Nat
      BY DEF Inv, TypeOK
    <3>4. next <= start[gen]
      BY <1>1, <3>1, <3>2, <3>3
    <3> QED
      BY <1>2, <2>1, <2>2, <3>4 DEF Reopen
  <2>3. CASE Reopen /\ ~(exists /\ file # gen)
    BY <1>1, <1>2, <2>1, <2>3 DEF Reopen
  <2>4. CASE OpenTail
    BY <1>1, <1>2, <2>1, <2>4 DEF OpenTail, Inv, Files
  <2>5. CASE ReadLine
    BY <1>1, <1>2, <2>1, <2>5 DEF ReadLine
  <2>6. CASE CheckRotation \/ CheckWrong \/ ReopenFails \/ ReadFails \/ ReadHalf \/ ReaderExit
    BY <1>1, <1>2, <2>1, <2>6
    DEF CheckRotation, CheckWrong, ReopenFails, ReadFails, LoseFile, ReadHalf, ReaderExit
  <2> QED
    BY <1>4, <2>2, <2>3, <2>4, <2>5, <2>6 DEF Reader
<1>5. CASE DrainDone \/ ReceiveStats \/ ForwarderExit
  BY <1>1, <1>2, <1>5 DEF DrainDone, ReceiveStats, ForwarderExit, readerVars, mainVars
<1>6. CASE ReceiveEvent
  <2>1. /\ reader = "event" /\ offered \in Event /\ offered[1] = pass /\ offered[2] = next - 1
        /\ batch' = Append(batch, offered) /\ UNCHANGED <<eventChan, broadcast, next, pass>>
    BY <1>1, <1>6 DEF ReceiveEvent, mainVars
  <2>8. \/ reader' = "event" /\ offered' = <<offered[1], offered[2], offered[3] + 1>>
        \/ reader' = "stats"
    BY <1>6, <2>1 DEF ReceiveEvent, EventSent, Event
  <2>2. Sorted(batch)' /\ Earlier(batch, offered) /\ Earlier(eventChan, offered) /\ Earlier(broadcast, offered)
    BY <1>1, <2>1, AppendOrder DEF Order, ReadBefore
  <2>3. \A i \in DOMAIN batch' : (i \in DOMAIN batch /\ batch'[i] = batch[i]) \/ batch'[i] = offered
    BY <1>1, <2>1, <2>2, AppendOrder DEF Order
  <2>4. Precede(broadcast, batch)' /\ Precede(eventChan, batch)'
    BY <2>1, <2>2, <2>3 DEF Order, Precede, Earlier
  <2>5. \A e \in Event : Before(e, offered) \/ e = offered => (reader' = "event" => Before(e, offered'))
    <3> SUFFICES ASSUME NEW e \in Event, Before(e, offered) \/ e = offered, reader' = "event"
                 PROVE  Before(e, offered')
      OBVIOUS
    <3>1. /\ e[1] \in Nat /\ e[2] \in Nat /\ e[3] \in Nat
          /\ offered[1] \in Nat /\ offered[2] \in Nat /\ offered[3] \in Nat
      BY <1>1, <2>1
    <3>2. offered'[1] = offered[1] /\ offered'[2] = offered[2] /\ offered'[3] = offered[3] + 1
      BY <2>8
    <3> QED
      BY <3>1, <3>2 DEF Before
  <2>6. ReadBefore(broadcast)' /\ ReadBefore(eventChan)'
    BY <1>1, <2>1, <2>2, <2>5 DEF Order, ReadBefore, Earlier, Passed
  <2>7. ReadBefore(batch)'
    <3>1. \A i \in DOMAIN batch : batch[i] \in Event /\ Passed(batch[i]) /\ Before(batch[i], offered)
      BY <1>1, <2>2 DEF Order, ReadBefore, Earlier
    <3>4. offered \in Event /\ Passed(offered)
      BY <1>1, <2>1 DEF Passed
    <3>2. \A i \in DOMAIN batch' : batch'[i] \in Event /\ Passed(batch'[i])
      BY <2>3, <3>1, <3>4
    <3>3. reader' = "event" => \A i \in DOMAIN batch' : Before(batch'[i], offered')
      BY <2>1, <2>3, <2>5, <3>1
    <3> QED
      BY <2>1, <3>2, <3>3 DEF ReadBefore, Earlier, Passed
  <2> QED
    BY <2>1, <2>2, <2>4, <2>6, <2>7 DEF Order, Sorted, Precede
<1>7. CASE Forward
  <2>1. UNCHANGED <<broadcast, next, pass, reader, offered>>
    BY <1>7 DEF Forward, readerVars, mainVars
  <2>2. CASE batch = << >>
    BY <1>2, <1>7, <2>1, <2>2, <1>1 DEF Forward
  <2>3. CASE batch # << >>
    <3>1. batch' = Tail(batch)
      BY <1>7, <2>3 DEF Forward
    <3>2. Sorted(batch)' /\ \A i \in DOMAIN batch' : i + 1 \in DOMAIN batch /\ batch'[i] = batch[i + 1]
      BY <1>1, <2>3, <3>1, TailOrder DEF Order
    <3>3. \A i \in DOMAIN batch' : Before(Head(batch), batch'[i])
      BY <1>1, <2>3, <3>1, <3>2 DEF Order, Sorted
    <3>4. Head(batch) = batch[1] /\ 1 \in DOMAIN batch /\ Head(batch) \in Event
      BY <1>1, <2>3
    <3>5. Precede(broadcast, batch)' /\ ReadBefore(batch)'
      BY <2>1, <3>2 DEF Order, Precede, ReadBefore, Earlier, Passed
    <3>6. CASE UNCHANGED eventChan
      BY <2>1, <3>2, <3>5, <3>6 DEF Order, Sorted, Precede, ReadBefore, Earlier, Passed
    <3>7. CASE eventChan' = Append(eventChan, Head(batch))
      <4>1. Earlier(eventChan, Head(batch))
        BY <3>4 DEF Order, Precede, Earlier
      <4>2. /\ Sorted(eventChan)'
            /\ \A i \in DOMAIN eventChan' :
                 (i \in DOMAIN eventChan /\ eventChan'[i] = eventChan[i]) \/ eventChan'[i] = batch[1]
        BY <1>1, <3>4, <3>7, <4>1, AppendOrder DEF Order
      <4>3. Precede(broadcast, eventChan)' /\ ReadBefore(eventChan)'
        BY <2>1, <3>4, <4>2 DEF Order, Precede, ReadBefore, Earlier, Passed
      <4>4. Precede(eventChan, batch)'
        BY <3>2, <3>3, <3>4, <4>2 DEF Order, Precede
      <4> QED
        BY <2>1, <3>2, <3>5, <4>2, <4>3, <4>4 DEF Order, Sorted, ReadBefore, Earlier, Passed
    <3> QED
      BY <1>7, <2>3, <3>6, <3>7 DEF Forward
  <2> QED
    BY <2>2, <2>3
<1>8. CASE TakeEvent
  <2>1. /\ eventChan # << >> /\ eventChan' = Tail(eventChan) /\ broadcast' = Append(broadcast, Head(eventChan))
        /\ UNCHANGED <<batch, next, pass, reader, offered>>
    BY <1>8 DEF TakeEvent, readerVars
  <2>2. Sorted(eventChan)' /\ \A i \in DOMAIN eventChan' : i + 1 \in DOMAIN eventChan /\ eventChan'[i] = eventChan[i + 1]
    BY <1>1, <2>1, TailOrder DEF Order
  <2>3. \A i \in DOMAIN eventChan' : Before(Head(eventChan), eventChan'[i])
    BY <1>1, <2>1, <2>2 DEF Order, Sorted
  <2>4. Head(eventChan) = eventChan[1] /\ 1 \in DOMAIN eventChan /\ Head(eventChan) \in Event
    BY <1>1, <2>1
  <2>5. /\ Sorted(broadcast)'
        /\ \A i \in DOMAIN broadcast' :
             (i \in DOMAIN broadcast /\ broadcast'[i] = broadcast[i]) \/ broadcast'[i] = eventChan[1]
    <3>1. Earlier(broadcast, Head(eventChan))
      BY <2>4 DEF Order, Precede, Earlier
    <3> QED
      BY <1>1, <2>1, <2>4, <3>1, AppendOrder DEF Order
  <2>6. Precede(eventChan, batch)' /\ ReadBefore(eventChan)'
    BY <2>1, <2>2 DEF Order, Precede, ReadBefore, Earlier, Passed
  <2>7. Precede(broadcast, eventChan)' /\ Precede(broadcast, batch)'
    BY <2>1, <2>2, <2>3, <2>4, <2>5 DEF Order, Precede
  <2>8. ReadBefore(broadcast)'
    BY <2>1, <2>4, <2>5 DEF Order, ReadBefore, Earlier, Passed
  <2> QED
    BY <2>1, <2>2, <2>5, <2>6, <2>7, <2>8 DEF Order, Sorted, ReadBefore, Earlier, Passed
<1> QED
  BY <1>3, <1>4, <1>5, <1>6, <1>7, <1>8 DEF Next, Forwarder, Main

\* Whatever rotations the reader notices, late, more than once or wrongly, and whatever
\* the channels drop: events are broadcast in the order of the log, and none of them
\* twice unless the reader has started the same file anew.
THEOREM EventsInOrder == Spec => []InOrder
<1>1. Init => Order
  BY DEF Init, Order, Sorted, Precede, ReadBefore, Earlier
<1>2. Order => InOrder
  BY DEF Order, Sorted, InOrder
<1>3. Inv /\ Inv' /\ Order /\ [Next]_vars => Order'
  BY OrderKept
<1> QED
  BY <1>1, <1>2, <1>3, InvHolds, PTL DEF Spec

----------------------------------------------------------------------------
\* What is lost.

\* The lines that the reader may skip are on record before it skips them.
Skippable ==
  /\ half => exists
  /\ torn => next \in halved \cup gap \cup failed
  /\ half /\ file = NoFile => written + 1 \in gap \cup failed
  /\ \A l \in Lines : next <= l /\ l <= written /\ ~exists => l \in behind
  /\ \A l \in Lines : next <= l /\ l <= written /\ file = NoFile => l \in behind \cup gap \cup failed
  /\ \A l \in Lines : next <= l /\ l < start[gen] => l \in behind

\* An event on its way, or broadcast, or dropped.
Followed(e) == InSeq(e, broadcast) \/ OnItsWay(e) \/ e \in full

Excused(l) == l \in halved \cup behind \cup failed \cup gap

LEMMA SkippableKept ==
  ASSUME Inv, Inv', Skippable, [Next]_vars
  PROVE  Skippable'
<1>1. /\ written \in Nat /\ next \in Nat /\ Lines \subseteq Nat /\ gen \in Nat /\ gen \in Gens
      /\ start \in [Gens -> 1..(MaxLines + 1)] /\ start[gen] <= written + 1
      /\ start[gen] \in Nat /\ next <= written + 1
  <2>1. Lines \subseteq Nat /\ Gens \subseteq Nat
    BY DEF Lines, Gens
  <2>2. /\ written \in Nat /\ next \in Nat /\ gen \in Gens
        /\ start \in [Gens -> 1..(MaxLines + 1)]
    <3>1. TypeOK
      BY DEF Inv
    <3> QED
      BY <3>1 DEF TypeOK
  <2>3. start[gen] <= written + 1 /\ next <= written + 1
    BY <2>1, <2>2 DEF Inv, Files
  <2> QED
    BY <2>1, <2>2, <2>3
<1>2. ASSUME next <= next', next' \in Nat, halved \subseteq halved', UNCHANGED failed,
             torn' => (torn /\ next' = next) \/ next' \in halved', UNCHANGED <<collectorVars, file>>
      PROVE  Skippable'
  BY <1>1, <1>2 DEF Skippable, collectorVars
<1>3. CASE WriteHalf
  <2>1. /\ exists' /\ UNCHANGED <<written, gen, exists, start, behind, file, next, torn, halved, failed>>
        /\ gap \subseteq gap' /\ (file = NoFile => written + 1 \in gap')
    BY <1>3 DEF WriteHalf, Missed, readerVars
  <2> QED
    BY <1>1, <2>1 DEF Skippable
<1>4. CASE WriteLine
  <2>1. /\ exists' /\ ~half' /\ written' = written + 1
        /\ UNCHANGED <<gen, start, behind, file, next, torn, halved, failed>>
        /\ gap \subseteq gap' /\ (file = NoFile => written' \in gap')
    BY <1>4 DEF WriteLine, Missed, readerVars
  <2>2. \A l \in Lines : l <= written' => l <= written \/ l = written'
    BY <1>1, <2>1
  <2> QED
    BY <1>1, <2>1, <2>2 DEF Skippable
<1>5. CASE Rename
  <2>1. \A l \in Lines : next <= l /\ l <= written => l \in behind'
    BY <1>1, <1>5 DEF Rename
  <2> QED
    BY <1>5, <2>1 DEF Rename, Skippable, readerVars
<1>6. CASE Create
  <2>1. /\ ~exists /\ exists' /\ UNCHANGED <<written, half, behind, gap, file, next, torn, halved, failed>>
        /\ gen' = gen + 1 /\ start' = [start EXCEPT ![gen + 1] = written + 1]
    BY <1>6 DEF Create, readerVars
  <2>2. start'[gen'] = written + 1
    BY <1>1, <2>1 DEF Inv, TypeOK
  <2>3. \A l \in Lines : l < written + 1 => l <= written
    BY <1>1
  <2> QED
    BY <2>1, <2>2, <2>3 DEF Skippable
<1>7. CASE OpenTail
  <2>1. /\ next' = written + 1 /\ torn' = half /\ file = NoFile /\ file' # NoFile /\ exists
        /\ UNCHANGED <<collectorVars, halved, failed>>
    BY <1>1, <1>7 DEF OpenTail, Others, NoFile, Gens
  <2>2. \A l \in Lines : ~(next' <= l /\ l <= written) /\ ~(next' <= l /\ l < start[gen])
    BY <1>1, <2>1
  <2> QED
    BY <1>1, <2>1, <2>2 DEF Skippable, collectorVars
<1>8. CASE Reopen
  <2>1. CASE exists
    <3>1. /\ next' = start[gen] /\ ~torn' /\ file' # NoFile /\ UNCHANGED <<collectorVars, halved, failed>>
      BY <1>1, <1>8, <2>1 DEF Reopen, Others, NoFile, Gens
    <3>2. \A l \in Lines : ~(next' <= l /\ l < start[gen])
      BY <1>1, <3>1
    <3> QED
      BY <2>1, <3>1, <3>2 DEF Skippable, collectorVars
  <2>2. CASE ~exists
    BY <1>8, <2>2 DEF Reopen, Skippable, Others, collectorVars
  <2> QED
    BY <2>1, <2>2
<1>9. CASE ReadLine
  BY <1>1, <1>2, <1>9 DEF ReadLine, Others
<1>10. CASE ReadHalf
  BY <1>1, <1>2, <1>10 DEF ReadHalf, Others
<1>11. CASE ReopenFails \/ ReadFails
  <2>1. /\ file' = NoFile /\ UNCHANGED <<next, torn, halved, collectorVars>> /\ failed \subseteq failed'
        /\ failed' = failed \cup next..(IF half THEN written + 1 ELSE written)
    BY <1>11 DEF ReopenFails, ReadFails, LoseFile, Others
  <2>2. \A l \in Lines : next <= l /\ l <= written => l \in failed'
    BY <1>1, <2>1
  <2>3. half => written + 1 \in failed'
    BY <1>1, <2>1
  <2> QED
    BY <2>1, <2>2, <2>3 DEF Skippable, collectorVars
<1>12. CASE CheckRotation \/ CheckWrong \/ ReaderExit \/ Forwarder \/ Main \/ UNCHANGED vars
  <2>1. UNCHANGED <<collectorVars, file, next, torn, halved, failed>>
    BY <1>12 DEF CheckRotation, CheckWrong, ReaderExit, Forwarder, ReceiveEvent, DrainDone, Forward, ReceiveStats,
                 ForwarderExit, Main, TakeEvent, TakeStats, Cancel, vars, Others, readerVars
  <2> QED
    BY <2>1 DEF Skippable, collectorVars
<1> QED
  BY <1>3, <1>4, <1>5, <1>6, <1>7, <1>8, <1>9, <1>10, <1>11, <1>12 DEF Next, Collector, Reader

\* An event is followed until it is broadcast, and for ever if it was dropped.
LEMMA TraceKept ==
  ASSUME Inv, [Next]_vars, NEW e \in Event, Followed(e)
  PROVE  Followed(e)'
<1>1. batch \in Seq(Event) /\ eventChan \in Seq(Event) /\ broadcast \in Seq(Event)
  BY DEF Inv, TypeOK
<1>2. ASSUME UNCHANGED <<batch, eventChan, broadcast, full, reader, offered>>
      PROVE  Followed(e)'
  BY <1>2 DEF Followed, OnItsWay, InSeq
<1>3. ASSUME UNCHANGED <<batch, eventChan, broadcast, full>>, reader # "event"
      PROVE  Followed(e)'
  BY <1>3 DEF Followed, OnItsWay, InSeq
<1>4. \A s \in Seq(Event), x \in Event : \A d \in Event : InSeq(d, s) \/ d = x => InSeq(d, Append(s, x))
  <2> SUFFICES ASSUME NEW s \in Seq(Event), NEW x \in Event
               PROVE  \A d \in Event : InSeq(d, s) \/ d = x => InSeq(d, Append(s, x))
    OBVIOUS
  <2>1. \A i \in DOMAIN s : i \in DOMAIN Append(s, x) /\ Append(s, x)[i] = s[i]
    OBVIOUS
  <2>2. Len(s) + 1 \in DOMAIN Append(s, x) /\ Append(s, x)[Len(s) + 1] = x
    OBVIOUS
  <2> QED
    BY <2>1, <2>2 DEF InSeq
<1>5. \A s \in Seq(Event) : s # << >> => \A d \in Event : InSeq(d, s) => InSeq(d, Tail(s)) \/ d = Head(s)
  <2> SUFFICES ASSUME NEW s \in Seq(Event), s # << >>, NEW i \in DOMAIN s, i # 1
               PROVE  \E j \in DOMAIN Tail(s) : Tail(s)[j] = s[i]
    BY DEF InSeq
  <2>1. i - 1 \in DOMAIN Tail(s) /\ Tail(s)[i - 1] = s[i]
    OBVIOUS
  <2> QED
    BY <2>1
<1>6. CASE Collector \/ (Main /\ ~TakeEvent) \/ UNCHANGED vars \/ DrainDone \/ ForwarderExit
  BY <1>2, <1>6
  DEF Collector, WriteHalf, WriteLine, Rename, Create, Main, TakeStats, Cancel, vars, readerVars, forwarderVars,
      mainVars, DrainDone, ForwarderExit
<1>7. CASE ReceiveStats
  BY <1>3, <1>7 DEF ReceiveStats, mainVars
<1>8. CASE Reader
  BY <1>3, <1>8 DEF Reader, OpenTail, CheckRotation, CheckWrong, Reopen, ReopenFails, ReadFails, LoseFile, ReadLine,
                    ReadHalf, ReaderExit, Others, forwarderVars, mainVars
<1>9. CASE ReceiveEvent
  <2>1. /\ offered \in Event /\ e = <<e[1], e[2], e[3]>> /\ e[3] \in 1..Events /\ Events \in Nat
        /\ offered = <<offered[1], offered[2], offered[3]>> /\ offered[3] \in 1..Events
    BY <1>9, ConstantsAssumption DEF ReceiveEvent, Inv, Offering, Event
  <2>2. /\ batch' = Append(batch, offered) /\ UNCHANGED <<eventChan, broadcast, full>>
        /\ offered[3] < Events => /\ reader' = "event"
                                  /\ offered' = <<offered[1], offered[2], offered[3] + 1>>
    BY <1>9, <2>1 DEF ReceiveEvent, EventSent, mainVars, Event
  <2>3. CASE e[1] = offered[1] /\ e[2] = offered[2] /\ e[3] >= offered[3]
    <3>1. CASE e[3] = offered[3]
      <4>1. e = offered
        BY <2>1, <2>3, <3>1
      <4> QED
        BY <1>1, <1>4, <2>1, <2>2, <4>1 DEF Followed, OnItsWay
    <3>2. CASE e[3] > offered[3]
      <4>1. offered[3] < Events /\ e[3] >= offered[3] + 1
        BY <2>1, <3>2
      <4>2. reader' = "event" /\ offered'[1] = e[1] /\ offered'[2] = e[2] /\ e[3] >= offered'[3]
        BY <2>1, <2>2, <2>3, <4>1
      <4> QED
        BY <4>2 DEF Followed, OnItsWay
    <3> QED
      BY <2>1, <2>3, <3>1, <3>2
  <2>4. CASE InSeq(e, batch)
    BY <1>1, <1>4, <2>1, <2>2, <2>4 DEF Followed, OnItsWay
  <2>5. CASE InSeq(e, eventChan) \/ InSeq(e, broadcast) \/ e \in full
    BY <2>2, <2>5 DEF Followed, OnItsWay, InSeq
  <2> QED
    BY <2>3, <2>4, <2>5 DEF Followed, OnItsWay
<1>10. CASE Forward
  <2>1. UNCHANGED <<broadcast, reader, offered>>
    BY <1>10 DEF Forward, readerVars, mainVars
  <2>2. CASE batch = << >>
    BY <1>2, <1>10, <2>1, <2>2 DEF Forward
  <2>3. CASE batch # << >>
    <3>1. Head(batch) \in Event /\ batch' = Tail(batch)
      BY <1>1, <1>10, <2>3 DEF Forward
    <3>5. InSeq(e, batch) => InSeq(e, Tail(batch)) \/ e = Head(batch)
      BY <1>1, <1>5, <2>3
    <3>2. InSeq(e, batch) => InSeq(e, batch)' \/ e = Head(batch)
      BY <3>1, <3>5 DEF InSeq
    <3>3. CASE eventChan' = Append(eventChan, Head(batch)) /\ full' = full
      <4>1. InSeq(e, eventChan) \/ e = Head(batch) => InSeq(e, Append(eventChan, Head(batch)))
        BY <1>1, <1>4, <3>1
      <4>2. InSeq(e, eventChan) \/ e = Head(batch) => InSeq(e, eventChan)'
        BY <3>3, <4>1 DEF InSeq
      <4>3. InSeq(e, broadcast) => InSeq(e, broadcast)'
        BY <2>1 DEF InSeq
      <4> QED
        BY <2>1, <3>2, <3>3, <4>2, <4>3 DEF Followed, OnItsWay
    <3>4. CASE full' = full \cup {Head(batch)} /\ eventChan' = eventChan
      BY <2>1, <3>2, <3>4 DEF Followed, OnItsWay, InSeq
    <3> QED
      BY <1>10, <2>3, <3>3, <3>4 DEF Forward
  <2> QED
    BY <2>2, <2>3
<1>11. CASE TakeEvent
  <2>1. /\ eventChan # << >> /\ eventChan' = Tail(eventChan) /\ broadcast' = Append(broadcast, Head(eventChan))
        /\ UNCHANGED <<batch, full, reader, offered>>
    BY <1>11 DEF TakeEvent, readerVars
  <2>2. Head(eventChan) \in Event
    BY <1>1, <2>1
  <2>5. InSeq(e, broadcast) \/ e = Head(eventChan) => InSeq(e, Append(broadcast, Head(eventChan)))
    BY <1>1, <1>4, <2>2
  <2>3. InSeq(e, broadcast) \/ e = Head(eventChan) => InSeq(e, broadcast)'
    BY <2>1, <2>5 DEF InSeq
  <2>6. InSeq(e, eventChan) => InSeq(e, Tail(eventChan)) \/ e = Head(eventChan)
    BY <1>1, <1>5, <2>1
  <2>4. InSeq(e, eventChan) => InSeq(e, eventChan)' \/ e = Head(eventChan)
    BY <2>1, <2>6 DEF InSeq
  <2>7. InSeq(e, batch) => InSeq(e, batch)'
    BY <2>1 DEF InSeq
  <2> QED
    BY <2>1, <2>3, <2>4, <2>7 DEF Followed, OnItsWay
<1> QED
  BY <1>6, <1>7, <1>8, <1>9, <1>10, <1>11 DEF Next, Forwarder, Main

\* Every event of the lines that the reader is past is traced or excused.
Lossless == \A l \in Lines, k \in 1..Events : l < next => Traced(l, k) \/ Excused(l)

LEMMA LosslessKept ==
  ASSUME Inv, Inv', Skippable, Lossless, [Next]_vars
  PROVE  Lossless'
<1> SUFFICES ASSUME NEW l \in Lines, NEW k \in 1..Events, l < next'
             PROVE  (Traced(l, k) \/ Excused(l))'
  BY DEF Lossless
<1>1. /\ l \in Nat /\ next \in Nat /\ written \in Nat /\ gen \in Gens /\ start[gen] \in Nat
      /\ pass \in Nat /\ \A p \in 0..pass : <<p, l, k>> \in Event
  <2>1. written \in Nat /\ next \in Nat /\ gen \in Gens /\ start \in [Gens -> 1..(MaxLines + 1)] /\ pass \in Nat
    <3>1. TypeOK
      BY DEF Inv
    <3> QED
      BY <3>1 DEF TypeOK
  <2>2. l \in Nat /\ \A p \in 0..pass : <<p, l, k>> \in Event
    BY <2>1 DEF Lines, Event
  <2> QED
    BY <2>1, <2>2
<1>2. /\ halved \subseteq halved' /\ behind \subseteq behind' /\ failed \subseteq failed' /\ gap \subseteq gap'
      /\ pass' \in Nat /\ pass <= pass'
  <2>1. CASE Collector
    BY <1>1, <2>1 DEF Collector, WriteHalf, WriteLine, Missed, Rename, Create, readerVars
  <2>2. CASE Reader
    BY <1>1, <2>2 DEF Reader, OpenTail, CheckRotation, CheckWrong, Reopen, ReopenFails, ReadFails, LoseFile, ReadLine,
                      ReadHalf, ReaderExit, Others, collectorVars
  <2>3. CASE Forwarder \/ Main \/ UNCHANGED vars
    BY <1>1, <2>3 DEF Forwarder, ReceiveEvent, DrainDone, Forward, ReceiveStats, ForwarderExit, Main, TakeEvent,
                      TakeStats, Cancel, vars, collectorVars, readerVars
  <2> QED
    BY <2>1, <2>2, <2>3 DEF Next
<1>3. CASE l < next
  <2>1. CASE Traced(l, k)
    <3>1. PICK p \in 0..pass : Followed(<<p, l, k>>)
      BY <2>1 DEF Traced, Followed
    <3>2. Followed(<<p, l, k>>)' /\ p \in 0..pass'
      BY <1>1, <1>2, <3>1, TraceKept
    <3> QED
      BY <3>2 DEF Traced, Followed
  <2>2. CASE Excused(l)
    BY <1>2, <2>2 DEF Excused
  <2> QED
    BY <1>3, <2>1, <2>2 DEF Lossless
<1>4. CASE ~(l < next)
  <2>1. CASE OpenTail
    <3>1. next <= l /\ l <= written /\ file = NoFile
      BY <1>1, <1>4, <2>1 DEF OpenTail
    <3> QED
      BY <1>2, <3>1 DEF Skippable, Excused
  <2>2. CASE Reopen
    <3>1. next <= l /\ l < start[gen]
      BY <1>1, <1>4, <2>2 DEF Reopen
    <3> QED
      BY <1>2, <3>1 DEF Skippable, Excused
  <2>3. CASE ReadLine
    <3>1. l = next
      BY <1>1, <1>4, <2>3 DEF ReadLine
    <3>2. CASE torn
      BY <1>2, <3>1, <3>2 DEF Skippable, Excused
    <3>3. CASE ~torn
      <4>1. reader' = "event" /\ offered' = <<pass, l, 1>> /\ pass' = pass
        BY <2>3, <3>1, <3>3 DEF ReadLine
      <4>2. PICK p \in 0..pass' : p = pass'
        BY <1>2
      <4>3. OnItsWay(<<p, l, k>>)'
        BY <4>1, <4>2 DEF OnItsWay
      <4> QED
        BY <4>2, <4>3 DEF Traced
    <3> QED
      BY <3>2, <3>3
  <2>4. CASE UNCHANGED next
    BY <1>4, <2>4
  <2>5. CASE Collector \/ Forwarder \/ Main \/ UNCHANGED vars
    BY <2>4, <2>5
    DEF Collector, WriteHalf, WriteLine, Rename, Create, Forwarder, ReceiveEvent, DrainDone, Forward, ReceiveStats,
        ForwarderExit, Main, TakeEvent, TakeStats, Cancel, vars, readerVars
  <2>6. CASE CheckRotation \/ CheckWrong \/ ReopenFails \/ ReadFails \/ ReadHalf \/ ReaderExit
    BY <2>4, <2>6 DEF CheckRotation, CheckWrong, ReopenFails, ReadFails, LoseFile, ReadHalf, ReaderExit
  <2> QED
    BY <2>1, <2>2, <2>3, <2>5, <2>6 DEF Next, Reader
<1> QED
  BY <1>3, <1>4

\* Whatever is written, rotated and dropped in whatever order, and whatever calls fail:
\* an event of a line that the reader is past is broadcast or on its way, but for the
\* losses that NothingElseLost names.
THEOREM OnlyExcusedLost == Spec => []NothingElseLost
<1>1. Init => Skippable /\ Lossless
  <2> SUFFICES ASSUME Init PROVE Skippable /\ Lossless
    OBVIOUS
  <2>1. \A l \in Lines : l \in Nat /\ ~(l < 1) /\ ~(1 <= l /\ l <= 0)
    BY DEF Lines
  <2>2. start[gen] = 1
    BY ConstantsAssumption DEF Init, Gens
  <2> QED
    BY <2>1, <2>2 DEF Init, Skippable, Lossless
<1>2. Inv /\ Inv' /\ Skippable /\ [Next]_vars => Skippable'
  BY SkippableKept
<1>3. Inv /\ Inv' /\ Skippable /\ Lossless /\ [Next]_vars => Lossless'
  BY LosslessKept
<1>4. Inv /\ Lossless => NothingElseLost
  <2> SUFFICES ASSUME Inv, Lossless, NEW l \in 1..(next - 1), NEW k \in 1..Events
               PROVE  Traced(l, k) \/ Excused(l)
    BY DEF NothingElseLost, Excused
  <2>1. next \in 1..(MaxLines + 1) /\ MaxLines \in Nat
    BY ConstantsAssumption DEF Inv, TypeOK
  <2>2. l \in Lines /\ l < next
    BY <2>1 DEF Lines
  <2> QED
    BY <2>2 DEF Lossless
<1> QED
  BY <1>1, <1>2, <1>3, <1>4, InvHolds, PTL DEF Spec
=============================================================================
