------------------------------- MODULE OtelFile -------------------------------
(***************************************************************************)
(* The log watcher: a goroutine follows the file of the OpenTelemetry      *)
(* collector, which grows and is rotated under it, and hands the events of *)
(* each line to a second one, which forwards them without blocking.        *)
(*                                                                         *)
(* A line is its number.  The file at the path is a generation: a rotation *)
(* renames it and later creates the next one.  A call to the file system   *)
(* may fail.  The contents of an event and of the statistics are left out, *)
(* but for how many events are counted.  A collector that truncates its    *)
(* file instead is not modelled.                                           *)
(***************************************************************************)
EXTENDS Integers, Sequences, FiniteSets

CONSTANTS
  MaxLines,  \* bound: lines written
  MaxGens,   \* bound: generations of the file
  MaxErrors, \* bound: checks, reads and openings of a file that go wrong
  Events,    \* events of a line
  EventCap,  \* capacity of eventChan, 1000 in the code
  StatCap    \* capacity of statChan, 5 in the code

ASSUME ConstantsAssumption ==
  /\ MaxLines \in Nat /\ MaxGens \in Nat \ {0} /\ MaxErrors \in Nat
  /\ Events \in Nat \ {0} /\ EventCap \in Nat \ {0} /\ StatCap \in Nat \ {0}

Lines  == 1..MaxLines
Gens   == 1..MaxGens
NoFile == 0
Event  == Nat \X Lines \X (1..Events) \* pass, line and place in the line

VARIABLES
  written,  \* lines the collector has completed
  half,     \* and the next one is half written
  gen,      \* its generation,
  exists,   \* which is at the path, not renamed
  start,    \* per generation: its first line
  file,     \* generation the reader has open, or NoFile
  next,     \* the line it reads next
  torn,     \* it has no first half of that line: thrown away, or skipped
  errors,   \* calls that went wrong so far
  pass,     \* history: how often it has started the same file anew
  reader,   \* where the reader stands
  offered,  \* the event that it is sending
  counted,  \* stats.NumMessages
  forwarder, \* where the forwarder stands
  batch,    \* the events it has received
  eventChan, statChan,
  broadcast, \* events that the main program has broadcast
  shown,     \* NumMessages in its status
  cancelled, \* the context of the set of watchers
  halved, \* history: lines whose first half the reader has thrown away
  behind, \* history: lines that the reader had not read when their file was renamed
  failed, \* history: lines that it had not read when a call failed and left it no file
  gap,    \* history: lines that were written, in part or whole, while it had no file
  full    \* history: events that found eventChan full

collectorVars == <<written, half, gen, exists, start, behind, gap>>
readerVars    == <<file, next, torn, errors, pass, reader, offered, counted, halved, failed>>
forwarderVars == <<forwarder, batch, eventChan, statChan, full>>
mainVars      == <<broadcast, shown>>
vars == <<collectorVars, readerVars, forwarderVars, mainVars, cancelled>>

TypeOK ==
  /\ written \in 0..MaxLines /\ half \in BOOLEAN
  /\ gen \in Gens /\ exists \in BOOLEAN /\ start \in [Gens -> 1..(MaxLines + 1)]
  /\ file \in Gens \cup {NoFile} /\ next \in 1..(MaxLines + 1) /\ torn \in BOOLEAN
  /\ reader \in {"top", "reopen", "event", "stats", "gone"}
  /\ errors \in 0..MaxErrors /\ pass \in Nat
  /\ offered \in Event \cup {<<0, 0, 0>>} /\ counted \in Nat
  /\ forwarder \in {"select", "drain", "forward", "gone"}
  /\ batch \in Seq(Event)
  /\ eventChan \in Seq(Event) /\ Len(eventChan) <= EventCap
  /\ statChan \in Seq(Nat) /\ Len(statChan) <= StatCap
  /\ broadcast \in Seq(Event) /\ shown \in Nat
  /\ cancelled \in BOOLEAN
  /\ halved \subseteq Lines /\ behind \subseteq Lines /\ failed \subseteq Lines /\ gap \subseteq Lines
  /\ full \subseteq Event

Init ==
  /\ written = 0 /\ half = FALSE
  /\ gen = 1 /\ exists = TRUE /\ start = [g \in Gens |-> 1]
  /\ file = NoFile /\ next = 1 /\ torn = FALSE
  /\ errors = 0 /\ pass = 0
  /\ reader = "top" /\ offered = <<0, 0, 0>> /\ counted = 0
  /\ forwarder = "select" /\ batch = << >>
  /\ eventChan = << >> /\ statChan = << >>
  /\ broadcast = << >> /\ shown = 0 /\ cancelled = FALSE
  /\ halved = {} /\ behind = {} /\ failed = {} /\ gap = {} /\ full = {}

----------------------------------------------------------------------------
\* The collector

\* The line that is being written, which the reader misses if it has no file.
Missed == IF file = NoFile THEN gap \cup {written + 1} ELSE gap

\* It writes the first half of a line.
WriteHalf ==
  /\ exists /\ ~half /\ written < MaxLines
  /\ half' = TRUE /\ gap' = Missed
  /\ UNCHANGED <<written, gen, exists, start, behind, readerVars, forwarderVars, mainVars, cancelled>>

\* It completes a line: its second half, or all of it.
WriteLine ==
  /\ exists /\ written < MaxLines
  /\ written' = written + 1 /\ half' = FALSE /\ gap' = Missed
  /\ UNCHANGED <<gen, exists, start, behind, readerVars, forwarderVars, mainVars, cancelled>>

\* It renames its file, between two lines,
Rename ==
  /\ exists /\ ~half /\ gen < MaxGens
  /\ exists' = FALSE
  /\ behind' = behind \cup next..written
  /\ UNCHANGED <<written, half, gen, start, gap, readerVars, forwarderVars, mainVars, cancelled>>

\* and creates the next one.
Create ==
  /\ ~exists
  /\ exists' = TRUE /\ gen' = gen + 1
  /\ start' = [start EXCEPT ![gen + 1] = written + 1]
  /\ UNCHANGED <<written, half, behind, gap, readerVars, forwarderVars, mainVars, cancelled>>

----------------------------------------------------------------------------
\* The goroutine that reads the file

\* The last line of the file that the reader has open.
LastLine == IF file = gen THEN written ELSE start[file + 1] - 1

Others == <<collectorVars, forwarderVars, mainVars, cancelled>>

\* A bug to be caught: the file is opened but not read from its end.
OpenStart ==
  /\ reader = "top" /\ file = NoFile
  /\ exists
  /\ file' = gen /\ next' = start[gen] /\ torn' = FALSE
  /\ UNCHANGED <<errors, pass, reader, offered, counted, halved, failed, Others>>

\* openFile(true): the lines that are there are skipped, half a line too.  When it
\* fails it leaves everything as it is.
OpenTail ==
  /\ reader = "top" /\ file = NoFile
  /\ exists
  /\ file' = gen /\ next' = written + 1 /\ torn' = half
  /\ UNCHANGED <<errors, pass, reader, offered, counted, halved, failed, Others>>

\* A bug to be caught: only a missing file counts as a rotation.
CheckRotationMissing ==
  /\ reader = "top" /\ file # NoFile
  /\ ~exists
  /\ reader' = "reopen"
  /\ UNCHANGED <<file, next, torn, errors, pass, offered, counted, halved, failed, Others>>

\* A second after the last check, the path has no file, or a file of another inode.
CheckRotation ==
  /\ reader = "top" /\ file # NoFile
  /\ ~exists \/ file # gen
  /\ reader' = "reopen"
  /\ UNCHANGED <<file, next, torn, errors, pass, offered, counted, halved, failed, Others>>

\* The path cannot be looked at, or the time of its last change went backwards: that
\* passes for a rotation, whatever the file.
CheckWrong ==
  /\ reader = "top" /\ file # NoFile
  /\ errors < MaxErrors /\ errors' = errors + 1
  /\ reader' = "reopen"
  /\ UNCHANGED <<file, next, torn, pass, offered, counted, halved, failed, Others>>

\* A bug to be caught: the file that follows a rotation is tailed.
ReopenTail ==
  /\ reader = "reopen"
  /\ \/ exists /\ file' = gen /\ next' = written + 1 /\ torn' = half
     \/ ~exists /\ file' = NoFile /\ UNCHANGED <<next, torn>>
  /\ reader' = "top"
  /\ UNCHANGED <<errors, pass, offered, counted, halved, failed, Others>>

\* openFile(false): the file at the path is read from its first line, although it may
\* be the one that was open.  If there is none yet the reader is left without a file,
\* and the next one is tailed.
Reopen ==
  /\ reader = "reopen"
  /\ \/ /\ exists
        /\ file' = gen /\ next' = start[gen] /\ torn' = FALSE
        /\ pass' = IF file = gen THEN pass + 1 ELSE pass
     \/ /\ ~exists
        /\ file' = NoFile /\ UNCHANGED <<next, torn, pass>>
  /\ reader' = "top"
  /\ UNCHANGED <<errors, offered, counted, halved, failed, Others>>

\* A call goes wrong and the reader is left without a file: its old one is closed.
LoseFile ==
  /\ errors < MaxErrors /\ errors' = errors + 1
  /\ file' = NoFile
  /\ failed' = failed \cup next..(IF half THEN written + 1 ELSE written)
  /\ UNCHANGED <<next, torn, pass, offered, counted, halved, Others>>

\* openFile(false) cannot open or look at the file that is there.
ReopenFails ==
  /\ reader = "reopen" /\ exists
  /\ reader' = "top"
  /\ LoseFile

\* A read fails, with something else than the end of the file.
ReadFails ==
  /\ reader = "top" /\ file # NoFile
  /\ LoseFile
  /\ UNCHANGED reader

\* A line is read and its first event is offered.  The rest of a torn line is not
\* JSON: it has no events.
ReadLine ==
  /\ reader = "top" /\ file # NoFile
  /\ next <= LastLine
  /\ next' = next + 1 /\ torn' = FALSE
  /\ \/ torn /\ UNCHANGED <<reader, offered>>
     \/ ~torn /\ reader' = "event" /\ offered' = <<pass, next, 1>>
  /\ UNCHANGED <<file, errors, pass, counted, halved, failed, Others>>

\* The end of the file is met in a line: what was read of it is thrown away.  ("Save it
\* for next time", says the comment in readLine; nothing is saved.)
ReadHalf ==
  /\ reader = "top" /\ file = gen
  /\ next = written + 1 /\ half /\ ~torn
  /\ torn' = TRUE /\ halved' = halved \cup {next}
  /\ UNCHANGED <<file, next, errors, pass, reader, offered, counted, failed, Others>>

\* The event is received: the next one is offered, or the line is counted.
EventSent ==
  IF offered[3] < Events
  THEN offered' = [offered EXCEPT ![3] = @ + 1] /\ UNCHANGED <<reader, counted>>
  ELSE reader' = "stats" /\ counted' = counted + Events /\ UNCHANGED offered

\* The reader looks at its context only here: it may stay blocked in a send.
ReaderExit ==
  /\ reader = "top" /\ cancelled
  /\ reader' = "gone"
  /\ UNCHANGED <<file, next, torn, errors, pass, offered, counted, halved, failed, Others>>

----------------------------------------------------------------------------
\* The loop that forwards events and statistics

\* An event is received, and so are the others that are ready when it looks.
ReceiveEvent ==
  /\ forwarder \in {"select", "drain"} /\ reader = "event"
  /\ batch' = Append(batch, offered)
  /\ forwarder' = "drain"
  /\ EventSent
  /\ UNCHANGED <<eventChan, statChan, full, file, next, torn, errors, pass, halved, failed,
                 collectorVars, mainVars, cancelled>>

DrainDone ==
  /\ forwarder = "drain"
  /\ forwarder' = "forward"
  /\ UNCHANGED <<batch, eventChan, statChan, full, collectorVars, readerVars, mainVars, cancelled>>

\* A bug to be caught: the capacity of eventChan is not looked at.
ForwardUnbounded ==
  /\ forwarder = "forward"
  /\ IF batch = << >>
     THEN forwarder' = "select" /\ UNCHANGED <<batch, eventChan, full>>
     ELSE /\ batch' = Tail(batch)
          /\ eventChan' = Append(eventChan, Head(batch))
          /\ UNCHANGED <<forwarder, full>>
  /\ UNCHANGED <<statChan, collectorVars, readerVars, mainVars, cancelled>>

\* Each event is forwarded, or dropped if the channel is full.
Forward ==
  /\ forwarder = "forward"
  /\ IF batch = << >>
     THEN forwarder' = "select" /\ UNCHANGED <<batch, eventChan, full>>
     ELSE /\ batch' = Tail(batch) /\ UNCHANGED forwarder
          /\ IF Len(eventChan) < EventCap
             THEN eventChan' = Append(eventChan, Head(batch)) /\ UNCHANGED full
             ELSE full' = full \cup {Head(batch)} /\ UNCHANGED eventChan
  /\ UNCHANGED <<statChan, collectorVars, readerVars, mainVars, cancelled>>

\* Statistics are forwarded, or skipped: too soon after the last, or the channel is full.
\* None are left to drain: the reader has events to send before it has others.
ReceiveStats ==
  /\ forwarder = "select" /\ reader = "stats"
  /\ \/ Len(statChan) < StatCap /\ statChan' = Append(statChan, counted)
     \/ UNCHANGED statChan
  /\ reader' = "top"
  /\ UNCHANGED <<forwarder, batch, eventChan, full, file, next, torn, errors, pass, offered,
                 counted, halved, failed, collectorVars, mainVars, cancelled>>

ForwarderExit ==
  /\ forwarder = "select" /\ cancelled
  /\ forwarder' = "gone"
  /\ UNCHANGED <<batch, eventChan, statChan, full, collectorVars, readerVars, mainVars, cancelled>>

----------------------------------------------------------------------------
\* The main program

TakeEvent ==
  /\ eventChan # << >>
  /\ broadcast' = Append(broadcast, Head(eventChan)) /\ eventChan' = Tail(eventChan)
  /\ UNCHANGED <<shown, forwarder, batch, statChan, full, collectorVars, readerVars, cancelled>>

TakeStats ==
  /\ statChan # << >>
  /\ shown' = Head(statChan) /\ statChan' = Tail(statChan)
  /\ UNCHANGED <<broadcast, forwarder, batch, eventChan, full, collectorVars, readerVars,
                 cancelled>>

\* The watchers are reset.
Cancel ==
  /\ ~cancelled
  /\ cancelled' = TRUE
  /\ UNCHANGED <<collectorVars, readerVars, forwarderVars, mainVars>>

----------------------------------------------------------------------------
Collector == WriteHalf \/ WriteLine \/ Rename \/ Create
Reader    ==
  \/ OpenTail \/ CheckRotation \/ CheckWrong \/ Reopen \/ ReopenFails
  \/ ReadLine \/ ReadHalf \/ ReadFails \/ ReaderExit
Forwarder == ReceiveEvent \/ DrainDone \/ Forward \/ ReceiveStats \/ ForwarderExit
Main      == TakeEvent \/ TakeStats \/ Cancel

Next == Collector \/ Reader \/ Forwarder \/ Main

Spec == Init /\ [][Next]_vars

\* The goroutines run, a check of the rotation falls due every second, and a collector
\* that has renamed its file creates the next one.
Fairness ==
  /\ WF_vars(OpenTail) /\ WF_vars(CheckRotation) /\ WF_vars(Reopen) /\ WF_vars(ReadLine)
  /\ WF_vars(ReceiveEvent) /\ WF_vars(DrainDone) /\ WF_vars(Forward) /\ WF_vars(ReceiveStats)
  /\ WF_vars(Create)

FairSpec == Spec /\ Fairness

----------------------------------------------------------------------------
\* Events of one pass come in the order of the log, and passes one after the other.
Before(e, f) ==
  \/ e[1] < f[1]
  \/ e[1] = f[1] /\ (e[2] < f[2] \/ (e[2] = f[2] /\ e[3] < f[3]))

InSeq(e, s)  == \E i \in DOMAIN s : s[i] = e

\* What is still on its way from the reader to the main program.
OnItsWay(e) ==
  \/ reader = "event" /\ e[1] = offered[1] /\ e[2] = offered[2] /\ e[3] >= offered[3]
  \/ InSeq(e, batch) \/ InSeq(e, eventChan)

\* It was read in some pass, and broadcast, or is on its way, or found eventChan full.
Traced(l, k) ==
  \E p \in 0..pass :
    InSeq(<<p, l, k>>, broadcast) \/ OnItsWay(<<p, l, k>>) \/ <<p, l, k>> \in full

\* Events are broadcast in the order of the log, and none of them twice unless the
\* reader has started the same file anew; whatever rotations it notices, late or more
\* than once or wrongly (openFile, checkFileRotation).
InOrder == \A i, j \in DOMAIN broadcast : i < j => Before(broadcast[i], broadcast[j])

\* An event of a line that the reader is past has been broadcast, is on its way or
\* found eventChan full.  What may be lost besides: a line that the reader met half
\* written, a line that it had not read when the file was renamed or when a call failed
\* and left it without a file, and a line that was written while it had no file.
NothingElseLost ==
  \A l \in 1..(next - 1), k \in 1..Events :
    Traced(l, k) \/ l \in halved \cup behind \cup failed \cup gap

\* Whatever rotations happen, and however full the channels are, the reader gets past
\* every line of the log, unless the watchers are reset: it does not stay with a file
\* that was renamed, and the two goroutines do not wait for each other.
LinesHandled == \A l \in Lines : written >= l ~> (next > l \/ cancelled)
=============================================================================
