----------------------------- MODULE PowerManager -----------------------------
(***************************************************************************)
(* The power manager: a poll that copies the state of the relays to        *)
(* m.status, and calls that read that copy and write to the serial line.   *)
(* The calls are those of /power, and the power-down of /setlab and        *)
(* Initialize: TurnOff(PALL), whose error is ignored, and a wait for       *)
(* PortIsOff(PALL).                                                        *)
(*                                                                         *)
(* A status is the set of ports that are on.  It is read field by field;   *)
(* the assignment of a new one counts as one step.                         *)
(***************************************************************************)
EXTENDS Integers, Sequences, Functions

CONSTANTS
  AllPorts,  \* ALL_PORTS, in the order in which PALL takes them
  Callers,   \* goroutines that call TurnOn, TurnOff and Restart
  CallKinds, \* per caller, the calls it makes: what, and on which ports
  MaxSilent  \* polls in the five seconds after which the line counts as dead

Ports == Range(AllPorts)

Calls == [op : {"on", "off", "restart", "down"}, ports : {<<p>> : p \in Ports} \cup {AllPorts}]

ASSUME ConstantsAssumption ==
  /\ AllPorts \in Seq(Ports)
  /\ CallKinds \in [Callers -> SUBSET Calls]
  /\ MaxSilent \in Nat \ {0}

VARIABLES
  relay,   \* the relays that are closed (external)
  status,  \* m.status
  poll,    \* where internalWatch stands
  sample,  \* the reply to the poll that is under way
  silent,  \* polls since m.ts, up to MaxSilent + 1
  call,    \* per caller: the call it is in
  stage,   \* and where in it,
  left,    \* with the ports that this stage has yet to look at
  unpolled,\* history: ports switched since the poll under way was answered,
  unseen,  \* and since the one was answered that m.status is from
  touched  \* history: per caller, the ports unseen when its call began or that another
           \* caller has switched since

pollVars  == <<poll, sample, silent>>
callVars  == <<call, stage, left>>
history   == <<unpolled, unseen, touched>>
vars == <<relay, status, pollVars, callVars, history>>

Stages == {"idle", "off", "writeOff", "spin", "wait", "on", "writeOn"}

\* Which call may stand where.
Stands(op, label) ==
  \/ op = "on"      /\ label \in {"on", "writeOn"}
  \/ op = "off"     /\ label \in {"idle", "off", "writeOff"}
  \/ op = "restart" /\ label \in {"off", "writeOff", "spin", "on", "writeOn"}
  \/ op = "down"    /\ label \in {"off", "writeOff", "wait"}

TypeOK ==
  /\ relay \subseteq Ports /\ status \subseteq Ports
  /\ poll \in {"sleep", "reply", "panicked"}
  /\ sample \subseteq Ports
  /\ silent \in 0..(MaxSilent + 1)
  /\ call \in [Callers -> Calls]
  /\ stage \in [Callers -> Stages]
  /\ \A c \in Callers : Stands(call[c].op, stage[c])
  /\ left \in [Callers -> Seq(Ports)]
  /\ unpolled \subseteq Ports /\ unseen \subseteq Ports
  /\ touched \in [Callers -> SUBSET Ports]

NoCall == [op |-> "off", ports |-> AllPorts]

\* NewPowerManager fails if its first poll does; a garbled reply to it is no failure,
\* but leaves m.status and m.ts zero.
Init ==
  /\ relay \in SUBSET Ports
  /\ \/ status = relay /\ silent = 0
     \/ status = {} /\ silent = MaxSilent + 1
  /\ poll = "sleep" /\ sample = {}
  /\ call = [c \in Callers |-> NoCall]
  /\ stage = [c \in Callers |-> "idle"]
  /\ left = [c \in Callers |-> << >>]
  /\ unpolled = {} /\ unseen = relay \ status
  /\ touched = [c \in Callers |-> {}]

Alive == poll # "panicked"

----------------------------------------------------------------------------
\* internalWatch and updateStatus

\* The relay board answers the status command with the state it is in.
PollRequest ==
  /\ poll = "sleep"
  /\ poll' = "reply"
  /\ sample' = relay
  /\ unpolled' = {}
  /\ UNCHANGED <<relay, status, silent, callVars, unseen, touched>>

\* A bug to be caught: a reply is merged into the status instead of replacing it.
PollGoodMerged ==
  /\ poll = "reply"
  /\ poll' = "sleep"
  /\ sample' = {}
  /\ status' = status \cup sample
  /\ silent' = 0
  /\ unseen' = unpolled
  /\ UNCHANGED <<relay, callVars, unpolled, touched>>

PollGood ==
  /\ poll = "reply"
  /\ poll' = "sleep"
  /\ sample' = {}
  /\ status' = sample
  /\ silent' = 0
  /\ unseen' = unpolled
  /\ UNCHANGED <<relay, callVars, unpolled, touched>>

Silence == IF silent <= MaxSilent THEN silent + 1 ELSE silent

\* A reply with the wrong number of parts is no error: updateStatus returns nil.  Once
\* it is five seconds since the last good reply, err.Error() panics on that nil.
PollGarbled ==
  /\ poll = "reply"
  /\ silent' = Silence
  /\ poll' = IF silent' > MaxSilent THEN "panicked" ELSE "sleep"
  /\ sample' = {}
  /\ UNCHANGED <<relay, status, callVars, history>>

\* The line fails: it is opened anew, and kept as it is if that fails too.
PollFails ==
  /\ poll = "reply"
  /\ silent' = Silence
  /\ poll' = "sleep"
  /\ sample' = {}
  /\ UNCHANGED <<relay, status, callVars, history>>

----------------------------------------------------------------------------
\* TurnOn, TurnOff, Restart, and the wait for PortIsOff(PALL)

Goto(c, label, ports) ==
  /\ stage' = [stage EXCEPT ![c] = label]
  /\ left' = [left EXCEPT ![c] = ports]

GoOn(c, label, ports) == Goto(c, label, ports) /\ UNCHANGED <<call, touched>>

\* The histories of a call end with it.
Return(c) ==
  /\ Goto(c, "idle", << >>)
  /\ call' = [call EXCEPT ![c] = NoCall]
  /\ touched' = [touched EXCEPT ![c] = {}]

\* The caller c switches the port p: the histories take note.
Switched(c, p) ==
  /\ unpolled' = unpolled \cup {p}
  /\ unseen' = unseen \cup {p}
  /\ touched' = [d \in Callers |->
                   IF d = c \/ stage[d] = "idle" THEN touched[d] ELSE touched[d] \cup {p}]

\* The current stage takes the next port.
Advance(c) == GoOn(c, stage[c], Tail(left[c]))

Begin(c, k) ==
  /\ Alive
  /\ stage[c] = "idle"
  /\ call' = [call EXCEPT ![c] = k]
  /\ Goto(c, IF k.op = "on" THEN "on" ELSE "off", k.ports)
  /\ touched' = [touched EXCEPT ![c] = unseen]
  /\ UNCHANGED <<relay, status, pollVars, unpolled, unseen>>

At(c, label) == Alive /\ stage[c] = label /\ left[c] # << >>

\* TurnOff skips a port that is off.
CheckOff(c) ==
  /\ At(c, "off")
  /\ IF Head(left[c]) \in status THEN GoOn(c, "writeOff", left[c]) ELSE Advance(c)
  /\ UNCHANGED <<relay, status, pollVars, unpolled, unseen>>

WriteOff(c) ==
  /\ At(c, "writeOff")
  /\ relay' = relay \ {Head(left[c])}
  /\ Switched(c, Head(left[c]))
  /\ Goto(c, "off", Tail(left[c]))
  /\ UNCHANGED <<status, pollVars, call>>

\* A failed write ends the call, but not the power-down, which ignores the error.
WriteFails(c) ==
  /\ At(c, "writeOff") \/ At(c, "writeOn")
  /\ IF call[c].op = "down" THEN GoOn(c, "wait", AllPorts) ELSE Return(c)
  /\ UNCHANGED <<relay, status, pollVars, unpolled, unseen>>

\* A bug to be caught: TurnOff waits for its ports to be off, as Restart does.
OffDoneSpins(c) ==
  /\ Alive /\ stage[c] = "off" /\ left[c] = << >>
  /\ IF call[c].op = "down" THEN GoOn(c, "wait", AllPorts) ELSE GoOn(c, "spin", call[c].ports)
  /\ UNCHANGED <<relay, status, pollVars, unpolled, unseen>>

OffDone(c) ==
  /\ Alive /\ stage[c] = "off" /\ left[c] = << >>
  /\ \/ call[c].op = "off"     /\ Return(c)
     \/ call[c].op = "restart" /\ GoOn(c, "spin", call[c].ports)
     \/ call[c].op = "down"    /\ GoOn(c, "wait", AllPorts)
  /\ UNCHANGED <<relay, status, pollVars, unpolled, unseen>>

\* "Spin until the status is updated on all of them", one port after the other.
Spin(c) ==
  /\ At(c, "spin")
  /\ Head(left[c]) \notin status
  /\ Advance(c)
  /\ UNCHANGED <<relay, status, pollVars, unpolled, unseen>>

SpinDone(c) ==
  /\ Alive /\ stage[c] = "spin" /\ left[c] = << >>
  /\ GoOn(c, "on", call[c].ports)
  /\ UNCHANGED <<relay, status, pollVars, unpolled, unseen>>

\* A bug to be caught: the wait for all ports looks at the last of them only.
WaitLast(c) ==
  /\ At(c, "wait")
  /\ IF Len(left[c]) = 1 /\ Head(left[c]) \in status
     THEN GoOn(c, "wait", AllPorts) ELSE Advance(c)
  /\ UNCHANGED <<relay, status, pollVars, unpolled, unseen>>

\* One port of PortIsOff(PALL); the first that is on makes it false.
Wait(c) ==
  /\ At(c, "wait")
  /\ IF Head(left[c]) \in status THEN GoOn(c, "wait", AllPorts) ELSE Advance(c)
  /\ UNCHANGED <<relay, status, pollVars, unpolled, unseen>>

WaitDone(c) ==
  /\ Alive /\ stage[c] = "wait" /\ left[c] = << >>
  /\ Return(c)
  /\ UNCHANGED <<relay, status, pollVars, unpolled, unseen>>

\* A bug to be caught: Restart stops at a port that is on, as TurnOn does.
CheckOnStops(c) ==
  /\ At(c, "on")
  /\ IF Head(left[c]) \in status THEN Return(c) ELSE GoOn(c, "writeOn", left[c])
  /\ UNCHANGED <<relay, status, pollVars, unpolled, unseen>>

\* TurnOn returns at the first port that is on.  Restart calls it for each port.
CheckOn(c) ==
  /\ At(c, "on")
  /\ \/ Head(left[c]) \notin status /\ GoOn(c, "writeOn", left[c])
     \/ Head(left[c]) \in status /\ call[c].op # "restart" /\ Return(c)
     \/ Head(left[c]) \in status /\ call[c].op = "restart" /\ Advance(c)
  /\ UNCHANGED <<relay, status, pollVars, unpolled, unseen>>

WriteOn(c) ==
  /\ At(c, "writeOn")
  /\ relay' = relay \cup {Head(left[c])}
  /\ Switched(c, Head(left[c]))
  /\ Goto(c, "on", Tail(left[c]))
  /\ UNCHANGED <<status, pollVars, call>>

OnDone(c) ==
  /\ Alive /\ stage[c] = "on" /\ left[c] = << >>
  /\ Return(c)
  /\ UNCHANGED <<relay, status, pollVars, unpolled, unseen>>

----------------------------------------------------------------------------
Poll == PollRequest \/ PollGood \/ PollGarbled \/ PollFails

\* What the caller c does by itself once it is in a call.
Step(c) ==
  \/ CheckOff(c) \/ WriteOff(c) \/ OffDone(c)
  \/ Spin(c) \/ SpinDone(c) \/ Wait(c) \/ WaitDone(c)
  \/ CheckOn(c) \/ WriteOn(c) \/ OnDone(c)

Next ==
  \/ Poll
  \/ \E c \in Callers : Step(c) \/ WriteFails(c) \/ \E k \in CallKinds[c] : Begin(c, k)

Spec == Init /\ [][Next]_vars

\* The goroutines run, and the line does not garble or lose every reply from some
\* time on.  Nobody has to make a call, and a write may fail.
Fairness ==
  /\ WF_vars(PollRequest) /\ SF_vars(PollGood)
  /\ \A c \in Callers : WF_vars(Step(c))

FairSpec == Spec /\ Fairness

----------------------------------------------------------------------------
Waiting(c) == stage[c] \in {"spin", "wait"}

\* A restart or a power-down that has seen all its ports off has them off, however
\* stale the status is that it reads; except for ports that another caller switched
\* during the call, or before it and after the last good reply to a poll.
OffIsOff ==
  \A c \in Callers :
    Waiting(c) /\ left[c] = << >> => relay \cap Range(call[c].ports) \subseteq touched[c]

\* With the same exceptions, and unless a write fails, Restart leaves its ports on: a
\* stale status does not make it return with a port that it has switched off.
RestartLeavesOn ==
  [][\A c \in Callers :
       call[c].op = "restart" /\ stage[c] = "on" /\ stage'[c] = "idle" =>
         Range(call[c].ports) \subseteq relay \cup touched[c]]_vars

\* A call that waits for its ports to be off ends if they are; it has no other way to
\* end.  (A port that is on may be one it skipped because the status was stale.)
WaitsEnd ==
  \A c \in Callers :
    Waiting(c) ~> (~Waiting(c) \/ ~Alive \/ relay \cap Range(call[c].ports) # {})

=============================================================================
