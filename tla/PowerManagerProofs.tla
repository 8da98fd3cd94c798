------------------------- MODULE PowerManagerProofs -------------------------
(***************************************************************************)
(* PowerManager is well typed: every call is in one of its stages.  And a  *)
(* restart or power-down that has seen its ports off has them off; a       *)
(* restart leaves its ports on.  For any board, any callers and any calls. *)
(***************************************************************************)
EXTENDS PowerManager, TLAPS

----------------------------------------------------------------------------
\* Sequences of ports.

LEMMA HeadAndTail ==
  ASSUME NEW S, NEW s \in Seq(S), s # << >>
  PROVE  /\ Head(s) \in S /\ Head(s) \in Range(s)
         /\ Tail(s) \in Seq(S)
         /\ \A p \in Range(s) : p = Head(s) \/ p \in Range(Tail(s))
         /\ Range(s) \subseteq S
<1>1. \A p \in Range(s) : p = Head(s) \/ p \in Range(Tail(s))
  <2> SUFFICES ASSUME NEW i \in DOMAIN s, i # 1
               PROVE  s[i] \in Range(Tail(s))
    BY DEF Range
  <2>1. i - 1 \in DOMAIN Tail(s) /\ Tail(s)[i - 1] = s[i]
    OBVIOUS
  <2> QED
    BY <2>1 DEF Range
<1> QED
  BY <1>1 DEF Range

LEMMA CallType ==
  /\ NoCall \in Calls
  /\ \A k \in Calls : /\ k.op \in {"on", "off", "restart", "down"}
                      /\ k.ports \in Seq(Ports)
                      /\ Range(k.ports) \subseteq Ports
  /\ Range(AllPorts) = Ports
<1>1. \A p \in Ports : << p >> \in Seq(Ports)
  OBVIOUS
<1>2. \A k \in Calls : k.ports \in Seq(Ports)
  BY <1>1, ConstantsAssumption DEF Calls
<1>3. \A s \in Seq(Ports) : Range(s) \subseteq Ports
  BY DEF Range
<1> QED
  BY <1>2, <1>3 DEF Calls, NoCall, Ports

----------------------------------------------------------------------------
\* Type correctness.

LEMMA InitTypeOK == Init => TypeOK
<1> SUFFICES ASSUME Init PROVE TypeOK
  OBVIOUS
<1>1. call \in [Callers -> Calls] /\ \A c \in Callers : call[c].op = "off"
  BY CallType DEF Init, NoCall
<1> QED
  BY <1>1, ConstantsAssumption DEF Init, TypeOK, Stands, Stages

LEMMA PollTypeOK ==
  ASSUME TypeOK, Poll
  PROVE  TypeOK'
<1> USE ConstantsAssumption DEF TypeOK, callVars, history
<1>1. CASE PollRequest
  BY <1>1 DEF PollRequest
<1>2. CASE PollGood
  BY <1>2 DEF PollGood
<1>3. CASE PollGarbled
  BY <1>3 DEF PollGarbled, Silence
<1>4. CASE PollFails
  BY <1>4 DEF PollFails, Silence
<1> QED
  BY <1>1, <1>2, <1>3, <1>4 DEF Poll

\* What a caller does to its own place, port by port, stays within the types.
LEMMA GotoTypeOK ==
  ASSUME TypeOK, NEW c \in Callers, NEW label, NEW ports \in Seq(Ports),
         GoOn(c, label, ports), label \in Stages, Stands(call[c].op, label)
  PROVE  /\ call' \in [Callers -> Calls]
         /\ stage' \in [Callers -> Stages]
         /\ \A d \in Callers : Stands(call'[d].op, stage'[d])
         /\ left' \in [Callers -> Seq(Ports)]
         /\ touched' \in [Callers -> SUBSET Ports]
BY DEF TypeOK, GoOn, Goto, Stands

LEMMA ReturnTypeOK ==
  ASSUME TypeOK, NEW c \in Callers, Return(c)
  PROVE  /\ call' \in [Callers -> Calls]
         /\ stage' \in [Callers -> Stages]
         /\ \A d \in Callers : Stands(call'[d].op, stage'[d])
         /\ left' \in [Callers -> Seq(Ports)]
         /\ touched' \in [Callers -> SUBSET Ports]
<1>1. NoCall.op = "off" /\ Stands("off", "idle")
  BY DEF NoCall, Stands
<1> QED
  BY <1>1, CallType DEF TypeOK, Return, Goto, Stages, Stands

\* A caller is in a stage of its operation.
LEMMA StageOfCall ==
  ASSUME TypeOK, NEW c \in Callers
  PROVE  /\ call[c] \in Calls
         /\ stage[c] \in Stages
         /\ stage[c] \in {"off", "writeOff"} => call[c].op \in {"off", "restart", "down"}
         /\ stage[c] \in {"on", "writeOn"} => call[c].op \in {"on", "restart"}
         /\ stage[c] = "spin" => call[c].op = "restart"
         /\ stage[c] = "wait" => call[c].op = "down"
<1>1. call[c] \in Calls /\ stage[c] \in Stages /\ Stands(call[c].op, stage[c])
  BY DEF TypeOK
<1> QED
  BY <1>1, CallType DEF Stands

\* A step in which a caller moves on but nothing else changes.
LEMMA MoveTypeOK ==
  ASSUME TypeOK, NEW c \in Callers, UNCHANGED <<relay, status, pollVars, unpolled, unseen>>,
         \/ Return(c)
         \/ \E label \in Stages, ports \in Seq(Ports) :
              Stands(call[c].op, label) /\ GoOn(c, label, ports)
  PROVE  TypeOK'
<1>1. /\ call' \in [Callers -> Calls]
      /\ stage' \in [Callers -> Stages]
      /\ \A d \in Callers : Stands(call'[d].op, stage'[d])
      /\ left' \in [Callers -> Seq(Ports)]
      /\ touched' \in [Callers -> SUBSET Ports]
  BY GotoTypeOK, ReturnTypeOK
<1> QED
  BY <1>1 DEF TypeOK, pollVars

\* A step in which a caller switches a port.
LEMMA SwitchTypeOK ==
  ASSUME TypeOK, NEW c \in Callers, NEW label \in Stages, left[c] # << >>,
         Stands(call[c].op, label),
         relay' = relay \ {Head(left[c])} \/ relay' = relay \cup {Head(left[c])},
         Switched(c, Head(left[c])), Goto(c, label, Tail(left[c])),
         UNCHANGED <<status, pollVars, call>>
  PROVE  TypeOK'
<1>1. Head(left[c]) \in Ports /\ Tail(left[c]) \in Seq(Ports)
  BY HeadAndTail DEF TypeOK
<1>2. touched' \in [Callers -> SUBSET Ports] /\ unpolled' \subseteq Ports /\ unseen' \subseteq Ports
  BY <1>1 DEF TypeOK, Switched
<1>3. /\ stage' \in [Callers -> Stages]
      /\ left' \in [Callers -> Seq(Ports)]
      /\ \A d \in Callers : Stands(call'[d].op, stage'[d])
  BY <1>1 DEF TypeOK, Goto
<1> QED
  BY <1>1, <1>2, <1>3 DEF TypeOK, pollVars

LEMMA CallTypeOK ==
  ASSUME TypeOK, NEW c \in Callers,
         Step(c) \/ WriteFails(c) \/ \E k \in CallKinds[c] : Begin(c, k)
  PROVE  TypeOK'
<1>1. left[c] \in Seq(Ports)
  BY DEF TypeOK
<1>2. left[c] # << >> => Tail(left[c]) \in Seq(Ports)
  BY <1>1, HeadAndTail
<1>3. call[c].ports \in Seq(Ports) /\ AllPorts \in Seq(Ports)
  BY StageOfCall, CallType, ConstantsAssumption
<1> USE <1>1, <1>2, <1>3, StageOfCall DEF At, Advance, Stages, Stands
<1>4. CASE CheckOff(c)
  BY <1>4, MoveTypeOK DEF CheckOff
<1>5. CASE WriteOff(c)
  BY <1>5, SwitchTypeOK DEF WriteOff
<1>6. CASE OffDone(c)
  BY <1>6, MoveTypeOK DEF OffDone
<1>7. CASE Spin(c)
  BY <1>7, MoveTypeOK DEF Spin
<1>8. CASE SpinDone(c)
  BY <1>8, MoveTypeOK DEF SpinDone
<1>9. CASE Wait(c)
  BY <1>9, MoveTypeOK DEF Wait
<1>10. CASE WaitDone(c)
  BY <1>10, MoveTypeOK DEF WaitDone
<1>11. CASE CheckOn(c)
  BY <1>11, MoveTypeOK DEF CheckOn
<1>12. CASE WriteOn(c)
  BY <1>12, SwitchTypeOK DEF WriteOn
<1>13. CASE OnDone(c)
  BY <1>13, MoveTypeOK DEF OnDone
<1>14. CASE WriteFails(c)
  BY <1>14, MoveTypeOK DEF WriteFails
<1>15. ASSUME NEW k \in CallKinds[c], Begin(c, k)
       PROVE  TypeOK'
  <2>1. k \in Calls /\ k.ports \in Seq(Ports)
    BY ConstantsAssumption, CallType
  <2>2. touched' \in [Callers -> SUBSET Ports]
    BY <1>15 DEF Begin, TypeOK
  <2>3. \A d \in Callers : Stands(call'[d].op, stage'[d])
    BY <1>15, <2>1, CallType DEF Begin, Goto, TypeOK
  <2> QED
    BY <1>15, <2>1, <2>2, <2>3 DEF Begin, Goto, TypeOK, pollVars
<1> QED
  BY <1>4, <1>5, <1>6, <1>7, <1>8, <1>9, <1>10, <1>11, <1>12, <1>13, <1>14, <1>15 DEF Step

LEMMA NextTypeOK == TypeOK /\ [Next]_vars => TypeOK'
<1> SUFFICES ASSUME TypeOK, [Next]_vars
             PROVE  TypeOK'
  OBVIOUS
<1>1. CASE UNCHANGED vars
  BY <1>1 DEF vars, pollVars, callVars, history, TypeOK
<1> QED
  BY <1>1, PollTypeOK, CallTypeOK DEF Next

\* The variables keep their types: no caller is in a stage that its operation does not
\* have, and no port outside the board is switched.
THEOREM TypeCorrect == Spec => []TypeOK
BY InitTypeOK, NextTypeOK, PTL DEF Spec

----------------------------------------------------------------------------
\* What a stale status may hide.  The invariant.

\* The copies differ from the relays at most in the ports switched since.
StatusKnown ==
  /\ unpolled \subseteq unseen
  /\ \A p \in Ports \ unseen : p \in relay <=> p \in status
  /\ poll = "reply" => \A p \in Ports \ unpolled : p \in relay <=> p \in sample

\* In the half of a call that switches off, what nobody else has touched is seen on by
\* the status at least as long as by the reply under way, and by that as long as it is.
OffOrder(c) ==
  stage[c] \in {"off", "writeOff", "spin", "wait"} =>
    \A p \in Ports \ touched[c] :
      /\ p \in relay => p \in status
      /\ poll = "reply" => (p \in relay => p \in sample) /\ (p \in sample => p \in status)

\* A wait is past the ports that the status shows off.
SeenOff(c) ==
  Waiting(c) =>
    \A p \in Range(call[c].ports) \ (Range(left[c]) \cup touched[c]) : p \notin status

TurnsOn(c) == call[c].op = "restart" /\ stage[c] \in {"on", "writeOn"}

\* In the half of a restart that switches on, what is seen on is on,
OnOrder(c) ==
  TurnsOn(c) =>
    \A p \in Range(call[c].ports) \ touched[c] :
      /\ p \in status => p \in relay
      /\ poll = "reply" /\ p \in sample => p \in relay

\* and what it is past has been switched on.
TurnedOn(c) ==
  TurnsOn(c) =>
    \A p \in Range(call[c].ports) \ (Range(left[c]) \cup touched[c]) : p \in relay

CallerOK(c) == OffOrder(c) /\ SeenOff(c) /\ OnOrder(c) /\ TurnedOn(c)

StatusInv == StatusKnown /\ \A c \in Callers : CallerOK(c)


\* A step of the caller d in which it moves on and switches nothing,
Moves(d) ==
  /\ UNCHANGED <<relay, status, pollVars, unpolled, unseen>>
  /\ \A c \in Callers \ {d} :
       /\ call'[c] = call[c] /\ stage'[c] = stage[c]
       /\ left'[c] = left[c] /\ touched'[c] = touched[c]

\* and one in which it switches the port p.
Switches(d, p) ==
  /\ UNCHANGED <<status, pollVars, call>>
  /\ \A q \in Ports \ {p} : q \in relay' <=> q \in relay
  /\ Switched(d, p)
  /\ \A c \in Callers \ {d} : stage'[c] = stage[c] /\ left'[c] = left[c]

LEMMA MovesOrSwitches ==
  ASSUME TypeOK, NEW d \in Callers,
         Step(d) \/ WriteFails(d) \/ \E k \in CallKinds[d] : Begin(d, k)
  PROVE  Moves(d) \/ \E p \in Ports : Switches(d, p)
<1>1. ASSUME NEW label, NEW ports, GoOn(d, label, ports),
             UNCHANGED <<relay, status, pollVars, unpolled, unseen>>
      PROVE  Moves(d)
  BY <1>1 DEF GoOn, Goto, Moves, TypeOK
<1>2. ASSUME Return(d), UNCHANGED <<relay, status, pollVars, unpolled, unseen>>
      PROVE  Moves(d)
  BY <1>2 DEF Return, Goto, Moves, TypeOK
<1>3. CASE WriteOff(d) \/ WriteOn(d)
  <2>1. left[d] \in Seq(Ports) /\ left[d] # << >>
    BY <1>3 DEF TypeOK, WriteOff, WriteOn, At
  <2>2. Head(left[d]) \in Ports
    BY <2>1, HeadAndTail
  <2>3. Switches(d, Head(left[d]))
    BY <1>3 DEF WriteOff, WriteOn, Switches, Goto, TypeOK
  <2> QED
    BY <2>2, <2>3
<1>4. ASSUME NEW k \in CallKinds[d], Begin(d, k)
      PROVE  Moves(d)
  BY <1>4 DEF Begin, Goto, Moves, TypeOK
<1> QED
  BY <1>1, <1>2, <1>3, <1>4
  DEF Step, WriteFails, CheckOff, OffDone, Spin, SpinDone, Wait, WaitDone, CheckOn, OnDone, Advance

LEMMA PollKeeps ==
  ASSUME TypeOK, StatusInv, Poll
  PROVE  StatusInv'
<1> USE DEF TypeOK, StatusInv, StatusKnown, callVars, history
<1>1. CASE PollRequest
  BY <1>1 DEF PollRequest, CallerOK, OffOrder, SeenOff, OnOrder, TurnsOn, TurnedOn, Waiting
<1>2. CASE PollGood
  <2>1. StatusKnown'
    BY <1>2 DEF PollGood
  <2>2. ASSUME NEW c \in Callers PROVE CallerOK(c)'
    <3>1. OffOrder(c)' /\ OnOrder(c)' /\ TurnedOn(c)'
      BY <1>2 DEF PollGood, CallerOK, OffOrder, OnOrder, TurnsOn, TurnedOn
    <3>2. SeenOff(c)'
      <4>1. Range(call[c].ports) \subseteq Ports
        BY CallType
      <4> QED
        BY <1>2, <4>1 DEF PollGood, CallerOK, OffOrder, SeenOff, Waiting
    <3> QED
      BY <3>1, <3>2 DEF CallerOK
  <2> QED
    BY <2>1, <2>2
<1>3. CASE PollGarbled \/ PollFails
  BY <1>3 DEF PollGarbled, PollFails, CallerOK, OffOrder, SeenOff, OnOrder, TurnsOn, TurnedOn, Waiting
<1> QED
  BY <1>1, <1>2, <1>3 DEF Poll

LEMMA StatusKept ==
  ASSUME TypeOK, StatusKnown, NEW d \in Callers,
         Moves(d) \/ \E p \in Ports : Switches(d, p)
  PROVE  StatusKnown'
<1>1. CASE Moves(d)
  BY <1>1 DEF Moves, StatusKnown, pollVars
<1>2. CASE \E p \in Ports : Switches(d, p)
  BY <1>2 DEF Switches, Switched, StatusKnown, pollVars
<1> QED
  BY <1>1, <1>2

\* Whatever another caller does is on record in touched[c].
LEMMA OthersKeep ==
  ASSUME TypeOK, NEW d \in Callers, NEW c \in Callers \ {d}, CallerOK(c),
         Moves(d) \/ \E p \in Ports : Switches(d, p)
  PROVE  CallerOK(c)'
<1>1. CASE Moves(d)
  BY <1>1 DEF Moves, pollVars, CallerOK, OffOrder, SeenOff, OnOrder, TurnsOn, TurnedOn, Waiting
<1>2. ASSUME NEW p \in Ports, Switches(d, p)
      PROVE  CallerOK(c)'
  <2>1. /\ stage'[c] = stage[c] /\ left'[c] = left[c] /\ call'[c] = call[c]
        /\ UNCHANGED <<status, poll, sample>>
        /\ \A q \in Ports \ {p} : q \in relay' <=> q \in relay
        /\ stage[c] # "idle" => touched'[c] = touched[c] \cup {p}
    BY <1>2 DEF Switches, Switched, pollVars
  <2>2. Range(call[c].ports) \subseteq Ports
    BY CallType DEF TypeOK
  <2>3. OffOrder(c)' /\ SeenOff(c)'
    BY <2>1 DEF CallerOK, OffOrder, SeenOff, Waiting
  <2>4. OnOrder(c)' /\ TurnedOn(c)'
    BY <2>1, <2>2 DEF CallerOK, OnOrder, TurnsOn, TurnedOn
  <2> QED
    BY <2>3, <2>4 DEF CallerOK
<1> QED
  BY <1>1, <1>2

\* A caller between two calls has nothing to keep.
LEMMA IdleOK ==
  ASSUME NEW c, stage[c] = "idle" PROVE CallerOK(c)
BY DEF CallerOK, OffOrder, SeenOff, OnOrder, TurnsOn, TurnedOn, Waiting

\* The first half of a call.
LEMMA OwnOffSteps ==
  ASSUME TypeOK, StatusKnown, NEW c \in Callers, CallerOK(c),
         CheckOff(c) \/ WriteOff(c) \/ OffDone(c) \/ Spin(c) \/ Wait(c) \/ WaitDone(c) \/ SpinDone(c)
  PROVE  CallerOK(c)'
<1>1. /\ call[c] \in Calls /\ Range(call[c].ports) \subseteq Ports /\ Range(AllPorts) = Ports
      /\ left[c] \in Seq(Ports)
  BY CallType DEF TypeOK
<1>2. left[c] # << >> =>
        /\ Head(left[c]) \in Ports
        /\ \A p \in Range(left[c]) : p = Head(left[c]) \/ p \in Range(Tail(left[c]))
  BY <1>1, HeadAndTail
<1>3. left[c] = << >> => Range(left[c]) = {}
  BY DEF Range
<1> USE <1>1, <1>2, <1>3 DEF TypeOK, pollVars, At, GoOn, Goto, Advance
<1>4. CASE CheckOff(c)
  BY <1>4 DEF CheckOff, CallerOK, OffOrder, SeenOff, OnOrder, TurnsOn, TurnedOn, Waiting
<1>5. CASE WriteOff(c)
  BY <1>5 DEF WriteOff, Switched, CallerOK, OffOrder, SeenOff, OnOrder, TurnsOn, TurnedOn, Waiting
<1>6. CASE OffDone(c)
  <2>1. CASE Return(c)
    BY <2>1, IdleOK DEF Return, CallerOK, OffOrder, SeenOff, OnOrder, TurnsOn, TurnedOn, Waiting
  <2>2. CASE GoOn(c, "spin", call[c].ports) \/ GoOn(c, "wait", AllPorts)
    BY <1>6, <2>2 DEF OffDone, CallerOK, OffOrder, SeenOff, OnOrder, TurnsOn, TurnedOn, Waiting
  <2> QED
    BY <1>6, <2>1, <2>2 DEF OffDone
<1>7. CASE Spin(c)
  BY <1>7 DEF Spin, CallerOK, OffOrder, SeenOff, OnOrder, TurnsOn, TurnedOn, Waiting
<1>8. CASE Wait(c)
  <2>1. CASE Head(left[c]) \in status
    BY <1>8, <2>1 DEF Wait, CallerOK, OffOrder, SeenOff, OnOrder, TurnsOn, TurnedOn, Waiting
  <2>2. CASE Head(left[c]) \notin status
    BY <1>8, <2>2 DEF Wait, CallerOK, OffOrder, SeenOff, OnOrder, TurnsOn, TurnedOn, Waiting
  <2> QED
    BY <2>1, <2>2
<1>9. CASE WaitDone(c)
  BY <1>9 DEF WaitDone, Return, CallerOK, OffOrder, SeenOff, OnOrder, TurnsOn, TurnedOn, Waiting
<1>10. CASE SpinDone(c)
  BY <1>10 DEF SpinDone, CallerOK, OffOrder, SeenOff, OnOrder, TurnsOn, TurnedOn, Waiting
<1> QED
  BY <1>4, <1>5, <1>6, <1>7, <1>8, <1>9, <1>10

\* The second half, the failure of a write, and the start of a call.
LEMMA OwnOnSteps ==
  ASSUME TypeOK, StatusKnown, NEW c \in Callers, CallerOK(c),
         CheckOn(c) \/ WriteOn(c) \/ OnDone(c) \/ WriteFails(c)
           \/ \E k \in CallKinds[c] : Begin(c, k)
  PROVE  CallerOK(c)'
<1>1. /\ call[c] \in Calls /\ Range(call[c].ports) \subseteq Ports /\ Range(AllPorts) = Ports
      /\ left[c] \in Seq(Ports)
  BY CallType DEF TypeOK
<1>2. left[c] # << >> =>
        /\ Head(left[c]) \in Ports
        /\ \A p \in Range(left[c]) : p = Head(left[c]) \/ p \in Range(Tail(left[c]))
  BY <1>1, HeadAndTail
<1>3. ASSUME Return(c) PROVE CallerOK(c)'
  BY <1>3 DEF Return, Goto, TypeOK, CallerOK, OffOrder, SeenOff, OnOrder, TurnsOn, TurnedOn, Waiting
<1> USE <1>1, <1>2 DEF TypeOK, pollVars, At, GoOn, Goto, Advance
<1>4. CASE CheckOn(c)
  BY <1>3, <1>4 DEF CheckOn, CallerOK, OffOrder, SeenOff, OnOrder, TurnsOn, TurnedOn, Waiting
<1>5. CASE WriteOn(c)
  BY <1>5 DEF WriteOn, Switched, CallerOK, OffOrder, SeenOff, OnOrder, TurnsOn, TurnedOn, Waiting
<1>6. CASE OnDone(c)
  BY <1>3, <1>6 DEF OnDone
<1>7. CASE WriteFails(c)
  <2>1. CASE Return(c)
    BY <2>1, <1>3
  <2>2. CASE call[c].op = "down" /\ GoOn(c, "wait", AllPorts)
    <3>1. stage[c] = "writeOff"
      BY <1>7, <2>2, StageOfCall DEF WriteFails
    <3> QED
      BY <1>7, <2>2, <3>1
      DEF WriteFails, CallerOK, OffOrder, SeenOff, OnOrder, TurnsOn, TurnedOn, Waiting
  <2> QED
    BY <1>7, <2>1, <2>2 DEF WriteFails
<1>8. ASSUME NEW k \in CallKinds[c], Begin(c, k)
      PROVE  CallerOK(c)'
  <2>1. /\ call'[c] = k /\ left'[c] = k.ports /\ touched'[c] = unseen
        /\ stage'[c] = IF k.op = "on" THEN "on" ELSE "off"
        /\ UNCHANGED <<relay, status, poll, sample>>
    BY <1>8 DEF Begin
  <2> QED
    BY <2>1 DEF StatusKnown, CallerOK, OffOrder, SeenOff, OnOrder, TurnsOn, TurnedOn, Waiting
<1> QED
  BY <1>4, <1>5, <1>6, <1>7, <1>8

LEMMA StatusInvInductive ==
  /\ Init => StatusInv
  /\ TypeOK /\ StatusInv /\ [Next]_vars => StatusInv'
<1>1. Init => StatusInv
  BY IdleOK DEF Init, StatusInv, StatusKnown
<1>2. ASSUME TypeOK, StatusInv, [Next]_vars PROVE StatusInv'
  <2>1. CASE UNCHANGED vars
    BY <1>2, <2>1 DEF vars, pollVars, callVars, history, StatusInv, StatusKnown,
                   CallerOK, OffOrder, SeenOff, OnOrder, TurnsOn, TurnedOn, Waiting
  <2>2. CASE Poll
    BY <1>2, <2>2, PollKeeps
  <2>3. ASSUME NEW d \in Callers,
               Step(d) \/ WriteFails(d) \/ \E k \in CallKinds[d] : Begin(d, k)
        PROVE  StatusInv'
    <3>1. Moves(d) \/ \E p \in Ports : Switches(d, p)
      BY <1>2, <2>3, MovesOrSwitches
    <3>2. StatusKnown'
      BY <1>2, <3>1, StatusKept DEF StatusInv
    <3>3. CallerOK(d)'
      BY <1>2, <2>3, OwnOffSteps, OwnOnSteps DEF StatusInv, Step
    <3>4. ASSUME NEW c \in Callers \ {d} PROVE CallerOK(c)'
      BY <1>2, <3>1, <3>4, OthersKeep DEF StatusInv
    <3> QED
      BY <3>2, <3>3, <3>4 DEF StatusInv
  <2> QED
    BY <1>2, <2>1, <2>2, <2>3 DEF Next
<1> QED
  BY <1>1, <1>2

LEMMA StatusInvHolds == Spec => []StatusInv
BY StatusInvInductive, TypeCorrect, PTL DEF Spec

\* However stale the status is: a restart or a power-down that has seen all its ports
\* off has them off, except for the ports another caller has meddled with.
THEOREM SeenOffIsOff == Spec => []OffIsOff
<1>1. TypeOK /\ StatusInv => OffIsOff
  <2> SUFFICES ASSUME TypeOK, StatusInv, NEW c \in Callers, Waiting(c), left[c] = << >>,
                      NEW p \in relay \cap Range(call[c].ports), p \notin touched[c]
               PROVE  FALSE
    BY DEF OffIsOff
  <2>1. p \notin Range(left[c]) /\ p \in Ports
    BY DEF Range, TypeOK
  <2> QED
    BY <2>1 DEF StatusInv, CallerOK, OffOrder, SeenOff, Waiting
<1> QED
  BY <1>1, TypeCorrect, StatusInvHolds, PTL

\* With the same exceptions, a restart ends with its ports on, if no write fails: it
\* takes no port for on that it has just switched off.
THEOREM RestartEndsOn == Spec => RestartLeavesOn
<1> DEFINE LeavesOn ==
             \A c \in Callers :
               call[c].op = "restart" /\ stage[c] = "on" /\ stage'[c] = "idle" =>
                 Range(call[c].ports) \subseteq relay \cup touched[c]
<1>1. TypeOK /\ StatusInv /\ [Next]_vars => LeavesOn
  <2> SUFFICES ASSUME TypeOK, StatusInv, [Next]_vars, NEW c \in Callers,
                      call[c].op = "restart", stage[c] = "on", stage'[c] = "idle"
               PROVE  Range(call[c].ports) \subseteq relay \cup touched[c]
    OBVIOUS
  <2>1. CASE left[c] = << >>
    BY <2>1 DEF StatusInv, CallerOK, TurnedOn, TurnsOn, Range
  <2>2. CASE left[c] # << >>
    <3>1. PICK d \in Callers : Step(d) \/ WriteFails(d) \/ \E k \in CallKinds[d] : Begin(d, k)
      BY DEF Next, Poll, PollRequest, PollGood, PollGarbled, PollFails, vars, callVars
    <3>2. d = c
      BY <3>1, MovesOrSwitches DEF Moves, Switches
    <3>3. CheckOn(c)
      BY <3>1, <3>2, <2>2 DEF Step, WriteFails, Begin, At, CheckOff, WriteOff, OffDone, Spin,
                           SpinDone, Wait, WaitDone, WriteOn, OnDone
    <3> QED
      BY <3>3 DEF CheckOn, Advance, GoOn, Goto, TypeOK
  <2> QED
    BY <2>1, <2>2
<1> QED
  BY <1>1, TypeCorrect, StatusInvHolds, PTL DEF Spec, RestartLeavesOn
=============================================================================
