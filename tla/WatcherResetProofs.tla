------------------------- MODULE WatcherResetProofs -------------------------
(***************************************************************************)
(* WatcherReset is well typed; between resets a set of watchers runs that  *)
(* can be cancelled, and any other is one that overlapping resets left     *)
(* behind; and the deadlock of a reset with a callback lasts.              *)
(* For any number of requests and callers.                                 *)
(***************************************************************************)
EXTENDS WatcherReset, TLAPS

USE DEF Sets

----------------------------------------------------------------------------
\* Type correctness.

LEMMA InitTypeOK == Init => TypeOK
BY ConstantsAssumption DEF Init, TypeOK, Status, Fresh

LEMMA HandlerTypeOK ==
  ASSUME TypeOK, NEW r \in Requests, Reset(r) \/ SetLab(r) \/ Handler(r)
  PROVE  TypeOK'
<1> USE DEF TypeOK, Status, Fresh, Goto, LoopGoto, loopVars, cbVars, initVars, chanVars
<1>1. CASE Reset(r)
  BY <1>1 DEF Reset
<1>2. CASE SetLab(r)
  BY <1>2 DEF SetLab
<1>3. CASE Await(r)
  BY <1>3 DEF Await
<1>4. CASE Cancel(r)
  BY <1>4 DEF Cancel
<1>5. CASE ResetCallbacks(r)
  BY <1>5 DEF ResetCallbacks
<1>6. CASE ResetStatus(r)
  BY <1>6 DEF ResetStatus
<1>7. CASE StartWatchers(r)
  BY <1>7 DEF StartWatchers
<1>8. CASE Assign(r)
  BY <1>8 DEF Assign
<1>9. CASE ReadStatus(r)
  BY <1>9 DEF ReadStatus
<1>10. CASE WriteStatus(r)
  BY <1>10 DEF WriteStatus
<1>11. CASE Spawn(r)
  BY <1>11, ConstantsAssumption DEF Spawn
<1> QED
  BY <1>1, <1>2, <1>3, <1>4, <1>5, <1>6, <1>7, <1>8, <1>9, <1>10, <1>11 DEF Handler

LEMMA LoopTypeOK ==
  ASSUME TypeOK, NEW s \in Sets, Loop(s)
  PROVE  TypeOK'
<1> USE DEF TypeOK, Status, Fresh, LoopGoto, handlerVars, cbVars, initVars, chanVars
<1>1. CASE LoopExit(s)
  BY <1>1 DEF LoopExit
<1>2. CASE LoopCallback(s)
  <2>2. update' \in [Sets -> Status]
    BY <1>2 DEF LoopCallback
  <2>3. /\ caller' \in [Callers -> {"idle", "send"}]
        /\ cbMux' = Nobody
        /\ \A c \in Callers : caller'[c] # "send"
    BY <1>2 DEF LoopCallback
  <2> QED
    BY <1>2, <2>2, <2>3, ConstantsAssumption DEF LoopCallback
<1>3. CASE LoopCheck(s)
  BY <1>3 DEF LoopCheck
<1>4. CASE LoopPush(s)
  <2>1. update[s] \in SUBSET Callers
    OBVIOUS
  <2>2. cbStatuses' \in Seq(SUBSET Callers) /\ Len(cbStatuses') <= CbCap
    BY <1>4, <2>1, ConstantsAssumption DEF LoopPush
  <2> QED
    BY <1>4, <2>2 DEF LoopPush
<1>5. CASE LoopInitializer(s)
  <2>1. statusChan' \in Seq(Requests) /\ Len(statusChan') <= StatusCap
    BY <1>5, ConstantsAssumption DEF LoopInitializer
  <2> QED
    BY <1>5, <2>1 DEF LoopInitializer
<1>6. CASE LoopOther(s)
  BY <1>6 DEF LoopOther
<1>7. CASE LoopUpdate(s)
  BY <1>7 DEF LoopUpdate
<1> QED
  BY <1>1, <1>2, <1>3, <1>4, <1>5, <1>6, <1>7 DEF Loop

LEMMA InitializerTypeOK ==
  ASSUME TypeOK, Initializer
  PROVE  TypeOK'
<1> USE DEF TypeOK, handlerVars, loopVars, cbVars
<1>1. CASE Begin
  BY <1>1, ConstantsAssumption DEF Begin
<1>2. CASE SendStatusUpdate
  <2>1. handle \in Requests
    BY <1>2, ConstantsAssumption DEF SendStatusUpdate
  <2>2. statusChan' \in Seq(Requests) /\ Len(statusChan') <= StatusCap
    BY <1>2, <2>1, ConstantsAssumption DEF SendStatusUpdate
  <2>3. news' \in 0..MaxNews
    BY <1>2, ConstantsAssumption DEF SendStatusUpdate
  <2> QED
    BY <1>2, <2>2, <2>3 DEF SendStatusUpdate
<1>3. CASE Return
  BY <1>3 DEF Return, chanVars
<1> QED
  BY <1>1, <1>2, <1>3 DEF Initializer

LEMMA OthersTypeOK ==
  ASSUME TypeOK,
         \/ \E c \in Callers : Callback(c)
         \/ \E r \in Requests : Take(r)
  PROVE  TypeOK'
<1> USE DEF TypeOK, handlerVars, loopVars, initVars, chanVars, cbVars
<1>1. ASSUME NEW c \in Callers, Callback(c)
      PROVE  TypeOK'
  BY <1>1, ConstantsAssumption DEF Callback
<1>2. ASSUME NEW r \in Requests, Take(r)
      PROVE  TypeOK'
  <2>1. cbStatuses' \in Seq(SUBSET Callers) /\ Len(cbStatuses') <= CbCap
    BY <1>2, ConstantsAssumption DEF Take
  <2> QED
    BY <1>2, <2>1 DEF Take
<1> QED
  BY <1>1, <1>2

LEMMA NextTypeOK == TypeOK /\ [Next]_vars => TypeOK'
<1> SUFFICES ASSUME TypeOK, [Next]_vars
             PROVE  TypeOK'
  OBVIOUS
<1>1. CASE UNCHANGED vars
  BY <1>1 DEF vars, handlerVars, loopVars, cbVars, initVars, chanVars, TypeOK
<1> QED
  BY <1>1, HandlerTypeOK, LoopTypeOK, InitializerTypeOK, OthersTypeOK DEF Next

\* The variables keep their types; a caller holds the callback watcher's mutex
\* exactly while it sends, and neither channel of the initializer overflows.
THEOREM TypeCorrect == Spec => []TypeOK
BY InitTypeOK, NextTypeOK, PTL DEF Spec

----------------------------------------------------------------------------
\* The sets of watchers.

\* A request that replaces the watchers has cancelled the set that watcherCancel refers
\* to, or an earlier one, and another request has assigned its own since.
OldKnown ==
  \A r \in Requests : Replacing(r) => watcherCancel \in cancelled \cup overlapped

\* A set that runs is cancelled, or can be, or is about to be assigned, or was assigned
\* in the middle of another reset.
RunningKnown ==
  \A s \in Sets : Listening(s) =>
    \/ s \in cancelled \cup overlapped
    \/ s = watcherCancel
    \/ s \in Requests /\ pc[s] = "assign"

SInv == OldKnown /\ RunningKnown

LEMMA InitSInv == Init => SInv
BY DEF Init, SInv, OldKnown, RunningKnown, Replacing, Listening

LEMMA HandlerSInv ==
  ASSUME TypeOK, SInv, NEW r \in Requests, Reset(r) \/ SetLab(r) \/ Handler(r)
  PROVE  SInv'
<1> USE DEF TypeOK, SInv, OldKnown, RunningKnown, Replacing, Listening, Goto, loopVars
<1>1. CASE Reset(r)
  BY <1>1 DEF Reset
<1>2. CASE SetLab(r)
  BY <1>2 DEF SetLab
<1>3. CASE Await(r)
  BY <1>3 DEF Await
<1>4. CASE Cancel(r)
  BY <1>4 DEF Cancel
<1>5. CASE ResetCallbacks(r)
  BY <1>5 DEF ResetCallbacks
<1>6. CASE ResetStatus(r)
  BY <1>6 DEF ResetStatus
<1>7. CASE StartWatchers(r)
  BY <1>7 DEF StartWatchers, LoopGoto
<1>8. CASE Assign(r)
  <2>1. pc[r] = "assign" /\ pc'[r] \in {"read", "done"} /\ \A q \in Requests : q # r => pc'[q] = pc[q]
    BY <1>8 DEF Assign
  <2>2. watcherCancel' = r /\ UNCHANGED <<cancelled, loop>> /\ overlapped \subseteq overlapped'
    BY <1>8 DEF Assign
  <2>3. OldKnown'
    <3>1. \A q \in Requests : Replacing(q)' => q # r /\ Replacing(q)
      BY <2>1
    <3>2. (\E q \in Requests : q # r /\ Replacing(q)) => r \in overlapped'
      BY <1>8 DEF Assign
    <3> QED
      BY <2>2, <3>1, <3>2
  <2>4. watcherCancel \in cancelled \cup overlapped
    BY <2>1
  <2>5. RunningKnown'
    BY <2>1, <2>2, <2>4
  <2> QED
    BY <2>3, <2>5
<1>9. CASE ReadStatus(r)
  BY <1>9 DEF ReadStatus
<1>10. CASE WriteStatus(r)
  BY <1>10 DEF WriteStatus
<1>11. CASE Spawn(r)
  BY <1>11 DEF Spawn
<1> QED
  BY <1>1, <1>2, <1>3, <1>4, <1>5, <1>6, <1>7, <1>8, <1>9, <1>10, <1>11 DEF Handler

\* A loop moves itself only, and only while it runs.
LEMMA LoopMoves ==
  ASSUME TypeOK, NEW s \in Sets, Loop(s)
  PROVE  /\ UNCHANGED <<handlerVars, cancelled>>
         /\ loop[s] \notin {"none", "gone"}
         /\ \A q \in Sets : q # s => loop'[q] = loop[q]
<1> USE DEF TypeOK, LoopGoto
<1> QED
  BY DEF Loop, LoopExit, LoopCallback, LoopCheck, LoopPush, LoopInitializer, LoopOther,
         LoopUpdate

LEMMA OthersKeep ==
  ASSUME \/ Initializer
         \/ \E c \in Callers : Callback(c)
         \/ \E r \in Requests : Take(r)
         \/ UNCHANGED vars
  PROVE  UNCHANGED <<handlerVars, loopVars>>
BY DEF Initializer, Begin, SendStatusUpdate, Return, Callback, Take, vars

LEMMA NextSInv == TypeOK /\ SInv /\ [Next]_vars => SInv'
<1> SUFFICES ASSUME TypeOK, SInv, [Next]_vars
             PROVE  SInv'
  OBVIOUS
<1>1. ASSUME NEW s \in Sets, Loop(s)
      PROVE  SInv'
  BY <1>1, LoopMoves
     DEF SInv, OldKnown, RunningKnown, Replacing, Listening, handlerVars
<1>2. CASE UNCHANGED <<handlerVars, loopVars>>
  BY <1>2 DEF SInv, OldKnown, RunningKnown, Replacing, Listening, handlerVars, loopVars
<1> QED
  BY <1>1, <1>2, HandlerSInv, OthersKeep DEF Next

----------------------------------------------------------------------------
\* There is always a set of watchers that runs.

\* watcherCancel has referred to the set.
Assigned(s) == s = Nobody \/ pc[s] \in {"read", "write", "spawn", "done"}

\* Only such sets are cancelled; the last of them is, only until the request that has
\* cancelled it assigns its own; and those that are not cancelled run.
LInv ==
  /\ Assigned(watcherCancel)
  /\ \A s \in cancelled : Assigned(s)
  /\ (\A r \in Requests : ~Replacing(r)) => watcherCancel \notin cancelled
  /\ \A s \in Sets \ cancelled : Assigned(s) \/ pc[s] = "assign" => Listening(s)

LEMMA HandlerLInv ==
  ASSUME TypeOK, LInv, NEW r \in Requests, Reset(r) \/ SetLab(r) \/ Handler(r)
  PROVE  LInv'
<1>1. r \in Sets /\ r # Nobody
  BY ConstantsAssumption
<1> USE <1>1 DEF TypeOK, LInv, Replacing, Assigned, Listening, Goto, loopVars
<1>2. ASSUME UNCHANGED <<watcherCancel, cancelled, loop>>,
             NEW x \in {"idle", "await", "callbacks", "status", "read", "write", "spawn"},
             NEW y \in {"await", "cancel", "status", "start", "write", "spawn", "done"},
             pc[r] = x, Goto(r, y),
             x \in {"callbacks", "status"} => y \in {"status", "start"},
             x \in {"read", "write", "spawn"} <=> y \in {"write", "spawn", "done"}
      PROVE  LInv'
  <2>1. pc'[r] = y /\ \A q \in Requests : q # r => pc'[q] = pc[q]
    BY <1>2
  <2>2. \A q \in Requests : Replacing(q) => Replacing(q)'
    BY <1>2, <2>1
  <2>3. \A s \in Sets : (Assigned(s)' <=> Assigned(s)) /\ (s # Nobody => (pc'[s] = "assign" <=> pc[s] = "assign"))
    BY <1>2, <2>1
  <2> QED
    BY <1>2, <2>2, <2>3
<1>3. CASE Reset(r)
  BY <1>2, <1>3 DEF Reset
<1>4. CASE SetLab(r)
  BY <1>2, <1>4 DEF SetLab
<1>5. CASE Await(r)
  BY <1>2, <1>5 DEF Await
<1>6. CASE Cancel(r)
  <2>1. pc[r] = "cancel" /\ pc'[r] = "callbacks" /\ \A q \in Requests : q # r => pc'[q] = pc[q]
    BY <1>6 DEF Cancel
  <2>2. cancelled' = cancelled \cup {watcherCancel} /\ UNCHANGED <<watcherCancel, loop>>
    BY <1>6 DEF Cancel
  <2>3. \A s \in Sets : (Assigned(s)' <=> Assigned(s)) /\ (s # Nobody => (pc'[s] = "assign" <=> pc[s] = "assign"))
    BY <2>1
  <2>4. Replacing(r)'
    BY <2>1
  <2> QED
    BY <2>2, <2>3, <2>4
<1>7. CASE ResetCallbacks(r)
  BY <1>2, <1>7 DEF ResetCallbacks
<1>8. CASE ResetStatus(r)
  BY <1>2, <1>8 DEF ResetStatus
<1>9. CASE StartWatchers(r)
  <2>1. pc[r] = "start" /\ pc'[r] = "assign" /\ \A q \in Requests : q # r => pc'[q] = pc[q]
    BY <1>9 DEF StartWatchers
  <2>2. /\ UNCHANGED <<watcherCancel, cancelled>>
        /\ loop'[r] = "select" /\ \A s \in Sets : s # r => loop'[s] = loop[s]
    BY <1>9 DEF StartWatchers, LoopGoto
  <2>3. \A s \in Sets : (Assigned(s)' <=> Assigned(s)) /\ (s \notin {Nobody, r} => (pc'[s] = "assign" <=> pc[s] = "assign"))
    BY <2>1
  <2>4. Replacing(r)'
    BY <2>1
  <2> QED
    BY <2>2, <2>3, <2>4
<1>10. CASE Assign(r)
  <2>1. pc[r] = "assign" /\ pc'[r] \in {"read", "done"} /\ \A q \in Requests : q # r => pc'[q] = pc[q]
    BY <1>10 DEF Assign
  <2>2. UNCHANGED <<cancelled, loop>> /\ watcherCancel' = r
    BY <1>10 DEF Assign
  <2>3. r \notin cancelled
    BY <2>1
  <2>4. Assigned(r)' /\ \A s \in Sets : s # r => (Assigned(s)' <=> Assigned(s))
    BY <2>1
  <2> QED
    BY <2>1, <2>2, <2>3, <2>4
<1>11. CASE ReadStatus(r)
  BY <1>2, <1>11 DEF ReadStatus
<1>12. CASE WriteStatus(r)
  BY <1>2, <1>12 DEF WriteStatus
<1>13. CASE Spawn(r)
  BY <1>2, <1>13 DEF Spawn
<1> QED
  BY <1>3, <1>4, <1>5, <1>6, <1>7, <1>8, <1>9, <1>10, <1>11, <1>12, <1>13 DEF Handler

\* A loop ends only if its set is cancelled.
LEMMA LoopListens ==
  ASSUME TypeOK, NEW s \in Sets, Loop(s), s \notin cancelled
  PROVE  Listening(s)'
BY DEF Loop, LoopExit, LoopCallback, LoopCheck, LoopPush, LoopInitializer, LoopOther, LoopUpdate, LoopGoto, Listening,
       TypeOK

LEMMA ListensHolds == Spec => [](TypeOK /\ LInv)
<1>1. Init => LInv
  BY ConstantsAssumption DEF Init, LInv, Assigned, Replacing, Listening
<1>2. TypeOK /\ LInv /\ [Next]_vars => LInv'
  <2> SUFFICES ASSUME TypeOK, LInv, [Next]_vars PROVE LInv'
    OBVIOUS
  <2>1. ASSUME NEW s \in Sets, Loop(s)
        PROVE  LInv'
    <3>1. \A q \in Sets \ cancelled : Listening(q) => Listening(q)'
      BY <2>1, LoopMoves, LoopListens DEF Listening
    <3> QED
      BY <2>1, <3>1, LoopMoves DEF LInv, Assigned, Replacing, handlerVars
  <2>2. CASE UNCHANGED <<handlerVars, loopVars>>
    BY <2>2 DEF LInv, Assigned, Replacing, Listening, handlerVars, loopVars
  <2> QED
    BY <2>1, <2>2, HandlerLInv, OthersKeep DEF Next
<1> QED
  BY <1>1, <1>2, InitTypeOK, NextTypeOK, PTL DEF Spec

\* However resets overlap: between them a set of watchers runs that is not cancelled, the
\* one that the next reset will cancel; and any other that does was left behind by
\* overlapping resets, for it was assigned in the middle of another one.
THEOREM Cancellable == Spec => []WatchersCancellable
<1>1. TypeOK /\ SInv /\ LInv => WatchersCancellable
  <2> SUFFICES ASSUME TypeOK, SInv, LInv, \A r \in Requests : ~Replacing(r)
               PROVE  /\ Listening(watcherCancel) /\ watcherCancel \notin cancelled
                      /\ \A s \in Sets : Listening(s) /\ s \notin cancelled =>
                                         s = watcherCancel \/ s \in overlapped
    BY DEF WatchersCancellable
  <2>1. \A s \in Sets : Listening(s) /\ s \notin cancelled => s = watcherCancel \/ s \in overlapped
    BY DEF SInv, RunningKnown, Replacing
  <2>2. watcherCancel \notin cancelled /\ Listening(watcherCancel)
    BY DEF LInv, TypeOK
  <2> QED
    BY <2>1, <2>2
<1> QED
  BY <1>1, InitSInv, NextSInv, InitTypeOK, NextTypeOK, ListensHolds, PTL DEF Spec

----------------------------------------------------------------------------
\* The deadlock of a reset and a callback.

\* A caller holds the mutex that a reset waits for, nobody reads its callback, and no
\* other reset is past the mutex and about to start a set of watchers.
HeldUp(r, c) ==
  /\ Deadlocked(r) /\ cbMux = c
  /\ \A q \in Requests : pc[q] \notin {"status", "start"}

\* Once a callback has come between the end of the old watchers and the reset of the
\* callback watcher, the reset never gets the mutex and the caller no answer: nothing can
\* happen that brings a reader back, for other resets wait for the mutex as well.  Only a
\* reset that was already past the mutex could have.
THEOREM DeadlockIsForGood ==
  ASSUME NEW r \in Requests, NEW c \in Callers
  PROVE  Spec => [](HeldUp(r, c) => []HeldUp(r, c))
<1>1. TypeOK /\ HeldUp(r, c) /\ [Next]_vars => HeldUp(r, c)'
  <2> SUFFICES ASSUME TypeOK, HeldUp(r, c), [Next]_vars
               PROVE  HeldUp(r, c)'
    OBVIOUS
  <2>1. /\ pc[r] = "callbacks" /\ cbMux = c /\ cbMux # Nobody
        /\ \A s \in Sets : ~Listening(s)
        /\ \A q \in Requests : pc[q] \notin {"status", "start"}
    BY ConstantsAssumption DEF HeldUp, Deadlocked
  <2>2. ASSUME UNCHANGED <<loop, cbMux>>, pc'[r] = pc[r],
               \A q \in Requests : pc'[q] \notin {"status", "start"}
        PROVE  HeldUp(r, c)'
    BY <2>1, <2>2 DEF HeldUp, Deadlocked, Listening
  <2>3. ASSUME NEW q \in Requests, Reset(q) \/ SetLab(q) \/ Handler(q)
        PROVE  HeldUp(r, c)'
    <3> USE <2>1 DEF Goto, TypeOK, loopVars, cbVars
    <3>1. CASE Reset(q)
      BY <2>2, <3>1 DEF Reset
    <3>2. CASE SetLab(q)
      BY <2>2, <3>2 DEF SetLab
    <3>3. CASE Await(q)
      BY <2>2, <3>3 DEF Await
    <3>4. CASE Cancel(q)
      BY <2>2, <3>4 DEF Cancel
    <3>5. ~(ResetCallbacks(q) \/ ResetStatus(q) \/ StartWatchers(q))
      BY DEF ResetCallbacks, ResetStatus, StartWatchers
    <3>6. CASE Assign(q)
      BY <2>2, <3>6 DEF Assign
    <3>7. CASE ReadStatus(q) \/ WriteStatus(q)
      BY <2>2, <3>7 DEF ReadStatus, WriteStatus
    <3>8. CASE Spawn(q)
      BY <2>2, <3>8 DEF Spawn
    <3> QED
      BY <2>3, <3>1, <3>2, <3>3, <3>4, <3>5, <3>6, <3>7, <3>8 DEF Handler
  <2>4. \A s \in Sets : ~Loop(s)
    BY <2>1, LoopMoves DEF Listening
  <2>5. \A d \in Callers : ~Callback(d)
    BY <2>1 DEF Callback
  <2>6. CASE UNCHANGED <<handlerVars, loopVars, cbVars>>
    BY <2>1, <2>2, <2>6 DEF handlerVars, loopVars, cbVars
  <2>7. CASE Initializer
    BY <2>6, <2>7 DEF Initializer, Begin, SendStatusUpdate, Return
  <2>8. CASE (\E q \in Requests : Take(q)) \/ UNCHANGED vars
    BY <2>6, <2>8 DEF Take, vars
  <2> QED
    BY <2>3, <2>4, <2>5, <2>7, <2>8 DEF Next
<1> QED
  BY <1>1, InitTypeOK, NextTypeOK, PTL DEF Spec

=============================================================================
