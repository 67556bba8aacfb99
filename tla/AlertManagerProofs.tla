------------------------- MODULE AlertManagerProofs -------------------------
(***************************************************************************)
(* The alert pump is type correct, bounded, never asleep with work left    *)
(* and quiet once stopped, and its handlers see every alert they are owed, *)
(* once and in order, for any number of handlers, alerts, pollers and any  *)
(* limits.                                                                 *)
(***************************************************************************)
EXTENDS AlertManager, TLAPS, SequenceTheorems

\* What RemoveAt leaves of a sequence: its element type and one element less.
LEMMA RemoveAtType ==
    ASSUME NEW S, NEW s \in Seq(S), NEW i \in 1..Len(s)
    PROVE  /\ RemoveAt(s, i) \in Seq(S)
           /\ Len(RemoveAt(s, i)) = Len(s) - 1
<1> DEFINE a == SubSeq(s, 1, i - 1)
           b == SubSeq(s, i + 1, Len(s))
<1>1. a \in Seq(S) /\ Len(a) = i - 1
  BY SubSeqProperties
<1>2. b \in Seq(S) /\ Len(b) = Len(s) - i
  BY SubSeqProperties
<1>3. RemoveAt(s, i) = a \o b
  BY DEF RemoveAt
<1> HIDE DEF a, b
<1>4. a \o b \in Seq(S) /\ Len(a \o b) = Len(a) + Len(b)
  BY <1>1, <1>2, ConcatProperties
<1> QED
  BY <1>1, <1>2, <1>3, <1>4

\* Deregistering keeps a list of handlers a list of handlers.
LEMMA WithoutType ==
    ASSUME NEW S, NEW s \in Seq(S), NEW h
    PROVE  Without(s, h) \in Seq(S)
<1>1. CASE h \in ToSet(s)
  <2> DEFINE j == CHOOSE i \in 1..Len(s) : s[i] = h
  <2>1. \E i \in 1..Len(s) : s[i] = h
    BY <1>1 DEF ToSet
  <2>2. j \in 1..Len(s)
    BY <2>1
  <2> QED
    BY <1>1, <2>2, RemoveAtType DEF Without
<1>2. CASE h \notin ToSet(s)
  BY <1>2 DEF Without
<1> QED
  BY <1>1, <1>2

\* The part of libtorrent's batch that is kept is bounded.
LEMMA BatchType ==
    ASSUME NEW S, NEW n \in Seq(S), NEW m \in Nat \ {0}
    PROVE  /\ (IF Len(n) > m THEN SubSeq(n, 1, m) ELSE n) \in Seq(S)
           /\ Len(IF Len(n) > m THEN SubSeq(n, 1, m) ELSE n) <= m
  BY SubSeqProperties

-----------------------------------------------------------------------------
\* The initial state of the pump satisfies the invariant.
LEMMA InitInv == Init => IndInv
<1> SUFFICES ASSUME Init PROVE IndInv
  OBVIOUS
<1>1. event \in BOOLEAN /\ drainCall \in BOOLEAN
  BY Zenon DEF Init
<1>2. handlers \in [Types -> Seq(Handlers)] /\ native \in Seq(Alert) /\ pending \in Seq(Alert)
      /\ curHandlers \in Seq(Handlers) /\ delayed \in Seq(Call)
  BY DEF Init
<1>3. work \in -1..(WorkPerTurn + 1)
  BY AlertConstants DEF Init
<1>4. TypeOK
  BY <1>1, <1>2, <1>3, AlertConstants DEF Init, TypeOK, PollerStates
<1>5. CursorInRange /\ Bounded /\ NoLostWakeup
  BY AlertConstants DEF Init, CursorInRange, Bounded, NoLostWakeup
<1>6. QuietWhenStopped
  BY Zenon DEF Init, QuietWhenStopped
<1> QED
  BY <1>4, <1>5, <1>6 DEF IndInv

\* Posting an alert, a poller's own steps and the component operations other
\* than stop() leave the Python queues alone.
LEMMA OutsideStep ==
    ASSUME IndInv,
           \/ \E t \in Types : PostAlert(t)
           \/ \E p \in Pollers : Start(p) \/ PollCalls(p) \/ PollQueue(p) \/ PollEvent(p) \/ PollAlert(p)
           \/ Pause \/ Resume
           \/ \E t \in Types, h \in Handlers : RegisterHandler(t, h)
           \/ \E h \in Handlers : DeregisterHandler(h)
    PROVE  IndInv'
<1> USE AlertConstants DEF IndInv, Bounded, CursorInRange, NoLostWakeup, QuietWhenStopped, ReactorIdle,
        queueVars, ghostVars, boundVars, PollerStates
<1>1. CASE \E t \in Types : PostAlert(t)
  <2>1. PICK t \in Types : PostAlert(t)
    BY <1>1
  <2>2. [id |-> posted + 1, type |-> t] \in Alert
    BY <2>1 DEF PostAlert, Alert, TypeOK
  <2>3. native' \in Seq(Alert)
    BY <2>1, <2>2 DEF PostAlert, TypeOK
  <2>4. posted' \in 0..MaxAlerts
    BY <2>1 DEF PostAlert, TypeOK
  <2> QED
    BY <2>1, <2>3, <2>4 DEF PostAlert, TypeOK
<1>2. CASE \E p \in Pollers : Start(p)
  BY <1>2 DEF Start, TypeOK
<1>3. CASE \E p \in Pollers : PollCalls(p)
  <2>1. poller' \in [Pollers -> PollerStates]
    BY <1>3 DEF PollCalls, TypeOK
  <2> QED
    BY <1>3, <2>1 DEF PollCalls, TypeOK
<1>4. CASE \E p \in Pollers : PollQueue(p)
  BY <1>4 DEF PollQueue, TypeOK
<1>5. CASE \E p \in Pollers : PollEvent(p)
  BY <1>5 DEF PollEvent, TypeOK
<1>6. CASE \E p \in Pollers : PollAlert(p)
  BY <1>6 DEF PollAlert, TypeOK
<1>7. CASE Pause
  <2>1. event' \in BOOLEAN
    BY <1>7, Zenon DEF Pause
  <2> QED
    BY <1>7, <2>1 DEF Pause, TypeOK
<1>8. CASE Resume
  BY <1>8 DEF Resume, TypeOK
<1>9. CASE \E t \in Types, h \in Handlers : RegisterHandler(t, h)
  BY <1>9, SMTT(30) DEF RegisterHandler, TypeOK
<1>10. CASE \E h \in Handlers : DeregisterHandler(h)
  <2>1. PICK h \in Handlers : DeregisterHandler(h)
    BY <1>10
  <2>2. \A t \in Types : Without(handlers[t], h) \in Seq(Handlers)
    BY WithoutType DEF TypeOK
  <2>3. handlers' \in [Types -> Seq(Handlers)]
    BY <2>1, <2>2 DEF DeregisterHandler
  <2> QED
    BY <2>1, <2>3 DEF DeregisterHandler, TypeOK
<1> QED
  BY <1>1, <1>2, <1>3, <1>4, <1>5, <1>6, <1>7, <1>8, <1>9, <1>10

\* stop() empties the queues and cancels every call.
LEMMA StopStep == IndInv /\ Stop => IndInv'
<1> SUFFICES ASSUME IndInv, Stop PROVE IndInv'
  OBVIOUS
<1>1. drainCall' \in BOOLEAN
  BY Zenon DEF Stop
<1>2. TypeOK'
  BY <1>1, AlertConstants DEF IndInv, Stop, TypeOK, boundVars
<1>3. CursorInRange' /\ Bounded' /\ NoLostWakeup'
  BY AlertConstants DEF Stop, CursorInRange, Bounded, NoLostWakeup
<1>4. QuietWhenStopped'
  BY Zenon DEF Stop, ReactorIdle, QuietWhenStopped
<1> QED
  BY <1>2, <1>3, <1>4 DEF IndInv

\* A new batch starts a turn with at most MaxPendingAlerts alerts.
LEMMA HandleAlertsStep ==
    ASSUME IndInv, NEW p \in Pollers, HandleAlerts(p)
    PROVE  IndInv'
<1> USE AlertConstants DEF IndInv, Bounded, CursorInRange, NoLostWakeup, QuietWhenStopped, ReactorIdle,
        ghostVars, boundVars, PollerStates
<1>1. CASE MayHandleAlerts /\ native # <<>>
  <2> DEFINE kept == IF Len(native) > MaxPendingAlerts
                     THEN SubSeq(native, 1, MaxPendingAlerts) ELSE native
  <2>1. kept \in Seq(Alert) /\ Len(kept) <= MaxPendingAlerts
    BY BatchType DEF TypeOK
  <2>2. pending = <<>>
    BY <1>1 DEF MayHandleAlerts, HasPendingAlertWork
  <2>3. pending' = pending \o kept
    BY <1>1 DEF HandleAlerts
  <2> HIDE DEF kept
  <2>4. pending' = kept
    BY <2>1, <2>2, <2>3, ConcatEmptySeq
  <2> QED
    BY <1>1, <2>1, <2>4 DEF HandleAlerts, MayHandleAlerts, TypeOK
<1>2. CASE ~ (MayHandleAlerts /\ native # <<>>)
  BY <1>2 DEF HandleAlerts, TypeOK
<1> QED
  BY <1>1, <1>2

\* One iteration of the drain loop, or its beginning or end.
LEMMA DrainStep == IndInv /\ Drain => IndInv'
<1> SUFFICES ASSUME IndInv, Drain PROVE IndInv'
  OBVIOUS
<1> USE AlertConstants, NoAlertAssumption
    DEF IndInv, Bounded, CursorInRange, NoLostWakeup, QuietWhenStopped, ReactorIdle, ghostVars, boundVars
<1>1. CASE DrainBegin
  <2>1. drainCall' \in BOOLEAN /\ cstate # "Stopped"
    BY <1>1, Zenon DEF DrainBegin
  <2> QED
    BY <1>1, <2>1 DEF DrainBegin, TypeOK
<1>2. CASE DrainTake
  <2> DEFINE a == Head(pending)
             hs == handlers[a.type]
  <2>1. a \in Alert /\ Tail(pending) \in Seq(Alert) /\ Len(Tail(pending)) = Len(pending) - 1
    BY <1>2, HeadTailProperties DEF DrainTake, TypeOK
  <2>2. hs \in Seq(Handlers) /\ a.id \in 1..MaxAlerts
    BY <2>1 DEF TypeOK, Alert
  <2>3. ToSet(hs) \subseteq Handlers
    BY <2>2 DEF ToSet
  <2>4. owed' \subseteq ((1..MaxAlerts) \X Handlers)
    BY <1>2, <2>2, <2>3 DEF DrainTake, TypeOK
  <2>5. hs # <<>> => 0 < Len(hs)
    BY <2>2, EmptySeq
  <2>6. work' \in -1..(WorkPerTurn + 1) /\ work' # -1
    BY <1>2 DEF DrainTake, TypeOK
  <2> QED
    BY <1>2, <2>1, <2>2, <2>4, <2>5, <2>6 DEF DrainTake, TypeOK
<1>3. CASE DrainDispatch
  <2>1. curIndex + 1 \in 1..Len(curHandlers)
    BY <1>3 DEF DrainDispatch, TypeOK
  <2>2. curHandlers[curIndex + 1] \in Handlers
    BY <2>1, ElementOfSeq DEF TypeOK
  <2>3. [alert |-> current, handler |-> curHandlers[curIndex + 1], phase |-> "scheduled"] \in Call
    BY <1>3, <2>2 DEF DrainDispatch, TypeOK, Call
  <2>4. delayed' \in Seq(Call) /\ Len(delayed') = Len(delayed) + 1
    BY <1>3, <2>3, AppendProperties DEF DrainDispatch, TypeOK
  <2>5. work' \in -1..(WorkPerTurn + 1) /\ work' # -1
    BY <1>3 DEF DrainDispatch, TypeOK
  <2>6. cstate # "Stopped"
    BY <1>3 DEF DrainDispatch, TypeOK
  <2> QED
    BY <1>3, <2>1, <2>4, <2>5, <2>6, SMTT(30) DEF DrainDispatch, TypeOK
<1>4. CASE DrainEnd
  BY <1>4 DEF DrainEnd, TypeOK, HasPendingAlertWork
<1> QED
  BY <1>1, <1>2, <1>3, <1>4 DEF Drain

\* A finished call frees a slot, so the drain is scheduled if work is left.
LEMMA FinishedStep ==
    ASSUME IndInv, NEW i \in 1..Len(delayed), HandlerFinished(i)
    PROVE  /\ delayed' \in Seq(Call)
           /\ Len(delayed') = Len(delayed) - 1
           /\ drainCall' = HasPendingAlertWork(pending, current, drainCall)
  BY RemoveAtType, AlertConstants DEF HandlerFinished, IndInv, TypeOK, Bounded

\* The reactor runs a handler.
LEMMA RunHandlerStep ==
    ASSUME IndInv, NEW i \in Nat, RunHandler(i)
    PROVE  IndInv'
<1> USE AlertConstants
    DEF IndInv, Bounded, CursorInRange, NoLostWakeup, QuietWhenStopped, ReactorIdle, boundVars
<1>1. i \in 1..Len(delayed) /\ delayed[i] \in Call
  BY ElementOfSeq DEF RunHandler, TypeOK
<1>2. lastRun' \in [Handlers -> 0..MaxAlerts] /\ owed' \subseteq ((1..MaxAlerts) \X Handlers)
  <2>1. delayed[i].handler \in Handlers /\ delayed[i].alert.id \in 0..MaxAlerts
    BY <1>1 DEF Call, Alert
  <2>2. lastRun' = [lastRun EXCEPT ![delayed[i].handler] = delayed[i].alert.id]
    BY DEF RunHandler
  <2>3. owed' \subseteq owed
    BY DEF RunHandler
  <2> QED
    BY <2>1, <2>2, <2>3 DEF TypeOK
<1>3. cstate # "Stopped"
  BY <1>1 DEF TypeOK
<1>4. CASE delayed[i].handler \in AsyncHandlers
  <2>1. [delayed[i] EXCEPT !.phase = "running"] \in Call
    BY <1>1 DEF Call
  <2>2. delayed' = [delayed EXCEPT ![i] = [delayed[i] EXCEPT !.phase = "running"]]
    BY <1>4 DEF RunHandler
  <2> DEFINE c == [delayed[i] EXCEPT !.phase = "running"]
  <2> HIDE DEF c
  <2>3. delayed' \in Seq(Call) /\ Len(delayed') = Len(delayed)
    <3>1. c \in Call /\ delayed' = [delayed EXCEPT ![i] = c] /\ delayed \in Seq(Call)
      BY <2>1, <2>2 DEF c, TypeOK
    <3> QED
      BY <1>1, <3>1, ExceptSeq
  <2> QED
    BY <1>2, <1>3, <1>4, <2>3 DEF RunHandler, TypeOK
<1>5. CASE delayed[i].handler \notin AsyncHandlers
  <2>1. HandlerFinished(i)
    BY <1>5 DEF RunHandler
  <2>2. delayed' \in Seq(Call) /\ Len(delayed') = Len(delayed) - 1
        /\ drainCall' = HasPendingAlertWork(pending, current, drainCall)
    BY <1>1, <2>1, FinishedStep
  <2>3. drainCall' \in BOOLEAN /\ (pending # <<>> \/ current # NoAlert => drainCall')
    BY <2>2, Zenon DEF HasPendingAlertWork
  <2>4. UNCHANGED <<cstate, event, handlers, native, pending, current, curHandlers, curIndex,
                    work, poller, posted, starts, pauses, regs>>
    BY DEF RunHandler
  <2>5. TypeOK'
    BY <1>2, <2>2, <2>3, <2>4 DEF TypeOK
  <2>6. Bounded' /\ CursorInRange'
    BY <2>2, <2>4 DEF TypeOK
  <2>7. NoLostWakeup' /\ QuietWhenStopped'
    BY <1>3, <2>3, <2>4, Zenon
  <2> QED
    BY <2>5, <2>6, <2>7
<1> QED
  BY <1>4, <1>5

\* A running handler's Deferred fires or times out.
LEMMA FinishRunningStep ==
    ASSUME IndInv, NEW i \in Nat, FinishRunning(i)
    PROVE  IndInv'
<1>1. i \in 1..Len(delayed) /\ HandlerFinished(i)
  BY DEF FinishRunning
<1>2. delayed' \in Seq(Call) /\ Len(delayed') = Len(delayed) - 1
      /\ drainCall' = HasPendingAlertWork(pending, current, drainCall)
  BY <1>1, FinishedStep
<1>3. cstate # "Stopped"
  BY <1>1 DEF IndInv, TypeOK, QuietWhenStopped
<1>4. drainCall' \in BOOLEAN /\ (pending # <<>> \/ current # NoAlert => drainCall')
  BY <1>2, Zenon DEF HasPendingAlertWork
<1> QED
  BY <1>2, <1>3, <1>4, AlertConstants, SMTT(30)
  DEF FinishRunning, IndInv, TypeOK, Bounded, CursorInRange, NoLostWakeup, QuietWhenStopped,
      ReactorIdle, ghostVars, boundVars

\* Every step of the pump keeps the invariant.
LEMMA StepInv == IndInv /\ [Next]_vars => IndInv'
<1> SUFFICES ASSUME IndInv, [Next]_vars PROVE IndInv'
  OBVIOUS
<1>1. CASE UNCHANGED vars
  BY <1>1 DEF vars, queueVars, ghostVars, boundVars, IndInv, TypeOK, CursorInRange, Bounded,
              NoLostWakeup, QuietWhenStopped, ReactorIdle
<1>2. CASE Stop
  BY <1>2, StopStep
<1>3. CASE \E p \in Pollers : HandleAlerts(p)
  BY <1>3, HandleAlertsStep
<1>4. CASE Drain
  BY <1>4, DrainStep
<1>5. CASE RunSomeHandler
  BY <1>5, RunHandlerStep, AlertConstants DEF RunSomeHandler
<1>6. CASE FinishSomeHandler
  BY <1>6, FinishRunningStep, AlertConstants DEF FinishSomeHandler
<1> QED
  BY <1>1, <1>2, <1>3, <1>4, <1>5, <1>6, OutsideStep DEF Next, Poll

\* Every reachable state of the pump has the types TypeOK gives and satisfies
\* the inductive invariant.
THEOREM PumpInvariant == Spec => []IndInv
  BY InitInv, StepInv, PTL DEF Spec

\* _drain_alerts() and _handler_finished(): the pump never goes to sleep while
\* alerts are left.
THEOREM PumpNeverStalls == Spec => []NoLostWakeup
<1>1. IndInv => NoLostWakeup
  BY DEF IndInv
<1> QED
  BY <1>1, PumpInvariant, PTL

\* The queue and the outstanding handler calls stay within their limits.
THEOREM PumpIsBounded == Spec => []Bounded
<1>1. IndInv => Bounded
  BY DEF IndInv
<1> QED
  BY <1>1, PumpInvariant, PTL

\* After stop() nothing is left that could call a handler.
THEOREM PumpQuietWhenStopped == Spec => []QuietWhenStopped
<1>1. IndInv => QuietWhenStopped
  BY DEF IndInv
<1> QED
  BY <1>1, PumpInvariant, PTL

\* Every variable of the pump keeps its type.
THEOREM PumpTypeOK == Spec => []TypeOK
<1>1. IndInv => TypeOK
  BY DEF IndInv
<1> QED
  BY <1>1, PumpInvariant, PTL

-----------------------------------------------------------------------------
(* The order in which a handler sees alerts, and what it is owed.           *)

\* The places of the calls that wait for their reactor turn, and the places of
\* the handlers the current alert has not been handed to.
Scheduled == {k \in 1..Len(delayed) : delayed[k].phase = "scheduled"}
Left == IF current = NoAlert THEN {} ELSE (curIndex + 1)..Len(curHandlers)

Rising(s) == \A i, j \in 1..Len(s) : i < j => s[i].id < s[j].id
Once(s) == \A i, j \in 1..Len(s) : s[i] = s[j] => i = j

\* The alert n was posted before all that wait in the two queues.
Older(n) ==
    /\ n <= posted
    /\ \A i \in 1..Len(pending) : n < pending[i].id
    /\ \A i \in 1..Len(native) : n < native[i].id

\* The queues hold alerts in the order they were posted.
QueuesRise ==
    /\ Rising(native) /\ Rising(pending)
    /\ \A i \in 1..Len(native) : native[i].id <= posted
    /\ \A i \in 1..Len(pending) :
           /\ pending[i].id <= posted
           /\ \A j \in 1..Len(native) : pending[i].id < native[j].id

\* What was taken from the queues is older than what is in them.
TakenIsOlder ==
    /\ \A h \in Handlers : Older(lastRun[h])
    /\ current # NoAlert => Older(current.id)
    /\ \A k \in 1..Len(delayed) : Older(delayed[k].alert.id)

\* A handler is registered once for a type.
RegisteredOnce == (\A t \in Types : Once(handlers[t])) /\ Once(curHandlers)

\* A handler that the current alert has yet to be handed to has not seen it,
\* nor is it due to see it or a later one.
LeftIsLater ==
    \A i \in Left :
        /\ lastRun[curHandlers[i]] < current.id
        /\ \A k \in Scheduled :
               delayed[k].handler = curHandlers[i] => delayed[k].alert.id < current.id

\* The calls of a handler wait in the order of their alerts, all later than the
\* one it saw last.
CallsRise ==
    \A k \in Scheduled :
        /\ lastRun[delayed[k].handler] < delayed[k].alert.id
        /\ \A j \in Scheduled :
               j < k /\ delayed[j].handler = delayed[k].handler
                   => delayed[j].alert.id < delayed[k].alert.id

\* What is owed, place by place.
Due == {<<current.id, curHandlers[i]>> : i \in Left}
       \cup {<<delayed[k].alert.id, delayed[k].handler>> : k \in Scheduled}

OrderInv ==
    /\ IndInv
    /\ QueuesRise /\ TakenIsOlder /\ RegisteredOnce
    /\ LeftIsLater /\ CallsRise
    /\ owed = Due

-----------------------------------------------------------------------------
\* What RemoveAt leaves in each place.
LEMMA RemoveAtElement ==
    ASSUME NEW S, NEW s \in Seq(S), NEW i \in 1..Len(s), NEW j \in 1..(Len(s) - 1)
    PROVE  RemoveAt(s, i)[j] = IF j < i THEN s[j] ELSE s[j + 1]
<1> DEFINE a == SubSeq(s, 1, i - 1)
           b == SubSeq(s, i + 1, Len(s))
<1>1. a \in Seq(S) /\ Len(a) = i - 1 /\ \A k \in 1..(i - 1) : a[k] = s[k]
  BY SubSeqProperties
<1>2. b \in Seq(S) /\ Len(b) = Len(s) - i /\ \A k \in 1..(Len(s) - i) : b[k] = s[k + i]
  BY SubSeqProperties
<1>3. RemoveAt(s, i) = a \o b
  BY DEF RemoveAt
<1> HIDE DEF a, b
<1>4. (a \o b)[j] = IF j <= Len(a) THEN a[j] ELSE b[j - Len(a)]
  BY <1>1, <1>2, ConcatProperties
<1>5. CASE j < i
  BY <1>1, <1>3, <1>4, <1>5
<1>6. CASE ~ (j < i)
  <2>1. j - (i - 1) \in 1..(Len(s) - i)
    BY <1>6
  <2>2. b[j - (i - 1)] = s[j - (i - 1) + i]
    BY <1>2, <2>1
  <2> QED
    BY <1>1, <1>3, <1>4, <1>6, <2>2
<1> QED
  BY <1>5, <1>6

\* Registering a handler that is not in a list keeps its handlers distinct.
LEMMA OnceAppend ==
    ASSUME NEW S, NEW s \in Seq(S), Once(s), NEW h \in S, h \notin ToSet(s)
    PROVE  Once(Append(s, h))
<1>1. \A i \in 1..Len(s) : s[i] # h
  BY DEF ToSet
<1>2. /\ Len(Append(s, h)) = Len(s) + 1
      /\ \A i \in 1..Len(s) : Append(s, h)[i] = s[i]
      /\ Append(s, h)[Len(s) + 1] = h
  BY AppendProperties
<1> QED
  BY <1>1, <1>2 DEF Once

\* Deregistering takes one away.
LEMMA OnceWithout ==
    ASSUME NEW S, NEW s \in Seq(S), Once(s), NEW h
    PROVE  Once(Without(s, h))
<1>1. CASE h \in ToSet(s)
  <2> DEFINE j == CHOOSE i \in 1..Len(s) : s[i] = h
  <2>1. \E i \in 1..Len(s) : s[i] = h
    BY <1>1 DEF ToSet
  <2>2. j \in 1..Len(s)
    BY <2>1
  <2>3. Without(s, h) = RemoveAt(s, j)
    BY <1>1 DEF Without
  <2> HIDE DEF j
  <2>4. Len(RemoveAt(s, j)) = Len(s) - 1
    BY <2>2, RemoveAtType
  <2>5. \A i \in 1..(Len(s) - 1) : RemoveAt(s, j)[i] = IF i < j THEN s[i] ELSE s[i + 1]
    BY <2>2, RemoveAtElement
  <2> QED
    BY <2>2, <2>3, <2>4, <2>5 DEF Once
<1>2. CASE h \notin ToSet(s)
  BY <1>2 DEF Without
<1> QED
  BY <1>1, <1>2

\* The part of libtorrent's batch that is kept is its oldest.
LEMMA BatchElement ==
    ASSUME NEW S, NEW n \in Seq(S), NEW m \in Nat \ {0}
    PROVE  LET kept == IF Len(n) > m THEN SubSeq(n, 1, m) ELSE n
           IN  Len(kept) <= Len(n) /\ \A i \in 1..Len(kept) : kept[i] = n[i]
  BY SubSeqProperties

\* The alerts in the pump have numbers.
LEMMA AlertIds ==
    ASSUME IndInv
    PROVE  /\ \A i \in 1..Len(native) : native[i].id \in Nat
           /\ \A i \in 1..Len(pending) : pending[i].id \in Nat
           /\ \A h \in Handlers : lastRun[h] \in Nat
           /\ \A k \in 1..Len(delayed) : delayed[k] \in Call /\ delayed[k].alert.id \in Nat
           /\ current # NoAlert => current.id \in Nat
<1>1. \A a \in Alert : a.id \in Nat
  BY AlertConstants DEF Alert
<1>2. /\ \A i \in 1..Len(native) : native[i] \in Alert
      /\ \A i \in 1..Len(pending) : pending[i] \in Alert
      /\ \A k \in 1..Len(delayed) : delayed[k] \in Call
      /\ current # NoAlert => current \in Alert
  BY ElementOfSeq DEF IndInv, TypeOK
<1>3. \A h \in Handlers : lastRun[h] \in Nat
  BY AlertConstants DEF IndInv, TypeOK
<1>4. \A c \in Call : c.alert \in Alert
  BY DEF Call
<1> QED
  BY <1>1, <1>2, <1>3, <1>4

\* The property, place by place.
LEMMA OwedIsDue == OwedIsScheduled <=> owed = Due
<1>1. {<<c.alert.id, c.handler>> : c \in {d \in ToSet(delayed) : d.phase = "scheduled"}}
        = {<<delayed[k].alert.id, delayed[k].handler>> : k \in Scheduled}
  BY DEF ToSet, Scheduled
<1> QED
  BY <1>1 DEF OwedIsScheduled, Due, Left

\* Nothing is queued or due at first.
LEMMA InitOrder == Init => OrderInv
<1> SUFFICES ASSUME Init PROVE OrderInv
  OBVIOUS
<1>1. native = <<>> /\ pending = <<>> /\ delayed = <<>> /\ curHandlers = <<>>
      /\ current = NoAlert /\ posted = 0 /\ owed = {}
  BY DEF Init
<1>2. Len(native) = 0 /\ Len(pending) = 0 /\ Len(delayed) = 0 /\ Len(curHandlers) = 0
  BY <1>1
<1>3. \A h \in Handlers : lastRun[h] = 0
  BY DEF Init
<1>4. \A t \in Types : Len(handlers[t]) = 0
  BY DEF Init
<1>5. Scheduled = {} /\ Left = {}
  BY <1>1, <1>2 DEF Scheduled, Left
<1>6. QueuesRise /\ TakenIsOlder /\ RegisteredOnce
  BY <1>1, <1>2, <1>3, <1>4 DEF QueuesRise, TakenIsOlder, RegisteredOnce, Rising, Once, Older
<1>7. LeftIsLater /\ CallsRise /\ owed = Due
  BY <1>1, <1>5 DEF LeftIsLater, CallsRise, Due
<1> QED
  BY <1>6, <1>7, InitInv DEF OrderInv

\* Steps that touch neither queues nor calls.
LEMMA QuietOrder ==
    ASSUME OrderInv,
           UNCHANGED <<native, pending, current, curHandlers, curIndex, delayed, posted,
                       lastRun, owed>>,
           (\A t \in Types : Once(handlers[t]))'
    PROVE  /\ QueuesRise' /\ TakenIsOlder' /\ RegisteredOnce'
           /\ LeftIsLater' /\ CallsRise' /\ (owed = Due)'
<1>1. QueuesRise' /\ TakenIsOlder' /\ RegisteredOnce'
  BY DEF OrderInv, QueuesRise, TakenIsOlder, RegisteredOnce, Rising, Once, Older
<1>2. Scheduled' = Scheduled /\ Left' = Left
  BY DEF Scheduled, Left
<1> QED
  BY <1>1, <1>2 DEF OrderInv, LeftIsLater, CallsRise, Due

\* A newly posted alert is the latest.
LEMMA PostOrder ==
    ASSUME OrderInv, NEW t \in Types, PostAlert(t)
    PROVE  /\ QueuesRise' /\ TakenIsOlder' /\ RegisteredOnce'
           /\ LeftIsLater' /\ CallsRise' /\ (owed = Due)'
<1>1. UNCHANGED <<pending, current, curHandlers, curIndex, delayed, lastRun, owed, handlers>>
      /\ posted' = posted + 1 /\ posted < MaxAlerts
  BY DEF PostAlert
<1>2. Scheduled' = Scheduled /\ Left' = Left
  BY <1>1 DEF Scheduled, Left
<1>3. RegisteredOnce' /\ LeftIsLater' /\ CallsRise' /\ (owed = Due)'
  BY <1>1, <1>2 DEF OrderInv, RegisteredOnce, Once, LeftIsLater, CallsRise, Due
<1>4. native \in Seq(Alert) /\ posted \in Nat /\ Len(native) \in Nat
  BY AlertConstants DEF OrderInv, IndInv, TypeOK
<1>5. \A i \in 1..Len(native') :
          \/ i \in 1..Len(native) /\ native'[i] = native[i]
          \/ i = Len(native) + 1 /\ native'[i].id = posted + 1
  <2> DEFINE a == [id |-> posted + 1, type |-> t]
  <2>1. a \in Alert /\ a.id = posted + 1
    BY <1>1, <1>4, AlertConstants DEF Alert
  <2>2. native' = Append(native, a) \/ native' = native
    BY DEF PostAlert
  <2> HIDE DEF a
  <2>3. CASE native' = Append(native, a)
    <3>1. /\ Len(native') = Len(native) + 1
          /\ \A i \in 1..Len(native) : native'[i] = native[i]
          /\ native'[Len(native) + 1] = a
      BY <1>4, <2>1, <2>3, AppendProperties
    <3> QED
      BY <1>4, <2>1, <3>1
  <2>4. CASE native' = native
    BY <2>4
  <2> QED
    BY <2>2, <2>3, <2>4
<1>6. QueuesRise'
  <2>1. /\ Rising(native) /\ Rising(pending)
        /\ \A i \in 1..Len(native) : native[i].id <= posted
        /\ \A i \in 1..Len(pending) :
               /\ pending[i].id <= posted
               /\ \A j \in 1..Len(native) : pending[i].id < native[j].id
    BY DEF OrderInv, QueuesRise
  <2>2. /\ \A i \in 1..Len(native) : native[i].id \in Nat
        /\ \A i \in 1..Len(pending) : pending[i].id \in Nat
    BY AlertIds DEF OrderInv
  <2>3. Rising(native')
    BY <1>4, <1>5, <2>1, <2>2 DEF Rising
  <2>4. \A i \in 1..Len(native') : native'[i].id <= posted + 1
    BY <1>4, <1>5, <2>1, <2>2
  <2>5. \A i \in 1..Len(pending) :
            pending[i].id <= posted + 1 /\ \A j \in 1..Len(native') : pending[i].id < native'[j].id
    BY <1>4, <1>5, <2>1, <2>2
  <2> QED
    BY <1>1, <2>1, <2>3, <2>4, <2>5 DEF QueuesRise
<1>7. ASSUME NEW n \in Nat, Older(n) PROVE Older(n)'
  <2>1. \A i \in 1..Len(native') : n < native'[i].id
    BY <1>4, <1>5, <1>7 DEF Older
  <2> QED
    BY <1>1, <1>4, <1>7, <2>1 DEF Older
<1>8. TakenIsOlder'
  <2>1. /\ \A h \in Handlers : lastRun[h] \in Nat
        /\ \A k \in 1..Len(delayed) : delayed[k].alert.id \in Nat
        /\ current # NoAlert => current.id \in Nat
    BY AlertIds DEF OrderInv
  <2> QED
    BY <1>1, <1>7, <2>1 DEF OrderInv, TakenIsOlder
<1> QED
  BY <1>3, <1>6, <1>8

\* stop() leaves nothing in the pump.
LEMMA StopOrder ==
    ASSUME OrderInv, Stop
    PROVE  /\ QueuesRise' /\ TakenIsOlder' /\ RegisteredOnce'
           /\ LeftIsLater' /\ CallsRise' /\ (owed = Due)'
<1>1. /\ pending' = <<>> /\ delayed' = <<>> /\ curHandlers' = <<>>
      /\ current' = NoAlert /\ owed' = {}
      /\ UNCHANGED <<native, posted, lastRun, handlers>>
  BY DEF Stop
<1>2. Len(pending') = 0 /\ Len(delayed') = 0 /\ Len(curHandlers') = 0
  BY <1>1
<1>3. Scheduled' = {} /\ Left' = {}
  BY <1>1, <1>2 DEF Scheduled, Left
<1>4. QueuesRise' /\ TakenIsOlder' /\ RegisteredOnce'
  BY <1>1, <1>2 DEF OrderInv, QueuesRise, TakenIsOlder, RegisteredOnce, Rising, Once, Older
<1> QED
  BY <1>1, <1>3, <1>4 DEF LeftIsLater, CallsRise, Due

\* A new batch goes to an empty queue, in its order.
LEMMA HandleAlertsOrder ==
    ASSUME OrderInv, NEW p \in Pollers, HandleAlerts(p)
    PROVE  /\ QueuesRise' /\ TakenIsOlder' /\ RegisteredOnce'
           /\ LeftIsLater' /\ CallsRise' /\ (owed = Due)'
<1> USE AlertConstants
<1>1. UNCHANGED <<current, curHandlers, curIndex, delayed, posted, lastRun, owed, handlers>>
  BY DEF HandleAlerts, ghostVars
<1>2. CASE MayHandleAlerts /\ native # <<>>
  <2> DEFINE kept == IF Len(native) > MaxPendingAlerts
                     THEN SubSeq(native, 1, MaxPendingAlerts) ELSE native
  <2>1. kept \in Seq(Alert) /\ native \in Seq(Alert)
    BY BatchType DEF OrderInv, IndInv, TypeOK
  <2>2. Len(kept) <= Len(native) /\ \A i \in 1..Len(kept) : kept[i] = native[i]
    BY <2>1, BatchElement
  <2>3. pending = <<>> /\ pending' = pending \o kept /\ native' = <<>>
    BY <1>2 DEF HandleAlerts, MayHandleAlerts, HasPendingAlertWork
  <2> HIDE DEF kept
  <2>4. pending' = kept /\ Len(native') = 0
    BY <2>1, <2>3, ConcatEmptySeq
  <2>5. Len(kept) \in Nat /\ Len(native) \in Nat
    BY <2>1
  <2>6. QueuesRise'
    BY <1>1, <2>2, <2>4, <2>5 DEF OrderInv, QueuesRise, Rising
  <2>7. TakenIsOlder'
    <3>1. ASSUME NEW n, Older(n) PROVE Older(n)'
      BY <1>1, <2>2, <2>4, <2>5, <3>1 DEF Older
    <3> QED
      BY <1>1, <3>1 DEF OrderInv, TakenIsOlder
  <2>8. Scheduled' = Scheduled /\ Left' = Left
    BY <1>1 DEF Scheduled, Left
  <2> QED
    BY <1>1, <2>6, <2>7, <2>8
    DEF OrderInv, RegisteredOnce, Once, LeftIsLater, CallsRise, Due
<1>3. CASE ~ (MayHandleAlerts /\ native # <<>>)
  <2>1. UNCHANGED <<native, pending>>
    BY <1>3 DEF HandleAlerts
  <2>2. (\A t \in Types : Once(handlers[t]))'
    BY <1>1 DEF OrderInv, RegisteredOnce
  <2> QED
    BY <1>1, <2>1, <2>2, QuietOrder
<1> QED
  BY <1>2, <1>3

\* The alert taken next is the oldest; what it is handed to follows from the
\* handlers registered at that moment.
LEMMA TakeOrder ==
    ASSUME OrderInv, DrainTake
    PROVE  /\ QueuesRise' /\ TakenIsOlder' /\ RegisteredOnce'
           /\ LeftIsLater' /\ CallsRise' /\ (owed = Due)'
<1> DEFINE a == Head(pending)
           hs == handlers[a.type]
<1>1. /\ UNCHANGED <<native, delayed, posted, lastRun, handlers>>
      /\ current = NoAlert /\ pending # <<>>
      /\ current' = IF hs = <<>> THEN NoAlert ELSE a
      /\ curHandlers' = hs /\ curIndex' = 0
      /\ pending' = Tail(pending)
      /\ owed' = owed \cup {<<a.id, h>> : h \in ToSet(hs)}
  BY DEF DrainTake
<1>2. pending \in Seq(Alert) /\ Len(pending) \in Nat \ {0} /\ Len(native) \in Nat
  BY <1>1, EmptySeq DEF OrderInv, IndInv, TypeOK
<1>3. a \in Alert /\ a = pending[1] /\ a # NoAlert
  BY <1>1, <1>2, HeadTailProperties, ElementOfSeq, NoAlertAssumption
<1>4. hs \in Seq(Handlers) /\ Once(hs) /\ (hs = <<>> <=> Len(hs) = 0)
  <2>1. a.type \in Types
    BY <1>3 DEF Alert
  <2>2. hs \in Seq(Handlers)
    BY <2>1 DEF OrderInv, IndInv, TypeOK
  <2> QED
    BY <2>1, <2>2, EmptySeq DEF OrderInv, RegisteredOnce
<1>5. /\ Len(pending') = Len(pending) - 1
      /\ \A i \in 1..Len(pending') : pending'[i] = pending[i + 1]
  BY <1>1, <1>2, HeadTailProperties
<1> HIDE DEF a, hs
<1>6. QueuesRise'
  BY <1>1, <1>2, <1>5 DEF OrderInv, QueuesRise, Rising
<1>7. TakenIsOlder'
  <2>1. ASSUME NEW n, Older(n) PROVE Older(n)'
    BY <1>1, <1>2, <1>5, <2>1 DEF Older
  <2>2. ASSUME NEW n, n = a.id PROVE Older(n)'
    <3>1. a.id <= posted /\ \A i \in 1..Len(native) : a.id < native[i].id
      BY <1>2, <1>3 DEF OrderInv, QueuesRise
    <3>2. \A i \in 1..Len(pending') : a.id < pending'[i].id
      BY <1>2, <1>3, <1>5 DEF OrderInv, QueuesRise, Rising
    <3> QED
      BY <1>1, <2>2, <3>1, <3>2 DEF Older
  <2> QED
    BY <1>1, <2>1, <2>2 DEF OrderInv, TakenIsOlder
<1>8. RegisteredOnce'
  BY <1>1, <1>4 DEF OrderInv, RegisteredOnce
<1>9. Scheduled' = Scheduled /\ Left = {} /\ Left' = 1..Len(hs)
  <2>1. hs # <<>> => Left' = 1..Len(hs)
    BY <1>1, <1>3 DEF Left
  <2>2. hs = <<>> => Left' = {} /\ Len(hs) = 0
    BY <1>1, <1>4 DEF Left
  <2> QED
    BY <1>1, <2>1, <2>2 DEF Left, Scheduled
<1>10. CallsRise'
  BY <1>1, <1>9 DEF OrderInv, CallsRise
<1>11. LeftIsLater'
  <2>1. CASE hs = <<>>
    <3>1. Left' = {}
      BY <1>4, <1>9, <2>1
    <3> QED
      BY <3>1 DEF LeftIsLater
  <2>2. CASE hs # <<>>
    <3>1. current' = a /\ curHandlers' = hs
      BY <1>1, <2>2
    <3>2. \A n : Older(n) => n < a.id
      BY <1>2, <1>3 DEF Older
    <3>3. \A i \in Left' : lastRun'[hs[i]] < a.id
      BY <1>1, <1>4, <1>9, <3>2, ElementOfSeq DEF OrderInv, TakenIsOlder
    <3>4. \A k \in Scheduled' : delayed'[k].alert.id < a.id
      BY <1>1, <1>9, <3>2 DEF OrderInv, TakenIsOlder, Scheduled
    <3> QED
      BY <3>1, <3>3, <3>4 DEF LeftIsLater
  <2> QED
    BY <2>1, <2>2
<1>12. (owed = Due)'
  <2>1. {<<current.id, curHandlers[i]>> : i \in Left}' = {<<a.id, h>> : h \in ToSet(hs)}
    <3>1. CASE hs = <<>>
      <4>1. Left' = {} /\ ToSet(hs) = {}
        BY <1>4, <1>9, <3>1 DEF ToSet
      <4> QED
        BY <4>1
    <3>2. CASE hs # <<>>
      BY <1>1, <1>9, <3>2 DEF ToSet
    <3> QED
      BY <3>1, <3>2
  <2>2. {<<delayed[k].alert.id, delayed[k].handler>> : k \in Scheduled}' = owed
    BY <1>1, <1>9 DEF OrderInv, Due
  <2> QED
    BY <1>1, <2>1, <2>2 DEF Due
<1> QED
  BY <1>6, <1>7, <1>8, <1>10, <1>11, <1>12

\* A handler's call is put behind its earlier ones, and the handler is no longer
\* among those left.
LEMMA DispatchOrder ==
    ASSUME OrderInv, DrainDispatch
    PROVE  /\ QueuesRise' /\ TakenIsOlder' /\ RegisteredOnce'
           /\ LeftIsLater' /\ CallsRise' /\ (owed = Due)'
<1> DEFINE h == curHandlers[curIndex + 1]
           c == [alert |-> current, handler |-> h, phase |-> "scheduled"]
           n == Len(delayed)
<1>1. /\ UNCHANGED <<native, pending, posted, lastRun, handlers, owed>>
      /\ current # NoAlert
      /\ delayed' = Append(delayed, c)
      /\ \/ /\ curIndex + 1 = Len(curHandlers)
            /\ current' = NoAlert /\ curHandlers' = <<>>
         \/ /\ curIndex + 1 # Len(curHandlers)
            /\ current' = current /\ curHandlers' = curHandlers /\ curIndex' = curIndex + 1
  BY DEF DrainDispatch, ghostVars
<1>2. /\ delayed \in Seq(Call) /\ n \in Nat /\ curIndex \in Nat
      /\ curHandlers \in Seq(Handlers) /\ Len(curHandlers) \in Nat
      /\ curIndex < Len(curHandlers)
  BY <1>1 DEF OrderInv, IndInv, TypeOK, CursorInRange
<1>3. c \in Call /\ c.alert = current /\ c.handler = h /\ c.phase = "scheduled"
  <2>1. h \in Handlers
    BY <1>2, ElementOfSeq
  <2> QED
    BY <1>1, <2>1 DEF Call, OrderInv, IndInv, TypeOK
<1> HIDE DEF c
<1>4. /\ Len(delayed') = n + 1 /\ delayed'[n + 1] = c
      /\ \A k \in 1..n : delayed'[k] = delayed[k]
  BY <1>1, <1>2, <1>3, AppendProperties
<1>5. Scheduled' = Scheduled \cup {n + 1} /\ Scheduled \subseteq 1..n
  BY <1>2, <1>3, <1>4 DEF Scheduled
<1>6. /\ curIndex + 1 \in Left /\ Left = (curIndex + 1)..Len(curHandlers)
      /\ Left' = Left \ {curIndex + 1}
      /\ Left' # {} => current' = current /\ curHandlers' = curHandlers
  BY <1>1, <1>2 DEF Left
<1>7. QueuesRise'
  BY <1>1 DEF OrderInv, QueuesRise, Rising
<1>8. TakenIsOlder'
  <2>1. \A m : Older(m)' <=> Older(m)
    BY <1>1 DEF Older
  <2>2. Older(current.id)
    BY <1>1 DEF OrderInv, TakenIsOlder
  <2>3. \A k \in 1..(n + 1) : Older(delayed'[k].alert.id)
    BY <1>2, <1>3, <1>4, <2>2 DEF OrderInv, TakenIsOlder
  <2> QED
    BY <1>1, <1>4, <2>1, <2>2, <2>3 DEF OrderInv, TakenIsOlder
<1>9. RegisteredOnce'
  BY <1>1 DEF OrderInv, RegisteredOnce, Once
<1>10. lastRun[h] < current.id
       /\ \A k \in Scheduled : delayed[k].handler = h => delayed[k].alert.id < current.id
  BY <1>6 DEF OrderInv, LeftIsLater
<1>11. CallsRise'
  <2>1. \A k \in Scheduled : delayed'[k] = delayed[k] /\ k < n + 1
    BY <1>2, <1>4, <1>5
  <2>2. \A j, k \in Scheduled' : j < k => j \in Scheduled
    BY <1>2, <1>5
  <2> QED
    BY <1>1, <1>3, <1>4, <1>5, <1>10, <2>1, <2>2 DEF OrderInv, CallsRise
<1>12. LeftIsLater'
  <2>1. CASE Left' = {}
    BY <2>1 DEF LeftIsLater
  <2>2. CASE Left' # {}
    <3>1. current' = current /\ curHandlers' = curHandlers
      BY <1>6, <2>2
    <3>2. \A i \in Left' : i \in Left /\ curHandlers[i] # h
      BY <1>2, <1>6 DEF OrderInv, RegisteredOnce, Once
    <3>3. ASSUME NEW i \in Left', NEW k \in Scheduled', delayed'[k].handler = curHandlers[i]
          PROVE  delayed'[k].alert.id < current.id
      <4>1. k \in Scheduled /\ delayed'[k] = delayed[k]
        BY <1>3, <1>4, <1>5, <3>2, <3>3
      <4> QED
        BY <3>2, <3>3, <4>1 DEF OrderInv, LeftIsLater
    <3>4. \A i \in Left' : lastRun'[curHandlers[i]] < current.id
      BY <1>1, <3>2 DEF OrderInv, LeftIsLater
    <3> QED
      BY <3>1, <3>3, <3>4 DEF LeftIsLater
  <2> QED
    BY <2>1, <2>2
<1>13. (owed = Due)'
  <2>1. {<<current.id, curHandlers[i]>> : i \in Left}
          = {<<current.id, curHandlers[i]>> : i \in Left}' \cup {<<current.id, h>>}
    BY <1>6
  <2>2. {<<delayed[k].alert.id, delayed[k].handler>> : k \in Scheduled}'
          = {<<delayed[k].alert.id, delayed[k].handler>> : k \in Scheduled}
              \cup {<<current.id, h>>}
    BY <1>3, <1>4, <1>5
  <2> QED
    BY <1>1, <2>1, <2>2 DEF OrderInv, Due
<1> QED
  BY <1>7, <1>8, <1>9, <1>11, <1>12, <1>13

\* The calls that still wait after the i-th one ran or finished are those that
\* waited, but for that one, in their order.
CallsKept(i) ==
    /\ \A k \in 1..Len(delayed') :
           \E m \in 1..Len(delayed) : delayed'[k].alert = delayed[m].alert
    /\ \A k \in Scheduled' : \E m \in Scheduled \ {i} : delayed'[k] = delayed[m]
    /\ \A j, k \in Scheduled' :
           j < k => \E m, n \in Scheduled \ {i} :
                        m < n /\ delayed'[j] = delayed[m] /\ delayed'[k] = delayed[n]
    /\ \A m \in Scheduled \ {i} : \E k \in Scheduled' : delayed'[k] = delayed[m]

\* A call that finished is taken out.
LEMMA FinishedCalls ==
    ASSUME IndInv, NEW i \in 1..Len(delayed), delayed' = RemoveAt(delayed, i)
    PROVE  CallsKept(i)
<1> DEFINE n == Len(delayed)
           f(k) == IF k < i THEN k ELSE k + 1
<1>1. delayed \in Seq(Call) /\ n \in Nat
  BY DEF IndInv, TypeOK
<1>2. Len(delayed') = n - 1
  BY <1>1, RemoveAtType
<1>3. \A k \in 1..(n - 1) : delayed'[k] = delayed[f(k)]
  BY <1>1, RemoveAtElement
<1>4. \A k \in 1..(n - 1) : f(k) \in (1..n) \ {i}
  BY <1>1
<1>5. \A j, k \in 1..(n - 1) : j < k => f(j) < f(k)
  BY <1>1
<1>6. \A m \in (1..n) \ {i} : \E k \in 1..(n - 1) : m = f(k)
  <2> SUFFICES ASSUME NEW m \in (1..n) \ {i}
               PROVE  \E k \in 1..(n - 1) : m = f(k)
    OBVIOUS
  <2>1. CASE m < i
    <3>1. m \in 1..(n - 1) /\ f(m) = m
      BY <1>1, <2>1
    <3> QED
      BY <3>1
  <2>2. CASE m > i
    <3>1. m - 1 \in 1..(n - 1) /\ f(m - 1) = m
      BY <1>1, <2>2
    <3> QED
      BY <3>1
  <2> QED
    BY <1>1, <2>1, <2>2
<1> HIDE DEF f
<1>7. \A k \in Scheduled' : k \in 1..(n - 1) /\ f(k) \in Scheduled \ {i}
  BY <1>2, <1>3, <1>4 DEF Scheduled
<1>8. \A k \in 1..(n - 1) : f(k) \in Scheduled => k \in Scheduled'
  BY <1>2, <1>3 DEF Scheduled
<1>9. \A k \in 1..Len(delayed') :
          \E m \in 1..Len(delayed) : delayed'[k].alert = delayed[m].alert
  BY <1>2, <1>3, <1>4
<1>10. \A k \in Scheduled' : \E m \in Scheduled \ {i} : delayed'[k] = delayed[m]
  BY <1>3, <1>7
<1>11. \A j, k \in Scheduled' :
           j < k => \E m, n2 \in Scheduled \ {i} :
                        m < n2 /\ delayed'[j] = delayed[m] /\ delayed'[k] = delayed[n2]
  BY <1>3, <1>5, <1>7
<1>12. \A m \in Scheduled \ {i} : \E k \in Scheduled' : delayed'[k] = delayed[m]
  <2> SUFFICES ASSUME NEW m \in Scheduled \ {i}
               PROVE  \E k \in Scheduled' : delayed'[k] = delayed[m]
    OBVIOUS
  <2>1. PICK k \in 1..(n - 1) : m = f(k)
    BY <1>6 DEF Scheduled
  <2> QED
    BY <1>3, <1>8, <2>1
<1> QED
  BY <1>9, <1>10, <1>11, <1>12 DEF CallsKept

\* A call whose handler returned a Deferred stays, and waits no more.
LEMMA RunningCall ==
    ASSUME IndInv, NEW i \in 1..Len(delayed),
           delayed' = [delayed EXCEPT ![i].phase = "running"]
    PROVE  CallsKept(i)
<1> DEFINE c == [delayed[i] EXCEPT !.phase = "running"]
<1>1. delayed \in Seq(Call) /\ delayed[i] \in Call
  BY ElementOfSeq DEF IndInv, TypeOK
<1>2. c \in Call /\ c.alert = delayed[i].alert /\ c.phase = "running"
  BY <1>1 DEF Call
<1>3. delayed' = [delayed EXCEPT ![i] = c]
  OBVIOUS
<1> HIDE DEF c
<1>4. /\ Len(delayed') = Len(delayed) /\ delayed'[i] = c
      /\ \A k \in 1..Len(delayed) : k # i => delayed'[k] = delayed[k]
  BY <1>1, <1>2, <1>3, ExceptSeq
<1>5. Scheduled' = Scheduled \ {i}
  BY <1>2, <1>4 DEF Scheduled
<1>6. \A k \in Scheduled' : delayed'[k] = delayed[k]
  BY <1>4, <1>5 DEF Scheduled
<1>7. \A k \in 1..Len(delayed') :
          \E m \in 1..Len(delayed) : delayed'[k].alert = delayed[m].alert
  BY <1>2, <1>4
<1> QED
  BY <1>5, <1>6, <1>7 DEF CallsKept

\* A call that waited longest runs, or one that ran finishes.
LEMMA CallOrder ==
    ASSUME OrderInv, NEW i \in 1..Len(delayed), CallsKept(i),
           UNCHANGED <<native, pending, current, curHandlers, curIndex, posted, handlers>>,
           \/ /\ i \in Scheduled
              /\ \A j \in Scheduled : j >= i
              /\ lastRun' = [lastRun EXCEPT ![delayed[i].handler] = delayed[i].alert.id]
              /\ owed' = owed \ {<<delayed[i].alert.id, delayed[i].handler>>}
           \/ /\ i \notin Scheduled
              /\ UNCHANGED <<lastRun, owed>>
    PROVE  /\ QueuesRise' /\ TakenIsOlder' /\ RegisteredOnce'
           /\ LeftIsLater' /\ CallsRise' /\ (owed = Due)'
<1> DEFINE h == delayed[i].handler
           x == delayed[i].alert.id
<1>1. /\ delayed[i] \in Call /\ x \in Nat /\ h \in Handlers
      /\ \A g \in Handlers : lastRun[g] \in Nat
      /\ \A k \in 1..Len(delayed) : delayed[k].alert.id \in Nat
  BY AlertIds DEF OrderInv, Call
<1>2. /\ Scheduled \subseteq 1..Len(delayed) /\ Left' = Left
      /\ Len(delayed) \in Nat
  BY DEF Scheduled, Left, OrderInv, IndInv, TypeOK
<1>3. /\ \A g \in Handlers : g # h => lastRun'[g] = lastRun[g]
      /\ i \in Scheduled => lastRun'[h] = x
      /\ i \notin Scheduled => lastRun'[h] = lastRun[h]
  BY <1>1 DEF OrderInv, IndInv, TypeOK
<1> HIDE DEF h, x
<1>4. QueuesRise' /\ RegisteredOnce'
  BY DEF OrderInv, QueuesRise, Rising, RegisteredOnce, Once
<1>5. TakenIsOlder'
  <2>1. \A n : Older(n)' <=> Older(n)
    BY DEF Older
  <2>2. \A g \in Handlers : Older(lastRun'[g])
    <3>1. Older(x)
      BY DEF OrderInv, TakenIsOlder, x
    <3> QED
      BY <1>3, <3>1 DEF OrderInv, TakenIsOlder
  <2>3. \A k \in 1..Len(delayed') : Older(delayed'[k].alert.id)
    BY DEF CallsKept, OrderInv, TakenIsOlder
  <2> QED
    BY <2>1, <2>2, <2>3 DEF OrderInv, TakenIsOlder
\* The other calls of this handler and of the current alert come later.
<1>6. \A m \in Scheduled \ {i} :
          i \in Scheduled /\ delayed[m].handler = h => x < delayed[m].alert.id
  BY <1>2 DEF OrderInv, CallsRise, h, x
<1>7. \A k \in Left : i \in Scheduled /\ curHandlers[k] = h => x < current.id
  BY DEF OrderInv, LeftIsLater, h, x
<1>8. CallsRise'
  <2>1. ASSUME NEW k \in Scheduled'
        PROVE  lastRun'[delayed'[k].handler] < delayed'[k].alert.id
    <3>1. PICK m \in Scheduled \ {i} : delayed'[k] = delayed[m]
      BY DEF CallsKept
    <3>2. delayed[m].handler \in Handlers /\ lastRun[delayed[m].handler] < delayed[m].alert.id
      BY <1>2, AlertIds DEF OrderInv, CallsRise, Call
    <3> QED
      BY <1>3, <1>6, <3>1, <3>2
  <2>2. ASSUME NEW j \in Scheduled', NEW k \in Scheduled', j < k,
               delayed'[j].handler = delayed'[k].handler
        PROVE  delayed'[j].alert.id < delayed'[k].alert.id
    <3>1. PICK m \in Scheduled \ {i}, n \in Scheduled \ {i} :
              m < n /\ delayed'[j] = delayed[m] /\ delayed'[k] = delayed[n]
      BY <2>2 DEF CallsKept
    <3> QED
      BY <2>2, <3>1 DEF OrderInv, CallsRise
  <2> QED
    BY <2>1, <2>2 DEF CallsRise
<1>9. LeftIsLater'
  <2>1. ASSUME NEW k \in Left PROVE lastRun'[curHandlers[k]] < current.id
    <3>1. lastRun[curHandlers[k]] < current.id
      BY DEF OrderInv, LeftIsLater
    <3>2. curHandlers[k] \in Handlers
      <4>1. k \in 1..Len(curHandlers)
        BY DEF Left, OrderInv, IndInv, TypeOK
      <4> QED
        BY <4>1, ElementOfSeq DEF OrderInv, IndInv, TypeOK
    <3> QED
      BY <1>3, <1>7, <3>1, <3>2
  <2>2. ASSUME NEW k \in Left, NEW j \in Scheduled', delayed'[j].handler = curHandlers[k]
        PROVE  delayed'[j].alert.id < current.id
    <3>1. PICK m \in Scheduled \ {i} : delayed'[j] = delayed[m]
      BY DEF CallsKept
    <3> QED
      BY <2>2, <3>1 DEF OrderInv, LeftIsLater
  <2> QED
    BY <1>2, <2>1, <2>2 DEF LeftIsLater
<1>10. (owed = Due)'
  <2> DEFINE L == {<<current.id, curHandlers[k]>> : k \in Left}
             D == {<<delayed[k].alert.id, delayed[k].handler>> : k \in Scheduled \ {i}}
  <2>1. Due' = L \cup D
    <3>1. {<<delayed[k].alert.id, delayed[k].handler>> : k \in Scheduled}' = D
      BY DEF CallsKept
    <3> QED
      BY <1>2, <3>1 DEF Due
  <2>2. CASE i \notin Scheduled
    <3>1. Scheduled \ {i} = Scheduled
      BY <2>2
    <3> QED
      BY <2>1, <2>2, <3>1 DEF OrderInv, Due
  <2>3. CASE i \in Scheduled
    <3>1. owed = L \cup D \cup {<<x, h>>}
      BY <2>3 DEF OrderInv, Due, x, h
    <3>2. <<x, h>> \notin D
      BY <1>1, <1>2, <1>6, <2>3 DEF x
    <3>3. <<x, h>> \notin L
      <4>1. \A k \in Left : current.id \in Nat
        BY AlertIds DEF OrderInv, Left
      <4> QED
        BY <1>1, <1>7, <2>3, <4>1
    <3>4. owed' = owed \ {<<x, h>>}
      BY <2>3 DEF x, h
    <3> QED
      BY <2>1, <3>1, <3>2, <3>3, <3>4
  <2> QED
    BY <2>2, <2>3
<1> QED
  BY <1>4, <1>5, <1>8, <1>9, <1>10

\* The reactor runs a handler; a handler's Deferred fires or times out.
LEMMA RunOrder ==
    ASSUME OrderInv, NEW i \in Nat, RunHandler(i) \/ FinishRunning(i)
    PROVE  /\ QueuesRise' /\ TakenIsOlder' /\ RegisteredOnce'
           /\ LeftIsLater' /\ CallsRise' /\ (owed = Due)'
<1>1. i \in 1..Len(delayed) /\ IndInv
  BY DEF RunHandler, FinishRunning, OrderInv
<1>2. UNCHANGED <<native, pending, current, curHandlers, curIndex, posted, handlers>>
  BY DEF RunHandler, FinishRunning, ghostVars
<1>3. CallsKept(i)
  <2>1. CASE delayed' = RemoveAt(delayed, i)
    BY <1>1, <2>1, FinishedCalls
  <2>2. CASE delayed' = [delayed EXCEPT ![i].phase = "running"]
    BY <1>1, <2>2, RunningCall
  <2> QED
    BY <2>1, <2>2 DEF RunHandler, FinishRunning, HandlerFinished
<1>4. CASE RunHandler(i)
  <2>1. i \in Scheduled
    BY <1>4 DEF RunHandler, Scheduled
  <2>2. \A j \in Scheduled : j >= i
    <3>1. \A j \in 1..(i - 1) : delayed[j].phase = "running"
      BY <1>4 DEF RunHandler
    <3>2. \A j \in Scheduled : j \in Nat /\ j \notin 1..(i - 1) /\ j >= 1
      BY <3>1 DEF Scheduled
    <3> QED
      BY <1>1, <3>2
  <2>3. /\ lastRun' = [lastRun EXCEPT ![delayed[i].handler] = delayed[i].alert.id]
        /\ owed' = owed \ {<<delayed[i].alert.id, delayed[i].handler>>}
    BY <1>4 DEF RunHandler
  <2> QED
    BY <1>1, <1>2, <1>3, <2>1, <2>2, <2>3, CallOrder
<1>5. CASE FinishRunning(i)
  <2>1. i \notin Scheduled
    BY <1>5 DEF FinishRunning, Scheduled
  <2>2. UNCHANGED <<lastRun, owed>>
    BY <1>5 DEF FinishRunning, ghostVars
  <2> QED
    BY <1>1, <1>2, <1>3, <2>1, <2>2, CallOrder
<1> QED
  BY <1>4, <1>5

\* Every step keeps the order.
LEMMA StepOrder == OrderInv /\ [Next]_vars => OrderInv'
<1> SUFFICES ASSUME OrderInv, [Next]_vars
             PROVE  /\ QueuesRise' /\ TakenIsOlder' /\ RegisteredOnce'
                    /\ LeftIsLater' /\ CallsRise' /\ (owed = Due)'
  BY StepInv DEF OrderInv
<1>1. CASE \/ \E p \in Pollers :
                  Start(p) \/ PollCalls(p) \/ PollQueue(p) \/ PollEvent(p) \/ PollAlert(p)
           \/ Pause \/ Resume \/ DrainBegin \/ DrainEnd \/ UNCHANGED vars
  <2>1. UNCHANGED <<native, pending, current, curHandlers, curIndex, delayed, posted,
                    lastRun, owed, handlers>>
    BY <1>1 DEF Start, PollCalls, PollQueue, PollEvent, PollAlert, Pause, Resume,
                DrainBegin, DrainEnd, vars, queueVars, ghostVars
  <2>2. (\A t \in Types : Once(handlers[t]))'
    BY <2>1 DEF OrderInv, RegisteredOnce
  <2> QED
    BY <2>1, <2>2, QuietOrder
<1>2. CASE \E t \in Types, h \in Handlers : RegisterHandler(t, h)
  <2>1. PICK t \in Types, h \in Handlers : RegisterHandler(t, h)
    BY <1>2
  <2>2. Once(Append(handlers[t], h))
    <3>1. handlers[t] \in Seq(Handlers) /\ Once(handlers[t]) /\ h \notin ToSet(handlers[t])
      BY <2>1 DEF RegisterHandler, OrderInv, IndInv, TypeOK, RegisteredOnce
    <3> QED
      BY <3>1, OnceAppend
  <2>3. (\A u \in Types : Once(handlers[u]))'
    BY <2>1, <2>2 DEF RegisterHandler, OrderInv, IndInv, TypeOK, RegisteredOnce
  <2>4. UNCHANGED <<native, pending, current, curHandlers, curIndex, delayed, posted,
                    lastRun, owed>>
    BY <2>1 DEF RegisterHandler, queueVars, ghostVars
  <2> QED
    BY <2>3, <2>4, QuietOrder
<1>3. CASE \E h \in Handlers : DeregisterHandler(h)
  <2>1. PICK h \in Handlers : DeregisterHandler(h)
    BY <1>3
  <2>2. \A t \in Types : Once(Without(handlers[t], h))
    BY OnceWithout DEF OrderInv, IndInv, TypeOK, RegisteredOnce
  <2>3. (\A t \in Types : Once(handlers[t]))'
    BY <2>1, <2>2 DEF DeregisterHandler
  <2>4. UNCHANGED <<native, pending, current, curHandlers, curIndex, delayed, posted,
                    lastRun, owed>>
    BY <2>1 DEF DeregisterHandler, queueVars, ghostVars
  <2> QED
    BY <2>3, <2>4, QuietOrder
<1>4. CASE RunSomeHandler \/ FinishSomeHandler
  <2>1. PICK i \in 1..MaxPendingHandlers : RunHandler(i) \/ FinishRunning(i)
    BY <1>4 DEF RunSomeHandler, FinishSomeHandler
  <2>2. i \in Nat
    BY AlertConstants
  <2> QED
    BY <2>1, <2>2, RunOrder
<1> QED
  BY <1>1, <1>2, <1>3, <1>4, PostOrder, StopOrder, HandleAlertsOrder, TakeOrder, DispatchOrder
  DEF Next, Poll, Drain

\* The order of alerts from libtorrent's queue to the handlers' calls.
THEOREM PumpKeepsOrder == Spec => []OrderInv
  BY InitOrder, StepOrder, PTL DEF Spec

\* _drain_alerts(), stop() and the end of a call: every handler an alert was
\* decided to go to has its call scheduled or is next in line, and no other has.
THEOREM NothingOwedIsLost == Spec => []OwedIsScheduled
<1>1. OrderInv => OwedIsScheduled
  BY OwedIsDue DEF OrderInv
<1> QED
  BY <1>1, PumpKeepsOrder, PTL

\* Handlers see alerts in the order libtorrent posted them, whatever happens to
\* the manager and its handlers in between.
THEOREM HandlersSeeAlertsInOrder == Spec => AlertOrder
<1> DEFINE Later == \A h \in Handlers : lastRun'[h] # lastRun[h] => lastRun'[h] > lastRun[h]
<1>1. OrderInv /\ [Next]_vars => [Later]_vars
  <2> SUFFICES ASSUME OrderInv, Next, NEW h \in Handlers, lastRun'[h] # lastRun[h]
               PROVE  lastRun'[h] > lastRun[h]
    OBVIOUS
  <2>1. CASE UNCHANGED lastRun
    BY <2>1
  <2>2. CASE \E i \in 1..MaxPendingHandlers : RunHandler(i)
    <3>1. PICK i \in 1..MaxPendingHandlers : RunHandler(i)
      BY <2>2
    <3>2. i \in Scheduled /\ lastRun' = [lastRun EXCEPT ![delayed[i].handler] = delayed[i].alert.id]
      BY <3>1 DEF RunHandler, Scheduled
    <3>3. lastRun[delayed[i].handler] < delayed[i].alert.id
      BY <3>2 DEF OrderInv, CallsRise
    <3>4. lastRun \in [Handlers -> 0..MaxAlerts]
      BY DEF OrderInv, IndInv, TypeOK
    <3>5. delayed[i].alert.id \in Nat /\ lastRun[h] \in Nat
      BY <3>2, AlertIds DEF OrderInv, Scheduled
    <3> QED
      BY <3>2, <3>3, <3>4, <3>5
  <2> QED
    BY <2>1, <2>2
    DEF Next, Poll, Drain, RunSomeHandler, FinishSomeHandler, PostAlert, Start, Stop, Pause,
        Resume, RegisterHandler, DeregisterHandler, PollCalls, PollQueue, PollEvent, PollAlert,
        HandleAlerts, DrainBegin, DrainTake, DrainDispatch, DrainEnd, FinishRunning, ghostVars
<1> QED
  BY <1>1, PumpKeepsOrder, PTL DEF Spec, AlertOrder
=============================================================================
