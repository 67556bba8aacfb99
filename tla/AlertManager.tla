---------------------------- MODULE AlertManager ----------------------------
(***************************************************************************)
(* The alert pump of the daemon (deluge/core/alertmanager.py).             *)
(*                                                                         *)
(* A poller thread waits for libtorrent to post alerts and asks the        *)
(* reactor to move them into a bounded Python queue.  The reactor then     *)
(* drains that queue in bounded turns: every alert is handed to each of    *)
(* its handlers through a deferred call, at most MaxPendingHandlers of     *)
(* which are outstanding, and each outstanding call is given up after a    *)
(* timeout.  Nothing but the return of a handler restarts a drain that     *)
(* stopped at that limit, so a forgotten restart stalls the daemon.        *)
(*                                                                         *)
(* One action is one uninterrupted step of the reactor thread, of a poller *)
(* thread or of libtorrent.  A drain turn is a loop: `work' is the turn's  *)
(* loop counter, and while it is running no other reactor step is taken.   *)
(***************************************************************************)
EXTENDS Integers, Sequences, SequencesExt

CONSTANTS
    Types,              \* the alert types (alert.what())
    Handlers,           \* the handler functions
    AsyncHandlers,      \* the handlers that return a Deferred
    Pollers,            \* identities of alert-poller threads
    NoAlert,            \* _current_alert is None
    NativeQueueSize,    \* alert_queue_size, enforced by libtorrent
    MaxPendingAlerts,   \* max_pending_alerts
    WorkPerTurn,        \* alert_work_per_turn
    MaxPendingHandlers, \* max_pending_handlers
    MaxAlerts,          \* bound: alerts libtorrent posts in one behaviour
    MaxStarts,          \* bound: start() calls in one behaviour
    MaxPauses,          \* bound: pause() calls in one behaviour
    MaxRegs             \* bound: (de)registrations in one behaviour

ASSUME AlertConstants ==
    /\ NativeQueueSize \in Nat \ {0}
    /\ MaxPendingAlerts \in Nat \ {0}
    /\ WorkPerTurn \in Nat \ {0}
    /\ MaxPendingHandlers \in Nat \ {0}
    /\ MaxAlerts \in Nat /\ MaxStarts \in Nat /\ MaxPauses \in Nat /\ MaxRegs \in Nat
    /\ AsyncHandlers \subseteq Handlers

\* An alert carries the position in which libtorrent posted it.
Alert == [id : 1..MaxAlerts, type : Types]

ASSUME NoAlertAssumption == NoAlert \notin Alert

\* An entry of delayed_calls: the call waits for its reactor turn, then a
\* handler that returned a Deferred keeps running.
Call == [alert : Alert, handler : Handlers, phase : {"scheduled", "running"}]

VARIABLES
    cstate,     \* _component_state, see Component.tla for the whole life cycle
    event,      \* the threading.Event that pause() clears
    handlers,   \* handlers: type -> the handlers registered for it, in order
    native,     \* libtorrent's own alert queue
    pending,    \* _pending_alerts
    current,    \* _current_alert
    curHandlers,\* _current_handlers
    curIndex,   \* _current_handler_index
    drainCall,  \* _alert_drain_call is not None
    delayed,    \* delayed_calls
    work,       \* work_done of the running drain turn, -1 when none is running
    poller,     \* where each poller thread is in its loop
    posted,     \* how many alerts libtorrent has posted
    lastRun,    \* per handler, the alert it was last called with
    owed,       \* the (alert, handler) pairs decided on and not yet called
    starts, pauses, regs  \* how often each bounded call was made

queueVars == <<native, pending, current, curHandlers, curIndex, drainCall>>
ghostVars == <<posted, lastRun, owed>>
boundVars == <<starts, pauses, regs>>
vars == <<cstate, event, handlers, queueVars, delayed, work, poller, ghostVars, boundVars>>

PollerStates == {"dead", "calls", "queue", "event", "alert", "reactor"}

Init ==
    /\ cstate = "Stopped"
    /\ event = FALSE
    /\ handlers = [t \in Types |-> <<>>]
    /\ native = <<>>
    /\ pending = <<>>
    /\ current = NoAlert
    /\ curHandlers = <<>>
    /\ curIndex = 0
    /\ drainCall = FALSE
    /\ delayed = <<>>
    /\ work = -1
    /\ poller = [p \in Pollers |-> "dead"]
    /\ posted = 0
    /\ lastRun = [h \in Handlers |-> 0]
    /\ owed = {}
    /\ starts = 0 /\ pauses = 0 /\ regs = 0

\* The reactor runs one callback at a time: between two drain iterations of a
\* turn it does nothing else.
ReactorIdle == work = -1

HasPendingAlertWork(pend, cur, drain) == pend # <<>> \/ cur # NoAlert \/ drain
-----------------------------------------------------------------------------
(* libtorrent (external): it posts alerts from its own threads and throws   *)
(* the newest away when its queue is full.                                  *)

PostAlert(t) ==
    /\ posted < MaxAlerts
    /\ posted' = posted + 1
    /\ native' = IF Len(native) < NativeQueueSize
                 THEN Append(native, [id |-> posted + 1, type |-> t])
                 ELSE native
    /\ UNCHANGED <<cstate, event, handlers, pending, current, curHandlers, curIndex,
                   drainCall, delayed, work, poller, lastRun, owed, boundVars>>
-----------------------------------------------------------------------------
(* Component operations, called in the reactor.                             *)

\* start(): a new poller thread; an older one may not have noticed the stop.
\* Which of the free names the thread gets does not matter.
Start(p) ==
    /\ ReactorIdle
    /\ starts < MaxStarts
    /\ cstate = "Stopped"
    /\ poller[p] = "dead"
    /\ p = CHOOSE q \in Pollers : poller[q] = "dead"
    /\ cstate' = "Started"
    /\ poller' = [poller EXCEPT ![p] = "calls"]
    /\ event' = TRUE
    /\ starts' = starts + 1
    /\ UNCHANGED <<handlers, queueVars, delayed, work, ghostVars, pauses, regs>>

\* Mutant: the calls are cancelled while the queues are still full.
Stop_CancelFirst ==
    /\ ReactorIdle
    /\ cstate \in {"Started", "Paused"}
    /\ cstate' = "Stopped"
    /\ drainCall' = (delayed # <<>> /\ HasPendingAlertWork(pending, current, FALSE))
    /\ pending' = <<>>
    /\ current' = NoAlert /\ curHandlers' = <<>> /\ curIndex' = 0
    /\ delayed' = <<>>
    /\ owed' = {}
    /\ UNCHANGED <<event, handlers, native, work, poller, posted, lastRun, boundVars>>

\* stop(): cancel_delayed_calls().  The queues are emptied before the calls are
\* cancelled, because a cancelled call runs _handler_finished.
Stop ==
    /\ ReactorIdle
    /\ cstate \in {"Started", "Paused"}
    /\ cstate' = "Stopped"
    /\ drainCall' = FALSE
    /\ pending' = <<>>
    /\ current' = NoAlert /\ curHandlers' = <<>> /\ curIndex' = 0
    /\ delayed' = <<>>
    /\ owed' = {}
    /\ UNCHANGED <<event, handlers, native, work, poller, posted, lastRun, boundVars>>

Pause ==
    /\ ReactorIdle
    /\ pauses < MaxPauses
    /\ cstate = "Started"
    /\ cstate' = "Paused"
    /\ event' = FALSE
    /\ pauses' = pauses + 1
    /\ UNCHANGED <<handlers, queueVars, delayed, work, poller, ghostVars, starts, regs>>

Resume ==
    /\ ReactorIdle
    /\ cstate = "Paused"
    /\ cstate' = "Started"
    /\ event' = TRUE
    /\ UNCHANGED <<handlers, queueVars, delayed, work, poller, ghostVars, boundVars>>

RegisterHandler(t, h) ==
    /\ ReactorIdle
    /\ regs < MaxRegs
    /\ h \notin ToSet(handlers[t])
    /\ handlers' = [handlers EXCEPT ![t] = Append(@, h)]
    /\ regs' = regs + 1
    /\ UNCHANGED <<cstate, event, queueVars, delayed, work, poller, ghostVars, starts, pauses>>

\* list.remove(), its ValueError suppressed; a list holds a handler once.
Without(s, h) ==
    IF h \in ToSet(s) THEN RemoveAt(s, CHOOSE i \in 1..Len(s) : s[i] = h) ELSE s

\* deregister_handler(): the handler leaves every type's list.
DeregisterHandler(h) ==
    /\ ReactorIdle
    /\ regs < MaxRegs
    /\ handlers' = [t \in Types |-> Without(handlers[t], h)]
    /\ regs' = regs + 1
    /\ UNCHANGED <<cstate, event, queueVars, delayed, work, poller, ghostVars, starts, pauses>>
-----------------------------------------------------------------------------
(* wait_for_alert_in_thread(), one turn of the poller's loop.  It reads the  *)
(* queues without a lock, delayed_calls first, while the reactor runs.       *)

PollCalls(p) ==
    /\ poller[p] = "calls"
    /\ \/ cstate = "Stopped" /\ poller' = [poller EXCEPT ![p] = "dead"]
       \/ cstate # "Stopped" /\ delayed = <<>> /\ poller' = [poller EXCEPT ![p] = "queue"]
    /\ UNCHANGED <<cstate, event, handlers, queueVars, delayed, work, ghostVars, boundVars>>

PollQueue(p) ==
    /\ poller[p] = "queue"
    /\ poller' = [poller EXCEPT ![p] =
                    IF HasPendingAlertWork(pending, current, drainCall) THEN "calls" ELSE "event"]
    /\ UNCHANGED <<cstate, event, handlers, queueVars, delayed, work, ghostVars, boundVars>>

\* _event.wait(timeout=1)
PollEvent(p) ==
    /\ poller[p] = "event"
    /\ poller' = [poller EXCEPT ![p] = IF event THEN "alert" ELSE "calls"]
    /\ UNCHANGED <<cstate, event, handlers, queueVars, delayed, work, ghostVars, boundVars>>

\* session.wait_for_alert(1000), then blockingCallFromThread
PollAlert(p) ==
    /\ poller[p] = "alert"
    /\ poller' = [poller EXCEPT ![p] = IF native # <<>> THEN "reactor" ELSE "calls"]
    /\ UNCHANGED <<cstate, event, handlers, queueVars, delayed, work, ghostVars, boundVars>>
-----------------------------------------------------------------------------
(* The reactor's side of the pump.                                          *)

MayHandleAlerts ==
    /\ cstate = "Started" /\ event
    /\ ~ HasPendingAlertWork(pending, current, drainCall)
    /\ delayed = <<>>

\* maybe_handle_alerts() and handle_alerts(): take libtorrent's whole queue,
\* keep its oldest MaxPendingAlerts and start a drain turn.
HandleAlerts(p) ==
    /\ ReactorIdle
    /\ poller[p] = "reactor"
    /\ poller' = [poller EXCEPT ![p] = "calls"]
    /\ IF MayHandleAlerts /\ native # <<>>
       THEN /\ native' = <<>>
            /\ pending' = pending \o (IF Len(native) > MaxPendingAlerts
                                      THEN SubSeq(native, 1, MaxPendingAlerts)
                                      ELSE native)
            /\ work' = 0
       ELSE UNCHANGED <<native, pending, work>>
    /\ UNCHANGED <<cstate, event, handlers, current, curHandlers, curIndex, drainCall,
                   delayed, ghostVars, boundVars>>

\* The reactor calls a scheduled _drain_alerts().
DrainBegin ==
    /\ ReactorIdle
    /\ drainCall
    /\ drainCall' = FALSE
    /\ work' = 0
    /\ UNCHANGED <<cstate, event, handlers, native, pending, current, curHandlers, curIndex,
                   delayed, poller, ghostVars, boundVars>>

\* Mutant: the newest alert is taken instead of the oldest.
DrainTake_Pop ==
    /\ work \in 0..(WorkPerTurn - 1)
    /\ current = NoAlert
    /\ pending # <<>>
    /\ LET a == Last(pending)
           hs == handlers[a.type]
       IN  /\ current' = IF hs = <<>> THEN NoAlert ELSE a
           /\ curHandlers' = hs
           /\ owed' = owed \cup {<<a.id, h>> : h \in ToSet(hs)}
    /\ pending' = Front(pending)
    /\ curIndex' = 0
    /\ work' = work + 1
    /\ UNCHANGED <<cstate, event, handlers, native, drainCall, delayed, poller,
                   posted, lastRun, boundVars>>

\* Loop body, first half: take the next alert and the handlers it has now.
DrainTake ==
    /\ work \in 0..(WorkPerTurn - 1)
    /\ current = NoAlert
    /\ pending # <<>>
    /\ LET a == Head(pending)
           hs == handlers[a.type]
       IN  /\ current' = IF hs = <<>> THEN NoAlert ELSE a
           /\ curHandlers' = hs
           /\ owed' = owed \cup {<<a.id, h>> : h \in ToSet(hs)}
    /\ pending' = Tail(pending)
    /\ curIndex' = 0
    /\ work' = work + 1
    /\ UNCHANGED <<cstate, event, handlers, native, drainCall, delayed, poller,
                   posted, lastRun, boundVars>>

\* Mutant: the limit on outstanding calls is not looked at.
DrainDispatch_NoLimit ==
    /\ \/ work \in 0..(WorkPerTurn - 1)
       \/ work = WorkPerTurn /\ curIndex = 0
    /\ current # NoAlert
    /\ LET h == curHandlers[curIndex + 1]
           last == curIndex + 1 = Len(curHandlers)
       IN  /\ delayed' = Append(delayed, [alert |-> current, handler |-> h, phase |-> "scheduled"])
           /\ current' = IF last THEN NoAlert ELSE current
           /\ curHandlers' = IF last THEN <<>> ELSE curHandlers
           /\ curIndex' = IF last THEN 0 ELSE curIndex + 1
    /\ work' = work + 1
    /\ UNCHANGED <<cstate, event, handlers, native, pending, drainCall, poller,
                   ghostVars, boundVars>>

\* Loop body, second half: defer one handler call.  The code goes from the first
\* half to this one without looking at work_done again.
DrainDispatch ==
    /\ \/ work \in 0..(WorkPerTurn - 1)
       \/ work = WorkPerTurn /\ curIndex = 0
    /\ current # NoAlert
    /\ Len(delayed) < MaxPendingHandlers
    /\ LET h == curHandlers[curIndex + 1]
           last == curIndex + 1 = Len(curHandlers)
       IN  /\ delayed' = Append(delayed, [alert |-> current, handler |-> h, phase |-> "scheduled"])
           /\ current' = IF last THEN NoAlert ELSE current
           /\ curHandlers' = IF last THEN <<>> ELSE curHandlers
           /\ curIndex' = IF last THEN 0 ELSE curIndex + 1
    /\ work' = work + 1
    /\ UNCHANGED <<cstate, event, handlers, native, pending, drainCall, poller,
                   ghostVars, boundVars>>

\* The loop is left and, if work remains and a slot is free, the next turn is
\* scheduled.
DrainEnd ==
    /\ \/ work >= WorkPerTurn /\ ~ (work = WorkPerTurn /\ curIndex = 0 /\ current # NoAlert)
       \/ work >= 0 /\ current = NoAlert /\ pending = <<>>
       \/ work >= 0 /\ current # NoAlert /\ Len(delayed) >= MaxPendingHandlers
    /\ work' = -1
    /\ drainCall' = /\ HasPendingAlertWork(pending, current, drainCall)
                    /\ Len(delayed) < MaxPendingHandlers
    /\ UNCHANGED <<cstate, event, handlers, native, pending, current, curHandlers, curIndex,
                   delayed, poller, ghostVars, boundVars>>

\* Mutant: a finished call does not restart the drain.
HandlerFinished_NoRestart(i) ==
    /\ delayed' = RemoveAt(delayed, i)
    /\ UNCHANGED drainCall

\* Mutant: the oldest call is dropped, whichever call finished.
HandlerFinished_Oldest(i) ==
    /\ delayed' = Tail(delayed)
    /\ drainCall' = IF Len(delayed) - 1 < MaxPendingHandlers
                    THEN HasPendingAlertWork(pending, current, drainCall)
                    ELSE drainCall

\* _handler_finished(): the call leaves delayed_calls and restarts the drain.
HandlerFinished(i) ==
    /\ delayed' = RemoveAt(delayed, i)
    /\ drainCall' = IF Len(delayed) - 1 < MaxPendingHandlers
                    THEN HasPendingAlertWork(pending, current, drainCall)
                    ELSE drainCall

\* The reactor runs the oldest call still scheduled.  A handler that returns
\* no Deferred is finished with the same step.
RunHandler(i) ==
    /\ ReactorIdle
    /\ i \in 1..Len(delayed)
    /\ delayed[i].phase = "scheduled"
    /\ \A j \in 1..(i - 1) : delayed[j].phase = "running"
    /\ lastRun' = [lastRun EXCEPT ![delayed[i].handler] = delayed[i].alert.id]
    /\ owed' = owed \ {<<delayed[i].alert.id, delayed[i].handler>>}
    /\ IF delayed[i].handler \in AsyncHandlers
       THEN delayed' = [delayed EXCEPT ![i].phase = "running"] /\ UNCHANGED drainCall
       ELSE HandlerFinished(i)
    /\ UNCHANGED <<cstate, event, handlers, native, pending, current, curHandlers, curIndex,
                   work, poller, posted, boundVars>>

\* The Deferred a handler returned fires, or addTimeout cancels it.
FinishRunning(i) ==
    /\ ReactorIdle
    /\ i \in 1..Len(delayed)
    /\ delayed[i].phase = "running"
    /\ HandlerFinished(i)
    /\ UNCHANGED <<cstate, event, handlers, native, pending, current, curHandlers, curIndex,
                   work, poller, ghostVars, boundVars>>
-----------------------------------------------------------------------------
Drain == DrainBegin \/ DrainTake \/ DrainDispatch \/ DrainEnd

Poll(p) == PollCalls(p) \/ PollQueue(p) \/ PollEvent(p) \/ PollAlert(p) \/ HandleAlerts(p)

RunSomeHandler == \E i \in 1..MaxPendingHandlers : RunHandler(i)
FinishSomeHandler == \E i \in 1..MaxPendingHandlers : FinishRunning(i)

Next ==
    \/ \E t \in Types : PostAlert(t)
    \/ \E p \in Pollers : Start(p)
    \/ Stop
    \/ Pause
    \/ Resume
    \/ \E t \in Types, h \in Handlers : RegisterHandler(t, h)
    \/ \E h \in Handlers : DeregisterHandler(h)
    \/ \E p \in Pollers : Poll(p)
    \/ Drain
    \/ RunSomeHandler
    \/ FinishSomeHandler

Spec == Init /\ [][Next]_vars

\* The reactor keeps running its calls, poller threads keep being scheduled,
\* a pause is always followed by its resume (TorrentManager.add), and a handler
\* that never answers is cancelled by its timeout.
Fairness ==
    /\ WF_vars(Drain)
    /\ WF_vars(RunSomeHandler)
    /\ WF_vars(FinishSomeHandler)
    /\ WF_vars(Resume)
    /\ \A p \in Pollers : WF_vars(Poll(p))

FairSpec == Spec /\ Fairness
-----------------------------------------------------------------------------
(* Properties.                                                              *)

TypeOK ==
    /\ cstate \in {"Stopped", "Started", "Paused"}
    /\ event \in BOOLEAN
    /\ handlers \in [Types -> Seq(Handlers)]
    /\ native \in Seq(Alert)
    /\ pending \in Seq(Alert)
    /\ current \in Alert \cup {NoAlert}
    /\ curHandlers \in Seq(Handlers)
    /\ curIndex \in Nat
    /\ drainCall \in BOOLEAN
    /\ delayed \in Seq(Call)
    /\ work \in -1..(WorkPerTurn + 1)
    /\ poller \in [Pollers -> PollerStates]
    /\ posted \in 0..MaxAlerts
    /\ lastRun \in [Handlers -> 0..MaxAlerts]
    /\ owed \subseteq ((1..MaxAlerts) \X Handlers)
    /\ starts \in Nat /\ pauses \in Nat /\ regs \in Nat

\* The alert being handed out has a handler left: _current_handlers is never
\* indexed past its end when a turn resumes after a break.
CursorInRange == current # NoAlert => curIndex < Len(curHandlers)

\* The drain never stalls: work that is left when the reactor is between turns
\* always has a drain call scheduled, or waits for one of MaxPendingHandlers
\* outstanding calls whose end schedules it (_handler_finished).
NoLostWakeup ==
    ReactorIdle /\ (pending # <<>> \/ current # NoAlert) =>
        drainCall \/ Len(delayed) >= MaxPendingHandlers

\* The Python side stays bounded whatever libtorrent and the handlers do.
Bounded ==
    /\ Len(pending) <= MaxPendingAlerts
    /\ Len(delayed) <= MaxPendingHandlers

\* A stopped manager is quiet: no call is left behind that could run a handler,
\* not even one that _handler_finished scheduled while stop() cancelled the
\* outstanding calls.
QuietWhenStopped ==
    cstate = "Stopped" => /\ pending = <<>> /\ current = NoAlert
                          /\ ~ drainCall /\ delayed = <<>> /\ work = -1

\* Nothing decided on is lost or done twice: the handlers an alert is still owed
\* are exactly the rest of the current alert's handlers and the scheduled calls.
OwedIsScheduled ==
    owed = {<<current.id, curHandlers[i]>> : i \in
               IF current = NoAlert THEN {} ELSE (curIndex + 1)..Len(curHandlers)}
           \cup {<<c.alert.id, c.handler>> :
                   c \in {d \in ToSet(delayed) : d.phase = "scheduled"}}

\* Every handler sees alerts in the order libtorrent posted them, across turns,
\* batches, restarts and a second poller thread.
AlertOrder == [][\A h \in Handlers : lastRun'[h] # lastRun[h] => lastRun'[h] > lastRun[h]]_vars

\* The inductive invariant behind the safety theorems: a step that finishes a
\* call restarts the drain only because the calls were bounded before it.
IndInv == TypeOK /\ CursorInRange /\ Bounded /\ NoLostWakeup /\ QuietWhenStopped

\* An alert that the next maybe_handle_alerts() keeps: of libtorrent's queue it
\* takes the oldest max_pending_alerts and throws the rest away.
Keepable(a) == \E i \in DOMAIN native : i <= MaxPendingAlerts /\ native[i].id = a

InPending(a) == \E x \in ToSet(pending) : x.id = a

\* Handler h is still to be called with alert a: decided on, or registered for
\* an alert that waits to be taken.
StillDue(a, h) ==
    \/ <<a, h>> \in owed
    \/ \E x \in ToSet(pending) : x.id = a /\ h \in ToSet(handlers[x.type])

\* Alerts are thrown away where the code says so, at libtorrent's full queue and
\* in a batch longer than max_pending_alerts, and by stop().  All others are
\* taken over in the end, and each of their handlers is called with them, unless
\* it is deregistered while the alert still waits for its turn.
AlertsAreHandled ==
    /\ \A a \in 1..MaxAlerts : Keepable(a) ~> (InPending(a) \/ cstate = "Stopped")
    /\ \A a \in 1..MaxAlerts, h \in Handlers :
        StillDue(a, h) ~> \/ lastRun[h] = a
                          \/ InPending(a) /\ ~ StillDue(a, h)
                          \/ cstate = "Stopped"
=============================================================================
