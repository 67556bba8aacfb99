------------------------------ MODULE Component ------------------------------
(***************************************************************************)
(* The component registry (deluge/component.py): starting, stopping,       *)
(* pausing and resuming components that depend on one another.             *)
(*                                                                         *)
(* Components are numbered along a chain of dependencies, as SessionProxy, *)
(* Web and DelugeWeb are: component i depends on i - 1.  start(c) starts   *)
(* 1, 2, .., c and stop(c) stops N, .., c + 1, c, each waiting for the     *)
(* Deferred of the one before.  A start() or stop() method of a component  *)
(* may take any time, and requests keep coming in meanwhile, so several    *)
(* calls of the same component can be under way at once.                   *)
(***************************************************************************)
EXTENDS Integers, FiniteSets

CONSTANTS
    N,            \* number of components
    Failing,      \* components whose start() and stop() may fail
    CallIds,      \* names for calls under way, 1..k
    MaxRequests,  \* bound: start() and stop() requests
    MaxPauses     \* bound: pause() requests

ASSUME ComponentConstants ==
    /\ N \in Nat \ {0} /\ MaxRequests \in Nat /\ MaxPauses \in Nat
    /\ Failing \subseteq 1..N
    /\ CallIds \subseteq Nat \ {0}

Comps == 1..N
States == {"Stopped", "Starting", "Started", "Stopping", "Paused"}

\* A start() or stop() method that has not come to its end.
Calls == [id : CallIds, comp : Comps, op : {"start", "stop"}]

\* A request on its way along the chain: it is at a component, on the way to the
\* one it was made for, and waits for a call (0: it goes on in this reactor turn).
Jobs == [op : {"start", "stop"}, at : Comps, to : Comps, wait : CallIds \cup {0}]

VARIABLES
    cstate,     \* _component_state
    timer,      \* _component_timer is running
    orphans,    \* update timers that still run but are referred to by nobody
    startD,     \* _component_starting_deferred: the call it belongs to, 0 for None
    stopD,      \* _component_stopping_deferred
    calls, jobs,
    requests, pauses

registryVars == <<cstate, timer, orphans, startD, stopD, calls, jobs, requests, pauses>>

RegistryInit ==
    /\ cstate = [c \in Comps |-> "Stopped"]
    /\ timer = [c \in Comps |-> FALSE]
    /\ orphans = [c \in Comps |-> 0]
    /\ startD = [c \in Comps |-> 0]
    /\ stopD = [c \in Comps |-> 0]
    /\ calls = {} /\ jobs = {}
    /\ requests = 0 /\ pauses = 0

\* Nothing is left to do in this reactor turn.
ReactorIdle == \A j \in jobs : j.wait # 0

FreeIds == CallIds \ {k.id : k \in calls}

\* The first component a request reaches.
First(op) == IF op = "start" THEN 1 ELSE N

\* The requests that go on when one of them is done with its component.
GoOn(j) ==
    IF j.at = j.to THEN {}
    ELSE {[j EXCEPT !.at = IF j.op = "start" THEN @ + 1 ELSE @ - 1, !.wait = 0]}
-----------------------------------------------------------------------------
(* Requests.                                                                *)

\* ComponentRegistry.start(), of one component or of all, and stop().
Request(op, targets) ==
    /\ ReactorIdle
    /\ requests < MaxRequests
    /\ requests' = requests + 1
    /\ jobs' = jobs \cup {[op |-> op, at |-> First(op), to |-> c, wait |-> 0] : c \in targets}
    /\ UNCHANGED <<cstate, timer, orphans, startD, stopD, calls, pauses>>

\* ComponentRegistry.pause(); pause() methods return at once.
Pause(c) ==
    /\ ReactorIdle
    /\ pauses < MaxPauses
    /\ pauses' = pauses + 1
    /\ cstate[c] = "Started"
    /\ cstate' = [cstate EXCEPT ![c] = "Paused"]
    /\ timer' = [timer EXCEPT ![c] = FALSE]
    /\ UNCHANGED <<orphans, startD, stopD, calls, jobs, requests>>

\* _component_start_timer(): a timer that is still running is forgotten, not stopped.
StartTimer(c) ==
    /\ timer' = [timer EXCEPT ![c] = TRUE]
    /\ orphans' = [orphans EXCEPT ![c] = IF timer[c] THEN @ + 1 ELSE @]

\* ComponentRegistry.resume().
Resume(c) ==
    /\ ReactorIdle
    /\ cstate[c] = "Paused"
    /\ cstate' = [cstate EXCEPT ![c] = "Started"]
    /\ StartTimer(c)
    /\ UNCHANGED <<startD, stopD, calls, jobs, requests, pauses>>
-----------------------------------------------------------------------------
(* A request reaches a component.                                           *)

\* _component_start() of a stopped component: its start() method is called in a
\* later reactor turn.
StartCall(j) ==
    /\ cstate[j.at] = "Stopped"
    /\ cstate' = [cstate EXCEPT ![j.at] = "Starting"]
    /\ \E k \in FreeIds :
          /\ \A l \in FreeIds : k <= l
          /\ calls' = calls \cup {[id |-> k, comp |-> j.at, op |-> "start"]}
          /\ startD' = [startD EXCEPT ![j.at] = k]
          /\ jobs' = (jobs \ {j}) \cup {[j EXCEPT !.wait = k]}
    /\ UNCHANGED <<timer, orphans, stopD, requests, pauses>>

\* _component_start() of any other: it is being started already, it is started,
\* or the call fails at once; a failure does not stop the request (DeferredList).
StartNoCall(j) ==
    /\ cstate[j.at] # "Stopped"
    /\ jobs' = (jobs \ {j}) \cup
               (IF cstate[j.at] = "Starting" THEN {[j EXCEPT !.wait = startD[j.at]]} ELSE GoOn(j))
    /\ UNCHANGED <<cstate, timer, orphans, startD, stopD, calls, requests, pauses>>

\* _component_stop(): the stop() method is called at once.  It may return,
\* raise, or return a Deferred that fires later.
StopReturns(j) ==
    /\ cstate[j.at] \in {"Starting", "Started", "Paused"}
    /\ cstate' = [cstate EXCEPT ![j.at] = "Stopped"]
    /\ timer' = [timer EXCEPT ![j.at] = FALSE]
    /\ jobs' = (jobs \ {j}) \cup GoOn(j)
    /\ UNCHANGED <<orphans, startD, stopD, calls, requests, pauses>>

StopRaises(j) ==
    /\ cstate[j.at] \in {"Starting", "Started", "Paused"}
    /\ j.at \in Failing
    /\ cstate' = [cstate EXCEPT ![j.at] = "Started"]
    /\ jobs' = (jobs \ {j}) \cup GoOn(j)
    /\ UNCHANGED <<timer, orphans, startD, stopD, calls, requests, pauses>>

\* Mutant: the component below is stopped while this one still is stopping.
StopCall_NoWait(j) ==
    /\ cstate[j.at] \in {"Starting", "Started", "Paused"}
    /\ cstate' = [cstate EXCEPT ![j.at] = "Stopping"]
    /\ \E k \in FreeIds :
          /\ \A l \in FreeIds : k <= l
          /\ calls' = calls \cup {[id |-> k, comp |-> j.at, op |-> "stop"]}
          /\ stopD' = [stopD EXCEPT ![j.at] = k]
    /\ jobs' = (jobs \ {j}) \cup GoOn(j)
    /\ UNCHANGED <<timer, orphans, startD, requests, pauses>>

StopCall(j) ==
    /\ cstate[j.at] \in {"Starting", "Started", "Paused"}
    /\ cstate' = [cstate EXCEPT ![j.at] = "Stopping"]
    /\ \E k \in FreeIds :
          /\ \A l \in FreeIds : k <= l
          /\ calls' = calls \cup {[id |-> k, comp |-> j.at, op |-> "stop"]}
          /\ stopD' = [stopD EXCEPT ![j.at] = k]
          /\ jobs' = (jobs \ {j}) \cup {[j EXCEPT !.wait = k]}
    /\ UNCHANGED <<timer, orphans, startD, requests, pauses>>

StopNoCall(j) ==
    /\ cstate[j.at] \in {"Stopped", "Stopping"}
    /\ jobs' = (jobs \ {j}) \cup
               (IF cstate[j.at] = "Stopping" THEN {[j EXCEPT !.wait = stopD[j.at]]} ELSE GoOn(j))
    /\ UNCHANGED <<cstate, timer, orphans, startD, stopD, calls, requests, pauses>>

Advance ==
    \E j \in {i \in jobs : i.wait = 0} :
        \/ j.op = "start" /\ (StartCall(j) \/ StartNoCall(j))
        \/ j.op = "stop" /\ (StopReturns(j) \/ StopRaises(j) \/ StopCall(j) \/ StopNoCall(j))
-----------------------------------------------------------------------------
(* A start() or stop() method comes to its end.                             *)

\* Mutant: the requests waiting for the call are not told.
Fire_Forget(k) ==
    /\ calls' = calls \ {k}
    /\ UNCHANGED jobs

\* The Deferred of a call fires: every request that waits for it goes on.
Fire(k) ==
    /\ calls' = calls \ {k}
    /\ jobs' = {j \in jobs : j.wait # k.id} \cup
               UNION {GoOn(j) : j \in {i \in jobs : i.wait = k.id}}

\* on_start(): whatever happened to the component since the call was scheduled.
StartEnds(k) ==
    /\ k.op = "start"
    /\ cstate' = [cstate EXCEPT ![k.comp] = "Started"]
    /\ startD' = [startD EXCEPT ![k.comp] = 0]
    /\ StartTimer(k.comp)
    /\ UNCHANGED stopD

\* on_start_fail()
StartFails(k) ==
    /\ k.op = "start" /\ k.comp \in Failing
    /\ cstate' = [cstate EXCEPT ![k.comp] = "Stopped"]
    /\ startD' = [startD EXCEPT ![k.comp] = 0]
    /\ UNCHANGED <<timer, orphans, stopD>>

\* on_stop()
StopEnds(k) ==
    /\ k.op = "stop"
    /\ cstate' = [cstate EXCEPT ![k.comp] = "Stopped"]
    /\ timer' = [timer EXCEPT ![k.comp] = FALSE]
    /\ UNCHANGED <<orphans, startD, stopD>>

\* on_stop_fail()
StopFails(k) ==
    /\ k.op = "stop" /\ k.comp \in Failing
    /\ cstate' = [cstate EXCEPT ![k.comp] = "Started"]
    /\ stopD' = [stopD EXCEPT ![k.comp] = 0]
    /\ UNCHANGED <<timer, orphans, startD>>

CallEnds ==
    /\ ReactorIdle
    /\ \E k \in calls :
          /\ StartEnds(k) \/ StartFails(k) \/ StopEnds(k) \/ StopFails(k)
          /\ Fire(k)
    /\ UNCHANGED <<requests, pauses>>
-----------------------------------------------------------------------------
RegistryNext ==
    \/ \E c \in Comps : Request("start", {c}) \/ Request("stop", {c}) \/ Pause(c) \/ Resume(c)
    \/ Request("start", Comps)
    \/ Advance
    \/ CallEnds

RegistrySpec == RegistryInit /\ [][RegistryNext]_registryVars

\* The reactor finishes its turn, and start() and stop() methods end.
FairRegistrySpec == RegistrySpec /\ WF_registryVars(Advance) /\ WF_registryVars(CallEnds)
-----------------------------------------------------------------------------
(* Properties.                                                              *)

RegistryTypeOK ==
    /\ cstate \in [Comps -> States]
    /\ timer \in [Comps -> BOOLEAN]
    /\ orphans \in [Comps -> Nat]
    /\ startD \in [Comps -> CallIds \cup {0}]
    /\ stopD \in [Comps -> CallIds \cup {0}]
    /\ calls \subseteq Calls /\ jobs \subseteq Jobs
    /\ requests \in 0..MaxRequests /\ pauses \in 0..MaxPauses

\* stop() of a component is called when the one that depends on it has stopped.
\* DeferredList goes on as well when that one failed to: of one whose calls may
\* fail nothing is said.
DependentsStopFirst ==
    [][\A c \in 1..(N - 1) :
          cstate[c] \notin {"Stopped", "Stopping"} /\ cstate'[c] \in {"Stopping", "Stopped"}
            /\ ~ (\E k \in calls \ calls' : k.comp = c)
          => cstate[c + 1] = "Stopped" \/ c + 1 \in Failing]_registryVars

\* Every request is answered.
RequestsAreAnswered == [](jobs # {} => <>(jobs = {}))
-----------------------------------------------------------------------------
(* What the repository says of the code, and the code does not do.          *)

\* "update() - This method is called every 1 second by default while the
\* Component is in a *Started* state."
UpdatedOnlyWhileStarted ==
    \A c \in Comps : cstate[c] \in {"Stopped", "Paused"} => ~ timer[c] /\ orphans[c] = 0

\* "Start Components, and their dependencies": a started component has its
\* dependency running once all requests are answered.
StartedWithDependencies ==
    jobs = {} /\ calls = {} =>
        \A c \in 2..N : cstate[c] = "Started" => cstate[c - 1] \in {"Started", "Paused"}
=============================================================================
