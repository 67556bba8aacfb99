----------------------------- MODULE WebClient -----------------------------
(***************************************************************************)
(* The page of the Web UI and the web server behind it: the poll every two *)
(* seconds (UI.js), login and logout (LoginWindow.js, auth.py), connecting *)
(* the server to a daemon (ConnectionManager.js, json_api.py), and the     *)
(* events of the daemon, which the page gets by a long poll                *)
(* (EventsManager.js, EventQueue in json_api.py).                          *)
(*                                                                         *)
(* The page runs one handler at a time: a timer, the answer to a request   *)
(* or what the user does.  Each request goes to the server on its own, and *)
(* answers come back in any order.  A request carries the session cookie   *)
(* of the moment it was sent.                                              *)
(*                                                                         *)
(* A timer is "none" (the variable is undefined), "live", or "fired": the  *)
(* variable still holds the id of a timer that ran.  A live timer whose id *)
(* was overwritten is a stray.                                             *)
(*                                                                         *)
(* Left out: what the widgets show, plugins, wrong passwords (LoginLimiter *)
(* has them), which daemon it is, and when a timer fires.                  *)
(***************************************************************************)
EXTENDS Integers, Sequences, FiniteSets, Bags

CONSTANTS
  Follows,       \* which requests of the page a behaviour follows: sets out of
                 \* "updates" and "events", which share the session only
  MaxLogins,     \* sessions, numbered from 1
  MaxSteps,      \* steps of the user (login, logout, connect, disconnect, reload)
                 \* and failures (requests, sessions and daemons lost)
  MaxEvents,     \* events of the daemon
  MaxRequests    \* requests under way beyond which no timer fires

ASSUME WebAssumption ==
  /\ Follows \subseteq SUBSET {"updates", "events"}
  /\ MaxLogins \in Nat \ {0}
  /\ {MaxSteps, MaxEvents, MaxRequests} \subseteq Nat

VARIABLES
  ui,         \* deluge.ui: its timers `running' and `checking', the strays of
              \* both, and errorCount
  events,     \* deluge.events: running and errorCount
  loginShown, \* the login window is shown, and the rest out of reach
  cookie,     \* the session of the page's cookie, 0 for none
  requests,   \* under way to the server: what is called, with which cookie
  held,       \* get_events that wait in the server, and whose page is gone
  answers,    \* under way to the page
  sessions,   \* Auth.config['sessions']
  created,    \* sessions created so far
  linked,     \* client.connected()
  listeners,  \* sessions that have registered the events
  emitted,    \* of a session: events since it registered
  taken,      \* of a session: events taken out of its queue
  fired,      \* of a session: the events the page fired, in order
  follows,    \* one of Follows, chosen once
  steps,      \* bound: steps of the user and failures so far
  forked      \* history: the chain of polls for events forked or broke off

pageVars == <<ui, events, loginShown, cookie>>
serverVars == <<follows, sessions, created, linked, listeners, emitted, taken, held>>
vars == <<pageVars, serverVars, steps, requests, answers, fired, forked>>

-----------------------------------------------------------------------------
Sessions == 1..MaxLogins

Call(kind) == SetToBag({[kind |-> kind, s |-> cookie]})
Reply(kind, result) ==
  SetToBag({[kind |-> kind, result |-> result, s |-> 0, first |-> 1, last |-> 0]})
Take(bag, x) == bag (-) SetToBag({x})

InFlight == BagCardinality(requests) + BagCardinality(answers)

NoUi == [running |-> "none", strays |-> 0, checking |-> "none", strayChecks |-> 0,
         errorCount |-> 0]

(* A fresh page: the client has loaded its methods, and the login window   *)
(* asks whether there is a session.                                        *)
Init ==
  /\ follows \in Follows
  /\ ui = NoUi
  /\ events = [running |-> FALSE, errorCount |-> 0]
  /\ loginShown = FALSE
  /\ cookie \in {0, 1} /\ sessions = {cookie} \ {0} /\ created = cookie
  /\ requests = Call("check_session")
  /\ held = EmptyBag /\ answers = EmptyBag
  /\ linked \in BOOLEAN
  /\ listeners = {}
  /\ emitted = [s \in Sessions |-> 0]
  /\ taken = [s \in Sessions |-> 0]
  /\ fired = [s \in Sessions |-> <<>>]
  /\ steps = 0
  /\ forked = FALSE

-----------------------------------------------------------------------------
(* What handlers of deluge.ui do to its state.                             *)
SetRunning(u) ==
  [u EXCEPT !.running = "live",
            !.strays = IF u.running = "live" THEN @ + 1 ELSE @]
ClearRunning(u) == [u EXCEPT !.running = "none"]
SetChecking(u) ==
  [u EXCEPT !.checking = "live",
            !.strayChecks = IF u.checking = "live" THEN @ + 1 ELSE @]
ClearChecking(u) == [u EXCEPT !.checking = "none"]

(* stop, on 'disconnect' and 'logout'                                      *)
StopUi(u) == ClearRunning(u)

OnUpdate(u, connected) ==
  IF connected THEN [SetRunning(ClearRunning(u)) EXCEPT !.errorCount = 0]
               ELSE StopUi(ClearRunning(u))

(* Mutant: leaves the id of the timer that ran.                            *)
OnUpdateError_KeepsRunning(u) ==
  LET told == IF u.errorCount = 2 THEN SetChecking(StopUi(u)) ELSE u
  IN  [told EXCEPT !.errorCount = IF @ < 3 THEN @ + 1 ELSE 3]

(* The third failure ends the polling for good and looks for the server.   *)
(* (errorCount is compared with 2 only, so that 3 stands for what is more.) *)
OnUpdateError(u) ==
  LET told == IF u.errorCount = 2 THEN SetChecking(StopUi(u)) ELSE u
  IN  ClearRunning([told EXCEPT !.errorCount = IF @ < 3 THEN @ + 1 ELSE 3])

OnConnectionSuccess(u) == SetRunning(ClearChecking(u))
OnConnectionError(u) == SetChecking(ClearChecking(u))

(* Starts polling, unless it is thought to be going on.                    *)
OnConnect ==
  IF ui.running = "none"
  THEN /\ ui' = SetRunning(ui)
       /\ requests' = requests (+) Call("update")
  ELSE UNCHANGED <<ui, requests>>

-----------------------------------------------------------------------------
(* The chain of polls: a request, held or not, its answer, the next one.   *)
Polls(bag) == {x \in BagToSet(bag) : x.kind = "events"}
Polling == \/ Polls(requests) # {} \/ Polls(answers) # {}
           \/ \E h \in BagToSet(held) : ~h.gone

(* EventsManager.start on 'login', which also looks for a connection.      *)
OnLogin ==
  /\ events' = [running |-> TRUE, errorCount |-> 0]
  /\ requests' = requests
       (+) (IF "events" \in follows THEN Call("register") (+) Call("events") ELSE EmptyBag)
       (+) (IF "updates" \in follows THEN Call("connected") ELSE EmptyBag)
  /\ forked' = (forked \/ Polling)

OnGetEventsSuccess(a) ==
  IF events.running
  THEN /\ fired' = IF a.first <= a.last
                   THEN [fired EXCEPT ![a.s] = @ \o [i \in 1..(a.last - a.first + 1) |->
                                                      a.first + i - 1]]
                   ELSE fired
       /\ requests' = requests (+) Call("events")
       /\ UNCHANGED forked
  ELSE /\ forked' = (forked \/ a.first <= a.last)
       /\ UNCHANGED <<fired, requests>>

(* Mutant: waits for the next login after any failure.                     *)
OnGetEventsFailure_NoRetry(a) ==
  /\ events' = [events EXCEPT !.errorCount = IF @ < 3 THEN @ + 1 ELSE 3]
  /\ forked' = (forked \/ a.first <= a.last)
  /\ UNCHANGED requests

(* A failure while the page polls, unless the request timed out, counts,   *)
(* and the fourth ends the polling: errorCount++ >= 3.                     *)
OnGetEventsFailure(a) ==
  \/ /\ ~events.running
     /\ forked' = (forked \/ a.first <= a.last)
     /\ UNCHANGED <<events, requests>>
  \/ /\ events.running
     /\ \/ /\ a.result = "error"         \* error.isTimeout
           /\ UNCHANGED events
        \/ /\ events.errorCount < 3
           /\ events' = [events EXCEPT !.errorCount = @ + 1]
     /\ requests' = requests (+) Call("events")
     /\ forked' = (forked \/ a.first <= a.last)
  \/ /\ events.running /\ events.errorCount = 3
     /\ events' = [events EXCEPT !.running = FALSE]
     /\ forked' = TRUE
     /\ UNCHANGED requests

-----------------------------------------------------------------------------
(* An answer reaches the page.  One that says "not authenticated" fires    *)
(* 'logout' and shows the login window before its own handler runs.        *)
Denied(a) == a.result = "denied"
Failed(a) == a.result \in {"error", "denied"}
Before(a) == IF Denied(a) THEN StopUi(ui) ELSE ui

AnswerToUi(a) ==
  \/ /\ a.kind = "update"
     /\ ui' = IF Failed(a) THEN OnUpdateError(Before(a))
                           ELSE OnUpdate(ui, a.result = "yes")
     /\ UNCHANGED requests
  \/ /\ a.kind = "check"
     /\ IF Failed(a)
        THEN ui' = OnConnectionError(Before(a)) /\ UNCHANGED requests
        ELSE ui' = OnConnectionSuccess(ui) /\ requests' = requests (+) Call("update")
  \/ /\ a.kind = "connected"          \* checkConnected
     /\ IF a.result = "yes" THEN OnConnect
                            ELSE ui' = Before(a) /\ UNCHANGED requests
  \/ /\ a.kind = "connect"            \* reloadMethods
     /\ ui' = Before(a)
     /\ requests' = IF Failed(a) THEN requests ELSE requests (+) Call("methods")
  \/ /\ a.kind = "methods"            \* the client is 'connected'
     /\ IF Failed(a) THEN ui' = Before(a) /\ UNCHANGED requests ELSE OnConnect
  \/ /\ a.kind = "disconnect"
     /\ ui' = IF Failed(a) THEN Before(a) ELSE StopUi(ui)
     /\ UNCHANGED requests

Arrive(a) ==
  /\ a \in BagToSet(answers)
  /\ answers' = Take(answers, a)
  /\ \/ /\ AnswerToUi(a)
        /\ loginShown' = (loginShown \/ Denied(a))
        /\ UNCHANGED <<events, cookie, fired, forked>>
     \/ /\ a.kind \in {"check_session", "login"}
        /\ IF a.result = "yes"
           THEN /\ OnLogin
                /\ cookie' = IF a.kind = "login" THEN a.s ELSE cookie
                /\ loginShown' = FALSE
           ELSE /\ loginShown' = (loginShown \/ a.kind = "check_session")
                /\ UNCHANGED <<events, cookie, requests, forked>>
        /\ UNCHANGED <<ui, fired>>
     \/ /\ a.kind \in {"delete_session", "register"}
        /\ ui' = Before(a)
        /\ loginShown' = (loginShown \/ Denied(a)
                            \/ (a.kind = "delete_session" /\ ~Failed(a)))
        /\ UNCHANGED <<events, cookie, requests, fired, forked>>
     \/ /\ a.kind = "events"
        /\ IF Failed(a)
           THEN OnGetEventsFailure(a) /\ UNCHANGED fired
           ELSE OnGetEventsSuccess(a) /\ UNCHANGED events
        /\ ui' = Before(a)
        /\ loginShown' = (loginShown \/ Denied(a))
        /\ UNCHANGED cookie
  /\ UNCHANGED <<serverVars, steps>>

(* The timers.                                                             *)
TimerUpdates ==
  \/ ui.running = "live" /\ ui' = [ui EXCEPT !.running = "fired"]
  \/ ui.strays > 0 /\ ui' = [ui EXCEPT !.strays = @ - 1]
TimerChecks ==
  \/ ui.checking = "live" /\ ui' = [ui EXCEPT !.checking = "fired"]
  \/ ui.strayChecks > 0 /\ ui' = [ui EXCEPT !.strayChecks = @ - 1]

Timer ==
  /\ InFlight < MaxRequests
  /\ \/ TimerUpdates /\ requests' = requests (+) Call("update")
     \/ TimerChecks /\ requests' = requests (+) Call("check")
  /\ UNCHANGED <<events, loginShown, cookie, serverVars, steps, answers, fired, forked>>

-----------------------------------------------------------------------------
(* The user.  The login button is there until the answer is.               *)
Step == steps < MaxSteps /\ steps' = steps + 1

UserLogin ==
  /\ Step
  /\ loginShown
  /\ created < MaxLogins
  /\ requests' = requests (+) Call("login")
  /\ UNCHANGED <<pageVars, serverVars, answers, fired, forked>>

UserLogout ==
  /\ Step
  /\ ~loginShown /\ cookie # 0
  /\ ui' = StopUi(ui)
  /\ requests' = requests (+) Call("delete_session")
  /\ UNCHANGED <<events, loginShown, cookie, serverVars, answers,
                 fired, forked>>

(* ConnectionManager.onConnect: Disconnect, Connect, or Connect while the  *)
(* list shows another daemon as connected, which sends both at once.       *)
UserConnects(kinds) ==
  /\ Step
  /\ "updates" \in follows
  /\ ~loginShown /\ cookie # 0
  /\ requests' = requests (+) SetToBag({[kind |-> k, s |-> cookie] : k \in kinds})
  /\ UNCHANGED <<pageVars, serverVars, answers, fired, forked>>

-----------------------------------------------------------------------------
(* The server.                                                             *)
Queued(s) == taken[s] < emitted[s]

(* What get_events returns: all that is in the queue of the session.       *)
EventsOf(s) ==
  SetToBag({[kind |-> "events", result |-> "yes", s |-> s,
             first |-> taken[s] + 1, last |-> emitted[s]]})
(* Mutant: the queue is left for the next request.                         *)
TakeEvents_Copy(s) == UNCHANGED taken

TakeEvents(s) == taken' = [taken EXCEPT ![s] = emitted[s]]

GetEvents(r) ==
  IF Queued(r.s)
  THEN /\ answers' = answers (+) EventsOf(r.s)
       /\ TakeEvents(r.s)
       /\ UNCHANGED held
  ELSE /\ held' = held (+) SetToBag({[s |-> r.s, gone |-> FALSE]})
       /\ UNCHANGED <<answers, taken>>

YesNo(b) == IF b THEN "yes" ELSE "no"
NeedsSession(kind) == kind \notin {"check_session", "login", "methods"}

Serve(r) ==
  /\ r \in BagToSet(requests)
  /\ requests' = Take(requests, r)
  /\ \/ /\ NeedsSession(r.kind) /\ r.s \notin sessions
        /\ answers' = answers (+) Reply(r.kind, "denied")
        /\ UNCHANGED serverVars
     \/ /\ r.kind = "check_session"
        /\ answers' = answers (+) Reply(r.kind, YesNo(r.s \in sessions))
        /\ UNCHANGED serverVars
     \/ /\ r.kind = "login"
        /\ created < MaxLogins
        /\ created' = created + 1
        /\ sessions' = sessions \cup {created'}
        /\ answers' = answers (+) SetToBag({[kind |-> "login", result |-> "yes",
                                           s |-> created', first |-> 1, last |-> 0]})
        /\ UNCHANGED <<follows, linked, listeners, emitted, taken, held>>
     \/ /\ r.kind = "methods"
        /\ answers' = answers (+) Reply(r.kind, "yes")
        /\ UNCHANGED serverVars
     \/ /\ r.s \in sessions
        /\ \/ /\ r.kind \in {"update", "check", "connected"}
              /\ answers' = answers (+) Reply(r.kind, YesNo(linked))
              /\ UNCHANGED serverVars
           \/ /\ r.kind = "delete_session"
              /\ sessions' = sessions \ {r.s}
              /\ answers' = answers (+) Reply(r.kind, "yes")
              /\ UNCHANGED <<follows, created, linked, listeners, emitted, taken, held>>
           \/ /\ r.kind = "connect"     \* a failure is answered as well
              /\ linked' \in BOOLEAN
              /\ answers' = answers (+) Reply(r.kind, "yes")
              /\ UNCHANGED <<follows, sessions, created, listeners, emitted, taken, held>>
           \/ /\ r.kind = "disconnect"  \* answered when the connection is lost
              /\ linked' = FALSE
              /\ answers' = answers (+) Reply(r.kind, "yes")
              /\ UNCHANGED <<follows, sessions, created, listeners, emitted, taken, held>>
           \/ /\ r.kind = "register"
              /\ listeners' = listeners \cup {r.s}
              /\ answers' = answers (+) Reply(r.kind, "yes")
              /\ UNCHANGED <<follows, sessions, created, linked, emitted, taken, held>>
           \/ /\ r.kind = "events"
              /\ GetEvents(r)
              /\ UNCHANGED <<follows, sessions, created, linked, listeners, emitted>>
  /\ UNCHANGED <<pageVars, steps, fired, forked>>

(* _get_events, every 100 ms and 50 times at most.  The answer to a page   *)
(* that is gone is not sent.                                               *)
HeldAnswers(h) ==
  /\ h \in BagToSet(held)
  /\ held' = Take(held, h)
  /\ \/ /\ Queued(h.s)
        /\ TakeEvents(h.s)
        /\ answers' = IF h.gone THEN answers ELSE answers (+) EventsOf(h.s)
     \/ /\ ~Queued(h.s)
        /\ answers' = IF h.gone THEN answers ELSE answers (+) Reply("events", "yes")
        /\ UNCHANGED taken
  /\ UNCHANGED <<follows, sessions, created, linked, listeners, emitted>>
  /\ UNCHANGED <<pageVars, steps, requests, fired, forked>>

(* An event of the daemon.                                                 *)
OnEvent ==
  /\ linked
  /\ listeners # {} /\ \A s \in listeners : emitted[s] < MaxEvents
  /\ emitted' = [s \in Sessions |-> IF s \in listeners THEN emitted[s] + 1
                                                       ELSE emitted[s]]
  /\ UNCHANGED <<follows, sessions, created, linked, listeners, taken, held>>
  /\ UNCHANGED <<pageVars, steps, requests, answers, fired, forked>>

-----------------------------------------------------------------------------
(* What may go wrong.                                                      *)
FailRequest(r) ==
  /\ Step
  /\ r \in BagToSet(requests)
  /\ requests' = Take(requests, r)
  /\ answers' = answers (+) Reply(r.kind, "error")
  /\ UNCHANGED <<pageVars, serverVars, fired, forked>>

FailAnswer(a) ==
  /\ Step
  /\ a \in BagToSet(answers)
  /\ answers' = Take(answers, a) (+) SetToBag({[a EXCEPT !.result = "error"]})
  /\ UNCHANGED <<pageVars, serverVars, requests, fired, forked>>

FailHeld(h) ==
  /\ Step
  /\ h \in BagToSet(held) /\ ~h.gone
  /\ held' = Take(held, h) (+) SetToBag({[h EXCEPT !.gone = TRUE]})
  /\ answers' = answers (+) Reply("events", "error")
  /\ forked' = TRUE
  /\ UNCHANGED <<pageVars, follows, sessions, created, linked, listeners, emitted, taken, requests, fired>>

(* The sessions expire, or a change of the password ends them.             *)
SessionsEnd ==
  /\ Step
  /\ sessions' = {}
  /\ UNCHANGED <<pageVars, follows, created, linked, listeners, emitted, taken, held, requests, answers, fired, forked>>

DaemonLost ==
  /\ Step
  /\ linked' = FALSE
  /\ UNCHANGED <<pageVars, follows, sessions, created, listeners, emitted, taken, held, requests, answers, fired, forked>>

(* The page is loaded again.  A poll the server holds does not know.       *)
Reload ==
  /\ Step
  /\ ui' = NoUi
  /\ events' = [running |-> FALSE, errorCount |-> 0]
  /\ loginShown' = FALSE
  /\ requests' = Call("check_session")
  /\ answers' = EmptyBag
  /\ held' = BagOfAll(LAMBDA h : [h EXCEPT !.gone = TRUE], held)
  /\ forked' = (forked \/ held # EmptyBag \/ \E a \in Polls(answers) : a.first <= a.last)
  /\ UNCHANGED <<cookie, follows, sessions, created, linked, listeners, emitted, taken, fired>>

Next ==
  \/ \E a \in BagToSet(answers) : Arrive(a) \/ FailAnswer(a)
  \/ \E r \in BagToSet(requests) : Serve(r) \/ FailRequest(r)
  \/ \E h \in BagToSet(held) : HeldAnswers(h) \/ FailHeld(h)
  \/ Timer
  \/ UserLogin \/ UserLogout
  \/ \E kinds \in {{"connect"}, {"disconnect"}, {"connect", "disconnect"}} :
       UserConnects(kinds)
  \/ OnEvent
  \/ SessionsEnd \/ DaemonLost \/ Reload

(* The server and the page run, and polls are answered.                    *)
Fairness ==
  /\ WF_vars(\E a \in Polls(answers) : Arrive(a))
  /\ WF_vars(\E r \in Polls(requests) : Serve(r))
  /\ WF_vars(\E h \in BagToSet(held) : ~h.gone /\ HeldAnswers(h))

Spec == Init /\ [][Next]_vars /\ Fairness

-----------------------------------------------------------------------------
(* As long as `running' is set, somebody will set it again: its timer is   *)
(* live or the answer to an update is still to come.  onConnect relies on  *)
(* that when it leaves a poll alone that seems to run.                     *)
RunningMeansPolling ==
  ui.running = "fired" =>
    \E x \in BagToSet(requests) \cup BagToSet(answers) : x.kind = "update"

(* An event is fired once at most, whatever happens; and as long as the    *)
(* chain of polls is one chain that did not break, the page fires all      *)
(* events in the order in which they happened: what left the queue has     *)
(* been fired or is the answer under way.                                  *)
Carried(s) == {n \in 1..MaxEvents : \E a \in Polls(answers) :
                                      a.s = s /\ n \in a.first..a.last}
EventsInOrder ==
  \A s \in Sessions :
    /\ \A i, j \in DOMAIN fired[s] : fired[s][i] = fired[s][j] => i = j
    /\ ~forked => /\ fired[s] = [i \in 1..Len(fired[s]) |-> i]
                  /\ Carried(s) = (Len(fired[s]) + 1)..taken[s]

(* An event gets to the page whose session registered it.                  *)
EventsGetThere ==
  \A n \in 1..MaxEvents :
    emitted[1] >= n ~> \/ Len(fired[1]) >= n
                       \/ forked \/ cookie # 1 \/ 1 \notin sessions
                       \/ ~events.running

-----------------------------------------------------------------------------
(* UI.js:34 "handles the 2 second poll": a page that is logged in to a     *)
(* server with a daemon polls, or looks for the server.  After one update  *)
(* that failed (UI.js:174), or one question for the connection that did    *)
(* (ConnectionManager.js:137), it does neither.                            *)
PollsWhileConnected ==
  requests = EmptyBag /\ answers = EmptyBag /\ ~loginShown /\ linked /\ cookie \in sessions
    => ui.running # "none" \/ ui.checking = "live"

(* UI.js:298 "Stop the Deluge UI polling the server": the answer to an     *)
(* update that was under way starts it again (UI.js:195).                  *)
StopStops ==
  [][\A a \in BagToSet(answers) :
       Arrive(a) /\ a.kind = "update" /\ ui.running = "none"
         => ui'.running = "none"]_vars

(* EventsManager.js:66: nothing stops the chain of polls at a logout, and  *)
(* the next login starts another one.                                      *)
OnePoll ==
  Cardinality(Polls(requests)) + Cardinality(Polls(answers))
    + Cardinality({h \in BagToSet(held) : ~h.gone}) <= 1

-----------------------------------------------------------------------------
(* Behind RunningMeansPolling and EventsInOrder: the parts of an inductive  *)
(* invariant.                                                              *)
Kinds == {"check_session", "login", "delete_session", "methods", "connected",
          "connect", "disconnect", "update", "check", "register", "events"}
Requests == [kind : Kinds, s : 0..MaxLogins]
Answers == [kind : Kinds, result : {"yes", "no", "denied", "error"},
            s : 0..MaxLogins, first : Nat, last : Nat]
HeldPolls == [s : Sessions, gone : BOOLEAN]
BagOf(bag, S) == IsABag(bag) /\ BagToSet(bag) \subseteq S

UiStates == [running : {"none", "live", "fired"}, strays : Nat,
             checking : {"none", "live", "fired"}, strayChecks : Nat,
             errorCount : 0..3]

TypesOK ==
  /\ BagOf(requests, Requests) /\ BagOf(answers, Answers)
  /\ BagToSet(held) \subseteq HeldPolls
  /\ cookie \in 0..MaxLogins /\ created \in 0..MaxLogins
  /\ sessions \subseteq Sessions /\ listeners \subseteq Sessions
  /\ emitted \in [Sessions -> 0..MaxEvents] /\ taken \in [Sessions -> 0..MaxEvents]
  /\ \A s \in Sessions : taken[s] <= emitted[s]
  /\ fired \in [Sessions -> Seq(Nat)]

(* An event that left the queue was fired, or one answer carries it, or it *)
(* is lost.                                                                *)
Carries(a) == a.first <= a.last

EventsApart ==
  /\ \A s \in Sessions : \A i, j \in 1..Len(fired[s]) :
       fired[s][i] \in 1..taken[s] /\ (fired[s][i] = fired[s][j] => i = j)
  /\ \A a \in BagToSet(answers) : Carries(a) =>
       /\ a.kind = "events" /\ a.s \in Sessions
       /\ 1 <= a.first /\ a.last <= taken[a.s]
       /\ answers[a] = 1
       /\ \A i \in 1..Len(fired[a.s]) : fired[a.s][i] \notin a.first..a.last
       /\ \A b \in BagToSet(answers) :
            Carries(b) /\ b.s = a.s /\ b # a => a.last < b.first \/ b.last < a.first

(* As long as the chain of polls is one, a poll is in one place.           *)
Alone(bag, polls) == \A x, y \in polls : x = y /\ bag[x] = 1

OneChain ==
  /\ Alone(requests, Polls(requests))
  /\ Alone(answers, Polls(answers))
  /\ IsABag(held) /\ Alone(held, BagToSet(held)) /\ \A h \in BagToSet(held) : ~h.gone
  /\ Polls(requests) # {} => Polls(answers) = {} /\ BagToSet(held) = {}
  /\ Polls(answers) # {} => BagToSet(held) = {}

(* What left the queue of a session and was not fired is carried by the    *)
(* answer under way.                                                       *)
NothingMissed ==
  /\ \A s \in Sessions : \A i \in 1..Len(fired[s]) : fired[s][i] = i
  /\ \A s \in Sessions : \/ Len(fired[s]) = taken[s]
                         \/ \E a \in BagToSet(answers) : Carries(a) /\ a.s = s
  /\ \A a \in BagToSet(answers) :
       Carries(a) => a.first = Len(fired[a.s]) + 1 /\ a.last = taken[a.s]

IndInv ==
  /\ ui \in UiStates /\ TypesOK
  /\ RunningMeansPolling
  /\ EventsApart
  /\ ~forked => OneChain /\ NothingMissed
=============================================================================
