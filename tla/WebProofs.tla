------------------------------ MODULE WebProofs ------------------------------
(***************************************************************************)
(* The page of the Web UI fires every event once and in order, and does    *)
(* not take a poll for running that nobody continues; and what is applied  *)
(* in its details panel is for the selected torrent: for any sessions,     *)
(* torrents, options and bounds.                                           *)
(***************************************************************************)
EXTENDS WebClient, TorrentDetails, SequenceTheorems, TLAPS

-----------------------------------------------------------------------------
(* A bag with more in it: the elements of both, those of one as often as   *)
(* there.                                                                  *)
LEMMA BagPlus ==
  ASSUME NEW B, NEW C, IsABag(B), IsABag(C)
  PROVE  /\ IsABag(B (+) C)
         /\ BagToSet(B (+) C) = BagToSet(B) \cup BagToSet(C)
         /\ \A x \in BagToSet(B) \ BagToSet(C) : (B (+) C)[x] = B[x]
         /\ \A x \in BagToSet(C) \ BagToSet(B) : (B (+) C)[x] = C[x]
BY DEF IsABag, BagToSet, (+)

(* The bag of one or several different elements.                           *)
LEMMA BagOfSet ==
  ASSUME NEW S
  PROVE  /\ IsABag(SetToBag(S)) /\ BagToSet(SetToBag(S)) = S
         /\ \A x \in S : SetToBag(S)[x] = 1
BY DEF IsABag, BagToSet, SetToBag

(* The empty bag.                                                          *)
LEMMA BagOfNothing == IsABag(EmptyBag) /\ BagToSet(EmptyBag) = {}
BY BagOfSet DEF EmptyBag

(* One copy of an element is taken out of a bag.                           *)
LEMMA BagTake ==
  ASSUME NEW B, IsABag(B), NEW x \in BagToSet(B)
  PROVE  /\ IsABag(Take(B, x))
         /\ BagToSet(Take(B, x)) \subseteq BagToSet(B)
         /\ B[x] = 1 => x \notin BagToSet(Take(B, x))
         /\ \A y \in BagToSet(B) : y # x => y \in BagToSet(Take(B, x))
                                            /\ Take(B, x)[y] = B[y]
BY DEF IsABag, BagToSet, SetToBag, Take, (-)

(* The same where only the elements matter.                                *)
LEMMA BagElements ==
  ASSUME NEW B, NEW C, NEW x
  PROVE  /\ BagToSet(B (+) C) = BagToSet(B) \cup BagToSet(C)
         /\ BagToSet(Take(B, x)) \subseteq BagToSet(B)
BY DEF BagToSet, SetToBag, Take, (+), (-)

(* One element more in a bag.                                              *)
LEMMA BagAdd ==
  ASSUME NEW B, NEW x
  PROVE  BagToSet(B (+) SetToBag({x})) = BagToSet(B) \cup {x}
<1>1. BagToSet(SetToBag({x})) = {x}
  BY BagOfSet
<1> QED
  BY <1>1, BagElements

(* Bags of elements of a set.                                              *)
LEMMA BagsOf ==
  ASSUME NEW S, NEW B, BagOf(B, S)
  PROVE  /\ \A C : BagOf(C, S) => BagOf(B (+) C, S)
         /\ \A x \in BagToSet(B) : x \in S /\ BagOf(Take(B, x), S)
BY BagPlus, BagTake DEF BagOf

(* A bag of some of them.                                                  *)
LEMMA BagOfSome ==
  ASSUME NEW S, NEW T, T \subseteq S
  PROVE  BagOf(SetToBag(T), S) /\ BagOf(EmptyBag, S)
BY BagOfSet, BagOfNothing DEF BagOf

(* A call carries a cookie that is a session or none.                      *)
LEMMA CallOf ==
  ASSUME cookie \in 0..MaxLogins, NEW kind \in Kinds
  PROVE  /\ BagOf(Call(kind), Requests)
         /\ \A x \in BagToSet(Call(kind)) : x.kind = kind
<1>1. [kind |-> kind, s |-> cookie] \in Requests
  BY DEF Requests
<1> QED
  BY <1>1, BagOfSome, BagOfSet DEF Call

(* What the server, or a failure, sends back.                              *)
LEMMA ReplyOf ==
  ASSUME NEW kind \in Kinds, NEW result \in {"yes", "no", "denied", "error"}
  PROVE  /\ BagOf(Reply(kind, result), Answers)
         /\ \A x \in BagToSet(Reply(kind, result)) :
              x.kind = kind /\ ~Carries(x)
<1> DEFINE x == [kind |-> kind, result |-> result, s |-> 0, first |-> 1, last |-> 0]
<1>1. x \in Answers /\ x.kind = kind /\ ~Carries(x)
  BY WebAssumption DEF Answers, Carries
<1>2. Reply(kind, result) = SetToBag({x})
  BY DEF Reply
<1> HIDE DEF x
<1> QED
  BY <1>1, <1>2, BagOfSome, BagOfSet

(* What get_events takes out of a queue.                                   *)
LEMMA EventsOfOf ==
  ASSUME TypesOK, NEW s \in Sessions
  PROVE  /\ BagOf(EventsOf(s), Answers)
         /\ BagToSet(EventsOf(s)) =
              {[kind |-> "events", result |-> "yes", s |-> s,
                first |-> taken[s] + 1, last |-> emitted[s]]}
         /\ \A x \in BagToSet(EventsOf(s)) : EventsOf(s)[x] = 1
<1> DEFINE x == [kind |-> "events", result |-> "yes", s |-> s,
                 first |-> taken[s] + 1, last |-> emitted[s]]
<1>1. x \in Answers
  BY WebAssumption, SMTT(30) DEF TypesOK, Answers, Kinds, Sessions
<1>2. EventsOf(s) = SetToBag({x})
  BY DEF EventsOf
<1> HIDE DEF x
<1>3. BagOf(EventsOf(s), Answers) /\ BagToSet(EventsOf(s)) = {x}
      /\ \A y \in {x} : EventsOf(s)[y] = 1
  BY <1>1, <1>2, BagOfSome, BagOfSet
<1> QED
  BY <1>3 DEF x

-----------------------------------------------------------------------------
(* Types: an answer reaches the page.                                      *)
LEMMA ArriveTypes ==
  ASSUME TypesOK, NEW a, Arrive(a)
  PROVE  TypesOK'
<1>1. /\ a \in Answers /\ BagOf(answers', Answers)
      /\ BagOf(requests, Requests) /\ cookie \in 0..MaxLogins
  BY BagsOf DEF Arrive, TypesOK
<1>2. cookie' \in 0..MaxLogins
  BY <1>1 DEF Arrive, Answers
<1>3. BagOf(requests', Requests)
  <2>1. ASSUME NEW kind \in Kinds, requests' = requests (+) Call(kind)
        PROVE  BagOf(requests', Requests)
    BY <1>1, <2>1, BagsOf, CallOf
  <2>2. CASE OnLogin
    <3> DEFINE X == IF "events" \in follows THEN Call("register") (+) Call("events")
                                            ELSE EmptyBag
               Y == IF "updates" \in follows THEN Call("connected") ELSE EmptyBag
    <3>1. BagOf(Call("register"), Requests) /\ BagOf(Call("events"), Requests)
          /\ BagOf(Call("connected"), Requests) /\ BagOf(EmptyBag, Requests)
      BY <1>1, CallOf, BagOfSome DEF Kinds
    <3>2. BagOf(X, Requests) /\ BagOf(Y, Requests)
      BY <3>1, BagsOf
    <3>3. requests' = (requests (+) X) (+) Y
      BY <2>2 DEF OnLogin
    <3> HIDE DEF X, Y
    <3>4. BagOf(requests (+) X, Requests)
      BY <1>1, <3>2, BagsOf
    <3> QED
      BY <3>2, <3>3, <3>4, BagsOf
  <2>3. \/ requests' = requests
        \/ OnLogin
        \/ \E kind \in Kinds : requests' = requests (+) Call(kind)
    <3>1. {"update", "methods", "events"} \subseteq Kinds
      BY DEF Kinds
    <3> QED
      BY <3>1 DEF Arrive, AnswerToUi, OnConnect, OnGetEventsSuccess, OnGetEventsFailure
  <2> QED
    BY <1>1, <2>1, <2>2, <2>3
<1>4. fired' \in [Sessions -> Seq(Nat)]
  <2>1. fired \in [Sessions -> Seq(Nat)]
    BY DEF TypesOK
  <2>2. CASE UNCHANGED fired
    BY <2>1, <2>2
  <2>3. CASE fired' = [fired EXCEPT ![a.s] = @ \o [i \in 1..(a.last - a.first + 1) |->
                                                    a.first + i - 1]]
             /\ a.first <= a.last
    <3>1. a.first \in Nat /\ a.last \in Nat
      BY <1>1 DEF Answers
    <3>2. a.last - a.first + 1 \in Nat
      BY <2>3, <3>1
    <3>3. [i \in 1..(a.last - a.first + 1) |-> a.first + i - 1] \in Seq(Nat)
      <4> DEFINE f == [i \in 1..(a.last - a.first + 1) |-> a.first + i - 1]
      <4>1. f \in [1..(a.last - a.first + 1) -> Nat]
        BY <3>1
      <4> QED
        BY <3>2, <4>1, IsASeq
    <3>4. CASE a.s \in Sessions
      <4>1. fired[a.s] \o [i \in 1..(a.last - a.first + 1) |-> a.first + i - 1] \in Seq(Nat)
        BY <2>1, <3>3, <3>4, ConcatProperties
      <4> QED
        BY <2>1, <2>3, <3>4, <4>1
    <3>5. CASE a.s \notin Sessions
      BY <2>1, <2>3, <3>5
    <3> QED
      BY <3>4, <3>5
  <2> QED
    BY <2>2, <2>3 DEF Arrive, OnGetEventsSuccess
<1>5. UNCHANGED serverVars
  BY DEF Arrive
<1> QED
  BY <1>1, <1>2, <1>3, <1>4, <1>5 DEF TypesOK, serverVars

(* Types: the server answers a request, now or later.                      *)
LEMMA ServeTypes ==
  ASSUME TypesOK, NEW r, Serve(r)
  PROVE  TypesOK'
<1>0. /\ BagOf(answers, Answers) /\ BagToSet(held) \subseteq HeldPolls
      /\ sessions \subseteq Sessions /\ created \in 0..MaxLogins
      /\ \A s \in Sessions : taken[s] \in 0..MaxEvents /\ emitted[s] \in 0..MaxEvents
      /\ taken \in [Sessions -> 0..MaxEvents]
      /\ BagOf(requests, Requests)
  BY DEF TypesOK
<1>1. r \in Requests /\ r.kind \in Kinds /\ BagOf(requests', Requests)
  <2>1. r \in BagToSet(requests) /\ requests' = Take(requests, r)
    BY DEF Serve
  <2>2. r \in Requests /\ BagOf(requests', Requests)
    BY <1>0, <2>1, BagsOf
  <2> QED
    BY <2>2 DEF Requests
<1>2. \A b : {YesNo(b), "denied"} \subseteq {"yes", "no", "denied", "error"}
  BY DEF YesNo
<1>3. ASSUME NEW x, BagOf(x, Answers), answers' = answers (+) x
      PROVE  BagOf(answers', Answers)
  BY <1>0, <1>1, <1>3, BagsOf
<1>4. ASSUME NEW result \in {"yes", "no", "denied", "error"},
             answers' = answers (+) Reply(r.kind, result)
      PROVE  BagOf(answers', Answers)
  BY <1>0, <1>1, <1>3, <1>4, ReplyOf
<1>5. UNCHANGED <<cookie, fired>>
  BY DEF Serve, pageVars
<1>6. CASE UNCHANGED serverVars
           /\ \E result \in {"yes", "no", "denied", "error"} :
                answers' = answers (+) Reply(r.kind, result)
  BY <1>0, <1>1, <1>4, <1>5, <1>6 DEF TypesOK, serverVars
<1>7. CASE r.kind = "login" /\ created < MaxLogins
           /\ created' = created + 1
           /\ sessions' = sessions \cup {created'}
           /\ answers' = answers (+) SetToBag({[kind |-> "login", result |-> "yes",
                                              s |-> created', first |-> 1, last |-> 0]})
           /\ UNCHANGED <<follows, linked, listeners, emitted, taken, held>>
  <2> DEFINE x == [kind |-> "login", result |-> "yes", s |-> created', first |-> 1, last |-> 0]
  <2>1. created' \in Sessions /\ created' \in 0..MaxLogins
    BY <1>0, <1>1, <1>7, WebAssumption DEF Sessions
  <2>2. {x} \subseteq Answers
    BY <2>1 DEF Answers, Kinds
  <2>3. answers' = answers (+) SetToBag({x})
    BY <1>7
  <2> HIDE DEF x
  <2>4. BagOf(answers', Answers)
    BY <1>3, <2>2, <2>3, BagOfSome
  <2> QED
    BY <1>0, <1>1, <1>5, <1>7, <2>1, <2>4 DEF TypesOK
<1>8. CASE r.s \in sessions /\ r.kind = "events" /\ GetEvents(r)
           /\ UNCHANGED <<follows, sessions, created, linked, listeners, emitted>>
  <2>1. r.s \in Sessions
    BY <1>0, <1>1, <1>8
  <2>2. CASE Queued(r.s) /\ answers' = answers (+) EventsOf(r.s)
             /\ TakeEvents(r.s) /\ UNCHANGED held
    <3>1. BagOf(answers', Answers)
      BY <1>3, <2>1, <2>2, EventsOfOf
    <3>2. /\ taken' \in [Sessions -> 0..MaxEvents]
          /\ \A s \in Sessions : taken'[s] <= emitted[s]
      BY <1>0, <1>1, <2>1, <2>2, WebAssumption DEF TakeEvents, TypesOK
    <3> QED
      BY <1>0, <1>1, <1>5, <1>8, <2>2, <3>1, <3>2 DEF TypesOK
  <2>3. CASE held' = held (+) SetToBag({[s |-> r.s, gone |-> FALSE]})
             /\ UNCHANGED <<answers, taken>>
    <3>1. {[s |-> r.s, gone |-> FALSE]} \subseteq HeldPolls
      BY <2>1 DEF HeldPolls
    <3>2. BagToSet(held') = BagToSet(held) \cup {[s |-> r.s, gone |-> FALSE]}
      BY <2>3, BagAdd
    <3> QED
      BY <1>0, <1>1, <1>5, <1>8, <2>3, <3>1, <3>2 DEF TypesOK
  <2> QED
    BY <1>8, <2>2, <2>3 DEF GetEvents
<1>9. CASE /\ r.s \in sessions
           /\ \E result \in {"yes", "no", "denied", "error"} :
                answers' = answers (+) Reply(r.kind, result)
           /\ sessions' \subseteq sessions /\ listeners' \subseteq listeners \cup {r.s}
           /\ UNCHANGED <<created, emitted, taken, held>>
  BY <1>0, <1>1, <1>4, <1>5, <1>9 DEF TypesOK
<1>10. CASE r.s \in sessions
  <2> USE <1>10
  <2>1. CASE r.kind \in {"update", "check", "connected"}
             /\ answers' = answers (+) Reply(r.kind, YesNo(linked)) /\ UNCHANGED serverVars
    BY <1>2, <1>6, <2>1
  <2>2. CASE r.kind = "delete_session" /\ sessions' = sessions \ {r.s}
             /\ answers' = answers (+) Reply(r.kind, "yes")
             /\ UNCHANGED <<follows, created, linked, listeners, emitted, taken, held>>
    BY <1>9, <2>2
  <2>3. CASE r.kind \in {"connect", "disconnect"}
             /\ answers' = answers (+) Reply(r.kind, "yes")
             /\ UNCHANGED <<follows, sessions, created, listeners, emitted, taken, held>>
    BY <1>9, <2>3
  <2>4. CASE r.kind = "register" /\ listeners' = listeners \cup {r.s}
             /\ answers' = answers (+) Reply(r.kind, "yes")
             /\ UNCHANGED <<follows, sessions, created, linked, emitted, taken, held>>
    BY <1>9, <2>4
  <2>5. CASE r.kind \in {"check_session", "methods", "login"}
    BY <1>2, <1>6, <1>7, <2>5 DEF Serve, NeedsSession
  <2>6. CASE r.kind = "events"
    BY <1>8, <2>6 DEF Serve, NeedsSession
  <2> QED
    BY <2>1, <2>2, <2>3, <2>4, <2>5, <2>6 DEF Serve, NeedsSession
<1>11. CASE r.s \notin sessions
  BY <1>2, <1>6, <1>7, <1>11 DEF Serve
<1> QED
  BY <1>10, <1>11

(* Types: _get_events of a poll that waits.                                *)
LEMMA HeldTypes ==
  ASSUME TypesOK, NEW h, HeldAnswers(h)
  PROVE  TypesOK'
<1>1. /\ BagOf(answers, Answers) /\ BagToSet(held) \subseteq HeldPolls
      /\ taken \in [Sessions -> 0..MaxEvents]
      /\ \A s \in Sessions : taken[s] \in 0..MaxEvents /\ emitted[s] \in 0..MaxEvents
  BY DEF TypesOK
<1>2. h \in BagToSet(held) /\ held' = Take(held, h)
  BY DEF HeldAnswers
<1>3. BagToSet(held') \subseteq HeldPolls /\ h.s \in Sessions
  <2>1. h \in HeldPolls /\ BagToSet(held') \subseteq HeldPolls
    BY <1>1, <1>2, BagElements
  <2> QED
    BY <2>1 DEF HeldPolls
<1>4. BagOf(answers', Answers)
  <2>1. BagOf(EventsOf(h.s), Answers)
    BY <1>3, EventsOfOf
  <2>2. BagOf(Reply("events", "yes"), Answers)
    BY ReplyOf DEF Kinds
  <2>3. answers' \in {answers, answers (+) EventsOf(h.s), answers (+) Reply("events", "yes")}
    BY DEF HeldAnswers
  <2> QED
    BY <1>1, <2>1, <2>2, <2>3, BagsOf
<1>5. /\ taken' \in [Sessions -> 0..MaxEvents]
      /\ \A s \in Sessions : taken'[s] <= emitted[s]
  <2>1. \/ taken' = taken
        \/ taken' = [taken EXCEPT ![h.s] = emitted[h.s]]
    BY DEF HeldAnswers, TakeEvents
  <2>2. CASE taken' = taken
    BY <2>2 DEF TypesOK
  <2>3. CASE taken' = [taken EXCEPT ![h.s] = emitted[h.s]]
    BY <1>1, <1>3, <2>3, WebAssumption DEF TypesOK
  <2> QED
    BY <2>1, <2>2, <2>3
<1>6. UNCHANGED <<sessions, created, listeners, emitted, cookie, requests, fired>>
  BY DEF HeldAnswers, pageVars
<1> QED
  BY <1>3, <1>4, <1>5, <1>6 DEF TypesOK

(* Types: a request, an answer or a poll that waits fails.                 *)
LEMMA FailTypes ==
  ASSUME TypesOK,
         \/ \E r \in BagToSet(requests) : FailRequest(r)
         \/ \E a \in BagToSet(answers) : FailAnswer(a)
         \/ \E h \in BagToSet(held) : FailHeld(h)
  PROVE  TypesOK'
<1>1. BagOf(requests, Requests) /\ BagOf(answers, Answers) /\ BagToSet(held) \subseteq HeldPolls
  BY DEF TypesOK
<1> DEFINE Kept ==
      /\ UNCHANGED <<cookie, created, sessions, listeners, emitted, taken, fired>>
      /\ BagOf(requests', Requests) /\ BagOf(answers', Answers)
      /\ BagToSet(held') \subseteq HeldPolls
<1>2. Kept
  <2>1. ASSUME NEW r \in BagToSet(requests), FailRequest(r)
        PROVE  Kept
    <3>1. /\ requests' = Take(requests, r) /\ answers' = answers (+) Reply(r.kind, "error")
          /\ UNCHANGED <<held, cookie, created, sessions, listeners, emitted, taken, fired>>
      BY <2>1 DEF FailRequest, pageVars, serverVars
    <3>2. r \in Requests /\ BagOf(requests', Requests)
      BY <1>1, <3>1, BagsOf
    <3>3. r.kind \in Kinds
      BY <3>2 DEF Requests
    <3>4. BagOf(Reply(r.kind, "error"), Answers)
      BY <3>3, ReplyOf
    <3> QED
      BY <1>1, <3>1, <3>2, <3>4, BagsOf
  <2>2. ASSUME NEW a \in BagToSet(answers), FailAnswer(a)
        PROVE  Kept
    <3>1. /\ answers' = Take(answers, a) (+) SetToBag({[a EXCEPT !.result = "error"]})
          /\ UNCHANGED <<held, requests, cookie, created, sessions, listeners, emitted,
                         taken, fired>>
      BY <2>2 DEF FailAnswer, pageVars, serverVars
    <3>2. a \in Answers /\ BagOf(Take(answers, a), Answers)
      BY <1>1, BagsOf
    <3>3. {[a EXCEPT !.result = "error"]} \subseteq Answers
      BY <3>2 DEF Answers
    <3>4. BagOf(SetToBag({[a EXCEPT !.result = "error"]}), Answers)
      BY <3>3, BagOfSome
    <3> QED
      BY <1>1, <3>1, <3>2, <3>4, BagsOf
  <2>3. ASSUME NEW h \in BagToSet(held), FailHeld(h)
        PROVE  Kept
    <3>1. /\ held' = Take(held, h) (+) SetToBag({[h EXCEPT !.gone = TRUE]})
          /\ answers' = answers (+) Reply("events", "error")
          /\ UNCHANGED <<requests, cookie, created, sessions, listeners, emitted,
                         taken, fired>>
      BY <2>3 DEF FailHeld, pageVars
    <3>2. h \in HeldPolls
      BY <1>1
    <3>3. {[h EXCEPT !.gone = TRUE]} \subseteq HeldPolls
      BY <3>2 DEF HeldPolls
    <3>4. BagToSet(held') \subseteq HeldPolls
      <4>1. BagToSet(held') = BagToSet(Take(held, h)) \cup {[h EXCEPT !.gone = TRUE]}
        BY <3>1, BagAdd
      <4>2. BagToSet(Take(held, h)) \subseteq BagToSet(held)
        BY BagElements
      <4> QED
        BY <1>1, <3>3, <4>1, <4>2
    <3>5. BagOf(Reply("events", "error"), Answers)
      BY ReplyOf DEF Kinds
    <3> QED
      BY <1>1, <3>1, <3>2, <3>4, <3>5, BagsOf
  <2> QED
    BY <2>1, <2>2, <2>3
<1> QED
  BY <1>2 DEF TypesOK

(* Types: a timer or the user calls the server.                            *)
LEMMA CallTypes ==
  ASSUME TypesOK,
         NEW calls, BagOf(calls, Requests),
         requests' = requests (+) calls,
         UNCHANGED <<answers, held, cookie, created, sessions, listeners, emitted,
                     taken, fired>>
  PROVE  TypesOK'
<1>1. BagOf(requests', Requests)
  BY BagsOf DEF TypesOK
<1> QED
  BY <1>1 DEF TypesOK

(* What the timers and the user call the server for.                       *)
LEMMA UserTypes ==
  ASSUME TypesOK,
         \/ Timer \/ UserLogin \/ UserLogout
         \/ \E kinds \in {{"connect"}, {"disconnect"}, {"connect", "disconnect"}} :
              UserConnects(kinds)
  PROVE  TypesOK'
<1>1. cookie \in 0..MaxLogins
  BY DEF TypesOK
<1>2. UNCHANGED <<answers, held, cookie, created, sessions, listeners, emitted,
                  taken, fired>>
  BY DEF Timer, UserLogin, UserLogout, UserConnects, pageVars, serverVars
<1>3. CASE \E kind \in Kinds : requests' = requests (+) Call(kind)
  BY <1>1, <1>2, <1>3, CallOf, CallTypes
<1>4. CASE \E kinds \in {{"connect"}, {"disconnect"}, {"connect", "disconnect"}} :
             UserConnects(kinds)
  <2>1. PICK kinds \in {{"connect"}, {"disconnect"}, {"connect", "disconnect"}} :
          requests' = requests (+) SetToBag({[kind |-> k, s |-> cookie] : k \in kinds})
    BY <1>4 DEF UserConnects
  <2>2. {[kind |-> k, s |-> cookie] : k \in kinds} \subseteq Requests
    BY <1>1 DEF Requests, Kinds
  <2>3. BagOf(SetToBag({[kind |-> k, s |-> cookie] : k \in kinds}), Requests)
    BY <2>2, BagOfSome
  <2> QED
    BY <1>2, <2>1, <2>3, CallTypes
<1>5. {"update", "check", "login", "delete_session"} \subseteq Kinds
  BY DEF Kinds
<1> QED
  BY <1>3, <1>4, <1>5 DEF Timer, UserLogin, UserLogout

(* What a poll that waits in the server knows of a page that is loaded     *)
(* again: nothing.                                                         *)
LEMMA AllGone ==
  BagToSet(BagOfAll(LAMBDA h : [h EXCEPT !.gone = TRUE], held)) =
    {[h EXCEPT !.gone = TRUE] : h \in BagToSet(held)}
BY DEF BagToSet, BagOfAll

(* Types: the page is loaded again; an event of the daemon; sessions and   *)
(* daemons end.                                                            *)
LEMMA ServerTypes ==
  ASSUME TypesOK, Reload \/ OnEvent \/ SessionsEnd \/ DaemonLost
  PROVE  TypesOK'
<1>1. CASE Reload
  <2>1. BagOf(requests', Requests)
    <3>1. requests' = Call("check_session") /\ "check_session" \in Kinds
      BY <1>1 DEF Reload, Kinds
    <3> QED
      BY <3>1, CallOf DEF TypesOK
  <2>2. BagOf(answers', Answers)
    BY <1>1, BagOfSome DEF Reload
  <2>3. BagToSet(held') = {[h EXCEPT !.gone = TRUE] : h \in BagToSet(held)}
    BY <1>1, AllGone DEF Reload
  <2>4. BagToSet(held') \subseteq HeldPolls
    BY <2>3 DEF TypesOK, HeldPolls
  <2>5. UNCHANGED <<cookie, created, sessions, listeners, emitted, taken, fired>>
    BY <1>1 DEF Reload
  <2> QED
    BY <2>1, <2>2, <2>4, <2>5 DEF TypesOK
<1>2. CASE OnEvent
  <2>1. /\ UNCHANGED <<requests, answers, held, cookie, created, sessions, listeners,
                       taken, fired>>
        /\ emitted' = [s \in Sessions |-> IF s \in listeners THEN emitted[s] + 1
                                                             ELSE emitted[s]]
        /\ \A s \in listeners : emitted[s] < MaxEvents
    BY <1>2 DEF OnEvent, pageVars
  <2>2. /\ emitted' \in [Sessions -> 0..MaxEvents]
        /\ \A s \in Sessions : taken[s] <= emitted'[s]
    BY <2>1, WebAssumption DEF TypesOK
  <2> QED
    BY <2>1, <2>2 DEF TypesOK
<1>3. CASE SessionsEnd \/ DaemonLost
  <2>1. /\ UNCHANGED <<requests, answers, held, cookie, created, listeners, emitted,
                       taken, fired>>
        /\ sessions' \subseteq sessions
    BY <1>3 DEF SessionsEnd, DaemonLost, pageVars
  <2> QED
    BY <2>1 DEF TypesOK
<1> QED
  BY <1>1, <1>2, <1>3

(* Types of a fresh page.                                                  *)
LEMMA InitTypes == Init => TypesOK
<1> SUFFICES ASSUME Init PROVE TypesOK
  OBVIOUS
<1>1. cookie \in 0..MaxLogins /\ created \in 0..MaxLogins /\ sessions \subseteq Sessions
  BY WebAssumption DEF Init, Sessions
<1>2. BagOf(requests, Requests)
  <2>1. requests = Call("check_session") /\ "check_session" \in Kinds
    BY DEF Init, Kinds
  <2> QED
    BY <1>1, <2>1, CallOf
<1>3. BagOf(answers, Answers) /\ BagToSet(held) = {}
  BY BagOfSome, BagOfNothing DEF Init
<1> QED
  BY <1>1, <1>2, <1>3, WebAssumption DEF Init, TypesOK

(* Every step keeps the types.                                             *)
LEMMA NextTypes ==
  ASSUME TypesOK, [Next]_vars
  PROVE  TypesOK'
<1>1. CASE UNCHANGED vars
  BY <1>1 DEF TypesOK, vars, pageVars, serverVars
<1>2. ASSUME NEW a, Arrive(a)
      PROVE  TypesOK'
  BY <1>2, ArriveTypes
<1>3. ASSUME NEW r, Serve(r)
      PROVE  TypesOK'
  BY <1>3, ServeTypes
<1>4. ASSUME NEW h, HeldAnswers(h)
      PROVE  TypesOK'
  BY <1>4, HeldTypes
<1> QED
  BY <1>1, <1>2, <1>3, <1>4, FailTypes, UserTypes, ServerTypes DEF Next

-----------------------------------------------------------------------------
(* What handlers do to the timers of the page.                             *)
LEMMA UiHandlers ==
  ASSUME NEW u \in UiStates
  PROVE  /\ SetRunning(u) \in UiStates /\ SetRunning(u).running = "live"
         /\ ClearRunning(u) \in UiStates /\ ClearRunning(u).running = "none"
         /\ StopUi(u) \in UiStates /\ StopUi(u).running = "none"
         /\ SetChecking(u) \in UiStates /\ SetChecking(u).running = u.running
         /\ ClearChecking(u) \in UiStates /\ ClearChecking(u).running = u.running
<1> USE DEF UiStates
<1>1. SetRunning(u) \in UiStates /\ SetRunning(u).running = "live"
  <2> DEFINE n == IF u.running = "live" THEN u.strays + 1 ELSE u.strays
  <2>1. n \in Nat
    OBVIOUS
  <2>2. SetRunning(u) = [u EXCEPT !.running = "live", !.strays = n]
    BY DEF SetRunning
  <2> HIDE DEF n
  <2> QED
    BY <2>1, <2>2
<1>2. ClearRunning(u) \in UiStates /\ ClearRunning(u).running = "none"
  BY DEF ClearRunning
<1>3. SetChecking(u) \in UiStates /\ SetChecking(u).running = u.running
  <2> DEFINE n == IF u.checking = "live" THEN u.strayChecks + 1 ELSE u.strayChecks
  <2>1. n \in Nat
    OBVIOUS
  <2>2. SetChecking(u) = [u EXCEPT !.checking = "live", !.strayChecks = n]
    BY DEF SetChecking
  <2> HIDE DEF n
  <2> QED
    BY <2>1, <2>2
<1>4. ClearChecking(u) \in UiStates /\ ClearChecking(u).running = u.running
  BY DEF ClearChecking
<1> QED
  BY <1>1, <1>2, <1>3, <1>4 DEF StopUi

(* What the answers to updates and checks do to the timers.                *)
LEMMA UiAnswers ==
  ASSUME NEW u \in UiStates, NEW b
  PROVE  /\ OnUpdateError(u) \in UiStates /\ OnUpdateError(u).running = "none"
         /\ OnUpdate(u, b) \in UiStates /\ OnUpdate(u, b).running # "fired"
         /\ OnConnectionSuccess(u) \in UiStates /\ OnConnectionSuccess(u).running = "live"
         /\ OnConnectionError(u) \in UiStates /\ OnConnectionError(u).running = u.running
<1>1. OnUpdateError(u) \in UiStates /\ OnUpdateError(u).running = "none"
  <2> DEFINE told == IF u.errorCount = 2 THEN SetChecking(StopUi(u)) ELSE u
  <2>1. told \in UiStates
    BY UiHandlers
  <2>2. OnUpdateError(u) =
          ClearRunning([told EXCEPT !.errorCount = IF @ < 3 THEN @ + 1 ELSE 3])
    BY DEF OnUpdateError
  <2> HIDE DEF told
  <2>3. [told EXCEPT !.errorCount = IF @ < 3 THEN @ + 1 ELSE 3] \in UiStates
    BY <2>1 DEF UiStates
  <2> QED
    BY <2>2, <2>3, UiHandlers
<1>2. OnUpdate(u, b) \in UiStates /\ OnUpdate(u, b).running # "fired"
  <2>1. SetRunning(ClearRunning(u)) \in UiStates
        /\ SetRunning(ClearRunning(u)).running = "live"
    BY UiHandlers
  <2> DEFINE v == SetRunning(ClearRunning(u))
  <2>2. v \in UiStates /\ v.running = "live"
    BY <2>1
  <2> HIDE DEF v
  <2>3. [v EXCEPT !.errorCount = 0] \in UiStates
        /\ [v EXCEPT !.errorCount = 0].running = "live"
    BY <2>2 DEF UiStates
  <2>4. StopUi(ClearRunning(u)) \in UiStates /\ StopUi(ClearRunning(u)).running = "none"
    BY UiHandlers
  <2> QED
    BY <2>3, <2>4 DEF OnUpdate, v
<1> QED
  BY <1>1, <1>2, UiHandlers DEF OnConnectionSuccess, OnConnectionError

(* An answer that says "not authenticated" stops the polls.                *)
LEMMA BeforeUi ==
  ASSUME ui \in UiStates, NEW a
  PROVE  Before(a) \in UiStates /\ (Before(a).running = "fired" => ui.running = "fired")
BY UiHandlers DEF Before

(* A request or an answer that goes on its way, and others that stay.      *)
LEMMA PollGoesOn ==
  ASSUME RunningMeansPolling,
         ui'.running = "fired" => ui.running = "fired",
         \A x \in BagToSet(requests) \cup BagToSet(answers) : x.kind = "update" =>
           \E y \in BagToSet(requests') \cup BagToSet(answers') : y.kind = "update"
  PROVE  RunningMeansPolling'
BY DEF RunningMeansPolling

(* What is not taken out of a bag stays there.                             *)
LEMMA OthersStay ==
  ASSUME NEW B, IsABag(B), NEW x \in BagToSet(B)
  PROVE  \A y \in BagToSet(B) : y # x => y \in BagToSet(Take(B, x))
BY BagTake

(* The page takes an answer.                                               *)
LEMMA ArriveUi ==
  ASSUME ui \in UiStates, NEW a, Arrive(a)
  PROVE  /\ ui' \in UiStates
         /\ ui'.running = "fired" => a.kind # "update" /\ ui.running = "fired"
<1>1. CASE AnswerToUi(a)
  <2>1. CASE a.kind = "update"
    BY <1>1, <2>1, UiAnswers, BeforeUi DEF AnswerToUi
  <2>2. CASE a.kind # "update"
    <3>1. OnConnect => ui' \in UiStates /\ (ui'.running = "fired" => ui.running = "fired")
      BY UiHandlers DEF OnConnect
    <3>2. \/ ui' \in {Before(a), OnConnectionError(Before(a)), OnConnectionSuccess(ui),
                     StopUi(ui)}
          \/ OnConnect
      BY <1>1, <2>2 DEF AnswerToUi
    <3>3. Before(a) \in UiStates
      BY BeforeUi
    <3>4. OnConnectionError(Before(a)) \in UiStates
          /\ OnConnectionError(Before(a)).running = Before(a).running
      BY <3>3, UiAnswers
    <3>5. OnConnectionSuccess(ui) \in UiStates /\ OnConnectionSuccess(ui).running = "live"
      BY UiAnswers
    <3>6. StopUi(ui) \in UiStates /\ StopUi(ui).running = "none"
      BY UiHandlers
    <3> QED
      BY <2>2, <3>1, <3>2, <3>3, <3>4, <3>5, <3>6, BeforeUi
  <2> QED
    BY <2>1, <2>2
<1>2. CASE ui' \in {ui, Before(a)} /\ a.kind # "update"
  BY <1>2, BeforeUi
<1> QED
  BY <1>1, <1>2 DEF Arrive

(* Somebody polls after an answer.                                         *)
LEMMA ArrivePolling ==
  ASSUME ui \in UiStates, TypesOK, RunningMeansPolling, NEW a, Arrive(a)
  PROVE  RunningMeansPolling'
<1>1. /\ a \in BagToSet(answers) /\ answers' = Take(answers, a)
      /\ IsABag(answers) /\ IsABag(requests)
  BY DEF Arrive, TypesOK, BagOf
<1>2. CASE a.kind = "update"
  BY <1>2, ArriveUi DEF RunningMeansPolling
<1>3. CASE a.kind # "update"
  <2>1. \A x \in BagToSet(answers) : x.kind = "update" => x \in BagToSet(answers')
    BY <1>1, <1>3, OthersStay
  <2>2. BagToSet(requests) \subseteq BagToSet(requests')
    <3>1. \/ requests' = requests
          \/ \E calls : requests' = requests (+) calls
          \/ \E calls, more : requests' = (requests (+) calls) (+) more
      BY DEF Arrive, AnswerToUi, OnConnect, OnGetEventsSuccess, OnGetEventsFailure, OnLogin
    <3> QED
      BY <3>1, BagElements
  <2>3. ui'.running = "fired" => ui.running = "fired"
    BY ArriveUi
  <2> QED
    BY <2>1, <2>2, <2>3, PollGoesOn
<1> QED
  BY <1>2, <1>3

(* The server answers what it is asked, and so does a failure.             *)
LEMMA ServePolling ==
  ASSUME TypesOK, RunningMeansPolling,
         NEW r \in BagToSet(requests), Serve(r) \/ FailRequest(r)
  PROVE  RunningMeansPolling'
<1>1. IsABag(requests) /\ requests' = Take(requests, r) /\ UNCHANGED ui /\ r.kind \in Kinds
  BY DEF TypesOK, BagOf, Requests, Serve, FailRequest, pageVars
<1>2. BagToSet(answers) \subseteq BagToSet(answers')
  <2>1. answers' = answers \/ \E more : answers' = answers (+) more
    BY DEF Serve, FailRequest, GetEvents
  <2> QED
    BY <2>1, BagElements
<1>3. r.kind = "update" => \E y \in BagToSet(answers') : y.kind = "update"
  <2> SUFFICES ASSUME r.kind = "update"
               PROVE  \E y \in BagToSet(answers') : y.kind = "update"
    OBVIOUS
  <2>1. \E result : answers' = answers (+) Reply("update", result)
    BY DEF Serve, FailRequest
  <2>2. PICK result : answers' = answers (+) Reply("update", result)
    BY <2>1
  <2> DEFINE y == [kind |-> "update", result |-> result, s |-> 0, first |-> 1, last |-> 0]
  <2>3. y.kind = "update" /\ Reply("update", result) = SetToBag({y})
    BY DEF Reply
  <2> HIDE DEF y
  <2>4. y \in BagToSet(answers')
    BY <2>2, <2>3, BagAdd, ZenonT(40)
  <2> QED
    BY <2>3, <2>4
<1>4. \A x \in BagToSet(requests) : x # r => x \in BagToSet(requests')
  BY <1>1, OthersStay
<1> QED
  BY <1>1, <1>2, <1>3, <1>4, PollGoesOn

(* An answer that gets lost is one that failed.                            *)
LEMMA FailAnswerPolling ==
  ASSUME TypesOK, RunningMeansPolling, NEW a \in BagToSet(answers), FailAnswer(a)
  PROVE  RunningMeansPolling'
<1> DEFINE e == [a EXCEPT !.result = "error"]
<1>1. IsABag(answers) /\ a \in Answers /\ UNCHANGED <<ui, requests>>
  BY DEF TypesOK, BagOf, FailAnswer, pageVars
<1>2. e.kind = a.kind /\ answers' = Take(answers, a) (+) SetToBag({e})
  BY <1>1 DEF FailAnswer, Answers
<1> HIDE DEF e
<1>3. BagToSet(answers') = BagToSet(Take(answers, a)) \cup {e}
  BY <1>2, BagAdd
<1>4. \A x \in BagToSet(answers) : x # a => x \in BagToSet(answers')
  BY <1>1, <1>3, OthersStay
<1> QED
  BY <1>1, <1>2, <1>3, <1>4, PollGoesOn

(* A timer that runs is "fired" from then on.                              *)
LEMMA TimerUi ==
  ASSUME ui \in UiStates
  PROVE  /\ TimerUpdates => ui' \in UiStates
         /\ TimerChecks => ui' \in UiStates /\ ui'.running = ui.running
BY DEF TimerUpdates, TimerChecks, UiStates

(* A timer that ran has sent an update.                                    *)
LEMMA TimerPolling ==
  ASSUME ui \in UiStates, TypesOK, RunningMeansPolling, Timer
  PROVE  RunningMeansPolling'
<1>1. UNCHANGED answers
  BY DEF Timer
<1>2. CASE requests' = requests (+) Call("update")
  <2> DEFINE y == [kind |-> "update", s |-> cookie]
  <2>1. y.kind = "update" /\ Call("update") = SetToBag({y})
    BY DEF Call
  <2> HIDE DEF y
  <2>2. y \in BagToSet(requests')
    BY <1>2, <2>1, BagAdd
  <2> QED
    BY <2>1, <2>2 DEF RunningMeansPolling
<1>3. CASE TimerChecks /\ requests' = requests (+) Call("check")
  <2>1. ui'.running = ui.running
    BY <1>3, TimerUi
  <2>2. BagToSet(requests) \subseteq BagToSet(requests')
    BY <1>3, BagElements
  <2> QED
    BY <1>1, <2>1, <2>2, PollGoesOn
<1> QED
  BY <1>2, <1>3 DEF Timer

(* Every step keeps somebody polling.                                      *)
LEMMA NextPolling ==
  ASSUME ui \in UiStates, TypesOK, RunningMeansPolling, [Next]_vars
  PROVE  ui' \in UiStates /\ RunningMeansPolling'
<1>1. ASSUME \/ UNCHANGED requests
             \/ \E more : requests' = requests (+) more,
             \/ UNCHANGED answers
             \/ \E more : answers' = answers (+) more,
             UNCHANGED ui \/ ui' = StopUi(ui)
      PROVE  ui' \in UiStates /\ RunningMeansPolling'
  <2>1. BagToSet(requests) \subseteq BagToSet(requests')
        /\ BagToSet(answers) \subseteq BagToSet(answers')
    <3>1. BagToSet(requests) \subseteq BagToSet(requests')
      BY <1>1, BagElements
    <3>2. BagToSet(answers) \subseteq BagToSet(answers')
      BY <1>1, BagElements
    <3> QED
      BY <3>1, <3>2
  <2>2. ui' \in UiStates /\ (ui'.running = "fired" => ui.running = "fired")
    BY <1>1, UiHandlers
  <2> QED
    BY <2>1, <2>2, PollGoesOn
<1>2. CASE UNCHANGED vars
  BY <1>1, <1>2 DEF vars, pageVars
<1>3. CASE UserLogin \/ UserLogout \/ OnEvent \/ SessionsEnd \/ DaemonLost
           \/ \E kinds \in {{"connect"}, {"disconnect"}, {"connect", "disconnect"}} :
                UserConnects(kinds)
  <2>1. /\ UNCHANGED answers /\ (UNCHANGED ui \/ ui' = StopUi(ui))
        /\ UNCHANGED requests \/ \E more : requests' = requests (+) more
    BY <1>3
    DEF UserLogin, UserLogout, OnEvent, SessionsEnd, DaemonLost, UserConnects, pageVars
  <2> QED
    BY <1>1, <2>1
<1>4. CASE \E h \in BagToSet(held) : HeldAnswers(h) \/ FailHeld(h)
  <2>1. /\ UNCHANGED <<ui, requests>>
        /\ UNCHANGED answers \/ \E more : answers' = answers (+) more
    BY <1>4 DEF HeldAnswers, FailHeld, pageVars
  <2> QED
    BY <1>1, <2>1
<1>5. CASE Reload
  <2>1. ui' = NoUi
    BY <1>5 DEF Reload
  <2> QED
    BY <2>1 DEF NoUi, UiStates, RunningMeansPolling
<1>6. ASSUME NEW r \in BagToSet(requests), Serve(r) \/ FailRequest(r)
      PROVE  ui' = ui
  BY <1>6 DEF Serve, FailRequest, pageVars
<1>7. ASSUME NEW a \in BagToSet(answers), FailAnswer(a)
      PROVE  ui' = ui
  BY <1>7 DEF FailAnswer, pageVars
<1>8. Timer => ui' \in UiStates
  BY TimerUi DEF Timer
<1> QED
  BY <1>2, <1>3, <1>4, <1>5, <1>6, <1>7, <1>8, ArriveUi, ArrivePolling, ServePolling,
     FailAnswerPolling, TimerPolling
  DEF Next

-----------------------------------------------------------------------------
(* Answers that carry no events leave those that do alone.                 *)
LEMMA PlusEmptyHanded ==
  ASSUME NEW B, NEW C, IsABag(B), IsABag(C), \A x \in BagToSet(C) : ~Carries(x)
  PROVE  \A b \in BagToSet(B (+) C) : Carries(b) => b \in BagToSet(B) /\ (B (+) C)[b] = B[b]
BY BagPlus

(* An answer that carries events is there once, and gone when it is taken. *)
LEMMA TakeCarrier ==
  ASSUME NEW B, IsABag(B), NEW x \in BagToSet(B), Carries(x) => B[x] = 1
  PROVE  \A b \in BagToSet(Take(B, x)) : Carries(b) =>
           b # x /\ b \in BagToSet(B) /\ Take(B, x)[b] = B[b]
<1>1. /\ BagToSet(Take(B, x)) \subseteq BagToSet(B)
      /\ B[x] = 1 => x \notin BagToSet(Take(B, x))
      /\ \A y \in BagToSet(B) : y # x => Take(B, x)[y] = B[y]
  BY BagTake
<1> QED
  BY <1>1

(* Queues that get emptier, and no new answers with events.                *)
LEMMA ApartKept ==
  ASSUME TypesOK, TypesOK', EventsApart, UNCHANGED fired,
         \A s \in Sessions : taken[s] <= taken'[s],
         \A b \in BagToSet(answers') : Carries(b) =>
           b \in BagToSet(answers) /\ answers'[b] = answers[b]
  PROVE  EventsApart'
<1>1. \A s \in Sessions : taken[s] \in Nat /\ taken'[s] \in Nat
  BY WebAssumption DEF TypesOK
<1>2. \A a \in BagToSet(answers) : a.first \in Nat /\ a.last \in Nat
  BY DEF TypesOK, BagOf, Answers
<1>3. ASSUME NEW s \in Sessions, NEW i \in 1..Len(fired[s]), NEW j \in 1..Len(fired[s])
      PROVE  fired[s][i] \in 1..taken'[s] /\ (fired[s][i] = fired[s][j] => i = j)
  BY <1>1, <1>3 DEF EventsApart
<1>4. ASSUME NEW a \in BagToSet(answers'), Carries(a)
      PROVE  /\ a.kind = "events" /\ a.s \in Sessions
             /\ 1 <= a.first /\ a.last <= taken'[a.s]
             /\ answers'[a] = 1
             /\ \A i \in 1..Len(fired[a.s]) : fired[a.s][i] \notin a.first..a.last
             /\ \A b \in BagToSet(answers') :
                  Carries(b) /\ b.s = a.s /\ b # a => a.last < b.first \/ b.last < a.first
  <2>1. a \in BagToSet(answers) /\ answers'[a] = answers[a]
    BY <1>4
  <2>2. /\ a.kind = "events" /\ a.s \in Sessions
        /\ 1 <= a.first /\ a.last <= taken[a.s] /\ answers[a] = 1
        /\ \A i \in 1..Len(fired[a.s]) : fired[a.s][i] \notin a.first..a.last
    BY <1>4, <2>1 DEF EventsApart
  <2>3. \A b \in BagToSet(answers') :
          Carries(b) /\ b.s = a.s /\ b # a => a.last < b.first \/ b.last < a.first
    BY <1>4, <2>1 DEF EventsApart
  <2>4. a.last <= taken'[a.s]
    BY <1>1, <1>2, <2>1, <2>2
  <2> QED
    BY <2>1, <2>2, <2>3, <2>4
<1> QED
  BY <1>3, <1>4 DEF EventsApart, Carries

(* What the page fires had been carried by the answer only.                *)
LEMMA ApartFired ==
  ASSUME TypesOK, TypesOK', EventsApart, NEW a \in BagToSet(answers), Carries(a),
         answers' = Take(answers, a), UNCHANGED taken,
         fired' = [fired EXCEPT ![a.s] = @ \o [i \in 1..(a.last - a.first + 1) |->
                                                 a.first + i - 1]]
  PROVE  EventsApart'
<1> DEFINE more == [i \in 1..(a.last - a.first + 1) |-> a.first + i - 1]
<1>1. /\ a.first \in Nat /\ a.last \in Nat /\ a.first <= a.last
      /\ IsABag(answers) /\ fired \in [Sessions -> Seq(Nat)]
      /\ \A s \in Sessions : taken[s] \in Nat
  <2>1. MaxEvents \in Nat
    BY WebAssumption
  <2>2. a \in Answers
    BY DEF TypesOK, BagOf
  <2>3. a.first \in Nat /\ a.last \in Nat
    BY <2>2 DEF Answers
  <2>4. IsABag(answers) /\ fired \in [Sessions -> Seq(Nat)]
    BY DEF TypesOK, BagOf
  <2>5. \A s \in Sessions : taken[s] \in 0..MaxEvents
    BY DEF TypesOK
  <2> QED
    BY <2>1, <2>3, <2>4, <2>5 DEF Carries
<1>2. /\ a.s \in Sessions /\ 1 <= a.first /\ a.last <= taken[a.s] /\ answers[a] = 1
      /\ \A i \in 1..Len(fired[a.s]) : fired[a.s][i] \notin a.first..a.last
  BY DEF EventsApart
<1>3. /\ more \in Seq(Nat) /\ Len(more) = a.last - a.first + 1
      /\ \A i \in 1..Len(more) : more[i] = a.first + i - 1
  <2>1. a.last - a.first + 1 \in Nat
    BY <1>1
  <2>2. more \in [1..(a.last - a.first + 1) -> Nat]
    BY <1>1
  <2>3. more \in Seq(Nat)
    BY <2>1, <2>2, IsASeq
  <2>4. Len(more) = a.last - a.first + 1
    BY <2>1, <2>2, <2>3, LenProperties
  <2> QED
    BY <2>3, <2>4
<1>4. fired' = [fired EXCEPT ![a.s] = fired[a.s] \o more]
  OBVIOUS
<1> HIDE DEF more
<1> DEFINE old == fired[a.s]
<1>5. /\ old \in Seq(Nat) /\ Len(old) \in Nat
      /\ Len(old \o more) = Len(old) + Len(more)
      /\ \A i \in 1..(Len(old) + Len(more)) :
           (old \o more)[i] = IF i <= Len(old) THEN old[i] ELSE more[i - Len(old)]
  <2>1. old \in Seq(Nat)
    BY <1>1, <1>2
  <2> HIDE DEF old
  <2>2. /\ Len(old \o more) = Len(old) + Len(more)
        /\ \A i \in 1..(Len(old) + Len(more)) :
             (old \o more)[i] = IF i <= Len(old) THEN old[i] ELSE more[i - Len(old)]
    BY <1>3, <2>1, ConcatProperties
  <2>3. Len(old) \in Nat
    BY <2>1, LenProperties
  <2> QED
    BY <2>1, <2>2, <2>3
<1>6. \A i \in 1..Len(old) : old[i] \in 1..taken[a.s]
  BY <1>2 DEF EventsApart
<1>7. ASSUME NEW i \in 1..Len(old \o more)
      PROVE  \/ i \in 1..Len(old) /\ (old \o more)[i] = old[i]
             \/ i \in (Len(old) + 1)..(Len(old) + Len(more))
                /\ (old \o more)[i] = a.first + (i - Len(old)) - 1
                /\ (old \o more)[i] \in a.first..a.last
  <2> DEFINE n == Len(old) m == Len(more)
  <2>1. n \in Nat /\ m \in Nat /\ m = a.last - a.first + 1 /\ i \in 1..(n + m)
    BY <1>1, <1>3, <1>5, <1>7
  <2>2. CASE i <= n
    BY <1>5, <2>1, <2>2
  <2>3. CASE ~(i <= n)
    <3>1. i \in (n + 1)..(n + m) /\ i - n \in 1..m
      BY <2>1, <2>3
    <3>2. (old \o more)[i] = more[i - n]
      BY <1>5, <2>1, <2>3
    <3>3. more[i - n] = a.first + (i - n) - 1
      BY <1>3, <3>1
    <3> HIDE DEF n, m
    <3>4. a.first + (i - n) - 1 \in a.first..a.last
      BY <1>1, <2>1, <3>1, SMTT(30)
    <3> USE DEF n, m
    <3> QED
      BY <3>1, <3>2, <3>3, <3>4
  <2> QED
    BY <2>2, <2>3
<1>8. fired'[a.s] = old \o more /\ \A s \in Sessions \ {a.s} : fired'[s] = fired[s]
  BY <1>1, <1>2, <1>4
<1>9. ASSUME NEW s \in Sessions, NEW i \in 1..Len(fired'[s]), NEW j \in 1..Len(fired'[s])
      PROVE  fired'[s][i] \in 1..taken'[s] /\ (fired'[s][i] = fired'[s][j] => i = j)
  <2>1. CASE s # a.s
    BY <1>8, <1>9, <2>1 DEF EventsApart
  <2>2. CASE s = a.s
    <3>1. i \in 1..Len(old \o more) /\ j \in 1..Len(old \o more)
      BY <1>8, <2>2
    <3>2. (old \o more)[i] \in 1..taken[a.s]
      <4>1. CASE i \in 1..Len(old) /\ (old \o more)[i] = old[i]
        BY <1>6, <4>1
      <4>2. CASE (old \o more)[i] \in a.first..a.last
        <5>1. taken[a.s] \in Nat /\ 1 <= a.first /\ a.last <= taken[a.s]
          BY <1>1, <1>2
        <5>2. \A n \in a.first..a.last : n \in 1..taken[a.s]
          BY <1>1, <5>1
        <5> QED
          BY <4>2, <5>2
      <4> QED
        BY <1>7, <3>1, <4>1, <4>2
    <3>3. ASSUME (old \o more)[i] = (old \o more)[j]
          PROVE  i = j
      <4>1. CASE i \in 1..Len(old) /\ j \in 1..Len(old)
        BY <1>2, <1>7, <3>1, <3>3, <4>1 DEF EventsApart
      <4>2. CASE i \notin 1..Len(old) /\ j \notin 1..Len(old)
        <5>1. /\ i \in Int /\ j \in Int /\ Len(old) \in Int /\ a.first \in Int
          BY <1>1, <1>5, <3>1
        <5>2. (old \o more)[i] = a.first + (i - Len(old)) - 1
          BY <1>7, <3>1, <4>2
        <5>3. (old \o more)[j] = a.first + (j - Len(old)) - 1
          BY <1>7, <3>1, <4>2
        <5>4. a.first + (i - Len(old)) - 1 = a.first + (j - Len(old)) - 1
          BY <3>3, <5>2, <5>3
        <5> HIDE DEF old
        <5> QED
          BY <5>1, <5>4
      <4>3. CASE i \in 1..Len(old) /\ j \notin 1..Len(old)
        BY <1>2, <1>7, <3>1, <3>3, <4>3
      <4>4. CASE i \notin 1..Len(old) /\ j \in 1..Len(old)
        BY <1>2, <1>7, <3>1, <3>3, <4>4
      <4> QED
        BY <4>1, <4>2, <4>3, <4>4
    <3> QED
      BY <1>8, <2>2, <3>2, <3>3
  <2> QED
    BY <2>1, <2>2
<1>10. \A b \in BagToSet(answers') : Carries(b) =>
         b # a /\ b \in BagToSet(answers) /\ answers'[b] = answers[b]
  BY <1>1, <1>2, TakeCarrier
<1>11. ASSUME NEW b \in BagToSet(answers'), Carries(b)
       PROVE  /\ b.kind = "events" /\ b.s \in Sessions
              /\ 1 <= b.first /\ b.last <= taken'[b.s]
              /\ answers'[b] = 1
              /\ \A i \in 1..Len(fired'[b.s]) : fired'[b.s][i] \notin b.first..b.last
              /\ \A c \in BagToSet(answers') :
                   Carries(c) /\ c.s = b.s /\ c # b => b.last < c.first \/ c.last < b.first
  <2>1. b # a /\ b \in BagToSet(answers) /\ answers'[b] = answers[b]
    BY <1>10, <1>11
  <2>2. /\ b.kind = "events" /\ b.s \in Sessions
        /\ 1 <= b.first /\ b.last <= taken'[b.s]
        /\ answers'[b] = 1
        /\ \A i \in 1..Len(fired[b.s]) : fired[b.s][i] \notin b.first..b.last
    BY <1>11, <2>1 DEF EventsApart
  <2>3. \A c \in BagToSet(answers') :
          Carries(c) /\ c.s = b.s /\ c # b => b.last < c.first \/ c.last < b.first
    BY <1>10, <1>11, <2>1 DEF EventsApart
  <2>4. \A i \in 1..Len(fired'[b.s]) : fired'[b.s][i] \notin b.first..b.last
    <3>1. CASE b.s # a.s
      BY <1>8, <2>2, <3>1
    <3>2. CASE b.s = a.s
      <4>1. a.last < b.first \/ b.last < a.first
        BY <1>11, <2>1, <3>2 DEF EventsApart
      <4>2. b.first \in Nat /\ b.last \in Nat
        BY <2>1 DEF TypesOK, BagOf, Answers
      <4>3. \A n \in a.first..a.last : n \notin b.first..b.last
        BY <1>1, <4>1, <4>2
      <4> QED
        BY <1>7, <1>8, <2>2, <3>2, <4>3
    <3> QED
      BY <3>1, <3>2
  <2> QED
    BY <2>2, <2>3, <2>4
<1> QED
  BY <1>9, <1>11 DEF EventsApart, Carries

(* A new answer carries what no answer carried and the page never saw.     *)
LEMMA ApartTaken ==
  ASSUME TypesOK, TypesOK', EventsApart,
         NEW s \in Sessions, Queued(s), TakeEvents(s),
         answers' = answers (+) EventsOf(s), UNCHANGED fired
  PROVE  EventsApart'
<1> DEFINE x == [kind |-> "events", result |-> "yes", s |-> s,
                 first |-> taken[s] + 1, last |-> emitted[s]]
<1>1. /\ \A t \in Sessions : taken[t] \in Nat /\ emitted[t] \in Nat
      /\ taken \in [Sessions -> 0..MaxEvents]
  BY WebAssumption DEF TypesOK
<1>2. /\ x.kind = "events" /\ x.s = s
      /\ x.first = taken[s] + 1 /\ x.last = emitted[s]
      /\ taken[s] < emitted[s]
  BY DEF Queued
<1>3. /\ IsABag(answers) /\ IsABag(EventsOf(s)) /\ BagToSet(EventsOf(s)) = {x}
      /\ EventsOf(s)[x] = 1
  BY EventsOfOf DEF TypesOK, BagOf
<1>4. taken'[s] = emitted[s] /\ \A t \in Sessions \ {s} : taken'[t] = taken[t]
  BY <1>1 DEF TakeEvents
<1> HIDE DEF x
<1>5. ASSUME NEW b \in BagToSet(answers), Carries(b)
      PROVE  /\ b.kind = "events" /\ b.s \in Sessions
             /\ b.first \in Nat /\ b.last \in Nat /\ b.first <= b.last
             /\ 1 <= b.first /\ b.last <= taken[b.s]
             /\ answers[b] = 1
             /\ \A i \in 1..Len(fired[b.s]) : fired[b.s][i] \notin b.first..b.last
             /\ b # x
  <2>1. b.first \in Nat /\ b.last \in Nat /\ b.first <= b.last
    BY <1>5 DEF TypesOK, BagOf, Answers, Carries
  <2>2. /\ b.kind = "events" /\ b.s \in Sessions
        /\ 1 <= b.first /\ b.last <= taken[b.s] /\ answers[b] = 1
        /\ \A i \in 1..Len(fired[b.s]) : fired[b.s][i] \notin b.first..b.last
    BY <1>5 DEF EventsApart
  <2>3. b # x
    BY <1>1, <1>2, <2>1, <2>2
  <2> QED
    BY <2>1, <2>2, <2>3
<1>6. ASSUME NEW b \in BagToSet(answers'), Carries(b)
      PROVE  \/ b = x /\ answers'[b] = 1
             \/ b # x /\ b \in BagToSet(answers) /\ answers'[b] = answers[b]
  <2>1. BagToSet(answers') = BagToSet(answers) \cup {x}
    BY <1>3, BagPlus
  <2>2. \A y \in BagToSet(answers) \ {x} : answers'[y] = answers[y]
    BY <1>3, BagPlus
  <2>3. x \notin BagToSet(answers) => answers'[x] = 1
    BY <1>3, BagPlus
  <2> QED
    BY <1>5, <1>6, <2>1, <2>2, <2>3
<1>7. \A t \in Sessions : taken[t] <= taken'[t] /\ taken'[t] \in Nat
  BY <1>1, <1>2, <1>4
<1>8. \A i \in 1..Len(fired[s]) : fired[s][i] \notin x.first..x.last
  <2>1. \A i \in 1..Len(fired[s]) : fired[s][i] \in 1..taken[s]
    BY DEF EventsApart
  <2>2. \A n \in 1..taken[s] : n \notin x.first..x.last
    BY <1>1, <1>2
  <2> QED
    BY <2>1, <2>2
<1>9. ASSUME NEW t \in Sessions, NEW i \in 1..Len(fired[t]), NEW j \in 1..Len(fired[t])
      PROVE  fired[t][i] \in 1..taken'[t] /\ (fired[t][i] = fired[t][j] => i = j)
  BY <1>1, <1>7, <1>9 DEF EventsApart
<1>10. ASSUME NEW b \in BagToSet(answers'), Carries(b), b # x
       PROVE  b.s = s => b.last < x.first
  BY <1>1, <1>2, <1>5, <1>6, <1>10
<1>11. ASSUME NEW b \in BagToSet(answers'), Carries(b)
       PROVE  /\ b.kind = "events" /\ b.s \in Sessions
              /\ 1 <= b.first /\ b.last <= taken'[b.s]
              /\ answers'[b] = 1
              /\ \A i \in 1..Len(fired[b.s]) : fired[b.s][i] \notin b.first..b.last
              /\ \A c \in BagToSet(answers') :
                   Carries(c) /\ c.s = b.s /\ c # b => b.last < c.first \/ c.last < b.first
  <2>1. CASE b = x
    <3>1. 1 <= x.first /\ x.last <= taken'[s]
      BY <1>1, <1>2, <1>4
    <3>2. answers'[x] = 1
      BY <1>6, <1>11, <2>1
    <3> QED
      BY <1>2, <1>8, <1>10, <2>1, <3>1, <3>2
  <2>2. CASE b # x
    <3>1. b \in BagToSet(answers) /\ answers'[b] = answers[b]
      BY <1>6, <1>11, <2>2
    <3>2. b.last <= taken'[b.s]
      BY <1>1, <1>5, <1>7, <1>11, <3>1
    <3>3. ASSUME NEW c \in BagToSet(answers'), Carries(c), c.s = b.s, c # b
          PROVE  b.last < c.first \/ c.last < b.first
      <4>1. CASE c = x
        BY <1>2, <1>10, <1>11, <2>2, <3>3, <4>1
      <4>2. CASE c # x
        <5>1. c \in BagToSet(answers)
          BY <1>6, <3>3, <4>2
        <5> QED
          BY <1>11, <3>1, <3>3, <5>1 DEF EventsApart
      <4> QED
        BY <4>1, <4>2
    <3> QED
      BY <1>5, <1>11, <3>1, <3>2, <3>3
  <2> QED
    BY <2>1, <2>2
<1> QED
  BY <1>9, <1>11 DEF EventsApart, Carries

(* What an answer that fails on its way carried is not anywhere else.      *)
LEMMA ApartFailed ==
  ASSUME TypesOK, EventsApart, NEW a \in BagToSet(answers), FailAnswer(a)
  PROVE  EventsApart'
<1> DEFINE e == [a EXCEPT !.result = "error"]
<1>1. IsABag(answers) /\ a \in Answers /\ UNCHANGED <<fired, taken>>
  BY DEF TypesOK, BagOf, FailAnswer, serverVars
<1>2. /\ e.kind = a.kind /\ e.s = a.s /\ e.first = a.first /\ e.last = a.last
      /\ answers' = Take(answers, a) (+) SetToBag({e})
  BY <1>1 DEF FailAnswer, Answers
<1> HIDE DEF e
<1>3. Carries(a) => answers[a] = 1 /\ a.first \in Nat /\ a.last \in Nat
  BY <1>1 DEF EventsApart, Answers
<1>4. IsABag(Take(answers, a)) /\ IsABag(SetToBag({e}))
      /\ BagToSet(SetToBag({e})) = {e} /\ SetToBag({e})[e] = 1
  BY <1>1, BagTake, BagOfSet
<1>5. \A b \in BagToSet(Take(answers, a)) : Carries(b) =>
        b # a /\ b \in BagToSet(answers) /\ Take(answers, a)[b] = answers[b]
  BY <1>1, <1>3, TakeCarrier
<1>6. Carries(e) = Carries(a)
  BY <1>2 DEF Carries
<1>7. ASSUME Carries(e)
      PROVE  e \notin BagToSet(Take(answers, a))
  <2> SUFFICES ASSUME e \in BagToSet(Take(answers, a))
               PROVE  FALSE
    OBVIOUS
  <2>1. e \in BagToSet(answers) /\ e # a
    BY <1>5, <1>7
  <2>2. a.last < e.first \/ e.last < a.first
    BY <1>2, <1>6, <1>7, <2>1 DEF EventsApart
  <2> QED
    BY <1>2, <1>3, <1>6, <1>7, <2>2 DEF Carries
<1>8. ASSUME NEW b \in BagToSet(answers'), Carries(b)
      PROVE  \/ b = e /\ answers'[b] = 1
             \/ b # e /\ b # a /\ b \in BagToSet(answers) /\ answers'[b] = answers[b]
  <2>1. BagToSet(answers') = BagToSet(Take(answers, a)) \cup {e}
    BY <1>2, <1>4, BagPlus
  <2>2. \A y \in BagToSet(Take(answers, a)) \ {e} : answers'[y] = Take(answers, a)[y]
    <3> DEFINE B == Take(answers, a)
               C == SetToBag({e})
    <3>1. IsABag(B) /\ IsABag(C) /\ BagToSet(C) = {e} /\ answers' = B (+) C
      BY <1>2, <1>4
    <3> HIDE DEF B, C
    <3>2. \A y \in BagToSet(B) \ {e} : answers'[y] = B[y]
      BY <3>1, BagPlus
    <3> QED
      BY <3>2 DEF B
  <2>3. e \notin BagToSet(Take(answers, a)) => answers'[e] = 1
    BY <1>2, <1>4, BagPlus, ZenonT(40)
  <2> QED
    BY <1>5, <1>7, <1>8, <2>1, <2>2, <2>3
<1>9. ASSUME NEW b \in BagToSet(answers'), Carries(b)
      PROVE  /\ b.kind = "events" /\ b.s \in Sessions
             /\ 1 <= b.first /\ b.last <= taken[b.s]
             /\ answers'[b] = 1
             /\ \A i \in 1..Len(fired[b.s]) : fired[b.s][i] \notin b.first..b.last
             /\ \A c \in BagToSet(answers') :
                  Carries(c) /\ c.s = b.s /\ c # b => b.last < c.first \/ c.last < b.first
  <2>1. CASE b = e
    <3>1. Carries(a)
      BY <1>6, <1>9, <2>1
    <3>2. \A c \in BagToSet(answers') :
            Carries(c) /\ c.s = b.s /\ c # b => b.last < c.first \/ c.last < b.first
      BY <1>2, <1>8, <2>1, <3>1 DEF EventsApart
    <3>3. answers'[b] = 1
      BY <1>8, <1>9, <2>1
    <3>4. /\ b.kind = "events" /\ b.s \in Sessions
          /\ 1 <= b.first /\ b.last <= taken[b.s]
          /\ \A i \in 1..Len(fired[b.s]) : fired[b.s][i] \notin b.first..b.last
      BY <1>2, <2>1, <3>1 DEF EventsApart
    <3> QED
      BY <3>2, <3>3, <3>4
  <2>2. CASE b # e
    <3>1. b # a /\ b \in BagToSet(answers) /\ answers'[b] = answers[b]
      BY <1>8, <1>9, <2>2
    <3>2. ASSUME NEW c \in BagToSet(answers'), Carries(c), c.s = b.s, c # b
          PROVE  b.last < c.first \/ c.last < b.first
      <4>1. CASE c = e
        BY <1>2, <1>6, <1>9, <3>1, <3>2, <4>1 DEF EventsApart
      <4>2. CASE c # e
        BY <1>8, <1>9, <3>1, <3>2, <4>2 DEF EventsApart
      <4> QED
        BY <4>1, <4>2
    <3> QED
      BY <1>9, <3>1, <3>2 DEF EventsApart
  <2> QED
    BY <2>1, <2>2
<1>10. \A t \in Sessions : \A i, j \in 1..Len(fired[t]) :
         fired[t][i] \in 1..taken[t] /\ (fired[t][i] = fired[t][j] => i = j)
  BY DEF EventsApart
<1> QED
  BY <1>1, <1>9, <1>10 DEF EventsApart, Carries

(* The server answers, and nothing but get_events carries events.          *)
LEMMA ServeApart ==
  ASSUME TypesOK, TypesOK', EventsApart,
         NEW r \in BagToSet(requests), Serve(r) \/ FailRequest(r)
  PROVE  EventsApart'
<1>1. /\ IsABag(answers) /\ sessions \subseteq Sessions /\ r.kind \in Kinds
      /\ \A s \in Sessions : taken[s] \in Nat
      /\ UNCHANGED fired
  <2>1. /\ IsABag(answers) /\ sessions \subseteq Sessions
        /\ \A s \in Sessions : taken[s] \in Nat
        /\ r \in Requests
    BY WebAssumption DEF TypesOK, BagOf
  <2>2. UNCHANGED fired
    BY DEF Serve, FailRequest
  <2> QED
    BY <2>1, <2>2 DEF Requests
<1>2. ASSUME NEW more, IsABag(more), \A x \in BagToSet(more) : ~Carries(x),
             answers' = answers (+) more, UNCHANGED taken
      PROVE  EventsApart'
  <2>1. \A b \in BagToSet(answers') : Carries(b) =>
          b \in BagToSet(answers) /\ answers'[b] = answers[b]
    BY <1>1, <1>2, PlusEmptyHanded
  <2>2. \A s \in Sessions : taken[s] <= taken'[s]
    BY <1>1, <1>2
  <2> QED
    BY <1>1, <2>1, <2>2, ApartKept
<1>3. ASSUME NEW result \in {"yes", "no", "denied", "error"},
             answers' = answers (+) Reply(r.kind, result), UNCHANGED taken
      PROVE  EventsApart'
  <2>1. IsABag(Reply(r.kind, result)) /\ \A x \in BagToSet(Reply(r.kind, result)) : ~Carries(x)
    BY <1>1, ReplyOf DEF BagOf
  <2> QED
    BY <1>2, <1>3, <2>1
<1>4. CASE /\ UNCHANGED taken
           /\ \E result \in {"yes", "no", "denied", "error"} :
                answers' = answers (+) Reply(r.kind, result)
  BY <1>3, <1>4
<1>5. CASE /\ UNCHANGED taken
           /\ answers' = answers (+) SetToBag({[kind |-> "login", result |-> "yes",
                                              s |-> created', first |-> 1, last |-> 0]})
  <2> DEFINE x == [kind |-> "login", result |-> "yes", s |-> created', first |-> 1, last |-> 0]
  <2>1. ~Carries(x) /\ answers' = answers (+) SetToBag({x})
    BY <1>5 DEF Carries
  <2> HIDE DEF x
  <2>2. IsABag(SetToBag({x})) /\ BagToSet(SetToBag({x})) = {x}
    BY BagOfSet
  <2> QED
    BY <1>2, <1>5, <2>1, <2>2
<1>6. CASE r.s \in sessions /\ GetEvents(r)
  <2>1. CASE Queued(r.s)
    BY <1>1, <1>6, <2>1, ApartTaken DEF GetEvents
  <2>2. CASE ~Queued(r.s)
    <3>1. UNCHANGED <<answers, taken>>
      BY <1>6, <2>2 DEF GetEvents
    <3>2. \A s \in Sessions : taken[s] <= taken'[s]
      BY <1>1, <3>1
    <3> QED
      BY <1>1, <3>1, <3>2, ApartKept
  <2> QED
    BY <2>1, <2>2
<1>7. CASE FailRequest(r)
  BY <1>4, <1>7 DEF FailRequest, serverVars
<1>8. CASE Serve(r)
  <2>1. \A b : YesNo(b) \in {"yes", "no", "denied", "error"}
    BY DEF YesNo
  <2> QED
    BY <1>4, <1>5, <1>6, <1>8, <2>1 DEF Serve, serverVars
<1> QED
  BY <1>7, <1>8

(* A poll that waited is answered, or its page is gone.                    *)
LEMMA HeldApart ==
  ASSUME TypesOK, TypesOK', EventsApart,
         NEW h \in BagToSet(held), HeldAnswers(h) \/ FailHeld(h)
  PROVE  EventsApart'
<1>1. /\ IsABag(answers) /\ h.s \in Sessions /\ UNCHANGED fired
      /\ \A s \in Sessions : taken[s] \in Nat /\ emitted[s] \in Nat
      /\ taken \in [Sessions -> 0..MaxEvents]
  BY WebAssumption DEF TypesOK, BagOf, HeldPolls, HeldAnswers, FailHeld
<1>2. ASSUME NEW result \in {"yes", "error"},
             answers' = answers (+) Reply("events", result), UNCHANGED taken
      PROVE  EventsApart'
  <2>1. "events" \in Kinds /\ result \in {"yes", "no", "denied", "error"}
    BY DEF Kinds
  <2>2. IsABag(Reply("events", result)) /\ \A x \in BagToSet(Reply("events", result)) : ~Carries(x)
    BY <2>1, ReplyOf DEF BagOf
  <2>3. \A b \in BagToSet(answers') : Carries(b) =>
          b \in BagToSet(answers) /\ answers'[b] = answers[b]
    BY <1>1, <1>2, <2>2, PlusEmptyHanded
  <2>4. \A s \in Sessions : taken[s] <= taken'[s]
    BY <1>1, <1>2
  <2> QED
    BY <1>1, <2>3, <2>4, ApartKept
<1>3. CASE UNCHANGED answers /\ (UNCHANGED taken \/ (Queued(h.s) /\ TakeEvents(h.s)))
  <2>1. \A s \in Sessions : taken[s] <= taken'[s]
    BY <1>1, <1>3 DEF TakeEvents, Queued
  <2> QED
    BY <1>1, <1>3, <2>1, ApartKept
<1>4. CASE Queued(h.s) /\ TakeEvents(h.s) /\ answers' = answers (+) EventsOf(h.s)
  BY <1>1, <1>4, ApartTaken
<1>5. CASE FailHeld(h)
  BY <1>2, <1>5 DEF FailHeld
<1>6. CASE HeldAnswers(h)
  BY <1>2, <1>3, <1>4, <1>6 DEF HeldAnswers
<1> QED
  BY <1>5, <1>6

(* The page takes an answer, and fires what it carried.                    *)
LEMMA ArriveApart ==
  ASSUME TypesOK, TypesOK', EventsApart, NEW a, Arrive(a)
  PROVE  EventsApart'
<1>1. /\ a \in BagToSet(answers) /\ IsABag(answers) /\ answers' = Take(answers, a)
      /\ UNCHANGED taken /\ \A s \in Sessions : taken[s] \in Nat
  BY WebAssumption DEF TypesOK, BagOf, Arrive, serverVars
<1>2. CASE UNCHANGED fired
  <2>1. Carries(a) => answers[a] = 1
    BY <1>1 DEF EventsApart
  <2>2. \A b \in BagToSet(answers') : Carries(b) =>
          b \in BagToSet(answers) /\ answers'[b] = answers[b]
    BY <1>1, <2>1, TakeCarrier
  <2>3. \A s \in Sessions : taken[s] <= taken'[s]
    BY <1>1
  <2> QED
    BY <1>2, <2>2, <2>3, ApartKept
<1>3. CASE /\ a.first <= a.last
           /\ fired' = [fired EXCEPT ![a.s] = @ \o [i \in 1..(a.last - a.first + 1) |->
                                                      a.first + i - 1]]
  BY <1>1, <1>3, ApartFired DEF Carries
<1> QED
  BY <1>2, <1>3 DEF Arrive, OnGetEventsSuccess

(* Every step keeps events apart.                                          *)
LEMMA NextApart ==
  ASSUME TypesOK, TypesOK', EventsApart, [Next]_vars
  PROVE  EventsApart'
<1>1. \A s \in Sessions : taken[s] \in Nat
  BY WebAssumption DEF TypesOK
<1>2. ASSUME UNCHANGED <<fired, taken>>, UNCHANGED answers \/ BagToSet(answers') = {}
      PROVE  EventsApart'
  <2>1. \A s \in Sessions : taken[s] <= taken'[s]
    BY <1>1, <1>2
  <2> QED
    BY <1>2, <2>1, ApartKept
<1>3. CASE UNCHANGED vars
  BY <1>2, <1>3 DEF vars, serverVars
<1>4. CASE \/ Timer \/ UserLogin \/ UserLogout \/ OnEvent \/ SessionsEnd \/ DaemonLost
           \/ \E kinds \in {{"connect"}, {"disconnect"}, {"connect", "disconnect"}} :
                UserConnects(kinds)
  BY <1>2, <1>4
  DEF Timer, UserLogin, UserLogout, OnEvent, SessionsEnd, DaemonLost, UserConnects, serverVars
<1>5. CASE Reload
  BY <1>2, <1>5, BagOfNothing DEF Reload
<1> QED
  BY <1>3, <1>4, <1>5, ArriveApart, ApartFailed, ServeApart, HeldApart DEF Next

-----------------------------------------------------------------------------
(* Polls in a bag that gets something else, or loses something else.       *)
LEMMA PollsPlusOther ==
  ASSUME NEW B, NEW C, IsABag(B), IsABag(C), \A x \in BagToSet(C) : x.kind # "events"
  PROVE  /\ Polls(B (+) C) = Polls(B)
         /\ Alone(B, Polls(B)) => Alone(B (+) C, Polls(B (+) C))
<1>1. Polls(B (+) C) = Polls(B)
  BY BagPlus DEF Polls
<1>2. \A x \in Polls(B) : (B (+) C)[x] = B[x]
  BY BagPlus DEF Polls
<1> QED
  BY <1>1, <1>2 DEF Alone

(* Something that is not a poll is taken out of a bag.                     *)
LEMMA PollsTakeOther ==
  ASSUME NEW B, IsABag(B), NEW x \in BagToSet(B), x.kind # "events"
  PROVE  /\ Polls(Take(B, x)) = Polls(B)
         /\ Alone(B, Polls(B)) => Alone(Take(B, x), Polls(Take(B, x)))
<1>1. Polls(Take(B, x)) = Polls(B)
  BY BagTake DEF Polls
<1>2. \A y \in Polls(B) : Take(B, x)[y] = B[y]
  BY BagTake DEF Polls
<1> QED
  BY <1>1, <1>2 DEF Alone

(* Polls that come to a bag without any; the poll taken out of it.         *)
LEMMA PollsPlusPolls ==
  ASSUME NEW B, NEW C, IsABag(B), IsABag(C), Polls(B) = {}, Alone(C, Polls(C))
  PROVE  /\ Polls(B (+) C) = Polls(C)
         /\ Alone(B (+) C, Polls(B (+) C))
<1>1. Polls(B (+) C) = Polls(C)
  BY BagPlus DEF Polls
<1>2. \A x \in Polls(C) : x \in BagToSet(C) \ BagToSet(B)
  BY DEF Polls
<1>3. \A x \in Polls(C) : (B (+) C)[x] = C[x]
  BY <1>2, BagPlus
<1> QED
  BY <1>1, <1>3 DEF Alone

(* The one poll is taken out of a bag.                                     *)
LEMMA PollsTakePoll ==
  ASSUME NEW B, IsABag(B), Alone(B, Polls(B)), NEW x \in Polls(B)
  PROVE  Polls(Take(B, x)) = {}
<1>1. x \in BagToSet(B) /\ B[x] = 1 /\ \A y \in Polls(B) : y = x
  BY DEF Alone, Polls
<1>2. BagToSet(Take(B, x)) \subseteq BagToSet(B) /\ x \notin BagToSet(Take(B, x))
  BY <1>1, BagTake
<1> QED
  BY <1>1, <1>2 DEF Polls

(* A call or an answer is one.                                             *)
LEMMA OneIsAlone ==
  ASSUME NEW x
  PROVE  /\ IsABag(SetToBag({x})) /\ BagToSet(SetToBag({x})) = {x}
         /\ Alone(SetToBag({x}), BagToSet(SetToBag({x})))
         /\ Alone(SetToBag({x}), Polls(SetToBag({x})))
BY BagOfSet DEF Alone, Polls

(* A call of the page.                                                     *)
LEMMA CallIsAlone ==
  ASSUME NEW kind
  PROVE  /\ IsABag(Call(kind)) /\ Alone(Call(kind), Polls(Call(kind)))
         /\ \A x \in BagToSet(Call(kind)) : x.kind = kind
<1> DEFINE x == [kind |-> kind, s |-> cookie]
<1>1. x.kind = kind /\ Call(kind) = SetToBag({x})
  BY DEF Call
<1> HIDE DEF x
<1> QED
  BY <1>1, OneIsAlone

(* A reply of the server.                                                  *)
LEMMA ReplyIsAlone ==
  ASSUME NEW kind, NEW result
  PROVE  /\ IsABag(Reply(kind, result)) /\ Alone(Reply(kind, result), Polls(Reply(kind, result)))
         /\ \A x \in BagToSet(Reply(kind, result)) : x.kind = kind /\ ~Carries(x)
<1> DEFINE x == [kind |-> kind, result |-> result, s |-> 0, first |-> 1, last |-> 0]
<1>1. x.kind = kind /\ ~Carries(x) /\ Reply(kind, result) = SetToBag({x})
  BY DEF Reply, Carries
<1> HIDE DEF x
<1> QED
  BY <1>1, OneIsAlone

(* The poll that waits in the server.                                      *)
LEMMA TakeAlone ==
  ASSUME NEW B, IsABag(B), Alone(B, BagToSet(B)), NEW x \in BagToSet(B)
  PROVE  IsABag(Take(B, x)) /\ BagToSet(Take(B, x)) = {}
<1>1. B[x] = 1 /\ \A y \in BagToSet(B) : y = x
  BY DEF Alone
<1>2. /\ IsABag(Take(B, x)) /\ BagToSet(Take(B, x)) \subseteq BagToSet(B)
      /\ x \notin BagToSet(Take(B, x))
  BY <1>1, BagTake
<1> QED
  BY <1>1, <1>2

(* A chain that is in one place, said of the bags after a step.            *)
LEMMA ChainMoved ==
  ASSUME Alone(requests', Polls(requests')), Alone(answers', Polls(answers')),
         IsABag(held'), Alone(held', BagToSet(held')), \A h \in BagToSet(held') : ~h.gone,
         \/ Polls(requests') = {} /\ Polls(answers') = {}
         \/ Polls(requests') = {} /\ BagToSet(held') = {}
         \/ Polls(answers') = {} /\ BagToSet(held') = {}
  PROVE  OneChain'
BY DEF OneChain, Alone, Polls

(* The events of an answer are the same events however it is marked.       *)
LEMMA MissedKept ==
  ASSUME NothingMissed, UNCHANGED <<fired, taken>>,
         \A a \in BagToSet(answers) : Carries(a) =>
           \E b \in BagToSet(answers') : Carries(b) /\ b.s = a.s,
         \A b \in BagToSet(answers') : Carries(b) =>
           \E a \in BagToSet(answers) : Carries(a) /\ a.s = b.s /\ a.first = b.first
                                                                /\ a.last = b.last
  PROVE  NothingMissed'
<1>1. \A s \in Sessions : \A i \in 1..Len(fired[s]) : fired[s][i] = i
  BY DEF NothingMissed
<1>2. \A s \in Sessions : \/ Len(fired[s]) = taken[s]
                          \/ \E b \in BagToSet(answers') : Carries(b) /\ b.s = s
  BY DEF NothingMissed
<1>3. \A b \in BagToSet(answers') :
        Carries(b) => b.first = Len(fired[b.s]) + 1 /\ b.last = taken[b.s]
  BY DEF NothingMissed
<1> QED
  BY <1>1, <1>2, <1>3 DEF NothingMissed, Carries

(* Answers with events are polls.                                          *)
LEMMA CarriersArePolls ==
  ASSUME EventsApart
  PROVE  \A a \in BagToSet(answers) : Carries(a) => a \in Polls(answers)
BY DEF EventsApart, Polls

(* Polls as they were.                                                     *)
LEMMA ChainKept ==
  ASSUME OneChain,
         Polls(requests') = Polls(requests), Alone(requests', Polls(requests')),
         Polls(answers') = Polls(answers), Alone(answers', Polls(answers')),
         UNCHANGED held
  PROVE  OneChain'
BY DEF OneChain, Alone, Polls

(* The server answers something else.                                      *)
LEMMA OtherAnswered ==
  ASSUME TypesOK, OneChain, NothingMissed,
         NEW r \in BagToSet(requests), r.kind # "events", requests' = Take(requests, r),
         NEW more, IsABag(more), \A x \in BagToSet(more) : x.kind # "events" /\ ~Carries(x),
         answers' = answers (+) more, UNCHANGED <<held, fired, taken>>
  PROVE  OneChain' /\ NothingMissed'
<1>1. /\ IsABag(requests) /\ IsABag(answers)
      /\ Alone(requests, Polls(requests)) /\ Alone(answers, Polls(answers))
  BY DEF TypesOK, BagOf, OneChain
<1>2. Polls(requests') = Polls(requests) /\ Alone(requests', Polls(requests'))
  BY <1>1, PollsTakeOther
<1>3. Polls(answers') = Polls(answers) /\ Alone(answers', Polls(answers'))
  BY <1>1, PollsPlusOther
<1>4. BagToSet(answers') = BagToSet(answers) \cup BagToSet(more)
  BY BagElements
<1>5. NothingMissed'
  BY <1>4, MissedKept
<1> QED
  BY <1>2, <1>3, <1>5, ChainKept

(* The server answers the poll.                                            *)
LEMMA PollAnswered ==
  ASSUME TypesOK, EventsApart, OneChain, NothingMissed,
         Polls(requests') = {}, Polls(answers) = {},
         IsABag(held'), BagToSet(held') = {}, UNCHANGED fired,
         \/ /\ \E result : answers' = answers (+) Reply("events", result)
            /\ UNCHANGED taken
         \/ \E s \in Sessions : /\ Queued(s) /\ TakeEvents(s)
                                /\ answers' = answers (+) EventsOf(s)
  PROVE  OneChain' /\ NothingMissed'
<1>1. IsABag(answers)
  BY DEF TypesOK, BagOf
<1>2. \A a \in BagToSet(answers) : ~Carries(a)
  BY CarriersArePolls
<1>3. ASSUME NEW more, answers' = answers (+) more,
             IsABag(more), Alone(more, Polls(more))
      PROVE  OneChain'
  <2>1. Alone(answers', Polls(answers'))
    BY <1>1, <1>3, PollsPlusPolls
  <2>2. Alone(requests', Polls(requests')) /\ Alone(held', BagToSet(held'))
        /\ \A h \in BagToSet(held') : ~h.gone
    BY DEF Alone
  <2> QED
    BY <2>1, <2>2, ChainMoved
<1>4. ASSUME NEW result, answers' = answers (+) Reply("events", result), UNCHANGED taken
      PROVE  OneChain' /\ NothingMissed'
  <2>1. OneChain'
    BY <1>3, <1>4, ReplyIsAlone
  <2>2. BagToSet(answers') = BagToSet(answers) \cup BagToSet(Reply("events", result))
    BY <1>4, BagElements
  <2>3. \A b \in BagToSet(answers') : ~Carries(b)
    BY <1>2, <2>2, ReplyIsAlone
  <2> QED
    BY <1>2, <1>4, <2>1, <2>3, MissedKept
<1>5. ASSUME NEW s \in Sessions, Queued(s), TakeEvents(s), answers' = answers (+) EventsOf(s)
      PROVE  OneChain' /\ NothingMissed'
  <2> DEFINE x == [kind |-> "events", result |-> "yes", s |-> s,
                   first |-> taken[s] + 1, last |-> emitted[s]]
  <2>1. x.s = s /\ x.first = taken[s] + 1 /\ x.last = emitted[s] /\ EventsOf(s) = SetToBag({x})
    BY DEF EventsOf
  <2>2. taken \in [Sessions -> 0..MaxEvents] /\ emitted[s] \in 0..MaxEvents
        /\ taken[s] \in 0..MaxEvents /\ MaxEvents \in Nat
    BY WebAssumption DEF TypesOK
  <2> HIDE DEF x
  <2>3. OneChain'
    BY <1>3, <1>5, <2>1, OneIsAlone
  <2>4. BagToSet(answers') = BagToSet(answers) \cup {x}
    BY <1>5, <2>1, BagAdd
  <2>5. Carries(x)
    BY <1>5, <2>1, <2>2 DEF Carries, Queued
  <2>6. taken' = [taken EXCEPT ![s] = emitted[s]]
    BY <1>5 DEF TakeEvents
  <2>7. \A t \in Sessions : Len(fired[t]) = taken[t]
    BY <1>2 DEF NothingMissed
  <2>8. \A t \in Sessions : \A i \in 1..Len(fired'[t]) : fired'[t][i] = i
    BY DEF NothingMissed
  <2>9. \A t \in Sessions : \/ Len(fired'[t]) = taken'[t]
                            \/ \E a \in BagToSet(answers') : Carries(a) /\ a.s = t
    BY <2>1, <2>2, <2>4, <2>5, <2>6, <2>7
  <2>10. \A a \in BagToSet(answers') : Carries(a) =>
           a.first = Len(fired'[a.s]) + 1 /\ a.last = taken'[a.s]
    BY <1>2, <2>1, <2>2, <2>4, <2>6, <2>7
  <2> QED
    BY <2>3, <2>8, <2>9, <2>10 DEF NothingMissed, Carries
<1> QED
  BY <1>4, <1>5

(* The server takes a request.                                             *)
LEMMA ServeGoing ==
  ASSUME TypesOK, EventsApart, OneChain, NothingMissed,
         NEW r \in BagToSet(requests), Serve(r) \/ FailRequest(r)
  PROVE  OneChain' /\ NothingMissed'
<1>1. /\ IsABag(requests) /\ IsABag(answers) /\ requests' = Take(requests, r)
      /\ sessions \subseteq Sessions
      /\ Alone(requests, Polls(requests)) /\ IsABag(held) /\ UNCHANGED fired
  BY DEF TypesOK, BagOf, OneChain, Serve, FailRequest
<1>2. CASE r.kind # "events"
  <2>1. ASSUME NEW result, answers' = answers (+) Reply(r.kind, result), UNCHANGED <<held, taken>>
        PROVE  OneChain' /\ NothingMissed'
    <3>1. IsABag(Reply(r.kind, result))
          /\ \A x \in BagToSet(Reply(r.kind, result)) : x.kind # "events" /\ ~Carries(x)
      BY <1>2, ReplyIsAlone
    <3> QED
      BY <1>1, <1>2, <2>1, <3>1, OtherAnswered
  <2>2. CASE /\ UNCHANGED <<held, taken>>
             /\ answers' = answers (+) SetToBag({[kind |-> "login", result |-> "yes",
                                                s |-> created', first |-> 1, last |-> 0]})
    <3> DEFINE x == [kind |-> "login", result |-> "yes", s |-> created', first |-> 1, last |-> 0]
    <3>1. x.kind # "events" /\ ~Carries(x) /\ answers' = answers (+) SetToBag({x})
      BY <2>2 DEF Carries
    <3> HIDE DEF x
    <3>2. IsABag(SetToBag({x})) /\ BagToSet(SetToBag({x})) = {x}
      BY OneIsAlone
    <3> QED
      BY <1>1, <1>2, <2>2, <3>1, <3>2, OtherAnswered
  <2>3. \/ (\E result : answers' = answers (+) Reply(r.kind, result)) /\ UNCHANGED <<held, taken>>
        \/ /\ UNCHANGED <<held, taken>>
           /\ answers' = answers (+) SetToBag({[kind |-> "login", result |-> "yes",
                                              s |-> created', first |-> 1, last |-> 0]})
    BY <1>2 DEF Serve, FailRequest, serverVars
  <2> QED
    BY <2>1, <2>2, <2>3
<1>3. CASE r.kind = "events"
  <2>1. r \in Polls(requests)
    BY <1>3 DEF Polls
  <2>2. Polls(requests') = {} /\ Polls(answers) = {} /\ BagToSet(held) = {}
    BY <1>1, <2>1, PollsTakePoll DEF OneChain
  <2>3. CASE (\E result : answers' = answers (+) Reply("events", result))
             /\ UNCHANGED <<held, taken>>
    BY <1>1, <2>2, <2>3, PollAnswered
  <2>4. CASE r.s \in sessions /\ Queued(r.s) /\ GetEvents(r)
    BY <1>1, <2>2, <2>4, PollAnswered DEF GetEvents
  <2>5. CASE r.s \in sessions /\ ~Queued(r.s) /\ GetEvents(r)
    <3> DEFINE h == [s |-> r.s, gone |-> FALSE]
    <3>1. ~h.gone /\ held' = held (+) SetToBag({h}) /\ UNCHANGED <<answers, taken>>
      BY <2>5 DEF GetEvents
    <3> HIDE DEF h
    <3>2. IsABag(held') /\ BagToSet(held') = {h} /\ held'[h] = 1
      BY <1>1, <2>2, <3>1, BagPlus, BagOfSet
    <3>3. Alone(held', BagToSet(held')) /\ \A g \in BagToSet(held') : ~g.gone
      BY <3>1, <3>2 DEF Alone
    <3>4. Alone(requests', Polls(requests')) /\ Alone(answers', Polls(answers'))
          /\ Polls(answers') = {}
      BY <2>2, <3>1 DEF Alone
    <3> QED
      BY <1>1, <2>2, <3>1, <3>2, <3>3, <3>4, ChainMoved, MissedKept
  <2> QED
    BY <1>3, <2>3, <2>4, <2>5 DEF Serve, FailRequest, serverVars
<1> QED
  BY <1>2, <1>3

(* The server answers the poll it held back.                               *)
LEMMA HeldGoing ==
  ASSUME TypesOK, EventsApart, OneChain, NothingMissed,
         NEW h \in BagToSet(held), HeldAnswers(h)
  PROVE  OneChain' /\ NothingMissed'
<1>1. /\ held' = Take(held, h) /\ UNCHANGED <<requests, fired>> /\ h.s \in Sessions /\ ~h.gone
      /\ IsABag(held) /\ Alone(held, BagToSet(held))
      /\ Polls(requests) = {} /\ Polls(answers) = {}
  BY DEF HeldAnswers, OneChain, TypesOK, HeldPolls
<1>2. IsABag(held') /\ BagToSet(held') = {}
  BY <1>1, TakeAlone
<1>3. \/ Queued(h.s) /\ TakeEvents(h.s) /\ answers' = answers (+) EventsOf(h.s)
      \/ answers' = answers (+) Reply("events", "yes") /\ UNCHANGED taken
  BY <1>1 DEF HeldAnswers
<1> QED
  BY <1>1, <1>2, <1>3, PollAnswered

(* An answer that fails on its way is an answer.                           *)
LEMMA FailAnswerGoing ==
  ASSUME TypesOK, EventsApart, OneChain, NothingMissed,
         NEW a \in BagToSet(answers), FailAnswer(a)
  PROVE  OneChain' /\ NothingMissed'
<1> DEFINE e == [a EXCEPT !.result = "error"]
<1>1. IsABag(answers) /\ a \in Answers /\ UNCHANGED <<requests, held, fired, taken>>
  BY DEF TypesOK, BagOf, FailAnswer, serverVars
<1>2. /\ e.kind = a.kind /\ e.s = a.s /\ e.first = a.first /\ e.last = a.last
      /\ answers' = Take(answers, a) (+) SetToBag({e})
  BY <1>1 DEF FailAnswer, Answers
<1> HIDE DEF e
<1>3. IsABag(Take(answers, a)) /\ BagToSet(Take(answers, a)) \subseteq BagToSet(answers)
      /\ \A y \in BagToSet(answers) : y # a => y \in BagToSet(Take(answers, a))
  BY <1>1, BagTake
<1>4. BagToSet(answers') = BagToSet(Take(answers, a)) \cup {e}
  BY <1>2, BagAdd
<1>5. Alone(answers, Polls(answers)) /\ Alone(requests, Polls(requests)) /\ IsABag(held)
      /\ Alone(held, BagToSet(held)) /\ \A h \in BagToSet(held) : ~h.gone
  BY DEF OneChain
<1>6. NothingMissed'
  <2>1. \A b \in BagToSet(answers) : Carries(b) =>
          \E c \in BagToSet(answers') : Carries(c) /\ c.s = b.s
    BY <1>2, <1>3, <1>4 DEF Carries
  <2>2. \A c \in BagToSet(answers') : Carries(c) =>
          \E b \in BagToSet(answers) : Carries(b) /\ b.s = c.s /\ b.first = c.first
                                                               /\ b.last = c.last
    BY <1>2, <1>3, <1>4 DEF Carries
  <2> QED
    BY <1>1, <2>1, <2>2, MissedKept
<1>7. OneChain'
  <2>1. CASE a.kind = "events"
    <3>1. a \in Polls(answers)
      BY <2>1 DEF Polls
    <3>2. Polls(Take(answers, a)) = {}
      BY <1>1, <1>5, <3>1, PollsTakePoll
    <3>3. Alone(answers', Polls(answers'))
      BY <1>2, <1>3, <3>2, OneIsAlone, PollsPlusPolls
    <3>4. Polls(requests') = {} /\ BagToSet(held') = {}
      BY <1>1, <3>1 DEF OneChain
    <3> QED
      BY <1>1, <1>5, <3>3, <3>4, ChainMoved
  <2>2. CASE a.kind # "events"
    <3>1. /\ Polls(Take(answers, a)) = Polls(answers)
          /\ Alone(Take(answers, a), Polls(Take(answers, a)))
      BY <1>1, <1>5, <2>2, PollsTakeOther
    <3>2. IsABag(SetToBag({e})) /\ \A x \in BagToSet(SetToBag({e})) : x.kind # "events"
      <4>1. IsABag(SetToBag({e})) /\ BagToSet(SetToBag({e})) = {e}
        BY OneIsAlone
      <4> QED
        BY <1>2, <2>2, <4>1
    <3>3. Polls(answers') = Polls(answers) /\ Alone(answers', Polls(answers'))
      BY <1>2, <1>3, <3>1, <3>2, PollsPlusOther
    <3> QED
      BY <1>1, <1>5, <3>3, ChainKept
  <2> QED
    BY <2>1, <2>2
<1> QED
  BY <1>6, <1>7

(* A login starts the chain where there is none.                           *)
LEMMA LoginGoing ==
  ASSUME TypesOK, OneChain, ~forked', OnLogin
  PROVE  /\ Polls(requests) = {} /\ Polls(answers) = {} /\ BagToSet(held) = {}
         /\ Alone(requests', Polls(requests'))
<1>1. ~Polling /\ IsABag(requests)
  BY DEF OnLogin, TypesOK, BagOf
<1>2. Polls(requests) = {} /\ Polls(answers) = {} /\ BagToSet(held) = {}
  BY <1>1 DEF Polling, OneChain
<1> DEFINE X == IF "events" \in follows THEN Call("register") (+) Call("events")
                                        ELSE EmptyBag
           Y == IF "updates" \in follows THEN Call("connected") ELSE EmptyBag
<1>3. requests' = (requests (+) X) (+) Y
  BY DEF OnLogin
<1>4. IsABag(X) /\ Alone(X, Polls(X))
  <2>1. IsABag(EmptyBag) /\ Polls(EmptyBag) = {} /\ Alone(EmptyBag, Polls(EmptyBag))
    BY BagOfNothing DEF Polls, Alone
  <2>2. IsABag(Call("register")) /\ Polls(Call("register")) = {}
    BY CallIsAlone DEF Polls
  <2>3. IsABag(Call("events")) /\ Alone(Call("events"), Polls(Call("events")))
    BY CallIsAlone
  <2>4. IsABag(Call("register") (+) Call("events"))
    BY <2>2, <2>3, BagPlus
  <2>5. Alone(Call("register") (+) Call("events"), Polls(Call("register") (+) Call("events")))
    BY <2>2, <2>3, PollsPlusPolls
  <2> QED
    BY <2>1, <2>4, <2>5
<1>5. IsABag(Y) /\ \A x \in BagToSet(Y) : x.kind # "events"
  <2>1. IsABag(Call("connected")) /\ \A x \in BagToSet(Call("connected")) : x.kind # "events"
    BY CallIsAlone
  <2> QED
    BY <2>1, BagOfNothing
<1> HIDE DEF X, Y
<1>6. IsABag(requests (+) X) /\ Alone(requests (+) X, Polls(requests (+) X))
  BY <1>1, <1>2, <1>4, BagPlus, PollsPlusPolls
<1>7. Alone(requests', Polls(requests'))
  BY <1>3, <1>5, <1>6, PollsPlusOther
<1> QED
  BY <1>2, <1>7

(* The page takes an answer, and asks again if it was to the poll.         *)
LEMMA ArriveGoing ==
  ASSUME TypesOK, EventsApart, OneChain, NothingMissed, ~forked', NEW a, Arrive(a)
  PROVE  OneChain' /\ NothingMissed'
<1>1. /\ a \in BagToSet(answers) /\ answers' = Take(answers, a) /\ UNCHANGED <<held, taken>>
      /\ IsABag(answers) /\ IsABag(requests) /\ IsABag(held) /\ a \in Answers
      /\ Alone(answers, Polls(answers)) /\ Alone(requests, Polls(requests))
      /\ Alone(held, BagToSet(held)) /\ \A h \in BagToSet(held) : ~h.gone
  BY DEF Arrive, serverVars, TypesOK, BagOf, OneChain
<1>2. BagToSet(answers') \subseteq BagToSet(answers)
      /\ \A b \in BagToSet(answers) : b # a => b \in BagToSet(answers')
  BY <1>1, BagTake
<1>3. ASSUME UNCHANGED fired, ~Carries(a)
      PROVE  NothingMissed'
  BY <1>1, <1>2, <1>3, MissedKept
<1>4. CASE a.kind # "events"
  <2>1. UNCHANGED fired /\ ~Carries(a)
    BY <1>1, <1>4 DEF Arrive, EventsApart
  <2>2. Polls(answers') = Polls(answers) /\ Alone(answers', Polls(answers'))
    BY <1>1, <1>4, PollsTakeOther
  <2>3. CASE OnLogin
    BY <1>1, <1>3, <2>1, <2>2, <2>3, LoginGoing, ChainMoved
  <2>4. CASE UNCHANGED requests
    BY <1>1, <1>3, <2>1, <2>2, <2>4, ChainKept
  <2>5. ASSUME NEW kind, kind # "events", requests' = requests (+) Call(kind)
        PROVE  OneChain' /\ NothingMissed'
    <3>1. IsABag(Call(kind)) /\ \A x \in BagToSet(Call(kind)) : x.kind # "events"
      BY <2>5, CallIsAlone
    <3>2. Polls(requests') = Polls(requests) /\ Alone(requests', Polls(requests'))
      BY <1>1, <2>5, <3>1, PollsPlusOther
    <3> QED
      BY <1>1, <1>3, <2>1, <2>2, <3>2, ChainKept
  <2>6. \/ OnLogin \/ UNCHANGED requests
        \/ requests' = requests (+) Call("update")
        \/ requests' = requests (+) Call("methods")
    BY <1>4 DEF Arrive, AnswerToUi, OnConnect
  <2> QED
    BY <2>3, <2>4, <2>5, <2>6
<1>5. CASE a.kind = "events"
  <2>1. a \in Polls(answers)
    BY <1>1, <1>5 DEF Polls
  <2>2. Polls(answers') = {} /\ Polls(requests) = {} /\ BagToSet(held) = {}
    BY <1>1, <2>1, PollsTakePoll DEF OneChain
  <2>3. Alone(requests', Polls(requests'))
    <3>1. requests' = requests \/ requests' = requests (+) Call("events")
      BY <1>5 DEF Arrive, AnswerToUi, OnGetEventsSuccess, OnGetEventsFailure
    <3>2. requests' = requests (+) Call("events") => Alone(requests', Polls(requests'))
      BY <1>1, <2>2, CallIsAlone, PollsPlusPolls
    <3> QED
      BY <1>1, <3>1, <3>2
  <2>4. OneChain'
    BY <1>1, <2>2, <2>3, ChainMoved DEF Alone
  <2>5. \/ UNCHANGED fired /\ ~Carries(a)
        \/ /\ Carries(a)
           /\ fired' = [fired EXCEPT ![a.s] = @ \o [i \in 1..(a.last - a.first + 1) |->
                                                      a.first + i - 1]]
    BY <1>5 DEF Arrive, AnswerToUi, OnGetEventsSuccess, OnGetEventsFailure, Carries
  <2>6. ASSUME Carries(a),
               fired' = [fired EXCEPT ![a.s] = @ \o [i \in 1..(a.last - a.first + 1) |->
                                                       a.first + i - 1]]
        PROVE  NothingMissed'
    <3> DEFINE more == [i \in 1..(a.last - a.first + 1) |-> a.first + i - 1]
               old == fired[a.s]
    <3>1. /\ a.first \in Nat /\ a.last \in Nat /\ a.first <= a.last /\ a.s \in Sessions
      BY <1>1, <2>6 DEF Answers, Carries, EventsApart
    <3>2. fired \in [Sessions -> Seq(Nat)] /\ old \in Seq(Nat) /\ Len(old) \in Nat
      BY <3>1, LenProperties DEF TypesOK
    <3>3. a.first = Len(old) + 1 /\ a.last = taken[a.s]
      BY <1>1, <2>6 DEF NothingMissed
    <3>4. a.last - a.first + 1 \in Nat /\ more \in [1..(a.last - a.first + 1) -> Nat]
      BY <3>1
    <3>5. more \in Seq(Nat) /\ Len(more) = a.last - a.first + 1
      BY <3>4, IsASeq, LenProperties
    <3>6. \A i \in 1..Len(more) : more[i] = a.first + i - 1
      BY <3>5
    <3>7. fired'[a.s] = old \o more /\ \A s \in Sessions \ {a.s} : fired'[s] = fired[s]
      BY <2>6, <3>1, <3>2
    <3> HIDE DEF more, old
    <3>8. /\ Len(old \o more) = Len(old) + Len(more)
          /\ \A i \in 1..(Len(old) + Len(more)) :
               (old \o more)[i] = IF i <= Len(old) THEN old[i] ELSE more[i - Len(old)]
      BY <3>2, <3>5, ConcatProperties
    <3>9. Len(old \o more) = taken[a.s]
      <4> DEFINE n == Len(old) m == Len(more)
      <4>1. n \in Nat /\ m = a.last - (n + 1) + 1 /\ a.last \in Nat
        BY <3>1, <3>2, <3>3, <3>5
      <4>2. n + m = a.last
        <5> HIDE DEF n, m
        <5> QED
          BY <4>1
      <4> QED
        BY <3>3, <3>8, <4>2
    <3>10. \A i \in 1..Len(old) : old[i] = i
      BY <3>1 DEF NothingMissed, old
    <3>11. ASSUME NEW i \in 1..Len(old \o more)
           PROVE  (old \o more)[i] = i
      <4>1. CASE i <= Len(old)
        BY <3>2, <3>5, <3>8, <3>10, <3>1, <3>11, <4>1
      <4>2. CASE ~(i <= Len(old))
        <5> DEFINE n == Len(old) m == Len(more) j == i - n
        <5>1. n \in Nat /\ m \in Nat /\ i \in 1..(n + m)
          BY <3>1, <3>2, <3>5, <3>8, <3>11, <3>4
        <5>2. j \in 1..m
          BY <4>2, <5>1
        <5>3. (old \o more)[i] = more[j]
          BY <3>8, <4>2, <5>1
        <5>4. more[j] = a.first + j - 1
          BY <3>6, <5>2
        <5> QED
          BY <3>3, <5>1, <5>3, <5>4
      <4> QED
        BY <4>1, <4>2
    <3>12. \A b \in BagToSet(answers') : ~Carries(b)
      BY <1>2, <2>2, CarriersArePolls DEF Polls
    <3>13. \A s \in Sessions \ {a.s} : Len(fired[s]) = taken[s]
      <4>1. \A b \in BagToSet(answers) : Carries(b) => b = a
        BY <1>1, <2>1, CarriersArePolls DEF Alone
      <4> QED
        BY <4>1 DEF NothingMissed
    <3>14. \A s \in Sessions : \A i \in 1..Len(fired'[s]) : fired'[s][i] = i
      BY <3>7, <3>11 DEF NothingMissed
    <3>15. \A s \in Sessions : Len(fired'[s]) = taken'[s]
      BY <1>1, <3>7, <3>9, <3>13
    <3> QED
      BY <3>12, <3>14, <3>15 DEF NothingMissed, Carries
  <2> QED
    BY <1>3, <2>4, <2>5, <2>6
<1> QED
  BY <1>4, <1>5

(* Every step keeps the chain in one place, unless it forks or breaks it.  *)
LEMMA NextGoing ==
  ASSUME TypesOK, EventsApart, ~forked => OneChain /\ NothingMissed, [Next]_vars, ~forked'
  PROVE  OneChain' /\ NothingMissed'
<1>1. ~forked
  <2>1. forked => forked'
    BY DEF Next, Arrive, AnswerToUi, OnLogin, OnGetEventsSuccess, OnGetEventsFailure, Serve,
       HeldAnswers, FailRequest, FailAnswer, FailHeld, Timer, UserLogin, UserLogout,
       UserConnects, OnEvent, SessionsEnd, DaemonLost, Reload, vars
  <2> QED
    BY <2>1
<1>2. OneChain /\ NothingMissed
  BY <1>1
<1>3. IsABag(requests) /\ IsABag(answers)
      /\ Alone(requests, Polls(requests)) /\ Alone(answers, Polls(answers))
  BY <1>2 DEF TypesOK, BagOf, OneChain
<1>4. ASSUME UNCHANGED <<answers, held, fired, taken>>,
             Polls(requests') = Polls(requests), Alone(requests', Polls(requests'))
      PROVE  OneChain' /\ NothingMissed'
  BY <1>2, <1>3, <1>4, ChainKept, MissedKept
<1>5. CASE UNCHANGED vars \/ OnEvent \/ SessionsEnd \/ DaemonLost
  <2>1. UNCHANGED <<answers, held, fired, taken, requests>>
    BY <1>5 DEF vars, serverVars, OnEvent, SessionsEnd, DaemonLost
  <2> QED
    BY <1>3, <1>4, <2>1
<1>6. CASE Timer \/ UserLogin \/ UserLogout
           \/ \E kinds \in {{"connect"}, {"disconnect"}, {"connect", "disconnect"}} :
                UserConnects(kinds)
  <2>1. UNCHANGED <<answers, held, fired, taken>>
    BY <1>6 DEF Timer, UserLogin, UserLogout, UserConnects, serverVars
  <2>2. ASSUME NEW more, IsABag(more), \A x \in BagToSet(more) : x.kind # "events",
               requests' = requests (+) more
        PROVE  OneChain' /\ NothingMissed'
    BY <1>3, <1>4, <2>1, <2>2, PollsPlusOther
  <2>3. ASSUME NEW kind \in {"update", "check", "login", "delete_session"},
               requests' = requests (+) Call(kind)
        PROVE  OneChain' /\ NothingMissed'
    BY <2>2, <2>3, CallIsAlone
  <2>4. ASSUME NEW kinds \in {{"connect"}, {"disconnect"}, {"connect", "disconnect"}},
               UserConnects(kinds)
        PROVE  OneChain' /\ NothingMissed'
    <3> DEFINE calls == {[kind |-> k, s |-> cookie] : k \in kinds}
    <3>1. requests' = requests (+) SetToBag(calls) /\ \A x \in calls : x.kind # "events"
      BY <2>4 DEF UserConnects
    <3> HIDE DEF calls
    <3>2. IsABag(SetToBag(calls)) /\ BagToSet(SetToBag(calls)) = calls
      BY BagOfSet
    <3> QED
      BY <2>2, <3>1, <3>2
  <2> QED
    BY <1>6, <2>3, <2>4 DEF Timer, UserLogin, UserLogout
<1>7. CASE Reload
  <2>1. /\ BagToSet(held) = {} /\ BagToSet(answers') = {}
        /\ requests' = Call("check_session") /\ UNCHANGED <<fired, taken>>
        /\ held' = BagOfAll(LAMBDA h : [h EXCEPT !.gone = TRUE], held)
        /\ \A a \in Polls(answers) : ~Carries(a)
    BY <1>7, BagOfNothing DEF Reload, Carries
  <2>2. BagToSet(held') = {}
    BY <2>1, AllGone
  <2>3. IsABag(held')
    BY <2>2 DEF IsABag, BagToSet
  <2>4. \A a \in BagToSet(answers) : ~Carries(a)
    BY <2>1, CarriersArePolls
  <2>5. NothingMissed'
    BY <1>2, <2>1, <2>4, MissedKept
  <2>6. Polls(answers') = {} /\ Alone(requests', Polls(requests'))
    BY <2>1, CallIsAlone DEF Polls
  <2>7. OneChain'
    BY <2>2, <2>3, <2>6, ChainMoved DEF Alone
  <2> QED
    BY <2>5, <2>7
<1>8. ASSUME NEW h \in BagToSet(held), HeldAnswers(h) \/ FailHeld(h)
      PROVE  OneChain' /\ NothingMissed'
  BY <1>2, <1>8, HeldGoing DEF FailHeld
<1>9. ASSUME NEW r \in BagToSet(requests), Serve(r) \/ FailRequest(r)
      PROVE  OneChain' /\ NothingMissed'
  BY <1>2, <1>9, ServeGoing
<1>10. ASSUME NEW a \in BagToSet(answers), Arrive(a) \/ FailAnswer(a)
       PROVE  OneChain' /\ NothingMissed'
  BY <1>2, <1>10, ArriveGoing, FailAnswerGoing
<1> QED
  BY <1>5, <1>6, <1>7, <1>8, <1>9, <1>10 DEF Next

-----------------------------------------------------------------------------
(* A fresh page.                                                           *)
LEMMA InitIndInv == Init => IndInv
<1> SUFFICES ASSUME Init PROVE IndInv
  OBVIOUS
<1>1. /\ BagToSet(answers) = {} /\ BagToSet(held) = {} /\ IsABag(held)
      /\ ui = NoUi /\ requests = Call("check_session")
      /\ taken = [s \in Sessions |-> 0] /\ fired = [s \in Sessions |-> <<>>]
  BY BagOfNothing DEF Init
<1>2. ui \in UiStates /\ RunningMeansPolling
  BY <1>1 DEF NoUi, UiStates, RunningMeansPolling
<1>3. EventsApart
  BY <1>1 DEF EventsApart
<1>4. OneChain
  <2>1. Alone(requests, Polls(requests)) /\ Polls(answers) = {}
    BY <1>1, CallIsAlone DEF Polls
  <2> QED
    BY <1>1, <2>1 DEF OneChain, Alone
<1>5. NothingMissed
  BY <1>1 DEF NothingMissed
<1> QED
  BY <1>2, <1>3, <1>4, <1>5, InitTypes DEF IndInv

(* Every step of the page, the server, the user and the network.           *)
LEMMA NextIndInv == IndInv /\ [Next]_vars => IndInv'
<1> SUFFICES ASSUME IndInv, [Next]_vars PROVE IndInv'
  OBVIOUS
<1>1. /\ ui \in UiStates /\ TypesOK /\ RunningMeansPolling /\ EventsApart
      /\ ~forked => OneChain /\ NothingMissed
  BY DEF IndInv
<1>2. TypesOK'
  BY <1>1, NextTypes
<1>3. ui' \in UiStates /\ RunningMeansPolling'
  BY <1>1, NextPolling
<1>4. EventsApart'
  BY <1>1, <1>2, NextApart
<1>5. ~forked' => OneChain' /\ NothingMissed'
  BY <1>1, NextGoing
<1> QED
  BY <1>2, <1>3, <1>4, <1>5 DEF IndInv

(* The inductive invariant of the page and its server holds of every       *)
(* behaviour.                                                              *)
THEOREM PageAndServer == Spec => []IndInv
BY InitIndInv, NextIndInv, PTL DEF Spec

(* As long as the page thinks that it polls, the answer to an update is    *)
(* under way or a timer will ask for one: UI.js leaves a poll alone that   *)
(* it takes for running.                                                   *)
THEOREM RunningPollsGoOn == Spec => []RunningMeansPolling
<1>1. IndInv => RunningMeansPolling
  BY DEF IndInv
<1> QED
  BY <1>1, PageAndServer, PTL

(* What is carried and what was fired, where the chain is one.             *)
LEMMA InOrder == IndInv => EventsInOrder
<1> SUFFICES ASSUME IndInv, NEW s \in Sessions
             PROVE  /\ \A i, j \in DOMAIN fired[s] : fired[s][i] = fired[s][j] => i = j
                    /\ ~forked => /\ fired[s] = [i \in 1..Len(fired[s]) |-> i]
                                  /\ Carried(s) = (Len(fired[s]) + 1)..taken[s]
  BY DEF EventsInOrder
<1>1. TypesOK /\ EventsApart /\ (~forked => OneChain /\ NothingMissed)
  BY DEF IndInv
<1>2. fired[s] \in Seq(Nat) /\ taken[s] \in 0..MaxEvents /\ MaxEvents \in Nat
  BY <1>1, WebAssumption DEF TypesOK
<1>3. DOMAIN fired[s] = 1..Len(fired[s]) /\ Len(fired[s]) \in Nat
  BY <1>2, LenProperties
<1>4. \A i, j \in DOMAIN fired[s] : fired[s][i] = fired[s][j] => i = j
  BY <1>1, <1>3 DEF EventsApart
<1>5. ASSUME ~forked
      PROVE  fired[s] = [i \in 1..Len(fired[s]) |-> i]
  <2>1. \A i \in 1..Len(fired[s]) : fired[s][i] = i
    BY <1>1, <1>5 DEF NothingMissed
  <2> DEFINE f == fired[s] N == 1..Len(fired[s])
  <2>2. f \in [N -> Nat] /\ \A i \in N : f[i] = i
    BY <1>2, <2>1
  <2> HIDE DEF f, N
  <2>3. f = [i \in N |-> i]
    BY <2>2
  <2> QED
    BY <2>3 DEF f, N
<1>6. ASSUME ~forked
      PROVE  Carried(s) = (Len(fired[s]) + 1)..taken[s]
  <2> DEFINE len == Len(fired[s])
  <2>1. ASSUME NEW a \in BagToSet(answers)
        PROVE  /\ a.first \in Nat /\ a.last \in Nat
               /\ Carries(a) <=> a.first..a.last # {}
               /\ Carries(a) /\ a.s = s => a.first = len + 1 /\ a.last = taken[s]
    <3>1. a.first \in Nat /\ a.last \in Nat
      BY <1>1 DEF TypesOK, BagOf, Answers
    <3>2. Carries(a) <=> a.first..a.last # {}
      BY <3>1 DEF Carries
    <3>3. Carries(a) /\ a.s = s => a.first = len + 1 /\ a.last = taken[s]
      BY <1>1, <1>6 DEF NothingMissed
    <3> QED
      BY <3>1, <3>2, <3>3
  <2>2. len = taken[s] \/ \E a \in BagToSet(answers) : Carries(a) /\ a.s = s
    BY <1>1, <1>6 DEF NothingMissed
  <2>3. \A a \in BagToSet(answers) : Carries(a) => a \in Polls(answers)
    BY <1>1, CarriersArePolls
  <2>4. Polls(answers) \subseteq BagToSet(answers)
    BY DEF Polls
  <2> HIDE DEF len
  <2>5. len \in Nat
    BY <1>3 DEF len
  <2>6. ASSUME NEW n \in Carried(s)
        PROVE  n \in (len + 1)..taken[s]
    <3>1. PICK a \in Polls(answers) : a.s = s /\ n \in a.first..a.last
      BY DEF Carried
    <3> QED
      BY <2>1, <2>4, <3>1
  <2>7. ASSUME NEW n \in (len + 1)..taken[s]
        PROVE  n \in Carried(s)
    <3>1. len # taken[s]
      BY <1>2, <2>5, <2>7
    <3>2. PICK a \in BagToSet(answers) : Carries(a) /\ a.s = s
      BY <2>2, <3>1
    <3>3. n \in a.first..a.last /\ a \in Polls(answers)
      BY <2>1, <2>3, <2>7, <3>2
    <3>4. n \in 1..MaxEvents
      BY <1>2, <2>5, <2>7
    <3> QED
      BY <3>2, <3>3, <3>4 DEF Carried
  <2> QED
    BY <2>6, <2>7 DEF len
<1> QED
  BY <1>4, <1>5, <1>6

(* An event is fired once at most; and as long as one chain of polls goes  *)
(* on, the page fires every event that left the queue, in the order in     *)
(* which they happened: get_events empties the queue into one answer, and  *)
(* the page asks again only when it has it.                                *)
THEOREM EventsFiredInOrder == Spec => []EventsInOrder
BY InOrder, PageAndServer, PTL

-----------------------------------------------------------------------------
(* The details panel of the page.                                          *)

(* A change of the selection keeps the invariant if the panel hears of one *)
(* that becomes empty.                                                     *)
LEMMA SelectKeepsInv ==
  ASSUME PanelInv,
         NEW next \in SUBSET Torrents, NEW emptied,
         Select(next, emptied),
         next = {} => emptied \/ selection = {},
         UNCHANGED <<active, torrentId, filesId>>
  PROVE  PanelInv'
<1>1. selection' = next /\ (first' = None <=> selection' = {})
  BY DetailsAssumption DEF Select, PanelInv
<1>2. CASE emptied
  <2>1. ~enabled'
    BY <1>2 DEF Select, ClearPanel
  <2> QED
    BY <1>1, <2>1 DEF PanelInv
<1>3. CASE ~emptied
  <2>1. enabled' = enabled
    BY <1>3 DEF Select
  <2>2. narrowed' <=> narrowed \/ (first # None /\ first' # first)
    BY <1>3 DEF Select
  <2>3. CASE first = None
    <3>1. enabled' => torrentId' = None /\ filesId' = None
      BY <2>1, <2>3 DEF PanelInv
    <3> QED
      BY <1>1, <3>1 DEF PanelInv
  <2>4. CASE first # None
    <3>1. first' # None
      BY <1>1, <1>3, <2>4 DEF PanelInv
    <3>2. ~narrowed' => ~narrowed /\ first' = first
      BY <2>2, <2>4
    <3>3. /\ active' = active
          /\ torrentId' = torrentId
          /\ filesId' = filesId
      OBVIOUS
    <3> QED
      BY <1>1, <2>1, <3>1, <3>2, <3>3 DEF PanelInv
  <2> QED
    BY <2>3, <2>4
<1> QED
  BY <1>2, <1>3

(* An update of the active tab puts it on the first torrent selected.      *)
LEMMA UpdatePanelKeepsInv ==
  ASSUME PanelInv, UpdatePanel(active'), UNCHANGED <<selection, first>>
  PROVE  PanelInv'
<1>1. CASE first = None
  <2>1. ~enabled'
    BY <1>1 DEF UpdatePanel, ClearPanel
  <2> QED
    BY <2>1 DEF PanelInv
<1>2. CASE first # None
  <2>1. UpdateTab(active', first)
    BY <1>2 DEF UpdatePanel
  <2>2. active' = "options" => torrentId' = first
    BY <2>1 DEF UpdateTab, optionsVars
  <2>3. active' = "files" => filesId' = first
    BY <2>1 DEF UpdateTab, filesVars
  <2> QED
    BY <1>2, <2>2, <2>3 DEF PanelInv
<1> QED
  BY <1>1, <1>2

(* Steps that change neither the selection nor the panel, nor put a tab on *)
(* another torrent, keep the invariant.                                    *)
LEMMA RestKeepsInv ==
  ASSUME PanelInv,
         UNCHANGED <<listVars, panelVars, torrentId, filesId>>
  PROVE  PanelInv'
<1>1. /\ selection' = selection /\ first' = first /\ active' = active
      /\ torrentId' = torrentId /\ filesId' = filesId
  BY DEF listVars, panelVars
<1>2. enabled' = enabled /\ narrowed' = narrowed
  BY DEF panelVars
<1> QED
  BY <1>1, <1>2 DEF PanelInv

(* A clear that comes late puts the options tab on no torrent.             *)
LEMMA LateClearKeepsInv ==
  ASSUME PanelInv, LateClear
  PROVE  PanelInv'
<1>1. torrentId' = None /\ filesId' = filesId
  BY DEF LateClear, ClearTabs, optionsVars
<1>2. /\ selection' = selection /\ first' = first /\ active' = active
      /\ enabled' = enabled /\ narrowed' = narrowed
  BY DEF LateClear, listVars
<1> QED
  BY <1>1, <1>2 DEF PanelInv

(* The presses of the mouse: each way the selection may change.            *)
LEMMA PressKeepsInv ==
  ASSUME PanelInv,
         NEW t \in Torrents, NEW ctrl \in BOOLEAN, Press(t, ctrl)
  PROVE  PanelInv'
<1>0. UNCHANGED <<active, torrentId, filesId>>
  BY DEF Press, optionsVars, filesVars
<1>1. CASE t \in selection /\ Select(selection \ {t}, selection = {t})
  BY <1>0, <1>1, SelectKeepsInv DEF PanelInv
<1>2. CASE Select(selection \cup {t}, FALSE)
  BY <1>0, <1>2, SelectKeepsInv DEF PanelInv
<1>3. CASE UNCHANGED <<selection, first, clears, enabled, narrowed>>
  BY <1>0, <1>3 DEF PanelInv
<1>4. CASE SelectAlone(t)
  BY <1>0, <1>4, SelectKeepsInv DEF SelectAlone
<1> QED
  BY <1>1, <1>2, <1>3, <1>4 DEF Press

(* The invariant holds of a fresh page.                                    *)
LEMMA InitPanelInv == DetailsInit => PanelInv
  BY DEF DetailsInit, PanelInv

(* Every step keeps it.                                                    *)
LEMMA PanelInvStep ==
  ASSUME PanelInv, [DetailsNext]_detailsVars
  PROVE  PanelInv'
<1>1. CASE Poll
  BY <1>1, UpdatePanelKeepsInv DEF Poll, listVars
<1>2. CASE LateClear
  BY <1>2, LateClearKeepsInv
<1>3. ASSUME NEW tab \in {"options", "files"}, TabChange(tab) PROVE PanelInv'
  BY <1>3, UpdatePanelKeepsInv DEF TabChange, listVars
<1>4. ASSUME NEW t \in Torrents, NEW ctrl \in BOOLEAN, Press(t, ctrl)
      PROVE  PanelInv'
  BY <1>4, PressKeepsInv
<1>5. ASSUME NEW clicked \in BOOLEAN, Release(clicked) PROVE PanelInv'
  <2>1. CASE clicked
    BY <1>5, <2>1, UpdatePanelKeepsInv DEF Release
  <2>2. CASE ~clicked
    <3>1. /\ selection' = selection /\ first' = first /\ active' = active
          /\ torrentId' = torrentId /\ filesId' = filesId
      BY <1>5, <2>2 DEF Release, optionsVars, filesVars
    <3>2. enabled' = enabled /\ narrowed' = narrowed
      BY <1>5, <2>2 DEF Release
    <3> QED
      BY <3>1, <3>2 DEF PanelInv
  <2> QED
    BY <2>1, <2>2
<1>6. ASSUME NEW t \in Torrents, MoveTo(t) PROVE PanelInv'
  <2>1. UNCHANGED <<active, torrentId, filesId>>
    BY <1>6 DEF MoveTo, optionsVars, filesVars
  <2> QED
    BY <1>6, <2>1, SelectKeepsInv DEF MoveTo, SelectAlone
<1>7. ASSUME NEW shown, NEW wipe, GridUpdate(shown, wipe) PROVE PanelInv'
  <2> DEFINE left == IF wipe THEN {} ELSE selection \cap shown
  <2>1. left \in SUBSET Torrents
    BY DEF PanelInv
  <2>2. UNCHANGED <<active, torrentId, filesId>>
    BY <1>7 DEF GridUpdate, optionsVars, filesVars
  <2>3. Select(left, left = {} /\ selection # {})
    BY <1>7 DEF GridUpdate
  <2> HIDE DEF left
  <2> QED
    BY <2>1, <2>2, <2>3, SelectKeepsInv
<1>8. ASSUME NEW o \in Options, Focus(o) PROVE PanelInv'
  BY <1>8, RestKeepsInv DEF Focus, filesVars
<1>9. ASSUME NEW v \in Values, Type(v) PROVE PanelInv'
  BY <1>9, RestKeepsInv DEF Type, filesVars
<1>10. CASE Leave
  BY <1>10, RestKeepsInv DEF Leave, filesVars
<1>11. CASE Apply
  BY <1>11, RestKeepsInv DEF Apply, optionsVars, filesVars
<1>12. ASSUME NEW r, ServeTab(r) PROVE PanelInv'
  BY <1>12, RestKeepsInv DEF ServeTab, optionsVars, filesVars
<1>13. ASSUME NEW a, ArriveAtTab(a) PROVE PanelInv'
  BY <1>13, RestKeepsInv DEF ArriveAtTab
<1>14. ASSUME NEW t, NEW o, NEW v, SetByAnother(t, o, v) PROVE PanelInv'
  BY <1>14, RestKeepsInv DEF SetByAnother, optionsVars, filesVars
<1>15. ASSUME NEW t, RemoveTorrent(t) PROVE PanelInv'
  BY <1>15, RestKeepsInv DEF RemoveTorrent, optionsVars, filesVars
<1>16. CASE UNCHANGED detailsVars
  BY <1>16, RestKeepsInv DEF detailsVars, optionsVars, filesVars
<1> QED
  BY <1>1, <1>2, <1>3, <1>4, <1>5, <1>6, <1>7, <1>8, <1>9, <1>10, <1>11, <1>12,
     <1>13, <1>14, <1>15, <1>16 DEF DetailsNext

(* The details panel keeps its invariant: an enabled tab is on the torrent *)
(* selected first, or on none.                                             *)
THEOREM DetailsInvariant == DetailsSpec => []PanelInv
<1>1. PanelInv /\ [DetailsNext]_detailsVars => PanelInv'
  BY PanelInvStep
<1> QED
  BY <1>1, InitPanelInv, PTL DEF DetailsSpec

(* What can be applied, or set in the menu of the files, is for the torrent *)
(* that is selected or for none, but for a selection that was narrowed.    *)
THEOREM ApplyReachesTheSelected == DetailsSpec => []ApplyIsForTheSelected
<1>1. PanelInv => ApplyIsForTheSelected
  BY DEF PanelInv, ApplyIsForTheSelected, CanUse
<1> QED
  BY <1>1, DetailsInvariant, PTL
=============================================================================
