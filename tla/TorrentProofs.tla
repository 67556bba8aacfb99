---------------------------- MODULE TorrentProofs ----------------------------
(***************************************************************************)
(* Proofs about the state of a torrent, for any number of alerts that      *)
(* wait and any status that may be read.                                   *)
(***************************************************************************)
EXTENDS Torrent, SequenceTheorems, TLAPS

-----------------------------------------------------------------------------
(* libtorrent keeps silent only if its torrent runs as before.             *)
LEMMA Silence ==
  ASSUME NEW l1 \in LtTorrent, NEW l2 \in LtTorrent, NEW s1 \in BOOLEAN, NEW s2 \in BOOLEAN
  PROVE  LET told == Told(l1, s1, l2, s2)
         IN  \/ told \in {<<"paused">>, <<"resumed">>}
             \/ told = << >> /\ ((l1.paused \/ s1) <=> (l2.paused \/ s2))
<1>1. CASE (l1.paused \/ s1) <=> (l2.paused \/ s2)
  BY <1>1 DEF Told
<1>2. CASE ~((l1.paused \/ s1) <=> (l2.paused \/ s2))
  BY <1>2 DEF Told
<1> QED
  BY <1>1, <1>2

(* An alert posted after others leaves them where they are.                *)
LEMMA Appended ==
  ASSUME NEW q \in Seq(Alerts), NEW m \in Seq(Alerts), NEW kinds
  PROVE  /\ q \o m \in Seq(Alerts)
         /\ Has(q, kinds) \/ Has(m, kinds) => Has(q \o m, kinds)
<1>1. /\ q \o m \in Seq(Alerts) /\ Len(q \o m) = Len(q) + Len(m)
      /\ Len(q) \in Nat /\ Len(m) \in Nat
      /\ \A i \in 1..Len(q) + Len(m) :
           (q \o m)[i] = IF i <= Len(q) THEN q[i] ELSE m[i - Len(q)]
  OBVIOUS
<1>2. ASSUME NEW i \in 1..Len(q), q[i] \in kinds
      PROVE  Has(q \o m, kinds)
  BY <1>1, <1>2 DEF Has
<1>3. ASSUME NEW i \in 1..Len(m), m[i] \in kinds
      PROVE  Has(q \o m, kinds)
  <2>1. i + Len(q) \in 1..Len(q) + Len(m) /\ (q \o m)[i + Len(q)] = m[i]
    BY <1>1
  <2> QED
    BY <1>1, <1>3, <2>1 DEF Has
<1> QED
  BY <1>1, <1>2, <1>3 DEF Has

(* What is left after one alert was handled.                               *)
LEMMA Handled ==
  ASSUME NEW q \in Seq(Alerts), q # << >>
  PROVE  /\ Tail(q) \in Seq(Alerts) /\ Head(q) \in Alerts
         /\ \A kinds : Has(q, kinds) /\ Head(q) \notin kinds => Has(Tail(q), kinds)
<1>1. /\ Tail(q) \in Seq(Alerts) /\ Head(q) = q[1] /\ Head(q) \in Alerts
      /\ Len(q) \in Nat \ {0} /\ Len(Tail(q)) = Len(q) - 1
      /\ \A i \in 1..Len(q) - 1 : Tail(q)[i] = q[i + 1]
  BY HeadTailProperties, LenProperties
<1>2. ASSUME NEW kinds, NEW i \in 1..Len(q), q[i] \in kinds, Head(q) \notin kinds
      PROVE  Has(Tail(q), kinds)
  <2>1. i # 1
    BY <1>1, <1>2
  <2>2. i - 1 \in 1..Len(q) - 1
    BY <1>1, <2>1
  <2>3. Tail(q)[i - 1] = q[i]
    BY <1>1, <2>2
  <2> QED
    BY <1>1, <1>2, <2>2, <2>3 DEF Has
<1> QED
  BY <1>1, <1>2 DEF Has

(* What Post leaves in the queue.                                          *)
LEMMA Posted ==
  ASSUME lt \in LtTorrent, sess \in BOOLEAN, NEW q \in Seq(Alerts), NEW l \in LtTorrent,
         NEW s \in BOOLEAN, NEW more \in Seq(Alerts), Post(q, l, s, more)
  PROVE  /\ alerts' \in Seq(Alerts)
         /\ \A kinds : Has(q, kinds) \/ Has(more, kinds) => Has(alerts', kinds)
         /\ Has(alerts', Updates) \/ ((lt.paused \/ sess) <=> (l.paused \/ s))
<1> DEFINE told == Told(lt, sess, l, s)
<1>1. alerts' = (q \o told) \o more
  BY DEF Post
<1>2. \/ told \in {<<"paused">>, <<"resumed">>}
      \/ told = << >> /\ ((lt.paused \/ sess) <=> (l.paused \/ s))
  BY Silence
<1>3. told \in Seq(Alerts)
  <2>1. << >> \in Seq(Alerts) /\ <<"paused">> \in Seq(Alerts) /\ <<"resumed">> \in Seq(Alerts)
    BY DEF Alerts
  <2> HIDE DEF told
  <2> QED
    BY <1>2, <2>1
<1>4. told \in {<<"paused">>, <<"resumed">>} => Has(told, Updates)
  <2> SUFFICES ASSUME told \in {<<"paused">>, <<"resumed">>}
               PROVE  Has(told, Updates)
    OBVIOUS
  <2>1. Len(told) = 1 /\ told[1] \in {"paused", "resumed"}
    OBVIOUS
  <2> QED
    BY <2>1 DEF Has, Updates, Alerts
<1> HIDE DEF told
<1>5. /\ q \o told \in Seq(Alerts)
      /\ \A kinds : Has(q, kinds) \/ Has(told, kinds) => Has(q \o told, kinds)
  BY <1>3, Appended
<1>6. /\ (q \o told) \o more \in Seq(Alerts)
      /\ \A kinds : Has(q \o told, kinds) \/ Has(more, kinds)
                      => Has((q \o told) \o more, kinds)
  BY <1>5, Appended
<1> QED
  BY <1>1, <1>2, <1>4, <1>5, <1>6

-----------------------------------------------------------------------------
(* update_state() shows what libtorrent does, and leaves its torrent as it *)
(* is but for auto_managed.                                                *)
LEMMA Updated ==
  ASSUME NEW l \in LtTorrent, NEW f \in {"no", "was_paused", "was_running"},
         NEW s \in BOOLEAN, UpdateState(l, f, s)
  PROVE  /\ lt' \in LtTorrent /\ cache' \in Status /\ missed' = FALSE
         /\ lt'.paused = l.paused /\ lt'.error = l.error
         /\ lt'.auto => l.auto
         /\ state' = StateOf(lt', f, s) /\ state' \in States
         /\ f # "no" => state' = "Error"
<1>1. cache' = Seen(l) /\ state' = StateOf(l, f, s) /\ missed' = FALSE
  BY DEF UpdateState
<1>2. cache' \in Status
  BY <1>1 DEF Seen, Status, LtTorrent
<1>3. state' \in States /\ (f # "no" \/ l.error => state' = "Error")
  BY <1>1 DEF StateOf, States
<1>4. CASE f = "no" /\ l.error
  <2>1. lt' = [l EXCEPT !.auto = FALSE]
    BY <1>4 DEF UpdateState
  <2>2. lt' \in LtTorrent /\ lt'.paused = l.paused /\ lt'.error = l.error /\ ~lt'.auto
    BY <2>1 DEF LtTorrent
  <2>3. StateOf(lt', f, s) = "Error"
    BY <1>4, <2>2 DEF StateOf
  <2> QED
    BY <1>1, <1>2, <1>3, <1>4, <2>2, <2>3
<1>5. CASE ~(f = "no" /\ l.error)
  <2>1. lt' = l
    BY <1>5 DEF UpdateState
  <2> QED
    BY <1>1, <1>2, <1>3, <2>1
<1> QED
  BY <1>4, <1>5

(* A status read is one, be it old or new.                                 *)
LEMMA ReadsStatus ==
  ASSUME cache \in Status, NEW l \in LtTorrent, NEW s \in Reads(l)
  PROVE  s \in Status /\ s.paused \in BOOLEAN
<1>1. s = Seen(l) \/ s = cache
  BY DEF Reads
<1> QED
  BY <1>1 DEF Seen, Status, LtTorrent

(* The facts that nearly every proof below starts from.                    *)
LEMMA Known ==
  ASSUME IndInv
  PROVE  /\ lt \in LtTorrent /\ sess \in BOOLEAN /\ alerts \in Seq(Alerts)
         /\ cache \in Status /\ posted \in Status /\ state \in States
         /\ forced \in {"no", "was_paused", "was_running"}
         /\ << >> \in Seq(Alerts) /\ <<"changed">> \in Seq(Alerts)
         /\ <<"error">> \in Seq(Alerts) /\ <<"moved">> \in Seq(Alerts)
         /\ <<"checked", "changed">> \in Seq(Alerts) /\ <<"status">> \in Seq(Alerts)
<1>1. /\ << >> \in Seq(Alerts) /\ <<"changed">> \in Seq(Alerts)
      /\ <<"error">> \in Seq(Alerts) /\ <<"moved">> \in Seq(Alerts)
      /\ <<"checked", "changed">> \in Seq(Alerts) /\ <<"status">> \in Seq(Alerts)
  BY DEF Alerts
<1> QED
  BY <1>1 DEF IndInv, TypeOK

(* The invariant, opened.                                                  *)
LEMMA Opened ==
  ASSUME IndInv
  PROVE  /\ managed \in BOOLEAN /\ forcing \in BOOLEAN /\ repause \in BOOLEAN
         /\ command \in {"none", "pause", "resume", "recheck"}
         /\ calm \in BOOLEAN /\ before \in BOOLEAN /\ missed \in BOOLEAN
         /\ lt.error /\ forced = "no" => Has(alerts, {"error"})
         /\ command = "pause" /\ calm /\ forced = "no" =>
              ForGood(lt) \/ Has(alerts, {"error"})
         /\ command = "recheck" /\ before =>
              ~lt.auto /\ IF forcing THEN repause ELSE lt.paused
BY DEF IndInv, TypeOK, ErrorIsForced, PauseOrError, RecheckKnows

(* The state is the right one as long as what it depends on is, or an      *)
(* alert tells.                                                            *)
LEMMA SameState ==
  ASSUME NEW l1 \in LtTorrent, NEW l2 \in LtTorrent, NEW f, NEW s \in BOOLEAN,
         l1.error = l2.error, l1.moving = l2.moving, l1.checking = l2.checking,
         s \/ ~l1.paused \/ l1.auto = l2.auto, (l1.paused \/ s) <=> (l2.paused \/ s)
  PROVE  StateOf(l1, f, s) = StateOf(l2, f, s)
<1>1. CASE s
  BY <1>1 DEF StateOf
<1>2. CASE ~s
  <2>1. l1.paused = l2.paused /\ (l1.paused => l1.auto = l2.auto)
    BY <1>2 DEF LtTorrent
  <2> QED
    BY <1>2, <2>1 DEF StateOf
<1> QED
  BY <1>1, <1>2

-----------------------------------------------------------------------------
(* Steps of libtorrent: it tells what it does, and does not run a torrent  *)
(* that is paused and out of its queue.                                    *)
LEMMA LtSetsKeepsInv ==
  ASSUME IndInv, NEW l \in LtTorrent, NEW more \in Seq(Alerts), LtSets(l, more),
         \/ Has(more, Updates)
         \/ /\ l.auto = lt.auto /\ l.error = lt.error /\ l.moving = lt.moving
            /\ l.checking = lt.checking,
         l.error => lt.error \/ Has(more, {"error"}),
         l.auto = lt.auto,
         lt.paused /\ ~lt.auto => l.paused
  PROVE  IndInv'
<1>1. /\ lt' = l /\ Post(alerts, l, sess, more)
      /\ UNCHANGED <<sess, posted, cache, state, forced, managed, checks, history, missed>>
  BY DEF LtSets
<1>2. /\ alerts' \in Seq(Alerts)
      /\ \A kinds : Has(alerts, kinds) \/ Has(more, kinds) => Has(alerts', kinds)
      /\ Has(alerts', Updates) \/ ((lt.paused \/ sess) <=> (l.paused \/ sess))
  BY <1>1, Known, Posted
<1>3. TypeOK'
  BY <1>1, <1>2 DEF IndInv, TypeOK, checks, history
<1>4. StateOrAlert'
  <2>1. CASE Has(alerts', Updates)
    BY <2>1 DEF StateOrAlert
  <2>2. CASE ~Has(alerts', Updates)
    <3>1. ~Has(alerts, Updates) /\ ~Has(more, Updates)
      BY <1>2, <2>2
    <3>2. StateOf(l, forced, sess) = StateOf(lt, forced, sess)
      BY <1>2, <2>2, <3>1, Known, SameState
    <3> QED
      BY <1>1, <3>1, <3>2 DEF IndInv, StateOrAlert
  <2> QED
    BY <2>1, <2>2
<1>5. ErrorIsForced'
  BY <1>1, <1>2 DEF IndInv, ErrorIsForced
<1>6. PauseOrError' /\ RecheckKnows'
  BY <1>1, <1>2 DEF IndInv, PauseOrError, RecheckKnows, ForGood, checks, history
<1> QED
  BY <1>3, <1>4, <1>5, <1>6 DEF IndInv

(* Each step of libtorrent but that of posting a status.                   *)
LEMMA LibtorrentKeepsInv ==
  ASSUME IndInv, LtQueue \/ LtError \/ LtChecked \/ LtMoved \/ LtSeeds
  PROVE  IndInv'
<1>1. CASE LtQueue
  <2>1. [lt EXCEPT !.paused = ~@] \in LtTorrent
    BY Known DEF LtTorrent
  <2> QED
    BY <1>1, <2>1, Known, LtSetsKeepsInv DEF LtQueue, LtTorrent
<1>2. CASE LtError
  <2>1. PICK b \in BOOLEAN :
          LtSets([lt EXCEPT !.error = TRUE, !.paused = b, !.checking = FALSE], <<"error">>)
    BY <1>2 DEF LtError
  <2>2. [lt EXCEPT !.error = TRUE, !.paused = b, !.checking = FALSE] \in LtTorrent
    BY Known DEF LtTorrent
  <2>3. Has(<<"error">>, Updates) /\ Has(<<"error">>, {"error"})
    BY DEF Has, Updates, Alerts
  <2> QED
    BY <1>2, <2>1, <2>2, <2>3, Known, LtSetsKeepsInv DEF LtError, LtTorrent
<1>3. CASE LtChecked
  <2>1. [lt EXCEPT !.checking = FALSE] \in LtTorrent
    BY Known DEF LtTorrent
  <2>2. Has(<<"checked", "changed">>, Updates)
    BY DEF Has, Updates, Alerts
  <2> QED
    BY <1>3, <2>1, <2>2, Known, LtSetsKeepsInv DEF LtChecked, LtTorrent
<1>4. CASE LtMoved
  <2>1. PICK kind \in {"moved", "error"} : LtSets([lt EXCEPT !.moving = FALSE], <<kind>>)
    BY <1>4 DEF LtMoved
  <2>2. [lt EXCEPT !.moving = FALSE] \in LtTorrent
    BY Known DEF LtTorrent
  <2>3. Has(<<kind>>, Updates)
    BY DEF Has, Updates, Alerts
  <2>4. <<kind>> \in Seq(Alerts)
    BY DEF Alerts
  <2> QED
    BY <2>1, <2>2, <2>3, <2>4, Known, LtSetsKeepsInv DEF LtTorrent
<1>5. CASE LtSeeds
  <2>1. [lt EXCEPT !.over = TRUE] \in LtTorrent
    BY Known DEF LtTorrent
  <2> QED
    BY <1>5, <2>1, Known, LtSetsKeepsInv DEF LtSeeds, LtTorrent
<1> QED
  BY <1>1, <1>2, <1>3, <1>4, <1>5

(* A status posted tells nothing of the state.                             *)
LEMMA LtPostsStatusKeepsInv == IndInv /\ LtPostsStatus => IndInv'
<1> SUFFICES ASSUME IndInv, LtPostsStatus
             PROVE  IndInv'
  OBVIOUS
<1>1. /\ alerts' = alerts \o <<"status">> /\ posted' = Seen(lt)
      /\ UNCHANGED <<lt, sess, cache, state, forced, managed, checks, history, missed>>
  BY Known DEF LtPostsStatus
<1>2. /\ alerts' \in Seq(Alerts) /\ posted' \in Status
      /\ \A kinds : Has(alerts, kinds) => Has(alerts', kinds)
  BY <1>1, Known, Appended DEF Seen, Status, LtTorrent
<1>3. TypeOK'
  BY <1>1, <1>2 DEF IndInv, TypeOK, checks, history
<1> QED
  BY <1>1, <1>2, <1>3 DEF IndInv, StateOrAlert, ErrorIsForced, PauseOrError,
       RecheckKnows, checks, history

-----------------------------------------------------------------------------
(* A step that ends in update_state().                                     *)
LEMMA UpdateKeepsInv ==
  ASSUME NEW l \in LtTorrent, NEW f \in {"no", "was_paused", "was_running"},
         NEW s \in BOOLEAN, UpdateState(l, f, s), sess' = s, forced' = f,
         alerts' \in Seq(Alerts), posted' \in Status, managed' \in BOOLEAN,
         forcing' \in BOOLEAN, repause' \in BOOLEAN,
         command' \in {"none", "pause", "resume", "recheck"}, calm' \in BOOLEAN,
         before' \in BOOLEAN,
         l.error /\ f = "no" => Has(alerts', {"error"}),
         command' = "pause" /\ calm' /\ f = "no" =>
           ForGood(l) \/ Has(alerts', {"error"}),
         command' = "recheck" /\ before' =>
           ~l.auto /\ IF forcing' THEN repause' ELSE l.paused
  PROVE  IndInv'
<1>1. /\ lt' \in LtTorrent /\ cache' \in Status
      /\ missed' = FALSE /\ lt'.paused = l.paused /\ lt'.error = l.error
      /\ lt'.auto => l.auto
      /\ state' = StateOf(lt', f, s) /\ state' \in States
      /\ f # "no" => state' = "Error"
  BY Updated
<1>2. TypeOK'
  BY <1>1 DEF TypeOK
<1>3. StateOrAlert' /\ ErrorIsForced'
  BY <1>1 DEF StateOrAlert, ErrorIsForced
<1>4. PauseOrError' /\ RecheckKnows'
  BY <1>1 DEF PauseOrError, RecheckKnows, ForGood
<1> QED
  BY <1>2, <1>3, <1>4 DEF IndInv

(* The handlers that do no more than update_state().                       *)
LEMMA OnChangeKeepsInv == IndInv /\ OnChange => IndInv'
<1> SUFFICES ASSUME IndInv, OnChange
             PROVE  IndInv'
  OBVIOUS
<1>1. /\ alerts # << >> /\ alerts' = Tail(alerts) /\ Head(alerts) # "error"
      /\ UpdateState(lt, forced, sess)
      /\ UNCHANGED <<sess, posted, forced, managed, checks, history>>
  BY DEF OnChange
<1>2. alerts' \in Seq(Alerts) /\ (Has(alerts, {"error"}) => Has(alerts', {"error"}))
  BY <1>1, Known, Handled
<1> QED
  BY <1>1, <1>2, Known, UpdateKeepsInv
     DEF IndInv, TypeOK, ErrorIsForced, PauseOrError, RecheckKnows, checks,
         history

(* The end of a check pauses a torrent again that was paused before.       *)
LEMMA OnTorrentCheckedKeepsInv == IndInv /\ OnTorrentChecked => IndInv'
<1> SUFFICES ASSUME IndInv, OnTorrentChecked
             PROVE  IndInv'
  OBVIOUS
<1> DEFINE l == IF forcing /\ repause THEN [lt EXCEPT !.paused = TRUE] ELSE lt
<1>1. /\ alerts # << >> /\ Head(alerts) # "error"
      /\ Post(Tail(alerts), l, sess, << >>) /\ UpdateState(l, forced, sess)
      /\ forcing' = FALSE
      /\ UNCHANGED <<sess, posted, forced, managed, repause, history>>
  BY DEF OnTorrentChecked
<1>2. /\ l \in LtTorrent /\ l.auto = lt.auto /\ l.error = lt.error
      /\ lt.paused => l.paused
      /\ forcing /\ repause => l.paused
  BY Known DEF LtTorrent
<1> HIDE DEF l
<1>3. /\ Tail(alerts) \in Seq(Alerts)
      /\ Has(alerts, {"error"}) => Has(Tail(alerts), {"error"})
  BY <1>1, Known, Handled
<1>4. /\ alerts' \in Seq(Alerts)
      /\ Has(alerts, {"error"}) => Has(alerts', {"error"})
  BY <1>1, <1>2, <1>3, Known, Posted
<1>5. /\ posted' \in Status /\ managed' \in BOOLEAN /\ forcing' \in BOOLEAN
      /\ repause' \in BOOLEAN /\ command' \in {"none", "pause", "resume", "recheck"}
      /\ calm' \in BOOLEAN /\ before' \in BOOLEAN /\ sess' = sess /\ forced' = forced
  BY <1>1, Known, Opened DEF history
<1>6. /\ l.error /\ forced = "no" => Has(alerts', {"error"})
      /\ command' = "pause" /\ calm' /\ forced = "no" =>
           ForGood(l) \/ Has(alerts', {"error"})
      /\ command' = "recheck" /\ before' => ~l.auto /\ l.paused
  BY <1>1, <1>2, <1>4, Opened DEF history, ForGood
<1> QED
  BY <1>1, <1>2, <1>4, <1>5, <1>6, Known, UpdateKeepsInv

(* force_error_state().                                                    *)
LEMMA OnErrorKeepsInv == IndInv /\ OnError => IndInv'
<1> SUFFICES ASSUME IndInv, OnError
             PROVE  IndInv'
  OBVIOUS
<1> DEFINE l == [lt EXCEPT !.auto = FALSE, !.paused = TRUE]
           f == IF lt.paused THEN "was_paused" ELSE "was_running"
<1>1. /\ alerts # << >> /\ forced' = f
      /\ Post(Tail(alerts), l, sess, << >>) /\ UpdateState(l, f, sess)
      /\ UNCHANGED <<sess, posted, managed, checks, history>>
  BY DEF OnError
<1>2. /\ l \in LtTorrent /\ ~l.auto /\ l.paused
      /\ f \in {"no", "was_paused", "was_running"} /\ f # "no"
  BY Known DEF LtTorrent
<1> HIDE DEF l, f
<1>3. Tail(alerts) \in Seq(Alerts)
  BY <1>1, Known, Handled
<1>4. alerts' \in Seq(Alerts)
  BY <1>1, <1>2, <1>3, Known, Posted
<1> QED
  BY <1>1, <1>2, <1>4, Known, UpdateKeepsInv
     DEF IndInv, TypeOK, PauseOrError, RecheckKnows, checks, history

(* A status is stored, which this proof has no use for.                    *)
LEMMA OnStateUpdateKeepsInv == IndInv /\ OnStateUpdate => IndInv'
<1> SUFFICES ASSUME IndInv, OnStateUpdate
             PROVE  IndInv'
  OBVIOUS
<1>1. /\ alerts # << >> /\ alerts' = Tail(alerts) /\ Head(alerts) = "status"
      /\ cache' = posted
      /\ UNCHANGED <<lt, sess, posted, state, forced, managed, checks, history, missed>>
  BY DEF OnStateUpdate
<1>2. /\ alerts' \in Seq(Alerts)
      /\ Has(alerts, Updates) => Has(alerts', Updates)
      /\ Has(alerts, {"error"}) => Has(alerts', {"error"})
  BY <1>1, Known, Handled DEF Updates
<1>3. TypeOK'
  BY <1>1, <1>2 DEF IndInv, TypeOK, checks, history
<1> QED
  BY <1>1, <1>2, <1>3 DEF IndInv, StateOrAlert, ErrorIsForced, PauseOrError,
       RecheckKnows, checks, history

-----------------------------------------------------------------------------
(* Pausing and resuming the session.                                       *)
LEMMA PauseSessionKeepsInv == IndInv /\ PauseSession => IndInv'
<1> SUFFICES ASSUME IndInv, PauseSession
             PROVE  IndInv'
  OBVIOUS
<1>1. /\ ~sess /\ sess' = TRUE /\ Post(alerts, lt, TRUE, << >>)
      /\ UNCHANGED <<lt, posted, cache, state, forced, managed, checks, history, missed>>
  BY DEF PauseSession
<1>2. /\ alerts' \in Seq(Alerts)
      /\ \A kinds : Has(alerts, kinds) => Has(alerts', kinds)
      /\ Has(alerts', Updates) \/ lt.paused
  BY <1>1, Known, Posted
<1>3. TypeOK'
  BY <1>1, <1>2 DEF IndInv, TypeOK, checks, history
<1>4. StateOrAlert'
  <2>1. CASE Has(alerts', Updates)
    BY <2>1 DEF StateOrAlert
  <2>2. CASE ~Has(alerts', Updates)
    <3>1. lt.paused /\ (missed \/ state = StateOf(lt, forced, FALSE))
      BY <1>1, <1>2, <2>2, Known DEF IndInv, StateOrAlert
    <3>2. StateOf(lt, forced, FALSE) \in {"Queued", StateOf(lt, forced, TRUE)}
      BY <3>1 DEF StateOf
    <3> QED
      BY <1>1, <3>1, <3>2 DEF StateOrAlert
  <2> QED
    BY <2>1, <2>2
<1> QED
  BY <1>1, <1>2, <1>3, <1>4
     DEF IndInv, ErrorIsForced, PauseOrError, RecheckKnows, checks, history

(* The states are updated when the session goes on.                        *)
LEMMA ResumeSessionKeepsInv == IndInv /\ ResumeSession => IndInv'
<1> SUFFICES ASSUME IndInv, ResumeSession
             PROVE  IndInv'
  OBVIOUS
<1>1. /\ sess' = FALSE /\ Post(alerts, lt, FALSE, << >>) /\ UpdateState(lt, forced, FALSE)
      /\ UNCHANGED <<posted, forced, managed, checks, history>>
  BY DEF ResumeSession
<1>2. /\ alerts' \in Seq(Alerts)
      /\ Has(alerts, {"error"}) => Has(alerts', {"error"})
  BY <1>1, Known, Posted
<1>3. /\ posted' \in Status /\ managed' \in BOOLEAN /\ forcing' \in BOOLEAN
      /\ repause' \in BOOLEAN /\ command' \in {"none", "pause", "resume", "recheck"}
      /\ calm' \in BOOLEAN /\ before' \in BOOLEAN /\ forced' = forced
  BY <1>1, Known, Opened DEF checks, history
<1>4. /\ lt.error /\ forced = "no" => Has(alerts', {"error"})
      /\ command' = "pause" /\ calm' /\ forced = "no" =>
           ForGood(lt) \/ Has(alerts', {"error"})
      /\ command' = "recheck" /\ before' =>
           ~lt.auto /\ IF forcing' THEN repause' ELSE lt.paused
  BY <1>1, <1>2, Opened DEF checks, history
<1> QED
  BY <1>1, <1>2, <1>3, <1>4, Known, UpdateKeepsInv

-----------------------------------------------------------------------------
(* Moving the storage leaves the flags alone.                              *)
LEMMA MoveStorageKeepsInv == IndInv /\ MoveStorage => IndInv'
<1> SUFFICES ASSUME IndInv, MoveStorage
             PROVE  IndInv'
  OBVIOUS
<1> DEFINE l == [lt EXCEPT !.moving = TRUE]
<1>1. /\ UpdateState(l, forced, sess)
      /\ UNCHANGED <<sess, alerts, posted, forced, managed, checks, history>>
  BY DEF MoveStorage
<1>2. l \in LtTorrent /\ l.auto = lt.auto /\ l.error = lt.error /\ l.paused = lt.paused
  BY Known DEF LtTorrent
<1> HIDE DEF l
<1>3. /\ alerts' \in Seq(Alerts) /\ posted' \in Status /\ managed' \in BOOLEAN
      /\ forcing' \in BOOLEAN /\ repause' \in BOOLEAN
      /\ command' \in {"none", "pause", "resume", "recheck"}
      /\ calm' \in BOOLEAN /\ before' \in BOOLEAN /\ sess' = sess /\ forced' = forced
  BY <1>1, Known, Opened DEF checks, history
<1>4. /\ l.error /\ forced = "no" => Has(alerts', {"error"})
      /\ command' = "pause" /\ calm' /\ forced = "no" =>
           ForGood(l) \/ Has(alerts', {"error"})
      /\ command' = "recheck" /\ before' =>
           ~l.auto /\ IF forcing' THEN repause' ELSE l.paused
  BY <1>1, <1>2, Opened DEF checks, history, ForGood
<1> QED
  BY <1>1, <1>2, <1>3, <1>4, Known, UpdateKeepsInv

(* A torrent paused for good is left alone by set_auto_managed(), but for  *)
(* an old status, which the history notes.                                 *)
LEMMA SetAutoManagedKeepsInv ==
  ASSUME IndInv, NEW b \in BOOLEAN, SetAutoManaged(b)
  PROVE  IndInv'
<1> DEFINE l == [lt EXCEPT !.auto = b]
<1>1. PICK s \in Reads(lt) :
        /\ IF ForGood(s)
             THEN cache' = s /\ UNCHANGED <<lt, state, missed>>
             ELSE UpdateState(l, forced, sess)
        /\ calm' = (calm /\ (ForGood(lt) => ForGood(s)))
  BY DEF SetAutoManaged
<1>2. s \in Status
  BY Known, ReadsStatus
<1>3. /\ managed' = b /\ command' = IF command = "recheck" THEN "none" ELSE command
      /\ UNCHANGED <<sess, alerts, posted, forced, forcing, repause, before>>
  BY DEF SetAutoManaged, checks
<1>4. /\ alerts' \in Seq(Alerts) /\ posted' \in Status /\ managed' \in BOOLEAN
      /\ forcing' \in BOOLEAN /\ repause' \in BOOLEAN
      /\ command' \in {"none", "pause", "resume", "recheck"} /\ command' # "recheck"
      /\ calm' \in BOOLEAN /\ before' \in BOOLEAN /\ sess' = sess /\ forced' = forced
  BY <1>1, <1>3, Known, Opened
<1>5. l \in LtTorrent /\ l.error = lt.error
  BY Known DEF LtTorrent
<1> HIDE DEF l
<1>6. CASE ForGood(s)
  <2>1. cache' = s /\ lt' = lt /\ state' = state /\ missed' = missed
    BY <1>1, <1>6
  <2>2. TypeOK'
    BY <1>2, <1>3, <1>4, <2>1 DEF IndInv, TypeOK
  <2>3. StateOrAlert' /\ ErrorIsForced'
    BY <1>3, <2>1 DEF IndInv, StateOrAlert, ErrorIsForced
  <2>4. command' = "pause" /\ calm' => command = "pause" /\ calm
    BY <1>1, <1>3, Opened
  <2>5. PauseOrError' /\ RecheckKnows'
    BY <1>3, <1>4, <2>1, <2>4, Opened DEF PauseOrError, RecheckKnows
  <2> QED
    BY <2>2, <2>3, <2>5 DEF IndInv
<1>7. CASE ~ForGood(s)
  <2>1. UpdateState(l, forced, sess)
    BY <1>1, <1>7
  <2>2. command' = "pause" /\ calm' => command = "pause" /\ calm /\ ~ForGood(lt)
    BY <1>1, <1>3, <1>7, Opened
  <2>3. /\ l.error /\ forced = "no" => Has(alerts', {"error"})
        /\ command' = "pause" /\ calm' /\ forced = "no" => Has(alerts', {"error"})
    BY <1>3, <1>5, <2>2, Opened
  <2> QED
    BY <1>4, <1>5, <2>1, <2>3, Known, UpdateKeepsInv
<1> QED
  BY <1>6, <1>7

-----------------------------------------------------------------------------
(* The three ways through pause(), by the user or at the ratio.            *)
LEMMA DoPauseKeepsInv ==
  ASSUME IndInv, NEW s \in Reads([lt EXCEPT !.auto = FALSE]), DoPause(s),
         \/ command' = "pause" /\ calm' = ~Misled(s)
         \/ UNCHANGED <<command, calm>>
  PROVE  IndInv'
<1> DEFINE l == [lt EXCEPT !.auto = FALSE]
           p == [l EXCEPT !.paused = TRUE]
<1>1. UNCHANGED <<sess, posted, forced, managed, forcing, repause, before>>
  BY DEF DoPause, checks
<1>2. /\ l \in LtTorrent /\ ~l.auto /\ l.paused = lt.paused /\ l.error = lt.error
      /\ p \in LtTorrent /\ ~p.auto /\ p.paused /\ p.error = lt.error
      /\ p.moving = lt.moving /\ p.checking = lt.checking
  BY Known DEF LtTorrent
<1>3. /\ posted' \in Status /\ managed' \in BOOLEAN
      /\ forcing' \in BOOLEAN /\ repause' \in BOOLEAN
      /\ command' \in {"none", "pause", "resume", "recheck"}
      /\ calm' \in BOOLEAN /\ before' \in BOOLEAN /\ sess' = sess /\ forced' = forced
      /\ s \in Status /\ s.paused \in BOOLEAN
  <2>1. s \in Status /\ s.paused \in BOOLEAN
    BY <1>2, Known, ReadsStatus
  <2>2. Misled(s) \in BOOLEAN
    BY DEF Misled
  <2> QED
    BY <1>1, <2>1, <2>2, Known, Opened
<1>4. command' = "recheck" /\ before' => /\ IF forcing' THEN repause' ELSE lt.paused
                                         /\ ~lt.auto
  BY <1>1, Opened
<1>5. CASE state = "Error" /\ lt' = l /\ UNCHANGED <<alerts, cache, state, missed>>
  <2>1. TypeOK'
    BY <1>2, <1>3, <1>5, Known DEF IndInv, TypeOK
  <2>2. StateOf(lt, forced, sess) = "Error" => (forced # "no" \/ lt.error)
    BY DEF StateOf
  <2>3. forced # "no" \/ l.error => StateOf(l, forced, sess) = "Error"
    BY DEF StateOf
  <2>4. StateOrAlert'
    BY <1>1, <1>2, <1>5, <2>2, <2>3 DEF IndInv, StateOrAlert
  <2>5. ErrorIsForced'
    BY <1>1, <1>2, <1>5, Opened DEF ErrorIsForced
  <2>6. command' = "pause" /\ calm' /\ forced = "no" =>
          ForGood(lt) \/ Has(alerts, {"error"})
    BY <1>5, Opened DEF Misled
  <2>7. PauseOrError' /\ RecheckKnows'
    BY <1>1, <1>2, <1>4, <1>5, <2>6 DEF PauseOrError, RecheckKnows, ForGood
  <2> QED
    BY <2>1, <2>4, <2>5, <2>7 DEF IndInv
<1>6. CASE state # "Error" /\ s.paused /\ UpdateState(l, forced, sess) /\ UNCHANGED alerts
  <2> HIDE DEF l
  <2>1. command' = "pause" /\ calm' /\ forced = "no" => ForGood(l) \/ Has(alerts', {"error"})
    <3>1. command' = "pause" /\ calm' => lt.paused \/ (command = "pause" /\ calm)
      BY <1>6 DEF Misled
    <3> QED
      BY <1>2, <1>6, <3>1, Opened DEF ForGood
  <2>2. /\ l.error /\ forced = "no" => Has(alerts', {"error"})
        /\ command' = "recheck" /\ before' => IF forcing' THEN repause' ELSE l.paused
    BY <1>2, <1>4, <1>6, Opened
  <2> QED
    BY <1>2, <1>3, <1>6, <2>1, <2>2, Known, UpdateKeepsInv
<1>7. CASE /\ state # "Error" /\ ~s.paused /\ lt' = p /\ cache' = s
           /\ Post(alerts, p, sess, << >>) /\ UNCHANGED state
           /\ missed' = (missed \/ (lt.paused /\ lt.auto /\ ~sess))
  <2>1. /\ lt' = p /\ cache' \in Status /\ state' = state
        /\ Post(alerts, p, sess, << >>)
        /\ missed' \in BOOLEAN /\ (missed \/ (lt.paused /\ lt.auto /\ ~sess) => missed')
        /\ p.auto = lt.auto \/ (lt.auto /\ ~p.auto)
    BY <1>2, <1>3, <1>7, Known, Opened DEF LtTorrent
  <2> HIDE DEF l, p
  <2>2. /\ alerts' \in Seq(Alerts)
        /\ \A kinds : Has(alerts, kinds) => Has(alerts', kinds)
        /\ Has(alerts', Updates) \/ ((lt.paused \/ sess) <=> (p.paused \/ sess))
    BY <1>2, <2>1, Known, Posted
  <2>3. TypeOK'
    BY <1>2, <1>3, <2>1, <2>2, Known DEF IndInv, TypeOK
  <2>4. StateOrAlert'
    <3>1. CASE Has(alerts', Updates)
      BY <3>1 DEF StateOrAlert
    <3>2. CASE ~Has(alerts', Updates)
      <4>1. CASE missed \/ (lt.paused /\ lt.auto /\ ~sess)
        BY <2>1, <4>1 DEF StateOrAlert
      <4>2. CASE ~missed /\ ~(lt.paused /\ lt.auto /\ ~sess)
        <5>1. sess \/ p.auto = lt.auto
          BY <1>2, <2>1, <2>2, <3>2, <4>2
        <5>2. StateOf(p, forced, sess) = StateOf(lt, forced, sess)
          BY <1>2, <2>2, <3>2, <5>1, Known, SameState
        <5> QED
          BY <1>1, <2>1, <2>2, <3>2, <4>2, <5>2 DEF IndInv, StateOrAlert
      <4> QED
        BY <4>1, <4>2
    <3> QED
      BY <3>1, <3>2
  <2>5. ErrorIsForced'
    BY <1>1, <1>2, <2>1, <2>2, Opened DEF ErrorIsForced
  <2>6. PauseOrError' /\ RecheckKnows'
    BY <1>2, <1>4, <2>1 DEF PauseOrError, RecheckKnows, ForGood
  <2> QED
    BY <2>3, <2>4, <2>5, <2>6 DEF IndInv
<1> QED
  BY <1>5, <1>6, <1>7, Zenon DEF DoPause

(* resume() clears an error of libtorrent's only while the alert that      *)
(* forces it is on its way.                                                *)
LEMMA ResumeKeepsInv == IndInv /\ Resume => IndInv'
<1> SUFFICES ASSUME IndInv, Resume
             PROVE  IndInv'
  OBVIOUS
<1> DEFINE skipped(s) == (s.paused /\ s.auto) \/ forced = "was_paused" \/ s.over
           l(s) == IF skipped(s) THEN lt
                   ELSE [lt EXCEPT !.auto = @ \/ managed, !.paused = FALSE]
           c(s) == IF state = "Error" /\ forced = "no"
                     THEN [l(s) EXCEPT !.error = FALSE] ELSE l(s)
<1>1. PICK s \in Reads(lt) :
        /\ lt' = c(s) /\ cache' = s /\ Post(alerts, c(s), sess, << >>)
        /\ command' = "resume"
        /\ UNCHANGED <<sess, posted, state, forced, managed, checks, calm, before, missed>>
  BY DEF Resume
<1>2. /\ l(s) \in LtTorrent /\ l(s).error = lt.error /\ l(s).moving = lt.moving
      /\ l(s).checking = lt.checking
      /\ l(s) = lt \/ ~l(s).paused
  BY Known, Opened DEF LtTorrent
<1>3. /\ c(s) \in LtTorrent
      /\ c(s).error => lt.error
      /\ ~(state = "Error" /\ forced = "no") => c(s) = l(s)
  <2> HIDE DEF l
  <2>1. [l(s) EXCEPT !.error = FALSE] \in LtTorrent /\ [l(s) EXCEPT !.error = FALSE].error = FALSE
    BY <1>2 DEF LtTorrent
  <2> QED
    BY <1>2, <2>1
<1> HIDE DEF skipped, l, c
<1>4. s \in Status
  BY Known, ReadsStatus
<1>5. /\ alerts' \in Seq(Alerts)
      /\ \A kinds : Has(alerts, kinds) => Has(alerts', kinds)
      /\ Has(alerts', Updates) \/ ((lt.paused \/ sess) <=> (c(s).paused \/ sess))
  BY <1>1, <1>3, Known, Posted
<1>6. TypeOK'
  BY <1>1, <1>3, <1>4, <1>5, Known DEF IndInv, TypeOK, checks
<1>7. StateOrAlert'
  <2>1. CASE Has(alerts', Updates)
    BY <2>1 DEF StateOrAlert
  <2>2. CASE ~Has(alerts', Updates)
    <3>1. ~Has(alerts, Updates)
      BY <1>5, <2>2
    <3>2. ~Has(alerts, {"error"})
      BY <3>1 DEF Has, Updates, Alerts
    <3>3. missed \/ (sess /\ state = "Queued") \/ state = StateOf(lt, forced, sess)
      BY <3>1 DEF IndInv, StateOrAlert
    <3> SUFFICES ASSUME ~missed
                 PROVE  StateOrAlert'
      BY <1>1 DEF StateOrAlert
    <3>4. ~(state = "Error" /\ forced = "no")
      <4>1. ~(lt.error /\ forced = "no")
        BY <3>2, Opened
      <4>2. forced = "no" => StateOf(lt, forced, sess) # "Error"
        BY <4>1 DEF StateOf
      <4> QED
        BY <3>3, <4>2
    <3>5. c(s) = l(s)
      BY <1>3, <3>4
    <3>6. StateOf(l(s), forced, sess) = StateOf(lt, forced, sess)
      <4>1. CASE l(s) = lt
        BY <4>1
      <4>2. CASE ~l(s).paused
        BY <1>2, <1>5, <2>2, <3>5, <4>2, Known, SameState
      <4> QED
        BY <1>2, <4>1, <4>2
    <3> QED
      BY <1>1, <3>3, <3>5, <3>6 DEF StateOrAlert
  <2> QED
    BY <2>1, <2>2
<1>8. ErrorIsForced'
  BY <1>1, <1>3, <1>5, Opened DEF ErrorIsForced
<1>9. PauseOrError' /\ RecheckKnows'
  BY <1>1 DEF PauseOrError, RecheckKnows
<1> QED
  BY <1>6, <1>7, <1>8, <1>9 DEF IndInv

(* force_recheck() notes whether the torrent was paused, and its alert     *)
(* updates the state.                                                      *)
LEMMA ForceRecheckKeepsInv == IndInv /\ ForceRecheck => IndInv'
<1> SUFFICES ASSUME IndInv, ForceRecheck
             PROVE  IndInv'
  OBVIOUS
<1> DEFINE l == [lt EXCEPT !.auto = @ \/ (forced = "was_running" /\ managed),
                           !.paused = FALSE, !.error = FALSE, !.checking = TRUE]
<1>1. /\ forced' = "no" /\ forcing' = TRUE /\ lt' = l
      /\ Post(alerts, l, sess, <<"changed">>) /\ command' = "recheck"
      /\ UNCHANGED <<sess, posted, state, managed, calm, missed>>
  BY DEF ForceRecheck
<1>2. /\ l \in LtTorrent /\ ~l.error
      /\ l.auto => lt.auto \/ forced = "was_running"
  BY Known, Opened DEF LtTorrent
<1>3. /\ repause' \in BOOLEAN /\ cache' \in Status
      /\ forced = "was_running" => ~repause'
  <2>1. CASE forced # "no"
    BY <2>1, Known DEF ForceRecheck
  <2>2. CASE forced = "no"
    <3>1. PICK s \in Reads(lt) : repause' = s.paused /\ cache' = s
      BY <2>2 DEF ForceRecheck
    <3> QED
      BY <2>2, <3>1, Known, ReadsStatus
  <2> QED
    BY <2>1, <2>2
<1> HIDE DEF l
<1>4. /\ alerts' \in Seq(Alerts)
      /\ \A kinds : Has(<<"changed">>, kinds) => Has(alerts', kinds)
  BY <1>1, <1>2, Known, Posted
<1>5. Has(alerts', Updates)
  <2>1. Has(<<"changed">>, Updates)
    BY DEF Has, Updates, Alerts
  <2> QED
    BY <1>4, <2>1
<1>6. before' \in BOOLEAN /\ (before' => ForGood(lt) /\ repause')
  BY <1>3 DEF ForceRecheck
<1>7. TypeOK'
  BY <1>1, <1>2, <1>3, <1>4, <1>6, Known, Opened DEF IndInv, TypeOK
<1>8. StateOrAlert' /\ ErrorIsForced'
  BY <1>1, <1>2, <1>5 DEF StateOrAlert, ErrorIsForced
<1>9. PauseOrError' /\ RecheckKnows'
  <2>1. before' => repause' /\ ~l.auto
    BY <1>2, <1>3, <1>6 DEF ForGood
  <2> QED
    BY <1>1, <2>1 DEF PauseOrError, RecheckKnows
<1> QED
  BY <1>7, <1>8, <1>9 DEF IndInv

-----------------------------------------------------------------------------
(* A torrent is added paused, and its errors are still to be handled.      *)
LEMMA InitEstablishesInv == Init => IndInv
<1> SUFFICES ASSUME Init
             PROVE  IndInv
  OBVIOUS
<1>1. /\ lt \in LtTorrent /\ lt.paused /\ ~lt.auto /\ ~lt.error /\ ~lt.moving
      /\ sess = FALSE /\ forced = "no" /\ state = "Paused" /\ command = "none"
  BY DEF Init, LtTorrent
<1>2. Seen(lt) \in Status
  BY <1>1 DEF Seen, Status, LtTorrent
<1>3. << >> \in Seq(Alerts) /\ <<"error">> \in Seq(Alerts)
  BY DEF Alerts
<1>4. TypeOK
  BY <1>1, <1>2, <1>3 DEF Init, TypeOK, States
<1>5. state = StateOf(lt, forced, sess)
  BY <1>1 DEF StateOf
<1> QED
  BY <1>1, <1>4, <1>5 DEF IndInv, StateOrAlert, ErrorIsForced, PauseOrError,
       RecheckKnows

(* A step that changes nothing.                                            *)
LEMMA StutterKeepsInv == IndInv /\ UNCHANGED vars => IndInv'
BY DEF IndInv, TypeOK, StateOrAlert, ErrorIsForced, PauseOrError,
       RecheckKnows, vars, checks, history

(* Each command, handler and step of libtorrent.                           *)
LEMMA StepKeepsInv == IndInv /\ [Next]_vars => IndInv'
<1> SUFFICES ASSUME IndInv, [Next]_vars
             PROVE  IndInv'
  OBVIOUS
<1>1. CASE Pause
  BY <1>1, DoPauseKeepsInv DEF Pause
<1>2. CASE PauseAtRatio
  BY <1>2, DoPauseKeepsInv DEF PauseAtRatio
<1>3. CASE Resume \/ ForceRecheck \/ MoveStorage \/ \E b \in BOOLEAN : SetAutoManaged(b)
  BY <1>3, ResumeKeepsInv, ForceRecheckKeepsInv, MoveStorageKeepsInv, SetAutoManagedKeepsInv
<1>4. CASE PauseSession \/ ResumeSession
  BY <1>4, PauseSessionKeepsInv, ResumeSessionKeepsInv
<1>5. CASE OnChange \/ OnTorrentChecked \/ OnError \/ OnStateUpdate
  BY <1>5, OnChangeKeepsInv, OnTorrentCheckedKeepsInv, OnErrorKeepsInv,
     OnStateUpdateKeepsInv
<1>6. CASE LtQueue \/ LtError \/ LtChecked \/ LtMoved \/ LtSeeds \/ LtPostsStatus
  BY <1>6, LibtorrentKeepsInv, LtPostsStatusKeepsInv
<1>7. CASE UNCHANGED vars
  BY <1>7, StutterKeepsInv
<1> QED
  BY <1>1, <1>2, <1>3, <1>4, <1>5, <1>6, <1>7 DEF Next

(* With no alert waiting, none makes up for anything.                      *)
LEMMA NothingComes ==
  ASSUME Quiet, NEW kinds
  PROVE  ~Has(alerts, kinds)
BY DEF Quiet, Has

-----------------------------------------------------------------------------
(* The inductive invariant of a torrent's state, whatever status commands  *)
(* go by.                                                                  *)
THEOREM TorrentInvariant == Spec => []IndInv
<1>1. IndInv /\ [Next]_vars => IndInv'
  BY StepKeepsInv
<1> QED
  BY InitEstablishesInv, <1>1, PTL DEF Spec

(* Whatever the order of commands, alerts and libtorrent's own steps,      *)
(* update_state() is called often enough, but where pause() goes by a      *)
(* status of the time before libtorrent queued the torrent.                *)
THEOREM StateComesToBeCurrent == Spec => []StateIsCurrent
<1>1. IndInv => StateIsCurrent
  BY NothingComes DEF IndInv, StateOrAlert, StateIsCurrent
<1> QED
  BY <1>1, TorrentInvariant, PTL

(* Nothing but another command, an error or set_auto_managed() by an old   *)
(* status undoes a pause() that was not misled.                            *)
THEOREM PauseHolds == Spec => []PauseIsKept
<1>1. IndInv => PauseIsKept
  BY NothingComes DEF IndInv, PauseOrError, PauseIsKept
<1> QED
  BY <1>1, TorrentInvariant, PTL

(* The end of a recheck leaves a torrent paused that was so before it, and *)
(* that the status read showed to be.                                      *)
THEOREM RecheckKeepsPause == Spec => []RecheckRepauses
<1>1. IndInv => RecheckRepauses
  BY DEF IndInv, RecheckKnows, RecheckRepauses
<1> QED
  BY <1>1, TorrentInvariant, PTL
=============================================================================
