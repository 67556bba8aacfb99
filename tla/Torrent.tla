------------------------------ MODULE Torrent -------------------------------
(***************************************************************************)
(* The state of one torrent (deluge/core/torrent.py): pausing, resuming,   *)
(* rechecking, moving, the errors that are forced on it, and the state     *)
(* that clients are shown.                                                 *)
(*                                                                         *)
(* What the torrent does is up to libtorrent, whose flags paused and       *)
(* auto_managed the daemon sets; libtorrent changes them too (its queue,   *)
(* errors) and tells by alerts, handled later and in order                 *)
(* (AlertManager.tla).  pause(), resume(), force_recheck() and             *)
(* set_auto_managed() decide by a cached status of up to five seconds ago; *)
(* update_state() asks libtorrent and stores the answer in the cache; a    *)
(* state_update alert stores the status of the time it was posted.         *)
(*                                                                         *)
(* Every caller of force_error_state() leaves restart_to_resume True, so   *)
(* the branch of resume() that clears a forced error is never taken.  The  *)
(* torrent's place in the manager is the subject of TorrentManager.tla.    *)
(***************************************************************************)
EXTENDS Naturals, Sequences

CONSTANT MaxAlerts  \* bound: alerts waiting to be handled

ASSUME TorrentAssumption == MaxAlerts \in Nat

Status == [paused : BOOLEAN, auto : BOOLEAN,
           over : BOOLEAN]     \* finished, with stop_ratio reached

LtTorrent == [paused : BOOLEAN, auto : BOOLEAN, over : BOOLEAN,
              error : BOOLEAN, moving : BOOLEAN, checking : BOOLEAN]

States == {"Error", "Moving", "Queued", "Paused", "Checking", "Active"}

Alerts == {"paused", "resumed", "changed", "checked", "moved", "error", "status"}

VARIABLES
  lt,       \* libtorrent: the torrent
  sess,     \* libtorrent: the session is paused
  alerts,   \* libtorrent: alerts not handled yet, oldest first
  posted,   \* libtorrent: the status in the last state_update alert
  cache,    \* _status
  state,    \* state
  forced,   \* forced_error, by its was_paused
  managed,  \* options['auto_managed']
  forcing,  \* forcing_recheck
  repause,  \* forcing_recheck_paused
  command,  \* history: the last command of a user
  calm,     \* history: nothing out of date undid the last pause()
  before,   \* history: paused for good, and known to be, at the last recheck
  missed    \* history: a pause() that no alert will tell of was not shown

checks == <<forcing, repause>>
history == <<command, calm, before>>
vars == <<lt, sess, alerts, posted, cache, state, forced, managed, checks,
          history, missed>>

TypeOK ==
  /\ lt \in LtTorrent
  /\ sess \in BOOLEAN
  /\ alerts \in Seq(Alerts)
  /\ posted \in Status
  /\ cache \in Status
  /\ state \in States
  /\ forced \in {"no", "was_paused", "was_running"}
  /\ managed \in BOOLEAN
  /\ forcing \in BOOLEAN
  /\ repause \in BOOLEAN
  /\ command \in {"none", "pause", "resume", "recheck"}
  /\ calm \in BOOLEAN
  /\ before \in BOOLEAN
  /\ missed \in BOOLEAN
  /\ forced # "no" => state = "Error"

Seen(l) == [paused |-> l.paused, auto |-> l.auto, over |-> l.over]

Init ==
  /\ lt = [paused |-> TRUE, auto |-> FALSE, over |-> FALSE,
           error |-> FALSE, moving |-> FALSE, checking |-> TRUE]
  /\ sess = FALSE
  /\ alerts \in {<< >>, <<"error">>}     \* fastresume_rejected
  /\ posted = Seen(lt)
  /\ cache = Seen(lt)
  /\ state = "Paused"
  /\ forced = "no"
  /\ managed \in BOOLEAN
  /\ forcing = FALSE
  /\ repause = FALSE
  /\ command = "none"
  /\ calm = FALSE
  /\ before = FALSE
  /\ missed = FALSE

-----------------------------------------------------------------------------
(* libtorrent tells when its torrent l2 is paused, by itself or with the   *)
(* session, and l1 was not, and the other way around.                      *)
Told(l1, s1, l2, s2) ==
  IF (l1.paused \/ s1) = (l2.paused \/ s2) THEN << >>
  ELSE IF l2.paused \/ s2 THEN <<"paused">> ELSE <<"resumed">>

Room == Len(alerts) < MaxAlerts

Post(queue, l, s, more) == alerts' = queue \o Told(lt, sess, l, s) \o more

(* The status property, of libtorrent's torrent l: the cached status, or a *)
(* new one if that is five seconds old.                                    *)
Reads(l) == {Seen(l), cache}

ForGood(s) == s.paused /\ ~s.auto

StateOf(l, f, s) ==
  IF f # "no" \/ l.error THEN "Error"
  ELSE IF l.moving THEN "Moving"
  ELSE IF l.paused /\ l.auto /\ ~s THEN "Queued"
  ELSE IF l.paused \/ s THEN "Paused"
  ELSE IF l.checking THEN "Checking" ELSE "Active"

UpdateState(l, f, s) ==
  /\ cache' = Seen(l)
  /\ state' = StateOf(l, f, s)
  /\ lt' = IF f = "no" /\ l.error THEN [l EXCEPT !.auto = FALSE] ELSE l
  /\ missed' = FALSE

-----------------------------------------------------------------------------
(* pause(), by status s: nothing more than auto_managed in an error;       *)
(* nothing is asked of a torrent taken to be paused by libtorrent's queue. *)
DoPause(s) ==
  LET l == [lt EXCEPT !.auto = FALSE]
      p == [l EXCEPT !.paused = TRUE]
  IN /\ Room
     /\ \/ /\ state = "Error"
           /\ lt' = l
           /\ UNCHANGED <<alerts, cache, state, missed>>
        \/ /\ state # "Error" /\ s.paused
           /\ UpdateState(l, forced, sess)
           /\ UNCHANGED alerts
        \/ /\ state # "Error" /\ ~s.paused
           /\ lt' = p
           /\ cache' = s
           /\ Post(alerts, p, sess, << >>)
           /\ missed' = (missed \/ (lt.paused /\ lt.auto /\ ~sess))
           /\ UNCHANGED state
     /\ UNCHANGED <<sess, posted, forced, managed, checks, before>>

(* What makes pause() leave a torrent running: an error that is over, or a *)
(* status of the time before it was resumed.                               *)
Misled(s) ==
  IF state = "Error" THEN forced = "no" /\ ~lt.error ELSE s.paused /\ ~lt.paused

Pause ==
  \E s \in Reads([lt EXCEPT !.auto = FALSE]) :
    /\ DoPause(s)
    /\ command' = "pause"
    /\ calm' = ~Misled(s)

(* update() of the manager, every second.                                  *)
PauseAtRatio ==
  /\ \E s \in Reads(lt) : s.over
  /\ state \in {"Error", "Moving", "Active"}
  /\ \E s \in Reads([lt EXCEPT !.auto = FALSE]) : DoPause(s)
  /\ UNCHANGED <<command, calm>>

Resume ==
  \E s \in Reads(lt) :
    LET skipped == (s.paused /\ s.auto) \/ forced = "was_paused" \/ s.over
        l == IF skipped THEN lt
             ELSE [lt EXCEPT !.auto = @ \/ managed, !.paused = FALSE]
        c == IF state = "Error" /\ forced = "no"
               THEN [l EXCEPT !.error = FALSE] ELSE l
    IN /\ Room
       /\ lt' = c
       /\ cache' = s
       /\ Post(alerts, c, sess, << >>)
       /\ command' = "resume"
       /\ UNCHANGED <<sess, posted, state, forced, managed, checks, calm, before,
                      missed>>

(* A forced error is cleared.  libtorrent clears its own and checks once   *)
(* the torrent is resumed; on_alert_torrent_checked() pauses it again.     *)
ForceRecheck ==
  LET l == [lt EXCEPT !.auto = @ \/ (forced = "was_running" /\ managed),
                      !.paused = FALSE, !.error = FALSE, !.checking = TRUE]
  IN /\ Room
     /\ \/ /\ forced # "no"
           /\ repause' = (forced = "was_paused")
           /\ UNCHANGED cache
        \/ \E s \in Reads(lt) :
             /\ forced = "no"
             /\ repause' = s.paused
             /\ cache' = s
     /\ before' = (ForGood(lt) /\ repause')
     /\ forced' = "no"
     /\ forcing' = TRUE
     /\ lt' = l
     /\ Post(alerts, l, sess, <<"changed">>)
     /\ command' = "recheck"
     /\ UNCHANGED <<sess, posted, state, managed, calm, missed>>

(* Mutant: the flag is set on every torrent.                               *)
SetAutoManagedAlways(b) ==
  /\ managed' = b
  /\ UpdateState([lt EXCEPT !.auto = b], forced, sess)
  /\ UNCHANGED <<sess, alerts, posted, forced, checks, history>>

(* A torrent paused for good stays out of libtorrent's queue, if the       *)
(* status read says that it is.                                            *)
SetAutoManaged(b) ==
  /\ managed' = b
  /\ \E s \in Reads(lt) :
       /\ IF ForGood(s)
            THEN cache' = s /\ UNCHANGED <<lt, state, missed>>
            ELSE UpdateState([lt EXCEPT !.auto = b], forced, sess)
       /\ calm' = (calm /\ (ForGood(lt) => ForGood(s)))
  /\ command' = IF command = "recheck" THEN "none" ELSE command
  /\ UNCHANGED <<sess, alerts, posted, forced, checks, before>>

MoveStorage ==
  /\ Room
  /\ ~lt.moving
  /\ UpdateState([lt EXCEPT !.moving = TRUE], forced, sess)
  /\ UNCHANGED <<sess, alerts, posted, forced, managed, checks, history>>

PauseSession ==
  /\ Room
  /\ ~sess
  /\ sess' = TRUE
  /\ Post(alerts, lt, TRUE, << >>)
  /\ UNCHANGED <<lt, posted, cache, state, forced, managed, checks, history,
                 missed>>

(* Mutant: the states are left to the alerts.                              *)
ResumeSessionOnly ==
  /\ Room
  /\ sess
  /\ sess' = FALSE
  /\ Post(alerts, lt, FALSE, << >>)
  /\ UNCHANGED <<lt, posted, cache, state, forced, managed, checks, history,
                 missed>>

ResumeSession ==
  /\ Room
  /\ sess
  /\ sess' = FALSE
  /\ Post(alerts, lt, FALSE, << >>)
  /\ UpdateState(lt, forced, FALSE)
  /\ UNCHANGED <<posted, forced, managed, checks, history>>

-----------------------------------------------------------------------------
(* The handlers that call update_state(): torrent_paused, torrent_resumed, *)
(* state_changed, storage_moved.                                           *)
OnChange ==
  /\ alerts # << >>
  /\ Head(alerts) \in {"paused", "resumed", "changed", "moved"}
  /\ alerts' = Tail(alerts)
  /\ UpdateState(lt, forced, sess)
  /\ UNCHANGED <<sess, posted, forced, managed, checks, history>>

(* Mutant: the torrent is not paused again.                                *)
OnTorrentCheckedOnly ==
  /\ alerts # << >>
  /\ Head(alerts) = "checked"
  /\ Post(Tail(alerts), lt, sess, << >>)
  /\ UpdateState(lt, forced, sess)
  /\ forcing' = FALSE
  /\ UNCHANGED <<sess, posted, forced, managed, repause, history>>

OnTorrentChecked ==
  LET l == IF forcing /\ repause THEN [lt EXCEPT !.paused = TRUE] ELSE lt IN
  /\ alerts # << >>
  /\ Head(alerts) = "checked"
  /\ Post(Tail(alerts), l, sess, << >>)
  /\ UpdateState(l, forced, sess)
  /\ forcing' = FALSE
  /\ UNCHANGED <<sess, posted, forced, managed, repause, history>>

(* force_error_state(), on file_error, torrent_error, fastresume_rejected  *)
(* and storage_moved_failed.                                               *)
OnError ==
  LET l == [lt EXCEPT !.auto = FALSE, !.paused = TRUE]
      f == IF lt.paused THEN "was_paused" ELSE "was_running"
  IN /\ alerts # << >>
     /\ Head(alerts) = "error"
     /\ forced' = f
     /\ Post(Tail(alerts), l, sess, << >>)
     /\ UpdateState(l, f, sess)
     /\ UNCHANGED <<sess, posted, managed, checks, history>>

OnStateUpdate ==
  /\ alerts # << >>
  /\ Head(alerts) = "status"
  /\ alerts' = Tail(alerts)
  /\ cache' = posted
  /\ UNCHANGED <<lt, sess, posted, state, forced, managed, checks, history,
                 missed>>

-----------------------------------------------------------------------------
(* libtorrent.                                                             *)
LtSets(l, more) ==
  /\ Room
  /\ lt' = l
  /\ Post(alerts, l, sess, more)
  /\ UNCHANGED <<sess, posted, cache, state, forced, managed, checks, history,
                 missed>>

LtQueue ==
  /\ lt.auto /\ ~lt.error /\ ~sess
  /\ LtSets([lt EXCEPT !.paused = ~@], << >>)

LtError ==
  /\ ~lt.paused /\ ~lt.error /\ ~sess
  /\ \E b \in BOOLEAN :
       LtSets([lt EXCEPT !.error = TRUE, !.paused = b, !.checking = FALSE],
              <<"error">>)

LtChecked ==
  /\ lt.checking /\ ~lt.paused /\ ~lt.error /\ ~sess
  /\ LtSets([lt EXCEPT !.checking = FALSE], <<"checked", "changed">>)

LtMoved ==
  /\ lt.moving
  /\ \E kind \in {"moved", "error"} :
       LtSets([lt EXCEPT !.moving = FALSE], <<kind>>)

LtSeeds ==
  /\ ~lt.over /\ ~lt.paused /\ ~lt.checking /\ ~sess
  /\ LtSets([lt EXCEPT !.over = TRUE], << >>)

LtPostsStatus ==
  /\ Room
  /\ \A i \in DOMAIN alerts : alerts[i] # "status"
  /\ posted' = Seen(lt)
  /\ alerts' = Append(alerts, "status")
  /\ UNCHANGED <<lt, sess, cache, state, forced, managed, checks, history,
                 missed>>

-----------------------------------------------------------------------------
Next ==
  \/ Pause \/ Resume \/ ForceRecheck \/ MoveStorage
  \/ \E b \in BOOLEAN : SetAutoManaged(b)
  \/ PauseSession \/ ResumeSession \/ PauseAtRatio
  \/ OnChange \/ OnTorrentChecked \/ OnError \/ OnStateUpdate
  \/ LtQueue \/ LtError \/ LtChecked \/ LtMoved \/ LtSeeds \/ LtPostsStatus

Spec == Init /\ [][Next]_vars

-----------------------------------------------------------------------------
Quiet == alerts = << >>

(* Once the alerts are handled, clients are shown what libtorrent does,    *)
(* whatever the order of commands, errors and alerts was and however old   *)
(* the status that commands went by.  Two torrents are shown as Queued and *)
(* are not: one in a session that was paused, which libtorrent does not    *)
(* tell, and one that libtorrent had paused when pause() was called and    *)
(* the cached status showed it running, so that nothing was updated.       *)
StateIsCurrent ==
  Quiet /\ ~(sess /\ state = "Queued") /\ ~missed => state = StateOf(lt, forced, sess)

(* A torrent that the user paused is paused and out of libtorrent's queue, *)
(* whatever else happened since, except for another command or an error.   *)
(* Not so if pause() was misled: by a cached status that showed the        *)
(* running torrent paused, or by an error shown that was over; or if       *)
(* set_auto_managed(True) went by a status of the time before the pause.   *)
PauseIsKept ==
  Quiet /\ command = "pause" /\ calm /\ forced = "no" => ForGood(lt)

(* The same however pause() was misled: "we should update the state which  *)
(* should show it as 'Paused'".                                            *)
PausedIsPaused ==
  Quiet /\ command = "pause" /\ forced = "no" => ForGood(lt)

(* "... so that we can re-pause it after its done if necessary": a torrent *)
(* that its user had paused before a recheck is paused after it, if the    *)
(* status that force_recheck() read, old or new, showed it paused.         *)
RecheckRepauses ==
  Quiet /\ command = "recheck" /\ before /\ ~forcing => lt.paused

(* "Prevent resuming clearing the error, only restarting session can       *)
(* resume": a torrent with a forced error does not run.                    *)
ForcedErrorStops == Quiet /\ forced # "no" => lt.paused \/ sess

-----------------------------------------------------------------------------
(* Behind the three that hold: the parts of an inductive invariant, which  *)
(* say what an alert on its way makes up for.                              *)
Has(queue, kinds) == \E i \in 1..Len(queue) : queue[i] \in kinds

Updates == Alerts \ {"status"}

StateOrAlert ==
  \/ Has(alerts, Updates)
  \/ sess /\ state = "Queued"
  \/ missed
  \/ state = StateOf(lt, forced, sess)

ErrorIsForced == lt.error /\ forced = "no" => Has(alerts, {"error"})

PauseOrError ==
  command = "pause" /\ calm /\ forced = "no" =>
    ForGood(lt) \/ Has(alerts, {"error"})

RecheckKnows ==
  command = "recheck" /\ before =>
    ~lt.auto /\ IF forcing THEN repause ELSE lt.paused

IndInv ==
  /\ TypeOK /\ StateOrAlert /\ ErrorIsForced /\ PauseOrError /\ RecheckKnows

=============================================================================
