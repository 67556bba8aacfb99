--------------------------- MODULE TorrentManager ---------------------------
(***************************************************************************)
(* The life of torrents in the daemon: adding, finishing, moving and       *)
(* removing them (deluge/core/torrentmanager.py).                          *)
(*                                                                         *)
(* A torrent is known in three places that change at different times: the  *)
(* libtorrent session, the manager's dict of Torrent objects and the       *)
(* manager's bookkeeping sets (torrents_loading, queued_torrents,          *)
(* waiting_on_finish_moving).  libtorrent tells the manager what it did    *)
(* through alerts, which are handled later and in order (AlertManager.tla);*)
(* RPC calls come in between.  A save of the torrents' state runs in a     *)
(* thread next to all of this (its files are the subject of StateStore.tla,*)
(* those of the resume data that of ResumeData.tla).                       *)
(*                                                                         *)
(* One action is one reactor callback, one step of libtorrent or one step  *)
(* of the saving thread.                                                   *)
(***************************************************************************)
EXTENDS Integers, Sequences, FiniteSets

CONSTANTS
    Ids,        \* torrent ids (info hashes)
    MaxQueue,   \* bound: alerts waiting to be handled
    MaxCalls,   \* bound: RPC calls in one behaviour
    MaxPosts    \* bound: steps libtorrent takes on its own

ASSUME ManagerConstants == MaxQueue \in Nat /\ MaxCalls \in Nat /\ MaxPosts \in Nat

AlertKinds == {"add_torrent", "state_changed", "torrent_finished",
               "storage_moved", "storage_moved_failed"}

\* `valid': str(alert.handle.info_hash()) answers instead of raising RuntimeError.
Alert == [kind : AlertKinds, id : Ids, valid : BOOLEAN]

VARIABLES
    \* the manager
    torrents,   \* keys of self.torrents
    zombies,    \* those whose handle is dead: libtorrent's torrent is gone
    loading,    \* keys of self.torrents_loading
    queued,     \* self.queued_torrents
    waitMove,   \* self.waiting_on_finish_moving: how often each id is in the list
    finished,   \* Torrent.is_finished
    moveOpt,    \* move_completed is set and would move the torrent elsewhere
    starting,   \* load_state()'s Deferreds that have not fired; SessionStartedEvent
                \* is emitted when none is left
    \* the save_state() thread
    saving,     \* is_saving_state, and how far the thread is
    saveFrom,   \* the torrents create_state() iterates over
    stateFile,  \* the torrents in torrents.state
    \* libtorrent
    session,    \* the torrents in the session
    adding,     \* async_add_torrent calls not yet processed
    ltState,    \* torrent_status.state
    fetched,    \* total_payload_download > 0
    moving,     \* torrent_status.moving_storage
    alerts,     \* alerts posted and not yet handled
    \* history
    complete,   \* torrents whose data was complete since they were last added
    announced,  \* torrents whose TorrentFinishedEvent was emitted since then
    calls, posts

mgrVars == <<torrents, zombies, loading, queued, waitMove, finished, moveOpt, starting>>
saveVars == <<saving, saveFrom, stateFile>>
ltVars == <<session, adding, ltState, fetched, moving>>
vars == <<mgrVars, saveVars, ltVars, alerts, complete, announced, calls, posts>>

\* A daemon starts with the torrents of its state file: load_state() calls
\* add_async() for each of them and skips those for which it raises, at its
\* checks or, with the id in torrents_loading already, at libtorrent's call.
Init ==
    /\ stateFile \in SUBSET Ids
    /\ loading \in SUBSET stateFile
    /\ adding \in SUBSET loading
    /\ starting = adding
    /\ torrents = {} /\ zombies = {} /\ queued = {} /\ session = {}
    /\ waitMove = [t \in Ids |-> 0]
    /\ finished = [t \in Ids |-> FALSE]
    /\ moveOpt = [t \in Ids |-> FALSE]
    /\ saving = "idle" /\ saveFrom = {}
    /\ ltState = [t \in Ids |-> "checking"]
    /\ fetched = [t \in Ids |-> FALSE]
    /\ moving = [t \in Ids |-> FALSE]
    /\ alerts = <<>>
    /\ complete = {} /\ announced = {}
    /\ calls = 0 /\ posts = 0

\* The torrents the manager can do something with.
Managed == torrents \ zombies

Post(kind, t, valid) == Append(alerts, [kind |-> kind, id |-> t, valid |-> valid])

Call == calls < MaxCalls /\ calls' = calls + 1

\* save_state(): ignored while a save is running.
SaveState ==
    /\ saving' = IF saving = "idle" THEN "begin" ELSE saving
    /\ UNCHANGED <<saveFrom, stateFile>>
-----------------------------------------------------------------------------
(* RPC calls.                                                               *)

\* Mutant: the Torrent object is not put into self.torrents.
AddTorrentObj_NotListed(t, isFinished, move) ==
    /\ queued' = queued \cup {t}
    /\ finished' = [finished EXCEPT ![t] = isFinished]
    /\ moveOpt' = [moveOpt EXCEPT ![t] = move]
    /\ UNCHANGED <<torrents, zombies>>

\* _add_torrent_obj(): a new Torrent object, queued.  A torrent that comes from
\* the state file brings its is_finished along.
AddTorrentObj(t, isFinished, move) ==
    /\ torrents' = torrents \cup {t}
    /\ zombies' = zombies \ {t}
    /\ queued' = queued \cup {t}
    /\ finished' = [finished EXCEPT ![t] = isFinished]
    /\ moveOpt' = [moveOpt EXCEPT ![t] = move]

\* What libtorrent does when it accepts a torrent.
Accept(t) ==
    /\ session' = session \cup {t}
    /\ ltState' = [ltState EXCEPT ![t] = "checking"]
    /\ fetched' = [fetched EXCEPT ![t] = FALSE]
    /\ moving' = [moving EXCEPT ![t] = FALSE]
    /\ complete' = complete \ {t}
    /\ announced' = announced \ {t}

\* add(): libtorrent answers at once, so the Torrent object exists before any
\* alert is handled.  A refused torrent changes nothing.
Add(t, move) ==
    /\ Call
    /\ t \notin torrents \cup loading \cup session
    /\ Len(alerts) < MaxQueue
    /\ Accept(t)
    /\ AddTorrentObj(t, FALSE, move)
    /\ alerts' = Post("add_torrent", t, TRUE)
    /\ SaveState
    /\ UNCHANGED <<loading, waitMove, starting, adding, posts>>

\* add_async(): the checks of _build_torrent_params() see the torrents of the
\* calling user only, so t may be another user's torrent.  When libtorrent's
\* call raises RuntimeError the id stays in torrents_loading.
AddAsync(t) ==
    /\ Call
    /\ t \notin loading
    /\ loading' = loading \cup {t}
    /\ adding' \in {adding, adding \cup {t}}
    /\ UNCHANGED <<torrents, zombies, queued, waitMove, finished, moveOpt, starting, saveVars,
                   session, ltState, fetched, moving, alerts, complete, announced, posts>>

\* The libtorrent side of remove_torrent().  Alerts already posted for the
\* torrent raise RuntimeError from now on.
Forget(t) ==
    /\ session' = session \ {t}
    /\ moving' = [moving EXCEPT ![t] = FALSE]
    /\ alerts' = [i \in 1..Len(alerts) |->
                    IF alerts[i].id = t
                    THEN [alerts[i] EXCEPT !.valid = FALSE]
                    ELSE alerts[i]]
    /\ UNCHANGED <<adding, ltState, fetched>>

\* remove(): by the time an unfinished torrent that is not queued makes it raise
\* InvalidTorrentError, libtorrent has removed the torrent already.
RemoveRaises(t) == ~ finished[t] /\ t \notin queued

\* libtorrent takes its commands in order: an async_add_torrent of t that was
\* called before is processed by now.
Remove(t) ==
    /\ Call
    /\ t \in Managed
    /\ t \notin adding
    /\ Forget(t)
    /\ IF RemoveRaises(t)
       THEN zombies' = zombies \cup {t} /\ UNCHANGED <<torrents, queued, saveVars>>
       ELSE /\ queued' = IF finished[t] THEN queued ELSE queued \ {t}
            /\ torrents' = torrents \ {t}
            /\ SaveState
            /\ UNCHANGED zombies
    /\ UNCHANGED <<loading, waitMove, finished, moveOpt, starting, complete, announced, posts>>

\* set_options(): move_completed is switched.
SetMoveCompleted(t) ==
    /\ Call
    /\ t \in Managed
    /\ moveOpt' = [moveOpt EXCEPT ![t] = ~ @]
    /\ UNCHANGED <<torrents, zombies, loading, queued, waitMove, finished, starting, saveVars,
                   ltVars, alerts, complete, announced, posts>>

\* Torrent.move_storage() on a user's request.
MoveStorage(t) ==
    /\ Call
    /\ t \in Managed
    /\ moving' = [moving EXCEPT ![t] = TRUE]
    /\ UNCHANGED <<mgrVars, saveVars, session, adding, ltState, fetched, alerts, complete,
                   announced, posts>>

\* Torrent.force_recheck(): libtorrent goes back to checking and says so.
ForceRecheck(t) ==
    /\ Call
    /\ t \in Managed
    /\ Len(alerts) < MaxQueue
    /\ ltState' = [ltState EXCEPT ![t] = "checking"]
    /\ alerts' = Post("state_changed", t, TRUE)
    /\ UNCHANGED <<mgrVars, saveVars, session, adding, fetched, moving, complete, announced, posts>>
-----------------------------------------------------------------------------
(* libtorrent (external), at its own pace.                                  *)

LtStep == posts < MaxPosts /\ posts' = posts + 1

\* An async_add_torrent is processed: refused, always when the torrent is in the
\* session (duplicate_is_error), or accepted.
LtAddDone(t) ==
    /\ t \in adding
    /\ Len(alerts) < MaxQueue
    /\ adding' = adding \ {t}
    /\ \/ /\ alerts' = Post("add_torrent", t, FALSE)
          /\ UNCHANGED <<session, ltState, fetched, moving, complete, announced>>
       \/ /\ t \notin session
          /\ Accept(t)
          /\ alerts' = Post("add_torrent", t, TRUE)
    /\ UNCHANGED <<mgrVars, saveVars, calls, posts>>

\* A check ends with pieces missing.
LtDownload(t) ==
    /\ LtStep
    /\ t \in session /\ ltState[t] = "checking"
    /\ Len(alerts) < MaxQueue
    /\ ltState' = [ltState EXCEPT ![t] = "downloading"]
    /\ alerts' = Post("state_changed", t, TRUE)
    /\ UNCHANGED <<mgrVars, saveVars, session, adding, fetched, moving, complete, announced, calls>>

\* The last piece is there, found by a check or downloaded.
LtComplete(t) ==
    /\ LtStep
    /\ t \in session /\ ltState[t] # "seeding"
    /\ Len(alerts) + 1 < MaxQueue
    /\ ltState' = [ltState EXCEPT ![t] = "seeding"]
    /\ fetched' = [fetched EXCEPT ![t] = @ \/ ltState[t] = "downloading"]
    /\ complete' = complete \cup {t}
    /\ alerts' = Append(Post("state_changed", t, TRUE),
                        [kind |-> "torrent_finished", id |-> t, valid |-> TRUE])
    /\ UNCHANGED <<mgrVars, saveVars, session, adding, moving, announced, calls>>

\* "Sometimes libtorrent fires a TorrentFinishedEvent twice".
LtFinishedAgain(t) ==
    /\ LtStep
    /\ t \in session /\ ltState[t] = "seeding"
    /\ Len(alerts) < MaxQueue
    /\ alerts' = Post("torrent_finished", t, TRUE)
    /\ UNCHANGED <<mgrVars, saveVars, ltVars, complete, announced, calls>>

LtMoveDone(t) ==
    /\ t \in session /\ moving[t]
    /\ Len(alerts) < MaxQueue
    /\ moving' = [moving EXCEPT ![t] = FALSE]
    /\ \E kind \in {"storage_moved", "storage_moved_failed"} : alerts' = Post(kind, t, TRUE)
    /\ UNCHANGED <<mgrVars, saveVars, session, adding, ltState, fetched, complete, announced,
                   calls, posts>>
-----------------------------------------------------------------------------
(* Alert handlers.                                                          *)

\* The next alert is of this kind, its handle answers and the manager has a
\* Torrent for it whose handle answers as well.
Handling(kind, t) ==
    /\ alerts # <<>>
    /\ Head(alerts).kind = kind /\ Head(alerts).id = t /\ Head(alerts).valid
    /\ t \in Managed
    /\ alerts' = Tail(alerts)

\* The handlers return at once for a dead handle or an unknown torrent id, and
\* raise RuntimeError when they ask a dead Torrent for its status;
\* on_alert_add_torrent also for an id that is not in torrents_loading, and it
\* leaves torrents_loading alone when the handle is invalid.
IgnoreAlert ==
    /\ alerts # <<>>
    /\ LET a == Head(alerts) IN
          \/ ~ a.valid
          \/ a.kind = "add_torrent" /\ a.id \notin loading
          \/ a.kind # "add_torrent" /\ a.id \notin Managed
    /\ alerts' = Tail(alerts)
    /\ UNCHANGED <<mgrVars, saveVars, ltVars, complete, announced, calls, posts>>

\* Mutant: the handle of the alert is not looked at.
OnAddTorrent_AnyHandle(t, isFinished, move) ==
    /\ alerts # <<>>
    /\ Head(alerts).kind = "add_torrent" /\ Head(alerts).id = t
    /\ t \in loading
    /\ isFinished => t \in starting
    /\ alerts' = Tail(alerts)
    /\ loading' = loading \ {t}
    /\ AddTorrentObj(t, isFinished, move)
    /\ starting' = starting \ {t}
    /\ IF t \in starting THEN UNCHANGED saveVars ELSE SaveState
    /\ UNCHANGED <<waitMove, ltVars, complete, announced, calls, posts>>

\* on_alert_add_torrent() and add_async_callback().
OnAddTorrent(t, isFinished, move) ==
    /\ alerts # <<>>
    /\ Head(alerts).kind = "add_torrent" /\ Head(alerts).id = t /\ Head(alerts).valid
    /\ t \in loading
    /\ isFinished => t \in starting
    /\ alerts' = Tail(alerts)
    /\ loading' = loading \ {t}
    /\ AddTorrentObj(t, isFinished, move)
    /\ starting' = starting \ {t}
    /\ IF t \in starting THEN UNCHANGED saveVars ELSE SaveState
    /\ UNCHANGED <<waitMove, ltVars, complete, announced, calls, posts>>

\* Mutant: the torrent is unfinished again but not queued again.
OnStateChanged_NotQueued(t, shown) ==
    /\ Handling("state_changed", t)
    /\ finished' = IF shown /\ ltState[t] \in {"checking", "downloading"} /\ ~ moving[t]
                   THEN [finished EXCEPT ![t] = FALSE]
                   ELSE finished
    /\ UNCHANGED <<torrents, zombies, loading, queued, waitMove, moveOpt, starting, saveVars,
                   ltVars, complete, announced, calls, posts>>

\* on_alert_state_changed(): `shown' is FALSE for a torrent that is paused,
\* queued by libtorrent or in error, whose state hides what libtorrent does.
OnStateChanged(t, shown) ==
    /\ Handling("state_changed", t)
    /\ IF shown /\ ltState[t] \in {"checking", "downloading"} /\ ~ moving[t]
       THEN finished' = [finished EXCEPT ![t] = FALSE] /\ queued' = queued \cup {t}
       ELSE UNCHANGED <<finished, queued>>
    /\ UNCHANGED <<torrents, zombies, loading, waitMove, moveOpt, starting, saveVars, ltVars,
                   complete, announced, calls, posts>>

\* on_alert_torrent_finished(): `moves' is FALSE when move_storage() cannot
\* create the folder; its result is not looked at.
OnTorrentFinished(t, moves) ==
    /\ Handling("torrent_finished", t)
    /\ queued' = queued \ {t}
    /\ IF ~ finished[t] /\ fetched[t] /\ moveOpt[t]
       THEN /\ waitMove' = [waitMove EXCEPT ![t] = @ + 1]
            /\ moving' = [moving EXCEPT ![t] = @ \/ moves]
            /\ UNCHANGED <<finished, announced>>
       ELSE /\ finished' = [finished EXCEPT ![t] = TRUE]
            /\ announced' = IF ~ finished[t] /\ fetched[t] THEN announced \cup {t} ELSE announced
            /\ UNCHANGED <<waitMove, moving>>
    /\ UNCHANGED <<torrents, zombies, loading, moveOpt, starting, saveVars, session, adding,
                   ltState, fetched, complete, calls, posts>>

\* The end of on_alert_storage_moved() and on_alert_storage_moved_failed().
MoveIsOver(t) ==
    IF waitMove[t] > 0
    THEN /\ waitMove' = [waitMove EXCEPT ![t] = @ - 1]
         /\ finished' = [finished EXCEPT ![t] = TRUE]
         /\ announced' = announced \cup {t}
    ELSE UNCHANGED <<waitMove, finished, announced>>

OnStorageMoved(t) ==
    /\ Handling("storage_moved", t)
    /\ moveOpt' = [moveOpt EXCEPT ![t] = FALSE]
    /\ MoveIsOver(t)
    /\ UNCHANGED <<torrents, zombies, loading, queued, starting, saveVars, ltVars, complete,
                   calls, posts>>

OnStorageMovedFailed(t) ==
    /\ Handling("storage_moved_failed", t)
    /\ MoveIsOver(t)
    /\ UNCHANGED <<torrents, zombies, loading, queued, moveOpt, starting, saveVars, ltVars, complete,
                   calls, posts>>
-----------------------------------------------------------------------------
(* The state saving thread.                                                 *)

\* save_state_timer
PeriodicSave ==
    /\ saving = "idle"
    /\ SaveState
    /\ UNCHANGED <<mgrVars, ltVars, alerts, complete, announced, calls, posts>>

\* create_state() starts to iterate; get_queue_position() of a torrent that
\* libtorrent no longer has raises RuntimeError and ends the save.
SaveBegin ==
    /\ saving = "begin"
    /\ IF zombies = {}
       THEN saving' = "iterate" /\ saveFrom' = torrents
       ELSE saving' = "idle" /\ UNCHANGED saveFrom
    /\ UNCHANGED <<stateFile, mgrVars, ltVars, alerts, complete, announced, calls, posts>>

\* Mutant: is_saving_state is not reset.
SaveEnd_StaysBusy ==
    /\ saving = "iterate"
    /\ stateFile' = saveFrom
    /\ UNCHANGED <<saving, saveFrom, mgrVars, ltVars, alerts, complete, announced, calls, posts>>

\* The iteration ends and the file is written.  The dict is the reactor's: a
\* torrent that was added or removed meanwhile may be in the file or not, or ends
\* the iteration with an exception ("dictionary changed size", dead handle).
SaveEnd ==
    /\ saving = "iterate"
    /\ saving' = "idle" /\ saveFrom' = {}
    /\ \/ \E seen \in SUBSET (saveFrom \cup torrents) :
             saveFrom \cap torrents \subseteq seen /\ stateFile' = seen
       \/ (saveFrom # torrents \/ zombies # {}) /\ UNCHANGED stateFile
    /\ UNCHANGED <<mgrVars, ltVars, alerts, complete, announced, calls, posts>>
-----------------------------------------------------------------------------
Rpc ==
    \E t \in Ids :
        \/ \E move \in BOOLEAN : Add(t, move)
        \/ AddAsync(t)
        \/ Remove(t)
        \/ SetMoveCompleted(t)
        \/ MoveStorage(t)
        \/ ForceRecheck(t)

Libtorrent ==
    \E t \in Ids :
        LtAddDone(t) \/ LtDownload(t) \/ LtComplete(t) \/ LtFinishedAgain(t) \/ LtMoveDone(t)

HandleAlert ==
    \/ IgnoreAlert
    \/ \E t \in Ids :
          \/ \E isFinished, move \in BOOLEAN : OnAddTorrent(t, isFinished, move)
          \/ \E shown \in BOOLEAN : OnStateChanged(t, shown)
          \/ \E moves \in BOOLEAN : OnTorrentFinished(t, moves)
          \/ OnStorageMoved(t)
          \/ OnStorageMovedFailed(t)

SaveThread == SaveBegin \/ SaveEnd

Next == Rpc \/ Libtorrent \/ HandleAlert \/ PeriodicSave \/ SaveThread

Spec == Init /\ [][Next]_vars

\* The reactor handles the alerts it has, libtorrent answers an add and ends a
\* move, the thread pool runs the save and the timer starts another one.
FairSpec ==
    /\ Spec
    /\ WF_vars(HandleAlert)
    /\ WF_vars(\E t \in Ids : LtAddDone(t))
    /\ WF_vars(\E t \in Ids : LtMoveDone(t))
    /\ WF_vars(SaveThread)
    /\ WF_vars(PeriodicSave)
-----------------------------------------------------------------------------
(* Properties.                                                              *)

TypeOK ==
    /\ torrents \subseteq Ids /\ zombies \subseteq torrents /\ loading \subseteq Ids /\ queued \subseteq Ids
    /\ waitMove \in [Ids -> Nat]
    /\ finished \in [Ids -> BOOLEAN]
    /\ moveOpt \in [Ids -> BOOLEAN]
    /\ starting \subseteq Ids
    /\ saving \in {"idle", "begin", "iterate"}
    /\ saveFrom \subseteq Ids /\ stateFile \subseteq Ids
    /\ session \subseteq Ids /\ adding \subseteq Ids
    /\ ltState \in [Ids -> {"checking", "downloading", "seeding"}]
    /\ fetched \in [Ids -> BOOLEAN]
    /\ moving \in [Ids -> BOOLEAN]
    /\ alerts \in Seq(Alert)
    /\ complete \subseteq Ids /\ announced \subseteq Ids
    /\ calls \in 0..MaxCalls /\ posts \in 0..MaxPosts

\* A torrent that is neither finished nor being moved after its download is in
\* the queue: remove() may rely on it, and raises InvalidTorrentError only for a
\* torrent in waiting_on_finish_moving.
QueuedUnlessDone ==
    \A t \in torrents : finished[t] \/ waitMove[t] > 0 \/ t \in queued

\* A torrent libtorrent holds is the manager's, or its add_torrent alert is on
\* the way and will find it in torrents_loading: no torrent ever downloads that
\* the daemon does not list.
NoUnmanagedTorrent ==
    \A t \in session \ Managed :
        /\ t \in loading
        /\ \E i \in 1..Len(alerts) :
              alerts[i].kind = "add_torrent" /\ alerts[i].id = t /\ alerts[i].valid

\* Apart from half removed torrents the manager's torrents are libtorrent's: an
\* asynchronous add is remembered until libtorrent has answered it, and an alert
\* whose handle answers belongs to a torrent of the session.
SessionInSync ==
    /\ Managed \subseteq session
    /\ adding \subseteq loading \cup session
    /\ \A i \in 1..Len(alerts) : alerts[i].valid => alerts[i].id \in session

\* The Torrent object of a torrent that left the session stays behind only when
\* it was removed during the move that follows its download.
ZombieOnlyFromMove == [][\A t \in zombies' \ zombies : waitMove[t] > 0]_vars

\* The inductive invariant behind the safety theorems.
IndInv == TypeOK /\ QueuedUnlessDone /\ NoUnmanagedTorrent /\ SessionInSync

\* With no torrent stuck half removed, torrents.state ends up listing exactly
\* the torrents of the daemon, although save_state() ignores calls during a save.
StateFileCatchesUp == <>[](zombies # {} \/ stateFile = torrents)

-----------------------------------------------------------------------------
(* What the repository says of the code, and the code does not do.          *)

\* remove(): "InvalidTorrentError: If the torrent_id is not in the session."
\* A removal of a torrent in the session succeeds.
RemoveRaisesOnlyIfAbsent ==
    [][\A t \in Managed : t \notin session' => t \notin torrents']_vars

\* add_async(): its Deferred fires with the torrent_id, or with None if adding
\* the torrent failed.
AddAsyncFires == \A t \in Ids : t \in loading ~> t \notin loading

\* waiting_on_finish_moving: "Keep track of torrents finished but moving storage".
WaitingIsMoving ==
    \A t \in Managed : waitMove[t] > 0 =>
        \/ moving[t]
        \/ \E i \in 1..Len(alerts) :
              alerts[i].id = t /\ alerts[i].kind \in {"storage_moved", "storage_moved_failed"}

\* TorrentFinishedEvent: "Emitted when a torrent finishes downloading."
AnnouncedIsComplete == announced \subseteq complete
=============================================================================
