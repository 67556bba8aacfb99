# Formal models of Deluge

This directory holds TLA+ models of the parts of Deluge that are hard to test:
the daemon's reactor callbacks, libtorrent's alerts, saving threads, crashes,
logins and component life cycles; the cache every client keeps of the daemon's
torrents; and the page of the Web UI with its polls, timers and late answers. TLC
takes their steps in every order in which they can happen on small instances. The
safety properties that TLC checks of every module are also proved with TLAPS for every
value of its constants, one of the thirty under a hypothesis on what may fail
(section 5).

`PROJECT.json` maps every definition to the source lines it models. A definition
whose name ends in a defect (`Stop_CancelFirst`, `FireWithoutPop`, ...) and whose
comment starts with *Mutant* is a faulty variant of the one below it: with it in
place the named property is violated, which shows that the property can fail.

## 1. Inventory

Deluge is a daemon (`deluged`) around a libtorrent session, and clients (GTK,
console, Web) that talk to it by RPC over TLS. The daemon is one Twisted reactor:
Python code of the daemon runs in callbacks that are not interrupted, with four
sources of concurrency:

* libtorrent works in threads of its own and reports by alerts, later and in order;
* two threads fetch alerts and save files next to the reactor;
* methods return Deferreds (or `await`), and other callbacks run before they go on;
* the process can die at any instruction, and clients and the user who edits a
  file act at any time.

| Component | State it keeps | Operations | Talks to | What is hard | What makes it correct |
|---|---|---|---|---|---|
| Component registry `component.py` | state, starting/stopping Deferred and update timer of every component; dependencies | start, stop, pause, resume, update, deregister, shutdown | every component | requests cross calls that take time and fail | nothing stays on its way, requests are answered, order of dependencies |
| AlertManager `core/alertmanager.py` | handlers per type, pending alerts, the alert being handed out, drain call, outstanding handler calls | (de)register, start, stop, pause, resume, handle_alerts, drain turns | libtorrent's queue, poller thread, TorrentManager, Core | a bounded drain restarted only by a finished handler; stop cancels what would restart it; old poller threads | bounded, never stalls, in order, nothing lost or twice, quiet when stopped |
| TorrentManager `core/torrentmanager.py` | Torrent objects, `torrents_loading`, `queued_torrents`, `waiting_on_finish_moving`, resume data, saving flags | add, add_async, remove, load_state, save_state, save_resume_data, some 25 alert handlers | libtorrent, AlertManager, Torrent, files, EventManager | three views of a torrent that change at different times | the views agree; accepted torrents are managed; files catch up |
| State file (same file) | `torrents.state`, `.bak`, `.tmp`, `.safe_state_check`, archives, `prev_saved_state` | save_state in a thread, open_state, archive_state | the file system | crash or failure between two renames | the state saved last can be found |
| Resume data (same file) | `waiting_on_resume_data`, `resume_data`, the lock of the file | save_resume_data, its alerts, save_resume_data_file, stop | libtorrent, StateStore's steps | calls that share Deferreds, removals meanwhile | progress gets to the file, it never goes back, stop() ends and tells the truth |
| Torrent `core/torrent.py` | state shown, cached status, forced error, recheck flags, options | pause, resume, force_recheck, move_storage, set options, renames, status | libtorrent, TorrentManager | decisions by a status of up to five seconds ago; alerts that come late or not at all | what is shown is so; a paused torrent is paused |
| RPCServer `core/rpcserver.py` | authorized sessions, protocols, event interests, login timers, `session_id` | connection made/lost, login, dispatch, await, set_event_interest, end_user_sessions | AuthManager, EventManager, exported objects | three tables and timers per session, changes of accounts, awaits | tables agree, no session outlives its account, idle connections end |
| AuthManager `core/authmanager.py` | accounts, time of the file, the file and its backup | update, authorize, create/update/remove_account, load, write | RPCServer, the file system | edits by hand, saves and reads that fail | memory is what the file says |
| Login limiter `login_limiter.py` | failures per client, bounded | retry_after, record_failure, record_success | RPCServer, Web UI | expiry, growth and a full table at once | blocks hold, nobody is blocked without cause |
| Status requests (`torrentmanager.py`, `torrent.py`) | requests waiting for a state_update alert; per torrent and session the status sent last | torrents_status_update, on_alert_state_update, get_status with diff | AlertManager, FilterManager, RPC | lost alerts; the session a diff is made for is read late | every alert finds its request; a diff leaves out only what the client has |
| Prefetching (`torrentmanager.py`) | `prefetching_metadata` with waiters | prefetch_metadata, metadata alert, timeout | libtorrent | timeout against alert, limits | waiters answered, the table bounded |
| EventManager, FilterManager, Core, preferences | handlers; filters; settings | emit, register, get_filter_tree, exported methods | RPCServer, plugins | handlers that change the table they are called from | |
| Transfer `transfer.py` | the receive buffer of a connection | dataReceived, transfer_message | RPCServer, client | boundaries, limits | messages arrive whole and once |
| Config `config.py` | values, the delayed save | set, save, load, callbacks | files | a delayed save at shutdown | changes are saved |
| Client and SessionProxy `ui/client.py`, `ui/sessionproxy.py` | requests waiting; cache of statuses with times | start, stop, get_torrent(s)_status, three event handlers | Status requests, RPCServer | events run after answers read with them, answers merged late, reconnections | the cache follows the session |
| Page and web server `UI.js`, `EventsManager.js`, `LoginWindow.js`, `ConnectionManager.js`, `Client.js`, `json_api.py`, `auth.py` | timers and flags of the poll; queue of events per session; sessions of the server; its connection to a daemon | login, logout, connect, disconnect, update, get_events, reload | client, the daemon's events | requests fail and answers overtake each other; sessions expire under a held poll | a poll that seems to run does; each event is fired once, in order, in the end |
| Torrent details in the page `details/*.js`, `MultiOptionsManager.js`, `TorrentGrid.js` | selection, torrent of each tab, what was typed and not applied per torrent, file tree | press, click, keys, poll, late clear, answers, type, apply | page, server | clears come 100 ms late, answers do not say whom they are about | what is applied is for the torrent selected |
| Network policy, downloads | | checks of addresses, redirects | Core, plugins | | |
| Plugins, the rest of the Web UI, GTK and console UIs | | | client, Core | | |

`PROJECT.json` lists all of them with their files, the ones not modelled with
the reason, and every hazard with its line.

## 2. Plan

Order of the modules, the most important behaviour first:

1. **Done.** The daemon: `AlertManager`, `TorrentManager`, `Torrent`, `Component`,
   `LoginLimiter`, `AuthManager` + `RPCServer`, `StateStore` refining `AtomicStore`,
   `ResumeData`. Clients: `StatusRequests` + `SessionProxy`, `WebClient`,
   `TorrentDetails`. Proved: an inductive invariant of each of them and every safety
   property that a run checks, with the refinement of `AtomicStore`.
2. **Open, models.** Metadata prefetching; `Transfer` framing, with the stream of
   messages as its abstract specification; `Config` with its delayed save; renames of
   `Torrent`; `deregister` and `shutdown` of `Component`; the decisions of
   `network_policy.py` and FilterManager as operators checked against a reference
   definition; Blocklist and AutoAdd last.
3. **Open, proofs.** What the new models will promise.

Composition: `RPCServer` extends `AuthManager` (a request changes accounts and ends
sessions in one step of the reactor). `SessionProxy` extends `StatusRequests`: the
client's steps and the daemon's are composed over a connection of two queues.
`StateStore` instantiates `AtomicStore` as its abstract specification. The modules of the torrent manager share
no variables. `AlertManager` shows what the others assume of alerts that are kept: they are
handled one by one, in order and in the end, unless the manager is stopped. It drops
alerts at a full queue of libtorrent and a full `_pending_alerts`; `StatusRequests` has
such losses, `TorrentManager`, `Torrent` and `ResumeData` assume that there are none.
`StateStore` shows what `ResumeData` and `TorrentManager` assume of a save (the file is
replaced as a whole or not at all).

## 3. The modules and the code

### AlertManager (`core/alertmanager.py`)

A poller thread (`PollCalls`, `PollQueue`, `PollEvent`, `PollAlert`: the reads of
`wait_for_alert_in_thread` without a lock, one per step) asks the reactor to run
`HandleAlerts`. A drain turn is the loop of `_drain_alerts` taken apart into
`DrainBegin`, `DrainTake`, `DrainDispatch` and `DrainEnd`; `work` is its counter, and
nothing else of the reactor runs while it is not -1. Calls in `delayed` are scheduled,
then run (`RunHandler`), and those of handlers that return Deferreds end by
`FinishRunning`, which is the answer as well as the timeout. `Start` gets a new thread
while an old one may not have noticed the stop. `lastRun` and `owed` are history.

### TorrentManager (`core/torrentmanager.py`)

RPC calls (`Add`, `AddAsync`, `Remove`, `SetMoveCompleted`, `MoveStorage`,
`ForceRecheck`), libtorrent's own steps (`Lt...`) and one action per alert handler
(`OnAddTorrent`, `OnStateChanged`, `OnTorrentFinished`, `OnStorageMoved`,
`OnStorageMovedFailed`, and `IgnoreAlert` for the early returns). `zombies` are the
Torrent objects whose handle is dead. `Init` has a daemon that loads any state file, of
which load_state() may skip some torrents; an addition that libtorrent refuses at the call
(RuntimeError) leaves its id in `torrents_loading`, as the code does. `SaveBegin` and `SaveEnd` are the thread that
iterates over the torrents while the reactor changes them.

### Torrent (`core/torrent.py`, with Core's session pause and resume)

One torrent: libtorrent's flags (`lt`), the cached status (`cache`), the state shown to
clients and the flags of a recheck. `Reads` is what `Torrent.status` may return: the
cached status, or a new one when that is five seconds old; as time is not modelled, every
read may be either. `StateOf` is `update_state`. `calm`, `before` and `missed` are history:
they say when a command read a status that was wrong in what it went by (`Misled`).

### Component (`component.py`)

A chain of `N` components. A request is a job that walks the chain, waiting for the
Deferred of a `start()` or `stop()` call at each component; calls end or fail
(`CallEnds`) in any order. Update timers that nobody refers to any more are counted.

### LoginLimiter (`login_limiter.py`)

The table is a sequence of records in the order of the code's dict; time passes between
calls. `Del` is `del self._clients[key]` and `Live` the loop of `_make_room` over expired
clients; it and `Doubled` are recursive functions, so that they can be proved about.

### AuthManager and RPCServer (`core/authmanager.py`, `core/rpcserver.py`)

Accounts in memory, in the file and in the backup; a save is written, refused, or refused
after the backup was replaced; a read gets the file, the backup or neither. `Load` keeps the
accounts in memory when nothing can be read and there are some; a table without localclient
gets one appended to the file and is read again, which may go another way (`LoadAgain`). Each
operation of `RPCServer` that changes accounts runs the whole chain in one action: save,
reload when refused, `end_user_sessions` for the users that changed, timers started
again. `awaiting` holds the sessions with a method that awaits. Two variables are history:
`torn` is set by loading from the backup and by a save that fails when nothing can be read,
until the file is read; `unsettled` holds the sessions of a user from a save about its
account that failed and was not undone, until they end or log in again.

### StateStore and AtomicStore (`core/torrentmanager.py`, save and load)

One action per file operation of `_save_state`, each of which may fail (`Faults`) or be
the last before a `Crash`. `Loadable` is what `open_state` finds. `Start` archives what is
there when it finds the marker: the oldest of `Rotate` tarballs goes, a new one is written;
with `"archive"` among the faults the writing fails, leaving no tarball or one with nothing in
it, and the start goes on. The end of stop() (`StopEnds`) removes the marker and is apart
from the end of the process (`Leave`), which waits for its threads. `AtomicStore` is the
abstract specification: a state that is replaced as a whole; `broken` counts saves
broken off since the last good one, and only after two of them may a restart
come up empty. `archived` and `unarchived` are history of the state saved last: the tarballs
made since one got it, and that the backup alone held it and was not archived.

### ResumeData (`core/torrentmanager.py`, save_resume_data)

Calls for all torrents (timer, stop) and for one (`single`) share a Deferred per torrent
(`waiting`, `rest`). `Fire`, `Finished` and `SaveFile` are the chain of callbacks that
runs when an alert has brought the last missing answer.

### StatusRequests and SessionProxy (`core/torrentmanager.py`, `core/torrent.py`, `ui/sessionproxy.py`)

`StatusRequests` is the daemon: `prev` is `Torrent.prev_status`, `waiting` the list of
requests that wait for an alert, `posts` the alerts that will come, `soon` the requests
answered by `callLater(0)`; `last` is `factory.session_id`. `Dispatch` takes the next call of the client that is
followed (`me`), `OtherCall` and `OtherAsks` those of other sessions. `SessionProxy` is
that client. `Read` hands over what one chunk brings: answers are handled at once, events go to
`later` and run by `RunEvent`. A cached status asked for alone is a tuple in the code,
and the merge of a later answer into it fails: `frozen`. `mixed` is history: a diff was
made for the session of another caller, or was lost with a connection of this one, so the
cache lacks what `prev` remembers.

### WebClient (`UI.js` and the modules around it, `json_api.py`, `auth.py`)

Requests of the page are a bag, each with the cookie it was sent with; `Serve` answers
one, `Arrive` runs the success handlers of one answer and `FailRequest`, `FailAnswer` the
failure handlers. A timer of the page is none, live, or fired with its id still in the
variable, and a live timer whose id was overwritten is counted as a stray. `held` are the
long polls the server has not answered. `forked` is history: a second chain of polls was
started in one session, or a chain lost an answer.

### TorrentDetails (`details/*.js`, `MultiOptionsManager.js`, `TorrentGrid.js`)

`Press`, `Release` and `MoveTo` are the mouse and the arrow keys, for which Ext's selection
model runs handlers between the two halves of a click. `clears` are the deferred calls of
`clear()`. `stored`, `changed` and `field` are the manager's three views of an option;
`narrowed` is history.

## 4. The runs

`tlc -config MCAlertManager.cfg MCAlertManager` and so on. The module is named in
`PROJECT.json`; modules without `MC` in front are run directly.

### Properties that hold

| Run | Configuration | What it shows |
|---|---|---|
| `alert_pump` | MCAlertManager.cfg | `NoLostWakeup`: work left between turns has a drain scheduled or waits for handlers whose end schedules one. `Bounded`. `QuietWhenStopped`: nothing survives stop(), though cancelled calls run the callback that restarts the drain. `OwedIsScheduled`: no handler call lost or made twice across turns. `AlertOrder`: each handler gets alerts in libtorrent's order, across stops and with two threads. `AlertsAreHandled` (liveness): an alert that the next batch has room for is taken over, and each handler of one that was taken over is called with it, unless the manager is stopped or the handler is deregistered while the alert waits; what a batch brings too many is thrown away. |
| `torrent_life` | MCTorrentManager.cfg | `NoUnmanagedTorrent`, `SessionInSync`: session, manager and `torrents_loading` fit at every moment. `QueuedUnlessDone`: remove() finds the torrent in the queue, but for a move. `StateFileCatchesUp` (liveness). |
| `torrent_state` | MCTorrent.cfg | Any read may get the old status. `StateIsCurrent`: what clients see is what libtorrent does once alerts are handled. `PauseIsKept`: a pause holds, unless the status pause() read showed the running torrent paused, or a later set_auto_managed() read one of the time before. `RecheckRepauses`: a torrent is paused again after a recheck if the status read showed it paused. An old status does no other harm. |
| `components` | MCComponent.cfg | `DependentsStopFirst`: no component is stopped under one that depends on it and whose own calls cannot fail, also when requests cross and calls fail elsewhere. `RequestsAreAnswered` (liveness): a request that joined the call of another one is answered with it. |
| `login_limiter` | MCLoginLimiter.cfg | `BlockedAsPromised`: a client is refused exactly while its failures, taken from the history, ask for it, whatever others do. `LeastRecentMakesRoom`: an entry is driven out by a new client only, from a table full of entries that have not expired, and it is that of the client whose last failure is the earliest. |
| `sessions` | MCRPCServer.cfg | `SessionTablesAgree`, `SessionsMatchAccounts`, `IdleSessionsAreTimed`, under requests of an administrator, edits of the auth file, saves that fail at two places and reads that fail or get the backup. A session outlives a change of its account only if a save about it fails and is not undone. |
| `failed_saves` | MCRPCServerSaves.cfg | `MemoryMatchesFile`, with the same edits and failures: memory is the file whenever its time is known, unless the backup was loaded or a save and the read that was to undo it both failed. `IdleConnectionsEnd` (liveness). |
| `state_file` | MCStateStore.cfg | `PrevIsOnDisk`: a save that is skipped was not needed. `SavedStateSurvives`: the state saved last is in the file, the backup or an archive, until as many tarballs were made since as are kept, unless what the backup alone held failed to be archived. `IsAtomicStore`: refinement of `AtomicStore`. `ChangesReachTheFile`: once the steps of a save stop failing, changes get to the file. |
| `resume_data` | MCResumeData.cfg | `WaitingIsOwed`, `FileNeverGoesBack`, `StopSaved`; `StopEnds` and `KeptProgressReachesFile` (liveness). The liveness properties are about torrents that stay: one removed between the request for its data and the alert breaks both (next table). |
| `session_proxy` | MCSessionProxy.cfg | `CacheHoldsTheSession`: the client misses no torrent and none comes back, though events run after the answers read with them. `StaleIsResent`: what a diff would leave out, the client has or is about to get. `PostsAreAwaited`: every alert finds a request. `PollingCatchesUp` (liveness), with lost alerts and a reconnection. |
| `web_client` | MCWebClient.cfg | `RunningMeansPolling`: a poll that the page thinks is running is. `EventsInOrder`, `EventsGetThere` (liveness): events reach the page once, in order and in the end, as long as one chain of polls asks for them. |
| `torrent_details` | MCTorrentDetails.cfg | `ApplyIsForTheSelected`: nothing is applied to a torrent other than the selected one. `PanelFollowsSelection` (liveness): a late clear is made up for. |

### Where the code differs from what it says

Each row has a configuration that TLC answers with a behaviour of the model that breaks
the property, which states what the quoted line says. These configurations are kept for
reference and are not among the runs of `PROJECT.json`; `tlc -config
MCTorrent_PausedIsPaused.cfg Torrent` and so on shows the behaviour.

| Configuration (module) | Quoted | What the behaviour shows |
|---|---|---|
| MCTorrentManager_RemoveRaisesOnlyIfAbsent (MCTorrentManager) | torrentmanager.py:856 "InvalidTorrentError: If the torrent_id is not in the session." | remove() during the move of a completed torrent removes it from libtorrent, raises InvalidTorrentError (:887) and leaves its Torrent object. |
| MCTorrentManager_AddAsyncFires (MCTorrentManager) | torrentmanager.py:717 "None if adding the torrent failed" | on_alert_add_torrent() returns before it pops `torrents_loading` when libtorrent refused the torrent (:1389): the Deferred never fires, the id stays "already being added". At startup SessionStartedEvent is not emitted either. |
| MCTorrentManager_WaitingIsMoving (MCTorrentManager) | torrentmanager.py:193 | A move that cannot be started is waited for: the result of move_storage() is ignored at :1443. |
| MCTorrentManager_AnnouncedIsComplete (MCTorrentManager) | event.py:168 | An entry of `waiting_on_finish_moving` outlives its torrent; the torrent added again is announced as finished (:1614). |
| MCTorrent_PausedIsPaused (Torrent) | torrent.py:1346 | pause() right after resume() goes by the old status and leaves the torrent running (:1344). |
| MCTorrent_ForcedErrorStops (Torrent) | torrent.py:829 | resume() starts a torrent with a forced error that was running before (:1381); it cannot be paused then. |
| MCComponent_UpdatedOnlyWhileStarted (Component) | component.py:61 | stop during start, then start: two update timers, one of which nothing stops (:119). |
| MCComponent_StartedWithDependencies (Component) | component.py:311 | A stop that crosses a start leaves a component started on a stopped dependency (:343). |
| MCRPCServer_MemoryIsTheFile (MCRPCServer) | authmanager.py:262, :301 "Keep the current accounts; the next update tries again." | The time of the file is noted before it is read (:283). When the backup is read in place of a file that was just saved, memory is the old table, with a time that matches; when a failed save meets a failed read, the refused accounts stay in memory. update() tries again in neither case (:284). |
| MCRPCServer_ContinuationKnowsItsCaller (MCRPCServer) | rpcserver.py:578 | get_session_user() after an await answers with the user of whichever session called last (:585). |
| MCRPCServer_DisconnectEventNamesTheSession (MCRPCServer) | event.py:303 | connectionLost() names the last caller, not the session that was lost (rpcserver.py:239). |
| MCStateStore_CleanShutdownIsSaved (StateStore) | torrentmanager.py:292 | The marker of a bad shutdown is removed although the last save failed (:287). |
| MCResumeData_StopSavesAll (ResumeData) | torrentmanager.py:292 | stop() does not wait for an answer that is still under way and reports the data saved (:1190). |
| MCResumeData_ProgressReachesFile (ResumeData) | torrentmanager.py:190, :269 | A torrent removed between the request for its resume data and the alert leaves an entry in `waiting_on_resume_data`; from then on only stop() would write the file (:876). The same entry keeps stop() waiting when the removal happens during it, which is why `StopEnds` is stated for torrents that stay. |
| MCSessionProxy_DiffsServeTheCache (SessionProxy) | torrentmanager.py:1934 | The session a diff is made for is that of the last caller when the alert comes (rpcserver.py:573): a client whose diff was made for another session, or another's for its own, keeps an old value until it changes again. |
| MCSessionProxy_StateEventIsStored (SessionProxy) | sessionproxy.py:268 | The event of a new state is put in the cache by setdefault, which does nothing when there is a state; the old state is then marked as fresh. |
| MCWebClient_PollsWhileConnected (WebClient) | UI.js:34 | One update that fails ends the poll for good: the look for the server starts at a third failure (UI.js:174), which no poll is left to make. checkConnected has no failure handler (ConnectionManager.js:137), so one failure there does the same. |
| MCWebClient_StopStops (WebClient) | UI.js:298 | The answer to an update under way starts the poll that stop() has just ended (UI.js:195). |
| MCWebClient_OnePoll (WebClient) | EventsManager.js:66 | Nothing ends the chain of get_events at a logout; each login adds one. |
| MCTorrentDetails_CommitIsOfTheApplied (TorrentDetails) | MultiOptionsManager.js:48 | The answer to Apply commits what is typed by then for the torrent shown by then (OptionsTab.js:380): its edits are lost. |
| MCTorrentDetails_CommitIsOfTheApplied with DefaultsAreTheTorrents in its place (TorrentDetails) | MultiOptionsManager.js:150 | The status of one torrent is stored as that of the next one (OptionsTab.js:409). |
| MCTorrentDetails_TreeIsOfTheTorrent (TorrentDetails) | FilesTab.js:190 | A late answer builds the tree of one torrent while the tab is on another (:231). The next answer does not fit the tree, updateFileTree throws and the tree stays, and the priorities set in it are sent for the other torrent. |

Further observations made on the way, each visible in the definitions named: a recheck right
after pause() can read the status of the time before, notes a running torrent and resumes it
(`ForceRecheck`, `before`); `errorCount`
of the events manager is never reset by a success (`OnGetEventsSuccess`); a page loaded
again during a held poll loses the events that poll takes (`Reload`, `forked`); switching
daemons sends disconnect and connect at once, and a disconnect answered late stops the
polling of the new connection (`UserConnects`); EventQueue keeps the queues of sessions that
left. What is typed right after a late clear goes to `changed[null]` (`Leave`); an emptied
text field is sent on Apply though isDirty() denies it (`IsDirty`); a field can stay old
after a commit when the server's value is the default of the option (`UpdateOption`);
clear() of the files tab breaks on a torrent with several top-level entries, as removing
one cascades (outside the model, which has one entry). With several torrents selected
the first of which leaves the selection, the tabs stay on it until the next poll: the
exception `narrowed` in `ApplyIsForTheSelected`.

### Bounds, and why they are enough

* `alert_pump`: three alerts of one type, a queue of three in libtorrent, two pending,
  two pieces of work per turn, two outstanding calls, one handler that answers at once
  and one that does not, two threads, two starts, one pause, two (de)registrations.
  An alert is handed out over two turns, the limit of calls is reached in the middle of
  an alert, the batch is longer than what is kept, and the old thread is still at work
  after a restart. More types would not add to this: types share every queue, and only
  the list of handlers depends on them. The proof covers all values.
* `torrent_life`: one torrent, three calls, four steps libtorrent takes on its own,
  three alerts waiting, any state file at the start. A torrent from the state file can be
  given a move, be removed during it and be added again, and one that was added can
  complete, move and be removed with the alerts of its addition still waiting. Torrents
  share only the alert queue, `is_saving_state` and the state file; the proof covers any
  set of ids and any bounds.
* `torrent_state`: two alerts waiting; nothing else is bounded, and no read is kept from
  getting an old status.
* `components`: a chain of three, four requests for one component or all, one pause; one
  component whose methods may fail. Two requests cross on the chain while a third joins
  them and a fourth comes late.
* `login_limiter`: three clients and room for two, so that one has to go; delays 1, 2, 3
  (the cap) after two failures, forgotten after 4, seven ticks: a client can be blocked
  twice, forgotten and blocked again.
* `sessions`: two sessions and two users with two levels; the sessions can be opened with
  the same account or with different ones. One password: accounts differ by their levels.
  Reading gets the file, the backup or neither, and saving fails before or after the backup.
  `CONSTRAINT Bounded` keeps localclient an administrator in every table and lets at most one
  session at a time be unsettled. Sessions are symmetric (the run has no
  liveness property), and states are told apart by the accounts and session tables only
  (`VIEW TablesOnly`): the last caller, awaiting requests, the event and `running` are
  written by steps but read by no guard and no other table; `failed_saves` has them in full.
* `failed_saves`: one session, one password, the same edits and failures, no constraint.
* `state_file`: three states (one of them empty), two crashes, one tarball kept; every step of
  a save but the restoring rename may fail any number of times, and so may the archiving. A save
  broken off by a crash, one broken off by a fault and a crash after it are all within, and so
  is a tarball that is pushed out by the next. The proofs cover any number of states, tarballs
  and crashes, and all but `PrevIsOnDisk` the restoring rename.
* `resume_data`: two torrents, each with one step of progress, removals, failed
  requests, failed writes, any torrents with a forced error, one event that saves a
  single torrent, and the periodic and the final save that overlap with it.

* `session_proxy`: one torrent with two keys of two values, of which one changes once; the
  torrent is added or removed once (that it goes and comes back is left to the proofs), one alert lost, two sessions of the client and one of
  another, two messages or requests under way. An answer and an event that contradict it cross, a diff
  is on its way while the next is asked for, and the connection is replaced between them.
  `CONSTRAINT NotMixed` cuts behaviours where a diff has missed its cache: TLC checks the
  invariants in those states and does not go on from them. Both `StaleIsResent` and
  `PollingCatchesUp` hold in them by definition and for good (`mixed` stays TRUE); for
  `CacheHoldsTheSession` and `PostsAreAwaited`, which say something there too, the proofs
  have no such cut. `StaleIsResent` is about every value that `prev` holds and that is still
  right, stale or not.
* `web_client`: two sessions, three steps of the user or failures, two events, three
  requests under way. A second login meets the polls of the first, a failure meets a
  timer, a stop meets an answer. The requests of the poll and those for events touch only the session
  in common, so a behaviour follows one of the two (`Follows`).
* `torrent_details`: two torrents, one option of two values, three steps of the user or of
  other clients, two clears and one request under way. A clear asked for on one torrent
  comes on the next, with an answer for the first still to arrive. Text fields only differ in what the
  counterexample configurations show.

Every CONSTANT called `Max...` that is not a name of the code is such a bound and is
named in the guards. Deadlock is not checked where the bounds, or a daemon that has
stopped, may end a behaviour.

### Fairness

* AlertManager: the reactor runs its scheduled calls, threads are scheduled, pause() is
  followed by resume() (its only caller, `add()`, does both), and a handler ends by its
  answer or by its timeout. libtorrent need not post anything.
* TorrentManager: alerts are handled (shown by AlertManager of alerts that are kept; that none
  is dropped at a full queue is assumed), libtorrent answers an add
  and ends a move, the saving thread runs and the timer of 200 seconds calls save_state().
* Component: the reactor ends its turn; a start() or stop() method ends or fails.
* RPCServer: the login timer fires, and a connection that was told to close is lost in
  the end. Clients need not do anything.
* StateStore: the thread runs and the timer calls save_state(). Faults are not fair:
  `ChangesReachTheFile` assumes that they stop.
* ResumeData: the timer, alerts, threads, and the end of the save stop() awaits.
* SessionProxy: the reactors run, libtorrent posts, the connection carries, and the user
  interface asks for its list again and again (its timer of two seconds), also at moments
  when little is under way (SF, as the bound on messages would otherwise switch the
  request off at the moments that count).
* WebClient: polls for events are served and their answers arrive. Updates, the user and
  failures are not fair.
* TorrentDetails: the page polls while it is connected, its timers fire, and
  requests are answered. That the page polls is not for free (`PollsWhileConnected` above);
  `PanelFollowsSelection` is about a page that does.

## 5. The proofs

`tlapm AlertManagerProofs.tla`, `TorrentManagerProofs.tla`, `TorrentProofs.tla`,
`RPCServerProofs.tla` (with the registry and the limiter), `StateStoreProofs.tla`,
`ResumeDataProofs.tla`, `SessionProxyProofs.tla`, `WebProofs.tla` (page and details panel).
Each proves the facts Init => Inv, Inv /\ [Next]_vars => Inv' and Inv => property, with
one lemma per action. `Component`, `LoginLimiter` and `TorrentDetails` have names of their
own for `Init`, `Next`, `Spec` and some variables, so that a proof module can extend
them together with the module of the server or the page.

* **AlertManager.** `IndInv` is the type invariant with `CursorInRange`, `Bounded`,
  `NoLostWakeup` and `QuietWhenStopped`. They need one another: finishing a call restarts
  the drain only if there is room afterwards, which takes `Bounded`; a turn that
  goes on after a break indexes `_current_handlers`, which takes `CursorInRange`. Theorems
  `PumpNeverStalls`, `PumpIsBounded`, `PumpQuietWhenStopped`, for any handlers,
  types, threads and limits. `OrderInv` adds the order: the queues hold alerts as they
  were posted (`QueuesRise`), what was taken from them is older than all that is in them
  (`TakenIsOlder`), no handler is registered twice for a type (`RegisteredOnce`), a handler that
  the current alert has yet to reach has not seen it (`LeftIsLater`), and the scheduled calls of
  a handler rise (`CallsRise`). With `owed = Due`, which says owed calls place by place, these
  give `NothingOwedIsLost` (`OwedIsScheduled`) and the action property
  `HandlersSeeAlertsInOrder` (`AlertOrder`). Neither is inductive alone: that a handler is
  decided on once per alert rests on `RegisteredOnce`, and the order of its calls on that of two
  queues that different threads fill and empty.
* **TorrentManager.** `IndInv` joins `TypeOK`, `QueuedUnlessDone`, `NoUnmanagedTorrent` and
  `SessionInSync`. The last two hold only together: an add_torrent alert on its way gives the
  Torrent object that `NoUnmanagedTorrent` promises because a valid handle belongs to the
  session. The lemmas on *links* say what happens to the alerts on their way when the queue
  grows or shrinks. `ZombiesComeFromMoves` is an action property that rests on
  `QueuedUnlessDone`.
* **Torrent.** `IndInv` says of each property what an alert on its
  way makes up for, whichever status commands read. The state is current or an alert that leads
  to `update_state()` is waiting (`StateOrAlert`); an error of libtorrent's is forced or its alert is
  waiting (`ErrorIsForced`), without which resume(), which clears such errors, would leave the
  state "Error" with nothing to correct it; the flag of a recheck knows what
  `before` does (`RecheckKnows`). Theorems `StateComesToBeCurrent`, `PauseHolds`,
  `RecheckKeepsPause`, without hypotheses. What an old status can do is in the properties: a
  pause() that took a queued torrent for running (`missed`) shows nothing until the next
  update; a pause() that was `Misled`, or that a set_auto_managed() with a status of the time before
  undid, is not promised to hold (`calm`);
  a recheck that read a running torrent does not pause it again (`before`).
* **RPCServer.** `Inv` is the type invariant with `SessionTablesAgree` and
  `IdleSessionsAreTimed`. It, `SessionsMatchAccounts` (`NoSessionOutlivesItsAccount`) and
  `MemoryMatchesFile` (`MemoryAgreesWithFile`) are proved for any users, sessions, levels and
  edits, and however saves and reads fail. `LoadForms`, `ReloadContract` and `SaveContract`
  say what loading and saving make of memory and file; `EndKeepsMatch` that ending the sessions
  of the users that changed keeps the rest in order, for all sessions but those in
  `unsettled`. The two are proved together: a failed save undoes itself, and leaves no session
  unsettled, only because memory was the file before (`MemoryMatchesFile`).
* **Component.** `RegistryInv`, for a chain of any length and any components that may fail:
  requests that go on in one turn of the reactor are all starts or all stops
  (`OneKindGoesOn`), a request waits for a call under way of its own kind and
  component (`WaitsAreForCalls`), a component that is starting or stopping has the Deferred of
  such a call (`DeferredsAreLive`), and a stop() that has got to a component left the one that
  depends on it stopped, or failing (`DependentIsDown`). The action property
  `DependentsAlwaysStopFirst` (`DependentsStopFirst`) is this last one; it is kept only because of
  the others, since a request may join the Deferred of a call it did not make. Components whose
  calls may fail are left out as dependents: `DeferredList` goes on to the dependency when
  the stop() of a dependent fails.
* **LoginLimiter.** `LimiterInv` says of every entry that it is right about the failures of its
  client that count (`EntryIsRight`), of every client without one that it has none that
  count any more (`IsForgotten`), and that entries are in the order of their last failure.
  `CountedAppend` is the step: what one failure more makes of those that count. Theorems
  `BlocksHold` (`BlockedAsPromised`) and `OldestMakesRoom` (`LeastRecentMakesRoom`, by
  `FirstMakesRoom` and `EvictionStep`), for any
  limits with `BASE_DELAY <= MAX_DELAY <= FORGET_AFTER`, and `DelaysDouble` for the formula of
  the block: `BlockedAsPromised` uses `Delay`, so the doubling and its cap are shown there. The loops are recursive functions: `SetInduction` (well-founded induction
  for a set in place of an operator) and `Recursion` give them their equations.
* **StateStore.** For any states, crashes and faults, that of the restoring rename among
  them: `StoreInv` says where the state saved last is by how many saves were broken off since
  (`PlaceInv`, `ReachInv`), and `RefinesAtomicStore` that the store implements `AtomicStore`
  under the mapping of `IsAtomicStore`: every step of a save, fault, crash and restart is one of its steps or none.
  `SavedInv` says where the state saved last is kept, by the tarballs made since: on disk
  (`OnDisk`) until a start archives it, which is where the marker comes in (`MarkerInv`), then
  among the newest of the archive (`Kept`, `RotationKeeps`). `NoSavedStateIsLost`
  (`SavedStateSurvives`) follows, for every fault. `SkippedSavesAreRight` (`PrevIsOnDisk`) is
  the one theorem with a hypothesis, `"restore" \notin Faults`, from `PrevInv`: what
  `prev_saved_state` says is in the file, or in the backup between the renames.
* **ResumeData.** `IndInv` joins the type invariant and the two properties with: no
  alert, entry or snapshot of a thread is newer than what libtorrent has, and the file is
  no newer than the thread that may write (`Newer`, `SnapIsBetween`); one thread at a time
  has the lock (`Lock`); what libtorrent says need not be saved is in an alert or in
  `resume_data` (`NotNeededIsHeld`); and for each phase of stop() what is on its way to
  the file (`StopPhases`, `StopGathers`). `WaitingIsOwed` alone is not inductive, since
  one alert answers several requests: `NotNeededIsHeld` says that the second has one.
  Theorems `WaitedForIsAnswered`, `StopLosesNothing`, `FileOnlyGetsNewer`.
* **SessionProxy.** `IndInv` has the shape of what is in the queues (`QueuesOK`, `EventsFirst`),
  `PostsAreAwaited`, and `ComesTrue(t)`: the last event or answer under way that says
  anything of torrent t tells whether the session has it, and with nothing under way
  the cache is right (`LastIsRight`, `Quiet`). Most lemmas say what `TellsState`
  and `TellsOne` become when a queue grows at its end, loses its head, or is moved to
  the next queue. `AlertsFindTheirRequest` and `ProxyKnowsTheSession` hold whichever
  session diffs are made for. `HeldInv` is about values: what the daemon remembers as sent
  has been merged, or is in the last answer on its way that tells the key (`SentIsHeld`), a diff
  made for this client (`IsDiff`). This part is said only until a diff misses its cache
  (`mixed`), as `StaleIsResent` is. Without that condition,
  it remembers nothing of a torrent that is gone or a session to come (`PrevOK`).
  `DiffsLeaveOutWhatIsHeld` (`StaleIsResent`) follows.
* **WebClient.** `IndInv` has `RunningMeansPolling`, which is inductive with the types,
  and two parts about events. Events that are under way or fired are apart, whatever the
  polls do (`EventsApart`): so each is fired once at most. While one chain of polls asks for them
  the poll is a request, held or an answer, and never two of these (`OneChain`), and what was taken
  and not fired is in that answer (`NothingMissed`); so none is missing or out of order.
  `EventsInOrder` is not inductive alone, since it does not say which answer comes next.
  Requests and answers are bags; the lemmas `Bag...` say what is in one after an
  element is added or taken out. Theorems `RunningPollsGoOn`, `EventsFiredInOrder`.
* **TorrentDetails.** `PanelInv` says of the active tab what `ApplyIsForTheSelected` says of one
  that can be used, between press and click too, and of a panel that is enabled with
  nothing selected that its tabs are on no torrent. Theorem `ApplyReachesTheSelected`, for any
  torrents, options and bounds.

Type invariants that a proof covers are not part of the runs, nor are those a deeper
property of the same run rests on.

**Only model-checked:** the liveness properties of every module, under the fairness of
section 4; ENABLED and WF are out of the prover's reach. That a property fails without its
exceptions (a status that says the opposite, a save that is not undone, a mixed-up diff) is
shown by TLC's counterexamples. The hypothesis on the restoring rename is a condition under
which the code keeps its promise, not a limit of the proof.

## 6. What is not modelled

* The components marked `not_modelled` in `PROJECT.json`, with the reason each.
* libtorrent is external: what its alerts, flags and requests do is taken from how the
  code uses them. It drops the newest alert when its queue is full.
* Options of torrents other than those named, trackers, priorities, queue positions.
* The words of messages, events and logs. Events are modelled where a property names them.
* A machine that loses renames which the process has made (`_save_state` calls
  fsync on the file, not on its directory): StateStore's crashes are those of the process.
* `state_file` leaves out a restoring rename that fails as well: two failed renames and a
  save broken off after that leave nothing on disk of what `prev_saved_state` claims (the
  hazard at torrentmanager.py:1139). The module has the fault and the proofs but one cover it.
* An error of `archive_files` other than in writing the tarball (removing the oldest one, making
  the directory), which start() does not catch; two starts within a second, of
  which the second overwrites the tarball of the first.
* Alerts dropped at a full queue, in TorrentManager, Torrent and ResumeData: a torrent whose
  alert is lost stays as it was until the next one.
* A dependency graph that branches, `deregister()` and `shutdown()` of components.
* The upgrade of old auth and state files.
* Time in clients: a cached key may be expired or not, and a timer may fire at any moment.
* The widgets of the page: tabs that only show, columns, menus, the windows for adding
  torrents, preferences and plugins, and Ext JS, which is vendored; of it only the two
  functions of the selection model that call back are modelled.
