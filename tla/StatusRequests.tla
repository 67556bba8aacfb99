--------------------------- MODULE StatusRequests ---------------------------
(***************************************************************************)
(* How the daemon answers the status requests of its clients:              *)
(* TorrentManager.torrents_status_update, handle_torrents_status_callback  *)
(* and on_alert_state_update, Torrent.get_status, the methods of Core that *)
(* lead there, and the events that tell a client about torrents.           *)
(*                                                                         *)
(* A client asks for a diff.  A torrent remembers, for each session, the   *)
(* last status it returned, and the next answer holds only the keys whose  *)
(* value is another one.  A request for one torrent is answered at once.   *)
(* A request for several is answered later: by callLater(0) if the last    *)
(* state_update_alert is recent (a choice here), or else by the alert that *)
(* the post_torrent_updates() of the request brings.  Which session the    *)
(* diff is for is only asked then: it is the last one that called.         *)
(*                                                                         *)
(* One client is followed in full (SessionProxy.tla).  `me' is its current *)
(* session, and of the other sessions only what they ask matters.          *)
(*                                                                         *)
(* Left out: cleanup_prev_status, which drops what is remembered for       *)
(* sessions that are gone; the status functions behind the keys (a key has *)
(* a value that changes), torrents that a user may not see, the keys of    *)
(* plugins.                                                                *)
(***************************************************************************)
EXTENDS Integers, Sequences, FiniteSets

CONSTANTS
  Torrents,     \* torrent ids
  Keys,         \* status keys
  State,        \* the key "state", the one that has an event
  KeySets,      \* the sets of keys that a request may ask for
  Values,       \* values of a key
  Mine,         \* session numbers of the client that is followed, one after
                \* another: a number is never used again
  Others,       \* session numbers of other clients
  MaxChanges,   \* changes of a status
  MaxAdds,      \* additions and removals of torrents
  MaxLost       \* alerts that are lost

ASSUME StatusAssumption ==
  /\ State \in Keys
  /\ KeySets \subseteq SUBSET Keys
  /\ Mine \cup Others \subseteq Nat
  /\ Mine \cap Others = {}
  /\ MaxChanges \in Nat
  /\ MaxAdds \in Nat
  /\ MaxLost \in Nat

VARIABLES
  alive,        \* the torrents of the manager
  value,        \* of a torrent and a key: what its status function returns
  prev,         \* of a session and a torrent: Torrent.prev_status
  session_id,   \* factory.session_id, the last session that called a method
  me,           \* the session of the client that is followed
  toDaemon,     \* its requests that are not run yet
  soon,         \* requests to handle by callLater(0)
  waiting,      \* torrents_status_requests, the oldest first
  posts,        \* post_torrent_updates() whose alert has not come
  interested,   \* the client's events are registered with the daemon
  toClient,     \* answers and events on their way to the client
  changes,      \* bound: changes so far
  adds,         \* bound: additions and removals so far
  mixed         \* history: a diff did not serve the cache it was made for

daemonVars == <<alive, value, prev, session_id, soon, waiting, posts,
                interested, changes, adds>>

-----------------------------------------------------------------------------
Sessions == Mine \cup Others

(* A status: values of some keys.  A torrent without an entry for a session *)
(* is one with the empty status.                                            *)
Statuses == UNION {[ks -> Values] : ks \in SUBSET Keys}
NoStatus == [k \in {} |-> State]

(* What `value' holds for a torrent that is not there.                     *)
NoValue == CHOOSE f \in [Keys -> Values] : TRUE

Only(f, ks) == [k \in DOMAIN f \cap ks |-> f[k]]

(* Mutant: keeps the values that are there.                                *)
Update_KeepsOld(f, g) == [k \in DOMAIN f \cup DOMAIN g |->
                            IF k \in DOMAIN f THEN f[k] ELSE g[k]]

(* dict.update                                                              *)
Update(f, g) == [k \in DOMAIN f \cup DOMAIN g |->
                   IF k \in DOMAIN g THEN g[k] ELSE f[k]]

(* Torrent.get_status with diff, for session s.                            *)
Diff(s, t, ks) ==
  Only(value[t], {k \in ks : k \in DOMAIN prev[s][t]
                               => prev[s][t][k] # value[t][k]})

(* What it leaves in prev_status, for a set of torrents.                   *)
Remembered(s, ts, ks) ==
  [prev EXCEPT ![s] = [t \in Torrents |-> IF t \in ts THEN Only(value[t], ks)
                                                      ELSE prev[s][t]]]

Answer(m) == toClient' = Append(toClient, m)

(* EventManager.emit, RPCServer.emit_event: an event goes to the sessions  *)
(* that are interested in it.                                              *)
Emit(e) == toClient' = IF interested THEN Append(toClient, e) ELSE toClient

TorrentEvent(type, t) == [type |-> type, id |-> t]

-----------------------------------------------------------------------------
(* The session.                                                            *)
AddTorrent(t) ==
  /\ adds < MaxAdds
  /\ t \notin alive
  /\ alive' = alive \cup {t}
  /\ \E f \in [Keys -> Values] : value' = [value EXCEPT ![t] = f]
  /\ Emit(TorrentEvent("added", t))
  /\ adds' = adds + 1
  /\ UNCHANGED <<prev, session_id, me, toDaemon, soon, waiting, posts, interested,
                 changes, mixed>>

RemoveTorrent(t) ==
  /\ adds < MaxAdds
  /\ t \in alive
  /\ alive' = alive \ {t}
  /\ value' = [value EXCEPT ![t] = NoValue]
  /\ prev' = [s \in Sessions |-> [prev[s] EXCEPT ![t] = NoStatus]]
  /\ Emit(TorrentEvent("removed", t))
  /\ adds' = adds + 1
  /\ UNCHANGED <<session_id, me, toDaemon, soon, waiting, posts,
                 interested, changes, mixed>>

Change(t, k, v) ==
  /\ changes < MaxChanges
  /\ t \in alive
  /\ value[t][k] # v
  /\ value' = [value EXCEPT ![t][k] = v]
  /\ IF k = State
     THEN Emit([type |-> "changed", id |-> t, state |-> v])
     ELSE UNCHANGED toClient
  /\ changes' = changes + 1
  /\ UNCHANGED <<alive, prev, session_id, me, toDaemon, soon, waiting, posts,
                 interested, adds, mixed>>

-----------------------------------------------------------------------------
(* The requests.  `ids' of a request with a keyword filter are the torrents *)
(* it lets through, any of those there are.                                 *)
(* Mutant: asks libtorrent in both cases.                                  *)
StatusUpdate_AlwaysPosts(request) ==
  /\ \/ soon' = Append(soon, request) /\ UNCHANGED waiting
     \/ waiting' = Append(waiting, request) /\ UNCHANGED soon
  /\ posts' = posts + 1

(* torrents_status_update                                                   *)
StatusUpdate(request) ==
  \/ /\ soon' = Append(soon, request)
     /\ UNCHANGED <<waiting, posts>>
  \/ /\ waiting' = Append(waiting, request)
     /\ posts' = posts + 1
     /\ UNCHANGED soon

(* get_torrents_status, where the filter manager makes a filter a list of   *)
(* ids.                                                                    *)
Filtered(r, ids) == [r EXCEPT !.type = "many", !.ids = ids]

(* Core.get_torrent_status, which diffs for the session that calls.        *)
TorrentStatus(r) ==
  LET there == r.ids \cap alive
  IN  /\ Answer([type |-> r.type,
                 status |-> [t \in r.ids |-> IF t \in alive
                                             THEN Diff(me, t, r.keys)
                                             ELSE NoStatus]])
      /\ prev' = Remembered(me, there, r.keys)

Dispatch ==
  /\ toDaemon # <<>>
  /\ LET r == Head(toDaemon)
     IN \/ /\ r.type = "interest"
           /\ interested' = TRUE
           /\ UNCHANGED <<prev, soon, waiting, posts, toClient, mixed>>
        \/ /\ r.type = "session"        \* get_session_state
           /\ Answer([type |-> "session",
                      status |-> [t \in alive |-> NoStatus]])
           /\ UNCHANGED <<prev, soon, waiting, posts, interested, mixed>>
        \/ /\ r.type = "all"            \* get_torrent_status(id, []), no diff
           /\ Answer([type |-> "all",
                      status |-> [t \in r.ids |-> IF t \in alive THEN value[t]
                                                             ELSE NoStatus]])
           /\ mixed' = (mixed \/ \E t \in r.ids : prev[me][t] # NoStatus)
           /\ UNCHANGED <<prev, soon, waiting, posts, interested>>
        \/ /\ r.type \in {"one", "unknown"}
           /\ TorrentStatus(r)
           /\ UNCHANGED <<soon, waiting, posts, interested, mixed>>
        \/ /\ r.type = "many"
           /\ StatusUpdate(r)
           /\ UNCHANGED <<prev, interested, toClient, mixed>>
        \/ /\ r.type = "filter"
           /\ \E ts \in SUBSET alive : StatusUpdate(Filtered(r, ts))
           /\ UNCHANGED <<prev, interested, toClient, mixed>>
  \* set_event_interest is no exported method and does not set it
  /\ session_id' = IF Head(toDaemon).type = "interest" THEN session_id ELSE me
  /\ toDaemon' = Tail(toDaemon)
  /\ UNCHANGED <<alive, value, me, changes, adds>>

(* Another session calls: a method that has nothing to do with the status, *)
(* or one that asks for the status of some torrents.                       *)
OtherCall(s) ==
  /\ session_id' = s
  /\ UNCHANGED <<soon, waiting, posts>>
  /\ UNCHANGED <<alive, value, prev, me, toDaemon, interested, toClient,
                 changes, adds, mixed>>

OtherAsks(s, ids, ks) ==
  /\ session_id' = s
  /\ StatusUpdate([type |-> "many", from |-> s, ids |-> ids, keys |-> ks])
  /\ UNCHANGED <<alive, value, prev, me, toDaemon, interested, toClient,
                 changes, adds, mixed>>

(* handle_torrents_status_callback.  The session whose diff it is is the   *)
(* last one that called, not the one that asked.                           *)
HandleStatus(r) ==
  LET there == r.ids \cap alive
  IN  /\ prev' = Remembered(session_id, there, r.keys)
      /\ IF r.from = me
         THEN Answer([type |-> r.type,
                      status |-> [t \in there |-> Diff(session_id, t, r.keys)]])
         ELSE UNCHANGED toClient
      /\ mixed' = (mixed \/ (r.from # session_id /\ me \in {r.from, session_id}))

RunSoon ==
  /\ soon # <<>>
  /\ HandleStatus(Head(soon))
  /\ soon' = Tail(soon)
  /\ UNCHANGED <<alive, value, session_id, me, toDaemon, waiting, posts,
                 interested, changes, adds>>

(* on_alert_state_update: the alert answers the oldest request.            *)
StateUpdate ==
  /\ posts > 0
  /\ posts' = posts - 1
  /\ IF waiting # <<>>
     THEN /\ HandleStatus(Head(waiting))
          /\ waiting' = Tail(waiting)
     ELSE UNCHANGED <<prev, toClient, mixed, waiting>>  \* IndexError of pop()
  /\ UNCHANGED <<alive, value, session_id, me, toDaemon, soon, interested,
                 changes, adds>>

(* A pump with too many alerts pending drops this one.  The request it was  *)
(* for waits for the alert of another.                                      *)
LoseAlert ==
  /\ posts > 0
  /\ Len(waiting) - posts < MaxLost
  /\ posts' = posts - 1
  /\ UNCHANGED <<alive, value, prev, session_id, me, toDaemon, soon, waiting,
                 interested, toClient, changes, adds, mixed>>
=============================================================================
