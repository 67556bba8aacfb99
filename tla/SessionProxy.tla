---------------------------- MODULE SessionProxy ----------------------------
(***************************************************************************)
(* deluge/ui/sessionproxy.py: the cache of torrent statuses that every     *)
(* client keeps, over the daemon of StatusRequests.tla.                    *)
(*                                                                         *)
(* Answers and events reach the client on one connection, in order, but    *)
(* the protocol runs the handlers of an event by callLater(0): the answers *)
(* that were read in the same chunk are handled before it.                 *)
(*                                                                         *)
(* The stamps of cache_times only decide which keys are asked for again,   *)
(* and time is not modelled: any of the keys may have expired.             *)
(***************************************************************************)
EXTENDS StatusRequests

CONSTANTS
  Asks,         \* what the UI asks for: "filter" for get_torrents_status with a
                \* keyword filter, "unknown" for get_torrent_status of a torrent
                \* the proxy has not been told about
  MaxInFlight   \* requests, answers and events of the client under way

ASSUME ProxyAssumption ==
  /\ Asks \subseteq {"filter", "unknown"}
  /\ MaxInFlight \in Nat

VARIABLES
  started,   \* start() was called for this connection
  torrents,  \* the ids in SessionProxy.torrents
  cached,    \* of each, its status in the cache
  frozen,    \* those whose entry is the tuple of get_torrent_status
  chunk,     \* messages of the last read that are not handled yet
  later      \* event handlers that wait in the reactor

clientVars == <<started, torrents, cached, frozen, chunk, later>>
vars == <<daemonVars, me, toDaemon, toClient, mixed, clientVars>>

InFlight == Len(toDaemon) + Len(soon) + posts + Len(toClient) + Len(later)

Init ==
  /\ alive \in SUBSET Torrents
  /\ value = [t \in Torrents |-> NoValue]
  /\ prev = [s \in Sessions |-> [t \in Torrents |-> NoStatus]]
  /\ me \in Mine /\ \A s \in Mine : me <= s
  /\ session_id = -1
  /\ toDaemon = <<>> /\ soon = <<>> /\ waiting = <<>> /\ posts = 0
  /\ interested = FALSE /\ toClient = <<>>
  /\ changes = 0 /\ adds = 0 /\ mixed = FALSE
  /\ started = FALSE
  /\ torrents = {}
  /\ cached = [t \in Torrents |-> NoStatus]
  /\ frozen = {} /\ chunk = 0 /\ later = <<>>

Request(type, ids, ks) == [type |-> type, from |-> me, ids |-> ids, keys |-> ks]

(* One chunk is handled without interruption.                              *)
MayAsk == started /\ chunk = 0 /\ InFlight < MaxInFlight
Send(r) == toDaemon' = Append(toDaemon, r)

-----------------------------------------------------------------------------
(* Mutant: asks for the torrents before it asks for the events.             *)
Start_SessionFirst ==
  /\ ~started
  /\ started' = TRUE
  /\ toDaemon' = toDaemon \o <<Request("session", {}, {}),
                               Request("interest", {}, {})>>
  /\ UNCHANGED <<daemonVars, me, toClient, mixed>>
  /\ UNCHANGED <<torrents, cached, frozen, chunk, later>>

(* start                                                                   *)
Start ==
  /\ ~started
  /\ started' = TRUE
  /\ toDaemon' = toDaemon \o <<Request("interest", {}, {}),
                               Request("session", {}, {})>>
  /\ UNCHANGED <<daemonVars, me, toClient, mixed>>
  /\ UNCHANGED <<torrents, cached, frozen, chunk, later>>

(* get_torrents_status without a filter, or with ids, some of which have   *)
(* expired.                                                                *)
AskMany(ids, ks) ==
  /\ MayAsk
  /\ ids # {} /\ ids \subseteq torrents
  /\ Send(Request("many", ids, ks))
  /\ UNCHANGED <<daemonVars, me, toClient, mixed, clientVars>>

AskFilter(ks) ==
  /\ MayAsk
  /\ "filter" \in Asks
  /\ Send(Request("filter", {}, ks))
  /\ UNCHANGED <<daemonVars, me, toClient, mixed, clientVars>>

(* get_torrent_status                                                      *)
AskOne(t, ks) ==
  /\ MayAsk
  /\ \/ t \in torrents /\ Send(Request("one", {t}, ks))
     \/ t \notin torrents /\ "unknown" \in Asks /\ Send(Request("unknown", {t}, ks))
  /\ UNCHANGED <<daemonVars, me, toClient, mixed, clientVars>>

-----------------------------------------------------------------------------
Merge(status, ts) ==
  cached' = [t \in Torrents |-> IF t \in ts THEN Update(cached[t], status[t])
                                            ELSE cached[t]]

(* An answer that is not merged leaves prev_status ahead of the cache.     *)
Lost(status, ts) == \E t \in DOMAIN status \ ts : t \in alive /\ status[t] # NoStatus

(* The on_status functions and on_get_session_state.                       *)
OnAnswer(m) ==
  LET there == DOMAIN m.status
  IN \/ /\ m.type = "session"
        /\ torrents' = torrents \cup there
        /\ UNCHANGED <<cached, frozen, mixed>>
     \/ /\ m.type = "all"
        /\ Merge(m.status, there \cap torrents)
        /\ UNCHANGED <<torrents, frozen, mixed>>
     \/ /\ m.type = "one"
        /\ Merge(m.status, (there \cap torrents) \ frozen)
        /\ mixed' = (mixed \/ Lost(m.status, torrents \ frozen))
        /\ UNCHANGED <<torrents, frozen>>
     \/ /\ m.type = "unknown"
        /\ LET told == {t \in there : m.status[t] # NoStatus}
           IN  /\ torrents' = torrents \cup told
               /\ frozen' = frozen \cup told
               /\ cached' = [t \in Torrents |->
                               IF t \in told THEN m.status[t] ELSE cached[t]]
               /\ mixed' = (mixed \/ told # {})
     \/ /\ m.type = "many"
        \* The entry that is a tuple raises TypeError and ends the loop
        /\ \E done \in SUBSET ((there \cap torrents) \ frozen) :
             /\ there \cap frozen = {} => done = there \cap torrents
             /\ Merge(m.status, done)
             /\ mixed' = (mixed \/ Lost(m.status, done))
        /\ UNCHANGED <<torrents, frozen>>

(* message_received: an answer is handled now, an event by callLater(0).   *)
IsEvent(m) == m.type \in {"added", "removed", "changed"}

Read ==
  /\ toClient # <<>>
  /\ \/ chunk > 0 /\ chunk' = chunk - 1
     \/ chunk = 0 /\ later = <<>> /\ \E n \in 1..Len(toClient) : chunk' = n - 1
  /\ toClient' = Tail(toClient)
  /\ LET m == Head(toClient)
     IN  IF IsEvent(m)
         THEN /\ later' = Append(later, m)
              /\ UNCHANGED <<torrents, cached, frozen, mixed>>
         ELSE OnAnswer(m) /\ UNCHANGED later
  /\ UNCHANGED <<daemonVars, me, toDaemon, started>>

(* Mutant: leaves the entry to the answer.                                 *)
OnTorrentAdded_FetchOnly(t) ==
  /\ Send(Request("all", {t}, Keys))
  /\ UNCHANGED <<torrents, cached, frozen, mixed>>

OnTorrentAdded(t) ==
  /\ torrents' = torrents \cup {t}
  /\ cached' = [cached EXCEPT ![t] = NoStatus]
  /\ frozen' = frozen \ {t}
  /\ Send(Request("all", {t}, Keys))
  /\ mixed' = (mixed \/ cached[t] # NoStatus)

OnTorrentRemoved(t) ==
  /\ torrents' = torrents \ {t}
  /\ cached' = [cached EXCEPT ![t] = NoStatus]
  /\ frozen' = frozen \ {t}
  /\ mixed' = (mixed \/ (t \in alive /\ cached[t] # NoStatus))
  /\ UNCHANGED toDaemon

(* setdefault keeps a state that is there.                                 *)
OnTorrentStateChanged(t, state) ==
  /\ cached' = IF t \in torrents
               THEN [cached EXCEPT ![t] = Update([k \in {State} |-> state], @)]
               ELSE cached
  /\ UNCHANGED <<torrents, frozen, toDaemon, mixed>>

RunEvent ==
  /\ chunk = 0
  /\ later # <<>>
  /\ later' = Tail(later)
  /\ LET e == Head(later)
     IN  \/ e.type = "added" /\ OnTorrentAdded(e.id)
         \/ e.type = "removed" /\ OnTorrentRemoved(e.id)
         \/ e.type = "changed" /\ OnTorrentStateChanged(e.id, e.state)
  /\ UNCHANGED <<daemonVars, me, toClient, started, chunk>>

(* The connection is lost: stop() drops the cache, and the next connection *)
(* is a session with another number.  Requests of the old one that wait in *)
(* the daemon stay there; their answers go nowhere.                        *)
Reconnect(s) ==
  /\ s > me
  /\ chunk = 0
  /\ me' = s
  /\ interested' = FALSE
  /\ toDaemon' = <<>> /\ toClient' = <<>> /\ later' = <<>>
  /\ started' = FALSE
  /\ torrents' = {} /\ frozen' = {}
  /\ cached' = [t \in Torrents |-> NoStatus]
  /\ UNCHANGED <<alive, value, prev, session_id, soon, waiting, posts, changes,
                 adds, mixed, chunk>>

Next ==
  \/ \E t \in Torrents : AddTorrent(t) /\ InFlight < MaxInFlight /\ UNCHANGED clientVars
  \/ \E t \in Torrents : RemoveTorrent(t) /\ InFlight < MaxInFlight /\ UNCHANGED clientVars
  \/ \E t \in Torrents, k \in Keys, v \in Values :
       Change(t, k, v) /\ InFlight < MaxInFlight /\ UNCHANGED clientVars
  \/ Dispatch /\ UNCHANGED clientVars
  \/ RunSoon /\ UNCHANGED clientVars
  \/ StateUpdate /\ UNCHANGED clientVars
  \/ LoseAlert /\ UNCHANGED clientVars
  \/ \E s \in Others : OtherCall(s) /\ UNCHANGED clientVars
  \/ \E s \in Others, ks \in KeySets :
       OtherAsks(s, Torrents, ks) /\ InFlight < MaxInFlight /\ UNCHANGED clientVars
  \/ Start
  \/ \E ids \in SUBSET Torrents, ks \in KeySets : AskMany(ids, ks)
  \/ \E ks \in KeySets : AskFilter(ks)
  \/ \E t \in Torrents, ks \in KeySets : AskOne(t, ks)
  \/ Read
  \/ RunEvent
  \/ \E s \in Mine : Reconnect(s)

(* The reactors run, libtorrent posts, the connection carries, and the UI  *)
(* asks for its list again and again (every two seconds), so that it also  *)
(* asks when little is under way.                                          *)
Fairness ==
  /\ WF_vars(Dispatch /\ UNCHANGED clientVars)
  /\ WF_vars(RunSoon /\ UNCHANGED clientVars)
  /\ WF_vars(StateUpdate /\ UNCHANGED clientVars)
  /\ WF_vars(Start) /\ WF_vars(Read) /\ WF_vars(RunEvent)
  /\ SF_vars(AskMany(torrents, Keys))

Spec == Init /\ [][Next]_vars /\ Fairness

-----------------------------------------------------------------------------
(* A behaviour is followed up to the point where a diff misses its cache;  *)
(* what comes then is in the README.                                       *)
NotMixed == ~mixed

ToCome == {toClient[i] : i \in DOMAIN toClient} \cup {later[i] : i \in DOMAIN later}
Announced(type, t) == \E m \in ToCome : m.type = type /\ m.id = t

StateUnderWay ==
  \/ \E i \in DOMAIN toDaemon : toDaemon[i].type = "session"
  \/ \E i \in DOMAIN toClient : toClient[i].type = "session"

(* Once the answer of get_session_state is there, the proxy knows the      *)
(* torrents of the session except for those an event on its way tells it   *)
(* of: none is missed between start() and that answer, and none that was   *)
(* removed comes back by an answer that overtakes the event.               *)
CacheHoldsTheSession ==
  started /\ ~StateUnderWay =>
    \A t \in Torrents :
      /\ t \in alive \ torrents => Announced("added", t)
      /\ t \in torrents \ alive => Announced("removed", t)

(* What the cache will hold for a key once the answers on their way are    *)
(* merged, the last one of them on top.                                    *)
Brings(m, t, k) ==
  ~IsEvent(m) /\ t \in DOMAIN m.status /\ k \in DOMAIN m.status[t]
NoneBrings(t, k) == \A i \in 1..Len(toClient) : ~Brings(toClient[i], t, k)
BringsLast(i, t, k) ==
  /\ Brings(toClient[i], t, k)
  /\ \A j \in 1..Len(toClient) : j > i => ~Brings(toClient[j], t, k)

WillHold(t, k, v) ==
  \/ NoneBrings(t, k) /\ k \in DOMAIN cached[t] /\ cached[t][k] = v
  \/ \E i \in 1..Len(toClient) : BringsLast(i, t, k) /\ toClient[i].status[t][k] = v

(* A diff leaves a value out only if the client has it: what prev_status   *)
(* remembers as sent, and is still right, is in the cache or in an answer  *)
(* on its way that nothing older will overwrite.                           *)
StaleIsResent ==
  ~mixed =>
    \A t \in alive, k \in Keys :
      k \in DOMAIN prev[me][t] /\ prev[me][t][k] = value[t][k]
      => WillHold(t, k, value[t][k])

(* Every alert that will come finds the request it answers: pop() in       *)
(* on_alert_state_update is never called on an empty list, with requests of *)
(* several sessions, of sessions that are gone, and alerts that are lost.  *)
PostsAreAwaited == posts <= Len(waiting)

CacheIsCurrent == torrents = alive /\ \A t \in alive : cached[t] = value[t]

(* A client that keeps asking shows the session as it is in the end, across *)
(* reconnections and lost alerts, if no diff missed its cache.             *)
PollingCatchesUp == <>[](mixed \/ CacheIsCurrent)

-----------------------------------------------------------------------------
(* torrentmanager.py:1934 says of diff "the changes since the last call to *)
(* get_status based on the session_id".  That does not keep a cache up to  *)
(* date: the session_id is the last caller's by then (rpcserver.py:573).   *)
DiffsServeTheCache == <>[]CacheIsCurrent

(* The event of a new state, and nothing else, is behind "state" being     *)
(* marked as fresh.  setdefault does not store it (sessionproxy.py:268).   *)
StateEventIsStored ==
  [][\A t \in Torrents, v \in Values :
       RunEvent /\ Head(later) = [type |-> "changed", id |-> t, state |-> v]
       /\ t \in torrents => cached'[t][State] = v]_vars

-----------------------------------------------------------------------------
(* Behind three of these: the parts of two inductive invariants, of all     *)
(* states, mixed ones too.                                                 *)
Requests == [type : {"interest", "session", "all", "one", "unknown", "many", "filter"},
             from : {me}, ids : SUBSET Torrents, keys : SUBSET Keys]
ManyRequests == [type : {"many"}, from : Sessions, ids : SUBSET Torrents,
                 keys : SUBSET Keys]

(* What the daemon holds of the client is of this session or an old one.   *)
Held == {r \in ManyRequests : /\ r.from \in Mine => r.from <= me
                              /\ r.from = me => interested}

IsSequence(s) == s \in Seq({s[i] : i \in DOMAIN s})
OfTorrents(s) ==
  \A i \in 1..Len(s) : s[i].type \in {"added", "removed"} => s[i].id \in Torrents

QueuesOK ==
  /\ alive \subseteq Torrents /\ me \in Mine
  /\ toDaemon \in Seq(Requests)
  /\ soon \in Seq(Held) /\ waiting \in Seq(Held)
  /\ posts \in Nat
  /\ IsSequence(toClient) /\ IsSequence(later)
  /\ OfTorrents(toClient) /\ OfTorrents(later)

SessionAsked == \E i \in 1..Len(toDaemon) : toDaemon[i].type = "session"

(* The events are registered before anything is asked for.                 *)
EventsFirst ==
  /\ ~started => toDaemon = <<>> /\ ~interested
  /\ started /\ ~interested => toDaemon # <<>> /\ toDaemon[1].type = "interest"
                               /\ SessionAsked
  /\ ~interested => toClient = <<>> /\ later = <<>> /\ torrents = {}

IsAbout(m, t) == m.type \in {"added", "removed"} /\ m.id = t
Quiet(s, t) == \A i \in 1..Len(s) : ~IsAbout(s[i], t)
QuietAfter(s, i, t) == \A j \in 1..Len(s) : j > i => ~IsAbout(s[j], t)

(* The last event about a torrent says what is the case.                   *)
LastIsRight(s, t) ==
  \E i \in 1..Len(s) : /\ IsAbout(s[i], t) /\ QuietAfter(s, i, t)
                       /\ s[i].type = "added" <=> t \in alive

TellsState(m, t) == m.type = "session" /\ t \in DOMAIN m.status
TellsOne(m, t) ==
  m.type = "unknown" /\ t \in DOMAIN m.status /\ m.status[t] # NoStatus

(* What the proxy knows once all that is on its way has arrived is the     *)
(* session, whether the answers come before or after the events.           *)
ComesTrue(t) ==
  /\ ~Quiet(toClient, t) => LastIsRight(toClient, t)
  /\ Quiet(toClient, t) /\ ~Quiet(later, t) => LastIsRight(later, t)
  /\ \A i \in 1..Len(toClient) :
       /\ TellsState(toClient[i], t) \/ TellsOne(toClient[i], t)
       /\ QuietAfter(toClient, i, t)
       => t \in alive
  /\ Quiet(toClient, t) /\ Quiet(later, t) =>
       /\ t \in torrents => t \in alive
       /\ t \in alive /\ started /\ ~SessionAsked =>
            t \in torrents \/ \E i \in 1..Len(toClient) : TellsState(toClient[i], t)

(* What the daemon remembers: nothing of a torrent that is gone, nor of a   *)
(* session to come.                                                        *)
PrevOK ==
  /\ prev = [s \in Sessions |-> [t \in Torrents |-> prev[s][t]]]
  /\ cached = [t \in Torrents |-> cached[t]]
  /\ session_id \in Mine => session_id <= me
  /\ \A s \in Sessions, t \in Torrents :
       t \notin alive \/ (s \in Mine /\ s > me) => prev[s][t] = NoStatus

(* What it remembers as sent has been merged, or is in the last answer on  *)
(* its way that tells the key: one that was made as a diff, and so is      *)
(* either merged or known to be lost.                                      *)
IsDiff(m) == m.type \in {"one", "unknown", "many"}
IsHeld(t, k, v) ==
  /\ WillHold(t, k, v)
  /\ \A i \in 1..Len(toClient) : BringsLast(i, t, k) => IsDiff(toClient[i])

SentIsHeld ==
  ~mixed => \A t \in alive : \A k \in DOMAIN prev[me][t] : IsHeld(t, k, prev[me][t][k])

IndInv ==
  /\ QueuesOK /\ PostsAreAwaited /\ EventsFirst
  /\ \A t \in Torrents : ComesTrue(t)

HeldInv == PrevOK /\ SentIsHeld
=============================================================================
