------------------------ MODULE TorrentManagerProofs ------------------------
(***************************************************************************)
(* The torrent life cycle is consistent for any set of torrents and any    *)
(* bounds: an unfinished torrent is queued or waits for its move, every    *)
(* torrent of the session is managed or about to be, and a dead Torrent    *)
(* object can only come from a removal during a move.                      *)
(***************************************************************************)
EXTENDS TorrentManager, TLAPS, SequenceTheorems

\* Posting an alert extends the queue by it.
LEMMA PostProperties ==
    ASSUME NEW s \in Seq(Alert), NEW a \in Alert
    PROVE  /\ Append(s, a) \in Seq(Alert)
           /\ Len(Append(s, a)) = Len(s) + 1
           /\ \A i \in 1..Len(s) : Append(s, a)[i] = s[i]
           /\ Append(s, a)[Len(s) + 1] = a
  BY AppendProperties

\* Taking the first alert shifts the rest down by one.
LEMMA TailProperties ==
    ASSUME NEW s \in Seq(Alert), s # <<>>
    PROVE  /\ Head(s) = s[1] /\ 1 \in 1..Len(s)
           /\ Tail(s) \in Seq(Alert)
           /\ Len(Tail(s)) = Len(s) - 1
           /\ \A i \in 1..Len(Tail(s)) : Tail(s)[i] = s[i + 1]
  BY HeadTailProperties, EmptySeq

\* The types of the manager's own variables, the saving thread's and libtorrent's.
MgrType ==
    /\ torrents \subseteq Ids /\ zombies \subseteq torrents /\ loading \subseteq Ids
    /\ queued \subseteq Ids
    /\ waitMove \in [Ids -> Nat]
    /\ finished \in [Ids -> BOOLEAN]
    /\ moveOpt \in [Ids -> BOOLEAN]
    /\ starting \subseteq Ids

SaveType ==
    saving \in {"idle", "begin", "iterate"} /\ saveFrom \subseteq Ids /\ stateFile \subseteq Ids

LtType ==
    /\ session \subseteq Ids /\ adding \subseteq Ids
    /\ ltState \in [Ids -> {"checking", "downloading", "seeding"}]
    /\ fetched \in [Ids -> BOOLEAN]
    /\ moving \in [Ids -> BOOLEAN]

RestType ==
    /\ complete \subseteq Ids /\ announced \subseteq Ids
    /\ calls \in 0..MaxCalls /\ posts \in 0..MaxPosts

-----------------------------------------------------------------------------
\* The manager starts consistent: everything it knows is being added.
LEMMA InitInv == Init => IndInv
<1> SUFFICES ASSUME Init PROVE IndInv
  OBVIOUS
<1>1. TypeOK
  BY ManagerConstants DEF Init, TypeOK
<1>2. QueuedUnlessDone /\ NoUnmanagedTorrent
  BY DEF Init, QueuedUnlessDone, NoUnmanagedTorrent, Managed
<1>3. SessionInSync
  BY DEF Init, SessionInSync, Managed
<1> QED
  BY <1>1, <1>2, <1>3 DEF IndInv
-----------------------------------------------------------------------------
\* What the invariant says of torrents and alerts, apart from the queue.
Links == NoUnmanagedTorrent /\ SessionInSync

\* Links only depends on these variables.
LEMMA LinksStable ==
    ASSUME Links, UNCHANGED <<torrents, zombies, loading, session, adding, alerts>>
    PROVE  Links'
  BY DEF Links, NoUnmanagedTorrent, SessionInSync, Managed

\* An add_torrent alert of t on its way.
AddOnItsWay(t, s) ==
    \E i \in 1..Len(s) : s[i].kind = "add_torrent" /\ s[i].id = t /\ s[i].valid

\* Posting alerts of torrents in the session keeps the links, when a torrent
\* that enters the session is managed or announced by one of the alerts.
LEMMA LinksExtend ==
    ASSUME IndInv,
           alerts' \in Seq(Alert), Len(alerts) <= Len(alerts'),
           \A i \in 1..Len(alerts) : alerts'[i] = alerts[i],
           \A i \in 1..Len(alerts') :
              i > Len(alerts) => (alerts'[i].valid => alerts'[i].id \in session'),
           session \subseteq session', loading \subseteq loading', Managed \subseteq Managed',
           Managed' \subseteq session', adding' \subseteq loading' \cup session',
           \A t \in session' \ session : t \in Managed' \/ (t \in loading' /\ AddOnItsWay(t, alerts'))
    PROVE  Links'
<1>1. Len(alerts) \in Nat /\ Len(alerts') \in Nat
  BY LenProperties DEF IndInv, TypeOK
<1>2. SessionInSync'
  <2>1. \A i \in 1..Len(alerts') : alerts'[i].valid => alerts'[i].id \in session'
    <3> SUFFICES ASSUME NEW i \in 1..Len(alerts'), alerts'[i].valid
                 PROVE  alerts'[i].id \in session'
      OBVIOUS
    <3>1. CASE i <= Len(alerts)
      <4>1. i \in 1..Len(alerts) /\ alerts'[i] = alerts[i]
        BY <3>1, <1>1
      <4> QED
        BY <4>1 DEF IndInv, SessionInSync
    <3>2. CASE i > Len(alerts)
      BY <3>2
    <3> QED
      BY <3>1, <3>2, <1>1
  <2> QED
    BY <2>1 DEF SessionInSync
<1>3. NoUnmanagedTorrent'
  <2> SUFFICES ASSUME NEW t \in session' \ Managed'
               PROVE  t \in loading' /\ AddOnItsWay(t, alerts')
    BY DEF NoUnmanagedTorrent, AddOnItsWay
  <2>1. CASE t \in session
    <3>1. t \in session \ Managed
      BY <2>1
    <3>2. t \in loading
      BY <3>1 DEF IndInv, NoUnmanagedTorrent
    <3>3. PICK i \in 1..Len(alerts) :
                 alerts[i].kind = "add_torrent" /\ alerts[i].id = t /\ alerts[i].valid
      BY <3>1 DEF IndInv, NoUnmanagedTorrent
    <3>4. i \in 1..Len(alerts') /\ alerts'[i] = alerts[i]
      BY <1>1
    <3> QED
      BY <3>2, <3>3, <3>4 DEF AddOnItsWay
  <2>2. CASE t \notin session
    BY <2>2
  <2> QED
    BY <2>1, <2>2
<1> QED
  BY <1>2, <1>3 DEF Links

\* The same for one alert.
LEMMA LinksPost ==
    ASSUME IndInv, NEW a \in Alert, a.valid => a.id \in session',
           alerts' = Append(alerts, a),
           session \subseteq session', loading \subseteq loading', Managed \subseteq Managed',
           Managed' \subseteq session', adding' \subseteq loading' \cup session',
           \A t \in session' \ session :
              \/ t \in Managed'
              \/ t \in loading' /\ a.kind = "add_torrent" /\ a.id = t /\ a.valid
    PROVE  Links' /\ alerts' \in Seq(Alert)
<1>1. /\ alerts' \in Seq(Alert) /\ Len(alerts') = Len(alerts) + 1
      /\ \A i \in 1..Len(alerts) : alerts'[i] = alerts[i]
      /\ alerts'[Len(alerts) + 1] = a
  BY PostProperties DEF IndInv, TypeOK
<1>2. Len(alerts) \in Nat
  BY LenProperties DEF IndInv, TypeOK
<1>3. \A i \in 1..Len(alerts') :
          i > Len(alerts) => (alerts'[i].valid => alerts'[i].id \in session')
  <2> SUFFICES ASSUME NEW i \in 1..Len(alerts'), i > Len(alerts)
               PROVE  alerts'[i].valid => alerts'[i].id \in session'
    OBVIOUS
  <2>1. i = Len(alerts) + 1
    BY <1>1, <1>2
  <2> QED
    BY <2>1, <1>1
<1>4. \A t \in session' \ session : t \in Managed' \/ (t \in loading' /\ AddOnItsWay(t, alerts'))
  <2> SUFFICES ASSUME NEW t \in session' \ session, t \notin Managed'
               PROVE  t \in loading' /\ AddOnItsWay(t, alerts')
    OBVIOUS
  <2>1. t \in loading' /\ a.kind = "add_torrent" /\ a.id = t /\ a.valid
    OBVIOUS
  <2>2. Len(alerts) + 1 \in 1..Len(alerts')
    BY <1>1, <1>2
  <2> QED
    BY <2>1, <2>2, <1>1 DEF AddOnItsWay
<1>5. Len(alerts) <= Len(alerts')
  BY <1>1, <1>2
<1> QED
  BY <1>1, <1>3, <1>4, <1>5, LinksExtend

\* Posting an alert that changes nothing else the links speak of.
LEMMA LinksPostOnly ==
    ASSUME IndInv, NEW kind \in AlertKinds, NEW t \in Ids, NEW valid \in BOOLEAN,
           valid => t \in session, alerts' = Post(kind, t, valid),
           adding' \subseteq adding,
           UNCHANGED <<torrents, zombies, loading, session>>
    PROVE  Links' /\ alerts' \in Seq(Alert)
<1> DEFINE a == [kind |-> kind, id |-> t, valid |-> valid]
<1>1. a \in Alert /\ a.id = t /\ a.valid = valid
  BY DEF Alert
<1>2. alerts' = Append(alerts, a)
  BY DEF Post
<1>3. Managed' = Managed /\ Managed \subseteq session /\ adding \subseteq loading \cup session
  BY DEF Managed, IndInv, SessionInSync
<1> HIDE DEF a
<1> QED
  BY <1>1, <1>2, <1>3, LinksPost

\* libtorrent accepts a torrent that the manager lists or is loading.
LEMMA LinksAccept ==
    ASSUME IndInv, NEW t \in Ids, session' = session \cup {t}, adding' \subseteq adding,
           alerts' = Post("add_torrent", t, TRUE), loading' = loading,
           \/ Managed' = Managed \cup {t}
           \/ Managed' = Managed /\ t \in loading
    PROVE  Links' /\ alerts' \in Seq(Alert)
<1> DEFINE a == [kind |-> "add_torrent", id |-> t, valid |-> TRUE]
<1>1. a \in Alert /\ a.id = t /\ a.kind = "add_torrent" /\ a.valid
  BY DEF Alert, AlertKinds
<1>2. alerts' = Append(alerts, a)
  BY DEF Post
<1>3. Managed \subseteq session /\ adding \subseteq loading \cup session
  BY DEF IndInv, SessionInSync
<1> HIDE DEF a
<1>4. /\ session \subseteq session' /\ loading \subseteq loading' /\ Managed \subseteq Managed'
      /\ Managed' \subseteq session' /\ adding' \subseteq loading' \cup session'
      /\ a.valid => a.id \in session'
  BY <1>1, <1>3
<1>5. \A u \in session' \ session :
          \/ u \in Managed'
          \/ u \in loading' /\ a.kind = "add_torrent" /\ a.id = u /\ a.valid
  BY <1>1
<1> QED
  BY <1>1, <1>2, <1>4, <1>5, LinksPost

\* Handling an alert keeps the links, unless it is the add_torrent alert of a
\* torrent that is being loaded.
LEMMA LinksTail ==
    ASSUME IndInv, Links, alerts # <<>>, alerts' = Tail(alerts),
           ~ (/\ Head(alerts).kind = "add_torrent" /\ Head(alerts).valid
              /\ Head(alerts).id \in loading),
           UNCHANGED <<torrents, zombies, loading, session, adding>>
    PROVE  Links' /\ alerts' \in Seq(Alert)
<1>1. /\ Head(alerts) = alerts[1] /\ 1 \in 1..Len(alerts)
      /\ alerts' \in Seq(Alert) /\ Len(alerts') = Len(alerts) - 1
      /\ \A i \in 1..Len(alerts') : alerts'[i] = alerts[i + 1]
  BY TailProperties DEF IndInv, TypeOK
<1>2. Len(alerts) \in Nat
  BY LenProperties DEF IndInv, TypeOK
<1>3. SessionInSync'
  <2>1. \A i \in 1..Len(alerts') : alerts'[i].valid => alerts'[i].id \in session
    <3> SUFFICES ASSUME NEW i \in 1..Len(alerts'), alerts'[i].valid
                 PROVE  alerts'[i].id \in session
      OBVIOUS
    <3>1. i + 1 \in 1..Len(alerts) /\ alerts'[i] = alerts[i + 1]
      BY <1>1, <1>2
    <3> QED
      BY <3>1 DEF Links, SessionInSync
  <2> QED
    BY <2>1 DEF Links, SessionInSync, Managed
<1>4. NoUnmanagedTorrent'
  <2> SUFFICES ASSUME NEW t \in session \ Managed
               PROVE  /\ t \in loading
                      /\ \E i \in 1..Len(alerts') :
                            alerts'[i].kind = "add_torrent" /\ alerts'[i].id = t /\ alerts'[i].valid
    BY DEF NoUnmanagedTorrent, Managed
  <2>1. t \in loading
    BY DEF Links, NoUnmanagedTorrent
  <2>2. PICK i \in 1..Len(alerts) :
               alerts[i].kind = "add_torrent" /\ alerts[i].id = t /\ alerts[i].valid
    BY DEF Links, NoUnmanagedTorrent
  <2>3. i # 1
    BY <2>1, <2>2, <1>1
  <2>4. i - 1 \in 1..Len(alerts') /\ alerts'[i - 1] = alerts[i]
    BY <2>3, <1>1, <1>2
  <2> QED
    BY <2>1, <2>2, <2>4
<1> QED
  BY <1>1, <1>3, <1>4 DEF Links
-----------------------------------------------------------------------------
\* The invariant, put together from its parts.
LEMMA Assemble ==
    ASSUME MgrType', SaveType', LtType', RestType', alerts' \in Seq(Alert),
           QueuedUnlessDone', Links'
    PROVE  IndInv'
  BY DEF IndInv, TypeOK, MgrType, SaveType, LtType, RestType, Links

(* The inductive invariant in the parts the proofs use.                    *)
LEMMA InvParts ==
    ASSUME IndInv
    PROVE  /\ MgrType /\ SaveType /\ LtType /\ RestType /\ alerts \in Seq(Alert)
           /\ QueuedUnlessDone /\ Links
  BY DEF IndInv, TypeOK, MgrType, SaveType, LtType, RestType, Links

\* The queue part only depends on these variables.
LEMMA QueueStable ==
    ASSUME QueuedUnlessDone, UNCHANGED <<torrents, finished, waitMove, queued>>
    PROVE  QueuedUnlessDone'
  BY DEF QueuedUnlessDone

\* add() lists, queues and posts a torrent in one step.
LEMMA AddStep ==
    ASSUME IndInv, NEW t \in Ids, NEW move \in BOOLEAN, Add(t, move)
    PROVE  IndInv'
<1>1. MgrType'
  BY DEF Add, AddTorrentObj, IndInv, TypeOK, MgrType
<1>2. LtType'
  BY DEF Add, Accept, IndInv, TypeOK, LtType
<1>3. SaveType'
  BY DEF Add, SaveState, IndInv, TypeOK, SaveType
<1>4. RestType'
  BY ManagerConstants DEF Add, Accept, Call, IndInv, TypeOK, RestType
<1>5. QueuedUnlessDone'
  BY DEF Add, AddTorrentObj, IndInv, TypeOK, QueuedUnlessDone
<1>6. Managed' = Managed \cup {t}
  BY DEF Add, AddTorrentObj, Managed, IndInv, TypeOK
<1>7. /\ session' = session \cup {t} /\ adding' \subseteq adding /\ loading' = loading
      /\ alerts' = Post("add_torrent", t, TRUE)
  BY DEF Add, Accept
<1>8. Links' /\ alerts' \in Seq(Alert)
  BY <1>6, <1>7, LinksAccept
<1> QED
  BY <1>1, <1>2, <1>3, <1>4, <1>5, <1>8, Assemble

\* remove(): the alerts of the torrent die with it.
LEMMA RemoveStep ==
    ASSUME IndInv, NEW t \in Ids, Remove(t)
    PROVE  IndInv'
<1>1. /\ session' = session \ {t} /\ UNCHANGED <<adding, ltState, fetched>>
      /\ moving' = [moving EXCEPT ![t] = FALSE]
      /\ alerts' = [i \in 1..Len(alerts) |->
                      IF alerts[i].id = t THEN [alerts[i] EXCEPT !.valid = FALSE] ELSE alerts[i]]
  BY DEF Remove, Forget
<1>2. Len(alerts) \in Nat /\ \A i \in 1..Len(alerts) : alerts[i] \in Alert
  BY LenProperties, ElementOfSeq DEF IndInv, TypeOK
<1>3. \A i \in 1..Len(alerts) :
          (IF alerts[i].id = t THEN [alerts[i] EXCEPT !.valid = FALSE] ELSE alerts[i]) \in Alert
  BY <1>2 DEF Alert
<1>4. alerts' \in Seq(Alert) /\ Len(alerts') = Len(alerts)
  BY <1>1, <1>2, <1>3, IsASeq
<1>5. \A i \in 1..Len(alerts) :
          /\ alerts'[i].valid => alerts[i].valid /\ alerts[i].id # t /\ alerts'[i].id = alerts[i].id
          /\ alerts[i].id # t => alerts'[i] = alerts[i]
  <2> SUFFICES ASSUME NEW i \in 1..Len(alerts)
               PROVE  /\ alerts'[i].valid => alerts[i].valid /\ alerts[i].id # t
                                              /\ alerts'[i].id = alerts[i].id
                      /\ alerts[i].id # t => alerts'[i] = alerts[i]
    OBVIOUS
  <2>1. CASE alerts[i].id = t
    <3>1. alerts'[i] = [alerts[i] EXCEPT !.valid = FALSE]
      BY <2>1, <1>1
    <3>2. alerts'[i].valid = FALSE
      BY <3>1, <1>2 DEF Alert
    <3> QED
      BY <2>1, <3>2
  <2>2. CASE alerts[i].id # t
    BY <2>2, <1>1
  <2> QED
    BY <2>1, <2>2
<1>6. LtType' /\ RestType'
  <2>1. LtType'
    BY <1>1 DEF IndInv, TypeOK, LtType
  <2>2. RestType'
    BY ManagerConstants DEF Remove, Call, IndInv, TypeOK, RestType
  <2> QED
    BY <2>1, <2>2
<1>7. MgrType' /\ SaveType' /\ QueuedUnlessDone' /\ Managed' = Managed \ {t} /\ loading' = loading
  <2>1. CASE RemoveRaises(t)
    <3>1. zombies' = zombies \cup {t} /\ t \in torrents
          /\ UNCHANGED <<torrents, queued, saveVars, loading, waitMove, finished, moveOpt, starting>>
      BY <2>1 DEF Remove, Managed
    <3> QED
      BY <3>1 DEF MgrType, SaveType, QueuedUnlessDone, Managed, IndInv, TypeOK, saveVars
  <2>2. CASE ~ RemoveRaises(t)
    <3>1. /\ queued' = IF finished[t] THEN queued ELSE queued \ {t}
          /\ torrents' = torrents \ {t}
          /\ SaveState
          /\ t \notin zombies
          /\ UNCHANGED <<zombies, loading, waitMove, finished, moveOpt, starting>>
      BY <2>2 DEF Remove, Managed
    <3>2. MgrType' /\ Managed' = Managed \ {t}
      BY <3>1 DEF MgrType, Managed, IndInv, TypeOK
    <3>3. SaveType'
      BY <3>1 DEF SaveState, SaveType, IndInv, TypeOK
    <3>4. QueuedUnlessDone'
      BY <3>1 DEF QueuedUnlessDone, IndInv
    <3> QED
      BY <3>1, <3>2, <3>3, <3>4
  <2> QED
    BY <2>1, <2>2
<1>8. TypeOK'
  BY <1>4, <1>6, <1>7 DEF TypeOK, MgrType, LtType, SaveType, RestType
<1>9. SessionInSync'
  <2>1. \A i \in 1..Len(alerts') : alerts'[i].valid => alerts'[i].id \in session'
    BY <1>1, <1>4, <1>5 DEF IndInv, SessionInSync
  <2>2. Managed' \subseteq session'
    BY <1>1, <1>7 DEF IndInv, SessionInSync
  <2>3. adding' \subseteq loading' \cup session'
    BY <1>1, <1>7 DEF IndInv, SessionInSync, Remove
  <2> QED
    BY <2>1, <2>2, <2>3 DEF SessionInSync
<1>10. NoUnmanagedTorrent'
  <2> SUFFICES ASSUME NEW u \in session' \ Managed'
               PROVE  /\ u \in loading'
                      /\ \E i \in 1..Len(alerts') :
                            alerts'[i].kind = "add_torrent" /\ alerts'[i].id = u /\ alerts'[i].valid
    BY DEF NoUnmanagedTorrent
  <2>1. u # t /\ u \in session \ Managed
    BY <1>1, <1>7
  <2>2. u \in loading
    BY <2>1 DEF IndInv, NoUnmanagedTorrent
  <2>3. PICK i \in 1..Len(alerts) :
               alerts[i].kind = "add_torrent" /\ alerts[i].id = u /\ alerts[i].valid
    BY <2>1 DEF IndInv, NoUnmanagedTorrent
  <2>4. i \in 1..Len(alerts') /\ alerts'[i] = alerts[i]
    BY <2>1, <2>3, <1>4, <1>5
  <2> QED
    BY <1>7, <2>2, <2>3, <2>4
<1> QED
  BY <1>7, <1>8, <1>9, <1>10 DEF IndInv
-----------------------------------------------------------------------------
\* The other RPC calls: an asynchronous add is remembered in torrents_loading.
LEMMA RpcStep ==
    ASSUME IndInv, NEW t \in Ids,
           AddAsync(t) \/ SetMoveCompleted(t) \/ MoveStorage(t) \/ ForceRecheck(t)
    PROVE  IndInv'
<1> USE InvParts
<1>1. CASE AddAsync(t)
  <2>1. MgrType' /\ SaveType' /\ LtType'
    BY <1>1 DEF AddAsync, MgrType, SaveType, saveVars, LtType
  <2>2. RestType'
    BY <1>1, ManagerConstants DEF AddAsync, Call, RestType
  <2>3. QueuedUnlessDone'
    BY <1>1, QueueStable DEF AddAsync
  <2>4. Links'
    BY <1>1 DEF AddAsync, Links, NoUnmanagedTorrent, SessionInSync, Managed
  <2>5. alerts' \in Seq(Alert)
    BY <1>1 DEF AddAsync
  <2> QED
    BY <2>1, <2>2, <2>3, <2>4, <2>5, Assemble
<1>2. CASE SetMoveCompleted(t)
  <2>1. MgrType'
    BY <1>2 DEF SetMoveCompleted, MgrType
  <2>2. SaveType' /\ LtType' /\ alerts' \in Seq(Alert)
    BY <1>2 DEF SetMoveCompleted, SaveType, saveVars, LtType, ltVars
  <2>3. RestType'
    BY <1>2, ManagerConstants DEF SetMoveCompleted, Call, RestType
  <2>4. QueuedUnlessDone' /\ Links'
    BY <1>2, QueueStable, LinksStable DEF SetMoveCompleted, ltVars
  <2> QED
    BY <2>1, <2>2, <2>3, <2>4, Assemble
<1>3. CASE MoveStorage(t)
  <2>1. MgrType' /\ SaveType' /\ alerts' \in Seq(Alert)
    BY <1>3 DEF MoveStorage, MgrType, mgrVars, SaveType, saveVars
  <2>2. LtType'
    BY <1>3 DEF MoveStorage, LtType
  <2>3. RestType'
    BY <1>3, ManagerConstants DEF MoveStorage, Call, RestType
  <2>4. QueuedUnlessDone' /\ Links'
    BY <1>3, QueueStable, LinksStable DEF MoveStorage, mgrVars
  <2> QED
    BY <2>1, <2>2, <2>3, <2>4, Assemble
<1>4. CASE ForceRecheck(t)
  <2>1. MgrType' /\ SaveType'
    BY <1>4 DEF ForceRecheck, MgrType, mgrVars, SaveType, saveVars
  <2>2. LtType'
    BY <1>4 DEF ForceRecheck, LtType
  <2>3. RestType'
    BY <1>4, ManagerConstants DEF ForceRecheck, Call, RestType
  <2>4. QueuedUnlessDone'
    BY <1>4, QueueStable DEF ForceRecheck, mgrVars
  <2>5. t \in session
    BY <1>4 DEF ForceRecheck, Links, SessionInSync
  <2>6. /\ alerts' = Post("state_changed", t, TRUE) /\ adding' \subseteq adding
        /\ UNCHANGED <<torrents, zombies, loading, session>>
    BY <1>4 DEF ForceRecheck, mgrVars
  <2>7. Links' /\ alerts' \in Seq(Alert)
    BY <2>5, <2>6, LinksPostOnly DEF AlertKinds
  <2> QED
    BY <2>1, <2>2, <2>3, <2>4, <2>7, Assemble
<1> QED
  BY <1>1, <1>2, <1>3, <1>4

\* libtorrent answers an asynchronous add.
LEMMA LtAddDoneStep ==
    ASSUME IndInv, NEW t \in Ids, LtAddDone(t)
    PROVE  IndInv'
<1> USE InvParts
<1>1. MgrType' /\ SaveType'
  BY DEF LtAddDone, MgrType, mgrVars, SaveType, saveVars
<1>2. LtType'
  BY DEF LtAddDone, Accept, LtType
<1>3. RestType'
  BY DEF LtAddDone, Accept, RestType
<1>4. QueuedUnlessDone'
  BY QueueStable DEF LtAddDone, mgrVars
<1>5. Links' /\ alerts' \in Seq(Alert)
  <2>1. /\ t \in loading \cup session /\ adding' \subseteq adding
        /\ UNCHANGED <<torrents, zombies, loading>> /\ Managed' = Managed
    BY DEF LtAddDone, Links, SessionInSync, mgrVars, Managed
  <2>2. CASE alerts' = Post("add_torrent", t, FALSE) /\ session' = session
    BY <2>1, <2>2, LinksPostOnly DEF AlertKinds
  <2>3. CASE alerts' = Post("add_torrent", t, TRUE) /\ t \notin session /\ Accept(t)
    <3>1. session' = session \cup {t} /\ t \in loading
      BY <2>1, <2>3 DEF Accept
    <3> QED
      BY <3>1, <2>1, <2>3, LinksAccept
  <2> QED
    BY <2>2, <2>3 DEF LtAddDone
<1> QED
  BY <1>1, <1>2, <1>3, <1>4, <1>5, Assemble

\* libtorrent's other steps tell the manager about torrents of the session only.
LEMMA LtStepInv ==
    ASSUME IndInv, NEW t \in Ids,
           LtDownload(t) \/ LtComplete(t) \/ LtFinishedAgain(t) \/ LtMoveDone(t)
    PROVE  IndInv'
<1> USE InvParts
<1>1. MgrType' /\ SaveType' /\ UNCHANGED mgrVars
  BY DEF LtDownload, LtComplete, LtFinishedAgain, LtMoveDone, MgrType, mgrVars, SaveType, saveVars
<1>2. LtType' /\ UNCHANGED <<session, adding>> /\ t \in session
  BY DEF LtDownload, LtComplete, LtFinishedAgain, LtMoveDone, LtType, ltVars
<1>3. RestType'
  <2>1. CASE LtDownload(t) \/ LtFinishedAgain(t)
    <3>1. posts < MaxPosts /\ posts' = posts + 1 /\ UNCHANGED <<complete, announced, calls>>
      BY <2>1 DEF LtDownload, LtFinishedAgain, LtStep
    <3> QED
      BY <3>1, ManagerConstants DEF RestType
  <2>2. CASE LtComplete(t)
    BY <2>2, ManagerConstants DEF LtComplete, LtStep, RestType
  <2>3. CASE LtMoveDone(t)
    BY <2>3 DEF LtMoveDone, RestType
  <2> QED
    BY <2>1, <2>2, <2>3
<1>4. QueuedUnlessDone'
  BY <1>1, QueueStable DEF mgrVars
<1>5. CASE \E kind \in AlertKinds : alerts' = Post(kind, t, TRUE)
  <2>1. PICK kind \in AlertKinds : alerts' = Post(kind, t, TRUE)
    BY <1>5
  <2>2. Links' /\ alerts' \in Seq(Alert)
    BY <2>1, <1>1, <1>2, LinksPostOnly DEF mgrVars
  <2> QED
    BY <1>1, <1>2, <1>3, <1>4, <2>2, Assemble
<1>6. CASE LtComplete(t)
  <2> DEFINE a == [kind |-> "state_changed", id |-> t, valid |-> TRUE]
             b == [kind |-> "torrent_finished", id |-> t, valid |-> TRUE]
             one == Append(alerts, a)
  <2>1. a \in Alert /\ b \in Alert /\ a.id = t /\ b.id = t
    BY DEF Alert, AlertKinds
  <2>2. alerts' = Append(one, b)
    BY <1>6 DEF LtComplete, Post
  <2> HIDE DEF a, b
  <2>3. /\ one \in Seq(Alert) /\ Len(one) = Len(alerts) + 1 /\ one[Len(alerts) + 1] = a
        /\ \A i \in 1..Len(alerts) : one[i] = alerts[i]
    BY <2>1, PostProperties
  <2> HIDE DEF one
  <2>4. /\ alerts' \in Seq(Alert) /\ Len(alerts') = Len(one) + 1 /\ alerts'[Len(one) + 1] = b
        /\ \A i \in 1..Len(one) : alerts'[i] = one[i]
    BY <2>1, <2>2, <2>3, PostProperties
  <2>5. Len(alerts) \in Nat
    BY LenProperties
  <2>6. Len(alerts) <= Len(alerts') /\ \A i \in 1..Len(alerts) : alerts'[i] = alerts[i]
    BY <2>3, <2>4, <2>5
  <2>7. \A i \in 1..Len(alerts') : i > Len(alerts) => alerts'[i].id = t
    <3> SUFFICES ASSUME NEW i \in 1..Len(alerts'), i > Len(alerts)
                 PROVE  alerts'[i].id = t
      OBVIOUS
    <3>1. i = Len(alerts) + 1 \/ i = Len(alerts) + 2
      BY <2>3, <2>4, <2>5
    <3>2. alerts'[Len(alerts) + 1] = a
      BY <2>3, <2>4, <2>5
    <3>3. alerts'[Len(alerts) + 2] = b
      <4>1. Len(one) + 1 = Len(alerts) + 2
        BY <2>3, <2>5
      <4> QED
        BY <4>1, <2>4
    <3> QED
      BY <3>1, <3>2, <3>3, <2>1
  <2>8. /\ Managed' = Managed /\ Managed \subseteq session
        /\ adding \subseteq loading \cup session /\ loading' = loading
    BY <1>1 DEF Managed, mgrVars, Links, SessionInSync
  <2>9. Links'
    BY <1>2, <2>4, <2>6, <2>7, <2>8, LinksExtend
  <2> QED
    BY <1>1, <1>2, <1>3, <1>4, <2>4, <2>9, Assemble
<1>7. \/ \E kind \in AlertKinds : alerts' = Post(kind, t, TRUE)
      \/ LtComplete(t)
  BY DEF LtDownload, LtFinishedAgain, LtMoveDone, AlertKinds
<1> QED
  BY <1>5, <1>6, <1>7
-----------------------------------------------------------------------------
\* on_alert_add_torrent(): the torrent of the session becomes a managed one.
LEMMA OnAddTorrentStep ==
    ASSUME IndInv, NEW t \in Ids, NEW isFinished \in BOOLEAN, NEW move \in BOOLEAN,
           OnAddTorrent(t, isFinished, move)
    PROVE  IndInv'
<1> USE InvParts
<1>1. /\ Head(alerts) = alerts[1] /\ 1 \in 1..Len(alerts)
      /\ alerts' \in Seq(Alert) /\ Len(alerts') = Len(alerts) - 1
      /\ \A i \in 1..Len(alerts') : alerts'[i] = alerts[i + 1]
  BY TailProperties DEF OnAddTorrent
<1>2. Len(alerts) \in Nat
  BY LenProperties
<1>3. MgrType'
  BY DEF OnAddTorrent, AddTorrentObj, MgrType
<1>4. SaveType'
  BY DEF OnAddTorrent, SaveState, SaveType, saveVars
<1>5. LtType' /\ RestType' /\ UNCHANGED <<session, adding>>
  BY DEF OnAddTorrent, LtType, RestType, ltVars
<1>6. QueuedUnlessDone'
  BY DEF OnAddTorrent, AddTorrentObj, MgrType, QueuedUnlessDone
<1>7. Managed' = Managed \cup {t} /\ loading' = loading \ {t}
  BY DEF OnAddTorrent, AddTorrentObj, Managed, MgrType
<1>8. t \in session
  BY <1>1 DEF OnAddTorrent, Links, SessionInSync
<1>9. SessionInSync'
  <2>1. \A i \in 1..Len(alerts') : alerts'[i].valid => alerts'[i].id \in session
    <3> SUFFICES ASSUME NEW i \in 1..Len(alerts'), alerts'[i].valid
                 PROVE  alerts'[i].id \in session
      OBVIOUS
    <3>1. i + 1 \in 1..Len(alerts) /\ alerts'[i] = alerts[i + 1]
      BY <1>1, <1>2
    <3> QED
      BY <3>1 DEF Links, SessionInSync
  <2> QED
    BY <2>1, <1>5, <1>7, <1>8 DEF Links, SessionInSync
<1>10. NoUnmanagedTorrent'
  <2> SUFFICES ASSUME NEW u \in session' \ Managed'
               PROVE  u \in loading' /\ AddOnItsWay(u, alerts')
    BY DEF NoUnmanagedTorrent, AddOnItsWay
  <2>1. u # t /\ u \in session \ Managed
    BY <1>5, <1>7
  <2>2. u \in loading'
    BY <2>1, <1>7 DEF Links, NoUnmanagedTorrent
  <2>3. PICK i \in 1..Len(alerts) :
               alerts[i].kind = "add_torrent" /\ alerts[i].id = u /\ alerts[i].valid
    BY <2>1 DEF Links, NoUnmanagedTorrent
  <2>4. i # 1
    BY <2>1, <2>3, <1>1 DEF OnAddTorrent
  <2>5. i - 1 \in 1..Len(alerts') /\ alerts'[i - 1] = alerts[i]
    BY <2>4, <1>1, <1>2
  <2> QED
    BY <2>2, <2>3, <2>5 DEF AddOnItsWay
<1> QED
  BY <1>1, <1>3, <1>4, <1>5, <1>6, <1>9, <1>10, Assemble DEF Links

\* The other alert handlers leave the links alone.
LEMMA HandlerStep ==
    ASSUME IndInv, NEW t \in Ids, NEW flag \in BOOLEAN,
           \/ IgnoreAlert \/ OnStateChanged(t, flag) \/ OnTorrentFinished(t, flag)
           \/ OnStorageMoved(t) \/ OnStorageMovedFailed(t)
    PROVE  IndInv'
<1> USE InvParts
<1>1. alerts # <<>> /\ alerts' = Tail(alerts) /\ UNCHANGED <<torrents, zombies, loading, session, adding>>
  BY DEF IgnoreAlert, OnStateChanged, OnTorrentFinished, OnStorageMoved, OnStorageMovedFailed,
         Handling, mgrVars, ltVars
<1>2. ~ (/\ Head(alerts).kind = "add_torrent" /\ Head(alerts).valid
         /\ Head(alerts).id \in loading)
  BY DEF IgnoreAlert, OnStateChanged, OnTorrentFinished, OnStorageMoved, OnStorageMovedFailed,
         Handling
<1>3. Links' /\ alerts' \in Seq(Alert)
  BY <1>1, <1>2, LinksTail
<1>4. SaveType'
  BY DEF IgnoreAlert, OnStateChanged, OnTorrentFinished, OnStorageMoved, OnStorageMovedFailed,
         SaveType, saveVars
<1>5. CASE IgnoreAlert
  <2>1. MgrType' /\ LtType' /\ RestType'
    BY <1>5 DEF IgnoreAlert, MgrType, mgrVars, LtType, ltVars, RestType
  <2>2. QueuedUnlessDone'
    BY <1>5, QueueStable DEF IgnoreAlert, mgrVars
  <2> QED
    BY <1>3, <1>4, <2>1, <2>2, Assemble
<1>6. CASE OnStateChanged(t, flag)
  <2>1. LtType' /\ RestType'
    BY <1>6 DEF OnStateChanged, LtType, ltVars, RestType
  <2>2. MgrType'
    BY <1>6 DEF OnStateChanged, MgrType
  <2>3. QueuedUnlessDone'
    BY <1>6 DEF OnStateChanged, QueuedUnlessDone, MgrType
  <2> QED
    BY <1>3, <1>4, <2>1, <2>2, <2>3, Assemble
<1>7. CASE OnTorrentFinished(t, flag)
  <2>1. MgrType'
    <3>1. UNCHANGED <<torrents, zombies, loading, moveOpt, starting>> /\ queued' = queued \ {t}
      BY <1>7 DEF OnTorrentFinished
    <3>2. waitMove' \in [Ids -> Nat]
      BY <1>7 DEF OnTorrentFinished, MgrType
    <3>3. finished' \in [Ids -> BOOLEAN]
      BY <1>7 DEF OnTorrentFinished, MgrType
    <3> QED
      BY <3>1, <3>2, <3>3 DEF MgrType
  <2>2. LtType'
    BY <1>7 DEF OnTorrentFinished, LtType
  <2>3. RestType'
    BY <1>7 DEF OnTorrentFinished, RestType
  <2>4. QueuedUnlessDone'
    BY <1>7 DEF OnTorrentFinished, QueuedUnlessDone, MgrType
  <2> QED
    BY <1>3, <1>4, <2>1, <2>2, <2>3, <2>4, Assemble
<1>8. CASE OnStorageMoved(t) \/ OnStorageMovedFailed(t)
  <2>1. MgrType'
    <3>1. UNCHANGED <<torrents, zombies, loading, queued, starting>> /\ MoveIsOver(t)
      BY <1>8 DEF OnStorageMoved, OnStorageMovedFailed
    <3>2. waitMove' \in [Ids -> Nat]
      BY <3>1 DEF MoveIsOver, MgrType
    <3>3. finished' \in [Ids -> BOOLEAN]
      BY <3>1 DEF MoveIsOver, MgrType
    <3>4. moveOpt' \in [Ids -> BOOLEAN]
      BY <1>8 DEF OnStorageMoved, OnStorageMovedFailed, MgrType
    <3> QED
      BY <3>1, <3>2, <3>3, <3>4 DEF MgrType
  <2>2. LtType'
    BY <1>8 DEF OnStorageMoved, OnStorageMovedFailed, LtType, ltVars
  <2>3. RestType'
    BY <1>8 DEF OnStorageMoved, OnStorageMovedFailed, MoveIsOver, RestType
  <2>4. QueuedUnlessDone'
    BY <1>8 DEF OnStorageMoved, OnStorageMovedFailed, MoveIsOver, QueuedUnlessDone, MgrType
  <2> QED
    BY <1>3, <1>4, <2>1, <2>2, <2>3, <2>4, Assemble
<1> QED
  BY <1>5, <1>6, <1>7, <1>8

\* Saving reads the manager and changes nothing in it.
LEMMA SaveStep ==
    ASSUME IndInv, PeriodicSave \/ SaveBegin \/ SaveEnd
    PROVE  IndInv'
<1> USE InvParts
<1>1. UNCHANGED <<mgrVars, ltVars, alerts, complete, announced, calls, posts>>
  BY DEF PeriodicSave, SaveBegin, SaveEnd
<1>2. MgrType' /\ LtType' /\ RestType' /\ alerts' \in Seq(Alert)
  BY <1>1 DEF MgrType, mgrVars, LtType, ltVars, RestType
<1>3. SaveType'
  BY DEF PeriodicSave, SaveBegin, SaveEnd, SaveState, SaveType, MgrType
<1>4. QueuedUnlessDone' /\ Links'
  BY <1>1, QueueStable, LinksStable DEF mgrVars, ltVars
<1> QED
  BY <1>2, <1>3, <1>4, Assemble
-----------------------------------------------------------------------------
(* Every step of the torrent manager keeps the inductive invariant.        *)
LEMMA StepInv ==
    ASSUME IndInv, [Next]_vars
    PROVE  IndInv'
<1>1. CASE Rpc
  BY <1>1, AddStep, RemoveStep, RpcStep DEF Rpc
<1>2. CASE Libtorrent
  BY <1>2, LtAddDoneStep, LtStepInv DEF Libtorrent
<1>3. CASE HandleAlert
  <2>1. CASE IgnoreAlert
    <3>1. alerts # <<>> /\ Head(alerts) = alerts[1] /\ 1 \in 1..Len(alerts)
      BY <2>1, TailProperties, InvParts DEF IgnoreAlert
    <3>2. Head(alerts).id \in Ids
      <4>1. alerts[1] \in Alert
        BY <3>1, InvParts, ElementOfSeq
      <4> QED
        BY <3>1, <4>1 DEF Alert
    <3> QED
      BY <2>1, <3>2, HandlerStep
  <2>2. CASE \E t \in Ids : \E isFinished, move \in BOOLEAN : OnAddTorrent(t, isFinished, move)
    BY <2>2, OnAddTorrentStep
  <2>3. CASE \E t \in Ids : \E flag \in BOOLEAN :
                OnStateChanged(t, flag) \/ OnTorrentFinished(t, flag)
    BY <2>3, HandlerStep
  <2>4. CASE \E t \in Ids : OnStorageMoved(t) \/ OnStorageMovedFailed(t)
    BY <2>4, HandlerStep
  <2> QED
    BY <1>3, <2>1, <2>2, <2>3, <2>4 DEF HandleAlert
<1>4. CASE PeriodicSave \/ SaveThread
  BY <1>4, SaveStep DEF SaveThread
<1>5. CASE UNCHANGED vars
  <2>1. UNCHANGED <<mgrVars, saveVars, ltVars, alerts, complete, announced, calls, posts>>
    BY <1>5 DEF vars
  <2>2. MgrType' /\ LtType' /\ RestType' /\ SaveType' /\ alerts' \in Seq(Alert)
    BY <2>1, InvParts DEF MgrType, mgrVars, LtType, ltVars, RestType, SaveType, saveVars
  <2>3. QueuedUnlessDone' /\ Links'
    BY <2>1, InvParts, QueueStable, LinksStable DEF mgrVars, ltVars
  <2> QED
    BY <2>2, <2>3, Assemble
<1> QED
  BY <1>1, <1>2, <1>3, <1>4, <1>5 DEF Next

\* Whatever RPC calls, libtorrent, the alert handlers and the saving thread do,
\* in any order, the manager's view of its torrents stays consistent.
THEOREM LifeInvariant == Spec => []IndInv
<1>1. Init => IndInv
  BY InitInv
<1>2. IndInv /\ [Next]_vars => IndInv'
  BY StepInv
<1> QED
  BY <1>1, <1>2, PTL DEF Spec

\* remove() finds an unfinished torrent in the queue or in its move.
THEOREM UnfinishedIsQueued == Spec => []QueuedUnlessDone
<1>1. IndInv => QueuedUnlessDone
  BY DEF IndInv
<1> QED
  BY <1>1, LifeInvariant, PTL

\* libtorrent never holds a torrent the daemon forgets about.
THEOREM EveryTorrentIsManaged == Spec => []NoUnmanagedTorrent
<1>1. IndInv => NoUnmanagedTorrent
  BY DEF IndInv
<1> QED
  BY <1>1, LifeInvariant, PTL

\* The manager's torrents, its pending adds and the alerts it can act upon are
\* those of the session.
THEOREM ManagerMatchesSession == Spec => []SessionInSync
<1>1. IndInv => SessionInSync
  BY DEF IndInv
<1> QED
  BY <1>1, LifeInvariant, PTL

\* A dead Torrent object comes from a removal during the move after a download,
\* and from nothing else.
THEOREM ZombiesComeFromMoves == Spec => ZombieOnlyFromMove
<1>1. IndInv /\ [Next]_vars => [\A t \in zombies' \ zombies : waitMove[t] > 0]_vars
  <2> SUFFICES ASSUME IndInv, [Next]_vars, NEW t \in zombies' \ zombies
               PROVE  waitMove[t] > 0
    OBVIOUS
  <2>1. zombies' # zombies
    OBVIOUS
  <2>2. PICK u \in Ids : Remove(u)
    <3>1. ~ UNCHANGED <<zombies>>
      BY <2>1
    <3>2. ~ UNCHANGED vars
      BY <3>1 DEF vars, mgrVars
    <3>3. ~ (Libtorrent \/ PeriodicSave \/ SaveThread)
      BY <3>1 DEF Libtorrent, PeriodicSave, SaveThread, SaveBegin, SaveEnd, LtAddDone, LtDownload,
                  LtComplete, LtFinishedAgain, LtMoveDone, mgrVars
    <3>4. ~ HandleAlert
      BY DEF HandleAlert, IgnoreAlert, OnAddTorrent, AddTorrentObj, OnStateChanged,
             OnTorrentFinished, OnStorageMoved, OnStorageMovedFailed, mgrVars
    <3>5. \A v \in Ids : /\ \A move \in BOOLEAN : ~ Add(v, move)
                         /\ ~ AddAsync(v) /\ ~ SetMoveCompleted(v)
                         /\ ~ MoveStorage(v) /\ ~ ForceRecheck(v)
      BY DEF Add, AddTorrentObj, AddAsync, SetMoveCompleted, MoveStorage, ForceRecheck, mgrVars
    <3> QED
      BY <3>2, <3>3, <3>4, <3>5 DEF Next, Rpc
  <2>3. RemoveRaises(u) /\ t = u /\ t \in torrents
    BY <2>2 DEF Remove, Managed
  <2> QED
    BY <2>3, InvParts DEF RemoveRaises, QueuedUnlessDone
<1> QED
  BY <1>1, LifeInvariant, PTL DEF Spec, ZombieOnlyFromMove
=============================================================================
