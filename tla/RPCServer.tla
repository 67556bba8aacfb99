------------------------------ MODULE RPCServer ------------------------------
(***************************************************************************)
(* deluge/core/rpcserver.py: the sessions of the daemon, composed with the *)
(* accounts of AuthManager.tla.                                            *)
(*                                                                         *)
(* A session is a connection.  The factory keeps three tables about it:    *)
(* authorized_sessions (connectionMade enters it with AUTH_LEVEL_NONE,     *)
(* daemon.login raises the level), session_protocols (only after a login)  *)
(* and interested_events.  Requests, timers, the polling of the auth file  *)
(* and lost connections interleave freely; one of them is one action.      *)
(* A request is run by callLater(0); it depends on the tables only when it *)
(* runs, so a request is chosen when it is run.  Requests that wait run    *)
(* before the reactor looks at its sockets again, hence before the         *)
(* connection they came from can be reported lost.                         *)
(*                                                                         *)
(* A request that awaits something (a download, say) goes on later, among  *)
(* other requests; what it then asks of the server is answered from        *)
(* factory.session_id, the last session to have called a method.           *)
(*                                                                         *)
(* Left out: refused and malformed requests that change no table, the      *)
(* registered methods, and the limiter of failed logins, which only        *)
(* refuses some of the logins that are possible here.                      *)
(***************************************************************************)
EXTENDS AuthManager

CONSTANTS
  Sessions,   \* session numbers; a connection never reuses one
  NoSession,  \* -1, no method was called yet
  Default     \* AUTH_LEVEL_DEFAULT, the level an exported method asks for

ASSUME RPCAssumption ==
  /\ NoSession \notin Sessions
  /\ Default \in Levels
  /\ Default > 0
  /\ Default <= Admin

NoUser == ""

VARIABLES
  connection,   \* "none", "open", "closing" (loseConnection) or "lost"
  level,        \* authorized_sessions[s].auth_level
  user,         \* authorized_sessions[s].username
  authorized,   \* the keys of authorized_sessions
  protocols,    \* the keys of session_protocols
  interested,   \* the keys of interested_events
  timed,        \* sessions with an active _login_timer
  session_id,   \* factory.session_id
  awaiting,     \* sessions with a request suspended at an await
  event,        \* argument of the last ClientDisconnectedEvent
  running,      \* factory.state is 'running'
  opened,       \* history: the account a session was logged in with
  unsettled     \* history: sessions that stayed when a save could not be undone

sessionVars == <<connection, level, user, authorized, protocols, interested,
                 timed, session_id, awaiting, event, running, opened,
                 unsettled>>
vars == <<authVars, sessionVars>>

TypeOK ==
  /\ AuthTypeOK
  /\ connection \in [Sessions -> {"none", "open", "closing", "lost"}]
  /\ level \in [Sessions -> Levels]
  /\ user \in [Sessions -> Users \cup {NoUser}]
  /\ authorized \subseteq Sessions
  /\ protocols \subseteq Sessions
  /\ interested \subseteq Sessions
  /\ timed \subseteq Sessions
  /\ session_id \in Sessions \cup {NoSession}
  /\ awaiting \subseteq Sessions
  /\ event \in Sessions \cup {NoSession}
  /\ running \in BOOLEAN
  /\ opened \in [Sessions -> Account \cup {NoAccount}]
  /\ unsettled \subseteq Sessions

Init ==
  /\ AuthInit
  /\ connection = [s \in Sessions |-> "none"]
  /\ level = [s \in Sessions |-> 0]
  /\ user = [s \in Sessions |-> NoUser]
  /\ authorized = {}
  /\ protocols = {}
  /\ interested = {}
  /\ timed = {}
  /\ session_id = NoSession
  /\ awaiting = {}
  /\ event = NoSession
  /\ running = TRUE
  /\ opened = [s \in Sessions |-> NoAccount]
  /\ unsettled = {}

-----------------------------------------------------------------------------
Connected(s) == connection[s] \in {"open", "closing"}

(* loseConnection: the connection is only reported lost later.             *)
LoseConnections(those) ==
  connection' = [s \in Sessions |->
                   IF s \in those /\ connection[s] = "open"
                   THEN "closing" ELSE connection[s]]

(* end_user_sessions, for every user of a set; `also' are sessions whose   *)
(* connection the same request closes for another reason.                  *)
SessionsOf(users) ==
  {s \in authorized : level[s] > 0 /\ user[s] \in users}

(* Mutant: the event interests of an ended session stay.                   *)
EndUserSessionsKeepsInterest(users, also) ==
  LET those == SessionsOf(users)
  IN  /\ level' = [s \in Sessions |-> IF s \in those THEN 0 ELSE level[s]]
      /\ user' = [s \in Sessions |-> IF s \in those THEN NoUser ELSE user[s]]
      /\ opened' = [s \in Sessions |->
                      IF s \in those THEN NoAccount ELSE opened[s]]
      /\ protocols' = protocols \ those
      /\ LoseConnections((those \cap protocols) \cup also)
      /\ UNCHANGED <<authorized, timed, interested>>

(* Mutant: the protocol is looked up after it was dropped, so never closed. *)
EndUserSessionsStayOpen(users, also) ==
  LET those == SessionsOf(users)
  IN  /\ level' = [s \in Sessions |-> IF s \in those THEN 0 ELSE level[s]]
      /\ user' = [s \in Sessions |-> IF s \in those THEN NoUser ELSE user[s]]
      /\ opened' = [s \in Sessions |->
                      IF s \in those THEN NoAccount ELSE opened[s]]
      /\ interested' = interested \ those
      /\ protocols' = protocols \ those
      /\ LoseConnections(also)
      /\ UNCHANGED <<authorized, timed>>

EndUserSessions(users, also) ==
  LET those == SessionsOf(users)
  IN  /\ level' = [s \in Sessions |-> IF s \in those THEN 0 ELSE level[s]]
      /\ user' = [s \in Sessions |-> IF s \in those THEN NoUser ELSE user[s]]
      /\ opened' = [s \in Sessions |->
                      IF s \in those THEN NoAccount ELSE opened[s]]
      /\ interested' = interested \ those
      /\ protocols' = protocols \ those
      /\ LoseConnections((those \cap protocols) \cup also)
      /\ UNCHANGED <<authorized, timed>>

(* The same, followed by a good login of s as u.                           *)
EndUserSessionsAndLogIn(users, s, u, account) ==
  LET those == SessionsOf(users)
  IN  /\ level' = [[x \in Sessions |-> IF x \in those THEN 0 ELSE level[x]]
                     EXCEPT ![s] = account.level]
      /\ user' = [[x \in Sessions |-> IF x \in those THEN NoUser ELSE user[x]]
                    EXCEPT ![s] = u]
      /\ opened' = [[x \in Sessions |->
                        IF x \in those THEN NoAccount ELSE opened[x]]
                      EXCEPT ![s] = account]
      /\ interested' = interested \ those
      /\ protocols' = (protocols \ those) \cup {s}
      /\ LoseConnections(those \cap protocols)
      /\ authorized' = authorized \cup {s}
      /\ timed' = timed \ {s}

(* get_session_user                                                        *)
SessionUser ==
  IF session_id \in authorized THEN user[session_id] ELSE NoUser

(* The check in dispatch that precedes a call of an exported method.       *)
MayCall(s, required) ==
  /\ Connected(s)
  /\ s \in authorized
  /\ level[s] >= required

-----------------------------------------------------------------------------
(* Connections.                                                            *)

(* Mutant: no login timer.                                                 *)
ConnectionMadeUntimed(s) ==
  /\ connection[s] = "none"
  /\ connection' = [connection EXCEPT ![s] = "open"]
  /\ authorized' = authorized \cup {s}
  /\ level' = [level EXCEPT ![s] = 0]
  /\ user' = [user EXCEPT ![s] = NoUser]
  /\ UNCHANGED <<timed, protocols, interested, session_id, awaiting, event,
                 running, opened,
                 unsettled, authVars>>

ConnectionMade(s) ==
  /\ connection[s] = "none"
  /\ connection' = [connection EXCEPT ![s] = "open"]
  /\ authorized' = authorized \cup {s}
  /\ level' = [level EXCEPT ![s] = 0]
  /\ user' = [user EXCEPT ![s] = NoUser]
  /\ timed' = timed \cup {s}
  /\ UNCHANGED <<protocols, interested, session_id, awaiting, event, running,
                 opened,
                 unsettled, authVars>>

LoginTimedOut(s) ==
  /\ s \in timed
  /\ timed' = timed \ {s}
  /\ LoseConnections({s})
  /\ UNCHANGED <<level, user, authorized, protocols, interested, session_id,
                 awaiting, event, running, opened,
                 unsettled, authVars>>

(* connectionLost: the peer went away or the connection was closed.        *)
ConnectionLost(s) ==
  /\ Connected(s)
  /\ connection' = [connection EXCEPT ![s] = "lost"]
  /\ timed' = timed \ {s}
  /\ authorized' = authorized \ {s}
  /\ level' = [level EXCEPT ![s] = 0]
  /\ user' = [user EXCEPT ![s] = NoUser]
  /\ opened' = [opened EXCEPT ![s] = NoAccount]
  /\ protocols' = protocols \ {s}
  /\ interested' = interested \ {s}
  /\ event' = IF running THEN session_id ELSE event
  /\ UNCHANGED <<session_id, awaiting, running, unsettled, authVars>>

-----------------------------------------------------------------------------
(* daemon.login.                                                           *)

(* authorize(): an unknown name makes it look into the file again; then    *)
(* the account in memory counts.                                           *)
Authorize(u) ==
  IF auth[u] = NoAccount THEN Reload ELSE UNCHANGED authVars

(* Wrong name or password; no entry for the name; an account with          *)
(* AUTH_LEVEL_NONE, which is answered and disconnected; a good login.      *)
Login(s, u) ==
  /\ Connected(s)
  /\ Authorize(u)
  /\ \E ended \in {Changed(auth, auth')} :
       \/ /\ EndUserSessions(ended, {})
          /\ UNCHANGED unsettled
       \/ /\ auth'[u] # NoAccount
          /\ auth'[u].level = 0
          /\ EndUserSessions(ended, {s})
          /\ UNCHANGED unsettled
       \/ /\ auth'[u] # NoAccount
          /\ auth'[u].level > 0
          /\ EndUserSessionsAndLogIn(ended, s, u, auth'[u])
          /\ unsettled' = unsettled \ {s}
  /\ UNCHANGED <<session_id, awaiting, event, running>>

-----------------------------
(* Requests of a session.                                                  *)

(* daemon.set_event_interest                                               *)
SetEventInterest(s) ==
  /\ Connected(s)
  /\ s \in protocols
  /\ interested' = interested \cup {s}
  /\ UNCHANGED <<connection, level, user, authorized, protocols, timed,
                 session_id, awaiting, event, running, opened,
                 unsettled, authVars>>

(* An exported method that returns at once; the weakest ask for no level.  *)
CallMethod(s) ==
  /\ MayCall(s, 0)
  /\ session_id' = s
  /\ UNCHANGED <<connection, level, user, authorized, protocols, interested,
                 timed, awaiting, event, running, opened,
                 unsettled, authVars>>

(* An exported method that awaits, Core.add_torrent_url for instance ...   *)
CallAndAwait(s) ==
  /\ MayCall(s, Default)
  /\ session_id' = s
  /\ awaiting' = awaiting \cup {s}
  /\ UNCHANGED <<connection, level, user, authorized, protocols, interested,
                 timed, event, running, opened,
                 unsettled, authVars>>

(* ... and goes on when what it waited for is there.  It asks for the user *)
(* that called it, to be the owner of the torrent, now.                    *)
Continue(s) ==
  /\ s \in awaiting
  /\ awaiting' = awaiting \ {s}
  /\ UNCHANGED <<connection, level, user, authorized, protocols, interested,
                 timed, session_id, event, running, opened,
                 unsettled, authVars>>

(* The methods about accounts, for administrators; no account is a removal. *)
AccountCall(s, u, account, write) ==
  \/ account # NoAccount /\ CreateAccount(u, account, write)
  \/ account # NoAccount /\ UpdateAccount(u, account, write)
  \/ account = NoAccount /\ RemoveAccount(user[s], u, write)

(* A save that fails does not end the sessions of its user: the change is  *)
(* to be undone by reading the file.  That gives the old account back only *)
(* when memory had all of the file, and the file is read.                  *)
LeftUnsettled(u, write) ==
  IF write = "saved" \/ (current /\ ~torn /\ ~torn')
  THEN {} ELSE SessionsOf({u})

ChangeAccount(s, u) ==
  /\ MayCall(s, Admin)
  /\ session_id' = s
  /\ \E account \in Account \cup {NoAccount}, write \in Writes :
       /\ AccountCall(s, u, account, write)
       /\ \E ended \in {Ended(u, account, write)} :
            /\ EndUserSessions(ended, {})
            /\ unsettled' =
                 unsettled \cup (LeftUnsettled(u, write) \ SessionsOf(ended))
  /\ UNCHANGED <<awaiting, event, running>>

(* get_known_accounts reads the file again.                                *)
GetKnownAccounts(s) ==
  /\ MayCall(s, Admin)
  /\ session_id' = s
  /\ Reload
  /\ \E ended \in {Changed(auth, auth')} : EndUserSessions(ended, {})
  /\ UNCHANGED <<awaiting, event, running, unsettled>>

-----------------------------------------------------------------------------
(* AuthManager.update(), called by the component timer.                    *)
UpdateAuth ==
  /\ Reload
  /\ \E ended \in {Changed(auth, auth')} : EndUserSessions(ended, {})
  /\ UNCHANGED <<session_id, awaiting, event, running, unsettled>>

EditAuthFile == EditFile /\ UNCHANGED sessionVars

(* RPCServer.stop()                                                        *)
Stop ==
  /\ running
  /\ running' = FALSE
  /\ UNCHANGED <<connection, level, user, authorized, protocols, interested,
                 timed, session_id, awaiting, event, opened,
                 unsettled, authVars>>

Next ==
  \/ \E s \in Sessions :
       \/ ConnectionMade(s)
       \/ LoginTimedOut(s)
       \/ ConnectionLost(s)
       \/ SetEventInterest(s)
       \/ CallMethod(s)
       \/ CallAndAwait(s)
       \/ Continue(s)
       \/ GetKnownAccounts(s)
       \/ \E u \in Users : Login(s, u) \/ ChangeAccount(s, u)
  \/ UpdateAuth
  \/ EditAuthFile
  \/ Stop

Spec == Init /\ [][Next]_vars

(* The reactor fires the login timer, and a connection that was told to    *)
(* close is reported lost in the end.                                      *)
Fairness ==
  \A s \in Sessions :
    /\ WF_vars(LoginTimedOut(s))
    /\ WF_vars(connection[s] = "closing" /\ ConnectionLost(s))

FairSpec == Spec /\ Fairness

-----------------------------------------------------------------------------
(* The three tables agree: only a connected session has an entry, only a   *)
(* session with a level has a protocol to send events to, and only such a  *)
(* session has event interests.  emit_event_for_session_id indexes         *)
(* session_protocols with a key it found in interested_events, and         *)
(* end_user_sessions closes only connections it finds in                   *)
(* session_protocols.                                                      *)
SessionTablesAgree ==
  /\ \A s \in Sessions : s \in authorized <=> Connected(s)
  /\ \A s \in Sessions : s \in protocols <=> s \in authorized /\ level[s] > 0
  /\ interested \subseteq protocols

(* A session keeps the rights of a login only as long as the account in    *)
(* memory is the one it was opened with: whatever changes or removes an    *)
(* account (a request, the poll of an edited file, a backup read in its    *)
(* place, a save that failed and was undone) has ended the sessions of its *)
(* user.  Only a save that fails and is not undone, for the file cannot be *)
(* read then or an edit of it was not read before, leaves the sessions the *)
(* user has at that moment unsettled: write_auth_file raises, and so       *)
(* update_account and remove_account do not reach _end_sessions.           *)
SessionsMatchAccounts ==
  \A s \in authorized :
    level[s] > 0 => /\ user[s] \in Users
                    /\ opened[s] # NoAccount
                    /\ opened[s].level = level[s]
                    /\ s \notin unsettled => auth[user[s]] = opened[s]

(* An open connection without a login has its timer running, so it cannot  *)
(* stay: neither a failed login nor the end of its session leaves it       *)
(* unattended.                                                             *)
IdleSessionsAreTimed ==
  \A s \in Sessions : connection[s] = "open" /\ level[s] = 0 => s \in timed

(* A connection that is open and not logged in logs in or is closed.       *)
IdleConnectionsEnd ==
  \A s \in Sessions :
    (connection[s] = "open" /\ level[s] = 0)
      ~> (level[s] > 0 \/ connection[s] = "lost")

(* When the manager holds the modification time of the file, memory and    *)
(* file are the same, whatever was saved, refused or edited and whatever   *)
(* could not be read: unless the backup was read in place of the file, or  *)
(* a save failed and the file could not be read either, and the file was   *)
(* not read since.                                                         *)
MemoryMatchesFile == current /\ ~torn => auth = file

(* "Load it again so memory matches it", says write_auth_file of a save    *)
(* that failed: when the time of the file is known, memory is the file.    *)
MemoryIsTheFile == current => auth = file

(* A request that goes on after an await is told the user that called it,  *)
(* as long as that session is logged in ("Returns the username calling the *)
(* current RPC").                                                          *)
ContinuationKnowsItsCaller ==
  [][\A s \in awaiting \cap protocols :
       s \notin awaiting' => SessionUser = user[s]]_vars

(* ClientDisconnectedEvent carries the session that was disconnected.      *)
DisconnectEventNamesTheSession ==
  [][\A s \in Sessions :
       Connected(s) /\ connection'[s] = "lost" /\ running => event' = s]_vars

=============================================================================
