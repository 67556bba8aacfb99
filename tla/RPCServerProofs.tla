--------------------------- MODULE RPCServerProofs ---------------------------
(***************************************************************************)
(* Proofs about the server's sessions and accounts, for any number of      *)
(* sessions, users, passwords and levels; about the limiter that its login *)
(* asks first; and about the registry that starts and stops it with the    *)
(* other components, whatever they depend on.                              *)
(***************************************************************************)
EXTENDS RPCServer, LoginLimiter, Component, SequenceTheorems,
        WellFoundedInduction, TLAPS

-----------------------------------------------------------------------------
(* Where the accounts are from that loading yields, and what that says of  *)
(* memory and file.  The table is one of accounts in any case.             *)
LoadedFrom(mem, f, seen, result) ==
  \/ /\ result.from = "none"
     /\ Skipped(f, seen)
     /\ result.auth = mem
     /\ result.file = f
  \/ /\ result.from = "memory"
     /\ result.auth = mem
     /\ seen # "unset" => ~result.current
  \/ /\ result.from = "file"
     /\ result.auth = result.file
     /\ f # Missing =>
          \A u \in Users : f[u] # NoAccount => result.auth[u] = f[u]
  \/ result.from \in {"backup", "neither"}

ResultType(result) ==
  /\ result.auth \in AccountTables
  /\ result.file \in AccountTables \cup {Missing}
  /\ result.current \in BOOLEAN

(* The file that localclient is appended to or that is created for it.     *)
LEMMA LocalType ==
  ASSUME NEW token \in Passwords
  PROVE  /\ \A t \in AccountTables :
              /\ WithLocal(t, token) \in AccountTables
              /\ Complete(WithLocal(t, token))
              /\ \A u \in Users \ {Local} : WithLocal(t, token)[u] = t[u]
         /\ \A f \in AccountTables \cup {Missing} :
              Existing(f, token) \in AccountTables
<1>1. [pw |-> token, level |-> Admin] \in Account
  BY AuthAssumption DEF Account
<1>2. ASSUME NEW t \in AccountTables
      PROVE  /\ WithLocal(t, token) \in AccountTables
             /\ WithLocal(t, token)[Local] # NoAccount
             /\ \A u \in Users \ {Local} : WithLocal(t, token)[u] = t[u]
  BY <1>1, AuthAssumption DEF WithLocal, AccountTables
<1>3. \A t \in AccountTables : Complete(WithLocal(t, token))
  BY <1>2, AuthAssumption DEF Complete
<1>4. [u \in Users |-> NoAccount] \in AccountTables
  BY DEF AccountTables
<1>5. QED
  BY <1>2, <1>3, <1>4 DEF Existing

(* The second attempt.                                                     *)
LEMMA LoadAgainForms ==
  ASSUME NEW mem \in AccountTables, NEW there \in AccountTables,
         NEW b \in AccountTables \cup {Missing}, NEW seen,
         NEW first \in Reads, NEW second \in Reads, NEW token \in Passwords,
         ~Complete(ReadFrom(there, b, first))
  PROVE  LET result == LoadAgain(mem, WithLocal(there, token), b, first, second)
         IN  ResultType(result) /\ LoadedFrom(mem, there, seen, result)
<1> DEFINE mended  == WithLocal(there, token)
           content == ReadFrom(mended, b, second)
           result  == LoadAgain(mem, mended, b, first, second)
<1> SUFFICES ResultType(result) /\ LoadedFrom(mem, there, seen, result)
  OBVIOUS
<1>1. /\ mended \in AccountTables
      /\ Complete(mended)
      /\ \A u \in Users \ {Local} : mended[u] = there[u]
  BY LocalType
<1>2. content \in AccountTables \cup {Missing}
  BY <1>1 DEF ReadFrom
<1>3. there # Missing /\ mended # Missing
  BY <1>1, AuthAssumption
<1>4. CASE GoesOnWith(mem, content)
  <2>1. result = [auth |-> mem, file |-> mended, current |-> FALSE,
                  from |-> "memory"]
    BY <1>4 DEF LoadAgain
  <2>2. QED
    BY <1>1, <2>1 DEF ResultType, LoadedFrom
<1>5. CASE ~GoesOnWith(mem, content)
  <2>1. result = [auth |-> IF Complete(content) THEN content ELSE mended,
                  file |-> mended, current |-> TRUE,
                  from |-> IF second = "backup" THEN "backup" ELSE first]
    BY <1>5 DEF LoadAgain
  <2>2. ResultType(result)
    <3>1. /\ (result.auth = content /\ content # Missing) \/ result.auth = mended
          /\ result.file = mended
          /\ result.current = TRUE
      BY <2>1 DEF Complete
    <3> HIDE DEF result, content, mended
    <3>2. QED
      BY <1>1, <1>2, <3>1, AuthAssumption DEF ResultType
  <2>3. CASE second = "backup" \/ first # "file"
    <3>1. result.from = IF second = "backup" THEN "backup" ELSE first
      BY <2>1
    <3>2. result.from \in {"backup", "neither"}
      BY <2>3, <3>1 DEF Reads
    <3> HIDE DEF result
    <3>3. QED
      BY <2>2, <3>2 DEF LoadedFrom
  <2>4. CASE second # "backup" /\ first = "file"
    <3>1. result.from = "file" /\ result.file = mended
      BY <2>1, <2>4
    <3>2. ReadFrom(there, b, first) = there
      BY <2>4 DEF ReadFrom
    <3>3. there[Local] = NoAccount
      BY <1>3, <3>2 DEF Complete
    <3>4. content = mended \/ content = Missing
      BY <2>4 DEF ReadFrom, Reads
    <3>5. result.auth = mended
      BY <2>1, <3>4 DEF Complete
    <3>6. \A u \in Users : there[u] # NoAccount => mended[u] = there[u]
      BY <1>1, <3>3
    <3> HIDE DEF result, mended
    <3>7. QED
      BY <2>2, <3>1, <3>5, <3>6 DEF LoadedFrom
  <2>5. QED
    BY <2>2, <2>3, <2>4
<1>6. QED
  BY <1>4, <1>5

(* Loading the accounts, whatever can be opened.                           *)
LEMMA LoadForms ==
  ASSUME NEW mem \in AccountTables, NEW f \in AccountTables \cup {Missing},
         NEW b \in AccountTables \cup {Missing}, NEW seen,
         NEW result \in Loads(mem, f, b, seen)
  PROVE  ResultType(result) /\ LoadedFrom(mem, f, seen, result)
<1>1. CASE Skipped(f, seen)
  <2>1. result = [auth |-> mem, file |-> f, current |-> TRUE, from |-> "none"]
    BY <1>1 DEF Loads
  <2>2. QED
    BY <1>1, <2>1 DEF ResultType, LoadedFrom
<1>2. CASE ~Skipped(f, seen)
  <2>1. PICK first \in Reads, token \in Passwords :
          result \in Load(mem, Existing(f, token), b, seen = "unset", first, token)
    BY <1>2 DEF Loads
  <2> DEFINE there   == Existing(f, token)
             content == ReadFrom(there, b, first)
  <2>2. there \in AccountTables /\ (f # Missing => there = f)
    BY LocalType DEF Existing
  <2>3. there # Missing
    BY <2>2, AuthAssumption
  <2>4. content \in AccountTables \cup {Missing}
    BY <2>2 DEF ReadFrom
  <2>5. ResultType(result) /\ LoadedFrom(mem, there, seen, result)
    <3>1. CASE GoesOnWith(mem, content)
      <4>1. result = [auth |-> mem, file |-> there, current |-> seen = "unset",
                      from |-> "memory"]
        BY <2>1, <3>1 DEF Load
      <4> HIDE DEF there
      <4>2. QED
        BY <2>2, <4>1 DEF ResultType, LoadedFrom
    <3>2. CASE ~GoesOnWith(mem, content) /\ Complete(content)
      <4>1. result = [auth |-> content, file |-> there, current |-> TRUE,
                      from |-> first]
        BY <2>1, <3>2 DEF Load
      <4>2. content \in AccountTables
        BY <2>4, <3>2 DEF Complete
      <4>3. first = "file" => content = there
        BY DEF ReadFrom
      <4> HIDE DEF there, content
      <4>4. QED
        BY <2>2, <4>1, <4>2, <4>3 DEF ResultType, LoadedFrom, Reads
    <3>3. CASE ~GoesOnWith(mem, content) /\ ~Complete(content)
      <4>1. PICK second \in Reads :
              result = LoadAgain(mem, WithLocal(there, token), b, first, second)
        BY <2>1, <3>3 DEF Load
      <4> HIDE DEF there
      <4>2. QED
        BY <2>2, <3>3, <4>1, LoadAgainForms
    <3>4. QED
      BY <3>1, <3>2, <3>3
  <2>6. f = Missing \/ there = f
    BY <2>2
  <2>7. ~Skipped(there, seen) \/ f = Missing
    BY <1>2, <2>2
  <2>8. CASE there = f
    BY <2>5, <2>8
  <2>9. CASE f = Missing
    <3>1. result.from # "none"
      <4>1. CASE GoesOnWith(mem, content)
        BY <2>1, <4>1 DEF Load
      <4>2. CASE ~GoesOnWith(mem, content) /\ Complete(content)
        BY <2>1, <4>2 DEF Load, Reads
      <4>3. CASE ~GoesOnWith(mem, content) /\ ~Complete(content)
        BY <2>1, <4>3 DEF Load, LoadAgain, Reads
      <4>4. QED
        BY <4>1, <4>2, <4>3
    <3> HIDE DEF there, content
    <3>2. QED
      BY <2>5, <2>9, <3>1 DEF LoadedFrom
  <2>10. QED
    BY <2>6, <2>8, <2>9
<1>3. QED
  BY <1>1, <1>2

-----------------------------------------------------------------------------
(* The contract between the accounts and the sessions: an account that a   *)
(* step changes belongs to a user whose sessions the step ends.            *)
OthersKept(users) ==
  \A u \in Users \ users : auth[u] # NoAccount => auth'[u] = auth[u]

(* update(), get_known_accounts() and a login with an unknown name keep    *)
(* the contract, and leave memory and file as they should be.              *)
LEMMA ReloadContract ==
  ASSUME AuthTypeOK, Reload
  PROVE  /\ AuthTypeOK'
         /\ OthersKept(Changed(auth, auth'))
         /\ MemoryMatchesFile => MemoryMatchesFile'
<1>1. PICK result \in Loads(auth, file, backup, Seen) : Become(result, FALSE)
  BY DEF Reload
<1>2. ResultType(result) /\ LoadedFrom(auth, file, Seen, result)
  BY LoadForms DEF AuthTypeOK
<1>3. /\ auth' = result.auth
      /\ file' = result.file
      /\ current' = result.current
      /\ backup' = backup
  BY <1>1 DEF Reload, Become
<1>4. /\ result.from = "file" => ~torn'
      /\ result.from = "none" => torn' = torn
      /\ result.from \in {"backup", "neither"} => torn'
      /\ torn' \in BOOLEAN
  BY <1>1 DEF Become, AuthTypeOK
<1>5. AuthTypeOK'
  BY <1>2, <1>3, <1>4 DEF AuthTypeOK, ResultType
<1>6. OthersKept(Changed(auth, auth'))
  BY DEF OthersKept, Changed
<1>7. ASSUME MemoryMatchesFile
      PROVE  MemoryMatchesFile'
  <2>1. Seen # "unset" /\ (Seen = "same" => current)
    BY DEF Seen
  <2>2. CASE result.from = "none" /\ Skipped(file, Seen)
               /\ result.auth = auth /\ result.file = file
    BY <1>3, <1>4, <1>7, <2>1, <2>2 DEF MemoryMatchesFile, Skipped
  <2>3. CASE ~result.current
    BY <1>3, <2>3 DEF MemoryMatchesFile
  <2>4. CASE result.auth = result.file
    BY <1>3, <2>4 DEF MemoryMatchesFile
  <2>5. CASE result.from \in {"backup", "neither"}
    BY <1>4, <2>5 DEF MemoryMatchesFile
  <2>6. QED
    BY <1>2, <2>1, <2>2, <2>3, <2>4, <2>5 DEF LoadedFrom
<1>8. QED
  BY <1>5, <1>6, <1>7

(* A save, good or bad, of the accounts with one of them changed: it keeps *)
(* the accounts of the others unless it ends their sessions, and when it   *)
(* is undone the changed one as well.                                      *)
LEMMA SaveContract ==
  ASSUME AuthTypeOK, NEW u \in Users, NEW a \in Account \cup {NoAccount},
         NEW write \in Writes, Save([auth EXCEPT ![u] = a], write)
  PROVE  /\ AuthTypeOK'
         /\ MemoryMatchesFile'
         /\ OthersKept(Ended(u, a, write) \cup {u})
         /\ write = "saved" => OthersKept(Ended(u, a, write))
         /\ MemoryMatchesFile /\ write # "saved" /\ current /\ ~torn /\ ~torn'
              => OthersKept(Ended(u, a, write))
<1> DEFINE mem == [auth EXCEPT ![u] = a]
<1>1. PICK result \in Write(mem, write) : Become(result, write # "saved")
  BY DEF Save
<1>2. /\ mem \in AccountTables
      /\ \A x \in Users \ {u} : mem[x] = auth[x]
  BY DEF AuthTypeOK, AccountTables
<1>3. BackedUp(write) \in AccountTables \cup {Missing}
  BY DEF BackedUp, AuthTypeOK
<1>4. /\ auth' = result.auth
      /\ file' = result.file
      /\ current' = result.current
      /\ backup' = BackedUp(write)
  BY <1>1 DEF Save, Become
<1>5. /\ result.from = "memory" /\ write # "saved" => torn'
      /\ result.from \in {"backup", "neither"} => torn'
      /\ torn' \in BOOLEAN
  BY <1>1 DEF Become, AuthTypeOK
<1> HIDE DEF mem
<1>6. CASE write = "saved"
  <2>1. result \in Loads(mem, mem, BackedUp(write), "old")
    BY <1>1, <1>6 DEF Write
  <2>2. ResultType(result) /\ LoadedFrom(mem, mem, "old", result)
    BY <1>2, <1>3, <2>1, LoadForms
  <2>3. ~result.current \/ result.auth = result.file \/ torn'
    BY <1>5, <2>2 DEF LoadedFrom, Skipped
  <2>4. AuthTypeOK' /\ MemoryMatchesFile'
    BY <1>3, <1>4, <1>5, <2>2, <2>3 DEF AuthTypeOK, ResultType, MemoryMatchesFile
  <2>5. Changed(mem, auth') \subseteq Ended(u, a, write)
    BY DEF Ended, mem
  <2>6. auth[u] # NoAccount => u \in Ended(u, a, write)
    BY <1>6 DEF Ended
  <2>7. OthersKept(Ended(u, a, write))
    BY <1>2, <2>5, <2>6 DEF OthersKept, Changed
  <2>8. OthersKept(Ended(u, a, write) \cup {u})
    BY <2>7 DEF OthersKept
  <2>9. QED
    BY <1>6, <2>4, <2>7, <2>8
<1>7. CASE write # "saved"
  <2>1. result \in Loads(mem, file, BackedUp(write), "unset")
    BY <1>1, <1>7 DEF Write
  <2>2. ResultType(result) /\ LoadedFrom(mem, file, "unset", result)
    BY <1>2, <1>3, <2>1, LoadForms DEF AuthTypeOK
  <2>3. torn' \/ /\ result.auth = result.file
                 /\ file # Missing =>
                      \A x \in Users : file[x] # NoAccount => result.auth[x] = file[x]
    BY <1>5, <1>7, <2>2 DEF LoadedFrom, Skipped
  <2>4. AuthTypeOK' /\ MemoryMatchesFile'
    BY <1>3, <1>4, <1>5, <2>2, <2>3 DEF AuthTypeOK, ResultType, MemoryMatchesFile
  <2>5. Changed(mem, auth') \subseteq Ended(u, a, write)
    BY DEF Ended, mem
  <2>6. OthersKept(Ended(u, a, write) \cup {u})
    BY <1>2, <2>5 DEF OthersKept, Changed
  <2>7. ASSUME MemoryMatchesFile, current, ~torn, ~torn'
        PROVE  OthersKept(Ended(u, a, write))
    <3>1. auth = file /\ file # Missing
      BY <2>7, AuthAssumption DEF MemoryMatchesFile, AuthTypeOK
    <3>2. QED
      BY <1>4, <2>3, <2>7, <3>1 DEF OthersKept
  <2>8. QED
    BY <1>7, <2>4, <2>6, <2>7
<1>8. QED
  BY <1>6, <1>7

(* Each request about an account is such a save.                           *)
LEMMA AccountCallSaves ==
  ASSUME NEW s, NEW u, NEW a, NEW write, AccountCall(s, u, a, write)
  PROVE  Save([auth EXCEPT ![u] = a], write)
BY DEF AccountCall, CreateAccount, UpdateAccount, RemoveAccount

-----------------------------------------------------------------------------
(* The types of the session tables.                                        *)
SessionTypeOK ==
  /\ connection \in [Sessions -> {"none", "open", "closing", "lost"}]
  /\ level \in [Sessions -> Levels]
  /\ user \in [Sessions -> Users \cup {NoUser}]
  /\ authorized \subseteq Sessions
  /\ protocols \subseteq Sessions
  /\ interested \subseteq Sessions
  /\ timed \subseteq Sessions
  /\ opened \in [Sessions -> Account \cup {NoAccount}]

(* The remaining variables.                                                *)
CallTypeOK ==
  /\ session_id \in Sessions \cup {NoSession}
  /\ awaiting \subseteq Sessions
  /\ event \in Sessions \cup {NoSession}
  /\ running \in BOOLEAN
  /\ unsettled \subseteq Sessions

(* The type invariant in the parts the proofs use.                         *)
LEMMA TypeParts == TypeOK <=> AuthTypeOK /\ SessionTypeOK /\ CallTypeOK
  BY DEF TypeOK, SessionTypeOK, CallTypeOK

(* What holds of the sessions whatever happens to the accounts.            *)
SessionInv ==
  /\ SessionTypeOK
  /\ SessionTablesAgree
  /\ IdleSessionsAreTimed

(* Ending sessions keeps the tables in agreement and leaves no open        *)
(* connection without a login or a timer, for it closes what it drops.     *)
LEMMA EndKeepsSessionInv ==
  ASSUME SessionInv, NEW users, NEW also \in SUBSET Sessions,
         EndUserSessions(users, also)
  PROVE  SessionInv'
<1> DEFINE those == SessionsOf(users)
<1>1. /\ those \subseteq Sessions
      /\ those \subseteq protocols
      /\ those \subseteq authorized
  BY DEF SessionsOf, SessionInv, SessionTypeOK, SessionTablesAgree
<1>2. /\ level' = [s \in Sessions |-> IF s \in those THEN 0 ELSE level[s]]
      /\ user' = [s \in Sessions |-> IF s \in those THEN NoUser ELSE user[s]]
      /\ opened' = [s \in Sessions |->
                      IF s \in those THEN NoAccount ELSE opened[s]]
      /\ interested' = interested \ those
      /\ protocols' = protocols \ those
      /\ connection' = [s \in Sessions |->
                          IF s \in (those \cap protocols) \cup also
                               /\ connection[s] = "open"
                          THEN "closing" ELSE connection[s]]
      /\ authorized' = authorized
      /\ timed' = timed
  BY DEF EndUserSessions, LoseConnections
<1> HIDE DEF those
<1>3. SessionTypeOK'
  BY <1>1, <1>2, AuthAssumption DEF SessionInv, SessionTypeOK
<1>4. \A s \in Sessions : Connected(s)' <=> Connected(s)
  BY <1>2 DEF Connected, SessionInv, SessionTypeOK
<1>5. SessionTablesAgree'
  <2>1. \A s \in Sessions : s \in authorized' <=> Connected(s)'
    BY <1>2, <1>4 DEF SessionInv, SessionTablesAgree
  <2>2. \A s \in Sessions :
          s \in protocols' <=> s \in authorized' /\ level'[s] > 0
    BY <1>1, <1>2 DEF SessionInv, SessionTypeOK, SessionTablesAgree
  <2>3. interested' \subseteq protocols'
    BY <1>2 DEF SessionInv, SessionTablesAgree
  <2>4. QED
    BY <2>1, <2>2, <2>3 DEF SessionTablesAgree
<1>6. IdleSessionsAreTimed'
  BY <1>1, <1>2 DEF SessionInv, SessionTypeOK, IdleSessionsAreTimed
<1>7. QED
  BY <1>3, <1>5, <1>6 DEF SessionInv

(* A good login enters the session in every table and stops its timer.     *)
LEMMA LogInKeepsSessionInv ==
  ASSUME SessionInv, NEW users, NEW s \in Sessions, Connected(s),
         NEW u \in Users, NEW account \in Account, account.level > 0,
         EndUserSessionsAndLogIn(users, s, u, account)
  PROVE  SessionInv'
<1> DEFINE those == SessionsOf(users)
<1>1. /\ those \subseteq Sessions
      /\ those \subseteq protocols
      /\ those \subseteq authorized
      /\ s \in authorized
  BY DEF SessionsOf, SessionInv, SessionTypeOK, SessionTablesAgree
<1>2. /\ level' = [[x \in Sessions |-> IF x \in those THEN 0 ELSE level[x]]
                     EXCEPT ![s] = account.level]
      /\ user' = [[x \in Sessions |-> IF x \in those THEN NoUser ELSE user[x]]
                    EXCEPT ![s] = u]
      /\ opened' = [[x \in Sessions |->
                        IF x \in those THEN NoAccount ELSE opened[x]]
                      EXCEPT ![s] = account]
      /\ interested' = interested \ those
      /\ protocols' = (protocols \ those) \cup {s}
      /\ connection' = [x \in Sessions |->
                          IF x \in those \cap protocols
                               /\ connection[x] = "open"
                          THEN "closing" ELSE connection[x]]
      /\ authorized' = authorized \cup {s}
      /\ timed' = timed \ {s}
  BY DEF EndUserSessionsAndLogIn, LoseConnections
<1> HIDE DEF those
<1>3. account.level \in Levels
  BY DEF Account
<1>4. SessionTypeOK'
  BY <1>1, <1>2, <1>3, AuthAssumption DEF SessionInv, SessionTypeOK
<1>5. \A x \in Sessions : Connected(x)' <=> Connected(x)
  BY <1>2 DEF Connected, SessionInv, SessionTypeOK
<1>6. SessionTablesAgree'
  <2>1. \A x \in Sessions : x \in authorized' <=> Connected(x)'
    BY <1>1, <1>2, <1>5 DEF SessionInv, SessionTablesAgree
  <2>2. \A x \in Sessions :
          x \in protocols' <=> x \in authorized' /\ level'[x] > 0
    BY <1>1, <1>2 DEF SessionInv, SessionTypeOK, SessionTablesAgree
  <2>3. interested' \subseteq protocols'
    BY <1>2 DEF SessionInv, SessionTablesAgree
  <2>4. QED
    BY <2>1, <2>2, <2>3 DEF SessionTablesAgree
<1>7. IdleSessionsAreTimed'
  <2>1. level'[s] # 0
    <3>1. level'[s] = account.level
      BY <1>2
    <3>2. account.level \in Nat
      BY <1>3, AuthAssumption
    <3>3. account.level # 0
      BY <3>2
    <3>4. QED
      BY <3>1, <3>3
  <2>2. ASSUME NEW x \in Sessions, connection'[x] = "open", level'[x] = 0
        PROVE  x \in timed'
    <3>1. /\ x # s
          /\ level'[x] = IF x \in those THEN 0 ELSE level[x]
      BY <2>1, <2>2, <1>2
    <3>2. x \notin those /\ connection[x] = "open"
      BY <2>2, <1>1, <1>2
    <3>3. QED
      BY <2>2, <3>1, <3>2, <1>2 DEF SessionInv, IdleSessionsAreTimed
  <2>3. QED
    BY <2>2 DEF IdleSessionsAreTimed
<1>8. QED
  BY <1>4, <1>6, <1>7 DEF SessionInv

-----------------------------------------------------------------------------
(* Under the contract, ending the sessions of the users whose accounts     *)
(* changed is enough for the others to match theirs; those of users left   *)
(* out are unsettled.                                                      *)
LEMMA EndKeepsMatch ==
  ASSUME SessionTypeOK, SessionsMatchAccounts, NEW users, NEW also, NEW left,
         OthersKept(users \cup left), EndUserSessions(users, also),
         unsettled \cup (SessionsOf(left) \ SessionsOf(users)) \subseteq unsettled'
  PROVE  SessionsMatchAccounts'
<1> DEFINE those == SessionsOf(users)
<1>1. /\ level' = [s \in Sessions |-> IF s \in those THEN 0 ELSE level[s]]
      /\ user' = [s \in Sessions |-> IF s \in those THEN NoUser ELSE user[s]]
      /\ opened' = [s \in Sessions |->
                      IF s \in those THEN NoAccount ELSE opened[s]]
      /\ authorized' = authorized
  BY DEF EndUserSessions
<1> SUFFICES ASSUME NEW s \in authorized', level'[s] > 0
             PROVE  /\ user'[s] \in Users
                    /\ opened'[s] # NoAccount
                    /\ opened'[s].level = level'[s]
                    /\ s \notin unsettled' => auth'[user'[s]] = opened'[s]
  BY DEF SessionsMatchAccounts
<1>2. s \in Sessions /\ s \in authorized
  BY <1>1 DEF SessionTypeOK
<1>3. s \notin those
  BY <1>1, <1>2
<1>4. /\ level'[s] = level[s]
      /\ user'[s] = user[s]
      /\ opened'[s] = opened[s]
  BY <1>1, <1>2, <1>3
<1>5. /\ user[s] \in Users
      /\ opened[s] # NoAccount
      /\ opened[s].level = level[s]
      /\ s \notin unsettled => auth[user[s]] = opened[s]
  BY <1>2, <1>4 DEF SessionsMatchAccounts
<1>6. ASSUME s \notin unsettled'
      PROVE  auth'[user[s]] = opened[s]
  <2>1. user[s] \notin users
    BY <1>2, <1>3, <1>4 DEF SessionsOf
  <2>2. s \notin SessionsOf(left)
    BY <1>3, <1>6
  <2>3. user[s] \notin left
    BY <1>2, <1>4, <2>2 DEF SessionsOf
  <2>4. auth[user[s]] = opened[s]
    BY <1>5, <1>6
  <2>5. QED
    BY <1>5, <2>1, <2>3, <2>4 DEF OthersKept
<1>7. QED
  BY <1>4, <1>5, <1>6

(* A good login opens the session with the account that was checked.       *)
LEMMA LogInKeepsMatch ==
  ASSUME SessionTypeOK, SessionsMatchAccounts, NEW users,
         NEW s \in Sessions, NEW u \in Users, auth'[u] # NoAccount,
         OthersKept(users), EndUserSessionsAndLogIn(users, s, u, auth'[u]),
         unsettled' = unsettled \ {s}
  PROVE  SessionsMatchAccounts'
<1> DEFINE those == SessionsOf(users)
<1>1. /\ level' = [[x \in Sessions |-> IF x \in those THEN 0 ELSE level[x]]
                     EXCEPT ![s] = auth'[u].level]
      /\ user' = [[x \in Sessions |-> IF x \in those THEN NoUser ELSE user[x]]
                    EXCEPT ![s] = u]
      /\ opened' = [[x \in Sessions |->
                        IF x \in those THEN NoAccount ELSE opened[x]]
                      EXCEPT ![s] = auth'[u]]
      /\ authorized' = authorized \cup {s}
  BY DEF EndUserSessionsAndLogIn
<1> HIDE DEF those
<1> SUFFICES ASSUME NEW x \in authorized', level'[x] > 0
             PROVE  /\ user'[x] \in Users
                    /\ opened'[x] # NoAccount
                    /\ opened'[x].level = level'[x]
                    /\ x \notin unsettled' => auth'[user'[x]] = opened'[x]
  BY DEF SessionsMatchAccounts
<1>2. CASE x = s
  <2>1. /\ level'[s] = auth'[u].level
        /\ user'[s] = u
        /\ opened'[s] = auth'[u]
    BY <1>1
  <2>2. QED
    BY <1>2, <2>1
<1>3. CASE x # s
  <2>1. x \in Sessions /\ x \in authorized
    BY <1>1, <1>3 DEF SessionTypeOK
  <2>2. x \notin those
    BY <1>1, <1>3, <2>1
  <2>3. /\ level'[x] = level[x]
        /\ user'[x] = user[x]
        /\ opened'[x] = opened[x]
    BY <1>1, <1>3, <2>1, <2>2
  <2>4. /\ user[x] \in Users
        /\ opened[x] # NoAccount
        /\ opened[x].level = level[x]
        /\ x \notin unsettled => auth[user[x]] = opened[x]
    BY <2>1, <2>3 DEF SessionsMatchAccounts
  <2>5. user[x] \notin users
    BY <2>1, <2>2, <2>3 DEF SessionsOf, those
  <2>6. x \notin unsettled' => auth'[user[x]] = opened[x]
    BY <1>3, <2>4, <2>5 DEF OthersKept
  <2>7. QED
    BY <2>3, <2>4, <2>6
<1>4. QED
  BY <1>2, <1>3

-----------------------------------------------------------------------------
Inv == AuthTypeOK /\ CallTypeOK /\ SessionInv

(* The invariants hold when the server starts.                             *)
LEMMA InitInv == Init => Inv /\ SessionsMatchAccounts /\ MemoryMatchesFile
<1> SUFFICES ASSUME Init
             PROVE  Inv /\ SessionsMatchAccounts /\ MemoryMatchesFile
  OBVIOUS
<1>1. AuthTypeOK
  <2>1. PICK token \in Passwords : file = Existing(Missing, token)
    BY DEF Init, AuthInit
  <2>2. [pw |-> token, level |-> Admin] \in Account
    BY AuthAssumption DEF Account
  <2>3. file = [[u \in Users |-> NoAccount] EXCEPT ![Local] =
                  [pw |-> token, level |-> Admin]]
    BY <2>1 DEF Existing, WithLocal
  <2>4. file \in AccountTables
    BY <2>2, <2>3 DEF AccountTables
  <2>5. auth = file /\ backup = Missing
    BY DEF Init, AuthInit
  <2>6. current \in BOOLEAN /\ torn \in BOOLEAN
    BY DEF Init, AuthInit
  <2>7. QED
    BY <2>4, <2>5, <2>6 DEF AuthTypeOK
<1>2. CallTypeOK
  BY DEF Init, CallTypeOK
<1>3. SessionTypeOK
  BY AuthAssumption DEF Init, SessionTypeOK
<1>4. /\ SessionTablesAgree /\ IdleSessionsAreTimed
      /\ SessionsMatchAccounts /\ MemoryMatchesFile
  BY DEF Init, AuthInit, SessionTablesAgree, IdleSessionsAreTimed,
         SessionsMatchAccounts, MemoryMatchesFile, Connected
<1>5. QED
  BY <1>1, <1>2, <1>3, <1>4 DEF Inv, SessionInv

(* A step that leaves the tables and the accounts alone.                   *)
LEMMA CallStep ==
  ASSUME Inv, CallTypeOK',
         UNCHANGED <<connection, level, user, authorized, protocols, timed,
                     opened, interested, unsettled, authVars>>
  PROVE  /\ Inv'
         /\ SessionsMatchAccounts => SessionsMatchAccounts'
<1>1. AuthTypeOK'
  BY DEF Inv, AuthTypeOK, authVars
<1>2. SessionTypeOK'
  BY DEF Inv, SessionInv, SessionTypeOK
<1>3. SessionTablesAgree' /\ IdleSessionsAreTimed'
  BY DEF Inv, SessionInv, SessionTablesAgree, IdleSessionsAreTimed, Connected
<1>4. SessionsMatchAccounts => SessionsMatchAccounts'
  BY DEF SessionsMatchAccounts, authVars
<1>5. QED
  BY <1>1, <1>2, <1>3, <1>4 DEF Inv, SessionInv

(* connectionMade() keeps the invariants.                                  *)
LEMMA ConnectionMadeStep ==
  ASSUME Inv, NEW s \in Sessions, ConnectionMade(s)
  PROVE  /\ Inv'
         /\ SessionsMatchAccounts => SessionsMatchAccounts'
<1>1. AuthTypeOK' /\ CallTypeOK'
  BY DEF Inv, AuthTypeOK, CallTypeOK, ConnectionMade, authVars
<1>2. s \notin authorized /\ s \notin protocols
  BY DEF Inv, SessionInv, SessionTypeOK, SessionTablesAgree, Connected,
         ConnectionMade
<1>3. SessionTypeOK'
  BY AuthAssumption DEF Inv, SessionInv, SessionTypeOK, ConnectionMade
<1>4. SessionTablesAgree'
  BY <1>2 DEF Inv, SessionInv, SessionTypeOK, SessionTablesAgree, Connected,
              ConnectionMade
<1>5. IdleSessionsAreTimed'
  BY DEF Inv, SessionInv, SessionTypeOK, IdleSessionsAreTimed, ConnectionMade
<1>6. ASSUME SessionsMatchAccounts
      PROVE  SessionsMatchAccounts'
  BY <1>2, <1>6 DEF Inv, SessionInv, SessionTypeOK, SessionsMatchAccounts,
                    ConnectionMade, authVars
<1>7. QED
  BY <1>1, <1>3, <1>4, <1>5, <1>6 DEF Inv, SessionInv

(* _login_timed_out() keeps the invariants.                                *)
LEMMA LoginTimedOutStep ==
  ASSUME Inv, NEW s \in Sessions, LoginTimedOut(s)
  PROVE  /\ Inv'
         /\ SessionsMatchAccounts => SessionsMatchAccounts'
<1>1. AuthTypeOK' /\ CallTypeOK'
  BY DEF Inv, AuthTypeOK, CallTypeOK, LoginTimedOut, authVars
<1>2. SessionTypeOK'
  BY DEF Inv, SessionInv, SessionTypeOK, LoginTimedOut, LoseConnections
<1>3. SessionTablesAgree'
  BY DEF Inv, SessionInv, SessionTypeOK, SessionTablesAgree, Connected,
         LoginTimedOut, LoseConnections
<1>4. IdleSessionsAreTimed'
  BY DEF Inv, SessionInv, SessionTypeOK, IdleSessionsAreTimed, LoginTimedOut,
         LoseConnections
<1>5. SessionsMatchAccounts => SessionsMatchAccounts'
  BY DEF SessionsMatchAccounts, LoginTimedOut, authVars
<1>6. QED
  BY <1>1, <1>2, <1>3, <1>4, <1>5 DEF Inv, SessionInv

(* connectionLost() keeps the invariants.                                  *)
LEMMA ConnectionLostStep ==
  ASSUME Inv, NEW s \in Sessions, ConnectionLost(s)
  PROVE  /\ Inv'
         /\ SessionsMatchAccounts => SessionsMatchAccounts'
<1>1. AuthTypeOK'
  BY DEF Inv, AuthTypeOK, ConnectionLost, authVars
<1>2. CallTypeOK'
  BY DEF Inv, CallTypeOK, ConnectionLost
<1>3. SessionTypeOK'
  BY AuthAssumption DEF Inv, SessionInv, SessionTypeOK, ConnectionLost
<1>4. SessionTablesAgree'
  BY DEF Inv, SessionInv, SessionTypeOK, SessionTablesAgree, Connected,
         ConnectionLost
<1>5. IdleSessionsAreTimed'
  BY DEF Inv, SessionInv, SessionTypeOK, IdleSessionsAreTimed, ConnectionLost
<1>6. ASSUME SessionsMatchAccounts
      PROVE  SessionsMatchAccounts'
  BY <1>6 DEF Inv, SessionInv, SessionTypeOK, SessionsMatchAccounts,
              ConnectionLost, authVars
<1>7. QED
  BY <1>1, <1>2, <1>3, <1>4, <1>5, <1>6 DEF Inv, SessionInv

(* A step that ends sessions, given what it does to the accounts.          *)
LEMMA EndStep ==
  ASSUME Inv, CallTypeOK', AuthTypeOK', NEW users, NEW left,
         NEW also \in SUBSET Sessions, EndUserSessions(users, also),
         unsettled \cup (SessionsOf(left) \ SessionsOf(users)) \subseteq unsettled'
  PROVE  /\ Inv'
         /\ SessionsMatchAccounts /\ OthersKept(users \cup left)
              => SessionsMatchAccounts'
<1>1. SessionInv'
  BY EndKeepsSessionInv DEF Inv
<1>2. ASSUME SessionsMatchAccounts, OthersKept(users \cup left)
      PROVE  SessionsMatchAccounts'
  BY <1>2, EndKeepsMatch DEF Inv, SessionInv
<1>3. QED
  BY <1>1, <1>2 DEF Inv

(* The same, when no session becomes unsettled.                            *)
LEMMA SettledEndStep ==
  ASSUME Inv, CallTypeOK', AuthTypeOK', NEW users,
         NEW also \in SUBSET Sessions, EndUserSessions(users, also),
         UNCHANGED unsettled, OthersKept(users)
  PROVE  /\ Inv'
         /\ SessionsMatchAccounts => SessionsMatchAccounts'
<1>1. SessionsOf({}) = {}
  BY DEF SessionsOf
<1>2. unsettled \cup (SessionsOf({}) \ SessionsOf(users)) \subseteq unsettled'
  BY <1>1
<1>3. OthersKept(users \cup {})
  BY DEF OthersKept
<1>4. QED
  BY <1>2, <1>3, EndStep

(* A daemon.login request keeps the invariants, however it ends.           *)
LEMMA LoginStep ==
  ASSUME Inv, NEW s \in Sessions, NEW u \in Users, Login(s, u)
  PROVE  /\ Inv'
         /\ SessionsMatchAccounts => SessionsMatchAccounts'
         /\ MemoryMatchesFile => MemoryMatchesFile'
<1> DEFINE ended == Changed(auth, auth')
<1>1. /\ Authorize(u)
      /\ \/ EndUserSessions(ended, {}) /\ UNCHANGED unsettled
         \/ EndUserSessions(ended, {s}) /\ UNCHANGED unsettled
         \/ /\ auth'[u] # NoAccount
            /\ auth'[u].level > 0
            /\ EndUserSessionsAndLogIn(ended, s, u, auth'[u])
            /\ unsettled' = unsettled \ {s}
  BY DEF Login
<1>2. CallTypeOK'
  BY <1>1 DEF Login, Inv, CallTypeOK
<1>3. /\ AuthTypeOK' /\ OthersKept(ended)
      /\ MemoryMatchesFile => MemoryMatchesFile'
  <2>1. CASE auth[u] = NoAccount
    BY <1>1, <2>1, ReloadContract DEF Authorize, Inv
  <2>2. CASE auth[u] # NoAccount
    <3>1. UNCHANGED authVars
      BY <1>1, <2>2 DEF Authorize
    <3>2. QED
      BY <3>1 DEF Inv, AuthTypeOK, OthersKept, MemoryMatchesFile, authVars
  <2>3. QED
    BY <2>1, <2>2
<1> HIDE DEF ended
<1>4. CASE EndUserSessions(ended, {}) /\ UNCHANGED unsettled
  BY <1>2, <1>3, <1>4, SettledEndStep
<1>5. CASE EndUserSessions(ended, {s}) /\ UNCHANGED unsettled
  BY <1>2, <1>3, <1>5, SettledEndStep
<1>6. CASE /\ auth'[u] # NoAccount
           /\ auth'[u].level > 0
           /\ EndUserSessionsAndLogIn(ended, s, u, auth'[u])
           /\ unsettled' = unsettled \ {s}
  <2>1. auth'[u] \in Account
    BY <1>3, <1>6 DEF AuthTypeOK, AccountTables
  <2>2. Connected(s)
    BY DEF Login
  <2>3. SessionInv'
    BY <1>6, <2>1, <2>2, LogInKeepsSessionInv DEF Inv
  <2>4. ASSUME SessionsMatchAccounts
        PROVE  SessionsMatchAccounts'
    BY <1>3, <1>6, <2>4, LogInKeepsMatch DEF Inv, SessionInv
  <2>5. QED
    BY <1>2, <1>3, <2>3, <2>4 DEF Inv
<1>7. QED
  BY <1>1, <1>4, <1>5, <1>6

(* update() and get_known_accounts()                                       *)
LEMMA ReloadStep ==
  ASSUME Inv, CallTypeOK', Reload, UNCHANGED unsettled,
         EndUserSessions(Changed(auth, auth'), {})
  PROVE  /\ Inv'
         /\ SessionsMatchAccounts => SessionsMatchAccounts'
         /\ MemoryMatchesFile => MemoryMatchesFile'
<1>1. /\ AuthTypeOK' /\ OthersKept(Changed(auth, auth'))
      /\ MemoryMatchesFile => MemoryMatchesFile'
  BY ReloadContract DEF Inv
<1>2. QED
  BY <1>1, SettledEndStep

(* create_account(), update_account() and remove_account().                *)
LEMMA ChangeAccountStep ==
  ASSUME Inv, NEW s \in Sessions, NEW u \in Users, ChangeAccount(s, u)
  PROVE  /\ Inv'
         /\ SessionsMatchAccounts /\ MemoryMatchesFile => SessionsMatchAccounts'
         /\ MemoryMatchesFile'
<1>1. PICK a \in Account \cup {NoAccount}, write \in Writes :
        /\ AccountCall(s, u, a, write)
        /\ EndUserSessions(Ended(u, a, write), {})
        /\ unsettled' = unsettled \cup
             (LeftUnsettled(u, write) \ SessionsOf(Ended(u, a, write)))
  BY DEF ChangeAccount
<1> DEFINE ended == Ended(u, a, write)
<1>2. /\ AuthTypeOK'
      /\ MemoryMatchesFile'
      /\ OthersKept(ended \cup {u})
      /\ write = "saved" => OthersKept(ended)
      /\ MemoryMatchesFile /\ write # "saved" /\ current /\ ~torn /\ ~torn'
           => OthersKept(ended)
  BY <1>1, AccountCallSaves, SaveContract DEF Inv
<1>3. LeftUnsettled(u, write) \subseteq Sessions
  BY DEF LeftUnsettled, SessionsOf, Inv, SessionInv, SessionTypeOK
<1>4. CallTypeOK'
  BY <1>1, <1>3 DEF ChangeAccount, Inv, CallTypeOK
<1> HIDE DEF ended
<1>5. CASE write = "saved" \/ (current /\ ~torn /\ ~torn')
  <2>1. UNCHANGED unsettled
    BY <1>1, <1>5 DEF LeftUnsettled
  <2>2. MemoryMatchesFile => OthersKept(ended \cup {})
    BY <1>2, <1>5 DEF OthersKept
  <2>3. unsettled \cup (SessionsOf({}) \ SessionsOf(ended)) \subseteq unsettled'
    BY <2>1 DEF SessionsOf
  <2>4. EndUserSessions(ended, {})
    BY <1>1 DEF ended
  <2>5. QED
    BY <1>2, <1>4, <2>2, <2>3, <2>4, EndStep
<1>6. CASE ~(write = "saved" \/ (current /\ ~torn /\ ~torn'))
  <2>1. unsettled \cup (SessionsOf({u}) \ SessionsOf(ended)) \subseteq unsettled'
    BY <1>1, <1>6 DEF LeftUnsettled, ended
  <2>2. EndUserSessions(ended, {})
    BY <1>1 DEF ended
  <2>3. QED
    BY <1>2, <1>4, <2>1, <2>2, EndStep
<1>7. QED
  BY <1>5, <1>6

(* An edit of the file by hand is not noticed yet.                         *)
LEMMA EditStep ==
  ASSUME Inv, EditAuthFile
  PROVE  /\ Inv'
         /\ SessionsMatchAccounts => SessionsMatchAccounts'
         /\ MemoryMatchesFile'
<1>1. UNCHANGED sessionVars /\ auth' = auth /\ backup' = backup /\ torn' = torn
  BY DEF EditAuthFile, EditFile
<1>2. file' \in AccountTables \cup {Missing}
  BY DEF EditAuthFile, EditFile, Inv, AuthTypeOK, AccountTables
<1>3. ~current' /\ current' \in BOOLEAN
  BY DEF EditAuthFile, EditFile
<1>4. AuthTypeOK'
  BY <1>1, <1>2, <1>3 DEF Inv, AuthTypeOK
<1>5. CallTypeOK' /\ SessionTypeOK'
  BY <1>1 DEF Inv, SessionInv, CallTypeOK, SessionTypeOK, sessionVars
<1>6. SessionTablesAgree' /\ IdleSessionsAreTimed'
  BY <1>1 DEF Inv, SessionInv, SessionTablesAgree, IdleSessionsAreTimed,
              Connected, sessionVars
<1>7. SessionsMatchAccounts => SessionsMatchAccounts'
  BY <1>1 DEF SessionsMatchAccounts, sessionVars
<1>8. QED
  BY <1>3, <1>4, <1>5, <1>6, <1>7 DEF Inv, SessionInv, MemoryMatchesFile

(* What a step keeps besides the invariants.                               *)
KeepsMatch ==
  /\ SessionsMatchAccounts /\ MemoryMatchesFile => SessionsMatchAccounts'
  /\ MemoryMatchesFile => MemoryMatchesFile'

(* Every step of the server keeps the invariants.                          *)
LEMMA NextInv ==
  ASSUME Inv, [Next]_vars
  PROVE  Inv' /\ KeepsMatch
<1>1. ASSUME NEW s \in Sessions,
             ConnectionMade(s) \/ LoginTimedOut(s) \/ ConnectionLost(s)
      PROVE  Inv' /\ KeepsMatch
  <2>1. Inv' /\ (SessionsMatchAccounts => SessionsMatchAccounts')
    BY <1>1, ConnectionMadeStep, LoginTimedOutStep, ConnectionLostStep
  <2>2. UNCHANGED authVars
    BY <1>1 DEF ConnectionMade, LoginTimedOut, ConnectionLost
  <2>3. MemoryMatchesFile => MemoryMatchesFile'
    BY <2>2 DEF MemoryMatchesFile, authVars
  <2>4. QED
    BY <2>1, <2>3 DEF KeepsMatch
<1>2. ASSUME NEW s \in Sessions, SetEventInterest(s)
      PROVE  Inv' /\ KeepsMatch
  <2>1. AuthTypeOK' /\ CallTypeOK'
    BY <1>2 DEF SetEventInterest, Inv, AuthTypeOK, CallTypeOK, authVars
  <2>2. SessionInv'
    BY <1>2 DEF SetEventInterest, Inv, SessionInv, SessionTypeOK,
                SessionTablesAgree, IdleSessionsAreTimed, Connected
  <2>3. SessionsMatchAccounts => SessionsMatchAccounts'
    BY <1>2 DEF SetEventInterest, SessionsMatchAccounts, authVars
  <2>4. MemoryMatchesFile => MemoryMatchesFile'
    BY <1>2 DEF SetEventInterest, MemoryMatchesFile, authVars
  <2>5. QED
    BY <2>1, <2>2, <2>3, <2>4 DEF Inv, KeepsMatch
<1>3. ASSUME \/ \E s \in Sessions : CallMethod(s) \/ CallAndAwait(s) \/ Continue(s)
             \/ Stop
             \/ UNCHANGED vars
      PROVE  Inv' /\ KeepsMatch
  <2>1. CallTypeOK'
    BY <1>3 DEF CallMethod, CallAndAwait, Continue, Stop, vars, sessionVars,
                Inv, CallTypeOK
  <2>2. UNCHANGED <<connection, level, user, authorized, protocols, timed,
                    opened, interested, unsettled, authVars>>
    BY <1>3 DEF CallMethod, CallAndAwait, Continue, Stop, vars, sessionVars
  <2>3. MemoryMatchesFile => MemoryMatchesFile'
    BY <2>2 DEF MemoryMatchesFile, authVars
  <2>4. QED
    BY <2>1, <2>2, <2>3, CallStep DEF KeepsMatch
<1>4. ASSUME NEW s \in Sessions, GetKnownAccounts(s)
      PROVE  Inv' /\ KeepsMatch
  <2>1. CallTypeOK'
    BY <1>4 DEF GetKnownAccounts, Inv, CallTypeOK
  <2>2. /\ Reload /\ UNCHANGED unsettled
        /\ EndUserSessions(Changed(auth, auth'), {})
    BY <1>4 DEF GetKnownAccounts
  <2>3. QED
    BY <2>1, <2>2, ReloadStep DEF KeepsMatch
<1>5. ASSUME NEW s \in Sessions, NEW u \in Users, Login(s, u)
      PROVE  Inv' /\ KeepsMatch
  BY <1>5, LoginStep DEF KeepsMatch
<1>6. ASSUME NEW s \in Sessions, NEW u \in Users, ChangeAccount(s, u)
      PROVE  Inv' /\ KeepsMatch
  BY <1>6, ChangeAccountStep DEF KeepsMatch
<1>7. ASSUME UpdateAuth
      PROVE  Inv' /\ KeepsMatch
  <2>1. CallTypeOK'
    BY <1>7 DEF UpdateAuth, Inv, CallTypeOK
  <2>2. /\ Reload /\ UNCHANGED unsettled
        /\ EndUserSessions(Changed(auth, auth'), {})
    BY <1>7 DEF UpdateAuth
  <2>3. QED
    BY <2>1, <2>2, ReloadStep DEF KeepsMatch
<1>8. ASSUME EditAuthFile
      PROVE  Inv' /\ KeepsMatch
  BY <1>8, EditStep DEF KeepsMatch
<1>9. QED
  BY <1>1, <1>2, <1>3, <1>4, <1>5, <1>6, <1>7, <1>8 DEF Next

-----------------------------------------------------------------------------
(* The types and the agreement of the session tables, for every number of  *)
(* sessions and users and whatever the file system does.                   *)
THEOREM SessionInvariant == Spec => [](Inv)
<1>1. Init => Inv
  BY InitInv
<1>2. Inv /\ [Next]_vars => Inv'
  BY NextInv
<1>3. QED
  BY <1>1, <1>2, PTL DEF Spec

(* The type invariant of the sessions and accounts.                        *)
THEOREM TypesAreCorrect == Spec => []TypeOK
<1>1. Inv => TypeOK
  BY TypeParts DEF Inv, SessionInv
<1>2. QED
  BY <1>1, SessionInvariant, PTL

(* authorized_sessions, session_protocols and interested_events agree      *)
(* after connectionMade, logins, end_user_sessions and connectionLost in   *)
(* any order.                                                              *)
THEOREM TablesAlwaysAgree == Spec => []SessionTablesAgree
<1>1. Inv => SessionTablesAgree
  BY DEF Inv, SessionInv
<1>2. QED
  BY <1>1, SessionInvariant, PTL

(* Every open connection that is not logged in has its login timer.        *)
THEOREM NoIdleSessionWithoutTimer == Spec => []IdleSessionsAreTimed
<1>1. Inv => IdleSessionsAreTimed
  BY DEF Inv, SessionInv
<1>2. QED
  BY <1>1, SessionInvariant, PTL

(* Memory and file are the same whenever the manager holds the file's      *)
(* modification time, under any requests, logins, polls and edits, however *)
(* saves and reads fail: unless the backup was loaded in place of the      *)
(* file, or a save and the reading that was to undo it both failed, and    *)
(* the file was not read since.                                            *)
THEOREM MemoryAgreesWithFile == Spec => []MemoryMatchesFile
<1>1. Init => MemoryMatchesFile
  BY InitInv
<1>2. Inv /\ MemoryMatchesFile /\ [Next]_vars => MemoryMatchesFile'
  BY NextInv DEF KeepsMatch
<1>3. QED
  BY <1>1, <1>2, SessionInvariant, PTL DEF Spec

(* A session never outlives a change of its account, whatever is edited in *)
(* the file and however saving and reading fail: but for those that a user *)
(* has when a save about its account fails and cannot be undone.           *)
THEOREM NoSessionOutlivesItsAccount == Spec => []SessionsMatchAccounts
<1>1. Init => SessionsMatchAccounts
  BY InitInv
<1>2. Inv /\ MemoryMatchesFile /\ SessionsMatchAccounts /\ [Next]_vars
        => SessionsMatchAccounts'
  BY NextInv DEF KeepsMatch
<1>3. QED
  BY <1>1, <1>2, SessionInvariant, MemoryAgreesWithFile, PTL DEF Spec

-----------------------------------------------------------------------------
(* The component registry.                                                 *)

(* A request is on its side of the component it was made for.              *)
OnTheWay ==
  \A j \in jobs : IF j.op = "start" THEN j.at <= j.to ELSE j.at >= j.to

(* Requests that go on in this turn of the reactor are of one kind, so no  *)
(* start() changes a component that a stop() has just left.                *)
OneKindGoesOn ==
  \A i, j \in jobs : i.wait = 0 /\ j.wait = 0 => i.op = j.op

CallsApart == \A k, l \in calls : k.id = l.id => k = l

(* A request waits for a call that has not ended, of its own kind and of   *)
(* the component it is at.                                                 *)
WaitsAreForCalls ==
  \A j \in jobs :
    j.wait # 0 => [id |-> j.wait, comp |-> j.at, op |-> j.op] \in calls

(* A Deferred that a request may join belongs to a call under way.         *)
DeferredsAreLive ==
  \A c \in Comps :
    /\ cstate[c] = "Starting" => [id |-> startD[c], comp |-> c, op |-> "start"] \in calls
    /\ cstate[c] = "Stopping" => [id |-> stopD[c], comp |-> c, op |-> "stop"] \in calls

(* A stop() that has reached a component left the one that depends on it   *)
(* stopped, or failing.                                                    *)
DependentIsDown ==
  \A j \in jobs :
    j.op = "stop" /\ j.wait = 0 /\ j.at < N =>
      cstate[j.at + 1] = "Stopped" \/ j.at + 1 \in Failing

RegistryInv ==
  /\ RegistryTypeOK
  /\ OnTheWay
  /\ OneKindGoesOn
  /\ CallsApart
  /\ WaitsAreForCalls
  /\ DeferredsAreLive
  /\ DependentIsDown

(* What a request becomes when it is done with its component.              *)
LEMMA GoingOn ==
  ASSUME NEW j \in Jobs, NEW i \in GoOn(j),
         IF j.op = "start" THEN j.at <= j.to ELSE j.at >= j.to
  PROVE  /\ i \in Jobs
         /\ i.op = j.op /\ i.to = j.to /\ i.wait = 0
         /\ i.op = "start" => i.at = j.at + 1 /\ i.at <= i.to
         /\ i.op = "stop" => i.at = j.at - 1 /\ i.at >= i.to
<1>1. j.at # j.to /\ i = [j EXCEPT !.at = IF j.op = "start" THEN @ + 1 ELSE @ - 1, !.wait = 0]
  BY DEF GoOn
<1>2. j.at \in 1 .. N /\ j.to \in 1 .. N /\ N \in Nat
  BY ComponentConstants DEF Jobs, Comps
<1>3. j.op \in {"start", "stop"} /\ j.wait \in CallIds \cup {0}
  BY DEF Jobs
<1> DEFINE next == IF j.op = "start" THEN j.at + 1 ELSE j.at - 1
<1>4. /\ next \in 1 .. N
      /\ j.op = "start" => next = j.at + 1 /\ next <= j.to
      /\ j.op = "stop" => next = j.at - 1 /\ next >= j.to
  BY <1>1, <1>2, <1>3
<1>5. i = [j EXCEPT !.at = next, !.wait = 0]
  BY <1>1
<1> HIDE DEF next
<1>6. i = [op |-> j.op, at |-> next, to |-> j.to, wait |-> 0]
  BY <1>5 DEF Jobs
<1>. QED
  BY <1>2, <1>3, <1>4, <1>6 DEF Jobs, Comps

(* Nothing was requested yet.                                              *)
LEMMA RegistryStarts == RegistryInit => RegistryInv
  BY ComponentConstants DEF RegistryInit, RegistryInv, RegistryTypeOK, OnTheWay, OneKindGoesOn,
     CallsApart, WaitsAreForCalls, DeferredsAreLive, DependentIsDown, States, Comps

(* start() and stop() of the registry put requests at the end of the chain *)
(* they walk.                                                              *)
LEMMA RequestStep ==
  ASSUME RegistryInv, NEW op \in {"start", "stop"}, NEW targets \in SUBSET Comps,
         Request(op, targets)
  PROVE  RegistryInv'
<1> DEFINE new == {[op |-> op, at |-> First(op), to |-> c, wait |-> 0] : c \in targets}
<1>1. jobs' = jobs \cup new /\ \A j \in jobs : j.wait # 0
  BY DEF Request, ReactorIdle
<1>2. \A j \in new : /\ j \in Jobs /\ j.op = op /\ j.wait = 0
                     /\ IF op = "start" THEN j.at = 1 /\ 1 <= j.to ELSE j.at = N /\ N >= j.to
  BY ComponentConstants DEF First, Jobs, Comps
<1>3. RegistryTypeOK'
  BY <1>1, <1>2, ComponentConstants DEF RegistryInv, RegistryTypeOK, Request
<1>4. OnTheWay' /\ OneKindGoesOn' /\ WaitsAreForCalls' /\ CallsApart'
  BY <1>1, <1>2 DEF RegistryInv, OnTheWay, OneKindGoesOn, WaitsAreForCalls, CallsApart, Request
<1>5. DeferredsAreLive'
  BY DEF RegistryInv, DeferredsAreLive, Request
<1>6. DependentIsDown'
  <2>1. \A j \in new : j.op = "stop" => ~ (j.at < N)
    BY <1>2, ComponentConstants
  <2>. QED
    BY <1>1, <2>1 DEF RegistryInv, DependentIsDown, Request
<1>. QED
  BY <1>3, <1>4, <1>5, <1>6 DEF RegistryInv

(* Pausing and resuming happen between turns.                              *)
LEMMA PauseStep ==
  ASSUME RegistryInv, NEW c \in Comps, Pause(c) \/ Resume(c)
  PROVE  RegistryInv'
<1>1. /\ \A j \in jobs : j.wait # 0
      /\ UNCHANGED <<startD, stopD, calls, jobs, requests>>
  BY DEF Pause, Resume, ReactorIdle
<1>2. PICK s \in {"Started", "Paused"} : cstate' = [cstate EXCEPT ![c] = s]
  BY DEF Pause, Resume
<1>3. timer' \in [Comps -> BOOLEAN] /\ orphans' \in [Comps -> Nat]
  <2>1. CASE Pause(c)
    BY <2>1 DEF RegistryInv, RegistryTypeOK, Pause
  <2>2. CASE Resume(c)
    BY <2>2 DEF RegistryInv, RegistryTypeOK, Resume, StartTimer
  <2>. QED
    BY <2>1, <2>2
<1>4. pauses' \in 0 .. MaxPauses
  BY ComponentConstants DEF RegistryInv, RegistryTypeOK, Pause, Resume
<1>5. cstate' \in [Comps -> States]
  BY <1>2 DEF RegistryInv, RegistryTypeOK, States
<1>6. RegistryTypeOK'
  BY <1>1, <1>3, <1>4, <1>5 DEF RegistryInv, RegistryTypeOK
<1>7. OnTheWay' /\ OneKindGoesOn' /\ WaitsAreForCalls' /\ CallsApart' /\ DependentIsDown'
  BY <1>1 DEF RegistryInv, OnTheWay, OneKindGoesOn, WaitsAreForCalls, CallsApart, DependentIsDown
<1>8. DeferredsAreLive'
  BY <1>1, <1>2 DEF RegistryInv, RegistryTypeOK, DeferredsAreLive
<1>. QED
  BY <1>6, <1>7, <1>8 DEF RegistryInv

(* A request is done with its component in this turn, and leaves it as it  *)
(* is or in a state of rest; a stop() leaves it stopped or failing.        *)
LEMMA PassesBy ==
  ASSUME RegistryInv, NEW j \in jobs, j.wait = 0,
         jobs' = (jobs \ {j}) \cup GoOn(j),
         cstate' = cstate \/ (/\ j.op = "stop"
                              /\ \E s \in {"Stopped", "Started"} :
                                    cstate' = [cstate EXCEPT ![j.at] = s]),
         j.op = "stop" => cstate'[j.at] = "Stopped" \/ j.at \in Failing,
         timer' \in [Comps -> BOOLEAN],
         UNCHANGED <<orphans, startD, stopD, calls, requests, pauses>>
  PROVE  RegistryInv'
<1>0. /\ j \in Jobs /\ j.at \in Comps /\ j.op \in {"start", "stop"}
      /\ IF j.op = "start" THEN j.at <= j.to ELSE j.at >= j.to
  BY DEF RegistryInv, RegistryTypeOK, OnTheWay, Jobs
<1>1. \A i \in GoOn(j) : /\ i \in Jobs
                         /\ i.op = j.op /\ i.wait = 0
                         /\ i.op = "start" => i.at <= i.to
                         /\ i.op = "stop" => i.at = j.at - 1 /\ i.at >= i.to
  BY <1>0, GoingOn
<1>2. cstate' \in [Comps -> States]
  BY <1>0 DEF RegistryInv, RegistryTypeOK, States
<1>3. RegistryTypeOK'
  BY <1>1, <1>2 DEF RegistryInv, RegistryTypeOK
<1>4. OnTheWay' /\ OneKindGoesOn' /\ WaitsAreForCalls' /\ CallsApart'
  BY <1>0, <1>1 DEF RegistryInv, OnTheWay, OneKindGoesOn, WaitsAreForCalls, CallsApart, Jobs
<1>5. DeferredsAreLive'
  BY <1>0 DEF RegistryInv, RegistryTypeOK, DeferredsAreLive
<1>6. DependentIsDown'
  <2> SUFFICES ASSUME NEW i \in jobs', i.op = "stop", i.wait = 0, i.at < N
               PROVE  cstate'[i.at + 1] = "Stopped" \/ i.at + 1 \in Failing
    BY ComponentConstants DEF DependentIsDown
  <2>1. CASE i \in GoOn(j)
    <3>1. i.at + 1 = j.at /\ j.op = "stop"
      BY <1>0, <1>1, <2>1 DEF Comps
    <3>. QED
      BY <3>1
  <2>2. CASE i \in jobs
    <3>1. j.op = "stop"
      BY <2>2 DEF RegistryInv, OneKindGoesOn
    <3>2. cstate[i.at + 1] = "Stopped" \/ i.at + 1 \in Failing
      BY <2>2 DEF RegistryInv, DependentIsDown
    <3>3. i.at + 1 \in Comps
      BY <2>2, ComponentConstants DEF RegistryInv, RegistryTypeOK, Jobs, Comps
    <3>. QED
      BY <1>0, <3>1, <3>2, <3>3 DEF RegistryInv, RegistryTypeOK
  <2>. QED
    BY <2>1, <2>2
<1>. QED
  BY <1>3, <1>4, <1>5, <1>6 DEF RegistryInv

(* A request begins to wait for a call that is under way.                  *)
LEMMA JoinsACall ==
  ASSUME RegistryInv, NEW j \in jobs, j.wait = 0, NEW k \in CallIds,
         [id |-> k, comp |-> j.at, op |-> j.op] \in calls,
         jobs' = (jobs \ {j}) \cup {[j EXCEPT !.wait = k]},
         UNCHANGED <<cstate, timer, orphans, startD, stopD, calls, requests, pauses>>
  PROVE  RegistryInv'
<1>0. j \in Jobs /\ k # 0
  BY ComponentConstants DEF RegistryInv, RegistryTypeOK
<1> DEFINE i == [j EXCEPT !.wait = k]
<1>1. i \in Jobs /\ i.op = j.op /\ i.at = j.at /\ i.to = j.to /\ i.wait = k
  BY <1>0 DEF Jobs
<1> HIDE DEF i
<1>2. jobs' = (jobs \ {j}) \cup {i}
  BY DEF i
<1>3. RegistryTypeOK'
  BY <1>1, <1>2 DEF RegistryInv, RegistryTypeOK
<1>4. OnTheWay' /\ OneKindGoesOn' /\ WaitsAreForCalls' /\ CallsApart'
  BY <1>0, <1>1, <1>2 DEF RegistryInv, OnTheWay, OneKindGoesOn, WaitsAreForCalls, CallsApart
<1>5. DeferredsAreLive' /\ DependentIsDown'
  BY <1>0, <1>1, <1>2 DEF RegistryInv, DeferredsAreLive, DependentIsDown
<1>. QED
  BY <1>3, <1>4, <1>5 DEF RegistryInv

(* A request begins a call of its own, which gets an id nobody has.        *)
LEMMA BeginsACall ==
  ASSUME RegistryInv, NEW j \in jobs, j.wait = 0, NEW k \in FreeIds,
         calls' = calls \cup {[id |-> k, comp |-> j.at, op |-> j.op]},
         jobs' = (jobs \ {j}) \cup {[j EXCEPT !.wait = k]},
         \/ /\ j.op = "start" /\ cstate[j.at] = "Stopped"
            /\ cstate' = [cstate EXCEPT ![j.at] = "Starting"]
            /\ startD' = [startD EXCEPT ![j.at] = k]
            /\ UNCHANGED stopD
         \/ /\ j.op = "stop" /\ cstate[j.at] # "Stopped"
            /\ cstate' = [cstate EXCEPT ![j.at] = "Stopping"]
            /\ stopD' = [stopD EXCEPT ![j.at] = k]
            /\ UNCHANGED startD,
         UNCHANGED <<timer, orphans, requests, pauses>>
  PROVE  RegistryInv'
<1>0. /\ j \in Jobs /\ j.at \in Comps /\ j.op \in {"start", "stop"}
      /\ k \in CallIds /\ k # 0
      /\ \A l \in calls : l.id # k
      /\ calls \subseteq Calls
  BY ComponentConstants DEF RegistryInv, RegistryTypeOK, FreeIds, Jobs
<1> DEFINE i == [j EXCEPT !.wait = k]
           call == [id |-> k, comp |-> j.at, op |-> j.op]
<1>1. i \in Jobs /\ i.op = j.op /\ i.at = j.at /\ i.to = j.to /\ i.wait = k
  BY <1>0 DEF Jobs
<1>2. call \in Calls /\ call.id = k /\ call.comp = j.at /\ call.op = j.op
  BY <1>0 DEF Calls
<1>3. [id |-> i.wait, comp |-> i.at, op |-> i.op] = call
  BY <1>1
<1> HIDE DEF i
<1>4. jobs' = (jobs \ {j}) \cup {i} /\ calls' = calls \cup {call}
  BY DEF i
<1>5. RegistryTypeOK'
  BY <1>0, <1>1, <1>2, <1>4 DEF RegistryInv, RegistryTypeOK, States
<1>6. OnTheWay' /\ OneKindGoesOn'
  BY <1>0, <1>1, <1>4 DEF RegistryInv, OnTheWay, OneKindGoesOn
<1>7. CallsApart'
  BY <1>0, <1>2, <1>4 DEF RegistryInv, CallsApart
<1>8. WaitsAreForCalls'
  BY <1>1, <1>3, <1>4 DEF RegistryInv, WaitsAreForCalls
<1>9. DeferredsAreLive'
  <2>1. \A c \in Comps \ {j.at} : cstate'[c] = cstate[c] /\ startD'[c] = startD[c] /\ stopD'[c] = stopD[c]
    BY <1>0 DEF RegistryInv, RegistryTypeOK
  <2>2. /\ cstate'[j.at] = "Starting" => startD'[j.at] = k /\ j.op = "start"
        /\ cstate'[j.at] = "Stopping" => stopD'[j.at] = k /\ j.op = "stop"
    BY <1>0 DEF RegistryInv, RegistryTypeOK
  <2>. QED
    BY <1>0, <1>4, <2>1, <2>2 DEF RegistryInv, DeferredsAreLive
<1>10. DependentIsDown'
  <2> SUFFICES ASSUME NEW h \in jobs', h.op = "stop", h.wait = 0, h.at < N
               PROVE  cstate'[h.at + 1] = "Stopped" \/ h.at + 1 \in Failing
    BY ComponentConstants DEF DependentIsDown
  <2>1. h \in jobs
    BY <1>0, <1>1, <1>4
  <2>2. j.op = "stop"
    BY <2>1 DEF RegistryInv, OneKindGoesOn
  <2>3. cstate[h.at + 1] = "Stopped" \/ h.at + 1 \in Failing
    BY <2>1 DEF RegistryInv, DependentIsDown
  <2>4. h.at + 1 \in Comps
    BY SMTT(30), <2>1, ComponentConstants DEF RegistryInv, RegistryTypeOK, Jobs, Comps
  <2>. QED
    BY <1>0, <2>2, <2>3, <2>4 DEF RegistryInv, RegistryTypeOK
<1>. QED
  BY <1>5, <1>6, <1>7, <1>8, <1>9, <1>10 DEF RegistryInv

(* The end of a call, whatever happened to its component meanwhile: the    *)
(* component comes to rest, and the requests that waited go on.            *)
LEMMA CallEndsStep ==
  ASSUME RegistryInv, ReactorIdle, NEW k \in calls,
         StartEnds(k) \/ StartFails(k) \/ StopEnds(k) \/ StopFails(k),
         Fire(k), UNCHANGED <<requests, pauses>>
  PROVE  RegistryInv'
<1> DEFINE told == {i \in jobs : i.wait = k.id}
           goOn == UNION {GoOn(j) : j \in told}
<1>0. k.id \in CallIds /\ k.comp \in Comps /\ k.op \in {"start", "stop"} /\ k.id # 0
  BY ComponentConstants DEF RegistryInv, RegistryTypeOK, Calls
<1>1. jobs' = {j \in jobs : j.wait # k.id} \cup goOn /\ calls' = calls \ {k}
  BY DEF Fire
<1>2. \A j \in told : j \in Jobs /\ j.at = k.comp /\ j.op = k.op
  <2> SUFFICES ASSUME NEW j \in told PROVE j \in Jobs /\ j.at = k.comp /\ j.op = k.op
    OBVIOUS
  <2>1. j \in Jobs /\ [id |-> j.wait, comp |-> j.at, op |-> j.op] \in calls
    BY <1>0 DEF RegistryInv, RegistryTypeOK, WaitsAreForCalls
  <2>2. [id |-> j.wait, comp |-> j.at, op |-> j.op] = k
    BY <2>1 DEF RegistryInv, CallsApart
  <2>. QED
    BY <2>1, <2>2
<1>3. \A i \in goOn : /\ i \in Jobs
                      /\ i.op = k.op /\ i.wait = 0
                      /\ i.op = "start" => i.at <= i.to
                      /\ i.op = "stop" => i.at = k.comp - 1 /\ i.at >= i.to
  <2> SUFFICES ASSUME NEW j \in told, NEW i \in GoOn(j)
               PROVE  /\ i \in Jobs
                      /\ i.op = k.op /\ i.wait = 0
                      /\ i.op = "start" => i.at <= i.to
                      /\ i.op = "stop" => i.at = k.comp - 1 /\ i.at >= i.to
    OBVIOUS
  <2>1. IF j.op = "start" THEN j.at <= j.to ELSE j.at >= j.to
    BY DEF RegistryInv, OnTheWay
  <2>. QED
    BY <1>2, <2>1, GoingOn
<1> HIDE DEF goOn
<1>4. PICK s \in {"Started", "Stopped"} :
         /\ cstate' = [cstate EXCEPT ![k.comp] = s]
         /\ k.op = "stop" => s = "Stopped" \/ k.comp \in Failing
  BY DEF StartEnds, StartFails, StopEnds, StopFails
<1>5. /\ \A c \in Comps \ {k.comp} : startD'[c] = startD[c] /\ stopD'[c] = stopD[c]
      /\ startD' \in [Comps -> CallIds \cup {0}] /\ stopD' \in [Comps -> CallIds \cup {0}]
  <2>1. \/ startD' = [startD EXCEPT ![k.comp] = 0] /\ stopD' = stopD
        \/ stopD' = [stopD EXCEPT ![k.comp] = 0] /\ startD' = startD
        \/ stopD' = stopD /\ startD' = startD
    BY DEF StartEnds, StartFails, StopEnds, StopFails
  <2>. QED
    BY <2>1, <1>0 DEF RegistryInv, RegistryTypeOK
<1>6. timer' \in [Comps -> BOOLEAN] /\ orphans' \in [Comps -> Nat]
  <2>1. \/ StartTimer(k.comp)
        \/ timer' = [timer EXCEPT ![k.comp] = FALSE] /\ orphans' = orphans
        \/ timer' = timer /\ orphans' = orphans
    BY DEF StartEnds, StartFails, StopEnds, StopFails
  <2>2. timer \in [Comps -> BOOLEAN] /\ orphans \in [Comps -> Nat]
    BY DEF RegistryInv, RegistryTypeOK
  <2>3. CASE StartTimer(k.comp)
    BY <1>0, <2>2, <2>3 DEF StartTimer
  <2>. QED
    BY <1>0, <2>1, <2>2, <2>3
<1>7. cstate' \in [Comps -> States]
  BY <1>0, <1>4 DEF RegistryInv, RegistryTypeOK, States
<1>8. RegistryTypeOK'
  BY <1>1, <1>3, <1>5, <1>6, <1>7 DEF RegistryInv, RegistryTypeOK
<1>9. OnTheWay'
  BY <1>0, <1>1, <1>3 DEF RegistryInv, OnTheWay
<1>10. OneKindGoesOn'
  BY <1>1, <1>3 DEF OneKindGoesOn, ReactorIdle
<1>11. CallsApart'
  BY <1>1 DEF RegistryInv, CallsApart
<1>12. WaitsAreForCalls'
  BY <1>1, <1>3 DEF RegistryInv, WaitsAreForCalls
<1>13. DeferredsAreLive'
  <2>1. cstate'[k.comp] \in {"Started", "Stopped"} /\ \A c \in Comps \ {k.comp} : cstate'[c] = cstate[c]
    BY <1>0, <1>4 DEF RegistryInv, RegistryTypeOK
  <2>2. \A c \in Comps \ {k.comp}, d \in CallIds \cup {0}, op \in {"start", "stop"} :
           [id |-> d, comp |-> c, op |-> op] # k
    BY <1>0
  <2>. QED
    BY <1>1, <1>5, <2>1, <2>2 DEF RegistryInv, RegistryTypeOK, DeferredsAreLive
<1>14. DependentIsDown'
  <2> SUFFICES ASSUME NEW i \in jobs', i.op = "stop", i.wait = 0, i.at < N
               PROVE  cstate'[i.at + 1] = "Stopped" \/ i.at + 1 \in Failing
    BY ComponentConstants DEF DependentIsDown
  <2>1. i \in goOn
    BY <1>1 DEF ReactorIdle
  <2>2. i.at + 1 = k.comp /\ k.op = "stop"
    BY <1>0, <1>3, <2>1 DEF Comps
  <2>. QED
    BY <1>0, <1>4, <2>2 DEF RegistryInv, RegistryTypeOK
<1>. QED
  BY <1>8, <1>9, <1>10, <1>11, <1>12, <1>13, <1>14 DEF RegistryInv

(* A request reaches a component.                                          *)
LEMMA AdvanceStep ==
  ASSUME RegistryInv, Advance
  PROVE  RegistryInv'
<1>1. PICK j \in jobs :
        /\ j.wait = 0
        /\ \/ j.op = "start" /\ (StartCall(j) \/ StartNoCall(j))
           \/ j.op = "stop" /\ (StopReturns(j) \/ StopRaises(j) \/ StopCall(j) \/ StopNoCall(j))
  BY DEF Advance
<1>0. j \in Jobs /\ j.at \in Comps
  BY DEF RegistryInv, RegistryTypeOK, Jobs
<1>2. CASE j.op = "start" /\ StartCall(j)
  <2>1. PICK k \in FreeIds :
          /\ calls' = calls \cup {[id |-> k, comp |-> j.at, op |-> "start"]}
          /\ startD' = [startD EXCEPT ![j.at] = k]
          /\ jobs' = (jobs \ {j}) \cup {[j EXCEPT !.wait = k]}
    BY <1>2 DEF StartCall
  <2>. QED
    BY <1>1, <1>2, <2>1, BeginsACall DEF StartCall
<1>3. CASE j.op = "start" /\ StartNoCall(j)
  <2>1. CASE cstate[j.at] = "Starting"
    <3>1. [id |-> startD[j.at], comp |-> j.at, op |-> j.op] \in calls
      BY <1>0, <1>3, <2>1 DEF RegistryInv, DeferredsAreLive
    <3>2. startD[j.at] \in CallIds
      BY <3>1 DEF RegistryInv, RegistryTypeOK, Calls
    <3>. QED
      BY <1>1, <1>3, <2>1, <3>1, <3>2, JoinsACall DEF StartNoCall
  <2>2. CASE cstate[j.at] # "Starting"
    <3>1. timer' \in [Comps -> BOOLEAN]
      BY <1>3 DEF StartNoCall, RegistryInv, RegistryTypeOK
    <3>. QED
      BY <1>1, <1>3, <2>2, <3>1, PassesBy DEF StartNoCall
  <2>. QED
    BY <2>1, <2>2
<1>4. CASE j.op = "stop" /\ (StopReturns(j) \/ StopRaises(j))
  <2>1. PICK s \in {"Stopped", "Started"} :
          /\ cstate' = [cstate EXCEPT ![j.at] = s]
          /\ s = "Stopped" \/ j.at \in Failing
    BY <1>4 DEF StopReturns, StopRaises
  <2>2. cstate'[j.at] = "Stopped" \/ j.at \in Failing
    BY <1>0, <2>1 DEF RegistryInv, RegistryTypeOK
  <2>3. timer' \in [Comps -> BOOLEAN]
    BY <1>0, <1>4 DEF StopReturns, StopRaises, RegistryInv, RegistryTypeOK
  <2>4. /\ jobs' = (jobs \ {j}) \cup GoOn(j)
        /\ UNCHANGED <<orphans, startD, stopD, calls, requests, pauses>>
    BY <1>4 DEF StopReturns, StopRaises
  <2>. QED
    BY <1>1, <1>4, <2>1, <2>2, <2>3, <2>4, PassesBy
<1>5. CASE j.op = "stop" /\ StopCall(j)
  <2>1. PICK k \in FreeIds :
          /\ calls' = calls \cup {[id |-> k, comp |-> j.at, op |-> "stop"]}
          /\ stopD' = [stopD EXCEPT ![j.at] = k]
          /\ jobs' = (jobs \ {j}) \cup {[j EXCEPT !.wait = k]}
    BY <1>5 DEF StopCall
  <2>. QED
    BY <1>1, <1>5, <2>1, BeginsACall DEF StopCall
<1>6. CASE j.op = "stop" /\ StopNoCall(j)
  <2>1. CASE cstate[j.at] = "Stopping"
    <3>1. [id |-> stopD[j.at], comp |-> j.at, op |-> j.op] \in calls
      BY <1>0, <1>6, <2>1 DEF RegistryInv, DeferredsAreLive
    <3>2. stopD[j.at] \in CallIds
      BY <3>1 DEF RegistryInv, RegistryTypeOK, Calls
    <3>. QED
      BY <1>1, <1>6, <2>1, <3>1, <3>2, JoinsACall DEF StopNoCall
  <2>2. CASE cstate[j.at] = "Stopped"
    <3>1. timer' \in [Comps -> BOOLEAN]
      BY <1>6 DEF StopNoCall, RegistryInv, RegistryTypeOK
    <3>2. cstate' = cstate /\ cstate'[j.at] = "Stopped"
      BY <1>6, <2>2 DEF StopNoCall
    <3>. QED
      BY <1>1, <1>6, <2>2, <3>1, <3>2, PassesBy DEF StopNoCall
  <2>. QED
    BY <1>6, <2>1, <2>2 DEF StopNoCall
<1>. QED
  BY <1>1, <1>2, <1>3, <1>4, <1>5, <1>6

(* Every request, step and answer keeps the registry's invariant.          *)
LEMMA RegistryStep ==
  ASSUME RegistryInv, [RegistryNext]_registryVars
  PROVE  RegistryInv'
<1>1. CASE UNCHANGED registryVars
  BY <1>1 DEF registryVars, RegistryInv, RegistryTypeOK, OnTheWay, OneKindGoesOn, CallsApart,
     WaitsAreForCalls, DeferredsAreLive, DependentIsDown
<1>2. CASE \E c \in Comps : Request("start", {c}) \/ Request("stop", {c})
  BY <1>2, RequestStep
<1>3. CASE \E c \in Comps : Pause(c) \/ Resume(c)
  BY <1>3, PauseStep
<1>4. CASE Request("start", Comps)
  BY <1>4, RequestStep
<1>5. CASE Advance
  BY <1>5, AdvanceStep
<1>6. CASE CallEnds
  BY <1>6, CallEndsStep DEF CallEnds
<1>. QED
  BY <1>1, <1>2, <1>3, <1>4, <1>5, <1>6 DEF RegistryNext

(* Requests that cross one another leave the registry sound: each of them  *)
(* waits for a call that is under way and will wake it (a Deferred that    *)
(* was reset or replaced, component.py:127, would leave it waiting for     *)
(* ever), and those that go on in one turn of the reactor are of one kind. *)
THEOREM RequestsWaitForLiveCalls == RegistrySpec => []RegistryInv
<1>1. RegistryInit => RegistryInv
  BY RegistryStarts
<1>2. RegistryInv /\ [RegistryNext]_registryVars => RegistryInv'
  BY RegistryStep
<1>. QED
  BY <1>1, <1>2, PTL DEF RegistrySpec

(* stop() of a component is called (component.py:375) when the one that    *)
(* depends on it has stopped, or is one whose calls may fail, however many *)
(* requests walk the chain and whatever start() calls they cross.          *)
THEOREM DependentsAlwaysStopFirst == RegistrySpec => DependentsStopFirst
<1> DEFINE Ordered ==
      \A c \in 1 .. (N - 1) :
         cstate[c] \notin {"Stopped", "Stopping"} /\ cstate'[c] \in {"Stopping", "Stopped"}
           /\ ~ (\E k \in calls \ calls' : k.comp = c)
         => cstate[c + 1] = "Stopped" \/ c + 1 \in Failing
<1>1. RegistryInv /\ [RegistryNext]_registryVars => [Ordered]_registryVars
  <2> SUFFICES ASSUME RegistryInv, RegistryNext, NEW c \in 1 .. (N - 1),
                      cstate[c] \notin {"Stopped", "Stopping"},
                      cstate'[c] \in {"Stopping", "Stopped"},
                      ~ (\E k \in calls \ calls' : k.comp = c)
               PROVE  cstate[c + 1] = "Stopped" \/ c + 1 \in Failing
    OBVIOUS
  <2>0. c \in Comps /\ c < N /\ cstate \in [Comps -> States] /\ calls \subseteq Calls
    BY ComponentConstants DEF Comps, RegistryInv, RegistryTypeOK
  <2>1. CASE \E d \in Comps : Request("start", {d}) \/ Request("stop", {d}) \/ Pause(d) \/ Resume(d)
    BY <2>0, <2>1 DEF Request, Pause, Resume
  <2>2. CASE Request("start", Comps)
    BY <2>2 DEF Request
  <2>3. CASE CallEnds
    <3>1. PICK k \in calls : /\ StartEnds(k) \/ StartFails(k) \/ StopEnds(k) \/ StopFails(k)
                             /\ calls' = calls \ {k}
      BY <2>3 DEF CallEnds, Fire
    <3>2. k.comp # c
      BY <3>1
    <3>3. cstate'[c] = cstate[c]
      BY <2>0, <3>1, <3>2 DEF StartEnds, StartFails, StopEnds, StopFails
    <3>. QED
      BY <3>3
  <2>4. CASE Advance
    <3>1. PICK j \in jobs :
            /\ j.wait = 0
            /\ \/ j.op = "start" /\ (StartCall(j) \/ StartNoCall(j))
               \/ j.op = "stop" /\ (StopReturns(j) \/ StopRaises(j) \/ StopCall(j) \/ StopNoCall(j))
      BY <2>4 DEF Advance
    <3>2. j.op = "stop" /\ j.at = c
      BY <2>0, <3>1 DEF StartCall, StartNoCall, StopReturns, StopRaises, StopCall, StopNoCall
    <3>. QED
      BY <2>0, <3>1, <3>2 DEF RegistryInv, DependentIsDown
  <2>. QED
    BY <2>1, <2>2, <2>3, <2>4 DEF RegistryNext
<1>2. RegistrySpec => []RegistryInv
  BY RequestsWaitForLiveCalls
<1>3. RegistryInv /\ [RegistryNext]_registryVars =>
        [\A c \in 1..(N - 1) :
          cstate[c] \notin {"Stopped", "Stopping"} /\ cstate'[c] \in {"Stopping", "Stopped"}
            /\ ~ (\E k \in calls \ calls' : k.comp = c)
          => cstate[c + 1] = "Stopped" \/ c + 1 \in Failing]_registryVars
  BY <1>1
<1>. QED
  BY <1>2, <1>3, PTL DEF RegistrySpec, DependentsStopFirst

-----------------------------------------------------------------------------
(* The limiter of failed logins.                                           *)

(* Induction over the naturals, for a set instead of an operator.          *)
LEMMA SetInduction ==
  ASSUME NEW S, 0 \in S, \A n \in Nat : n \in S => n + 1 \in S
  PROVE  \A n \in Nat : n \in S
<1> DEFINE T == {n \in Nat : n \notin S}
           R == {ss \in Nat \X Nat : ss[1] < ss[2]}
<1> SUFFICES ASSUME T # {} PROVE FALSE
  OBVIOUS
<1>1. T \subseteq Nat /\ IsWellFoundedOn(R, Nat)
  BY NatLessThanWellFounded DEF OpToRel
<1>2. PICK x \in T : \A y \in T : ~ (<<y, x>> \in R)
  <2> HIDE DEF T, R
  <2>. QED
    BY <1>1, WFMin
<1>3. x \in Nat /\ x # 0 /\ \A y \in T : ~ (y < x)
  BY <1>2
<1>4. x - 1 \in Nat /\ x - 1 < x /\ (x - 1) + 1 = x
  BY <1>3
<1>5. x - 1 \in S
  BY <1>3, <1>4
<1>. QED
  BY <1>4, <1>5

(* The values a loop over 1 .. L goes through exist, as a function.        *)
IsLoop(f, V, v, L, F) ==
  f \in [0 .. L -> V] /\ f[0] = v /\ \A i \in 1 .. L : f[i] = F[i][f[i - 1]]

(* A loop has such a function, so that one defined by recursion satisfies  *)
(* its equations and is not an arbitrary value.                            *)
LEMMA Recursion ==
  ASSUME NEW V, NEW v \in V, NEW L \in Nat, NEW F \in [1 .. L -> [V -> V]]
  PROVE  \E f : IsLoop(f, V, v, L, F)
<1> DEFINE Good(n) == \E f \in [0 .. n -> V] : f[0] = v /\ \A i \in 1 .. n : f[i] = F[i][f[i - 1]]
           S == {n \in Nat : n <= L => Good(n)}
<1>1. 0 \in S
  <2> DEFINE f == [i \in 0 .. 0 |-> v]
  <2>1. f \in [0 .. 0 -> V] /\ f[0] = v /\ \A i \in 1 .. 0 : f[i] = F[i][f[i - 1]]
    OBVIOUS
  <2> HIDE DEF f
  <2>2. Good(0)
    BY <2>1
  <2>. QED
    BY <2>2
<1>2. ASSUME NEW n \in Nat, n \in S PROVE n + 1 \in S
  <2> SUFFICES ASSUME n + 1 <= L PROVE Good(n + 1)
    OBVIOUS
  <2>1. PICK f \in [0 .. n -> V] : f[0] = v /\ \A i \in 1 .. n : f[i] = F[i][f[i - 1]]
    BY <1>2
  <2> DEFINE g == [i \in 0 .. (n + 1) |-> IF i <= n THEN f[i] ELSE F[n + 1][f[n]]]
  <2>2. F[n + 1][f[n]] \in V
    BY <2>1
  <2>3. g \in [0 .. (n + 1) -> V]
    BY <2>1, <2>2
  <2>4. g[0] = v
    BY <2>1
  <2>5. ASSUME NEW i \in 1 .. (n + 1) PROVE g[i] = F[i][g[i - 1]]
    <3>1. CASE i <= n
      <4>1. i \in 1 .. n /\ i - 1 \in 0 .. n
        BY <3>1
      <4>. QED
        BY <2>1, <4>1
    <3>2. CASE ~ (i <= n)
      <4>1. i = n + 1 /\ i - 1 = n
        BY <3>2
      <4>. QED
        BY <4>1
    <3>. QED
      BY <3>1, <3>2
  <2> HIDE DEF g
  <2>. QED
    BY <2>3, <2>4, <2>5
<1> HIDE DEF Good
<1>3. \A n \in Nat : n \in S
  <2> HIDE DEF S
  <2>. QED
    BY <1>1, <1>2, SetInduction
<1>4. Good(L)
  BY <1>3
<1>. QED
  BY <1>4 DEF Good, IsLoop

(* What _clients contains, and what holds of it: a client has one entry,   *)
(* and the one that failed least recently is the first.                    *)
Entries(t) == {t[i] : i \in 1 .. Len(t)}

Tidy(t) ==
  /\ t \in Seq(Entry)
  /\ \A i, j \in 1 .. Len(t) : t[i].key = t[j].key => i = j
  /\ \A i, j \in 1 .. Len(t) : i < j => t[i].last <= t[j].last

(* The entries of a table, and the clients it knows.                       *)
LEMMA EntriesOf ==
  ASSUME NEW t \in Seq(Entry)
  PROVE  /\ Len(t) \in Nat /\ DOMAIN t = 1 .. Len(t)
         /\ \A i \in 1 .. Len(t) : t[i] \in Entry /\ t[i] \in Entries(t)
         /\ Entries(t) \subseteq Entry
         /\ \A c : Known(t, c) <=> \E e \in Entries(t) : e.key = c
  BY DEF Entries, Known

(* An entry added at the end.                                              *)
LEMMA TidyAppend ==
  ASSUME NEW t, Tidy(t), NEW e \in Entry,
         \A x \in Entries(t) : x.key # e.key /\ x.last <= e.last
  PROVE  /\ Tidy(Append(t, e))
         /\ Entries(Append(t, e)) = Entries(t) \cup {e}
         /\ Len(Append(t, e)) = Len(t) + 1
<1> DEFINE s == Append(t, e)
<1>1. /\ s \in Seq(Entry) /\ Len(s) = Len(t) + 1 /\ Len(t) \in Nat
      /\ \A i \in 1 .. Len(t) : s[i] = t[i] /\ t[i] \in Entries(t)
      /\ s[Len(t) + 1] = e
  BY AppendProperties, LenProperties DEF Tidy, Entries
<1> HIDE DEF s
<1>2. \A i \in 1 .. Len(s) : i \in 1 .. Len(t) \/ i = Len(t) + 1
  BY <1>1
<1>3. Entries(s) = Entries(t) \cup {e}
  <2>1. \A x \in Entries(s) : x \in Entries(t) \cup {e}
    BY <1>1, <1>2 DEF Entries
  <2>2. \A x \in Entries(t) : x \in Entries(s)
    <3>1. \A i \in 1 .. Len(t) : i \in 1 .. Len(s)
      BY <1>1
    <3>. QED
      BY <1>1, <3>1 DEF Entries
  <2>3. e \in Entries(s)
    <3>1. Len(s) \in 1 .. Len(s) /\ s[Len(s)] = e
      BY <1>1
    <3>. QED
      BY <3>1 DEF Entries
  <2>. QED
    BY <2>1, <2>2, <2>3
<1>4. \A i, j \in 1 .. Len(s) : s[i].key = s[j].key => i = j
  BY <1>1, <1>2 DEF Tidy
<1>5. \A i, j \in 1 .. Len(s) : i < j => s[i].last <= s[j].last
  BY <1>1, <1>2 DEF Tidy
<1>. QED
  BY <1>1, <1>3, <1>4, <1>5 DEF s, Tidy

(* del self._clients[key].                                                 *)
LEMMA DelLeaves ==
  ASSUME NEW t, Tidy(t), NEW c
  PROVE  /\ Tidy(Del(t, c))
         /\ Entries(Del(t, c)) = {e \in Entries(t) : e.key # c}
         /\ Len(Del(t, c)) <= Len(t)
         /\ Known(t, c) => Len(Del(t, c)) < Len(t)
<1> DEFINE n == Len(t)
<1>1. n \in Nat /\ t \in Seq(Entry) /\ DOMAIN t = 1 .. n /\ \A i \in 1 .. n : t[i] \in Entry
  BY LenProperties DEF Tidy
<1>2. CASE ~Known(t, c)
  <2>1. Del(t, c) = t
    BY <1>2 DEF Del
  <2>2. \A e \in Entries(t) : e.key # c
    BY <1>1, <1>2 DEF Entries, Known
  <2>. QED
    BY <1>1, <1>2, <2>1, <2>2
<1>3. CASE Known(t, c)
  <2> DEFINE i == CHOOSE k \in DOMAIN t : t[k].key = c
             a == SubSeq(t, 1, i - 1)
             b == SubSeq(t, i + 1, n)
             r == a \o b
  <2>1. i \in 1 .. n /\ t[i].key = c
    BY <1>1, <1>3 DEF Known
  <2>2. \A k \in 1 .. n : k # i => t[k].key # c
    BY <1>1, <2>1 DEF Tidy
  <2>3. Del(t, c) = r
    BY <1>3 DEF Del
  <2> HIDE DEF i
  <2>4. /\ a \in Seq(Entry) /\ Len(a) = i - 1
        /\ \A k \in 1 .. (i - 1) : a[k] = t[k]
    BY <1>1, <2>1, SubSeqProperties
  <2>5. /\ b \in Seq(Entry) /\ Len(b) = n - i
        /\ \A k \in 1 .. (n - i) : b[k] = t[i + k]
    <3>1. \A k \in (i + 1) .. n : t[k] \in Entry
      BY <1>1, <2>1
    <3>2. n \in Int /\ i + 1 \in Int
      BY <1>1, <2>1
    <3> HIDE DEF n
    <3>3. /\ b \in Seq(Entry) /\ Len(b) = IF i + 1 <= n THEN n - (i + 1) + 1 ELSE 0
          /\ \A k \in 1 .. (n - (i + 1) + 1) : b[k] = t[(i + 1) + k - 1]
      BY <3>1, <3>2, SubSeqProperties
    <3>4. i \in 1 .. n /\ n \in Nat
      BY <1>1, <2>1 DEF n
    <3>5. n - (i + 1) + 1 = n - i /\ \A k \in 1 .. (n - i) : (i + 1) + k - 1 = i + k
      BY <3>4
    <3>. QED
      BY <3>3, <3>4, <3>5
  <2> HIDE DEF a, b
  <2>6. /\ r \in Seq(Entry) /\ Len(r) = n - 1
        /\ \A k \in 1 .. (n - 1) : r[k] = IF k < i THEN t[k] ELSE t[k + 1]
    <3>0. /\ r \in Seq(Entry) /\ Len(r) = Len(a) + Len(b)
          /\ \A k \in 1 .. (Len(a) + Len(b)) :
               r[k] = IF k <= Len(a) THEN a[k] ELSE b[k - Len(a)]
      BY <2>4, <2>5, ConcatProperties
    <3>1. /\ r \in Seq(Entry) /\ Len(r) = (i - 1) + (n - i)
          /\ \A k \in 1 .. ((i - 1) + (n - i)) :
               r[k] = IF k <= i - 1 THEN a[k] ELSE b[k - (i - 1)]
      <4> HIDE DEF r, n
      <4>. QED
        BY <3>0, <2>4, <2>5
    <3>2. ASSUME NEW k \in 1 .. (n - 1) PROVE r[k] = IF k < i THEN t[k] ELSE t[k + 1]
      <4>1. k \in 1 .. ((i - 1) + (n - i))
        BY <1>1, <2>1
      <4>2. CASE k < i
        <5>1. k \in 1 .. (i - 1) /\ k <= i - 1
          BY <1>1, <2>1, <4>2
        <5>. QED
          BY <2>4, <3>1, <4>1, <4>2, <5>1
      <4>3. CASE ~ (k < i)
        <5>1. ~ (k <= i - 1) /\ k - (i - 1) \in 1 .. (n - i) /\ i + (k - (i - 1)) = k + 1
          BY <1>1, <2>1, <4>3
        <5>. QED
          BY <2>5, <3>1, <4>1, <4>3, <5>1
      <4>. QED
        BY <4>2, <4>3
    <3>. QED
      BY <1>1, <2>1, <3>1, <3>2
  <2> HIDE DEF r
  <2> DEFINE old(k) == IF k < i THEN k ELSE k + 1
  <2>7. \A k \in 1 .. (n - 1) : old(k) \in 1 .. n /\ old(k) # i /\ r[k] = t[old(k)]
    BY <1>1, <2>1, <2>6
  <2>8. \A k, l \in 1 .. (n - 1) : /\ old(k) = old(l) => k = l
                                   /\ k < l => old(k) < old(l)
    BY <1>1, <2>1
  <2>9. \A m \in 1 .. n : m # i => \E k \in 1 .. (n - 1) : old(k) = m
    <3> SUFFICES ASSUME NEW m \in 1 .. n, m # i PROVE \E k \in 1 .. (n - 1) : old(k) = m
      OBVIOUS
    <3>1. CASE m < i
      <4>1. m \in 1 .. (n - 1) /\ old(m) = m
        BY <1>1, <2>1, <3>1
      <4>. QED
        BY <4>1
    <3>2. CASE m > i
      <4>1. m - 1 \in 1 .. (n - 1) /\ old(m - 1) = m
        BY <1>1, <2>1, <3>2
      <4>. QED
        BY <4>1
    <3>. QED
      BY <1>1, <2>1, <3>1, <3>2
  <2> HIDE DEF old, n
  <2>10. Tidy(r)
    <3>1. /\ \A k, l \in 1 .. n : t[k].key = t[l].key => k = l
          /\ \A k, l \in 1 .. n : k < l => t[k].last <= t[l].last
      BY DEF Tidy, n
    <3>2. \A k, l \in 1 .. (n - 1) : r[k].key = r[l].key => k = l
      BY <2>7, <2>8, <3>1
    <3>3. \A k, l \in 1 .. (n - 1) : k < l => r[k].last <= r[l].last
      BY <2>7, <2>8, <3>1
    <3>. QED
      BY <2>6, <3>2, <3>3 DEF Tidy
  <2>11. Entries(r) = {e \in Entries(t) : e.key # c}
    <3>1. \A k \in 1 .. (n - 1) : r[k] \in Entries(t) /\ r[k].key # c
      BY <2>2, <2>7 DEF Entries, n
    <3>2. \A m \in 1 .. n : t[m].key # c => \E k \in 1 .. (n - 1) : r[k] = t[m]
      BY <2>1, <2>7, <2>9
    <3>3. Entries(r) = {r[k] : k \in 1 .. (n - 1)} /\ Entries(t) = {t[m] : m \in 1 .. n}
      BY <2>6 DEF Entries, n
    <3>. QED
      BY <3>1, <3>2, <3>3
  <2>12. n - 1 < n /\ n - 1 <= n
    BY <1>1
  <2>. QED
    BY <2>3, <2>6, <2>10, <2>11, <2>12 DEF n
<1>. QED
  BY <1>2, <1>3

(* A loop that leaves out some elements of a sequence.                     *)
LEMMA LoopExists ==
  ASSUME NEW A, NEW t \in Seq(A), NEW gone
  PROVE  \E f \in [0 .. Len(t) -> Seq(A)] :
           /\ f[0] = << >>
           /\ \A i \in 1 .. Len(t) :
                f[i] = IF t[i] \in gone THEN f[i - 1] ELSE Append(f[i - 1], t[i])
<1>1. Len(t) \in Nat /\ \A i \in 1 .. Len(t) : t[i] \in A
  BY LenProperties
<1>2. PICK n : n = Len(t)
  OBVIOUS
<1>3. PICK V : V = Seq(A)
  OBVIOUS
<1>4. PICK v : v = << >>
  OBVIOUS
<1>5. PICK F : F = [i \in 1 .. n |-> [s \in V |-> IF t[i] \in gone THEN s ELSE Append(s, t[i])]]
  OBVIOUS
<1>6. \A i \in 1 .. n, s \in V : (IF t[i] \in gone THEN s ELSE Append(s, t[i])) \in V
  BY <1>1, <1>2, <1>3, AppendProperties
<1>7. /\ F \in [1 .. n -> [V -> V]]
      /\ \A i \in 1 .. n, s \in V : F[i][s] = IF t[i] \in gone THEN s ELSE Append(s, t[i])
  BY <1>5, <1>6
<1>8. v \in V /\ n \in Nat
  BY <1>1, <1>2, <1>3, <1>4
<1>9. PICK f : IsLoop(f, V, v, n, F)
  BY <1>7, <1>8, Recursion
<1>10. \A i \in 1 .. n : i - 1 \in 0 .. n
  BY <1>8
<1>11. f \in [0 .. n -> V] /\ f[0] = v /\ \A i \in 1 .. n : f[i] = F[i][f[i - 1]]
  BY <1>9 DEF IsLoop
<1>12. \A i \in 1 .. n : f[i] = IF t[i] \in gone THEN f[i - 1] ELSE Append(f[i - 1], t[i])
  BY <1>7, <1>10, <1>11
<1>. QED
  BY <1>2, <1>3, <1>4, <1>11, <1>12

(* The loop that removes the expired clients.                              *)
LEMMA LiveEquations ==
  ASSUME NEW t \in Seq(Entry)
  PROVE  \E left \in [0 .. Len(t) -> Seq(Entry)] :
           /\ left[0] = << >>
           /\ \A i \in 1 .. Len(t) :
                left[i] = IF Expired(t[i]) THEN left[i - 1] ELSE Append(left[i - 1], t[i])
           /\ Live(t) = left[Len(t)]
<1> DEFINE n == Len(t)
           Is(f) == f = [i \in 0 .. n |->
                          IF i = 0 THEN << >>
                          ELSE IF Expired(t[i]) THEN f[i - 1]
                          ELSE Append(f[i - 1], t[i])]
           left == CHOOSE f : Is(f)
           gone == {e \in Entry : Expired(e)}
<1>1. n \in Nat /\ \A i \in 1 .. n : t[i] \in Entry /\ (t[i] \in gone <=> Expired(t[i]))
  BY LenProperties
<1>5. PICK f \in [0 .. n -> Seq(Entry)] :
         /\ f[0] = << >>
         /\ \A i \in 1 .. n :
              f[i] = IF t[i] \in gone THEN f[i - 1] ELSE Append(f[i - 1], t[i])
  <2> HIDE DEF gone, Is, left
  <2>. QED
    BY LoopExists
<1>6. \A i \in 1 .. n : i - 1 \in 0 .. n /\ i # 0
  BY <1>1
<1>7. \A i \in 1 .. n :
         f[i] = IF Expired(t[i]) THEN f[i - 1] ELSE Append(f[i - 1], t[i])
  BY <1>1, <1>5
<1> HIDE DEF gone
<1>8. Is(f)
  <2>1. \A i \in 0 .. n : f[i] = IF i = 0 THEN << >>
                                 ELSE IF Expired(t[i]) THEN f[i - 1]
                                 ELSE Append(f[i - 1], t[i])
    <3> SUFFICES ASSUME NEW i \in 0 .. n
                 PROVE  f[i] = IF i = 0 THEN << >>
                               ELSE IF Expired(t[i]) THEN f[i - 1]
                               ELSE Append(f[i - 1], t[i])
      OBVIOUS
    <3>1. CASE i = 0
      BY <1>5, <3>1
    <3>2. CASE i # 0
      <4>1. i \in 1 .. n
        BY <1>1, <3>2
      <4>. QED
        BY <1>7, <3>2, <4>1
    <3>. QED
      BY <3>1, <3>2
  <2>2. f = [i \in 0 .. n |-> f[i]]
    BY <1>5
  <2>. QED
    BY <2>1, <2>2
<1>9. Is(left)
  BY <1>8
<1>10. Live(t) = left[n]
  BY DEF Live
<1> HIDE DEF left
<1>11. /\ left[0] = << >>
       /\ \A i \in 1 .. n : left[i] = IF Expired(t[i]) THEN left[i - 1] ELSE Append(left[i - 1], t[i])
       /\ left = [i \in 0 .. n |-> left[i]]
  <2>1. \A i \in 0 .. n : left[i] = IF i = 0 THEN << >>
                                    ELSE IF Expired(t[i]) THEN left[i - 1]
                                    ELSE Append(left[i - 1], t[i])
    BY <1>9
  <2>2. left = [i \in 0 .. n |-> left[i]]
    BY <1>9
  <2> HIDE DEF Is
  <2>3. 0 \in 0 .. n /\ \A i \in 1 .. n : i \in 0 .. n /\ i # 0
    BY <1>1
  <2>4. left[0] = << >>
    BY <2>1, <2>3
  <2>5. \A i \in 1 .. n : left[i] = IF Expired(t[i]) THEN left[i - 1] ELSE Append(left[i - 1], t[i])
    BY <2>1, <2>3
  <2>. QED
    BY <2>2, <2>4, <2>5
<1>12. \A i \in 0 .. n : left[i] = f[i]
  <2> DEFINE S == {i \in Nat : i <= n => left[i] = f[i]}
  <2>1. 0 \in S
    BY <1>5, <1>11
  <2>2. ASSUME NEW i \in Nat, i \in S PROVE i + 1 \in S
    <3> SUFFICES ASSUME i + 1 <= n PROVE left[i + 1] = f[i + 1]
      OBVIOUS
    <3>1. i + 1 \in 1 .. n /\ (i + 1) - 1 = i /\ left[i] = f[i]
      BY <1>1, <2>2
    <3>. QED
      BY <1>7, <1>11, <3>1
  <2>3. \A i \in Nat : i \in S
    <3> HIDE DEF S
    <3>. QED
      BY <2>1, <2>2, SetInduction
  <2>. QED
    BY <1>1, <2>3
<1>13. left \in [0 .. n -> Seq(Entry)]
  BY <1>5, <1>11, <1>12
<1>. QED
  BY <1>10, <1>11, <1>13

(* The loop at login_limiter.py:102 takes out exactly what expired.        *)
LEMMA LiveLeaves ==
  ASSUME NEW t, Tidy(t)
  PROVE  /\ Tidy(Live(t))
         /\ Entries(Live(t)) = {e \in Entries(t) : ~Expired(e)}
         /\ Len(Live(t)) <= Len(t)
         /\ Len(Live(t)) = Len(t) => \A e \in Entries(t) : ~Expired(e)
<1>1. t \in Seq(Entry) /\ Len(t) \in Nat /\ \A i \in 1 .. Len(t) : t[i] \in Entry
  BY LenProperties DEF Tidy
<1>2. PICK left \in [0 .. Len(t) -> Seq(Entry)] :
         /\ left[0] = << >>
         /\ \A i \in 1 .. Len(t) :
              left[i] = IF Expired(t[i]) THEN left[i - 1] ELSE Append(left[i - 1], t[i])
         /\ Live(t) = left[Len(t)]
  BY <1>1, LiveEquations
<1> DEFINE Done(n) == /\ Tidy(left[n])
                      /\ Len(left[n]) <= n
                      /\ Len(left[n]) = n => \A i \in 1 .. n : ~Expired(t[i])
                      /\ Entries(left[n]) = {e \in {t[i] : i \in 1 .. n} : ~Expired(e)}
           S == {n \in Nat : n <= Len(t) => Done(n)}
<1>3. 0 \in S
  <2>1. Tidy(<< >>) /\ Len(<< >>) = 0 /\ Entries(<< >>) = {}
    BY EmptySeq DEF Tidy, Entries
  <2>2. Done(0)
    BY <1>2, <2>1
  <2>. QED
    BY <2>2
<1>4. ASSUME NEW n \in Nat, n \in S PROVE n + 1 \in S
  <2> SUFFICES ASSUME n + 1 <= Len(t) PROVE Done(n + 1)
    OBVIOUS
  <2>1. Done(n) /\ n + 1 \in 1 .. Len(t) /\ (n + 1) - 1 = n /\ n \in 0 .. Len(t)
    BY <1>1, <1>4
  <2> DEFINE e == t[n + 1]
             r == left[n]
  <2>2. left[n + 1] = IF Expired(e) THEN r ELSE Append(r, e)
    BY <1>2, <2>1
  <2>3. \A i \in 1 .. (n + 1) : i \in 1 .. n \/ i = n + 1
    OBVIOUS
  <2>4. e \in Entry /\ r \in Seq(Entry) /\ Len(r) \in Nat
    BY <1>1, <1>2, <2>1
  <2>5. \A x \in Entries(r) : x.key # e.key /\ x.last <= e.last
    <3> SUFFICES ASSUME NEW i \in 1 .. n PROVE t[i].key # e.key /\ t[i].last <= e.last
      BY <2>1
    <3>1. i \in 1 .. Len(t) /\ i < n + 1 /\ i # n + 1
      BY <1>1, <2>1
    <3>. QED
      BY <2>1, <3>1 DEF Tidy
  <2>6. {t[i] : i \in 1 .. (n + 1)} = {t[i] : i \in 1 .. n} \cup {e}
    BY SMTT(30), <2>3
  <2>7. CASE Expired(e)
    <3>1. left[n + 1] = r
      BY <2>2, <2>7
    <3>2. {x \in {t[i] : i \in 1 .. (n + 1)} : ~Expired(x)} = {x \in {t[i] : i \in 1 .. n} : ~Expired(x)}
      BY <2>6, <2>7
    <3>3. Len(r) <= n + 1 /\ Len(r) # n + 1
      BY <2>1, <2>4
    <3>. QED
      BY <2>1, <3>1, <3>2, <3>3
  <2>8. CASE ~Expired(e)
    <3>1. left[n + 1] = Append(r, e)
      BY <2>2, <2>8
    <3>2. /\ Tidy(Append(r, e)) /\ Entries(Append(r, e)) = Entries(r) \cup {e}
          /\ Len(Append(r, e)) = Len(r) + 1
      BY <2>1, <2>4, <2>5, TidyAppend
    <3>3. {x \in {t[i] : i \in 1 .. (n + 1)} : ~Expired(x)} = {x \in {t[i] : i \in 1 .. n} : ~Expired(x)} \cup {e}
      BY <2>6, <2>8
    <3>4. Len(r) + 1 <= n + 1 /\ (Len(r) + 1 = n + 1 => Len(r) = n)
      BY <2>1, <2>4
    <3>5. Len(r) = n => \A i \in 1 .. (n + 1) : ~Expired(t[i])
      BY <2>1, <2>3, <2>8
    <3>. QED
      BY <2>1, <3>1, <3>2, <3>3, <3>4, <3>5
  <2>. QED
    BY <2>7, <2>8
<1>5. \A n \in Nat : n \in S
  <2> HIDE DEF S
  <2>. QED
    BY <1>3, <1>4, SetInduction
<1>6. Done(Len(t))
  <2>1. Len(t) \in S
    <3> HIDE DEF S
    <3>. QED
      BY <1>1, <1>5
  <2>2. Len(t) <= Len(t)
    BY <1>1
  <2> HIDE DEF Done
  <2>. QED
    BY <2>1, <2>2
<1>. QED
  BY <1>2, <1>6 DEF Entries

(* _make_room() leaves room for one, and takes nothing else than expired   *)
(* clients and the first ones.                                             *)
LEMMA RoomIsMade ==
  ASSUME NEW t, Tidy(t)
  PROVE  /\ Tidy(MakeRoom(t))
         /\ Entries(MakeRoom(t)) \subseteq Entries(t)
         /\ Len(MakeRoom(t)) < MAX_CLIENTS
<1>0. MAX_CLIENTS \in Nat \ {0}
  BY LimiterAssumption
<1>1. CASE Len(t) < MAX_CLIENTS
  BY <1>1 DEF MakeRoom
<1>2. CASE ~ (Len(t) < MAX_CLIENTS)
  <2> DEFINE live == Live(t)
             over == Len(live) - MAX_CLIENTS + 1
             from == IF over > 0 THEN over + 1 ELSE 1
             r == SubSeq(live, from, Len(live))
  <2>1. MakeRoom(t) = r
    BY <1>2 DEF MakeRoom
  <2>2. Tidy(live) /\ Entries(live) \subseteq Entries(t)
    BY LiveLeaves
  <2> HIDE DEF live
  <2>3. live \in Seq(Entry) /\ Len(live) \in Nat /\ \A i \in 1 .. Len(live) : live[i] \in Entry
    BY <2>2, LenProperties DEF Tidy
  <2>4. from \in 1 .. (Len(live) + 1) /\ Len(live) - from + 1 < MAX_CLIENTS
    <3> DEFINE n == Len(live)
    <3>1. n \in Nat
      BY <2>3
    <3> HIDE DEF n
    <3>2. CASE n - MAX_CLIENTS + 1 > 0
      <4>1. from = n - MAX_CLIENTS + 2
        BY <1>0, <3>1, <3>2 DEF n
      <4> HIDE DEF from
      <4>2. from \in 1 .. (n + 1) /\ n - from + 1 < MAX_CLIENTS
        BY <1>0, <3>1, <3>2, <4>1
      <4>. QED
        BY <4>2 DEF n
    <3>3. CASE ~ (n - MAX_CLIENTS + 1 > 0)
      <4>1. from = 1
        BY <3>3 DEF n
      <4> HIDE DEF from
      <4>2. from \in 1 .. (n + 1) /\ n - from + 1 < MAX_CLIENTS
        BY <1>0, <3>1, <3>3, <4>1
      <4>. QED
        BY <4>2 DEF n
    <3>. QED
      BY <3>2, <3>3
  <2> HIDE DEF from
  <2>5. /\ r \in Seq(Entry) /\ Len(r) = Len(live) - from + 1
        /\ \A i \in 1 .. (Len(live) - from + 1) : r[i] = live[from + i - 1]
    <3>1. \A i \in from .. Len(live) : live[i] \in Entry
      BY <2>3, <2>4
    <3>2. /\ r \in Seq(Entry)
          /\ Len(r) = IF from <= Len(live) THEN Len(live) - from + 1 ELSE 0
          /\ \A i \in 1 .. (Len(live) - from + 1) : r[i] = live[from + i - 1]
      BY <2>3, <2>4, <3>1, SubSeqProperties
    <3>. QED
      BY <2>3, <2>4, <3>2
  <2> HIDE DEF r
  <2> DEFINE old(i) == from + i - 1
  <2>6. \A i \in 1 .. Len(r) : old(i) \in 1 .. Len(live) /\ r[i] = live[old(i)]
    BY <2>3, <2>4, <2>5
  <2>7. \A i, j \in 1 .. Len(r) : /\ old(i) = old(j) => i = j
                                  /\ i < j => old(i) < old(j)
    BY <2>3, <2>4, <2>5
  <2> HIDE DEF old
  <2>11. /\ \A k, l \in 1 .. Len(live) : live[k].key = live[l].key => k = l
         /\ \A k, l \in 1 .. Len(live) : k < l => live[k].last <= live[l].last
    BY <2>2 DEF Tidy
  <2>8. \A i, j \in 1 .. Len(r) : r[i].key = r[j].key => i = j
    BY SMTT(30), <2>6, <2>7, <2>11
  <2>9. \A i, j \in 1 .. Len(r) : i < j => r[i].last <= r[j].last
    BY SMTT(30), <2>6, <2>7, <2>11
  <2>10. Entries(r) \subseteq Entries(live)
    BY <2>6 DEF Entries
  <2>. QED
    BY <2>1, <2>2, <2>4, <2>5, <2>8, <2>9, <2>10 DEF Tidy
<1>. QED
  BY <1>1, <1>2

(* A client that has to be remembered makes room only in a table full of   *)
(* such clients, as the first of them and the only one.                    *)
LEMMA FirstMakesRoom ==
  ASSUME NEW t, Tidy(t), Len(t) <= MAX_CLIENTS,
         NEW e \in Entries(t), ~Expired(e), e \notin Entries(MakeRoom(t))
  PROVE  /\ Len(t) = MAX_CLIENTS
         /\ \A x \in Entries(t) : ~Expired(x)
         /\ \A x \in Entries(t) \ {e} : x \in Entries(MakeRoom(t)) /\ e.last <= x.last
<1> DEFINE live == Live(t)
           over == Len(live) - MAX_CLIENTS + 1
           from == IF over > 0 THEN over + 1 ELSE 1
<1>0. MAX_CLIENTS \in Nat \ {0}
  BY LimiterAssumption
<1>1. ~ (Len(t) < MAX_CLIENTS) /\ MakeRoom(t) = SubSeq(live, from, Len(live))
  BY DEF MakeRoom
<1>2. /\ Tidy(live) /\ Entries(live) = {x \in Entries(t) : ~Expired(x)}
      /\ Len(live) <= Len(t)
      /\ Len(live) = Len(t) => \A x \in Entries(t) : ~Expired(x)
  BY LiveLeaves
<1> HIDE DEF live
<1>3. /\ live \in Seq(Entry) /\ Len(live) \in Nat /\ Len(t) \in Nat
      /\ \A i \in 1 .. Len(live) : live[i] \in Entry
  BY <1>2, LenProperties DEF Tidy
<1>4. PICK k \in 1 .. Len(live) : live[k] = e
  BY <1>2 DEF Entries
<1>5. Len(t) = MAX_CLIENTS /\ from \in 1 .. 2 /\ (from = 2 => Len(live) = MAX_CLIENTS)
  BY <1>0, <1>1, <1>2, <1>3
<1> HIDE DEF from
<1>6. \A j \in from .. Len(live) : live[j] \in Entries(MakeRoom(t))
  <2> DEFINE r == SubSeq(live, from, Len(live))
  <2>1. \A i \in from .. Len(live) : live[i] \in Entry
    BY <1>3, <1>5
  <2>2. /\ Len(r) = IF from <= Len(live) THEN Len(live) - from + 1 ELSE 0
        /\ \A i \in 1 .. (Len(live) - from + 1) : r[i] = live[from + i - 1]
    <3>1. from \in Int /\ Len(live) \in Int
      BY <1>3, <1>5
    <3>2. QED
      BY SMTT(30), <2>1, <3>1, SubSeqProperties
  <2> HIDE DEF r
  <2> SUFFICES ASSUME NEW j \in from .. Len(live) PROVE live[j] \in Entries(r)
    BY <1>1 DEF r
  <2>3. /\ j - from + 1 \in 1 .. Len(r) /\ j - from + 1 \in 1 .. (Len(live) - from + 1)
        /\ from + (j - from + 1) - 1 = j
    BY <1>3, <1>5, <2>2
  <2>. QED
    BY <2>2, <2>3 DEF Entries
<1>7. k = 1 /\ from = 2
  BY <1>3, <1>4, <1>5, <1>6
<1>8. ASSUME NEW x \in Entries(t) \ {e}
      PROVE  x \in Entries(MakeRoom(t)) /\ e.last <= x.last
  <2>1. PICK j \in 1 .. Len(live) : live[j] = x
    BY <1>1, <1>2, <1>5, <1>7 DEF Entries
  <2>2. 1 < j /\ j \in from .. Len(live)
    BY <1>3, <1>4, <1>7, <2>1
  <2>3. live[1].last <= live[j].last
    BY <1>2, <1>4, <1>7, <2>2 DEF Tidy
  <2>. QED
    BY <1>4, <1>6, <1>7, <2>1, <2>2, <2>3
<1>. QED
  BY <1>2, <1>5, <1>7, <1>8

(* The delay of a block: BASE_DELAY doubled, and never more than MAX_DELAY. *)
LEMMA DoubledIs ==
  /\ Doubled \in [0 .. 16 -> Nat]
  /\ Doubled[0] = BASE_DELAY
  /\ \A k \in 1 .. 16 : Doubled[k] = 2 * Doubled[k - 1]
<1> DEFINE Is(f) == f = [k \in 0 .. 16 |-> IF k = 0 THEN BASE_DELAY ELSE 2 * f[k - 1]]
<1>1. PICK V : V = Nat
  OBVIOUS
<1>2. PICK F : F = [k \in 1 .. 16 |-> [s \in V |-> 2 * s]]
  OBVIOUS
<1>3. F \in [1 .. 16 -> [V -> V]] /\ \A k \in 1 .. 16, s \in V : F[k][s] = 2 * s
  BY <1>1, <1>2
<1>4. BASE_DELAY \in V /\ 16 \in Nat
  BY <1>1, LimiterAssumption
<1>5. PICK f : IsLoop(f, V, BASE_DELAY, 16, F)
  <2> HIDE DEF Is
  <2>. QED
    BY <1>3, <1>4, Recursion
<1>6. f \in [0 .. 16 -> Nat] /\ f[0] = BASE_DELAY /\ \A k \in 1 .. 16 : f[k] = F[k][f[k - 1]]
  BY <1>1, <1>5 DEF IsLoop
<1>7. \A k \in 1 .. 16 : f[k] = 2 * f[k - 1]
  <2>1. \A k \in 1 .. 16 : k - 1 \in 0 .. 16
    OBVIOUS
  <2>2. \A k \in 1 .. 16 : f[k - 1] \in V
    BY <1>1, <1>6, <2>1
  <2>. QED
    BY <1>3, <1>6, <2>2
<1>8. Is(f)
  <2>1. \A k \in 0 .. 16 : f[k] = IF k = 0 THEN BASE_DELAY ELSE 2 * f[k - 1]
    BY <1>6, <1>7
  <2>2. f = [k \in 0 .. 16 |-> f[k]]
    BY <1>6
  <2>. QED
    BY <2>1, <2>2
<1>9. Doubled = CHOOSE g : Is(g)
  BY DEF Doubled
<1>10. Is(Doubled)
  BY <1>8, <1>9
<1>11. /\ Doubled[0] = BASE_DELAY
       /\ \A k \in 1 .. 16 : Doubled[k] = 2 * Doubled[k - 1]
       /\ Doubled = [k \in 0 .. 16 |-> Doubled[k]]
  BY <1>10
<1>12. \A k \in 0 .. 16 : Doubled[k] = f[k]
  <2> DEFINE S == {k \in Nat : k <= 16 => Doubled[k] = f[k]}
  <2>1. 0 \in S
    BY <1>6, <1>11
  <2>2. ASSUME NEW k \in Nat, k \in S PROVE k + 1 \in S
    <3> SUFFICES ASSUME k + 1 <= 16 PROVE Doubled[k + 1] = f[k + 1]
      OBVIOUS
    <3>1. k + 1 \in 1 .. 16 /\ (k + 1) - 1 = k /\ Doubled[k] = f[k]
      BY <2>2
    <3>. QED
      BY <1>7, <1>11, <3>1
  <2>3. \A k \in Nat : k \in S
    <3> HIDE DEF S
    <3>. QED
      BY <2>1, <2>2, SetInduction
  <2>. QED
    BY <2>3
<1>. QED
  BY <1>6, <1>11, <1>12

(* A block lasts MAX_DELAY at most.                                        *)
LEMMA DelayIs ==
  ASSUME NEW n \in Nat, n >= MAX_FAILURES
  PROVE  Delay(n) \in 0 .. MAX_DELAY
<1> DEFINE k == Least(n - MAX_FAILURES, 16)
<1>1. k \in 0 .. 16
  BY LimiterAssumption DEF Least
<1>2. Doubled[k] \in Nat
  BY <1>1, DoubledIs
<1> HIDE DEF k
<1>3. Delay(n) = Least(Doubled[k], MAX_DELAY)
  BY DEF Delay, k
<1>. QED
  BY <1>2, <1>3, LimiterAssumption DEF Least

(* "After MAX_FAILURES failed logins a client is blocked for BASE_DELAY    *)
(* seconds, and each further failure blocks it for twice as long, up to    *)
(* MAX_DELAY" (login_limiter.py:43), while there are 16 doublings at most. *)
THEOREM DelaysDouble ==
  /\ Delay(MAX_FAILURES) = BASE_DELAY
  /\ \A n \in Nat : n >= MAX_FAILURES /\ n - MAX_FAILURES < 16
                      => Delay(n + 1) = Least(2 * Delay(n), MAX_DELAY)
<1>0. /\ MAX_FAILURES \in Nat /\ MAX_DELAY \in Nat
      /\ BASE_DELAY \in Nat /\ BASE_DELAY <= MAX_DELAY
  BY LimiterAssumption
<1>1. Delay(MAX_FAILURES) = BASE_DELAY
  <2>1. Least(MAX_FAILURES - MAX_FAILURES, 16) = 0
    BY <1>0 DEF Least
  <2>. QED
    BY <1>0, <2>1, DoubledIs DEF Delay, Least
<1>2. ASSUME NEW n \in Nat, n >= MAX_FAILURES, n - MAX_FAILURES < 16,
             NEW m \in Nat, m = n + 1
      PROVE  Delay(m) = Least(2 * Delay(n), MAX_DELAY)
  <2> DEFINE k == n - MAX_FAILURES
  <2>1. /\ k \in 0 .. 15 /\ k + 1 \in 1 .. 16 /\ (k + 1) - 1 = k
        /\ Least(n - MAX_FAILURES, 16) = k /\ Least(m - MAX_FAILURES, 16) = k + 1
    BY <1>0, <1>2 DEF Least
  <2>2. Delay(n) = Least(Doubled[k], MAX_DELAY) /\ Delay(m) = Least(Doubled[k + 1], MAX_DELAY)
    BY <2>1 DEF Delay
  <2> HIDE DEF k
  <2>3. Doubled[k] \in Nat /\ Doubled[k + 1] = 2 * Doubled[k]
    BY <2>1, DoubledIs
  <2>. QED
    BY <1>0, <2>2, <2>3 DEF Least
<1>3. ASSUME NEW n \in Nat, n >= MAX_FAILURES, n - MAX_FAILURES < 16
      PROVE  Delay(n + 1) = Least(2 * Delay(n), MAX_DELAY)
  <2>1. n + 1 \in Nat
    OBVIOUS
  <2>. QED
    BY <1>2, <1>3, <2>1, Zenon
<1>. QED
  BY <1>1, <1>3

(* The failures that count begin after the last gap of FORGET_AFTER.       *)
Gaps(h) == {i \in 2 .. Len(h) : h[i] - h[i - 1] >= FORGET_AFTER}

FirstCounted(h) ==
  IF Gaps(h) = {} THEN 1 ELSE CHOOSE i \in Gaps(h) : \A k \in Gaps(h) : k <= i

(* A set of indices has a greatest one.                                    *)
LEMMA GreatestExists ==
  ASSUME NEW n \in Nat, NEW G \in SUBSET (1 .. n), G # {}
  PROVE  \E i \in G : \A k \in G : k <= i
<1> DEFINE S == {m \in Nat : \A H \in SUBSET (1 .. m) : H # {} => \E i \in H : \A k \in H : k <= i}
<1>1. 0 \in S
  <2>1. 1 .. 0 = {}
    OBVIOUS
  <2>. QED
    BY <2>1
<1>2. ASSUME NEW m \in Nat, m \in S PROVE m + 1 \in S
  <2> SUFFICES ASSUME NEW H \in SUBSET (1 .. (m + 1)), H # {}
               PROVE  \E i \in H : \A k \in H : k <= i
    OBVIOUS
  <2>1. CASE m + 1 \in H
    <3>1. \A k \in H : k <= m + 1
      OBVIOUS
    <3>. QED
      BY <2>1, <3>1
  <2>2. CASE m + 1 \notin H
    <3>1. H \in SUBSET (1 .. m)
      BY <2>2
    <3>. QED
      BY <1>2, <3>1
  <2>. QED
    BY <2>1, <2>2
<1>3. \A m \in Nat : m \in S
  <2> HIDE DEF S
  <2>. QED
    BY <1>1, <1>2, SetInduction
<1>. QED
  BY <1>3

(* The first failure that counts is one of the failures.                   *)
LEMMA FirstCountedIs ==
  ASSUME NEW h \in Seq(Times), h # << >>
  PROVE  FirstCounted(h) \in 1 .. Len(h)
<1>1. Len(h) \in Nat \ {0} /\ Gaps(h) \in SUBSET (1 .. Len(h))
  BY EmptySeq DEF Gaps
<1>2. Gaps(h) # {} => \E i \in Gaps(h) : \A k \in Gaps(h) : k <= i
  BY <1>1, GreatestExists
<1>. QED
  BY <1>1, <1>2 DEF FirstCounted

(* The failures that count are the last ones, and some when there are any. *)
LEMMA CountedIs ==
  ASSUME NEW h \in Seq(Times)
  PROVE  /\ h = << >> => Len(Counted(h)) = 0
         /\ h # << >> => /\ Len(Counted(h)) = Len(h) - FirstCounted(h) + 1
                         /\ Len(Counted(h)) \in Nat \ {0}
                         /\ Counted(h)[Len(Counted(h))] = h[Len(h)]
<1>1. Counted(h) = SubSeq(h, FirstCounted(h), Len(h))
  BY DEF Counted, FirstCounted, Gaps
<1>2. Len(h) \in Nat /\ \A i \in 1 .. Len(h) : h[i] \in Times
  BY LenProperties
<1>3. CASE h = << >>
  <2>1. Gaps(h) = {} /\ Len(h) = 0
    BY <1>3, EmptySeq DEF Gaps
  <2>2. Counted(h) = SubSeq(h, 1, 0)
    BY <1>1, <2>1 DEF FirstCounted
  <2>3. SubSeq(h, 1, 0) = << >>
    BY SubSeqEmpty
  <2>. QED
    BY <1>3, <2>1, <2>2, <2>3
<1>4. CASE h # << >>
  <2> DEFINE f == FirstCounted(h)
             n == Len(h)
  <2>1. f \in 1 .. n /\ n \in Nat
    BY <1>2, <1>4, FirstCountedIs
  <2>2. \A i \in f .. n : h[i] \in Times
    BY <1>2, <2>1
  <2> HIDE DEF f, n
  <2>3. /\ Len(SubSeq(h, f, n)) = IF f <= n THEN n - f + 1 ELSE 0
        /\ \A i \in 1 .. (n - f + 1) : SubSeq(h, f, n)[i] = h[f + i - 1]
    BY <2>1, <2>2, SubSeqProperties
  <2>4. n - f + 1 \in Nat \ {0} /\ f <= n /\ f + (n - f + 1) - 1 = n /\ n - f + 1 \in 1 .. (n - f + 1)
    BY <2>1
  <2>5. SubSeq(h, f, n)[n - f + 1] = h[n]
    BY <2>3, <2>4
  <2>. QED
    BY <1>1, <1>4, <2>3, <2>4, <2>5 DEF f, n
<1>. QED
  BY <1>3, <1>4

(* One more failure.                                                       *)
LEMMA CountedAppend ==
  ASSUME NEW h \in Seq(Times), NEW x \in Times
  PROVE  /\ Append(h, x) \in Seq(Times) /\ Append(h, x) # << >>
         /\ Append(h, x)[Len(Append(h, x))] = x
         /\ h = << >> \/ x - h[Len(h)] >= FORGET_AFTER => Len(Counted(Append(h, x))) = 1
         /\ h # << >> /\ ~ (x - h[Len(h)] >= FORGET_AFTER)
              => Len(Counted(Append(h, x))) = Len(Counted(h)) + 1
<1> DEFINE g == Append(h, x)
           n == Len(h)
<1>1. /\ g \in Seq(Times) /\ g # << >> /\ Len(g) = n + 1 /\ n \in Nat
      /\ \A i \in 1 .. n : g[i] = h[i]
      /\ g[n + 1] = x
  BY AppendProperties, LenProperties
<1>2. h = << >> <=> n = 0
  BY EmptySeq
<1> HIDE DEF g
<1>3. Len(Counted(g)) = (n + 1) - FirstCounted(g) + 1
  BY <1>1, CountedIs
<1>4. \A i \in 2 .. n : g[i] - g[i - 1] = h[i] - h[i - 1]
  <2>1. \A i \in 2 .. n : i \in 1 .. n /\ i - 1 \in 1 .. n
    BY <1>1
  <2>. QED
    BY <1>1, <2>1
<1>5. ASSUME n # 0 PROVE (n + 1 \in Gaps(g)) <=> x - h[n] >= FORGET_AFTER
  <2>1. n + 1 \in 2 .. (n + 1) /\ (n + 1) - 1 = n /\ n \in 1 .. n
    BY <1>1, <1>5
  <2>. QED
    BY <1>1, <2>1 DEF Gaps
<1>6. Gaps(g) \ {n + 1} = Gaps(h)
  <2>1. \A i : i \in 2 .. (n + 1) /\ i # n + 1 <=> i \in 2 .. n
    BY <1>1
  <2>. QED
    BY <1>1, <1>4, <2>1 DEF Gaps
<1>7. CASE h = << >>
  <2>1. Gaps(g) = {}
    <3>1. 2 .. (n + 1) = {}
      BY <1>2, <1>7
    <3>. QED
      BY <1>1, <3>1 DEF Gaps
  <2>2. FirstCounted(g) = 1
    BY <2>1 DEF FirstCounted
  <2>. QED
    BY <1>1, <1>2, <1>3, <1>7, <2>2 DEF g
<1>8. CASE h # << >> /\ x - h[n] >= FORGET_AFTER
  <2>1. n + 1 \in Gaps(g) /\ \A k \in Gaps(g) : k \in 2 .. (n + 1)
    BY <1>1, <1>2, <1>5, <1>8 DEF Gaps
  <2>2. \A i \in Gaps(g) : (\A k \in Gaps(g) : k <= i) <=> i = n + 1
    BY <1>1, <2>1
  <2>3. FirstCounted(g) = n + 1
    BY <2>1, <2>2 DEF FirstCounted
  <2>. QED
    BY <1>1, <1>3, <1>8, <2>3 DEF g
<1>9. CASE h # << >> /\ ~ (x - h[n] >= FORGET_AFTER)
  <2>1. Gaps(g) = Gaps(h)
    BY <1>2, <1>5, <1>6, <1>9
  <2>2. FirstCounted(g) = FirstCounted(h)
    BY <2>1 DEF FirstCounted
  <2>3. FirstCounted(h) \in 1 .. n /\ Len(Counted(h)) = n - FirstCounted(h) + 1
    BY <1>9, FirstCountedIs, CountedIs
  <2>. QED
    BY <1>1, <1>3, <1>9, <2>2, <2>3 DEF g
<1>. QED
  BY <1>7, <1>8, <1>9

(* An entry says what its client's own failures ask for, and a client      *)
(* without an entry has not failed for FORGET_AFTER, or was evicted.       *)
EntryIsRight(e) ==
  LET h == failed[e.key]
  IN /\ h # << >>
     /\ e.last = h[Len(h)] /\ e.last <= now
     /\ e.failures = Len(Counted(h))
     /\ e.until = IF e.failures >= MAX_FAILURES THEN e.last + Delay(e.failures) ELSE 0

IsForgotten(c) ==
  failed[c] # << >> => now - failed[c][Len(failed[c])] >= FORGET_AFTER

LimiterInv ==
  /\ now \in Times /\ failed \in [Clients -> Seq(Times)]
  /\ Tidy(table) /\ Len(table) <= MAX_CLIENTS
  /\ \A e \in Entries(table) : EntryIsRight(e)
  /\ \A c \in Clients : ~Known(table, c) => IsForgotten(c)

(* No client failed yet.                                                   *)
LEMMA LimiterStarts == LimiterInit => LimiterInv
<1> SUFFICES ASSUME LimiterInit PROVE LimiterInv
  OBVIOUS
<1>1. table = << >> /\ Len(<< >>) = 0 /\ << >> \in Seq(Entry) /\ << >> \in Seq(Times)
  BY EmptySeq DEF LimiterInit
<1>2. Tidy(table) /\ Entries(table) = {}
  BY <1>1 DEF Tidy, Entries
<1>3. now \in Times /\ \A c \in Clients : failed[c] = << >>
  BY LimiterAssumption DEF LimiterInit, Times
<1>. QED
  BY <1>1, <1>2, <1>3, LimiterAssumption DEF LimiterInit, LimiterInv, IsForgotten

(* What _get() leaves in the dict.                                         *)
LEMMA GotLeaves ==
  ASSUME Tidy(table), NEW c
  PROVE  /\ Tidy(Got(c))
         /\ Len(Got(c)) <= Len(table)
         /\ Entries(Got(c)) = {e \in Entries(table) : ~ (e.key = c /\ Expired(e))}
<1>1. table \in Seq(Entry) /\ Len(table) \in Nat /\ DOMAIN table = 1 .. Len(table)
  BY LenProperties DEF Tidy
<1>2. CASE \E i \in DOMAIN table : table[i].key = c /\ Expired(table[i])
  <2>1. Got(c) = Del(table, c)
    BY <1>2 DEF Got
  <2>2. PICK i \in 1 .. Len(table) : table[i].key = c /\ Expired(table[i])
    BY <1>1, <1>2
  <2>3. \A e \in Entries(table) : e.key = c => e = table[i]
    BY <2>2 DEF Entries, Tidy
  <2>. QED
    BY <2>1, <2>2, <2>3, DelLeaves
<1>3. CASE ~ \E i \in DOMAIN table : table[i].key = c /\ Expired(table[i])
  <2>1. Got(c) = table
    BY <1>3 DEF Got
  <2>2. \A e \in Entries(table) : ~ (e.key = c /\ Expired(e))
    BY <1>1, <1>3 DEF Entries
  <2>. QED
    BY <1>1, <2>1, <2>2
<1>. QED
  BY <1>2, <1>3

(* Entries leave the dict when they are expired.                           *)
LEMMA CheckStep ==
  ASSUME LimiterInv, NEW c \in Clients, Check(c)
  PROVE  LimiterInv'
<1>1. table' = Got(c) /\ now' = now /\ failed' = failed
  BY DEF Check
<1>2. /\ Tidy(table') /\ Len(table') <= Len(table)
      /\ Entries(table') = {e \in Entries(table) : ~ (e.key = c /\ Expired(e))}
  BY <1>1, GotLeaves DEF LimiterInv
<1>3. Len(table') <= MAX_CLIENTS
  BY <1>2, LenProperties, LimiterAssumption DEF LimiterInv, Tidy
<1>4. \A e \in Entries(table') : EntryIsRight(e)'
  BY <1>1, <1>2 DEF LimiterInv, EntryIsRight
<1>5. ASSUME NEW d \in Clients, ~Known(table', d)
      PROVE  IsForgotten(d)'
  <2>1. CASE Known(table, d)
    <3>1. PICK e \in Entries(table) : e.key = d
      BY <2>1, EntriesOf DEF LimiterInv, Tidy
    <3>2. Expired(e)
      BY <1>2, <1>5, <3>1, EntriesOf DEF Tidy
    <3>. QED
      BY <1>1, <3>1, <3>2 DEF LimiterInv, EntryIsRight, IsForgotten, Expired
  <2>2. CASE ~Known(table, d)
    BY <1>1, <2>2 DEF LimiterInv, IsForgotten
  <2>. QED
    BY <2>1, <2>2
<1>. QED
  BY <1>1, <1>2, <1>3, <1>4, <1>5 DEF LimiterInv

(* A good login takes the client out, and its failures with it.            *)
LEMMA SuccessStep ==
  ASSUME LimiterInv, NEW c \in Clients, Success(c)
  PROVE  LimiterInv'
<1>1. table' = Del(table, c) /\ now' = now /\ failed' = [failed EXCEPT ![c] = << >>]
  BY DEF Success
<1>2. /\ Tidy(table') /\ Len(table') <= Len(table)
      /\ Entries(table') = {e \in Entries(table) : e.key # c}
  BY <1>1, DelLeaves DEF LimiterInv
<1>3. Len(table') <= MAX_CLIENTS
  BY <1>2, LenProperties, LimiterAssumption DEF LimiterInv, Tidy
<1>4. /\ failed' \in [Clients -> Seq(Times)]
      /\ failed'[c] = << >>
      /\ \A d \in Clients \ {c} : failed'[d] = failed[d]
  BY <1>1 DEF LimiterInv
<1>5. \A e \in Entries(table') : EntryIsRight(e)'
  <2>1. \A e \in Entries(table') : e \in Entries(table) /\ e.key \in Clients \ {c}
    BY <1>2, EntriesOf DEF LimiterInv, Tidy, Entry
  <2>. QED
    BY <1>1, <1>4, <2>1 DEF LimiterInv, EntryIsRight
<1>6. ASSUME NEW d \in Clients, ~Known(table', d)
      PROVE  IsForgotten(d)'
  <2>1. d # c => ~Known(table, d)
    <3>1. SUFFICES ASSUME d # c, Known(table, d)
                   PROVE  FALSE
      OBVIOUS
    <3>2. table \in Seq(Entry) /\ table' \in Seq(Entry)
      BY <1>2 DEF LimiterInv, Tidy
    <3>3. PICK e \in Entries(table) : e.key = d
      BY <3>1, <3>2, EntriesOf
    <3>4. e \in Entries(table')
      BY <1>2, <3>1, <3>3
    <3>5. Known(table', d)
      BY <3>2, <3>3, <3>4, EntriesOf
    <3>6. QED
      BY <1>6, <3>5
  <2>. QED
    BY <1>1, <1>4, <2>1 DEF LimiterInv, IsForgotten
<1>. QED
  BY <1>1, <1>2, <1>3, <1>4, <1>5, <1>6 DEF LimiterInv

(* Time can only forget a client that is not in the table.                 *)
LEMMA TickStep ==
  ASSUME LimiterInv, Tick
  PROVE  LimiterInv'
<1>1. now \in Nat /\ now' = now + 1 /\ now' \in Times /\ table' = table /\ failed' = failed
  BY LimiterAssumption DEF Tick, LimiterInv, Times
<1>2. table \in Seq(Entry)
  BY DEF LimiterInv, Tidy
<1>3. \A e \in Entries(table) : EntryIsRight(e)'
  <2>1. \A e \in Entries(table) : e.last \in Nat
    <3>1. \A e \in Entries(table) : e \in Entry
      BY <1>2, EntriesOf
    <3>2. \A e \in Entry : e.last \in 0 .. MaxTime
      BY DEF Entry, Times
    <3>3. 0 .. MaxTime \subseteq Nat
      BY LimiterAssumption
    <3>. QED
      BY <3>1, <3>2, <3>3
  <2>. QED
    BY <1>1, <2>1 DEF LimiterInv, EntryIsRight
<1>4. \A c \in Clients : ~Known(table, c) => IsForgotten(c)'
  <2> SUFFICES ASSUME NEW c \in Clients, ~Known(table, c), failed[c] # << >>
               PROVE  now' - failed[c][Len(failed[c])] >= FORGET_AFTER
    BY <1>1 DEF IsForgotten
  <2>1. failed[c][Len(failed[c])] \in Nat
    <3>1. failed[c] \in Seq(Times)
      BY DEF LimiterInv
    <3>2. Len(failed[c]) \in Nat \ {0}
      BY <3>1, EmptySeq
    <3>3. failed[c][Len(failed[c])] \in Times
      BY <3>1, <3>2, ElementOfSeq
    <3>. QED
      BY <3>3, LimiterAssumption DEF Times
  <2>2. now - failed[c][Len(failed[c])] >= FORGET_AFTER
    BY DEF LimiterInv, IsForgotten
  <2>. QED
    BY <1>1, <2>1, <2>2, LimiterAssumption
<1>. QED
  BY <1>1, <1>3, <1>4 DEF LimiterInv

(* A failure: the entry that was not expired counts on, any other client   *)
(* starts at one, and room is made at the expense of the oldest.           *)
LEMMA FailureStep ==
  ASSUME LimiterInv, NEW c \in Clients, Failure(c)
  PROVE  LimiterInv'
<1> DEFINE t == Got(c)
           old == IF Known(t, c)
                    THEN t[CHOOSE k \in DOMAIN t : t[k].key = c]
                    ELSE [key |-> c, failures |-> 0, until |-> 0, last |-> now]
           room == IF Known(t, c) THEN Del(t, c) ELSE MakeRoom(t)
           n == old.failures + 1
           evicted == {d \in Clients \ {c} :
                         \E i \in DOMAIN t : t[i].key = d /\ ~Expired(t[i])
                                             /\ ~Known(room, d)}
           until == IF n >= MAX_FAILURES THEN now + Delay(n) ELSE old.until
           new == [old EXCEPT !.failures = n, !.last = now,
                     !.until = IF n >= MAX_FAILURES THEN now + Delay(n) ELSE @]
           h == failed[c]
           g == Append(h, now)
<1>1. /\ ~Blocked(c)
      /\ table' = Append(room, new)
      /\ failed' = [d \in Clients |-> IF d = c THEN Append(failed[d], now)
                                      ELSE IF d \in evicted THEN << >>
                                      ELSE failed[d]]
      /\ now' = now
  BY DEF Failure
<1>2. /\ Tidy(t) /\ Len(t) <= Len(table) /\ Len(t) \in Nat /\ Len(t) <= MAX_CLIENTS
      /\ Entries(t) = {e \in Entries(table) : ~ (e.key = c /\ Expired(e))}
      /\ DOMAIN t = 1 .. Len(t)
  <2>1. Tidy(t) /\ Len(t) <= Len(table)
        /\ Entries(t) = {e \in Entries(table) : ~ (e.key = c /\ Expired(e))}
    BY GotLeaves DEF LimiterInv
  <2> HIDE DEF t
  <2>2. Len(t) \in Nat /\ Len(table) \in Nat /\ DOMAIN t = 1 .. Len(t)
    BY <2>1, LenProperties DEF Tidy, LimiterInv
  <2>. QED
    BY <2>1, <2>2, LimiterAssumption DEF LimiterInv
<1> HIDE DEF t
<1>3. h \in Seq(Times) /\ now \in Times /\ now \in Nat
  BY LimiterAssumption DEF LimiterInv, Times
<1>4. /\ g \in Seq(Times) /\ g # << >> /\ g[Len(g)] = now
      /\ h = << >> \/ now - h[Len(h)] >= FORGET_AFTER => Len(Counted(g)) = 1
      /\ h # << >> /\ ~ (now - h[Len(h)] >= FORGET_AFTER)
           => Len(Counted(g)) = Len(Counted(h)) + 1
  BY <1>3, CountedAppend
<1>5. \A e \in Entries(t) : e \in Entry /\ EntryIsRight(e)
  BY <1>2, EntriesOf DEF LimiterInv, Tidy
<1>6. \A d \in Clients : ~Known(t, d) => IsForgotten(d)
  <2> SUFFICES ASSUME NEW d \in Clients, ~Known(t, d) PROVE IsForgotten(d)
    OBVIOUS
  <2>1. CASE Known(table, d)
    <3>1. PICK e \in Entries(table) : e.key = d
      BY <2>1, EntriesOf DEF LimiterInv, Tidy
    <3>2. Expired(e)
      BY <1>2, <3>1, EntriesOf DEF Tidy
    <3>. QED
      BY <3>1, <3>2 DEF LimiterInv, EntryIsRight, IsForgotten, Expired
  <2>2. CASE ~Known(table, d)
    BY <2>2 DEF LimiterInv
  <2>. QED
    BY <2>1, <2>2
<1> HIDE DEF h, g
<1>7. /\ old = [key |-> c, failures |-> old.failures, until |-> old.until, last |-> old.last]
      /\ n = Len(Counted(g)) /\ n \in Nat \ {0}
      /\ n < MAX_FAILURES => old.until = 0
      /\ Tidy(room) /\ Len(room) < MAX_CLIENTS
      /\ Entries(room) \subseteq {e \in Entries(t) : e.key # c}
      /\ Known(t, c) => Entries(room) = {e \in Entries(t) : e.key # c}
  <2>1. CASE Known(t, c)
    <3>1. PICK k \in 1 .. Len(t) : t[k].key = c /\ old = t[k]
      BY <1>2, <2>1 DEF Known
    <3>2. room = Del(t, c)
      BY <2>1
    <3>3. old \in Entries(t) /\ old \in Entries(table) /\ old.key = c /\ ~Expired(old)
      BY <1>2, <3>1 DEF Entries
    <3> HIDE DEF old, room
    <3>4. /\ h # << >> /\ old.last = h[Len(h)]
          /\ old.failures = Len(Counted(h))
          /\ old.until = IF old.failures >= MAX_FAILURES THEN old.last + Delay(old.failures) ELSE 0
      BY <1>5, <3>3 DEF EntryIsRight, h
    <3>5. old \in Entry /\ old.until \in Int
      BY <1>5, <3>3, LimiterAssumption DEF Entry
    <3>6. old.until <= now
      <4>1. PICK k2 \in 1 .. Len(table) : old = table[k2]
        BY <3>3 DEF Entries
      <4>2. DOMAIN table = 1 .. Len(table)
        BY LenProperties DEF LimiterInv, Tidy
      <4>. QED
        BY <1>1, <1>3, <3>3, <3>5, <4>1, <4>2 DEF Blocked
    <3>7. ~ (now - h[Len(h)] >= FORGET_AFTER)
      BY <3>3, <3>4, <3>6 DEF Expired
    <3>8. Len(Counted(h)) \in Nat \ {0}
      BY <1>3, <3>4, CountedIs
    <3>9. n = Len(Counted(g)) /\ n \in Nat \ {0} /\ (n < MAX_FAILURES => old.until = 0)
      BY <1>4, <3>4, <3>7, <3>8, LimiterAssumption
    <3>10. Tidy(room) /\ Entries(room) = {e \in Entries(t) : e.key # c} /\ Len(room) < Len(t)
      BY <1>2, <2>1, <3>2, DelLeaves
    <3>11. Len(room) < MAX_CLIENTS
      BY <1>2, <3>10, LenProperties, LimiterAssumption DEF Tidy
    <3>12. old = [key |-> c, failures |-> old.failures, until |-> old.until, last |-> old.last]
      BY <3>3, <3>5 DEF Entry
    <3>. QED
      BY <2>1, <3>9, <3>10, <3>11, <3>12
  <2>2. CASE ~Known(t, c)
    <3>1. /\ old = [key |-> c, failures |-> 0, until |-> 0, last |-> now]
          /\ room = MakeRoom(t)
      BY <2>2
    <3>2. n = 1 /\ old.until = 0
      BY <3>1
    <3> HIDE DEF old, room
    <3>3. Len(Counted(g)) = 1
      BY <1>4, <1>6, <2>2 DEF IsForgotten, h
    <3>4. \A e \in Entries(t) : e.key # c
      BY <1>2, <2>2, EntriesOf DEF Tidy
    <3>5. Tidy(room) /\ Len(room) < MAX_CLIENTS /\ Entries(room) \subseteq Entries(t)
      BY <1>2, <3>1, RoomIsMade
    <3>. QED
      BY <2>2, <3>1, <3>2, <3>3, <3>4, <3>5
  <2>. QED
    BY <2>1, <2>2
<1>8. new = [key |-> c, failures |-> n, until |-> until, last |-> now]
  <2> HIDE DEF n
  <2>1. new = [old EXCEPT !.failures = n, !.last = now, !.until = until]
    OBVIOUS
  <2> HIDE DEF new, until, old
  <2>2. PICK a, b, l : old = [key |-> c, failures |-> a, until |-> b, last |-> l]
    BY <1>7
  <2>3. new = [[key |-> c, failures |-> a, until |-> b, last |-> l]
                 EXCEPT !.failures = n, !.last = now, !.until = until]
    BY <2>1, <2>2
  <2>. QED
    BY <2>3
<1>9. until = IF n >= MAX_FAILURES THEN now + Delay(n) ELSE 0
  <2> HIDE DEF n, old
  <2>. QED
    BY <1>7, LimiterAssumption
<1>10. \A d \in Clients : d \in evicted <=> d # c /\ (\E e \in Entries(t) : e.key = d /\ ~Expired(e)) /\ ~Known(room, d)
  <2> HIDE DEF room
  <2>. QED
    BY <1>2 DEF Entries
<1> HIDE DEF old, room, n, until, new, evicted
<1>11. until \in 0 .. (MaxTime + MAX_DELAY)
  BY <1>3, <1>7, <1>9, DelayIs, LimiterAssumption DEF Times
<1>12. new \in Entry /\ new.key = c /\ new.last = now
  BY <1>3, <1>7, <1>8, <1>11 DEF Entry
<1>13. \A e \in Entries(room) : e.key # new.key /\ e.last <= new.last
  BY <1>5, <1>7, <1>12 DEF EntryIsRight
<1>14. /\ Tidy(table') /\ Len(table') = Len(room) + 1
       /\ Entries(table') = Entries(room) \cup {new}
  BY <1>1, <1>7, <1>12, <1>13, TidyAppend
<1>15. Len(table') <= MAX_CLIENTS
  BY <1>7, <1>14, LenProperties, LimiterAssumption DEF Tidy
<1>16. /\ failed' \in [Clients -> Seq(Times)]
       /\ failed'[c] = g
       /\ \A d \in Clients \ {c} : failed'[d] = IF d \in evicted THEN << >> ELSE failed[d]
  BY <1>1, <1>4 DEF LimiterInv, g, h
<1>17. \A e \in Entries(table') : EntryIsRight(e)'
  <2> SUFFICES ASSUME NEW e \in Entries(table') PROVE EntryIsRight(e)'
    OBVIOUS
  <2>1. CASE e = new
    <3>1. /\ e.key = c /\ failed'[e.key] = g
          /\ e.failures = n /\ e.last = now /\ e.until = until
      BY <1>8, <1>16, <2>1
    <3>2. e.failures = Len(Counted(g)) /\ e.last = g[Len(g)]
      BY <1>4, <1>7, <3>1
    <3>3. e.until = IF e.failures >= MAX_FAILURES THEN e.last + Delay(e.failures) ELSE 0
      BY <1>9, <3>1
    <3>4. e.last <= now'
      BY <1>1, <1>3, <3>1
    <3>. QED
      BY <1>4, <3>1, <3>2, <3>3, <3>4 DEF EntryIsRight
  <2>2. CASE e # new
    <3>1. e \in Entries(room) /\ e \in Entries(t) /\ e.key # c /\ EntryIsRight(e) /\ e.key \in Clients
      BY <1>5, <1>7, <1>14, <2>2 DEF Entry
    <3>2. Known(room, e.key)
      BY <1>7, <3>1, EntriesOf DEF Tidy
    <3>3. failed'[e.key] = failed[e.key]
      BY <1>10, <1>16, <3>1, <3>2
    <3>. QED
      BY <1>1, <3>1, <3>3 DEF EntryIsRight
  <2>. QED
    BY <2>1, <2>2
<1>18. ASSUME NEW d \in Clients, ~Known(table', d)
       PROVE  IsForgotten(d)'
  <2>1. d # c /\ ~Known(room, d)
    BY <1>7, <1>12, <1>14, <1>18, EntriesOf DEF Tidy
  <2>2. CASE d \in evicted
    BY <1>16, <2>1, <2>2 DEF IsForgotten
  <2>3. CASE d \notin evicted
    <3>1. failed'[d] = failed[d]
      BY <1>16, <2>1, <2>3
    <3>2. CASE Known(t, d)
      <4>1. PICK e \in Entries(t) : e.key = d
        BY <1>2, <3>2, EntriesOf DEF Tidy
      <4>2. Expired(e)
        BY <1>10, <2>1, <2>3, <4>1
      <4>. QED
        BY <1>1, <1>5, <3>1, <4>1, <4>2 DEF EntryIsRight, IsForgotten, Expired
    <3>3. CASE ~Known(t, d)
      BY <1>1, <1>6, <3>1, <3>3 DEF IsForgotten
    <3>. QED
      BY <3>2, <3>3
  <2>. QED
    BY <2>2, <2>3
<1>. QED
  BY <1>1, <1>3, <1>14, <1>15, <1>16, <1>17, <1>18 DEF LimiterInv

(* Every operation keeps the limiter's invariant.                          *)
LEMMA LimiterStep ==
  ASSUME LimiterInv, [LimiterNext]_limiterVars
  PROVE  LimiterInv'
<1>1. CASE UNCHANGED limiterVars
  BY <1>1 DEF limiterVars, LimiterInv, Tidy, Entries, EntryIsRight, IsForgotten, Known
<1>2. CASE Tick
  BY <1>2, TickStep
<1>3. CASE \E c \in Clients : Check(c) \/ Failure(c) \/ Success(c)
  BY <1>3, CheckStep, FailureStep, SuccessStep
<1>. QED
  BY <1>1, <1>2, <1>3 DEF LimiterNext

(* For any clients, limits and lengths of time that LimiterAssumption      *)
(* allows.                                                                 *)
THEOREM LimiterInvariant == LimiterSpec => []LimiterInv
<1>1. LimiterInit => LimiterInv
  BY LimiterStarts
<1>2. LimiterInv /\ [LimiterNext]_limiterVars => LimiterInv'
  BY LimiterStep
<1>. QED
  BY <1>1, <1>2, PTL DEF LimiterSpec

(* A client that was not evicted is refused (login_limiter.py:62) exactly  *)
(* when its own failures ask for it, whatever other clients do and         *)
(* whenever entries expire or make room.                                   *)
THEOREM BlocksHold == LimiterSpec => []BlockedAsPromised
<1>1. LimiterInv => BlockedAsPromised
  <2> SUFFICES ASSUME LimiterInv, NEW c \in Clients
               PROVE  LET h == Counted(failed[c])
                          n == Len(h)
                      IN Blocked(c) <=> n >= MAX_FAILURES /\ now < h[n] + Delay(n)
    BY DEF BlockedAsPromised
  <2> DEFINE h == failed[c]
             n == Len(Counted(h))
  <2>1. h \in Seq(Times) /\ now \in Nat /\ DOMAIN table = 1 .. Len(table) /\ table \in Seq(Entry)
    BY LimiterAssumption, LenProperties DEF LimiterInv, Times, Tidy
  <2>2. /\ h = << >> => n = 0
        /\ h # << >> => n \in Nat \ {0} /\ Counted(h)[n] = h[Len(h)]
    BY <2>1, CountedIs
  <2>3. h # << >> => h[Len(h)] \in Nat
    <3> SUFFICES ASSUME h # << >> PROVE h[Len(h)] \in Nat
      OBVIOUS
    <3>1. Len(h) \in Nat \ {0}
      BY <2>1, EmptySeq
    <3>2. h[Len(h)] \in Times
      BY <2>1, <3>1, ElementOfSeq
    <3>. QED
      BY <3>2, LimiterAssumption DEF Times
  <2>4. n >= MAX_FAILURES => Delay(n) \in 0 .. MAX_DELAY
    <3>1. n \in Nat
      BY <2>2
    <3> HIDE DEF n
    <3>. QED
      BY <3>1, DelayIs
  <2>5. CASE Known(table, c)
    <3>1. PICK i \in 1 .. Len(table) : table[i].key = c
      BY <2>1, <2>5 DEF Known
    <3> DEFINE e == table[i]
    <3>2. e \in Entries(table) /\ \A j \in 1 .. Len(table) : table[j].key = c => j = i
      BY <2>1, <3>1 DEF Entries, LimiterInv, Tidy
    <3>3. Blocked(c) <=> e.until > now
      BY <2>1, <3>1, <3>2 DEF Blocked
    <3> HIDE DEF e
    <3>4. e.key = c /\ EntryIsRight(e)
      BY <3>1, <3>2 DEF LimiterInv, e
    <3>5. /\ h # << >> /\ e.last = h[Len(h)] /\ e.failures = n
          /\ e.until = IF n >= MAX_FAILURES THEN h[Len(h)] + Delay(n) ELSE 0
      BY <3>4 DEF EntryIsRight
    <3> HIDE DEF h, n
    <3>6. Blocked(c) <=> n >= MAX_FAILURES /\ now < Counted(h)[n] + Delay(n)
      BY <2>1, <2>2, <2>3, <2>4, <3>3, <3>5, LimiterAssumption
    <3>. QED
      BY <3>6 DEF h, n
  <2>6. CASE ~Known(table, c)
    <3>1. ~Blocked(c) /\ IsForgotten(c)
      BY <2>6 DEF Blocked, Known, LimiterInv
    <3>2. h # << >> => now - h[Len(h)] >= FORGET_AFTER
      BY <3>1 DEF IsForgotten
    <3> HIDE DEF h, n
    <3>3. ~ (n >= MAX_FAILURES /\ now < Counted(h)[n] + Delay(n))
      BY <2>1, <2>2, <2>3, <2>4, <3>2, LimiterAssumption
    <3>. QED
      BY <3>1, <3>3 DEF h, n
  <2>. QED
    BY <2>5, <2>6
<1>2. LimiterSpec => []LimiterInv
  BY LimiterInvariant
<1>. QED
  BY <1>1, <1>2, PTL

(* What a step does to a client that has to be remembered.                 *)
LEMMA EvictionStep ==
  ASSUME LimiterInv, LimiterInv', [LimiterNext]_limiterVars,
         NEW c \in Clients, NEW d \in Clients \ {c},
         Len(failed'[c]) > Len(failed[c]), Remembered(d), ~Known(table', d)
  PROVE  /\ Len(table) = MAX_CLIENTS /\ \A i \in DOMAIN table : ~Expired(table[i])
         /\ ~Remembered(c)
         /\ \A e \in Clients \ {d} :
              Remembered(e) => Known(table', e) /\ LastFailure(d) <= LastFailure(e)
<1> DEFINE t == Got(c)
           room == IF Known(t, c) THEN Del(t, c) ELSE MakeRoom(t)
<1>1. Failure(c)
  <2>1. /\ \A b \in Clients : failed[b] \in Seq(Times)
        /\ \A b \in Clients : Len(failed[b]) \in Nat
        /\ Len(<< >>) = 0
    BY LenProperties DEF LimiterInv
  <2>2. ~ UNCHANGED failed
    BY <2>1
  <2>3. ASSUME NEW b \in Clients, Success(b) PROVE FALSE
    <3>1. failed'[c] = IF c = b THEN << >> ELSE failed[c]
      BY <2>3 DEF Success, LimiterInv
    <3>. QED
      BY <2>1, <3>1
  <2>4. ASSUME NEW b \in Clients, Failure(b), b # c PROVE FALSE
    <3>1. failed'[c] = << >> \/ failed'[c] = failed[c]
      BY <2>4 DEF Failure
    <3>. QED
      BY <2>1, <3>1
  <2>. QED
    BY <2>2, <2>3, <2>4 DEF LimiterNext, Tick, Check, limiterVars
<1>2. PICK new : table' = Append(room, new)
  BY <1>1 DEF Failure
<1>3. /\ Tidy(table) /\ table \in Seq(Entry) /\ Len(table) <= MAX_CLIENTS
      /\ Tidy(t) /\ t \in Seq(Entry) /\ Len(t) <= Len(table)
      /\ Entries(t) = {e \in Entries(table) : ~ (e.key = c /\ Expired(e))}
      /\ Len(table) \in Nat /\ Len(t) \in Nat /\ DOMAIN table = 1 .. Len(table)
  BY GotLeaves, LenProperties DEF LimiterInv, Tidy
<1> HIDE DEF t
<1>4. Tidy(room) /\ (Known(t, c) => Entries(room) = {e \in Entries(t) : e.key # c})
  BY <1>3, DelLeaves, RoomIsMade
<1>5. ASSUME NEW e \in Entries(room) PROVE Known(table', e.key)
  <2>1. PICK i \in 1 .. Len(room) : room[i] = e
    BY DEF Entries
  <2>2. table' \in Seq(Entry) /\ room \in Seq(Entry) /\ Len(room) \in Nat
    BY <1>4, LenProperties DEF LimiterInv, Tidy
  <2>3. /\ Len(table') = Len(room) + 1 /\ table'[i] = room[i]
        /\ DOMAIN table' = 1 .. Len(table')
    <3> HIDE DEF room
    <3>. QED
      BY <1>2, <2>1, <2>2
  <2>. QED
    BY <2>1, <2>2, <2>3 DEF Known
<1> HIDE DEF room
<1>6. ASSUME NEW b \in Clients, Remembered(b)
      PROVE  \E e \in Entries(t) : e.key = b /\ ~Expired(e) /\ e.last = LastFailure(b)
  <2>1. PICK e \in Entries(table) : e.key = b /\ ~Expired(e)
    BY <1>3, <1>6 DEF Remembered, Entries
  <2>2. e.last = LastFailure(b)
    BY <2>1 DEF LimiterInv, EntryIsRight, LastFailure
  <2>. QED
    BY <1>3, <2>1, <2>2
<1>7. PICK out \in Entries(t) : out.key = d /\ ~Expired(out) /\ out.last = LastFailure(d)
  BY <1>6
<1>8. out \notin Entries(room)
  BY <1>5, <1>7
<1>9. ~Known(t, c) /\ room = MakeRoom(t)
  BY <1>4, <1>7, <1>8 DEF room
<1>10. /\ Len(t) = MAX_CLIENTS
       /\ \A x \in Entries(t) : ~Expired(x)
       /\ \A x \in Entries(t) \ {out} : x \in Entries(room) /\ out.last <= x.last
  <2>1. Len(t) <= MAX_CLIENTS
    BY <1>3, LimiterAssumption
  <2>. QED
    BY <1>3, <1>7, <1>8, <1>9, <2>1, FirstMakesRoom
<1>11. ~Remembered(c)
  BY <1>3, <1>6, <1>9, EntriesOf
<1>12. Len(table) = MAX_CLIENTS /\ \A i \in DOMAIN table : ~Expired(table[i])
  <2>1. Len(table) = MAX_CLIENTS
    BY <1>3, <1>10, LimiterAssumption
  <2>2. Got(c) = table \/ Len(Got(c)) < Len(table)
    BY <1>3, DelLeaves DEF Got, Known
  <2>3. t = table
    BY <1>3, <1>10, <2>1, <2>2 DEF t
  <2>. QED
    BY <1>3, <1>10, <2>1, <2>3, EntriesOf
<1>13. ASSUME NEW e \in Clients \ {d}, Remembered(e)
       PROVE  Known(table', e) /\ LastFailure(d) <= LastFailure(e)
  <2>1. PICK x \in Entries(t) : x.key = e /\ ~Expired(x) /\ x.last = LastFailure(e)
    BY <1>6, <1>13
  <2>2. x # out
    BY <1>7, <1>13, <2>1
  <2>. QED
    BY <1>5, <1>7, <1>10, <2>1, <2>2
<1>. QED
  BY <1>11, <1>12, <1>13

(* The table stays within MAX_CLIENTS, and the client that the loop at     *)
(* login_limiter.py:105 takes out is the one that failed least recently of *)
(* a table full of clients that have to be remembered.                     *)
THEOREM OldestMakesRoom == LimiterSpec => LeastRecentMakesRoom
<1>1. LimiterInv /\ LimiterInv' /\ [LimiterNext]_limiterVars =>
        /\ Len(table') <= MAX_CLIENTS
        /\ \A c \in Clients : \A d \in Clients \ {c} :
             Len(failed'[c]) > Len(failed[c]) /\ Remembered(d) /\ ~Known(table', d) =>
               /\ Len(table) = MAX_CLIENTS /\ \A i \in DOMAIN table : ~Expired(table[i])
               /\ ~Remembered(c)
               /\ \A e \in Clients \ {d} :
                    Remembered(e) => Known(table', e) /\ LastFailure(d) <= LastFailure(e)
  <2> SUFFICES ASSUME LimiterInv, LimiterInv', [LimiterNext]_limiterVars
               PROVE  /\ Len(table') <= MAX_CLIENTS
                      /\ \A c \in Clients : \A d \in Clients \ {c} :
                           Len(failed'[c]) > Len(failed[c]) /\ Remembered(d)
                             /\ ~Known(table', d) =>
                             /\ Len(table) = MAX_CLIENTS
                             /\ \A i \in DOMAIN table : ~Expired(table[i])
                             /\ ~Remembered(c)
                             /\ \A e \in Clients \ {d} :
                                  Remembered(e) => /\ Known(table', e)
                                                   /\ LastFailure(d) <= LastFailure(e)
    OBVIOUS
  <2>1. Len(table') <= MAX_CLIENTS
    BY DEF LimiterInv
  <2>. QED
    BY <2>1, EvictionStep
<1>2. LimiterSpec => []LimiterInv
  BY LimiterInvariant
<1>. QED
  BY <1>1, <1>2, PTL DEF LimiterSpec, LeastRecentMakesRoom

=============================================================================
