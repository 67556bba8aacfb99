---------------------------- MODULE AuthManager ----------------------------
(***************************************************************************)
(* deluge/core/authmanager.py: the accounts of the daemon.                 *)
(*                                                                         *)
(* The accounts live twice: in the dictionary __auth, which every login    *)
(* is checked against, and in the file "auth", which an administrator may  *)
(* edit while the daemon runs.  The manager polls the modification time of *)
(* the file, re-reads it when the time changed, and writes it after every  *)
(* change asked for by a client.  Whatever changes an account must end the *)
(* sessions that were opened with it: Changed and Ended are the users for  *)
(* which RPCServer.end_user_sessions is called.  RPCServer.tla composes    *)
(* these actions with the sessions themselves.                             *)
(*                                                                         *)
(* All of this runs in the reactor thread without giving up control, so    *)
(* one call is one action; what varies is the file system: a write may     *)
(* fail, and an attempt to read may get the file, only its backup, or      *)
(* neither.  Every line of a file has its three fields: a malformed line   *)
(* is a missing account, and the old two-field format is left out.         *)
(***************************************************************************)
EXTENDS Naturals, FiniteSets

CONSTANTS
  Users,      \* user names
  Local,      \* the user 'localclient'
  Passwords,  \* stored passwords (a hash, or the plain text of localclient)
  Levels,     \* auth levels in use: 0 is AUTH_LEVEL_NONE
  Admin,      \* AUTH_LEVEL_ADMIN
  NoAccount,  \* the user has no entry
  Missing     \* the file does not exist

Reads  == {"file", "backup", "neither"}  \* what can be opened for reading
Writes == {"saved", "failed", "failed after the backup"}

Account == [pw : Passwords, level : Levels]
AccountTables == [Users -> Account \cup {NoAccount}]

ASSUME AuthAssumption ==
  /\ Local \in Users
  /\ Passwords # {}
  /\ Levels \subseteq Nat
  /\ 0 \in Levels
  /\ Admin \in Levels
  /\ Admin > 0
  /\ NoAccount \notin Account
  /\ Missing \notin AccountTables

VARIABLES
  auth,     \* __auth, the accounts in memory
  file,     \* the accounts in the file "auth"
  backup,   \* the accounts in the file "auth.bak"
  current,  \* __auth_modification_time is the time of the file
  torn      \* history: since the file was last read, a save failed or
            \* accounts were loaded while the file could not be opened

authVars == <<auth, file, backup, current, torn>>

AuthTypeOK ==
  /\ auth \in AccountTables
  /\ file \in AccountTables \cup {Missing}
  /\ backup \in AccountTables \cup {Missing}
  /\ current \in BOOLEAN
  /\ torn \in BOOLEAN

-----------------------------------------------------------------------------
(* create_localclient_account: append an administrator with a random token *)
WithLocal(accounts, token) ==
  [accounts EXCEPT ![Local] = [pw |-> token, level |-> Admin]]

(* ... which creates the file when there is none.                          *)
Existing(f, token) ==
  IF f = Missing THEN WithLocal([u \in Users |-> NoAccount], token) ELSE f

(***************************************************************************)
(* What __load_auth_file makes of the memory table and of the file.  seen  *)
(* says how __auth_modification_time stands to the file: "same", "old", or *)
(* "unset" (None), which the method replaces by the time of the file       *)
(* before it reads.  A table without localclient makes it append one to    *)
(* the file and start again: first is what can be opened at first, second  *)
(* after that, token the password of a localclient it creates.             *)
(* (Attempts that find no localclient again append one more, and end as    *)
(* the second does.)  The result says where the accounts are from: from    *)
(* nowhere when the file is skipped, from the file when that could be      *)
(* opened whenever something was read.                                     *)
(***************************************************************************)
Skipped(f, seen) == f # Missing /\ seen = "same"

ReadFrom(f, b, read) ==
  CASE read = "file"                  -> f
    [] read = "backup" /\ b # Missing -> b
    [] OTHER                          -> Missing

(* Nothing can be read, and there are accounts in memory to go on with.    *)
GoesOnWith(mem, content) ==
  content = Missing /\ \E u \in Users : mem[u] # NoAccount

Complete(content) == content # Missing /\ content[Local] # NoAccount

(* The second attempt, after localclient was appended.                     *)
LoadAgain(mem, mended, b, first, second) ==
  LET content == ReadFrom(mended, b, second)
  IN  IF GoesOnWith(mem, content)
      THEN [auth |-> mem, file |-> mended, current |-> FALSE, from |-> "memory"]
      ELSE [auth |-> IF Complete(content) THEN content ELSE mended,
            file |-> mended, current |-> TRUE,
            from |-> IF second = "backup" THEN "backup" ELSE first]

(* What may come of a load that is not skipped, from a file that is there. *)
Load(mem, there, b, unset, first, token) ==
  LET content == ReadFrom(there, b, first)
  IN  IF GoesOnWith(mem, content)
      THEN {[auth |-> mem, file |-> there, current |-> unset, from |-> "memory"]}
      ELSE IF Complete(content)
      THEN {[auth |-> content, file |-> there, current |-> TRUE, from |-> first]}
      ELSE {LoadAgain(mem, WithLocal(there, token), b, first, second) :
              second \in Reads}

Loads(mem, f, b, seen) ==
  IF Skipped(f, seen)
  THEN {[auth |-> mem, file |-> f, current |-> TRUE, from |-> "none"]}
  ELSE UNION {Load(mem, Existing(f, token), b, seen = "unset", first, token) :
                first \in Reads, token \in Passwords}

(* Mutant: only accounts that are still in the file are compared.          *)
ChangedIfPresent(before, after) ==
  {u \in Users : /\ before[u] # NoAccount
                 /\ after[u] # NoAccount
                 /\ after[u] # before[u]}

(* `changed': accounts that left the table or have another password or level *)
Changed(before, after) ==
  {u \in Users : before[u] # NoAccount /\ after[u] # before[u]}

(***************************************************************************)
(* write_auth_file: keep a backup, replace the file, load it again.  When  *)
(* saving fails the modification time is forgotten, so that loading brings *)
(* the memory back to what the file says.                                  *)
(***************************************************************************)
BackedUp(write) ==
  IF write = "failed" \/ file = Missing THEN backup ELSE file

(* Mutant: the modification time is kept when saving fails.                *)
WriteKeepsTime(mem, write) ==
  IF write = "saved"
  THEN Loads(mem, mem, BackedUp(write), "old")
  ELSE Loads(mem, file, BackedUp(write), IF current THEN "same" ELSE "old")

Write(mem, write) ==
  IF write = "saved"
  THEN Loads(mem, mem, BackedUp(write), "old")
  ELSE Loads(mem, file, BackedUp(write), "unset")

(* unsaved: a save just failed.                                            *)
Become(result, unsaved) ==
  /\ auth' = result.auth
  /\ file' = result.file
  /\ current' = result.current
  /\ torn' = CASE result.from = "file"   -> FALSE
               [] result.from = "none"   -> torn
               [] result.from = "memory" -> torn \/ unsaved
               [] OTHER                  -> TRUE

Save(mem, write) ==
  /\ \E result \in Write(mem, write) : Become(result, write # "saved")
  /\ backup' = BackedUp(write)

Seen == IF current THEN "same" ELSE "old"

-----------------------------------------------------------------------------
AuthInit ==
  /\ \E token \in Passwords : file = Existing(Missing, token)
  /\ auth = file
  /\ backup = Missing
  /\ current = TRUE
  /\ torn = FALSE

(* update(), every 10 seconds, and get_known_accounts(): re-read the file   *)
(* when it is gone or its modification time changed.                       *)
Reload ==
  /\ \E result \in Loads(auth, file, backup, Seen) : Become(result, FALSE)
  /\ UNCHANGED backup

(* create_account: refused when the name is in use.                        *)
CreateAccount(u, account, write) ==
  /\ auth[u] = NoAccount
  /\ Save([auth EXCEPT ![u] = account], write)

(* update_account                                                          *)
UpdateAccount(u, account, write) ==
  /\ auth[u] # NoAccount
  /\ Save([auth EXCEPT ![u] = account], write)

(* remove_account: caller is RPCServer.get_session_user().                 *)
RemoveAccount(caller, u, write) ==
  /\ auth[u] # NoAccount
  /\ u # caller
  /\ Save([auth EXCEPT ![u] = NoAccount], write)

(* Whose sessions a request ends that makes u's account the given one:     *)
(* those loading finds changed and, when an account there was is changed   *)
(* or removed, u: an error in saving skips that call of _end_sessions.     *)
Ended(u, account, write) ==
  Changed([auth EXCEPT ![u] = account], auth')
    \cup (IF auth[u] # NoAccount /\ write = "saved" THEN {u} ELSE {})

(* The administrator changes, adds or removes a line of the file, or the   *)
(* whole file; the daemon learns of it from the modification time.         *)
EditFile ==
  /\ current' = FALSE
  /\ \/ /\ file # Missing
        /\ \E u \in Users, account \in Account \cup {NoAccount} :
             file' = [file EXCEPT ![u] = account]
     \/ file' = Missing
  /\ UNCHANGED <<auth, backup, torn>>

=============================================================================
