---------------------------- MODULE MCRPCServer ----------------------------
(* Small instances of the sessions and accounts for TLC.                   *)
EXTENDS RPCServer, TLC

CONSTANTS s1, s2, localclient, alice, p1, p2

(* Sessions and passwords are interchangeable.                             *)
Interchangeable == Permutations(Sessions) \cup Permutations(Passwords)

(* What the session tables depend on: the last caller, the requests that   *)
(* await, the event and the end of the factory are only ever written by    *)
(* steps that no table reads, and the history of a session does not matter *)
(* when it has ended or is unsettled.                                      *)
TablesOnly ==
  <<authVars, connection, level, user, authorized, protocols, interested,
    timed, unsettled \cap protocols,
    [s \in protocols \ unsettled |-> opened[s]]>>

(* Bounds: nobody takes its level from localclient, and at most one session *)
(* at a time is unsettled.                                                  *)
Bounded ==
  /\ \A accounts \in {auth, file, backup} \ {Missing} :
       accounts[Local] # NoAccount => accounts[Local].level = Admin
  /\ Cardinality(unsettled \cap protocols) <= 1

=============================================================================
