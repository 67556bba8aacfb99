----------------------------- MODULE AtomicStore -----------------------------
(***************************************************************************)
(* What the state file promises.  One value is stored; a save takes the    *)
(* value in memory at some moment and later replaces the stored value by   *)
(* it as a whole, or is broken off.  A process that starts again finds     *)
(* what is stored; only when saves were broken off more than once since it *)
(* was stored may it find nothing.  StateStore.tla implements this with    *)
(* three files and renames.                                                *)
(***************************************************************************)
CONSTANTS Values, Empty

VARIABLES
  up,       \* the process is running
  mem,      \* its value
  pending,  \* the value taken by the last save
  stored,   \* the value stored last
  exposed   \* saves were broken off more than once since

vars == <<up, mem, pending, stored, exposed>>

Init ==
  /\ up = FALSE
  /\ mem = Empty
  /\ pending = Empty
  /\ stored = Empty
  /\ exposed = FALSE

Restart ==
  /\ ~up
  /\ up' = TRUE
  /\ mem' = stored \/ (exposed /\ mem' = Empty)
  /\ UNCHANGED <<pending, stored, exposed>>

Change(v) ==
  /\ up
  /\ mem' = v
  /\ UNCHANGED <<up, pending, stored, exposed>>

Take ==
  /\ up
  /\ pending' = mem
  /\ UNCHANGED <<up, mem, stored, exposed>>

Commit ==
  /\ up
  /\ stored' = pending
  /\ exposed' = FALSE
  /\ UNCHANGED <<up, mem, pending>>

(* Another save is broken off while the process goes on.                   *)
BreakOff ==
  /\ up
  /\ exposed' = TRUE
  /\ UNCHANGED <<up, mem, pending, stored>>

(* The process ends or dies, a save perhaps with it.                       *)
GoDown ==
  /\ up
  /\ up' = FALSE
  /\ mem' \in Values
  /\ exposed' \in {exposed, TRUE}
  /\ UNCHANGED <<pending, stored>>

Next ==
  \/ Restart
  \/ \E v \in Values : Change(v)
  \/ Take
  \/ Commit
  \/ BreakOff
  \/ GoDown

Spec == Init /\ [][Next]_vars

=============================================================================
