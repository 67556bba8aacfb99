----------------------------- MODULE StateStore -----------------------------
(***************************************************************************)
(* TorrentManager's state file (deluge/core/torrentmanager.py): how        *)
(* torrents.state is written by a thread, found again after a crash, and   *)
(* how the file .safe_state_check tells a bad shutdown from a good one.    *)
(*                                                                         *)
(* The thread writes torrents.state.tmp, removes torrents.state.bak,       *)
(* renames torrents.state to it and renames the temporary file into place; *)
(* every one of these may fail, and the process may die between any two.   *)
(* Renames are atomic and in order (the process dies, the machine does     *)
(* not); only the temporary file can be left half written.  The reactor    *)
(* thread changes the torrents meanwhile; what the thread sees of torrents *)
(* that come and go while it collects them is in TorrentManager.tla, here  *)
(* it takes the state at one moment.  The fastresume file is written by    *)
(* the same steps.                                                         *)
(***************************************************************************)
EXTENDS Naturals, Sequences

CONSTANTS
  Values,      \* states of the torrents
  Empty,       \* no torrents: TorrentManagerState()
  None,        \* prev_saved_state before the first save
  Absent,      \* there is no such file
  Torn,        \* a file that cannot be unpickled
  Faults,      \* steps of a save that may fail, and the archiving
  Rotate,      \* tarballs archive_files() leaves: rotate
  MaxCrashes   \* bound on the crashes of a behaviour

ASSUME StoreAssumption ==
  /\ Empty \in Values
  /\ None \notin Values
  /\ Absent \notin Values
  /\ Torn \notin Values
  /\ Absent # Torn
  /\ Faults \subseteq {"write", "unbackup", "backup", "replace", "restore",
                      "archive"}
  /\ Rotate \in Nat \ {0}
  /\ MaxCrashes \in Nat

VARIABLES
  phase,     \* "down", "up", "stopping" (stop() awaits the save), "leaving"
             \* (it removes the marker), "exiting" (the threads are awaited)
  mem,       \* the torrents of the session
  prev,      \* prev_saved_state
  saving,    \* is_saving_state
  step,      \* where the saving thread is
  snap,      \* the state it saves
  file,      \* torrents.state
  bak,       \* torrents.state.bak
  tmp,       \* torrents.state.tmp
  marker,    \* .safe_state_check exists
  archive,   \* the tarballs of archive_state(), the oldest first: the states
             \* in each, none in one that was broken off
  crashes,   \* crashes so far
  broken,    \* history: saves broken off since the last good one, 2 for more
  committed, \* history: the last state renamed into place
  archived,  \* history: archivings since a tarball got that state, that one
             \* included, up to Rotate + 1
  unarchived \* history: only the backup held it, and was not archived

disk == <<file, bak, tmp, marker, archive>>
thread == <<step, snap, prev>>
archiving == <<archived, unarchived>>
history == <<broken, committed, archiving>>
vars == <<phase, mem, saving, thread, disk, crashes, history>>

Steps == {"idle", "snapshot", "write", "unbackup", "backup", "replace",
          "restore", "ended"}
Contents == Values \cup {Absent, Torn}

TypeOK ==
  /\ phase \in {"down", "up", "stopping", "leaving", "exiting"}
  /\ mem \in Values
  /\ prev \in Values \cup {None}
  /\ saving \in BOOLEAN
  /\ step \in Steps
  /\ snap \in Values
  /\ file \in Values \cup {Absent}
  /\ bak \in Values \cup {Absent}
  /\ tmp \in Contents
  /\ marker \in BOOLEAN
  /\ archive \in Seq(SUBSET Values)
  /\ Len(archive) <= Rotate
  /\ crashes \in Nat
  /\ broken \in 0 .. 2
  /\ committed \in Values \cup {None}
  /\ archived \in 0 .. Rotate + 1
  /\ unarchived \in BOOLEAN

Init ==
  /\ phase = "down"
  /\ mem = Empty
  /\ prev = None
  /\ saving = FALSE
  /\ step = "idle"
  /\ snap = Empty
  /\ file = Absent
  /\ bak = Absent
  /\ tmp = Absent
  /\ marker = FALSE
  /\ archive = <<>>
  /\ crashes = 0
  /\ broken = 0
  /\ committed = None
  /\ archived = 0
  /\ unarchived = FALSE

-----------------------------------------------------------------------------
(* start(): archive what is there after a bad shutdown, leave the marker,  *)
(* load the state.                                                         *)

(* open_state(): the file, or its backup, or a new state.                  *)
Loadable ==
  CASE file \in Values                      -> file
    [] file \notin Values /\ bak \in Values -> bak
    [] OTHER                                -> Empty

Tarball == {file, bak} \cap Values

(* archive_files() removes the oldest tarball before it writes another.    *)
Rotated == IF Len(archive) < Rotate THEN archive ELSE Tail(archive)

OneMore(n) == IF n > Rotate THEN n ELSE n + 1

(* It logs an error in writing and goes on; the tarball it began may stay. *)
ArchiveState ==
  \/ /\ archive' = Append(Rotated, Tarball)
     /\ archived' = OneMore(archived)
     /\ UNCHANGED unarchived
  \/ /\ "archive" \in Faults
     /\ archive' \in {Rotated, Append(Rotated, {})}
     /\ IF archived = 0
        THEN /\ unarchived' = (unarchived \/ file # committed)
             /\ UNCHANGED archived
        ELSE /\ archived' = OneMore(archived)
             /\ UNCHANGED unarchived

(* Mutant: a bad shutdown is not noticed.                                  *)
StartWithoutArchive ==
  /\ phase = "down"
  /\ phase' = "up"
  /\ marker' = TRUE
  /\ mem' = Loadable
  /\ UNCHANGED <<archive, saving, thread, file, bak, tmp, crashes, history>>

Start ==
  /\ phase = "down"
  /\ phase' = "up"
  /\ IF marker THEN ArchiveState ELSE UNCHANGED <<archive, archiving>>
  /\ marker' = TRUE
  /\ mem' = Loadable
  /\ UNCHANGED <<saving, thread, file, bak, tmp, crashes, broken, committed>>

(* Torrents are added, removed or changed; also while stop() waits.        *)
Change(v) ==
  /\ phase # "down"
  /\ mem' = v
  /\ UNCHANGED <<phase, saving, thread, disk, crashes, history>>

(* save_state(), when no save is running (else the call is ignored).       *)
Begin ==
  /\ saving' = TRUE
  /\ step' = "snapshot"

(* Mutant: the call is skipped whenever a state was saved before.          *)
SaveStateOnce ==
  /\ phase = "up"
  /\ ~saving
  /\ prev = None
  /\ Begin
  /\ UNCHANGED <<phase, mem, snap, prev, disk, crashes, history>>

SaveState ==
  /\ phase = "up"
  /\ ~saving
  /\ Begin
  /\ UNCHANGED <<phase, mem, snap, prev, disk, crashes, history>>

-----------------------------------------------------------------------------
(* _save_state(), in its thread.                                           *)

Fails(s) ==
  /\ s \in Faults
  /\ UNCHANGED <<file, bak, snap, prev, committed>>

BrokenOff == IF broken = 0 THEN 1 ELSE 2

Snapshot ==
  /\ step = "snapshot"
  /\ snap' = mem
  /\ step' = IF prev = mem THEN "ended" ELSE "write"
  /\ UNCHANGED <<phase, mem, prev, saving, disk, crashes, history>>

(* Mutant: the state counts as saved when the temporary file is written.   *)
WriteTemporaryCounts ==
  /\ step = "write"
  /\ tmp' = snap
  /\ prev' = snap
  /\ step' = "unbackup"
  /\ UNCHANGED <<phase, mem, saving, file, bak, snap, committed, marker,
                 archive, crashes, broken, archiving>>

WriteTemporary ==
  /\ step = "write"
  /\ \/ /\ tmp' = snap
        /\ step' = "unbackup"
        /\ UNCHANGED <<file, bak, snap, prev, committed>>
     \/ /\ Fails("write")
        /\ tmp' = Torn
        /\ step' = "ended"
  /\ UNCHANGED <<phase, mem, saving, marker, archive, crashes, broken, archiving>>

RemoveBackup ==
  /\ step = "unbackup"
  /\ \/ /\ bak' = Absent
        /\ step' = "backup"
        /\ UNCHANGED <<file, snap, prev, committed>>
     \/ /\ Fails("unbackup")
        /\ step' = "ended"
  /\ UNCHANGED <<phase, mem, saving, tmp, marker, archive, crashes, broken,
                 archiving>>

(* Mutant: the old file is removed rather than renamed.                    *)
MakeBackupRemoves ==
  /\ step = "backup"
  /\ file' = Absent
  /\ step' = "replace"
  /\ UNCHANGED <<phase, mem, saving, bak, tmp, marker, archive, crashes, snap,
                 prev, history>>

MakeBackup ==
  /\ step = "backup"
  /\ \/ /\ file # Absent
        /\ bak' = file
        /\ file' = Absent
        /\ step' = "replace"
        /\ UNCHANGED <<snap, prev, committed>>
     \/ /\ file = Absent
        /\ step' = "replace"
        /\ UNCHANGED <<file, bak, snap, prev, committed>>
     \/ /\ file # Absent
        /\ Fails("backup")
        /\ step' = "ended"
  /\ UNCHANGED <<phase, mem, saving, tmp, marker, archive, crashes, broken,
                 archiving>>

Replace ==
  /\ step = "replace"
  /\ \/ /\ file' = tmp
        /\ tmp' = Absent
        /\ prev' = snap
        /\ committed' = snap
        /\ broken' = 0
        /\ archived' = 0
        /\ unarchived' = FALSE
        /\ step' = "ended"
        /\ UNCHANGED <<bak, snap>>
     \/ /\ Fails("replace")
        /\ broken' = BrokenOff
        /\ step' = "restore"
        /\ UNCHANGED <<tmp, archiving>>
  /\ UNCHANGED <<phase, mem, saving, marker, archive, crashes>>

Restore ==
  /\ step = "restore"
  /\ step' = "ended"
  /\ \/ /\ bak # Absent
        /\ file' = bak
        /\ bak' = Absent
        /\ UNCHANGED <<snap, prev, committed, unarchived>>
     \/ /\ bak = Absent
        /\ UNCHANGED <<file, bak, snap, prev, committed, unarchived>>
     \/ /\ bak # Absent
        /\ Fails("restore")
        /\ unarchived' = (unarchived \/ archived = 0)
  /\ UNCHANGED <<phase, mem, saving, tmp, marker, archive, crashes, broken,
                 archived>>

(* on_state_saved(), in the reactor thread, whatever the outcome.          *)
StateSaved ==
  /\ step = "ended"
  /\ step' = "idle"
  /\ saving' = FALSE
  /\ phase' = IF phase = "stopping" THEN "leaving" ELSE phase
  /\ UNCHANGED <<mem, snap, prev, disk, crashes, history>>

-----------------------------------------------------------------------------
(* stop(): a last save, which a running one makes it skip.                 *)
Stop ==
  /\ phase = "up"
  /\ \/ /\ ~saving
        /\ Begin
        /\ phase' = "stopping"
     \/ /\ saving
        /\ phase' = "leaving"
        /\ UNCHANGED <<saving, step>>
  /\ UNCHANGED <<mem, snap, prev, disk, crashes, history>>

(* The end of stop(): the resume data are saved or not, and the marker is  *)
(* removed if they are, also while the save goes on that stop() skipped.   *)
StopEnds ==
  /\ phase = "leaving"
  /\ phase' = "exiting"
  /\ marker' \in {FALSE, marker}
  /\ UNCHANGED <<mem, saving, thread, file, bak, tmp, archive, crashes, history>>

(* The process waits for its threads.                                      *)
Leave ==
  /\ phase = "exiting"
  /\ step = "idle"
  /\ phase' = "down"
  /\ prev' = None
  /\ UNCHANGED <<mem, saving, step, snap, disk, crashes, history>>

(* The process dies.  Without the marker the next start does not see it.   *)
Crash ==
  /\ phase # "down"
  /\ crashes < MaxCrashes
  /\ crashes' = crashes + 1
  /\ phase' = "down"
  /\ mem' = Empty
  /\ prev' = None
  /\ saving' = FALSE
  /\ step' = "idle"
  /\ tmp' \in IF step = "write" THEN {tmp, Torn} ELSE {tmp}
  /\ broken' = IF step = "idle" THEN broken ELSE BrokenOff
  /\ unarchived' = (unarchived \/ (~marker /\ file # committed /\ archived = 0))
  /\ UNCHANGED <<snap, file, bak, marker, archive, committed, archived>>

Next ==
  \/ Start
  \/ \E v \in Values : Change(v)
  \/ SaveState
  \/ Snapshot \/ WriteTemporary \/ RemoveBackup \/ MakeBackup
  \/ Replace \/ Restore \/ StateSaved
  \/ Stop \/ StopEnds \/ Leave \/ Crash

Spec == Init /\ [][Next]_vars

(* The thread runs, and the LoopingCall of 200 seconds calls save_state(). *)
Fairness ==
  /\ WF_vars(SaveState)
  /\ WF_vars(Snapshot \/ WriteTemporary \/ RemoveBackup \/ MakeBackup
               \/ Replace \/ Restore \/ StateSaved)

FairSpec == Spec /\ Fairness

-----------------------------------------------------------------------------
(* prev_saved_state, which decides that a save is not needed, is what a    *)
(* restart would load, at every step of the thread and after every fault   *)
(* but one of the rename that restores a backup.                           *)
PrevIsOnDisk == prev # None => Loadable = prev

InArchive(v) == \E i \in 1 .. Len(archive) : v \in archive[i]

(* The state saved last is in the file, its backup or an archive, however  *)
(* many saves are broken off after it, if what was left of it in the       *)
(* backup alone was archived, and until Rotate more archives were made.    *)
SavedStateSurvives ==
  committed # None /\ ~unarchived /\ archived <= Rotate
    => committed \in {file, bak} \/ InArchive(committed)

(* One save broken off is harmless, wherever it breaks: a restart finds the *)
(* state that was saved last, as if it were in one place that is replaced  *)
(* as a whole.  After a second one it may find no torrents.                *)
LastSaved == IF committed = None THEN Empty ELSE committed
Store == INSTANCE AtomicStore WITH up <- phase # "down",
                                   pending <- snap,
                                   stored <- LastSaved,
                                   exposed <- broken = 2
IsAtomicStore == Store!Spec

(* A step of the thread that fails.                                        *)
Failure ==
  \/ step \in {"write", "unbackup", "backup"} /\ step' = "ended"
  \/ step = "replace" /\ step' = "restore"

(* The torrents, once they stay as they are and the steps of a save no     *)
(* longer fail, get to the file, whatever failed before but the rename     *)
(* that restores a backup: is_saving_state is reset and prev_saved_state   *)
(* forgets what did not reach the disk.                                    *)
ChangesReachTheFile ==
  <>[][~Failure]_vars =>
    \A v \in Values : <>[](mem = v /\ phase = "up") => <>(file = v)

(* "Remove the temp_file to signify successfully saved state": without the *)
(* marker, the state that the last save took is the one on disk.           *)
CleanShutdownIsSaved ==
  phase = "down" /\ ~marker => Loadable = snap

=============================================================================
