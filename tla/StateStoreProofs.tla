-------------------------- MODULE StateStoreProofs --------------------------
(***************************************************************************)
(* Proofs about the state file, for any set of states and any number of    *)
(* crashes: the refinement of AtomicStore and what the archives keep for   *)
(* every fault, and the check that skips a save for every fault but that   *)
(* of the rename that restores a backup.                                   *)
(***************************************************************************)
EXTENDS StateStore, TLAPS

(* The thread is between the two renames: the file has become the backup.  *)
Between == step \in {"replace", "restore"}

(* The temporary file is complete when it is renamed.                      *)
TmpInv == step \in {"unbackup", "backup", "replace"} => tmp = snap

(* The tarballs, and the count of them.                                    *)
ArchiveTypes ==
  /\ archive \in Seq(SUBSET Values)
  /\ Len(archive) <= Rotate
  /\ archived \in 0 .. Rotate + 1
  /\ unarchived \in BOOLEAN

(* Removing the oldest tarball makes room for another.                     *)
LEMMA RotatedHasRoom ==
  ASSUME TypeOK
  PROVE  Rotated \in Seq(SUBSET Values) /\ Len(Rotated) + 1 <= Rotate
<1>1. /\ archive \in Seq(SUBSET Values) /\ Len(archive) <= Rotate
      /\ Rotate \in Nat \ {0}
  BY StoreAssumption DEF TypeOK
<1>2. CASE Len(archive) < Rotate
  BY <1>1, <1>2 DEF Rotated
<1>3. CASE ~(Len(archive) < Rotate)
  <2>1. Len(archive) = Rotate /\ archive # <<>>
    BY <1>1, <1>3
  <2>2. /\ Tail(archive) \in Seq(SUBSET Values)
        /\ Len(Tail(archive)) = Len(archive) - 1
    BY <1>1, <2>1
  <2>3. QED
    BY <1>1, <1>3, <2>1, <2>2 DEF Rotated
<1>4. QED
  BY <1>2, <1>3

(* One more tarball of the states in S.                                    *)
LEMMA RotatedGrows ==
  ASSUME TypeOK, NEW S \in SUBSET Values
  PROVE  /\ Append(Rotated, S) \in Seq(SUBSET Values)
         /\ Len(Append(Rotated, S)) = Len(Rotated) + 1
  BY RotatedHasRoom

(* Archiving keeps the types.                                              *)
LEMMA ArchivingTypes ==
  ASSUME TypeOK, ArchiveState
  PROVE  ArchiveTypes'
<1>1. PICK S \in SUBSET Values : archive' \in {Rotated, Append(Rotated, S)}
  BY DEF ArchiveState, Tarball
<1>2. archive' \in Seq(SUBSET Values) /\ Len(archive') <= Rotate
  <2>1. Rotate \in Nat
    BY StoreAssumption
  <2>2. Len(Rotated) \in Nat
    BY RotatedHasRoom
  <2>3. QED
    BY <1>1, <2>1, <2>2, RotatedHasRoom, RotatedGrows
<1>3. archived' \in 0 .. Rotate + 1
  <2>1. archived' \in {archived, OneMore(archived)}
    BY DEF ArchiveState
  <2>2. QED
    BY <2>1, StoreAssumption DEF TypeOK, OneMore
<1>4. unarchived' \in BOOLEAN
  <2>1. unarchived' = unarchived \/ unarchived' = (unarchived \/ file # committed)
    BY Zenon DEF ArchiveState
  <2>2. QED
    BY <2>1, Zenon DEF TypeOK
<1>5. QED
  BY <1>2, <1>3, <1>4 DEF ArchiveTypes

(* No other step writes a tarball; those that end a save, or end with it,  *)
(* set what the history tells of them.                                     *)
LEMMA ArchivesKept ==
  ASSUME TypeOK, [Next]_vars, ~(Start /\ marker)
  PROVE  /\ UNCHANGED archive
         /\ \/ UNCHANGED archiving
            \/ Replace /\ archived' = 0 /\ unarchived' = FALSE
            \/ /\ Restore \/ Crash
               /\ UNCHANGED archived
               /\ unarchived' \in BOOLEAN
<1>1. CASE Start
  BY <1>1 DEF Start
<1>2. CASE Replace
  BY <1>2 DEF Replace, archiving
<1>3. CASE Restore
  <2>1. UNCHANGED <<archive, archived>>
    BY <1>3 DEF Restore
  <2>2. unarchived' = unarchived \/ unarchived' = (unarchived \/ archived = 0)
    BY <1>3, Zenon DEF Restore
  <2>3. unarchived' \in BOOLEAN
    BY <2>2, Zenon DEF TypeOK
  <2>4. QED
    BY <1>3, <2>1, <2>3
<1>4. CASE Crash
  <2>1. UNCHANGED <<archive, archived>>
    BY <1>4 DEF Crash
  <2>2. unarchived' \in BOOLEAN
    BY <1>4, Zenon DEF Crash, TypeOK
  <2>3. QED
    BY <1>4, <2>1, <2>2
<1>5. CASE \/ \E v \in Values : Change(v)
           \/ SaveState \/ Snapshot \/ StateSaved \/ Stop \/ StopEnds
           \/ Leave \/ UNCHANGED vars
  BY <1>5
    DEF Change, SaveState, Snapshot, StateSaved, Stop, StopEnds, Leave, vars,
        disk, history
<1>6. CASE WriteTemporary \/ RemoveBackup \/ MakeBackup
  BY <1>6 DEF WriteTemporary, RemoveBackup, MakeBackup
<1>7. QED
  BY <1>1, <1>2, <1>3, <1>4, <1>5, <1>6 DEF Next

(* So the types of the archive hold after every step.                      *)
LEMMA ArchiveTypesKept ==
  ASSUME TypeOK, [Next]_vars
  PROVE  ArchiveTypes'
<1>1. CASE Start /\ marker
  BY <1>1, ArchivingTypes DEF Start
<1>2. CASE ~(Start /\ marker)
  <2>1. archive' = archive /\ archived' \in {archived, 0}
    BY <1>2, ArchivesKept DEF archiving
  <2>2. unarchived' = unarchived \/ unarchived' = FALSE \/ unarchived' \in BOOLEAN
    BY <1>2, ArchivesKept, Zenon DEF archiving
  <2>3. unarchived' \in BOOLEAN
    BY <2>2, Zenon DEF TypeOK
  <2>4. archived' \in 0 .. Rotate + 1
    BY <2>1, StoreAssumption DEF TypeOK
  <2>5. QED
    BY <2>1, <2>3, <2>4 DEF ArchiveTypes, TypeOK
<1>3. QED
  BY <1>1, <1>2

(* The types hold at first, and there is no temporary file to rename.      *)
LEMMA InitTypes == Init => TypeOK /\ TmpInv
<1> SUFFICES ASSUME Init
             PROVE  TypeOK /\ TmpInv
  OBVIOUS
<1>1. saving \in BOOLEAN /\ marker \in BOOLEAN /\ unarchived \in BOOLEAN
  BY DEF Init
<1>2. QED
  BY <1>1, StoreAssumption DEF Init, TypeOK, Steps, Contents, TmpInv

(* The types of the variables, by action.                                  *)
LEMMA TypesKept == TypeOK /\ TmpInv /\ [Next]_vars => TypeOK' /\ TmpInv'
<1> SUFFICES ASSUME TypeOK, TmpInv, [Next]_vars
             PROVE  TypeOK' /\ TmpInv'
  OBVIOUS
<1> USE StoreAssumption
<1>0. ArchiveTypes'
  BY ArchiveTypesKept
<1>1. CASE Start
  <2>1. /\ phase' = "up" /\ mem' = Loadable
        /\ UNCHANGED <<step, snap, prev, file, bak, tmp, crashes, broken, committed>>
    BY <1>1 DEF Start, thread
  <2>2. marker' = TRUE /\ saving' = saving
    BY <1>1 DEF Start
  <2>3. mem' \in Values
    BY <2>1 DEF TypeOK, Loadable
  <2>4. marker' \in BOOLEAN /\ saving' \in BOOLEAN
    BY <2>2 DEF TypeOK
  <2>5. QED
    BY <1>0, <2>1, <2>3, <2>4 DEF TypeOK, ArchiveTypes, TmpInv
<1>2. CASE \E v \in Values : Change(v)
  <2>1. /\ mem' \in Values
        /\ UNCHANGED <<phase, step, snap, prev, file, bak, tmp, crashes,
                       broken, committed>>
    BY <1>2 DEF Change, thread, disk, history
  <2>2. marker' \in BOOLEAN /\ saving' \in BOOLEAN
    BY <1>2 DEF Change, disk, TypeOK
  <2>3. QED
    BY <1>0, <2>1, <2>2 DEF TypeOK, ArchiveTypes, TmpInv
<1>3. CASE SaveState \/ Stop
  <2>1. /\ UNCHANGED <<mem, snap, prev, file, bak, tmp, crashes, broken,
                       committed>>
        /\ phase' \in {"up", "stopping", "leaving"}
        /\ step' \in {step, "snapshot"}
    BY <1>3 DEF SaveState, Stop, Begin, disk, history
  <2>2. saving' \in BOOLEAN /\ marker' \in BOOLEAN
    BY <1>3 DEF SaveState, Stop, Begin, disk, TypeOK
  <2>3. QED
    BY <1>0, <2>1, <2>2 DEF TypeOK, ArchiveTypes, TmpInv, Steps
<1>4. CASE Snapshot \/ WriteTemporary
  <2>1. /\ UNCHANGED <<phase, mem, prev, file, bak, crashes, broken,
                       committed>>
        /\ snap' \in {snap, mem}
        /\ \/ step' \in {"ended", "write"} /\ tmp' \in {tmp, Torn}
           \/ step' = "unbackup" /\ tmp' = snap /\ snap' = snap
    BY <1>4 DEF Snapshot, WriteTemporary, Fails, disk, history
  <2>2. saving' \in BOOLEAN /\ marker' \in BOOLEAN
    BY <1>4 DEF Snapshot, WriteTemporary, disk, TypeOK
  <2>3. QED
    BY <1>0, <2>1, <2>2 DEF TypeOK, ArchiveTypes, TmpInv, Steps, Contents
<1>5. CASE RemoveBackup \/ MakeBackup
  <2>1. /\ UNCHANGED <<phase, mem, snap, prev, tmp, crashes, broken,
                       committed>>
        /\ file' \in {file, Absent} /\ bak' \in {bak, file, Absent}
        /\ step' \in {"backup", "replace", "ended"}
        /\ step \in {"unbackup", "backup"}
    BY <1>5 DEF RemoveBackup, MakeBackup, Fails
  <2>2. saving' \in BOOLEAN /\ marker' \in BOOLEAN
    BY <1>5 DEF RemoveBackup, MakeBackup, TypeOK
  <2>3. QED
    BY <1>0, <2>1, <2>2 DEF TypeOK, ArchiveTypes, TmpInv, Steps
<1>6. CASE Replace
  <2>1. /\ UNCHANGED <<phase, mem, snap, bak, crashes>>
        /\ tmp = snap
        /\ file' \in {file, tmp} /\ tmp' \in {tmp, Absent}
        /\ prev' \in {prev, snap} /\ committed' \in {committed, snap}
        /\ step' \in {"ended", "restore"}
    BY <1>6 DEF Replace, Fails, TmpInv
  <2>2. saving' \in BOOLEAN /\ marker' \in BOOLEAN
    BY <1>6 DEF Replace, TypeOK
  <2>3. broken' \in 0 .. 2
    BY <1>6 DEF Replace, BrokenOff
  <2>4. QED
    BY <1>0, <2>1, <2>2, <2>3 DEF TypeOK, ArchiveTypes, TmpInv, Steps, Contents
<1>7. CASE Restore
  <2>1. /\ UNCHANGED <<phase, mem, snap, prev, tmp, crashes, broken,
                       committed>>
        /\ file' \in {file, bak} /\ bak' \in {bak, Absent}
        /\ step' = "ended"
    BY <1>7 DEF Restore, Fails
  <2>2. saving' \in BOOLEAN /\ marker' \in BOOLEAN
    BY <1>7 DEF Restore, TypeOK
  <2>3. QED
    BY <1>0, <2>1, <2>2 DEF TypeOK, ArchiveTypes, TmpInv, Steps
<1>8. CASE StateSaved \/ StopEnds \/ Leave
  <2>1. /\ UNCHANGED <<mem, snap, file, bak, tmp, crashes, broken,
                       committed>>
        /\ prev' \in {prev, None} /\ step' \in {step, "idle"}
        /\ phase' \in {phase, "leaving", "exiting", "down"}
    BY <1>8 DEF StateSaved, StopEnds, Leave, thread, disk, history
  <2>2. saving' \in BOOLEAN /\ marker' \in BOOLEAN
    BY <1>8 DEF StateSaved, StopEnds, Leave, thread, disk, history, TypeOK
  <2>3. QED
    BY <1>0, <2>1, <2>2 DEF TypeOK, ArchiveTypes, TmpInv, Steps
<1>9. CASE Crash
  <2>1. /\ UNCHANGED <<snap, file, bak, committed>>
        /\ phase' = "down" /\ prev' = None /\ step' = "idle" /\ mem' = Empty
        /\ crashes' = crashes + 1
        /\ tmp' \in {tmp, Torn}
    BY <1>9 DEF Crash
  <2>2. saving' \in BOOLEAN /\ marker' \in BOOLEAN
    BY <1>9 DEF Crash, TypeOK
  <2>3. broken' \in 0 .. 2
    BY <1>9 DEF Crash, BrokenOff, TypeOK
  <2>4. QED
    BY <1>0, <2>1, <2>2, <2>3 DEF TypeOK, ArchiveTypes, TmpInv, Steps, Contents
<1>10. CASE UNCHANGED vars
  <2>1. UNCHANGED <<phase, mem, step, snap, prev, file, bak, tmp, crashes, broken, committed>>
    BY <1>10 DEF vars, thread, disk, history
  <2>2. saving' \in BOOLEAN /\ marker' \in BOOLEAN
    BY <1>10 DEF vars, disk, TypeOK
  <2>3. QED
    BY <1>0, <2>1, <2>2 DEF TypeOK, ArchiveTypes, TmpInv
<1>11. QED
  BY <1>1, <1>2, <1>3, <1>4, <1>5, <1>6, <1>7, <1>8, <1>9, <1>10 DEF Next

-----------------------------------------------------------------------------
(* The refinement of AtomicStore, for every set of faults, that of the     *)
(* restoring rename among them.  Its invariant says where the state that   *)
(* was saved last is by how many saves were broken off since.              *)

(* What a file that holds the state saved last holds: nothing before the   *)
(* first save.                                                             *)
Current == IF committed = None THEN Absent ELSE committed

(* No file holds another state than that one, but a backup that is not     *)
(* needed; nothing is in the way of the renames.                           *)
PlaceInv ==
  /\ file \in {Current, Absent}
  /\ file = Absent => bak \in {Current, Absent}
  /\ step = "backup" => bak = Absent
  /\ Between => file = Absent

(* As long as no save was broken off it is in its place; after one that    *)
(* was, it can be loaded, until the next save removes the backup.          *)
ReachInv ==
  /\ broken = 0 => /\ step # "restore"
                   /\ IF step = "replace" THEN bak = Current ELSE file = Current
  /\ broken = 1 /\ step \notin {"backup", "replace"} => Loadable = LastSaved

(* A save is under way only in a process that runs.                        *)
AliveInv == step # "idle" => phase # "down" /\ saving

StoreInv == TypeOK /\ TmpInv /\ PlaceInv /\ ReachInv /\ AliveInv

(* Where the state saved last is after each step of the thread, the other  *)
(* thread and a crash.                                                     *)
LEMMA PlacesKept ==
  TypeOK /\ TmpInv /\ PlaceInv /\ ReachInv /\ AliveInv /\ [Next]_vars
    => PlaceInv' /\ ReachInv' /\ AliveInv'
<1> SUFFICES ASSUME TypeOK, TmpInv, PlaceInv, ReachInv, AliveInv, [Next]_vars
             PROVE  PlaceInv' /\ ReachInv' /\ AliveInv'
  OBVIOUS
<1> USE StoreAssumption
<1>1. CASE Start
  <2>1. UNCHANGED <<step, file, bak, broken, committed>> /\ phase' = "up"
    BY <1>1 DEF Start, thread
  <2>2. saving' = saving
    BY <1>1 DEF Start
  <2>3. PlaceInv' /\ ReachInv'
    BY <2>1 DEF PlaceInv, ReachInv, Loadable, LastSaved, Current, Between
  <2>4. AliveInv'
    BY <2>1, <2>2 DEF AliveInv
  <2>5. QED
    BY <2>3, <2>4
<1>2. CASE \E v \in Values : Change(v)
  <2>1. UNCHANGED <<step, file, bak, broken, committed, phase>>
    BY <1>2 DEF Change, thread, disk, history
  <2>2. saving' = saving
    BY <1>2 DEF Change
  <2>3. PlaceInv' /\ ReachInv'
    BY <2>1 DEF PlaceInv, ReachInv, Loadable, LastSaved, Current, Between
  <2>4. AliveInv'
    BY <2>1, <2>2 DEF AliveInv
  <2>5. QED
    BY <2>3, <2>4
<1>3. CASE SaveState \/ Stop
  <2>1. UNCHANGED <<file, bak, broken, committed>> /\ phase' # "down"
    BY <1>3 DEF SaveState, Stop, disk, history
  <2>2. \/ step = "idle" /\ step' = "snapshot" /\ saving'
        \/ step' = step /\ saving' = saving
    BY <1>3 DEF SaveState, Stop, Begin, AliveInv
  <2>3. PlaceInv' /\ ReachInv'
    BY <2>1, <2>2 DEF PlaceInv, ReachInv, Loadable, LastSaved, Current, Between
  <2>4. AliveInv'
    BY <2>1, <2>2 DEF AliveInv
  <2>5. QED
    BY <2>3, <2>4
<1>4. CASE Snapshot \/ WriteTemporary \/ StateSaved
  <2>1. /\ UNCHANGED <<file, bak, broken, committed>>
        /\ step \in {"snapshot", "write", "ended"}
        /\ step' \in {"write", "unbackup", "ended", "idle"}
        /\ phase' \in {phase, "leaving"}
    BY <1>4 DEF Snapshot, WriteTemporary, StateSaved, Fails, disk, history
  <2>2. step' # "idle" => saving' = saving
    BY <1>4 DEF Snapshot, WriteTemporary, StateSaved
  <2>3. PlaceInv' /\ ReachInv'
    BY <2>1 DEF PlaceInv, ReachInv, Loadable, LastSaved, Current, Between
  <2>4. AliveInv'
    BY <2>1, <2>2 DEF AliveInv
  <2>5. QED
    BY <2>3, <2>4
<1>5. CASE RemoveBackup
  <2>1. /\ UNCHANGED <<file, broken, committed, phase>>
        /\ step = "unbackup"
        /\ \/ step' = "backup" /\ bak' = Absent
           \/ step' = "ended" /\ bak' = bak
    BY <1>5 DEF RemoveBackup, Fails
  <2>2. saving' = saving
    BY <1>5 DEF RemoveBackup
  <2>3. PlaceInv' /\ ReachInv'
    BY <2>1 DEF PlaceInv, ReachInv, Loadable, LastSaved, Current, Between
  <2>4. AliveInv'
    BY <2>1, <2>2 DEF AliveInv
  <2>5. QED
    BY <2>3, <2>4
<1>6. CASE MakeBackup
  <2>1. /\ UNCHANGED <<broken, committed, phase>>
        /\ step = "backup" /\ bak = Absent
        /\ \/ file # Absent /\ step' = "replace" /\ bak' = file /\ file' = Absent
           \/ file = Absent /\ step' = "replace" /\ UNCHANGED <<file, bak>>
           \/ file # Absent /\ step' = "ended" /\ UNCHANGED <<file, bak>>
    BY <1>6 DEF MakeBackup, Fails, PlaceInv
  <2>2. saving' = saving
    BY <1>6 DEF MakeBackup
  <2>3. PlaceInv'
    BY <2>1 DEF PlaceInv, Current, Between
  <2>4. ReachInv'
    BY <2>1 DEF PlaceInv, ReachInv, Loadable, LastSaved, Current, Between, TypeOK
  <2>5. AliveInv'
    BY <2>1, <2>2 DEF AliveInv
  <2>6. QED
    BY <2>3, <2>4, <2>5
<1>7. CASE Replace
  <2>1. UNCHANGED <<bak, phase>> /\ step = "replace" /\ tmp = snap
    BY <1>7 DEF Replace, Fails, TmpInv
  <2>2. \/ step' = "ended" /\ file' = snap /\ committed' = snap /\ broken' = 0
        \/ step' = "restore" /\ UNCHANGED <<file, committed>> /\ broken' = BrokenOff
    BY <1>7 DEF Replace, Fails, TmpInv
  <2>3. saving' = saving
    BY <1>7 DEF Replace
  <2>4. PlaceInv'
    BY <2>1, <2>2 DEF PlaceInv, Current, Between, TypeOK
  <2>5. ReachInv'
    BY <2>1, <2>2
      DEF PlaceInv, ReachInv, Loadable, LastSaved, Current, Between, TypeOK, BrokenOff
  <2>6. AliveInv'
    BY <2>1, <2>2, <2>3 DEF AliveInv
  <2>7. QED
    BY <2>4, <2>5, <2>6
<1>8. CASE Restore
  <2>1. /\ UNCHANGED <<broken, committed, phase>>
        /\ step = "restore" /\ step' = "ended" /\ file = Absent
        /\ \/ bak # Absent /\ file' = bak /\ bak' = Absent
           \/ UNCHANGED <<file, bak>>
    BY <1>8 DEF Restore, Fails, PlaceInv, Between
  <2>2. saving' = saving
    BY <1>8 DEF Restore
  <2>3. PlaceInv'
    BY <2>1 DEF PlaceInv, Current, Between, TypeOK
  <2>4. ReachInv'
    BY <2>1 DEF PlaceInv, ReachInv, Loadable, LastSaved, Current, Between, TypeOK
  <2>5. AliveInv'
    BY <2>1, <2>2 DEF AliveInv
  <2>6. QED
    BY <2>3, <2>4, <2>5
<1>9. CASE Leave \/ StopEnds
  <2>1. /\ UNCHANGED <<file, bak, broken, committed, step>>
        /\ step' # "idle" => phase' # "down"
    BY <1>9 DEF Leave, StopEnds, disk, thread, history
  <2>0. saving' = saving
    BY <1>9 DEF Leave, StopEnds
  <2>2. QED
    BY <2>0, <2>1
      DEF PlaceInv, ReachInv, AliveInv, Loadable, LastSaved, Current, Between
<1>10. CASE Crash
  <2>1. /\ UNCHANGED <<file, bak, committed>> /\ step' = "idle"
        /\ broken' = IF step = "idle" THEN broken ELSE BrokenOff
    BY <1>10 DEF Crash
  <2>2. PlaceInv' /\ AliveInv'
    BY <2>1 DEF PlaceInv, AliveInv, Current, Between
  <2>3. ReachInv'
    BY <2>1
      DEF PlaceInv, ReachInv, Loadable, LastSaved, Current, Between, TypeOK, BrokenOff
  <2>4. QED
    BY <2>2, <2>3
<1>11. CASE UNCHANGED vars
  <2>1. UNCHANGED <<step, file, bak, broken, committed, phase>>
    BY <1>11 DEF vars, thread, disk, history
  <2>2. saving' = saving
    BY <1>11 DEF vars
  <2>3. PlaceInv' /\ ReachInv'
    BY <2>1 DEF PlaceInv, ReachInv, Loadable, LastSaved, Current, Between
  <2>4. AliveInv'
    BY <2>1, <2>2 DEF AliveInv
  <2>5. QED
    BY <2>3, <2>4
<1>12. QED
  BY <1>1, <1>2, <1>3, <1>4, <1>5, <1>6, <1>7, <1>8, <1>9, <1>10, <1>11 DEF Next

(* What a save broken off does to the count of them.                       *)
LEMMA ExposedStays ==
  ASSUME TypeOK, broken' \in {broken, BrokenOff}
  PROVE  broken = 2 => broken' = 2
  BY DEF TypeOK, BrokenOff

(* Every step is one of the abstract store, or none.                       *)
LEMMA StoreStep ==
  ASSUME StoreInv, [Next]_vars
  PROVE  [Store!Next]_(Store!vars)
<1> USE StoreAssumption
<1>0. TypeOK
  BY DEF StoreInv
<1>1. CASE Start
  <2>1. /\ phase = "down" /\ phase' = "up" /\ mem' = Loadable
        /\ UNCHANGED <<step, snap, file, bak, broken, committed>>
    BY <1>1 DEF Start, thread
  <2>2. step = "idle"
    BY <2>1 DEF StoreInv, AliveInv
  <2>3. CASE broken = 2
    <3>1. Loadable \in {LastSaved, Empty}
      BY <1>0, <2>2 DEF StoreInv, PlaceInv, Loadable, LastSaved, Current, TypeOK
    <3>2. Store!Restart
      BY <2>1, <2>3, <3>1 DEF Store!Restart, LastSaved
    <3>3. QED
      BY <3>2 DEF Store!Next
  <2>4. CASE broken # 2
    <3>1. broken = 0 \/ broken = 1
      BY <1>0, <2>4 DEF TypeOK
    <3>2. Loadable = LastSaved
      BY <1>0, <2>2, <3>1
        DEF StoreInv, PlaceInv, ReachInv, Loadable, LastSaved, Current, TypeOK
    <3>3. Store!Restart
      BY <2>1, <2>4, <3>2 DEF Store!Restart, LastSaved
    <3>4. QED
      BY <3>3 DEF Store!Next
  <2>5. QED
    BY <2>3, <2>4
<1>2. CASE \E v \in Values : Change(v)
  <2>1. PICK v \in Values : Change(v)
    BY <1>2
  <2>2. /\ phase # "down" /\ mem' = v
        /\ UNCHANGED <<phase, snap, broken, committed>>
    BY <2>1 DEF Change, thread, history
  <2>3. Store!Change(v)
    BY <2>2 DEF Store!Change, LastSaved
  <2>4. QED
    BY <2>3 DEF Store!Next
<1>3. CASE Snapshot
  <2>1. /\ step = "snapshot" /\ snap' = mem
        /\ UNCHANGED <<phase, mem, broken, committed>>
    BY <1>3 DEF Snapshot, history
  <2>2. Store!Take
    BY <2>1 DEF Store!Take, LastSaved, StoreInv, AliveInv
  <2>3. QED
    BY <2>2 DEF Store!Next
<1>4. CASE Replace
  <2>1. /\ step = "replace" /\ UNCHANGED <<phase, mem, snap>>
        /\ \/ committed' = snap /\ broken' = 0
           \/ committed' = committed /\ broken' = BrokenOff
    BY <1>4 DEF Replace, Fails
  <2>2. phase # "down"
    BY <2>1 DEF StoreInv, AliveInv
  <2>3. CASE committed' = snap /\ broken' = 0
    <3>1. Store!Commit
      BY <1>0, <2>1, <2>2, <2>3 DEF Store!Commit, LastSaved, TypeOK
    <3>2. QED
      BY <3>1 DEF Store!Next
  <2>4. CASE committed' = committed /\ broken' = BrokenOff
    <3>1. CASE broken = 0
      <4>1. broken # 2 /\ broken' # 2
        BY <2>4, <3>1 DEF BrokenOff
      <4>2. UNCHANGED Store!vars
        BY <2>1, <2>4, <4>1 DEF Store!vars, LastSaved
      <4>3. QED
        BY <4>2
    <3>2. CASE broken # 0
      <4>1. broken' = 2
        BY <2>4, <3>2 DEF BrokenOff
      <4>2. Store!BreakOff
        BY <2>1, <2>2, <2>4, <4>1 DEF Store!BreakOff, LastSaved
      <4>3. QED
        BY <4>2 DEF Store!Next
    <3>3. QED
      BY <3>1, <3>2
  <2>5. QED
    BY <2>1, <2>3, <2>4
<1>5. CASE Leave \/ Crash
  <2>1. /\ phase # "down" /\ phase' = "down" /\ mem' \in Values
        /\ UNCHANGED <<snap, committed>>
        /\ broken' \in {broken, BrokenOff}
    BY <1>0, <1>5 DEF Leave, Crash, TypeOK, history
  <2>2. broken = 2 => broken' = 2
    BY <1>0, <2>1, ExposedStays
  <2>3. Store!GoDown
    BY <2>1, <2>2 DEF Store!GoDown, LastSaved
  <2>4. QED
    BY <2>3 DEF Store!Next
<1>6. CASE \/ SaveState \/ Stop \/ WriteTemporary \/ RemoveBackup \/ MakeBackup
           \/ Restore \/ StateSaved \/ StopEnds \/ UNCHANGED vars
  <2>1. UNCHANGED <<mem, snap, broken, committed>>
    BY <1>6
      DEF SaveState, Stop, WriteTemporary, RemoveBackup, MakeBackup, Restore,
          StateSaved, StopEnds, Fails, vars, thread, history
  <2>2. \/ phase' = phase
        \/ phase = "up" /\ phase' # "down"
        \/ phase \in {"stopping", "leaving"} /\ phase' # "down"
    BY <1>6
      DEF SaveState, Stop, WriteTemporary, RemoveBackup, MakeBackup, Restore,
          StateSaved, StopEnds, vars
  <2>3. (phase # "down") = (phase # "down")'
    BY <2>2
  <2>4. UNCHANGED Store!vars
    BY <2>1, <2>3 DEF Store!vars, LastSaved
  <2>5. QED
    BY <2>4
<1>7. QED
  BY <1>1, <1>2, <1>3, <1>4, <1>5, <1>6 DEF Next

(* The invariant of the refinement holds in every state.                   *)
THEOREM StorePlaces == Spec => []StoreInv
<1>1. Init => StoreInv
  <2> SUFFICES ASSUME Init
               PROVE  StoreInv
    OBVIOUS
  <2>1. PlaceInv /\ ReachInv /\ AliveInv
    BY DEF Init, PlaceInv, ReachInv, AliveInv, Current, Between
  <2>2. QED
    BY <2>1, InitTypes DEF StoreInv
<1>2. StoreInv /\ [Next]_vars => StoreInv'
  BY TypesKept, PlacesKept DEF StoreInv
<1>3. QED
  BY <1>1, <1>2, PTL DEF Spec

(* The type invariant: in particular torrents.state and its backup are     *)
(* always complete, whatever was interrupted or failed.                    *)
THEOREM StoreTypes == Spec => []TypeOK
<1>1. StoreInv => TypeOK
  BY DEF StoreInv
<1>2. QED
  BY <1>1, StorePlaces, PTL

(* Files, renames, faults and crashes together are a store of one value    *)
(* that is replaced as a whole.                                            *)
THEOREM RefinesAtomicStore == Spec => IsAtomicStore
<1>1. Init => Store!Init
  BY DEF Init, Store!Init, LastSaved
<1>2. StoreInv /\ [Next]_vars => [Store!Next]_(Store!vars)
  BY StoreStep
<1>3. QED
  BY <1>1, <1>2, StorePlaces, PTL DEF Spec, IsAtomicStore, Store!Spec

-----------------------------------------------------------------------------
(* The check that skips a save, as long as a backup that is to be restored *)
(* is restored.                                                            *)

(* Where prev_saved_state is.                                              *)
PrevInv == prev # None => IF Between THEN bak = prev ELSE file = prev

(* It is there after every step.                                           *)
LEMMA PrevKept ==
  ASSUME "restore" \notin Faults, StoreInv, PrevInv, [Next]_vars
  PROVE  PrevInv'
<1> USE DEF PrevInv, Between
<1>0. /\ TypeOK /\ TmpInv /\ PlaceInv
      /\ step # "idle" => phase # "down"
  BY DEF StoreInv, AliveInv
<1>1. CASE Start \/ StopEnds \/ \E v \in Values : Change(v)
  <2>1. UNCHANGED <<step, prev, file, bak>>
    BY <1>1 DEF Start, StopEnds, Change, thread, disk
  <2>2. QED
    BY <2>1
<1>2. CASE SaveState \/ Stop
  <2>1. /\ UNCHANGED <<prev, file, bak>>
        /\ step' = step \/ (step = "idle" /\ step' = "snapshot")
    BY <1>2 DEF SaveState, Stop, Begin, disk, StoreInv, AliveInv
  <2>2. QED
    BY <2>1
<1>3. CASE Snapshot \/ StateSaved
  <2>1. UNCHANGED <<prev, file, bak>> /\ ~Between /\ ~Between'
    BY <1>3 DEF Snapshot, StateSaved, disk
  <2>2. QED
    BY <2>1
<1>4. CASE WriteTemporary \/ RemoveBackup
  <2>1. UNCHANGED <<prev, file>> /\ ~Between /\ ~Between'
    BY <1>4 DEF WriteTemporary, RemoveBackup, Fails
  <2>2. QED
    BY <2>1
<1>5. CASE MakeBackup
  <2>1. prev' = prev /\ ~Between
    BY <1>5 DEF MakeBackup, Fails
  <2>2. prev # None => file = prev /\ prev # Absent
    BY <1>0, <2>1, StoreAssumption DEF TypeOK
  <2>3. QED
    BY <1>5, <2>1, <2>2 DEF MakeBackup, Fails
<1>6. CASE Replace
  <2>1. \/ step' = "ended" /\ file' = tmp /\ prev' = snap
        \/ step' = "restore" /\ UNCHANGED <<prev, bak>>
    BY <1>6 DEF Replace, Fails
  <2>2. step = "replace" /\ tmp = snap
    BY <1>0, <1>6 DEF Replace, TmpInv
  <2>3. QED
    BY <2>1, <2>2
<1>7. CASE Restore
  <2>1. /\ step = "restore" /\ step' = "ended" /\ prev' = prev
        /\ \/ file' = bak
           \/ bak = Absent
    BY <1>7 DEF Restore, Fails
  <2>2. prev # None => bak = prev /\ prev # Absent
    BY <1>0, <2>1, StoreAssumption DEF TypeOK
  <2>3. QED
    BY <2>1, <2>2
<1>8. CASE Leave \/ Crash
  BY <1>8 DEF Leave, Crash
<1>9. CASE UNCHANGED vars
  BY <1>9 DEF vars, thread, disk
<1>10. QED
  BY <1>1, <1>2, <1>3, <1>4, <1>5, <1>6, <1>7, <1>8, <1>9 DEF Next

(* _save_state() skips a save only if a restart would load that state.     *)
THEOREM SkippedSavesAreRight ==
  ASSUME "restore" \notin Faults
  PROVE  Spec => []PrevIsOnDisk
<1>1. Init => PrevInv
  BY DEF Init, PrevInv
<1>2. StoreInv /\ PrevInv /\ [Next]_vars => PrevInv'
  BY PrevKept
<1>3. StoreInv /\ PrevInv => PrevIsOnDisk
  BY StoreAssumption
    DEF StoreInv, TypeOK, PlaceInv, PrevInv, PrevIsOnDisk, Loadable, Between
<1>4. QED
  BY <1>1, <1>2, <1>3, StorePlaces, PTL DEF Spec

-----------------------------------------------------------------------------
(* What the archives keep, under every fault.                              *)

(* The marker tells of a process that has not ended its stop().            *)
MarkerInv == phase \notin {"down", "exiting"} => marker

(* The state saved last is in one of the newest n tarballs of an archive.  *)
Kept(a, n) == \E i \in 1 .. Len(a) : i > Len(a) - n /\ committed \in a[i]

(* Where the state saved last is: only between the renames, or after dying *)
(* there and with the marker to tell of it, it is in the backup alone.     *)
OnDisk ==
  \/ file = committed
  \/ bak = committed /\ (Between \/ (phase = "down" /\ marker))

(* On disk until a start archives it, then among the tarballs made since.  *)
SavedInv ==
  committed # None /\ ~unarchived /\ archived <= Rotate
    => IF archived = 0 THEN OnDisk ELSE Kept(archive, archived)

(* A tarball that is not the oldest of Rotate stays when one more is made. *)
LEMMA RotationKeeps ==
  ASSUME TypeOK, NEW S \in SUBSET Values,
         archived > 0, archived < Rotate, Kept(archive, archived),
         archive' \in {Rotated, Append(Rotated, S)}, committed' = committed
  PROVE  \E i \in 1 .. Len(archive') :
           i > Len(archive') - (archived + 1) /\ committed \in archive'[i]
<1>1. /\ archive \in Seq(SUBSET Values) /\ Len(archive) \in Nat
      /\ Len(archive) <= Rotate
      /\ Rotate \in Nat \ {0} /\ archived \in Nat
  BY StoreAssumption DEF TypeOK
<1>2. PICK i \in 1 .. Len(archive) :
        i > Len(archive) - archived /\ committed \in archive[i]
  BY DEF Kept
<1>3. PICK j \in 1 .. Len(Rotated) :
        j > Len(Rotated) - archived /\ committed \in Rotated[j]
  <2>1. CASE Len(archive) < Rotate
    BY <1>2, <2>1 DEF Rotated
  <2>2. CASE ~(Len(archive) < Rotate)
    <3>1. Len(archive) = Rotate /\ archive # <<>> /\ Rotated = Tail(archive)
      BY <1>1, <2>2 DEF Rotated
    <3>2. Len(Rotated) = Len(archive) - 1
      BY <1>1, <3>1
    <3>3. i - 1 \in 1 .. Len(Rotated) /\ i - 1 > Len(Rotated) - archived
      BY <1>1, <1>2, <3>1, <3>2
    <3>4. Rotated[i - 1] = archive[i]
      BY <1>1, <1>2, <3>1, <3>2, <3>3
    <3>5. QED
      BY <1>2, <3>3, <3>4
  <2>3. QED
    BY <2>1, <2>2
<1>4. Rotated \in Seq(SUBSET Values) /\ Len(Rotated) \in Nat
  BY RotatedHasRoom
<1>5. CASE archive' = Rotated
  BY <1>1, <1>3, <1>4, <1>5
<1>6. CASE archive' = Append(Rotated, S)
  <2>1. Len(archive') = Len(Rotated) + 1 /\ archive'[j] = Rotated[j]
    BY <1>3, <1>4, <1>6
  <2>2. j \in 1 .. Len(archive') /\ j > Len(archive') - (archived + 1)
    BY <1>1, <1>3, <1>4, <2>1
  <2>3. QED
    BY <1>3, <2>1, <2>2
<1>7. QED
  BY <1>5, <1>6

(* A start that finds the marker.                                          *)
LEMMA ArchivingSaves ==
  ASSUME StoreInv, SavedInv, Start, marker
  PROVE  SavedInv'
<1>1. /\ TypeOK
      /\ phase = "down" /\ step = "idle"
      /\ UNCHANGED <<step, file, bak, committed>>
      /\ ArchiveState
  BY DEF Start, thread, StoreInv, AliveInv
<1>2. SUFFICES ASSUME committed # None, ~unarchived', archived' <= Rotate
               PROVE  (IF archived = 0 THEN OnDisk ELSE Kept(archive, archived))'
  BY <1>1 DEF SavedInv
<1>3. /\ archived \in Nat /\ Rotate \in Nat \ {0} /\ committed \in Values
      /\ archive' \in {Rotated, Append(Rotated, {}), Append(Rotated, Tarball)}
      /\ ~unarchived
  BY <1>1, <1>2, StoreAssumption DEF TypeOK, ArchiveState
<1>4. archived' \in {archived, OneMore(archived)}
  BY <1>1 DEF ArchiveState
<1>5. archived <= Rotate
  BY <1>2, <1>3, <1>4 DEF OneMore
<1>6. CASE archived = 0
  <2>1. OnDisk
    BY <1>2, <1>3, <1>5, <1>6 DEF SavedInv
  <2>2. committed \in Tarball
    BY <1>3, <2>1 DEF OnDisk, Tarball
  <2>3. CASE archive' = Append(Rotated, Tarball) /\ archived' = OneMore(archived)
    <3>1. archived' = 1
      BY <1>3, <1>6, <2>3 DEF OneMore
    <3>2. Rotated \in Seq(SUBSET Values) /\ Len(Rotated) \in Nat
      BY <1>1, RotatedHasRoom
    <3>3. Tarball \in SUBSET Values
      BY DEF Tarball
    <3>4. /\ Len(archive') = Len(Rotated) + 1
          /\ archive'[Len(Rotated) + 1] = Tarball
      BY <2>3, <3>2, <3>3
    <3>5. Len(archive') \in 1 .. Len(archive') /\ committed \in archive'[Len(archive')]
      BY <2>2, <3>2, <3>4
    <3>6. Kept(archive, archived)'
      BY <1>1, <3>1, <3>2, <3>4, <3>5 DEF Kept
    <3>7. QED
      BY <3>1, <3>6
  <2>4. CASE archived' = archived /\ unarchived' = (unarchived \/ file # committed)
    <3>1. file = committed
      BY <1>2, <2>4
    <3>2. QED
      BY <1>1, <1>6, <2>4, <3>1 DEF OnDisk
  <2>5. QED
    BY <1>1, <1>6, <2>3, <2>4, Zenon DEF ArchiveState
<1>7. CASE archived # 0
  <2>1. archived' = OneMore(archived)
    BY <1>1, <1>7 DEF ArchiveState
  <2>2. archived' = archived + 1 /\ archived < Rotate /\ archived > 0
    BY <1>2, <1>3, <1>5, <1>7, <2>1 DEF OneMore
  <2>3. Kept(archive, archived)
    BY <1>2, <1>3, <1>5, <1>7 DEF SavedInv
  <2>4. PICK S \in SUBSET Values : archive' \in {Rotated, Append(Rotated, S)}
    BY <1>3 DEF Tarball
  <2>5. Kept(archive, archived)'
    BY <1>1, <2>2, <2>3, <2>4, RotationKeeps DEF Kept
  <2>6. QED
    BY <1>3, <2>2, <2>5
<1>8. QED
  BY <1>6, <1>7

(* A step that does not archive and does not replace the file: the state   *)
(* stays where it is.                                                      *)
LEMMA StayingSaves ==
  ASSUME SavedInv, UNCHANGED <<archive, committed, archived>>,
         ~unarchived' => ~unarchived,
         archived = 0 /\ ~unarchived' /\ committed # None /\ OnDisk => OnDisk'
  PROVE  SavedInv'
  BY DEF SavedInv, Kept

(* The marker is there, and the state saved last is where the invariant    *)
(* says, after every step.                                                 *)
LEMMA SavedKept ==
  ASSUME StoreInv, StoreInv', MarkerInv, SavedInv, [Next]_vars
  PROVE  MarkerInv' /\ SavedInv'
<1>0. /\ TypeOK /\ PlaceInv
      /\ step # "idle" => phase # "down"
      /\ committed # None => committed # Absent
  BY StoreAssumption DEF StoreInv, AliveInv, TypeOK
<1> USE DEF Between
<1>1. CASE Start
  <2>1. MarkerInv'
    BY <1>1 DEF Start, MarkerInv
  <2>2. CASE marker
    BY <1>1, <2>1, <2>2, ArchivingSaves
  <2>3. CASE ~marker
    <3>1. /\ UNCHANGED <<archive, committed, archived, file, bak, step>>
          /\ phase = "down" /\ step = "idle"
      BY <1>0, <1>1, <2>3 DEF Start, archiving, thread
    <3>2. unarchived' = unarchived
      BY <1>1, <2>3 DEF Start, archiving
    <3>3. OnDisk => OnDisk'
      BY <2>3, <3>1 DEF OnDisk
    <3>4. QED
      BY <2>1, <3>1, <3>2, <3>3, StayingSaves
  <2>4. QED
    BY <2>2, <2>3
<1>2. CASE \/ \E v \in Values : Change(v)
           \/ SaveState \/ Snapshot \/ StateSaved \/ Stop \/ StopEnds \/ Leave
  <2>1. UNCHANGED <<archive, committed, archived, file, bak>>
    BY <1>2
      DEF Change, SaveState, Snapshot, StateSaved, Stop, StopEnds, Leave, disk,
          history, archiving
  <2>2. unarchived' = unarchived
    BY <1>2
      DEF Change, SaveState, Snapshot, StateSaved, Stop, StopEnds, Leave, history,
          archiving
  <2>3. phase # "down"
    BY <1>0, <1>2
      DEF Change, SaveState, Snapshot, StateSaved, Stop, StopEnds, Leave
  <2>4. Between => step' = step
    BY <1>0, <1>2
      DEF Change, SaveState, Snapshot, StateSaved, Stop, StopEnds, Leave, Begin,
          thread, StoreInv, AliveInv
  <2>5. OnDisk => OnDisk'
    BY <2>1, <2>3, <2>4 DEF OnDisk
  <2>6. MarkerInv'
    <3>1. CASE StopEnds \/ Leave
      BY <3>1 DEF StopEnds, Leave, MarkerInv
    <3>2. CASE \/ \E v \in Values : Change(v)
               \/ SaveState \/ Snapshot \/ StateSaved \/ Stop
      <4>1. marker' = marker
        BY <3>2 DEF Change, SaveState, Snapshot, StateSaved, Stop, disk
      <4>2. phase = "exiting" => phase' = "exiting"
        BY <3>2 DEF Change, SaveState, Snapshot, StateSaved, Stop
      <4>3. QED
        BY <2>3, <4>1, <4>2 DEF MarkerInv
    <3>3. QED
      BY <1>2, <3>1, <3>2
  <2>7. QED
    BY <2>1, <2>2, <2>5, <2>6, StayingSaves
<1>3. CASE WriteTemporary \/ RemoveBackup \/ MakeBackup
  <2>1. UNCHANGED <<archive, committed, archived, phase>> /\ ~Between
    BY <1>3 DEF WriteTemporary, RemoveBackup, MakeBackup, Fails, archiving
  <2>2. unarchived' = unarchived /\ marker' = marker
    BY <1>3 DEF WriteTemporary, RemoveBackup, MakeBackup, Fails, archiving
  <2>3. phase # "down"
    BY <1>0, <1>3 DEF WriteTemporary, RemoveBackup, MakeBackup
  <2>4. OnDisk /\ committed # None => OnDisk'
    <3>1. CASE WriteTemporary \/ RemoveBackup
      BY <2>1, <2>3, <3>1 DEF WriteTemporary, RemoveBackup, Fails, OnDisk
    <3>2. CASE MakeBackup
      <4>1. \/ file # Absent /\ bak' = file /\ step' = "replace"
            \/ UNCHANGED <<file, bak>> /\ (file = Absent \/ step' = "ended")
        BY <3>2 DEF MakeBackup, Fails
      <4>2. QED
        BY <1>0, <2>1, <2>3, <4>1 DEF OnDisk
    <3>3. QED
      BY <1>3, <3>1, <3>2
  <2>5. MarkerInv'
    BY <2>1, <2>2 DEF MarkerInv
  <2>6. QED
    BY <2>1, <2>2, <2>4, <2>5, StayingSaves
<1>4. CASE Replace
  <2>1. phase' = phase /\ archive' = archive
    BY <1>4 DEF Replace
  <2>2. marker' = marker
    BY <1>4 DEF Replace
  <2>3. MarkerInv'
    BY <2>1, <2>2 DEF MarkerInv
  <2>4. CASE /\ file' = tmp /\ committed' = snap /\ archived' = 0
    <3>1. step = "replace" /\ tmp = snap
      BY <1>4 DEF Replace, StoreInv, TmpInv
    <3>2. OnDisk'
      BY <2>4, <3>1 DEF OnDisk
    <3>3. QED
      BY <2>3, <2>4, <3>2 DEF SavedInv
  <2>5. CASE Fails("replace") /\ step' = "restore" /\ UNCHANGED archiving
    <3>1. UNCHANGED <<committed, archived, file, bak>>
      BY <2>5 DEF Fails, archiving
    <3>2. unarchived' = unarchived
      BY <2>5 DEF archiving
    <3>3. OnDisk => OnDisk'
      BY <2>5, <3>1, <1>4 DEF OnDisk, Replace
    <3>4. QED
      BY <2>1, <2>3, <3>1, <3>2, <3>3, StayingSaves
  <2>6. QED
    BY <1>4, <2>3, <2>4, <2>5 DEF Replace
<1>5. CASE Restore
  <2>1. /\ UNCHANGED <<archive, committed, archived, phase>>
        /\ step = "restore" /\ file = Absent
    BY <1>0, <1>5 DEF Restore, Fails, PlaceInv
  <2>2. marker' = marker
    BY <1>5 DEF Restore
  <2>3. MarkerInv'
    BY <2>1, <2>2 DEF MarkerInv
  <2>4. ~unarchived' => ~unarchived
    BY <1>5, Zenon DEF Restore
  <2>5. archived = 0 /\ ~unarchived' /\ committed # None /\ OnDisk => OnDisk'
    <3>1. CASE bak # Absent /\ file' = bak
      BY <1>0, <2>1, <3>1 DEF OnDisk
    <3>2. CASE bak = Absent
      BY <1>0, <2>1, <3>2 DEF OnDisk
    <3>3. CASE unarchived' = (unarchived \/ archived = 0)
      BY <3>3
    <3>4. QED
      BY <1>5, <3>1, <3>2, <3>3, Zenon DEF Restore
  <2>6. QED
    BY <2>1, <2>3, <2>4, <2>5, StayingSaves
<1>6. CASE Crash
  <2>1. /\ UNCHANGED <<archive, committed, archived, file, bak>>
        /\ phase' = "down"
    BY <1>6 DEF Crash
  <2>2. marker' = marker
    BY <1>6 DEF Crash
  <2>3. unarchived' = (unarchived \/ (~marker /\ file # committed /\ archived = 0))
    BY <1>6, Zenon DEF Crash
  <2>4. ~unarchived' => ~unarchived
    BY <2>3, Zenon
  <2>5. archived = 0 /\ ~unarchived' /\ committed # None /\ OnDisk => OnDisk'
    BY <2>1, <2>2, <2>3 DEF OnDisk
  <2>6. QED
    BY <2>1, <2>4, <2>5, StayingSaves DEF MarkerInv
<1>7. CASE UNCHANGED vars
  <2>1. UNCHANGED <<archive, committed, archived, file, bak, phase, step>>
    BY <1>7 DEF vars, thread, disk, history, archiving
  <2>2. marker' = marker /\ unarchived' = unarchived
    BY <1>7 DEF vars, disk, history, archiving
  <2>3. OnDisk => OnDisk'
    BY <2>1, <2>2 DEF OnDisk
  <2>4. MarkerInv'
    BY <2>1, <2>2 DEF MarkerInv
  <2>5. QED
    BY <2>1, <2>2, <2>3, <2>4, StayingSaves
<1>8. QED
  BY <1>1, <1>2, <1>3, <1>4, <1>5, <1>6, <1>7 DEF Next

(* The state saved last is in the file, in its backup or in a tarball      *)
(* under every fault and every crash, unless the archiving of a backup     *)
(* failed or was left out, and until Rotate more archivings.               *)
THEOREM NoSavedStateIsLost == Spec => []SavedStateSurvives
<1>1. Init => MarkerInv /\ SavedInv
  BY DEF Init, MarkerInv, SavedInv
<1>2. StoreInv /\ StoreInv' /\ MarkerInv /\ SavedInv /\ [Next]_vars
        => MarkerInv' /\ SavedInv'
  BY SavedKept
<1>3. SavedInv => SavedStateSurvives
  BY DEF SavedInv, OnDisk, Kept, SavedStateSurvives, InArchive
<1>4. QED
  BY <1>1, <1>2, <1>3, StorePlaces, PTL DEF Spec

=============================================================================
