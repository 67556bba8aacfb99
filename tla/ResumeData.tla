----------------------------- MODULE ResumeData -----------------------------
(***************************************************************************)
(* Collecting and saving the torrents' resume data                         *)
(* (deluge/core/torrentmanager.py, save_resume_data() and what it calls).  *)
(*                                                                         *)
(* save_resume_data() asks libtorrent for the resume data of some torrents *)
(* and returns a DeferredList over one Deferred per torrent, shared by     *)
(* every call that waits for that torrent.  An alert brings the data and   *)
(* fires the Deferred; a call whose Deferreds have all fired writes the    *)
(* whole of resume_data in a thread, unless other torrents are waited for  *)
(* (stop() writes all the same) or the file is being written (stop() waits *)
(* for the DeferredLock).                                                  *)
(*                                                                         *)
(* The data of a torrent is a version, the progress it stands for.  Calls  *)
(* that wait for one and the same torrent do the same thing when it is     *)
(* answered, so the calls for a single torrent are one element "single" of *)
(* Calls and a set of torrents.  A torrent that was removed is not added   *)
(* again, and any torrents have a forced error from the start.  The file  *)
(* is replaced in one step: the steps are those of StateStore.tla.         *)
(***************************************************************************)
EXTENDS Integers, Sequences

CONSTANTS
  T,            \* torrent ids
  Removals,     \* whether torrents are removed
  Faults,       \* whether libtorrent or the writing thread may fail
  MaxProgress,  \* bound: versions of a torrent's data
  MaxEvents     \* bound: events that make a call for a single torrent

ASSUME ResumeAssumption ==
  /\ {Removals, Faults} \subseteq BOOLEAN
  /\ MaxProgress \in Nat
  /\ MaxEvents \in Nat

Bulk == {"timer", "stop"}         \* calls for all torrents that need it
Calls == Bulk \cup {"single"}

None == -1                        \* no data, or a failed request
Versions == 0 .. MaxProgress
NoData == [t \in T |-> None]

VARIABLES
  errored,   \* torrents with forced_error set
  managed,   \* keys of torrents
  progress,  \* libtorrent: the torrent's current data
  needs,     \* libtorrent: need_save_resume_data()
  alerts,    \* libtorrent: answers not handled yet, oldest first
  waiting,   \* keys of waiting_on_resume_data
  resume,    \* resume_data
  rest,      \* per call: torrents whose Deferred has not fired
  open,      \* the Bulk calls whose DeferredList has not fired
  thread,    \* per call: how far its save_resume_data_file() is
  snap,      \* per call: the resume data its thread writes
  file,      \* torrents.fastresume
  phase,     \* of stop(): "up", "stopping", "saving", "stopped"
  saved,     \* what stop() got from save_resume_data()
  events,    \* events so far
  wanted,    \* history: progress when stop() asked for it
  late,      \* history: torrents with an answer under way at that time
  failed     \* history: torrents for which an answer was a failure

lt == <<managed, progress, needs, events>>
history == <<wanted, late>>
vars == <<errored, lt, alerts, waiting, resume, rest, open, thread, snap, file, phase,
          saved, history, failed>>

TypeOK ==
  /\ errored \subseteq T
  /\ managed \subseteq T
  /\ progress \in [T -> Versions]
  /\ needs \subseteq T
  /\ alerts \in [T -> Seq(Versions \cup {None})]
  /\ waiting \subseteq T
  /\ resume \in [T -> Versions \cup {None}]
  /\ rest \in [Calls -> SUBSET waiting]
  /\ open = {c \in Bulk : rest[c] # {}}
  /\ thread \in [Calls -> {"off", "queued", "begin", "read"}]
  /\ snap \in [Calls -> [T -> Versions \cup {None}]]
  /\ file \in [T -> Versions \cup {None}]
  /\ phase \in {"up", "stopping", "saving", "stopped"}
  /\ saved \in BOOLEAN
  /\ events \in 0 .. MaxEvents
  /\ wanted \in [T -> Versions]
  /\ late \subseteq T
  /\ failed \subseteq T

Init ==
  /\ errored \in SUBSET T
  /\ managed = T
  /\ progress = [t \in T |-> 0]
  /\ needs = {}
  /\ alerts = [t \in T |-> << >>]
  /\ waiting = {}
  /\ resume = [t \in T |-> 0]
  /\ rest = [c \in Calls |-> {}]
  /\ open = {}
  /\ thread = [c \in Calls |-> "off"]
  /\ snap = [c \in Calls |-> NoData]
  /\ file = resume
  /\ phase = "up"
  /\ saved = FALSE
  /\ events = 0
  /\ wanted = progress
  /\ late = {}
  /\ failed = {}

-----------------------------------------------------------------------------
Locked == \E c \in Calls : thread[c] \in {"begin", "read"}

(* Mutant: the lock is not looked at.                                      *)
SaveFileUnlocked(cs) ==
  thread' = [c \in Calls |-> IF c \in cs THEN "begin" ELSE thread[c]]

(* save_resume_data_file() by the calls cs, in any order: the first to get *)
(* the lock starts its thread, of the others only stop() queues.           *)
SaveFile(cs) ==
  LET queue == [thread EXCEPT !["stop"] = IF "stop" \in cs THEN "queued" ELSE @]
  IN IF Locked \/ cs = {}
       THEN thread' = queue
       ELSE \E c \in cs : thread' = [queue EXCEPT ![c] = "begin"]

(* on_all_resume_data_finished() of the calls cs.                          *)
Finished(cs) == SaveFile(IF waiting' = {} THEN cs ELSE cs \cap {"stop"})

(* Mutant: the torrent stays in waiting_on_resume_data.                    *)
FireWithoutPop(t) ==
  LET done == {c \in open : rest[c] = {t}}
      single == IF t \in rest["single"] THEN {"single"} ELSE {}
  IN /\ waiting' = waiting
     /\ rest' = [c \in Calls |-> rest[c] \ {t}]
     /\ open' = open \ done
     /\ Finished(done \cup single)

(* The Deferred of t fires: t leaves waiting_on_resume_data first, then the*)
(* calls that waited for t alone are finished.                             *)
Fire(t) ==
  LET done == {c \in open : rest[c] = {t}}
      single == IF t \in rest["single"] THEN {"single"} ELSE {}
  IN /\ waiting' = waiting \ {t}
     /\ rest' = [c \in Calls |-> rest[c] \ {t}]
     /\ open' = open \ done
     /\ Finished(done \cup single)

(* Mutant: a torrent with a forced error is not answered.                  *)
SaveErroredToo(c, ids) ==
  /\ alerts' = [t \in T |-> IF t \in ids \ errored
                              THEN Append(alerts[t], progress[t]) ELSE alerts[t]]
  /\ needs' = needs \ ids
  /\ waiting' = waiting \cup ids
  /\ rest' = [rest EXCEPT ![c] = @ \cup ids]
  /\ open' = IF ids # {} /\ c \in Bulk THEN open \cup {c} ELSE open
  /\ IF ids = {} THEN Finished({c}) ELSE UNCHANGED thread

(* save_resume_data() by call c for the torrents ids.  A torrent with a    *)
(* forced error is answered at once; libtorrent takes the others' data and *)
(* posts one alert per request, also when it was already waited for.       *)
Save(c, ids) ==
  LET asked == ids \ errored
  IN /\ \E fail \in SUBSET asked :
          /\ Faults \/ fail = {}
          /\ alerts' = [t \in T |->
               IF t \in asked
                 THEN Append(alerts[t], IF t \in fail THEN None ELSE progress[t])
                 ELSE alerts[t]]
     /\ needs' = needs \ asked
     /\ waiting' = waiting \cup asked
     /\ rest' = [rest EXCEPT ![c] = @ \cup asked]
     /\ open' = IF asked # {} /\ c \in Bulk THEN open \cup {c} ELSE open
     /\ IF asked = {} THEN Finished({c}) ELSE UNCHANGED thread

Needing == needs \cap managed

(* The LoopingCall, which waits for the DeferredList it was given.         *)
Timer ==
  /\ phase = "up"
  /\ "timer" \notin open
  /\ thread["timer"] = "off"
  /\ Save("timer", Needing)
  /\ UNCHANGED <<errored, managed, progress, events, resume, snap, file, phase, saved,
                 history, failed>>

(* Finished, file renamed, folder renamed.                                 *)
SaveOne(t) ==
  /\ t \in managed
  /\ events < MaxEvents
  /\ events' = events + 1
  /\ Save("single", {t})
  /\ UNCHANGED <<errored, managed, progress, resume, snap, file, phase, saved, history,
                 failed>>

(* on_alert_torrent_paused() leaves a torrent alone that is waited for.    *)
OnTorrentPaused(t) ==
  /\ t \notin waiting
  /\ SaveOne(t)

-----------------------------------------------------------------------------
OnSaveResumeData(t) ==
  /\ alerts[t] # << >>
  /\ Head(alerts[t]) # None
  /\ alerts' = [alerts EXCEPT ![t] = Tail(@)]
  /\ resume' = IF t \in managed
                 THEN [resume EXCEPT ![t] = Head(alerts[t])] ELSE resume
  /\ IF t \in waiting THEN Fire(t) ELSE UNCHANGED <<waiting, rest, open, thread>>
  /\ UNCHANGED <<errored, lt, snap, file, phase, saved, history, failed>>

OnSaveResumeDataFailed(t) ==
  /\ alerts[t] # << >>
  /\ Head(alerts[t]) = None
  /\ alerts' = [alerts EXCEPT ![t] = Tail(@)]
  /\ failed' = failed \cup {t}
  /\ IF t \in waiting THEN Fire(t) ELSE UNCHANGED <<waiting, rest, open, thread>>
  /\ UNCHANGED <<errored, lt, resume, snap, file, phase, saved, history>>

(* The handle of a removed torrent may be invalid by now: both handlers    *)
(* return.                                                                 *)
IgnoreAlert(t) ==
  /\ alerts[t] # << >>
  /\ t \notin managed
  /\ alerts' = [alerts EXCEPT ![t] = Tail(@)]
  /\ UNCHANGED <<errored, lt, waiting, resume, rest, open, thread, snap, file, phase,
                 saved, history, failed>>

(* remove(): of the three tables it clears resume_data and torrents only.  *)
Remove(t) ==
  /\ Removals
  /\ t \in managed
  /\ managed' = managed \ {t}
  /\ resume' = [resume EXCEPT ![t] = None]
  /\ UNCHANGED <<errored, progress, needs, events, alerts, waiting, rest, open, thread,
                 snap, file, phase, saved, history, failed>>

(* libtorrent gets a piece, renames a file...: the data needs saving.      *)
Progress(t) ==
  /\ t \in managed
  /\ progress[t] < MaxProgress
  /\ progress' = [progress EXCEPT ![t] = @ + 1]
  /\ needs' = needs \cup {t}
  /\ UNCHANGED <<errored, managed, events, alerts, waiting, resume, rest, open, thread,
                 snap, file, phase, saved, history, failed>>

-----------------------------------------------------------------------------
(* _save_resume_data_file() in its thread.                                 *)
Read(c) ==
  /\ thread[c] = "begin"
  /\ snap' = [snap EXCEPT ![c] = resume]
  /\ thread' = [thread EXCEPT ![c] = "read"]
  /\ UNCHANGED <<errored, lt, alerts, waiting, resume, rest, open, file, phase, saved,
                 history, failed>>

(* Mutant: a queued save does not get the lock.                            *)
ReleaseOnly(c) == thread' = [thread EXCEPT ![c] = "off"]

(* The lock passes to stop() if it is queued.                              *)
Release(c) ==
  thread' = [d \in Calls |-> CASE d = c -> "off"
                               [] thread[d] = "queued" -> "begin"
                               [] OTHER -> thread[d]]

(* The thread ends, ok or not; nothing is written of an empty resume_data. *)
Write(c, ok) ==
  /\ thread[c] = "read"
  /\ ok \/ Faults
  /\ file' = IF ok /\ snap[c] # NoData THEN snap[c] ELSE file
  /\ snap' = [snap EXCEPT ![c] = NoData]
  /\ Release(c)
  /\ phase' = IF c = "stop" THEN "stopped" ELSE phase
  /\ saved' = IF c = "stop" THEN ok ELSE saved
  /\ UNCHANGED <<errored, lt, alerts, waiting, resume, rest, open, history, failed>>

(* stop() stops the timers and awaits save_state().                        *)
Stop ==
  /\ phase = "up"
  /\ phase' = "stopping"
  /\ UNCHANGED <<errored, lt, alerts, waiting, resume, rest, open, thread, snap, file,
                 saved, history, failed>>

(* Mutant: the file is written without asking libtorrent first.            *)
StopSavesAtOnce ==
  /\ phase = "stopping"
  /\ phase' = "saving"
  /\ wanted' = progress
  /\ late' = {t \in T : alerts[t] # << >>}
  /\ Save("stop", {})
  /\ UNCHANGED <<errored, managed, progress, events, resume, snap, file, saved, failed>>

(* ... and then save_resume_data(flush_disk_cache=True).                   *)
StopSaves ==
  /\ phase = "stopping"
  /\ phase' = "saving"
  /\ wanted' = progress
  /\ late' = {t \in T : alerts[t] # << >>}
  /\ Save("stop", Needing)
  /\ UNCHANGED <<errored, managed, progress, events, resume, snap, file, saved, failed>>

Next ==
  \/ Timer \/ Stop \/ StopSaves
  \/ \E t \in T : \/ SaveOne(t) \/ OnTorrentPaused(t)
                  \/ OnSaveResumeData(t) \/ OnSaveResumeDataFailed(t)
                  \/ IgnoreAlert(t) \/ Remove(t) \/ Progress(t)
  \/ \E c \in Calls : Read(c) \/ \E ok \in BOOLEAN : Write(c, ok)

Spec == Init /\ [][Next]_vars

(* Alerts are handled (AlertManager.tla), threads run, the LoopingCall     *)
(* calls, and save_state() ends (StateStore.tla).                          *)
Fairness ==
  /\ WF_vars(Timer)
  /\ WF_vars(StopSaves)
  /\ \A t \in T : WF_vars(OnSaveResumeData(t) \/ OnSaveResumeDataFailed(t)
                            \/ IgnoreAlert(t))
  /\ \A c \in Calls : WF_vars(Read(c) \/ \E ok \in BOOLEAN : Write(c, ok))

FairSpec == Spec /\ Fairness

-----------------------------------------------------------------------------
(* A torrent is waited for only as long as libtorrent owes an answer that  *)
(* the handlers will get: every way out of save_resume_data(), that of a   *)
(* torrent with an error included, fires the Deferred.                     *)
WaitingIsOwed == \A t \in waiting \cap managed : alerts[t] # << >>

(* The file never goes back to older data of a torrent, whichever calls    *)
(* write and whenever their threads read resume_data.                      *)
FileNeverGoesBack ==
  [][\A t \in managed' : file'[t] >= file[t]]_vars

(* When stop() takes the data as saved and removes the marker, the file    *)
(* has what every torrent had when stop() asked, except for torrents       *)
(* libtorrent refused data for and those with an earlier answer under way. *)
StopSaved ==
  phase = "stopped" /\ saved =>
    \A t \in managed \ (late \cup failed \cup errored) : file[t] >= wanted[t]

(* The same without the last exception: the DeferredList is "to be invoked *)
(* when save is complete".                                                 *)
StopSavesAll ==
  phase = "stopped" /\ saved =>
    \A t \in managed \ (failed \cup errored) : file[t] >= wanted[t]

(* stop() ends, whoever holds the lock when it wants to write, as long as  *)
(* torrents stay.                                                          *)
StopEnds ==
  [](managed = T) => (phase = "stopping" ~> phase = "stopped")

(* While the daemon runs, what a torrent has got is in the file some time   *)
(* later, whichever calls asked for it, as long as torrents stay, libtorrent*)
(* gives their data and the file can be written again.                      *)
FailedWrite ==
  \E c \in Calls : /\ thread[c] = "read" /\ thread'[c] # "read"
                   /\ snap[c] \notin {NoData, file'}

KeptProgressReachesFile ==
  ([](managed = T /\ failed = {}) /\ <>[][~FailedWrite]_vars)
    => \A t \in T : \A v \in Versions :
         (t \notin errored /\ progress[t] = v)
           ~> (phase # "up" \/ file[t] >= v)

(* "Save the state periodically": while the daemon runs, what a torrent    *)
(* has got is in the file some time later.                                 *)
ProgressReachesFile ==
  \A t \in T : \A v \in Versions :
    (t \in managed \ errored /\ progress[t] = v)
      ~> (t \notin managed \/ phase # "up" \/ file[t] >= v)

-----------------------------------------------------------------------------
(* Behind these: the parts of an inductive invariant.                      *)

(* Of a torrent the data only gets newer from torrents.fastresume over     *)
(* resume_data and the answers under way to what libtorrent has.           *)
Newer ==
  \A t \in managed :
    /\ resume[t] \in Versions
    /\ file[t] <= resume[t] /\ resume[t] <= progress[t]
    /\ \A i \in 1..Len(alerts[t]) : alerts[t][i] # None =>
         /\ resume[t] <= alerts[t][i] /\ alerts[t][i] <= progress[t]
         /\ \A j \in 1..i : alerts[t][j] # None => alerts[t][j] <= alerts[t][i]

(* One call at a time holds the lock, and stop() alone queues for it.      *)
Lock ==
  \A c \in Calls :
    /\ thread[c] = "queued" => c = "stop"
    /\ thread[c] \in {"begin", "read"} =>
         \A d \in Calls \ {c} : thread[d] \notin {"begin", "read"}

(* What a thread has read is between the file and resume_data.             *)
SnapIsBetween ==
  \A c \in Calls : thread[c] = "read" =>
    \A t \in managed : file[t] <= snap[c][t] /\ snap[c][t] <= resume[t]

Held(t) == IF alerts[t] = << >> THEN resume[t] = progress[t]
           ELSE alerts[t][Len(alerts[t])] \in {None, progress[t]}

(* What needs no saving is in resume_data or an answer away from it.       *)
NotNeededIsHeld ==
  \A t \in managed \ (needs \cup failed \cup errored) : Held(t)

StopPhases ==
  /\ phase \in {"up", "stopping"} => rest["stop"] = {} /\ thread["stop"] = "off"
  /\ phase = "stopped" => rest["stop"] = {} /\ thread["stop"] = "off"
  /\ thread["stop"] # "off" => rest["stop"] = {}
  /\ saved => phase = "stopped"

Owing == managed \ (late \cup failed \cup errored)

(* stop() gets what it asked for.                                          *)
StopGathers ==
  /\ \A t \in T : wanted[t] <= progress[t]
  /\ phase \in {"saving", "stopped"} =>
       \A t \in Owing :
         \/ wanted[t] <= resume[t]
         \/ /\ t \in rest["stop"]
            /\ \A i \in 1..Len(alerts[t]) :
                 alerts[t][i] # None => wanted[t] <= alerts[t][i]
  /\ thread["stop"] = "read" => \A t \in Owing : wanted[t] <= snap["stop"][t]

IndInv ==
  /\ TypeOK /\ WaitingIsOwed /\ Newer /\ Lock /\ SnapIsBetween
  /\ NotNeededIsHeld /\ StopPhases /\ StopGathers /\ StopSaved

=============================================================================
