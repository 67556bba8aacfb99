-------------------------- MODULE ResumeDataProofs --------------------------
(***************************************************************************)
(* What is collected for torrents.fastresume only gets newer, and stop()   *)
(* saves what it asked for, for any torrents and bounds.                   *)
(***************************************************************************)
EXTENDS ResumeData, SequenceTheorems, TLAPS

Threads == {"off", "queued", "begin", "read"}
Answers == Versions \cup {None}

(* Of an answer added to a torrent's: the others keep their places.        *)
LEMMA AddAnswer ==
  ASSUME NEW s \in Seq(Answers), NEW x \in Answers
  PROVE  /\ Append(s, x) \in Seq(Answers)
         /\ Append(s, x) # << >>
         /\ Len(Append(s, x)) = Len(s) + 1
         /\ Append(s, x)[Len(s) + 1] = x
         /\ \A i \in 1..Len(s) : Append(s, x)[i] = s[i]
OBVIOUS

(* Of the oldest answer taken: the others move up.                         *)
LEMMA TakeAnswer ==
  ASSUME NEW s \in Seq(Answers), s # << >>
  PROVE  /\ Tail(s) \in Seq(Answers)
         /\ Len(s) \in Nat \ {0}
         /\ Len(Tail(s)) = Len(s) - 1
         /\ Head(s) = s[1] /\ Head(s) \in Answers
         /\ \A i \in 1..Len(s) - 1 : Tail(s)[i] = s[i + 1]
         /\ Tail(s) = << >> => Len(s) = 1
<1>1. Len(s) \in Nat \ {0}
  BY EmptySeq, LenProperties
<1>2. /\ Head(s) \in Answers /\ Tail(s) \in Seq(Answers)
      /\ Len(Tail(s)) = Len(s) - 1
      /\ \A i \in 1..Len(Tail(s)) : Tail(s)[i] = s[i + 1]
  BY HeadTailProperties
<1>3. Head(s) = s[1]
  BY <1>1
<1>4. ASSUME Tail(s) = << >>
      PROVE  Len(s) = 1
  <2>1. Len(Tail(s)) = 0
    BY <1>4, EmptySeq
  <2> QED
    BY <2>1, <1>1, <1>2
<1> QED
  BY <1>1, <1>2, <1>3, <1>4

(* save_resume_data_file() begins at most one thread, of the calls that    *)
(* made it, and only with the lock; stop() may queue.                      *)
LEMMA SaveFileKeepsLock ==
  ASSUME thread \in [Calls -> Threads], Lock, NEW cs \in SUBSET Calls,
         SaveFile(cs), "stop" \in cs => thread["stop"] = "off"
  PROVE  /\ thread' \in [Calls -> Threads]
         /\ Lock'
         /\ \A c \in Calls : thread'[c] = "read" <=> thread[c] = "read"
         /\ \A c \in Calls : thread'[c] # thread[c] => c \in cs
<1> DEFINE queue == [thread EXCEPT !["stop"] = IF "stop" \in cs THEN "queued" ELSE @]
<1>1. /\ queue \in [Calls -> Threads]
      /\ \A c \in Calls : queue[c] # thread[c] =>
           c = "stop" /\ "stop" \in cs /\ queue[c] = "queued"
      /\ "stop" \in Calls
  BY DEF Calls, Bulk, Threads
<1>2. /\ \A c \in Calls : queue[c] = "queued" => c = "stop"
      /\ \A c \in Calls : queue[c] \in {"begin", "read"} <=> thread[c] \in {"begin", "read"}
      /\ \A c \in Calls : queue[c] = "read" <=> thread[c] = "read"
  BY <1>1 DEF Lock
<1> HIDE DEF queue
<1>3. CASE Locked \/ cs = {}
  <2>1. thread' = queue
    BY <1>3 DEF SaveFile, queue
  <2>2. Lock'
    BY <2>1, <1>2 DEF Lock
  <2> QED
    BY <2>1, <2>2, <1>1, <1>2
<1>4. CASE ~Locked /\ cs # {}
  <2>1. PICK c \in cs : thread' = [queue EXCEPT ![c] = "begin"]
    BY <1>4 DEF SaveFile, queue
  <2>2. \A d \in Calls : thread[d] \notin {"begin", "read"}
    BY <1>4 DEF Locked
  <2>3. /\ thread'[c] = "begin"
        /\ \A d \in Calls \ {c} : thread'[d] = queue[d]
        /\ thread' \in [Calls -> Threads]
    BY <2>1, <1>1 DEF Threads
  <2>4. \A d \in Calls \ {c} : thread'[d] \notin {"begin", "read"}
    BY <2>2, <2>3, <1>2
  <2>5. Lock'
    BY <2>3, <2>4, <1>2 DEF Lock
  <2> QED
    BY <2>2, <2>3, <2>4, <2>5, <1>1
<1> QED
  BY <1>3, <1>4

(* When a Deferred fires, calls that it completes begin to write or queue. *)
LEMMA FireCompletes ==
  ASSUME IndInv, NEW t \in waiting, Fire(t)
  PROVE  /\ thread' \in [Calls -> Threads]
         /\ Lock'
         /\ \A c \in Calls : thread'[c] = "read" <=> thread[c] = "read"
         /\ \A c \in Calls : thread'[c] # thread[c] => rest[c] # {}
         /\ thread'["stop"] # thread["stop"] => rest'["stop"] = {}
         /\ waiting' = waiting \ {t}
         /\ rest' = [c \in Calls |-> rest[c] \ {t}]
         /\ rest' \in [Calls -> SUBSET waiting']
         /\ open' = {c \in Bulk : rest'[c] # {}}
<1> DEFINE done == {c \in open : rest[c] = {t}}
           single == IF t \in rest["single"] THEN {"single"} ELSE {}
           cs == IF waiting' = {} THEN done \cup single
                 ELSE (done \cup single) \cap {"stop"}
<1>1. /\ thread \in [Calls -> Threads]
      /\ rest \in [Calls -> SUBSET waiting]
      /\ open = {c \in Bulk : rest[c] # {}}
      /\ Lock
      /\ thread["stop"] # "off" => rest["stop"] = {}
  BY DEF IndInv, TypeOK, Threads, StopPhases
<1>2. /\ waiting' = waiting \ {t}
      /\ rest' = [c \in Calls |-> rest[c] \ {t}]
      /\ open' = open \ done
      /\ SaveFile(cs)
  BY DEF Fire, Finished
<1>3. /\ cs \in SUBSET Calls
      /\ \A c \in cs : rest[c] # {}
      /\ "stop" \in cs => rest["stop"] = {t} /\ thread["stop"] = "off"
  BY <1>1 DEF Calls, Bulk
<1>4. /\ rest' \in [Calls -> SUBSET waiting']
      /\ \A c \in Calls : rest'[c] = rest[c] \ {t}
      /\ "stop" \in Calls /\ Bulk \subseteq Calls
  BY <1>1, <1>2 DEF Calls, Bulk
<1>5. open' = {c \in Bulk : rest'[c] # {}}
  BY <1>1, <1>2, <1>4
<1> HIDE DEF cs
<1>6. /\ thread' \in [Calls -> Threads]
      /\ Lock'
      /\ \A c \in Calls : thread'[c] = "read" <=> thread[c] = "read"
      /\ \A c \in Calls : thread'[c] # thread[c] => c \in cs
  BY <1>1, <1>2, <1>3, SaveFileKeepsLock
<1>7. thread'["stop"] # thread["stop"] => rest'["stop"] = {}
  BY <1>3, <1>4, <1>6
<1> QED
  BY <1>2, <1>3, <1>4, <1>5, <1>6, <1>7

(* What save_resume_data() does: one more answer for every torrent asked,  *)
(* with its data or none, and a call that has nothing to wait for writes.  *)
LEMMA SaveAsks ==
  ASSUME IndInv, NEW c \in Calls, NEW ids \in SUBSET T, Save(c, ids),
         c = "stop" => thread["stop"] = "off" /\ rest["stop"] = {}
  PROVE  /\ thread' \in [Calls -> Threads]
         /\ Lock'
         /\ \A d \in Calls : thread'[d] = "read" <=> thread[d] = "read"
         /\ thread'["stop"] # thread["stop"] => c = "stop"
         /\ thread'["stop"] # "off" => rest'["stop"] = {}
         /\ waiting' = waiting \cup (ids \ errored)
         /\ rest' \in [Calls -> SUBSET waiting']
         /\ \A d \in Calls \ {c} : rest'[d] = rest[d]
         /\ rest'[c] = rest[c] \cup (ids \ errored)
         /\ open' = {d \in Bulk : rest'[d] # {}}
         /\ needs' = needs \ (ids \ errored)
         /\ alerts' \in [T -> Seq(Answers)]
         /\ \A t \in T \ (ids \ errored) : alerts'[t] = alerts[t]
         /\ \A t \in ids \ errored : \E x \in {None, progress[t]} :
              alerts'[t] = Append(alerts[t], x)
<1> DEFINE asked == ids \ errored
<1>1. /\ thread \in [Calls -> Threads]
      /\ rest \in [Calls -> SUBSET waiting]
      /\ open = {d \in Bulk : rest[d] # {}}
      /\ Lock
      /\ thread["stop"] # "off" => rest["stop"] = {}
      /\ alerts \in [T -> Seq(Answers)]
      /\ progress \in [T -> Versions]
  BY DEF IndInv, TypeOK, Threads, StopPhases, Answers
<1>2. /\ waiting' = waiting \cup asked
      /\ rest' = [rest EXCEPT ![c] = @ \cup asked]
      /\ needs' = needs \ asked
      /\ open' = IF asked # {} /\ c \in Bulk THEN open \cup {c} ELSE open
      /\ IF asked = {} THEN Finished({c}) ELSE UNCHANGED thread
  BY DEF Save
<1>3. /\ rest' \in [Calls -> SUBSET waiting']
      /\ \A d \in Calls \ {c} : rest'[d] = rest[d]
      /\ rest'[c] = rest[c] \cup asked
  BY <1>1, <1>2
<1>4. open' = {d \in Bulk : rest'[d] # {}}
  <2>1. CASE asked = {}
    <3>1. \A d \in Calls : rest'[d] = rest[d]
      BY <2>1, <1>1, <1>2
    <3> QED
      BY <2>1, <3>1, <1>1, <1>2 DEF Calls
  <2>2. CASE asked # {}
    BY <2>2, <1>1, <1>2, <1>3 DEF Calls
  <2> QED
    BY <2>1, <2>2
<1>5. PICK fail \in SUBSET asked :
        alerts' = [t \in T |->
          IF t \in asked
            THEN Append(alerts[t], IF t \in fail THEN None ELSE progress[t])
            ELSE alerts[t]]
  BY DEF Save
<1>6. /\ \A t \in T \ asked : alerts'[t] = alerts[t]
      /\ \A t \in asked : \E x \in {None, progress[t]} :
           alerts'[t] = Append(alerts[t], x)
  BY <1>5
<1>7. alerts' \in [T -> Seq(Answers)]
  <2> SUFFICES ASSUME NEW t \in T
               PROVE  alerts'[t] \in Seq(Answers)
    BY <1>5
  <2>1. CASE t \in asked
    <3>1. PICK x \in {None, progress[t]} : alerts'[t] = Append(alerts[t], x)
      BY <2>1, <1>6
    <3>2. x \in Answers
      BY <1>1 DEF Answers
    <3> QED
      BY <3>1, <3>2, <1>1, AddAnswer
  <2>2. CASE t \notin asked
    BY <2>2, <1>1, <1>6
  <2> QED
    BY <2>1, <2>2
<1>8. /\ thread' \in [Calls -> Threads]
      /\ Lock'
      /\ \A d \in Calls : thread'[d] = "read" <=> thread[d] = "read"
      /\ \A d \in Calls : thread'[d] # thread[d] => d = c /\ asked = {}
  <2>1. CASE asked = {}
    <3> DEFINE cs == IF waiting' = {} THEN {c} ELSE {c} \cap {"stop"}
    <3>1. SaveFile(cs)
      BY <2>1, <1>2 DEF Finished
    <3>2. cs \in SUBSET Calls /\ cs \subseteq {c}
      OBVIOUS
    <3> HIDE DEF cs
    <3>3. "stop" \in cs => thread["stop"] = "off"
      BY <3>2
    <3>4. /\ thread' \in [Calls -> Threads]
          /\ Lock'
          /\ \A d \in Calls : thread'[d] = "read" <=> thread[d] = "read"
          /\ \A d \in Calls : thread'[d] # thread[d] => d \in cs
      BY <3>1, <3>2, <3>3, <1>1, SaveFileKeepsLock
    <3> QED
      BY <2>1, <3>2, <3>4
  <2>2. CASE asked # {}
    <3>1. thread' = thread
      BY <2>2, <1>2
    <3> QED
      BY <3>1, <1>1 DEF Lock
  <2> QED
    BY <2>1, <2>2
<1>9. "stop" \in Calls
  BY DEF Calls, Bulk
<1>10. thread'["stop"] # "off" => rest'["stop"] = {}
  <2>1. CASE c = "stop"
    BY <2>1, <1>3, <1>8, <1>9
  <2>2. CASE c # "stop"
    BY <2>2, <1>1, <1>3, <1>8, <1>9
  <2> QED
    BY <2>1, <2>2
<1> QED
  BY <1>2, <1>3, <1>4, <1>6, <1>7, <1>8, <1>9, <1>10

(* An answer with the data libtorrent has now is the newest, and none that *)
(* is under way or saved is newer.                                         *)
LEMMA SaveKeepsData ==
  ASSUME IndInv, NEW asked \in SUBSET (T \ errored),
         waiting' = waiting \cup asked, needs' = needs \ asked,
         \A t \in T \ asked : alerts'[t] = alerts[t],
         \A t \in asked : \E x \in {None, progress[t]} :
           alerts'[t] = Append(alerts[t], x),
         UNCHANGED <<errored, managed, progress, resume, file, failed>>
  PROVE  Newer' /\ WaitingIsOwed' /\ NotNeededIsHeld'
<1>1. /\ managed \subseteq T /\ waiting \subseteq T
      /\ alerts \in [T -> Seq(Answers)] /\ progress \in [T -> Versions]
      /\ resume \in [T -> Versions \cup {None}]
      /\ file \in [T -> Versions \cup {None}]
  BY DEF IndInv, TypeOK, Answers
<1>2. Versions \subseteq Int /\ None = -1 /\ None \notin Versions
  BY ResumeAssumption DEF Versions, None
<1>3. ASSUME NEW t \in asked
      PROVE  \E x \in {None, progress[t]} :
               /\ alerts'[t] # << >>
               /\ Len(alerts[t]) \in Nat
               /\ Len(alerts'[t]) = Len(alerts[t]) + 1
               /\ alerts'[t][Len(alerts[t]) + 1] = x
               /\ \A i \in 1..Len(alerts[t]) : alerts'[t][i] = alerts[t][i]
  <2>1. PICK x \in {None, progress[t]} : alerts'[t] = Append(alerts[t], x)
    BY <1>3
  <2>2. x \in Answers /\ alerts[t] \in Seq(Answers)
    BY <1>1 DEF Answers
  <2> QED
    BY <2>1, <2>2, AddAnswer, LenProperties
<1>4. WaitingIsOwed'
  BY <1>1, <1>3 DEF IndInv, WaitingIsOwed
<1>5. ASSUME NEW t \in managed
      PROVE  /\ resume[t] \in Versions
             /\ file[t] <= resume[t] /\ resume[t] <= progress[t]
             /\ \A i \in 1..Len(alerts'[t]) : alerts'[t][i] # None =>
                  /\ resume[t] <= alerts'[t][i] /\ alerts'[t][i] <= progress[t]
                  /\ \A j \in 1..i : alerts'[t][j] # None => alerts'[t][j] <= alerts'[t][i]
  <2>1. /\ resume[t] \in Versions
        /\ file[t] <= resume[t] /\ resume[t] <= progress[t]
        /\ \A i \in 1..Len(alerts[t]) : alerts[t][i] # None =>
             /\ resume[t] <= alerts[t][i] /\ alerts[t][i] <= progress[t]
             /\ \A j \in 1..i : alerts[t][j] # None => alerts[t][j] <= alerts[t][i]
    BY DEF IndInv, Newer
  <2>2. CASE t \in asked
    <3>1. PICK x \in {None, progress[t]} :
               /\ Len(alerts[t]) \in Nat
               /\ Len(alerts'[t]) = Len(alerts[t]) + 1
               /\ alerts'[t][Len(alerts[t]) + 1] = x
               /\ \A i \in 1..Len(alerts[t]) : alerts'[t][i] = alerts[t][i]
      BY <2>2, <1>3
    <3>2. progress[t] \in Int
      BY <1>1, <1>2
    <3> SUFFICES ASSUME NEW i \in 1..Len(alerts'[t]), alerts'[t][i] # None
                 PROVE  /\ resume[t] <= alerts'[t][i] /\ alerts'[t][i] <= progress[t]
                        /\ \A j \in 1..i : alerts'[t][j] # None
                             => alerts'[t][j] <= alerts'[t][i]
      BY <2>1
    <3>3. CASE i = Len(alerts[t]) + 1
      <4>1. alerts'[t][i] = progress[t]
        BY <3>1, <3>3
      <4>2. ASSUME NEW j \in 1..i, alerts'[t][j] # None
            PROVE  alerts'[t][j] <= progress[t]
        <5>1. CASE j = i
          BY <5>1, <4>1, <3>2
        <5>2. CASE j # i
          <6>1. j \in 1..Len(alerts[t])
            BY <5>2, <3>1, <3>3
          <6> QED
            BY <6>1, <4>2, <3>1, <2>1
        <5> QED
          BY <5>1, <5>2
      <4> QED
        BY <4>1, <4>2, <2>1, <3>2
    <3>4. CASE i # Len(alerts[t]) + 1
      <4>1. i \in 1..Len(alerts[t])
        BY <3>4, <3>1
      <4>2. \A j \in 1..i : j \in 1..Len(alerts[t])
        BY <4>1, <3>1
      <4> QED
        BY <4>1, <4>2, <3>1, <2>1
    <3> QED
      BY <3>3, <3>4
  <2>3. CASE t \notin asked
    <3>1. alerts'[t] = alerts[t]
      BY <2>3, <1>1
    <3> QED
      BY <3>1, <2>1
  <2> QED
    BY <2>2, <2>3
<1>6. Newer'
  BY <1>5 DEF Newer
<1>7. ASSUME NEW t \in managed, t \notin needs', t \notin failed, t \notin errored
      PROVE  Held(t)'
  <2>1. CASE t \in asked
    BY <2>1, <1>3 DEF Held
  <2>2. CASE t \notin asked
    <3>1. alerts'[t] = alerts[t] /\ t \notin needs
      BY <2>2, <1>1, <1>7
    <3> QED
      BY <3>1, <1>7 DEF Held, IndInv, NotNeededIsHeld
  <2> QED
    BY <2>1, <2>2
<1>8. NotNeededIsHeld'
  BY <1>7 DEF NotNeededIsHeld
<1> QED
  BY <1>4, <1>6, <1>8

(* Types and constants in the form the steps below need them.              *)
LEMMA Typed ==
  ASSUME IndInv
  PROVE  /\ managed \subseteq T /\ waiting \subseteq T
         /\ alerts \in [T -> Seq(Answers)] /\ progress \in [T -> Versions]
         /\ resume \in [T -> Answers] /\ file \in [T -> Answers]
         /\ wanted \in [T -> Versions]
         /\ thread \in [Calls -> Threads] /\ rest \in [Calls -> SUBSET waiting]
         /\ open = {c \in Bulk : rest[c] # {}}
         /\ snap \in [Calls -> [T -> Answers]]
         /\ Versions \subseteq Int /\ Answers \subseteq Int
         /\ None = -1 /\ None \notin Versions
         /\ \A v \in Versions : v > None
         /\ "stop" \in Calls
BY ResumeAssumption DEF IndInv, TypeOK, Answers, Threads, Versions, None, Calls, Bulk

(* Both handlers of an answer: data is taken over, and of a failure the    *)
(* torrent is remembered; either way its Deferred fires if there is one.   *)
LEMMA HandledAnswer ==
  ASSUME IndInv, NEW t \in T, OnSaveResumeData(t) \/ OnSaveResumeDataFailed(t)
  PROVE  /\ alerts[t] # << >>
         /\ alerts' = [alerts EXCEPT ![t] = Tail(@)]
         /\ resume' = IF Head(alerts[t]) # None /\ t \in managed
                        THEN [resume EXCEPT ![t] = Head(alerts[t])] ELSE resume
         /\ failed' = IF Head(alerts[t]) = None THEN failed \cup {t} ELSE failed
         /\ waiting' = waiting \ {t}
         /\ rest' \in [Calls -> SUBSET waiting']
         /\ \A c \in Calls : rest'[c] = rest[c] \ {t}
         /\ open' = {c \in Bulk : rest'[c] # {}}
         /\ thread' \in [Calls -> Threads]
         /\ Lock'
         /\ \A c \in Calls : thread'[c] = "read" <=> thread[c] = "read"
         /\ thread'["stop"] # thread["stop"] => rest["stop"] # {} /\ rest'["stop"] = {}
         /\ UNCHANGED <<errored, lt, snap, file, phase, saved, history>>
<1>1. /\ alerts[t] # << >>
      /\ alerts' = [alerts EXCEPT ![t] = Tail(@)]
      /\ resume' = IF Head(alerts[t]) # None /\ t \in managed
                     THEN [resume EXCEPT ![t] = Head(alerts[t])] ELSE resume
      /\ failed' = IF Head(alerts[t]) = None THEN failed \cup {t} ELSE failed
      /\ IF t \in waiting THEN Fire(t) ELSE UNCHANGED <<waiting, rest, open, thread>>
      /\ UNCHANGED <<errored, lt, snap, file, phase, saved, history>>
  BY DEF OnSaveResumeData, OnSaveResumeDataFailed
<1>2. CASE t \in waiting
  <2>1. Fire(t)
    BY <1>1, <1>2
  <2>2. "stop" \in Calls /\ rest \in [Calls -> SUBSET waiting]
    BY Typed
  <2> QED
    BY <1>1, <1>2, <2>1, <2>2, FireCompletes
<1>3. CASE t \notin waiting
  <2>1. UNCHANGED <<waiting, rest, open, thread>>
    BY <1>1, <1>3
  <2>2. Lock'
    BY <2>1 DEF IndInv, Lock
  <2>3. \A c \in Calls : rest'[c] = rest[c] \ {t}
    BY <1>3, <2>1, Typed
  <2> QED
    BY <1>1, <1>3, <2>1, <2>2, <2>3, Typed
<1> QED
  BY <1>2, <1>3

(* Answers are handled in their order: the data taken over is newer than   *)
(* what was there, and the last answer was the one to wait for.            *)
LEMMA AnswerKeepsData ==
  ASSUME IndInv, NEW t \in T, OnSaveResumeData(t) \/ OnSaveResumeDataFailed(t)
  PROVE  /\ Newer' /\ WaitingIsOwed' /\ NotNeededIsHeld'
         /\ alerts' \in [T -> Seq(Answers)] /\ resume' \in [T -> Answers]
         /\ \A u \in managed : resume[u] <= resume'[u]
<1> DEFINE h == Head(alerts[t])
<1>1. /\ alerts[t] \in Seq(Answers) /\ alerts[t] # << >>
      /\ alerts'[t] = Tail(alerts[t])
      /\ \A u \in T \ {t} : alerts'[u] = alerts[u]
      /\ \A u \in T \ {t} : resume'[u] = resume[u]
      /\ resume'[t] = IF h # None /\ t \in managed THEN h ELSE resume[t]
      /\ h = None => t \in failed'
      /\ failed \subseteq failed'
      /\ waiting' = waiting \ {t}
      /\ UNCHANGED <<errored, managed, progress, needs, file>>
  BY HandledAnswer, Typed DEF lt
<1>2. /\ alerts'[t] \in Seq(Answers)
      /\ Len(alerts[t]) \in Nat \ {0}
      /\ Len(alerts'[t]) = Len(alerts[t]) - 1
      /\ h = alerts[t][1] /\ h \in Answers
      /\ \A i \in 1..Len(alerts[t]) - 1 : alerts'[t][i] = alerts[t][i + 1]
      /\ alerts'[t] = << >> => Len(alerts[t]) = 1
      /\ alerts'[t] # << >> => Len(alerts'[t]) \in Nat \ {0}
  BY <1>1, TakeAnswer, EmptySeq
<1> HIDE DEF h
<1>3. /\ alerts' \in [T -> Seq(Answers)]
      /\ resume' \in [T -> Answers]
  <2>1. alerts' = [alerts EXCEPT ![t] = Tail(alerts[t])]
    BY HandledAnswer
  <2>2. alerts' \in [T -> Seq(Answers)]
    BY <2>1, <1>1, <1>2, Typed
  <2>3. resume' = resume \/ resume' = [resume EXCEPT ![t] = h]
    BY HandledAnswer DEF h
  <2>4. resume' \in [T -> Answers]
    BY <1>2, <2>3, Typed
  <2> QED
    BY <2>2, <2>4
<1>4. WaitingIsOwed'
  BY <1>1, Typed DEF IndInv, WaitingIsOwed
<1>5. ASSUME NEW u \in managed
      PROVE  /\ resume'[u] \in Versions
             /\ resume[u] <= resume'[u]
             /\ file[u] <= resume'[u] /\ resume'[u] <= progress[u]
             /\ \A i \in 1..Len(alerts'[u]) : alerts'[u][i] # None =>
                  /\ resume'[u] <= alerts'[u][i] /\ alerts'[u][i] <= progress[u]
                  /\ \A j \in 1..i : alerts'[u][j] # None => alerts'[u][j] <= alerts'[u][i]
  <2>1. /\ resume[u] \in Versions
        /\ file[u] <= resume[u] /\ resume[u] <= progress[u]
        /\ \A i \in 1..Len(alerts[u]) : alerts[u][i] # None =>
             /\ resume[u] <= alerts[u][i] /\ alerts[u][i] <= progress[u]
             /\ \A j \in 1..i : alerts[u][j] # None => alerts[u][j] <= alerts[u][i]
    BY DEF IndInv, Newer
  <2>2. u \in T /\ resume[u] \in Int /\ file[u] \in Int
    BY Typed
  <2>3. CASE u = t
    <3>1. h # None => resume[t] <= h /\ h <= progress[t] /\ h \in Versions
      BY <1>2, <2>1, <2>3 DEF Answers
    <3>2. /\ resume'[t] \in Versions
          /\ resume[t] <= resume'[t] /\ file[t] <= resume'[t] /\ resume'[t] <= progress[t]
      BY <1>1, <2>1, <2>2, <2>3, <3>1, Typed
    <3>3. ASSUME NEW i \in 1..Len(alerts'[t]), alerts'[t][i] # None
          PROVE  /\ resume'[t] <= alerts'[t][i] /\ alerts'[t][i] <= progress[t]
                 /\ \A j \in 1..i : alerts'[t][j] # None => alerts'[t][j] <= alerts'[t][i]
      <4>1. /\ i + 1 \in 1..Len(alerts[t]) /\ 1 \in 1..i + 1
            /\ alerts'[t][i] = alerts[t][i + 1]
            /\ \A j \in 1..i : j + 1 \in 1..i + 1 /\ alerts'[t][j] = alerts[t][j + 1]
        BY <1>2
      <4>2. resume[t] <= alerts'[t][i] /\ alerts'[t][i] <= progress[t]
        BY <2>1, <2>3, <3>3, <4>1
      <4>3. h # None => h <= alerts'[t][i]
        BY <2>1, <2>3, <3>3, <4>1, <1>2
      <4>4. \A j \in 1..i : alerts'[t][j] # None => alerts'[t][j] <= alerts'[t][i]
        BY <2>1, <2>3, <3>3, <4>1
      <4> QED
        BY <1>1, <4>2, <4>3, <4>4
    <3> QED
      BY <2>3, <3>2, <3>3
  <2>4. CASE u # t
    <3>1. resume'[u] = resume[u] /\ alerts'[u] = alerts[u]
      BY <1>1, <2>2, <2>4
    <3> QED
      BY <2>1, <2>2, <3>1
  <2> QED
    BY <2>3, <2>4
<1>6. Newer'
  BY <1>1, <1>5 DEF Newer
<1>7. ASSUME NEW u \in managed, u \notin needs, u \notin failed', u \notin errored
      PROVE  Held(u)'
  <2>1. Held(u) /\ u \in T
    BY <1>1, <1>7, Typed DEF IndInv, NotNeededIsHeld
  <2>2. CASE u # t
    BY <2>1, <2>2, <1>1 DEF Held
  <2>3. CASE u = t
    <3>1. alerts[t][Len(alerts[t])] \in {None, progress[t]}
      BY <2>1, <2>3, <1>1 DEF Held
    <3>2. CASE alerts'[t] = << >>
      <4>1. h # None /\ h = alerts[t][Len(alerts[t])]
        BY <1>1, <1>2, <1>7, <2>3, <3>2
      <4>2. resume'[t] = progress[t]
        BY <1>1, <1>7, <2>3, <3>1, <4>1
      <4> QED
        BY <2>3, <3>2, <4>2, <1>1 DEF Held
    <3>3. CASE alerts'[t] # << >>
      <4>1. alerts'[t][Len(alerts'[t])] = alerts[t][Len(alerts[t])]
        BY <1>2, <3>3
      <4> QED
        BY <2>3, <3>1, <3>3, <4>1, <1>1 DEF Held
    <3> QED
      BY <3>2, <3>3
  <2> QED
    BY <2>2, <2>3
<1>8. NotNeededIsHeld'
  BY <1>1, <1>7 DEF NotNeededIsHeld
<1> QED
  BY <1>3, <1>4, <1>5, <1>6, <1>8

(* Handling an answer brings stop() what it waits for, or the torrent is   *)
(* one that failed.                                                        *)
LEMMA AnswerKeepsStop ==
  ASSUME IndInv, NEW t \in T, OnSaveResumeData(t) \/ OnSaveResumeDataFailed(t)
  PROVE  SnapIsBetween' /\ StopPhases' /\ StopGathers' /\ StopSaved'
<1> DEFINE h == Head(alerts[t])
<1>1. /\ alerts[t] \in Seq(Answers) /\ alerts[t] # << >>
      /\ alerts'[t] = Tail(alerts[t])
      /\ \A u \in T \ {t} : alerts'[u] = alerts[u]
      /\ resume'[t] = IF h # None /\ t \in managed THEN h ELSE resume[t]
      /\ h = None => t \in failed'
      /\ failed \subseteq failed'
      /\ \A c \in Calls : rest'[c] = rest[c] \ {t}
      /\ \A c \in Calls : thread'[c] = "read" <=> thread[c] = "read"
      /\ thread'["stop"] # thread["stop"] => rest["stop"] # {} /\ rest'["stop"] = {}
      /\ UNCHANGED <<errored, managed, progress, file, snap, phase, saved, wanted, late>>
  BY HandledAnswer, Typed DEF lt, history
<1>2. /\ Len(alerts[t]) \in Nat \ {0}
      /\ Len(alerts'[t]) = Len(alerts[t]) - 1
      /\ h = alerts[t][1]
      /\ \A i \in 1..Len(alerts[t]) - 1 : alerts'[t][i] = alerts[t][i + 1]
  BY <1>1, TakeAnswer
<1> HIDE DEF h
<1>3. "stop" \in Calls /\ managed \subseteq T /\ Owing' \subseteq Owing
  BY <1>1, Typed DEF Owing
<1>4. \A u \in managed : /\ resume[u] <= resume'[u]
                         /\ resume[u] \in Int /\ resume'[u] \in Int
  BY AnswerKeepsData, Typed
<1>5. SnapIsBetween'
  <2> SUFFICES ASSUME NEW c \in Calls, thread[c] = "read", NEW u \in managed
               PROVE  file[u] <= snap[c][u] /\ snap[c][u] <= resume'[u]
    BY <1>1 DEF SnapIsBetween
  <2>1. file[u] <= snap[c][u] /\ snap[c][u] <= resume[u]
    BY DEF IndInv, SnapIsBetween
  <2>2. snap[c][u] \in Int
    BY Typed
  <2> QED
    BY <1>4, <2>1, <2>2
<1>6. StopPhases'
  <2>1. rest["stop"] = {} => rest'["stop"] = {} /\ thread'["stop"] = thread["stop"]
    BY <1>1, <1>3
  <2>2. /\ thread["stop"] # "off" => rest["stop"] = {}
        /\ phase \in {"up", "stopping"} => rest["stop"] = {} /\ thread["stop"] = "off"
        /\ phase = "stopped" => rest["stop"] = {} /\ thread["stop"] = "off"
        /\ saved => phase = "stopped"
    BY DEF IndInv, StopPhases
  <2>3. thread'["stop"] # "off" => rest'["stop"] = {}
    BY <1>1, <2>1, <2>2
  <2>4. /\ phase' \in {"up", "stopping"} => rest'["stop"] = {} /\ thread'["stop"] = "off"
        /\ phase' = "stopped" => rest'["stop"] = {} /\ thread'["stop"] = "off"
    BY <1>1, <2>1, <2>2
  <2>5. saved' => phase' = "stopped"
    BY <1>1, <2>2
  <2> QED
    BY <2>3, <2>4, <2>5 DEF StopPhases
<1>7. ASSUME NEW u \in Owing', phase \in {"saving", "stopped"}
      PROVE  \/ wanted[u] <= resume'[u]
             \/ /\ u \in rest'["stop"]
                /\ \A i \in 1..Len(alerts'[u]) :
                     alerts'[u][i] # None => wanted[u] <= alerts'[u][i]
  <2>1. \/ wanted[u] <= resume[u]
        \/ /\ u \in rest["stop"]
           /\ \A i \in 1..Len(alerts[u]) :
                alerts[u][i] # None => wanted[u] <= alerts[u][i]
    BY <1>3, <1>7 DEF IndInv, StopGathers
  <2>2. u \in managed /\ u \in T /\ u \notin failed' /\ wanted[u] \in Int
    BY <1>1, <1>3, <1>7, Typed DEF Owing
  <2>3. CASE wanted[u] <= resume[u]
    BY <2>2, <2>3, <1>4
  <2>4. CASE /\ u \in rest["stop"]
             /\ \A i \in 1..Len(alerts[u]) :
                  alerts[u][i] # None => wanted[u] <= alerts[u][i]
    <3>1. CASE u = t
      <4>1. h # None /\ resume'[t] = h
        BY <1>1, <2>2, <3>1
      <4>2. wanted[t] <= alerts[t][1]
        BY <1>2, <2>4, <3>1, <4>1
      <4> QED
        BY <1>2, <3>1, <4>1, <4>2
    <3>2. CASE u # t
      <4>1. u \in rest'["stop"] /\ alerts'[u] = alerts[u]
        BY <1>1, <1>3, <2>2, <2>4, <3>2
      <4> QED
        BY <2>4, <4>1
    <3> QED
      BY <3>1, <3>2
  <2> QED
    BY <2>1, <2>3, <2>4
<1>8. StopGathers'
  <2>1. \A u \in T : wanted'[u] <= progress'[u]
    BY <1>1 DEF IndInv, StopGathers
  <2>2. thread'["stop"] = "read" => \A u \in Owing' : wanted'[u] <= snap'["stop"][u]
    BY <1>1, <1>3 DEF IndInv, StopGathers
  <2>3. phase' \in {"saving", "stopped"} => phase \in {"saving", "stopped"}
    BY <1>1
  <2> QED
    BY <1>1, <1>7, <2>1, <2>2, <2>3 DEF StopGathers
<1>9. StopSaved'
  BY <1>1 DEF IndInv, StopSaved
<1> QED
  BY <1>5, <1>6, <1>8, <1>9

(* OnSaveResumeData and OnSaveResumeDataFailed.                            *)
LEMMA AnswerKeepsInv ==
  ASSUME IndInv, NEW t \in T, OnSaveResumeData(t) \/ OnSaveResumeDataFailed(t)
  PROVE  IndInv'
<1>1. /\ alerts' \in [T -> Seq(Answers)] /\ resume' \in [T -> Answers]
      /\ Newer' /\ WaitingIsOwed' /\ NotNeededIsHeld'
  BY AnswerKeepsData
<1>2. SnapIsBetween' /\ StopPhases' /\ StopGathers' /\ StopSaved'
  BY AnswerKeepsStop
<1>3. /\ waiting' = waiting \ {t}
      /\ rest' \in [Calls -> SUBSET waiting']
      /\ open' = {c \in Bulk : rest'[c] # {}}
      /\ thread' \in [Calls -> Threads]
      /\ Lock'
      /\ failed' \in {failed, failed \cup {t}}
      /\ UNCHANGED <<errored, lt, snap, file, phase, saved, history>>
  BY HandledAnswer
<1>4. TypeOK'
  BY <1>1, <1>3 DEF IndInv, TypeOK, lt, history, Answers, Threads
<1> QED
  BY <1>1, <1>2, <1>3, <1>4 DEF IndInv

(* Timer, SaveOne and OnTorrentPaused: what they ask for comes after what  *)
(* stop() waits for.                                                       *)
LEMMA AskKeepsInv ==
  ASSUME IndInv, NEW c \in Calls \ {"stop"}, NEW ids \in SUBSET T, Save(c, ids),
         events' \in 0..MaxEvents,
         UNCHANGED <<errored, managed, progress, resume, snap, file, phase, saved,
                     history, failed>>
  PROVE  IndInv'
<1>1. /\ thread' \in [Calls -> Threads] /\ Lock'
      /\ \A d \in Calls : thread'[d] = "read" <=> thread[d] = "read"
      /\ thread'["stop"] = thread["stop"] /\ rest'["stop"] = rest["stop"]
      /\ waiting' = waiting \cup (ids \ errored)
      /\ rest' \in [Calls -> SUBSET waiting']
      /\ open' = {d \in Bulk : rest'[d] # {}}
      /\ needs' = needs \ (ids \ errored)
      /\ alerts' \in [T -> Seq(Answers)]
      /\ \A t \in T \ (ids \ errored) : alerts'[t] = alerts[t]
      /\ \A t \in ids \ errored : \E x \in {None, progress[t]} :
           alerts'[t] = Append(alerts[t], x)
  BY SaveAsks, Typed, SMTT(30)
<1>2. Newer' /\ WaitingIsOwed' /\ NotNeededIsHeld'
  BY <1>1, SaveKeepsData
<1>3. TypeOK'
  BY <1>1 DEF IndInv, TypeOK, history, Answers, Threads
<1>4. SnapIsBetween'
  BY <1>1 DEF IndInv, SnapIsBetween
<1>5. StopPhases' /\ StopSaved'
  BY <1>1 DEF IndInv, StopPhases, StopSaved, history
<1>6. ASSUME NEW u \in Owing, u \in rest["stop"],
             \A i \in 1..Len(alerts[u]) : alerts[u][i] # None => wanted[u] <= alerts[u][i],
             NEW i \in 1..Len(alerts'[u]), alerts'[u][i] # None
      PROVE  wanted[u] <= alerts'[u][i]
  <2>1. u \in T /\ alerts[u] \in Seq(Answers) /\ progress[u] \in Versions
    BY Typed DEF Owing
  <2>2. CASE u \in ids \ errored
    <3>1. PICK x \in {None, progress[u]} : alerts'[u] = Append(alerts[u], x)
      BY <2>2, <1>1
    <3>2. x \in Answers
      BY <2>1, <3>1 DEF Answers
    <3>3. /\ Len(alerts[u]) \in Nat
          /\ Len(alerts'[u]) = Len(alerts[u]) + 1
          /\ alerts'[u][Len(alerts[u]) + 1] = x
          /\ \A j \in 1..Len(alerts[u]) : alerts'[u][j] = alerts[u][j]
      BY <2>1, <3>1, <3>2, AddAnswer, LenProperties
    <3>4. wanted[u] <= progress[u]
      BY <2>1 DEF IndInv, StopGathers
    <3>5. CASE i = Len(alerts[u]) + 1
      BY <3>1, <3>3, <3>4, <3>5, <1>6
    <3>6. CASE i # Len(alerts[u]) + 1
      <4>1. i \in 1..Len(alerts[u])
        BY <3>3, <3>6
      <4> QED
        BY <4>1, <3>3, <1>6
    <3> QED
      BY <3>5, <3>6
  <2>3. CASE u \notin ids \ errored
    BY <2>1, <2>3, <1>1, <1>6
  <2> QED
    BY <2>2, <2>3
<1>7. StopGathers'
  <2>1. /\ Owing' = Owing
        /\ UNCHANGED <<wanted, progress, phase, resume, snap>>
    BY DEF Owing, history
  <2>2. /\ \A t \in T : wanted'[t] <= progress'[t]
        /\ thread'["stop"] = "read" => \A u \in Owing' : wanted'[u] <= snap'["stop"][u]
    BY <1>1, <2>1 DEF IndInv, StopGathers
  <2>3. phase' \in {"saving", "stopped"} =>
          \A u \in Owing' :
            \/ wanted'[u] <= resume'[u]
            \/ /\ u \in rest'["stop"]
               /\ \A i \in 1..Len(alerts'[u]) :
                    alerts'[u][i] # None => wanted'[u] <= alerts'[u][i]
    BY <1>1, <1>6, <2>1 DEF IndInv, StopGathers
  <2> QED
    BY <2>2, <2>3 DEF StopGathers
<1> QED
  BY <1>1, <1>2, <1>3, <1>4, <1>5, <1>7 DEF IndInv

(* stop() asks for all that needs saving; the rest is saved or under way.  *)
LEMMA StopSavesKeepsInv ==
  ASSUME IndInv, StopSaves
  PROVE  IndInv'
<1> DEFINE asked == Needing \ errored
<1>1. /\ phase = "stopping" /\ phase' = "saving"
      /\ wanted' = progress
      /\ late' = {t \in T : alerts[t] # << >>}
      /\ Save("stop", Needing)
      /\ UNCHANGED <<errored, managed, progress, events, resume, snap, file, saved, failed>>
  BY DEF StopSaves
<1>2. rest["stop"] = {} /\ thread["stop"] = "off" /\ saved = FALSE
  <2>1. saved \in BOOLEAN /\ (saved => phase = "stopped")
    BY DEF IndInv, TypeOK, StopPhases
  <2>2. rest["stop"] = {} /\ thread["stop"] = "off"
    BY <1>1 DEF IndInv, StopPhases
  <2> QED
    BY <1>1, <2>1, <2>2
<1>3. Needing \in SUBSET T /\ "stop" \in Calls
  BY Typed DEF Needing
<1>4. /\ thread' \in [Calls -> Threads] /\ Lock'
      /\ \A d \in Calls : thread'[d] = "read" <=> thread[d] = "read"
      /\ thread'["stop"] # "off" => rest'["stop"] = {}
      /\ waiting' = waiting \cup asked
      /\ rest' \in [Calls -> SUBSET waiting']
      /\ rest'["stop"] = rest["stop"] \cup asked
      /\ open' = {d \in Bulk : rest'[d] # {}}
      /\ needs' = needs \ asked
      /\ alerts' \in [T -> Seq(Answers)]
      /\ \A t \in T \ asked : alerts'[t] = alerts[t]
      /\ \A t \in asked : \E x \in {None, progress[t]} :
           alerts'[t] = Append(alerts[t], x)
  BY <1>1, <1>2, <1>3, SaveAsks
<1>5. asked \in SUBSET (T \ errored)
  BY <1>3
<1>6. Newer' /\ WaitingIsOwed' /\ NotNeededIsHeld'
  BY <1>1, <1>4, <1>5, SaveKeepsData
<1>7. TypeOK'
  <2>1. waiting' \subseteq T /\ needs' \subseteq T /\ late' \subseteq T
    BY <1>1, <1>3, <1>4, Typed DEF IndInv, TypeOK
  <2>2. wanted' \in [T -> Versions] /\ phase' \in {"up", "stopping", "saving", "stopped"}
    BY <1>1, Typed
  <2> HIDE DEF asked
  <2> QED
    BY <1>1, <1>4, <2>1, <2>2 DEF IndInv, TypeOK, Answers, Threads
<1>8. SnapIsBetween'
  BY <1>1, <1>4 DEF IndInv, SnapIsBetween
<1>9. StopPhases' /\ StopSaved'
  BY <1>1, <1>2, <1>4 DEF StopPhases, StopSaved
<1>10. ASSUME NEW u \in Owing'
       PROVE  \/ progress[u] <= resume[u]
              \/ /\ u \in rest'["stop"]
                 /\ \A i \in 1..Len(alerts'[u]) :
                      alerts'[u][i] # None => progress[u] <= alerts'[u][i]
  <2>1. /\ u \in T /\ u \in managed /\ u \notin failed /\ u \notin errored
        /\ alerts[u] = << >> /\ progress[u] \in Int
    BY <1>1, Typed DEF Owing
  <2>2. CASE u \in needs
    <3>1. u \in asked
      BY <2>1, <2>2 DEF Needing
    <3>2. PICK x \in {None, progress[u]} : alerts'[u] = Append(<< >>, x)
      BY <1>4, <2>1, <3>1
    <3>3. alerts'[u] = << x >>
      BY <3>2
    <3>4. Len(alerts'[u]) = 1 /\ alerts'[u][1] = x
      BY <3>3
    <3> QED
      BY <1>4, <2>1, <3>1, <3>4
  <2>3. CASE u \notin needs
    <3>1. Held(u)
      BY <2>1, <2>3 DEF IndInv, NotNeededIsHeld
    <3> QED
      BY <2>1, <3>1 DEF Held
  <2> QED
    BY <2>2, <2>3
<1>11. StopGathers'
  <2>1. \A t \in T : wanted'[t] <= progress'[t]
    BY <1>1, Typed
  <2>2. thread'["stop"] # "read"
    BY <1>2, <1>3, <1>4
  <2> QED
    BY <1>1, <1>10, <2>1, <2>2 DEF StopGathers
<1> QED
  BY <1>4, <1>6, <1>7, <1>8, <1>9, <1>11 DEF IndInv

(* The alert of a torrent that is gone says nothing about those that stay. *)
LEMMA IgnoreAlertKeepsInv ==
  ASSUME IndInv, NEW t \in T, IgnoreAlert(t)
  PROVE  IndInv'
<1>1. /\ alerts[t] # << >> /\ t \notin managed
      /\ alerts' = [alerts EXCEPT ![t] = Tail(@)]
      /\ UNCHANGED <<errored, lt, waiting, resume, rest, open, thread, snap, file, phase,
                     saved, history, failed>>
  BY DEF IgnoreAlert
<1>2. /\ alerts' \in [T -> Seq(Answers)]
      /\ \A u \in managed : alerts'[u] = alerts[u]
  <2>1. alerts[t] \in Seq(Answers)
    BY Typed
  <2>2. Tail(alerts[t]) \in Seq(Answers)
    BY <1>1, <2>1, TakeAnswer
  <2> QED
    BY <1>1, <2>2, Typed
<1>3. TypeOK'
  BY <1>1, <1>2 DEF IndInv, TypeOK, lt, history, Answers
<1>4. WaitingIsOwed' /\ Newer'
  BY <1>1, <1>2 DEF IndInv, WaitingIsOwed, Newer, lt
<1>5. Lock' /\ SnapIsBetween' /\ StopPhases' /\ StopSaved'
  BY <1>1 DEF IndInv, Lock, SnapIsBetween, StopPhases, StopSaved, lt, history
<1>6. NotNeededIsHeld' /\ StopGathers'
  <2>1. Owing' = Owing /\ Owing \subseteq managed
    BY <1>1 DEF Owing, lt, history
  <2>2. NotNeededIsHeld'
    BY <1>1, <1>2 DEF IndInv, NotNeededIsHeld, Held, lt
  <2>3. StopGathers'
    BY <1>1, <1>2, <2>1 DEF IndInv, StopGathers, lt, history
  <2> QED
    BY <2>2, <2>3
<1> QED
  BY <1>3, <1>4, <1>5, <1>6 DEF IndInv

(* A removed torrent drops out of what is asked for.                       *)
LEMMA RemoveKeepsInv ==
  ASSUME IndInv, NEW t \in T, Remove(t)
  PROVE  IndInv'
<1>1. /\ managed' = managed \ {t}
      /\ resume' = [resume EXCEPT ![t] = None]
      /\ UNCHANGED <<errored, progress, needs, events, alerts, waiting, rest, open,
                     thread, snap, file, phase, saved, history, failed>>
  BY DEF Remove
<1>2. /\ managed' \subseteq managed /\ Owing' \subseteq Owing
      /\ \A u \in managed' : u \in managed /\ resume'[u] = resume[u]
      /\ \A u \in Owing' : u \in managed'
      /\ resume' \in [T -> Answers]
  BY <1>1, Typed DEF Owing, history, Answers
<1>3. TypeOK'
  BY <1>1, <1>2 DEF IndInv, TypeOK, history, Answers
<1>4. WaitingIsOwed' /\ Newer' /\ SnapIsBetween'
  BY <1>1, <1>2 DEF IndInv, WaitingIsOwed, Newer, SnapIsBetween
<1>5. Lock' /\ StopPhases'
  BY <1>1 DEF IndInv, Lock, StopPhases
<1>6. NotNeededIsHeld'
  BY <1>1, <1>2 DEF IndInv, NotNeededIsHeld, Held
<1>7. StopGathers' /\ StopSaved'
  BY <1>1, <1>2 DEF IndInv, StopGathers, StopSaved, history
<1> QED
  BY <1>3, <1>4, <1>5, <1>6, <1>7 DEF IndInv

(* New progress needs saving.                                              *)
LEMMA ProgressKeepsInv ==
  ASSUME IndInv, NEW t \in T, Progress(t)
  PROVE  IndInv'
<1>1. /\ progress[t] < MaxProgress
      /\ progress' = [progress EXCEPT ![t] = @ + 1]
      /\ needs' = needs \cup {t}
      /\ UNCHANGED <<errored, managed, events, alerts, waiting, resume, rest, open,
                     thread, snap, file, phase, saved, history, failed>>
  BY DEF Progress
<1>2. /\ progress' \in [T -> Versions]
      /\ \A u \in T : progress[u] <= progress'[u]
      /\ \A u \in T : u \notin needs' => progress'[u] = progress[u]
      /\ \A u \in T : progress[u] \in Int /\ progress'[u] \in Int
  BY <1>1, Typed, ResumeAssumption, SMTT(30) DEF Versions
<1>3. TypeOK'
  BY <1>1, <1>2 DEF IndInv, TypeOK, history
<1>4. Newer'
  <2> SUFFICES ASSUME NEW u \in managed
               PROVE  /\ resume[u] <= progress'[u]
                      /\ \A i \in 1..Len(alerts[u]) : alerts[u][i] # None =>
                           alerts[u][i] <= progress'[u]
    BY <1>1 DEF IndInv, Newer
  <2>1. /\ u \in T /\ resume[u] \in Int /\ alerts[u] \in Seq(Answers)
        /\ Answers \subseteq Int
    BY Typed
  <2>2. /\ resume[u] <= progress[u]
        /\ \A i \in 1..Len(alerts[u]) : alerts[u][i] # None => alerts[u][i] <= progress[u]
    BY DEF IndInv, Newer
  <2>3. \A i \in 1..Len(alerts[u]) : alerts[u][i] \in Int
    BY <2>1, LenProperties
  <2>4. progress[u] <= progress'[u] /\ progress[u] \in Int /\ progress'[u] \in Int
    BY <1>2, <2>1
  <2>5. resume[u] <= progress'[u]
    BY <2>1, <2>2, <2>4
  <2>6. \A i \in 1..Len(alerts[u]) : alerts[u][i] # None => alerts[u][i] <= progress'[u]
    BY <2>2, <2>3, <2>4
  <2> QED
    BY <2>5, <2>6
<1>5. WaitingIsOwed' /\ Lock' /\ SnapIsBetween' /\ StopPhases' /\ StopSaved'
  BY <1>1 DEF IndInv, WaitingIsOwed, Lock, SnapIsBetween, StopPhases, StopSaved, history
<1>6. NotNeededIsHeld'
  BY <1>1, <1>2, Typed DEF IndInv, NotNeededIsHeld, Held
<1>7. StopGathers'
  <2>1. \A u \in T : wanted[u] <= progress'[u]
    <3> SUFFICES ASSUME NEW u \in T
                 PROVE  wanted[u] <= progress'[u]
      OBVIOUS
    <3>1. wanted[u] <= progress[u] /\ wanted[u] \in Int
      BY Typed DEF IndInv, StopGathers
    <3> QED
      BY <1>2, <3>1
  <2>2. Owing' = Owing
    BY <1>1 DEF Owing, history
  <2> QED
    BY <1>1, <2>1, <2>2 DEF IndInv, StopGathers, history
<1> QED
  BY <1>3, <1>4, <1>5, <1>6, <1>7 DEF IndInv

(* A thread reads resume_data, of stop() with all that was waited for.     *)
LEMMA ReadKeepsInv ==
  ASSUME IndInv, NEW c \in Calls, Read(c)
  PROVE  IndInv'
<1>1. /\ thread[c] = "begin"
      /\ snap' = [snap EXCEPT ![c] = resume]
      /\ thread' = [thread EXCEPT ![c] = "read"]
      /\ UNCHANGED <<errored, lt, alerts, waiting, resume, rest, open, file, phase, saved,
                     history, failed>>
  BY DEF Read
<1>2. /\ thread' \in [Calls -> Threads]
      /\ thread'[c] = "read" /\ snap'[c] = resume
      /\ \A d \in Calls \ {c} : thread'[d] = thread[d] /\ snap'[d] = snap[d]
      /\ snap' \in [Calls -> [T -> Answers]]
  BY <1>1, Typed DEF Threads
<1>3. TypeOK'
  BY <1>1, <1>2 DEF IndInv, TypeOK, lt, history, Answers, Threads
<1>4. Lock'
  BY <1>1, <1>2 DEF IndInv, Lock
<1>5. SnapIsBetween'
  <2> SUFFICES ASSUME NEW d \in Calls, thread'[d] = "read", NEW u \in managed
               PROVE  file[u] <= snap'[d][u] /\ snap'[d][u] <= resume[u]
    BY <1>1 DEF SnapIsBetween, lt
  <2>1. CASE d = c
    <3>1. file[u] <= resume[u] /\ resume[u] \in Int
      BY Typed DEF IndInv, Newer
    <3> QED
      BY <1>2, <2>1, <3>1
  <2>2. CASE d # c
    BY <1>2, <2>2 DEF IndInv, SnapIsBetween
  <2> QED
    BY <2>1, <2>2
<1>6. WaitingIsOwed' /\ Newer' /\ NotNeededIsHeld' /\ StopSaved'
  BY <1>1 DEF IndInv, WaitingIsOwed, Newer, NotNeededIsHeld, Held, StopSaved, lt, history
<1>7. thread'["stop"] = "off" <=> thread["stop"] = "off"
  BY <1>1, <1>2, Typed
<1>8. StopPhases'
  BY <1>1, <1>7 DEF IndInv, StopPhases
<1>9. StopGathers'
  <2>1. Owing' = Owing
    BY <1>1 DEF Owing, lt, history
  <2>2. thread'["stop"] = "read" => \A u \in Owing : wanted[u] <= snap'["stop"][u]
    <3>1. CASE c = "stop"
      <4>1. rest["stop"] = {} /\ phase \in {"saving", "stopped"}
        BY <1>1, <3>1 DEF IndInv, StopPhases, TypeOK
      <4>2. \A u \in Owing : wanted[u] <= resume[u]
        BY <4>1 DEF IndInv, StopGathers
      <4> QED
        BY <1>2, <3>1, <4>2
    <3>2. CASE c # "stop"
      BY <1>2, <3>2, Typed DEF IndInv, StopGathers
    <3> QED
      BY <3>1, <3>2
  <2> QED
    BY <1>1, <2>1, <2>2 DEF IndInv, StopGathers, lt, history
<1> QED
  BY <1>3, <1>4, <1>5, <1>6, <1>8, <1>9 DEF IndInv

(* A thread ends: what it had read replaces the file, which is not newer,  *)
(* and the thread of stop() had read all that stop() asked for.            *)
LEMMA WriteKeepsInv ==
  ASSUME IndInv, NEW c \in Calls, NEW ok \in BOOLEAN, Write(c, ok)
  PROVE  /\ IndInv'
         /\ \A u \in managed : file'[u] >= file[u]
<1>1. /\ thread[c] = "read"
      /\ file' = IF ok /\ snap[c] # NoData THEN snap[c] ELSE file
      /\ snap' = [snap EXCEPT ![c] = NoData]
      /\ phase' = IF c = "stop" THEN "stopped" ELSE phase
      /\ saved' = IF c = "stop" THEN ok ELSE saved
      /\ UNCHANGED <<errored, lt, alerts, waiting, resume, rest, open, history, failed>>
  BY DEF Write
<1>2. \A d \in Calls \ {c} : thread[d] \in {"off", "queued"}
  BY <1>1, Typed DEF IndInv, Lock, Threads
<1>3. /\ thread' \in [Calls -> Threads]
      /\ thread'[c] = "off"
      /\ \A d \in Calls \ {c} :
           thread'[d] = IF thread[d] = "queued" THEN "begin" ELSE "off"
  BY <1>1, <1>2, Typed DEF Write, Release, Threads
<1>4. Lock'
  BY <1>2, <1>3 DEF IndInv, Lock
<1>5. \A d \in Calls : thread'[d] # "read"
  BY <1>3
<1>6. SnapIsBetween'
  BY <1>5 DEF SnapIsBetween
<1>7. /\ snap' \in [Calls -> [T -> Answers]]
      /\ file' \in [T -> Answers]
  BY <1>1, Typed DEF NoData, Answers
<1>8. TypeOK'
  BY <1>1, <1>3, <1>7 DEF IndInv, TypeOK, lt, history, Answers, Threads
<1>9. \A u \in managed : /\ file[u] <= file'[u] /\ file'[u] <= resume[u]
                         /\ file[u] \in Int /\ file'[u] \in Int
  <2> SUFFICES ASSUME NEW u \in managed
               PROVE  /\ file[u] <= file'[u] /\ file'[u] <= resume[u]
                      /\ file[u] \in Int /\ file'[u] \in Int
    OBVIOUS
  <2>1. /\ file[u] <= snap[c][u] /\ snap[c][u] <= resume[u]
        /\ file[u] <= resume[u]
    BY <1>1 DEF IndInv, SnapIsBetween, Newer
  <2>2. file[u] \in Int /\ snap[c][u] \in Int
    BY Typed
  <2> QED
    BY <1>1, <2>1, <2>2
<1>10. Newer'
  BY <1>1, <1>9 DEF IndInv, Newer, lt
<1>11. WaitingIsOwed' /\ NotNeededIsHeld'
  BY <1>1 DEF IndInv, WaitingIsOwed, NotNeededIsHeld, Held, lt
<1>12. /\ thread["stop"] = "off" => thread'["stop"] = "off"
       /\ c = "stop" => phase = "saving" /\ rest["stop"] = {} /\ thread'["stop"] = "off"
       /\ thread["stop"] # "off" => rest["stop"] = {}
  BY <1>1, <1>2, <1>3, Typed DEF IndInv, StopPhases, TypeOK
<1>13. StopPhases'
  <2>1. CASE c = "stop"
    BY <1>1, <1>12, <2>1 DEF StopPhases
  <2>2. CASE c # "stop"
    BY <1>1, <1>12, <2>2 DEF IndInv, StopPhases
  <2> QED
    BY <2>1, <2>2
<1>14. Owing' = Owing /\ Owing \subseteq managed /\ UNCHANGED <<wanted, progress>>
  BY <1>1 DEF Owing, lt, history
<1>15. StopGathers'
  <2>1. "stop" \in Calls
    BY Typed
  <2>2. thread'["stop"] # "read"
    BY <1>5, <2>1
  <2>3. phase' \in {"saving", "stopped"} => phase \in {"saving", "stopped"}
    BY <1>1, <1>12
  <2> QED
    BY <1>1, <1>14, <2>2, <2>3 DEF IndInv, StopGathers
<1>16. StopSaved'
  <2> SUFFICES ASSUME phase' = "stopped", saved', NEW u \in Owing
               PROVE  file'[u] >= wanted[u]
    BY <1>14 DEF StopSaved, Owing
  <2>1. /\ u \in managed /\ u \in T
        /\ wanted[u] \in Int /\ wanted[u] > None
    BY <1>14, Typed
  <2>2. CASE c = "stop"
    <3>1. ok /\ wanted[u] <= snap["stop"][u]
      BY <1>1, <2>2 DEF IndInv, StopGathers
    <3>2. snap["stop"][u] # None
      BY <2>1, <3>1, Typed
    <3>3. snap["stop"] # NoData
      BY <2>1, <3>2 DEF NoData
    <3>4. file' = snap["stop"]
      BY <1>1, <2>2, <3>1, <3>3
    <3>5. snap["stop"][u] \in Int
      BY <2>1, Typed
    <3> QED
      BY <2>1, <3>1, <3>4, <3>5
  <2>3. CASE c # "stop"
    <3>1. file[u] >= wanted[u]
      BY <1>1, <2>3 DEF IndInv, StopSaved, Owing
    <3> QED
      BY <1>9, <2>1, <3>1
  <2> QED
    BY <2>2, <2>3
<1> QED
  BY <1>4, <1>6, <1>8, <1>9, <1>10, <1>11, <1>13, <1>15, <1>16 DEF IndInv

(* stop() waits for save_state() first.                                    *)
LEMMA StopKeepsInv ==
  ASSUME IndInv, Stop
  PROVE  IndInv'
<1>1. /\ phase = "up" /\ phase' = "stopping"
      /\ UNCHANGED <<errored, lt, alerts, waiting, resume, rest, open, thread, snap, file,
                     saved, history, failed>>
  BY DEF Stop
<1>2. TypeOK'
  BY <1>1 DEF IndInv, TypeOK, lt, history
<1>3. WaitingIsOwed' /\ Newer' /\ Lock' /\ SnapIsBetween' /\ NotNeededIsHeld'
  BY <1>1 DEF IndInv, WaitingIsOwed, Newer, Lock, SnapIsBetween, NotNeededIsHeld, Held, lt
<1>4. saved' = saved /\ ~saved
  BY <1>1 DEF IndInv, StopPhases
<1>5. StopPhases' /\ StopSaved'
  BY <1>1, <1>4 DEF IndInv, StopPhases, StopSaved
<1>6. StopGathers'
  BY <1>1 DEF IndInv, StopGathers, Owing, lt, history
<1> QED
  BY <1>2, <1>3, <1>5, <1>6 DEF IndInv

(* A step that changes nothing.                                            *)
LEMMA StutterKeepsInv ==
  ASSUME IndInv, UNCHANGED vars
  PROVE  IndInv'
BY DEF IndInv, TypeOK, WaitingIsOwed, Newer, Lock, SnapIsBetween, NotNeededIsHeld, Held,
       StopPhases, StopGathers, Owing, StopSaved, vars, lt, history

(* Nothing is asked for at first, and the file has the data of every one.  *)
LEMMA InitEstablishesInv == Init => IndInv
<1> SUFFICES ASSUME Init
             PROVE  IndInv
  OBVIOUS
<1>1. 0 \in Versions /\ Versions \subseteq Int /\ None \notin Versions
  BY ResumeAssumption DEF Versions, None
<1>2. << >> \in Seq(Answers) /\ Len(<< >>) = 0
  BY EmptySeq
<1>3. /\ managed = T /\ progress = [t \in T |-> 0] /\ needs = {}
      /\ alerts = [t \in T |-> << >>] /\ waiting = {}
      /\ resume = [t \in T |-> 0] /\ file = resume /\ wanted = progress
      /\ rest = [c \in Calls |-> {}] /\ thread = [c \in Calls |-> "off"]
      /\ phase = "up" /\ ~saved
  BY DEF Init
<1>4. "stop" \in Calls /\ Bulk \subseteq Calls
  BY DEF Calls, Bulk
<1>5. open = {c \in Bulk : rest[c] # {}}
  BY <1>3, <1>4 DEF Init
<1>6. snap \in [Calls -> [T -> Answers]]
  BY DEF Init, NoData, Answers
<1>7. TypeOK
  <2>1. alerts \in [T -> Seq(Answers)] /\ errored \subseteq T
    BY <1>2, <1>3 DEF Init
  <2>2. /\ progress \in [T -> Versions] /\ wanted \in [T -> Versions]
        /\ resume \in [T -> Answers] /\ file \in [T -> Answers]
    BY <1>1, <1>3 DEF Answers
  <2>3. rest \in [Calls -> SUBSET waiting] /\ thread \in [Calls -> Threads]
    BY <1>3 DEF Threads
  <2>4. events \in 0..MaxEvents /\ late = {} /\ failed = {} /\ saved = FALSE
    BY ResumeAssumption DEF Init
  <2> QED
    BY <1>3, <1>5, <1>6, <2>1, <2>2, <2>3, <2>4 DEF TypeOK, Answers, Threads
<1>8. Newer /\ WaitingIsOwed /\ NotNeededIsHeld
  BY <1>1, <1>2, <1>3 DEF Newer, WaitingIsOwed, NotNeededIsHeld, Held
<1>9. Lock /\ SnapIsBetween /\ StopPhases /\ StopSaved
  BY <1>3, <1>4 DEF Lock, SnapIsBetween, StopPhases, StopSaved
<1>10. StopGathers
  BY <1>1, <1>3, <1>4 DEF StopGathers
<1> QED
  BY <1>7, <1>8, <1>9, <1>10 DEF IndInv

(* Of a step, besides: only Write changes the file, and torrents that are  *)
(* managed after it were so before.                                        *)
LEMMA StepKeepsInv ==
  ASSUME IndInv, [Next]_vars
  PROVE  /\ IndInv'
         /\ \A t \in managed' : file'[t] >= file[t]
<1>1. \A t \in managed : file[t] >= file[t]
  BY Typed
<1>2. CASE Timer
  <2>1. "timer" \in Calls \ {"stop"} /\ Needing \in SUBSET T /\ events \in 0..MaxEvents
    BY Typed DEF Calls, Bulk, Needing, IndInv, TypeOK
  <2>2. IndInv'
    BY <1>2, <2>1, AskKeepsInv DEF Timer
  <2> QED
    BY <1>1, <1>2, <2>2 DEF Timer
<1>3. ASSUME NEW t \in T, SaveOne(t)
      PROVE  IndInv' /\ \A u \in managed' : file'[u] >= file[u]
  <2>1. "single" \in Calls \ {"stop"} /\ {t} \in SUBSET T /\ events' \in 0..MaxEvents
    BY <1>3, ResumeAssumption DEF Calls, Bulk, IndInv, TypeOK, SaveOne
  <2>2. IndInv'
    BY <1>3, <2>1, AskKeepsInv DEF SaveOne
  <2> QED
    BY <1>1, <1>3, <2>2 DEF SaveOne
<1>4. ASSUME NEW t \in T, OnTorrentPaused(t)
      PROVE  SaveOne(t)
  BY <1>4 DEF OnTorrentPaused
<1>5. ASSUME NEW t \in T, OnSaveResumeData(t) \/ OnSaveResumeDataFailed(t)
      PROVE  IndInv' /\ \A u \in managed' : file'[u] >= file[u]
  <2>1. UNCHANGED <<managed, file>>
    BY <1>5, HandledAnswer DEF lt
  <2> QED
    BY <1>1, <1>5, <2>1, AnswerKeepsInv
<1>6. ASSUME NEW t \in T, IgnoreAlert(t)
      PROVE  IndInv' /\ \A u \in managed' : file'[u] >= file[u]
  <2>1. UNCHANGED <<managed, file>>
    BY <1>6 DEF IgnoreAlert, lt
  <2> QED
    BY <1>1, <1>6, <2>1, IgnoreAlertKeepsInv
<1>7. ASSUME NEW t \in T, Remove(t)
      PROVE  IndInv' /\ \A u \in managed' : file'[u] >= file[u]
  <2>1. managed' \subseteq managed /\ file' = file
    BY <1>7 DEF Remove
  <2> QED
    BY <1>1, <1>7, <2>1, RemoveKeepsInv
<1>8. ASSUME NEW t \in T, Progress(t)
      PROVE  IndInv' /\ \A u \in managed' : file'[u] >= file[u]
  <2>1. UNCHANGED <<managed, file>>
    BY <1>8 DEF Progress
  <2> QED
    BY <1>1, <1>8, <2>1, ProgressKeepsInv
<1>9. ASSUME NEW c \in Calls, Read(c)
      PROVE  IndInv' /\ \A u \in managed' : file'[u] >= file[u]
  <2>1. UNCHANGED <<managed, file>>
    BY <1>9 DEF Read, lt
  <2> QED
    BY <1>1, <1>9, <2>1, ReadKeepsInv
<1>10. ASSUME NEW c \in Calls, NEW ok \in BOOLEAN, Write(c, ok)
       PROVE  IndInv' /\ \A u \in managed' : file'[u] >= file[u]
  <2>1. managed' = managed
    BY <1>10 DEF Write, lt
  <2> QED
    BY <1>10, <2>1, WriteKeepsInv
<1>11. CASE Stop
  <2>1. UNCHANGED <<managed, file>>
    BY <1>11 DEF Stop, lt
  <2> QED
    BY <1>1, <1>11, <2>1, StopKeepsInv
<1>12. CASE StopSaves
  <2>1. UNCHANGED <<managed, file>>
    BY <1>12 DEF StopSaves
  <2> QED
    BY <1>1, <1>12, <2>1, StopSavesKeepsInv
<1>13. CASE UNCHANGED vars
  <2>1. UNCHANGED <<managed, file>>
    BY <1>13 DEF vars, lt
  <2> QED
    BY <1>1, <1>13, <2>1, StutterKeepsInv
<1> QED
  BY <1>2, <1>3, <1>4, <1>5, <1>6, <1>7, <1>8, <1>9, <1>10, <1>11, <1>12, <1>13 DEF Next

-----------------------------------------------------------------------------
(* From torrents.fastresume over resume_data and the answers under way to  *)
(* libtorrent the data of a torrent only gets newer, one thread at a time  *)
(* writes it, and what is not marked as needing to be saved is on its way. *)
THEOREM ResumeInvariant == Spec => []IndInv
<1>1. IndInv /\ [Next]_vars => IndInv'
  BY StepKeepsInv
<1> QED
  BY InitEstablishesInv, <1>1, PTL DEF Spec

(* A torrent that save_resume_data() waits for has an answer under way.    *)
THEOREM WaitedForIsAnswered == Spec => []WaitingIsOwed
<1>1. IndInv => WaitingIsOwed
  BY DEF IndInv
<1> QED
  BY <1>1, ResumeInvariant, PTL

(* What stop() takes as saved, and removes the marker for, is in the file. *)
THEOREM StopLosesNothing == Spec => []StopSaved
<1>1. IndInv => StopSaved
  BY DEF IndInv
<1> QED
  BY <1>1, ResumeInvariant, PTL

(* No thread replaces torrents.fastresume by older data of a torrent.      *)
THEOREM FileOnlyGetsNewer == Spec => FileNeverGoesBack
<1>1. IndInv /\ [Next]_vars => [\A t \in managed' : file'[t] >= file[t]]_vars
  BY StepKeepsInv
<1> QED
  BY <1>1, ResumeInvariant, PTL DEF Spec, FileNeverGoesBack
=============================================================================
