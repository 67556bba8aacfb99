------------------------- MODULE SessionProxyProofs -------------------------
(***************************************************************************)
(* The session proxy knows the torrents of the session, every alert finds  *)
(* the request it answers, and a diff leaves out only what the client has, *)
(* for any torrents, sessions and bounds.                                  *)
(***************************************************************************)
EXTENDS SessionProxy, SequenceTheorems, TLAPS

(* A sequence of anything is one of its own elements.                      *)
LEMMA AnySequence ==
  ASSUME NEW S, NEW s \in Seq(S)
  PROVE  IsSequence(s) /\ Len(s) \in Nat /\ DOMAIN s = 1..Len(s)
<1> DEFINE R == {s[i] : i \in DOMAIN s}
<1>1. Len(s) \in Nat /\ s \in [1..Len(s) -> S] /\ DOMAIN s = 1..Len(s)
  BY LenProperties
<1>2. s \in [1..Len(s) -> R]
  BY <1>1
<1>3. s \in Seq(R)
  BY <1>1, <1>2, IsASeq, SMTT(30)
<1> QED
  BY <1>1, <1>3 DEF IsSequence

(* A message added to a queue: the others keep their places.               *)
LEMMA Appended ==
  ASSUME NEW s, IsSequence(s), NEW x
  PROVE  /\ IsSequence(Append(s, x))
         /\ Len(s) \in Nat
         /\ Len(Append(s, x)) = Len(s) + 1
         /\ Append(s, x)[Len(s) + 1] = x
         /\ \A i \in 1..Len(s) : Append(s, x)[i] = s[i]
<1> DEFINE R == {s[i] : i \in DOMAIN s}
           S == R \cup {x}
<1>1. Len(s) \in Nat /\ s \in [1..Len(s) -> R]
  BY LenProperties DEF IsSequence
<1>2. s \in [1..Len(s) -> S]
  BY <1>1
<1>3. s \in Seq(S) /\ x \in S
  BY <1>1, <1>2, IsASeq
<1> HIDE DEF S
<1>4. /\ Append(s, x) \in Seq(S)
      /\ Len(Append(s, x)) = Len(s) + 1
      /\ Append(s, x)[Len(s) + 1] = x
      /\ \A i \in 1..Len(s) : Append(s, x)[i] = s[i]
  BY <1>3, AppendProperties
<1> QED
  BY <1>1, <1>4, AnySequence

(* The oldest message taken from a queue: the others move up.              *)
LEMMA Taken ==
  ASSUME NEW s, IsSequence(s), s # <<>>
  PROVE  /\ IsSequence(Tail(s))
         /\ Len(s) \in Nat \ {0} /\ Len(Tail(s)) = Len(s) - 1
         /\ Head(s) = s[1]
         /\ \A i \in 1..Len(s) - 1 : Tail(s)[i] = s[i + 1]
<1> DEFINE R == {s[i] : i \in DOMAIN s}
<1>1. s \in Seq(R)
  BY DEF IsSequence
<1> HIDE DEF R
<1>2. Len(s) \in Nat \ {0}
  BY <1>1, EmptySeq
<1>3. /\ Tail(s) \in Seq(R) /\ Len(Tail(s)) = Len(s) - 1
      /\ \A i \in 1..Len(Tail(s)) : Tail(s)[i] = s[i + 1]
  BY <1>1, HeadTailProperties
<1>4. Head(s) = s[1]
  BY <1>1, <1>2
<1> QED
  BY <1>2, <1>3, <1>4, AnySequence

(* Of a queue whose oldest message is taken: what is last stays last.      *)
LEMMA TakenKeepsLast ==
  ASSUME NEW s, IsSequence(s), s # <<>>, NEW t
  PROVE  /\ \A i \in 1..Len(s) - 1 : QuietAfter(Tail(s), i, t) <=> QuietAfter(s, i + 1, t)
         /\ Quiet(s, t) <=> Quiet(Tail(s), t) /\ ~IsAbout(Head(s), t)
         /\ ~Quiet(Tail(s), t) /\ LastIsRight(s, t) => LastIsRight(Tail(s), t)
         /\ Quiet(Tail(s), t) /\ LastIsRight(s, t)
              => (Head(s).type = "added" <=> t \in alive)
<1> DEFINE n == Len(s)
           r == Tail(s)
<1>1. /\ n \in Nat \ {0} /\ Len(r) = n - 1 /\ Head(s) = s[1]
      /\ \A i \in 1..n - 1 : r[i] = s[i + 1]
  BY Taken
<1> HIDE DEF n, r
<1>2. \A i \in 1..n - 1 : QuietAfter(r, i, t) <=> QuietAfter(s, i + 1, t)
  <2> SUFFICES ASSUME NEW i \in 1..n - 1
               PROVE  QuietAfter(r, i, t) <=> QuietAfter(s, i + 1, t)
    OBVIOUS
  <2>1. ASSUME QuietAfter(r, i, t), NEW j \in 1..n, j > i + 1
        PROVE  ~IsAbout(s[j], t)
    <3>1. j - 1 \in 1..n - 1 /\ j - 1 > i /\ r[j - 1] = s[j]
      BY <1>1, <2>1
    <3> QED
      BY <1>1, <2>1, <3>1 DEF QuietAfter
  <2>2. ASSUME QuietAfter(s, i + 1, t), NEW j \in 1..n - 1, j > i
        PROVE  ~IsAbout(r[j], t)
    <3>1. j + 1 \in 1..n /\ j + 1 > i + 1 /\ r[j] = s[j + 1]
      BY <1>1, <2>2
    <3> QED
      BY <1>1, <2>2, <3>1 DEF QuietAfter, n
  <2> QED
    BY <1>1, <2>1, <2>2 DEF QuietAfter, n
<1>3. Quiet(r, t) <=> \A i \in 2..n : ~IsAbout(s[i], t)
  <2>1. ASSUME Quiet(r, t), NEW i \in 2..n
        PROVE  ~IsAbout(s[i], t)
    <3>1. i - 1 \in 1..n - 1 /\ r[i - 1] = s[i]
      BY <1>1, <2>1
    <3> QED
      BY <1>1, <2>1, <3>1 DEF Quiet
  <2>2. ASSUME \A i \in 2..n : ~IsAbout(s[i], t), NEW j \in 1..n - 1
        PROVE  ~IsAbout(r[j], t)
    <3>1. j + 1 \in 2..n /\ r[j] = s[j + 1]
      BY <1>1
    <3> QED
      BY <2>2, <3>1
  <2> QED
    BY <1>1, <2>1, <2>2 DEF Quiet
<1>4. Quiet(s, t) <=> Quiet(r, t) /\ ~IsAbout(s[1], t)
  <2>1. /\ \A i \in 1..n : i = 1 \/ i \in 2..n
        /\ 1 \in 1..n /\ \A i \in 2..n : i \in 1..n
    BY <1>1
  <2> QED
    BY <1>1, <1>3, <2>1 DEF Quiet, n
<1>5. ASSUME LastIsRight(s, t)
      PROVE  /\ ~Quiet(r, t) => LastIsRight(r, t)
             /\ Quiet(r, t) => (s[1].type = "added" <=> t \in alive)
  <2>1. PICK i \in 1..n : /\ IsAbout(s[i], t) /\ QuietAfter(s, i, t)
                          /\ s[i].type = "added" <=> t \in alive
    BY <1>5 DEF LastIsRight, n
  <2>2. ASSUME ~Quiet(r, t)
        PROVE  LastIsRight(r, t)
    <3>1. PICK j \in 2..n : IsAbout(s[j], t)
      BY <1>3, <2>2
    <3>2. i >= j
      BY <1>1, <2>1, <3>1 DEF QuietAfter, n
    <3>3. /\ i - 1 \in 1..n - 1 /\ r[i - 1] = s[i]
          /\ QuietAfter(r, i - 1, t)
      BY <1>1, <1>2, <2>1, <3>1, <3>2
    <3> QED
      BY <1>1, <2>1, <3>3 DEF LastIsRight
  <2>3. ASSUME Quiet(r, t)
        PROVE  s[1].type = "added" <=> t \in alive
    <3>1. i = 1
      BY <1>1, <1>3, <2>1, <2>3
    <3> QED
      BY <2>1, <3>1
  <2> QED
    BY <2>2, <2>3
<1> QED
  BY <1>1, <1>2, <1>4, <1>5 DEF n, r

-----------------------------------------------------------------------------
(* An answer, or an event about another torrent, comes last.               *)
LEMMA AppendComesTrue ==
  ASSUME IsSequence(toClient), NEW t, ComesTrue(t), NEW x, ~IsAbout(x, t),
         toClient' = Append(toClient, x),
         TellsState(x, t) \/ TellsOne(x, t) => t \in alive,
         t \in alive' <=> t \in alive,
         started /\ ~SessionAsked' /\ t \in alive => ~SessionAsked \/ TellsState(x, t),
         UNCHANGED <<later, torrents, started>>
  PROVE  ComesTrue(t)'
<1> DEFINE n == Len(toClient)
<1>1. /\ n \in Nat /\ Len(toClient') = n + 1
      /\ toClient'[n + 1] = x
      /\ \A i \in 1..n : toClient'[i] = toClient[i]
  BY Appended
<1> HIDE DEF n
<1>2. Quiet(toClient', t) <=> Quiet(toClient, t)
  BY <1>1 DEF Quiet, n
<1>3. \A i \in 1..n : QuietAfter(toClient', i, t) <=> QuietAfter(toClient, i, t)
  BY <1>1 DEF QuietAfter, n
<1>4. ~Quiet(toClient', t) => LastIsRight(toClient, t)'
  <2> SUFFICES ASSUME ~Quiet(toClient', t)
               PROVE  LastIsRight(toClient, t)'
    OBVIOUS
  <2>1. PICK i \in 1..n : /\ IsAbout(toClient[i], t) /\ QuietAfter(toClient, i, t)
                          /\ toClient[i].type = "added" <=> t \in alive
    BY <1>2 DEF ComesTrue, LastIsRight, n
  <2>2. i \in 1..Len(toClient')
    BY <1>1
  <2> QED
    BY <1>1, <1>3, <2>1, <2>2 DEF LastIsRight
<1>5. Quiet(toClient', t) /\ ~Quiet(later', t) => LastIsRight(later, t)'
  BY <1>2 DEF ComesTrue, LastIsRight, Quiet, QuietAfter
<1>6. ASSUME NEW i \in 1..Len(toClient'),
             TellsState(toClient'[i], t) \/ TellsOne(toClient'[i], t),
             QuietAfter(toClient', i, t)
      PROVE  t \in alive'
  <2>1. CASE i = n + 1
    BY <1>1, <1>6, <2>1
  <2>2. CASE i # n + 1
    <3>1. i \in 1..n
      BY <1>1, <2>2
    <3> QED
      BY <1>1, <1>3, <1>6, <3>1 DEF ComesTrue, n
  <2> QED
    BY <2>1, <2>2
<1>7. ASSUME Quiet(toClient', t), Quiet(later', t), t \in torrents'
      PROVE  t \in alive'
  BY <1>2, <1>7 DEF ComesTrue
<1>8. ASSUME Quiet(toClient', t), Quiet(later', t), t \in alive', started', ~SessionAsked'
      PROVE  t \in torrents' \/ \E i \in 1..Len(toClient') : TellsState(toClient'[i], t)
  <2>1. CASE TellsState(x, t)
    BY <1>1, <2>1
  <2>2. CASE ~SessionAsked
    <3>1. t \in torrents \/ \E i \in 1..n : TellsState(toClient[i], t)
      BY <1>2, <1>8, <2>2 DEF ComesTrue, n
    <3>2. \A i \in 1..n : i \in 1..Len(toClient')
      BY <1>1
    <3> QED
      BY <1>1, <3>1, <3>2
  <2> QED
    BY <1>8, <2>1, <2>2
<1> QED
  BY <1>4, <1>5, <1>6, <1>7, <1>8 DEF ComesTrue

(* The event that a torrent has come or gone comes last.                   *)
LEMMA EventComesTrue ==
  ASSUME IsSequence(toClient), NEW t, NEW x, IsAbout(x, t),
         toClient' = Append(toClient, x),
         x.type = "added" <=> t \in alive'
  PROVE  ComesTrue(t)'
<1> DEFINE n == Len(toClient)
<1>1. /\ n \in Nat /\ Len(toClient') = n + 1
      /\ toClient'[n + 1] = x
  BY Appended
<1> HIDE DEF n
<1>2. ~Quiet(toClient', t)
  BY <1>1 DEF Quiet
<1>3. LastIsRight(toClient, t)'
  BY <1>1 DEF LastIsRight, QuietAfter
<1>4. ASSUME NEW i \in 1..Len(toClient'), QuietAfter(toClient', i, t)
      PROVE  ~TellsState(toClient'[i], t) /\ ~TellsOne(toClient'[i], t)
  <2>1. i = n + 1
    BY <1>1, <1>4 DEF QuietAfter
  <2> QED
    BY <1>1, <2>1 DEF IsAbout, TellsState, TellsOne
<1> QED
  BY <1>2, <1>3, <1>4 DEF ComesTrue

(* An event is read: it is the last of those that wait to run.             *)
LEMMA ReadEventComesTrue ==
  ASSUME IsSequence(toClient), IsSequence(later), toClient # <<>>,
         NEW t, ComesTrue(t), NEW m, m = Head(toClient), IsEvent(m),
         toClient' = Tail(toClient), later' = Append(later, m),
         UNCHANGED <<alive, torrents, started, toDaemon>>
  PROVE  ComesTrue(t)'
<1> DEFINE n == Len(toClient)
           k == Len(later)
<1>1. /\ n \in Nat \ {0} /\ Len(toClient') = n - 1 /\ m = toClient[1]
      /\ \A i \in 1..n - 1 : toClient'[i] = toClient[i + 1]
  BY Taken
<1>2. /\ k \in Nat /\ Len(later') = k + 1 /\ later'[k + 1] = m
      /\ \A i \in 1..k : later'[i] = later[i]
  BY Appended
<1> HIDE DEF n, k
<1>3. ~TellsState(m, t) /\ ~TellsOne(m, t)
  BY DEF IsEvent, TellsState, TellsOne
<1>4. \A i \in 1..n - 1 : QuietAfter(toClient', i, t) <=> QuietAfter(toClient, i + 1, t)
  BY TakenKeepsLast DEF n
<1>5. Quiet(toClient, t) <=> Quiet(toClient', t) /\ ~IsAbout(m, t)
  BY TakenKeepsLast
<1>6. ~Quiet(toClient, t) =>
        IF Quiet(toClient', t) THEN m.type = "added" <=> t \in alive
                               ELSE LastIsRight(toClient', t)
  BY TakenKeepsLast DEF ComesTrue
<1>7. ~Quiet(toClient', t) => LastIsRight(toClient, t)'
  BY <1>5, <1>6 DEF LastIsRight
<1>8. Quiet(later', t) <=> Quiet(later, t) /\ ~IsAbout(m, t)
  <2>1. /\ k + 1 \in 1..k + 1
        /\ \A i \in 1..k : i \in 1..k + 1
        /\ \A i \in 1..k + 1 : i = k + 1 \/ i \in 1..k
    BY <1>2
  <2> QED
    BY <1>2, <2>1 DEF Quiet, k
<1>9. ASSUME Quiet(toClient', t), ~Quiet(later', t)
      PROVE  LastIsRight(later, t)'
  <2>1. CASE IsAbout(m, t)
    <3>1. m.type = "added" <=> t \in alive'
      BY <1>5, <1>6, <1>9, <2>1
    <3>2. k + 1 \in 1..Len(later') /\ QuietAfter(later', k + 1, t)
      BY <1>2 DEF QuietAfter
    <3> QED
      BY <1>2, <2>1, <3>1, <3>2 DEF LastIsRight
  <2>2. CASE ~IsAbout(m, t)
    <3>1. PICK i \in 1..k : /\ IsAbout(later[i], t) /\ QuietAfter(later, i, t)
                            /\ later[i].type = "added" <=> t \in alive
      BY <1>5, <1>8, <1>9, <2>2 DEF ComesTrue, LastIsRight, k
    <3>2. i \in 1..Len(later') /\ later'[i] = later[i]
      BY <1>2
    <3>3. QuietAfter(later', i, t)
      <4> SUFFICES ASSUME NEW j \in 1..k + 1, j > i
                   PROVE  ~IsAbout(later'[j], t)
        BY <1>2 DEF QuietAfter
      <4>1. CASE j = k + 1
        BY <1>2, <2>2, <4>1
      <4>2. CASE j # k + 1
        <5>1. j \in 1..k
          BY <1>2, <4>2
        <5> QED
          BY <1>2, <3>1, <5>1 DEF QuietAfter, k
      <4> QED
        BY <4>1, <4>2
    <3> QED
      BY <3>1, <3>2, <3>3 DEF LastIsRight
  <2> QED
    BY <2>1, <2>2
<1>10. ASSUME NEW i \in 1..Len(toClient'),
              TellsState(toClient'[i], t) \/ TellsOne(toClient'[i], t),
              QuietAfter(toClient', i, t)
       PROVE  t \in alive'
  <2>1. /\ i \in 1..n - 1 /\ i + 1 \in 1..n /\ toClient'[i] = toClient[i + 1]
        /\ QuietAfter(toClient, i + 1, t)
    BY <1>1, <1>4, <1>10
  <2> QED
    BY <1>10, <2>1 DEF ComesTrue, n
<1>11. ASSUME Quiet(toClient', t), Quiet(later', t)
       PROVE  /\ t \in torrents' => t \in alive'
              /\ t \in alive' /\ started' /\ ~SessionAsked' =>
                   t \in torrents' \/ \E i \in 1..Len(toClient') : TellsState(toClient'[i], t)
  <2>1. Quiet(toClient, t) /\ Quiet(later, t)
    BY <1>5, <1>8, <1>11
  <2>2. SessionAsked' = SessionAsked
    BY DEF SessionAsked
  <2>3. ASSUME NEW i \in 1..n, TellsState(toClient[i], t)
        PROVE  \E j \in 1..Len(toClient') : TellsState(toClient'[j], t)
    <3>1. i # 1
      BY <1>1, <1>3, <2>3
    <3>2. i - 1 \in 1..Len(toClient') /\ toClient'[i - 1] = toClient[i]
      BY <1>1, <3>1
    <3> QED
      BY <2>3, <3>2
  <2> QED
    BY <2>1, <2>2, <2>3 DEF ComesTrue, n
<1> QED
  BY <1>7, <1>9, <1>10, <1>11 DEF ComesTrue

(* An answer is read: what it tells is known, whatever events wait.        *)
LEMMA ReadAnswerComesTrue ==
  ASSUME IsSequence(toClient), toClient # <<>>,
         NEW t, ComesTrue(t), NEW m, m = Head(toClient), ~IsEvent(m),
         toClient' = Tail(toClient),
         t \in torrents' <=> t \in torrents \/ TellsState(m, t) \/ TellsOne(m, t),
         UNCHANGED <<alive, later, started, toDaemon>>
  PROVE  ComesTrue(t)'
<1> DEFINE n == Len(toClient)
<1>1. /\ n \in Nat \ {0} /\ Len(toClient') = n - 1 /\ m = toClient[1]
      /\ \A i \in 1..n - 1 : toClient'[i] = toClient[i + 1]
  BY Taken
<1> HIDE DEF n
<1>2. ~IsAbout(m, t)
  BY DEF IsEvent, IsAbout
<1>3. \A i \in 1..n - 1 : QuietAfter(toClient', i, t) <=> QuietAfter(toClient, i + 1, t)
  BY TakenKeepsLast DEF n
<1>4. Quiet(toClient, t) <=> Quiet(toClient', t)
  BY <1>2, TakenKeepsLast
<1>5. ~Quiet(toClient', t) => LastIsRight(toClient, t)'
  <2>1. ~Quiet(toClient', t) => LastIsRight(toClient', t)
    BY <1>4, TakenKeepsLast DEF ComesTrue
  <2> QED
    BY <2>1 DEF LastIsRight
<1>6. Quiet(toClient', t) /\ ~Quiet(later', t) => LastIsRight(later, t)'
  BY <1>4 DEF ComesTrue, LastIsRight
<1>7. ASSUME NEW i \in 1..Len(toClient'),
             TellsState(toClient'[i], t) \/ TellsOne(toClient'[i], t),
             QuietAfter(toClient', i, t)
      PROVE  t \in alive'
  <2>1. /\ i + 1 \in 1..n /\ toClient'[i] = toClient[i + 1]
        /\ QuietAfter(toClient, i + 1, t)
    BY <1>1, <1>3, <1>7
  <2> QED
    BY <1>7, <2>1 DEF ComesTrue, n
<1>8. ASSUME Quiet(toClient', t), Quiet(later', t)
      PROVE  /\ t \in torrents' => t \in alive'
             /\ t \in alive' /\ started' /\ ~SessionAsked' =>
                  t \in torrents' \/ \E i \in 1..Len(toClient') : TellsState(toClient'[i], t)
  <2>1. Quiet(toClient, t) /\ Quiet(later, t)
    BY <1>4, <1>8
  <2>2. 1 \in 1..n /\ QuietAfter(toClient, 1, t)
    BY <1>1, <2>1 DEF Quiet, QuietAfter, n
  <2>3. TellsState(m, t) \/ TellsOne(m, t) => t \in alive
    BY <1>1, <2>2 DEF ComesTrue, n
  <2>4. t \in torrents' => t \in alive'
    BY <2>1, <2>3 DEF ComesTrue
  <2>5. ASSUME NEW i \in 1..n, TellsState(toClient[i], t)
        PROVE  t \in torrents' \/ \E j \in 1..Len(toClient') : TellsState(toClient'[j], t)
    <3>1. CASE i = 1
      BY <1>1, <2>5, <3>1
    <3>2. CASE i # 1
      <4>1. i - 1 \in 1..Len(toClient') /\ toClient'[i - 1] = toClient[i]
        BY <1>1, <3>2
      <4> QED
        BY <2>5, <4>1
    <3> QED
      BY <3>1, <3>2
  <2>6. SessionAsked' = SessionAsked
    BY DEF SessionAsked
  <2> QED
    BY <2>1, <2>4, <2>5, <2>6 DEF ComesTrue, n
<1> QED
  BY <1>5, <1>6, <1>7, <1>8 DEF ComesTrue

(* An event runs: on_torrent_added, on_torrent_removed, or another one.    *)
LEMMA RunEventComesTrue ==
  ASSUME IsSequence(later), later # <<>>,
         NEW t, ComesTrue(t), NEW e, e = Head(later),
         later' = Tail(later),
         IF IsAbout(e, t) THEN t \in torrents' <=> e.type = "added"
                          ELSE t \in torrents' <=> t \in torrents,
         SessionAsked' = SessionAsked,
         UNCHANGED <<alive, toClient, started>>
  PROVE  ComesTrue(t)'
<1>1. Quiet(later, t) <=> Quiet(later', t) /\ ~IsAbout(e, t)
  BY TakenKeepsLast
<1>2. ~Quiet(toClient', t) => LastIsRight(toClient, t)'
  BY DEF ComesTrue, LastIsRight
<1>3. ASSUME Quiet(toClient', t), ~Quiet(later', t)
      PROVE  LastIsRight(later, t)'
  <2>1. LastIsRight(later', t)
    BY <1>1, <1>3, TakenKeepsLast DEF ComesTrue
  <2> QED
    BY <2>1 DEF LastIsRight
<1>4. \A i \in 1..Len(toClient') :
        /\ TellsState(toClient'[i], t) \/ TellsOne(toClient'[i], t)
        /\ QuietAfter(toClient', i, t)
        => t \in alive'
  BY DEF ComesTrue
<1>5. ASSUME Quiet(toClient', t), Quiet(later', t)
      PROVE  /\ t \in torrents' => t \in alive'
             /\ t \in alive' /\ started' /\ ~SessionAsked' =>
                  t \in torrents' \/ \E i \in 1..Len(toClient') : TellsState(toClient'[i], t)
  <2>1. CASE IsAbout(e, t)
    <3>1. e.type = "added" <=> t \in alive
      BY <1>1, <1>5, <2>1, TakenKeepsLast DEF ComesTrue
    <3> QED
      BY <2>1, <3>1
  <2>2. CASE ~IsAbout(e, t)
    BY <1>1, <1>5, <2>2 DEF ComesTrue
  <2> QED
    BY <2>1, <2>2
<1> QED
  BY <1>2, <1>3, <1>4, <1>5 DEF ComesTrue

(* Nothing about torrents moves.                                           *)
LEMMA SameComesTrue ==
  ASSUME NEW t, ComesTrue(t), SessionAsked' = SessionAsked,
         UNCHANGED <<alive, toClient, later, torrents, started>>
  PROVE  ComesTrue(t)'
BY DEF ComesTrue, LastIsRight

(* Nothing is on its way, and the session is still to be asked for.        *)
LEMMA EmptyComesTrue ==
  ASSUME NEW t, toClient' = <<>>, later' = <<>>, torrents' = {},
         ~started' \/ SessionAsked'
  PROVE  ComesTrue(t)'
<1>1. Len(<<>>) = 0
  BY EmptySeq
<1>2. Quiet(toClient', t) /\ Quiet(later', t) /\ \A i \in 1..Len(toClient') : FALSE
  BY <1>1 DEF Quiet
<1> QED
  BY <1>2 DEF ComesTrue

-----------------------------------------------------------------------------
(* The events of a queue are about torrents.                               *)
LEMMA AppendedOfTorrents ==
  ASSUME NEW s, IsSequence(s), OfTorrents(s), NEW x,
         x.type \in {"added", "removed"} => x.id \in Torrents
  PROVE  OfTorrents(Append(s, x))
<1>1. /\ Len(s) \in Nat /\ Len(Append(s, x)) = Len(s) + 1
      /\ Append(s, x)[Len(s) + 1] = x
      /\ \A i \in 1..Len(s) : Append(s, x)[i] = s[i]
  BY Appended
<1>2. \A i \in 1..Len(s) + 1 : i = Len(s) + 1 \/ i \in 1..Len(s)
  BY <1>1
<1> QED
  BY <1>1, <1>2 DEF OfTorrents

(* What is left of a queue, and its head, are of torrents as the whole is.  *)
LEMMA TakenOfTorrents ==
  ASSUME NEW s, IsSequence(s), s # <<>>, OfTorrents(s)
  PROVE  /\ OfTorrents(Tail(s))
         /\ Head(s).type \in {"added", "removed"} => Head(s).id \in Torrents
<1>1. /\ Len(s) \in Nat \ {0} /\ Len(Tail(s)) = Len(s) - 1
      /\ Head(s) = s[1]
      /\ \A i \in 1..Len(s) - 1 : Tail(s)[i] = s[i + 1]
  BY Taken
<1>2. 1 \in 1..Len(s) /\ \A i \in 1..Len(s) - 1 : i + 1 \in 1..Len(s)
  BY <1>1
<1> QED
  BY <1>1, <1>2 DEF OfTorrents

(* A queue may be read as one of any larger set.                           *)
LEMMA LargerQueue ==
  ASSUME NEW R, NEW S, R \subseteq S, NEW s \in Seq(R)
  PROVE  s \in Seq(S)
<1>1. Len(s) \in Nat /\ s \in [1..Len(s) -> R]
  BY LenProperties
<1> QED
  BY <1>1, IsASeq

(* What the daemon holds stays known when the client's events are          *)
(* registered, and when the client has a new session.                      *)
LEMMA HeldStays ==
  ASSUME IndInv,
         \/ me' = me /\ (interested => interested')
         \/ me' \in Mine /\ me' > me
  PROVE  soon \in Seq(Held') /\ waiting \in Seq(Held')
<1>1. me \in Nat
  BY StatusAssumption DEF IndInv, QueuesOK
<1>2. Held \subseteq Held'
  <2> SUFFICES ASSUME NEW r \in Held
               PROVE  /\ r.from \in Mine => r.from <= me'
                      /\ r.from = me' => interested'
    BY DEF Held
  <2>1. CASE me' = me /\ (interested => interested')
    BY <2>1 DEF Held
  <2>2. CASE me' \in Mine /\ me' > me
    <3>1. r.from \in Mine => r.from <= me /\ r.from \in Nat
      BY StatusAssumption DEF Held
    <3> QED
      BY <1>1, <2>2, <3>1, StatusAssumption
  <2> QED
    BY <2>1, <2>2
<1> QED
  BY <1>2, LargerQueue DEF IndInv, QueuesOK

(* torrents_status_update: a request that waits for an alert asks for one. *)
LEMMA StatusUpdateKeepsPosts ==
  ASSUME NEW S, soon \in Seq(S), waiting \in Seq(S), posts \in Nat, PostsAreAwaited,
         NEW r \in S, StatusUpdate(r)
  PROVE  /\ soon' \in Seq(S) /\ waiting' \in Seq(S)
         /\ posts' \in Nat /\ PostsAreAwaited'
<1>1. Len(waiting) \in Nat /\ posts <= Len(waiting)
  BY LenProperties DEF PostsAreAwaited
<1>2. CASE soon' = Append(soon, r) /\ UNCHANGED <<waiting, posts>>
  <2>1. soon' \in Seq(S)
    BY <1>2, AppendProperties
  <2> QED
    BY <1>1, <1>2, <2>1 DEF PostsAreAwaited
<1>3. CASE waiting' = Append(waiting, r) /\ posts' = posts + 1 /\ UNCHANGED soon
  <2>1. waiting' \in Seq(S) /\ Len(waiting') = Len(waiting) + 1
    BY <1>3, AppendProperties
  <2> QED
    BY <1>1, <1>3, <2>1 DEF PostsAreAwaited
<1> QED
  BY <1>2, <1>3 DEF StatusUpdate

(* A request goes to the daemon after those that are on their way.         *)
LEMMA SendKeepsAsked ==
  ASSUME IndInv, NEW r \in Requests, r.type # "session", Send(r), UNCHANGED me
  PROVE  /\ toDaemon' \in Seq(Requests') /\ toDaemon' # <<>>
         /\ SessionAsked' = SessionAsked
         /\ toDaemon # <<>> => toDaemon'[1] = toDaemon[1]
<1> DEFINE n == Len(toDaemon)
<1>1. toDaemon \in Seq(Requests) /\ toDaemon' = Append(toDaemon, r)
  BY DEF IndInv, QueuesOK, Send
<1>2. /\ toDaemon' \in Seq(Requests)
      /\ n \in Nat /\ Len(toDaemon') = n + 1
      /\ \A i \in 1..n : toDaemon'[i] = toDaemon[i]
      /\ toDaemon'[n + 1] = r
  BY <1>1, AppendProperties, LenProperties
<1>3. Requests' = Requests
  BY DEF Requests
<1>4. toDaemon # <<>> => n \in Nat \ {0}
  BY <1>1, EmptySeq
<1>5. toDaemon' # <<>>
  BY <1>2, EmptySeq
<1> HIDE DEF n
<1>6. SessionAsked' = SessionAsked
  <2>1. \A i \in 1..n : i \in 1..n + 1
    BY <1>2
  <2>2. \A i \in 1..n + 1 : i = n + 1 \/ i \in 1..n
    BY <1>2
  <2> QED
    BY <1>2, <2>1, <2>2 DEF SessionAsked, n
<1>7. toDaemon # <<>> => toDaemon'[1] = toDaemon[1]
  BY <1>2, <1>4
<1> QED
  BY <1>2, <1>3, <1>5, <1>6, <1>7

(* get_torrents_status and get_torrent_status of the proxy.                *)
LEMMA AskKeepsInv ==
  ASSUME IndInv, started, NEW r \in Requests, r.type # "session", Send(r),
         UNCHANGED <<daemonVars, me, toClient, mixed, clientVars>>
  PROVE  IndInv'
<1>1. UNCHANGED <<alive, soon, waiting, posts, interested, started, torrents, later>>
  BY DEF daemonVars, clientVars
<1>2. /\ toDaemon' \in Seq(Requests') /\ toDaemon' # <<>>
      /\ SessionAsked' = SessionAsked
      /\ toDaemon # <<>> => toDaemon'[1] = toDaemon[1]
  BY SendKeepsAsked
<1>3. soon' \in Seq(Held') /\ waiting' \in Seq(Held')
  BY <1>1, HeldStays
<1>4. QueuesOK'
  <2>1. IsSequence(toClient') /\ OfTorrents(toClient')
    BY DEF IndInv, QueuesOK, OfTorrents
  <2> QED
    BY <1>1, <1>2, <1>3, <2>1 DEF IndInv, QueuesOK, OfTorrents
<1>5. PostsAreAwaited' /\ EventsFirst'
  BY <1>1, <1>2 DEF IndInv, PostsAreAwaited, EventsFirst
<1>6. \A t \in Torrents : ComesTrue(t)'
  BY <1>1, <1>2, SameComesTrue DEF IndInv
<1> QED
  BY <1>4, <1>5, <1>6 DEF IndInv

(* What the parts of the invariant mean for a state.                       *)
LEMMA Known ==
  ASSUME IndInv
  PROVE  /\ alive \subseteq Torrents /\ me \in Mine /\ posts \in Nat
         /\ toDaemon \in Seq(Requests) /\ soon \in Seq(Held) /\ waiting \in Seq(Held)
         /\ IsSequence(toClient) /\ IsSequence(later)
         /\ OfTorrents(toClient) /\ OfTorrents(later)
         /\ PostsAreAwaited
         /\ ~started => toDaemon = <<>> /\ ~interested
         /\ started /\ ~interested => toDaemon # <<>> /\ toDaemon[1].type = "interest"
                                      /\ SessionAsked
         /\ ~interested => toClient = <<>> /\ later = <<>> /\ torrents = {}
         /\ \A t \in Torrents : ComesTrue(t)
BY DEF IndInv, QueuesOK, EventsFirst

(* An event goes to the client if it is registered there.                  *)
LEMMA EmitKeepsInv ==
  ASSUME IndInv, NEW t \in Torrents, NEW x, IsAbout(x, t), Emit(x),
         x.type = "added" <=> t \in alive', alive' \subseteq Torrents,
         \A u \in Torrents : u # t => (u \in alive' <=> u \in alive),
         UNCHANGED <<me, toDaemon, soon, waiting, posts, interested, started, torrents,
                     later>>
  PROVE  IndInv'
<1>1. soon' \in Seq(Held') /\ waiting' \in Seq(Held')
  BY HeldStays
<1>2. /\ Requests' = Requests /\ SessionAsked' = SessionAsked
      /\ toDaemon \in Seq(Requests) /\ IsSequence(toClient) /\ IsSequence(later)
  BY Known DEF Requests, SessionAsked
<1>3. CASE interested
  <2>1. toClient' = Append(toClient, x)
    BY <1>3 DEF Emit
  <2>2. IsSequence(toClient') /\ OfTorrents(toClient')
    BY <1>2, <2>1, Known, Appended, AppendedOfTorrents DEF IsAbout
  <2>3. QueuesOK' /\ PostsAreAwaited'
    BY <1>1, <1>2, <2>2, Known DEF QueuesOK, PostsAreAwaited, OfTorrents
  <2>4. EventsFirst'
    BY <1>3, Known DEF EventsFirst
  <2>5. ASSUME NEW u \in Torrents
        PROVE  ComesTrue(u)'
    <3>1. CASE u = t
      BY <1>2, <2>1, <3>1, EventComesTrue
    <3>2. CASE u # t
      <4>1. ~IsAbout(x, u) /\ ~TellsState(x, u) /\ ~TellsOne(x, u)
        BY <3>2 DEF IsAbout, TellsState, TellsOne
      <4>2. u \in alive' <=> u \in alive
        BY <3>2
      <4>3. ComesTrue(u)
        BY Known
      <4> QED
        BY <1>2, <2>1, <4>1, <4>2, <4>3, AppendComesTrue
    <3> QED
      BY <3>1, <3>2
  <2> QED
    BY <2>3, <2>4, <2>5 DEF IndInv
<1>4. CASE ~interested
  <2>1. toClient' = <<>> /\ later' = <<>> /\ torrents' = {}
    BY <1>4, Known DEF Emit
  <2>2. toClient' = toClient
    BY <1>4 DEF Emit
  <2>3. QueuesOK' /\ PostsAreAwaited'
    BY <1>1, <1>2, <2>2, Known DEF QueuesOK, PostsAreAwaited, OfTorrents
  <2>4. EventsFirst'
    BY <1>2, <2>1, Known DEF EventsFirst
  <2>5. ~started' \/ SessionAsked'
    BY <1>2, <1>4, Known
  <2>6. \A u \in Torrents : ComesTrue(u)'
    BY <2>1, <2>5, EmptyComesTrue
  <2> QED
    BY <2>3, <2>4, <2>6 DEF IndInv
<1> QED
  BY <1>3, <1>4

(* Adding a torrent: the event that tells of it is emitted in the same step. *)
LEMMA AddKeepsInv ==
  ASSUME IndInv, NEW t \in Torrents, AddTorrent(t), UNCHANGED clientVars
  PROVE  IndInv'
<1> DEFINE x == TorrentEvent("added", t)
<1>1. /\ alive' = alive \cup {t} /\ Emit(x)
      /\ UNCHANGED <<me, toDaemon, soon, waiting, posts, interested, started, torrents,
                     later>>
  BY DEF AddTorrent, clientVars
<1>2. IsAbout(x, t) /\ x.type = "added"
  BY DEF IsAbout, TorrentEvent
<1>3. /\ alive' \subseteq Torrents /\ t \in alive'
      /\ \A u \in Torrents : u # t => (u \in alive' <=> u \in alive)
  BY <1>1, Known
<1> HIDE DEF x
<1> QED
  BY <1>1, <1>2, <1>3, EmitKeepsInv

(* Removing a torrent, and the event that tells of it.                      *)
LEMMA RemoveKeepsInv ==
  ASSUME IndInv, NEW t \in Torrents, RemoveTorrent(t), UNCHANGED clientVars
  PROVE  IndInv'
<1> DEFINE x == TorrentEvent("removed", t)
<1>1. /\ alive' = alive \ {t} /\ Emit(x)
      /\ UNCHANGED <<me, toDaemon, soon, waiting, posts, interested, started, torrents,
                     later>>
  BY DEF RemoveTorrent, clientVars
<1>2. IsAbout(x, t) /\ x.type # "added"
  BY DEF IsAbout, TorrentEvent
<1>3. /\ alive' \subseteq Torrents /\ t \notin alive'
      /\ \A u \in Torrents : u # t => (u \in alive' <=> u \in alive)
  BY <1>1, Known
<1> HIDE DEF x
<1> QED
  BY <1>1, <1>2, <1>3, EmitKeepsInv

(* A message that tells of no torrent but those that are there goes to a   *)
(* client whose events are registered.                                     *)
LEMMA MessageKeepsInv ==
  ASSUME IndInv, interested, NEW x, x.type \notin {"added", "removed"},
         toClient' = Append(toClient, x),
         \A t \in Torrents : TellsState(x, t) \/ TellsOne(x, t) => t \in alive,
         \A t \in alive : ~SessionAsked' => ~SessionAsked \/ TellsState(x, t),
         toDaemon' \in Seq(Requests),
         soon' \in Seq(Held) /\ waiting' \in Seq(Held), posts' \in Nat, PostsAreAwaited',
         UNCHANGED <<alive, me, interested, started, torrents, later>>
  PROVE  IndInv'
<1>1. Requests' = Requests /\ Held' = Held
  BY DEF Requests, Held
<1>2. IsSequence(toClient) /\ IsSequence(toClient') /\ OfTorrents(toClient')
  BY Known, Appended, AppendedOfTorrents
<1>3. QueuesOK'
  BY <1>1, <1>2, Known DEF QueuesOK, OfTorrents
<1>4. EventsFirst'
  BY Known DEF EventsFirst
<1>5. ASSUME NEW t \in Torrents
      PROVE  ComesTrue(t)'
  <2>1. ~IsAbout(x, t) /\ ComesTrue(t)
    BY Known DEF IsAbout
  <2>2. TellsState(x, t) \/ TellsOne(x, t) => t \in alive
    OBVIOUS
  <2>3. started /\ ~SessionAsked' /\ t \in alive => ~SessionAsked \/ TellsState(x, t)
    OBVIOUS
  <2> QED
    BY <1>2, <2>1, <2>2, <2>3, AppendComesTrue
<1> QED
  BY <1>3, <1>4, <1>5 DEF IndInv

(* Only what the daemon holds or does about requests moves.                *)
LEMMA DaemonKeepsInv ==
  ASSUME IndInv,
         soon' \in Seq(Held) /\ waiting' \in Seq(Held), posts' \in Nat, PostsAreAwaited',
         UNCHANGED <<alive, me, interested, started, torrents, later, toClient, toDaemon>>
  PROVE  IndInv'
<1>1. Requests' = Requests /\ Held' = Held /\ SessionAsked' = SessionAsked
  BY DEF Requests, Held, SessionAsked
<1>2. QueuesOK'
  BY <1>1, Known DEF QueuesOK, OfTorrents
<1>3. EventsFirst'
  BY <1>1, Known DEF EventsFirst
<1>4. \A t \in Torrents : ComesTrue(t)'
  BY <1>1, Known, SameComesTrue
<1> QED
  BY <1>2, <1>3, <1>4 DEF IndInv

(* A change of the state is an event that is not about the list.           *)
LEMMA ChangeKeepsInv ==
  ASSUME IndInv, NEW t \in Torrents, NEW k, NEW v, Change(t, k, v), UNCHANGED clientVars
  PROVE  IndInv'
<1> DEFINE x == [type |-> "changed", id |-> t, state |-> v]
<1>1. /\ IF k = State THEN Emit(x) ELSE UNCHANGED toClient
      /\ UNCHANGED <<alive, me, toDaemon, soon, waiting, posts, interested, started,
                     torrents, later>>
  BY DEF Change, clientVars
<1>2. soon' \in Seq(Held) /\ waiting' \in Seq(Held) /\ posts' \in Nat /\ PostsAreAwaited'
  BY <1>1, Known DEF PostsAreAwaited
<1>3. x.type \notin {"added", "removed"} /\ \A u : ~TellsState(x, u) /\ ~TellsOne(x, u)
  BY DEF TellsState, TellsOne
<1>4. SessionAsked' = SessionAsked /\ toDaemon' \in Seq(Requests)
  BY <1>1, Known DEF SessionAsked
<1> HIDE DEF x
<1>5. CASE interested /\ toClient' = Append(toClient, x)
  BY <1>1, <1>2, <1>3, <1>4, <1>5, MessageKeepsInv
<1>6. CASE toClient' = toClient
  BY <1>1, <1>2, <1>6, DaemonKeepsInv
<1> QED
  BY <1>1, <1>5, <1>6 DEF Emit

-----------------------------------------------------------------------------
(* The next request that the daemon runs.                                  *)
LEMMA NextRequest ==
  ASSUME IndInv, toDaemon # <<>>, toDaemon' = Tail(toDaemon)
  PROVE  /\ Head(toDaemon) \in Requests /\ toDaemon' \in Seq(Requests)
         /\ started
         /\ Head(toDaemon).type # "interest" => interested
         /\ Head(toDaemon).type # "session" => SessionAsked' = SessionAsked
<1> DEFINE n == Len(toDaemon)
           r == Head(toDaemon)
<1>1. /\ r \in Requests /\ toDaemon' \in Seq(Requests)
      /\ n \in Nat \ {0} /\ Len(toDaemon') = n - 1
      /\ \A i \in 1..n - 1 : toDaemon'[i] = toDaemon[i + 1]
  <2>1. toDaemon \in Seq(Requests)
    BY Known
  <2>2. /\ Head(toDaemon) \in Requests /\ Tail(toDaemon) \in Seq(Requests)
        /\ Len(Tail(toDaemon)) = n - 1
        /\ \A i \in 1..Len(Tail(toDaemon)) : Tail(toDaemon)[i] = toDaemon[i + 1]
    BY <2>1, HeadTailProperties
  <2>3. n \in Nat \ {0}
    BY <2>1, EmptySeq
  <2> QED
    BY <2>2, <2>3
<1>2. r = toDaemon[1]
  BY <1>1
<1>3. started
  BY Known
<1>4. r.type # "interest" => interested
  BY <1>2, <1>3, Known
<1> HIDE DEF n, r
<1>5. ASSUME r.type # "session"
      PROVE  SessionAsked' = SessionAsked
  <2>1. ASSUME NEW i \in 1..n, toDaemon[i].type = "session"
        PROVE  i - 1 \in 1..n - 1 /\ toDaemon'[i - 1].type = "session"
    <3>1. i # 1
      BY <1>2, <1>5, <2>1
    <3>2. i - 1 \in 1..n - 1 /\ toDaemon'[i - 1] = toDaemon[i]
      BY <1>1, <3>1
    <3> QED
      BY <2>1, <3>2
  <2>2. ASSUME NEW i \in 1..n - 1, toDaemon'[i].type = "session"
        PROVE  i + 1 \in 1..n /\ toDaemon[i + 1].type = "session"
    BY <1>1, <2>2
  <2> QED
    BY <1>1, <2>1, <2>2 DEF SessionAsked, n
<1> QED
  BY <1>1, <1>3, <1>4, <1>5 DEF r

(* set_event_interest: from now on the client gets the events.             *)
LEMMA InterestKeepsInv ==
  ASSUME IndInv, toDaemon # <<>>, toDaemon' = Tail(toDaemon),
         Head(toDaemon).type = "interest", interested' = TRUE,
         UNCHANGED <<alive, me, soon, waiting, posts, toClient, started, torrents, later>>
  PROVE  IndInv'
<1>1. toDaemon' \in Seq(Requests) /\ started /\ SessionAsked' = SessionAsked
  BY NextRequest
<1>2. soon' \in Seq(Held') /\ waiting' \in Seq(Held')
  BY HeldStays
<1>3. Requests' = Requests
  BY DEF Requests
<1>4. QueuesOK'
  BY <1>1, <1>2, <1>3, Known DEF QueuesOK, OfTorrents
<1>5. PostsAreAwaited' /\ EventsFirst'
  BY <1>1, Known DEF PostsAreAwaited, EventsFirst
<1>6. \A t \in Torrents : ComesTrue(t)'
  BY <1>1, Known, SameComesTrue
<1> QED
  BY <1>4, <1>5, <1>6 DEF IndInv

(* Requests that are answered later.                                       *)
LEMMA LaterKeepsInv ==
  ASSUME IndInv, toDaemon # <<>>, toDaemon' = Tail(toDaemon),
         NEW r \in Held, StatusUpdate(r), Head(toDaemon).type \in {"many", "filter"},
         UNCHANGED <<alive, me, interested, toClient, started, torrents, later>>
  PROVE  IndInv'
<1>1. /\ toDaemon' \in Seq(Requests) /\ started /\ interested
      /\ SessionAsked' = SessionAsked
  BY NextRequest
<1>2. /\ soon' \in Seq(Held) /\ waiting' \in Seq(Held)
      /\ posts' \in Nat /\ PostsAreAwaited'
  <2>1. soon \in Seq(Held) /\ waiting \in Seq(Held) /\ posts \in Nat /\ PostsAreAwaited
    BY Known
  <2> HIDE DEF Held
  <2> QED
    BY <2>1, StatusUpdateKeepsPosts
<1>3. Requests' = Requests /\ Held' = Held
  BY DEF Requests, Held
<1>4. QueuesOK'
  BY <1>1, <1>2, <1>3, Known DEF QueuesOK, OfTorrents
<1>5. EventsFirst'
  BY <1>1, Known DEF EventsFirst
<1>6. \A t \in Torrents : ComesTrue(t)'
  BY <1>1, Known, SameComesTrue
<1> QED
  BY <1>2, <1>4, <1>5, <1>6 DEF IndInv

(* The daemon runs a method of the client.                                 *)
LEMMA DispatchKeepsInv ==
  ASSUME IndInv, Dispatch, UNCHANGED clientVars
  PROVE  IndInv'
<1> DEFINE r == Head(toDaemon)
<1>1. /\ toDaemon # <<>> /\ toDaemon' = Tail(toDaemon)
      /\ UNCHANGED <<alive, value, me, changes, adds, started, torrents, later>>
  BY DEF Dispatch, clientVars
<1>2. /\ r \in Requests /\ toDaemon' \in Seq(Requests) /\ started
      /\ r.type # "interest" => interested
      /\ r.type # "session" => SessionAsked' = SessionAsked
  BY <1>1, NextRequest
<1>3. \/ r.type = "interest" /\ interested' = TRUE
         /\ UNCHANGED <<soon, waiting, posts, toClient>>
      \/ r.type = "session" /\ Answer([type |-> "session",
                                       status |-> [t \in alive |-> NoStatus]])
         /\ UNCHANGED <<soon, waiting, posts, interested>>
      \/ r.type = "all" /\ Answer([type |-> "all",
                                   status |-> [t \in r.ids |-> IF t \in alive THEN value[t]
                                                               ELSE NoStatus]])
         /\ UNCHANGED <<soon, waiting, posts, interested>>
      \/ r.type \in {"one", "unknown"} /\ TorrentStatus(r)
         /\ UNCHANGED <<soon, waiting, posts, interested>>
      \/ r.type = "many" /\ StatusUpdate(r)
         /\ UNCHANGED <<interested, toClient>>
      \/ r.type = "filter" /\ (\E ts \in SUBSET alive : StatusUpdate(Filtered(r, ts)))
         /\ UNCHANGED <<interested, toClient>>
  BY DEF Dispatch
<1>4. me \in Mine /\ me \in Nat /\ alive \subseteq Torrents
  BY Known, StatusAssumption
<1>5. soon \in Seq(Held) /\ waiting \in Seq(Held) /\ posts \in Nat /\ PostsAreAwaited
  BY Known
<1> HIDE DEF r
<1>6. CASE r.type = "interest" /\ interested' = TRUE
           /\ UNCHANGED <<soon, waiting, posts, toClient>>
  BY <1>1, <1>6, InterestKeepsInv DEF r
<1>7. ASSUME NEW x, x.type \notin {"added", "removed"}, r.type # "interest", Answer(x),
             \A t \in Torrents : TellsState(x, t) \/ TellsOne(x, t) => t \in alive,
             \A t \in alive : ~SessionAsked' => ~SessionAsked \/ TellsState(x, t),
             UNCHANGED <<soon, waiting, posts, interested>>
      PROVE  IndInv'
  <2>1. toClient' = Append(toClient, x) /\ interested
    BY <1>2, <1>7 DEF Answer
  <2>2. soon' \in Seq(Held) /\ waiting' \in Seq(Held) /\ posts' \in Nat /\ PostsAreAwaited'
    BY <1>5, <1>7 DEF PostsAreAwaited
  <2>3. UNCHANGED <<alive, me, interested, started, torrents, later>>
    BY <1>1, <1>7
  <2> QED
    BY <1>2, <1>7, <2>1, <2>2, <2>3, MessageKeepsInv
<1>8. CASE r.type = "session" /\ Answer([type |-> "session",
                                         status |-> [t \in alive |-> NoStatus]])
           /\ UNCHANGED <<soon, waiting, posts, interested>>
  <2> DEFINE x == [type |-> "session", status |-> [t \in alive |-> NoStatus]]
  <2>1. /\ x.type \notin {"added", "removed"}
        /\ \A t \in Torrents : TellsState(x, t) \/ TellsOne(x, t) => t \in alive
        /\ \A t \in alive : TellsState(x, t)
    BY DEF TellsState, TellsOne
  <2> HIDE DEF x
  <2> QED
    BY <1>7, <1>8, <2>1 DEF x
<1>9. CASE r.type = "all" /\ Answer([type |-> "all",
                                     status |-> [t \in r.ids |-> IF t \in alive THEN value[t]
                                                                 ELSE NoStatus]])
           /\ UNCHANGED <<soon, waiting, posts, interested>>
  <2> DEFINE x == [type |-> "all",
                   status |-> [t \in r.ids |-> IF t \in alive THEN value[t] ELSE NoStatus]]
  <2>1. /\ x.type \notin {"added", "removed"}
        /\ \A t \in Torrents : TellsState(x, t) \/ TellsOne(x, t) => t \in alive
    BY DEF TellsState, TellsOne
  <2> HIDE DEF x
  <2> QED
    BY <1>2, <1>7, <1>9, <2>1 DEF x
<1>10. CASE r.type \in {"one", "unknown"} /\ TorrentStatus(r)
            /\ UNCHANGED <<soon, waiting, posts, interested>>
  <2> DEFINE x == [type |-> r.type,
                   status |-> [t \in r.ids |-> IF t \in alive THEN Diff(me, t, r.keys)
                                               ELSE NoStatus]]
  <2>1. Answer(x)
    BY <1>10 DEF TorrentStatus
  <2>2. /\ x.type \notin {"added", "removed"}
        /\ \A t \in Torrents : TellsState(x, t) \/ TellsOne(x, t) => t \in alive
    BY <1>10 DEF TellsState, TellsOne
  <2> HIDE DEF x
  <2> QED
    BY <1>2, <1>7, <1>10, <2>1, <2>2
<1>11. CASE r.type = "many" /\ StatusUpdate(r) /\ UNCHANGED <<interested, toClient>>
  <2>1. r \in Held
    BY <1>2, <1>4, <1>11 DEF Requests, Held, ManyRequests, Sessions
  <2>2. UNCHANGED <<alive, me, interested, toClient, started, torrents, later>>
    BY <1>1, <1>11
  <2>3. Head(toDaemon).type \in {"many", "filter"}
    BY <1>11 DEF r
  <2> QED
    BY <1>1, <1>11, <2>1, <2>2, <2>3, LaterKeepsInv
<1>12. CASE r.type = "filter" /\ (\E ts \in SUBSET alive : StatusUpdate(Filtered(r, ts)))
            /\ UNCHANGED <<interested, toClient>>
  <2>1. PICK ts \in SUBSET alive : StatusUpdate(Filtered(r, ts))
    BY <1>12
  <2>2. Filtered(r, ts) \in Held
    <3> DEFINE A == [type : {"filter", "many"}, from : {me}, ids : SUBSET Torrents,
                     keys : SUBSET Keys]
               q == [r EXCEPT !.type = "many"]
    <3>1. ts \in SUBSET Torrents /\ interested /\ me \in Sessions
      BY <1>2, <1>4, <1>12 DEF Sessions
    <3>2. r \in A
      BY <1>2, <1>12 DEF Requests
    <3>3. q \in A /\ q.type = "many"
      BY <3>2
    <3>4. [q EXCEPT !.ids = ts] \in A /\ [q EXCEPT !.ids = ts].type = "many"
      BY <3>1, <3>3
    <3>5. Filtered(r, ts) = [q EXCEPT !.ids = ts]
      BY DEF Filtered
    <3>6. /\ Filtered(r, ts) \in [type : {"many"}, from : {me}, ids : SUBSET Torrents,
                                  keys : SUBSET Keys]
          /\ Filtered(r, ts).from = me
      BY <3>4, <3>5
    <3> QED
      BY <1>4, <3>1, <3>6 DEF Held, ManyRequests
  <2>3. UNCHANGED <<alive, me, interested, toClient, started, torrents, later>>
    BY <1>1, <1>12
  <2>4. Head(toDaemon).type \in {"many", "filter"}
    BY <1>12 DEF r
  <2> QED
    BY <1>1, <2>1, <2>2, <2>3, <2>4, LaterKeepsInv
<1> QED
  BY <1>3, <1>6, <1>8, <1>9, <1>10, <1>11, <1>12

(* A request is answered to the client, or to another session.             *)
LEMMA HandleKeepsInv ==
  ASSUME IndInv, NEW r \in Held, HandleStatus(r),
         soon' \in Seq(Held) /\ waiting' \in Seq(Held), posts' \in Nat, PostsAreAwaited',
         UNCHANGED <<alive, me, interested, started, torrents, later, toDaemon>>
  PROVE  IndInv'
<1>1. r.type = "many" /\ (r.from = me => interested)
  BY DEF Held, ManyRequests
<1>2. CASE r.from = me
  <2>1. PICK x : toClient' = Append(toClient, x) /\ x.type = "many"
    <3> DEFINE y == [type |-> r.type,
                     status |-> [t \in r.ids \cap alive |-> Diff(session_id, t, r.keys)]]
    <3>1. toClient' = Append(toClient, y)
      BY <1>2 DEF HandleStatus, Answer
    <3>2. y.type = "many"
      BY <1>1
    <3> QED
      BY <3>1, <3>2
  <2>2. \A t : ~TellsState(x, t) /\ ~TellsOne(x, t)
    BY <2>1 DEF TellsState, TellsOne
  <2>3. SessionAsked' = SessionAsked /\ toDaemon' \in Seq(Requests)
    BY Known DEF SessionAsked
  <2> QED
    BY <1>1, <1>2, <2>1, <2>2, <2>3, MessageKeepsInv
<1>3. CASE r.from # me
  <2>1. toClient' = toClient
    BY <1>3 DEF HandleStatus
  <2> QED
    BY <2>1, DaemonKeepsInv
<1> QED
  BY <1>2, <1>3

(* A recent state_update alert is used.                                    *)
LEMMA RunSoonKeepsInv ==
  ASSUME IndInv, RunSoon, UNCHANGED clientVars
  PROVE  IndInv'
<1>1. soon # <<>> /\ soon' = Tail(soon) /\ HandleStatus(Head(soon))
  BY DEF RunSoon
<1>2. UNCHANGED <<alive, me, interested, started, torrents, later, toDaemon, waiting, posts>>
  BY DEF RunSoon, clientVars
<1>3. Head(soon) \in Held /\ soon' \in Seq(Held)
  <2>1. soon \in Seq(Held)
    BY Known
  <2> QED
    BY <1>1, <2>1, HeadTailProperties
<1>4. waiting' \in Seq(Held) /\ posts' \in Nat /\ PostsAreAwaited'
  BY <1>2, Known DEF PostsAreAwaited
<1> QED
  BY <1>1, <1>2, <1>3, <1>4, HandleKeepsInv

(* The alert answers the oldest request, which is there.                   *)
LEMMA StateUpdateKeepsInv ==
  ASSUME IndInv, StateUpdate, UNCHANGED clientVars
  PROVE  IndInv'
<1>1. /\ posts > 0 /\ posts' = posts - 1
      /\ UNCHANGED <<alive, me, interested, started, torrents, later, toDaemon, soon>>
  BY DEF StateUpdate, clientVars
<1>2. waiting \in Seq(Held) /\ soon \in Seq(Held) /\ posts \in Nat /\ posts <= Len(waiting)
  BY Known DEF PostsAreAwaited
<1>3. waiting # <<>>
  BY <1>1, <1>2, EmptySeq
<1>4. HandleStatus(Head(waiting)) /\ waiting' = Tail(waiting)
  BY <1>3 DEF StateUpdate
<1>5. /\ Head(waiting) \in Held /\ waiting' \in Seq(Held)
      /\ Len(waiting') = Len(waiting) - 1 /\ Len(waiting) \in Nat
  BY <1>2, <1>3, <1>4, HeadTailProperties, LenProperties
<1>6. posts' \in Nat /\ PostsAreAwaited'
  BY <1>1, <1>2, <1>5 DEF PostsAreAwaited
<1> QED
  BY <1>1, <1>2, <1>4, <1>5, <1>6, HandleKeepsInv

(* A lost alert is one that nobody waits for any more.                     *)
LEMMA LoseAlertKeepsInv ==
  ASSUME IndInv, LoseAlert, UNCHANGED clientVars
  PROVE  IndInv'
<1>1. /\ posts > 0 /\ posts' = posts - 1
      /\ UNCHANGED <<alive, me, interested, started, torrents, later, toClient, toDaemon,
                     soon, waiting>>
  BY DEF LoseAlert, clientVars
<1>2. /\ waiting \in Seq(Held) /\ soon \in Seq(Held)
      /\ posts \in Nat /\ posts <= Len(waiting)
  BY Known DEF PostsAreAwaited
<1>3. Len(waiting) \in Nat
  BY <1>2, LenProperties
<1>4. posts' \in Nat /\ PostsAreAwaited'
  BY <1>1, <1>2, <1>3 DEF PostsAreAwaited
<1> QED
  BY <1>1, <1>2, <1>4, DaemonKeepsInv

(* Other sessions call, and may ask for statuses.                          *)
LEMMA OtherKeepsInv ==
  ASSUME IndInv, NEW s \in Others,
         \/ OtherCall(s)
         \/ \E ks \in KeySets : OtherAsks(s, Torrents, ks),
         UNCHANGED clientVars
  PROVE  IndInv'
<1>1. UNCHANGED <<alive, me, interested, started, torrents, later, toClient, toDaemon>>
  BY DEF OtherCall, OtherAsks, clientVars
<1>2. soon \in Seq(Held) /\ waiting \in Seq(Held) /\ posts \in Nat /\ PostsAreAwaited
  BY Known
<1>3. CASE OtherCall(s)
  <2>1. UNCHANGED <<soon, waiting, posts>>
    BY <1>3 DEF OtherCall
  <2>2. PostsAreAwaited'
    BY <1>2, <2>1 DEF PostsAreAwaited
  <2> QED
    BY <1>1, <1>2, <2>1, <2>2, DaemonKeepsInv
<1>4. ASSUME NEW ks \in KeySets, OtherAsks(s, Torrents, ks)
      PROVE  IndInv'
  <2> DEFINE r == [type |-> "many", from |-> s, ids |-> Torrents, keys |-> ks]
  <2>1. StatusUpdate(r)
    BY <1>4 DEF OtherAsks
  <2>2. r \in Held
    BY StatusAssumption, Known DEF Held, ManyRequests, Sessions
  <2> HIDE DEF r, Held
  <2>3. /\ soon' \in Seq(Held) /\ waiting' \in Seq(Held)
        /\ posts' \in Nat /\ PostsAreAwaited'
    BY <1>2, <2>1, <2>2, StatusUpdateKeepsPosts
  <2> QED
    BY <1>1, <2>3, DaemonKeepsInv
<1> QED
  BY <1>3, <1>4

-----------------------------------------------------------------------------
(* start() asks for the events, and then for the torrents.                 *)
LEMMA StartKeepsInv ==
  ASSUME IndInv, Start
  PROVE  IndInv'
<1> DEFINE a == Request("interest", {}, {})
           b == Request("session", {}, {})
<1>1. /\ ~started /\ started' = TRUE
      /\ toDaemon' = toDaemon \o <<a, b>>
      /\ UNCHANGED <<alive, soon, waiting, posts, interested, me, toClient, torrents, later>>
  BY DEF Start, daemonVars
<1>2. toDaemon = <<>> /\ ~interested /\ toClient = <<>> /\ later = <<>> /\ torrents = {}
  BY <1>1, Known
<1>3. a \in Requests /\ b \in Requests /\ a.type = "interest" /\ b.type = "session"
  BY DEF Request, Requests
<1> HIDE DEF a, b
<1>4. toDaemon' = <<a, b>>
  <2>1. <<a, b>> \in Seq(Requests)
    BY <1>3
  <2> QED
    BY <1>1, <1>2, <2>1, ConcatEmptySeq
<1>5. /\ toDaemon' \in Seq(Requests) /\ toDaemon' # <<>>
      /\ toDaemon'[1] = a /\ toDaemon'[2] = b /\ Len(toDaemon') = 2
  BY <1>3, <1>4
<1>6. SessionAsked'
  BY <1>3, <1>5 DEF SessionAsked
<1>7. soon' \in Seq(Held') /\ waiting' \in Seq(Held') /\ Requests' = Requests
  BY <1>1, HeldStays DEF Requests
<1>8. QueuesOK'
  BY <1>1, <1>5, <1>7, Known DEF QueuesOK, OfTorrents
<1>9. PostsAreAwaited' /\ EventsFirst'
  BY <1>1, <1>2, <1>3, <1>5, <1>6, Known DEF PostsAreAwaited, EventsFirst
<1>10. \A t \in Torrents : ComesTrue(t)'
  BY <1>1, <1>2, <1>6, EmptyComesTrue
<1> QED
  BY <1>8, <1>9, <1>10 DEF IndInv

(* A new connection is another session; nothing of the old one is left on  *)
(* the client's side.                                                      *)
LEMMA ReconnectKeepsInv ==
  ASSUME IndInv, NEW s \in Mine, Reconnect(s)
  PROVE  IndInv'
<1>1. /\ s > me /\ me' = s /\ interested' = FALSE
      /\ toDaemon' = <<>> /\ toClient' = <<>> /\ later' = <<>>
      /\ started' = FALSE /\ torrents' = {}
      /\ UNCHANGED <<alive, soon, waiting, posts>>
  BY DEF Reconnect
<1>2. soon' \in Seq(Held') /\ waiting' \in Seq(Held')
  BY <1>1, HeldStays
<1>3. toDaemon' \in Seq(Requests') /\ IsSequence(toClient') /\ IsSequence(later')
  BY <1>1, EmptySeq DEF IsSequence
<1>4. OfTorrents(toClient') /\ OfTorrents(later')
  BY <1>1, EmptySeq DEF OfTorrents
<1>5. QueuesOK'
  BY <1>1, <1>2, <1>3, <1>4, Known DEF QueuesOK, OfTorrents
<1>6. PostsAreAwaited' /\ EventsFirst'
  BY <1>1, Known DEF PostsAreAwaited, EventsFirst
<1>7. \A t \in Torrents : ComesTrue(t)'
  BY <1>1, EmptyComesTrue
<1> QED
  BY <1>5, <1>6, <1>7 DEF IndInv

(* What an answer changes in the list of the proxy.                        *)
LEMMA AnswerTells ==
  ASSUME NEW m, OnAnswer(m), NEW t
  PROVE  t \in torrents' <=> t \in torrents \/ TellsState(m, t) \/ TellsOne(m, t)
BY DEF OnAnswer, TellsState, TellsOne

(* The client reads a message.                                             *)
LEMMA ReadKeepsInv ==
  ASSUME IndInv, Read
  PROVE  IndInv'
<1> DEFINE m == Head(toClient)
<1>1. /\ toClient # <<>> /\ toClient' = Tail(toClient)
      /\ IF IsEvent(m) THEN later' = Append(later, m) /\ UNCHANGED torrents
                       ELSE OnAnswer(m) /\ UNCHANGED later
      /\ UNCHANGED <<alive, soon, waiting, posts, interested, me, toDaemon, started>>
  BY DEF Read, daemonVars
<1>2. /\ IsSequence(toClient) /\ IsSequence(later)
      /\ OfTorrents(toClient) /\ OfTorrents(later)
      /\ interested
  BY <1>1, Known
<1>3. /\ IsSequence(toClient') /\ OfTorrents(toClient')
      /\ m.type \in {"added", "removed"} => m.id \in Torrents
  BY <1>1, <1>2, Taken, TakenOfTorrents
<1>4. soon' \in Seq(Held') /\ waiting' \in Seq(Held') /\ Requests' = Requests
  BY <1>1, HeldStays DEF Requests
<1>5. PostsAreAwaited' /\ EventsFirst'
  BY <1>1, <1>2, Known DEF PostsAreAwaited, EventsFirst
<1> HIDE DEF m
<1>6. CASE IsEvent(m)
  <2>1. later' = Append(later, m) /\ UNCHANGED torrents
    BY <1>1, <1>6
  <2>2. IsSequence(later') /\ OfTorrents(later')
    BY <1>2, <1>3, <2>1, Appended, AppendedOfTorrents
  <2>3. QueuesOK'
    BY <1>1, <1>3, <1>4, <2>2, Known DEF QueuesOK, OfTorrents
  <2>4. ASSUME NEW t \in Torrents
        PROVE  ComesTrue(t)'
    <3>1. ComesTrue(t) /\ m = Head(toClient)
      BY Known DEF m
    <3>2. UNCHANGED <<alive, torrents, started, toDaemon>>
      BY <1>1, <2>1
    <3> QED
      BY <1>1, <1>2, <1>6, <2>1, <3>1, <3>2, ReadEventComesTrue
  <2> QED
    BY <1>5, <2>3, <2>4 DEF IndInv
<1>7. CASE ~IsEvent(m)
  <2>1. OnAnswer(m) /\ UNCHANGED later
    BY <1>1, <1>7
  <2>2. IsSequence(later') /\ OfTorrents(later')
    BY <1>2, <2>1 DEF OfTorrents
  <2>3. QueuesOK'
    BY <1>1, <1>3, <1>4, <2>2, Known DEF QueuesOK, OfTorrents
  <2>4. ASSUME NEW t \in Torrents
        PROVE  ComesTrue(t)'
    <3>1. ComesTrue(t) /\ m = Head(toClient)
      BY Known DEF m
    <3>2. t \in torrents' <=> t \in torrents \/ TellsState(m, t) \/ TellsOne(m, t)
      BY <2>1, AnswerTells
    <3>3. UNCHANGED <<alive, later, started, toDaemon>>
      BY <1>1, <2>1
    <3> QED
      BY <1>1, <1>2, <1>7, <3>1, <3>2, <3>3, ReadAnswerComesTrue
  <2> QED
    BY <1>5, <2>3, <2>4 DEF IndInv
<1> QED
  BY <1>6, <1>7

(* The handlers of an event run.                                           *)
LEMMA RunEventKeepsInv ==
  ASSUME IndInv, RunEvent
  PROVE  IndInv'
<1> DEFINE e == Head(later)
<1>1. /\ later # <<>> /\ later' = Tail(later)
      /\ \/ e.type = "added" /\ OnTorrentAdded(e.id)
         \/ e.type = "removed" /\ OnTorrentRemoved(e.id)
         \/ e.type = "changed" /\ OnTorrentStateChanged(e.id, e.state)
      /\ UNCHANGED <<alive, soon, waiting, posts, interested, me, toClient, started>>
  BY DEF RunEvent, daemonVars
<1>2. IsSequence(later) /\ OfTorrents(later) /\ interested /\ started
  BY <1>1, Known
<1>3. /\ IsSequence(later') /\ OfTorrents(later')
      /\ e.type \in {"added", "removed"} => e.id \in Torrents
  BY <1>1, <1>2, Taken, TakenOfTorrents
<1>4. soon' \in Seq(Held') /\ waiting' \in Seq(Held') /\ Requests' = Requests
  BY <1>1, HeldStays DEF Requests
<1>5. PostsAreAwaited' /\ EventsFirst'
  BY <1>1, <1>2, Known DEF PostsAreAwaited, EventsFirst
<1> HIDE DEF e
<1>6. toDaemon' \in Seq(Requests') /\ SessionAsked' = SessionAsked
  <2>1. CASE e.type = "added" /\ OnTorrentAdded(e.id)
    <3>1. Send(Request("all", {e.id}, Keys))
      BY <2>1 DEF OnTorrentAdded
    <3>2. Request("all", {e.id}, Keys) \in Requests
      BY <1>3, <2>1 DEF Request, Requests
    <3>3. Request("all", {e.id}, Keys).type # "session"
      BY DEF Request
    <3>4. me' = me
      BY <1>1
    <3> QED
      BY <3>1, <3>2, <3>3, <3>4, SendKeepsAsked
  <2>2. CASE UNCHANGED toDaemon
    BY <1>4, <2>2, Known DEF SessionAsked
  <2> QED
    BY <1>1, <2>1, <2>2 DEF OnTorrentRemoved, OnTorrentStateChanged
<1>7. QueuesOK'
  BY <1>1, <1>3, <1>4, <1>6, Known DEF QueuesOK, OfTorrents
<1>8. ASSUME NEW t \in Torrents
      PROVE  ComesTrue(t)'
  <2>1. IF IsAbout(e, t) THEN t \in torrents' <=> e.type = "added"
                         ELSE t \in torrents' <=> t \in torrents
    <3>1. CASE e.type = "added" /\ OnTorrentAdded(e.id)
      <4>1. torrents' = torrents \cup {e.id}
        BY <3>1 DEF OnTorrentAdded
      <4> QED
        BY <3>1, <4>1 DEF IsAbout
    <3>2. CASE e.type = "removed" /\ OnTorrentRemoved(e.id)
      <4>1. torrents' = torrents \ {e.id}
        BY <3>2 DEF OnTorrentRemoved
      <4> QED
        BY <3>2, <4>1 DEF IsAbout
    <3>3. CASE e.type = "changed" /\ OnTorrentStateChanged(e.id, e.state)
      <4>1. torrents' = torrents
        BY <3>3 DEF OnTorrentStateChanged
      <4> QED
        BY <3>3, <4>1 DEF IsAbout
    <3> QED
      BY <1>1, <3>1, <3>2, <3>3
  <2>2. ComesTrue(t) /\ e = Head(later)
    BY Known DEF e
  <2>3. UNCHANGED <<alive, toClient, started>>
    BY <1>1
  <2> QED
    BY <1>1, <1>2, <1>6, <2>1, <2>2, <2>3, RunEventComesTrue
<1> QED
  BY <1>5, <1>7, <1>8 DEF IndInv

(* A step that changes nothing.                                            *)
LEMMA StutterKeepsInv ==
  ASSUME IndInv, UNCHANGED vars
  PROVE  IndInv'
<1>1. UNCHANGED <<alive, me, interested, started, torrents, later, toClient, toDaemon,
                  soon, waiting, posts>>
  BY DEF vars, daemonVars, clientVars
<1>2. soon' \in Seq(Held) /\ waiting' \in Seq(Held) /\ posts' \in Nat /\ PostsAreAwaited'
  BY <1>1, Known DEF PostsAreAwaited
<1> QED
  BY <1>1, <1>2, DaemonKeepsInv

(* At first there is no connection.                                        *)
LEMMA InitEstablishesInv == Init => IndInv
<1> SUFFICES ASSUME Init
             PROVE  IndInv
  OBVIOUS
<1>1. /\ alive \subseteq Torrents /\ me \in Mine
      /\ toDaemon = <<>> /\ soon = <<>> /\ waiting = <<>> /\ posts = 0
      /\ ~interested /\ toClient = <<>> /\ ~started /\ torrents = {} /\ later = <<>>
  BY DEF Init
<1>2. /\ toDaemon \in Seq(Requests) /\ soon \in Seq(Held) /\ waiting \in Seq(Held)
      /\ IsSequence(toClient) /\ IsSequence(later)
  BY <1>1, EmptySeq DEF IsSequence
<1>3. OfTorrents(toClient) /\ OfTorrents(later) /\ PostsAreAwaited
  BY <1>1, EmptySeq DEF OfTorrents, PostsAreAwaited
<1>4. EventsFirst
  BY <1>1 DEF EventsFirst
<1>5. ASSUME NEW t \in Torrents
      PROVE  ComesTrue(t)
  <2>1. Quiet(toClient, t) /\ Quiet(later, t) /\ \A i \in 1..Len(toClient) : FALSE
    BY <1>1, EmptySeq DEF Quiet
  <2> QED
    BY <1>1, <2>1 DEF ComesTrue
<1> QED
  BY <1>1, <1>2, <1>3, <1>4, <1>5 DEF IndInv, QueuesOK

(* Each step of the daemon, of the connection and of the client.           *)
LEMMA StepKeepsInv ==
  ASSUME IndInv, [Next]_vars
  PROVE  IndInv'
<1>1. ASSUME NEW t \in Torrents, AddTorrent(t) \/ RemoveTorrent(t), UNCHANGED clientVars
      PROVE  IndInv'
  BY <1>1, AddKeepsInv, RemoveKeepsInv
<1>2. ASSUME NEW t \in Torrents, NEW k \in Keys, NEW v \in Values, Change(t, k, v),
             UNCHANGED clientVars
      PROVE  IndInv'
  BY <1>2, ChangeKeepsInv
<1>3. CASE Dispatch /\ UNCHANGED clientVars
  BY <1>3, DispatchKeepsInv
<1>4. CASE (RunSoon \/ StateUpdate \/ LoseAlert) /\ UNCHANGED clientVars
  BY <1>4, RunSoonKeepsInv, StateUpdateKeepsInv, LoseAlertKeepsInv
<1>5. ASSUME NEW s \in Others, UNCHANGED clientVars,
             OtherCall(s) \/ \E ks \in KeySets : OtherAsks(s, Torrents, ks)
      PROVE  IndInv'
  BY <1>5, OtherKeepsInv
<1>6. CASE Start
  BY <1>6, StartKeepsInv
<1>7. ASSUME NEW ids \in SUBSET Torrents, NEW ks \in KeySets,
             AskMany(ids, ks) \/ AskFilter(ks)
      PROVE  IndInv'
  <2> DEFINE r == Request("many", ids, ks)
             q == Request("filter", {}, ks)
  <2>1. r \in Requests /\ q \in Requests /\ r.type # "session" /\ q.type # "session"
    BY StatusAssumption DEF Request, Requests
  <2>2. /\ started /\ (Send(r) \/ Send(q))
        /\ UNCHANGED <<daemonVars, me, toClient, mixed, clientVars>>
    BY <1>7 DEF AskMany, AskFilter, MayAsk
  <2> HIDE DEF r, q
  <2> QED
    BY <2>1, <2>2, AskKeepsInv
<1>8. ASSUME NEW t \in Torrents, NEW ks \in KeySets, AskOne(t, ks)
      PROVE  IndInv'
  <2> DEFINE r == Request("one", {t}, ks)
             q == Request("unknown", {t}, ks)
  <2>1. r \in Requests /\ q \in Requests /\ r.type # "session" /\ q.type # "session"
    BY StatusAssumption DEF Request, Requests
  <2>2. /\ started /\ (Send(r) \/ Send(q))
        /\ UNCHANGED <<daemonVars, me, toClient, mixed, clientVars>>
    BY <1>8 DEF AskOne, MayAsk
  <2> HIDE DEF r, q
  <2> QED
    BY <2>1, <2>2, AskKeepsInv
<1>9. CASE Read \/ RunEvent
  BY <1>9, ReadKeepsInv, RunEventKeepsInv
<1>10. ASSUME NEW s \in Mine, Reconnect(s)
       PROVE  IndInv'
  BY <1>10, ReconnectKeepsInv
<1>11. CASE UNCHANGED vars
  BY <1>11, StutterKeepsInv
<1>12. {} \in SUBSET Torrents
  OBVIOUS
<1> QED
  BY <1>1, <1>2, <1>3, <1>4, <1>5, <1>6, <1>7, <1>8, <1>9, <1>10, <1>11, <1>12 DEF Next

-----------------------------------------------------------------------------
(* For every torrent the last event on its way says whether it is there,   *)
(* no answer on its way tells of one that is gone without an event behind  *)
(* it, and the requests that wait are as many as the alerts to come.       *)
THEOREM ProxyInvariant == Spec => []IndInv
<1>1. IndInv /\ [Next]_vars => IndInv'
  BY StepKeepsInv
<1> QED
  BY InitEstablishesInv, <1>1, PTL DEF Spec

(* on_alert_state_update never takes a request from an empty list.         *)
THEOREM AlertsFindTheirRequest == Spec => []PostsAreAwaited
<1>1. IndInv => PostsAreAwaited
  BY DEF IndInv
<1> QED
  BY <1>1, ProxyInvariant, PTL

(* The proxy knows the torrents of the session, but for what an event on   *)
(* its way tells it.                                                       *)
THEOREM ProxyKnowsTheSession == Spec => []CacheHoldsTheSession
<1>1. IndInv => CacheHoldsTheSession
  <2> SUFFICES ASSUME IndInv, started, ~StateUnderWay, NEW t \in Torrents
               PROVE  /\ t \in alive \ torrents => Announced("added", t)
                      /\ t \in torrents \ alive => Announced("removed", t)
    BY DEF CacheHoldsTheSession
  <2>1. /\ ComesTrue(t)
        /\ IsSequence(toClient) /\ IsSequence(later) /\ toDaemon \in Seq(Requests)
    BY Known
  <2>2. /\ DOMAIN toClient = 1..Len(toClient) /\ DOMAIN later = 1..Len(later)
        /\ DOMAIN toDaemon = 1..Len(toDaemon)
    BY <2>1, LenProperties DEF IsSequence
  <2>3. ~SessionAsked /\ \A i \in 1..Len(toClient) : ~TellsState(toClient[i], t)
    BY <2>2 DEF StateUnderWay, SessionAsked, TellsState
  <2>4. CASE Quiet(toClient, t) /\ Quiet(later, t)
    BY <2>1, <2>3, <2>4 DEF ComesTrue
  <2>5. CASE ~Quiet(toClient, t) \/ ~Quiet(later, t)
    <3>1. LastIsRight(toClient, t) \/ LastIsRight(later, t)
      BY <2>1, <2>5 DEF ComesTrue
    <3>2. \E m \in ToCome : IsAbout(m, t) /\ (m.type = "added" <=> t \in alive)
      BY <2>2, <3>1 DEF LastIsRight, ToCome
    <3> QED
      BY <3>2 DEF Announced, IsAbout
  <2> QED
    BY <2>4, <2>5
<1> QED
  BY <1>1, ProxyInvariant, PTL

-----------------------------------------------------------------------------
(* A diff tells the keys asked for whose value is not the one remembered.   *)
LEMMA DiffTells ==
  ASSUME NEW s, NEW t, NEW ks, NEW k
  PROVE  /\ k \in DOMAIN Diff(s, t, ks) <=>
              /\ k \in DOMAIN value[t] /\ k \in ks
              /\ k \in DOMAIN prev[s][t] => prev[s][t][k] # value[t][k]
         /\ k \in DOMAIN Diff(s, t, ks) => Diff(s, t, ks)[k] = value[t][k]
         /\ k \in DOMAIN Only(value[t], ks) <=> k \in DOMAIN value[t] /\ k \in ks
         /\ k \in DOMAIN Only(value[t], ks) => Only(value[t], ks)[k] = value[t][k]
BY DEF Diff, Only

(* The empty status tells nothing, and an event neither.                   *)
LEMMA NothingTold ==
  ASSUME NEW m, NEW t, NEW k, IsEvent(m) \/ t \notin DOMAIN m.status
                               \/ m.status[t] = NoStatus
  PROVE  ~Brings(m, t, k)
<1>1. DOMAIN NoStatus = {}
  BY DEF NoStatus
<1> QED
  BY <1>1 DEF Brings

(* A message comes last: it brings the value, or what is held stays so.    *)
LEMMA AppendIsHeld ==
  ASSUME IsSequence(toClient), NEW t, NEW k, NEW w, NEW x,
         toClient' = Append(toClient, x), UNCHANGED cached,
         IF Brings(x, t, k) THEN IsDiff(x) /\ x.status[t][k] = w
                            ELSE IsHeld(t, k, w)
  PROVE  IsHeld(t, k, w)'
<1>0. /\ Len(toClient) \in Nat /\ Len(toClient') = Len(toClient) + 1
      /\ toClient'[Len(toClient) + 1] = x
      /\ \A i \in 1..Len(toClient) : toClient'[i] = toClient[i]
  BY Appended
<1>1. PICK n \in Nat : /\ Len(toClient) = n /\ Len(toClient') = n + 1
                       /\ toClient'[n + 1] = x
                       /\ \A i \in 1..n : toClient'[i] = toClient[i]
  BY <1>0
<1>2. \A i \in 1..n + 1 : i = n + 1 \/ i \in 1..n
  OBVIOUS
<1>3. n + 1 \in 1..n + 1 /\ \A i \in 1..n : i \in 1..n + 1 /\ n + 1 > i
  OBVIOUS
<1>4. CASE Brings(x, t, k)
  <2>1. BringsLast(n + 1, t, k)'
    BY <1>1, <1>4 DEF BringsLast
  <2>2. \A i \in 1..n : ~BringsLast(i, t, k)'
    BY <1>1, <1>3, <1>4 DEF BringsLast
  <2> QED
    BY <1>1, <1>2, <1>3, <1>4, <2>1, <2>2 DEF IsHeld, WillHold
<1>5. CASE ~Brings(x, t, k)
  <2>1. NoneBrings(t, k)' <=> NoneBrings(t, k)
    BY <1>1, <1>2, <1>3, <1>5 DEF NoneBrings
  <2>2. \A i \in 1..n : BringsLast(i, t, k)' <=> BringsLast(i, t, k)
    BY <1>1, <1>2, <1>3, <1>5 DEF BringsLast
  <2>3. ~BringsLast(n + 1, t, k)'
    BY <1>1, <1>5 DEF BringsLast
  <2>4. IsHeld(t, k, w)
    BY <1>5
  <2>5. WillHold(t, k, w)'
    BY <1>1, <1>3, <2>1, <2>2, <2>4 DEF IsHeld, WillHold
  <2>6. \A i \in 1..n + 1 : BringsLast(i, t, k)' => IsDiff(toClient'[i])
    BY <1>1, <1>2, <2>2, <2>3, <2>4 DEF IsHeld
  <2> QED
    BY <1>1, <2>5, <2>6 DEF IsHeld
<1> QED
  BY <1>4, <1>5

(* The cache moves, and no message: what it holds for a key that no message *)
(* brings stays.                                                           *)
LEMMA CacheIsHeld ==
  ASSUME NEW t, NEW k, NEW w, IsHeld(t, k, w), UNCHANGED toClient,
         k \in DOMAIN cached[t] =>
           k \in DOMAIN cached'[t] /\ cached'[t][k] = cached[t][k]
  PROVE  IsHeld(t, k, w)'
<1>1. NoneBrings(t, k)' = NoneBrings(t, k)
  BY DEF NoneBrings
<1>2. \A i \in 1..Len(toClient) : BringsLast(i, t, k)' <=> BringsLast(i, t, k)
  BY DEF BringsLast
<1> QED
  BY <1>1, <1>2 DEF IsHeld, WillHold

(* A message is handled: a diff that brings the key is merged, and what     *)
(* the others leave in the cache is what it was.                           *)
LEMMA ReadIsHeld ==
  ASSUME IsSequence(toClient), toClient # <<>>, toClient' = Tail(toClient),
         NEW t, NEW k, NEW w, IsHeld(t, k, w), NEW m, m = Head(toClient),
         Brings(m, t, k) /\ IsDiff(m) =>
           k \in DOMAIN cached'[t] /\ cached'[t][k] = m.status[t][k],
         ~Brings(m, t, k) /\ k \in DOMAIN cached[t] =>
           k \in DOMAIN cached'[t] /\ cached'[t][k] = cached[t][k]
  PROVE  IsHeld(t, k, w)'
<1> DEFINE n == Len(toClient)
<1>1. /\ n \in Nat \ {0} /\ Len(toClient') = n - 1 /\ m = toClient[1]
      /\ \A i \in 1..n - 1 : toClient'[i] = toClient[i + 1]
  BY Taken
<1> HIDE DEF n
<1>2. /\ 1 \in 1..n
      /\ \A i \in 1..n : i = 1 \/ (i > 1 /\ i - 1 \in 1..n - 1 /\ (i - 1) + 1 = i)
      /\ \A i \in 1..n - 1 : i + 1 \in 1..n /\ i + 1 > 1
  BY <1>1
<1>3. \A i \in 1..n - 1 : BringsLast(i, t, k)' <=> BringsLast(i + 1, t, k)
  <2> SUFFICES ASSUME NEW i \in 1..n - 1
               PROVE  BringsLast(i, t, k)' <=> BringsLast(i + 1, t, k)
    OBVIOUS
  <2>1. ASSUME BringsLast(i, t, k)', NEW j \in 1..n, j > i + 1
        PROVE  ~Brings(toClient[j], t, k)
    <3>1. j - 1 \in 1..n - 1 /\ j - 1 > i /\ toClient'[j - 1] = toClient[j]
      BY <1>1, <2>1
    <3> QED
      BY <1>1, <2>1, <3>1 DEF BringsLast
  <2>2. ASSUME BringsLast(i + 1, t, k), NEW j \in 1..n - 1, j > i
        PROVE  ~Brings(toClient'[j], t, k)
    <3>1. j + 1 \in 1..n /\ j + 1 > i + 1 /\ toClient'[j] = toClient[j + 1]
      BY <1>1, <2>2
    <3> QED
      BY <2>2, <3>1 DEF BringsLast, n
  <2>3. toClient'[i] = toClient[i + 1]
    BY <1>1
  <2> QED
    BY <1>1, <2>1, <2>2, <2>3 DEF BringsLast, n
<1>4. \A i \in 1..n - 1 : BringsLast(i, t, k)' => IsDiff(toClient'[i])
  BY <1>1, <1>2, <1>3 DEF IsHeld, n
<1>5. WillHold(t, k, w)'
  <2>1. CASE NoneBrings(t, k) /\ k \in DOMAIN cached[t] /\ cached[t][k] = w
    <3>1. ~Brings(m, t, k)
      BY <1>1, <1>2, <2>1 DEF NoneBrings, n
    <3>2. NoneBrings(t, k)'
      BY <1>1, <1>2, <2>1 DEF NoneBrings, n
    <3> QED
      BY <2>1, <3>1, <3>2 DEF WillHold
  <2>2. ASSUME NEW i \in 1..n, BringsLast(i, t, k), toClient[i].status[t][k] = w
        PROVE  WillHold(t, k, w)'
    <3>1. CASE i = 1
      <4>1. \A j \in 1..n - 1 : ~Brings(toClient'[j], t, k)
        BY <1>1, <1>2, <2>2, <3>1 DEF BringsLast, n
      <4>2. Brings(m, t, k) /\ IsDiff(m)
        BY <1>1, <2>2, <3>1 DEF IsHeld, BringsLast, n
      <4> QED
        BY <1>1, <2>2, <3>1, <4>1, <4>2 DEF WillHold, NoneBrings
    <3>2. CASE i # 1
      <4>1. i - 1 \in 1..n - 1 /\ (i - 1) + 1 = i
        BY <1>2, <3>2
      <4>2. BringsLast(i - 1, t, k)' /\ toClient'[i - 1] = toClient[i]
        BY <1>1, <1>3, <2>2, <4>1
      <4> QED
        BY <1>1, <2>2, <4>1, <4>2 DEF WillHold
    <3> QED
      BY <3>1, <3>2
  <2> QED
    BY <2>1, <2>2 DEF IsHeld, WillHold, n
<1> QED
  BY <1>1, <1>4, <1>5 DEF IsHeld

(* What is remembered for the client only gets less, and no message that    *)
(* comes brings a key that is remembered.                                  *)
LEMMA QuietStepHolds ==
  ASSUME IsSequence(toClient), SentIsHeld, ~mixed, UNCHANGED cached,
         \A t \in alive' : \A k \in DOMAIN prev'[me'][t] :
           t \in alive /\ prev'[me'][t] = prev[me][t],
         \/ toClient' = toClient
         \/ \E x : /\ toClient' = Append(toClient, x)
                   /\ \A t \in alive : \A k \in DOMAIN prev[me][t] : ~Brings(x, t, k)
  PROVE  SentIsHeld'
<1> SUFFICES ASSUME NEW t \in alive', NEW k \in DOMAIN prev'[me'][t]
             PROVE  IsHeld(t, k, prev[me][t][k])'
  BY DEF SentIsHeld
<1> DEFINE w == prev[me][t][k]
<1>1. t \in alive /\ prev'[me'][t][k] = w /\ k \in DOMAIN prev[me][t]
  OBVIOUS
<1>2. PICK v : v = w
  OBVIOUS
<1>3. IsHeld(t, k, v)
  BY <1>1, <1>2 DEF SentIsHeld
<1>4. IsHeld(t, k, v)'
  <2>1. CASE toClient' = toClient
    BY <1>3, <2>1, CacheIsHeld
  <2>2. ASSUME NEW x, toClient' = Append(toClient, x), ~Brings(x, t, k)
        PROVE  IsHeld(t, k, v)'
    BY <1>3, <2>2, AppendIsHeld
  <2> QED
    BY <1>1, <2>1, <2>2
<1>5. prev'[me'][t][k] = v
  BY <1>1, <1>2
<1> QED
  BY <1>4, <1>5 DEF IsHeld, WillHold

(* What is remembered of a diff.                                           *)
LEMMA RememberedIs ==
  ASSUME PrevOK, NEW s, NEW ts, NEW ks
  PROVE  /\ s \in Sessions => \A t \in Torrents :
              Remembered(s, ts, ks)[s][t] = IF t \in ts THEN Only(value[t], ks)
                                                        ELSE prev[s][t]
         /\ \A u \in Sessions : u # s => Remembered(s, ts, ks)[u] = prev[u]
         /\ Remembered(s, ts, ks) = [u \in Sessions |->
                                       [t \in Torrents |-> Remembered(s, ts, ks)[u][t]]]
<1>1. prev = [u \in Sessions |-> [t \in Torrents |-> prev[u][t]]]
  BY DEF PrevOK
<1> QED
  BY <1>1 DEF Remembered

(* A diff is made for the client and sent to it: what it leaves out is held *)
(* already, and it brings the rest.                                        *)
LEMMA DiffHolds ==
  ASSUME IsSequence(toClient), PrevOK, SentIsHeld, ~mixed, me \in Sessions,
         alive \subseteq Torrents,
         NEW ids, NEW ks, NEW x, IsDiff(x), toClient' = Append(toClient, x),
         \A t \in ids \cap alive : t \in DOMAIN x.status
                                   /\ x.status[t] = Diff(me, t, ks),
         \A t \in DOMAIN x.status : t \in ids \cap alive \/ x.status[t] = NoStatus,
         prev' = Remembered(me, ids \cap alive, ks),
         UNCHANGED <<alive, me, cached>>
  PROVE  SentIsHeld'
<1> SUFFICES ASSUME NEW t \in alive, NEW k \in DOMAIN prev'[me][t]
             PROVE  IsHeld(t, k, prev[me][t][k])'
  BY DEF SentIsHeld
<1>1. prev'[me][t] = IF t \in ids \cap alive THEN Only(value[t], ks) ELSE prev[me][t]
  BY RememberedIs
<1>2. PICK w : w = prev'[me][t][k]
  OBVIOUS
<1>3. ~IsEvent(x)
  BY DEF IsDiff, IsEvent
<1>4. k \in DOMAIN prev[me][t] => IsHeld(t, k, prev[me][t][k])
  BY DEF SentIsHeld
<1>5. IF Brings(x, t, k) THEN x.status[t][k] = w ELSE IsHeld(t, k, w)
  <2>1. CASE t \in ids
    <3>0. prev'[me][t] = Only(value[t], ks)
      BY <1>1, <2>1
    <3>1. k \in DOMAIN value[t] /\ k \in ks /\ w = value[t][k]
      BY <1>2, <3>0 DEF Only
    <3>2. Brings(x, t, k) <=> k \in DOMAIN Diff(me, t, ks)
      BY <1>3, <2>1 DEF Brings
    <3>3. CASE k \in DOMAIN prev[me][t] /\ prev[me][t][k] = value[t][k]
      BY <1>4, <3>1, <3>2, <3>3, DiffTells
    <3>4. CASE ~(k \in DOMAIN prev[me][t] /\ prev[me][t][k] = value[t][k])
      BY <2>1, <3>1, <3>2, <3>4, DiffTells
    <3> QED
      BY <3>3, <3>4
  <2>2. CASE t \notin ids
    BY <1>1, <1>2, <1>4, <2>2, NothingTold
  <2> QED
    BY <2>1, <2>2
<1>6. IsHeld(t, k, w)'
  BY <1>5, AppendIsHeld
<1> QED
  BY <1>2, <1>6 DEF IsHeld, WillHold

(* What is remembered stays so when a diff is made for a session of now.    *)
LEMMA RememberedKeepsPrev ==
  ASSUME PrevOK, NEW s, NEW ts, NEW ks, ts \subseteq alive, s \in Mine => s <= me,
         me \in Nat, prev' = Remembered(s, ts, ks), session_id' \in Mine => session_id' <= me,
         UNCHANGED <<alive, me, cached>>
  PROVE  PrevOK'
<1>1. prev' = [u \in Sessions |-> [t \in Torrents |-> prev'[u][t]]]
  BY RememberedIs
<1>2. ASSUME NEW u \in Sessions, NEW t \in Torrents,
             t \notin alive \/ (u \in Mine /\ u > me)
      PROVE  prev'[u][t] = NoStatus
  <2>1. prev[u][t] = NoStatus
    BY <1>2 DEF PrevOK
  <2>2. CASE u # s
    BY <2>1, <2>2, RememberedIs
  <2>3. CASE u = s
    <3>1. t \notin ts
      BY <1>2, <2>3, StatusAssumption
    <3> QED
      BY <2>1, <2>3, <3>1, RememberedIs
  <2> QED
    BY <2>2, <2>3
<1> QED
  BY <1>1, <1>2 DEF PrevOK

(* Torrents come, go and change: what is remembered of one that goes is     *)
(* forgotten.                                                              *)
LEMMA SessionKeepsHeld ==
  ASSUME IndInv, HeldInv, UNCHANGED clientVars, NEW t \in Torrents,
         \/ AddTorrent(t)
         \/ RemoveTorrent(t)
         \/ \E k \in Keys, v \in Values : Change(t, k, v)
  PROVE  HeldInv'
<1>1. /\ UNCHANGED <<me, session_id, mixed, cached>>
      /\ \/ alive' = alive \cup {t} /\ t \notin alive /\ prev' = prev
         \/ /\ alive' = alive \ {t}
            /\ prev' = [s \in Sessions |-> [prev[s] EXCEPT ![t] = NoStatus]]
         \/ alive' = alive /\ prev' = prev
  BY DEF AddTorrent, RemoveTorrent, Change, clientVars
<1>2. \/ toClient' = toClient
      \/ \E x : toClient' = Append(toClient, x) /\ IsEvent(x)
  <2>1. ASSUME NEW x, IsEvent(x), Emit(x)
        PROVE  \/ toClient' = toClient
               \/ \E y : toClient' = Append(toClient, y) /\ IsEvent(y)
    BY <2>1 DEF Emit
  <2>2. /\ IsEvent(TorrentEvent("added", t)) /\ IsEvent(TorrentEvent("removed", t))
        /\ \A v : IsEvent([type |-> "changed", id |-> t, state |-> v])
    BY DEF TorrentEvent, IsEvent
  <2> QED
    BY <2>1, <2>2 DEF AddTorrent, RemoveTorrent, Change
<1>3. /\ prev = [s \in Sessions |-> [u \in Torrents |-> prev[s][u]]]
      /\ cached = [u \in Torrents |-> cached[u]]
      /\ session_id \in Mine => session_id <= me
      /\ \A s \in Sessions, u \in Torrents :
           u \notin alive \/ (s \in Mine /\ s > me) => prev[s][u] = NoStatus
      /\ IsSequence(toClient) /\ alive \subseteq Torrents /\ me \in Sessions
  BY Known DEF HeldInv, PrevOK, Sessions
<1>4. \A s \in Sessions, u \in Torrents :
        prev'[s][u] = IF u = t /\ t \notin alive' THEN NoStatus ELSE prev[s][u]
  BY <1>1, <1>3
<1>5. PrevOK'
  <2>1. prev' = [s \in Sessions |-> [u \in Torrents |-> prev'[s][u]]]
    BY <1>1, <1>3
  <2>2. \A s \in Sessions, u \in Torrents :
          u \notin alive' \/ (s \in Mine /\ s > me) => prev'[s][u] = NoStatus
    BY <1>1, <1>3, <1>4
  <2> QED
    BY <1>1, <1>3, <2>1, <2>2 DEF PrevOK
<1>6. SentIsHeld'
  <2>1. CASE mixed
    BY <1>1, <2>1 DEF SentIsHeld
  <2>2. CASE ~mixed
    <3>1. ASSUME NEW u \in alive', NEW k \in DOMAIN prev'[me'][u]
          PROVE  u \in alive /\ prev'[me'][u] = prev[me][u]
      <4>1. u \in Torrents /\ me' = me
        BY <1>1, <1>3
      <4>2. prev'[me][u] = prev[me][u]
        BY <1>3, <1>4, <4>1
      <4>3. u \in alive
        <5>1. DOMAIN NoStatus = {}
          BY DEF NoStatus
        <5>2. prev[me][u] # NoStatus
          BY <3>1, <4>1, <4>2, <5>1
        <5> QED
          BY <1>3, <4>1, <5>2
      <4> QED
        BY <4>1, <4>2, <4>3
    <3>2. \A x : IsEvent(x) => \A u, k : ~Brings(x, u, k)
      BY DEF Brings
    <3> QED
      BY <1>1, <1>2, <1>3, <2>2, <3>1, <3>2, QuietStepHolds DEF HeldInv
  <2> QED
    BY <2>1, <2>2
<1> QED
  BY <1>5, <1>6 DEF HeldInv

(* Steps that neither make a status nor move the cache.                    *)
LEMMA RestKeepsHeld ==
  ASSUME HeldInv, session_id' \in Mine => session_id' <= me,
         UNCHANGED <<alive, prev, me, toClient, cached, mixed>>
  PROVE  HeldInv'
<1>1. PrevOK'
  BY DEF HeldInv, PrevOK
<1>2. SentIsHeld'
  BY DEF HeldInv, SentIsHeld, IsHeld, WillHold, NoneBrings, BringsLast
<1> QED
  BY <1>1, <1>2 DEF HeldInv

(* A request that was waiting is answered: if the diff is not for the      *)
(* session that asked, one of them the client's, it is mixed from then on. *)
LEMMA HandleKeepsHeld ==
  ASSUME IndInv, HeldInv, NEW r \in Held, HandleStatus(r),
         UNCHANGED <<alive, session_id, me, cached>>
  PROVE  HeldInv'
<1> DEFINE there == r.ids \cap alive
           x == [type |-> r.type,
                 status |-> [t \in there |-> Diff(session_id, t, r.keys)]]
<1>1. /\ prev' = Remembered(session_id, there, r.keys)
      /\ IF r.from = me THEN toClient' = Append(toClient, x) ELSE UNCHANGED toClient
      /\ mixed' <=> mixed \/ (r.from # session_id /\ me \in {r.from, session_id})
  BY DEF HandleStatus, Answer
<1>2. /\ IsSequence(toClient) /\ alive \subseteq Torrents
      /\ me \in Sessions /\ me \in Nat
      /\ PrevOK /\ SentIsHeld /\ (session_id \in Mine => session_id <= me)
  BY Known, StatusAssumption DEF HeldInv, PrevOK, Sessions
<1>3. there \subseteq alive
  OBVIOUS
<1>4. r.type = "many"
  BY DEF Held, ManyRequests
<1> HIDE DEF there
<1>5. PrevOK'
  BY <1>1, <1>2, <1>3, RememberedKeepsPrev
<1>6. SentIsHeld'
  <2>1. CASE mixed'
    BY <2>1 DEF SentIsHeld
  <2>2. CASE ~mixed' /\ session_id = me
    <3>1. r.from = me /\ ~mixed
      BY <1>1, <2>2
    <3>2. IsDiff(x)
      BY <1>4 DEF IsDiff
    <3>3. toClient' = Append(toClient, x)
      BY <1>1, <3>1
    <3>4. /\ \A t \in r.ids \cap alive : t \in DOMAIN x.status
                                         /\ x.status[t] = Diff(me, t, r.keys)
          /\ \A t \in DOMAIN x.status : t \in r.ids \cap alive
      BY <2>2 DEF there
    <3>5. prev' = Remembered(me, r.ids \cap alive, r.keys)
      BY <1>1, <2>2 DEF there
    <3> HIDE DEF x
    <3> QED
      BY <1>2, <3>1, <3>2, <3>3, <3>4, <3>5, DiffHolds
  <2>3. CASE ~mixed' /\ session_id # me
    <3>1. r.from # me /\ ~mixed
      BY <1>1, <2>3
    <3>2. prev'[me] = prev[me]
      BY <1>1, <1>2, <2>3, RememberedIs
    <3> QED
      BY <1>1, <1>2, <3>1, <3>2, QuietStepHolds
  <2> QED
    BY <2>1, <2>2, <2>3
<1> QED
  BY <1>5, <1>6 DEF HeldInv

(* The daemon runs a method of the client.  One that returns a whole status *)
(* after a diff is mixed from then on.                                     *)
LEMMA DispatchKeepsHeld ==
  ASSUME IndInv, HeldInv, Dispatch, UNCHANGED clientVars
  PROVE  HeldInv'
<1> DEFINE r == Head(toDaemon)
<1>1. /\ UNCHANGED <<alive, value, me, cached>>
      /\ session_id' = session_id \/ session_id' = me
      /\ \/ /\ r.type \in {"interest", "many", "filter"}
            /\ UNCHANGED <<prev, toClient, mixed>>
         \/ /\ Answer([type |-> "session", status |-> [t \in alive |-> NoStatus]])
            /\ UNCHANGED <<prev, mixed>>
         \/ /\ Answer([type |-> "all",
                        status |-> [t \in r.ids |-> IF t \in alive THEN value[t]
                                                                  ELSE NoStatus]])
            /\ mixed' = (mixed \/ \E t \in r.ids : prev[me][t] # NoStatus)
            /\ UNCHANGED prev
         \/ /\ r.type \in {"one", "unknown"}
            /\ TorrentStatus(r)
            /\ UNCHANGED mixed
  BY DEF Dispatch, clientVars
<1>2. /\ IsSequence(toClient) /\ alive \subseteq Torrents
      /\ me \in Sessions /\ me \in Nat
      /\ PrevOK /\ SentIsHeld /\ (session_id \in Mine => session_id <= me)
  BY Known, StatusAssumption DEF HeldInv, PrevOK, Sessions
<1>3. session_id' \in Mine => session_id' <= me'
  BY <1>1, <1>2
<1> HIDE DEF r
<1>4. ASSUME NEW x, Answer(x), UNCHANGED prev, mixed' \/ ~mixed,
             ~mixed' => \A t \in alive : \A k \in DOMAIN prev[me][t] : ~Brings(x, t, k)
      PROVE  HeldInv'
  <2>1. PrevOK'
    BY <1>1, <1>2, <1>3, <1>4 DEF PrevOK
  <2>2. CASE mixed'
    BY <2>1, <2>2 DEF HeldInv, SentIsHeld
  <2>3. CASE ~mixed'
    <3>1. toClient' = Append(toClient, x)
      BY <1>4 DEF Answer
    <3>2. SentIsHeld'
      BY <1>1, <1>2, <1>4, <2>3, <3>1, QuietStepHolds
    <3> QED
      BY <2>1, <3>2 DEF HeldInv
  <2> QED
    BY <2>2, <2>3
<1>5. CASE UNCHANGED <<prev, toClient, mixed>>
  BY <1>1, <1>3, <1>5, RestKeepsHeld
<1>6. CASE /\ Answer([type |-> "session", status |-> [t \in alive |-> NoStatus]])
           /\ UNCHANGED <<prev, mixed>>
  <2> DEFINE x == [type |-> "session", status |-> [t \in alive |-> NoStatus]]
  <2>1. \A t, k : ~Brings(x, t, k)
    <3>1. \A t \in DOMAIN x.status : x.status[t] = NoStatus
      OBVIOUS
    <3> HIDE DEF x
    <3> QED
      BY <3>1, NothingTold
  <2> HIDE DEF x
  <2>2. Answer(x) /\ UNCHANGED <<prev, mixed>>
    BY <1>6 DEF x
  <2>3. CASE mixed
    <3>1. mixed' \/ ~mixed
      BY <2>2
    <3> QED
      BY <1>4, <2>1, <2>2, <3>1
  <2>4. CASE ~mixed
    BY <1>4, <2>1, <2>2, <2>4
  <2> QED
    BY <2>3, <2>4
<1>7. CASE /\ Answer([type |-> "all",
                      status |-> [t \in r.ids |-> IF t \in alive THEN value[t]
                                                                ELSE NoStatus]])
           /\ mixed' = (mixed \/ \E t \in r.ids : prev[me][t] # NoStatus)
           /\ UNCHANGED prev
  <2> DEFINE x == [type |-> "all",
                   status |-> [t \in r.ids |-> IF t \in alive THEN value[t] ELSE NoStatus]]
  <2>1. ASSUME ~mixed', NEW t \in alive, NEW k \in DOMAIN prev[me][t]
        PROVE  ~Brings(x, t, k)
    <3>1. DOMAIN NoStatus = {}
      BY DEF NoStatus
    <3>2. prev[me][t] # NoStatus
      BY <2>1, <3>1
    <3>3. t \notin r.ids
      BY <1>7, <2>1, <3>2
    <3>4. t \notin DOMAIN x.status
      BY <3>3
    <3> HIDE DEF x
    <3> QED
      BY <3>4, NothingTold
  <2> HIDE DEF x
  <2>2. Answer(x) /\ UNCHANGED prev /\ (mixed' \/ ~mixed)
    BY <1>7 DEF x
  <2> QED
    BY <1>4, <2>1, <2>2
<1>8. CASE r.type \in {"one", "unknown"} /\ TorrentStatus(r) /\ UNCHANGED mixed
  <2> DEFINE x == [type |-> r.type,
                   status |-> [t \in r.ids |-> IF t \in alive THEN Diff(me, t, r.keys)
                                               ELSE NoStatus]]
             there == r.ids \cap alive
  <2>1. toClient' = Append(toClient, x) /\ prev' = Remembered(me, there, r.keys)
    BY <1>8 DEF TorrentStatus, Answer
  <2>2. /\ IsDiff(x)
        /\ \A t \in there : t \in DOMAIN x.status /\ x.status[t] = Diff(me, t, r.keys)
        /\ \A t \in DOMAIN x.status : t \in there \/ x.status[t] = NoStatus
    BY <1>8 DEF IsDiff
  <2>3. PrevOK'
    <3>1. there \subseteq alive
      OBVIOUS
    <3> HIDE DEF there, x
    <3> QED
      BY <1>1, <1>2, <1>3, <2>1, <3>1, RememberedKeepsPrev
  <2> HIDE DEF x
  <2>4. SentIsHeld'
    <3>1. CASE mixed
      BY <1>8, <3>1 DEF SentIsHeld
    <3>2. CASE ~mixed
      BY <1>1, <1>2, <2>1, <2>2, <3>2, DiffHolds
    <3> QED
      BY <3>1, <3>2
  <2> QED
    BY <2>3, <2>4 DEF HeldInv
<1> QED
  BY <1>1, <1>5, <1>6, <1>7, <1>8

(* What an answer does to the cache: a diff with the key is merged or known *)
(* to be lost, and what is not told stays.                                 *)
LEMMA AnswerMerges ==
  ASSUME NEW m, ~IsEvent(m), OnAnswer(m), ~mixed', NEW t \in alive, t \in Torrents, NEW k
  PROVE  /\ ~mixed
         /\ Brings(m, t, k) /\ IsDiff(m) =>
              k \in DOMAIN cached'[t] /\ cached'[t][k] = m.status[t][k]
         /\ ~Brings(m, t, k) /\ k \in DOMAIN cached[t] =>
              k \in DOMAIN cached'[t] /\ cached'[t][k] = cached[t][k]
<1> DEFINE there == DOMAIN m.status
<1>1. Brings(m, t, k) <=> t \in there /\ k \in DOMAIN m.status[t]
  BY DEF Brings
<1>2. DOMAIN NoStatus = {}
  BY DEF NoStatus
<1>3. Brings(m, t, k) => t \in there /\ m.status[t] # NoStatus
  BY <1>1, <1>2
<1>4. ASSUME NEW ts, Merge(m.status, ts), ts \subseteq there
      PROVE  /\ Brings(m, t, k) /\ t \in ts =>
                  k \in DOMAIN cached'[t] /\ cached'[t][k] = m.status[t][k]
             /\ ~Brings(m, t, k) /\ k \in DOMAIN cached[t] =>
                  k \in DOMAIN cached'[t] /\ cached'[t][k] = cached[t][k]
  BY <1>1, <1>4 DEF Merge, Update
<1>5. CASE m.type = "session" /\ UNCHANGED <<cached, mixed>>
  BY <1>5 DEF IsDiff
<1>6. CASE m.type = "all" /\ Merge(m.status, there \cap torrents) /\ UNCHANGED mixed
  BY <1>4, <1>6 DEF IsDiff
<1>7. ASSUME NEW ts, Merge(m.status, ts), ts \subseteq there,
             mixed' = (mixed \/ Lost(m.status, ts))
      PROVE  /\ ~mixed
             /\ Brings(m, t, k) =>
                  k \in DOMAIN cached'[t] /\ cached'[t][k] = m.status[t][k]
             /\ ~Brings(m, t, k) /\ k \in DOMAIN cached[t] =>
                  k \in DOMAIN cached'[t] /\ cached'[t][k] = cached[t][k]
  <2>1. Brings(m, t, k) => t \in ts
    BY <1>3, <1>7 DEF Lost
  <2> QED
    BY <1>4, <1>7, <2>1
<1>8. CASE /\ m.type = "one"
           /\ Merge(m.status, (there \cap torrents) \ frozen)
           /\ mixed' = (mixed \/ Lost(m.status, torrents \ frozen))
  <2> DEFINE ts == (there \cap torrents) \ frozen
  <2>1. Lost(m.status, torrents \ frozen) <=> Lost(m.status, ts)
    BY DEF Lost
  <2>2. ts \subseteq there /\ Merge(m.status, ts) /\ mixed' = (mixed \/ Lost(m.status, ts))
    BY <1>8, <2>1
  <2> HIDE DEF ts
  <2> QED
    BY <1>7, <2>2
<1>9. CASE \E told : /\ told = {u \in there : m.status[u] # NoStatus}
                     /\ cached' = [u \in Torrents |-> IF u \in told THEN m.status[u]
                                                                  ELSE cached[u]]
                     /\ mixed' = (mixed \/ told # {})
  BY <1>3, <1>9
<1>10. CASE \E done \in SUBSET there :
              Merge(m.status, done) /\ mixed' = (mixed \/ Lost(m.status, done))
  BY <1>7, <1>10
<1>11. CASE m.type = "unknown"
  BY <1>9, <1>11 DEF OnAnswer
<1>12. CASE m.type = "many"
  <2>1. PICK done \in SUBSET ((there \cap torrents) \ frozen) :
          Merge(m.status, done) /\ mixed' = (mixed \/ Lost(m.status, done))
    BY <1>12 DEF OnAnswer
  <2> QED
    BY <1>10, <2>1
<1>13. CASE m.type \notin {"unknown", "many"}
  BY <1>5, <1>6, <1>8, <1>13 DEF OnAnswer
<1> QED
  BY <1>11, <1>12, <1>13

(* The client reads a message.                                             *)
LEMMA ReadKeepsHeld ==
  ASSUME IndInv, HeldInv, Read
  PROVE  HeldInv'
<1> DEFINE m == Head(toClient)
<1>1. /\ toClient # <<>> /\ toClient' = Tail(toClient)
      /\ IF IsEvent(m) THEN UNCHANGED <<cached, mixed>> ELSE OnAnswer(m)
      /\ UNCHANGED <<alive, prev, session_id, me>>
  BY DEF Read, daemonVars
<1>2. IsSequence(toClient) /\ alive \subseteq Torrents
  BY Known
<1> HIDE DEF m
<1>3. cached' = [t \in Torrents |-> cached'[t]]
  BY <1>1 DEF HeldInv, PrevOK, OnAnswer, Merge
<1>4. PrevOK'
  BY <1>1, <1>3 DEF HeldInv, PrevOK
<1>5. SentIsHeld'
  <2> SUFFICES ASSUME ~mixed', NEW t \in alive, NEW k \in DOMAIN prev[me][t]
               PROVE  IsHeld(t, k, prev[me][t][k])'
    BY <1>1 DEF SentIsHeld
  <2>1. PICK w : w = prev[me][t][k]
    OBVIOUS
  <2>2. /\ ~mixed
        /\ Brings(m, t, k) /\ IsDiff(m) =>
             k \in DOMAIN cached'[t] /\ cached'[t][k] = m.status[t][k]
        /\ ~Brings(m, t, k) /\ k \in DOMAIN cached[t] =>
             k \in DOMAIN cached'[t] /\ cached'[t][k] = cached[t][k]
    <3>1. CASE IsEvent(m)
      BY <1>1, <3>1 DEF Brings
    <3>2. CASE ~IsEvent(m)
      BY <1>1, <1>2, <3>2, AnswerMerges
    <3> QED
      BY <3>1, <3>2
  <2>3. IsHeld(t, k, w)
    BY <2>1, <2>2 DEF HeldInv, SentIsHeld
  <2>4. m = Head(toClient)
    BY DEF m
  <2>5. IsHeld(t, k, w)'
    BY <1>1, <1>2, <2>2, <2>3, <2>4, ReadIsHeld
  <2> QED
    BY <1>1, <2>1, <2>5 DEF IsHeld, WillHold
<1> QED
  BY <1>4, <1>5 DEF HeldInv

(* The handlers of an event run.  One that drops a status of a torrent that *)
(* is there makes it mixed.                                                *)
LEMMA RunEventKeepsHeld ==
  ASSUME IndInv, HeldInv, RunEvent
  PROVE  HeldInv'
<1> DEFINE e == Head(later)
<1>1. /\ \/ OnTorrentAdded(e.id)
         \/ OnTorrentRemoved(e.id)
         \/ OnTorrentStateChanged(e.id, e.state)
      /\ UNCHANGED <<alive, prev, session_id, me, toClient>>
  BY DEF RunEvent, daemonVars
<1>2. alive \subseteq Torrents /\ cached = [t \in Torrents |-> cached[t]]
  BY Known DEF HeldInv, PrevOK
<1> HIDE DEF e
<1>3. cached' = [t \in Torrents |-> cached'[t]]
  BY <1>1, <1>2 DEF OnTorrentAdded, OnTorrentRemoved, OnTorrentStateChanged
<1>4. PrevOK'
  BY <1>1, <1>3 DEF HeldInv, PrevOK
<1>5. SentIsHeld'
  <2> SUFFICES ASSUME ~mixed', NEW t \in alive, NEW k \in DOMAIN prev[me][t]
               PROVE  IsHeld(t, k, prev[me][t][k])'
    BY <1>1 DEF SentIsHeld
  <2>1. PICK w : w = prev[me][t][k]
    OBVIOUS
  <2>2. ~mixed
    BY <1>1 DEF OnTorrentAdded, OnTorrentRemoved, OnTorrentStateChanged
  <2>3. k \in DOMAIN cached[t] => k \in DOMAIN cached'[t] /\ cached'[t][k] = cached[t][k]
    <3> SUFFICES ASSUME k \in DOMAIN cached[t]
                 PROVE  k \in DOMAIN cached'[t] /\ cached'[t][k] = cached[t][k]
      OBVIOUS
    <3>1. cached[t] # NoStatus
      BY DEF NoStatus
    <3>2. CASE OnTorrentAdded(e.id) \/ OnTorrentRemoved(e.id)
      <4>1. t # e.id
        BY <3>1, <3>2 DEF OnTorrentAdded, OnTorrentRemoved
      <4> QED
        BY <1>2, <3>2, <4>1 DEF OnTorrentAdded, OnTorrentRemoved
    <3>3. CASE OnTorrentStateChanged(e.id, e.state)
      BY <1>2, <3>3 DEF OnTorrentStateChanged, Update
    <3> QED
      BY <1>1, <3>2, <3>3
  <2>4. IsHeld(t, k, w)
    BY <2>1, <2>2 DEF HeldInv, SentIsHeld
  <2>5. IsHeld(t, k, w)'
    BY <1>1, <2>3, <2>4, CacheIsHeld
  <2> QED
    BY <1>1, <2>1, <2>5 DEF IsHeld, WillHold
<1> QED
  BY <1>4, <1>5 DEF HeldInv

(* The next session of the client has not been answered yet.               *)
LEMMA ReconnectKeepsHeld ==
  ASSUME IndInv, HeldInv, NEW s \in Mine, Reconnect(s)
  PROVE  HeldInv'
<1>1. /\ s > me /\ me' = s /\ cached' = [t \in Torrents |-> NoStatus]
      /\ UNCHANGED <<alive, prev, session_id>>
  BY DEF Reconnect
<1>2. me \in Nat /\ s \in Nat /\ s \in Sessions /\ alive \subseteq Torrents
  BY Known, StatusAssumption DEF Sessions
<1>3. PrevOK
  BY DEF HeldInv
<1>4. PrevOK'
  <2>1. ASSUME NEW u \in Sessions, NEW t \in Torrents, t \notin alive \/ (u \in Mine /\ u > s)
        PROVE  prev[u][t] = NoStatus
    <3>1. u \in Mine /\ u > s => u > me
      BY <1>1, <1>2, StatusAssumption
    <3> QED
      BY <1>3, <2>1, <3>1 DEF PrevOK
  <2>2. session_id \in Mine => session_id <= s
    BY <1>1, <1>2, <1>3, StatusAssumption DEF PrevOK
  <2> QED
    BY <1>1, <1>3, <2>1, <2>2 DEF PrevOK
<1>5. SentIsHeld'
  <2>1. ASSUME NEW t \in alive
        PROVE  DOMAIN prev[s][t] = {}
    <3>1. prev[s][t] = NoStatus
      BY <1>1, <1>2, <1>3 DEF PrevOK
    <3> QED
      BY <3>1 DEF NoStatus
  <2> QED
    BY <1>1, <2>1 DEF SentIsHeld
<1> QED
  BY <1>4, <1>5 DEF HeldInv

(* At first nothing is remembered.                                         *)
LEMMA InitHolds == Init => HeldInv
<1> SUFFICES ASSUME Init
             PROVE  HeldInv
  OBVIOUS
<1>1. /\ alive \in SUBSET Torrents /\ me \in Sessions /\ session_id = -1
      /\ prev = [s \in Sessions |-> [t \in Torrents |-> NoStatus]]
      /\ cached = [t \in Torrents |-> NoStatus]
  BY DEF Init, Sessions
<1>2. session_id \notin Mine
  BY <1>1, StatusAssumption
<1>3. PrevOK
  BY <1>1, <1>2 DEF PrevOK
<1>4. \A t \in alive : DOMAIN prev[me][t] = {}
  BY <1>1 DEF NoStatus
<1> QED
  BY <1>3, <1>4 DEF HeldInv, SentIsHeld

(* Each step of the daemon, of the connection and of the client.           *)
LEMMA StepKeepsHeld ==
  ASSUME IndInv, HeldInv, [Next]_vars
  PROVE  HeldInv'
<1>1. me \in Mine /\ (session_id \in Mine => session_id <= me)
  BY Known DEF HeldInv, PrevOK
<1>2. ASSUME UNCHANGED <<alive, prev, me, toClient, cached, mixed>>,
             session_id' = session_id \/ session_id' \in Others
      PROVE  HeldInv'
  BY <1>1, <1>2, RestKeepsHeld, StatusAssumption
<1>3. ASSUME NEW t \in Torrents, UNCHANGED clientVars,
             \/ AddTorrent(t)
             \/ RemoveTorrent(t)
             \/ \E k \in Keys, v \in Values : Change(t, k, v)
      PROVE  HeldInv'
  BY <1>3, SessionKeepsHeld
<1>4. CASE Dispatch /\ UNCHANGED clientVars
  BY <1>4, DispatchKeepsHeld
<1>5. CASE RunSoon /\ UNCHANGED clientVars
  <2>1. /\ soon # <<>> /\ HandleStatus(Head(soon))
        /\ UNCHANGED <<alive, session_id, me, cached>>
    BY <1>5 DEF RunSoon, clientVars
  <2>2. Head(soon) \in Held
    <3>1. soon \in Seq(Held)
      BY Known
    <3> QED
      BY <2>1, <3>1, HeadTailProperties
  <2> QED
    BY <2>1, <2>2, HandleKeepsHeld
<1>6. CASE StateUpdate /\ UNCHANGED clientVars
  <2>1. /\ UNCHANGED <<alive, session_id, me, cached>>
        /\ IF waiting # <<>> THEN HandleStatus(Head(waiting))
                             ELSE UNCHANGED <<prev, toClient, mixed>>
    BY <1>6 DEF StateUpdate, clientVars
  <2>2. CASE waiting # <<>>
    <3>1. waiting \in Seq(Held)
      BY Known
    <3>2. Head(waiting) \in Held
      BY <2>2, <3>1, HeadTailProperties
    <3> QED
      BY <2>1, <2>2, <3>2, HandleKeepsHeld
  <2>3. CASE waiting = <<>>
    BY <1>2, <2>1, <2>3
  <2> QED
    BY <2>2, <2>3
<1>7. CASE LoseAlert /\ UNCHANGED clientVars
  BY <1>2, <1>7 DEF LoseAlert, clientVars
<1>8. ASSUME NEW s \in Others, UNCHANGED clientVars,
             OtherCall(s) \/ \E ks \in KeySets : OtherAsks(s, Torrents, ks)
      PROVE  HeldInv'
  BY <1>2, <1>8 DEF OtherCall, OtherAsks, clientVars
<1>9. CASE Start
  BY <1>2, <1>9 DEF Start, daemonVars
<1>10. CASE \/ \E ids \in SUBSET Torrents, ks \in KeySets : AskMany(ids, ks)
            \/ \E ks \in KeySets : AskFilter(ks)
            \/ \E t \in Torrents, ks \in KeySets : AskOne(t, ks)
  BY <1>2, <1>10 DEF AskMany, AskFilter, AskOne, daemonVars, clientVars
<1>11. CASE Read
  BY <1>11, ReadKeepsHeld
<1>12. CASE RunEvent
  BY <1>12, RunEventKeepsHeld
<1>13. ASSUME NEW s \in Mine, Reconnect(s)
       PROVE  HeldInv'
  BY <1>13, ReconnectKeepsHeld
<1>14. CASE UNCHANGED vars
  BY <1>2, <1>14 DEF vars, daemonVars, clientVars
<1> QED
  BY <1>3, <1>4, <1>5, <1>6, <1>7, <1>8, <1>9, <1>10, <1>11, <1>12, <1>13, <1>14 DEF Next

(* Until a diff is made for another session, or what it tells is not merged *)
(* or dropped again (mixed), what the daemon remembers as sent to the       *)
(* client has been merged there or is on its way in a diff; at any time it  *)
(* remembers nothing of torrents that are gone or sessions to come.         *)
THEOREM SentStaysHeld == Spec => []HeldInv
<1>1. IndInv /\ HeldInv /\ [Next]_vars => HeldInv'
  BY StepKeepsHeld
<1> QED
  BY InitHolds, <1>1, ProxyInvariant, PTL DEF Spec

(* Until then a diff leaves a value out only if the client has it, or gets  *)
(* it in the last answer on its way that tells the key.                     *)
THEOREM DiffsLeaveOutWhatIsHeld == Spec => []StaleIsResent
<1>1. HeldInv => StaleIsResent
  BY DEF HeldInv, SentIsHeld, IsHeld, StaleIsResent
<1> QED
  BY <1>1, SentStaysHeld, PTL
=============================================================================
