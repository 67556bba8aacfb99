---------------------------- MODULE LoginLimiter ----------------------------
(***************************************************************************)
(* Failed logins per client (deluge/login_limiter.py), as the RPC server   *)
(* and the web UI use it: a login is refused during a block without        *)
(* looking at the password, otherwise failure() or success() follows in    *)
(* the same reactor call.                                                  *)
(*                                                                         *)
(* The dict of clients is a sequence, since its order decides who makes    *)
(* room for a new client.  Clients are the keys that client_key() gives.   *)
(* Time is a number of ticks; check() and failure() may come any number of *)
(* times in a tick.                                                        *)
(***************************************************************************)
EXTENDS Integers, Sequences

CONSTANTS
  Clients,
  MAX_FAILURES, BASE_DELAY, MAX_DELAY, FORGET_AFTER, MAX_CLIENTS,
  MaxTime       \* bound on the clock

ASSUME LimiterAssumption ==
  /\ {MAX_FAILURES, BASE_DELAY, MAX_CLIENTS} \subseteq Nat \ {0}
  /\ {MAX_DELAY, FORGET_AFTER, MaxTime} \subseteq Nat
  /\ BASE_DELAY <= MAX_DELAY /\ MAX_DELAY <= FORGET_AFTER

VARIABLES
  now,      \* the clock
  table,    \* _clients
  failed    \* history: per client, when it failed since its last good login,
            \*   or since it was evicted

limiterVars == <<now, table, failed>>

Times == 0 .. MaxTime

Entry == [key : Clients, failures : Nat \ {0},
          until : 0 .. MaxTime + MAX_DELAY, last : Times]

Known(t, c) == \E i \in DOMAIN t : t[i].key = c

LimiterTypeOK ==
  /\ now \in Times
  /\ table \in Seq(Entry)
  /\ Len(table) <= MAX_CLIENTS
  /\ \A i, j \in DOMAIN table : table[i].key = table[j].key => i = j
  /\ failed \in [Clients -> Seq(Times)]

LimiterInit ==
  /\ now = 0
  /\ table = << >>
  /\ failed = [c \in Clients |-> << >>]

-----------------------------------------------------------------------------
Least(a, b) == IF a < b THEN a ELSE b

(* BASE_DELAY * 2 ** doublings.                                            *)
Doubled[doublings \in 0 .. 16] ==
  IF doublings = 0 THEN BASE_DELAY ELSE 2 * Doubled[doublings - 1]

Delay(n) == Least(Doubled[Least(n - MAX_FAILURES, 16)], MAX_DELAY)

(* Mutant: one tick more.                                                  *)
ExpiredLate(e) == e.until <= now /\ now - e.last > FORGET_AFTER

Expired(e) == e.until <= now /\ now - e.last >= FORGET_AFTER

(* The dict without a client; the others keep their order.                 *)
Del(t, c) ==
  IF Known(t, c)
    THEN LET i == CHOOSE k \in DOMAIN t : t[k].key = c
         IN SubSeq(t, 1, i - 1) \o SubSeq(t, i + 1, Len(t))
    ELSE t

(* The dict after _get(c).                                                 *)
Got(c) ==
  IF \E i \in DOMAIN table : table[i].key = c /\ Expired(table[i])
    THEN Del(table, c)
    ELSE table

Blocked(c) ==
  \E i \in DOMAIN table : table[i].key = c /\ table[i].until > now

(* The dict without the expired clients.                                   *)
Live(t) ==
  LET left[i \in 0 .. Len(t)] ==
        IF i = 0 THEN << >>
        ELSE IF Expired(t[i]) THEN left[i - 1]
        ELSE Append(left[i - 1], t[i])
  IN left[Len(t)]

(* Mutant: the last ones make room.                                        *)
MakeRoomAtEnd(t) ==
  IF Len(t) < MAX_CLIENTS THEN t
  ELSE LET live == Live(t)
       IN SubSeq(live, 1, Least(Len(live), MAX_CLIENTS - 1))

(* When the dict is full: without the expired clients, and then without    *)
(* the first ones.                                                         *)
MakeRoom(t) ==
  IF Len(t) < MAX_CLIENTS THEN t
  ELSE LET live == Live(t)
           over == Len(live) - MAX_CLIENTS + 1
       IN SubSeq(live, IF over > 0 THEN over + 1 ELSE 1, Len(live))

(* check() of a login that is refused, or ends in another error.           *)
Check(c) ==
  /\ table' = Got(c)
  /\ UNCHANGED <<now, failed>>

(* failure(): the client moves to the end of the dict.                     *)
Failure(c) ==
  LET t == Got(c)
      old == IF Known(t, c)
               THEN t[CHOOSE k \in DOMAIN t : t[k].key = c]
               ELSE [key |-> c, failures |-> 0, until |-> 0, last |-> now]
      room == IF Known(t, c) THEN Del(t, c)
              ELSE MakeRoom(t)
      n == old.failures + 1
      evicted == {d \in Clients \ {c} :
                    \E i \in DOMAIN t : t[i].key = d /\ ~Expired(t[i])
                                        /\ ~Known(room, d)}
  IN /\ ~Blocked(c)
     /\ table' = Append(room, [old EXCEPT !.failures = n, !.last = now,
                    !.until = IF n >= MAX_FAILURES THEN now + Delay(n) ELSE @])
     /\ failed' = [d \in Clients |-> IF d = c THEN Append(failed[d], now)
                                     ELSE IF d \in evicted THEN << >>
                                     ELSE failed[d]]
     /\ UNCHANGED now

Success(c) ==
  /\ ~Blocked(c)
  /\ table' = Del(table, c)
  /\ failed' = [failed EXCEPT ![c] = << >>]
  /\ UNCHANGED now

Tick ==
  /\ now < MaxTime
  /\ now' = now + 1
  /\ UNCHANGED <<table, failed>>

LimiterNext == Tick \/ \E c \in Clients : Check(c) \/ Failure(c) \/ Success(c)

LimiterSpec == LimiterInit /\ [][LimiterNext]_limiterVars

-----------------------------------------------------------------------------
(* The failures of a client that count: those since its last quiet period  *)
(* of FORGET_AFTER.                                                        *)
Counted(h) ==
  LET gaps == {i \in 2 .. Len(h) : h[i] - h[i - 1] >= FORGET_AFTER}
      first == IF gaps = {} THEN 1 ELSE CHOOSE i \in gaps : \A k \in gaps : k <= i
  IN SubSeq(h, first, Len(h))

(* "After MAX_FAILURES failed logins a client is blocked for BASE_DELAY    *)
(* seconds, and each further failure blocks it for twice as long, up to    *)
(* MAX_DELAY": a client that was not evicted is refused exactly when its   *)
(* own failures that count ask for it, no matter what other clients do and *)
(* when entries expire.                                                    *)
BlockedAsPromised ==
  \A c \in Clients :
    LET h == Counted(failed[c])
        n == Len(h)
    IN Blocked(c) <=> n >= MAX_FAILURES /\ now < h[n] + Delay(n)

(* What a client's failures still ask for is in the table.                 *)
Remembered(c) ==
  \E i \in DOMAIN table : table[i].key = c /\ ~Expired(table[i])

LastFailure(c) == failed[c][Len(failed[c])]

(* "Move it to the end, so the oldest client is evicted first": the table  *)
(* stays within its bound, and the failure of one client makes the daemon  *)
(* forget another only if it came new into a table full of clients that    *)
(* have to be remembered.  Then one makes room, whose own last failure is  *)
(* no later than that of any other.                                        *)
LeastRecentMakesRoom ==
  [][/\ Len(table') <= MAX_CLIENTS
     /\ \A c \in Clients : \A d \in Clients \ {c} :
          Len(failed'[c]) > Len(failed[c]) /\ Remembered(d) /\ ~Known(table', d) =>
            /\ Len(table) = MAX_CLIENTS /\ \A i \in DOMAIN table : ~Expired(table[i])
            /\ ~Remembered(c)
            /\ \A e \in Clients \ {d} :
                 Remembered(e) => Known(table', e) /\ LastFailure(d) <= LastFailure(e)
    ]_limiterVars

=============================================================================
