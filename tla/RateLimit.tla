------------------------------ MODULE RateLimit ------------------------------
(***************************************************************************)
(* The request limiter, src/netshare/ratelimit.go: a RateLimitSystem asks  *)
(* its limiters one after the other (5 minutes, 15 minutes, 1 hour in the  *)
(* program), each of which counts the requests of an address in a window   *)
(* that starts with the first one. Every limiter has a lock and a worker   *)
(* that forgets finished windows; requests interleave between limiters.    *)
(***************************************************************************)
EXTENDS Integers, FiniteSetsExt

CONSTANTS
  Addr,     \* client addresses
  Req,      \* requests handled at once
  N,        \* number of limiters of the system
  Period,   \* limitPeriod of each limiter, in seconds
  Count,    \* limitCount of each limiter, 0 for no limit
  Epoch,    \* the time the server starts
  MaxTime   \* bound: horizon of the clock

Limiter == 1..N

ASSUME SizeAssumption   == N \in Nat \ {0}
ASSUME PeriodAssumption == Period \in [Limiter -> Nat \ {0}]
ASSUME CountAssumption  == Count \in [Limiter -> Nat]
\* Unix time is far larger than any period.
ASSUME EpochAssumption  == Epoch \in Nat /\ \A l \in Limiter : Period[l] <= Epoch
ASSUME ClockAssumption  == MaxTime \in Nat /\ Epoch <= MaxTime
ASSUME AddrAssumption   == Addr # {}

VARIABLES
  clock,      \* time.Now().Unix()
  list,       \* per limiter and address: rateLimitIP
  req,        \* per request: its address and the limiter it asks next
  sweepTime,  \* per limiter: timeNow of a worker waiting for the lock, or 0
  promised,   \* history: when the last rejected client was told to come back
  taken       \* history: how many requests a limiter let through, by second

vars == <<clock, list, req, sweepTime, promised, taken>>

\* What a map read returns for a missing key. Deleting a key restores it.
Absent == [UseTime |-> 0, UseCount |-> 0]

Idle == 0

\* Bound: the history saturates at a count no property allows.
TakenCap(l) == 2 * Count[l]

Init ==
  /\ clock = Epoch
  /\ list = [l \in Limiter |-> [a \in Addr |-> Absent]]
  /\ req = [r \in Req |-> [next |-> Idle, addr |-> CHOOSE a \in Addr : TRUE]]
  /\ sweepTime = [l \in Limiter |-> 0]
  /\ promised = [l \in Limiter |-> [a \in Addr |-> 0]]
  /\ taken = [l \in Limiter |-> [a \in Addr |-> [s \in Epoch..MaxTime |-> 0]]]

-----------------------------------------------------------------------------
\* A window ends limitPeriod seconds after its first request.
WindowEnd(l, entry) == entry.UseTime + Period[l]

LateByOne(l, entry, now) == WindowEnd(l, entry) < now
TimedOut(l, entry, now) == WindowEnd(l, entry) <= now

Arrive(r, a) ==
  /\ req[r].next = Idle
  /\ req' = [req EXCEPT ![r] = [next |-> 1, addr |-> a]]
  /\ UNCHANGED <<clock, list, sweepTime, promised, taken>>

\* The entry a request leaves behind at limiter l.
Used(l, entry) ==
  IF Count[l] = 0 THEN entry ELSE
  IF TimedOut(l, entry, clock) THEN [UseTime |-> clock, UseCount |-> 1] ELSE
  IF entry.UseCount < Count[l] THEN [entry EXCEPT !.UseCount = @ + 1] ELSE entry

WholePeriod(l, entry) ==
  IF \/ Count[l] = 0
     \/ TimedOut(l, entry, clock)
     \/ entry.UseCount < Count[l]
  THEN 0 ELSE Period[l]

\* RateLimit.CheckAndUse: 0, or the seconds to wait.
Verdict(l, entry) ==
  IF \/ Count[l] = 0
     \/ TimedOut(l, entry, clock)
     \/ entry.UseCount < Count[l]
  THEN 0 ELSE WindowEnd(l, entry) - clock

\* RateLimitSystem.CheckAndUse at one limiter, under that limiter's lock. The
\* first nonzero verdict rejects the request; what the limiters before it
\* have counted stays counted.
CheckAndUse(r) ==
  LET l == req[r].next
      a == req[r].addr
      entry == list[l][a]
      wait == Verdict(l, entry)
  IN  /\ l # Idle
      /\ list' = [list EXCEPT ![l][a] = Used(l, entry)]
      /\ IF wait # 0
         THEN /\ req' = [req EXCEPT ![r].next = Idle]
              /\ promised' = [promised EXCEPT ![l][a] = clock + wait]
              /\ UNCHANGED taken
         ELSE /\ req' = [req EXCEPT ![r].next = IF l = N THEN Idle ELSE l + 1]
              /\ taken' = [taken EXCEPT ![l][a][clock] =
                             IF @ < TakenCap(l) THEN @ + 1 ELSE @]
              /\ UNCHANGED promised
      /\ UNCHANGED <<clock, sweepTime>>

\* runWorker reads the time before it asks for the lock.
WorkerWakes(l) ==
  /\ sweepTime[l] = 0
  /\ sweepTime' = [sweepTime EXCEPT ![l] = clock]
  /\ UNCHANGED <<clock, list, req, promised, taken>>

WorkerSweeps(l) ==
  /\ sweepTime[l] # 0
  /\ list' = [list EXCEPT ![l] =
       [a \in Addr |-> IF TimedOut(l, list[l][a], sweepTime[l])
                       THEN Absent ELSE list[l][a]]]
  /\ sweepTime' = [sweepTime EXCEPT ![l] = 0]
  /\ UNCHANGED <<clock, req, promised, taken>>

Tick ==
  /\ clock < MaxTime
  /\ clock' = clock + 1
  /\ UNCHANGED <<list, req, sweepTime, promised, taken>>

-----------------------------------------------------------------------------
Next ==
  \/ \E r \in Req, a \in Addr : Arrive(r, a)
  \/ \E r \in Req : CheckAndUse(r)
  \/ \E l \in Limiter : WorkerWakes(l) \/ WorkerSweeps(l)
  \/ Tick

Spec == Init /\ [][Next]_vars

-----------------------------------------------------------------------------
(***************************************************************************)
(* Properties                                                              *)
(***************************************************************************)

\* Every variable keeps its type, and no window counts more than limitCount.
TypeOK ==
  /\ clock \in Epoch..MaxTime
  /\ list \in [Limiter -> [Addr -> [UseTime : Nat, UseCount : Nat]]]
  /\ \A l \in Limiter, a \in Addr : list[l][a].UseCount <= Count[l]
  /\ req \in [Req -> [next : 0..N, addr : Addr]]
  /\ sweepTime \in [Limiter -> Nat]
  /\ promised \in [Limiter -> [Addr -> Nat]]
  /\ taken \in [Limiter -> [Addr -> [Epoch..MaxTime -> Nat]]]

\* Requests limiter l let through in the period that starts with second s.
TakenFrom(l, a, s) ==
  MapThenSumSet(LAMBDA i : taken[l][a][i],
                {i \in Epoch..MaxTime : s <= i /\ i < s + Period[l]})

\* Windows are laid end to end, so a stretch of one period meets at most two
\* of them, and never the first request of the earlier one when it meets the
\* later one: whatever requests and worker do, fewer than twice limitCount
\* requests of an address get through in any period.
SlidingBound ==
  \A l \in Limiter, a \in Addr, s \in Epoch..MaxTime :
    Count[l] > 0 => TakenFrom(l, a, s) < 2 * Count[l]

\* Retry-After tells the truth: until the time it names the window that
\* refused the client is still there and full, and from then on it is over,
\* and the client is let in unless a newer window has started.
RetryAfterHonest ==
  \A l \in Limiter, a \in Addr :
    promised[l][a] # 0 =>
      IF clock < promised[l][a]
      THEN /\ WindowEnd(l, list[l][a]) = promised[l][a]
           /\ list[l][a].UseCount = Count[l]
      ELSE \/ TimedOut(l, list[l][a], clock)
           \/ list[l][a].UseTime >= promised[l][a]
=============================================================================
