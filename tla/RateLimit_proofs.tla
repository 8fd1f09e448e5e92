--------------------------- MODULE RateLimit_proofs ---------------------------
(***************************************************************************)
(* Proofs about RateLimit, for any addresses, number of concurrent         *)
(* requests, and any limiters.                                             *)
(***************************************************************************)
EXTENDS RateLimit, FiniteSetTheorems, WellFoundedInduction, TLAPS

\* A worker that waits for the lock holds a time that has passed.
SweepBehind == \A l \in Limiter : sweepTime[l] <= clock

\* RetryAfterHonest for one limiter and address.
Honest(l, a) ==
  promised[l][a] # 0 =>
    IF clock < promised[l][a]
    THEN /\ WindowEnd(l, list[l][a]) = promised[l][a]
         /\ list[l][a].UseCount = Count[l]
    ELSE \/ TimedOut(l, list[l][a], clock)
         \/ list[l][a].UseTime >= promised[l][a]

Entry == [UseTime : Nat, UseCount : Nat]

Inv == TypeOK /\ SweepBehind /\ RetryAfterHonest

\* What the assumptions say of one limiter.
LEMMA LimiterFacts ==
  ASSUME NEW l \in Limiter
  PROVE  Period[l] \in Nat /\ Period[l] > 0 /\ Count[l] \in Nat /\ Period[l] <= Epoch
BY PeriodAssumption, CountAssumption, EpochAssumption

\* A use keeps the type of an entry, its count within limitCount.
LEMMA UsedType ==
  ASSUME TypeOK, NEW l \in Limiter, NEW entry \in Entry, entry.UseCount <= Count[l]
  PROVE  Used(l, entry) \in Entry /\ Used(l, entry).UseCount <= Count[l]
<1>1. Count[l] \in Nat /\ clock \in Nat
  BY LimiterFacts, EpochAssumption, ClockAssumption DEF TypeOK
<1> DEFINE fresh == [UseTime |-> clock, UseCount |-> 1]
           more  == [entry EXCEPT !.UseCount = @ + 1]
<1>2. fresh \in Entry /\ fresh.UseCount = 1
  BY <1>1 DEF Entry
<1>3. more \in Entry /\ more.UseCount = entry.UseCount + 1
  BY DEF Entry
<1>4. entry.UseCount \in Nat
  BY DEF Entry
<1>5. \/ Used(l, entry) = entry
      \/ Count[l] # 0 /\ Used(l, entry) = fresh
      \/ entry.UseCount < Count[l] /\ Used(l, entry) = more
  BY DEF Used
<1> HIDE DEF fresh, more
<1> QED BY <1>1, <1>2, <1>3, <1>4, <1>5

\* The initial state.
LEMMA InitInv == Init => Inv
<1> SUFFICES ASSUME Init PROVE Inv
  OBVIOUS
<1>1. TypeOK
  <2>1. clock \in Epoch..MaxTime
    BY EpochAssumption, ClockAssumption DEF Init
  <2>2. Absent \in Entry /\ Absent.UseCount = 0
    BY DEF Absent, Entry
  <2>3. list \in [Limiter -> [Addr -> Entry]]
    BY <2>2 DEF Init
  <2>4. \A l \in Limiter, a \in Addr : list[l][a].UseCount <= Count[l]
    BY <2>2, LimiterFacts DEF Init
  <2>5. req \in [Req -> [next : 0..N, addr : Addr]]
    BY SizeAssumption, AddrAssumption DEF Init, Idle
  <2>6. /\ sweepTime \in [Limiter -> Nat]
        /\ promised \in [Limiter -> [Addr -> Nat]]
        /\ taken \in [Limiter -> [Addr -> [Epoch..MaxTime -> Nat]]]
    BY DEF Init
  <2> QED BY <2>1, <2>3, <2>4, <2>5, <2>6 DEF TypeOK, Entry
<1>2. SweepBehind
  BY EpochAssumption DEF Init, SweepBehind
<1>3. RetryAfterHonest
  BY DEF Init, RetryAfterHonest
<1> QED BY <1>1, <1>2, <1>3 DEF Inv

\* A request at one limiter. Only the entry of its address moves, and the
\* promise made there is kept or a new one is made.
LEMMA CheckAndUseInv ==
  ASSUME Inv, NEW r \in Req, CheckAndUse(r)
  PROVE  Inv'
<1>0. PICK l \in Limiter, a \in Addr, entry \in Entry :
        l = req[r].next /\ a = req[r].addr /\ entry = list[l][a]
  <2>1. req[r].next \in Limiter /\ req[r].addr \in Addr
    BY SizeAssumption DEF Inv, TypeOK, CheckAndUse, Idle, Limiter
  <2> QED BY <2>1 DEF Inv, TypeOK, Entry
<1>1. /\ entry \in Entry /\ entry.UseCount <= Count[l]
      /\ entry.UseTime \in Nat /\ entry.UseCount \in Nat
      /\ clock \in Nat /\ Epoch <= clock
      /\ promised[l][a] \in Nat
  BY <1>0, EpochAssumption, ClockAssumption DEF Inv, TypeOK, Entry
<1>2. Period[l] \in Nat /\ Period[l] > 0 /\ Count[l] \in Nat
  BY <1>0, LimiterFacts
<1>3. Used(l, entry) \in Entry /\ Used(l, entry).UseCount <= Count[l]
  BY <1>0, <1>1, UsedType DEF Inv
<1>4. Verdict(l, entry) # 0 =>
        /\ Used(l, entry) = entry
        /\ clock + Verdict(l, entry) = WindowEnd(l, entry)
        /\ clock < WindowEnd(l, entry)
        /\ entry.UseCount = Count[l]
        /\ WindowEnd(l, entry) \in Nat
  BY <1>1, <1>2 DEF Verdict, Used, TimedOut, WindowEnd
<1>5. /\ list' = [list EXCEPT ![l] = [list[l] EXCEPT ![a] = Used(l, entry)]]
      /\ clock' = clock /\ sweepTime' = sweepTime
  BY <1>0 DEF CheckAndUse
<1>6. \/ /\ Verdict(l, entry) # 0
         /\ promised' = [promised EXCEPT ![l] =
              [promised[l] EXCEPT ![a] = clock + Verdict(l, entry)]]
      \/ promised' = promised
  BY <1>0 DEF CheckAndUse
<1>7. list' \in [Limiter -> [Addr -> Entry]]
  BY <1>0, <1>3, <1>5 DEF Inv, TypeOK, Entry
<1>8. promised' \in [Limiter -> [Addr -> Nat]]
  <2>1. promised \in [Limiter -> [Addr -> Nat]]
    BY DEF Inv, TypeOK
  <2>2. CASE promised' = promised
    BY <2>1, <2>2
  <2>3. ASSUME NEW w \in Nat,
               promised' = [promised EXCEPT ![l] = [promised[l] EXCEPT ![a] = w]]
        PROVE  promised' \in [Limiter -> [Addr -> Nat]]
    BY <2>1, <2>3
  <2> QED BY <1>4, <1>6, <2>2, <2>3
<1>9. TypeOK'
  <2>1. \A k \in Limiter, b \in Addr : list'[k][b].UseCount <= Count[k]
    BY <1>0, <1>3, <1>5 DEF Inv, TypeOK
  <2>2. req' \in [Req -> [next : 0..N, addr : Addr]]
    <3>1. \A n \in 0..N : [req EXCEPT ![r].next = n]
                              \in [Req -> [next : 0..N, addr : Addr]]
      BY DEF Inv, TypeOK
    <3>2. PICK n : /\ n = Idle \/ (l # N /\ n = l + 1)
                   /\ req' = [req EXCEPT ![r].next = n]
      BY <1>0 DEF CheckAndUse
    <3>3. n \in 0..N
      BY <3>2, SizeAssumption DEF Idle, Limiter
    <3> QED BY <3>1, <3>2, <3>3
  <2>3. taken' \in [Limiter -> [Addr -> [Epoch..MaxTime -> Nat]]]
    <3>0. /\ taken \in [Limiter -> [Addr -> [Epoch..MaxTime -> Nat]]]
          /\ clock \in Epoch..MaxTime
      BY DEF Inv, TypeOK
    <3>1. taken[l][a][clock] \in Nat
      BY <3>0
    <3> DEFINE n == IF taken[l][a][clock] < TakenCap(l)
                    THEN taken[l][a][clock] + 1 ELSE taken[l][a][clock]
    <3>2. n \in Nat
      BY <3>1
    <3>3. \/ taken' = taken
          \/ taken' = [taken EXCEPT ![l] = [taken[l] EXCEPT ![a] =
                         [taken[l][a] EXCEPT ![clock] = n]]]
      BY <1>0 DEF CheckAndUse
    <3> HIDE DEF n
    <3>4. [taken[l][a] EXCEPT ![clock] = n] \in [Epoch..MaxTime -> Nat]
      BY <3>0, <3>2
    <3>5. [taken[l] EXCEPT ![a] = [taken[l][a] EXCEPT ![clock] = n]]
             \in [Addr -> [Epoch..MaxTime -> Nat]]
      BY <3>0, <3>4
    <3> QED BY <3>0, <3>3, <3>5
  <2> QED BY <1>5, <1>7, <1>8, <2>1, <2>2, <2>3 DEF Inv, TypeOK, Entry
<1>10. SweepBehind'
  BY <1>5 DEF Inv, SweepBehind
<1>11. Honest(l, a)'
  <2>1. Honest(l, a)
    BY <1>0 DEF Inv, RetryAfterHonest, Honest
  <2>2. list'[l][a] = Used(l, entry)
    BY <1>0, <1>5 DEF Inv, TypeOK
  <2>3. CASE Verdict(l, entry) # 0 /\ promised'[l][a] = WindowEnd(l, entry)
    BY <1>4, <1>5, <2>2, <2>3 DEF Honest
  <2>4. CASE promised'[l][a] = promised[l][a]
    <3>1. CASE Used(l, entry) = entry
      BY <1>0, <1>5, <2>1, <2>2, <2>4, <3>1 DEF Honest, WindowEnd, TimedOut
    <3>2. CASE /\ Used(l, entry) = [UseTime |-> clock, UseCount |-> 1]
               /\ TimedOut(l, entry, clock)
      <4>1. list'[l][a].UseTime = clock
        BY <2>2, <3>2
      <4>2. promised[l][a] # 0 => ~(clock < promised[l][a])
        BY <1>0, <1>1, <1>2, <2>1, <3>2 DEF Honest, WindowEnd, TimedOut
      <4> QED BY <1>1, <1>5, <2>4, <4>1, <4>2 DEF Honest
    <3>3. CASE /\ Used(l, entry) = [entry EXCEPT !.UseCount = @ + 1]
               /\ ~TimedOut(l, entry, clock)
               /\ entry.UseCount < Count[l]
      <4>1. Used(l, entry).UseTime = entry.UseTime
        BY <1>1, <3>3 DEF Entry
      <4>2. promised[l][a] # 0 => /\ ~(clock < promised[l][a])
                                  /\ entry.UseTime >= promised[l][a]
        <5>1. promised[l][a] # 0 /\ clock < promised[l][a] => entry.UseCount = Count[l]
          BY <1>0, <2>1 DEF Honest
        <5>2. promised[l][a] # 0 /\ ~(clock < promised[l][a]) =>
                TimedOut(l, entry, clock) \/ entry.UseTime >= promised[l][a]
          BY <1>0, <2>1 DEF Honest
        <5>3. entry.UseCount # Count[l]
          BY <1>1, <1>2, <3>3
        <5> QED BY <3>3, <5>1, <5>2, <5>3
      <4> QED BY <1>5, <2>2, <2>4, <4>1, <4>2 DEF Honest
    <3> QED BY <3>1, <3>2, <3>3 DEF Used
  <2> QED BY <1>0, <1>4, <1>6, <2>3, <2>4 DEF Inv, TypeOK
<1>12. RetryAfterHonest'
  <2> SUFFICES ASSUME NEW k \in Limiter, NEW b \in Addr PROVE Honest(k, b)'
    BY DEF RetryAfterHonest, Honest
  <2>1. CASE k = l /\ b = a
    BY <1>11, <2>1
  <2>2. CASE ~(k = l /\ b = a)
    <3>1. list'[k][b] = list[k][b] /\ promised'[k][b] = promised[k][b]
      BY SMTT(30), <1>0, <1>5, <1>6, <2>2 DEF Inv, TypeOK
    <3> QED BY <1>5, <3>1 DEF Inv, RetryAfterHonest, Honest, TimedOut, WindowEnd
  <2> QED BY <2>1, <2>2
<1> QED BY <1>9, <1>10, <1>12 DEF Inv

\* The worker, with the time it read before it had the lock: an entry it
\* forgets belongs to a window that is over, so no promise is outstanding.
LEMMA WorkerSweepsInv ==
  ASSUME Inv, NEW l \in Limiter, WorkerSweeps(l)
  PROVE  Inv'
<1>1. /\ clock' = clock /\ promised' = promised /\ req' = req /\ taken' = taken
      /\ sweepTime' = [sweepTime EXCEPT ![l] = 0]
      /\ list' = [list EXCEPT ![l] =
           [a \in Addr |-> IF TimedOut(l, list[l][a], sweepTime[l])
                           THEN Absent ELSE list[l][a]]]
  BY DEF WorkerSweeps
<1>2. Absent \in Entry /\ Absent.UseTime = 0 /\ Absent.UseCount = 0
  BY DEF Absent, Entry
<1>3. TypeOK'
  <2>1. list' \in [Limiter -> [Addr -> Entry]]
    BY <1>1, <1>2 DEF Inv, TypeOK, Entry
  <2>2. \A k \in Limiter, b \in Addr : list'[k][b].UseCount <= Count[k]
    BY <1>1, <1>2, LimiterFacts DEF Inv, TypeOK
  <2> QED BY <1>1, <2>1, <2>2 DEF Inv, TypeOK, Entry
<1>4. SweepBehind'
  BY <1>1, EpochAssumption, ClockAssumption DEF Inv, TypeOK, SweepBehind
<1>5. RetryAfterHonest'
  <2> SUFFICES ASSUME NEW k \in Limiter, NEW b \in Addr PROVE Honest(k, b)'
    BY DEF RetryAfterHonest, Honest
  <2>1. Honest(k, b)
    BY DEF Inv, RetryAfterHonest, Honest
  <2>2. CASE list'[k][b] = list[k][b]
    BY <1>1, <2>1, <2>2 DEF Honest, TimedOut, WindowEnd
  <2>3. CASE /\ k = l /\ list'[k][b] = Absent
             /\ TimedOut(k, list[k][b], sweepTime[k])
    <3>1. /\ list[k][b].UseTime \in Nat /\ clock \in Nat /\ Epoch <= clock
          /\ sweepTime[k] \in Nat /\ sweepTime[k] <= clock
          /\ Period[k] \in Nat /\ Period[k] <= Epoch /\ Epoch \in Nat
          /\ promised[k][b] \in Nat
      BY LimiterFacts, EpochAssumption, ClockAssumption
         DEF Inv, TypeOK, SweepBehind
    <3> QED BY <1>1, <1>2, <2>1, <2>3, <3>1 DEF Honest, TimedOut, WindowEnd
  <2> QED BY <1>1, <2>2, <2>3 DEF Inv, TypeOK
<1> QED BY <1>3, <1>4, <1>5 DEF Inv

\* Arrivals, the worker's look at the clock, and time itself.
LEMMA OtherStepInv ==
  ASSUME Inv,
         \/ \E r \in Req, a \in Addr : Arrive(r, a)
         \/ \E l \in Limiter : WorkerWakes(l)
         \/ Tick
  PROVE  Inv'
<1>0. list' = list /\ promised' = promised /\ taken' = taken
  BY DEF Arrive, WorkerWakes, Tick
<1>1. clock \in Nat /\ clock' \in Nat /\ clock <= clock' /\ clock' \in Epoch..MaxTime
  BY EpochAssumption, ClockAssumption DEF Inv, TypeOK, Arrive, WorkerWakes, Tick
<1>2. req' \in [Req -> [next : 0..N, addr : Addr]]
  BY SizeAssumption DEF Inv, TypeOK, Arrive, WorkerWakes, Tick
<1>3. sweepTime' \in [Limiter -> Nat] /\ SweepBehind'
  <2>1. /\ sweepTime \in [Limiter -> Nat]
        /\ \A k \in Limiter : sweepTime[k] <= clock
    BY DEF Inv, TypeOK, SweepBehind
  <2>2. CASE sweepTime' = sweepTime
    BY <1>1, <2>1, <2>2 DEF SweepBehind
  <2>3. ASSUME NEW l \in Limiter, WorkerWakes(l)
        PROVE  sweepTime' \in [Limiter -> Nat] /\ SweepBehind'
    BY <1>1, <2>1, <2>3 DEF SweepBehind, WorkerWakes
  <2> QED BY <2>2, <2>3 DEF Arrive, Tick
<1>4. TypeOK'
  BY <1>0, <1>1, <1>2, <1>3 DEF Inv, TypeOK
<1>5. RetryAfterHonest'
  <2> SUFFICES ASSUME NEW k \in Limiter, NEW b \in Addr PROVE Honest(k, b)'
    BY DEF RetryAfterHonest, Honest
  <2>1. Honest(k, b)
    BY DEF Inv, RetryAfterHonest, Honest
  <2>2. /\ list[k][b].UseTime \in Nat /\ promised[k][b] \in Nat
        /\ Period[k] \in Nat
    BY LimiterFacts DEF Inv, TypeOK
  <2> QED BY <1>0, <1>1, <2>1, <2>2 DEF Honest, TimedOut, WindowEnd
<1> QED BY <1>3, <1>4, <1>5 DEF Inv

\* Inv is an invariant: every request, sweep and second keeps it.
THEOREM Invariance == Spec => []Inv
<1>1. Init => Inv
  BY InitInv
<1>2. Inv /\ [Next]_vars => Inv'
  <2> SUFFICES ASSUME Inv, [Next]_vars PROVE Inv'
    OBVIOUS
  <2>1. CASE \E r \in Req : CheckAndUse(r)
    BY <2>1, CheckAndUseInv
  <2>2. CASE \E l \in Limiter : WorkerSweeps(l)
    BY <2>2, WorkerSweepsInv
  <2>3. CASE \/ \E r \in Req, a \in Addr : Arrive(r, a)
             \/ \E l \in Limiter : WorkerWakes(l)
             \/ Tick
    BY <2>3, OtherStepInv
  <2>4. CASE UNCHANGED vars
    BY <2>4 DEF vars, Inv, TypeOK, SweepBehind, RetryAfterHonest, TimedOut, WindowEnd
  <2> QED BY <2>1, <2>2, <2>3, <2>4 DEF Next
<1> QED BY <1>1, <1>2, PTL DEF Spec

\* The Retry-After every rejected client is given is exact, for any limits,
\* any load and however late the worker sweeps.
THEOREM RetryAfterIsHonest == Spec => []RetryAfterHonest
<1>1. Inv => RetryAfterHonest
  BY DEF Inv
<1> QED BY <1>1, Invariance, PTL
-----------------------------------------------------------------------------
(***************************************************************************)
(* Sums over finite sets                                                   *)
(***************************************************************************)

\* The sum of f over S, as TakenFrom writes it.
SumOf(f, S) == MapThenSumSet(LAMBDA i : f[i], S)

\* The library's theorem on minimal elements, for the natural numbers.
LEMMA MinimalNat ==
  ASSUME NEW R, IsWellFoundedOn(R, Nat), NEW T, T \subseteq Nat, T # {}
  PROVE  \E m \in T : \A y \in T : ~(<<y, m>> \in R)
<1>1. \A S : IsWellFoundedOn(R, S) /\ T \subseteq S =>
        \E m \in T : \A y \in T : ~(<<y, m>> \in R)
  BY WFMin
<1> QED BY <1>1

\* A set of natural numbers that is not empty has a least element.
LEMMA LeastExists ==
  ASSUME NEW T, T \subseteq Nat, T # {}
  PROVE  \E m \in T : \A y \in T : m <= y
<1> DEFINE R == OpToRel(<, Nat)
<1>1. \A a, b \in Nat : a < b => <<a, b>> \in R
  BY DEF OpToRel
<1>2. IsWellFoundedOn(R, Nat)
  BY NatLessThanWellFounded
<1> HIDE DEF R
<1>3. PICK m \in T : \A y \in T : ~(<<y, m>> \in R)
  BY <1>2, MinimalNat
<1>4. \A y \in T : ~(y < m)
  BY <1>1, <1>3
<1> QED BY <1>4

\* Induction over the subsets of a finite set, for a set Q of them.
LEMMA SubsetInduction ==
  ASSUME NEW S, IsFiniteSet(S), NEW Q,
         \A T \in SUBSET S : (\A R \in SUBSET T : R # T => R \in Q) => T \in Q
  PROVE  \A T \in SUBSET S : T \in Q
<1> SUFFICES ASSUME NEW B \in SUBSET S, B \notin Q PROVE FALSE
  OBVIOUS
<1> DEFINE C == {Cardinality(T) : T \in (SUBSET S) \ Q}
<1>1. ASSUME NEW T \in SUBSET S PROVE IsFiniteSet(T) /\ Cardinality(T) \in Nat
  <2>1. IsFiniteSet(T)
    BY FS_Subset
  <2> QED BY <2>1, FS_CardinalityType
<1>2. C \subseteq Nat /\ C # {}
  BY <1>1
<1>3. PICK m \in C : \A n \in C : m <= n
  <2> HIDE DEF C
  <2> QED BY <1>2, LeastExists
<1>4. PICK T \in (SUBSET S) \ Q : m = Cardinality(T)
  OBVIOUS
<1>5. ASSUME NEW R \in SUBSET T, R # T PROVE R \in Q
  <2>1. R \in SUBSET S /\ IsFiniteSet(T)
    BY <1>1
  <2>2. Cardinality(R) <= Cardinality(T) /\ (Cardinality(R) = Cardinality(T) => R = T)
    BY <2>1, FS_Subset
  <2>3. Cardinality(R) \in Nat /\ Cardinality(T) \in Nat
    BY <1>1, <2>1
  <2>4. ~(m <= Cardinality(R))
    BY <1>4, <1>5, <2>2, <2>3
  <2>5. Cardinality(R) \notin C
    BY <1>3, <2>4
  <2> QED BY <2>1, <2>5
<1> QED BY <1>4, <1>5

\* The element a sum takes first.
First(S) == CHOOSE x \in S : TRUE

\* F is what the sum over S recurs on.
Recurs(f, S, F) ==
  F = [s \in SUBSET S |-> IF s = {} THEN 0 ELSE f[First(s)] + F[s \ {First(s)}]]

\* MapThenSumSet read at a function: the value its recursion chooses.
LEMMA SumIsChosen ==
  ASSUME NEW f, NEW S
  PROVE  SumOf(f, S) = (CHOOSE F : Recurs(f, S, F))[S]
  BY Zenon DEF SumOf, MapThenSumSet, MapThenFoldSet, Recurs, First

\* The sum over S takes one element and goes on with the others.
Unfolds(f, S) == SumOf(f, S) = IF S = {} THEN 0 ELSE f[First(S)] + SumOf(f, S \ {First(S)})

\* The recursion has a solution, so every sum over a finite set unfolds.
LEMMA SumUnfolds ==
  ASSUME NEW f, NEW S, IsFiniteSet(S)
  PROVE  Unfolds(f, S)
<1> DEFINE Q == {T \in SUBSET S : Unfolds(f, T)}
<1>1. ASSUME NEW T \in SUBSET S, \A R \in SUBSET T : R # T => R \in Q
      PROVE  T \in Q
  <2> DEFINE G == [s \in SUBSET T |-> IF s = {} THEN 0
                                      ELSE f[First(s)] + SumOf(f, s \ {First(s)})]
             H == [s \in SUBSET T |-> IF s = {} THEN 0 ELSE f[First(s)] + G[s \ {First(s)}]]
             F == CHOOSE X : Recurs(f, T, X)
  <2>1. \A s : s # {} => First(s) \in s
    BY DEF First
  <2>2. \A R \in SUBSET T : R # T =>
          SumOf(f, R) = IF R = {} THEN 0 ELSE f[First(R)] + SumOf(f, R \ {First(R)})
    BY <1>1 DEF Unfolds
  <2>3. \A s \in SUBSET T : s # {} =>
          s \ {First(s)} \in SUBSET T /\ s \ {First(s)} # T
    BY <2>1
  <2>4. \A R \in SUBSET T : R # T => G[R] = SumOf(f, R)
    BY <2>2
  <2>5. \A s \in SUBSET T : H[s] = G[s]
    <3> TAKE s \in SUBSET T
    <3>1. CASE s = {}
      BY <3>1
    <3>2. CASE s # {}
      <4>1. G[s \ {First(s)}] = SumOf(f, s \ {First(s)})
        BY <2>3, <2>4, <3>2
      <4>2. H[s] = f[First(s)] + G[s \ {First(s)}] /\ G[s] = f[First(s)] + SumOf(f, s \ {First(s)})
        BY <3>2
      <4> QED BY <4>1, <4>2
    <3> QED BY <3>1, <3>2
  <2>6. G = H
    BY <2>5
  <2>7. Recurs(f, T, G)
    <3> HIDE DEF G
    <3> QED BY <2>6 DEF Recurs
  <2> HIDE DEF G, H
  <2>8. Recurs(f, T, F)
    BY <2>7, Zenon
  <2>9. SumOf(f, T) = F[T]
    BY SumIsChosen
  <2> HIDE DEF F
  <2>10. \A s \in SUBSET T : F[s] = IF s = {} THEN 0 ELSE f[First(s)] + F[s \ {First(s)}]
    BY <2>8 DEF Recurs
  <2> DEFINE Q2 == {R \in SUBSET T : R # T => F[R] = SumOf(f, R)}
  <2>11. ASSUME NEW R \in SUBSET T, \A r \in SUBSET R : r # R => r \in Q2
         PROVE  R \in Q2
    <3>1. CASE R = {}
      BY <2>2, <2>10, <3>1
    <3>2. CASE R # {} /\ R # T
      <4>1. R \ {First(R)} \in SUBSET R /\ R \ {First(R)} # R /\ R \ {First(R)} # T
        BY <2>1, <3>2
      <4>2. F[R \ {First(R)}] = SumOf(f, R \ {First(R)})
        BY <2>11, <4>1
      <4> QED BY <2>2, <2>10, <3>2, <4>2
    <3> QED BY <3>1, <3>2
  <2>12. IsFiniteSet(T)
    BY FS_Subset
  <2>13. \A R \in SUBSET T : R \in Q2
    <3> HIDE DEF Q2
    <3> QED BY <2>11, <2>12, SubsetInduction
  <2>14. CASE T = {}
    BY <2>9, <2>10, <2>14 DEF Unfolds
  <2>15. CASE T # {}
    <3>1. T \ {First(T)} \in SUBSET T /\ T \ {First(T)} # T
      BY <2>1, <2>15
    <3>2. F[T \ {First(T)}] = SumOf(f, T \ {First(T)})
      BY <2>13, <3>1
    <3>3. F[T] = f[First(T)] + F[T \ {First(T)}]
      BY <2>10, <2>15
    <3> QED BY <2>9, <2>15, <3>2, <3>3 DEF Unfolds
  <2> QED BY <2>14, <2>15
<1>2. \A T \in SUBSET S : T \in Q
  <2> HIDE DEF Q
  <2> QED BY <1>1, SubsetInduction
<1> QED BY <1>2

\* The sum of numbers is a number.
LEMMA SumOfRest ==
  ASSUME NEW f, NEW S, IsFiniteSet(S), \A x \in S : f[x] \in Nat
  PROVE  /\ SumOf(f, S) \in Nat
         /\ \A x \in S : SumOf(f, S) = f[x] + SumOf(f, S \ {x})
<1> DEFINE Good(T) == /\ SumOf(f, T) \in Nat
                      /\ \A x \in T : SumOf(f, T) = f[x] + SumOf(f, T \ {x})
           Q == {T \in SUBSET S : Good(T)}
<1>1. ASSUME NEW T \in SUBSET S, \A R \in SUBSET T : R # T => R \in Q
      PROVE  T \in Q
  <2> DEFINE y == First(T)
  <2>1. \A R \in SUBSET T : R # T =>
          /\ SumOf(f, R) \in Nat
          /\ \A x \in R : SumOf(f, R) = f[x] + SumOf(f, R \ {x})
    BY <1>1
  <2>2. SumOf(f, T) = IF T = {} THEN 0 ELSE f[y] + SumOf(f, T \ {y})
    BY FS_Subset, SumUnfolds DEF Unfolds
  <2>3. T # {} => y \in T
    BY DEF First
  <2> HIDE DEF y
  <2>4. SumOf(f, T) \in Nat
    <3>1. CASE T = {}
      BY <2>2, <3>1
    <3>2. CASE T # {}
      <4>1. T \ {y} \in SUBSET T /\ T \ {y} # T /\ y \in S
        BY <2>3, <3>2
      <4>2. SumOf(f, T \ {y}) \in Nat /\ f[y] \in Nat
        BY <2>1, <4>1
      <4> QED BY <2>2, <3>2, <4>2
    <3> QED BY <3>1, <3>2
  <2>5. ASSUME NEW x \in T PROVE SumOf(f, T) = f[x] + SumOf(f, T \ {x})
    <3>0. T # {} /\ y \in T /\ SumOf(f, T) = f[y] + SumOf(f, T \ {y})
      BY <2>2, <2>3
    <3>1. CASE x = y
      BY <3>0, <3>1
    <3>2. CASE x # y
      <4>1. SumOf(f, T \ {y}) = f[x] + SumOf(f, (T \ {y}) \ {x})
        <5>1. T \ {y} \in SUBSET T /\ T \ {y} # T /\ x \in T \ {y}
          BY <3>0, <3>2
        <5> QED BY <2>1, <5>1
      <4>2. SumOf(f, T \ {x}) = f[y] + SumOf(f, (T \ {x}) \ {y})
        <5>1. T \ {x} \in SUBSET T /\ T \ {x} # T /\ y \in T \ {x}
          BY <3>0, <3>2
        <5> QED BY <2>1, <5>1
      <4>3. (T \ {x}) \ {y} = (T \ {y}) \ {x}
        OBVIOUS
      <4>4. SumOf(f, (T \ {x}) \ {y}) \in Nat
        <5>1. (T \ {x}) \ {y} \in SUBSET T /\ (T \ {x}) \ {y} # T
          BY <3>0
        <5> QED BY <2>1, <5>1
      <4>5. f[x] \in Nat /\ f[y] \in Nat
        BY <3>0
      <4> DEFINE a == SumOf(f, T)
                 b == SumOf(f, T \ {y})
                 c == SumOf(f, T \ {x})
                 d == SumOf(f, (T \ {x}) \ {y})
      <4>6. a = f[y] + b /\ b = f[x] + d /\ c = f[y] + d /\ d \in Nat
        BY <3>0, <4>1, <4>2, <4>3, <4>4
      <4> HIDE DEF a, b, c, d
      <4>7. a = f[x] + c
        BY <4>5, <4>6
      <4> QED BY <4>7 DEF a, c
    <3> QED BY <3>1, <3>2
  <2> QED BY <2>4, <2>5
<1>2. \A T \in SUBSET S : T \in Q
  <2> HIDE DEF Q
  <2> QED BY <1>1, SubsetInduction
<1> QED BY <1>2

\* A sum over fewer elements is no larger.
LEMMA SumOfSubset ==
  ASSUME NEW f, NEW S, IsFiniteSet(S), \A x \in S : f[x] \in Nat, NEW R \in SUBSET S
  PROVE  SumOf(f, R) <= SumOf(f, S) /\ SumOf(f, R) \in Nat /\ SumOf(f, S) \in Nat
<1> DEFINE Q == {T \in SUBSET S : R \subseteq T => SumOf(f, R) <= SumOf(f, T)}
<1>0. ASSUME NEW T \in SUBSET S
      PROVE  /\ IsFiniteSet(T) /\ SumOf(f, T) \in Nat
             /\ \A x \in T : f[x] \in Nat /\ SumOf(f, T) = f[x] + SumOf(f, T \ {x})
  <2>1. IsFiniteSet(T) /\ \A x \in T : f[x] \in Nat
    BY FS_Subset
  <2> QED BY <2>1, SumOfRest
<1>1. ASSUME NEW T \in SUBSET S, \A U \in SUBSET T : U # T => U \in Q
      PROVE  T \in Q
  <2> SUFFICES ASSUME R \subseteq T PROVE SumOf(f, R) <= SumOf(f, T)
    OBVIOUS
  <2>1. CASE R = T
    BY <1>0, <2>1
  <2>2. CASE R # T
    <3>1. PICK x \in T : x \notin R
      BY <2>2
    <3>2. T \ {x} \in SUBSET T /\ T \ {x} # T /\ R \subseteq T \ {x} /\ T \ {x} \in SUBSET S
      BY <3>1
    <3>3. SumOf(f, R) <= SumOf(f, T \ {x})
      BY <1>1, <3>2
    <3>4. SumOf(f, T) = f[x] + SumOf(f, T \ {x}) /\ f[x] \in Nat
      BY <1>0
    <3>5. SumOf(f, R) \in Nat /\ SumOf(f, T \ {x}) \in Nat
      BY <1>0, <3>2
    <3> QED BY <3>3, <3>4, <3>5
  <2> QED BY <2>1, <2>2
<1>2. \A T \in SUBSET S : T \in Q
  <2> HIDE DEF Q
  <2> QED BY <1>1, SubsetInduction
<1>3. S \in Q
  BY <1>2
<1> QED BY <1>0, <1>3

\* The sum of nothing but zeros.
LEMMA SumOfZeros ==
  ASSUME NEW f, NEW S, IsFiniteSet(S), \A x \in S : f[x] = 0
  PROVE  SumOf(f, S) = 0
<1> DEFINE Q == {T \in SUBSET S : SumOf(f, T) = 0}
<1>1. ASSUME NEW T \in SUBSET S, \A U \in SUBSET T : U # T => U \in Q
      PROVE  T \in Q
  <2>0. IsFiniteSet(T) /\ \A x \in T : f[x] \in Nat
    BY FS_Subset
  <2>1. CASE T = {}
    BY <2>0, <2>1, SumUnfolds DEF Unfolds
  <2>2. CASE T # {}
    <3>1. PICK x \in T : TRUE
      BY <2>2
    <3>2. SumOf(f, T) = f[x] + SumOf(f, T \ {x})
      BY <2>0, SumOfRest
    <3>3. SumOf(f, T \ {x}) = 0
      <4>1. T \ {x} \in SUBSET T /\ T \ {x} # T
        OBVIOUS
      <4> QED BY <1>1, <4>1
    <3> QED BY <3>2, <3>3
  <2> QED BY <2>1, <2>2
<1>2. \A T \in SUBSET S : T \in Q
  <2> HIDE DEF Q
  <2> QED BY <1>1, SubsetInduction
<1> QED BY <1>2

\* Two functions that agree on a set have the same sum over it.
LEMMA SumOfSame ==
  ASSUME NEW f, NEW g, NEW S, IsFiniteSet(S), \A x \in S : f[x] \in Nat /\ g[x] = f[x]
  PROVE  SumOf(g, S) = SumOf(f, S)
<1> DEFINE Q == {T \in SUBSET S : SumOf(g, T) = SumOf(f, T)}
<1>1. ASSUME NEW T \in SUBSET S, \A U \in SUBSET T : U # T => U \in Q
      PROVE  T \in Q
  <2>0. IsFiniteSet(T) /\ (\A x \in T : f[x] \in Nat) /\ (\A x \in T : g[x] \in Nat)
    BY FS_Subset
  <2>1. CASE T = {}
    BY <2>0, <2>1, SumUnfolds DEF Unfolds
  <2>2. CASE T # {}
    <3>1. PICK x \in T : TRUE
      BY <2>2
    <3>2. SumOf(f, T) = f[x] + SumOf(f, T \ {x})
      BY <2>0, SumOfRest
    <3>3. SumOf(g, T) = g[x] + SumOf(g, T \ {x})
      BY <2>0, SumOfRest
    <3>4. SumOf(g, T \ {x}) = SumOf(f, T \ {x})
      <4>1. T \ {x} \in SUBSET T /\ T \ {x} # T
        OBVIOUS
      <4> QED BY <1>1, <4>1
    <3> QED BY <3>2, <3>3, <3>4
  <2> QED BY <2>1, <2>2
<1>2. \A T \in SUBSET S : T \in Q
  <2> HIDE DEF Q
  <2> QED BY <1>1, SubsetInduction
<1> QED BY <1>2

\* More at one element adds as much to every sum that counts the element.
LEMMA SumOfMore ==
  ASSUME NEW S, IsFiniteSet(S), NEW f, \A i \in S : f[i] \in Nat, NEW c, NEW d \in Nat,
         NEW g, c \in S => g[c] = f[c] + d, \A i \in S : i # c => g[i] = f[i]
  PROVE  SumOf(g, S) = SumOf(f, S) + (IF c \in S THEN d ELSE 0)
<1>1. \A i \in S : g[i] \in Nat
  OBVIOUS
<1>2. IsFiniteSet(S \ {c})
  BY FS_Subset
<1>3. SumOf(f, S) \in Nat /\ SumOf(f, S \ {c}) \in Nat
  BY <1>1, <1>2, SumOfRest
<1>4. SumOf(g, S \ {c}) = SumOf(f, S \ {c})
  <2>1. \A x \in S \ {c} : f[x] \in Nat /\ g[x] = f[x]
    OBVIOUS
  <2> QED BY <1>2, <2>1, SumOfSame
<1>5. CASE c \in S
  <2>1. SumOf(f, S) = f[c] + SumOf(f, S \ {c})
    BY <1>5, SumOfRest
  <2>2. SumOf(g, S) = g[c] + SumOf(g, S \ {c})
    BY <1>1, <1>5, SumOfRest
  <2>3. f[c] \in Nat /\ g[c] = f[c] + d
    BY <1>5
  <2>4. SumOf(g, S) = SumOf(f, S) + d
    BY <1>3, <1>4, <2>1, <2>2, <2>3
  <2> QED BY <1>5, <2>4
<1>6. CASE c \notin S
  <2>1. S \ {c} = S
    BY <1>6
  <2>2. SumOf(g, S) = SumOf(f, S)
    BY <1>4, <2>1
  <2> QED BY <1>3, <1>6, <2>2
<1> QED BY <1>5, <1>6

-----------------------------------------------------------------------------
(***************************************************************************)
(* Any period lets through fewer than twice limitCount                     *)
(***************************************************************************)

Seconds == Epoch..MaxTime

\* The seconds from s on, and the period of limiter l that starts with s.
Later(s)   == {i \in Seconds : s <= i}
Span(l, s) == {i \in Seconds : s <= i /\ i < s + Period[l]}

\* Nothing has been let through in a second that has not come.
NoneAhead(f, now) == \A i \in Seconds : now < i => f[i] = 0

\* What has been let through since the window of an entry began is what the
\* entry counts; the seconds of the period before, which may hold an earlier
\* window, add at most limitCount - 1: its first request is older than that.
WindowCounts(l, entry, f, now) ==
  LET U == entry.UseTime
  IN  U # 0 =>
        /\ U \in Epoch..now
        /\ f[U] >= 1
        /\ SumOf(f, Later(U)) <= entry.UseCount
        /\ \A s \in Epoch..U : s > U - Period[l] =>
             SumOf(f, Later(s)) <= SumOf(f, Later(U)) + Count[l] - 1

\* Once a window is over nothing gets through until the next one starts, and
\* one period back no longer reaches the first request of the window.
OverIsQuiet(l, entry, f, now) ==
  TimedOut(l, entry, now) =>
    /\ SumOf(f, Later(now)) = 0
    /\ \A s \in Seconds : s > now - Period[l] => SumOf(f, Later(s)) <= Count[l] - 1

SpansBounded(l, f) == \A s \in Seconds : SumOf(f, Span(l, s)) < 2 * Count[l]

\* What holds of a limiter's entry for an address, of the requests f it let
\* through second by second, and of the time.
Slides(l, entry, f, now) ==
  /\ NoneAhead(f, now)
  /\ WindowCounts(l, entry, f, now)
  /\ OverIsQuiet(l, entry, f, now)
  /\ SpansBounded(l, f)

SlidingInv ==
  \A l \in Limiter, a \in Addr :
    Count[l] > 0 => Slides(l, list[l][a], taken[l][a], clock)

\* Seconds are numbers, finitely many, none of them 0.
LEMMA SecondsFacts ==
  /\ IsFiniteSet(Seconds) /\ Seconds \subseteq Nat
  /\ \A s \in Seconds : 0 < s
  /\ \A l \in Limiter : \A now \in Nat : Period[l] <= now => TimedOut(l, Absent, now)
<1>1. Epoch \in Nat /\ MaxTime \in Nat
  BY EpochAssumption, ClockAssumption
<1>2. IsFiniteSet(Seconds) /\ Seconds \subseteq Nat
  BY <1>1, FS_Interval DEF Seconds
<1>3. 0 < Epoch
  <2>1. 1 \in Limiter
    BY SizeAssumption DEF Limiter
  <2> QED BY <1>1, <2>1, LimiterFacts
<1>4. \A s \in Seconds : 0 < s
  BY <1>1, <1>3 DEF Seconds
<1>5. \A l \in Limiter : \A now \in Nat : Period[l] <= now => TimedOut(l, Absent, now)
  BY LimiterFacts DEF TimedOut, WindowEnd, Absent
<1> QED BY <1>2, <1>4, <1>5

\* Sums over stretches of seconds: numbers, growing with the stretch.
LEMMA StretchFacts ==
  ASSUME NEW l \in Limiter, NEW f \in [Seconds -> Nat]
  PROVE  /\ \A s : SumOf(f, Later(s)) \in Nat /\ SumOf(f, Span(l, s)) \in Nat
         /\ \A s : SumOf(f, Span(l, s)) <= SumOf(f, Later(s))
         /\ \A s, t \in Nat : s <= t => SumOf(f, Later(t)) <= SumOf(f, Later(s))
<1>1. \A i \in Seconds : f[i] \in Nat
  OBVIOUS
<1>2. \A s : Later(s) \in SUBSET Seconds /\ IsFiniteSet(Later(s))
  <2> TAKE s
  <2>1. Later(s) \in SUBSET Seconds
    BY DEF Later
  <2> QED BY <2>1, SecondsFacts, FS_Subset
<1>3. \A s : Span(l, s) \in SUBSET Later(s)
  BY DEF Later, Span
<1>4. \A s, t \in Nat : s <= t => Later(t) \in SUBSET Later(s)
  <2> SUFFICES ASSUME NEW s \in Nat, NEW t \in Nat, s <= t,
                      NEW i \in Seconds, t <= i
               PROVE  s <= i
    BY DEF Later
  <2>1. i \in Nat
    BY SecondsFacts
  <2> QED BY <2>1
<1>5. \A s : \A i \in Later(s) : f[i] \in Nat
  BY <1>1, <1>2
<1>6. \A s : SumOf(f, Later(s)) \in Nat /\ SumOf(f, Span(l, s)) \in Nat
             /\ SumOf(f, Span(l, s)) <= SumOf(f, Later(s))
  BY <1>2, <1>3, <1>5, SumOfSubset
<1>7. \A s, t \in Nat : s <= t => SumOf(f, Later(t)) <= SumOf(f, Later(s))
  BY <1>2, <1>4, <1>5, SumOfSubset
<1> QED BY <1>6, <1>7


\* g is f with d more in second now.
Adds(g, f, now, d) ==
  /\ g \in [Seconds -> Nat]
  /\ g[now] = f[now] + d
  /\ \A i \in Seconds : i # now => g[i] = f[i]

\* A request let through, as a change of the sums.
LEMMA TakeAdds ==
  ASSUME NEW l \in Limiter, NEW f \in [Seconds -> Nat], NEW now \in Seconds, NEW d \in Nat,
         NEW g, Adds(g, f, now, d)
  PROVE  /\ \A s \in Nat : s <= now => SumOf(g, Later(s)) = SumOf(f, Later(s)) + d
         /\ \A s \in Nat : ~(s <= now /\ now < s + Period[l]) =>
              SumOf(g, Span(l, s)) = SumOf(f, Span(l, s))
<1>2. ASSUME NEW T \in SUBSET Seconds
      PROVE  SumOf(g, T) = SumOf(f, T) + (IF now \in T THEN d ELSE 0)
  <2>1. IsFiniteSet(T)
    BY SecondsFacts, FS_Subset
  <2>2. /\ \A i \in T : f[i] \in Nat
        /\ now \in T => g[now] = f[now] + d
        /\ \A i \in T : i # now => g[i] = f[i]
    BY DEF Adds
  <2> QED BY <2>1, <2>2, SumOfMore
<1>3. ASSUME NEW s \in Nat, s <= now
      PROVE  SumOf(g, Later(s)) = SumOf(f, Later(s)) + d
  <2>1. Later(s) \in SUBSET Seconds /\ now \in Later(s)
    BY <1>3 DEF Later
  <2> QED BY <1>2, <2>1
<1>4. ASSUME NEW s \in Nat, ~(s <= now /\ now < s + Period[l])
      PROVE  SumOf(g, Span(l, s)) = SumOf(f, Span(l, s))
  <2>1. Span(l, s) \in SUBSET Seconds /\ now \notin Span(l, s)
    BY <1>4 DEF Span
  <2>2. SumOf(g, Span(l, s)) = SumOf(f, Span(l, s)) + 0
    BY <1>2, <2>1
  <2> QED BY <2>2, StretchFacts
<1> QED BY <1>3, <1>4

\* A request let through keeps the bound, whether it opens a window or the
\* window it finds has room. d is 0 when the history is full.
LEMMA TakeSlides ==
  ASSUME NEW l \in Limiter, Count[l] > 0,
         NEW entry \in Entry, NEW f \in [Seconds -> Nat], NEW now \in Seconds,
         Slides(l, entry, f, now),
         NEW d \in {0, 1}, d = 0 => f[now] >= 1,
         NEW g, Adds(g, f, now, d),
         NEW e \in Entry,
         \/ /\ TimedOut(l, entry, now)
            /\ e.UseTime = now /\ e.UseCount = 1
         \/ /\ ~TimedOut(l, entry, now) /\ entry.UseCount < Count[l]
            /\ e.UseTime = entry.UseTime /\ e.UseCount = entry.UseCount + 1
  PROVE  Slides(l, e, g, now)
<1> DEFINE A(s) == SumOf(f, Later(s))
           B(s) == SumOf(g, Later(s))
           U == entry.UseTime
           P == Period[l]
           C == Count[l]
<1>0. /\ P \in Nat /\ P > 0 /\ C \in Nat /\ C > 0 /\ P <= Epoch
      /\ Epoch \in Nat /\ now \in Nat /\ Epoch <= now /\ U \in Nat /\ entry.UseCount \in Nat
      /\ d \in Nat /\ f[now] \in Nat /\ Seconds \subseteq Nat
      /\ \A s \in Seconds : Epoch <= s
  BY LimiterFacts, EpochAssumption, ClockAssumption DEF Entry, Seconds
<1>1. /\ g \in [Seconds -> Nat] /\ g[now] = f[now] + d
      /\ \A i \in Seconds : i # now => g[i] = f[i]
      /\ \A s \in Nat : s <= now => B(s) = A(s) + d
      /\ \A s \in Nat : ~(s <= now /\ now < s + P) =>
           SumOf(g, Span(l, s)) = SumOf(f, Span(l, s))
  <2>1. d \in Nat
    BY <1>0
  <2>2. /\ \A s \in Nat : s <= now => SumOf(g, Later(s)) = SumOf(f, Later(s)) + d
        /\ \A s \in Nat : ~(s <= now /\ now < s + Period[l]) =>
             SumOf(g, Span(l, s)) = SumOf(f, Span(l, s))
    BY <2>1, TakeAdds
  <2> QED BY <2>2 DEF Adds
<1>2. /\ \A s : A(s) \in Nat /\ B(s) \in Nat
      /\ \A s : SumOf(g, Span(l, s)) \in Nat /\ SumOf(g, Span(l, s)) <= B(s)
      /\ \A s, t \in Nat : s <= t => B(t) <= B(s)
  BY <1>1, StretchFacts
<1>3. g[now] >= 1
  BY <1>0, <1>1
<1>4. NoneAhead(g, now)
  BY <1>0, <1>1 DEF NoneAhead, Slides
<1>5. /\ TimedOut(l, entry, now) <=> U + P <= now
      /\ TimedOut(l, e, now) <=> e.UseTime + P <= now
  BY DEF TimedOut, WindowEnd
<1>6. /\ \A s \in Seconds : SumOf(f, Span(l, s)) < 2 * C
      /\ U # 0 => /\ U \in Epoch..now /\ f[U] >= 1 /\ A(U) <= entry.UseCount
                  /\ \A s \in Epoch..U : s > U - P => A(s) <= A(U) + C - 1
      /\ U + P <= now => /\ A(now) = 0
                         /\ \A s \in Seconds : s > now - P => A(s) <= C - 1
  BY <1>5 DEF Slides, SpansBounded, WindowCounts, OverIsQuiet
<1> SUFFICES /\ \A s \in Seconds : SumOf(g, Span(l, s)) < 2 * C
             /\ e.UseTime # 0 =>
                  /\ e.UseTime \in Epoch..now /\ g[e.UseTime] >= 1
                  /\ B(e.UseTime) <= e.UseCount
                  /\ \A s \in Epoch..e.UseTime : s > e.UseTime - P =>
                       B(s) <= B(e.UseTime) + C - 1
             /\ ~(e.UseTime + P <= now)
  BY <1>4, <1>5 DEF Slides, SpansBounded, WindowCounts, OverIsQuiet
<1> HIDE DEF A, B
<1>7. CASE TimedOut(l, entry, now) /\ e.UseTime = now /\ e.UseCount = 1
  <2>1. A(now) = 0 /\ B(now) = d /\ d <= 1
    BY <1>0, <1>1, <1>5, <1>6, <1>7
  <2>2. g[now] = 1 /\ d = 1
    <3>1. f[now] = 0
      <4>1. now \in Later(now) /\ IsFiniteSet(Later(now)) /\ \A i \in Later(now) : f[i] \in Nat
        BY <1>0, SecondsFacts, FS_Subset DEF Later
      <4>2. SumOf(f, Later(now)) = f[now] + SumOf(f, Later(now) \ {now})
        BY <4>1, SumOfRest
      <4>3. SumOf(f, Later(now) \ {now}) \in Nat
        BY <4>1, FS_Subset, SumOfRest
      <4> QED BY <1>0, <2>1, <4>2, <4>3 DEF A
    <3> QED BY <1>0, <1>1, <1>3, <3>1
  <2>3. \A s \in Seconds : s <= now /\ s > now - P => B(s) <= C
    BY <1>0, <1>1, <1>2, <1>5, <1>6, <1>7, <2>1
  <2>4. ASSUME NEW s \in Seconds PROVE SumOf(g, Span(l, s)) < 2 * C
    <3>1. CASE s <= now /\ now < s + P
      <4>1. B(s) <= C
        BY <1>0, <2>3, <3>1
      <4> QED BY <1>0, <1>2, <4>1
    <3>2. CASE ~(s <= now /\ now < s + P)
      BY <1>0, <1>1, <1>6, <3>2
    <3> QED BY <3>1, <3>2
  <2>5. \A s \in Epoch..now : s \in Seconds
    BY ClockAssumption, EpochAssumption, <1>0 DEF Seconds
  <2>6. \A s \in Epoch..now : s > now - P => B(s) <= B(now) + C - 1
    BY <1>0, <1>2, <2>1, <2>2, <2>3, <2>5
  <2>7. now \in Epoch..now /\ B(now) <= 1 /\ ~(now + P <= now)
    BY <1>0, <2>1
  <2> QED BY <1>3, <1>7, <2>4, <2>6, <2>7
<1>8. CASE /\ ~TimedOut(l, entry, now) /\ entry.UseCount < Count[l]
           /\ e.UseTime = U /\ e.UseCount = entry.UseCount + 1
  <2>1. U # 0
    BY <1>0, <1>5, <1>8
  <2>2. /\ U \in Epoch..now /\ f[U] >= 1 /\ A(U) <= entry.UseCount
        /\ \A s \in Epoch..U : s > U - P => A(s) <= A(U) + C - 1
    BY <1>6, <2>1
  <2>3. B(U) = A(U) + d /\ B(U) <= e.UseCount /\ B(U) <= C
    BY <1>0, <1>1, <1>2, <1>8, <2>2
  <2>4. \A s \in Epoch..U : s > U - P => B(s) <= B(U) + C - 1
    BY <1>0, <1>1, <1>2, <2>2, <2>3
  <2>5. g[U] >= 1
    <3>1. U \in Seconds
      BY <1>0, <2>2, ClockAssumption, EpochAssumption DEF Seconds
    <3> QED BY <1>1, <1>3, <2>2, <3>1
  <2>6. ASSUME NEW s \in Seconds PROVE SumOf(g, Span(l, s)) < 2 * C
    <3>1. CASE ~(s <= now /\ now < s + P)
      BY <1>0, <1>1, <1>6, <3>1
    <3>2. CASE s <= now /\ now < s + P /\ s <= U
      <4>1. s \in Epoch..U /\ s > U - P
        BY <1>0, <2>2, <3>2
      <4>2. B(s) <= B(U) + C - 1
        BY <2>4, <4>1
      <4> QED BY <1>0, <1>2, <2>3, <4>2
    <3>3. CASE s <= now /\ now < s + P /\ ~(s <= U)
      <4>1. B(s) <= B(U)
        BY <1>0, <1>2, <3>3
      <4> QED BY <1>0, <1>2, <2>3, <4>1
    <3> QED BY <3>1, <3>2, <3>3
  <2> QED BY <1>5, <1>8, <2>2, <2>3, <2>4, <2>5, <2>6
<1> QED BY <1>7, <1>8

\* A second passes. A window that ends with it has counted every request
\* since its first, which the next period back no longer reaches.
LEMMA TickSlides ==
  ASSUME NEW l \in Limiter, Count[l] > 0,
         NEW entry \in Entry, NEW f \in [Seconds -> Nat],
         NEW now \in Seconds, now + 1 \in Seconds, entry.UseCount <= Count[l],
         Slides(l, entry, f, now)
  PROVE  Slides(l, entry, f, now + 1)
<1> DEFINE A(s) == SumOf(f, Later(s))
           U == entry.UseTime
           P == Period[l]
           C == Count[l]
<1>0. /\ P \in Nat /\ P > 0 /\ C \in Nat /\ C > 0 /\ P <= Epoch
      /\ Epoch \in Nat /\ now \in Nat /\ Epoch <= now /\ U \in Nat /\ entry.UseCount \in Nat
      /\ Seconds \subseteq Nat
  BY LimiterFacts, EpochAssumption, ClockAssumption DEF Entry, Seconds
<1>1. /\ \A s : A(s) \in Nat
      /\ \A s, t \in Nat : s <= t => A(t) <= A(s)
  BY StretchFacts
<1>2. NoneAhead(f, now + 1) /\ SpansBounded(l, f)
  <2>1. \A i \in Seconds : i \in Nat /\ (now + 1 < i => now < i)
    BY <1>0
  <2> QED BY <2>1 DEF NoneAhead, Slides
<1>3. /\ TimedOut(l, entry, now) <=> U + P <= now
      /\ TimedOut(l, entry, now + 1) <=> U + P <= now + 1
  BY DEF TimedOut, WindowEnd
<1>4. /\ U # 0 => /\ U \in Epoch..now /\ f[U] >= 1 /\ A(U) <= entry.UseCount
                  /\ \A s \in Epoch..U : s > U - P => A(s) <= A(U) + C - 1
      /\ U + P <= now => /\ A(now) = 0
                         /\ \A s \in Seconds : s > now - P => A(s) <= C - 1
  BY <1>3 DEF Slides, WindowCounts, OverIsQuiet
<1>5. A(now + 1) = 0
  <2>1. Later(now + 1) \in SUBSET Seconds
    BY DEF Later
  <2>2. \A i \in Later(now + 1) : f[i] = 0
    <3> TAKE i \in Later(now + 1)
    <3>1. i \in Seconds /\ i \in Nat /\ now < i
      BY <1>0 DEF Later
    <3> QED BY <3>1 DEF Slides, NoneAhead
  <2>3. IsFiniteSet(Later(now + 1))
    BY <2>1, SecondsFacts, FS_Subset
  <2> QED BY <2>2, <2>3, SumOfZeros
<1> SUFFICES /\ U # 0 => U \in Epoch..(now + 1)
             /\ U + P <= now + 1 =>
                  \A s \in Seconds : s > (now + 1) - P => A(s) <= C - 1
  <2>1. WindowCounts(l, entry, f, now + 1)
    BY <1>4 DEF WindowCounts
  <2>2. OverIsQuiet(l, entry, f, now + 1)
    BY <1>3, <1>5 DEF OverIsQuiet
  <2> QED BY <1>2, <2>1, <2>2 DEF Slides
<1>6. CASE U + P <= now
  BY <1>0, <1>4, <1>6
<1>7. CASE U + P = now + 1
  <2>1. U # 0 /\ U \in Seconds /\ U \in Nat
    BY <1>0, <1>4, <1>7, ClockAssumption, EpochAssumption DEF Seconds
  <2>2. A(U + 1) <= C - 1
    <3>1. /\ IsFiniteSet(Later(U)) /\ U \in Later(U)
          /\ \A i \in Later(U) : f[i] \in Nat
      BY <2>1, SecondsFacts, FS_Subset DEF Later
    <3>2. A(U) = f[U] + SumOf(f, Later(U) \ {U})
      BY <3>1, SumOfRest
    <3>3. Later(U) \ {U} = Later(U + 1)
      <4>1. \A i \in Nat : (U <= i /\ i # U) <=> U + 1 <= i
        BY <2>1
      <4>2. \A i \in Seconds : i \in Nat
        BY <1>0
      <4> QED BY <4>1, <4>2 DEF Later
    <3>4. f[U] \in Nat /\ f[U] >= 1 /\ A(U) <= C
      BY <1>0, <1>1, <1>4, <2>1
    <3> HIDE DEF A
    <3>5. A(U) = f[U] + A(U + 1)
      BY <3>2, <3>3 DEF A
    <3> QED BY <1>0, <1>1, <3>4, <3>5
  <2> HIDE DEF A
  <2>3. ASSUME NEW s \in Seconds, s > (now + 1) - P
        PROVE  A(s) <= C - 1
    <3>1. s \in Nat /\ U + 1 <= s /\ U + 1 \in Nat
      BY <1>0, <1>7, <2>1, <2>3
    <3>2. A(s) <= A(U + 1)
      BY <1>1, <3>1
    <3>3. A(s) \in Nat /\ A(U + 1) \in Nat
      BY <1>1
    <3> HIDE DEF U
    <3> QED BY <1>0, <2>2, <3>2, <3>3
  <2> QED BY <1>0, <1>4, <2>3
<1>8. CASE ~(U + P <= now + 1)
  BY <1>0, <1>4, <1>8
<1> QED BY <1>0, <1>6, <1>7, <1>8

\* The worker forgets a window that is over.
LEMMA SweepSlides ==
  ASSUME NEW l \in Limiter, NEW entry, NEW f, NEW now,
         Slides(l, entry, f, now), TimedOut(l, entry, now)
  PROVE  Slides(l, Absent, f, now)
<1>1. Absent.UseTime = 0
  BY DEF Absent
<1>2. WindowCounts(l, Absent, f, now)
  BY <1>1 DEF WindowCounts
<1> QED BY <1>2 DEF Slides, OverIsQuiet

\* A limiter that has let nothing through.
LEMMA FreshSlides ==
  ASSUME NEW l \in Limiter, Count[l] > 0
  PROVE  Slides(l, Absent, [s \in Seconds |-> 0], Epoch)
<1> DEFINE f == [s \in Seconds |-> 0]
<1>1. \A i \in Seconds : f[i] = 0
  OBVIOUS
<1> HIDE DEF f
<1>2. \A T \in SUBSET Seconds : SumOf(f, T) = 0
  <2> TAKE T \in SUBSET Seconds
  <2>1. IsFiniteSet(T) /\ \A i \in T : f[i] = 0
    BY <1>1, SecondsFacts, FS_Subset
  <2> QED BY <2>1, SumOfZeros
<1>3. \A s : SumOf(f, Later(s)) = 0 /\ SumOf(f, Span(l, s)) = 0
  <2> TAKE s
  <2>1. Later(s) \in SUBSET Seconds /\ Span(l, s) \in SUBSET Seconds
    BY DEF Later, Span
  <2> QED BY <1>2, <2>1
<1>4. Absent.UseTime = 0 /\ Count[l] \in Nat
  BY LimiterFacts DEF Absent
<1>5. NoneAhead(f, Epoch) /\ WindowCounts(l, Absent, f, Epoch)
  BY <1>1, <1>4 DEF NoneAhead, WindowCounts
<1>6. OverIsQuiet(l, Absent, f, Epoch) /\ SpansBounded(l, f)
  BY <1>3, <1>4 DEF OverIsQuiet, SpansBounded
<1> QED BY <1>5, <1>6 DEF Slides, f

\* The sums at every limiter hold in the initial state and after every step.
LEMMA SlidingStep ==
  /\ Init => SlidingInv
  /\ Inv /\ Inv' /\ SlidingInv /\ [Next]_vars => SlidingInv'
<1>1. ASSUME Init PROVE SlidingInv
  <2> SUFFICES ASSUME NEW l \in Limiter, NEW a \in Addr, Count[l] > 0
               PROVE  Slides(l, list[l][a], taken[l][a], clock)
    BY DEF SlidingInv
  <2>1. /\ list[l][a] = Absent /\ clock = Epoch
        /\ taken[l][a] = [s \in Seconds |-> 0]
    BY <1>1 DEF Init, Seconds
  <2> QED BY <2>1, FreshSlides
<1>2. ASSUME Inv, Inv', SlidingInv, [Next]_vars PROVE SlidingInv'
  <2> SUFFICES ASSUME NEW l \in Limiter, NEW a \in Addr, Count[l] > 0
               PROVE  Slides(l, list'[l][a], taken'[l][a], clock')
    BY DEF SlidingInv
  <2>1. Slides(l, list[l][a], taken[l][a], clock)
    BY <1>2 DEF SlidingInv
  <2>2. /\ list[l][a] \in Entry /\ list[l][a].UseCount <= Count[l]
        /\ taken[l][a] \in [Seconds -> Nat]
        /\ clock \in Seconds /\ clock' \in Seconds
        /\ list'[l][a] \in Entry
    BY <1>2 DEF Inv, TypeOK, Entry, Seconds
  <2>3. CASE list'[l][a] = list[l][a] /\ taken'[l][a] = taken[l][a] /\ clock' = clock
    BY <2>1, <2>3
  <2>4. ASSUME NEW r \in Req, CheckAndUse(r)
        PROVE  Slides(l, list'[l][a], taken'[l][a], clock')
    <3>0. clock' = clock
      BY <2>4 DEF CheckAndUse
    <3>1. CASE ~(req[r].next = l /\ req[r].addr = a)
      <4>1. list'[l][a] = list[l][a]
        BY <1>2, <2>4, <3>1 DEF CheckAndUse, Inv, TypeOK
      <4>2. taken'[l][a] = taken[l][a]
        <5>1. PICK h : \/ taken' = taken
                       \/ taken' = [taken EXCEPT ![req[r].next][req[r].addr] = h]
          BY <2>4 DEF CheckAndUse
        <5>2. taken \in [Limiter -> [Addr -> [Seconds -> Nat]]]
          BY <1>2 DEF Inv, TypeOK, Seconds
        <5> QED BY <3>1, <5>1, <5>2
      <4> QED BY <2>3, <3>0, <4>1, <4>2
    <3>2. CASE req[r].next = l /\ req[r].addr = a
      <4> DEFINE entry == list[l][a]
                 e == list'[l][a]
                 f == taken[l][a]
                 g == taken'[l][a]
      <4>1. e = Used(l, entry)
        BY <1>2, <2>4, <3>2 DEF CheckAndUse, Inv, TypeOK
      <4>2. CASE Verdict(l, entry) # 0
        <5>1. g = f
          BY <2>4, <3>2, <4>2 DEF CheckAndUse
        <5>2. e = entry
          BY <4>1, <4>2 DEF Verdict, Used
        <5> QED BY <2>3, <3>0, <5>1, <5>2
      <4>3. CASE Verdict(l, entry) = 0
        <5>0. clock \in Nat /\ Count[l] \in Nat /\ Period[l] \in Nat /\ f[clock] \in Nat
              /\ entry.UseTime \in Nat /\ entry.UseCount \in Nat
          BY <2>2, SecondsFacts, LimiterFacts DEF Entry
        <5>1. \/ TimedOut(l, entry, clock)
              \/ entry.UseCount < Count[l]
          BY <4>3, <5>0 DEF Verdict, TimedOut, WindowEnd
        <5>2. \/ /\ TimedOut(l, entry, clock)
                 /\ e.UseTime = clock /\ e.UseCount = 1
              \/ /\ ~TimedOut(l, entry, clock) /\ entry.UseCount < Count[l]
                 /\ e.UseTime = entry.UseTime /\ e.UseCount = entry.UseCount + 1
          BY <2>2, <4>1, <5>1 DEF Used, Entry
        <5>3. PICK d \in {0, 1} : /\ d = 0 => f[clock] >= 1
                                  /\ g = [f EXCEPT ![clock] = f[clock] + d]
          <6> DEFINE n == IF f[clock] < TakenCap(l) THEN f[clock] + 1 ELSE f[clock]
          <6>0. taken' = [taken EXCEPT ![l] = [taken[l] EXCEPT ![a] =
                            [taken[l][a] EXCEPT ![clock] = n]]]
            BY <2>4, <3>2, <4>3 DEF CheckAndUse
          <6>1. g = [f EXCEPT ![clock] = n]
            <7>1. taken \in [Limiter -> [Addr -> [Seconds -> Nat]]]
              BY <1>2 DEF Inv, TypeOK, Seconds
            <7> HIDE DEF n
            <7> QED BY <6>0, <7>1
          <6> HIDE DEF f, g
          <6>2. CASE f[clock] < TakenCap(l)
            <7>1. g = [f EXCEPT ![clock] = f[clock] + 1]
              BY <6>1, <6>2
            <7> HIDE DEF n
            <7> QED BY <7>1
          <6>3. CASE ~(f[clock] < TakenCap(l))
            <7>1. f[clock] >= 1
              BY <5>0, <6>3 DEF TakenCap
            <7>2. f[clock] + 0 = f[clock]
              BY <5>0
            <7> QED BY <6>1, <6>3, <7>1, <7>2
          <6> QED BY <6>2, <6>3
        <5>4. Adds(g, f, clock, d)
          <6>1. f \in [Seconds -> Nat] /\ clock \in Seconds /\ f[clock] + d \in Nat
            BY <2>2, <5>0
          <6> HIDE DEF f, g
          <6> QED BY <5>3, <6>1 DEF Adds
        <5> HIDE DEF entry, e, f, g
        <5>5. /\ entry \in Entry /\ e \in Entry /\ f \in [Seconds -> Nat]
              /\ Slides(l, entry, f, clock)
          BY <2>1, <2>2 DEF entry, e, f
        <5>6. Slides(l, e, g, clock)
          BY <2>2, <5>2, <5>3, <5>4, <5>5, TakeSlides
        <5> QED BY <3>0, <5>6 DEF e, g
      <4> QED BY <4>2, <4>3
    <3> QED BY <3>1, <3>2
  <2>5. ASSUME NEW k \in Limiter, WorkerSweeps(k)
        PROVE  Slides(l, list'[l][a], taken'[l][a], clock')
    <3>1. taken' = taken /\ clock' = clock
      BY <2>5 DEF WorkerSweeps
    <3>2. \/ list'[l][a] = list[l][a]
          \/ list'[l][a] = Absent /\ TimedOut(l, list[l][a], sweepTime[l])
      BY <1>2, <2>5 DEF WorkerSweeps, Inv, TypeOK
    <3>3. TimedOut(l, list[l][a], sweepTime[l]) => TimedOut(l, list[l][a], clock)
      <4>1. /\ sweepTime[l] \in Nat /\ sweepTime[l] <= clock /\ clock \in Nat
            /\ list[l][a].UseTime \in Nat /\ Period[l] \in Nat
        BY <1>2, <2>2, SecondsFacts, LimiterFacts DEF Inv, TypeOK, SweepBehind
      <4> QED BY <4>1 DEF TimedOut, WindowEnd
    <3> QED BY <2>1, <2>3, <3>1, <3>2, <3>3, SweepSlides
  <2>6. CASE Tick
    <3>1. list' = list /\ taken' = taken /\ clock' = clock + 1
      BY <2>6 DEF Tick
    <3> QED BY <2>1, <2>2, <3>1, TickSlides
  <2>7. CASE \/ \E r \in Req, b \in Addr : Arrive(r, b)
             \/ \E k \in Limiter : WorkerWakes(k)
             \/ UNCHANGED vars
    BY <2>3, <2>7 DEF Arrive, WorkerWakes, vars
  <2> QED BY <1>2, <2>4, <2>5, <2>6, <2>7 DEF Next
<1> QED BY <1>1, <1>2

\* In no period of limitPeriod seconds does a limiter let through twice
\* limitCount requests of an address: for any limits, number of requests at
\* once, and however late the worker sweeps.
THEOREM SlidingIsBounded == Spec => []SlidingBound
<1>1. Inv /\ SlidingInv => SlidingBound
  <2> SUFFICES ASSUME SlidingInv, NEW l \in Limiter, NEW a \in Addr,
                      NEW s \in Epoch..MaxTime, Count[l] > 0
               PROVE  TakenFrom(l, a, s) < 2 * Count[l]
    BY DEF SlidingBound
  <2>1. TakenFrom(l, a, s) = SumOf(taken[l][a], Span(l, s))
    BY Zenon DEF TakenFrom, SumOf, Span, Seconds
  <2>2. SpansBounded(l, taken[l][a]) /\ s \in Seconds
    BY DEF SlidingInv, Slides, Seconds
  <2>3. SumOf(taken[l][a], Span(l, s)) < 2 * Count[l]
    BY <2>2 DEF SpansBounded
  <2> QED BY <2>1, <2>3
<1> QED BY <1>1, Invariance, SlidingStep, PTL DEF Spec
=============================================================================
