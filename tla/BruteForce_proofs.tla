-------------------------- MODULE BruteForce_proofs --------------------------
(***************************************************************************)
(* Proofs about BruteForce, for any addresses, any number of concurrent    *)
(* logins and any limits.                                                  *)
(***************************************************************************)
EXTENDS BruteForce, FiniteSetTheorems, TLAPS

Entry == [count : Nat, lockedUntil : Nat]

\* The counter never runs ahead of the failures, until both are past the
\* limit: cleanup and successes only make it smaller.
CountShown ==
  \A a \in Addr : attempts[a].count <= streak[a] \/ streak[a] = MaxAttempts

Inv == TypeOK /\ CountShown /\ LockoutDeserved

\* The requests that verify a password of an address.
Verifying(a) == {r \in Req : req[r].phase = "verify" /\ req[r].addr = a}

\* Plain types, without the moving bounds.
LEMMA Types ==
  ASSUME TypeOK
  PROVE  /\ clock \in Nat /\ Epoch <= clock /\ clock <= MaxTime
         /\ attempts \in [Addr -> Entry]
         /\ \A a \in Addr : attempts[a].lockedUntil <= clock + Lockout
         /\ \A a \in Addr : streak[a] \in Nat /\ streak[a] <= MaxAttempts
<1>1. clock \in Nat /\ Epoch <= clock /\ clock <= MaxTime
  BY EpochAssumption, ClockAssumption DEF TypeOK
<1>2. \A a \in Addr : /\ attempts[a] \in Entry
                      /\ attempts[a].lockedUntil <= clock + Lockout
  BY <1>1, LimitAssumption DEF TypeOK, Entry
<1>3. attempts \in [Addr -> Entry]
  BY <1>2 DEF TypeOK
<1>4. \A a \in Addr : streak[a] \in Nat /\ streak[a] <= MaxAttempts
  BY LimitAssumption DEF TypeOK
<1> QED BY <1>1, <1>2, <1>3, <1>4

\* Back from plain types to TypeOK, for tables that time has moved past.
LEMMA TableType ==
  ASSUME NEW table, table \in [Addr -> Entry], NEW time \in Nat,
         \A a \in Addr : table[a].lockedUntil <= time + Lockout
  PROVE  table \in [Addr -> [count : Nat, lockedUntil : 0..time + Lockout]]
<1>1. \A a \in Addr : table[a] \in [count : Nat, lockedUntil : 0..time + Lockout]
  BY LimitAssumption DEF Entry
<1> QED BY <1>1

\* No entries: the start of the server.
LEMMA InitInv == Init => Inv
<1> SUFFICES ASSUME Init PROVE Inv
  OBVIOUS
<1>1. Absent \in Entry /\ Absent.count = 0 /\ Absent.lockedUntil = 0
  BY DEF Absent, Entry
<1>2. attempts \in [Addr -> [count : Nat, lockedUntil : 0..clock + Lockout]]
  BY <1>1, TableType, LimitAssumption, EpochAssumption DEF Init
<1>3. TypeOK
  <2>1. clock \in Epoch..MaxTime /\ clock \in Nat
    BY EpochAssumption, ClockAssumption DEF Init
  <2>2. req \in [Req -> [phase : {"idle", "verify"}, addr : Addr]]
    BY AddrAssumption DEF Init
  <2>3. /\ streak \in [Addr -> 0..MaxAttempts]
        /\ late \in [Addr -> Nat]
    BY <2>1, LimitAssumption DEF Init
  <2> QED BY <1>2, <2>1, <2>2, <2>3 DEF TypeOK
<1>4. CountShown
  BY <1>1 DEF Init, CountShown
<1>5. LockoutDeserved
  BY <1>1, EpochAssumption DEF Init, LockoutDeserved, Locked
<1> QED BY <1>3, <1>4, <1>5 DEF Inv

\* A failure locks the address only when the streak is long enough.
LEMMA RecordFailureInv ==
  ASSUME Inv, NEW r \in Req, RecordFailure(r)
  PROVE  Inv'
<1>1. PICK a \in Addr : a = req[r].addr
  BY DEF Inv, TypeOK
<1>2. /\ clock \in Nat /\ attempts \in [Addr -> Entry]
      /\ \A b \in Addr : attempts[b].lockedUntil <= clock + Lockout
      /\ \A b \in Addr : streak[b] \in Nat /\ streak[b] <= MaxAttempts
  BY Types DEF Inv
<1>3. /\ clock' = clock
      /\ streak' = [streak EXCEPT ![a] =
           IF streak[a] < MaxAttempts THEN streak[a] + 1 ELSE streak[a]]
      /\ req' = [req EXCEPT ![r].phase = "idle"]
      /\ late' = [late EXCEPT ![a] = 0] \/ late' = [late EXCEPT ![a] = late[a] + 1]
  BY <1>1 DEF RecordFailure, Done
<1>4. \/ attempts' = attempts /\ Locked(a)
      \/ attempts' = [attempts EXCEPT ![a] = Counted(attempts[a])] /\ ~Locked(a)
  BY <1>1 DEF RecordFailure
<1>5. /\ Counted(attempts[a]) \in Entry
      /\ Counted(attempts[a]).count = attempts[a].count + 1
      /\ \/ /\ attempts[a].count + 1 < MaxAttempts
            /\ Counted(attempts[a]).lockedUntil = attempts[a].lockedUntil
         \/ /\ attempts[a].count + 1 >= MaxAttempts
            /\ Counted(attempts[a]).lockedUntil = clock + Lockout
  <2> DEFINE e == attempts[a]
  <2>1. e.count \in Nat /\ e.lockedUntil \in Nat
    BY <1>2 DEF Entry
  <2> HIDE DEF e
  <2>2. Counted(e) \in Entry /\ Counted(e).count = e.count + 1
    BY <1>2, <2>1, LimitAssumption DEF Counted, Entry
  <2>3. \/ e.count + 1 < MaxAttempts /\ Counted(e).lockedUntil = e.lockedUntil
        \/ e.count + 1 >= MaxAttempts /\ Counted(e).lockedUntil = clock + Lockout
    BY <2>1, LimitAssumption DEF Counted
  <2> QED BY <2>2, <2>3 DEF e
<1>6. TypeOK'
  <2>1. attempts' \in [Addr -> Entry]
    BY <1>2, <1>4, <1>5
  <2>2. \A b \in Addr : attempts'[b].lockedUntil <= clock + Lockout
    BY <1>2, <1>4, <1>5, LimitAssumption
  <2>3. attempts' \in [Addr -> [count : Nat, lockedUntil : 0..clock' + Lockout]]
    BY <1>2, <1>3, <2>1, <2>2, TableType
  <2>4. streak' \in [Addr -> 0..MaxAttempts]
    BY <1>2, <1>3, LimitAssumption DEF Inv, TypeOK
  <2>5. late' \in [Addr -> Nat]
    BY <1>2, <1>3 DEF Inv, TypeOK
  <2>6. req' \in [Req -> [phase : {"idle", "verify"}, addr : Addr]]
    BY <1>3 DEF Inv, TypeOK
  <2> QED BY <1>3, <2>3, <2>4, <2>5, <2>6 DEF Inv, TypeOK
<1>7. \A b \in Addr : attempts[b].count \in Nat
  BY <1>2 DEF Entry
<1>8. /\ streak[a] = MaxAttempts => streak'[a] = MaxAttempts
      /\ streak[a] # MaxAttempts => streak'[a] = streak[a] + 1
  <2>1. streak'[a] = IF streak[a] < MaxAttempts THEN streak[a] + 1 ELSE streak[a]
    BY <1>3 DEF Inv, TypeOK
  <2>2. streak[a] \in Nat /\ streak[a] <= MaxAttempts
    BY <1>2
  <2> QED BY <2>1, <2>2, LimitAssumption
<1>9. \A b \in Addr : b # a => streak'[b] = streak[b] /\ attempts'[b] = attempts[b]
  BY <1>2, <1>3, <1>4 DEF Inv, TypeOK
<1>10. CountShown'
  <2>1. attempts'[a].count <= streak'[a] \/ streak'[a] = MaxAttempts
    <3>1. attempts'[a].count \in {attempts[a].count, attempts[a].count + 1}
      BY <1>2, <1>4, <1>5
    <3>2. attempts[a].count <= streak[a] \/ streak[a] = MaxAttempts
      BY DEF Inv, CountShown
    <3>3. attempts[a].count \in Nat /\ streak[a] \in Nat
      BY <1>2, <1>7
    <3> QED BY <1>8, <3>1, <3>2, <3>3
  <2> QED BY <1>9, <2>1 DEF Inv, CountShown
<1>11. LockoutDeserved'
  <2>1. CASE attempts' = attempts
    BY <1>3, <1>8, <1>9, <2>1 DEF Inv, LockoutDeserved, Locked
  <2>2. CASE attempts' = [attempts EXCEPT ![a] = Counted(attempts[a])] /\ ~Locked(a)
    <3>1. attempts'[a] = Counted(attempts[a])
      BY <1>2, <2>2
    <3>2. CASE attempts[a].count + 1 < MaxAttempts
      <4>1. ~(clock < attempts'[a].lockedUntil)
        BY <1>5, <2>2, <3>1, <3>2, <1>7, LimitAssumption DEF Locked
      <4> QED BY <1>3, <1>9, <4>1 DEF Inv, LockoutDeserved, Locked
    <3>3. CASE attempts[a].count + 1 >= MaxAttempts
      <4>1. streak'[a] = MaxAttempts
        <5>1. attempts[a].count <= streak[a] \/ streak[a] = MaxAttempts
          BY DEF Inv, CountShown
        <5>2. /\ attempts[a].count \in Nat
              /\ streak[a] \in Nat /\ streak[a] <= MaxAttempts
          BY <1>2, <1>7
        <5> QED BY <1>8, <3>3, <5>1, <5>2, LimitAssumption
      <4> QED BY <1>3, <1>9, <4>1 DEF Inv, LockoutDeserved, Locked
    <3> QED BY <1>7, <3>2, <3>3, LimitAssumption
  <2> QED BY <1>4, <2>1, <2>2
<1> QED BY <1>6, <1>10, <1>11 DEF Inv

\* Successes and cleanup put entries back to nothing, or leave them.
LEMMA ForgetInv ==
  ASSUME Inv, Cleanup \/ \E r \in Req : RecordSuccess(r)
  PROVE  Inv'
<1>1. Absent \in Entry /\ Absent.count = 0 /\ Absent.lockedUntil = 0
  BY DEF Absent, Entry
<1>2. /\ clock \in Nat /\ attempts \in [Addr -> Entry]
      /\ \A b \in Addr : attempts[b].lockedUntil <= clock + Lockout
      /\ \A b \in Addr : streak[b] \in Nat /\ streak[b] <= MaxAttempts
  BY Types DEF Inv
<1>3. clock' = clock /\ late' = late
  BY DEF Cleanup, RecordSuccess
<1>4. /\ attempts' \in [Addr -> Entry]
      /\ \A b \in Addr : \/ attempts'[b] = attempts[b] /\ streak'[b] = streak[b]
                         \/ attempts'[b] = Absent
  <2>1. CASE Cleanup
    <3>1. attempts' = [a \in Addr |-> IF Stale(attempts[a]) THEN Absent ELSE attempts[a]]
          /\ streak' = streak
      BY <2>1 DEF Cleanup
    <3> QED BY <1>1, <1>2, <3>1
  <2>2. CASE \E r \in Req : RecordSuccess(r)
    <3>1. PICK r \in Req : RecordSuccess(r)
      BY <2>2
    <3>2. req[r].addr \in Addr
      BY DEF Inv, TypeOK
    <3>3. /\ attempts' = [attempts EXCEPT ![req[r].addr] = Absent]
          /\ streak' = [streak EXCEPT ![req[r].addr] = 0]
      BY <3>1 DEF RecordSuccess
    <3>4. streak \in [Addr -> 0..MaxAttempts]
      BY DEF Inv, TypeOK
    <3> QED BY <1>1, <1>2, <3>2, <3>3, <3>4
  <2> QED BY <2>1, <2>2
<1>5. streak' \in [Addr -> 0..MaxAttempts]
  BY LimitAssumption DEF Inv, TypeOK, Cleanup, RecordSuccess
<1>6. req' \in [Req -> [phase : {"idle", "verify"}, addr : Addr]]
  BY DEF Inv, TypeOK, Cleanup, RecordSuccess, Done
<1>7. \A b \in Addr : attempts'[b].lockedUntil <= clock + Lockout
  BY <1>1, <1>2, <1>4, LimitAssumption
<1>8. TypeOK'
  <2>1. attempts' \in [Addr -> [count : Nat, lockedUntil : 0..clock' + Lockout]]
    BY <1>2, <1>3, <1>4, <1>7, TableType
  <2> QED BY <1>3, <1>5, <1>6, <2>1 DEF Inv, TypeOK
<1>9. CountShown'
  BY <1>1, <1>4, <1>5, LimitAssumption DEF Inv, CountShown
<1>10. LockoutDeserved'
  BY <1>1, <1>2, <1>3, <1>4 DEF Inv, LockoutDeserved, Locked
<1> QED BY <1>8, <1>9, <1>10 DEF Inv

\* Requests that start or give up, and time, touch no entry.
LEMMA OtherStepInv ==
  ASSUME Inv,
         \/ \E r \in Req, a \in Addr : CheckBlocked(r, a)
         \/ \E r \in Req : VerifyError(r)
         \/ Tick
  PROVE  Inv'
<1>1. /\ attempts' = attempts /\ streak' = streak
      /\ late' = late
  BY DEF CheckBlocked, VerifyError, Tick
<1>2. /\ clock \in Nat /\ attempts \in [Addr -> Entry]
      /\ \A b \in Addr : attempts[b].lockedUntil <= clock + Lockout
  BY Types DEF Inv
<1>3. clock' \in Nat /\ clock <= clock' /\ clock' \in Epoch..MaxTime
  BY <1>2, EpochAssumption, ClockAssumption
     DEF Inv, TypeOK, CheckBlocked, VerifyError, Tick
<1>4. \A b \in Addr : attempts[b].lockedUntil \in Nat
  BY <1>2 DEF Entry
<1>5. TypeOK'
  <2>1. \A b \in Addr : attempts'[b].lockedUntil <= clock' + Lockout
    BY <1>1, <1>2, <1>3, <1>4, LimitAssumption
  <2>2. attempts' \in [Addr -> [count : Nat, lockedUntil : 0..clock' + Lockout]]
    BY <1>1, <1>2, <1>3, <2>1, TableType
  <2>3. req' \in [Req -> [phase : {"idle", "verify"}, addr : Addr]]
    BY SMTT(30) DEF Inv, TypeOK, CheckBlocked, VerifyError, Tick, Done
  <2> QED BY <1>1, <1>3, <2>2, <2>3 DEF Inv, TypeOK
<1>6. CountShown'
  BY <1>1 DEF Inv, CountShown
<1>7. LockoutDeserved'
  BY <1>1, <1>2, <1>3, <1>4 DEF Inv, LockoutDeserved, Locked
<1> QED BY <1>5, <1>6, <1>7 DEF Inv

\* A step leaves the entry of a locked address alone, or records a success.
LEMMA LockoutStep ==
  ASSUME Inv, Next, NEW a \in Addr, Locked(a)
  PROVE  attempts'[a] = attempts[a] \/ streak'[a] = 0
<1>1. /\ clock \in Nat /\ attempts[a].lockedUntil \in Nat
      /\ attempts \in [Addr -> Entry]
  BY Types DEF Inv, Entry
<1>2. CASE Cleanup
  <2>1. ~Stale(attempts[a])
    BY <1>1, EpochAssumption DEF Locked, Stale
  <2> QED BY <1>2, <2>1 DEF Cleanup
<1>3. ASSUME NEW r \in Req, RecordFailure(r)
      PROVE  attempts'[a] = attempts[a]
  <2>1. CASE req[r].addr = a
    BY <1>3, <2>1 DEF RecordFailure
  <2>2. CASE req[r].addr # a
    BY <1>1, <1>3, <2>2 DEF RecordFailure
  <2> QED BY <2>1, <2>2
<1>4. ASSUME NEW r \in Req, RecordSuccess(r)
      PROVE  attempts'[a] = attempts[a] \/ streak'[a] = 0
  <2>1. CASE req[r].addr = a
    BY <1>4, <2>1 DEF RecordSuccess, Inv, TypeOK
  <2>2. CASE req[r].addr # a
    BY <1>1, <1>4, <2>2 DEF RecordSuccess
  <2> QED BY <2>1, <2>2
<1>5. CASE \/ \E r \in Req, b \in Addr : CheckBlocked(r, b)
           \/ \E r \in Req : VerifyError(r)
           \/ Tick
  BY <1>5 DEF CheckBlocked, VerifyError, Tick
<1> QED BY <1>2, <1>3, <1>4, <1>5 DEF Next

\* Fewer requests at work are fewer in number, and one that ends leaves room
\* for one below the number of all requests.
LEMMA VerifyingBounds ==
  ASSUME NEW S, NEW T, S \subseteq Req, T \subseteq S
  PROVE  /\ IsFiniteSet(S) /\ Cardinality(S) \in Nat /\ Cardinality(T) \in Nat
         /\ Cardinality(T) <= Cardinality(S)
         /\ \A r \in S : Cardinality(S \ {r}) = Cardinality(S) - 1
<1>1. IsFiniteSet(Req)
  BY AddrAssumption
<1>2. IsFiniteSet(S) /\ IsFiniteSet(T) /\ Cardinality(T) <= Cardinality(S)
  BY <1>1, FS_Subset
<1>3. Cardinality(S) \in Nat /\ Cardinality(T) \in Nat
  BY <1>2, FS_CardinalityType
<1>4. \A r \in S : Cardinality(S \ {r}) = Cardinality(S) - 1
  BY <1>2, FS_RemoveElement
<1> QED BY <1>2, <1>3, <1>4

\* A request that ends is gone from the requests at work; the other
\* addresses keep theirs.
LEMMA DoneStep ==
  ASSUME TypeOK, NEW r \in Req, req[r].phase = "verify", Done(r), NEW a \in Addr
  PROVE  Verifying(a)' = Verifying(a) \ {r}
<1>1. /\ req'[r].phase = "idle"
      /\ \A q \in Req : q # r => req'[q] = req[q]
  BY DEF TypeOK, Done
<1> QED BY <1>1 DEF Verifying

\* The guesses of a lockout that have been recorded and the requests that
\* still work never add up to all of the requests.
LEMMA LateStep ==
  ASSUME Inv, LateGuessesBounded, Next
  PROVE  LateGuessesBounded'
<1> USE DEF Inv
<1> SUFFICES ASSUME NEW a \in Addr, Locked(a)'
             PROVE  late'[a] + Cardinality(Verifying(a)') < Cardinality(Req)
  BY DEF LateGuessesBounded, Verifying
<1> DEFINE V == Verifying(a)
<1>1. V \subseteq Req /\ V' \subseteq Req
  BY DEF Verifying
<1>2. /\ clock \in Nat /\ attempts \in [Addr -> Entry]
      /\ late \in [Addr -> Nat] /\ attempts[a].lockedUntil \in Nat
  BY Types DEF TypeOK, Entry
<1>3. Locked(a) => late[a] + Cardinality(V) < Cardinality(Req)
  BY DEF LateGuessesBounded, Verifying
<1>4. Cardinality(Req) \in Nat /\ Cardinality(V) \in Nat /\ Cardinality(V') \in Nat
  BY <1>1, VerifyingBounds
<1>5. ~(clock' < Absent.lockedUntil)
  BY <1>2, ClockAssumption DEF Absent, Cleanup, RecordSuccess, Locked, Next,
     CheckBlocked, RecordFailure, VerifyError, Tick
<1>6. ASSUME V' \subseteq V, late'[a] = late[a], attempts'[a] = attempts[a], clock <= clock'
      PROVE  late'[a] + Cardinality(V') < Cardinality(Req)
  <2>1. clock' \in Nat
    BY <1>2 DEF Cleanup, RecordSuccess, Next, CheckBlocked, RecordFailure, VerifyError, Tick
  <2>2. Locked(a)
    BY <1>2, <1>6, <2>1 DEF Locked
  <2>3. Cardinality(V') <= Cardinality(V)
    BY <1>1, <1>6, VerifyingBounds
  <2> QED BY <1>2, <1>3, <1>4, <1>6, <2>2, <2>3
<1>7. ASSUME NEW r \in Req, NEW b \in Addr, CheckBlocked(r, b)
      PROVE  late'[a] + Cardinality(V') < Cardinality(Req)
  <2>1. clock' = clock /\ attempts' = attempts /\ late' = late /\ ~Locked(b)
    BY <1>7 DEF CheckBlocked
  <2>2. a # b
    BY <2>1 DEF Locked
  <2>3. /\ req'[r].addr = b
        /\ \A q \in Req : q # r => req'[q] = req[q]
    BY <1>7 DEF CheckBlocked, TypeOK
  <2>4. V' \subseteq V
    BY <2>2, <2>3 DEF Verifying
  <2> QED BY <1>2, <1>6, <2>1, <2>4
<1>8. ASSUME NEW r \in Req, RecordFailure(r)
      PROVE  late'[a] + Cardinality(V') < Cardinality(Req)
  <2>1. req[r].phase = "verify" /\ Done(r) /\ clock' = clock
    BY <1>8 DEF RecordFailure
  <2>2. V' = V \ {r}
    BY <2>1, DoneStep
  <2>3. CASE req[r].addr = a /\ Locked(a)
    <3>1. late'[a] = late[a] + 1
      BY <1>2, <1>8, <2>3 DEF RecordFailure
    <3>2. r \in V
      BY <2>1, <2>3 DEF Verifying
    <3>3. Cardinality(V') = Cardinality(V) - 1
      BY <1>1, <2>2, <3>2, VerifyingBounds
    <3> QED BY <1>2, <1>3, <1>4, <2>3, <3>1, <3>3
  <2>4. CASE req[r].addr = a /\ ~Locked(a)
    <3>1. late'[a] = 0
      BY <1>2, <1>8, <2>4 DEF RecordFailure
    <3>2. V' \subseteq Req \ {r}
      BY <1>1, <2>2
    <3>3. Cardinality(V') <= Cardinality(Req) - 1
      BY <3>2, VerifyingBounds
    <3> QED BY <1>4, <3>1, <3>3
  <2>5. CASE req[r].addr # a
    <3>1. late'[a] = late[a] /\ attempts'[a] = attempts[a]
      BY <1>2, <1>8, <2>5 DEF RecordFailure
    <3> QED BY <1>2, <1>6, <2>1, <2>2, <3>1
  <2> QED BY <2>3, <2>4, <2>5
<1>9. ASSUME NEW r \in Req, RecordSuccess(r)
      PROVE  late'[a] + Cardinality(V') < Cardinality(Req)
  <2>1. /\ req[r].phase = "verify" /\ Done(r) /\ clock' = clock /\ late' = late
        /\ attempts' = [attempts EXCEPT ![req[r].addr] = Absent]
    BY <1>9 DEF RecordSuccess
  <2>2. V' = V \ {r}
    BY <2>1, DoneStep
  <2>3. req[r].addr # a
    BY <1>2, <1>5, <2>1 DEF Locked
  <2> QED BY <1>2, <1>6, <2>1, <2>2, <2>3
<1>10. ASSUME NEW r \in Req, VerifyError(r)
       PROVE  late'[a] + Cardinality(V') < Cardinality(Req)
  <2>1. V' = V \ {r}
    BY <1>10, DoneStep DEF VerifyError
  <2> QED BY <1>2, <1>6, <1>10, <2>1 DEF VerifyError
<1>11. CASE Cleanup
  <2>1. attempts'[a] = attempts[a]
    BY <1>5, <1>11 DEF Cleanup, Locked
  <2>2. V' = V
    BY <1>11 DEF Cleanup, Verifying
  <2> QED BY <1>2, <1>6, <1>11, <2>1, <2>2 DEF Cleanup
<1>12. CASE Tick
  <2>1. V' = V
    BY <1>12 DEF Tick, Verifying
  <2> QED BY <1>2, <1>6, <1>12, <2>1 DEF Tick
<1> QED BY <1>7, <1>8, <1>9, <1>10, <1>11, <1>12 DEF Next

\* Inv is an invariant: logins, cleanup and time keep it.
THEOREM Invariance == Spec => []Inv
<1>1. Init => Inv
  BY InitInv
<1>2. Inv /\ [Next]_vars => Inv'
  <2> SUFFICES ASSUME Inv, [Next]_vars PROVE Inv'
    OBVIOUS
  <2>1. CASE \E r \in Req : RecordFailure(r)
    BY <2>1, RecordFailureInv
  <2>2. CASE Cleanup \/ \E r \in Req : RecordSuccess(r)
    BY <2>2, ForgetInv
  <2>3. CASE \/ \E r \in Req, a \in Addr : CheckBlocked(r, a)
             \/ \E r \in Req : VerifyError(r)
             \/ Tick
    BY <2>3, OtherStepInv
  <2>4. CASE UNCHANGED vars
    BY <2>4 DEF vars, Inv, TypeOK, CountShown, LockoutDeserved, Locked
  <2> QED BY <2>1, <2>2, <2>3, <2>4 DEF Next
<1> QED BY <1>1, <1>2, PTL DEF Spec

\* An address is locked out only after maxAttempts failures in a row, for any
\* number of logins under way.
THEOREM LockoutIsDeserved == Spec => []LockoutDeserved
<1>1. Inv => LockoutDeserved
  BY DEF Inv
<1> QED BY <1>1, Invariance, PTL

\* Passwords tried in a lockout are those of requests that were under way
\* when it began: fewer than there are requests at once, for any number.
THEOREM LateGuessesAreBounded == Spec => []LateGuessesBounded
<1>1. Init => LateGuessesBounded
  BY EpochAssumption DEF Init, LateGuessesBounded, Locked, Absent
<1>2. Inv /\ LateGuessesBounded /\ [Next]_vars => LateGuessesBounded'
  <2>1. UNCHANGED vars /\ LateGuessesBounded => LateGuessesBounded'
    BY DEF vars, LateGuessesBounded, Locked
  <2> QED BY <2>1, LateStep
<1> QED BY <1>1, <1>2, Invariance, PTL DEF Spec

\* A lockout lasts exactly as long as it was set for, unless a login that was
\* under way succeeds.
THEOREM LockoutIsKept == Spec => LockoutKept
<1>1. Inv /\ [Next]_vars =>
        [\A a \in Addr : Locked(a) =>
           attempts'[a] = attempts[a] \/ streak'[a] = 0]_vars
  BY LockoutStep
<1> QED BY <1>1, Invariance, PTL DEF Spec, LockoutKept
=============================================================================
