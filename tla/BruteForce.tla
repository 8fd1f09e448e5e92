------------------------------ MODULE BruteForce ------------------------------
(***************************************************************************)
(* Login throttling: src/caspasswd/bruteforce.go and the handlers that use *)
(* it, handleLoginSubmit (src/web/auth.go) and createPaste                 *)
(* (src/apiv1/new.go). A handler asks CheckBlocked, verifies the password  *)
(* (slow by design, and with no lock held), then records the outcome; any  *)
(* number of handlers do so at once. The web and the API server have one   *)
(* protection each; this module is one of them.                            *)
(***************************************************************************)
EXTENDS Integers, FiniteSets

CONSTANTS
  Addr,           \* client addresses
  Req,            \* login requests handled at once
  MaxAttempts,    \* maxAttempts (5)
  Lockout,        \* lockoutTime (15 minutes)
  CleanupPeriod,  \* cleanupPeriod (10 minutes)
  Epoch,          \* the time the server starts
  MaxTime         \* bound: horizon of the clock

ASSUME AddrAssumption  == Addr # {} /\ IsFiniteSet(Req)
ASSUME LimitAssumption == MaxAttempts \in Nat \ {0} /\ Lockout \in Nat \ {0}
\* The zero time.Time lies further back than any period.
ASSUME EpochAssumption == CleanupPeriod \in Nat /\ Epoch \in Nat /\ CleanupPeriod < Epoch
ASSUME ClockAssumption == MaxTime \in Nat /\ Epoch <= MaxTime

VARIABLES
  clock,     \* time.Now()
  attempts,  \* per address: loginAttempts, Absent when the map has no entry
  req,       \* per request: its address, and whether it verifies a password
  streak,    \* history: failed verifications since the last successful one
  late       \* history: failed verifications that ended in this lockout

vars == <<clock, attempts, req, streak, late>>

Absent == [count |-> 0, lockedUntil |-> 0]

Init ==
  /\ clock = Epoch
  /\ attempts = [a \in Addr |-> Absent]
  /\ req = [r \in Req |-> [phase |-> "idle", addr |-> CHOOSE a \in Addr : TRUE]]
  /\ streak = [a \in Addr |-> 0]
  /\ late = [a \in Addr |-> 0]

Locked(a) == clock < attempts[a].lockedUntil

Done(r) == req' = [req EXCEPT ![r].phase = "idle"]

-----------------------------------------------------------------------------
NeverBlocks(r, a) ==
  /\ req[r].phase = "idle"
  /\ req' = [req EXCEPT ![r] = [phase |-> "verify", addr |-> a]]
  /\ UNCHANGED <<clock, attempts, streak, late>>

\* A blocked address is refused before its password is looked at.
CheckBlocked(r, a) ==
  /\ req[r].phase = "idle"
  /\ ~Locked(a)
  /\ req' = [req EXCEPT ![r] = [phase |-> "verify", addr |-> a]]
  /\ UNCHANGED <<clock, attempts, streak, late>>

LocksEarly(e) ==
  LET count == e.count + 1
  IN  [count |-> count,
       lockedUntil |-> IF count >= MaxAttempts - 1 THEN clock + Lockout ELSE e.lockedUntil]

\* One more failure of an address that is not locked. The count is never
\* reset by the lock running out: the next failure locks again.
Counted(e) ==
  LET count == e.count + 1
  IN  [count |-> count,
       lockedUntil |-> IF count >= MaxAttempts THEN clock + Lockout ELSE e.lockedUntil]

ExtendsLock(r) ==
  LET a == req[r].addr
  IN  /\ req[r].phase = "verify"
      /\ Done(r)
      /\ streak' = [streak EXCEPT ![a] = IF @ < MaxAttempts THEN @ + 1 ELSE @]
      /\ attempts' = [attempts EXCEPT ![a] = Counted(@)]
      /\ late' = [late EXCEPT ![a] = 0]
      /\ UNCHANGED clock

\* The password was wrong. In a lockout nothing is counted.
RecordFailure(r) ==
  LET a == req[r].addr
  IN  /\ req[r].phase = "verify"
      /\ Done(r)
      /\ streak' = [streak EXCEPT ![a] = IF @ < MaxAttempts THEN @ + 1 ELSE @]
      /\ IF Locked(a)
         THEN /\ late' = [late EXCEPT ![a] = @ + 1]
              /\ UNCHANGED attempts
         ELSE /\ attempts' = [attempts EXCEPT ![a] = Counted(@)]
              /\ late' = [late EXCEPT ![a] = 0]
      /\ UNCHANGED clock

\* The password was right: the entry goes, a lockout with it.
RecordSuccess(r) ==
  LET a == req[r].addr
  IN  /\ req[r].phase = "verify"
      /\ Done(r)
      /\ attempts' = [attempts EXCEPT ![a] = Absent]
      /\ streak' = [streak EXCEPT ![a] = 0]
      /\ UNCHANGED <<clock, late>>

\* createPaste returns on an unreadable password file and records nothing.
VerifyError(r) ==
  /\ req[r].phase = "verify"
  /\ Done(r)
  /\ UNCHANGED <<clock, attempts, streak, late>>

\* The two tests of cleanup.
Stale(e) ==
  \/ clock > e.lockedUntil /\ e.count < MaxAttempts
  \/ clock > e.lockedUntil + CleanupPeriod

\* cleanupLoop: the first tick comes one period after the start.
Cleanup ==
  /\ clock >= Epoch + CleanupPeriod
  /\ attempts' = [a \in Addr |-> IF Stale(attempts[a]) THEN Absent ELSE attempts[a]]
  /\ UNCHANGED <<clock, req, streak, late>>

Tick ==
  /\ clock < MaxTime
  /\ clock' = clock + 1
  /\ UNCHANGED <<attempts, req, streak, late>>

-----------------------------------------------------------------------------
Next ==
  \/ \E r \in Req, a \in Addr : CheckBlocked(r, a)
  \/ \E r \in Req : RecordFailure(r) \/ RecordSuccess(r) \/ VerifyError(r)
  \/ Cleanup
  \/ Tick

Spec == Init /\ [][Next]_vars

-----------------------------------------------------------------------------
(***************************************************************************)
(* Properties                                                              *)
(***************************************************************************)

\* Every variable keeps its type, and a lock never outlasts lockoutTime.
TypeOK ==
  /\ clock \in Epoch..MaxTime
  /\ attempts \in [Addr -> [count : Nat, lockedUntil : 0..clock + Lockout]]
  /\ req \in [Req -> [phase : {"idle", "verify"}, addr : Addr]]
  /\ streak \in [Addr -> 0..MaxAttempts]
  /\ late \in [Addr -> Nat]

\* Nobody is locked out who has not failed maxAttempts times in a row,
\* whatever cleanup forgot and however outcomes were recorded out of order.
LockoutDeserved == \A a \in Addr : Locked(a) => streak[a] = MaxAttempts

\* A lockout neither ends early nor grows while it lasts, by failures that
\* are still coming in or by cleanup; only a successful login ends it.
LockoutKept ==
  [][\A a \in Addr : Locked(a) =>
       attempts'[a] = attempts[a] \/ streak'[a] = 0]_vars

\* Checking and recording are apart, so passwords are still tried in a
\* lockout: by requests that were under way when it began, and no others.
LateGuessesBounded ==
  \A a \in Addr :
    Locked(a) => late[a] + Cardinality({r \in Req : req[r].phase = "verify" /\ req[r].addr = a})
                   < Cardinality(Req)
=============================================================================
