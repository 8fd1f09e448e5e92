---------------------------- MODULE Credentials ----------------------------
(***************************************************************************)
(* The credentials of accounts: sessions (src/session), API tokens of      *)
(* users, organizations and administrators (src/token) and recovery keys   *)
(* (src/recovery, src/totp). The packages run one statement after the      *)
(* other with nothing held between them, so their calls interleave. The    *)
(* server itself calls the two cleanups; the rest is the packages'         *)
(* interface. Random tokens and keys are identities handed out once. A     *)
(* call that fails without a change is not a step.                         *)
(***************************************************************************)
EXTENDS Naturals, FiniteSets

CONSTANTS
  Owner,        \* users, organizations, administrators
  Cred,         \* random tokens and keys
  Caller,       \* calls under way at once
  KeyCount,     \* DefaultKeyCount (10)
  Duration,     \* of a session
  Never,        \* no expiry
  MaxClock      \* bound: horizon of the clock

ASSUME KeyAssumption   == KeyCount \in Nat \ {0}
ASSUME ClockAssumption == Duration \in Nat /\ MaxClock \in Nat /\ Never \notin Nat

VARIABLES
  now,      \* time.Now()
  row,      \* per credential: its row, with the table as its kind
  call,     \* per call: its statement and what it has read or made
  given,    \* history: credentials returned to their owner
  asked,    \* history: credentials their owner asked to end
  ended,    \* history: credentials of which that call has returned
  lapsed    \* history: credentials that were past their expiry once

credVars == <<now, row, call, given, asked, ended, lapsed>>

NoRow == [state |-> "none", kind |-> "none", owner |-> Never, expires |-> Never]
Gone  == [NoRow EXCEPT !.state = "gone"]
Quiet == [at |-> "idle", on |-> Never, time |-> 0, late |-> FALSE, made |-> {}, old |-> {}]

Live(kind, o, expires) == [state |-> "live", kind |-> kind, owner |-> o, expires |-> expires]

CredentialInit ==
  /\ now = 0
  /\ row = [c \in Cred |-> NoRow]
  /\ call = [k \in Caller |-> Quiet]
  /\ given = {}
  /\ asked = {}
  /\ ended = {}
  /\ lapsed = {}

\* The rows a statement finds by table and owner. A used key is still there.
Stored(c)      == row[c].state \in {"live", "used"}
Kind(kind)     == {c \in Cred : Stored(c) /\ row[c].kind = kind}
Rows(kind, o)  == {c \in Kind(kind) : row[c].owner = o}
Past(c, t)     == row[c].expires # Never /\ row[c].expires < t

Without(cs) == [c \in Cred |-> IF c \in cs /\ Stored(c) THEN Gone ELSE row[c]]
Stop(k)     == call' = [call EXCEPT ![k] = Quiet]

-----------------------------------------------------------------------------
(***************************************************************************)
(* Creation                                                                *)
(***************************************************************************)

Making(k, c) == call' = [call EXCEPT ![k] = [Quiet EXCEPT !.at = "return", !.made = {c}]]

\* session.Create
CreateSession(k, c, o) ==
  /\ call[k].at = "idle" /\ row[c] = NoRow
  /\ row' = [row EXCEPT ![c] = Live("session", o, now + Duration)]
  /\ Making(k, c)
  /\ UNCHANGED <<now, given, asked, ended, lapsed>>

\* CreateUserToken and CreateOrgToken: the caller chooses the expiry.
CreateToken(k, c, o, expires) ==
  /\ call[k].at = "idle" /\ row[c] = NoRow
  /\ row' = [row EXCEPT ![c] = Live("token", o, expires)]
  /\ lapsed' = IF expires # Never /\ expires < now THEN lapsed \cup {c} ELSE lapsed
  /\ Making(k, c)
  /\ UNCHANGED <<now, given, asked, ended>>

\* CreateAdminToken: one token per administrator, in the row of the account.
CreateAdminToken(k, c, o) ==
  /\ call[k].at = "idle" /\ row[c] = NoRow
  /\ row' = [Without(Rows("admin", o)) EXCEPT ![c] = Live("admin", o, Never)]
  /\ asked' = asked \cup Rows("admin", o)
  /\ ended' = ended \cup Rows("admin", o)
  /\ Making(k, c)
  /\ UNCHANGED <<now, given, lapsed>>

KeepsUnusedKeys(k, o) ==
  /\ call[k].at = "idle"
  /\ row' = Without({c \in Rows("key", o) : row[c].state = "used"})
  /\ call' = [call EXCEPT ![k] =
                [Quiet EXCEPT !.at = "insert", !.on = o, !.old = Rows("key", o)]]
  /\ asked' = asked \cup Rows("key", o)
  /\ UNCHANGED <<now, given, ended, lapsed>>

\* GenerateKeys, first statement.
GenerateKeys(k, o) ==
  /\ call[k].at = "idle"
  /\ row' = Without(Rows("key", o))
  /\ call' = [call EXCEPT ![k] =
                [Quiet EXCEPT !.at = "insert", !.on = o, !.old = Rows("key", o)]]
  /\ asked' = asked \cup Rows("key", o)
  /\ UNCHANGED <<now, given, ended, lapsed>>

\* One INSERT per key. When one fails nothing is returned: the old keys are
\* gone and the new ones known to nobody.
InsertKey(k, c) ==
  /\ call[k].at = "insert"
  /\ Cardinality(call[k].made) < KeyCount
  /\ row[c] = NoRow
  /\ row' = [row EXCEPT ![c] = Live("key", call[k].on, Never)]
  /\ call' = [call EXCEPT ![k].made = @ \cup {c}]
  /\ UNCHANGED <<now, given, asked, ended, lapsed>>

\* What was made is returned; the keys from before GenerateKeys are over.
Return(k) ==
  /\ \/ call[k].at = "return"
     \/ call[k].at = "insert" /\ Cardinality(call[k].made) = KeyCount
  /\ given' = given \cup call[k].made
  /\ ended' = ended \cup call[k].old
  /\ Stop(k)
  /\ UNCHANGED <<now, row, asked, lapsed>>

-----------------------------------------------------------------------------
(***************************************************************************)
(* Validation                                                              *)
(***************************************************************************)

\* What the tests of each validator make of the row its SELECT found: the
\* next statement. An expired token and a used key are refused. Nothing
\* disables or locks an administrator, so that test passes.
Validate(c, next) ==
  row[c].kind = "session" /\ next = IF Past(c, now) THEN "expire" ELSE "accept"

validateToken(c, next) == row[c].kind = "token" /\ ~Past(c, now) /\ next = "accept"

validateAdminToken(c, next) == row[c].kind = "admin" /\ next = "accept"

VerifyAndConsumeKey(c, next) == row[c].kind = "key" /\ next = "consume"

\* The SELECT of a validation.
Select(k, c) ==
  /\ call[k].at = "idle"
  /\ row[c].state = "live"
  /\ \E next \in {"expire", "accept", "consume"} :
       /\ \/ Validate(c, next) \/ validateToken(c, next)
          \/ validateAdminToken(c, next) \/ VerifyAndConsumeKey(c, next)
       /\ call' = [call EXCEPT ![k] =
                     [Quiet EXCEPT !.at = next, !.on = c, !.late = c \in ended]]
  /\ UNCHANGED <<now, row, given, asked, ended, lapsed>>

\* session.Validate deletes what it found expired.
Expire(k) ==
  /\ call[k].at = "expire"
  /\ row' = Without({call[k].on})
  /\ Stop(k)
  /\ UNCHANGED <<now, given, asked, ended, lapsed>>

\* VerifyAndConsumeKey, the UPDATE by id: it does not look whether the key
\* has been used meanwhile, or is still there.
Consume(k) ==
  LET c == call[k].on
  IN  /\ call[k].at = "consume"
      /\ row' = IF Stored(c) THEN [row EXCEPT ![c].state = "used"] ELSE row
      /\ asked' = asked \cup {c}
      /\ ended' = ended \cup {c}
      /\ call' = [call EXCEPT ![k].at = "accept"]
      /\ UNCHANGED <<now, given, lapsed>>

\* updateLastUsed, which no validation looks at, and the answer.
Accept(k) ==
  /\ call[k].at = "accept"
  /\ Stop(k)
  /\ UNCHANGED <<now, row, given, asked, ended, lapsed>>

-----------------------------------------------------------------------------
(***************************************************************************)
(* Revocation, extension, cleanup                                          *)
(***************************************************************************)

\* A DELETE that finds a row; one that finds none changes nothing.
Revoked(cs) ==
  /\ cs # {}
  /\ row' = Without(cs)
  /\ asked' = asked \cup cs
  /\ ended' = ended \cup cs
  /\ UNCHANGED <<now, call, given, lapsed>>

\* session.Delete and DeleteByID; RevokeUserToken and RevokeOrgToken, which
\* have the owner in their condition; RevokeAdminToken.
Revoke(o, c) == c \in Rows("session", o) \cup Rows("token", o) \cup Rows("admin", o) /\ Revoked({c})

\* DeleteAllExcept
DeleteAllExcept(o, c) == Revoked(Rows("session", o) \ {c})

\* DeleteAllForUser of sessions, DeleteAllKeys of recovery keys.
DeleteAllForUser(o) == \E kind \in {"session", "key"} : Revoked(Rows(kind, o))

\* Extend reads the time, then updates the row if it is there.
ExtendBegin(k, c) ==
  /\ call[k].at = "idle"
  /\ c \in Kind("session")
  /\ call' = [call EXCEPT ![k] = [Quiet EXCEPT !.at = "extend", !.on = c, !.time = now]]
  /\ UNCHANGED <<now, row, given, asked, ended, lapsed>>

Extend(k) ==
  LET c == call[k].on
  IN  /\ call[k].at = "extend"
      /\ row' = IF Stored(c) THEN [row EXCEPT ![c].expires = call[k].time + Duration] ELSE row
      /\ lapsed' = IF call[k].time + Duration < now THEN lapsed \cup {c} ELSE lapsed
      /\ Stop(k)
      /\ UNCHANGED <<now, given, asked, ended>>

\* CleanupExpired of sessions and of tokens, by the scheduler's two tasks: the
\* time is read, and the DELETE comes later.
CleanupBegin(k) ==
  /\ call[k].at = "idle"
  /\ call' = [call EXCEPT ![k] = [Quiet EXCEPT !.at = "cleanup", !.time = now]]
  /\ UNCHANGED <<now, row, given, asked, ended, lapsed>>

CleansLastSecond(k) ==
  /\ call[k].at = "cleanup"
  /\ \E kind \in {"session", "token"} :
       row' = Without({c \in Kind(kind) : Past(c, call[k].time + 1)})
  /\ Stop(k)
  /\ UNCHANGED <<now, given, asked, ended, lapsed>>

CleanupExpired(k) ==
  /\ call[k].at = "cleanup"
  /\ \E kind \in {"session", "token"} :
       row' = Without({c \in Kind(kind) : Past(c, call[k].time)})
  /\ Stop(k)
  /\ UNCHANGED <<now, given, asked, ended, lapsed>>

\* A statement fails or the process ends: the call goes no further.
CallEnds(k) ==
  /\ call[k].at \notin {"idle", "accept"}
  /\ Stop(k)
  /\ UNCHANGED <<now, row, given, asked, ended, lapsed>>

Pass ==
  /\ now < MaxClock
  /\ now' = now + 1
  /\ lapsed' = lapsed \cup {c \in Cred : row[c].state = "live" /\ Past(c, now + 1)}
  /\ UNCHANGED <<row, call, given, asked, ended>>

-----------------------------------------------------------------------------
Creation(k) ==
  \/ \E c \in Cred, o \in Owner :
       \/ CreateSession(k, c, o)
       \/ \E expires \in {Never} \cup 0..MaxClock : CreateToken(k, c, o, expires)
       \/ CreateAdminToken(k, c, o)
  \/ \E o \in Owner : GenerateKeys(k, o)
  \/ \E c \in Cred : InsertKey(k, c)
  \/ Return(k)

Validation(k) == (\E c \in Cred : Select(k, c)) \/ Expire(k) \/ Consume(k) \/ Accept(k)

Revocation ==
  \/ \E o \in Owner, c \in Cred : Revoke(o, c) \/ DeleteAllExcept(o, c)
  \/ \E o \in Owner : DeleteAllForUser(o)

CredentialNext ==
  \/ \E k \in Caller :
       \/ Creation(k) \/ Validation(k)
       \/ (\E c \in Cred : ExtendBegin(k, c)) \/ Extend(k)
       \/ CleanupBegin(k) \/ CleanupExpired(k)
       \/ CallEnds(k)
  \/ Revocation
  \/ Pass

CredentialSpec == CredentialInit /\ [][CredentialNext]_credVars

-----------------------------------------------------------------------------
(***************************************************************************)
(* Properties                                                              *)
(***************************************************************************)

Row == [state : {"none", "live", "used", "gone"},
        kind : {"none", "session", "token", "admin", "key"},
        owner : Owner \cup {Never}, expires : Nat \cup {Never}]

CallTypeOK(k) ==
  /\ DOMAIN call[k] = DOMAIN Quiet
  /\ call[k].at \in {"idle", "return", "insert", "expire", "consume", "accept", "extend",
                     "cleanup"}
  /\ call[k].on \in Owner \cup Cred \cup {Never}
  /\ call[k].time \in 0..MaxClock
  /\ call[k].late \in BOOLEAN
  /\ call[k].made \subseteq Cred
  /\ call[k].old \subseteq Cred

\* Every variable keeps its type.
CredentialTypeOK ==
  /\ now \in 0..MaxClock
  /\ row \in [Cred -> Row]
  /\ DOMAIN call = Caller
  /\ \A k \in Caller : CallTypeOK(k)
  /\ given \subseteq Cred /\ asked \subseteq Cred /\ ended \subseteq Cred /\ lapsed \subseteq Cred

\* No validation that begins after a credential was revoked, replaced or
\* consumed, by a call that has returned, accepts it: no overlapping
\* extension, cleanup or creation brings it back (session.Validate,
\* token.Validate, VerifyAndConsumeKey).
NoLateAcceptance == \A k \in Caller : call[k].at = "accept" => ~call[k].late

\* A credential that was returned to its owner and never ran out keeps being
\* accepted until its owner asks to end it: neither the cleanups nor calls
\* for other credentials or other owners take it away (session, token and
\* recovery services).
GivenIsGood ==
  \A c \in given : c \notin asked \cup lapsed => row[c].state = "live"
=============================================================================
