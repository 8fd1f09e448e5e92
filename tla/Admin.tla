-------------------------------- MODULE Admin --------------------------------
(***************************************************************************)
(* The administration panel, src/admin: the setup token of the first start,*)
(* invites, administrator accounts, their sessions and API token rows. A   *)
(* handler runs one database statement after the other with nothing held   *)
(* in between, so the requests interleave at every statement; the process  *)
(* may end at any time and start again on the same database.               *)
(* Random tokens are identities that are handed out once. A request that   *)
(* the code refuses before it changed anything is not a step.              *)
(***************************************************************************)
EXTENDS Integers, FiniteSets

CONSTANTS
  Name,             \* usernames
  Req,              \* requests handled at once
  Sess,             \* session tokens
  Invite,           \* invite tokens
  Token,            \* rows of admin_tokens
  None,             \* no row, no value
  Gone,             \* a row that was deleted
  SetupTTL,         \* life of a setup token (1 hour)
  SessionDuration,  \* adminSessionDuration (30 days)
  InviteTTL,        \* the lives an invite can be given
  MaxBoots,         \* bound: starts of the process
  MaxTime           \* bound: horizon of the clock

ASSUME NameAssumption  == Name # {} /\ IsFiniteSet(Name) /\ IsFiniteSet(Req)
ASSUME TTLAssumption   == /\ SetupTTL \in Nat /\ SessionDuration \in Nat
                          /\ InviteTTL \subseteq Nat
ASSUME BoundAssumption == MaxBoots \in Nat \ {0} /\ MaxTime \in Nat
ASSUME NoneAssumption  ==
  None # Gone /\ {None, Gone} \cap (Name \cup Sess \cup Invite) = {} /\ None \notin Nat

VARIABLES
  clock,      \* time.Now()
  boots,      \* starts so far; the setup token of a start is its number
  panel,      \* Panel: setupToken (0 is ""), setupExpiry, setupDone
  admins,     \* table admins: per username, what its row came from
  sessions,   \* table admin_sessions
  invites,    \* table admin_invites
  tokens,     \* table admin_tokens
  req,        \* per request: the statement it is at and what it carries
  loggedOut   \* history: sessions whose holder has logged out

vars == <<clock, boots, panel, admins, sessions, invites, tokens, req, loggedOut>>

Idle == [at |-> "idle", key |-> None, name |-> None]

\* A row of admins, with the setup token or the invite it was created by and
\* whether the request that created it has been told so.
Account(via, key) == [via |-> via, key |-> key]

NoAdmin   == Account("none", None)
NoSession == [state |-> "none", admin |-> None, expires |-> 0]
GoneSession == [NoSession EXCEPT !.state = "gone"]
NoInvite  == [state |-> "none", expires |-> 0]

Exists(n)  == admins[n] # NoAdmin
Present(s) == sessions[s].state = "live"
\* The test of validateAdminSession.
Expired(s) == clock > sessions[s].expires

\* The condition of the lookup and of the conditional update alike.
Active(i) == invites[i].state = "open" /\ invites[i].expires > clock

Goto(r, at) == req' = [req EXCEPT ![r].at = at]
Finish(r)   == req' = [req EXCEPT ![r] = Idle]

-----------------------------------------------------------------------------
(***************************************************************************)
(* Start and setup                                                         *)
(***************************************************************************)

\* MaybeGenerateSetupToken. A failed count is taken for "no administrator".
MaybeGenerateSetupToken(countFails, token) ==
  IF ~countFails /\ \E n \in Name : Exists(n)
  THEN [token |-> 0, expiry |-> 0, done |-> TRUE]
  ELSE [token |-> token, expiry |-> clock + SetupTTL, done |-> FALSE]

\* The process ends, wherever its requests are, and starts again.
Restart ==
  /\ boots < MaxBoots
  /\ boots' = boots + 1
  /\ \E countFails \in BOOLEAN : panel' = MaybeGenerateSetupToken(countFails, boots + 1)
  /\ req' = [r \in Req |-> Idle]
  /\ UNCHANGED <<clock, admins, sessions, invites, tokens, loggedOut>>

isSetupNeeded == ~panel.done /\ panel.token # 0

peekSetupToken(t) == t # 0 /\ panel.token = t /\ clock < panel.expiry

\* handleSetup, up to the INSERT: the token is looked at, not taken.
SetupPeek(r, t, n) ==
  /\ req[r].at = "idle"
  /\ isSetupNeeded
  /\ peekSetupToken(t)
  /\ req' = [req EXCEPT ![r] = [at |-> "setupCreate", key |-> t, name |-> n]]
  /\ UNCHANGED <<clock, boots, panel, admins, sessions, invites, tokens, loggedOut>>

\* The token goes first and the account is created later.
ConsumesFirst(r) ==
  /\ req[r].at = "setupCreate"
  /\ panel' = [panel EXCEPT !.token = 0, !.done = TRUE]
  /\ \/ /\ ~Exists(req[r].name)
        /\ admins' = [admins EXCEPT ![req[r].name] = Account("setup", req[r].key)]
        /\ Goto(r, "setupConsume")
     \/ /\ Finish(r)
        /\ UNCHANGED admins
  /\ UNCHANGED <<clock, boots, sessions, invites, tokens, loggedOut>>

\* CreateAdmin; usernames are unique. A failure leaves the token for another
\* try, also when the INSERT did take effect and only its answer was lost or
\* came after the 10 s of the statement: such a row is "unreported".
SetupCreate(r) ==
  /\ req[r].at = "setupCreate"
  /\ \/ /\ ~Exists(req[r].name)
        /\ admins' = [admins EXCEPT ![req[r].name] = Account("setup", req[r].key)]
        /\ Goto(r, "setupConsume")
     \/ /\ ~Exists(req[r].name)
        /\ admins' = [admins EXCEPT ![req[r].name] = Account("unreported", req[r].key)]
        /\ Finish(r)
     \/ /\ Finish(r)
        /\ UNCHANGED admins
  /\ UNCHANGED <<clock, boots, panel, sessions, invites, tokens, loggedOut>>

KeepsToken(r) ==
  /\ req[r].at = "setupConsume"
  /\ panel' = IF panel.token = req[r].key /\ clock <= panel.expiry
              THEN [panel EXCEPT !.done = FALSE]
              ELSE panel
  /\ Finish(r)
  /\ UNCHANGED <<clock, boots, admins, sessions, invites, tokens, loggedOut>>

\* consumeSetupToken: another request may have been faster, or the hour is
\* over by now; the account stays in either case.
SetupConsume(r) ==
  /\ req[r].at = "setupConsume"
  /\ panel' = IF panel.token = req[r].key /\ clock <= panel.expiry
              THEN [token |-> 0, expiry |-> panel.expiry, done |-> TRUE]
              ELSE panel
  /\ Finish(r)
  /\ UNCHANGED <<clock, boots, admins, sessions, invites, tokens, loggedOut>>

-----------------------------------------------------------------------------
(***************************************************************************)
(* Invites                                                                 *)
(***************************************************************************)

\* handleAdminInviteAccept: getAdminInviteByToken and the checks of the form.
InviteLookup(r, i, n) ==
  /\ req[r].at = "idle"
  /\ Active(i)
  /\ req' = [req EXCEPT ![r] = [at |-> "inviteMark", key |-> i, name |-> n]]
  /\ UNCHANGED <<clock, boots, panel, admins, sessions, invites, tokens, loggedOut>>

MarksAnyway(r) ==
  /\ req[r].at = "inviteMark"
  /\ invites' = [invites EXCEPT ![req[r].key].state = "used"]
  /\ Goto(r, "inviteInsert")
  /\ UNCHANGED <<clock, boots, panel, admins, sessions, tokens, loggedOut>>

\* acceptAdminInvite, first statement. The UPDATE tests again what the
\* lookup saw, so one of several requests goes on; none does when it took
\* effect and its answer was an error.
InviteMark(r) ==
  /\ req[r].at = "inviteMark"
  /\ \/ /\ Active(req[r].key)
        /\ invites' = [invites EXCEPT ![req[r].key].state = "used"]
        /\ Goto(r, "inviteInsert")
     \/ /\ Active(req[r].key)
        /\ invites' = [invites EXCEPT ![req[r].key].state = "used"]
        /\ Finish(r)
     \/ /\ Finish(r)
        /\ UNCHANGED invites
  /\ UNCHANGED <<clock, boots, panel, admins, sessions, tokens, loggedOut>>

\* acceptAdminInvite, second statement. When it fails the invite stays used.
InviteInsert(r) ==
  /\ req[r].at = "inviteInsert"
  /\ \/ /\ ~Exists(req[r].name)
        /\ admins' = [admins EXCEPT ![req[r].name] = Account("invite", req[r].key)]
     \/ UNCHANGED admins
  /\ Finish(r)
  /\ UNCHANGED <<clock, boots, panel, sessions, invites, tokens, loggedOut>>

-----------------------------------------------------------------------------
(***************************************************************************)
(* Sessions                                                                *)
(***************************************************************************)

\* handleLoginPost: VerifyPassword of an existing account, password right.
VerifyPassword(r, n) ==
  /\ req[r].at = "idle"
  /\ Exists(n)
  /\ req' = [req EXCEPT ![r] = [at |-> "login", key |-> None, name |-> n]]
  /\ UNCHANGED <<clock, boots, panel, admins, sessions, invites, tokens, loggedOut>>

\* createAdminSession, whose INSERT may fail, and updateLastLogin, which only
\* the profile page shows.
createAdminSession(r, s) ==
  /\ req[r].at = "login"
  /\ sessions[s].state = "none"
  /\ \/ sessions' = [sessions EXCEPT ![s] =
                       [state |-> "live", admin |-> req[r].name, expires |-> clock + SessionDuration]]
     \/ UNCHANGED sessions
  /\ Finish(r)
  /\ UNCHANGED <<clock, boots, panel, admins, invites, tokens, loggedOut>>

\* requireAuth: validateAdminSession reads the row and tests its expiry.
validateAdminSession(r, s) ==
  /\ req[r].at = "idle"
  /\ Present(s)
  /\ req' = [req EXCEPT ![r] =
               [at |-> IF Expired(s) THEN "expire" ELSE "lookup", key |-> s,
                name |-> sessions[s].admin]]
  /\ UNCHANGED <<clock, boots, panel, admins, sessions, invites, tokens, loggedOut>>

\* The DELETE statements: a row that is not there stays not there.
Deleted(s) ==
  sessions' = [sessions EXCEPT ![s] = IF Present(s) THEN GoneSession ELSE @]

\* validateAdminSession deletes the row it found expired; it ignores an error.
ExpireSession(r) ==
  /\ req[r].at = "expire"
  /\ Deleted(req[r].key) \/ UNCHANGED sessions
  /\ Finish(r)
  /\ UNCHANGED <<clock, boots, panel, admins, invites, tokens, loggedOut>>

\* requireAuth: getAdminByID. Rows of admins are never deleted, but an
\* error of the query is taken for a missing row and costs the session.
LookupAdmin(r) ==
  /\ req[r].at = "lookup"
  /\ \/ /\ Goto(r, "authed")
        /\ UNCHANGED sessions
     \/ /\ Deleted(req[r].key) \/ UNCHANGED sessions
        /\ Finish(r)
  /\ UNCHANGED <<clock, boots, panel, admins, invites, tokens, loggedOut>>

\* handleLogout is served under /server/auth, outside the Path of the cookie:
\* a browser does not send it, and then there is no row to delete. When it is
\* sent and the DELETE fails, the row stays as well.
Logout(s, sent) ==
  /\ Present(s)
  /\ IF sent THEN Deleted(s) ELSE UNCHANGED sessions
  /\ loggedOut' = loggedOut \cup {s}
  /\ UNCHANGED <<clock, boots, panel, admins, invites, tokens, req>>

CleansLastSecond ==
  /\ sessions' = [s \in Sess |-> IF Present(s) /\ sessions[s].expires <= clock
                                 THEN GoneSession ELSE sessions[s]]
  /\ sessions' # sessions
  /\ UNCHANGED <<clock, boots, panel, admins, invites, tokens, req, loggedOut>>

\* Nothing calls it; expired rows go only when they are presented again.
CleanupExpiredSessions ==
  /\ sessions' = [s \in Sess |-> IF Present(s) /\ sessions[s].expires < clock
                                 THEN GoneSession ELSE sessions[s]]
  /\ sessions' # sessions
  /\ UNCHANGED <<clock, boots, panel, admins, invites, tokens, req, loggedOut>>

-----------------------------------------------------------------------------
(***************************************************************************)
(* What an authenticated request does                                      *)
(***************************************************************************)

\* Pages that only read, and forms that are not implemented yet; the
\* panel's "revoke" form is one of them.
ServePage(r) ==
  /\ req[r].at = "authed"
  /\ Finish(r)
  /\ UNCHANGED <<clock, boots, panel, admins, sessions, invites, tokens, loggedOut>>

\* The calls of the admin API that change nothing here: status, settings,
\* metrics and the task list are read, settings cannot be patched, and a
\* task that is run now is the scheduler's (Scheduler!RunNow).
ServeAPI(r) ==
  /\ req[r].at = "authed"
  /\ Finish(r)
  /\ UNCHANGED <<clock, boots, panel, admins, sessions, invites, tokens, loggedOut>>

createAdminInvite(r, i, ttl) ==
  /\ req[r].at = "authed"
  /\ invites[i].state = "none"
  /\ invites' = [invites EXCEPT ![i] = [state |-> "open", expires |-> clock + ttl]]
  /\ Finish(r)
  /\ UNCHANGED <<clock, boots, panel, admins, sessions, tokens, loggedOut>>

createToken(r, t) ==
  /\ req[r].at = "authed"
  /\ tokens[t] = None
  /\ tokens' = [tokens EXCEPT ![t] = req[r].name]
  /\ Finish(r)
  /\ UNCHANGED <<clock, boots, panel, admins, sessions, invites, loggedOut>>

\* apiRevokeToken deletes any row by its id, whoever it belongs to.
revokeToken(r, t) ==
  /\ req[r].at = "authed"
  /\ tokens[t] \in Name
  /\ tokens' = [tokens EXCEPT ![t] = Gone]
  /\ Finish(r)
  /\ UNCHANGED <<clock, boots, panel, admins, sessions, invites, loggedOut>>

Tick ==
  /\ clock < MaxTime
  /\ clock' = clock + 1
  /\ UNCHANGED <<boots, panel, admins, sessions, invites, tokens, req, loggedOut>>

-----------------------------------------------------------------------------
Init ==
  /\ clock = 0
  /\ boots = 1
  /\ panel = [token |-> 1, expiry |-> SetupTTL, done |-> FALSE]
  /\ admins = [n \in Name |-> NoAdmin]
  /\ sessions = [s \in Sess |-> NoSession]
  /\ invites = [i \in Invite |-> NoInvite]
  /\ tokens = [t \in Token |-> None]
  /\ req = [r \in Req |-> Idle]
  /\ loggedOut = {}

Setup(r) ==
  \/ \E t \in 1..MaxBoots, n \in Name : SetupPeek(r, t, n)
  \/ SetupCreate(r)
  \/ SetupConsume(r)

AcceptInvite(r) ==
  \/ \E i \in Invite, n \in Name : InviteLookup(r, i, n)
  \/ InviteMark(r)
  \/ InviteInsert(r)

Login(r) ==
  \/ \E n \in Name : VerifyPassword(r, n)
  \/ \E s \in Sess : createAdminSession(r, s)

Authenticated(r) ==
  \/ \E s \in Sess : validateAdminSession(r, s)
  \/ ExpireSession(r)
  \/ LookupAdmin(r)
  \/ ServePage(r) \/ ServeAPI(r)
  \/ \E i \in Invite, ttl \in InviteTTL : createAdminInvite(r, i, ttl)
  \/ \E t \in Token : createToken(r, t) \/ revokeToken(r, t)

Next ==
  \/ \E r \in Req : Setup(r) \/ AcceptInvite(r) \/ Login(r) \/ Authenticated(r)
  \/ \E s \in Sess, sent \in BOOLEAN : Logout(s, sent)
  \/ CleanupExpiredSessions
  \/ Restart
  \/ Tick

Spec == Init /\ [][Next]_vars

-----------------------------------------------------------------------------
(***************************************************************************)
(* Properties                                                              *)
(***************************************************************************)

\* A request past "idle" carries what its next statement needs.
Request ==
  {Idle}
  \cup [at : {"setupCreate", "setupConsume"}, key : 1..boots, name : Name]
  \cup [at : {"inviteMark", "inviteInsert"}, key : Invite, name : Name]
  \cup [at : {"login"}, key : {None}, name : Name]
  \cup [at : {"expire", "lookup", "authed"}, key : Sess, name : Name]

\* Every variable keeps its type.
TypeOK ==
  /\ clock \in 0..MaxTime
  /\ boots \in 1..MaxBoots
  /\ panel \in [token : 0..boots, expiry : Nat, done : BOOLEAN]
  /\ admins \in [Name -> {NoAdmin} \cup [via : {"setup", "unreported"}, key : 1..boots]
                                 \cup [via : {"invite"}, key : Invite]]
  /\ sessions \in [Sess -> {NoSession, GoneSession}
                            \cup [state : {"live"}, admin : Name, expires : Nat]]
  /\ invites \in [Invite -> [state : {"none", "open", "used"}, expires : Nat]]
  /\ tokens \in [Token -> {None, Gone} \cup Name]
  /\ req \in [Req -> Request]
  /\ loggedOut \subseteq Sess

\* An invite makes one administrator at most, however many requests accept
\* it at once and wherever the process ends between the two statements.
InviteOnce ==
  \A m, n \in Name : \A i \in Invite :
    admins[m] = Account("invite", i) /\ admins[n] = Account("invite", i) => m = n

SetupAdmins(t) == {n \in Name : admins[n] = Account("setup", t)}
Creating(t)    == {r \in Req : req[r].at = "setupCreate" /\ req[r].key = t}

\* The setup token is taken only after the account exists, so requests that
\* overlap make an administrator each. Those that are told they did are never
\* more than requests handled at once, whether the token is consumed or runs
\* out; an account nobody was told of leaves the token for the next request
\* and comes on top, one for every INSERT that took effect with an error.
SetupOverlapBounded ==
  \A t \in 1..MaxBoots :
    Cardinality(SetupAdmins(t)) + Cardinality(Creating(t)) <= Cardinality(Req)

\* Setup is over only when there is an administrator: failed inserts, lost
\* races and restarts never leave a server nobody can administer.
SetupLeavesAnAdmin == panel.done => \E n \in Name : Exists(n)

\* A session row that would still be accepted goes only when its holder
\* logs out or the lookup of the account fails: neither the deletion of a
\* row found expired a while ago nor the cleanup takes a live one.
SessionKept ==
  [][\A s \in Sess :
       Present(s) /\ ~Present(s)' /\ ~Expired(s)
         => \/ s \in loggedOut'
            \/ \E r \in Req : req[r].at = "lookup" /\ req[r].key = s]_vars
=============================================================================
