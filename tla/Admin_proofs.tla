---------------------------- MODULE Admin_proofs ----------------------------
(***************************************************************************)
(* Proofs about Admin, for any accounts, invites, sessions and number of   *)
(* concurrent requests, and for any lives of the tokens.                   *)
(***************************************************************************)
EXTENDS Admin, FiniteSetTheorems, TLAPS

\* The requests that have created an account and not yet taken the token.
Consuming(t) == {r \in Req : req[r].at = "setupConsume" /\ req[r].key = t}

\* An invite that made an account is used up, and so is one that a request
\* is about to make an account with: that request is alone, and first.
InviteShown ==
  /\ \A n \in Name, i \in Invite :
       admins[n] = Account("invite", i) => invites[i].state = "used"
  /\ \A r \in Req : req[r].at = "inviteInsert" =>
       /\ invites[req[r].key].state = "used"
       /\ \A n \in Name : admins[n] # Account("invite", req[r].key)
       /\ \A q \in Req :
            req[q].at = "inviteInsert" /\ req[q].key = req[r].key => q = r

\* As long as the token can still be peeked at, every account it made
\* belongs to a request that is about to take it.
SetupShown ==
  \A t \in 1..MaxBoots :
    peekSetupToken(t) => Cardinality(SetupAdmins(t)) <= Cardinality(Consuming(t))

\* A request that takes the token has its account in the table.
CreatedFirst ==
  \A r \in Req : req[r].at = "setupConsume" => Exists(req[r].name)

\* A row that a request is about to delete as expired was there, and is
\* still expired unless another request deleted it first.
ExpireShown ==
  \A r \in Req : req[r].at = "expire" =>
    /\ sessions[req[r].key].state # "none"
    /\ Present(req[r].key) => Expired(req[r].key)

Inv ==
  /\ TypeOK
  /\ InviteShown /\ InviteOnce
  /\ SetupShown /\ SetupOverlapBounded
  /\ CreatedFirst /\ SetupLeavesAnAdmin
  /\ ExpireShown


-----------------------------------------------------------------------------
(***************************************************************************)
(* Types                                                                   *)
(***************************************************************************)

\* What a request carries, by the statement it is at.
LEMMA Carried ==
  ASSUME TypeOK, NEW r \in Req
  PROVE  /\ req[r] = [at |-> req[r].at, key |-> req[r].key, name |-> req[r].name]
         /\ req[r].at \in {"setupCreate", "setupConsume"} => req[r].key \in 1..boots
         /\ req[r].at \in {"inviteMark", "inviteInsert"} => req[r].key \in Invite
         /\ req[r].at \in {"expire", "lookup", "authed"} => req[r].key \in Sess
         /\ req[r].at # "idle" => req[r].name \in Name
<1>1. req[r] \in Request
  BY DEF TypeOK
<1> QED BY <1>1 DEF Request, Idle

\* A step of one request leaves the others where they are.
LEMMA OneMoves ==
  ASSUME TypeOK, NEW r \in Req, NEW v, req' = [req EXCEPT ![r] = v]
  PROVE  /\ req'[r] = v
         /\ \A q \in Req : q # r => req'[q] = req[q]
         /\ v \in Request => req' \in [Req -> Request]
BY DEF TypeOK

\* Finish and Goto as steps of one request.
LEMMA FinishMoves ==
  ASSUME TypeOK, NEW r \in Req, Finish(r)
  PROVE  /\ req'[r] = Idle /\ req'[r].at = "idle"
         /\ \A q \in Req : q # r => req'[q] = req[q]
         /\ req' \in [Req -> Request]
<1>1. Idle \in Request /\ Idle.at = "idle"
  BY DEF Request, Idle
<1> QED BY <1>1, OneMoves DEF Finish

\* Goto moves one request to another statement.
LEMMA GotoMoves ==
  ASSUME TypeOK, NEW r \in Req, NEW at, Goto(r, at)
  PROVE  /\ req'[r] = [at |-> at, key |-> req[r].key, name |-> req[r].name]
         /\ \A q \in Req : q # r => req'[q] = req[q]
         /\ req'[r] \in Request => req' \in [Req -> Request]
<1>1. req' = [req EXCEPT ![r] = [req[r] EXCEPT !.at = at]]
  BY DEF Goto, TypeOK
<1>2. [req[r] EXCEPT !.at = at] = [at |-> at, key |-> req[r].key, name |-> req[r].name]
  <2>1. PICK a, k, n : req[r] = [at |-> a, key |-> k, name |-> n]
    BY Carried
  <2> QED BY <2>1
<1> QED BY <1>1, <1>2, OneMoves

\* The setup of the first account keeps the types.
LEMMA SetupType ==
  ASSUME TypeOK, NEW r \in Req, Setup(r)
  PROVE  TypeOK'
<1>1. ASSUME NEW t \in 1..MaxBoots, NEW n \in Name, SetupPeek(r, t, n)
      PROVE  TypeOK'
  <2>1. t \in 1..boots
    BY <1>1 DEF SetupPeek, peekSetupToken, TypeOK
  <2>2. [at |-> "setupCreate", key |-> t, name |-> n] \in Request
    BY <2>1 DEF Request
  <2>3. req' \in [Req -> Request]
    BY <1>1, <2>2, OneMoves DEF SetupPeek
  <2> QED BY <1>1, <2>3 DEF SetupPeek, TypeOK, Request
<1>2. CASE SetupCreate(r)
  <2>1. req[r].key \in 1..boots /\ req[r].name \in Name
    BY <1>2, Carried DEF SetupCreate
  <2>2. CASE /\ ~Exists(req[r].name)
             /\ admins' = [admins EXCEPT ![req[r].name] = Account("setup", req[r].key)]
             /\ Goto(r, "setupConsume")
    <3>1. [at |-> "setupConsume", key |-> req[r].key, name |-> req[r].name] \in Request
      BY <2>1 DEF Request
    <3>2. req' \in [Req -> Request]
      BY <2>2, <3>1, GotoMoves
    <3>3. Account("setup", req[r].key) \in [via : {"setup", "unreported"}, key : 1..boots]
      BY <2>1 DEF Account
    <3> QED BY <1>2, <2>2, <3>2, <3>3 DEF SetupCreate, TypeOK, Request
  <2>3. CASE Finish(r) /\ UNCHANGED admins
    <3>1. req' \in [Req -> Request]
      BY <2>3, FinishMoves
    <3> QED BY <1>2, <2>3, <3>1 DEF SetupCreate, TypeOK, Request
  <2>4. CASE /\ admins' = [admins EXCEPT ![req[r].name] = Account("unreported", req[r].key)]
             /\ Finish(r)
    <3>1. req' \in [Req -> Request]
      BY <2>4, FinishMoves
    <3>2. Account("unreported", req[r].key) \in [via : {"setup", "unreported"}, key : 1..boots]
      BY <2>1 DEF Account
    <3> QED BY <1>2, <2>4, <3>1, <3>2 DEF SetupCreate, TypeOK, Request
  <2> QED BY <1>2, <2>2, <2>3, <2>4 DEF SetupCreate
<1>3. CASE SetupConsume(r)
  <2>1. req' \in [Req -> Request]
    BY <1>3, FinishMoves DEF SetupConsume
  <2>2. panel' \in [token : 0..boots, expiry : Nat, done : BOOLEAN]
    <3>1. boots \in Nat /\ panel \in [token : 0..boots, expiry : Nat, done : BOOLEAN]
      BY BoundAssumption DEF TypeOK
    <3>2. [token |-> 0, expiry |-> panel.expiry, done |-> TRUE]
            \in [token : 0..boots, expiry : Nat, done : BOOLEAN]
      BY <3>1
    <3> QED BY <1>3, <3>1, <3>2 DEF SetupConsume
  <2> QED BY <1>3, <2>1, <2>2 DEF SetupConsume, TypeOK, Request
<1> QED BY <1>1, <1>2, <1>3 DEF Setup

\* Accepting an invite keeps the types.
LEMMA InviteType ==
  ASSUME TypeOK, NEW r \in Req, AcceptInvite(r)
  PROVE  TypeOK'
<1>1. ASSUME NEW i \in Invite, NEW n \in Name, InviteLookup(r, i, n)
      PROVE  TypeOK'
  <2>1. [at |-> "inviteMark", key |-> i, name |-> n] \in Request
    BY DEF Request
  <2>2. req' \in [Req -> Request]
    BY <1>1, <2>1, OneMoves DEF InviteLookup
  <2> QED BY <1>1, <2>2 DEF InviteLookup, TypeOK, Request
<1>2. CASE InviteMark(r)
  <2>1. req[r].key \in Invite /\ req[r].name \in Name
    BY <1>2, Carried DEF InviteMark
  <2>2. CASE /\ Active(req[r].key)
             /\ invites' = [invites EXCEPT ![req[r].key].state = "used"]
             /\ Goto(r, "inviteInsert")
    <3>1. [at |-> "inviteInsert", key |-> req[r].key, name |-> req[r].name] \in Request
      BY <2>1 DEF Request
    <3>2. req' \in [Req -> Request]
      BY <2>2, <3>1, GotoMoves
    <3>3. invites' \in [Invite -> [state : {"none", "open", "used"}, expires : Nat]]
      BY <2>1, <2>2 DEF TypeOK
    <3> QED BY <1>2, <2>2, <3>2, <3>3 DEF InviteMark, TypeOK, Request
  <2>3. CASE Finish(r) /\ UNCHANGED invites
    <3>1. req' \in [Req -> Request]
      BY <2>3, FinishMoves
    <3> QED BY <1>2, <2>3, <3>1 DEF InviteMark, TypeOK, Request
  <2>4. CASE /\ invites' = [invites EXCEPT ![req[r].key].state = "used"]
             /\ Finish(r)
    <3>1. req' \in [Req -> Request]
      BY <2>4, FinishMoves
    <3>2. invites' \in [Invite -> [state : {"none", "open", "used"}, expires : Nat]]
      BY <2>1, <2>4 DEF TypeOK
    <3> QED BY <1>2, <2>4, <3>1, <3>2 DEF InviteMark, TypeOK, Request
  <2> QED BY <1>2, <2>2, <2>3, <2>4 DEF InviteMark
<1>3. CASE InviteInsert(r)
  <2>1. req[r].key \in Invite /\ req[r].name \in Name
    BY <1>3, Carried DEF InviteInsert
  <2>2. req' \in [Req -> Request]
    BY <1>3, FinishMoves DEF InviteInsert
  <2>3. Account("invite", req[r].key) \in [via : {"invite"}, key : Invite]
    BY <2>1 DEF Account
  <2>4. admins' \in [Name -> {NoAdmin} \cup [via : {"setup", "unreported"}, key : 1..boots]
                                        \cup [via : {"invite"}, key : Invite]]
    BY <1>3, <2>1, <2>3 DEF InviteInsert, TypeOK
  <2> QED BY <1>3, <2>2, <2>4 DEF InviteInsert, TypeOK, Request
<1> QED BY <1>1, <1>2, <1>3 DEF AcceptInvite

\* A deleted row, and a row that was not there, is a row of the table.
LEMMA DeletedType ==
  ASSUME TypeOK, NEW s \in Sess, Deleted(s)
  PROVE  /\ sessions' \in [Sess -> {NoSession, GoneSession}
                             \cup [state : {"live"}, admin : Name, expires : Nat]]
         /\ \A u \in Sess : u # s => sessions'[u] = sessions[u]
         /\ sessions'[s] = IF Present(s) THEN GoneSession ELSE sessions[s]
BY DEF TypeOK, Deleted

\* Logging in keeps the types.
LEMMA LoginType ==
  ASSUME TypeOK, NEW r \in Req, Login(r)
  PROVE  TypeOK'
<1>1. ASSUME NEW n \in Name, VerifyPassword(r, n)
      PROVE  TypeOK'
  <2>1. [at |-> "login", key |-> None, name |-> n] \in Request
    BY DEF Request
  <2>2. req' \in [Req -> Request]
    BY <1>1, <2>1, OneMoves DEF VerifyPassword
  <2> QED BY <1>1, <2>2 DEF VerifyPassword, TypeOK, Request
<1>2. ASSUME NEW s \in Sess, createAdminSession(r, s)
      PROVE  TypeOK'
  <2>1. req[r].name \in Name
    BY <1>2, Carried DEF createAdminSession
  <2>2. req' \in [Req -> Request]
    BY <1>2, FinishMoves DEF createAdminSession
  <2>3. clock + SessionDuration \in Nat
    BY TTLAssumption, BoundAssumption DEF TypeOK
  <2>4. [state |-> "live", admin |-> req[r].name, expires |-> clock + SessionDuration]
          \in [state : {"live"}, admin : Name, expires : Nat]
    BY <2>1, <2>3
  <2>5. sessions' \in [Sess -> {NoSession, GoneSession}
                         \cup [state : {"live"}, admin : Name, expires : Nat]]
    BY <1>2, <2>4 DEF createAdminSession, TypeOK
  <2> QED BY <1>2, <2>2, <2>5 DEF createAdminSession, TypeOK, Request
<1> QED BY <1>1, <1>2 DEF Login

\* What a session is used for keeps the types.
LEMMA AuthenticatedType ==
  ASSUME TypeOK, NEW r \in Req, Authenticated(r)
  PROVE  TypeOK'
<1>1. ASSUME NEW s \in Sess, validateAdminSession(r, s)
      PROVE  TypeOK'
  <2>1. sessions[s].admin \in Name
    BY <1>1 DEF validateAdminSession, Present, TypeOK, NoSession, GoneSession
  <2>2. [at |-> IF Expired(s) THEN "expire" ELSE "lookup", key |-> s,
         name |-> sessions[s].admin] \in Request
    BY <2>1 DEF Request
  <2>3. req' \in [Req -> Request]
    BY <1>1, <2>2, OneMoves DEF validateAdminSession
  <2> QED BY <1>1, <2>3 DEF validateAdminSession, TypeOK, Request
<1>2. CASE ExpireSession(r)
  <2>1. req[r].key \in Sess
    BY <1>2, Carried DEF ExpireSession
  <2>2. req' \in [Req -> Request]
    BY <1>2, FinishMoves DEF ExpireSession
  <2> QED BY <1>2, <2>1, <2>2, DeletedType DEF ExpireSession, TypeOK, Request
<1>3. CASE LookupAdmin(r)
  <2>1. req[r].key \in Sess /\ req[r].name \in Name
    BY <1>3, Carried DEF LookupAdmin
  <2>2. CASE Goto(r, "authed") /\ UNCHANGED sessions
    <3>1. [at |-> "authed", key |-> req[r].key, name |-> req[r].name] \in Request
      BY <2>1 DEF Request
    <3>2. req' \in [Req -> Request]
      BY <2>2, <3>1, GotoMoves
    <3> QED BY <1>3, <2>2, <3>2 DEF LookupAdmin, TypeOK, Request
  <2>3. CASE (Deleted(req[r].key) \/ UNCHANGED sessions) /\ Finish(r)
    <3>1. req' \in [Req -> Request]
      BY <2>3, FinishMoves
    <3> QED BY <1>3, <2>1, <2>3, <3>1, DeletedType DEF LookupAdmin, TypeOK, Request
  <2> QED BY <1>3, <2>2, <2>3 DEF LookupAdmin
<1>4. CASE ServePage(r) \/ ServeAPI(r)
  <2>1. req' \in [Req -> Request]
    BY <1>4, FinishMoves DEF ServePage, ServeAPI
  <2> QED BY <1>4, <2>1 DEF ServePage, ServeAPI, TypeOK, Request
<1>5. ASSUME NEW i \in Invite, NEW ttl \in InviteTTL, createAdminInvite(r, i, ttl)
      PROVE  TypeOK'
  <2>1. req' \in [Req -> Request]
    BY <1>5, FinishMoves DEF createAdminInvite
  <2>2. clock + ttl \in Nat
    BY TTLAssumption, BoundAssumption DEF TypeOK
  <2>3. invites' \in [Invite -> [state : {"none", "open", "used"}, expires : Nat]]
    BY <1>5, <2>2 DEF createAdminInvite, TypeOK
  <2> QED BY <1>5, <2>1, <2>3 DEF createAdminInvite, TypeOK, Request
<1>6. ASSUME NEW t \in Token, createToken(r, t) \/ revokeToken(r, t)
      PROVE  TypeOK'
  <2>1. req[r].name \in Name
    BY <1>6, Carried DEF createToken, revokeToken
  <2>2. req' \in [Req -> Request]
    BY <1>6, FinishMoves DEF createToken, revokeToken
  <2>3. tokens' \in [Token -> {None, Gone} \cup Name]
    BY <1>6, <2>1 DEF createToken, revokeToken, TypeOK
  <2> QED BY <1>6, <2>2, <2>3 DEF createToken, revokeToken, TypeOK, Request
<1> QED BY <1>1, <1>2, <1>3, <1>4, <1>5, <1>6 DEF Authenticated

\* So do logging out, the cleanup, a restart and time.
LEMMA OtherType ==
  ASSUME TypeOK,
         \/ \E s \in Sess, sent \in BOOLEAN : Logout(s, sent)
         \/ CleanupExpiredSessions \/ Restart \/ Tick
  PROVE  TypeOK'
<1>1. ASSUME NEW s \in Sess, NEW sent \in BOOLEAN, Logout(s, sent)
      PROVE  TypeOK'
  BY <1>1, DeletedType DEF Logout, TypeOK, Request
<1>2. CASE CleanupExpiredSessions
  <2>1. sessions' \in [Sess -> {NoSession, GoneSession}
                         \cup [state : {"live"}, admin : Name, expires : Nat]]
    BY <1>2 DEF CleanupExpiredSessions, TypeOK
  <2> QED BY <1>2, <2>1 DEF CleanupExpiredSessions, TypeOK, Request
<1>3. CASE Restart
  <2>1. boots \in Nat /\ boots' = boots + 1 /\ boots' \in 1..MaxBoots
    BY <1>3, BoundAssumption DEF Restart, TypeOK
  <2>2. clock \in Nat /\ clock + SetupTTL \in Nat
    BY TTLAssumption, BoundAssumption DEF TypeOK
  <2>3. panel' \in [token : 0..boots', expiry : Nat, done : BOOLEAN]
    <3>1. [token |-> 0, expiry |-> 0, done |-> TRUE]
            \in [token : 0..boots', expiry : Nat, done : BOOLEAN]
      BY <2>1
    <3>2. [token |-> boots + 1, expiry |-> clock + SetupTTL, done |-> FALSE]
            \in [token : 0..boots', expiry : Nat, done : BOOLEAN]
      BY <2>1, <2>2
    <3> QED BY <1>3, <3>1, <3>2 DEF Restart, MaybeGenerateSetupToken
  <2>4. 1..boots \subseteq 1..boots'
    BY <2>1
  <2>5. admins' \in [Name -> {NoAdmin} \cup [via : {"setup", "unreported"}, key : 1..boots']
                                        \cup [via : {"invite"}, key : Invite]]
    BY <1>3, <2>4 DEF Restart, TypeOK
  <2>6. req' \in [Req -> Request']
    BY <1>3 DEF Restart, Request
  <2> QED BY <1>3, <2>1, <2>3, <2>5, <2>6 DEF Restart, TypeOK
<1>4. CASE Tick
  <2>1. clock' \in 0..MaxTime
    BY <1>4, BoundAssumption DEF Tick, TypeOK
  <2> QED BY <1>4, <2>1 DEF Tick, TypeOK, Request
<1> QED BY <1>1, <1>2, <1>3, <1>4

\* Every step keeps the types.
LEMMA TypeStep ==
  ASSUME TypeOK, [Next]_vars
  PROVE  TypeOK'
<1>1. CASE UNCHANGED vars
  BY <1>1 DEF vars, TypeOK, Request
<1>2. CASE Next
  BY <1>2, SetupType, InviteType, LoginType, AuthenticatedType, OtherType DEF Next
<1> QED BY <1>1, <1>2

-----------------------------------------------------------------------------
(***************************************************************************)
(* Steps that make no account                                              *)
(***************************************************************************)

\* What the statements of a request that ends in an account are called.
Making == {"setupCreate", "setupConsume", "inviteInsert"}

\* A step outside them: accounts and the panel stay as they are, an invite
\* that is used stays used.
Outside ==
  /\ \A q \in Req : \/ req'[q] = req[q]
                    \/ req[q].at \notin Making /\ req'[q].at \notin Making
  /\ admins' = admins /\ panel' = panel
  /\ clock \in Nat /\ clock' \in Nat /\ clock <= clock'
  /\ \A i \in Invite : invites[i].state = "used" => invites'[i].state = "used"

\* One request that moves outside of them, and time standing still.
LEMMA OutsideMove ==
  ASSUME TypeOK, NEW r \in Req, req[r].at \notin Making, req'[r].at \notin Making,
         \A q \in Req : q # r => req'[q] = req[q],
         UNCHANGED <<clock, admins, panel, invites>>
  PROVE  Outside
BY BoundAssumption DEF Outside, TypeOK

\* Everything but Setup, the two statements of acceptAdminInvite and a
\* restart is outside of them.
LEMMA OutsideSteps ==
  ASSUME TypeOK,
         \/ \E r \in Req : \/ \E i \in Invite, n \in Name : InviteLookup(r, i, n)
                           \/ Login(r) \/ Authenticated(r)
         \/ \E s \in Sess, sent \in BOOLEAN : Logout(s, sent)
         \/ CleanupExpiredSessions \/ Tick
  PROVE  Outside
<1>1. ASSUME NEW r \in Req, NEW i \in Invite, NEW n \in Name, InviteLookup(r, i, n)
      PROVE  Outside
  <2>1. /\ req'[r] = [at |-> "inviteMark", key |-> i, name |-> n]
        /\ \A q \in Req : q # r => req'[q] = req[q]
    BY <1>1, OneMoves DEF InviteLookup
  <2> QED BY <1>1, <2>1, OutsideMove DEF InviteLookup, Making
<1>2. ASSUME NEW r \in Req, Login(r)
      PROVE  Outside
  <2>1. ASSUME NEW n \in Name, VerifyPassword(r, n)
        PROVE  Outside
    <3>1. /\ req'[r] = [at |-> "login", key |-> None, name |-> n]
          /\ \A q \in Req : q # r => req'[q] = req[q]
      BY <2>1, OneMoves DEF VerifyPassword
    <3> QED BY <2>1, <3>1, OutsideMove DEF VerifyPassword, Making
  <2>2. ASSUME NEW s \in Sess, createAdminSession(r, s)
        PROVE  Outside
    BY <2>2, FinishMoves, OutsideMove DEF createAdminSession, Making
  <2> QED BY <1>2, <2>1, <2>2 DEF Login
<1>3. ASSUME NEW r \in Req, Authenticated(r)
      PROVE  Outside
  <2>1. ASSUME NEW s \in Sess, validateAdminSession(r, s)
        PROVE  Outside
    <3> DEFINE v == [at |-> IF Expired(s) THEN "expire" ELSE "lookup", key |-> s,
                     name |-> sessions[s].admin]
    <3>1. req' = [req EXCEPT ![r] = v] /\ v.at \notin Making
      BY <2>1 DEF validateAdminSession, Making
    <3> HIDE DEF v
    <3>2. req'[r] = v /\ \A q \in Req : q # r => req'[q] = req[q]
      BY <3>1, OneMoves
    <3> QED BY <2>1, <3>1, <3>2, OutsideMove DEF validateAdminSession, Making
  <2>2. CASE ExpireSession(r) \/ ServePage(r) \/ ServeAPI(r)
    BY <2>2, FinishMoves, OutsideMove DEF ExpireSession, ServePage, ServeAPI, Making
  <2>3. CASE LookupAdmin(r)
    <3>1. \/ req'[r] = [at |-> "authed", key |-> req[r].key, name |-> req[r].name]
          \/ req'[r].at = "idle"
      BY <2>3, FinishMoves, GotoMoves DEF LookupAdmin
    <3>2. \A q \in Req : q # r => req'[q] = req[q]
      BY <2>3, FinishMoves, GotoMoves DEF LookupAdmin
    <3> QED BY <2>3, <3>1, <3>2, OutsideMove DEF LookupAdmin, Making
  <2>4. ASSUME NEW i \in Invite, NEW ttl \in InviteTTL, createAdminInvite(r, i, ttl)
        PROVE  Outside
    <3>1. /\ req'[r].at = "idle" /\ req[r].at = "authed"
          /\ \A q \in Req : q # r => req'[q] = req[q]
      BY <2>4, FinishMoves DEF createAdminInvite
    <3>2. \A j \in Invite : invites[j].state = "used" => invites'[j] = invites[j]
      BY <2>4 DEF createAdminInvite, TypeOK
    <3> QED BY <2>4, <3>1, <3>2, BoundAssumption
            DEF createAdminInvite, Making, Outside, TypeOK
  <2>5. ASSUME NEW t \in Token, createToken(r, t) \/ revokeToken(r, t)
        PROVE  Outside
    BY <2>5, FinishMoves, OutsideMove DEF createToken, revokeToken, Making
  <2> QED BY <1>3, <2>1, <2>2, <2>3, <2>4, <2>5 DEF Authenticated
<1>4. CASE \/ \E s \in Sess, sent \in BOOLEAN : Logout(s, sent)
           \/ CleanupExpiredSessions \/ Tick
  BY <1>4, BoundAssumption DEF Logout, CleanupExpiredSessions, Tick, Outside, TypeOK
<1> QED BY <1>1, <1>2, <1>3, <1>4

-----------------------------------------------------------------------------
(***************************************************************************)
(* Invites                                                                 *)
(***************************************************************************)

\* Rows of admins are told apart by what made them.
LEMMA AccountsDiffer ==
  /\ \A k : /\ Account("setup", k) # NoAdmin /\ Account("invite", k) # NoAdmin
            /\ Account("unreported", k) # NoAdmin
  /\ \A j, k : /\ Account("setup", j) # Account("invite", k)
               /\ Account("unreported", j) # Account("invite", k)
               /\ Account("unreported", j) # Account("setup", k)
  /\ \A v, j, k : Account(v, j) = Account(v, k) => j = k
BY DEF Account, NoAdmin

\* Nothing about invites changes for the worse unless a request marks or
\* inserts.
LEMMA InviteKept ==
  ASSUME InviteShown, InviteOnce,
         \A q \in Req : req'[q].at = "inviteInsert" => req'[q] = req[q] /\ req[q].key \in Invite,
         \A n \in Name, i \in Invite :
           admins'[n] = Account("invite", i) => admins[n] = Account("invite", i),
         \A i \in Invite : invites[i].state = "used" => invites'[i].state = "used"
  PROVE  InviteShown' /\ InviteOnce'
<1>1. \A n \in Name, i \in Invite :
        admins'[n] = Account("invite", i) => invites'[i].state = "used"
  BY DEF InviteShown
<1>2. ASSUME NEW r \in Req, req'[r].at = "inviteInsert"
      PROVE  /\ invites'[req'[r].key].state = "used"
             /\ \A n \in Name : admins'[n] # Account("invite", req'[r].key)
             /\ \A q \in Req :
                  req'[q].at = "inviteInsert" /\ req'[q].key = req'[r].key => q = r
  BY <1>2 DEF InviteShown
<1>3. InviteShown'
  BY <1>1, <1>2 DEF InviteShown, Account
<1>4. InviteOnce'
  BY DEF InviteOnce, Account
<1> QED BY <1>3, <1>4

\* acceptAdminInvite, both statements: the UPDATE singles out one request.
LEMMA InviteAccepted ==
  ASSUME TypeOK, InviteShown, InviteOnce, NEW r \in Req, InviteMark(r) \/ InviteInsert(r)
  PROVE  InviteShown' /\ InviteOnce'
<1> DEFINE i == req[r].key
<1>1. i \in Invite /\ req[r].name \in Name
  BY Carried DEF InviteMark, InviteInsert
<1>2. \A q \in Req : req[q].at = "inviteInsert" => req[q].key \in Invite
  BY Carried
<1>3. CASE Finish(r) /\ UNCHANGED <<invites, admins>>
  <2>1. req'[r].at = "idle" /\ \A q \in Req : q # r => req'[q] = req[q]
    BY <1>3, FinishMoves
  <2> QED BY <1>2, <1>3, <2>1, InviteKept
<1>4. CASE /\ Active(i) /\ UNCHANGED admins
           /\ invites' = [invites EXCEPT ![i].state = "used"]
           /\ Goto(r, "inviteInsert")
  <2>1. /\ req'[r] = [at |-> "inviteInsert", key |-> i, name |-> req[r].name]
        /\ \A q \in Req : q # r => req'[q] = req[q]
    BY <1>4, GotoMoves
  <2>2. invites[i].state # "used"
    BY <1>4 DEF Active
  <2>3. /\ invites'[i].state = "used"
        /\ \A j \in Invite : invites[j].state = "used" => invites'[j].state = "used"
    BY <1>1, <1>4 DEF TypeOK
  <2>4. \A n \in Name : admins[n] # Account("invite", i)
    BY <1>1, <2>2 DEF InviteShown
  <2>5. \A q \in Req : req[q].at = "inviteInsert" => req[q].key # i
    BY <2>2 DEF InviteShown
  <2>6. \A n \in Name, j \in Invite :
          admins'[n] = Account("invite", j) => invites'[j].state = "used"
    BY <1>4, <2>3 DEF InviteShown
  <2>7. ASSUME NEW q \in Req, req'[q].at = "inviteInsert"
        PROVE  /\ invites'[req'[q].key].state = "used"
               /\ \A n \in Name : admins'[n] # Account("invite", req'[q].key)
               /\ \A p \in Req :
                    req'[p].at = "inviteInsert" /\ req'[p].key = req'[q].key => p = q
    <3>1. CASE q = r
      BY <1>4, <2>1, <2>3, <2>4, <2>5, <3>1
    <3>2. CASE q # r
      BY <1>2, <1>4, <2>1, <2>3, <2>5, <2>7, <3>2 DEF InviteShown
    <3> QED BY <3>1, <3>2
  <2> QED BY <1>4, <2>6, <2>7 DEF InviteShown, InviteOnce, Account
<1>5. CASE /\ ~Exists(req[r].name) /\ UNCHANGED invites /\ Finish(r)
           /\ req[r].at = "inviteInsert"
           /\ admins' = [admins EXCEPT ![req[r].name] = Account("invite", i)]
  <2>1. req'[r].at = "idle" /\ \A q \in Req : q # r => req'[q] = req[q]
    BY <1>5, FinishMoves
  <2>2. /\ admins'[req[r].name] = Account("invite", i)
        /\ \A n \in Name : n # req[r].name => admins'[n] = admins[n]
    BY <1>1, <1>5 DEF TypeOK
  <2>3. /\ invites[i].state = "used"
        /\ \A n \in Name : admins[n] # Account("invite", i)
        /\ \A q \in Req : req[q].at = "inviteInsert" /\ req[q].key = i => q = r
    BY <1>5 DEF InviteShown
  <2>4. \A n \in Name, j \in Invite :
          admins'[n] = Account("invite", j) => invites'[j].state = "used"
    BY <1>5, <2>2, <2>3, AccountsDiffer DEF InviteShown
  <2>5. ASSUME NEW q \in Req, req'[q].at = "inviteInsert"
        PROVE  /\ invites'[req'[q].key].state = "used"
               /\ \A n \in Name : admins'[n] # Account("invite", req'[q].key)
               /\ \A p \in Req :
                    req'[p].at = "inviteInsert" /\ req'[p].key = req'[q].key => p = q
    <3>1. q # r /\ req'[q] = req[q] /\ req[q].key # i
      BY <2>1, <2>3, <2>5
    <3>2. \A n \in Name : admins'[n] # Account("invite", req[q].key)
      BY <2>2, <2>5, <3>1, AccountsDiffer DEF InviteShown
    <3> QED BY <1>5, <2>1, <2>5, <3>1, <3>2 DEF InviteShown
  <2>6. InviteOnce'
    <3>1. \A n \in Name : admins'[n] = Account("invite", i) => n = req[r].name
      BY <2>2, <2>3
    <3>2. \A n \in Name : \A j \in Invite :
            j # i /\ admins'[n] = Account("invite", j) => admins[n] = Account("invite", j)
      BY <2>2, AccountsDiffer
    <3> QED BY <3>1, <3>2 DEF InviteOnce, Account
  <2> QED BY <2>4, <2>5, <2>6 DEF InviteShown, Account
<1>6. CASE /\ Finish(r) /\ UNCHANGED admins
           /\ invites' = [invites EXCEPT ![i].state = "used"]
  <2>1. req'[r].at = "idle" /\ \A q \in Req : q # r => req'[q] = req[q]
    BY <1>6, FinishMoves
  <2>2. \A j \in Invite : invites[j].state = "used" => invites'[j].state = "used"
    BY <1>1, <1>6 DEF TypeOK
  <2> QED BY <1>2, <1>6, <2>1, <2>2, InviteKept
<1> QED BY <1>3, <1>4, <1>5, <1>6 DEF InviteMark, InviteInsert

\* No step makes a second account with an invite.
LEMMA InviteStep ==
  ASSUME TypeOK, InviteShown, InviteOnce, [Next]_vars
  PROVE  InviteShown' /\ InviteOnce'
<1>1. \A q \in Req : req[q].at = "inviteInsert" => req[q].key \in Invite
  BY Carried
<1>2. CASE Outside
  BY <1>1, <1>2, InviteKept DEF Outside, Making
<1>3. ASSUME NEW r \in Req, Setup(r)
      PROVE  InviteShown' /\ InviteOnce'
  <2>1. /\ req'[r].at # "inviteInsert"
        /\ \A q \in Req : q # r => req'[q] = req[q]
    <3>1. ASSUME NEW t \in 1..MaxBoots, NEW n \in Name, SetupPeek(r, t, n)
          PROVE  /\ req'[r].at # "inviteInsert"
                 /\ \A q \in Req : q # r => req'[q] = req[q]
      BY <3>1, OneMoves DEF SetupPeek
    <3>2. CASE Goto(r, "setupConsume")
      <4>1. req'[r] = [at |-> "setupConsume", key |-> req[r].key, name |-> req[r].name]
        BY <3>2, GotoMoves
      <4> QED BY <3>2, <4>1, GotoMoves
    <3>3. CASE Finish(r)
      BY <3>3, FinishMoves
    <3> QED BY <1>3, <3>1, <3>2, <3>3 DEF Setup, SetupCreate, SetupConsume
  <2>2. invites' = invites
    BY <1>3 DEF Setup, SetupPeek, SetupCreate, SetupConsume
  <2>3. \A n \in Name : \/ admins'[n] = admins[n]
                        \/ \E k : \/ admins'[n] = Account("setup", k)
                                  \/ admins'[n] = Account("unreported", k)
    BY <1>3 DEF Setup, SetupPeek, SetupCreate, SetupConsume, TypeOK
  <2> QED BY <1>1, <2>1, <2>2, <2>3, AccountsDiffer, InviteKept
<1>4. ASSUME NEW r \in Req, AcceptInvite(r)
      PROVE  InviteShown' /\ InviteOnce'
  BY <1>2, <1>4, OutsideSteps, InviteAccepted DEF AcceptInvite
<1>5. CASE Restart
  <2>1. \A q \in Req : req'[q].at = "idle"
    BY <1>5 DEF Restart, Idle
  <2> QED BY <1>5, <2>1, InviteKept DEF Restart
<1>6. CASE UNCHANGED vars
  BY <1>1, <1>6, InviteKept DEF vars
<1> QED BY <1>2, <1>3, <1>4, <1>5, <1>6, OutsideSteps DEF Next

-----------------------------------------------------------------------------
(***************************************************************************)
(* The setup token                                                         *)
(***************************************************************************)

\* SetupShown and SetupOverlapBounded, of one token.
TokenBounded(t) ==
  /\ peekSetupToken(t) => Cardinality(SetupAdmins(t)) <= Cardinality(Consuming(t))
  /\ Cardinality(SetupAdmins(t)) + Cardinality(Creating(t)) <= Cardinality(Req)

\* The sets are finite, and a request is at one statement at a time.
LEMMA SetupSets ==
  ASSUME NEW t
  PROVE  /\ IsFiniteSet(SetupAdmins(t)) /\ Cardinality(SetupAdmins(t)) \in Nat
         /\ IsFiniteSet(Creating(t)) /\ Cardinality(Creating(t)) \in Nat
         /\ IsFiniteSet(Consuming(t)) /\ Cardinality(Consuming(t)) \in Nat
         /\ IsFiniteSet(Req) /\ Cardinality(Req) \in Nat
<1>1. SetupAdmins(t) \subseteq Name /\ Creating(t) \subseteq Req /\ Consuming(t) \subseteq Req
  BY DEF SetupAdmins, Creating, Consuming
<1>2. /\ IsFiniteSet(SetupAdmins(t)) /\ IsFiniteSet(Creating(t))
      /\ IsFiniteSet(Consuming(t)) /\ IsFiniteSet(Req)
  BY <1>1, NameAssumption, FS_Subset
<1> QED BY <1>2, FS_CardinalityType

\* One more member, and one less.
LEMMA CardinalityStep ==
  ASSUME NEW S, IsFiniteSet(S), NEW x
  PROVE  /\ x \notin S => Cardinality(S \cup {x}) = Cardinality(S) + 1
         /\ x \in S => Cardinality(S \ {x}) = Cardinality(S) - 1
         /\ Cardinality(S) \in Nat
BY FS_AddElement, FS_RemoveElement, FS_CardinalityType

\* A request that is at neither statement fits beside those that are.
LEMMA RoomForOne ==
  ASSUME NEW t, NEW r \in Req, r \notin Creating(t), r \notin Consuming(t)
  PROVE  Cardinality(Creating(t)) + Cardinality(Consuming(t)) + 1 <= Cardinality(Req)
<1> DEFINE C == Creating(t) D == Consuming(t)
<1>1. IsFiniteSet(C) /\ IsFiniteSet(D) /\ IsFiniteSet(C \cup D) /\ IsFiniteSet(Req)
  BY SetupSets, FS_Union
<1>2. C \cap D = {}
  BY DEF Creating, Consuming
<1>3. Cardinality(C \cup D) = Cardinality(C) + Cardinality(D)
  <2>1. Cardinality(C \cap D) = 0
    BY <1>2, FS_EmptySet
  <2>2. Cardinality(C \cup D) = Cardinality(C) + Cardinality(D) - Cardinality(C \cap D)
    BY <1>1, FS_Union
  <2> QED BY <2>1, <2>2, SetupSets
<1>4. Cardinality((C \cup D) \cup {r}) = Cardinality(C \cup D) + 1
  BY <1>1, CardinalityStep
<1>5. (C \cup D) \cup {r} \subseteq Req
  BY DEF Creating, Consuming
<1>6. Cardinality((C \cup D) \cup {r}) <= Cardinality(Req)
  BY <1>1, <1>5, FS_Subset
<1> QED BY <1>3, <1>4, <1>6, SetupSets

\* A step that leaves a token's accounts and requests alone keeps its bound.
LEMMA TokenKept ==
  ASSUME NEW t, TokenBounded(t), peekSetupToken(t)' => peekSetupToken(t),
         SetupAdmins(t)' = SetupAdmins(t), Creating(t)' = Creating(t),
         Consuming(t)' = Consuming(t)
  PROVE  TokenBounded(t)'
BY DEF TokenBounded

\* A request takes a look at the token: it fits beside those that have made
\* an account, since none of these has taken the token yet.
LEMMA PeekBounded ==
  ASSUME TypeOK, NEW t \in 1..MaxBoots, TokenBounded(t), NEW r \in Req,
         NEW u \in 1..MaxBoots, NEW n \in Name, SetupPeek(r, u, n)
  PROVE  TokenBounded(t)'
<1>1. /\ req[r].at = "idle" /\ admins' = admins
      /\ req'[r] = [at |-> "setupCreate", key |-> u, name |-> n]
      /\ \A q \in Req : q # r => req'[q] = req[q]
      /\ peekSetupToken(u) /\ peekSetupToken(t)' = peekSetupToken(t)
  BY OneMoves DEF SetupPeek, peekSetupToken
<1>2. SetupAdmins(t)' = SetupAdmins(t) /\ Consuming(t)' = Consuming(t)
  BY <1>1 DEF SetupAdmins, Consuming
<1>3. CASE t # u
  <2>1. Creating(t)' = Creating(t)
    BY <1>1, <1>3 DEF Creating
  <2> QED BY <1>1, <1>2, <2>1, TokenKept
<1>4. CASE t = u
  <2>1. r \notin Creating(t) /\ r \notin Consuming(t)
    BY <1>1 DEF Creating, Consuming
  <2>2. Creating(t)' = Creating(t) \cup {r}
    BY <1>1, <1>4 DEF Creating
  <2>3. Cardinality(Creating(t)') = Cardinality(Creating(t)) + 1
    BY <2>1, <2>2, SetupSets, CardinalityStep
  <2>4. Cardinality(Creating(t)) + Cardinality(Consuming(t)) + 1 <= Cardinality(Req)
    BY <2>1, RoomForOne
  <2>5. Cardinality(SetupAdmins(t)) <= Cardinality(Consuming(t))
    BY <1>1, <1>4 DEF TokenBounded
  <2> QED BY <1>2, <2>3, <2>4, <2>5, SetupSets DEF TokenBounded
<1> QED BY <1>3, <1>4

\* A request makes its account, or fails to and gives up its place.
LEMMA CreateBounded ==
  ASSUME TypeOK, NEW t \in 1..MaxBoots, TokenBounded(t), NEW r \in Req, SetupCreate(r)
  PROVE  TokenBounded(t)'
<1>1. /\ req[r].at = "setupCreate" /\ peekSetupToken(t)' = peekSetupToken(t)
      /\ req[r].name \in Name
  BY Carried DEF SetupCreate, peekSetupToken
<1>2. CASE /\ ~Exists(req[r].name)
           /\ admins' = [admins EXCEPT ![req[r].name] = Account("setup", req[r].key)]
           /\ Goto(r, "setupConsume")
  <2>1. /\ req'[r] = [at |-> "setupConsume", key |-> req[r].key, name |-> req[r].name]
        /\ \A q \in Req : q # r => req'[q] = req[q]
    BY <1>2, GotoMoves
  <2>2. /\ admins'[req[r].name] = Account("setup", req[r].key)
        /\ \A n \in Name : n # req[r].name => admins'[n] = admins[n]
        /\ admins[req[r].name] = NoAdmin
    BY <1>1, <1>2 DEF TypeOK, Exists
  <2>3. CASE req[r].key # t
    <3>1. SetupAdmins(t)' = SetupAdmins(t)
      BY <2>2, <2>3, AccountsDiffer DEF SetupAdmins
    <3>2. Creating(t)' = Creating(t) /\ Consuming(t)' = Consuming(t)
      BY <1>1, <2>1, <2>3 DEF Creating, Consuming
    <3> QED BY <1>1, <3>1, <3>2, TokenKept
  <2>4. CASE req[r].key = t
    <3>1. /\ SetupAdmins(t)' = SetupAdmins(t) \cup {req[r].name}
          /\ req[r].name \notin SetupAdmins(t)
      BY <1>1, <2>2, <2>4, AccountsDiffer DEF SetupAdmins
    <3>2. Creating(t)' = Creating(t) \ {r} /\ r \in Creating(t)
      BY <1>1, <2>1, <2>4 DEF Creating
    <3>3. Consuming(t)' = Consuming(t) \cup {r} /\ r \notin Consuming(t)
      BY <1>1, <2>1, <2>4 DEF Consuming
    <3>4. /\ Cardinality(SetupAdmins(t)') = Cardinality(SetupAdmins(t)) + 1
          /\ Cardinality(Creating(t)') = Cardinality(Creating(t)) - 1
          /\ Cardinality(Consuming(t)') = Cardinality(Consuming(t)) + 1
      BY <3>1, <3>2, <3>3, SetupSets, CardinalityStep
    <3> QED BY <1>1, <3>4, SetupSets DEF TokenBounded
  <2> QED BY <2>3, <2>4
<1>3. CASE Finish(r) /\ UNCHANGED admins
  <2>1. req'[r].at = "idle" /\ \A q \in Req : q # r => req'[q] = req[q]
    BY <1>3, FinishMoves
  <2>2. SetupAdmins(t)' = SetupAdmins(t) /\ Consuming(t)' = Consuming(t)
    BY <1>1, <1>3, <2>1 DEF SetupAdmins, Consuming
  <2>3. Creating(t)' = Creating(t) \ {r}
    BY <2>1 DEF Creating
  <2>4. Cardinality(Creating(t)') <= Cardinality(Creating(t))
        /\ Cardinality(Creating(t)') \in Nat
    BY <2>3, SetupSets, FS_Subset, FS_CardinalityType
  <2> QED BY <1>1, <2>2, <2>4, SetupSets DEF TokenBounded
<1>4. CASE /\ ~Exists(req[r].name) /\ Finish(r)
           /\ admins' = [admins EXCEPT ![req[r].name] = Account("unreported", req[r].key)]
  <2>1. req'[r].at = "idle" /\ \A q \in Req : q # r => req'[q] = req[q]
    BY <1>4, FinishMoves
  <2>2. /\ admins'[req[r].name] = Account("unreported", req[r].key)
        /\ \A n \in Name : n # req[r].name => admins'[n] = admins[n]
        /\ admins[req[r].name] = NoAdmin
    BY <1>1, <1>4 DEF TypeOK, Exists
  <2>3. SetupAdmins(t)' = SetupAdmins(t) /\ Consuming(t)' = Consuming(t)
    BY <1>1, <2>1, <2>2, AccountsDiffer DEF SetupAdmins, Consuming
  <2>4. Creating(t)' = Creating(t) \ {r}
    BY <2>1 DEF Creating
  <2>5. Cardinality(Creating(t)') <= Cardinality(Creating(t))
        /\ Cardinality(Creating(t)') \in Nat
    BY <2>4, SetupSets, FS_Subset, FS_CardinalityType
  <2> QED BY <1>1, <2>3, <2>5, SetupSets DEF TokenBounded
<1> QED BY <1>2, <1>3, <1>4 DEF SetupCreate

\* A request takes the token, or finds it taken or out of time: either way
\* nobody can peek at it any more.
LEMMA ConsumeBounded ==
  ASSUME TypeOK, NEW t \in 1..MaxBoots, TokenBounded(t), NEW r \in Req, SetupConsume(r)
  PROVE  TokenBounded(t)'
<1>1. /\ req[r].at = "setupConsume" /\ req'[r].at = "idle"
      /\ \A q \in Req : q # r => req'[q] = req[q]
      /\ admins' = admins /\ clock' = clock
      /\ panel' = IF panel.token = req[r].key /\ clock <= panel.expiry
                  THEN [token |-> 0, expiry |-> panel.expiry, done |-> TRUE]
                  ELSE panel
  BY FinishMoves DEF SetupConsume
<1>2. SetupAdmins(t)' = SetupAdmins(t) /\ Creating(t)' = Creating(t)
  BY <1>1 DEF SetupAdmins, Creating
<1>3. clock \in Nat /\ panel.expiry \in Nat /\ t # 0
  BY BoundAssumption DEF TypeOK
<1>4. CASE req[r].key # t
  <2>1. Consuming(t)' = Consuming(t)
    BY <1>1, <1>4 DEF Consuming
  <2>2. peekSetupToken(t)' => peekSetupToken(t)
    BY <1>1, <1>3 DEF peekSetupToken
  <2> QED BY <1>2, <2>1, <2>2, TokenKept
<1>5. CASE req[r].key = t
  <2>1. ~peekSetupToken(t)'
    BY <1>1, <1>3, <1>5 DEF peekSetupToken
  <2> QED BY <1>2, <2>1 DEF TokenBounded
<1> QED BY <1>4, <1>5

\* The number of accounts a setup token makes is bounded in every step.
LEMMA SetupStep ==
  ASSUME TypeOK, NEW t \in 1..MaxBoots, TokenBounded(t), [Next]_vars
  PROVE  TokenBounded(t)'
<1>1. CASE Outside
  <2>1. SetupAdmins(t)' = SetupAdmins(t)
    BY <1>1 DEF Outside, SetupAdmins
  <2>2. Creating(t)' = Creating(t) /\ Consuming(t)' = Consuming(t)
    BY <1>1 DEF Outside, Making, Creating, Consuming
  <2>3. peekSetupToken(t)' => peekSetupToken(t)
    BY <1>1 DEF Outside, peekSetupToken, TypeOK
  <2> QED BY <2>1, <2>2, <2>3, TokenKept
<1>2. ASSUME NEW r \in Req, Setup(r)
      PROVE  TokenBounded(t)'
  BY <1>2, PeekBounded, CreateBounded, ConsumeBounded DEF Setup
<1>3. ASSUME NEW r \in Req, InviteMark(r) \/ InviteInsert(r)
      PROVE  TokenBounded(t)'
  <2>1. /\ req'[r].at \in {"idle", "inviteInsert"}
        /\ \A q \in Req : q # r => req'[q] = req[q]
    <3>1. CASE Goto(r, "inviteInsert")
      <4>1. req'[r] = [at |-> "inviteInsert", key |-> req[r].key, name |-> req[r].name]
        BY <3>1, GotoMoves
      <4> QED BY <3>1, <4>1, GotoMoves
    <3>2. CASE Finish(r)
      BY <3>2, FinishMoves
    <3> QED BY <1>3, <3>1, <3>2 DEF InviteMark, InviteInsert
  <2>2. req[r].at \in {"inviteMark", "inviteInsert"}
    BY <1>3 DEF InviteMark, InviteInsert
  <2>3. Creating(t)' = Creating(t) /\ Consuming(t)' = Consuming(t)
    BY <2>1, <2>2 DEF Creating, Consuming
  <2>4. SetupAdmins(t)' = SetupAdmins(t)
    <3>1. \A n \in Name : \/ admins'[n] = admins[n]
                          \/ admins[n] = NoAdmin /\ admins'[n] = Account("invite", req[r].key)
      BY <1>3 DEF InviteMark, InviteInsert, Exists, TypeOK
    <3> QED BY <3>1, AccountsDiffer DEF SetupAdmins
  <2>5. peekSetupToken(t)' = peekSetupToken(t)
    BY <1>3 DEF InviteMark, InviteInsert, peekSetupToken
  <2> QED BY <2>3, <2>4, <2>5, TokenKept
<1>4. CASE Restart
  <2>1. Creating(t)' = {} /\ Consuming(t)' = {}
    BY <1>4 DEF Restart, Idle, Creating, Consuming
  <2>2. SetupAdmins(t)' = SetupAdmins(t)
    BY <1>4 DEF Restart, SetupAdmins
  <2>3. peekSetupToken(t)' => SetupAdmins(t) = {}
    <3>1. panel'.token \in {0, boots + 1}
      BY <1>4 DEF Restart, MaybeGenerateSetupToken
    <3>2. peekSetupToken(t)' => t = boots + 1
      BY <3>1 DEF peekSetupToken
    <3>3. boots \in Nat /\ boots + 1 \notin 1..boots
      BY BoundAssumption DEF TypeOK
    <3>4. SetupAdmins(boots + 1) = {}
      BY <3>3, AccountsDiffer DEF SetupAdmins, TypeOK, Account, NoAdmin
    <3> QED BY <3>2, <3>4
  <2> QED BY <2>1, <2>2, <2>3, FS_EmptySet, SetupSets DEF TokenBounded
<1>5. CASE UNCHANGED vars
  BY <1>5 DEF vars, TokenBounded, peekSetupToken, SetupAdmins, Creating, Consuming
<1> QED BY <1>1, <1>2, <1>3, <1>4, <1>5, OutsideSteps DEF Next, AcceptInvite

-----------------------------------------------------------------------------
(***************************************************************************)
(* The first administrator                                                 *)
(***************************************************************************)

\* A step leaves every account in its table.
LEMMA AccountsStay ==
  ASSUME TypeOK, [Next]_vars, NEW n \in Name, Exists(n)
  PROVE  admins'[n] # NoAdmin
<1>1. CASE admins' = admins
  BY <1>1 DEF Exists
<1>2. ASSUME NEW r \in Req, SetupCreate(r) \/ InviteInsert(r)
      PROVE  admins'[n] # NoAdmin
  BY <1>2 DEF SetupCreate, InviteInsert, Exists, TypeOK
<1>3. ASSUME NEW r \in Req, Setup(r)
      PROVE  admins'[n] # NoAdmin
  BY <1>1, <1>2, <1>3 DEF Setup, SetupPeek, SetupConsume
<1>4. ASSUME NEW r \in Req, AcceptInvite(r)
      PROVE  admins'[n] # NoAdmin
  BY <1>1, <1>2, <1>4 DEF AcceptInvite, InviteLookup, InviteMark
<1>5. CASE Outside
  BY <1>1, <1>5 DEF Outside
<1>6. CASE Restart \/ UNCHANGED vars
  BY <1>1, <1>6 DEF Restart, vars
<1> QED BY <1>3, <1>4, <1>5, <1>6, OutsideSteps DEF Next

\* Setup ends with an account in the table.
LEMMA FirstAdminStep ==
  ASSUME TypeOK, CreatedFirst, SetupLeavesAnAdmin, [Next]_vars
  PROVE  CreatedFirst' /\ SetupLeavesAnAdmin'
<1>1. \A q \in Req : req[q].at = "setupConsume" => req[q].name \in Name
  BY Carried
<1>2. ASSUME \A q \in Req : req'[q].at = "setupConsume" => req'[q] = req[q]
      PROVE  CreatedFirst'
  <2>1. \A q \in Req : req'[q].at = "setupConsume" => admins'[req[q].name] # NoAdmin
    BY <1>1, <1>2, AccountsStay DEF CreatedFirst
  <2> QED BY <1>2, <2>1 DEF CreatedFirst, Exists
<1>3. ASSUME panel' = panel
      PROVE  SetupLeavesAnAdmin'
  <2>1. panel.done => \E n \in Name : admins'[n] # NoAdmin
    BY AccountsStay DEF SetupLeavesAnAdmin
  <2> QED BY <1>3, <2>1 DEF SetupLeavesAnAdmin, Exists
<1>4. CASE Outside
  BY <1>2, <1>3, <1>4 DEF Outside, Making
<1>5. ASSUME NEW r \in Req, NEW t \in 1..MaxBoots, NEW n \in Name, SetupPeek(r, t, n)
      PROVE  CreatedFirst' /\ SetupLeavesAnAdmin'
  <2>1. /\ req'[r] = [at |-> "setupCreate", key |-> t, name |-> n]
        /\ \A q \in Req : q # r => req'[q] = req[q]
    BY <1>5, OneMoves DEF SetupPeek
  <2> QED BY <1>2, <1>3, <1>5, <2>1 DEF SetupPeek
<1>6. ASSUME NEW r \in Req, SetupCreate(r)
      PROVE  CreatedFirst' /\ SetupLeavesAnAdmin'
  <2>1. req[r].name \in Name /\ panel' = panel
    BY <1>6, Carried DEF SetupCreate
  <2>2. CASE /\ admins' = [admins EXCEPT ![req[r].name] = Account("setup", req[r].key)]
             /\ Goto(r, "setupConsume")
    <3>1. admins'[req[r].name] # NoAdmin
      BY <2>1, <2>2, AccountsDiffer DEF Exists, TypeOK
    <3>2. /\ req'[r] = [at |-> "setupConsume", key |-> req[r].key, name |-> req[r].name]
          /\ \A q \in Req : q # r => req'[q] = req[q]
      BY <2>2, GotoMoves
    <3>3. \A q \in Req : q # r /\ req[q].at = "setupConsume" => admins'[req[q].name] # NoAdmin
      BY <1>1, AccountsStay DEF CreatedFirst
    <3>4. CreatedFirst'
      BY <3>1, <3>2, <3>3 DEF CreatedFirst, Exists
    <3> QED BY <1>3, <2>1, <3>4
  <2>3. CASE Finish(r)
    BY <1>2, <1>3, <2>1, <2>3, FinishMoves
  <2> QED BY <1>6, <2>2, <2>3 DEF SetupCreate
<1>7. ASSUME NEW r \in Req, SetupConsume(r)
      PROVE  CreatedFirst' /\ SetupLeavesAnAdmin'
  <2>1. CreatedFirst'
    BY <1>2, <1>7, FinishMoves DEF SetupConsume
  <2>2. admins'[req[r].name] # NoAdmin /\ req[r].name \in Name
    BY <1>1, <1>7, AccountsStay DEF SetupConsume, CreatedFirst, Exists
  <2>3. SetupLeavesAnAdmin'
    BY <2>2 DEF SetupLeavesAnAdmin, Exists
  <2> QED BY <2>1, <2>3
<1>8. ASSUME NEW r \in Req, InviteMark(r) \/ InviteInsert(r)
      PROVE  CreatedFirst' /\ SetupLeavesAnAdmin'
  <2>1. CASE Goto(r, "inviteInsert")
    <3>1. /\ req'[r] = [at |-> "inviteInsert", key |-> req[r].key, name |-> req[r].name]
          /\ \A q \in Req : q # r => req'[q] = req[q]
      BY <2>1, GotoMoves
    <3> QED BY <1>2, <1>3, <1>8, <3>1 DEF InviteMark, InviteInsert
  <2>2. CASE Finish(r)
    BY <1>2, <1>3, <1>8, <2>2, FinishMoves DEF InviteMark, InviteInsert
  <2> QED BY <1>8, <2>1, <2>2 DEF InviteMark, InviteInsert
<1>9. CASE Restart
  <2>1. \A q \in Req : req'[q].at = "idle"
    BY <1>9 DEF Restart, Idle
  <2>2. panel'.done => \E n \in Name : Exists(n)
    BY <1>9 DEF Restart, MaybeGenerateSetupToken
  <2>3. SetupLeavesAnAdmin'
    BY <2>2, AccountsStay DEF SetupLeavesAnAdmin, Exists
  <2> QED BY <1>2, <2>1, <2>3
<1>10. CASE UNCHANGED vars
  BY <1>2, <1>3, <1>10 DEF vars
<1> QED BY <1>4, <1>5, <1>6, <1>7, <1>8, <1>9, <1>10, OutsideSteps
        DEF Next, Setup, AcceptInvite

-----------------------------------------------------------------------------
(***************************************************************************)
(* Sessions                                                                *)
(***************************************************************************)

\* A row is made once and goes once; in between it does not change.
LEMMA RowsMove ==
  ASSUME TypeOK, [Next]_vars, NEW s \in Sess
  PROVE  \/ sessions'[s] = sessions[s]
         \/ sessions[s].state = "none" /\ sessions'[s].state # "none"
         \/ Present(s) /\ sessions'[s] = GoneSession
<1> DEFINE Moves == \/ sessions'[s] = sessions[s]
                    \/ sessions[s].state = "none" /\ sessions'[s].state # "none"
                    \/ Present(s) /\ sessions'[s] = GoneSession
<1>1. CASE sessions' = sessions
  BY <1>1
<1>2. ASSUME NEW u \in Sess, Deleted(u)
      PROVE  Moves
  BY <1>2, DeletedType DEF Present
<1>3. ASSUME NEW r \in Req, Login(r)
      PROVE  Moves
  BY <1>1, <1>3 DEF Login, VerifyPassword, createAdminSession, TypeOK
<1>4. ASSUME NEW r \in Req, Authenticated(r)
      PROVE  Moves
  <2>1. CASE ExpireSession(r) \/ LookupAdmin(r)
    <3>1. req[r].key \in Sess
      BY <2>1, Carried DEF ExpireSession, LookupAdmin
    <3> QED BY <1>1, <1>2, <2>1, <3>1 DEF ExpireSession, LookupAdmin
  <2>2. CASE ~(ExpireSession(r) \/ LookupAdmin(r))
    BY <1>1, <1>4, <2>2 DEF Authenticated, validateAdminSession, ServePage, ServeAPI,
       createAdminInvite, createToken, revokeToken
  <2> QED BY <2>1, <2>2
<1>5. ASSUME NEW r \in Req, Setup(r) \/ AcceptInvite(r)
      PROVE  Moves
  BY <1>1, <1>5 DEF Setup, SetupPeek, SetupCreate, SetupConsume, AcceptInvite,
     InviteLookup, InviteMark, InviteInsert
<1>6. ASSUME NEW u \in Sess, NEW sent \in BOOLEAN, Logout(u, sent)
      PROVE  Moves
  BY <1>1, <1>2, <1>6 DEF Logout
<1>7. CASE CleanupExpiredSessions
  BY <1>7 DEF CleanupExpiredSessions
<1>8. CASE Restart \/ Tick \/ UNCHANGED vars
  BY <1>1, <1>8 DEF Restart, Tick, vars
<1> QED BY <1>3, <1>4, <1>5, <1>6, <1>7, <1>8 DEF Next

\* A request comes to delete a row as expired only by finding it expired.
LEMMA ExpireMoves ==
  ASSUME TypeOK, [Next]_vars, NEW q \in Req, req'[q].at = "expire"
  PROVE  \/ req'[q] = req[q]
         \/ /\ req'[q].key \in Sess /\ Present(req'[q].key) /\ Expired(req'[q].key)
            /\ sessions' = sessions
<1>1. ASSUME NEW r \in Req, NEW v, req' = [req EXCEPT ![r] = v], v.at # "expire"
      PROVE  req'[q] = req[q]
  BY <1>1, OneMoves
<1>2. ASSUME NEW r \in Req, Finish(r)
      PROVE  req'[q] = req[q]
  BY <1>2, FinishMoves
<1>3. ASSUME NEW r \in Req, NEW at, Goto(r, at), at # "expire"
      PROVE  req'[q] = req[q]
  <2>1. /\ req'[r] = [at |-> at, key |-> req[r].key, name |-> req[r].name]
        /\ \A p \in Req : p # r => req'[p] = req[p]
    BY <1>3, GotoMoves
  <2>2. req'[r].at = at
    BY <2>1
  <2> QED BY <1>3, <2>1, <2>2
<1>4. CASE UNCHANGED req
  BY <1>4
<1>5. ASSUME NEW r \in Req, Setup(r)
      PROVE  req'[q] = req[q]
  BY <1>1, <1>2, <1>3, <1>5 DEF Setup, SetupPeek, SetupCreate, SetupConsume
<1>6. ASSUME NEW r \in Req, AcceptInvite(r)
      PROVE  req'[q] = req[q]
  BY <1>1, <1>2, <1>3, <1>6 DEF AcceptInvite, InviteLookup, InviteMark, InviteInsert
<1>7. ASSUME NEW r \in Req, Login(r)
      PROVE  req'[q] = req[q]
  BY <1>1, <1>2, <1>7 DEF Login, VerifyPassword, createAdminSession
<1>8. ASSUME NEW r \in Req, NEW s \in Sess, validateAdminSession(r, s)
      PROVE  \/ req'[q] = req[q]
             \/ req'[q].key = s /\ Present(s) /\ Expired(s) /\ sessions' = sessions
  <2> DEFINE v == [at |-> IF Expired(s) THEN "expire" ELSE "lookup", key |-> s,
                   name |-> sessions[s].admin]
  <2>1. /\ req' = [req EXCEPT ![r] = v] /\ v.key = s
        /\ v.at = "expire" => Expired(s)
        /\ Present(s) /\ sessions' = sessions
    BY <1>8 DEF validateAdminSession
  <2> HIDE DEF v
  <2>2. req'[r] = v /\ \A p \in Req : p # r => req'[p] = req[p]
    BY <2>1, OneMoves
  <2> QED BY <2>1, <2>2
<1>9. ASSUME NEW r \in Req, Authenticated(r),
             ~\E s \in Sess : validateAdminSession(r, s)
      PROVE  req'[q] = req[q]
  BY <1>2, <1>3, <1>9 DEF Authenticated, ExpireSession, LookupAdmin, ServePage, ServeAPI,
     createAdminInvite, createToken, revokeToken
<1>10. CASE \/ \E s \in Sess, sent \in BOOLEAN : Logout(s, sent)
            \/ CleanupExpiredSessions \/ Tick \/ UNCHANGED vars
  BY <1>4, <1>10 DEF Logout, CleanupExpiredSessions, Tick, vars
<1>11. ~Restart
  BY DEF Restart, Idle
<1>12. CASE \E r \in Req, s \in Sess : validateAdminSession(r, s)
  BY <1>8, <1>12
<1> QED BY <1>5, <1>6, <1>7, <1>9, <1>10, <1>11, <1>12 DEF Next

\* Rows that requests found expired stay expired: expiry is fixed, time goes
\* forward, and a token that was handed out is not handed out again.
LEMMA ExpireStep ==
  ASSUME TypeOK, ExpireShown, [Next]_vars
  PROVE  ExpireShown'
<1> SUFFICES ASSUME NEW q \in Req, req'[q].at = "expire"
             PROVE  /\ sessions'[req'[q].key].state # "none"
                    /\ sessions'[req'[q].key].state = "live" =>
                         clock' > sessions'[req'[q].key].expires
  BY DEF ExpireShown, Present, Expired
<1> DEFINE s == req'[q].key
<1>1. /\ s \in Sess /\ sessions[s].state # "none"
      /\ sessions[s].state = "live" => clock > sessions[s].expires
  <2>1. CASE req'[q] = req[q]
    <3>1. req[q].key \in Sess
      BY <2>1, Carried
    <3> QED BY <2>1, <3>1 DEF ExpireShown, Present, Expired
  <2>2. CASE s \in Sess /\ Present(s) /\ Expired(s)
    BY <2>2 DEF Present, Expired
  <2> QED BY <2>1, <2>2, ExpireMoves
<1> HIDE DEF s
<1>2. \/ sessions'[s] = sessions[s]
      \/ sessions'[s] = GoneSession
  BY <1>1, RowsMove
<1>3. clock \in Nat /\ clock' \in Nat /\ clock <= clock'
  <2>1. CASE clock' = clock
    BY <2>1, BoundAssumption DEF TypeOK
  <2>2. CASE Outside
    BY <2>2 DEF Outside
  <2> QED BY <2>1, <2>2, OutsideSteps DEF Next, Setup, SetupPeek, SetupCreate, SetupConsume,
          AcceptInvite, InviteMark, InviteInsert, Restart, vars
<1>4. sessions[s].state = "live" => sessions[s].expires \in Nat
  BY <1>1 DEF TypeOK, NoSession, GoneSession
<1>5. GoneSession.state = "gone"
  BY DEF GoneSession, NoSession
<1> QED BY <1>1, <1>2, <1>3, <1>4, <1>5 DEF s

\* A step takes a session that would still be accepted only by its holder's
\* logout or by a failed lookup of the account.
LEMMA SessionStep ==
  ASSUME TypeOK, ExpireShown, Next, NEW s \in Sess,
         Present(s), ~Present(s)', ~Expired(s)
  PROVE  \/ s \in loggedOut'
         \/ \E r \in Req : req[r].at = "lookup" /\ req[r].key = s
<1>1. sessions' # sessions
  BY DEF Present
<1>2. ASSUME NEW u \in Sess, Deleted(u)
      PROVE  u = s
  BY <1>2, DeletedType DEF Present
<1>3. ASSUME NEW r \in Req, Login(r)
      PROVE  FALSE
  BY <1>1, <1>3 DEF Login, VerifyPassword, createAdminSession, Present, TypeOK
<1>4. ASSUME NEW r \in Req, Authenticated(r)
      PROVE  req[r].at = "lookup" /\ req[r].key = s
  <2>1. ExpireSession(r) \/ LookupAdmin(r)
    BY <1>1, <1>4 DEF Authenticated, validateAdminSession, ServePage, ServeAPI,
       createAdminInvite, createToken, revokeToken
  <2>2. req[r].key \in Sess
    BY <2>1, Carried DEF ExpireSession, LookupAdmin
  <2>3. Deleted(req[r].key)
    BY <1>1, <2>1 DEF ExpireSession, LookupAdmin
  <2>4. req[r].key = s
    BY <1>2, <2>2, <2>3
  <2>5. req[r].at # "expire"
    BY <2>4 DEF ExpireShown
  <2> QED BY <2>1, <2>4, <2>5 DEF ExpireSession, LookupAdmin
<1>5. ASSUME NEW r \in Req, Setup(r) \/ AcceptInvite(r)
      PROVE  FALSE
  BY <1>1, <1>5 DEF Setup, SetupPeek, SetupCreate, SetupConsume, AcceptInvite,
     InviteLookup, InviteMark, InviteInsert
<1>6. ASSUME NEW u \in Sess, NEW sent \in BOOLEAN, Logout(u, sent)
      PROVE  s \in loggedOut'
  <2>1. Deleted(u) /\ loggedOut' = loggedOut \cup {u}
    BY <1>1, <1>6 DEF Logout
  <2> QED BY <1>2, <2>1
<1>7. ~CleanupExpiredSessions
  <2>1. sessions[s].expires \in Nat /\ clock \in Nat
    BY BoundAssumption DEF TypeOK, NoSession, GoneSession, Present
  <2> QED BY <2>1 DEF CleanupExpiredSessions, Present, Expired, TypeOK
<1>8. ~Restart /\ ~Tick
  BY <1>1 DEF Restart, Tick
<1> QED BY <1>3, <1>4, <1>5, <1>6, <1>7, <1>8 DEF Next

-----------------------------------------------------------------------------
(***************************************************************************)
(* The theorems                                                            *)
(***************************************************************************)

\* The first start: no accounts, no rows, no requests.
LEMMA InitInv == Init => Inv
<1> SUFFICES ASSUME Init PROVE Inv
  OBVIOUS
<1>1. TypeOK
  <2>1. panel \in [token : 0..boots, expiry : Nat, done : BOOLEAN]
    BY TTLAssumption DEF Init
  <2>2. /\ clock \in 0..MaxTime /\ boots \in 1..MaxBoots
    BY BoundAssumption DEF Init
  <2>3. invites \in [Invite -> [state : {"none", "open", "used"}, expires : Nat]]
    BY DEF Init, NoInvite
  <2> QED BY <2>1, <2>2, <2>3 DEF Init, TypeOK, Request
<1>2. \A r \in Req : req[r].at = "idle"
  BY DEF Init, Idle
<1>3. InviteShown /\ InviteOnce
  BY <1>2, AccountsDiffer DEF Init, InviteShown, InviteOnce
<1>4. SetupShown /\ SetupOverlapBounded
  <2>1. \A t : SetupAdmins(t) = {}
    BY AccountsDiffer DEF Init, SetupAdmins
  <2>2. \A t : Creating(t) = {} /\ Consuming(t) = {}
    BY <1>2 DEF Creating, Consuming
  <2> QED BY <2>1, <2>2, FS_EmptySet, SetupSets DEF SetupShown, SetupOverlapBounded
<1>5. CreatedFirst /\ SetupLeavesAnAdmin /\ ExpireShown
  BY <1>2 DEF Init, CreatedFirst, SetupLeavesAnAdmin, ExpireShown
<1> QED BY <1>1, <1>3, <1>4, <1>5 DEF Inv

\* Inv is an invariant of the panel: every statement of every request, the
\* end of the process between two of them, and time keep it.
THEOREM Invariance == Spec => []Inv
<1>1. Inv /\ [Next]_vars => Inv'
  <2> SUFFICES ASSUME Inv, [Next]_vars PROVE Inv'
    OBVIOUS
  <2>1. \A t \in 1..MaxBoots : TokenBounded(t)
    BY DEF Inv, SetupShown, SetupOverlapBounded, TokenBounded
  <2>2. \A t \in 1..MaxBoots : TokenBounded(t)'
    BY <2>1, SetupStep DEF Inv
  <2>3. SetupShown' /\ SetupOverlapBounded'
    BY <2>2 DEF SetupShown, SetupOverlapBounded, TokenBounded
  <2> QED BY <2>3, TypeStep, InviteStep, FirstAdminStep, ExpireStep DEF Inv
<1> QED BY <1>1, InitInv, PTL DEF Spec

\* However many requests accept an invite at once, and wherever the process
\* ends between the UPDATE and the INSERT, it makes one account at most.
THEOREM InviteIsUsedOnce == Spec => []InviteOnce
<1>1. Inv => InviteOnce
  BY DEF Inv
<1> QED BY <1>1, Invariance, PTL

\* A setup token makes no more accounts than there are requests at once.
THEOREM SetupOverlapIsBounded == Spec => []SetupOverlapBounded
<1>1. Inv => SetupOverlapBounded
  BY DEF Inv
<1> QED BY <1>1, Invariance, PTL

\* A panel whose setup is done has an administrator.
THEOREM SetupHasLeftAnAdmin == Spec => []SetupLeavesAnAdmin
<1>1. Inv => SetupLeavesAnAdmin
  BY DEF Inv
<1> QED BY <1>1, Invariance, PTL

\* A session that would still be accepted is not taken from its holder by
\* a deletion that was decided earlier, or by the cleanup.
THEOREM SessionIsKept == Spec => SessionKept
<1>1. Inv /\ [Next]_vars =>
        [\A s \in Sess :
           Present(s) /\ ~Present(s)' /\ ~Expired(s)
             => \/ s \in loggedOut'
                \/ \E r \in Req : req[r].at = "lookup" /\ req[r].key = s]_vars
  BY SessionStep DEF Inv
<1> QED BY <1>1, Invariance, PTL DEF Spec, SessionKept
=============================================================================
