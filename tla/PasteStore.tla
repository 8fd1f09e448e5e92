----------------------------- MODULE PasteStore -----------------------------
(***************************************************************************)
(* The paste table of CasPaste: src/storage/paste.go over a primary        *)
(* database and an optional SQLite copy, driven by the HTTP handlers of    *)
(* src/web, src/apiv1, src/raw, src/compat and src/graphql, and by the     *)
(* expiry cleaner that the scheduler and both health endpoints run.        *)
(*                                                                         *)
(* One step is one SQL statement: handlers hold no lock and no             *)
(* transaction across their statements, so any two requests interleave     *)
(* there, a statement may fail (with or without having taken effect when   *)
(* its context times out), and the process may crash between two of them.  *)
(***************************************************************************)
EXTENDS Endpoints

CONSTANTS
  Id,         \* paste identifiers genTokenCrypto can draw
  Req,        \* request slots: HTTP handlers that run concurrently
  Cleaner,    \* callers of PasteDeleteExpired that run concurrently
  Body,       \* paste contents
  Form,       \* the forms creators accept, a subset of Creatable
  Handler,    \* the protocols of the endpoints a run exercises
  HasBackup,  \* TRUE for postgres, mysql, mariadb and libsql (backupPool)
  Faults,     \* which faults happen: "primary", "backup", "crash"
  MaxTime,    \* bound: horizon of the clock
  NoRow,      \* absence of a row
  NoId        \* no paste chosen yet

\* One row of the pastes table. create_time, title, syntax, author and the
\* file and URL columns are carried along unread, so Body stands for them.
Row == [body : Body, delete_time : Nat, flags : SUBSET Flag]

ASSUME IdAssumption      == NoId \notin Id
ASSUME RowAssumption     == NoRow \notin Row
ASSUME FormAssumption    == Form \subseteq [life : Int, flags : SUBSET Flag]
ASSUME HandlerAssumption == Handler \subseteq Handlers
ASSUME BackupAssumption  == HasBackup \in BOOLEAN
ASSUME FaultsAssumption  == Faults \subseteq {"primary", "backup", "crash"}
ASSUME TimeAssumption    == MaxTime \in Nat \ {0}

\* Bound: deliveries of one paste are counted up to here.
ServedCap == 2

VARIABLES
  primary,      \* pastes table of the primary database
  backup,       \* pastes table of backupPool
  clock,        \* time.Now().Unix()
  req,          \* progress of each request
  cleaning,     \* cleaners between their primary and their backup statement
  issued,       \* history: the row each id was first inserted with
  versions,     \* history: the contents each id ever had in the primary
  burnServed    \* history: one-use deliveries by Claiming handlers

dbVars   == <<primary, backup>>
histVars == <<issued, versions, burnServed>>
vars     == <<primary, backup, clock, req, cleaning, issued, versions, burnServed>>

OneUse(row)   == "one_use" \in row.flags
Editable(row) == "is_editable" \in row.flags
Private(row)  == "is_private" \in row.flags

Has(db, id) == db[id] # NoRow

\* What an edit must leave alone.
SamePolicy(a, b) == a.delete_time = b.delete_time /\ a.flags = b.flags

\* The expiry test of PasteGet and PasteDeleteExpired.
Expired(row, now) == row.delete_time > 0 /\ row.delete_time < now

\* The WHERE clause of PasteList. The order and the page are presentation.
PasteList(db, now) ==
  {id \in Id : /\ Has(db, id)
               /\ \/ db[id].delete_time > now
                  \/ db[id].delete_time = 0
               /\ ~Private(db[id])}

-----------------------------------------------------------------------------
\* Request bookkeeping: pc names the next statement of the handler.

PC == {"idle", "insert", "bkInsert", "get", "expire", "claim", "delete",
       "bkDelete", "update", "bkUpdate", "deliver"}

Request == [pc : PC, op : Handlers, id : Id \cup {NoId}, row : Row \cup {NoRow}]

Idle == [pc |-> "idle", op |-> "ask", id |-> NoId, row |-> NoRow]

Goto(r, pc) == req' = [req EXCEPT ![r].pc = pc]
Finish(r)   == req' = [req EXCEPT ![r] = Idle]

Init ==
  /\ primary = [id \in Id |-> NoRow]
  /\ backup = [id \in Id |-> NoRow]
  /\ clock = 1
  /\ req = [r \in Req |-> Idle]
  /\ cleaning = {}
  /\ issued = [id \in Id |-> NoRow]
  /\ versions = [id \in Id |-> {}]
  /\ burnServed = [id \in Id |-> 0]

-----------------------------------------------------------------------------
\* Effects of the SQL statements on a table.

Deleted(db, id)  == [db EXCEPT ![id] = NoRow]
Put(db, id, row) == [db EXCEPT ![id] = row]

LosesFlags(db, id, row) ==
  IF Has(db, id) THEN Put(db, id, [row EXCEPT !.flags = {}]) ELSE db
UpsertRow(db, id, row) == Put(db, id, row)

\* UPDATE ... WHERE id = $1 changes nothing when the row is gone.
Updated(db, id, row) == IF Has(db, id) THEN Put(db, id, row) ELSE db

\* DELETE ... WHERE delete_time < now AND delete_time > 0.
Purged(db, now) ==
  [id \in Id |-> IF Has(db, id) /\ Expired(db[id], now) THEN NoRow ELSE db[id]]

-----------------------------------------------------------------------------
\* Creating a paste.

NegativeKept(r) ==
  /\ req[r].pc = "idle"
  /\ "create" \in Handler
  /\ \E f \in Form, b \in Body :
       req' = [req EXCEPT ![r] =
         [pc |-> "insert", op |-> "create", id |-> NoId,
          row |-> [body |-> b, delete_time |-> f.life, flags |-> f.flags]]]
  /\ UNCHANGED <<dbVars, clock, cleaning, histVars>>

\* The creator fixes delete_time = now + life before it calls PasteAdd.
BeginCreate(r) ==
  /\ req[r].pc = "idle"
  /\ "create" \in Handler
  /\ \E f \in Form, b \in Body :
       /\ clock + f.life < MaxTime
       /\ req' = [req EXCEPT ![r] =
            [pc |-> "insert", op |-> "create", id |-> NoId,
             row |-> [body |-> b,
                      delete_time |-> IF f.life < 0 THEN 0 ELSE clock + f.life,
                      flags |-> f.flags]]]
  /\ UNCHANGED <<dbVars, clock, cleaning, histVars>>

\* The row reaches the primary under an id never drawn before.
InsertPrimary(r, id) ==
  /\ issued[id] = NoRow
  /\ primary' = Put(primary, id, req[r].row)
  /\ issued' = [issued EXCEPT ![id] = req[r].row]
  /\ versions' = [versions EXCEPT ![id] = {req[r].row.body}]

PasteAdd(r) ==
  /\ req[r].pc = "insert"
  /\ \E id \in Id :
       /\ InsertPrimary(r, id)
       /\ IF HasBackup
          THEN req' = [req EXCEPT ![r].pc = "bkInsert", ![r].id = id]
          ELSE Finish(r)
  /\ UNCHANGED <<backup, clock, cleaning, burnServed>>

\* INSERT OR REPLACE into the copy.
BackupInsert(r) ==
  /\ req[r].pc = "bkInsert"
  /\ backup' = Put(backup, req[r].id, req[r].row)
  /\ Finish(r)
  /\ UNCHANGED <<primary, clock, cleaning, histVars>>

-----------------------------------------------------------------------------
\* Reading, editing and deleting a paste.

Begin(r, op, id) ==
  /\ req[r].pc = "idle"
  /\ op \in Handler \ {"create"}
  /\ req' = [req EXCEPT ![r] =
       [pc |-> IF op = "delete" THEN "delete" ELSE "get",
        op |-> op, id |-> id, row |-> NoRow]]
  /\ UNCHANGED <<dbVars, clock, cleaning, histVars>>

BurnsEveryPaste(op, row) ==
  CASE op \in Editing -> "update"
    [] op = "burn"    -> "delete"
    [] OTHER          -> "idle"

\* What a handler does with the row PasteGet returned.
AfterGet(op, row) ==
  IF op \notin Editing /\ ~OneUse(row) THEN "deliver" ELSE
  CASE op = "edit"    -> IF Editable(row) THEN "update" ELSE "idle"
    [] op = "mbEdit"  -> "update"
    [] op = "peek"    -> "deliver"
    [] op = "ask"     -> "idle"
    [] op = "confirm" -> "claim"
    [] OTHER          -> "delete"

\* SELECT, then the expiry test on the row that came back.
PasteGet(r) ==
  /\ req[r].pc = "get"
  /\ LET row == primary[req[r].id]
     IN  IF row = NoRow \/ (~Expired(row, clock) /\ AfterGet(req[r].op, row) = "idle")
         THEN Finish(r)
         ELSE req' = [req EXCEPT ![r].row = row,
                        ![r].pc = IF Expired(row, clock)
                                  THEN "expire" ELSE AfterGet(req[r].op, row)]
  /\ UNCHANGED <<dbVars, clock, cleaning, histVars>>

\* PasteGet removes an expired paste from the primary and reports not found.
PasteExpire(r) ==
  /\ req[r].pc = "expire"
  /\ primary' = Deleted(primary, req[r].id)
  /\ Finish(r)
  /\ UNCHANGED <<backup, clock, cleaning, histVars>>

\* Once a delete has removed a row: the copy's turn, then the answer.
AfterDelete(r) ==
  IF HasBackup THEN Goto(r, "bkDelete") ELSE
  IF req[r].op = "delete" THEN Finish(r) ELSE Goto(r, "deliver")

\* The count of removed rows ignored.
ClaimByLooking(r) ==
  /\ req[r].pc = "claim"
  /\ primary' = Deleted(primary, req[r].id)
  /\ AfterDelete(r)
  /\ UNCHANGED <<backup, clock, cleaning, histVars>>

\* DELETE ... WHERE id = $1 AND one_use = 1: only the caller whose statement
\* removed the row goes on to serve it.
PasteDeleteIfOneUse(r) ==
  /\ req[r].pc = "claim"
  /\ IF Has(primary, req[r].id) /\ OneUse(primary[req[r].id])
     THEN /\ primary' = Deleted(primary, req[r].id)
          /\ AfterDelete(r)
     ELSE /\ Finish(r)
          /\ UNCHANGED primary
  /\ UNCHANGED <<backup, clock, cleaning, histVars>>

ServesAnyway(r) == IF req[r].op = "delete" THEN Finish(r) ELSE Goto(r, "deliver")

\* No row removed is an error, which lax handlers serve the paste despite.
AfterFailedDelete(r) ==
  IF req[r].op = "lax" THEN Goto(r, "deliver") ELSE Finish(r)

PasteDelete(r) ==
  /\ req[r].pc = "delete"
  /\ IF Has(primary, req[r].id)
     THEN /\ primary' = Deleted(primary, req[r].id)
          /\ AfterDelete(r)
     ELSE /\ AfterFailedDelete(r)
          /\ UNCHANGED primary
  /\ UNCHANGED <<backup, clock, cleaning, histVars>>

BackupDelete(r) ==
  /\ req[r].pc = "bkDelete"
  /\ backup' = Deleted(backup, req[r].id)
  /\ IF req[r].op = "delete" THEN Finish(r) ELSE Goto(r, "deliver")
  /\ UNCHANGED <<primary, clock, cleaning, histVars>>

IgnoresRowCount(r) ==
  /\ req[r].pc = "update"
  /\ \E b \in Body :
       LET row == [req[r].row EXCEPT !.body = b]
       IN  /\ primary' = Updated(primary, req[r].id, row)
           /\ versions' = IF Has(primary, req[r].id)
                          THEN [versions EXCEPT ![req[r].id] = @ \cup {b}]
                          ELSE versions
           /\ req' = [req EXCEPT ![r].pc = "bkUpdate", ![r].row = row]
  /\ UNCHANGED <<backup, clock, cleaning, issued, burnServed>>

\* UPDATE of every column from the handler's snapshot, with a new body when
\* the form has one. No row changed is ErrNotFoundID.
PasteUpdate(r) ==
  /\ req[r].pc = "update"
  /\ LET id == req[r].id
     IN  \E b \in Body :
           LET row == [req[r].row EXCEPT !.body = b]
           IN  /\ primary' = Updated(primary, id, row)
               /\ versions' = IF Has(primary, id)
                              THEN [versions EXCEPT ![id] = @ \cup {b}]
                              ELSE versions
               /\ IF Has(primary, id) /\ HasBackup
                  THEN req' = [req EXCEPT ![r].pc = "bkUpdate", ![r].row = row]
                  ELSE Finish(r)
  /\ UNCHANGED <<backup, clock, cleaning, issued, burnServed>>

BackupUpdate(r) ==
  /\ req[r].pc = "bkUpdate"
  /\ backup' = Updated(backup, req[r].id, req[r].row)
  /\ Finish(r)
  /\ UNCHANGED <<primary, clock, cleaning, histVars>>

Bump(f, id) == [f EXCEPT ![id] = IF @ < ServedCap THEN @ + 1 ELSE @]

\* The body goes out. Only deliveries of one-use pastes are counted.
Deliver(r) ==
  /\ req[r].pc = "deliver"
  /\ burnServed' = IF OneUse(req[r].row) /\ req[r].op \in Claiming
                   THEN Bump(burnServed, req[r].id) ELSE burnServed
  /\ Finish(r)
  /\ UNCHANGED <<dbVars, clock, cleaning, issued, versions>>

-----------------------------------------------------------------------------
\* Failures.

\* A primary statement returns an error. When its context ran out the
\* statement may have been committed all the same.
PrimaryError(r) ==
  /\ "primary" \in Faults
  /\ req[r].pc \in {"insert", "get", "expire", "claim", "delete", "update"}
  /\ LET id == req[r].id
         pc == req[r].pc
     IN  \/ UNCHANGED <<primary, issued, versions>>
         \/ /\ pc = "insert"
            /\ \E new \in Id : InsertPrimary(r, new)
         \/ /\ \/ pc \in {"expire", "delete"}
               \/ pc = "claim" /\ Has(primary, id) /\ OneUse(primary[id])
            /\ primary' = Deleted(primary, id)
            /\ UNCHANGED <<issued, versions>>
         \/ /\ pc = "update"
            /\ Has(primary, id)
            /\ \E b \in Body :
                 /\ primary' = Updated(primary, id, [req[r].row EXCEPT !.body = b])
                 /\ versions' = [versions EXCEPT ![id] = @ \cup {b}]
            /\ UNCHANGED issued
  /\ IF req[r].pc = "delete" THEN AfterFailedDelete(r) ELSE Finish(r)
  /\ UNCHANGED <<backup, clock, cleaning, burnServed>>

\* A backup statement fails: logged, and the handler goes on as if it had not.
BackupError(r) ==
  /\ "backup" \in Faults
  /\ req[r].pc \in {"bkInsert", "bkDelete", "bkUpdate"}
  /\ IF req[r].pc = "bkDelete" /\ req[r].op # "delete"
     THEN Goto(r, "deliver")
     ELSE Finish(r)
  /\ UNCHANGED <<dbVars, clock, cleaning, histVars>>

\* The process dies and restarts: both databases keep what they committed.
Crash ==
  /\ "crash" \in Faults
  /\ req' = [r \in Req |-> Idle]
  /\ cleaning' = {}
  /\ UNCHANGED <<dbVars, clock, histVars>>

-----------------------------------------------------------------------------
\* PasteDeleteExpired, run by the scheduler's paste_cleanup task and by the
\* two health endpoints.

CleanPrimary(c) ==
  /\ c \notin cleaning
  /\ primary' = Purged(primary, clock)
  /\ cleaning' = IF HasBackup THEN cleaning \cup {c} ELSE cleaning
  /\ UNCHANGED <<backup, clock, req, histVars>>

CleanPrimaryError(c) ==
  /\ "primary" \in Faults
  /\ c \notin cleaning
  /\ primary' = Purged(primary, clock)
  /\ UNCHANGED <<backup, clock, req, cleaning, histVars>>

NeverCleansBackup(c) ==
  /\ c \in cleaning
  /\ cleaning' = cleaning \ {c}
  /\ UNCHANGED <<dbVars, clock, req, histVars>>

\* The copy is purged with a clock reading of its own.
CleanBackup(c) ==
  /\ c \in cleaning
  /\ backup' = Purged(backup, clock)
  /\ cleaning' = cleaning \ {c}
  /\ UNCHANGED <<primary, clock, req, histVars>>

CleanBackupError(c) ==
  /\ "backup" \in Faults
  /\ c \in cleaning
  /\ cleaning' = cleaning \ {c}
  /\ UNCHANGED <<dbVars, clock, req, histVars>>

Tick ==
  /\ clock < MaxTime
  /\ clock' = clock + 1
  /\ UNCHANGED <<dbVars, req, cleaning, histVars>>

-----------------------------------------------------------------------------
Step(r) ==
  \/ BeginCreate(r)
  \/ \E op \in Handler, id \in Id : Begin(r, op, id)
  \/ PasteAdd(r)
  \/ BackupInsert(r)
  \/ PasteGet(r)
  \/ PasteExpire(r)
  \/ PasteDeleteIfOneUse(r)
  \/ PasteDelete(r)
  \/ BackupDelete(r)
  \/ PasteUpdate(r)
  \/ BackupUpdate(r)
  \/ Deliver(r)
  \/ PrimaryError(r)
  \/ BackupError(r)

Clean(c) ==
  \/ CleanPrimary(c)
  \/ CleanPrimaryError(c)
  \/ CleanBackup(c)
  \/ CleanBackupError(c)

Next ==
  \/ \E r \in Req : Step(r)
  \/ \E c \in Cleaner : Clean(c)
  \/ Crash
  \/ Tick

Spec == Init /\ [][Next]_vars

\* Time passes, the scheduler keeps calling the cleaner, and the copy's purge
\* does not fail for ever. Nothing is assumed of clients.
Fairness ==
  /\ WF_vars(Tick)
  /\ \A c \in Cleaner : WF_vars(CleanPrimary(c)) /\ SF_vars(CleanBackup(c))

FairSpec == Spec /\ Fairness

-----------------------------------------------------------------------------
(***************************************************************************)
(* Properties                                                              *)
(***************************************************************************)

\* Every variable keeps its type: the tables hold rows of paste.go's Paste
\* or nothing, and a request holds a paste id and the row it read.
TypeOK ==
  /\ primary \in [Id -> Row \cup {NoRow}]
  /\ backup \in [Id -> Row \cup {NoRow}]
  /\ clock \in 1..MaxTime
  /\ req \in [Req -> Request]
  /\ cleaning \subseteq Cleaner
  /\ issued \in [Id -> Row \cup {NoRow}]
  /\ versions \in [Id -> SUBSET Body]
  /\ burnServed \in [Id -> 0..ServedCap]

\* The web, API, raw and download handlers together serve the body of a
\* one-use paste at most once, however their statements interleave with each
\* other, with edits, expiry, failed statements and crashes.
BurnOnce == \A id \in Id : burnServed[id] <= 1

\* r removed one-use paste id from the primary and has not answered yet.
Claimant(r, id) ==
  /\ req[r].id = id
  /\ req[r].op \in Claiming
  /\ req[r].pc \in {"bkDelete", "deliver"}
  /\ OneUse(req[r].row)

\* A one-use paste has at most one reader that may still serve it, and then
\* nobody can read it from the primary any more and nobody was served it.
ClaimExclusive ==
  \A id \in Id, r \in Req :
    Claimant(r, id) =>
      /\ ~Has(primary, id)
      /\ burnServed[id] = 0
      /\ \A s \in Req : Claimant(s, id) => s = r

\* Edits write back a whole row read earlier (handleEditPaste, microbinAPI):
\* they never change when a paste expires, or whether it is one-use, private
\* or editable, from what its creator asked for.
PolicyFrozen ==
  \A id \in Id : Has(primary, id) =>
    Has(issued, id) /\ SamePolicy(primary[id], issued[id])

\* The copy only ever holds contents the primary committed, under the policy
\* the paste was created with, whatever statements were lost in between.
BackupFaithful ==
  \A id \in Id : Has(backup, id) =>
    /\ Has(issued, id)
    /\ SamePolicy(backup[id], issued[id])
    /\ backup[id].body \in versions[id]

\* A paste that left the primary never comes back: an edit or a late
\* statement of a slow request does not bring a burned, deleted or expired
\* paste back to life.
NoResurrection ==
  [][\A id \in Id : Has(issued, id) /\ ~Has(primary, id) => ~Has(primary', id)]_vars

\* A row leaves the primary only when it has expired by then, when it is
\* one-use and a reader takes it, or when a delete was asked for: no lazy
\* expiry decided on a row read earlier removes a paste that is still good.
RemovalJustified ==
  [][\A id \in Id : Has(primary, id) /\ ~Has(primary', id) =>
       \/ Expired(primary[id], clock)
       \/ \E r \in Req :
            /\ req[r].id = id
            /\ \/ req[r].op = "delete"
               \/ OneUse(primary[id]) /\ req[r].op \in Claiming \cup {"lax"}]_vars

\* An expiring paste eventually leaves the primary and the copy, although
\* PasteGet's lazy delete skips the copy, a slow PasteAdd may insert into the
\* copy after the purge, and both purges may fail now and then.
ExpiredEventuallyGone ==
  \A id \in Id :
    /\ (Has(primary, id) /\ primary[id].delete_time > 0) ~> ~Has(primary, id)
    /\ (Has(backup, id) /\ backup[id].delete_time > 0) ~> ~Has(backup, id)

-----------------------------------------------------------------------------
\* The abstract life of a paste this module implements.

\* The one-use pastes that some reader under way may still serve.
claimed == {id \in Id : \E r \in Req : Claimant(r, id)}

lifePhase ==
  [id \in Id |->
    IF ~Has(issued, id) THEN "unborn" ELSE
    IF Has(primary, id) THEN "live" ELSE
    IF burnServed[id] > 0 THEN "opened" ELSE
    IF id \in claimed THEN "claimed" ELSE "gone"]

Life == INSTANCE PasteLife WITH phase <- lifePhase

\* Every step of handlers, cleaner, faults and restarts is a step of the
\* life of a paste that PasteLife allows, or none.
LifeSpec == Life!Spec
=============================================================================
