------------------------------ MODULE Migration ------------------------------
(***************************************************************************)
(* The databases of a server over its starts: the schema that InitDB       *)
(* builds, the pastes each database holds, and checkAndMigrateDatabase,    *)
(* which copies the pastes over when the configured database is no longer  *)
(* the one the file .db-state names. Every step takes ok, whether the disk *)
(* or the database let it succeed. Server.tla says when the steps happen.  *)
(***************************************************************************)
EXTENDS Naturals, Sequences

CONSTANTS
  Db,       \* databases that can be configured
  Cache,    \* the SQLite file that mirrors a remote database
  Paste,    \* paste identifiers
  Absent,   \* no such row
  Unread    \* .db-state is missing, empty or torn

ASSUME DbAssumption == Cache \in Db /\ Unread \notin Db /\ Absent \notin Nat

VARIABLES
  dbState,  \* data directory: the file .db-state
  schema,   \* per database, how many statement groups of InitDB it has seen
  rows,     \* per database, table pastes
  mig       \* checkAndMigrateDatabase: where it is, its source, rows to copy

dbVars == <<dbState, schema, rows, mig>>

\* InitDB's statements by group, each IF NOT EXISTS: an interrupted InitDB is
\* taken up by the next one.
PasteTables   == <<"pastes">>
AdminTables   == <<"admins", "admin_sessions", "admin_tokens", "app_secrets", "admin_invites">>
UserTables    == <<"users", "user_sessions", "user_tokens", "recovery_keys">>
OrgTables     == <<"orgs", "org_members", "org_tokens", "custom_domains">>
PasteColumns  == <<"pastes columns">>
Schema        == <<PasteTables, AdminTables, UserTables, OrgTables, PasteColumns>>

\* A version of a paste; editing makes a new one.
Version == {1, 2}

NoMigration == [at |-> "idle", source |-> Unread, todo |-> {}]

MigrationInit ==
  /\ dbState = Unread
  /\ schema = [d \in Db |-> 0]
  /\ rows = [d \in Db |-> [p \in Paste |-> Absent]]
  /\ mig = NoMigration

Held(d) == {p \in Paste : rows[d][p] # Absent}

-----------------------------------------------------------------------------
\* InitDB on d: the first error ends it, with what was created so far kept.
InitDB(d, ok) ==
  /\ \E n \in schema[d]..Len(Schema) :
       /\ ok <=> n = Len(Schema)
       /\ schema' = [schema EXCEPT ![d] = n]
  /\ UNCHANGED <<dbState, rows, mig>>

MigrateTo(at) == mig' = [mig EXCEPT !.at = at]

\* An error ends checkAndMigrateDatabase; main only warns about it.
Abandon == mig' = [NoMigration EXCEPT !.at = "done"]

\* The file is read; it must name a driver and a source for a change to count.
ReadState(d) ==
  /\ mig.at = "idle"
  /\ mig' = [mig EXCEPT !.at     = IF dbState \in Db \ {d} THEN "backup" ELSE "write",
                        !.source = dbState]
  /\ UNCHANGED <<dbState, schema, rows>>

\* performBackup: no migration without a safety backup.
SafetyBackup(ok) ==
  /\ mig.at = "backup"
  /\ IF ok THEN MigrateTo("open") ELSE Abandon
  /\ UNCHANGED <<dbState, schema, rows>>

\* MigrateDatabase: both pools are opened, InitDB runs on the destination and
\* the rows of the source are selected.
MigrateDatabase(d, ok) ==
  /\ mig.at = "open"
  /\ IF ok THEN mig' = [mig EXCEPT !.at = "copy", !.todo = Held(mig.source)] ELSE Abandon
  /\ UNCHANGED <<dbState, schema, rows>>

IgnoresConflicts(d, p, ok) ==
  /\ mig.at = "copy"
  /\ p \in mig.todo
  /\ rows' = IF ok /\ rows[d][p] = Absent
             THEN [rows EXCEPT ![d][p] = rows[mig.source][p]] ELSE rows
  /\ mig' = [mig EXCEPT !.todo = @ \ {p}]
  /\ UNCHANGED <<dbState, schema>>

\* The plain INSERT of one row: a row that is there already is an error, and
\* so is the end of the five minutes the copy may take.
CopyRow(d, p, ok) ==
  /\ mig.at = "copy"
  /\ p \in mig.todo
  /\ IF ok /\ rows[d][p] = Absent
     THEN /\ rows' = [rows EXCEPT ![d][p] = rows[mig.source][p]]
          /\ mig' = [mig EXCEPT !.todo = @ \ {p}]
     ELSE /\ Abandon
          /\ UNCHANGED rows
  /\ UNCHANGED <<dbState, schema>>

CopyEnd ==
  /\ mig.at = "copy"
  /\ mig.todo = {}
  /\ MigrateTo("write")
  /\ UNCHANGED <<dbState, schema, rows>>

\* os.WriteFile of .db-state empties the file and fills it; a failure is
\* only warned about, and leaves the file as it is by then.
EmptyState(ok) ==
  /\ mig.at = "write"
  /\ IF ok THEN MigrateTo("fill") /\ dbState' = Unread
           ELSE Abandon /\ UNCHANGED dbState
  /\ UNCHANGED <<schema, rows>>

FillState(d, ok) ==
  /\ mig.at = "fill"
  /\ dbState' = IF ok THEN d ELSE dbState
  /\ Abandon
  /\ UNCHANGED <<schema, rows>>

\* checkAndMigrateDatabase for the configured database d.
checkAndMigrateDatabase(d, ok) ==
  \/ ReadState(d) /\ ok
  \/ SafetyBackup(ok)
  \/ MigrateDatabase(d, ok)
  \/ \E p \in Paste : CopyRow(d, p, ok)
  \/ CopyEnd /\ ok
  \/ EmptyState(ok)
  \/ FillState(d, ok)

-----------------------------------------------------------------------------
\* What users do to the pastes of d while it is served. A remote database is
\* mirrored into the SQLite cache, whose errors are dropped: ok is FALSE.
Store(d, p, row, mirrored) ==
  /\ rows' = [e \in Db |-> IF e = d \/ (mirrored /\ e = Cache)
                           THEN [rows[e] EXCEPT ![p] = row] ELSE rows[e]]
  /\ UNCHANGED <<dbState, schema, mig>>

\* New identifiers are random: one that any database knows is not drawn.
PasteAdd(d, p, ok) ==
  /\ \A e \in Db : rows[e][p] = Absent
  /\ Store(d, p, 1, ok)

PasteUpdate(d, p, ok) ==
  /\ rows[d][p] = 1
  /\ Store(d, p, 2, ok /\ rows[Cache][p] # Absent)

PasteDelete(d, p, ok) ==
  /\ rows[d][p] # Absent
  /\ Store(d, p, Absent, ok)

-----------------------------------------------------------------------------
MigrationStage == {"idle", "backup", "open", "copy", "write", "fill", "done"}

MigrationTypeOK ==
  /\ dbState \in Db \cup {Unread}
  /\ schema \in [Db -> 0..Len(Schema)]
  /\ rows \in [Db -> [Paste -> Version \cup {Absent}]]
  /\ mig \in [at : MigrationStage, source : Db \cup {Unread}, todo : SUBSET Paste]

\* .db-state comes to name another database only when that database has every
\* paste of the one it named before, in the same version: the rows a stopped
\* copy left behind, and what users did to them since, never pass for a
\* migration (checkAndMigrateDatabase, MigrateDatabase).
SwitchIsComplete(d) ==
  mig.at \in {"write", "fill"} /\ mig.source \in Db \ {d} =>
    \A p \in Held(mig.source) : rows[d][p] = rows[mig.source][p]
=============================================================================
