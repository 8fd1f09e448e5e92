------------------------------- MODULE Server -------------------------------
(***************************************************************************)
(* The server process from main to exit, src/server/caspaste.go: the       *)
(* configuration file, the database and its migration, the scheduler, the  *)
(* listeners, the Tor service, signals and the shutdown, over any number   *)
(* of starts, with a crash possible at every step and two updaters that    *)
(* replace the executable meanwhile. It composes Migration, Tor and        *)
(* Updater. A start that fails before it changed anything is not a step.   *)
(***************************************************************************)
EXTENDS Migration, Tor, Updater

CONSTANTS
  MaxAttempts,  \* attempts of retryWithBackoff (10)
  Torn,         \* server.yml after an interrupted write: empty
  NoFile,       \* no server.yml, no signal, no database
  MaxFaults     \* bound: failures and crashes in a behaviour

ASSUME AttemptAssumption == MaxAttempts \in Nat \ {0}
ASSUME FaultAssumption == MaxFaults \in Nat
ASSUME ConfigAssumption == Torn # NoFile /\ {Torn, NoFile} \cap Db = {}

VARIABLES
  config,   \* server.yml: the database and the port it sets
  main,     \* main: the statement it is at, and its copy of the configuration
  sig,      \* sigChan, which has room for one signal
  sched,    \* the scheduler: off, on, stopping
  faults    \* failures and crashes so far

procVars == <<config, main, sig, sched, faults>>
vars == <<dbVars, torVars, updVars, procVars>>

Setting == [db : Db, port : {0, 1}]   \* port 0: none is set

Down == [at |-> "down", db |-> NoFile, port |-> 0, attempt |-> 1]

Init ==
  /\ MigrationInit /\ TorInit /\ UpdaterInit
  /\ config = NoFile
  /\ main = Down
  /\ sig = NoFile
  /\ sched = "off"
  /\ faults = 0

\* A step that succeeds, or a failure within the bound.
Outcome(ok) ==
  /\ ok \/ faults < MaxFaults
  /\ faults' = IF ok THEN faults ELSE faults + 1

At(stage) == main.at = stage
Goto(stage) == main' = [main EXCEPT !.at = stage]

\* The process is gone, and all it had in memory; a file it was writing stays
\* as it was at that moment.
ProcessEnds ==
  /\ main' = Down
  /\ sig' = NoFile
  /\ sched' = "off"
  /\ mig' = NoMigration
  /\ TorGone
  /\ update' = [update EXCEPT !["task"] = NoUpdate]
  /\ UNCHANGED <<config, dbState, schema, rows, exe, version, released, aged>>

Crash ==
  /\ ~At("down")
  /\ Outcome(FALSE)
  /\ ProcessEnds

-----------------------------------------------------------------------------
(***************************************************************************)
(* Boot                                                                    *)
(***************************************************************************)

\* The first start writes a default file.
GenerateDefaultYAMLConfig ==
  /\ config = NoFile
  /\ config' = [db |-> Cache, port |-> 0]

\* Environment and flags, which may set anything. They are applied to the copy
\* in memory of the first start, and not looked at ever again.
ApplyEnvironmentOverrides(c) == c \in Setting

\* A torn file parses, but it names no database and main exits.
LoadYAMLConfig(c) ==
  /\ config \in Setting
  /\ c = config
  /\ UNCHANGED config

LoadConfig ==
  /\ At("down")
  /\ \E c \in Setting :
       /\ \/ GenerateDefaultYAMLConfig /\ ApplyEnvironmentOverrides(c)
          \/ LoadYAMLConfig(c)
       /\ main' = [at |-> "save", db |-> c.db, port |-> c.port, attempt |-> 1]
  /\ version' = exe
  /\ UNCHANGED <<dbVars, torVars, exe, released, aged, update, sig, sched, faults>>

\* SaveYAMLConfig empties the file and fills it; main warns about a failure
\* and goes on. Every start saves, before the database is opened and again
\* when it has picked a port.
SaveYAMLConfig(from, filling, to, ok) ==
  \/ /\ At(from)
     /\ Goto(IF ok THEN filling ELSE to)
     /\ config' = IF ok THEN Torn ELSE config
  \/ /\ At(filling)
     /\ Goto(to)
     /\ config' = IF ok THEN [db |-> main.db, port |-> main.port] ELSE config

SaveDirectories(ok) ==
  /\ SaveYAMLConfig("save", "saving", "pool", ok)
  /\ Outcome(ok)
  /\ UNCHANGED <<dbVars, torVars, updVars, sig, sched>>

\* EnsureUser, directories, logs and NewPool, which opens the cache of a
\* remote database too; a failure ends the process.
OpenPool(ok) ==
  /\ At("pool")
  /\ Outcome(ok)
  /\ IF ok THEN /\ Goto("schema")
                /\ UNCHANGED <<dbVars, torVars, updVars, config, sig, sched>>
           ELSE ProcessEnds

\* A refused connection is tried again, up to MaxAttempts times; any other
\* error, and the last one, ends the process.
retryWithBackoff(ok) ==
  \/ ok /\ Goto("migrate")
  \/ /\ ~ok /\ main.attempt < MaxAttempts
     /\ main' = [main EXCEPT !.attempt = @ + 1]
  \/ ~ok /\ main' = Down

InitSchema(ok) ==
  /\ At("schema")
  /\ InitDB(main.db, ok)
  /\ retryWithBackoff(ok)
  /\ Outcome(ok)
  /\ UNCHANGED <<torVars, updVars, config, sig, sched>>

\* checkAndMigrateDatabase; main goes on whatever came of it. A start without
\* the --data flag leaves it out.
Migrate(ok) ==
  /\ At("migrate")
  /\ \/ /\ ok /\ mig = NoMigration
        /\ Goto("sched")
        /\ UNCHANGED <<dbVars, faults>>
     \/ /\ checkAndMigrateDatabase(main.db, ok)
        /\ Outcome(ok)
        /\ UNCHANGED main
     \/ /\ ok /\ mig.at = "done"
        /\ mig' = NoMigration
        /\ Goto("sched")
        /\ UNCHANGED <<dbState, schema, rows, faults>>
  /\ UNCHANGED <<torVars, updVars, config, sig, sched>>

\* Routes, middleware and tasks are set up and the scheduler starts.
StartScheduler ==
  /\ At("sched")
  /\ sched' = "on"
  /\ Goto(IF main.port = 0 THEN "port" ELSE "listen")
  /\ UNCHANGED <<dbVars, torVars, updVars, config, sig, faults>>

\* No port is configured: one is picked and saved.
PickPort ==
  /\ At("port")
  /\ main' = [main EXCEPT !.at = "savePort", !.port = 1]
  /\ UNCHANGED <<dbVars, torVars, updVars, config, sig, sched, faults>>

SavePort(ok) ==
  /\ SaveYAMLConfig("savePort", "savingPort", "listen", ok)
  /\ Outcome(ok)
  /\ UNCHANGED <<dbVars, torVars, updVars, sig, sched>>

\* Both listeners are bound, privileges dropped, signals registered and the
\* HTTP server started. A port that is taken ends the process.
Listen(ok) ==
  /\ At("listen")
  /\ Outcome(ok)
  /\ IF ok THEN /\ Goto("tor")
                /\ UNCHANGED <<dbVars, torVars, updVars, config, sig, sched>>
           ELSE ProcessEnds

\* Requests are served from here on, while main waits for Tor.
StartTor(ok) ==
  /\ At("tor")
  /\ \/ ManagerStart(ok) /\ Outcome(ok) /\ UNCHANGED main
     \/ ok /\ tor.at = "done" /\ Goto("loop") /\ UNCHANGED <<torVars, faults>>
  /\ UNCHANGED <<dbVars, updVars, config, sig, sched>>

-----------------------------------------------------------------------------
(***************************************************************************)
(* Serving                                                                 *)
(***************************************************************************)

Serving == main.at \in {"tor", "loop", "audit", "http"}

Request(ok) ==
  /\ Serving
  /\ Outcome(ok)
  /\ \E p \in Paste :
       PasteAdd(main.db, p, ok) \/ PasteUpdate(main.db, p, ok) \/ PasteDelete(main.db, p, ok)
  /\ UNCHANGED <<torVars, updVars, config, main, sig, sched>>

\* The operator sets another database, or repairs the file.
EditConfig ==
  /\ main.at \in {"down", "loop"}
  /\ config # NoFile
  /\ \E d \in Db : config' = [db |-> d, port |-> IF config = Torn THEN 0 ELSE config.port]
  /\ UNCHANGED <<dbVars, torVars, updVars, main, sig, sched, faults>>

\* classifySignal: HUP is ignored and USR1 and USR2 are handled in place, all
\* without a change of state here; every other signal is a shutdown.
Signal == {"in place", "shutdown"}

\* registerSignals has been called.
Registered == main.at \in {"tor", "loop", "audit", "http", "torStop", "schedStop"}

\* signal.Notify does not block: a signal that finds the channel full is lost.
Notify(s) == sig' = IF sig = NoFile THEN s ELSE sig

SendSignal(s) ==
  /\ Registered
  /\ Notify(s)
  /\ UNCHANGED <<dbVars, torVars, updVars, config, main, sched, faults>>

\* The select of main's loop.
TakeSignal ==
  /\ At("loop")
  /\ sig # NoFile
  /\ sig' = NoFile
  /\ Goto(IF sig = "shutdown" THEN "audit" ELSE "loop")
  /\ UNCHANGED <<dbVars, torVars, updVars, config, sched, faults>>

\* An error of either HTTP server: main returns and stops nothing.
ServerFails ==
  /\ At("loop")
  /\ Outcome(FALSE)
  /\ ProcessEnds

-----------------------------------------------------------------------------
(***************************************************************************)
(* Updates                                                                 *)
(***************************************************************************)

UpdateStep(u, ok) ==
  /\ u = "task" => sched # "off" /\ ~At("down")
  /\ DoUpdate(u, ok)
  /\ Outcome(ok)
  /\ UNCHANGED <<dbVars, torVars, config, main, sig, sched>>

UpdateCheck(u) ==
  /\ u = "task" => sched = "on"
  /\ BeginUpdate(u)
  /\ UNCHANGED <<dbVars, torVars, procVars>>

\* RestartService asks the service manager, which sends the server a TERM. The
\* updater waits for the manager, and the scheduler's loop with the task.
RestartService(u) ==
  /\ update[u].at = "restart"
  /\ IF u = "task" THEN UpdateTo(u, "service") ELSE GiveUp(u)
  /\ IF Registered THEN Notify("shutdown") ELSE UNCHANGED sig
  /\ UNCHANGED <<dbVars, torVars, exe, version, released, aged, config, main, sched, faults>>

\* No service manager, or its command was stopped with the service it stops:
\* RestartSelf runs the new executable in place of the process.
RestartSelf ==
  /\ update["task"].at \in {"restart", "service"}
  /\ ProcessEnds
  /\ UNCHANGED faults

\* The manager did not manage this process, or exec failed: the task is over.
RestartReturns ==
  /\ update["task"].at \in {"restart", "service"}
  /\ GiveUp("task")
  /\ UNCHANGED <<dbVars, torVars, exe, version, released, aged, procVars>>

\* The manager kills a service that does not end in time.
ManagerKills ==
  /\ update["task"].at = "service"
  /\ At("schedStop")
  /\ ProcessEnds
  /\ UNCHANGED faults

Releases ==
  /\ Publish \/ Age
  /\ UNCHANGED <<dbVars, torVars, procVars>>

-----------------------------------------------------------------------------
(***************************************************************************)
(* Shutdown                                                                *)
(***************************************************************************)

\* The audit log gets its last event and is closed.
StopAudit ==
  /\ At("audit")
  /\ Goto("http")
  /\ UNCHANGED <<dbVars, torVars, updVars, config, sig, sched, faults>>

\* srv.Shutdown waits for requests, for 30 seconds over both servers, and
\* then Close ends what is left.
StopHTTP ==
  /\ At("http")
  /\ Goto("torStop")
  /\ UNCHANGED <<dbVars, torVars, updVars, config, sig, sched, faults>>

RetriesClose(ok) ==
  /\ At("torStop")
  /\ ManagerStop(ok)
  /\ Goto(IF tor'.instance THEN "http" ELSE "schedStop")
  /\ sched' = IF tor'.instance THEN sched ELSE "stopping"
  /\ UNCHANGED <<dbVars, updVars, config, sig, faults>>

\* A Tor that does not close is logged and left; the scheduler is next.
StopTor(ok) ==
  /\ At("torStop")
  /\ ManagerStop(ok)
  /\ Outcome(ok)
  /\ Goto("schedStop")
  /\ sched' = "stopping"
  /\ UNCHANGED <<dbVars, updVars, config, sig>>

\* sched.Stop waits for the loop, hence for the task it is in.
StopScheduler ==
  /\ At("schedStop")
  /\ update["task"].at = "idle"
  /\ ProcessEnds
  /\ UNCHANGED faults

Stopping == {"audit", "http", "torStop", "schedStop"}

Shutdown == StopAudit \/ StopHTTP \/ (\E ok \in BOOLEAN : StopTor(ok)) \/ StopScheduler

-----------------------------------------------------------------------------
Boot ==
  \/ LoadConfig \/ StartScheduler \/ PickPort
  \/ \E ok \in BOOLEAN :
       \/ SaveDirectories(ok) \/ OpenPool(ok) \/ InitSchema(ok) \/ Migrate(ok)
       \/ SavePort(ok) \/ Listen(ok) \/ StartTor(ok)

Update ==
  \/ \E u \in Updater : UpdateCheck(u) \/ RestartService(u)
  \/ \E u \in Updater, ok \in BOOLEAN : UpdateStep(u, ok)
  \/ RestartSelf \/ RestartReturns \/ Releases

Next ==
  \/ Boot
  \/ \E ok \in BOOLEAN : Request(ok)
  \/ EditConfig
  \/ \E s \in Signal : SendSignal(s)
  \/ TakeSignal \/ ServerFails
  \/ Update \/ ManagerKills
  \/ Shutdown
  \/ Crash

Spec == Init /\ [][Next]_vars

\* main runs on; an update in the task ends, its transfers by their timeouts
\* at the latest; a service manager kills what it waits for.
Fairness ==
  /\ WF_vars(Shutdown)
  /\ WF_vars(\E ok \in BOOLEAN : UpdateStep("task", ok))
  /\ WF_vars(RestartService("task"))
  /\ WF_vars(ManagerKills)

FairSpec == Spec /\ Fairness

-----------------------------------------------------------------------------
(***************************************************************************)
(* Properties                                                              *)
(***************************************************************************)

Stage == {"down", "save", "saving", "pool", "schema", "migrate", "sched", "port",
          "savePort", "savingPort", "listen", "tor", "loop"} \cup Stopping

\* Every variable keeps its type, those of the composed modules included.
TypeOK ==
  /\ MigrationTypeOK /\ TorTypeOK /\ UpdaterTypeOK
  /\ config \in Setting \cup {NoFile, Torn}
  /\ main \in [at : Stage, db : Db \cup {NoFile}, port : {0, 1}, attempt : 1..MaxAttempts]
  /\ sig \in Signal \cup {NoFile}
  /\ sched \in {"off", "on", "stopping"}
  /\ faults \in 0..MaxFaults

\* A server with its HTTP port open has a database with the whole schema,
\* however many starts InitDB took to get through (InitDB, retryWithBackoff).
\* And when .db-state comes to name the database the server is started on, it
\* has every paste of the one named before, in the same version: the rows a
\* stopped copy left behind, and what users did to them since, never pass for
\* a migration (checkAndMigrateDatabase, MigrateDatabase).
DatabaseReady ==
  /\ Serving => schema[main.db] = Len(Schema)
  /\ At("migrate") => SwitchIsComplete(main.db)

\* A shutdown that has begun ends the process, whatever Tor, open requests and
\* an update in the scheduler's loop do (the terminal signal of main's loop).
ShutdownEnds == main.at \in Stopping ~> main.at \notin Stopping
=============================================================================
