-------------------------------- MODULE Logs -------------------------------
(***************************************************************************)
(* The log files of the server and their rotation: the loggers             *)
(* (src/logger/logger.go), main's reopenLogs on SIGUSR1                    *)
(* (src/server/caspaste.go) and the handlers that write access and error   *)
(* lines (src/web/web.go).                                                 *)
(*                                                                         *)
(* logger.Logger is a struct of writers that is passed by value: the one   *)
(* of main, which the scheduler's tasks close over, and the copy in the    *)
(* configuration that every handler got at the start. A method copies the  *)
(* struct when it is called and writes afterwards, without a lock.         *)
(*                                                                         *)
(* A file is a number; a path names the newest file of its kind unless a   *)
(* rotator moved that one away. Formats, levels and the console are left   *)
(* out, and so is debug.log, which is reopened like the other three.       *)
(***************************************************************************)
EXTENDS Naturals, Sequences

CONSTANTS
  Handler,   \* requests being handled
  Managed,   \* the logs an external rotator takes care of
  MaxOpens,  \* bound: descriptors a process opens
  MaxFiles   \* bound: files of a kind over time

Kinds == {"access", "server", "error"}
Task == "task"

ASSUME LogsAssumption ==
  /\ Managed \subseteq Kinds
  /\ Task \notin Handler
  /\ MaxOpens \in Nat /\ MaxFiles \in Nat

VARIABLES
  path,    \* the file a path names; 0 for none
  files,   \* the files of each kind so far
  fds,     \* the descriptors the process opened: their file, and whether they are closed
  cur,     \* main's accessLogFd, serverLogFd and errorLogFd
  log,     \* the writers of main's logger
  cfgLog,  \* the writers of the handlers' copy
  calls,   \* the log call each goroutine is in
  main,    \* where main is: "loop", or a step of reopenLogs
  rotated, \* history: files moved away before the signal being handled, and before the next
  sealed,  \* history: files moved away before a reopening that is complete
  lost     \* history: the last line that reached no file, and whose it was

procVars == <<fds, cur, log, cfgLog, calls, main, lost>>
logsVars == <<path, files, procVars, rotated, sealed>>

Goroutine == Handler \cup {Task}
NoCall == [kind |-> "none", fd |-> 0, fresh |-> FALSE]
NoLine == [kind |-> "none", own |-> FALSE, fresh |-> FALSE]

NewFds == [k \in Kinds |-> 1]

LogsInit ==
  /\ path = [k \in Kinds |-> 1]
  /\ files = [k \in Kinds |-> 1]
  /\ fds = [k \in Kinds |-> <<[file |-> 1, closed |-> FALSE]>>]
  /\ cur = NewFds /\ log = NewFds /\ cfgLog = NewFds
  /\ calls = [g \in Goroutine |-> NoCall]
  /\ main = "loop"
  /\ rotated = [k \in Kinds |-> [now |-> {}, next |-> {}]]
  /\ sealed = [k \in Kinds |-> {}]
  /\ lost = NoLine

-----------------------------------------------------------------------------
(***************************************************************************)
(* Files                                                                   *)
(***************************************************************************)

\* os.OpenFile with O_CREATE and O_APPEND.
OpenedFile(k) == IF path[k] = 0 THEN files[k] + 1 ELSE path[k]

FilesAfterOpen(k) == IF path[k] = 0 THEN files[k] + 1 ELSE files[k]

\* An external rotator renames a file and then sends the signal.
Rotate(k) ==
  /\ k \in Managed
  /\ path[k] # 0
  /\ files[k] < MaxFiles
  /\ path' = [path EXCEPT ![k] = 0]
  /\ rotated' = [rotated EXCEPT ![k].next = @ \cup {path[k]}]
  /\ UNCHANGED <<files, procVars, sealed>>

-----------------------------------------------------------------------------
(***************************************************************************)
(* Lines                                                                   *)
(***************************************************************************)

\* A method with a value receiver: the logger is copied.
Call(g, logger, k) ==
  /\ calls[g] = NoCall
  /\ calls' = [calls EXCEPT ![g] = [kind |-> k, fd |-> logger[k], fresh |-> main = "loop"]]
  /\ UNCHANGED <<path, files, fds, cur, log, cfgLog, main, lost, rotated, sealed>>

\* Handler: HttpError for a request that failed, HttpRequest for all.
HttpError(g) == Call(g, cfgLog, "error")
HttpRequest(g) == Call(g, cfgLog, "access")

\* A scheduled task logs what it did or that it failed.
Info == Call(Task, log, "server")
Error == Call(Task, log, "error")

\* The write. Its error is dropped.
Fprintln(g) ==
  /\ calls[g] # NoCall
  /\ LET c == calls[g]
     IN  lost' = IF fds[c.kind][c.fd].closed
                 THEN [kind |-> c.kind, own |-> g = Task, fresh |-> c.fresh]
                 ELSE lost
  /\ calls' = [calls EXCEPT ![g] = NoCall]
  /\ UNCHANGED <<path, files, fds, cur, log, cfgLog, main, rotated, sealed>>

-----------------------------------------------------------------------------
(***************************************************************************)
(* reopenLogs                                                              *)
(***************************************************************************)

StepAfter(k) ==
  CASE k = "access" -> "server"
    [] k = "server" -> "error"
    [] k = "error"  -> "setAccess"

\* A call is fresh as long as no reopening begins before its write.
reopenLogs ==
  /\ main = "loop"
  /\ main' = "access"
  /\ calls' = [g \in Goroutine |-> [calls[g] EXCEPT !.fresh = FALSE]]
  /\ rotated' = [k \in Kinds |-> [now |-> rotated[k].next, next |-> {}]]
  /\ UNCHANGED <<path, files, fds, cur, log, cfgLog, lost, sealed>>

\* Mutant of CloseOld: the descriptor that was replaced stays open.
KeepsOld(k) == fds[k]

\* cur.Close
CloseOld(k) == [fds[k] EXCEPT ![cur[k]].closed = TRUE]

\* Descriptors of the process so far.
Descriptors == Len(fds["access"]) + Len(fds["server"]) + Len(fds["error"])

\* The path is opened, and then the old descriptor is closed; sealed are the
\* files the rotator may now compress.
Reopen(k) ==
  /\ main = k
  /\ Descriptors < MaxOpens
  /\ main' = StepAfter(k)
  /\ fds' = [fds EXCEPT ![k] = Append(CloseOld(k), [file |-> OpenedFile(k), closed |-> FALSE])]
  /\ path' = [path EXCEPT ![k] = OpenedFile(k)]
  /\ files' = [files EXCEPT ![k] = FilesAfterOpen(k)]
  /\ cur' = [cur EXCEPT ![k] = Len(fds[k]) + 1]
  /\ sealed' = [sealed EXCEPT ![k] = @ \cup rotated[k].now]
  /\ UNCHANGED <<log, cfgLog, calls, lost, rotated>>

\* main's own line about a path that cannot be opened.
LogFailure ==
  lost' = IF fds["error"][log["error"]].closed
          THEN [kind |-> "error", own |-> TRUE, fresh |-> TRUE]
          ELSE lost

\* The path cannot be opened: the old descriptor stays.
ReopenFails(k) ==
  /\ main = k
  /\ main' = StepAfter(k)
  /\ LogFailure
  /\ UNCHANGED <<path, files, fds, cur, log, cfgLog, calls, rotated, sealed>>

SetAccessLogWriter ==
  /\ main = "setAccess"
  /\ main' = "setFiles"
  /\ log' = [log EXCEPT !["access"] = cur["access"]]
  /\ UNCHANGED <<path, files, fds, cur, cfgLog, calls, lost, rotated, sealed>>

\* Mutant of SetFileWriters: the writers are not rebound.
NoRebinding ==
  /\ main = "setFiles"
  /\ main' = "loop"
  /\ UNCHANGED <<path, files, fds, cur, log, cfgLog, calls, lost, rotated, sealed>>

SetFileWriters ==
  /\ main = "setFiles"
  /\ main' = "loop"
  /\ log' = [log EXCEPT !["server"] = cur["server"], !["error"] = cur["error"]]
  /\ UNCHANGED <<path, files, fds, cur, cfgLog, calls, lost, rotated, sealed>>

\* The process ends, and the next one opens the files and hands out copies of
\* its logger. The first one to find a path free creates the file.
Restart ==
  /\ files' = [k \in Kinds |-> FilesAfterOpen(k)]
  /\ path' = [k \in Kinds |-> OpenedFile(k)]
  /\ fds' = [k \in Kinds |-> <<[file |-> OpenedFile(k), closed |-> FALSE]>>]
  /\ cur' = NewFds /\ log' = NewFds /\ cfgLog' = NewFds
  /\ calls' = [g \in Goroutine |-> NoCall]
  /\ main' = "loop"
  /\ lost' = NoLine
  /\ sealed' = [k \in Kinds |-> sealed[k] \cup rotated[k].now \cup rotated[k].next]
  /\ rotated' = [k \in Kinds |-> [now |-> {}, next |-> {}]]

-----------------------------------------------------------------------------
LogsNext ==
  \/ \E k \in Kinds : Rotate(k) \/ Reopen(k) \/ ReopenFails(k)
  \/ \E h \in Handler : HttpError(h) \/ HttpRequest(h)
  \/ Info \/ Error
  \/ \E g \in Goroutine : Fprintln(g)
  \/ reopenLogs \/ SetAccessLogWriter \/ SetFileWriters
  \/ Restart

LogsSpec == LogsInit /\ [][LogsNext]_logsVars

-----------------------------------------------------------------------------
(***************************************************************************)
(* Properties                                                              *)
(***************************************************************************)

Descriptor == [file : Nat, closed : BOOLEAN]

\* Every variable keeps its type.
LogsTypeOK ==
  /\ path \in [Kinds -> Nat] /\ files \in [Kinds -> Nat]
  /\ fds \in [Kinds -> Seq(Descriptor)]
  /\ cur \in [Kinds -> Nat] /\ log \in [Kinds -> Nat] /\ cfgLog \in [Kinds -> Nat]
  /\ sealed \in [Kinds -> SUBSET Nat]
  /\ rotated \in [Kinds -> [now : SUBSET Nat, next : SUBSET Nat]]
  /\ DOMAIN calls = Goroutine
  /\ \A g \in Goroutine :
       /\ DOMAIN calls[g] = DOMAIN NoCall
       /\ calls[g] = NoCall \/ calls[g].kind \in Kinds
       /\ calls[g].fd \in Nat /\ calls[g].fresh \in BOOLEAN
  /\ main \in Kinds \cup {"loop", "setAccess", "setFiles"}
  /\ lost = NoLine \/ lost.kind \in Kinds
  /\ lost.own \in BOOLEAN /\ lost.fresh \in BOOLEAN

\* A file the rotator moved away gets no more lines once the server has
\* reopened that log or was started again: no call in progress has an open
\* descriptor on it, whichever copy of the logger it uses, so it can be
\* compressed (reopenLogs: "so an external rotator can move or truncate them").
RotatedIsFinal ==
  \A g \in Goroutine : calls[g] # NoCall =>
    LET fd == fds[calls[g].kind][calls[g].fd]
    IN  fd.closed \/ fd.file \notin sealed[calls[g].kind]

\* A line of main or of a task reaches its file unless a reopening came
\* between the call and the write, or was under way: afterwards main's logger
\* writes to the new files. And a log that was not reopened loses no line at
\* all: a reopening that fails leaves the writers of all loggers working
\* (reopen: "return cur"; SetAccessLogWriter, SetFileWriters).
LinesKept ==
  lost # NoLine => /\ lost.own => ~lost.fresh
                   /\ Len(fds[lost.kind]) > 1

\* The same of the lines of the handlers (reopenLogs: "then rebinds the
\* logger writers").
HandlerLinesKept == lost # NoLine /\ ~lost.own => ~lost.fresh
=============================================================================
