------------------------------- MODULE Audit -------------------------------
(***************************************************************************)
(* The audit log (src/audit/audit.go): one logger for the process, behind  *)
(* a read-write lock, and one file that is only appended to. The two locks *)
(* are not one: a caller of GetLogger keeps the logger it was handed while *)
(* CloseGlobal closes the file under it, and what Log returns is dropped.  *)
(*                                                                         *)
(* An entry is the number of the event it reports; System stands for the   *)
(* events of the server itself. The fields of an entry, the masking of     *)
(* addresses and the JSON are left out. Audit logging is enabled.          *)
(***************************************************************************)
EXTENDS Naturals

VARIABLES
  globalLogger, \* "none", or "set" from Init to CloseGlobal
  auditFile,    \* the logger's file is "open" or "closed"
  entries       \* the events in audit.log, which outlives the process

auditVars == <<globalLogger, auditFile, entries>>

System == 0

AuditInit ==
  /\ globalLogger = "set"
  /\ auditFile = "open"
  /\ entries = {System}

\* Mutant of New: the file is opened with O_TRUNC.
Truncates == auditFile' = "open" /\ entries' = {}

\* New opens the file of the last process and appends to it.
New == auditFile' = "open" /\ UNCHANGED entries

\* Init, called by main before the server listens.
InitGlobal ==
  /\ globalLogger' = "set"
  /\ New

GetLogger == globalLogger

\* Log with the logger l, which may be nil, on a disk that takes the write or
\* does not: Recorded says whether the entry gets to the file.
Recorded(l, disk) == l = "set" /\ auditFile = "open" /\ disk

Log(e, l, disk) ==
  /\ entries' = IF Recorded(l, disk) THEN entries \cup {e} ELSE entries
  /\ UNCHANGED <<globalLogger, auditFile>>

\* Close takes no lock: a Log in progress finds the file closed.
CloseGlobal ==
  /\ globalLogger' = "none"
  /\ auditFile' = IF globalLogger = "set" THEN "closed" ELSE auditFile
  /\ UNCHANGED entries

ProcessGone ==
  /\ globalLogger' = "none"
  /\ auditFile' = "closed"
  /\ UNCHANGED entries

AuditTypeOK ==
  /\ globalLogger \in {"none", "set"}
  /\ auditFile \in {"open", "closed"}
  /\ entries \subseteq Nat
=============================================================================
