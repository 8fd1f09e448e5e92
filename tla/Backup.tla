-------------------------------- MODULE Backup --------------------------------
(***************************************************************************)
(* Backup and restore: src/backup and the callers in                       *)
(* src/server/caspaste.go. The scheduled tasks of a running server and a   *)
(* maintenance command started by hand share the backup directory with no  *)
(* lock; either may fail or be killed at every step.                       *)
(* Contents are version numbers. "whole" is an archive that Verify accepts *)
(* (it decrypts, unpacks and matches its checksum), "broken" one that it   *)
(* refuses. Two maintenance commands never share a second, so the names    *)
(* they derive from the time differ.                                       *)
(***************************************************************************)
EXTENDS Integers, FiniteSets, FiniteSetsExt

CONSTANTS
  File,         \* what is staged as a file: server.yml, server.db, users.db
  Dir,          \* what is staged as a directory: template, theme
  Task,         \* scheduled tasks: backup_daily, backup_hourly
  Cli,          \* the maintenance command
  Kind,         \* per time stamp: daily, weekly, monthly or yearly
  Configured,   \* the retention section of server.yml, as written
  DefaultCap,   \* DefaultRetentionConfig: 10% of the disk
  SizeOf,       \* per name: the size its archive has
  Free,         \* free space there can be
  MaxStamp,     \* bound: maintenance commands that make an archive
  MaxVersion    \* bound: edits of the files

ASSUME ItemAssumption   == File # {} /\ File \cap Dir = {} /\ Cli \notin Task
ASSUME StampAssumption  == MaxStamp \in Nat /\ MaxVersion \in Nat
ASSUME KindAssumption   == Kind \in [1..MaxStamp -> {"daily", "weekly", "monthly", "yearly"}]
ASSUME FreeAssumption   == Free \subseteq Nat /\ DefaultCap \in Nat
ASSUME PolicyAssumption ==
  Configured \in [daily : Int, weekly : Int, monthly : Int, yearly : Int, cap : Nat]

Item == File \cup Dir
Proc == Task \cup {Cli}

\* Versions count from 1. A copy that stopped half way left Torn; restoring
\* a directory over nothing left an empty file.
Absent  == 0
Torn    == -1
Empty   == -2
Content == -2..MaxVersion

\* Names in the backup directory: caspaste_backup_<time>, pre-restore-<time>,
\* caspaste-daily and caspaste-hourly.
Full(k) == <<"full", k>>
Pre(k)  == <<"pre", k>>
Incr(t) == <<"incr", t>>
Stamp   == 1..MaxStamp
Slot    == {Full(k) : k \in Stamp} \cup {Pre(k) : k \in Stamp} \cup {Incr(t) : t \in Task}

ASSUME SizeAssumption == SizeOf \in [Slot -> Nat]

VARIABLES
  live,     \* the files of the configuration and data directories
  version,  \* the last version an edit wrote
  stamp,    \* the last time stamp used in a name
  archive,  \* the backup directory
  proc,     \* per process: its step and what it has in its temporary directory
  edited,   \* history: files written since the command staged them
  replaced, \* history: what restores have overwritten
  doomed,   \* per process: the full backups its retention is going to remove
  lost      \* history: full backups that their maker could not verify, and
            \* those that were removed because each alone is more than a cap

vars == <<live, version, stamp, archive, proc, edited, replaced, doomed, lost>>

NoSnap    == [i \in Item |-> Absent]
NoArchive == [state |-> "none", snap |-> NoSnap]
NoItem    == CHOOSE i \in File : TRUE
NoSlot    == <<"none", 0>>
Done      == [at |-> "idle", slot |-> NoSlot, source |-> NoSlot, todo |-> {}, item |-> NoItem, snap |-> NoSnap]

Step(p, at) == proc' = [proc EXCEPT ![p].at = at]
Return(p)   == proc' = [proc EXCEPT ![p] = Done]

-----------------------------------------------------------------------------
(***************************************************************************)
(* Retention                                                               *)
(***************************************************************************)

\* RetentionService.SetConfig: what is out of range is replaced.
SetConfig(c) ==
  [c EXCEPT !.daily   = IF c.daily < 1 THEN 1 ELSE @,
            !.weekly  = IF c.weekly < 0 THEN 0 ELSE @,
            !.monthly = IF c.monthly < 0 THEN 0 ELSE @,
            !.yearly  = IF c.yearly < 0 THEN 0 ELSE @]

\* The tasks use the configuration; the command always uses the defaults.
Policy(p) ==
  IF p \in Task THEN SetConfig(Configured)
  ELSE [daily |-> 1, weekly |-> 0, monthly |-> 0, yearly |-> 0, cap |-> DefaultCap]

\* The full backups ListBackups finds, whole or not; the stamp is their age.
\* Files of any other name are not its business.
ListBackups == {k \in Stamp : archive[Full(k)].state # "none"}

Total(ks) == MapThenSumSet(LAMBDA k : SizeOf[Full(k)], ks)

\* More than the policy keeps of a kind; 0 means no limit, but not for daily.
Surplus(ks, policy) ==
  {k \in ks : /\ Kind[k] # "daily" => policy[Kind[k]] > 0
              /\ Cardinality({m \in ks : m > k /\ Kind[m] = Kind[k]}) >= policy[Kind[k]]}

CapsNewestFirst(ks, cap) ==
  {k \in ks : cap > 0 /\ Total({m \in ks : m <= k}) > cap}

\* Oldest first, one after the other while the rest is still too large.
applySizeCap(ks, cap) ==
  {k \in ks : cap > 0 /\ Total({m \in ks : m >= k}) > cap}

ToDelete(ks, policy) ==
  LET surplus == Surplus(ks, policy)
  IN  surplus \cup applySizeCap(ks \ surplus, policy.cap)

\* An archive that is more than the cap of a process by itself.
TooLarge(k, p) == Policy(p).cap > 0 /\ SizeOf[Full(k)] > Policy(p).cap

-----------------------------------------------------------------------------
(***************************************************************************)
(* Create                                                                  *)
(***************************************************************************)

Begin(p, slot, source) ==
  proc' = [proc EXCEPT ![p] = [at |-> "stage", slot |-> slot, source |-> source,
                               todo |-> Item, item |-> NoItem, snap |-> NoSnap]]

\* CheckDiskSpace: no backup is listed, or there is twice the space that the
\* newest one takes. Which one that is, is left open, and disks that are
\* more than 90% full are those with no free space.
CheckDiskSpace(free) ==
  LET listed == {Full(k) : k \in ListBackups} \cup {Incr(t) : t \in Task}
      sizes  == {SizeOf[s] : s \in {s \in listed : archive[s].state # "none"}}
  IN  free > 0 /\ (sizes # {} => \E size \in sizes : free >= 2 * size)

\* The handlers of backup_daily and backup_hourly: one file each, replaced
\* every time.
TaskBackup(t) ==
  /\ proc[t].at = "idle"
  /\ \E free \in Free : CheckDiskSpace(free)
  /\ Begin(t, Incr(t), NoSlot)
  /\ UNCHANGED <<live, version, stamp, archive, edited, replaced, doomed, lost>>

\* --maintenance backup
performBackup ==
  /\ proc[Cli].at = "idle"
  /\ stamp < MaxStamp
  /\ stamp' = stamp + 1
  /\ Begin(Cli, Full(stamp + 1), NoSlot)
  /\ UNCHANGED <<live, version, archive, edited, replaced, doomed, lost>>

\* --maintenance restore: the archive is there, and a safety backup comes first.
performRestore(source) ==
  /\ proc[Cli].at = "idle"
  /\ archive[source].state # "none"
  /\ stamp < MaxStamp
  /\ stamp' = stamp + 1
  /\ Begin(Cli, Pre(stamp + 1), source)
  /\ UNCHANGED <<live, version, archive, edited, replaced, doomed, lost>>

\* What createArchive and EncryptFile make of the staged items.
Packed(p) == [state |-> "whole", snap |-> proc[p].snap]

\* Decrypting, unpacking and the checksum of the contents find nothing wrong.
verifyAndExtractArchive(slot) == archive[slot].state = "whole"

\* extractArchive: what the manifest lists, that is, what was staged.
Extracted(slot) == {i \in Item : archive[slot].snap[i] # Absent}

\* The items come in one and the same order, when staged and when restored.
Following(p) == CHOOSE i \in proc[p].todo : TRUE

\* stageBackupFiles copies one item after the other; missing ones are left out.
Stage(p) ==
  LET i == Following(p)
  IN  /\ proc[p].at = "stage"
      /\ proc[p].todo # {}
      /\ proc' = [proc EXCEPT ![p].todo = @ \ {i}, ![p].snap[i] = live[i]]
      /\ edited' = IF p = Cli THEN edited \ {i} ELSE edited
      /\ UNCHANGED <<live, version, stamp, archive, replaced, doomed, lost>>

\* moveFile on one file system.
Rename(p) ==
  /\ proc[p].at = "stage"
  /\ proc[p].todo = {}
  /\ archive' = [archive EXCEPT ![proc[p].slot] = Packed(p)]
  /\ proc' = [proc EXCEPT ![p].at = "verify", ![p].snap = NoSnap]
  /\ UNCHANGED <<live, version, stamp, edited, replaced, doomed, lost>>

\* moveFile between two file systems: the final name holds less than the
\* archive until the copy is complete.
CopyStart(p) ==
  /\ proc[p].at = "stage"
  /\ proc[p].todo = {}
  /\ archive' = [archive EXCEPT ![proc[p].slot] = [state |-> "broken", snap |-> NoSnap]]
  /\ Step(p, "copying")
  /\ UNCHANGED <<live, version, stamp, edited, replaced, doomed, lost>>

\* Retention of another process may have removed the name meanwhile.
CopyEnd(p) ==
  /\ proc[p].at = "copying"
  /\ archive' = IF archive[proc[p].slot].state = "none" THEN archive
                ELSE [archive EXCEPT ![proc[p].slot] = Packed(p)]
  /\ proc' = [proc EXCEPT ![p].at = "verify", ![p].snap = NoSnap]
  /\ UNCHANGED <<live, version, stamp, edited, replaced, doomed, lost>>

CarriesOn(p) ==
  /\ proc[p].at \in {"stage", "copying"}
  /\ IF proc[p].source # NoSlot THEN Step(p, "open") ELSE Return(p)
  /\ UNCHANGED <<live, version, stamp, archive, edited, replaced, doomed, lost>>

\* Staging, packing or moving failed: Create returns, and what the copy has
\* put under the final name stays there. A restore is given up.
CreateFails(p) ==
  /\ proc[p].at \in {"stage", "copying"}
  /\ Return(p)
  /\ UNCHANGED <<live, version, stamp, archive, edited, replaced, doomed, lost>>

\* Verify reads the archive back under its final name; when it fails, for
\* the archive or for want of space to unpack it, the name is removed.
Verify(p) ==
  /\ proc[p].at = "verify"
  /\ \/ /\ verifyAndExtractArchive(proc[p].slot)
        /\ Step(p, "apply")
        /\ UNCHANGED <<archive, lost>>
     \/ /\ archive' = [archive EXCEPT ![proc[p].slot] = NoArchive]
        /\ lost' = lost \cup {k \in Stamp : proc[p].slot = Full(k)}
        /\ Return(p)
  /\ UNCHANGED <<live, version, stamp, edited, replaced, doomed>>

\* RetentionService.Apply lists the directory and decides. A file whose Info
\* fails is left out; one that is still being copied is smaller than here,
\* and then the cap dooms no more than this.
ApplyList(p) ==
  /\ proc[p].at = "apply"
  /\ \E listed \in SUBSET ListBackups :
       doomed' = [doomed EXCEPT ![p] = ToDelete(listed, Policy(p))]
  /\ Step(p, "remove")
  /\ UNCHANGED <<live, version, stamp, archive, edited, replaced, lost>>

\* Then it removes one file after the other, whatever the directory holds by
\* now; the order they come in is left open.
ApplyRemove(p, k) ==
  /\ proc[p].at = "remove"
  /\ k \in doomed[p]
  /\ archive' = [archive EXCEPT ![Full(k)] = NoArchive]
  /\ doomed' = [doomed EXCEPT ![p] = @ \ {k}]
  /\ lost' = IF TooLarge(k, p) THEN lost \cup {k} ELSE lost
  /\ UNCHANGED <<live, version, stamp, proc, edited, replaced>>

\* A file that cannot be removed is skipped. Create has succeeded, and a
\* restore goes on.
ApplyEnd(p) ==
  /\ proc[p].at = "remove"
  /\ doomed' = [doomed EXCEPT ![p] = {}]
  /\ IF proc[p].source # NoSlot THEN Step(p, "open") ELSE Return(p)
  /\ UNCHANGED <<live, version, stamp, archive, edited, replaced, lost>>

-----------------------------------------------------------------------------
(***************************************************************************)
(* Restore                                                                 *)
(***************************************************************************)

\* Restore: the archive is verified and unpacked, or the command ends.
Open ==
  LET source == proc[Cli].source
  IN  /\ proc[Cli].at = "open"
      /\ \/ /\ verifyAndExtractArchive(source)
            /\ proc' = [proc EXCEPT ![Cli].at = "restore", ![Cli].snap = archive[source].snap,
                                    ![Cli].todo = Extracted(source)]
         \/ Return(Cli)
      /\ UNCHANGED <<live, version, stamp, archive, edited, replaced, doomed, lost>>

\* copyFile truncates the file before it fills it.
RestoreFile ==
  LET i == Following(Cli)
  IN  /\ proc[Cli].at = "restore"
      /\ proc[Cli].todo # {}
      /\ i \in File
      /\ live' = [live EXCEPT ![i] = Torn]
      /\ replaced' = IF live[i] > 0 /\ i \notin edited
                     THEN replaced \cup {<<i, live[i]>>} ELSE replaced
      /\ proc' = [proc EXCEPT ![Cli].at = "writing", ![Cli].todo = @ \ {i}, ![Cli].item = i]
      /\ UNCHANGED <<version, stamp, archive, edited, doomed, lost>>

\* The file is complete, or the copy failed, which Restore only logs.
RestoreWritten ==
  LET i == proc[Cli].item
  IN  /\ proc[Cli].at = "writing"
      /\ \/ live' = [live EXCEPT ![i] = proc[Cli].snap[i]]
         \/ UNCHANGED live
      /\ Step(Cli, "restore")
      /\ UNCHANGED <<version, stamp, archive, edited, replaced, doomed, lost>>

\* An item that cannot be opened for writing is skipped. So is a directory:
\* copyFile cannot read it, and creates a file where there was nothing.
RestoreSkip ==
  LET i == Following(Cli)
  IN  /\ proc[Cli].at = "restore"
      /\ proc[Cli].todo # {}
      /\ live' = IF i \in Dir /\ live[i] = Absent THEN [live EXCEPT ![i] = Empty] ELSE live
      /\ proc' = [proc EXCEPT ![Cli].todo = @ \ {i}]
      /\ UNCHANGED <<version, stamp, archive, edited, replaced, doomed, lost>>

RestoreEnd ==
  /\ proc[Cli].at = "restore"
  /\ proc[Cli].todo = {}
  /\ Return(Cli)
  /\ UNCHANGED <<live, version, stamp, archive, edited, replaced, doomed, lost>>

\* A process is killed; its temporary directory is of no use to anyone.
Crash(p) ==
  /\ proc[p].at # "idle"
  /\ Return(p)
  /\ doomed' = [doomed EXCEPT ![p] = {}]
  /\ UNCHANGED <<live, version, stamp, archive, edited, replaced, lost>>

\* The server or the operator writes an item.
Edit(i) ==
  /\ version < MaxVersion
  /\ version' = version + 1
  /\ live' = [live EXCEPT ![i] = version + 1]
  /\ edited' = edited \cup ({i} \cap File)
  /\ UNCHANGED <<stamp, archive, proc, replaced, doomed, lost>>

-----------------------------------------------------------------------------
Init ==
  /\ live = NoSnap
  /\ version = 0
  /\ stamp = 0
  /\ archive = [s \in Slot |-> NoArchive]
  /\ proc = [p \in Proc |-> Done]
  /\ edited = {}
  /\ replaced = {}
  /\ doomed = [p \in Proc |-> {}]
  /\ lost = {}

Create(p) ==
  \/ Stage(p)
  \/ Rename(p) \/ CopyStart(p) \/ CopyEnd(p) \/ CreateFails(p)
  \/ Verify(p)
  \/ ApplyList(p) \/ ApplyEnd(p)
  \/ \E k \in Stamp : ApplyRemove(p, k)

Restore ==
  \/ Open
  \/ RestoreFile \/ RestoreSkip
  \/ RestoreWritten
  \/ RestoreEnd

Next ==
  \/ \E t \in Task : TaskBackup(t)
  \/ performBackup
  \/ \E source \in Slot : performRestore(source)
  \/ \E p \in Proc : Create(p) \/ Crash(p)
  \/ Restore
  \/ \E i \in Item : Edit(i)

Spec == Init /\ [][Next]_vars

-----------------------------------------------------------------------------
(***************************************************************************)
(* Properties                                                              *)
(***************************************************************************)

Creating   == {"stage", "copying", "verify", "apply", "remove"}
Restoring  == {"open", "restore", "writing"}

\* The files and the processes keep their types; only the command restores,
\* and only after a safety backup.
FilesOK ==
  /\ live \in [Item -> Content]
  /\ version \in 0..MaxVersion
  /\ stamp \in 0..MaxStamp
  /\ archive \in [Slot -> [state : {"none", "broken", "whole"}, snap : [Item -> Content]]]
  /\ \A p \in Proc :
       /\ proc[p] \in [at : {"idle"} \cup Creating \cup Restoring, slot : Slot \cup {NoSlot},
                       source : Slot \cup {NoSlot}, todo : SUBSET Item, item : File,
                       snap : [Item -> Content]]
       /\ proc[p].at \in Creating => proc[p].slot \in Slot
       /\ proc[p].at \in Restoring => p = Cli /\ proc[p].slot[1] = "pre"
  /\ DOMAIN proc = Proc
  /\ edited \subseteq File
  /\ replaced \subseteq (File \X (1..MaxVersion))

\* Every variable keeps its type.
TypeOK ==
  /\ FilesOK
  /\ doomed \in [Proc -> SUBSET Stamp]
  /\ lost \subseteq Stamp

\* What a restore overwrites can be had back: a whole archive holds every
\* version that was replaced and not written after the safety backup read
\* it, through crashes, failed copies and the retention of later backups.
RestoreUndoable ==
  \A r \in replaced : \E s \in Slot :
    archive[s].state = "whole" /\ archive[s].snap[r[1]] = r[2]

Newest(k) == k \in ListBackups /\ \A m \in ListBackups : m <= k

\* Create has put the archive of k in place and is finding it unusable.
MakerRefuses(k) == proc[Cli].at = "verify" /\ proc[Cli].slot = Full(k)

\* Retention takes the newest full backup only when it alone is more than the
\* size cap, or when a newer one is gone for one of two reasons: its maker
\* could not verify it, or it alone was more than a size cap. This holds for
\* any kinds and sizes, and however listing and removing of the processes
\* interleave with each other and with new backups.
NewestFullKept ==
  [][\A k \in Stamp :
       Newest(k) /\ archive'[Full(k)].state = "none" /\ ~MakerRefuses(k)
         => k \in lost' \/ \E m \in lost : m > k]_vars
=============================================================================
