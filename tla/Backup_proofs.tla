---------------------------- MODULE Backup_proofs ----------------------------
(***************************************************************************)
(* Proofs about Backup, for any items, tasks, kinds, sizes, retention      *)
(* policy and number of commands and edits.                                *)
(***************************************************************************)
EXTENDS Backup, FiniteSetTheorems, TLAPS

\* Every process writes under names of its own: a task under the one name it
\* always uses, the command under a name with the last time stamp, which is
\* that of a safety backup when a restore is to follow.
OwnNames ==
  /\ \A t \in Task : proc[t].at # "idle" => proc[t].slot = Incr(t) /\ proc[t].source = NoSlot
  /\ proc[Cli].at # "idle" =>
       /\ stamp \in Stamp
       /\ proc[Cli].slot \in {Full(stamp), Pre(stamp)}
       /\ proc[Cli].source # NoSlot => proc[Cli].slot = Pre(stamp)
  /\ proc[Cli].at \in Restoring =>
       proc[Cli].slot = Pre(stamp) /\ proc[Cli].source # NoSlot

\* The files the command still has to overwrite.
Ahead == IF proc[Cli].at \in {"restore", "writing"} THEN File \cap proc[Cli].todo ELSE File

\* What the command has read is what is there, as long as nobody writes it:
\* first in its temporary directory, then in the archive, and while it
\* restores for the files it has not come to.
ReadIsCurrent ==
  /\ proc[Cli].at \in {"stage", "copying"} =>
       \A i \in File \ (proc[Cli].todo \cup edited) : proc[Cli].snap[i] = live[i]
  /\ proc[Cli].at = "copying" => proc[Cli].todo = {}
  /\ \/ proc[Cli].at = "verify" /\ archive[proc[Cli].slot].state = "whole"
     \/ proc[Cli].at \in {"apply", "remove"} /\ proc[Cli].slot = Pre(stamp)
     \/ proc[Cli].at \in Restoring
     => \A i \in Ahead \ edited : archive[proc[Cli].slot].snap[i] = live[i]
  /\ \/ proc[Cli].at \in {"apply", "remove"} /\ proc[Cli].slot = Pre(stamp)
     \/ proc[Cli].at \in Restoring
     => archive[proc[Cli].slot].state = "whole"
  /\ proc[Cli].at = "writing" => proc[Cli].item \notin proc[Cli].todo

\* The safety backup of time stamp k is complete, and nobody writes it.
Kept(k) ==
  /\ archive[Pre(k)].state = "whole"
  /\ ~(proc[Cli].at \in {"stage", "copying", "verify"} /\ proc[Cli].slot = Pre(k))

\* What was overwritten is in a safety backup that is kept.
ReplacedIsKept ==
  \A r \in replaced : \E k \in 1..stamp : Kept(k) /\ archive[Pre(k)].snap[r[1]] = r[2]

BackupInv == FilesOK /\ OwnNames /\ ReadIsCurrent /\ ReplacedIsKept

-----------------------------------------------------------------------------
(***************************************************************************)
(* Names and steps                                                         *)
(***************************************************************************)

Archive == [state : {"none", "broken", "whole"}, snap : [Item -> Content]]
Process == [at : {"idle"} \cup Creating \cup Restoring, slot : Slot \cup {NoSlot},
            source : Slot \cup {NoSlot}, todo : SUBSET Item, item : File,
            snap : [Item -> Content]]

\* In the next state process p is r and the others are what they were.
Becomes(p, r) ==
  /\ DOMAIN proc' = Proc
  /\ proc'[p] = r
  /\ \A q \in Proc \ {p} : proc'[q] = proc[q]

\* No two names in the backup directory are the same.
LEMMA NamesDiffer ==
  /\ \A k \in Stamp : Full(k) \in Slot /\ Pre(k) \in Slot
  /\ \A t \in Task : Incr(t) \in Slot
  /\ \A j, k : Full(j) # Pre(k) /\ Full(j) # Incr(k) /\ Pre(j) # Incr(k)
  /\ \A j, k : Pre(j) = Pre(k) => j = k
  /\ \A j, k : Full(j) = Full(k) => j = k
  /\ \A k : Pre(k)[1] = "pre"
  /\ NoSlot \notin Slot
<1>1. \A k \in Stamp : Full(k) \in Slot /\ Pre(k) \in Slot
  BY DEF Slot
<1>2. \A t \in Task : Incr(t) \in Slot
  BY DEF Slot
<1>3. \A j, k : Full(j) # Pre(k) /\ Full(j) # Incr(k) /\ Pre(j) # Incr(k)
  BY DEF Full, Pre, Incr
<1>4. (\A j, k : Pre(j) = Pre(k) => j = k) /\ (\A j, k : Full(j) = Full(k) => j = k)
  BY DEF Pre, Full
<1>5. \A k : Pre(k)[1] = "pre"
  BY DEF Pre
<1>6. NoSlot \notin Slot
  BY DEF Slot, NoSlot, Full, Pre, Incr
<1> QED BY <1>1, <1>2, <1>3, <1>4, <1>5, <1>6

\* What a process is when it does nothing.
LEMMA DoneIsProcess == Done \in Process /\ Done.at = "idle" /\ NoSnap \in [Item -> Content]
<1>1. NoItem \in File
  BY ItemAssumption DEF NoItem
<1>2. 0 \in Content
  BY StampAssumption DEF Content
<1>3. NoSnap \in [Item -> Content]
  BY <1>2 DEF NoSnap, Absent
<1> HIDE DEF NoSnap
<1> QED BY <1>1, <1>3 DEF Done, Process

\* NoArchive is an archive without contents.
LEMMA NoArchiveType == NoArchive \in Archive /\ NoArchive.state = "none"
  BY DoneIsProcess DEF NoArchive, Archive

\* The command and the tasks are processes, the files are items.
LEMMA Members == Cli \in Proc /\ Task \subseteq Proc /\ Cli \notin Task /\ File \subseteq Item
  BY ItemAssumption DEF Proc, Item

\* The types, one by one.
LEMMA Types ==
  ASSUME FilesOK
  PROVE  /\ live \in [Item -> Content]
         /\ stamp \in 0..MaxStamp /\ stamp \in Nat
         /\ archive \in [Slot -> Archive]
         /\ \A p \in Proc : proc[p] \in Process
         /\ \A p \in Proc : proc[p].at \in Creating => proc[p].slot \in Slot
         /\ DOMAIN proc = Proc
         /\ edited \subseteq File
  BY DEF FilesOK, Archive, Process

\* The statement a process is at changes and nothing else of it.
LEMMA StepBecomes ==
  ASSUME FilesOK, NEW p \in Proc, NEW a, Step(p, a)
  PROVE  Becomes(p, [at |-> a, slot |-> proc[p].slot, source |-> proc[p].source,
                     todo |-> proc[p].todo, item |-> proc[p].item, snap |-> proc[p].snap])
<1>1. proc[p] \in Process /\ DOMAIN proc = Proc
  BY Types
<1>2. [proc[p] EXCEPT !.at = a]
        = [at |-> a, slot |-> proc[p].slot, source |-> proc[p].source,
           todo |-> proc[p].todo, item |-> proc[p].item, snap |-> proc[p].snap]
  BY <1>1 DEF Process
<1>3. proc'[p] = [proc[p] EXCEPT !.at = a]
  BY <1>1 DEF Step
<1> QED BY <1>1, <1>2, <1>3 DEF Step, Becomes

\* A process that returns is done.
LEMMA ReturnBecomes ==
  ASSUME FilesOK, NEW p \in Proc, Return(p)
  PROVE  Becomes(p, Done)
  BY Types DEF Return, Becomes

\* A step that leaves everything well typed.
LEMMA TypeStep ==
  ASSUME FilesOK, NEW p \in Proc, NEW r \in Process, Becomes(p, r),
         r.at \in Creating => r.slot \in Slot,
         r.at \in Restoring => p = Cli /\ r.slot[1] = "pre",
         live' \in [Item -> Content], version' \in 0..MaxVersion, stamp' \in 0..MaxStamp,
         archive' \in [Slot -> Archive], edited' \subseteq File,
         replaced' \subseteq (File \X (1..MaxVersion))
  PROVE  FilesOK'
<1>1. ASSUME NEW q \in Proc
      PROVE  /\ proc'[q] \in Process
             /\ proc'[q].at \in Creating => proc'[q].slot \in Slot
             /\ proc'[q].at \in Restoring => q = Cli /\ proc'[q].slot[1] = "pre"
  <2>1. CASE q = p
    BY <2>1 DEF Becomes
  <2>2. CASE q # p
    BY <2>2 DEF Becomes, FilesOK, Process
  <2> QED BY <2>1, <2>2
<1>2. DOMAIN proc' = Proc
  BY DEF Becomes
<1> QED BY <1>1, <1>2 DEF FilesOK, Process, Archive

-----------------------------------------------------------------------------
(***************************************************************************)
(* What the steps of the tasks and the edits leave alone                   *)
(***************************************************************************)

\* A safety backup that is kept stays, and so does what it undoes.
LEMMA KeptFrame ==
  ASSUME ReplacedIsKept, UNCHANGED replaced, stamp \in Nat, stamp' \in Nat, stamp' >= stamp,
         \A k \in 1..stamp : Kept(k) => Kept(k)' /\ archive'[Pre(k)] = archive[Pre(k)]
  PROVE  ReplacedIsKept'
<1> SUFFICES ASSUME NEW r \in replaced
             PROVE  \E k \in 1..stamp' : Kept(k)' /\ archive'[Pre(k)].snap[r[1]] = r[2]
  BY DEF ReplacedIsKept
<1>1. PICK k \in 1..stamp : Kept(k) /\ archive[Pre(k)].snap[r[1]] = r[2]
  BY DEF ReplacedIsKept
<1>2. k \in 1..stamp'
  OBVIOUS
<1> QED BY <1>1, <1>2

\* The command's reading stays current when others write other items.
LEMMA ReadFrame ==
  ASSUME ReadIsCurrent, OwnNames, proc'[Cli] = proc[Cli], UNCHANGED stamp,
         proc[Cli].at # "idle" =>
           \/ archive'[proc[Cli].slot] = archive[proc[Cli].slot]
           \/ proc[Cli].slot # Pre(stamp) /\ archive'[proc[Cli].slot].state # "whole",
         edited \subseteq edited', \A i \in File \ edited' : live'[i] = live[i]
  PROVE  ReadIsCurrent'
<1> DEFINE c == proc[Cli]
<1>1. c' = c
  OBVIOUS
<1>2. Ahead' = Ahead /\ Ahead \subseteq File
  BY <1>1 DEF Ahead
<1>3. c.at \in {"stage", "copying"} =>
        \A i \in File \ (c.todo \cup edited') : c.snap[i] = live'[i]
  BY DEF ReadIsCurrent
<1>4. c.at = "copying" => c.todo = {}
  BY DEF ReadIsCurrent
<1>5. c.at = "writing" => c.item \notin c.todo
  BY DEF ReadIsCurrent
<1>6. \/ c.at = "verify" /\ archive'[c.slot].state = "whole"
      \/ c.at \in {"apply", "remove"} /\ c.slot = Pre(stamp)
      \/ c.at \in Restoring
      => archive'[c.slot] = archive[c.slot]
  BY DEF OwnNames, Restoring
<1>7. \/ c.at = "verify" /\ archive'[c.slot].state = "whole"
      \/ c.at \in {"apply", "remove"} /\ c.slot = Pre(stamp)
      \/ c.at \in Restoring
      => \A i \in Ahead \ edited' : archive'[c.slot].snap[i] = live'[i]
  <2> HAVE \/ c.at = "verify" /\ archive'[c.slot].state = "whole"
           \/ c.at \in {"apply", "remove"} /\ c.slot = Pre(stamp)
           \/ c.at \in Restoring
  <2>1. archive'[c.slot] = archive[c.slot]
    BY <1>6
  <2>2. \A i \in Ahead \ edited : archive[c.slot].snap[i] = live[i]
    BY <2>1 DEF ReadIsCurrent
  <2> QED BY <1>2, <2>1, <2>2
<1>8. \/ c.at \in {"apply", "remove"} /\ c.slot = Pre(stamp)
      \/ c.at \in Restoring
      => archive'[c.slot].state = "whole"
  BY <1>6 DEF ReadIsCurrent
<1> QED BY <1>1, <1>2, <1>3, <1>4, <1>5, <1>7, <1>8 DEF ReadIsCurrent

\* A step of a task: it writes under its own name, and its retention removes
\* full backups.
LEMMA TaskStep ==
  ASSUME BackupInv, NEW t \in Task, NEW r \in Process, Becomes(t, r),
         r.at \in {"idle"} \cup Creating,
         r.at # "idle" => r.slot = Incr(t) /\ r.source = NoSlot,
         UNCHANGED <<live, version, stamp, edited, replaced>>,
         archive' \in [Slot -> Archive],
         \A k \in Stamp : /\ archive'[Pre(k)] = archive[Pre(k)]
                          /\ \/ archive'[Full(k)] = archive[Full(k)]
                             \/ archive'[Full(k)].state = "none"
  PROVE  BackupInv'
<1>1. t \in Proc /\ Cli \in Proc /\ t # Cli
  BY Members
<1>2. proc'[Cli] = proc[Cli] /\ proc'[t] = r
  BY <1>1 DEF Becomes
<1>3. r.at \notin Restoring /\ (r.at \in Creating => r.slot \in Slot)
  BY NamesDiffer DEF Creating, Restoring
<1>4. FilesOK'
  <2>1. /\ live' \in [Item -> Content] /\ version' \in 0..MaxVersion /\ stamp' \in 0..MaxStamp
        /\ edited' \subseteq File /\ replaced' \subseteq (File \X (1..MaxVersion))
    BY DEF BackupInv, FilesOK
  <2> QED BY <1>1, <1>3, <2>1, TypeStep DEF BackupInv
<1>5. OwnNames'
  <2>1. ASSUME NEW q \in Task
        PROVE  proc'[q].at # "idle" => proc'[q].slot = Incr(q) /\ proc'[q].source = NoSlot
    <3>1. CASE q = t
      BY <1>2, <3>1
    <3>2. CASE q # t
      <4>1. proc'[q] = proc[q]
        BY <3>2, Members DEF Becomes
      <4> QED BY <4>1 DEF BackupInv, OwnNames
    <3> QED BY <3>1, <3>2
  <2> QED BY <1>2, <2>1 DEF BackupInv, OwnNames
<1>6. ReadIsCurrent'
  <2>1. proc[Cli].at # "idle" => stamp \in Stamp /\ proc[Cli].slot \in {Full(stamp), Pre(stamp)}
    BY DEF BackupInv, OwnNames
  <2>2. proc[Cli].at # "idle" =>
           \/ archive'[proc[Cli].slot] = archive[proc[Cli].slot]
           \/ proc[Cli].slot # Pre(stamp) /\ archive'[proc[Cli].slot].state # "whole"
    BY <2>1, NamesDiffer
  <2>3. edited \subseteq edited' /\ \A i \in File \ edited' : live'[i] = live[i]
    OBVIOUS
  <2> QED BY <1>2, <2>2, <2>3, ReadFrame DEF BackupInv
<1>7. ReplacedIsKept'
  <2>1. stamp \in Nat /\ stamp <= MaxStamp
    BY Types DEF BackupInv
  <2>2. ASSUME NEW k \in 1..stamp, Kept(k)
        PROVE  Kept(k)' /\ archive'[Pre(k)] = archive[Pre(k)]
    <3>1. k \in Stamp
      BY <2>1, StampAssumption DEF Stamp
    <3> QED BY <1>2, <2>2, <3>1 DEF Kept
  <2> QED BY <2>1, <2>2, KeptFrame DEF BackupInv
<1> QED BY <1>4, <1>5, <1>6, <1>7 DEF BackupInv

-----------------------------------------------------------------------------
(***************************************************************************)
(* What a step of the command has to show                                  *)
(***************************************************************************)

\* The stages in which the command writes under its archive's name.
Filling == {"stage", "copying", "verify"}

\* ReadIsCurrent after a step of the command, stage by stage.
LEMMA CommandReads ==
  ASSUME NEW r, proc'[Cli] = r, UNCHANGED stamp,
         r.at \in {"stage", "copying"} =>
           \A i \in File \ (r.todo \cup edited') : r.snap[i] = live'[i],
         r.at = "copying" => r.todo = {},
         r.at = "verify" /\ archive'[r.slot].state = "whole" =>
           \A i \in File \ edited' : archive'[r.slot].snap[i] = live'[i],
         (r.at \in {"apply", "remove"} /\ r.slot = Pre(stamp)) \/ r.at = "open" =>
           /\ archive'[r.slot].state = "whole"
           /\ \A i \in File \ edited' : archive'[r.slot].snap[i] = live'[i],
         r.at \in {"restore", "writing"} =>
           /\ archive'[r.slot].state = "whole"
           /\ \A i \in (File \cap r.todo) \ edited' : archive'[r.slot].snap[i] = live'[i],
         r.at = "writing" => r.item \notin r.todo
  PROVE  ReadIsCurrent'
<1>1. Ahead' = IF r.at \in {"restore", "writing"} THEN File \cap r.todo ELSE File
  BY DEF Ahead
<1>2. \/ r.at = "verify" /\ archive'[r.slot].state = "whole"
      \/ r.at \in {"apply", "remove"} /\ r.slot = Pre(stamp)
      \/ r.at \in Restoring
      => \A i \in Ahead' \ edited' : archive'[r.slot].snap[i] = live'[i]
  BY <1>1 DEF Restoring
<1>3. \/ r.at \in {"apply", "remove"} /\ r.slot = Pre(stamp)
      \/ r.at \in Restoring
      => archive'[r.slot].state = "whole"
  BY DEF Restoring
<1> QED BY <1>2, <1>3 DEF ReadIsCurrent

\* The safety backups that are kept are not the command's to write.
LEMMA CommandKeeps ==
  ASSUME BackupInv, NEW r, proc'[Cli] = r, UNCHANGED <<stamp, replaced>>,
         r.at \in Filling => proc[Cli].at \in Filling /\ r.slot = proc[Cli].slot,
         \A k \in Stamp : ~(proc[Cli].at \in Filling /\ proc[Cli].slot = Pre(k)) =>
                            archive'[Pre(k)] = archive[Pre(k)]
  PROVE  ReplacedIsKept'
<1>1. stamp \in Nat /\ stamp <= MaxStamp
  BY Types DEF BackupInv
<1>2. ASSUME NEW k \in 1..stamp, Kept(k)
      PROVE  Kept(k)' /\ archive'[Pre(k)] = archive[Pre(k)]
  <2>1. k \in Stamp
    BY <1>1, StampAssumption DEF Stamp
  <2>2. ~(proc[Cli].at \in Filling /\ proc[Cli].slot = Pre(k))
    BY <1>2 DEF Kept, Filling
  <2>3. archive'[Pre(k)] = archive[Pre(k)] /\ ~(r.at \in Filling /\ r.slot = Pre(k))
    BY <2>1, <2>2
  <2> QED BY <1>2, <2>3 DEF Kept, Filling
<1> QED BY <1>1, <1>2, KeptFrame DEF BackupInv

\* The parts of the invariant that are the same for all steps of a command.
LEMMA CommandStep ==
  ASSUME BackupInv, NEW r \in Process, Becomes(Cli, r), UNCHANGED <<version, stamp>>,
         proc[Cli].at # "idle",
         r.at # "idle" => r.slot = proc[Cli].slot /\ r.source = proc[Cli].source,
         r.at \in Restoring => proc[Cli].slot = Pre(stamp) /\ proc[Cli].source # NoSlot,
         live' \in [Item -> Content], archive' \in [Slot -> Archive], edited' \subseteq File,
         replaced' \subseteq (File \X (1..MaxVersion)),
         ReadIsCurrent', ReplacedIsKept'
  PROVE  BackupInv'
<1>1. Cli \in Proc /\ proc'[Cli] = r
  BY Members DEF Becomes
<1>2. /\ stamp \in Stamp /\ proc[Cli].slot \in {Full(stamp), Pre(stamp)}
      /\ proc[Cli].source # NoSlot => proc[Cli].slot = Pre(stamp)
  BY DEF BackupInv, OwnNames
<1>3. FilesOK'
  <2>1. version' \in 0..MaxVersion /\ stamp' \in 0..MaxStamp
    BY DEF BackupInv, FilesOK
  <2>2. r.at \in Creating => r.slot \in Slot
    BY <1>2, NamesDiffer DEF Creating
  <2>3. r.at \in Restoring => Cli = Cli /\ r.slot[1] = "pre"
    BY NamesDiffer DEF Restoring
  <2> QED BY <1>1, <2>1, <2>2, <2>3, TypeStep DEF BackupInv
<1>4. OwnNames'
  <2>1. ASSUME NEW t \in Task
        PROVE  proc'[t].at # "idle" => proc'[t].slot = Incr(t) /\ proc'[t].source = NoSlot
    <3>1. proc'[t] = proc[t]
      BY Members DEF Becomes
    <3> QED BY <3>1 DEF BackupInv, OwnNames
  <2>2. r.at # "idle" =>
          /\ stamp' \in Stamp /\ r.slot \in {Full(stamp'), Pre(stamp')}
          /\ r.source # NoSlot => r.slot = Pre(stamp')
    BY <1>2
  <2>3. r.at \in Restoring => r.slot = Pre(stamp') /\ r.source # NoSlot
    BY DEF Restoring
  <2> QED BY <1>1, <2>1, <2>2, <2>3 DEF OwnNames
<1> QED BY <1>3, <1>4 DEF BackupInv

-----------------------------------------------------------------------------
(***************************************************************************)
(* What the steps of Create do, whoever takes them                         *)
(***************************************************************************)

\* The next item is one of those to do.
LEMMA FollowingIsNext ==
  ASSUME NEW p, proc[p].todo # {}
  PROVE  Following(p) \in proc[p].todo
  BY DEF Following

\* One item is read.
LEMMA StageBecomes ==
  ASSUME FilesOK, NEW p \in Proc, Stage(p)
  PROVE  /\ Following(p) \in proc[p].todo /\ Following(p) \in Item
         /\ Becomes(p, [at |-> "stage", slot |-> proc[p].slot, source |-> proc[p].source,
                        todo |-> proc[p].todo \ {Following(p)}, item |-> proc[p].item,
                        snap |-> [proc[p].snap EXCEPT ![Following(p)] = live[Following(p)]]])
<1> DEFINE i == Following(p)
<1>1. i \in proc[p].todo
  BY FollowingIsNext DEF Stage
<1>2. proc[p] \in Process /\ DOMAIN proc = Proc
  BY Types
<1>3. i \in Item
  BY <1>1, <1>2 DEF Process
<1>4. proc[p].at = "stage" /\ proc' = [proc EXCEPT ![p].todo = @ \ {i}, ![p].snap[i] = live[i]]
  BY DEF Stage
<1> HIDE DEF i
<1>5. proc'[p] = [at |-> "stage", slot |-> proc[p].slot, source |-> proc[p].source,
                  todo |-> proc[p].todo \ {i}, item |-> proc[p].item,
                  snap |-> [proc[p].snap EXCEPT ![i] = live[i]]]
  BY <1>2, <1>4 DEF Process
<1>6. DOMAIN proc' = Proc /\ \A q \in Proc \ {p} : proc'[q] = proc[q]
  BY <1>2, <1>4
<1>7. Becomes(p, [at |-> "stage", slot |-> proc[p].slot, source |-> proc[p].source,
                  todo |-> proc[p].todo \ {i}, item |-> proc[p].item,
                  snap |-> [proc[p].snap EXCEPT ![i] = live[i]]])
  BY <1>5, <1>6 DEF Becomes
<1> QED BY <1>1, <1>3, <1>7 DEF i

\* A process that has read one more item is one.
LEMMA StagedType ==
  ASSUME FilesOK, NEW p \in Proc, NEW i \in Item
  PROVE  [at |-> "stage", slot |-> proc[p].slot, source |-> proc[p].source,
          todo |-> proc[p].todo \ {i}, item |-> proc[p].item,
          snap |-> [proc[p].snap EXCEPT ![i] = live[i]]] \in Process
<1>1. proc[p] \in Process /\ live[i] \in Content
  BY Types
<1>2. [proc[p].snap EXCEPT ![i] = live[i]] \in [Item -> Content]
  BY <1>1 DEF Process
<1>3. proc[p].todo \ {i} \in SUBSET Item
  BY <1>1 DEF Process
<1> QED BY <1>1, <1>2, <1>3 DEF Process, Creating

\* The archive has its final name.
LEMMA MovedBecomes ==
  ASSUME FilesOK, NEW p \in Proc,
         proc' = [proc EXCEPT ![p].at = "verify", ![p].snap = NoSnap]
  PROVE  Becomes(p, [at |-> "verify", slot |-> proc[p].slot, source |-> proc[p].source,
                     todo |-> proc[p].todo, item |-> proc[p].item, snap |-> NoSnap])
<1>1. proc[p] \in Process /\ DOMAIN proc = Proc
  BY Types
<1>2. proc'[p] = [at |-> "verify", slot |-> proc[p].slot, source |-> proc[p].source,
                  todo |-> proc[p].todo, item |-> proc[p].item, snap |-> NoSnap]
  BY <1>1 DEF Process
<1>3. DOMAIN proc' = Proc /\ \A q \in Proc \ {p} : proc'[q] = proc[q]
  BY <1>1
<1> QED BY <1>2, <1>3 DEF Becomes

\* An archive is written under the name of a process, and no other.
LEMMA WriteArchive ==
  ASSUME FilesOK, NEW s \in Slot, NEW a \in Archive, archive' = [archive EXCEPT ![s] = a]
  PROVE  /\ archive' \in [Slot -> Archive] /\ archive'[s] = a
         /\ \A e \in Slot \ {s} : archive'[e] = archive[e]
  BY Types

\* What Create packs is an archive, and so is one that is being copied.
LEMMA PackedType ==
  ASSUME FilesOK, NEW p \in Proc
  PROVE  /\ Packed(p) \in Archive /\ Packed(p).state = "whole" /\ Packed(p).snap = proc[p].snap
         /\ [state |-> "broken", snap |-> NoSnap] \in Archive
<1>1. proc[p].snap \in [Item -> Content]
  BY Types DEF Process
<1>2. NoSnap \in [Item -> Content]
  BY DoneIsProcess
<1> QED BY <1>1, <1>2 DEF Packed, Archive

\* Retention removes full backups and nothing else.
LEMMA RemoveArchive ==
  ASSUME FilesOK, NEW k \in Stamp, archive' = [archive EXCEPT ![Full(k)] = NoArchive]
  PROVE  /\ archive' \in [Slot -> Archive]
         /\ archive'[Full(k)].state = "none"
         /\ \A m \in Stamp : /\ archive'[Pre(m)] = archive[Pre(m)]
                             /\ m # k => archive'[Full(m)] = archive[Full(m)]
<1>1. Full(k) \in Slot
  BY NamesDiffer
<1>2. /\ archive' \in [Slot -> Archive] /\ archive'[Full(k)] = NoArchive
      /\ \A e \in Slot \ {Full(k)} : archive'[e] = archive[e]
  BY <1>1, NoArchiveType, WriteArchive
<1>3. \A m \in Stamp : Pre(m) \in Slot \ {Full(k)} /\ (m # k => Full(m) \in Slot \ {Full(k)})
  BY NamesDiffer
<1> QED BY <1>2, <1>3, NoArchiveType

-----------------------------------------------------------------------------
(***************************************************************************)
(* The steps of the tasks                                                  *)
(***************************************************************************)

\* A task that is at work has its name; the safety and full backups have others.
LEMMA TaskName ==
  ASSUME BackupInv, NEW t \in Task, proc[t].at # "idle"
  PROVE  /\ proc[t].slot = Incr(t) /\ proc[t].source = NoSlot /\ proc[t].slot \in Slot
         /\ \A k \in Stamp : /\ Pre(k) \in Slot \ {proc[t].slot}
                             /\ Full(k) \in Slot \ {proc[t].slot}
<1>1. proc[t].slot = Incr(t) /\ proc[t].source = NoSlot
  BY DEF BackupInv, OwnNames
<1> QED BY <1>1, NamesDiffer

\* A step after which the task is r and the archives are as they were.
LEMMA TaskMoves ==
  ASSUME BackupInv, NEW t \in Task, NEW r \in Process, Becomes(t, r),
         r.at \in {"idle"} \cup Creating,
         r.at # "idle" => r.slot = Incr(t) /\ r.source = NoSlot,
         UNCHANGED <<live, version, stamp, archive, edited, replaced>>
  PROVE  BackupInv'
<1>1. archive' \in [Slot -> Archive]
  BY Types DEF BackupInv
<1>2. \A k \in Stamp : /\ archive'[Pre(k)] = archive[Pre(k)]
                       /\ \/ archive'[Full(k)] = archive[Full(k)]
                          \/ archive'[Full(k)].state = "none"
  OBVIOUS
<1> QED BY <1>1, <1>2, TaskStep

\* A step with which the task is r and has put a under its name.
LEMMA TaskWrites ==
  ASSUME BackupInv, NEW t \in Task, NEW r \in Process, Becomes(t, r),
         proc[t].at # "idle", r.at \in {"idle"} \cup Creating,
         r.at # "idle" => r.slot = proc[t].slot /\ r.source = proc[t].source,
         NEW a \in Archive, archive' = [archive EXCEPT ![proc[t].slot] = a],
         UNCHANGED <<live, version, stamp, edited, replaced>>
  PROVE  BackupInv'
<1>1. /\ proc[t].slot = Incr(t) /\ proc[t].source = NoSlot /\ proc[t].slot \in Slot
      /\ \A k \in Stamp : /\ Pre(k) \in Slot \ {proc[t].slot}
                          /\ Full(k) \in Slot \ {proc[t].slot}
  BY TaskName
<1>2. archive' \in [Slot -> Archive] /\ \A e \in Slot \ {proc[t].slot} : archive'[e] = archive[e]
  BY <1>1, WriteArchive DEF BackupInv
<1>3. \A k \in Stamp : /\ archive'[Pre(k)] = archive[Pre(k)]
                       /\ \/ archive'[Full(k)] = archive[Full(k)]
                          \/ archive'[Full(k)].state = "none"
  BY <1>1, <1>2
<1> QED BY <1>1, <1>2, <1>3, TaskStep

\* Every step of a task keeps the invariant.
LEMMA TaskKeeps ==
  ASSUME BackupInv, NEW t \in Task, TaskBackup(t) \/ Create(t) \/ Crash(t)
  PROVE  BackupInv'
<1>0. t \in Proc /\ t # Cli /\ FilesOK /\ proc[t] \in Process /\ DOMAIN proc = Proc
  BY Members, Types DEF BackupInv
<1> DEFINE R(a) == [at |-> a, slot |-> proc[t].slot, source |-> proc[t].source,
                    todo |-> proc[t].todo, item |-> proc[t].item, snap |-> proc[t].snap]
<1>1. ASSUME NEW a \in Creating
      PROVE  R(a) \in Process /\ R(a).at = a /\ R(a).slot = proc[t].slot
               /\ R(a).source = proc[t].source
  BY <1>0 DEF Process
<1>2. Done \in Process /\ Done.at = "idle"
  BY DoneIsProcess
<1>3. CASE TaskBackup(t)
  <2> DEFINE b == [at |-> "stage", slot |-> Incr(t), source |-> NoSlot,
                   todo |-> Item, item |-> NoItem, snap |-> NoSnap]
  <2>1. Becomes(t, b)
    BY <1>0, <1>3 DEF TaskBackup, Begin, Becomes
  <2>2. b \in Process /\ b.at = "stage" /\ b.slot = Incr(t) /\ b.source = NoSlot
    <3>1. NoItem \in File
      BY ItemAssumption DEF NoItem
    <3>2. NoSnap \in [Item -> Content] /\ Incr(t) \in Slot
      BY DoneIsProcess, NamesDiffer
    <3> QED BY <3>1, <3>2 DEF Process, Creating
  <2>3. UNCHANGED <<live, version, stamp, archive, edited, replaced>>
    BY <1>3 DEF TaskBackup
  <2> HIDE DEF b
  <2> QED BY <2>1, <2>2, <2>3, TaskMoves DEF Creating
<1>4. CASE Stage(t)
  <2> DEFINE b == [at |-> "stage", slot |-> proc[t].slot, source |-> proc[t].source,
                   todo |-> proc[t].todo \ {Following(t)}, item |-> proc[t].item,
                   snap |-> [proc[t].snap EXCEPT ![Following(t)] = live[Following(t)]]]
  <2>1. Becomes(t, b) /\ Following(t) \in Item
    BY <1>0, <1>4, StageBecomes
  <2>2. proc[t].at # "idle"
    BY <1>4 DEF Stage
  <2>3. b \in Process
    BY <1>0, <2>1, StagedType
  <2>4. b.at = "stage" /\ b.slot = Incr(t) /\ b.source = NoSlot
    BY <2>2, TaskName
  <2>5. UNCHANGED <<live, version, stamp, archive, edited, replaced>>
    BY <1>0, <1>4 DEF Stage
  <2> HIDE DEF b
  <2> QED BY <2>1, <2>3, <2>4, <2>5, TaskMoves DEF Creating
<1>5. ASSUME proc' = [proc EXCEPT ![t].at = "verify", ![t].snap = NoSnap], proc[t].at # "idle",
             UNCHANGED <<live, version, stamp, edited, replaced>>,
             archive' = [archive EXCEPT ![proc[t].slot] = Packed(t)] \/ UNCHANGED archive
      PROVE  BackupInv'
  <2> DEFINE b == [at |-> "verify", slot |-> proc[t].slot, source |-> proc[t].source,
                   todo |-> proc[t].todo, item |-> proc[t].item, snap |-> NoSnap]
  <2>1. Becomes(t, b)
    BY <1>0, <1>5, MovedBecomes
  <2>2. b \in Process /\ b.at = "verify" /\ b.slot = proc[t].slot /\ b.source = proc[t].source
    BY <1>0, DoneIsProcess DEF Process, Creating
  <2>3. proc[t].slot = Incr(t) /\ proc[t].source = NoSlot /\ Packed(t) \in Archive
    BY <1>0, <1>5, TaskName, PackedType
  <2> HIDE DEF b
  <2>4. CASE UNCHANGED archive
    BY <1>5, <2>1, <2>2, <2>3, <2>4, TaskMoves DEF Creating
  <2>5. CASE archive' = [archive EXCEPT ![proc[t].slot] = Packed(t)]
    BY <1>5, <2>1, <2>2, <2>3, <2>5, TaskWrites DEF Creating
  <2> QED BY <1>5, <2>4, <2>5
<1>6. CASE Rename(t) \/ CopyEnd(t)
  BY <1>5, <1>6 DEF Rename, CopyEnd
<1>7. CASE CopyStart(t)
  <2>1. Becomes(t, R("copying"))
    BY <1>0, <1>7, StepBecomes DEF CopyStart
  <2>2. R("copying") \in Process /\ R("copying").at = "copying"
          /\ R("copying").slot = proc[t].slot /\ R("copying").source = proc[t].source
    BY <1>1 DEF Creating
  <2>3. [state |-> "broken", snap |-> NoSnap] \in Archive
    BY <1>0, PackedType
  <2>4. /\ proc[t].at # "idle" /\ UNCHANGED <<live, version, stamp, edited, replaced>>
        /\ archive' = [archive EXCEPT ![proc[t].slot] = [state |-> "broken", snap |-> NoSnap]]
    BY <1>7 DEF CopyStart
  <2> HIDE DEF R
  <2> QED BY <2>1, <2>2, <2>3, <2>4, TaskWrites DEF Creating
<1>8. CASE CreateFails(t) \/ Crash(t)
  <2>1. Becomes(t, Done) /\ UNCHANGED <<live, version, stamp, archive, edited, replaced>>
    BY <1>0, <1>8, ReturnBecomes DEF CreateFails, Crash
  <2> QED BY <1>2, <2>1, TaskMoves
<1>9. CASE Verify(t)
  <2>0. proc[t].at = "verify" /\ UNCHANGED <<live, version, stamp, edited, replaced>>
    BY <1>9 DEF Verify
  <2>1. CASE Step(t, "apply") /\ UNCHANGED archive
    <3>1. Becomes(t, R("apply"))
      BY <1>0, <2>1, StepBecomes
    <3>2. R("apply") \in Process /\ R("apply").at = "apply"
            /\ R("apply").slot = Incr(t) /\ R("apply").source = NoSlot
      BY <1>1, <2>0, TaskName DEF Creating
    <3> HIDE DEF R
    <3> QED BY <2>0, <2>1, <3>1, <3>2, TaskMoves DEF Creating
  <2>2. CASE archive' = [archive EXCEPT ![proc[t].slot] = NoArchive] /\ Return(t)
    <3>1. Becomes(t, Done)
      BY <1>0, <2>2, ReturnBecomes
    <3> QED BY <1>2, <2>0, <2>2, <3>1, NoArchiveType, TaskWrites
  <2> QED BY <1>9, <2>1, <2>2 DEF Verify
<1>10. CASE ApplyList(t)
  <2>1. Becomes(t, R("remove"))
    BY <1>0, <1>10, StepBecomes DEF ApplyList
  <2>2. proc[t].at # "idle" /\ UNCHANGED <<live, version, stamp, archive, edited, replaced>>
    BY <1>10 DEF ApplyList
  <2>3. R("remove") \in Process /\ R("remove").at = "remove"
          /\ R("remove").slot = Incr(t) /\ R("remove").source = NoSlot
    BY <1>1, <2>2, TaskName DEF Creating
  <2> HIDE DEF R
  <2> QED BY <2>1, <2>2, <2>3, TaskMoves DEF Creating
<1>11. ASSUME NEW k \in Stamp, ApplyRemove(t, k)
       PROVE  BackupInv'
  <2>1. /\ proc[t].at = "remove" /\ UNCHANGED <<live, version, stamp, proc, edited, replaced>>
        /\ archive' = [archive EXCEPT ![Full(k)] = NoArchive]
    BY <1>11 DEF ApplyRemove
  <2>2. Becomes(t, proc[t])
    BY <1>0, <2>1 DEF Becomes
  <2>3. proc[t].slot = Incr(t) /\ proc[t].source = NoSlot
    BY <2>1, TaskName
  <2>4. /\ archive' \in [Slot -> Archive]
        /\ \A m \in Stamp : /\ archive'[Pre(m)] = archive[Pre(m)]
                            /\ \/ archive'[Full(m)] = archive[Full(m)]
                               \/ archive'[Full(m)].state = "none"
    BY <1>0, <2>1, RemoveArchive
  <2> QED BY <1>0, <2>1, <2>2, <2>3, <2>4, TaskStep DEF Creating
<1>12. CASE ApplyEnd(t)
  <2>1. proc[t].at # "idle" /\ UNCHANGED <<live, version, stamp, archive, edited, replaced>>
    BY <1>12 DEF ApplyEnd
  <2>2. proc[t].source = NoSlot
    BY <2>1, TaskName
  <2>3. Becomes(t, Done)
    BY <1>0, <1>12, <2>2, ReturnBecomes DEF ApplyEnd
  <2> QED BY <1>2, <2>1, <2>3, TaskMoves
<1> QED BY <1>3, <1>4, <1>6, <1>7, <1>8, <1>9, <1>10, <1>11, <1>12 DEF Create

-----------------------------------------------------------------------------
(***************************************************************************)
(* The steps of the command                                                *)
(***************************************************************************)

\* A command starts, with a time stamp of its own.
LEMMA BeginKeeps ==
  ASSUME BackupInv, proc[Cli].at = "idle", stamp < MaxStamp, stamp' = stamp + 1,
         NEW s \in {Full(stamp + 1), Pre(stamp + 1)}, NEW e \in Slot \cup {NoSlot},
         e # NoSlot => s = Pre(stamp + 1), Begin(Cli, s, e),
         UNCHANGED <<live, version, archive, edited, replaced>>
  PROVE  BackupInv'
<1> DEFINE b == [at |-> "stage", slot |-> s, source |-> e,
                 todo |-> Item, item |-> NoItem, snap |-> NoSnap]
<1>1. Cli \in Proc /\ FilesOK /\ DOMAIN proc = Proc
  BY Members, Types DEF BackupInv
<1>2. stamp \in Nat /\ stamp + 1 \in Stamp /\ stamp' \in 0..MaxStamp
  BY Types, StampAssumption DEF BackupInv, Stamp
<1>3. s \in Slot
  BY <1>2, NamesDiffer
<1>4. b \in Process
  <2>1. NoItem \in File
    BY ItemAssumption DEF NoItem
  <2>2. NoSnap \in [Item -> Content]
    BY DoneIsProcess
  <2> QED BY <1>3, <2>1, <2>2 DEF Process, Creating
<1>5. Becomes(Cli, b)
  BY <1>1 DEF Begin, Becomes
<1>6. b.at = "stage" /\ b.slot = s /\ b.source = e /\ b.todo = Item
  OBVIOUS
<1> HIDE DEF b
<1>7. proc'[Cli] = b
  BY <1>5 DEF Becomes
<1>8. FilesOK'
  <2>1. /\ live' \in [Item -> Content] /\ version' \in 0..MaxVersion
        /\ archive' \in [Slot -> Archive] /\ edited' \subseteq File
        /\ replaced' \subseteq (File \X (1..MaxVersion))
    BY <1>1 DEF FilesOK, Archive
  <2>2. b.at \notin Restoring /\ (b.at \in Creating => b.slot \in Slot)
    BY <1>3, <1>6 DEF Restoring
  <2> QED BY <1>1, <1>2, <1>4, <1>5, <2>1, <2>2, TypeStep
<1>9. OwnNames'
  <2>1. ASSUME NEW t \in Task
        PROVE  proc'[t].at # "idle" => proc'[t].slot = Incr(t) /\ proc'[t].source = NoSlot
    <3>1. proc'[t] = proc[t]
      BY <1>5, Members DEF Becomes
    <3> QED BY <3>1 DEF BackupInv, OwnNames
  <2>2. b.at \notin Restoring
    BY <1>6 DEF Restoring
  <2> QED BY <1>2, <1>6, <1>7, <2>1, <2>2 DEF OwnNames
<1>10. ReadIsCurrent'
  <2>1. File \ (b.todo \cup edited') = {}
    BY <1>6, Members
  <2> QED BY <1>6, <1>7, <2>1 DEF ReadIsCurrent, Restoring
<1>11. ReplacedIsKept'
  <2>1. ASSUME NEW k \in 1..stamp, Kept(k)
        PROVE  Kept(k)' /\ archive'[Pre(k)] = archive[Pre(k)]
    <3>1. b.slot # Pre(k)
      <4>1. k # stamp + 1
        BY <1>2
      <4> QED BY <1>6, <4>1, NamesDiffer
    <3> QED BY <1>7, <2>1, <3>1 DEF Kept
  <2> QED BY <1>2, <2>1, KeptFrame DEF BackupInv
<1> QED BY <1>8, <1>9, <1>10, <1>11 DEF BackupInv

\* The command ends, and has removed its own archive or nothing.
LEMMA EndKeeps ==
  ASSUME BackupInv, proc[Cli].at # "idle", Becomes(Cli, Done),
         UNCHANGED <<live, version, stamp, edited, replaced>>,
         archive' \in [Slot -> Archive],
         \A k \in Stamp : ~(proc[Cli].at \in Filling /\ proc[Cli].slot = Pre(k)) =>
                            archive'[Pre(k)] = archive[Pre(k)]
  PROVE  BackupInv'
<1>1. Done \in Process /\ Done.at = "idle"
  BY DoneIsProcess
<1>2. proc'[Cli] = Done
  BY DEF Becomes
<1> HIDE DEF Done
<1>3. ReadIsCurrent'
  BY <1>1, <1>2, CommandReads
<1>4. ReplacedIsKept'
  BY <1>1, <1>2, CommandKeeps DEF Filling
<1>5. /\ live' \in [Item -> Content] /\ edited' \subseteq File
      /\ replaced' \subseteq (File \X (1..MaxVersion))
  BY DEF BackupInv, FilesOK
<1>6. Done.at \notin Restoring
  BY <1>1 DEF Restoring
<1> QED BY <1>1, <1>3, <1>4, <1>5, <1>6, CommandStep

\* What the command is about to write is current, file by file.
LEMMA StageKeeps ==
  ASSUME BackupInv, Stage(Cli)
  PROVE  BackupInv'
<1> DEFINE c == proc[Cli]
           i == Following(Cli)
           b == [at |-> "stage", slot |-> c.slot, source |-> c.source, todo |-> c.todo \ {i},
                 item |-> c.item, snap |-> [c.snap EXCEPT ![i] = live[i]]]
<1>1. Cli \in Proc /\ FilesOK /\ c \in Process
  BY Members, Types DEF BackupInv
<1>2. i \in c.todo /\ i \in Item /\ Becomes(Cli, b)
  BY <1>1, StageBecomes
<1>3. b \in Process
  BY <1>1, <1>2, StagedType
<1>4. /\ b.at = "stage" /\ b.slot = c.slot /\ b.source = c.source /\ b.todo = c.todo \ {i}
      /\ b.snap = [c.snap EXCEPT ![i] = live[i]]
  OBVIOUS
<1>5. c.snap \in [Item -> Content] /\ c.at = "stage"
  BY <1>1 DEF Process, Stage
<1>6. edited' = edited \ {i} /\ UNCHANGED <<live, version, stamp, archive, replaced>>
  BY DEF Stage
<1> HIDE DEF b, i
<1>7. proc'[Cli] = b
  BY <1>2 DEF Becomes
<1>8. \A j \in File \ (b.todo \cup edited') : b.snap[j] = live'[j]
  <2> SUFFICES ASSUME NEW j \in File, j \notin b.todo, j \notin edited'
               PROVE  b.snap[j] = live[j]
    BY <1>6
  <2>1. j \in Item
    BY Members
  <2>2. CASE j = i
    BY <1>2, <1>4, <1>5, <2>2
  <2>3. CASE j # i
    <3>1. j \notin c.todo /\ j \notin edited
      BY <1>4, <1>6, <2>3
    <3>2. c.snap[j] = live[j]
      BY <1>5, <3>1 DEF BackupInv, ReadIsCurrent
    <3> QED BY <1>4, <1>5, <2>1, <2>3, <3>2
  <2> QED BY <2>2, <2>3
<1>9. ReadIsCurrent'
  BY <1>4, <1>6, <1>7, <1>8, CommandReads
<1>10. ReplacedIsKept'
  BY <1>4, <1>5, <1>6, <1>7, CommandKeeps DEF Filling
<1>11. /\ live' \in [Item -> Content] /\ archive' \in [Slot -> Archive] /\ edited' \subseteq File
       /\ replaced' \subseteq (File \X (1..MaxVersion))
  BY <1>1, <1>6 DEF FilesOK, Archive
<1>12. b.at \notin Restoring
  BY <1>4 DEF Restoring
<1> QED BY <1>2, <1>3, <1>4, <1>5, <1>6, <1>9, <1>10, <1>11, <1>12, CommandStep

\* The command has moved its archive to the final name, or found that name
\* removed.
LEMMA MovedKeeps ==
  ASSUME BackupInv, proc[Cli].at \in {"stage", "copying"}, proc[Cli].todo = {},
         proc' = [proc EXCEPT ![Cli].at = "verify", ![Cli].snap = NoSnap],
         \/ archive' = [archive EXCEPT ![proc[Cli].slot] = Packed(Cli)]
         \/ UNCHANGED archive /\ archive[proc[Cli].slot].state = "none",
         UNCHANGED <<live, version, stamp, edited, replaced>>
  PROVE  BackupInv'
<1> DEFINE c == proc[Cli]
           b == [at |-> "verify", slot |-> c.slot, source |-> c.source, todo |-> c.todo,
                 item |-> c.item, snap |-> NoSnap]
<1>1. Cli \in Proc /\ FilesOK /\ c \in Process /\ c.slot \in Slot
  BY Members, Types DEF BackupInv, Creating
<1>2. Becomes(Cli, b)
  BY <1>1, MovedBecomes
<1>3. b \in Process
  BY <1>1, DoneIsProcess DEF Process, Creating
<1>4. b.at = "verify" /\ b.slot = c.slot /\ b.source = c.source
  OBVIOUS
<1> HIDE DEF b
<1>5. proc'[Cli] = b
  BY <1>2 DEF Becomes
<1>6. /\ archive' \in [Slot -> Archive]
      /\ archive'[c.slot] = Packed(Cli) \/ archive'[c.slot].state = "none"
      /\ \A e \in Slot \ {c.slot} : archive'[e] = archive[e]
  <2>1. CASE archive' = [archive EXCEPT ![c.slot] = Packed(Cli)]
    BY <1>1, <2>1, PackedType, WriteArchive
  <2>2. CASE UNCHANGED archive /\ archive[c.slot].state = "none"
    BY <1>1, <2>2, Types
  <2> QED BY <2>1, <2>2
<1>7. \A i \in File \ edited : c.snap[i] = live[i]
  BY DEF BackupInv, ReadIsCurrent
<1>8. archive'[b.slot].state = "whole" =>
        \A i \in File \ edited' : archive'[b.slot].snap[i] = live'[i]
  BY <1>1, <1>4, <1>6, <1>7, PackedType
<1>9. ReadIsCurrent'
  BY <1>4, <1>5, <1>8, CommandReads
<1>10. ReplacedIsKept'
  <2>1. ASSUME NEW k \in Stamp, ~(c.at \in Filling /\ c.slot = Pre(k))
        PROVE  archive'[Pre(k)] = archive[Pre(k)]
    BY <1>6, <2>1, NamesDiffer DEF Filling
  <2> QED BY <1>4, <1>5, <2>1, CommandKeeps DEF Filling
<1>11. /\ live' \in [Item -> Content] /\ edited' \subseteq File
       /\ replaced' \subseteq (File \X (1..MaxVersion))
  BY <1>1 DEF FilesOK
<1>12. b.at \notin Restoring
  BY <1>4 DEF Restoring
<1> QED BY <1>2, <1>3, <1>4, <1>6, <1>9, <1>10, <1>11, <1>12, CommandStep

\* The command has begun to copy its archive to the final name.
LEMMA CopyStartKeeps ==
  ASSUME BackupInv, CopyStart(Cli)
  PROVE  BackupInv'
<1> DEFINE c == proc[Cli]
           b == [at |-> "copying", slot |-> c.slot, source |-> c.source, todo |-> c.todo,
                 item |-> c.item, snap |-> c.snap]
           a == [state |-> "broken", snap |-> NoSnap]
<1>1. Cli \in Proc /\ FilesOK /\ c \in Process /\ c.slot \in Slot /\ c.at = "stage" /\ c.todo = {}
  BY Members, Types DEF BackupInv, Creating, CopyStart
<1>2. Becomes(Cli, b)
  BY <1>1, StepBecomes DEF CopyStart
<1>3. b \in Process
  BY <1>1 DEF Process, Creating
<1>4. b.at = "copying" /\ b.slot = c.slot /\ b.source = c.source /\ b.todo = {} /\ b.snap = c.snap
  BY <1>1
<1>5. /\ archive' = [archive EXCEPT ![c.slot] = a]
      /\ UNCHANGED <<live, version, stamp, edited, replaced>>
  BY DEF CopyStart
<1>6. a \in Archive
  BY <1>1, PackedType
<1> HIDE DEF b, a
<1>7. proc'[Cli] = b
  BY <1>2 DEF Becomes
<1>8. archive' \in [Slot -> Archive] /\ \A e \in Slot \ {c.slot} : archive'[e] = archive[e]
  BY <1>1, <1>5, <1>6, WriteArchive
<1>9. \A i \in File \ (b.todo \cup edited') : b.snap[i] = live'[i]
  BY <1>1, <1>4, <1>5 DEF BackupInv, ReadIsCurrent
<1>10. ReadIsCurrent'
  BY <1>4, <1>5, <1>7, <1>9, CommandReads
<1>11. ReplacedIsKept'
  <2>1. ASSUME NEW k \in Stamp, ~(c.at \in Filling /\ c.slot = Pre(k))
        PROVE  archive'[Pre(k)] = archive[Pre(k)]
    BY <1>1, <1>8, <2>1, NamesDiffer DEF Filling
  <2> QED BY <1>1, <1>4, <1>5, <1>7, <2>1, CommandKeeps DEF Filling
<1>12. /\ live' \in [Item -> Content] /\ edited' \subseteq File
       /\ replaced' \subseteq (File \X (1..MaxVersion))
  BY <1>1, <1>5 DEF FilesOK
<1>13. b.at \notin Restoring
  BY <1>4 DEF Restoring
<1> QED BY <1>1, <1>2, <1>3, <1>4, <1>5, <1>8, <1>10, <1>11, <1>12, <1>13, CommandStep

\* The command goes to another stage, and its archive stays.
LEMMA AdvanceKeeps ==
  ASSUME BackupInv, NEW a \in {"apply", "remove", "open"},
         Becomes(Cli, [at |-> a, slot |-> proc[Cli].slot, source |-> proc[Cli].source,
                       todo |-> proc[Cli].todo, item |-> proc[Cli].item, snap |-> proc[Cli].snap]),
         UNCHANGED <<live, version, stamp, edited, replaced>>,
         archive' \in [Slot -> Archive], \A k \in Stamp : archive'[Pre(k)] = archive[Pre(k)],
         \/ proc[Cli].at = "verify" /\ archive[proc[Cli].slot].state = "whole" /\ a = "apply"
         \/ proc[Cli].at \in {"apply", "remove"} /\ a = "remove"
         \/ proc[Cli].at = "remove" /\ proc[Cli].source # NoSlot /\ a = "open"
  PROVE  BackupInv'
<1> DEFINE c == proc[Cli]
           b == [at |-> a, slot |-> c.slot, source |-> c.source, todo |-> c.todo,
                 item |-> c.item, snap |-> c.snap]
<1>1. Cli \in Proc /\ FilesOK /\ c \in Process /\ stamp \in Stamp
  BY Members, Types DEF BackupInv, OwnNames
<1>2. Becomes(Cli, b)
  OBVIOUS
<1>3. b \in Process
  BY <1>1 DEF Process, Creating, Restoring
<1>4. b.at = a /\ b.slot = c.slot /\ b.source = c.source
  OBVIOUS
<1> HIDE DEF b
<1>5. proc'[Cli] = b
  BY <1>2 DEF Becomes
<1>6. a = "open" => c.slot = Pre(stamp)
  BY DEF BackupInv, OwnNames
<1>7. c.slot = Pre(stamp) =>
        /\ archive[c.slot].state = "whole"
        /\ \A i \in File \ edited : archive[c.slot].snap[i] = live[i]
  <2> HAVE c.slot = Pre(stamp)
  <2>1. Ahead = File
    BY DEF Ahead
  <2> QED BY <2>1 DEF BackupInv, ReadIsCurrent
<1>8. (a \in {"apply", "remove"} /\ c.slot = Pre(stamp)) \/ a = "open" =>
        /\ archive'[c.slot].state = "whole"
        /\ \A i \in File \ edited' : archive'[c.slot].snap[i] = live'[i]
  BY <1>1, <1>6, <1>7
<1>9. ReadIsCurrent'
  BY <1>4, <1>5, <1>8, CommandReads
<1>10. ReplacedIsKept'
  BY <1>4, <1>5, CommandKeeps DEF Filling
<1>11. /\ live' \in [Item -> Content] /\ edited' \subseteq File
       /\ replaced' \subseteq (File \X (1..MaxVersion))
  BY <1>1 DEF FilesOK
<1>12. b.at \in Restoring => c.slot = Pre(stamp) /\ c.source # NoSlot
  BY <1>4, <1>6 DEF Restoring
<1> QED BY <1>2, <1>3, <1>4, <1>9, <1>10, <1>11, <1>12, CommandStep

\* Every step of Create keeps the invariant when the command takes it.
LEMMA CommandCreateKeeps ==
  ASSUME BackupInv, Create(Cli) \/ Crash(Cli)
  PROVE  BackupInv'
<1>0. Cli \in Proc /\ FilesOK /\ archive \in [Slot -> Archive]
  BY Members, Types DEF BackupInv
<1>1. CASE Stage(Cli)
  BY <1>1, StageKeeps
<1>2. CASE Rename(Cli)
  BY <1>2, MovedKeeps DEF Rename
<1>3. CASE CopyStart(Cli)
  BY <1>3, CopyStartKeeps
<1>4. CASE CopyEnd(Cli)
  <2>1. proc[Cli].todo = {}
    BY <1>4 DEF CopyEnd, BackupInv, ReadIsCurrent
  <2> QED BY <1>4, <2>1, MovedKeeps DEF CopyEnd
<1>5. CASE CreateFails(Cli) \/ Crash(Cli)
  <2>1. /\ Becomes(Cli, Done) /\ proc[Cli].at # "idle"
        /\ UNCHANGED <<live, version, stamp, archive, edited, replaced>>
    BY <1>0, <1>5, ReturnBecomes DEF CreateFails, Crash
  <2> QED BY <1>0, <2>1, EndKeeps
<1>6. CASE Verify(Cli)
  <2>0. proc[Cli].at = "verify" /\ UNCHANGED <<live, version, stamp, edited, replaced>>
    BY <1>6 DEF Verify
  <2>1. CASE verifyAndExtractArchive(proc[Cli].slot) /\ Step(Cli, "apply") /\ UNCHANGED archive
    BY <1>0, <2>0, <2>1, StepBecomes, AdvanceKeeps DEF verifyAndExtractArchive
  <2>2. CASE archive' = [archive EXCEPT ![proc[Cli].slot] = NoArchive] /\ Return(Cli)
    <3>1. proc[Cli].slot \in Slot
      BY <1>0, <2>0, Types DEF Creating
    <3>2. /\ archive' \in [Slot -> Archive]
          /\ \A e \in Slot \ {proc[Cli].slot} : archive'[e] = archive[e]
      BY <1>0, <2>2, <3>1, WriteArchive, NoArchiveType
    <3>3. ASSUME NEW k \in Stamp, ~(proc[Cli].at \in Filling /\ proc[Cli].slot = Pre(k))
          PROVE  archive'[Pre(k)] = archive[Pre(k)]
      BY <2>0, <3>2, <3>3, NamesDiffer DEF Filling
    <3>4. Becomes(Cli, Done)
      BY <1>0, <2>2, ReturnBecomes
    <3> QED BY <2>0, <3>2, <3>3, <3>4, EndKeeps
  <2> QED BY <1>6, <2>1, <2>2 DEF Verify
<1>7. CASE ApplyList(Cli)
  <2>1. /\ proc[Cli].at = "apply" /\ Step(Cli, "remove")
        /\ UNCHANGED <<live, version, stamp, archive, edited, replaced>>
    BY <1>7 DEF ApplyList
  <2> QED BY <1>0, <2>1, StepBecomes, AdvanceKeeps
<1>8. ASSUME NEW k \in Stamp, ApplyRemove(Cli, k)
      PROVE  BackupInv'
  <2>1. /\ proc[Cli].at = "remove" /\ UNCHANGED <<live, version, stamp, proc, edited, replaced>>
        /\ archive' = [archive EXCEPT ![Full(k)] = NoArchive]
    BY <1>8 DEF ApplyRemove
  <2>2. proc[Cli] \in Process /\ DOMAIN proc = Proc
    BY <1>0, Types
  <2>3. proc[Cli] = [at |-> "remove", slot |-> proc[Cli].slot, source |-> proc[Cli].source,
                     todo |-> proc[Cli].todo, item |-> proc[Cli].item, snap |-> proc[Cli].snap]
    BY <2>1, <2>2 DEF Process
  <2>4. Becomes(Cli, [at |-> "remove", slot |-> proc[Cli].slot, source |-> proc[Cli].source,
                      todo |-> proc[Cli].todo, item |-> proc[Cli].item, snap |-> proc[Cli].snap])
    BY <2>1, <2>2, <2>3 DEF Becomes
  <2>5. archive' \in [Slot -> Archive] /\ \A m \in Stamp : archive'[Pre(m)] = archive[Pre(m)]
    BY <1>0, <2>1, RemoveArchive
  <2> QED BY <2>1, <2>4, <2>5, AdvanceKeeps
<1>9. CASE ApplyEnd(Cli)
  <2>1. /\ proc[Cli].at = "remove"
        /\ UNCHANGED <<live, version, stamp, archive, edited, replaced>>
    BY <1>9 DEF ApplyEnd
  <2>2. CASE proc[Cli].source # NoSlot
    <3>1. Step(Cli, "open")
      BY <1>9, <2>2 DEF ApplyEnd
    <3> QED BY <1>0, <2>1, <2>2, <3>1, StepBecomes, AdvanceKeeps
  <2>3. CASE proc[Cli].source = NoSlot
    <3>1. Becomes(Cli, Done)
      BY <1>0, <1>9, <2>3, ReturnBecomes DEF ApplyEnd
    <3> QED BY <1>0, <2>1, <3>1, EndKeeps
  <2> QED BY <2>2, <2>3
<1> QED BY <1>1, <1>2, <1>3, <1>4, <1>5, <1>6, <1>7, <1>8, <1>9 DEF Create

-----------------------------------------------------------------------------
(***************************************************************************)
(* Restore                                                                 *)
(***************************************************************************)

\* While a restore is under way its safety backup is whole, and current for
\* the files that are still to come.
LEMMA SafetyBackupIsThere ==
  ASSUME BackupInv, proc[Cli].at \in Restoring
  PROVE  /\ stamp \in Stamp /\ proc[Cli].slot = Pre(stamp)
         /\ proc[Cli].source # NoSlot /\ archive[Pre(stamp)].state = "whole"
         /\ \A i \in Ahead \ edited : archive[Pre(stamp)].snap[i] = live[i]
<1>1. stamp \in Stamp /\ proc[Cli].slot = Pre(stamp) /\ proc[Cli].source # NoSlot
  BY DEF BackupInv, OwnNames, Restoring
<1> QED BY <1>1 DEF BackupInv, ReadIsCurrent

\* A step of a restore that replaces nothing that could be had back.
LEMMA RestoreStep ==
  ASSUME BackupInv, proc[Cli].at \in Restoring, NEW r \in Process, Becomes(Cli, r),
         r.at \in Restoring, r.slot = proc[Cli].slot, r.source = proc[Cli].source,
         UNCHANGED <<version, stamp, archive, edited, replaced>>,
         live' \in [Item -> Content],
         r.at \in {"restore", "writing"}, r.todo \subseteq Ahead \cup Dir,
         \A i \in File \cap r.todo : live'[i] = live[i],
         r.at = "writing" => r.item \notin r.todo
  PROVE  BackupInv'
<1>1. /\ stamp \in Stamp /\ proc[Cli].slot = Pre(stamp)
      /\ proc[Cli].source # NoSlot /\ archive[Pre(stamp)].state = "whole"
      /\ \A i \in Ahead \ edited : archive[Pre(stamp)].snap[i] = live[i]
  BY SafetyBackupIsThere
<1>2. proc'[Cli] = r
  BY DEF Becomes
<1>3. \A i \in (File \cap r.todo) \ edited' : archive'[r.slot].snap[i] = live'[i]
  <2> TAKE i \in (File \cap r.todo) \ edited'
  <2>1. i \in Ahead
    BY ItemAssumption
  <2> QED BY <1>1, <2>1
<1>4. ReadIsCurrent'
  BY <1>1, <1>2, <1>3, CommandReads
<1>5. r.at \notin Filling
  BY DEF Filling
<1>6. ReplacedIsKept'
  BY <1>2, <1>5, CommandKeeps
<1>7. /\ archive' \in [Slot -> Archive] /\ edited' \subseteq File
      /\ replaced' \subseteq (File \X (1..MaxVersion))
  BY DEF BackupInv, FilesOK, Archive
<1>8. proc[Cli].at # "idle"
  BY DEF Restoring
<1> QED BY <1>1, <1>4, <1>6, <1>7, <1>8, CommandStep

\* The archive to restore is unpacked.
LEMMA OpenKeeps ==
  ASSUME BackupInv, Open
  PROVE  BackupInv'
<1> DEFINE c == proc[Cli]
<1>1. /\ Cli \in Proc /\ FilesOK /\ c \in Process /\ archive \in [Slot -> Archive]
      /\ DOMAIN proc = Proc /\ live \in [Item -> Content]
  BY Members, Types DEF BackupInv
<1>2. c.at = "open" /\ UNCHANGED <<live, version, stamp, archive, edited, replaced>>
  BY DEF Open
<1>3. CASE Return(Cli)
  BY <1>1, <1>2, <1>3, ReturnBecomes, EndKeeps
<1>4. CASE /\ verifyAndExtractArchive(c.source)
           /\ proc' = [proc EXCEPT ![Cli].at = "restore", ![Cli].snap = archive[c.source].snap,
                                   ![Cli].todo = Extracted(c.source)]
  <2> DEFINE x == archive[c.source].snap
             e == Extracted(c.source)
             b == [at |-> "restore", slot |-> c.slot, source |-> c.source, todo |-> e,
                   item |-> c.item, snap |-> x]
  <2>1. c.source \in Slot
    <3>1. c.source \in Slot \cup {NoSlot}
      BY <1>1 DEF Process
    <3>2. c.source # NoSlot
      BY <1>2, SafetyBackupIsThere DEF Restoring
    <3> QED BY <3>1, <3>2
  <2>2. x \in [Item -> Content] /\ e \in SUBSET Item
    BY <1>1, <2>1 DEF Archive, Extracted
  <2>3. proc' = [proc EXCEPT ![Cli].at = "restore", ![Cli].snap = x, ![Cli].todo = e]
    BY <1>4
  <2> HIDE DEF x, e
  <2>4. proc'[Cli] = b
    BY <1>1, <2>3 DEF Process
  <2>5. Becomes(Cli, b)
    BY <1>1, <2>3, <2>4 DEF Becomes
  <2>6. b \in Process
    BY <1>1, <2>2 DEF Process, Restoring
  <2>7. b.at = "restore" /\ b.slot = c.slot /\ b.source = c.source /\ b.todo = e
    OBVIOUS
  <2>8. e \subseteq Ahead \cup Dir
    BY <1>2, <2>2 DEF Ahead, Item
  <2> HIDE DEF b
  <2> QED BY <1>1, <1>2, <2>5, <2>6, <2>7, <2>8, RestoreStep DEF Restoring
<1> QED BY <1>3, <1>4 DEF Open

\* A file is emptied to be overwritten: if it can be had back at all, it is in
\* the safety backup of this restore.
LEMMA RestoreFileKeeps ==
  ASSUME BackupInv, RestoreFile
  PROVE  BackupInv'
<1> DEFINE c == proc[Cli]
           i == Following(Cli)
           b == [at |-> "writing", slot |-> c.slot, source |-> c.source, todo |-> c.todo \ {i},
                 item |-> i, snap |-> c.snap]
<1>1. /\ Cli \in Proc /\ FilesOK /\ c \in Process /\ DOMAIN proc = Proc
      /\ live \in [Item -> Content]
  BY Members, Types DEF BackupInv
<1>2. c.at = "restore" /\ i \in c.todo /\ i \in File
  BY FollowingIsNext DEF RestoreFile
<1>3. /\ live' = [live EXCEPT ![i] = Torn]
      /\ replaced' = IF live[i] > 0 /\ i \notin edited
                     THEN replaced \cup {<<i, live[i]>>} ELSE replaced
      /\ proc' = [proc EXCEPT ![Cli].at = "writing", ![Cli].todo = @ \ {i}, ![Cli].item = i]
      /\ UNCHANGED <<version, stamp, archive, edited>>
  BY DEF RestoreFile
<1> HIDE DEF i
<1>4. proc'[Cli] = b
  BY <1>1, <1>3 DEF Process
<1>5. Becomes(Cli, b)
  BY <1>1, <1>3, <1>4 DEF Becomes
<1>6. b \in Process
  BY <1>1, <1>2 DEF Process, Restoring
<1>7. /\ b.at = "writing" /\ b.slot = c.slot /\ b.source = c.source /\ b.todo = c.todo \ {i}
      /\ b.item = i
  OBVIOUS
<1> HIDE DEF b
<1>8. /\ stamp \in Stamp /\ c.slot = Pre(stamp) /\ c.source # NoSlot
      /\ archive[Pre(stamp)].state = "whole"
      /\ \A j \in Ahead \ edited : archive[Pre(stamp)].snap[j] = live[j]
  BY <1>2, SafetyBackupIsThere DEF Restoring
<1>9. i \in Ahead /\ i \in Item
  BY <1>2, Members DEF Ahead
<1>10. live' \in [Item -> Content]
  <2>1. Torn \in Content
    BY StampAssumption DEF Torn, Content
  <2> QED BY <1>1, <1>3, <2>1
<1>11. ReadIsCurrent'
  <2>1. \A j \in (File \cap b.todo) \ edited' : archive'[b.slot].snap[j] = live'[j]
    <3> TAKE j \in (File \cap b.todo) \ edited'
    <3>1. j \in Ahead /\ j # i /\ j \in Item /\ j \notin edited
      BY <1>2, <1>3, <1>7, Members DEF Ahead
    <3>2. live'[j] = live[j]
      BY <1>1, <1>3, <3>1
    <3> QED BY <1>3, <1>7, <1>8, <3>1, <3>2
  <2> QED BY <1>3, <1>4, <1>7, <1>8, <2>1, CommandReads
<1>12. ReplacedIsKept'
  <2>1. stamp \in Nat /\ stamp <= MaxStamp
    BY <1>1, Types
  <2>2. ASSUME NEW k \in 1..stamp, Kept(k)
        PROVE  Kept(k)' /\ archive'[Pre(k)] = archive[Pre(k)]
    BY <1>3, <1>4, <1>7, <2>2 DEF Kept
  <2> SUFFICES ASSUME NEW r \in replaced'
               PROVE  \E k \in 1..stamp' : Kept(k)' /\ archive'[Pre(k)].snap[r[1]] = r[2]
    BY DEF ReplacedIsKept
  <2>3. CASE r \in replaced
    <3>1. PICK k \in 1..stamp : Kept(k) /\ archive[Pre(k)].snap[r[1]] = r[2]
      BY <2>3 DEF BackupInv, ReplacedIsKept
    <3> QED BY <1>3, <2>2, <3>1
  <2>4. CASE r \notin replaced
    <3>1. r = <<i, live[i]>> /\ i \notin edited
      BY <1>3, <2>4
    <3>2. archive[Pre(stamp)].snap[i] = live[i]
      BY <1>8, <1>9, <3>1
    <3>3. stamp \in 1..stamp'
      BY <1>3, <1>8, <2>1 DEF Stamp
    <3>4. r[1] = i /\ r[2] = live[i]
      BY <3>1
    <3>5. archive'[Pre(stamp)].snap[r[1]] = r[2]
      BY <1>3, <3>2, <3>4
    <3>6. \A k : k = stamp => (Kept(k)' /\ archive'[Pre(k)].snap[r[1]] = r[2])
      BY <1>3, <1>4, <1>7, <1>8, <3>5 DEF Kept
    <3> QED BY <3>3, <3>6
  <2> QED BY <2>3, <2>4
<1>13. archive' \in [Slot -> Archive] /\ edited' \subseteq File
  BY <1>1, <1>3, Types
<1>14. replaced' \subseteq (File \X (1..MaxVersion))
  <2>1. replaced \subseteq (File \X (1..MaxVersion))
    BY <1>1 DEF FilesOK
  <2>2. live[i] > 0 => live[i] \in 1..MaxVersion
    BY <1>1, <1>9, StampAssumption DEF Content
  <2>3. live[i] > 0 => <<i, live[i]>> \in File \X (1..MaxVersion)
    BY <1>2, <2>2
  <2> QED BY <1>3, <2>1, <2>3
<1>15. c.at # "idle" /\ UNCHANGED <<version, stamp>>
  BY <1>2, <1>3
<1> QED BY <1>5, <1>6, <1>7, <1>8, <1>10, <1>11, <1>12, <1>13, <1>14, <1>15, CommandStep

\* The file that was emptied is filled, or is not.
LEMMA RestoreWrittenKeeps ==
  ASSUME BackupInv, RestoreWritten
  PROVE  BackupInv'
<1> DEFINE c == proc[Cli]
           i == c.item
           b == [at |-> "restore", slot |-> c.slot, source |-> c.source, todo |-> c.todo,
                 item |-> c.item, snap |-> c.snap]
<1>1. /\ Cli \in Proc /\ FilesOK /\ c \in Process /\ live \in [Item -> Content]
  BY Members, Types DEF BackupInv
<1>2. /\ c.at = "writing" /\ UNCHANGED <<version, stamp, archive, edited, replaced>>
      /\ live' = [live EXCEPT ![i] = c.snap[i]] \/ live' = live
  BY DEF RestoreWritten
<1>3. Becomes(Cli, b)
  BY <1>1, StepBecomes DEF RestoreWritten
<1>4. b \in Process
  BY <1>1 DEF Process, Restoring
<1>5. b.at = "restore" /\ b.slot = c.slot /\ b.source = c.source /\ b.todo = c.todo
  OBVIOUS
<1> HIDE DEF b
<1>6. i \in File /\ c.snap \in [Item -> Content] /\ i \in Item /\ c.todo \in SUBSET Item
  BY <1>1, Members DEF Process
<1>7. live' \in [Item -> Content]
  BY <1>1, <1>2, <1>6
<1>8. i \notin c.todo
  BY <1>2 DEF BackupInv, ReadIsCurrent
<1>9. \A j \in File \cap b.todo : live'[j] = live[j]
  <2> TAKE j \in File \cap b.todo
  <2>1. j # i /\ j \in Item
    BY <1>5, <1>8, Members
  <2> QED BY <1>1, <1>2, <2>1
<1>10. b.todo \subseteq Ahead \cup Dir
  BY <1>2, <1>5, <1>6 DEF Ahead, Item
<1> QED BY <1>2, <1>3, <1>4, <1>5, <1>7, <1>9, <1>10, RestoreStep DEF Restoring

\* An item is passed over.
LEMMA RestoreSkipKeeps ==
  ASSUME BackupInv, RestoreSkip
  PROVE  BackupInv'
<1> DEFINE c == proc[Cli]
           i == Following(Cli)
           b == [at |-> "restore", slot |-> c.slot, source |-> c.source, todo |-> c.todo \ {i},
                 item |-> c.item, snap |-> c.snap]
<1>1. /\ Cli \in Proc /\ FilesOK /\ c \in Process /\ DOMAIN proc = Proc
      /\ live \in [Item -> Content]
  BY Members, Types DEF BackupInv
<1>2. /\ c.at = "restore" /\ i \in c.todo
      /\ UNCHANGED <<version, stamp, archive, edited, replaced>>
      /\ live' = IF i \in Dir /\ live[i] = Absent THEN [live EXCEPT ![i] = Empty] ELSE live
      /\ proc' = [proc EXCEPT ![Cli].todo = @ \ {i}]
  BY FollowingIsNext DEF RestoreSkip
<1> HIDE DEF i
<1>3. proc'[Cli] = b
  BY <1>1, <1>2 DEF Process
<1>4. Becomes(Cli, b)
  BY <1>1, <1>2, <1>3 DEF Becomes
<1>5. b \in Process
  BY <1>1, <1>2 DEF Process, Restoring
<1>6. b.at = "restore" /\ b.slot = c.slot /\ b.source = c.source /\ b.todo = c.todo \ {i}
  OBVIOUS
<1> HIDE DEF b
<1>7. c.todo \in SUBSET Item
  BY <1>1 DEF Process
<1>8. live' \in [Item -> Content]
  <2>1. Empty \in Content
    BY StampAssumption DEF Empty, Content
  <2> QED BY <1>1, <1>2, <2>1
<1>9. \A j \in File \cap b.todo : live'[j] = live[j]
  <2> TAKE j \in File \cap b.todo
  <2>1. j # i /\ j \in Item
    BY <1>6, Members
  <2> QED BY <1>1, <1>2, <2>1
<1>10. b.todo \subseteq Ahead \cup Dir
  BY <1>2, <1>6, <1>7 DEF Ahead, Item
<1> QED BY <1>2, <1>4, <1>5, <1>6, <1>8, <1>9, <1>10, RestoreStep DEF Restoring

\* An edit is seen by whoever has read the file before.
LEMMA EditKeeps ==
  ASSUME BackupInv, NEW i \in Item, Edit(i)
  PROVE  BackupInv'
<1>1. /\ FilesOK /\ live \in [Item -> Content] /\ version \in 0..MaxVersion
  BY Types DEF BackupInv, FilesOK
<1>2. /\ version < MaxVersion /\ version' = version + 1
      /\ live' = [live EXCEPT ![i] = version + 1]
      /\ edited' = edited \cup ({i} \cap File)
      /\ UNCHANGED <<stamp, archive, proc, replaced>>
  BY DEF Edit
<1>3. version' \in 0..MaxVersion /\ version + 1 \in Content
  BY <1>1, <1>2, StampAssumption DEF Content
<1>4. FilesOK'
  <2>1. live' \in [Item -> Content] /\ edited' \subseteq File
    BY <1>1, <1>2, <1>3 DEF FilesOK
  <2> QED BY <1>1, <1>2, <1>3, <2>1 DEF FilesOK
<1>5. OwnNames'
  BY <1>2 DEF BackupInv, OwnNames
<1>6. ReadIsCurrent'
  <2>1. edited \subseteq edited' /\ \A j \in File \ edited' : live'[j] = live[j]
    BY <1>1, <1>2, Members
  <2> QED BY <1>2, <2>1, ReadFrame DEF BackupInv
<1>7. ReplacedIsKept'
  <2>1. stamp \in Nat
    BY <1>1, Types
  <2>2. ASSUME NEW k \in 1..stamp, Kept(k)
        PROVE  Kept(k)' /\ archive'[Pre(k)] = archive[Pre(k)]
    BY <1>2, <2>2 DEF Kept
  <2> QED BY <1>2, <2>1, <2>2, KeptFrame DEF BackupInv
<1> QED BY <1>4, <1>5, <1>6, <1>7 DEF BackupInv

-----------------------------------------------------------------------------
(***************************************************************************)
(* The theorems                                                            *)
(***************************************************************************)

\* Every step keeps the invariant.
LEMMA BackupStep ==
  ASSUME BackupInv, [Next]_vars
  PROVE  BackupInv'
<1>1. ASSUME NEW t \in Task, TaskBackup(t) PROVE BackupInv'
  BY <1>1, TaskKeeps
<1>2. CASE performBackup
  BY <1>2, BeginKeeps DEF performBackup
<1>3. ASSUME NEW s \in Slot, performRestore(s) PROVE BackupInv'
  BY <1>3, BeginKeeps DEF performRestore
<1>4. ASSUME NEW p \in Proc, Create(p) \/ Crash(p) PROVE BackupInv'
  <2>1. CASE p \in Task
    BY <1>4, <2>1, TaskKeeps
  <2>2. CASE p = Cli
    BY <1>4, <2>2, CommandCreateKeeps
  <2> QED BY <2>1, <2>2 DEF Proc
<1>5. CASE Restore
  <2>1. CASE RestoreEnd
    <3>1. /\ Becomes(Cli, Done) /\ proc[Cli].at # "idle" /\ archive \in [Slot -> Archive]
          /\ UNCHANGED <<live, version, stamp, archive, edited, replaced>>
      BY <2>1, Members, Types, ReturnBecomes DEF RestoreEnd, BackupInv
    <3> QED BY <3>1, EndKeeps
  <2> QED BY <1>5, <2>1, OpenKeeps, RestoreFileKeeps, RestoreSkipKeeps, RestoreWrittenKeeps
    DEF Restore
<1>6. ASSUME NEW i \in Item, Edit(i) PROVE BackupInv'
  BY <1>6, EditKeeps
<1>7. CASE UNCHANGED vars
  BY <1>7 DEF vars, BackupInv, FilesOK, OwnNames, ReadIsCurrent, ReplacedIsKept, Ahead, Kept
<1> QED BY <1>1, <1>2, <1>3, <1>4, <1>5, <1>6, <1>7 DEF Next

\* The invariant of the backups holds throughout.
THEOREM BackupInvariance == Spec => []BackupInv
<1>1. Init => BackupInv
  <2> SUFFICES ASSUME Init PROVE BackupInv
    OBVIOUS
  <2>1. FilesOK
    <3>1. NoSnap \in [Item -> Content] /\ NoArchive \in Archive
      BY DoneIsProcess, NoArchiveType
    <3>2. \A p \in Proc : proc[p] = Done
      BY DEF Init
    <3>3. \A p \in Proc :
            /\ proc[p] \in Process
            /\ proc[p].at \notin Creating \cup Restoring
      BY <3>2, DoneIsProcess DEF Creating, Restoring
    <3>4. archive \in [Slot -> Archive]
      BY <3>1 DEF Init
    <3>5. DOMAIN proc = Proc /\ live \in [Item -> Content] /\ edited = {} /\ replaced = {}
      BY <3>1 DEF Init
    <3>6. version \in 0..MaxVersion /\ stamp \in 0..MaxStamp
      BY StampAssumption DEF Init
    <3> QED BY <3>3, <3>4, <3>5, <3>6 DEF FilesOK, Archive, Process
  <2>2. \A p \in Proc : proc[p].at = "idle"
    BY DoneIsProcess DEF Init
  <2>3. proc[Cli].at = "idle" /\ \A t \in Task : proc[t].at = "idle"
    BY <2>2, Members
  <2>4. OwnNames /\ ReadIsCurrent
    BY <2>3 DEF OwnNames, ReadIsCurrent, Restoring
  <2>5. ReplacedIsKept
    BY DEF Init, ReplacedIsKept
  <2> QED BY <2>1, <2>4, <2>5 DEF BackupInv
<1>2. BackupInv /\ [Next]_vars => BackupInv'
  BY BackupStep
<1> QED BY <1>1, <1>2, PTL DEF Spec

\* Whatever a restore overwrites is in a whole safety backup, unless it was
\* written after that backup read it: through crashes, failed copies, the
\* scheduled tasks and the retention of every later backup (Create, Restore,
\* RetentionService.Apply).
THEOREM RestoreCanBeUndone == Spec => []RestoreUndoable
<1>1. BackupInv => RestoreUndoable
  <2> SUFFICES ASSUME BackupInv, NEW r \in replaced
               PROVE  \E s \in Slot : archive[s].state = "whole" /\ archive[s].snap[r[1]] = r[2]
    BY DEF RestoreUndoable
  <2>1. PICK k \in 1..stamp : Kept(k) /\ archive[Pre(k)].snap[r[1]] = r[2]
    BY DEF BackupInv, ReplacedIsKept
  <2>2. k \in Stamp
    BY Types, StampAssumption DEF BackupInv, Stamp
  <2>3. Pre(k) \in Slot
    BY <2>2, NamesDiffer
  <2> QED BY <2>1, <2>3 DEF Kept
<1> QED BY <1>1, BackupInvariance, PTL

-----------------------------------------------------------------------------
(***************************************************************************)
(* Retention                                                               *)
(***************************************************************************)

\* The sizes of one archive add up to its size.
LEMMA TotalOfOne ==
  ASSUME NEW k \in Stamp
  PROVE  Total({k}) = SizeOf[Full(k)]
<1> DEFINE IsTotal(f) == f = [s \in SUBSET {k} |->
                                IF s = {} THEN 0
                                ELSE LET x == CHOOSE x \in s : TRUE
                                     IN  SizeOf[Full(x)] + f[s \ {x}]]
           g == [s \in SUBSET {k} |-> IF s = {} THEN 0 ELSE SizeOf[Full(k)]]
           F == CHOOSE f : IsTotal(f)
<1>1. Total({k}) = F[{k}]
  BY Zenon DEF Total, MapThenSumSet, MapThenFoldSet
<1>2. SizeOf[Full(k)] \in Nat
  BY SizeAssumption DEF Slot
<1>3. IsTotal(g)
  <2> DEFINE h == [s \in SUBSET {k} |->
                                IF s = {} THEN 0
                                ELSE LET x == CHOOSE x \in s : TRUE
                                     IN  SizeOf[Full(x)] + g[s \ {x}]]
  <2>1. \A s \in SUBSET {k} : s = {} \/ s = {k}
    OBVIOUS
  <2>2. (CHOOSE x \in {k} : TRUE) = k
    OBVIOUS
  <2>3. h[{k}] = SizeOf[Full(k)] + g[{k} \ {k}]
    BY <2>2
  <2>4. g[{k} \ {k}] = 0
    <3>1. {k} \ {k} = {}
      OBVIOUS
    <3> QED BY <3>1
  <2>5. h[{}] = g[{}]
    OBVIOUS
  <2>6. h[{k}] = g[{k}]
    BY <1>2, <2>3, <2>4
  <2>7. \A s \in SUBSET {k} : h[s] = g[s]
    BY <2>1, <2>5, <2>6
  <2> QED BY <2>7
<1> HIDE DEF g
<1>4. IsTotal(F)
  <2> HIDE DEF IsTotal
  <2> QED BY <1>3, Zenon
<1>5. (CHOOSE x \in {k} : TRUE) = k
  OBVIOUS
<1> HIDE DEF F
<1>6. F[{}] = 0
  BY <1>4
<1>7. F[{k}] = SizeOf[Full(k)] + F[{k} \ {k}]
  BY <1>4, <1>5
<1>8. {k} \ {k} = {}
  OBVIOUS
<1> QED BY <1>1, <1>2, <1>6, <1>7, <1>8

\* The newest of the listed full backups is one more than its kind keeps only
\* if the kind keeps none at all, which SetConfig rules out.
LEMMA NewestIsNoSurplus ==
  ASSUME NEW p \in Proc, NEW ks \in SUBSET Stamp, NEW k \in ks, \A m \in ks : m <= k
  PROVE  k \notin Surplus(ks, Policy(p))
<1> DEFINE policy == Policy(p)
<1>1. /\ policy.daily \in Int /\ policy.daily >= 1
      /\ policy.weekly \in Int /\ policy.monthly \in Int /\ policy.yearly \in Int
  <2>1. CASE p \in Task
    <3>1. Configured \in [daily : Int, weekly : Int, monthly : Int, yearly : Int, cap : Nat]
      BY PolicyAssumption
    <3>2. /\ SetConfig(Configured).daily \in Int /\ SetConfig(Configured).daily >= 1
          /\ SetConfig(Configured).weekly \in Int /\ SetConfig(Configured).monthly \in Int
          /\ SetConfig(Configured).yearly \in Int
      BY <3>1 DEF SetConfig
    <3> QED BY <2>1, <3>2 DEF Policy
  <2>2. CASE p \notin Task
    BY <2>2 DEF Policy
  <2> QED BY <2>1, <2>2
<1>2. Kind[k] \in {"daily", "weekly", "monthly", "yearly"}
  BY KindAssumption DEF Stamp
<1>3. {m \in ks : m > k /\ Kind[m] = Kind[k]} = {}
  <2>1. \A m \in ks : m \in Nat /\ k \in Nat
    BY DEF Stamp
  <2>2. \A m \in ks : ~(m > k)
    BY <2>1
  <2> QED BY <2>2
<1>4. Cardinality({m \in ks : m > k /\ Kind[m] = Kind[k]}) = 0
  BY <1>3, FS_EmptySet
<1> HIDE DEF policy
<1>5. policy[Kind[k]] \in Int
  BY <1>1, <1>2
<1>6. Kind[k] = "daily" => policy[Kind[k]] > 0
  BY <1>1
<1>7. ASSUME k \in Surplus(ks, policy) PROVE FALSE
  <2>1. /\ Kind[k] # "daily" => policy[Kind[k]] > 0
        /\ 0 >= policy[Kind[k]]
    BY <1>4, <1>7 DEF Surplus
  <2> QED BY <1>5, <1>6, <2>1
<1> QED BY <1>7 DEF policy

\* What retention decides to delete is by itself larger than the size cap, or
\* it has listed something newer.
LEMMA DoomedForAReason ==
  ASSUME NEW p \in Proc, NEW ks \in SUBSET Stamp, NEW k \in ToDelete(ks, Policy(p))
  PROVE  k \in ks /\ (TooLarge(k, p) \/ \E m \in ks : m > k)
<1> DEFINE cap  == Policy(p).cap
           rest == ks \ Surplus(ks, Policy(p))
<1>1. k \in ks
  BY DEF ToDelete, Surplus, applySizeCap
<1> SUFFICES ASSUME ~\E m \in ks : m > k
             PROVE  TooLarge(k, p)
  BY <1>1
<1>2. \A m \in ks : m <= k
  BY <1>1 DEF Stamp
<1>3. k \notin Surplus(ks, Policy(p))
  BY <1>1, <1>2, NewestIsNoSurplus
<1>4. k \in applySizeCap(rest, cap)
  BY <1>3 DEF ToDelete
<1>5. cap > 0 /\ Total({m \in rest : m >= k}) > cap /\ k \in rest
  BY <1>4 DEF applySizeCap
<1>6. {m \in rest : m >= k} = {k}
  <2>1. \A m \in rest : m \in Nat /\ m <= k
    BY <1>2 DEF Stamp
  <2>2. k \in Nat
    BY <1>1 DEF Stamp
  <2>3. \A m \in rest : m >= k => m = k
    BY <2>1, <2>2
  <2>4. k >= k
    BY <2>2
  <2> HIDE DEF rest
  <2> QED BY <1>5, <2>3, <2>4
<1> QED BY <1>1, <1>5, <1>6, TotalOfOne DEF TooLarge

\* Full backup m is there, or was lost.
There(m) == m \in lost \/ archive[Full(m)].state # "none"

\* Somebody has made a full backup newer than k that is there or was lost.
Outlived(k) == \E m \in Stamp : m > k /\ There(m)

\* What a process is about to remove is too large or was not the newest; and
\* something newer is still there unless all that is newer was lost.
RetentionInv ==
  /\ doomed \in [Proc -> SUBSET Stamp]
  /\ lost \subseteq Stamp
  /\ \A p \in Proc : \A k \in doomed[p] : TooLarge(k, p) \/ Outlived(k)

\* A step after which no process is about to remove more, and no full backup
\* is gone that was not lost.
LEMMA NothingGone ==
  ASSUME RetentionInv, doomed' \in [Proc -> SUBSET Stamp], lost' \subseteq Stamp,
         \A p \in Proc : doomed'[p] \subseteq doomed[p],
         \A m \in Stamp : There(m) => There(m)'
  PROVE  RetentionInv'
<1>1. \A k : Outlived(k) => Outlived(k)'
  BY DEF Outlived
<1>2. ASSUME NEW p \in Proc, NEW k \in doomed'[p]
      PROVE  TooLarge(k, p) \/ Outlived(k)'
  <2>1. k \in doomed[p]
    OBVIOUS
  <2> QED BY <1>1, <2>1 DEF RetentionInv
<1> QED BY <1>2 DEF RetentionInv, TooLarge

\* What a process writes under the name of its archive does not remove it.
LEMMA WriteGone ==
  ASSUME BackupInv, RetentionInv, NEW p \in Proc, proc[p].at \in Creating,
         NEW a \in Archive, a.state # "none",
         archive' = [archive EXCEPT ![proc[p].slot] = a], UNCHANGED <<doomed, lost>>
  PROVE  RetentionInv'
<1>1. proc[p].slot \in Slot /\ FilesOK
  BY Types DEF BackupInv
<1>2. archive'[proc[p].slot] = a /\ \A e \in Slot \ {proc[p].slot} : archive'[e] = archive[e]
  BY <1>1, WriteArchive
<1>3. \A m \in Stamp : There(m) => There(m)'
  BY <1>2, NamesDiffer DEF There
<1> QED BY <1>3, NothingGone DEF RetentionInv

\* A process decides what to remove: each is too large, or there is a newer one.
LEMMA ListGone ==
  ASSUME BackupInv, RetentionInv, NEW p \in Proc, ApplyList(p)
  PROVE  RetentionInv'
<1>1. PICK ks \in SUBSET ListBackups : doomed' = [doomed EXCEPT ![p] = ToDelete(ks, Policy(p))]
  BY DEF ApplyList
<1>2. archive' = archive /\ lost' = lost
  BY DEF ApplyList
<1>3. ks \in SUBSET Stamp /\ \A m \in ks : There(m)
  BY DEF ListBackups, There
<1> DEFINE new == ToDelete(ks, Policy(p))
<1>4. \A k \in new : k \in ks /\ (TooLarge(k, p) \/ \E m \in ks : m > k)
  BY <1>3, DoomedForAReason
<1> HIDE DEF new
<1>5. \A k \in new : TooLarge(k, p) \/ Outlived(k)
  BY <1>3, <1>4 DEF Outlived
<1>6. new \in SUBSET Stamp
  BY <1>3, <1>4
<1>7. doomed' = [doomed EXCEPT ![p] = new]
  BY <1>1 DEF new
<1>8. doomed' \in [Proc -> SUBSET Stamp]
  BY <1>6, <1>7 DEF RetentionInv
<1>9. ASSUME NEW q \in Proc, NEW k \in doomed'[q]
      PROVE  TooLarge(k, q) \/ Outlived(k)
  BY <1>5, <1>7, <1>9 DEF RetentionInv
<1>10. \A k : Outlived(k)' = Outlived(k)
  BY <1>2 DEF Outlived, There
<1> QED BY <1>2, <1>8, <1>9, <1>10 DEF RetentionInv, TooLarge

\* A process removes one: either it is lost, or a newer one outlives it.
LEMMA RemoveGone ==
  ASSUME BackupInv, RetentionInv, NEW p \in Proc, NEW j \in Stamp, ApplyRemove(p, j)
  PROVE  RetentionInv'
<1>1. /\ j \in doomed[p] /\ doomed' = [doomed EXCEPT ![p] = @ \ {j}]
      /\ lost' = (IF TooLarge(j, p) THEN lost \cup {j} ELSE lost)
      /\ archive' = [archive EXCEPT ![Full(j)] = NoArchive]
  BY DEF ApplyRemove
<1>2. \A m \in Stamp : m # j => archive'[Full(m)] = archive[Full(m)]
  BY <1>1, RemoveArchive DEF BackupInv
<1>3. \A m \in Stamp : m # j /\ There(m) => There(m)'
  BY <1>1, <1>2 DEF There
<1>4. TooLarge(j, p) => There(j)'
  BY <1>1 DEF There
<1>5. /\ doomed' \in [Proc -> SUBSET Stamp] /\ lost' \subseteq Stamp
      /\ \A q \in Proc : doomed'[q] \subseteq doomed[q]
  BY <1>1 DEF RetentionInv
<1>6. ASSUME NEW k \in Stamp, Outlived(k)
      PROVE  Outlived(k)'
  <2>1. PICK m \in Stamp : m > k /\ There(m)
    BY <1>6 DEF Outlived
  <2>2. CASE m # j \/ TooLarge(j, p)
    <3>1. There(m)'
      BY <1>3, <1>4, <2>1, <2>2
    <3> QED BY <2>1, <3>1 DEF Outlived
  <2>3. CASE m = j /\ ~TooLarge(j, p)
    <3>1. Outlived(j)
      BY <1>1, <2>3 DEF RetentionInv
    <3>2. PICK n \in Stamp : n > j /\ There(n)
      BY <3>1 DEF Outlived
    <3>3. There(n)'
      BY <1>3, <3>2 DEF Stamp
    <3>4. n > k
      BY <2>1, <2>3, <3>2 DEF Stamp
    <3> QED BY <3>3, <3>4 DEF Outlived
  <2> QED BY <2>2, <2>3
<1>7. ASSUME NEW q \in Proc, NEW k \in doomed'[q]
      PROVE  TooLarge(k, q) \/ Outlived(k)'
  <2>1. k \in doomed[q] /\ k \in Stamp
    BY <1>5 DEF RetentionInv
  <2> QED BY <1>6, <2>1 DEF RetentionInv
<1> QED BY <1>5, <1>7 DEF RetentionInv, TooLarge

\* A maker that refuses its archive loses it.
LEMMA VerifyGone ==
  ASSUME BackupInv, RetentionInv, NEW p \in Proc, Verify(p)
  PROVE  RetentionInv'
<1>1. proc[p].at = "verify" /\ doomed' = doomed
  BY DEF Verify
<1>2. CASE UNCHANGED <<archive, lost>>
  <2>1. \A m \in Stamp : There(m) => There(m)'
    BY <1>2 DEF There
  <2> QED BY <1>1, <1>2, <2>1, NothingGone DEF RetentionInv
<1>3. CASE /\ archive' = [archive EXCEPT ![proc[p].slot] = NoArchive]
           /\ lost' = lost \cup {k \in Stamp : proc[p].slot = Full(k)}
  <2>1. proc[p].slot \in Slot /\ FilesOK
    BY <1>1, Types DEF BackupInv, Creating
  <2>2. \A e \in Slot \ {proc[p].slot} : archive'[e] = archive[e]
    BY <1>3, <2>1, NoArchiveType, WriteArchive
  <2>3. \A m \in Stamp : There(m) => There(m)'
    BY <1>3, <2>2, NamesDiffer DEF There
  <2>4. lost' \subseteq Stamp
    BY <1>3 DEF RetentionInv
  <2> QED BY <1>1, <2>3, <2>4, NothingGone DEF RetentionInv
<1> QED BY <1>2, <1>3 DEF Verify

\* Every other step leaves the full backups, and what is doomed or lost.
LEMMA RetentionStep ==
  ASSUME BackupInv, RetentionInv, [Next]_vars
  PROVE  RetentionInv'
<1>1. CASE /\ UNCHANGED <<archive, lost>>
           /\ doomed' = doomed \/ \E p \in Proc : doomed' = [doomed EXCEPT ![p] = {}]
  <2>1. \A m \in Stamp : There(m) => There(m)'
    BY <1>1 DEF There
  <2>2. doomed' \in [Proc -> SUBSET Stamp] /\ \A q \in Proc : doomed'[q] \subseteq doomed[q]
    BY <1>1 DEF RetentionInv
  <2> QED BY <1>1, <2>1, <2>2, NothingGone DEF RetentionInv
<1>2. ASSUME NEW p \in Proc, Create(p)
      PROVE  RetentionInv'
  <2>1. /\ Packed(p) \in Archive /\ Packed(p).state = "whole"
        /\ [state |-> "broken", snap |-> NoSnap] \in Archive
    BY PackedType DEF BackupInv
  <2>2. CASE Rename(p) \/ CopyStart(p) \/ CopyEnd(p)
    <3>1. /\ proc[p].at \in Creating /\ UNCHANGED <<doomed, lost>>
          /\ \/ archive' = [archive EXCEPT ![proc[p].slot] = Packed(p)]
             \/ archive' = [archive EXCEPT ![proc[p].slot] = [state |-> "broken", snap |-> NoSnap]]
             \/ archive' = archive
      BY <2>2 DEF Rename, CopyStart, CopyEnd, Creating
    <3> QED BY <1>1, <2>1, <3>1, WriteGone
  <2>3. CASE Stage(p) \/ CreateFails(p) \/ ApplyEnd(p)
    BY <1>1, <2>3 DEF Stage, CreateFails, ApplyEnd
  <2> QED BY <1>2, <2>2, <2>3, VerifyGone, ListGone, RemoveGone DEF Create
<1>3. CASE Restore
  BY <1>1, <1>3 DEF Restore, Open, RestoreFile, RestoreSkip, RestoreWritten, RestoreEnd
<1>4. CASE ~Restore /\ ~\E p \in Proc : Create(p)
  BY <1>1, <1>4 DEF Next, TaskBackup, performBackup, performRestore, Crash, Edit, vars
<1> QED BY <1>2, <1>3, <1>4

\* What retention is about to remove is accounted for throughout.
THEOREM RetentionInvariance == Spec => []RetentionInv
<1>1. Init => RetentionInv
  BY DEF Init, RetentionInv
<1>2. BackupInv /\ RetentionInv /\ [Next]_vars => RetentionInv'
  BY RetentionStep
<1> QED BY <1>1, <1>2, BackupInvariance, PTL DEF Spec

\* Every variable of the backups keeps its type.
THEOREM TypesAreKept == Spec => []TypeOK
<1>1. BackupInv /\ RetentionInv => TypeOK
  BY DEF BackupInv, RetentionInv, TypeOK
<1> QED BY <1>1, BackupInvariance, RetentionInvariance, PTL

\* The newest full backup is removed by its maker, or is lost, or was outlived.
LEMMA NewestStays ==
  ASSUME BackupInv, RetentionInv, [Next]_vars, NEW k \in Stamp, Newest(k),
         archive'[Full(k)].state = "none", ~MakerRefuses(k)
  PROVE  k \in lost' \/ \E m \in lost : m > k
<1>1. Full(k) \in Slot /\ archive[Full(k)].state # "none" /\ FilesOK
  BY NamesDiffer DEF Newest, ListBackups, BackupInv
<1>2. archive' # archive
  BY <1>1
<1>3. PICK p \in Proc : Create(p)
  BY <1>2 DEF Next, TaskBackup, performBackup, performRestore, Crash, Restore, Open, RestoreFile,
              RestoreSkip, RestoreWritten, RestoreEnd, Edit, vars
<1>4. ASSUME proc[p].at \in Creating, NEW a \in Archive, a.state # "none",
             archive' = [archive EXCEPT ![proc[p].slot] = a]
      PROVE  FALSE
  <2>1. proc[p].slot \in Slot
    BY <1>1, <1>4, Types
  <2>2. archive'[Full(k)] = a \/ archive'[Full(k)] = archive[Full(k)]
    BY <1>1, <1>4, <2>1, WriteArchive
  <2> QED BY <1>1, <1>4, <2>2
<1>5. Packed(p) \in Archive /\ Packed(p).state = "whole"
        /\ [state |-> "broken", snap |-> NoSnap] \in Archive
  BY <1>1, PackedType
<1>6. ~Stage(p) /\ ~CreateFails(p) /\ ~ApplyList(p) /\ ~ApplyEnd(p)
  BY <1>2 DEF Stage, CreateFails, ApplyList, ApplyEnd
<1>7. ~Rename(p) /\ ~CopyEnd(p)
  BY <1>2, <1>4, <1>5 DEF Rename, CopyEnd, Creating
<1>8. ~CopyStart(p)
  BY <1>4, <1>5 DEF CopyStart, Creating
<1>9. ~Verify(p)
  <2> SUFFICES ASSUME Verify(p) PROVE FALSE
    OBVIOUS
  <2>1. proc[p].at = "verify" /\ archive' = [archive EXCEPT ![proc[p].slot] = NoArchive]
    BY <1>2 DEF Verify
  <2>2. proc[p].slot = Full(k)
    <3>1. proc[p].slot \in Slot
      BY <1>1, <2>1, Types DEF Creating
    <3>2. \A e \in Slot \ {proc[p].slot} : archive'[e] = archive[e]
      BY <1>1, <2>1, <3>1, NoArchiveType, WriteArchive
    <3> QED BY <1>1, <3>2
  <2>3. p \notin Task
    BY <2>1, <2>2, TaskName, NamesDiffer
  <2> QED BY <2>1, <2>2, <2>3 DEF Proc, MakerRefuses
<1>10. PICK j \in Stamp : ApplyRemove(p, j)
  BY <1>3, <1>6, <1>7, <1>8, <1>9 DEF Create
<1>11. /\ j \in doomed[p] /\ archive' = [archive EXCEPT ![Full(j)] = NoArchive]
       /\ lost' = (IF TooLarge(j, p) THEN lost \cup {j} ELSE lost)
  BY <1>10 DEF ApplyRemove
<1>12. j = k
  BY <1>1, <1>11, RemoveArchive
<1>13. TooLarge(k, p) \/ Outlived(k)
  BY <1>11, <1>12 DEF RetentionInv
<1>14. ASSUME NEW m \in Stamp, m > k, There(m)
       PROVE  m \in lost
  BY <1>14 DEF There, Newest, ListBackups, Stamp
<1> QED BY <1>11, <1>12, <1>13, <1>14 DEF Outlived

\* Retention takes the newest full backup only if it alone is more than the
\* size cap, or if a newer one has been lost since: refused by its maker's
\* verification, or removed as too large by itself. Between listing and
\* removing (RetentionService.Apply, applySizeCap, SetConfig) the other
\* processes may do whatever they do (Create, Verify, Restore, a crash).
THEOREM NewestIsKept == Spec => NewestFullKept
<1>1. BackupInv /\ RetentionInv /\ [Next]_vars =>
        [\A k \in Stamp :
           Newest(k) /\ archive'[Full(k)].state = "none" /\ ~MakerRefuses(k)
             => k \in lost' \/ \E m \in lost : m > k]_vars
  BY NewestStays
<1> QED BY <1>1, BackupInvariance, RetentionInvariance, PTL DEF Spec, NewestFullKept
=============================================================================
