------------------------------ MODULE Updater ------------------------------
(***************************************************************************)
(* Self-updates, src/updater: the scheduled task update_check inside the   *)
(* server and an operator's --update yes in a process of its own replace   *)
(* the same executable, and either may die at any statement. Releases are  *)
(* numbered in the order of publication; GitHub is external.               *)
(***************************************************************************)
EXTENDS Integers, FiniteSetsExt

CONSTANTS
  MaxRelease,   \* bound: releases published
  Stable,       \* the configured branch is stable, not beta or daily
  Prerelease,   \* releases that the configured branch does not match
  Damaged       \* an executable that is not the whole of a release

ASSUME ReleaseAssumption == MaxRelease \in Nat \ {0} /\ Prerelease \subseteq 2..MaxRelease
ASSUME BranchAssumption == Stable \in BOOLEAN
ASSUME DamagedAssumption == Damaged \notin Int

VARIABLES
  exe,        \* the release the installed executable is
  version,    \* the release the server process runs
  released,   \* releases 1..released are published
  aged,       \* releases 1..aged are past the defer window
  update      \* per updater: where DoUpdate is, the release, the download

updVars == <<exe, version, released, aged, update>>

Updater == {"task", "cli"}

NoUpdate == [at |-> "idle", release |-> 0, tmp |-> Damaged]

UpdaterInit ==
  /\ exe = 1
  /\ version = 1
  /\ released = 1
  /\ aged = 1
  /\ update = [u \in Updater |-> NoUpdate]

-----------------------------------------------------------------------------
Publish ==
  /\ released < MaxRelease
  /\ released' = released + 1
  /\ UNCHANGED <<exe, version, aged, update>>

\* Days pass.
Age ==
  /\ aged < released
  /\ aged' = aged + 1
  /\ UNCHANGED <<exe, version, released, update>>

matchesBranch(r) == r \notin Prerelease

Newest(releases) == IF releases = {} THEN {} ELSE {Max(releases)}

\* CheckForUpdate, for the operator. On stable it is GitHub's latest release,
\* unless the executable that asks is that one; on the other branches the
\* newest of the releases that are not. defer_days is ignored.
CheckForUpdate ==
  LET Matching == {r \in 1..released : matchesBranch(r)}
  IN  IF Stable THEN Newest(Matching) \ {exe} ELSE Newest(Matching \ {exe})

\* CheckForUpdateEligible, for the task: of the releases that are not the
\* running one and are old enough, newest first, the first.
CheckForUpdateEligible ==
  Newest({r \in 1..aged : matchesBranch(r) /\ r # version})

Offer(u) == IF u = "task" THEN CheckForUpdateEligible ELSE CheckForUpdate

UpdateTo(u, at) == update' = [update EXCEPT ![u].at = at]
GiveUp(u)       == update' = [update EXCEPT ![u] = NoUpdate]

\* An eligible release was found, and the task is configured to install it.
BeginUpdate(u) ==
  /\ update[u].at = "idle"
  /\ \E r \in Offer(u) :
       update' = [update EXCEPT ![u] = [at |-> "download", release |-> r, tmp |-> Damaged]]
  /\ UNCHANGED <<exe, version, released, aged>>

\* DoUpdate into a temporary file. The assets may be missing, the transfer may
\* fail, and what arrives need not be what was published.
Download(u, ok) ==
  /\ update[u].at = "download"
  /\ IF ok THEN \E tmp \in {update[u].release, Damaged} :
                  update' = [update EXCEPT ![u].at = "verify", ![u].tmp = tmp]
           ELSE GiveUp(u)
  /\ UNCHANGED <<exe, version, released, aged>>

\* verifyChecksumFromURL: without a matching checksum nothing is installed.
VerifyChecksum(u, ok) ==
  /\ update[u].at = "verify"
  /\ IF ok /\ update[u].tmp = update[u].release THEN UpdateTo(u, "replace") ELSE GiveUp(u)
  /\ UNCHANGED <<exe, version, released, aged>>

CopiesInPlace(u, ok) ==
  /\ update[u].at = "replace"
  /\ \/ ok /\ exe' = update[u].tmp /\ UpdateTo(u, "restart")
     \/ ok /\ exe' = Damaged /\ UpdateTo(u, "copy")
     \/ ~ok /\ GiveUp(u) /\ UNCHANGED exe
  /\ UNCHANGED <<version, released, aged>>

\* ReplaceBinary: an atomic rename; from another filesystem the file has to
\* be copied next to the executable first.
ReplaceBinary(u, ok) ==
  /\ update[u].at = "replace"
  /\ \/ ok /\ exe' = update[u].tmp /\ UpdateTo(u, "restart")
     \/ ok /\ UpdateTo(u, "copy") /\ UNCHANGED exe
     \/ ~ok /\ GiveUp(u) /\ UNCHANGED exe
  /\ UNCHANGED <<version, released, aged>>

\* replaceAcrossFilesystems: the copy, then the rename onto the executable.
StageCopy(u, ok) ==
  /\ update[u].at = "copy"
  /\ IF ok THEN UpdateTo(u, "rename") ELSE GiveUp(u)
  /\ UNCHANGED <<exe, version, released, aged>>

RenameCopy(u, ok) ==
  /\ update[u].at = "rename"
  /\ IF ok THEN exe' = update[u].tmp /\ UpdateTo(u, "restart")
           ELSE GiveUp(u) /\ UNCHANGED exe
  /\ UNCHANGED <<version, released, aged>>

DoUpdate(u, ok) ==
  \/ Download(u, ok) \/ VerifyChecksum(u, ok) \/ ReplaceBinary(u, ok)
  \/ StageCopy(u, ok) \/ RenameCopy(u, ok)

-----------------------------------------------------------------------------
UpdaterTypeOK ==
  /\ exe \in 1..MaxRelease \cup {Damaged}
  /\ version \in 1..MaxRelease \cup {Damaged}
  /\ released \in 1..MaxRelease /\ aged \in 1..released
  /\ update \in [Updater -> [at : {"idle", "download", "verify", "replace", "copy", "rename",
                                   "restart", "service"},
                             release : 0..MaxRelease, tmp : 1..MaxRelease \cup {Damaged}]]

\* Whichever updater dies wherever, the installed executable is the whole of
\* a release, so that the next start of the server has something to run
\* (DoUpdate, ReplaceBinary, replaceAcrossFilesystems).
InstalledIsWhole == exe \in 1..released

\* The release the scheduled task sets out to install is newer than the one
\* that is running, as update.go says of CheckForUpdateEligible: "It selects
\* the newest eligible release newer than the running version."
OnlyNewer == update["task"].at # "idle" => update["task"].release > version
=============================================================================
