\* No pastes and one database: updates, signals and the shutdown.
SPECIFICATION FairSpec
CONSTANTS
  lite = lite  remote = remote  p1 = p1  p2 = p2
  Db = {lite}
  Cache = lite
  Paste = {}
  Absent = Absent
  Unread = Unread
  Onion = {o1, o2}
  NoOnion = NoOnion
  MaxRelease = 2
  Stable = FALSE
  Prerelease = {}
  Damaged = Damaged
  MaxAttempts = 2
  Torn = Torn
  NoFile = NoFile
  MaxFaults = 1
INVARIANTS InstalledIsWhole
PROPERTIES ShutdownEnds
