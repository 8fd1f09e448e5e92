\* The scheduled update with the newest release installed.
SPECIFICATION Spec
CONSTANTS
  lite = lite  remote = remote  p1 = p1  p2 = p2
  Db = {lite}
  Cache = lite
  Paste = {}
  Absent = Absent
  Unread = Unread
  Onion = {o1, o2, o3}
  NoOnion = NoOnion
  MaxRelease = 2
  Stable = TRUE
  Prerelease = {}
  Damaged = Damaged
  MaxAttempts = 2
  Torn = Torn
  NoFile = NoFile
  MaxFaults = 2
INVARIANTS OnlyNewer
