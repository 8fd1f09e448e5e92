\* Two users and two rewrites of the password file; two credentials of two
\* owners and two calls; three editions of each GeoIP database; two tabs with
\* two tokens and two posts; one rotated log, one handler and a task.
SPECIFICATION Spec
CONSTANTS
  u1 = u1  u2 = u2  w1 = w1  w2 = w2
  o1 = o1  o2 = o2  c1 = c1  c2 = c2  k1 = k1  k2 = k2  DE = DE  t1 = t1  t2 = t2
  Name = {u1, u2}
  Admin = u1
  Worker = {w1, w2}
  Missing = Missing
  Garbled = Garbled
  NoHash = NoHash
  MaxPassword = 3
  Owner = {o1, o2}
  Cred = {c1, c2}
  Caller = {k1, k2}
  KeyCount = 1
  Duration = 1
  Never = Never
  MaxClock = 2
  Country = {DE}
  Unknown = XX
  Private = Private
  Absent = Absent
  Cut = Cut
  MaxEdition = 3
  Tab = {t1, t2}
  Site = Site
  Part = {r1}
  CookieName = "csrf_token"
  FieldName = "csrf_token"
  MaxTokens = 2
  MaxPosts = 2
  Handler = {h1}
  Managed = {"error"}
  MaxOpens = 6
  MaxFiles = 2
SYMMETRY Alike
INVARIANTS RetiredStaysRetired RewriteKeepsEveryone NoLateAcceptance GivenIsGood CountryKept
  ForeignFormRefused  RefusalsRecorded LinesKept
  RotatedIsFinal
