SPECIFICATION Spec
CONSTANTS
  File = {f1}
  Dir = {d1}
  Task = {t1}
  Cli = cli
  Kind <- Kinds
  Configured <- Retention
  DefaultCap = 4
  SizeOf <- Sizes
  Free = {4}
  MaxStamp = 3
  MaxVersion = 2
CHECK_DEADLOCK FALSE
INVARIANTS RestoreUndoable
PROPERTY NewestFullKept
