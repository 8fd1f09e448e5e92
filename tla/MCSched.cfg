SPECIFICATION FairSpec
CONSTANTS
  t1 = t1  t2 = t2
  Task <- TwoTasks
  Trigger = {r1}
  Period <- TwoPeriods
  Every <- OneInterval
  Skippable <- DailySkip
  Stalling <- DailySkip
  CatchUpWindow = 1
  Crashes = TRUE
  MaxTime = 4
  NoTask = NoTask
INVARIANTS TypeOK NoOverlap QuietAfterStop
PROPERTIES DueEventuallyRuns StopCompletes
