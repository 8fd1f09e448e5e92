----------------------------- MODULE MCScheduler -----------------------------
\* Values for model checking Scheduler.
EXTENDS Scheduler, TLC

CONSTANTS t1, t2

\* paste_cleanup and update_check in miniature: an interval and a cron line,
\* whose handler may hang.
TwoTasks    == {t1, t2}
TwoPeriods  == t1 :> 1 @@ t2 :> 2
OneInterval == {t1}
DailySkip   == {t2}
=============================================================================
