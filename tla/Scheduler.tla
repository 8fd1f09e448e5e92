------------------------------ MODULE Scheduler ------------------------------
(***************************************************************************)
(* The built-in task scheduler, src/scheduler, as the server process uses  *)
(* it: the tasks are registered and Start is called once at boot, one loop *)
(* goroutine wakes up on a ticker and runs what is due, the admin panel's  *)
(* run-now requests start goroutines of their own, and Stop is called once *)
(* at shutdown. The process may also die at any point.                     *)
(*                                                                         *)
(* Steps are what the locks make atomic: s.mu guards running and the task  *)
(* map, each task's mu its status and times. No lock is held while a       *)
(* handler runs, nor between the loop's look at one task and the next.     *)
(***************************************************************************)
EXTENDS Integers

CONSTANTS
  Task,           \* ids of the registered tasks (all of them Enabled)
  Trigger,        \* run-now goroutines that may be alive at once
  Period,         \* the period of each task's schedule
  Every,          \* the tasks with an "@every" schedule, the others have cron
  Skippable,      \* the tasks catch-up leaves out
  Stalling,       \* the tasks whose handlers may wait for something for ever
  CatchUpWindow,  \* Config.CatchUpWindow
  Crashes,        \* TRUE when the process may die
  MaxTime,        \* bound: horizon of the clock
  NoTask          \* no task under way

\* The goroutines that call runTask: Start's catch-up, the loop, run-now.
Thread == {"main", "loop"} \cup Trigger

ASSUME TriggerAssumption == {"main", "loop"} \cap Trigger = {}
ASSUME PeriodAssumption  == Period \in [Task -> Nat \ {0}]
ASSUME EveryAssumption   == Every \subseteq Task
ASSUME SkipAssumption    == Skippable \subseteq Task
ASSUME StallAssumption   == Stalling \subseteq Task
ASSUME WindowAssumption  == CatchUpWindow \in Nat
ASSUME CrashAssumption   == Crashes \in BOOLEAN
ASSUME ClockAssumption   == MaxTime \in Nat \ {0}
ASSUME NoTaskAssumption  == NoTask \notin Task

VARIABLES
  proc,     \* the process, by what Start and Stop have done so far
  clock,    \* time.Now()
  tick,     \* the time buffered in the ticker's channel, 0 when it is empty
  task,     \* LastRun, NextRun and LastStatus of each task
  scan,     \* checkAndRunTasks: the tasks still to look at
  now,      \* checkAndRunTasks: the tick it was called with
  queue,    \* per thread: the tasks collected to run
  at        \* per thread: the task whose handler it is in

vars == <<proc, clock, tick, task, scan, now, queue, at>>

Proc   == {"down", "starting", "up", "stopping", "loopDone", "stopped"}
Status == {"", "running", "complete", "failed"}

GridBehind(t, time) ==
  IF t \in Every THEN time + Period[t]
                 ELSE (time \div Period[t] - 1) * Period[t]

\* CronExpr.Next: "@every p" counts from the time it is given, a cron line
\* names the next point of a fixed grid. Both lie strictly later.
CronNext(t, time) ==
  IF t \in Every THEN time + Period[t]
                 ELSE (time \div Period[t] + 1) * Period[t]

\* A time.Time that was never set is 0.
Due(t, time) == task[t].nextRun # 0 /\ time > task[t].nextRun

Idle == [th \in Thread |-> NoTask]

AddTask(time) ==
  [t \in Task |-> [lastRun |-> 0, nextRun |-> CronNext(t, time), status |-> ""]]

\* runCatchUp's choice of tasks.
CatchUp(tasks, time) ==
  {t \in Task \ Skippable : /\ tasks[t].lastRun # 0
                            /\ tasks[t].lastRun < time - CatchUpWindow}

Init ==
  /\ proc = "down"
  /\ clock = 1
  /\ tick = 0
  /\ task = [t \in Task |-> [lastRun |-> 0, nextRun |-> 0, status |-> ""]]
  /\ scan = {}
  /\ now = 0
  /\ queue = [th \in Thread |-> {}]
  /\ at = Idle

-----------------------------------------------------------------------------
\* Life of the process.

\* The server registers its tasks and calls Start, which collects the tasks
\* to catch up on. Nothing of an earlier process is left in memory.
Boot ==
  /\ proc = "down"
  /\ proc' = "starting"
  /\ task' = AddTask(clock)
  /\ queue' = [th \in Thread |->
       IF th = "main" THEN CatchUp(AddTask(clock), clock) ELSE {}]
  /\ at' = Idle
  /\ scan' = {}
  /\ tick' = 0
  /\ UNCHANGED <<clock, now>>

\* Start, once catch-up is through: wg.Add(1); go s.run().
StartLoop ==
  /\ proc = "starting"
  /\ queue["main"] = {} /\ at["main"] = NoTask
  /\ proc' = "up"
  /\ UNCHANGED <<clock, tick, task, scan, now, queue, at>>

\* The loop between two iterations.
LoopIdle == scan = {} /\ queue["loop"] = {} /\ at["loop"] = NoTask

\* Stop up to wg.Wait().
Stop ==
  /\ proc = "up"
  /\ proc' = "stopping"
  /\ UNCHANGED <<clock, tick, task, scan, now, queue, at>>

NeverDone ==
  /\ proc = "stopping"
  /\ LoopIdle /\ scan # {}
  /\ proc' = "loopDone"
  /\ UNCHANGED <<clock, tick, task, scan, now, queue, at>>

LeavesMidway ==
  /\ proc = "stopping"
  /\ proc' = "loopDone"
  /\ UNCHANGED <<clock, tick, task, scan, now, queue, at>>

\* run's select takes ctx.Done(): the loop returns, wg.Done().
LoopExit ==
  /\ proc = "stopping"
  /\ LoopIdle
  /\ proc' = "loopDone"
  /\ UNCHANGED <<clock, tick, task, scan, now, queue, at>>

\* Stop's wg.Wait() returns.
StopReturns ==
  /\ proc = "loopDone"
  /\ proc' = "stopped"
  /\ UNCHANGED <<clock, tick, task, scan, now, queue, at>>

\* The process ends: main returned after Stop, or it died. Boot sets up anew
\* what was in memory: no LastRun outlives the process.
Exit ==
  /\ proc = "stopped" \/ (Crashes /\ proc # "down")
  /\ proc' = "down"
  /\ UNCHANGED <<clock, tick, task, scan, now, queue, at>>

-----------------------------------------------------------------------------
\* The loop.

\* The ticker sends without blocking: a full channel drops the tick.
TickerFire ==
  /\ proc \in {"up", "stopping"}
  /\ tick = 0
  /\ tick' = clock
  /\ UNCHANGED <<proc, clock, task, scan, now, queue, at>>

\* run's select takes the tick, also while ctx.Done() is ready.
LoopWakes ==
  /\ proc \in {"up", "stopping"}
  /\ LoopIdle
  /\ tick # 0
  /\ tick' = 0
  /\ scan' = Task
  /\ now' = tick
  /\ UNCHANGED <<proc, clock, task, queue, at>>

FailedAreSkipped(t) ==
  /\ t \in scan
  /\ scan' = scan \ {t}
  /\ queue' = IF Due(t, now) /\ task[t].status # "failed"
              THEN [queue EXCEPT !["loop"] = @ \cup {t}] ELSE queue
  /\ UNCHANGED <<proc, clock, tick, task, now, at>>

\* One iteration over the map. NextRun is read without the task's mutex: a
\* run-now goroutine may write it between the looks at two tasks.
Scan(t) ==
  /\ proc \in {"up", "stopping"}
  /\ t \in scan
  /\ scan' = scan \ {t}
  /\ queue' = IF Due(t, now) THEN [queue EXCEPT !["loop"] = @ \cup {t}] ELSE queue
  /\ UNCHANGED <<proc, clock, tick, task, now, at>>

\* RunNow: the admin page and the admin API, as long as requests are served.
RunNow(th, t) ==
  /\ proc \in {"up", "stopping", "loopDone", "stopped"}
  /\ th \in Trigger
  /\ queue[th] = {} /\ at[th] = NoTask
  /\ queue' = [queue EXCEPT ![th] = {t}]
  /\ UNCHANGED <<proc, clock, tick, task, scan, now, at>>

-----------------------------------------------------------------------------
\* runTask.

\* Which goroutines get to run while the process is in a given state.
Alive(th) ==
  CASE th = "main" -> proc = "starting"
    [] th = "loop" -> proc \in {"up", "stopping"} /\ scan = {}
    [] OTHER       -> proc # "down"

EntersAnyway(th, t) ==
  /\ Alive(th)
  /\ at[th] = NoTask
  /\ t \in queue[th]
  /\ queue' = [queue EXCEPT ![th] = @ \ {t}]
  /\ task' = [task EXCEPT ![t].status = "running"]
  /\ at' = [at EXCEPT ![th] = t]
  /\ UNCHANGED <<proc, clock, tick, scan, now>>

\* Under the task's mutex: a task that is running is skipped, any other one
\* is marked running, and its handler is called.
EnterTask(th, t) ==
  /\ Alive(th)
  /\ at[th] = NoTask
  /\ t \in queue[th]
  /\ queue' = [queue EXCEPT ![th] = @ \ {t}]
  /\ IF task[t].status = "running"
     THEN UNCHANGED <<task, at>>
     ELSE /\ task' = [task EXCEPT ![t].status = "running"]
          /\ at' = [at EXCEPT ![th] = t]
  /\ UNCHANGED <<proc, clock, tick, scan, now>>

\* The handler returns, with or without an error; the mutex is taken again.
\* Nothing makes it: the context it was given is not asked by geoip_update
\* and by the command with which update_check restarts the server.
LeaveTask(th, status) ==
  /\ Alive(th)
  /\ at[th] # NoTask
  /\ status \in {"complete", "failed"}
  /\ task' = [task EXCEPT ![at[th]] =
       [lastRun |-> clock, nextRun |-> CronNext(at[th], clock), status |-> status]]
  /\ at' = [at EXCEPT ![th] = NoTask]
  /\ UNCHANGED <<proc, clock, tick, scan, now, queue>>

Tick ==
  /\ clock < MaxTime
  /\ clock' = clock + 1
  /\ UNCHANGED <<proc, tick, task, scan, now, queue, at>>

-----------------------------------------------------------------------------
RunTask(th) ==
  \/ \E t \in Task : EnterTask(th, t)
  \/ \E status \in Status : LeaveTask(th, status)

Loop == TickerFire \/ LoopWakes \/ \E t \in Task : Scan(t)

Next ==
  \/ Boot \/ StartLoop \/ Stop \/ LoopExit \/ StopReturns \/ Exit
  \/ Loop
  \/ \E th \in Trigger, t \in Task : RunNow(th, t)
  \/ \E th \in Thread : RunTask(th)
  \/ Tick

Spec == Init /\ [][Next]_vars

\* A handler that keeps to its context or has timeouts of its own returns.
Returns(th) ==
  /\ at[th] \notin Stalling
  /\ \E status \in Status : LeaveTask(th, status)

\* Goroutines that can move do, the ticker ticks, and handlers return unless
\* they may stall. The select of run picks at random between a tick and
\* ctx.Done(), so it does not miss a closed ctx.Done() for ever: strong
\* fairness for LoopExit.
Fairness ==
  /\ WF_vars(Boot) /\ WF_vars(StartLoop) /\ WF_vars(Loop) /\ WF_vars(StopReturns)
  /\ SF_vars(LoopExit)
  /\ WF_vars(Tick)
  /\ \A th \in Thread :
       WF_vars(\E t \in Task : EnterTask(th, t)) /\ WF_vars(Returns(th))

FairSpec == Spec /\ Fairness

-----------------------------------------------------------------------------
(***************************************************************************)
(* Properties                                                              *)
(***************************************************************************)

TaskState == [lastRun : Nat, nextRun : Nat, status : Status]

\* Every variable keeps its type: the fields of Task and Scheduler, and the
\* local variables of checkAndRunTasks and runTask.
TypeOK ==
  /\ proc \in Proc
  /\ clock \in 1..MaxTime
  /\ tick \in Nat /\ now \in Nat
  /\ task \in [Task -> TaskState]
  /\ scan \subseteq Task
  /\ queue \in [Thread -> SUBSET Task]
  /\ at \in [Thread -> Task \cup {NoTask}]

\* No two goroutines are in the handler of one task: catch-up, the loop and
\* any number of run-now requests exclude each other through LastStatus.
NoOverlap ==
  \A a, b \in Thread : at[a] # NoTask /\ at[a] = at[b] => a = b

\* LastStatus does not stick: a task that says it is running has a goroutine
\* in its handler, so runTask never refuses it without reason.
RunningIsHeld ==
  \A t \in Task : task[t].status = "running" => \E th \in Thread : at[th] = t

\* Once Stop has returned the loop is neither in a handler nor about to call
\* one: Stop waits for the whole iteration it interrupts.
QuietAfterStop == proc = "stopped" => LoopIdle

\* A goroutine hangs in the handler of one of the tasks.
HangsIn(th, tasks) == <>[](at[th] \in tasks \cap Stalling)

\* While the scheduler is up a task that is due gets run, whatever run-now
\* requests do to it in between, or the scheduler goes down. All that can
\* prevent it is a handler that never returns: one the loop is in, or one of
\* the task itself.
DueEventuallyRuns ==
  \A t \in Task :
    \/ HangsIn("loop", Task)
    \/ \E th \in Thread : HangsIn(th, {t})
    \/ (proc = "up" /\ Due(t, clock)) ~> (proc # "up" \/ ~Due(t, clock))

\* Stop returns, since the loop sees the cancelled context, unless the handler
\* the loop is in never returns; one that hangs in another goroutine does not
\* hold it up.
StopCompletes ==
  \/ HangsIn("loop", Task)
  \/ proc = "stopping" ~> proc \notin {"stopping", "loopDone"}
=============================================================================
