--------------------------- MODULE Scheduler_proofs ---------------------------
(***************************************************************************)
(* Proofs about Scheduler, for any set of tasks and schedules, any number  *)
(* of run-now goroutines and any horizon of the clock.                     *)
(***************************************************************************)
EXTENDS Scheduler, TLAPS

\* The converse of RunningIsHeld: a goroutine in a handler has marked its
\* task. With it NoOverlap is inductive.
HeldIsRunning ==
  \A th \in Thread : at[th] # NoTask => task[at[th]].status = "running"

\* Once the loop goroutine has returned it has nothing under way.
LoopGone == proc \in {"loopDone", "stopped"} => LoopIdle

Inv == TypeOK /\ NoOverlap /\ RunningIsHeld /\ HeldIsRunning /\ LoopGone

\* Next run times are times again: CronExpr.Next on both kinds of schedule.
LEMMA CronNextType ==
  ASSUME NEW t \in Task, NEW time \in Nat
  PROVE  CronNext(t, time) \in Nat
<1>1. Period[t] \in Nat \ {0}
  BY PeriodAssumption
<1>2. time + Period[t] \in Nat
  BY <1>1
<1>3. (time \div Period[t]) \in Nat
  BY <1>1
<1>4. (time \div Period[t] + 1) * Period[t] \in Nat
  <2>1. \A m, n \in Nat : (m + 1) * n \in Nat
    OBVIOUS
  <2> QED BY <1>1, <1>3, <2>1
<1> QED BY <1>2, <1>4 DEF CronNext

\* The state registered at boot has the type of task states.
LEMMA AddTaskType ==
  ASSUME NEW time \in Nat
  PROVE  AddTask(time) \in [Task -> TaskState]
<1>1. \A t \in Task : CronNext(t, time) \in Nat
  BY CronNextType
<1> QED BY <1>1 DEF AddTask, TaskState, Status

\* The initial state, with no process yet.
LEMMA InitInv == Init => Inv
<1> SUFFICES ASSUME Init PROVE Inv
  OBVIOUS
<1>1. TypeOK
  <2>1. task \in [Task -> TaskState]
    BY DEF Init, TaskState, Status
  <2>2. clock = 1 /\ tick = 0 /\ now = 0 /\ proc \in Proc
    BY DEF Init, Proc
  <2>4. clock \in 1..MaxTime /\ tick \in Nat /\ now \in Nat
    BY <2>2, ClockAssumption
  <2>3. /\ scan \subseteq Task
        /\ queue \in [Thread -> SUBSET Task]
        /\ at \in [Thread -> Task \cup {NoTask}]
    BY DEF Init, Idle
  <2> QED BY <2>1, <2>2, <2>3, <2>4 DEF TypeOK
<1>2. NoOverlap /\ HeldIsRunning
  BY DEF Init, NoOverlap, HeldIsRunning, Idle
<1>3. RunningIsHeld
  BY DEF Init, RunningIsHeld
<1>4. LoopGone
  BY DEF Init, LoopGone
<1> QED BY <1>1, <1>2, <1>3, <1>4 DEF Inv

\* Starting a process forgets everything, so nobody is in a handler.
LEMMA BootInv == ASSUME Inv, Boot PROVE Inv'
<1>1. TypeOK'
  <2>1. clock \in Nat
    BY DEF Inv, TypeOK
  <2>2. AddTask(clock) \in [Task -> TaskState]
    BY <2>1, AddTaskType
  <2> QED BY <2>2 DEF Inv, TypeOK, Boot, Proc, Idle, CatchUp
<1>2. NoOverlap' /\ HeldIsRunning'
  BY DEF Boot, NoOverlap, HeldIsRunning, Idle
<1>3. RunningIsHeld'
  BY DEF Boot, RunningIsHeld, AddTask
<1>4. LoopGone'
  BY DEF Boot, LoopGone
<1> QED BY <1>1, <1>2, <1>3, <1>4 DEF Inv

\* Steps that move the process, the ticker, the clock or the loop's scan
\* touch neither a status nor who is in a handler.
LEMMA QuietStepInv ==
  ASSUME Inv,
         StartLoop \/ Stop \/ LoopExit \/ StopReturns \/ Exit \/ Tick
           \/ TickerFire \/ LoopWakes \/ \E t \in Task : Scan(t)
  PROVE  Inv'
<1>1. task' = task /\ at' = at
  BY DEF StartLoop, Stop, LoopExit, StopReturns, Exit, Tick, TickerFire,
         LoopWakes, Scan
<1>2. NoOverlap' /\ RunningIsHeld' /\ HeldIsRunning'
  BY <1>1 DEF Inv, NoOverlap, RunningIsHeld, HeldIsRunning
<1>3. TypeOK'
  <2> USE ClockAssumption DEF Inv, TypeOK, Proc
  <2>1. CASE StartLoop \/ Stop \/ LoopExit \/ StopReturns \/ Exit
    BY <2>1 DEF StartLoop, Stop, LoopExit, StopReturns, Exit
  <2>2. CASE Tick
    BY <2>2 DEF Tick
  <2>3. CASE TickerFire \/ LoopWakes
    BY <2>3 DEF TickerFire, LoopWakes
  <2>4. CASE \E t \in Task : Scan(t)
    BY <2>4 DEF Scan, Thread
  <2> QED BY <2>1, <2>2, <2>3, <2>4
<1>4. LoopGone'
  <2> USE DEF Inv, LoopGone, LoopIdle
  <2>1. CASE StartLoop \/ Stop \/ Exit
    BY <2>1 DEF StartLoop, Stop, Exit
  <2>2. CASE LoopExit \/ StopReturns
    BY <2>2 DEF LoopExit, StopReturns
  <2>3. CASE Tick
    BY <2>3 DEF Tick
  <2>4. CASE TickerFire \/ LoopWakes \/ \E t \in Task : Scan(t)
    BY <2>4 DEF TickerFire, LoopWakes, Scan
  <2> QED BY <2>1, <2>2, <2>3, <2>4
<1> QED BY <1>2, <1>3, <1>4 DEF Inv

\* A run-now request only queues its task for its own goroutine.
LEMMA RunNowInv ==
  ASSUME Inv, NEW th \in Trigger, NEW t \in Task, RunNow(th, t)
  PROVE  Inv'
<1>1. NoOverlap' /\ RunningIsHeld' /\ HeldIsRunning'
  BY DEF RunNow, Inv, NoOverlap, RunningIsHeld, HeldIsRunning
<1>2. TypeOK'
  BY DEF RunNow, Inv, TypeOK, Thread
<1>3. LoopGone'
  BY TriggerAssumption DEF RunNow, Inv, LoopGone, LoopIdle, TypeOK
<1> QED BY <1>1, <1>2, <1>3 DEF Inv

\* Marking a task as running keeps the type of its record.
LEMMA MarkedRunning ==
  ASSUME NEW s \in TaskState
  PROVE  [s EXCEPT !.status = "running"] \in TaskState
BY DEF TaskState, Status

\* Entering a handler: under the task's mutex the status says that nobody
\* else is in it.
LEMMA EnterTaskInv ==
  ASSUME Inv, NEW th \in Thread, NEW t \in Task, EnterTask(th, t)
  PROVE  Inv'
<1> USE DEF EnterTask
<1>1. TypeOK'
  <2>1. task' \in [Task -> TaskState]
    <3>1. task \in [Task -> TaskState]
      BY DEF Inv, TypeOK
    <3>2. [task[t] EXCEPT !.status = "running"] \in TaskState
      BY ONLY <3>1, t \in Task, MarkedRunning
    <3>3. task' = task \/ task' = [task EXCEPT ![t] = [task[t] EXCEPT !.status = "running"]]
      OBVIOUS
    <3> QED BY <3>1, <3>2, <3>3
  <2>2. at' \in [Thread -> Task \cup {NoTask}]
    BY DEF Inv, TypeOK
  <2>3. queue' \in [Thread -> SUBSET Task]
    BY DEF Inv, TypeOK
  <2> QED BY <2>1, <2>2, <2>3 DEF Inv, TypeOK
<1>2. NoOverlap' /\ HeldIsRunning' /\ RunningIsHeld'
  <2>1. CASE task[t].status = "running"
    BY <2>1 DEF Inv, NoOverlap, HeldIsRunning, RunningIsHeld
  <2>2. CASE task[t].status # "running"
    <3>1. /\ task' = [task EXCEPT ![t].status = "running"]
          /\ at' = [at EXCEPT ![th] = t]
      BY <2>2
    <3>2. \A b \in Thread : at[b] # t
      BY <2>2, NoTaskAssumption DEF Inv, HeldIsRunning
    <3>3. NoOverlap'
      BY <3>1, <3>2 DEF Inv, TypeOK, NoOverlap
    <3>4. HeldIsRunning'
      BY <3>1 DEF Inv, TypeOK, TaskState, HeldIsRunning
    <3>5. RunningIsHeld'
      <4> SUFFICES ASSUME NEW u \in Task, task'[u].status = "running"
                   PROVE  \E b \in Thread : at'[b] = u
        BY DEF RunningIsHeld
      <4>1. CASE u = t
        BY <3>1, <4>1 DEF Inv, TypeOK
      <4>2. CASE u # t
        <5>1. PICK b \in Thread : at[b] = u
          BY <3>1, <4>2 DEF Inv, TypeOK, RunningIsHeld
        <5>2. b # th
          BY <5>1, NoTaskAssumption
        <5> QED BY <3>1, <5>1, <5>2 DEF Inv, TypeOK
      <4> QED BY <4>1, <4>2
    <3> QED BY <3>3, <3>4, <3>5
  <2> QED BY <2>1, <2>2
<1>3. LoopGone'
  <2>1. CASE th = "loop"
    BY <2>1 DEF LoopGone, Alive
  <2>2. CASE th # "loop"
    <3>1. queue'["loop"] = queue["loop"] /\ at'["loop"] = at["loop"]
      BY <2>2 DEF Inv, TypeOK, Thread
    <3> QED BY <3>1 DEF Inv, LoopGone, LoopIdle
  <2> QED BY <2>1, <2>2
<1> QED BY <1>1, <1>2, <1>3 DEF Inv

\* Leaving a handler: only this goroutine was in it, so clearing the status
\* contradicts nobody.
LEMMA LeaveTaskInv ==
  ASSUME Inv, NEW th \in Thread, NEW status \in Status, LeaveTask(th, status)
  PROVE  Inv'
<1> DEFINE t == at[th]
<1>0. /\ t \in Task
      /\ status \in {"complete", "failed"}
      /\ task' = [task EXCEPT ![t] = [lastRun |-> clock,
                    nextRun |-> CronNext(t, clock), status |-> status]]
      /\ at' = [at EXCEPT ![th] = NoTask]
      /\ queue' = queue /\ scan' = scan /\ proc' = proc /\ clock' = clock
      /\ tick' = tick /\ now' = now
      /\ Alive(th)
  BY DEF LeaveTask, Inv, TypeOK
<1>1. TypeOK'
  <2>1. clock \in Nat
    BY DEF Inv, TypeOK
  <2>2. CronNext(t, clock) \in Nat
    BY <1>0, <2>1, CronNextType
  <2> QED BY <1>0, <2>1, <2>2 DEF Inv, TypeOK, TaskState, Status
<1>2. NoOverlap'
  BY <1>0 DEF Inv, TypeOK, NoOverlap
<1>3. HeldIsRunning'
  <2>1. \A b \in Thread : b # th /\ at[b] # NoTask => at[b] # t
    BY <1>0, NoTaskAssumption DEF Inv, NoOverlap
  <2> QED BY <1>0, <2>1 DEF Inv, TypeOK, HeldIsRunning
<1>4. RunningIsHeld'
  <2> SUFFICES ASSUME NEW u \in Task, task'[u].status = "running"
               PROVE  \E b \in Thread : at'[b] = u
    BY DEF RunningIsHeld
  <2>1. u # t /\ task[u].status = "running"
    BY <1>0 DEF Inv, TypeOK
  <2>2. PICK b \in Thread : at[b] = u
    BY <2>1 DEF Inv, RunningIsHeld
  <2>3. b # th
    BY <2>1, <2>2
  <2> QED BY <1>0, <2>2, <2>3 DEF Inv, TypeOK
<1>5. LoopGone'
  BY <1>0 DEF Inv, TypeOK, LoopGone, LoopIdle, Alive
<1> QED BY <1>1, <1>2, <1>3, <1>4, <1>5 DEF Inv

\* Inv is an invariant of the scheduler: it holds at boot and every step of
\* the server, the loop, catch-up, run-now requests and crashes keeps it.
THEOREM Invariance == Spec => []Inv
<1>1. Init => Inv
  BY InitInv
<1>2. Inv /\ [Next]_vars => Inv'
  <2> SUFFICES ASSUME Inv, [Next]_vars PROVE Inv'
    OBVIOUS
  <2>1. CASE Boot
    BY <2>1, BootInv
  <2>2. CASE StartLoop \/ Stop \/ LoopExit \/ StopReturns \/ Exit \/ Tick \/ Loop
    BY <2>2, QuietStepInv DEF Loop
  <2>3. CASE \E th \in Trigger, t \in Task : RunNow(th, t)
    BY <2>3, RunNowInv
  <2>4. CASE \E th \in Thread : RunTask(th)
    BY <2>4, EnterTaskInv, LeaveTaskInv DEF RunTask
  <2>5. CASE UNCHANGED vars
    BY <2>5 DEF vars, Inv, TypeOK, NoOverlap, RunningIsHeld, HeldIsRunning,
                LoopGone, LoopIdle
  <2> QED BY <2>1, <2>2, <2>3, <2>4, <2>5 DEF Next
<1> QED BY <1>1, <1>2, PTL DEF Spec

\* TypeOK for every instance.
THEOREM TypeCorrect == Spec => []TypeOK
<1>1. Inv => TypeOK
  BY DEF Inv
<1> QED BY <1>1, Invariance, PTL

\* runTask lets at most one goroutine into the handler of a task, for any
\* number of concurrent run-now requests.
THEOREM HandlersExclusive == Spec => []NoOverlap
<1>1. Inv => NoOverlap
  BY DEF Inv
<1> QED BY <1>1, Invariance, PTL

\* LastStatus never says "running" of a task nobody runs, so no task is
\* locked out of the scheduler.
THEOREM StatusNeverSticks == Spec => []RunningIsHeld
<1>1. Inv => RunningIsHeld
  BY DEF Inv
<1> QED BY <1>1, Invariance, PTL

\* When Stop has returned the loop runs nothing and will run nothing.
THEOREM StopIsQuiet == Spec => []QuietAfterStop
<1>1. Inv => QuietAfterStop
  BY DEF Inv, LoopGone, QuietAfterStop
<1> QED BY <1>1, Invariance, PTL
=============================================================================
