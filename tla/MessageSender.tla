---------------------------- MODULE MessageSender ----------------------------
(***************************************************************************)
(* MessageSender.run and its MessageSenderTasks: the thread that runs the  *)
(* "send" command, a fixed pool of worker threads, one task per sender     *)
(* and, in periodic mode, one java.util.Timer thread per running task.     *)
(*                                                                         *)
(* Time is counted in ticks; every deadline is kept as the number of ticks *)
(* that are left, so the clock itself needs no bound.  A thread can be     *)
(* delayed for any number of ticks between two of its steps.               *)
(***************************************************************************)
EXTENDS Integers, Sequences, FiniteSets

CONSTANTS NumOfTasks,       \* --num-of-task
          NumOfProcesses,   \* --num-of-process
          MaxNumOfMessage,  \* --max-num-of-message
          MaxDuration,      \* --max-duration, in ticks
          SendPeriod,       \* --send-period, in ticks; 0: send continuously
          SleepTime,        \* the Thread.sleep(500) of a periodic task, in ticks
          MaxLag            \* bound: how late a timer is counted to be, in ticks

ASSUME SenderAssumption ==
  /\ NumOfTasks \in Nat \ {0} /\ NumOfProcesses \in Nat \ {0}
  /\ MaxNumOfMessage \in Nat /\ MaxDuration \in Nat
  /\ SendPeriod \in Nat /\ SleepTime \in Nat \ {0} /\ MaxLag \in Nat

Task == 1 .. NumOfTasks
Periodic == SendPeriod > 0

VARIABLES
  main,        \* where MessageSender.run is
  outcome,     \* history: how it left the try block
  next,        \* the index of its two loops over the tasks
  awaitLeft,   \* ticks left in awaitTermination
  pool,        \* the state of the ThreadPoolExecutor
  poolQueue,   \* its queue of tasks
  workers,     \* the number of worker threads it has created
  task,        \* per task: where it is
  interrupted, \* per task: the interrupt flag of the worker that runs it
  left,        \* per task: ticks left until stopTime, -1 when it has passed
  wake,        \* per task: ticks left of the current sleep
  sent,        \* per task: i of the loop, or messageSent of the timer task
  driver,      \* per task: its MessageDriver
  timer,       \* per task: its Timer thread
  cancelled,   \* per task: the timer, or its timer task, has been cancelled
  nextFire     \* per task: ticks until the timer fires, negative when late

mainVars == <<main, outcome, next, awaitLeft>>
poolVars == <<pool, poolQueue, workers>>
taskVars == <<task, interrupted, left, wake>>
timerVars == <<timer, cancelled, nextFire>>
vars == <<mainVars, poolVars, taskVars, timerVars, sent, driver>>

-----------------------------------------------------------------------------
InTask  == {"loop", "check", "sleep", "cancel", "finish"}
Busy(t) == task[t] \in InTask \cup {"assigned"}

\* A worker that has ended its task looks for the next one in the queue.
IdleWorker == Cardinality({t \in Task : Busy(t)}) < workers

Terminated == pool = "shutdown" /\ poolQueue = <<>> /\ \A t \in Task : ~Busy(t)

Floor(n, low) == IF n < low THEN low ELSE n

Init ==
  /\ main = "create" /\ outcome = "none" /\ next = 1 /\ awaitLeft = 0
  /\ pool = "running" /\ poolQueue = <<>> /\ workers = 0
  /\ task        = [t \in Task |-> "none"]
  /\ interrupted = [t \in Task |-> FALSE]
  /\ left        = [t \in Task |-> 0]
  /\ wake        = [t \in Task |-> 0]
  /\ sent        = [t \in Task |-> 0]
  /\ driver      = [t \in Task |-> "none"]
  /\ timer       = [t \in Task |-> "none"]
  /\ cancelled   = [t \in Task |-> FALSE]
  /\ nextFire    = [t \in Task |-> 0]

\* Every deadline comes one tick nearer.
Tick ==
  /\ left' = [t \in Task |-> IF task[t] \in InTask THEN Floor(left[t] - 1, -1)
                                                   ELSE left[t]]
  /\ wake' = [t \in Task |-> Floor(wake[t] - 1, 0)]
  /\ awaitLeft' = Floor(awaitLeft - 1, 0)
  /\ nextFire' = [t \in Task |-> IF timer[t] = "none" \/ cancelled[t]
                                 THEN nextFire[t]
                                 ELSE Floor(nextFire[t] - 1, -MaxLag)]
  /\ UNCHANGED <<main, outcome, next, poolVars, task, interrupted, sent, driver,
                 timer, cancelled>>

-----------------------------------------------------------------------------
(* MessageSender.run                                                       *)

\* MessageSenderTask(): the driver is created with the task, before any runs.
CreateTask ==
  /\ main = "create"
  /\ task' = [task EXCEPT ![next] = "created"]
  /\ driver' = [driver EXCEPT ![next] = "open"]
  /\ IF next < NumOfTasks
     THEN next' = next + 1 /\ main' = main
     ELSE next' = 1 /\ main' = "submit"
  /\ UNCHANGED <<outcome, awaitLeft, poolVars, interrupted, left, wake, sent,
                 timerVars>>

\* createDriver throws: the drivers created so far are left as they are.
CreateFails ==
  /\ main = "create"
  /\ main' = "finally"
  /\ outcome' = "error"
  /\ UNCHANGED <<next, awaitLeft, poolVars, taskVars, timerVars, sent, driver>>

\* The pool gives a task to a new worker while it may have more of them.
SubmitTask ==
  /\ main = "submit"
  /\ IF workers < NumOfProcesses
     THEN /\ workers' = workers + 1
          /\ task' = [task EXCEPT ![next] = "assigned"]
          /\ poolQueue' = poolQueue
     ELSE /\ poolQueue' = Append(poolQueue, next)
          /\ task' = [task EXCEPT ![next] = "queued"]
          /\ workers' = workers
  /\ IF next < NumOfTasks
     THEN next' = next + 1 /\ main' = main
     ELSE next' = 1 /\ main' = "shutdown"
  /\ UNCHANGED <<outcome, awaitLeft, pool, interrupted, left, wake, timerVars,
                 sent, driver>>

Shutdown ==
  /\ main = "shutdown"
  /\ main' = "await"
  /\ pool' = "shutdown"
  /\ awaitLeft' = MaxDuration
  /\ UNCHANGED <<outcome, next, poolQueue, workers, taskVars, timerVars, sent,
                 driver>>

\* Bug: awaitTermination waits for the workers, not for the queue.
AwaitDone_QueueIgnored ==
  /\ main = "await"
  /\ \A t \in Task : ~Busy(t)
  /\ main' = "finally"
  /\ outcome' = "terminated"
  /\ UNCHANGED <<next, awaitLeft, poolVars, taskVars, timerVars, sent, driver>>

AwaitDone ==
  /\ main = "await"
  /\ Terminated
  /\ main' = "finally"
  /\ outcome' = "terminated"
  /\ UNCHANGED <<next, awaitLeft, poolVars, taskVars, timerVars, sent, driver>>

\* Bug: the wait has no limit of its own.
AwaitTimeout_Never ==
  /\ main = "await"
  /\ Terminated
  /\ main' = "finally"
  /\ outcome' = "timeout"
  /\ UNCHANGED <<next, awaitLeft, poolVars, taskVars, timerVars, sent, driver>>

AwaitTimeout ==
  /\ main = "await"
  /\ awaitLeft = 0
  /\ main' = "finally"
  /\ outcome' = "timeout"
  /\ UNCHANGED <<next, awaitLeft, poolVars, taskVars, timerVars, sent, driver>>

\* The job that runs the command is interrupted.
AwaitInterrupted ==
  /\ main = "await"
  /\ main' = "finally"
  /\ outcome' = "interrupted"
  /\ UNCHANGED <<next, awaitLeft, poolVars, taskVars, timerVars, sent, driver>>

\* The queued tasks are dropped, their drivers with them; every worker that has
\* a task is interrupted.
ShutdownNow ==
  /\ main = "finally"
  /\ main' = "returned"
  /\ pool' = "stop"
  /\ poolQueue' = <<>>
  /\ task' = [t \in Task |-> IF task[t] = "queued" THEN "dropped" ELSE task[t]]
  /\ interrupted' = [t \in Task |-> interrupted[t] \/ Busy(t)]
  /\ UNCHANGED <<outcome, next, awaitLeft, workers, left, wake, timerVars, sent,
                 driver>>

\* The steps run() takes by itself; an interrupt comes from outside.
MainStep ==
  CreateTask \/ CreateFails \/ SubmitTask \/ Shutdown \/ AwaitDone
  \/ AwaitTimeout \/ ShutdownNow

Main == MainStep \/ AwaitInterrupted

-----------------------------------------------------------------------------
(* The worker threads                                                      *)

PollQueue ==
  /\ poolQueue # <<>>
  /\ IdleWorker
  /\ poolQueue' = Tail(poolQueue)
  /\ task' = [task EXCEPT ![Head(poolQueue)] = "assigned"]
  /\ UNCHANGED <<mainVars, pool, workers, interrupted, left, wake, timerVars,
                 sent, driver>>

\* run(): stopTime is set; a periodic task starts its timer, which is due.
Begin(t) ==
  /\ task[t] = "assigned"
  /\ left' = [left EXCEPT ![t] = MaxDuration]
  /\ IF Periodic
     THEN /\ task' = [task EXCEPT ![t] = "check"]
          /\ timer' = [timer EXCEPT ![t] = "waiting"]
     ELSE /\ task' = [task EXCEPT ![t] = "loop"]
          /\ timer' = timer
  /\ UNCHANGED <<mainVars, poolVars, interrupted, wake, cancelled, nextFire, sent,
                 driver>>

\* sendContinuous, one round of the loop.
SendNext(t) ==
  /\ task[t] = "loop"
  /\ sent[t] < MaxNumOfMessage
  /\ sent' = [sent EXCEPT ![t] = @ + 1]
  /\ task' = [task EXCEPT ![t] = IF left[t] < 0 THEN "finish" ELSE "loop"]
  /\ UNCHANGED <<mainVars, poolVars, interrupted, left, wake, timerVars, driver>>

\* Bug: onFinish() is called at the end of the try block, not in finally.
SendFails_NoFinally(t) ==
  /\ task[t] = "loop"
  /\ sent[t] < MaxNumOfMessage
  /\ task' = [task EXCEPT ![t] = "done"]
  /\ UNCHANGED <<mainVars, poolVars, interrupted, left, wake, timerVars, sent,
                 driver>>

\* send() throws, because of the broker or of an interrupt.
SendFails(t) ==
  /\ task[t] = "loop"
  /\ sent[t] < MaxNumOfMessage
  /\ task' = [task EXCEPT ![t] = "finish"]
  /\ UNCHANGED <<mainVars, poolVars, interrupted, left, wake, timerVars, sent,
                 driver>>

LoopEnds(t) ==
  /\ task[t] = "loop"
  /\ sent[t] >= MaxNumOfMessage
  /\ task' = [task EXCEPT ![t] = "finish"]
  /\ UNCHANGED <<mainVars, poolVars, interrupted, left, wake, timerVars, sent,
                 driver>>

\* sendPeriod, the waiting loop.
CheckTime(t) ==
  /\ task[t] = "check"
  /\ IF left[t] > 0
     THEN /\ task' = [task EXCEPT ![t] = "sleep"]
          /\ wake' = [wake EXCEPT ![t] = SleepTime]
     ELSE /\ task' = [task EXCEPT ![t] = "cancel"]
          /\ wake' = wake
  /\ UNCHANGED <<mainVars, poolVars, interrupted, left, timerVars, sent, driver>>

WakeUp(t) ==
  /\ task[t] = "sleep"
  /\ ~interrupted[t]
  /\ wake[t] = 0
  /\ task' = [task EXCEPT ![t] = "check"]
  /\ UNCHANGED <<mainVars, poolVars, interrupted, left, wake, timerVars, sent,
                 driver>>

\* Bug: onFinish() is called at the end of the try block, not in finally.
SleepInterrupted_NoFinally(t) ==
  /\ task[t] = "sleep"
  /\ interrupted[t]
  /\ task' = [task EXCEPT ![t] = "done"]
  /\ interrupted' = [interrupted EXCEPT ![t] = FALSE]
  /\ UNCHANGED <<mainVars, poolVars, left, wake, timerVars, sent, driver>>

SleepInterrupted(t) ==
  /\ task[t] = "sleep"
  /\ interrupted[t]
  /\ task' = [task EXCEPT ![t] = "cancel"]
  /\ interrupted' = [interrupted EXCEPT ![t] = FALSE]
  /\ UNCHANGED <<mainVars, poolVars, left, wake, timerVars, sent, driver>>

\* Bug: the timer is cancelled only when the time is over, not on an interrupt.
CancelTimer_NotInterrupted(t) ==
  /\ task[t] = "cancel"
  /\ task' = [task EXCEPT ![t] = "finish"]
  /\ cancelled' = [cancelled EXCEPT ![t] = @ \/ left[t] <= 0]
  /\ UNCHANGED <<mainVars, poolVars, interrupted, left, wake, timer, nextFire,
                 sent, driver>>

\* Timer.cancel() does not wait for a run of the timer task in progress.
CancelTimer(t) ==
  /\ task[t] = "cancel"
  /\ task' = [task EXCEPT ![t] = "finish"]
  /\ cancelled' = [cancelled EXCEPT ![t] = TRUE]
  /\ UNCHANGED <<mainVars, poolVars, interrupted, left, wake, timer, nextFire,
                 sent, driver>>

OnFinish(t) ==
  /\ task[t] = "finish"
  /\ task' = [task EXCEPT ![t] = "done"]
  /\ driver' = [driver EXCEPT ![t] = "closed"]
  /\ UNCHANGED <<mainVars, poolVars, interrupted, left, wake, timerVars, sent>>

Worker(t) ==
  \/ Begin(t) \/ SendNext(t) \/ SendFails(t) \/ LoopEnds(t) \/ CheckTime(t)
  \/ WakeUp(t) \/ SleepInterrupted(t) \/ CancelTimer(t) \/ OnFinish(t)

-----------------------------------------------------------------------------
(* The Timer thread of a periodic task; scheduleAtFixedRate makes up for   *)
(* late runs, up to MaxLag ticks here.                                     *)

Fire(t) ==
  /\ timer[t] = "waiting"
  /\ ~cancelled[t]
  /\ nextFire[t] <= 0
  /\ timer' = [timer EXCEPT ![t] = "firing"]
  /\ nextFire' = [nextFire EXCEPT ![t] = @ + SendPeriod]
  /\ UNCHANGED <<mainVars, poolVars, taskVars, cancelled, sent, driver>>

\* Bug: the limit is looked at with > instead of >=.
TimerSend_OffByOne(t) ==
  /\ timer[t] = "firing"
  /\ timer' = [timer EXCEPT ![t] = "waiting"]
  /\ sent' = [sent EXCEPT ![t] = @ + 1]
  /\ cancelled' = [cancelled EXCEPT ![t] = @ \/ sent[t] + 1 > MaxNumOfMessage]
  /\ UNCHANGED <<mainVars, poolVars, taskVars, nextFire, driver>>

\* TimerPeriodicTask.run; the driver may have been closed in the meantime.
TimerSend(t) ==
  /\ timer[t] = "firing"
  /\ timer' = [timer EXCEPT ![t] = "waiting"]
  /\ sent' = [sent EXCEPT ![t] = @ + 1]
  /\ cancelled' = [cancelled EXCEPT ![t] = @ \/ sent[t] + 1 >= MaxNumOfMessage]
  /\ UNCHANGED <<mainVars, poolVars, taskVars, nextFire, driver>>

TimerSendFails(t) ==
  /\ timer[t] = "firing"
  /\ timer' = [timer EXCEPT ![t] = "waiting"]
  /\ cancelled' = [cancelled EXCEPT ![t] = TRUE]
  /\ UNCHANGED <<mainVars, poolVars, taskVars, nextFire, sent, driver>>

TimerThread(t) == Fire(t) \/ TimerSend(t) \/ TimerSendFails(t)

-----------------------------------------------------------------------------
Next ==
  \/ Tick
  \/ Main
  \/ PollQueue
  \/ \E t \in Task : Worker(t) \/ TimerThread(t)

Spec == Init /\ [][Next]_vars

\* The clock runs and the sending thread is scheduled; a worker may hang in
\* send() for ever.
MainFairSpec == Spec /\ WF_vars(Tick) /\ WF_vars(MainStep)

\* In addition the workers are scheduled and every send() returns or throws.
FairSpec ==
  /\ MainFairSpec
  /\ WF_vars(PollQueue)
  /\ \A t \in Task : WF_vars(Worker(t)) /\ WF_vars(TimerThread(t))

-----------------------------------------------------------------------------
(* Properties                                                              *)

\* The types of the state.
TypeOK ==
  /\ main \in {"create", "submit", "shutdown", "await", "finally", "returned"}
  /\ outcome \in {"none", "terminated", "timeout", "interrupted", "error"}
  /\ next \in Task
  /\ awaitLeft \in 0 .. MaxDuration
  /\ pool \in {"running", "shutdown", "stop"}
  /\ poolQueue \in Seq(Task)
  /\ workers \in 0 .. NumOfProcesses
  /\ task \in [Task -> InTask \cup {"none", "created", "assigned", "queued",
                                   "dropped", "done"}]
  /\ interrupted \in [Task -> BOOLEAN]
  /\ left \in [Task -> -1 .. MaxDuration]
  /\ wake \in [Task -> 0 .. SleepTime]
  /\ sent \in [Task -> Nat]
  /\ driver \in [Task -> {"none", "open", "closed"}]
  /\ timer \in [Task -> {"none", "waiting", "firing"}]
  /\ cancelled \in [Task -> BOOLEAN]
  /\ nextFire \in [Task -> -MaxLag .. SendPeriod]

\* No task sends more than --max-num-of-message messages, not even when its
\* timer makes up for late runs or fires while the task is being stopped.
SentWithinMax ==
  MaxNumOfMessage > 0 => \A t \in Task : sent[t] <= MaxNumOfMessage

\* A driver is closed exactly when its task has ended: every way out of a task
\* that has begun closes the driver, and a running task has an open one.
ClosedIffDone ==
  \A t \in Task : /\ driver[t] = "closed" <=> task[t] = "done"
                  /\ Busy(t) => driver[t] = "open"

\* When awaitTermination returns before its time is over, every task has run
\* to its end and has closed its driver.
TerminatedRanAll ==
  outcome = "terminated" => \A t \in Task : driver[t] = "closed"

\* The timer starts no new send after the driver has been closed (a send that
\* is in progress may still meet a closed driver).
NoFireAfterClose ==
  [][\A t \in Task : driver[t] = "closed" /\ timer[t] # "firing"
                       => timer'[t] # "firing"]_vars

\* The refinement mapping: a driver is a connection, a timer that fires is a send
\* in progress, and only awaitTermination can answer that all is done.
Sending == {t \in Task : timer[t] = "firing"}

Answer == CASE outcome = "none"       -> "none"
            [] outcome = "terminated" -> "complete"
            [] OTHER                  -> "incomplete"

Command == INSTANCE SendCommand
             WITH connection <- driver, sending <- Sending, count <- sent, answer <- Answer

\* The command implements SendCommand: whatever the pool, the timers and the
\* interrupts do, no send is begun on a driver that is not open or past the
\* limit, and run() finds the pool terminated only when all is closed.
ImplementsSendCommand == Command!SendSpec

\* run() returns within its time limit even if some send() never does.
RunReturns == <>(main = "returned")

\* A task that a worker has been given ends and closes its driver.
TasksEnd == \A t \in Task : Busy(t) ~> driver[t] = "closed"

\* MessageSenderConfig says of --max-num-of-message: "Maximum number of message
\* for all tasks".
Total[t \in 0 .. NumOfTasks] == IF t = 0 THEN 0 ELSE Total[t - 1] + sent[t]
TotalWithinMax == Total[NumOfTasks] <= MaxNumOfMessage
=============================================================================
