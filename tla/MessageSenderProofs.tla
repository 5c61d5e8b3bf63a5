------------------------- MODULE MessageSenderProofs -------------------------
(***************************************************************************)
(* Safety of MessageSender for any number of tasks, of worker threads and  *)
(* of messages and any durations: the argument follows each task from its  *)
(* creation over the queue of the pool to the close of its driver.         *)
(***************************************************************************)
EXTENDS MessageSender, TLAPS

-----------------------------------------------------------------------------
(* The inductive invariant                                                 *)

\* The places of a task that no worker has begun.
Fresh == {"none", "created", "queued", "assigned", "dropped"}

\* What a task sends at most.
AtMost == Command!Limit

\* What holds of a task by itself: the driver follows the task; a timer is
\* there in periodic mode only, once the task has begun, is cancelled before
\* the task is finished, and starts a send only below the limit.
TaskInv(t) ==
  /\ driver[t] = IF task[t] = "none" THEN "none"
                 ELSE IF task[t] = "done" THEN "closed" ELSE "open"
  /\ task[t] \in Fresh => sent[t] = 0 /\ timer[t] = "none"
  /\ IF Periodic THEN task[t] # "loop" ELSE timer[t] = "none"
  /\ task[t] \in {"finish", "done"} => timer[t] = "none" \/ cancelled[t]
  /\ sent[t] <= AtMost
  /\ timer[t] = "firing" \/ (timer[t] = "waiting" /\ ~cancelled[t]) => sent[t] < AtMost

\* The queue of the pool has every queued task once.
QueueInv ==
  /\ \A i, k \in DOMAIN poolQueue : poolQueue[i] = poolQueue[k] => i = k
  /\ \A t \in Task : task[t] = "queued" <=> \E i \in DOMAIN poolQueue : poolQueue[i] = t

\* How far run() has come with the tasks.
Submitted(t) == task[t] \notin {"none", "created", "dropped"}

PhaseInv ==
  /\ main = "create" => \A t \in Task : task[t] = IF t < next THEN "created" ELSE "none"
  /\ main = "submit" => \A t \in Task : IF t < next THEN Submitted(t) ELSE task[t] = "created"
  /\ main \in {"shutdown", "await"} => \A t \in Task : Submitted(t)
  /\ main \in {"finally", "returned"} \/ outcome = "none"
  /\ outcome = "terminated" =>
       /\ main \in {"finally", "returned"}
       /\ \A t \in Task : task[t] = "done"

IInv == TypeOK /\ (\A t \in Task : TaskInv(t)) /\ QueueInv /\ PhaseInv

\* A timer counts after the send, so that it sends one message if it may send none.
LEMMA AtMostFacts == AtMost \in Nat /\ 0 < AtMost /\ MaxNumOfMessage <= AtMost
  BY SenderAssumption DEF AtMost, Command!Limit

USE SenderAssumption DEF mainVars, poolVars, taskVars, timerVars

-----------------------------------------------------------------------------
\* The tasks are numbered from the first to the last.
LEMMA TaskFacts == /\ 1 \in Task
                   /\ \A t \in Task : t \in Nat /\ (t < NumOfTasks => t + 1 \in Task)
  BY DEF Task

\* What a deadline is after a tick.
LEMMA FloorFacts ==
  ASSUME NEW low \in Int, NEW high \in Int, low <= high, NEW n \in low .. high
  PROVE  Floor(n - 1, low) \in low .. high
  BY DEF Floor

\* The invariant holds at the start.
LEMMA InitIInv == Init => IInv
<1> SUFFICES ASSUME Init PROVE IInv
  OBVIOUS
<1>1. TypeOK
  <2>1. poolQueue \in Seq(Task)
    BY DEF Init
  <2>2. 0 \in -MaxLag .. SendPeriod /\ 0 \in -1 .. MaxDuration
    OBVIOUS
  <2> QED
    BY TaskFacts, <2>1, <2>2 DEF Init, TypeOK
<1>2. /\ \A t \in Task : /\ task[t] = "none" /\ driver[t] = "none"
                         /\ sent[t] = 0 /\ timer[t] = "none"
      /\ poolQueue = <<>> /\ main = "create" /\ next = 1 /\ outcome = "none"
  BY DEF Init
<1>3. ASSUME NEW t \in Task PROVE TaskInv(t)
  <2>1. sent[t] <= AtMost
    BY <1>2, AtMostFacts
  <2> QED
    BY <1>2, <2>1 DEF TaskInv
<1>4. QueueInv
  BY <1>2 DEF QueueInv
<1>5. PhaseInv
  BY <1>2, TaskFacts DEF PhaseInv, Task
<1> QED
  BY <1>1, <1>3, <1>4, <1>5 DEF IInv

-----------------------------------------------------------------------------
(* Types                                                                   *)

\* The steps of the thread that runs the command keep the types.
LEMMA MainTypeOK == TypeOK /\ Main => TypeOK'
<1> SUFFICES ASSUME TypeOK, Main PROVE TypeOK'
  OBVIOUS
<1> USE DEF TypeOK
<1>1. CASE CreateTask
  BY <1>1, TaskFacts DEF CreateTask
<1>2. CASE CreateFails
  BY <1>2 DEF CreateFails
<1>3. CASE SubmitTask
  <2>1. next' \in Task /\ main' \in {"submit", "shutdown"}
    BY <1>3, TaskFacts DEF SubmitTask
  <2>2. workers' \in 0 .. NumOfProcesses
    BY <1>3 DEF SubmitTask
  <2>3. poolQueue' \in Seq(Task)
    <3>1. poolQueue' = poolQueue \/ poolQueue' = Append(poolQueue, next)
      BY <1>3 DEF SubmitTask
    <3>2. poolQueue \in Seq(Task) /\ next \in Task
      OBVIOUS
    <3> HIDE DEF TypeOK
    <3> QED
      BY <3>1, <3>2
  <2>4. task' \in [Task -> InTask \cup {"none", "created", "assigned", "queued",
                                        "dropped", "done"}]
    BY <1>3 DEF SubmitTask
  <2> QED
    BY <1>3, <2>1, <2>2, <2>3, <2>4 DEF SubmitTask
<1>4. CASE Shutdown
  BY <1>4 DEF Shutdown
<1>5. CASE AwaitDone \/ AwaitTimeout \/ AwaitInterrupted
  BY <1>5 DEF AwaitDone, AwaitTimeout, AwaitInterrupted
<1>6. CASE ShutdownNow
  <2>1. task' \in [Task -> InTask \cup {"none", "created", "assigned", "queued",
                                        "dropped", "done"}]
    BY <1>6 DEF ShutdownNow
  <2>2. interrupted' \in [Task -> BOOLEAN]
    BY <1>6 DEF ShutdownNow, Busy
  <2>3. poolQueue' \in Seq(Task)
    BY <1>6 DEF ShutdownNow
  <2> QED
    BY <1>6, <2>1, <2>2, <2>3 DEF ShutdownNow
<1> QED
  BY <1>1, <1>2, <1>3, <1>4, <1>5, <1>6 DEF Main, MainStep

\* The clock keeps the types.
LEMMA TickTypeOK == TypeOK /\ Tick => TypeOK'
<1> SUFFICES ASSUME TypeOK, Tick PROVE TypeOK'
  OBVIOUS
<1>0. /\ left \in [Task -> -1 .. MaxDuration] /\ wake \in [Task -> 0 .. SleepTime]
      /\ awaitLeft \in 0 .. MaxDuration
      /\ nextFire \in [Task -> -MaxLag .. SendPeriod]
  BY DEF TypeOK
<1> HIDE DEF TypeOK
<1>1. left' \in [Task -> -1 .. MaxDuration]
  <2>1. ASSUME NEW t \in Task
        PROVE  (IF task[t] \in InTask THEN Floor(left[t] - 1, -1) ELSE left[t])
                 \in -1 .. MaxDuration
    <3>1. left[t] \in -1 .. MaxDuration
      BY <1>0
    <3>2. Floor(left[t] - 1, -1) \in -1 .. MaxDuration
      BY <3>1, FloorFacts
    <3> QED
      BY <3>1, <3>2
  <2>2. left' = [t \in Task |-> IF task[t] \in InTask THEN Floor(left[t] - 1, -1)
                                                      ELSE left[t]]
    BY DEF Tick
  <2> QED
    BY <2>1, <2>2
<1>2. wake' \in [Task -> 0 .. SleepTime]
  <2>1. ASSUME NEW t \in Task PROVE Floor(wake[t] - 1, 0) \in 0 .. SleepTime
    <3>1. wake[t] \in 0 .. SleepTime
      BY <1>0
    <3> QED
      BY <3>1, FloorFacts
  <2>2. wake' = [t \in Task |-> Floor(wake[t] - 1, 0)]
    BY DEF Tick
  <2> QED
    BY <2>1, <2>2
<1>3. awaitLeft' \in 0 .. MaxDuration
  <2>1. awaitLeft' = Floor(awaitLeft - 1, 0)
    BY DEF Tick
  <2> QED
    BY <1>0, <2>1, FloorFacts
<1>4. nextFire' \in [Task -> -MaxLag .. SendPeriod]
  <2>1. ASSUME NEW t \in Task
        PROVE  (IF timer[t] = "none" \/ cancelled[t] THEN nextFire[t]
                ELSE Floor(nextFire[t] - 1, -MaxLag)) \in -MaxLag .. SendPeriod
    <3>1. nextFire[t] \in -MaxLag .. SendPeriod
      BY <1>0
    <3>2. -MaxLag \in Int /\ -MaxLag <= SendPeriod /\ SendPeriod \in Int
      OBVIOUS
    <3>3. Floor(nextFire[t] - 1, -MaxLag) \in -MaxLag .. SendPeriod
      BY <3>1, <3>2, FloorFacts
    <3> QED
      BY <3>1, <3>3
  <2>2. nextFire' = [t \in Task |-> IF timer[t] = "none" \/ cancelled[t]
                                    THEN nextFire[t]
                                    ELSE Floor(nextFire[t] - 1, -MaxLag)]
    BY DEF Tick
  <2> QED
    BY <2>1, <2>2
<1> QED
  BY <1>1, <1>2, <1>3, <1>4 DEF TypeOK, Tick

\* The workers and the timers keep the types.
LEMMA ThreadTypeOK ==
  ASSUME TypeOK, NEW t \in Task, Worker(t) \/ TimerThread(t) PROVE TypeOK'
<1> USE DEF TypeOK, InTask
<1>1. CASE Begin(t)
  <2>1. left' \in [Task -> -1 .. MaxDuration]
    BY <1>1 DEF Begin
  <2>2. task' \in [Task -> InTask \cup {"none", "created", "assigned", "queued",
                                        "dropped", "done"}]
    <3>1. \E p \in InTask : task' = [task EXCEPT ![t] = p]
      BY <1>1 DEF Begin
    <3> QED
      BY <3>1
  <2>3. timer' \in [Task -> {"none", "waiting", "firing"}]
    BY <1>1 DEF Begin
  <2> QED
    BY <1>1, <2>1, <2>2, <2>3 DEF Begin
<1>2. CASE SendNext(t)
  <2>1. sent' \in [Task -> Nat]
    <3>1. sent \in [Task -> Nat] /\ sent' = [sent EXCEPT ![t] = sent[t] + 1]
      BY <1>2 DEF SendNext
    <3> HIDE DEF TypeOK
    <3>2. sent[t] + 1 \in Nat
      BY <3>1
    <3> QED
      BY <3>1, <3>2
  <2>2. task' \in [Task -> InTask \cup {"none", "created", "assigned", "queued",
                                        "dropped", "done"}]
    BY <1>2 DEF SendNext
  <2> QED
    BY <1>2, <2>1, <2>2 DEF SendNext
<1>3. CASE SendFails(t) \/ LoopEnds(t) \/ WakeUp(t)
  <2>1. \E p \in InTask : task' = [task EXCEPT ![t] = p]
    BY <1>3 DEF SendFails, LoopEnds, WakeUp
  <2> QED
    BY <1>3, <2>1 DEF SendFails, LoopEnds, WakeUp
<1>4. CASE CheckTime(t)
  <2>1. wake' \in [Task -> 0 .. SleepTime]
    <3>1. wake' = wake \/ wake' = [wake EXCEPT ![t] = SleepTime]
      BY <1>4 DEF CheckTime
    <3>2. SleepTime \in 0 .. SleepTime
      OBVIOUS
    <3> QED
      BY <3>1, <3>2
  <2>2. task' \in [Task -> InTask \cup {"none", "created", "assigned", "queued",
                                        "dropped", "done"}]
    <3>1. \E p \in InTask : task' = [task EXCEPT ![t] = p]
      BY <1>4 DEF CheckTime
    <3> QED
      BY <3>1
  <2> QED
    BY <1>4, <2>1, <2>2 DEF CheckTime
<1>5. CASE SleepInterrupted(t) \/ CancelTimer(t) \/ OnFinish(t)
  <2>1. CASE SleepInterrupted(t)
    BY <2>1 DEF SleepInterrupted
  <2>2. CASE CancelTimer(t)
    BY <2>2 DEF CancelTimer
  <2>3. CASE OnFinish(t)
    BY <2>3 DEF OnFinish
  <2> QED
    BY <1>5, <2>1, <2>2, <2>3
<1>6. CASE Fire(t)
  <2>1. nextFire[t] + SendPeriod \in -MaxLag .. SendPeriod
    BY <1>6 DEF Fire
  <2>2. nextFire' \in [Task -> -MaxLag .. SendPeriod]
    BY <1>6, <2>1 DEF Fire
  <2> QED
    BY <1>6, <2>2 DEF Fire
<1>7. CASE TimerSend(t)
  <2>1. sent' \in [Task -> Nat]
    <3>1. sent \in [Task -> Nat] /\ sent' = [sent EXCEPT ![t] = sent[t] + 1]
      BY <1>7 DEF TimerSend
    <3> HIDE DEF TypeOK
    <3>2. sent[t] + 1 \in Nat
      BY <3>1
    <3> QED
      BY <3>1, <3>2
  <2>2. cancelled' \in [Task -> BOOLEAN]
    BY <1>7 DEF TimerSend
  <2> QED
    BY <1>7, <2>1, <2>2 DEF TimerSend
<1>8. CASE TimerSendFails(t)
  BY <1>8 DEF TimerSendFails
<1> QED
  BY <1>1, <1>2, <1>3, <1>4, <1>5, <1>6, <1>7, <1>8 DEF Worker, TimerThread

\* Every step keeps the types.
LEMMA NextTypeOK == TypeOK /\ [Next]_vars => TypeOK'
<1> SUFFICES ASSUME TypeOK, [Next]_vars PROVE TypeOK'
  OBVIOUS
<1>1. CASE PollQueue
  <2>1. Head(poolQueue) \in Task /\ Tail(poolQueue) \in Seq(Task)
    <3>1. PICK q \in Seq(Task) : q = poolQueue
      BY DEF TypeOK
    <3>2. q # <<>>
      BY <1>1, <3>1 DEF PollQueue
    <3>3. Head(q) \in Task /\ Tail(q) \in Seq(Task)
      BY <3>2
    <3> QED
      BY <3>1, <3>3
  <2> QED
    BY <1>1, <2>1 DEF PollQueue, TypeOK
<1>2. CASE UNCHANGED vars
  BY <1>2 DEF vars, TypeOK
<1> QED
  BY <1>1, <1>2, MainTypeOK, TickTypeOK, ThreadTypeOK DEF Next

-----------------------------------------------------------------------------
(* The queue and the phases                                                *)

\* The worker threads move the tasks they have begun, and no other.
LEMMA ThreadMoves ==
  ASSUME TypeOK, NEW t \in Task, Worker(t) \/ TimerThread(t)
  PROVE  /\ UNCHANGED <<mainVars, poolVars>>
         /\ \A x \in Task \ {t} : task'[x] = task[x]
         /\ task'[t] = task[t] \/ (Busy(t) /\ task'[t] \in InTask \cup {"done"})
<1> USE DEF TypeOK, InTask, Busy
<1>1. CASE Begin(t) \/ SendNext(t) \/ SendFails(t) \/ LoopEnds(t)
  BY <1>1 DEF Begin, SendNext, SendFails, LoopEnds
<1>2. CASE CheckTime(t) \/ WakeUp(t) \/ SleepInterrupted(t) \/ CancelTimer(t) \/ OnFinish(t)
  BY <1>2 DEF CheckTime, WakeUp, SleepInterrupted, CancelTimer, OnFinish
<1>3. CASE TimerThread(t)
  <2>1. UNCHANGED <<mainVars, poolVars, task>>
    BY <1>3 DEF TimerThread, Fire, TimerSend, TimerSendFails
  <2> QED
    BY <2>1
<1> QED
  BY <1>1, <1>2, <1>3 DEF Worker

\* A worker takes the first task of the queue.
LEMMA PollFacts ==
  ASSUME TypeOK, QueueInv, PollQueue
  PROVE  /\ Head(poolQueue) \in Task /\ task[Head(poolQueue)] = "queued"
         /\ \A t \in Task : task'[t] = IF t = Head(poolQueue) THEN "assigned" ELSE task[t]
         /\ QueueInv'
<1>1. /\ Head(poolQueue) \in Task /\ Head(poolQueue) = poolQueue[1]
      /\ Len(poolQueue) \in Nat \ {0} /\ DOMAIN poolQueue = 1 .. Len(poolQueue)
      /\ DOMAIN Tail(poolQueue) = 1 .. Len(poolQueue) - 1
      /\ \A i \in 1 .. Len(poolQueue) - 1 : Tail(poolQueue)[i] = poolQueue[i + 1]
  <2>1. PICK q \in Seq(Task) : q = poolQueue
    BY DEF TypeOK
  <2>2. q # <<>>
    BY <2>1 DEF PollQueue
  <2>3. Len(q) \in Nat \ {0} /\ DOMAIN q = 1 .. Len(q)
    BY <2>2
  <2>4. Head(q) = q[1] /\ q[1] \in Task
    BY <2>2, <2>3
  <2>5. /\ Tail(q) \in Seq(Task) /\ Len(Tail(q)) = Len(q) - 1
        /\ \A i \in 1 .. Len(q) - 1 : Tail(q)[i] = q[i + 1]
    BY <2>2, <2>3
  <2>6. DOMAIN Tail(q) = 1 .. Len(q) - 1
    BY <2>5
  <2> QED
    BY <2>1, <2>3, <2>4, <2>5, <2>6
<1>2. task[Head(poolQueue)] = "queued"
  BY <1>1 DEF QueueInv
<1>3. \A t \in Task : task'[t] = IF t = Head(poolQueue) THEN "assigned" ELSE task[t]
  BY <1>1 DEF PollQueue, TypeOK
<1>4. poolQueue' = Tail(poolQueue)
  BY DEF PollQueue
<1>5. \A i, k \in DOMAIN poolQueue' : poolQueue'[i] = poolQueue'[k] => i = k
  <2> SUFFICES ASSUME NEW i \in DOMAIN poolQueue', NEW k \in DOMAIN poolQueue',
                      poolQueue'[i] = poolQueue'[k]
               PROVE  i = k
    OBVIOUS
  <2>1. i + 1 \in DOMAIN poolQueue /\ k + 1 \in DOMAIN poolQueue
    BY <1>1, <1>4
  <2>2. poolQueue[i + 1] = poolQueue[k + 1]
    BY <1>1, <1>4
  <2>3. i + 1 = k + 1
    BY <2>1, <2>2 DEF QueueInv
  <2> QED
    BY <1>1, <1>4, <2>3
<1>6. ASSUME NEW t \in Task
      PROVE  task'[t] = "queued" <=> \E i \in DOMAIN poolQueue' : poolQueue'[i] = t
  <2>1. ASSUME task'[t] = "queued"
        PROVE  \E i \in DOMAIN poolQueue' : poolQueue'[i] = t
    <3>1. task[t] = "queued" /\ t # Head(poolQueue)
      BY <1>3, <2>1
    <3>2. PICK i \in DOMAIN poolQueue : poolQueue[i] = t
      BY <3>1 DEF QueueInv
    <3>3. i - 1 \in DOMAIN poolQueue' /\ poolQueue'[i - 1] = t
      BY <1>1, <1>4, <3>1, <3>2
    <3> QED
      BY <3>3
  <2>2. ASSUME NEW i \in DOMAIN poolQueue', poolQueue'[i] = t
        PROVE  task'[t] = "queued"
    <3>1. i + 1 \in DOMAIN poolQueue /\ poolQueue[i + 1] = t /\ i + 1 # 1
      BY <1>1, <1>4, <2>2
    <3>2. task[t] = "queued" /\ t # Head(poolQueue)
      BY <1>1, <3>1 DEF QueueInv
    <3> QED
      BY <1>3, <3>2
  <2> QED
    BY <2>1, <2>2
<1> QED
  BY <1>1, <1>2, <1>3, <1>5, <1>6 DEF QueueInv

\* The pool takes a task that has been created: it is given to a worker or put
\* at the end of the queue.
LEMMA SubmitFacts ==
  ASSUME TypeOK, QueueInv, PhaseInv, SubmitTask
  PROVE  /\ task[next] = "created"
         /\ \A t \in Task : IF t = next THEN task'[t] \in {"assigned", "queued"}
                                        ELSE task'[t] = task[t]
         /\ QueueInv'
<1>1. next \in Task /\ next \in Nat
  BY TaskFacts DEF TypeOK
<1>2. task[next] = "created"
  BY <1>1 DEF PhaseInv, SubmitTask
<1>3. \A t \in Task : IF t = next THEN task'[t] \in {"assigned", "queued"}
                                  ELSE task'[t] = task[t]
  BY <1>1 DEF SubmitTask, TypeOK
<1>4. ASSUME poolQueue' = poolQueue, task'[next] = "assigned" PROVE QueueInv'
  BY <1>2, <1>3, <1>4 DEF QueueInv
<1>5. ASSUME poolQueue' = Append(poolQueue, next), task'[next] = "queued" PROVE QueueInv'
  <2>1. /\ Len(poolQueue) \in Nat /\ DOMAIN poolQueue = 1 .. Len(poolQueue)
        /\ DOMAIN poolQueue' = 1 .. Len(poolQueue) + 1
        /\ \A i \in 1 .. Len(poolQueue) : poolQueue'[i] = poolQueue[i]
        /\ poolQueue'[Len(poolQueue) + 1] = next
    BY <1>1, <1>5 DEF TypeOK
  <2>2. \A i \in DOMAIN poolQueue : poolQueue[i] # next
    BY <1>1, <1>2 DEF QueueInv
  <2>3. \A i, k \in DOMAIN poolQueue' : poolQueue'[i] = poolQueue'[k] => i = k
    BY <2>1, <2>2 DEF QueueInv
  <2>4. ASSUME NEW t \in Task
        PROVE  task'[t] = "queued" <=> \E i \in DOMAIN poolQueue' : poolQueue'[i] = t
    <3>1. CASE t = next
      BY <1>5, <2>1, <3>1
    <3>2. CASE t # next
      <4>1. task'[t] = task[t]
        BY <1>3, <3>2
      <4>2. task[t] = "queued" <=> \E i \in 1 .. Len(poolQueue) : poolQueue[i] = t
        BY <2>1 DEF QueueInv
      <4>3. (\E i \in 1 .. Len(poolQueue) : poolQueue[i] = t)
              <=> \E i \in 1 .. Len(poolQueue) + 1 : poolQueue'[i] = t
        BY <2>1, <3>2
      <4> QED
        BY <2>1, <4>1, <4>2, <4>3
    <3> QED
      BY <3>1, <3>2
  <2>5. \A t \in Task :
          task'[t] = "queued" <=> \E i \in DOMAIN poolQueue' : poolQueue'[i] = t
    BY <2>4
  <2> QED
    BY <2>3, <2>5 DEF QueueInv
<1> QED
  BY <1>1, <1>2, <1>3, <1>4, <1>5 DEF SubmitTask, TypeOK

\* The steps that leave the queue alone, and move no task to it or from it.
LEMMA QueueStays ==
  ASSUME QueueInv, UNCHANGED poolQueue,
         \A t \in Task : task'[t] = task[t] \/ "queued" \notin {task[t], task'[t]}
  PROVE  QueueInv'
  BY DEF QueueInv

\* Every step keeps the queue in order.
LEMMA NextQueueInv == TypeOK /\ QueueInv /\ PhaseInv /\ [Next]_vars => QueueInv'
<1> SUFFICES ASSUME TypeOK, QueueInv, PhaseInv, [Next]_vars PROVE QueueInv'
  OBVIOUS
<1>1. CASE UNCHANGED <<task, poolQueue>>
  BY <1>1, QueueStays
<1>2. CASE CreateTask
  <2>1. task[next] = "none"
    BY <1>2, TaskFacts DEF CreateTask, PhaseInv, TypeOK
  <2> QED
    BY <1>2, <2>1, QueueStays DEF CreateTask, TypeOK
<1>3. CASE ShutdownNow
  BY <1>3 DEF ShutdownNow, QueueInv
<1>4. ASSUME NEW t \in Task, Worker(t) \/ TimerThread(t) PROVE QueueInv'
  BY <1>4, ThreadMoves, QueueStays DEF Busy, InTask
<1>5. CASE \/ CreateFails \/ Shutdown \/ AwaitDone \/ AwaitTimeout \/ AwaitInterrupted
           \/ Tick \/ UNCHANGED vars
  BY <1>1, <1>5 DEF CreateFails, Shutdown, AwaitDone, AwaitTimeout, AwaitInterrupted,
                    Tick, vars
<1> QED
  BY <1>2, <1>3, <1>4, <1>5, PollFacts, SubmitFacts DEF Next, Main, MainStep

\* The phases of run() are kept by its own steps.
LEMMA MainPhaseInv == TypeOK /\ QueueInv /\ PhaseInv /\ Main => PhaseInv'
<1> SUFFICES ASSUME TypeOK, QueueInv, PhaseInv, Main PROVE PhaseInv'
  OBVIOUS
<1>0. next \in Nat /\ next \in Task /\ \A t \in Task : t \in Nat
  BY TaskFacts DEF TypeOK
<1>1. CASE CreateTask
  <2>1. /\ main = "create" /\ outcome # "terminated" /\ outcome' = outcome
        /\ \A t \in Task : task'[t] = IF t <= next THEN "created" ELSE "none"
    BY <1>0, <1>1 DEF CreateTask, PhaseInv, TypeOK
  <2>2. CASE next < NumOfTasks
    BY <1>0, <1>1, <2>1, <2>2 DEF CreateTask, PhaseInv
  <2>3. CASE ~(next < NumOfTasks)
    <3>1. \A t \in Task : t <= next /\ ~(t < 1)
      BY <1>0, <2>3 DEF Task
    <3> QED
      BY <1>1, <2>1, <2>3, <3>1 DEF CreateTask, PhaseInv
  <2> QED
    BY <2>2, <2>3
<1>2. CASE SubmitTask
  <2>1. /\ main = "submit" /\ outcome # "terminated" /\ outcome' = outcome
        /\ \A t \in Task : t <= next => Submitted(t)'
        /\ \A t \in Task : t > next => task'[t] = "created"
    BY <1>0, <1>2, SubmitFacts DEF SubmitTask, PhaseInv, Submitted
  <2>2. CASE next < NumOfTasks
    BY <1>0, <1>2, <2>1, <2>2 DEF SubmitTask, PhaseInv
  <2>3. CASE ~(next < NumOfTasks)
    <3>1. \A t \in Task : t <= next
      BY <1>0, <2>3 DEF Task
    <3> QED
      BY <1>0, <1>2, <2>1, <2>3, <3>1 DEF SubmitTask, PhaseInv
  <2> QED
    BY <2>2, <2>3
<1>3. CASE AwaitDone
  <2>1. \A t \in Task : Submitted(t) /\ ~Busy(t) /\ task[t] # "queued"
    BY <1>3 DEF AwaitDone, Terminated, PhaseInv, QueueInv
  <2>2. \A t \in Task : task[t] = "done"
    BY <2>1 DEF TypeOK, Submitted, Busy, InTask
  <2> QED
    BY <1>3, <2>2 DEF AwaitDone, PhaseInv
<1>4. CASE ShutdownNow
  <2>1. outcome = "terminated" => \A t \in Task : task'[t] = "done"
    BY <1>4 DEF ShutdownNow, PhaseInv
  <2> QED
    BY <1>4, <2>1 DEF ShutdownNow, PhaseInv
<1>5. CASE CreateFails \/ Shutdown \/ AwaitTimeout \/ AwaitInterrupted
  BY <1>5 DEF CreateFails, Shutdown, AwaitTimeout, AwaitInterrupted, PhaseInv, Submitted
<1> QED
  BY <1>1, <1>2, <1>3, <1>4, <1>5 DEF Main, MainStep

\* Every step keeps the phases.
LEMMA NextPhaseInv == TypeOK /\ QueueInv /\ PhaseInv /\ [Next]_vars => PhaseInv'
<1> SUFFICES ASSUME TypeOK, QueueInv, PhaseInv, [Next]_vars PROVE PhaseInv'
  OBVIOUS
<1>1. ASSUME UNCHANGED <<main, outcome, next>>,
             \A t \in Task : task'[t] = task[t] \/ (Submitted(t) /\ Submitted(t)' /\ task[t] # "done")
      PROVE  PhaseInv'
  BY <1>1 DEF PhaseInv, Submitted
<1>2. ASSUME NEW t \in Task, Worker(t) \/ TimerThread(t) PROVE PhaseInv'
  <2>1. UNCHANGED <<main, outcome, next>>
    BY <1>2, ThreadMoves
  <2>2. \A x \in Task : task'[x] = task[x] \/ (Submitted(x) /\ Submitted(x)' /\ task[x] # "done")
    BY <1>2, ThreadMoves DEF Busy, InTask, Submitted
  <2> QED
    BY <1>1, <2>1, <2>2
<1>3. CASE PollQueue
  <2>1. UNCHANGED <<main, outcome, next>>
    BY <1>3 DEF PollQueue
  <2>2. \A x \in Task : task'[x] = task[x] \/ (Submitted(x) /\ Submitted(x)' /\ task[x] # "done")
    BY <1>3, PollFacts DEF Submitted
  <2> QED
    BY <1>1, <2>1, <2>2
<1>4. CASE Tick \/ UNCHANGED vars
  <2>1. UNCHANGED <<main, outcome, next, task>>
    BY <1>4 DEF Tick, vars
  <2> QED
    BY <2>1 DEF PhaseInv, Submitted
<1> QED
  BY <1>2, <1>3, <1>4, MainPhaseInv DEF Next

-----------------------------------------------------------------------------
(* The tasks                                                               *)

\* The thread that runs the command, the clock and the queue keep the
\* invariant of each task.
LEMMA MainTaskInv ==
  ASSUME TypeOK, QueueInv, PhaseInv, NEW x \in Task, TaskInv(x),
         Main \/ Tick \/ PollQueue \/ UNCHANGED vars
  PROVE  TaskInv(x)'
<1>1. CASE UNCHANGED <<task, timer, cancelled, sent, driver>>
  BY <1>1 DEF TaskInv
<1>2. ASSUME UNCHANGED <<timer, cancelled, sent, driver>>,
             task[x] \in Fresh \ {"none"}, task'[x] \in Fresh \ {"none"}
      PROVE  TaskInv(x)'
  BY <1>2 DEF TaskInv, Fresh
<1>3. CASE CreateTask
  <2>1. next \in Task /\ task[next] = "none"
    <3>1. next \in Task /\ main = "create"
      BY <1>3 DEF CreateTask, TypeOK
    <3>2. ~(next < next)
      BY <3>1, TaskFacts
    <3> QED
      BY <3>1, <3>2 DEF PhaseInv
  <2>2. /\ task'[x] = IF x = next THEN "created" ELSE task[x]
        /\ driver'[x] = IF x = next THEN "open" ELSE driver[x]
        /\ UNCHANGED <<timer, cancelled, sent>>
    BY <1>3, <2>1 DEF CreateTask, TypeOK
  <2> QED
    BY <2>1, <2>2 DEF TaskInv, Fresh
<1>4. CASE SubmitTask
  <2>1. UNCHANGED <<timer, cancelled, sent, driver>>
    BY <1>4 DEF SubmitTask
  <2>2. IF x = next THEN task[x] = "created" /\ task'[x] \in {"assigned", "queued"}
                    ELSE task'[x] = task[x]
    BY <1>4, SubmitFacts
  <2>3. CASE x = next
    BY <1>2, <2>1, <2>2, <2>3 DEF Fresh
  <2>4. CASE x # next
    BY <2>1, <2>2, <2>4 DEF TaskInv
  <2> QED
    BY <2>3, <2>4
<1>5. CASE PollQueue
  <2>1. UNCHANGED <<timer, cancelled, sent, driver>>
    BY <1>5 DEF PollQueue
  <2>2. IF x = Head(poolQueue) THEN task[x] = "queued" /\ task'[x] = "assigned"
                               ELSE task'[x] = task[x]
    BY <1>5, PollFacts
  <2>3. CASE x = Head(poolQueue)
    BY <1>2, <2>1, <2>2, <2>3 DEF Fresh
  <2>4. CASE x # Head(poolQueue)
    BY <2>1, <2>2, <2>4 DEF TaskInv
  <2> QED
    BY <2>3, <2>4
<1>6. CASE ShutdownNow
  <2>1. /\ UNCHANGED <<timer, cancelled, sent, driver>>
        /\ task'[x] = IF task[x] = "queued" THEN "dropped" ELSE task[x]
    BY <1>6 DEF ShutdownNow
  <2>2. CASE task[x] = "queued"
    BY <1>2, <2>1, <2>2 DEF Fresh
  <2>3. CASE task[x] # "queued"
    BY <2>1, <2>3 DEF TaskInv
  <2> QED
    BY <2>2, <2>3
<1>7. CASE \/ CreateFails \/ Shutdown \/ AwaitDone \/ AwaitTimeout \/ AwaitInterrupted
           \/ Tick \/ UNCHANGED vars
  BY <1>1, <1>7 DEF CreateFails, Shutdown, AwaitDone, AwaitTimeout, AwaitInterrupted,
                    Tick, vars
<1> QED
  BY <1>3, <1>4, <1>5, <1>6, <1>7 DEF Main, MainStep

\* The workers and the timers keep it.
LEMMA ThreadTaskInv ==
  ASSUME TypeOK, NEW x \in Task, TaskInv(x), NEW t \in Task, Worker(t) \/ TimerThread(t)
  PROVE  TaskInv(x)'
<1>1. CASE x # t
  <2>1. /\ task'[x] = task[x] /\ timer'[x] = timer[x] /\ cancelled'[x] = cancelled[x]
        /\ sent'[x] = sent[x] /\ driver'[x] = driver[x]
    <3>1. CASE Begin(t) \/ SendNext(t) \/ SendFails(t) \/ LoopEnds(t)
      BY <1>1, <3>1 DEF Begin, SendNext, SendFails, LoopEnds, TypeOK
    <3>2. CASE \/ CheckTime(t) \/ WakeUp(t) \/ SleepInterrupted(t) \/ CancelTimer(t)
               \/ OnFinish(t)
      BY <1>1, <3>2 DEF CheckTime, WakeUp, SleepInterrupted, CancelTimer, OnFinish, TypeOK
    <3>3. CASE TimerThread(t)
      BY <1>1, <3>3 DEF TimerThread, Fire, TimerSend, TimerSendFails, TypeOK
    <3> QED
      BY <3>1, <3>2, <3>3 DEF Worker
  <2> QED
    BY <2>1 DEF TaskInv
<1>2. CASE x = t
  <2>0. TaskInv(t) /\ sent[t] \in Nat
    BY <1>2 DEF TypeOK
  <2>1. CASE Begin(t)
    <3>1. /\ task[t] = "assigned"
          /\ task'[t] = IF Periodic THEN "check" ELSE "loop"
          /\ timer'[t] = IF Periodic THEN "waiting" ELSE timer[t]
          /\ UNCHANGED <<cancelled, sent, driver>>
      BY <2>1 DEF Begin, TypeOK
    <3>2. sent[t] = 0 /\ timer[t] = "none"
      BY <2>0, <3>1 DEF TaskInv, Fresh
    <3>3. sent'[t] < AtMost
      BY <3>1, <3>2, AtMostFacts
    <3> QED
      BY <1>2, <2>0, <3>1, <3>2, <3>3 DEF TaskInv, Fresh
  <2>2. CASE SendNext(t)
    <3>1. /\ task[t] = "loop" /\ task'[t] \in {"loop", "finish"}
          /\ sent[t] < MaxNumOfMessage /\ sent'[t] = sent[t] + 1
          /\ UNCHANGED <<timer, cancelled, driver>>
      BY <2>2 DEF SendNext, TypeOK
    <3>2. sent'[t] <= AtMost
      BY <2>0, <3>1, AtMostFacts
    <3> QED
      BY <1>2, <2>0, <3>1, <3>2 DEF TaskInv, Fresh
  <2>3. CASE SendFails(t) \/ LoopEnds(t)
    <3>1. /\ task[t] = "loop" /\ task'[t] = "finish"
          /\ UNCHANGED <<timer, cancelled, sent, driver>>
      BY <2>3 DEF SendFails, LoopEnds, TypeOK
    <3> QED
      BY <1>2, <2>0, <3>1 DEF TaskInv, Fresh
  <2>4. CASE CheckTime(t) \/ WakeUp(t) \/ SleepInterrupted(t)
    <3>1. /\ task[t] \in {"check", "sleep"} /\ task'[t] \in {"check", "sleep", "cancel"}
          /\ UNCHANGED <<timer, cancelled, sent, driver>>
      BY <2>4 DEF CheckTime, WakeUp, SleepInterrupted, TypeOK
    <3> QED
      BY <1>2, <2>0, <3>1 DEF TaskInv, Fresh
  <2>5. CASE CancelTimer(t)
    <3>1. /\ task[t] = "cancel" /\ task'[t] = "finish" /\ cancelled'[t]
          /\ UNCHANGED <<timer, sent, driver>>
      BY <2>5 DEF CancelTimer, TypeOK
    <3> QED
      BY <1>2, <2>0, <3>1 DEF TaskInv, Fresh
  <2>6. CASE OnFinish(t)
    <3>1. /\ task[t] = "finish" /\ task'[t] = "done" /\ driver'[t] = "closed"
          /\ UNCHANGED <<timer, cancelled, sent>>
      BY <2>6 DEF OnFinish, TypeOK
    <3> QED
      BY <1>2, <2>0, <3>1 DEF TaskInv, Fresh
  <2>7. CASE Fire(t)
    <3>1. /\ timer[t] = "waiting" /\ ~cancelled[t] /\ timer'[t] = "firing"
          /\ UNCHANGED <<task, cancelled, sent, driver>>
      BY <2>7 DEF Fire, TypeOK
    <3> QED
      BY <1>2, <2>0, <3>1 DEF TaskInv, Fresh
  <2>8. CASE TimerSend(t)
    <3>1. /\ timer[t] = "firing" /\ timer'[t] = "waiting" /\ sent'[t] = sent[t] + 1
          /\ UNCHANGED <<task, driver>>
      BY <2>8 DEF TimerSend, TypeOK
    <3>2. cancelled'[t] <=> cancelled[t] \/ sent[t] + 1 >= MaxNumOfMessage
      BY <2>8 DEF TimerSend, TypeOK
    <3>3. task[t] \notin Fresh /\ sent[t] < AtMost
      BY <2>0, <3>1 DEF TaskInv
    <3>4. sent'[t] <= AtMost /\ (~cancelled'[t] => sent'[t] < AtMost)
      BY <2>0, <3>1, <3>2, <3>3, AtMostFacts
    <3> QED
      BY <1>2, <2>0, <3>1, <3>2, <3>3, <3>4 DEF TaskInv
  <2>9. CASE TimerSendFails(t)
    <3>1. /\ timer[t] = "firing" /\ timer'[t] = "waiting" /\ cancelled'[t]
          /\ UNCHANGED <<task, sent, driver>>
      BY <2>9 DEF TimerSendFails, TypeOK
    <3> QED
      BY <1>2, <2>0, <3>1 DEF TaskInv, Fresh
  <2> QED
    BY <2>1, <2>2, <2>3, <2>4, <2>5, <2>6, <2>7, <2>8, <2>9 DEF Worker, TimerThread
<1> QED
  BY <1>1, <1>2

\* Every step keeps the inductive invariant.
LEMMA InductiveStep == IInv /\ [Next]_vars => IInv'
<1> SUFFICES ASSUME IInv, [Next]_vars PROVE IInv'
  OBVIOUS
<1>1. ASSUME NEW x \in Task PROVE TaskInv(x)'
  BY <1>1, MainTaskInv, ThreadTaskInv DEF IInv, Next
<1> QED
  BY <1>1, NextTypeOK, NextQueueInv, NextPhaseInv DEF IInv

\* Every reachable state satisfies the inductive invariant.
LEMMA InductiveInvariant == Spec => []IInv
  BY InductiveStep, InitIInv, PTL DEF Spec

-----------------------------------------------------------------------------
(* The theorems                                                            *)

\* The state of the command, of its pool, tasks and timers keeps its types.
THEOREM TypeCorrect == Spec => []TypeOK
  BY InductiveInvariant, PTL DEF IInv

\* No task sends more messages than it may, however late its timer is.
THEOREM SendsWithinMax == Spec => []SentWithinMax
<1>1. IInv => SentWithinMax
  BY DEF IInv, TaskInv, SentWithinMax, AtMost, Command!Limit
<1> QED
  BY <1>1, InductiveInvariant, PTL

\* A driver is closed when its task ends and not before.
THEOREM DriversFollowTasks == Spec => []ClosedIffDone
<1>1. IInv => ClosedIffDone
  BY DEF IInv, TaskInv, ClosedIffDone, Busy, InTask
<1> QED
  BY <1>1, InductiveInvariant, PTL

\* When the pool has terminated in time no task was dropped.
THEOREM TerminationIsComplete == Spec => []TerminatedRanAll
<1>1. IInv => TerminatedRanAll
  BY DEF IInv, TaskInv, PhaseInv, TerminatedRanAll
<1> QED
  BY <1>1, InductiveInvariant, PTL

\* No timer starts a send on a closed driver.
THEOREM ClosedDriversRest == Spec => NoFireAfterClose
<1>1. IInv /\ [Next]_vars =>
        \A t \in Task : driver[t] = "closed" /\ timer[t] # "firing" => timer'[t] # "firing"
  <2> SUFFICES ASSUME IInv, [Next]_vars, NEW t \in Task,
                      driver[t] = "closed", timer[t] # "firing"
               PROVE  timer'[t] # "firing"
    OBVIOUS
  <2>1. timer[t] = "none" \/ cancelled[t]
    BY DEF IInv, TaskInv
  <2>2. timer \in [Task -> {"none", "waiting", "firing"}]
    BY DEF IInv, TypeOK
  <2>3. CASE UNCHANGED timer
    BY <2>3
  <2>4. ASSUME NEW x \in Task, Begin(x) \/ TimerThread(x) PROVE timer'[t] # "firing"
    BY <2>1, <2>2, <2>4 DEF Begin, TimerThread, Fire, TimerSend, TimerSendFails
  <2> QED
    BY <2>3, <2>4 DEF Next, Main, MainStep, CreateTask, CreateFails, SubmitTask, Shutdown,
      AwaitDone, AwaitTimeout, AwaitInterrupted, ShutdownNow, PollQueue, Tick, Worker,
      SendNext, SendFails, LoopEnds, CheckTime, WakeUp, SleepInterrupted, CancelTimer,
      OnFinish, vars
<1> QED
  BY <1>1, InductiveInvariant, PTL DEF Spec, NoFireAfterClose

-----------------------------------------------------------------------------
(* The command implements SendCommand.                                     *)

\* A step that touches neither a driver, nor a timer, nor a count, nor the
\* answer is none of the abstract command.
LEMMA QuietStutters ==
  UNCHANGED <<driver, timer, sent, outcome>> => UNCHANGED Command!sendVars
  BY DEF Sending, Answer, Command!sendVars

\* Neither does the start of a timer.
LEMMA BeginStutters ==
  ASSUME TypeOK, NEW t \in Task, TaskInv(t), Begin(t) PROVE UNCHANGED Command!sendVars
<1>1. timer[t] = "none"
  BY DEF Begin, TaskInv, Fresh
<1>2. \A x \in Task : timer'[x] = "firing" <=> timer[x] = "firing"
  BY <1>1 DEF Begin, TypeOK
<1>3. Sending' = Sending
  BY <1>2 DEF Sending
<1> QED
  BY <1>3 DEF Begin, Answer, Command!sendVars

\* The steps of the thread that runs the command.
LEMMA MainImplements ==
  ASSUME IInv, Main PROVE Command!SendNext \/ UNCHANGED Command!sendVars
<1>0. TypeOK /\ PhaseInv /\ \A t \in Task : TaskInv(t)
  BY DEF IInv
<1>1. CASE CreateTask
  <2>1. next \in Task /\ driver[next] = "none" /\ outcome = "none"
    <3>1. next \in Task /\ main = "create" /\ ~(next < next)
      BY <1>0, <1>1, TaskFacts DEF CreateTask, TypeOK
    <3>2. task[next] = "none" /\ outcome = "none"
      BY <1>0, <3>1 DEF PhaseInv
    <3> QED
      BY <1>0, <3>1, <3>2 DEF TaskInv
  <2>2. UNCHANGED <<Sending, sent, Answer>>
    BY <1>1 DEF CreateTask, Sending, Answer
  <2>3. Command!Open(next)
    BY <1>1, <2>1, <2>2 DEF CreateTask, Answer, Command!Open
  <2> QED
    BY <2>1, <2>3 DEF Command!SendNext
<1>2. CASE CreateFails \/ AwaitDone \/ AwaitTimeout \/ AwaitInterrupted
  <2>1. /\ main \in {"create", "await"}
        /\ UNCHANGED <<driver, timer, task, sent>>
        /\ \/ outcome' \in {"error", "timeout", "interrupted"}
           \/ outcome' = "terminated" /\ AwaitDone
    BY <1>2 DEF CreateFails, AwaitDone, AwaitTimeout, AwaitInterrupted
  <2>2. Answer = "none"
    BY <1>0, <2>1 DEF PhaseInv, Answer
  <2>3. UNCHANGED <<driver, Sending, sent>>
    BY <2>1 DEF Sending
  <2>4. CASE outcome' \in {"error", "timeout", "interrupted"}
    <3>1. Answer' = "incomplete"
      BY <2>4 DEF Answer
    <3> QED
      BY <2>2, <2>3, <3>1 DEF Command!SendNext, Command!Return
  <2>5. CASE outcome' = "terminated" /\ AwaitDone
    <3>1. Answer' = "complete"
      BY <2>5 DEF Answer
    <3>2. IInv'
      BY <1>2, InductiveStep DEF Next, Main, MainStep
    <3>3. \A t \in Task : task'[t] = "done"
      BY <2>5, <3>2 DEF IInv, PhaseInv
    <3>4. \A t \in Task : driver[t] = "closed"
      BY <1>0, <2>1, <3>3 DEF TaskInv
    <3> QED
      BY <2>2, <2>3, <3>1, <3>4 DEF Command!SendNext, Command!Return
  <2> QED
    BY <2>1, <2>4, <2>5
<1>3. CASE SubmitTask \/ Shutdown \/ ShutdownNow
  BY <1>3, QuietStutters DEF SubmitTask, Shutdown, ShutdownNow
<1> QED
  BY <1>1, <1>2, <1>3 DEF Main, MainStep

\* The steps of a worker that reach the broker.
LEMMA WorkerImplements ==
  ASSUME IInv, NEW t \in Task, Worker(t)
  PROVE  Command!SendNext \/ UNCHANGED Command!sendVars
<1>0. TypeOK /\ TaskInv(t)
  BY DEF IInv
<1>1. CASE SendNext(t)
  <2>1. /\ task[t] = "loop" /\ sent[t] < MaxNumOfMessage
        /\ sent' = [sent EXCEPT ![t] = @ + 1]
        /\ UNCHANGED <<driver, timer, outcome>>
    BY <1>1 DEF SendNext
  <2>2. driver[t] = "open" /\ timer[t] = "none" /\ sent[t] \in Nat
    BY <1>0, <2>1 DEF TaskInv, TypeOK
  <2>3. sent[t] < Command!Limit
    BY <2>1, <2>2, AtMostFacts DEF AtMost
  <2>4. t \notin Sending /\ UNCHANGED <<driver, Sending, Answer>>
    BY <2>1, <2>2 DEF Sending, Answer
  <2>5. Command!SendAtOnce(t)
    BY <2>1, <2>2, <2>3, <2>4 DEF Command!SendAtOnce, Command!MaySend
  <2> QED
    BY <2>5 DEF Command!SendNext
<1>2. CASE OnFinish(t)
  <2>1. /\ task[t] = "finish" /\ driver' = [driver EXCEPT ![t] = "closed"]
        /\ UNCHANGED <<timer, sent, outcome>>
    BY <1>2 DEF OnFinish
  <2>2. driver[t] = "open"
    BY <1>0, <2>1 DEF TaskInv
  <2>3. UNCHANGED <<Sending, sent, Answer>>
    BY <2>1 DEF Sending, Answer
  <2>4. Command!Close(t)
    BY <2>1, <2>2, <2>3 DEF Command!Close
  <2> QED
    BY <2>4 DEF Command!SendNext
<1>3. CASE Begin(t)
  BY <1>0, <1>3, BeginStutters
<1>4. CASE \/ SendFails(t) \/ LoopEnds(t) \/ CheckTime(t) \/ WakeUp(t)
           \/ SleepInterrupted(t) \/ CancelTimer(t)
  BY <1>4, QuietStutters DEF SendFails, LoopEnds, CheckTime, WakeUp, SleepInterrupted,
                             CancelTimer
<1> QED
  BY <1>1, <1>2, <1>3, <1>4 DEF Worker

\* The steps of a timer: one that fires has an open driver, for a task that is
\* finished has its timer cancelled.
LEMMA TimerImplements ==
  ASSUME IInv, NEW t \in Task, TimerThread(t) PROVE Command!SendNext
<1>0. TypeOK /\ TaskInv(t)
  BY DEF IInv
<1>1. \A x \in Task : x # t => timer'[x] = timer[x]
  BY <1>0 DEF TimerThread, Fire, TimerSend, TimerSendFails, TypeOK
<1>2. UNCHANGED <<driver, Answer>>
  BY DEF TimerThread, Fire, TimerSend, TimerSendFails, Answer
<1>3. CASE Fire(t)
  <2>1. /\ timer[t] = "waiting" /\ ~cancelled[t] /\ timer'[t] = "firing" /\ sent' = sent
    BY <1>0, <1>3 DEF Fire, TypeOK
  <2>2. driver[t] = "open" /\ sent[t] < Command!Limit
    BY <1>0, <2>1 DEF TaskInv, Fresh, AtMost
  <2>3. t \notin Sending /\ Sending' = Sending \cup {t}
    BY <1>1, <2>1 DEF Sending
  <2>4. Command!BeginSend(t)
    BY <1>2, <2>1, <2>2, <2>3 DEF Command!BeginSend, Command!MaySend
  <2> QED
    BY <2>4 DEF Command!SendNext
<1>4. CASE TimerSend(t) \/ TimerSendFails(t)
  <2>1. /\ timer[t] = "firing" /\ timer'[t] = "waiting"
        /\ sent' = sent \/ sent' = [sent EXCEPT ![t] = @ + 1]
    BY <1>0, <1>4 DEF TimerSend, TimerSendFails, TypeOK
  <2>2. t \in Sending /\ Sending' = Sending \ {t}
    BY <1>1, <2>1 DEF Sending
  <2>3. Command!EndSend(t)
    BY <1>2, <2>1, <2>2 DEF Command!EndSend
  <2> QED
    BY <2>3 DEF Command!SendNext
<1> QED
  BY <1>3, <1>4 DEF TimerThread

\* With its pool, timers and interrupts the command still does only what
\* SendCommand allows: it opens every connection before it answers, begins no
\* send on a driver that is not open or past the limit, closes each driver once
\* and finds the pool terminated only when all of them are closed.
THEOREM CommandImplementsSendCommand == Spec => ImplementsSendCommand
<1>1. Init => Command!SendInit
  BY DEF Init, Sending, Answer, Command!SendInit
<1>2. IInv /\ [Next]_vars => [Command!SendNext]_(Command!sendVars)
  <2> SUFFICES ASSUME IInv, [Next]_vars
               PROVE  Command!SendNext \/ UNCHANGED Command!sendVars
    OBVIOUS
  <2>1. CASE Tick \/ PollQueue \/ UNCHANGED vars
    BY <2>1, QuietStutters DEF Tick, PollQueue, vars
  <2> QED
    BY <2>1, MainImplements, WorkerImplements, TimerImplements DEF Next
<1> QED
  BY <1>1, <1>2, InductiveInvariant, PTL DEF Spec, ImplementsSendCommand, Command!SendSpec
=============================================================================
