-------------------- MODULE ServiceFailureSimulatorProofs --------------------
(***************************************************************************)
(* Theorems about ServiceFailureSimulator: its safety properties hold for  *)
(* any number of jobs, simulators and members.                             *)
(***************************************************************************)
EXTENDS ServiceFailureSimulator, FiniteSetTheorems, TLAPS

-----------------------------------------------------------------------------
(* The inductive invariant                                                 *)

\* A job's timer has stopped nothing late as long as its shell is open, or
\* while it has looked at the shell and is on its way to a stop.
LateStopInv ==
  \A j \in Job : /\ lateStops[j] <= 1
                 /\ ~Closed(j) \/ at[j] \in {"select", "stop"} => lateStops[j] = 0

\* Before its script simulates failures a job has no simulator and its timer is
\* idle.
TimerInv ==
  \A j \in Job :
    j > current \/ (j = current /\ script \notin {"simulate", "send", "done"})
      => pending[j] = {} /\ at[j] = "idle"

\* Why service x, which the script has stopped, may run: the timer of an
\* earlier job has started it, and will not do anything any more.
StartedLate(x) == \E j \in Job : j < current /\ at[j] = "idle" /\ target[j] = x

\* What the script's stop commands have done, up to the cleanup.
StoppedInv ==
  \A x \in Service \ missed :
    /\ service[x] = "running"
    /\ script = "cleanup" \/ (script = "stop" /\ x = Consumer)
    => StartedLate(x)

IInv == TypeOK /\ DownIsAccounted /\ LateStopInv /\ TimerInv /\ StoppedInv

USE SimulatorAssumption DEF Service, Closed, scriptVars, timerVars

-----------------------------------------------------------------------------
\* The jobs are numbered from the first to the last.
LEMMA JobFacts == /\ Job \subseteq Nat
                  /\ 1 \in Job
                  /\ \A j \in Job : j < NumOfJobs => j + 1 \in Job
  BY DEF Job

\* The inductive invariant holds at the start.
LEMMA InitIInv == Init => IInv
<1> SUFFICES ASSUME Init PROVE IInv
  OBVIOUS
<1>1. TypeOK
  BY JobFacts DEF Init, TypeOK, ScriptPlace
<1>2. DownIsAccounted
  BY DEF Init, DownIsAccounted
<1>3. LateStopInv
  <2>1. lateStops = [j \in Job |-> 0]
    BY DEF Init
  <2> QED
    BY <2>1 DEF LateStopInv
<1>4. TimerInv /\ StoppedInv
  BY DEF Init, TimerInv, StoppedInv
<1> QED
  BY <1>1, <1>2, <1>3, <1>4 DEF IInv

\* The types are kept by every step.
LEMMA NextTypeOK == TypeOK /\ [Next]_vars => TypeOK'
<1> SUFFICES ASSUME TypeOK, [Next]_vars PROVE TypeOK'
  OBVIOUS
<1> USE DEF TypeOK, ScriptPlace
<1>1. CASE StopConsumer
  BY <1>1 DEF StopConsumer, ScriptStop
<1>2. CASE StopMembers
  BY <1>2 DEF StopMembers, ScriptStop
<1>3. CASE Cleanup
  BY <1>3 DEF Cleanup
<1>4. CASE StartMembers
  BY <1>4 DEF StartMembers, ScriptStart
<1>5. CASE StartConsumer
  BY <1>5 DEF StartConsumer, ScriptStart
<1>6. CASE Send
  BY <1>6 DEF Send
<1>7. CASE SendReturns
  BY <1>7, JobFacts DEF SendReturns, CloseShell
<1>8. CASE Simulate
  BY <1>8 DEF Simulate
<1>9. CASE ScriptFails
  BY <1>9, JobFacts DEF ScriptFails, CloseShell
<1>10. ASSUME NEW j \in Job, TimerThread(j) PROVE TypeOK'
  <2>1. CASE Fire(j)
    BY <2>1 DEF Fire
  <2>2. CASE Select(j)
    BY <2>2 DEF Select
  <2>3. CASE SelectFails(j)
    BY <2>3 DEF SelectFails
  <2>c. CountStop(j) => lateStops' \in [Job -> Nat]
    <3> DEFINE n == IF Closed(j) THEN lateStops[j] + 1 ELSE lateStops[j]
    <3>0. lateStops[j] \in Nat
      OBVIOUS
    <3>1. n \in Nat
      <4> HIDE DEF TypeOK, Closed
      <4> QED
        BY <3>0
    <3> HIDE DEF n
    <3>2. [lateStops EXCEPT ![j] = n] \in [Job -> Nat]
      BY <3>1
    <3> QED
      BY <3>2 DEF CountStop, n
  <2>s. ASSUME NEW effect \in {"stopped", "running", service[target[j]]},
               service' = [service EXCEPT ![target[j]] = effect]
        PROVE  service' \in [Service -> {"running", "stopped"}]
    BY <2>s
  <2>p. [pending EXCEPT ![j] = @ \ {cur[j]}] \in [Job -> SUBSET Simulator]
    OBVIOUS
  <2> HIDE DEF Closed
  <2>4. CASE StopOk(j)
    <3>1. service' \in [Service -> {"running", "stopped"}]
      BY <2>4, <2>s DEF StopOk
    <3> QED
      BY <2>4, <2>c, <3>1 DEF StopOk
  <2>5. CASE StopError(j)
    <3>1. service' \in [Service -> {"running", "stopped"}]
      BY <2>5, <2>s DEF StopError
    <3>2. lateStops' \in [Job -> Nat] /\ pending' \in [Job -> SUBSET Simulator]
      BY <2>5, <2>c, <2>p DEF StopError
    <3>3. /\ at' = [at EXCEPT ![j] = "sleep"]
          /\ UNCHANGED <<current, script, cur, target, broken, missed>>
      BY <2>5 DEF StopError
    <3> QED
      BY <3>1, <3>2, <3>3
  <2>6. CASE StopThrows(j)
    <3>1. service' \in [Service -> {"running", "stopped"}]
      BY <2>6, <2>s DEF StopThrows
    <3>2. lateStops' \in [Job -> Nat]
      BY <2>6, <2>c DEF StopThrows
    <3>3. /\ at' = [at EXCEPT ![j] = "idle"]
          /\ broken' = broken \cup {target[j]}
          /\ UNCHANGED <<current, script, cur, target, pending, missed>>
      BY <2>6 DEF StopThrows
    <3> QED
      BY <3>1, <3>2, <3>3
  <2>7. CASE SleepEnds(j)
    BY <2>7 DEF SleepEnds
  <2>8. CASE StartOk(j)
    BY <2>8 DEF StartOk
  <2>9. CASE StartFails(j)
    <3>1. service' \in [Service -> {"running", "stopped"}]
      BY <2>9, <2>s DEF StartFails
    <3>2. pending' \in [Job -> SUBSET Simulator]
      BY <2>9, <2>p DEF StartFails
    <3>3. /\ at' = [at EXCEPT ![j] = "idle"]
          /\ broken' = broken \cup {target[j]}
          /\ UNCHANGED <<current, script, cur, target, missed, lateStops>>
      BY <2>9 DEF StartFails
    <3> QED
      BY <3>1, <3>2, <3>3
  <2> QED
    BY <1>10, <2>1, <2>2, <2>3, <2>4, <2>5, <2>6, <2>7, <2>8, <2>9 DEF TimerThread
<1>11. CASE UNCHANGED vars
  BY <1>11 DEF vars, scriptVars
<1> QED
  BY <1>1, <1>2, <1>3, <1>4, <1>5, <1>6, <1>7, <1>8, <1>9, <1>10, <1>11
  DEF Next, ScriptStep

\* Whoever answers for a stopped service hands it on before it goes away.
LEMMA NextDownIsAccounted ==
  TypeOK /\ DownIsAccounted /\ [Next]_vars => DownIsAccounted'
<1> DEFINE Accounted(x) == \/ x \in broken
                           \/ ScriptHasStopped(x)
                           \/ \E j \in Job : target[j] = x /\ at[j] \in {"sleep", "start"}
<1> SUFFICES ASSUME TypeOK, DownIsAccounted, [Next]_vars,
                    NEW x \in Service, service'[x] = "stopped"
             PROVE  Accounted(x)'
  BY DEF DownIsAccounted
<1>0. service[x] = "stopped" => Accounted(x)
  BY DEF DownIsAccounted
<1>a. CASE ScriptStep \/ Simulate \/ ScriptFails
  <2> HIDE DEF Closed
  <2>1. UNCHANGED timerVars \/ UNCHANGED <<at, target>>
    BY <1>a DEF ScriptStep, StopConsumer, StopMembers, StartMembers, StartConsumer,
      ScriptStop, ScriptStart, Cleanup, Send, SendReturns, ScriptFails, CloseShell, Simulate
  <2>2. SUFFICES ASSUME ~ \E j \in Job : target[j] = x /\ at[j] \in {"sleep", "start"}
                 PROVE  x \in broken' \/ ScriptHasStopped(x)'
    BY <2>1
  <2>3. service[x] = "stopped" => x \in broken \/ ScriptHasStopped(x)
    BY <1>0, <2>2
  <2> HIDE DEF Accounted
  <2>4. CASE StopConsumer
    <3>1. PICK ok \in SUBSET {Consumer} :
            service' = [y \in Service |-> IF y \in ok THEN "stopped" ELSE service[y]]
      BY <2>4 DEF StopConsumer, ScriptStop
    <3>2. broken' = broken /\ script = "stop consumer" /\ script' = "stop"
      BY <2>4 DEF StopConsumer, ScriptStop
    <3> QED
      BY <2>3, <3>1, <3>2 DEF ScriptHasStopped
  <2>5. CASE StopMembers
    <3>1. PICK ok \in SUBSET Member :
            service' = [y \in Service |-> IF y \in ok THEN "stopped" ELSE service[y]]
      BY <2>5 DEF StopMembers, ScriptStop
    <3>2. broken' = broken /\ script = "stop" /\ script' = "cleanup"
      BY <2>5 DEF StopMembers, ScriptStop
    <3> QED
      BY <2>3, <3>1, <3>2 DEF ScriptHasStopped
  <2>6. CASE StartMembers
    <3>1. PICK ok \in SUBSET Member :
            /\ service' = [y \in Service |-> IF y \in ok THEN "running" ELSE service[y]]
            /\ broken' = (broken \ ok) \cup (Member \ ok)
      BY <2>6 DEF StartMembers, ScriptStart
    <3>2. script = "start" /\ script' = "start consumer"
      BY <2>6 DEF StartMembers, ScriptStart
    <3> QED
      BY <2>3, <3>1, <3>2 DEF ScriptHasStopped
  <2>7. CASE StartConsumer
    <3>1. PICK ok \in SUBSET {Consumer} :
            /\ service' = [y \in Service |-> IF y \in ok THEN "running" ELSE service[y]]
            /\ broken' = (broken \ ok) \cup ({Consumer} \ ok)
      BY <2>7 DEF StartConsumer, ScriptStart
    <3>2. script = "start consumer"
      BY <2>7 DEF StartConsumer, ScriptStart
    <3> QED
      BY <2>3, <3>1, <3>2 DEF ScriptHasStopped
  <2>8. CASE Cleanup \/ Send \/ SendReturns \/ Simulate
    BY <2>3, <2>8 DEF Cleanup, Send, SendReturns, CloseShell, Simulate, ScriptHasStopped
  <2>9. CASE ScriptFails
    BY <2>9 DEF ScriptFails, CloseShell
  <2> QED
    BY <1>a, <2>4, <2>5, <2>6, <2>7, <2>8, <2>9 DEF ScriptStep
<1>b. ASSUME NEW j \in Job, TimerThread(j) PROVE Accounted(x)'
  <2>1. UNCHANGED script
    BY <1>b DEF TimerThread, Fire, Select, SelectFails, StopOk, StopError, StopThrows,
                SleepEnds, StartOk, StartFails
  <2>2. ScriptHasStopped(x)' = ScriptHasStopped(x)
    BY <2>1 DEF ScriptHasStopped
  <2> HIDE DEF Closed
  <2> USE DEF TypeOK
  <2>3. CASE Fire(j) \/ SelectFails(j) \/ SleepEnds(j)
    BY <1>0, <2>2, <2>3 DEF Fire, SelectFails, SleepEnds
  <2>4. CASE Select(j)
    <3>1. PICK m \in Member : target' = [target EXCEPT ![j] = m]
      BY <2>4 DEF Select
    <3>2. /\ at[j] = "select" /\ at' = [at EXCEPT ![j] = "stop"]
          /\ UNCHANGED <<service, broken>>
      BY <2>4 DEF Select
    <3> QED
      BY <1>0, <2>2, <3>1, <3>2
  <2>5. CASE StopOk(j) \/ StopError(j)
    <3>1. /\ at[j] = "stop" /\ at' = [at EXCEPT ![j] = "sleep"]
          /\ UNCHANGED <<target, broken>>
      BY <2>5 DEF StopOk, StopError
    <3>2. x = target[j] \/ service'[x] = service[x]
      BY <2>5 DEF StopOk, StopError
    <3> QED
      BY <1>0, <2>2, <3>1, <3>2
  <2>6. CASE StopThrows(j)
    <3>1. /\ at[j] = "stop" /\ at' = [at EXCEPT ![j] = "idle"]
          /\ broken' = broken \cup {target[j]} /\ UNCHANGED target
      BY <2>6 DEF StopThrows
    <3>2. x = target[j] \/ service'[x] = service[x]
      BY <2>6 DEF StopThrows
    <3> QED
      BY <1>0, <2>2, <3>1, <3>2
  <2>7. CASE StartOk(j)
    <3>1. /\ at' = [at EXCEPT ![j] = "idle"] /\ UNCHANGED target
          /\ service' = [service EXCEPT ![target[j]] = "running"]
          /\ broken' = broken \ {target[j]}
      BY <2>7 DEF StartOk
    <3> QED
      BY <1>0, <2>2, <3>1
  <2>8. CASE StartFails(j)
    <3>1. /\ at' = [at EXCEPT ![j] = "idle"] /\ UNCHANGED target
          /\ broken' = broken \cup {target[j]}
      BY <2>8 DEF StartFails
    <3>2. x = target[j] \/ service'[x] = service[x]
      BY <2>8 DEF StartFails
    <3> QED
      BY <1>0, <2>2, <3>1, <3>2
  <2> QED
    BY <1>b, <2>3, <2>4, <2>5, <2>6, <2>7, <2>8 DEF TimerThread
<1>c. CASE UNCHANGED vars
  BY <1>0, <1>c DEF vars, ScriptHasStopped
<1> QED
  BY <1>a, <1>b, <1>c DEF Next

\* A shell that is closed stays closed.
LEMMA ClosedStays ==
  ASSUME TypeOK, [Next]_vars, NEW j \in Job, Closed(j)
  PROVE  Closed(j)'
<1>0. current \in Nat /\ j \in Nat
  BY JobFacts DEF TypeOK
<1>1. CASE SendReturns \/ ScriptFails
  <2>1. /\ script # "done"
        /\ script' = "done" \/ current' = current + 1
    BY <1>1 DEF SendReturns, ScriptFails, CloseShell
  <2> QED
    BY <1>0, <2>1
<1>2. CASE \/ StopConsumer \/ StopMembers \/ Cleanup \/ StartMembers \/ StartConsumer
           \/ Send
  <2>1. UNCHANGED current /\ script # "done"
    BY <1>2 DEF StopConsumer, StopMembers, StartMembers, StartConsumer, ScriptStop,
                ScriptStart, Cleanup, Send
  <2> QED
    BY <2>1
<1>3. CASE UNCHANGED scriptVars
  BY <1>3
<1>4. ASSUME NEW i \in Job, TimerThread(i) PROVE Closed(j)'
  BY <1>3, <1>4 DEF TimerThread, Fire, Select, SelectFails, StopOk, StopError, StopThrows,
     SleepEnds, StartOk, StartFails
<1> QED
  BY <1>1, <1>2, <1>3, <1>4 DEF Next, ScriptStep, Simulate, vars

\* The late stops of a closed shell are those of the one run that was on its way.
LEMMA NextLateStopInv == TypeOK /\ LateStopInv /\ [Next]_vars => LateStopInv'
<1> SUFFICES ASSUME TypeOK, LateStopInv, [Next]_vars,
                    NEW i \in Job
             PROVE  /\ lateStops'[i] <= 1
                    /\ ~Closed(i)' \/ at'[i] \in {"select", "stop"} => lateStops'[i] = 0
  BY DEF LateStopInv
<1>1. Closed(i) => Closed(i)'
  BY ClosedStays
<1> USE DEF TypeOK, LateStopInv
<1>2. CASE UNCHANGED <<at, lateStops>>
  BY <1>1, <1>2
<1>3. ASSUME NEW j \in Job, TimerThread(j) PROVE
        /\ lateStops'[i] <= 1
        /\ ~Closed(i)' \/ at'[i] \in {"select", "stop"} => lateStops'[i] = 0
  <2>1. CASE Fire(j)
    BY <1>1, <2>1 DEF Fire
  <2>2. CASE Select(j)
    BY <1>1, <2>2 DEF Select
  <2>3. CASE SelectFails(j) \/ SleepEnds(j) \/ StartOk(j) \/ StartFails(j)
    BY <1>1, <2>3 DEF SelectFails, SleepEnds, StartOk, StartFails
  <2>4. CASE StopOk(j)
    BY <1>1, <2>4 DEF StopOk, CountStop
  <2>5. CASE StopError(j)
    BY <1>1, <2>5 DEF StopError, CountStop
  <2>6. CASE StopThrows(j)
    BY <1>1, <2>6 DEF StopThrows, CountStop
  <2> QED
    BY <1>3, <2>1, <2>2, <2>3, <2>4, <2>5, <2>6 DEF TimerThread
<1> QED
  BY <1>2, <1>3 DEF Next, ScriptStep, StopConsumer, StopMembers, StartMembers,
     StartConsumer, ScriptStop, ScriptStart, Cleanup, Send, SendReturns, Simulate,
     ScriptFails, CloseShell, timerVars, vars

\* A timer has something to do only from its script's first simulation on.
LEMMA NextTimerInv == TypeOK /\ TimerInv /\ [Next]_vars => TimerInv'
<1> SUFFICES ASSUME TypeOK, TimerInv, [Next]_vars PROVE TimerInv'
  OBVIOUS
<1> USE JobFacts DEF TypeOK, ScriptPlace, TimerInv
<1>1. CASE StopConsumer \/ StopMembers \/ Cleanup \/ StartMembers \/ StartConsumer \/ Send
  BY <1>1 DEF StopConsumer, StopMembers, ScriptStop, Cleanup, StartMembers, StartConsumer,
              ScriptStart, Send
<1>2. CASE SendReturns \/ ScriptFails
  <2>1. /\ UNCHANGED <<pending, at>>
        /\ \/ current' = current + 1
           \/ current' = current /\ script' = "done"
    BY <1>2 DEF SendReturns, ScriptFails, CloseShell
  <2>2. current \in Nat /\ Job \subseteq Nat
    OBVIOUS
  <2>3. ASSUME NEW j \in Job,
               j > current' \/ (j = current' /\ script' \notin {"simulate", "send", "done"})
        PROVE  pending[j] = {} /\ at[j] = "idle"
    <3>0. j \in Nat
      BY <2>2
    <3>1. j > current
      <4> HIDE DEF TypeOK, TimerInv, ScriptPlace
      <4>1. CASE current' = current + 1
        BY <2>2, <2>3, <3>0, <4>1
      <4>2. CASE current' = current /\ script' = "done"
        BY <2>3, <4>2
      <4> QED
        BY <2>1, <4>1, <4>2
    <3> QED
      BY <3>1
  <2> QED
    BY <2>1, <2>3
<1>3. CASE Simulate
  BY <1>3 DEF Simulate
<1>4. ASSUME NEW j \in Job, TimerThread(j) PROVE TimerInv'
  <2>1. UNCHANGED <<current, script>>
    BY <1>4 DEF TimerThread, Fire, Select, SelectFails, StopOk, StopError, StopThrows,
                SleepEnds, StartOk, StartFails
  <2>2. pending[j] # {} \/ at[j] # "idle"
    BY <1>4 DEF TimerThread, Fire, Select, SelectFails, StopOk, StopError, StopThrows,
                SleepEnds, StartOk, StartFails
  <2>3. \A i \in Job \ {j} : pending'[i] = pending[i] /\ at'[i] = at[i]
    BY <1>4 DEF TimerThread, Fire, Select, SelectFails, StopOk, StopError, StopThrows,
                SleepEnds, StartOk, StartFails
  <2> QED
    BY <2>1, <2>2, <2>3
<1>5. CASE UNCHANGED vars
  BY <1>5 DEF vars
<1> QED
  BY <1>1, <1>2, <1>3, <1>4, <1>5 DEF Next, ScriptStep

\* A timer that has started a service late does nothing more.
LEMMA StartedLateStays ==
  ASSUME TypeOK, NEW x \in Service, StartedLate(x), NEW j \in Job, TimerThread(j)
  PROVE  StartedLate(x)'
<1>1. PICK i \in Job : i < current /\ at[i] = "idle" /\ target[i] = x
  BY DEF StartedLate
<1>2. i # j
  BY <1>1 DEF TimerThread, Fire, Select, SelectFails, StopOk, StopError, StopThrows,
              SleepEnds, StartOk, StartFails
<1>3. UNCHANGED current /\ at'[i] = at[i] /\ target'[i] = target[i]
  BY <1>2 DEF TypeOK, TimerThread, Fire, Select, SelectFails, StopOk, StopError,
              StopThrows, SleepEnds, StartOk, StartFails
<1> QED
  BY <1>1, <1>3 DEF StartedLate

\* Whoever starts a stopped service before the cleanup is the timer of an
\* earlier job, which then is idle for good.
LEMMA NextStoppedInv == TypeOK /\ TimerInv /\ StoppedInv /\ [Next]_vars => StoppedInv'
<1> SUFFICES ASSUME TypeOK, TimerInv, StoppedInv, [Next]_vars,
                    NEW x \in Service, x \notin missed', service'[x] = "running",
                    script' = "cleanup" \/ (script' = "stop" /\ x = Consumer)
             PROVE  StartedLate(x)'
  BY DEF StoppedInv
<1>1. CASE StopConsumer
  BY <1>1 DEF StopConsumer, ScriptStop
<1>2. CASE StopMembers
  <2>1. PICK ok \in SUBSET Member :
          /\ service' = [y \in Service |-> IF y \in ok THEN "stopped" ELSE service[y]]
          /\ missed' = (Member \ ok) \cup (missed \ Member)
    BY <1>2 DEF StopMembers, ScriptStop
  <2>2. x = Consumer /\ x \notin missed /\ service[x] = "running"
    BY <2>1
  <2>3. script = "stop" /\ UNCHANGED <<current, at, target>>
    BY <1>2 DEF StopMembers, ScriptStop
  <2> QED
    BY <2>2, <2>3 DEF StoppedInv, StartedLate
<1>3. CASE Cleanup \/ StartMembers \/ StartConsumer \/ Send \/ SendReturns \/ ScriptFails
  BY <1>3 DEF Cleanup, StartMembers, StartConsumer, ScriptStart, Send, SendReturns,
              ScriptFails, CloseShell
<1>4. CASE Simulate
  <2>1. UNCHANGED <<current, at, target, service, missed, script>>
    BY <1>4 DEF Simulate
  <2> QED
    BY <2>1 DEF StoppedInv, StartedLate
<1>5. ASSUME NEW j \in Job, TimerThread(j) PROVE StartedLate(x)'
  <2>1. UNCHANGED <<current, script, missed>>
    BY <1>5 DEF TimerThread, Fire, Select, SelectFails, StopOk, StopError, StopThrows,
                SleepEnds, StartOk, StartFails
  <2>2. CASE service[x] = "running"
    BY <1>5, <2>1, <2>2, StartedLateStays DEF StoppedInv
  <2>3. CASE service[x] # "running"
    <3>1. /\ at[j] = "start" /\ target[j] = x
          /\ at' = [at EXCEPT ![j] = "idle"] /\ UNCHANGED target
      BY <1>5, <2>3 DEF TypeOK, TimerThread, Fire, Select, SelectFails, StopOk, StopError,
                        StopThrows, SleepEnds, StartOk, StartFails
    <3>2. j \in Nat /\ current \in Nat
      BY JobFacts DEF TypeOK
    <3>3. j < current
      BY <2>1, <3>1, <3>2 DEF TimerInv
    <3> QED
      BY <2>1, <3>1, <3>3 DEF TypeOK, StartedLate
  <2> QED
    BY <2>2, <2>3
<1>6. CASE UNCHANGED vars
  BY <1>6 DEF vars, StoppedInv, StartedLate
<1> QED
  BY <1>1, <1>2, <1>3, <1>4, <1>5, <1>6 DEF Next, ScriptStep

\* A function has at most as many values as arguments.
LEMMA ImageIsSmall ==
  ASSUME NEW k \in Nat, NEW f, NEW R \in SUBSET {f[i] : i \in 1 .. k}
  PROVE  Cardinality(R) <= k
<1> DEFINE T == {f[i] : i \in 1 .. k}
           g == [i \in 1 .. k |-> f[i]]
<1>1. IsFiniteSet(1 .. k) /\ Cardinality(1 .. k) = k
  BY FS_Interval
<1>2. g \in Surjection(1 .. k, T)
  BY DEF Surjection
<1>3. IsFiniteSet(T) /\ Cardinality(T) <= k
  <2> HIDE DEF g, T
  <2> QED
    BY <1>1, <1>2, FS_Surjection
<1>4. Cardinality(R) <= Cardinality(T) /\ IsFiniteSet(R)
  BY <1>3, FS_Subset
<1> QED
  BY <1>3, <1>4, FS_CardinalityType

\* Every reachable state satisfies the inductive invariant.
LEMMA InductiveInvariant == Spec => []IInv
<1>1. IInv /\ [Next]_vars => IInv'
  BY NextTypeOK, NextDownIsAccounted, NextLateStopInv, NextTimerInv,
     NextStoppedInv DEF IInv
<1> QED
  BY <1>1, InitIInv, PTL DEF Spec

-----------------------------------------------------------------------------
(* The theorems                                                            *)

\* The scripts, the timers and the services keep their types.
THEOREM TypeCorrect == Spec => []TypeOK
  BY InductiveInvariant, PTL DEF IInv

\* Every service that is stopped has somebody to answer for it: the script, a
\* timer thread, or a command that has failed.
THEOREM OutagesAreAccounted == Spec => []DownIsAccounted
  BY InductiveInvariant, PTL DEF IInv

\* The timer of a closed shell stops at most one more service.
THEOREM LateStopsAreBounded == Spec => []AtMostOneLateStop
<1>1. IInv => AtMostOneLateStop
  BY DEF IInv, LateStopInv, AtMostOneLateStop
<1> QED
  BY <1>1, InductiveInvariant, PTL

\* Of the services on which the script's stop took effect, the cleanup meets at
\* most one running for each earlier job, whose timer started it late: none in
\* the first job, and never the consumer.
THEOREM CleanupMeetsFewRunning == Spec => []CleanupHitsOnePerJob
<1>1. IInv => CleanupHitsOnePerJob
  <2> SUFFICES ASSUME IInv, script = "cleanup"
               PROVE  /\ Cardinality({x \in Service \ missed : service[x] = "running"})
                           <= current - 1
                      /\ Consumer \in missed \/ service[Consumer] = "stopped"
    BY DEF CleanupHitsOnePerJob
  <2> DEFINE R == {x \in Service \ missed : service[x] = "running"}
  <2>1. current \in Nat /\ current >= 1
    BY DEF IInv, TypeOK, Job
  <2>2. \A x \in R : \E i \in 1 .. (current - 1) : target[i] = x
    <3> SUFFICES ASSUME NEW x \in R PROVE \E i \in 1 .. (current - 1) : target[i] = x
      OBVIOUS
    <3>1. PICK j \in Job : j < current /\ target[j] = x
      BY DEF IInv, StoppedInv, StartedLate
    <3> QED
      BY <2>1, <3>1 DEF Job
  <2>3. R \in SUBSET {target[i] : i \in 1 .. (current - 1)}
    BY <2>2
  <2> HIDE DEF R
  <2>4. Cardinality(R) <= current - 1
    BY <2>1, <2>3, ImageIsSmall
  <2>5. ASSUME Consumer \notin missed, service[Consumer] = "running" PROVE FALSE
    <3>1. PICK j \in Job : target[j] = Consumer
      BY <2>5 DEF IInv, StoppedInv, StartedLate
    <3> QED
      BY <3>1 DEF IInv, TypeOK
  <2>6. service[Consumer] \in {"running", "stopped"}
    BY DEF IInv, TypeOK
  <2> QED
    BY <2>4, <2>5, <2>6 DEF R
<1> QED
  BY <1>1, InductiveInvariant, PTL
=============================================================================
