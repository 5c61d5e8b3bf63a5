----------------------- MODULE ServiceFailureSimulator -----------------------
(***************************************************************************)
(* Service failures that are simulated while a load-test job sends: the    *)
(* job's script stops, cleans up and starts the services it needs, then    *)
(* schedules ServiceFailureSimulators on the Timer of its shell and sends. *)
(* The jobs run one after the other, but the Timer thread of a job's shell *)
(* can still be in the middle of a simulated failure when the shell is     *)
(* closed and the next job's script has begun.                             *)
(*                                                                         *)
(* The services and the cluster client are external.  A command takes      *)
(* effect or not; its reply is good, an error with or without a result, or *)
(* an exception, whatever its effect was.                                  *)
(***************************************************************************)
EXTENDS Naturals, FiniteSets

CONSTANTS NumOfJobs,  \* the jobs, in the order in which they run
          Simulator,  \* the simulations each of them schedules
          Member,     \* the members of the role whose service is made to fail
          Consumer    \* the service of the generic member that consumes

ASSUME SimulatorAssumption ==
  NumOfJobs \in Nat \ {0} /\ Member # {} /\ Simulator # {} /\ Consumer \notin Member

Job == 1 .. NumOfJobs
Service == Member \cup {Consumer}

VARIABLES
  current,   \* the job whose script runs
  script,    \* where the script is
  service,   \* per service: running or stopped
  at,        \* per job: where the thread of its shell's Timer is
  cur,       \* per job: the simulator that thread runs
  target,    \* per job: the member it has selected
  pending,   \* per job: the simulators that are scheduled and not cancelled
  broken,    \* history: services a failed command may have left stopped
  missed,    \* history: services on which the last stop by a script had no
             \* effect
  lateStops  \* history: per job, the stops after its shell was closed

scriptVars == <<current, script>>
timerVars == <<at, cur, target, pending>>
vars == <<scriptVars, service, timerVars, broken, missed, lateStops>>

Closed(j) == j < current \/ script = "done"

Init ==
  /\ current = 1 /\ script = "stop consumer"
  /\ service \in [Service -> {"running", "stopped"}]
  /\ at = [j \in Job |-> "idle"]
  /\ cur \in {[j \in Job |-> s] : s \in Simulator}
  /\ target \in {[j \in Job |-> m] : m \in Member}
  /\ pending = [j \in Job |-> {}]
  /\ broken = {x \in Service : service[x] = "stopped"}
  /\ missed = {}
  /\ lateStops = [j \in Job |-> 0]

-----------------------------------------------------------------------------
(* The script of the current job.  SHELL.exec prints an error and goes on. *)

\* "service stop" on the members in S, which takes effect on those in ok.
ScriptStop(S, from, to) ==
  /\ script = from
  /\ script' = to
  /\ \E ok \in SUBSET S :
       /\ service' = [x \in Service |-> IF x \in ok THEN "stopped" ELSE service[x]]
       /\ missed' = (S \ ok) \cup (missed \ S)
  /\ UNCHANGED <<current, timerVars, broken, lateStops>>

ScriptStart(S, from, to) ==
  /\ script = from
  /\ script' = to
  /\ \E ok \in SUBSET S :
       /\ service' = [x \in Service |-> IF x \in ok THEN "running" ELSE service[x]]
       /\ broken' = (broken \ ok) \cup (S \ ok)
  /\ UNCHANGED <<current, timerVars, missed, lateStops>>

StopConsumer  == ScriptStop({Consumer}, "stop consumer", "stop")

StopMembers   == ScriptStop(Member, "stop", "cleanup")
StartMembers  == ScriptStart(Member, "start", "start consumer")
StartConsumer == ScriptStart({Consumer}, "start consumer", "simulate")

\* "service cleanup": what it removes is of no matter here.
Cleanup ==
  /\ script = "cleanup"
  /\ script' = "start"
  /\ UNCHANGED <<current, service, timerVars, broken, missed, lateStops>>

\* "ringbearer:job simulation": a Timer thread runs it from now on.
Simulate ==
  /\ script = "simulate"
  /\ \E s \in Simulator \ pending[current] :
       pending' = [pending EXCEPT ![current] = @ \cup {s}]
  /\ UNCHANGED <<scriptVars, service, at, cur, target, broken, missed, lateStops>>

\* "ringbearer:job send" begins.
Send ==
  /\ script = "simulate"
  /\ script' = "send"
  /\ UNCHANGED <<current, service, timerVars, broken, missed, lateStops>>

\* The shell is closed; the scheduler starts the next job.
CloseShell ==
  /\ IF current < NumOfJobs
     THEN current' = current + 1 /\ script' = "stop consumer"
     ELSE current' = current /\ script' = "done"
  /\ UNCHANGED <<service, timerVars, missed, lateStops>>

SendReturns == script = "send" /\ CloseShell /\ UNCHANGED broken

\* The script throws: what it has stopped stays stopped.
ScriptFails ==
  /\ script # "done"
  /\ broken' = broken \cup {x \in Service : service[x] = "stopped"}
  /\ CloseShell

ScriptStep ==
  StopConsumer \/ StopMembers \/ Cleanup \/ StartMembers \/ StartConsumer
  \/ Send \/ SendReturns

-----------------------------------------------------------------------------
(* ServiceFailureSimulator.run, on the Timer thread of the shell of job j  *)

\* Bug: the simulator does not look whether the shell is closed.
Fire_NoCheck(j) ==
  /\ at[j] = "idle"
  /\ \E s \in pending[j] : cur' = [cur EXCEPT ![j] = s]
  /\ at' = [at EXCEPT ![j] = "select"]
  /\ UNCHANGED <<scriptVars, service, target, pending, broken, missed, lateStops>>

\* A simulator is due.  Once the shell is closed its run returns at once.
Fire(j) ==
  /\ at[j] = "idle"
  /\ ~Closed(j)
  /\ \E s \in pending[j] : cur' = [cur EXCEPT ![j] = s]
  /\ at' = [at EXCEPT ![j] = "select"]
  /\ UNCHANGED <<scriptVars, service, target, pending, broken, missed, lateStops>>

\* selectRandomMember
Select(j) ==
  /\ at[j] = "select"
  /\ \E m \in Member : target' = [target EXCEPT ![j] = m]
  /\ at' = [at EXCEPT ![j] = "stop"]
  /\ UNCHANGED <<scriptVars, service, cur, pending, broken, missed, lateStops>>

\* The client is gone or no member has the role: the exception is swallowed.
SelectFails(j) ==
  /\ at[j] = "select"
  /\ at' = [at EXCEPT ![j] = "idle"]
  /\ UNCHANGED <<scriptVars, service, cur, target, pending, broken, missed, lateStops>>

CountStop(j) ==
  lateStops' = [lateStops EXCEPT ![j] = IF Closed(j) THEN @ + 1 ELSE @]

StopOk(j) ==
  /\ at[j] = "stop"
  /\ service' = [service EXCEPT ![target[j]] = "stopped"]
  /\ at' = [at EXCEPT ![j] = "sleep"]
  /\ CountStop(j)
  /\ UNCHANGED <<scriptVars, cur, target, pending, broken, missed>>

\* Bug: the run is left when the stop has an error.
StopError_Returns(j) ==
  /\ at[j] = "stop"
  /\ \E effect \in {"stopped", service[target[j]]} :
       service' = [service EXCEPT ![target[j]] = effect]
  /\ at' = [at EXCEPT ![j] = "idle"]
  /\ pending' = [pending EXCEPT ![j] = @ \ {cur[j]}]
  /\ CountStop(j)
  /\ UNCHANGED <<scriptVars, cur, target, broken, missed>>

\* hasError(): the simulator is cancelled, but this run goes on to its start.
StopError(j) ==
  /\ at[j] = "stop"
  /\ \E effect \in {"stopped", service[target[j]]} :
       service' = [service EXCEPT ![target[j]] = effect]
  /\ at' = [at EXCEPT ![j] = "sleep"]
  /\ pending' = [pending EXCEPT ![j] = @ \ {cur[j]}]
  /\ CountStop(j)
  /\ UNCHANGED <<scriptVars, cur, target, broken, missed>>

\* An exception, or an error without a result, whose state is printed before
\* hasError() is looked at: no cancel and no start.
StopThrows(j) ==
  /\ at[j] = "stop"
  /\ \E effect \in {"stopped", service[target[j]]} :
       service' = [service EXCEPT ![target[j]] = effect]
  /\ at' = [at EXCEPT ![j] = "idle"]
  /\ broken' = broken \cup {target[j]}
  /\ CountStop(j)
  /\ UNCHANGED <<scriptVars, cur, target, pending, missed>>

SleepEnds(j) ==
  /\ at[j] = "sleep"
  /\ at' = [at EXCEPT ![j] = "start"]
  /\ UNCHANGED <<scriptVars, service, cur, target, pending, broken, missed, lateStops>>

StartOk(j) ==
  /\ at[j] = "start"
  /\ at' = [at EXCEPT ![j] = "idle"]
  /\ service' = [service EXCEPT ![target[j]] = "running"]
  /\ broken' = broken \ {target[j]}
  /\ UNCHANGED <<scriptVars, cur, target, pending, missed, lateStops>>

\* An error with a result cancels the simulator; one without, or an exception,
\* does not.
StartFails(j) ==
  /\ at[j] = "start"
  /\ at' = [at EXCEPT ![j] = "idle"]
  /\ \E effect \in {"running", service[target[j]]} :
       service' = [service EXCEPT ![target[j]] = effect]
  /\ pending' \in {pending, [pending EXCEPT ![j] = @ \ {cur[j]}]}
  /\ broken' = broken \cup {target[j]}
  /\ UNCHANGED <<scriptVars, cur, target, missed, lateStops>>

TimerThread(j) ==
  \/ Fire(j) \/ Select(j) \/ SelectFails(j) \/ StopOk(j) \/ StopError(j)
  \/ StopThrows(j) \/ SleepEnds(j) \/ StartOk(j) \/ StartFails(j)

-----------------------------------------------------------------------------
Next ==
  \/ ScriptStep
  \/ Simulate
  \/ ScriptFails
  \/ \E j \in Job : TimerThread(j)

Spec == Init /\ [][Next]_vars

\* The scripts and the timer threads are scheduled; send and every command
\* return (with their limits), with whatever reply.
FairSpec ==
  /\ Spec
  /\ WF_vars(ScriptStep)
  /\ \A j \in Job : WF_vars(TimerThread(j))

-----------------------------------------------------------------------------
(* Properties                                                              *)

ScriptPlace == {"stop consumer", "stop", "cleanup", "start", "start consumer",
                "simulate", "send", "done"}

\* The types of the state.
TypeOK ==
  /\ current \in Job /\ script \in ScriptPlace
  /\ service \in [Service -> {"running", "stopped"}]
  /\ at \in [Job -> {"idle", "select", "stop", "sleep", "start"}]
  /\ cur \in [Job -> Simulator] /\ target \in [Job -> Member]
  /\ pending \in [Job -> SUBSET Simulator]
  /\ broken \in SUBSET Service /\ missed \in SUBSET Service
  /\ lateStops \in [Job -> Nat]

\* Where the script is between its stop of service x and its start.
ScriptHasStopped(x) ==
  IF x = Consumer THEN script \in {"stop", "cleanup", "start", "start consumer"}
                  ELSE script \in {"cleanup", "start"}

\* Somebody answers for every service that is stopped: the script, which has
\* not reached its start yet, a timer thread that is going to start it again,
\* or a command on it that failed.
DownIsAccounted ==
  \A x \in Service : service[x] = "stopped" =>
    \/ x \in broken
    \/ ScriptHasStopped(x)
    \/ \E j \in Job : target[j] = x /\ at[j] \in {"sleep", "start"}

\* The timers of earlier jobs may start a service between the script's stop and
\* its cleanup, but each of them at most one: of the services whose stop took
\* effect, at most as many run at the cleanup as jobs came before this one, and
\* the consumer is not one of them.
CleanupHitsOnePerJob ==
  script = "cleanup" =>
    /\ Cardinality({x \in Service \ missed : service[x] = "running"}) <= current - 1
    /\ Consumer \in missed \/ service[Consumer] = "stopped"

\* The check of isClose() and the stop are not atomic, but a shell that is
\* closed stops at most one more service.
AtMostOneLateStop == \A j \in Job : lateStops[j] <= 1

\* A service that is stopped is started again, whatever the interleaving of the
\* end of a job with a simulated failure, unless a command on it failed.
OutageEnds ==
  \A x \in Service : service[x] = "stopped" ~> (service[x] = "running" \/ x \in broken)
=============================================================================
