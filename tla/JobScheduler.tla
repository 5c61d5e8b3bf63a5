---------------------------- MODULE JobScheduler ----------------------------
(***************************************************************************)
(* The RingBearer job service: RingBearerJobService and the                *)
(* RingBeaderJobScheduler objects it creates, one at each start().         *)
(*                                                                         *)
(* Threads: the gateway threads that call submit() (one per job), a        *)
(* monitor thread that calls getSchedulerInfo(), the container thread that *)
(* starts and stops the service, and per scheduler one JobSchedulerThread  *)
(* and, one after the other, the RingBearerJobRunner threads it creates.   *)
(*                                                                         *)
(* A step is a read or a write of one shared field, or one call of the     *)
(* queue (which is linearizable).  The plain fields runningJob and         *)
(* finishedJobs are read by the monitor without a lock: their reads and    *)
(* writes are interleaved in program order, and an iteration of            *)
(* finishedJobs that overlaps a put either fails or returns the old list.  *)
(* The iterator of the queue is weakly consistent: it holds the job it     *)
(* returns next, and goes on from wherever the queue is by then.           *)
(***************************************************************************)
EXTENDS Naturals, Sequences, FiniteSets

CONSTANTS Job,          \* the RingBearerJob objects that clients submit
          Scheduler,    \* the scheduler objects that start() can create
          NoJob,        \* null, for a RingBearerJob
          NoScheduler   \* null, for a RingBeaderJobScheduler

ASSUME SchedulerAssumption ==
  /\ NoJob \notin Job
  /\ NoScheduler \notin Scheduler

VARIABLES
  serviceState,   \* external: what the container did last with the service
  jobScheduler,   \* RingBearerJobService.jobScheduler
  idTracker,      \* per scheduler: the last id given out
  jobQueue,       \* per scheduler: the LinkedBlockingQueue
  finishedJobs,   \* per scheduler: the LinkedHashMap, as the list of values
  runningJob,     \* per scheduler: the runningJob field
  thread,         \* per scheduler: where its JobSchedulerThread is
  job,            \* per scheduler: the local variable job of that thread
  interrupted,    \* per scheduler: the interrupt flag of that thread
  phase,          \* per job: where its submission is
  owner,          \* per job: the scheduler it is submitted to
  id,             \* per job: RingBearerJob.id
  runner,         \* per job: where its RingBearerJobRunner thread is
  output,         \* per job: the output attribute the runner has set
  signalled,      \* the jobs whose runner has been interrupted
  info,           \* the getInfo() call in progress
  lateTakes       \* history: jobs a scheduler took after it was stopped

serviceVars   == <<serviceState, jobScheduler>>
schedulerVars == <<jobQueue, finishedJobs, runningJob, thread, job>>
clientVars    == <<idTracker, phase, owner, id>>
runnerVars    == <<runner, output, signalled>>
vars == <<serviceVars, schedulerVars, clientVars, runnerVars,
          interrupted, info, lateTakes>>

-----------------------------------------------------------------------------
Elements(s) == { s[i] : i \in DOMAIN s }

First(q) == IF q = <<>> THEN NoJob ELSE Head(q)

\* LinkedBlockingQueue.Itr.nextNode: what the iterator goes to from job j, the
\* head of the queue when j has been taken meanwhile.
NextNode(q, j) ==
  IF j \notin Elements(q) THEN First(q)
  ELSE LET i == CHOOSE k \in DOMAIN q : q[k] = j
       IN IF i = Len(q) THEN NoJob ELSE q[i + 1]

\* LinkedHashMap.put: an entry with the same key is replaced in its place.
Put(list, j) ==
  IF \E i \in DOMAIN list : id[list[i]] = id[j]
  THEN [i \in DOMAIN list |-> IF id[list[i]] = id[j] THEN j ELSE list[i]]
  ELSE Append(list, j)

\* Thread.isAlive() of the runner of job j.
Alive(j) == runner[j] \in {"script", "closing"}

Stopped(s) == interrupted[s] \/ thread[s] \in {"handler", "dead"}

\* The job that the thread of s has taken and has not reported as finished.
Active(s) ==
  CASE thread[s] = "took"  -> job[s]
    [] thread[s] = "clear" -> NoJob
    [] OTHER               -> runningJob[s]

Accepted(s) == { j \in Job : phase[j] = "accepted" /\ owner[j] = s }
Begun(s)    == { j \in Accepted(s) : runningJob[s] = j
                                      \/ j \in Elements(finishedJobs[s]) }

NoInfo == [at |-> "idle", of |-> NoScheduler, running |-> NoJob, next |-> NoJob,
           waiting |-> <<>>, finished |-> <<>>, known |-> {}, begun |-> {}]

-----------------------------------------------------------------------------
Init ==
  /\ serviceState = "NEW"
  /\ jobScheduler = NoScheduler
  /\ idTracker    = [s \in Scheduler |-> 0]
  /\ jobQueue     = [s \in Scheduler |-> <<>>]
  /\ finishedJobs = [s \in Scheduler |-> <<>>]
  /\ runningJob   = [s \in Scheduler |-> NoJob]
  /\ thread       = [s \in Scheduler |-> "new"]
  /\ job          = [s \in Scheduler |-> NoJob]
  /\ interrupted  = [s \in Scheduler |-> FALSE]
  /\ phase        = [j \in Job |-> "new"]
  /\ owner        = [j \in Job |-> NoScheduler]
  /\ id           = [j \in Job |-> 0]
  /\ runner       = [j \in Job |-> "new"]
  /\ output       = [j \in Job |-> "none"]
  /\ signalled    = {}
  /\ info         = NoInfo
  /\ lateTakes    = [s \in Scheduler |-> 0]

-----------------------------------------------------------------------------
(* The container: the service is started, stopped and started again, as    *)
(* ServiceFailureSimulator does; every start makes a new scheduler.        *)

ServiceStart(s) ==
  /\ serviceState # "START"
  /\ thread[s] = "new"
  /\ serviceState' = "START"
  /\ jobScheduler' = s
  /\ thread' = [thread EXCEPT ![s] = "take"]
  /\ UNCHANGED <<jobQueue, finishedJobs, runningJob, job, clientVars,
                 runnerVars, interrupted, info, lateTakes>>

\* Bug: stop() forgets to interrupt a thread that waits for its runner.
ServiceStop_OnlyIdle ==
  /\ serviceState = "START"
  /\ serviceState' = "STOP"
  /\ interrupted' = [interrupted EXCEPT ![jobScheduler] =
                       thread[jobScheduler] \in {"take", "await"}]
  /\ UNCHANGED <<jobScheduler, schedulerVars, clientVars, runnerVars, info,
                 lateTakes>>

\* stop() keeps the scheduler object, so submit() and getInfo() still reach it.
ServiceStop ==
  /\ serviceState = "START"
  /\ serviceState' = "STOP"
  /\ interrupted' = [interrupted EXCEPT ![jobScheduler] =
                       thread[jobScheduler] # "dead"]
  /\ UNCHANGED <<jobScheduler, schedulerVars, clientVars, runnerVars, info,
                 lateTakes>>

-----------------------------------------------------------------------------
(* submit(): the id is drawn and set first, the job is queued later, so    *)
(* two submissions can be queued in the other order than their ids.        *)

SubmitRejected(j) ==        \* jobScheduler is still null
  /\ phase[j] = "new"
  /\ jobScheduler = NoScheduler
  /\ phase' = [phase EXCEPT ![j] = "rejected"]
  /\ UNCHANGED <<serviceVars, schedulerVars, idTracker, owner, id, runnerVars,
                 interrupted, info, lateTakes>>

\* Bug: the id is read before the counter is incremented by its offer.
SubmitSetId_NotAtomic(j) ==
  /\ phase[j] = "new"
  /\ jobScheduler # NoScheduler
  /\ LET s == jobScheduler
         n == Cardinality({k \in Job : owner[k] = s /\ phase[k] = "accepted"})
     IN /\ idTracker' = [idTracker EXCEPT ![s] = n + 1]
        /\ id'    = [id EXCEPT ![j] = n + 1]
        /\ owner' = [owner EXCEPT ![j] = s]
        /\ phase' = [phase EXCEPT ![j] = "numbered"]
  /\ UNCHANGED <<serviceVars, schedulerVars, runnerVars, interrupted, info,
                 lateTakes>>

SubmitSetId(j) ==
  /\ phase[j] = "new"
  /\ jobScheduler # NoScheduler
  /\ LET s == jobScheduler
     IN /\ idTracker' = [idTracker EXCEPT ![s] = @ + 1]
        /\ id'    = [id EXCEPT ![j] = idTracker[s] + 1]
        /\ owner' = [owner EXCEPT ![j] = s]
        /\ phase' = [phase EXCEPT ![j] = "numbered"]
  /\ UNCHANGED <<serviceVars, schedulerVars, runnerVars, interrupted, info,
                 lateTakes>>

\* The queue has no capacity, so offer() never waits and never fails.
SubmitOffer(j) ==
  /\ phase[j] = "numbered"
  /\ jobQueue' = [jobQueue EXCEPT ![owner[j]] = Append(@, j)]
  /\ phase' = [phase EXCEPT ![j] = "accepted"]
  /\ UNCHANGED <<serviceVars, finishedJobs, runningJob, thread, job, idTracker,
                 owner, id, runnerVars, interrupted, info, lateTakes>>

Submit(j) == SubmitRejected(j) \/ SubmitSetId(j) \/ SubmitOffer(j)

-----------------------------------------------------------------------------
(* JobSchedulerThread.run                                                  *)

\* The thread of s goes from one statement to another.
Goto(s, from, to) ==
  /\ thread[s] = from
  /\ thread' = [thread EXCEPT ![s] = to]

\* Bug: the interrupt flag is not looked at on entry of take().
TakeEnter_NoCheck(s) ==
  /\ Goto(s, "take", "await")
  /\ UNCHANGED <<serviceVars, jobQueue, finishedJobs, runningJob, job,
                 clientVars, runnerVars, interrupted, info, lateTakes>>

\* take() refuses to start when the flag is set; afterwards the flag only
\* matters while the queue is empty (Interrupt below).
TakeEnter(s) ==
  /\ ~interrupted[s]
  /\ Goto(s, "take", "await")
  /\ UNCHANGED <<serviceVars, jobQueue, finishedJobs, runningJob, job,
                 clientVars, runnerVars, interrupted, info, lateTakes>>

\* Bug: the most recent job is taken, not the oldest one.
TakeJob_Last(s) ==
  /\ jobQueue[s] # <<>>
  /\ Goto(s, "await", "took")
  /\ LET n == Len(jobQueue[s])
     IN /\ job' = [job EXCEPT ![s] = jobQueue[s][n]]
        /\ jobQueue' = [jobQueue EXCEPT ![s] = SubSeq(@, 1, n - 1)]
  /\ lateTakes' = [lateTakes EXCEPT ![s] = IF interrupted[s] THEN @ + 1 ELSE @]
  /\ UNCHANGED <<serviceVars, finishedJobs, runningJob, clientVars, runnerVars,
                 interrupted, info>>

TakeJob(s) ==
  /\ jobQueue[s] # <<>>
  /\ Goto(s, "await", "took")
  /\ job' = [job EXCEPT ![s] = Head(jobQueue[s])]
  /\ jobQueue' = [jobQueue EXCEPT ![s] = Tail(@)]
  /\ lateTakes' = [lateTakes EXCEPT ![s] = IF interrupted[s] THEN @ + 1 ELSE @]
  /\ UNCHANGED <<serviceVars, finishedJobs, runningJob, clientVars, runnerVars,
                 interrupted, info>>

SetRunning(s) ==
  /\ Goto(s, "took", "start")
  /\ runningJob' = [runningJob EXCEPT ![s] = job[s]]
  /\ UNCHANGED <<serviceVars, jobQueue, finishedJobs, job, clientVars,
                 runnerVars, interrupted, info, lateTakes>>

StartRunner(s) ==
  /\ Goto(s, "start", "poll")
  /\ runner' = [runner EXCEPT ![job[s]] = "script"]
  /\ UNCHANGED <<serviceVars, jobQueue, finishedJobs, runningJob, job,
                 clientVars, output, signalled, interrupted, info, lateTakes>>

\* Bug: the poll waits one period instead of waiting for the runner's end.
Poll_Once(s) ==
  /\ thread[s] = "poll"
  /\ thread' = [thread EXCEPT ![s] = IF runner[job[s]] = "script"
                                     THEN "sleep" ELSE "put"]
  /\ UNCHANGED <<serviceVars, jobQueue, finishedJobs, runningJob, job,
                 clientVars, runnerVars, interrupted, info, lateTakes>>

Poll(s) ==
  /\ thread[s] = "poll"
  /\ thread' = [thread EXCEPT ![s] = IF Alive(job[s]) THEN "sleep" ELSE "put"]
  /\ UNCHANGED <<serviceVars, jobQueue, finishedJobs, runningJob, job,
                 clientVars, runnerVars, interrupted, info, lateTakes>>

WakeUp(s) ==
  /\ ~interrupted[s]
  /\ Goto(s, "sleep", "poll")
  /\ UNCHANGED <<serviceVars, jobQueue, finishedJobs, runningJob, job,
                 clientVars, runnerVars, interrupted, info, lateTakes>>

\* Bug: a job is reported only when its script went well.
PutFinished_OnlyGood(s) ==
  /\ Goto(s, "put", "clear")
  /\ finishedJobs' = [finishedJobs EXCEPT ![s] =
                        IF output[runningJob[s]] = "error" THEN @
                        ELSE Put(@, runningJob[s])]
  /\ UNCHANGED <<serviceVars, jobQueue, runningJob, job, clientVars, runnerVars,
                 interrupted, info, lateTakes>>

PutFinished(s) ==
  /\ Goto(s, "put", "clear")
  /\ finishedJobs' = [finishedJobs EXCEPT ![s] = Put(@, runningJob[s])]
  /\ UNCHANGED <<serviceVars, jobQueue, runningJob, job, clientVars, runnerVars,
                 interrupted, info, lateTakes>>

ClearRunning(s) ==
  /\ Goto(s, "clear", "take")
  /\ runningJob' = [runningJob EXCEPT ![s] = NoJob]
  /\ UNCHANGED <<serviceVars, jobQueue, finishedJobs, job, clientVars,
                 runnerVars, interrupted, info, lateTakes>>

\* take() and sleep() throw InterruptedException and clear the flag.
Interrupt(s) ==
  /\ interrupted[s]
  /\ \/ thread[s] \in {"take", "sleep"}
     \/ thread[s] = "await" /\ jobQueue[s] = <<>>
  /\ thread' = [thread EXCEPT ![s] = "handler"]
  /\ interrupted' = [interrupted EXCEPT ![s] = FALSE]
  /\ UNCHANGED <<serviceVars, jobQueue, finishedJobs, runningJob, job,
                 clientVars, runnerVars, info, lateTakes>>

\* Bug: the runner is interrupted only if runningJob has been cleared.
HandleInterrupt_Inverted(s) ==
  /\ Goto(s, "handler", "dead")
  /\ signalled' = IF job[s] # NoJob /\ runningJob[s] = NoJob
                  THEN signalled \cup {job[s]} ELSE signalled
  /\ UNCHANGED <<serviceVars, jobQueue, finishedJobs, runningJob, job,
                 clientVars, runner, output, interrupted, info, lateTakes>>

\* The catch block: jobRunner is the last runner created; to interrupt one
\* that has ended does nothing.  runningJob keeps its value.
HandleInterrupt(s) ==
  /\ Goto(s, "handler", "dead")
  /\ signalled' = IF job[s] # NoJob /\ Alive(job[s])
                  THEN signalled \cup {job[s]} ELSE signalled
  /\ UNCHANGED <<serviceVars, jobQueue, finishedJobs, runningJob, job,
                 clientVars, runner, output, interrupted, info, lateTakes>>

SchedulerThread(s) ==
  \/ TakeEnter(s) \/ TakeJob(s) \/ SetRunning(s) \/ StartRunner(s) \/ Poll(s)
  \/ WakeUp(s) \/ PutFinished(s) \/ ClearRunning(s) \/ Interrupt(s)
  \/ HandleInterrupt(s)

-----------------------------------------------------------------------------
(* RingBearerJobRunner.run: whatever the script does, an interrupt         *)
(* included, one output attribute is set and the shell is closed.  Only    *)
(* new Shell() is outside of the try.                                      *)

\* new Shell() throws: the runner ends without an output attribute.
ShellFails(j) ==
  /\ runner[j] = "script"
  /\ runner' = [runner EXCEPT ![j] = "dead"]
  /\ UNCHANGED <<serviceVars, schedulerVars, clientVars, output, signalled,
                 interrupted, info, lateTakes>>

RunScript(j) ==
  /\ runner[j] = "script"
  /\ runner' = [runner EXCEPT ![j] = "closing"]
  /\ \E attribute \in {"consoleOutput", "error"} :
       output' = [output EXCEPT ![j] = attribute]
  /\ UNCHANGED <<serviceVars, schedulerVars, clientVars, signalled, interrupted,
                 info, lateTakes>>

CloseShell(j) ==
  /\ runner[j] = "closing"
  /\ runner' = [runner EXCEPT ![j] = "dead"]
  /\ UNCHANGED <<serviceVars, schedulerVars, clientVars, output, signalled,
                 interrupted, info, lateTakes>>

Runner(j) == ShellFails(j) \/ RunScript(j) \/ CloseShell(j)

-----------------------------------------------------------------------------
(* getInfo(): three reads, no lock around them.                            *)

\* known and begun are history: what the scheduler held when the call began.
InfoRunning ==
  /\ info.at = "idle"
  /\ jobScheduler # NoScheduler
  /\ info' = [NoInfo EXCEPT !.at = "waiting", !.of = jobScheduler,
                            !.running = runningJob[jobScheduler],
                            !.known = Accepted(jobScheduler),
                            !.begun = Begun(jobScheduler)]
  /\ UNCHANGED <<serviceVars, schedulerVars, clientVars, runnerVars,
                 interrupted, lateTakes>>

\* jobQueue.iterator(): it has its first job at once.
InfoWaiting ==
  /\ info.at = "waiting"
  /\ info' = [info EXCEPT !.at = "list", !.next = First(jobQueue[info.of])]
  /\ UNCHANGED <<serviceVars, schedulerVars, clientVars, runnerVars,
                 interrupted, lateTakes>>

\* holder.add(i.next())
InfoNext ==
  /\ info.at = "list"
  /\ info.next # NoJob
  /\ info' = [info EXCEPT !.waiting = Append(@, info.next),
                          !.next = NextNode(jobQueue[info.of], @)]
  /\ UNCHANGED <<serviceVars, schedulerVars, clientVars, runnerVars,
                 interrupted, lateTakes>>

InfoIterate ==
  /\ info.at = "list"
  /\ info.next = NoJob
  /\ info' = [info EXCEPT !.at = "collect", !.finished = finishedJobs[info.of]]
  /\ UNCHANGED <<serviceVars, schedulerVars, clientVars, runnerVars,
                 interrupted, lateTakes>>

\* Bug: the running job is read last, not first.
InfoCollect_RunningLast ==
  /\ info.at = "collect"
  /\ info' = [info EXCEPT !.at = "done", !.running = runningJob[info.of]]
  /\ UNCHANGED <<serviceVars, schedulerVars, clientVars, runnerVars,
                 interrupted, lateTakes>>

InfoCollect ==
  /\ info.at = "collect"
  /\ info' = [info EXCEPT !.at = "done"]
  /\ UNCHANGED <<serviceVars, schedulerVars, clientVars, runnerVars,
                 interrupted, lateTakes>>

\* A put between two next() of the iterator: ConcurrentModificationException.
InfoFailed ==
  /\ info.at = "collect"
  /\ info.finished # <<>>
  /\ info.finished # finishedJobs[info.of]
  /\ info' = NoInfo
  /\ UNCHANGED <<serviceVars, schedulerVars, clientVars, runnerVars,
                 interrupted, lateTakes>>

InfoReturned ==
  /\ info.at = "done"
  /\ info' = NoInfo
  /\ UNCHANGED <<serviceVars, schedulerVars, clientVars, runnerVars,
                 interrupted, lateTakes>>

GetInfo ==
  InfoRunning \/ InfoWaiting \/ InfoNext \/ InfoIterate \/ InfoCollect
  \/ InfoFailed \/ InfoReturned

-----------------------------------------------------------------------------
ServiceNext ==
  \/ \E s \in Scheduler : ServiceStart(s) \/ SchedulerThread(s)
  \/ ServiceStop
  \/ \E j \in Job : Submit(j) \/ Runner(j)

Next == ServiceNext \/ GetInfo

Spec == Init /\ [][Next]_vars

\* Threads that can take a step eventually do; a script is assumed to end, and
\* nobody is obliged to start, stop, submit or ask for the information.
Fairness ==
  /\ \A s \in Scheduler : WF_vars(SchedulerThread(s))
  /\ \A j \in Job : WF_vars(SubmitOffer(j)) /\ WF_vars(Runner(j))

\* getInfo() only reads, so what does not mention info is the same without it.
QuietSpec == Init /\ [][ServiceNext]_vars

FairSpec == QuietSpec /\ Fairness

-----------------------------------------------------------------------------
(* Properties                                                              *)

SnapshotJobs == {info.running} \cup Elements(info.waiting)
                               \cup Elements(info.finished)

InfoType == [at : {"idle", "waiting", "list", "collect", "done"},
             of : Scheduler \cup {NoScheduler},
             running : Job \cup {NoJob}, next : Job \cup {NoJob},
             waiting : Seq(Job), finished : Seq(Job),
             known : SUBSET Job, begun : SUBSET Job]

\* The types of the fields and the places of the threads.
TypeOK ==
  /\ serviceState \in {"NEW", "START", "STOP"}
  /\ jobScheduler \in Scheduler \cup {NoScheduler}
  /\ idTracker \in [Scheduler -> Nat]
  /\ jobQueue \in [Scheduler -> Seq(Job)]
  /\ finishedJobs \in [Scheduler -> Seq(Job)]
  /\ runningJob \in [Scheduler -> Job \cup {NoJob}]
  /\ thread \in [Scheduler -> {"new", "take", "await", "took", "start", "poll",
                               "sleep", "put", "clear", "handler", "dead"}]
  /\ job \in [Scheduler -> Job \cup {NoJob}]
  /\ interrupted \in [Scheduler -> BOOLEAN]
  /\ phase \in [Job -> {"new", "rejected", "numbered", "accepted"}]
  /\ owner \in [Job -> Scheduler \cup {NoScheduler}]
  /\ id \in [Job -> Nat]
  /\ runner \in [Job -> {"new", "script", "closing", "dead"}]
  /\ output \in [Job -> {"none", "consoleOutput", "error"}]
  /\ signalled \subseteq Job
  /\ info \in InfoType
  /\ lateTakes \in [Scheduler -> Nat]

\* A job whose submit() has returned true is never forgotten by its
\* scheduler, whatever the order of the ids, of the offers and of a stop: it
\* waits, is being worked on or is reported (finishedJobs is keyed by id, so
\* two jobs with one id would leave one of them nowhere).
NothingLost ==
  \A j \in Job : phase[j] = "accepted" =>
    \/ j \in Elements(jobQueue[owner[j]])
    \/ j = Active(owner[j])
    \/ j \in Elements(finishedJobs[owner[j]])

\* A scheduler runs its jobs one after the other: two of its runners are never
\* alive at once, not even when the first one is still closing its shell.
OneRunnerAtATime ==
  \A j, k \in Job : Alive(j) /\ Alive(k) /\ owner[j] = owner[k] => j = k

\* What is reported of a job is final: its runner has ended, and the output
\* attribute it has set, if its shell could be made at all, does not change.
ReportIsFinal ==
  [][\A s \in Scheduler : \A j \in Elements(finishedJobs[s]) :
       runner[j] = "dead" /\ output'[j] = output[j]]_vars

\* A stop leaves no script behind unnoticed: when the scheduler thread has
\* ended, a runner that is still alive has been interrupted.
OrphanIsSignalled ==
  \A j \in Job : Alive(j) /\ thread[owner[j]] = "dead" => j \in signalled

\* After stop() a scheduler takes at most one more job from its queue (the one
\* that take() was about to return).
AtMostOneLateTake == \A s \in Scheduler : lateTakes[s] <= 1

\* getInfo() never shows one job as running and as waiting: the running job
\* is read first, and a job leaves the queue before it is running.
SnapshotRunningNotWaiting ==
  info.at \in {"collect", "done"} => info.running \notin Elements(info.waiting)

\* Every job that was running or finished when getInfo() began is in what
\* it returns: a job is put in finishedJobs before runningJob is cleared, and
\* runningJob is read before finishedJobs.
SnapshotKeepsBegun == info.at = "done" => info.begun \subseteq SnapshotJobs

\* getInfo() can miss a job that moves while it reads, but only one.
SnapshotMissesAtMostOne ==
  info.at = "done" => Cardinality(info.known \ SnapshotJobs) <= 1

\* The refinement mapping: each scheduler is a JobQueue.
Executed(s) == { j \in Job : owner[j] = s /\ runner[j] = "dead" }

Queue(s) == INSTANCE JobQueue
              WITH waiting  <- jobQueue[s],
                   active   <- Active(s),
                   executed <- Executed(s),
                   done     <- finishedJobs[s]

\* Every scheduler implements JobQueue: jobs are begun and reported in the
\* order of the offers, one at a time, each executed once and before its report.
\* (This is \A s : Queue(s)!QueueSpec, with the box moved outside of \A.)
ImplementsJobQueue ==
  /\ \A s \in Scheduler : Queue(s)!QueueInit
  /\ [][\A s \in Scheduler :
          Queue(s)!QueueNext \/ UNCHANGED Queue(s)!queueVars]_vars

\* A job that submit() accepted is reported as finished, unless the scheduler
\* is stopped.
AcceptedIsFinished ==
  \A j \in Job : \A s \in Scheduler :
    (phase[j] = "accepted" /\ owner[j] = s)
      ~> (j \in Elements(finishedJobs[s]) \/ Stopped(s))

\* stop() ends the scheduler thread, whatever it is doing, however many jobs
\* wait and however soon the service is started again.
StopEndsThread ==
  \A s \in Scheduler :
    (serviceState = "STOP" /\ jobScheduler = s) ~> thread[s] = "dead"

-----------------------------------------------------------------------------
(* The inductive invariant behind the safety properties                    *)

\* A sequence that holds nothing twice.
NoRepeat(q) == \A a, b \in DOMAIN q : q[a] = q[b] => a = b

Submitted(j) == phase[j] \in {"numbered", "accepted"}

RunnerInv ==
  \A j \in Job :
    /\ Submitted(j) => owner[j] \in Scheduler
    /\ runner[j] # "new" => phase[j] = "accepted"
    /\ Alive(j) => /\ runningJob[owner[j]] = j
                   /\ thread[owner[j]] \in {"poll", "sleep", "handler", "dead"}

IdInv ==
  /\ \A j \in Job : Submitted(j) => id[j] <= idTracker[owner[j]]
  /\ \A j, k \in Job :
       Submitted(j) /\ Submitted(k) /\ owner[j] = owner[k] /\ id[j] = id[k]
         => j = k

QueueInv ==
  \A s \in Scheduler :
    /\ NoRepeat(jobQueue[s])
    /\ \A j \in Elements(jobQueue[s]) :
         /\ phase[j] = "accepted" /\ owner[j] = s
         /\ runner[j] = "new" /\ j # Active(s)

FinishedInv ==
  \A s \in Scheduler : \A j \in Elements(finishedJobs[s]) :
    /\ phase[j] = "accepted" /\ owner[j] = s
    /\ runner[j] = "dead" /\ j # Active(s)

ThreadInv ==
  \A s \in Scheduler :
    /\ thread[s] \in {"new", "take", "await", "took"} => runningJob[s] = NoJob
    /\ thread[s] \in {"took", "start", "poll", "sleep", "put", "clear"} =>
         job[s] \in Job /\ phase[job[s]] = "accepted" /\ owner[job[s]] = s
    /\ thread[s] \in {"start", "poll", "sleep", "put", "clear"} =>
         runningJob[s] = job[s]
    /\ thread[s] \in {"took", "start"} => runner[job[s]] = "new"
    /\ thread[s] \in {"poll", "sleep"} => runner[job[s]] # "new"
    /\ thread[s] \in {"put", "clear"} => runner[job[s]] = "dead"
    /\ thread[s] = "clear" => job[s] \in Elements(finishedJobs[s])
    /\ thread[s] \in {"handler", "dead"} /\ runningJob[s] # NoJob =>
         /\ runningJob[s] = job[s]
         /\ phase[job[s]] = "accepted" /\ owner[job[s]] = s

LateTakeInv ==
  \A s \in Scheduler :
    /\ lateTakes[s] <= 1
    /\ lateTakes[s] # 0 => \/ thread[s] \in {"handler", "dead"}
                           \/ interrupted[s] /\ thread[s] # "await"

InfoInv ==
  /\ info.at # "idle" => info.of \in Scheduler
  /\ info.at # "idle" /\ info.running \in Job =>
       /\ phase[info.running] = "accepted"
       /\ info.running \notin Elements(jobQueue[info.of])
       /\ info.running \notin Elements(info.waiting) \cup {info.next}
  /\ info.next \in Job => phase[info.next] = "accepted"
  /\ info.at # "idle" => \A j \in info.begun :
       j = info.running \/ j \in Elements(finishedJobs[info.of])
  /\ info.at \in {"collect", "done"} => \A j \in info.begun :
       j = info.running \/ j \in Elements(info.finished)

\* The inductive invariant: the type invariant, where each job can be at each
\* place of the scheduler thread, and the claims that are part of it.
IInv ==
  /\ TypeOK
  /\ RunnerInv
  /\ IdInv
  /\ QueueInv
  /\ FinishedInv
  /\ ThreadInv
  /\ NothingLost
  /\ OrphanIsSignalled
  /\ LateTakeInv
  /\ InfoInv
=============================================================================
