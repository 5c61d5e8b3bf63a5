------------------------------ MODULE JobQueue ------------------------------
(***************************************************************************)
(* What a RingBearer job scheduler promises to the people who submit jobs  *)
(* to it, with no threads, flags or snapshots: jobs wait in one line, one  *)
(* job at a time is active, the script of a job is executed at most once   *)
(* and only while the job is active, and a job is reported as finished     *)
(* after its script has ended, in the order of the line.  JobScheduler.tla *)
(* is shown to implement this for each of its schedulers.                  *)
(***************************************************************************)
EXTENDS Naturals, Sequences

CONSTANTS Job,      \* the jobs that can be submitted
          NoJob     \* not a job: the value of "no job is active"

VARIABLES waiting,   \* the line of jobs that have not been started
          active,    \* the job being worked on, or NoJob
          executed,  \* the jobs whose script has ended
          done       \* the jobs reported as finished, in order of completion

queueVars == <<waiting, active, executed, done>>

Elements(s) == { s[i] : i \in DOMAIN s }

QueueInit ==
  /\ waiting = <<>>
  /\ active = NoJob
  /\ executed = {}
  /\ done = <<>>

Accept(j) ==
  /\ j \notin Elements(waiting) \cup Elements(done) \cup executed \cup {active}
  /\ waiting' = Append(waiting, j)
  /\ UNCHANGED <<active, executed, done>>

Begin ==
  /\ active = NoJob
  /\ waiting # <<>>
  /\ active' = Head(waiting)
  /\ waiting' = Tail(waiting)
  /\ UNCHANGED <<executed, done>>

Execute ==
  /\ active \in Job \ executed
  /\ executed' = executed \cup {active}
  /\ UNCHANGED <<waiting, active, done>>

Complete ==
  /\ active \in executed
  /\ done' = Append(done, active)
  /\ active' = NoJob
  /\ UNCHANGED <<waiting, executed>>

QueueNext ==
  \/ \E j \in Job : Accept(j)
  \/ Begin
  \/ Execute
  \/ Complete

QueueSpec == QueueInit /\ [][QueueNext]_queueVars
=============================================================================
