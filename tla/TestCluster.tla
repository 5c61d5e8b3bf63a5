----------------------------- MODULE TestCluster -----------------------------
(***************************************************************************)
(* A test cluster in use: the deployment scripts install and remove the    *)
(* RingBearer module (and all it needs), the test scripts submit jobs to   *)
(* it, and its scheduler, which is taken here as the job queue that        *)
(* JobScheduler implements, runs them.  Installing the module starts an    *)
(* empty scheduler; removing it stops the scheduler, whose jobs nobody     *)
(* hears of again, finished or not.                                        *)
(***************************************************************************)
EXTENDS ClusterDeploy, SubmitCommand

CONSTANT Tested   \* bound: the deployments that test scripts are run on

VARIABLES
  waiting, active, executed, done, \* the job queue of the RingBearer service
  lost                             \* the jobs it knew of when it was removed

queue == <<waiting, active, executed, done>>
testVars == <<deployVars, submitVars, queue, lost>>

Q == INSTANCE JobQueue WITH Job <- Request, NoJob <- Nothing

TestInit == DeployInit /\ SubmitInit /\ Q!QueueInit /\ lost = {}

\* The service is there for a command with --member-role ringbearer.
Serving == Running("RingBearer") \cap WithRole(script, "ringbearer") # {}

Known == Q!Elements(waiting) \cup ({active} \ {Nothing}) \cup Q!Elements(done)

\* Bug: the service that is started again goes on with its old scheduler.
DropQueue_Keep == UNCHANGED queue /\ lost' = lost \cup Known

\* stop() of the service; the next start() makes a new scheduler.
DropQueue ==
  /\ waiting' = <<>> /\ active' = Nothing /\ executed' = {} /\ done' = <<>>
  /\ lost' = lost \cup Known

Deploy ==
  /\ DeployNext
  /\ IF Serving /\ ~Serving' THEN DropQueue ELSE UNCHANGED <<queue, lost>>
  /\ UNCHANGED submitVars

\* A test script is run when the deployment has been.
Submit(r) ==
  /\ Execute(r)
  /\ pc[r] = "new" => script \in Tested /\ todo = <<>> /\ last = "install"
  /\ UNCHANGED <<deployVars, queue, lost>>

Accept(r) ==
  /\ Serving
  /\ Answer(r)
  /\ Q!Accept(r)
  /\ UNCHANGED <<deployVars, lost>>

Reject(r) ==
  /\ ~Serving
  /\ Refuse(r)
  /\ UNCHANGED <<deployVars, queue, lost>>

Miss(r) == TimeOut(r) /\ UNCHANGED <<deployVars, queue, lost>>

Run ==
  /\ Serving
  /\ Q!Begin \/ Q!Execute \/ Q!Complete
  /\ UNCHANGED <<deployVars, submitVars, lost>>

TestNext ==
  \/ Deploy
  \/ \E r \in Request : Submit(r) \/ Accept(r) \/ Reject(r) \/ Miss(r)
  \/ Run

TestSpec == TestInit /\ [][TestNext]_testVars

-----------------------------------------------------------------------------
(* Properties                                                              *)

\* What is in the queue, finished first.
Line == done \o (IF active = Nothing THEN <<>> ELSE <<active>>) \o waiting

\* A test script's jobs are run in the order of the script, and without a
\* gap: whatever runs, waits or has run, all the jobs before it in its script
\* are before it in the queue, unless the queue they were in was removed.
ScriptOrder ==
  \A c \in Client : \A i \in DOMAIN Calls[c] : \A k \in DOMAIN Line :
    Line[k] = Calls[c][i] =>
      \A h \in 1 .. i - 1 :
        \/ \E l \in 1 .. k - 1 : Line[l] = Calls[c][h]
        \/ Calls[c][h] \in lost

\* One call, one job: a request is in the queue once if its client was told
\* true, or would have been had it waited longer, and never else; what the
\* RingBearer was removed with is all that is missing.
TrueIsKept ==
  /\ \A k, l \in DOMAIN Line : Line[k] = Line[l] => k = l
  /\ Q!Elements(Line) \cap lost = {}
  /\ Q!Elements(Line) \cup lost = {r \in Request : pc[r] \in {"true", "late"}}
=============================================================================
