------------------------- MODULE JobSchedulerProofs -------------------------
(***************************************************************************)
(* Safety of JobScheduler for every set of jobs and of schedulers.  The    *)
(* argument is the inductive invariant IInv below; its parts say where a   *)
(* job is at each place of the scheduler thread, and that ids are not      *)
(* shared.                                                                 *)
(***************************************************************************)
EXTENDS JobScheduler, SequenceTheorems, FiniteSetTheorems, TLAPS

-----------------------------------------------------------------------------
(* Sequences                                                               *)

\* What offer() does to the elements of a queue without repetition.
LEMMA AppendElements ==
  ASSUME NEW S, NEW q \in Seq(S), NEW x \in S
  PROVE  /\ Append(q, x) \in Seq(S)
         /\ Elements(Append(q, x)) = Elements(q) \cup {x}
         /\ NoRepeat(q) /\ x \notin Elements(q) => NoRepeat(Append(q, x))
<1>1. /\ Append(q, x) \in Seq(S)
      /\ DOMAIN Append(q, x) = 1 .. Len(q) + 1
      /\ DOMAIN q = 1 .. Len(q)
      /\ Len(q) \in Nat
      /\ \A i \in 1 .. Len(q) : Append(q, x)[i] = q[i]
      /\ Append(q, x)[Len(q) + 1] = x
  OBVIOUS
<1>2. Elements(Append(q, x)) = Elements(q) \cup {x}
  <2>1. ASSUME NEW y \in Elements(Append(q, x))
        PROVE  y \in Elements(q) \cup {x}
    <3>1. PICK i \in 1 .. Len(q) + 1 : Append(q, x)[i] = y
      BY <1>1 DEF Elements
    <3>2. CASE i = Len(q) + 1
      BY <1>1, <3>1, <3>2
    <3>3. CASE i \in 1 .. Len(q)
      BY <1>1, <3>1, <3>3 DEF Elements
    <3>4. QED
      BY <1>1, <3>2, <3>3
  <2>2. ASSUME NEW y \in Elements(q) \cup {x}
        PROVE  y \in Elements(Append(q, x))
    <3>1. CASE y = x
      <4>1. Len(q) + 1 \in DOMAIN Append(q, x)
        BY <1>1
      <4>2. QED
        BY <1>1, <4>1, <3>1 DEF Elements
    <3>2. CASE y \in Elements(q)
      <4>1. PICK i \in 1 .. Len(q) : q[i] = y
        BY <1>1, <3>2 DEF Elements
      <4>2. i \in DOMAIN Append(q, x)
        BY <1>1
      <4>3. QED
        BY <1>1, <4>1, <4>2 DEF Elements
    <3>3. QED
      BY <3>1, <3>2
  <2>3. QED
    BY <2>1, <2>2
<1>3. ASSUME NoRepeat(q), x \notin Elements(q)
      PROVE  NoRepeat(Append(q, x))
  <2>1. \A i \in 1 .. Len(q) : q[i] # x
    BY <1>1, <1>3 DEF Elements
  <2>2. QED
    BY <1>1, <1>3, <2>1 DEF NoRepeat
<1>4. QED
  BY <1>1, <1>2, <1>3

\* What take() does to the elements of a queue without repetition.
LEMMA TailElements ==
  ASSUME NEW S, NEW q \in Seq(S), q # <<>>, NoRepeat(q)
  PROVE  /\ Head(q) \in S
         /\ Tail(q) \in Seq(S)
         /\ Head(q) \in Elements(q)
         /\ Elements(Tail(q)) = Elements(q) \ {Head(q)}
         /\ NoRepeat(Tail(q))
<1>1. /\ Head(q) \in S
      /\ Tail(q) \in Seq(S)
      /\ Len(q) \in Nat \ {0}
      /\ DOMAIN q = 1 .. Len(q)
      /\ Head(q) = q[1]
      /\ DOMAIN Tail(q) = 1 .. Len(q) - 1
      /\ \A i \in 1 .. Len(q) - 1 : Tail(q)[i] = q[i + 1]
  OBVIOUS
<1>2. Head(q) \in Elements(q)
  <2>1. 1 \in DOMAIN q
    BY <1>1
  <2>2. QED
    BY <1>1, <2>1 DEF Elements
<1>3. Elements(Tail(q)) = Elements(q) \ {Head(q)}
  <2>1. ASSUME NEW y \in Elements(Tail(q))
        PROVE  y \in Elements(q) \ {Head(q)}
    <3>1. PICK i \in 1 .. Len(q) - 1 : y = q[i + 1]
      BY <1>1 DEF Elements
    <3>2. i + 1 \in DOMAIN q /\ i + 1 # 1 /\ 1 \in DOMAIN q
      BY <1>1
    <3>3. QED
      BY <1>1, <3>1, <3>2 DEF Elements, NoRepeat
  <2>2. ASSUME NEW y \in Elements(q) \ {Head(q)}
        PROVE  y \in Elements(Tail(q))
    <3>1. PICK i \in 1 .. Len(q) : y = q[i]
      BY <1>1 DEF Elements
    <3>2. i # 1
      BY <1>1, <3>1
    <3>3. i - 1 \in 1 .. Len(q) - 1 /\ (i - 1) + 1 = i
      BY <1>1, <3>2
    <3>4. Tail(q)[i - 1] = y /\ i - 1 \in DOMAIN Tail(q)
      BY <1>1, <3>1, <3>3
    <3>5. QED
      BY <3>4 DEF Elements
  <2>3. QED
    BY <2>1, <2>2
<1>4. NoRepeat(Tail(q))
  <2>1. SUFFICES ASSUME NEW a \in 1 .. Len(q) - 1, NEW b \in 1 .. Len(q) - 1,
                        q[a + 1] = q[b + 1]
                 PROVE  a = b
    BY <1>1 DEF NoRepeat
  <2>2. a + 1 \in DOMAIN q /\ b + 1 \in DOMAIN q
    BY <1>1
  <2>3. a + 1 = b + 1
    BY <2>1, <2>2 DEF NoRepeat
  <2>4. QED
    BY <2>3
<1>5. QED
  BY <1>1, <1>2, <1>3, <1>4

\* Where the iterator of a queue without repetition goes from job j.
LEMMA NextNodeFacts ==
  ASSUME NEW q \in Seq(Job), NoRepeat(q), NEW j
  PROVE  /\ First(q) \in Elements(q) \cup {NoJob}
         /\ NextNode(q, j) \in Elements(q) \cup {NoJob}
         /\ q # <<>> => 1 \in DOMAIN q /\ First(q) = q[1]
         /\ j \notin Elements(q) => NextNode(q, j) = First(q)
         /\ \A i \in DOMAIN q : q[i] = j =>
              /\ i = Len(q) => NextNode(q, j) = NoJob
              /\ i < Len(q) => i + 1 \in DOMAIN q /\ NextNode(q, j) = q[i + 1]
<1>1. DOMAIN q = 1 .. Len(q) /\ Len(q) \in Nat
  OBVIOUS
<1>2. q # <<>> => 1 \in DOMAIN q /\ First(q) = q[1]
  BY <1>1 DEF First
<1>3. First(q) \in Elements(q) \cup {NoJob}
  BY <1>2 DEF First, Elements
<1>4. j \notin Elements(q) => NextNode(q, j) = First(q)
  BY DEF NextNode
<1>5. ASSUME NEW i \in DOMAIN q, q[i] = j
      PROVE  /\ i = Len(q) => NextNode(q, j) = NoJob
             /\ i < Len(q) => i + 1 \in DOMAIN q /\ NextNode(q, j) = q[i + 1]
  <2>1. (CHOOSE k \in DOMAIN q : q[k] = j) = i
    BY <1>5 DEF NoRepeat
  <2>2. j \in Elements(q)
    BY <1>5 DEF Elements
  <2> DEFINE c == CHOOSE k \in DOMAIN q : q[k] = j
  <2>3. NextNode(q, j) = IF c = Len(q) THEN NoJob ELSE q[c + 1]
    BY <2>2 DEF NextNode
  <2> HIDE DEF c
  <2>4. c = i
    BY <2>1 DEF c
  <2> QED
    BY <1>1, <2>3, <2>4
<1>6. NextNode(q, j) \in Elements(q) \cup {NoJob}
  <2>1. CASE j \notin Elements(q)
    BY <1>3, <1>4, <2>1
  <2>2. CASE j \in Elements(q)
    <3>1. PICK i \in DOMAIN q : q[i] = j
      BY <2>2 DEF Elements
    <3>2. i = Len(q) \/ i < Len(q)
      BY <1>1
    <3> QED
      BY <1>5, <3>1, <3>2 DEF Elements
  <2> QED
    BY <2>1, <2>2
<1> QED
  BY <1>2, <1>3, <1>4, <1>5, <1>6

\* finishedJobs.put under a new id appends to the list of values.
LEMMA PutFreshId ==
  ASSUME NEW q \in Seq(Job), NEW j \in Job,
         \A k \in Elements(q) : id[k] # id[j]
  PROVE  Put(q, j) = Append(q, j)
BY DEF Put, Elements

\* Whatever put does, the values stay jobs.
LEMMA PutType ==
  ASSUME NEW q \in Seq(Job), NEW j \in Job
  PROVE  Put(q, j) \in Seq(Job)
<1>1. CASE \E i \in DOMAIN q : id[q[i]] = id[j]
  <2>1. /\ Len(q) \in Nat
        /\ DOMAIN q = 1 .. Len(q)
        /\ \A i \in 1 .. Len(q) : q[i] \in Job
    OBVIOUS
  <2>2. Put(q, j) \in [1 .. Len(q) -> Job]
    BY <1>1, <2>1 DEF Put
  <2>3. QED
    BY <2>1, <2>2, IsASeq
<1>2. CASE ~ \E i \in DOMAIN q : id[q[i]] = id[j]
  BY <1>2 DEF Put
<1>3. QED
  BY <1>1, <1>2

-----------------------------------------------------------------------------
(* Types                                                                   *)

\* What getInfo() starts from has its type.
LEMMA NoInfoType == NoInfo \in InfoType
<1>1. <<>> \in Seq(Job)
  OBVIOUS
<1> QED
  BY <1>1 DEF NoInfo, InfoType

\* The types hold at the start.
LEMMA InitTypeOK == Init => TypeOK
  BY NoInfoType DEF Init, TypeOK

\* Every step of every thread keeps the types.
LEMMA NextTypeOK ==
  TypeOK /\ QueueInv /\ ThreadInv /\ InfoInv /\ [Next]_vars => TypeOK'
<1> SUFFICES ASSUME TypeOK, QueueInv, ThreadInv, InfoInv, [Next]_vars PROVE TypeOK'
  OBVIOUS
<1> USE SchedulerAssumption
    DEF TypeOK, serviceVars, schedulerVars, clientVars, runnerVars
<1>1. ASSUME NEW s \in Scheduler, ServiceStart(s) PROVE TypeOK'
  BY <1>1 DEF ServiceStart, Goto
<1>2. ASSUME NEW s \in Scheduler, TakeEnter(s) PROVE TypeOK'
  BY <1>2 DEF TakeEnter, Goto
<1>3. ASSUME NEW s \in Scheduler, TakeJob(s) PROVE TypeOK'
  <2>1. Head(jobQueue[s]) \in Job /\ Tail(jobQueue[s]) \in Seq(Job)
    <3>1. PICK q \in Seq(Job) : q = jobQueue[s]
      OBVIOUS
    <3>2. q # <<>>
      BY <1>3, <3>1 DEF TakeJob
    <3> HIDE DEF TypeOK
    <3>3. Head(q) \in Job /\ Tail(q) \in Seq(Job)
      BY <3>2
    <3> QED
      BY <3>1, <3>3
  <2>2. jobQueue' \in [Scheduler -> Seq(Job)]
    BY <1>3, <2>1 DEF TakeJob
  <2>3. /\ job' \in [Scheduler -> Job \cup {NoJob}]
        /\ lateTakes' \in [Scheduler -> Nat]
    BY <1>3, <2>1 DEF TakeJob
  <2>4. QED
    BY <1>3, <2>2, <2>3 DEF TakeJob, Goto
<1>4. ASSUME NEW s \in Scheduler, SetRunning(s) PROVE TypeOK'
  BY <1>4 DEF SetRunning, Goto
<1>5. ASSUME NEW s \in Scheduler, StartRunner(s) PROVE TypeOK'
  BY <1>5 DEF StartRunner, Goto
<1>6. ASSUME NEW s \in Scheduler, Poll(s) PROVE TypeOK'
  BY <1>6 DEF Poll, Goto
<1>7. ASSUME NEW s \in Scheduler, WakeUp(s) PROVE TypeOK'
  BY <1>7 DEF WakeUp, Goto
<1>8. ASSUME NEW s \in Scheduler, PutFinished(s) PROVE TypeOK'
  <2>1. runningJob[s] \in Job
    BY <1>8 DEF PutFinished, Goto, ThreadInv
  <2>2. Put(finishedJobs[s], runningJob[s]) \in Seq(Job)
    BY <2>1, PutType
  <2>3. QED
    BY <1>8, <2>2 DEF PutFinished, Goto
<1>9. ASSUME NEW s \in Scheduler, ClearRunning(s) PROVE TypeOK'
  BY <1>9 DEF ClearRunning, Goto
<1>10. ASSUME NEW s \in Scheduler, Interrupt(s) PROVE TypeOK'
  BY <1>10 DEF Interrupt, Goto
<1>11. ASSUME NEW s \in Scheduler, HandleInterrupt(s) PROVE TypeOK'
  BY <1>11 DEF HandleInterrupt, Goto
<1>12. ASSUME NEW j \in Job, SubmitRejected(j) PROVE TypeOK'
  BY <1>12 DEF SubmitRejected
<1>13. ASSUME NEW j \in Job, SubmitSetId(j) PROVE TypeOK'
  BY <1>13 DEF SubmitSetId
<1>14. ASSUME NEW j \in Job, SubmitOffer(j) PROVE TypeOK'
  <2>1. \A s \in Scheduler : Append(jobQueue[s], j) \in Seq(Job)
    OBVIOUS
  <2>2. jobQueue' \in [Scheduler -> Seq(Job)]
    BY <1>14, <2>1 DEF SubmitOffer
  <2>3. phase' \in [Job -> {"new", "rejected", "numbered", "accepted"}]
    BY <1>14 DEF SubmitOffer
  <2>4. QED
    BY <1>14, <2>2, <2>3 DEF SubmitOffer
<1>15. ASSUME NEW j \in Job, RunScript(j) PROVE TypeOK'
  BY <1>15 DEF RunScript
<1>26. ASSUME NEW j \in Job, ShellFails(j) PROVE TypeOK'
  BY <1>26 DEF ShellFails
<1>16. ASSUME NEW j \in Job, CloseShell(j) PROVE TypeOK'
  BY <1>16 DEF CloseShell
<1>17. CASE ServiceStop
  BY <1>17 DEF ServiceStop
<1>18. CASE InfoRunning
  <2>1. /\ runningJob[jobScheduler] \in Job \cup {NoJob}
        /\ Accepted(jobScheduler) \in SUBSET Job
        /\ Begun(jobScheduler) \in SUBSET Job
    BY <1>18 DEF InfoRunning, Accepted, Begun
  <2>2. info' = [at |-> "waiting", of |-> jobScheduler,
                 running |-> runningJob[jobScheduler], next |-> NoJob,
                 waiting |-> <<>>, finished |-> <<>>,
                 known |-> Accepted(jobScheduler),
                 begun |-> Begun(jobScheduler)]
    BY <1>18 DEF InfoRunning, NoInfo
  <2>3. jobScheduler \in Scheduler /\ <<>> \in Seq(Job)
    BY <1>18 DEF InfoRunning
  <2>4. info' \in InfoType
    BY <2>1, <2>2, <2>3 DEF InfoType
  <2>5. QED
    BY <1>18, <2>4 DEF InfoRunning
<1>19. CASE InfoWaiting
  <2>1. info.of \in Scheduler
    BY <1>19 DEF InfoWaiting, InfoInv
  <2>2. First(jobQueue[info.of]) \in Job \cup {NoJob}
    BY <2>1 DEF First
  <2>3. info' \in InfoType
    BY <1>19, <2>1, <2>2 DEF InfoWaiting, InfoType
  <2>4. QED
    BY <1>19, <2>3 DEF InfoWaiting
<1>25. CASE InfoNext
  <2>0. info.of \in Scheduler
    BY <1>25 DEF InfoNext, InfoInv
  <2>1. PICK q \in Seq(Job) : q = jobQueue[info.of] /\ NoRepeat(q)
    <3>1. jobQueue[info.of] \in Seq(Job) /\ NoRepeat(jobQueue[info.of])
      BY <2>0 DEF QueueInv
    <3> QED
      BY <3>1
  <2>2. NextNode(q, info.next) \in Elements(q) \cup {NoJob}
    BY <2>1, NextNodeFacts
  <2>3. NextNode(q, info.next) \in Job \cup {NoJob}
    BY <2>2 DEF Elements
  <2>4. Append(info.waiting, info.next) \in Seq(Job)
    BY <1>25 DEF InfoNext, InfoType
  <2>5. info' \in InfoType
    BY <1>25, <2>1, <2>3, <2>4 DEF InfoNext, InfoType
  <2>6. QED
    BY <1>25, <2>5 DEF InfoNext
<1>20. CASE InfoIterate
  <2>1. info.of \in Scheduler
    BY <1>20 DEF InfoIterate, InfoInv
  <2>2. info' \in InfoType
    BY <1>20, <2>1 DEF InfoIterate, InfoType
  <2>3. QED
    BY <1>20, <2>2 DEF InfoIterate
<1>21. CASE InfoCollect
  BY <1>21 DEF InfoCollect, InfoType
<1>22. CASE InfoFailed \/ InfoReturned
  <2>1. info' \in InfoType
    BY <1>22, NoInfoType DEF InfoFailed, InfoReturned
  <2> QED
    BY <1>22, <2>1 DEF InfoFailed, InfoReturned
<1>24. CASE UNCHANGED vars
  BY <1>24 DEF vars
<1> QED
  BY <1>1, <1>2, <1>3, <1>4, <1>5, <1>6, <1>7, <1>8, <1>9, <1>10, <1>11, <1>12,
     <1>13, <1>14, <1>15, <1>16, <1>17, <1>18, <1>19, <1>20, <1>21, <1>22,
     <1>24, <1>25, <1>26 DEF Next, ServiceNext, SchedulerThread, Submit, Runner, GetInfo

\* In a state of the inductive invariant a put never replaces an entry.
LEMMA PutIsAppend ==
  ASSUME IInv, NEW s \in Scheduler, thread[s] = "put"
  PROVE  Put(finishedJobs[s], runningJob[s])
           = Append(finishedJobs[s], runningJob[s])
<1> DEFINE r == runningJob[s]
<1>1. /\ r \in Job /\ phase[r] = "accepted" /\ owner[r] = s
      /\ Active(s) = r /\ finishedJobs[s] \in Seq(Job)
  BY DEF IInv, TypeOK, ThreadInv, Active
<1>2. ASSUME NEW k \in Elements(finishedJobs[s]), id[k] = id[r]
      PROVE  FALSE
  <2>1. k \in Job
    BY <1>1, <1>2 DEF Elements
  <2>2. phase[k] = "accepted" /\ owner[k] = s /\ k # r
    BY <1>1, <1>2 DEF IInv, FinishedInv
  <2>3. QED
    BY <1>1, <1>2, <2>1, <2>2 DEF IInv, IdInv, Submitted
<1>3. QED
  BY <1>1, <1>2, PutFreshId

\* A step that moves no job keeps NothingLost.
LEMMA NothingLostFrame ==
  ASSUME RunnerInv, NothingLost,
         jobQueue' = jobQueue, finishedJobs' = finishedJobs,
         \A k \in Job : phase'[k] = "accepted" =>
           phase[k] = "accepted" /\ owner'[k] = owner[k],
         \A t \in Scheduler : Active(t)' = Active(t)
  PROVE  NothingLost'
<1>1. SUFFICES ASSUME NEW j \in Job, phase'[j] = "accepted",
                      NEW o \in Scheduler, o = owner[j]
               PROVE  \/ j \in Elements(jobQueue[o])
                      \/ j = Active(o)'
                      \/ j \in Elements(finishedJobs[o])
  BY DEF NothingLost, RunnerInv, Submitted, Active, Elements
<1>2. QED
  BY <1>1 DEF NothingLost

\* The running and the active job of a scheduler were accepted by it.
LEMMA RunningIsAccepted ==
  ASSUME TypeOK, ThreadInv, NEW s \in Scheduler
  PROVE  /\ runningJob[s] # NoJob =>
              /\ runningJob[s] \in Job
              /\ phase[runningJob[s]] = "accepted"
              /\ owner[runningJob[s]] = s
         /\ Active(s) # NoJob =>
              /\ Active(s) \in Job
              /\ phase[Active(s)] = "accepted"
              /\ owner[Active(s)] = s
<1>1. runningJob[s] # NoJob =>
        /\ runningJob[s] \in Job
        /\ phase[runningJob[s]] = "accepted"
        /\ owner[runningJob[s]] = s
  <2>1. SUFFICES ASSUME runningJob[s] # NoJob
                 PROVE  /\ runningJob[s] \in Job
                        /\ phase[runningJob[s]] = "accepted"
                        /\ owner[runningJob[s]] = s
    OBVIOUS
  <2>2. runningJob[s] \in Job
    BY <2>1 DEF TypeOK
  <2>3. thread[s] \in {"start", "poll", "sleep", "put", "clear",
                       "handler", "dead"}
    BY <2>1 DEF TypeOK, ThreadInv
  <2>4. QED
    BY <2>1, <2>2, <2>3 DEF ThreadInv
<1>2. CASE thread[s] = "took"
  BY <1>1, <1>2 DEF ThreadInv, Active
<1>3. CASE thread[s] # "took"
  BY <1>1, <1>3, SchedulerAssumption DEF Active
<1>4. QED
  BY <1>1, <1>2, <1>3

\* A step that moves no job and leaves getInfo() alone keeps InfoInv.
LEMMA InfoFrame ==
  ASSUME InfoInv, info' = info, jobQueue' = jobQueue,
         finishedJobs' = finishedJobs,
         \A j \in Job : phase[j] = "accepted" => phase'[j] = "accepted"
  PROVE  InfoInv'
BY DEF InfoInv, Elements

-----------------------------------------------------------------------------
(* The inductive invariant                                                 *)

\* Every step of every thread keeps the inductive invariant.
LEMMA NextIInv == IInv /\ [Next]_vars => IInv'
<1> SUFFICES ASSUME IInv, [Next]_vars PROVE IInv'
  OBVIOUS
<1>0. TypeOK /\ TypeOK'
  BY NextTypeOK DEF IInv
<1> USE SchedulerAssumption DEF serviceVars, schedulerVars, clientVars, runnerVars
<1>1. ASSUME NEW s \in Scheduler, ServiceStart(s) PROVE IInv'
  <2>1. RunnerInv' /\ IdInv' /\ OrphanIsSignalled' /\ LateTakeInv'
    <3>1. RunnerInv'
      BY <1>0, <1>1 DEF ServiceStart, Goto, IInv, TypeOK, RunnerInv, ThreadInv, Alive, Submitted
    <3>2. IdInv'
      BY <1>0, <1>1 DEF ServiceStart, Goto, IInv, TypeOK, IdInv, Submitted
    <3>3. OrphanIsSignalled'
      BY <1>0, <1>1 DEF ServiceStart, Goto, IInv, TypeOK, RunnerInv, OrphanIsSignalled,
             ThreadInv, Alive
    <3>4. LateTakeInv'
      BY <1>0, <1>1 DEF ServiceStart, Goto, IInv, TypeOK, RunnerInv, LateTakeInv, ThreadInv, Alive
    <3> QED
      BY <3>1, <3>2, <3>3, <3>4
  <2>2. QueueInv' /\ FinishedInv' /\ ThreadInv'
    <3>1. QueueInv'
      BY <1>0, <1>1 DEF ServiceStart, Goto, IInv, TypeOK, QueueInv, ThreadInv, RunnerInv,
             Active, Alive
    <3>2. FinishedInv'
      BY <1>0, <1>1 DEF ServiceStart, Goto, IInv, TypeOK, FinishedInv, ThreadInv, RunnerInv,
             Active, Alive
    <3>3. ThreadInv'
      BY <1>0, <1>1 DEF ServiceStart, Goto, IInv, TypeOK, ThreadInv, RunnerInv, Alive
    <3> QED
      BY <3>1, <3>2, <3>3
  <2>4. ASSUME NEW t \in Scheduler PROVE Active(t)' = Active(t)
    BY <1>0, <1>1 DEF ServiceStart, Goto, Active, IInv, TypeOK, ThreadInv
  <2>5. NothingLost'
    BY <1>0, <1>1, <2>4, NothingLostFrame DEF ServiceStart, IInv
  <2>6. InfoInv'
    BY <1>1, InfoFrame DEF ServiceStart, IInv
  <2>7. QED
    BY <1>0, <2>1, <2>2, <2>5, <2>6 DEF IInv
<1>2. ASSUME NEW s \in Scheduler, TakeEnter(s) PROVE IInv'
  <2>1. RunnerInv' /\ IdInv' /\ OrphanIsSignalled' /\ LateTakeInv'
    <3>1. RunnerInv'
      BY <1>0, <1>2 DEF TakeEnter, Goto, IInv, TypeOK, RunnerInv, ThreadInv, Alive, Submitted
    <3>2. IdInv'
      BY <1>0, <1>2 DEF TakeEnter, Goto, IInv, TypeOK, IdInv, Submitted
    <3>3. OrphanIsSignalled'
      BY <1>0, <1>2 DEF TakeEnter, Goto, IInv, TypeOK, RunnerInv, OrphanIsSignalled,
             ThreadInv, Alive
    <3>4. LateTakeInv'
      BY <1>0, <1>2 DEF TakeEnter, Goto, IInv, TypeOK, RunnerInv, LateTakeInv, ThreadInv, Alive
    <3> QED
      BY <3>1, <3>2, <3>3, <3>4
  <2>2. QueueInv' /\ FinishedInv' /\ ThreadInv'
    <3>1. QueueInv'
      BY <1>0, <1>2 DEF TakeEnter, Goto, IInv, TypeOK, QueueInv, ThreadInv, RunnerInv,
             Active, Alive
    <3>2. FinishedInv'
      BY <1>0, <1>2 DEF TakeEnter, Goto, IInv, TypeOK, FinishedInv, ThreadInv, RunnerInv,
             Active, Alive
    <3>3. ThreadInv'
      BY <1>0, <1>2 DEF TakeEnter, Goto, IInv, TypeOK, ThreadInv, RunnerInv, Alive
    <3> QED
      BY <3>1, <3>2, <3>3
  <2>4. ASSUME NEW t \in Scheduler PROVE Active(t)' = Active(t)
    BY <1>0, <1>2 DEF TakeEnter, Goto, Active, IInv, TypeOK, ThreadInv
  <2>5. NothingLost'
    BY <1>0, <1>2, <2>4, NothingLostFrame DEF TakeEnter, IInv
  <2>6. InfoInv'
    BY <1>2, InfoFrame DEF TakeEnter, IInv
  <2>7. QED
    BY <1>0, <2>1, <2>2, <2>5, <2>6 DEF IInv
<1>3. ASSUME NEW s \in Scheduler, TakeJob(s) PROVE IInv'
  <2>1. RunnerInv' /\ IdInv' /\ OrphanIsSignalled' /\ LateTakeInv'
    <3>1. RunnerInv'
      BY <1>0, <1>3 DEF TakeJob, Goto, IInv, TypeOK, RunnerInv, ThreadInv, Alive, Submitted
    <3>2. IdInv'
      BY <1>0, <1>3 DEF TakeJob, Goto, IInv, TypeOK, IdInv, Submitted
    <3>3. OrphanIsSignalled'
      BY <1>0, <1>3 DEF TakeJob, Goto, IInv, TypeOK, RunnerInv, OrphanIsSignalled,
             ThreadInv, Alive
    <3>4. LateTakeInv'
      BY <1>0, <1>3 DEF TakeJob, Goto, IInv, TypeOK, RunnerInv, LateTakeInv, ThreadInv, Alive
    <3> QED
      BY <3>1, <3>2, <3>3, <3>4
  <2> DEFINE h == Head(jobQueue[s])
  <2>2. /\ h \in Job
        /\ h \in Elements(jobQueue[s])
        /\ jobQueue'[s] = Tail(jobQueue[s])
        /\ Elements(jobQueue'[s]) = Elements(jobQueue[s]) \ {h}
        /\ NoRepeat(jobQueue'[s])
    BY <1>0, <1>3, TailElements DEF TakeJob, IInv, TypeOK, QueueInv
  <2>3. /\ phase[h] = "accepted" /\ owner[h] = s
        /\ runner[h] = "new"
    BY <2>2 DEF IInv, QueueInv
  <2>4. /\ thread[s] = "await" /\ thread'[s] = "took" /\ job'[s] = h
        /\ Active(s) = NoJob /\ Active(s)' = h
    BY <1>0, <1>3 DEF TakeJob, Goto, IInv, TypeOK, ThreadInv, Active
  <2>5. ASSUME NEW t \in Scheduler, t # s
        PROVE  /\ Active(t)' = Active(t) /\ jobQueue'[t] = jobQueue[t]
               /\ thread'[t] = thread[t] /\ job'[t] = job[t]
    BY <1>0, <1>3, <2>5 DEF TakeJob, Goto, TypeOK, Active
  <2>6. h \notin Elements(finishedJobs[s])
    BY <2>3 DEF IInv, FinishedInv
  <2>7. QueueInv'
    BY <1>3, <2>2, <2>4, <2>5 DEF TakeJob, IInv, QueueInv
  <2>8. FinishedInv'
    BY <1>3, <2>4, <2>5, <2>6 DEF TakeJob, IInv, FinishedInv
  <2>9. ThreadInv'
    BY <1>3, <2>2, <2>3, <2>4, <2>5 DEF TakeJob, IInv, ThreadInv
  <2>10. NothingLost'
    <3>1. SUFFICES ASSUME NEW j \in Job, phase[j] = "accepted"
                   PROVE  \/ j \in Elements(jobQueue'[owner[j]])
                          \/ j = Active(owner[j])'
                          \/ j \in Elements(finishedJobs[owner[j]])
      BY <1>3 DEF TakeJob, NothingLost, Elements
    <3>2. owner[j] \in Scheduler
      BY <3>1 DEF IInv, RunnerInv, Submitted
    <3>3. CASE owner[j] = s
      BY <1>3, <2>2, <2>4, <3>1, <3>3, SchedulerAssumption
         DEF TakeJob, IInv, NothingLost
    <3>4. CASE owner[j] # s
      <4>1. /\ Active(owner[j])' = Active(owner[j])
            /\ jobQueue'[owner[j]] = jobQueue[owner[j]]
        BY <1>3, <2>5, <3>2, <3>4 DEF TakeJob, Active
      <4>2. QED
        BY <3>1, <4>1 DEF IInv, NothingLost
    <3>5. QED
      BY <3>3, <3>4
  <2>11. InfoInv'
    <3>1. \A t \in Scheduler :
            Elements(jobQueue'[t]) \subseteq Elements(jobQueue[t])
      BY <2>2, <2>5
    <3>2. QED
      BY <1>3, <3>1 DEF TakeJob, IInv, InfoInv
  <2>12. QED
    BY <1>0, <2>1, <2>7, <2>8, <2>9, <2>10, <2>11 DEF IInv
<1>4. ASSUME NEW s \in Scheduler, SetRunning(s) PROVE IInv'
  <2>1. RunnerInv' /\ IdInv' /\ OrphanIsSignalled' /\ LateTakeInv'
    <3>1. RunnerInv'
      BY <1>0, <1>4 DEF SetRunning, Goto, IInv, TypeOK, RunnerInv, ThreadInv, Alive, Submitted
    <3>2. IdInv'
      BY <1>0, <1>4 DEF SetRunning, Goto, IInv, TypeOK, IdInv, Submitted
    <3>3. OrphanIsSignalled'
      BY <1>0, <1>4 DEF SetRunning, Goto, IInv, TypeOK, RunnerInv, OrphanIsSignalled,
             ThreadInv, Alive
    <3>4. LateTakeInv'
      BY <1>0, <1>4 DEF SetRunning, Goto, IInv, TypeOK, RunnerInv, LateTakeInv, ThreadInv, Alive
    <3> QED
      BY <3>1, <3>2, <3>3, <3>4
  <2>2. QueueInv' /\ FinishedInv' /\ ThreadInv'
    <3>1. QueueInv'
      BY <1>0, <1>4 DEF SetRunning, Goto, IInv, TypeOK, QueueInv, ThreadInv, RunnerInv,
             Active, Alive
    <3>2. FinishedInv'
      BY <1>0, <1>4 DEF SetRunning, Goto, IInv, TypeOK, FinishedInv, ThreadInv, RunnerInv,
             Active, Alive
    <3>3. ThreadInv'
      BY <1>0, <1>4 DEF SetRunning, Goto, IInv, TypeOK, ThreadInv, RunnerInv, Alive
    <3> QED
      BY <3>1, <3>2, <3>3
  <2>4. ASSUME NEW t \in Scheduler PROVE Active(t)' = Active(t)
    BY <1>0, <1>4 DEF SetRunning, Goto, Active, IInv, TypeOK, ThreadInv
  <2>5. NothingLost'
    BY <1>0, <1>4, <2>4, NothingLostFrame DEF SetRunning, IInv
  <2>6. InfoInv'
    BY <1>4, InfoFrame DEF SetRunning, IInv
  <2>7. QED
    BY <1>0, <2>1, <2>2, <2>5, <2>6 DEF IInv
<1>5. ASSUME NEW s \in Scheduler, StartRunner(s) PROVE IInv'
  <2>1. RunnerInv' /\ IdInv' /\ OrphanIsSignalled' /\ LateTakeInv'
    <3>1. RunnerInv'
      BY <1>0, <1>5 DEF StartRunner, Goto, IInv, TypeOK, RunnerInv, ThreadInv, Alive, Submitted
    <3>2. IdInv'
      BY <1>0, <1>5 DEF StartRunner, Goto, IInv, TypeOK, IdInv, Submitted
    <3>3. OrphanIsSignalled'
      BY <1>0, <1>5 DEF StartRunner, Goto, IInv, TypeOK, RunnerInv, OrphanIsSignalled,
             ThreadInv, Alive
    <3>4. LateTakeInv'
      BY <1>0, <1>5 DEF StartRunner, Goto, IInv, TypeOK, RunnerInv, LateTakeInv, ThreadInv, Alive
    <3> QED
      BY <3>1, <3>2, <3>3, <3>4
  <2>2. QueueInv' /\ FinishedInv' /\ ThreadInv'
    <3>1. QueueInv'
      BY <1>0, <1>5 DEF StartRunner, Goto, IInv, TypeOK, QueueInv, ThreadInv, RunnerInv,
             Active, Alive
    <3>2. FinishedInv'
      BY <1>0, <1>5 DEF StartRunner, Goto, IInv, TypeOK, FinishedInv, ThreadInv, RunnerInv,
             Active, Alive
    <3>3. ThreadInv'
      BY <1>0, <1>5 DEF StartRunner, Goto, IInv, TypeOK, ThreadInv, RunnerInv, Alive
    <3> QED
      BY <3>1, <3>2, <3>3
  <2>4. ASSUME NEW t \in Scheduler PROVE Active(t)' = Active(t)
    BY <1>0, <1>5 DEF StartRunner, Goto, Active, IInv, TypeOK, ThreadInv
  <2>5. NothingLost'
    BY <1>0, <1>5, <2>4, NothingLostFrame DEF StartRunner, IInv
  <2>6. InfoInv'
    BY <1>5, InfoFrame DEF StartRunner, IInv
  <2>7. QED
    BY <1>0, <2>1, <2>2, <2>5, <2>6 DEF IInv
<1>6. ASSUME NEW s \in Scheduler, Poll(s) PROVE IInv'
  <2>1. RunnerInv' /\ IdInv' /\ OrphanIsSignalled' /\ LateTakeInv'
    <3>1. RunnerInv'
      BY <1>0, <1>6 DEF Poll, Goto, IInv, TypeOK, RunnerInv, ThreadInv, Alive, Submitted
    <3>2. IdInv'
      BY <1>0, <1>6 DEF Poll, Goto, IInv, TypeOK, IdInv, Submitted
    <3>3. OrphanIsSignalled'
      BY <1>0, <1>6 DEF Poll, Goto, IInv, TypeOK, RunnerInv, OrphanIsSignalled,
             ThreadInv, Alive
    <3>4. LateTakeInv'
      BY <1>0, <1>6 DEF Poll, Goto, IInv, TypeOK, RunnerInv, LateTakeInv, ThreadInv, Alive
    <3> QED
      BY <3>1, <3>2, <3>3, <3>4
  <2>2. QueueInv' /\ FinishedInv' /\ ThreadInv'
    <3>1. QueueInv'
      BY <1>0, <1>6 DEF Poll, Goto, IInv, TypeOK, QueueInv, ThreadInv, RunnerInv,
             Active, Alive
    <3>2. FinishedInv'
      BY <1>0, <1>6 DEF Poll, Goto, IInv, TypeOK, FinishedInv, ThreadInv, RunnerInv,
             Active, Alive
    <3>3. ThreadInv'
      BY <1>0, <1>6 DEF Poll, Goto, IInv, TypeOK, ThreadInv, RunnerInv, Alive
    <3> QED
      BY <3>1, <3>2, <3>3
  <2>4. ASSUME NEW t \in Scheduler PROVE Active(t)' = Active(t)
    BY <1>0, <1>6 DEF Poll, Goto, Active, IInv, TypeOK, ThreadInv
  <2>5. NothingLost'
    BY <1>0, <1>6, <2>4, NothingLostFrame DEF Poll, IInv
  <2>6. InfoInv'
    BY <1>6, InfoFrame DEF Poll, IInv
  <2>7. QED
    BY <1>0, <2>1, <2>2, <2>5, <2>6 DEF IInv
<1>7. ASSUME NEW s \in Scheduler, WakeUp(s) PROVE IInv'
  <2>1. RunnerInv' /\ IdInv' /\ OrphanIsSignalled' /\ LateTakeInv'
    <3>1. RunnerInv'
      BY <1>0, <1>7 DEF WakeUp, Goto, IInv, TypeOK, RunnerInv, ThreadInv, Alive, Submitted
    <3>2. IdInv'
      BY <1>0, <1>7 DEF WakeUp, Goto, IInv, TypeOK, IdInv, Submitted
    <3>3. OrphanIsSignalled'
      BY <1>0, <1>7 DEF WakeUp, Goto, IInv, TypeOK, RunnerInv, OrphanIsSignalled,
             ThreadInv, Alive
    <3>4. LateTakeInv'
      BY <1>0, <1>7 DEF WakeUp, Goto, IInv, TypeOK, RunnerInv, LateTakeInv, ThreadInv, Alive
    <3> QED
      BY <3>1, <3>2, <3>3, <3>4
  <2>2. QueueInv' /\ FinishedInv' /\ ThreadInv'
    <3>1. QueueInv'
      BY <1>0, <1>7 DEF WakeUp, Goto, IInv, TypeOK, QueueInv, ThreadInv, RunnerInv,
             Active, Alive
    <3>2. FinishedInv'
      BY <1>0, <1>7 DEF WakeUp, Goto, IInv, TypeOK, FinishedInv, ThreadInv, RunnerInv,
             Active, Alive
    <3>3. ThreadInv'
      BY <1>0, <1>7 DEF WakeUp, Goto, IInv, TypeOK, ThreadInv, RunnerInv, Alive
    <3> QED
      BY <3>1, <3>2, <3>3
  <2>4. ASSUME NEW t \in Scheduler PROVE Active(t)' = Active(t)
    BY <1>0, <1>7 DEF WakeUp, Goto, Active, IInv, TypeOK, ThreadInv
  <2>5. NothingLost'
    BY <1>0, <1>7, <2>4, NothingLostFrame DEF WakeUp, IInv
  <2>6. InfoInv'
    BY <1>7, InfoFrame DEF WakeUp, IInv
  <2>7. QED
    BY <1>0, <2>1, <2>2, <2>5, <2>6 DEF IInv
<1>8. ASSUME NEW s \in Scheduler, PutFinished(s) PROVE IInv'
  <2>1. RunnerInv' /\ IdInv' /\ OrphanIsSignalled' /\ LateTakeInv'
    <3>1. RunnerInv'
      BY <1>0, <1>8 DEF PutFinished, Goto, IInv, TypeOK, RunnerInv, ThreadInv, Alive, Submitted
    <3>2. IdInv'
      BY <1>0, <1>8 DEF PutFinished, Goto, IInv, TypeOK, IdInv, Submitted
    <3>3. OrphanIsSignalled'
      BY <1>0, <1>8 DEF PutFinished, Goto, IInv, TypeOK, RunnerInv, OrphanIsSignalled,
             ThreadInv, Alive
    <3>4. LateTakeInv'
      BY <1>0, <1>8 DEF PutFinished, Goto, IInv, TypeOK, RunnerInv, LateTakeInv, ThreadInv, Alive
    <3> QED
      BY <3>1, <3>2, <3>3, <3>4
  <2> DEFINE r == runningJob[s]
  <2>2. /\ r \in Job /\ r = job[s] /\ thread[s] = "put"
        /\ phase[r] = "accepted" /\ owner[r] = s /\ runner[r] = "dead"
        /\ Active(s) = r
        /\ Active(s)' = NoJob /\ thread'[s] = "clear"
    BY <1>0, <1>8 DEF PutFinished, Goto, IInv, TypeOK, ThreadInv, Active
  <2>3. ASSUME NEW t \in Scheduler, t # s
        PROVE  /\ Active(t)' = Active(t) /\ thread'[t] = thread[t]
               /\ finishedJobs'[t] = finishedJobs[t]
    BY <1>0, <1>8, <2>3 DEF PutFinished, Goto, TypeOK, Active
  <2>5. /\ finishedJobs'[s] = Append(finishedJobs[s], r)
        /\ Elements(finishedJobs'[s]) = Elements(finishedJobs[s]) \cup {r}
    <3>1. finishedJobs[s] \in Seq(Job)
      BY <1>0 DEF TypeOK
    <3>2. finishedJobs'[s] = Put(finishedJobs[s], r)
      BY <1>0, <1>8 DEF PutFinished, TypeOK
    <3>3. Put(finishedJobs[s], r) = Append(finishedJobs[s], r)
      BY <2>2, PutIsAppend
    <3>4. Elements(Append(finishedJobs[s], r))
            = Elements(finishedJobs[s]) \cup {r}
      BY <2>2, <3>1, AppendElements
    <3>5. QED
      BY <3>2, <3>3, <3>4
  <2>6. QueueInv'
    BY <1>0, <1>8, <2>2, <2>3 DEF PutFinished, IInv, TypeOK, QueueInv, Elements
  <2>7. FinishedInv'
    <3>1. SUFFICES ASSUME NEW t \in Scheduler,
                          NEW k \in Elements(finishedJobs'[t])
                   PROVE  /\ phase[k] = "accepted" /\ owner[k] = t
                          /\ runner[k] = "dead" /\ k # Active(t)'
      BY <1>8 DEF PutFinished, FinishedInv
    <3>2. CASE t = s
      <4>1. k = r \/ k \in Elements(finishedJobs[s])
        BY <2>5, <3>1, <3>2
      <4>2. \A x \in Elements(finishedJobs[s]) : x \in Job
        BY <1>0 DEF TypeOK, Elements
      <4>3. k \in Job /\ Active(t)' = NoJob
        BY <2>2, <3>2, <4>1, <4>2
      <4>4. phase[k] = "accepted" /\ owner[k] = s /\ runner[k] = "dead"
        BY <2>2, <4>1 DEF IInv, FinishedInv
      <4>5. QED
        BY <3>2, <4>3, <4>4, SchedulerAssumption
    <3>3. CASE t # s
      BY <2>3, <3>1, <3>3 DEF IInv, FinishedInv
    <3>4. QED
      BY <3>2, <3>3
  <2>8. ThreadInv'
    BY <1>8, <2>2, <2>3, <2>5 DEF PutFinished, IInv, ThreadInv
  <2>9. NothingLost'
    <3>1. SUFFICES ASSUME NEW j \in Job, phase[j] = "accepted"
                   PROVE  \/ j \in Elements(jobQueue[owner[j]])
                          \/ j = Active(owner[j])'
                          \/ j \in Elements(finishedJobs'[owner[j]])
      BY <1>8 DEF PutFinished, NothingLost, Elements
    <3>2. owner[j] \in Scheduler
      BY <3>1 DEF IInv, RunnerInv, Submitted
    <3>3. CASE owner[j] = s
      BY <2>2, <2>5, <3>1, <3>3 DEF IInv, NothingLost
    <3>4. CASE owner[j] # s
      <4>1. /\ Active(owner[j])' = Active(owner[j])
            /\ finishedJobs'[owner[j]] = finishedJobs[owner[j]]
        BY <1>8, <2>3, <3>2, <3>4 DEF PutFinished, Active
      <4>2. QED
        BY <3>1, <4>1 DEF IInv, NothingLost
    <3>5. QED
      BY <3>3, <3>4
  <2>10. InfoInv'
    <3>1. \A t \in Scheduler :
            Elements(finishedJobs[t]) \subseteq Elements(finishedJobs'[t])
      BY <2>3, <2>5
    <3>2. QED
      BY <1>8, <3>1 DEF PutFinished, IInv, InfoInv
  <2>11. QED
    BY <1>0, <2>1, <2>6, <2>7, <2>8, <2>9, <2>10 DEF IInv
<1>9. ASSUME NEW s \in Scheduler, ClearRunning(s) PROVE IInv'
  <2>1. RunnerInv' /\ IdInv' /\ OrphanIsSignalled' /\ LateTakeInv'
    <3>1. RunnerInv'
      BY <1>0, <1>9 DEF ClearRunning, Goto, IInv, TypeOK, RunnerInv, ThreadInv, Alive, Submitted
    <3>2. IdInv'
      BY <1>0, <1>9 DEF ClearRunning, Goto, IInv, TypeOK, IdInv, Submitted
    <3>3. OrphanIsSignalled'
      BY <1>0, <1>9 DEF ClearRunning, Goto, IInv, TypeOK, RunnerInv, OrphanIsSignalled,
             ThreadInv, Alive
    <3>4. LateTakeInv'
      BY <1>0, <1>9 DEF ClearRunning, Goto, IInv, TypeOK, RunnerInv, LateTakeInv, ThreadInv, Alive
    <3> QED
      BY <3>1, <3>2, <3>3, <3>4
  <2>2. QueueInv' /\ FinishedInv' /\ ThreadInv'
    <3>1. QueueInv'
      BY <1>0, <1>9 DEF ClearRunning, Goto, IInv, TypeOK, QueueInv, ThreadInv, RunnerInv,
             Active, Alive
    <3>2. FinishedInv'
      BY <1>0, <1>9 DEF ClearRunning, Goto, IInv, TypeOK, FinishedInv, ThreadInv, RunnerInv,
             Active, Alive
    <3>3. ThreadInv'
      BY <1>0, <1>9 DEF ClearRunning, Goto, IInv, TypeOK, ThreadInv, RunnerInv, Alive
    <3> QED
      BY <3>1, <3>2, <3>3
  <2>4. ASSUME NEW t \in Scheduler PROVE Active(t)' = Active(t)
    BY <1>0, <1>9 DEF ClearRunning, Goto, Active, IInv, TypeOK, ThreadInv
  <2>5. NothingLost'
    BY <1>0, <1>9, <2>4, NothingLostFrame DEF ClearRunning, IInv
  <2>6. InfoInv'
    BY <1>9, InfoFrame DEF ClearRunning, IInv
  <2>7. QED
    BY <1>0, <2>1, <2>2, <2>5, <2>6 DEF IInv
<1>10. ASSUME NEW s \in Scheduler, Interrupt(s) PROVE IInv'
  <2>1. RunnerInv' /\ IdInv' /\ OrphanIsSignalled' /\ LateTakeInv'
    <3>1. RunnerInv'
      BY <1>0, <1>10 DEF Interrupt, Goto, IInv, TypeOK, RunnerInv, ThreadInv, Alive, Submitted
    <3>2. IdInv'
      BY <1>0, <1>10 DEF Interrupt, Goto, IInv, TypeOK, IdInv, Submitted
    <3>3. OrphanIsSignalled'
      BY <1>0, <1>10 DEF Interrupt, Goto, IInv, TypeOK, RunnerInv, OrphanIsSignalled,
             ThreadInv, Alive
    <3>4. LateTakeInv'
      BY <1>0, <1>10 DEF Interrupt, Goto, IInv, TypeOK, RunnerInv, LateTakeInv, ThreadInv, Alive
    <3> QED
      BY <3>1, <3>2, <3>3, <3>4
  <2>2. QueueInv' /\ FinishedInv' /\ ThreadInv'
    <3>1. QueueInv'
      BY <1>0, <1>10 DEF Interrupt, Goto, IInv, TypeOK, QueueInv, ThreadInv, RunnerInv,
             Active, Alive
    <3>2. FinishedInv'
      BY <1>0, <1>10 DEF Interrupt, Goto, IInv, TypeOK, FinishedInv, ThreadInv, RunnerInv,
             Active, Alive
    <3>3. ThreadInv'
      BY <1>0, <1>10 DEF Interrupt, Goto, IInv, TypeOK, ThreadInv, RunnerInv, Alive
    <3> QED
      BY <3>1, <3>2, <3>3
  <2>4. ASSUME NEW t \in Scheduler PROVE Active(t)' = Active(t)
    BY <1>0, <1>10 DEF Interrupt, Goto, Active, IInv, TypeOK, ThreadInv
  <2>5. NothingLost'
    BY <1>0, <1>10, <2>4, NothingLostFrame DEF Interrupt, IInv
  <2>6. InfoInv'
    BY <1>10, InfoFrame DEF Interrupt, IInv
  <2>7. QED
    BY <1>0, <2>1, <2>2, <2>5, <2>6 DEF IInv
<1>11. ASSUME NEW s \in Scheduler, HandleInterrupt(s) PROVE IInv'
  <2>1. RunnerInv' /\ IdInv' /\ OrphanIsSignalled' /\ LateTakeInv'
    <3>1. RunnerInv'
      BY <1>0, <1>11 DEF HandleInterrupt, Goto, IInv, TypeOK, RunnerInv, ThreadInv, Alive, Submitted
    <3>2. IdInv'
      BY <1>0, <1>11 DEF HandleInterrupt, Goto, IInv, TypeOK, IdInv, Submitted
    <3>3. OrphanIsSignalled'
      BY <1>0, <1>11 DEF HandleInterrupt, Goto, IInv, TypeOK, RunnerInv, OrphanIsSignalled,
             ThreadInv, Alive
    <3>4. LateTakeInv'
      BY <1>0, <1>11 DEF HandleInterrupt, Goto, IInv, TypeOK, RunnerInv, LateTakeInv, ThreadInv, Alive
    <3> QED
      BY <3>1, <3>2, <3>3, <3>4
  <2>2. QueueInv' /\ FinishedInv' /\ ThreadInv'
    <3>1. QueueInv'
      BY <1>0, <1>11 DEF HandleInterrupt, Goto, IInv, TypeOK, QueueInv, ThreadInv, RunnerInv,
             Active, Alive
    <3>2. FinishedInv'
      BY <1>0, <1>11 DEF HandleInterrupt, Goto, IInv, TypeOK, FinishedInv, ThreadInv, RunnerInv,
             Active, Alive
    <3>3. ThreadInv'
      BY <1>0, <1>11 DEF HandleInterrupt, Goto, IInv, TypeOK, ThreadInv, RunnerInv, Alive
    <3> QED
      BY <3>1, <3>2, <3>3
  <2>4. ASSUME NEW t \in Scheduler PROVE Active(t)' = Active(t)
    BY <1>0, <1>11 DEF HandleInterrupt, Goto, Active, IInv, TypeOK, ThreadInv
  <2>5. NothingLost'
    BY <1>0, <1>11, <2>4, NothingLostFrame DEF HandleInterrupt, IInv
  <2>6. InfoInv'
    BY <1>11, InfoFrame DEF HandleInterrupt, IInv
  <2>7. QED
    BY <1>0, <2>1, <2>2, <2>5, <2>6 DEF IInv
<1>12. ASSUME NEW j \in Job, SubmitRejected(j) PROVE IInv'
  <2>1. RunnerInv' /\ IdInv' /\ OrphanIsSignalled' /\ LateTakeInv'
    <3>1. RunnerInv'
      BY <1>0, <1>12 DEF SubmitRejected, IInv, TypeOK, RunnerInv, ThreadInv, Alive, Submitted
    <3>2. IdInv'
      BY <1>0, <1>12 DEF SubmitRejected, IInv, TypeOK, IdInv, Submitted
    <3>3. OrphanIsSignalled'
      BY <1>0, <1>12 DEF SubmitRejected, IInv, TypeOK, RunnerInv, OrphanIsSignalled,
             ThreadInv, Alive
    <3>4. LateTakeInv'
      BY <1>0, <1>12 DEF SubmitRejected, IInv, TypeOK, RunnerInv, LateTakeInv, ThreadInv, Alive
    <3> QED
      BY <3>1, <3>2, <3>3, <3>4
  <2>2. QueueInv' /\ FinishedInv' /\ ThreadInv'
    <3>1. QueueInv'
      BY <1>0, <1>12 DEF SubmitRejected, IInv, TypeOK, QueueInv, ThreadInv, RunnerInv,
             Active, Alive
    <3>2. FinishedInv'
      BY <1>0, <1>12 DEF SubmitRejected, IInv, TypeOK, FinishedInv, ThreadInv, RunnerInv,
             Active, Alive
    <3>3. ThreadInv'
      BY <1>0, <1>12 DEF SubmitRejected, IInv, TypeOK, ThreadInv, RunnerInv, Alive
    <3> QED
      BY <3>1, <3>2, <3>3
  <2>4. ASSUME NEW t \in Scheduler PROVE Active(t)' = Active(t)
    BY <1>0, <1>12 DEF SubmitRejected, Active, IInv, TypeOK, ThreadInv
  <2>5. NothingLost'
    BY <1>0, <1>12, <2>4, NothingLostFrame DEF SubmitRejected, IInv
  <2>6. InfoInv'
    BY <1>12, InfoFrame DEF SubmitRejected, IInv
  <2>7. QED
    BY <1>0, <2>1, <2>2, <2>5, <2>6 DEF IInv
<1>13. ASSUME NEW j \in Job, SubmitSetId(j) PROVE IInv'
  <2>1. RunnerInv' /\ IdInv' /\ LateTakeInv'
    <3>1. RunnerInv'
      BY <1>0, <1>13 DEF SubmitSetId, IInv, TypeOK, RunnerInv, Alive, Submitted
    <3>2. IdInv'
      BY <1>0, <1>13 DEF SubmitSetId, IInv, TypeOK, IdInv, Submitted
    <3>3. LateTakeInv'
      BY <1>0, <1>13 DEF SubmitSetId, IInv, TypeOK, LateTakeInv, Alive
    <3> QED
      BY <3>1, <3>2, <3>3
  <2>2. QueueInv' /\ FinishedInv' /\ ThreadInv'
    BY <1>0, <1>13 DEF SubmitSetId, IInv, TypeOK, QueueInv, FinishedInv,
           ThreadInv, Active
  <2>3. \A k \in Job : k # j => owner'[k] = owner[k] /\ phase'[k] = phase[k]
    BY <1>0, <1>13 DEF SubmitSetId, TypeOK
  <2>4. OrphanIsSignalled'
    <3>1. ~ Alive(j)
      BY <1>0, <1>13 DEF SubmitSetId, IInv, RunnerInv, Alive
    <3>2. QED
      BY <1>13, <2>3, <3>1 DEF SubmitSetId, IInv, OrphanIsSignalled, Alive
  <2>5. NothingLost'
    <3>1. SUFFICES ASSUME NEW k \in Job, phase'[k] = "accepted"
                   PROVE  \/ k \in Elements(jobQueue[owner'[k]])
                          \/ k = Active(owner[k])'
                          \/ k \in Elements(finishedJobs[owner'[k]])
      BY <1>13 DEF SubmitSetId, NothingLost, Elements
    <3>2. k # j
      BY <1>0, <1>13, <3>1 DEF SubmitSetId, TypeOK
    <3>3. Active(owner[k])' = Active(owner[k])
      BY <1>13, <2>3, <3>2 DEF SubmitSetId, Active
    <3>4. QED
      BY <2>3, <3>1, <3>2, <3>3 DEF IInv, NothingLost
  <2>6. InfoInv'
    BY <1>0, <1>13, InfoFrame DEF SubmitSetId, IInv, TypeOK
  <2>7. QED
    BY <1>0, <2>1, <2>2, <2>4, <2>5, <2>6 DEF IInv
<1>14. ASSUME NEW j \in Job, SubmitOffer(j) PROVE IInv'
  <2>1. RunnerInv' /\ IdInv' /\ OrphanIsSignalled' /\ LateTakeInv'
    BY <1>0, <1>14 DEF SubmitOffer, IInv, TypeOK, RunnerInv, IdInv,
           OrphanIsSignalled, LateTakeInv, Alive, Submitted
  <2>2. /\ owner[j] \in Scheduler /\ runner[j] = "new"
        /\ phase[j] = "numbered" /\ phase'[j] = "accepted"
    BY <1>0, <1>14 DEF SubmitOffer, IInv, TypeOK, RunnerInv, Submitted
  <2>3. ASSUME NEW t \in Scheduler PROVE Active(t)' = Active(t)
    BY <1>14 DEF SubmitOffer, Active
  <2>4. /\ j # Active(owner[j])
        /\ j \notin Elements(jobQueue[owner[j]])
    <3>1. j # NoJob
      BY SchedulerAssumption
    <3>2. QED
      BY <1>0, <2>2, <3>1, RunningIsAccepted DEF IInv, QueueInv
  <2>5. /\ Elements(jobQueue'[owner[j]])
             = Elements(jobQueue[owner[j]]) \cup {j}
        /\ NoRepeat(jobQueue'[owner[j]])
    <3>1. jobQueue[owner[j]] \in Seq(Job) /\ NoRepeat(jobQueue[owner[j]])
      BY <1>0, <2>2 DEF IInv, TypeOK, QueueInv
    <3>2. jobQueue'[owner[j]] = Append(jobQueue[owner[j]], j)
      BY <1>0, <1>14, <2>2 DEF SubmitOffer, TypeOK
    <3>3. QED
      BY <2>4, <3>1, <3>2, AppendElements
  <2>6. ASSUME NEW t \in Scheduler, t # owner[j]
        PROVE  jobQueue'[t] = jobQueue[t]
    BY <1>0, <1>14, <2>6 DEF SubmitOffer, TypeOK
  <2>7. \A k : k # j => phase'[k] = phase[k]
    BY <1>0, <1>14 DEF SubmitOffer, TypeOK
  <2>8. QueueInv'
    <3>1. SUFFICES ASSUME NEW t \in Scheduler
                   PROVE  /\ NoRepeat(jobQueue'[t])
                          /\ \A k \in Elements(jobQueue'[t]) :
                               /\ phase'[k] = "accepted" /\ owner[k] = t
                               /\ runner[k] = "new" /\ k # Active(t)'
      BY <1>14 DEF SubmitOffer, QueueInv
    <3>2. CASE t = owner[j]
      BY <2>2, <2>3, <2>4, <2>5, <2>7, <3>2 DEF IInv, QueueInv
    <3>3. CASE t # owner[j]
      BY <2>2, <2>3, <2>6, <2>7, <3>3 DEF IInv, QueueInv
    <3>4. QED
      BY <3>2, <3>3
  <2>9. FinishedInv' /\ ThreadInv'
    BY <1>0, <1>14, <2>2, <2>3, <2>7
       DEF SubmitOffer, IInv, TypeOK, FinishedInv, ThreadInv
  <2>10. NothingLost'
    <3>1. SUFFICES ASSUME NEW k \in Job, phase'[k] = "accepted"
                   PROVE  \/ k \in Elements(jobQueue'[owner[k]])
                          \/ k = Active(owner[k])'
                          \/ k \in Elements(finishedJobs[owner[k]])
      BY <1>14 DEF SubmitOffer, NothingLost, Elements
    <3>2. CASE k = j
      BY <2>5, <3>2
    <3>3. CASE k # j
      <4>1. phase[k] = "accepted" /\ owner[k] \in Scheduler
        BY <2>7, <3>1, <3>3 DEF IInv, RunnerInv, Submitted
      <4>2. /\ Active(owner[k])' = Active(owner[k])
            /\ Elements(jobQueue[owner[k]]) \subseteq Elements(jobQueue'[owner[k]])
        <5>1. Active(owner[k])' = Active(owner[k])
          BY <1>14, <2>3, <4>1 DEF SubmitOffer, Active
        <5>2. QED
          BY <2>5, <2>6, <4>1, <5>1
      <4>3. QED
        BY <4>1, <4>2 DEF IInv, NothingLost
    <3>4. QED
      BY <3>2, <3>3
  <2>11. InfoInv'
    <3>1. \A t \in Scheduler :
            Elements(jobQueue'[t]) \subseteq Elements(jobQueue[t]) \cup {j}
      BY <2>5, <2>6
    <3>2. QED
      BY <1>14, <2>2, <2>7, <3>1 DEF SubmitOffer, IInv, InfoInv
  <2>12. QED
    BY <1>0, <2>1, <2>8, <2>9, <2>10, <2>11 DEF IInv
<1>15. ASSUME NEW j \in Job, RunScript(j) PROVE IInv'
  <2>1. RunnerInv' /\ IdInv' /\ OrphanIsSignalled' /\ LateTakeInv'
    <3>1. RunnerInv'
      BY <1>0, <1>15 DEF RunScript, IInv, TypeOK, RunnerInv, ThreadInv, Alive, Submitted
    <3>2. IdInv'
      BY <1>0, <1>15 DEF RunScript, IInv, TypeOK, IdInv, Submitted
    <3>3. OrphanIsSignalled'
      BY <1>0, <1>15 DEF RunScript, IInv, TypeOK, RunnerInv, OrphanIsSignalled,
             ThreadInv, Alive
    <3>4. LateTakeInv'
      BY <1>0, <1>15 DEF RunScript, IInv, TypeOK, RunnerInv, LateTakeInv, ThreadInv, Alive
    <3> QED
      BY <3>1, <3>2, <3>3, <3>4
  <2>2. QueueInv' /\ FinishedInv' /\ ThreadInv'
    <3>1. QueueInv'
      BY <1>0, <1>15 DEF RunScript, IInv, TypeOK, QueueInv, ThreadInv, RunnerInv,
             Active, Alive
    <3>2. FinishedInv'
      BY <1>0, <1>15 DEF RunScript, IInv, TypeOK, FinishedInv, ThreadInv, RunnerInv,
             Active, Alive
    <3>3. ThreadInv'
      BY <1>0, <1>15 DEF RunScript, IInv, TypeOK, ThreadInv, RunnerInv, Alive
    <3> QED
      BY <3>1, <3>2, <3>3
  <2>4. ASSUME NEW t \in Scheduler PROVE Active(t)' = Active(t)
    BY <1>0, <1>15 DEF RunScript, Active, IInv, TypeOK, ThreadInv
  <2>5. NothingLost'
    BY <1>0, <1>15, <2>4, NothingLostFrame DEF RunScript, IInv
  <2>6. InfoInv'
    BY <1>15, InfoFrame DEF RunScript, IInv
  <2>7. QED
    BY <1>0, <2>1, <2>2, <2>5, <2>6 DEF IInv
<1>16. ASSUME NEW j \in Job, CloseShell(j) PROVE IInv'
  <2>1. RunnerInv' /\ IdInv' /\ OrphanIsSignalled' /\ LateTakeInv'
    <3>1. RunnerInv'
      BY <1>0, <1>16 DEF CloseShell, IInv, TypeOK, RunnerInv, ThreadInv, Alive, Submitted
    <3>2. IdInv'
      BY <1>0, <1>16 DEF CloseShell, IInv, TypeOK, IdInv, Submitted
    <3>3. OrphanIsSignalled'
      BY <1>0, <1>16 DEF CloseShell, IInv, TypeOK, RunnerInv, OrphanIsSignalled,
             ThreadInv, Alive
    <3>4. LateTakeInv'
      BY <1>0, <1>16 DEF CloseShell, IInv, TypeOK, RunnerInv, LateTakeInv, ThreadInv, Alive
    <3> QED
      BY <3>1, <3>2, <3>3, <3>4
  <2>2. QueueInv' /\ FinishedInv' /\ ThreadInv'
    <3>1. QueueInv'
      BY <1>0, <1>16 DEF CloseShell, IInv, TypeOK, QueueInv, ThreadInv, RunnerInv,
             Active, Alive
    <3>2. FinishedInv'
      BY <1>0, <1>16 DEF CloseShell, IInv, TypeOK, FinishedInv, ThreadInv, RunnerInv,
             Active, Alive
    <3>3. ThreadInv'
      BY <1>0, <1>16 DEF CloseShell, IInv, TypeOK, ThreadInv, RunnerInv, Alive
    <3> QED
      BY <3>1, <3>2, <3>3
  <2>4. ASSUME NEW t \in Scheduler PROVE Active(t)' = Active(t)
    BY <1>0, <1>16 DEF CloseShell, Active, IInv, TypeOK, ThreadInv
  <2>5. NothingLost'
    BY <1>0, <1>16, <2>4, NothingLostFrame DEF CloseShell, IInv
  <2>6. InfoInv'
    BY <1>16, InfoFrame DEF CloseShell, IInv
  <2>7. QED
    BY <1>0, <2>1, <2>2, <2>5, <2>6 DEF IInv
<1>20. ASSUME NEW j \in Job, ShellFails(j) PROVE IInv'
  <2>1. RunnerInv' /\ IdInv' /\ OrphanIsSignalled' /\ LateTakeInv'
    <3>1. RunnerInv'
      BY <1>0, <1>20 DEF ShellFails, IInv, TypeOK, RunnerInv, ThreadInv, Alive, Submitted
    <3>2. IdInv'
      BY <1>0, <1>20 DEF ShellFails, IInv, TypeOK, IdInv, Submitted
    <3>3. OrphanIsSignalled'
      BY <1>0, <1>20 DEF ShellFails, IInv, TypeOK, RunnerInv, OrphanIsSignalled,
             ThreadInv, Alive
    <3>4. LateTakeInv'
      BY <1>0, <1>20 DEF ShellFails, IInv, TypeOK, RunnerInv, LateTakeInv, ThreadInv, Alive
    <3> QED
      BY <3>1, <3>2, <3>3, <3>4
  <2>2. QueueInv' /\ FinishedInv' /\ ThreadInv'
    <3>1. QueueInv'
      BY <1>0, <1>20 DEF ShellFails, IInv, TypeOK, QueueInv, ThreadInv, RunnerInv,
             Active, Alive
    <3>2. FinishedInv'
      BY <1>0, <1>20 DEF ShellFails, IInv, TypeOK, FinishedInv, ThreadInv, RunnerInv,
             Active, Alive
    <3>3. ThreadInv'
      BY <1>0, <1>20 DEF ShellFails, IInv, TypeOK, ThreadInv, RunnerInv, Alive
    <3> QED
      BY <3>1, <3>2, <3>3
  <2>4. ASSUME NEW t \in Scheduler PROVE Active(t)' = Active(t)
    BY <1>0, <1>20 DEF ShellFails, Active, IInv, TypeOK, ThreadInv
  <2>5. NothingLost'
    BY <1>0, <1>20, <2>4, NothingLostFrame DEF ShellFails, IInv
  <2>6. InfoInv'
    BY <1>20, InfoFrame DEF ShellFails, IInv
  <2>7. QED
    BY <1>0, <2>1, <2>2, <2>5, <2>6 DEF IInv
<1>17. CASE ServiceStop
  <2>1. RunnerInv' /\ IdInv' /\ OrphanIsSignalled' /\ LateTakeInv'
    <3>1. RunnerInv'
      BY <1>0, <1>17 DEF ServiceStop, IInv, TypeOK, RunnerInv, ThreadInv, Alive, Submitted
    <3>2. IdInv'
      BY <1>0, <1>17 DEF ServiceStop, IInv, TypeOK, IdInv, Submitted
    <3>3. OrphanIsSignalled'
      BY <1>0, <1>17 DEF ServiceStop, IInv, TypeOK, RunnerInv, OrphanIsSignalled,
             ThreadInv, Alive
    <3>4. LateTakeInv'
      BY <1>0, <1>17 DEF ServiceStop, IInv, TypeOK, RunnerInv, LateTakeInv, ThreadInv, Alive
    <3> QED
      BY <3>1, <3>2, <3>3, <3>4
  <2>2. QueueInv' /\ FinishedInv' /\ ThreadInv'
    <3>1. QueueInv'
      BY <1>0, <1>17 DEF ServiceStop, IInv, TypeOK, QueueInv, ThreadInv, RunnerInv,
             Active, Alive
    <3>2. FinishedInv'
      BY <1>0, <1>17 DEF ServiceStop, IInv, TypeOK, FinishedInv, ThreadInv, RunnerInv,
             Active, Alive
    <3>3. ThreadInv'
      BY <1>0, <1>17 DEF ServiceStop, IInv, TypeOK, ThreadInv, RunnerInv, Alive
    <3> QED
      BY <3>1, <3>2, <3>3
  <2>4. ASSUME NEW t \in Scheduler PROVE Active(t)' = Active(t)
    BY <1>0, <1>17 DEF ServiceStop, Active, IInv, TypeOK, ThreadInv
  <2>5. NothingLost'
    BY <1>0, <1>17, <2>4, NothingLostFrame DEF ServiceStop, IInv
  <2>6. InfoInv'
    BY <1>17, InfoFrame DEF ServiceStop, IInv
  <2>7. QED
    BY <1>0, <2>1, <2>2, <2>5, <2>6 DEF IInv
<1>18. CASE GetInfo
  <2>1. UNCHANGED <<serviceVars, schedulerVars, clientVars, runnerVars,
                    interrupted, lateTakes>>
    BY <1>18 DEF GetInfo, InfoRunning, InfoWaiting, InfoNext, InfoIterate, InfoCollect,
           InfoFailed, InfoReturned
  <2>2. RunnerInv' /\ IdInv' /\ OrphanIsSignalled' /\ LateTakeInv'
    BY <2>1 DEF IInv, RunnerInv, IdInv, OrphanIsSignalled, LateTakeInv,
           Alive, Submitted
  <2>3. QueueInv' /\ FinishedInv' /\ ThreadInv'
    BY <2>1 DEF IInv, QueueInv, FinishedInv, ThreadInv, Active
  <2>4. \A t \in Scheduler : Active(t)' = Active(t)
    BY <2>1 DEF Active
  <2>5. NothingLost'
    BY <1>0, <2>1, <2>4, NothingLostFrame DEF IInv
  <2>6. InfoInv'
    <3>1. CASE InfoRunning
      <4>1. /\ info'.of = jobScheduler /\ jobScheduler \in Scheduler
            /\ info'.at = "waiting" /\ info'.waiting = <<>> /\ info'.next = NoJob
            /\ info'.running = runningJob[jobScheduler]
            /\ info'.begun = Begun(jobScheduler)
        BY <1>0, <3>1 DEF InfoRunning, NoInfo, TypeOK
      <4>2. Elements(<<>>) = {}
        BY DEF Elements
      <4>3. runningJob[jobScheduler] \in Job =>
              /\ phase[runningJob[jobScheduler]] = "accepted"
              /\ runningJob[jobScheduler]
                   \notin Elements(jobQueue[jobScheduler])
        <5>1. SUFFICES ASSUME runningJob[jobScheduler] \in Job
                       PROVE  /\ phase[runningJob[jobScheduler]] = "accepted"
                              /\ runningJob[jobScheduler]
                                   \notin Elements(jobQueue[jobScheduler])
          OBVIOUS
        <5>2. runningJob[jobScheduler] # NoJob
          BY <5>1, SchedulerAssumption
        <5>3. phase[runningJob[jobScheduler]] = "accepted"
          BY <1>0, <4>1, <5>2, RunningIsAccepted DEF IInv
        <5>4. \/ Active(jobScheduler) = runningJob[jobScheduler]
              \/ runner[runningJob[jobScheduler]] = "dead"
          BY <1>0, <4>1, <5>2 DEF IInv, TypeOK, ThreadInv, Active
        <5>5. QED
          BY <4>1, <5>3, <5>4 DEF IInv, QueueInv
      <4>4. QED
        BY <2>1, <4>1, <4>2, <4>3 DEF InfoInv, Begun
    <3>2. CASE InfoWaiting \/ InfoNext
      <4>1. /\ info \in InfoType /\ info.of \in Scheduler
            /\ info'.of = info.of /\ info'.running = info.running
            /\ info'.begun = info.begun /\ info'.at = "list"
        <5>1. info \in InfoType /\ info.of \in Scheduler
          BY <1>0, <3>2 DEF InfoWaiting, InfoNext, IInv, TypeOK, InfoInv
        <5> QED
          BY <3>2, <5>1 DEF InfoWaiting, InfoNext, InfoType
      <4>2. PICK q \in Seq(Job) : q = jobQueue[info.of] /\ NoRepeat(q)
        <5>1. jobQueue[info.of] \in Seq(Job) /\ NoRepeat(jobQueue[info.of])
          BY <1>0, <4>1 DEF IInv, TypeOK, QueueInv
        <5> QED
          BY <5>1
      <4>3. info'.next \in Elements(q) \cup {NoJob}
        <5>1. CASE InfoWaiting
          <6>1. info'.next = First(q)
            BY <4>1, <4>2, <5>1 DEF InfoWaiting, InfoType
          <6> QED
            BY <4>2, <6>1, NextNodeFacts
        <5>2. CASE InfoNext
          <6>1. info'.next = NextNode(q, info.next)
            BY <4>1, <4>2, <5>2 DEF InfoNext, InfoType
          <6> QED
            BY <4>2, <6>1, NextNodeFacts
        <5> QED
          BY <3>2, <5>1, <5>2
      <4>4. \A j \in Elements(q) : phase[j] = "accepted"
        BY <4>1, <4>2 DEF IInv, QueueInv
      <4>5. ASSUME info.running \in Job
            PROVE  /\ info.running \notin Elements(q)
                   /\ info.running \notin Elements(info'.waiting) \cup {info'.next}
        <5>1. /\ info.running \notin Elements(q)
              /\ info.running \notin Elements(info.waiting) \cup {info.next}
          BY <3>2, <4>2, <4>5 DEF IInv, InfoInv, InfoWaiting, InfoNext
        <5>2. info.running # info'.next
          BY <4>3, <4>5, <5>1
        <5>3. CASE InfoWaiting
          BY <4>1, <5>1, <5>2, <5>3 DEF InfoWaiting, InfoType
        <5>4. CASE InfoNext
          <6>1. PICK w \in Seq(Job) : w = info.waiting
            BY <4>1 DEF InfoType
          <6>2. PICK n \in Job : n = info.next
            BY <4>1, <5>4 DEF InfoNext, InfoType
          <6>3. info'.waiting = Append(w, n)
            BY <4>1, <5>4, <6>1, <6>2 DEF InfoNext, InfoType
          <6>4. Elements(Append(w, n)) = Elements(w) \cup {n}
            BY AppendElements
          <6> QED
            BY <5>1, <5>2, <6>1, <6>2, <6>3, <6>4
        <5> QED
          BY <3>2, <5>1, <5>3, <5>4
      <4>6. info'.next \in Job => phase[info'.next] = "accepted"
        BY <4>3, <4>4, SchedulerAssumption
      <4>7. \A j \in info.begun : j = info.running \/ j \in Elements(finishedJobs[info.of])
        BY <3>2 DEF IInv, InfoInv, InfoWaiting, InfoNext
      <4>8. info.running \in Job => phase[info.running] = "accepted"
        BY <3>2 DEF IInv, InfoInv, InfoWaiting, InfoNext
      <4>9. info'.running \in Job =>
              /\ phase'[info'.running] = "accepted"
              /\ info'.running \notin Elements(jobQueue[info.of])
              /\ info'.running \notin Elements(info'.waiting) \cup {info'.next}
        BY <2>1, <4>1, <4>2, <4>5, <4>8
      <4>10. \A j \in info'.begun :
               j = info'.running \/ j \in Elements(finishedJobs[info.of])
        BY <4>1, <4>7
      <4> QED
        BY <2>1, <4>1, <4>6, <4>9, <4>10 DEF InfoInv, Elements
    <3>3. CASE InfoIterate
      BY <1>0, <2>1, <3>3 DEF InfoIterate, IInv, TypeOK, InfoType, InfoInv
    <3>4. CASE InfoCollect
      BY <1>0, <2>1, <3>4 DEF InfoCollect, IInv, TypeOK, InfoType, InfoInv
    <3>5. CASE InfoFailed \/ InfoReturned
      BY <3>5 DEF InfoFailed, InfoReturned, NoInfo, InfoInv
    <3>6. QED
      BY <1>18, <3>1, <3>2, <3>3, <3>4, <3>5 DEF GetInfo
  <2>7. QED
    BY <1>0, <2>2, <2>3, <2>5, <2>6 DEF IInv
<1>19. CASE UNCHANGED vars
  BY <1>0, <1>19 DEF vars, IInv, RunnerInv, IdInv, QueueInv, FinishedInv, ThreadInv,
     NothingLost, OrphanIsSignalled, LateTakeInv, InfoInv, Active, Alive, Submitted
<1> QED
  BY <1>1, <1>2, <1>3, <1>4, <1>5, <1>6, <1>7, <1>8, <1>9, <1>10, <1>11,
     <1>12, <1>13, <1>14, <1>15, <1>16, <1>17, <1>18, <1>19, <1>20
     DEF Next, ServiceNext, SchedulerThread, Submit, Runner

\* The inductive invariant holds at the start.
LEMMA InitIInv == Init => IInv
<1> SUFFICES ASSUME Init PROVE IInv
  OBVIOUS
<1>1. TypeOK
  BY InitTypeOK
<1>2. Elements(<<>>) = {}
  BY DEF Elements
<1>3. RunnerInv /\ IdInv /\ NothingLost /\ OrphanIsSignalled /\ LateTakeInv
  BY DEF Init, RunnerInv, IdInv, NothingLost, OrphanIsSignalled, LateTakeInv,
         Alive, Submitted
<1>4. QueueInv /\ FinishedInv /\ ThreadInv
  BY <1>2 DEF Init, QueueInv, FinishedInv, ThreadInv, NoRepeat
<1>5. InfoInv
  BY SchedulerAssumption DEF Init, InfoInv, NoInfo
<1>6. QED
  BY <1>1, <1>3, <1>4, <1>5 DEF IInv

\* The inductive invariant is an invariant of the job service.
THEOREM InductiveInvariant == Spec => []IInv
BY InitIInv, NextIInv, PTL DEF Spec

-----------------------------------------------------------------------------
(* What follows from it                                                    *)

\* The fields of the service and of its schedulers keep their types.
THEOREM TypeCorrect == Spec => []TypeOK
<1>1. IInv => TypeOK
  BY DEF IInv
<1>2. QED
  BY <1>1, InductiveInvariant, PTL

\* No job whose submit() returned true is ever forgotten by its scheduler.
THEOREM AcceptedIsNeverLost == Spec => []NothingLost
<1>1. IInv => NothingLost
  BY DEF IInv
<1>2. QED
  BY <1>1, InductiveInvariant, PTL

\* Two runners of one scheduler are never alive at once.
THEOREM RunnersDoNotOverlap == Spec => []OneRunnerAtATime
<1>1. IInv => OneRunnerAtATime
  BY DEF IInv, RunnerInv, OneRunnerAtATime
<1>2. QED
  BY <1>1, InductiveInvariant, PTL

\* The runner of a reported job has ended, and the job's output attribute, or
\* that it has none, is final.
THEOREM ReportFollowsTheRun == Spec => ReportIsFinal
<1>1. IInv /\ [Next]_vars =>
        \A s \in Scheduler : \A j \in Elements(finishedJobs[s]) :
          runner[j] = "dead" /\ output'[j] = output[j]
  <2>1. SUFFICES ASSUME IInv, [Next]_vars, NEW s \in Scheduler,
                        NEW j \in Elements(finishedJobs[s])
                 PROVE  runner[j] = "dead" /\ output'[j] = output[j]
    OBVIOUS
  <2>2. runner[j] = "dead"
    BY <2>1 DEF IInv, FinishedInv
  <2>3. j \in Job /\ output \in [Job -> {"none", "consoleOutput", "error"}]
    BY <2>1 DEF IInv, TypeOK, Elements
  <2>4. ASSUME NEW k \in Job, RunScript(k) PROVE output'[j] = output[j]
    BY <2>2, <2>3, <2>4 DEF RunScript
  <2>5. CASE UNCHANGED output
    BY <2>2, <2>5
  <2>6. (\E k \in Job : RunScript(k)) \/ UNCHANGED output
    BY <2>1 DEF Next, ServiceNext, ServiceStart, ServiceStop, SchedulerThread, Submit,
       SubmitRejected, SubmitSetId, SubmitOffer, Runner, ShellFails, CloseShell,
       TakeEnter, TakeJob, SetRunning, StartRunner, Poll, WakeUp, PutFinished,
       ClearRunning, Interrupt, HandleInterrupt, GetInfo, InfoRunning, InfoWaiting,
       InfoNext, InfoIterate, InfoCollect, InfoFailed, InfoReturned, runnerVars, vars
  <2>7. QED
    BY <2>2, <2>4, <2>5, <2>6
<1>2. QED
  BY <1>1, InductiveInvariant, PTL DEF Spec, ReportIsFinal

\* A runner that outlives its scheduler thread has been interrupted.
THEOREM OrphansAreSignalled == Spec => []OrphanIsSignalled
<1>1. IInv => OrphanIsSignalled
  BY DEF IInv
<1>2. QED
  BY <1>1, InductiveInvariant, PTL

\* A scheduler takes at most one job after it has been stopped.
THEOREM StopIsBounded == Spec => []AtMostOneLateTake
<1>1. IInv => AtMostOneLateTake
  BY DEF IInv, LateTakeInv, AtMostOneLateTake
<1>2. QED
  BY <1>1, InductiveInvariant, PTL

\* getInfo() never returns one job as running and as waiting.
THEOREM InfoIsNotDouble == Spec => []SnapshotRunningNotWaiting
<1>1. IInv => SnapshotRunningNotWaiting
  <2>1. SUFFICES ASSUME IInv, info.at \in {"collect", "done"}
                 PROVE  info.running \notin Elements(info.waiting)
    BY DEF SnapshotRunningNotWaiting
  <2>2. info.running \in Job \cup {NoJob} /\ info.waiting \in Seq(Job)
    BY <2>1 DEF IInv, TypeOK, InfoType
  <2>3. \A x \in Elements(info.waiting) : x \in Job
    BY <2>2 DEF Elements
  <2>4. CASE info.running = NoJob
    BY <2>3, <2>4, SchedulerAssumption
  <2>5. CASE info.running \in Job
    BY <2>1, <2>5 DEF IInv, InfoInv
  <2>6. QED
    BY <2>2, <2>4, <2>5
<1>2. QED
  BY <1>1, InductiveInvariant, PTL

\* getInfo() returns every job that was running or finished when it began.
THEOREM InfoIsComplete == Spec => []SnapshotKeepsBegun
<1>1. IInv => SnapshotKeepsBegun
  BY DEF IInv, InfoInv, SnapshotKeepsBegun, SnapshotJobs
<1>2. QED
  BY <1>1, InductiveInvariant, PTL

-----------------------------------------------------------------------------
(* What getInfo() can miss                                                 *)

\* All of K is in S, but for one element at most.
AllButOne(K, S) == \E x : K \subseteq S \cup {x}

\* Place i of queue q is still ahead of an iterator whose next job is n, in the
\* queue or taken from it.
Ahead(q, n, i) == n # NoJob /\ \A k \in DOMAIN q : q[k] = n => k <= i

\* The jobs that getInfo() knew of when it began stay accepted; those that are
\* in the queue the iterator has returned or has still ahead; when it has read
\* both lists, only the job that the thread had in hand when it began with the
\* finished jobs is missing.
KnownInv ==
  /\ info.at # "idle" => info.known \subseteq Accepted(info.of)
  /\ info.at = "list" => \A i \in DOMAIN jobQueue[info.of] :
       jobQueue[info.of][i] \in info.known =>
         \/ jobQueue[info.of][i] \in Elements(info.waiting)
         \/ Ahead(jobQueue[info.of], info.next, i)
  /\ info.at \in {"collect", "done"} =>
       AllButOne(info.known, Elements(info.waiting) \cup Elements(info.finished))

\* What is missing from a set is missing from no larger one.
LEMMA AllButOneGrows ==
  ASSUME NEW K, NEW S, NEW T, AllButOne(K, S), S \subseteq T
  PROVE  AllButOne(K, T)
BY DEF AllButOne

\* A job that is accepted stays so, and a finished one stays in the report.
LEMMA AcceptedAndFinishedStay ==
  ASSUME IInv, [Next]_vars, NEW s \in Scheduler
  PROVE  /\ Accepted(s) \subseteq Accepted(s)'
         /\ Elements(finishedJobs[s]) \subseteq Elements(finishedJobs[s])'
<1> USE DEF vars, serviceVars, schedulerVars, clientVars, runnerVars
<1>0. TypeOK
  BY DEF IInv
<1>1. CASE UNCHANGED <<phase, owner, finishedJobs>>
  BY <1>1 DEF Accepted, Elements
<1>2. ASSUME NEW j \in Job, Submit(j)
      PROVE  /\ Accepted(s) \subseteq Accepted(s)'
             /\ UNCHANGED finishedJobs
  <2>1. UNCHANGED finishedJobs
    BY <1>2 DEF Submit, SubmitRejected, SubmitSetId, SubmitOffer
  <2>2. ASSUME NEW k \in Accepted(s) PROVE k \in Accepted(s)'
    <3>1. k \in Job /\ phase[k] = "accepted" /\ owner[k] = s
      BY <2>2 DEF Accepted
    <3>2. phase[j] \in {"new", "numbered"}
      BY <1>2 DEF Submit, SubmitRejected, SubmitSetId, SubmitOffer
    <3>3. phase'[k] = phase[k] /\ owner'[k] = owner[k]
      BY <1>0, <1>2, <3>1, <3>2
      DEF Submit, SubmitRejected, SubmitSetId, SubmitOffer, TypeOK
    <3> QED
      BY <3>1, <3>3 DEF Accepted
  <2> QED
    BY <2>1, <2>2
<1>3. ASSUME NEW t \in Scheduler, PutFinished(t)
      PROVE  /\ UNCHANGED <<phase, owner>>
             /\ Elements(finishedJobs[s]) \subseteq Elements(finishedJobs[s])'
  <2>1. UNCHANGED <<phase, owner>> /\ thread[t] = "put"
    BY <1>3 DEF PutFinished, Goto
  <2>2. finishedJobs' = [finishedJobs EXCEPT ![t] = Append(finishedJobs[t], runningJob[t])]
    BY <1>3, <2>1, PutIsAppend DEF PutFinished
  <2>3. finishedJobs \in [Scheduler -> Seq(Job)]
    BY <1>0 DEF TypeOK
  <2>4. CASE s = t
    <3>1. runningJob[t] \in Job
      BY <2>1 DEF IInv, TypeOK, ThreadInv
    <3>2. PICK q \in Seq(Job) : q = finishedJobs[t]
      BY <2>3
    <3>3. PICK r \in Job : r = runningJob[t]
      BY <3>1
    <3>4. finishedJobs'[s] = Append(q, r)
      BY <2>2, <2>3, <2>4, <3>2, <3>3
    <3>5. Elements(Append(q, r)) = Elements(q) \cup {r}
      BY AppendElements
    <3> QED
      BY <2>1, <2>4, <3>2, <3>4, <3>5 DEF Elements
  <2>5. CASE s # t
    BY <2>1, <2>2, <2>3, <2>5 DEF Elements
  <2> QED
    BY <2>1, <2>4, <2>5
<1>4. CASE GetInfo
  BY <1>1, <1>4
  DEF GetInfo, InfoRunning, InfoWaiting, InfoNext, InfoIterate, InfoCollect, InfoFailed, InfoReturned
<1>5. ASSUME NEW t \in Scheduler, SchedulerThread(t), ~PutFinished(t)
      PROVE  UNCHANGED <<phase, owner, finishedJobs>>
  BY <1>5 DEF SchedulerThread, TakeEnter, TakeJob, SetRunning, StartRunner, Poll, WakeUp,
     ClearRunning, Interrupt, HandleInterrupt
<1>6. ASSUME NEW t \in Scheduler, ServiceStart(t) \/ ServiceStop
      PROVE  UNCHANGED <<phase, owner, finishedJobs>>
  BY <1>6 DEF ServiceStart, ServiceStop
<1>7. ASSUME NEW j \in Job, Runner(j) PROVE UNCHANGED <<phase, owner, finishedJobs>>
  BY <1>7 DEF Runner, ShellFails, RunScript, CloseShell
<1>8. Elements(finishedJobs[s])' = Elements(finishedJobs'[s])
  BY DEF Elements
<1>9. CASE UNCHANGED vars
  BY <1>1, <1>9
<1>10. UNCHANGED finishedJobs => Elements(finishedJobs[s]) \subseteq Elements(finishedJobs[s])'
  BY DEF Elements
<1>11. UNCHANGED <<phase, owner>> => Accepted(s) \subseteq Accepted(s)'
  BY DEF Accepted
<1> QED
  BY <1>1, <1>2, <1>3, <1>4, <1>5, <1>6, <1>7, <1>9, <1>10, <1>11 DEF Next, ServiceNext

\* Reading the queue: what is not in it is finished, or is the one job that
\* the thread has in hand.
LEMMA KnownIsSomewhere ==
  ASSUME IInv, NEW s \in Scheduler
  PROVE  AllButOne(Accepted(s), Elements(jobQueue[s]) \cup Elements(finishedJobs[s]))
<1>1. ASSUME NEW j \in Accepted(s)
      PROVE  j \in Elements(jobQueue[s]) \cup Elements(finishedJobs[s]) \cup {Active(s)}
  BY <1>1 DEF Accepted, IInv, NothingLost
<1> QED
  BY <1>1 DEF AllButOne

\* Only an offer and a take change a queue.
LEMMA QueueMoves ==
  ASSUME IInv, [Next]_vars, NEW s \in Scheduler
  PROVE  \/ jobQueue'[s] = jobQueue[s]
         \/ \E j \in Job : SubmitOffer(j) /\ owner[j] = s
         \/ TakeJob(s)
<1>1. jobQueue \in [Scheduler -> Seq(Job)]
  BY DEF IInv, TypeOK
<1>2. ASSUME NEW t \in Scheduler, TakeJob(t), t # s PROVE jobQueue'[s] = jobQueue[s]
  BY <1>1, <1>2 DEF TakeJob
<1>3. ASSUME NEW j \in Job, SubmitOffer(j), owner[j] # s PROVE jobQueue'[s] = jobQueue[s]
  BY <1>1, <1>3 DEF SubmitOffer
<1>4. \/ UNCHANGED jobQueue
      \/ \E j \in Job : SubmitOffer(j)
      \/ \E t \in Scheduler : TakeJob(t)
  BY DEF Next, ServiceNext, ServiceStart, ServiceStop, SchedulerThread, Submit, Runner,
     SubmitRejected, SubmitSetId, TakeEnter, SetRunning, StartRunner, Poll, WakeUp,
     PutFinished, ClearRunning, Interrupt, HandleInterrupt, ShellFails, RunScript,
     CloseShell, GetInfo, InfoRunning, InfoWaiting, InfoNext, InfoIterate, InfoCollect,
     InfoFailed, InfoReturned, serviceVars, schedulerVars, vars
<1> QED
  BY <1>2, <1>3, <1>4

\* Every step keeps what getInfo() knows.
LEMMA NextKnownInv == IInv /\ KnownInv /\ [Next]_vars => KnownInv'
<1> SUFFICES ASSUME IInv, KnownInv, [Next]_vars PROVE KnownInv'
  OBVIOUS
<1>0. info \in InfoType /\ (info.at # "idle" => info.of \in Scheduler)
  BY DEF IInv, TypeOK, InfoInv
<1>1. CASE UNCHANGED info
  <2>1. CASE info.at = "idle"
    BY <1>1, <2>1 DEF KnownInv
  <2>2. CASE info.at # "idle"
    <3>1. PICK s \in Scheduler : s = info.of
      BY <1>0, <2>2
    <3>2. /\ Accepted(s) \subseteq Accepted(s)'
          /\ Elements(finishedJobs[s]) \subseteq Elements(finishedJobs[s])'
      BY AcceptedAndFinishedStay
    <3>3. info'.known \subseteq Accepted(info.of)'
      BY <1>1, <2>2, <3>1, <3>2 DEF KnownInv, Accepted
    <3>4. ASSUME info.at = "list", NEW i \in DOMAIN jobQueue'[s],
                 jobQueue'[s][i] \in info.known
          PROVE  \/ jobQueue'[s][i] \in Elements(info.waiting)
                 \/ Ahead(jobQueue'[s], info.next, i)
      <4>1. info.known \subseteq Accepted(s) /\ (info.next \in Job => phase[info.next] = "accepted")
        BY <2>2, <3>1 DEF KnownInv, IInv, InfoInv
      <4>2. \A k \in DOMAIN jobQueue[s] : jobQueue[s][k] \in info.known =>
              jobQueue[s][k] \in Elements(info.waiting) \/ Ahead(jobQueue[s], info.next, k)
        BY <3>1, <3>4 DEF KnownInv
      <4>3. jobQueue \in [Scheduler -> Seq(Job)]
        BY DEF IInv, TypeOK
      <4>4. PICK q \in Seq(Job) : q = jobQueue[s]
        BY <4>3
      <4>5. CASE jobQueue'[s] = jobQueue[s]
        BY <3>4, <4>2, <4>5
      <4>6. ASSUME NEW j \in Job, SubmitOffer(j), owner[j] = s
            PROVE  \/ jobQueue'[s][i] \in Elements(info.waiting)
                   \/ Ahead(jobQueue'[s], info.next, i)
        <5>1. phase[j] = "numbered" /\ jobQueue'[s] = Append(q, j)
          BY <4>3, <4>4, <4>6 DEF SubmitOffer
        <5>2. j \notin info.known /\ info.next # j
          BY <4>1, <5>1, <4>6 DEF Accepted
        <5>3. /\ DOMAIN Append(q, j) = 1 .. Len(q) + 1 /\ DOMAIN q = 1 .. Len(q)
              /\ Len(q) \in Nat /\ \A k \in 1 .. Len(q) : Append(q, j)[k] = q[k]
              /\ Append(q, j)[Len(q) + 1] = j
          OBVIOUS
        <5>4. i \in DOMAIN q
          BY <3>4, <5>1, <5>2, <5>3
        <5>5. jobQueue'[s][i] \in Elements(info.waiting) \/ Ahead(q, info.next, i)
          BY <3>4, <4>2, <4>4, <5>1, <5>3, <5>4
        <5>6. Ahead(q, info.next, i) => Ahead(jobQueue'[s], info.next, i)
          BY <5>1, <5>2, <5>3 DEF Ahead
        <5> QED
          BY <5>5, <5>6
      <4>7. CASE TakeJob(s)
        <5>1. q # <<>> /\ jobQueue'[s] = Tail(q)
          BY <4>3, <4>4, <4>7 DEF TakeJob
        <5>2. /\ DOMAIN Tail(q) = 1 .. Len(q) - 1 /\ DOMAIN q = 1 .. Len(q)
              /\ Len(q) \in Nat \ {0} /\ \A k \in 1 .. Len(q) - 1 : Tail(q)[k] = q[k + 1]
          BY <5>1
        <5>3. i + 1 \in DOMAIN q /\ jobQueue'[s][i] = q[i + 1]
          BY <3>4, <5>1, <5>2
        <5>4. jobQueue'[s][i] \in Elements(info.waiting) \/ Ahead(q, info.next, i + 1)
          BY <3>4, <4>2, <4>4, <5>3
        <5>5. Ahead(q, info.next, i + 1) => Ahead(jobQueue'[s], info.next, i)
          <6>1. SUFFICES ASSUME Ahead(q, info.next, i + 1), NEW k \in DOMAIN Tail(q),
                                Tail(q)[k] = info.next
                         PROVE  k <= i
            BY <5>1 DEF Ahead
          <6>2. k + 1 \in DOMAIN q /\ q[k + 1] = info.next
            BY <5>2, <6>1
          <6>3. k + 1 <= i + 1
            BY <6>1, <6>2 DEF Ahead
          <6>4. k \in Nat /\ i \in Nat
            BY <3>4, <5>1, <5>2
          <6> QED
            BY <6>3, <6>4
        <5> QED
          BY <5>4, <5>5
      <4>8. \/ jobQueue'[s] = jobQueue[s]
            \/ \E j \in Job : SubmitOffer(j) /\ owner[j] = s
            \/ TakeJob(s)
        BY <2>2, <3>1, QueueMoves
      <4> QED
        BY <4>5, <4>6, <4>7, <4>8
    <3> QED
      BY <1>1, <2>2, <3>1, <3>3, <3>4 DEF KnownInv, AllButOne, Elements, Ahead
  <2> QED
    BY <2>1, <2>2
<1>2. CASE InfoRunning
  <2>1. /\ info'.at = "waiting" /\ info'.of = jobScheduler
        /\ info'.known = Accepted(jobScheduler) /\ UNCHANGED <<phase, owner>>
    BY <1>2 DEF InfoRunning, NoInfo, clientVars
  <2> QED
    BY <2>1 DEF KnownInv, Accepted
<1>3. CASE InfoWaiting \/ InfoNext
  <2>1. /\ info.at # "idle" /\ info'.at = "list" /\ info'.of = info.of
        /\ info'.known = info.known
        /\ UNCHANGED <<phase, owner, jobQueue>>
    BY <1>0, <1>3 DEF InfoWaiting, InfoNext, InfoType, clientVars, schedulerVars
  <2>2. PICK s \in Scheduler : s = info.of
    BY <1>0, <2>1
  <2>3. PICK q \in Seq(Job) : q = jobQueue[s] /\ NoRepeat(q)
    BY DEF IInv, TypeOK, QueueInv
  <2>4. \A i \in DOMAIN q : q # <<>> => Ahead(q, First(q), i)
    <3>1. SUFFICES ASSUME NEW i \in DOMAIN q PROVE Ahead(q, First(q), i)
      OBVIOUS
    <3>2. q # <<>> /\ 1 \in DOMAIN q /\ First(q) = q[1] /\ q[1] \in Job /\ i \in Nat /\ i >= 1
      BY NextNodeFacts, <2>3
    <3>3. First(q) # NoJob
      BY <3>2, SchedulerAssumption
    <3> QED
      BY <2>3, <3>2, <3>3 DEF Ahead, NoRepeat
  <2>5. ASSUME NEW i \in DOMAIN q, q[i] \in info.known
        PROVE  q[i] \in Elements(info'.waiting) \/ Ahead(q, info'.next, i)
    <3>0. q # <<>> /\ DOMAIN q = 1 .. Len(q) /\ Len(q) \in Nat
      OBVIOUS
    <3>1. CASE InfoWaiting
      <4>1. info'.next = First(q)
        BY <1>0, <2>2, <2>3, <3>1 DEF InfoWaiting, InfoType
      <4> QED
        BY <2>4, <3>0, <4>1
    <3>2. CASE InfoNext
      <4>1. PICK w \in Seq(Job) : w = info.waiting
        BY <1>0 DEF InfoType
      <4>2. PICK n \in Job : n = info.next
        BY <1>0, <3>2 DEF InfoNext, InfoType
      <4>3. info'.waiting = Append(w, n) /\ info'.next = NextNode(q, n)
        BY <1>0, <2>2, <2>3, <3>2, <4>1, <4>2 DEF InfoNext, InfoType
      <4>4. Elements(info'.waiting) = Elements(w) \cup {n}
        BY <4>3, AppendElements
      <4>5. q[i] \in Elements(w) \/ Ahead(q, n, i)
        BY <2>2, <2>3, <2>5, <3>2, <4>1, <4>2 DEF InfoNext, KnownInv
      <4>6. CASE n \notin Elements(q)
        BY <2>3, <2>4, <3>0, <4>3, <4>6, NextNodeFacts
      <4>7. CASE n \in Elements(q)
        <5>1. PICK k \in DOMAIN q : q[k] = n
          BY <4>7 DEF Elements
        <5>2. CASE i <= k
          <6>1. q[i] \in Elements(w) \/ i = k
            BY <3>0, <4>5, <5>1, <5>2 DEF Ahead
          <6> QED
            BY <4>4, <5>1, <6>1
        <5>3. CASE k < i
          <6>1. k < Len(q)
            BY <3>0, <5>3
          <6>2. k + 1 \in DOMAIN q /\ info'.next = q[k + 1]
            BY <2>3, <4>3, <5>1, <6>1, NextNodeFacts
          <6>3. q[k + 1] # NoJob /\ k + 1 <= i
            BY <3>0, <5>3, <6>2, SchedulerAssumption
          <6> QED
            BY <2>3, <6>2, <6>3 DEF Ahead, NoRepeat
        <5> QED
          BY <3>0, <5>2, <5>3
      <4> QED
        BY <4>6, <4>7
    <3> QED
      BY <1>3, <3>1, <3>2
  <2>6. info'.known \subseteq Accepted(info.of)'
    BY <2>1, <2>2 DEF KnownInv, Accepted
  <2> QED
    BY <2>1, <2>2, <2>3, <2>5, <2>6 DEF KnownInv, Elements, Ahead
<1>4. CASE InfoIterate
  <2>1. /\ info.at = "list" /\ info'.at = "collect" /\ info'.of = info.of
        /\ info.next = NoJob
        /\ info'.known = info.known /\ info'.waiting = info.waiting
        /\ info'.finished = finishedJobs[info.of] /\ UNCHANGED <<phase, owner>>
    BY <1>0, <1>4 DEF InfoIterate, InfoType, clientVars
  <2>2. PICK s \in Scheduler : s = info.of
    BY <1>0, <2>1
  <2>3. info.known \subseteq Accepted(s)
    BY <2>1, <2>2 DEF KnownInv
  <2>4. AllButOne(Accepted(s), Elements(jobQueue[s]) \cup Elements(finishedJobs[s]))
    BY KnownIsSomewhere
  <2>5. \A j \in info.known : j \in Elements(jobQueue[s]) => j \in Elements(info.waiting)
    BY <2>1, <2>2 DEF KnownInv, Ahead, Elements
  <2>6. AllButOne(info.known, Elements(info.waiting) \cup Elements(finishedJobs[s]))
    BY <2>3, <2>4, <2>5 DEF AllButOne
  <2>7. info'.known \subseteq Accepted(info.of)'
    BY <2>1, <2>2, <2>3 DEF Accepted
  <2> QED
    BY <2>1, <2>2, <2>6, <2>7 DEF KnownInv, AllButOne, Elements
<1>5. CASE InfoCollect
  <2>1. /\ info.at = "collect" /\ info'.at = "done" /\ info'.of = info.of
        /\ info'.known = info.known /\ info'.waiting = info.waiting
        /\ info'.finished = info.finished /\ UNCHANGED <<phase, owner>>
    BY <1>0, <1>5 DEF InfoCollect, InfoType, clientVars
  <2> QED
    BY <2>1 DEF KnownInv, Accepted, AllButOne, Elements
<1>6. CASE InfoFailed \/ InfoReturned
  <2>1. info'.at = "idle"
    BY <1>6 DEF InfoFailed, InfoReturned, NoInfo
  <2> QED
    BY <2>1 DEF KnownInv
<1>7. CASE ServiceNext \/ UNCHANGED vars
  <2>1. UNCHANGED info
    BY <1>7 DEF ServiceNext, ServiceStart, ServiceStop, SchedulerThread, Submit, Runner,
       SubmitRejected, SubmitSetId, SubmitOffer, TakeEnter, TakeJob, SetRunning,
       StartRunner, Poll, WakeUp, PutFinished, ClearRunning, Interrupt,
       HandleInterrupt, ShellFails, RunScript, CloseShell, vars
  <2> QED
    BY <1>1, <2>1
<1> QED
  BY <1>2, <1>3, <1>4, <1>5, <1>6, <1>7 DEF Next, GetInfo

\* getInfo() misses one job at most of those that were accepted when it began:
\* the one that its scheduler moved between the reads.
THEOREM InfoMissesAtMostOne == Spec => []SnapshotMissesAtMostOne
<1>1. Init => KnownInv
  BY DEF Init, KnownInv, NoInfo
<1>2. KnownInv => SnapshotMissesAtMostOne
  <2> SUFFICES ASSUME KnownInv, info.at = "done"
               PROVE  Cardinality(info.known \ SnapshotJobs) <= 1
    BY DEF SnapshotMissesAtMostOne
  <2>1. PICK x : info.known \subseteq Elements(info.waiting) \cup Elements(info.finished) \cup {x}
    BY DEF KnownInv, AllButOne
  <2>2. info.known \ SnapshotJobs = {} \/ info.known \ SnapshotJobs = {x}
    BY <2>1 DEF SnapshotJobs
  <2>3. Cardinality({}) = 0 /\ Cardinality({x}) = 1
    BY FS_EmptySet, FS_Singleton
  <2> QED
    BY <2>2, <2>3
<1> QED
  BY <1>1, <1>2, NextKnownInv, InductiveInvariant, PTL DEF Spec

-----------------------------------------------------------------------------
(* Refinement of JobQueue                                                  *)

\* A step that changes nothing the abstract queue of t sees is a stutter.
LEMMA QueueStutter ==
  ASSUME NEW t \in Scheduler,
         jobQueue'[t] = jobQueue[t], finishedJobs'[t] = finishedJobs[t],
         Active(t)' = Active(t), Executed(t)' = Executed(t)
  PROVE  UNCHANGED Queue(t)!queueVars
BY DEF Queue!queueVars

\* Every step of the service is a step of every abstract queue, or a stutter.
LEMMA NextRefinesQueue ==
  ASSUME IInv, [Next]_vars, NEW t \in Scheduler
  PROVE  Queue(t)!QueueNext \/ UNCHANGED Queue(t)!queueVars
<1>0. TypeOK
  BY DEF IInv
<1> USE SchedulerAssumption DEF serviceVars, schedulerVars, clientVars, runnerVars
<1>1. ASSUME NEW s \in Scheduler, ServiceStart(s)
      PROVE  UNCHANGED Queue(t)!queueVars
  <2>1. Active(t)' = Active(t) /\ Executed(t)' = Executed(t)
    BY <1>0, <1>1 DEF ServiceStart, Goto, Active, Executed, IInv, TypeOK,
           ThreadInv, RunnerInv
  <2>2. QED
    BY <1>1, <2>1, QueueStutter DEF ServiceStart
<1>2. ASSUME NEW s \in Scheduler, TakeEnter(s)
      PROVE  UNCHANGED Queue(t)!queueVars
  <2>1. Active(t)' = Active(t) /\ Executed(t)' = Executed(t)
    BY <1>0, <1>2 DEF TakeEnter, Goto, Active, Executed, IInv, TypeOK,
           ThreadInv, RunnerInv
  <2>2. QED
    BY <1>2, <2>1, QueueStutter DEF TakeEnter
<1>3. ASSUME NEW s \in Scheduler, SetRunning(s)
      PROVE  UNCHANGED Queue(t)!queueVars
  <2>1. Active(t)' = Active(t) /\ Executed(t)' = Executed(t)
    BY <1>0, <1>3 DEF SetRunning, Goto, Active, Executed, IInv, TypeOK,
           ThreadInv, RunnerInv
  <2>2. QED
    BY <1>3, <2>1, QueueStutter DEF SetRunning
<1>4. ASSUME NEW s \in Scheduler, StartRunner(s)
      PROVE  UNCHANGED Queue(t)!queueVars
  <2>1. Active(t)' = Active(t) /\ Executed(t)' = Executed(t)
    BY <1>0, <1>4 DEF StartRunner, Goto, Active, Executed, IInv, TypeOK,
           ThreadInv, RunnerInv
  <2>2. QED
    BY <1>4, <2>1, QueueStutter DEF StartRunner
<1>5. ASSUME NEW s \in Scheduler, Poll(s)
      PROVE  UNCHANGED Queue(t)!queueVars
  <2>1. Active(t)' = Active(t) /\ Executed(t)' = Executed(t)
    BY <1>0, <1>5 DEF Poll, Goto, Active, Executed, IInv, TypeOK,
           ThreadInv, RunnerInv
  <2>2. QED
    BY <1>5, <2>1, QueueStutter DEF Poll
<1>6. ASSUME NEW s \in Scheduler, WakeUp(s)
      PROVE  UNCHANGED Queue(t)!queueVars
  <2>1. Active(t)' = Active(t) /\ Executed(t)' = Executed(t)
    BY <1>0, <1>6 DEF WakeUp, Goto, Active, Executed, IInv, TypeOK,
           ThreadInv, RunnerInv
  <2>2. QED
    BY <1>6, <2>1, QueueStutter DEF WakeUp
<1>7. ASSUME NEW s \in Scheduler, ClearRunning(s)
      PROVE  UNCHANGED Queue(t)!queueVars
  <2>1. Active(t)' = Active(t) /\ Executed(t)' = Executed(t)
    BY <1>0, <1>7 DEF ClearRunning, Goto, Active, Executed, IInv, TypeOK,
           ThreadInv, RunnerInv
  <2>2. QED
    BY <1>7, <2>1, QueueStutter DEF ClearRunning
<1>8. ASSUME NEW s \in Scheduler, Interrupt(s)
      PROVE  UNCHANGED Queue(t)!queueVars
  <2>1. Active(t)' = Active(t) /\ Executed(t)' = Executed(t)
    BY <1>0, <1>8 DEF Interrupt, Goto, Active, Executed, IInv, TypeOK,
           ThreadInv, RunnerInv
  <2>2. QED
    BY <1>8, <2>1, QueueStutter DEF Interrupt
<1>9. ASSUME NEW s \in Scheduler, HandleInterrupt(s)
      PROVE  UNCHANGED Queue(t)!queueVars
  <2>1. Active(t)' = Active(t) /\ Executed(t)' = Executed(t)
    BY <1>0, <1>9 DEF HandleInterrupt, Goto, Active, Executed, IInv, TypeOK,
           ThreadInv, RunnerInv
  <2>2. QED
    BY <1>9, <2>1, QueueStutter DEF HandleInterrupt
<1>10. ASSUME NEW j \in Job, SubmitRejected(j)
      PROVE  UNCHANGED Queue(t)!queueVars
  <2>1. Active(t)' = Active(t) /\ Executed(t)' = Executed(t)
    BY <1>0, <1>10 DEF SubmitRejected, Active, Executed, IInv, TypeOK,
           ThreadInv, RunnerInv
  <2>2. QED
    BY <1>10, <2>1, QueueStutter DEF SubmitRejected
<1>11. ASSUME NEW j \in Job, SubmitSetId(j)
      PROVE  UNCHANGED Queue(t)!queueVars
  <2>1. Active(t)' = Active(t) /\ Executed(t)' = Executed(t)
    <3>1. runner[j] = "new" /\ runner' = runner
      BY <1>0, <1>11 DEF SubmitSetId, IInv, TypeOK, RunnerInv
    <3>2. \A k \in Job : k # j => owner'[k] = owner[k]
      BY <1>0, <1>11 DEF SubmitSetId, TypeOK
    <3>3. Executed(t)' = Executed(t)
      BY <3>1, <3>2 DEF Executed
    <3>4. QED
      BY <1>11, <3>3 DEF SubmitSetId, Active
  <2>2. QED
    BY <1>11, <2>1, QueueStutter DEF SubmitSetId
<1>12. ASSUME NEW j \in Job, RunScript(j)
      PROVE  UNCHANGED Queue(t)!queueVars
  <2>1. Active(t)' = Active(t) /\ Executed(t)' = Executed(t)
    BY <1>0, <1>12 DEF RunScript, Active, Executed, IInv, TypeOK,
           ThreadInv, RunnerInv
  <2>2. QED
    BY <1>12, <2>1, QueueStutter DEF RunScript
<1>13. ASSUME ServiceStop PROVE UNCHANGED Queue(t)!queueVars
  <2>1. Active(t)' = Active(t) /\ Executed(t)' = Executed(t)
    BY <1>13 DEF ServiceStop, Active, Executed
  <2>2. QED
    BY <1>13, <2>1, QueueStutter DEF ServiceStop
<1>14. ASSUME GetInfo PROVE UNCHANGED Queue(t)!queueVars
  <2>1. Active(t)' = Active(t) /\ Executed(t)' = Executed(t)
    BY <1>14 DEF GetInfo, InfoRunning, InfoWaiting, InfoNext, InfoIterate, InfoCollect,
           InfoFailed, InfoReturned, Active, Executed
  <2>2. QED
    BY <1>14, <2>1, QueueStutter
       DEF GetInfo, InfoRunning, InfoWaiting, InfoNext, InfoIterate, InfoCollect,
           InfoFailed, InfoReturned
<1>15. ASSUME UNCHANGED vars PROVE UNCHANGED Queue(t)!queueVars
  <2>1. Active(t)' = Active(t) /\ Executed(t)' = Executed(t)
    BY <1>15 DEF vars, Active, Executed
  <2>2. QED
    BY <1>15, <2>1, QueueStutter DEF vars
<1>16. ASSUME NEW s \in Scheduler, TakeJob(s)
      PROVE  Queue(t)!QueueNext \/ UNCHANGED Queue(t)!queueVars
  <2>1. Executed(t)' = Executed(t)
    BY <1>16 DEF TakeJob, Executed
  <2>2. CASE t = s
    <3>1. /\ Active(t) = NoJob
          /\ Active(t)' = Head(jobQueue[t])
          /\ jobQueue[t] # <<>> /\ jobQueue'[t] = Tail(jobQueue[t])
          /\ finishedJobs'[t] = finishedJobs[t]
      BY <1>0, <1>16, <2>2
         DEF TakeJob, Goto, Active, IInv, TypeOK, ThreadInv
    <3>2. Queue(t)!Begin
      BY <2>1, <3>1 DEF Queue!Begin
    <3>3. QED
      BY <3>2 DEF Queue!QueueNext
  <2>3. CASE t # s
    <3>1. Active(t)' = Active(t) /\ jobQueue'[t] = jobQueue[t]
      BY <1>0, <1>16, <2>3 DEF TakeJob, Goto, Active, TypeOK
    <3>2. QED
      BY <1>16, <2>1, <3>1, QueueStutter DEF TakeJob
  <2>4. QED
    BY <2>2, <2>3
<1>17. ASSUME NEW s \in Scheduler, PutFinished(s)
      PROVE  Queue(t)!QueueNext \/ UNCHANGED Queue(t)!queueVars
  <2>1. Executed(t)' = Executed(t)
    BY <1>17 DEF PutFinished, Executed
  <2>2. CASE t = s
    <3> DEFINE r == runningJob[t]
    <3>1. /\ r \in Job /\ thread[t] = "put" /\ r = job[t]
          /\ phase[r] = "accepted" /\ owner[r] = t /\ runner[r] = "dead"
          /\ Active(t) = r /\ Active(t)' = NoJob
      BY <1>0, <1>17, <2>2
         DEF PutFinished, Goto, Active, IInv, TypeOK, ThreadInv
    <3>2. finishedJobs'[t] = Append(finishedJobs[t], r)
      BY <1>0, <1>17, <2>2, <3>1, PutIsAppend DEF PutFinished, TypeOK
    <3>3. Queue(t)!Complete
      BY <1>17, <2>1, <3>1, <3>2 DEF PutFinished, Executed, Queue!Complete
    <3>4. QED
      BY <3>3 DEF Queue!QueueNext
  <2>3. CASE t # s
    <3>1. Active(t)' = Active(t) /\ finishedJobs'[t] = finishedJobs[t]
      BY <1>0, <1>17, <2>3 DEF PutFinished, Goto, Active, TypeOK
    <3>2. QED
      BY <1>17, <2>1, <3>1, QueueStutter DEF PutFinished
  <2>4. QED
    BY <2>2, <2>3
<1>18. ASSUME NEW j \in Job, SubmitOffer(j)
      PROVE  Queue(t)!QueueNext \/ UNCHANGED Queue(t)!queueVars
  <2>1. Active(t)' = Active(t) /\ Executed(t)' = Executed(t)
    BY <1>18 DEF SubmitOffer, Active, Executed
  <2>2. CASE owner[j] = t
    <3>1. /\ phase[j] = "numbered" /\ runner[j] = "new"
          /\ jobQueue'[t] = Append(jobQueue[t], j)
          /\ finishedJobs'[t] = finishedJobs[t]
      BY <1>0, <1>18, <2>2 DEF SubmitOffer, IInv, TypeOK, RunnerInv
    <3>2. /\ j \notin Elements(jobQueue[t]) /\ j \notin Elements(finishedJobs[t])
          /\ j \notin Executed(t)
      BY <3>1 DEF IInv, QueueInv, FinishedInv, Executed
    <3>3. j # Active(t)
      <4>1. j # NoJob
        OBVIOUS
      <4>2. QED
        BY <1>0, <3>1, <4>1, RunningIsAccepted DEF IInv
    <3>4. Queue(t)!Accept(j)
      BY <2>1, <3>1, <3>2, <3>3 DEF Queue!Accept, Queue!Elements, Elements
    <3>5. QED
      BY <3>4 DEF Queue!QueueNext
  <2>3. CASE owner[j] # t
    <3>1. jobQueue'[t] = jobQueue[t]
      BY <1>0, <1>18, <2>3 DEF SubmitOffer, TypeOK
    <3>2. QED
      BY <1>18, <2>1, <3>1, QueueStutter DEF SubmitOffer
  <2>4. QED
    BY <2>2, <2>3
<1>19. ASSUME NEW j \in Job, CloseShell(j)
      PROVE  Queue(t)!QueueNext \/ UNCHANGED Queue(t)!queueVars
  <2>1. Active(t)' = Active(t)
    BY <1>19 DEF CloseShell, Active
  <2>2. CASE owner[j] = t
    <3>1. Active(t) = j
      BY <1>19, <2>2 DEF CloseShell, IInv, RunnerInv, Alive, Active
    <3>2. j \notin Executed(t) /\ Executed(t)' = Executed(t) \cup {j}
      BY <1>0, <1>19, <2>2 DEF CloseShell, Executed, TypeOK
    <3>3. Queue(t)!Execute
      BY <1>19, <2>1, <3>1, <3>2 DEF CloseShell, Queue!Execute
    <3>4. QED
      BY <3>3 DEF Queue!QueueNext
  <2>3. CASE owner[j] # t
    <3>1. Executed(t)' = Executed(t)
      BY <1>0, <1>19, <2>3 DEF CloseShell, Executed, TypeOK
    <3>2. QED
      BY <1>19, <2>1, <3>1, QueueStutter DEF CloseShell
  <2>4. QED
    BY <2>2, <2>3
<1>20. ASSUME NEW j \in Job, ShellFails(j)
      PROVE  Queue(t)!QueueNext \/ UNCHANGED Queue(t)!queueVars
  <2>1. Active(t)' = Active(t)
    BY <1>20 DEF ShellFails, Active
  <2>2. CASE owner[j] = t
    <3>1. Active(t) = j
      BY <1>20, <2>2 DEF ShellFails, IInv, RunnerInv, Alive, Active
    <3>2. j \notin Executed(t) /\ Executed(t)' = Executed(t) \cup {j}
      BY <1>0, <1>20, <2>2 DEF ShellFails, Executed, TypeOK
    <3>3. Queue(t)!Execute
      BY <1>20, <2>1, <3>1, <3>2 DEF ShellFails, Queue!Execute
    <3>4. QED
      BY <3>3 DEF Queue!QueueNext
  <2>3. CASE owner[j] # t
    <3>1. Executed(t)' = Executed(t)
      BY <1>0, <1>20, <2>3 DEF ShellFails, Executed, TypeOK
    <3>2. QED
      BY <1>20, <2>1, <3>1, QueueStutter DEF ShellFails
  <2>4. QED
    BY <2>2, <2>3
<1> QED
  BY <1>1, <1>2, <1>3, <1>4, <1>5, <1>6, <1>7, <1>8, <1>9, <1>10, <1>11,
     <1>12, <1>13, <1>14, <1>15, <1>16, <1>17, <1>18, <1>19, <1>20
     DEF Next, ServiceNext, SchedulerThread, Submit, Runner

\* Every scheduler implements the abstract queue JobQueue, for any jobs and any
\* number of restarts.
THEOREM SchedulerImplementsJobQueue == Spec => ImplementsJobQueue
<1>1. Init => \A s \in Scheduler : Queue(s)!QueueInit
  BY DEF Init, Queue!QueueInit, Active, Executed
<1>2. IInv /\ [Next]_vars =>
        \A s \in Scheduler : Queue(s)!QueueNext \/ UNCHANGED Queue(s)!queueVars
  BY NextRefinesQueue
<1>3. QED
  BY <1>1, <1>2, InductiveInvariant, PTL DEF Spec, ImplementsJobQueue
=============================================================================
