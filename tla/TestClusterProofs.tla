-------------------------- MODULE TestClusterProofs --------------------------
(***************************************************************************)
(* What the jobs of a test cluster are made of, for any scripts, clients   *)
(* and parameters, and whatever is installed or removed meanwhile: the     *)
(* fields of the one executor hold what was put into them last, by a       *)
(* request that then failed or not, and what a job takes from them is what *)
(* they held when it was mapped, or later if another request has overtaken *)
(* it.  And what the deployment scripts keep, whichever of their commands fail and however   *)
(* often they are called: the order of install() and of uninstall() keeps  *)
(* a module from running without those whose locations it was given.       *)
(***************************************************************************)
EXTENDS TestCluster, SequenceTheorems, TLAPS

-----------------------------------------------------------------------------
(* The inductive invariant                                                 *)

Place == {"new", "mapped", "made", "called", "true", "error", "timed out", "late"}

SubmitType ==
  /\ pc \in [Request -> Place]
  /\ field \in [Param -> Request \cup {Nothing}]
  /\ job \in [Request -> [Param -> Request \cup {Nothing}]]
  /\ mapped \in [Request -> Nat] /\ clock \in Nat
  /\ stated \in [Request -> SUBSET Param]

\* The clock counts the requests that have been mapped, and only they have
\* put parameters into the fields.
MappedInv == \A r \in Request : /\ mapped[r] <= clock
                                /\ pc[r] = "new" <=> mapped[r] = 0
                                /\ pc[r] = "new" => stated[r] = {}

\* Every field has the value that was put into it last.
FieldInv == \A p \in Param : IsLastGiven(field[p], p, clock)

\* A request that nobody has overtaken is the last that was mapped.
BusyInv == \A r \in Busy \ overtaken : mapped[r] = clock

\* What is taken from the executor: the value of a moment since the request
\* was mapped, of the mapping itself unless it is overtaken.
Taken(r, p) ==
  \/ \E n \in mapped[r] .. clock :
       /\ IsLastGiven(job[r][p], p, n)
       /\ r \notin overtaken => n = mapped[r]
  \/ p = "words" /\ job[r]["words"] = Nothing /\ job[r]["file"] # Nothing

MadeInv == \A r \in Request :
             pc[r] = "made" => \A p \in {"file", "words", "description"} : Taken(r, p)

SubmitInv == SubmitType /\ MappedInv /\ FieldInv /\ BusyInv /\ MadeInv /\ JobIsLastGiven

USE SubmitAssumption

-----------------------------------------------------------------------------
(* Facts about the last request that stated a parameter                    *)

\* What was put in last up to a moment stays so when a new request is mapped.
LEMMA LastGivenStays ==
  ASSUME SubmitType, MappedInv, NEW r \in Request, NEW part \in SUBSET Param, NEW to,
         MapPart(r, part, to), NEW p \in Param,
         NEW q \in Request \cup {Nothing}, NEW n \in Nat, n <= clock,
         IsLastGiven(q, p, n)
  PROVE  IsLastGiven(q, p, n)'
<1>1. /\ stated[r] = {} /\ mapped' = [mapped EXCEPT ![r] = clock + 1]
      /\ stated' = [stated EXCEPT ![r] = part]
  BY DEF MapPart, Move, MappedInv
<1>2. \A x \in Request : /\ mapped'[x] = IF x = r THEN clock + 1 ELSE mapped[x]
                         /\ x # r => stated'[x] = stated[x]
  BY <1>1 DEF SubmitType
<1>3. clock + 1 > n
  BY DEF SubmitType
<1> QED
  BY <1>1, <1>2, <1>3 DEF IsLastGiven, SubmitType

\* The fields hold what was put in last after a request is mapped, all of it
\* or a part.
LEMMA MapKeepsFields ==
  ASSUME SubmitType, MappedInv, FieldInv, NEW r \in Request,
         NEW part \in SUBSET Param, NEW to, MapPart(r, part, to)
  PROVE  FieldInv'
<1> SUFFICES ASSUME NEW p \in Param PROVE IsLastGiven(field[p], p, clock)'
  BY DEF FieldInv
<1>1. /\ stated[r] = {} /\ mapped' = [mapped EXCEPT ![r] = clock + 1]
      /\ stated' = [stated EXCEPT ![r] = part]
      /\ clock' = clock + 1
      /\ field'[p] = IF p \in part THEN r ELSE field[p]
  BY DEF MapPart, Move, MappedInv, Mapped
<1>2. \A x \in Request : /\ mapped'[x] = IF x = r THEN clock + 1 ELSE mapped[x]
                         /\ stated'[x] = IF x = r THEN part ELSE stated[x]
  BY <1>1 DEF SubmitType
<1>3. \A x \in Request : mapped[x] \in Nat /\ mapped[x] <= clock
  BY DEF SubmitType, MappedInv
<1>4. clock \in Nat
  BY DEF SubmitType
<1>5. CASE p \in part
  <2>1. field'[p] = r /\ r # Nothing
    BY <1>1, <1>5
  <2>2. mapped'[r] = clock + 1 /\ p \in stated'[r]
    BY <1>2, <1>5
  <2>3. \A x \in Request : mapped'[x] <= clock + 1
    BY <1>2, <1>3, <1>4
  <2> QED
    BY <1>1, <1>4, <2>1, <2>2, <2>3 DEF IsLastGiven
<1>6. CASE p \notin part
  <2>1. IsLastGiven(field[p], p, clock) /\ field'[p] = field[p]
    BY <1>1, <1>6 DEF FieldInv
  <2>2. \A x \in Request : p \in stated'[x] =>
          p \in stated[x] /\ mapped'[x] = mapped[x] /\ mapped[x] <= clock
    BY <1>2, <1>3, <1>6
  <2>3. CASE field[p] = Nothing
    <3>1. \A x \in Request : p \notin stated'[x]
      BY <1>3, <1>4, <2>1, <2>2, <2>3 DEF IsLastGiven
    <3> QED
      BY <2>1, <2>3, <3>1 DEF IsLastGiven
  <2>4. CASE field[p] # Nothing
    <3>1. field[p] \in Request /\ p \in stated[field[p]]
      BY <2>1, <2>4 DEF IsLastGiven
    <3>2. field[p] # r /\ p \in stated'[field[p]]
      BY <1>1, <1>2, <3>1
    <3>3. \A x \in Request : p \in stated'[x] => mapped'[x] <= mapped'[field[p]]
      BY <1>3, <1>4, <2>1, <2>2, <2>4, <3>1, <3>2 DEF IsLastGiven
    <3>4. mapped'[field[p]] <= clock + 1
      BY <1>3, <1>4, <2>2, <3>1, <3>2
    <3> QED
      BY <1>1, <2>1, <2>4, <3>1, <3>2, <3>3, <3>4 DEF IsLastGiven
  <2> QED
    BY <2>3, <2>4
<1> QED
  BY <1>5, <1>6

-----------------------------------------------------------------------------
(* The steps of a request                                                  *)

\* The invariant holds at the start.
LEMMA InitSubmitInv == SubmitInit => SubmitInv
<1> SUFFICES ASSUME SubmitInit PROVE SubmitInv
  OBVIOUS
<1>1. /\ \A r \in Request : pc[r] = "new" /\ mapped[r] = 0 /\ stated[r] = {}
      /\ \A p \in Param : field[p] = Nothing
      /\ clock = 0
  BY DEF SubmitInit
<1>2. SubmitType
  BY DEF SubmitInit, SubmitType, Place
<1>3. MappedInv
  BY <1>1 DEF MappedInv
<1>5. BusyInv /\ MadeInv /\ JobIsLastGiven
  <2>1. Busy = {}
    BY <1>1 DEF Busy
  <2>2. BusyInv
    BY <2>1 DEF BusyInv
  <2>3. MadeInv
    BY <1>1 DEF MadeInv
  <2>4. \A r \in Request : pc[r] \notin {"called", "timed out", "true", "late"}
    BY <1>1
  <2>5. JobIsLastGiven
    BY <2>4 DEF JobIsLastGiven
  <2> QED
    BY <2>2, <2>3, <2>5
<1>4. FieldInv
  BY <1>1 DEF FieldInv, IsLastGiven
<1> QED
  BY <1>2, <1>3, <1>4, <1>5 DEF SubmitInv

\* Mapping a request, to the end or not: the others on their way are overtaken.
LEMMA MapStep ==
  ASSUME SubmitInv, NEW r \in Request, NEW part \in SUBSET Param,
         NEW to \in {"mapped", "error"}, MapPart(r, part, to)
  PROVE  SubmitInv'
<1> USE DEF SubmitInv
<1>1. /\ pc[r] = "new" /\ pc' = [pc EXCEPT ![r] = to]
      /\ mapped' = [mapped EXCEPT ![r] = clock + 1] /\ clock' = clock + 1
      /\ stated' = [stated EXCEPT ![r] = part]
      /\ overtaken' = overtaken \cup Busy
      /\ job' = job
      /\ field' = [p \in Param |-> IF p \in part THEN r ELSE field[p]]
  BY DEF MapPart, Move, Mapped
<1>2. SubmitType'
  <2>1. pc' \in [Request -> Place]
    BY <1>1 DEF SubmitType, Place
  <2>2. field' \in [Param -> Request \cup {Nothing}]
    BY <1>1 DEF SubmitType
  <2>3. mapped' \in [Request -> Nat] /\ clock' \in Nat
    BY <1>1 DEF SubmitType
  <2>4. stated' \in [Request -> SUBSET Param]
    BY <1>1 DEF SubmitType
  <2> QED
    BY <1>1, <2>1, <2>2, <2>3, <2>4 DEF SubmitType
<1>3. /\ \A x \in Request : /\ mapped'[x] = IF x = r THEN clock + 1 ELSE mapped[x]
                            /\ pc'[x] = IF x = r THEN to ELSE pc[x]
                            /\ x # r => stated'[x] = stated[x]
                            /\ mapped[x] \in Nat /\ mapped[x] <= clock
      /\ clock \in Nat
  BY <1>1 DEF SubmitType, MappedInv
<1>4. MappedInv'
  BY <1>1, <1>3 DEF MappedInv
<1>5. FieldInv'
  BY MapKeepsFields
<1>6. BusyInv'
  BY <1>1, <1>3 DEF BusyInv, Busy
<1>7. ASSUME NEW x \in Request, x # r, NEW p \in Param, Taken(x, p)
      PROVE  Taken(x, p)'
  <2>1. mapped'[x] = mapped[x] /\ mapped[x] \in Nat /\ mapped[x] <= clock
    BY <1>3, <1>7
  <2>2. PICK q \in Request \cup {Nothing} : q = job[x][p]
    BY DEF SubmitType
  <2>3. ASSUME NEW n \in mapped[x] .. clock, IsLastGiven(q, p, n),
               x \notin overtaken => n = mapped[x]
        PROVE  Taken(x, p)'
    <3>1. n \in Nat /\ n <= clock /\ n \in mapped'[x] .. clock'
      BY <1>1, <1>3, <2>1
    <3>2. IsLastGiven(q, p, n)'
      BY <2>3, <3>1, LastGivenStays
    <3>3. x \notin overtaken' => n = mapped'[x]
      BY <1>1, <2>1, <2>3
    <3>4. q' = job'[x][p]
      BY <1>1, <2>2
    <3> QED
      BY <3>1, <3>2, <3>3, <3>4 DEF Taken
  <2> QED
    BY <1>1, <1>7, <2>2, <2>3 DEF Taken
<1>8. MadeInv'
  BY <1>1, <1>3, <1>7 DEF MadeInv
<1>9. JobIsLastGiven'
  <2> SUFFICES ASSUME NEW x \in Request,
                      pc'[x] \in {"called", "timed out", "true", "late"},
                      NEW p \in Param
               PROVE  Taken(x, p)'
    BY DEF JobIsLastGiven, Taken
  <2>1. x # r /\ pc[x] \in {"called", "timed out", "true", "late"}
    BY <1>3
  <2>2. Taken(x, p)
    BY <2>1 DEF JobIsLastGiven, Taken
  <2> QED
    BY <1>7, <2>1, <2>2
<1> QED
  BY <1>2, <1>4, <1>5, <1>6, <1>8, <1>9

\* The steps after it move one request and may change its job.
LEMMA JobStep ==
  ASSUME SubmitInv, NEW r \in Request, NEW to \in Place \ {"new"},
         pc[r] # "new", pc' = [pc EXCEPT ![r] = to],
         to \in {"mapped", "made"} => pc[r] \in {"mapped", "made"},
         job' \in [Request -> [Param -> Request \cup {Nothing}]],
         \A x \in Request \ {r} : job'[x] = job[x],
         UNCHANGED <<field, mapped, stated, clock, overtaken>>,
         to = "made" =>
           \A p \in {"file", "words", "description"} : Taken(r, p)',
         to \in {"called", "timed out", "true", "late"} =>
           \A p \in Param : Taken(r, p)'
  PROVE  SubmitInv'
<1> USE DEF SubmitInv
<1>1. SubmitType'
  BY DEF SubmitType
<1>2. \A x \in Request : pc'[x] = IF x = r THEN to ELSE pc[x]
  BY DEF SubmitType
<1>3. MappedInv'
  <2>1. MappedInv /\ to # "new" /\ UNCHANGED <<mapped, stated, clock>>
    BY DEF Place
  <2> HIDE DEF SubmitInv
  <2> SUFFICES ASSUME NEW x \in Request
               PROVE  /\ mapped[x] <= clock /\ (pc'[x] = "new" <=> mapped[x] = 0)
                      /\ pc'[x] = "new" => stated[x] = {}
    BY <2>1 DEF MappedInv
  <2>2. /\ mapped[x] <= clock /\ (pc[x] = "new" <=> mapped[x] = 0)
        /\ pc[x] = "new" => stated[x] = {}
    BY <2>1 DEF MappedInv
  <2>3. pc'[x] = "new" <=> pc[x] = "new"
    BY <1>2, <2>1
  <2> QED
    BY <2>2, <2>3
<1>4. FieldInv'
  BY DEF FieldInv, IsLastGiven
<1>5. BusyInv'
  BY <1>2 DEF BusyInv, Busy
<1>6. ASSUME NEW x \in Request \ {r}, NEW p \in Param, Taken(x, p) PROVE Taken(x, p)'
  <2>1. job'[x] = job[x] /\ UNCHANGED <<mapped, stated, clock, overtaken>>
    OBVIOUS
  <2>2. \A q, n : IsLastGiven(q, p, n)' <=> IsLastGiven(q, p, n)
    BY <2>1, Zenon DEF IsLastGiven
  <2> HIDE DEF SubmitInv
  <2> QED
    BY <1>6, <2>1, <2>2, Zenon DEF Taken
<1>7. MadeInv'
  <2> SUFFICES ASSUME NEW x \in Request, pc'[x] = "made",
                      NEW p \in {"file", "words", "description"}
               PROVE  Taken(x, p)'
    BY DEF MadeInv
  <2>1. CASE x = r
    BY <1>2, <2>1
  <2>2. CASE x # r
    <3>0. pc[x] = "made"
      BY <1>2, <2>2
    <3>1. Taken(x, p)
      BY <3>0 DEF MadeInv
    <3> QED
      BY <1>6, <2>2, <3>1
  <2> QED
    BY <2>1, <2>2
<1>8. JobIsLastGiven'
  <2> SUFFICES ASSUME NEW x \in Request,
                      pc'[x] \in {"called", "timed out", "true", "late"},
                      NEW p \in Param
               PROVE  Taken(x, p)'
    BY DEF JobIsLastGiven, Taken
  <2>1. CASE x = r
    BY <1>2, <2>1
  <2>2. CASE x # r
    <3>1. Taken(x, p)
      BY <1>2, <2>2 DEF JobIsLastGiven, Taken
    <3> QED
      BY <1>6, <2>2, <3>1
  <2> QED
    BY <2>1, <2>2
<1> QED
  BY <1>1, <1>3, <1>4, <1>5, <1>7, <1>8

\* Making the job: file and description are the fields' values, the words too
\* unless a file was ever named.
LEMMA MakeStep == ASSUME SubmitInv, NEW r \in Request, Make(r) PROVE SubmitInv'
<1> USE DEF SubmitInv
<1>1. /\ pc[r] = "mapped"
      /\ UNCHANGED <<field, mapped, stated, clock, overtaken>>
  BY DEF Make, Move
<1>2. PICK to \in {"made", "error"} : pc' = [pc EXCEPT ![r] = to]
  BY DEF Make, Move
<1>3. /\ job' \in [Request -> [Param -> Request \cup {Nothing}]]
      /\ \A x \in Request \ {r} : job'[x] = job[x]
      /\ job'[r]["file"] = field["file"]
      /\ job'[r]["words"] = IF field["file"] = Nothing THEN field["words"] ELSE Nothing
      /\ job'[r]["description"] = field["description"]
  <2>1. PICK w : w = IF field["file"] = Nothing THEN field["words"] ELSE Nothing
    OBVIOUS
  <2>2. /\ job \in [Request -> [Param -> Request \cup {Nothing}]]
        /\ {"file", "words", "description"} \subseteq Param
        /\ field["file"] \in Request \cup {Nothing} /\ w \in Request \cup {Nothing}
        /\ field["description"] \in Request \cup {Nothing}
    BY <2>1 DEF SubmitType
  <2>3. job' = [job EXCEPT ![r]["file"] = field["file"], ![r]["words"] = w,
                           ![r]["description"] = field["description"]]
    BY <2>1 DEF Make
  <2> HIDE DEF SubmitInv
  <2>4. job' \in [Request -> [Param -> Request \cup {Nothing}]]
    BY <2>2, <2>3
  <2>5. \A x \in Request \ {r} : job'[x] = job[x]
    BY <2>2, <2>3
  <2>6. /\ job'[r]["file"] = field["file"] /\ job'[r]["words"] = w
        /\ job'[r]["description"] = field["description"]
    BY <2>2, <2>3
  <2> QED
    BY <2>1, <2>4, <2>5, <2>6
<1>4. ASSUME NEW p \in {"file", "words", "description"}
      PROVE  Taken(r, p)'
  <2>1. mapped[r] \in Nat /\ clock \in Nat /\ mapped[r] <= clock
    BY DEF SubmitType, MappedInv
  <2>2. clock' \in mapped'[r] .. clock' /\ (r \notin overtaken' => clock' = mapped'[r])
    BY <1>1, <2>1 DEF BusyInv, Busy
  <2>3. IsLastGiven(field[p], p, clock)
    BY DEF FieldInv
  <2>4. IsLastGiven(field[p], p, clock)'
    BY <1>1, <2>3 DEF IsLastGiven
  <2> QED
    BY <1>1, <1>3, <2>2, <2>4 DEF Taken
<1> QED
  BY <1>1, <1>2, <1>3, <1>4, JobStep DEF Place

\* Sending the job: its properties are what the map of the fields holds now.
LEMMA SendStep == ASSUME SubmitInv, NEW r \in Request, Send(r) PROVE SubmitInv'
<1> USE DEF SubmitInv
<1>1. /\ pc[r] = "made" /\ pc' = [pc EXCEPT ![r] = "called"]
      /\ UNCHANGED <<field, mapped, stated, clock, overtaken>>
      /\ job' = [job EXCEPT ![r] =
                  [p \in Param |-> IF p \in Property THEN field[p] ELSE @[p]]]
  BY DEF Send, Move
<1>2. /\ job' \in [Request -> [Param -> Request \cup {Nothing}]]
      /\ \A x \in Request \ {r} : job'[x] = job[x]
      /\ \A p \in Param : job'[r][p] = IF p \in Property THEN field[p] ELSE job[r][p]
  BY <1>1 DEF SubmitType
<1>3. ASSUME NEW p \in Param
      PROVE  Taken(r, p)'
  <2>1. CASE p \in Property
    <3>1. mapped[r] \in Nat /\ clock \in Nat /\ mapped[r] <= clock
      BY DEF SubmitType, MappedInv
    <3>2. clock' \in mapped'[r] .. clock' /\ (r \notin overtaken' => clock' = mapped'[r])
      BY <1>1, <3>1 DEF BusyInv, Busy
    <3>3. IsLastGiven(field[p], p, clock)
      BY DEF FieldInv
    <3>4. IsLastGiven(field[p], p, clock)'
      BY <1>1, <3>3 DEF IsLastGiven
    <3> QED
      BY <1>1, <1>2, <2>1, <3>2, <3>4 DEF Taken
  <2>2. CASE p \notin Property
    <3>1. p \in {"file", "words", "description"}
      BY <2>2 DEF Property
    <3>2. Taken(r, p)
      BY <1>1, <1>3, <3>1 DEF MadeInv
    <3>3. job'[r][p] = job[r][p] /\ \A q \in {"words", "file"} : job'[r][q] = job[r][q]
      BY <1>2, <2>2 DEF Property
    <3> QED
      BY <1>1, <3>2, <3>3 DEF Taken, IsLastGiven
  <2> QED
    BY <2>1, <2>2
<1> QED
  BY <1>1, <1>2, <1>3, JobStep DEF Place

\* The outcomes of the call change no job.
LEMMA CallStep ==
  ASSUME SubmitInv, NEW r \in Request, Answer(r) \/ Refuse(r) \/ TimeOut(r)
  PROVE  SubmitInv'
<1> USE DEF SubmitInv
<1>1. /\ pc[r] \in {"called", "timed out"}
      /\ UNCHANGED <<field, job, mapped, stated, clock, overtaken>>
  BY DEF Answer, Refuse, TimeOut, Move
<1>2. PICK to \in {"true", "late", "error", "timed out"} : pc' = [pc EXCEPT ![r] = to]
  BY DEF Answer, Refuse, TimeOut, Move
<1>3. ASSUME NEW p \in Param PROVE Taken(r, p)'
  <2>1. Taken(r, p)
    BY <1>1 DEF JobIsLastGiven, Taken
  <2>2. UNCHANGED <<job, mapped, stated, clock, overtaken>>
    BY <1>1
  <2>3. \A q, n : IsLastGiven(q, p, n)' <=> IsLastGiven(q, p, n)
    BY <2>2, Zenon DEF IsLastGiven
  <2> HIDE DEF SubmitInv
  <2> QED
    BY <2>1, <2>2, <2>3, Zenon DEF Taken
<1> QED
  BY <1>1, <1>2, <1>3, JobStep DEF Place, SubmitType

\* Every step of the cluster is one of a request or leaves them all alone.
LEMMA NextSubmitInv == SubmitInv /\ [TestNext]_testVars => SubmitInv'
<1> SUFFICES ASSUME SubmitInv, [TestNext]_testVars PROVE SubmitInv'
  OBVIOUS
<1>1. ASSUME NEW r \in Request, Submit(r) PROVE SubmitInv'
  <2>1. Given[r] \in SUBSET Param
    OBVIOUS
  <2>2. CASE Map(r)
    BY <2>1, <2>2, MapStep DEF Map
  <2>3. CASE MapFails(r)
    BY <2>1, <2>3, MapStep DEF MapFails
  <2> QED
    BY <1>1, <2>2, <2>3, MakeStep, SendStep DEF Submit, Execute
<1>2. ASSUME NEW r \in Request, Accept(r) \/ Reject(r) \/ Miss(r) PROVE SubmitInv'
  BY <1>2, CallStep DEF Accept, Reject, Miss
<1>3. CASE UNCHANGED submitVars
  <2>1. UNCHANGED <<pc, field, job, mapped, stated, clock, overtaken>>
    BY <1>3 DEF submitVars
  <2>2. SubmitType' /\ MappedInv'
    BY <2>1 DEF SubmitInv, SubmitType, MappedInv
  <2>5. BusyInv'
    BY <2>1 DEF SubmitInv, BusyInv, Busy
  <2>6. FieldInv'
    BY <2>1 DEF SubmitInv, FieldInv, IsLastGiven
  <2>3. JobIsLastGiven'
    <3>1. \A q, p, n : IsLastGiven(q, p, n)' <=> IsLastGiven(q, p, n)
      BY <2>1 DEF IsLastGiven
    <3>2. JobIsLastGiven
      BY DEF SubmitInv
    <3> QED
      BY <2>1, <3>1, <3>2 DEF JobIsLastGiven
  <2>4. MadeInv'
    BY <2>1 DEF SubmitInv, MadeInv, Taken, IsLastGiven
  <2> QED
    BY <2>2, <2>3, <2>4, <2>5, <2>6 DEF SubmitInv
<1> QED
  BY <1>1, <1>2, <1>3 DEF TestNext, Deploy, Run, testVars

-----------------------------------------------------------------------------
(* The line of jobs                                                        *)

QueueType ==
  /\ waiting \in Seq(Request) /\ done \in Seq(Request)
  /\ active \in Request \cup {Nothing}
  /\ executed \in SUBSET Request /\ lost \in SUBSET Request

\* A request is sent after all those before it in its script got their answer.
CallsInv ==
  \A c \in Client : \A i \in DOMAIN Calls[c] :
    pc[Calls[c][i]] # "new" => \A h \in 1 .. i - 1 : pc[Calls[c][h]] = "true"

LineInv == QueueType /\ CallsInv /\ TrueIsKept /\ ScriptOrder

\* One job or none.
Slot(x) == IF x = Nothing THEN <<>> ELSE <<x>>

\* The line is a sequence of requests.
LEMMA LineType == ASSUME QueueType PROVE Line \in Seq(Request)
<1>1. Slot(active) \in Seq(Request)
  BY DEF QueueType, Slot
<1> QED
  BY <1>1, ConcatProperties DEF QueueType, Line, Slot

\* What the scheduler knows of is what is in the line.
LEMMA KnownIsLine == ASSUME QueueType PROVE Known = Q!Elements(Line)
<1>1. /\ Len(done) \in Nat /\ DOMAIN done = 1 .. Len(done)
      /\ Len(waiting) \in Nat /\ DOMAIN waiting = 1 .. Len(waiting)
  BY DEF QueueType
<1>2. CASE active = Nothing
  <2>1. Line = done \o waiting
    BY <1>2, ConcatEmptySeq DEF QueueType, Line
  <2>2. /\ DOMAIN Line = 1 .. Len(done) + Len(waiting)
        /\ \A i \in 1 .. Len(done) : Line[i] = done[i]
        /\ \A i \in 1 .. Len(waiting) : Line[Len(done) + i] = waiting[i]
    BY <1>1, <2>1 DEF QueueType
  <2>3. ASSUME NEW x \in Q!Elements(Line) PROVE x \in Known
    <3>1. PICK i \in 1 .. Len(done) + Len(waiting) : Line[i] = x
      BY <2>2, <2>3 DEF Q!Elements
    <3>2. CASE i \in 1 .. Len(done)
      BY <1>1, <2>2, <3>1, <3>2 DEF Known, Q!Elements
    <3>3. CASE i \notin 1 .. Len(done)
      <4>1. i - Len(done) \in 1 .. Len(waiting) /\ Len(done) + (i - Len(done)) = i
        BY <1>1, <3>3
      <4>2. waiting[i - Len(done)] = x
        BY <2>2, <3>1, <4>1
      <4> QED
        BY <1>1, <4>1, <4>2 DEF Known, Q!Elements
    <3> QED
      BY <3>2, <3>3
  <2>4. \A i \in DOMAIN done : done[i] \in Q!Elements(Line)
    <3> SUFFICES ASSUME NEW i \in DOMAIN done PROVE done[i] \in Q!Elements(Line)
      OBVIOUS
    <3>1. i \in DOMAIN Line /\ Line[i] = done[i]
      BY <1>1, <2>2
    <3> QED
      BY <3>1 DEF Q!Elements
  <2>5. \A i \in DOMAIN waiting : waiting[i] \in Q!Elements(Line)
    <3> SUFFICES ASSUME NEW i \in DOMAIN waiting PROVE waiting[i] \in Q!Elements(Line)
      OBVIOUS
    <3>1. Len(done) + i \in DOMAIN Line /\ Line[Len(done) + i] = waiting[i]
      BY <1>1, <2>2
    <3> QED
      BY <3>1 DEF Q!Elements
  <2> QED
    <3>1. Known \subseteq Q!Elements(Line)
      <4>1. /\ Q!Elements(done) \subseteq Q!Elements(Line)
            /\ Q!Elements(waiting) \subseteq Q!Elements(Line)
        BY <2>4, <2>5 DEF Q!Elements
      <4> QED
        BY <1>2, <4>1 DEF Known
    <3> QED
      BY <2>3, <3>1
<1>3. CASE active # Nothing
  <2>1. Line = done \o <<active>> \o waiting
    BY <1>3 DEF Line
  <2>2. /\ DOMAIN Line = 1 .. Len(done) + 1 + Len(waiting)
        /\ \A i \in 1 .. Len(done) : Line[i] = done[i]
        /\ Line[Len(done) + 1] = active
        /\ \A i \in 1 .. Len(waiting) : Line[Len(done) + 1 + i] = waiting[i]
    BY <1>1, <1>3, <2>1 DEF QueueType
  <2>3. ASSUME NEW x \in Q!Elements(Line) PROVE x \in Known
    <3>1. PICK i \in 1 .. Len(done) + 1 + Len(waiting) : Line[i] = x
      BY <2>2, <2>3 DEF Q!Elements
    <3>2. CASE i \in 1 .. Len(done)
      BY <1>1, <2>2, <3>1, <3>2 DEF Known, Q!Elements
    <3>3. CASE i = Len(done) + 1
      BY <1>3, <2>2, <3>1, <3>3 DEF Known
    <3>4. CASE i \notin 1 .. Len(done) + 1
      <4>1. /\ i - (Len(done) + 1) \in 1 .. Len(waiting)
            /\ Len(done) + 1 + (i - (Len(done) + 1)) = i
        BY <1>1, <3>4
      <4>2. waiting[i - (Len(done) + 1)] = x
        BY <2>2, <3>1, <4>1
      <4> QED
        BY <1>1, <4>1, <4>2 DEF Known, Q!Elements
    <3> QED
      BY <1>1, <3>2, <3>3, <3>4
  <2>4. \A i \in DOMAIN done : done[i] \in Q!Elements(Line)
    <3> SUFFICES ASSUME NEW i \in DOMAIN done PROVE done[i] \in Q!Elements(Line)
      OBVIOUS
    <3>1. i \in DOMAIN Line /\ Line[i] = done[i]
      BY <1>1, <2>2
    <3> QED
      BY <3>1 DEF Q!Elements
  <2>5. \A i \in DOMAIN waiting : waiting[i] \in Q!Elements(Line)
    <3> SUFFICES ASSUME NEW i \in DOMAIN waiting PROVE waiting[i] \in Q!Elements(Line)
      OBVIOUS
    <3>1. i \in 1 .. Len(waiting)
      BY <1>1
    <3>2. Len(done) + 1 + i \in 1 .. Len(done) + 1 + Len(waiting)
      BY <1>1, <3>1
    <3>3. Len(done) + 1 + i \in DOMAIN Line /\ Line[Len(done) + 1 + i] = waiting[i]
      BY <2>2, <3>1, <3>2
    <3> QED
      BY <3>3 DEF Q!Elements
  <2>6. active \in Q!Elements(Line)
    <3>1. Len(done) + 1 \in DOMAIN Line
      BY <1>1, <2>2
    <3> QED
      BY <2>2, <3>1 DEF Q!Elements
  <2> QED
    <3>1. Known \subseteq Q!Elements(Line)
      <4>1. /\ Q!Elements(done) \subseteq Q!Elements(Line)
            /\ Q!Elements(waiting) \subseteq Q!Elements(Line)
        BY <2>4, <2>5 DEF Q!Elements
      <4> QED
        BY <2>6, <4>1 DEF Known
    <3> QED
      BY <2>3, <3>1
<1> QED
  BY <1>2, <1>3

\* The scheduler moves along the line, which stays as it is.
LEMMA RunKeepsLine ==
  ASSUME QueueType, Q!Begin \/ Q!Execute \/ Q!Complete, UNCHANGED lost
  PROVE  QueueType' /\ Line' = Line
<1> USE DEF QueueType
<1>1. CASE Q!Begin
  <2>1. /\ active = Nothing /\ waiting # <<>> /\ done' = done /\ executed' = executed
        /\ active' = Head(waiting) /\ waiting' = Tail(waiting)
    BY <1>1 DEF Q!Begin
  <2>2. Head(waiting) \in Request /\ Tail(waiting) \in Seq(Request)
    BY <2>1
  <2>3. <<Head(waiting)>> \o Tail(waiting) = waiting
    BY <2>1, <2>2
  <2>4. Line = done \o waiting
    BY <2>1, ConcatEmptySeq DEF Line
  <2>5. Line' = done \o <<Head(waiting)>> \o Tail(waiting)
    BY <2>1, <2>2 DEF Line
  <2>6. <<Head(waiting)>> \in Seq(Request)
    BY <2>2
  <2>7. (done \o <<Head(waiting)>>) \o Tail(waiting) = done \o (<<Head(waiting)>> \o Tail(waiting))
    BY <2>2, <2>6, ConcatAssociative
  <2> QED
    BY <2>1, <2>2, <2>3, <2>4, <2>5, <2>7
<1>2. CASE Q!Execute
  BY <1>2 DEF Q!Execute, Line
<1>3. CASE Q!Complete
  <2>1. /\ active \in Request /\ active' = Nothing
        /\ done' = Append(done, active) /\ waiting' = waiting /\ executed' = executed
    BY <1>3 DEF Q!Complete
  <2>2. done' \in Seq(Request) /\ done' = done \o <<active>>
    BY <2>1, AppendProperties, AppendIsConcat
  <2>3. Line = done \o <<active>> \o waiting
    BY <2>1 DEF Line
  <2>4. Line' = done' \o <<>> \o waiting'
    BY <2>1 DEF Line
  <2>5. done' \o <<>> = done'
    BY <2>2, ConcatEmptySeq
  <2> QED
    BY <2>1, <2>2, <2>3, <2>4, <2>5
<1> QED
  BY <1>1, <1>2, <1>3

\* A job that is accepted is put at the end of the line.
LEMMA AcceptAppends ==
  ASSUME QueueType, NEW r \in Request, Q!Accept(r), UNCHANGED lost
  PROVE  QueueType' /\ Line' = Append(Line, r)
<1> USE DEF QueueType
<1>1. waiting' = Append(waiting, r) /\ UNCHANGED <<active, executed, done, lost>>
  BY DEF Q!Accept
<1>2. waiting' \in Seq(Request) /\ waiting' = waiting \o <<r>> /\ <<r>> \in Seq(Request)
  BY <1>1, AppendProperties, AppendIsConcat
<1> DEFINE front == done \o Slot(active)
<1>3. front \in Seq(Request)
  <2>1. Slot(active) \in Seq(Request)
    BY DEF Slot
  <2> QED
    BY <2>1, ConcatProperties
<1>4. Line = front \o waiting /\ Line' = front \o waiting'
  BY <1>1 DEF Line, Slot
<1> HIDE DEF front
<1>5. (front \o waiting) \o <<r>> = front \o (waiting \o <<r>>)
  BY <1>2, <1>3, ConcatAssociative
<1>6. Append(Line, r) = Line \o <<r>>
  BY LineType, AppendIsConcat
<1> QED
  BY <1>1, <1>2, <1>4, <1>5, <1>6

\* Line t is s with one more job at its end.
Longer(s, r, t) ==
  /\ Len(s) \in Nat /\ DOMAIN s = 1 .. Len(s) /\ DOMAIN t = 1 .. Len(s) + 1
  /\ \A i \in 1 .. Len(s) : t[i] = s[i]
  /\ t[Len(s) + 1] = r
  /\ Q!Elements(t) = Q!Elements(s) \cup {r}

\* This is what appending does.
LEMMA LongerLine ==
  ASSUME NEW s \in Seq(Request), NEW r \in Request
  PROVE  Longer(s, r, Append(s, r))
<1> DEFINE t == Append(s, r)
<1>1. /\ Len(s) \in Nat /\ DOMAIN s = 1 .. Len(s) /\ DOMAIN t = 1 .. Len(s) + 1
      /\ \A i \in 1 .. Len(s) : t[i] = s[i]
      /\ t[Len(s) + 1] = r
  OBVIOUS
<1> HIDE DEF t
<1>2. ASSUME NEW x \in Q!Elements(t) PROVE x \in Q!Elements(s) \cup {r}
  <2>1. PICK i \in 1 .. Len(s) + 1 : t[i] = x
    BY <1>1, <1>2 DEF Q!Elements
  <2>2. CASE i = Len(s) + 1
    BY <1>1, <2>1, <2>2
  <2>3. CASE i # Len(s) + 1
    <3>1. i \in DOMAIN s /\ s[i] = x
      BY <1>1, <2>1, <2>3
    <3> QED
      BY <3>1 DEF Q!Elements
  <2> QED
    BY <2>2, <2>3
<1>3. r \in Q!Elements(t)
  <2>1. Len(s) + 1 \in DOMAIN t
    BY <1>1
  <2> QED
    BY <1>1, <2>1 DEF Q!Elements
<1>4. ASSUME NEW x \in Q!Elements(s) PROVE x \in Q!Elements(t)
  <2>1. PICK i \in 1 .. Len(s) : s[i] = x
    BY <1>1, <1>4 DEF Q!Elements
  <2>2. i \in DOMAIN t /\ t[i] = x
    BY <1>1, <2>1
  <2> QED
    BY <2>2 DEF Q!Elements
<1>5. Longer(s, r, t)
  BY <1>1, <1>2, <1>3, <1>4 DEF Longer
<1> QED
  BY <1>5 DEF t

-----------------------------------------------------------------------------
(* The steps of the cluster and the line                                   *)

Answered == {r \in Request : pc[r] \in {"true", "late"}}

\* The line stays as it is, and so does what was answered.
LEMMA LineStays ==
  ASSUME LineInv, QueueType', CallsInv', Line' = Line, lost' = lost, Answered' = Answered
  PROVE  LineInv'
<1>1. TrueIsKept'
  BY DEF LineInv, TrueIsKept, Answered, Q!Elements
<1>2. ScriptOrder'
  BY DEF LineInv, ScriptOrder
<1> QED
  BY <1>1, <1>2 DEF LineInv

\* A request is answered: its job is the last of the line, after all the jobs
\* that its script has submitted before.
LEMMA AcceptStep ==
  ASSUME SubmitInv, LineInv, NEW r \in Request, Accept(r)
  PROVE  LineInv'
<1>1. /\ pc[r] \in {"called", "timed out"}
      /\ pc' = [pc EXCEPT ![r] = IF pc[r] = "called" THEN "true" ELSE "late"]
      /\ lost' = lost
  BY DEF Accept, Answer
<1>2. pc \in [Request -> Place]
  BY DEF SubmitInv, SubmitType
<1>3. QueueType /\ QueueType' /\ Line' = Append(Line, r) /\ Line \in Seq(Request)
  BY <1>1, AcceptAppends, LineType DEF LineInv, Accept
<1>4. /\ Len(Line) \in Nat /\ DOMAIN Line = 1 .. Len(Line)
      /\ DOMAIN Line' = 1 .. Len(Line) + 1
      /\ \A i \in 1 .. Len(Line) : Line'[i] = Line[i]
      /\ Line'[Len(Line) + 1] = r
      /\ Q!Elements(Line') = Q!Elements(Line) \cup {r}
  <2>1. Longer(Line, r, Append(Line, r))
    BY <1>3, LongerLine
  <2>2. Longer(Line, r, Line')
    BY <1>3, <2>1
  <2> QED
    BY <2>2 DEF Longer
<1>5. \A x \in Request : pc'[x] = IF x = r THEN IF pc[r] = "called" THEN "true" ELSE "late"
                                          ELSE pc[x]
  BY <1>1, <1>2
<1>6. r \notin Q!Elements(Line) /\ r \notin lost
  BY <1>1 DEF LineInv, TrueIsKept
<1>7. CallsInv'
  <2> SUFFICES ASSUME NEW c \in Client, NEW i \in DOMAIN Calls[c], pc'[Calls[c][i]] # "new",
                      NEW h \in 1 .. i - 1
               PROVE  pc'[Calls[c][h]] = "true"
    BY DEF CallsInv
  <2>1. Calls[c] \in Seq(Request) /\ h \in DOMAIN Calls[c]
    OBVIOUS
  <2>2. Calls[c][i] \in Request /\ Calls[c][h] \in Request
    BY <2>1
  <2>3. pc[Calls[c][i]] # "new"
    BY <1>1, <1>5, <2>2
  <2>4. pc[Calls[c][h]] = "true"
    BY <2>3 DEF LineInv, CallsInv
  <2> QED
    BY <1>1, <1>5, <2>2, <2>4
<1>8. TrueIsKept'
  <2>1. \A k, l \in DOMAIN Line' : Line'[k] = Line'[l] => k = l
    <3>1. \A k, l \in DOMAIN Line : Line[k] = Line[l] => k = l
      BY DEF LineInv, TrueIsKept
    <3>2. \A k \in DOMAIN Line : Line[k] # r
      BY <1>6 DEF Q!Elements
    <3> QED
      BY <1>4, <3>1, <3>2
  <2>2. Q!Elements(Line') \cap lost' = {}
    BY <1>1, <1>4, <1>6 DEF LineInv, TrueIsKept
  <2>3. Q!Elements(Line') \cup lost' = {x \in Request : pc'[x] \in {"true", "late"}}
    <3>1. Q!Elements(Line) \cup lost = {x \in Request : pc[x] \in {"true", "late"}}
      BY DEF LineInv, TrueIsKept
    <3>2. {x \in Request : pc'[x] \in {"true", "late"}}
            = {x \in Request : pc[x] \in {"true", "late"}} \cup {r}
      BY <1>5
    <3> QED
      BY <1>1, <1>4, <3>1, <3>2
  <2> QED
    BY <2>1, <2>2, <2>3 DEF TrueIsKept, Q!Elements
<1>9. ScriptOrder'
  <2> SUFFICES ASSUME NEW c \in Client, NEW i \in DOMAIN Calls[c], NEW k \in DOMAIN Line',
                      Line'[k] = Calls[c][i], NEW h \in 1 .. i - 1
               PROVE  \/ \E l \in 1 .. k - 1 : Line'[l] = Calls[c][h]
                      \/ Calls[c][h] \in lost'
    BY DEF ScriptOrder
  <2>1. Calls[c] \in Seq(Request) /\ h \in DOMAIN Calls[c]
    OBVIOUS
  <2>2. CASE k = Len(Line) + 1
    <3>0. Calls[c][i] = r /\ pc[Calls[c][i]] # "new"
      BY <1>1, <1>4, <2>2
    <3>1. pc[Calls[c][h]] = "true" /\ Calls[c][h] \in Request
      BY <2>1, <3>0 DEF LineInv, CallsInv
    <3>2. Calls[c][h] \in Q!Elements(Line) \cup lost
      BY <3>1 DEF LineInv, TrueIsKept
    <3>3. CASE Calls[c][h] \in Q!Elements(Line)
      <4>1. PICK l \in DOMAIN Line : Line[l] = Calls[c][h]
        BY <3>3 DEF Q!Elements
      <4> QED
        BY <1>4, <2>2, <4>1
    <3> QED
      BY <1>1, <3>2, <3>3
  <2>3. CASE k # Len(Line) + 1
    <3>1. k \in DOMAIN Line /\ Line[k] = Calls[c][i]
      BY <1>4, <2>3
    <3>2. (\E l \in 1 .. k - 1 : Line[l] = Calls[c][h]) \/ Calls[c][h] \in lost
      BY <3>1 DEF LineInv, ScriptOrder
    <3>3. ASSUME NEW l \in 1 .. k - 1, Line[l] = Calls[c][h]
          PROVE  Line'[l] = Calls[c][h]
      <4>1. l \in 1 .. Len(Line)
        BY <1>4, <3>1
      <4> QED
        BY <1>4, <3>3, <4>1
    <3> QED
      BY <1>1, <3>2, <3>3
  <2> QED
    BY <2>2, <2>3
<1> QED
  BY <1>3, <1>7, <1>8, <1>9 DEF LineInv

\* A step of a request that is not answered by it.
LEMMA CallsStep ==
  ASSUME SubmitInv, LineInv, NEW r \in Request,
         Submit(r) \/ Reject(r) \/ Miss(r)
  PROVE  CallsInv' /\ Answered' = Answered
<1>1. pc \in [Request -> Place]
  BY DEF SubmitInv, SubmitType
<1>2. PICK to \in Place : /\ pc' = [pc EXCEPT ![r] = to]
                          /\ to \notin {"new", "true", "late"}
                          /\ pc[r] \notin {"true", "late"}
  BY DEF Submit, Execute, Map, MapFails, MapPart, Make, Send, Reject, Refuse, Miss, TimeOut, Move, Place
<1>3. \A x \in Request : pc'[x] = IF x = r THEN to ELSE pc[x]
  BY <1>1, <1>2
<1>4. pc[r] = "new" => MayCall(r)
  BY DEF Submit, Execute, Map, MapFails, MapPart, Make, Send, Reject, Refuse, Miss, TimeOut, Move
<1>5. Answered' = Answered
  BY <1>2, <1>3 DEF Answered
<1>6. CallsInv'
  <2> SUFFICES ASSUME NEW c \in Client, NEW i \in DOMAIN Calls[c], pc'[Calls[c][i]] # "new",
                      NEW h \in 1 .. i - 1
               PROVE  pc'[Calls[c][h]] = "true"
    BY DEF CallsInv
  <2>1. Calls[c] \in Seq(Request) /\ h \in DOMAIN Calls[c]
    OBVIOUS
  <2>2. Calls[c][i] \in Request /\ Calls[c][h] \in Request
    BY <2>1
  <2>3. pc[Calls[c][h]] = "true"
    <3>1. CASE pc[Calls[c][i]] # "new"
      BY <3>1 DEF LineInv, CallsInv
    <3>2. CASE pc[Calls[c][i]] = "new"
      <4>1. Calls[c][i] = r
        BY <1>3, <2>2, <3>2
      <4>2. PICK d \in Client : \E k \in DOMAIN Calls[d] :
              Calls[d][k] = r /\ \A g \in 1 .. k - 1 : pc[Calls[d][g]] = "true"
        BY <1>4, <3>2, <4>1 DEF MayCall
      <4>3. PICK k \in DOMAIN Calls[d] :
              Calls[d][k] = r /\ \A g \in 1 .. k - 1 : pc[Calls[d][g]] = "true"
        BY <4>2
      <4>4. d = c /\ k = i
        BY <4>1, <4>3
      <4> QED
        BY <4>3, <4>4
    <3> QED
      BY <3>1, <3>2
  <2> QED
    BY <1>2, <1>3, <2>2, <2>3
<1> QED
  BY <1>5, <1>6

\* When the RingBearer is removed the line is lost.
LEMMA DropStep == ASSUME LineInv, UNCHANGED pc, DropQueue PROVE LineInv'
<1>1. /\ waiting' = <<>> /\ active' = Nothing /\ executed' = {} /\ done' = <<>>
      /\ lost' = lost \cup Known
  BY DEF DropQueue
<1>2. Known = Q!Elements(Line)
  BY KnownIsLine DEF LineInv
<1>3. Line' = <<>>
  <2>1. Line' = (<<>> \o <<>>) \o <<>>
    BY <1>1 DEF Line
  <2>2. <<>> \o <<>> = <<>>
    BY ConcatEmptySeq, EmptySeq
  <2> QED
    BY <2>1, <2>2
<1>4. DOMAIN Line' = {} /\ Q!Elements(Line)' = {}
  BY <1>3 DEF Q!Elements
<1>5. Q!Elements(Line) \cup lost = {x \in Request : pc[x] \in {"true", "late"}}
  BY DEF LineInv, TrueIsKept
<1>6. QueueType'
  BY <1>1, <1>2, <1>5 DEF LineInv, QueueType
<1>7. TrueIsKept'
  BY <1>1, <1>2, <1>4, <1>5 DEF TrueIsKept
<1>8. CallsInv' /\ ScriptOrder'
  BY <1>4 DEF LineInv, CallsInv, ScriptOrder
<1> QED
  BY <1>6, <1>7, <1>8 DEF LineInv

\* Every step keeps the order of the line and every job in it.
LEMMA NextLineInv == SubmitInv /\ LineInv /\ [TestNext]_testVars => LineInv'
<1> SUFFICES ASSUME SubmitInv, LineInv, [TestNext]_testVars PROVE LineInv'
  OBVIOUS
<1>0. QueueType /\ CallsInv
  BY DEF LineInv
<1>1. ASSUME UNCHANGED <<queue, lost>> PROVE QueueType' /\ Line' = Line /\ lost' = lost
  BY <1>0, <1>1 DEF queue, QueueType, Line
<1>2. ASSUME NEW r \in Request, Submit(r) \/ Reject(r) \/ Miss(r) PROVE LineInv'
  <2>1. UNCHANGED <<queue, lost>>
    BY <1>2 DEF Submit, Reject, Miss
  <2> QED
    BY <1>1, <1>2, <2>1, CallsStep, LineStays
<1>3. ASSUME UNCHANGED pc PROVE CallsInv' /\ Answered' = Answered
  BY <1>0, <1>3 DEF CallsInv, Answered
<1>4. CASE Deploy
  <2>1. UNCHANGED pc
    BY <1>4 DEF Deploy, submitVars
  <2>2. CASE DropQueue
    BY <2>1, <2>2, DropStep
  <2>3. CASE UNCHANGED <<queue, lost>>
    BY <1>1, <1>3, <2>1, <2>3, LineStays
  <2> QED
    BY <1>4, <2>2, <2>3 DEF Deploy
<1>5. CASE Run
  <2>1. UNCHANGED <<pc, lost>> /\ (Q!Begin \/ Q!Execute \/ Q!Complete)
    BY <1>5 DEF Run, submitVars
  <2>2. QueueType' /\ Line' = Line
    BY <1>0, <2>1, RunKeepsLine
  <2> QED
    BY <1>3, <2>1, <2>2, LineStays
<1>6. CASE UNCHANGED testVars
  BY <1>1, <1>3, <1>6, LineStays DEF testVars, submitVars
<1> QED
  BY <1>2, <1>4, <1>5, <1>6, AcceptStep DEF TestNext

\* The line is empty at the start.
LEMMA InitLineInv == TestInit => LineInv
<1> SUFFICES ASSUME TestInit PROVE LineInv
  OBVIOUS
<1>1. /\ waiting = <<>> /\ active = Nothing /\ executed = {} /\ done = <<>> /\ lost = {}
      /\ \A r \in Request : pc[r] = "new"
  BY DEF TestInit, Q!QueueInit, SubmitInit
<1>2. Line = <<>>
  <2>1. Line = (<<>> \o <<>>) \o <<>>
    BY <1>1 DEF Line
  <2>2. <<>> \o <<>> = <<>>
    BY ConcatEmptySeq, EmptySeq
  <2> QED
    BY <2>1, <2>2
<1>3. DOMAIN Line = {} /\ Q!Elements(Line) = {}
  BY <1>2 DEF Q!Elements
<1>4. QueueType
  BY <1>1 DEF QueueType
<1>5. TrueIsKept /\ ScriptOrder
  BY <1>1, <1>3 DEF TrueIsKept, ScriptOrder
<1>6. CallsInv
  <2>1. \A c \in Client : \A i \in DOMAIN Calls[c] : Calls[c][i] \in Request
    OBVIOUS
  <2> QED
    BY <1>1, <2>1 DEF CallsInv
<1> QED
  BY <1>4, <1>5, <1>6 DEF LineInv

-----------------------------------------------------------------------------
(* The theorems                                                            *)

\* JobIsLastGiven: for every parameter, a job that is sent has the value that
\* was last put into the executor's field when the request was mapped, by it
\* or by an earlier request, or, if another request has overtaken it, at some
\* moment since; the words excepted, which a job has none of once a file was
\* ever named.
THEOREM JobsAreLastGiven == TestSpec => []JobIsLastGiven
<1>1. TestInit => SubmitInv
  BY InitSubmitInv DEF TestInit
<1>2. SubmitInv => JobIsLastGiven
  BY DEF SubmitInv
<1> QED
  BY <1>1, <1>2, NextSubmitInv, PTL DEF TestSpec

\* TrueIsKept: every request that was answered with true, in time or too late,
\* and no other, is a job: one in the line of the scheduler, or one of those
\* the scheduler had when its module was removed.
THEOREM EveryAnswerIsAJob == TestSpec => []TrueIsKept
<1>1. TestInit => SubmitInv
  BY InitSubmitInv DEF TestInit
<1>2. LineInv => TrueIsKept
  BY DEF LineInv
<1> QED
  BY <1>1, <1>2, InitLineInv, NextSubmitInv, NextLineInv, PTL DEF TestSpec

\* The jobs of a script are in the line in the script's order, without a gap.
THEOREM ScriptsKeepOrder == TestSpec => []ScriptOrder
<1>1. TestInit => SubmitInv
  BY InitSubmitInv DEF TestInit
<1>2. LineInv => ScriptOrder
  BY DEF LineInv
<1> QED
  BY <1>1, <1>2, InitLineInv, NextSubmitInv, NextLineInv, PTL DEF TestSpec
-----------------------------------------------------------------------------
(* The deployment scripts                                                  *)

HIDE SubmitAssumption

\* The servers of a module, and those that install() reaches.
ServersOf(s, m) == WithRole(s, ConfigOf(s)[m].role)
Reached(s, m) == IF m = "ElasticSearch" /\ s = "min" THEN {} ELSE ServersOf(s, m)

\* The modules that are at a location that others are given, or at one by themselves.
Listener(x, m, p) == [server |-> x, module |-> m, port |-> p]
Listening(s) ==
  IF s = "local"
  THEN { Listener("generic", "Http", 8080), Listener("zookeeper1", "Zookeeper", 2181),
         Listener("kafka1", "Kafka", 9092), Listener("kafka2", "Kafka", 9093),
         Listener("kafka3", "Kafka", 9094), Listener("sparkngin1", "Sparkngin", 7080),
         Listener("generic", "YaraServer", 8463) }
  ELSE { Listener("generic", "Http", 8080), Listener("zookeeper-1", "Zookeeper", 2181),
         Listener("kafka-1", "Kafka", 9092),
         Listener("kafka-2", "Kafka", IF s = "min" THEN 9092 ELSE 9093),
         Listener("sparkngin-1", "Sparkngin", 7080) }
Provider == {"Zookeeper", "Kafka", "Sparkngin", "YaraServer"}

\* Where and at which port a module can be installed.
Possible(s, x, m, p) ==
  /\ x \in ServersOf(s, m)
  /\ Listener(x, m, p) \in Listening(s) \/ (p = 0 /\ m \notin Provider)

\* The place of a module in install() and in uninstall().
InstallRank ==
  [ Http |-> 1, ElasticSearch |-> 2, Zookeeper |-> 3, Kafka |-> 4, KafkaConsumer |-> 5,
    Sparkngin |-> 6, RingBearer |-> 7, YaraServer |-> 8, YaraClient |-> 9 ]
UninstallRank ==
  [ RingBearer |-> 1, Sparkngin |-> 2, Kafka |-> 3, KafkaConsumer |-> 4, Zookeeper |-> 5,
    HttpGateway |-> 6, ElasticSearch |-> 7, YaraServer |-> 8, YaraClient |-> 9 ]

MinModule == {"Http", "ElasticSearch", "Zookeeper", "Kafka", "KafkaConsumer", "Sparkngin",
              "RingBearer"}
Module(s) == IF s = "local" THEN MinModule \cup {"YaraServer", "YaraClient"} ELSE MinModule

\* The modules and servers of a script.
LEMMA Modules == \A s \in Script : DOMAIN ConfigOf(s) = Module(s)
BY DEF Script, ConfigOf, LocalConfig, MinConfig, Module, MinModule

\* The configurations of local-deploy.js ...
LEMMA LocalConfigs ==
  /\ ConfigOf("local")["Http"] = Config("generic", <<"generic">>, 8080)
  /\ ConfigOf("local")["ElasticSearch"]
       = Config("elasticsearch", <<"elasticsearch1", "elasticsearch2">>, 0)
  /\ ConfigOf("local")["Zookeeper"] = Config("zookeeper", <<"zookeeper1">>, 2181)
  /\ ConfigOf("local")["Kafka"] = Config("kafka", <<"kafka1", "kafka2", "kafka3">>, 9092)
  /\ ConfigOf("local")["KafkaConsumer"] = Config("generic", <<"generic">>, 0)
  /\ ConfigOf("local")["Sparkngin"] = Config("sparkngin", <<"sparkngin1">>, 7080)
  /\ ConfigOf("local")["RingBearer"] = Config("ringbearer", <<"ringbearer1">>, 0)
  /\ ConfigOf("local")["YaraServer"] = Config("generic", <<"generic">>, 8463)
  /\ ConfigOf("local")["YaraClient"] = Config("any", <<>>, 0)
BY DEF ConfigOf, LocalConfig

\* ... and of the other two scripts.
LEMMA MinConfigs ==
  \A s \in {"min", "minimum"} :
    /\ ConfigOf(s)["Http"] = Config("generic", <<"generic">>, 8080)
    /\ ConfigOf(s)["ElasticSearch"] = Config("generic", <<"generic">>, 0)
    /\ ConfigOf(s)["Zookeeper"] = Config("zookeeper", <<"zookeeper-1">>, 2181)
    /\ ConfigOf(s)["Kafka"] = Config("kafka", <<"kafka-1", "kafka-2">>, 9092)
    /\ ConfigOf(s)["KafkaConsumer"] = Config("generic", <<"generic">>, 0)
    /\ ConfigOf(s)["Sparkngin"] = Config("sparkngin", <<"sparkngin-1">>, 7080)
    /\ ConfigOf(s)["RingBearer"] = Config("generic", <<"generic">>, 0)
BY DEF ConfigOf, MinConfig

\* The servers that have a role.
LEMMA Roles ==
  /\ WithRole("local", "generic") = {"generic"}
  /\ WithRole("local", "elasticsearch") = {"elasticsearch1", "elasticsearch2"}
  /\ WithRole("local", "zookeeper") = {"zookeeper1"}
  /\ WithRole("local", "kafka") = {"kafka1", "kafka2", "kafka3"}
  /\ WithRole("local", "sparkngin") = {"sparkngin1"}
  /\ WithRole("local", "ringbearer") = {"ringbearer1"}
  /\ \A s \in {"min", "minimum"} :
       /\ WithRole(s, "generic") = {"generic"}
       /\ WithRole(s, "zookeeper") = {"zookeeper-1"}
       /\ WithRole(s, "kafka") = {"kafka-1", "kafka-2"}
       /\ WithRole(s, "sparkngin") = {"sparkngin-1"}
BY DEF WithRole, RolesOf, LocalRoles, MinRoles

-----------------------------------------------------------------------------
(* The commands of a script                                                *)

Commands(s) ==
  [op : {"install", "uninstall"}, module : Module(s) \cup {"HttpGateway"},
   servers : SUBSET WithRole(s, "any"), port : Nat]

\* The servers that the commands for a module go to.
Selected(cmds, m) == UNION {cmds[i].servers : i \in {k \in DOMAIN cmds : cmds[k].module = m}}

\* What the commands for a module have to reach.
Target(op, s, m) == IF op = "install" THEN Reached(s, m) ELSE ServersOf(s, m)

\* A part of a script, from one rank to another: its commands are in the order
\* of the ranks and reach all they have to.
Part(cmds, op, s, rank, low, high) ==
  /\ cmds \in Seq(Commands(s))
  /\ \A i \in DOMAIN cmds : /\ cmds[i].op = op
                            /\ cmds[i].module \in DOMAIN rank
                            /\ rank[cmds[i].module] \in low .. high
  /\ \A i, j \in DOMAIN cmds : i < j => rank[cmds[i].module] <= rank[cmds[j].module]
  /\ op = "install" =>
       \A i \in DOMAIN cmds : \A x \in cmds[i].servers :
         cmds[i].module \in Module(s) /\ Possible(s, x, cmds[i].module, cmds[i].port)
  /\ \A m \in Module(s) \cap DOMAIN rank :
       Selected(cmds, m) = IF rank[m] \in low .. high THEN Target(op, s, m) ELSE {}

\* One part after another.
LEMMA PartsJoin ==
  ASSUME NEW s, NEW op, NEW rank, NEW low \in Nat, NEW mid \in Nat, NEW high \in Nat,
         low <= mid, mid < high, \A m \in DOMAIN rank : rank[m] \in Nat,
         NEW a, Part(a, op, s, rank, low, mid), NEW b, Part(b, op, s, rank, mid + 1, high)
  PROVE  Part(a \o b, op, s, rank, low, high)
<1>1. PICK x \in Nat : x = Len(a) /\ DOMAIN a = 1 .. x
  BY LenProperties DEF Part
<1>2. PICK y \in Nat : y = Len(b) /\ DOMAIN b = 1 .. y
  BY LenProperties DEF Part
<1>3. PICK c : c = a \o b
  OBVIOUS
<1>4. /\ c \in Seq(Commands(s)) /\ DOMAIN c = 1 .. x + y
      /\ \A i \in 1 .. x : c[i] = a[i]
      /\ \A i \in 1 .. y : c[x + i] = b[i]
  BY <1>1, <1>2, <1>3, ConcatProperties, LenProperties DEF Part
<1>5. \A i \in 1 .. x + y : i \in 1 .. x \/ \E j \in 1 .. y : i = x + j
  <2> SUFFICES ASSUME NEW i \in 1 .. x + y, i \notin 1 .. x PROVE \E j \in 1 .. y : i = x + j
    OBVIOUS
  <2>1. i - x \in 1 .. y /\ i = x + (i - x)
    BY <1>1, <1>2
  <2> QED
    BY <2>1
<1>6. \A i \in DOMAIN c :
        /\ c[i].op = op /\ c[i].module \in DOMAIN rank
        /\ rank[c[i].module] \in low .. high
        /\ i <= x => rank[c[i].module] <= mid
        /\ x < i => mid < rank[c[i].module]
  <2> SUFFICES ASSUME NEW i \in 1 .. x + y
               PROVE  /\ c[i].op = op /\ c[i].module \in DOMAIN rank
                      /\ rank[c[i].module] \in low .. high
                      /\ i <= x => rank[c[i].module] <= mid
                      /\ x < i => mid < rank[c[i].module]
    BY <1>4
  <2>1. CASE i \in 1 .. x
    <3>1. a[i].op = op /\ a[i].module \in DOMAIN rank /\ rank[a[i].module] \in low .. mid
      BY <1>1, <2>1 DEF Part
    <3> QED
      BY <1>1, <1>4, <2>1, <3>1
  <2>2. CASE \E j \in 1 .. y : i = x + j
    <3>1. PICK j \in 1 .. y : i = x + j
      BY <2>2
    <3>2. b[j].op = op /\ b[j].module \in DOMAIN rank /\ rank[b[j].module] \in mid + 1 .. high
      BY <1>2 DEF Part
    <3> QED
      BY <1>1, <1>4, <3>1, <3>2
  <2> QED
    BY <1>5, <2>1, <2>2
<1>7. \A i, j \in DOMAIN c : i < j => rank[c[i].module] <= rank[c[j].module]
  <2> SUFFICES ASSUME NEW i \in 1 .. x + y, NEW j \in 1 .. x + y, i < j
               PROVE  rank[c[i].module] <= rank[c[j].module]
    BY <1>4
  <2>1. CASE j <= x
    <3>1. i \in 1 .. x /\ j \in 1 .. x
      BY <1>1, <2>1
    <3>2. rank[a[i].module] <= rank[a[j].module]
      BY <1>1, <3>1 DEF Part
    <3> QED
      BY <1>4, <3>1, <3>2
  <2>2. CASE i <= x /\ x < j
    BY <1>4, <1>6, <2>2
  <2>3. CASE x < i
    <3>0. i \notin 1 .. x /\ j \notin 1 .. x
      BY <1>1, <2>3
    <3>1. PICK k \in 1 .. y : i = x + k
      BY <1>5, <3>0
    <3>2. PICK l \in 1 .. y : j = x + l
      BY <1>5, <3>0
    <3>3. k < l
      BY <1>1, <3>1, <3>2
    <3>4. rank[b[k].module] <= rank[b[l].module]
      BY <1>2, <3>3 DEF Part
    <3> QED
      BY <1>4, <3>1, <3>2, <3>4
  <2> QED
    BY <1>1, <2>1, <2>2, <2>3
<1>8. ASSUME op = "install"
      PROVE  \A i \in DOMAIN c : \A z \in c[i].servers :
               c[i].module \in Module(s) /\ Possible(s, z, c[i].module, c[i].port)
  <2>1. \A i \in 1 .. x : \A z \in a[i].servers :
          a[i].module \in Module(s) /\ Possible(s, z, a[i].module, a[i].port)
    BY <1>1, <1>8 DEF Part
  <2>2. \A i \in 1 .. y : \A z \in b[i].servers :
          b[i].module \in Module(s) /\ Possible(s, z, b[i].module, b[i].port)
    BY <1>2, <1>8 DEF Part
  <2>3. ASSUME NEW i \in 1 .. x + y, NEW z \in c[i].servers
        PROVE  c[i].module \in Module(s) /\ Possible(s, z, c[i].module, c[i].port)
    <3>1. CASE i \in 1 .. x
      <4>1. c[i] = a[i]
        BY <1>4, <3>1
      <4> QED
        BY <2>1, <2>3, <3>1, <4>1
    <3>2. CASE \E j \in 1 .. y : i = x + j
      <4>1. PICK j \in 1 .. y : i = x + j
        BY <3>2
      <4>2. c[i] = b[j]
        BY <1>4, <4>1
      <4> QED
        BY <2>2, <2>3, <4>2
    <3> QED
      BY <1>5, <3>1, <3>2
  <2> QED
    BY <1>4, <2>3
<1>9. \A m : Selected(c, m) = Selected(a, m) \cup Selected(b, m)
  <2> SUFFICES ASSUME NEW m, NEW z
               PROVE  z \in Selected(c, m) <=> z \in Selected(a, m) \cup Selected(b, m)
    OBVIOUS
  <2>1. \A i \in 1 .. y : x + i \in 1 .. x + y
    BY <1>1, <1>2
  <2>2. 1 .. x \subseteq 1 .. x + y
    BY <1>1, <1>2
  <2>3. z \in Selected(c, m) <=> \E i \in 1 .. x + y : c[i].module = m /\ z \in c[i].servers
    BY <1>4 DEF Selected
  <2>4. z \in Selected(a, m) <=> \E i \in 1 .. x : a[i].module = m /\ z \in a[i].servers
    BY <1>1 DEF Selected
  <2>5. z \in Selected(b, m) <=> \E i \in 1 .. y : b[i].module = m /\ z \in b[i].servers
    BY <1>2 DEF Selected
  <2>6. (\E i \in 1 .. x + y : c[i].module = m /\ z \in c[i].servers)
          <=> \/ \E i \in 1 .. x : a[i].module = m /\ z \in a[i].servers
              \/ \E i \in 1 .. y : b[i].module = m /\ z \in b[i].servers
    <3>1. ASSUME NEW i \in 1 .. x + y, c[i].module = m, z \in c[i].servers
          PROVE  \/ \E k \in 1 .. x : a[k].module = m /\ z \in a[k].servers
                 \/ \E k \in 1 .. y : b[k].module = m /\ z \in b[k].servers
      <4>1. CASE i \in 1 .. x
        BY <1>4, <3>1, <4>1
      <4>2. CASE \E j \in 1 .. y : i = x + j
        BY <1>4, <3>1, <4>2
      <4> QED
        BY <1>5, <4>1, <4>2
    <3>2. ASSUME NEW i \in 1 .. x, a[i].module = m, z \in a[i].servers
          PROVE  \E k \in 1 .. x + y : c[k].module = m /\ z \in c[k].servers
      BY <1>4, <2>2, <3>2
    <3>3. ASSUME NEW i \in 1 .. y, b[i].module = m, z \in b[i].servers
          PROVE  \E k \in 1 .. x + y : c[k].module = m /\ z \in c[k].servers
      BY <1>4, <2>1, <3>3
    <3> QED
      BY <3>1, <3>2, <3>3
  <2> QED
    BY <2>3, <2>4, <2>5, <2>6
<1>10. ASSUME NEW m \in Module(s) \cap DOMAIN rank
       PROVE  Selected(c, m) = IF rank[m] \in low .. high THEN Target(op, s, m) ELSE {}
  <2>1. Selected(a, m) = IF rank[m] \in low .. mid THEN Target(op, s, m) ELSE {}
    BY DEF Part
  <2>2. Selected(b, m) = IF rank[m] \in mid + 1 .. high THEN Target(op, s, m) ELSE {}
    BY DEF Part
  <2>3. rank[m] \in low .. high <=> rank[m] \in low .. mid \/ rank[m] \in mid + 1 .. high
    OBVIOUS
  <2> QED
    BY <1>9, <2>1, <2>2, <2>3
<1>11. Part(c, op, s, rank, low, high)
  BY <1>4, <1>6, <1>7, <1>8, <1>10 DEF Part
<1> QED
  BY <1>3, <1>11

\* The commands for one module are a part of the script.
LEMMA ModulePart ==
  ASSUME NEW s, NEW op, NEW rank, NEW m \in DOMAIN rank, rank[m] \in Nat,
         \A n \in DOMAIN rank : rank[n] = rank[m] => n = m,
         NEW cmds \in Seq(Commands(s)),
         \A i \in DOMAIN cmds : cmds[i].op = op /\ cmds[i].module = m,
         op = "install" => m \in Module(s) /\ \A i \in DOMAIN cmds : \A x \in cmds[i].servers :
                                                Possible(s, x, m, cmds[i].port),
         m \in Module(s) => UNION {cmds[i].servers : i \in DOMAIN cmds} = Target(op, s, m)
  PROVE  Part(cmds, op, s, rank, rank[m], rank[m])
<1>1. PICK k \in Nat : k = rank[m]
  OBVIOUS
<1>2. k \in k .. k /\ k <= k
  BY <1>1
<1>3. \A i \in DOMAIN cmds : /\ cmds[i].op = op /\ cmds[i].module \in DOMAIN rank
                             /\ rank[cmds[i].module] \in k .. k
  BY <1>1, <1>2
<1>4. \A i, j \in DOMAIN cmds : i < j => rank[cmds[i].module] <= rank[cmds[j].module]
  BY <1>1, <1>2
<1>5. ASSUME NEW n \in Module(s) \cap DOMAIN rank
      PROVE  Selected(cmds, n) = IF rank[n] \in k .. k THEN Target(op, s, n) ELSE {}
  <2>1. CASE n = m
    <3>1. {i \in DOMAIN cmds : cmds[i].module = m} = DOMAIN cmds
      OBVIOUS
    <3> QED
      BY <1>1, <1>2, <2>1, <3>1 DEF Selected
  <2>2. CASE n # m
    <3>1. {i \in DOMAIN cmds : cmds[i].module = n} = {}
      BY <2>2
    <3>2. rank[n] \notin k .. k
      <4>1. \A l \in k .. k : l = k
        BY <1>1
      <4> QED
        BY <1>1, <2>2, <4>1
    <3> QED
      BY <3>1, <3>2 DEF Selected
  <2> QED
    BY <2>1, <2>2
<1> QED
  BY <1>1, <1>3, <1>4, <1>5 DEF Part

-----------------------------------------------------------------------------
(* Each module's commands                                                  *)

\* Every server has some role.
LEMMA RolesAreServers ==
  ASSUME NEW s, NEW role \in DOMAIN RolesOf(s)
  PROVE  WithRole(s, role) \subseteq WithRole(s, "any")
<1>1. role # "any"
  BY DEF RolesOf, LocalRoles, MinRoles
<1> QED
  BY <1>1 DEF WithRole

\* The servers of each module.
LEMMA ModuleServers ==
  /\ ServersOf("local", "Http") = {"generic"}
  /\ ServersOf("local", "ElasticSearch") = {"elasticsearch1", "elasticsearch2"}
  /\ ServersOf("local", "Zookeeper") = {"zookeeper1"}
  /\ ServersOf("local", "Kafka") = {"kafka1", "kafka2", "kafka3"}
  /\ ServersOf("local", "KafkaConsumer") = {"generic"}
  /\ ServersOf("local", "Sparkngin") = {"sparkngin1"}
  /\ ServersOf("local", "RingBearer") = {"ringbearer1"}
  /\ ServersOf("local", "YaraServer") = {"generic"}
  /\ ServersOf("local", "YaraClient") = WithRole("local", "any")
  /\ \A s \in {"min", "minimum"} :
       /\ ServersOf(s, "Http") = {"generic"}
       /\ ServersOf(s, "ElasticSearch") = {"generic"}
       /\ ServersOf(s, "Zookeeper") = {"zookeeper-1"}
       /\ ServersOf(s, "Kafka") = {"kafka-1", "kafka-2"}
       /\ ServersOf(s, "KafkaConsumer") = {"generic"}
       /\ ServersOf(s, "Sparkngin") = {"sparkngin-1"}
       /\ ServersOf(s, "RingBearer") = {"generic"}
<1>1. /\ ServersOf("local", "Http") = {"generic"}
      /\ ServersOf("local", "ElasticSearch") = {"elasticsearch1", "elasticsearch2"}
      /\ ServersOf("local", "Zookeeper") = {"zookeeper1"}
      /\ ServersOf("local", "Kafka") = {"kafka1", "kafka2", "kafka3"}
      /\ ServersOf("local", "KafkaConsumer") = {"generic"}
      /\ ServersOf("local", "Sparkngin") = {"sparkngin1"}
      /\ ServersOf("local", "RingBearer") = {"ringbearer1"}
      /\ ServersOf("local", "YaraServer") = {"generic"}
      /\ ServersOf("local", "YaraClient") = WithRole("local", "any")
  BY LocalConfigs, Roles DEF ServersOf, Config
<1>2. ASSUME NEW s \in {"min", "minimum"}
      PROVE  /\ ServersOf(s, "Http") = {"generic"}
             /\ ServersOf(s, "ElasticSearch") = {"generic"}
             /\ ServersOf(s, "Zookeeper") = {"zookeeper-1"}
             /\ ServersOf(s, "Kafka") = {"kafka-1", "kafka-2"}
             /\ ServersOf(s, "KafkaConsumer") = {"generic"}
             /\ ServersOf(s, "Sparkngin") = {"sparkngin-1"}
             /\ ServersOf(s, "RingBearer") = {"generic"}
  BY MinConfigs, Roles DEF ServersOf, Config
<1> QED
  BY <1>1, <1>2

\* The servers of a module are servers of the cluster.
LEMMA ModulesAreOnServers ==
  ASSUME NEW s \in Script, NEW m \in Module(s)
  PROVE  ServersOf(s, m) \subseteq WithRole(s, "any")
<1>1. CASE s = "local"
  <2>1. /\ "generic" \in DOMAIN RolesOf(s) /\ "elasticsearch" \in DOMAIN RolesOf(s)
        /\ "zookeeper" \in DOMAIN RolesOf(s) /\ "kafka" \in DOMAIN RolesOf(s)
        /\ "sparkngin" \in DOMAIN RolesOf(s) /\ "ringbearer" \in DOMAIN RolesOf(s)
    BY <1>1 DEF RolesOf, LocalRoles
  <2> QED
    BY <1>1, <2>1, LocalConfigs, RolesAreServers DEF ServersOf, Config, Module, MinModule
<1>2. CASE s \in {"min", "minimum"}
  <2>1. /\ "generic" \in DOMAIN RolesOf(s) /\ "zookeeper" \in DOMAIN RolesOf(s)
        /\ "kafka" \in DOMAIN RolesOf(s) /\ "sparkngin" \in DOMAIN RolesOf(s)
    BY <1>2 DEF RolesOf, MinRoles
  <2> QED
    BY <1>2, <2>1, MinConfigs, RolesAreServers DEF ServersOf, Config, Module, MinModule
<1> QED
  BY <1>1, <1>2 DEF Script

\* installByServer, for a module whose configuration names all its servers: the
\* commands reach them, at ports at which the module can be.
LEMMA ByServerPart ==
  ASSUME NEW s \in Script, NEW m \in Module(s), NEW servers \in Seq(ServersOf(s, m)),
         NEW port \in Nat,
         NEW role, ConfigOf(s)[m] = Config(role, servers, port),
         {servers[i] : i \in DOMAIN servers} = ServersOf(s, m),
         ~ (m = "ElasticSearch" /\ s = "min"),
         \A i \in DOMAIN servers :
           Possible(s, servers[i], m, IF port = 0 THEN 0 ELSE port + (i - 1))
  PROVE  /\ InstallByServer(s, m) \in Seq(Commands(s))
         /\ Part(InstallByServer(s, m), "install", s, InstallRank, InstallRank[m], InstallRank[m])
<1>1. PICK len \in Nat : len = Len(servers) /\ DOMAIN servers = 1 .. len
  BY LenProperties
<1>2. PICK cmds : cmds = InstallByServer(s, m)
  OBVIOUS
<1>3. cmds = [i \in 1 .. len |-> Command("install", m, {servers[i]},
                                         IF port = 0 THEN 0 ELSE port + (i - 1))]
  BY <1>1, <1>2 DEF InstallByServer, Config
<1>4. \A i \in 1 .. len : servers[i] \in ServersOf(s, m)
  BY <1>1
<1>5. \A i \in 1 .. len : (IF port = 0 THEN 0 ELSE port + (i - 1)) \in Nat
  BY <1>1
<1>6. \A i \in 1 .. len : cmds[i] \in Commands(s)
  BY <1>3, <1>4, <1>5, ModulesAreOnServers DEF Command, Commands
<1>7. cmds \in Seq(Commands(s)) /\ DOMAIN cmds = 1 .. len
  <2>1. PICK C : C = Commands(s)
    OBVIOUS
  <2>2. DOMAIN cmds = 1 .. len
    BY <1>3
  <2>3. cmds \in [1 .. len -> C]
    BY <1>3, <1>6, <2>1
  <2> QED
    BY <2>1, <2>2, <2>3
<1>8. \A i \in 1 .. len : /\ cmds[i].op = "install" /\ cmds[i].module = m
                          /\ cmds[i].servers = {servers[i]}
                          /\ cmds[i].port = IF port = 0 THEN 0 ELSE port + (i - 1)
  BY <1>3 DEF Command
<1>9. \A i \in DOMAIN cmds : \A x \in cmds[i].servers : Possible(s, x, m, cmds[i].port)
  BY <1>1, <1>7, <1>8
<1>10. UNION {cmds[i].servers : i \in DOMAIN cmds} = Target("install", s, m)
  <2>1. UNION {cmds[i].servers : i \in DOMAIN cmds} = {servers[i] : i \in 1 .. len}
    BY <1>7, <1>8
  <2> QED
    BY <1>1, <2>1 DEF Target, Reached
<1>11. /\ m \in DOMAIN InstallRank /\ InstallRank[m] \in Nat
       /\ \A n \in DOMAIN InstallRank : InstallRank[n] = InstallRank[m] => n = m
  BY DEF InstallRank, Module, MinModule
<1>12. PICK rank : rank = InstallRank
  OBVIOUS
<1>13. Part(cmds, "install", s, rank, rank[m], rank[m])
  BY <1>7, <1>8, <1>9, <1>10, <1>11, <1>12, ModulePart
<1> QED
  BY <1>2, <1>7, <1>12, <1>13

\* installByRole.
LEMMA ByRolePart ==
  ASSUME NEW s \in Script, NEW m \in Module(s), NEW servers, NEW port \in Nat,
         NEW role, ConfigOf(s)[m] = Config(role, servers, port),
         m = "ElasticSearch" => s = "min",
         \A x \in ServersOf(s, m) : m # "ElasticSearch" => Possible(s, x, m, port)
  PROVE  Part(InstallByRole(s, m), "install", s, InstallRank, InstallRank[m], InstallRank[m])
<1>1. PICK reached : reached = IF m = "ElasticSearch" THEN {} ELSE ServersOf(s, m)
  OBVIOUS
<1>2. PICK cmd : cmd = Command("install", m, reached, port)
  OBVIOUS
<1>3. PICK cmds : cmds = <<cmd>>
  OBVIOUS
<1>4. InstallByRole(s, m) = cmds
  BY <1>1, <1>2, <1>3 DEF InstallByRole, Config, ServersOf
<1>5. cmd.op = "install" /\ cmd.module = m /\ cmd.servers = reached /\ cmd.port = port
  BY <1>2 DEF Command
<1>6. reached \subseteq WithRole(s, "any")
  BY <1>1, ModulesAreOnServers
<1>7. cmd \in Commands(s)
  BY <1>2, <1>6 DEF Command, Commands
<1>8. cmds \in Seq(Commands(s)) /\ DOMAIN cmds = {1} /\ cmds[1] = cmd
  BY <1>3, <1>7
<1>9. UNION {cmds[i].servers : i \in DOMAIN cmds} = Target("install", s, m)
  <2>1. UNION {cmds[i].servers : i \in DOMAIN cmds} = reached
    BY <1>5, <1>8
  <2> QED
    BY <1>1, <2>1 DEF Target, Reached
<1>10. \A i \in DOMAIN cmds : /\ cmds[i].op = "install" /\ cmds[i].module = m
                              /\ \A x \in cmds[i].servers : Possible(s, x, m, cmds[i].port)
  BY <1>1, <1>5, <1>8
<1>11. /\ m \in DOMAIN InstallRank /\ InstallRank[m] \in Nat
       /\ \A n \in DOMAIN InstallRank : InstallRank[n] = InstallRank[m] => n = m
  BY DEF InstallRank, Module, MinModule
<1>12. PICK rank : rank = InstallRank
  OBVIOUS
<1>13. Part(cmds, "install", s, rank, rank[m], rank[m])
  BY <1>8, <1>9, <1>10, <1>11, <1>12, ModulePart
<1> QED
  BY <1>4, <1>12, <1>13

\* uninstall, of every module but Http, whose command is for another name.
LEMMA UninstallPart ==
  ASSUME NEW s \in Script, NEW m \in Module(s), NEW n,
         n = IF m = "Http" THEN "HttpGateway" ELSE m
  PROVE  Part(Uninstall(s, m), "uninstall", s, UninstallRank, UninstallRank[n], UninstallRank[n])
<1>1. PICK servers : servers = ServersOf(s, m)
  OBVIOUS
<1>2. PICK cmd : cmd = Command("uninstall", n, servers, 0)
  OBVIOUS
<1>3. PICK cmds : cmds = <<cmd>>
  OBVIOUS
<1>4. Uninstall(s, m) = cmds
  BY <1>1, <1>2, <1>3 DEF Uninstall, ServersOf
<1>5. cmd.op = "uninstall" /\ cmd.module = n /\ cmd.servers = servers
  BY <1>2 DEF Command
<1>6. servers \subseteq WithRole(s, "any")
  BY <1>1, ModulesAreOnServers
<1>7. cmd \in Commands(s)
  BY <1>2, <1>6 DEF Command, Commands
<1>8. cmds \in Seq(Commands(s)) /\ DOMAIN cmds = {1} /\ cmds[1] = cmd
  BY <1>3, <1>7
<1>9. n \in Module(s) => UNION {cmds[i].servers : i \in DOMAIN cmds} = Target("uninstall", s, n)
  <2>1. UNION {cmds[i].servers : i \in DOMAIN cmds} = servers
    BY <1>5, <1>8
  <2>2. n \in Module(s) => n = m
    BY DEF Module, MinModule
  <2> QED
    BY <1>1, <2>1, <2>2 DEF Target
<1>10. \A i \in DOMAIN cmds : cmds[i].op = "uninstall" /\ cmds[i].module = n
  BY <1>5, <1>8
<1>11. /\ n \in DOMAIN UninstallRank /\ UninstallRank[n] \in Nat
       /\ \A k \in DOMAIN UninstallRank : UninstallRank[k] = UninstallRank[n] => k = n
  BY DEF UninstallRank, Module, MinModule
<1>12. PICK rank : rank = UninstallRank
  OBVIOUS
<1>13. Part(cmds, "uninstall", s, rank, rank[n], rank[n])
  BY <1>8, <1>9, <1>10, <1>11, <1>12, ModulePart
<1> QED
  BY <1>4, <1>12, <1>13

\* installByServer, for a module of one server.
LEMMA OneServerPart ==
  ASSUME NEW s \in Script, NEW m \in Module(s), NEW x, NEW port \in Nat,
         NEW role, ConfigOf(s)[m] = Config(role, <<x>>, port), ServersOf(s, m) = {x},
         ~ (m = "ElasticSearch" /\ s = "min"), Possible(s, x, m, port)
  PROVE  /\ InstallByServer(s, m) \in Seq(Commands(s))
         /\ Part(InstallByServer(s, m), "install", s, InstallRank, InstallRank[m], InstallRank[m])
<1>0. x \in ServersOf(s, m)
  OBVIOUS
<1>1. PICK servers : servers = <<x>>
  OBVIOUS
<1>2. servers \in Seq(ServersOf(s, m)) /\ DOMAIN servers = {1} /\ servers[1] = x
  BY <1>0, <1>1
<1>3. {servers[i] : i \in DOMAIN servers} = ServersOf(s, m)
  BY <1>2
<1>4. (IF port = 0 THEN 0 ELSE port + (1 - 1)) = port
  OBVIOUS
<1>5. \A i \in DOMAIN servers : Possible(s, servers[i], m, IF port = 0 THEN 0 ELSE port + (i - 1))
  <2> SUFFICES ASSUME NEW i \in DOMAIN servers
               PROVE  Possible(s, servers[i], m, IF port = 0 THEN 0 ELSE port + (i - 1))
    OBVIOUS
  <2>1. i = 1
    BY <1>2
  <2>2. Possible(s, servers[1], m, IF port = 0 THEN 0 ELSE port + (1 - 1))
    BY <1>2, <1>4
  <2> QED
    BY <2>1, <2>2
<1> QED
  BY <1>1, <1>2, <1>3, <1>5, ByServerPart

\* installByServer, for a module of two servers.
LEMMA TwoServersPart ==
  ASSUME NEW s \in Script, NEW m \in Module(s), NEW x, NEW y, NEW port \in Nat,
         NEW next \in Nat, next = IF port = 0 THEN 0 ELSE port + 1,
         NEW role, ConfigOf(s)[m] = Config(role, <<x, y>>, port), ServersOf(s, m) = {x, y},
         ~ (m = "ElasticSearch" /\ s = "min"), Possible(s, x, m, port), Possible(s, y, m, next)
  PROVE  /\ InstallByServer(s, m) \in Seq(Commands(s))
         /\ Part(InstallByServer(s, m), "install", s, InstallRank, InstallRank[m], InstallRank[m])
<1>0. x \in ServersOf(s, m) /\ y \in ServersOf(s, m)
  OBVIOUS
<1>1. PICK servers : servers = <<x, y>>
  OBVIOUS
<1>2. /\ servers \in Seq(ServersOf(s, m)) /\ DOMAIN servers = {1, 2}
      /\ servers[1] = x /\ servers[2] = y
  BY <1>0, <1>1
<1>3. {servers[i] : i \in DOMAIN servers} = ServersOf(s, m)
  BY <1>2
<1>4. /\ (IF port = 0 THEN 0 ELSE port + (1 - 1)) = port
      /\ (IF port = 0 THEN 0 ELSE port + (2 - 1)) = next
  OBVIOUS
<1>5. \A i \in DOMAIN servers : Possible(s, servers[i], m, IF port = 0 THEN 0 ELSE port + (i - 1))
  <2> SUFFICES ASSUME NEW i \in DOMAIN servers
               PROVE  Possible(s, servers[i], m, IF port = 0 THEN 0 ELSE port + (i - 1))
    OBVIOUS
  <2>1. i = 1 \/ i = 2
    BY <1>2
  <2>2. Possible(s, servers[1], m, IF port = 0 THEN 0 ELSE port + (1 - 1))
    BY <1>2, <1>4
  <2>3. Possible(s, servers[2], m, IF port = 0 THEN 0 ELSE port + (2 - 1))
    BY <1>2, <1>4
  <2> QED
    BY <2>1, <2>2, <2>3
<1> QED
  BY <1>1, <1>2, <1>3, <1>5, ByServerPart

\* Where the modules of local-deploy.js can be.
LEMMA LocalPossible ==
  /\ Possible("local", "generic", "Http", 8080)
  /\ Possible("local", "elasticsearch1", "ElasticSearch", 0)
  /\ Possible("local", "elasticsearch2", "ElasticSearch", 0)
  /\ Possible("local", "zookeeper1", "Zookeeper", 2181)
  /\ Possible("local", "kafka1", "Kafka", 9092)
  /\ Possible("local", "kafka2", "Kafka", 9093)
  /\ Possible("local", "kafka3", "Kafka", 9094)
  /\ Possible("local", "generic", "KafkaConsumer", 0)
  /\ Possible("local", "sparkngin1", "Sparkngin", 7080)
  /\ Possible("local", "ringbearer1", "RingBearer", 0)
  /\ Possible("local", "generic", "YaraServer", 8463)
  /\ \A x \in WithRole("local", "any") : Possible("local", x, "YaraClient", 0)
<1>1. \A p \in {8080, 2181, 9092, 9093, 9094, 7080, 8463} : p \in Nat
  OBVIOUS
<1>2. /\ Listener("generic", "Http", 8080) \in Listening("local")
      /\ Listener("zookeeper1", "Zookeeper", 2181) \in Listening("local")
      /\ Listener("kafka1", "Kafka", 9092) \in Listening("local")
      /\ Listener("kafka2", "Kafka", 9093) \in Listening("local")
      /\ Listener("kafka3", "Kafka", 9094) \in Listening("local")
      /\ Listener("sparkngin1", "Sparkngin", 7080) \in Listening("local")
      /\ Listener("generic", "YaraServer", 8463) \in Listening("local")
  BY DEF Listening
<1>3. /\ "ElasticSearch" \notin Provider /\ "KafkaConsumer" \notin Provider
      /\ "RingBearer" \notin Provider /\ "YaraClient" \notin Provider
  BY DEF Provider
<1>4. /\ Possible("local", "generic", "Http", 8080)
      /\ Possible("local", "zookeeper1", "Zookeeper", 2181)
      /\ Possible("local", "sparkngin1", "Sparkngin", 7080)
      /\ Possible("local", "generic", "YaraServer", 8463)
  BY <1>2, ModuleServers DEF Possible
<1>5. /\ Possible("local", "kafka1", "Kafka", 9092)
      /\ Possible("local", "kafka2", "Kafka", 9093)
      /\ Possible("local", "kafka3", "Kafka", 9094)
  BY <1>2, ModuleServers DEF Possible
<1>6. /\ Possible("local", "elasticsearch1", "ElasticSearch", 0)
      /\ Possible("local", "elasticsearch2", "ElasticSearch", 0)
      /\ Possible("local", "generic", "KafkaConsumer", 0)
      /\ Possible("local", "ringbearer1", "RingBearer", 0)
      /\ \A x \in WithRole("local", "any") : Possible("local", x, "YaraClient", 0)
  BY <1>3, ModuleServers DEF Possible
<1> QED
  BY <1>4, <1>5, <1>6

\* Where those of minimum-cluster-deploy.js can be.
LEMMA MinimumPossible ==
  /\ Possible("minimum", "generic", "Http", 8080)
  /\ Possible("minimum", "generic", "ElasticSearch", 0)
  /\ Possible("minimum", "zookeeper-1", "Zookeeper", 2181)
  /\ Possible("minimum", "kafka-1", "Kafka", 9092)
  /\ Possible("minimum", "kafka-2", "Kafka", 9093)
  /\ Possible("minimum", "generic", "KafkaConsumer", 0)
  /\ Possible("minimum", "sparkngin-1", "Sparkngin", 7080)
  /\ Possible("minimum", "generic", "RingBearer", 0)
<1>1. /\ Listener("generic", "Http", 8080) \in Listening("minimum")
      /\ Listener("zookeeper-1", "Zookeeper", 2181) \in Listening("minimum")
      /\ Listener("kafka-1", "Kafka", 9092) \in Listening("minimum")
      /\ Listener("kafka-2", "Kafka", 9093) \in Listening("minimum")
      /\ Listener("sparkngin-1", "Sparkngin", 7080) \in Listening("minimum")
  BY DEF Listening
<1>2. /\ "ElasticSearch" \notin Provider /\ "KafkaConsumer" \notin Provider
      /\ "RingBearer" \notin Provider
  BY DEF Provider
<1>3. "minimum" \in {"min", "minimum"}
  OBVIOUS
<1>4. /\ ServersOf("minimum", "Http") = {"generic"}
      /\ ServersOf("minimum", "ElasticSearch") = {"generic"}
      /\ ServersOf("minimum", "Zookeeper") = {"zookeeper-1"}
      /\ ServersOf("minimum", "Kafka") = {"kafka-1", "kafka-2"}
      /\ ServersOf("minimum", "KafkaConsumer") = {"generic"}
      /\ ServersOf("minimum", "Sparkngin") = {"sparkngin-1"}
      /\ ServersOf("minimum", "RingBearer") = {"generic"}
  BY <1>3, ModuleServers
<1> QED
  BY <1>1, <1>2, <1>4 DEF Possible

\* install() of local-deploy.js, for a module.
LEMMA LocalInstallPart ==
  ASSUME NEW m \in Module("local"), m # "YaraClient"
  PROVE  /\ InstallByServer("local", m) \in Seq(Commands("local"))
         /\ Part(InstallByServer("local", m), "install", "local", InstallRank,
                 InstallRank[m], InstallRank[m])
<1>0. "local" \in Script /\ ~ (m = "ElasticSearch" /\ "local" = "min")
  BY DEF Script
<1>1. CASE m = "Http"
  <2>0. 8080 \in Nat
    OBVIOUS
  <2>1. /\ ServersOf("local", m) = {"generic"}
        /\ ConfigOf("local")[m] = Config("generic", <<"generic">>, 8080)
        /\ Possible("local", "generic", m, 8080)
    BY <1>1, LocalConfigs, ModuleServers, LocalPossible
  <2> QED
    BY <1>0, <2>0, <2>1, OneServerPart
<1>2. CASE m = "ElasticSearch"
  <2>0. 0 \in Nat
    OBVIOUS
  <2>1. /\ ServersOf("local", m) = {"elasticsearch1", "elasticsearch2"}
        /\ ConfigOf("local")[m] = Config("elasticsearch", <<"elasticsearch1", "elasticsearch2">>, 0)
        /\ Possible("local", "elasticsearch1", m, 0) /\ Possible("local", "elasticsearch2", m, 0)
        /\ 0 = IF 0 = 0 THEN 0 ELSE 0 + 1
    BY <1>2, LocalConfigs, ModuleServers, LocalPossible
  <2> QED
    BY <1>0, <2>0, <2>1, TwoServersPart
<1>3. CASE m = "Zookeeper"
  <2>0. 2181 \in Nat
    OBVIOUS
  <2>1. /\ ServersOf("local", m) = {"zookeeper1"}
        /\ ConfigOf("local")[m] = Config("zookeeper", <<"zookeeper1">>, 2181)
        /\ Possible("local", "zookeeper1", m, 2181)
    BY <1>3, LocalConfigs, ModuleServers, LocalPossible
  <2> QED
    BY <1>0, <2>0, <2>1, OneServerPart
<1>4. CASE m = "Kafka"
  <2>0. PICK x, y, z : x = "kafka1" /\ y = "kafka2" /\ z = "kafka3"
    OBVIOUS
  <2>0a. x \in ServersOf("local", m) /\ y \in ServersOf("local", m) /\ z \in ServersOf("local", m)
    BY <1>4, <2>0, ModuleServers
  <2>1. PICK servers : servers = <<x, y, z>>
    OBVIOUS
  <2>2. /\ servers \in Seq(ServersOf("local", m)) /\ DOMAIN servers = {1, 2, 3}
        /\ servers[1] = x /\ servers[2] = y /\ servers[3] = z
    BY <2>0a, <2>1
  <2>3. {servers[i] : i \in DOMAIN servers} = ServersOf("local", m)
    BY <1>4, <2>0, <2>2, ModuleServers
  <2>4. 9092 + (1 - 1) = 9092 /\ 9092 + (2 - 1) = 9093 /\ 9092 + (3 - 1) = 9094 /\ 9092 # 0
    OBVIOUS
  <2>5. \A i \in DOMAIN servers :
          Possible("local", servers[i], m, IF 9092 = 0 THEN 0 ELSE 9092 + (i - 1))
    <3> SUFFICES ASSUME NEW i \in DOMAIN servers
                 PROVE  Possible("local", servers[i], m, 9092 + (i - 1))
      BY <2>4
    <3>1. i = 1 \/ i = 2 \/ i = 3
      BY <2>2
    <3>2. /\ Possible("local", servers[1], m, 9092 + (1 - 1))
          /\ Possible("local", servers[2], m, 9092 + (2 - 1))
          /\ Possible("local", servers[3], m, 9092 + (3 - 1))
      BY <1>4, <2>0, <2>2, <2>4, LocalPossible
    <3> QED
      BY <3>1, <3>2
  <2>6. ConfigOf("local")[m] = Config("kafka", servers, 9092) /\ 9092 \in Nat
    BY <1>4, <2>0, <2>1, LocalConfigs
  <2> QED
    BY <1>0, <2>2, <2>3, <2>5, <2>6, ByServerPart
<1>5. CASE m = "KafkaConsumer"
  <2>0. 0 \in Nat
    OBVIOUS
  <2>1. /\ ServersOf("local", m) = {"generic"}
        /\ ConfigOf("local")[m] = Config("generic", <<"generic">>, 0)
        /\ Possible("local", "generic", m, 0)
    BY <1>5, LocalConfigs, ModuleServers, LocalPossible
  <2> QED
    BY <1>0, <2>0, <2>1, OneServerPart
<1>6. CASE m = "Sparkngin"
  <2>0. 7080 \in Nat
    OBVIOUS
  <2>1. /\ ServersOf("local", m) = {"sparkngin1"}
        /\ ConfigOf("local")[m] = Config("sparkngin", <<"sparkngin1">>, 7080)
        /\ Possible("local", "sparkngin1", m, 7080)
    BY <1>6, LocalConfigs, ModuleServers, LocalPossible
  <2> QED
    BY <1>0, <2>0, <2>1, OneServerPart
<1>7. CASE m = "RingBearer"
  <2>0. 0 \in Nat
    OBVIOUS
  <2>1. /\ ServersOf("local", m) = {"ringbearer1"}
        /\ ConfigOf("local")[m] = Config("ringbearer", <<"ringbearer1">>, 0)
        /\ Possible("local", "ringbearer1", m, 0)
    BY <1>7, LocalConfigs, ModuleServers, LocalPossible
  <2> QED
    BY <1>0, <2>0, <2>1, OneServerPart
<1>8. CASE m = "YaraServer"
  <2>0. 8463 \in Nat
    OBVIOUS
  <2>1. /\ ServersOf("local", m) = {"generic"}
        /\ ConfigOf("local")[m] = Config("generic", <<"generic">>, 8463)
        /\ Possible("local", "generic", m, 8463)
    BY <1>8, LocalConfigs, ModuleServers, LocalPossible
  <2> QED
    BY <1>0, <2>0, <2>1, OneServerPart
<1> QED
  BY <1>1, <1>2, <1>3, <1>4, <1>5, <1>6, <1>7, <1>8 DEF Module, MinModule

\* install() of minimum-cluster-deploy.js, for a module.
LEMMA MinimumInstallPart ==
  ASSUME NEW m \in MinModule
  PROVE  /\ InstallByServer("minimum", m) \in Seq(Commands("minimum"))
         /\ Part(InstallByServer("minimum", m), "install", "minimum", InstallRank,
                 InstallRank[m], InstallRank[m])
<1>0. /\ m \in Module("minimum") /\ "minimum" \in Script /\ "minimum" \in {"min", "minimum"}
      /\ ~ (m = "ElasticSearch" /\ "minimum" = "min")
  BY DEF Module, Script
<1>1. CASE m = "Http"
  <2>0. 8080 \in Nat
    OBVIOUS
  <2>1. /\ ServersOf("minimum", m) = {"generic"}
        /\ ConfigOf("minimum")[m] = Config("generic", <<"generic">>, 8080)
        /\ Possible("minimum", "generic", m, 8080)
    BY <1>0, <1>1, MinConfigs, ModuleServers, MinimumPossible
  <2> QED
    BY <1>0, <2>0, <2>1, OneServerPart
<1>2. CASE m = "Zookeeper"
  <2>0. 2181 \in Nat
    OBVIOUS
  <2>1. /\ ServersOf("minimum", m) = {"zookeeper-1"}
        /\ ConfigOf("minimum")[m] = Config("zookeeper", <<"zookeeper-1">>, 2181)
        /\ Possible("minimum", "zookeeper-1", m, 2181)
    BY <1>0, <1>2, MinConfigs, ModuleServers, MinimumPossible
  <2> QED
    BY <1>0, <2>0, <2>1, OneServerPart
<1>3. CASE m = "Kafka"
  <2>0. 9092 \in Nat /\ 9093 \in Nat
    OBVIOUS
  <2>1. /\ ServersOf("minimum", m) = {"kafka-1", "kafka-2"}
        /\ ConfigOf("minimum")[m] = Config("kafka", <<"kafka-1", "kafka-2">>, 9092)
        /\ Possible("minimum", "kafka-1", m, 9092) /\ Possible("minimum", "kafka-2", m, 9093)
    BY <1>0, <1>3, MinConfigs, ModuleServers, MinimumPossible
  <2>2. 9093 = IF 9092 = 0 THEN 0 ELSE 9092 + 1
    OBVIOUS
  <2> QED
    BY <1>0, <2>0, <2>1, <2>2, TwoServersPart
<1>4. CASE m = "Sparkngin"
  <2>0. 7080 \in Nat
    OBVIOUS
  <2>1. /\ ServersOf("minimum", m) = {"sparkngin-1"}
        /\ ConfigOf("minimum")[m] = Config("sparkngin", <<"sparkngin-1">>, 7080)
        /\ Possible("minimum", "sparkngin-1", m, 7080)
    BY <1>0, <1>4, MinConfigs, ModuleServers, MinimumPossible
  <2> QED
    BY <1>0, <2>0, <2>1, OneServerPart
<1>5. CASE m \in {"ElasticSearch", "KafkaConsumer", "RingBearer"}
  <2>0. 0 \in Nat
    OBVIOUS
  <2>1. /\ ServersOf("minimum", m) = {"generic"}
        /\ ConfigOf("minimum")[m] = Config("generic", <<"generic">>, 0)
        /\ Possible("minimum", "generic", m, 0)
    BY <1>0, <1>5, MinConfigs, ModuleServers, MinimumPossible
  <2> QED
    BY <1>0, <2>0, <2>1, OneServerPart
<1> QED
  BY <1>1, <1>2, <1>3, <1>4, <1>5 DEF MinModule

\* install() of min-cluster-deploy.js, for a module.
LEMMA MinInstallPart ==
  ASSUME NEW m \in MinModule
  PROVE  Part(InstallByRole("min", m), "install", "min", InstallRank,
              InstallRank[m], InstallRank[m])
<1> DEFINE Fits(role, servers, port) ==
      /\ port \in Nat
      /\ ConfigOf("min")[m] = Config(role, servers, port)
      /\ \A x \in ServersOf("min", m) : m # "ElasticSearch" => Possible("min", x, m, port)
<1>0. m \in Module("min") /\ "min" \in Script
  BY DEF Module, Script
<1>1. CASE m = "Http"
  <2>1. Fits("generic", <<"generic">>, 8080)
    BY <1>1, MinConfigs, ModuleServers DEF Possible, Listener, Listening
  <2> QED
    BY <1>0, <1>1, <2>1, ByRolePart
<1>2. CASE m = "Zookeeper"
  <2>1. Fits("zookeeper", <<"zookeeper-1">>, 2181)
    BY <1>2, MinConfigs, ModuleServers DEF Possible, Listener, Listening
  <2> QED
    BY <1>0, <1>2, <2>1, ByRolePart
<1>3. CASE m = "Kafka"
  <2>1. Fits("kafka", <<"kafka-1", "kafka-2">>, 9092)
    BY <1>3, MinConfigs, ModuleServers DEF Possible, Listener, Listening
  <2> QED
    BY <1>0, <1>3, <2>1, ByRolePart
<1>4. CASE m = "Sparkngin"
  <2>1. Fits("sparkngin", <<"sparkngin-1">>, 7080)
    BY <1>4, MinConfigs, ModuleServers DEF Possible, Listener, Listening
  <2> QED
    BY <1>0, <1>4, <2>1, ByRolePart
<1>5. CASE m \in {"ElasticSearch", "KafkaConsumer", "RingBearer"}
  <2>1. Fits("generic", <<"generic">>, 0)
    BY <1>5, MinConfigs, ModuleServers DEF Possible, Provider
  <2> QED
    BY <1>0, <2>1, ByRolePart
<1> QED
  BY <1>1, <1>2, <1>3, <1>4, <1>5 DEF MinModule

-----------------------------------------------------------------------------
(* The whole scripts                                                       *)

\* The places in install() ...
LEMMA InstallRanks ==
  /\ InstallRank["Http"] = 1 /\ InstallRank["ElasticSearch"] = 2 /\ InstallRank["Zookeeper"] = 3
  /\ InstallRank["Kafka"] = 4 /\ InstallRank["KafkaConsumer"] = 5
  /\ InstallRank["Sparkngin"] = 6 /\ InstallRank["RingBearer"] = 7
  /\ InstallRank["YaraServer"] = 8 /\ InstallRank["YaraClient"] = 9
  /\ \A m \in DOMAIN InstallRank : InstallRank[m] \in 1 .. 9
  /\ DOMAIN InstallRank = MinModule \cup {"YaraServer", "YaraClient"}
BY DEF InstallRank, MinModule

\* ... and in uninstall().
LEMMA UninstallRanks ==
  /\ UninstallRank["RingBearer"] = 1 /\ UninstallRank["Sparkngin"] = 2
  /\ UninstallRank["Kafka"] = 3 /\ UninstallRank["KafkaConsumer"] = 4
  /\ UninstallRank["Zookeeper"] = 5 /\ UninstallRank["HttpGateway"] = 6
  /\ UninstallRank["ElasticSearch"] = 7 /\ UninstallRank["YaraServer"] = 8
  /\ UninstallRank["YaraClient"] = 9
  /\ \A m \in DOMAIN UninstallRank : UninstallRank[m] \in 1 .. 9
  /\ DOMAIN UninstallRank
       = (MinModule \cup {"YaraServer", "YaraClient", "HttpGateway"}) \ {"Http"}
BY DEF UninstallRank, MinModule

\* Seven parts in a row.
LEMMA SevenParts ==
  ASSUME NEW s, NEW op, NEW rank, \A m \in DOMAIN rank : rank[m] \in Nat,
         NEW a, Part(a, op, s, rank, 1, 1), NEW b, Part(b, op, s, rank, 2, 2),
         NEW c, Part(c, op, s, rank, 3, 3), NEW d, Part(d, op, s, rank, 4, 4),
         NEW e, Part(e, op, s, rank, 5, 5), NEW f, Part(f, op, s, rank, 6, 6),
         NEW g, Part(g, op, s, rank, 7, 7)
  PROVE  Part(a \o b \o c \o d \o e \o f \o g, op, s, rank, 1, 7)
<1>1. Part(a \o b, op, s, rank, 1, 2)
  <2>1. 1 \in Nat /\ 2 \in Nat /\ 1 <= 1 /\ 1 < 2 /\ 1 + 1 = 2
    OBVIOUS
  <2> QED
    BY <2>1, PartsJoin
<1>2. Part(a \o b \o c, op, s, rank, 1, 3)
  <2>1. 1 \in Nat /\ 2 \in Nat /\ 3 \in Nat /\ 1 <= 2 /\ 2 < 3 /\ 2 + 1 = 3
    OBVIOUS
  <2> QED
    BY <1>1, <2>1, PartsJoin
<1>3. Part(a \o b \o c \o d, op, s, rank, 1, 4)
  <2>1. 1 \in Nat /\ 3 \in Nat /\ 4 \in Nat /\ 1 <= 3 /\ 3 < 4 /\ 3 + 1 = 4
    OBVIOUS
  <2> QED
    BY <1>2, <2>1, PartsJoin
<1>4. Part(a \o b \o c \o d \o e, op, s, rank, 1, 5)
  <2>1. 1 \in Nat /\ 4 \in Nat /\ 5 \in Nat /\ 1 <= 4 /\ 4 < 5 /\ 4 + 1 = 5
    OBVIOUS
  <2> QED
    BY <1>3, <2>1, PartsJoin
<1>5. Part(a \o b \o c \o d \o e \o f, op, s, rank, 1, 6)
  <2>1. 1 \in Nat /\ 5 \in Nat /\ 6 \in Nat /\ 1 <= 5 /\ 5 < 6 /\ 5 + 1 = 6
    OBVIOUS
  <2> QED
    BY <1>4, <2>1, PartsJoin
<1>6. Part(a \o b \o c \o d \o e \o f \o g, op, s, rank, 1, 7)
  <2>1. 1 \in Nat /\ 6 \in Nat /\ 7 \in Nat /\ 1 <= 6 /\ 6 < 7 /\ 6 + 1 = 7
    OBVIOUS
  <2> QED
    BY <1>5, <2>1, PartsJoin
<1> QED
  BY <1>6

High(s) == IF s = "local" THEN 9 ELSE 7

\* install() of a script is a part that goes through all the ranks.
LEMMA InstallScript ==
  ASSUME NEW s \in Script
  PROVE  Part(InstallCommands(s), "install", s, InstallRank, 1, High(s))
<1>0. \A m \in DOMAIN InstallRank : InstallRank[m] \in Nat
  BY DEF InstallRank
<1>1. CASE s = "min"
  <2>1. PICK h, e, z, k, c, p, r :
          /\ h = InstallByRole("min", "Http") /\ e = InstallByRole("min", "ElasticSearch")
          /\ z = InstallByRole("min", "Zookeeper") /\ k = InstallByRole("min", "Kafka")
          /\ c = InstallByRole("min", "KafkaConsumer") /\ p = InstallByRole("min", "Sparkngin")
          /\ r = InstallByRole("min", "RingBearer")
    OBVIOUS
  <2>2. /\ Part(h, "install", "min", InstallRank, 1, 1)
        /\ Part(e, "install", "min", InstallRank, 2, 2)
        /\ Part(z, "install", "min", InstallRank, 3, 3)
        /\ Part(k, "install", "min", InstallRank, 4, 4)
        /\ Part(c, "install", "min", InstallRank, 5, 5)
        /\ Part(p, "install", "min", InstallRank, 6, 6)
        /\ Part(r, "install", "min", InstallRank, 7, 7)
    BY <2>1, MinInstallPart, InstallRanks DEF MinModule
  <2>3. PICK w : w = h \o e \o z \o k \o c \o p \o r
    OBVIOUS
  <2>4. Part(w, "install", "min", InstallRank, 1, 7)
    BY <1>0, <2>2, <2>3, SevenParts
  <2>5. InstallCommands("min") = w \o <<>>
    BY <2>1, <2>3 DEF InstallCommands
  <2>6. w \o <<>> = w
    BY <2>4, ConcatEmptySeq DEF Part
  <2> QED
    BY <1>1, <2>4, <2>5, <2>6 DEF High
<1>2. CASE s = "minimum"
  <2>1. PICK h, e, z, k, c, p, r :
          /\ h = InstallByServer("minimum", "Http")
          /\ e = InstallByServer("minimum", "ElasticSearch")
          /\ z = InstallByServer("minimum", "Zookeeper") /\ k = InstallByServer("minimum", "Kafka")
          /\ c = InstallByServer("minimum", "KafkaConsumer")
          /\ p = InstallByServer("minimum", "Sparkngin")
          /\ r = InstallByServer("minimum", "RingBearer")
    OBVIOUS
  <2>2. /\ Part(h, "install", "minimum", InstallRank, 1, 1)
        /\ Part(e, "install", "minimum", InstallRank, 2, 2)
        /\ Part(z, "install", "minimum", InstallRank, 3, 3)
        /\ Part(k, "install", "minimum", InstallRank, 4, 4)
        /\ Part(c, "install", "minimum", InstallRank, 5, 5)
        /\ Part(p, "install", "minimum", InstallRank, 6, 6)
        /\ Part(r, "install", "minimum", InstallRank, 7, 7)
    BY <2>1, MinimumInstallPart, InstallRanks DEF MinModule
  <2>3. PICK w : w = h \o e \o z \o k \o c \o p \o r
    OBVIOUS
  <2>4. Part(w, "install", "minimum", InstallRank, 1, 7)
    BY <1>0, <2>2, <2>3, SevenParts
  <2>5. InstallCommands("minimum") = w \o <<>>
    BY <2>1, <2>3 DEF InstallCommands
  <2>6. w \o <<>> = w
    BY <2>4, ConcatEmptySeq DEF Part
  <2> QED
    BY <1>2, <2>4, <2>5, <2>6 DEF High
<1>3. CASE s = "local"
  <2>1. PICK h, e, z, k, c, p, r, y, l :
          /\ h = InstallByServer("local", "Http") /\ e = InstallByServer("local", "ElasticSearch")
          /\ z = InstallByServer("local", "Zookeeper") /\ k = InstallByServer("local", "Kafka")
          /\ c = InstallByServer("local", "KafkaConsumer")
          /\ p = InstallByServer("local", "Sparkngin")
          /\ r = InstallByServer("local", "RingBearer")
          /\ y = InstallByServer("local", "YaraServer")
          /\ l = InstallByRole("local", "YaraClient")
    OBVIOUS
  <2>2. /\ Part(h, "install", "local", InstallRank, 1, 1)
        /\ Part(e, "install", "local", InstallRank, 2, 2)
        /\ Part(z, "install", "local", InstallRank, 3, 3)
        /\ Part(k, "install", "local", InstallRank, 4, 4)
        /\ Part(c, "install", "local", InstallRank, 5, 5)
        /\ Part(p, "install", "local", InstallRank, 6, 6)
        /\ Part(r, "install", "local", InstallRank, 7, 7)
        /\ Part(y, "install", "local", InstallRank, 8, 8)
    BY <2>1, LocalInstallPart, InstallRanks DEF Module, MinModule
  <2>3. Part(l, "install", "local", InstallRank, 9, 9)
    <3>1. /\ "local" \in Script /\ "YaraClient" \in Module("local") /\ 0 \in Nat
          /\ ConfigOf("local")["YaraClient"] = Config("any", <<>>, 0)
          /\ \A x \in ServersOf("local", "YaraClient") : Possible("local", x, "YaraClient", 0)
          /\ "YaraClient" # "ElasticSearch"
      BY LocalConfigs, ModuleServers, LocalPossible DEF Script, Module
    <3>2. Part(InstallByRole("local", "YaraClient"), "install", "local", InstallRank,
               InstallRank["YaraClient"], InstallRank["YaraClient"])
      BY <3>1, ByRolePart
    <3> QED
      BY <2>1, <3>2, InstallRanks
  <2>4. PICK w : w = h \o e \o z \o k \o c \o p \o r
    OBVIOUS
  <2>5. Part(w, "install", "local", InstallRank, 1, 7)
    BY <1>0, <2>2, <2>4, SevenParts
  <2>6. 1 \in Nat /\ 7 \in Nat /\ 8 \in Nat /\ 9 \in Nat /\ 1 <= 7 /\ 7 < 9 /\ 7 + 1 = 8 /\ 8 <= 8
        /\ 8 < 9 /\ 8 + 1 = 9
    OBVIOUS
  <2>7. Part(y \o l, "install", "local", InstallRank, 8, 9)
    BY <1>0, <2>2, <2>3, <2>6, PartsJoin
  <2>8. PICK v : v = y \o l
    OBVIOUS
  <2>9. Part(w \o v, "install", "local", InstallRank, 1, 9)
    BY <1>0, <2>5, <2>6, <2>7, <2>8, PartsJoin
  <2>10. InstallCommands("local") = w \o v
    BY <2>1, <2>4, <2>8 DEF InstallCommands, InstallYara
  <2> QED
    BY <1>3, <2>9, <2>10 DEF High
<1> QED
  BY <1>1, <1>2, <1>3 DEF Script

\* uninstall() of a script is one, too, for the ranks of uninstall().
LEMMA UninstallScript ==
  ASSUME NEW s \in Script
  PROVE  Part(UninstallCommands(s), "uninstall", s, UninstallRank, 1, High(s))
<1>0. \A m \in DOMAIN UninstallRank : UninstallRank[m] \in Nat
  BY DEF UninstallRank
<1>1. PICK a, b, c, d, e, f, g :
        /\ a = Uninstall(s, "RingBearer")
        /\ b = Uninstall(s, "Sparkngin")
        /\ c = Uninstall(s, "Kafka")
        /\ d = Uninstall(s, "KafkaConsumer") /\ e = Uninstall(s, "Zookeeper")
        /\ f = Uninstall(s, "Http") /\ g = Uninstall(s, "ElasticSearch")
  OBVIOUS
<1>2. MinModule \subseteq Module(s)
  BY DEF Module
<1>3. /\ Part(a, "uninstall", s, UninstallRank, 1, 1)
      /\ Part(b, "uninstall", s, UninstallRank, 2, 2)
      /\ Part(c, "uninstall", s, UninstallRank, 3, 3)
      /\ Part(d, "uninstall", s, UninstallRank, 4, 4)
      /\ Part(e, "uninstall", s, UninstallRank, 5, 5)
      /\ Part(g, "uninstall", s, UninstallRank, 7, 7)
  BY <1>1, <1>2, UninstallPart, UninstallRanks DEF MinModule
<1>4. Part(f, "uninstall", s, UninstallRank, 6, 6)
  BY <1>1, <1>2, UninstallPart, UninstallRanks DEF MinModule
<1>5. PICK w : w = a \o b \o c \o d \o e \o f \o g
  OBVIOUS
<1>6. Part(w, "uninstall", s, UninstallRank, 1, 7)
  BY <1>0, <1>3, <1>4, <1>5, SevenParts
<1>7. CASE s # "local"
  <2>1. UninstallCommands(s) = w \o <<>>
    BY <1>1, <1>5, <1>7 DEF UninstallCommands
  <2>2. w \o <<>> = w
    BY <1>6, ConcatEmptySeq DEF Part
  <2> QED
    BY <1>6, <1>7, <2>1, <2>2 DEF High
<1>8. CASE s = "local"
  <2>1. PICK y, l : y = Uninstall("local", "YaraServer") /\ l = Uninstall("local", "YaraClient")
    OBVIOUS
  <2>2. /\ Part(y, "uninstall", "local", UninstallRank, 8, 8)
        /\ Part(l, "uninstall", "local", UninstallRank, 9, 9)
    BY <1>8, <2>1, UninstallPart, UninstallRanks DEF Module
  <2>3. 1 \in Nat /\ 7 \in Nat /\ 8 \in Nat /\ 9 \in Nat /\ 1 <= 7 /\ 7 < 9 /\ 7 + 1 = 8 /\ 8 <= 8
        /\ 8 < 9 /\ 8 + 1 = 9
    OBVIOUS
  <2>4. PICK v : v = y \o l
    OBVIOUS
  <2>5. Part(v, "uninstall", "local", UninstallRank, 8, 9)
    BY <1>0, <2>2, <2>3, <2>4, PartsJoin
  <2>6. Part(w \o v, "uninstall", "local", UninstallRank, 1, 9)
    BY <1>0, <1>6, <1>8, <2>3, <2>5, PartsJoin
  <2>7. UninstallCommands("local") = w \o v
    BY <1>1, <1>5, <1>8, <2>1, <2>4 DEF UninstallCommands
  <2> QED
    BY <1>8, <2>6, <2>7 DEF High
<1> QED
  BY <1>7, <1>8

-----------------------------------------------------------------------------
(* The locations                                                           *)

Loc(m, host, port) == [module |-> m, host |-> host, port |-> port]

\* What each module is given, by local-deploy.js ...
LEMMA LocalConnections ==
  ASSUME script = "local", NEW m, NEW a \in Connect(m)
  PROVE  \/ m \in {"Kafka", "KafkaConsumer"} /\ a = Loc("Zookeeper", "127.0.0.1", 2181)
         \/ /\ m \in {"Sparkngin", "RingBearer"}
            /\ a \in {Loc("Kafka", "127.0.0.1", 9092), Loc("Kafka", "127.0.0.1", 9093),
                      Loc("Kafka", "127.0.0.1", 9094)}
         \/ m = "RingBearer" /\ a = Loc("Sparkngin", "127.0.0.1", 7080)
         \/ m = "YaraClient" /\ a = Loc("YaraServer", "127.0.0.1", 8463)
<1>1. \A n, h, p : At(n, h, {p}) = {Loc(n, h, p)}
  BY DEF At, Loc
<1>2. At("Kafka", "127.0.0.1", {9092, 9093, 9094})
        = {Loc("Kafka", "127.0.0.1", 9092), Loc("Kafka", "127.0.0.1", 9093),
           Loc("Kafka", "127.0.0.1", 9094)}
  BY DEF At, Loc
<1>3. m \in DOMAIN LocalConnect /\ a \in LocalConnect[m]
  BY DEF Connect
<1>4. m \in {"Kafka", "KafkaConsumer", "Sparkngin", "RingBearer", "YaraClient"}
  BY <1>3 DEF LocalConnect
<1>5. /\ LocalConnect["Kafka"] = {Loc("Zookeeper", "127.0.0.1", 2181)}
      /\ LocalConnect["KafkaConsumer"] = {Loc("Zookeeper", "127.0.0.1", 2181)}
      /\ LocalConnect["Sparkngin"] = At("Kafka", "127.0.0.1", {9092, 9093, 9094})
      /\ LocalConnect["RingBearer"] = At("Kafka", "127.0.0.1", {9092, 9093, 9094})
                                      \cup {Loc("Sparkngin", "127.0.0.1", 7080)}
      /\ LocalConnect["YaraClient"] = {Loc("YaraServer", "127.0.0.1", 8463)}
  BY <1>1 DEF LocalConnect
<1> QED
  BY <1>2, <1>3, <1>4, <1>5

\* ... and by the other two.
LEMMA MinConnections ==
  ASSUME script \in {"min", "minimum"}, NEW m, NEW a \in Connect(m)
  PROVE  \/ m \in {"Kafka", "KafkaConsumer"} /\ a = Loc("Zookeeper", "zookeeper-1", 2181)
         \/ /\ m \in {"Sparkngin", "RingBearer"}
            /\ a \in {Loc("Kafka", "kafka-1", 9092), Loc("Kafka", "kafka-2", 9092)}
         \/ m = "RingBearer" /\ a = Loc("Sparkngin", "sparkngin-1", 7080)
<1>1. \A n, h, p : At(n, h, {p}) = {Loc(n, h, p)}
  BY DEF At, Loc
<1>2. m \in DOMAIN MinConnect /\ a \in MinConnect[m]
  BY DEF Connect
<1>3. m \in {"Kafka", "KafkaConsumer", "Sparkngin", "RingBearer"}
  BY <1>2 DEF MinConnect
<1>4. /\ MinConnect["Kafka"] = {Loc("Zookeeper", "zookeeper-1", 2181)}
      /\ MinConnect["KafkaConsumer"] = {Loc("Zookeeper", "zookeeper-1", 2181)}
      /\ MinConnect["Sparkngin"]
           = {Loc("Kafka", "kafka-1", 9092)} \cup {Loc("Kafka", "kafka-2", 9092)}
      /\ MinConnect["RingBearer"]
           = {Loc("Kafka", "kafka-1", 9092)} \cup {Loc("Kafka", "kafka-2", 9092)}
                                    \cup {Loc("Sparkngin", "sparkngin-1", 7080)}
  BY <1>1 DEF MinConnect
<1> QED
  BY <1>2, <1>3, <1>4

\* A module is installed after those it is given the locations of, and, but for
\* the clients of Yara, uninstalled before them.
LEMMA ConnectedRanks ==
  ASSUME script \in Script, NEW m, NEW a \in Connect(m)
  PROVE  /\ a.module \in Module(script) /\ a.module \in Provider /\ a.module # "ElasticSearch"
         /\ m \in Module(script) /\ m # "Http" /\ m # a.module
         /\ a.module # "Http"
         /\ InstallRank[a.module] < InstallRank[m]
         /\ m # "YaraClient" => UninstallRank[m] < UninstallRank[a.module]
<1>0. \A n, h, p : Loc(n, h, p).module = n
  BY DEF Loc
<1>1. CASE script = "local"
  <2>1. \/ m \in {"Kafka", "KafkaConsumer"} /\ a.module = "Zookeeper"
        \/ m \in {"Sparkngin", "RingBearer"} /\ a.module = "Kafka"
        \/ m = "RingBearer" /\ a.module = "Sparkngin"
        \/ m = "YaraClient" /\ a.module = "YaraServer"
    BY <1>0, <1>1, LocalConnections
  <2> QED
    BY <1>1, <2>1, InstallRanks, UninstallRanks DEF Module, MinModule, Provider
<1>2. CASE script \in {"min", "minimum"}
  <2>1. \/ m \in {"Kafka", "KafkaConsumer"} /\ a.module = "Zookeeper"
        \/ m \in {"Sparkngin", "RingBearer"} /\ a.module = "Kafka"
        \/ m = "RingBearer" /\ a.module = "Sparkngin"
    BY <1>0, <1>2, MinConnections
  <2> QED
    BY <1>2, <2>1, InstallRanks, UninstallRanks DEF Module, MinModule, Provider
<1> QED
  BY <1>1, <1>2 DEF Script

\* One server of the module has the location, and no other module anywhere.
Unique(a, x) ==
  /\ x \in ServersOf(script, a.module)
  /\ Listener(x, a.module, a.port) \in Listening(script)
  /\ script = "local" \/ a.host = x
  /\ script = "local" => a.host = "127.0.0.1"
  /\ a.port \in Nat \ {0}
  /\ \A l \in Listening(script) :
       /\ l.server = x /\ l.module = a.module => l.port = a.port
       /\ l.port = a.port /\ (script = "local" \/ l.server = a.host)
            => l = Listener(x, a.module, a.port)

LEMMA Locations ==
  ASSUME script \in Script, NEW m, NEW a \in Connect(m),
         ~ (script = "minimum" /\ a.host = "kafka-2")
  PROVE  \E x : Unique(a, x)
<1>0. \A n, h, p : Loc(n, h, p).module = n /\ Loc(n, h, p).host = h /\ Loc(n, h, p).port = p
  BY DEF Loc
<1>0a. \A x, n, p : /\ Listener(x, n, p).server = x /\ Listener(x, n, p).module = n
                    /\ Listener(x, n, p).port = p
  BY DEF Listener
<1>1. CASE script = "local"
  <2>0. Listening(script)
          = { Listener("generic", "Http", 8080), Listener("zookeeper1", "Zookeeper", 2181),
              Listener("kafka1", "Kafka", 9092), Listener("kafka2", "Kafka", 9093),
              Listener("kafka3", "Kafka", 9094), Listener("sparkngin1", "Sparkngin", 7080),
              Listener("generic", "YaraServer", 8463) }
    BY <1>1 DEF Listening
  <2>1. CASE a = Loc("Zookeeper", "127.0.0.1", 2181)
    <3>1. Unique(a, "zookeeper1")
      BY <1>0, <1>0a, <1>1, <2>0, <2>1, ModuleServers DEF Unique
    <3> QED
      BY <3>1
  <2>2. CASE a = Loc("Kafka", "127.0.0.1", 9092)
    <3>1. Unique(a, "kafka1")
      BY <1>0, <1>0a, <1>1, <2>0, <2>2, ModuleServers DEF Unique
    <3> QED
      BY <3>1
  <2>3. CASE a = Loc("Kafka", "127.0.0.1", 9093)
    <3>1. Unique(a, "kafka2")
      BY <1>0, <1>0a, <1>1, <2>0, <2>3, ModuleServers DEF Unique
    <3> QED
      BY <3>1
  <2>4. CASE a = Loc("Kafka", "127.0.0.1", 9094)
    <3>1. Unique(a, "kafka3")
      BY <1>0, <1>0a, <1>1, <2>0, <2>4, ModuleServers DEF Unique
    <3> QED
      BY <3>1
  <2>5. CASE a = Loc("Sparkngin", "127.0.0.1", 7080)
    <3>1. Unique(a, "sparkngin1")
      BY <1>0, <1>0a, <1>1, <2>0, <2>5, ModuleServers DEF Unique
    <3> QED
      BY <3>1
  <2>6. CASE a = Loc("YaraServer", "127.0.0.1", 8463)
    <3>1. Unique(a, "generic")
      BY <1>0, <1>0a, <1>1, <2>0, <2>6, ModuleServers DEF Unique
    <3> QED
      BY <3>1
  <2> QED
    BY <1>1, <2>1, <2>2, <2>3, <2>4, <2>5, <2>6, LocalConnections
<1>2. CASE script \in {"min", "minimum"}
  <2>0. PICK second \in Nat :
          /\ second = IF script = "min" THEN 9092 ELSE 9093
          /\ Listening(script)
               = { Listener("generic", "Http", 8080), Listener("zookeeper-1", "Zookeeper", 2181),
                   Listener("kafka-1", "Kafka", 9092), Listener("kafka-2", "Kafka", second),
                   Listener("sparkngin-1", "Sparkngin", 7080) }
    BY <1>2 DEF Listening
  <2>1. CASE a = Loc("Zookeeper", "zookeeper-1", 2181)
    <3>1. Unique(a, "zookeeper-1")
      BY <1>0, <1>0a, <1>2, <2>0, <2>1, ModuleServers DEF Unique
    <3> QED
      BY <3>1
  <2>2. CASE a = Loc("Kafka", "kafka-1", 9092)
    <3>1. Unique(a, "kafka-1")
      BY <1>0, <1>0a, <1>2, <2>0, <2>2, ModuleServers DEF Unique
    <3> QED
      BY <3>1
  <2>3. CASE a = Loc("Kafka", "kafka-2", 9092)
    <3>0. script = "min"
      BY <1>0, <1>2, <2>3
    <3>1. Unique(a, "kafka-2")
      BY <1>0, <1>0a, <2>0, <2>3, <3>0, ModuleServers DEF Unique
    <3> QED
      BY <3>1
  <2>4. CASE a = Loc("Sparkngin", "sparkngin-1", 7080)
    <3>1. Unique(a, "sparkngin-1")
      BY <1>0, <1>0a, <1>2, <2>0, <2>4, ModuleServers DEF Unique
    <3> QED
      BY <3>1
  <2> QED
    BY <1>2, <2>1, <2>2, <2>3, <2>4, MinConnections
<1> QED
  BY <1>1, <1>2 DEF Script

-----------------------------------------------------------------------------
(* The inductive invariant of a deployment                                 *)

RankOf(op) == IF op = "install" THEN InstallRank ELSE UninstallRank

\* What is left of a call's commands: they are in the order of the ranks, and
\* those of install() put modules where they can be.
Left(cmds, op, s) ==
  /\ cmds \in Seq(Commands(s))
  /\ \A i \in DOMAIN cmds : cmds[i].op = op /\ cmds[i].module \in DOMAIN RankOf(op)
  /\ \A i, j \in DOMAIN cmds :
       i < j => RankOf(op)[cmds[i].module] <= RankOf(op)[cmds[j].module]
  /\ op = "install" =>
       \A i \in DOMAIN cmds : \A x \in cmds[i].servers :
         cmds[i].module \in Module(s) /\ Possible(s, x, cmds[i].module, cmds[i].port)

ScriptInv ==
  /\ script \in Script
  /\ last \in {"none", "install", "uninstall"}
  /\ last = "none" => todo = <<>> /\ installed = {}
  /\ Left(todo, last, script)

\* Every module is where it can be.
InstalledInv ==
  \A r \in installed : /\ r = Listener(r.server, r.module, r.port)
                       /\ r.module \in Module(script)
                       /\ Possible(script, r.server, r.module, r.port)

\* Where a module whose commands have not failed runs, and where the commands
\* that are left will install it, is all it has to reach; and uninstall() has
\* still to go where it runs.
ReachInv ==
  \A m \in Module(script) \ failed :
    /\ last = "install" => Running(m) \cup Selected(todo, m) = Reached(script, m)
    /\ last = "uninstall" /\ m # "Http" => Running(m) \subseteq Selected(todo, m)

\* As long as a module runs, all the servers run that it was given.
ConnectInv ==
  \A m \in Module(script) \ failed : \A a \in Connect(m) :
    /\ Running(m) # {}
    /\ a.module \notin failed
    /\ ~ (m = "YaraClient" /\ last = "uninstall")
    => Running(a.module) = Reached(script, a.module)

DeployInv == ScriptInv /\ InstalledInv /\ ReachInv /\ ConnectInv

\* The ranks are numbers.
LEMMA RanksAreNumbers == \A op : \A m \in DOMAIN RankOf(op) : RankOf(op)[m] \in Nat
BY DEF RankOf, InstallRank, UninstallRank

\* A whole call.
LEMMA CallLeft ==
  ASSUME NEW s \in Script
  PROVE  /\ Left(InstallCommands(s), "install", s)
         /\ \A m \in Module(s) : Selected(InstallCommands(s), m) = Reached(s, m)
         /\ Left(UninstallCommands(s), "uninstall", s)
         /\ \A m \in Module(s) \ {"Http"} : Selected(UninstallCommands(s), m) = ServersOf(s, m)
<1>1. Part(InstallCommands(s), "install", s, RankOf("install"), 1, High(s))
  BY InstallScript DEF RankOf
<1>2. Part(UninstallCommands(s), "uninstall", s, RankOf("uninstall"), 1, High(s))
  BY UninstallScript DEF RankOf
<1>3. Left(InstallCommands(s), "install", s)
  BY <1>1 DEF Part, Left
<1>4. Left(UninstallCommands(s), "uninstall", s)
  BY <1>2 DEF Part, Left
<1>5. ASSUME NEW m \in Module(s) PROVE Selected(InstallCommands(s), m) = Reached(s, m)
  <2>1. m \in DOMAIN InstallRank
    BY InstallRanks DEF Module
  <2>2. InstallRank[m] \in 1 .. High(s)
    BY InstallRanks DEF Module, MinModule, High
  <2> QED
    BY <1>1, <2>1, <2>2 DEF Part, RankOf, Target
<1>6. ASSUME NEW m \in Module(s), m # "Http"
      PROVE  Selected(UninstallCommands(s), m) = ServersOf(s, m)
  <2>1. m \in DOMAIN UninstallRank
    BY <1>6, UninstallRanks DEF Module
  <2>2. UninstallRank[m] \in 1 .. High(s)
    BY <1>6, UninstallRanks DEF Module, MinModule, High
  <2> QED
    BY <1>2, <2>1, <2>2 DEF Part, RankOf, Target
<1> QED
  BY <1>3, <1>4, <1>5, <1>6

\* The first of the commands that are left, and the others.
LEMMA FirstLeft ==
  ASSUME NEW s, NEW op, NEW cmds, Left(cmds, op, s), cmds # <<>>
  PROVE  /\ Left(Tail(cmds), op, s)
         /\ Head(cmds) \in Commands(s)
         /\ Head(cmds).op = op
         /\ Head(cmds).module \in DOMAIN RankOf(op)
         /\ op = "install" => \A x \in Head(cmds).servers :
              /\ Head(cmds).module \in Module(s)
              /\ Possible(s, x, Head(cmds).module, Head(cmds).port)
         /\ \A m : Selected(cmds, m)
                     = Selected(Tail(cmds), m)
                       \cup (IF Head(cmds).module = m THEN Head(cmds).servers ELSE {})
         /\ \A m \in DOMAIN RankOf(op) :
              RankOf(op)[m] < RankOf(op)[Head(cmds).module] => Selected(cmds, m) = {}
<1>1. PICK len \in Nat : len = Len(cmds) /\ DOMAIN cmds = 1 .. len /\ 1 \in 1 .. len
  <2>1. cmds \in Seq(Commands(s))
    BY DEF Left
  <2>2. PICK len : len = Len(cmds)
    OBVIOUS
  <2>3. len \in Nat /\ DOMAIN cmds = 1 .. len /\ len # 0
    BY <2>1, <2>2, LenProperties, EmptySeq
  <2>4. 1 \in 1 .. len
    BY <2>3
  <2> QED
    BY <2>2, <2>3, <2>4
<1>2. PICK tail : tail = Tail(cmds)
  OBVIOUS
<1>3. PICK first : first = Head(cmds)
  OBVIOUS
<1>4. /\ tail \in Seq(Commands(s)) /\ DOMAIN tail = 1 .. len - 1
      /\ \A i \in 1 .. len - 1 : tail[i] = cmds[i + 1] /\ i + 1 \in 1 .. len
      /\ first = cmds[1]
  <2>1. cmds \in Seq(Commands(s))
    BY DEF Left
  <2>2. /\ tail \in Seq(Commands(s)) /\ Len(tail) = len - 1
        /\ \A i \in 1 .. Len(tail) : tail[i] = cmds[i + 1]
        /\ first = cmds[1]
    BY <1>1, <1>2, <1>3, <2>1, HeadTailProperties
  <2>3. DOMAIN tail = 1 .. len - 1
    BY <2>2, LenProperties
  <2>4. \A i \in 1 .. len - 1 : i + 1 \in 1 .. len
    BY <1>1
  <2> QED
    BY <2>2, <2>3, <2>4
<1>5. \A i \in 1 .. len : i = 1 \/ \E j \in 1 .. len - 1 : i = j + 1
  <2> SUFFICES ASSUME NEW i \in 1 .. len, i # 1 PROVE \E j \in 1 .. len - 1 : i = j + 1
    OBVIOUS
  <2>1. i - 1 \in 1 .. len - 1 /\ i = (i - 1) + 1
    BY <1>1
  <2> QED
    BY <2>1
<1>6. PICK rank : rank = RankOf(op)
  OBVIOUS
<1>7. \A i \in 1 .. len : cmds[i].op = op /\ cmds[i].module \in DOMAIN rank
  BY <1>1, <1>6 DEF Left
<1>8. \A i, j \in 1 .. len : i < j => rank[cmds[i].module] <= rank[cmds[j].module]
  BY <1>1, <1>6 DEF Left
<1>9. op = "install" =>
        \A i \in 1 .. len : \A x \in cmds[i].servers :
          cmds[i].module \in Module(s) /\ Possible(s, x, cmds[i].module, cmds[i].port)
  BY <1>1 DEF Left
<1>10. Left(tail, op, s)
  <2>1. \A i \in DOMAIN tail : tail[i].op = op /\ tail[i].module \in DOMAIN rank
    BY <1>4, <1>7
  <2>2. ASSUME NEW i \in DOMAIN tail, NEW j \in DOMAIN tail, i < j
        PROVE  rank[tail[i].module] <= rank[tail[j].module]
    <3>1. i + 1 < j + 1
      BY <1>1, <1>4, <2>2
    <3> QED
      BY <1>4, <1>8, <3>1
  <2>3. ASSUME op = "install", NEW i \in DOMAIN tail, NEW x \in tail[i].servers
        PROVE  tail[i].module \in Module(s) /\ Possible(s, x, tail[i].module, tail[i].port)
    BY <1>4, <1>9, <2>3
  <2> QED
    BY <1>4, <1>6, <2>1, <2>2, <2>3 DEF Left
<1>11. /\ first \in Commands(s) /\ first.op = op /\ first.module \in DOMAIN rank
       /\ op = "install" => \A x \in first.servers :
            first.module \in Module(s) /\ Possible(s, x, first.module, first.port)
  <2>1. cmds[1] \in Commands(s)
    <3>1. cmds \in Seq(Commands(s))
      BY DEF Left
    <3> QED
      BY <1>1, <3>1, ElementOfSeq
  <2> QED
    BY <1>1, <1>4, <1>7, <1>9, <2>1
<1>12. ASSUME NEW m
       PROVE  Selected(cmds, m) = Selected(tail, m)
                \cup (IF first.module = m THEN first.servers ELSE {})
  <2>1. \A x : x \in Selected(cmds, m)
                 <=> \E i \in 1 .. len : cmds[i].module = m /\ x \in cmds[i].servers
    BY <1>1 DEF Selected
  <2>2. \A x : x \in Selected(tail, m)
                 <=> \E i \in 1 .. len - 1 : cmds[i + 1].module = m /\ x \in cmds[i + 1].servers
    BY <1>4 DEF Selected
  <2>3. ASSUME NEW x
        PROVE  (\E i \in 1 .. len : cmds[i].module = m /\ x \in cmds[i].servers)
                 <=> \/ \E i \in 1 .. len - 1 : cmds[i + 1].module = m /\ x \in cmds[i + 1].servers
                     \/ first.module = m /\ x \in first.servers
    BY <1>1, <1>4, <1>5
  <2> QED
    BY <2>1, <2>2, <2>3
<1>13. ASSUME NEW m \in DOMAIN rank, rank[m] < rank[first.module]
       PROVE  Selected(cmds, m) = {}
  <2>1. ASSUME NEW i \in 1 .. len, cmds[i].module = m PROVE FALSE
    <3>1. rank[m] \in Nat /\ rank[first.module] \in Nat
      BY <1>6, <1>11, RanksAreNumbers
    <3>2. i = 1 \/ 1 < i
      BY <1>1
    <3>3. rank[first.module] <= rank[m]
      BY <1>1, <1>4, <1>8, <2>1, <3>1, <3>2
    <3> QED
      BY <1>13, <3>1, <3>3
  <2> QED
    BY <1>1, <2>1 DEF Selected
<1> QED
  BY <1>2, <1>3, <1>6, <1>10, <1>11, <1>12, <1>13

\* Where Possible holds the module runs on one of its servers.
LEMMA RunningIsReached ==
  ASSUME InstalledInv, NEW m PROVE Running(m) \subseteq ServersOf(script, m)
BY DEF InstalledInv, Running, Possible

\* Nothing is left of a call, or nothing has been called.
LEMMA NothingLeft == \A m : Selected(<<>>, m) = {}
BY DEF Selected

\* No deployment has been called.
LEMMA DeployInitInv == DeployAssumption /\ DeployInit => DeployInv
<1> SUFFICES ASSUME DeployAssumption, DeployInit PROVE DeployInv
  OBVIOUS
<1>1. script \in Script /\ todo = <<>> /\ installed = {} /\ last = "none"
  BY DEF DeployAssumption, DeployInit
<1>2. Left(<<>>, "none", script)
  <2>1. <<>> \in Seq(Commands(script)) /\ DOMAIN <<>> = {}
    OBVIOUS
  <2> QED
    BY <2>1 DEF Left
<1>3. \A m : Running(m) = {}
  BY <1>1 DEF Running
<1> QED
  BY <1>1, <1>2, <1>3 DEF DeployInv, ScriptInv, InstalledInv, ReachInv, ConnectInv

\* install() is called.
LEMMA InstallKeepsInv == ASSUME DeployInv, Install PROVE DeployInv'
<1>1. /\ todo = <<>> /\ todo' = InstallCommands(script) /\ last' = "install"
      /\ script' = script /\ installed' = installed /\ failed' = failed
  BY DEF Install
<1>2. ScriptInv /\ InstalledInv /\ ReachInv /\ ConnectInv
  BY DEF DeployInv
<1>3. script \in Script
  BY <1>2 DEF ScriptInv
<1>4. \A m : Running(m)' = Running(m)
  BY <1>1 DEF Running
<1>5. \A m : Connect(m)' = Connect(m)
  BY <1>1 DEF Connect
<1>6. ScriptInv'
  BY <1>1, <1>3, CallLeft DEF ScriptInv
<1>7. InstalledInv'
  BY <1>1, <1>2 DEF InstalledInv
<1>8. ASSUME NEW m \in Module(script) \ failed
      PROVE  /\ Running(m) \subseteq Reached(script, m)
             /\ last = "uninstall" /\ m # "Http" => Running(m) = {}
             /\ last = "none" => Running(m) = {}
  <2>1. CASE last = "none"
    BY <1>2, <2>1 DEF ScriptInv, Running
  <2>2. CASE last = "install"
    BY <1>1, <1>2, <2>2 DEF ReachInv
  <2>3. CASE last = "uninstall" /\ m # "Http"
    BY <1>1, <1>2, <2>3, NothingLeft DEF ReachInv
  <2>4. CASE last = "uninstall" /\ m = "Http"
    BY <1>2, <2>4, RunningIsReached DEF Reached
  <2> QED
    BY <1>2, <2>1, <2>2, <2>3, <2>4 DEF ScriptInv
<1>9. ReachInv'
  <2>1. ASSUME NEW m \in Module(script) \ failed
        PROVE  Running(m) \cup Selected(todo', m) = Reached(script, m)
    <3>1. Selected(todo', m) = Reached(script, m)
      BY <1>1, <1>3, CallLeft
    <3> QED
      BY <1>8, <3>1
  <2> QED
    BY <1>1, <1>4, <2>1 DEF ReachInv
<1>10. ConnectInv'
  <2>1. ASSUME NEW m \in Module(script) \ failed, NEW a \in Connect(m), Running(m) # {},
               a.module \notin failed
        PROVE  Running(a.module) = Reached(script, a.module)
    <3>1. m # "Http"
      BY <1>3, ConnectedRanks
    <3>2. last = "install"
      BY <1>2, <1>8, <2>1, <3>1 DEF ScriptInv
    <3> QED
      BY <1>2, <2>1, <3>2 DEF ConnectInv
  <2> QED
    BY <1>1, <1>4, <1>5, <2>1 DEF ConnectInv
<1> QED
  BY <1>6, <1>7, <1>9, <1>10 DEF DeployInv

\* uninstall() is called.
LEMMA UninstallKeepsInv == ASSUME DeployInv, UninstallAll PROVE DeployInv'
<1>1. /\ todo = <<>> /\ todo' = UninstallCommands(script) /\ last' = "uninstall"
      /\ script' = script /\ installed' = installed /\ failed' = failed
  BY DEF UninstallAll
<1>2. ScriptInv /\ InstalledInv /\ ReachInv /\ ConnectInv
  BY DEF DeployInv
<1>3. script \in Script
  BY <1>2 DEF ScriptInv
<1>4. \A m : Running(m)' = Running(m)
  BY <1>1 DEF Running
<1>5. \A m : Connect(m)' = Connect(m)
  BY <1>1 DEF Connect
<1>6. ScriptInv'
  BY <1>1, <1>3, CallLeft DEF ScriptInv
<1>7. InstalledInv'
  BY <1>1, <1>2 DEF InstalledInv
<1>8. ReachInv'
  <2>1. ASSUME NEW m \in Module(script) \ failed, m # "Http"
        PROVE  Running(m) \subseteq Selected(todo', m)
    <3>1. Selected(todo', m) = ServersOf(script, m)
      BY <1>1, <1>3, <2>1, CallLeft
    <3> QED
      BY <1>2, <3>1, RunningIsReached
  <2> QED
    BY <1>1, <1>4, <2>1 DEF ReachInv
<1>9. ConnectInv'
  <2>1. ASSUME NEW m \in Module(script) \ failed, NEW a \in Connect(m), Running(m) # {},
               a.module \notin failed, m # "YaraClient"
        PROVE  Running(a.module) = Reached(script, a.module)
    BY <1>2, <2>1 DEF ConnectInv
  <2> QED
    BY <1>1, <1>4, <1>5, <2>1 DEF ConnectInv
<1> QED
  BY <1>6, <1>7, <1>8, <1>9 DEF DeployInv

\* What a command changes: it takes effect on some servers,
\* and on all it was meant for unless it has failed.
LEMMA ExecStep ==
  ASSUME DeployInv, Exec
  PROVE  \E on \in SUBSET Head(todo).servers :
           /\ todo # <<>> /\ todo' = Tail(todo)
           /\ script' = script /\ last' = last
           /\ failed \subseteq failed'
           /\ Head(todo).module \notin failed' => on = Head(todo).servers
           /\ \A r \in installed' :
                \/ r \in installed
                \/ /\ last = "install"
                   /\ \E x \in on : r = Listener(x, Head(todo).module, Head(todo).port)
           /\ \A m : m # Head(todo).module => Running(m)' = Running(m)
           /\ \A m : m = Head(todo).module =>
                /\ last = "install" => Running(m)' = Running(m) \cup on
                /\ last # "install" => Running(m)' = Running(m) \ on
<1> DEFINE c == Head(todo)
<1>2. PICK bad \in SUBSET c.servers :
        /\ todo' = Tail(todo)
        /\ failed' = IF bad = {} THEN failed ELSE failed \cup {c.module}
        /\ installed' =
             (installed \ {r \in installed : r.module = c.module /\ r.server \in c.servers \ bad})
             \cup (IF c.op = "uninstall" THEN {}
                   ELSE {[server |-> x, module |-> c.module, port |-> c.port] :
                           x \in c.servers \ bad})
  BY Zenon DEF Exec, Rest
<1>1. c = Head(todo)
  OBVIOUS
<1> HIDE DEF c
<1>3. PICK on : on = c.servers \ bad
  OBVIOUS
<1>4. todo # <<>> /\ script' = script /\ last' = last
  BY DEF Exec
<1>5. Left(todo, last, script) /\ last \in {"none", "install", "uninstall"} /\ last # "none"
  BY <1>4 DEF DeployInv, ScriptInv
<1>6. c.op = last
  BY <1>1, <1>4, <1>5, FirstLeft
<1>7. PICK gone : gone = {r \in installed : r.module = c.module /\ r.server \in on}
  OBVIOUS
<1>8. PICK new : new = IF last = "install" THEN {Listener(x, c.module, c.port) : x \in on} ELSE {}
  OBVIOUS
<1>9. installed' = (installed \ gone) \cup new
  BY <1>2, <1>3, <1>5, <1>6, <1>7, <1>8 DEF Listener
<1>10. failed \subseteq failed' /\ (c.module \notin failed' => on = c.servers)
  BY <1>2, <1>3
<1>11. \A r \in installed' :
         r \in installed \/ (last = "install" /\ \E x \in on : r = Listener(x, c.module, c.port))
  BY <1>8, <1>9
<1>12. \A m, x : x \in Running(m) <=> \E r \in installed : r.module = m /\ r.server = x
  BY DEF Running
<1>13. \A m, x : x \in Running(m)' <=> \E r \in installed' : r.module = m /\ r.server = x
  BY DEF Running
<1>14. \A x : /\ Listener(x, c.module, c.port).module = c.module
              /\ Listener(x, c.module, c.port).server = x
  BY DEF Listener
<1>15. \A r \in new : r.module = c.module /\ r.server \in on
  BY <1>8, <1>14
<1>16. ASSUME NEW m, m # c.module PROVE Running(m)' = Running(m)
  <2>1. \A r : r.module = m => (r \in installed' <=> r \in installed)
    BY <1>7, <1>9, <1>15, <1>16
  <2>2. \A x : x \in Running(m)' <=> x \in Running(m)
    BY <1>12, <1>13, <2>1
  <2> QED
    BY <2>2
<1>17. ASSUME last = "install", NEW m, m = c.module PROVE Running(m)' = Running(m) \cup on
  <2>1. ASSUME NEW x \in Running(m)' PROVE x \in Running(m) \cup on
    BY <1>9, <1>12, <1>13, <1>15, <1>17, <2>1
  <2>2. ASSUME NEW x \in on PROVE x \in Running(m)'
    <3>1. Listener(x, c.module, c.port) \in installed'
      BY <1>8, <1>9, <1>17
    <3> QED
      BY <1>13, <1>14, <1>17, <3>1
  <2>3. ASSUME NEW x \in Running(m), x \notin on PROVE x \in Running(m)'
    <3>1. PICK r \in installed : r.module = m /\ r.server = x
      BY <1>12, <2>3
    <3>2. r \in installed'
      BY <1>7, <1>9, <2>3, <3>1
    <3> QED
      BY <1>13, <3>1, <3>2
  <2> QED
    BY <2>1, <2>2, <2>3
<1>18. ASSUME last # "install", NEW m, m = c.module PROVE Running(m)' = Running(m) \ on
  <2>1. installed' = installed \ gone
    BY <1>8, <1>9, <1>18
  <2>2. \A r : r \in installed' <=> r \in installed /\ ~ (r.module = c.module /\ r.server \in on)
    BY <1>7, <2>1
  <2>3. \A x : x \in Running(m)' <=> x \in Running(m) /\ x \notin on
    BY <1>12, <1>13, <1>18, <2>2
  <2> QED
    BY <2>3
<1>19. on \in SUBSET c.servers
  BY <1>3
<1>20. /\ todo # <<>> /\ todo' = Tail(todo)
       /\ script' = script /\ last' = last
       /\ failed \subseteq failed'
       /\ c.module \notin failed' => on = c.servers
       /\ \A r \in installed' :
            \/ r \in installed
            \/ last = "install" /\ \E x \in on : r = Listener(x, c.module, c.port)
       /\ \A m : m # c.module => Running(m)' = Running(m)
       /\ \A m : m = c.module =>
            /\ last = "install" => Running(m)' = Running(m) \cup on
            /\ last # "install" => Running(m)' = Running(m) \ on
  BY <1>2, <1>4, <1>10, <1>11, <1>16, <1>17, <1>18
<1> USE DEF c
<1> QED
  BY <1>19, <1>20

\* A command is executed: whatever it fails for, the rest of the script goes on.
LEMMA ExecKeepsInv == ASSUME DeployInv, Exec PROVE DeployInv'
<1> DEFINE c == Head(todo)
<1>1. PICK on \in SUBSET c.servers :
           /\ todo # <<>> /\ todo' = Tail(todo)
           /\ script' = script /\ last' = last
           /\ failed \subseteq failed'
           /\ c.module \notin failed' => on = c.servers
           /\ \A r \in installed' :
                \/ r \in installed
                \/ /\ last = "install"
                   /\ \E x \in on : r = Listener(x, c.module, c.port)
           /\ \A m : m # c.module => Running(m)' = Running(m)
           /\ \A m : m = c.module =>
                /\ last = "install" => Running(m)' = Running(m) \cup on
                /\ last # "install" => Running(m)' = Running(m) \ on
  BY ExecStep
<1>2. ScriptInv /\ InstalledInv /\ ReachInv /\ ConnectInv
  BY DEF DeployInv
<1>3. script \in Script /\ Left(todo, last, script) /\ last \in {"install", "uninstall"}
  BY <1>1, <1>2 DEF ScriptInv
<1>4. /\ Left(Tail(todo), last, script)
      /\ c.module \in DOMAIN RankOf(last)
      /\ last = "install" => \A x \in c.servers :
           c.module \in Module(script) /\ Possible(script, x, c.module, c.port)
      /\ \A m : Selected(todo, m)
                  = Selected(Tail(todo), m) \cup (IF c.module = m THEN c.servers ELSE {})
      /\ \A m \in DOMAIN RankOf(last) :
           RankOf(last)[m] < RankOf(last)[c.module] => Selected(todo, m) = {}
  BY <1>1, <1>3, FirstLeft
<1> HIDE DEF c
<1>5. PICK tail : tail = Tail(todo) /\ tail = todo'
  BY <1>1
<1>6. ScriptInv'
  BY <1>1, <1>3, <1>4 DEF ScriptInv
<1>7. InstalledInv'
  <2> SUFFICES ASSUME NEW r \in installed'
               PROVE  /\ r = Listener(r.server, r.module, r.port)
                      /\ r.module \in Module(script)
                      /\ Possible(script, r.server, r.module, r.port)
    BY <1>1 DEF InstalledInv
  <2>1. CASE r \in installed
    BY <1>2, <2>1 DEF InstalledInv
  <2>2. CASE last = "install" /\ \E x \in on : r = Listener(x, c.module, c.port)
    <3>1. PICK x \in on : r = Listener(x, c.module, c.port)
      BY <2>2
    <3>2. r.server = x /\ r.module = c.module /\ r.port = c.port
      BY <3>1 DEF Listener
    <3> QED
      BY <1>1, <1>4, <2>2, <3>1, <3>2
  <2> QED
    BY <1>1, <2>1, <2>2
<1>8. \A m : Selected(todo, m) = Selected(tail, m) \cup (IF c.module = m THEN c.servers ELSE {})
  BY <1>4, <1>5
<1>9. ASSUME NEW m \in Module(script) \ failed'
      PROVE  /\ last = "install" => Running(m)' \cup Selected(tail, m) = Reached(script, m)
             /\ last = "uninstall" /\ m # "Http" => Running(m)' \subseteq Selected(tail, m)
  <2>1. m \in Module(script) \ failed
    BY <1>1
  <2>2. CASE m = c.module
    <3>1. on = c.servers
      BY <1>1, <2>2
    <3>2. Selected(todo, m) = Selected(tail, m) \cup c.servers
      BY <1>8, <2>2
    <3>3. CASE last = "install"
      <4>1. Running(m)' = Running(m) \cup c.servers
        BY <1>1, <2>2, <3>1, <3>3
      <4>2. Running(m) \cup Selected(todo, m) = Reached(script, m)
        BY <1>2, <2>1, <3>3 DEF ReachInv
      <4> QED
        BY <3>2, <3>3, <4>1, <4>2
    <3>4. CASE last = "uninstall"
      <4>1. Running(m)' = Running(m) \ c.servers
        BY <1>1, <2>2, <3>1, <3>4
      <4>2. m # "Http" => Running(m) \subseteq Selected(todo, m)
        BY <1>2, <2>1, <3>4 DEF ReachInv
      <4> QED
        BY <3>2, <3>4, <4>1, <4>2
    <3> QED
      BY <1>3, <3>3, <3>4
  <2>3. CASE m # c.module
    <3>1. Running(m)' = Running(m) /\ Selected(tail, m) = Selected(todo, m)
      BY <1>1, <1>8, <2>3
    <3> QED
      BY <1>2, <2>1, <3>1 DEF ReachInv
  <2> QED
    BY <2>2, <2>3
<1>10. ReachInv'
  BY <1>1, <1>5, <1>9 DEF ReachInv
<1>11. ASSUME NEW m \in Module(script) \ failed', NEW a \in Connect(m), Running(m)' # {},
              NEW n, n = a.module, n \notin failed', ~ (m = "YaraClient" /\ last = "uninstall")
       PROVE  Running(n)' = Reached(script, n)
  <2>1. /\ m \in Module(script) \ failed /\ n \in Module(script) \ failed
        /\ n \in Module(script) \ failed'
    BY <1>1, <1>3, <1>11, ConnectedRanks
  <2>2. m # "Http" /\ m # n /\ n # "Http"
    BY <1>3, <1>11, ConnectedRanks
  <2>3. Running(m) # {} => Running(n) = Reached(script, n)
    BY <1>2, <1>11, <2>1 DEF ConnectInv
  <2>4. CASE last = "install"
    <3>1. n \in DOMAIN InstallRank /\ InstallRank[n] < InstallRank[m]
      BY <1>3, <1>11, <2>1, ConnectedRanks, InstallRanks DEF Module
    <3>2. Running(n) \subseteq Running(n)'
      BY <1>1, <2>4
    <3>3. Running(n)' \subseteq Reached(script, n)
      BY <1>9, <2>1, <2>4
    <3>4. Running(n) = Reached(script, n)
      <4>1. CASE m = c.module
        <5>1. Selected(todo, n) = {}
          BY <1>4, <2>4, <3>1, <4>1 DEF RankOf
        <5> QED
          BY <1>2, <2>1, <2>4, <5>1 DEF ReachInv
      <4>2. CASE m # c.module
        BY <1>1, <1>11, <2>3, <4>2
      <4> QED
        BY <4>1, <4>2
    <3> QED
      BY <3>2, <3>3, <3>4
  <2>5. CASE last = "uninstall"
    <3>1. /\ m \in DOMAIN UninstallRank
          /\ UninstallRank[m] < UninstallRank[n]
      BY <1>3, <1>11, <2>1, <2>2, <2>5, ConnectedRanks, UninstallRanks DEF Module
    <3>2. Running(m)' \subseteq Running(m)
      BY <1>1, <2>5
    <3>3. Running(n) = Reached(script, n)
      BY <1>11, <2>3, <3>2
    <3>4. c.module # n
      <4>1. SUFFICES ASSUME c.module = n PROVE FALSE
        OBVIOUS
      <4>2. Selected(todo, m) = {}
        BY <1>4, <2>5, <3>1, <4>1 DEF RankOf
      <4>3. Running(m) = {}
        BY <1>2, <2>1, <2>2, <2>5, <4>2 DEF ReachInv
      <4> QED
        BY <1>11, <3>2, <4>3
    <3> QED
      BY <1>1, <3>3, <3>4
  <2> QED
    BY <1>3, <2>4, <2>5
<1>12. ConnectInv'
  <2>1. \A m : Connect(m)' = Connect(m)
    BY <1>1 DEF Connect
  <2>2. ASSUME NEW m \in Module(script) \ failed', NEW a \in Connect(m), Running(m)' # {},
               a.module \notin failed', ~ (m = "YaraClient" /\ last = "uninstall")
        PROVE  Running(a.module)' = Reached(script, a.module)
    <3>1. PICK n : n = a.module
      OBVIOUS
    <3>2. Running(n)' = Reached(script, n)
      BY <1>11, <2>2, <3>1
    <3> QED
      BY <3>1, <3>2
  <2> QED
    BY <1>1, <2>1, <2>2 DEF ConnectInv
<1> QED
  BY <1>6, <1>7, <1>10, <1>12 DEF DeployInv

\* Who has nothing to do with the deployment leaves the invariant as it is.
LEMMA OthersKeepInv == ASSUME DeployInv, UNCHANGED deployVars PROVE DeployInv'
<1>1. /\ script' = script /\ todo' = todo /\ installed' = installed /\ failed' = failed
      /\ last' = last
  BY DEF deployVars
<1>2. \A m : Running(m)' = Running(m) /\ Connect(m)' = Connect(m)
  BY <1>1 DEF Running, Connect
<1> QED
  BY <1>1, <1>2 DEF DeployInv, ScriptInv, InstalledInv, ReachInv, ConnectInv

\* The invariant of a deployment holds, whichever commands fail and how often
\* the scripts are run again.
THEOREM DeploymentInvariant == TestSpec => []DeployInv
<1>1. TestInit => DeployInv
  BY DeployAssumption, DeployInitInv DEF TestInit
<1>2. DeployInv /\ [TestNext]_testVars => DeployInv'
  <2> SUFFICES ASSUME DeployInv, [TestNext]_testVars PROVE DeployInv'
    OBVIOUS
  <2>1. Install \/ UninstallAll \/ Exec \/ UNCHANGED deployVars
    BY DEF TestNext, Deploy, DeployNext, Submit, Accept, Reject, Miss, Run, testVars
  <2> QED
    BY <2>1, InstallKeepsInv, UninstallKeepsInv, ExecKeepsInv, OthersKeepInv
<1> QED
  BY <1>1, <1>2, PTL DEF TestSpec

\* At kafka-2:9092, which minimum-cluster-deploy.js gives to those who connect
\* to Kafka, nobody answers: installByServer has counted the port up.
LEMMA NobodyAnswers ==
  ASSUME DeployInv, NEW r \in installed, NEW a \in Connect(r.module),
         script = "minimum", a.host = "kafka-2"
  PROVE  \A o \in installed : ~IsAt(o, a)
<1> SUFFICES ASSUME NEW o \in installed, IsAt(o, a) PROVE FALSE
  OBVIOUS
<1>1. a = Loc("Kafka", "kafka-2", 9092)
  BY MinConnections DEF Loc
<1>2. o.port = 9092 /\ o.server = "kafka-2"
  BY <1>1 DEF IsAt, Loc
<1>3. o = Listener(o.server, o.module, o.port) /\ o \in Listening("minimum")
  BY <1>2 DEF DeployInv, InstalledInv, Possible
<1> QED
  BY <1>2, <1>3 DEF Listening, Listener

\* LocationsAnswer: while a module runs, at each location that it was given the
\* module answers that is meant, and no other, whichever commands fail for
\* others: but for the clients of Yara, once uninstall() was called, and for
\* the broker kafka-2:9092 of minimum-cluster-deploy.js, where nobody answers.
THEOREM LocationsAlwaysAnswer == TestSpec => []LocationsAnswer
<1>1. DeployInv => LocationsAnswer
  <2> SUFFICES ASSUME DeployInv, NEW r \in installed, NEW a \in Connect(r.module),
                      {r.module, a.module} \cap failed = {},
                      ~ (script = "minimum" /\ a.host = "kafka-2"),
                      ~ (r.module = "YaraClient" /\ last = "uninstall")
               PROVE  \E q \in installed :
                        /\ q.module = a.module /\ IsAt(q, a)
                        /\ \A o \in installed \ {q} : ~IsAt(o, a)
    BY NobodyAnswers DEF LocationsAnswer
  <2>1. script \in Script
    BY DEF DeployInv, ScriptInv
  <2>2. /\ r.module \in Module(script) \ failed /\ a.module \notin failed
        /\ a.module \in Provider /\ a.module # "ElasticSearch"
    BY <2>1, ConnectedRanks
  <2>3. r.server \in Running(r.module)
    BY DEF Running
  <2>4. Running(a.module) = ServersOf(script, a.module)
    BY <2>2, <2>3 DEF DeployInv, ConnectInv, Reached
  <2>5. PICK x : Unique(a, x)
    BY <2>1, Locations
  <2>6. PICK q \in installed : q.module = a.module /\ q.server = x
    BY <2>4, <2>5 DEF Unique, Running
  <2>7. \A o \in installed :
          /\ o = Listener(o.server, o.module, o.port)
          /\ o \in Listening(script) \/ (o.port = 0 /\ o.module \notin Provider)
    BY DEF DeployInv, InstalledInv, Possible
  <2>8. q.port = a.port /\ q = Listener(x, a.module, a.port)
    BY <2>2, <2>5, <2>6, <2>7 DEF Unique
  <2>9. IsAt(q, a)
    BY <2>5, <2>6, <2>8 DEF IsAt, Unique
  <2>10. ASSUME NEW o \in installed, IsAt(o, a) PROVE o = q
    <3>1. o.port = a.port /\ (script = "local" \/ o.server = a.host) /\ o.port # 0
      BY <2>5, <2>10 DEF IsAt, Unique
    <3>2. o \in Listening(script)
      BY <2>7, <3>1
    <3> QED
      BY <2>5, <2>8, <3>1, <3>2 DEF Unique
  <2> QED
    BY <2>6, <2>9, <2>10
<1> QED
  BY <1>1, DeploymentInvariant, PTL

\* CallsAreComplete: when a call has come to its end, every module without a
\* failure runs on all the servers of its role, or on none; but for Http, which
\* no uninstall removes, and ElasticSearch when it is installed by role.
THEOREM CallsAreAlwaysComplete == TestSpec => []CallsAreComplete
<1>1. DeployInv => CallsAreComplete
  <2> SUFFICES ASSUME DeployInv, todo = <<>>, NEW m \in Module(script) \ failed
               PROVE  CASE last = "install" ->
                             \/ Running(m) = WithRole(script, ConfigOf(script)[m].role)
                             \/ m = "ElasticSearch" /\ script = "min"
                        [] last = "uninstall" -> Running(m) = {} \/ m = "Http"
                        [] OTHER -> Running(m) = {}
    BY Modules DEF CallsAreComplete, DeployInv, ScriptInv
  <2>1. Selected(todo, m) = {}
    BY NothingLeft
  <2>2. CASE last = "install"
    <3>1. Running(m) = Reached(script, m)
      BY <2>1, <2>2 DEF DeployInv, ReachInv
    <3> QED
      BY <2>2, <3>1 DEF Reached, ServersOf
  <2>3. CASE last = "uninstall"
    BY <2>1, <2>3 DEF DeployInv, ReachInv
  <2>4. CASE last = "none"
    <3>1. Running(m) = {}
      BY <2>4 DEF DeployInv, ScriptInv, Running
    <3> QED
      BY <2>4, <3>1
  <2> QED
    BY <2>2, <2>3, <2>4 DEF DeployInv, ScriptInv
<1> QED
  BY <1>1, DeploymentInvariant, PTL

=============================================================================
