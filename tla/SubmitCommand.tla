---------------------------- MODULE SubmitCommand ----------------------------
(***************************************************************************)
(* "ringbearer submit": the test scripts submit one job after the other    *)
(* through a cluster gateway, which has ONE executor for all of them, in   *)
(* whose fields JCommander puts the parameters of each command.  Nothing   *)
(* resets a field, so that a parameter keeps the value of an earlier       *)
(* request until it is given again; and commands of several clients that   *)
(* are executed at the same time write to the same fields.                 *)
(*                                                                         *)
(* The value of a parameter is represented by the request it comes from.   *)
(* JCommander, the gateway and the cluster client are external; a request  *)
(* is mapped in one step here, which may end with an exception after a     *)
(* part of its parameters, and one that another is mapped in the middle of *)
(* is remembered as overtaken; two mappings that themselves overlap are    *)
(* not in the model.                                                       *)
(***************************************************************************)
EXTENDS Naturals, Sequences

CONSTANTS Request,   \* the commands that may be sent
          Client,    \* those who run a script
          Calls,     \* per client: the requests of its script, in order
          Param,     \* the parameters of a request
          Given,     \* per request: the parameters that it states
          Nothing    \* not a request: the value of a parameter never given

ASSUME SubmitAssumption ==
  /\ Calls \in [Client -> Seq(Request)]
  /\ \A c, d \in Client : \A i \in DOMAIN Calls[c], k \in DOMAIN Calls[d] :
       Calls[c][i] = Calls[d][k] => c = d /\ i = k
  /\ Given \in [Request -> SUBSET Param]
  /\ {"file", "words", "description"} \subseteq Param
  /\ Nothing \notin Request

VARIABLES
  pc,       \* per request: where its execute() is
  field,    \* the fields of the executor
  job,      \* per request: what its RingBearerJob is made of
  mapped,   \* history: when the request was mapped, or 0
  stated,   \* history: the parameters that it was mapped with
  clock,    \* history: the requests that have been mapped
  overtaken \* history: requests another was mapped after, before they were sent

submitVars == <<pc, field, job, mapped, stated, clock, overtaken>>

Busy == {r \in Request : pc[r] \in {"mapped", "made"}}

SubmitInit ==
  /\ pc = [r \in Request |-> "new"]
  /\ field = [p \in Param |-> Nothing]
  /\ job = [r \in Request |-> [p \in Param |-> Nothing]]
  /\ mapped = [r \in Request |-> 0]
  /\ stated = [r \in Request |-> {}]
  /\ clock = 0
  /\ overtaken = {}

Move(r, from, to) == pc[r] = from /\ pc' = [pc EXCEPT ![r] = to]

\* Bug: the script goes on after a submit that has failed.
MayCall_Any(r) ==
  \E c \in Client : \E i \in DOMAIN Calls[c] :
    Calls[c][i] = r /\ \A k \in 1 .. i - 1 : pc[Calls[c][k]] \in {"true", "error", "timed out", "late"}

\* Assert.assertTrue(resp.success): a script ends at its first failure.
MayCall(r) ==
  \E c \in Client : \E i \in DOMAIN Calls[c] :
    Calls[c][i] = r /\ \A k \in 1 .. i - 1 : pc[Calls[c][k]] = "true"

\* Bug: a field that has a value keeps it.
Mapped_Keep(r, part) ==
  [p \in Param |-> IF p \in part /\ field[p] = Nothing THEN r ELSE field[p]]

\* What is mapped replaces the fields' values.
Mapped(r, part) == [p \in Param |-> IF p \in part THEN r ELSE field[p]]

\* A part of what the request states comes into the fields.
MapPart(r, part, to) ==
  /\ MayCall(r)
  /\ Move(r, "new", to)
  /\ field' = Mapped(r, part)
  /\ stated' = [stated EXCEPT ![r] = part]
  /\ clock' = clock + 1
  /\ mapped' = [mapped EXCEPT ![r] = clock + 1]
  /\ overtaken' = overtaken \cup Busy
  /\ UNCHANGED job

\* command.mapAll(this).
Map(r) == MapPart(r, Given[r], "mapped")

\* A parameter that it cannot convert ends it with an exception: what came
\* before has been set, in the fields of a request that has no job.
MapFails(r) == \E part \in SUBSET Given[r] : MapPart(r, part, "error")

\* The job: its script is the content of the file, once a file has ever been
\* named, else the words of the command.  A file that cannot be read fails
\* the request.
Make(r) ==
  /\ \/ Move(r, "mapped", "made")
     \/ field["file"] # Nothing /\ Move(r, "mapped", "error")
  /\ job' = [job EXCEPT ![r]["file"] = field["file"],
                        ![r]["words"] = IF field["file"] = Nothing
                                        THEN field["words"] ELSE Nothing,
                        ![r]["description"] = field["description"]]
  /\ UNCHANGED <<field, mapped, stated, clock, overtaken>>

Property == Param \ {"file", "words", "description"}

\* The job refers to the field's map of properties: it is what the map holds
\* when the call is sent.
Send(r) ==
  /\ Move(r, "made", "called")
  /\ job' = [job EXCEPT ![r] = [p \in Param |-> IF p \in Property THEN field[p] ELSE @[p]]]
  /\ UNCHANGED <<field, mapped, stated, clock, overtaken>>

\* The outcomes of the call: the member's service returns true, also when
\* nobody waits for it any more; the service is not there; no answer in time.
Answer(r) ==
  /\ pc[r] \in {"called", "timed out"}
  /\ pc' = [pc EXCEPT ![r] = IF pc[r] = "called" THEN "true" ELSE "late"]
  /\ UNCHANGED <<field, job, mapped, stated, clock, overtaken>>

Refuse(r) ==
  /\ pc[r] \in {"called", "timed out"}
  /\ pc' = [pc EXCEPT ![r] = "error"]
  /\ UNCHANGED <<field, job, mapped, stated, clock, overtaken>>

TimeOut(r) ==
  /\ Move(r, "called", "timed out")
  /\ UNCHANGED <<field, job, mapped, stated, clock, overtaken>>

Execute(r) == Map(r) \/ MapFails(r) \/ Make(r) \/ Send(r)

SubmitNext == \E r \in Request : Execute(r) \/ Answer(r) \/ Refuse(r) \/ TimeOut(r)

-----------------------------------------------------------------------------
(* Properties                                                              *)

\* The request that has put p into the fields last, of the first n mapped.
IsLastGiven(q, p, n) ==
  IF q = Nothing
  THEN \A x \in Request : p \in stated[x] => mapped[x] > n
  ELSE /\ q \in Request /\ p \in stated[q] /\ mapped[q] <= n
       /\ \A x \in Request : p \in stated[x] => mapped[x] <= mapped[q] \/ mapped[x] > n

\* What a job is made of, although one object is used for all requests: for
\* every parameter, the value that was last put into the field by some moment
\* between the mapping of the request and now, and by the mapping itself when
\* no other request overtakes it; but words are ignored once a file was ever
\* named.  So a request that is not overtaken gets all that it states (but for
\* the words after a file), and for what it does not state the value of an
\* earlier request, which may have failed; no request gets, for one that it
\* states, a value from before it was mapped.
JobIsLastGiven ==
  \A r \in Request :
    pc[r] \in {"called", "timed out", "true", "late"} =>
      \A p \in Param :
        \/ \E n \in mapped[r] .. clock :
             /\ IsLastGiven(job[r][p], p, n)
             /\ r \notin overtaken => n = mapped[r]
        \/ p = "words" /\ job[r]["words"] = Nothing /\ job[r]["file"] # Nothing
=============================================================================
