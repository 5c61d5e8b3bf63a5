----------------------------- MODULE SendCommand -----------------------------
(***************************************************************************)
(* What a "send" command promises to the broker and to whoever runs it,    *)
(* with no pool, queue, clock or timer: connections are opened before the  *)
(* command answers, each is closed at most once and never opened again, a  *)
(* send is begun on an open connection only and below the limit, and the   *)
(* answer is "complete" only when every connection has been closed.  A     *)
(* send in progress may outlast the connection and the command.            *)
(* MessageSender.tla is shown to implement this.                           *)
(***************************************************************************)
EXTENDS Naturals

CONSTANTS Task,            \* the tasks, each with a connection of its own
          MaxNumOfMessage  \* how many messages each is asked to send

VARIABLES connection, \* per task: its connection to the broker
          sending,    \* the tasks with a send in progress
          count,      \* per task: the messages sent
          answer      \* what the command has answered

sendVars == <<connection, sending, count, answer>>

\* A limit of 0 lets one message pass.
Limit == IF MaxNumOfMessage = 0 THEN 1 ELSE MaxNumOfMessage

SendInit ==
  /\ connection = [t \in Task |-> "none"]
  /\ sending = {}
  /\ count = [t \in Task |-> 0]
  /\ answer = "none"

Open(t) ==
  /\ answer = "none"
  /\ connection[t] = "none"
  /\ connection' = [connection EXCEPT ![t] = "open"]
  /\ UNCHANGED <<sending, count, answer>>

MaySend(t) == connection[t] = "open" /\ t \notin sending /\ count[t] < Limit

\* A send that is over before anything else happens to its task.
SendAtOnce(t) ==
  /\ MaySend(t)
  /\ count' = [count EXCEPT ![t] = @ + 1]
  /\ UNCHANGED <<connection, sending, answer>>

BeginSend(t) ==
  /\ MaySend(t)
  /\ sending' = sending \cup {t}
  /\ UNCHANGED <<connection, count, answer>>

\* The send succeeds and is counted, or fails.
EndSend(t) ==
  /\ t \in sending
  /\ sending' = sending \ {t}
  /\ count' \in {count, [count EXCEPT ![t] = @ + 1]}
  /\ UNCHANGED <<connection, answer>>

Close(t) ==
  /\ connection[t] = "open"
  /\ connection' = [connection EXCEPT ![t] = "closed"]
  /\ UNCHANGED <<sending, count, answer>>

Return ==
  /\ answer = "none"
  /\ \/ answer' = "incomplete"
     \/ answer' = "complete" /\ \A t \in Task : connection[t] = "closed"
  /\ UNCHANGED <<connection, sending, count>>

SendNext ==
  \/ \E t \in Task : Open(t) \/ SendAtOnce(t) \/ BeginSend(t) \/ EndSend(t) \/ Close(t)
  \/ Return

SendSpec == SendInit /\ [][SendNext]_sendVars
=============================================================================
