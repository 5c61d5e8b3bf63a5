--------------------------- MODULE MCMessageSender ---------------------------
(* MessageSender with small numbers of tasks, workers and messages.        *)
EXTENDS MessageSender
=============================================================================
