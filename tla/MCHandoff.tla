------------------------------- MODULE MCHandoff -------------------------------
(* One dataset, the event loop and one thread that serves retries.  The     *)
(* source of a queue row not added yet is never read; there is one source.  *)
EXTENDS Handoff

CONSTANTS h1, t1, loop

(* What extraction publishes is live data. *)
MCEventOf == [h \in Sources |-> NoEvent]
=============================================================================
