------------------------------- MODULE JobQueue -------------------------------
(***************************************************************************)
(* What the handlers of the services may rely on from the work queue: the  *)
(* other modules are written against it, and WorkQueue implements it with  *)
(* times, contexts, locks that expire and receipts.                        *)
(*                                                                         *)
(* A message may be handled any number of times, also after it was         *)
(* handled, but only while it is in the queue, and never beside another    *)
(* message of its lock; it leaves the queue only when it was handled and   *)
(* nobody handles it.                                                      *)
(***************************************************************************)
CONSTANTS
  Consumers,
  Messages,
  LockID,   \* the lock of a message
  Nobody    \* no message

VARIABLES
  queued,   \* messages in the queue or among the dead letters
  running,  \* the message that a consumer's handler works on
  handled   \* messages that a handler has handled

vars == <<queued, running, handled>>

Runs(c) == running[c] # Nobody

Init ==
  /\ queued = {}
  /\ running = [c \in Consumers |-> Nobody]
  /\ handled = {}

\* A message is put once.
Put(m) ==
  /\ m \notin queued \cup handled
  /\ queued' = queued \cup {m}
  /\ UNCHANGED <<running, handled>>

Start(c, m) ==
  /\ m \in queued
  /\ ~Runs(c)
  /\ \A d \in Consumers : Runs(d) => LockID[running[d]] # LockID[m]
  /\ running' = [running EXCEPT ![c] = m]
  /\ UNCHANGED <<queued, handled>>

\* The handler has handled its message, or has failed or died.
Finish(c) ==
  /\ Runs(c)
  /\ running' = [running EXCEPT ![c] = Nobody]
  /\ handled' \in {handled, handled \cup {running[c]}}
  /\ UNCHANGED queued

Acknowledge(m) ==
  /\ m \in queued \cap handled
  /\ \A c \in Consumers : running[c] # m
  /\ queued' = queued \ {m}
  /\ UNCHANGED <<running, handled>>

Next ==
  \/ \E m \in Messages : Put(m) \/ Acknowledge(m)
  \/ \E c \in Consumers : Finish(c) \/ \E m \in Messages : Start(c, m)

Spec == Init /\ [][Next]_vars

=============================================================================
