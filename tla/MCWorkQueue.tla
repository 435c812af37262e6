----------------------------- MODULE MCWorkQueue -----------------------------
(* One lock for all messages: the message of a job was put more than once. *)
EXTENDS WorkQueue

MCLockID == [m \in Messages |-> CHOOSE l \in Locks : TRUE]

=============================================================================
