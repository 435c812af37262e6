-------------------------- MODULE RepoConnectAbs --------------------------
(***************************************************************************)
(* What connecting a repository promises: at most one connection of the    *)
(* repository is active, an established connection has its webhook from    *)
(* the moment it is established, and an ended one has none, unless the     *)
(* provider denied that it is there.  No queue, no retries, no requests.   *)
(***************************************************************************)
CONSTANT Connections

VARIABLES
  phase,  \* the phase of every connection
  hooked, \* the connections that have a webhook at the provider
  denied  \* those of them whose webhook the provider denied last

vars == <<phase, hooked, denied>>

Phases == {"absent", "connecting", "connected", "failed", "disconnecting",
           "disconnected", "dropped"}

Active(c) == phase[c] \in {"connecting", "connected", "disconnecting"}

Init ==
  /\ phase = [c \in Connections |-> "absent"]
  /\ hooked = {}
  /\ denied = {}

Move(c, from, to) ==
  /\ phase[c] = from
  /\ phase' = [phase EXCEPT ![c] = to]

Connect(c) ==
  /\ \A d \in Connections : ~Active(d)
  /\ Move(c, "absent", "connecting")
  /\ UNCHANGED <<hooked, denied>>

Establish(c) ==
  /\ c \in hooked
  /\ Move(c, "connecting", "connected")
  /\ UNCHANGED <<hooked, denied>>

Fail(c) ==
  /\ Move(c, "connecting", "failed")
  /\ UNCHANGED <<hooked, denied>>

Disconnect(c) ==
  /\ Move(c, "connected", "disconnecting")
  /\ UNCHANGED <<hooked, denied>>

FinishDisconnect(c) ==
  /\ c \notin hooked \/ c \in denied
  /\ Move(c, "disconnecting", "disconnected")
  /\ UNCHANGED <<hooked, denied>>

\* The user of an active connection unlinks the provider.
Drop(c) ==
  /\ Active(c)
  /\ phase' = [phase EXCEPT ![c] = "dropped"]
  /\ UNCHANGED <<hooked, denied>>

\* A handler that began before the drop does not notice it.
InstallHook(c) ==
  /\ phase[c] \in {"connecting", "dropped"}
  /\ hooked' = hooked \cup {c}
  /\ UNCHANGED <<phase, denied>>

RemoveHook(c) ==
  /\ phase[c] \in {"disconnecting", "disconnected", "dropped"}
  /\ hooked' = hooked \ {c}
  /\ denied' = denied \ {c}
  /\ UNCHANGED phase

DenyHook(c) ==
  /\ c \in hooked
  /\ phase[c] \in {"disconnecting", "disconnected", "dropped"}
  /\ denied' = denied \cup {c}
  /\ UNCHANGED <<phase, hooked>>

Next ==
  \E c \in Connections :
    \/ Connect(c)
    \/ Establish(c)
    \/ Fail(c)
    \/ Disconnect(c)
    \/ FinishDisconnect(c)
    \/ Drop(c)
    \/ InstallHook(c)
    \/ RemoveHook(c)
    \/ DenyHook(c)

Spec == Init /\ [][Next]_vars

=============================================================================
