--------------------------- MODULE SubscriptionAbs ---------------------------
(***************************************************************************)
(* What a subscription promises: an organization has one at most, with the *)
(* seats that the provider charges whenever no update is under way; the    *)
(* provider changes what it charges only during an update; and a           *)
(* subscription ends once, after it was cancelled.  No events, no queue,   *)
(* no versions.                                                            *)
(***************************************************************************)
CONSTANTS
  Plans,  \* subscriptions bought at the provider
  Seats,  \* numbers of seats
  NoSeats

VARIABLES
  status,  \* of a plan at the provider
  paid,    \* the seats it charges
  phase,   \* of the organization's subscription by that plan
  granted  \* the seats the organization has by it

vars == <<status, paid, phase, granted>>

Current(p) == phase[p] \in {"live", "updating"}

Init ==
  /\ status = [p \in Plans |-> "none"]
  /\ paid = [p \in Plans |-> NoSeats]
  /\ phase = [p \in Plans |-> "absent"]
  /\ granted = [p \in Plans |-> {}]

Move(p, from, to) ==
  /\ phase[p] \in from
  /\ phase' = [phase EXCEPT ![p] = to]

Buy(p, s) ==
  /\ status[p] = "none"
  /\ status' = [status EXCEPT ![p] = "active"]
  /\ paid' = [paid EXCEPT ![p] = s]
  /\ UNCHANGED <<phase, granted>>

Cancel(p) ==
  /\ status[p] = "active"
  /\ status' = [status EXCEPT ![p] = "cancelled"]
  /\ UNCHANGED <<paid, phase, granted>>

\* The plan may have been cancelled meanwhile.
Grant(p) ==
  /\ status[p] # "none"
  /\ \A o \in Plans : ~Current(o)
  /\ Move(p, {"absent"}, "live")
  /\ granted' = [granted EXCEPT ![p] = {paid[p]}]
  /\ UNCHANGED <<status, paid>>

BeginUpdate(p) ==
  /\ Move(p, {"live"}, "updating")
  /\ UNCHANGED <<status, paid, granted>>

Charge(p, s) ==
  /\ status[p] = "active"
  /\ phase[p] = "updating"
  /\ paid' = [paid EXCEPT ![p] = s]
  /\ UNCHANGED <<status, phase, granted>>

FinishUpdate(p) ==
  /\ Move(p, {"updating"}, "live")
  /\ granted' = [granted EXCEPT ![p] = {paid[p]}]
  /\ UNCHANGED <<status, paid>>

End(p) ==
  /\ status[p] = "cancelled"
  /\ Move(p, {"live", "updating"}, "ended")
  /\ granted' = [granted EXCEPT ![p] = {}]
  /\ UNCHANGED <<status, paid>>

Next ==
  \E p \in Plans :
    \/ Cancel(p)
    \/ Grant(p)
    \/ BeginUpdate(p)
    \/ FinishUpdate(p)
    \/ End(p)
    \/ \E s \in Seats : Buy(p, s) \/ Charge(p, s)

Spec == Init /\ [][Next]_vars

=============================================================================
