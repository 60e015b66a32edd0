-------------------------- MODULE DeliveryContract --------------------------
(***************************************************************************)
(* What the outbox promises the rest of the system about each event, with  *)
(* rows, locks, leases, attempts and processes left out: an accepted event *)
(* waits until it is confirmed or given up; it is confirmed only after it  *)
(* reached the topic; only a given-up event can be taken up again; only a  *)
(* confirmed one can be purged.  Delivery is at least once and may happen  *)
(* late: a stalled publisher can still send an event after it was          *)
(* confirmed, given up or purged.                                          *)
(***************************************************************************)
CONSTANT Events

VARIABLES
    phase,      \* how far each event has come
    delivered   \* events in the topic at least once

Phases == {"none", "waiting", "confirmed", "given_up", "purged"}

Init ==
    /\ phase = [e \in Events |-> "none"]
    /\ delivered = {}

Move(e, from, to) ==
    /\ phase[e] = from
    /\ phase' = [phase EXCEPT ![e] = to]
    /\ UNCHANGED delivered

Accept(e) == Move(e, "none", "waiting")

Confirm(e) == e \in delivered /\ Move(e, "waiting", "confirmed")

GiveUp(e) == Move(e, "waiting", "given_up")

TakeUp(e) == Move(e, "given_up", "waiting")

Purge(e) == Move(e, "confirmed", "purged")

Deliver(e) ==
    /\ phase[e] # "none"
    /\ delivered' = delivered \cup {e}
    /\ UNCHANGED phase

Next ==
    \E e \in Events :
        \/ Accept(e)
        \/ Deliver(e)
        \/ Confirm(e)
        \/ GiveUp(e)
        \/ TakeUp(e)
        \/ Purge(e)

Spec == Init /\ [][Next]_<<phase, delivered>>

=============================================================================
