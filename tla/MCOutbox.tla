------------------------------ MODULE MCOutbox ------------------------------
(* Small instances of Outbox for TLC.                                      *)
EXTENDS Outbox, TLC

CONSTANTS p1, p2, c1, c2, none

OneInstance == {p1}
TwoInstances == {p1, p2}
NoOperators == {}
OneOperator == {c1}
TwoOperators == {c1, c2}

(* Instance ids are interchangeable.                                       *)
InstanceSymmetry == Permutations(TwoInstances)
AllSymmetry == InstanceSymmetry \cup Permutations(TwoOperators)

-----------------------------------------------------------------------------
(* The liveness instance: one replica at a time, and a process only goes   *)
(* away while a replacement is left to start (a supervisor restarts it).   *)
(* Time passes as long as somebody waits for it: a retry that is not yet   *)
(* due or a lease that is not yet over.  Without such a row a tick changes *)
(* nothing any process can observe, so the clock needs no further bound    *)
(* than MaxClock, which is never reached while a row is outstanding.       *)
SomebodyWaits ==
    \E r \in Rows :
        \/ outbox[r].status = "pending" /\ clock < outbox[r].nextAttemptAt
        \/ /\ outbox[r].status = "publishing"
           /\ clock < outbox[r].lockedAt + LockTimeout

Replacement == \E j \in Instances : pc[j] = "new"

LiveNext ==
    \/ \E i \in Instances : \/ Start(i)
                            \/ RunStep(i)
                            \/ Replacement /\ Shutdown(i)
                            \/ Replacement /\ Crash(i)
    \/ \E r \in Rows : CreateMessage(r) \/ Expire(r)
    \/ \E o \in Operators : Redrive(o)
    \/ SomebodyWaits /\ Tick

(* A process that can take a step takes one: the event loop, timers and    *)
(* the supervisor guarantee no more than that.  Nothing is assumed of the  *)
(* broker: every send may fail.                                            *)
LiveSpec ==
    /\ Init
    /\ [][LiveNext]_vars
    /\ \A i \in Instances : WF_vars(Start(i)) /\ WF_vars(RunStep(i))
    /\ WF_vars(SomebodyWaits /\ Tick)

=============================================================================
