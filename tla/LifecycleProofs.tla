--------------------------- MODULE LifecycleProofs ---------------------------
(* Proofs about how workers start and stop, for any number of them.        *)
EXTENDS WorkerLifecycle, TLAPS

(* Nothing is up in the beginning.                                         *)
LEMMA InvInit == Init => LifecycleInv
BY LifecycleAssumption
   DEF Init, LifecycleInv, TypeOK, InitialisedBefore, LoopsInside,
       ReadyMeansConsuming, ConsumerRunnerReady, ApiOnlyServes, Processes,
       Workers, At

(* Each step of a worker, whatever the others do, keeps the invariant.     *)
LEMMA InvNext == LifecycleInv /\ [Next]_vars => LifecycleInv'
<1> USE LifecycleAssumption
    DEF LifecycleInv, TypeOK, InitialisedBefore, LoopsInside,
        ReadyMeansConsuming, ConsumerRunnerReady, ApiOnlyServes, Processes,
        Workers, At, Goto, LoopTo
<1> SUFFICES ASSUME LifecycleInv, [Next]_vars PROVE LifecycleInv'
  OBVIOUS
<1>1. CASE Outage
  BY <1>1 DEF Outage
<1>2. ASSUME NEW w \in Processes, Start(w) PROVE LifecycleInv'
  BY <1>2 DEF Start
<1>3. ASSUME NEW w \in Processes, InitializeTopics(w) PROVE LifecycleInv'
  BY <1>3 DEF InitializeTopics, HookDone
<1>4. ASSUME NEW w \in Processes, ConnectProducer(w) PROVE LifecycleInv'
  BY <1>4 DEF ConnectProducer, HookDone
<1>5. ASSUME NEW w \in Processes, EnsureIndex(w) PROVE LifecycleInv'
  BY <1>5 DEF EnsureIndex, SearchNext, SearchDone, MessagingReady
<1>6. ASSUME NEW w \in Processes, RunConsumer(w) PROVE LifecycleInv'
  BY <1>6 DEF RunConsumer
<1>7. ASSUME NEW w \in Processes, ScheduleFirstRun(w) PROVE LifecycleInv'
  BY <1>7 DEF ScheduleFirstRun, MessagingReady
<1>8. ASSUME NEW w \in Processes, BootFails(w) PROVE LifecycleInv'
  BY <1>8 DEF BootFails, Exit
<1>9. ASSUME NEW w \in Processes, BeginRun(w) PROVE LifecycleInv'
  BY <1>9 DEF BeginRun
<1>10. ASSUME NEW w \in Processes, EndRun(w) PROVE LifecycleInv'
  BY <1>10 DEF EndRun
<1>11. ASSUME NEW w \in Processes, Joined(w) PROVE LifecycleInv'
  BY <1>11 DEF Joined
<1>12. ASSUME NEW w \in Processes, RunRejected(w) PROVE LifecycleInv'
  BY <1>12 DEF RunRejected
<1>13. ASSUME NEW w \in Processes, HandleMessage(w) PROVE LifecycleInv'
  BY <1>13 DEF HandleMessage
<1>14. ASSUME NEW w \in Processes, Handled(w) PROVE LifecycleInv'
  BY <1>14 DEF Handled
<1>15. ASSUME NEW w \in Processes, ConsumerStops(w) PROVE LifecycleInv'
  BY <1>15 DEF ConsumerStops
<1>16. ASSUME NEW w \in Processes, ConsumerCrashes(w) PROVE LifecycleInv'
  <2>1. w \in Indexers /\ ~running[w]
    BY <1>16 DEF ConsumerCrashes
  <2>2. CASE loop' = [loop EXCEPT ![w] = "waiting"] /\ UNCHANGED running
    BY <1>16, <2>1, <2>2 DEF ConsumerCrashes
  <2>3. CASE /\ loop' = [loop EXCEPT ![w] = "dead"]
             /\ running' = [running EXCEPT ![w] = FALSE]
    BY <1>16, <2>1, <2>3 DEF ConsumerCrashes
  <2> QED
    BY <1>16, <2>2, <2>3 DEF ConsumerCrashes
<1>17. ASSUME NEW w \in Processes, ConsumerRestarts(w) PROVE LifecycleInv'
  BY <1>17 DEF ConsumerRestarts
<1>18. ASSUME NEW w \in Processes, Shutdown(w) PROVE LifecycleInv'
  BY <1>18 DEF Shutdown
<1>19. ASSUME NEW w \in Processes, LoopDrained(w) PROVE LifecycleInv'
  BY <1>19 DEF LoopDrained
<1>20. ASSUME NEW w \in Processes, DisconnectProducer(w) PROVE LifecycleInv'
  BY <1>20 DEF DisconnectProducer, Exit
<1>21. ASSUME NEW w \in Processes, Kill(w) PROVE LifecycleInv'
  BY <1>21 DEF Kill, Exit
<1>22. ASSUME NEW w \in Processes, ConnectMongo(w) PROVE LifecycleInv'
  BY <1>22 DEF ConnectMongo
<1>23. ASSUME NEW w \in Processes, EnsureIndexError(w) PROVE LifecycleInv'
  BY <1>23 DEF EnsureIndexError, SearchNext, SearchDone, MessagingReady
<1>24. CASE UNCHANGED vars
  BY <1>24 DEF vars
<1> QED
  BY <1>1, <1>2, <1>3, <1>4, <1>5, <1>6, <1>7, <1>8, <1>9, <1>10, <1>11, <1>12,
     <1>13, <1>14, <1>15, <1>16, <1>17, <1>18, <1>19, <1>20, <1>21, <1>22,
     <1>23, <1>24
     DEF Next, Boot, BootStep, Work

(* The inductive invariant of the lifecycle of every worker.               *)
THEOREM LifecycleInvariant == Spec => []LifecycleInv
BY InvInit, InvNext, PTL DEF Spec

(* A run or record in progress always finds a connected producer, whatever *)
(* order the hooks of other workers finish or fail in.                     *)
THEOREM ProducerOutlivesWork == Spec => []WorkHasProducer
<1>1. LifecycleInv => WorkHasProducer
  BY DEF LifecycleInv, TypeOK, WorkHasProducer, AtWork, InitialisedBefore,
         LoopsInside, Workers, At
<1> QED
  BY <1>1, LifecycleInvariant, PTL

(* Nobody publishes or consumes before the topics exist.                   *)
THEOREM TopicsExistBeforeWork == Spec => []TopicsBeforeWork
<1>1. LifecycleInv => TopicsBeforeWork
  BY DEF LifecycleInv, TypeOK, TopicsBeforeWork, AtWork, InitialisedBefore,
         LoopsInside, Workers, At
<1> QED
  BY <1>1, LifecycleInvariant, PTL

(* A worker that is ready has a connected producer, and an indexer that is *)
(* ready consumes, whatever the services do.                               *)
THEOREM ReadyIsAble == Spec => []ReadyMeansAble
<1>1. LifecycleInv => ReadyMeansAble
  BY DEF LifecycleInv, TypeOK, ReadyMeansAble, Ready, IndexerReady,
         ReadyMeansConsuming, InitialisedBefore, Workers, Processes, At
<1> QED
  BY <1>1, LifecycleInvariant, PTL

==============================================================================
