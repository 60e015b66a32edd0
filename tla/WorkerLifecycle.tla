--------------------------- MODULE WorkerLifecycle ---------------------------
(***************************************************************************)
(* How the api, outbox-publisher and search-indexer processes start and    *)
(* stop, and what their readiness probes answer meanwhile.                 *)
(*                                                                         *)
(* Nest connects to MongoDB when it creates the providers, and only then   *)
(* runs the onModuleInit hooks, those of imported modules first; since     *)
(* version 11 it shuts modules down in the opposite order (external).      *)
(* So MessagingModule, with the topics and the producer, comes before      *)
(* SearchModule and before the worker's own module, and is closed last.    *)
(* The kafkajs consumer crashes and restarts on its own (external).        *)
(***************************************************************************)
CONSTANTS
    Apis,         \* api processes
    Publishers,   \* outbox-publisher processes
    Indexers      \* search-indexer processes

ASSUME LifecycleAssumption ==
    /\ Publishers \cap Indexers = {}
    /\ Apis \cap (Publishers \cup Indexers) = {}

Workers == Publishers \cup Indexers

Processes == Apis \cup Workers

Services == {"mongodb", "kafka", "elasticsearch"}

VARIABLES
    up,         \* the services that can be reached
    topics,     \* the topics exist
    aliases,    \* the read and the write alias exist
    stage,      \* how far each process is
    hooks,      \* the onModuleInit hooks of MessagingModule still to finish
    connected,  \* KafkaProducerService.connected
    loop,       \* the run loop of the publisher, the consumer of the indexer
    running     \* MessageCreatedConsumer.running

vars == <<up, topics, aliases, stage, hooks, connected, loop, running>>

At(w, s) == stage[w] = s

Goto(w, s) == stage' = [stage EXCEPT ![w] = s]

LoopTo(w, l) == loop' = [loop EXCEPT ![w] = l]

(* The process is gone, and all it held with it.                           *)
Exit(w) ==
    /\ Goto(w, "down")
    /\ hooks' = [hooks EXCEPT ![w] = {}]
    /\ connected' = [connected EXCEPT ![w] = FALSE]
    /\ LoopTo(w, "none")
    /\ running' = [running EXCEPT ![w] = FALSE]
    /\ UNCHANGED <<up, topics, aliases>>

-----------------------------------------------------------------------------
(* Start.                                                                  *)

Start(w) ==
    /\ At(w, "down")
    /\ Goto(w, IF w \in Indexers THEN "messaging" ELSE "persistence")
    /\ hooks' = [hooks EXCEPT ![w] = IF w \in Apis THEN {} ELSE {"topics", "producer"}]
    /\ UNCHANGED <<up, topics, aliases, connected, loop, running>>

(* The connection of MongooseModule, which Nest tries again for a while.   *)
ConnectMongo(w) ==
    /\ At(w, "persistence")
    /\ "mongodb" \in up
    /\ Goto(w, IF w \in Apis THEN "search" ELSE "messaging")
    /\ UNCHANGED <<up, topics, aliases, hooks, connected, loop, running>>

HookDone(w, h) ==
    /\ At(w, "messaging")
    /\ h \in hooks[w]
    /\ "kafka" \in up
    /\ hooks' = [hooks EXCEPT ![w] = @ \ {h}]

(* Mutant: the topics are left to Kafka's auto-creation.                   *)
InitializeTopicsSkipped(w) ==
    /\ HookDone(w, "topics")
    /\ UNCHANGED <<up, topics, aliases, stage, connected, loop, running>>

(* KafkaTopicInitializer: creates the topics that are missing.             *)
InitializeTopics(w) ==
    /\ HookDone(w, "topics")
    /\ topics' = TRUE
    /\ UNCHANGED <<up, aliases, stage, connected, loop, running>>

(* KafkaProducerService.onModuleInit, at the same time.                    *)
ConnectProducer(w) ==
    /\ HookDone(w, "producer")
    /\ connected' = [connected EXCEPT ![w] = TRUE]
    /\ UNCHANGED <<up, topics, aliases, stage, loop, running>>

MessagingReady(w) == At(w, "messaging") /\ hooks[w] = {}

(* What comes before and after the hook of SearchModule.                   *)
SearchNext(w) ==
    \/ w \in Indexers /\ MessagingReady(w)
    \/ w \in Apis /\ At(w, "search")

SearchDone(w) == Goto(w, IF w \in Apis THEN "up" ELSE "consumer")

(* IndexManagerService.onModuleInit, whose requests are those of EsIndex.  *)
EnsureIndex(w) ==
    /\ SearchNext(w)
    /\ "elasticsearch" \in up
    /\ SearchDone(w)
    /\ aliases' = TRUE
    /\ UNCHANGED <<up, topics, hooks, connected, loop, running>>

(* Mutant: every runtime goes on without its index.                        *)
EnsureIndexErrorAlways(w) ==
    /\ SearchNext(w)
    /\ SearchDone(w)
    /\ UNCHANGED <<up, topics, aliases, hooks, connected, loop, running>>

(* An error of it is caught by the api only, which goes on without.        *)
EnsureIndexError(w) ==
    /\ w \in Apis
    /\ SearchNext(w)
    /\ SearchDone(w)
    /\ UNCHANGED <<up, topics, aliases, hooks, connected, loop, running>>

(* Mutant: the consumer does not wait for the modules it needs.            *)
RunConsumerEarly(w) ==
    /\ w \in Indexers
    /\ At(w, "consumer") \/ At(w, "messaging")
    /\ "kafka" \in up
    /\ Goto(w, "up")
    /\ LoopTo(w, "starting")
    /\ running' = [running EXCEPT ![w] = TRUE]
    /\ UNCHANGED <<up, topics, aliases, hooks, connected>>

(* MessageCreatedConsumer.onModuleInit: connect, subscribe, and run, which *)
(* is not waited for.                                                      *)
RunConsumer(w) ==
    /\ w \in Indexers
    /\ At(w, "consumer")
    /\ "kafka" \in up
    /\ Goto(w, "up")
    /\ LoopTo(w, "starting")
    /\ running' = [running EXCEPT ![w] = TRUE]
    /\ UNCHANGED <<up, topics, aliases, hooks, connected>>

(* PublisherService.onModuleInit sets the first timer.                     *)
ScheduleFirstRun(w) ==
    /\ w \in Publishers
    /\ MessagingReady(w)
    /\ Goto(w, "up")
    /\ LoopTo(w, "idle")
    /\ UNCHANGED <<up, topics, aliases, hooks, connected, running>>

(* A hook throws: bootstrap rejects and the process exits.                 *)
BootFails(w) == stage[w] \in {"persistence", "messaging", "consumer"} /\ Exit(w)

-----------------------------------------------------------------------------
(* The publisher at work: see module Outbox.                               *)

BeginRun(w) ==
    /\ At(w, "up")
    /\ loop[w] = "idle"
    /\ LoopTo(w, "working")
    /\ UNCHANGED <<up, topics, aliases, stage, hooks, connected, running>>

EndRun(w) ==
    /\ loop[w] = "working"
    /\ LoopTo(w, IF At(w, "stopping") THEN "none" ELSE "idle")
    /\ UNCHANGED <<up, topics, aliases, stage, hooks, connected, running>>

(* The indexer at work: see module SearchIndexer.                          *)

(* The consumer has joined its group.                                      *)
Joined(w) ==
    /\ At(w, "up")
    /\ loop[w] = "starting"
    /\ "kafka" \in up
    /\ LoopTo(w, "fetching")
    /\ UNCHANGED <<up, topics, aliases, stage, hooks, connected, running>>

(* Mutant: the rejection is logged only.                                   *)
RunRejectedLogged(w) ==
    /\ At(w, "up")
    /\ loop[w] = "starting"
    /\ LoopTo(w, "dead")
    /\ UNCHANGED <<up, topics, aliases, stage, hooks, connected, running>>

(* The promise of consumer.run() is rejected.                              *)
RunRejected(w) ==
    /\ At(w, "up")
    /\ loop[w] = "starting"
    /\ LoopTo(w, "dead")
    /\ running' = [running EXCEPT ![w] = FALSE]
    /\ UNCHANGED <<up, topics, aliases, stage, hooks, connected>>

HandleMessage(w) ==
    /\ At(w, "up")
    /\ loop[w] = "fetching"
    /\ LoopTo(w, "handling")
    /\ UNCHANGED <<up, topics, aliases, stage, hooks, connected, running>>

Handled(w) ==
    /\ loop[w] = "handling"
    /\ LoopTo(w, "fetching")
    /\ UNCHANGED <<up, topics, aliases, stage, hooks, connected, running>>

(* An error the consumer cannot go on from: kafkajs disconnects it, which  *)
(* emits STOP, before it emits CRASH.                                      *)
ConsumerStops(w) ==
    /\ At(w, "up") \/ At(w, "stopping")
    /\ loop[w] \in {"starting", "fetching", "handling"}
    /\ LoopTo(w, "crashing")
    /\ running' = [running EXCEPT ![w] = FALSE]
    /\ UNCHANGED <<up, topics, aliases, stage, hooks, connected>>

(* CRASH: kafkajs will restart a consumer whose error is retriable.        *)
ConsumerCrashes(w) ==
    /\ At(w, "up")
    /\ loop[w] = "crashing"
    /\ \/ LoopTo(w, "waiting") /\ UNCHANGED running
       \/ LoopTo(w, "dead") /\ running' = [running EXCEPT ![w] = FALSE]
    /\ UNCHANGED <<up, topics, aliases, stage, hooks, connected>>

(* The restart: no event that the code listens to.                         *)
ConsumerRestarts(w) ==
    /\ At(w, "up")
    /\ loop[w] = "waiting"
    /\ LoopTo(w, "starting")
    /\ UNCHANGED <<up, topics, aliases, stage, hooks, connected, running>>

-----------------------------------------------------------------------------
(* Stop.                                                                   *)

(* Mutant: the producer is closed at the same time as its users.           *)
ShutdownAtOnce(w) ==
    /\ w \in Workers
    /\ At(w, "up")
    /\ Goto(w, "stopping")
    /\ LoopTo(w, IF loop[w] = "idle" THEN "none" ELSE loop[w])
    /\ running' = [running EXCEPT ![w] = FALSE]
    /\ connected' = [connected EXCEPT ![w] = FALSE]
    /\ UNCHANGED <<up, topics, aliases, hooks>>

(* onApplicationShutdown of the publisher, which clears its timer, or of   *)
(* the consumer. The HTTP server has been closed before.                   *)
Shutdown(w) ==
    /\ w \in Workers
    /\ At(w, "up")
    /\ Goto(w, "stopping")
    /\ LoopTo(w, IF loop[w] = "idle" THEN "none" ELSE loop[w])
    /\ running' = [running EXCEPT ![w] = FALSE]
    /\ UNCHANGED <<up, topics, aliases, hooks, connected>>

(* Mutant: waits for the consumer to be fetching.                          *)
LoopDrainedFetching(w) ==
    /\ At(w, "stopping")
    /\ loop[w] \in {"none", "fetching"}
    /\ Goto(w, "closing")
    /\ LoopTo(w, "none")
    /\ UNCHANGED <<up, topics, aliases, hooks, connected, running>>

(* It waits for the run or the record in progress.                         *)
LoopDrained(w) ==
    /\ At(w, "stopping")
    /\ loop[w] \notin {"working", "handling"}
    /\ Goto(w, "closing")
    /\ LoopTo(w, "none")
    /\ UNCHANGED <<up, topics, aliases, hooks, connected, running>>

(* KafkaProducerService.onApplicationShutdown, and the end.                *)
DisconnectProducer(w) == At(w, "closing") /\ Exit(w)

(* Any process; the stop of an api, which has no hooks, looks the same.     *)
Kill(w) == ~At(w, "down") /\ Exit(w)

-----------------------------------------------------------------------------
Init ==
    /\ up = Services
    /\ topics = FALSE
    /\ aliases = FALSE
    /\ stage = [w \in Processes |-> "down"]
    /\ hooks = [w \in Processes |-> {}]
    /\ connected = [w \in Processes |-> FALSE]
    /\ loop = [w \in Processes |-> "none"]
    /\ running = [w \in Processes |-> FALSE]

(* The services come and go.                                               *)
Outage ==
    /\ \E s \in Services : up' \in {up \cup {s}, up \ {s}}
    /\ UNCHANGED <<topics, aliases, stage, hooks, connected, loop, running>>

BootStep(w) ==
    \/ ConnectMongo(w)
    \/ InitializeTopics(w)
    \/ ConnectProducer(w)
    \/ EnsureIndex(w)
    \/ EnsureIndexError(w)
    \/ RunConsumer(w)
    \/ ScheduleFirstRun(w)

Boot(w) == Start(w) \/ BootStep(w) \/ BootFails(w)

Work(w) ==
    \/ BeginRun(w)
    \/ EndRun(w)
    \/ Joined(w)
    \/ RunRejected(w)
    \/ HandleMessage(w)
    \/ Handled(w)
    \/ ConsumerStops(w)
    \/ ConsumerCrashes(w)
    \/ ConsumerRestarts(w)

Next ==
    \/ Outage
    \/ \E w \in Processes :
         Boot(w) \/ Work(w) \/ Shutdown(w) \/ LoopDrained(w)
           \/ DisconnectProducer(w) \/ Kill(w)

Spec == Init /\ [][Next]_vars

(* The event loop goes on: work in progress ends, and so do the hooks.     *)
(* Whoever has exited is started again by those who run the system.        *)
FairSpec ==
    /\ Spec
    /\ \A w \in Processes : /\ WF_vars(EndRun(w) \/ Handled(w))
                            /\ WF_vars(LoopDrained(w) \/ DisconnectProducer(w))
                            /\ WF_vars(Start(w))
                            /\ WF_vars(BootStep(w))

-----------------------------------------------------------------------------
(* Readiness.                                                              *)

MongoReady == "mongodb" \in up

KafkaReady == "kafka" \in up /\ topics

AliasReady == "elasticsearch" \in up /\ aliases

(* HealthController.consumerRunnerReady of the indexer.                    *)
ConsumerRunnerReady(w) == running[w]

IndexerReady(w) == KafkaReady /\ AliasReady /\ ConsumerRunnerReady(w)

(* What the readiness probe answers. The server listens once every hook is *)
(* done, and is closed before the first shutdown hook.                     *)
Ready(w) ==
    /\ At(w, "up")
    /\ w \in Apis => MongoReady /\ AliasReady
    /\ w \in Publishers => MongoReady /\ KafkaReady
    /\ w \in Indexers => IndexerReady(w)

-----------------------------------------------------------------------------
(* Properties.                                                             *)

(* Types.                                                                  *)
TypeOK ==
    /\ up \in SUBSET Services /\ topics \in BOOLEAN /\ aliases \in BOOLEAN
    /\ stage \in [Processes -> {"down", "persistence", "messaging", "search",
                                "consumer", "up", "stopping", "closing"}]
    /\ hooks \in [Processes -> SUBSET {"topics", "producer"}]
    /\ connected \in [Processes -> BOOLEAN]
    /\ loop \in [Processes -> {"none", "idle", "working", "starting", "fetching",
                               "handling", "crashing", "waiting", "dead"}]
    /\ running \in [Processes -> BOOLEAN]

AtWork(w) == loop[w] \in {"working", "handling"}

(* Whoever is at work can send: the producer is connected from before the  *)
(* first record or run to after the last, so a shutdown never turns into   *)
(* failed attempts of outbox rows or lost dead letters.                    *)
WorkHasProducer == \A w \in Workers : AtWork(w) => connected[w]

(* Topics are never auto-created: they exist before anybody works.         *)
TopicsBeforeWork == \A w \in Workers : AtWork(w) => topics

(* "A non-restartable crash that stops the runner marks readiness down":   *)
(* the probe never vouches for a consumer that has stopped.                *)
ReadyMeansConsuming ==
    \A w \in Indexers :
        ConsumerRunnerReady(w) =>
            At(w, "up") /\ loop[w] \in {"starting", "fetching", "handling"}

(* The probe of a worker never looks at the producer that the worker sends *)
(* with, and yet a worker that is ready has one that is connected; an      *)
(* indexer that is ready also consumes.                                    *)
ReadyMeansAble ==
    \A w \in Workers : Ready(w) =>
        /\ connected[w]
        /\ w \in Indexers => loop[w] \in {"starting", "fetching", "handling"}

(* Each module finds what it was initialised with until it is closed.      *)
InitialisedBefore(w) ==
    /\ hooks[w] # {} => stage[w] \in {"persistence", "messaging"}
    /\ stage[w] \in {"persistence", "messaging"}
         => /\ "topics" \in hooks[w] \/ topics
            /\ "producer" \in hooks[w] \/ connected[w]
    /\ stage[w] \in {"consumer", "up", "stopping", "closing"}
         => topics /\ connected[w]
    /\ (w \in Indexers /\ stage[w] \in {"consumer", "up", "stopping", "closing"})
         => aliases

(* Loops run in processes that are up or on their way down.                *)
LoopsInside(w) ==
    /\ stage[w] \notin {"up", "stopping"} => loop[w] = "none" /\ ~running[w]
    /\ w \in Publishers => loop[w] \in {"none", "idle", "working"} /\ ~running[w]

(* An api has a part in neither.                                           *)
ApiOnlyServes(a) ==
    /\ stage[a] \in {"down", "persistence", "search", "up"}
    /\ loop[a] = "none" /\ ~running[a]

(* The inductive invariant.                                                *)
LifecycleInv ==
    /\ TypeOK
    /\ \A w \in Workers : InitialisedBefore(w) /\ LoopsInside(w)
    /\ \A a \in Apis : ApiOnlyServes(a)
    /\ ReadyMeansConsuming

(* A shutdown ends, whatever the worker was doing.                         *)
ShutdownCompletes ==
    \A w \in Workers : At(w, "stopping") ~> At(w, "down")

(* The services stay, and nobody exits any more.                           *)
Calm ==
    /\ <>[](up = Services)
    /\ <>[][\A w \in Processes : ~At(w, "down") => stage'[w] # "down"]_vars

(* docs/decisions.md, decision 27: an api that started while Elasticsearch *)
(* was away relies on its readiness until Elasticsearch recovers. It never *)
(* creates the index again, so this rests on an indexer that does not      *)
(* start without it. Publishers become ready too.                          *)
BecomeReady ==
    Calm => \A w \in Apis \cup Publishers : <>[]Ready(w)

(* message-created.consumer.spec.ts: "keeps readiness healthy for          *)
(* restartable consumer crashes".                                          *)
RestartKeepsReady ==
    \A w \in Indexers :
        At(w, "up") /\ loop[w] \in {"fetching", "handling"}
            => ConsumerRunnerReady(w)

=============================================================================
