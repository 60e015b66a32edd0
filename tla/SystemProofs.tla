----------------------------- MODULE SystemProofs -----------------------------
(* Proofs about the components at work together, for any number of         *)
(* requests, messages, processes, commands, index versions and faults.     *)
(*                                                                         *)
(* What is assumed of the constants is what each component assumes.        *)
EXTENDS System, TLAPS

-----------------------------------------------------------------------------
(* The delivery path, seen from the outbox.                                       *)

LEMMA UnchangedIndexer == UNCHANGED indexerVars <=> UNCHANGED P!vars
BY DEF indexerVars, P!vars, P!group, P!redriver

LEMMA SentIsInTopic == Sent = P!InTopic /\ Sent' = P!InTopic'
BY DEF Sent, P!InTopic

(* Every step is one of the outbox, or the outbox sees nothing of it.      *)
LEMMA OutboxSees ==
  ASSUME P!IndexerAssumption, P!IndexerInv, [DeliveryNext]_deliveryVars
  PROVE  [O!Next]_O!vars
<1>1. CASE \E i \in Instances : Send(i) \/ SendFails(i)
  BY <1>1 DEF Send, SendFails, O!Next, O!RunStep
<1>2. CASE Elsewhere \/ \E m \in Messages : O!CreateMessage(m)
  BY <1>2 DEF Elsewhere, O!Next, O!RunStep
<1>3. CASE (P!Group \/ P!Redrive) /\ UNCHANGED outboxVars
  <2>1. Sent' = Sent
    BY <1>3, P!OthersAddNothing, SentIsInTopic
  <2> QED
    BY <1>3, <2>1 DEF outboxVars, O!vars
<1>4. CASE UNCHANGED deliveryVars
  BY <1>4 DEF deliveryVars, outboxVars, indexerVars, O!vars, Sent
<1> QED
  BY <1>1, <1>2, <1>3, <1>4 DEF DeliveryNext, Forward

-----------------------------------------------------------------------------
(* The delivery path, seen as the pipeline.                                       *)

(* A record that a publisher appends is a delivery.                        *)
LEMMA SendDelivers ==
  ASSUME O!ConstantsAssumption, P!IndexerAssumption, DeliveryInv,
         NEW i \in Instances, publisherPc[i] = "publishing", batch[i] # <<>>,
         UNCHANGED <<messages, outbox>>, P!Produce(O!Event(i).id)
  PROVE  P!Deliver(O!Event(i).id) /\ O!Event(i).id \in Messages
<1> DEFINE m == O!Event(i).id
<1>1. /\ O!TypeOK /\ O!PublisherInv
      /\ P!TypeOK
  BY DEF DeliveryInv, O!InductiveInvariant, P!PipelineInv, P!IndexerInv
<1>2. m \in Messages /\ m \in messages
  <2>1. O!Event(i) \in O!Claimed
    BY <1>1, O!HeadType
  <2>2. 1 \in DOMAIN batch[i] /\ O!Event(i) = batch[i][1]
    BY <1>1, O!HeadInBatch
  <2> QED
    BY <1>1, <2>1, <2>2 DEF O!PublisherInv, O!Claimed
<1> HIDE DEF m
<1>3. O!phase' = O!phase /\ O!phase[m] # "none"
  BY <1>2, O!SamePhase DEF O!phase
<1>4. P!InTopic' = P!InTopic \cup {m}
  BY <1>1, <1>2, P!AppendInTopic DEF P!Produce, m
<1> QED
  BY <1>2, <1>3, <1>4 DEF P!Deliver, P!Contract!Deliver, m

(* Every step is one of the pipeline, or invisible to it.                  *)
LEMMA PipelineSees ==
  ASSUME O!ConstantsAssumption, P!IndexerAssumption, DeliveryInv,
         [DeliveryNext]_deliveryVars
  PROVE  [P!PipelineNext]_P!pipeline
<1>1. ASSUME UNCHANGED <<messages, outbox>> PROVE O!phase' = O!phase
  BY <1>1, O!SamePhase
<1>2. CASE \E i \in Instances : Send(i) \/ SendFails(i)
  <2>1. PICK i \in Instances :
          /\ publisherPc[i] = "publishing" /\ batch[i] # <<>>
          /\ UNCHANGED <<messages, outbox>>
          /\ P!Produce(O!Event(i).id) \/ UNCHANGED P!vars
    BY <1>2, UnchangedIndexer DEF Send, SendFails, O!PublishEvent, O!PublishError
  <2>2. CASE P!Produce(O!Event(i).id)
    BY <2>1, <2>2, SendDelivers DEF P!PipelineNext
  <2>3. CASE UNCHANGED P!vars
    BY <1>1, <2>1, <2>3 DEF P!pipeline
  <2> QED
    BY <2>1, <2>2, <2>3
<1>3. CASE /\ UNCHANGED indexerVars
           /\ Elsewhere \/ \E m \in Messages : O!CreateMessage(m)
  <2>1. [O!Contract!Next]_<<O!phase, Sent>>
    BY OutboxSees, O!RefinementStep DEF DeliveryInv, P!PipelineInv
  <2>2. Sent' = Sent
    BY <1>3 DEF indexerVars, Sent
  <2>3. CASE O!phase' = O!phase
    BY <1>3, UnchangedIndexer, <2>3 DEF P!pipeline
  <2>4. CASE O!Contract!Next
    <3>1. PICK m \in Messages :
            O!Contract!Accept(m) \/ O!Contract!Deliver(m) \/ O!Contract!Confirm(m)
            \/ O!Contract!GiveUp(m) \/ O!Contract!TakeUp(m) \/ O!Contract!Purge(m)
      BY <2>4 DEF O!Contract!Next
    <3>2. \A from, to : O!Contract!Move(m, from, to) => P!Contract!Move(m, from, to)
      BY SentIsInTopic DEF O!Contract!Move, P!Contract!Move
    <3>3. CASE O!Contract!Deliver(m)
      BY <1>3, UnchangedIndexer, <3>3 DEF O!Contract!Deliver, P!pipeline
    <3>4. CASE O!Contract!Accept(m)
      BY <1>3, UnchangedIndexer, <3>2, <3>4
         DEF O!Contract!Accept, P!Contract!Accept, P!Accept, P!PipelineNext
    <3>5. CASE O!Contract!Confirm(m) \/ O!Contract!GiveUp(m)
      BY <1>3, UnchangedIndexer, <3>2, <3>5, SentIsInTopic
         DEF O!Contract!Confirm, P!Contract!Confirm, O!Contract!GiveUp,
             P!Contract!GiveUp, P!Settle, P!PipelineNext
    <3>6. CASE O!Contract!TakeUp(m)
      BY <1>3, UnchangedIndexer, <3>2, <3>6
         DEF O!Contract!TakeUp, P!Contract!TakeUp, P!TakeUp, P!PipelineNext
    <3>7. CASE O!Contract!Purge(m)
      BY <1>3, UnchangedIndexer, <3>2, <3>7
         DEF O!Contract!Purge, P!Contract!Purge, P!Purge, P!PipelineNext
    <3> QED
      BY <3>1, <3>3, <3>4, <3>5, <3>6, <3>7
  <2> QED
    BY <2>1, <2>3, <2>4
<1>4. CASE (P!Group \/ P!Redrive) /\ UNCHANGED outboxVars
  BY <1>1, <1>4 DEF outboxVars, P!PipelineNext
<1>5. CASE UNCHANGED deliveryVars
  BY <1>1, <1>5, UnchangedIndexer DEF deliveryVars, outboxVars, P!pipeline
<1> QED
  BY <1>2, <1>3, <1>4, <1>5 DEF DeliveryNext, Forward

-----------------------------------------------------------------------------
(* Both together.                                                          *)

LEMMA DeliveryStarts ==
  ASSUME O!ConstantsAssumption, P!IndexerAssumption, DeliveryInit
  PROVE  DeliveryInv /\ P!PipelineInit
<1>1. O!phase = [m \in Messages |-> "none"]
  BY DEF DeliveryInit, O!Init, O!phase
<1>2. P!InTopic = {}
  BY SentIsInTopic DEF DeliveryInit, O!Init
<1>3. P!PipelineInit
  BY <1>1, <1>2 DEF DeliveryInit, P!PipelineInit, P!Contract!Init
<1> QED
  BY <1>3, O!InvariantInit, P!PipelineInvInit DEF DeliveryInit, DeliveryInv

LEMMA DeliverySteps ==
  ASSUME O!ConstantsAssumption, P!IndexerAssumption, DeliveryInv,
         [DeliveryNext]_deliveryVars
  PROVE  DeliveryInv'
<1>1. O!InductiveInvariant'
  BY OutboxSees, O!InvariantStep DEF DeliveryInv, P!PipelineInv
<1>2. P!PipelineInv'
  BY PipelineSees, P!PipelineInvNext DEF DeliveryInv
<1> QED
  BY <1>1, <1>2 DEF DeliveryInv

(* The invariants of the outbox and of the pipeline hold together.         *)
THEOREM DeliveryInvariant ==
  ASSUME O!ConstantsAssumption, P!IndexerAssumption
  PROVE  DeliverySpec => []DeliveryInv
<1>1. DeliveryInit => DeliveryInv
  BY DeliveryStarts
<1>2. DeliveryInv /\ [DeliveryNext]_deliveryVars => DeliveryInv'
  BY DeliverySteps
<1> QED
  BY <1>1, <1>2, PTL DEF DeliverySpec

(* With the outbox itself in the place of its contract the system is still *)
(* the pipeline of module Pipeline.                                        *)
THEOREM DeliveryImplementsPipeline ==
  ASSUME O!ConstantsAssumption, P!IndexerAssumption
  PROVE  DeliverySpec => P!PipelineSpec
<1>1. DeliveryInit => P!PipelineInit
  BY DeliveryStarts
<1>2. DeliveryInv /\ [DeliveryNext]_deliveryVars => [P!PipelineNext]_P!pipeline
  BY PipelineSees
<1> QED
  BY <1>1, <1>2, DeliveryInvariant, PTL DEF DeliverySpec, P!PipelineSpec

(* No message is between two stores.                                       *)
LEMMA AllAccountedFor ==
  ASSUME P!IndexerAssumption, DeliveryInv
  PROVE  MessagesAccountedFor
<1>1. ASSUME NEW m \in messages PROVE AccountedFor(m)
  <2> SUFFICES ASSUME outbox[m].status \notin {"pending", "publishing", "failed"},
                      Kind[m] # "unknown"
               PROVE  m \in indexed \/ P!ToBeConsumed(m) \/ P!DeadLettered(m)
    BY DEF AccountedFor
  <2>1. /\ O!TypeOK /\ O!NoLostEvent /\ O!PublishedImpliesDelivered
        /\ P!IndexerInv
    BY DEF DeliveryInv, O!InductiveInvariant, P!PipelineInv
  <2>2. m \in Messages /\ outbox[m].status \in {"absent", "published"}
    BY <1>1, <2>1 DEF O!TypeOK, O!Doc, O!Statuses
  <2>3. m \in Sent
    BY <1>1, <2>1, <2>2 DEF O!NoLostEvent, O!PublishedImpliesDelivered
  <2>4. P!NoEventLost
    BY <2>1, P!NothingLostNow
  <2>5. PICK o \in 1 .. Len(topic) : topic[o] = m
    BY <2>3 DEF Sent
  <2> QED
    BY <2>4, <2>5 DEF P!NoEventLost, P!ToBeConsumed, P!DeadLettered
<1>2. ASSUME NEW m \in indexed PROVE m \in messages
  <2>1. m \in Messages /\ m \in Sent
    BY <1>2, SentIsInTopic
       DEF DeliveryInv, P!PipelineInv, P!StoresAgree, P!IndexerInv, P!TypeOK
  <2> QED
    BY <2>1 DEF DeliveryInv, O!InductiveInvariant
<1> QED
  BY <1>1, <1>2 DEF MessagesAccountedFor

-----------------------------------------------------------------------------
(* The system, seen from each component.                                   *)

(* Every step is one of the API, or it sees nothing of it.                 *)
LEMMA RequestsSee ==
  ASSUME [SystemNext]_systemVars
  PROVE  [A!Next]_A!vars
<1>1. ASSUME NEW r \in Requests, Store(r) PROVE A!Next
  BY <1>1 DEF Store, A!Next, A!Step
<1>2. CASE RequestGoesOn
  BY <1>2 DEF RequestGoesOn, A!Next
<1>3. CASE UNCHANGED requestVars
  BY <1>3 DEF requestVars, A!vars
<1> QED
  BY <1>1, <1>2, <1>3 DEF SystemNext, systemVars, Maintain

(* Every step is one of the delivery path, or it sees nothing of it.       *)
LEMMA DeliverySees ==
  ASSUME [SystemNext]_systemVars
  PROVE  [DeliveryNext]_deliveryVars
<1>1. ASSUME NEW r \in Requests, Store(r) PROVE DeliveryNext
  BY <1>1 DEF Store, DeliveryNext, indexerVars
<1>2. ASSUME NEW c \in Consumers, Member(c), UNCHANGED outboxVars
      PROVE  DeliveryNext
  <2>1. P!Join(c) \/ P!TakeOver(c) \/ P!Evicted(c) \/ P!Crash(c) \/ P!Work(c)
    BY <1>2 DEF Member, Subscribe, WriteDocument, Consume, Die, P!Work
  <2> QED
    BY <1>2, <2>1 DEF DeliveryNext, P!Group
<1>3. CASE Forward
  BY <1>3 DEF DeliveryNext
<1>4. CASE UNCHANGED deliveryVars
  BY <1>4
<1> QED
  BY <1>1, <1>2, <1>3, <1>4
     DEF SystemNext, systemVars, RequestGoesOn, Maintain

(* The record a member is about to write is one of the topic.              *)
LEMMA CurrentIsMessage ==
  ASSUME P!IndexerInv, NEW c \in Consumers, pc[c] = "index"
  PROVE  P!Current(c) \in Messages
<1>1. /\ topic \in Seq(Messages) /\ pos[c] \in Nat /\ pos[c] < Len(topic)
  BY DEF P!IndexerInv, P!TypeOK
<1>2. pos[c] + 1 \in 1 .. Len(topic)
  BY <1>1
<1> QED
  BY <1>1, <1>2 DEF P!Current

LEMMA WriterIndexes ==
  ASSUME NEW c \in Consumers, WriteDocument(c)
  PROVE  /\ pc[c] = "index"
         /\ indexed' = indexed \cup {P!Current(c)}
         /\ E!IndexMessage(P!Current(c))
BY DEF WriteDocument, P!IndexMessage, P!IndexRetryableError

(* Every step is one of the aliases and indices, or they see nothing of it.*)
LEMMA AliasesSee ==
  ASSUME P!IndexerInv, [SystemNext]_systemVars
  PROVE  [E!Next]_E!vars
<1>1. ASSUME NEW c \in Consumers, Member(c) PROVE [E!Next]_E!vars
  <2>1. CASE WriteDocument(c)
    BY <2>1, WriterIndexes, CurrentIsMessage DEF E!Next
  <2>2. CASE Die(c)
    BY <2>2 DEF Die, E!Next, E!Bootstrap, E!Runtimes
  <2>3. CASE UNCHANGED aliasVars
    BY <2>3 DEF aliasVars, E!vars
  <2> QED
    BY <1>1, <2>1, <2>2, <2>3 DEF Member, Subscribe, Consume
<1>2. CASE Maintain
  BY <1>2 DEF Maintain, E!Next
<1>3. CASE UNCHANGED aliasVars
  BY <1>3 DEF aliasVars, E!vars
<1> QED
  BY <1>1, <1>2, <1>3 DEF SystemNext, systemVars, RequestGoesOn, Store

-----------------------------------------------------------------------------
(* Where the components meet.                                              *)

(* Only the commit of a request stores a message, and gives it an _id of   *)
(* its own.                                                                *)
LEMMA IdsStep ==
  ASSUME A!ApiInv, IdsAgree, [SystemNext]_systemVars
  PROVE  IdsAgree'
<1>1. ASSUME NEW r \in Requests, Store(r) PROVE IdsAgree'
  <2> DEFINE i == A!MessageId(r)
  <2>1. stored' = stored \cup {i} /\ i \notin stored
    BY <1>1 DEF Store, A!Commit, A!CommitError, A!Persist
  <2> HIDE DEF i
  <2>2. PICK m \in Messages :
          /\ m \notin messages /\ messages' = messages \cup {m}
          /\ objectId' = [j \in stored' |-> IF j \in stored THEN objectId[j]
                                                            ELSE m]
    BY <1>1 DEF Store, O!CreateMessage
  <2>3. /\ objectId'[i] = m
        /\ \A j \in stored : objectId'[j] = objectId[j] /\ objectId[j] \in messages
    BY <2>1, <2>2 DEF IdsAgree
  <2>4. objectId' \in [stored' -> messages']
    BY <2>1, <2>2, <2>3
  <2>5. \A j, k \in stored' : objectId'[j] = objectId'[k] => j = k
    BY <2>1, <2>2, <2>3 DEF IdsAgree
  <2>6. \A n \in messages' : \E j \in stored' : objectId'[j] = n
    BY <2>1, <2>2, <2>3 DEF IdsAgree
  <2> QED
    BY <2>4, <2>5, <2>6 DEF IdsAgree
<1>2. CASE UNCHANGED <<stored, objectId, messages>>
  BY <1>2 DEF IdsAgree
<1>3. Forward => UNCHANGED messages
  <2>1. Elsewhere => UNCHANGED messages
    BY DEF Elsewhere, O!store, O!Expire, O!Redrive, O!RedriveBegin,
           O!RedriveFind, O!RedriveUpdate, O!RedriveAbort,
           O!Tick, O!Start, O!StartRun, O!Shutdown,
           O!Crash, O!ClaimNext, O!ClaimEnd, O!ClaimError, O!MarkPublished,
           O!MarkPublishedError, O!HandlePublishFailure,
           O!HandlePublishFailureError, O!FinishRun
  <2> QED
    BY <2>1 DEF Forward, Send, SendFails, outboxVars, O!PublishEvent,
                O!PublishError, O!store
<1> QED
  BY <1>1, <1>2, <1>3
     DEF SystemNext, systemVars, deliveryVars, outboxVars, requestVars,
         RequestGoesOn, Maintain

(* Only members write, to the index; nothing else changes what is indexed. *)
LEMMA IndicesStep ==
  ASSUME E!EsIndexAssumption, P!IndexerInv, E!AliasInv, IndicesAgree,
         [SystemNext]_systemVars
  PROVE  IndicesAgree'
<1>1. ASSUME UNCHANGED <<indexed, aliasVars>> PROVE IndicesAgree'
  BY <1>1 DEF IndicesAgree, aliasVars, E!Held, E!CopiesHeld, E!Versions
<1>2. ASSUME NEW c \in Consumers, Member(c) PROVE IndicesAgree'
  <2>1. CASE WriteDocument(c)
    BY <2>1, WriterIndexes, CurrentIsMessage, E!WriteIsHeld DEF IndicesAgree
  <2>2. CASE Die(c)
    <3>1. UNCHANGED <<indexed, docs, created, job>>
      BY <2>2 DEF Die, P!Crash, E!Stop
    <3> QED
      BY <3>1 DEF IndicesAgree, E!Held, E!CopiesHeld, E!Versions
  <2>3. CASE Subscribe(c) \/ Consume(c)
    <3>1. UNCHANGED indexed
      BY <2>3 DEF Subscribe, Consume, P!Join, P!TakeOver, P!Resume, P!Evicted,
                  P!CommitOffset, P!HandleMessage, P!IndexRejected,
                  P!PublishToDlq, P!PublishToDlqError
    <3> QED
      BY <1>1, <2>3, <3>1 DEF Subscribe, Consume
  <2> QED
    BY <1>2, <2>1, <2>2, <2>3 DEF Member
<1>3. CASE Maintain
  <2>1. UNCHANGED indexed
    BY <1>3 DEF Maintain, deliveryVars, indexerVars
  <2>2. \/ \E r \in E!Runtimes : E!Bootstrap(r)
        \/ \E x \in Reindexers : E!Reindex(x)
    BY <1>3 DEF Maintain
  <2> QED
    BY <2>1, <2>2, E!MaintenanceAddsNothing DEF IndicesAgree
<1>4. Forward => UNCHANGED indexed
  BY DEF Forward, Send, SendFails, indexerVars, P!Produce, P!Redrive,
         P!RedriveStart, P!RedriveConsume, P!RedriveRepublish,
         P!RedriveRepublishError, P!RedriveCommit, P!RedriveCommitError,
         P!RedriveStop
<1> QED
  BY <1>1, <1>2, <1>3, <1>4
     DEF SystemNext, systemVars, deliveryVars, indexerVars, RequestGoesOn, Store

(* A process joins when it is up, and leaves when it stops.                *)
LEMMA MembersStep ==
  ASSUME P!IndexerInv, E!AliasInv, MembersAreUp, [SystemNext]_systemVars
  PROVE  MembersAreUp'
<1> USE DEF E!AtBoot
<1>1. pc \in [Consumers -> {"out", "ready", "index", "dlq"}]
  BY DEF P!IndexerInv, P!TypeOK
<1>2. CASE UNCHANGED <<pc, boot>>
  BY <1>2 DEF MembersAreUp
<1>3. ASSUME NEW c \in Consumers, Member(c) PROVE MembersAreUp'
  <2>1. CASE Die(c)
    <3>1. /\ pc' = [pc EXCEPT ![c] = "out"]
          /\ \A q \in Consumers : q # c => boot'[q] = boot[q]
      <4>1. boot \in [E!Runtimes -> E!BootRecords]
        BY DEF E!AliasInv, E!TypeOK
      <4> QED
        BY <2>1, <4>1 DEF Die, P!Crash, E!Stop, E!Boot, E!Runtimes
    <3> QED
      BY <1>1, <3>1 DEF MembersAreUp
  <2>2. CASE ~Die(c)
    <3>1. UNCHANGED boot
      BY <1>3, <2>2 DEF Member, Subscribe, WriteDocument, Consume, aliasVars,
                        E!IndexMessage
    <3>2. \A q \in Consumers : q # c => pc'[q] = pc[q]
      BY <1>1, <1>3, <2>2
         DEF Member, Subscribe, WriteDocument, Consume, P!Join, P!TakeOver,
             P!Resume, P!Evicted, P!CommitOffset, P!HandleMessage,
             P!IndexMessage, P!IndexRetryableError, P!IndexRejected,
             P!PublishToDlq, P!PublishToDlqError, P!Done, P!Goto, P!group
    <3>3. E!AtBoot(c, "up") \/ pc'[c] = "out"
      <4>1. CASE Subscribe(c)
        BY <4>1 DEF Subscribe
      <4>2. CASE pc[c] # "out"
        BY <4>2 DEF MembersAreUp
      <4>3. WriteDocument(c) \/ Consume(c) => pc[c] # "out"
        BY DEF WriteDocument, Consume, P!Evicted, P!CommitOffset,
               P!HandleMessage, P!IndexMessage, P!IndexRetryableError,
               P!IndexRejected, P!PublishToDlq, P!PublishToDlqError
      <4> QED
        BY <1>3, <2>2, <4>1, <4>2, <4>3 DEF Member
    <3> QED
      BY <3>1, <3>2, <3>3 DEF MembersAreUp
  <2> QED
    BY <2>1, <2>2
<1>4. CASE Maintain
  <2>1. CASE \E x \in Reindexers : E!Reindex(x)
    <3>1. UNCHANGED boot
      BY <2>1 DEF E!Reindex, E!ResolveRead, E!ResolveWrite, E!ChooseTarget,
                  E!CountSource, E!CheckTarget, E!CreateTarget, E!Snapshot,
                  E!Copy, E!Verify, E!SwapAliases, E!Abort
    <3> QED
      BY <1>2, <1>4, <3>1 DEF Maintain, deliveryVars, indexerVars
  <2> QED
    BY <1>4, <2>1 DEF Maintain
<1>5. Forward => UNCHANGED pc
  BY DEF Forward, Send, SendFails, indexerVars, P!Produce, P!group, P!Redrive,
         P!RedriveStart, P!RedriveConsume, P!RedriveRepublish,
         P!RedriveRepublishError, P!RedriveCommit, P!RedriveCommitError,
         P!RedriveStop
<1> QED
  BY <1>2, <1>3, <1>4, <1>5
     DEF SystemNext, systemVars, deliveryVars, indexerVars, aliasVars,
         RequestGoesOn, Store

-----------------------------------------------------------------------------
(* The whole.                                                              *)

LEMMA SystemStarts ==
  ASSUME O!ConstantsAssumption, P!IndexerAssumption, A!ApiAssumption,
         E!EsIndexAssumption, SystemInit
  PROVE  SystemInv
<1>1. DeliveryInv /\ A!ApiInv /\ E!AliasInv
  BY DeliveryStarts, A!InvInit, E!InvInit DEF SystemInit
<1>2. IdsAgree
  BY DEF SystemInit, A!Init, DeliveryInit, O!Init, IdsAgree
<1>3. IndicesAgree
  BY DEF SystemInit, E!Init, E!NewJob, DeliveryInit, P!Init, IndicesAgree,
         E!Held, E!CopiesHeld
<1>4. MembersAreUp
  BY DEF SystemInit, DeliveryInit, P!Init, MembersAreUp
<1> QED
  BY <1>1, <1>2, <1>3, <1>4 DEF SystemInv

LEMMA SystemSteps ==
  ASSUME O!ConstantsAssumption, P!IndexerAssumption, A!ApiAssumption,
         E!EsIndexAssumption, SystemInv, [SystemNext]_systemVars
  PROVE  SystemInv'
<1>1. P!IndexerInv
  BY DEF SystemInv, DeliveryInv, P!PipelineInv
<1>2. DeliveryInv' /\ A!ApiInv' /\ E!AliasInv'
  BY <1>1, DeliverySees, DeliverySteps, RequestsSee, A!InvNext, AliasesSee,
     E!InvNext DEF SystemInv
<1>3. IdsAgree' /\ IndicesAgree' /\ MembersAreUp'
  BY <1>1, IdsStep, IndicesStep, MembersStep DEF SystemInv
<1> QED
  BY <1>2, <1>3 DEF SystemInv

(* The invariants of the components, and what links their states, hold     *)
(* together in every reachable state of the whole.                         *)
THEOREM SystemInvariant ==
  ASSUME O!ConstantsAssumption, P!IndexerAssumption, A!ApiAssumption,
         E!EsIndexAssumption
  PROVE  SystemSpec => []SystemInv
<1>1. SystemInit => SystemInv
  BY SystemStarts
<1>2. SystemInv /\ [SystemNext]_systemVars => SystemInv'
  BY SystemSteps
<1> QED
  BY <1>1, <1>2, PTL DEF SystemSpec

(* Every component behaves in the system as it does alone, so that all     *)
(* that is proved of a module holds of its part of the whole: the API,     *)
(* the delivery path with the outbox in it, the aliases and indices.       *)
THEOREM SystemRunsComponents ==
  ASSUME O!ConstantsAssumption, P!IndexerAssumption, A!ApiAssumption,
         E!EsIndexAssumption
  PROVE  SystemSpec => A!Spec /\ DeliverySpec /\ O!Spec /\ E!Spec
<1>1. SystemInit => A!Init /\ DeliveryInit /\ O!Init /\ E!Init
  BY DEF SystemInit, DeliveryInit
<1>2. [SystemNext]_systemVars => [A!Next]_A!vars /\ [DeliveryNext]_deliveryVars
  BY RequestsSee, DeliverySees
<1>3. SystemInv /\ [SystemNext]_systemVars => [O!Next]_O!vars
  BY DeliverySees, OutboxSees DEF SystemInv, DeliveryInv, P!PipelineInv
<1>4. SystemInv /\ [SystemNext]_systemVars => [E!Next]_E!vars
  BY AliasesSee DEF SystemInv, DeliveryInv, P!PipelineInv
<1> QED
  BY <1>1, <1>2, <1>3, <1>4, SystemInvariant, PTL
     DEF SystemSpec, A!Spec, DeliverySpec, O!Spec, E!Spec

(* From the commit of a message to its document: whatever requests,        *)
(* publishers, indexers and commands do, stall, repeat or leave undone, a  *)
(* message moves as module Journey promises.                               *)
THEOREM SystemKeepsPromise ==
  ASSUME O!ConstantsAssumption, P!IndexerAssumption, A!ApiAssumption,
         E!EsIndexAssumption
  PROVE  SystemSpec => P!KeepsPromise
BY SystemRunsComponents, DeliveryImplementsPipeline, P!PromiseKept, PTL

(* A client that was told 201 has a message that is under way, or rests    *)
(* where an operator finds it, or is in an index; nor is any other         *)
(* committed message ever between two stores.                              *)
THEOREM CreatedNeverLost ==
  ASSUME O!ConstantsAssumption, P!IndexerAssumption, A!ApiAssumption,
         E!EsIndexAssumption
  PROVE  SystemSpec => [](CreatedIsNeverLost /\ MessagesAccountedFor)
<1>1. SystemInv => MessagesAccountedFor
  BY AllAccountedFor DEF SystemInv
<1>2. ASSUME SystemInv, MessagesAccountedFor PROVE CreatedIsNeverLost
  <2> SUFFICES ASSUME NEW r \in Requests, response[r].status = 201
               PROVE  LET i == [by |-> r, attempt |-> response[r].attempt]
                      IN /\ i \in stored
                         /\ AccountedFor(objectId[i])
                         /\ objectId[i] \in indexed =>
                              \E v \in created : objectId[i] \in docs[v]
    BY DEF CreatedIsNeverLost
  <2> DEFINE i == [by |-> r, attempt |-> response[r].attempt]
  <2>1. i \in stored
    BY <1>2 DEF SystemInv, A!ApiInv, A!CreatedIsStored
  <2>2. objectId[i] \in messages
    BY <1>2, <2>1 DEF SystemInv, IdsAgree
  <2>3. objectId[i] \in indexed => \E v \in created : objectId[i] \in docs[v]
    BY <1>2 DEF SystemInv, IndicesAgree, E!Held
  <2> QED
    BY <1>2, <2>1, <2>2, <2>3 DEF MessagesAccountedFor
<1> QED
  BY <1>1, <1>2, SystemInvariant, PTL

(* Search shows what authenticated clients have sent, and each message of  *)
(* theirs once, whatever is repeated on the way.                           *)
THEOREM SearchIsTrue ==
  ASSUME O!ConstantsAssumption, P!IndexerAssumption, A!ApiAssumption,
         E!EsIndexAssumption
  PROVE  SystemSpec => []SearchShowsRequests
<1>1. ASSUME SystemInv PROVE SearchShowsRequests
  <2>1. E!Searchable \subseteq messages
    <3>1. E!Searchable \subseteq indexed
      BY <1>1 DEF SystemInv, E!AliasInv, E!TypeOK, IndicesAgree, E!Searchable,
                  E!Held
    <3>2. indexed \subseteq messages
      BY <1>1, AllAccountedFor DEF SystemInv, MessagesAccountedFor
    <3> QED
      BY <3>1, <3>2
  <2>2. ASSUME NEW m \in E!Searchable
        PROVE  \E i \in stored : /\ objectId[i] = m
                                 /\ input[i.by].endpoint = "create"
                                 /\ input[i.by].key /\ input[i.by].body = "valid"
                                 /\ response[i.by].status \notin {400, 401}
    BY <1>1, <2>1 DEF SystemInv, IdsAgree, A!ApiInv, A!OnlyAcceptedStored
  <2>3. ASSUME NEW i \in stored, NEW j \in stored, i.by = j.by
        PROVE  i = j
    BY <1>1, <2>3, A!OneNow DEF SystemInv, A!OnePerRequest
  <2> QED
    BY <2>2, <2>3 DEF SearchShowsRequests
<1> QED
  BY <1>1, SystemInvariant, PTL

(* A member of the group that is about to write finds a write alias.       *)
THEOREM WritersHaveAlias ==
  ASSUME O!ConstantsAssumption, P!IndexerAssumption, A!ApiAssumption,
         E!EsIndexAssumption
  PROVE  SystemSpec => []WritersFindAlias
<1>1. SystemInv => WritersFindAlias
  BY DEF SystemInv, MembersAreUp, WritersFindAlias, E!AliasInv,
         E!AliasesTogether, E!BootKnows, E!Runtimes
<1> QED
  BY <1>1, SystemInvariant, PTL

(* An indexed message stays searchable but for one case, also with all     *)
(* processes at work: it is hidden by the swap of a reindex that has       *)
(* neither counted nor copied it, and is still in an index that exists.    *)
THEOREM HiddenByReindexOnly ==
  ASSUME O!ConstantsAssumption, P!IndexerAssumption, A!ApiAssumption,
         E!EsIndexAssumption
  PROVE  SystemSpec => E!OnlyUnseenHidden
BY SystemRunsComponents, E!OnlyUnseenIsHidden, PTL

===============================================================================
