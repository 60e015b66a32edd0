---------------------------- MODULE PipelineProofs ----------------------------
(* Proofs about the delivery pipeline: its invariant, and that it keeps    *)
(* the promise that module Journey states.                                 *)
EXTENDS Pipeline, IndexerProofs

LEMMA InTopicDef ==
  ASSUME TypeOK, NEW m
  PROVE  m \in InTopic <=> \E o \in 1 .. Len(topic) : topic[o] = m
BY DEF InTopic

(* What a step of the pipeline does to the outbox's view of a message.     *)
PhaseMoves ==
    {<<"none", "waiting">>, <<"waiting", "confirmed">>,
     <<"waiting", "given_up">>, <<"given_up", "waiting">>,
     <<"confirmed", "purged">>}

PhaseType == phase \in [Messages -> Contract!Phases]

LEMMA MoveStep ==
  ASSUME PhaseType, NEW e \in Messages, NEW from, NEW to \in Contract!Phases,
         Contract!Move(e, from, to)
  PROVE  /\ PhaseType'
         /\ phase[e] = from /\ phase'[e] = to
         /\ \A m \in Messages \ {e} : phase'[m] = phase[m]
BY DEF PhaseType, Contract!Move

(* A step of the outbox alone.                                             *)
OutboxStep ==
    \E m \in Messages : Accept(m) \/ Settle(m) \/ TakeUp(m) \/ Purge(m)

LEMMA OutboxMoves ==
  ASSUME PhaseType, OutboxStep
  PROVE  /\ UNCHANGED vars /\ PhaseType'
         /\ \A m \in Messages :
              \/ phase'[m] = phase[m]
              \/ /\ <<phase[m], phase'[m]>> \in PhaseMoves
                 /\ phase'[m] = "confirmed" => m \in InTopic
<1>1. PICK e \in Messages : Accept(e) \/ Settle(e) \/ TakeUp(e) \/ Purge(e)
  BY DEF OutboxStep
<1>2. UNCHANGED vars
  BY <1>1 DEF Accept, Settle, TakeUp, Purge
<1>3. PICK from \in Contract!Phases, to \in Contract!Phases :
        /\ Contract!Move(e, from, to)
        /\ <<from, to>> \in PhaseMoves
        /\ to = "confirmed" => e \in InTopic
  <2>1. CASE Accept(e)
    BY <2>1 DEF Accept, Contract!Accept, Contract!Phases, PhaseMoves
  <2>2. CASE Settle(e)
    BY <2>2 DEF Settle, Contract!Confirm, Contract!GiveUp, Contract!Phases, PhaseMoves
  <2>3. CASE TakeUp(e)
    BY <2>3 DEF TakeUp, Contract!TakeUp, Contract!Phases, PhaseMoves
  <2>4. CASE Purge(e)
    BY <2>4 DEF Purge, Contract!Purge, Contract!Phases, PhaseMoves
  <2> QED
    BY <1>1, <2>1, <2>2, <2>3, <2>4
<1>4. /\ PhaseType' /\ phase[e] = from /\ phase'[e] = to
      /\ \A m \in Messages \ {e} : phase'[m] = phase[m]
  BY <1>3, MoveStep
<1> QED
  BY <1>2, <1>3, <1>4

-----------------------------------------------------------------------------
(* Every step is one of the outbox alone, a delivery, or one of the        *)
(* topic's other clients.                                                  *)
LEMMA PipelineSteps ==
  ASSUME [PipelineNext]_pipeline
  PROVE  /\ [Next]_vars
         /\ \/ OutboxStep
            \/ \E m \in Messages : Deliver(m)
            \/ (Group \/ Redrive \/ UNCHANGED vars) /\ phase' = phase
<1>1. CASE UNCHANGED pipeline
  BY <1>1 DEF pipeline
<1>2. CASE \E m \in Messages :
             Accept(m) \/ Settle(m) \/ TakeUp(m) \/ Purge(m) \/ Deliver(m)
  <2>1. PICK m \in Messages :
             Accept(m) \/ Settle(m) \/ TakeUp(m) \/ Purge(m) \/ Deliver(m)
    BY <1>2
  <2>2. CASE Deliver(m)
    <3>1. Next
      BY <2>2 DEF Next, Deliver
    <3> QED
      BY <2>2, <3>1
  <2>3. CASE Accept(m) \/ Settle(m) \/ TakeUp(m) \/ Purge(m)
    <3>1. OutboxStep /\ UNCHANGED vars
      BY <2>3 DEF OutboxStep, Accept, Settle, TakeUp, Purge
    <3> QED
      BY <3>1
  <2> QED
    BY <2>1, <2>2, <2>3
<1>3. CASE (Group \/ Redrive) /\ UNCHANGED phase
  BY <1>3 DEF Next
<1> QED
  BY <1>1, <1>2, <1>3 DEF PipelineNext

(* A member changes the index by the event of the record in hand, and no   *)
(* log but the DLQ.                                                        *)
LEMMA GroupStep ==
  ASSUME Group
  PROVE  /\ UNCHANGED topic
         /\ \/ indexed' = indexed
            \/ \E c \in Consumers : /\ pc[c] = "index"
                                   /\ indexed' = indexed \cup {Current(c)}
<1>1. PICK c \in Consumers :
        Join(c) \/ TakeOver(c) \/ Evicted(c) \/ Crash(c) \/ Work(c)
  BY DEF Group
<1>2. CASE Join(c) \/ TakeOver(c) \/ Evicted(c) \/ Crash(c)
  BY <1>2 DEF Join, TakeOver, Resume, Evicted, Crash
<1>3. CASE Work(c)
  BY <1>3 DEF Work, CommitOffset, HandleMessage, IndexMessage, IndexRetryableError,
              IndexRejected, PublishToDlq, PublishToDlqError
<1> QED
  BY <1>1, <1>2, <1>3

(* dlq:redrive changes the topic by the event of a dead letter.            *)
LEMMA RedriveStep ==
  ASSUME Redrive
  PROVE  /\ UNCHANGED <<indexed, dlq>>
         /\ \/ topic' = topic
            \/ /\ cli.step = "republish"
               /\ topic' = Append(topic, dlq[cli.pos + 1].msg)
BY DEF Redrive, RedriveStart, RedriveConsume, RedriveRepublish, RedriveRepublishError,
       RedriveCommit, RedriveCommitError, RedriveStop

(* Appending an event adds it to the topic's events.                       *)
LEMMA AppendInTopic ==
  ASSUME TypeOK, NEW m \in Messages, topic' = Append(topic, m)
  PROVE  InTopic' = InTopic \cup {m}
<1>1. /\ Len(topic') = Len(topic) + 1 /\ topic'[Len(topic) + 1] = m
      /\ \A o \in 1 .. Len(topic) : topic'[o] = topic[o]
      /\ Len(topic) \in Nat
  BY AppendGrows, Sizes DEF TypeOK
<1>2. 1 .. Len(topic') = 1 .. Len(topic) \cup {Len(topic) + 1}
  BY <1>1
<1> QED
  BY <1>1, <1>2 DEF InTopic

(* The group and dlq:redrive put nothing into the topic that was not in it *)
(* before, and make nothing searchable that is not.                        *)
LEMMA OthersAddNothing ==
  ASSUME IndexerInv, Group \/ Redrive
  PROVE  /\ InTopic' = InTopic
         /\ indexed \subseteq indexed'
         /\ indexed' \subseteq indexed \cup InTopic
<1> USE DEF IndexerInv
<1>1. CASE Group
  <2>1. InTopic' = InTopic
    BY <1>1, GroupStep DEF InTopic
  <2>2. ASSUME NEW c \in Consumers, pc[c] = "index" PROVE Current(c) \in InTopic
    <3>1. pos[c] + 1 \in 1 .. Len(topic)
      BY <2>2, Sizes DEF TypeOK
    <3> QED
      BY <3>1 DEF InTopic, Current
  <2> QED
    BY <1>1, <2>1, <2>2, GroupStep
<1>2. CASE Redrive
  <2>1. CASE topic' = topic
    BY <1>2, <2>1, RedriveStep DEF InTopic
  <2>2. CASE /\ cli.step = "republish"
             /\ topic' = Append(topic, dlq[cli.pos + 1].msg)
    <3> DEFINE m == dlq[cli.pos + 1].msg
    <3>1. cli.pos + 1 \in 1 .. Len(dlq)
      BY <2>2, CliFitsNow DEF CliFits, CliType
    <3>2. m \in Messages /\ m \in InTopic
      <4>1. dlq[cli.pos + 1] \in Record
        BY <3>1, Sizes
      <4>2. /\ dlq[cli.pos + 1].offset \in 1 .. Len(topic)
            /\ topic[dlq[cli.pos + 1].offset] = m
        BY <3>1 DEF DeadLettersFaithful
      <4> QED
        BY <4>1, <4>2 DEF Record, InTopic
    <3>3. InTopic' = InTopic
      BY <2>2, <3>2, AppendInTopic
    <3> QED
      BY <1>2, <3>3, RedriveStep
  <2> QED
    BY <1>2, <2>1, <2>2, RedriveStep
<1> QED
  BY <1>1, <1>2

(* The topic and the index grow together, by what the outbox has accepted. *)
LEMMA TopicGrows ==
  ASSUME PipelineInv, [PipelineNext]_pipeline
  PROVE  /\ InTopic \subseteq InTopic' /\ indexed \subseteq indexed'
         /\ indexed' \subseteq InTopic'
         /\ \/ InTopic' = InTopic
            \/ \E m \in Messages : Deliver(m) /\ InTopic' = InTopic \cup {m}
<1>1. IndexerInv /\ indexed \subseteq InTopic
  BY DEF PipelineInv, IndexerInv, StoresAgree, TypeOK
<1>2. CASE OutboxStep \/ UNCHANGED vars
  <2>1. UNCHANGED <<topic, indexed>>
    BY <1>2, OutboxMoves DEF vars, PhaseType, PipelineInv
  <2> QED
    BY <1>1, <2>1 DEF InTopic
<1>3. ASSUME NEW m \in Messages, Deliver(m)
      PROVE  InTopic' = InTopic \cup {m} /\ indexed' = indexed
  BY <1>1, <1>3, AppendInTopic DEF Deliver, Produce, IndexerInv
<1>4. CASE Group \/ Redrive
  BY <1>1, <1>4, OthersAddNothing
<1> QED
  BY <1>1, <1>2, <1>3, <1>4, PipelineSteps

-----------------------------------------------------------------------------
LEMMA PipelineInvInit == PipelineInit => PipelineInv
<1> SUFFICES ASSUME PipelineInit PROVE PipelineInv
  OBVIOUS
<1>1. IndexerInv
  BY InvInit DEF PipelineInit
<1>2. InTopic = {} /\ indexed = {}
  BY DEF PipelineInit, Init, InTopic
<1>3. \A m \in Messages : phase[m] = "none"
  BY DEF PipelineInit, Contract!Init
<1> QED
  BY <1>1, <1>2, <1>3
     DEF PipelineInv, StoresAgree, PipelineInit, Contract!Init, Contract!Phases

LEMMA PipelineInvNext ==
  ASSUME PipelineInv, [PipelineNext]_pipeline PROVE PipelineInv'
<1>1. IndexerInv'
  BY PipelineSteps, InvNext DEF PipelineInv
<1>2. /\ InTopic \subseteq InTopic' /\ indexed' \subseteq InTopic'
      /\ \/ InTopic' = InTopic
         \/ \E m \in Messages : Deliver(m) /\ InTopic' = InTopic \cup {m}
  BY TopicGrows
<1>3. CASE OutboxStep
  <2>1. /\ PhaseType' /\ UNCHANGED vars
        /\ \A m \in Messages :
             \/ phase'[m] = phase[m]
             \/ /\ <<phase[m], phase'[m]>> \in PhaseMoves
                /\ phase'[m] = "confirmed" => m \in InTopic
    BY <1>3, OutboxMoves DEF PhaseType, PipelineInv
  <2>2. InTopic' = InTopic
    BY <2>1 DEF vars, InTopic
  <2> QED
    BY <1>1, <1>2, <2>1, <2>2 DEF PhaseMoves, PhaseType, PipelineInv, StoresAgree
<1>4. CASE ~OutboxStep
  <2>1. phase' = phase
    BY <1>4, PipelineSteps DEF Deliver, Contract!Deliver
  <2>2. \A m \in Messages : Deliver(m) => phase[m] # "none"
    BY DEF Deliver, Contract!Deliver
  <2> QED
    BY <1>1, <1>2, <2>1, <2>2 DEF PipelineInv, StoresAgree
<1> QED
  BY <1>3, <1>4

(* Outbox, topic and index agree, in every state of the whole pipeline.    *)
THEOREM PipelineInvariant == PipelineSpec => []PipelineInv
BY PipelineInvInit, PipelineInvNext, PTL DEF PipelineSpec

-----------------------------------------------------------------------------
(* The promise.                                                            *)
(* The fates a message can have, by what the components know of it.        *)
FateFacts(m) ==
    /\ Fate(m) = "none" <=> phase[m] = "none"
    /\ Fate(m) = "searchable" <=> m \in indexed
    /\ Fate(m) = "failed" => phase[m] = "given_up"
    /\ Fate(m) = "skipped" =>
         phase[m] \in {"confirmed", "purged"} /\ Kind[m] = "unknown"
    /\ phase[m] # "none" =>
         Fate(m) \in {"searchable", "dead_letter", "under_way"}
           \cup (IF m \notin InTopic THEN {"failed"}
                 ELSE IF Kind[m] = "unknown" THEN {"failed", "skipped"} ELSE {})
    /\ Fate(m) = "dead_letter" => m \in InTopic /\ Kind[m] # "unknown"
    /\ Fate(m) = "searchable" => m \in InTopic /\ Kind[m] = "valid"

LEMMA FateIs == PipelineInv => \A m \in Messages : FateFacts(m)
<1> SUFFICES ASSUME PipelineInv, NEW m \in Messages PROVE FateFacts(m)
  OBVIOUS
<1> USE DEF FateFacts
<1> USE DEF PipelineInv
<1>1. phase[m] \in {"none", "waiting", "confirmed", "given_up", "purged"}
  BY DEF Contract!Phases
<1>2. m \in indexed => m \in InTopic /\ phase[m] # "none" /\ Kind[m] = "valid"
  BY DEF StoresAgree, IndexerInv, KindsRespected
<1>3. DeadLettered(m) => m \in InTopic /\ Kind[m] # "unknown"
  <2> SUFFICES ASSUME NEW d \in PendingDeadLetters, dlq[d].msg = m
               PROVE  m \in InTopic /\ Kind[m] # "unknown"
    BY DEF DeadLettered
  <2>1. d \in 1 .. Len(dlq)
    BY Sizes DEF PendingDeadLetters, IndexerInv
  <2> QED
    BY <2>1 DEF IndexerInv, DeadLettersFaithful, KindsRespected, InTopic
<1>4. m \in InTopic =>
        Kind[m] = "unknown" \/ m \in indexed \/ ToBeConsumed(m) \/ DeadLettered(m)
  BY NothingLostNow DEF NoEventLost, InTopic, ToBeConsumed, DeadLettered
<1>5. phase[m] \in {"confirmed", "purged"} => m \in InTopic
  BY DEF StoresAgree
<1>6. CASE phase[m] = "none"
  <2>1. Fate(m) = "none"
    BY <1>6 DEF Fate
  <2> QED
    BY <1>2, <1>6, <2>1
<1>7. CASE phase[m] # "none" /\ m \in indexed
  <2>1. Fate(m) = "searchable"
    BY <1>7 DEF Fate
  <2> QED
    BY <1>2, <1>7, <2>1
<1>8. CASE phase[m] # "none" /\ m \notin indexed
  <2>1. Fate(m) = IF DeadLettered(m) THEN "dead_letter"
                  ELSE IF phase[m] = "waiting" \/ ToBeConsumed(m) THEN "under_way"
                  ELSE IF phase[m] = "given_up" THEN "failed"
                  ELSE IF Kind[m] = "unknown" THEN "skipped" ELSE "lost"
    BY <1>8 DEF Fate
  <2> QED
    BY <1>1, <1>3, <1>4, <1>5, <1>8, <2>1
<1> QED
  BY <1>6, <1>7, <1>8

LEMMA FateIsNext == PipelineInv' => (\A m \in Messages : FateFacts(m))'
BY FateIs, PTL

(* A message that a publisher has just sent is under way.                  *)
LEMMA DeliveredIsUnderWay ==
  ASSUME PipelineInv, NEW m \in Messages, m \notin InTopic, Deliver(m)
  PROVE  Fate(m)' = "under_way"
<1> USE DEF PipelineInv, IndexerInv
<1>1. /\ topic' = Append(topic, m) /\ phase' = phase /\ phase[m] # "none"
      /\ UNCHANGED <<indexed, dlq, committed, dlqCommitted>>
  BY DEF Deliver, Produce, Contract!Deliver, redriver
<1>2. /\ Len(topic') = Len(topic) + 1 /\ topic'[Len(topic) + 1] = m
      /\ Len(topic) \in Nat /\ committed \in 0 .. Len(topic)
  BY <1>1, AppendGrows, Sizes DEF TypeOK
<1>3. ToBeConsumed(m)'
  BY <1>1, <1>2 DEF ToBeConsumed
<1>4. m \notin indexed /\ ~DeadLettered(m)
  <2>1. m \notin indexed
    BY DEF StoresAgree
  <2>2. ASSUME NEW d \in PendingDeadLetters, dlq[d].msg = m PROVE FALSE
    <3>1. d \in 1 .. Len(dlq)
      BY Sizes DEF PendingDeadLetters
    <3> QED
      BY <2>2, <3>1 DEF DeadLettersFaithful, InTopic
  <2> QED
    BY <2>1, <2>2 DEF DeadLettered
<1>5. m \notin indexed' /\ ~DeadLettered(m)'
  BY <1>1, <1>4 DEF DeadLettered, PendingDeadLetters
<1> QED
  BY <1>1, <1>3, <1>5 DEF Fate

LEMMA FateMoves ==
  ASSUME PipelineInv, PipelineInv', [PipelineNext]_pipeline, NEW m \in Messages,
         Fate(m)' # Fate(m)
  PROVE  <<Fate(m), Fate(m)'>> \in Promise!Moves(m)
<1>1. /\ InTopic \subseteq InTopic' /\ indexed \subseteq indexed'
      /\ InTopic' = InTopic \/ \E e \in Messages :
                                 Deliver(e) /\ InTopic' = InTopic \cup {e}
  BY TopicGrows
<1>2. phase'[m] = phase[m] \/ <<phase[m], phase'[m]>> \in PhaseMoves
  BY PipelineSteps, OutboxMoves DEF PipelineInv, PhaseType, Deliver, Contract!Deliver
<1>3. (phase[m] = "none" => phase'[m] \in {"none", "waiting"})
      /\ (phase'[m] = "none" => phase[m] = "none")
      /\ (phase[m] \in {"confirmed", "purged"} => phase'[m] # "given_up")
      /\ (phase[m] = "given_up" => phase'[m] \in {"given_up", "waiting"})
  BY <1>2 DEF PhaseMoves
<1>4. Promise!Moves(m) =
        {<<"none", "under_way">>, <<"under_way", "failed">>,
         <<"failed", "under_way">>, <<"dead_letter", "under_way">>}
        \cup (IF Kind[m] = "valid"
              THEN {"under_way", "dead_letter"} \X {"searchable"} ELSE {})
        \cup (IF Kind[m] = "unknown"
              THEN {<<"under_way", "skipped">>, <<"skipped", "under_way">>}
              ELSE {<<"under_way", "dead_letter">>})
  BY DEF Promise!Moves
<1> DEFINE from == Fate(m)
           to == Fate(m)'
<1>5. CASE m \notin InTopic /\ m \in InTopic'
  <2>1. to = "under_way"
    BY <1>1, <1>5, DeliveredIsUnderWay
  <2>2. from \in {"none", "failed", "under_way"}
    BY <1>5, FateIs DEF FateFacts
  <2> HIDE DEF from, to
  <2>3. from # to
    BY DEF from, to
  <2> QED
    BY <1>4, <2>1, <2>2, <2>3 DEF from, to
<1>6. CASE ~(m \notin InTopic /\ m \in InTopic')
  <2>1. FateFacts(m)
    BY FateIs
  <2>2. FateFacts(m)'
    BY FateIsNext
  <2>3. m \in InTopic <=> m \in InTopic'
    BY <1>1, <1>6
  <2>4. from = "searchable" => to = "searchable"
    BY <1>1, <2>1, <2>2 DEF FateFacts
  <2>5. phase[m] # "none" => phase'[m] # "none"
    BY <1>3
  <2>6. CASE phase[m] = "none"
    <3>1. from = "none" /\ m \notin InTopic
      BY <2>1, <2>6 DEF FateFacts, PipelineInv, StoresAgree
    <3>2. phase'[m] = "waiting"
      BY <1>3, <2>1, <2>2, <2>6 DEF FateFacts
    <3>3. to = "under_way"
      BY <2>2, <2>3, <3>1, <3>2 DEF FateFacts
    <3> QED
      BY <1>4, <3>1, <3>3
  <2>7. CASE phase[m] # "none"
    <3> DEFINE fates == {"searchable", "dead_letter", "under_way"}
                  \cup (IF m \notin InTopic THEN {"failed"}
                        ELSE IF Kind[m] = "unknown" THEN {"failed", "skipped"} ELSE {})
    <3>1. from \in fates /\ to \in fates
      BY <2>1, <2>2, <2>3, <2>5, <2>7 DEF FateFacts
    <3>2. /\ ~(from = "failed" /\ to = "skipped")
          /\ ~(from = "skipped" /\ to = "failed")
      BY <1>3, <2>1, <2>2 DEF FateFacts
    <3>3. /\ "searchable" \in {from, to} => m \in InTopic /\ Kind[m] = "valid"
          /\ "dead_letter" \in {from, to} => m \in InTopic /\ Kind[m] # "unknown"
      BY <2>1, <2>2, <2>3 DEF FateFacts
    <3> HIDE DEF from, to
    <3>4. from # to
      BY DEF from, to
    <3>5. <<from, to>> \in Promise!Moves(m)
      BY <1>4, <2>4, <3>1, <3>2, <3>3, <3>4
    <3> QED
      BY <3>5 DEF from, to
  <2> QED
    BY <2>6, <2>7
<1> QED
  BY <1>5, <1>6

(* The pipeline keeps the promise of module Journey: whatever processes    *)
(* die, stall or write twice, a message is never lost between the stores,  *)
(* and what is searchable stays so.                                        *)
THEOREM PromiseKept == PipelineSpec => KeepsPromise
<1>1. PipelineInit => Promise!Init
  BY DEF PipelineInit, Contract!Init, Promise!Init, Fate
<1>2. PipelineInv /\ PipelineInv' /\ [PipelineNext]_pipeline
        => [Promise!Next]_([m \in Messages |-> Fate(m)])
  BY FateMoves DEF Promise!Next
<1> QED
  BY <1>1, <1>2, PipelineInvariant, PTL DEF PipelineSpec, KeepsPromise, Promise!Spec

===============================================================================
