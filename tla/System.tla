-------------------------------- MODULE System --------------------------------
(***************************************************************************)
(* The components at work together, each by its own module, at the places  *)
(* where they meet:                                                        *)
(*                                                                         *)
(*   - the commit of a POST /messages (ApiRequest) is the message and the  *)
(*     pending row of the outbox (Outbox);                                 *)
(*   - what a publisher sends (Outbox) is a record at the end of the topic *)
(*     (SearchIndexer);                                                    *)
(*   - what a member of the indexer group writes (SearchIndexer) goes to   *)
(*     the index behind the write alias (EsIndex);                         *)
(*   - a member of the group is a process whose bootstrap of the aliases   *)
(*     succeeded (EsIndex), and stops with it.                             *)
(*                                                                         *)
(* All else is a step of one component that the others do not see.         *)
(***************************************************************************)
EXTENDS Integers, Sequences

CONSTANTS
    Messages,       \* messages, their outbox rows and their events, by _id
    Instances, Operators, BatchSize, MaxAttempts, LockTimeout, BaseRetryDelay,
    MaxRetryDelay, NoPublisher, MaxReplicas, MaxSkew, CommitLag,
    MaxOutboxFaults, MaxClock,                      \* as in Outbox
    Kind, Consumers, NoOwner, MaxIndexAttempts, Limit, MaxProduced,
    MaxFaults, MaxRedrives,                         \* as in SearchIndexer
    Requests, Headers, NoId, MaxApiFaults,          \* as in ApiRequest
    Apis, Reindexers, MaxVersion                    \* as in EsIndex

VARIABLES
    clock, messages, outbox, publisherPc, stopping, now, batch, redrive,
    outboxFaults,                                   \* of Outbox
    topic, dlq, indexed, committed, owner, pc, pos, attempt, dlqCommitted,
    cli, redrives, faults,                          \* of SearchIndexer
    input, stage, context, callbackRun, stored, rows, response,
    apiFaults,                                      \* of ApiRequest
    objectId,       \* the _id of each message that a request has stored
    created, docs, readAlias, writeAlias, boot, job \* of EsIndex

(* What publishers have delivered is what is in the topic.                 *)
Sent == {topic[o] : o \in 1 .. Len(topic)}

O == INSTANCE OutboxProofs
       WITH Rows <- Messages, NoOwner <- NoPublisher, delivered <- Sent,
            MaxFaults <- MaxOutboxFaults, pc <- publisherPc,
            faults <- outboxFaults

(* The pipeline, with the phase of each message as the outbox has it.      *)
P == INSTANCE PipelineProofs WITH phase <- O!phase

A == INSTANCE ApiProofs
       WITH attempt <- callbackRun, messages <- stored,
            MaxFaults <- MaxApiFaults, faults <- apiFaults

E == INSTANCE EsProofs WITH Docs <- Messages, Workers <- Consumers

outboxVars == <<clock, messages, outbox, publisherPc, stopping, now, batch,
                redrive, outboxFaults>>

indexerVars == <<topic, dlq, indexed, committed, owner, pc, pos, attempt,
                 dlqCommitted, cli, redrives, faults>>

deliveryVars == <<outboxVars, indexerVars>>

requestVars == <<input, stage, context, callbackRun, stored, rows, response,
                 apiFaults, objectId>>

aliasVars == <<created, docs, readAlias, writeAlias, boot, job>>

systemVars == <<deliveryVars, requestVars, aliasVars>>

-----------------------------------------------------------------------------
(* The delivery path: outbox and publishers, topic, group and dlq:redrive. *)
(* Module Pipeline has the contract of the outbox in the outbox's place.   *)

(* A publisher sends the event in its hand, and the broker acknowledges it.*)
Send(i) ==
    /\ batch[i] # <<>>
    /\ P!Produce(O!Event(i).id)
    /\ O!PublishEvent(i)

(* The send fails, and the record may be in the topic all the same.        *)
SendFails(i) ==
    /\ batch[i] # <<>>
    /\ P!Produce(O!Event(i).id) \/ UNCHANGED indexerVars
    /\ O!PublishError(i)

(* The other steps of the outbox: of a publisher, the TTL index,           *)
(* outbox:redrive, and time.                                               *)
Elsewhere ==
    \/ \E i \in Instances :
         \/ O!Start(i) \/ O!StartRun(i) \/ O!Shutdown(i) \/ O!Crash(i)
         \/ O!ClaimNext(i) \/ O!ClaimEnd(i) \/ O!ClaimError(i)
         \/ O!MarkPublished(i) \/ O!MarkPublishedError(i)
         \/ O!HandlePublishFailure(i) \/ O!HandlePublishFailureError(i)
         \/ O!FinishRun(i)
    \/ \E m \in Messages : O!Expire(m)
    \/ \E o \in Operators : O!Redrive(o)
    \/ O!Tick

(* What goes on between the API and the index.                             *)
Forward ==
    \/ \E i \in Instances : Send(i) \/ SendFails(i)
    \/ UNCHANGED indexerVars /\ Elsewhere
    \/ P!Redrive /\ UNCHANGED outboxVars

DeliveryInit == P!Init /\ O!Init

DeliveryNext ==
    \/ Forward
    \/ \E m \in Messages : UNCHANGED indexerVars /\ O!CreateMessage(m)
    \/ P!Group /\ UNCHANGED outboxVars

DeliverySpec == DeliveryInit /\ [][DeliveryNext]_deliveryVars

-----------------------------------------------------------------------------
(* The API in front of it.                                                 *)

(* The transaction of a request is committed: its message is there, and a  *)
(* pending row, under an _id that the driver has drawn.                    *)
Store(r) ==
    /\ A!Commit(r) \/ A!CommitError(r)
    /\ stored' # stored
    /\ UNCHANGED <<indexerVars, aliasVars>>
    /\ \E m \in Messages :
         /\ O!CreateMessage(m)
         /\ objectId' = [i \in stored' |-> IF i \in stored THEN objectId[i]
                                                           ELSE m]

(* Every other step of a request; a commit that is repeated adds nothing.  *)
RequestGoesOn ==
    /\ A!Crash \/ \E r \in Requests : A!Arrive(r) \/ A!Step(r)
    /\ UNCHANGED <<stored, objectId, deliveryVars, aliasVars>>

-----------------------------------------------------------------------------
(* The group and the index behind it.                                      *)

(* The members of the group are processes that are up.                     *)
MembersAreUp == \A c \in Consumers : pc[c] # "out" => E!AtBoot(c, "up")

Subscribe(c) ==
    /\ E!AtBoot(c, "up")
    /\ P!Join(c) \/ P!TakeOver(c)
    /\ UNCHANGED aliasVars

(* The document is written through the alias; the response may get lost.   *)
WriteDocument(c) ==
    /\ \/ P!IndexMessage(c)
       \/ /\ P!IndexRetryableError(c)
          /\ Kind[P!Current(c)] = "valid"
          /\ indexed' = indexed \cup {P!Current(c)}
    /\ E!IndexMessage(P!Current(c))

(* The other steps of a member leave the index alone.                      *)
Consume(c) ==
    /\ \/ P!Evicted(c)
       \/ P!CommitOffset(c)
       \/ P!HandleMessage(c)
       \/ P!IndexRetryableError(c) /\ UNCHANGED indexed
       \/ P!IndexRejected(c)
       \/ P!PublishToDlq(c)
       \/ P!PublishToDlqError(c)
    /\ UNCHANGED aliasVars

(* A process that dies or is stopped leaves the group.                     *)
Die(c) == P!Crash(c) /\ E!Stop(c)

Member(c) == Subscribe(c) \/ WriteDocument(c) \/ Consume(c) \/ Die(c)

(* Processes start, or stop that are in no group; es:reindex runs.         *)
Maintain ==
    /\ UNCHANGED <<deliveryVars, requestVars>>
    /\ \/ (\E r \in E!Runtimes : E!Bootstrap(r)) /\ MembersAreUp'
       \/ \E x \in Reindexers : E!Reindex(x)

-----------------------------------------------------------------------------
SystemInit ==
    /\ DeliveryInit
    /\ A!Init
    /\ E!Init
    /\ objectId = [i \in {} |-> i]

SystemNext ==
    \/ RequestGoesOn
    \/ \E r \in Requests : Store(r)
    \/ Forward /\ UNCHANGED <<requestVars, aliasVars>>
    \/ \E c \in Consumers : Member(c) /\ UNCHANGED <<outboxVars, requestVars>>
    \/ Maintain

SystemSpec == SystemInit /\ [][SystemNext]_systemVars

-----------------------------------------------------------------------------
(* Properties.                                                             *)

(* Every message has its own _id, and every row comes from a request.      *)
IdsAgree ==
    /\ objectId \in [stored -> messages]
    /\ \A i, j \in stored : objectId[i] = objectId[j] => i = j
    /\ \A m \in messages : \E i \in stored : objectId[i] = m

(* What the group has written is in an index that exists, and nothing else *)
(* is: also a reindex copies only what was written.                        *)
IndicesAgree ==
    /\ indexed = E!Held
    /\ E!CopiesHeld

(* What is known of the outbox and of the pipeline.                        *)
DeliveryInv == O!InductiveInvariant /\ P!PipelineInv

(* The inductive invariant of the whole.                                   *)
SystemInv ==
    /\ DeliveryInv
    /\ A!ApiInv
    /\ E!AliasInv
    /\ IdsAgree
    /\ IndicesAgree
    /\ MembersAreUp

(* A committed message still has a row that is in play or failed, or its   *)
(* event is in the topic to be consumed, its dead letter to be redriven,   *)
(* or its document indexed; only unsupported versions drop out.            *)
AccountedFor(m) ==
    \/ outbox[m].status \in {"pending", "publishing", "failed"}
    \/ m \in indexed \/ P!ToBeConsumed(m) \/ P!DeadLettered(m)
    \/ Kind[m] = "unknown"

(* No message is ever between two stores, and only committed messages are  *)
(* indexed.                                                                *)
MessagesAccountedFor ==
    /\ \A m \in messages : AccountedFor(m)
    /\ indexed \subseteq messages

(* Whoever was told 201 need not ask again: the message is on its way, or  *)
(* rests where an operator sees it, or is in an index that exists.         *)
CreatedIsNeverLost ==
    \A r \in Requests :
        response[r].status = 201 =>
            LET i == [by |-> r, attempt |-> response[r].attempt]
            IN /\ i \in stored
               /\ AccountedFor(objectId[i])
               /\ objectId[i] \in indexed =>
                    \E v \in created : objectId[i] \in docs[v]

(* Search shows what authenticated clients have sent, each message of      *)
(* theirs once, however often the API, a publisher, the group, a redrive   *)
(* or a reindex has repeated its part; and nothing of a request that was   *)
(* answered 400 or 401.                                                    *)
SearchShowsRequests ==
    /\ \A m \in E!Searchable : \E i \in stored :
         /\ objectId[i] = m
         /\ input[i.by].endpoint = "create"
         /\ input[i.by].key /\ input[i.by].body = "valid"
         /\ response[i.by].status \notin {400, 401}
    /\ \A i, j \in stored :
         objectId[i] \in E!Searchable /\ objectId[j] \in E!Searchable
           /\ i.by = j.by => i = j

(* A member of the group that is about to write finds a write alias: no    *)
(* request of its can make Elasticsearch create an index of that name.     *)
WritersFindAlias ==
    \A c \in Consumers : pc[c] = "index" => writeAlias # {}

===============================================================================
