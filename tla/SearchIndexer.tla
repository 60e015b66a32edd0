---------------------------- MODULE SearchIndexer ----------------------------
(***************************************************************************)
(* The search-indexer consumer group and the dlq:redrive command, over one *)
(* partition of the message-created topic and one of its dead-letter topic *)
(* (a conversation's events share a partition; partitions do not interact).*)
(*                                                                         *)
(* Kafka's part is external and modelled from how the code uses kafkajs:   *)
(* a member of the group handles records one after the other from the      *)
(* group's committed offset, commits the offset it has reached at some     *)
(* later time, and handles a record again when eachMessage throws.  A      *)
(* member that was replaced may go on with what it had fetched, but the    *)
(* broker refuses its commits.                                             *)
(***************************************************************************)
EXTENDS Integers, Sequences

CONSTANTS
    Messages,          \* events, by their message id
    Kind,              \* what parsing and Elasticsearch make of each event
    Consumers,         \* search-indexer processes
    NoOwner,           \* the partition is not assigned
    MaxIndexAttempts,  \* MAX_INDEX_ATTEMPTS
    Limit,             \* dlq:redrive --limit
    MaxProduced,       \* bound: the producer stops at this topic length
    MaxFaults,         \* bound: crashes, takeovers and Kafka errors
    MaxRedrives        \* bound: runs of dlq:redrive

Kinds == {"valid", "malformed", "unknown", "rejected"}

ASSUME IndexerAssumption ==
    /\ Kind \in [Messages -> Kinds]
    /\ NoOwner \notin Consumers
    /\ MaxIndexAttempts \in Nat \ {0}
    /\ Limit \in Nat \ {0}
    /\ MaxProduced \in Nat
    /\ MaxFaults \in Nat
    /\ MaxRedrives \in Nat

VARIABLES
    topic,         \* messages.message-created.v1
    dlq,           \* its dead-letter topic: value and original offset
    indexed,       \* documents behind the write alias
    committed,     \* records the indexer group has committed
    owner,         \* the member the partition is assigned to
    pc,            \* where each consumer stands in handleMessage
    pos,           \* records each consumer is past
    attempt,       \* attempt of indexWithRetry
    dlqCommitted,  \* records the redrive group has committed
    cli,           \* the dlq:redrive run
    redrives,      \* runs started
    faults

group == <<owner, pc, pos, attempt>>
redriver == <<dlqCommitted, cli, redrives>>
vars == <<topic, dlq, indexed, committed, owner, pc, pos, attempt,
          dlqCommitted, cli, redrives, faults>>

Record == [msg: Messages, offset: Nat]

(* The record a consumer is handling.                                      *)
Current(c) == topic[pos[c] + 1]

Fault ==
    /\ faults < MaxFaults
    /\ faults' = faults + 1

(* The outbox publisher appends an event; duplicates are allowed.          *)
Produce(m) ==
    /\ Len(topic) < MaxProduced
    /\ topic' = Append(topic, m)
    /\ UNCHANGED <<dlq, indexed, committed, group, redriver, faults>>

-----------------------------------------------------------------------------
(* Group membership: external.                                             *)

(* A consumer joins and resumes at the committed offset, from the          *)
(* beginning of the partition when there is none (fromBeginning: true).    *)
Resume(c) ==
    /\ pc[c] = "out"
    /\ owner' = c
    /\ pc' = [pc EXCEPT ![c] = "ready"]
    /\ pos' = [pos EXCEPT ![c] = committed]
    /\ UNCHANGED <<topic, dlq, indexed, committed, attempt, redriver>>

Join(c) ==
    /\ owner = NoOwner
    /\ Resume(c)
    /\ UNCHANGED faults

(* The session of a stalled owner runs out: another member is assigned the *)
(* partition while the old one has not noticed.                            *)
TakeOver(c) ==
    /\ owner # NoOwner
    /\ Fault
    /\ Resume(c)

(* A heartbeat or a refused commit tells a replaced member.                *)
Evicted(c) ==
    /\ pc[c] = "ready"
    /\ owner # c
    /\ pc' = [pc EXCEPT ![c] = "out"]
    /\ UNCHANGED <<topic, dlq, indexed, committed, owner, pos, attempt,
                   redriver, faults>>

(* The process dies, or shutdown disconnects it, at any point.             *)
Crash(c) ==
    /\ pc[c] # "out"
    /\ Fault
    /\ pc' = [pc EXCEPT ![c] = "out"]
    /\ attempt' = [attempt EXCEPT ![c] = 0]
    /\ owner' = IF owner = c THEN NoOwner ELSE owner
    /\ UNCHANGED <<topic, dlq, indexed, committed, pos, redriver>>

(* kafkajs auto-commit: the broker accepts it from the owner only.         *)
CommitOffset(c) ==
    /\ pc[c] = "ready"
    /\ owner = c
    /\ committed # pos[c]
    /\ committed' = pos[c]
    /\ UNCHANGED <<topic, dlq, indexed, group, redriver, faults>>

-----------------------------------------------------------------------------
(* handleMessage.                                                          *)

(* eachMessage returned: the record is done.                               *)
Done(c) ==
    /\ pc' = [pc EXCEPT ![c] = "ready"]
    /\ pos' = [pos EXCEPT ![c] = @ + 1]
    /\ attempt' = [attempt EXCEPT ![c] = 0]
    /\ UNCHANGED owner

Goto(c, step, n) ==
    /\ pc' = [pc EXCEPT ![c] = step]
    /\ attempt' = [attempt EXCEPT ![c] = n]
    /\ UNCHANGED <<owner, pos>>

(* Mutant: what does not parse is logged and skipped.                      *)
HandleMessageSkipping(c) ==
    /\ pc[c] = "ready"
    /\ pos[c] < Len(topic)
    /\ \/ Kind[Current(c)] \in {"unknown", "malformed"} /\ Done(c)
       \/ Kind[Current(c)] \in {"valid", "rejected"} /\ Goto(c, "index", 1)
    /\ UNCHANGED <<topic, dlq, indexed, committed, redriver, faults>>

(* parseMessageCreatedEvent: an unsupported type or version is skipped, a  *)
(* malformed value goes to the DLQ, anything else is indexed.              *)
HandleMessage(c) ==
    /\ pc[c] = "ready"
    /\ pos[c] < Len(topic)
    /\ \/ Kind[Current(c)] = "unknown" /\ Done(c)
       \/ Kind[Current(c)] = "malformed" /\ Goto(c, "dlq", 0)
       \/ Kind[Current(c)] \in {"valid", "rejected"} /\ Goto(c, "index", 1)
    /\ UNCHANGED <<topic, dlq, indexed, committed, redriver, faults>>

(* indexMessage through the write alias, document id = message id.         *)
IndexMessage(c) ==
    /\ pc[c] = "index"
    /\ Kind[Current(c)] = "valid"
    /\ indexed' = indexed \cup {Current(c)}
    /\ Done(c)
    /\ UNCHANGED <<topic, dlq, committed, redriver, faults>>

(* Mutant: giving up on retries is taken for success.                      *)
IndexRetryableErrorSwallowed(c) ==
    /\ pc[c] = "index"
    /\ IF attempt[c] < MaxIndexAttempts THEN Goto(c, "index", attempt[c] + 1)
                                        ELSE Done(c)
    /\ UNCHANGED <<topic, dlq, indexed, committed, redriver, faults>>

(* Mutant: a retryable error is retried for ever.                          *)
IndexRetryableErrorForever(c) ==
    /\ pc[c] = "index"
    /\ Goto(c, "index", IF attempt[c] < MaxIndexAttempts THEN attempt[c] + 1
                        ELSE 1)
    /\ UNCHANGED <<topic, dlq, indexed, committed, redriver, faults>>

(* A connection error, timeout, 408, 429 or 5xx: the write may have been   *)
(* applied.  It is tried again up to MAX_INDEX_ATTEMPTS times.             *)
IndexRetryableError(c) ==
    /\ pc[c] = "index"
    /\ \/ UNCHANGED indexed
       \/ Kind[Current(c)] = "valid" /\ indexed' = indexed \cup {Current(c)}
    /\ IF attempt[c] < MaxIndexAttempts THEN Goto(c, "index", attempt[c] + 1)
                                        ELSE Goto(c, "dlq", 0)
    /\ UNCHANGED <<topic, dlq, committed, redriver, faults>>

(* Any other error is thrown at once: a mapping error always, but also a   *)
(* transient one that isRetryableElasticsearchError does not know.         *)
IndexRejected(c) ==
    /\ pc[c] = "index"
    /\ Goto(c, "dlq", 0)
    /\ UNCHANGED <<topic, dlq, indexed, committed, redriver, faults>>

DlqRecord(c) == [msg |-> Current(c), offset |-> pos[c] + 1]

(* publishToDlq: the raw value, with the original offset in a header.      *)
PublishToDlq(c) ==
    /\ pc[c] = "dlq"
    /\ dlq' = Append(dlq, DlqRecord(c))
    /\ Done(c)
    /\ UNCHANGED <<topic, indexed, committed, redriver, faults>>

(* Mutant: a failed DLQ publish is caught and logged, the record is done.  *)
PublishToDlqErrorCaught(c) ==
    /\ pc[c] = "dlq"
    /\ Fault
    /\ dlq' \in {dlq, Append(dlq, DlqRecord(c))}
    /\ Done(c)
    /\ UNCHANGED <<topic, indexed, committed, redriver>>

(* publishToDlq throws, and so does eachMessage: kafkajs handles records   *)
(* again from some uncommitted one on.  The DLQ may have the record.       *)
PublishToDlqError(c) ==
    /\ pc[c] = "dlq"
    /\ Fault
    /\ dlq' \in {dlq, Append(dlq, DlqRecord(c))}
    /\ pc' = [pc EXCEPT ![c] = "ready"]
    /\ \E p \in 0 .. pos[c] :
         /\ owner = c => committed <= p
         /\ pos' = [pos EXCEPT ![c] = p]
    /\ UNCHANGED <<topic, indexed, committed, owner, attempt, redriver>>

-----------------------------------------------------------------------------
(* dlq:redrive.                                                            *)

Idle == [step |-> "idle", from |-> 0, pos |-> 0, count |-> 0,
         dryRun |-> FALSE]

(* The command subscribes with its own group, without auto-commit.         *)
RedriveStart(dryRun) ==
    /\ cli.step = "idle"
    /\ redrives < MaxRedrives
    /\ redrives' = redrives + 1
    /\ cli' = [step |-> "consume", from |-> dlqCommitted, pos |-> dlqCommitted,
               count |-> 0, dryRun |-> dryRun]
    /\ UNCHANGED <<topic, dlq, indexed, committed, group, dlqCommitted, faults>>

(* Mutant: the limit is compared the wrong way.                            *)
NextRunOffByOne(p, count) ==
    IF count > Limit THEN Idle ELSE [cli EXCEPT !.step = "consume",
                                                !.pos = p, !.count = count]

(* The next step of a run that has consumed `count` records.               *)
NextRun(p, count) ==
    IF count >= Limit THEN Idle ELSE [cli EXCEPT !.step = "consume",
                                                 !.pos = p, !.count = count]

(* handlePayload counts the record; a dry run only looks at it.            *)
RedriveConsume ==
    /\ cli.step = "consume"
    /\ cli.pos < Len(dlq)
    /\ cli' = IF cli.dryRun THEN NextRun(cli.pos + 1, cli.count + 1)
              ELSE [cli EXCEPT !.step = "republish", !.count = @ + 1]
    /\ UNCHANGED <<topic, dlq, indexed, committed, group, dlqCommitted,
                   redrives, faults>>

RedriveRepublish ==
    /\ cli.step = "republish"
    /\ topic' = Append(topic, dlq[cli.pos + 1].msg)
    /\ cli' = [cli EXCEPT !.step = "commit"]
    /\ UNCHANGED <<dlq, indexed, committed, group, dlqCommitted, redrives,
                   faults>>

(* Mutant: the offset is committed although the send failed.               *)
RedriveRepublishErrorCommits ==
    /\ cli.step = "republish"
    /\ Fault
    /\ cli' = [cli EXCEPT !.step = "commit"]
    /\ UNCHANGED <<topic, dlq, indexed, committed, group, dlqCommitted, redrives>>

(* The send or the commit throws, applied or not: kafkajs hands the same   *)
(* record to eachMessage again, and it counts again.                       *)
RedriveRepublishError ==
    /\ cli.step = "republish"
    /\ Fault
    /\ topic' \in {topic, Append(topic, dlq[cli.pos + 1].msg)}
    /\ cli' = [cli EXCEPT !.step = "consume"]
    /\ UNCHANGED <<dlq, indexed, committed, group, dlqCommitted, redrives>>

RedriveCommit ==
    /\ cli.step = "commit"
    /\ dlqCommitted' = cli.pos + 1
    /\ cli' = NextRun(cli.pos + 1, cli.count)
    /\ UNCHANGED <<topic, dlq, indexed, committed, group, redrives, faults>>

RedriveCommitError ==
    /\ cli.step = "commit"
    /\ Fault
    /\ dlqCommitted' \in {dlqCommitted, cli.pos + 1}
    /\ cli' = [cli EXCEPT !.step = "consume"]
    /\ UNCHANGED <<topic, dlq, indexed, committed, group, redrives>>

(* The idle timer fires, or the operator interrupts the command.           *)
RedriveStop ==
    /\ cli.step # "idle"
    /\ cli' = Idle
    /\ UNCHANGED <<topic, dlq, indexed, committed, group, dlqCommitted,
                   redrives, faults>>

-----------------------------------------------------------------------------
Init ==
    /\ topic = <<>>
    /\ dlq = <<>>
    /\ indexed = {}
    /\ committed = 0
    /\ owner = NoOwner
    /\ pc = [c \in Consumers |-> "out"]
    /\ pos = [c \in Consumers |-> 0]
    /\ attempt = [c \in Consumers |-> 0]
    /\ dlqCommitted = 0
    /\ cli = Idle
    /\ redrives = 0
    /\ faults = 0

(* The steps of a group member.                                            *)
Work(c) ==
    \/ CommitOffset(c)
    \/ HandleMessage(c)
    \/ IndexMessage(c)
    \/ IndexRetryableError(c)
    \/ IndexRejected(c)
    \/ PublishToDlq(c)
    \/ PublishToDlqError(c)

Redrive ==
    \/ \E dryRun \in BOOLEAN : RedriveStart(dryRun)
    \/ RedriveConsume
    \/ RedriveRepublish
    \/ RedriveRepublishError
    \/ RedriveCommit
    \/ RedriveCommitError
    \/ RedriveStop

Group ==
    \E c \in Consumers :
        Join(c) \/ TakeOver(c) \/ Evicted(c) \/ Crash(c) \/ Work(c)

Next ==
    \/ \E m \in Messages : Produce(m)
    \/ Group
    \/ Redrive

Spec == Init /\ [][Next]_vars

-----------------------------------------------------------------------------
(* Properties.                                                             *)

(* Types; nobody is past the end of a log.                                 *)
TypeOK ==
    /\ topic \in Seq(Messages)
    /\ dlq \in Seq(Record)
    /\ indexed \subseteq Messages
    /\ committed \in 0 .. Len(topic)
    /\ owner \in Consumers \cup {NoOwner}
    /\ pc \in [Consumers -> {"out", "ready", "index", "dlq"}]
    /\ pos \in [Consumers -> Nat]
    /\ \A c \in Consumers :
         /\ pos[c] <= Len(topic)
         /\ pc[c] \in {"index", "dlq"} => pos[c] < Len(topic)
    /\ attempt \in [Consumers -> 0 .. MaxIndexAttempts]
    /\ dlqCommitted \in 0 .. Len(dlq)
    /\ cli \in [step: {"idle", "consume", "republish", "commit"}, from: Nat,
                pos: Nat, count: Nat, dryRun: BOOLEAN]
    /\ cli.pos <= Len(dlq)
    /\ cli.step \in {"republish", "commit"} => cli.pos < Len(dlq)
    /\ redrives \in Nat
    /\ faults \in Nat

(* A dead letter that no redrive has committed.                            *)
PendingDeadLetters == dlqCommitted + 1 .. Len(dlq)

(* The event of record o is accounted for by somebody who is past record   *)
(* p: its document is indexed, it is of an unsupported version, it has a   *)
(* dead letter that is not yet redriven, or it comes again behind p.       *)
AccountedFor(o, p) ==
    \/ Kind[topic[o]] = "unknown"
    \/ topic[o] \in indexed
    \/ \E d \in PendingDeadLetters :
         dlq[d].msg = topic[o] /\ o <= dlq[d].offset
    \/ \E q \in p + 1 .. Len(topic) : topic[q] = topic[o]

(* An event that is in the topic is searchable, or still to be consumed,   *)
(* or a dead letter still to be redriven, whatever consumers died, were    *)
(* replaced or wrote twice, and wherever a redrive was interrupted; only   *)
(* unsupported versions drop out.                                          *)
NoEventLost ==
    \A o \in 1 .. Len(topic) :
        LET m == topic[o]
        IN \/ Kind[m] = "unknown"
           \/ m \in indexed
           \/ \E q \in committed + 1 .. Len(topic) : topic[q] = m
           \/ \E d \in PendingDeadLetters : dlq[d].msg = m

(* dlq:redrive --limit n takes up n dead letters at most, although a       *)
(* record that is handled again after an error is counted again.           *)
LimitRespected == cli.step # "idle" => cli.pos < cli.from + Limit

(* A dead letter that counts as redriven is in the topic again, behind the *)
(* record it came from.                                                    *)
BackInTopic(d) ==
    \E q \in dlq[d].offset + 1 .. Len(topic) : topic[q] = dlq[d].msg

(* Record o was dealt with: it is of an unsupported version, its event is  *)
(* indexed, or it has a dead letter of its own, by its own offset.         *)
Handled(o) ==
    \/ Kind[topic[o]] = "unknown"
    \/ topic[o] \in indexed
    \/ \E d \in 1 .. Len(dlq) : dlq[d] = [msg |-> topic[o], offset |-> o]

(* Nobody goes on past a record that was not dealt with, whoever stalled,  *)
(* was replaced or failed to publish a dead letter: no consumer, no offset *)
(* of the indexer group, and no offset of the redrive group, which passes  *)
(* a dead letter only when its event is in the topic again.                *)
OnlyHandledPassed ==
    /\ \A c \in Consumers : \A o \in 1 .. pos[c] : Handled(o)
    /\ \A o \in 1 .. committed : Handled(o)
    /\ \A d \in 1 .. dlqCommitted : BackInTopic(d)

(* Every dead letter stands for a record of the topic.                     *)
DeadLettersFaithful ==
    \A d \in 1 .. Len(dlq) : /\ dlq[d].offset \in 1 .. Len(topic)
                             /\ topic[dlq[d].offset] = dlq[d].msg

InHand == cli.step \in {"republish", "commit"}

(* What a redrive has committed, or is about to commit, is back in the     *)
(* topic; a run counts each record it has taken up at least once.          *)
RedriveInv ==
    /\ \A d \in 1 .. dlqCommitted : BackInTopic(d)
    /\ cli.step = "commit" => BackInTopic(cli.pos + 1)
    /\ InHand => ~cli.dryRun
    /\ cli.step # "idle" =>
         /\ ~cli.dryRun => cli.pos <= dlqCommitted /\ dlqCommitted <= cli.pos + 1
         /\ cli.from <= cli.pos
         /\ cli.pos + (IF InHand THEN 1 ELSE 0) <= cli.from + cli.count
    /\ LimitRespected

(* Only events that parse and that Elasticsearch accepts are searchable,   *)
(* and unsupported versions are never dead-lettered.                       *)
KindsRespected ==
    /\ \A m \in indexed : Kind[m] = "valid"
    /\ \A d \in 1 .. Len(dlq) : Kind[dlq[d].msg] # "unknown"
    /\ \A c \in Consumers :
         pc[c] \in {"index", "dlq"} => Kind[Current(c)] # "unknown"

PastAccountedFor(p) == \A o \in 1 .. p : AccountedFor(o, p)

(* The owner is not behind the group; whatever the group or some consumer  *)
(* is past is accounted for.                                               *)
ConsumersInv ==
    /\ \A c \in Consumers :
         /\ owner = c => pc[c] # "out" /\ committed <= pos[c]
         /\ PastAccountedFor(pos[c])
    /\ PastAccountedFor(committed)

(* The inductive invariant.                                                *)
IndexerInv ==
    /\ TypeOK
    /\ DeadLettersFaithful
    /\ KindsRespected
    /\ RedriveInv
    /\ ConsumersInv

=============================================================================
