------------------------------- MODULE Outbox -------------------------------
(***************************************************************************)
(* The transactional outbox of the message API.                            *)
(*                                                                         *)
(* POST /messages writes a message and an outbox row in one MongoDB        *)
(* transaction (CreateMessageService).  Publisher processes poll the       *)
(* collection: a run claims due rows one by one under a lease              *)
(* (MongoOutboxRepository.claimPublishable), sends each to Kafka and       *)
(* settles the row under a lock-owner filter (OutboxPublisherService).  An *)
(* operator resets failed rows with outbox:redrive; a TTL index deletes    *)
(* published rows.                                                         *)
(*                                                                         *)
(* A row is named by its _id.  Message, eventId and payload are in         *)
(* one-to-one correspondence with the row, so the row id stands for them.  *)
(* Time is one logical clock; what a host reads from its own may be ahead  *)
(* of it, another time by another amount, but by MaxSkew at most.          *)
(***************************************************************************)
EXTENDS Integers, Sequences, FiniteSets

CONSTANTS
    Rows,           \* outbox _id values, ordered as ObjectIds are
    Instances,      \* publisher instance ids: each process draws a fresh one
    Operators,      \* runs of the outbox:redrive command
    BatchSize,      \* OUTBOX_BATCH_SIZE
    MaxAttempts,    \* OUTBOX_MAX_ATTEMPTS
    LockTimeout,    \* OUTBOX_LOCK_TIMEOUT_MS
    BaseRetryDelay, \* BASE_RETRY_DELAY_MS
    MaxRetryDelay,  \* MAX_RETRY_DELAY_MS
    NoOwner,        \* lockedBy is unset
    MaxReplicas,    \* bound: publisher processes alive at the same time
    MaxSkew,        \* how far the clocks of the hosts are apart
    CommitLag,      \* bound: age of a create request's `now` at its commit
    MaxFaults,      \* bound: MongoDB calls that throw
    MaxClock        \* bound: the clock stops here

ASSUME ConstantsAssumption ==
    /\ Rows \subseteq Nat
    /\ NoOwner \notin Instances
    /\ BatchSize \in Nat \ {0}
    /\ MaxAttempts \in Nat \ {0}
    /\ LockTimeout \in Nat \ {0}
    /\ BaseRetryDelay \in Nat
    /\ MaxRetryDelay \in Nat
    /\ MaxReplicas \in Nat
    /\ MaxSkew \in Nat
    /\ CommitLag \in Nat
    /\ MaxFaults \in Nat
    /\ MaxClock \in Nat

VARIABLES
    clock,      \* the clock that is behind all others
    messages,   \* rows whose message document is committed
    outbox,     \* the outbox_events collection
    delivered,  \* rows whose event is in the Kafka topic at least once
    pc,         \* where each publisher process stands
    stopping,   \* OutboxPublisherService.stopping
    now,        \* the `now` a publisher captured and still uses
    batch,      \* claimed events still to publish, with their attempts
    redrive,    \* each outbox:redrive run
    faults      \* MongoDB errors so far

store == <<messages, outbox, delivered>>
publisher == <<pc, stopping, now, batch>>
vars == <<clock, messages, outbox, delivered, pc, stopping, now, batch,
          redrive, faults>>

-----------------------------------------------------------------------------
(* The documents.                                                          *)

Statuses == {"absent", "pending", "publishing", "published", "failed"}

Doc == [status: Statuses, attempts: Nat, nextAttemptAt: Nat,
        lockedBy: Instances \cup {NoOwner}, lockedAt: Nat]

Absent == [status |-> "absent", attempts |-> 0, nextAttemptAt |-> 0,
           lockedBy |-> NoOwner, lockedAt |-> 0]

(* A claimed event as the publisher keeps it in memory (mapOutboxEvent):   *)
(* `attempts` is the value at claim time and is never read again.          *)
Claimed == [id: Rows, attempts: Nat]

BatchIds(i) == {batch[i][k].id : k \in DOMAIN batch[i]}

Event(i) == Head(batch[i])

-----------------------------------------------------------------------------
(* The publisher process.                                                  *)

Running == {"claiming", "publishing", "acked", "failing"}
Alive == Running \cup {"idle"}
Gone == {"stopped", "dead"}
PcValues == {"new"} \cup Alive \cup Gone

(* What `new Date()` returns on some host.                                 *)
Readings == clock .. clock + MaxSkew

(* The state the finally block of runLoop leaves: the next run is          *)
(* scheduled unless the process is stopping, and then shutdown completes.  *)
RestPc(i) == IF stopping[i] THEN "stopped" ELSE "idle"

EndRun(i) ==
    /\ pc' = [pc EXCEPT ![i] = RestPc(i)]
    /\ now' = [now EXCEPT ![i] = 0]
    /\ batch' = [batch EXCEPT ![i] = <<>>]
    /\ UNCHANGED stopping

(* publishEvent returned: the loop of runOnce moves on.                    *)
Advance(i) ==
    /\ pc' = [pc EXCEPT ![i] = "publishing"]
    /\ now' = [now EXCEPT ![i] = 0]
    /\ batch' = [batch EXCEPT ![i] = Tail(batch[i])]
    /\ UNCHANGED stopping

(* The catch block of publishEvent: handlePublishFailure reads the clock.  *)
EnterFailure(i) ==
    /\ pc' = [pc EXCEPT ![i] = "failing"]
    /\ \E t \in Readings : now' = [now EXCEPT ![i] = t]
    /\ UNCHANGED <<stopping, batch>>

(* A MongoDB call throws: the write was applied or it was not.             *)
Fault ==
    /\ faults < MaxFaults
    /\ faults' = faults + 1

(* Process start: onModuleInit schedules the first run.                    *)
Start(i) ==
    /\ pc[i] = "new"
    /\ Cardinality({j \in Instances : pc[j] \in Alive}) < MaxReplicas
    /\ pc' = [pc EXCEPT ![i] = "idle"]
    /\ UNCHANGED <<clock, store, stopping, now, batch, redrive, faults>>

(* The timer fires: runOnce captures `now` once for the whole claim.       *)
StartRun(i) ==
    /\ pc[i] = "idle"
    /\ pc' = [pc EXCEPT ![i] = "claiming"]
    /\ \E t \in Readings : now' = [now EXCEPT ![i] = t]
    /\ UNCHANGED <<clock, store, stopping, batch, redrive, faults>>

(* Mutants of the claim filter: no lease on publishing rows; no reclaim of *)
(* publishing rows; due failed rows are claimed like pending ones.         *)
IsPublishableNoLease(doc, t) ==
    \/ doc.status = "pending" /\ doc.nextAttemptAt <= t
    \/ doc.status = "publishing" /\ doc.lockedAt <= t
IsPublishableNoReclaim(doc, t) ==
    doc.status = "pending" /\ doc.nextAttemptAt <= t
IsPublishableFailed(doc, t) ==
    \/ doc.status \in {"pending", "failed"} /\ doc.nextAttemptAt <= t
    \/ doc.status = "publishing" /\ doc.lockedAt + LockTimeout <= t

(* The filter of claimPublishable: due pending rows, and publishing rows   *)
(* whose lease is over at the captured `now`.                              *)
IsPublishable(doc, t) ==
    \/ doc.status = "pending" /\ doc.nextAttemptAt <= t
    \/ doc.status = "publishing" /\ doc.lockedAt + LockTimeout <= t

Publishable(t) == {r \in Rows : IsPublishable(outbox[r], t)}

(* Mutant: the attempt is already counted by the claim while the copy      *)
(* comes from before it.                                                   *)
ClaimedDocCounting(doc, i, t) ==
    [doc EXCEPT !.status = "publishing", !.lockedBy = i, !.lockedAt = t,
                !.attempts = doc.attempts + 1]

(* What the claim sets on the row.                                         *)
ClaimedDoc(doc, i, t) ==
    [doc EXCEPT !.status = "publishing", !.lockedBy = i, !.lockedAt = t]

(* One findOneAndUpdate: the publishable row with the least _id.           *)
Claim(i, r) ==
    /\ r \in Publishable(now[i])
    /\ \A q \in Publishable(now[i]) : r <= q
    /\ outbox' = [outbox EXCEPT ![r] = ClaimedDoc(@, i, now[i])]

ClaimNext(i) ==
    /\ pc[i] = "claiming"
    /\ Len(batch[i]) < BatchSize
    /\ \E r \in Rows :
         /\ Claim(i, r)
         /\ batch' = [batch EXCEPT ![i] =
                        Append(@, [id |-> r, attempts |-> outbox[r].attempts])]
    /\ UNCHANGED <<clock, messages, delivered, pc, stopping, now, redrive,
                   faults>>

ClaimEnd(i) ==
    /\ pc[i] = "claiming"
    /\ Len(batch[i]) >= BatchSize \/ Publishable(now[i]) = {}
    /\ pc' = [pc EXCEPT ![i] = "publishing"]
    /\ now' = [now EXCEPT ![i] = 0]
    /\ UNCHANGED <<clock, store, stopping, batch, redrive, faults>>

(* findOneAndUpdate throws: the rows claimed so far, and the one it may    *)
(* have claimed, are forgotten while they stay locked.                     *)
ClaimError(i) ==
    /\ pc[i] = "claiming"
    /\ Len(batch[i]) < BatchSize
    /\ Fault
    /\ (\E r \in Rows : Claim(i, r)) \/ UNCHANGED outbox
    /\ EndRun(i)
    /\ UNCHANGED <<clock, messages, delivered, redrive>>

(* Mutant: fire and forget, nothing waits for the broker.                  *)
PublishEventNoAck(i) ==
    /\ pc[i] = "publishing"
    /\ batch[i] # <<>>
    /\ delivered' \in {delivered, delivered \cup {Event(i).id}}
    /\ pc' = [pc EXCEPT ![i] = "acked"]
    /\ UNCHANGED <<clock, messages, outbox, stopping, now, batch, redrive,
                   faults>>

(* producer.publishJson with acks -1.  No lock is checked before the send. *)
PublishEvent(i) ==
    /\ pc[i] = "publishing"
    /\ batch[i] # <<>>
    /\ delivered' = delivered \cup {Event(i).id}
    /\ pc' = [pc EXCEPT ![i] = "acked"]
    /\ UNCHANGED <<clock, messages, outbox, stopping, now, batch, redrive,
                   faults>>

(* Mutant: the rejection of the send is swallowed.                         *)
PublishErrorIgnored(i) ==
    /\ pc[i] = "publishing"
    /\ batch[i] # <<>>
    /\ delivered' \in {delivered, delivered \cup {Event(i).id}}
    /\ pc' = [pc EXCEPT ![i] = "acked"]
    /\ UNCHANGED <<clock, messages, outbox, stopping, now, batch, redrive,
                   faults>>

(* The send throws.  The producer is not idempotent and the error says     *)
(* nothing about the broker: the record may be in the topic all the same.  *)
PublishError(i) ==
    /\ pc[i] = "publishing"
    /\ batch[i] # <<>>
    /\ delivered' \in {delivered, delivered \cup {Event(i).id}}
    /\ EnterFailure(i)
    /\ UNCHANGED <<clock, messages, outbox, redrive, faults>>

(* Mutant: the settling updates filter by _id only.                        *)
OwnsLockById(i, r) == TRUE

(* lockOwnerFilter: the row is still leased to this instance.              *)
OwnsLock(i, r) == outbox[r].status = "publishing" /\ outbox[r].lockedBy = i

(* updateOne under lockOwnerFilter: no match leaves the row as it is.      *)
UpdateOwned(i, doc) ==
    LET r == Event(i).id
    IN outbox' = IF OwnsLock(i, r) THEN [outbox EXCEPT ![r] = doc] ELSE outbox

(* What markPublished sets on the row.                                     *)
PublishedDoc(doc) ==
    [doc EXCEPT !.status = "published", !.lockedBy = NoOwner, !.lockedAt = 0]

(* markPublished answered; without a match logLostLock only logs.          *)
MarkPublished(i) ==
    /\ pc[i] = "acked"
    /\ UpdateOwned(i, PublishedDoc(outbox[Event(i).id]))
    /\ Advance(i)
    /\ UNCHANGED <<clock, messages, delivered, redrive, faults>>

(* markPublished throws after the ack: publishEvent treats it as a failed  *)
(* publish.                                                                *)
MarkPublishedError(i) ==
    /\ pc[i] = "acked"
    /\ Fault
    /\ UpdateOwned(i, PublishedDoc(outbox[Event(i).id])) \/ UNCHANGED outbox
    /\ EnterFailure(i)
    /\ UNCHANGED <<clock, messages, delivered, redrive>>

(* calculateRetryDelayMs: exponential, capped, times a factor in 0.8..1.2  *)
(* and rounded to an integer.  The outer interval only fixes the type: a   *)
(* delay is never longer than twice the cap.                               *)
RetryDelays(attempts) ==
    LET doubled == BaseRetryDelay * 2 ^ (attempts - 1)
        delay == IF doubled < MaxRetryDelay THEN doubled ELSE MaxRetryDelay
    IN (0 .. 2 * MaxRetryDelay) \cap
         (((8 * delay + 5) \div 10) .. ((12 * delay + 5) \div 10))

(* Mutant: one attempt too many.                                           *)
FailureDocOffByOne(attempts, t, wait) ==
    [status |-> IF attempts > MaxAttempts THEN "failed" ELSE "pending",
     attempts |-> attempts,
     nextAttemptAt |-> IF attempts > MaxAttempts THEN t ELSE t + wait,
     lockedBy |-> NoOwner, lockedAt |-> 0]

(* What handlePublishFailure writes: `failed` when the attempts are used   *)
(* up, else `pending` with a back-off.                                     *)
FailureDoc(attempts, t, wait) ==
    [status |-> IF attempts >= MaxAttempts THEN "failed" ELSE "pending",
     attempts |-> attempts,
     nextAttemptAt |-> IF attempts >= MaxAttempts THEN t ELSE t + wait,
     lockedBy |-> NoOwner, lockedAt |-> 0]

RecordFailure(i) ==
    LET attempts == Event(i).attempts + 1
    IN \E wait \in RetryDelays(attempts) :
         UpdateOwned(i, FailureDoc(attempts, now[i], wait))

HandlePublishFailure(i) ==
    /\ pc[i] = "failing"
    /\ RecordFailure(i)
    /\ Advance(i)
    /\ UNCHANGED <<clock, messages, delivered, redrive, faults>>

(* scheduleRetry or markFailed throws: the exception leaves publishEvent   *)
(* and runOnce, and the rest of the batch is abandoned with its locks.     *)
HandlePublishFailureError(i) ==
    /\ pc[i] = "failing"
    /\ Fault
    /\ RecordFailure(i) \/ UNCHANGED outbox
    /\ EndRun(i)
    /\ UNCHANGED <<clock, messages, delivered, redrive>>

(* The batch is done; updatePendingMetrics only reads, and whether it      *)
(* throws or not the finally block follows.                                *)
FinishRun(i) ==
    /\ pc[i] = "publishing"
    /\ batch[i] = <<>>
    /\ EndRun(i)
    /\ UNCHANGED <<clock, store, redrive, faults>>

(* Mutant: shutdown does not wait for the run in progress.                 *)
ShutdownAbandons(i) ==
    /\ pc[i] \in Alive
    /\ ~stopping[i]
    /\ stopping' = [stopping EXCEPT ![i] = TRUE]
    /\ pc' = [pc EXCEPT ![i] = "stopped"]
    /\ now' = [now EXCEPT ![i] = 0]
    /\ batch' = [batch EXCEPT ![i] = <<>>]
    /\ UNCHANGED <<clock, store, redrive, faults>>

(* onApplicationShutdown: stop at once when idle, else after the run.      *)
Shutdown(i) ==
    /\ pc[i] \in Alive
    /\ ~stopping[i]
    /\ stopping' = [stopping EXCEPT ![i] = TRUE]
    /\ pc' = [pc EXCEPT ![i] = IF @ = "idle" THEN "stopped" ELSE @]
    /\ UNCHANGED <<clock, store, now, batch, redrive, faults>>

(* The process dies; its instance id is never used again.                  *)
Crash(i) ==
    /\ pc[i] \in Alive
    /\ pc' = [pc EXCEPT ![i] = "dead"]
    /\ stopping' = [stopping EXCEPT ![i] = FALSE]
    /\ now' = [now EXCEPT ![i] = 0]
    /\ batch' = [batch EXCEPT ![i] = <<>>]
    /\ UNCHANGED <<clock, store, redrive, faults>>

-----------------------------------------------------------------------------
(* The API, the operator, the TTL index and time.                          *)

(* CreateMessageService.execute: message and pending row commit together.  *)
(* `now` was read before the transaction began.  An aborted transaction    *)
(* changes nothing.                                                        *)
CreateMessage(r) ==
    /\ r \notin messages
    /\ messages' = messages \cup {r}
    /\ \E at \in {t \in 0 .. clock + MaxSkew : clock <= t + CommitLag} :
         outbox' = [outbox EXCEPT ![r] = [status |-> "pending", attempts |-> 0,
                                          nextAttemptAt |-> at,
                                          lockedBy |-> NoOwner,
                                          lockedAt |-> 0]]
    /\ UNCHANGED <<clock, delivered, publisher, redrive, faults>>

NoRedrive == [step |-> "begin", now |-> 0, ids |-> {}]
RedriveDone == [step |-> "done", now |-> 0, ids |-> {}]

(* outbox:redrive reads the clock, then connects to MongoDB.               *)
RedriveBegin(o) ==
    /\ redrive[o].step = "begin"
    /\ \E t \in Readings :
         redrive' = [redrive EXCEPT ![o] = [step |-> "find", now |-> t, ids |-> {}]]
    /\ UNCHANGED <<clock, store, publisher, faults>>

(* findFailedEvents: failed rows of the selection, oldest failure first,   *)
(* at most `limit` of them.                                                *)
OldestFailed(selection, limit) ==
    LET failed == {r \in selection : outbox[r].status = "failed"}
        before(a, b) ==
            \/ outbox[a].nextAttemptAt < outbox[b].nextAttemptAt
            \/ outbox[a].nextAttemptAt = outbox[b].nextAttemptAt /\ a < b
    IN {r \in failed : Cardinality({q \in failed : before(q, r)}) < limit}

(* redriveFailed selects by id (or everything) and limit; a dry run, or an *)
(* empty selection, ends here.                                             *)
RedriveFind(o) ==
    /\ redrive[o].step = "find"
    /\ \E selection \in SUBSET Rows, limit \in 1 .. Cardinality(Rows),
          dryRun \in BOOLEAN :
         LET found == OldestFailed(selection, limit)
         IN redrive' = [redrive EXCEPT ![o] =
                          IF found = {} \/ dryRun THEN RedriveDone
                          ELSE [@ EXCEPT !.step = "update", !.ids = found]]
    /\ UNCHANGED <<clock, store, publisher, faults>>

(* Mutant: updateMany filters by _id only.                                 *)
RedrivenDocAny(doc, t) ==
    [status |-> "pending", attempts |-> 0, nextAttemptAt |-> t,
     lockedBy |-> NoOwner, lockedAt |-> 0]

(* The document updateMany writes on a row that is still failed.           *)
RedrivenDoc(doc, t) ==
    IF doc.status = "failed"
    THEN [status |-> "pending", attempts |-> 0, nextAttemptAt |-> t,
          lockedBy |-> NoOwner, lockedAt |-> 0]
    ELSE doc

WithoutRow(run, r) ==
    IF run.ids = {r} THEN RedriveDone ELSE [run EXCEPT !.ids = run.ids \ {r}]

(* updateMany is atomic per document only.                                 *)
RedriveUpdate(o, r) ==
    /\ redrive[o].step = "update"
    /\ r \in redrive[o].ids
    /\ outbox' = [outbox EXCEPT ![r] = RedrivenDoc(@, redrive[o].now)]
    /\ redrive' = [redrive EXCEPT ![o] = WithoutRow(@, r)]
    /\ UNCHANGED <<clock, messages, delivered, publisher, faults>>

(* The command is interrupted, or MongoDB fails, part of the way.          *)
RedriveAbort(o) ==
    /\ redrive[o].step \in {"find", "update"}
    /\ redrive' = [redrive EXCEPT ![o] = RedriveDone]
    /\ UNCHANGED <<clock, store, publisher, faults>>

(* Mutant: the TTL index is not partial and also removes failed rows.      *)
ExpireFailed(r) ==
    /\ outbox[r].status \in {"published", "failed"}
    /\ outbox' = [outbox EXCEPT ![r] = Absent]
    /\ UNCHANGED <<clock, messages, delivered, publisher, redrive, faults>>

(* The TTL monitor: publishedAt is not modelled, so a published row may    *)
(* expire at any time.                                                     *)
Expire(r) ==
    /\ outbox[r].status = "published"
    /\ outbox' = [outbox EXCEPT ![r] = Absent]
    /\ UNCHANGED <<clock, messages, delivered, publisher, redrive, faults>>

Tick ==
    /\ clock < MaxClock
    /\ clock' = clock + 1
    /\ UNCHANGED <<store, publisher, redrive, faults>>

-----------------------------------------------------------------------------
Init ==
    /\ clock = 0
    /\ messages = {}
    /\ outbox = [r \in Rows |-> Absent]
    /\ delivered = {}
    /\ pc = [i \in Instances |-> "new"]
    /\ stopping = [i \in Instances |-> FALSE]
    /\ now = [i \in Instances |-> 0]
    /\ batch = [i \in Instances |-> <<>>]
    /\ redrive = [o \in Operators |-> NoRedrive]
    /\ faults = 0

(* The steps of a run, in the order of the code.                           *)
RunStep(i) ==
    \/ StartRun(i)
    \/ ClaimNext(i)
    \/ ClaimEnd(i)
    \/ ClaimError(i)
    \/ PublishEvent(i)
    \/ PublishError(i)
    \/ MarkPublished(i)
    \/ MarkPublishedError(i)
    \/ HandlePublishFailure(i)
    \/ HandlePublishFailureError(i)
    \/ FinishRun(i)

Redrive(o) ==
    \/ RedriveBegin(o)
    \/ RedriveFind(o)
    \/ \E r \in Rows : RedriveUpdate(o, r)
    \/ RedriveAbort(o)

Next ==
    \/ \E i \in Instances : Start(i) \/ RunStep(i) \/ Shutdown(i) \/ Crash(i)
    \/ \E r \in Rows : CreateMessage(r) \/ Expire(r)
    \/ \E o \in Operators : Redrive(o)
    \/ Tick

Spec == Init /\ [][Next]_vars

-----------------------------------------------------------------------------
(* Properties.                                                             *)

(* The types of the variables: in particular every batch is a sequence of  *)
(* claims of known rows.                                                   *)
TypeOK ==
    /\ clock \in Nat
    /\ messages \subseteq Rows
    /\ outbox \in [Rows -> Doc]
    /\ delivered \subseteq Rows
    /\ pc \in [Instances -> PcValues]
    /\ stopping \in [Instances -> BOOLEAN]
    /\ now \in [Instances -> Nat]
    /\ batch \in [Instances -> Seq(Claimed)]
    /\ redrive \in [Operators -> [step: {"begin", "find", "update", "done"},
                                  now: Nat, ids: SUBSET Rows]]
    /\ faults \in Nat

(* A row says `published` only when its event is in the topic, whichever   *)
(* instance wrote that status and whatever claims, lost locks and errors   *)
(* came before (markPublished runs only after the ack).                    *)
PublishedImpliesDelivered ==
    \A r \in Rows : outbox[r].status = "published" => r \in delivered

(* The transactional outbox loses nothing: a committed message has an      *)
(* outbox row until its event is in the topic, and no row exists without   *)
(* its message (one transaction in CreateMessageService.execute; the TTL   *)
(* index deletes published rows only).                                     *)
NoLostEvent ==
    \A r \in Rows :
        /\ r \in messages => outbox[r].status # "absent" \/ r \in delivered
        /\ outbox[r].status # "absent" => r \in messages

(* The retry budget: a row still in play has attempts left, a failed one   *)
(* has used exactly OUTBOX_MAX_ATTEMPTS, and so has every claim that a     *)
(* publisher still holds in memory, however old (handlePublishFailure      *)
(* computes the new count from that copy, not from the row).               *)
AttemptsWithinBudget ==
    /\ \A r \in Rows :
         /\ outbox[r].status \in {"pending", "publishing"}
              => outbox[r].attempts < MaxAttempts
         /\ outbox[r].status = "failed" => outbox[r].attempts = MaxAttempts
    /\ \A i \in Instances : \A k \in DOMAIN batch[i] :
         batch[i][k].attempts < MaxAttempts

(* A row is locked exactly while it is `publishing`, by a process that was *)
(* started, with a lease that does not begin in the future of all clocks.  *)
LockConsistent ==
    \A r \in Rows :
        /\ outbox[r].status = "publishing" <=> outbox[r].lockedBy # NoOwner
        /\ outbox[r].lockedBy # NoOwner => pc[outbox[r].lockedBy] # "new"
        /\ outbox[r].lockedAt <= clock + MaxSkew

(* handlePublishFailure writes `attempts` computed from the copy taken at  *)
(* claim time, not with $inc: while an instance holds the lock, its latest *)
(* copy agrees with the row, so the write counts exactly one failure.      *)
OwnedCopyIsFresh ==
    \A i \in Instances : \A k \in DOMAIN batch[i] :
        LET r == batch[i][k].id
        IN /\ OwnsLock(i, r)
           /\ \A m \in DOMAIN batch[i] : batch[i][m].id = r => m <= k
           => batch[i][k].attempts = outbox[r].attempts

(* Only a MongoDB error or a crash strands a row: otherwise every row an   *)
(* instance has locked is in the batch it is working on, also while it     *)
(* shuts down (onApplicationShutdown waits for the run), so no row waits   *)
(* for its lease to run out without a failure.                             *)
StrandedOnlyByFault ==
    \A r \in Rows, i \in Instances :
        OwnsLock(i, r) /\ r \notin BatchIds(i) => pc[i] = "dead" \/ faults > 0

(* A claim passes from one instance to another only when the holder's      *)
(* lease is over on the clock, or has less than the skew left, although    *)
(* the thief compares with a `now` it captured earlier and the holder      *)
(* stamped lockedAt with one it captured before the claim, each on its own *)
(* clock: skew shortens a lease by no more than itself.                    *)
NoEarlyTakeover ==
    [][\A r \in Rows :
         /\ outbox[r].status = "publishing"
         /\ outbox'[r].status = "publishing"
         /\ outbox'[r].lockedBy # outbox[r].lockedBy
         => outbox[r].lockedAt + LockTimeout <= clock + MaxSkew]_vars

(* What a publisher process carries: it holds the event it sent until it   *)
(* has settled it, an acked event is in the topic, it works only on rows   *)
(* that were accepted, and every time it captured is past on some clock.   *)
PublisherInv ==
    \A i \in Instances :
        /\ pc[i] \in {"acked", "failing"} => batch[i] # <<>>
        /\ pc[i] = "acked" => Event(i).id \in delivered
        /\ \A k \in DOMAIN batch[i] : batch[i][k].id \in messages
        /\ now[i] <= clock + MaxSkew

(* The inductive invariant of the outbox: the promises about rows, with    *)
(* what the publishers carry between their steps and the fact that only    *)
(* accepted events reach the topic.                                        *)
InductiveInvariant ==
    /\ TypeOK
    /\ PublisherInv
    /\ delivered \subseteq messages
    /\ PublishedImpliesDelivered
    /\ NoLostEvent
    /\ AttemptsWithinBudget
    /\ LockConsistent

(* "Failed rows are terminal until an operator explicitly redrives them":  *)
(* a failed row changes only by a redrive run that had selected it, and it *)
(* then starts over with no attempts used.                                 *)
FailedLeavesOnlyByRedrive ==
    [][\A r \in Rows :
         outbox[r].status = "failed" /\ outbox'[r] # outbox[r]
         => /\ outbox'[r].status = "pending"
            /\ outbox'[r].attempts = 0
            /\ \E o \in Operators : r \in redrive[o].ids]_vars

(* A published row is never published again by the outbox itself: it stays *)
(* as it is until the TTL index removes it, whatever stale publishers,     *)
(* late retries and concurrent redrives still write.                       *)
PublishedIsFinal ==
    [][\A r \in Rows :
         outbox[r].status = "published"
         => outbox'[r] = outbox[r] \/ outbox'[r].status = "absent"]_vars

(* docs/runbooks/outbox.md: "Failed rows are never auto-published".  No    *)
(* send starts for a row that is in status failed.                         *)
FailedNeverPublished ==
    [][\A i \in Instances :
         PublishEvent(i) => outbox[Event(i).id].status # "failed"]_vars

(* Every outstanding row is settled in the end: published, or failed after *)
(* its last attempt.  Rows stranded by a crash or an error come back when  *)
(* their lease is over; retries come due.                                  *)
EventuallySettled ==
    \A r \in Rows :
        outbox[r].status \in {"pending", "publishing"}
        ~> outbox[r].status \notin {"pending", "publishing"}

-----------------------------------------------------------------------------
(* What the outbox promises, as a refinement: the phase of each event.     *)

phase ==
    [r \in Rows |->
        CASE r \notin messages -> "none"
          [] r \in messages /\ outbox[r].status = "absent" -> "purged"
          [] r \in messages /\ outbox[r].status = "published" -> "confirmed"
          [] r \in messages /\ outbox[r].status = "failed" -> "given_up"
          [] OTHER -> "waiting"]

Contract == INSTANCE DeliveryContract WITH Events <- Rows

(* Every step of the outbox is a step of the delivery contract, or         *)
(* invisible to it.                                                        *)
ImplementsContract == Contract!Spec

=============================================================================
