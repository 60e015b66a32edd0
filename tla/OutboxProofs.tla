---------------------------- MODULE OutboxProofs ----------------------------
(* Proofs about the transactional outbox, for every value of the constants.*)
EXTENDS Outbox, TLAPS

(* calculateRetryDelayMs returns a natural number.                       *)
LEMMA DelaysAreNat ==
    ASSUME NEW n \in Nat, NEW d \in RetryDelays(n) PROVE d \in Nat
BY ConstantsAssumption DEF RetryDelays

(* What a host reads from its clock is off by the skew at most.            *)
LEMMA ReadingsAreNat ==
    ASSUME clock \in Nat, NEW t \in Readings
    PROVE  t \in Nat /\ t <= clock + MaxSkew
BY ConstantsAssumption DEF Readings

(* The initial state is well typed.                                      *)
LEMMA TypeInit == Init => TypeOK
BY ConstantsAssumption DEF Init, TypeOK, Doc, Absent, Statuses, PcValues, Alive,
   Running, Gone, NoRedrive, Claimed

(* The head of a batch is a claim, and so are the elements of its tail.  *)
LEMMA HeadType ==
    ASSUME TypeOK, NEW i \in Instances, batch[i] # <<>>
    PROVE  /\ Event(i) \in Claimed
           /\ Tail(batch[i]) \in Seq(Claimed)
BY DEF TypeOK, Event

(* A claim keeps a document well formed.                                 *)
LEMMA ClaimedDocType ==
    ASSUME NEW doc \in Doc, NEW i \in Instances, NEW t \in Nat
    PROVE ClaimedDoc(doc, i, t) \in Doc
BY DEF ClaimedDoc, Doc, Statuses

(* findOneAndUpdate keeps the collection well formed.                    *)
LEMMA TypeClaim ==
    ASSUME TypeOK, NEW i \in Instances, NEW r \in Rows, Claim(i, r)
    PROVE outbox' \in [Rows -> Doc]
<1>1. ClaimedDoc(outbox[r], i, now[i]) \in Doc
  BY ClaimedDocType DEF TypeOK
<1> QED
  BY <1>1 DEF TypeOK, Claim

(* An update under the lock-owner filter writes a document or nothing.   *)
LEMMA TypeUpdateOwned ==
    ASSUME TypeOK, NEW i \in Instances, NEW doc \in Doc, UpdateOwned(i, doc)
    PROVE outbox' \in [Rows -> Doc]
BY DEF TypeOK, UpdateOwned

(* markPublished keeps a document well formed.                           *)
LEMMA PublishedDocType ==
    ASSUME NEW doc \in Doc PROVE PublishedDoc(doc) \in Doc
BY ConstantsAssumption DEF PublishedDoc, Doc, Statuses

(* So do scheduleRetry and markFailed.                                   *)
LEMMA TypeRecordFailure ==
    ASSUME TypeOK, NEW i \in Instances, batch[i] # <<>>, RecordFailure(i)
    PROVE outbox' \in [Rows -> Doc]
<1>1. Event(i).attempts + 1 \in Nat
  BY HeadType DEF Claimed
<1>2. PICK wait \in RetryDelays(Event(i).attempts + 1) :
        UpdateOwned(i, FailureDoc(Event(i).attempts + 1, now[i], wait))
  BY DEF RecordFailure
<1>3. wait \in Nat
  BY <1>1, DelaysAreNat
<1>4. FailureDoc(Event(i).attempts + 1, now[i], wait) \in Doc
  BY <1>1, <1>3 DEF FailureDoc, Doc, Statuses, TypeOK
<1> QED
  BY <1>2, <1>4, TypeUpdateOwned

(* The end of a run leaves a well-typed publisher.                       *)
LEMMA TypeEndRun ==
    ASSUME TypeOK, NEW i \in Instances, EndRun(i)
    PROVE  /\ pc' \in [Instances -> PcValues]
           /\ stopping' \in [Instances -> BOOLEAN]
           /\ now' \in [Instances -> Nat]
           /\ batch' \in [Instances -> Seq(Claimed)]
BY DEF TypeOK, EndRun, RestPc, PcValues, Alive, Running, Gone

(* So does the step to the next event of a batch.                        *)
LEMMA TypeAdvance ==
    ASSUME TypeOK, NEW i \in Instances, batch[i] # <<>>, Advance(i)
    PROVE  /\ pc' \in [Instances -> PcValues]
           /\ stopping' \in [Instances -> BOOLEAN]
           /\ now' \in [Instances -> Nat]
           /\ batch' \in [Instances -> Seq(Claimed)]
BY HeadType DEF TypeOK, Advance, PcValues, Alive, Running

(* So does the catch block of publishEvent.                              *)
LEMMA TypeEnterFailure ==
    ASSUME TypeOK, NEW i \in Instances, EnterFailure(i)
    PROVE  /\ pc' \in [Instances -> PcValues]
           /\ stopping' \in [Instances -> BOOLEAN]
           /\ now' \in [Instances -> Nat]
           /\ batch' \in [Instances -> Seq(Claimed)]
<1>1. PICK t \in Readings : now' = [now EXCEPT ![i] = t]
  BY DEF EnterFailure
<1>2. t \in Nat
  BY ReadingsAreNat DEF TypeOK
<1> QED
  BY <1>1, <1>2 DEF TypeOK, EnterFailure, PcValues, Alive, Running

(* A publisher past a send still holds the event it sent.                  *)
InHand ==
    \A i \in Instances : pc[i] \in {"acked", "failing"} => batch[i] # <<>>

(* Every step keeps the types while publishers have events in hand.      *)
LEMMA TypeStep ==
    ASSUME TypeOK, InHand, [Next]_vars
    PROVE  TypeOK'
<1> USE DEF store, publisher
<1>1. ASSUME NEW i \in Instances, Start(i) PROVE TypeOK'
  BY <1>1 DEF TypeOK, Start, PcValues, Alive
<1>2. ASSUME NEW i \in Instances, StartRun(i) PROVE TypeOK'
  <2>1. PICK t \in Readings : now' = [now EXCEPT ![i] = t]
    BY <1>2 DEF StartRun
  <2>2. t \in Nat
    BY ReadingsAreNat DEF TypeOK
  <2> QED
    BY <1>2, <2>1, <2>2 DEF TypeOK, StartRun, PcValues, Alive, Running
<1>3. ASSUME NEW i \in Instances, ClaimNext(i) PROVE TypeOK'
  <2>1. PICK r \in Rows :
          /\ Claim(i, r)
          /\ batch' = [batch EXCEPT ![i] =
                        Append(@, [id |-> r, attempts |-> outbox[r].attempts])]
    BY <1>3 DEF ClaimNext
  <2>2. [id |-> r, attempts |-> outbox[r].attempts] \in Claimed
    BY DEF TypeOK, Claimed, Doc
  <2>3. batch' \in [Instances -> Seq(Claimed)]
    BY <2>1, <2>2 DEF TypeOK
  <2> QED
    BY <1>3, <2>1, <2>3, TypeClaim DEF TypeOK, ClaimNext
<1>4. ASSUME NEW i \in Instances, ClaimEnd(i) PROVE TypeOK'
  BY <1>4 DEF TypeOK, ClaimEnd, PcValues, Alive, Running
<1>5. ASSUME NEW i \in Instances, ClaimError(i) PROVE TypeOK'
  <2>1. outbox' \in [Rows -> Doc]
    BY <1>5, TypeClaim DEF ClaimError, TypeOK
  <2> QED
    BY <1>5, <2>1, TypeEndRun DEF TypeOK, ClaimError, Fault
<1>6. ASSUME NEW i \in Instances, PublishEvent(i) PROVE TypeOK'
  BY <1>6, HeadType DEF TypeOK, PublishEvent, PcValues, Alive, Running, Claimed
<1>7. ASSUME NEW i \in Instances, PublishError(i) PROVE TypeOK'
  <2>1. Event(i).id \in Rows
    BY <1>7, HeadType DEF PublishError, Claimed
  <2>2. delivered' = delivered \/ delivered' = delivered \cup {Event(i).id}
    BY <1>7 DEF PublishError
  <2>3. delivered' \subseteq Rows
    BY <2>1, <2>2 DEF TypeOK
  <2> QED
    BY <1>7, <2>3, TypeEnterFailure DEF TypeOK, PublishError
<1>8. ASSUME NEW i \in Instances, batch[i] # <<>>
      PROVE PublishedDoc(outbox[Event(i).id]) \in Doc
  BY <1>8, HeadType, PublishedDocType DEF TypeOK, Claimed
<1>9. ASSUME NEW i \in Instances, MarkPublished(i) PROVE TypeOK'
  <2>1. batch[i] # <<>>
    BY <1>9 DEF InHand, MarkPublished
  <2> QED
    BY <1>8, <1>9, <2>1, TypeAdvance, TypeUpdateOwned DEF TypeOK, MarkPublished
<1>10. ASSUME NEW i \in Instances, MarkPublishedError(i) PROVE TypeOK'
  <2>1. outbox' \in [Rows -> Doc]
    BY <1>8, <1>10, TypeUpdateOwned DEF InHand, MarkPublishedError, TypeOK
  <2> QED
    BY <1>10, <2>1, TypeEnterFailure DEF TypeOK, MarkPublishedError, Fault
<1>11. ASSUME NEW i \in Instances, HandlePublishFailure(i) PROVE TypeOK'
  <2>1. batch[i] # <<>>
    BY <1>11 DEF InHand, HandlePublishFailure
  <2> QED
    BY <1>11, <2>1, TypeAdvance, TypeRecordFailure
       DEF TypeOK, HandlePublishFailure
<1>12. ASSUME NEW i \in Instances, HandlePublishFailureError(i) PROVE TypeOK'
  <2>1. outbox' \in [Rows -> Doc]
    BY <1>12, TypeRecordFailure DEF InHand, HandlePublishFailureError, TypeOK
  <2> QED
    BY <1>12, <2>1, TypeEndRun DEF TypeOK, HandlePublishFailureError, Fault
<1>13. ASSUME NEW i \in Instances, FinishRun(i) PROVE TypeOK'
  BY <1>13, TypeEndRun DEF TypeOK, FinishRun
<1>14. ASSUME NEW i \in Instances, Shutdown(i) PROVE TypeOK'
  BY <1>14 DEF TypeOK, Shutdown, PcValues, Gone
<1>15. ASSUME NEW i \in Instances, Crash(i) PROVE TypeOK'
  BY <1>15 DEF TypeOK, Crash, PcValues, Gone
<1>16. ASSUME NEW r \in Rows, CreateMessage(r) PROVE TypeOK'
  <2>1. PICK at \in 0 .. clock + MaxSkew :
          outbox' = [outbox EXCEPT ![r] = [status |-> "pending", attempts |-> 0,
                                           nextAttemptAt |-> at,
                                           lockedBy |-> NoOwner,
                                           lockedAt |-> 0]]
    BY <1>16 DEF CreateMessage
  <2>2. outbox' \in [Rows -> Doc]
    BY <2>1 DEF TypeOK, Doc, Statuses
  <2> QED
    BY <1>16, <2>2 DEF TypeOK, CreateMessage
<1>17. ASSUME NEW r \in Rows, Expire(r) PROVE TypeOK'
  <2>1. Absent \in Doc
    BY DEF Absent, Doc, Statuses
  <2> QED
    BY <1>17, <2>1 DEF TypeOK, Expire
<1> DEFINE Run == [step: {"begin", "find", "update", "done"},
                   now: Nat, ids: SUBSET Rows]
<1>18. RedriveDone \in Run
  BY DEF RedriveDone
<1>19. ASSUME NEW o \in Operators, Redrive(o) PROVE TypeOK'
  <2>1. CASE RedriveBegin(o)
    <3>1. PICK t \in Readings :
            redrive' = [redrive EXCEPT ![o] =
                          [step |-> "find", now |-> t, ids |-> {}]]
      BY <2>1 DEF RedriveBegin
    <3>2. [step |-> "find", now |-> t, ids |-> {}] \in Run
      BY ReadingsAreNat DEF TypeOK
    <3> QED
      BY <2>1, <3>1, <3>2 DEF TypeOK, RedriveBegin
  <2>2. CASE RedriveFind(o)
    <3>1. PICK selection \in SUBSET Rows, limit \in 1 .. Cardinality(Rows),
               dryRun \in BOOLEAN :
            redrive' = [redrive EXCEPT ![o] =
              IF OldestFailed(selection, limit) = {} \/ dryRun THEN RedriveDone
              ELSE [@ EXCEPT !.step = "update",
                             !.ids = OldestFailed(selection, limit)]]
      BY <2>2 DEF RedriveFind
    <3>2. OldestFailed(selection, limit) \subseteq Rows
      BY DEF OldestFailed
    <3>3. [redrive[o] EXCEPT !.step = "update",
                             !.ids = OldestFailed(selection, limit)] \in Run
      BY <3>2 DEF TypeOK
    <3>4. redrive' \in [Operators -> Run]
      BY <1>18, <3>1, <3>3 DEF TypeOK
    <3> QED
      BY <2>2, <3>4 DEF TypeOK, RedriveFind
  <2>3. ASSUME NEW r \in Rows, RedriveUpdate(o, r) PROVE TypeOK'
    <3>1. RedrivenDoc(outbox[r], redrive[o].now) \in Doc
      BY DEF TypeOK, RedrivenDoc, Doc, Statuses
    <3>2. redrive[o] \in Run
      BY DEF TypeOK
    <3>3. WithoutRow(redrive[o], r) \in Run
      BY <1>18, <3>2 DEF WithoutRow
    <3>4. redrive' \in [Operators -> Run]
      BY <2>3, <3>3 DEF TypeOK, RedriveUpdate
    <3>5. outbox' \in [Rows -> Doc]
      BY <2>3, <3>1 DEF TypeOK, RedriveUpdate
    <3> QED
      BY <2>3, <3>4, <3>5 DEF TypeOK, RedriveUpdate
  <2>4. CASE RedriveAbort(o)
    BY <1>18, <2>4 DEF TypeOK, RedriveAbort
  <2> QED
    BY <1>19, <2>1, <2>2, <2>3, <2>4 DEF Redrive
<1>20. CASE Tick
  BY <1>20 DEF TypeOK, Tick
<1>21. CASE UNCHANGED vars
  BY <1>21 DEF TypeOK, vars
<1> QED
  BY <1>1, <1>2, <1>3, <1>4, <1>5, <1>6, <1>7, <1>9, <1>10, <1>11, <1>12,
     <1>13, <1>14, <1>15, <1>16, <1>17, <1>19, <1>20, <1>21 DEF Next, RunStep

-----------------------------------------------------------------------------
(* What a step can do to one row.                                          *)

PendingDoc(t) == [status |-> "pending", attempts |-> 0, nextAttemptAt |-> t,
                  lockedBy |-> NoOwner, lockedAt |-> 0]

Created(r) ==
    /\ r \notin messages
    /\ r \in messages'
    /\ \E t \in Nat : outbox'[r] = PendingDoc(t)

ClaimedNow(r) ==
    \E i \in Instances :
        /\ pc[i] = "claiming"
        /\ IsPublishable(outbox[r], now[i])
        /\ outbox'[r] = ClaimedDoc(outbox[r], i, now[i])

Confirmed(r) ==
    \E i \in Instances :
        /\ pc[i] = "acked"
        /\ r = Event(i).id
        /\ OwnsLock(i, r)
        /\ outbox'[r] = PublishedDoc(outbox[r])

FailedOnce(r) ==
    \E i \in Instances, wait \in Nat :
        /\ pc[i] = "failing"
        /\ r = Event(i).id
        /\ OwnsLock(i, r)
        /\ outbox'[r] = FailureDoc(Event(i).attempts + 1, now[i], wait)

Redriven(r) ==
    /\ outbox[r].status = "failed"
    /\ \E o \in Operators :
         /\ r \in redrive[o].ids
         /\ outbox'[r] = PendingDoc(redrive[o].now)

Expired(r) ==
    /\ outbox[r].status = "published"
    /\ outbox'[r] = Absent

RowStep(r) ==
    \/ outbox'[r] = outbox[r]
    \/ Created(r)
    \/ ClaimedNow(r)
    \/ Confirmed(r)
    \/ FailedOnce(r)
    \/ Redriven(r)
    \/ Expired(r)

(* What claimPublishable does to a row.                                  *)
LEMMA ClaimCases ==
    ASSUME TypeOK, NEW i \in Instances, pc[i] = "claiming",
           NEW q \in Rows, Claim(i, q), NEW r \in Rows
    PROVE  RowStep(r)
<1>1. CASE r = q
  <2>1. outbox'[r] = ClaimedDoc(outbox[r], i, now[i])
    BY <1>1 DEF Claim, TypeOK
  <2>2. IsPublishable(outbox[r], now[i])
    BY <1>1 DEF Claim, Publishable
  <2> QED
    BY <2>1, <2>2 DEF RowStep, ClaimedNow
<1>2. CASE r # q
  BY <1>2 DEF Claim, TypeOK, RowStep
<1> QED
  BY <1>1, <1>2

(* What markPublished does to a row.                                     *)
LEMMA PublishedCases ==
    ASSUME TypeOK, NEW i \in Instances, pc[i] = "acked",
           UpdateOwned(i, PublishedDoc(outbox[Event(i).id])), NEW r \in Rows
    PROVE  RowStep(r)
<1>1. CASE r = Event(i).id /\ OwnsLock(i, r)
  <2>1. outbox'[r] = PublishedDoc(outbox[r])
    BY <1>1 DEF UpdateOwned, TypeOK
  <2> QED
    BY <1>1, <2>1 DEF RowStep, Confirmed
<1>2. CASE ~(r = Event(i).id /\ OwnsLock(i, r))
  BY <1>2 DEF UpdateOwned, TypeOK, RowStep
<1> QED
  BY <1>1, <1>2

(* What scheduleRetry and markFailed do to a row.                        *)
LEMMA FailureCases ==
    ASSUME TypeOK, NEW i \in Instances, pc[i] = "failing", batch[i] # <<>>,
           RecordFailure(i), NEW r \in Rows
    PROVE  RowStep(r)
<1>1. Event(i).attempts + 1 \in Nat
  BY HeadType DEF Claimed
<1>2. PICK wait \in RetryDelays(Event(i).attempts + 1) :
        UpdateOwned(i, FailureDoc(Event(i).attempts + 1, now[i], wait))
  BY DEF RecordFailure
<1>3. wait \in Nat
  BY <1>1, DelaysAreNat
<1>4. CASE r = Event(i).id /\ OwnsLock(i, r)
  <2>1. outbox'[r] = FailureDoc(Event(i).attempts + 1, now[i], wait)
    BY <1>2, <1>4 DEF UpdateOwned, TypeOK
  <2> QED
    BY <1>3, <1>4, <2>1 DEF RowStep, FailedOnce
<1>5. CASE ~(r = Event(i).id /\ OwnsLock(i, r))
  BY <1>2, <1>5 DEF UpdateOwned, TypeOK, RowStep
<1> QED
  BY <1>4, <1>5

(* Every step changes a row in one of the ways above, or not at all.       *)
LEMMA RowCases ==
    ASSUME TypeOK, InHand, [Next]_vars, NEW r \in Rows
    PROVE  RowStep(r)
<1> USE DEF store, publisher
<1>1. CASE UNCHANGED outbox
  BY <1>1 DEF RowStep
<1>2. ASSUME NEW i \in Instances, RunStep(i) PROVE RowStep(r)
  <2>1. CASE ClaimNext(i)
    BY <2>1, ClaimCases DEF ClaimNext
  <2>2. CASE ClaimError(i)
    BY <1>1, <2>2, ClaimCases DEF ClaimError
  <2>3. CASE MarkPublished(i)
    BY <2>3, PublishedCases DEF MarkPublished
  <2>4. CASE MarkPublishedError(i)
    BY <1>1, <2>4, PublishedCases DEF MarkPublishedError
  <2>5. CASE HandlePublishFailure(i)
    BY <2>5, FailureCases DEF HandlePublishFailure, InHand
  <2>6. CASE HandlePublishFailureError(i)
    BY <1>1, <2>6, FailureCases DEF HandlePublishFailureError, InHand
  <2>7. CASE StartRun(i) \/ ClaimEnd(i) \/ PublishEvent(i) \/ PublishError(i)
             \/ FinishRun(i)
    BY <1>1, <2>7 DEF StartRun, ClaimEnd, PublishEvent, PublishError, FinishRun
  <2> QED
    BY <1>2, <2>1, <2>2, <2>3, <2>4, <2>5, <2>6, <2>7 DEF RunStep
<1>3. ASSUME NEW i \in Instances, Start(i) \/ Shutdown(i) \/ Crash(i)
      PROVE RowStep(r)
  BY <1>1, <1>3 DEF Start, Shutdown, Crash
<1>4. ASSUME NEW q \in Rows, CreateMessage(q) PROVE RowStep(r)
  <2>1. PICK at \in 0 .. clock + MaxSkew : outbox' = [outbox EXCEPT ![q] = PendingDoc(at)]
    BY <1>4 DEF CreateMessage, PendingDoc
  <2>2. at \in Nat
    BY DEF TypeOK
  <2>3. CASE r = q
    BY <1>4, <2>1, <2>2, <2>3 DEF CreateMessage, TypeOK, RowStep, Created
  <2>4. CASE r # q
    BY <2>1, <2>4 DEF TypeOK, RowStep
  <2> QED
    BY <2>3, <2>4
<1>5. ASSUME NEW q \in Rows, Expire(q) PROVE RowStep(r)
  BY <1>5 DEF Expire, TypeOK, RowStep, Expired
<1>6. ASSUME NEW o \in Operators, Redrive(o) PROVE RowStep(r)
  <2>1. ASSUME NEW q \in Rows, RedriveUpdate(o, q) PROVE RowStep(r)
    <3>1. CASE r = q /\ outbox[r].status = "failed"
      <4>1. outbox'[r] = PendingDoc(redrive[o].now)
        BY <2>1, <3>1 DEF RedriveUpdate, RedrivenDoc, PendingDoc, TypeOK
      <4> QED
        BY <2>1, <3>1, <4>1 DEF RedriveUpdate, RowStep, Redriven
    <3>2. CASE ~(r = q /\ outbox[r].status = "failed")
      BY <2>1, <3>2 DEF RedriveUpdate, RedrivenDoc, TypeOK, RowStep
    <3> QED
      BY <3>1, <3>2
  <2>2. CASE RedriveBegin(o) \/ RedriveFind(o) \/ RedriveAbort(o)
    BY <1>1, <2>2 DEF RedriveBegin, RedriveFind, RedriveAbort
  <2> QED
    BY <1>6, <2>1, <2>2 DEF Redrive
<1>7. CASE Tick
  BY <1>1, <1>7 DEF Tick
<1>8. CASE UNCHANGED vars
  BY <1>1, <1>8 DEF vars
<1> QED
  BY <1>2, <1>3, <1>4, <1>5, <1>6, <1>7, <1>8 DEF Next

(* Nothing that was accepted, delivered or started is taken back, and only *)
(* CreateMessage accepts.                                                  *)
LEMMA Monotone ==
    ASSUME TypeOK, PublisherInv, delivered \subseteq messages, [Next]_vars
    PROVE  /\ messages \subseteq messages'
           /\ delivered \subseteq delivered'
           /\ delivered' \subseteq messages'
           /\ clock <= clock'
           /\ \A r \in messages' \ messages : Created(r)
           /\ \A i \in Instances : pc[i] # "new" => pc'[i] # "new"
<1> DEFINE Goal == /\ messages \subseteq messages'
                   /\ delivered \subseteq delivered'
                   /\ delivered' \subseteq messages'
                   /\ clock <= clock'
                   /\ \A r \in messages' \ messages : Created(r)
                   /\ \A i \in Instances : pc[i] # "new" => pc'[i] # "new"
<1> USE DEF store, publisher
<1>1. ASSUME NEW i \in Instances, batch[i] # <<>> PROVE Event(i).id \in messages
  <2>1. 1 \in DOMAIN batch[i] /\ Event(i) = batch[i][1]
    BY <1>1 DEF TypeOK, Event
  <2> QED
    BY <2>1 DEF PublisherInv
<1>2. ASSUME NEW i \in Instances, RunStep(i) PROVE Goal
  <2>1. CASE PublishEvent(i)
    BY <1>1, <2>1 DEF PublishEvent, TypeOK
  <2>2. CASE PublishError(i)
    <3>1. delivered' = delivered \/ delivered' = delivered \cup {Event(i).id}
      BY <2>2 DEF PublishError
    <3>2. clock' = clock /\ messages' = messages /\ pc' = [pc EXCEPT ![i] = "failing"]
      BY <2>2 DEF PublishError, EnterFailure
    <3> QED
      BY <1>1, <2>2, <3>1, <3>2 DEF PublishError, TypeOK
  <2>3. CASE StartRun(i) \/ ClaimNext(i) \/ ClaimEnd(i)
    BY <2>3 DEF StartRun, ClaimNext, ClaimEnd, TypeOK
  <2>4. CASE ClaimError(i) \/ HandlePublishFailureError(i) \/ FinishRun(i)
    BY <2>4 DEF ClaimError, HandlePublishFailureError, FinishRun, EndRun, RestPc,
                TypeOK
  <2>5. CASE MarkPublished(i) \/ HandlePublishFailure(i)
    BY <2>5 DEF MarkPublished, HandlePublishFailure, Advance, TypeOK
  <2>6. CASE MarkPublishedError(i)
    BY <2>6 DEF MarkPublishedError, EnterFailure, TypeOK
  <2> QED
    BY <1>2, <2>1, <2>2, <2>3, <2>4, <2>5, <2>6 DEF RunStep
<1>3. ASSUME NEW i \in Instances, Start(i) \/ Shutdown(i) \/ Crash(i) PROVE Goal
  <2>1. UNCHANGED <<clock, store>>
    BY <1>3 DEF Start, Shutdown, Crash
  <2>2. \A j \in Instances : pc[j] # "new" => pc'[j] # "new"
    BY <1>3 DEF Start, Shutdown, Crash, TypeOK
  <2> QED
    BY <2>1, <2>2 DEF TypeOK
<1>4. ASSUME NEW r \in Rows, CreateMessage(r) PROVE Goal
  <2>1. \E t \in Nat : outbox'[r] = PendingDoc(t)
    <3>1. PICK at \in 0 .. clock + MaxSkew :
            outbox' = [outbox EXCEPT ![r] = PendingDoc(at)]
      BY <1>4 DEF CreateMessage, PendingDoc
    <3> QED
      BY <3>1 DEF TypeOK
  <2> QED
    BY <1>4, <2>1 DEF CreateMessage, Created, TypeOK
<1>5. ASSUME NEW r \in Rows, Expire(r) PROVE Goal
  BY <1>5 DEF Expire, TypeOK
<1>6. ASSUME NEW o \in Operators, Redrive(o) PROVE Goal
  <2>1. UNCHANGED <<clock, messages, delivered, pc>>
    BY <1>6 DEF Redrive, RedriveBegin, RedriveFind, RedriveUpdate, RedriveAbort
  <2> QED
    BY <2>1 DEF TypeOK
<1>7. CASE Tick
  BY <1>7 DEF Tick, TypeOK
<1>8. CASE UNCHANGED vars
  BY <1>8 DEF vars, TypeOK
<1> QED
  BY <1>2, <1>3, <1>4, <1>5, <1>6, <1>7, <1>8 DEF Next

(* The part of PublisherInv about one instance.                            *)
CarriesWell(i) ==
    /\ pc[i] \in {"acked", "failing"} => batch[i] # <<>>
    /\ pc[i] = "acked" => Event(i).id \in delivered
    /\ \A k \in DOMAIN batch[i] : batch[i][k].id \in messages
    /\ now[i] <= clock + MaxSkew

(* Every step keeps what the publishers carry between their steps.       *)
LEMMA PublisherStep ==
    ASSUME TypeOK, PublisherInv, delivered \subseteq messages, NoLostEvent,
           [Next]_vars
    PROVE  PublisherInv'
<1> USE DEF store, publisher
<1>1. /\ messages \subseteq messages'
      /\ delivered \subseteq delivered'
      /\ clock <= clock'
  BY Monotone
<1>2. clock \in Nat /\ clock' \in Nat /\ now \in [Instances -> Nat]
      /\ now' \in [Instances -> Nat] /\ MaxSkew \in Nat
  BY TypeStep, ConstantsAssumption DEF TypeOK, PublisherInv, InHand
<1>3. ASSUME NEW j \in Instances,
             pc'[j] = pc[j], batch'[j] = batch[j], now'[j] = now[j]
      PROVE CarriesWell(j)'
  <2>1. CarriesWell(j)
    BY DEF PublisherInv, CarriesWell
  <2>2. now'[j] <= clock' + MaxSkew
    BY <1>1, <1>2, <1>3, <2>1 DEF CarriesWell
  <2> QED
    BY <1>1, <1>3, <2>1, <2>2 DEF CarriesWell, Event
<1>4. ASSUME NEW i \in Instances, RunStep(i), NEW j \in Instances
      PROVE CarriesWell(j)'
  <2>1. CASE j # i
    <3>1. pc'[j] = pc[j] /\ batch'[j] = batch[j] /\ now'[j] = now[j]
      BY <1>4, <2>1
         DEF RunStep, StartRun, ClaimNext, ClaimEnd, ClaimError, PublishEvent,
             PublishError, MarkPublished, MarkPublishedError,
             HandlePublishFailure, HandlePublishFailureError, FinishRun,
             EndRun, Advance, EnterFailure, TypeOK
    <3> QED
      BY <1>3, <3>1
  <2>2. CASE j = i
    <3>1. CarriesWell(i)
      BY DEF PublisherInv, CarriesWell
    <3>2. CASE StartRun(i)
      <4>1. PICK t \in Readings : now' = [now EXCEPT ![i] = t]
        BY <3>2 DEF StartRun
      <4>2. now'[i] = t /\ t \in Nat /\ t <= clock + MaxSkew
        BY <1>2, <4>1, ReadingsAreNat
      <4> QED
        BY <1>1, <1>2, <3>1, <3>2, <4>2, <2>2 DEF StartRun, CarriesWell, TypeOK
    <3>3. CASE ClaimNext(i)
      <4>1. PICK r \in Rows :
              /\ Claim(i, r)
              /\ batch' = [batch EXCEPT ![i] =
                   Append(@, [id |-> r, attempts |-> outbox[r].attempts])]
        BY <3>3 DEF ClaimNext
      <4>2. r \in messages
        BY <4>1 DEF Claim, Publishable, IsPublishable, NoLostEvent
      <4>3. [id |-> r, attempts |-> outbox[r].attempts] \in Claimed
        BY DEF TypeOK, Claimed, Doc
      <4>4. batch'[i] = Append(batch[i],
                               [id |-> r, attempts |-> outbox[r].attempts])
        BY <4>1 DEF TypeOK
      <4>5. \A k \in DOMAIN batch'[i] : batch'[i][k].id \in messages
        <5>1. batch[i] \in Seq(Claimed)
          BY DEF TypeOK
        <5>2. TAKE k \in DOMAIN batch'[i]
        <5>3. CASE k = Len(batch[i]) + 1
          BY <4>2, <4>3, <4>4, <5>1, <5>3
        <5>4. CASE k # Len(batch[i]) + 1
          <6>1. k \in DOMAIN batch[i] /\ batch'[i][k] = batch[i][k]
            BY <4>3, <4>4, <5>1, <5>2, <5>4
          <6> QED
            BY <3>1, <6>1 DEF CarriesWell
        <5> QED
          BY <5>3, <5>4
      <4> QED
        BY <1>1, <1>2, <2>2, <3>1, <3>3, <4>5 DEF ClaimNext, CarriesWell
    <3>4. CASE ClaimEnd(i)
      BY <1>1, <1>2, <2>2, <3>1, <3>4 DEF ClaimEnd, CarriesWell, TypeOK
    <3>5. CASE ClaimError(i) \/ HandlePublishFailureError(i) \/ FinishRun(i)
      <4>1. EndRun(i)
        BY <3>5 DEF ClaimError, HandlePublishFailureError, FinishRun
      <4>2. pc'[i] \in {"stopped", "idle"} /\ batch'[i] = <<>> /\ now'[i] = 0
        BY <4>1 DEF EndRun, RestPc, TypeOK
      <4> QED
        BY <1>2, <2>2, <4>2 DEF CarriesWell
    <3>6. CASE PublishEvent(i)
      BY <1>1, <1>2, <2>2, <3>1, <3>6 DEF PublishEvent, CarriesWell, Event, TypeOK
    <3>7. CASE PublishError(i) \/ MarkPublishedError(i)
      <4>1. EnterFailure(i) /\ batch[i] # <<>> /\ clock' = clock
        BY <3>1, <3>7 DEF PublishError, MarkPublishedError, CarriesWell
      <4>2. PICK t \in Readings : now' = [now EXCEPT ![i] = t]
        BY <4>1 DEF EnterFailure
      <4>3. now'[i] = t /\ t \in Nat /\ t <= clock + MaxSkew
        BY <1>2, <4>2, ReadingsAreNat
      <4> QED
        BY <1>1, <1>2, <2>2, <3>1, <4>1, <4>3 DEF EnterFailure, CarriesWell, TypeOK
    <3>8. CASE MarkPublished(i) \/ HandlePublishFailure(i)
      <4>1. Advance(i) /\ batch[i] # <<>>
        BY <3>1, <3>8 DEF MarkPublished, HandlePublishFailure, CarriesWell
      <4>2. pc'[i] = "publishing" /\ batch'[i] = Tail(batch[i]) /\ now'[i] = 0
        BY <4>1 DEF Advance, TypeOK
      <4>3. \A k \in DOMAIN Tail(batch[i]) :
              k + 1 \in DOMAIN batch[i] /\ Tail(batch[i])[k] = batch[i][k + 1]
        BY <4>1 DEF TypeOK
      <4>4. \A k \in DOMAIN batch'[i] : batch'[i][k].id \in messages'
        BY <1>1, <3>1, <4>2, <4>3 DEF CarriesWell
      <4>5. now'[i] <= clock' + MaxSkew
        BY <1>2, <4>2
      <4> QED
        BY <2>2, <4>2, <4>4, <4>5 DEF CarriesWell
    <3> QED
      BY <1>4, <3>2, <3>3, <3>4, <3>5, <3>6, <3>7, <3>8 DEF RunStep
  <2> QED
    BY <2>1, <2>2
<1>5. ASSUME NEW i \in Instances, Start(i) \/ Shutdown(i) \/ Crash(i),
             NEW j \in Instances
      PROVE CarriesWell(j)'
  <2>1. CarriesWell(j)
    BY DEF PublisherInv, CarriesWell
  <2>2. CASE Start(i) \/ Shutdown(i)
    BY <1>1, <1>2, <2>1, <2>2 DEF Start, Shutdown, CarriesWell, Event, TypeOK
  <2>3. CASE Crash(i)
    <3>1. CASE j = i
      BY <1>2, <2>3, <3>1 DEF Crash, CarriesWell, TypeOK
    <3>2. CASE j # i
      BY <1>3, <2>3, <3>2 DEF Crash, TypeOK
    <3> QED
      BY <3>1, <3>2
  <2> QED
    BY <1>5, <2>2, <2>3
<1>6. ASSUME UNCHANGED publisher, NEW j \in Instances PROVE CarriesWell(j)'
  BY <1>3, <1>6
<1>7. \A j \in Instances : CarriesWell(j)'
  <2>1. CASE \E i \in Instances : RunStep(i)
    BY <1>4, <2>1
  <2>2. CASE \E i \in Instances : Start(i) \/ Shutdown(i) \/ Crash(i)
    BY <1>5, <2>2
  <2>3. CASE \E r \in Rows : CreateMessage(r) \/ Expire(r)
    BY <1>6, <2>3 DEF CreateMessage, Expire
  <2>4. CASE \E o \in Operators : Redrive(o)
    BY <1>6, <2>4 DEF Redrive, RedriveBegin, RedriveFind, RedriveUpdate,
                      RedriveAbort
  <2>5. CASE Tick \/ UNCHANGED vars
    BY <1>6, <2>5 DEF Tick, vars
  <2> QED
    BY <2>1, <2>2, <2>3, <2>4, <2>5 DEF Next
<1> QED
  BY <1>7 DEF PublisherInv, CarriesWell, Event

-----------------------------------------------------------------------------
(* The invariants about rows, one lemma each, by the cases of RowStep.     *)

(* The event in hand is the first of the batch.                          *)
LEMMA HeadInBatch ==
    ASSUME TypeOK, NEW i \in Instances, batch[i] # <<>>
    PROVE  1 \in DOMAIN batch[i] /\ Event(i) = batch[i][1]
BY DEF TypeOK, Event

(* The fields of a claimed document.                                     *)
LEMMA ClaimedFields ==
    ASSUME NEW doc \in Doc, NEW i, NEW t
    PROVE  /\ ClaimedDoc(doc, i, t).status = "publishing"
           /\ ClaimedDoc(doc, i, t).lockedBy = i
           /\ ClaimedDoc(doc, i, t).lockedAt = t
           /\ ClaimedDoc(doc, i, t).attempts = doc.attempts
BY DEF ClaimedDoc, Doc

(* The fields of a published document.                                   *)
LEMMA PublishedFields ==
    ASSUME NEW doc \in Doc
    PROVE  /\ PublishedDoc(doc).status = "published"
           /\ PublishedDoc(doc).lockedBy = NoOwner
           /\ PublishedDoc(doc).lockedAt = 0
BY DEF PublishedDoc, Doc

(* The fields of a document that is pending or failed.                   *)
LEMMA ResetFields ==
    ASSUME NEW r, Created(r) \/ Redriven(r)
    PROVE  /\ outbox'[r].status = "pending"
           /\ outbox'[r].attempts = 0
           /\ outbox'[r].lockedBy = NoOwner
           /\ outbox'[r].lockedAt = 0
<1>1. PICK t : outbox'[r] = PendingDoc(t)
  BY DEF Created, Redriven
<1> QED
  BY <1>1 DEF PendingDoc

(* The fields of a row the TTL index removed.                            *)
LEMMA ExpiredFields ==
    ASSUME NEW r, Expired(r)
    PROVE  /\ outbox'[r].status = "absent"
           /\ outbox'[r].lockedBy = NoOwner
           /\ outbox'[r].lockedAt = 0
BY DEF Expired, Absent

(* Every step keeps published rows delivered.                            *)
LEMMA DeliveredStep ==
    ASSUME InductiveInvariant, [Next]_vars
    PROVE  PublishedImpliesDelivered'
<1> SUFFICES ASSUME NEW r \in Rows, outbox'[r].status = "published"
             PROVE  r \in delivered'
  BY DEF PublishedImpliesDelivered
<1>1. RowStep(r) /\ delivered \subseteq delivered'
  BY RowCases, Monotone DEF InductiveInvariant, PublisherInv, InHand
<1>2. CASE outbox'[r] = outbox[r]
  BY <1>1, <1>2 DEF InductiveInvariant, PublishedImpliesDelivered
<1>3. CASE Confirmed(r)
  BY <1>1, <1>3 DEF Confirmed, InductiveInvariant, PublisherInv
<1>4. CASE Created(r) \/ Redriven(r) \/ Expired(r)
  BY <1>4, ResetFields, ExpiredFields
<1>5. CASE ClaimedNow(r)
  BY <1>5, ClaimedFields DEF ClaimedNow, InductiveInvariant, TypeOK
<1>6. CASE FailedOnce(r)
  BY <1>6 DEF FailedOnce, FailureDoc
<1> QED
  BY <1>1, <1>2, <1>3, <1>4, <1>5, <1>6 DEF RowStep

(* Every step keeps a row for each message that is not delivered.        *)
LEMMA NoLostStep ==
    ASSUME InductiveInvariant, [Next]_vars
    PROVE  NoLostEvent'
<1> SUFFICES ASSUME NEW r \in Rows
             PROVE  /\ r \in messages' => \/ outbox'[r].status # "absent"
                                          \/ r \in delivered'
                    /\ outbox'[r].status # "absent" => r \in messages'
  BY DEF NoLostEvent
<1>1. /\ RowStep(r)
      /\ delivered \subseteq delivered'
      /\ messages \subseteq messages'
      /\ r \in messages' \ messages => Created(r)
  BY RowCases, Monotone DEF InductiveInvariant, PublisherInv, InHand
<1>2. /\ r \in messages => outbox[r].status # "absent" \/ r \in delivered
      /\ outbox[r].status # "absent" => r \in messages
      /\ outbox[r].status = "published" => r \in delivered
  BY DEF InductiveInvariant, NoLostEvent, PublishedImpliesDelivered
<1>3. CASE Created(r)
  BY <1>1, <1>3 DEF Created, PendingDoc
<1>4. CASE ~Created(r) /\ outbox'[r] = outbox[r]
  BY <1>1, <1>2, <1>4
<1>5. CASE ClaimedNow(r)
  BY <1>1, <1>2, <1>5, ClaimedFields
     DEF ClaimedNow, IsPublishable, InductiveInvariant, TypeOK
<1>6. CASE Confirmed(r)
  BY <1>1, <1>2, <1>6, PublishedFields
     DEF Confirmed, OwnsLock, InductiveInvariant, TypeOK
<1>7. CASE FailedOnce(r)
  BY <1>1, <1>2, <1>7 DEF FailedOnce, FailureDoc, OwnsLock
<1>8. CASE Redriven(r)
  BY <1>1, <1>2, <1>8 DEF Redriven, PendingDoc
<1>9. CASE Expired(r)
  BY <1>1, <1>2, <1>9 DEF Expired, Absent
<1> QED
  BY <1>1, <1>3, <1>4, <1>5, <1>6, <1>7, <1>8, <1>9 DEF RowStep

(* Sums of naturals are not negative.                                    *)
LEMMA SumIsNat == ASSUME NEW a \in Nat, NEW b \in Nat PROVE 0 <= a + b
OBVIOUS

(* Every step keeps locks and the publishing status together.            *)
LEMMA LockStep ==
    ASSUME InductiveInvariant, [Next]_vars
    PROVE  LockConsistent'
<1> SUFFICES ASSUME NEW r \in Rows
             PROVE  /\ outbox'[r].status = "publishing"
                         <=> outbox'[r].lockedBy # NoOwner
                    /\ outbox'[r].lockedBy # NoOwner
                         => pc'[outbox'[r].lockedBy] # "new"
                    /\ outbox'[r].lockedAt <= clock' + MaxSkew
  BY DEF LockConsistent
<1>1. /\ RowStep(r)
      /\ clock <= clock'
      /\ \A i \in Instances : pc[i] # "new" => pc'[i] # "new"
  BY RowCases, Monotone DEF InductiveInvariant, PublisherInv, InHand
<1>2. /\ outbox[r].status = "publishing" <=> outbox[r].lockedBy # NoOwner
      /\ outbox[r].lockedBy # NoOwner => pc[outbox[r].lockedBy] # "new"
      /\ outbox[r].lockedAt <= clock + MaxSkew
      /\ outbox[r] \in Doc
      /\ clock \in Nat /\ clock' \in Nat /\ MaxSkew \in Nat
  BY TypeStep, ConstantsAssumption DEF InductiveInvariant, LockConsistent, TypeOK, PublisherInv, InHand
<1>3. outbox[r].lockedBy \in Instances \cup {NoOwner} /\ outbox[r].lockedAt \in Nat
  BY <1>2 DEF Doc
<1>9. 0 <= clock' + MaxSkew
  <2>1. clock' \in Nat
    BY TypeStep DEF InductiveInvariant, PublisherInv, InHand, TypeOK
  <2>2. MaxSkew \in Nat
    BY ConstantsAssumption
  <2> QED
    BY <2>1, <2>2, SumIsNat
<1>4. CASE outbox'[r] = outbox[r]
  BY <1>1, <1>2, <1>3, <1>4
<1>5. CASE ClaimedNow(r)
  <2>1. PICK i \in Instances :
          /\ pc[i] = "claiming"
          /\ outbox'[r] = ClaimedDoc(outbox[r], i, now[i])
    BY <1>5 DEF ClaimedNow
  <2>2. /\ outbox'[r].status = "publishing"
        /\ outbox'[r].lockedBy = i
        /\ outbox'[r].lockedAt = now[i]
    BY <1>2, <2>1, ClaimedFields
  <2>3. now[i] <= clock + MaxSkew /\ now[i] \in Nat
    BY DEF InductiveInvariant, PublisherInv, TypeOK
  <2> QED
    BY <1>1, <1>2, <2>1, <2>2, <2>3, ConstantsAssumption
<1>6. CASE Confirmed(r)
  BY <1>1, <1>2, <1>6, PublishedFields DEF Confirmed
<1>7. CASE Created(r) \/ Redriven(r) \/ Expired(r)
  <2>1. /\ outbox'[r].status \in {"pending", "absent"}
        /\ outbox'[r].lockedBy = NoOwner
        /\ outbox'[r].lockedAt = 0
    BY <1>7, ResetFields, ExpiredFields
  <2> QED
    BY <1>9, <2>1
<1>8. CASE FailedOnce(r)
  <2>1. /\ outbox'[r].status \in {"pending", "failed"}
        /\ outbox'[r].lockedBy = NoOwner
        /\ outbox'[r].lockedAt = 0
    BY <1>8 DEF FailedOnce, FailureDoc
  <2> QED
    BY <1>9, <2>1
<1> QED
  BY <1>1, <1>4, <1>5, <1>6, <1>7, <1>8 DEF RowStep

(* Every step keeps the attempts of each row within the budget.          *)
LEMMA RowAttemptsStep ==
    ASSUME InductiveInvariant, [Next]_vars, NEW r \in Rows
    PROVE  /\ outbox'[r].status \in {"pending", "publishing"}
                => outbox'[r].attempts < MaxAttempts
           /\ outbox'[r].status = "failed" => outbox'[r].attempts = MaxAttempts
<1>1. RowStep(r)
  BY RowCases DEF InductiveInvariant, PublisherInv, InHand
<1>2. /\ outbox[r].status \in {"pending", "publishing"}
           => outbox[r].attempts < MaxAttempts
      /\ outbox[r].status = "failed" => outbox[r].attempts = MaxAttempts
      /\ outbox[r] \in Doc
  BY DEF InductiveInvariant, AttemptsWithinBudget, TypeOK
<1>3. CASE outbox'[r] = outbox[r]
  BY <1>2, <1>3
<1>4. CASE ClaimedNow(r)
  BY <1>2, <1>4, ClaimedFields DEF ClaimedNow, IsPublishable
<1>5. CASE Confirmed(r)
  BY <1>2, <1>5, PublishedFields DEF Confirmed
<1>6. CASE Created(r) \/ Redriven(r) \/ Expired(r)
  BY <1>6, ResetFields, ExpiredFields, ConstantsAssumption
<1>7. CASE FailedOnce(r)
  <2>1. PICK i \in Instances, wait \in Nat :
          /\ pc[i] = "failing"
          /\ outbox'[r] = FailureDoc(Event(i).attempts + 1, now[i], wait)
    BY <1>7 DEF FailedOnce
  <2>2. Event(i).attempts \in Nat /\ Event(i).attempts < MaxAttempts
    BY <2>1, HeadType, HeadInBatch
       DEF InductiveInvariant, PublisherInv, AttemptsWithinBudget, Claimed
  <2> QED
    BY <2>1, <2>2, ConstantsAssumption DEF FailureDoc
<1> QED
  BY <1>1, <1>3, <1>4, <1>5, <1>6, <1>7 DEF RowStep

(* Every step leaves a batch alone, drops it, drops its head or appends a  *)
(* claim to it.                                                            *)
LEMMA BatchCases ==
    ASSUME TypeOK, InHand, [Next]_vars, NEW j \in Instances
    PROVE  \/ batch'[j] = batch[j]
           \/ batch'[j] = <<>>
           \/ batch[j] # <<>> /\ batch'[j] = Tail(batch[j])
           \/ \E r \in Rows :
                /\ Claim(j, r)
                /\ batch'[j] = Append(batch[j],
                                 [id |-> r, attempts |-> outbox[r].attempts])
<1> DEFINE Goal == \/ batch'[j] = batch[j]
                   \/ batch'[j] = <<>>
                   \/ batch[j] # <<>> /\ batch'[j] = Tail(batch[j])
                   \/ \E r \in Rows :
                        /\ Claim(j, r)
                        /\ batch'[j] = Append(batch[j],
                                 [id |-> r, attempts |-> outbox[r].attempts])
<1> USE DEF store, publisher
<1>1. ASSUME NEW i \in Instances, RunStep(i) PROVE Goal
  <2>1. CASE ClaimNext(i)
    BY <2>1 DEF ClaimNext, TypeOK
  <2>2. CASE MarkPublished(i) \/ HandlePublishFailure(i)
    BY <2>2 DEF MarkPublished, HandlePublishFailure, Advance, InHand, TypeOK
  <2>3. CASE ClaimError(i) \/ HandlePublishFailureError(i) \/ FinishRun(i)
    BY <2>3 DEF ClaimError, HandlePublishFailureError, FinishRun, EndRun, TypeOK
  <2>4. CASE StartRun(i) \/ ClaimEnd(i) \/ PublishEvent(i) \/ PublishError(i)
             \/ MarkPublishedError(i)
    BY <2>4 DEF StartRun, ClaimEnd, PublishEvent, PublishError,
                MarkPublishedError, EnterFailure
  <2> QED
    BY <1>1, <2>1, <2>2, <2>3, <2>4 DEF RunStep
<1>2. ASSUME NEW i \in Instances, Start(i) \/ Shutdown(i) \/ Crash(i) PROVE Goal
  BY <1>2 DEF Start, Shutdown, Crash, TypeOK
<1>3. CASE UNCHANGED batch
  BY <1>3
<1>4. CASE \E r \in Rows : CreateMessage(r) \/ Expire(r)
  BY <1>3, <1>4 DEF CreateMessage, Expire
<1>5. CASE \E o \in Operators : Redrive(o)
  BY <1>3, <1>5 DEF Redrive, RedriveBegin, RedriveFind, RedriveUpdate,
                    RedriveAbort
<1>6. CASE Tick \/ UNCHANGED vars
  BY <1>3, <1>6 DEF Tick, vars
<1> QED
  BY <1>1, <1>2, <1>4, <1>5, <1>6 DEF Next

(* And those of every claim in memory.                                   *)
LEMMA AttemptsStep ==
    ASSUME InductiveInvariant, [Next]_vars
    PROVE  AttemptsWithinBudget'
<1>1. ASSUME NEW j \in Instances
      PROVE \A k \in DOMAIN batch'[j] : batch'[j][k].attempts < MaxAttempts
  <2>1. /\ batch[j] \in Seq(Claimed)
        /\ \A k \in DOMAIN batch[j] : batch[j][k].attempts < MaxAttempts
    BY DEF InductiveInvariant, TypeOK, AttemptsWithinBudget
  <2>2. CASE batch'[j] = batch[j]
    BY <2>1, <2>2
  <2>3. CASE batch'[j] = <<>>
    BY <2>3
  <2>4. CASE batch[j] # <<>> /\ batch'[j] = Tail(batch[j])
    <3>1. \A k \in DOMAIN Tail(batch[j]) :
            k + 1 \in DOMAIN batch[j] /\ Tail(batch[j])[k] = batch[j][k + 1]
      BY <2>1, <2>4
    <3> QED
      BY <2>1, <2>4, <3>1
  <2>5. ASSUME NEW r \in Rows, Claim(j, r),
               batch'[j] = Append(batch[j],
                             [id |-> r, attempts |-> outbox[r].attempts])
        PROVE \A k \in DOMAIN batch'[j] : batch'[j][k].attempts < MaxAttempts
    <3>1. outbox[r].attempts < MaxAttempts
      BY <2>5 DEF Claim, Publishable, IsPublishable, InductiveInvariant,
                  AttemptsWithinBudget
    <3>2. [id |-> r, attempts |-> outbox[r].attempts] \in Claimed
      BY DEF InductiveInvariant, TypeOK, Claimed, Doc
    <3>3. TAKE k \in DOMAIN batch'[j]
    <3>4. CASE k = Len(batch[j]) + 1
      BY <2>1, <2>5, <3>1, <3>2, <3>4
    <3>5. CASE k # Len(batch[j]) + 1
      <4>1. k \in DOMAIN batch[j] /\ batch'[j][k] = batch[j][k]
        BY <2>1, <2>5, <3>2, <3>3, <3>5
      <4> QED
        BY <2>1, <4>1
    <3> QED
      BY <3>4, <3>5
  <2> QED
    BY <2>2, <2>3, <2>4, <2>5, BatchCases
       DEF InductiveInvariant, PublisherInv, InHand
<1> QED
  BY <1>1, RowAttemptsStep DEF AttemptsWithinBudget

(* The inductive invariant holds initially ...                           *)
LEMMA InvariantInit == Init => InductiveInvariant
<1> SUFFICES ASSUME Init PROVE InductiveInvariant
  OBVIOUS
<1>1. TypeOK
  BY TypeInit
<1>2. /\ \A r \in Rows : outbox[r] = Absent
      /\ messages = {} /\ delivered = {} /\ clock = 0
      /\ \A i \in Instances : pc[i] = "new" /\ batch[i] = <<>> /\ now[i] = 0
  BY DEF Init
<1>3. PublisherInv /\ delivered \subseteq messages
  BY <1>2, ConstantsAssumption DEF PublisherInv
<1>4. PublishedImpliesDelivered /\ NoLostEvent /\ AttemptsWithinBudget
  BY <1>2 DEF PublishedImpliesDelivered, NoLostEvent, AttemptsWithinBudget, Absent
<1>5. LockConsistent
  <2>1. 0 <= clock + MaxSkew
    BY <1>2, ConstantsAssumption
  <2>2. \A r \in Rows : /\ outbox[r].status = "absent"
                       /\ outbox[r].lockedBy = NoOwner
                       /\ outbox[r].lockedAt = 0
    BY <1>2 DEF Absent
  <2> QED
    BY <2>1, <2>2 DEF LockConsistent
<1> QED
  BY <1>1, <1>3, <1>4, <1>5 DEF InductiveInvariant

(* ... and every step keeps it.                                          *)
LEMMA InvariantStep == InductiveInvariant /\ [Next]_vars => InductiveInvariant'
<1> SUFFICES ASSUME InductiveInvariant, [Next]_vars PROVE InductiveInvariant'
  OBVIOUS
<1>1. TypeOK'
  BY TypeStep DEF InductiveInvariant, PublisherInv, InHand
<1>2. PublisherInv'
  BY PublisherStep DEF InductiveInvariant
<1>3. delivered' \subseteq messages'
  BY Monotone DEF InductiveInvariant
<1> QED
  BY <1>1, <1>2, <1>3, DeliveredStep, NoLostStep, AttemptsStep, LockStep
     DEF InductiveInvariant

-----------------------------------------------------------------------------
(* The invariant of the outbox holds in every reachable state, for any     *)
(* number of rows, publisher processes, redrive runs and faults.           *)
THEOREM OutboxInvariant == Spec => []InductiveInvariant
BY InvariantInit, InvariantStep, PTL DEF Spec

(* Type correctness of the outbox.                                         *)
THEOREM OutboxTypeOK == Spec => []TypeOK
<1>1. InductiveInvariant => TypeOK
  BY DEF InductiveInvariant
<1> QED
  BY <1>1, OutboxInvariant, PTL

(* No row is marked published before its event is in the topic.            *)
THEOREM PublishedSafe == Spec => []PublishedImpliesDelivered
<1>1. InductiveInvariant => PublishedImpliesDelivered
  BY DEF InductiveInvariant
<1> QED
  BY <1>1, OutboxInvariant, PTL

(* A committed message keeps its outbox row until its event is delivered.  *)
THEOREM NothingLost == Spec => []NoLostEvent
<1>1. InductiveInvariant => NoLostEvent
  BY DEF InductiveInvariant
<1> QED
  BY <1>1, OutboxInvariant, PTL

(* The retry budget holds for rows and for claims in memory.               *)
THEOREM AttemptsBounded == Spec => []AttemptsWithinBudget
<1>1. InductiveInvariant => AttemptsWithinBudget
  BY DEF InductiveInvariant
<1> QED
  BY <1>1, OutboxInvariant, PTL

(* Locks and the publishing status go together.                            *)
THEOREM LocksConsistent == Spec => []LockConsistent
<1>1. InductiveInvariant => LockConsistent
  BY DEF InductiveInvariant
<1> QED
  BY <1>1, OutboxInvariant, PTL

-----------------------------------------------------------------------------
(* The action properties.                                                  *)

(* A lease is taken over only after it ran out, but for the skew.          *)
THEOREM NoTakeoverBeforeTimeout == Spec => NoEarlyTakeover
<1>1. InductiveInvariant /\ [Next]_vars =>
        [\A r \in Rows :
           /\ outbox[r].status = "publishing"
           /\ outbox'[r].status = "publishing"
           /\ outbox'[r].lockedBy # outbox[r].lockedBy
           => outbox[r].lockedAt + LockTimeout <= clock + MaxSkew]_vars
  <2> SUFFICES ASSUME InductiveInvariant, [Next]_vars, NEW r \in Rows,
                      outbox[r].status = "publishing",
                      outbox'[r].status = "publishing",
                      outbox'[r].lockedBy # outbox[r].lockedBy
               PROVE  outbox[r].lockedAt + LockTimeout <= clock + MaxSkew
    OBVIOUS
  <2>1. RowStep(r)
    BY RowCases DEF InductiveInvariant, PublisherInv, InHand
  <2>2. outbox[r] \in Doc
    BY DEF InductiveInvariant, TypeOK
  <2>3. CASE ClaimedNow(r)
    <3>1. PICK i \in Instances : IsPublishable(outbox[r], now[i])
      BY <2>3 DEF ClaimedNow
    <3>2. now[i] <= clock + MaxSkew /\ now[i] \in Nat /\ clock \in Nat
      BY DEF InductiveInvariant, PublisherInv, TypeOK
    <3>3. outbox[r].lockedAt + LockTimeout <= now[i]
      BY <3>1 DEF IsPublishable
    <3> QED
      BY <2>2, <3>2, <3>3, ConstantsAssumption DEF Doc
  <2>4. CASE Confirmed(r)
    BY <2>2, <2>4, PublishedFields DEF Confirmed
  <2>5. CASE FailedOnce(r)
    BY <2>5 DEF FailedOnce, FailureDoc
  <2>6. CASE Created(r) \/ Redriven(r) \/ Expired(r)
    BY <2>6, ResetFields, ExpiredFields
  <2> QED
    BY <2>1, <2>3, <2>4, <2>5, <2>6 DEF RowStep
<1> QED
  BY <1>1, OutboxInvariant, PTL DEF Spec, NoEarlyTakeover

(* A failed row is terminal until a redrive that selected it resets it.    *)
THEOREM FailedIsTerminal == Spec => FailedLeavesOnlyByRedrive
<1>1. InductiveInvariant /\ [Next]_vars =>
        [\A r \in Rows :
           outbox[r].status = "failed" /\ outbox'[r] # outbox[r]
           => /\ outbox'[r].status = "pending"
              /\ outbox'[r].attempts = 0
              /\ \E o \in Operators : r \in redrive[o].ids]_vars
  <2> SUFFICES ASSUME InductiveInvariant, [Next]_vars, NEW r \in Rows,
                      outbox[r].status = "failed", outbox'[r] # outbox[r]
               PROVE  /\ outbox'[r].status = "pending"
                      /\ outbox'[r].attempts = 0
                      /\ \E o \in Operators : r \in redrive[o].ids
    OBVIOUS
  <2>1. RowStep(r) /\ r \in messages
    BY RowCases DEF InductiveInvariant, PublisherInv, InHand, NoLostEvent
  <2>2. CASE Redriven(r)
    BY <2>2, ResetFields DEF Redriven
  <2>3. ~Created(r) /\ ~ClaimedNow(r) /\ ~Confirmed(r) /\ ~FailedOnce(r)
        /\ ~Expired(r)
    BY <2>1 DEF Created, ClaimedNow, IsPublishable, Confirmed, FailedOnce,
                OwnsLock, Expired
  <2> QED
    BY <2>1, <2>2, <2>3 DEF RowStep
<1> QED
  BY <1>1, OutboxInvariant, PTL DEF Spec, FailedLeavesOnlyByRedrive

(* A published row is final: only the TTL index touches it.                *)
THEOREM PublishedRowIsFinal == Spec => PublishedIsFinal
<1>1. InductiveInvariant /\ [Next]_vars =>
        [\A r \in Rows :
           outbox[r].status = "published"
           => outbox'[r] = outbox[r] \/ outbox'[r].status = "absent"]_vars
  <2> SUFFICES ASSUME InductiveInvariant, [Next]_vars, NEW r \in Rows,
                      outbox[r].status = "published"
               PROVE  outbox'[r] = outbox[r] \/ outbox'[r].status = "absent"
    BY DEF vars
  <2>1. RowStep(r) /\ r \in messages
    BY RowCases DEF InductiveInvariant, PublisherInv, InHand, NoLostEvent
  <2>2. ~Created(r) /\ ~ClaimedNow(r) /\ ~Confirmed(r) /\ ~FailedOnce(r)
        /\ ~Redriven(r)
    BY <2>1 DEF Created, ClaimedNow, IsPublishable, Confirmed, FailedOnce,
                OwnsLock, Redriven
  <2> QED
    BY <2>1, <2>2, ExpiredFields DEF RowStep
<1> QED
  BY <1>1, OutboxInvariant, PTL DEF Spec, PublishedIsFinal

-----------------------------------------------------------------------------
(* What instances know of the rows they have locked.                       *)

(* An instance comes to own a row it did not own as it is now only by a    *)
(* claim, which is in its batch unless the claim threw.                    *)
LEMMA OwnedByClaim ==
    ASSUME TypeOK, InHand, [Next]_vars, NEW i \in Instances, NEW r \in Rows,
           outbox'[r] # outbox[r],
           outbox'[r].status = "publishing", outbox'[r].lockedBy = i
    PROVE  \/ batch'[i] = <<>> /\ Fault
           \/ /\ outbox'[r].attempts = outbox[r].attempts
              /\ batch'[i] = Append(batch[i],
                               [id |-> r, attempts |-> outbox[r].attempts])
<1> DEFINE Goal ==
      \/ batch'[i] = <<>> /\ Fault
      \/ /\ outbox'[r].attempts = outbox[r].attempts
         /\ batch'[i] = Append(batch[i],
                          [id |-> r, attempts |-> outbox[r].attempts])
<1> USE DEF store, publisher
<1>1. ASSUME NEW j \in Instances, NEW q \in Rows, Claim(j, q)
      PROVE  q = r /\ j = i /\ outbox'[r].attempts = outbox[r].attempts
  <2>1. q = r
    BY <1>1 DEF Claim, TypeOK
  <2>2. outbox'[r] = ClaimedDoc(outbox[r], j, now[j]) /\ outbox[r] \in Doc
    BY <1>1, <2>1 DEF Claim, TypeOK
  <2> QED
    BY <2>1, <2>2, ClaimedFields
<1>2. ASSUME NEW j \in Instances, NEW doc, UpdateOwned(j, doc)
      PROVE  doc.status = "publishing"
  BY <1>2 DEF UpdateOwned, TypeOK
<1>3. ASSUME NEW j \in Instances, RecordFailure(j) PROVE FALSE
  BY <1>2, <1>3 DEF RecordFailure, FailureDoc
<1>4. ASSUME NEW j \in Instances, batch[j] # <<>>,
             UpdateOwned(j, PublishedDoc(outbox[Event(j).id]))
      PROVE  FALSE
  <2>1. outbox[Event(j).id] \in Doc
    BY <1>4, HeadType DEF TypeOK, Claimed
  <2> QED
    BY <1>2, <1>4, <2>1, PublishedFields
<1>5. CASE UNCHANGED outbox
  BY <1>5
<1>6. ASSUME NEW j \in Instances, RunStep(j) PROVE Goal
  <2>1. CASE ClaimNext(j)
    BY <1>1, <2>1 DEF ClaimNext, TypeOK
  <2>2. CASE ClaimError(j)
    BY <1>1, <1>5, <2>2 DEF ClaimError, EndRun, TypeOK
  <2>3. CASE MarkPublished(j) \/ MarkPublishedError(j)
    BY <1>4, <1>5, <2>3 DEF MarkPublished, MarkPublishedError, InHand
  <2>4. CASE HandlePublishFailure(j) \/ HandlePublishFailureError(j)
    BY <1>3, <1>5, <2>4 DEF HandlePublishFailure, HandlePublishFailureError
  <2>5. CASE StartRun(j) \/ ClaimEnd(j) \/ PublishEvent(j) \/ PublishError(j)
             \/ FinishRun(j)
    BY <1>5, <2>5 DEF StartRun, ClaimEnd, PublishEvent, PublishError, FinishRun
  <2> QED
    BY <1>6, <2>1, <2>2, <2>3, <2>4, <2>5 DEF RunStep
<1>7. ASSUME NEW j \in Instances, Start(j) \/ Shutdown(j) \/ Crash(j) PROVE Goal
  BY <1>5, <1>7 DEF Start, Shutdown, Crash
<1>8. ASSUME NEW q \in Rows, CreateMessage(q) \/ Expire(q) PROVE Goal
  BY <1>8 DEF CreateMessage, Expire, Absent, TypeOK
<1>9. ASSUME NEW o \in Operators, Redrive(o) PROVE Goal
  <2>1. ASSUME NEW q \in Rows, RedriveUpdate(o, q) PROVE Goal
    BY <2>1 DEF RedriveUpdate, RedrivenDoc, TypeOK
  <2>2. CASE RedriveBegin(o) \/ RedriveFind(o) \/ RedriveAbort(o)
    BY <1>5, <2>2 DEF RedriveBegin, RedriveFind, RedriveAbort
  <2> QED
    BY <1>9, <2>1, <2>2 DEF Redrive
<1>10. CASE Tick \/ UNCHANGED vars
  BY <1>5, <1>10 DEF Tick, vars
<1> QED
  BY <1>6, <1>7, <1>8, <1>9, <1>10 DEF Next

(* k is the last copy of its row in a batch.                               *)
LastCopy(b, k) == \A m \in DOMAIN b : b[m].id = b[k].id => m <= k

(* A last copy is still the last one when the head is dropped, ...         *)
LEMMA LastInTail ==
    ASSUME NEW b \in Seq(Claimed), b # <<>>, NEW k \in DOMAIN Tail(b),
           LastCopy(Tail(b), k)
    PROVE  k + 1 \in DOMAIN b /\ Tail(b)[k] = b[k + 1] /\ LastCopy(b, k + 1)
<1>1. \A m \in DOMAIN Tail(b) : m + 1 \in DOMAIN b /\ Tail(b)[m] = b[m + 1]
  OBVIOUS
<1>2. ASSUME NEW m \in DOMAIN b, b[m].id = b[k + 1].id PROVE m <= k + 1
  <2>1. CASE m = 1
    BY <2>1
  <2>2. CASE m # 1
    <3>1. m - 1 \in DOMAIN Tail(b) /\ Tail(b)[m - 1] = b[m]
      BY <2>2
    <3> QED
      BY <1>1, <1>2, <3>1 DEF LastCopy
  <2> QED
    BY <2>1, <2>2
<1> QED
  BY <1>1, <1>2 DEF LastCopy

(* ... and is an old one or the new one when a claim is appended.          *)
LEMMA LastInAppend ==
    ASSUME NEW b \in Seq(Claimed), NEW e \in Claimed,
           NEW k \in DOMAIN Append(b, e), LastCopy(Append(b, e), k)
    PROVE  \/ k = Len(b) + 1 /\ Append(b, e)[k] = e
           \/ /\ k \in DOMAIN b /\ Append(b, e)[k] = b[k]
              /\ LastCopy(b, k) /\ b[k].id # e.id
<1>1. /\ Len(b) + 1 \in DOMAIN Append(b, e)
      /\ Append(b, e)[Len(b) + 1] = e
      /\ \A m \in DOMAIN b : /\ m \in DOMAIN Append(b, e)
                             /\ Append(b, e)[m] = b[m]
  OBVIOUS
<1>2. CASE k = Len(b) + 1
  BY <1>1, <1>2
<1>3. CASE k # Len(b) + 1
  <2>1. k \in DOMAIN b /\ k < Len(b) + 1
    BY <1>3
  <2>2. LastCopy(b, k)
    BY <1>1, <2>1 DEF LastCopy
  <2>3. b[k].id # e.id
    BY <1>1, <2>1 DEF LastCopy
  <2> QED
    BY <1>1, <2>1, <2>2, <2>3
<1> QED
  BY <1>2, <1>3

(* Every step keeps the copies of owned rows fresh.                        *)
LEMMA FreshStep ==
    ASSUME InductiveInvariant, OwnedCopyIsFresh, [Next]_vars
    PROVE  OwnedCopyIsFresh'
<1>1. TypeOK /\ InHand
  BY DEF InductiveInvariant, PublisherInv, InHand
<1> SUFFICES ASSUME NEW i \in Instances, NEW k \in DOMAIN batch'[i],
                    outbox'[batch'[i][k].id].status = "publishing",
                    outbox'[batch'[i][k].id].lockedBy = i, LastCopy(batch'[i], k)
             PROVE  batch'[i][k].attempts = outbox'[batch'[i][k].id].attempts
  BY DEF OwnedCopyIsFresh, LastCopy, OwnsLock
<1> DEFINE r == batch'[i][k].id
<1>2. TypeOK'
  BY <1>1, TypeStep
<1>3. r \in Rows /\ batch[i] \in Seq(Claimed)
  <2>1. batch'[i] \in Seq(Claimed)
    BY <1>2 DEF TypeOK
  <2>2. batch'[i][k] \in Claimed
    BY <2>1
  <2>3. r \in Rows
    BY <2>2 DEF Claimed
  <2>4. batch[i] \in Seq(Claimed)
    BY <1>1 DEF TypeOK
  <2> QED
    BY <2>3, <2>4
<1>4. outbox'[r].status = "publishing" /\ outbox'[r].lockedBy = i
  OBVIOUS
<1>5. ASSUME NEW m \in DOMAIN batch[i], LastCopy(batch[i], m), batch[i][m].id = r,
             outbox'[r] = outbox[r]
      PROVE  batch[i][m].attempts = outbox'[r].attempts
  BY <1>4, <1>5 DEF OwnedCopyIsFresh, LastCopy, OwnsLock
<1>6. ASSUME NEW q \in Rows,
             batch'[i] = Append(batch[i], [id |-> q, attempts |-> outbox[q].attempts]),
             outbox'[r] # outbox[r] => q = r,
             q = r => outbox'[r].attempts = outbox[r].attempts
      PROVE  batch'[i][k].attempts = outbox'[r].attempts
  <2> DEFINE e == [id |-> q, attempts |-> outbox[q].attempts]
  <2>1. e \in Claimed
    BY <1>1 DEF TypeOK, Claimed, Doc
  <2>2. CASE k = Len(batch[i]) + 1 /\ batch'[i][k] = e
    BY <1>6, <2>2
  <2>3. CASE /\ k \in DOMAIN batch[i] /\ batch'[i][k] = batch[i][k]
             /\ LastCopy(batch[i], k) /\ batch[i][k].id # e.id
    BY <1>5, <1>6, <2>3
  <2> QED
    BY <1>3, <1>6, <2>1, <2>2, <2>3, LastInAppend
<1>7. CASE outbox'[r] # outbox[r]
  <2>1. /\ outbox'[r].attempts = outbox[r].attempts
        /\ batch'[i] = Append(batch[i], [id |-> r, attempts |-> outbox[r].attempts])
    BY <1>1, <1>3, <1>4, <1>7, OwnedByClaim
  <2> QED
    BY <1>3, <1>6, <2>1
<1>8. CASE outbox'[r] = outbox[r]
  <2>1. CASE batch'[i] = batch[i]
    BY <1>5, <1>8, <2>1
  <2>2. CASE batch'[i] = <<>>
    BY <2>2
  <2>3. CASE batch[i] # <<>> /\ batch'[i] = Tail(batch[i])
    <3>1. /\ k + 1 \in DOMAIN batch[i] /\ batch'[i][k] = batch[i][k + 1]
          /\ LastCopy(batch[i], k + 1)
      BY <1>3, <2>3, LastInTail
    <3> QED
      BY <1>5, <1>8, <3>1
  <2>4. CASE \E q \in Rows :
               batch'[i] = Append(batch[i],
                             [id |-> q, attempts |-> outbox[q].attempts])
    BY <1>6, <1>8, <2>4
  <2> QED
    BY <1>1, <2>1, <2>2, <2>3, <2>4, BatchCases
<1> QED
  BY <1>7, <1>8

(* Without a failure a batch loses a row only when the row is settled.     *)
LEMMA LeavesBatch ==
    ASSUME TypeOK, InHand, [Next]_vars, NEW i \in Instances, NEW r \in Rows,
           OwnsLock(i, r), OwnsLock(i, r)', r \in BatchIds(i),
           pc'[i] # "dead", faults' = 0
    PROVE  r \in BatchIds(i)'
<1> USE DEF store, publisher
<1>1. ~Fault
  BY DEF Fault, TypeOK
<1>2. CASE batch'[i] = batch[i]
  BY <1>2 DEF BatchIds
<1>3. ASSUME Advance(i), batch[i] # <<>>, Event(i).id # r PROVE r \in BatchIds(i)'
  <2>1. batch[i] \in Seq(Claimed) /\ batch'[i] = Tail(batch[i])
    BY <1>3 DEF Advance, TypeOK
  <2>2. PICK k \in DOMAIN batch[i] : batch[i][k].id = r
    BY DEF BatchIds
  <2>3. k # 1
    BY <1>3, <2>1, <2>2 DEF Event
  <2>4. k - 1 \in DOMAIN batch'[i] /\ batch'[i][k - 1] = batch[i][k]
    BY <1>3, <2>1, <2>3
  <2> QED
    BY <2>2, <2>4 DEF BatchIds
<1>4. ASSUME MarkPublished(i) PROVE r \in BatchIds(i)'
  <2>1. batch[i] # <<>>
    BY <1>4 DEF MarkPublished, InHand
  <2>2. Event(i).id # r
    <3>1. SUFFICES ASSUME Event(i).id = r PROVE FALSE
      OBVIOUS
    <3>2. outbox'[r] = PublishedDoc(outbox[r]) /\ outbox[r] \in Doc
      BY <1>4, <3>1 DEF MarkPublished, UpdateOwned, TypeOK
    <3> QED
      BY <3>2, PublishedFields DEF OwnsLock
  <2> QED
    BY <1>3, <1>4, <2>1, <2>2 DEF MarkPublished
<1>5. ASSUME HandlePublishFailure(i) PROVE r \in BatchIds(i)'
  <2>1. batch[i] # <<>>
    BY <1>5 DEF HandlePublishFailure, InHand
  <2>2. Event(i).id # r
    <3>1. SUFFICES ASSUME Event(i).id = r PROVE FALSE
      OBVIOUS
    <3>2. PICK wait : outbox'[r] = FailureDoc(Event(i).attempts + 1, now[i], wait)
      BY <1>5, <3>1 DEF HandlePublishFailure, RecordFailure, UpdateOwned, TypeOK
    <3> QED
      BY <3>2 DEF FailureDoc, OwnsLock
  <2> QED
    BY <1>3, <1>5, <2>1, <2>2 DEF HandlePublishFailure
<1>6. ASSUME ClaimNext(i) PROVE r \in BatchIds(i)'
  <2>1. PICK q \in Rows :
          batch'[i] = Append(batch[i], [id |-> q, attempts |-> outbox[q].attempts])
    BY <1>6 DEF ClaimNext, TypeOK
  <2>2. PICK k \in DOMAIN batch[i] : batch[i][k].id = r
    BY DEF BatchIds
  <2>3. batch[i] \in Seq(Claimed) /\ [id |-> q, attempts |-> outbox[q].attempts] \in Claimed
    BY DEF TypeOK, Claimed, Doc
  <2>4. k \in DOMAIN batch'[i] /\ batch'[i][k] = batch[i][k]
    BY <2>1, <2>2, <2>3
  <2> QED
    BY <2>2, <2>4 DEF BatchIds
<1>7. ASSUME FinishRun(i) PROVE FALSE
  BY <1>7 DEF FinishRun, BatchIds
<1>8. ASSUME NEW j \in Instances, RunStep(j) PROVE r \in BatchIds(i)'
  <2>1. CASE j = i
    <3>1. CASE ClaimError(i) \/ HandlePublishFailureError(i)
      BY <1>1, <3>1 DEF ClaimError, HandlePublishFailureError
    <3>2. CASE StartRun(i) \/ ClaimEnd(i) \/ PublishEvent(i) \/ PublishError(i)
               \/ MarkPublishedError(i)
      BY <1>2, <3>2 DEF StartRun, ClaimEnd, PublishEvent, PublishError,
                        MarkPublishedError, EnterFailure
    <3> QED
      BY <1>4, <1>5, <1>6, <1>7, <1>8, <2>1, <3>1, <3>2 DEF RunStep
  <2>2. CASE j # i
    <3>1. batch'[i] = batch[i]
      BY <1>8, <2>2 DEF RunStep, StartRun, ClaimNext, ClaimEnd, ClaimError,
         PublishEvent, PublishError, MarkPublished, MarkPublishedError,
         HandlePublishFailure, HandlePublishFailureError, FinishRun, EndRun,
         Advance, EnterFailure, TypeOK
    <3> QED
      BY <1>2, <3>1
  <2> QED
    BY <2>1, <2>2
<1>9. ASSUME NEW j \in Instances, Start(j) \/ Shutdown(j) \/ Crash(j)
      PROVE  r \in BatchIds(i)'
  BY <1>2, <1>9 DEF Start, Shutdown, Crash, TypeOK
<1>10. CASE \E q \in Rows : CreateMessage(q) \/ Expire(q)
  BY <1>2, <1>10 DEF CreateMessage, Expire
<1>11. CASE \E o \in Operators : Redrive(o)
  BY <1>2, <1>11 DEF Redrive, RedriveBegin, RedriveFind, RedriveUpdate, RedriveAbort
<1>12. CASE Tick \/ UNCHANGED vars
  BY <1>2, <1>12 DEF Tick, vars
<1> QED
  BY <1>8, <1>9, <1>10, <1>11, <1>12 DEF Next

(* The dead stay dead, and a fault is never forgotten.                     *)
LEMMA DeadStay ==
    ASSUME TypeOK, [Next]_vars, NEW i \in Instances
    PROVE  /\ pc[i] = "dead" => pc'[i] = "dead"
           /\ faults' \in Nat /\ (faults > 0 => faults' > 0)
<1> USE DEF store, publisher
<1>1. /\ faults \in Nat
      /\ pc \in [Instances -> PcValues]
  BY DEF TypeOK
<1>2. ASSUME NEW j \in Instances, RunStep(j)
      PROVE  /\ pc[i] = "dead" => pc'[i] = "dead"
             /\ faults' \in {faults, faults + 1}
  <2>1. CASE StartRun(j) \/ ClaimNext(j) \/ ClaimEnd(j) \/ ClaimError(j)
    BY <1>1, <2>1 DEF StartRun, ClaimNext, ClaimEnd, ClaimError, EndRun, Fault
  <2>2. CASE PublishEvent(j) \/ PublishError(j) \/ MarkPublished(j)
             \/ MarkPublishedError(j)
    BY <1>1, <2>2 DEF PublishEvent, PublishError, MarkPublished,
                      MarkPublishedError, Advance, EnterFailure, Fault
  <2>3. CASE HandlePublishFailure(j) \/ HandlePublishFailureError(j) \/ FinishRun(j)
    BY <1>1, <2>3 DEF HandlePublishFailure, HandlePublishFailureError, FinishRun,
                      EndRun, Advance, Fault
  <2> QED
    BY <1>2, <2>1, <2>2, <2>3 DEF RunStep
<1>3. ASSUME NEW j \in Instances, Start(j) \/ Shutdown(j) \/ Crash(j)
      PROVE  /\ pc[i] = "dead" => pc'[i] = "dead"
             /\ faults' = faults
  BY <1>1, <1>3 DEF Start, Shutdown, Crash
<1>4. CASE \/ \E q \in Rows : CreateMessage(q) \/ Expire(q)
           \/ \E o \in Operators : Redrive(o)
           \/ Tick \/ UNCHANGED vars
  BY <1>1, <1>4 DEF CreateMessage, Expire, Redrive, RedriveBegin, RedriveFind,
                    RedriveUpdate, RedriveAbort, Tick, vars
<1> QED
  BY <1>1, <1>2, <1>3, <1>4 DEF Next

(* Every step strands a row by a fault or a crash only.                    *)
LEMMA StrandedStep ==
    ASSUME InductiveInvariant, StrandedOnlyByFault, [Next]_vars
    PROVE  StrandedOnlyByFault'
<1>1. TypeOK /\ InHand
  BY DEF InductiveInvariant, PublisherInv, InHand
<1> SUFFICES ASSUME NEW r \in Rows, NEW i \in Instances,
                    OwnsLock(i, r)', r \notin BatchIds(i)',
                    pc'[i] # "dead", ~(faults' > 0)
             PROVE  FALSE
  BY DEF StrandedOnlyByFault
<1>2. faults' = 0 /\ pc[i] # "dead" /\ ~(faults > 0)
  BY <1>1, DeadStay
<1>3. CASE outbox'[r] # outbox[r]
  <2>1. ~Fault
    BY <1>1, <1>2 DEF Fault, TypeOK
  <2>2. batch'[i] = Append(batch[i], [id |-> r, attempts |-> outbox[r].attempts])
    BY <1>1, <1>3, <2>1, OwnedByClaim DEF OwnsLock
  <2>3. batch[i] \in Seq(Claimed) /\ [id |-> r, attempts |-> outbox[r].attempts] \in Claimed
    BY <1>1 DEF TypeOK, Claimed, Doc
  <2>4. /\ Len(batch[i]) + 1 \in DOMAIN batch'[i]
        /\ batch'[i][Len(batch[i]) + 1].id = r
    BY <2>2, <2>3
  <2> QED
    BY <2>4 DEF BatchIds
<1>4. CASE outbox'[r] = outbox[r]
  <2>1. OwnsLock(i, r)
    BY <1>4 DEF OwnsLock
  <2>2. r \in BatchIds(i)
    BY <1>2, <2>1 DEF StrandedOnlyByFault
  <2> QED
    BY <1>1, <1>2, <2>1, <2>2, LeavesBatch
<1> QED
  BY <1>3, <1>4

(* An instance that still owns a row has its current attempt count, so the *)
(* failure it may record counts exactly once, whoever claimed meanwhile.   *)
THEOREM OwnedCopiesFresh == Spec => []OwnedCopyIsFresh
<1>1. Init => OwnedCopyIsFresh
  BY DEF Init, OwnedCopyIsFresh
<1>2. InductiveInvariant /\ OwnedCopyIsFresh /\ [Next]_vars => OwnedCopyIsFresh'
  BY FreshStep
<1> QED
  BY <1>1, <1>2, OutboxInvariant, PTL DEF Spec

(* Without a MongoDB error or a crash every locked row is being worked on, *)
(* through takeovers, shutdowns and redrives.                              *)
THEOREM StrandingNeedsFault == Spec => []StrandedOnlyByFault
<1>1. Init => StrandedOnlyByFault
  BY ConstantsAssumption DEF Init, StrandedOnlyByFault, OwnsLock, Absent
<1>2. InductiveInvariant /\ StrandedOnlyByFault /\ [Next]_vars => StrandedOnlyByFault'
  BY StrandedStep
<1> QED
  BY <1>1, <1>2, OutboxInvariant, PTL DEF Spec

-----------------------------------------------------------------------------
(* Refinement: the outbox implements the delivery contract.                *)

Outstanding == {"pending", "publishing"}

(* The phase of a row, from its status ...                               *)
LEMMA PhaseOfRow ==
    ASSUME NEW r \in Rows
    PROVE  /\ r \notin messages => phase[r] = "none"
           /\ r \in messages /\ outbox[r].status = "absent" => phase[r] = "purged"
           /\ r \in messages /\ outbox[r].status = "published"
                => phase[r] = "confirmed"
           /\ r \in messages /\ outbox[r].status = "failed"
                => phase[r] = "given_up"
           /\ r \in messages /\ outbox[r].status \in Outstanding
                => phase[r] = "waiting"
BY DEF phase, Outstanding

(* ... and after a step.                                                 *)
LEMMA PhaseOfRowNext ==
    ASSUME NEW r \in Rows
    PROVE  /\ r \notin messages' => phase'[r] = "none"
           /\ r \in messages' /\ outbox'[r].status = "absent"
                => phase'[r] = "purged"
           /\ r \in messages' /\ outbox'[r].status = "published"
                => phase'[r] = "confirmed"
           /\ r \in messages' /\ outbox'[r].status = "failed"
                => phase'[r] = "given_up"
           /\ r \in messages' /\ outbox'[r].status \in Outstanding
                => phase'[r] = "waiting"
BY DEF phase, Outstanding

(* Rows that keep their status, or stay outstanding, keep their phase.     *)
LEMMA SamePhase ==
    ASSUME messages' = messages,
           \A r \in Rows : \/ outbox'[r].status = outbox[r].status
                           \/ /\ outbox[r].status \in Outstanding
                              /\ outbox'[r].status \in Outstanding
    PROVE  phase' = phase
BY DEF phase, Outstanding

(* A step that touches one row changes the phase of that row only.         *)
LEMMA OnePhase ==
    ASSUME NEW q \in Rows,
           \A r \in Rows \ {q} : /\ outbox'[r] = outbox[r]
                                 /\ r \in messages' <=> r \in messages
    PROVE  phase' = [phase EXCEPT ![q] = phase'[q]]
<1>1. \A r \in Rows \ {q} : phase'[r] = phase[r]
  BY DEF phase
<1>2. phase = [r \in Rows |-> phase[r]] /\ phase' = [r \in Rows |-> phase'[r]]
  BY DEF phase
<1> QED
  BY <1>1, <1>2

(* A step that touches one row and sends nothing is a contract step.       *)
LEMMA RowRefines ==
    ASSUME InductiveInvariant, [Next]_vars, NEW q \in Rows,
           \A r \in Rows \ {q} : /\ outbox'[r] = outbox[r]
                                 /\ r \in messages' <=> r \in messages,
           delivered' = delivered
    PROVE  [Contract!Next]_<<phase, delivered>>
<1>1. phase' = [phase EXCEPT ![q] = phase'[q]]
  BY OnePhase
<1>2. /\ RowStep(q)
      /\ messages \subseteq messages'
      /\ q \in messages' \ messages => Created(q)
  BY RowCases, Monotone DEF InductiveInvariant, PublisherInv, InHand
<1>3. outbox[q] \in Doc /\ (outbox[q].status # "absent" => q \in messages)
  BY DEF InductiveInvariant, TypeOK, NoLostEvent
<1>4. CASE phase'[q] = phase[q]
  BY <1>1, <1>4 DEF phase
<1> USE DEF Contract!Next, Contract!Move
<1>5. CASE Created(q)
  <2>1. phase[q] = "none" /\ phase'[q] = "waiting"
    BY <1>5, PhaseOfRow, PhaseOfRowNext, ResetFields DEF Created, Outstanding
  <2> QED
    BY <1>1, <2>1 DEF Contract!Accept
<1>6. CASE outbox'[q] = outbox[q] /\ ~Created(q)
  <2>1. q \in messages' <=> q \in messages
    BY <1>2, <1>6
  <2> QED
    BY <1>4, <1>6, <2>1 DEF phase
<1>7. CASE ClaimedNow(q)
  <2>1. outbox[q].status \in Outstanding /\ outbox'[q].status \in Outstanding
    BY <1>3, <1>7, ClaimedFields DEF ClaimedNow, IsPublishable, Outstanding
  <2>2. phase[q] = "waiting" /\ phase'[q] = "waiting"
    BY <1>2, <1>3, <2>1, PhaseOfRow, PhaseOfRowNext DEF Outstanding
  <2> QED
    BY <1>4, <2>2
<1>8. CASE Confirmed(q)
  <2>1. /\ outbox[q].status \in Outstanding
        /\ outbox'[q].status = "published"
        /\ q \in delivered
    BY <1>3, <1>8, PublishedFields
       DEF Confirmed, OwnsLock, Outstanding, InductiveInvariant, PublisherInv
  <2>2. phase[q] = "waiting" /\ phase'[q] = "confirmed"
    BY <1>2, <1>3, <2>1, PhaseOfRow, PhaseOfRowNext DEF Outstanding
  <2> QED
    BY <1>1, <2>1, <2>2 DEF Contract!Confirm
<1>9. CASE FailedOnce(q)
  <2>1. /\ outbox[q].status \in Outstanding
        /\ outbox'[q].status \in {"failed", "pending"}
    BY <1>9 DEF FailedOnce, FailureDoc, OwnsLock, Outstanding
  <2>2. phase[q] = "waiting" /\ phase'[q] \in {"given_up", "waiting"}
    BY <1>2, <1>3, <2>1, PhaseOfRow, PhaseOfRowNext DEF Outstanding
  <2> QED
    BY <1>1, <1>4, <2>2 DEF Contract!GiveUp
<1>10. CASE Redriven(q)
  <2>1. phase[q] = "given_up" /\ phase'[q] = "waiting"
    BY <1>2, <1>3, <1>10, PhaseOfRow, PhaseOfRowNext, ResetFields
       DEF Redriven, Outstanding
  <2> QED
    BY <1>1, <2>1 DEF Contract!TakeUp
<1>11. CASE Expired(q)
  <2>1. phase[q] = "confirmed" /\ phase'[q] = "purged"
    BY <1>2, <1>3, <1>11, PhaseOfRow, PhaseOfRowNext, ExpiredFields DEF Expired
  <2> QED
    BY <1>1, <2>1 DEF Contract!Purge
<1> QED
  BY <1>2, <1>5, <1>6, <1>7, <1>8, <1>9, <1>10, <1>11 DEF RowStep

(* Sending an event is a delivery of an accepted event, or adds nothing.   *)
LEMMA SendRefines ==
    ASSUME InductiveInvariant, NEW i \in Instances, batch[i] # <<>>,
           UNCHANGED <<messages, outbox>>,
           delivered' \in {delivered, delivered \cup {Event(i).id}}
    PROVE  [Contract!Next]_<<phase, delivered>>
<1>1. phase' = phase
  BY SamePhase
<1>2. Event(i).id \in Rows /\ Event(i).id \in messages
  BY HeadType, HeadInBatch DEF InductiveInvariant, PublisherInv, Claimed
<1>3. phase[Event(i).id] # "none"
  BY <1>2 DEF phase
<1>4. CASE delivered' = delivered
  BY <1>1, <1>4
<1>5. CASE delivered' = delivered \cup {Event(i).id}
  BY <1>1, <1>2, <1>3, <1>5 DEF Contract!Next, Contract!Deliver
<1> QED
  BY <1>4, <1>5

(* Every step is a contract step or leaves phase and delivered alone.    *)
LEMMA RefinementStep ==
    InductiveInvariant /\ [Next]_vars => [Contract!Next]_<<phase, delivered>>
<1> SUFFICES ASSUME InductiveInvariant, [Next]_vars
             PROVE  [Contract!Next]_<<phase, delivered>>
  OBVIOUS
<1> USE DEF store, publisher
<1>1. CASE UNCHANGED store
  BY <1>1, SamePhase
<1>2. TypeOK /\ InHand
  BY DEF InductiveInvariant, PublisherInv, InHand
<1>3. ASSUME NEW i \in Instances, RunStep(i)
      PROVE  [Contract!Next]_<<phase, delivered>>
  <2>1. ASSUME NEW r \in Rows, Claim(i, r), UNCHANGED <<messages, delivered>>
        PROVE  [Contract!Next]_<<phase, delivered>>
    BY <1>2, <2>1, RowRefines DEF Claim, TypeOK
  <2>2. ASSUME batch[i] # <<>>, NEW doc, UpdateOwned(i, doc),
               UNCHANGED <<messages, delivered>>
        PROVE  [Contract!Next]_<<phase, delivered>>
    <3>1. Event(i).id \in Rows
      BY <1>2, <2>2, HeadType DEF Claimed
    <3>2. \A r \in Rows \ {Event(i).id} : outbox'[r] = outbox[r]
      BY <1>2, <2>2 DEF UpdateOwned, TypeOK
    <3> QED
      BY <2>2, <3>1, <3>2, RowRefines
  <2>3. CASE ClaimNext(i)
    BY <2>1, <2>3 DEF ClaimNext
  <2>4. CASE ClaimError(i)
    BY <1>1, <2>1, <2>4 DEF ClaimError
  <2>5. CASE PublishEvent(i)
    BY <2>5, SendRefines DEF PublishEvent
  <2>6. CASE PublishError(i)
    BY <2>6, SendRefines DEF PublishError
  <2>7. CASE MarkPublished(i)
    BY <1>2, <2>2, <2>7 DEF MarkPublished, InHand
  <2>8. CASE MarkPublishedError(i)
    BY <1>1, <1>2, <2>2, <2>8 DEF MarkPublishedError, InHand
  <2>9. CASE HandlePublishFailure(i)
    BY <1>2, <2>2, <2>9 DEF HandlePublishFailure, RecordFailure, InHand
  <2>10. CASE HandlePublishFailureError(i)
    BY <1>1, <1>2, <2>2, <2>10
       DEF HandlePublishFailureError, RecordFailure, InHand
  <2>11. CASE StartRun(i) \/ ClaimEnd(i) \/ FinishRun(i)
    BY <1>1, <2>11 DEF StartRun, ClaimEnd, FinishRun
  <2> QED
    BY <1>3, <2>3, <2>4, <2>5, <2>6, <2>7, <2>8, <2>9, <2>10, <2>11 DEF RunStep
<1>4. ASSUME NEW i \in Instances, Start(i) \/ Shutdown(i) \/ Crash(i)
      PROVE  [Contract!Next]_<<phase, delivered>>
  BY <1>1, <1>4 DEF Start, Shutdown, Crash
<1>5. ASSUME NEW r \in Rows, CreateMessage(r) \/ Expire(r)
      PROVE  [Contract!Next]_<<phase, delivered>>
  BY <1>2, <1>5, RowRefines DEF CreateMessage, Expire, TypeOK
<1>6. ASSUME NEW o \in Operators, Redrive(o)
      PROVE  [Contract!Next]_<<phase, delivered>>
  <2>1. ASSUME NEW r \in Rows, RedriveUpdate(o, r)
        PROVE  [Contract!Next]_<<phase, delivered>>
    BY <1>2, <2>1, RowRefines DEF RedriveUpdate, TypeOK
  <2>2. CASE RedriveBegin(o) \/ RedriveFind(o) \/ RedriveAbort(o)
    BY <1>1, <2>2 DEF RedriveBegin, RedriveFind, RedriveAbort
  <2> QED
    BY <1>6, <2>1, <2>2 DEF Redrive
<1>7. CASE Tick \/ UNCHANGED vars
  BY <1>1, <1>7 DEF Tick, vars
<1> QED
  BY <1>3, <1>4, <1>5, <1>6, <1>7 DEF Next

(* The outbox implements the delivery contract: each of its steps is one   *)
(* contract step on one event, or invisible.                               *)
THEOREM OutboxImplementsContract == Spec => ImplementsContract
<1>1. Init => Contract!Init
  BY DEF Init, Contract!Init, phase
<1> QED
  BY <1>1, RefinementStep, OutboxInvariant, PTL
     DEF Spec, ImplementsContract, Contract!Spec

=============================================================================
