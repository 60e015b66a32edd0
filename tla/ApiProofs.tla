------------------------------ MODULE ApiProofs ------------------------------
(* Proofs about requests to the API, for any number of concurrent ones.    *)
EXTENDS ApiRequest, TLAPS

(* Nothing is stored or answered in the beginning.                         *)
LEMMA InvInit == Init => ApiInv
BY ApiAssumption
   DEF Init, ApiInv, TypeOK, Inputs, Bodies, Stages, Transaction, NoResponse,
       PassedChecks, InContext, StoredTogether, CreatedIsStored,
       OnlyAcceptedStored, OwnCorrelationId, HasId

(* The types of what responses and rows are made of.                       *)
LEMMA PartTypes ==
    ASSUME TypeOK, NEW r \in Requests
    PROVE  /\ Resolved(r) \in CorrelationIds
           /\ ReplyId(r) \in CorrelationIds \cup {NoId}
           /\ MessageId(r) \in Ids
<1>1. input[r].header \in Headers \cup {NoId}
  BY DEF TypeOK, Inputs
<1>2. /\ Fresh(r) \in CorrelationIds
      /\ \A id \in Headers : Given(id) \in CorrelationIds
  BY DEF CorrelationIds
<1>3. context[r] \in CorrelationIds \cup {NoId} /\ attempt[r] \in Nat
  BY DEF TypeOK
<1> QED
  BY <1>1, <1>2, <1>3 DEF Resolved, ReplyId, MessageId, Ids

(* A commit writes the message and its row.                                *)
LEMMA PersistTogether ==
    ASSUME StoredTogether, NEW r \in Requests, Persist(r)
    PROVE  StoredTogether'
<1>1. Row(r).id = MessageId(r)
  BY DEF Row
<1>2. /\ messages' = messages \cup {Row(r).id}
      /\ rows' = rows \cup {Row(r)}
  BY <1>1 DEF Persist
<1>3. {row.id : row \in rows'} = {row.id : row \in rows} \cup {Row(r).id}
  BY <1>2
<1> QED
  BY <1>2, <1>3 DEF StoredTogether

(* A reply is well typed, and closes the request.                          *)
LEMMA ReplyType ==
    ASSUME TypeOK, NEW r \in Requests,
           NEW status \in {200, 201, 400, 401, 500, 503}, Reply(r, status)
    PROVE  /\ stage' \in [Requests -> Stages]
           /\ response' \in
                [Requests -> [status: {0, 200, 201, 400, 401, 500, 503},
                              correlationId: CorrelationIds \cup {NoId},
                              attempt: Nat]]
           /\ \A q \in Requests :
                response'[q] # NoResponse => stage'[q] = "done"
BY PartTypes DEF TypeOK, Reply, Goto, Stages

(* The types.                                                              *)
LEMMA TypeStep ==
    ASSUME ApiInv, NEW r \in Requests, Arrive(r) \/ Step(r)
    PROVE  TypeOK'
<1> USE PartTypes, ReplyType
    DEF ApiInv, TypeOK, Inputs, Bodies, Stages, Transaction, At, Goto,
        InContext, Row, Ids
<1>1. CASE Arrive(r)
  BY <1>1 DEF Arrive
<1>2. CASE ParseBody(r)
  <2>1. CASE UNCHANGED response
    BY <1>2, <2>1 DEF ParseBody, Goto, Stages
  <2>2. CASE Reply(r, 400) \/ Reply(r, 500)
    BY <1>2, <2>2, ReplyType DEF ParseBody
  <2> QED
    BY <1>2, <2>1, <2>2 DEF ParseBody
<1>3. CASE EnterContext(r)
  BY <1>3 DEF EnterContext
<1>4. CASE CanActivate(r)
  BY <1>4 DEF CanActivate, IsPublic
<1>5. CASE Validate(r)
  BY <1>5 DEF Validate, IsPublic
<1>6. CASE HandleRead(r)
  BY <1>6 DEF HandleRead, ErrorStatus
<1>7. CASE StartSession(r)
  BY <1>7 DEF StartSession, Begin
<1>8. CASE InsertMessage(r)
  BY <1>8 DEF InsertMessage
<1>9. CASE InsertOutbox(r)
  BY <1>9 DEF InsertOutbox
<1>10. CASE CreateFails(r)
  BY <1>10 DEF CreateFails, Fault
<1>11. CASE TransientError(r)
  BY <1>11 DEF TransientError, Begin, Fault
<1>12. CASE Commit(r)
  BY <1>12 DEF Commit, Persist
<1>13. CASE CommitError(r)
  BY <1>13 DEF CommitError, Persist, Fault
<1> QED
  BY <1>1, <1>2, <1>3, <1>4, <1>5, <1>6, <1>7, <1>8, <1>9, <1>10, <1>11, <1>12,
     <1>13
     DEF Step

(* The checks and the context come before the handler, and stay behind it. *)
LEMMA ChecksStep ==
    ASSUME ApiInv, NEW r \in Requests, Arrive(r) \/ Step(r)
    PROVE  \A q \in Requests : PassedChecks(q)' /\ InContext(q)'
<1> USE DEF ApiInv, TypeOK, Transaction, At, Goto, Reply, PassedChecks,
            IsPublic, InContext, Resolved
<1>1. CASE Arrive(r)
  BY <1>1 DEF Arrive
<1>2. CASE ParseBody(r)
  <2>1. CASE Goto(r, "context")
    BY <1>2, <2>1 DEF ParseBody
  <2>2. CASE Goto(r, "done")
    BY <1>2, <2>2 DEF ParseBody
  <2> QED
    BY <1>2, <2>1, <2>2 DEF ParseBody
<1>3. CASE EnterContext(r)
  BY <1>3 DEF EnterContext
<1>4. CASE CanActivate(r)
  BY <1>4 DEF CanActivate, IsPublic
<1>5. CASE Validate(r)
  BY <1>5 DEF Validate, IsPublic
<1>6. CASE HandleRead(r)
  BY <1>6 DEF HandleRead, ErrorStatus
<1>7. CASE StartSession(r)
  BY <1>7 DEF StartSession, Begin
<1>8. CASE InsertMessage(r)
  BY <1>8 DEF InsertMessage
<1>9. CASE InsertOutbox(r)
  BY <1>9 DEF InsertOutbox
<1>10. CASE CreateFails(r)
  BY <1>10 DEF CreateFails, Fault
<1>11. CASE TransientError(r)
  BY <1>11 DEF TransientError, Begin, Fault
<1>12. CASE Commit(r)
  BY <1>12 DEF Commit, Persist
<1>13. CASE CommitError(r)
  BY <1>13 DEF CommitError, Persist, Fault
<1> QED
  BY <1>1, <1>2, <1>3, <1>4, <1>5, <1>6, <1>7, <1>8, <1>9, <1>10, <1>11, <1>12,
     <1>13
     DEF Step

(* Both collections grow together, and by the run that is committed.       *)
LEMMA StoredStep ==
    ASSUME ApiInv, NEW r \in Requests, Arrive(r) \/ Step(r)
    PROVE  StoredTogether' /\ \A m \in messages' : CommittedIsLast(m)'
<1> USE PartTypes
    DEF ApiInv, TypeOK, Transaction, At, Goto, Reply, CommittedIsLast,
        StoredTogether, Row, MessageId, Ids
<1>1. CASE Arrive(r)
  BY <1>1 DEF Arrive
<1>2. CASE ParseBody(r)
  BY <1>2 DEF ParseBody
<1>3. CASE EnterContext(r)
  BY <1>3 DEF EnterContext
<1>4. CASE CanActivate(r)
  BY <1>4 DEF CanActivate, IsPublic
<1>5. CASE Validate(r)
  BY <1>5 DEF Validate, IsPublic
<1>6. CASE HandleRead(r)
  BY <1>6 DEF HandleRead, ErrorStatus
<1>7. CASE StartSession(r)
  BY <1>7 DEF StartSession, Begin
<1>8. CASE InsertMessage(r)
  BY <1>8 DEF InsertMessage
<1>9. CASE InsertOutbox(r)
  BY <1>9 DEF InsertOutbox
<1>10. CASE CreateFails(r)
  BY <1>10 DEF CreateFails, Fault
<1>11. CASE TransientError(r)
  BY <1>11 DEF TransientError, Begin, Fault
<1>12. CASE Commit(r)
  <2>2. CASE Persist(r)
    <3>1. StoredTogether'
      BY <2>2, PersistTogether
    <3>2. \A m \in messages' : CommittedIsLast(m)'
      BY <1>12, <2>2 DEF Commit, Persist
    <3> QED
      BY <3>1, <3>2
  <2>3. CASE UNCHANGED <<messages, rows>>
    BY <1>12, <2>3 DEF Commit
  <2> QED
    BY <1>12, <2>2, <2>3 DEF Commit
<1>13. CASE CommitError(r)
  <2>2. CASE Persist(r)
    <3>1. StoredTogether'
      BY <2>2, PersistTogether
    <3>2. \A m \in messages' : CommittedIsLast(m)'
      BY <1>13, <2>2 DEF CommitError, Fault, Persist
    <3> QED
      BY <3>1, <3>2
  <2>3. CASE UNCHANGED <<messages, rows>>
    BY <1>13, <2>3 DEF CommitError, Fault
  <2> QED
    BY <1>13, <2>2, <2>3 DEF CommitError, Fault
<1> QED
  BY <1>1, <1>2, <1>3, <1>4, <1>5, <1>6, <1>7, <1>8, <1>9, <1>10, <1>11, <1>12,
     <1>13
     DEF Step

(* The id of a 201 is that of the run that was committed.                  *)
LEMMA CreatedStep ==
    ASSUME ApiInv, NEW r \in Requests, Arrive(r) \/ Step(r)
    PROVE  CreatedIsStored'
<1> USE PartTypes
    DEF ApiInv, TypeOK, Transaction, At, Goto, Reply, CreatedIsStored,
        MessageId, Ids, NoResponse
<1>1. CASE Arrive(r)
  BY <1>1 DEF Arrive
<1>2. CASE ParseBody(r)
  BY <1>2 DEF ParseBody
<1>3. CASE EnterContext(r)
  BY <1>3 DEF EnterContext
<1>4. CASE CanActivate(r)
  BY <1>4 DEF CanActivate, IsPublic
<1>5. CASE Validate(r)
  BY <1>5 DEF Validate, IsPublic
<1>6. CASE HandleRead(r)
  BY <1>6 DEF HandleRead, ErrorStatus
<1>7. CASE StartSession(r)
  BY <1>7 DEF StartSession, Begin
<1>8. CASE InsertMessage(r)
  BY <1>8 DEF InsertMessage
<1>9. CASE InsertOutbox(r)
  BY <1>9 DEF InsertOutbox
<1>10. CASE CreateFails(r)
  BY <1>10 DEF CreateFails, Fault
<1>11. CASE TransientError(r)
  BY <1>11 DEF TransientError, Begin, Fault
<1>12. CASE Commit(r)
  BY <1>12 DEF Commit, Persist
<1>13. CASE CommitError(r)
  BY <1>13 DEF CommitError, Persist, Fault
<1> QED
  BY <1>1, <1>2, <1>3, <1>4, <1>5, <1>6, <1>7, <1>8, <1>9, <1>10, <1>11, <1>12,
     <1>13
     DEF Step

(* Whatever is stored passed the checks.                                   *)
LEMMA AcceptedStep ==
    ASSUME ApiInv, NEW r \in Requests, Arrive(r) \/ Step(r)
    PROVE  OnlyAcceptedStored'
<1> USE PartTypes
    DEF ApiInv, TypeOK, Transaction, At, Goto, Reply, OnlyAcceptedStored,
        PassedChecks, CommittedIsLast, MessageId, Ids, NoResponse
<1>1. CASE Arrive(r)
  BY <1>1 DEF Arrive
<1>2. CASE ParseBody(r)
  BY <1>2 DEF ParseBody
<1>3. CASE EnterContext(r)
  BY <1>3 DEF EnterContext
<1>4. CASE CanActivate(r)
  BY <1>4 DEF CanActivate, IsPublic
<1>5. CASE Validate(r)
  BY <1>5 DEF Validate, IsPublic
<1>6. CASE HandleRead(r)
  BY <1>6 DEF HandleRead, ErrorStatus
<1>7. CASE StartSession(r)
  BY <1>7 DEF StartSession, Begin
<1>8. CASE InsertMessage(r)
  BY <1>8 DEF InsertMessage
<1>9. CASE InsertOutbox(r)
  BY <1>9 DEF InsertOutbox
<1>10. CASE CreateFails(r)
  BY <1>10 DEF CreateFails, Fault
<1>11. CASE TransientError(r)
  BY <1>11 DEF TransientError, Begin, Fault
<1>12. CASE Commit(r)
  BY <1>12 DEF Commit, Persist
<1>13. CASE CommitError(r)
  BY <1>13 DEF CommitError, Persist, Fault
<1> QED
  BY <1>1, <1>2, <1>3, <1>4, <1>5, <1>6, <1>7, <1>8, <1>9, <1>10, <1>11, <1>12,
     <1>13
     DEF Step

(* Rows and responses carry what the request resolved.                     *)
LEMMA CorrelationStep ==
    ASSUME ApiInv, NEW r \in Requests, Arrive(r) \/ Step(r)
    PROVE  OwnCorrelationId'
<1> USE PartTypes
    DEF ApiInv, TypeOK, Transaction, At, Goto, Reply, OwnCorrelationId,
        HasId, InContext, Resolved, StoredTogether, CommittedIsLast, Row, ReplyId,
        MessageId, Ids, NoResponse
<1>1. CASE Arrive(r)
  BY <1>1 DEF Arrive
<1>2. CASE ParseBody(r)
  <2>1. CASE UNCHANGED response
    BY <1>2, <2>1 DEF ParseBody
  <2>2. CASE Reply(r, 400) /\ input[r].body = "malformed"
    BY <1>2, <2>2 DEF ParseBody
  <2>3. CASE Reply(r, 500) /\ input[r].body = "tooLarge"
    BY <1>2, <2>3 DEF ParseBody
  <2> QED
    BY <1>2, <2>1, <2>2, <2>3 DEF ParseBody
<1>3. CASE EnterContext(r)
  BY <1>3 DEF EnterContext
<1>4. CASE CanActivate(r)
  <2>1. CASE UNCHANGED response
    BY <1>4, <2>1 DEF CanActivate
  <2>2. CASE Reply(r, 401)
    BY <1>4, <2>2 DEF CanActivate
  <2> QED
    BY <1>4, <2>1, <2>2 DEF CanActivate
<1>5. CASE Validate(r)
  <2>1. CASE UNCHANGED response
    BY <1>5, <2>1 DEF Validate
  <2>2. CASE Reply(r, 400)
    BY <1>5, <2>2 DEF Validate
  <2> QED
    BY <1>5, <2>1, <2>2 DEF Validate
<1>6. CASE HandleRead(r)
  BY <1>6 DEF HandleRead, ErrorStatus
<1>7. CASE StartSession(r)
  BY <1>7 DEF StartSession, Begin
<1>8. CASE InsertMessage(r)
  BY <1>8 DEF InsertMessage
<1>9. CASE InsertOutbox(r)
  BY <1>9 DEF InsertOutbox
<1>10. CASE CreateFails(r)
  BY <1>10 DEF CreateFails, Fault
<1>11. CASE TransientError(r)
  BY <1>11 DEF TransientError, Begin, Fault
<1>12. CASE Commit(r)
  BY <1>12 DEF Commit, Persist
<1>13. CASE CommitError(r)
  BY <1>13 DEF CommitError, Persist, Fault
<1> QED
  BY <1>1, <1>2, <1>3, <1>4, <1>5, <1>6, <1>7, <1>8, <1>9, <1>10, <1>11, <1>12,
     <1>13
     DEF Step

(* A crash answers nobody and stores nothing.                              *)
LEMMA CrashStep == ApiInv /\ Crash => ApiInv'
<1> SUFFICES ASSUME ApiInv, Crash PROVE ApiInv'
  OBVIOUS
<1>1. TypeOK'
  BY DEF ApiInv, TypeOK, Crash, Fault, At, Stages
<1>2. \A r \in Requests : PassedChecks(r)' /\ InContext(r)'
  BY DEF ApiInv, TypeOK, Crash, At, PassedChecks, IsPublic, InContext, Resolved,
         Transaction
<1>3. \A m \in messages' : CommittedIsLast(m)'
  BY DEF ApiInv, TypeOK, Ids, Crash, At, CommittedIsLast
<1>4. /\ StoredTogether' /\ CreatedIsStored'
      /\ OnlyAcceptedStored' /\ OwnCorrelationId'
  BY DEF ApiInv, Crash, StoredTogether, CreatedIsStored, OnlyAcceptedStored,
         OwnCorrelationId, HasId, Resolved
<1> QED
  BY <1>1, <1>2, <1>3, <1>4 DEF ApiInv

(* Every step keeps the invariant.                                         *)
LEMMA InvNext == ApiInv /\ [Next]_vars => ApiInv'
<1> SUFFICES ASSUME ApiInv, [Next]_vars PROVE ApiInv'
  OBVIOUS
<1>1. ASSUME NEW r \in Requests, Arrive(r) \/ Step(r) PROVE ApiInv'
  BY <1>1, TypeStep, ChecksStep, StoredStep, CreatedStep, AcceptedStep,
     CorrelationStep DEF ApiInv
<1>2. CASE Crash
  BY <1>2, CrashStep
<1>3. CASE UNCHANGED vars
  BY <1>3 DEF vars, ApiInv, TypeOK, PassedChecks, IsPublic, InContext, Resolved,
              CommittedIsLast, StoredTogether, CreatedIsStored,
              OnlyAcceptedStored, OwnCorrelationId, HasId
<1> QED
  BY <1>1, <1>2, <1>3 DEF Next

(* The inductive invariant of the API.                                     *)
THEOREM ApiInvariant == Spec => []ApiInv
BY InvInit, InvNext, PTL DEF Spec

(* The message and its outbox row become visible together.                 *)
THEOREM MessageAndRowTogether == Spec => []StoredTogether
<1>1. ApiInv => StoredTogether
  BY DEF ApiInv
<1> QED
  BY <1>1, ApiInvariant, PTL

(* Whoever was told 201 has the id of a stored message.                    *)
THEOREM CreatedIsTrue == Spec => []CreatedIsStored
<1>1. ApiInv => CreatedIsStored
  BY DEF ApiInv
<1> QED
  BY <1>1, ApiInvariant, PTL

(* Only valid, authenticated requests store anything.                      *)
THEOREM RejectedStoresNothing == Spec => []OnlyAcceptedStored
<1>1. ApiInv => OnlyAcceptedStored
  BY DEF ApiInv
<1> QED
  BY <1>1, ApiInvariant, PTL

(* Events and responses never carry another request's correlation id, and  *)
(* a request that sent an id, or got past the JSON parser, is always       *)
(* answered with its own.                                                  *)
THEOREM CorrelationIsOwn == Spec => []OwnCorrelationId
<1>1. ApiInv => OwnCorrelationId
  BY DEF ApiInv
<1> QED
  BY <1>1, ApiInvariant, PTL

(* A run of the callback that is committed is the last one, so two         *)
(* messages of a request have the same attempt.                            *)
LEMMA OneNow == ApiInv => OnePerRequest
<1> SUFFICES ASSUME ApiInv PROVE OnePerRequest
  OBVIOUS
<1>1. messages \subseteq Ids /\ \A m \in messages : m.attempt = attempt[m.by]
  BY DEF ApiInv, TypeOK, CommittedIsLast
<1> QED
  BY <1>1 DEF OnePerRequest, Ids

(* A request stores one message at most, however often it is tried.        *)
THEOREM StoredOnce == Spec => []OnePerRequest
BY OneNow, ApiInvariant, PTL

==============================================================================
