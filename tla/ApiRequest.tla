------------------------------ MODULE ApiRequest ------------------------------
(***************************************************************************)
(* A request to the API, from the JSON parser to the response: parser,     *)
(* correlation context, API-key guard, validation, controller, service and *)
(* exception filter.  The interesting one is POST /messages: MongoDB runs  *)
(* its transaction callback again after a transient error and repeats a    *)
(* commit whose outcome it does not know, while other requests of the same *)
(* process are at work and the process may die.                            *)
(*                                                                         *)
(* What a request carries is reduced to what decides about it.             *)
(***************************************************************************)
EXTENDS Integers, FiniteSets

CONSTANTS
    Requests,   \* requests to one API process
    Headers,    \* correlation ids that clients send
    NoId,       \* no correlation id
    MaxFaults   \* bound: MongoDB errors and deaths of the process

ASSUME ApiAssumption ==
    /\ NoId \notin Headers
    /\ MaxFaults \in Nat

VARIABLES
    input,      \* what the client sent
    stage,      \* what happens to the request next
    context,    \* its AsyncLocalStorage: the correlation id
    attempt,    \* how often the transaction callback has begun
    messages,   \* committed messages
    rows,       \* committed outbox rows
    response,   \* what the client got
    faults

vars == <<input, stage, context, attempt, messages, rows, response, faults>>

-----------------------------------------------------------------------------
(* Requests.                                                               *)

(* The body of a POST; the parameters and the query of a GET.              *)
Bodies == {"valid", "invalid", "malformed", "tooLarge"}

Inputs == [endpoint: {"create"}, key: BOOLEAN, body: Bodies,
           header: Headers \cup {NoId}]
          \cup
          [endpoint: {"list", "search", "health"}, key: BOOLEAN,
           body: {"valid", "invalid"}, header: Headers \cup {NoId}]

Transaction == {"session", "insertMessage", "insertOutbox", "commit"}

Stages == {"new", "parse", "context", "guard", "validate", "handle", "done"}
          \cup Transaction

(* A correlation id is the client's or a random UUID, drawn for r.  (The   *)
(* logger's middleware draws it in the same way and hands it on.)          *)
Given(id) == [from |-> "header", of |-> id]
Fresh(r) == [from |-> "uuid", of |-> r]
CorrelationIds == {Given(id) : id \in Headers} \cup {Fresh(r) : r \in Requests}

(* `attempt` tells the documents apart that the runs of a callback create. *)
MessageId(r) == [by |-> r, attempt |-> attempt[r]]

NoResponse == [status |-> 0, correlationId |-> NoId, attempt |-> 0]

At(r, s) == stage[r] = s

Goto(r, s) == stage' = [stage EXCEPT ![r] = s]

Fault == faults < MaxFaults /\ faults' = faults + 1

(* AllExceptionsFilter: the context's correlation id, or else the header.  *)
ReplyId(r) ==
    IF context[r] # NoId THEN context[r]
    ELSE IF input[r].header # NoId THEN Given(input[r].header) ELSE NoId

Reply(r, status) ==
    /\ response' = [response EXCEPT
                      ![r] = [status |-> status, correlationId |-> ReplyId(r),
                              attempt |-> attempt[r]]]
    /\ Goto(r, "done")

-----------------------------------------------------------------------------
(* Before the controller.                                                  *)

Arrive(r) ==
    /\ At(r, "new")
    /\ \E i \in Inputs : input' = [input EXCEPT ![r] = i]
    /\ Goto(r, "parse")
    /\ UNCHANGED <<context, attempt, messages, rows, response, faults>>

(* Mutant: the parser's errors are never handed on.                        *)
ParseBodyHangs(r) ==
    /\ At(r, "parse")
    /\ input[r].body \in {"valid", "invalid"} /\ Goto(r, "context")
    /\ UNCHANGED <<input, context, attempt, messages, rows, response, faults>>

(* express.json runs before everything of Nest: its errors are answered    *)
(* outside any correlation context.  Nest turns a syntax error into a 400; *)
(* a body above the limit is no HttpException and becomes a 500.           *)
ParseBody(r) ==
    /\ At(r, "parse")
    /\ \/ /\ input[r].body \in {"valid", "invalid"}
          /\ Goto(r, "context")
          /\ UNCHANGED response
       \/ input[r].body = "malformed" /\ Reply(r, 400)
       \/ input[r].body = "tooLarge" /\ Reply(r, 500)
    /\ UNCHANGED <<input, context, attempt, messages, rows, faults>>

(* resolveCorrelationId.                                                   *)
Resolved(r) == IF input[r].header = NoId THEN Fresh(r) ELSE Given(input[r].header)

(* Mutant: one context for the process instead of one per request.         *)
EnterContextShared(r) ==
    /\ At(r, "context")
    /\ context' = [q \in Requests |-> Resolved(r)]
    /\ Goto(r, "guard")
    /\ UNCHANGED <<input, attempt, messages, rows, response, faults>>

(* CorrelationIdMiddleware.use: the rest of the request runs inside.       *)
EnterContext(r) ==
    /\ At(r, "context")
    /\ context' = [context EXCEPT ![r] = Resolved(r)]
    /\ Goto(r, "guard")
    /\ UNCHANGED <<input, attempt, messages, rows, response, faults>>

IsPublic(r) == input[r].endpoint = "health"

(* Mutant: a key that does not match is answered, but the request goes on. *)
CanActivateGoesOn(r) ==
    /\ At(r, "guard")
    /\ IF IsPublic(r) \/ input[r].key THEN UNCHANGED response
       ELSE response' = [response EXCEPT ![r].status = 401]
    /\ Goto(r, "validate")
    /\ UNCHANGED <<input, context, attempt, messages, rows, faults>>

(* ApiKeyGuard.                                                            *)
CanActivate(r) ==
    /\ At(r, "guard")
    /\ IF IsPublic(r) \/ input[r].key
       THEN Goto(r, "validate") /\ UNCHANGED response
       ELSE Reply(r, 401)
    /\ UNCHANGED <<input, context, attempt, messages, rows, faults>>

(* ValidationPipe with the DTO classes; for a list also the decoding of    *)
(* its cursor, which throws a BadRequestException just the same.           *)
Validate(r) ==
    /\ At(r, "validate")
    /\ IF input[r].body = "invalid" /\ ~IsPublic(r)
       THEN Reply(r, 400)
       ELSE /\ Goto(r, IF input[r].endpoint = "create" THEN "session" ELSE "handle")
            /\ UNCHANGED response
    /\ UNCHANGED <<input, context, attempt, messages, rows, faults>>

(* What the filter makes of an error inside each handler.  A search that   *)
(* fails for any reason is SearchUnavailableError.                         *)
ErrorStatus(r) == IF input[r].endpoint = "list" THEN 500 ELSE 503

HandleRead(r) ==
    /\ At(r, "handle")
    /\ \E status \in {200, ErrorStatus(r)} : Reply(r, status)
    /\ UNCHANGED <<input, context, attempt, messages, rows, faults>>

-----------------------------------------------------------------------------
(* MessagesController.create and CreateMessageService.execute.  Writes     *)
(* stay in the session until the commit, and a callback that throws is     *)
(* aborted: only Commit and CommitError touch the collections.             *)

Begin(r) == /\ attempt' = [attempt EXCEPT ![r] = @ + 1]
            /\ Goto(r, "insertMessage")

StartSession(r) ==
    /\ At(r, "session")
    /\ Begin(r)
    /\ UNCHANGED <<input, context, messages, rows, response, faults>>

InsertMessage(r) ==
    /\ At(r, "insertMessage")
    /\ Goto(r, "insertOutbox")
    /\ UNCHANGED <<input, context, attempt, messages, rows, response, faults>>

(* The event carries the request's correlation id.                         *)
Row(r) == [id |-> MessageId(r), correlationId |-> context[r]]

(* Mutant: the outbox row is inserted without the session.                 *)
InsertOutboxAlone(r) ==
    /\ At(r, "insertOutbox")
    /\ rows' = rows \cup {Row(r)}
    /\ Goto(r, "commit")
    /\ UNCHANGED <<input, context, attempt, messages, response, faults>>

InsertOutbox(r) ==
    /\ At(r, "insertOutbox")
    /\ Goto(r, "commit")
    /\ UNCHANGED <<input, context, attempt, messages, rows, response, faults>>

(* An error of startSession or of the callback that is not transient.      *)
CreateFails(r) ==
    /\ stage[r] \in {"session", "insertMessage", "insertOutbox"}
    /\ Fault
    /\ Reply(r, 500)
    /\ UNCHANGED <<input, context, attempt, messages, rows>>

(* TransientTransactionError: withTransaction begins again.                *)
TransientError(r) ==
    /\ stage[r] \in {"insertMessage", "insertOutbox", "commit"}
    /\ MessageId(r) \notin messages
    /\ Fault
    /\ Begin(r)
    /\ UNCHANGED <<input, context, messages, rows, response>>

Persist(r) == /\ messages' = messages \cup {MessageId(r)}
              /\ rows' = rows \cup {Row(r)}

(* The commit, or its repetition: MongoDB applies it once.                 *)
Commit(r) ==
    /\ At(r, "commit")
    /\ Persist(r)
    /\ Reply(r, 201)
    /\ UNCHANGED <<input, context, attempt, faults>>

(* Mutants: a commit that timed out is taken for success; the callback is  *)
(* run again after it.                                                     *)
CommitErrorIgnored(r) ==
    /\ At(r, "commit")
    /\ Fault
    /\ Persist(r) \/ UNCHANGED <<messages, rows>>
    /\ Reply(r, 201)
    /\ UNCHANGED <<input, context, attempt>>
CommitErrorRunsAgain(r) ==
    /\ At(r, "commit")
    /\ Fault
    /\ Persist(r) \/ UNCHANGED <<messages, rows>>
    /\ Begin(r)
    /\ UNCHANGED <<input, context, response>>

(* UnknownTransactionCommitResult: applied or not, the driver commits      *)
(* again, or gives up and throws.                                          *)
CommitError(r) ==
    /\ At(r, "commit")
    /\ Fault
    /\ Persist(r) \/ UNCHANGED <<messages, rows>>
    /\ Reply(r, 500) \/ UNCHANGED <<stage, response>>
    /\ UNCHANGED <<input, context, attempt>>

(* The process dies: its clients get no answer, its transactions abort.    *)
Crash ==
    /\ Fault
    /\ stage' = [r \in Requests |-> IF At(r, "new") THEN "new" ELSE "done"]
    /\ UNCHANGED <<input, context, attempt, messages, rows, response>>

-----------------------------------------------------------------------------
Init ==
    /\ input = [r \in Requests |-> [endpoint |-> "health", key |-> FALSE,
                                    body |-> "valid", header |-> NoId]]
    /\ stage = [r \in Requests |-> "new"]
    /\ context = [r \in Requests |-> NoId]
    /\ attempt = [r \in Requests |-> 0]
    /\ messages = {}
    /\ rows = {}
    /\ response = [r \in Requests |-> NoResponse]
    /\ faults = 0

Step(r) ==
    \/ ParseBody(r)
    \/ EnterContext(r)
    \/ CanActivate(r)
    \/ Validate(r)
    \/ HandleRead(r)
    \/ StartSession(r)
    \/ InsertMessage(r)
    \/ InsertOutbox(r)
    \/ CreateFails(r)
    \/ TransientError(r)
    \/ Commit(r)
    \/ CommitError(r)

Next ==
    \/ \E r \in Requests : Arrive(r) \/ Step(r)
    \/ Crash

Spec == Init /\ [][Next]_vars

(* The event loop goes on, and the driver answers or throws.               *)
FairSpec == Spec /\ \A r \in Requests : WF_vars(Step(r))

-----------------------------------------------------------------------------
(* Properties.                                                             *)

Ids == [by: Requests, attempt: Nat]

(* Types; a request is answered once, and nothing happens to it after.     *)
TypeOK ==
    /\ input \in [Requests -> Inputs]
    /\ stage \in [Requests -> Stages]
    /\ context \in [Requests -> CorrelationIds \cup {NoId}]
    /\ attempt \in [Requests -> Nat]
    /\ messages \subseteq Ids
    /\ rows \subseteq [id: Ids, correlationId: CorrelationIds]
    /\ response \in [Requests -> [status: {0, 200, 201, 400, 401, 500, 503},
                                  correlationId: CorrelationIds \cup {NoId},
                                  attempt: Nat]]
    /\ \A r \in Requests : response[r] # NoResponse => stage[r] = "done"
    /\ faults \in Nat

(* "Persists a message and a pending outbox event in one MongoDB           *)
(* transaction": neither is ever visible without the other.                *)
StoredTogether == messages = {row.id : row \in rows}

(* The client of a 201 got the id of a message that is stored.             *)
CreatedIsStored ==
    \A r \in Requests :
        response[r].status = 201 =>
            [by |-> r, attempt |-> response[r].attempt] \in messages

(* A request stores one message at most, however often its callback or its *)
(* commit was repeated.                                                    *)
OnePerRequest ==
    \A p, q \in messages : p.by = q.by => p = q

(* What is stored comes from a valid, authenticated request, and a client  *)
(* that was told 400 or 401 stored nothing.                                *)
OnlyAcceptedStored ==
    \A m \in messages :
        /\ input[m.by].endpoint = "create"
        /\ input[m.by].key
        /\ input[m.by].body = "valid"
        /\ response[m.by].status \notin {400, 401}

(* The client sent an id, or the middleware has resolved one.              *)
HasId(r) == input[r].header # NoId \/ context[r] # NoId

(* Concurrent requests never mix up their correlation ids: every event and *)
(* every id that is handed out is that of its own request.  A client that  *)
(* sent an id gets it back whatever goes wrong, in the parser too; a       *)
(* request that runs in a context is never answered without its id.        *)
OwnCorrelationId ==
    /\ \A row \in rows : row.correlationId = Resolved(row.id.by)
    /\ \A r \in Requests :
         /\ response[r].correlationId # NoId
              => response[r].correlationId = Resolved(r)
         /\ response[r].status # 0 /\ HasId(r)
              => response[r].correlationId = Resolved(r)

(* What lets a request go on: it passed the guard and the validation, it   *)
(* runs in its context, and it has no answer yet.                          *)
PassedChecks(r) ==
    /\ stage[r] \notin {"new", "parse", "done"}
         => input[r].body \in {"valid", "invalid"}
    /\ stage[r] = "validate" => IsPublic(r) \/ input[r].key
    /\ stage[r] \in Transaction => /\ input[r].endpoint = "create"
                                  /\ input[r].key
                                  /\ input[r].body = "valid"

InContext(r) ==
    \/ stage[r] \in {"new", "parse", "context", "done"} /\ context[r] = NoId
    \/ stage[r] \notin {"new", "parse", "context"} /\ context[r] = Resolved(r)

(* A committed run of the callback is the last one.                        *)
CommittedIsLast(m) ==
    /\ m.attempt = attempt[m.by]
    /\ stage[m.by] \in {"commit", "done"}

(* The inductive invariant.                                                *)
ApiInv ==
    /\ TypeOK
    /\ \A r \in Requests : PassedChecks(r) /\ InContext(r)
    /\ \A m \in messages : CommittedIsLast(m)
    /\ StoredTogether
    /\ CreatedIsStored
    /\ OnlyAcceptedStored
    /\ OwnCorrelationId

(* Every request is answered, or its connection breaks.                    *)
EveryRequestAnswered ==
    \A r \in Requests : stage[r] = "parse" ~> stage[r] = "done"

=============================================================================
