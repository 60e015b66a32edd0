------------------------------ MODULE Pipeline ------------------------------
(***************************************************************************)
(* The delivery pipeline as a whole: the outbox, by its contract (module   *)
(* Outbox implements DeliveryContract), in front of the topic, the search  *)
(* indexer and dlq:redrive (module SearchIndexer).  The outbox appends to  *)
(* the topic when the contract delivers; nothing else is shared.           *)
(***************************************************************************)
EXTENDS SearchIndexer

VARIABLE phase     \* what the outbox has done with each message

pipeline == <<vars, phase>>

(* The events that are in the topic.                                       *)
InTopic == {topic[o] : o \in 1 .. Len(topic)}

Contract == INSTANCE DeliveryContract
                WITH Events <- Messages, delivered <- InTopic

(* A message and its outbox row are committed.                             *)
Accept(m) == UNCHANGED vars /\ Contract!Accept(m)

(* Mutant: a row that is given up is dropped from the outbox.              *)
SettleDropping(m) ==
    UNCHANGED vars /\ (Contract!Confirm(m) \/ Contract!Move(m, "waiting", "purged"))

(* Its row is marked published, or failed.                                 *)
Settle(m) == UNCHANGED vars /\ (Contract!Confirm(m) \/ Contract!GiveUp(m))

(* outbox:redrive, and the TTL index.                                      *)
TakeUp(m) == UNCHANGED vars /\ Contract!TakeUp(m)

Purge(m) == UNCHANGED vars /\ Contract!Purge(m)

(* A publisher sends its event, for the first time or once more.           *)
Deliver(m) == Produce(m) /\ Contract!Deliver(m)

PipelineInit == Init /\ Contract!Init

PipelineNext ==
    \/ \E m \in Messages :
         Accept(m) \/ Settle(m) \/ TakeUp(m) \/ Purge(m) \/ Deliver(m)
    \/ (Group \/ Redrive) /\ UNCHANGED phase

PipelineSpec == PipelineInit /\ [][PipelineNext]_pipeline

(* EventuallySettled of module Outbox settles a waiting row.  A member of  *)
(* the group goes on with its record, and a free partition is assigned.    *)
(* Nothing is assumed of Elasticsearch, whose every answer may be an       *)
(* error, nor of the operators' commands, which may be interrupted.        *)
PipelineFairSpec ==
    /\ PipelineSpec
    /\ \A m \in Messages : WF_pipeline(Settle(m))
    /\ \A c \in Consumers : /\ WF_pipeline(Work(c) /\ UNCHANGED phase)
                            /\ WF_pipeline(Join(c) /\ UNCHANGED phase)

-----------------------------------------------------------------------------
(* Properties.                                                             *)

ToBeConsumed(m) == \E o \in committed + 1 .. Len(topic) : topic[o] = m

DeadLettered(m) == \E d \in PendingDeadLetters : dlq[d].msg = m

(* What a message has come to, as its sender and an operator see it.       *)
Fate(m) ==
    CASE phase[m] = "none" -> "none"
      [] phase[m] # "none" /\ m \in indexed -> "searchable"
      [] phase[m] # "none" /\ m \notin indexed ->
           IF DeadLettered(m) THEN "dead_letter"
           ELSE IF phase[m] = "waiting" \/ ToBeConsumed(m) THEN "under_way"
           ELSE IF phase[m] = "given_up" THEN "failed"
           ELSE IF Kind[m] = "unknown" THEN "skipped" ELSE "lost"

Promise == INSTANCE Journey
               WITH Events <- Messages,
                    Indexable <- {m \in Messages : Kind[m] = "valid"},
                    Unsupported <- {m \in Messages : Kind[m] = "unknown"},
                    fate <- [m \in Messages |-> Fate(m)]

(* The pipeline implements Journey: nothing is ever lost between the       *)
(* components, what is searchable stays so, and every other resting place  *)
(* is one that an operator can see and take the message up from.           *)
KeepsPromise == Promise!Spec

(* Outbox, topic and index agree: what is in the topic was accepted, what  *)
(* is confirmed or purged is in the topic, and so is what is searchable.   *)
StoresAgree ==
    \A m \in Messages :
        /\ m \in InTopic => phase[m] # "none"
        /\ phase[m] \in {"confirmed", "purged"} => m \in InTopic
        /\ m \in indexed => m \in InTopic

(* The inductive invariant of the whole.                                   *)
PipelineInv ==
    /\ IndexerInv
    /\ phase \in [Messages -> Contract!Phases]
    /\ StoresAgree

(* Nothing stays under way for ever: an accepted message becomes           *)
(* searchable, or comes to rest where an operator sees it, however often   *)
(* Elasticsearch fails.                                                    *)
ComesToRest ==
    \A m \in Messages : Fate(m) = "under_way" ~> Fate(m) # "under_way"

=============================================================================
