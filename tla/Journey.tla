------------------------------- MODULE Journey -------------------------------
(***************************************************************************)
(* What the whole pipeline promises about an accepted message, with rows,  *)
(* topics, offsets and processes left out: it is under way until it is     *)
(* searchable, or rests where an operator finds it: as a failed outbox row *)
(* or as a dead letter.  From there a command, or a late duplicate, puts   *)
(* it under way again.  Only versions the indexer does not support are     *)
(* skipped.  There is no fate "lost".                                      *)
(***************************************************************************)
CONSTANTS
    Events,        \* accepted messages
    Indexable,     \* those that parse and that Elasticsearch accepts
    Unsupported    \* those of a version the indexer does not know

VARIABLE fate

(* Where a message may go from where it is.                                *)
Moves(e) ==
    {<<"none", "under_way">>, <<"under_way", "failed">>,
     <<"failed", "under_way">>, <<"dead_letter", "under_way">>}
    \cup (IF e \in Indexable
          THEN {"under_way", "dead_letter"} \X {"searchable"} ELSE {})
    \cup (IF e \in Unsupported
          THEN {<<"under_way", "skipped">>, <<"skipped", "under_way">>}
          ELSE {<<"under_way", "dead_letter">>})

Init == fate = [e \in Events |-> "none"]

(* One commit of an offset may move several messages.                      *)
Next ==
    \A e \in Events :
        fate'[e] # fate[e] => <<fate[e], fate'[e]>> \in Moves(e)

Spec == Init /\ [][Next]_fate

==============================================================================
