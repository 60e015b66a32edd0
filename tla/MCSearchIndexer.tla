--------------------------- MODULE MCSearchIndexer ---------------------------
(* A small instance of SearchIndexer for TLC: two members, one event each  *)
(* that is indexed, that does not parse, and that Elasticsearch rejects.   *)
EXTENDS SearchIndexer, TLC

CONSTANTS good, garbled, poison, s1, s2, none

MixedKind == (good :> "valid") @@ (garbled :> "malformed")
               @@ (poison :> "rejected")

ConsumerSymmetry == Permutations({s1, s2})
==============================================================================
