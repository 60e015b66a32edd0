------------------------------ MODULE MCEsIndex ------------------------------
(* Small instances of EsIndex for TLC.                                     *)
EXTENDS EsIndex, TLC

CONSTANTS d1, d2, api, indexer, x1, x2

(* Documents, and runs of es:reindex, are interchangeable.                *)
Symmetric == Permutations({d1, d2}) \cup Permutations({x1, x2})
==============================================================================
