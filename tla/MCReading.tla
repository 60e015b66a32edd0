------------------------------ MODULE MCReading ------------------------------
(* Small instances of Reading for TLC.                                     *)
EXTENDS Reading, TLC

CONSTANTS a1
==============================================================================
