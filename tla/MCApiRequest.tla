---------------------------- MODULE MCApiRequest ----------------------------
(* Small instances of ApiRequest for TLC.                                  *)
EXTENDS ApiRequest

CONSTANTS r1, r2, sent, none
=============================================================================
