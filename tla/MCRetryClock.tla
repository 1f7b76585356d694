---------------------------- MODULE MCRetryClock ----------------------------
(* Small instances of RetryClock for TLC. *)
EXTENDS RetryClock

==============================================================================
