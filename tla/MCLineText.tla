----------------------------- MODULE MCLineText -----------------------------
(* Small instances of LineText for TLC. *)
EXTENDS LineText

==============================================================================
