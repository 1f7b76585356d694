--------------------------- MODULE MCDetectorStore ---------------------------
(* Small instances of DetectorStore for TLC. *)
EXTENDS DetectorStore, TLC

CONSTANTS a, b

\* Addresses are interchangeable.
AddrSymmetry == Permutations(Addr)

==============================================================================
