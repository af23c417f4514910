--------------------------- MODULE MCSweepLibrary ---------------------------
(***************************************************************************)
(* SweepLibrary for TLC: requests and components are interchangeable.      *)
(***************************************************************************)
EXTENDS SweepLibrary, TLC

Interchangeable == Permutations(Handlers) \cup Permutations(Components)
=============================================================================
