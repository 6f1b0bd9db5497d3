--------------------------- MODULE MCHarnessStore ---------------------------
(* HarnessStore for TLC. *)
EXTENDS HarnessStore
=============================================================================
