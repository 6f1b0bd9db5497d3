-------------------------- MODULE MCGenerationRun --------------------------
(* Instances of GenerationRun for TLC.  A reason is measured in KiB. *)
EXTENDS GenerationRun

PlainReason == {[len |-> 1, extra |-> 0]}
\* A short reason, and one at the limit made of characters JSON escapes.
PlainAndEscapedReasons == PlainReason \cup {[len |-> 8, extra |-> 8]}
============================================================================
