--------------------------- MODULE MCSessionTurns ---------------------------
(***************************************************************************)
(* Instances of SessionTurns.  One tool that planning is denied and that   *)
(* may end the generation, and the review tool, meet in two calls of three *)
(* turns: planning, implementation, and a continuation of either.          *)
(***************************************************************************)
EXTENDS SessionTurns

MutationAndReview == {"finish_generation", "review"}
InspectionAndReview == {"read", "review"}
=============================================================================
