-------------------------- MODULE MCBootstrapStore --------------------------
(* Three generations of the source run and two of the run made from it;     *)
(* three jobs, and room for two in each run.                               *)
EXTENDS BootstrapStore

ThreeAndTwo == [r \in Runs |-> IF r = "source" THEN 3 ELSE 2]
============================================================================
