-------------------------- MODULE MCRuntimeWorkers --------------------------
(* RuntimeWorkers on small sets of jobs and processes. *)
EXTENDS RuntimeWorkers
=============================================================================
