--------------------------- MODULE MCRuntimeStore ---------------------------
(* RuntimeStore on small sets of jobs and processes. *)
EXTENDS RuntimeStore, TLC

\* Jobs are interchangeable, and so are processes.
Symmetry == Permutations(Jobs) \union Permutations(Workers)
=============================================================================
