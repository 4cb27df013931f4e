------------------------ MODULE MCSupervisedWorkers ------------------------
(* One job and three processes, each of which may call execute or run_once. *)
EXTENDS SupervisedWorkers, TLC

\* Jobs are interchangeable, and so are processes.
Symmetry == Permutations(Jobs) \union Permutations(Workers)
=============================================================================
