------------------------- MODULE MCExperimentCycle -------------------------
(* ExperimentCycle on small sets of processes and experiments. *)
EXTENDS ExperimentCycle, TLC

\* Processes and experiments are interchangeable.
Symmetry == Permutations(Processes) \union Permutations(Experiments)
=============================================================================
