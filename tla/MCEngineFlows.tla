--------------------------- MODULE MCEngineFlows ---------------------------
(* Two processes with a loop, two requests at a time and one pipeline. *)
EXTENDS EngineFlows, TLC

\* Loops are interchangeable, and so are handlers.
Symmetry == Permutations(Loops) \union Permutations(Handlers)
=============================================================================
