------------------------- MODULE MCSelfImprovement -------------------------
(* Two calls over change sets that are empty, whole, refused in the middle  *)
(* and too long, in a complete composition, in every one that lacks one     *)
(* part, and with every registry; the store or the model fails once.        *)
EXTENDS SelfImprovement

Complete ==
  [registry |-> "ok", autonomy |-> TRUE, executor |-> TRUE, model |-> TRUE,
   research |-> TRUE, development |-> FALSE, repository |-> TRUE]

Part == {"autonomy", "executor", "model", "research", "repository"}

MCCompositions ==
  {Complete, [Complete EXCEPT !.development = TRUE]}
    \union {[Complete EXCEPT ![p] = FALSE] : p \in Part}
    \union {[Complete EXCEPT !.registry = r] : r \in {"absent", "empty", "degraded"}}

MCChangeSets == {<<>>, <<"bounded", "bounded">>, <<"bounded", "refused">>,
                 <<"bounded", "bounded", "bounded">>}
=============================================================================
