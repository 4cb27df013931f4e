------------------------- MODULE MCEconomicLearning -------------------------
(* EconomicLearning on small sets of references, facts and requests. *)
EXTENDS EconomicLearning
=============================================================================
