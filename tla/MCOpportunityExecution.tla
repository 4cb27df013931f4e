----------------------- MODULE MCOpportunityExecution -----------------------
(* OpportunityExecution on four requests and one opportunity. *)
EXTENDS OpportunityExecution, TLC

CONSTANTS cheap, dear, report, payment

\* Two operations with a budget, one without, and a payment that only an owner
\* may approve.
MCAction == (cheap :> "research") @@ (dear :> "build") @@ (payment :> "financial") @@ (report :> "read")
MCAutonomy == (cheap :> 3) @@ (dear :> 3) @@ (payment :> 4) @@ (report :> 1)
MCAmount == (cheap :> 0) @@ (dear :> 0) @@ (payment :> 5) @@ (report :> 0)
MCCost == (cheap :> 1) @@ (dear :> 2) @@ (payment :> 0) @@ (report :> 0)

\* Callers are interchangeable.
Symmetry == Permutations(Threads)
=============================================================================
