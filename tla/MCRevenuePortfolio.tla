------------------------- MODULE MCRevenuePortfolio -------------------------
(* RevenuePortfolio with two or three sources, of which one has no connector. *)
EXTENDS RevenuePortfolio, TLC

CONSTANTS shop, ads, blog

\* Nothing is expected of the blog, so that the portfolio can exceed its forecast.
MCExpected == [s \in Sources |-> IF s = blog THEN 0 ELSE 2]

\* Sources that come as active and paid without approval, and as approved ones
\* that rest.
MCBrought ==
  {[status |-> "active", realized |-> 2, approved |-> FALSE],
   [status |-> "paused", realized |-> 0, approved |-> TRUE],
   [status |-> "degraded", realized |-> 2, approved |-> FALSE]}

\* Readers are interchangeable.
Symmetry == Permutations(Readers)
=============================================================================
