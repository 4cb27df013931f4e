------------------------- MODULE MCSystemLifecycle -------------------------
(* Two threads, ticks of two jobs, a schedule that comes due twice, and one *)
(* call that raises.                                                        *)
EXTENDS SystemLifecycle
=============================================================================
