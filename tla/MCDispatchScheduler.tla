------------------------- MODULE MCDispatchScheduler -------------------------
(* TLC instances of DispatchScheduler. *)
EXTENDS DispatchScheduler
=============================================================================
