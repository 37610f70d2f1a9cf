-------------------------- MODULE MCProcessorThread --------------------------
(* TLC instances of ProcessorThread. *)
EXTENDS ProcessorThread
=============================================================================
