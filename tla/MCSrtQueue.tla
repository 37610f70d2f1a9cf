----------------------------- MODULE MCSrtQueue -----------------------------
(* TLC instances of SrtQueue. *)
EXTENDS SrtQueueProofs, TLC

\* producers are interchangeable: no action or invariant tells them apart
ProducerSymmetry == Permutations(Producers)
=============================================================================
