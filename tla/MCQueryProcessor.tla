--------------------------- MODULE MCQueryProcessor ---------------------------
(* TLC instance of QueryProcessor. *)
EXTENDS QueryProcessor
=============================================================================
