------------------------------ MODULE MCDbPool ------------------------------
EXTENDS DbPool, TLC

\* users differ in nothing, nor do addresses
Interchangeable == Permutations(Users) \cup Permutations(Conns)
=============================================================================
