----------------------------- MODULE MCLogQueue -----------------------------
EXTENDS LogQueue
=============================================================================
