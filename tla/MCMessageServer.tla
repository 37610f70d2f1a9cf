-------------------------- MODULE MCMessageServer --------------------------
EXTENDS MessageServer
=============================================================================
