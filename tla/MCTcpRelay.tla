----------------------------- MODULE MCTcpRelay -----------------------------
\* TcpRelay for TLC; the configurations only choose sizes.
EXTENDS TcpRelay
=============================================================================
