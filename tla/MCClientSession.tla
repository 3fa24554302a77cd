--------------------------- MODULE MCClientSession ---------------------------
\* ClientSession for TLC: clients and addresses are model values and
\* interchangeable.
EXTENDS ClientSession, TLC

Interchangeable == Permutations(Client) \cup Permutations(Ip)
=============================================================================
