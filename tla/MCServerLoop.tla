---------------------------- MODULE MCServerLoop ----------------------------
\* ServerLoop for TLC: clients, structures and descriptors are model values
\* and interchangeable.
EXTENDS ServerLoop, TLC

Interchangeable == Permutations(Client) \cup Permutations(Thread) \cup Permutations(Fd)
=============================================================================
