----------------------------- MODULE MCAuthList -----------------------------
\* AuthList for TLC: threads, addresses and blocks are model values and each
\* kind is interchangeable.
EXTENDS AuthList, TLC

Interchangeable == Permutations(Thread) \cup Permutations(Ip) \cup Permutations(Block)
=============================================================================
