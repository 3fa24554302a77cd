---------------------------- MODULE MCDashboard ----------------------------
\* Dashboard for TLC: identifiers are model values and interchangeable.
EXTENDS Dashboard, TLC

Interchangeable == Permutations(Ids)

\* Filtered is SelectSeq: for every order of up to four identifiers.
ASSUME FilteredIsSelectSeq ==
    \A n \in 0 .. 4, S \in SUBSET Ids :
        \A order \in [1 .. n -> Ids] :
            Filtered(order, S) = SelectSeq(order, LAMBDA id : id \in S)
=============================================================================
