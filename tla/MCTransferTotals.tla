-------------------------- MODULE MCTransferTotals --------------------------
\* TransferTotals for TLC: view models are model values.
EXTENDS TransferTotals
=============================================================================
