---------------------------- MODULE MCBatchLimits ----------------------------
\* The data types are interchangeable: only their number matters.
EXTENDS BatchLimits, TLC

Symmetry == Permutations(DATA_TYPES)
=============================================================================
