--------------------------- MODULE MCHandleMutex ---------------------------
\* Three callers, a handle counter of four values (it wraps) and nesting of 3.
EXTENDS HandleMutex, TLC

CONSTANTS t1, t2, t3

MCThreads == {t1, t2, t3}
MCSymmetry == Permutations(MCThreads)
=============================================================================
