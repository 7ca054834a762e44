-------------------------- MODULE MCSignalRConnections --------------------------
EXTENDS SignalRConnections

\* The callers do the same things.
MCSymmetry == Permutations(Callers)
=============================================================================
