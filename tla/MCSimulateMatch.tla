--------------------------- MODULE MCSimulateMatch ---------------------------
\* Instances of SimulateMatch for TLC: the requests of one user.
EXTENDS SimulateMatch, TLC

CONSTANTS m1, m2, alice

SameCreator == m1 :> alice @@ m2 :> alice
=============================================================================
