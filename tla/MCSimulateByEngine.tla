------------------------- MODULE MCSimulateByEngine -------------------------
\* Instance of SimulateByEngine for TLC: the requests of one user, which may both
\* pass the check for a live match.
EXTENDS SimulateByEngine, TLC

CONSTANTS m1, m2, alice

SameCreator == m1 :> alice @@ m2 :> alice
=============================================================================
