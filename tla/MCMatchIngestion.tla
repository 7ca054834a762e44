--------------------------- MODULE MCMatchIngestion --------------------------
\* Instances of MatchIngestion for TLC.
EXTENDS MatchIngestion

CONSTANTS m1, m2
Two == {m1, m2}
=============================================================================
