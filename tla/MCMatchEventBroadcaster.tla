----------------------- MODULE MCMatchEventBroadcaster -----------------------
\* Instances of MatchEventBroadcaster for TLC.
EXTENDS MatchEventBroadcaster, TLC

CONSTANTS s1, s2
Two   == {s1, s2}
TwoSymmetry == Permutations(Two)
=============================================================================
