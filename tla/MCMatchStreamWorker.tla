------------------------- MODULE MCMatchStreamWorker -------------------------
\* Instances of MatchStreamWorker for TLC.
EXTENDS MatchStreamWorker
=============================================================================
