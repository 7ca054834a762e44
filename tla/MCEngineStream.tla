---------------------------- MODULE MCEngineStream ----------------------------
\* An instance of EngineStream for TLC: two calls that share one thread, one of
\* them of more lines than the queue takes.
EXTENDS EngineStream

CONSTANTS s1, s2
Calls == {s1, s2}
Steps == [s \in Calls |-> IF s = s1 THEN 1 ELSE 0]
Chunks == {<<>>, <<"skip", "line">>, <<"line", "end", "line">>}
=============================================================================
