---------------------------- MODULE MCEngineStatus ----------------------------
(* Instances of EngineStatus for TLC. *)
EXTENDS EngineStatus
CONSTANTS s1, s2, h1

\* One task reports its progress once, the other only its end.
ShortTasks == [s \in Sim |-> IF s = s1 THEN 1 ELSE 0]
=============================================================================
