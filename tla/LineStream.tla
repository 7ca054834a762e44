----------------------------- MODULE LineStream -----------------------------
(***************************************************************************)
(* What a StartMatchSimulationStream call promises its client, whatever  *)
(* threads and queues carry the lines: the lines the generator produced,   *)
(* in order, without gaps or repetitions, up to the first end-of-match     *)
(* line; a normal end only when nothing is missing; an error only after    *)
(* everything that preceded it.                                            *)
(***************************************************************************)
EXTENDS Naturals, Sequences

CONSTANT Stream  \* the calls

VARIABLES
  produced,  \* what each generator handed over: lines, then "eos" or "fail"
  sent,      \* positions in produced of the lines sent to the client
  result     \* "Open", or how the call ended

abstractVars == <<produced, sent, result>>

LineKind == {"line", "skip", "end"}
Sentinel == {"eos", "fail"}

EndsWith(s, k) == produced[s] # <<>> /\ produced[s][Len(produced[s])] = k

\* Lines the client has still to see: a blank line and a second "[MATCH START]"
\* (kind "skip") are not for it.
Pending(s) ==
  {i \in DOMAIN produced[s] : /\ produced[s][i] \in {"line", "end"}
                              /\ \A j \in DOMAIN sent[s] : sent[s][j] < i}
EndSent(s) == \E j \in DOMAIN sent[s] : produced[s][sent[s][j]] = "end"

AbstractInit ==
  /\ produced = [s \in Stream |-> <<>>]
  /\ sent = [s \in Stream |-> <<>>]
  /\ result = [s \in Stream |-> "Open"]

Produce(s, k) ==
  /\ ~EndsWith(s, "eos") /\ ~EndsWith(s, "fail")
  /\ produced' = [produced EXCEPT ![s] = Append(@, k)]
  /\ UNCHANGED <<sent, result>>

Deliver(s) ==
  /\ result[s] = "Open"
  /\ ~EndSent(s)
  /\ \E i \in Pending(s) :
       /\ \A j \in Pending(s) : i <= j
       /\ sent' = [sent EXCEPT ![s] = Append(@, i)]
  /\ UNCHANGED <<produced, result>>

\* The ways a call may end.
MayEnd(s) ==
  {"CANCELLED"}
  \cup (IF EndSent(s) \/ (EndsWith(s, "eos") /\ Pending(s) = {}) THEN {"OK"} ELSE {})
  \cup (IF EndsWith(s, "fail") /\ Pending(s) = {} /\ ~EndSent(s) THEN {"INTERNAL"} ELSE {})

Close(s) ==
  /\ result[s] = "Open"
  /\ \E r \in MayEnd(s) : result' = [result EXCEPT ![s] = r]
  /\ UNCHANGED <<produced, sent>>

AbstractNext ==
  \E s \in Stream :
    \/ \E k \in LineKind \cup Sentinel : Produce(s, k)
    \/ Deliver(s)
    \/ Close(s)

AbstractSpec == AbstractInit /\ [][AbstractNext]_abstractVars
=============================================================================
