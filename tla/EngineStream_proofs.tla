-------------------------- MODULE EngineStream_proofs --------------------------
(***************************************************************************)
(* For every set of calls, capacity of the queue, size of the pool and     *)
(* shape of the generated text: a call keeps the promise of LineStream,    *)
(* and its thread stays within the capacity of what the client has taken.  *)
(* At the end SimulateByEngine, the branch that lets the engine call back: *)
(* which live matches have an ender.                                       *)
(***************************************************************************)
EXTENDS EngineStream, SimulateByEngine, FiniteSetTheorems, SequenceTheorems, TLAPS

Kind == {"line", "skip", "end", "eos", "fail"}
LineKind == {"line", "skip", "end"}
Visible == {"line", "end"}
Sentinel == {"eos", "fail"}
Position == Nat \ {0}

Ascending(q) == \A i, j \in DOMAIN q : i < j => q[i] < q[j]
Members(q) == {q[j] : j \in DOMAIN q}

-----------------------------------------------------------------------------
(* The inductive invariant *)

\* The server has taken t items: the queue holds the next ones, all that was put
\* but for the put in flight or one that was revoked.
QueueOK(s, t) ==
  /\ \A i \in DOMAIN queue[s] : queue[s][i] = t + i
  /\ Len(queue[s]) <= Capacity
  /\ t + Len(queue[s]) = Len(emitted[s]) \/ t + Len(queue[s]) + 1 = Len(emitted[s])
  /\ putting[s] = "landed" => t + Len(queue[s]) = Len(emitted[s])
  /\ putting[s] \in {"pending", "revoked"} => t + Len(queue[s]) + 1 = Len(emitted[s])
  /\ putting[s] = "none" /\ ~cancel[s] /\ worker[s] # "Rejected" =>
       t + Len(queue[s]) = Len(emitted[s])
  /\ putting[s] = "revoked" => cancel[s]

\* Of what it took, the server has yielded the lines, in their order.
SentOK(s, t) ==
  /\ Ascending(sent[s])
  /\ Members(sent[s]) = {i \in 1 .. t : emitted[s][i] \in Visible}

\* The thread puts one sentinel, its last item.
ThreadOK(s) ==
  /\ worker[s] \in {"Unborn", "Pooled"} => emitted[s] = <<>> /\ putting[s] = "none"
  /\ worker[s] = "Rejected" => emitted[s] = <<"fail">> /\ putting[s] = "none" /\ queue[s] = <<>>
  /\ worker[s] = "Done" /\ ~cancel[s] =>
       emitted[s] # <<>> /\ emitted[s][Len(emitted[s])] \in Sentinel
  /\ \A i \in DOMAIN emitted[s] : emitted[s][i] \in Sentinel =>
       i = Len(emitted[s]) /\ worker[s] \in {"Done", "Rejected"}

\* An open call has taken no sentinel, and an end marker only as its last line.
ServerOK(s, t) ==
  /\ server[s] = "Created" => worker[s] = "Unborn"
  /\ server[s] \in {"Created", "Reading", "Yielding", "YieldingEnd"} =>
       /\ result[s] = "Open"
       /\ ~gone[s] => ~cancel[s]
       /\ \A i \in 1 .. t : emitted[s][i] \notin Sentinel
  /\ server[s] \in {"Created", "Reading", "Yielding"} =>
       \A i \in 1 .. t : emitted[s][i] # "end"
  /\ server[s] = "YieldingEnd" => \E i \in 1 .. t : emitted[s][i] = "end"

CallOK(s, t) == QueueOK(s, t) /\ SentOK(s, t) /\ ThreadOK(s) /\ ServerOK(s, t)

EngineIInv ==
  /\ EngineTypeOK
  /\ \A s \in Stream : \E t \in Nat : CallOK(s, t)

\* The steps of one call.
Step(s) ==
  \/ Thread(s) \/ PoolRejects(s) \/ PutLands(s) \/ PutRevoked(s)
  \/ Loop(s) \/ ClientLeaves(s)

-----------------------------------------------------------------------------
(* Sequences *)

LEMMA KindAppend ==
  \A q \in Seq(Kind), k \in Kind :
    /\ Append(q, k) \in Seq(Kind)
    /\ Len(q) \in Nat /\ DOMAIN q = 1 .. Len(q)
    /\ Len(Append(q, k)) = Len(q) + 1 /\ DOMAIN Append(q, k) = 1 .. Len(q) + 1
    /\ \A i \in 1 .. Len(q) : Append(q, k)[i] = q[i]
    /\ Append(q, k)[Len(q) + 1] = k
<1> SUFFICES ASSUME NEW q \in Seq(Kind), NEW k \in Kind
             PROVE  /\ Append(q, k) \in Seq(Kind)
                    /\ Len(q) \in Nat /\ DOMAIN q = 1 .. Len(q)
                    /\ Len(Append(q, k)) = Len(q) + 1 /\ DOMAIN Append(q, k) = 1 .. Len(q) + 1
                    /\ \A i \in 1 .. Len(q) : Append(q, k)[i] = q[i]
                    /\ Append(q, k)[Len(q) + 1] = k
  OBVIOUS
<1> QED
  BY AppendProperties, LenProperties

LEMMA PositionAppend ==
  \A q \in Seq(Position), k \in Position :
    /\ Append(q, k) \in Seq(Position)
    /\ Len(q) \in Nat /\ DOMAIN q = 1 .. Len(q)
    /\ Len(Append(q, k)) = Len(q) + 1 /\ DOMAIN Append(q, k) = 1 .. Len(q) + 1
    /\ \A i \in 1 .. Len(q) : Append(q, k)[i] = q[i]
    /\ Append(q, k)[Len(q) + 1] = k
<1> SUFFICES ASSUME NEW q \in Seq(Position), NEW k \in Position
             PROVE  /\ Append(q, k) \in Seq(Position)
                    /\ Len(q) \in Nat /\ DOMAIN q = 1 .. Len(q)
                    /\ Len(Append(q, k)) = Len(q) + 1 /\ DOMAIN Append(q, k) = 1 .. Len(q) + 1
                    /\ \A i \in 1 .. Len(q) : Append(q, k)[i] = q[i]
                    /\ Append(q, k)[Len(q) + 1] = k
  OBVIOUS
<1> QED
  BY AppendProperties, LenProperties

LEMMA PositionTail ==
  \A q \in Seq(Position) : q # <<>> =>
    /\ Tail(q) \in Seq(Position) /\ Head(q) \in Position /\ Head(q) = q[1]
    /\ Len(q) \in Nat \ {0} /\ DOMAIN q = 1 .. Len(q)
    /\ Len(Tail(q)) = Len(q) - 1 /\ DOMAIN Tail(q) = 1 .. Len(q) - 1
    /\ \A i \in 1 .. Len(q) - 1 : Tail(q)[i] = q[i + 1]
<1> SUFFICES ASSUME NEW q \in Seq(Position), q # <<>>
             PROVE  /\ Tail(q) \in Seq(Position) /\ Head(q) \in Position /\ Head(q) = q[1]
                    /\ Len(q) \in Nat \ {0} /\ DOMAIN q = 1 .. Len(q)
                    /\ Len(Tail(q)) = Len(q) - 1 /\ DOMAIN Tail(q) = 1 .. Len(q) - 1
                    /\ \A i \in 1 .. Len(q) - 1 : Tail(q)[i] = q[i + 1]
  OBVIOUS
<1>1. Tail(q) \in Seq(Position) /\ Head(q) \in Position /\ Len(Tail(q)) = Len(q) - 1
  BY HeadTailProperties
<1>2. Len(q) \in Nat \ {0} /\ DOMAIN q = 1 .. Len(q) /\ Head(q) = q[1]
  BY LenProperties, EmptySeq
<1>3. DOMAIN Tail(q) = 1 .. Len(q) - 1
  BY <1>1, LenProperties
<1>4. \A i \in 1 .. Len(Tail(q)) : Tail(q)[i] = q[i + 1]
  BY HeadTailProperties
<1> QED
  BY <1>1, <1>2, <1>3, <1>4

LEMMA LineTail ==
  \A c \in Seq(LineKind) : c # <<>> => Tail(c) \in Seq(LineKind) /\ Head(c) \in LineKind
  BY HeadTailProperties

-----------------------------------------------------------------------------
(* Types, and the calls a step does not touch *)

LEMMA EngineTypes ==
  ASSUME EngineTypeOK, NEW s \in Stream
  PROVE  /\ queue[s] \in Seq(Position) /\ emitted[s] \in Seq(Kind) /\ sent[s] \in Seq(Position)
         /\ chunk[s] \in Seq(LineKind) /\ putting[s] \in PutState /\ worker[s] \in WorkerPoint
         /\ server[s] \in ServerPoint /\ result[s] \in Result
         /\ cancel[s] \in BOOLEAN /\ gone[s] \in BOOLEAN
         /\ Len(queue[s]) \in Nat /\ DOMAIN queue[s] = 1 .. Len(queue[s])
         /\ Len(emitted[s]) \in Nat /\ DOMAIN emitted[s] = 1 .. Len(emitted[s])
         /\ Len(sent[s]) \in Nat /\ DOMAIN sent[s] = 1 .. Len(sent[s])
<1>1. /\ queue[s] \in Seq(Position) /\ emitted[s] \in Seq(Kind) /\ sent[s] \in Seq(Position)
      /\ chunk[s] \in Seq(LineKind) /\ putting[s] \in PutState /\ worker[s] \in WorkerPoint
      /\ server[s] \in ServerPoint /\ result[s] \in Result
      /\ cancel[s] \in BOOLEAN /\ gone[s] \in BOOLEAN
  BY DEF EngineTypeOK, Position, Kind, LineKind
<1> QED
  BY <1>1, LenProperties

\* A variable after a step of s: the same for every other call.
At(f, s, v) == [f EXCEPT ![s] = v]

LEMMA StepAt ==
  ASSUME EngineIInv, NEW s \in Stream, Step(s)
  PROVE  /\ \E v \in Seq(Position) : queue' = At(queue, s, v)
         /\ \E v \in Seq(Kind) : emitted' = At(emitted, s, v)
         /\ \E v \in PutState : putting' = At(putting, s, v)
         /\ \E v \in WorkerPoint : worker' = At(worker, s, v)
         /\ \E v \in Seq(LineKind) : chunk' = At(chunk, s, v)
         /\ \E v \in 0 .. MaxSteps[s] : steps' = At(steps, s, v)
         /\ \E v \in ServerPoint : server' = At(server, s, v)
         /\ \E v \in BOOLEAN : cancel' = At(cancel, s, v)
         /\ \E v \in BOOLEAN : gone' = At(gone, s, v)
         /\ \E v \in Seq(Position) : sent' = At(sent, s, v)
         /\ \E v \in Result : result' = At(result, s, v)
<1> USE DEF At
<1>1. EngineTypeOK
  BY DEF EngineIInv
<1>2. PICK t \in Nat : CallOK(s, t)
  BY DEF EngineIInv
<1>3. \E v \in Seq(Position) : queue' = At(queue, s, v)
  <2>1. CASE UNCHANGED queue
    BY <1>1, <2>1, EngineTypes DEF EngineTypeOK
  <2>2. CASE PutLands(s)
    <3>1. putting[s] \in {"pending", "revoked"} /\ t + Len(queue[s]) + 1 = Len(emitted[s])
      BY <1>2, <2>2 DEF PutLands, CallOK, QueueOK
    <3>2. queue[s] \in Seq(Position) /\ Len(queue[s]) \in Nat /\ Len(emitted[s]) \in Nat
      BY <1>1, EngineTypes
    <3>3. Len(emitted[s]) \in Position
      BY <3>1, <3>2 DEF Position
    <3>4. Append(queue[s], Len(emitted[s])) \in Seq(Position)
      BY <3>2, <3>3, PositionAppend
    <3> QED
      BY <2>2, <3>4 DEF PutLands
  <2>3. CASE ServerTake(s)
    <3>1. queue[s] \in Seq(Position) /\ queue[s] # <<>>
      BY <1>1, <2>3, EngineTypes DEF ServerTake
    <3>2. Tail(queue[s]) \in Seq(Position)
      BY <3>1, PositionTail
    <3> QED
      BY <2>3, <3>2 DEF ServerTake
  <2> QED
    BY <2>1, <2>2, <2>3 DEF Step, Thread, Loop, ThreadStart, ThreadStep, ThreadFlush, ThreadEmit,
       ThreadEmitted, ThreadEnd, ThreadRaises, ThreadFail, PutReturns, PoolRejects, PutRevoked,
       ServerBegin, ServerSeesDone, ServerYielded, ServerAborted, ServerClean, ServerClosed,
       ClientLeaves
<1>4. \E v \in Seq(Kind) : emitted' = At(emitted, s, v)
  <2>1. CASE UNCHANGED emitted
    BY <1>1, <2>1, EngineTypes DEF EngineTypeOK
  <2>2. ASSUME NEW k \in Kind, emitted' = [emitted EXCEPT ![s] = Append(emitted[s], k)]
        PROVE  \E v \in Seq(Kind) : emitted' = At(emitted, s, v)
    <3>1. Append(emitted[s], k) \in Seq(Kind)
      BY <1>1, EngineTypes, KindAppend
    <3> QED
      BY <2>2, <3>1
  <2>3. CASE ThreadEmit(s)
    <3>1. Head(chunk[s]) \in Kind
      BY <1>1, <2>3, EngineTypes, LineTail DEF ThreadEmit, Kind, LineKind
    <3> QED
      BY <2>1, <2>2, <2>3, <3>1 DEF ThreadEmit, PutFromThread
  <2>4. CASE ThreadEnd(s) \/ ThreadFail(s) \/ PoolRejects(s)
    <3>1. "eos" \in Kind /\ "fail" \in Kind
      BY DEF Kind
    <3> QED
      BY <2>1, <2>2, <2>4, <3>1 DEF ThreadEnd, ThreadFail, PutFromThread, PoolRejects
  <2> QED
    BY <2>1, <2>3, <2>4 DEF Step, Thread, Loop, ThreadStart, ThreadStep, ThreadFlush,
       ThreadEmitted, ThreadRaises, PutReturns, PutRevoked, PutLands, ServerFrame, threadVars,
       ServerBegin, ServerTake, ServerSeesDone, ServerYielded, ServerAborted, ServerClean,
       ServerClosed, ClientLeaves
<1>5. \E v \in PutState : putting' = At(putting, s, v)
  <2>1. CASE UNCHANGED putting
    BY <1>1, <2>1, EngineTypes DEF EngineTypeOK
  <2>2. "pending" \in PutState /\ "landed" \in PutState /\ "none" \in PutState /\ "revoked" \in PutState
    BY DEF PutState
  <2>3. CASE PutLands(s) \/ PutReturns(s) \/ PutRevoked(s)
    BY <2>2, <2>3 DEF PutLands, PutReturns, PutRevoked
  <2>4. CASE ThreadEmit(s) \/ ThreadEnd(s) \/ ThreadFail(s)
    BY <2>1, <2>2, <2>4 DEF ThreadEmit, ThreadEnd, ThreadFail, PutFromThread
  <2> QED
    BY <2>1, <2>3, <2>4 DEF Step, Thread, Loop, ThreadStart, ThreadStep, ThreadFlush,
       ThreadEmitted, ThreadRaises, PoolRejects, ServerFrame, threadVars,
       ServerBegin, ServerTake, ServerSeesDone, ServerYielded, ServerAborted, ServerClean,
       ServerClosed, ClientLeaves
<1>6. \E v \in WorkerPoint : worker' = At(worker, s, v)
  <2>1. CASE UNCHANGED worker
    BY <1>1, <2>1, EngineTypes DEF EngineTypeOK
  <2>2. CASE ThreadEmit(s) \/ ThreadEnd(s) \/ ThreadFail(s)
    BY <1>1, <2>2, EngineTypes DEF ThreadEmit, ThreadEnd, ThreadFail, PutFromThread, WorkerPoint
  <2>3. CASE \/ ThreadStart(s) \/ ThreadStep(s) \/ ThreadFlush(s) \/ ThreadEmitted(s)
             \/ ThreadRaises(s) \/ PoolRejects(s) \/ ServerBegin(s)
    BY <2>3 DEF ThreadStart, ThreadStep, ThreadFlush, ThreadEmitted, ThreadRaises, PoolRejects,
       ServerBegin, WorkerPoint
  <2> QED
    BY <2>1, <2>2, <2>3 DEF Step, Thread, Loop, PutReturns, PutRevoked, PutLands, threadVars,
       ServerTake, ServerSeesDone, ServerYielded, ServerAborted, ServerClean,
       ServerClosed, ClientLeaves
<1>7. \E v \in Seq(LineKind) : chunk' = At(chunk, s, v)
  <2>1. CASE UNCHANGED chunk
    BY <1>1, <2>1, EngineTypes DEF EngineTypeOK
  <2>2. Chunk \subseteq Seq(LineKind) /\ <<>> \in Seq(LineKind)
    BY EngineAssumption DEF LineKind
  <2>3. CASE ThreadEmit(s)
    <3>1. Tail(chunk[s]) \in Seq(LineKind)
      BY <1>1, <2>3, EngineTypes, LineTail DEF ThreadEmit
    <3> QED
      BY <2>3, <3>1 DEF ThreadEmit
  <2>4. CASE ThreadStep(s) \/ ThreadFlush(s) \/ ThreadRaises(s)
    BY <2>1, <2>2, <2>4 DEF ThreadStep, ThreadFlush, ThreadRaises
  <2> QED
    BY <2>1, <2>3, <2>4 DEF Step, Thread, Loop, ThreadStart, ThreadEmitted, ThreadEnd, ThreadFail,
       PoolRejects, PutReturns, PutRevoked, PutLands, ServerFrame, threadVars,
       ServerBegin, ServerTake, ServerSeesDone, ServerYielded, ServerAborted, ServerClean,
       ServerClosed, ClientLeaves
<1>8. \E v \in 0 .. MaxSteps[s] : steps' = At(steps, s, v)
  <2>1. steps \in [Stream -> Nat] /\ steps[s] \in Nat /\ steps[s] <= MaxSteps[s]
        /\ MaxSteps[s] \in Nat
    BY <1>1, EngineAssumption DEF EngineTypeOK
  <2>2. CASE UNCHANGED steps
    BY <2>1, <2>2
  <2>3. CASE ThreadStep(s)
    BY <2>1, <2>2, <2>3 DEF ThreadStep
  <2> QED
    BY <2>2, <2>3 DEF Step, Thread, Loop, ThreadStart, ThreadFlush, ThreadEmit, ThreadEmitted,
       ThreadEnd, ThreadRaises, ThreadFail,
       PoolRejects, PutReturns, PutRevoked, PutLands, ServerFrame, threadVars,
       ServerBegin, ServerTake, ServerSeesDone, ServerYielded, ServerAborted, ServerClean,
       ServerClosed, ClientLeaves
<1>9. /\ \E v \in ServerPoint : server' = At(server, s, v)
      /\ \E v \in Result : result' = At(result, s, v)
  <2>1. CASE UNCHANGED <<server, result>>
    BY <1>1, <2>1, EngineTypes DEF EngineTypeOK
  <2>2. CASE UNCHANGED result /\ \E v \in ServerPoint : server' = At(server, s, v)
    <3>1. result' = At(result, s, result[s]) /\ result[s] \in Result
      BY <1>1, <2>2 DEF EngineTypeOK
    <3> QED
      BY <2>2, <3>1
  <2>3. ASSUME NEW r \in {"OK", "INTERNAL", "CANCELLED"}, EndCall(s, r)
        PROVE  /\ \E v \in ServerPoint : server' = At(server, s, v)
               /\ \E v \in Result : result' = At(result, s, v)
    BY <2>3 DEF EndCall, ServerPoint, Result
  <2>4. CASE ServerTake(s)
    BY <2>1, <2>2, <2>3, <2>4 DEF ServerTake, serverVars, ServerPoint
  <2>5. CASE ServerSeesDone(s)
    BY <2>3, <2>5 DEF ServerSeesDone
  <2>6. CASE ServerYielded(s) \/ ServerAborted(s)
    BY <2>2, <2>3, <2>6 DEF ServerYielded, ServerAborted, ServerPoint
  <2>7. CASE ServerBegin(s) \/ ServerClean(s) \/ ServerClosed(s)
    BY <2>2, <2>7 DEF ServerBegin, ServerClean, ServerClosed, ServerPoint
  <2> QED
    BY <2>1, <2>4, <2>5, <2>6, <2>7 DEF Step, Thread, Loop, ThreadStart, ThreadStep, ThreadFlush,
       ThreadEmit, ThreadEmitted, ThreadEnd, ThreadRaises, ThreadFail, PutReturns, PoolRejects,
       PutRevoked, PutLands, ClientLeaves, ThreadFrame, serverVars
<1>10. \E v \in BOOLEAN : cancel' = At(cancel, s, v)
  <2>1. CASE UNCHANGED cancel
    BY <1>1, <2>1, EngineTypes DEF EngineTypeOK
  <2>2. CASE cancel' = [cancel EXCEPT ![s] = TRUE]
    BY <2>2
  <2> QED
    BY <2>1, <2>2 DEF Step, Thread, Loop, ThreadStart, ThreadStep, ThreadFlush,
       ThreadEmit, ThreadEmitted, ThreadEnd, ThreadRaises, ThreadFail, PutReturns, PoolRejects,
       PutRevoked, PutLands, ClientLeaves, ThreadFrame, ServerBegin, ServerTake, ServerSeesDone,
       ServerYielded, ServerAborted, ServerClean, ServerClosed
<1>11. \E v \in BOOLEAN : gone' = At(gone, s, v)
  <2>1. CASE UNCHANGED gone
    BY <1>1, <2>1, EngineTypes DEF EngineTypeOK
  <2>2. CASE gone' = [gone EXCEPT ![s] = TRUE]
    BY <2>2
  <2> QED
    BY <2>1, <2>2 DEF Step, Thread, Loop, ThreadStart, ThreadStep, ThreadFlush,
       ThreadEmit, ThreadEmitted, ThreadEnd, ThreadRaises, ThreadFail, PutReturns, PoolRejects,
       PutRevoked, PutLands, ClientLeaves, ThreadFrame, ServerFrame, ServerBegin, ServerTake,
       ServerSeesDone, ServerYielded, ServerAborted, ServerClean, ServerClosed
<1>12. \E v \in Seq(Position) : sent' = At(sent, s, v)
  <2>1. CASE UNCHANGED sent
    BY <1>1, <2>1, EngineTypes DEF EngineTypeOK
  <2>2. CASE ServerTake(s) /\ sent' = [sent EXCEPT ![s] = Append(sent[s], Head(queue[s]))]
    <3>1. Head(queue[s]) \in Position
      BY <1>1, <2>2, EngineTypes, PositionTail DEF ServerTake
    <3>2. Append(sent[s], Head(queue[s])) \in Seq(Position)
      BY <1>1, <3>1, EngineTypes, PositionAppend
    <3> QED
      BY <2>2, <3>2
  <2>3. CASE ServerTake(s)
    BY <2>1, <2>2, <2>3 DEF ServerTake, serverVars
  <2> QED
    BY <2>1, <2>3 DEF Step, Thread, Loop, ThreadStart, ThreadStep, ThreadFlush,
       ThreadEmit, ThreadEmitted, ThreadEnd, ThreadRaises, ThreadFail, PutReturns, PoolRejects,
       PutRevoked, PutLands, ClientLeaves, ThreadFrame, serverVars, ServerBegin,
       ServerSeesDone, ServerYielded, ServerAborted, ServerClean, ServerClosed
<1> QED
  BY <1>3, <1>4, <1>5, <1>6, <1>7, <1>8, <1>9, <1>10, <1>11, <1>12

LEMMA TypeStep ==
  ASSUME EngineIInv, NEW s \in Stream, Step(s)
  PROVE  EngineTypeOK'
<1>1. EngineTypeOK
  BY DEF EngineIInv
<1>2. /\ queue \in [Stream -> Seq(Position)] /\ emitted \in [Stream -> Seq(Kind)]
      /\ putting \in [Stream -> PutState] /\ worker \in [Stream -> WorkerPoint]
      /\ chunk \in [Stream -> Seq(LineKind)] /\ sent \in [Stream -> Seq(Position)]
      /\ server \in [Stream -> ServerPoint] /\ result \in [Stream -> Result]
  BY <1>1 DEF EngineTypeOK, Position, Kind, LineKind
<1>3. /\ queue' \in [Stream -> Seq(Position)] /\ emitted' \in [Stream -> Seq(Kind)]
      /\ putting' \in [Stream -> PutState] /\ worker' \in [Stream -> WorkerPoint]
      /\ chunk' \in [Stream -> Seq(LineKind)] /\ sent' \in [Stream -> Seq(Position)]
      /\ server' \in [Stream -> ServerPoint] /\ result' \in [Stream -> Result]
  BY <1>2, StepAt DEF At
<1>4. cancel' \in [Stream -> BOOLEAN] /\ gone' \in [Stream -> BOOLEAN]
  BY <1>1, StepAt DEF EngineTypeOK, At
<1>5. steps' \in [Stream -> Nat] /\ \A r \in Stream : steps'[r] <= MaxSteps[r]
  <2>1. PICK v \in 0 .. MaxSteps[s] : steps' = At(steps, s, v)
    BY StepAt
  <2>2. MaxSteps[s] \in Nat
    BY EngineAssumption
  <2> QED
    BY <1>1, <2>1, <2>2 DEF EngineTypeOK, At
<1> QED
  BY <1>3, <1>4, <1>5 DEF EngineTypeOK, Position, Kind, LineKind

LEMMA OthersStay ==
  ASSUME EngineIInv, NEW s \in Stream, Step(s), NEW r \in Stream, r # s
  PROVE  /\ queue'[r] = queue[r] /\ emitted'[r] = emitted[r] /\ putting'[r] = putting[r]
         /\ worker'[r] = worker[r] /\ server'[r] = server[r] /\ cancel'[r] = cancel[r]
         /\ gone'[r] = gone[r] /\ sent'[r] = sent[r] /\ result'[r] = result[r]
<1>1. EngineTypeOK
  BY DEF EngineIInv
<1>2. queue'[r] = queue[r] /\ emitted'[r] = emitted[r] /\ putting'[r] = putting[r]
  BY <1>1, StepAt DEF EngineTypeOK, At
<1>3. worker'[r] = worker[r] /\ server'[r] = server[r] /\ cancel'[r] = cancel[r]
  BY <1>1, StepAt DEF EngineTypeOK, At
<1>4. gone'[r] = gone[r] /\ sent'[r] = sent[r] /\ result'[r] = result[r]
  BY <1>1, StepAt DEF EngineTypeOK, At
<1> QED
  BY <1>2, <1>3, <1>4

-----------------------------------------------------------------------------
(* What a step does to its own call *)

\* The thread between its puts.
LEMMA ThreadQuiet ==
  ASSUME EngineIInv, NEW s \in Stream, NEW t \in Nat, CallOK(s, t),
         \/ ThreadStart(s) \/ ThreadStep(s) \/ ThreadFlush(s) \/ ThreadEmitted(s) \/ ThreadRaises(s)
  PROVE  CallOK(s, t)'
<1>1. EngineTypeOK
  BY DEF EngineIInv
<1>2. /\ worker'[s] \notin {"Unborn", "Pooled", "Done", "Rejected"}
      /\ worker[s] \notin {"Unborn", "Done", "Rejected"}
  BY <1>1 DEF EngineTypeOK, ThreadStart, ThreadStep, ThreadFlush, ThreadEmitted, ThreadRaises,
     Running
<1>3. UNCHANGED <<queue, putting, emitted, server, cancel, gone, sent, result>>
  BY DEF ThreadStart, ThreadStep, ThreadFlush, ThreadEmitted, ThreadRaises, ThreadFrame, serverVars
<1>4. QueueOK(s, t)' /\ SentOK(s, t)'
  BY <1>2, <1>3 DEF CallOK, QueueOK, SentOK
<1>5. ThreadOK(s)' /\ ServerOK(s, t)'
  BY <1>2, <1>3 DEF CallOK, ThreadOK, ServerOK
<1> QED
  BY <1>4, <1>5 DEF CallOK

\* put_from_thread hands over an item: nothing was in flight, and no sentinel
\* before it.
LEMMA ThreadPuts ==
  ASSUME EngineIInv, NEW s \in Stream, NEW t \in Nat, CallOK(s, t),
         ThreadEmit(s) \/ ThreadEnd(s) \/ ThreadFail(s)
  PROVE  CallOK(s, t)'
<1>1. EngineTypeOK
  BY DEF EngineIInv
<1>2. PICK k \in Kind, next \in WorkerPoint :
        /\ PutFromThread(s, k, next)
        /\ worker[s] \notin {"Unborn", "Pooled", "Done", "Rejected"}
        /\ next \notin {"Unborn", "Pooled", "Rejected"}
        /\ k \in Sentinel <=> next = "Done"
  <2>1. CASE ThreadEmit(s)
    <3>1. Head(chunk[s]) \in LineKind /\ worker[s] \in {"Emitting", "EmittingLast"}
      BY <1>1, <2>1, EngineTypes, LineTail DEF ThreadEmit
    <3>2. Head(chunk[s]) \in Kind /\ Head(chunk[s]) \notin Sentinel /\ worker[s] \in WorkerPoint
      BY <3>1 DEF LineKind, Kind, Sentinel, WorkerPoint
    <3> QED
      BY <2>1, <3>1, <3>2 DEF ThreadEmit
  <2>2. CASE ThreadEnd(s) \/ ThreadFail(s)
    BY <2>2 DEF ThreadEnd, ThreadFail, Kind, Sentinel, WorkerPoint
  <2> QED
    BY <2>1, <2>2
<1>3. UNCHANGED <<queue, server, cancel, gone, sent, result>> /\ worker'[s] = next
  BY <1>1, <1>2 DEF EngineTypeOK, ThreadEmit, ThreadEnd, ThreadFail, ThreadFrame, serverVars,
     PutFromThread
<1>4. /\ emitted[s] \in Seq(Kind) /\ Len(emitted[s]) \in Nat /\ Len(queue[s]) \in Nat
      /\ DOMAIN emitted[s] = 1 .. Len(emitted[s])
  BY <1>1, EngineTypes
<1>5. \A i \in DOMAIN emitted[s] : emitted[s][i] \notin Sentinel
  BY <1>2 DEF CallOK, ThreadOK
<1>6. CASE cancel[s]
  <2>1. emitted' = emitted /\ putting' = putting
    BY <1>2, <1>6 DEF PutFromThread
  <2>2. QueueOK(s, t)' /\ SentOK(s, t)'
    BY <1>3, <1>6, <2>1 DEF CallOK, QueueOK, SentOK
  <2>3. ThreadOK(s)' /\ ServerOK(s, t)'
    BY <1>2, <1>3, <1>5, <1>6, <2>1 DEF CallOK, ThreadOK, ServerOK
  <2> QED
    BY <2>2, <2>3 DEF CallOK
<1>7. CASE ~cancel[s]
  <2>1. /\ emitted'[s] = Append(emitted[s], k)
        /\ putting'[s] = "pending" /\ putting[s] \in {"none", "revoked"}
    BY <1>1, <1>2, <1>7 DEF EngineTypeOK, PutFromThread
  <2>2. /\ Len(emitted'[s]) = Len(emitted[s]) + 1
        /\ DOMAIN emitted'[s] = 1 .. Len(emitted[s]) + 1
        /\ \A i \in 1 .. Len(emitted[s]) : emitted'[s][i] = emitted[s][i]
        /\ emitted'[s][Len(emitted[s]) + 1] = k
    BY <1>4, <2>1, KindAppend
  <2>3. t + Len(queue[s]) = Len(emitted[s])
    BY <1>2, <1>7, <2>1 DEF CallOK, QueueOK
  <2>4. QueueOK(s, t)'
    BY <1>3, <2>1, <2>2, <2>3 DEF CallOK, QueueOK
  <2>5. \A i \in 1 .. t : i \in 1 .. Len(emitted[s]) /\ emitted'[s][i] = emitted[s][i]
    BY <1>4, <2>2, <2>3
  <2>6. SentOK(s, t)'
    BY <1>3, <2>5 DEF CallOK, SentOK
  <2>7. ServerOK(s, t)'
    BY <1>2, <1>3, <2>5 DEF CallOK, ServerOK
  <2>8. ThreadOK(s)'
    <3>1. \A i \in DOMAIN emitted'[s] : emitted'[s][i] \in Sentinel =>
            i = Len(emitted'[s]) /\ next = "Done"
      BY <1>2, <1>4, <1>5, <2>2
    <3>2. emitted'[s] # <<>>
      BY <1>4, <2>2
    <3> QED
      BY <1>2, <1>3, <2>2, <3>1, <3>2 DEF ThreadOK
  <2> QED
    BY <2>4, <2>6, <2>7, <2>8 DEF CallOK
<1> QED
  BY <1>6, <1>7

\* The put in flight lands, returns or is revoked; the pool may have been shut down.
LEMMA PutSettles ==
  ASSUME EngineIInv, NEW s \in Stream, NEW t \in Nat, CallOK(s, t),
         PutLands(s) \/ PutReturns(s) \/ PutRevoked(s)
  PROVE  CallOK(s, t)'
<1>1. EngineTypeOK
  BY DEF EngineIInv
<1>2. UNCHANGED <<emitted, worker, server, cancel, gone, sent, result>>
  BY DEF PutLands, PutReturns, PutRevoked, threadVars, serverVars
<1>3. putting[s] # "none"
  BY DEF PutLands, PutReturns, PutRevoked
<1>4. Len(emitted[s]) \in Nat /\ Len(queue[s]) \in Nat /\ queue[s] \in Seq(Position)
      /\ DOMAIN queue[s] = 1 .. Len(queue[s])
  BY <1>1, EngineTypes
<1>5. SentOK(s, t)' /\ ServerOK(s, t)'
  BY <1>2 DEF CallOK, SentOK, ServerOK
<1>6. worker[s] \notin {"Unborn", "Pooled", "Rejected"}
  BY <1>3 DEF CallOK, ThreadOK
<1>7. ThreadOK(s)'
  BY <1>2, <1>6 DEF CallOK, ThreadOK
<1>8. QueueOK(s, t)'
  <2>1. CASE PutLands(s)
    <3>1. /\ queue'[s] = Append(queue[s], Len(emitted[s]))
          /\ putting[s] \in {"pending", "revoked"} /\ Len(queue[s]) < Capacity
          /\ putting'[s] \in {"landed", "none"}
      BY <1>1, <2>1 DEF EngineTypeOK, PutLands
    <3>2. t + Len(queue[s]) + 1 = Len(emitted[s])
      BY <3>1 DEF CallOK, QueueOK
    <3>3. Len(emitted[s]) \in Position
      BY <1>4, <3>2 DEF Position
    <3>4. /\ Len(queue'[s]) = Len(queue[s]) + 1 /\ DOMAIN queue'[s] = 1 .. Len(queue[s]) + 1
          /\ \A i \in 1 .. Len(queue[s]) : queue'[s][i] = queue[s][i]
          /\ queue'[s][Len(queue[s]) + 1] = Len(emitted[s])
      BY <1>4, <3>1, <3>3, PositionAppend
    <3>5. ASSUME NEW i \in 1 .. Len(queue[s]) + 1
          PROVE  queue'[s][i] = t + i
      <4>1. CASE i = Len(queue[s]) + 1
        BY <1>4, <3>2, <3>4, <4>1
      <4>2. CASE i # Len(queue[s]) + 1
        <5>1. i \in 1 .. Len(queue[s])
          BY <1>4, <4>2
        <5> QED
          BY <1>4, <3>4, <5>1 DEF CallOK, QueueOK
      <4> QED
        BY <4>1, <4>2
    <3>6. Len(queue'[s]) <= Capacity /\ t + Len(queue'[s]) = Len(emitted'[s])
      BY <1>2, <1>4, <3>1, <3>2, <3>4, EngineAssumption
    <3> QED
      BY <1>2, <3>1, <3>4, <3>5, <3>6 DEF QueueOK
  <2>2. CASE PutReturns(s)
    <3>1. /\ queue' = queue
          /\ \/ putting[s] = "landed" /\ putting'[s] = "none"
             \/ putting[s] = "pending" /\ cancel[s] /\ putting'[s] = "revoked"
      BY <1>1, <2>2 DEF EngineTypeOK, PutReturns
    <3> QED
      BY <1>2, <3>1 DEF CallOK, QueueOK
  <2>3. CASE PutRevoked(s)
    <3>1. queue' = queue /\ putting[s] = "revoked" /\ putting'[s] = "none"
      BY <1>1, <2>3 DEF EngineTypeOK, PutRevoked
    <3> QED
      BY <1>2, <3>1 DEF CallOK, QueueOK
  <2> QED
    BY <2>1, <2>2, <2>3
<1> QED
  BY <1>5, <1>7, <1>8 DEF CallOK

LEMMA PoolShut ==
  ASSUME EngineIInv, NEW s \in Stream, NEW t \in Nat, CallOK(s, t), PoolRejects(s)
  PROVE  CallOK(s, t)'
<1>1. EngineTypeOK
  BY DEF EngineIInv
<1>2. /\ worker[s] = "Pooled" /\ worker'[s] = "Rejected"
      /\ emitted'[s] = Append(emitted[s], "fail")
      /\ UNCHANGED <<queue, putting, server, cancel, gone, sent, result>>
  BY <1>1 DEF EngineTypeOK, PoolRejects, ThreadFrame, serverVars
<1>3. emitted[s] = <<>> /\ putting[s] = "none"
  BY <1>2 DEF CallOK, ThreadOK
<1>4. emitted'[s] = <<"fail">> /\ Len(emitted'[s]) = 1 /\ Len(emitted[s]) = 0
  BY <1>2, <1>3
<1>5. Len(queue[s]) \in Nat /\ queue[s] \in Seq(Position) /\ DOMAIN queue[s] = 1 .. Len(queue[s])
  BY <1>1, EngineTypes
<1>6. t = 0 /\ Len(queue[s]) = 0
  BY <1>4, <1>5 DEF CallOK, QueueOK
<1>7. queue[s] = <<>>
  BY <1>5, <1>6, EmptySeq
<1>8. 1 .. t = {}
  BY <1>6
<1>9. QueueOK(s, t)'
  BY <1>2, <1>3, <1>4, <1>6 DEF CallOK, QueueOK
<1>10. SentOK(s, t)' /\ ServerOK(s, t)'
  BY <1>2, <1>8 DEF CallOK, SentOK, ServerOK
<1>11. ThreadOK(s)'
  BY <1>2, <1>3, <1>4, <1>7 DEF ThreadOK
<1> QED
  BY <1>9, <1>10, <1>11 DEF CallOK

\* The item the server takes is the next one.
LEMMA NextItem ==
  ASSUME EngineTypeOK, NEW s \in Stream, NEW t \in Nat, CallOK(s, t), queue[s] # <<>>
  PROVE  /\ Head(queue[s]) = t + 1 /\ t + 1 \in 1 .. Len(emitted[s])
         /\ Len(queue[s]) \in Nat \ {0}
         /\ Len(Tail(queue[s])) = Len(queue[s]) - 1 /\ DOMAIN Tail(queue[s]) = 1 .. Len(queue[s]) - 1
         /\ \A i \in 1 .. Len(queue[s]) - 1 : Tail(queue[s])[i] = (t + 1) + i
<1>1. queue[s] \in Seq(Position) /\ Len(emitted[s]) \in Nat
  BY EngineTypes
<1>2. /\ Head(queue[s]) = queue[s][1] /\ Len(queue[s]) \in Nat \ {0}
      /\ DOMAIN queue[s] = 1 .. Len(queue[s])
      /\ Len(Tail(queue[s])) = Len(queue[s]) - 1 /\ DOMAIN Tail(queue[s]) = 1 .. Len(queue[s]) - 1
      /\ \A i \in 1 .. Len(queue[s]) - 1 : Tail(queue[s])[i] = queue[s][i + 1]
  BY <1>1, PositionTail
<1>3. \A i \in 1 .. Len(queue[s]) : queue[s][i] = t + i
  BY <1>2 DEF CallOK, QueueOK
<1>4. Head(queue[s]) = t + 1
  BY <1>2, <1>3
<1>5. t + 1 \in 1 .. Len(emitted[s])
  BY <1>1, <1>2 DEF CallOK, QueueOK
<1>6. ASSUME NEW i \in 1 .. Len(queue[s]) - 1
      PROVE  Tail(queue[s])[i] = (t + 1) + i
  <2>1. i + 1 \in 1 .. Len(queue[s])
    BY <1>2
  <2>2. queue[s][i + 1] = t + (i + 1)
    BY <1>3, <2>1
  <2> QED
    BY <1>2, <2>2
<1> QED
  BY <1>2, <1>4, <1>5, <1>6

\* A line joins what was sent behind all of it.
LEMMA SentGrows ==
  ASSUME NEW q \in Seq(Position), NEW t \in Nat, Ascending(q), \A j \in DOMAIN q : q[j] <= t
  PROVE  /\ Ascending(Append(q, t + 1))
         /\ Members(Append(q, t + 1)) = Members(q) \cup {t + 1}
<1>1. t + 1 \in Position
  BY DEF Position
<1>2. /\ Len(q) \in Nat /\ DOMAIN q = 1 .. Len(q)
      /\ DOMAIN Append(q, t + 1) = 1 .. Len(q) + 1
      /\ \A i \in 1 .. Len(q) : Append(q, t + 1)[i] = q[i]
      /\ Append(q, t + 1)[Len(q) + 1] = t + 1
  BY <1>1, PositionAppend
<1>3. Ascending(Append(q, t + 1))
  <2> SUFFICES ASSUME NEW i \in 1 .. Len(q) + 1, NEW j \in 1 .. Len(q) + 1, i < j
               PROVE  Append(q, t + 1)[i] < Append(q, t + 1)[j]
    BY <1>2 DEF Ascending
  <2>1. i \in 1 .. Len(q) /\ q[i] \in Position /\ q[i] <= t
    BY <1>2, ElementOfSeq
  <2>2. CASE j = Len(q) + 1
    BY <1>2, <2>1, <2>2 DEF Position
  <2>3. CASE j # Len(q) + 1
    <3>1. j \in 1 .. Len(q)
      BY <1>2, <2>3
    <3> QED
      BY <1>2, <2>1, <3>1 DEF Ascending
  <2> QED
    BY <2>2, <2>3
<1>4. \A i \in 1 .. Len(q) + 1 : i \in 1 .. Len(q) \/ i = Len(q) + 1
  BY <1>2
<1>5. 1 .. Len(q) \subseteq 1 .. Len(q) + 1 /\ Len(q) + 1 \in 1 .. Len(q) + 1
  BY <1>2
<1>6. Members(Append(q, t + 1)) = Members(q) \cup {t + 1}
  BY <1>2, <1>4, <1>5, Zenon DEF Members
<1> QED
  BY <1>3, <1>6

\* The sentinel, if any, is the last item that was put.
LEMMA ServerTakes ==
  ASSUME EngineIInv, NEW s \in Stream, NEW t \in Nat, CallOK(s, t), ServerTake(s)
  PROVE  CallOK(s, t + 1)'
<1>1. EngineTypeOK
  BY DEF EngineIInv
<1>2. server[s] = "Reading" /\ queue[s] # <<>>
  BY DEF ServerTake
<1>3. /\ Head(queue[s]) = t + 1 /\ t + 1 \in 1 .. Len(emitted[s])
      /\ Len(queue[s]) \in Nat \ {0}
      /\ Len(Tail(queue[s])) = Len(queue[s]) - 1 /\ DOMAIN Tail(queue[s]) = 1 .. Len(queue[s]) - 1
      /\ \A i \in 1 .. Len(queue[s]) - 1 : Tail(queue[s])[i] = (t + 1) + i
  BY <1>1, <1>2, NextItem
<1>4. PICK k \in Kind : k = emitted[s][t + 1]
  <2>1. emitted[s] \in Seq(Kind)
    BY <1>1, EngineTypes
  <2> QED
    BY <1>3, <2>1, ElementOfSeq
<1>5. /\ queue'[s] = Tail(queue[s])
      /\ UNCHANGED <<putting, emitted, worker, gone>>
  BY <1>1 DEF EngineTypeOK, ServerTake, ServerFrame
<1>6. \/ /\ k \in Visible /\ sent'[s] = Append(sent[s], t + 1)
         /\ server'[s] = IF k = "end" THEN "YieldingEnd" ELSE "Yielding"
         /\ result'[s] = result[s] /\ cancel'[s] = cancel[s]
      \/ /\ k = "skip" /\ sent'[s] = sent[s] /\ server'[s] = server[s]
         /\ result'[s] = result[s] /\ cancel'[s] = cancel[s]
      \/ /\ k \in Sentinel /\ sent'[s] = sent[s] /\ server'[s] = "Cleaning"
         /\ (cancel'[s] = cancel[s] \/ cancel'[s] = TRUE)
  <2>1. \/ /\ k \in Visible /\ sent' = [sent EXCEPT ![s] = Append(sent[s], t + 1)]
           /\ server' = [server EXCEPT ![s] = IF k = "end" THEN "YieldingEnd" ELSE "Yielding"]
           /\ UNCHANGED <<result, cancel>>
        \/ k = "skip" /\ UNCHANGED <<server, sent, result, cancel>>
        \/ k \in Sentinel /\ EndCall(s, "OK") /\ UNCHANGED <<sent, cancel>>
        \/ /\ k \in Sentinel /\ EndCall(s, "INTERNAL") /\ UNCHANGED sent
           /\ cancel' = [cancel EXCEPT ![s] = TRUE]
    BY <1>3, <1>4 DEF ServerTake, Visible, Sentinel, serverVars
  <2>2. s \in DOMAIN sent /\ s \in DOMAIN server /\ s \in DOMAIN cancel
    BY <1>1 DEF EngineTypeOK
  <2>3. CASE k \in Sentinel /\ sent' = sent /\ server' = [server EXCEPT ![s] = "Cleaning"]
             /\ (cancel' = cancel \/ cancel' = [cancel EXCEPT ![s] = TRUE])
    BY <2>2, <2>3
  <2>4. CASE /\ k \in Visible /\ sent' = [sent EXCEPT ![s] = Append(sent[s], t + 1)]
             /\ server' = [server EXCEPT ![s] = IF k = "end" THEN "YieldingEnd" ELSE "Yielding"]
             /\ UNCHANGED <<result, cancel>>
    BY <2>2, <2>4
  <2>5. CASE k = "skip" /\ UNCHANGED <<server, sent, result, cancel>>
    BY <2>5
  <2>6. CASE k \in Sentinel /\ EndCall(s, "OK") /\ UNCHANGED <<sent, cancel>>
    BY <2>3, <2>6 DEF EndCall
  <2>7. CASE /\ k \in Sentinel /\ EndCall(s, "INTERNAL") /\ UNCHANGED sent
             /\ cancel' = [cancel EXCEPT ![s] = TRUE]
    BY <2>3, <2>7 DEF EndCall
  <2> QED
    BY <2>1, <2>4, <2>5, <2>6, <2>7
<1>7. /\ Len(emitted[s]) \in Nat /\ DOMAIN emitted[s] = 1 .. Len(emitted[s])
      /\ cancel[s] \in BOOLEAN /\ sent[s] \in Seq(Position)
  BY <1>1, EngineTypes
<1>8. \A i \in 1 .. t + 1 : i \in 1 .. t \/ i = t + 1
  OBVIOUS
<1>9. 1 .. t \subseteq 1 .. t + 1 /\ t + 1 \in 1 .. t + 1
  OBVIOUS
<1>10. cancel[s] => cancel'[s]
  BY <1>6, <1>7
<1>11. QueueOK(s, t + 1)'
  <2>1. \A i \in DOMAIN queue'[s] : queue'[s][i] = (t + 1) + i
    BY <1>3, <1>5
  <2>2. Len(queue'[s]) <= Capacity /\ (t + 1) + Len(queue'[s]) = t + Len(queue[s])
    <3>1. PICK n \in Nat : Len(queue[s]) = n + 1
      <4>1. Len(queue[s]) \in Nat \ {0}
        BY <1>3
      <4> QED
        BY <4>1
    <3>2. Len(Tail(queue[s])) = n
      <4>1. Len(Tail(queue[s])) = Len(queue[s]) - 1
        BY <1>3
      <4> QED
        BY <3>1, <4>1
    <3>3. Len(queue'[s]) = n
      BY <1>5, <3>2
    <3>4. Len(queue[s]) <= Capacity
      BY DEF CallOK, QueueOK
    <3> QED
      BY <3>1, <3>3, <3>4, EngineAssumption
  <2>3. ~cancel'[s] => ~cancel[s]
    BY <1>10
  <2> QED
    BY <1>5, <1>10, <2>1, <2>2, <2>3 DEF CallOK, QueueOK
<1>12. SentOK(s, t + 1)'
  <2> DEFINE Lines == {i \in 1 .. t : emitted[s][i] \in Visible}
  <2>1. /\ Ascending(sent[s]) /\ Members(sent[s]) = Lines
        /\ \A j \in DOMAIN sent[s] : sent[s][j] <= t
    <3>1. Ascending(sent[s]) /\ Members(sent[s]) = Lines
      BY DEF CallOK, SentOK
    <3>2. \A i \in Lines : i <= t
      OBVIOUS
    <3>3. \A j \in DOMAIN sent[s] : sent[s][j] \in Lines
      BY <3>1 DEF Members
    <3> QED
      BY <3>1, <3>2, <3>3
  <2>2. CASE k \in Visible
    <3>1. sent'[s] = Append(sent[s], t + 1)
      BY <1>6, <2>2 DEF Visible, Sentinel
    <3>2. {i \in 1 .. t + 1 : emitted'[s][i] \in Visible} = Lines \cup {t + 1}
      BY <1>4, <1>5, <1>8, <1>9, <2>2
    <3>3. PICK q \in Seq(Position) : q = sent[s]
      BY <1>7
    <3>4. Ascending(q) /\ Members(q) = Lines /\ \A j \in DOMAIN q : q[j] <= t
      BY <2>1, <3>3
    <3>5. Ascending(Append(q, t + 1)) /\ Members(Append(q, t + 1)) = Members(q) \cup {t + 1}
      BY <3>4, SentGrows
    <3>6. Ascending(sent'[s]) /\ Members(sent'[s]) = Lines \cup {t + 1}
      BY <3>1, <3>3, <3>4, <3>5
    <3> QED
      BY <3>2, <3>6 DEF SentOK
  <2>3. CASE k \notin Visible
    <3>1. sent'[s] = sent[s]
      BY <1>6, <2>3
    <3>2. {i \in 1 .. t + 1 : emitted'[s][i] \in Visible} = Lines
      BY <1>4, <1>5, <1>8, <1>9, <2>3
    <3> QED
      BY <2>1, <3>1, <3>2 DEF SentOK
  <2> QED
    BY <2>2, <2>3
<1>13. ThreadOK(s)'
  <2>1. worker[s] # "Rejected"
    BY <1>2 DEF CallOK, ThreadOK
  <2> QED
    BY <1>5, <1>10, <2>1 DEF CallOK, ThreadOK
<1>14. ServerOK(s, t + 1)'
  <2>1. /\ result[s] = "Open"
        /\ ~gone[s] => ~cancel[s]
        /\ \A i \in 1 .. t : emitted[s][i] \notin Sentinel /\ emitted[s][i] # "end"
    BY <1>2 DEF CallOK, ServerOK
  <2>2. CASE k \in Visible
    <3>1. k \notin Sentinel /\ server'[s] = IF k = "end" THEN "YieldingEnd" ELSE "Yielding"
      BY <1>6, <2>2 DEF Visible, Sentinel
    <3>2. /\ result'[s] = "Open" /\ cancel'[s] = cancel[s]
          /\ \A i \in 1 .. t + 1 : emitted'[s][i] \notin Sentinel
      BY <1>4, <1>5, <1>6, <1>8, <2>1, <2>2, <3>1 DEF Visible, Sentinel
    <3>3. CASE k = "end"
      BY <1>4, <1>5, <1>9, <2>1, <3>1, <3>2, <3>3 DEF ServerOK
    <3>4. CASE k # "end"
      <4>1. \A i \in 1 .. t + 1 : emitted'[s][i] # "end"
        BY <1>4, <1>5, <1>8, <2>1, <3>4
      <4> QED
        BY <1>5, <2>1, <3>1, <3>2, <3>4, <4>1 DEF ServerOK
    <3> QED
      BY <3>3, <3>4
  <2>3. CASE k = "skip"
    <3>1. /\ server'[s] = "Reading" /\ result'[s] = "Open" /\ cancel'[s] = cancel[s]
      BY <1>2, <1>6, <2>1, <2>3 DEF Visible, Sentinel
    <3>2. \A i \in 1 .. t + 1 : emitted'[s][i] \notin Sentinel /\ emitted'[s][i] # "end"
      BY <1>4, <1>5, <1>8, <2>1, <2>3 DEF Sentinel
    <3> QED
      BY <1>5, <2>1, <3>1, <3>2 DEF ServerOK
  <2>4. CASE k \in Sentinel
    <3>1. server'[s] = "Cleaning"
      BY <1>6, <2>4 DEF Visible, Sentinel
    <3> QED
      BY <3>1 DEF ServerOK
  <2> QED
    BY <1>6, <2>2, <2>3, <2>4
<1> QED
  BY <1>11, <1>12, <1>13, <1>14 DEF CallOK

\* The other steps of the servicer and of the client leave what was put alone.
LEMMA ServerQuiet ==
  ASSUME EngineIInv, NEW s \in Stream, NEW t \in Nat, CallOK(s, t),
         \/ ServerBegin(s) \/ ServerSeesDone(s) \/ ServerYielded(s) \/ ServerAborted(s)
         \/ ServerClean(s) \/ ServerClosed(s) \/ ClientLeaves(s)
  PROVE  CallOK(s, t)'
<1>1. EngineTypeOK
  BY DEF EngineIInv
<1>2. /\ UNCHANGED <<queue, putting, emitted, sent>>
      /\ cancel[s] => cancel'[s]
  BY <1>1 DEF EngineTypeOK, ServerBegin, ServerSeesDone, ServerYielded, ServerAborted,
     ServerClean, ServerClosed, ClientLeaves, ServerFrame, EndCall, threadVars, serverVars
<1>3. SentOK(s, t)'
  BY <1>2 DEF CallOK, SentOK
<1>4. CASE ServerBegin(s)
  <2>1. /\ server[s] = "Created" /\ server'[s] = "Reading" /\ worker'[s] = "Pooled"
        /\ UNCHANGED <<cancel, result, gone>>
    BY <1>1, <1>4 DEF EngineTypeOK, ServerBegin, ServerFrame
  <2>2. worker[s] = "Unborn"
    BY <2>1 DEF CallOK, ServerOK
  <2>3. QueueOK(s, t)' /\ ThreadOK(s)' /\ ServerOK(s, t)'
    BY <1>2, <2>1, <2>2 DEF CallOK, QueueOK, ThreadOK, ServerOK
  <2> QED
    BY <1>3, <2>3 DEF CallOK
<1>5. CASE ~ServerBegin(s)
  <2>1. worker' = worker
    BY <1>5 DEF ServerSeesDone, ServerYielded, ServerAborted, ServerClean, ServerClosed,
       ClientLeaves, threadVars
  <2>2. QueueOK(s, t)' /\ ThreadOK(s)'
    BY <1>2, <2>1 DEF CallOK, QueueOK, ThreadOK
  <2>3. \/ server'[s] \in {"Cleaning", "Waiting", "Closed"}
        \/ /\ server[s] = "Yielding" /\ server'[s] = "Reading"
           /\ UNCHANGED <<cancel, result, gone>>
        \/ UNCHANGED <<server, result>> /\ gone'[s] = TRUE
    BY <1>1, <1>5 DEF EngineTypeOK, ServerSeesDone, ServerYielded, ServerAborted, ServerClean,
       ServerClosed, ClientLeaves, EndCall, ServerFrame, serverVars
  <2>4. ServerOK(s, t)'
    BY <1>2, <2>1, <2>3 DEF CallOK, ServerOK
  <2> QED
    BY <1>3, <2>2, <2>4 DEF CallOK
<1> QED
  BY <1>4, <1>5

-----------------------------------------------------------------------------
(* The inductive invariant holds *)

LEMMA EngineInitOK ==
  EngineInit => EngineIInv
<1> SUFFICES ASSUME EngineInit PROVE EngineIInv
  OBVIOUS
<1>1. EngineTypeOK
  BY EngineAssumption DEF EngineInit, EngineTypeOK, PutState, WorkerPoint, ServerPoint, Result
<1>2. ASSUME NEW s \in Stream
      PROVE  CallOK(s, 0)
  <2>1. /\ queue[s] = <<>> /\ emitted[s] = <<>> /\ putting[s] = "none" /\ worker[s] = "Unborn"
        /\ server[s] = "Created" /\ cancel[s] = FALSE /\ sent[s] = <<>> /\ result[s] = "Open"
    BY DEF EngineInit
  <2>2. QueueOK(s, 0)
    BY <2>1, EngineAssumption DEF QueueOK
  <2>3. SentOK(s, 0)
    BY <2>1 DEF SentOK, Ascending, Members
  <2>4. ThreadOK(s) /\ ServerOK(s, 0)
    BY <2>1 DEF ThreadOK, ServerOK
  <2> QED
    BY <2>2, <2>3, <2>4 DEF CallOK
<1> QED
  BY <1>1, <1>2 DEF EngineIInv

LEMMA OwnStep ==
  ASSUME EngineIInv, NEW s \in Stream, Step(s)
  PROVE  \E t \in Nat : CallOK(s, t)'
<1>1. PICK t \in Nat : CallOK(s, t)
  BY DEF EngineIInv
<1>2. CASE ServerTake(s)
  <2>1. t + 1 \in Nat
    OBVIOUS
  <2>2. CallOK(s, t + 1)'
    BY <1>1, <1>2, ServerTakes
  <2> QED
    BY <2>1, <2>2
<1>3. CASE \/ ThreadStart(s) \/ ThreadStep(s) \/ ThreadFlush(s) \/ ThreadEmitted(s)
           \/ ThreadRaises(s)
  BY <1>1, <1>3, ThreadQuiet
<1>4. CASE ThreadEmit(s) \/ ThreadEnd(s) \/ ThreadFail(s)
  BY <1>1, <1>4, ThreadPuts
<1>5. CASE PutLands(s) \/ PutReturns(s) \/ PutRevoked(s)
  BY <1>1, <1>5, PutSettles
<1>6. CASE PoolRejects(s)
  BY <1>1, <1>6, PoolShut
<1>7. CASE \/ ServerBegin(s) \/ ServerSeesDone(s) \/ ServerYielded(s) \/ ServerAborted(s)
           \/ ServerClean(s) \/ ServerClosed(s) \/ ClientLeaves(s)
  BY <1>1, <1>7, ServerQuiet
<1> QED
  BY <1>2, <1>3, <1>4, <1>5, <1>6, <1>7 DEF Step, Thread, Loop

LEMMA OtherStep ==
  ASSUME EngineIInv, NEW s \in Stream, Step(s), NEW r \in Stream, r # s
  PROVE  \E t \in Nat : CallOK(r, t)'
<1>1. PICK t \in Nat : CallOK(r, t)
  BY DEF EngineIInv
<1>2. /\ queue'[r] = queue[r] /\ emitted'[r] = emitted[r] /\ putting'[r] = putting[r]
      /\ worker'[r] = worker[r] /\ server'[r] = server[r] /\ cancel'[r] = cancel[r]
      /\ gone'[r] = gone[r] /\ sent'[r] = sent[r] /\ result'[r] = result[r]
  BY OthersStay
<1>3. QueueOK(r, t)' /\ SentOK(r, t)'
  BY <1>1, <1>2 DEF CallOK, QueueOK, SentOK
<1>4. ThreadOK(r)' /\ ServerOK(r, t)'
  BY <1>1, <1>2 DEF CallOK, ThreadOK, ServerOK
<1> QED
  BY <1>3, <1>4 DEF CallOK

LEMMA EngineStep ==
  EngineIInv /\ [EngineNext]_engineVars => EngineIInv'
<1> SUFFICES ASSUME EngineIInv, [EngineNext]_engineVars PROVE EngineIInv'
  OBVIOUS
<1>1. CASE EngineNext
  <2>1. PICK s \in Stream : Step(s)
    BY <1>1 DEF EngineNext, Step
  <2>2. EngineTypeOK'
    BY <2>1, TypeStep
  <2>3. \A r \in Stream : \E t \in Nat : CallOK(r, t)'
    BY <2>1, OwnStep, OtherStep
  <2> QED
    BY <2>2, <2>3 DEF EngineIInv
<1>2. CASE UNCHANGED engineVars
  <2>1. UNCHANGED <<queue, putting, emitted, worker, chunk, steps, server, sent, result, cancel, gone>>
    BY <1>2 DEF engineVars, threadVars, serverVars
  <2>2. EngineTypeOK'
    BY <2>1 DEF EngineIInv, EngineTypeOK
  <2>3. ASSUME NEW s \in Stream, NEW t \in Nat, CallOK(s, t)
        PROVE  CallOK(s, t)'
    <3>1. QueueOK(s, t)' /\ SentOK(s, t)'
      BY <2>1, <2>3 DEF CallOK, QueueOK, SentOK
    <3>2. ThreadOK(s)' /\ ServerOK(s, t)'
      BY <2>1, <2>3 DEF CallOK, ThreadOK, ServerOK
    <3> QED
      BY <3>1, <3>2 DEF CallOK
  <2> QED
    BY <2>2, <2>3 DEF EngineIInv
<1> QED
  BY <1>1, <1>2

LEMMA EngineInvariant ==
  EngineSpec => []EngineIInv
<1> QED
  BY EngineInitOK, EngineStep, PTL DEF EngineSpec

-----------------------------------------------------------------------------
(* Backpressure *)

\* An interval inside a finite set of positions is no longer than the set.
LEMMA Between ==
  ASSUME NEW K, IsFiniteSet(K), NEW a \in Nat, NEW b \in Nat, a + 1 .. b \subseteq K
  PROVE  b <= a + Cardinality(K) /\ Cardinality(K) \in Nat
<1>1. Cardinality(a + 1 .. b) <= Cardinality(K) /\ Cardinality(K) \in Nat
  BY FS_Subset, FS_CardinalityType
<1>2. a + 1 <= b => Cardinality(a + 1 .. b) = b - (a + 1) + 1
  BY FS_Interval
<1> QED
  BY <1>1, <1>2

\* The last line the client has taken, and what the server has taken since.
LastSent(s) == IF sent[s] = <<>> THEN 0 ELSE sent[s][Len(sent[s])]

LEMMA SinceLastSent ==
  ASSUME EngineTypeOK, NEW s \in Stream, NEW t \in Nat, CallOK(s, t)
  PROVE  /\ LastSent(s) \in Nat /\ LastSent(s) <= t
         /\ \A j \in DOMAIN sent[s] : sent[s][j] <= LastSent(s)
         /\ \A i \in LastSent(s) + 1 .. t : emitted[s][i] \notin Visible
<1>1. /\ sent[s] \in Seq(Position) /\ Len(sent[s]) \in Nat /\ DOMAIN sent[s] = 1 .. Len(sent[s])
  BY EngineTypes
<1>2. /\ Ascending(sent[s])
      /\ Members(sent[s]) = {i \in 1 .. t : emitted[s][i] \in Visible}
  BY DEF CallOK, SentOK
<1>3. \A j \in DOMAIN sent[s] : sent[s][j] \in 1 .. t
  BY <1>2 DEF Members
<1>4. CASE sent[s] = <<>>
  <2>1. DOMAIN sent[s] = {} /\ LastSent(s) = 0
    BY <1>4 DEF LastSent
  <2>2. \A i \in 1 .. t : emitted[s][i] \notin Visible
    BY <1>2, <2>1 DEF Members
  <2> QED
    BY <2>1, <2>2
<1>5. CASE sent[s] # <<>>
  <2>1. LastSent(s) = sent[s][Len(sent[s])] /\ Len(sent[s]) \in DOMAIN sent[s]
    BY <1>1, <1>5, EmptySeq DEF LastSent
  <2>2. LastSent(s) \in 1 .. t
    BY <1>3, <2>1
  <2>3. ASSUME NEW j \in DOMAIN sent[s]
        PROVE  sent[s][j] <= LastSent(s)
    <3>1. j = Len(sent[s]) \/ j < Len(sent[s])
      BY <1>1
    <3> QED
      BY <1>2, <1>3, <2>1, <2>2, <3>1 DEF Ascending
  <2>4. ASSUME NEW i \in LastSent(s) + 1 .. t, emitted[s][i] \in Visible
        PROVE  FALSE
    <3>1. i \in 1 .. t
      BY <2>2
    <3>2. PICK j \in DOMAIN sent[s] : sent[s][j] = i
      BY <1>2, <2>4, <3>1 DEF Members
    <3> QED
      BY <2>2, <2>3, <3>2
  <2> QED
    BY <2>2, <2>3, <2>4
<1> QED
  BY <1>4, <1>5

\* After the last line it sent, the server took blank lines and the sentinel only.
LEMMA CallWithinCapacity ==
  ASSUME EngineTypeOK, NEW s \in Stream, NEW t \in Nat, CallOK(s, t)
  PROVE  Len(emitted[s]) - LastSent(s)
           <= Capacity + 1 + Cardinality({i \in DOMAIN emitted[s] : emitted[s][i] = "skip"})
<1> DEFINE Skips == {i \in DOMAIN emitted[s] : emitted[s][i] = "skip"}
<1>1. /\ emitted[s] \in Seq(Kind) /\ Len(emitted[s]) \in Nat
      /\ DOMAIN emitted[s] = 1 .. Len(emitted[s]) /\ Len(queue[s]) \in Nat
      /\ Capacity \in Nat \ {0}
  BY EngineTypes, EngineAssumption
<1>2. PICK n \in Nat, q \in Nat, a \in Nat :
        n = Len(emitted[s]) /\ q = Len(queue[s]) /\ a = LastSent(s)
  BY <1>1, SinceLastSent
<1>3. q <= Capacity /\ (t + q = n \/ t + q + 1 = n) /\ a <= t
  BY <1>2, SinceLastSent DEF CallOK, QueueOK
<1>4. \A i \in 1 .. n : emitted[s][i] \in Sentinel => i = n
  BY <1>1, <1>2 DEF CallOK, ThreadOK
<1>5. \A i \in a + 1 .. t : i \in 1 .. n /\ emitted[s][i] \notin Visible
  BY <1>2, <1>3, SinceLastSent
<1>6. \A i \in a + 1 .. t : i # n => i \in Skips
  <2>1. \A i \in 1 .. n : emitted[s][i] \in Kind
    BY <1>1, <1>2, ElementOfSeq
  <2>2. \A k \in Kind : k \in Visible \/ k \in Sentinel \/ k = "skip"
    BY DEF Kind, Visible, Sentinel
  <2> QED
    BY <1>1, <1>2, <1>4, <1>5, <2>1, <2>2
<1>7. IsFiniteSet(Skips)
  <2>1. IsFiniteSet(1 .. n)
    BY FS_Interval
  <2>2. Skips \subseteq 1 .. n
    BY <1>1, <1>2
  <2> QED
    BY <2>1, <2>2, FS_Subset
<1>8. n <= a + Capacity + 1 + Cardinality(Skips) /\ Cardinality(Skips) \in Nat
  <2>1. CASE n \in a + 1 .. t
    <3>1. n - 1 \in Nat /\ t = n
      BY <1>3, <2>1
    <3>2. a + 1 .. n - 1 \subseteq Skips
      BY <1>6, <3>1
    <3>3. n - 1 <= a + Cardinality(Skips) /\ Cardinality(Skips) \in Nat
      BY <1>7, <3>1, <3>2, Between
    <3> QED
      BY <1>1, <3>3
  <2>2. CASE n \notin a + 1 .. t
    <3>1. a + 1 .. t \subseteq Skips
      BY <1>6, <2>2
    <3>2. t <= a + Cardinality(Skips) /\ Cardinality(Skips) \in Nat
      BY <1>7, <3>1, Between
    <3> QED
      BY <1>1, <1>3, <3>2
  <2> QED
    BY <2>1, <2>2
<1> QED
  BY <1>1, <1>2, <1>8

\* The thread that generates is never further ahead of what the client has taken
\* than the queue, the put in flight and the line being yielded allow, whatever
\* the capacity and however many calls share the pool: backpressure crosses the
\* thread boundary (the bounded queue of put_from_thread).
THEOREM StaysWithinCapacity ==
  EngineSpec => []EngineInv
<1>1. EngineIInv => EngineInv
  <2> SUFFICES ASSUME EngineIInv PROVE EngineInv
    OBVIOUS
  <2>1. EngineTypeOK /\ \A s \in Stream : \E t \in Nat : CallOK(s, t)
    BY DEF EngineIInv
  <2>2. \A s \in Stream :
          Len(emitted[s]) - LastSent(s)
            <= Capacity + 1 + Cardinality({i \in DOMAIN emitted[s] : emitted[s][i] = "skip"})
    BY <2>1, CallWithinCapacity
  <2> QED
    BY <2>1, <2>2 DEF EngineInv, LastSent
<1> QED
  BY <1>1, EngineInvariant, PTL

-----------------------------------------------------------------------------
(* The promise of LineStream *)

\* What the client has still to see is what the server has not taken, and it has
\* seen an end marker exactly if the server has taken one.
LEMMA PromiseMeans ==
  ASSUME EngineTypeOK, NEW s \in Stream, NEW t \in Nat, CallOK(s, t)
  PROVE  /\ Promise!Pending(s) = {i \in t + 1 .. Len(emitted[s]) : emitted[s][i] \in Visible}
         /\ Promise!EndSent(s) <=> \E i \in 1 .. t : emitted[s][i] = "end"
<1>1. Len(emitted[s]) \in Nat /\ DOMAIN emitted[s] = 1 .. Len(emitted[s]) /\ Len(queue[s]) \in Nat
  BY EngineTypes
<1>2. Members(sent[s]) = {i \in 1 .. t : emitted[s][i] \in Visible}
  BY DEF CallOK, SentOK
<1>3. /\ \A j \in DOMAIN sent[s] : sent[s][j] \in 1 .. t /\ emitted[s][sent[s][j]] \in Visible
      /\ \A i \in 1 .. t : emitted[s][i] \in Visible => \E j \in DOMAIN sent[s] : sent[s][j] = i
  BY <1>2 DEF Members
<1>4. ASSUME NEW i \in 1 .. Len(emitted[s]), emitted[s][i] \in Visible
      PROVE  (\A j \in DOMAIN sent[s] : sent[s][j] < i) <=> i \in t + 1 .. Len(emitted[s])
  <2>1. CASE i \in 1 .. t
    <3>1. PICK j \in DOMAIN sent[s] : sent[s][j] = i
      BY <1>3, <1>4, <2>1
    <3> QED
      BY <2>1, <3>1
  <2>2. CASE i \notin 1 .. t
    <3>1. i \in t + 1 .. Len(emitted[s])
      BY <1>1, <2>2
    <3>2. \A m \in 1 .. t : m < i
      BY <3>1
    <3> QED
      BY <1>3, <3>1, <3>2
  <2> QED
    BY <2>1, <2>2
<1>5. t + 1 .. Len(emitted[s]) \subseteq 1 .. Len(emitted[s])
  BY <1>1
<1>6. Promise!Pending(s) = {i \in t + 1 .. Len(emitted[s]) : emitted[s][i] \in Visible}
  BY <1>1, <1>4, <1>5 DEF Promise!Pending, Visible
<1>7. Promise!EndSent(s) <=> \E i \in 1 .. t : emitted[s][i] = "end"
  BY <1>3 DEF Promise!EndSent, Visible
<1> QED
  BY <1>6, <1>7

\* The end of a call is one of those the promise allows.
LEMMA ClosesAllowed ==
  ASSUME NEW s \in Stream, NEW r \in Promise!MayEnd(s), result[s] = "Open",
         result' = [result EXCEPT ![s] = r], UNCHANGED <<emitted, sent>>
  PROVE  Promise!Close(s)
  BY DEF Promise!Close

\* EndCall(s, r) with an end the promise allows: a client that went away makes it
\* CANCELLED.
LEMMA EndCallAllowed ==
  ASSUME NEW s \in Stream, NEW r, ~gone[s] => r \in Promise!MayEnd(s), result[s] = "Open",
         EndCall(s, r), UNCHANGED <<emitted, sent>>
  PROVE  Promise!Close(s)
<1>1. "CANCELLED" \in Promise!MayEnd(s)
  BY DEF Promise!MayEnd
<1>2. result' = [result EXCEPT ![s] = IF gone[s] THEN "CANCELLED" ELSE r]
  BY DEF EndCall
<1> QED
  BY <1>1, <1>2, ClosesAllowed

\* The thread hands over an item while it has handed over no sentinel.
LEMMA ThreadProduces ==
  ASSUME EngineIInv, NEW s \in Stream,
         ThreadEmit(s) \/ ThreadEnd(s) \/ ThreadFail(s) \/ PoolRejects(s)
  PROVE  \/ \E k \in Promise!LineKind \cup Promise!Sentinel : Promise!Produce(s, k)
         \/ UNCHANGED Promise!abstractVars
<1>1. PICK t \in Nat : EngineTypeOK /\ CallOK(s, t)
  BY DEF EngineIInv
<1>2. worker[s] \notin {"Done", "Rejected"} /\ UNCHANGED <<sent, result>>
  BY DEF ThreadEmit, ThreadEnd, ThreadFail, PoolRejects, ThreadFrame, serverVars
<1>3. PICK k \in Kind :
        \/ emitted' = [emitted EXCEPT ![s] = Append(emitted[s], k)]
        \/ UNCHANGED emitted
  <2>1. CASE ThreadEmit(s)
    <3>1. Head(chunk[s]) \in Kind
      BY <1>1, <2>1, EngineTypes, LineTail DEF ThreadEmit, Kind, LineKind
    <3> QED
      BY <2>1, <3>1 DEF ThreadEmit, PutFromThread
  <2>2. CASE ThreadEnd(s) \/ ThreadFail(s) \/ PoolRejects(s)
    BY <2>2 DEF ThreadEnd, ThreadFail, PoolRejects, PutFromThread, Kind
  <2> QED
    BY <2>1, <2>2
<1>4. \A i \in DOMAIN emitted[s] : emitted[s][i] \notin Sentinel
  BY <1>1, <1>2 DEF CallOK, ThreadOK
<1>5. ~Promise!EndsWith(s, "eos") /\ ~Promise!EndsWith(s, "fail")
  <2>1. emitted[s] \in Seq(Kind)
    BY <1>1, EngineTypes
  <2>2. emitted[s] # <<>> => Len(emitted[s]) \in DOMAIN emitted[s]
    BY <2>1, LenProperties, EmptySeq
  <2> QED
    BY <1>4, <2>2 DEF Promise!EndsWith, Sentinel
<1>6. k \in Promise!LineKind \cup Promise!Sentinel
  BY DEF Kind, Promise!LineKind, Promise!Sentinel
<1> QED
  BY <1>2, <1>3, <1>5, <1>6 DEF Promise!Produce, Promise!abstractVars

\* A line the server yields is the next the client has to see; a sentinel leaves
\* nothing to see.
LEMMA ServerDelivers ==
  ASSUME EngineIInv, NEW s \in Stream, ServerTake(s)
  PROVE  Promise!Deliver(s) \/ Promise!Close(s) \/ UNCHANGED Promise!abstractVars
<1>1. PICK t \in Nat : EngineTypeOK /\ CallOK(s, t)
  BY DEF EngineIInv
<1>2. server[s] = "Reading" /\ queue[s] # <<>> /\ UNCHANGED emitted
  BY DEF ServerTake, ServerFrame
<1>3. Head(queue[s]) = t + 1 /\ t + 1 \in 1 .. Len(emitted[s])
  BY <1>1, <1>2, NextItem
<1>4. /\ result[s] = "Open" /\ ~Promise!EndSent(s)
      /\ Promise!Pending(s) = {i \in t + 1 .. Len(emitted[s]) : emitted[s][i] \in Visible}
  BY <1>1, <1>2, PromiseMeans DEF CallOK, ServerOK
<1>5. Len(emitted[s]) \in Nat /\ DOMAIN emitted[s] = 1 .. Len(emitted[s])
  BY <1>1, EngineTypes
<1>6. CASE emitted[s][t + 1] \in Visible
  <2>1. sent' = [sent EXCEPT ![s] = Append(sent[s], t + 1)] /\ UNCHANGED result
    BY <1>3, <1>6 DEF ServerTake, Visible
  <2>2. t + 1 \in Promise!Pending(s) /\ \A j \in Promise!Pending(s) : t + 1 <= j
    BY <1>3, <1>4, <1>5, <1>6
  <2> QED
    BY <1>2, <1>4, <2>1, <2>2 DEF Promise!Deliver
<1>7. CASE emitted[s][t + 1] = "skip"
  BY <1>2, <1>3, <1>7 DEF ServerTake, serverVars, Promise!abstractVars
<1>8. CASE emitted[s][t + 1] \in Sentinel
  <2>1. t + 1 = Len(emitted[s])
    BY <1>1, <1>3, <1>5, <1>8 DEF CallOK, ThreadOK
  <2>2. Promise!EndsWith(s, emitted[s][t + 1])
    <3>1. emitted[s] # <<>>
      BY <1>3, <1>5
    <3> QED
      BY <2>1, <3>1 DEF Promise!EndsWith
  <2>3. Promise!Pending(s) = {}
    <3>1. \A i \in t + 1 .. Len(emitted[s]) : i = t + 1
      BY <2>1
    <3> QED
      BY <1>4, <1>8, <3>1 DEF Visible, Sentinel
  <2>4. CASE emitted[s][t + 1] = "eos"
    <3>1. EndCall(s, "OK") /\ UNCHANGED sent
      BY <1>3, <2>4 DEF ServerTake
    <3>2. "OK" \in Promise!MayEnd(s)
      BY <2>2, <2>3, <2>4 DEF Promise!MayEnd
    <3> QED
      BY <1>2, <1>4, <3>1, <3>2, EndCallAllowed
  <2>5. CASE emitted[s][t + 1] = "fail"
    <3>1. EndCall(s, "INTERNAL") /\ UNCHANGED sent
      BY <1>3, <2>5 DEF ServerTake
    <3>2. "INTERNAL" \in Promise!MayEnd(s)
      BY <1>4, <2>2, <2>3, <2>5 DEF Promise!MayEnd
    <3> QED
      BY <1>2, <1>4, <3>1, <3>2, EndCallAllowed
  <2> QED
    BY <1>8, <2>4, <2>5 DEF Sentinel
<1> QED
  BY <1>3, <1>6, <1>7, <1>8 DEF ServerTake, Visible, Sentinel

\* A generator seen done with the queue empty has failed to start, or its call is
\* cancelled: otherwise its sentinel was taken from the queue.
LEMMA DoneCloses ==
  ASSUME EngineIInv, NEW s \in Stream, ServerSeesDone(s)
  PROVE  Promise!Close(s)
<1>1. PICK t \in Nat : EngineTypeOK /\ CallOK(s, t)
  BY DEF EngineIInv
<1>2. /\ server[s] = "Reading" /\ queue[s] = <<>> /\ GenDone(s) /\ UNCHANGED <<emitted, sent>>
      /\ EndCall(s, IF worker[s] = "Rejected" THEN "INTERNAL" ELSE "OK")
  BY DEF ServerSeesDone, ServerFrame
<1>3. /\ result[s] = "Open" /\ ~Promise!EndSent(s)
      /\ Promise!Pending(s) = {i \in t + 1 .. Len(emitted[s]) : emitted[s][i] \in Visible}
  BY <1>1, <1>2, PromiseMeans DEF CallOK, ServerOK
<1>4. CASE worker[s] = "Rejected"
  <2>1. emitted[s] = <<"fail">> /\ Len(emitted[s]) = 1 /\ emitted[s][1] = "fail"
    <3>1. emitted[s] = <<"fail">>
      BY <1>1, <1>4 DEF CallOK, ThreadOK
    <3> QED
      BY <3>1
  <2>2. Promise!Pending(s) = {}
    <3>1. \A i \in t + 1 .. 1 : i = 1
      OBVIOUS
    <3> QED
      BY <1>3, <2>1, <3>1 DEF Visible
  <2>3. Promise!EndsWith(s, "fail")
    BY <2>1 DEF Promise!EndsWith
  <2>4. "INTERNAL" \in Promise!MayEnd(s)
    BY <1>3, <2>2, <2>3 DEF Promise!MayEnd
  <2> QED
    BY <1>2, <1>3, <1>4, <2>4, EndCallAllowed
<1>5. CASE worker[s] # "Rejected"
  <2>1. worker[s] = "Done" /\ putting[s] \in {"none", "revoked"}
    BY <1>2, <1>5 DEF GenDone
  <2>2. ASSUME ~gone[s] PROVE FALSE
    <3>1. ~cancel[s] /\ \A i \in 1 .. t : emitted[s][i] \notin Sentinel
      BY <1>1, <1>2, <2>2 DEF CallOK, ServerOK
    <3>2. emitted[s] # <<>> /\ emitted[s][Len(emitted[s])] \in Sentinel
      BY <1>1, <2>1, <3>1 DEF CallOK, ThreadOK
    <3>3. Len(queue[s]) = 0 /\ Len(emitted[s]) \in Nat \ {0}
      <4>1. emitted[s] \in Seq(Kind)
        BY <1>1, EngineTypes
      <4> QED
        BY <1>2, <3>2, <4>1, EmptySeq, LenProperties
    <3>4. t = Len(emitted[s])
      BY <1>1, <2>1, <3>1, <3>3 DEF CallOK, QueueOK
    <3> QED
      BY <3>1, <3>2, <3>3, <3>4
  <2> QED
    BY <1>2, <1>3, <1>5, <2>2, EndCallAllowed
<1> QED
  BY <1>4, <1>5

\* After the yield of an end marker the call ends normally; a client that left
\* gets CANCELLED.
LEMMA YieldCloses ==
  ASSUME EngineIInv, NEW s \in Stream, ServerYielded(s) \/ ServerAborted(s)
  PROVE  Promise!Close(s) \/ UNCHANGED Promise!abstractVars
<1>1. PICK t \in Nat : EngineTypeOK /\ CallOK(s, t)
  BY DEF EngineIInv
<1>2. UNCHANGED <<emitted, sent>>
  BY DEF ServerYielded, ServerAborted, ServerFrame
<1>3. result[s] = "Open"
  BY <1>1 DEF CallOK, ServerOK, ServerYielded, ServerAborted
<1>4. CASE ServerAborted(s)
  <2>1. EndCall(s, "CANCELLED") /\ "CANCELLED" \in Promise!MayEnd(s)
    BY <1>4 DEF ServerAborted, Promise!MayEnd
  <2> QED
    BY <1>2, <1>3, <2>1, EndCallAllowed
<1>5. CASE ServerYielded(s) /\ server[s] = "YieldingEnd"
  <2>1. EndCall(s, "OK")
    BY <1>5 DEF ServerYielded
  <2>2. Promise!EndSent(s)
    BY <1>1, <1>5, PromiseMeans DEF CallOK, ServerOK
  <2>3. "OK" \in Promise!MayEnd(s)
    BY <2>2 DEF Promise!MayEnd
  <2> QED
    BY <1>2, <1>3, <2>1, <2>3, EndCallAllowed
<1>6. CASE ServerYielded(s) /\ server[s] # "YieldingEnd"
  BY <1>2, <1>6 DEF ServerYielded, Promise!abstractVars
<1> QED
  BY <1>4, <1>5, <1>6

LEMMA EngineStepKeeps ==
  EngineIInv /\ [EngineNext]_engineVars => [Promise!AbstractNext]_Promise!abstractVars
<1> SUFFICES ASSUME EngineIInv, [EngineNext]_engineVars
             PROVE  Promise!AbstractNext \/ UNCHANGED Promise!abstractVars
  OBVIOUS
<1>1. CASE UNCHANGED engineVars
  BY <1>1 DEF engineVars, threadVars, serverVars, Promise!abstractVars
<1>2. CASE EngineNext
  <2>1. PICK s \in Stream : Step(s)
    BY <1>2 DEF EngineNext, Step
  <2>2. CASE ThreadEmit(s) \/ ThreadEnd(s) \/ ThreadFail(s) \/ PoolRejects(s)
    BY <2>2, ThreadProduces DEF Promise!AbstractNext
  <2>3. CASE ServerTake(s)
    BY <2>3, ServerDelivers DEF Promise!AbstractNext
  <2>4. CASE ServerSeesDone(s)
    BY <2>4, DoneCloses DEF Promise!AbstractNext
  <2>5. CASE ServerYielded(s) \/ ServerAborted(s)
    BY <2>5, YieldCloses DEF Promise!AbstractNext
  <2>6. CASE \/ ThreadStart(s) \/ ThreadStep(s) \/ ThreadFlush(s) \/ ThreadEmitted(s)
             \/ ThreadRaises(s) \/ PutReturns(s) \/ PutLands(s) \/ PutRevoked(s)
             \/ ServerBegin(s) \/ ServerClean(s) \/ ServerClosed(s) \/ ClientLeaves(s)
    <3>1. UNCHANGED <<emitted, sent, result>>
      BY <2>6 DEF ThreadStart, ThreadStep, ThreadFlush, ThreadEmitted, ThreadRaises, PutReturns,
         PutLands, PutRevoked, ServerBegin, ServerClean, ServerClosed, ClientLeaves,
         ThreadFrame, ServerFrame, threadVars, serverVars
    <3> QED
      BY <3>1 DEF Promise!abstractVars
  <2> QED
    BY <2>1, <2>2, <2>3, <2>4, <2>5, <2>6 DEF Step, Thread, Loop
<1> QED
  BY <1>1, <1>2

\* Every call keeps the promise of LineStream, whatever the capacity of the queue
\* and the size of the pool: the client sees the produced lines in order, without
\* gap or repetition, up to the first end marker; OK loses no line, and INTERNAL
\* comes after every line that preceded the failure.
THEOREM KeepsThePromise ==
  EngineSpec => KeepsPromise
<1>1. EngineInit => Promise!AbstractInit
  BY DEF EngineInit, Promise!AbstractInit
<1> QED
  BY <1>1, EngineInvariant, EngineStepKeeps, PTL
     DEF EngineSpec, KeepsPromise, Promise!AbstractSpec

-----------------------------------------------------------------------------
(* Admission of a match to the engine, for every set of requests and users *)

\* What is left to end match m.
Ender(m) ==
  \/ m \in stranded
  \/ request[m] = "Starting" \/ engine[m] = "Processing" \/ endMarker[m] = "Queued"

\* Nothing of a match exists beyond its row before the engine is asked to start it.
NotStarted ==
  \A m \in Match : request[m] \in {"Idle", "Creating", "Starting"} =>
    /\ engine[m] = "None" /\ endMarker[m] = "None"
    /\ ~persisted[m] /\ ~simulationId[m]

\* A match is named only after the engine has taken it.
NamedStarted ==
  \A m \in Match : simulationId[m] \/ request[m] \in {"Marking", "Naming"} =>
    engine[m] # "None"

\* While its request can still write the row back as live, a match that is not
\* persisted has an ender.
NamingHasEnder ==
  \A m \in Match : request[m] \in {"Marking", "Naming"} /\ ~persisted[m] => Ender(m)

RunIInv ==
  /\ EngineRunTypeOK
  /\ NotStarted
  /\ NamedStarted
  /\ NamingHasEnder
  /\ LiveHasEnder

LEMMA RunInit == EngineRunInit => RunIInv
  BY DEF EngineRunInit, RunIInv, EngineRunTypeOK, NotStarted, NamedStarted,
         NamingHasEnder, LiveHasEnder, RowStatus

\* A step of the request's handler.
LEMMA RequestStep ==
  ASSUME RunIInv, NEW m \in Match, Request(m)
  PROVE  RunIInv'
<1> USE DEF RunIInv, EngineRunTypeOK, NotStarted, NamedStarted, NamingHasEnder,
            LiveHasEnder, Ender, Goto, rowVars, RowStatus
<1>1. CASE Refuse(m)
  BY <1>1 DEF Refuse
<1>2. CASE CheckLive(m)
  BY <1>2 DEF CheckLive
<1>3. CASE CreateMatch(m)
  BY <1>3 DEF CreateMatch
<1>4. CASE StartEngine(m)
  BY <1>4 DEF StartEngine
<1>5. CASE StartFails(m)
  BY <1>5 DEF StartFails
<1>6. CASE MarkStarted(m)
  BY <1>6 DEF MarkStarted, SaveStatus
<1>7. CASE LeaveUnnamed(m)
  BY <1>7 DEF LeaveUnnamed
<1>8. CASE AssignSimulationId(m)
  BY <1>8 DEF AssignSimulationId
<1> QED
  BY <1>1, <1>2, <1>3, <1>4, <1>5, <1>6, <1>7, <1>8 DEF Request

\* A step of the engine's task.
LEMMA TaskStep ==
  ASSUME RunIInv, NEW m \in Match, Task(m)
  PROVE  RunIInv'
<1> USE DEF RunIInv, EngineRunTypeOK, NotStarted, NamedStarted, NamingHasEnder,
            LiveHasEnder, Ender, rowVars
<1>1. CASE PublishEvents(m)
  BY <1>1 DEF PublishEvents
<1>2. CASE CompleteSimulation(m)
  BY <1>2 DEF CompleteSimulation
<1>3. CASE ReportCompleted(m)
  BY <1>3 DEF ReportCompleted
<1>4. CASE FailSimulation(m)
  BY <1>4 DEF FailSimulation
<1>5. CASE EngineDies(m)
  BY <1>5 DEF EngineDies
<1> QED
  BY <1>1, <1>2, <1>3, <1>4, <1>5 DEF Task

\* The webhook, the polls and the flush.
LEMMA ReportStep ==
  ASSUME RunIInv, NEW m \in Match,
         ReceiveWebhook(m) \/ AskStatus(m) \/ SavePolledStatus(m) \/ AskResult(m) \/ FlushMatch(m)
  PROVE  RunIInv'
<1> USE DEF RunIInv, EngineRunTypeOK, NotStarted, NamedStarted, NamingHasEnder,
            LiveHasEnder, Ender, rowVars, RowStatus, EngineStatusName
<1>1. CASE ReceiveWebhook(m)
  BY <1>1 DEF ReceiveWebhook, SaveStatus
<1>2. CASE AskStatus(m)
  <2>1. EngineStatus(m) \in EngineStatusName
    BY <1>2 DEF AskStatus, EngineStatus
  <2> QED
    BY <1>2, <2>1 DEF AskStatus
<1>3. CASE SavePolledStatus(m)
  BY <1>3 DEF SavePolledStatus, SaveStatus
<1>4. CASE AskResult(m)
  BY <1>4 DEF AskResult, SaveStatus
<1>5. CASE FlushMatch(m)
  <2>1. CASE stranded' = stranded \cup {m} /\ UNCHANGED rowVars
    BY <1>5, <2>1 DEF FlushMatch
  <2>2. CASE /\ isLive' = [isLive EXCEPT ![m] = FALSE]
             /\ status' = [status EXCEPT ![m] = "Completed"]
             /\ persisted' = [persisted EXCEPT ![m] = TRUE]
             /\ UNCHANGED <<simulationId, stranded>>
    <3>1. EngineRunTypeOK'
      BY <1>5, <2>2 DEF FlushMatch
    <3>2. NotStarted' /\ NamedStarted'
      BY <1>5, <2>2 DEF FlushMatch
    <3>3. NamingHasEnder' /\ LiveHasEnder'
      BY <1>5, <2>2 DEF FlushMatch
    <3> QED
      BY <3>1, <3>2, <3>3
  <2> QED
    BY <1>5, <2>1, <2>2 DEF FlushMatch
<1> QED
  BY <1>1, <1>2, <1>3, <1>4, <1>5

LEMMA RunStep == RunIInv /\ [EngineRunNext]_engineRunVars => RunIInv'
<1> SUFFICES ASSUME RunIInv, [EngineRunNext]_engineRunVars PROVE RunIInv'
  OBVIOUS
<1>1. CASE EngineRunNext
  <2>1. PICK m \in Match :
          \/ Request(m) \/ Task(m)
          \/ ReceiveWebhook(m) \/ AskStatus(m) \/ SavePolledStatus(m) \/ AskResult(m)
          \/ FlushMatch(m)
    BY <1>1 DEF EngineRunNext
  <2> QED
    BY <2>1, RequestStep, TaskStep, ReportStep
<1>2. CASE UNCHANGED engineRunVars
  BY <1>2 DEF engineRunVars, rowVars, RunIInv, EngineRunTypeOK, NotStarted, NamedStarted,
              NamingHasEnder, LiveHasEnder, Ender
<1> QED
  BY <1>1, <1>2

LEMMA RunInvariant == EngineRunSpec => []RunIInv
  BY RunInit, RunStep, PTL DEF EngineRunSpec

\* The state is well typed, and a live match always has somebody to end it unless
\* the code lost it at a place that `stranded` counts.
THEOREM EngineRunSafe == EngineRunSpec => []EngineRunInv
<1>1. RunIInv => EngineRunInv
  BY DEF RunIInv, EngineRunInv
<1> QED
  BY <1>1, RunInvariant, PTL

\* Only its own request, still naming it, makes a persisted match live again.
THEOREM PersistedStaysEnded == EngineRunSpec => EndedStaysEnded
<1> DEFINE Stays ==
      \A m \in Match :
        /\ persisted[m] => persisted'[m]
        /\ simulationId[m] => simulationId'[m]
        /\ persisted[m] /\ ~isLive[m] => ~isLive'[m] \/ request[m] = "Naming"
<1>1. ASSUME RunIInv, EngineRunNext PROVE Stays
  <2>1. PICK m \in Match :
          \/ Request(m) \/ Task(m)
          \/ ReceiveWebhook(m) \/ AskStatus(m) \/ SavePolledStatus(m) \/ AskResult(m)
          \/ FlushMatch(m)
    BY <1>1 DEF EngineRunNext
  <2>2. CASE UNCHANGED <<isLive, simulationId, persisted>>
    BY <2>2
  <2>3. CASE CreateMatch(m)
    BY <1>1, <2>3 DEF CreateMatch, Goto, RunIInv, EngineRunTypeOK, NotStarted
  <2>4. CASE AssignSimulationId(m)
    BY <1>1, <2>4 DEF AssignSimulationId, Goto, RunIInv, EngineRunTypeOK
  <2>5. CASE FlushMatch(m)
    BY <1>1, <2>5 DEF FlushMatch, rowVars, RunIInv, EngineRunTypeOK
  <2>6. CASE Request(m)
    BY <2>2, <2>3, <2>4, <2>6 DEF Request, Refuse, CheckLive, StartEngine, StartFails,
         MarkStarted, LeaveUnnamed, SaveStatus, rowVars
  <2>7. CASE Task(m)
    BY <2>2, <2>7 DEF Task, PublishEvents, CompleteSimulation, ReportCompleted,
         FailSimulation, EngineDies, rowVars
  <2>8. CASE ReceiveWebhook(m) \/ AskStatus(m) \/ SavePolledStatus(m) \/ AskResult(m)
    BY <2>2, <2>8 DEF ReceiveWebhook, AskStatus, SavePolledStatus, AskResult, SaveStatus, rowVars
  <2> QED
    BY <2>1, <2>5, <2>6, <2>7, <2>8
<1>2. ASSUME UNCHANGED engineRunVars PROVE Stays
  BY <1>2 DEF engineRunVars, rowVars
<1>3. RunIInv /\ [EngineRunNext]_engineRunVars => [Stays]_engineRunVars
  BY <1>1, <1>2
<1> QED
  BY <1>3, RunInvariant, PTL DEF EngineRunSpec, EndedStaysEnded
=============================================================================
