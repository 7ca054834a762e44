---------------------------- MODULE EngineStream ----------------------------
(***************************************************************************)
(* The engine's side of a gRPC match stream.  A generator function runs in *)
(* a thread of a bounded pool and hands lines to the event loop through    *)
(* put_from_thread, which schedules a put on a bounded asyncio.Queue and   *)
(* polls its future and a cancel event.  The servicer's coroutine          *)
(* (StartMatchSimulationStream) reads the queue and yields to the client,  *)
(* which may go away at any time.                                          *)
(*                                                                         *)
(* Lines are abstracted to their kind; the position of a line in the       *)
(* history `emitted` is its identity.                                      *)
(***************************************************************************)
EXTENDS Naturals, Sequences, FiniteSets

CONSTANTS
  Stream,     \* concurrent calls
  Capacity,   \* maxsize of the asyncio.Queue
  PoolSize,   \* threads of generation_pool
  MaxSteps,   \* bound: generation steps (model.generate calls) of each call
  Chunk       \* sequences of lines one step, or the final flush, can complete

ASSUME EngineAssumption ==
  /\ IsFiniteSet(Stream)
  /\ Capacity \in Nat \ {0}
  /\ PoolSize \in Nat \ {0}
  /\ MaxSteps \in [Stream -> Nat]
  /\ Chunk \subseteq Seq({"line", "skip", "end"})
  /\ <<>> \in Chunk

VARIABLES
  queue,    \* the asyncio.Queue: positions in emitted
  emitted,  \* history: what the generator thread handed to put_from_thread
  putting,  \* the scheduled put: "none", "pending", "landed" or "revoked"
  worker,   \* where the generator thread is
  chunk,    \* lines of the current step still to be emitted
  steps,    \* generation steps the thread may still take
  server,   \* where the servicer's coroutine is
  cancel,   \* cancel_event
  gone,     \* the client has disconnected
  sent,     \* positions in emitted of the lines yielded to the client
  result    \* "Open", "OK", "INTERNAL" or "CANCELLED"

threadVars == <<emitted, worker, chunk, steps>>
serverVars == <<server, sent, result>>
engineVars == <<queue, putting, threadVars, serverVars, cancel, gone>>

PutState == {"none", "pending", "landed", "revoked"}
WorkerPoint == {"Unborn", "Pooled", "Stepping", "Emitting", "Flushing",
                "EmittingLast", "Ending", "Failing", "Done", "Rejected"}
ServerPoint == {"Created", "Reading", "Yielding", "YieldingEnd", "Cleaning",
                "Waiting", "Closed"}
Result == {"Open", "OK", "INTERNAL", "CANCELLED"}

EngineTypeOK ==
  /\ queue \in [Stream -> Seq(Nat \ {0})]
  /\ emitted \in [Stream -> Seq({"line", "skip", "end", "eos", "fail"})]
  /\ putting \in [Stream -> PutState]
  /\ worker \in [Stream -> WorkerPoint]
  /\ chunk \in [Stream -> Seq({"line", "skip", "end"})]
  /\ steps \in [Stream -> Nat] /\ \A s \in Stream : steps[s] <= MaxSteps[s]
  /\ server \in [Stream -> ServerPoint]
  /\ cancel \in [Stream -> BOOLEAN]
  /\ gone \in [Stream -> BOOLEAN]
  /\ sent \in [Stream -> Seq(Nat \ {0})]
  /\ result \in [Stream -> Result]

-----------------------------------------------------------------------------
(* put_from_thread *)

\* The thread hands over item k and goes to `next`; with the cancel event set
\* put_from_thread returns False at once and the thread goes on just the same.
PutFromThread(s, k, next) ==
  /\ putting[s] \in {"none", "revoked"}
  /\ worker' = [worker EXCEPT ![s] = next]
  /\ IF cancel[s]
     THEN UNCHANGED <<emitted, putting>>
     ELSE /\ emitted' = [emitted EXCEPT ![s] = Append(@, k)]
          /\ putting' = [putting EXCEPT ![s] = "pending"]

\* Wrong: the queue has no maxsize.
PutUnbounded(s) ==
  /\ putting[s] \in {"pending", "revoked"}
  /\ queue' = [queue EXCEPT ![s] = Append(@, Len(emitted[s]))]
  /\ putting' = [putting EXCEPT ![s] = IF @ = "pending" THEN "landed" ELSE "none"]
  /\ UNCHANGED <<threadVars, serverVars, cancel, gone>>

\* The loop runs queue.put; it may still win over a cancellation under way.
PutLands(s) ==
  /\ putting[s] \in {"pending", "revoked"}
  /\ Len(queue[s]) < Capacity
  /\ queue' = [queue EXCEPT ![s] = Append(@, Len(emitted[s]))]
  /\ putting' = [putting EXCEPT ![s] = IF @ = "pending" THEN "landed" ELSE "none"]
  /\ UNCHANGED <<threadVars, serverVars, cancel, gone>>

\* Wrong: a put blocked on a full queue does not look at the cancel event.
PutIgnoresCancel(s) ==
  /\ putting[s] = "landed"
  /\ putting' = [putting EXCEPT ![s] = "none"]
  /\ UNCHANGED <<queue, threadVars, serverVars, cancel, gone>>

\* future.result returns, or it has timed out and the cancel event is set.
PutReturns(s) ==
  /\ \/ putting[s] = "landed" /\ putting' = [putting EXCEPT ![s] = "none"]
     \/ putting[s] = "pending" /\ cancel[s]
          /\ putting' = [putting EXCEPT ![s] = "revoked"]
  /\ UNCHANGED <<queue, threadVars, serverVars, cancel, gone>>

\* The loop processes future.cancel().
PutRevoked(s) ==
  /\ putting[s] = "revoked"
  /\ putting' = [putting EXCEPT ![s] = "none"]
  /\ UNCHANGED <<queue, threadVars, serverVars, cancel, gone>>

-----------------------------------------------------------------------------
(* generate_and_stream_worker *)

\* gen_task is done: it raised, or the thread has returned from its last put.
GenDone(s) == worker[s] \in {"Done", "Rejected"} /\ putting[s] \in {"none", "revoked"}

\* The calls that occupy a thread of the pool.
Busy == {s \in Stream : worker[s] \notin {"Unborn", "Pooled"} /\ ~GenDone(s)}

\* The thread is not inside put_from_thread.
Running(s, point) == worker[s] = point /\ putting[s] \in {"none", "revoked"}

ThreadFrame == UNCHANGED <<serverVars, cancel, gone>>

ThreadStart(s) ==
  /\ worker[s] = "Pooled"
  /\ Cardinality(Busy) < PoolSize
  /\ worker' = [worker EXCEPT ![s] = "Stepping"]
  /\ ThreadFrame /\ UNCHANGED <<queue, putting, emitted, chunk, steps>>

\* The pool is shut down by the service's cleanup: run_in_executor raises, and
\* the generator task with it.
PoolRejects(s) ==
  /\ worker[s] = "Pooled"
  /\ worker' = [worker EXCEPT ![s] = "Rejected"]
  /\ emitted' = [emitted EXCEPT ![s] = Append(@, "fail")]
  /\ ThreadFrame /\ UNCHANGED <<queue, putting, chunk, steps>>

\* Wrong: the loop goes on when its token budget is used up.
StepWithoutBudget(s) ==
  /\ Running(s, "Stepping")
  /\ IF ~cancel[s]
     THEN \E c \in Chunk :
            /\ chunk' = [chunk EXCEPT ![s] = c]
            /\ steps' = [steps EXCEPT ![s] = @ - 1]
            /\ worker' = [worker EXCEPT ![s] = "Emitting"]
     ELSE worker' = [worker EXCEPT ![s] = "Flushing"] /\ UNCHANGED <<chunk, steps>>
  /\ ThreadFrame /\ UNCHANGED <<queue, putting, emitted>>

\* One pass of the while loop.  A step whose text contains the end marker is
\* the last one.
ThreadStep(s) ==
  /\ Running(s, "Stepping")
  /\ IF steps[s] > 0 /\ ~cancel[s]
     THEN \E c \in Chunk :
            /\ chunk' = [chunk EXCEPT ![s] = c]
            /\ steps' = [steps EXCEPT ![s] =
                           IF \E i \in DOMAIN c : c[i] = "end" THEN 0 ELSE @ - 1]
            /\ worker' = [worker EXCEPT ![s] = "Emitting"]
     ELSE worker' = [worker EXCEPT ![s] = "Flushing"] /\ UNCHANGED <<chunk, steps>>
  /\ ThreadFrame /\ UNCHANGED <<queue, putting, emitted>>

\* The unterminated last line, unless the stream is cancelled.
ThreadFlush(s) ==
  /\ Running(s, "Flushing")
  /\ \E c \in {d \in Chunk : Len(d) <= 1} :
       /\ cancel[s] => c = <<>>
       /\ chunk' = [chunk EXCEPT ![s] = c]
  /\ worker' = [worker EXCEPT ![s] = "EmittingLast"]
  /\ ThreadFrame /\ UNCHANGED <<queue, putting, emitted, steps>>

ThreadEmit(s) ==
  /\ worker[s] \in {"Emitting", "EmittingLast"}
  /\ chunk[s] # <<>>
  /\ PutFromThread(s, Head(chunk[s]), worker[s])
  /\ chunk' = [chunk EXCEPT ![s] = Tail(@)]
  /\ ThreadFrame /\ UNCHANGED <<queue, steps>>

ThreadEmitted(s) ==
  /\ worker[s] \in {"Emitting", "EmittingLast"}
  /\ putting[s] \in {"none", "revoked"}
  /\ chunk[s] = <<>>
  /\ worker' = [worker EXCEPT ![s] = IF @ = "Emitting" THEN "Stepping" ELSE "Ending"]
  /\ ThreadFrame /\ UNCHANGED <<queue, putting, emitted, chunk, steps>>

\* emit_line(None)
ThreadEnd(s) ==
  /\ worker[s] = "Ending"
  /\ PutFromThread(s, "eos", "Done")
  /\ ThreadFrame /\ UNCHANGED <<queue, chunk, steps>>

\* Feature generation, the model or the decoding of a line raises.
ThreadRaises(s) ==
  /\ \E p \in {"Stepping", "Emitting", "Flushing", "EmittingLast"} : Running(s, p)
  /\ worker' = [worker EXCEPT ![s] = "Failing"]
  /\ chunk' = [chunk EXCEPT ![s] = <<>>]
  /\ ThreadFrame /\ UNCHANGED <<queue, putting, emitted, steps>>

\* The except clause puts a StreamFailure.
ThreadFail(s) ==
  /\ worker[s] = "Failing"
  /\ PutFromThread(s, "fail", "Done")
  /\ ThreadFrame /\ UNCHANGED <<queue, chunk, steps>>

Thread(s) ==
  \/ ThreadStart(s) \/ ThreadStep(s) \/ ThreadFlush(s) \/ ThreadEmit(s)
  \/ ThreadEmitted(s) \/ ThreadEnd(s) \/ ThreadRaises(s) \/ ThreadFail(s)
  \/ PutReturns(s)

-----------------------------------------------------------------------------
(* StartMatchSimulationStream *)

ServerFrame == UNCHANGED <<putting, emitted, chunk, steps, gone>>

\* The first yield returns and the generator task is created.
ServerBegin(s) ==
  /\ server[s] = "Created" /\ ~gone[s]
  /\ server' = [server EXCEPT ![s] = "Reading"]
  /\ worker' = [worker EXCEPT ![s] = "Pooled"]
  /\ ServerFrame /\ UNCHANGED <<queue, cancel, sent, result>>

EndCall(s, r) ==
  /\ server' = [server EXCEPT ![s] = "Cleaning"]
  /\ result' = [result EXCEPT ![s] = IF gone[s] THEN "CANCELLED" ELSE r]

ServerTake(s) ==
  /\ server[s] = "Reading"
  /\ queue[s] # <<>>
  /\ queue' = [queue EXCEPT ![s] = Tail(@)]
  /\ LET i == Head(queue[s])
         k == emitted[s][i]
     IN \/ /\ k \in {"line", "end"}
           /\ sent' = [sent EXCEPT ![s] = Append(@, i)]
           /\ server' = [server EXCEPT ![s] = IF k = "end" THEN "YieldingEnd" ELSE "Yielding"]
           /\ UNCHANGED <<result, cancel>>
        \/ k = "skip" /\ UNCHANGED <<serverVars, cancel>>
        \/ k = "eos" /\ EndCall(s, "OK") /\ UNCHANGED <<sent, cancel>>
        \/ /\ k = "fail" /\ EndCall(s, "INTERNAL")
           /\ cancel' = [cancel EXCEPT ![s] = TRUE]
           /\ UNCHANGED sent
  /\ ServerFrame /\ UNCHANGED worker

\* Wrong: the generator's end is taken for the end of the stream while lines
\* are still queued.
DoneDespiteQueue(s) ==
  /\ server[s] = "Reading"
  /\ GenDone(s)
  /\ EndCall(s, "OK")
  /\ ServerFrame /\ UNCHANGED <<queue, worker, cancel, sent>>

\* The generator task is done and the queue is empty; its exception is the
\* call's.
ServerSeesDone(s) ==
  /\ server[s] = "Reading"
  /\ queue[s] = <<>>
  /\ GenDone(s)
  /\ EndCall(s, IF worker[s] = "Rejected" THEN "INTERNAL" ELSE "OK")
  /\ ServerFrame /\ UNCHANGED <<queue, worker, cancel, sent>>

\* The client has taken the yielded line.
ServerYielded(s) ==
  /\ ~gone[s]
  /\ \/ /\ server[s] = "Yielding"
        /\ server' = [server EXCEPT ![s] = "Reading"]
        /\ UNCHANGED result
     \/ server[s] = "YieldingEnd" /\ EndCall(s, "OK")
  /\ ServerFrame /\ UNCHANGED <<queue, worker, cancel, sent>>

\* The coroutine is cancelled, or notices that the context is done.
ServerAborted(s) ==
  /\ gone[s]
  /\ server[s] \in {"Created", "Reading", "Yielding", "YieldingEnd"}
  /\ EndCall(s, "CANCELLED")
  /\ ServerFrame /\ UNCHANGED <<queue, worker, cancel, sent>>

\* Wrong: the clean-up leaves the generator running.
CleanWithoutCancel(s) ==
  /\ server[s] = "Cleaning"
  /\ server' = [server EXCEPT ![s] = "Waiting"]
  /\ ServerFrame /\ UNCHANGED <<queue, worker, cancel, sent, result>>

\* finally: set the cancel event, wait up to 5 s for the generator task.
ServerClean(s) ==
  /\ server[s] = "Cleaning"
  /\ server' = [server EXCEPT ![s] = "Waiting"]
  /\ cancel' = [cancel EXCEPT ![s] = TRUE]
  /\ ServerFrame /\ UNCHANGED <<queue, worker, sent, result>>

ServerClosed(s) ==
  /\ server[s] = "Waiting"
  /\ server' = [server EXCEPT ![s] = "Closed"]
  /\ ServerFrame /\ UNCHANGED <<queue, worker, cancel, sent, result>>

Loop(s) ==
  \/ ServerBegin(s) \/ ServerTake(s) \/ ServerSeesDone(s) \/ ServerYielded(s)
  \/ ServerAborted(s) \/ ServerClean(s) \/ ServerClosed(s)

\* The client disconnects; the context's done callback sets the cancel event.
ClientLeaves(s) ==
  /\ ~gone[s] /\ server[s] # "Closed"
  /\ gone' = [gone EXCEPT ![s] = TRUE]
  /\ cancel' = [cancel EXCEPT ![s] = TRUE]
  /\ UNCHANGED <<queue, putting, threadVars, serverVars>>

-----------------------------------------------------------------------------
EngineInit ==
  /\ queue = [s \in Stream |-> <<>>]
  /\ emitted = [s \in Stream |-> <<>>]
  /\ putting = [s \in Stream |-> "none"]
  /\ worker = [s \in Stream |-> "Unborn"]
  /\ chunk = [s \in Stream |-> <<>>]
  /\ steps = MaxSteps
  /\ server = [s \in Stream |-> "Created"]
  /\ cancel = [s \in Stream |-> FALSE]
  /\ gone = [s \in Stream |-> FALSE]
  /\ sent = [s \in Stream |-> <<>>]
  /\ result = [s \in Stream |-> "Open"]

EngineNext ==
  \E s \in Stream :
    \/ Thread(s) \/ PoolRejects(s) \/ PutLands(s) \/ PutRevoked(s)
    \/ Loop(s) \/ ClientLeaves(s)

EngineSpec == EngineInit /\ [][EngineNext]_engineVars

\* The loop and the threads are scheduled and a connected client reads what is
\* yielded.  Nobody is obliged to disconnect, or to shut the pool down.
EngineFairness ==
  \A s \in Stream :
    /\ WF_engineVars(Thread(s))
    /\ WF_engineVars(PutLands(s))
    /\ WF_engineVars(PutRevoked(s))
    /\ WF_engineVars(Loop(s))

EngineFairSpec == EngineSpec /\ EngineFairness

-----------------------------------------------------------------------------
(* Properties *)

Promise == INSTANCE LineStream WITH produced <- emitted

\* Each call keeps the promise of LineStream: lines in order, without gap or
\* repetition, up to the first end marker; a normal end loses no line; a failure
\* of the generator is an INTERNAL error after every line that preceded it.
KeepsPromise == Promise!AbstractSpec

\* The generator thread is never more than the queue, the put in flight and the
\* line being yielded ahead of what the client has taken: backpressure reaches
\* across the thread boundary (the bounded queue of put_from_thread).
EngineInv ==
  /\ EngineTypeOK
  /\ \A s \in Stream :
       Len(emitted[s]) - (IF sent[s] = <<>> THEN 0 ELSE sent[s][Len(sent[s])])
         <= Capacity + 1 + Cardinality({i \in DOMAIN emitted[s] : emitted[s][i] = "skip"})

\* Every call ends, also one that waits for a thread of the pool; and however a
\* call ends, even blocked on a full queue nobody reads, its thread returns to
\* the pool (the cancel event that put_from_thread polls).
CallsSettle ==
  \A s \in Stream :
    /\ <>(server[s] = "Closed")
    /\ cancel[s] ~> (worker[s] = "Unborn" \/ GenDone(s))
=============================================================================
