-------------------------- MODULE MatchStreamWorker --------------------------
(***************************************************************************)
(* The dispatcher of Pipeline B.  Requests wait in a bounded channel       *)
(* (MatchStreamingQueue); one worker loop (MatchStreamWorker.ExecuteAsync) *)
(* takes them in order, acquires a semaphore permit for each and starts a  *)
(* stream task (RunStreamAsync) that moves the match row of the database   *)
(* (MatchStreamLifecycle) from "Queued" to "In Progress" and on to a final *)
(* status.  Every await between two accesses to shared state is a step     *)
(* boundary, so a row read by one task can change before that task saves.  *)
(*                                                                         *)
(* Database faults are injected by the constant MaxFaults: an operation    *)
(* that throws, or a save that commits and still throws.                   *)
(***************************************************************************)
EXTENDS Naturals, Sequences, FiniteSets

CONSTANTS
  Match,        \* matches (rows of the Matches table)
  NoMatch,      \* the null request
  Capacity,     \* capacity of the channel
  MaxStreams,   \* EventIngestionOptions.MaxConcurrentStreams
  MaxAccepted,  \* bound: requests accepted by the channel per match
  MaxFaults     \* bound: database faults in one behaviour

ASSUME WorkerAssumption ==
  /\ IsFiniteSet(Match)
  /\ NoMatch \notin Match
  /\ Capacity \in Nat \ {0}
  /\ MaxStreams \in Nat \ {0}
  /\ MaxAccepted \in Nat
  /\ MaxFaults \in Nat

VARIABLES
  status,    \* MatchStatus column
  isLive,    \* IsLive column
  chan,      \* the channel's items, oldest first
  closed,    \* the channel's writer is completed
  stopping,  \* stoppingToken is cancelled
  pc,        \* where the worker loop is
  pending,   \* the request the worker has in hand
  permits,   \* SemaphoreSlim.CurrentCount
  active,    \* keys of _activeStreams
  stream,    \* where the stream task of each match is
  accepted,  \* history: how often the channel accepted a request for the match
  faults     \* database faults so far

rows   == <<status, isLive>>
queueVars == <<chan, closed>>
workerVars == <<rows, queueVars, stopping, pc, pending, permits, active,
                stream, accepted, faults>>

-----------------------------------------------------------------------------
(* Statuses and program points *)

RowStatus == {"None", "Queued", "In Progress", "Completed", "Truncated", "Failed"}
Final == {"Completed", "Truncated", "Failed"}

\* The worker loop.  The first three are the body of `await foreach`, the
\* others its finally block.
WorkerPoint == {"Reading", "Acquiring", "Admitting",
                "Closing", "Checking", "Clearing", "ClearingSave",
                "Draining", "Waiting", "Stopped"}
Finalizing == {"Checking", "Clearing", "ClearingSave", "Draining", "Waiting", "Stopped"}

\* A stream task: "Idle" before it is dispatched and after it has retired.
StreamPoint == {"Idle", "Starting", "StartSaving", "Consuming", "Flushing",
                "Failing", "FailSaving", "Releasing", "Retiring"}
\* Points at which the task still owns a permit.
Holding == StreamPoint \ {"Idle", "Retiring"}

WorkerTypeOK ==
  /\ status \in [Match -> RowStatus]
  /\ isLive \in [Match -> BOOLEAN]
  /\ chan \in Seq(Match)
  /\ closed \in BOOLEAN
  /\ stopping \in BOOLEAN
  /\ pc \in WorkerPoint
  /\ pending \in Match \cup {NoMatch}
  /\ permits \in 0 .. MaxStreams
  /\ active \in SUBSET Match
  /\ stream \in [Match -> StreamPoint]
  /\ accepted \in [Match -> Nat]
  /\ faults \in Nat

-----------------------------------------------------------------------------
(* The queue, as its callers see it *)

\* Channel.Writer.TryWrite succeeds.
CanEnqueue == ~closed /\ Len(chan) < Capacity

TryEnqueue(m) ==
  /\ CanEnqueue
  /\ chan' = Append(chan, m)
  /\ accepted' = [accepted EXCEPT ![m] = @ + 1]

\* A caller of IMatchStreamingQueue: any match whose row exists, and the same
\* match again while an earlier request for it is waiting or running.
Submit(m) ==
  /\ status[m] # "None"
  /\ accepted[m] < MaxAccepted
  /\ TryEnqueue(m)
  /\ UNCHANGED <<rows, closed, stopping, pc, pending, permits, active, stream, faults>>

\* StopAsync: the channel is completed before the stopping token is cancelled.
StopComplete ==
  /\ ~closed
  /\ closed' = TRUE
  /\ UNCHANGED <<rows, chan, stopping, pc, pending, permits, active, stream,
                 accepted, faults>>

StopCancel ==
  /\ closed /\ ~stopping
  /\ stopping' = TRUE
  /\ UNCHANGED <<rows, queueVars, pc, pending, permits, active, stream,
                 accepted, faults>>

-----------------------------------------------------------------------------
(* MatchStreamLifecycle: each operation reads the row, then saves it *)

Fault == faults < MaxFaults /\ faults' = faults + 1

SetRow(m, s, live) ==
  /\ status' = [status EXCEPT ![m] = s]
  /\ isLive' = [isLive EXCEPT ![m] = live]

\* A save that must not throw, one that throws, one that commits and throws.
Saved(m, s, live)     == SetRow(m, s, live) /\ UNCHANGED faults
SaveThrows            == Fault /\ UNCHANGED rows
SavedButThrows(m, s, live) == SetRow(m, s, live) /\ Fault

-----------------------------------------------------------------------------
(* ExecuteAsync *)

WorkerRead ==
  /\ pc = "Reading"
  /\ chan # <<>>
  /\ pending' = Head(chan)
  /\ chan' = Tail(chan)
  /\ pc' = "Acquiring"
  /\ UNCHANGED <<rows, closed, stopping, permits, active, stream, accepted, faults>>

\* The enumeration ends: cancelled, or completed and empty.
WorkerReadEnds ==
  /\ pc = "Reading"
  /\ stopping \/ (closed /\ chan = <<>>)
  /\ pc' = "Closing"
  /\ UNCHANGED <<rows, queueVars, stopping, pending, permits, active, stream,
                 accepted, faults>>

WorkerAcquire ==
  /\ pc = "Acquiring"
  /\ ~stopping
  /\ permits > 0
  /\ permits' = permits - 1
  /\ pc' = "Admitting"
  /\ UNCHANGED <<rows, queueVars, stopping, pending, active, stream, accepted, faults>>

\* semaphore.WaitAsync(stoppingToken) throws; the request stays in hand.
WorkerAcquireCancelled ==
  /\ pc = "Acquiring"
  /\ stopping
  /\ pc' = "Closing"
  /\ UNCHANGED <<rows, queueVars, stopping, pending, permits, active, stream,
                 accepted, faults>>

\* Wrong: a skipped duplicate keeps its permit.
SkipDuplicateLeaksPermit ==
  /\ pc = "Admitting"
  /\ pending \in active
  /\ pending' = NoMatch
  /\ pc' = "Reading"
  /\ UNCHANGED <<rows, queueVars, stopping, permits, active, stream, accepted, faults>>

WorkerSkipDuplicate ==
  /\ pc = "Admitting"
  /\ pending \in active
  /\ permits' = permits + 1
  /\ pending' = NoMatch
  /\ pc' = "Reading"
  /\ UNCHANGED <<rows, queueVars, stopping, active, stream, accepted, faults>>

WorkerDispatch ==
  /\ pc = "Admitting"
  /\ pending \notin active
  /\ active' = active \cup {pending}
  /\ stream' = [stream EXCEPT ![pending] = "Starting"]
  /\ pending' = NoMatch
  /\ pc' = "Reading"
  /\ UNCHANGED <<rows, queueVars, stopping, permits, accepted, faults>>

\* The finally block completes the channel, then fails the request in hand...
WorkerClose ==
  /\ pc = "Closing"
  /\ closed' = TRUE
  /\ pc' = "Checking"
  /\ UNCHANGED <<rows, chan, stopping, pending, permits, active, stream,
                 accepted, faults>>

\* Wrong: the request that was waiting for a permit is forgotten.
ForgetPending ==
  /\ pc = "Checking"
  /\ pc' = "Draining"
  /\ UNCHANGED <<rows, queueVars, stopping, pending, permits, active, stream,
                 accepted, faults>>

WorkerCheckPending ==
  /\ pc = "Checking"
  /\ pc' = IF pending # NoMatch /\ pending \notin active
           THEN "Clearing" ELSE "Draining"
  /\ UNCHANGED <<rows, queueVars, stopping, pending, permits, active, stream,
                 accepted, faults>>

\* ... FailQueuedAsync: a row that is not queued is left alone, an exception is
\* logged and swallowed ...
WorkerClear ==
  /\ pc = "Clearing"
  /\ \/ /\ pc' = IF status[pending] = "Queued" THEN "ClearingSave" ELSE "Draining"
        /\ UNCHANGED faults
     \/ pc' = "Draining" /\ Fault
  /\ UNCHANGED <<rows, queueVars, stopping, pending, permits, active, stream, accepted>>

WorkerClearSave ==
  /\ pc = "ClearingSave"
  /\ pc' = "Draining"
  /\ \/ Saved(pending, "Failed", FALSE)
     \/ SaveThrows
     \/ SavedButThrows(pending, "Failed", FALSE)
  /\ UNCHANGED <<queueVars, stopping, pending, permits, active, stream, accepted>>

\* ... fails what is left in the channel, except requests of a running match ...
\* Wrong: a duplicate of a running match is failed like any other request.
DrainIgnoresActive ==
  /\ pc = "Draining"
  /\ chan # <<>>
  /\ chan' = Tail(chan)
  /\ pending' = Head(chan)
  /\ pc' = "Clearing"
  /\ UNCHANGED <<rows, closed, stopping, permits, active, stream, accepted, faults>>

WorkerDrain ==
  /\ pc = "Draining"
  /\ chan # <<>>
  /\ chan' = Tail(chan)
  /\ pending' = Head(chan)
  /\ pc' = IF Head(chan) \notin active THEN "Clearing" ELSE "Draining"
  /\ UNCHANGED <<rows, closed, stopping, permits, active, stream, accepted, faults>>

WorkerDrained ==
  /\ pc = "Draining"
  /\ chan = <<>>
  /\ pc' = "Waiting"
  /\ pending' = NoMatch
  /\ UNCHANGED <<rows, queueVars, stopping, permits, active, stream, accepted, faults>>

\* ... and returns, disposing of the semaphore, when every stream has retired.
\* Wrong: the worker returns, and disposes of the semaphore, with streams running.
StopWithoutWaiting ==
  /\ pc = "Waiting"
  /\ pc' = "Stopped"
  /\ UNCHANGED <<rows, queueVars, stopping, pending, permits, active, stream,
                 accepted, faults>>

WorkerStopped ==
  /\ pc = "Waiting"
  /\ active = {}
  /\ pc' = "Stopped"
  /\ UNCHANGED <<rows, queueVars, stopping, pending, permits, active, stream,
                 accepted, faults>>

WorkerLoop ==
  \/ WorkerRead \/ WorkerReadEnds \/ WorkerAcquire \/ WorkerAcquireCancelled
  \/ WorkerSkipDuplicate \/ WorkerDispatch
  \/ WorkerClose \/ WorkerCheckPending \/ WorkerClear \/ WorkerClearSave
  \/ WorkerDrain \/ WorkerDrained \/ WorkerStopped

-----------------------------------------------------------------------------
(* RunStreamAsync *)

Goto(m, from, to) ==
  /\ stream[m] = from
  /\ stream' = [stream EXCEPT ![m] = to]

\* Everything but the row, the faults and the task itself.
StreamFrame == UNCHANGED <<queueVars, stopping, pc, pending, permits, active, accepted>>

\* The token is already cancelled, the row is not queued, or the read throws:
\* TryStartAsync does not start the stream.
StreamNotStarted(m) ==
  /\ Goto(m, "Starting", "Failing")
  /\ \/ (stopping \/ status[m] # "Queued") /\ UNCHANGED faults
     \/ Fault
  /\ StreamFrame /\ UNCHANGED rows

\* Wrong: a row is started whatever its status.
StartWithoutCheck(m) ==
  /\ Goto(m, "Starting", "StartSaving")
  /\ StreamFrame /\ UNCHANGED <<rows, faults>>

StreamSawQueued(m) ==
  /\ Goto(m, "Starting", "StartSaving")
  /\ status[m] = "Queued"
  /\ StreamFrame /\ UNCHANGED <<rows, faults>>

StreamStarted(m) ==
  /\ Goto(m, "StartSaving", "Consuming")
  /\ Saved(m, "In Progress", isLive[m])
  /\ StreamFrame

\* SaveChangesAsync(stoppingToken) throws: cancelled, or a fault.
StreamStartThrows(m) ==
  /\ Goto(m, "StartSaving", "Failing")
  /\ \/ stopping /\ UNCHANGED <<rows, faults>>
     \/ SaveThrows
     \/ SavedButThrows(m, "In Progress", isLive[m])
  /\ StreamFrame

\* The consumer stops reading: end marker, end of stream, error or cancellation.
StreamEnds(m) ==
  /\ Goto(m, "Consuming", "Flushing")
  /\ StreamFrame /\ UNCHANGED <<rows, faults>>

\* FlushAndPersistMatchAsync; when it throws the consumer rethrows and the
\* stream task logs.
StreamFlush(m) ==
  /\ Goto(m, "Flushing", "Releasing")
  /\ \/ \E s \in {"Completed", "Truncated"} :
           Saved(m, s, FALSE) \/ SavedButThrows(m, s, FALSE)
     \/ SaveThrows
  /\ StreamFrame

\* finally: a stream that never started fails its row if it is still queued.
StreamFail(m) ==
  /\ stream[m] = "Failing"
  /\ \/ /\ stream' = [stream EXCEPT ![m] =
                        IF status[m] = "Queued" THEN "FailSaving" ELSE "Releasing"]
        /\ UNCHANGED faults
     \/ stream' = [stream EXCEPT ![m] = "Releasing"] /\ Fault
  /\ StreamFrame /\ UNCHANGED rows

StreamFailSave(m) ==
  /\ Goto(m, "FailSaving", "Releasing")
  /\ \/ Saved(m, "Failed", FALSE)
     \/ SaveThrows
     \/ SavedButThrows(m, "Failed", FALSE)
  /\ StreamFrame

StreamRelease(m) ==
  /\ Goto(m, "Releasing", "Retiring")
  /\ permits' = permits + 1
  /\ UNCHANGED <<rows, queueVars, stopping, pc, pending, active, accepted, faults>>

\* Wrong: the permit is released a second time.
RetireTwice(m) ==
  /\ Goto(m, "Retiring", "Idle")
  /\ active' = active \ {m}
  /\ permits' = permits + 1
  /\ UNCHANGED <<rows, queueVars, stopping, pc, pending, accepted, faults>>

\* Wrong: the finished stream stays in _activeStreams.
RetireKeepsEntry(m) ==
  /\ Goto(m, "Retiring", "Idle")
  /\ UNCHANGED <<rows, queueVars, stopping, pc, pending, permits, active, accepted, faults>>

\* TryRemove and, in the next statement, the completion the worker waits for.
StreamRetire(m) ==
  /\ Goto(m, "Retiring", "Idle")
  /\ active' = active \ {m}
  /\ UNCHANGED <<rows, queueVars, stopping, pc, pending, permits, accepted, faults>>

RunStream(m) ==
  \/ StreamNotStarted(m) \/ StreamSawQueued(m) \/ StreamStarted(m)
  \/ StreamStartThrows(m) \/ StreamEnds(m) \/ StreamFlush(m)
  \/ StreamFail(m) \/ StreamFailSave(m) \/ StreamRelease(m) \/ StreamRetire(m)

-----------------------------------------------------------------------------
\* The service as the queue's interface allows it to be used: every row is a
\* queued live match and Submit may repeat a match.
WorkerStart ==
  /\ chan = <<>> /\ closed = FALSE /\ stopping = FALSE
  /\ pc = "Reading" /\ pending = NoMatch /\ permits = MaxStreams
  /\ active = {} /\ stream = [m \in Match |-> "Idle"]
  /\ accepted = [m \in Match |-> 0] /\ faults = 0

WorkerInit ==
  /\ status = [m \in Match |-> "Queued"]
  /\ isLive = [m \in Match |-> TRUE]
  /\ WorkerStart

WorkerNext ==
  \/ StopComplete \/ StopCancel
  \/ WorkerLoop
  \/ \E m \in Match : Submit(m) \/ RunStream(m)

WorkerSpec == WorkerInit /\ [][WorkerNext]_workerVars

\* Tasks are scheduled; a stream ends because the engine generates a bounded
\* number of tokens.  Nobody is obliged to submit, to stop or to fail.
WorkerFairness ==
  /\ WF_workerVars(WorkerLoop)
  /\ \A m \in Match : WF_workerVars(RunStream(m))

WorkerFairSpec == WorkerSpec /\ WorkerFairness

-----------------------------------------------------------------------------
(* Properties *)

Holders == {m \in Match : stream[m] \in Holding}

\* MaxConcurrentStreams bounds the streams in flight and no path, duplicates,
\* cancellations and failed starts included, loses or invents a permit.
PermitsConserved ==
  permits + Cardinality(Holders) + (IF pc = "Admitting" THEN 1 ELSE 0) = MaxStreams

\* While the consumer of a match runs, up to the save of its final status, its
\* row says so: no other task has failed or finished the match under it, and a
\* match that already ended is not streamed again.
ConsumingIsInProgress ==
  \A m \in Match :
    stream[m] \in {"Consuming", "Flushing"} => status[m] = "In Progress" /\ isLive[m]

\* ExecuteAsync returns, and with it the semaphore is disposed of, only when no
\* stream task will release a permit or touch a row any more.
NoStreamOutlivesWorker ==
  pc = "Stopped" => \A m \in Match : stream[m] = "Idle"

\* A graceful stop leaves no accepted request live, whether it was waiting in
\* the channel, in the worker's hand or running; each database fault strands at
\* most one match.
GracefulStopSettles ==
  pc = "Stopped" => Cardinality({m \in Match : accepted[m] > 0 /\ isLive[m]}) <= faults

\* No step takes a row back or overwrites a final status: the worker's and the
\* streams' read-then-save operations never undo each other.
ForwardEdges == {<<"None", "Queued">>, <<"Queued", "In Progress">>, <<"Queued", "Failed">>,
                 <<"In Progress", "Completed">>, <<"In Progress", "Truncated">>}
RowsForward ==
  \A m \in Match : status'[m] # status[m] => <<status[m], status'[m]>> \in ForwardEdges
StatusForward == [][RowsForward]_workerVars

(* The invariant the proofs of SimulateMatch_proofs are by *)

\* A match is in _activeStreams exactly while its stream task is running.
ActiveIffRunning == \A m \in Match : m \in active <=> stream[m] # "Idle"

\* What the worker knows of the request in its hand.  A request it is failing
\* has no stream, and nobody else starts one or fails the row meanwhile.
PendingInHand ==
  /\ pc \in {"Acquiring", "Admitting", "Clearing", "ClearingSave"} => pending \in Match
  /\ pc \in {"Clearing", "ClearingSave"} => pending \notin active
  /\ pc = "ClearingSave" => status[pending] = "Queued"

\* A status a stream task has read is still the row's when the task saves.
ReadStillHolds ==
  \A m \in Match : stream[m] \in {"StartSaving", "FailSaving"} => status[m] = "Queued"

\* A row is live exactly while its match waits or runs.
LiveIffUnsettled ==
  \A m \in Match : isLive[m] <=> status[m] \in {"Queued", "In Progress"}

WorkerInv ==
  /\ WorkerTypeOK
  /\ PermitsConserved
  /\ ActiveIffRunning
  /\ PendingInHand
  /\ ReadStillHolds
  /\ ConsumingIsInProgress
  /\ LiveIffUnsettled
  /\ NoStreamOutlivesWorker

\* Every accepted request leaves the live state, as long as the database works:
\* no request is starved by duplicates, by a full semaphore or by a stop.
AcceptedSettles ==
  \A m \in Match : accepted[m] > 0 ~> (~isLive[m] \/ faults > 0)

\* Once the stopping token is cancelled the worker returns, faults or not.
StopCompletes == stopping ~> pc = "Stopped"

\* Requests end and stops end: neither the semaphore, the channel nor the wait
\* for the active streams keeps anybody for ever (ExecuteAsync, StopAsync).
WorkerProgress == AcceptedSettles /\ StopCompletes
=============================================================================
