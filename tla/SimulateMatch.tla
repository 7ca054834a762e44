---------------------------- MODULE SimulateMatch ----------------------------
(***************************************************************************)
(* Admission of a match to Pipeline B (the GrpcStream branch of            *)
(* MatchesController.SimulateMatch) composed with the dispatcher of module *)
(* MatchStreamWorker.  Each HTTP request creates at most one match, so a   *)
(* request is named by the match it would create.  The handler of a        *)
(* request interleaves with the handlers of other requests, with the       *)
(* worker and with the stop of the host between any two awaits, and its    *)
(* client may disconnect at any await.                                     *)
(***************************************************************************)
EXTENDS MatchStreamWorker

CONSTANTS
  User,       \* users that call the endpoint
  CreatorOf   \* the user that sends each request

ASSUME SimulateAssumption == CreatorOf \in [Match -> User]

VARIABLE handler  \* where the handler of each request is

simulateVars == <<workerVars, handler>>

\* "Rejected": 400, or 500, with no match created as far as the handler knows;
\* "Accepted": 200; "Refused": 503.
HandlerPoint == {"Idle", "Creating", "Naming", "Enqueuing", "Notifying",
                 "Compensating", "CompensatingSave", "Rejected", "Accepted", "Refused"}

SimulateTypeOK == WorkerTypeOK /\ handler \in [Match -> HandlerPoint]

-----------------------------------------------------------------------------
\* GetLiveMatchAsync: IsLive rows of the requesting user.
HasLiveMatch(m) == \E n \in Match : isLive[n] /\ CreatorOf[n] = CreatorOf[m]

HandlerGoto(m, from, to) ==
  /\ handler[m] = from
  /\ handler' = [handler EXCEPT ![m] = to]

HandlerFrame == UNCHANGED <<queueVars, stopping, pc, pending, permits, active, stream, accepted>>

CheckLive(m) ==
  /\ \/ /\ HandlerGoto(m, "Idle", IF HasLiveMatch(m) THEN "Rejected" ELSE "Creating")
        /\ UNCHANGED faults
     \/ HandlerGoto(m, "Idle", "Rejected") /\ Fault
  /\ HandlerFrame /\ UNCHANGED rows

\* The engine is not ready, or the health call throws: 503 with nothing created.
NotReady(m) ==
  /\ HandlerGoto(m, "Creating", "Refused")
  /\ HandlerFrame /\ UNCHANGED <<rows, faults>>

CreateMatch(m) ==
  /\ HandlerGoto(m, "Creating", "Naming")
  /\ Saved(m, "Queued", TRUE)
  /\ HandlerFrame

\* CreateMatchCommandHandler reports failed validation and any exception of its
\* save, a disconnected client's cancellation included, as Succeeded = false.
CreateFails(m) ==
  /\ HandlerGoto(m, "Creating", "Rejected")
  /\ \/ UNCHANGED <<rows, faults>>
     \/ SavedButThrows(m, "Queued", TRUE)
  /\ HandlerFrame

\* UpdateSimulationIdAsync
AssignSimulationId(m) ==
  /\ HandlerGoto(m, "Naming", "Enqueuing")
  /\ HandlerFrame /\ UNCHANGED <<rows, faults>>

\* An exception before the enqueue: the client has gone, or the save failed.
AdmissionThrows(m) ==
  /\ \/ HandlerGoto(m, "Naming", "Compensating")
     \/ HandlerGoto(m, "Enqueuing", "Compensating")
  /\ HandlerFrame /\ UNCHANGED <<rows, faults>>

\* Wrong: a full or closed queue is answered without undoing the created match.
EnqueueWithoutCompensation(m) ==
  \/ /\ HandlerGoto(m, "Enqueuing", "Notifying")
     /\ TryEnqueue(m)
     /\ UNCHANGED <<rows, closed, stopping, pc, pending, permits, active, stream, faults>>
  \/ /\ HandlerGoto(m, "Enqueuing", "Refused")
     /\ ~CanEnqueue
     /\ HandlerFrame /\ UNCHANGED <<rows, faults>>

Enqueue(m) ==
  \/ /\ HandlerGoto(m, "Enqueuing", "Notifying")
     /\ TryEnqueue(m)
     /\ UNCHANGED <<rows, closed, stopping, pc, pending, permits, active, stream, faults>>
  \/ /\ HandlerGoto(m, "Enqueuing", "Compensating")
     /\ ~CanEnqueue
     /\ HandlerFrame /\ UNCHANGED <<rows, faults>>

\* Wrong: a failed notification sends an admitted match to the compensation.
NotifyCompensates(m) ==
  /\ \E to \in {"Accepted", "Compensating"} : HandlerGoto(m, "Notifying", to)
  /\ HandlerFrame /\ UNCHANGED <<rows, faults>>

\* The start notification; its failure is logged and the answer is 200 anyway.
Notify(m) ==
  /\ HandlerGoto(m, "Notifying", "Accepted")
  /\ HandlerFrame /\ UNCHANGED <<rows, faults>>

\* The catch block's FailQueuedAsync, read and save.
Compensate(m) ==
  /\ handler[m] = "Compensating"
  /\ \/ /\ handler' = [handler EXCEPT ![m] =
                         IF status[m] = "Queued" THEN "CompensatingSave" ELSE "Refused"]
        /\ UNCHANGED faults
     \/ handler' = [handler EXCEPT ![m] = "Refused"] /\ Fault
  /\ HandlerFrame /\ UNCHANGED rows

CompensateSave(m) ==
  /\ HandlerGoto(m, "CompensatingSave", "Refused")
  /\ \/ Saved(m, "Failed", FALSE)
     \/ SaveThrows
     \/ SavedButThrows(m, "Failed", FALSE)
  /\ HandlerFrame

Handle(m) ==
  \/ CreateMatch(m) \/ CreateFails(m) \/ NotReady(m)
  \/ AssignSimulationId(m) \/ AdmissionThrows(m) \/ Enqueue(m) \/ Notify(m)
  \/ Compensate(m) \/ CompensateSave(m)

-----------------------------------------------------------------------------
SimulateInit ==
  /\ status = [m \in Match |-> "None"]
  /\ isLive = [m \in Match |-> FALSE]
  /\ WorkerStart
  /\ handler = [m \in Match |-> "Idle"]

Service ==
  /\ \/ StopComplete \/ StopCancel \/ WorkerLoop
     \/ \E m \in Match : RunStream(m)
  /\ UNCHANGED handler

SimulateNext ==
  \/ Service
  \/ \E m \in Match : CheckLive(m) \/ Handle(m)

SimulateSpec == SimulateInit /\ [][SimulateNext]_simulateVars

\* A handler that has begun runs to its answer: every await in it ends, the
\* compensation and the notification under a 10 s token.
SimulateFairness ==
  /\ WF_simulateVars(WorkerLoop /\ UNCHANGED handler)
  /\ \A m \in Match :
       /\ WF_simulateVars(RunStream(m) /\ UNCHANGED handler)
       /\ WF_simulateVars(Handle(m))

SimulateFairSpec == SimulateSpec /\ SimulateFairness

-----------------------------------------------------------------------------
(* Properties *)

\* Somebody will still move the row of m on: its handler, the channel, the
\* worker or its stream.
Owned(m) ==
  \/ handler[m] \in {"Naming", "Enqueuing", "Compensating", "CompensatingSave"}
  \/ \E i \in DOMAIN chan : chan[i] = m
  \/ pending = m /\ pc \in {"Acquiring", "Admitting", "Closing", "Checking",
                            "Clearing", "ClearingSave"}
  \/ stream[m] \in Holding \ {"Releasing"}

\* A live match always has an owner, across the hand-overs from the handler to
\* the channel, the worker and the stream and whenever the stop comes: only a
\* database fault leaves a match live for ever (which bars its creator from
\* simulating again), and each fault at most one.
OrphansBounded ==
  Cardinality({m \in Match : isLive[m] /\ ~Owned(m)}) <= faults

\* A match is never with two owners: a handler that may still fail its row has
\* not handed it to the queue.
SingleOwner ==
  \A m \in Match :
    handler[m] \in {"Naming", "Enqueuing", "Compensating", "CompensatingSave"}
      => /\ stream[m] = "Idle" /\ pending # m
         /\ \A i \in DOMAIN chan : chan[i] # m

\* A match whose client was told 503 is never streamed.
RefusedNeverStreamed ==
  \A m \in Match : handler[m] = "Refused"
                     => status[m] \notin {"In Progress", "Completed", "Truncated"}

\* A full or closed queue is answered 503 and the match that was created for it
\* is failed, unless the database faults; and it is never streamed.
RefusedIsDead ==
  /\ RefusedNeverStreamed
  /\ Cardinality({m \in Match : handler[m] = "Refused" /\ isLive[m]}) <= faults

\* Whatever fails between the insert of a live match and the end of its stream,
\* at most the database's own faults leave a match live with nobody to end it, and
\* no refused match lives (the catch blocks of SimulateMatch).
NoOrphans == OrphansBounded /\ RefusedIsDead

\* Rows only move forward, the compensation of the handler included.
SimulateStatusForward == [][RowsForward]_simulateVars

\* A live match ends: whatever happens to the request, its creator is not locked
\* out of simulating for ever, unless the database failed.
LiveMatchEnds ==
  \A m \in Match : isLive[m] ~> (~isLive[m] \/ faults > 0)

=============================================================================
