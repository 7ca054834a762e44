-------------------------- MODULE SimulateByEngine --------------------------
(***************************************************************************)
(* Admission of a match to Pipeline A (the RabbitMQ branch of              *)
(* MatchesController.SimulateMatch), the engine's background task, its     *)
(* completion webhook, the endpoints that ask the engine for status and    *)
(* result, and the flush that ends the match.  Module MatchIngestion has   *)
(* the detail between the engine's publishing and the flush; here it is    *)
(* one end marker.                                                         *)
(*                                                                         *)
(* The row of a match is written by handlers that run concurrently without *)
(* a concurrency token.  Each reads the row and saves the columns that     *)
(* differ from what it read, so its read and its save come to one step,    *)
(* taken at either; the exception is UpdateSimulationIdAsync, which saves  *)
(* every column as the request tracked it since it created the row.        *)
(***************************************************************************)
EXTENDS FiniteSets

CONSTANTS
  Match,      \* a request is named by the match it would create
  User,       \* users that call the endpoint
  CreatorOf   \* the user that sends each request

ASSUME EngineRunAssumption == CreatorOf \in [Match -> User]

VARIABLES
  request,   \* where the request's handler is
  isLive, status, simulationId, persisted,  \* the row: its columns, and whether
                                            \* its MatchEvents row has the events
  engine,    \* the engine's background task and the status it reports
  endMarker, \* the message match_end of the match, from RabbitMQ to the flush
  notice,    \* the webhook POST under way
  poll,      \* what a status request was answered by the engine and has yet to save
  stranded   \* history: where the code gave up on ending the match

rowVars == <<isLive, status, simulationId, persisted>>
engineRunVars == <<request, rowVars, engine, endMarker, notice, poll, stranded>>

EngineStatusName == {"processing", "completed", "failed"}
RowStatus == {"None", "SimulationInProgress", "Completed", "Failed"} \cup EngineStatusName

EngineRunTypeOK ==
  /\ request \in [Match -> {"Idle", "Creating", "Starting", "Marking", "Naming", "Done"}]
  /\ isLive \in [Match -> BOOLEAN] /\ simulationId \in [Match -> BOOLEAN]
  /\ persisted \in [Match -> BOOLEAN]
  /\ status \in [Match -> RowStatus]
  /\ engine \in [Match -> {"None", "Processing", "Published", "Completed",
                           "Reported", "Failed", "Dead"}]
  /\ endMarker \in [Match -> {"None", "Queued", "Handled"}]
  /\ notice \in [Match -> {"None", "completed", "failed"}]
  /\ poll \in [Match -> {"None"} \cup EngineStatusName]
  /\ stranded \in SUBSET Match

-----------------------------------------------------------------------------
(* The request *)

Goto(m, from, to) ==
  /\ request[m] = from
  /\ request' = [request EXCEPT ![m] = to]

\* Wrong: IsLive is kept in step with the status the engine reports.
SaveStatusInStep(m, s) ==
  /\ status' = [status EXCEPT ![m] = s]
  /\ isLive' = [isLive EXCEPT ![m] = s = "processing"]
  /\ UNCHANGED <<simulationId, persisted>>

\* UpdateMatchStatusCommandHandler and UpdateMatchCommandHandler: only the status
\* column changes (and scores and dates, which no property tells apart).
SaveStatus(m, s) ==
  /\ status' = [status EXCEPT ![m] = s]
  /\ UNCHANGED <<isLive, simulationId, persisted>>

\* HasLiveMatch, the engine's health and a disconnected client end a request
\* before there is a row.
Refuse(m) ==
  /\ Goto(m, "Idle", "Done") \/ Goto(m, "Creating", "Done")
  /\ UNCHANGED <<rowVars, engine, endMarker, notice, poll, stranded>>

CheckLive(m) ==
  /\ Goto(m, "Idle", "Creating")
  /\ ~ \E n \in Match : isLive[n] /\ CreatorOf[n] = CreatorOf[m]
  /\ UNCHANGED <<rowVars, engine, endMarker, notice, poll, stranded>>

\* The row is live from its insert.  Its save may commit and still throw.
CreateMatch(m) ==
  /\ \/ Goto(m, "Creating", "Starting") /\ UNCHANGED stranded
     \/ Goto(m, "Creating", "Done") /\ stranded' = stranded \cup {m}
  /\ isLive' = [isLive EXCEPT ![m] = TRUE]
  /\ status' = [status EXCEPT ![m] = "SimulationInProgress"]
  /\ UNCHANGED <<simulationId, persisted, engine, endMarker, notice, poll>>

\* Wrong: the task is dropped with the connection of the caller.
StartWithConnection(m) ==
  /\ \/ /\ Goto(m, "Starting", "Marking")
        /\ engine' = [engine EXCEPT ![m] = "Processing"]
     \/ Goto(m, "Starting", "Done") /\ UNCHANGED engine
  /\ UNCHANGED <<rowVars, endMarker, notice, poll, stranded>>

\* POST /startMatch: the engine registers status and webhook and answers before
\* its task runs; the answer may be lost.
StartEngine(m) ==
  /\ \E to \in {"Marking", "Done"} : Goto(m, "Starting", to)
  /\ engine' = [engine EXCEPT ![m] = "Processing"]
  /\ UNCHANGED <<rowVars, endMarker, notice, poll, stranded>>

\* The engine refuses, is not reached, or the client has gone: nothing undoes the
\* row.
StartFails(m) ==
  /\ Goto(m, "Starting", "Done")
  /\ stranded' = stranded \cup {m}
  /\ UNCHANGED <<rowVars, engine, endMarker, notice, poll>>

\* UpdateMatchStatusCommand without NewStatus, which saves "Completed".
MarkStarted(m) ==
  /\ \E to \in {"Naming", "Done"} : Goto(m, "Marking", to)
  /\ SaveStatus(m, "Completed")
  /\ UNCHANGED <<engine, endMarker, notice, poll, stranded>>

\* An exception, a disconnect or an unreadable answer: the engine runs unnamed.
LeaveUnnamed(m) ==
  /\ Goto(m, "Marking", "Done") \/ Goto(m, "Naming", "Done")
  /\ UNCHANGED <<rowVars, engine, endMarker, notice, poll, stranded>>

\* UpdateSimulationIdAsync: Update(match) writes the whole tracked row, live as it
\* was created, over whatever a flush has saved since.
AssignSimulationId(m) ==
  /\ Goto(m, "Naming", "Done")
  /\ simulationId' = [simulationId EXCEPT ![m] = TRUE]
  /\ isLive' = [isLive EXCEPT ![m] = TRUE]
  /\ status' = [status EXCEPT ![m] = "Completed"]
  /\ stranded' = IF persisted[m] THEN stranded \cup {m} ELSE stranded
  /\ UNCHANGED <<persisted, engine, endMarker, notice, poll>>

Request(m) ==
  \/ Refuse(m) \/ CheckLive(m) \/ CreateMatch(m) \/ StartEngine(m) \/ StartFails(m)
  \/ MarkStarted(m) \/ LeaveUnnamed(m) \/ AssignSimulationId(m)

-----------------------------------------------------------------------------
(* The engine's background task *)

\* parse_and_publish; an event that cannot be published is skipped, the end
\* marker included.
PublishEvents(m) ==
  /\ engine[m] = "Processing"
  /\ engine' = [engine EXCEPT ![m] = "Published"]
  /\ \/ endMarker' = [endMarker EXCEPT ![m] = "Queued"] /\ UNCHANGED stranded
     \/ stranded' = stranded \cup {m} /\ UNCHANGED endMarker
  /\ UNCHANGED <<request, rowVars, notice, poll>>

CompleteSimulation(m) ==
  /\ engine[m] = "Published"
  /\ engine' = [engine EXCEPT ![m] = "Completed"]
  /\ UNCHANGED <<request, rowVars, endMarker, notice, poll, stranded>>

ReportCompleted(m) ==
  /\ engine[m] = "Completed"
  /\ engine' = [engine EXCEPT ![m] = "Reported"]
  /\ notice' = [notice EXCEPT ![m] = "completed"]
  /\ UNCHANGED <<request, rowVars, endMarker, poll, stranded>>

\* An exception, as late as the GPU clean-up after the status was completed.
FailSimulation(m) ==
  /\ engine[m] \in {"Processing", "Published", "Completed"}
  /\ engine' = [engine EXCEPT ![m] = "Failed"]
  /\ notice' = [notice EXCEPT ![m] = "failed"]
  /\ stranded' = IF engine[m] = "Processing" THEN stranded \cup {m} ELSE stranded
  /\ UNCHANGED <<request, rowVars, endMarker, poll>>

\* The engine's process ends; a task is not resumed.
EngineDies(m) ==
  /\ engine[m] \in {"Processing", "Published", "Completed"}
  /\ engine' = [engine EXCEPT ![m] = "Dead"]
  /\ stranded' = IF engine[m] = "Processing" THEN stranded \cup {m} ELSE stranded
  /\ UNCHANGED <<request, rowVars, endMarker, notice, poll>>

Task(m) ==
  \/ PublishEvents(m) \/ CompleteSimulation(m) \/ ReportCompleted(m)
  \/ FailSimulation(m) \/ EngineDies(m)

-----------------------------------------------------------------------------
(* The webhook, the status and result endpoints, and the flush *)

\* ReceiveWebhookNotification.  A match not named yet is answered 404, a failing
\* handler 200 or 400; the engine sends a notice once, whatever the answer.
ReceiveWebhook(m) ==
  /\ notice[m] # "None"
  /\ notice' = [notice EXCEPT ![m] = "None"]
  /\ \/ /\ simulationId[m]
        /\ SaveStatus(m, IF notice[m] = "completed" THEN "Completed" ELSE "Failed")
     \/ UNCHANGED rowVars
  /\ UNCHANGED <<request, engine, endMarker, poll, stranded>>

EngineStatus(m) ==
  CASE engine[m] \in {"Processing", "Published"}   -> "processing"
    [] engine[m] \in {"Completed", "Reported"}     -> "completed"
    [] engine[m] = "Failed"                        -> "failed"

\* GetSimulationStatus: the engine's answer, in the engine's words ...
AskStatus(m) ==
  /\ simulationId[m]
  /\ engine[m] # "Dead"
  /\ poll[m] = "None"
  /\ poll' = [poll EXCEPT ![m] = EngineStatus(m)]
  /\ UNCHANGED <<request, rowVars, engine, endMarker, notice, stranded>>

\* ... is saved when it arrives, whatever has happened to the row meanwhile.
SavePolledStatus(m) ==
  /\ poll[m] # "None"
  /\ poll' = [poll EXCEPT ![m] = "None"]
  /\ SaveStatus(m, poll[m]) \/ UNCHANGED rowVars
  /\ UNCHANGED <<request, engine, endMarker, notice, stranded>>

\* GetSimulationResult: the engine refuses until it has completed.
AskResult(m) ==
  /\ simulationId[m]
  /\ engine[m] \in {"Completed", "Reported"}
  /\ SaveStatus(m, "Completed")
  /\ UNCHANGED <<request, engine, endMarker, notice, poll, stranded>>

\* Wrong: a match that reads as ended is passed over, as FailQueuedAsync does; every
\* started match of this pipeline reads "Completed".
FlushUnlessEnded(m) ==
  /\ endMarker[m] = "Queued"
  /\ endMarker' = [endMarker EXCEPT ![m] = "Handled"]
  /\ \/ /\ isLive' = [isLive EXCEPT ![m] = status[m] \in {"Completed", "Failed"}]
        /\ status' = [status EXCEPT ![m] = "Completed"]
        /\ persisted' = [persisted EXCEPT ![m] = TRUE]
        /\ UNCHANGED stranded
     \/ stranded' = stranded \cup {m} /\ UNCHANGED rowVars
  /\ UNCHANGED <<request, simulationId, engine, notice, poll>>

\* FlushAndPersistMatchAsync.  The message of a failed flush is dropped.
FlushMatch(m) ==
  /\ endMarker[m] = "Queued"
  /\ endMarker' = [endMarker EXCEPT ![m] = "Handled"]
  /\ \/ /\ isLive' = [isLive EXCEPT ![m] = FALSE]
        /\ status' = [status EXCEPT ![m] = "Completed"]
        /\ persisted' = [persisted EXCEPT ![m] = TRUE]
        /\ UNCHANGED <<simulationId, stranded>>
     \/ stranded' = stranded \cup {m} /\ UNCHANGED rowVars
  /\ UNCHANGED <<request, engine, notice, poll>>

-----------------------------------------------------------------------------
EngineRunInit ==
  /\ request = [m \in Match |-> "Idle"]
  /\ isLive = [m \in Match |-> FALSE] /\ simulationId = [m \in Match |-> FALSE]
  /\ persisted = [m \in Match |-> FALSE]
  /\ status = [m \in Match |-> "None"]
  /\ engine = [m \in Match |-> "None"]
  /\ endMarker = [m \in Match |-> "None"]
  /\ notice = [m \in Match |-> "None"]
  /\ poll = [m \in Match |-> "None"]
  /\ stranded = {}

EngineRunNext ==
  \E m \in Match :
    \/ Request(m) \/ Task(m)
    \/ ReceiveWebhook(m) \/ AskStatus(m) \/ SavePolledStatus(m) \/ AskResult(m)
    \/ FlushMatch(m)

EngineRunSpec == EngineRunInit /\ [][EngineRunNext]_engineRunVars

\* A handler once called and a task run on, and the consumer is a background service with
\* automatic recovery (module MatchIngestion).  Nothing makes a client poll.
EngineRunFairSpec ==
  /\ EngineRunSpec
  /\ \A m \in Match : /\ WF_engineRunVars(request[m] # "Idle" /\ Request(m))
                      /\ WF_engineRunVars(Task(m))
                      /\ WF_engineRunVars(FlushMatch(m))

-----------------------------------------------------------------------------
(* Properties *)

\* A live match has somebody to end it, the request, the engine's task or its end
\* marker, or is lost at one of the places that `stranded` counts: a start that
\* fails (MatchesController.cs:575), a task that fails or dies before it has
\* published, a flush that fails, and a naming that overtook the flush.  A live
\* match with nobody left locks its creator out for ever.
LiveHasEnder ==
  \A m \in Match : isLive[m] =>
    \/ m \in stranded
    \/ request[m] = "Starting" \/ engine[m] = "Processing" \/ endMarker[m] = "Queued"

EngineRunInv == EngineRunTypeOK /\ LiveHasEnder

\* However late a webhook, a poll or a result is saved, a match whose events are in
\* its row is not made live again and keeps its simulation id: only the request
\* itself, still naming the match, reopens it (UpdateSimulationIdAsync).
EndedStaysEnded ==
  [][\A m \in Match :
       /\ persisted[m] => persisted'[m]
       /\ simulationId[m] => simulationId'[m]
       /\ persisted[m] /\ ~isLive[m] => ~isLive'[m] \/ request[m] = "Naming"]_engineRunVars

\* A live match ends, unless it is lost where `stranded` says.
EngineMatchEnds ==
  \A m \in Match : isLive[m] ~> ~isLive[m] \/ m \in stranded
=============================================================================
