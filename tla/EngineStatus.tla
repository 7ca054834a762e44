----------------------------- MODULE EngineStatus -----------------------------
(***************************************************************************)
(* The status of a simulation inside the engine: kept in memory, queued    *)
(* for a background writer that saves it in batches to one file per        *)
(* simulation, and read by clients, who may also register a webhook to be  *)
(* called at the end.  All coroutines share one event loop; files are      *)
(* written by threads of the default executor, each through the temporary  *)
(* path of its simulation.                                                 *)
(*                                                                         *)
(* A status is its stage: created, one of the progress reports of the      *)
(* "processing" simulation, completed or failed.  An open file outlives    *)
(* the name it was opened by, so files are told apart by the stage of the  *)
(* save that created them (each stage is saved once).                      *)
(***************************************************************************)
EXTENDS Naturals, Sequences, FiniteSets

CONSTANTS
  Sim,         \* simulations (every start draws a fresh identifier)
  Hook,        \* webhook addresses
  Watched,     \* the simulations whose clients register webhooks
  QueueSize,   \* capacity of status_update_queue
  BatchSize,   \* the most updates the writer collects
  Reports,     \* progress reports of each task: 3 in the code (5, 20, 80), fewer as a bound
  Failing,     \* bound: the simulations that may fail
  MaxRestarts  \* bound: restarts of the engine

ASSUME StatusAssumption ==
  /\ IsFiniteSet(Sim) /\ IsFiniteSet(Hook) /\ Watched \subseteq Sim
  /\ QueueSize \in Nat \ {0} /\ BatchSize \in Nat \ {0}
  /\ Reports \in [Sim -> 0 .. 3] /\ Failing \subseteq Sim /\ MaxRestarts \in Nat

VARIABLES
  engine,    \* "up", "saving" (in cleanup), "stopped", "down" (killed)
  restarts,  \* restarts so far
  mem,       \* simulation_status: the stage of each simulation, or None
  hooks,     \* the webhooks in simulation_status
  proc,      \* the background task of each simulation
  called,    \* history: the webhooks its task has called
  queue,     \* status_update_queue
  writer,    \* where _process_status_updates is
  batch,     \* its batch; after a cancellation, the batch it was holding
  saves,     \* the executor's threads in _write_file_atomic
  tmp,       \* the file behind the temporary path of each simulation
  file,      \* the file behind its status path
  content,   \* what each file holds
  overlapped \* history: simulations with two saves that could overtake one another

taskVars == <<mem, hooks, proc, called>>
diskVars == <<tmp, file, content>>
statusVars == <<engine, restarts, taskVars, queue, writer, batch, saves, diskVars, overlapped>>

\* Stages in the order in which a task reports them.
None == 0
Initialized == 1
Completed == 5
Failed == 6
Saved == 2 .. Failed
Terminal == {Completed, Failed}
Stage == {None, Initialized} \cup Saved

\* The JSON of a later stage is longer (a larger progress, an end time and a
\* path, an error message): a file is whole when it is as long as its text.
Blank == [text |-> None, length |-> 0]
Whole(f) == f.text # None /\ f.length = f.text

Update(s, stage) == [sim |-> s, stage |-> stage]
Updates == [sim : Sim, stage : Saved]
Save(u, owner) == [sim |-> u.sim, stage |-> u.stage, by |-> owner, at |-> "opening", fd |-> None]
SavesOf(owner) == {v \in saves : v.by = owner}

\* What a start of the engine would read back: a file that is torn or empty
\* does not parse and is skipped.
Loaded(s) ==
  IF file[s] # None /\ Whole(content[s][file[s]]) THEN content[s][file[s]].text ELSE None

StatusTypeOK ==
  /\ engine \in {"up", "saving", "stopped", "down"}
  /\ restarts \in 0 .. MaxRestarts
  /\ mem \in [Sim -> Stage]
  /\ hooks \in [Sim -> SUBSET Hook] /\ called \in [Sim -> SUBSET Hook]
  /\ proc \in [Sim -> {"none", "running", "saving", "ended", "lost"}]
  /\ queue \in Seq(Updates) /\ Len(queue) <= QueueSize
  /\ batch \in Seq(Updates) /\ Len(batch) <= BatchSize
  /\ writer \in {"collecting", "writing", "cancelled"}
  /\ saves \subseteq [sim : Sim, stage : Saved, by : {"writer", "task", "cleanup"},
                      at : {"opening", "writing", "replacing", "removing"}, fd : Saved \cup {None}]
  /\ tmp \in [Sim -> Saved \cup {None}] /\ file \in [Sim -> Saved \cup {None}]
  /\ content \in [Sim -> [Saved -> [text : Saved \cup {None}, length : 0 .. Failed]]]
  /\ overlapped \subseteq Sim

StatusInit ==
  /\ engine = "up" /\ restarts = 0
  /\ mem = [s \in Sim |-> None]
  /\ hooks = [s \in Sim |-> {}] /\ called = hooks
  /\ proc = [s \in Sim |-> "none"]
  /\ queue = <<>> /\ batch = <<>> /\ writer = "collecting" /\ saves = {}
  /\ tmp = mem /\ file = mem
  /\ content = [s \in Sim |-> [f \in Saved |-> Blank]]
  /\ overlapped = {}
-----------------------------------------------------------------------------
(* Requests: one coroutine each, without an await between check and change. *)

\* In memory only: it reaches the disk with the next update of its simulation.
AddWebhook(s, h) == hooks' = [hooks EXCEPT ![s] = @ \cup {h}]

\* startMatch, with the webhook of the request, if any.
StartMatch(s, H) ==
  /\ engine = "up" /\ proc[s] = "none"
  /\ mem' = [mem EXCEPT ![s] = Initialized]
  /\ hooks' = [hooks EXCEPT ![s] = H]
  /\ proc' = [proc EXCEPT ![s] = "running"]
  /\ UNCHANGED <<engine, restarts, called, queue, writer, batch, saves, diskVars, overlapped>>

\* Wrong: a simulation that has ended still accepts a webhook.
RegisterAnyTime(s, h) ==
  /\ engine = "up" /\ mem[s] # None
  /\ AddWebhook(s, h)
  /\ UNCHANGED <<engine, restarts, mem, proc, called, queue, writer, batch, saves, diskVars, overlapped>>

\* Refused once the simulation has ended.
RegisterWebhook(s, h) ==
  /\ engine = "up" /\ mem[s] \notin Terminal \cup {None}
  /\ AddWebhook(s, h)
  /\ UNCHANGED <<engine, restarts, mem, proc, called, queue, writer, batch, saves, diskVars, overlapped>>
-----------------------------------------------------------------------------
(* The background task of a simulation. *)

\* Wrong: an update that does not fit the queue is not saved.
DropWhenFull(s, stage) ==
  /\ mem' = [mem EXCEPT ![s] = stage]
  /\ queue' = IF Len(queue) < QueueSize THEN Append(queue, Update(s, stage)) ELSE queue
  /\ UNCHANGED <<proc, saves, overlapped>>

SetStatus(s, stage) ==
  /\ mem' = [mem EXCEPT ![s] = stage]
  /\ \/ /\ Len(queue) < QueueSize
        /\ queue' = Append(queue, Update(s, stage))
        /\ UNCHANGED <<proc, saves, overlapped>>
     \* The queue is full: the task saves the status itself and waits for it.
     \/ /\ Len(queue) = QueueSize
        /\ saves' = saves \cup {Save(Update(s, stage), "task")}
        /\ proc' = [proc EXCEPT ![s] = "saving"]
        /\ overlapped' = IF \E v \in {queue[i] : i \in DOMAIN queue} \cup
                                      {batch[i] : i \in DOMAIN batch} \cup saves : v.sim = s
                           THEN overlapped \cup {s} ELSE overlapped
        /\ UNCHANGED queue

NextStage(s) == IF mem[s] <= Reports[s] THEN mem[s] + 1 ELSE Completed

Running(s) == engine = "up" /\ proc[s] = "running"

Advance(s) ==
  /\ Running(s)
  /\ mem[s] < Completed /\ SetStatus(s, NextStage(s))
  /\ UNCHANGED <<engine, restarts, hooks, called, writer, batch, diskVars>>

\* Features, inference, parsing or, after Completed, the clean-up of the GPU.
Fail(s) ==
  /\ Running(s) /\ s \in Failing
  /\ mem[s] \in Saved \ {Failed}
  /\ SetStatus(s, Failed)
  /\ UNCHANGED <<engine, restarts, hooks, called, writer, batch, diskVars>>

SaveReturned(s) ==
  /\ engine = "up" /\ proc[s] = "saving"
  /\ ~ \E v \in SavesOf("task") : v.sim = s
  /\ proc' = [proc EXCEPT ![s] = "running"]
  /\ UNCHANGED <<engine, restarts, mem, hooks, called, queue, writer, batch, saves, diskVars, overlapped>>

\* One call of each webhook, whatever it answers; then the task ends.
TriggerWebhooks(s) ==
  /\ Running(s) /\ mem[s] \in Terminal
  /\ called' = [called EXCEPT ![s] = hooks[s]]
  /\ proc' = [proc EXCEPT ![s] = "ended"]
  /\ UNCHANGED <<engine, restarts, mem, hooks, queue, writer, batch, saves, diskVars, overlapped>>
-----------------------------------------------------------------------------
(* The writer, a single task. *)

\* Wrong: the writer collects for as long as there is anything.
CollectUnbounded ==
  /\ engine = "up" /\ writer = "collecting" /\ queue # <<>>
  /\ batch' = Append(batch, Head(queue)) /\ queue' = Tail(queue)
  /\ UNCHANGED <<engine, restarts, taskVars, writer, saves, diskVars, overlapped>>

WriterCollect ==
  /\ engine = "up" /\ writer = "collecting"
  /\ queue # <<>> /\ Len(batch) < BatchSize
  /\ batch' = Append(batch, Head(queue)) /\ queue' = Tail(queue)
  /\ UNCHANGED <<engine, restarts, taskVars, writer, saves, diskVars, overlapped>>

\* Simulations that q would save while another save of theirs is pending.
Overlapping(q, running) ==
  {s \in Sim : \E i \in DOMAIN q : /\ q[i].sim = s
                                   /\ \/ \E j \in DOMAIN q \ {i} : q[j].sim = s
                                      \/ \E v \in running : v.sim = s}

\* Save every update of q at once, one thread each, beside those running.
SaveAll(q, owner, running) ==
  /\ saves' = running \cup {Save(q[i], owner) : i \in DOMAIN q}
  /\ overlapped' = overlapped \cup Overlapping(q, running)

\* The batch is full, or the queue stayed empty for a moment.
WriterFlush ==
  /\ engine = "up" /\ writer = "collecting" /\ batch # <<>>
  /\ SaveAll(batch, "writer", saves)
  /\ writer' = "writing"
  /\ UNCHANGED <<engine, restarts, taskVars, queue, batch, diskVars>>

WriterFlushed ==
  /\ engine = "up" /\ writer = "writing" /\ SavesOf("writer") = {}
  /\ batch' = <<>> /\ writer' = "collecting"
  /\ UNCHANGED <<engine, restarts, taskVars, queue, saves, diskVars, overlapped>>
-----------------------------------------------------------------------------
(* _write_file_atomic, on a thread: open, write, replace. *)

Goto(v, w) == saves' = (saves \ {v}) \cup {w}

\* Wrong: the status file itself is opened and truncated.
OpenInPlace(v) ==
  /\ v.at = "opening"
  /\ file' = [file EXCEPT ![v.sim] = v.stage]
  /\ content' = [content EXCEPT ![v.sim][v.stage] = Blank]
  /\ Goto(v, [v EXCEPT !.at = "writing", !.fd = v.stage])
  /\ UNCHANGED <<engine, restarts, taskVars, queue, writer, batch, tmp, overlapped>>

\* Opening truncates the temporary file of another save that has not moved it.
OpenTemp(v) ==
  LET fd == IF tmp[v.sim] = None THEN v.stage ELSE tmp[v.sim] IN
  /\ v.at = "opening"
  /\ tmp' = [tmp EXCEPT ![v.sim] = fd]
  /\ content' = [content EXCEPT ![v.sim][fd] = Blank]
  /\ Goto(v, [v EXCEPT !.at = "writing", !.fd = fd])
  /\ UNCHANGED <<engine, restarts, taskVars, queue, writer, batch, file, overlapped>>

\* The text goes to the start of the file that was opened, whatever its name is now.
WriteTemp(v) ==
  LET old == content[v.sim][v.fd].length IN
  /\ v.at = "writing"
  /\ content' = [content EXCEPT ![v.sim][v.fd] =
       [text |-> v.stage, length |-> IF v.stage < old THEN old ELSE v.stage]]
  /\ Goto(v, [v EXCEPT !.at = "replacing"])
  /\ UNCHANGED <<engine, restarts, taskVars, queue, writer, batch, tmp, file, overlapped>>

Replace(v) ==
  /\ v.at = "replacing"
  /\ \/ /\ tmp[v.sim] # None
        /\ file' = [file EXCEPT ![v.sim] = tmp[v.sim]]
        /\ tmp' = [tmp EXCEPT ![v.sim] = None]
        /\ saves' = saves \ {v}
     \/ /\ tmp[v.sim] = None
        /\ Goto(v, [v EXCEPT !.at = "removing"])
        /\ UNCHANGED <<file, tmp>>
  /\ UNCHANGED <<engine, restarts, taskVars, queue, writer, batch, content, overlapped>>

\* The path was gone: remove it if it is back (another save may have made it).
RemoveTemp(v) ==
  /\ v.at = "removing"
  /\ tmp' = [tmp EXCEPT ![v.sim] = None]
  /\ saves' = saves \ {v}
  /\ UNCHANGED <<engine, restarts, taskVars, queue, writer, batch, file, content, overlapped>>

SaveStep(v) == OpenTemp(v) \/ WriteTemp(v) \/ Replace(v) \/ RemoveTemp(v)
-----------------------------------------------------------------------------
(* The end of the engine. *)

\* The server stops once every request has returned, its background task included.
Quiet == engine = "up" /\ \A s \in Sim : proc[s] \in {"none", "ended", "lost"}

\* Wrong: the writer is cancelled and what is queued forgotten.
CancelOnly ==
  /\ Quiet
  /\ engine' = "saving" /\ writer' = "cancelled" /\ queue' = <<>>
  /\ UNCHANGED <<restarts, taskVars, batch, saves, diskVars, overlapped>>

\* cleanup: the cancelled writer forgets its batch; saves that have a thread
\* go on, the others may be cancelled with it.  Then what is queued is saved.
Cleanup ==
  /\ Quiet
  /\ engine' = "saving" /\ writer' = "cancelled" /\ queue' = <<>>
  /\ \E C \in SUBSET {v \in SavesOf("writer") : v.at = "opening"} :
       SaveAll(queue, "cleanup", saves \ C)
  /\ UNCHANGED <<restarts, taskVars, batch, diskVars>>

Stopped ==
  /\ engine = "saving" /\ saves = {}
  /\ engine' = "stopped"
  /\ UNCHANGED <<restarts, taskVars, queue, writer, batch, saves, diskVars, overlapped>>

Kill ==
  /\ engine \in {"up", "saving"} /\ restarts < MaxRestarts
  /\ engine' = "down" /\ saves' = {}
  /\ UNCHANGED <<restarts, taskVars, queue, writer, batch, diskVars, overlapped>>

\* initialize: the statuses that parse are loaded; no simulation is resumed.
Restart ==
  /\ engine \in {"stopped", "down"} /\ restarts < MaxRestarts
  /\ engine' = "up" /\ restarts' = restarts + 1
  /\ mem' = [s \in Sim |-> Loaded(s)]
  /\ hooks' = [s \in Sim |-> {}]
  /\ proc' = [s \in Sim |-> IF proc[s] = "none" THEN "none" ELSE "lost"]
  /\ queue' = <<>> /\ batch' = <<>> /\ writer' = "collecting"
  /\ UNCHANGED <<called, saves, diskVars, overlapped>>
-----------------------------------------------------------------------------
StatusNext ==
  \/ \E s \in Watched, h \in Hook : StartMatch(s, {h}) \/ RegisterWebhook(s, h)
  \/ \E s \in Sim : \/ StartMatch(s, {})
                    \/ Advance(s) \/ Fail(s) \/ SaveReturned(s) \/ TriggerWebhooks(s)
  \/ WriterCollect \/ WriterFlush \/ WriterFlushed
  \/ \E v \in saves : SaveStep(v)
  \/ Cleanup \/ Stopped \/ Kill \/ Restart

StatusSpec == StatusInit /\ [][StatusNext]_statusVars

\* Tasks, the writer and the executor's threads are scheduled.
StatusFairSpec ==
  /\ StatusSpec
  /\ \A s \in Sim : WF_statusVars(Advance(s) \/ SaveReturned(s) \/ TriggerWebhooks(s))
  /\ WF_statusVars(WriterCollect \/ WriterFlush \/ WriterFlushed)
  /\ WF_statusVars(\E v \in saves : SaveStep(v))
-----------------------------------------------------------------------------
\* A webhook whose registration was answered "registered" is called by the
\* time the simulation's task ends: the end cannot slip in between the check
\* of the status and the registration, nor an update forget the webhook.
HooksCalled == \A s \in Sim : proc[s] = "ended" => hooks[s] \subseteq called[s]

\* The status file of a simulation never goes back to an earlier stage nor to
\* a text that does not parse, whenever the engine is killed, as long as two of
\* its saves never overlap: the promise of writing aside and moving.
FileForward ==
  [][\A s \in Sim \ overlapped' : Loaded(s) <= Loaded(s)']_statusVars

\* A stop of the engine saves everything but the batch the writer was holding.
StopSavesQueue ==
  engine = "stopped" =>
    \A s \in Sim \ overlapped :
      Loaded(s) = mem[s] \/ \E i \in DOMAIN batch : batch[i].sim = s

\* A simulation that is started reaches an end that its file shows, unless the
\* engine stops first or two of its saves overlap.
SimulationEnds ==
  \A s \in Sim : proc[s] = "running" ~>
    \/ mem[s] \in Terminal /\ Loaded(s) = mem[s]
    \/ s \in overlapped
    \/ engine # "up"
=============================================================================
