-------------------------- MODULE EngineStatus_proofs --------------------------
(***************************************************************************)
(* Proofs about EngineStatus for every set of simulations and webhooks and *)
(* every capacity of the queue and of the batch: type correctness, that a  *)
(* registered webhook is never forgotten, that the status file of a        *)
(* simulation only moves forward, and that a stop of the engine saves what *)
(* is queued.  The last two rest on DiskInv, which follows the updates of  *)
(* a simulation from the queue through the writer's batch and the threads  *)
(* to the file.                                                            *)
(***************************************************************************)
EXTENDS EngineStatus, SequenceTheorems, TLAPS

\* A task that ended left a final status, and nothing was registered after it
\* had taken its list of webhooks.
EndedIsFinal ==
  \A s \in Sim : proc[s] = "ended" => mem[s] \in Terminal /\ hooks[s] \subseteq called[s]

\* A task at work has a status to update.
TaskHasStatus == \A s \in Sim : proc[s] \in {"running", "saving"} => mem[s] # None

StatusInv == StatusTypeOK /\ EndedIsFinal /\ TaskHasStatus

\* A step of the server's tasks, of the writer, of a thread, or of the whole engine.
TaskStep(s) == Advance(s) \/ Fail(s) \/ SaveReturned(s) \/ TriggerWebhooks(s)
RequestStep(s) ==
  StartMatch(s, {}) \/ \E h \in Hook : StartMatch(s, {h}) \/ RegisterWebhook(s, h)
WriterStep == WriterCollect \/ WriterFlush \/ WriterFlushed
EngineStep == Cleanup \/ Stopped \/ Kill \/ Restart

SaveType == [sim : Sim, stage : Saved, by : {"writer", "task", "cleanup"},
             at : {"opening", "writing", "replacing", "removing"}, fd : Saved \cup {None}]

LEMMA StageFacts ==
  /\ Saved \subseteq Stage /\ None \in Stage /\ Initialized \in Stage
  /\ Completed \in Saved /\ Failed \in Saved
  /\ Terminal \subseteq Saved /\ None \notin Saved /\ Saved \subseteq 1 .. Failed
BY DEF Saved, Stage, None, Initialized, Completed, Failed, Terminal

\* The stage after an unfinished one is one that is saved.
LEMMA NextStageSaved ==
  ASSUME NEW s \in Sim, StatusTypeOK, StatusAssumption, mem[s] \in Stage, mem[s] # None, mem[s] < Completed
  PROVE  NextStage(s) \in Saved
BY DEF StatusAssumption, NextStage, Saved, Stage, None, Initialized, Completed, Failed

LEMMA StatusInitInv == StatusInit => StatusInv
<1> SUFFICES ASSUME StatusInit PROVE StatusInv
  OBVIOUS
<1>1. StatusTypeOK
  BY StatusAssumption, StageFacts DEF StatusInit, StatusTypeOK, StatusAssumption, Blank, None, Failed, Saved
<1>2. EndedIsFinal
  BY DEF StatusInit, EndedIsFinal
<1>3. TaskHasStatus
  BY DEF StatusInit, TaskHasStatus
<1> QED
  BY <1>1, <1>2, <1>3 DEF StatusInv

\* Saves are appended, started and advanced within their types.
LEMMA UpdateTyped ==
  ASSUME NEW s \in Sim, NEW stage \in Saved
  PROVE  /\ Update(s, stage) \in Updates
         /\ Save(Update(s, stage), "task") \in SaveType
BY DEF Update, Updates, Save, SaveType

LEMMA SaveTyped ==
  ASSUME NEW u \in Updates, NEW owner \in {"writer", "cleanup"}
  PROVE  Save(u, owner) \in SaveType
BY DEF Updates, Save, SaveType

LEMMA SaveAllTyped ==
  ASSUME NEW q \in Seq(Updates), NEW owner \in {"writer", "cleanup"}, NEW running,
         running \subseteq SaveType, overlapped \subseteq Sim, SaveAll(q, owner, running)
  PROVE  saves' \subseteq SaveType /\ overlapped' \subseteq Sim
<1>1. \A i \in DOMAIN q : Save(q[i], owner) \in SaveType
  BY SaveTyped
<1>2. saves' \subseteq SaveType
  BY <1>1 DEF SaveAll
<1>3. Overlapping(q, running) \subseteq Sim
  BY DEF Overlapping
<1> QED
  BY <1>2, <1>3 DEF SaveAll

LEMMA SetStatusTyped ==
  ASSUME StatusTypeOK, NEW s \in Sim, NEW stage \in Saved, SetStatus(s, stage)
  PROVE  /\ mem' \in [Sim -> Stage]
         /\ proc' \in [Sim -> {"none", "running", "saving", "ended", "lost"}]
         /\ queue' \in Seq(Updates) /\ Len(queue') <= QueueSize
         /\ saves' \subseteq SaveType /\ overlapped' \subseteq Sim
<1>1. mem' \in [Sim -> Stage]
  BY StageFacts DEF SetStatus, StatusTypeOK
<1>2. CASE Len(queue) < QueueSize /\ queue' = Append(queue, Update(s, stage))
           /\ UNCHANGED <<proc, saves, overlapped>>
  <2>1. queue' \in Seq(Updates) /\ Len(queue') = Len(queue) + 1
    BY <1>2, UpdateTyped DEF StatusTypeOK
  <2> QED
    BY <1>1, <1>2, <2>1, StatusAssumption DEF StatusTypeOK, StatusAssumption, SaveType
<1>3. CASE /\ saves' = saves \cup {Save(Update(s, stage), "task")}
           /\ proc' = [proc EXCEPT ![s] = "saving"]
           /\ overlapped' \in {overlapped, overlapped \cup {s}}
           /\ UNCHANGED queue
  BY <1>1, <1>3, UpdateTyped DEF StatusTypeOK, SaveType
<1> QED
  BY <1>2, <1>3 DEF SetStatus

LEMMA RequestTyped ==
  ASSUME StatusTypeOK, NEW s \in Sim, RequestStep(s)
  PROVE  StatusTypeOK'
<1>1. ASSUME NEW H \in SUBSET Hook, StartMatch(s, H) PROVE StatusTypeOK'
  BY <1>1, StageFacts DEF StartMatch, StatusTypeOK, diskVars
<1>2. ASSUME NEW h \in Hook, RegisterWebhook(s, h) PROVE StatusTypeOK'
  BY <1>2 DEF RegisterWebhook, AddWebhook, StatusTypeOK, diskVars
<1> QED
  BY <1>1, <1>2 DEF RequestStep

LEMMA TaskTyped ==
  ASSUME StatusTypeOK, TaskHasStatus, NEW s \in Sim, TaskStep(s)
  PROVE  StatusTypeOK'
<1>1. ASSUME NEW stage \in Saved, SetStatus(s, stage),
             UNCHANGED <<engine, restarts, hooks, called, writer, batch, diskVars>>
      PROVE  StatusTypeOK'
  BY <1>1, SetStatusTyped DEF StatusTypeOK, SaveType, diskVars
<1>2. CASE Advance(s)
  <2>1. mem[s] \in Stage /\ mem[s] # None
    BY <1>2 DEF Advance, Running, StatusTypeOK, TaskHasStatus
  <2> QED
    BY <1>1, <1>2, <2>1, NextStageSaved, StatusAssumption DEF Advance
<1>3. CASE Fail(s)
  BY <1>1, <1>3, StageFacts DEF Fail
<1>4. CASE SaveReturned(s)
  BY <1>4 DEF SaveReturned, StatusTypeOK, diskVars
<1>5. CASE TriggerWebhooks(s)
  BY <1>5 DEF TriggerWebhooks, StatusTypeOK, diskVars
<1> QED
  BY <1>2, <1>3, <1>4, <1>5 DEF TaskStep

LEMMA WriterTyped ==
  ASSUME StatusTypeOK, WriterStep
  PROVE  StatusTypeOK'
<1>1. CASE WriterCollect
  <2>1. batch' \in Seq(Updates) /\ queue' \in Seq(Updates)
    BY <1>1 DEF WriterCollect, StatusTypeOK
  <2>2. Len(batch') = Len(batch) + 1 /\ Len(queue') = Len(queue) - 1
    BY <1>1 DEF WriterCollect, StatusTypeOK
  <2> QED
    BY <1>1, <2>1, <2>2, StatusAssumption
    DEF WriterCollect, StatusTypeOK, StatusAssumption, taskVars, diskVars
<1>2. CASE WriterFlush
  <2>1. saves' \subseteq SaveType /\ overlapped' \subseteq Sim
    BY <1>2, SaveAllTyped DEF WriterFlush, StatusTypeOK, SaveType
  <2> QED
    BY <1>2, <2>1 DEF WriterFlush, StatusTypeOK, SaveType, taskVars, diskVars
<1>3. CASE WriterFlushed
  <2>1. batch' \in Seq(Updates) /\ Len(batch') = 0
    BY <1>3 DEF WriterFlushed
  <2> QED
    BY <1>3, <2>1, StatusAssumption
    DEF WriterFlushed, StatusTypeOK, StatusAssumption, taskVars, diskVars
<1> QED
  BY <1>1, <1>2, <1>3 DEF WriterStep

\* A thread changes its own save and the files of its simulation.
LEMMA SaveStepTyped ==
  ASSUME StatusTypeOK, NEW v \in saves, SaveStep(v)
  PROVE  StatusTypeOK'
<1>1. v \in SaveType
  BY DEF StatusTypeOK, SaveType
<1>2. CASE OpenTemp(v)
  <2> DEFINE fd == IF tmp[v.sim] = None THEN v.stage ELSE tmp[v.sim]
  <2>1. fd \in Saved
    BY <1>1 DEF StatusTypeOK, SaveType
  <2>2. [v EXCEPT !.at = "writing", !.fd = fd] \in SaveType
    BY <1>1, <2>1 DEF SaveType
  <2>3. saves' \subseteq SaveType
    BY <1>2, <2>2 DEF OpenTemp, Goto, StatusTypeOK, SaveType
  <2>4. tmp' \in [Sim -> Saved \cup {None}]
    BY <1>1, <1>2, <2>1 DEF OpenTemp, StatusTypeOK
  <2>5. Blank \in [text : Saved \cup {None}, length : 0 .. Failed]
    BY DEF Blank, None, Failed
  <2>6. content' \in [Sim -> [Saved -> [text : Saved \cup {None}, length : 0 .. Failed]]]
    BY <1>1, <1>2, <2>1, <2>5 DEF OpenTemp, StatusTypeOK
  <2> QED
    BY <1>2, <2>3, <2>4, <2>6 DEF OpenTemp, StatusTypeOK, SaveType, taskVars
<1>3. CASE WriteTemp(v)
  <2> DEFINE old == content[v.sim][v.fd].length
             new == [text |-> v.stage, length |-> IF v.stage < old THEN old ELSE v.stage]
  <2>1. [v EXCEPT !.at = "replacing"] \in SaveType
    BY <1>1 DEF SaveType
  <2>2. saves' \subseteq SaveType
    BY <1>3, <2>1 DEF WriteTemp, Goto, StatusTypeOK, SaveType
  <2>3. v.sim \in Sim /\ v.stage \in Saved
    BY <1>1 DEF SaveType
  <2>4. content' \in [Sim -> [Saved -> [text : Saved \cup {None}, length : 0 .. Failed]]]
    <3>1. CASE v.fd \in Saved
      <4>1. old \in 0 .. Failed
        BY <2>3, <3>1 DEF StatusTypeOK
      <4>2. new \in [text : Saved \cup {None}, length : 0 .. Failed]
        <5> HIDE DEF old
        <5>1. v.stage \in 1 .. Failed
          BY <2>3, StageFacts
        <5>2. (IF v.stage < old THEN old ELSE v.stage) \in 0 .. Failed
          BY <4>1, <5>1 DEF Failed
        <5> QED
          BY <2>3, <5>2
      <4>3. content' = [content EXCEPT ![v.sim][v.fd] = new]
        BY <1>3 DEF WriteTemp
      <4> HIDE DEF new
      <4> QED
        BY <2>3, <3>1, <4>2, <4>3 DEF StatusTypeOK
    <3>2. CASE v.fd \notin Saved
      <4>1. content' = [content EXCEPT ![v.sim][v.fd] = new]
        BY <1>3 DEF WriteTemp
      <4> HIDE DEF new
      <4> QED
        BY <2>3, <3>2, <4>1 DEF StatusTypeOK
    <3> QED
      BY <3>1, <3>2
  <2> QED
    BY <1>3, <2>2, <2>4 DEF WriteTemp, StatusTypeOK, SaveType, taskVars
<1>4. CASE Replace(v)
  <2>1. [v EXCEPT !.at = "removing"] \in SaveType
    BY <1>1 DEF SaveType
  <2>2. saves' \subseteq SaveType
    BY <1>4, <2>1 DEF Replace, Goto, StatusTypeOK, SaveType
  <2>3. tmp' \in [Sim -> Saved \cup {None}] /\ file' \in [Sim -> Saved \cup {None}]
    BY <1>1, <1>4 DEF Replace, StatusTypeOK, SaveType
  <2> QED
    BY <1>4, <2>2, <2>3 DEF Replace, StatusTypeOK, SaveType, taskVars
<1>5. CASE RemoveTemp(v)
  BY <1>1, <1>5 DEF RemoveTemp, StatusTypeOK, SaveType, taskVars
<1> QED
  BY <1>2, <1>3, <1>4, <1>5 DEF SaveStep

LEMMA EngineTyped ==
  ASSUME StatusTypeOK, EngineStep
  PROVE  StatusTypeOK'
<1>0. /\ <<>> \in Seq(Updates) /\ Len(<<>>) <= QueueSize /\ Len(<<>>) <= BatchSize
      /\ saves \subseteq SaveType
  BY StatusAssumption DEF StatusAssumption, StatusTypeOK, SaveType
<1>1. CASE Cleanup
  <2>1. saves' \subseteq SaveType /\ overlapped' \subseteq Sim
    BY <1>0, <1>1, SaveAllTyped DEF Cleanup, StatusTypeOK
  <2> QED
    BY <1>0, <1>1, <2>1 DEF Cleanup, StatusTypeOK, SaveType, taskVars, diskVars
<1>2. CASE Stopped
  BY <1>2 DEF Stopped, StatusTypeOK, taskVars, diskVars
<1>3. CASE Kill
  BY <1>0, <1>3 DEF Kill, StatusTypeOK, SaveType, taskVars, diskVars
<1>4. CASE Restart
  <2>1. \A s \in Sim : Loaded(s) \in Stage
    <3> SUFFICES ASSUME NEW s \in Sim PROVE Loaded(s) \in Stage
      OBVIOUS
    <3>1. CASE file[s] = None
      BY <3>1, StageFacts DEF Loaded
    <3>2. CASE file[s] # None
      <4>1. file[s] \in Saved
        BY <3>2 DEF StatusTypeOK
      <4>2. content[s][file[s]].text \in Saved \cup {None}
        BY <4>1 DEF StatusTypeOK
      <4> QED
        BY <4>2, StageFacts DEF Loaded
    <3> QED
      BY <3>1, <3>2
  <2>2. mem' \in [Sim -> Stage]
    BY <1>4, <2>1 DEF Restart
  <2>3. hooks' \in [Sim -> SUBSET Hook]
    BY <1>4 DEF Restart
  <2>4. proc' \in [Sim -> {"none", "running", "saving", "ended", "lost"}]
    BY <1>4 DEF Restart
  <2>5. restarts' \in 0 .. MaxRestarts
    BY <1>4, StatusAssumption DEF Restart, StatusTypeOK, StatusAssumption
  <2> QED
    BY <1>0, <1>4, <2>2, <2>3, <2>4, <2>5 DEF Restart, StatusTypeOK, diskVars
<1> QED
  BY <1>1, <1>2, <1>3, <1>4 DEF EngineStep

LEMMA NextCases ==
  ASSUME StatusNext
  PROVE  \/ \E s \in Sim : RequestStep(s) \/ TaskStep(s)
         \/ WriterStep
         \/ \E v \in saves : SaveStep(v)
         \/ EngineStep
BY StatusAssumption DEF StatusNext, StatusAssumption, RequestStep, TaskStep, WriterStep, EngineStep

LEMMA StutterTyped == StatusTypeOK /\ UNCHANGED statusVars => StatusTypeOK'
BY DEF StatusTypeOK, statusVars, taskVars, diskVars

LEMMA TypeStep ==
  ASSUME StatusTypeOK, TaskHasStatus, [StatusNext]_statusVars
  PROVE  StatusTypeOK'
<1>1. CASE StatusNext
  BY <1>1, NextCases, RequestTyped, TaskTyped, WriterTyped, SaveStepTyped, EngineTyped
<1>2. CASE UNCHANGED statusVars
  BY <1>2, StutterTyped
<1> QED
  BY <1>1, <1>2

\* Setting the status of a task at work neither ends it nor forgets a status.
LEMMA SetStatusKeeps ==
  ASSUME StatusInv, NEW s \in Sim, NEW stage \in Saved, proc[s] = "running",
         SetStatus(s, stage), UNCHANGED <<hooks, called>>
  PROVE  EndedIsFinal' /\ TaskHasStatus'
<1>1. mem' = [mem EXCEPT ![s] = stage] /\ stage # None
  BY StageFacts DEF SetStatus
<1>2. proc' = proc \/ proc' = [proc EXCEPT ![s] = "saving"]
  BY DEF SetStatus
<1>3. mem \in [Sim -> Stage] /\ proc \in [Sim -> {"none", "running", "saving", "ended", "lost"}]
  BY DEF StatusInv, StatusTypeOK
<1>4. EndedIsFinal'
  BY <1>1, <1>2, <1>3 DEF StatusInv, EndedIsFinal
<1>5. TaskHasStatus'
  BY <1>1, <1>2, <1>3 DEF StatusInv, TaskHasStatus
<1> QED
  BY <1>4, <1>5

LEMMA RequestKeeps ==
  ASSUME StatusInv, NEW s \in Sim, RequestStep(s)
  PROVE  EndedIsFinal' /\ TaskHasStatus'
<1>0. /\ mem \in [Sim -> Stage] /\ hooks \in [Sim -> SUBSET Hook]
      /\ proc \in [Sim -> {"none", "running", "saving", "ended", "lost"}]
  BY DEF StatusInv, StatusTypeOK
<1>1. ASSUME NEW H, StartMatch(s, H) PROVE EndedIsFinal' /\ TaskHasStatus'
  BY <1>0, <1>1 DEF StartMatch, StatusInv, EndedIsFinal, TaskHasStatus, Initialized, None
<1>2. ASSUME NEW h \in Hook, RegisterWebhook(s, h) PROVE EndedIsFinal' /\ TaskHasStatus'
  \* A final status refuses the registration, so the task has not ended.
  <2>1. proc[s] # "ended"
    BY <1>2 DEF RegisterWebhook, StatusInv, EndedIsFinal
  <2> QED
    BY <1>0, <1>2, <2>1 DEF RegisterWebhook, AddWebhook, StatusInv, EndedIsFinal, TaskHasStatus
<1> QED
  BY <1>1, <1>2 DEF RequestStep

LEMMA TaskKeeps ==
  ASSUME StatusInv, NEW s \in Sim, TaskStep(s)
  PROVE  EndedIsFinal' /\ TaskHasStatus'
<1>0. /\ mem \in [Sim -> Stage] /\ called \in [Sim -> SUBSET Hook]
      /\ proc \in [Sim -> {"none", "running", "saving", "ended", "lost"}]
  BY DEF StatusInv, StatusTypeOK
<1>1. CASE Advance(s)
  <2>1. mem[s] \in Stage /\ mem[s] # None
    BY <1>0, <1>1 DEF Advance, Running, StatusInv, TaskHasStatus
  <2>2. NextStage(s) \in Saved
    BY <1>1, <2>1, NextStageSaved, StatusAssumption DEF Advance, StatusInv
  <2> QED
    BY <1>1, <2>2, SetStatusKeeps DEF Advance, Running
<1>2. CASE Fail(s)
  BY <1>2, SetStatusKeeps, StageFacts DEF Fail, Running
<1>3. CASE SaveReturned(s)
  BY <1>0, <1>3 DEF SaveReturned, StatusInv, EndedIsFinal, TaskHasStatus
<1>4. CASE TriggerWebhooks(s)
  BY <1>0, <1>4 DEF TriggerWebhooks, Running, StatusInv, EndedIsFinal, TaskHasStatus
<1> QED
  BY <1>1, <1>2, <1>3, <1>4 DEF TaskStep

\* Nothing else touches the tasks, but a restart, which none survives.
LEMMA OthersKeep ==
  ASSUME StatusInv, \/ WriterStep \/ EngineStep \/ UNCHANGED statusVars
                    \/ \E v \in saves : SaveStep(v)
  PROVE  EndedIsFinal' /\ TaskHasStatus'
<1>1. CASE UNCHANGED taskVars
  BY <1>1 DEF taskVars, StatusInv, EndedIsFinal, TaskHasStatus
<1>2. CASE Restart
  <2>1. \A s \in Sim : proc'[s] \in {"none", "lost"}
    BY <1>2 DEF Restart
  <2> QED
    BY <2>1 DEF EndedIsFinal, TaskHasStatus
<1>3. UNCHANGED taskVars \/ Restart
  BY DEF WriterStep, WriterCollect, WriterFlush, WriterFlushed, SaveStep, OpenTemp, WriteTemp,
         Replace, RemoveTemp, EngineStep, Cleanup, Stopped, Kill, statusVars
<1> QED
  BY <1>1, <1>2, <1>3

LEMMA StatusNextInv == StatusInv /\ [StatusNext]_statusVars => StatusInv'
<1> SUFFICES ASSUME StatusInv, [StatusNext]_statusVars PROVE StatusInv'
  OBVIOUS
<1>1. StatusTypeOK'
  BY TypeStep DEF StatusInv
<1>2. EndedIsFinal' /\ TaskHasStatus'
  BY NextCases, RequestKeeps, TaskKeeps, OthersKeep
<1> QED
  BY <1>1, <1>2 DEF StatusInv

\* The invariant holds throughout.
THEOREM StatusInvariance == StatusSpec => []StatusInv
BY StatusInitInv, StatusNextInv, PTL DEF StatusSpec

\* The store's state keeps its types: queue and batch within their capacities,
\* saves, paths and files within those of their simulations.
THEOREM StatusTyped == StatusSpec => []StatusTypeOK
<1>1. StatusInv => StatusTypeOK
  BY DEF StatusInv
<1> QED
  BY <1>1, StatusInvariance, PTL

\* A webhook that was registered is called by the time its task has ended, for
\* any number of simulations and webhooks, through failures and full queues.
THEOREM RegisteredIsCalled == StatusSpec => []HooksCalled
<1>1. StatusInv => HooksCalled
  BY DEF StatusInv, EndedIsFinal, HooksCalled
<1> QED
  BY <1>1, StatusInvariance, PTL

-----------------------------------------------------------------------------
(* The pipeline of a simulation's updates: queue, batch, threads, file *)

Elements(q) == {q[i] : i \in DOMAIN q}
Queued(s) == {u \in Elements(queue) : u.sim = s}
Batched(s) == {u \in Elements(batch) : u.sim = s}
Pending(s) == {v \in saves : v.sim = s}

\* The updates of s in q come in the order of their stages.
Rising(q, s) ==
  \A i, j \in DOMAIN q : i < j /\ q[i].sim = s /\ q[j].sim = s => q[i].stage < q[j].stage

\* What the engine's state says of the pipeline as a whole.
LifeOK ==
  /\ engine = "up" => writer # "cancelled"
  /\ engine \in {"saving", "stopped"} => queue = <<>> /\ writer = "cancelled"
  /\ engine \in {"stopped", "down"} => saves = {}
  /\ engine \in {"saving", "stopped"} => \A s \in Sim : proc[s] \in {"none", "ended", "lost"}
  /\ \A v \in saves :
       /\ v.by = "task" => engine = "up" /\ proc[v.sim] = "saving"
       /\ v.by = "cleanup" => engine = "saving"
       /\ v.by = "writer" /\ engine = "up" => writer = "writing" /\ Batched(v.sim) # {}

\* A simulation that has not started, or that a restart found, has no updates.
IdleOK(s) ==
  /\ proc[s] \in {"none", "lost"} =>
       Queued(s) = {} /\ Batched(s) = {} /\ Pending(s) = {}
  /\ proc[s] = "none" => mem[s] = None /\ file[s] = None /\ tmp[s] = None

\* The stages rise from the file through the thread and the batch to the queue.
StagesOK(s) ==
  /\ Rising(queue, s)
  /\ \A u \in Queued(s) : u.stage <= mem[s] /\ file[s] < u.stage
  /\ \A b \in Batched(s) : /\ b.stage <= mem[s] /\ (writer = "collecting" => file[s] < b.stage)
                           /\ \A u \in Queued(s) : b.stage < u.stage
  /\ \A v \in Pending(s) : /\ v.stage <= mem[s] /\ file[s] < v.stage
                           /\ \A u \in Queued(s) : v.stage < u.stage
                           /\ v.by = "task" => Queued(s) = {} /\ Batched(s) = {}
  /\ file[s] <= mem[s]
  /\ proc[s] = "lost" => file[s] = mem[s]

\* One thread at a time has the temporary path, and the status file is whole.
FilesOK(s) ==
  /\ \A v, w \in Pending(s) : v = w
  /\ file[s] # None => content[s][file[s]] = [text |-> file[s], length |-> file[s]]
  /\ \A v \in Pending(s) :
       \/ v.at = "opening" /\ tmp[s] = None
       \/ v.at = "writing" /\ tmp[s] = v.stage /\ v.fd = v.stage /\ content[s][v.stage] = Blank
       \/ /\ v.at = "replacing" /\ tmp[s] = v.stage
          /\ content[s][v.stage] = [text |-> v.stage, length |-> v.stage]
  /\ tmp[s] # None => engine = "down" \/ proc[s] = "lost" \/ Pending(s) # {}

\* The last update is somewhere on the way, unless it went with the writer's batch.
LatestOK(s) ==
  proc[s] \in {"running", "saving", "ended"} /\ mem[s] \in Saved /\ engine # "down" =>
    \/ file[s] = mem[s]
    \/ \E v \in Pending(s) : v.stage = mem[s]
    \/ \E u \in Queued(s) : u.stage = mem[s]
    \/ Batched(s) # {} /\ (writer = "collecting" => \E b \in Batched(s) : b.stage = mem[s])
         /\ writer # "writing"

\* Two saves of an overlapped simulation may overtake one another: nothing is
\* said of its files.
SimOK(s) ==
  /\ IdleOK(s)
  /\ s \notin overlapped => StagesOK(s) /\ FilesOK(s) /\ LatestOK(s)

DiskInv ==
  /\ StatusInv /\ LifeOK
  /\ \A s \in Sim : SimOK(s)

-----------------------------------------------------------------------------
(* Queues of updates *)

LEMMA AppendUpdate ==
  ASSUME NEW q \in Seq(Updates), NEW u \in Updates, NEW s \in Sim
  PROVE  /\ Elements(Append(q, u)) = Elements(q) \cup {u}
         /\ Rising(q, s) /\ (u.sim = s => \A w \in Elements(q) : w.sim = s => w.stage < u.stage)
              => Rising(Append(q, u), s)
<1>1. /\ Len(q) \in Nat /\ DOMAIN q = 1 .. Len(q) /\ DOMAIN Append(q, u) = 1 .. Len(q) + 1
      /\ \A i \in 1 .. Len(q) : Append(q, u)[i] = q[i]
      /\ Append(q, u)[Len(q) + 1] = u
  BY AppendProperties, LenProperties
<1>2. /\ 1 .. Len(q) + 1 = 1 .. Len(q) \cup {Len(q) + 1}
      /\ \A i, j \in 1 .. Len(q) + 1 : i < j => i \in 1 .. Len(q)
  BY <1>1
<1>3. Elements(Append(q, u)) = Elements(q) \cup {u}
  BY <1>1, <1>2, Zenon DEF Elements
<1>4. ASSUME Rising(q, s), u.sim = s => \A w \in Elements(q) : w.sim = s => w.stage < u.stage
      PROVE  Rising(Append(q, u), s)
  <2> SUFFICES ASSUME NEW i \in 1 .. Len(q) + 1, NEW j \in 1 .. Len(q) + 1, i < j,
                      Append(q, u)[i].sim = s, Append(q, u)[j].sim = s
               PROVE  Append(q, u)[i].stage < Append(q, u)[j].stage
    BY <1>1 DEF Rising
  <2>1. i \in 1 .. Len(q) /\ Append(q, u)[i] = q[i] /\ q[i] \in Elements(q)
    BY <1>1, <1>2 DEF Elements
  <2>2. CASE j = Len(q) + 1
    BY <1>1, <1>4, <2>1, <2>2
  <2>3. CASE j # Len(q) + 1
    <3>1. j \in 1 .. Len(q)
      BY <1>2, <2>3
    <3> QED
      BY <1>1, <1>4, <2>1, <3>1 DEF Rising
  <2> QED
    BY <2>2, <2>3
<1> QED
  BY <1>3, <1>4

LEMMA TakeUpdate ==
  ASSUME NEW q \in Seq(Updates), q # <<>>, NEW s \in Sim
  PROVE  /\ Head(q) \in Updates /\ Tail(q) \in Seq(Updates)
         /\ Elements(q) = Elements(Tail(q)) \cup {Head(q)}
         /\ Rising(q, s) =>
              /\ Rising(Tail(q), s)
              /\ Head(q).sim = s =>
                   \A u \in Elements(Tail(q)) : u.sim = s => Head(q).stage < u.stage
<1>1. /\ Head(q) \in Updates /\ Tail(q) \in Seq(Updates) /\ Head(q) = q[1]
      /\ Len(q) \in Nat \ {0} /\ DOMAIN q = 1 .. Len(q)
      /\ DOMAIN Tail(q) = 1 .. Len(q) - 1 /\ \A i \in 1 .. Len(q) - 1 : Tail(q)[i] = q[i + 1]
  BY HeadTailProperties, LenProperties, EmptySeq
<1>2. /\ \A i \in 1 .. Len(q) - 1 : i + 1 \in 1 .. Len(q) /\ 1 < i + 1
      /\ \A i \in 1 .. Len(q) : i = 1 \/ \E j \in 1 .. Len(q) - 1 : i = j + 1
      /\ 1 \in 1 .. Len(q)
  <2>1. \A i \in 1 .. Len(q) : i # 1 => i - 1 \in 1 .. Len(q) - 1 /\ i = (i - 1) + 1
    BY <1>1
  <2> QED
    BY <1>1, <2>1
<1>3. Elements(q) \subseteq Elements(Tail(q)) \cup {Head(q)}
  <2> SUFFICES ASSUME NEW i \in 1 .. Len(q) PROVE q[i] \in Elements(Tail(q)) \cup {Head(q)}
    BY <1>1 DEF Elements
  <2>1. CASE i = 1
    BY <1>1, <2>1
  <2>2. CASE i # 1
    <3>1. PICK j \in 1 .. Len(q) - 1 : i = j + 1
      BY <1>2, <2>2
    <3> QED
      BY <1>1, <3>1 DEF Elements
  <2> QED
    BY <2>1, <2>2
<1>4. Elements(Tail(q)) \cup {Head(q)} \subseteq Elements(q)
  BY <1>1, <1>2 DEF Elements
<1>5. ASSUME Rising(q, s)
      PROVE  /\ Rising(Tail(q), s)
             /\ Head(q).sim = s =>
                  \A u \in Elements(Tail(q)) : u.sim = s => Head(q).stage < u.stage
  <2>1. Rising(Tail(q), s)
    <3> SUFFICES ASSUME NEW i \in 1 .. Len(q) - 1, NEW j \in 1 .. Len(q) - 1, i < j,
                        Tail(q)[i].sim = s, Tail(q)[j].sim = s
                 PROVE  Tail(q)[i].stage < Tail(q)[j].stage
      BY <1>1 DEF Rising
    <3>1. i + 1 \in DOMAIN q /\ j + 1 \in DOMAIN q /\ i + 1 < j + 1
      BY <1>1, <1>2
    <3> QED
      BY <1>1, <1>5, <3>1 DEF Rising
  <2>2. ASSUME Head(q).sim = s, NEW u \in Elements(Tail(q)), u.sim = s
        PROVE  Head(q).stage < u.stage
    <3>1. PICK i \in 1 .. Len(q) - 1 : u = Tail(q)[i]
      BY <1>1 DEF Elements
    <3>2. u = q[i + 1] /\ i + 1 \in DOMAIN q /\ 1 \in DOMAIN q /\ 1 < i + 1
      BY <1>1, <1>2, <3>1
    <3> QED
      BY <1>1, <1>5, <2>2, <3>2 DEF Rising
  <2> QED
    BY <2>1, <2>2
<1> QED
  BY <1>1, <1>3, <1>4, <1>5

\* What is in the pipeline is typed, and stages are numbers.
LEMMA PipelineTypes ==
  ASSUME StatusTypeOK, NEW s \in Sim
  PROVE  /\ mem[s] \in 0 .. 6 /\ file[s] \in 0 .. 6 /\ tmp[s] \in 0 .. 6
         /\ mem[s] # None => mem[s] \in 1 .. 6
         /\ \A u \in Queued(s) \cup Batched(s) : u \in Updates /\ u.sim = s /\ u.stage \in 2 .. 6
         /\ \A v \in Pending(s) : v \in SaveType /\ v.sim = s /\ v.stage \in 2 .. 6
<1>1. /\ mem[s] \in Stage /\ file[s] \in Saved \cup {None} /\ tmp[s] \in Saved \cup {None}
      /\ queue \in Seq(Updates) /\ batch \in Seq(Updates) /\ saves \subseteq SaveType
  BY DEF StatusTypeOK, SaveType
<1>2. /\ mem[s] \in 0 .. 6 /\ file[s] \in 0 .. 6 /\ tmp[s] \in 0 .. 6
      /\ mem[s] # None => mem[s] \in 1 .. 6
  BY <1>1 DEF Stage, Saved, None, Initialized, Failed
<1>3. \A u \in Queued(s) \cup Batched(s) : u \in Updates /\ u.sim = s
  BY <1>1, ElementOfSeq DEF Queued, Batched, Elements
<1>4. \A u \in Updates : u.stage \in 2 .. 6
  BY DEF Updates, Saved, Failed
<1>5. \A v \in Pending(s) : v \in SaveType /\ v.sim = s
  BY <1>1 DEF Pending
<1>6. \A v \in SaveType : v.stage \in 2 .. 6
  BY DEF SaveType, Saved, Failed
<1> QED
  BY <1>2, <1>3, <1>4, <1>5, <1>6

-----------------------------------------------------------------------------
(* The steps of one simulation *)

\* A step that leaves the pipeline of r as it is.
LEMMA ViewKeeps ==
  ASSUME NEW r \in Sim, SimOK(r), UNCHANGED <<engine, writer>>,
         Queued(r)' = Queued(r), Batched(r)' = Batched(r), Pending(r)' = Pending(r),
         Rising(queue, r) => Rising(queue, r)',
         mem'[r] = mem[r], file'[r] = file[r], tmp'[r] = tmp[r], content'[r] = content[r],
         proc'[r] = proc[r], r \in overlapped => r \in overlapped'
  PROVE  SimOK(r)'
<1>1. IdleOK(r)'
  BY DEF SimOK, IdleOK
<1>2. ASSUME r \notin overlapped' PROVE StagesOK(r)' /\ FilesOK(r)' /\ LatestOK(r)'
  <2>1. StagesOK(r)'
    BY <1>2 DEF SimOK, StagesOK
  <2>2. FilesOK(r)'
    BY <1>2 DEF SimOK, FilesOK
  <2>3. LatestOK(r)'
    BY <1>2 DEF SimOK, LatestOK
  <2> QED
    BY <2>1, <2>2, <2>3
<1> QED
  BY <1>1, <1>2 DEF SimOK

\* The same, for a step that changes variables of one simulation s only.
LEMMA OthersSame ==
  ASSUME NEW s \in Sim, NEW r \in Sim, r # s, SimOK(r), StatusTypeOK,
         UNCHANGED <<engine, writer, batch, queue, saves, overlapped>>,
         \E m : mem' = [mem EXCEPT ![s] = m], \E p : proc' = [proc EXCEPT ![s] = p],
         UNCHANGED diskVars
  PROVE  SimOK(r)'
<1>1. mem'[r] = mem[r] /\ proc'[r] = proc[r]
  BY DEF StatusTypeOK
<1>2. /\ Queued(r)' = Queued(r) /\ Batched(r)' = Batched(r) /\ Pending(r)' = Pending(r)
      /\ Rising(queue, r) => Rising(queue, r)'
  BY DEF Queued, Batched, Pending, Rising
<1> QED
  BY <1>1, <1>2, ViewKeeps DEF diskVars

\* Requests and the steps that only end a wait: no update is made.
LEMMA PlainStep ==
  ASSUME DiskInv, NEW s \in Sim, RequestStep(s) \/ SaveReturned(s) \/ TriggerWebhooks(s)
  PROVE  LifeOK' /\ \A r \in Sim : SimOK(r)'
<1>1. /\ StatusTypeOK /\ LifeOK /\ \A r \in Sim : SimOK(r)
      /\ engine = "up" /\ UNCHANGED <<engine, writer, batch, queue, saves, overlapped, diskVars>>
  BY DEF DiskInv, StatusInv, RequestStep, StartMatch, RegisterWebhook, SaveReturned, TriggerWebhooks,
     Running
<1>2. \/ UNCHANGED <<mem, proc>>
      \/ /\ mem' = [mem EXCEPT ![s] = Initialized] /\ proc' = [proc EXCEPT ![s] = "running"]
         /\ proc[s] = "none"
      \/ /\ mem' = mem /\ proc' = [proc EXCEPT ![s] = "running"]
         /\ proc[s] = "saving" /\ ~ \E v \in SavesOf("task") : v.sim = s
      \/ /\ mem' = mem /\ proc' = [proc EXCEPT ![s] = "ended"]
         /\ proc[s] = "running"
  BY DEF RequestStep, StartMatch, RegisterWebhook, SaveReturned, TriggerWebhooks, Running
<1>3. /\ Queued(s)' = Queued(s) /\ Batched(s)' = Batched(s) /\ Pending(s)' = Pending(s)
      /\ Rising(queue, s) => Rising(queue, s)'
  BY <1>1 DEF Queued, Batched, Pending, Rising
<1>4. \A r \in Sim : r # s => SimOK(r)'
  <2>1. (\E m : mem' = [mem EXCEPT ![s] = m]) /\ (\E p : proc' = [proc EXCEPT ![s] = p])
    BY <1>1, <1>2 DEF StatusTypeOK
  <2> QED
    BY <1>1, <2>1, OthersSame
<1>5. LifeOK'
  <2>1. ASSUME NEW v \in saves, v.by = "task" PROVE proc'[v.sim] = "saving"
    <3>1. proc[v.sim] = "saving" /\ v.sim \in Sim
      BY <1>1, <2>1 DEF LifeOK, StatusTypeOK
    <3>2. v.sim # s \/ UNCHANGED proc
      BY <1>2, <2>1, <3>1 DEF SavesOf
    <3> QED
      BY <1>1, <1>2, <3>1, <3>2 DEF StatusTypeOK
  <2>2. \A v \in saves : Batched(v.sim)' = Batched(v.sim)
    BY <1>1 DEF Batched
  <2> QED
    BY <1>1, <2>1, <2>2 DEF LifeOK
<1>6. SimOK(s)'
  <2>1. CASE UNCHANGED <<mem, proc>>
    BY <1>1, <1>3, <2>1, ViewKeeps DEF diskVars
  <2>2. CASE /\ mem' = [mem EXCEPT ![s] = Initialized] /\ proc' = [proc EXCEPT ![s] = "running"]
             /\ proc[s] = "none"
    <3>1. mem'[s] = Initialized /\ proc'[s] = "running" /\ Initialized = 1 /\ Initialized \notin Saved
      BY <1>1, <2>2 DEF StatusTypeOK, Initialized, Saved
    <3>2. /\ Queued(s) = {} /\ Batched(s) = {} /\ Pending(s) = {}
          /\ mem[s] = None /\ file[s] = None /\ tmp[s] = None /\ None = 0
      BY <1>1, <2>2 DEF SimOK, IdleOK, None
    <3>3. file' = file /\ tmp' = tmp /\ content' = content /\ overlapped' = overlapped
      BY <1>1 DEF diskVars
    <3>4. IdleOK(s)' /\ FilesOK(s)' /\ LatestOK(s)'
      BY <1>3, <3>1, <3>2, <3>3 DEF IdleOK, FilesOK, LatestOK
    <3>5. s \notin overlapped' => StagesOK(s)'
      BY <1>1, <1>3, <3>1, <3>2, <3>3 DEF SimOK, StagesOK
    <3> QED
      BY <3>4, <3>5 DEF SimOK
  <2>3. CASE /\ mem' = mem /\ proc'[s] \in {"running", "ended"} /\ proc[s] \in {"running", "saving"}
    <3>1. file' = file /\ tmp' = tmp /\ content' = content /\ overlapped' = overlapped
      BY <1>1 DEF diskVars
    <3>2. IdleOK(s)'
      BY <2>3 DEF IdleOK
    <3>3. ASSUME s \notin overlapped' PROVE StagesOK(s)' /\ FilesOK(s)' /\ LatestOK(s)'
      <4>1. StagesOK(s) /\ FilesOK(s) /\ LatestOK(s)
        BY <1>1, <3>1, <3>3 DEF SimOK
      <4>2. StagesOK(s)' /\ FilesOK(s)'
        BY <1>1, <1>3, <2>3, <3>1, <4>1 DEF StagesOK, FilesOK
      <4>3. LatestOK(s)'
        BY <1>1, <1>3, <2>3, <3>1, <4>1 DEF LatestOK
      <4> QED
        BY <4>2, <4>3
    <3> QED
      BY <3>2, <3>3 DEF SimOK
  <2> QED
    BY <1>1, <1>2, <2>1, <2>2, <2>3 DEF StatusTypeOK
<1> QED
  BY <1>4, <1>5, <1>6

\* A task reports a later stage: behind all others in the queue, or, with the
\* queue full, in a save of its own.
LEMMA ReportStep ==
  ASSUME DiskInv, NEW s \in Sim, NEW stage \in Saved, mem[s] < stage, Running(s),
         SetStatus(s, stage), UNCHANGED <<engine, writer, batch, diskVars>>
  PROVE  LifeOK' /\ \A r \in Sim : SimOK(r)'
<1> DEFINE u == Update(s, stage)
<1>1. /\ StatusTypeOK /\ LifeOK /\ \A r \in Sim : SimOK(r)
      /\ engine = "up" /\ proc[s] = "running"
      /\ file' = file /\ tmp' = tmp /\ content' = content
  BY DEF DiskInv, StatusInv, Running, diskVars
<1>2. /\ u \in Updates /\ u.sim = s /\ u.stage = stage /\ stage \in 2 .. 6
      /\ mem'[s] = stage /\ \A r \in Sim : r # s => mem'[r] = mem[r]
      /\ queue \in Seq(Updates) /\ mem[s] \in 0 .. 6 /\ file[s] \in 0 .. 6
  <2>1. stage \in 2 .. 6 /\ u \in Updates /\ u.sim = s /\ u.stage = stage
    BY DEF Saved, Failed, Update, Updates
  <2>2. mem' = [mem EXCEPT ![s] = stage]
    BY DEF SetStatus
  <2> QED
    BY <1>1, <2>1, <2>2, PipelineTypes DEF StatusTypeOK
<1>3. \A r \in Sim : Batched(r)' = Batched(r)
  BY DEF Batched
<1>4. \A v \in Pending(s) : v.by # "task"
  BY <1>1 DEF LifeOK, Pending
<1>5. CASE Len(queue) < QueueSize /\ queue' = Append(queue, u) /\ UNCHANGED <<proc, saves, overlapped>>
  <2>1. /\ Elements(queue') = Elements(queue) \cup {u}
        /\ \A r \in Sim : Rising(queue, r)
             /\ (r = s => \A w \in Elements(queue) : w.sim = r => w.stage < stage)
               => Rising(queue', r)
    BY <1>2, <1>5, AppendUpdate
  <2>2. /\ Queued(s)' = Queued(s) \cup {u} /\ \A r \in Sim : r # s => Queued(r)' = Queued(r)
        /\ \A r \in Sim : Pending(r)' = Pending(r)
    BY <1>2, <1>5, <2>1 DEF Queued, Pending
  <2>3. LifeOK'
    <3>1. \A v \in saves : v.sim \in Sim
      BY <1>1 DEF StatusTypeOK
    <3> QED
      BY <1>1, <1>3, <1>5, <3>1 DEF LifeOK
  <2>4. ASSUME NEW r \in Sim, r # s PROVE SimOK(r)'
    <3>1. Rising(queue, r) => Rising(queue, r)'
      BY <2>1, <2>4
    <3> QED
      BY <1>1, <1>2, <1>3, <1>5, <2>2, <2>4, <3>1, ViewKeeps
  <2>5. SimOK(s)'
    <3>1. IdleOK(s)'
      BY <1>1, <1>5 DEF IdleOK
    <3>2. ASSUME s \notin overlapped' PROVE StagesOK(s)' /\ FilesOK(s)' /\ LatestOK(s)'
      <4>1. StagesOK(s) /\ FilesOK(s) /\ LatestOK(s)
        BY <1>1, <1>5, <3>2 DEF SimOK
      <4>2. /\ \A w \in Queued(s) : w.stage <= mem[s] /\ file[s] < w.stage /\ w.stage \in 2 .. 6
            /\ \A b \in Batched(s) : b.stage <= mem[s] /\ b.stage \in 2 .. 6
            /\ \A v \in Pending(s) : v.stage <= mem[s] /\ v.stage \in 2 .. 6
            /\ file[s] <= mem[s]
        BY <1>1, <4>1, PipelineTypes DEF StagesOK
      <4>3. Rising(queue, s)'
        <5>1. \A w \in Elements(queue) : w.sim = s => w.stage < stage
          BY <1>2, <4>2 DEF Queued
        <5> QED
          BY <2>1, <4>1, <5>1 DEF StagesOK
      <4>4. StagesOK(s)'
        <5>1. /\ \A w \in Queued(s)' : w.stage <= stage /\ file[s] < w.stage
              /\ \A b \in Batched(s) : b.stage <= stage /\ \A w \in Queued(s)' : b.stage < w.stage
              /\ \A v \in Pending(s) : v.stage <= stage /\ \A w \in Queued(s)' : v.stage < w.stage
              /\ file[s] <= stage
          BY <1>2, <2>2, <4>1, <4>2 DEF StagesOK
        <5>2. /\ \A b \in Batched(s) : writer = "collecting" => file[s] < b.stage
              /\ \A v \in Pending(s) : file[s] < v.stage
          BY <4>1 DEF StagesOK
        <5> QED
          BY <1>1, <1>2, <1>3, <1>4, <1>5, <2>2, <4>3, <5>1, <5>2 DEF StagesOK
      <4>5. FilesOK(s)'
        BY <1>1, <1>5, <2>2, <4>1 DEF FilesOK
      <4>6. LatestOK(s)'
        BY <1>2, <2>2 DEF LatestOK
      <4> QED
        BY <4>4, <4>5, <4>6
    <3> QED
      BY <3>1, <3>2 DEF SimOK
  <2> QED
    BY <2>3, <2>4, <2>5
<1>6. CASE /\ saves' = saves \cup {Save(u, "task")} /\ proc' = [proc EXCEPT ![s] = "saving"]
           /\ overlapped' = IF \E v \in {queue[i] : i \in DOMAIN queue} \cup
                                        {batch[i] : i \in DOMAIN batch} \cup saves : v.sim = s
                             THEN overlapped \cup {s} ELSE overlapped
           /\ UNCHANGED queue
  <2> DEFINE w == Save(u, "task")
  <2>1. /\ w.sim = s /\ w.stage = stage /\ w.by = "task" /\ w.at = "opening"
        /\ proc'[s] = "saving" /\ \A r \in Sim : r # s => proc'[r] = proc[r]
    BY <1>1, <1>2, <1>6 DEF Save, StatusTypeOK
  <2>2. /\ \A r \in Sim : Queued(r)' = Queued(r) /\ (Rising(queue, r) => Rising(queue, r)')
        /\ \A r \in Sim : r # s => Pending(r)' = Pending(r)
        /\ Pending(s)' = Pending(s) \cup {w}
    BY <1>6, <2>1 DEF Queued, Pending, Rising
  <2>3. LifeOK'
    <3>1. \A v \in saves : v.sim \in Sim
      BY <1>1 DEF StatusTypeOK
    <3>2. \A v \in saves : v.by = "task" => v.sim # s
      BY <1>1 DEF LifeOK
    <3> QED
      BY <1>1, <1>3, <1>6, <2>1, <3>1, <3>2 DEF LifeOK
  <2>4. ASSUME NEW r \in Sim, r # s PROVE SimOK(r)'
    <3>1. r \in overlapped => r \in overlapped'
      BY <1>6
    <3> QED
      BY <1>1, <1>2, <1>3, <2>1, <2>2, <2>4, <3>1, ViewKeeps
  <2>5. SimOK(s)'
    <3>1. IdleOK(s)'
      BY <2>1 DEF IdleOK
    <3>2. ASSUME s \notin overlapped' PROVE StagesOK(s)' /\ FilesOK(s)' /\ LatestOK(s)'
      <4>1. /\ Queued(s) = {} /\ Batched(s) = {} /\ Pending(s) = {} /\ s \notin overlapped
        BY <1>6, <3>2 DEF Queued, Batched, Pending, Elements
      <4>2. StagesOK(s) /\ FilesOK(s)
        BY <1>1, <4>1 DEF SimOK
      <4>3. tmp[s] = None
        BY <1>1, <4>1, <4>2 DEF FilesOK
      <4>4. file[s] < stage
        BY <1>2, <4>2 DEF StagesOK
      <4>5. StagesOK(s)'
        BY <1>1, <1>2, <1>3, <2>1, <2>2, <4>1, <4>2, <4>4 DEF StagesOK
      <4>6. FilesOK(s)'
        BY <1>1, <2>1, <2>2, <4>1, <4>2, <4>3 DEF FilesOK
      <4>7. LatestOK(s)'
        BY <1>2, <2>1, <2>2 DEF LatestOK
      <4> QED
        BY <4>5, <4>6, <4>7
    <3> QED
      BY <3>1, <3>2 DEF SimOK
  <2> QED
    BY <2>3, <2>4, <2>5
<1> QED
  BY <1>5, <1>6 DEF SetStatus

LEMMA TaskDisk ==
  ASSUME DiskInv, NEW s \in Sim, TaskStep(s)
  PROVE  LifeOK' /\ \A r \in Sim : SimOK(r)'
<1>1. StatusTypeOK /\ StatusInv
  BY DEF DiskInv, StatusInv
<1>2. CASE Advance(s)
  <2>1. mem[s] \in Stage /\ mem[s] # None /\ mem[s] < Completed /\ Running(s)
    BY <1>1, <1>2 DEF Advance, Running, StatusInv, StatusTypeOK, TaskHasStatus
  <2>2. NextStage(s) \in Saved
    BY <1>1, <2>1, NextStageSaved, StatusAssumption
  <2>3. mem[s] < NextStage(s)
    BY <2>1 DEF NextStage, Stage, Saved, None, Initialized, Completed, Failed
  <2> QED
    BY <1>2, <2>1, <2>2, <2>3, ReportStep DEF Advance
<1>3. CASE Fail(s)
  <2>1. Failed \in Saved /\ mem[s] < Failed
    BY <1>3 DEF Fail, Saved, Failed
  <2> QED
    BY <1>3, <2>1, ReportStep DEF Fail
<1>4. CASE SaveReturned(s) \/ TriggerWebhooks(s)
  BY <1>4, PlainStep
<1> QED
  BY <1>2, <1>3, <1>4 DEF TaskStep

-----------------------------------------------------------------------------
(* The threads *)

\* A thread changes its own save and the paths and files of its simulation.
LEMMA ThreadAlone ==
  ASSUME DiskInv, NEW v \in saves,
         \A w \in saves' : w \in saves \/ (w.sim = v.sim /\ w.by = v.by),
         \A w \in saves : w = v \/ w \in saves',
         UNCHANGED <<engine, restarts, taskVars, queue, writer, batch, overlapped>>,
         \A r \in Sim : r # v.sim =>
           tmp'[r] = tmp[r] /\ file'[r] = file[r] /\ content'[r] = content[r],
         v.sim \notin overlapped => StagesOK(v.sim)' /\ FilesOK(v.sim)' /\ LatestOK(v.sim)'
  PROVE  LifeOK' /\ \A r \in Sim : SimOK(r)'
<1>1. /\ StatusTypeOK /\ LifeOK /\ \A r \in Sim : SimOK(r)
      /\ UNCHANGED <<mem, proc>>
  BY DEF DiskInv, StatusInv, taskVars
<1>2. \A r \in Sim : /\ Queued(r)' = Queued(r) /\ Batched(r)' = Batched(r)
                     /\ Rising(queue, r) => Rising(queue, r)'
  BY DEF Queued, Batched, Rising
<1>3. v.sim \in Sim
  BY <1>1 DEF StatusTypeOK
<1>4. LifeOK'
  <2>1. \A w \in saves' : \E x \in saves : w.sim = x.sim /\ w.by = x.by
    OBVIOUS
  <2>2. \A x \in saves : x.sim \in Sim
    BY <1>1 DEF StatusTypeOK
  <2>3. engine \notin {"stopped", "down"}
    BY <1>1 DEF LifeOK
  <2> QED
    BY <1>1, <1>2, <2>1, <2>2, <2>3 DEF LifeOK
<1>5. ASSUME NEW r \in Sim, r # v.sim PROVE SimOK(r)'
  <2>1. Pending(r)' = Pending(r)
    BY <1>5 DEF Pending
  <2> QED
    BY <1>1, <1>2, <1>5, <2>1, ViewKeeps
<1>6. SimOK(v.sim)'
  <2>1. Pending(v.sim) # {}
    BY DEF Pending
  <2>2. proc[v.sim] \notin {"none", "lost"}
    BY <1>1, <1>3, <2>1 DEF SimOK, IdleOK
  <2> QED
    BY <1>1, <2>2 DEF SimOK, IdleOK
<1> QED
  BY <1>4, <1>5, <1>6

LEMMA OpenDisk ==
  ASSUME DiskInv, NEW v \in saves, OpenTemp(v)
  PROVE  LifeOK' /\ \A r \in Sim : SimOK(r)'
<1> DEFINE s == v.sim
           fd == IF tmp[s] = None THEN v.stage ELSE tmp[s]
           w == [v EXCEPT !.at = "writing", !.fd = fd]
<1>1. /\ StatusTypeOK /\ LifeOK /\ v \in SaveType /\ s \in Sim /\ v \in Pending(s)
      /\ UNCHANGED <<mem, proc>> /\ SimOK(s)
  BY DEF DiskInv, StatusInv, StatusTypeOK, SaveType, Pending, OpenTemp, taskVars
<1>2. /\ tmp' = [tmp EXCEPT ![s] = fd] /\ file' = file
      /\ content' = [content EXCEPT ![s][fd] = Blank]
      /\ saves' = (saves \ {v}) \cup {w}
      /\ UNCHANGED <<engine, restarts, taskVars, queue, writer, batch, overlapped>>
      /\ v.at = "opening"
  BY DEF OpenTemp, Goto
<1>3. w.sim = s /\ w.by = v.by /\ w.stage = v.stage /\ w.at = "writing" /\ w.fd = fd
  BY <1>1 DEF SaveType
<1>4. /\ Queued(s)' = Queued(s) /\ Batched(s)' = Batched(s)
      /\ Rising(queue, s) => Rising(queue, s)'
  BY <1>2 DEF Queued, Batched, Rising
<1>5. ASSUME s \notin overlapped PROVE StagesOK(s)' /\ FilesOK(s)' /\ LatestOK(s)'
  <2>1. StagesOK(s) /\ FilesOK(s) /\ LatestOK(s)
    BY <1>1, <1>5 DEF SimOK
  <2>2. Pending(s)' = {w} /\ Pending(s) = {v}
    BY <1>1, <1>2, <1>3, <2>1 DEF FilesOK, Pending
  <2>3. tmp[s] = None /\ fd = v.stage
    BY <1>1, <1>2, <2>1 DEF FilesOK
  <2>4. /\ tmp'[s] = v.stage /\ content'[s][v.stage] = Blank
        /\ \A f \in Saved : f # v.stage => content'[s][f] = content[s][f]
    BY <1>1, <1>2, <2>3 DEF StatusTypeOK, SaveType
  <2>5. file[s] \in Saved \cup {None} /\ file[s] # v.stage
    <3>1. file[s] < v.stage /\ v.stage \in 2 .. 6 /\ file[s] \in 0 .. 6
      BY <1>1, <2>1, PipelineTypes DEF StagesOK
    <3> QED
      BY <1>1, <3>1 DEF StatusTypeOK
  <2>6. StagesOK(s)'
    BY <1>1, <1>2, <1>3, <1>4, <2>1, <2>2 DEF StagesOK
  <2>7. FilesOK(s)'
    BY <1>1, <1>2, <1>3, <2>1, <2>2, <2>3, <2>4, <2>5 DEF FilesOK
  <2>8. LatestOK(s)'
    BY <1>1, <1>2, <1>3, <1>4, <2>1, <2>2 DEF LatestOK
  <2> QED
    BY <2>6, <2>7, <2>8
<1>6. \A r \in Sim : r # s =>
        tmp'[r] = tmp[r] /\ file'[r] = file[r] /\ content'[r] = content[r]
  BY <1>1, <1>2 DEF StatusTypeOK
<1>7. /\ \A x \in saves' : x \in saves \/ (x.sim = v.sim /\ x.by = v.by)
      /\ \A x \in saves : x = v \/ x \in saves'
  BY <1>2, <1>3
<1> QED
  BY <1>2, <1>5, <1>6, <1>7, ThreadAlone

LEMMA WriteDisk ==
  ASSUME DiskInv, NEW v \in saves, WriteTemp(v)
  PROVE  LifeOK' /\ \A r \in Sim : SimOK(r)'
<1> DEFINE s == v.sim
           old == content[s][v.fd].length
           new == [text |-> v.stage, length |-> IF v.stage < old THEN old ELSE v.stage]
           w == [v EXCEPT !.at = "replacing"]
<1>1. /\ StatusTypeOK /\ LifeOK /\ v \in SaveType /\ s \in Sim /\ v \in Pending(s)
      /\ UNCHANGED <<mem, proc>> /\ SimOK(s)
  BY DEF DiskInv, StatusInv, StatusTypeOK, SaveType, Pending, WriteTemp, taskVars
<1>2. /\ tmp' = tmp /\ file' = file
      /\ content' = [content EXCEPT ![s][v.fd] = new]
      /\ saves' = (saves \ {v}) \cup {w}
      /\ UNCHANGED <<engine, restarts, taskVars, queue, writer, batch, overlapped>>
      /\ v.at = "writing"
  BY DEF WriteTemp, Goto
<1>3. w.sim = s /\ w.by = v.by /\ w.stage = v.stage /\ w.at = "replacing"
  BY <1>1 DEF SaveType
<1>4. /\ Queued(s)' = Queued(s) /\ Batched(s)' = Batched(s)
      /\ Rising(queue, s) => Rising(queue, s)'
  BY <1>2 DEF Queued, Batched, Rising
<1>5. ASSUME s \notin overlapped PROVE StagesOK(s)' /\ FilesOK(s)' /\ LatestOK(s)'
  <2>1. StagesOK(s) /\ FilesOK(s) /\ LatestOK(s)
    BY <1>1, <1>5 DEF SimOK
  <2>2. Pending(s)' = {w} /\ Pending(s) = {v}
    BY <1>1, <1>2, <1>3, <2>1 DEF FilesOK, Pending
  <2>3. tmp[s] = v.stage /\ v.fd = v.stage /\ content[s][v.stage] = Blank
    BY <1>1, <1>2, <2>1 DEF FilesOK
  <2>4. new = [text |-> v.stage, length |-> v.stage]
    <3>1. old = 0 /\ v.stage \in 2 .. 6
      BY <1>1, <2>3, PipelineTypes DEF Blank
    <3> QED
      BY <3>1
  <2>5. /\ content'[s][v.stage] = [text |-> v.stage, length |-> v.stage]
        /\ \A f \in Saved : f # v.stage => content'[s][f] = content[s][f]
    <3> HIDE DEF new
    <3>1. v.stage \in Saved
      BY <1>1 DEF SaveType
    <3> QED
      BY <1>1, <1>2, <2>3, <2>4, <3>1 DEF StatusTypeOK
  <2>6. file[s] \in Saved \cup {None} /\ file[s] # v.stage
    <3>1. file[s] < v.stage /\ v.stage \in 2 .. 6 /\ file[s] \in 0 .. 6
      BY <1>1, <2>1, PipelineTypes DEF StagesOK
    <3> QED
      BY <1>1, <3>1 DEF StatusTypeOK
  <2>7. StagesOK(s)'
    BY <1>1, <1>2, <1>3, <1>4, <2>1, <2>2 DEF StagesOK
  <2>8. FilesOK(s)'
    BY <1>1, <1>2, <1>3, <2>1, <2>2, <2>3, <2>5, <2>6 DEF FilesOK
  <2>9. LatestOK(s)'
    BY <1>1, <1>2, <1>3, <1>4, <2>1, <2>2 DEF LatestOK
  <2> QED
    BY <2>7, <2>8, <2>9
<1>6. \A r \in Sim : r # s =>
        tmp'[r] = tmp[r] /\ file'[r] = file[r] /\ content'[r] = content[r]
  <2> HIDE DEF new
  <2> QED
    BY <1>1, <1>2 DEF StatusTypeOK
<1>7. /\ \A x \in saves' : x \in saves \/ (x.sim = v.sim /\ x.by = v.by)
      /\ \A x \in saves : x = v \/ x \in saves'
  BY <1>2, <1>3
<1> QED
  BY <1>2, <1>5, <1>6, <1>7, ThreadAlone

\* The move shows the stage of the save, which is later than what the file held.
LEMMA ReplaceDisk ==
  ASSUME DiskInv, NEW v \in saves, Replace(v)
  PROVE  /\ LifeOK' /\ \A r \in Sim : SimOK(r)'
         /\ v.sim \notin overlapped => file'[v.sim] = v.stage
<1> DEFINE s == v.sim
           w == [v EXCEPT !.at = "removing"]
<1>1. /\ StatusTypeOK /\ LifeOK /\ v \in SaveType /\ s \in Sim /\ v \in Pending(s)
      /\ UNCHANGED <<mem, proc>> /\ SimOK(s)
  BY DEF DiskInv, StatusInv, StatusTypeOK, SaveType, Pending, Replace, taskVars
<1>2. /\ content' = content /\ v.at = "replacing"
      /\ UNCHANGED <<engine, restarts, taskVars, queue, writer, batch, overlapped>>
  BY DEF Replace
<1>3. \/ /\ tmp[s] # None
         /\ file' = [file EXCEPT ![s] = tmp[s]] /\ tmp' = [tmp EXCEPT ![s] = None]
         /\ saves' = saves \ {v}
      \/ /\ tmp[s] = None /\ saves' = (saves \ {v}) \cup {w}
         /\ UNCHANGED <<file, tmp>>
  BY DEF Replace, Goto
<1>4. /\ Queued(s)' = Queued(s) /\ Batched(s)' = Batched(s)
      /\ Rising(queue, s) => Rising(queue, s)'
  BY <1>2 DEF Queued, Batched, Rising
<1>5. ASSUME s \notin overlapped
      PROVE  StagesOK(s)' /\ FilesOK(s)' /\ LatestOK(s)' /\ file'[s] = v.stage
  <2>1. StagesOK(s) /\ FilesOK(s) /\ LatestOK(s)
    BY <1>1, <1>5 DEF SimOK
  <2>2. tmp[s] = v.stage /\ content[s][v.stage] = [text |-> v.stage, length |-> v.stage]
    BY <1>1, <1>2, <2>1 DEF FilesOK
  <2>3. v.stage \in 2 .. 6 /\ None = 0
    BY <1>1, PipelineTypes DEF None
  <2>4. file'[s] = v.stage /\ tmp'[s] = None /\ saves' = saves \ {v}
    BY <1>1, <1>3, <2>2, <2>3 DEF StatusTypeOK
  <2>5. Pending(s) = {v}
    BY <1>1, <2>1 DEF FilesOK
  <2>6. Pending(s)' = {}
    BY <2>4, <2>5 DEF Pending
  <2>7. writer = "collecting" => Batched(s) = {}
    BY <1>1, <2>1 DEF LifeOK, StagesOK, SaveType, StatusTypeOK
  <2>8. proc[s] \notin {"none", "lost"}
    BY <1>1, <2>5 DEF SimOK, IdleOK
  <2>9. StagesOK(s)'
    BY <1>1, <1>2, <1>4, <2>1, <2>4, <2>6, <2>7, <2>8 DEF StagesOK
  <2>10. FilesOK(s)'
    BY <1>2, <2>2, <2>4, <2>6 DEF FilesOK
  <2>11. LatestOK(s)'
    <3>1. file[s] = mem[s] => FALSE
      <4>1. file[s] < v.stage /\ v.stage <= mem[s] /\ mem[s] \in 0 .. 6 /\ file[s] \in 0 .. 6
        BY <1>1, <2>1, PipelineTypes DEF StagesOK
      <4> QED
        BY <2>3, <4>1
    <3> QED
      BY <1>1, <1>2, <1>4, <2>1, <2>4, <2>5, <3>1 DEF LatestOK
  <2> QED
    BY <2>4, <2>9, <2>10, <2>11
<1>6. \A r \in Sim : r # s =>
        tmp'[r] = tmp[r] /\ file'[r] = file[r] /\ content'[r] = content[r]
  BY <1>1, <1>2, <1>3 DEF StatusTypeOK
<1>7. /\ \A x \in saves' : x \in saves \/ (x.sim = v.sim /\ x.by = v.by)
      /\ \A x \in saves : x = v \/ x \in saves'
  <2>1. w.sim = s /\ w.by = v.by
    BY <1>1 DEF SaveType
  <2> QED
    BY <1>3, <2>1
<1> QED
  BY <1>2, <1>5, <1>6, <1>7, ThreadAlone

LEMMA RemoveDisk ==
  ASSUME DiskInv, NEW v \in saves, RemoveTemp(v)
  PROVE  /\ LifeOK' /\ \A r \in Sim : SimOK(r)'
<1> DEFINE s == v.sim
<1>1. /\ StatusTypeOK /\ s \in Sim /\ v \in Pending(s) /\ SimOK(s)
  BY DEF DiskInv, StatusInv, StatusTypeOK, Pending
<1>2. /\ tmp' = [tmp EXCEPT ![s] = None] /\ saves' = saves \ {v} /\ v.at = "removing"
      /\ UNCHANGED <<engine, restarts, taskVars, queue, writer, batch, file, content, overlapped>>
  BY DEF RemoveTemp
<1>3. s \in overlapped
  BY <1>1, <1>2 DEF SimOK, FilesOK
<1>4. \A r \in Sim : r # s => tmp'[r] = tmp[r]
  BY <1>1, <1>2 DEF StatusTypeOK
<1> QED
  BY <1>2, <1>3, <1>4, ThreadAlone

LEMMA SaveStepDisk ==
  ASSUME DiskInv, NEW v \in saves, SaveStep(v)
  PROVE  LifeOK' /\ \A r \in Sim : SimOK(r)'
  BY OpenDisk, WriteDisk, ReplaceDisk, RemoveDisk DEF SaveStep

-----------------------------------------------------------------------------
(* The writer *)

LEMMA CollectDisk ==
  ASSUME DiskInv, WriterCollect
  PROVE  LifeOK' /\ \A r \in Sim : SimOK(r)'
<1> DEFINE u == Head(queue)
<1>1. /\ StatusTypeOK /\ LifeOK /\ \A r \in Sim : SimOK(r)
      /\ engine = "up" /\ writer = "collecting"
      /\ UNCHANGED <<engine, writer, mem, proc, saves, tmp, file, content, overlapped>>
      /\ queue \in Seq(Updates) /\ queue # <<>> /\ batch \in Seq(Updates)
      /\ batch' = Append(batch, u) /\ queue' = Tail(queue)
  BY DEF DiskInv, StatusInv, StatusTypeOK, WriterCollect, taskVars, diskVars
<1>2. ASSUME NEW s \in Sim
      PROVE  /\ u \in Updates /\ Elements(queue) = Elements(queue') \cup {u}
             /\ Elements(batch') = Elements(batch) \cup {u}
             /\ Rising(queue, s) => /\ Rising(queue', s)
                                    /\ u.sim = s => \A w \in Queued(s)' : u.stage < w.stage
  BY <1>1, TakeUpdate, AppendUpdate DEF Queued
<1>3. \A s \in Sim : /\ Pending(s)' = Pending(s)
                     /\ Queued(s)' \subseteq Queued(s) /\ Batched(s) \subseteq Batched(s)'
                     /\ \A w \in Queued(s) : w \in Queued(s)' \/ w = u
                     /\ \A b \in Batched(s)' : b \in Batched(s) \/ (b = u /\ u \in Queued(s))
                     /\ u \in Queued(s) => u \in Batched(s)'
  BY <1>1, <1>2 DEF Pending, Queued, Batched
<1>4. LifeOK'
  BY <1>1 DEF LifeOK
<1>5. ASSUME NEW s \in Sim PROVE SimOK(s)'
  <2>1. IdleOK(s)'
    <3>1. proc[s] \in {"none", "lost"} => Queued(s)' = {} /\ Batched(s)' = {} /\ Pending(s)' = {}
      BY <1>1, <1>3 DEF SimOK, IdleOK
    <3> QED
      BY <1>1, <3>1 DEF SimOK, IdleOK
  <2>2. ASSUME s \notin overlapped' PROVE StagesOK(s)' /\ FilesOK(s)' /\ LatestOK(s)'
    <3>1. StagesOK(s) /\ FilesOK(s) /\ LatestOK(s)
      BY <1>1, <2>2 DEF SimOK
    <3>2. Rising(queue, s)'
      BY <1>2, <3>1 DEF StagesOK
    <3>3. ASSUME NEW b \in Batched(s)'
          PROVE  /\ b.stage <= mem[s] /\ file[s] < b.stage
                 /\ \A w \in Queued(s)' : b.stage < w.stage
      <4>1. CASE b \in Batched(s)
        BY <1>1, <1>3, <3>1, <4>1 DEF StagesOK
      <4>2. CASE b = u /\ u \in Queued(s)
        <5>1. u.sim = s
          BY <4>2 DEF Queued
        <5>2. Rising(queue, s) /\ u.stage <= mem[s] /\ file[s] < u.stage
          BY <3>1, <4>2 DEF StagesOK
        <5> QED
          BY <1>2, <4>2, <5>1, <5>2
      <4> QED
        BY <1>3, <4>1, <4>2
    <3>4. \A v \in Pending(s) : v.by = "task" => Queued(s)' = {} /\ Batched(s)' = {}
      BY <1>3, <3>1 DEF StagesOK
    <3>5. StagesOK(s)'
      BY <1>1, <1>3, <3>1, <3>2, <3>3, <3>4 DEF StagesOK
    <3>6. FilesOK(s)'
      BY <1>1, <1>3, <3>1 DEF FilesOK
    <3>7. LatestOK(s)'
      BY <1>1, <1>3, <3>1 DEF LatestOK
    <3> QED
      BY <3>5, <3>6, <3>7
  <2> QED
    BY <2>1, <2>2 DEF SimOK
<1> QED
  BY <1>4, <1>5

\* Saves that start together: a simulation of which none can overtake another
\* has one save, the only one it had an update for.
LEMMA SaveAllOnce ==
  ASSUME NEW q \in Seq(Updates), NEW owner, NEW running, SaveAll(q, owner, running),
         NEW s \in Sim
  PROVE  /\ overlapped \subseteq overlapped'
         /\ \A v \in saves' : v \in running \/ \E u \in Elements(q) : v = Save(u, owner)
         /\ \A v \in running : v \in saves'
         /\ \A u \in Elements(q) : Save(u, owner) \in saves'
         /\ s \notin overlapped' =>
              /\ \A u, w \in Elements(q) : u.sim = s /\ w.sim = s => u = w
              /\ \A u \in Elements(q), v \in running : u.sim = s => v.sim # s
<1>1. /\ saves' = running \cup {Save(q[i], owner) : i \in DOMAIN q}
      /\ overlapped' = overlapped \cup Overlapping(q, running)
  BY DEF SaveAll
<1>2. /\ \A v \in saves' : v \in running \/ \E u \in Elements(q) : v = Save(u, owner)
      /\ \A u \in Elements(q) : Save(u, owner) \in saves'
  BY <1>1 DEF Elements
<1>3. ASSUME s \notin overlapped'
      PROVE  /\ \A u, w \in Elements(q) : u.sim = s /\ w.sim = s => u = w
             /\ \A u \in Elements(q), v \in running : u.sim = s => v.sim # s
  <2>1. \A i \in DOMAIN q : q[i].sim = s =>
          /\ \A j \in DOMAIN q : q[j].sim = s => j = i
          /\ \A v \in running : v.sim # s
    BY <1>1, <1>3 DEF Overlapping
  <2> QED
    BY <2>1 DEF Elements
<1> QED
  BY <1>1, <1>2, <1>3

\* A save that starts with the temporary path free.
LEMMA NewSave ==
  ASSUME NEW u \in Updates, NEW owner
  PROVE  /\ Save(u, owner).sim = u.sim /\ Save(u, owner).stage = u.stage
         /\ Save(u, owner).by = owner /\ Save(u, owner).at = "opening"
  BY DEF Save

LEMMA FlushDisk ==
  ASSUME DiskInv, WriterFlush
  PROVE  LifeOK' /\ \A r \in Sim : SimOK(r)'
<1>1. /\ StatusTypeOK /\ LifeOK /\ \A r \in Sim : SimOK(r)
      /\ engine = "up" /\ writer = "collecting" /\ writer' = "writing"
      /\ UNCHANGED <<engine, mem, proc, queue, batch, tmp, file, content>>
      /\ SaveAll(batch, "writer", saves) /\ batch \in Seq(Updates)
  BY DEF DiskInv, StatusInv, StatusTypeOK, WriterFlush, taskVars, diskVars
<1>2. ASSUME NEW s \in Sim
      PROVE  /\ s \in overlapped => s \in overlapped'
             /\ \A v \in Pending(s)' : v \in Pending(s) \/ \E u \in Batched(s) : v = Save(u, "writer")
             /\ \A v \in Pending(s) : v \in Pending(s)'
             /\ \A u \in Batched(s) : Save(u, "writer") \in Pending(s)'
             /\ s \notin overlapped' =>
                  /\ \A u, w \in Batched(s) : u = w
                  /\ Batched(s) # {} => Pending(s) = {}
  <2>1. \A u \in Elements(batch) : u \in Updates /\ Save(u, "writer").sim = u.sim
    BY <1>1, NewSave, ElementOfSeq DEF Elements
  <2>2. /\ overlapped \subseteq overlapped'
        /\ \A v \in saves' : v \in saves \/ \E u \in Elements(batch) : v = Save(u, "writer")
        /\ \A v \in saves : v \in saves'
        /\ \A u \in Elements(batch) : Save(u, "writer") \in saves'
        /\ s \notin overlapped' =>
             /\ \A u, w \in Elements(batch) : u.sim = s /\ w.sim = s => u = w
             /\ \A u \in Elements(batch), v \in saves : u.sim = s => v.sim # s
    BY <1>1, SaveAllOnce
  <2> QED
    BY <2>1, <2>2 DEF Pending, Batched
<1>3. \A s \in Sim : /\ Queued(s)' = Queued(s) /\ Batched(s)' = Batched(s)
                     /\ Rising(queue, s) => Rising(queue, s)'
  BY <1>1 DEF Queued, Batched, Rising
<1>4. LifeOK'
  <2>1. ASSUME NEW v \in saves'
        PROVE  \/ v \in saves /\ v.by # "writer"
               \/ v.by = "writer" /\ Batched(v.sim) # {}
    <3>1. \A w \in saves : w.by # "writer"
      BY <1>1 DEF LifeOK
    <3>2. v \in saves \/ \E u \in Elements(batch) : v = Save(u, "writer")
      BY <1>1, SaveAllOnce DEF SaveAll, Elements
    <3>3. ASSUME NEW u \in Elements(batch), v = Save(u, "writer")
          PROVE  v.by = "writer" /\ Batched(v.sim) # {}
      <4>1. u \in Updates
        BY <1>1, ElementOfSeq DEF Elements
      <4> QED
        BY <3>3, <4>1, NewSave DEF Batched
    <3> QED
      BY <3>1, <3>2, <3>3
  <2>2. \A v \in saves' : Batched(v.sim)' = Batched(v.sim)
    BY <1>1 DEF Batched
  <2> QED
    BY <1>1, <2>1, <2>2 DEF LifeOK
<1>5. ASSUME NEW s \in Sim PROVE SimOK(s)'
  <2>1. IdleOK(s)'
    <3>1. proc[s] \in {"none", "lost"} => Queued(s)' = {} /\ Batched(s)' = {} /\ Pending(s)' = {}
      BY <1>1, <1>2, <1>3 DEF SimOK, IdleOK
    <3> QED
      BY <1>1, <3>1 DEF SimOK, IdleOK
  <2>2. ASSUME s \notin overlapped' PROVE StagesOK(s)' /\ FilesOK(s)' /\ LatestOK(s)'
    <3>1. StagesOK(s) /\ FilesOK(s) /\ LatestOK(s)
      BY <1>1, <1>2, <2>2 DEF SimOK
    <3>2. ASSUME NEW b \in Batched(s)
          PROVE  /\ Save(b, "writer").stage = b.stage /\ Save(b, "writer").by = "writer"
                 /\ Save(b, "writer").at = "opening"
      BY <1>1, PipelineTypes, NewSave
    <3>3. CASE Batched(s) = {}
      <4>1. Pending(s)' = Pending(s)
        BY <1>2, <3>3
      <4>2. StagesOK(s)' /\ FilesOK(s)'
        BY <1>1, <1>3, <3>1, <3>3, <4>1 DEF StagesOK, FilesOK
      <4>3. LatestOK(s)'
        BY <1>1, <1>3, <3>1, <3>3, <4>1 DEF LatestOK
      <4> QED
        BY <4>2, <4>3
    <3>4. CASE Batched(s) # {}
      <4>1. PICK b \in Batched(s) : TRUE
        BY <3>4
      <4>2. Batched(s) = {b} /\ Pending(s) = {}
        BY <1>2, <2>2, <4>1
      <4>3. Pending(s)' = {Save(b, "writer")}
        BY <1>2, <4>1, <4>2
      <4>4. proc[s] \notin {"none", "lost"} /\ tmp[s] = None
        BY <1>1, <3>1, <4>1, <4>2 DEF SimOK, IdleOK, FilesOK
      <4>5. StagesOK(s)'
        BY <1>1, <1>3, <3>1, <3>2, <4>1, <4>3 DEF StagesOK
      <4>6. FilesOK(s)'
        BY <1>1, <3>1, <3>2, <4>3, <4>4 DEF FilesOK
      <4>7. LatestOK(s)'
        BY <1>1, <1>3, <3>1, <3>2, <4>2, <4>3 DEF LatestOK
      <4> QED
        BY <4>5, <4>6, <4>7
    <3> QED
      BY <3>3, <3>4
  <2> QED
    BY <2>1, <2>2 DEF SimOK
<1> QED
  BY <1>4, <1>5

LEMMA FlushedDisk ==
  ASSUME DiskInv, WriterFlushed
  PROVE  LifeOK' /\ \A r \in Sim : SimOK(r)'
<1>1. /\ StatusTypeOK /\ LifeOK /\ \A r \in Sim : SimOK(r)
      /\ engine = "up" /\ writer = "writing" /\ writer' = "collecting"
      /\ \A v \in saves : v.by # "writer"
      /\ batch' = <<>>
      /\ UNCHANGED <<engine, mem, proc, queue, saves, tmp, file, content, overlapped>>
  BY DEF DiskInv, StatusInv, WriterFlushed, taskVars, diskVars, SavesOf
<1>2. \A s \in Sim : /\ Queued(s)' = Queued(s) /\ Batched(s)' = {} /\ Pending(s)' = Pending(s)
                     /\ Rising(queue, s) => Rising(queue, s)'
  BY <1>1 DEF Queued, Batched, Pending, Rising, Elements
<1>3. LifeOK'
  BY <1>1 DEF LifeOK
<1>4. ASSUME NEW s \in Sim PROVE SimOK(s)'
  <2>1. IdleOK(s)'
    BY <1>1, <1>2 DEF SimOK, IdleOK
  <2>2. ASSUME s \notin overlapped' PROVE StagesOK(s)' /\ FilesOK(s)' /\ LatestOK(s)'
    <3>1. StagesOK(s) /\ FilesOK(s) /\ LatestOK(s)
      BY <1>1, <2>2 DEF SimOK
    <3>2. StagesOK(s)' /\ FilesOK(s)'
      BY <1>1, <1>2, <3>1 DEF StagesOK, FilesOK
    <3>3. LatestOK(s)'
      BY <1>1, <1>2, <3>1 DEF LatestOK
    <3> QED
      BY <3>2, <3>3
  <2> QED
    BY <2>1, <2>2 DEF SimOK
<1> QED
  BY <1>3, <1>4

-----------------------------------------------------------------------------
(* The end of the engine, and its next start *)

\* A save that is cancelled had not opened its file, and its update is still in
\* the writer's batch; what is queued is saved instead.
LEMMA CleanupDisk ==
  ASSUME DiskInv, Cleanup
  PROVE  LifeOK' /\ \A r \in Sim : SimOK(r)'
<1>1. /\ StatusTypeOK /\ LifeOK /\ \A r \in Sim : SimOK(r)
      /\ engine = "up" /\ engine' = "saving" /\ writer' = "cancelled"
      /\ queue' = <<>> /\ queue \in Seq(Updates)
      /\ \A s \in Sim : proc[s] \in {"none", "ended", "lost"}
      /\ UNCHANGED <<mem, proc, batch, tmp, file, content>>
  BY DEF DiskInv, StatusInv, StatusTypeOK, Cleanup, Quiet, taskVars, diskVars
<1>2. PICK C \in SUBSET {v \in SavesOf("writer") : v.at = "opening"} :
        SaveAll(queue, "cleanup", saves \ C)
  BY DEF Cleanup
<1>3. ASSUME NEW s \in Sim
      PROVE  /\ s \in overlapped => s \in overlapped'
             /\ \A v \in Pending(s)' : \/ v \in Pending(s) /\ v \notin C
                                       \/ \E u \in Queued(s) : v = Save(u, "cleanup")
             /\ \A v \in Pending(s) : v \in C \/ v \in Pending(s)'
             /\ \A u \in Queued(s) : Save(u, "cleanup") \in Pending(s)'
             /\ s \notin overlapped' =>
                  /\ \A u, w \in Queued(s) : u = w
                  /\ Queued(s) # {} => Pending(s) \subseteq C
  <2>1. \A u \in Elements(queue) : u \in Updates /\ Save(u, "cleanup").sim = u.sim
    BY <1>1, NewSave, ElementOfSeq DEF Elements
  <2>2. /\ overlapped \subseteq overlapped'
        /\ \A v \in saves' : v \in saves \ C \/ \E u \in Elements(queue) : v = Save(u, "cleanup")
        /\ \A v \in saves \ C : v \in saves'
        /\ \A u \in Elements(queue) : Save(u, "cleanup") \in saves'
        /\ s \notin overlapped' =>
             /\ \A u, w \in Elements(queue) : u.sim = s /\ w.sim = s => u = w
             /\ \A u \in Elements(queue), v \in saves \ C : u.sim = s => v.sim # s
    BY <1>1, <1>2, SaveAllOnce
  <2> QED
    BY <2>1, <2>2 DEF Pending, Queued
<1>4. \A s \in Sim : Queued(s)' = {} /\ Rising(queue, s)' /\ Batched(s)' = Batched(s)
  BY <1>1 DEF Queued, Rising, Batched, Elements
<1>5. \A v \in C : v.by = "writer" /\ v.at = "opening" /\ v \in saves /\ Batched(v.sim) # {}
  BY <1>1, <1>2 DEF SavesOf, LifeOK
<1>6. LifeOK'
  <2>1. \A v \in saves' : v \in saves \/ v.by = "cleanup"
    <3>1. \A v \in saves' : v \in saves \ C \/ \E u \in Elements(queue) : v = Save(u, "cleanup")
      BY <1>2 DEF SaveAll, Elements
    <3>2. \A u \in Elements(queue) : u \in Updates
      BY <1>1, ElementOfSeq DEF Elements
    <3> QED
      BY <3>1, <3>2, NewSave
  <2>2. \A v \in saves : v.by # "task" /\ v.sim \in Sim
    BY <1>1 DEF LifeOK, StatusTypeOK
  <2> QED
    BY <1>1, <2>1, <2>2 DEF LifeOK
<1>7. ASSUME NEW s \in Sim PROVE SimOK(s)'
  <2>1. IdleOK(s)'
    <3>1. proc[s] \in {"none", "lost"} => Queued(s)' = {} /\ Batched(s)' = {} /\ Pending(s)' = {}
      BY <1>1, <1>3, <1>4 DEF SimOK, IdleOK
    <3> QED
      BY <1>1, <3>1 DEF SimOK, IdleOK
  <2>2. ASSUME s \notin overlapped' PROVE StagesOK(s)' /\ FilesOK(s)' /\ LatestOK(s)'
    <3>1. StagesOK(s) /\ FilesOK(s) /\ LatestOK(s)
      BY <1>1, <1>3, <2>2 DEF SimOK
    <3>2. \A v \in Pending(s) : v \in C => tmp[s] = None /\ Batched(s) # {}
      BY <1>5, <3>1 DEF FilesOK, Pending
    <3>3. CASE Queued(s) = {}
      <4>1. Pending(s)' \subseteq Pending(s)
        BY <1>3, <3>3
      <4>2. StagesOK(s)'
        BY <1>1, <1>4, <3>1, <3>3, <4>1 DEF StagesOK
      <4>3. FilesOK(s)'
        BY <1>1, <1>3, <3>1, <3>2, <4>1 DEF FilesOK
      <4>4. LatestOK(s)'
        <5>1. ASSUME NEW v \in Pending(s), v.stage = mem[s]
              PROVE  Batched(s) # {} \/ v \in Pending(s)'
          BY <1>3, <3>2
        <5> QED
          BY <1>1, <1>3, <1>4, <3>1, <3>3, <4>1, <5>1 DEF LatestOK
      <4> QED
        BY <4>2, <4>3, <4>4
    <3>4. CASE Queued(s) # {}
      <4>1. PICK u \in Queued(s) : TRUE
        BY <3>4
      <4>2. Queued(s) = {u} /\ Pending(s) \subseteq C
        BY <1>3, <2>2, <4>1
      <4>3. Pending(s)' = {Save(u, "cleanup")}
        BY <1>3, <4>1, <4>2
      <4>4. /\ Save(u, "cleanup").stage = u.stage /\ Save(u, "cleanup").by = "cleanup"
            /\ Save(u, "cleanup").at = "opening"
        BY <1>1, <4>1, PipelineTypes, NewSave
      <4>5. proc[s] \notin {"none", "lost"}
        BY <1>1, <4>1 DEF SimOK, IdleOK
      <4>6. tmp[s] = None
        BY <1>1, <3>1, <3>2, <4>2, <4>5 DEF FilesOK
      <4>7. StagesOK(s)'
        BY <1>1, <1>4, <3>1, <4>1, <4>3, <4>4 DEF StagesOK
      <4>8. FilesOK(s)'
        BY <1>1, <3>1, <4>3, <4>4, <4>6 DEF FilesOK
      <4>9. LatestOK(s)'
        <5>1. ASSUME NEW v \in Pending(s) PROVE Batched(s) # {}
          BY <3>2, <4>2
        <5> QED
          BY <1>1, <1>4, <3>1, <4>2, <4>3, <4>4, <5>1 DEF LatestOK
      <4> QED
        BY <4>7, <4>8, <4>9
    <3> QED
      BY <3>3, <3>4
  <2> QED
    BY <2>1, <2>2 DEF SimOK
<1> QED
  BY <1>6, <1>7

LEMMA StopDisk ==
  ASSUME DiskInv, Stopped \/ Kill
  PROVE  LifeOK' /\ \A r \in Sim : SimOK(r)'
<1>1. /\ LifeOK /\ \A r \in Sim : SimOK(r)
      /\ saves' = {} /\ (engine' = "down" \/ (engine = "saving" /\ engine' = "stopped" /\ saves = {}))
      /\ engine \in {"up", "saving"}
      /\ UNCHANGED <<writer, mem, proc, queue, batch, tmp, file, content, overlapped>>
  BY DEF DiskInv, Stopped, Kill, taskVars, diskVars
<1>2. \A s \in Sim : /\ Queued(s)' = Queued(s) /\ Batched(s)' = Batched(s) /\ Pending(s)' = {}
                     /\ Rising(queue, s) => Rising(queue, s)'
  BY <1>1 DEF Queued, Batched, Pending, Rising
<1>3. LifeOK'
  BY <1>1 DEF LifeOK
<1>4. ASSUME NEW s \in Sim PROVE SimOK(s)'
  <2>1. IdleOK(s)'
    BY <1>1, <1>2 DEF SimOK, IdleOK
  <2>2. ASSUME s \notin overlapped' PROVE StagesOK(s)' /\ FilesOK(s)' /\ LatestOK(s)'
    <3>1. StagesOK(s) /\ FilesOK(s) /\ LatestOK(s)
      BY <1>1, <2>2 DEF SimOK
    <3>2. StagesOK(s)'
      BY <1>1, <1>2, <3>1 DEF StagesOK
    <3>3. FilesOK(s)'
      BY <1>1, <1>2, <3>1 DEF FilesOK, Pending
    <3>4. LatestOK(s)'
      BY <1>1, <1>2, <3>1 DEF LatestOK, Pending
    <3> QED
      BY <3>2, <3>3, <3>4
  <2> QED
    BY <2>1, <2>2 DEF SimOK
<1> QED
  BY <1>3, <1>4

\* The file that is whole is what a restart reads back.
LEMMA LoadedIsFile ==
  ASSUME StatusTypeOK, NEW s \in Sim, FilesOK(s)
  PROVE  Loaded(s) = file[s]
<1>1. CASE file[s] = None
  BY <1>1 DEF Loaded
<1>2. CASE file[s] # None
  BY <1>2 DEF Loaded, FilesOK, Whole
<1> QED
  BY <1>1, <1>2

LEMMA RestartDisk ==
  ASSUME DiskInv, Restart
  PROVE  LifeOK' /\ \A r \in Sim : SimOK(r)'
<1>1. /\ StatusTypeOK /\ LifeOK /\ \A r \in Sim : SimOK(r)
      /\ engine \in {"stopped", "down"} /\ engine' = "up" /\ writer' = "collecting"
      /\ queue' = <<>> /\ batch' = <<>> /\ saves = {}
      /\ mem' = [s \in Sim |-> Loaded(s)]
      /\ proc' = [s \in Sim |-> IF proc[s] = "none" THEN "none" ELSE "lost"]
      /\ UNCHANGED <<saves, tmp, file, content, overlapped>>
  BY DEF DiskInv, StatusInv, Restart, LifeOK, diskVars
<1>2. \A s \in Sim : Queued(s)' = {} /\ Batched(s)' = {} /\ Pending(s)' = {} /\ Rising(queue, s)'
  BY <1>1 DEF Queued, Batched, Pending, Rising, Elements
<1>3. LifeOK'
  BY <1>1 DEF LifeOK
<1>4. ASSUME NEW s \in Sim PROVE SimOK(s)'
  <2>1. /\ proc'[s] = (IF proc[s] = "none" THEN "none" ELSE "lost") /\ mem'[s] = Loaded(s)
        /\ file'[s] = file[s] /\ tmp'[s] = tmp[s] /\ content'[s] = content[s]
    BY <1>1
  <2>2. proc[s] = "none" => file[s] = None /\ tmp[s] = None /\ Loaded(s) = None
    BY <1>1 DEF SimOK, IdleOK, Loaded
  <2>3. IdleOK(s)'
    BY <1>2, <2>1, <2>2 DEF IdleOK
  <2>4. ASSUME s \notin overlapped' PROVE StagesOK(s)' /\ FilesOK(s)' /\ LatestOK(s)'
    <3>1. FilesOK(s) /\ Loaded(s) = file[s] /\ file[s] \in 0 .. 6
      BY <1>1, <2>4, LoadedIsFile, PipelineTypes DEF SimOK
    <3>2. StagesOK(s)'
      BY <1>2, <2>1, <3>1 DEF StagesOK
    <3>3. FilesOK(s)'
      BY <1>2, <2>1, <2>2, <3>1 DEF FilesOK
    <3>4. LatestOK(s)'
      BY <2>1 DEF LatestOK
    <3> QED
      BY <3>2, <3>3, <3>4
  <2> QED
    BY <2>3, <2>4 DEF SimOK
<1> QED
  BY <1>3, <1>4

-----------------------------------------------------------------------------
(* The invariant of the disk, and what follows *)

LEMMA DiskInit == StatusInit => DiskInv
<1> SUFFICES ASSUME StatusInit PROVE DiskInv
  OBVIOUS
<1>1. StatusInv
  BY StatusInitInv
<1>2. LifeOK
  BY DEF StatusInit, LifeOK
<1>3. ASSUME NEW s \in Sim PROVE SimOK(s)
  <2>1. /\ Queued(s) = {} /\ Batched(s) = {} /\ Pending(s) = {} /\ Rising(queue, s)
        /\ mem[s] = None /\ file[s] = None /\ tmp[s] = None /\ proc[s] = "none" /\ None = 0
    BY DEF StatusInit, Queued, Batched, Pending, Rising, Elements, None
  <2> QED
    BY <2>1 DEF SimOK, IdleOK, StagesOK, FilesOK, LatestOK
<1> QED
  BY <1>1, <1>2, <1>3 DEF DiskInv

LEMMA DiskStep == DiskInv /\ [StatusNext]_statusVars => DiskInv'
<1> SUFFICES ASSUME DiskInv, [StatusNext]_statusVars PROVE DiskInv'
  OBVIOUS
<1>1. StatusInv'
  BY StatusNextInv DEF DiskInv
<1>2. LifeOK' /\ \A r \in Sim : SimOK(r)'
  <2>1. CASE UNCHANGED statusVars
    <3>1. /\ UNCHANGED <<engine, writer, mem, proc, queue, batch, saves, tmp, file, content,
                         overlapped>>
      BY <2>1 DEF statusVars, taskVars, diskVars
    <3>2. \A s \in Sim : /\ Queued(s)' = Queued(s) /\ Batched(s)' = Batched(s)
                         /\ Pending(s)' = Pending(s) /\ (Rising(queue, s) => Rising(queue, s)')
      BY <3>1 DEF Queued, Batched, Pending, Rising
    <3>3. \A r \in Sim : SimOK(r)'
      BY <3>1, <3>2, ViewKeeps DEF DiskInv
    <3>4. \A v \in saves : Batched(v.sim)' = Batched(v.sim)
      BY <3>1 DEF Batched
    <3>5. LifeOK'
      BY <3>1, <3>4 DEF DiskInv, LifeOK
    <3> QED
      BY <3>3, <3>5
  <2>2. CASE \E s \in Sim : RequestStep(s) \/ TaskStep(s)
    BY <2>2, PlainStep, TaskDisk
  <2>3. CASE WriterStep
    BY <2>3, CollectDisk, FlushDisk, FlushedDisk DEF WriterStep
  <2>4. CASE \E v \in saves : SaveStep(v)
    BY <2>4, SaveStepDisk
  <2>5. CASE EngineStep
    BY <2>5, CleanupDisk, StopDisk, RestartDisk DEF EngineStep
  <2> QED
    BY <2>1, <2>2, <2>3, <2>4, <2>5, NextCases
<1> QED
  BY <1>1, <1>2 DEF DiskInv

LEMMA DiskInvariance == StatusSpec => []DiskInv
  BY DiskInit, DiskStep, PTL DEF StatusSpec

\* A stop saves the last status of every simulation, but for what the cancelled
\* writer had in its batch, whatever the sizes of queue and batch, and through
\* earlier restarts (cleanup).
THEOREM StopSavesAll == StatusSpec => []StopSavesQueue
<1>1. DiskInv => StopSavesQueue
  <2> SUFFICES ASSUME DiskInv, engine = "stopped", NEW s \in Sim \ overlapped
               PROVE  Loaded(s) = mem[s] \/ \E i \in DOMAIN batch : batch[i].sim = s
    BY DEF StopSavesQueue
  <2>1. /\ StatusTypeOK /\ LifeOK /\ IdleOK(s) /\ StagesOK(s) /\ FilesOK(s) /\ LatestOK(s)
        /\ EndedIsFinal
    BY DEF DiskInv, StatusInv, SimOK
  <2>2. /\ Loaded(s) = file[s] /\ Pending(s) = {} /\ Queued(s) = {}
        /\ proc[s] \in {"none", "ended", "lost"}
    BY <2>1, LoadedIsFile DEF LifeOK, Pending, Queued, Elements
  <2>3. CASE proc[s] \in {"none", "lost"}
    BY <2>1, <2>2, <2>3 DEF IdleOK, StagesOK
  <2>4. CASE proc[s] = "ended"
    <3>1. mem[s] \in Saved
      BY <2>1, <2>4, StageFacts DEF EndedIsFinal
    <3>2. file[s] = mem[s] \/ Batched(s) # {}
      BY <2>1, <2>2, <2>4, <3>1 DEF LatestOK
    <3> QED
      BY <2>2, <3>2 DEF Batched, Elements
  <2> QED
    BY <2>2, <2>3, <2>4
<1> QED
  BY <1>1, DiskInvariance, PTL

\* Where no two saves overlap, what a restart would read back is the file.
LEMMA FilesAreWhole == DiskInv => \A s \in Sim \ overlapped : Loaded(s) = file[s]
BY LoadedIsFile DEF DiskInv, StatusInv, SimOK

\* A file is only ever replaced by the next save of its simulation.
LEMMA FileRises ==
  ASSUME DiskInv, [StatusNext]_statusVars, NEW s \in Sim \ overlapped
  PROVE  file[s] <= file'[s]
<1>1. /\ StatusTypeOK /\ StagesOK(s) /\ FilesOK(s) /\ file[s] \in 0 .. 6
  BY PipelineTypes DEF DiskInv, StatusInv, SimOK
<1>2. CASE UNCHANGED file
  BY <1>1, <1>2
<1>3. ASSUME NEW v \in saves, Replace(v) PROVE file[s] <= file'[s]
  <2>1. CASE v.sim # s \/ tmp[v.sim] = None
    BY <1>1, <1>3, <2>1 DEF Replace, StatusTypeOK
  <2>2. CASE v.sim = s /\ tmp[v.sim] # None
    <3>1. v \in Pending(s) /\ v.at = "replacing"
      BY <1>3, <2>2 DEF Pending, Replace
    <3>2. tmp[s] = v.stage /\ file[s] < v.stage /\ v.stage \in 0 .. 6
      BY <1>1, <3>1, PipelineTypes DEF FilesOK, StagesOK
    <3>3. file'[s] = v.stage
      BY <1>1, <1>3, <2>2, <3>2 DEF Replace, StatusTypeOK
    <3> QED
      BY <1>1, <3>2, <3>3
  <2> QED
    BY <2>1, <2>2
<1>4. UNCHANGED file \/ \E v \in saves : Replace(v)
  <2>1. CASE UNCHANGED statusVars
    BY <2>1 DEF statusVars, diskVars
  <2>2. CASE \E r \in Sim : RequestStep(r) \/ TaskStep(r)
    BY <2>2 DEF RequestStep, TaskStep, StartMatch, RegisterWebhook, Advance, Fail, SaveReturned,
                TriggerWebhooks, diskVars
  <2>3. CASE WriterStep
    BY <2>3 DEF WriterStep, WriterCollect, WriterFlush, WriterFlushed, diskVars
  <2>4. CASE \E v \in saves : SaveStep(v)
    BY <2>4 DEF SaveStep, OpenTemp, WriteTemp, RemoveTemp
  <2>5. CASE EngineStep
    BY <2>5 DEF EngineStep, Cleanup, Stopped, Kill, Restart, diskVars
  <2> QED
    BY <2>1, <2>2, <2>3, <2>4, <2>5, NextCases
<1> QED
  BY <1>2, <1>3, <1>4

\* Once two saves could have overtaken one another, they could have.
LEMMA OverlappedStays ==
  ASSUME [StatusNext]_statusVars
  PROVE  overlapped \subseteq overlapped'
<1>1. CASE UNCHANGED statusVars
  BY <1>1 DEF statusVars
<1>2. CASE \E r \in Sim : RequestStep(r) \/ TaskStep(r)
  BY <1>2 DEF RequestStep, TaskStep, StartMatch, RegisterWebhook, Advance, Fail, SetStatus,
              SaveReturned, TriggerWebhooks
<1>3. CASE WriterStep
  BY <1>3 DEF WriterStep, WriterCollect, WriterFlush, WriterFlushed, SaveAll
<1>4. CASE \E v \in saves : SaveStep(v)
  BY <1>4 DEF SaveStep, OpenTemp, WriteTemp, Replace, RemoveTemp
<1>5. CASE EngineStep
  BY <1>5 DEF EngineStep, Cleanup, Stopped, Kill, Restart, SaveAll
<1> QED
  BY <1>1, <1>2, <1>3, <1>4, <1>5, NextCases

\* Of a simulation no two of whose saves ever overlapped, the status file never goes
\* back to an earlier stage nor to a text that does not parse, through kills and
\* restarts, for every capacity of the queue and of the batch (_write_file_atomic).
\* Saves that overlap share one temporary path: nothing is claimed of them.
THEOREM FilesMoveForward == StatusSpec => FileForward
<1>1. DiskInv /\ DiskInv' /\ [StatusNext]_statusVars =>
        \A s \in Sim \ overlapped' : Loaded(s) <= Loaded(s)'
  <2> SUFFICES ASSUME DiskInv, DiskInv', [StatusNext]_statusVars, NEW s \in Sim \ overlapped'
               PROVE  Loaded(s) <= Loaded(s)'
    OBVIOUS
  <2>1. s \notin overlapped
    BY OverlappedStays
  <2>2. Loaded(s) = file[s] /\ file[s] <= file'[s]
    BY <2>1, FilesAreWhole, FileRises
  <2>3. Loaded(s)' = file'[s]
    <3>1. FilesOK(s)'
      BY DEF DiskInv, SimOK
    <3>2. CASE file'[s] = None
      BY <3>2 DEF Loaded
    <3>3. CASE file'[s] # None
      BY <3>1, <3>3 DEF Loaded, FilesOK, Whole
    <3> QED
      BY <3>2, <3>3
  <2> QED
    BY <2>2, <2>3
<1>2. DiskInv /\ DiskInv' /\ [StatusNext]_statusVars =>
        [\A s \in Sim \ overlapped' : Loaded(s) <= Loaded(s)']_statusVars
  BY <1>1
<1> QED
  BY <1>2, DiskInvariance, PTL DEF StatusSpec, FileForward
================================================================================
