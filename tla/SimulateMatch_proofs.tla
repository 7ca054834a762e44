-------------------------- MODULE SimulateMatch_proofs --------------------------
(***************************************************************************)
(* Proofs about Pipeline B: of the dispatcher alone (MatchStreamWorker),   *)
(* for every finite set of matches, every channel capacity, every          *)
(* MaxConcurrentStreams and every number of database faults, and then of   *)
(* the dispatcher with the handlers of SimulateMatch, for every set of     *)
(* requests and users.  The steps of the service are steps of the          *)
(* dispatcher, so its lemmas carry over; what is new is that a handler and *)
(* the dispatcher never work on the same match.                            *)
(***************************************************************************)
EXTENDS SimulateMatch, FiniteSetTheorems, TLAPS

-----------------------------------------------------------------------------
(* The dispatcher alone *)

\* One stream task moves: the set of permit holders gains it, loses it or keeps
\* its size, according to the two points.
LEMMA HoldersMove ==
  ASSUME stream \in [Match -> StreamPoint], NEW m \in Match, NEW p \in StreamPoint,
         stream' = [stream EXCEPT ![m] = p]
  PROVE  /\ Cardinality(Holders) \in Nat
         /\ Cardinality(Holders') \in Nat
         /\ (stream[m] \in Holding) => Cardinality(Holders) >= 1
         /\ (stream[m] \in Holding <=> p \in Holding)
              => Cardinality(Holders') = Cardinality(Holders)
         /\ (stream[m] \notin Holding /\ p \in Holding)
              => Cardinality(Holders') = Cardinality(Holders) + 1
         /\ (stream[m] \in Holding /\ p \notin Holding)
              => Cardinality(Holders') = Cardinality(Holders) - 1
<1>1. IsFiniteSet(Holders)
  BY FS_Subset, WorkerAssumption DEF Holders
<1>2. IsFiniteSet(Holders')
  BY FS_Subset, WorkerAssumption DEF Holders
<1>3. Cardinality(Holders) \in Nat /\ Cardinality(Holders') \in Nat
  BY <1>1, <1>2, FS_CardinalityType
<1>4. ASSUME p \in Holding PROVE Holders' = Holders \cup {m}
  BY <1>4 DEF Holders
<1>5. ASSUME p \notin Holding PROVE Holders' = Holders \ {m}
  BY <1>5 DEF Holders
<1>6. m \in Holders <=> stream[m] \in Holding
  BY DEF Holders
<1>7. m \in Holders => Cardinality(Holders) >= 1
  <2> SUFFICES ASSUME m \in Holders PROVE Cardinality(Holders) >= 1
    OBVIOUS
  <2>1. Cardinality(Holders \ {m}) = Cardinality(Holders) - 1
    BY <1>1, FS_RemoveElement
  <2>2. Cardinality(Holders \ {m}) \in Nat
    BY <1>1, FS_RemoveElement, FS_CardinalityType
  <2> QED
    BY <2>1, <2>2, <1>3
<1>8. CASE p \in Holding
  <2>1. Cardinality(Holders') = IF m \in Holders THEN Cardinality(Holders)
                                ELSE Cardinality(Holders) + 1
    BY <1>1, <1>4, <1>8, FS_AddElement
  <2> QED
    BY <2>1, <1>3, <1>6, <1>7, <1>8
<1>9. CASE p \notin Holding
  <2>1. Cardinality(Holders') = IF m \in Holders THEN Cardinality(Holders) - 1
                                ELSE Cardinality(Holders)
    BY <1>1, <1>5, <1>9, FS_RemoveElement
  <2> QED
    BY <2>1, <1>3, <1>6, <1>7, <1>9
<1> QED
  BY <1>8, <1>9

LEMMA HoldersStill ==
  ASSUME UNCHANGED stream
  PROVE  /\ Cardinality(Holders) \in Nat
         /\ Cardinality(Holders') = Cardinality(Holders)
<1>1. IsFiniteSet(Holders)
  BY FS_Subset, WorkerAssumption DEF Holders
<1>2. Holders' = Holders
  BY DEF Holders
<1> QED
  BY <1>1, <1>2, FS_CardinalityType

LEMMA InitInv == WorkerInit => WorkerInv
<1> SUFFICES ASSUME WorkerInit PROVE WorkerInv
  OBVIOUS
<1> USE DEF WorkerInit, WorkerStart
<1>1. WorkerTypeOK
  <2>1. chan \in Seq(Match) /\ permits \in 0 .. MaxStreams /\ faults \in Nat
    BY WorkerAssumption
  <2>2. /\ status \in [Match -> RowStatus]
        /\ isLive \in [Match -> BOOLEAN]
        /\ stream \in [Match -> StreamPoint]
        /\ accepted \in [Match -> Nat]
        /\ active \in SUBSET Match
    BY DEF RowStatus, StreamPoint
  <2>3. closed \in BOOLEAN /\ stopping \in BOOLEAN /\ pc \in WorkerPoint
    BY DEF WorkerPoint
  <2>4. pending \in Match \cup {NoMatch}
    OBVIOUS
  <2> QED
    BY <2>1, <2>2, <2>3, <2>4 DEF WorkerTypeOK
<1>2. PermitsConserved
  <2>1. Holders = {}
    BY DEF Holders, Holding
  <2>2. Cardinality(Holders) = 0
    BY <2>1, FS_EmptySet
  <2> QED
    BY <2>2, WorkerAssumption DEF PermitsConserved
<1>3. ActiveIffRunning /\ PendingInHand /\ ReadStillHolds /\ ConsumingIsInProgress
      /\ LiveIffUnsettled /\ NoStreamOutlivesWorker
  BY DEF ActiveIffRunning, PendingInHand, ReadStillHolds, ConsumingIsInProgress,
         LiveIffUnsettled, NoStreamOutlivesWorker
<1> QED
  BY <1>1, <1>2, <1>3 DEF WorkerInv

\* The permits: only an acquisition, a skipped duplicate, a dispatch and the
\* last but one step of a stream move them.
LEMMA PermitsStep ==
  ASSUME WorkerInv, WorkerNext
  PROVE  PermitsConserved' /\ permits' \in 0 .. MaxStreams
<1> USE WorkerAssumption DEF PermitsConserved
<1>0. /\ permits \in Nat /\ permits <= MaxStreams
      /\ stream \in [Match -> StreamPoint]
      /\ PermitsConserved
      /\ pc \in WorkerPoint
  BY DEF WorkerInv, WorkerTypeOK
<1>1. CASE UNCHANGED <<permits, stream>> /\ (pc = "Admitting" <=> pc' = "Admitting")
  BY <1>0, <1>1, HoldersStill
<1>2. CASE WorkerAcquire
  BY <1>0, <1>2, HoldersStill DEF WorkerAcquire
<1>3. CASE WorkerSkipDuplicate
  BY <1>0, <1>3, HoldersStill DEF WorkerSkipDuplicate
<1>4. CASE WorkerDispatch
  <2>1. pending \in Match /\ stream[pending] = "Idle"
    BY <1>4 DEF WorkerDispatch, WorkerInv, PendingInHand, ActiveIffRunning
  <2>2. Cardinality(Holders') = Cardinality(Holders) + 1 /\ Cardinality(Holders) \in Nat
    BY <1>0, <1>4, <2>1, HoldersMove DEF WorkerDispatch, Holding, StreamPoint
  <2> QED
    BY <1>0, <1>4, <2>2 DEF WorkerDispatch
<1>5. ASSUME NEW m \in Match, StreamRelease(m)
      PROVE  PermitsConserved' /\ permits' \in 0 .. MaxStreams
  <2>1. /\ Cardinality(Holders') = Cardinality(Holders) - 1
        /\ Cardinality(Holders) \in Nat /\ Cardinality(Holders) >= 1
    BY <1>0, <1>5, HoldersMove DEF StreamRelease, Goto, Holding, StreamPoint
  <2> QED
    BY <1>0, <1>5, <2>1 DEF StreamRelease
<1>6. ASSUME NEW m \in Match, NEW p \in StreamPoint,
             stream' = [stream EXCEPT ![m] = p],
             stream[m] \in Holding <=> p \in Holding,
             UNCHANGED <<permits, pc>>
      PROVE  PermitsConserved' /\ permits' \in 0 .. MaxStreams
  <2>1. Cardinality(Holders') = Cardinality(Holders)
    BY <1>0, <1>6, HoldersMove
  <2>2. permits' = permits /\ pc' = pc
    BY <1>6
  <2> QED
    BY <1>0, <2>1, <2>2
<1>7. CASE StopComplete \/ StopCancel \/ WorkerRead \/ WorkerReadEnds
           \/ WorkerAcquireCancelled \/ WorkerClose \/ WorkerCheckPending
           \/ WorkerClear \/ WorkerClearSave \/ WorkerDrain \/ WorkerDrained
           \/ WorkerStopped
  BY <1>1, <1>7 DEF StopComplete, StopCancel, WorkerRead, WorkerReadEnds,
           WorkerAcquireCancelled, WorkerClose, WorkerCheckPending, WorkerClear,
           WorkerClearSave, WorkerDrain, WorkerDrained, WorkerStopped
<1>8. ASSUME NEW m \in Match, RunStream(m)
      PROVE  PermitsConserved' /\ permits' \in 0 .. MaxStreams
  <2>1. CASE StreamRelease(m)
    BY <2>1, <1>5
  <2>2. CASE ~StreamRelease(m)
    <3>1. \E p \in StreamPoint :
            /\ stream' = [stream EXCEPT ![m] = p]
            /\ stream[m] \in Holding <=> p \in Holding
      BY <1>8, <2>2 DEF RunStream, StreamNotStarted, StreamSawQueued, StreamStarted,
           StreamStartThrows, StreamEnds, StreamFlush, StreamFail, StreamFailSave,
           StreamRetire, Goto, Holding, StreamPoint
    <3>2. UNCHANGED <<permits, pc>>
      BY <1>8, <2>2 DEF RunStream, StreamNotStarted, StreamSawQueued, StreamStarted,
           StreamStartThrows, StreamEnds, StreamFlush, StreamFail, StreamFailSave,
           StreamRetire, StreamFrame
    <3> QED
      BY <3>1, <3>2, <1>6
  <2> QED
    BY <2>1, <2>2
<1>9. ASSUME NEW m \in Match, Submit(m)
      PROVE  PermitsConserved' /\ permits' \in 0 .. MaxStreams
  BY <1>1, <1>9 DEF Submit
<1>10. CASE WorkerLoop
  BY <1>2, <1>3, <1>4, <1>7, <1>10 DEF WorkerLoop
<1> QED
  <2> HIDE DEF PermitsConserved
  <2> QED
    BY <1>7, <1>8, <1>9, <1>10 DEF WorkerNext

\* What a save does to the row, however it ends.
Save(m, s, live) == Saved(m, s, live) \/ SaveThrows \/ SavedButThrows(m, s, live)

LEMMA SaveStep ==
  ASSUME status \in [Match -> RowStatus], isLive \in [Match -> BOOLEAN], faults \in Nat,
         NEW m \in Match, NEW s \in RowStatus, NEW live \in BOOLEAN, Save(m, s, live)
  PROVE  /\ status' \in [Match -> RowStatus]
         /\ isLive' \in [Match -> BOOLEAN]
         /\ faults' \in Nat
         /\ \A n \in Match \ {m} : status'[n] = status[n] /\ isLive'[n] = isLive[n]
         /\ \/ status'[m] = s /\ isLive'[m] = live
            \/ status'[m] = status[m] /\ isLive'[m] = isLive[m]
<1>1. CASE SetRow(m, s, live) /\ faults' \in Nat
  BY <1>1 DEF SetRow
<1>2. CASE UNCHANGED rows /\ faults' \in Nat
  BY <1>2 DEF rows
<1> QED
  BY <1>1, <1>2 DEF Save, Saved, SaveThrows, SavedButThrows, Fault

LEMMA TypeStep ==
  ASSUME WorkerInv, WorkerNext
  PROVE  WorkerTypeOK'
<1>0. permits' \in 0 .. MaxStreams
  BY PermitsStep
<1> USE DEF WorkerTypeOK, rows, queueVars
<1>1. WorkerTypeOK /\ PendingInHand
  BY DEF WorkerInv
<1>2. CASE StopComplete \/ StopCancel \/ WorkerReadEnds \/ WorkerAcquire
           \/ WorkerAcquireCancelled \/ WorkerSkipDuplicate
           \/ WorkerClose \/ WorkerCheckPending \/ WorkerStopped
  BY <1>0, <1>1, <1>2 DEF StopComplete, StopCancel, WorkerReadEnds, WorkerAcquire,
       WorkerAcquireCancelled, WorkerSkipDuplicate, WorkerClose,
       WorkerCheckPending, WorkerStopped, WorkerPoint
<1>3. CASE WorkerRead \/ WorkerDrain \/ WorkerDrained
  <2>1. chan # <<>> => Head(chan) \in Match /\ Tail(chan) \in Seq(Match)
    BY <1>1
  <2> QED
    BY <1>0, <1>1, <1>3, <2>1 DEF WorkerRead, WorkerDrain, WorkerDrained, WorkerPoint
<1>4. CASE WorkerDispatch
  BY <1>0, <1>1, <1>4 DEF WorkerDispatch, PendingInHand, WorkerPoint, StreamPoint
<1>5. CASE WorkerClear
  BY <1>0, <1>1, <1>5 DEF WorkerClear, WorkerPoint, Fault
<1>51. CASE WorkerClearSave
  <2>1. pending \in Match /\ Save(pending, "Failed", FALSE)
    BY <1>1, <1>51 DEF WorkerClearSave, PendingInHand, Save
  <2>2. /\ status' \in [Match -> RowStatus] /\ isLive' \in [Match -> BOOLEAN]
        /\ faults' \in Nat
    BY <1>1, <2>1, SaveStep DEF RowStatus
  <2> QED
    BY <1>0, <1>1, <1>51, <2>2 DEF WorkerClearSave, WorkerPoint
<1>6. ASSUME NEW m \in Match, Submit(m) PROVE WorkerTypeOK'
  <2>1. chan' \in Seq(Match) /\ accepted' \in [Match -> Nat]
    BY <1>1, <1>6 DEF Submit, TryEnqueue
  <2> QED
    BY <1>0, <1>1, <1>6, <2>1 DEF Submit, TryEnqueue
<1>7. ASSUME NEW m \in Match, RunStream(m) PROVE WorkerTypeOK'
  <2>1. UNCHANGED <<chan, closed, stopping, pc, pending, accepted>>
    BY <1>7 DEF RunStream, StreamNotStarted, StreamSawQueued, StreamStarted,
       StreamStartThrows, StreamEnds, StreamFlush, StreamFail, StreamFailSave,
       StreamRelease, StreamRetire, StreamFrame
  <2>2. stream' \in [Match -> StreamPoint] /\ active' \in SUBSET Match
    BY <1>1, <1>7 DEF RunStream, StreamNotStarted, StreamSawQueued, StreamStarted,
       StreamStartThrows, StreamEnds, StreamFlush, StreamFail, StreamFailSave,
       StreamRelease, StreamRetire, StreamFrame, Goto, StreamPoint
  <2>3. /\ status' \in [Match -> RowStatus] /\ isLive' \in [Match -> BOOLEAN]
        /\ faults' \in Nat
    <3>1. CASE UNCHANGED rows /\ faults' \in Nat
      BY <1>1, <3>1
    <3>2. CASE \E s \in RowStatus, live \in BOOLEAN : Save(m, s, live)
      BY <1>1, <3>2, SaveStep
    <3>3. isLive[m] \in BOOLEAN
      BY <1>1
    <3>4. StreamFlush(m) => \E s \in RowStatus, live \in BOOLEAN : Save(m, s, live)
      BY DEF StreamFlush, Save, RowStatus
    <3>5. StreamFailSave(m) => Save(m, "Failed", FALSE)
      BY DEF StreamFailSave, Save
    <3>6. StreamStarted(m) => Save(m, "In Progress", isLive[m])
      BY DEF StreamStarted, Save
    <3>7. StreamStartThrows(m) => \/ UNCHANGED <<rows, faults>>
                                 \/ Save(m, "In Progress", isLive[m])
      BY DEF StreamStartThrows, Save
    <3>8. CASE StreamFlush(m)
      BY <3>2, <3>4, <3>8
    <3>9. CASE StreamFailSave(m) \/ StreamStarted(m)
      BY <3>2, <3>3, <3>5, <3>6, <3>9 DEF RowStatus
    <3>10. CASE StreamStartThrows(m)
      BY <1>1, <3>1, <3>2, <3>3, <3>7, <3>10 DEF RowStatus
    <3>11. CASE StreamNotStarted(m) \/ StreamSawQueued(m) \/ StreamEnds(m) \/ StreamFail(m)
                \/ StreamRelease(m) \/ StreamRetire(m)
      BY <1>1, <3>1, <3>11 DEF StreamNotStarted, StreamSawQueued, StreamEnds, StreamFail,
         StreamRelease, StreamRetire, Fault
    <3> QED
      BY <1>7, <3>8, <3>9, <3>10, <3>11 DEF RunStream
  <2> QED
    BY <1>0, <1>1, <2>1, <2>2, <2>3
<1> QED
  <2> HIDE DEF WorkerTypeOK
  <2> QED
    BY <1>2, <1>3, <1>4, <1>5, <1>51, <1>6, <1>7 DEF WorkerNext, WorkerLoop

\* What the worker does not touch, and what it does to the one row it may fail.
TaskInv == /\ ActiveIffRunning /\ PendingInHand /\ ReadStillHolds
           /\ ConsumingIsInProgress /\ LiveIffUnsettled /\ NoStreamOutlivesWorker

LEMMA TaskStep ==
  ASSUME WorkerInv, WorkerNext
  PROVE  TaskInv'
<1> USE DEF TaskInv, ActiveIffRunning, PendingInHand, ReadStillHolds,
            ConsumingIsInProgress, LiveIffUnsettled, NoStreamOutlivesWorker, rows, queueVars
<1>1. WorkerTypeOK /\ TaskInv
  BY DEF WorkerInv
<1>2. /\ status \in [Match -> RowStatus] /\ isLive \in [Match -> BOOLEAN]
      /\ stream \in [Match -> StreamPoint] /\ chan \in Seq(Match)
  BY <1>1 DEF WorkerTypeOK
<1>3. CASE StopComplete \/ StopCancel \/ WorkerReadEnds \/ WorkerAcquire
           \/ WorkerAcquireCancelled \/ WorkerSkipDuplicate \/ WorkerClose
           \/ WorkerDrained
  BY <1>1, <1>3 DEF StopComplete, StopCancel, WorkerReadEnds, WorkerAcquire,
       WorkerAcquireCancelled, WorkerSkipDuplicate, WorkerClose, WorkerDrained
<1>4. CASE WorkerRead \/ WorkerDrain
  <2>1. Head(chan) \in Match
    BY <1>2, <1>4 DEF WorkerRead, WorkerDrain
  <2> QED
    BY <1>1, <1>4, <2>1 DEF WorkerRead, WorkerDrain
<1>5. CASE WorkerCheckPending \/ WorkerClear \/ WorkerStopped
  BY <1>1, <1>5 DEF WorkerCheckPending, WorkerClear, WorkerStopped, WorkerTypeOK
<1>6. CASE WorkerClearSave
  BY <1>1, <1>2, <1>6 DEF WorkerClearSave, Saved, SaveThrows, SavedButThrows, SetRow
<1>7. CASE WorkerDispatch
  BY <1>1, <1>2, <1>7 DEF WorkerDispatch
<1>8. ASSUME NEW m \in Match, Submit(m) PROVE TaskInv'
  BY <1>1, <1>8 DEF Submit, TryEnqueue
<1>9. ASSUME NEW m \in Match, RunStream(m) PROVE TaskInv'
  <2>0. /\ UNCHANGED <<pc, pending>> /\ faults \in Nat
        /\ \A n \in Match \ {m} : stream'[n] = stream[n] /\ (n \in active' <=> n \in active)
    BY <1>1, <1>2, <1>9 DEF RunStream, StreamNotStarted, StreamSawQueued, StreamStarted,
       StreamStartThrows, StreamEnds, StreamFlush, StreamFail, StreamFailSave,
       StreamRelease, StreamRetire, StreamFrame, Goto, WorkerTypeOK
  <2>00. stream[m] # "Idle" /\ m \in active
    BY <1>1, <1>9 DEF RunStream, StreamNotStarted, StreamSawQueued, StreamStarted,
       StreamStartThrows, StreamEnds, StreamFlush, StreamFail, StreamFailSave,
       StreamRelease, StreamRetire, Goto
  <2>1. CASE StreamNotStarted(m) \/ StreamSawQueued(m) \/ StreamEnds(m)
    BY <1>1, <1>2, <2>0, <2>1 DEF StreamNotStarted, StreamSawQueued, StreamEnds,
         StreamFrame, Goto
  <2>2. CASE StreamFail(m)
    BY <1>1, <1>2, <2>0, <2>2 DEF StreamFail, StreamFrame
  <2>3. CASE StreamStarted(m) \/ StreamStartThrows(m)
    <3>1. stream[m] = "StartSaving" /\ status[m] = "Queued" /\ isLive[m]
      BY <1>1, <2>3 DEF StreamStarted, StreamStartThrows, Goto
    <3>2. /\ stream'[m] = IF StreamStarted(m) THEN "Consuming" ELSE "Failing"
          /\ UNCHANGED active
      BY <1>2, <2>3 DEF StreamStarted, StreamStartThrows, StreamFrame, Goto
    <3>3. /\ \A n \in Match \ {m} : status'[n] = status[n] /\ isLive'[n] = isLive[n]
          /\ isLive'[m] = isLive[m] /\ status'[m] \in {"Queued", "In Progress"}
          /\ StreamStarted(m) => status'[m] = "In Progress"
      BY <1>2, <2>3, <3>1 DEF StreamStarted, StreamStartThrows, Saved, SaveThrows,
            SavedButThrows, SetRow
    <3> QED
      BY <1>1, <2>0, <2>00, <3>1, <3>2, <3>3
  <2>4. CASE StreamFlush(m) \/ StreamFailSave(m)
    <3>1. /\ stream'[m] = "Releasing" /\ UNCHANGED active
      BY <1>2, <2>4 DEF StreamFlush, StreamFailSave, StreamFrame, Goto
    <3>2. PICK s \in Final : Save(m, s, FALSE)
      BY <2>4 DEF StreamFlush, StreamFailSave, Save, Final
    <3>3. /\ \A n \in Match \ {m} : status'[n] = status[n] /\ isLive'[n] = isLive[n]
          /\ \/ status'[m] = s /\ isLive'[m] = FALSE
             \/ status'[m] = status[m] /\ isLive'[m] = isLive[m]
      BY <1>2, <2>0, <3>2, SaveStep DEF Final, RowStatus
    <3>4. ActiveIffRunning' /\ PendingInHand' /\ NoStreamOutlivesWorker'
      BY <1>1, <2>0, <2>00, <3>1, <3>3
    <3>5. ReadStillHolds' /\ ConsumingIsInProgress'
      BY <1>1, <2>0, <3>1, <3>3
    <3>6. s \notin {"Queued", "In Progress"}
      BY <3>2 DEF Final
    <3>7. LiveIffUnsettled'
      BY <1>1, <3>3, <3>6
    <3> QED
      BY <3>4, <3>5, <3>7
  <2>5. CASE StreamRelease(m) \/ StreamRetire(m)
    BY <1>1, <1>2, <2>0, <2>5 DEF StreamRelease, StreamRetire, Goto
  <2> QED
    BY <1>9, <2>1, <2>2, <2>3, <2>4, <2>5 DEF RunStream
<1> QED
  <2> HIDE DEF TaskInv
  <2> QED
    BY <1>3, <1>4, <1>5, <1>6, <1>7, <1>8, <1>9 DEF WorkerNext, WorkerLoop

LEMMA StutterInv == WorkerInv /\ UNCHANGED workerVars => WorkerInv'
<1> SUFFICES ASSUME WorkerInv, UNCHANGED workerVars PROVE WorkerInv'
  OBVIOUS
<1>1. Cardinality(Holders') = Cardinality(Holders)
  BY HoldersStill DEF workerVars
<1>2. WorkerTypeOK' /\ PermitsConserved'
  BY <1>1 DEF workerVars, rows, queueVars, WorkerInv, WorkerTypeOK, PermitsConserved
<1>3. TaskInv'
  BY DEF workerVars, rows, queueVars, WorkerInv, TaskInv, ActiveIffRunning, PendingInHand,
         ReadStillHolds, ConsumingIsInProgress, LiveIffUnsettled, NoStreamOutlivesWorker
<1> QED
  BY <1>2, <1>3 DEF WorkerInv, TaskInv

LEMMA NextInv == WorkerInv /\ [WorkerNext]_workerVars => WorkerInv'
<1>1. WorkerInv /\ WorkerNext => WorkerInv'
  BY PermitsStep, TypeStep, TaskStep DEF WorkerInv, TaskInv
<1> QED
  BY <1>1, StutterInv

THEOREM WorkerInvariance == WorkerSpec => []WorkerInv
  BY InitInv, NextInv, PTL DEF WorkerSpec

\* Every variable of the worker, the queue and the rows keeps its type.
THEOREM WorkerTyped == WorkerSpec => []WorkerTypeOK
<1>1. WorkerInv => WorkerTypeOK
  BY DEF WorkerInv
<1> QED
  BY <1>1, WorkerInvariance, PTL

\* The semaphore of MatchStreamWorker.ExecuteAsync never loses a permit and
\* never has more than MaxConcurrentStreams streams in flight.
THEOREM WorkerConservesPermits == WorkerSpec => []PermitsConserved
<1>1. WorkerInv => PermitsConserved
  BY DEF WorkerInv
<1> QED
  BY <1>1, WorkerInvariance, PTL

\* A running consumer owns its row.
THEOREM WorkerConsumesInProgress == WorkerSpec => []ConsumingIsInProgress
<1>1. WorkerInv => ConsumingIsInProgress
  BY DEF WorkerInv
<1> QED
  BY <1>1, WorkerInvariance, PTL

\* ExecuteAsync does not return before the last stream task has retired.
THEOREM WorkerStopsLast == WorkerSpec => []NoStreamOutlivesWorker
<1>1. WorkerInv => NoStreamOutlivesWorker
  BY DEF WorkerInv
<1> QED
  BY <1>1, WorkerInvariance, PTL

\* Every save finds its row in a status that may lead to the one it writes.
LEMMA WorkerRowsForward ==
  ASSUME WorkerInv, WorkerNext
  PROVE  RowsForward
<1>1. /\ status \in [Match -> RowStatus] /\ isLive \in [Match -> BOOLEAN] /\ faults \in Nat
      /\ PendingInHand /\ ReadStillHolds /\ ConsumingIsInProgress
  BY DEF WorkerInv, WorkerTypeOK
<1>2. CASE UNCHANGED status
  BY <1>2 DEF RowsForward
<1>3. ASSUME NEW m \in Match, NEW s \in RowStatus, NEW live \in BOOLEAN,
             Save(m, s, live), <<status[m], s>> \in ForwardEdges
      PROVE  RowsForward
  BY <1>1, <1>3, SaveStep DEF RowsForward
<1>4. CASE WorkerClearSave
  <2>1. pending \in Match /\ status[pending] = "Queued" /\ Save(pending, "Failed", FALSE)
    BY <1>1, <1>4 DEF WorkerClearSave, Save, PendingInHand
  <2> QED
    BY <1>3, <2>1 DEF ForwardEdges, RowStatus
<1>5. ASSUME NEW m \in Match, RunStream(m) PROVE RowsForward
  <2>1. CASE StreamStarted(m) \/ StreamStartThrows(m)
    <3>1. status[m] = "Queued" /\ isLive[m] \in BOOLEAN
      BY <1>1, <2>1 DEF StreamStarted, StreamStartThrows, Goto, ReadStillHolds
    <3>2. Save(m, "In Progress", isLive[m]) \/ UNCHANGED status
      BY <2>1 DEF StreamStarted, StreamStartThrows, Save, rows
    <3> QED
      BY <1>2, <1>3, <3>1, <3>2 DEF ForwardEdges, RowStatus
  <2>2. CASE StreamFlush(m)
    <3>1. status[m] = "In Progress"
      BY <1>1, <2>2 DEF StreamFlush, Goto, ConsumingIsInProgress
    <3>2. \E s \in {"Completed", "Truncated"} : Save(m, s, FALSE)
      BY <2>2 DEF StreamFlush, Save
    <3> QED
      BY <1>3, <3>1, <3>2 DEF ForwardEdges, RowStatus
  <2>3. CASE StreamFailSave(m)
    <3>1. status[m] = "Queued" /\ Save(m, "Failed", FALSE)
      BY <1>1, <2>3 DEF StreamFailSave, Goto, ReadStillHolds, Save
    <3> QED
      BY <1>3, <3>1 DEF ForwardEdges, RowStatus
  <2>4. CASE StreamNotStarted(m) \/ StreamSawQueued(m) \/ StreamEnds(m) \/ StreamFail(m)
             \/ StreamRelease(m) \/ StreamRetire(m)
    <3>1. UNCHANGED status
      BY <2>4 DEF StreamNotStarted, StreamSawQueued, StreamEnds, StreamFail,
         StreamRelease, StreamRetire, rows
    <3> QED
      BY <1>2, <3>1
  <2> QED
    BY <1>5, <2>1, <2>2, <2>3, <2>4 DEF RunStream
<1>6. CASE StopComplete \/ StopCancel \/ (WorkerLoop /\ ~WorkerClearSave)
           \/ \E m \in Match : Submit(m)
  <2>1. UNCHANGED status
    BY <1>6 DEF WorkerLoop, StopComplete, StopCancel, Submit, WorkerRead, WorkerReadEnds,
         WorkerAcquire, WorkerAcquireCancelled, WorkerSkipDuplicate, WorkerDispatch,
         WorkerClose, WorkerCheckPending, WorkerClear, WorkerDrain, WorkerDrained,
         WorkerStopped, rows
  <2> QED
    BY <1>2, <2>1
<1> QED
  BY <1>4, <1>5, <1>6 DEF WorkerNext

\* The read-then-save operations of the worker and of the streams never undo one
\* another: a row moves only along ForwardEdges.
THEOREM WorkerMovesForward == WorkerSpec => StatusForward
<1>1. WorkerInv /\ [WorkerNext]_workerVars => [RowsForward]_workerVars
  BY WorkerRowsForward
<1> QED
  BY <1>1, WorkerInvariance, PTL DEF WorkerSpec, StatusForward

-----------------------------------------------------------------------------
(* Losses: matches that are live with nobody left to end them *)

\* A request for m is waiting, in the worker's hand or running.
InChannel(m) == \E i \in DOMAIN chan : chan[i] = m
InHand(m) ==
  pending = m /\ pc \in {"Acquiring", "Admitting", "Closing", "Checking", "Clearing", "ClearingSave"}
Served(m) == InChannel(m) \/ InHand(m) \/ stream[m] \in Holding \ {"Releasing"}

\* A live match whose stream has given up on it, whose row was started by a save
\* that threw, or whose last request is gone.  The first two count even while
\* another request for the match waits: that one will not end it either.
Lost(m) ==
  /\ isLive[m]
  /\ \/ stream[m] \in {"Releasing", "Retiring"}
     \/ status[m] = "In Progress" /\ stream[m] \notin {"Consuming", "Flushing"}
     \/ accepted[m] > 0 /\ ~Served(m)

LossesPaid == Cardinality({m \in Match : Lost(m)}) <= faults

\* What the worker has left behind once it waits for its last streams.
DrainedOK ==
  /\ pc \in Finalizing => closed
  /\ pc \in {"Waiting", "Stopped"} => chan = <<>>

LossInv == WorkerInv /\ DrainedOK /\ LossesPaid

\* A set that grows by at most one element, and then with its allowance, stays
\* within the allowance.
LEMMA PaidGrowth ==
  ASSUME NEW S, NEW T, IsFiniteSet(S), NEW f \in Nat, NEW g \in Nat, Cardinality(S) <= f,
         \/ T \subseteq S /\ f <= g
         \/ g = f + 1 /\ \E x : T \subseteq S \cup {x}
  PROVE  IsFiniteSet(T) /\ Cardinality(T) <= g
<1>1. Cardinality(S) \in Nat
  BY FS_CardinalityType
<1>2. CASE T \subseteq S /\ f <= g
  <2>1. IsFiniteSet(T) /\ Cardinality(T) <= Cardinality(S) /\ Cardinality(T) \in Nat
    BY <1>2, FS_Subset, FS_CardinalityType
  <2> QED
    BY <1>1, <1>2, <2>1
<1>3. CASE g = f + 1 /\ \E x : T \subseteq S \cup {x}
  <2>1. PICK x : T \subseteq S \cup {x}
    BY <1>3
  <2>2. /\ IsFiniteSet(S \cup {x})
        /\ Cardinality(S \cup {x}) = IF x \in S THEN Cardinality(S) ELSE Cardinality(S) + 1
    BY FS_AddElement
  <2>3. IsFiniteSet(T) /\ Cardinality(T) <= Cardinality(S \cup {x}) /\ Cardinality(T) \in Nat
    BY <2>1, <2>2, FS_Subset, FS_CardinalityType
  <2>4. Cardinality(S \cup {x}) <= g
    BY <1>1, <1>3, <2>2
  <2>5. Cardinality(S \cup {x}) \in Nat
    BY <2>2, FS_CardinalityType
  <2> QED
    BY <2>3, <2>4, <2>5
<1> QED
  BY <1>2, <1>3

\* A step loses no match, or one to a fault of the database.
LosesNone == faults \in Nat /\ faults' \in {faults, faults + 1} /\ \A n \in Match : Lost(n)' => Lost(n)
LosesOne(m) == faults \in Nat /\ faults' = faults + 1 /\ \A n \in Match \ {m} : Lost(n)' => Lost(n)

\* A step of the loop that leaves rows and streams alone loses nothing, as long
\* as it lets go only of a match that is lost already, or not live.
LEMMA LetGo ==
  ASSUME UNCHANGED <<status, isLive, stream, accepted>>, faults \in Nat,
         faults' \in {faults, faults + 1},
         \A n \in Match : Served(n) => Served(n)' \/ Lost(n) \/ ~isLive[n]
  PROVE  LosesNone
BY DEF LosesNone, Lost

LEMMA LoopLosses ==
  ASSUME WorkerInv, WorkerLoop
  PROVE  LosesNone \/ LosesOne(pending)
<1>1. /\ status \in [Match -> RowStatus] /\ isLive \in [Match -> BOOLEAN] /\ faults \in Nat
      /\ stream \in [Match -> StreamPoint] /\ chan \in Seq(Match)
      /\ ActiveIffRunning /\ PendingInHand /\ LiveIffUnsettled
  BY DEF WorkerInv, WorkerTypeOK
\* Who still has a stream is served by it, or lost.
<1>2. \A n \in Match : n \in active /\ isLive[n] /\ UNCHANGED stream => Served(n)' \/ Lost(n)
  BY <1>1 DEF ActiveIffRunning, Served, Lost, Holding
<1>3. CASE WorkerReadEnds \/ WorkerAcquire \/ WorkerAcquireCancelled \/ WorkerClose
  <2>1. /\ UNCHANGED <<status, isLive, stream, accepted, faults, chan, pending>>
        /\ \A n \in Match : InHand(n) => InHand(n)'
    BY <1>3 DEF WorkerReadEnds, WorkerAcquire, WorkerAcquireCancelled, WorkerClose, InHand, rows,
                queueVars
  <2>2. \A n \in Match : Served(n) => Served(n)'
    BY <2>1 DEF Served, InChannel
  <2> QED
    BY <1>1, <2>1, <2>2, LetGo
<1>4. CASE WorkerRead \/ WorkerDrain
  <2>1. /\ chan # <<>> /\ chan' = Tail(chan) /\ pending' = Head(chan)
        /\ UNCHANGED <<status, isLive, stream, accepted, faults>>
        /\ \A n \in Match : ~InHand(n)
        /\ pc' \in {"Acquiring", "Clearing"} \/ (pc' = "Draining" /\ Head(chan) \in active)
    BY <1>1, <1>4 DEF WorkerRead, WorkerDrain, InHand, rows
  <2>2. ASSUME NEW n \in Match, InChannel(n) PROVE n = Head(chan) \/ InChannel(n)'
    <3>1. PICK i \in DOMAIN chan : chan[i] = n
      BY <2>2 DEF InChannel
    <3>2. i \in 1 .. Len(chan) /\ Len(chan) \in Nat
      BY <1>1
    <3>3. CASE i = 1
      BY <1>1, <2>1, <3>1, <3>3
    <3>4. CASE i # 1
      <4>1. i - 1 \in DOMAIN Tail(chan) /\ Tail(chan)[i - 1] = chan[i]
        BY <1>1, <2>1, <3>2, <3>4
      <4> QED
        BY <2>1, <3>1, <4>1 DEF InChannel
    <3> QED
      BY <3>3, <3>4
  <2>3. ASSUME NEW n \in Match, Served(n) PROVE Served(n)' \/ Lost(n) \/ ~isLive[n]
    <3>1. CASE InChannel(n)'
      BY <3>1 DEF Served
    <3>2. CASE n = Head(chan) /\ pc' \in {"Acquiring", "Clearing"}
      BY <2>1, <3>2 DEF Served, InHand
    <3>3. CASE n \in active
      BY <1>2, <2>1, <3>3
    <3>4. CASE stream[n] \in Holding \ {"Releasing"}
      BY <2>1, <3>4 DEF Served
    <3> QED
      BY <2>1, <2>2, <2>3, <3>1, <3>2, <3>3, <3>4 DEF Served
  <2> QED
    BY <1>1, <2>1, <2>3, LetGo
<1>5. CASE WorkerSkipDuplicate \/ WorkerCheckPending
  <2>1. /\ UNCHANGED <<status, isLive, stream, accepted, faults, chan>>
        /\ \A n \in Match : InHand(n) => n \in active \/ InHand(n)'
    BY <1>1, <1>5, WorkerAssumption
    DEF WorkerSkipDuplicate, WorkerCheckPending, InHand, rows, queueVars
  <2>2. \A n \in Match : Served(n) => Served(n)' \/ Lost(n) \/ ~isLive[n]
    BY <1>2, <2>1 DEF Served, InChannel
  <2> QED
    BY <1>1, <2>1, <2>2, LetGo
<1>6. CASE WorkerDispatch
  <2>1. /\ pending \in Match /\ stream[pending] = "Idle"
        /\ stream' = [stream EXCEPT ![pending] = "Starting"]
        /\ UNCHANGED <<status, isLive, accepted, faults, chan>>
        /\ \A n \in Match : InHand(n) => n = pending
    BY <1>1, <1>6 DEF WorkerDispatch, PendingInHand, ActiveIffRunning, InHand, rows, queueVars
  <2>2. \A n \in Match : Served(n) => Served(n)'
    BY <1>1, <2>1 DEF Served, InChannel, Holding, StreamPoint
  <2> QED
    BY <1>1, <2>1, <2>2 DEF LosesNone, Lost
<1>7. CASE WorkerClear
  <2>1. /\ pending \in Match /\ stream[pending] = "Idle"
        /\ UNCHANGED <<status, isLive, stream, accepted, chan, pending>>
        /\ \A n \in Match \ {pending} : ~InHand(n)
        /\ \/ /\ UNCHANGED faults
              /\ IF status[pending] = "Queued" THEN pc' = "ClearingSave" ELSE TRUE
           \/ faults' = faults + 1
    BY <1>1, <1>7 DEF WorkerClear, PendingInHand, ActiveIffRunning, InHand, Fault, rows, queueVars
  <2>2. \A n \in Match \ {pending} : Served(n) => Served(n)'
    BY <2>1 DEF Served, InChannel
  <2>3. CASE UNCHANGED faults
    <3>1. Served(pending)' \/ Lost(pending) \/ ~isLive[pending]
      <4>1. CASE status[pending] = "Queued"
        <5>1. pc' = "ClearingSave" /\ pending' = pending
          BY <1>1, <2>1, <2>3, <4>1
        <5> QED
          BY <5>1 DEF Served, InHand
      <4>2. CASE status[pending] # "Queued"
        BY <1>1, <2>1, <4>2 DEF Lost, LiveIffUnsettled
      <4> QED
        BY <4>1, <4>2
    <3> QED
      BY <1>1, <2>1, <2>2, <2>3, <3>1, LetGo
  <2>4. CASE faults' = faults + 1
    BY <1>1, <2>1, <2>2, <2>4 DEF LosesOne, Lost
  <2> QED
    BY <2>1, <2>3, <2>4
<1>8. CASE WorkerClearSave
  <2>1. /\ pending \in Match
        /\ UNCHANGED <<stream, accepted, chan, pending>>
        /\ \A n \in Match \ {pending} : ~InHand(n) /\ status'[n] = status[n] /\ isLive'[n] = isLive[n]
        /\ \/ UNCHANGED faults /\ ~isLive'[pending]
           \/ faults' = faults + 1
    BY <1>1, <1>8 DEF WorkerClearSave, PendingInHand, InHand, Saved, SaveThrows, SavedButThrows,
                      SetRow, Fault, rows, queueVars
  <2>2. \A n \in Match \ {pending} : Served(n) => Served(n)'
    BY <2>1 DEF Served, InChannel
  <2> QED
    BY <1>1, <2>1, <2>2 DEF LosesOne, LosesNone, Lost
<1>9. CASE WorkerDrained \/ WorkerStopped
  <2>1. /\ UNCHANGED <<status, isLive, stream, accepted, faults, chan>>
        /\ \A n \in Match : ~InHand(n)
    BY <1>9 DEF WorkerDrained, WorkerStopped, InHand, rows, queueVars
  <2>2. \A n \in Match : Served(n) => Served(n)'
    BY <2>1 DEF Served, InChannel
  <2> QED
    BY <1>1, <2>1, <2>2, LetGo
<1> QED
  BY <1>3, <1>4, <1>5, <1>6, <1>7, <1>8, <1>9 DEF WorkerLoop

\* A stream loses its match only to a fault, or had lost it when its row was
\* started by a save that threw.
LEMMA StreamLosses ==
  ASSUME WorkerInv, NEW m \in Match, RunStream(m)
  PROVE  LosesNone \/ LosesOne(m)
<1>1. /\ status \in [Match -> RowStatus] /\ isLive \in [Match -> BOOLEAN] /\ faults \in Nat
      /\ stream \in [Match -> StreamPoint]
      /\ ReadStillHolds /\ ConsumingIsInProgress /\ LiveIffUnsettled
  BY DEF WorkerInv, WorkerTypeOK
<1>2. /\ UNCHANGED <<pc, pending, accepted, chan>>
      /\ \A n \in Match \ {m} : stream'[n] = stream[n]
      /\ \A n \in Match \ {m} : status'[n] = status[n] /\ isLive'[n] = isLive[n]
  BY <1>1 DEF RunStream, StreamNotStarted, StreamSawQueued, StreamStarted, StreamStartThrows,
     StreamEnds, StreamFlush, StreamFail, StreamFailSave, StreamRelease, StreamRetire, StreamFrame,
     Goto, Saved, SaveThrows, SavedButThrows, SetRow, rows, queueVars
<1>3. \A n \in Match \ {m} : Lost(n)' => Lost(n)
  BY <1>2 DEF Lost, Served, InChannel, InHand
<1>4. CASE faults' = faults + 1
  BY <1>1, <1>3, <1>4 DEF LosesOne
<1>5. CASE UNCHANGED faults
  <2>1. SUFFICES ASSUME isLive'[m], Lost(m)' PROVE Lost(m)
    BY <1>1, <1>3, <1>5 DEF LosesNone, Lost
  <2>2. CASE StreamNotStarted(m) \/ StreamSawQueued(m)
    <3>1. /\ stream[m] = "Starting" /\ stream'[m] \in {"Failing", "StartSaving"}
          /\ UNCHANGED <<status, isLive>>
      BY <1>1, <2>2 DEF StreamNotStarted, StreamSawQueued, Goto, rows
    <3> QED
      BY <2>1, <3>1 DEF Lost, Served, Holding, StreamPoint
  <2>3. CASE StreamStarted(m)
    <3>1. stream'[m] = "Consuming"
      BY <1>1, <2>3 DEF StreamStarted, Goto
    <3> QED
      BY <2>1, <3>1 DEF Lost, Served, Holding, StreamPoint
  <2>4. CASE StreamStartThrows(m)
    <3>1. /\ stream[m] = "StartSaving" /\ stream'[m] = "Failing" /\ UNCHANGED <<status, isLive>>
      <4>1. ~Fault
        BY <1>1, <1>5 DEF Fault
      <4> QED
        BY <1>1, <2>4, <4>1 DEF StreamStartThrows, Goto, SaveThrows, SavedButThrows, rows
    <3> QED
      BY <2>1, <3>1 DEF Lost, Served, Holding, StreamPoint
  <2>5. CASE StreamEnds(m)
    <3>1. stream'[m] = "Flushing"
      BY <1>1, <2>5 DEF StreamEnds, Goto
    <3> QED
      BY <2>1, <3>1 DEF Lost, Served, Holding, StreamPoint
  <2>6. CASE StreamFlush(m) \/ StreamFailSave(m)
    <3>1. ~isLive'[m]
      BY <1>1, <1>5, <2>6 DEF StreamFlush, StreamFailSave, Saved, SaveThrows, SavedButThrows, SetRow,
                              Fault
    <3> QED
      BY <2>1, <3>1
  <2>7. CASE StreamFail(m)
    <3>1. /\ stream[m] = "Failing" /\ UNCHANGED <<status, isLive>>
          /\ stream'[m] = IF status[m] = "Queued" THEN "FailSaving" ELSE "Releasing"
      BY <1>1, <1>5, <2>7 DEF StreamFail, Fault, rows
    <3>2. CASE status[m] = "Queued"
      BY <2>1, <3>1, <3>2 DEF Lost, Served, Holding, StreamPoint
    <3>3. CASE status[m] # "Queued"
      BY <1>1, <2>1, <3>1, <3>3 DEF Lost, LiveIffUnsettled
    <3> QED
      BY <3>2, <3>3
  <2>8. CASE StreamRelease(m) \/ StreamRetire(m)
    BY <2>1, <2>8 DEF StreamRelease, StreamRetire, Goto, Lost, rows
  <2> QED
    BY <2>2, <2>3, <2>4, <2>5, <2>6, <2>7, <2>8 DEF RunStream
<1>6. faults' \in {faults, faults + 1}
  BY DEF RunStream, StreamNotStarted, StreamSawQueued, StreamStarted, StreamStartThrows,
     StreamEnds, StreamFlush, StreamFail, StreamFailSave, StreamRelease, StreamRetire, Saved,
     SaveThrows, SavedButThrows, Fault
<1> QED
  BY <1>4, <1>5, <1>6

LEMMA WorkerLosses ==
  ASSUME WorkerInv, WorkerNext
  PROVE  LosesNone \/ \E m : LosesOne(m)
<1>1. faults \in Nat /\ chan \in Seq(Match) /\ accepted \in [Match -> Nat]
  BY DEF WorkerInv, WorkerTypeOK
<1>2. CASE StopComplete \/ StopCancel
  BY <1>1, <1>2 DEF StopComplete, StopCancel, rows, queueVars, LosesNone, Lost, Served, InChannel,
                    InHand
<1>3. ASSUME NEW m \in Match, Submit(m) PROVE LosesNone
  <2>1. /\ UNCHANGED <<status, isLive, stream, pc, pending, faults>> /\ chan' = Append(chan, m)
        /\ \A n \in Match \ {m} : accepted'[n] = accepted[n]
    BY <1>1, <1>3 DEF Submit, TryEnqueue, rows
  <2>2. Len(chan) + 1 \in DOMAIN Append(chan, m) /\ Append(chan, m)[Len(chan) + 1] = m
    BY <1>1
  <2>3. \A i \in DOMAIN chan : i \in DOMAIN Append(chan, m) /\ Append(chan, m)[i] = chan[i]
    BY <1>1
  <2>4. InChannel(m)' /\ \A n \in Match : InChannel(n) => InChannel(n)'
    BY <2>1, <2>2, <2>3 DEF InChannel
  <2> QED
    BY <1>1, <2>1, <2>4 DEF LosesNone, Lost, Served, InHand
<1> QED
  BY <1>2, <1>3, LoopLosses, StreamLosses DEF WorkerNext

LEMMA LossesStep ==
  ASSUME LossesPaid, LosesNone \/ \E m : LosesOne(m)
  PROVE  LossesPaid'
<1> DEFINE L == {m \in Match : Lost(m)}
<1>1. IsFiniteSet(L) /\ Cardinality(L) <= faults
  BY WorkerAssumption, FS_Subset DEF LossesPaid
<1>2. /\ faults \in Nat /\ faults' \in Nat
      /\ \/ L' \subseteq L /\ faults <= faults'
         \/ faults' = faults + 1 /\ \E x : L' \subseteq L \cup {x}
  BY DEF LosesNone, LosesOne
<1> HIDE DEF L
<1>3. Cardinality(L') <= faults'
  BY <1>1, <1>2, PaidGrowth
<1> QED
  BY <1>3 DEF L, LossesPaid

LEMMA DrainedStep ==
  ASSUME WorkerInv, DrainedOK, [WorkerNext]_workerVars
  PROVE  DrainedOK'
<1>1. pc \in WorkerPoint
  BY DEF WorkerInv, WorkerTypeOK
<1>2. CASE UNCHANGED workerVars
  BY <1>2 DEF workerVars, queueVars, DrainedOK
<1>3. CASE StopComplete \/ StopCancel \/ \E m \in Match : Submit(m) \/ RunStream(m)
  <2>1. UNCHANGED pc /\ (closed => closed' /\ chan' = chan)
    <3>1. CASE StopComplete \/ StopCancel
      BY <3>1 DEF StopComplete, StopCancel, queueVars
    <3>2. ASSUME NEW m \in Match, Submit(m) PROVE UNCHANGED pc /\ ~closed
      BY <3>2 DEF Submit, TryEnqueue, CanEnqueue
    <3>3. ASSUME NEW m \in Match, RunStream(m) PROVE UNCHANGED <<pc, chan, closed>>
      BY <3>3 DEF RunStream, StreamNotStarted, StreamSawQueued, StreamStarted, StreamStartThrows,
         StreamEnds, StreamFlush, StreamFail, StreamFailSave, StreamRelease, StreamRetire,
         StreamFrame, queueVars
    <3> QED
      BY <1>3, <3>1, <3>2, <3>3
  <2> QED
    BY <2>1 DEF DrainedOK, Finalizing
<1>4. CASE WorkerLoop
  BY <1>1, <1>4 DEF WorkerLoop, WorkerRead, WorkerReadEnds, WorkerAcquire, WorkerAcquireCancelled,
     WorkerSkipDuplicate, WorkerDispatch, WorkerClose, WorkerCheckPending, WorkerClear,
     WorkerClearSave, WorkerDrain, WorkerDrained, WorkerStopped, queueVars, DrainedOK, Finalizing
<1> QED
  BY <1>2, <1>3, <1>4 DEF WorkerNext

\* A stop leaves no accepted request live, whether it was waiting in the channel,
\* in the worker's hand or running: each fault of the database strands at most
\* one match, however many requests there are (StopAsync, the finally block).
THEOREM WorkerStopSettles == WorkerSpec => []GracefulStopSettles
<1>1. WorkerInit => LossInv
  <2> SUFFICES ASSUME WorkerInit PROVE LossInv
    OBVIOUS
  <2>1. \A m \in Match : ~Lost(m)
    BY DEF WorkerInit, WorkerStart, Lost
  <2>2. {m \in Match : Lost(m)} = {} /\ faults = 0
    BY <2>1 DEF WorkerInit, WorkerStart
  <2>3. LossesPaid
    BY <2>2, FS_EmptySet DEF LossesPaid
  <2> QED
    BY <2>3, InitInv DEF LossInv, DrainedOK, Finalizing, WorkerInit, WorkerStart
<1>2. LossInv /\ [WorkerNext]_workerVars => LossInv'
  <2> SUFFICES ASSUME LossInv, [WorkerNext]_workerVars PROVE LossInv'
    OBVIOUS
  <2>1. WorkerInv' /\ DrainedOK'
    BY NextInv, DrainedStep DEF LossInv
  <2>2. CASE WorkerNext
    BY <2>1, <2>2, WorkerLosses, LossesStep DEF LossInv
  <2>3. CASE UNCHANGED workerVars
    <3>1. LosesNone
      BY <2>3 DEF LossInv, WorkerInv, WorkerTypeOK, workerVars, rows, queueVars, LosesNone, Lost,
                  Served, InChannel, InHand
    <3> QED
      BY <2>1, <3>1, LossesStep DEF LossInv
  <2> QED
    BY <2>2, <2>3
<1>3. LossInv => GracefulStopSettles
  <2> SUFFICES ASSUME LossInv, pc = "Stopped"
               PROVE  Cardinality({m \in Match : accepted[m] > 0 /\ isLive[m]}) <= faults
    BY DEF GracefulStopSettles
  <2> DEFINE Left == {m \in Match : accepted[m] > 0 /\ isLive[m]}
             L == {m \in Match : Lost(m)}
  <2>1. chan = <<>> /\ (\A m \in Match : stream[m] = "Idle") /\ faults \in Nat
    BY DEF LossInv, DrainedOK, WorkerInv, WorkerTypeOK, NoStreamOutlivesWorker
  <2>2. \A m \in Match : ~Served(m)
    BY <2>1 DEF Served, InChannel, InHand, Holding
  <2>3. Left \subseteq L
    BY <2>2 DEF Lost
  <2>4. IsFiniteSet(L) /\ Cardinality(L) <= faults
    BY WorkerAssumption, FS_Subset DEF LossInv, LossesPaid
  <2> HIDE DEF Left, L
  <2>5. /\ Cardinality(Left) <= Cardinality(L)
        /\ Cardinality(L) \in Nat /\ Cardinality(Left) \in Nat
    BY <2>3, <2>4, FS_Subset, FS_CardinalityType
  <2> QED
    BY <2>1, <2>4, <2>5 DEF Left
<1> QED
  BY <1>1, <1>2, <1>3, PTL DEF WorkerSpec

-----------------------------------------------------------------------------
(* The dispatcher and the handlers of the requests *)

\* The dispatcher has nothing to do with m.
Untouched(m) ==
  /\ stream[m] = "Idle"
  /\ pending # m
  /\ \A i \in DOMAIN chan : chan[i] # m

\* A match is with its handler until the channel has accepted it.
WithHandler(m) == handler[m] \notin {"Notifying", "Accepted"}

\* What a handler knows of the row of its match.
RowMatchesHandler ==
  \A m \in Match :
    /\ handler[m] \in {"Idle", "Creating"} => status[m] = "None"
    /\ handler[m] = "CompensatingSave" => status[m] = "Queued"
    /\ WithHandler(m) => status[m] \in {"None", "Queued", "Failed"}

HandlerInv ==
  /\ handler \in [Match -> HandlerPoint]
  /\ \A m \in Match : WithHandler(m) => Untouched(m)
  /\ RowMatchesHandler

SimulateInv == WorkerInv /\ HandlerInv

-----------------------------------------------------------------------------
\* The dispatcher leaves a match alone that it has not been given.
LEMMA ServiceLeavesAlone ==
  ASSUME WorkerInv, Service, NEW m \in Match, Untouched(m)
  PROVE  Untouched(m)' /\ status'[m] = status[m] /\ isLive'[m] = isLive[m]
<1> USE DEF Untouched, rows, queueVars
<1>1. /\ status \in [Match -> RowStatus] /\ isLive \in [Match -> BOOLEAN]
      /\ stream \in [Match -> StreamPoint] /\ chan \in Seq(Match) /\ faults \in Nat
      /\ PendingInHand
  BY DEF WorkerInv, WorkerTypeOK
<1>2. CASE StopComplete \/ StopCancel \/ WorkerReadEnds \/ WorkerAcquire
           \/ WorkerAcquireCancelled \/ WorkerClose \/ WorkerCheckPending
           \/ WorkerClear \/ WorkerStopped
  BY <1>2 DEF StopComplete, StopCancel, WorkerReadEnds, WorkerAcquire,
     WorkerAcquireCancelled, WorkerClose, WorkerCheckPending, WorkerClear, WorkerStopped
<1>3. CASE WorkerSkipDuplicate \/ WorkerDrained
  BY <1>3, WorkerAssumption DEF WorkerSkipDuplicate, WorkerDrained
<1>4. CASE WorkerDispatch
  BY <1>1, <1>4, WorkerAssumption DEF WorkerDispatch
<1>5. CASE WorkerRead \/ WorkerDrain
  <2>1. /\ chan # <<>> /\ pending' = Head(chan) /\ chan' = Tail(chan)
        /\ UNCHANGED <<rows, stream>>
    BY <1>5 DEF WorkerRead, WorkerDrain
  <2>2. Len(chan) \in Nat /\ Len(chan) > 0 /\ DOMAIN chan = 1 .. Len(chan)
    BY <1>1, <2>1
  <2>3. Head(chan) = chan[1] /\ 1 \in DOMAIN chan
    BY <1>1, <2>1, <2>2
  <2>4. \A i \in DOMAIN Tail(chan) : i + 1 \in DOMAIN chan /\ Tail(chan)[i] = chan[i + 1]
    BY <1>1, <2>1, <2>2
  <2> QED
    BY <2>1, <2>3, <2>4
<1>6. CASE WorkerClearSave
  <2>1. pending \in Match /\ pending # m /\ Save(pending, "Failed", FALSE)
    BY <1>1, <1>6 DEF WorkerClearSave, PendingInHand, Save
  <2>2. status'[m] = status[m] /\ isLive'[m] = isLive[m]
    BY <1>1, <2>1, SaveStep DEF RowStatus
  <2> QED
    BY <1>6, <2>2 DEF WorkerClearSave
<1>7. ASSUME NEW n \in Match, RunStream(n)
      PROVE  Untouched(m)' /\ status'[m] = status[m] /\ isLive'[m] = isLive[m]
  <2>1. n # m /\ UNCHANGED <<chan, pending>> /\ stream'[m] = stream[m]
    BY <1>1, <1>7 DEF RunStream, StreamNotStarted, StreamSawQueued, StreamStarted,
       StreamStartThrows, StreamEnds, StreamFlush, StreamFail, StreamFailSave,
       StreamRelease, StreamRetire, StreamFrame, Goto
  <2>2. status'[m] = status[m] /\ isLive'[m] = isLive[m]
    BY <1>1, <1>7, <2>1 DEF RunStream, StreamNotStarted, StreamSawQueued, StreamStarted,
       StreamStartThrows, StreamEnds, StreamFlush, StreamFail, StreamFailSave,
       StreamRelease, StreamRetire, Saved, SaveThrows, SavedButThrows, SetRow
  <2> QED
    BY <2>1, <2>2
<1> QED
  <2> HIDE DEF Untouched
  <2> QED
    BY <1>2, <1>3, <1>4, <1>5, <1>6, <1>7 DEF Service, WorkerLoop

LEMMA ServiceInv ==
  ASSUME SimulateInv, Service
  PROVE  SimulateInv'
<1>1. WorkerInv /\ WorkerNext
  BY DEF SimulateInv, Service, WorkerNext
<1>2. WorkerInv'
  BY <1>1, NextInv
<1>3. HandlerInv
  BY DEF SimulateInv
<1>4. UNCHANGED handler
  BY DEF Service
<1>5. ASSUME NEW m \in Match, WithHandler(m)
      PROVE  Untouched(m)' /\ status'[m] = status[m]
  BY <1>1, <1>3, <1>5, ServiceLeavesAlone DEF HandlerInv
<1>6. HandlerInv'
  BY <1>3, <1>4, <1>5 DEF HandlerInv, RowMatchesHandler, WithHandler
<1> QED
  BY <1>2, <1>6 DEF SimulateInv

-----------------------------------------------------------------------------
\* A handler's step as the dispatcher sees it: it may add to the channel, and
\* may write the row of a match the dispatcher has not been given.
LEMMA HandlerKeepsWorker ==
  ASSUME WorkerInv, NEW m \in Match,
         UNCHANGED <<closed, stopping, pc, pending, permits, active, stream>>,
         chan' \in Seq(Match), accepted' \in [Match -> Nat], faults' \in Nat,
         status' \in [Match -> RowStatus], isLive' \in [Match -> BOOLEAN],
         \A n \in Match \ {m} : status'[n] = status[n] /\ isLive'[n] = isLive[n],
         \/ status'[m] = status[m] /\ isLive'[m] = isLive[m]
         \/ /\ Untouched(m)
            /\ isLive'[m] <=> status'[m] \in {"Queued", "In Progress"}
  PROVE  WorkerInv'
<1>1. WorkerTypeOK'
  BY DEF WorkerInv, WorkerTypeOK
<1>2. PermitsConserved'
  BY HoldersStill DEF WorkerInv, PermitsConserved
<1>3. ActiveIffRunning' /\ NoStreamOutlivesWorker'
  BY DEF WorkerInv, ActiveIffRunning, NoStreamOutlivesWorker
<1>4. PendingInHand'
  BY DEF WorkerInv, PendingInHand, Untouched
<1>5. ReadStillHolds' /\ ConsumingIsInProgress'
  BY DEF WorkerInv, ReadStillHolds, ConsumingIsInProgress, Untouched
<1>6. LiveIffUnsettled'
  BY DEF WorkerInv, LiveIffUnsettled
<1> QED
  BY <1>1, <1>2, <1>3, <1>4, <1>5, <1>6 DEF WorkerInv

\* A step that does not enter the channel and leaves the row alone, or saves it.
LEMMA PrivateStep ==
  ASSUME SimulateInv, NEW m \in Match, NEW to \in HandlerPoint,
         handler' = [handler EXCEPT ![m] = to],
         HandlerFrame, WithHandler(m), to \notin {"Notifying", "Accepted"},
         faults' \in Nat,
         status' \in [Match -> RowStatus], isLive' \in [Match -> BOOLEAN],
         \A n \in Match \ {m} : status'[n] = status[n] /\ isLive'[n] = isLive[n],
         \/ status'[m] = status[m] /\ isLive'[m] = isLive[m]
         \/ status'[m] = "Queued" /\ isLive'[m]
         \/ status'[m] = "Failed" /\ ~isLive'[m],
         to \in {"Idle", "Creating"} => status'[m] = "None",
         to = "CompensatingSave" => status'[m] = "Queued"
  PROVE  SimulateInv'
<1>1. WorkerInv /\ HandlerInv
  BY DEF SimulateInv
<1>2. Untouched(m) /\ status[m] \in {"None", "Queued", "Failed"}
  BY <1>1 DEF HandlerInv, RowMatchesHandler
<1>3. UNCHANGED <<chan, closed, stopping, pc, pending, permits, active, stream, accepted>>
  BY DEF HandlerFrame, queueVars
<1>4. chan' \in Seq(Match) /\ accepted' \in [Match -> Nat]
  BY <1>1, <1>3 DEF WorkerInv, WorkerTypeOK
<1>5. WorkerInv'
  <2>1. \/ status'[m] = status[m] /\ isLive'[m] = isLive[m]
        \/ isLive'[m] <=> status'[m] \in {"Queued", "In Progress"}
    OBVIOUS
  <2> QED
    BY <1>1, <1>2, <1>3, <1>4, <2>1, HandlerKeepsWorker
<1>6. HandlerInv'
  <2>1. handler' \in [Match -> HandlerPoint]
    BY <1>1 DEF HandlerInv
  <2>2. handler'[m] = to /\ \A n \in Match \ {m} : handler'[n] = handler[n]
    BY <1>1 DEF HandlerInv
  <2>3. \A n \in Match : WithHandler(n)' => Untouched(n)'
    BY <1>1, <1>2, <1>3, <2>2 DEF HandlerInv, WithHandler, Untouched
  <2>4. RowMatchesHandler'
    BY <1>1, <1>2, <2>2 DEF HandlerInv, RowMatchesHandler, WithHandler
  <2> QED
    BY <2>1, <2>3, <2>4 DEF HandlerInv
<1> QED
  BY <1>5, <1>6 DEF SimulateInv

\* The handler gives the match away: to the channel, or with its answer.
LEMMA HandOverStep ==
  ASSUME SimulateInv, NEW m \in Match, NEW to \in {"Notifying", "Accepted"},
         handler' = [handler EXCEPT ![m] = to],
         UNCHANGED <<rows, closed, stopping, pc, pending, permits, active, stream, faults>>,
         \/ UNCHANGED <<chan, accepted>>
         \/ TryEnqueue(m)
  PROVE  SimulateInv'
<1>1. WorkerInv /\ HandlerInv
  BY DEF SimulateInv
<1>2. /\ chan \in Seq(Match) /\ accepted \in [Match -> Nat] /\ faults' \in Nat
      /\ status' \in [Match -> RowStatus] /\ isLive' \in [Match -> BOOLEAN]
  BY <1>1 DEF WorkerInv, WorkerTypeOK, rows
<1>3. chan' \in Seq(Match) /\ accepted' \in [Match -> Nat]
  <2>1. CASE TryEnqueue(m)
    BY <1>2, <2>1 DEF TryEnqueue
  <2>2. CASE UNCHANGED <<chan, accepted>>
    BY <1>2, <2>2
  <2> QED
    BY <2>1, <2>2
<1>4. \A n \in Match : status'[n] = status[n] /\ isLive'[n] = isLive[n]
  BY DEF rows
<1>5. WorkerInv'
  BY <1>1, <1>2, <1>3, <1>4, HandlerKeepsWorker
<1>6. ASSUME NEW n \in Match, n # m, \A i \in DOMAIN chan : chan[i] # n
      PROVE  \A i \in DOMAIN chan' : chan'[i] # n
  <2>1. CASE TryEnqueue(m)
    <3>1. chan' = Append(chan, m) /\ DOMAIN chan' = 1 .. Len(chan) + 1
      BY <1>2, <2>1 DEF TryEnqueue
    <3>2. \A i \in 1 .. Len(chan) : chan'[i] = chan[i] /\ i \in DOMAIN chan
      BY <1>2, <3>1
    <3>3. chan'[Len(chan) + 1] = m
      BY <1>2, <3>1
    <3>4. \A i \in 1 .. Len(chan) + 1 : i \in 1 .. Len(chan) \/ i = Len(chan) + 1
      BY <1>2
    <3> QED
      BY <1>6, <3>1, <3>2, <3>3, <3>4
  <2> QED
    BY <1>6, <2>1
<1>7. HandlerInv'
  <2>1. handler' \in [Match -> HandlerPoint]
    BY <1>1 DEF HandlerInv, HandlerPoint
  <2>2. handler'[m] = to /\ \A n \in Match \ {m} : handler'[n] = handler[n]
    BY <1>1 DEF HandlerInv
  <2>3. \A n \in Match : WithHandler(n)' => Untouched(n)'
    BY <1>1, <1>6, <2>2 DEF HandlerInv, WithHandler, Untouched
  <2>4. RowMatchesHandler'
    BY <1>1, <1>4, <2>2 DEF HandlerInv, RowMatchesHandler, WithHandler
  <2> QED
    BY <2>1, <2>3, <2>4 DEF HandlerInv
<1> QED
  BY <1>5, <1>7 DEF SimulateInv

-----------------------------------------------------------------------------
LEMMA HandleInv ==
  ASSUME SimulateInv, NEW m \in Match, CheckLive(m) \/ Handle(m)
  PROVE  SimulateInv'
<1> USE DEF HandlerGoto
<1>1. /\ status \in [Match -> RowStatus] /\ isLive \in [Match -> BOOLEAN] /\ faults \in Nat
      /\ handler \in [Match -> HandlerPoint] /\ RowMatchesHandler
  BY DEF SimulateInv, WorkerInv, WorkerTypeOK, HandlerInv
<1>2. CASE CheckLive(m)
  <2>1. handler[m] = "Idle" /\ status[m] = "None"
    BY <1>1, <1>2 DEF CheckLive, RowMatchesHandler
  <2>2. PICK to \in {"Rejected", "Creating"} : handler' = [handler EXCEPT ![m] = to]
    BY <1>2 DEF CheckLive
  <2>3. HandlerFrame /\ UNCHANGED <<status, isLive>> /\ faults' \in Nat
    BY <1>1, <1>2 DEF CheckLive, Fault, rows
  <2> QED
    BY <1>1, <2>1, <2>2, <2>3, PrivateStep DEF HandlerPoint, WithHandler
<1>3. CASE CreateMatch(m) \/ CreateFails(m)
  <2>1. handler[m] = "Creating"
    BY <1>3 DEF CreateMatch, CreateFails
  <2>2. PICK to \in {"Rejected", "Naming"} : handler' = [handler EXCEPT ![m] = to]
    BY <1>3 DEF CreateMatch, CreateFails
  <2>3. HandlerFrame /\ (Save(m, "Queued", TRUE) \/ UNCHANGED <<rows, faults>>)
    BY <1>3 DEF CreateMatch, CreateFails, Save
  <2>4. /\ status' \in [Match -> RowStatus] /\ isLive' \in [Match -> BOOLEAN]
        /\ faults' \in Nat
        /\ \A n \in Match \ {m} : status'[n] = status[n] /\ isLive'[n] = isLive[n]
        /\ \/ status'[m] = status[m] /\ isLive'[m] = isLive[m]
           \/ status'[m] = "Queued" /\ isLive'[m]
    <3>1. CASE Save(m, "Queued", TRUE)
      BY <1>1, <3>1, SaveStep DEF RowStatus
    <3>2. CASE UNCHANGED <<rows, faults>>
      BY <1>1, <3>2 DEF rows
    <3> QED
      BY <2>3, <3>1, <3>2
  <2> QED
    BY <2>1, <2>2, <2>3, <2>4, PrivateStep DEF HandlerPoint, WithHandler
<1>4. CASE NotReady(m) \/ AdmissionThrows(m) \/ AssignSimulationId(m)
  <2>1. handler[m] \in {"Creating", "Naming", "Enqueuing"}
    BY <1>4 DEF NotReady, AdmissionThrows, AssignSimulationId
  <2>2. PICK to \in {"Refused", "Compensating", "Enqueuing"} :
          handler' = [handler EXCEPT ![m] = to]
    BY <1>4 DEF NotReady, AdmissionThrows, AssignSimulationId
  <2>3. HandlerFrame /\ UNCHANGED <<status, isLive, faults>>
    BY <1>4 DEF NotReady, AdmissionThrows, AssignSimulationId, rows
  <2> QED
    BY <1>1, <2>1, <2>2, <2>3, PrivateStep DEF HandlerPoint, WithHandler
<1>5. CASE Enqueue(m)
  <2>1. CASE handler' = [handler EXCEPT ![m] = "Notifying"]
    <3>1. TryEnqueue(m) /\ UNCHANGED <<rows, closed, stopping, pc, pending, permits,
                                        active, stream, faults>>
      BY <1>1, <1>5, <2>1 DEF Enqueue
    <3> QED
      BY <2>1, <3>1, HandOverStep
  <2>2. CASE handler' = [handler EXCEPT ![m] = "Compensating"]
    <3>1. handler[m] = "Enqueuing" /\ HandlerFrame /\ UNCHANGED <<status, isLive, faults>>
      BY <1>1, <1>5, <2>2 DEF Enqueue, rows
    <3> QED
      BY <1>1, <2>2, <3>1, PrivateStep DEF HandlerPoint, WithHandler
  <2> QED
    BY <1>5, <2>1, <2>2 DEF Enqueue
<1>6. CASE Notify(m)
  <2>1. handler' = [handler EXCEPT ![m] = "Accepted"]
    BY <1>6 DEF Notify
  <2>2. UNCHANGED <<rows, closed, stopping, pc, pending, permits, active, stream, faults>>
        /\ UNCHANGED <<chan, accepted>>
    BY <1>6 DEF Notify, HandlerFrame, queueVars
  <2> QED
    BY <2>1, <2>2, HandOverStep
<1>7. CASE Compensate(m)
  <2>1. PICK to \in {"CompensatingSave", "Refused"} :
          /\ handler' = [handler EXCEPT ![m] = to]
          /\ to = "CompensatingSave" => status[m] = "Queued"
    BY <1>7 DEF Compensate
  <2>2. /\ handler[m] = "Compensating" /\ HandlerFrame
        /\ UNCHANGED <<status, isLive>> /\ faults' \in Nat
    BY <1>1, <1>7 DEF Compensate, Fault, rows
  <2> QED
    BY <1>1, <2>1, <2>2, PrivateStep DEF HandlerPoint, WithHandler
<1>8. CASE CompensateSave(m)
  <2>1. /\ handler[m] = "CompensatingSave" /\ HandlerFrame
        /\ handler' = [handler EXCEPT ![m] = "Refused"]
        /\ Save(m, "Failed", FALSE)
    BY <1>8 DEF CompensateSave, Save
  <2>2. /\ status' \in [Match -> RowStatus] /\ isLive' \in [Match -> BOOLEAN]
        /\ faults' \in Nat
        /\ \A n \in Match \ {m} : status'[n] = status[n] /\ isLive'[n] = isLive[n]
        /\ \/ status'[m] = status[m] /\ isLive'[m] = isLive[m]
           \/ status'[m] = "Failed" /\ ~isLive'[m]
    BY <1>1, <2>1, SaveStep DEF RowStatus
  <2> QED
    BY <2>1, <2>2, PrivateStep DEF HandlerPoint, WithHandler
<1> QED
  BY <1>2, <1>3, <1>4, <1>5, <1>6, <1>7, <1>8 DEF Handle

LEMMA SimulateInitInv == SimulateInit => SimulateInv
<1> SUFFICES ASSUME SimulateInit PROVE SimulateInv
  OBVIOUS
<1> USE DEF SimulateInit, WorkerStart
<1>1. WorkerTypeOK
  <2>1. chan \in Seq(Match) /\ permits \in 0 .. MaxStreams /\ faults \in Nat
    BY WorkerAssumption
  <2>2. /\ status \in [Match -> RowStatus]
        /\ isLive \in [Match -> BOOLEAN]
        /\ stream \in [Match -> StreamPoint]
        /\ accepted \in [Match -> Nat]
    BY DEF RowStatus, StreamPoint
  <2>3. /\ closed \in BOOLEAN /\ stopping \in BOOLEAN /\ pc \in WorkerPoint
        /\ pending \in Match \cup {NoMatch} /\ active \in SUBSET Match
    BY DEF WorkerPoint
  <2> QED
    BY <2>1, <2>2, <2>3 DEF WorkerTypeOK
<1>2. PermitsConserved
  <2>1. Holders = {}
    BY DEF Holders, Holding
  <2> QED
    BY <2>1, FS_EmptySet, WorkerAssumption DEF PermitsConserved
<1>3. TaskInv
  BY DEF TaskInv, ActiveIffRunning, PendingInHand, ReadStillHolds, ConsumingIsInProgress,
         LiveIffUnsettled, NoStreamOutlivesWorker
<1>4. HandlerInv
  BY WorkerAssumption DEF HandlerInv, HandlerPoint, RowMatchesHandler, WithHandler, Untouched
<1> QED
  BY <1>1, <1>2, <1>3, <1>4 DEF SimulateInv, WorkerInv, TaskInv

LEMMA SimulateNextInv == SimulateInv /\ [SimulateNext]_simulateVars => SimulateInv'
<1>1. SimulateInv /\ SimulateNext => SimulateInv'
  BY ServiceInv, HandleInv DEF SimulateNext
<1>2. SimulateInv /\ UNCHANGED simulateVars => SimulateInv'
  <2> SUFFICES ASSUME SimulateInv, UNCHANGED simulateVars PROVE SimulateInv'
    OBVIOUS
  <2>1. WorkerInv'
    BY StutterInv DEF SimulateInv, simulateVars
  <2>2. HandlerInv'
    BY DEF SimulateInv, simulateVars, workerVars, rows, queueVars, HandlerInv,
           RowMatchesHandler, WithHandler, Untouched
  <2> QED
    BY <2>1, <2>2 DEF SimulateInv
<1> QED
  BY <1>1, <1>2

THEOREM SimulateInvariance == SimulateSpec => []SimulateInv
  BY SimulateInitInv, SimulateNextInv, PTL DEF SimulateSpec

\* Types of the composed system.
THEOREM SimulateTyped == SimulateSpec => []SimulateTypeOK
<1>1. SimulateInv => SimulateTypeOK
  BY DEF SimulateInv, WorkerInv, HandlerInv, SimulateTypeOK
<1> QED
  BY <1>1, SimulateInvariance, PTL

\* A handler that may still fail the row of its match (the catch block of
\* SimulateMatch) shares it with nobody: neither the channel, nor the worker,
\* nor a stream has the match.
THEOREM HandlerOwnsAlone == SimulateSpec => []SingleOwner
<1>1. SimulateInv => SingleOwner
  BY DEF SimulateInv, HandlerInv, SingleOwner, WithHandler, Untouched
<1> QED
  BY <1>1, SimulateInvariance, PTL

\* A match whose client was told 503 is never streamed.
THEOREM RefusedStaysDead == SimulateSpec => []RefusedNeverStreamed
<1>1. SimulateInv => RefusedNeverStreamed
  BY DEF SimulateInv, HandlerInv, RowMatchesHandler, WithHandler, RefusedNeverStreamed
<1> QED
  BY <1>1, SimulateInvariance, PTL

\* The semaphore is safe in the composed system too.
THEOREM SimulateConservesPermits == SimulateSpec => []PermitsConserved
<1>1. SimulateInv => PermitsConserved
  BY DEF SimulateInv, WorkerInv
<1> QED
  BY <1>1, SimulateInvariance, PTL

\* The creation and the compensation of the handler and the read-then-save
\* operations of the dispatcher never undo one another.
THEOREM SimulateMovesForward == SimulateSpec => SimulateStatusForward
<1>1. ASSUME SimulateInv, SimulateNext PROVE RowsForward
  <2>1. /\ status \in [Match -> RowStatus] /\ isLive \in [Match -> BOOLEAN] /\ faults \in Nat
        /\ RowMatchesHandler /\ WorkerInv
    BY <1>1 DEF SimulateInv, WorkerInv, WorkerTypeOK, HandlerInv
  <2>2. CASE Service
    BY <2>1, <2>2, WorkerRowsForward DEF Service, WorkerNext
  <2>3. ASSUME NEW m \in Match, CreateMatch(m) \/ CreateFails(m) PROVE RowsForward
    <3>1. status[m] = "None"
      BY <2>1, <2>3 DEF CreateMatch, CreateFails, HandlerGoto, RowMatchesHandler
    <3>2. Save(m, "Queued", TRUE) \/ UNCHANGED status
      BY <2>3 DEF CreateMatch, CreateFails, Save, rows
    <3>3. CASE Save(m, "Queued", TRUE)
      BY <2>1, <3>1, <3>3, SaveStep DEF RowsForward, ForwardEdges, RowStatus
    <3> QED
      BY <3>2, <3>3 DEF RowsForward
  <2>4. ASSUME NEW m \in Match, CompensateSave(m) PROVE RowsForward
    <3>1. status[m] = "Queued" /\ Save(m, "Failed", FALSE)
      BY <2>1, <2>4 DEF CompensateSave, HandlerGoto, RowMatchesHandler, Save
    <3> QED
      BY <2>1, <3>1, SaveStep DEF RowsForward, ForwardEdges, RowStatus
  <2>5. ASSUME NEW m \in Match,
               CheckLive(m) \/ NotReady(m) \/ AssignSimulationId(m) \/ AdmissionThrows(m)
                 \/ Enqueue(m) \/ Notify(m) \/ Compensate(m)
        PROVE  RowsForward
    BY <2>5 DEF CheckLive, NotReady, AssignSimulationId, AdmissionThrows, Enqueue, Notify,
       Compensate, rows, RowsForward
  <2> QED
    BY <1>1, <2>2, <2>3, <2>4, <2>5 DEF SimulateNext, Handle
<1>2. SimulateInv /\ [SimulateNext]_simulateVars => [RowsForward]_simulateVars
  BY <1>1
<1> QED
  BY <1>2, SimulateInvariance, PTL DEF SimulateSpec, SimulateStatusForward

-----------------------------------------------------------------------------
(* Orphans *)

\* The channel has accepted exactly the matches that are with it.
HandedOver == \A m \in Match : WithHandler(m) <=> accepted[m] = 0

\* A live match nobody will end: lost by the dispatcher, or by its handler, which
\* has answered without undoing its creation.
Stranded(m) == Lost(m) \/ (isLive[m] /\ handler[m] \in {"Rejected", "Refused"})

StrandedPaid == Cardinality({m \in Match : Stranded(m)}) <= faults

OrphanInv == SimulateInv /\ HandedOver /\ StrandedPaid

StrandsNone == faults \in Nat /\ faults' \in {faults, faults + 1}
                 /\ \A n \in Match : Stranded(n)' => Stranded(n)
StrandsOne(m) == faults \in Nat /\ faults' = faults + 1
                   /\ \A n \in Match \ {m} : Stranded(n)' => Stranded(n)

LEMMA StrandedStep ==
  ASSUME StrandedPaid, StrandsNone \/ \E m : StrandsOne(m)
  PROVE  StrandedPaid'
<1> DEFINE L == {m \in Match : Stranded(m)}
<1>1. IsFiniteSet(L) /\ Cardinality(L) <= faults
  BY WorkerAssumption, FS_Subset DEF StrandedPaid
<1>2. /\ faults \in Nat /\ faults' \in Nat
      /\ \/ L' \subseteq L /\ faults <= faults'
         \/ faults' = faults + 1 /\ \E x : L' \subseteq L \cup {x}
  BY DEF StrandsNone, StrandsOne
<1> HIDE DEF L
<1>3. Cardinality(L') <= faults'
  BY <1>1, <1>2, PaidGrowth
<1> QED
  BY <1>3 DEF L, StrandedPaid

\* The dispatcher strands what it loses; the matches of the handlers it leaves alone.
LEMMA ServiceStrands ==
  ASSUME SimulateInv, HandedOver, Service
  PROVE  HandedOver' /\ (StrandsNone \/ \E m : StrandsOne(m))
<1>1. WorkerInv /\ WorkerNext /\ HandlerInv /\ UNCHANGED handler
  BY DEF SimulateInv, Service, WorkerNext
<1>2. LosesNone \/ \E m : LosesOne(m)
  BY <1>1, WorkerLosses
<1>3. ASSUME NEW n \in Match, handler[n] \in {"Rejected", "Refused"}
      PROVE  isLive'[n] = isLive[n]
  BY <1>1, <1>3, ServiceLeavesAlone DEF HandlerInv, WithHandler
<1>4. UNCHANGED accepted
  BY DEF Service, StopComplete, StopCancel, WorkerLoop, WorkerRead, WorkerReadEnds, WorkerAcquire,
     WorkerAcquireCancelled, WorkerSkipDuplicate, WorkerDispatch, WorkerClose, WorkerCheckPending,
     WorkerClear, WorkerClearSave, WorkerDrain, WorkerDrained, WorkerStopped, RunStream,
     StreamNotStarted, StreamSawQueued, StreamStarted, StreamStartThrows, StreamEnds, StreamFlush,
     StreamFail, StreamFailSave, StreamRelease, StreamRetire, StreamFrame
<1>5. HandedOver'
  BY <1>1, <1>4 DEF HandedOver, WithHandler
<1>6. ASSUME NEW n \in Match, Stranded(n)', Lost(n)' => Lost(n) PROVE Stranded(n)
  BY <1>1, <1>3, <1>6 DEF Stranded
<1> QED
  BY <1>2, <1>5, <1>6 DEF StrandsNone, StrandsOne, LosesNone, LosesOne

\* What a handler does leaves the other matches to whoever had them.
LEMMA HandlerLeavesOthers ==
  ASSUME SimulateInv, NEW m \in Match, CheckLive(m) \/ Handle(m)
  PROVE  /\ \A n \in Match \ {m} : /\ Stranded(n)' => Stranded(n)
                                   /\ handler'[n] = handler[n] /\ accepted'[n] = accepted[n]
         /\ \E p \in HandlerPoint : handler' = [handler EXCEPT ![m] = p]
         /\ faults' \in {faults, faults + 1}
<1>1. /\ status \in [Match -> RowStatus] /\ isLive \in [Match -> BOOLEAN]
      /\ chan \in Seq(Match) /\ accepted \in [Match -> Nat]
      /\ handler \in [Match -> HandlerPoint]
  BY DEF SimulateInv, WorkerInv, WorkerTypeOK, HandlerInv
<1>2. /\ UNCHANGED <<pc, pending, stream>>
      /\ (UNCHANGED <<chan, accepted>>) \/ TryEnqueue(m)
      /\ faults' \in {faults, faults + 1}
  BY DEF CheckLive, Handle, CreateMatch, CreateFails, NotReady, AssignSimulationId,
     AdmissionThrows, Enqueue, Notify, Compensate, CompensateSave, HandlerFrame, queueVars, Saved,
     SaveThrows, SavedButThrows, Fault
<1>3. \A n \in Match \ {m} : status'[n] = status[n] /\ isLive'[n] = isLive[n]
  BY <1>1 DEF CheckLive, Handle, CreateMatch, CreateFails, NotReady, AssignSimulationId,
     AdmissionThrows, Enqueue, Notify, Compensate, CompensateSave, HandlerFrame, Saved,
     SaveThrows, SavedButThrows, SetRow, rows
<1>4. \E p \in HandlerPoint : handler' = [handler EXCEPT ![m] = p]
  BY DEF CheckLive, Handle, CreateMatch, CreateFails, NotReady, AssignSimulationId,
     AdmissionThrows, Enqueue, Notify, Compensate, CompensateSave, HandlerGoto, HandlerPoint
<1>5. \A n \in Match : InChannel(n) => InChannel(n)'
  <2>1. CASE UNCHANGED <<chan, accepted>>
    BY <2>1 DEF InChannel
  <2>2. CASE TryEnqueue(m)
    <3>1. \A i \in DOMAIN chan : i \in DOMAIN Append(chan, m) /\ Append(chan, m)[i] = chan[i]
      BY <1>1
    <3> QED
      BY <2>2, <3>1 DEF TryEnqueue, InChannel
  <2> QED
    BY <1>2, <2>1, <2>2
<1>6. \A n \in Match \ {m} : accepted'[n] = accepted[n]
  BY <1>1, <1>2 DEF TryEnqueue
<1>7. \A n \in Match \ {m} : handler'[n] = handler[n]
  BY <1>1, <1>4
<1>8. \A n \in Match \ {m} : Lost(n)' => Lost(n)
  BY <1>2, <1>3, <1>5, <1>6 DEF Lost, Served, InHand
<1>9. \A n \in Match \ {m} : Stranded(n)' => Stranded(n)
  BY <1>3, <1>7, <1>8 DEF Stranded
<1> QED
  BY <1>2, <1>4, <1>6, <1>7, <1>9

\* A handler answers with its match live only when the database failed it.
LEMMA HandlerStrands ==
  ASSUME SimulateInv, HandedOver, NEW m \in Match, CheckLive(m) \/ Handle(m)
  PROVE  HandedOver' /\ (StrandsNone \/ StrandsOne(m))
<1>1. /\ status \in [Match -> RowStatus] /\ isLive \in [Match -> BOOLEAN] /\ faults \in Nat
      /\ chan \in Seq(Match) /\ accepted \in [Match -> Nat]
      /\ handler \in [Match -> HandlerPoint] /\ LiveIffUnsettled /\ HandlerInv /\ RowMatchesHandler
  BY DEF SimulateInv, WorkerInv, WorkerTypeOK, HandlerInv
<1>2. /\ \A n \in Match \ {m} : /\ Stranded(n)' => Stranded(n)
                                /\ handler'[n] = handler[n] /\ accepted'[n] = accepted[n]
      /\ faults' \in {faults, faults + 1}
  BY HandlerLeavesOthers
<1>3. CASE Notify(m)
  <2>1. /\ handler[m] = "Notifying" /\ handler'[m] = "Accepted"
        /\ UNCHANGED <<status, isLive, stream, accepted, chan, pc, pending, faults>>
    BY <1>1, <1>3 DEF Notify, HandlerGoto, HandlerFrame, rows, queueVars
  <2>2. Stranded(m)' => Stranded(m)
    BY <2>1 DEF Stranded, Lost, Served, InChannel, InHand
  <2> QED
    BY <1>1, <1>2, <2>1, <2>2 DEF HandedOver, WithHandler, StrandsNone
<1>4. CASE Enqueue(m) /\ handler'[m] = "Notifying"
  <2>1. /\ handler[m] = "Enqueuing" /\ TryEnqueue(m)
        /\ UNCHANGED <<status, isLive, stream, pc, pending, faults>>
    BY <1>1, <1>4 DEF Enqueue, HandlerGoto, HandlerFrame, rows
  <2>2. stream[m] = "Idle" /\ status[m] \in {"None", "Queued", "Failed"} /\ accepted[m] = 0
    BY <1>1, <2>1 DEF HandlerInv, RowMatchesHandler, WithHandler, Untouched, HandedOver
  <2>3. chan' = Append(chan, m) /\ accepted'[m] = 1
    BY <1>1, <2>1, <2>2 DEF TryEnqueue
  <2>4. Len(chan) + 1 \in DOMAIN Append(chan, m) /\ Append(chan, m)[Len(chan) + 1] = m
    BY <1>1
  <2>5. Served(m)'
    BY <2>3, <2>4 DEF Served, InChannel
  <2>6. ~Stranded(m)'
    BY <1>4, <2>1, <2>2, <2>5 DEF Stranded, Lost
  <2> QED
    BY <1>1, <1>2, <1>4, <2>1, <2>2, <2>3, <2>6 DEF HandedOver, WithHandler, StrandsNone
<1>5. CASE ~Notify(m) /\ ~(Enqueue(m) /\ handler'[m] = "Notifying")
  <2>1. /\ WithHandler(m) /\ WithHandler(m)' /\ UNCHANGED <<stream, chan, pending, accepted>>
    BY <1>1, <1>5 DEF CheckLive, Handle, CreateMatch, CreateFails, NotReady, AssignSimulationId,
       AdmissionThrows, Enqueue, Compensate, CompensateSave, HandlerGoto, HandlerFrame, queueVars,
       WithHandler
  <2>2. HandedOver'
    BY <1>2, <2>1 DEF HandedOver, WithHandler
  <2>3. accepted[m] = 0 /\ stream[m] = "Idle"
    BY <1>1, <2>1 DEF HandedOver, HandlerInv, Untouched
  <2>4. CASE faults' = faults + 1
    BY <1>1, <1>2, <2>2, <2>4 DEF StrandsOne
  <2>5. CASE UNCHANGED faults
    <3>1. SimulateInv'
      BY HandleInv
    <3>2. status'[m] # "In Progress"
      BY <2>1, <3>1 DEF SimulateInv, HandlerInv, RowMatchesHandler
    <3>3. ~Lost(m)'
      <4>1. stream'[m] = "Idle" /\ ~(accepted'[m] > 0)
        BY <2>1, <2>3
      <4> QED
        BY <3>2, <4>1 DEF Lost
    <3>4. ~Fault
      BY <1>1, <2>5 DEF Fault
    <3>5. handler'[m] \in {"Rejected", "Refused"} => ~isLive'[m]
      <4>1. CASE CheckLive(m) \/ NotReady(m) \/ CreateFails(m)
        <5>1. handler[m] \in {"Idle", "Creating"} /\ UNCHANGED isLive
          BY <1>1, <3>4, <4>1 DEF CheckLive, NotReady, CreateFails, SavedButThrows, HandlerGoto, rows
        <5> QED
          BY <1>1, <5>1 DEF RowMatchesHandler, LiveIffUnsettled
      <4>2. CASE Compensate(m)
        <5>1. /\ handler[m] = "Compensating" /\ UNCHANGED <<status, isLive>>
              /\ handler'[m] = IF status[m] = "Queued" THEN "CompensatingSave" ELSE "Refused"
          BY <1>1, <3>4, <4>2 DEF Compensate, rows
        <5> QED
          BY <1>1, <5>1 DEF RowMatchesHandler, WithHandler, LiveIffUnsettled
      <4>3. CASE CompensateSave(m)
        BY <1>1, <3>4, <4>3 DEF CompensateSave, Saved, SaveThrows, SavedButThrows, SetRow
      <4>4. CASE CreateMatch(m) \/ AssignSimulationId(m) \/ AdmissionThrows(m) \/ Enqueue(m)
        BY <1>1, <4>4 DEF CreateMatch, AssignSimulationId, AdmissionThrows, Enqueue, HandlerGoto
      <4> QED
        BY <1>5, <4>1, <4>2, <4>3, <4>4 DEF Handle
    <3>6. ~Stranded(m)'
      BY <3>3, <3>5 DEF Stranded
    <3> QED
      BY <1>1, <1>2, <2>2, <2>5, <3>6 DEF StrandsNone
  <2> QED
    BY <1>2, <2>4, <2>5
<1> QED
  BY <1>3, <1>4, <1>5

\* Who has no owner is stranded, and so is a refused match that lives.
LEMMA OrphansAreStranded ==
  ASSUME SimulateInv, HandedOver, NEW m \in Match, isLive[m],
         ~Owned(m) \/ handler[m] = "Refused"
  PROVE  Stranded(m)
<1>1. /\ handler[m] \in HandlerPoint /\ RowMatchesHandler /\ LiveIffUnsettled
      /\ accepted[m] \in Nat
  BY DEF SimulateInv, HandlerInv, WorkerInv, WorkerTypeOK
<1>2. handler[m] \notin {"Idle", "Creating"}
  BY <1>1 DEF RowMatchesHandler, LiveIffUnsettled
<1>3. CASE handler[m] \in {"Notifying", "Accepted"}
  <2>1. accepted[m] > 0 /\ ~Served(m)
    BY <1>1, <1>3 DEF HandedOver, WithHandler, Owned, Served, InChannel, InHand
  <2> QED
    BY <2>1 DEF Stranded, Lost
<1>4. CASE handler[m] \notin {"Notifying", "Accepted"}
  BY <1>1, <1>2, <1>4 DEF HandlerPoint, Owned, Stranded
<1> QED
  BY <1>3, <1>4

LEMMA OrphanInvariance == SimulateSpec => []OrphanInv
<1>1. SimulateInit => OrphanInv
  <2> SUFFICES ASSUME SimulateInit PROVE OrphanInv
    OBVIOUS
  <2>1. \A m \in Match : ~Stranded(m)
    BY DEF SimulateInit, Stranded, Lost
  <2>2. {m \in Match : Stranded(m)} = {} /\ faults = 0
    BY <2>1 DEF SimulateInit, WorkerStart
  <2>3. StrandedPaid
    BY <2>2, FS_EmptySet DEF StrandedPaid
  <2>4. HandedOver
    BY DEF SimulateInit, WorkerStart, HandedOver, WithHandler
  <2> QED
    BY <2>3, <2>4, SimulateInitInv DEF OrphanInv
<1>2. OrphanInv /\ [SimulateNext]_simulateVars => OrphanInv'
  <2> SUFFICES ASSUME OrphanInv, [SimulateNext]_simulateVars PROVE OrphanInv'
    OBVIOUS
  <2>1. SimulateInv'
    BY SimulateNextInv DEF OrphanInv
  <2>2. HandedOver' /\ (StrandsNone \/ \E m : StrandsOne(m))
    <3>1. CASE Service
      BY <3>1, ServiceStrands DEF OrphanInv
    <3>2. CASE \E m \in Match : CheckLive(m) \/ Handle(m)
      BY <3>2, HandlerStrands DEF OrphanInv
    <3>3. CASE UNCHANGED simulateVars
      <4>1. faults \in Nat /\ faults' = faults
        BY <3>3 DEF OrphanInv, SimulateInv, WorkerInv, WorkerTypeOK, simulateVars, workerVars
      <4>2. /\ UNCHANGED <<status, isLive, chan, pc, pending, stream, accepted, handler>>
        BY <3>3 DEF simulateVars, workerVars, rows, queueVars
      <4>3. \A n \in Match : Stranded(n)' => Stranded(n)
        BY <4>2 DEF Stranded, Lost, Served, InChannel, InHand
      <4> QED
        BY <4>1, <4>2, <4>3 DEF OrphanInv, HandedOver, WithHandler, StrandsNone
    <3> QED
      BY <3>1, <3>2, <3>3 DEF SimulateNext
  <2> QED
    BY <2>1, <2>2, StrandedStep DEF OrphanInv
<1> QED
  BY <1>1, <1>2, PTL DEF SimulateSpec

\* Whatever fails between the insert of a live match and the end of its stream,
\* the database's own faults bound the matches that stay live with nobody to end
\* them, for every number of requests, users, permits and queue places; and a
\* refused match is dead (SimulateMatch, its catch blocks, ExecuteAsync).
THEOREM NoOrphansEver == SimulateSpec => []NoOrphans
<1>1. OrphanInv => NoOrphans
  <2> SUFFICES ASSUME OrphanInv PROVE NoOrphans
    OBVIOUS
  <2> DEFINE L == {m \in Match : Stranded(m)}
  <2>1. IsFiniteSet(L) /\ Cardinality(L) <= faults /\ faults \in Nat
    BY WorkerAssumption, FS_Subset
    DEF OrphanInv, StrandedPaid, SimulateInv, WorkerInv, WorkerTypeOK
  <2>2. ASSUME NEW S \in SUBSET L PROVE Cardinality(S) <= faults
    <3> HIDE DEF L
    <3>1. /\ Cardinality(S) <= Cardinality(L)
          /\ Cardinality(S) \in Nat /\ Cardinality(L) \in Nat
      BY <2>1, FS_Subset, FS_CardinalityType
    <3> QED
      BY <2>1, <3>1
  <2>3. OrphansBounded
    <3>1. {m \in Match : isLive[m] /\ ~Owned(m)} \in SUBSET L
      BY OrphansAreStranded DEF OrphanInv
    <3> QED
      BY <2>2, <3>1 DEF OrphansBounded
  <2>4. Cardinality({m \in Match : handler[m] = "Refused" /\ isLive[m]}) <= faults
    <3>1. {m \in Match : handler[m] = "Refused" /\ isLive[m]} \in SUBSET L
      BY OrphansAreStranded DEF OrphanInv
    <3> QED
      BY <2>2, <3>1
  <2>5. RefusedNeverStreamed
    BY DEF OrphanInv, SimulateInv, HandlerInv, RowMatchesHandler, WithHandler, RefusedNeverStreamed
  <2> QED
    BY <2>3, <2>4, <2>5 DEF NoOrphans, RefusedIsDead
<1> QED
  BY <1>1, OrphanInvariance, PTL
=================================================================================
