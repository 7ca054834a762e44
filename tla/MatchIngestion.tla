--------------------------- MODULE MatchIngestion ---------------------------
(***************************************************************************)
(* Pipeline A from the engine to the row: the engine publishes the events  *)
(* of a match to the durable queue of RabbitMQ, one background loop of the *)
(* back end gets them one at a time with manual acknowledgement, the event *)
(* processor buffers them in memory, and the event `match_end` flushes the *)
(* buffer to the row of the match.                                         *)
(*                                                                         *)
(* The events of a match are numbered as the engine publishes them; Last   *)
(* is the end marker.  The broker is external: what it keeps and when it   *)
(* delivers again is modelled from how the client uses it.                 *)
(***************************************************************************)
EXTENDS Naturals, Sequences, FiniteSets

CONSTANTS
  Match,
  Last,          \* number of events of a match, its end marker included
  NoMessage,     \* null value of `hand`
  MaxLosses,     \* bound: failures of a broker connection
  MaxRestarts,   \* bound: crashes or restarts of the back end
  MaxDbFaults    \* bound: failing database calls

ASSUME IngestAssumption ==
  /\ Last \in Nat \ {0}
  /\ MaxLosses \in Nat /\ MaxRestarts \in Nat /\ MaxDbFaults \in Nat
  /\ NoMessage \notin [match : Match, event : 1 .. Last]

VARIABLES
  published,  \* per match, the events the engine has tried to publish
  queue,      \* messages ready for delivery
  hand,       \* the message the loop handles
  held,       \* the broker still counts it as delivered and not acknowledged
  connected,  \* the client's channel is open
  pc,         \* where the loop is
  loaded,     \* _loadedMatches
  buffer,     \* _matchEventsCache
  liveCache,  \* _liveMatchesCache of LiveMatchStatisticsService
  isLive,     \* column IsLive of the row of each match
  saved,      \* the events in its EventsJson
  losses, restarts, dbFaults,  \* bounded counters of the environment
  lossy       \* history: an event of the match never reached the buffer, or a
              \* restart forgot it

brokerVars == <<queue, held, connected>>
cacheVars  == <<loaded, buffer, liveCache>>
rowVars    == <<isLive, saved>>
boundVars  == <<losses, restarts, dbFaults>>
ingestVars == <<published, brokerVars, hand, pc, cacheVars, rowVars, boundVars, lossy>>

Message == [match : Match, event : 1 .. Last]

IngestTypeOK ==
  /\ published \in [Match -> 0 .. Last]
  /\ queue \in Seq(Message)
  /\ hand \in Message \cup {NoMessage}
  /\ held \in BOOLEAN /\ connected \in BOOLEAN
  /\ held => connected /\ hand # NoMessage
  /\ pc \in {"Getting", "Handling", "Flushing", "Clearing", "Acking", "Nacking"}
  /\ (hand = NoMessage) <=> (pc = "Getting")
  /\ loaded \in SUBSET Match /\ liveCache \in SUBSET Match
  /\ buffer \in [Match -> Seq(1 .. Last)]
  /\ saved \in [Match -> Seq(1 .. Last)]
  /\ isLive \in [Match -> BOOLEAN]
  /\ losses \in 0 .. MaxLosses /\ restarts \in 0 .. MaxRestarts
  /\ dbFaults \in 0 .. MaxDbFaults
  /\ lossy \in [Match -> BOOLEAN]

Elements(s) == {s[i] : i \in DOMAIN s}

-----------------------------------------------------------------------------
(* The engine and the broker *)

ConnectionFault == losses < MaxLosses /\ losses' = losses + 1
DatabaseFault == dbFaults < MaxDbFaults /\ dbFaults' = dbFaults + 1

\* parse_and_publish: events in order; one that cannot be published is skipped.
Publish(m) ==
  /\ published[m] < Last
  /\ published' = [published EXCEPT ![m] = @ + 1]
  /\ \/ /\ queue' = Append(queue, [match |-> m, event |-> published[m] + 1])
        /\ UNCHANGED <<lossy, losses>>
     \/ /\ ConnectionFault
        /\ lossy' = [lossy EXCEPT ![m] = TRUE]
        /\ UNCHANGED queue
  /\ UNCHANGED <<held, connected, hand, pc, cacheVars, rowVars, restarts, dbFaults>>

\* Unacknowledged messages go back to the head of the queue.
Requeued == IF held THEN <<hand>> \o queue ELSE queue

\* The connection or its channel closes; the handler does not notice.
ConnectionLost ==
  /\ connected
  /\ ConnectionFault
  /\ connected' = FALSE
  /\ queue' = Requeued
  /\ held' = FALSE
  /\ UNCHANGED <<published, hand, pc, cacheVars, rowVars, restarts, dbFaults, lossy>>

\* Automatic recovery, or TryInitializeRabbitMq from the loop.
Reconnect ==
  /\ ~connected
  /\ connected' = TRUE
  /\ UNCHANGED <<published, queue, held, hand, pc, cacheVars, rowVars, boundVars, lossy>>

\* The process ends, at any point, and starts again: its caches are in memory.
\* A stop of the host looks the same, as its token cancels the handler's calls.
Restart ==
  /\ restarts < MaxRestarts
  /\ restarts' = restarts + 1
  /\ queue' = Requeued
  /\ held' = FALSE /\ connected' = TRUE
  /\ hand' = NoMessage /\ pc' = "Getting"
  /\ loaded' = {} /\ liveCache' = {}
  /\ buffer' = [m \in Match |-> <<>>]
  /\ lossy' = [m \in Match |-> lossy[m] \/ buffer[m] # <<>>]
  /\ UNCHANGED <<published, rowVars, losses, dbFaults>>

-----------------------------------------------------------------------------
(* The consuming loop and the event processor *)

\* Wrong: a message is never acknowledged.
SettleUnacknowledged ==
  /\ hand' = NoMessage
  /\ pc' = "Getting"
  /\ UNCHANGED <<queue, held, connected>>

\* The message leaves the broker, and the loop turns to the next one.
Settle ==
  /\ hand' = NoMessage
  /\ held' = FALSE
  /\ pc' = "Getting"
  /\ UNCHANGED <<queue, connected>>

\* Wrong: automatic acknowledgement.
GetAutoAck ==
  /\ pc = "Getting"
  /\ connected /\ queue # <<>>
  /\ hand' = Head(queue) /\ queue' = Tail(queue)
  /\ held' = FALSE
  /\ pc' = "Handling"
  /\ UNCHANGED <<published, connected, cacheVars, rowVars, boundVars, lossy>>

\* BasicGetAsync with autoAck: false
Get ==
  /\ pc = "Getting"
  /\ connected /\ queue # <<>>
  /\ hand' = Head(queue) /\ queue' = Tail(queue)
  /\ held' = TRUE
  /\ pc' = "Handling"
  /\ UNCHANGED <<published, connected, cacheVars, rowVars, boundVars, lossy>>

AfterHandling == IF hand.event = Last THEN "Flushing" ELSE "Acking"

\* GetOrLoadMatchEntityAsync fails, which reads as a missing match: the event is
\* not processed, but the message is acknowledged and an end marker flushes.
HandleUnloaded ==
  /\ pc = "Handling"
  /\ hand.match \notin loaded
  /\ DatabaseFault
  /\ lossy' = [lossy EXCEPT ![hand.match] = TRUE]
  /\ pc' = AfterHandling
  /\ UNCHANGED <<published, brokerVars, hand, cacheVars, rowVars, losses, restarts>>

\* Wrong: the newest event goes to the front.
HandlePrepends ==
  /\ pc = "Handling"
  /\ loaded' = loaded \cup {hand.match}
  /\ buffer' = [buffer EXCEPT ![hand.match] = <<hand.event>> \o @]
  /\ liveCache' = liveCache \cup {hand.match}
  /\ pc' = AfterHandling
  /\ UNCHANGED <<published, brokerVars, hand, rowVars, boundVars, lossy>>

\* ProcessEventAsync.  The end marker is a significant event, and so joins the
\* live statistics; another event may be.
Handle ==
  /\ pc = "Handling"
  /\ loaded' = loaded \cup {hand.match}
  /\ buffer' = [buffer EXCEPT ![hand.match] = Append(@, hand.event)]
  /\ \/ liveCache' = liveCache \cup {hand.match}
     \/ hand.event < Last /\ UNCHANGED liveCache
  /\ pc' = AfterHandling
  /\ UNCHANGED <<published, brokerVars, hand, rowVars, boundVars, lossy>>

\* What FlushAndPersistMatchAsync commits: the buffer replaces the events of the
\* row, unless there is none.
Committed(m) ==
  /\ isLive' = [isLive EXCEPT ![m] = FALSE]
  /\ saved' = [saved EXCEPT ![m] = IF buffer[m] # <<>> THEN buffer[m] ELSE @]

\* Wrong: the caches of a match are cleared whether or not the flush saved.
FlushForgets ==
  /\ pc = "Flushing"
  /\ \/ Committed(hand.match) /\ pc' = "Acking" /\ UNCHANGED dbFaults
     \/ DatabaseFault /\ pc' = "Nacking" /\ UNCHANGED rowVars
  /\ buffer' = [buffer EXCEPT ![hand.match] = <<>>]
  /\ loaded' = loaded \ {hand.match} /\ liveCache' = liveCache \ {hand.match}
  /\ UNCHANGED <<published, brokerVars, hand, losses, restarts, lossy>>

Flush ==
  /\ pc = "Flushing"
  /\ \/ /\ Committed(hand.match)
        /\ pc' = "Clearing"
        /\ UNCHANGED dbFaults
     \/ /\ DatabaseFault              \* the read or the save fails ...
        /\ pc' = "Nacking"
        /\ UNCHANGED rowVars
     \/ /\ DatabaseFault              \* ... or the answer to the commit is lost
        /\ Committed(hand.match)
        /\ pc' = "Nacking"
  /\ UNCHANGED <<published, brokerVars, hand, cacheVars, losses, restarts, lossy>>

\* Wrong: the live statistics keep a match that has ended.
ClearKeepsLive ==
  /\ pc = "Clearing"
  /\ loaded' = loaded \ {hand.match}
  /\ buffer' = [buffer EXCEPT ![hand.match] = <<>>]
  /\ pc' = "Acking"
  /\ UNCHANGED <<published, brokerVars, hand, liveCache, rowVars, boundVars, lossy>>

\* The finally of the flush, once saved.
Clear ==
  /\ pc = "Clearing"
  /\ loaded' = loaded \ {hand.match}
  /\ buffer' = [buffer EXCEPT ![hand.match] = <<>>]
  /\ liveCache' = liveCache \ {hand.match}
  /\ pc' = "Acking"
  /\ UNCHANGED <<published, brokerVars, hand, rowVars, boundVars, lossy>>

\* BasicAckAsync, which does nothing when the channel that delivered is gone.
Ack ==
  /\ pc = "Acking"
  /\ Settle
  /\ UNCHANGED <<published, cacheVars, rowVars, boundVars, lossy>>

\* Wrong: requeue: true, as if the event were not in the buffer already.
NackRequeues ==
  /\ pc = "Nacking"
  /\ queue' = Requeued
  /\ hand' = NoMessage /\ held' = FALSE /\ pc' = "Getting"
  /\ UNCHANGED <<published, connected, cacheVars, rowVars, boundVars, lossy>>

\* BasicNackAsync with requeue: false
Nack ==
  /\ pc = "Nacking"
  /\ Settle
  /\ UNCHANGED <<published, cacheVars, rowVars, boundVars, lossy>>

Consume == Get \/ HandleUnloaded \/ Handle \/ Flush \/ Clear \/ Ack \/ Nack

-----------------------------------------------------------------------------
IngestInit ==
  /\ published = [m \in Match |-> 0]
  /\ queue = <<>> /\ held = FALSE /\ connected = TRUE
  /\ hand = NoMessage /\ pc = "Getting"
  /\ loaded = {} /\ liveCache = {}
  /\ buffer = [m \in Match |-> <<>>]
  /\ isLive = [m \in Match |-> TRUE]
  /\ saved = [m \in Match |-> <<>>]
  /\ losses = 0 /\ restarts = 0 /\ dbFaults = 0
  /\ lossy = [m \in Match |-> FALSE]

IngestNext ==
  \/ \E m \in Match : Publish(m)
  \/ ConnectionLost \/ Reconnect \/ Restart
  \/ Consume

IngestSpec == IngestInit /\ [][IngestNext]_ingestVars

\* The loop runs as a background service, and recovery retries every 10 or 15 s
\* for as long as the host runs.
IngestFairSpec == IngestSpec /\ WF_ingestVars(Consume) /\ WF_ingestVars(Reconnect)

-----------------------------------------------------------------------------
(* Properties *)

\* Until a match is persisted each of its published events is in the queue, in
\* the loop's hand or in the buffer, unless it was dropped where the code says it
\* drops: connections may fail and flushes may fail at any point.
AtLeastOnce ==
  \A m \in Match : isLive[m] /\ ~lossy[m] =>
    \A e \in 1 .. published[m] :
      \/ [match |-> m, event |-> e] \in Elements(queue) \cup {hand}
      \/ e \in Elements(buffer[m])

\* Redelivery repeats an event next to itself and never reorders: the buffer and
\* the persisted events stay in the order of the match.
InOrder ==
  \A m \in Match : \A s \in {buffer[m], saved[m]} :
    \A i \in 1 .. Len(s) - 1 : s[i] <= s[i + 1]

\* One lost connection duplicates at most one event.
DuplicatesBounded ==
  \A m \in Match : Len(buffer[m]) <= Cardinality(Elements(buffer[m])) + losses

\* Once a match has ended and its message is settled, no cache of the back end
\* still holds it; only a failed flush keeps its buffers.
NothingLeftBehind ==
  \A m \in Match : ~isLive[m] /\ pc = "Getting" /\ dbFaults = 0 =>
    m \notin loaded /\ m \notin liveCache /\ buffer[m] = <<>>

\* The buffers and the row keep the order of the match, repeat an event only for a
\* lost connection, and are let go when the match ends (HandleReceivedMessageAsync,
\* FlushAndPersistMatchAsync).
IngestInv == IngestTypeOK /\ InOrder /\ DuplicatesBounded /\ NothingLeftBehind

\* The flush that ends a match persists every event of it.
FirstFlushComplete ==
  [][\A m \in Match : isLive[m] /\ ~isLive'[m] /\ ~lossy[m] =>
        Elements(saved'[m]) = 1 .. Last]_ingestVars

\* The buffer of a match is let go only when the row holds it, or with the
\* process: event buffers are retained when persistence fails.
BufferRetained ==
  [][\A m \in Match : buffer[m] # <<>> /\ buffer'[m] = <<>> =>
        saved[m] = buffer[m] \/ restarts' # restarts]_ingestVars

\* What the buffer was kept for reaches the row, all of it, before it is let go.
BufferKept == FirstFlushComplete /\ BufferRetained

\* The message of an end marker is acknowledged only after the match is
\* persisted: a lost connection or a crash at any point only delays its end.  A
\* failing flush is another matter: its message is dropped (requeue: false).
EndPersisted ==
  \A m \in Match :
    [match |-> m, event |-> Last] \in Elements(queue) ~> ~isLive[m] \/ dbFaults > 0
=============================================================================
