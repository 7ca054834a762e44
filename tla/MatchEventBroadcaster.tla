------------------------ MODULE MatchEventBroadcaster ------------------------
(***************************************************************************)
(* Fan-out of the events of one match to Server-Sent-Events subscribers.   *)
(* The event processor broadcasts sequentially; subscribers come and go    *)
(* concurrently on their own request threads.  `_subscribers` maps the     *)
(* match to a dictionary OBJECT that subscribers get, fill and drop in     *)
(* separate steps, so dictionaries have identities here; enumerating one   *)
(* while it changes may or may not meet a subscriber added meanwhile, as   *)
(* ConcurrentDictionary documents.                                         *)
(*                                                                         *)
(* An event is its event_index, counted up by the stream; a statistics     *)
(* message has index 0 and is not replayed.                                *)
(***************************************************************************)
EXTENDS Naturals, Sequences, FiniteSets

CONSTANTS
  Sub,          \* subscriptions; each is used once
  MayLeave,     \* the subscriptions whose client may disconnect
  MaxEvents,    \* bound: events of the match
  ReplaySize,   \* MaxReplayBufferSize
  ChannelSize   \* capacity of a subscriber's channel

ASSUME BroadcasterAssumption ==
  /\ IsFiniteSet(Sub) /\ MayLeave \subseteq Sub
  /\ MaxEvents \in Nat
  /\ ReplaySize \in Nat \ {0}
  /\ ChannelSize \in Nat \ {0}

VARIABLES
  published,  \* index of the last event recorded
  buffer,     \* the replay buffer (_recentMessages of the match)
  cleared,    \* ClearReplayBuffer has been called: the match is over
  sending,    \* where the broadcasting thread is
  message,    \* the message it is fanning out
  view,       \* the dictionary it enumerates
  due,        \* subscribers it is bound to meet
  visited,    \* subscribers it has met
  registry,   \* the dictionary _subscribers holds for the match; 0: none
  made,       \* number of dictionaries made so far; each is one more
  members,    \* contents of each dictionary
  point,      \* where each subscription is
  dict,       \* the dictionary each subscription works on
  channel,    \* its channel
  replay,     \* the part of its snapshot of the buffer not yielded yet
  lastReplayed, \* lastReplayedIndex
  delivered,  \* history: event indices yielded to its client
  dropped     \* history: DropOldest has discarded a message of the channel

senderVars == <<published, buffer, cleared, sending, message, view, due, visited>>
subVars == <<point, dict, replay, lastReplayed, delivered>>
broadcastVars == <<senderVars, registry, made, members, channel, dropped, subVars>>

Dict == 1 .. Cardinality(Sub)
SubPoint == {"Idle", "Adding", "Snapshotting", "Replaying", "Live",
             "Leaving", "Removing", "CheckingEmpty", "Dropping", "Gone"}

BroadcasterTypeOK ==
  /\ published \in 0 .. MaxEvents
  /\ buffer \in Seq(1 .. MaxEvents)
  /\ cleared \in BOOLEAN
  /\ sending \in {"Idle", "Trimming", "LookingUp", "Enumerating"}
  /\ message \in 0 .. MaxEvents
  /\ view \in 0 .. Cardinality(Sub)
  /\ due \in SUBSET Sub /\ visited \in SUBSET Sub
  /\ registry \in 0 .. made
  /\ made \in 0 .. Cardinality(Sub)
  /\ members \in [Dict -> SUBSET Sub]
  /\ point \in [Sub -> SubPoint]
  /\ dict \in [Sub -> 0 .. made]
  /\ channel \in [Sub -> Seq(0 .. MaxEvents)]
  /\ \A s \in Sub : Len(channel[s]) <= ChannelSize
  /\ replay \in [Sub -> Seq(1 .. MaxEvents)]
  /\ lastReplayed \in [Sub -> 0 .. MaxEvents]
  /\ delivered \in [Sub -> Seq(1 .. MaxEvents)]
  /\ dropped \in [Sub -> BOOLEAN]

-----------------------------------------------------------------------------
(* The broadcasting thread *)

SubFrame == UNCHANGED <<registry, made, members, subVars>>

\* Wrong: an event is recorded for late clients only when nobody listens yet.
RecordIfNobody ==
  /\ sending = "Idle" /\ ~cleared /\ published < MaxEvents
  /\ published' = published + 1
  /\ message' = published + 1
  /\ buffer' = IF registry = 0 THEN Append(buffer, published + 1) ELSE buffer
  /\ sending' = "Trimming"
  /\ SubFrame /\ UNCHANGED <<cleared, view, due, visited, channel, dropped>>

\* BroadcastEventAsync: record ...
RecordEvent ==
  /\ sending = "Idle" /\ ~cleared /\ published < MaxEvents
  /\ published' = published + 1
  /\ message' = published + 1
  /\ buffer' = Append(buffer, published + 1)
  /\ sending' = "Trimming"
  /\ SubFrame /\ UNCHANGED <<cleared, view, due, visited, channel, dropped>>

Trim ==
  /\ sending = "Trimming"
  /\ buffer' = IF Len(buffer) > ReplaySize THEN Tail(buffer) ELSE buffer
  /\ sending' = "LookingUp"
  /\ SubFrame
  /\ UNCHANGED <<published, cleared, message, view, due, visited, channel, dropped>>

\* BroadcastStatisticsAsync: not recorded.
SendStatistics ==
  /\ sending = "Idle" /\ ~cleared /\ published > 0
  /\ message # 0
  /\ message' = 0
  /\ sending' = "LookingUp"
  /\ SubFrame
  /\ UNCHANGED <<published, buffer, cleared, view, due, visited, channel, dropped>>

\* ... find the dictionary of the match, if it has subscribers ...
LookUp ==
  /\ sending = "LookingUp"
  /\ IF registry # 0 /\ members[registry] # {}
     THEN /\ view' = registry /\ due' = members[registry] /\ visited' = {}
          /\ sending' = "Enumerating"
     ELSE sending' = "Idle" /\ UNCHANGED <<view, due, visited>>
  /\ SubFrame /\ UNCHANGED <<published, buffer, cleared, message, channel, dropped>>

\* Wrong: a channel grows without bound.
WriteUnbounded(s) ==
  /\ sending = "Enumerating"
  /\ s \in members[view] \ visited
  /\ visited' = visited \cup {s}
  /\ channel' = [channel EXCEPT ![s] = Append(@, message)]
  /\ SubFrame
  /\ UNCHANGED <<published, buffer, cleared, sending, message, view, due, dropped>>

\* ... and write to each subscriber met; a full channel drops its oldest message.
WriteTo(s) ==
  /\ sending = "Enumerating"
  /\ s \in members[view] \ visited
  /\ visited' = visited \cup {s}
  /\ IF Len(channel[s]) < ChannelSize
     THEN /\ channel' = [channel EXCEPT ![s] = Append(@, message)]
          /\ UNCHANGED dropped
     ELSE /\ channel' = [channel EXCEPT ![s] = Append(Tail(@), message)]
          /\ dropped' = [dropped EXCEPT ![s] = TRUE]
  /\ SubFrame
  /\ UNCHANGED <<published, buffer, cleared, sending, message, view, due>>

\* Wrong: the enumeration stops before every subscriber is met.
EnumerationBreaks ==
  /\ sending = "Enumerating"
  /\ sending' = "Idle"
  /\ view' = 0 /\ due' = {} /\ visited' = {}
  /\ SubFrame
  /\ UNCHANGED <<published, buffer, cleared, message, channel, dropped>>

EnumerationEnds ==
  /\ sending = "Enumerating"
  /\ due \cap members[view] \subseteq visited
  /\ sending' = "Idle"
  /\ view' = 0 /\ due' = {} /\ visited' = {}
  /\ SubFrame
  /\ UNCHANGED <<published, buffer, cleared, message, channel, dropped>>

\* ClearReplayBuffer, called by the processor when the match is persisted.
ClearReplayBuffer ==
  /\ sending = "Idle" /\ ~cleared /\ published > 0
  /\ cleared' = TRUE
  /\ buffer' = <<>>
  /\ SubFrame
  /\ UNCHANGED <<published, sending, message, view, due, visited, channel, dropped>>

Sender ==
  \/ RecordEvent \/ Trim \/ SendStatistics \/ LookUp
  \/ (\E s \in Sub : WriteTo(s)) \/ EnumerationEnds \/ ClearReplayBuffer

-----------------------------------------------------------------------------
(* SubscribeAsync *)

Move(s, from, to) ==
  /\ point[s] = from
  /\ point' = [point EXCEPT ![s] = to]

\* _subscribers.GetOrAdd: the match's dictionary, or a new one.
GetOrAdd(s) ==
  /\ Move(s, "Idle", "Adding")
  /\ made' = IF registry = 0 THEN made + 1 ELSE made
  /\ registry' = IF registry = 0 THEN made + 1 ELSE registry
  /\ dict' = [dict EXCEPT ![s] = registry']
  /\ UNCHANGED <<senderVars, members, channel, dropped, replay, lastReplayed, delivered>>

\* matchSubs.TryAdd
Register(s) ==
  /\ Move(s, "Adding", "Snapshotting")
  /\ members' = [members EXCEPT ![dict[s]] = @ \cup {s}]
  /\ UNCHANGED <<senderVars, made, registry, channel, dropped, dict, replay,
                 lastReplayed, delivered>>

\* recentBuffer.ToArray()
Snapshot(s) ==
  /\ Move(s, "Snapshotting", "Replaying")
  /\ replay' = [replay EXCEPT ![s] = buffer]
  /\ UNCHANGED <<senderVars, made, registry, members, channel, dropped, dict,
                 lastReplayed, delivered>>

ReplayOne(s) ==
  /\ point[s] = "Replaying"
  /\ replay[s] # <<>>
  /\ delivered' = [delivered EXCEPT ![s] = Append(@, Head(replay[s]))]
  /\ lastReplayed' = [lastReplayed EXCEPT ![s] = Head(replay[s])]
  /\ replay' = [replay EXCEPT ![s] = Tail(@)]
  /\ UNCHANGED <<senderVars, made, registry, members, channel, dropped, point, dict>>

ReplayEnds(s) ==
  /\ Move(s, "Replaying", "Live")
  /\ replay[s] = <<>>
  /\ UNCHANGED <<senderVars, made, registry, members, channel, dropped, dict, replay,
                 lastReplayed, delivered>>

\* Wrong: live messages are not compared with what was replayed.
YieldAll(s) ==
  /\ point[s] = "Live"
  /\ channel[s] # <<>>
  /\ channel' = [channel EXCEPT ![s] = Tail(@)]
  /\ LET i == Head(channel[s])
     IN delivered' = [delivered EXCEPT ![s] = IF i > 0 THEN Append(@, i) ELSE @]
  /\ UNCHANGED <<senderVars, made, registry, members, dropped, point, dict, replay, lastReplayed>>

\* A live message, unless it was replayed already.
ReadLive(s) ==
  /\ point[s] = "Live"
  /\ channel[s] # <<>>
  /\ channel' = [channel EXCEPT ![s] = Tail(@)]
  /\ LET i == Head(channel[s])
     IN delivered' = [delivered EXCEPT ![s] =
                        IF i > lastReplayed[s] THEN Append(@, i) ELSE @]
  /\ UNCHANGED <<senderVars, made, registry, members, dropped, point, dict, replay, lastReplayed>>

\* The request is aborted; finally looks the match up again ...
Leave(s) ==
  /\ s \in MayLeave
  /\ point[s] \in {"Replaying", "Live"}
  /\ dict' = [dict EXCEPT ![s] = registry]
  /\ point' = [point EXCEPT ![s] = IF registry = 0 THEN "Gone" ELSE "Removing"]
  /\ replay' = [replay EXCEPT ![s] = <<>>]
  /\ UNCHANGED <<senderVars, made, registry, members, channel, dropped, lastReplayed,
                 delivered>>

LeaveRemove(s) ==
  /\ Move(s, "Removing", "CheckingEmpty")
  /\ members' = [members EXCEPT ![dict[s]] = @ \ {s}]
  /\ UNCHANGED <<senderVars, made, registry, channel, dropped, dict, replay,
                 lastReplayed, delivered>>

LeaveCheck(s) ==
  /\ point[s] = "CheckingEmpty"
  /\ point' = [point EXCEPT ![s] = IF members[dict[s]] = {} THEN "Dropping" ELSE "Gone"]
  /\ UNCHANGED <<senderVars, made, registry, members, channel, dropped, dict, replay,
                 lastReplayed, delivered>>

\* Wrong: an empty dictionary stays registered.
LeaveKeeps(s) ==
  /\ Move(s, "Dropping", "Gone")
  /\ UNCHANGED <<senderVars, made, registry, members, channel, dropped, dict, replay,
                 lastReplayed, delivered>>

\* ... and drops the dictionary it saw empty, if it is still the match's.
LeaveDrop(s) ==
  /\ Move(s, "Dropping", "Gone")
  /\ registry' = IF registry = dict[s] THEN 0 ELSE registry
  /\ UNCHANGED <<senderVars, made, members, channel, dropped, dict, replay,
                 lastReplayed, delivered>>

Subscription(s) ==
  \/ GetOrAdd(s) \/ Register(s) \/ Snapshot(s) \/ ReplayOne(s) \/ ReplayEnds(s)
  \/ ReadLive(s) \/ Leave(s) \/ LeaveRemove(s) \/ LeaveCheck(s) \/ LeaveDrop(s)

-----------------------------------------------------------------------------
BroadcasterInit ==
  /\ published = 0 /\ buffer = <<>> /\ cleared = FALSE
  /\ sending = "Idle" /\ message = 0 /\ view = 0 /\ due = {} /\ visited = {}
  /\ registry = 0 /\ made = 0 /\ members = [d \in Dict |-> {}]
  /\ point = [s \in Sub |-> "Idle"] /\ dict = [s \in Sub |-> 0]
  /\ channel = [s \in Sub |-> <<>>] /\ replay = [s \in Sub |-> <<>>]
  /\ lastReplayed = [s \in Sub |-> 0] /\ delivered = [s \in Sub |-> <<>>]
  /\ dropped = [s \in Sub |-> FALSE]

BroadcasterNext == Sender \/ \E s \in Sub : Subscription(s)

BroadcasterSpec == BroadcasterInit /\ [][BroadcasterNext]_broadcastVars

-----------------------------------------------------------------------------
(* Properties *)

\* A client sees events in order and none twice, although the replay and the
\* live channel overlap.
InOrderOnce ==
  \A s \in Sub : \A i, j \in DOMAIN delivered[s] :
    i < j => delivered[s][i] < delivered[s][j]

\* From the first event it sees, a client misses none until it has been so slow
\* that its channel dropped a message: joining leaves no hole between the
\* replayed events and the live ones.
NoGap ==
  \A s \in Sub : \A i \in DOMAIN delivered[s] :
    i > 1 /\ ~dropped[s] => delivered[s][i] = delivered[s][i - 1] + 1

\* A client that joins a running match at any moment and has read all it was
\* sent is up to date: the newest event reached it by replay or by its channel.
UpToDate ==
  \A s \in Sub :
    /\ point[s] = "Live" /\ registry # 0 /\ s \in members[registry]
    /\ channel[s] = <<>> /\ sending = "Idle" /\ ~cleared /\ ~dropped[s] /\ published > 0
    => delivered[s] # <<>> /\ delivered[s][Len(delivered[s])] = published

\* When the last client has left, nothing is kept for the match.
NothingKept ==
  (\A s \in Sub : point[s] \in {"Idle", "Gone"}) => registry = 0

\* The order of the events survives the overlap of replay and live channel, and
\* the last client to leave takes the match's dictionary along (SubscribeAsync).
BroadcasterInv == BroadcasterTypeOK /\ InOrderOnce /\ NothingKept

\* The comment on the replay buffer says it is there "to eliminate connect race
\* condition for late SSE clients": a connected client is one the fan-out
\* reaches.  A client that gets the dictionary while the last other client is
\* leaving ends up in a dictionary nobody looks at.
ConnectedIsReached ==
  \A s \in Sub : point[s] = "Live" => registry # 0 /\ s \in members[registry]
=============================================================================
