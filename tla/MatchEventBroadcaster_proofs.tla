--------------------- MODULE MatchEventBroadcaster_proofs ---------------------
(***************************************************************************)
(* For every set of clients, length of match, size of the replay buffer    *)
(* and of the channels: what a client is sent is in order and without      *)
(* repetition, and the last client to leave takes the dictionary along;    *)
(* and, of a client that joins a running match, that nothing is missing    *)
(* between the replayed and the live events, and that who has read all it  *)
(* was sent is up to date.                                                 *)
(***************************************************************************)
EXTENDS MatchEventBroadcaster, FiniteSetTheorems, SequenceTheorems, TLAPS

-----------------------------------------------------------------------------
(* The inductive invariant *)

\* Strictly increasing sequences of events; a statistics message (0) in a
\* channel may stand anywhere.
Rising(q) == \A i, j \in DOMAIN q : i < j => q[i] < q[j]
EventsRise(q) == \A i, j \in DOMAIN q : i < j /\ q[j] # 0 => q[i] < q[j]
Below(q, n) == \A i \in DOMAIN q : q[i] < n
UpTo(q, n) == \A i \in DOMAIN q : q[i] <= n

BufferOK == Rising(buffer) /\ UpTo(buffer, published)

MessageOK == message \in {0, published}

\* Before the replay nothing is replayed; during it what is left is newer than
\* what was, and everything delivered was replayed.
ReplayOK(s) ==
  /\ point[s] \in {"Idle", "Adding", "Snapshotting"} => lastReplayed[s] = 0
  /\ point[s] \in {"Idle", "Adding", "Snapshotting", "Replaying"} =>
       UpTo(delivered[s], lastReplayed[s])
  /\ Rising(replay[s]) /\ UpTo(replay[s], published)
  /\ point[s] = "Replaying" => \A i \in DOMAIN replay[s] : lastReplayed[s] < replay[s][i]

DeliveredOK(s) == Rising(delivered[s]) /\ UpTo(delivered[s], published)

\* What ReadLive will yield is newer than all that was delivered.
ChannelOK(s) ==
  /\ EventsRise(channel[s]) /\ UpTo(channel[s], published)
  /\ \A k \in DOMAIN channel[s] :
       channel[s][k] > lastReplayed[s] => Below(delivered[s], channel[s][k])

\* So is an event the fan-out has still to write to the client.
Awaits(s) ==
  /\ sending # "Idle" /\ message # 0
  /\ sending = "Enumerating" => s \notin visited
PendingOK(s) ==
  Awaits(s) => /\ Below(channel[s], message)
               /\ message > lastReplayed[s] => Below(delivered[s], message)

ClientOK(s) == ReplayOK(s) /\ DeliveredOK(s) /\ ChannelOK(s) /\ PendingOK(s)
ClientsOK == \A s \in Sub : ClientOK(s)

\* A client makes at most one dictionary, and nobody is in one not made yet.
Joined == {s \in Sub : point[s] # "Idle"}
MadeByJoined == made <= Cardinality(Joined)
MembersOfMade == \A d \in Dict : d > made => members[d] = {}

\* Who is in the match's dictionary will leave it or is leaving it ...
MembersLeave ==
  registry # 0 =>
    \A x \in members[registry] :
      point[x] \in {"Snapshotting", "Replaying", "Live", "Removing"} /\ dict[x] = registry

\* ... and there is someone who is in it, about to be, or about to drop it.
Holds(s) ==
  \/ point[s] \in {"Adding", "CheckingEmpty", "Dropping"} /\ dict[s] = registry
  \/ s \in members[registry]
RegistryHeld == registry # 0 => \E s \in Sub : Holds(s)

OrderOK == BufferOK /\ MessageOK /\ ClientsOK
DictionaryOK == MadeByJoined /\ MembersOfMade /\ MembersLeave /\ RegistryHeld
BroadcasterIInv == BroadcasterTypeOK /\ OrderOK /\ DictionaryOK

-----------------------------------------------------------------------------
(* Sequences *)

LEMMA AppendAt ==
  ASSUME NEW S, NEW q \in Seq(S), NEW e \in S
  PROVE  /\ Append(q, e) \in Seq(S) /\ Len(q) \in Nat /\ Len(Append(q, e)) = Len(q) + 1
         /\ DOMAIN q = 1 .. Len(q) /\ DOMAIN Append(q, e) = 1 .. Len(q) + 1
         /\ \A i \in 1 .. Len(q) : q[i] \in S /\ Append(q, e)[i] = q[i]
         /\ Append(q, e)[Len(q) + 1] = e
         /\ \A i \in 1 .. Len(q) + 1 : i \in 1 .. Len(q) \/ i = Len(q) + 1
  BY AppendProperties, LenProperties

LEMMA TailAt ==
  ASSUME NEW S, NEW q \in Seq(S), q # <<>>
  PROVE  /\ Tail(q) \in Seq(S) /\ Head(q) \in S /\ Head(q) = q[1] /\ Len(Tail(q)) = Len(q) - 1
         /\ Len(q) \in Nat \ {0} /\ DOMAIN q = 1 .. Len(q) /\ DOMAIN Tail(q) = 1 .. Len(q) - 1
         /\ \A i \in 1 .. Len(q) - 1 : i + 1 \in 1 .. Len(q) /\ Tail(q)[i] = q[i + 1]
         /\ \A i \in 1 .. Len(q) : q[i] \in S
  BY HeadTailProperties, EmptySeq, LenProperties

\* Appending what is above all the rest.
LEMMA AppendOrder ==
  ASSUME NEW S \in SUBSET Nat, NEW q \in Seq(S), NEW e \in S
  PROVE  /\ Append(q, e) \in Seq(S)
         /\ Rising(q) /\ Below(q, e) => Rising(Append(q, e))
         /\ EventsRise(q) /\ (e # 0 => Below(q, e)) => EventsRise(Append(q, e))
         /\ \A n \in Nat : UpTo(q, n) /\ e <= n => UpTo(Append(q, e), n)
         /\ \A n \in Nat : Below(q, n) /\ e < n => Below(Append(q, e), n)
         /\ \A i \in DOMAIN Append(q, e) :
              Append(q, e)[i] = e \/ (i \in DOMAIN q /\ Append(q, e)[i] = q[i])
<1>1. /\ Append(q, e) \in Seq(S) /\ Len(q) \in Nat
      /\ DOMAIN q = 1 .. Len(q) /\ DOMAIN Append(q, e) = 1 .. Len(q) + 1
      /\ \A i \in 1 .. Len(q) : q[i] \in S /\ Append(q, e)[i] = q[i]
      /\ Append(q, e)[Len(q) + 1] = e
      /\ \A i \in 1 .. Len(q) + 1 : i \in 1 .. Len(q) \/ i = Len(q) + 1
  BY AppendAt
<1>2. \A i \in 1 .. Len(q) : q[i] \in Nat
  BY <1>1
<1>3. \A i, j \in 1 .. Len(q) + 1 : i < j => i \in 1 .. Len(q)
  BY <1>1
<1>4. Rising(q) /\ Below(q, e) => Rising(Append(q, e))
  BY <1>1, <1>3 DEF Rising, Below
<1>5. EventsRise(q) /\ (e # 0 => Below(q, e)) => EventsRise(Append(q, e))
  BY <1>1, <1>3 DEF EventsRise, Below
<1>6. \A n \in Nat : UpTo(q, n) /\ e <= n => UpTo(Append(q, e), n)
  BY <1>1 DEF UpTo
<1>7. \A n \in Nat : Below(q, n) /\ e < n => Below(Append(q, e), n)
  BY <1>1 DEF Below
<1> QED
  BY <1>1, <1>4, <1>5, <1>6, <1>7

\* Taking the first.
LEMMA TailOrder ==
  ASSUME NEW S \in SUBSET Nat, NEW q \in Seq(S), q # <<>>
  PROVE  /\ Tail(q) \in Seq(S) /\ Head(q) \in S
         /\ Rising(q) => Rising(Tail(q)) /\ \A i \in DOMAIN Tail(q) : Head(q) < Tail(q)[i]
         /\ EventsRise(q) =>
              EventsRise(Tail(q)) /\ \A i \in DOMAIN Tail(q) : Tail(q)[i] # 0 => Head(q) < Tail(q)[i]
         /\ \A n \in Nat : UpTo(q, n) => UpTo(Tail(q), n) /\ Head(q) <= n
         /\ \A n \in Nat : Below(q, n) => Below(Tail(q), n) /\ Head(q) < n
         /\ 1 \in DOMAIN q /\ Head(q) = q[1]
         /\ \A i \in DOMAIN Tail(q) : i + 1 \in DOMAIN q /\ Tail(q)[i] = q[i + 1]
<1>1. /\ Tail(q) \in Seq(S) /\ Head(q) \in S /\ Head(q) = q[1]
      /\ Len(q) \in Nat \ {0} /\ DOMAIN q = 1 .. Len(q) /\ DOMAIN Tail(q) = 1 .. Len(q) - 1
      /\ \A i \in 1 .. Len(q) - 1 : i + 1 \in 1 .. Len(q) /\ Tail(q)[i] = q[i + 1]
      /\ \A i \in 1 .. Len(q) : q[i] \in S
  BY TailAt
<1>2. /\ 1 \in 1 .. Len(q)
      /\ \A i \in 1 .. Len(q) - 1 : 1 < i + 1
      /\ \A i, j \in 1 .. Len(q) - 1 : i < j => i + 1 < j + 1
  BY <1>1
<1>3. Rising(q) => Rising(Tail(q)) /\ \A i \in DOMAIN Tail(q) : Head(q) < Tail(q)[i]
  BY <1>1, <1>2 DEF Rising
<1>4. EventsRise(q) =>
        EventsRise(Tail(q)) /\ \A i \in DOMAIN Tail(q) : Tail(q)[i] # 0 => Head(q) < Tail(q)[i]
  BY <1>1, <1>2 DEF EventsRise
<1>5. \A n \in Nat : UpTo(q, n) => UpTo(Tail(q), n) /\ Head(q) <= n
  BY <1>1, <1>2 DEF UpTo
<1>6. \A n \in Nat : Below(q, n) => Below(Tail(q), n) /\ Head(q) < n
  BY <1>1, <1>2 DEF Below
<1> QED
  BY <1>1, <1>2, <1>3, <1>4, <1>5, <1>6

-----------------------------------------------------------------------------
(* Types *)

LEMMA DictNumbers ==
  /\ Cardinality(Sub) \in Nat
  /\ \A n \in Nat : n \in 0 .. Cardinality(Sub) /\ n # 0 <=> n \in Dict
  /\ \A P \in SUBSET Sub :
       /\ IsFiniteSet(P) /\ Cardinality(P) \in Nat /\ Cardinality(P) <= Cardinality(Sub)
       /\ \A x \in Sub : x \notin P => /\ Cardinality(P \cup {x}) = Cardinality(P) + 1
                                       /\ Cardinality(P) + 1 <= Cardinality(Sub)
<1>1. IsFiniteSet(Sub) /\ Cardinality(Sub) \in Nat
  BY BroadcasterAssumption, FS_CardinalityType
<1>2. ASSUME NEW P \in SUBSET Sub
      PROVE IsFiniteSet(P) /\ Cardinality(P) \in Nat /\ Cardinality(P) <= Cardinality(Sub)
  BY <1>1, FS_Subset, FS_CardinalityType
<1>3. ASSUME NEW P \in SUBSET Sub, NEW x \in Sub, x \notin P
      PROVE /\ Cardinality(P \cup {x}) = Cardinality(P) + 1
            /\ Cardinality(P) + 1 <= Cardinality(Sub)
  <2>1. Cardinality(P \cup {x}) = Cardinality(P) + 1
    BY <1>2, <1>3, FS_AddElement
  <2>2. P \cup {x} \in SUBSET Sub
    OBVIOUS
  <2> QED
    BY <1>2, <2>1, <2>2
<1> QED
  BY <1>1, <1>2, <1>3 DEF Dict

\* What a new client may add: while it is idle fewer dictionaries are made than
\* there are clients.
LEMMA RoomForOne ==
  ASSUME BroadcasterTypeOK, MadeByJoined, NEW s \in Sub, GetOrAdd(s)
  PROVE  /\ Joined' = Joined \cup {s}
         /\ s \notin Joined
         /\ made + 1 <= Cardinality(Sub)
         /\ MadeByJoined'
<1>1. Joined \in SUBSET Sub /\ s \notin Joined
  BY DEF Joined, GetOrAdd, Move
<1>2. Joined' = Joined \cup {s}
  BY DEF Joined, GetOrAdd, Move, BroadcasterTypeOK
<1>3. /\ Cardinality(Joined) \in Nat
      /\ Cardinality(Joined \cup {s}) = Cardinality(Joined) + 1
      /\ Cardinality(Joined) + 1 <= Cardinality(Sub)
  BY <1>1, DictNumbers
<1>4. made \in Nat /\ Cardinality(Sub) \in Nat /\ made <= Cardinality(Joined)
  BY DictNumbers DEF BroadcasterTypeOK, MadeByJoined
<1>5. made' \in Nat /\ made' <= made + 1
  BY <1>4 DEF GetOrAdd
<1>6. Cardinality(Joined)' = Cardinality(Joined) + 1
  BY <1>2, <1>3
<1>7. MadeByJoined'
  BY <1>3, <1>4, <1>5, <1>6 DEF MadeByJoined
<1> QED
  BY <1>1, <1>2, <1>3, <1>4, <1>7

LEMMA SenderTypes ==
  ASSUME BroadcasterTypeOK, Sender
  PROVE  BroadcasterTypeOK'
<1>1. /\ MaxEvents \in Nat /\ ChannelSize \in Nat \ {0} /\ Cardinality(Sub) \in Nat
      /\ published \in 0 .. MaxEvents /\ message \in 0 .. MaxEvents /\ buffer \in Seq(1 .. MaxEvents)
  BY BroadcasterAssumption, DictNumbers DEF BroadcasterTypeOK
<1>2. CASE RecordEvent
  <2>1. published + 1 \in 1 .. MaxEvents
    BY <1>1, <1>2 DEF RecordEvent
  <2>2. Append(buffer, published + 1) \in Seq(1 .. MaxEvents)
    BY <1>1, <2>1, AppendAt
  <2> QED
    BY <1>1, <1>2, <2>1, <2>2 DEF RecordEvent, SubFrame, subVars, BroadcasterTypeOK
<1>3. CASE Trim
  <2>1. buffer' \in Seq(1 .. MaxEvents)
    <3>1. CASE Len(buffer) > ReplaySize
      <4>1. buffer # <<>>
        BY <3>1, BroadcasterAssumption
      <4> QED
        BY <1>1, <1>3, <3>1, <4>1, TailAt DEF Trim
    <3> QED
      BY <1>1, <1>3, <3>1 DEF Trim
  <2> QED
    BY <1>3, <2>1 DEF Trim, SubFrame, subVars, BroadcasterTypeOK
<1>4. CASE SendStatistics
  BY <1>1, <1>4 DEF SendStatistics, SubFrame, subVars, BroadcasterTypeOK
<1>5. CASE LookUp
  <2>1. view' \in 0 .. Cardinality(Sub) /\ due' \in SUBSET Sub /\ visited' \in SUBSET Sub
    <3>1. CASE registry # 0 /\ members[registry] # {}
      <4>1. registry \in Dict /\ registry \in 0 .. Cardinality(Sub)
        BY <1>1, <3>1, DictNumbers DEF BroadcasterTypeOK
      <4> QED
        BY <1>5, <3>1, <4>1 DEF LookUp, BroadcasterTypeOK
    <3> QED
      BY <1>5, <3>1 DEF LookUp, BroadcasterTypeOK
  <2>2. sending' \in {"Idle", "Enumerating"}
    BY <1>5 DEF LookUp
  <2> QED
    BY <1>5, <2>1, <2>2 DEF LookUp, SubFrame, subVars, BroadcasterTypeOK
<1>6. ASSUME NEW s \in Sub, WriteTo(s) PROVE BroadcasterTypeOK'
  <2>1. channel[s] \in Seq(0 .. MaxEvents) /\ Len(channel[s]) \in Nat /\ Len(channel[s]) <= ChannelSize
    BY <1>1, LenProperties DEF BroadcasterTypeOK
  <2>2. visited' \in SUBSET Sub
    BY <1>6 DEF WriteTo, BroadcasterTypeOK
  <2>3. CASE Len(channel[s]) < ChannelSize
    <3>1. /\ Append(channel[s], message) \in Seq(0 .. MaxEvents)
          /\ Len(Append(channel[s], message)) <= ChannelSize
      BY <1>1, <2>1, <2>3, AppendAt
    <3>2. channel' = [channel EXCEPT ![s] = Append(channel[s], message)] /\ dropped' = dropped
      BY <1>6, <2>3 DEF WriteTo
    <3>3. /\ channel' \in [Sub -> Seq(0 .. MaxEvents)]
          /\ \A x \in Sub : Len(channel'[x]) <= ChannelSize
      BY <3>1, <3>2 DEF BroadcasterTypeOK
    <3> QED
      BY <1>6, <2>2, <3>2, <3>3 DEF WriteTo, SubFrame, subVars, BroadcasterTypeOK
  <2>4. CASE ~(Len(channel[s]) < ChannelSize)
    <3>1. channel[s] # <<>>
      BY <1>1, <2>1, <2>4
    <3>2. Tail(channel[s]) \in Seq(0 .. MaxEvents) /\ Len(Tail(channel[s])) = Len(channel[s]) - 1
      BY <2>1, <3>1, TailAt
    <3>3. /\ Append(Tail(channel[s]), message) \in Seq(0 .. MaxEvents)
          /\ Len(Append(Tail(channel[s]), message)) = Len(Tail(channel[s])) + 1
      BY <1>1, <3>2, AppendAt
    <3>4. Len(Append(Tail(channel[s]), message)) <= ChannelSize
      BY <1>1, <2>1, <3>2, <3>3
    <3>5. /\ channel' = [channel EXCEPT ![s] = Append(Tail(channel[s]), message)]
          /\ dropped' = [dropped EXCEPT ![s] = TRUE]
      BY <1>6, <2>4 DEF WriteTo
    <3>6. /\ channel' \in [Sub -> Seq(0 .. MaxEvents)]
          /\ \A x \in Sub : Len(channel'[x]) <= ChannelSize
          /\ dropped' \in [Sub -> BOOLEAN]
      BY <3>3, <3>4, <3>5 DEF BroadcasterTypeOK
    <3> QED
      BY <1>6, <2>2, <3>6 DEF WriteTo, SubFrame, subVars, BroadcasterTypeOK
  <2> QED
    BY <2>3, <2>4
<1>7. CASE EnumerationEnds
  BY <1>1, <1>7 DEF EnumerationEnds, SubFrame, subVars, BroadcasterTypeOK
<1>8. CASE ClearReplayBuffer
  BY <1>8 DEF ClearReplayBuffer, SubFrame, subVars, BroadcasterTypeOK
<1> QED
  BY <1>2, <1>3, <1>4, <1>5, <1>6, <1>7, <1>8 DEF Sender

LEMMA SubscriptionTypes ==
  ASSUME BroadcasterTypeOK, MadeByJoined, NEW s \in Sub, Subscription(s)
  PROVE  BroadcasterTypeOK'
<1>1. /\ MaxEvents \in Nat /\ Cardinality(Sub) \in Nat
      /\ made \in 0 .. Cardinality(Sub) /\ registry \in 0 .. made
  BY BroadcasterAssumption, DictNumbers DEF BroadcasterTypeOK
<1>2. CASE GetOrAdd(s)
  <2>1. made + 1 <= Cardinality(Sub)
    BY <1>2, RoomForOne
  <2>2. made' \in 0 .. Cardinality(Sub) /\ registry' \in 0 .. made' /\ made <= made'
    BY <1>1, <1>2, <2>1 DEF GetOrAdd
  <2>3. dict' \in [Sub -> 0 .. made']
    BY <1>1, <1>2, <2>2 DEF GetOrAdd, BroadcasterTypeOK
  <2>4. point' \in [Sub -> SubPoint]
    BY <1>2 DEF GetOrAdd, Move, BroadcasterTypeOK, SubPoint
  <2> QED
    BY <1>2, <2>2, <2>3, <2>4 DEF GetOrAdd, senderVars, BroadcasterTypeOK
<1>3. CASE Register(s)
  <2>1. members' \in [Dict -> SUBSET Sub] /\ point' \in [Sub -> SubPoint]
    BY <1>3 DEF Register, Move, BroadcasterTypeOK, SubPoint
  <2> QED
    BY <1>3, <2>1 DEF Register, senderVars, BroadcasterTypeOK
<1>4. CASE Snapshot(s)
  <2>1. replay' \in [Sub -> Seq(1 .. MaxEvents)] /\ point' \in [Sub -> SubPoint]
    BY <1>4 DEF Snapshot, Move, BroadcasterTypeOK, SubPoint
  <2> QED
    BY <1>4, <2>1 DEF Snapshot, senderVars, BroadcasterTypeOK
<1>5. CASE ReplayOne(s)
  <2>1. /\ Head(replay[s]) \in 1 .. MaxEvents /\ Tail(replay[s]) \in Seq(1 .. MaxEvents)
    BY <1>5, TailAt DEF ReplayOne, BroadcasterTypeOK
  <2>2. Append(delivered[s], Head(replay[s])) \in Seq(1 .. MaxEvents)
    BY <2>1, AppendAt DEF BroadcasterTypeOK
  <2>3. /\ replay' \in [Sub -> Seq(1 .. MaxEvents)]
        /\ delivered' \in [Sub -> Seq(1 .. MaxEvents)]
        /\ lastReplayed' \in [Sub -> 0 .. MaxEvents]
    <3>1. Head(replay[s]) \in 0 .. MaxEvents
      BY <1>1, <2>1
    <3>2. lastReplayed' \in [Sub -> 0 .. MaxEvents]
      BY <1>5, <3>1 DEF ReplayOne, BroadcasterTypeOK
    <3>3. replay' \in [Sub -> Seq(1 .. MaxEvents)]
      BY <1>5, <2>1 DEF ReplayOne, BroadcasterTypeOK
    <3>4. delivered' \in [Sub -> Seq(1 .. MaxEvents)]
      BY <1>5, <2>2 DEF ReplayOne, BroadcasterTypeOK
    <3> QED
      BY <3>2, <3>3, <3>4
  <2> QED
    BY <1>5, <2>3 DEF ReplayOne, senderVars, BroadcasterTypeOK
<1>6. CASE ReplayEnds(s)
  BY <1>6 DEF ReplayEnds, Move, senderVars, BroadcasterTypeOK, SubPoint
<1>7. CASE ReadLive(s)
  <2>1. /\ channel[s] \in Seq(0 .. MaxEvents) /\ channel[s] # <<>> /\ Len(channel[s]) <= ChannelSize
        /\ ChannelSize \in Nat
    BY <1>7, BroadcasterAssumption DEF ReadLive, BroadcasterTypeOK
  <2>2. /\ Head(channel[s]) \in 0 .. MaxEvents /\ Tail(channel[s]) \in Seq(0 .. MaxEvents)
        /\ Len(channel[s]) \in Nat /\ Len(Tail(channel[s])) = Len(channel[s]) - 1
    BY <2>1, TailAt
  <2>3. /\ channel' \in [Sub -> Seq(0 .. MaxEvents)]
        /\ \A x \in Sub : Len(channel'[x]) <= ChannelSize
    <3>1. channel' = [channel EXCEPT ![s] = Tail(channel[s])]
      BY <1>7 DEF ReadLive
    <3>2. channel' \in [Sub -> Seq(0 .. MaxEvents)]
      BY <2>2, <3>1 DEF BroadcasterTypeOK
    <3>3. Len(Tail(channel[s])) <= ChannelSize
      BY <2>1, <2>2
    <3>4. ASSUME NEW x \in Sub PROVE Len(channel'[x]) <= ChannelSize
      BY <3>1, <3>3 DEF BroadcasterTypeOK
    <3> QED
      BY <3>2, <3>4
  <2>4. delivered' \in [Sub -> Seq(1 .. MaxEvents)]
    <3>1. delivered[s] \in Seq(1 .. MaxEvents) /\ lastReplayed[s] \in Nat
      BY <1>1 DEF BroadcasterTypeOK
    <3>2. CASE Head(channel[s]) > lastReplayed[s]
      <4>1. Head(channel[s]) \in 1 .. MaxEvents
        BY <1>1, <2>2, <3>1, <3>2
      <4>2. Append(delivered[s], Head(channel[s])) \in Seq(1 .. MaxEvents)
        BY <3>1, <4>1, AppendAt
      <4>3. delivered' = [delivered EXCEPT ![s] = Append(delivered[s], Head(channel[s]))]
        BY <1>7, <3>2 DEF ReadLive
      <4> QED
        BY <4>2, <4>3 DEF BroadcasterTypeOK
    <3>3. CASE ~(Head(channel[s]) > lastReplayed[s])
      BY <1>7, <3>1, <3>3 DEF ReadLive, BroadcasterTypeOK
    <3> QED
      BY <3>2, <3>3
  <2> QED
    BY <1>7, <2>3, <2>4 DEF ReadLive, senderVars, BroadcasterTypeOK
<1>8. CASE Leave(s)
  <2>1. /\ dict' \in [Sub -> 0 .. made] /\ point' \in [Sub -> SubPoint]
        /\ replay' \in [Sub -> Seq(1 .. MaxEvents)]
    <3>1. <<>> \in Seq(1 .. MaxEvents)
      OBVIOUS
    <3> QED
      BY <1>1, <1>8, <3>1 DEF Leave, BroadcasterTypeOK, SubPoint
  <2> QED
    BY <1>8, <2>1 DEF Leave, senderVars, BroadcasterTypeOK
<1>9. CASE LeaveRemove(s)
  <2>1. members' \in [Dict -> SUBSET Sub] /\ point' \in [Sub -> SubPoint]
    BY <1>9 DEF LeaveRemove, Move, BroadcasterTypeOK, SubPoint
  <2> QED
    BY <1>9, <2>1 DEF LeaveRemove, senderVars, BroadcasterTypeOK
<1>10. CASE LeaveCheck(s)
  BY <1>10 DEF LeaveCheck, senderVars, BroadcasterTypeOK, SubPoint
<1>11. CASE LeaveDrop(s)
  <2>1. registry' \in 0 .. made /\ point' \in [Sub -> SubPoint]
    BY <1>1, <1>11 DEF LeaveDrop, Move, BroadcasterTypeOK, SubPoint
  <2> QED
    BY <1>11, <2>1 DEF LeaveDrop, senderVars, BroadcasterTypeOK
<1> QED
  BY <1>2, <1>3, <1>4, <1>5, <1>6, <1>7, <1>8, <1>9, <1>10, <1>11 DEF Subscription

-----------------------------------------------------------------------------
(* Dictionaries *)

\* Who was not idle is not idle afterwards, and no dictionary was made.
LEMMA MadeStays ==
  ASSUME MadeByJoined, Joined' = Joined, made' = made
  PROVE  MadeByJoined'
  BY DEF MadeByJoined

LEMMA DictionaryFrame ==
  ASSUME DictionaryOK, UNCHANGED <<registry, made, members, point, dict>>
  PROVE  DictionaryOK'
<1>1. Joined' = Joined
  BY DEF Joined
<1>2. MadeByJoined'
  BY <1>1, MadeStays DEF DictionaryOK
<1> QED
  BY <1>2 DEF DictionaryOK, MembersOfMade, MembersLeave, RegistryHeld, Holds

LEMMA SenderDictionaries ==
  ASSUME DictionaryOK, Sender
  PROVE  DictionaryOK'
<1>1. UNCHANGED <<registry, made, members, point, dict>>
  BY DEF Sender, RecordEvent, Trim, SendStatistics, LookUp, WriteTo, EnumerationEnds,
     ClearReplayBuffer, SubFrame, subVars
<1> QED
  BY <1>1, DictionaryFrame

LEMMA JoinDictionaries ==
  ASSUME BroadcasterTypeOK, DictionaryOK, NEW s \in Sub, GetOrAdd(s)
  PROVE  DictionaryOK'
<1>1. /\ made \in Nat /\ made + 1 <= Cardinality(Sub) /\ Cardinality(Sub) \in Nat
      /\ registry \in 0 .. made /\ MadeByJoined'
  BY RoomForOne, DictNumbers DEF DictionaryOK, BroadcasterTypeOK
<1>2. /\ point[s] = "Idle" /\ point' = [point EXCEPT ![s] = "Adding"]
      /\ dict' = [dict EXCEPT ![s] = registry'] /\ members' = members
      /\ point \in [Sub -> SubPoint] /\ dict \in [Sub -> 0 .. made]
      /\ members \in [Dict -> SUBSET Sub]
  BY DEF GetOrAdd, Move, BroadcasterTypeOK
<1>3. CASE registry = 0
  <2>1. made' = made + 1 /\ registry' = made + 1 /\ made + 1 \in Dict
    BY <1>1, <1>3 DEF GetOrAdd, Dict
  <2>2. members[made + 1] = {}
    BY <1>1, <2>1 DEF DictionaryOK, MembersOfMade
  <2>3. MembersOfMade'
    <3>1. \A d \in Dict : d > made + 1 => d > made
      BY <1>1 DEF Dict
    <3> QED
      BY <1>2, <2>1, <3>1 DEF DictionaryOK, MembersOfMade
  <2>4. MembersLeave'
    BY <1>2, <2>1, <2>2 DEF MembersLeave
  <2>5. RegistryHeld'
    BY <1>2 DEF RegistryHeld, Holds
  <2> QED
    BY <1>1, <2>3, <2>4, <2>5 DEF DictionaryOK
<1>4. CASE registry # 0
  <2>1. made' = made /\ registry' = registry
    BY <1>4 DEF GetOrAdd
  <2>2. MembersLeave'
    <3>1. ASSUME NEW x \in members[registry] PROVE x # s
      BY <1>2, <1>4, <3>1 DEF DictionaryOK, MembersLeave
    <3> QED
      BY <1>2, <1>4, <2>1, <3>1 DEF DictionaryOK, MembersLeave
  <2>3. RegistryHeld'
    BY <1>2 DEF RegistryHeld, Holds
  <2> QED
    BY <1>1, <1>2, <2>1, <2>2, <2>3 DEF DictionaryOK, MembersOfMade
<1> QED
  BY <1>3, <1>4

\* A client that moves on from a point after "Idle" stays counted.
LEMMA StillJoined ==
  ASSUME BroadcasterTypeOK, NEW s \in Sub, NEW p \in SubPoint \ {"Idle"},
         point[s] # "Idle", point' = [point EXCEPT ![s] = p]
  PROVE  Joined' = Joined
  BY DEF Joined, BroadcasterTypeOK

LEMMA SubscriptionDictionaries ==
  ASSUME BroadcasterTypeOK, DictionaryOK, NEW s \in Sub, Subscription(s)
  PROVE  DictionaryOK'
<1>1. /\ point \in [Sub -> SubPoint] /\ dict \in [Sub -> 0 .. made]
      /\ members \in [Dict -> SUBSET Sub] /\ registry \in 0 .. made
      /\ made \in 0 .. Cardinality(Sub) /\ Cardinality(Sub) \in Nat
      /\ registry # 0 => registry \in Dict
  BY DictNumbers DEF BroadcasterTypeOK
<1>2. CASE GetOrAdd(s)
  BY <1>2, JoinDictionaries
<1>3. CASE Register(s)
  <2>1. /\ point[s] = "Adding" /\ point' = [point EXCEPT ![s] = "Snapshotting"]
        /\ members' = [members EXCEPT ![dict[s]] = @ \cup {s}]
        /\ registry' = registry /\ dict' = dict /\ made' = made
    BY <1>3 DEF Register, Move
  <2>2. MadeByJoined'
    <3>1. "Snapshotting" \in SubPoint \ {"Idle"}
      BY DEF SubPoint
    <3> QED
      BY <2>1, <3>1, StillJoined, MadeStays DEF DictionaryOK
  <2>3. MembersOfMade'
    <3>1. \A d \in Dict : d > made => d # dict[s]
      BY <1>1 DEF Dict
    <3> QED
      BY <1>1, <2>1, <3>1 DEF DictionaryOK, MembersOfMade
  <2>4. MembersLeave'
    <3> SUFFICES ASSUME registry # 0, NEW x \in members'[registry]
                 PROVE  /\ point'[x] \in {"Snapshotting", "Replaying", "Live", "Removing"}
                        /\ dict[x] = registry
      BY <2>1 DEF MembersLeave
    <3>1. x \in members[registry] \/ (x = s /\ dict[s] = registry)
      BY <1>1, <2>1
    <3> QED
      BY <1>1, <2>1, <3>1 DEF DictionaryOK, MembersLeave
  <2>5. RegistryHeld'
    <3> SUFFICES ASSUME registry # 0 PROVE \E h \in Sub : Holds(h)'
      BY <2>1 DEF RegistryHeld
    <3>1. PICK h \in Sub : Holds(h)
      BY DEF DictionaryOK, RegistryHeld
    <3>2. CASE h = s /\ dict[s] = registry
      BY <1>1, <2>1, <3>2 DEF Holds
    <3>3. CASE h # s
      BY <1>1, <2>1, <3>1, <3>3 DEF Holds
    <3>4. CASE h = s /\ s \in members[registry]
      BY <1>1, <2>1, <3>4 DEF Holds
    <3> QED
      BY <3>1, <3>2, <3>3, <3>4 DEF Holds
  <2> QED
    BY <2>2, <2>3, <2>4, <2>5 DEF DictionaryOK
<1>4. CASE Snapshot(s) \/ ReplayEnds(s)
  <2>1. /\ UNCHANGED <<registry, made, members, dict>>
        /\ point[s] \in {"Snapshotting", "Replaying"}
        /\ \E p \in {"Replaying", "Live"} : point' = [point EXCEPT ![s] = p]
    BY <1>4 DEF Snapshot, ReplayEnds, Move
  <2>2. MadeByJoined'
    <3>1. \A p \in {"Replaying", "Live"} : p \in SubPoint \ {"Idle"}
      BY DEF SubPoint
    <3> QED
      BY <2>1, <3>1, StillJoined, MadeStays DEF DictionaryOK
  <2>3. MembersLeave'
    BY <1>1, <2>1 DEF DictionaryOK, MembersLeave
  <2>4. RegistryHeld'
    BY <1>1, <2>1 DEF DictionaryOK, RegistryHeld, Holds
  <2> QED
    BY <2>1, <2>2, <2>3, <2>4 DEF DictionaryOK, MembersOfMade
<1>5. CASE ReplayOne(s) \/ ReadLive(s)
  <2>1. UNCHANGED <<registry, made, members, point, dict>>
    BY <1>5 DEF ReplayOne, ReadLive
  <2> QED
    BY <2>1, DictionaryFrame
<1>6. CASE Leave(s)
  <2>1. /\ point[s] \in {"Replaying", "Live"}
        /\ dict' = [dict EXCEPT ![s] = registry] /\ UNCHANGED <<registry, made, members>>
        /\ point' = [point EXCEPT ![s] = IF registry = 0 THEN "Gone" ELSE "Removing"]
    BY <1>6 DEF Leave
  <2>2. MadeByJoined'
    <3>1. (IF registry = 0 THEN "Gone" ELSE "Removing") \in SubPoint \ {"Idle"}
      BY DEF SubPoint
    <3> QED
      BY <2>1, <3>1, StillJoined, MadeStays DEF DictionaryOK
  <2>3. MembersLeave'
    BY <1>1, <2>1 DEF DictionaryOK, MembersLeave
  <2>4. RegistryHeld'
    BY <1>1, <2>1 DEF DictionaryOK, RegistryHeld, Holds
  <2> QED
    BY <2>1, <2>2, <2>3, <2>4 DEF DictionaryOK, MembersOfMade
<1>7. CASE LeaveRemove(s)
  <2>1. /\ point[s] = "Removing" /\ point' = [point EXCEPT ![s] = "CheckingEmpty"]
        /\ members' = [members EXCEPT ![dict[s]] = @ \ {s}]
        /\ registry' = registry /\ dict' = dict /\ made' = made
    BY <1>7 DEF LeaveRemove, Move
  <2>2. MadeByJoined'
    <3>1. "CheckingEmpty" \in SubPoint \ {"Idle"}
      BY DEF SubPoint
    <3> QED
      BY <2>1, <3>1, StillJoined, MadeStays DEF DictionaryOK
  <2>3. \A d \in Dict : members'[d] \subseteq members[d]
    BY <1>1, <2>1
  <2>4. MembersOfMade'
    BY <2>1, <2>3 DEF DictionaryOK, MembersOfMade
  <2>5. MembersLeave'
    <3> SUFFICES ASSUME registry # 0, NEW x \in members'[registry]
                 PROVE  /\ point'[x] \in {"Snapshotting", "Replaying", "Live", "Removing"}
                        /\ dict[x] = registry
      BY <2>1 DEF MembersLeave
    <3>1. x \in members[registry] /\ dict[x] = registry
      BY <1>1, <2>3 DEF DictionaryOK, MembersLeave
    <3>2. x # s
      BY <1>1, <2>1, <3>1
    <3> QED
      BY <1>1, <2>1, <3>1, <3>2 DEF DictionaryOK, MembersLeave
  <2>6. RegistryHeld'
    <3> SUFFICES ASSUME registry # 0 PROVE \E h \in Sub : Holds(h)'
      BY <2>1 DEF RegistryHeld
    <3>1. PICK h \in Sub : Holds(h)
      BY DEF DictionaryOK, RegistryHeld
    <3>2. CASE h = s
      <4>1. dict[s] = registry
        BY <2>1, <3>1, <3>2 DEF Holds, DictionaryOK, MembersLeave
      <4> QED
        BY <1>1, <2>1, <4>1 DEF Holds
    <3>3. CASE h # s
      BY <1>1, <2>1, <3>1, <3>3 DEF Holds
    <3> QED
      BY <3>2, <3>3
  <2> QED
    BY <2>2, <2>4, <2>5, <2>6 DEF DictionaryOK
<1>8. CASE LeaveCheck(s)
  <2>1. /\ point[s] = "CheckingEmpty" /\ UNCHANGED <<registry, made, members, dict>>
        /\ point' = [point EXCEPT ![s] = IF members[dict[s]] = {} THEN "Dropping" ELSE "Gone"]
    BY <1>8 DEF LeaveCheck
  <2>2. MadeByJoined'
    <3>1. (IF members[dict[s]] = {} THEN "Dropping" ELSE "Gone") \in SubPoint \ {"Idle"}
      BY DEF SubPoint
    <3> QED
      BY <2>1, <3>1, StillJoined, MadeStays DEF DictionaryOK
  <2>3. MembersLeave'
    BY <1>1, <2>1 DEF DictionaryOK, MembersLeave
  <2>4. RegistryHeld'
    <3> SUFFICES ASSUME registry # 0 PROVE \E h \in Sub : Holds(h)'
      BY <2>1 DEF RegistryHeld
    <3>1. CASE members[registry] = {}
      <4>1. PICK h \in Sub : Holds(h)
        BY DEF DictionaryOK, RegistryHeld
      <4> QED
        BY <1>1, <2>1, <3>1, <4>1 DEF Holds
    <3>2. CASE members[registry] # {}
      <4>1. PICK h \in members[registry] : TRUE
        BY <3>2
      <4> QED
        BY <1>1, <2>1, <4>1 DEF Holds
    <3> QED
      BY <3>1, <3>2
  <2> QED
    BY <2>1, <2>2, <2>3, <2>4 DEF DictionaryOK, MembersOfMade
<1>9. CASE LeaveDrop(s)
  <2>1. /\ point[s] = "Dropping" /\ point' = [point EXCEPT ![s] = "Gone"]
        /\ registry' = IF registry = dict[s] THEN 0 ELSE registry
        /\ UNCHANGED <<made, members, dict>>
    BY <1>9 DEF LeaveDrop, Move
  <2>2. MadeByJoined'
    <3>1. "Gone" \in SubPoint \ {"Idle"}
      BY DEF SubPoint
    <3> QED
      BY <2>1, <3>1, StillJoined, MadeStays DEF DictionaryOK
  <2>3. MembersLeave'
    BY <1>1, <2>1 DEF DictionaryOK, MembersLeave
  <2>4. RegistryHeld'
    BY <1>1, <2>1 DEF DictionaryOK, RegistryHeld, Holds
  <2> QED
    BY <2>1, <2>2, <2>3, <2>4 DEF DictionaryOK, MembersOfMade
<1> QED
  BY <1>2, <1>3, <1>4, <1>5, <1>6, <1>7, <1>8, <1>9 DEF Subscription

-----------------------------------------------------------------------------
(* The order of the events *)

LEMMA Ranges ==
  ASSUME BroadcasterTypeOK
  PROVE  /\ MaxEvents \in Nat /\ published \in Nat /\ message \in Nat
         /\ 0 .. MaxEvents \in SUBSET Nat /\ 1 .. MaxEvents \in SUBSET Nat
         /\ message \in 0 .. MaxEvents /\ buffer \in Seq(1 .. MaxEvents)
         /\ \A s \in Sub : /\ channel[s] \in Seq(0 .. MaxEvents)
                           /\ replay[s] \in Seq(1 .. MaxEvents)
                           /\ delivered[s] \in Seq(1 .. MaxEvents)
                           /\ lastReplayed[s] \in Nat
  BY BroadcasterAssumption DEF BroadcasterTypeOK

\* A bound that grows.
LEMMA UpToNext ==
  ASSUME NEW S \in SUBSET Nat, NEW q \in Seq(S), NEW n \in Nat, UpTo(q, n)
  PROVE  UpTo(q, n + 1) /\ Below(q, n + 1)
<1>1. \A i \in DOMAIN q : q[i] \in Nat
  BY LenProperties
<1> QED
  BY <1>1 DEF UpTo, Below

\* A step that leaves a client alone and nothing new to write to it.
LEMMA ClientFrame ==
  ASSUME NEW x \in Sub, ClientOK(x), published' = published,
         UNCHANGED <<point[x], replay[x], lastReplayed[x], delivered[x], channel[x]>>,
         Awaits(x)' => Awaits(x) /\ message' = message
  PROVE  ClientOK(x)'
<1>1. ReplayOK(x)' /\ DeliveredOK(x)' /\ ChannelOK(x)'
  BY DEF ClientOK, ReplayOK, DeliveredOK, ChannelOK
<1>2. PendingOK(x)'
  BY DEF ClientOK, PendingOK
<1> QED
  BY <1>1, <1>2 DEF ClientOK

LEMMA RecordOrder ==
  ASSUME BroadcasterTypeOK, OrderOK, RecordEvent
  PROVE  OrderOK'
<1>1. /\ published' = published + 1 /\ message' = published + 1 /\ published \in Nat
      /\ buffer' = Append(buffer, published + 1)
      /\ UNCHANGED <<point, replay, lastReplayed, delivered, channel>>
  BY Ranges DEF RecordEvent, SubFrame, subVars
<1>2. published + 1 \in 1 .. MaxEvents /\ 1 .. MaxEvents \in SUBSET Nat
  BY Ranges DEF RecordEvent, BroadcasterTypeOK
<1>3. BufferOK'
  <2>1. Rising(buffer) /\ UpTo(buffer, published + 1) /\ Below(buffer, published + 1)
    BY <1>1, Ranges, UpToNext DEF OrderOK, BufferOK
  <2>2. Rising(buffer') /\ UpTo(buffer', published + 1)
    BY <1>1, <1>2, <2>1, Ranges, AppendOrder
  <2> QED
    BY <1>1, <2>2 DEF BufferOK
<1>4. MessageOK'
  BY <1>1 DEF MessageOK
<1>5. ASSUME NEW x \in Sub PROVE ClientOK(x)'
  <2>1. /\ UpTo(replay[x], published) /\ UpTo(delivered[x], published) /\ UpTo(channel[x], published)
        /\ ClientOK(x)
    BY DEF OrderOK, ClientsOK, ClientOK, ReplayOK, DeliveredOK, ChannelOK
  <2>2. /\ UpTo(replay[x], published + 1) /\ UpTo(delivered[x], published + 1)
        /\ UpTo(channel[x], published + 1)
        /\ Below(channel[x], published + 1) /\ Below(delivered[x], published + 1)
    BY <1>1, <2>1, Ranges, UpToNext
  <2>3. ReplayOK(x)' /\ DeliveredOK(x)' /\ ChannelOK(x)'
    BY <1>1, <2>1, <2>2 DEF ClientOK, ReplayOK, DeliveredOK, ChannelOK
  <2>4. PendingOK(x)'
    BY <1>1, <2>2 DEF PendingOK
  <2> QED
    BY <2>3, <2>4 DEF ClientOK
<1> QED
  BY <1>3, <1>4, <1>5 DEF OrderOK, ClientsOK

LEMMA WriteOrder ==
  ASSUME BroadcasterTypeOK, OrderOK, NEW s \in Sub, WriteTo(s)
  PROVE  OrderOK'
<1>1. /\ sending = "Enumerating" /\ sending' = sending /\ s \notin visited
      /\ visited' = visited \cup {s}
      /\ UNCHANGED <<point, replay, lastReplayed, delivered, published, buffer, message>>
  BY DEF WriteTo, SubFrame, subVars
<1>2. BufferOK' /\ MessageOK'
  BY <1>1 DEF OrderOK, BufferOK, MessageOK
<1>3. ASSUME NEW x \in Sub, x # s PROVE ClientOK(x)'
  <2>1. channel'[x] = channel[x]
    BY <1>3 DEF WriteTo, BroadcasterTypeOK
  <2>2. Awaits(x)' => Awaits(x)
    BY <1>1 DEF Awaits
  <2>3. ClientOK(x)
    BY DEF OrderOK, ClientsOK
  <2> QED
    BY <1>1, <2>1, <2>2, <2>3, ClientFrame
<1>4. ClientOK(s)'
  <2>1. ClientOK(s) /\ message \in {0, published}
    BY DEF OrderOK, ClientsOK, MessageOK
  <2>2. /\ EventsRise(channel[s]) /\ UpTo(channel[s], published)
        /\ \A k \in DOMAIN channel[s] :
             channel[s][k] > lastReplayed[s] => Below(delivered[s], channel[s][k])
    BY <2>1 DEF ClientOK, ChannelOK
  <2>3. message # 0 => /\ Below(channel[s], message)
                       /\ message > lastReplayed[s] => Below(delivered[s], message)
    BY <1>1, <2>1 DEF ClientOK, PendingOK, Awaits
  <2>4. /\ MaxEvents \in Nat /\ published \in Nat /\ message \in Nat /\ lastReplayed[s] \in Nat
        /\ 0 .. MaxEvents \in SUBSET Nat /\ message \in 0 .. MaxEvents
        /\ channel[s] \in Seq(0 .. MaxEvents) /\ message <= published
    BY <2>1, Ranges
  <2>5. ASSUME NEW q \in Seq(0 .. MaxEvents), channel'[s] = Append(q, message),
               EventsRise(q), UpTo(q, published), message # 0 => Below(q, message),
               \A i \in DOMAIN q : \E k \in DOMAIN channel[s] : q[i] = channel[s][k]
        PROVE  ChannelOK(s)'
    <3>1. /\ EventsRise(Append(q, message)) /\ UpTo(Append(q, message), published)
          /\ \A i \in DOMAIN Append(q, message) :
               \/ Append(q, message)[i] = message
               \/ i \in DOMAIN q /\ Append(q, message)[i] = q[i]
      BY <2>4, <2>5, AppendOrder
    <3>2. ASSUME NEW i \in DOMAIN Append(q, message), Append(q, message)[i] > lastReplayed[s]
          PROVE  Below(delivered[s], Append(q, message)[i])
      <4>1. CASE Append(q, message)[i] = message
        BY <2>3, <2>4, <3>2, <4>1
      <4>2. CASE i \in DOMAIN q /\ Append(q, message)[i] = q[i]
        BY <2>2, <2>5, <3>2, <4>2
      <4> QED
        BY <3>1, <4>1, <4>2
    <3> QED
      BY <1>1, <2>5, <3>1, <3>2 DEF ChannelOK
  <2>6. ChannelOK(s)'
    <3>1. CASE Len(channel[s]) < ChannelSize
      <4>1. channel'[s] = Append(channel[s], message)
        BY <3>1 DEF WriteTo, BroadcasterTypeOK
      <4> QED
        BY <2>2, <2>3, <2>4, <2>5, <4>1
    <3>2. CASE ~(Len(channel[s]) < ChannelSize)
      <4>1. channel[s] # <<>> /\ channel'[s] = Append(Tail(channel[s]), message)
        BY <2>4, <3>2, BroadcasterAssumption DEF WriteTo, BroadcasterTypeOK
      <4>2. /\ Tail(channel[s]) \in Seq(0 .. MaxEvents)
            /\ EventsRise(Tail(channel[s])) /\ UpTo(Tail(channel[s]), published)
            /\ message # 0 => Below(Tail(channel[s]), message)
            /\ \A i \in DOMAIN Tail(channel[s]) :
                 i + 1 \in DOMAIN channel[s] /\ Tail(channel[s])[i] = channel[s][i + 1]
        BY <2>2, <2>3, <2>4, <4>1, TailOrder
      <4> QED
        BY <2>5, <4>1, <4>2
    <3> QED
      BY <3>1, <3>2
  <2>7. ReplayOK(s)' /\ DeliveredOK(s)'
    BY <1>1, <2>1 DEF ClientOK, ReplayOK, DeliveredOK
  <2>8. PendingOK(s)'
    BY <1>1 DEF PendingOK, Awaits
  <2> QED
    BY <2>6, <2>7, <2>8 DEF ClientOK
<1> QED
  BY <1>2, <1>3, <1>4 DEF OrderOK, ClientsOK

LEMMA SenderOrder ==
  ASSUME BroadcasterTypeOK, OrderOK, Sender
  PROVE  OrderOK'
<1>1. CASE RecordEvent
  BY <1>1, RecordOrder
<1>2. CASE \E s \in Sub : WriteTo(s)
  BY <1>2, WriteOrder
<1>3. CASE Trim \/ SendStatistics \/ LookUp \/ EnumerationEnds \/ ClearReplayBuffer
  <2>1. UNCHANGED <<published, point, replay, lastReplayed, delivered, channel>>
    BY <1>3 DEF Trim, SendStatistics, LookUp, EnumerationEnds, ClearReplayBuffer, SubFrame, subVars
  <2>2. \A x \in Sub : Awaits(x)' => Awaits(x) /\ message' = message
    BY <1>3 DEF Trim, SendStatistics, LookUp, EnumerationEnds, ClearReplayBuffer, Awaits
  <2>3. \A x \in Sub : ClientOK(x)'
    BY <2>1, <2>2, ClientFrame DEF OrderOK, ClientsOK
  <2>4. MessageOK'
    BY <1>3 DEF Trim, SendStatistics, LookUp, EnumerationEnds, ClearReplayBuffer, OrderOK, MessageOK
  <2>5. BufferOK'
    <3>1. Rising(buffer) /\ UpTo(buffer, published)
      BY DEF OrderOK, BufferOK
    <3>2. CASE Trim /\ Len(buffer) > ReplaySize
      <4>1. buffer # <<>> /\ buffer' = Tail(buffer)
        BY <3>2, BroadcasterAssumption DEF Trim
      <4> QED
        BY <2>1, <3>1, <4>1, Ranges, TailOrder DEF BufferOK
    <3>3. CASE ClearReplayBuffer
      BY <3>3 DEF ClearReplayBuffer, BufferOK, Rising, UpTo
    <3>4. CASE buffer' = buffer
      BY <2>1, <3>1, <3>4 DEF BufferOK
    <3> QED
      BY <1>3, <3>2, <3>3, <3>4 DEF Trim, SendStatistics, LookUp, EnumerationEnds
  <2> QED
    BY <2>3, <2>4, <2>5 DEF OrderOK, ClientsOK
<1> QED
  BY <1>1, <1>2, <1>3 DEF Sender

\* A client's own step is of no concern to the others.
LEMMA OwnStep ==
  ASSUME OrderOK, NEW s \in Sub, UNCHANGED senderVars, ClientOK(s)',
         \A x \in Sub \ {s} :
           UNCHANGED <<point[x], replay[x], lastReplayed[x], delivered[x], channel[x]>>
  PROVE  OrderOK'
<1>1. BufferOK' /\ MessageOK'
  BY DEF senderVars, OrderOK, BufferOK, MessageOK
<1>2. ASSUME NEW x \in Sub \ {s} PROVE ClientOK(x)'
  <2>1. ClientOK(x) /\ published' = published
    BY DEF OrderOK, ClientsOK, senderVars
  <2>2. Awaits(x)' => Awaits(x) /\ message' = message
    BY DEF Awaits, senderVars
  <2> QED
    BY <2>1, <2>2, ClientFrame
<1> QED
  BY <1>1, <1>2 DEF OrderOK, ClientsOK

\* Steps that only move the client on.
LEMMA MoveOrder ==
  ASSUME BroadcasterTypeOK, OrderOK, NEW s \in Sub,
         \/ GetOrAdd(s) \/ Register(s) \/ ReplayEnds(s)
         \/ LeaveRemove(s) \/ LeaveCheck(s) \/ LeaveDrop(s)
  PROVE  OrderOK'
<1>1. /\ UNCHANGED <<senderVars, replay, lastReplayed, delivered, channel>>
      /\ \A x \in Sub \ {s} : point'[x] = point[x]
      /\ point'[s] \in {"Idle", "Adding", "Snapshotting"} =>
           point[s] \in {"Idle", "Adding", "Snapshotting"}
      /\ point'[s] # "Replaying"
  BY DEF GetOrAdd, Register, ReplayEnds, LeaveRemove, LeaveCheck, LeaveDrop, Move,
     BroadcasterTypeOK
<1>2. ClientOK(s)
  BY DEF OrderOK, ClientsOK
<1>3. published' = published /\ message' = message /\ (Awaits(s)' => Awaits(s))
  BY <1>1 DEF senderVars, Awaits
<1>4. ReplayOK(s)' /\ DeliveredOK(s)' /\ ChannelOK(s)' /\ PendingOK(s)'
  BY <1>1, <1>2, <1>3 DEF ClientOK, ReplayOK, DeliveredOK, ChannelOK, PendingOK
<1> QED
  BY <1>1, <1>4, OwnStep DEF ClientOK

LEMMA SnapshotOrder ==
  ASSUME BroadcasterTypeOK, OrderOK, NEW s \in Sub, Snapshot(s)
  PROVE  OrderOK'
<1>1. /\ UNCHANGED <<senderVars, lastReplayed, delivered, channel>>
      /\ point[s] = "Snapshotting" /\ point'[s] = "Replaying" /\ replay'[s] = buffer
      /\ \A x \in Sub \ {s} : point'[x] = point[x] /\ replay'[x] = replay[x]
  BY DEF Snapshot, Move, BroadcasterTypeOK
<1>2. ClientOK(s) /\ Rising(buffer) /\ UpTo(buffer, published)
  BY DEF OrderOK, ClientsOK, BufferOK
<1>3. published' = published /\ message' = message /\ (Awaits(s)' => Awaits(s))
  BY <1>1 DEF senderVars, Awaits
<1>4. lastReplayed[s] = 0 /\ \A i \in DOMAIN buffer : 0 < buffer[i]
  <2>1. \A i \in DOMAIN buffer : buffer[i] \in 1 .. MaxEvents
    BY Ranges, LenProperties
  <2> QED
    BY <1>1, <1>2, <2>1, Ranges DEF ClientOK, ReplayOK
<1>5. ReplayOK(s)'
  BY <1>1, <1>2, <1>3, <1>4 DEF ClientOK, ReplayOK
<1>6. DeliveredOK(s)' /\ ChannelOK(s)' /\ PendingOK(s)'
  BY <1>1, <1>2, <1>3 DEF ClientOK, DeliveredOK, ChannelOK, PendingOK
<1> QED
  BY <1>1, <1>5, <1>6, OwnStep DEF ClientOK

LEMMA ReplayOrder ==
  ASSUME BroadcasterTypeOK, OrderOK, NEW s \in Sub, ReplayOne(s)
  PROVE  OrderOK'
<1> DEFINE h == Head(replay[s])
<1>1. /\ UNCHANGED <<senderVars, point, channel>>
      /\ point[s] = "Replaying" /\ replay[s] # <<>>
      /\ delivered'[s] = Append(delivered[s], h)
      /\ lastReplayed'[s] = h /\ replay'[s] = Tail(replay[s])
      /\ \A x \in Sub \ {s} : /\ delivered'[x] = delivered[x] /\ replay'[x] = replay[x]
                              /\ lastReplayed'[x] = lastReplayed[x]
  BY DEF ReplayOne, BroadcasterTypeOK
<1>2. ClientOK(s) /\ published \in Nat
  BY Ranges DEF OrderOK, ClientsOK
<1>3. published' = published /\ message' = message /\ (Awaits(s)' => Awaits(s))
  BY <1>1 DEF senderVars, Awaits
<1>4. /\ h \in 1 .. MaxEvents /\ h \in Nat /\ h <= published
      /\ Rising(Tail(replay[s])) /\ UpTo(Tail(replay[s]), published)
      /\ \A i \in DOMAIN Tail(replay[s]) : h < Tail(replay[s])[i]
      /\ lastReplayed[s] < h
  <2>1. /\ replay[s] \in Seq(1 .. MaxEvents) /\ 1 .. MaxEvents \in SUBSET Nat
        /\ Rising(replay[s]) /\ UpTo(replay[s], published)
        /\ \A i \in DOMAIN replay[s] : lastReplayed[s] < replay[s][i]
    BY <1>1, <1>2, Ranges DEF ClientOK, ReplayOK
  <2> QED
    BY <1>1, <1>2, <2>1, TailOrder
<1>5. /\ delivered[s] \in Seq(1 .. MaxEvents) /\ lastReplayed[s] \in Nat
      /\ 1 .. MaxEvents \in SUBSET Nat
      /\ Rising(delivered[s]) /\ UpTo(delivered[s], published)
      /\ Below(delivered[s], h) /\ UpTo(delivered[s], h)
  <2>1. \A i \in DOMAIN delivered[s] : delivered[s][i] \in Nat
    BY Ranges, LenProperties
  <2>2. lastReplayed[s] \in Nat /\ \A i \in DOMAIN delivered[s] : delivered[s][i] <= lastReplayed[s]
    BY <1>1, <1>2, Ranges DEF ClientOK, ReplayOK, UpTo
  <2>3. \A i \in DOMAIN delivered[s] : delivered[s][i] < h /\ delivered[s][i] <= h
    BY <1>4, <2>1, <2>2
  <2>4. Below(delivered[s], h) /\ UpTo(delivered[s], h)
    BY <2>3 DEF UpTo, Below
  <2> QED
    BY <1>2, <2>4, Ranges DEF ClientOK, DeliveredOK
<1> HIDE DEF h
<1>6. /\ Rising(delivered'[s]) /\ UpTo(delivered'[s], published) /\ UpTo(delivered'[s], h)
      /\ \A n \in Nat : h < n => Below(delivered'[s], n)
  <2>1. \A n \in Nat : h < n => Below(delivered[s], n)
    <3>1. \A i \in DOMAIN delivered[s] : delivered[s][i] \in Nat
      BY Ranges, LenProperties
    <3> QED
      BY <1>4, <1>5, <3>1 DEF Below
  <2> QED
    <3>1. /\ Rising(Append(delivered[s], h))
          /\ \A n \in Nat : UpTo(delivered[s], n) /\ h <= n => UpTo(Append(delivered[s], h), n)
          /\ \A n \in Nat : Below(delivered[s], n) /\ h < n => Below(Append(delivered[s], h), n)
      BY <1>4, <1>5, AppendOrder
    <3> QED
      BY <1>1, <1>2, <1>4, <1>5, <2>1, <3>1
<1>7. ReplayOK(s)' /\ DeliveredOK(s)'
  BY <1>1, <1>3, <1>4, <1>6 DEF ReplayOK, DeliveredOK
<1>8. ChannelOK(s)'
  <2>1. \A k \in DOMAIN channel[s] : channel[s][k] \in Nat
    BY Ranges, LenProperties
  <2> QED
    BY <1>1, <1>2, <1>3, <1>6, <2>1 DEF ClientOK, ChannelOK
<1>9. PendingOK(s)'
  BY <1>1, <1>2, <1>3, <1>6, Ranges DEF ClientOK, PendingOK
<1> QED
  BY <1>1, <1>7, <1>8, <1>9, OwnStep DEF ClientOK

LEMMA ReadOrder ==
  ASSUME BroadcasterTypeOK, OrderOK, NEW s \in Sub, ReadLive(s)
  PROVE  OrderOK'
<1> DEFINE h == Head(channel[s])
<1>1. /\ UNCHANGED <<senderVars, point, replay, lastReplayed>>
      /\ point[s] = "Live" /\ channel[s] # <<>> /\ channel'[s] = Tail(channel[s])
      /\ delivered'[s] = IF h > lastReplayed[s] THEN Append(delivered[s], h) ELSE delivered[s]
      /\ \A x \in Sub \ {s} : delivered'[x] = delivered[x] /\ channel'[x] = channel[x]
  BY DEF ReadLive, BroadcasterTypeOK
<1>2. /\ ClientOK(s) /\ published \in Nat /\ lastReplayed[s] \in Nat /\ message \in Nat
      /\ delivered[s] \in Seq(1 .. MaxEvents) /\ 1 .. MaxEvents \in SUBSET Nat
  BY Ranges DEF OrderOK, ClientsOK
<1>3. published' = published /\ message' = message /\ (Awaits(s)' => Awaits(s))
  BY <1>1 DEF senderVars, Awaits
<1>4. /\ h \in 0 .. MaxEvents /\ h <= published
      /\ Tail(channel[s]) \in Seq(0 .. MaxEvents)
      /\ EventsRise(Tail(channel[s])) /\ UpTo(Tail(channel[s]), published)
      /\ \A i \in DOMAIN Tail(channel[s]) : Tail(channel[s])[i] # 0 => h < Tail(channel[s])[i]
      /\ \A n \in Nat : Below(channel[s], n) => Below(Tail(channel[s]), n) /\ h < n
      /\ 1 \in DOMAIN channel[s] /\ h = channel[s][1]
      /\ \A i \in DOMAIN Tail(channel[s]) :
           i + 1 \in DOMAIN channel[s] /\ Tail(channel[s])[i] = channel[s][i + 1]
  <2>1. /\ channel[s] \in Seq(0 .. MaxEvents) /\ 0 .. MaxEvents \in SUBSET Nat
        /\ EventsRise(channel[s]) /\ UpTo(channel[s], published)
    BY <1>2, Ranges DEF ClientOK, ChannelOK
  <2> QED
    BY <1>1, <1>2, <2>1, TailOrder
<1> HIDE DEF h
<1>5. /\ Rising(delivered[s]) /\ UpTo(delivered[s], published)
      /\ h > lastReplayed[s] => Below(delivered[s], h)
      /\ \A k \in DOMAIN channel[s] :
           channel[s][k] > lastReplayed[s] => Below(delivered[s], channel[s][k])
  BY <1>2, <1>4 DEF ClientOK, DeliveredOK, ChannelOK
<1>6. h > lastReplayed[s] => h \in 1 .. MaxEvents
  BY <1>2, <1>4, Ranges
<1>7. /\ Rising(delivered'[s]) /\ UpTo(delivered'[s], published)
      /\ \A n \in Nat : h < n /\ Below(delivered[s], n) => Below(delivered'[s], n)
  <2>1. CASE h > lastReplayed[s]
    <3>1. /\ Rising(Append(delivered[s], h))
          /\ \A n \in Nat : UpTo(delivered[s], n) /\ h <= n => UpTo(Append(delivered[s], h), n)
          /\ \A n \in Nat : Below(delivered[s], n) /\ h < n => Below(Append(delivered[s], h), n)
      BY <1>2, <1>5, <1>6, <2>1, AppendOrder
    <3> QED
      BY <1>1, <1>2, <1>4, <1>5, <2>1, <3>1
  <2>2. CASE ~(h > lastReplayed[s])
    BY <1>1, <1>5, <2>2
  <2> QED
    BY <2>1, <2>2
<1>8. ReplayOK(s)' /\ DeliveredOK(s)'
  BY <1>1, <1>2, <1>3, <1>7 DEF ClientOK, ReplayOK, DeliveredOK
<1>9. ChannelOK(s)'
  <2>1. ASSUME NEW i \in DOMAIN Tail(channel[s]), Tail(channel[s])[i] > lastReplayed[s]
        PROVE  Below(delivered'[s], Tail(channel[s])[i])
    <3>1. Tail(channel[s])[i] \in Nat
      <4>1. \A k \in DOMAIN channel[s] : channel[s][k] \in Nat
        BY Ranges, LenProperties
      <4> QED
        BY <1>4, <4>1
    <3>2. h < Tail(channel[s])[i]
      <4>1. Tail(channel[s])[i] # 0
        BY <1>2, <2>1, <3>1
      <4> QED
        BY <1>4, <4>1
    <3>3. Below(delivered[s], Tail(channel[s])[i])
      BY <1>4, <1>5, <2>1
    <3> QED
      BY <1>7, <3>1, <3>2, <3>3
  <2> QED
    BY <1>1, <1>3, <1>4, <2>1 DEF ChannelOK
<1>10. PendingOK(s)'
  BY <1>1, <1>2, <1>3, <1>4, <1>7 DEF ClientOK, PendingOK
<1> QED
  BY <1>1, <1>8, <1>9, <1>10, OwnStep DEF ClientOK

LEMMA LeaveOrder ==
  ASSUME BroadcasterTypeOK, OrderOK, NEW s \in Sub, Leave(s)
  PROVE  OrderOK'
<1>1. /\ UNCHANGED <<senderVars, lastReplayed, delivered, channel>>
      /\ point'[s] \in {"Gone", "Removing"} /\ replay'[s] = <<>>
      /\ \A x \in Sub \ {s} : point'[x] = point[x] /\ replay'[x] = replay[x]
  BY DEF Leave, BroadcasterTypeOK
<1>2. ClientOK(s)
  BY DEF OrderOK, ClientsOK
<1>3. published' = published /\ message' = message /\ (Awaits(s)' => Awaits(s))
  BY <1>1 DEF senderVars, Awaits
<1>4. ReplayOK(s)'
  BY <1>1 DEF ReplayOK, Rising, UpTo
<1>5. DeliveredOK(s)' /\ ChannelOK(s)' /\ PendingOK(s)'
  BY <1>1, <1>2, <1>3 DEF ClientOK, DeliveredOK, ChannelOK, PendingOK
<1> QED
  BY <1>1, <1>4, <1>5, OwnStep DEF ClientOK

-----------------------------------------------------------------------------
LEMMA BroadcasterInitOK == BroadcasterInit => BroadcasterIInv
<1> SUFFICES ASSUME BroadcasterInit PROVE BroadcasterIInv
  OBVIOUS
<1>1. BroadcasterTypeOK
  <2>1. /\ <<>> \in Seq(1 .. MaxEvents) /\ <<>> \in Seq(0 .. MaxEvents) /\ Len(<<>>) = 0
        /\ MaxEvents \in Nat /\ ChannelSize \in Nat \ {0} /\ Cardinality(Sub) \in Nat
    BY BroadcasterAssumption, DictNumbers
  <2>2. /\ registry \in 0 .. made /\ made \in 0 .. Cardinality(Sub)
        /\ view \in 0 .. Cardinality(Sub) /\ dict \in [Sub -> 0 .. made]
    BY <2>1 DEF BroadcasterInit
  <2>3. /\ published \in 0 .. MaxEvents /\ message \in 0 .. MaxEvents
        /\ lastReplayed \in [Sub -> 0 .. MaxEvents]
    BY <2>1 DEF BroadcasterInit
  <2>4. /\ channel \in [Sub -> Seq(0 .. MaxEvents)] /\ replay \in [Sub -> Seq(1 .. MaxEvents)]
        /\ delivered \in [Sub -> Seq(1 .. MaxEvents)] /\ buffer \in Seq(1 .. MaxEvents)
        /\ \A s \in Sub : Len(channel[s]) <= ChannelSize
    BY <2>1 DEF BroadcasterInit
  <2>5. members \in [Dict -> SUBSET Sub] /\ point \in [Sub -> SubPoint]
    BY DEF BroadcasterInit, SubPoint
  <2> QED
    BY <2>2, <2>3, <2>4, <2>5 DEF BroadcasterInit, BroadcasterTypeOK
<1>2. OrderOK
  BY DEF BroadcasterInit, OrderOK, BufferOK, MessageOK, ClientsOK, ClientOK, ReplayOK,
     DeliveredOK, ChannelOK, PendingOK, Awaits, Rising, EventsRise, UpTo, Below
<1>3. DictionaryOK
  <2>1. Joined = {}
    BY DEF BroadcasterInit, Joined
  <2>2. MadeByJoined
    BY <2>1, FS_EmptySet DEF BroadcasterInit, MadeByJoined
  <2> QED
    BY <2>2 DEF BroadcasterInit, DictionaryOK, MembersOfMade, MembersLeave, RegistryHeld
<1> QED
  BY <1>1, <1>2, <1>3 DEF BroadcasterIInv

LEMMA BroadcasterStep ==
  BroadcasterIInv /\ [BroadcasterNext]_broadcastVars => BroadcasterIInv'
<1> SUFFICES ASSUME BroadcasterIInv, [BroadcasterNext]_broadcastVars PROVE BroadcasterIInv'
  OBVIOUS
<1>1. BroadcasterTypeOK /\ OrderOK /\ DictionaryOK /\ MadeByJoined
  BY DEF BroadcasterIInv, DictionaryOK
<1>2. CASE Sender
  BY <1>1, <1>2, SenderTypes, SenderOrder, SenderDictionaries DEF BroadcasterIInv
<1>3. ASSUME NEW s \in Sub, Subscription(s) PROVE BroadcasterIInv'
  <2>1. OrderOK'
    BY <1>1, <1>3, MoveOrder, SnapshotOrder, ReplayOrder, ReadOrder, LeaveOrder DEF Subscription
  <2> QED
    BY <1>1, <1>3, <2>1, SubscriptionTypes, SubscriptionDictionaries DEF BroadcasterIInv
<1>4. CASE UNCHANGED broadcastVars
  <2>1. DictionaryOK'
    BY <1>1, <1>4, DictionaryFrame DEF broadcastVars, subVars
  <2>2. BroadcasterTypeOK'
    BY <1>1, <1>4 DEF broadcastVars, senderVars, subVars, BroadcasterTypeOK
  <2>3. OrderOK'
    BY <1>1, <1>4 DEF broadcastVars, senderVars, subVars, OrderOK, BufferOK, MessageOK, ClientsOK,
       ClientOK, ReplayOK, DeliveredOK, ChannelOK, PendingOK, Awaits
  <2> QED
    BY <2>1, <2>2, <2>3 DEF BroadcasterIInv
<1> QED
  BY <1>2, <1>3, <1>4 DEF BroadcasterNext

LEMMA BroadcasterInvariant == BroadcasterSpec => []BroadcasterIInv
<1> QED
  BY BroadcasterInitOK, BroadcasterStep, PTL DEF BroadcasterSpec

\* For every number of clients, whenever they come and go, and for every capacity:
\* what a client is sent is in order and without repetition although replay and live
\* channel overlap, and nothing is kept once all have left (SubscribeAsync).
THEOREM OrderedFanOut == BroadcasterSpec => []BroadcasterInv
<1>1. BroadcasterIInv => InOrderOnce
  BY DEF BroadcasterIInv, OrderOK, ClientsOK, ClientOK, DeliveredOK, Rising, InOrderOnce
<1>2. BroadcasterIInv => NothingKept
  <2> SUFFICES ASSUME BroadcasterIInv, \A s \in Sub : point[s] \in {"Idle", "Gone"},
                      registry # 0
               PROVE  FALSE
    BY DEF NothingKept
  <2>1. PICK h \in Sub : Holds(h)
    BY DEF BroadcasterIInv, DictionaryOK, RegistryHeld
  <2>2. h \in members[registry]
    BY <2>1 DEF Holds
  <2> QED
    BY <2>2 DEF BroadcasterIInv, DictionaryOK, MembersLeave
<1>3. BroadcasterIInv => BroadcasterInv
  BY <1>1, <1>2 DEF BroadcasterIInv, BroadcasterInv
<1> QED
  BY <1>3, BroadcasterInvariant, PTL

-----------------------------------------------------------------------------
(* Joining a running match: a second inductive invariant on top of the first *)

\* The events of a sequence of messages; a set of them without holes.
Events(q) == {q[i] : i \in DOMAIN q} \ {0}
Convex(A) == \A a, b \in A : a .. b \subseteq A

\* The buffer ends with the last event, from the first on and until it is cleared.
BufferFull ==
  /\ Convex(Events(buffer))
  /\ ~cleared /\ published > 0 => published \in Events(buffer)
  /\ cleared => buffer = <<>> /\ sending = "Idle"
  /\ sending # "Idle" => published > 0

\* Whom the fan-out may still write to, and who joined too late for the enumeration
\* under way to be bound to meet it.
Attached(s) ==
  \/ registry # 0 /\ s \in members[registry]
  \/ sending = "Enumerating" /\ s \in members[view]
Missed(s) ==
  /\ sending = "Enumerating" /\ registry # 0 /\ s \in members[registry]
  /\ s \notin visited /\ ~(s \in due /\ view = registry)

\* What was delivered to a client or will be without a further message: of its
\* channel, what is newer than all its replay.
Known(s) ==
  Events(delivered[s]) \cup Events(replay[s]) \cup
    {e \in Events(channel[s]) : e > lastReplayed[s] /\ \A r \in Events(replay[s]) : r < e}

\* The last event it must have been written.
Reach(s) == IF Awaits(s) THEN published - 1 ELSE published
Listens(s) == point[s] \in {"Replaying", "Live"}

\* A channel holds consecutive events up to the last one, or none.
ChannelFull(s) ==
  /\ Convex(Events(channel[s]))
  /\ Attached(s) /\ Events(channel[s]) # {} =>
       Reach(s) \in Events(channel[s]) /\ \A e \in Events(channel[s]) : e <= Reach(s)

\* So is what a client knows; it knows something once there is something to know.
KnownFull(s) ==
  /\ Convex(Events(delivered[s]))
  /\ Listens(s) => Convex(Known(s))
  /\ Listens(s) /\ Attached(s) =>
       \/ \E e \in Known(s) : e >= Reach(s)
       \/ Known(s) = {} /\ (cleared \/ Reach(s) = 0)

\* Who joined too late for an enumeration has got the event from the buffer.
LateOK(s) ==
  Missed(s) => /\ channel[s] = <<>>
               /\ Listens(s) => published \in Known(s)

\* Where a client is, what it has.
PlaceOK(s) ==
  /\ point[s] \in {"Idle", "Adding"} => channel[s] = <<>> /\ \A d \in Dict : s \notin members[d]
  /\ point[s] = "Live" => replay[s] = <<>>
  /\ lastReplayed[s] # 0 => lastReplayed[s] \in Events(delivered[s])

JoinOK(s) == PlaceOK(s) /\ LateOK(s) /\ (~dropped[s] => ChannelFull(s) /\ KnownFull(s))

ViewOK == sending = "Enumerating" => view \in Dict

JoinIInv == BroadcasterIInv /\ ViewOK /\ BufferFull /\ \A s \in Sub : JoinOK(s)

-----------------------------------------------------------------------------
(* Events of sequences, sets without holes *)

LEMMA EventsOf ==
  ASSUME NEW S \in SUBSET Nat, NEW q \in Seq(S)
  PROVE  /\ Events(q) \subseteq S \ {0} /\ Events(q) \subseteq Nat \ {0}
         /\ \A n \in Nat : UpTo(q, n) => \A e \in Events(q) : e <= n
         /\ \A n \in Nat : Below(q, n) => \A e \in Events(q) : e < n
<1>1. \A i \in DOMAIN q : q[i] \in S /\ q[i] \in Nat
  BY LenProperties
<1> QED
  BY <1>1 DEF Events, UpTo, Below

LEMMA NoEvents == Events(<<>>) = {}
  BY DEF Events

LEMMA EventsAppend ==
  ASSUME NEW S \in SUBSET Nat, NEW q \in Seq(S), NEW e \in S
  PROVE  Events(Append(q, e)) = Events(q) \cup ({e} \ {0})
<1>1. /\ Len(q) \in Nat /\ DOMAIN q = 1 .. Len(q) /\ DOMAIN Append(q, e) = 1 .. Len(q) + 1
      /\ \A i \in 1 .. Len(q) : Append(q, e)[i] = q[i]
      /\ Append(q, e)[Len(q) + 1] = e
      /\ \A i \in 1 .. Len(q) + 1 : i \in 1 .. Len(q) \/ i = Len(q) + 1
  BY AppendAt
<1>2. 1 .. Len(q) \subseteq 1 .. Len(q) + 1 /\ Len(q) + 1 \in 1 .. Len(q) + 1
  BY <1>1
<1> QED
  BY <1>1, <1>2, Zenon DEF Events

LEMMA EventsTail ==
  ASSUME NEW S \in SUBSET Nat, NEW q \in Seq(S), q # <<>>
  PROVE  /\ Tail(q) \in Seq(S) /\ Head(q) \in S
         /\ Events(q) = ({Head(q)} \ {0}) \cup Events(Tail(q))
         /\ Rising(q) \/ EventsRise(q) => \A e \in Events(Tail(q)) : Head(q) < e
<1>1. /\ Tail(q) \in Seq(S) /\ Head(q) \in S /\ Head(q) = q[1]
      /\ Len(q) \in Nat \ {0} /\ DOMAIN q = 1 .. Len(q) /\ DOMAIN Tail(q) = 1 .. Len(q) - 1
      /\ \A i \in 1 .. Len(q) - 1 : i + 1 \in 1 .. Len(q) /\ Tail(q)[i] = q[i + 1]
  BY TailAt
<1>2. 1 \in 1 .. Len(q) /\ \A i \in 1 .. Len(q) : i = 1 \/ \E k \in 1 .. Len(q) - 1 : i = k + 1
  <2>1. \A i \in 1 .. Len(q) : i # 1 => i - 1 \in 1 .. Len(q) - 1 /\ i = (i - 1) + 1
    BY <1>1
  <2> QED
    BY <1>1, <2>1
<1>3. Events(q) \subseteq ({Head(q)} \ {0}) \cup Events(Tail(q))
  <2> SUFFICES ASSUME NEW i \in 1 .. Len(q), q[i] # 0
               PROVE  q[i] \in ({Head(q)} \ {0}) \cup Events(Tail(q))
    BY <1>1 DEF Events
  <2>1. CASE i = 1
    BY <1>1, <2>1
  <2>2. CASE i # 1
    <3>1. PICK k \in 1 .. Len(q) - 1 : i = k + 1
      BY <1>2, <2>2
    <3>2. Tail(q)[k] = q[i] /\ k \in DOMAIN Tail(q)
      BY <1>1, <3>1
    <3> QED
      BY <3>2 DEF Events
  <2> QED
    BY <2>1, <2>2
<1>4. ({Head(q)} \ {0}) \cup Events(Tail(q)) \subseteq Events(q)
  BY <1>1, <1>2 DEF Events
<1>5. Rising(q) \/ EventsRise(q) => \A e \in Events(Tail(q)) : Head(q) < e
  BY TailOrder DEF Events
<1> QED
  BY <1>1, <1>3, <1>4, <1>5

\* One more at the end, one less at the start.
LEMMA ConvexMore ==
  ASSUME NEW A \in SUBSET Nat, NEW n \in Nat, Convex(A), \A a \in A : a <= n,
         A = {} \/ \E a \in A : a + 1 >= n
  PROVE  Convex(A \cup {n})
<1> SUFFICES ASSUME NEW a \in A \cup {n}, NEW b \in A \cup {n}, NEW e \in a .. b, e # n
             PROVE  e \in A
  BY DEF Convex
<1>1. a \in A /\ e \in Nat /\ e < n /\ a <= e
  OBVIOUS
<1>2. PICK c \in A : c + 1 >= n
  BY <1>1
<1>3. e \in a .. c
  BY <1>1, <1>2
<1> QED
  BY <1>1, <1>2, <1>3 DEF Convex

LEMMA ConvexLess ==
  ASSUME NEW A \in SUBSET Nat, NEW B, NEW n \in Nat, Convex(A),
         A = ({n} \ {0}) \cup B, \A e \in B : n < e
  PROVE  Convex(B)
<1> SUFFICES ASSUME NEW a \in B, NEW b \in B, NEW e \in a .. b
             PROVE  e \in B
  BY DEF Convex
<1>1. a \in Nat /\ b \in Nat /\ n < a /\ e \in A
  BY DEF Convex
<1> QED
  BY <1>1

-----------------------------------------------------------------------------
(* Frames *)

\* A step after which a client has no more than before.
LEMMA JoinFrame ==
  ASSUME NEW x \in Sub, JoinOK(x), published' = published, cleared => cleared',
         UNCHANGED <<lastReplayed[x], delivered[x], channel[x], dropped[x]>>,
         Listens(x)' => Listens(x) /\ replay'[x] = replay[x],
         point'[x] = "Live" => replay'[x] = <<>>,
         point'[x] \in {"Idle", "Adding"} =>
           /\ point[x] \in {"Idle", "Adding"}
           /\ \A d \in Dict : x \in members'[d] => x \in members[d],
         Attached(x)' => Attached(x) /\ (Awaits(x)' <=> Awaits(x)),
         Missed(x)' => Missed(x)
  PROVE  JoinOK(x)'
<1>1. PlaceOK(x)'
  BY DEF JoinOK, PlaceOK
<1>2. Listens(x)' => Known(x)' = Known(x)
  BY DEF Known
<1>3. LateOK(x)'
  BY <1>2 DEF JoinOK, LateOK
<1>4. Attached(x)' => Reach(x)' = Reach(x)
  BY DEF Reach
<1>5. ~dropped[x] => ChannelFull(x)'
  BY <1>4 DEF JoinOK, ChannelFull
<1>6. ~dropped[x] => KnownFull(x)'
  BY <1>2, <1>4 DEF JoinOK, KnownFull
<1> QED
  BY <1>1, <1>3, <1>5, <1>6 DEF JoinOK

\* Nobody is in a dictionary that was just made.
LEMMA RegistryStays ==
  ASSUME BroadcasterTypeOK, DictionaryOK, NEW s \in Sub, Subscription(s), NEW x \in Sub,
         \A d \in Dict : x \in members'[d] => x \in members[d],
         registry' # 0, x \in members'[registry']
  PROVE  registry' = registry /\ x \in members[registry]
<1>1. CASE GetOrAdd(s) /\ registry = 0
  <2>1. registry' = made + 1 /\ members' = members
    BY <1>1 DEF GetOrAdd
  <2>2. made + 1 \in Dict /\ made + 1 > made
    <3>1. made + 1 <= Cardinality(Sub)
      BY <1>1, RoomForOne DEF DictionaryOK
    <3>2. made \in Nat /\ Cardinality(Sub) \in Nat
      BY DictNumbers DEF BroadcasterTypeOK
    <3> QED
      BY <3>1, <3>2 DEF Dict
  <2>3. members[made + 1] = {}
    BY <2>2 DEF DictionaryOK, MembersOfMade
  <2> QED
    BY <2>1, <2>3
<1>2. CASE registry' = registry
  <2>1. registry \in Dict
    <3>1. registry \in Nat /\ registry \in 0 .. Cardinality(Sub)
      BY DictNumbers DEF BroadcasterTypeOK
    <3> QED
      BY <1>2, <3>1, DictNumbers
  <2> QED
    BY <1>2, <2>1
<1>3. registry' = registry \/ registry' = 0 \/ (GetOrAdd(s) /\ registry = 0)
  BY DEF Subscription, GetOrAdd, Register, Snapshot, ReplayOne, ReplayEnds, ReadLive,
     Leave, LeaveRemove, LeaveCheck, LeaveDrop
<1> QED
  BY <1>1, <1>2, <1>3

LEMMA SenderStill ==
  ASSUME NEW s \in Sub, Subscription(s)
  PROVE  UNCHANGED <<published, buffer, cleared, sending, message, view, due, visited, dropped>>
  BY DEF Subscription, GetOrAdd, Register, Snapshot, ReplayOne, ReplayEnds, ReadLive,
     Leave, LeaveRemove, LeaveCheck, LeaveDrop, senderVars

\* A step of a client's after which it, or another, has no more than before.
LEMMA MoveFrame ==
  ASSUME BroadcasterTypeOK, DictionaryOK, ViewOK, NEW s \in Sub, Subscription(s),
         NEW x \in Sub, JoinOK(x),
         UNCHANGED <<lastReplayed[x], delivered[x], channel[x]>>,
         \A d \in Dict : x \in members'[d] => x \in members[d],
         Listens(x)' => Listens(x) /\ replay'[x] = replay[x],
         point'[x] = "Live" => replay'[x] = <<>>,
         point'[x] \in {"Idle", "Adding"} => point[x] \in {"Idle", "Adding"}
  PROVE  JoinOK(x)'
<1>1. UNCHANGED <<published, buffer, cleared, sending, message, view, due, visited, dropped>>
  BY SenderStill
<1>2. registry' # 0 /\ x \in members'[registry'] => registry' = registry /\ x \in members[registry]
  BY RegistryStays
<1>3. Attached(x)' => Attached(x)
  BY <1>1, <1>2 DEF Attached, ViewOK
<1>4. (Awaits(x)' <=> Awaits(x)) /\ (Missed(x)' => Missed(x))
  BY <1>1, <1>2 DEF Awaits, Missed
<1> QED
  BY <1>1, <1>3, <1>4, JoinFrame

\* The step of another client.
LEMMA OtherJoins ==
  ASSUME BroadcasterTypeOK, DictionaryOK, ViewOK, NEW s \in Sub, Subscription(s),
         NEW x \in Sub \ {s}, JoinOK(x)
  PROVE  JoinOK(x)'
<1>1. UNCHANGED <<point[x], replay[x], lastReplayed[x], delivered[x], channel[x]>>
  BY DEF Subscription, GetOrAdd, Register, Snapshot, ReplayOne, ReplayEnds, ReadLive, Leave,
     LeaveRemove, LeaveCheck, LeaveDrop, Move, BroadcasterTypeOK
<1>2. \A d \in Dict : x \in members'[d] => x \in members[d]
  <2>1. \/ members' = members
        \/ members' = [members EXCEPT ![dict[s]] = @ \cup {s}]
        \/ members' = [members EXCEPT ![dict[s]] = @ \ {s}]
    BY DEF Subscription, GetOrAdd, Register, Snapshot, ReplayOne, ReplayEnds, ReadLive,
       Leave, LeaveRemove, LeaveCheck, LeaveDrop
  <2>2. members \in [Dict -> SUBSET Sub] /\ x # s
    BY DEF BroadcasterTypeOK
  <2>3. CASE members' = [members EXCEPT ![dict[s]] = @ \cup {s}]
    BY <2>2, <2>3
  <2>4. CASE members' = [members EXCEPT ![dict[s]] = @ \ {s}]
    BY <2>2, <2>4
  <2> QED
    BY <2>1, <2>3, <2>4
<1>3. /\ Listens(x)' => Listens(x) /\ replay'[x] = replay[x]
      /\ point'[x] = "Live" => replay'[x] = <<>>
  BY <1>1 DEF Listens, JoinOK, PlaceOK
<1> QED
  BY <1>1, <1>2, <1>3, MoveFrame

-----------------------------------------------------------------------------
(* The broadcasting thread *)

LEMMA ViewStep ==
  ASSUME BroadcasterTypeOK, ViewOK, BroadcasterNext
  PROVE  ViewOK'
<1>1. CASE LookUp
  <2>1. registry \in 0 .. Cardinality(Sub) /\ registry \in Nat
    BY DictNumbers DEF BroadcasterTypeOK
  <2>2. registry # 0 => registry \in Dict
    BY <2>1, DictNumbers
  <2> QED
    BY <1>1, <2>2 DEF LookUp, ViewOK
<1>2. ASSUME NEW s \in Sub, WriteTo(s) PROVE ViewOK'
  BY <1>2 DEF WriteTo, ViewOK
<1>3. CASE RecordEvent \/ Trim \/ SendStatistics \/ EnumerationEnds \/ ClearReplayBuffer
  BY <1>3 DEF RecordEvent, Trim, SendStatistics, EnumerationEnds, ClearReplayBuffer, ViewOK
<1>4. ASSUME NEW s \in Sub, Subscription(s) PROVE ViewOK'
  <2>1. UNCHANGED senderVars
    BY <1>4 DEF Subscription, GetOrAdd, Register, Snapshot, ReplayOne, ReplayEnds, ReadLive,
       Leave, LeaveRemove, LeaveCheck, LeaveDrop
  <2> QED
    BY <2>1 DEF senderVars, ViewOK
<1> QED
  BY <1>1, <1>2, <1>3, <1>4 DEF BroadcasterNext, Sender

LEMMA BufferStep ==
  ASSUME BroadcasterTypeOK, OrderOK, BufferFull, BroadcasterNext
  PROVE  BufferFull'
<1>1. /\ buffer \in Seq(1 .. MaxEvents) /\ 1 .. MaxEvents \in SUBSET Nat /\ published \in Nat
      /\ Rising(buffer) /\ UpTo(buffer, published)
  BY Ranges DEF OrderOK, BufferOK
<1>2. Events(buffer) \in SUBSET Nat /\ \A e \in Events(buffer) : e <= published /\ e > 0
  <2>1. Events(buffer) \subseteq Nat \ {0} /\ \A e \in Events(buffer) : e <= published
    BY <1>1, EventsOf
  <2> QED
    BY <2>1
<1>3. CASE RecordEvent
  <2>1. /\ published' = published + 1 /\ buffer' = Append(buffer, published + 1) /\ ~cleared
        /\ cleared' = cleared /\ sending = "Idle" /\ published + 1 \in 1 .. MaxEvents
    <3>1. MaxEvents \in Nat /\ published < MaxEvents
      BY <1>3, BroadcasterAssumption DEF RecordEvent
    <3> QED
      BY <1>1, <1>3, <3>1 DEF RecordEvent
  <2>2. Events(buffer') = Events(buffer) \cup {published + 1}
    <3>1. \A n \in 1 .. MaxEvents : Events(Append(buffer, n)) = Events(buffer) \cup ({n} \ {0})
      BY <1>1, EventsAppend
    <3>2. Events(Append(buffer, published + 1)) = Events(buffer) \cup ({published + 1} \ {0})
      BY <2>1, <3>1
    <3>3. Events(buffer') = Events(Append(buffer, published + 1))
      BY <2>1
    <3> QED
      BY <1>1, <3>2, <3>3
  <2>3. Events(buffer) = {} \/ published \in Events(buffer)
    BY <1>1, <1>2, <2>1 DEF BufferFull
  <2>4. Convex(Events(buffer'))
    <3>1. /\ \A e \in Events(buffer) : e <= published + 1
          /\ Events(buffer) = {} \/ \E e \in Events(buffer) : e + 1 >= published + 1
      BY <1>1, <1>2, <2>3
    <3> QED
      BY <1>1, <1>2, <2>2, <3>1, ConvexMore DEF BufferFull
  <2> QED
    BY <1>1, <2>1, <2>2, <2>4 DEF BufferFull
<1>4. CASE Trim
  <2>1. published' = published /\ cleared' = cleared /\ sending = "Trimming"
    BY <1>4 DEF Trim
  <2>2. CASE Len(buffer) > ReplaySize
    <3>1. /\ buffer # <<>> /\ buffer' = Tail(buffer)
          /\ Len(buffer) \in Nat /\ Len(buffer) - 1 > 0
      BY <1>1, <1>4, <2>2, BroadcasterAssumption, LenProperties DEF Trim
    <3>2. /\ Events(buffer) = ({Head(buffer)} \ {0}) \cup Events(buffer')
          /\ \A e \in Events(buffer') : Head(buffer) < e
          /\ Head(buffer) \in Nat /\ buffer' \in Seq(1 .. MaxEvents)
      BY <1>1, <3>1, EventsTail
    <3>3. Convex(Events(buffer'))
      BY <1>2, <3>2, ConvexLess DEF BufferFull
    <3>4. published \in Events(buffer')
      <4>1. published \in Events(buffer)
        BY <2>1 DEF BufferFull
      <4>2. \E e \in Events(buffer') : e \in Events(buffer)
        <5>1. 1 \in DOMAIN buffer' /\ buffer'[1] \in 1 .. MaxEvents
          <6>1. DOMAIN buffer' = 1 .. Len(buffer) - 1
            BY <1>1, <3>1, TailAt
          <6>2. 1 \in DOMAIN buffer'
            BY <3>1, <6>1
          <6>3. buffer' \in [DOMAIN buffer' -> 1 .. MaxEvents]
            BY <3>2, LenProperties
          <6> QED
            BY <6>2, <6>3
        <5>2. buffer'[1] \in Events(buffer')
          BY <5>1 DEF Events
        <5> QED
          BY <3>2, <5>2
      <4> QED
        BY <1>1, <1>2, <3>2, <4>1, <4>2
    <3> QED
      BY <2>1, <3>3, <3>4 DEF BufferFull
  <2>3. CASE ~(Len(buffer) > ReplaySize)
    BY <1>4, <2>1, <2>3 DEF Trim, BufferFull
  <2> QED
    BY <2>2, <2>3
<1>5. CASE ClearReplayBuffer
  BY <1>5, NoEvents DEF ClearReplayBuffer, BufferFull, Convex
<1>6. ASSUME UNCHANGED <<published, buffer, cleared>>, sending' # "Idle" => ~cleared /\ published > 0
      PROVE  BufferFull'
  BY <1>6 DEF BufferFull
<1>7. CASE SendStatistics \/ LookUp \/ EnumerationEnds
  BY <1>6, <1>7 DEF SendStatistics, LookUp, EnumerationEnds, BufferFull
<1>8. ASSUME NEW s \in Sub, WriteTo(s) PROVE BufferFull'
  BY <1>6, <1>8 DEF WriteTo, BufferFull
<1>9. ASSUME NEW s \in Sub, Subscription(s) PROVE BufferFull'
  <2>1. UNCHANGED senderVars
    BY <1>9 DEF Subscription, GetOrAdd, Register, Snapshot, ReplayOne, ReplayEnds, ReadLive,
       Leave, LeaveRemove, LeaveCheck, LeaveDrop
  <2> QED
    BY <2>1 DEF senderVars, BufferFull
<1> QED
  BY <1>3, <1>4, <1>5, <1>7, <1>8, <1>9 DEF BroadcasterNext, Sender

\* What a client has and knows, as numbers.
LEMMA JoinRanges ==
  ASSUME BroadcasterTypeOK, OrderOK, NEW x \in Sub
  PROVE  /\ published \in Nat /\ message \in {0, published} /\ lastReplayed[x] \in Nat
         /\ Events(delivered[x]) \in SUBSET Nat /\ Events(replay[x]) \in SUBSET Nat
         /\ Events(channel[x]) \in SUBSET Nat /\ Known(x) \in SUBSET Nat
         /\ \A e \in Events(delivered[x]) \cup Events(replay[x]) \cup Events(channel[x]) :
              e > 0 /\ e <= published
         /\ \A e \in Known(x) : e > 0 /\ e <= published
<1>1. /\ published \in Nat /\ message \in {0, published} /\ lastReplayed[x] \in Nat
      /\ UpTo(delivered[x], published) /\ UpTo(replay[x], published) /\ UpTo(channel[x], published)
  BY Ranges DEF OrderOK, MessageOK, ClientsOK, ClientOK, ReplayOK, DeliveredOK, ChannelOK
<1>2. /\ Events(delivered[x]) \subseteq Nat \ {0} /\ Events(replay[x]) \subseteq Nat \ {0}
      /\ Events(channel[x]) \subseteq Nat \ {0}
      /\ \A e \in Events(delivered[x]) : e <= published
      /\ \A e \in Events(replay[x]) : e <= published
      /\ \A e \in Events(channel[x]) : e <= published
  BY <1>1, Ranges, EventsOf
<1>3. Known(x) \subseteq Events(delivered[x]) \cup Events(replay[x]) \cup Events(channel[x])
  BY DEF Known
<1> QED
  BY <1>1, <1>2, <1>3

LEMMA RecordJoins ==
  ASSUME BroadcasterTypeOK, OrderOK, BufferFull, RecordEvent, NEW x \in Sub, JoinOK(x)
  PROVE  JoinOK(x)'
<1>1. /\ published' = published + 1 /\ message' = published + 1 /\ ~cleared /\ cleared' = cleared
      /\ sending = "Idle" /\ sending' = "Trimming"
      /\ UNCHANGED <<point, replay, lastReplayed, delivered, channel, dropped, members, registry>>
      /\ published \in Nat
  BY Ranges DEF RecordEvent, SubFrame, subVars
<1>2. Reach(x) = published /\ Reach(x)' = published /\ Awaits(x)' /\ ~Awaits(x)
  BY <1>1 DEF Reach, Awaits
<1>3. Attached(x)' = Attached(x) /\ ~Missed(x)' /\ Known(x)' = Known(x) /\ Listens(x)' = Listens(x)
  BY <1>1 DEF Attached, Missed, Known, Listens
<1>4. PlaceOK(x)' /\ LateOK(x)'
  BY <1>1, <1>3 DEF JoinOK, PlaceOK, LateOK
<1>5. ~dropped[x] => ChannelFull(x)'
  BY <1>1, <1>2, <1>3 DEF JoinOK, ChannelFull
<1>6. ~dropped[x] => KnownFull(x)'
  BY <1>1, <1>2, <1>3 DEF JoinOK, KnownFull
<1> QED
  BY <1>1, <1>4, <1>5, <1>6 DEF JoinOK

LEMMA EnumerationJoins ==
  ASSUME BroadcasterTypeOK, OrderOK, BufferFull, EnumerationEnds, NEW x \in Sub, JoinOK(x)
  PROVE  JoinOK(x)'
<1>1. /\ sending = "Enumerating" /\ sending' = "Idle" /\ due \cap members[view] \subseteq visited
      /\ UNCHANGED <<point, replay, lastReplayed, delivered, channel, dropped, members, registry,
                     published, cleared, message>>
  BY DEF EnumerationEnds, SubFrame, subVars
<1>2. ~Awaits(x)' /\ ~Missed(x)' /\ (Attached(x)' => registry # 0 /\ x \in members[registry])
  BY <1>1 DEF Awaits, Missed, Attached
<1>3. CASE Attached(x)' /\ Awaits(x)
  <2>1. Missed(x)
    BY <1>1, <1>2, <1>3 DEF Missed, Awaits
  <2>2. channel[x] = <<>> /\ (Listens(x) => published \in Known(x))
    BY <2>1 DEF JoinOK, LateOK
  <2>3. Events(channel[x]) = {}
    BY <2>2, NoEvents
  <2>4. Known(x)' = Known(x) /\ Reach(x)' = published /\ published \in Nat /\ Listens(x)' = Listens(x)
    BY <1>1, <1>2, Ranges DEF Known, Reach, Listens
  <2>5. ChannelFull(x)'
    BY <1>1, <2>3 DEF ChannelFull, Convex
  <2>6. ~dropped[x] => KnownFull(x)'
    BY <1>1, <2>2, <2>4 DEF JoinOK, KnownFull
  <2>7. PlaceOK(x)' /\ LateOK(x)'
    BY <1>1, <1>2 DEF JoinOK, PlaceOK, LateOK
  <2> QED
    BY <1>1, <2>5, <2>6, <2>7 DEF JoinOK
<1>4. CASE ~(Attached(x)' /\ Awaits(x))
  <2>1. Attached(x)' => Attached(x) /\ (Awaits(x)' <=> Awaits(x))
    BY <1>2, <1>4 DEF Attached
  <2>2. /\ Listens(x)' => Listens(x) /\ replay'[x] = replay[x]
        /\ point'[x] = "Live" => replay'[x] = <<>>
    BY <1>1 DEF Listens, JoinOK, PlaceOK
  <2> QED
    BY <1>1, <1>2, <2>1, <2>2, JoinFrame
<1> QED
  BY <1>3, <1>4

\* A message written to a client extends its channel and what it knows by one.
LEMMA WriteJoins ==
  ASSUME BroadcasterTypeOK, OrderOK, ViewOK, NEW s \in Sub, WriteTo(s), JoinOK(s)
  PROVE  JoinOK(s)'
<1>1. /\ sending = "Enumerating" /\ sending' = sending /\ s \in members[view] /\ s \notin visited
      /\ visited' = visited \cup {s} /\ view \in Dict
      /\ UNCHANGED <<point, replay, lastReplayed, delivered, published, message, members, registry,
                     view, due, cleared>>
  BY DEF WriteTo, SubFrame, subVars, ViewOK
<1>2. Attached(s) /\ ~Awaits(s)' /\ ~Missed(s)' /\ Listens(s)' = Listens(s)
  BY <1>1 DEF Attached, Awaits, Missed, Listens
<1>3. PlaceOK(s)' /\ LateOK(s)'
  BY <1>1, <1>2 DEF JoinOK, PlaceOK, LateOK
<1>4. ASSUME ~dropped'[s] PROVE ChannelFull(s)' /\ KnownFull(s)'
  <2>1. channel'[s] = Append(channel[s], message) /\ ~dropped[s]
    BY <1>4 DEF WriteTo, BroadcasterTypeOK
  <2>2. ChannelFull(s) /\ KnownFull(s)
    BY <2>1 DEF JoinOK
  <2>3. /\ published \in Nat /\ message \in {0, published} /\ lastReplayed[s] \in Nat
        /\ Events(delivered[s]) \in SUBSET Nat /\ Events(replay[s]) \in SUBSET Nat
        /\ Events(channel[s]) \in SUBSET Nat /\ Known(s) \in SUBSET Nat
        /\ \A e \in Events(delivered[s]) \cup Events(replay[s]) \cup Events(channel[s]) :
             e > 0 /\ e <= published
        /\ \A e \in Known(s) : e > 0 /\ e <= published
    BY JoinRanges
  <2>4. Events(channel'[s]) = Events(channel[s]) \cup ({message} \ {0})
    <3>1. \A n \in 0 .. MaxEvents : Events(Append(channel[s], n)) = Events(channel[s]) \cup ({n} \ {0})
      BY Ranges, EventsAppend
    <3> QED
      BY <2>1, <3>1, Ranges
  <2>5. CASE message = 0
    <3>1. Events(channel'[s]) = Events(channel[s]) /\ ~Awaits(s)
      BY <2>4, <2>5 DEF Awaits
    <3>2. Known(s)' = Known(s) /\ Reach(s)' = Reach(s)
      BY <1>1, <1>2, <3>1 DEF Known, Reach
    <3> QED
      BY <1>1, <1>2, <2>2, <3>1, <3>2 DEF ChannelFull, KnownFull
  <2>6. CASE message # 0
    <3>1. /\ message = published /\ published > 0 /\ Awaits(s)
          /\ Reach(s) = published - 1 /\ Reach(s)' = published
          /\ Events(channel'[s]) = Events(channel[s]) \cup {published}
      BY <1>1, <1>2, <2>3, <2>4, <2>6 DEF Awaits, Reach
    <3>2. ChannelFull(s)'
      <4>1. Events(channel[s]) = {} \/ \E e \in Events(channel[s]) : e + 1 >= published
        BY <1>2, <2>2, <2>3, <3>1 DEF ChannelFull
      <4>2. \A e \in Events(channel[s]) : e <= published
        BY <2>3
      <4>3. Convex(Events(channel[s]) \cup {published})
        BY <2>2, <2>3, <4>1, <4>2, ConvexMore DEF ChannelFull
      <4> QED
        BY <2>3, <3>1, <4>2, <4>3 DEF ChannelFull
    <3>3. /\ Convex(Events(delivered'[s]))
          /\ Convex(Events(delivered[s]))
      BY <1>1, <2>2 DEF KnownFull
    <3>4. ASSUME Listens(s) PROVE Convex(Known(s)') /\ published \in Known(s)'
      <4> DEFINE newer == published > lastReplayed[s] /\ \A r \in Events(replay[s]) : r < published
      <4>1. CASE newer
        <5>1. Known(s)' = Known(s) \cup {published}
          BY <1>1, <3>1, <4>1 DEF Known
        <5>2. Known(s) = {} \/ \E e \in Known(s) : e + 1 >= published
          BY <1>2, <2>2, <2>3, <3>1, <3>4 DEF KnownFull
        <5>3. \A e \in Known(s) : e <= published
          BY <2>3
        <5> QED
          BY <2>2, <2>3, <3>4, <5>1, <5>2, <5>3, ConvexMore DEF KnownFull
      <4>2. CASE ~newer
        <5>1. Known(s)' = Known(s)
          BY <1>1, <3>1, <4>2 DEF Known
        <5>2. CASE ~(published > lastReplayed[s])
          <6>1. lastReplayed[s] # 0
            BY <2>3, <3>1, <5>2
          <6>2. lastReplayed[s] \in Events(delivered[s])
            BY <6>1 DEF JoinOK, PlaceOK
          <6>3. lastReplayed[s] = published
            BY <2>3, <5>2, <6>2
          <6> QED
            BY <2>2, <3>4, <5>1, <6>2, <6>3 DEF KnownFull, Known
        <5>3. CASE \E r \in Events(replay[s]) : ~(r < published)
          <6>1. PICK r \in Events(replay[s]) : ~(r < published)
            BY <5>3
          <6>2. r = published
            BY <2>3, <6>1
          <6> QED
            BY <2>2, <3>4, <5>1, <6>1, <6>2 DEF KnownFull, Known
        <5> QED
          BY <4>2, <5>2, <5>3
      <4> QED
        BY <4>1, <4>2
    <3>5. KnownFull(s)'
      BY <1>2, <2>3, <3>1, <3>3, <3>4 DEF KnownFull
    <3> QED
      BY <3>2, <3>5
  <2> QED
    BY <2>5, <2>6
<1> QED
  BY <1>3, <1>4 DEF JoinOK

LEMMA SenderJoins ==
  ASSUME BroadcasterTypeOK, OrderOK, ViewOK, BufferFull, Sender, NEW x \in Sub, JoinOK(x)
  PROVE  JoinOK(x)'
<1>1. CASE RecordEvent
  BY <1>1, RecordJoins
<1>2. CASE EnumerationEnds
  BY <1>2, EnumerationJoins
<1>3. ASSUME NEW s \in Sub, WriteTo(s) PROVE JoinOK(x)'
  <2>1. CASE x = s
    BY <1>3, <2>1, WriteJoins
  <2>2. CASE x # s
    <3>1. /\ UNCHANGED <<point, replay, lastReplayed, delivered, published, message, members,
                         registry, view, due, cleared, sending>>
          /\ channel'[x] = channel[x] /\ dropped'[x] = dropped[x]
          /\ visited' = visited \cup {s}
      BY <1>3, <2>2 DEF WriteTo, SubFrame, subVars, BroadcasterTypeOK
    <3>2. (Awaits(x)' <=> Awaits(x)) /\ (Missed(x)' => Missed(x)) /\ (Attached(x)' => Attached(x))
      BY <2>2, <3>1 DEF Awaits, Missed, Attached
    <3>3. /\ Listens(x)' => Listens(x) /\ replay'[x] = replay[x]
          /\ point'[x] = "Live" => replay'[x] = <<>>
      BY <3>1 DEF Listens, JoinOK, PlaceOK
    <3> QED
      BY <3>1, <3>2, <3>3, JoinFrame
  <2> QED
    BY <2>1, <2>2
<1>4. CASE Trim \/ SendStatistics \/ LookUp \/ ClearReplayBuffer
  <2>1. UNCHANGED <<point, replay, lastReplayed, delivered, channel, dropped, members, registry,
                    published>>
    BY <1>4 DEF Trim, SendStatistics, LookUp, ClearReplayBuffer, SubFrame, subVars
  <2>2. cleared => cleared'
    BY <1>4 DEF Trim, SendStatistics, LookUp, ClearReplayBuffer
  <2>3. (Attached(x)' => Attached(x) /\ (Awaits(x)' <=> Awaits(x))) /\ ~Missed(x)'
    BY <1>4 DEF Trim, SendStatistics, LookUp, ClearReplayBuffer, SubFrame, subVars, Attached,
       Awaits, Missed
  <2>4. /\ Listens(x)' => Listens(x) /\ replay'[x] = replay[x]
        /\ point'[x] = "Live" => replay'[x] = <<>>
    BY <2>1 DEF Listens, JoinOK, PlaceOK
  <2> QED
    BY <2>1, <2>2, <2>3, <2>4, JoinFrame
<1> QED
  BY <1>1, <1>2, <1>3, <1>4 DEF Sender

-----------------------------------------------------------------------------
(* The client's own steps *)

LEMMA MoveJoins ==
  ASSUME BroadcasterTypeOK, DictionaryOK, ViewOK, NEW s \in Sub, JoinOK(s), Subscription(s),
         \/ GetOrAdd(s) \/ ReplayEnds(s) \/ Leave(s)
         \/ LeaveRemove(s) \/ LeaveCheck(s) \/ LeaveDrop(s)
  PROVE  JoinOK(s)'
<1>1. UNCHANGED <<lastReplayed[s], delivered[s], channel[s]>>
  BY DEF GetOrAdd, ReplayEnds, Leave, LeaveRemove, LeaveCheck, LeaveDrop
<1>2. \A d \in Dict : s \in members'[d] => s \in members[d]
  BY DEF GetOrAdd, ReplayEnds, Leave, LeaveRemove, LeaveCheck, LeaveDrop, BroadcasterTypeOK
<1>3. /\ Listens(s)' => Listens(s) /\ replay'[s] = replay[s]
      /\ point'[s] = "Live" => replay'[s] = <<>>
      /\ point'[s] \in {"Idle", "Adding"} => point[s] \in {"Idle", "Adding"}
  BY DEF GetOrAdd, ReplayEnds, Leave, LeaveRemove, LeaveCheck, LeaveDrop, Move, Listens,
     BroadcasterTypeOK
<1> QED
  BY <1>1, <1>2, <1>3, MoveFrame

LEMMA RegisterJoins ==
  ASSUME BroadcasterTypeOK, NEW s \in Sub, JoinOK(s), Register(s)
  PROVE  JoinOK(s)'
<1>1. /\ point[s] = "Adding" /\ point'[s] = "Snapshotting"
      /\ UNCHANGED <<replay, lastReplayed, delivered, channel, dropped>>
  BY DEF Register, Move, BroadcasterTypeOK
<1>2. channel'[s] = <<>> /\ Events(channel'[s]) = {}
  BY <1>1, NoEvents DEF JoinOK, PlaceOK
<1>3. ~Listens(s)'
  BY <1>1 DEF Listens
<1>4. PlaceOK(s)' /\ LateOK(s)'
  BY <1>1, <1>2, <1>3 DEF JoinOK, PlaceOK, LateOK
<1>5. ~dropped[s] => ChannelFull(s)' /\ KnownFull(s)'
  BY <1>1, <1>2, <1>3 DEF JoinOK, ChannelFull, KnownFull, Convex
<1> QED
  BY <1>1, <1>4, <1>5 DEF JoinOK

\* The buffer ends with the last event, so nothing of the channel is newer.
LEMMA SnapshotJoins ==
  ASSUME BroadcasterTypeOK, OrderOK, BufferFull, NEW s \in Sub, JoinOK(s), Snapshot(s)
  PROVE  JoinOK(s)'
<1>1. /\ point[s] = "Snapshotting" /\ point'[s] = "Replaying" /\ replay'[s] = buffer
      /\ UNCHANGED <<lastReplayed, delivered, channel, dropped, registry, members, senderVars>>
  BY DEF Snapshot, Move, BroadcasterTypeOK
<1>2. /\ published' = published /\ cleared' = cleared /\ sending' = sending /\ view' = view
      /\ message' = message /\ visited' = visited /\ due' = due
  BY <1>1 DEF senderVars
<1>3. /\ Attached(s)' = Attached(s) /\ Missed(s)' = Missed(s) /\ Reach(s)' = Reach(s)
      /\ Awaits(s)' = Awaits(s) /\ Listens(s)'
  BY <1>1, <1>2 DEF Attached, Missed, Awaits, Reach, Listens
<1>4. lastReplayed[s] = 0 /\ Events(delivered[s]) = {}
  <2>1. lastReplayed[s] = 0 /\ UpTo(delivered[s], 0)
    BY <1>1 DEF OrderOK, ClientsOK, ClientOK, ReplayOK
  <2>2. /\ \A e \in Events(delivered[s]) : e <= 0
        /\ Events(delivered[s]) \subseteq Nat \ {0}
    BY <2>1, Ranges, EventsOf
  <2> QED
    BY <2>1, <2>2
<1>5. /\ published \in Nat /\ Events(buffer) \in SUBSET Nat /\ Events(channel[s]) \in SUBSET Nat
      /\ \A e \in Events(channel[s]) : e > 0 /\ e <= published
      /\ \A e \in Events(buffer) : e <= published
  <2>1. UpTo(buffer, published)
    BY DEF OrderOK, BufferOK
  <2>2. /\ Events(buffer) \subseteq Nat \ {0}
        /\ \A e \in Events(buffer) : e <= published
    BY <2>1, Ranges, EventsOf
  <2> QED
    BY <2>2, JoinRanges
<1>6. Known(s)' = Events(buffer) \cup
                    {e \in Events(channel[s]) : e > 0 /\ \A r \in Events(buffer) : r < e}
  BY <1>1, <1>4 DEF Known
<1>7. PlaceOK(s)'
  BY <1>1 DEF JoinOK, PlaceOK
<1>8. CASE ~cleared /\ published > 0
  <2>1. published \in Events(buffer) /\ Convex(Events(buffer))
    BY <1>8 DEF BufferFull
  <2>2. Known(s)' = Events(buffer)
    BY <1>5, <1>6, <2>1
  <2>3. LateOK(s)'
    BY <1>1, <1>2, <1>3, <2>1, <2>2 DEF JoinOK, LateOK
  <2>4. ~dropped[s] => ChannelFull(s)'
    BY <1>1, <1>3 DEF JoinOK, ChannelFull
  <2>5. published >= Reach(s)
    BY <1>5 DEF Reach
  <2>6. ~dropped[s] => KnownFull(s)'
    BY <1>1, <1>3, <2>1, <2>2, <2>5 DEF JoinOK, KnownFull
  <2> QED
    BY <1>1, <1>7, <2>3, <2>4, <2>6 DEF JoinOK
<1>9. CASE cleared \/ published = 0
  <2>1. Events(buffer) = {} /\ sending = "Idle"
    <3>1. CASE cleared
      BY <3>1, NoEvents DEF BufferFull
    <3>2. CASE published = 0
      <4>1. \A e \in Events(buffer) : e <= 0 /\ e # 0
        BY <1>5, <3>2 DEF Events
      <4> QED
        BY <1>5, <3>2, <4>1 DEF BufferFull
    <3> QED
      BY <1>9, <3>1, <3>2
  <2>2. Known(s)' = Events(channel[s])
    BY <1>5, <1>6, <2>1
  <2>3. ~Missed(s)' /\ Reach(s) = published
    BY <1>3, <2>1 DEF Missed, Reach, Awaits
  <2>4. LateOK(s)'
    BY <2>3 DEF LateOK
  <2>5. ~dropped[s] => ChannelFull(s)'
    BY <1>1, <1>3 DEF JoinOK, ChannelFull
  <2>6. ~dropped[s] => KnownFull(s)'
    <3> SUFFICES ASSUME ~dropped[s] PROVE KnownFull(s)'
      OBVIOUS
    <3>1. Convex(Events(delivered'[s])) /\ Convex(Known(s)')
      BY <1>1, <1>4, <2>2 DEF JoinOK, ChannelFull, Convex
    <3>2. Attached(s)' => \/ \E e \in Known(s)' : e >= Reach(s)'
                          \/ Known(s)' = {} /\ (cleared' \/ Reach(s)' = 0)
      <4>1. CASE Attached(s) /\ Events(channel[s]) # {}
        <5>1. published \in Events(channel[s])
          BY <2>3, <4>1 DEF JoinOK, ChannelFull
        <5> QED
          BY <1>3, <1>5, <2>2, <2>3, <5>1
      <4>2. CASE Events(channel[s]) = {}
        BY <1>2, <1>3, <1>9, <2>2, <2>3, <4>2
      <4> QED
        BY <1>3, <4>1, <4>2
    <3> QED
      BY <3>1, <3>2 DEF KnownFull
  <2> QED
    BY <1>1, <1>7, <2>4, <2>5, <2>6 DEF JoinOK
<1> QED
  BY <1>5, <1>8, <1>9

\* A step that yields what was known, in its turn.
LEMMA YieldFrame ==
  ASSUME BroadcasterTypeOK, OrderOK, NEW s \in Sub, JoinOK(s), Listens(s), PlaceOK(s)',
         UNCHANGED <<senderVars, registry, members, point, dropped>>,
         Known(s)' = Known(s),
         NEW h \in Nat,
         \/ delivered'[s] = delivered[s]
         \/ /\ Events(delivered'[s]) = Events(delivered[s]) \cup ({h} \ {0})
            /\ h \in Known(s)
            /\ \A e \in Known(s) : e \notin Events(delivered[s]) => h <= e
            /\ \A e \in Events(delivered[s]) : e < h,
         channel[s] = <<>> => channel'[s] = <<>>,
         ChannelFull(s) => ChannelFull(s)'
  PROVE  JoinOK(s)'
<1>1. /\ Attached(s)' = Attached(s) /\ Missed(s)' = Missed(s) /\ Reach(s)' = Reach(s)
      /\ Listens(s)' = Listens(s) /\ published' = published /\ cleared' = cleared
  BY DEF senderVars, Attached, Missed, Awaits, Reach, Listens
<1>2. LateOK(s)'
  BY <1>1 DEF JoinOK, LateOK
<1>3. ~dropped[s] => Convex(Events(delivered'[s]))
  <2> SUFFICES ASSUME ~dropped[s] PROVE Convex(Events(delivered'[s]))
    OBVIOUS
  <2>1. Convex(Events(delivered[s])) /\ Convex(Known(s)) /\ Known(s) \in SUBSET Nat
    BY JoinRanges DEF JoinOK, KnownFull
  <2>2. CASE delivered'[s] # delivered[s]
    <3>1. /\ Events(delivered'[s]) = Events(delivered[s]) \cup ({h} \ {0}) /\ h \in Known(s)
          /\ \A e \in Known(s) : e \notin Events(delivered[s]) => h <= e
          /\ \A e \in Events(delivered[s]) : e < h
      BY <2>2
    <3>2. Events(delivered[s]) \subseteq Known(s)
      BY DEF Known
    <3> SUFFICES ASSUME NEW a \in Events(delivered'[s]), NEW b \in Events(delivered'[s]),
                        NEW e \in a .. b, e \notin Events(delivered[s])
                 PROVE  e \in Events(delivered'[s])
      BY DEF Convex
    <3>3. a \in Known(s) /\ b \in Known(s) /\ a \in Nat /\ b \in Nat /\ e \in Nat
      BY <2>1, <3>1, <3>2
    <3>4. e \in Known(s) /\ h <= e
      BY <2>1, <3>1, <3>3 DEF Convex
    <3>5. b = h \/ b \in Events(delivered[s])
      BY <3>1
    <3>6. CASE b = h
      <4>1. e = h
        BY <3>4, <3>6
      <4> QED
        BY <3>6, <4>1
    <3>7. CASE b \in Events(delivered[s])
      <4>1. a = h \/ a \in Events(delivered[s])
        BY <3>1
      <4>2. CASE a \in Events(delivered[s])
        BY <2>1, <3>7, <4>2 DEF Convex
      <4>3. CASE a = h
        BY <3>1, <3>3, <3>7, <4>3
      <4> QED
        BY <4>1, <4>2, <4>3
    <3> QED
      BY <3>5, <3>6, <3>7
  <2> QED
    BY <2>1, <2>2
<1>4. ~dropped[s] => ChannelFull(s)' /\ KnownFull(s)'
  BY <1>1, <1>3 DEF JoinOK, KnownFull
<1> QED
  BY <1>2, <1>4 DEF JoinOK

LEMMA ReplayJoins ==
  ASSUME BroadcasterTypeOK, OrderOK, NEW s \in Sub, JoinOK(s), ReplayOne(s)
  PROVE  JoinOK(s)'
<1>1. /\ UNCHANGED <<senderVars, registry, members, point, dropped, channel>>
      /\ point[s] = "Replaying" /\ replay[s] # <<>>
      /\ delivered'[s] = Append(delivered[s], Head(replay[s]))
      /\ lastReplayed'[s] = Head(replay[s]) /\ replay'[s] = Tail(replay[s])
  BY DEF ReplayOne, BroadcasterTypeOK
<1>2. PICK h : h = Head(replay[s])
  OBVIOUS
<1>3. /\ h \in 1 .. MaxEvents /\ h \in Nat /\ h # 0
      /\ Events(replay[s]) = {h} \cup Events(replay'[s])
      /\ \A e \in Events(replay'[s]) : h < e
  <2>1. /\ replay[s] \in Seq(1 .. MaxEvents) /\ 1 .. MaxEvents \in SUBSET Nat
        /\ Rising(replay[s])
    BY Ranges DEF OrderOK, ClientsOK, ClientOK, ReplayOK
  <2>2. /\ Head(replay[s]) \in 1 .. MaxEvents
        /\ Events(replay[s]) = ({Head(replay[s])} \ {0}) \cup Events(Tail(replay[s]))
        /\ \A e \in Events(Tail(replay[s])) : Head(replay[s]) < e
    BY <1>1, <2>1, EventsTail
  <2>3. Head(replay[s]) \in Nat /\ Head(replay[s]) # 0
    BY <2>1, <2>2
  <2> QED
    BY <1>1, <1>2, <2>2, <2>3
<1>4. Events(delivered'[s]) = Events(delivered[s]) \cup ({h} \ {0})
  <2>1. \A n \in 1 .. MaxEvents :
          Events(Append(delivered[s], n)) = Events(delivered[s]) \cup ({n} \ {0})
    BY Ranges, EventsAppend
  <2> QED
    BY <1>1, <1>2, <1>3, <2>1
<1>5. lastReplayed[s] < h /\ lastReplayed[s] \in Nat /\ (\A e \in Events(delivered[s]) : e < h)
  <2>1. /\ UpTo(delivered[s], lastReplayed[s]) /\ lastReplayed[s] \in Nat
        /\ \A i \in DOMAIN replay[s] : lastReplayed[s] < replay[s][i]
    BY <1>1, Ranges DEF OrderOK, ClientsOK, ClientOK, ReplayOK
  <2>2. 1 \in DOMAIN replay[s] /\ Head(replay[s]) = replay[s][1]
    BY <1>1, Ranges, TailOrder
  <2>3. lastReplayed[s] < h
    BY <1>2, <2>1, <2>2
  <2>4. \A e \in Events(delivered[s]) : e <= lastReplayed[s] /\ e \in Nat
    BY <2>1, Ranges, EventsOf, JoinRanges
  <2> QED
    BY <1>3, <2>1, <2>3, <2>4
<1>6. /\ Events(channel[s]) \in SUBSET Nat /\ Events(replay'[s]) \in SUBSET Nat
      /\ channel'[s] = channel[s]
  BY <1>1, <1>3, JoinRanges
<1>7. {e \in Events(channel[s]) : e > lastReplayed[s] /\ \A r \in Events(replay[s]) : r < e}
        = {e \in Events(channel[s]) : e > h /\ \A r \in Events(replay'[s]) : r < e}
  BY <1>3, <1>5, <1>6
<1>8. Known(s)' = Known(s)
  BY <1>1, <1>2, <1>3, <1>4, <1>7 DEF Known
<1>9. PlaceOK(s)'
  BY <1>1, <1>2, <1>3, <1>4 DEF JoinOK, PlaceOK
<1>10. h \in Known(s) /\ \A e \in Known(s) : e \notin Events(delivered[s]) => h <= e
  <2>1. \A e \in Events(replay[s]) : h <= e
    BY <1>3, <1>6
  <2>2. \A e \in Events(channel[s]) : (\A r \in Events(replay[s]) : r < e) => h <= e
    BY <1>3, <1>6
  <2> QED
    BY <1>3, <2>1, <2>2 DEF Known
<1>11. Listens(s) /\ (ChannelFull(s) => ChannelFull(s)') /\ (channel[s] = <<>> => channel'[s] = <<>>)
  BY <1>1 DEF Listens, ChannelFull, senderVars, Attached, Reach, Awaits
<1> QED
  BY <1>1, <1>3, <1>4, <1>5, <1>8, <1>9, <1>10, <1>11, YieldFrame

LEMMA ReadJoins ==
  ASSUME BroadcasterTypeOK, OrderOK, NEW s \in Sub, JoinOK(s), ReadLive(s)
  PROVE  JoinOK(s)'
<1>1. /\ UNCHANGED <<senderVars, registry, members, point, dropped, replay, lastReplayed>>
      /\ point[s] = "Live" /\ channel[s] # <<>> /\ channel'[s] = Tail(channel[s])
      /\ delivered'[s] = IF Head(channel[s]) > lastReplayed[s]
                         THEN Append(delivered[s], Head(channel[s])) ELSE delivered[s]
  BY DEF ReadLive, BroadcasterTypeOK
<1>2. PICK h : h = Head(channel[s])
  OBVIOUS
<1>3. /\ h \in 0 .. MaxEvents /\ h \in Nat /\ lastReplayed[s] \in Nat
      /\ Events(channel[s]) = ({h} \ {0}) \cup Events(channel'[s])
      /\ \A e \in Events(channel'[s]) : h < e
      /\ Events(channel[s]) \in SUBSET Nat
  <2>1. /\ channel[s] \in Seq(0 .. MaxEvents) /\ 0 .. MaxEvents \in SUBSET Nat
        /\ EventsRise(channel[s]) /\ lastReplayed[s] \in Nat
    BY Ranges DEF OrderOK, ClientsOK, ClientOK, ChannelOK
  <2>2. /\ Head(channel[s]) \in 0 .. MaxEvents
        /\ Events(channel[s]) = ({Head(channel[s])} \ {0}) \cup Events(Tail(channel[s]))
        /\ \A e \in Events(Tail(channel[s])) : Head(channel[s]) < e
    BY <1>1, <2>1, EventsTail
  <2>3. Head(channel[s]) \in Nat
    BY <2>1, <2>2
  <2> QED
    BY <1>1, <1>2, <2>1, <2>2, <2>3, JoinRanges
<1>4. h > lastReplayed[s] =>
        /\ Events(delivered'[s]) = Events(delivered[s]) \cup ({h} \ {0})
        /\ \A e \in Events(delivered[s]) : e < h
  <2> SUFFICES ASSUME h > lastReplayed[s]
               PROVE  /\ Events(delivered'[s]) = Events(delivered[s]) \cup ({h} \ {0})
                      /\ \A e \in Events(delivered[s]) : e < h
    OBVIOUS
  <2>1. h \in 1 .. MaxEvents
    BY <1>3, Ranges
  <2>2. \A n \in 1 .. MaxEvents :
          Events(Append(delivered[s], n)) = Events(delivered[s]) \cup ({n} \ {0})
    BY Ranges, EventsAppend
  <2>3. Events(delivered'[s]) = Events(delivered[s]) \cup ({h} \ {0})
    BY <1>1, <1>2, <2>1, <2>2
  <2>4. Below(delivered[s], h)
    <3>1. 1 \in DOMAIN channel[s] /\ Head(channel[s]) = channel[s][1]
      BY <1>1, Ranges, TailOrder
    <3> QED
      BY <1>2, <3>1 DEF OrderOK, ClientsOK, ClientOK, ChannelOK
  <2>5. \A e \in Events(delivered[s]) : e < h
    BY <1>3, <2>4, Ranges, EventsOf
  <2> QED
    BY <2>3, <2>5
<1>5. Events(replay[s]) = {} /\ Events(replay'[s]) = {}
  BY <1>1, NoEvents DEF JoinOK, PlaceOK
<1>6. /\ Known(s) = Events(delivered[s]) \cup {e \in Events(channel[s]) : e > lastReplayed[s]}
      /\ Known(s)' = Events(delivered'[s]) \cup {e \in Events(channel'[s]) : e > lastReplayed[s]}
  BY <1>1, <1>5 DEF Known
<1>7. Known(s)' = Known(s)
  <2>1. CASE h > lastReplayed[s]
    BY <1>3, <1>4, <1>6, <2>1
  <2>2. CASE ~(h > lastReplayed[s])
    BY <1>1, <1>2, <1>3, <1>6, <2>2
  <2> QED
    BY <2>1, <2>2
<1>8. PlaceOK(s)'
  <2>1. Events(delivered[s]) \subseteq Events(delivered'[s])
    BY <1>1, <1>2, <1>4
  <2> QED
    BY <1>1, <2>1 DEF JoinOK, PlaceOK
<1>9. \/ delivered'[s] = delivered[s]
      \/ /\ Events(delivered'[s]) = Events(delivered[s]) \cup ({h} \ {0})
         /\ h \in Known(s)
         /\ \A e \in Known(s) : e \notin Events(delivered[s]) => h <= e
         /\ \A e \in Events(delivered[s]) : e < h
  <2>1. CASE h > lastReplayed[s]
    <3>1. h \in Known(s)
      BY <1>3, <1>6, <2>1
    <3>2. \A e \in Events(channel[s]) : h <= e
      BY <1>3
    <3> QED
      BY <1>4, <1>6, <2>1, <3>1, <3>2
  <2>2. CASE ~(h > lastReplayed[s])
    BY <1>1, <1>2, <2>2
  <2> QED
    BY <2>1, <2>2
<1>10. ChannelFull(s) => ChannelFull(s)'
  <2> SUFFICES ASSUME ChannelFull(s) PROVE ChannelFull(s)'
    OBVIOUS
  <2>1. Convex(Events(channel'[s]))
    BY <1>3, ConvexLess DEF ChannelFull
  <2>2. Attached(s)' = Attached(s) /\ Reach(s)' = Reach(s)
    BY <1>1 DEF senderVars, Attached, Awaits, Reach
  <2>3. ASSUME Attached(s), Events(channel'[s]) # {}
        PROVE  Reach(s) \in Events(channel'[s]) /\ \A e \in Events(channel'[s]) : e <= Reach(s)
    <3>1. Reach(s) \in Events(channel[s]) /\ \A e \in Events(channel[s]) : e <= Reach(s)
      BY <1>3, <2>3 DEF ChannelFull
    <3>2. Reach(s) # h
      BY <1>3, <2>3, <3>1
    <3> QED
      BY <1>3, <3>1, <3>2
  <2> QED
    BY <2>1, <2>2, <2>3 DEF ChannelFull
<1>11. Listens(s)
  BY <1>1 DEF Listens
<1> QED
  BY <1>1, <1>3, <1>7, <1>8, <1>9, <1>10, <1>11, YieldFrame

-----------------------------------------------------------------------------
LEMMA JoinInitOK == BroadcasterInit => JoinIInv
<1> SUFFICES ASSUME BroadcasterInit PROVE JoinIInv
  OBVIOUS
<1>1. BroadcasterIInv
  BY BroadcasterInitOK
<1>2. ViewOK /\ BufferFull
  BY NoEvents DEF BroadcasterInit, ViewOK, BufferFull, Convex
<1>3. ASSUME NEW x \in Sub PROVE JoinOK(x)
  <2>1. Events(channel[x]) = {} /\ ~Listens(x) /\ Events(delivered[x]) = {}
    BY NoEvents DEF BroadcasterInit, Listens
  <2>2. PlaceOK(x) /\ LateOK(x)
    BY DEF BroadcasterInit, PlaceOK, LateOK, Missed
  <2> QED
    BY <2>1, <2>2 DEF JoinOK, ChannelFull, KnownFull, Convex
<1> QED
  BY <1>1, <1>2, <1>3 DEF JoinIInv

LEMMA JoinStep == JoinIInv /\ [BroadcasterNext]_broadcastVars => JoinIInv'
<1> SUFFICES ASSUME JoinIInv, [BroadcasterNext]_broadcastVars PROVE JoinIInv'
  OBVIOUS
<1>1. BroadcasterTypeOK /\ OrderOK /\ DictionaryOK /\ ViewOK /\ BufferFull
  BY DEF JoinIInv, BroadcasterIInv
<1>2. BroadcasterIInv'
  BY BroadcasterStep DEF JoinIInv
<1>3. CASE Sender
  <2>1. \A x \in Sub : JoinOK(x)'
    BY <1>1, <1>3, SenderJoins DEF JoinIInv
  <2> QED
    BY <1>1, <1>2, <1>3, <2>1, ViewStep, BufferStep DEF JoinIInv, BroadcasterNext
<1>4. ASSUME NEW s \in Sub, Subscription(s) PROVE JoinIInv'
  <2>1. JoinOK(s)'
    BY <1>1, <1>4, MoveJoins, RegisterJoins, SnapshotJoins, ReplayJoins, ReadJoins
       DEF JoinIInv, Subscription
  <2>2. \A x \in Sub \ {s} : JoinOK(x)'
    BY <1>1, <1>4, OtherJoins DEF JoinIInv
  <2> QED
    BY <1>1, <1>2, <1>4, <2>1, <2>2, ViewStep, BufferStep DEF JoinIInv, BroadcasterNext
<1>5. CASE UNCHANGED broadcastVars
  <2>1. ViewOK' /\ BufferFull'
    BY <1>1, <1>5 DEF broadcastVars, senderVars, ViewOK, BufferFull
  <2>2. ASSUME NEW x \in Sub PROVE JoinOK(x)'
    <3>1. JoinOK(x)
      BY DEF JoinIInv
    <3> QED
      BY <1>5, <3>1 DEF broadcastVars, senderVars, subVars, JoinOK, PlaceOK, LateOK, ChannelFull,
         KnownFull, Known, Missed, Attached, Listens, Reach, Awaits
  <2> QED
    BY <1>2, <2>1, <2>2 DEF JoinIInv
<1> QED
  BY <1>3, <1>4, <1>5 DEF BroadcasterNext

LEMMA JoinInvariant == BroadcasterSpec => []JoinIInv
<1> QED
  BY JoinInitOK, JoinStep, PTL DEF BroadcasterSpec

\* A sequence that rises and whose events have no hole goes up by one.
LEMMA RisesByOne ==
  ASSUME NEW n \in Nat, NEW q \in Seq(1 .. n), Rising(q), Convex(Events(q)),
         NEW i \in DOMAIN q, i > 1
  PROVE  q[i] = q[i - 1] + 1
<1>1. /\ Len(q) \in Nat /\ DOMAIN q = 1 .. Len(q)
      /\ \A k \in 1 .. Len(q) : q[k] \in 1 .. n
  BY LenProperties
<1>2. i \in Nat /\ i - 1 \in 1 .. Len(q) /\ i \in 1 .. Len(q) /\ i - 1 < i
  BY <1>1
<1>3. q[i - 1] < q[i] /\ q[i - 1] \in Nat /\ q[i] \in Nat /\ q[i] # 0 /\ q[i - 1] # 0
  BY <1>1, <1>2 DEF Rising
<1>4. q[i - 1] + 1 \in Events(q)
  <2>1. q[i] \in Events(q) /\ q[i - 1] \in Events(q)
    BY <1>1, <1>2, <1>3 DEF Events
  <2>2. q[i - 1] + 1 \in q[i - 1] .. q[i]
    BY <1>3
  <2> QED
    BY <2>1, <2>2 DEF Convex
<1>5. PICK k \in 1 .. Len(q) : q[k] = q[i - 1] + 1
  BY <1>1, <1>4 DEF Events
<1>6. ~(k < i)
  <2> SUFFICES ASSUME k < i PROVE FALSE
    OBVIOUS
  <2>1. k = i - 1 \/ k < i - 1
    BY <1>1, <1>2
  <2>2. q[k] <= q[i - 1]
    BY <1>1, <1>2, <1>3, <2>1 DEF Rising
  <2> QED
    BY <1>3, <1>5, <2>2
<1>7. ~(i < k)
  <2> SUFFICES ASSUME i < k PROVE FALSE
    OBVIOUS
  <2>1. q[i] < q[k]
    BY <1>1, <1>2 DEF Rising
  <2> QED
    BY <1>3, <1>5, <2>1
<1>8. k = i
  BY <1>1, <1>2, <1>6, <1>7
<1> QED
  BY <1>5, <1>8

\* However many clients join and leave and however small the capacities: from the
\* first event it sees a client misses none, unless its channel overflowed
\* (BroadcastEventAsync, SubscribeAsync).
THEOREM JoinsWithoutGap == BroadcasterSpec => []NoGap
<1>1. JoinIInv => NoGap
  <2> SUFFICES ASSUME JoinIInv, NEW s \in Sub, ~dropped[s], NEW i \in DOMAIN delivered[s], i > 1
               PROVE  delivered[s][i] = delivered[s][i - 1] + 1
    BY DEF NoGap
  <2>1. /\ delivered[s] \in Seq(1 .. MaxEvents) /\ MaxEvents \in Nat
        /\ Rising(delivered[s]) /\ Convex(Events(delivered[s]))
    BY Ranges DEF JoinIInv, BroadcasterIInv, OrderOK, ClientsOK, ClientOK, DeliveredOK, JoinOK,
       KnownFull
  <2>2. \A k \in DOMAIN delivered[s] : k > 1 => delivered[s][k] = delivered[s][k - 1] + 1
    BY <2>1, RisesByOne
  <2> QED
    BY <2>2
<1> QED
  BY <1>1, JoinInvariant, PTL

\* Who joined at any moment and has read all it was sent has the newest event, by
\* the replay or by its channel (BroadcastEventAsync, SubscribeAsync).
THEOREM JoinsUpToDate == BroadcasterSpec => []UpToDate
<1>1. JoinIInv => UpToDate
  <2> SUFFICES ASSUME JoinIInv, NEW s \in Sub, point[s] = "Live", registry # 0,
                      s \in members[registry], channel[s] = <<>>, sending = "Idle", ~cleared,
                      ~dropped[s], published > 0
               PROVE  delivered[s] # <<>> /\ delivered[s][Len(delivered[s])] = published
    BY DEF UpToDate
  <2>1. BroadcasterTypeOK /\ OrderOK /\ KnownFull(s) /\ replay[s] = <<>>
    BY DEF JoinIInv, BroadcasterIInv, JoinOK, PlaceOK
  <2>2. Known(s) = Events(delivered[s])
    BY <2>1, NoEvents DEF Known
  <2>3. /\ published \in Nat /\ Reach(s) = published /\ Listens(s) /\ Attached(s)
        /\ \A e \in Events(delivered[s]) : e \in Nat /\ e <= published
    BY <2>1, JoinRanges DEF Reach, Awaits, Listens, Attached
  <2>4. published \in Events(delivered[s])
    BY <2>1, <2>2, <2>3 DEF KnownFull
  <2>5. PICK k \in DOMAIN delivered[s] : delivered[s][k] = published
    BY <2>4 DEF Events
  <2>6. /\ Len(delivered[s]) \in Nat /\ DOMAIN delivered[s] = 1 .. Len(delivered[s])
        /\ Rising(delivered[s]) /\ UpTo(delivered[s], published)
        /\ \A i \in 1 .. Len(delivered[s]) : delivered[s][i] \in Nat
    BY <2>1, Ranges, LenProperties DEF OrderOK, ClientsOK, ClientOK, DeliveredOK
  <2>7. Len(delivered[s]) \in 1 .. Len(delivered[s])
    BY <2>5, <2>6
  <2>8. ~(k < Len(delivered[s]))
    <3> SUFFICES ASSUME k < Len(delivered[s]) PROVE FALSE
      OBVIOUS
    <3>1. published < delivered[s][Len(delivered[s])]
      BY <2>5, <2>6, <2>7 DEF Rising
    <3>2. delivered[s][Len(delivered[s])] <= published
      BY <2>6, <2>7 DEF UpTo
    <3> QED
      BY <2>3, <2>6, <2>7, <3>1, <3>2
  <2>9. k = Len(delivered[s])
    BY <2>5, <2>6, <2>8
  <2> QED
    BY <2>5, <2>7, <2>9
<1> QED
  BY <1>1, JoinInvariant, PTL
===============================================================================
