------------------------ MODULE MatchIngestion_proofs ------------------------
(***************************************************************************)
(* Proofs about MatchIngestion for every set of matches, number of events  *)
(* and number of lost connections, restarts and database faults.           *)
(***************************************************************************)
EXTENDS MatchIngestion, SequenceTheorems, FiniteSetTheorems, TLAPS

LEMMA ElementsEmpty == Elements(<<>>) = {}
  BY DEF Elements

LEMMA ElementsAppend ==
  ASSUME NEW S, NEW s \in Seq(S), NEW e \in S
  PROVE  /\ Append(s, e) \in Seq(S)
         /\ Elements(Append(s, e)) = Elements(s) \cup {e}
<1>1. /\ Append(s, e) \in Seq(S)
      /\ DOMAIN s = 1 .. Len(s) /\ Len(s) \in Nat
      /\ DOMAIN Append(s, e) = 1 .. Len(s) + 1
      /\ \A i \in 1 .. Len(s) : Append(s, e)[i] = s[i]
      /\ Append(s, e)[Len(s) + 1] = e
  BY AppendProperties, LenProperties
<1>2. \A i \in 1 .. Len(s) + 1 : i \in 1 .. Len(s) \/ i = Len(s) + 1
  BY <1>1
<1>3. 1 .. Len(s) \subseteq 1 .. Len(s) + 1 /\ Len(s) + 1 \in 1 .. Len(s) + 1
  BY <1>1
<1> QED
  BY <1>1, <1>2, <1>3, Zenon DEF Elements

LEMMA ElementsPrepend ==
  ASSUME NEW S, NEW s \in Seq(S), NEW e \in S
  PROVE  /\ <<e>> \o s \in Seq(S)
         /\ Elements(<<e>> \o s) = {e} \cup Elements(s)
<1>1. <<e>> \in Seq(S) /\ Len(<<e>>) = 1 /\ <<e>>[1] = e
  OBVIOUS
<1>2. /\ <<e>> \o s \in Seq(S)
      /\ DOMAIN s = 1 .. Len(s) /\ Len(s) \in Nat
      /\ Len(<<e>> \o s) = 1 + Len(s)
      /\ DOMAIN (<<e>> \o s) = 1 .. 1 + Len(s)
      /\ \A i \in 1 .. 1 + Len(s) :
           (<<e>> \o s)[i] = IF i <= 1 THEN <<e>>[i] ELSE s[i - 1]
  BY <1>1, ConcatProperties, LenProperties
<1>3. ASSUME NEW i \in 1 .. 1 + Len(s)
      PROVE  (<<e>> \o s)[i] \in {e} \cup Elements(s)
  <2>1. CASE i = 1
    BY <1>1, <1>2, <2>1
  <2>2. CASE i # 1
    <3>1. i - 1 \in 1 .. Len(s) /\ (<<e>> \o s)[i] = s[i - 1]
      BY <1>2, <2>2
    <3> QED
      BY <1>2, <3>1 DEF Elements
  <2> QED
    BY <2>1, <2>2
<1>4. ASSUME NEW i \in 1 .. Len(s)
      PROVE  s[i] \in Elements(<<e>> \o s)
  <2>1. i + 1 \in 1 .. 1 + Len(s) /\ (<<e>> \o s)[i + 1] = s[i]
    BY <1>2
  <2> QED
    BY <1>2, <2>1 DEF Elements
<1>5. e \in Elements(<<e>> \o s)
  <2>1. 1 \in 1 .. 1 + Len(s) /\ (<<e>> \o s)[1] = e
    BY <1>1, <1>2
  <2> QED
    BY <1>2, <2>1 DEF Elements
<1>6. Elements(<<e>> \o s) \subseteq {e} \cup Elements(s)
  BY <1>2, <1>3 DEF Elements
<1>7. {e} \cup Elements(s) \subseteq Elements(<<e>> \o s)
  BY <1>2, <1>4, <1>5 DEF Elements
<1> QED
  BY <1>2, <1>6, <1>7

LEMMA ElementsTail ==
  ASSUME NEW S, NEW s \in Seq(S), s # <<>>
  PROVE  /\ Head(s) \in S /\ Tail(s) \in Seq(S)
         /\ Elements(s) = {Head(s)} \cup Elements(Tail(s))
<1>1. Head(s) \in S /\ Tail(s) \in Seq(S)
  BY HeadTailProperties
<1>2. s = <<Head(s)>> \o Tail(s)
  BY SMT
<1> QED
  BY <1>1, <1>2, ElementsPrepend

-----------------------------------------------------------------------------
\* The message in the loop's hand is either still unacknowledged or ready again.
HandKept == hand # NoMessage /\ ~held => hand \in Elements(queue)

\* Once a message is handled its event is in the buffer, until its match has ended.
HandBuffered ==
  pc \in {"Flushing", "Acking", "Nacking"} =>
    \/ ~isLive[hand.match] \/ lossy[hand.match]
    \/ hand.event \in Elements(buffer[hand.match])

\* The caches are cleared only after the commit.
ClearedEnded == pc = "Clearing" => ~isLive[hand.match]

IngestIInv ==
  /\ IngestTypeOK
  /\ HandKept
  /\ HandBuffered
  /\ ClearedEnded
  /\ AtLeastOnce

\* A message, its parts, and the null value.
LEMMA MessageParts ==
  /\ NoMessage \notin Message
  /\ \A x \in Message : x.match \in Match /\ x.event \in 1 .. Last
  /\ \A m \in Match, e \in 1 .. Last :
       /\ [match |-> m, event |-> e] \in Message
       /\ [match |-> m, event |-> e].match = m
       /\ [match |-> m, event |-> e].event = e
  /\ \A x \in Message : x = [match |-> x.match, event |-> x.event]
  BY IngestAssumption DEF Message

\* What a loss of the connection puts back: nothing is lost and nothing appears.
LEMMA RequeuedElements ==
  ASSUME IngestTypeOK
  PROVE  /\ Requeued \in Seq(Message)
         /\ held => Elements(Requeued) = {hand} \cup Elements(queue)
         /\ ~held => Requeued = queue
<1>1. CASE held
  <2>1. hand \in Message /\ queue \in Seq(Message)
    BY <1>1 DEF IngestTypeOK
  <2> QED
    BY <1>1, <2>1, ElementsPrepend DEF Requeued
<1>2. CASE ~held
  BY <1>2 DEF Requeued, IngestTypeOK
<1> QED
  BY <1>1, <1>2

LEMMA IngestInitOK == IngestInit => IngestIInv
<1> SUFFICES ASSUME IngestInit PROVE IngestIInv
  OBVIOUS
<1>1. IngestTypeOK
  <2>1. <<>> \in Seq(Message) /\ <<>> \in Seq(1 .. Last)
    OBVIOUS
  <2>2. /\ buffer \in [Match -> Seq(1 .. Last)] /\ saved \in [Match -> Seq(1 .. Last)]
        /\ queue \in Seq(Message)
    BY <2>1 DEF IngestInit
  <2>3. /\ published \in [Match -> 0 .. Last]
        /\ losses \in 0 .. MaxLosses /\ restarts \in 0 .. MaxRestarts
        /\ dbFaults \in 0 .. MaxDbFaults
    BY IngestAssumption DEF IngestInit
  <2> QED
    BY <2>2, <2>3 DEF IngestInit, IngestTypeOK
<1>2. \A m \in Match : 1 .. published[m] = {}
  BY DEF IngestInit
<1> QED
  BY <1>1, <1>2 DEF IngestInit, IngestIInv, HandKept, HandBuffered, ClearedEnded, AtLeastOnce

\* The engine publishes one more event, or skips it.
LEMMA PublishStep ==
  ASSUME IngestIInv, NEW m \in Match, Publish(m)
  PROVE  IngestIInv'
<1>1. /\ IngestTypeOK /\ published[m] \in 0 .. Last /\ published[m] < Last
      /\ queue \in Seq(Message) /\ Last \in Nat
  BY IngestAssumption DEF IngestIInv, IngestTypeOK, Publish
<1>2. published[m] + 1 \in 1 .. Last
  BY <1>1
<1>3. /\ published' = [published EXCEPT ![m] = published[m] + 1]
      /\ UNCHANGED <<held, connected, hand, pc, loaded, buffer, liveCache, isLive, saved,
                     restarts, dbFaults>>
  BY DEF Publish, cacheVars, rowVars
<1>4. \A k \in Match : published[k] \in 0 .. Last
  BY <1>1 DEF IngestTypeOK
<1>5. CASE /\ queue' = Append(queue, [match |-> m, event |-> published[m] + 1])
           /\ UNCHANGED <<lossy, losses>>
  <2>1. /\ queue' \in Seq(Message)
        /\ Elements(queue') = Elements(queue) \cup {[match |-> m, event |-> published[m] + 1]}
    BY <1>1, <1>2, <1>5, MessageParts, ElementsAppend
  <2>2. IngestTypeOK'
    BY <1>1, <1>2, <1>3, <1>5, <2>1 DEF IngestTypeOK
  <2>3. HandKept' /\ HandBuffered' /\ ClearedEnded'
    BY <1>3, <1>5, <2>1 DEF IngestIInv, HandKept, HandBuffered, ClearedEnded
  <2>4. ASSUME NEW k \in Match, isLive'[k], ~lossy'[k], NEW e \in 1 .. published'[k]
        PROVE  \/ [match |-> k, event |-> e] \in Elements(queue') \cup {hand'}
               \/ e \in Elements(buffer'[k])
    <3>1. CASE k = m /\ e = published[m] + 1
      BY <2>1, <3>1
    <3>2. CASE ~(k = m /\ e = published[m] + 1)
      <4>1. e \in 1 .. published[k]
        BY <1>1, <1>3, <1>4, <2>4, <3>2 DEF IngestTypeOK
      <4>2. isLive[k] /\ ~lossy[k]
        BY <1>3, <1>5, <2>4
      <4>3. \/ [match |-> k, event |-> e] \in Elements(queue) \cup {hand}
            \/ e \in Elements(buffer[k])
        BY <4>1, <4>2 DEF IngestIInv, AtLeastOnce
      <4> QED
        BY <1>3, <2>1, <4>3
    <3> QED
      BY <3>1, <3>2
  <2> QED
    BY <2>2, <2>3, <2>4 DEF IngestIInv, AtLeastOnce
<1>6. CASE /\ ConnectionFault
           /\ lossy' = [lossy EXCEPT ![m] = TRUE]
           /\ UNCHANGED queue
  <2>1. IngestTypeOK'
    BY <1>1, <1>2, <1>3, <1>6, IngestAssumption DEF IngestTypeOK, ConnectionFault
  <2>2. HandKept' /\ ClearedEnded'
    BY <1>3, <1>6 DEF IngestIInv, HandKept, ClearedEnded
  <2>3. \A k \in Match : lossy[k] => lossy'[k]
    BY <1>1, <1>6 DEF IngestTypeOK
  <2>4. HandBuffered'
    <3>1. pc # "Getting" => hand \in Message
      BY <1>1 DEF IngestTypeOK
    <3> QED
      BY <1>3, <2>3, <3>1, MessageParts DEF IngestIInv, HandBuffered
  <2>5. ASSUME NEW k \in Match, isLive'[k], ~lossy'[k], NEW e \in 1 .. published'[k]
        PROVE  \/ [match |-> k, event |-> e] \in Elements(queue') \cup {hand'}
               \/ e \in Elements(buffer'[k])
    <3>1. k # m
      BY <1>1, <1>6, <2>5 DEF IngestTypeOK
    <3>2. isLive[k] /\ ~lossy[k] /\ e \in 1 .. published[k]
      BY <1>1, <1>3, <2>3, <2>5, <3>1 DEF IngestTypeOK
    <3> QED
      BY <1>3, <1>6, <3>2 DEF IngestIInv, AtLeastOnce
  <2> QED
    BY <2>1, <2>2, <2>4, <2>5 DEF IngestIInv, AtLeastOnce
<1> QED
  BY <1>5, <1>6 DEF Publish

\* The connection is lost or restored.
LEMMA ConnectionStep ==
  ASSUME IngestIInv, ConnectionLost \/ Reconnect
  PROVE  IngestIInv'
<1>1. IngestTypeOK
  BY DEF IngestIInv
<1>2. CASE ConnectionLost
  <2>1. /\ UNCHANGED <<published, hand, pc, loaded, buffer, liveCache, isLive, saved,
                       restarts, dbFaults, lossy>>
        /\ ~held' /\ ~connected' /\ queue' = Requeued
        /\ losses < MaxLosses /\ losses' = losses + 1
    BY <1>2 DEF ConnectionLost, ConnectionFault, cacheVars, rowVars
  <2>2. IngestTypeOK'
    <3>1. queue' \in Seq(Message)
      BY <1>1, <2>1, RequeuedElements
    <3>2. losses' \in 0 .. MaxLosses
      BY <1>1, <2>1, IngestAssumption DEF IngestTypeOK
    <3>3. held' = FALSE /\ connected' = FALSE
      BY <1>2 DEF ConnectionLost
    <3> QED
      BY <1>1, <2>1, <3>1, <3>2, <3>3 DEF IngestTypeOK
  <2>3. Elements(queue) \subseteq Elements(queue')
    BY <1>1, <2>1, RequeuedElements
  <2>4. HandKept'
    BY <1>1, <2>1, <2>3, RequeuedElements DEF IngestIInv, HandKept
  <2>5. HandBuffered' /\ ClearedEnded'
    BY <2>1 DEF IngestIInv, HandBuffered, ClearedEnded
  <2>6. AtLeastOnce'
    BY <2>1, <2>3 DEF IngestIInv, AtLeastOnce
  <2> QED
    BY <2>2, <2>4, <2>5, <2>6 DEF IngestIInv
<1>3. CASE Reconnect
  BY <1>1, <1>3 DEF Reconnect, cacheVars, rowVars, boundVars, IngestIInv, IngestTypeOK,
     HandKept, HandBuffered, ClearedEnded, AtLeastOnce
<1> QED
  BY <1>2, <1>3

\* The process restarts: what was only in memory is given up, and marked so.
LEMMA RestartStep ==
  ASSUME IngestIInv, Restart
  PROVE  IngestIInv'
<1>1. IngestTypeOK
  BY DEF IngestIInv
<1>2. /\ restarts < MaxRestarts /\ restarts' = restarts + 1
      /\ queue' = Requeued /\ ~held' /\ connected'
      /\ hand' = NoMessage /\ pc' = "Getting"
      /\ loaded' = {} /\ liveCache' = {}
      /\ buffer' = [m \in Match |-> <<>>]
      /\ lossy' = [m \in Match |-> lossy[m] \/ buffer[m] # <<>>]
      /\ UNCHANGED <<published, isLive, saved, losses, dbFaults>>
  BY DEF Restart, rowVars
<1>3. buffer' \in [Match -> Seq(1 .. Last)] /\ lossy' \in [Match -> BOOLEAN]
  BY <1>2
<1>4. held' = FALSE /\ connected' = TRUE
  BY DEF Restart
<1>5. IngestTypeOK'
  <2>1. queue' \in Seq(Message)
    BY <1>1, <1>2, RequeuedElements
  <2>2. restarts' \in 0 .. MaxRestarts
    BY <1>1, <1>2, IngestAssumption DEF IngestTypeOK
  <2> QED
    BY <1>1, <1>2, <1>3, <1>4, <2>1, <2>2 DEF IngestTypeOK
<1>6. ASSUME NEW m \in Match, isLive'[m], ~lossy'[m], NEW e \in 1 .. published'[m]
      PROVE  [match |-> m, event |-> e] \in Elements(queue')
  <2>1. isLive[m] /\ ~lossy[m] /\ buffer[m] = <<>> /\ e \in 1 .. published[m]
    BY <1>2, <1>6
  <2>2. e \in 1 .. Last /\ [match |-> m, event |-> e] # NoMessage
    <3>1. published[m] \in 0 .. Last /\ Last \in Nat
      BY <1>1, IngestAssumption DEF IngestTypeOK
    <3>2. e \in 1 .. Last
      BY <2>1, <3>1
    <3> QED
      BY <3>2, MessageParts
  <2>3. [match |-> m, event |-> e] \in Elements(queue) \cup {hand}
    BY <2>1, ElementsEmpty DEF IngestIInv, AtLeastOnce
  <2>4. CASE held
    BY <1>1, <1>2, <2>3, <2>4, RequeuedElements
  <2>5. CASE ~held
    BY <1>1, <1>2, <2>2, <2>3, <2>5, RequeuedElements DEF IngestIInv, HandKept
  <2> QED
    BY <2>4, <2>5
<1> QED
  BY <1>2, <1>5, <1>6 DEF IngestIInv, HandKept, HandBuffered, ClearedEnded, AtLeastOnce

\* The loop takes the next message.
LEMMA GetStep ==
  ASSUME IngestIInv, Get
  PROVE  IngestIInv'
<1>1. IngestTypeOK /\ queue \in Seq(Message) /\ queue # <<>>
  BY DEF IngestIInv, IngestTypeOK, Get
<1>2. /\ hand' = Head(queue) /\ queue' = Tail(queue) /\ held' = TRUE /\ pc' = "Handling"
      /\ connected /\ pc = "Getting"
      /\ UNCHANGED <<published, connected, loaded, buffer, liveCache, isLive, saved,
                     losses, restarts, dbFaults, lossy>>
  BY DEF Get, cacheVars, rowVars, boundVars
<1>3. /\ hand' \in Message /\ queue' \in Seq(Message)
      /\ Elements(queue) = {hand'} \cup Elements(queue')
  BY <1>1, <1>2, ElementsTail
<1>4. IngestTypeOK'
  BY <1>1, <1>2, <1>3, MessageParts DEF IngestTypeOK
<1>5. ASSUME NEW m \in Match, isLive'[m], ~lossy'[m], NEW e \in 1 .. published'[m]
      PROVE  \/ [match |-> m, event |-> e] \in Elements(queue') \cup {hand'}
             \/ e \in Elements(buffer'[m])
  <2>1. hand = NoMessage
    BY <1>1, <1>2 DEF IngestTypeOK
  <2>2. [match |-> m, event |-> e] # NoMessage
    <3>1. published[m] \in 0 .. Last /\ Last \in Nat /\ e \in 1 .. published[m]
      BY <1>1, <1>2, IngestAssumption DEF IngestTypeOK
    <3>2. e \in 1 .. Last
      BY <3>1
    <3> QED
      BY <3>2, MessageParts
  <2>3. \/ [match |-> m, event |-> e] \in Elements(queue) \cup {hand}
        \/ e \in Elements(buffer[m])
    BY <1>2, <1>5 DEF IngestIInv, AtLeastOnce
  <2> QED
    BY <1>2, <1>3, <2>1, <2>2, <2>3
<1> QED
  BY <1>2, <1>4, <1>5 DEF IngestIInv, HandKept, HandBuffered, ClearedEnded, AtLeastOnce

-----------------------------------------------------------------------------
\* In a handling step the hand names a match and one of its events.
LEMMA InHand ==
  ASSUME IngestTypeOK, pc # "Getting"
  PROVE  hand \in Message /\ hand.match \in Match /\ hand.event \in 1 .. Last
  BY MessageParts DEF IngestTypeOK

\* The event could not be processed: it is given up, and marked so.
LEMMA UnloadedStep ==
  ASSUME IngestIInv, HandleUnloaded
  PROVE  IngestIInv'
<1>1. IngestTypeOK /\ hand.match \in Match
  BY InHand DEF IngestIInv, HandleUnloaded
<1>2. /\ dbFaults < MaxDbFaults /\ dbFaults' = dbFaults + 1
      /\ lossy' = [lossy EXCEPT ![hand.match] = TRUE]
      /\ pc' \in {"Flushing", "Acking"} /\ pc # "Getting"
      /\ UNCHANGED <<published, queue, held, connected, hand, loaded, buffer, liveCache,
                     isLive, saved, losses, restarts>>
  BY DEF HandleUnloaded, DatabaseFault, AfterHandling, brokerVars, cacheVars, rowVars
<1>3. dbFaults' \in 0 .. MaxDbFaults
  BY <1>1, <1>2, IngestAssumption DEF IngestTypeOK
<1>4. IngestTypeOK'
  BY <1>1, <1>2, <1>3 DEF IngestTypeOK
<1>5. lossy'[hand.match] /\ \A m \in Match : lossy[m] => lossy'[m]
  BY <1>1, <1>2 DEF IngestTypeOK
<1>6. HandKept' /\ HandBuffered' /\ ClearedEnded'
  BY <1>2, <1>5 DEF IngestIInv, HandKept, HandBuffered, ClearedEnded
<1>7. AtLeastOnce'
  BY <1>2, <1>5 DEF IngestIInv, AtLeastOnce
<1> QED
  BY <1>4, <1>6, <1>7 DEF IngestIInv

\* The event joins the buffer.
LEMMA HandleStep ==
  ASSUME IngestIInv, Handle
  PROVE  IngestIInv'
<1>1. IngestTypeOK /\ hand \in Message /\ hand.match \in Match /\ hand.event \in 1 .. Last
  BY InHand DEF IngestIInv, Handle
<1>2. /\ loaded' = loaded \cup {hand.match}
      /\ buffer' = [buffer EXCEPT ![hand.match] = Append(buffer[hand.match], hand.event)]
      /\ liveCache' \in {liveCache, liveCache \cup {hand.match}}
      /\ pc' \in {"Flushing", "Acking"} /\ pc # "Getting"
      /\ UNCHANGED <<published, queue, held, connected, hand, isLive, saved, losses,
                     restarts, dbFaults, lossy>>
  BY DEF Handle, AfterHandling, brokerVars, rowVars, boundVars
<1>3. /\ Append(buffer[hand.match], hand.event) \in Seq(1 .. Last)
      /\ Elements(Append(buffer[hand.match], hand.event))
           = Elements(buffer[hand.match]) \cup {hand.event}
  <2>1. buffer[hand.match] \in Seq(1 .. Last)
    BY <1>1 DEF IngestTypeOK
  <2>2. \A s \in Seq(1 .. Last), e \in 1 .. Last :
          /\ Append(s, e) \in Seq(1 .. Last)
          /\ Elements(Append(s, e)) = Elements(s) \cup {e}
    BY ElementsAppend
  <2> QED
    BY <1>1, <2>1, <2>2
<1>4. IngestTypeOK'
  <2>1. buffer' \in [Match -> Seq(1 .. Last)]
    BY <1>1, <1>2, <1>3 DEF IngestTypeOK
  <2>2. loaded' \in SUBSET Match /\ liveCache' \in SUBSET Match
    BY <1>1, <1>2 DEF IngestTypeOK
  <2> QED
    BY <1>1, <1>2, <2>1, <2>2 DEF IngestTypeOK
<1>5. /\ hand.event \in Elements(buffer'[hand.match])
      /\ \A m \in Match : Elements(buffer[m]) \subseteq Elements(buffer'[m])
  <2>1. buffer \in [Match -> Seq(1 .. Last)]
    BY <1>1 DEF IngestTypeOK
  <2>2. buffer'[hand.match] = Append(buffer[hand.match], hand.event)
    BY <1>1, <1>2, <2>1
  <2>3. \A m \in Match \ {hand.match} : buffer'[m] = buffer[m]
    BY <1>2, <2>1
  <2> QED
    BY <1>3, <2>2, <2>3
<1>6. HandKept' /\ HandBuffered' /\ ClearedEnded'
  BY <1>2, <1>5 DEF IngestIInv, HandKept, HandBuffered, ClearedEnded
<1>7. AtLeastOnce'
  BY <1>2, <1>5 DEF IngestIInv, AtLeastOnce
<1> QED
  BY <1>4, <1>6, <1>7 DEF IngestIInv

\* The flush ends the match, or leaves it as it was.
LEMMA FlushStep ==
  ASSUME IngestIInv, Flush
  PROVE  IngestIInv'
<1>1. IngestTypeOK /\ hand.match \in Match
  BY InHand DEF IngestIInv, Flush
<1>2. /\ pc = "Flushing"
      /\ UNCHANGED <<published, queue, held, connected, hand, loaded, buffer, liveCache,
                     losses, restarts, lossy>>
  BY DEF Flush, brokerVars, cacheVars
<1>3. \/ Committed(hand.match) /\ pc' = "Clearing" /\ dbFaults' = dbFaults
      \/ DatabaseFault /\ pc' = "Nacking" /\ isLive' = isLive /\ saved' = saved
      \/ DatabaseFault /\ Committed(hand.match) /\ pc' = "Nacking"
  BY DEF Flush, rowVars
<1>4. ASSUME Committed(hand.match)
      PROVE  /\ isLive' \in [Match -> BOOLEAN] /\ saved' \in [Match -> Seq(1 .. Last)]
             /\ ~isLive'[hand.match] /\ \A m \in Match : isLive'[m] => isLive[m]
  <2>1. isLive \in [Match -> BOOLEAN] /\ isLive' = [isLive EXCEPT ![hand.match] = FALSE]
    BY <1>1, <1>4 DEF Committed, IngestTypeOK
  <2>2. /\ saved \in [Match -> Seq(1 .. Last)] /\ buffer[hand.match] \in Seq(1 .. Last)
        /\ saved' = [saved EXCEPT ![hand.match] =
             IF buffer[hand.match] # <<>> THEN buffer[hand.match] ELSE saved[hand.match]]
    BY <1>1, <1>4 DEF Committed, IngestTypeOK
  <2> QED
    BY <1>1, <2>1, <2>2
<1>5. /\ isLive' \in [Match -> BOOLEAN] /\ saved' \in [Match -> Seq(1 .. Last)]
      /\ \A m \in Match : isLive'[m] => isLive[m]
  BY <1>1, <1>3, <1>4 DEF IngestTypeOK
<1>6. dbFaults' \in 0 .. MaxDbFaults
  BY <1>1, <1>3, IngestAssumption DEF IngestTypeOK, DatabaseFault
<1>7. IngestTypeOK'
  BY <1>1, <1>2, <1>3, <1>5, <1>6 DEF IngestTypeOK
<1>8. HandKept'
  BY <1>2 DEF IngestIInv, HandKept
<1>9. HandBuffered'
  BY <1>1, <1>2, <1>5 DEF IngestIInv, HandBuffered
<1>10. ClearedEnded'
  BY <1>2, <1>3, <1>4 DEF ClearedEnded
<1>11. AtLeastOnce'
  BY <1>2, <1>5 DEF IngestIInv, AtLeastOnce
<1> QED
  BY <1>7, <1>8, <1>9, <1>10, <1>11 DEF IngestIInv

\* Only the caches of an ended match are cleared.
LEMMA ClearStep ==
  ASSUME IngestIInv, Clear
  PROVE  IngestIInv'
<1>1. IngestTypeOK /\ hand.match \in Match /\ ~isLive[hand.match]
  BY InHand DEF IngestIInv, Clear, ClearedEnded
<1>2. /\ loaded' = loaded \ {hand.match} /\ liveCache' = liveCache \ {hand.match}
      /\ buffer' = [buffer EXCEPT ![hand.match] = <<>>]
      /\ pc' = "Acking" /\ pc # "Getting"
      /\ UNCHANGED <<published, queue, held, connected, hand, isLive, saved, losses,
                     restarts, dbFaults, lossy>>
  BY DEF Clear, brokerVars, rowVars, boundVars
<1>3. /\ buffer' \in [Match -> Seq(1 .. Last)]
      /\ \A m \in Match : isLive[m] => buffer'[m] = buffer[m]
  <2>1. <<>> \in Seq(1 .. Last) /\ buffer \in [Match -> Seq(1 .. Last)]
    BY <1>1 DEF IngestTypeOK
  <2> QED
    BY <1>1, <1>2, <2>1
<1>4. loaded' \in SUBSET Match /\ liveCache' \in SUBSET Match
  BY <1>1, <1>2 DEF IngestTypeOK
<1>5. IngestTypeOK'
  BY <1>1, <1>2, <1>3, <1>4 DEF IngestTypeOK
<1>6. HandKept' /\ HandBuffered' /\ ClearedEnded'
  BY <1>1, <1>2 DEF IngestIInv, HandKept, HandBuffered, ClearedEnded
<1>7. AtLeastOnce'
  BY <1>2, <1>3 DEF IngestIInv, AtLeastOnce
<1> QED
  BY <1>5, <1>6, <1>7 DEF IngestIInv

\* A message is settled once the buffer has its event, or its match no use for it.
LEMMA SettleStep ==
  ASSUME IngestIInv, Ack \/ Nack
  PROVE  IngestIInv'
<1>1. IngestTypeOK /\ hand \in Message /\ hand.match \in Match
  BY InHand DEF IngestIInv, Ack, Nack
<1>2. /\ hand' = NoMessage /\ held' = FALSE /\ pc' = "Getting"
      /\ pc \in {"Acking", "Nacking"}
      /\ UNCHANGED <<published, queue, connected, loaded, buffer, liveCache, isLive, saved,
                     losses, restarts, dbFaults, lossy>>
  BY DEF Ack, Nack, Settle, cacheVars, rowVars, boundVars
<1>3. IngestTypeOK'
  BY <1>1, <1>2 DEF IngestTypeOK
<1>4. HandKept' /\ HandBuffered' /\ ClearedEnded'
  BY <1>2 DEF HandKept, HandBuffered, ClearedEnded
<1>5. ASSUME NEW m \in Match, isLive'[m], ~lossy'[m], NEW e \in 1 .. published'[m]
      PROVE  \/ [match |-> m, event |-> e] \in Elements(queue') \cup {hand'}
             \/ e \in Elements(buffer'[m])
  <2>1. isLive[m] /\ ~lossy[m] /\ e \in 1 .. published[m]
    BY <1>2, <1>5
  <2>2. \/ [match |-> m, event |-> e] \in Elements(queue)
        \/ [match |-> m, event |-> e] = hand
        \/ e \in Elements(buffer[m])
    BY <2>1 DEF IngestIInv, AtLeastOnce
  <2>3. CASE [match |-> m, event |-> e] = hand
    <3>1. hand.match = m /\ hand.event = e
      BY <2>3
    <3>2. e \in Elements(buffer[m])
      BY <1>2, <2>1, <3>1 DEF IngestIInv, HandBuffered
    <3> QED
      BY <1>2, <3>2
  <2> QED
    BY <1>2, <2>2, <2>3
<1> QED
  BY <1>3, <1>4, <1>5 DEF IngestIInv, AtLeastOnce

-----------------------------------------------------------------------------
LEMMA IngestStep == IngestIInv /\ [IngestNext]_ingestVars => IngestIInv'
<1> SUFFICES ASSUME IngestIInv, [IngestNext]_ingestVars PROVE IngestIInv'
  OBVIOUS
<1>1. ASSUME NEW m \in Match, Publish(m) PROVE IngestIInv'
  BY <1>1, PublishStep
<1>2. CASE ConnectionLost \/ Reconnect
  BY <1>2, ConnectionStep
<1>3. CASE Restart
  BY <1>3, RestartStep
<1>4. CASE Get
  BY <1>4, GetStep
<1>5. CASE HandleUnloaded
  BY <1>5, UnloadedStep
<1>6. CASE Handle
  BY <1>6, HandleStep
<1>7. CASE Flush
  BY <1>7, FlushStep
<1>8. CASE Clear
  BY <1>8, ClearStep
<1>9. CASE Ack \/ Nack
  BY <1>9, SettleStep
<1>10. CASE UNCHANGED ingestVars
  BY <1>10 DEF ingestVars, brokerVars, cacheVars, rowVars, boundVars, IngestIInv, IngestTypeOK,
     HandKept, HandBuffered, ClearedEnded, AtLeastOnce
<1> QED
  BY <1>1, <1>2, <1>3, <1>4, <1>5, <1>6, <1>7, <1>8, <1>9, <1>10 DEF IngestNext, Consume

LEMMA IngestInvariant == IngestSpec => []IngestIInv
<1>1. IngestInit => IngestIInv
  BY IngestInitOK
<1>2. IngestIInv /\ [IngestNext]_ingestVars => IngestIInv'
  BY IngestStep
<1> QED
  BY <1>1, <1>2, PTL DEF IngestSpec

\* Whatever connections, calls and processes fail and however often: a published
\* event of a match that is not persisted is in the queue, in the loop's hand or in
\* the buffer, unless the code gave it up (MatchEventRabbitMqClient,
\* MatchEventProcessor).
THEOREM EventsKept == IngestSpec => []AtLeastOnce
<1>1. IngestIInv => AtLeastOnce
  BY DEF IngestIInv
<1> QED
  BY <1>1, IngestInvariant, PTL

-----------------------------------------------------------------------------
(* The order of the events, and their copies *)

\* The events of a match that are ready for delivery.
WaitingIn(q, m) == {e \in 1 .. Last : [match |-> m, event |-> e] \in Elements(q)}
Waiting(m) == WaitingIn(queue, m)

Rising(s) == \A i \in 1 .. Len(s) - 1 : s[i] <= s[i + 1]

\* The messages of a match wait in the order in which they were published.
RisesByMatch(q) ==
  \A i, j \in 1 .. Len(q) : i < j /\ q[i].match = q[j].match => q[i].event < q[j].event

QueueRises == RisesByMatch(queue)

\* The buffer comes before what the loop handles, and that before what waits.
HandFirst ==
  pc # "Getting" =>
    /\ hand.event <= published[hand.match]
    /\ \A e \in Waiting(hand.match) : hand.event <= e /\ (held => hand.event < e)
    /\ \A b \in Elements(buffer[hand.match]) : b <= hand.event

BufferFirst ==
  \A m \in Match :
    /\ \A e \in Waiting(m) : e <= published[m]
    /\ \A b \in Elements(buffer[m]) : b <= published[m]
    /\ \A b \in Elements(buffer[m]), e \in Waiting(m) : b <= e

\* Only an end marker flushes; after the end nothing but a copy of it is left.
EndLast ==
  /\ pc \in {"Flushing", "Clearing", "Nacking"} => hand.event = Last
  /\ \A m \in Match : ~isLive[m] =>
       /\ published[m] = Last
       /\ \A e \in Waiting(m) : e = Last
       /\ pc # "Getting" /\ hand.match = m => hand.event = Last

\* The caches of an ended match are empty but while a flush of it is under way.
Emptied ==
  \A m \in Match : ~isLive[m] /\ dbFaults = 0 =>
    \/ pc \in {"Flushing", "Clearing"} /\ hand.match = m
    \/ m \notin loaded /\ m \notin liveCache /\ buffer[m] = <<>>

\* A buffer is cleared only when the row has it.
ClearedSaved ==
  pc = "Clearing" => buffer[hand.match] \in {<<>>, saved[hand.match]}

OrderIInv ==
  /\ QueueRises
  /\ HandFirst
  /\ BufferFirst
  /\ EndLast
  /\ Emptied
  /\ ClearedSaved
  /\ InOrder

\* Appending to the queue, putting back at its head, taking from its head.
LEMMA QueueAppend ==
  ASSUME NEW q \in Seq(Message), NEW x \in Message, RisesByMatch(q),
         \A e \in WaitingIn(q, x.match) : e < x.event
  PROVE  /\ RisesByMatch(Append(q, x))
         /\ WaitingIn(Append(q, x), x.match) = WaitingIn(q, x.match) \cup {x.event}
         /\ \A m \in Match \ {x.match} : WaitingIn(Append(q, x), m) = WaitingIn(q, m)
<1>1. /\ Len(Append(q, x)) = Len(q) + 1 /\ Len(q) \in Nat
      /\ \A i \in 1 .. Len(q) : Append(q, x)[i] = q[i] /\ q[i] \in Message
      /\ Append(q, x)[Len(q) + 1] = x
      /\ Elements(Append(q, x)) = Elements(q) \cup {x}
  BY AppendProperties, ElementsAppend, LenProperties, ElementOfSeq
<1>2. ASSUME NEW i \in 1 .. Len(q), q[i].match = x.match
      PROVE  q[i].event < x.event
  <2>1. q[i] = [match |-> x.match, event |-> q[i].event] /\ q[i].event \in 1 .. Last
    BY <1>1, <1>2, MessageParts
  <2>2. q[i] \in Elements(q)
    BY <1>1 DEF Elements
  <2> QED
    BY <2>1, <2>2 DEF WaitingIn
<1>3. RisesByMatch(Append(q, x))
  <2> SUFFICES ASSUME NEW i \in 1 .. Len(q) + 1, NEW j \in 1 .. Len(q) + 1, i < j,
                      Append(q, x)[i].match = Append(q, x)[j].match
               PROVE  Append(q, x)[i].event < Append(q, x)[j].event
    BY <1>1 DEF RisesByMatch
  <2>1. i \in 1 .. Len(q) /\ (j \in 1 .. Len(q) \/ j = Len(q) + 1)
    BY <1>1
  <2> QED
    BY <1>1, <1>2, <2>1 DEF RisesByMatch
<1>4. x = [match |-> x.match, event |-> x.event] /\ x.event \in 1 .. Last
  BY MessageParts
<1>5. \A m \in Match, e \in 1 .. Last :
        [match |-> m, event |-> e] = x <=> m = x.match /\ e = x.event
  BY <1>4, MessageParts
<1> QED
  BY <1>1, <1>3, <1>4, <1>5, MessageParts DEF WaitingIn

LEMMA QueuePrepend ==
  ASSUME NEW q \in Seq(Message), NEW x \in Message, RisesByMatch(q),
         \A e \in WaitingIn(q, x.match) : x.event < e
  PROVE  /\ RisesByMatch(<<x>> \o q)
         /\ WaitingIn(<<x>> \o q, x.match) = WaitingIn(q, x.match) \cup {x.event}
         /\ \A m \in Match \ {x.match} : WaitingIn(<<x>> \o q, m) = WaitingIn(q, m)
<1>1. /\ Len(<<x>> \o q) = Len(q) + 1 /\ Len(q) \in Nat
      /\ \A i \in 1 .. Len(q) : (<<x>> \o q)[i + 1] = q[i] /\ q[i] \in Message
      /\ (<<x>> \o q)[1] = x
      /\ Elements(<<x>> \o q) = Elements(q) \cup {x}
  <2>1. <<x>> \in Seq(Message) /\ Len(<<x>>) = 1 /\ <<x>>[1] = x
    OBVIOUS
  <2>2. Len(q) \in Nat /\ \A i \in 1 .. Len(q) : q[i] \in Message
    BY LenProperties, ElementOfSeq
  <2>3. /\ Len(<<x>> \o q) = 1 + Len(q)
        /\ \A i \in 1 .. 1 + Len(q) :
             (<<x>> \o q)[i] = IF i <= 1 THEN <<x>>[i] ELSE q[i - 1]
    BY <2>1, ConcatProperties
  <2>4. \A i \in 1 .. Len(q) : i + 1 \in 1 .. 1 + Len(q) /\ ~(i + 1 <= 1) /\ (i + 1) - 1 = i
    BY <2>2
  <2>5. 1 \in 1 .. 1 + Len(q)
    BY <2>2
  <2>6. (<<x>> \o q)[1] = x
    BY <2>1, <2>3, <2>5
  <2>7. \A i \in 1 .. Len(q) : (<<x>> \o q)[i + 1] = q[i]
    BY <2>3, <2>4
  <2> QED
    BY <2>2, <2>3, <2>6, <2>7, ElementsPrepend
<1>2. ASSUME NEW i \in 1 .. Len(q), q[i].match = x.match
      PROVE  x.event < q[i].event
  <2>1. q[i] = [match |-> x.match, event |-> q[i].event] /\ q[i].event \in 1 .. Last
    BY <1>1, <1>2, MessageParts
  <2>2. q[i] \in Elements(q)
    BY <1>1 DEF Elements
  <2> QED
    BY <2>1, <2>2 DEF WaitingIn
<1>3. RisesByMatch(<<x>> \o q)
  <2> SUFFICES ASSUME NEW i \in 1 .. Len(q) + 1, NEW j \in 1 .. Len(q) + 1, i < j,
                      (<<x>> \o q)[i].match = (<<x>> \o q)[j].match
               PROVE  (<<x>> \o q)[i].event < (<<x>> \o q)[j].event
    BY <1>1 DEF RisesByMatch
  <2>1. j - 1 \in 1 .. Len(q) /\ (j - 1) + 1 = j
    BY <1>1
  <2>2. (<<x>> \o q)[j] = q[j - 1]
    BY <1>1, <2>1
  <2>3. CASE i = 1
    BY <1>1, <1>2, <2>1, <2>2, <2>3
  <2>4. CASE i # 1
    <3>1. i - 1 \in 1 .. Len(q) /\ (i - 1) + 1 = i /\ i - 1 < j - 1
      BY <1>1, <2>4
    <3>2. (<<x>> \o q)[i] = q[i - 1]
      BY <1>1, <3>1
    <3> QED
      BY <2>1, <2>2, <3>1, <3>2 DEF RisesByMatch
  <2> QED
    BY <2>3, <2>4
<1>4. x = [match |-> x.match, event |-> x.event] /\ x.event \in 1 .. Last
  BY MessageParts
<1>5. \A m \in Match, e \in 1 .. Last :
        [match |-> m, event |-> e] = x <=> m = x.match /\ e = x.event
  BY <1>4, MessageParts
<1> QED
  BY <1>1, <1>3, <1>4, <1>5, MessageParts DEF WaitingIn

LEMMA QueueTail ==
  ASSUME NEW q \in Seq(Message), q # <<>>, RisesByMatch(q)
  PROVE  /\ RisesByMatch(Tail(q))
         /\ WaitingIn(q, Head(q).match) = WaitingIn(Tail(q), Head(q).match) \cup {Head(q).event}
         /\ \A m \in Match \ {Head(q).match} : WaitingIn(q, m) = WaitingIn(Tail(q), m)
         /\ \A e \in WaitingIn(Tail(q), Head(q).match) : Head(q).event < e
<1>1. /\ Head(q) \in Message /\ Tail(q) \in Seq(Message)
      /\ Len(Tail(q)) = Len(q) - 1 /\ Len(q) \in Nat \ {0}
      /\ \A i \in 1 .. Len(Tail(q)) : Tail(q)[i] = q[i + 1]
      /\ Elements(q) = {Head(q)} \cup Elements(Tail(q))
      /\ Head(q) = q[1]
  BY HeadTailProperties, ElementsTail, LenProperties, EmptySeq
<1>2. \A i \in 1 .. Len(Tail(q)) : i + 1 \in 1 .. Len(q) /\ 1 < i + 1
  BY <1>1
<1>3. RisesByMatch(Tail(q))
  <2> SUFFICES ASSUME NEW i \in 1 .. Len(Tail(q)), NEW j \in 1 .. Len(Tail(q)), i < j,
                      Tail(q)[i].match = Tail(q)[j].match
               PROVE  Tail(q)[i].event < Tail(q)[j].event
    BY DEF RisesByMatch
  <2>1. i + 1 < j + 1 /\ i + 1 \in 1 .. Len(q) /\ j + 1 \in 1 .. Len(q)
    BY <1>1, <1>2
  <2> QED
    BY <1>1, <2>1 DEF RisesByMatch
<1>4. Head(q) = [match |-> Head(q).match, event |-> Head(q).event] /\ Head(q).event \in 1 .. Last
  BY <1>1, MessageParts
<1>5. \A m \in Match, e \in 1 .. Last :
        [match |-> m, event |-> e] = Head(q) <=> m = Head(q).match /\ e = Head(q).event
  <2>1. \A x \in Message : \A m \in Match, e \in 1 .. Last :
          [match |-> m, event |-> e] = x <=> m = x.match /\ e = x.event
    BY MessageParts
  <2> QED
    BY <1>1, <2>1
<1>6. ASSUME NEW e \in WaitingIn(Tail(q), Head(q).match)
      PROVE  Head(q).event < e
  <2>1. PICK i \in DOMAIN Tail(q) : [match |-> Head(q).match, event |-> e] = Tail(q)[i]
    BY DEF WaitingIn, Elements
  <2>2. i \in 1 .. Len(Tail(q))
    BY <1>1, <2>1, LenProperties
  <2>3. q[i + 1].match = Head(q).match /\ q[i + 1].event = e
    <3>1. q[i + 1] = [match |-> Head(q).match, event |-> e]
      BY <1>1, <2>1, <2>2
    <3> QED
      BY <3>1
  <2>4. 1 \in 1 .. Len(q) /\ i + 1 \in 1 .. Len(q) /\ 1 < i + 1
    BY <1>1, <1>2, <2>2
  <2> QED
    BY <1>1, <2>3, <2>4 DEF RisesByMatch
<1>7. /\ WaitingIn(q, Head(q).match) = WaitingIn(Tail(q), Head(q).match) \cup {Head(q).event}
      /\ \A m \in Match \ {Head(q).match} : WaitingIn(q, m) = WaitingIn(Tail(q), m)
  <2>1. Head(q).match \in Match
    BY <1>1, MessageParts
  <2> QED
    BY <1>1, <1>4, <1>5, <2>1 DEF WaitingIn
<1> QED
  BY <1>3, <1>6, <1>7

\* Appending to a buffer what comes after all of it.
LEMMA RisingAppend ==
  ASSUME NEW s \in Seq(1 .. Last), NEW e \in 1 .. Last, Rising(s),
         \A b \in Elements(s) : b <= e
  PROVE  Rising(Append(s, e))
<1>1. /\ Len(Append(s, e)) = Len(s) + 1 /\ Len(s) \in Nat
      /\ \A i \in 1 .. Len(s) : Append(s, e)[i] = s[i] /\ s[i] \in Elements(s)
      /\ Append(s, e)[Len(s) + 1] = e
  BY AppendProperties, LenProperties DEF Elements
<1>2. ASSUME NEW i \in 1 .. Len(s)
      PROVE  Append(s, e)[i] <= Append(s, e)[i + 1]
  <2>1. CASE i = Len(s)
    BY <1>1, <2>1
  <2>2. CASE i # Len(s)
    <3>1. i \in 1 .. Len(s) - 1 /\ i + 1 \in 1 .. Len(s)
      BY <1>1, <2>2
    <3> QED
      BY <1>1, <3>1 DEF Rising
  <2> QED
    BY <2>1, <2>2
<1>3. Len(Append(s, e)) - 1 = Len(s)
  BY <1>1
<1> QED
  BY <1>2, <1>3 DEF Rising

\* The facts about the types that the steps use.
LEMMA OrderTypes ==
  ASSUME IngestTypeOK
  PROVE  /\ Last \in Nat \ {0}
         /\ published \in [Match -> 0 .. Last]
         /\ queue \in Seq(Message)
         /\ buffer \in [Match -> Seq(1 .. Last)]
         /\ saved \in [Match -> Seq(1 .. Last)]
         /\ isLive \in [Match -> BOOLEAN]
         /\ \A m \in Match : Elements(buffer[m]) \subseteq 1 .. Last
         /\ \A m \in Match : Waiting(m) \subseteq 1 .. Last
         /\ pc # "Getting" => hand \in Message /\ hand.match \in Match /\ hand.event \in 1 .. Last
<1>1. ASSUME NEW m \in Match
      PROVE  Elements(buffer[m]) \subseteq 1 .. Last
  <2>1. buffer[m] \in Seq(1 .. Last)
    BY DEF IngestTypeOK
  <2>2. \A s \in Seq(1 .. Last) : \A i \in DOMAIN s : s[i] \in 1 .. Last
    BY LenProperties, ElementOfSeq
  <2> QED
    BY <2>1, <2>2 DEF Elements
<1> QED
  BY <1>1, InHand, IngestAssumption DEF IngestTypeOK, Waiting, WaitingIn

LEMMA OrderInitOK == IngestInit => OrderIInv
<1> SUFFICES ASSUME IngestInit PROVE OrderIInv
  OBVIOUS
<1>1. \A m \in Match : Waiting(m) = {}
  BY ElementsEmpty DEF IngestInit, Waiting, WaitingIn
<1>2. \A m \in Match : Elements(buffer[m]) = {}
  BY ElementsEmpty DEF IngestInit
<1>3. QueueRises
  BY DEF IngestInit, QueueRises, RisesByMatch
<1>4. InOrder
  BY DEF IngestInit, InOrder
<1> QED
  BY <1>1, <1>2, <1>3, <1>4
  DEF IngestInit, OrderIInv, HandFirst, BufferFirst, EndLast, Emptied, ClearedSaved

\* One more event is published: it comes after everything there is.
LEMMA PublishOrder ==
  ASSUME IngestIInv, OrderIInv, NEW m \in Match, Publish(m)
  PROVE  OrderIInv'
<1>1. /\ published[m] \in 0 .. Last /\ published[m] < Last /\ Last \in Nat
      /\ published' = [published EXCEPT ![m] = published[m] + 1]
      /\ UNCHANGED <<held, connected, hand, pc, loaded, buffer, liveCache, isLive, saved,
                     restarts, dbFaults>>
  BY OrderTypes DEF IngestIInv, Publish, cacheVars, rowVars
<1> DEFINE x == [match |-> m, event |-> published[m] + 1]
<1>2. x \in Message /\ x.match = m /\ x.event = published[m] + 1
  BY <1>1, MessageParts
<1>3. \A k \in Match : published[k] \in 0 .. Last /\ published[k] <= published'[k]
  BY <1>1, OrderTypes DEF IngestIInv
<1>4. published'[m] = published[m] + 1 /\ \A k \in Match \ {m} : published'[k] = published[k]
  BY <1>1, OrderTypes DEF IngestIInv
<1>5. /\ QueueRises'
      /\ Waiting(m)' \subseteq Waiting(m) \cup {published[m] + 1}
      /\ \A k \in Match \ {m} : Waiting(k)' = Waiting(k)
  <2>1. CASE queue' = queue
    BY <2>1 DEF OrderIInv, QueueRises, Waiting
  <2>2. CASE queue' = Append(queue, x)
    <3>1. \A e \in WaitingIn(queue, x.match) : e < x.event
      <4>1. \A e \in Waiting(m) : e <= published[m] /\ e \in 1 .. Last
        BY OrderTypes DEF IngestIInv, OrderIInv, BufferFirst
      <4> QED
        BY <1>1, <1>2, <4>1 DEF Waiting
    <3>2. queue \in Seq(Message) /\ RisesByMatch(queue)
      BY OrderTypes DEF IngestIInv, OrderIInv, QueueRises
    <3>3. /\ RisesByMatch(Append(queue, x))
          /\ WaitingIn(Append(queue, x), x.match) = WaitingIn(queue, x.match) \cup {x.event}
          /\ \A k \in Match \ {x.match} : WaitingIn(Append(queue, x), k) = WaitingIn(queue, k)
      <4> HIDE DEF x
      <4> QED
        BY <1>2, <3>1, <3>2, QueueAppend
    <3>4. /\ WaitingIn(queue', m) = WaitingIn(queue, m) \cup {published[m] + 1}
          /\ \A k \in Match \ {m} : WaitingIn(queue', k) = WaitingIn(queue, k)
          /\ RisesByMatch(queue')
      BY <1>2, <2>2, <3>3
    <3> QED
      BY <3>4 DEF QueueRises, Waiting
  <2> QED
    BY <2>1, <2>2 DEF Publish
<1>6. HandFirst'
  <2>1. CASE pc = "Getting"
    BY <1>1, <2>1 DEF HandFirst
  <2>2. CASE pc # "Getting"
    <3>1. /\ hand.match \in Match /\ hand.event \in 1 .. Last
          /\ hand.event <= published[hand.match]
          /\ \A e \in Waiting(hand.match) :
               hand.event <= e /\ (held => hand.event < e) /\ e \in 1 .. Last
          /\ \A b \in Elements(buffer[hand.match]) : b <= hand.event
      BY <2>2, OrderTypes DEF IngestIInv, OrderIInv, HandFirst
    <3>2. hand.event <= published'[hand.match]
      BY <1>3, <1>4, <3>1
    <3>3. ASSUME NEW k \in Match, k = hand.match
          PROVE  \A e \in Waiting(k)' : hand.event <= e /\ (held => hand.event < e)
      BY <1>3, <1>5, <3>1, <3>3
    <3> QED
      BY <1>1, <3>1, <3>2, <3>3 DEF HandFirst
  <2> QED
    BY <2>1, <2>2
<1>7. BufferFirst'
  <2> SUFFICES ASSUME NEW k \in Match
               PROVE  /\ \A e \in Waiting(k)' : e <= published'[k]
                      /\ \A b \in Elements(buffer[k]) : b <= published'[k]
                      /\ \A b \in Elements(buffer[k]), e \in Waiting(k)' : b <= e
    BY <1>1 DEF BufferFirst
  <2>1. /\ \A e \in Waiting(k) : e <= published[k] /\ e \in 1 .. Last
        /\ \A b \in Elements(buffer[k]) : b <= published[k] /\ b \in 1 .. Last
        /\ \A b \in Elements(buffer[k]), e \in Waiting(k) : b <= e
    BY OrderTypes DEF IngestIInv, OrderIInv, BufferFirst
  <2>2. CASE k = m
    BY <1>1, <1>4, <1>5, <2>1, <2>2
  <2>3. CASE k # m
    BY <1>4, <1>5, <2>1, <2>3
  <2> QED
    BY <2>2, <2>3
<1>8. EndLast'
  <2>1. isLive[m]
    BY <1>1 DEF OrderIInv, EndLast
  <2> QED
    BY <1>1, <1>4, <1>5, <2>1 DEF OrderIInv, EndLast
<1>9. Emptied' /\ ClearedSaved' /\ InOrder'
  BY <1>1 DEF OrderIInv, Emptied, ClearedSaved, InOrder
<1> QED
  BY <1>5, <1>6, <1>7, <1>8, <1>9 DEF OrderIInv

\* What is put back was before everything that waits.
LEMMA RequeuedOrder ==
  ASSUME IngestIInv, OrderIInv
  PROVE  /\ RisesByMatch(Requeued)
         /\ held => /\ pc # "Getting"
                    /\ WaitingIn(Requeued, hand.match) = Waiting(hand.match) \cup {hand.event}
                    /\ \A m \in Match \ {hand.match} : WaitingIn(Requeued, m) = Waiting(m)
         /\ ~held => \A m \in Match : WaitingIn(Requeued, m) = Waiting(m)
<1>1. CASE held
  <2>1. pc # "Getting" /\ hand \in Message /\ queue \in Seq(Message)
    BY <1>1, OrderTypes DEF IngestIInv, IngestTypeOK
  <2>2. RisesByMatch(queue) /\ \A e \in WaitingIn(queue, hand.match) : hand.event < e
    BY <1>1, <2>1 DEF OrderIInv, QueueRises, HandFirst, Waiting
  <2>3. Requeued = <<hand>> \o queue
    BY <1>1 DEF Requeued
  <2>4. /\ RisesByMatch(<<hand>> \o queue)
        /\ WaitingIn(<<hand>> \o queue, hand.match) = WaitingIn(queue, hand.match) \cup {hand.event}
        /\ \A m \in Match \ {hand.match} : WaitingIn(<<hand>> \o queue, m) = WaitingIn(queue, m)
    BY <2>1, <2>2, QueuePrepend
  <2> QED
    BY <1>1, <2>1, <2>3, <2>4 DEF Waiting
<1>2. CASE ~held
  BY <1>2 DEF Requeued, OrderIInv, QueueRises, Waiting
<1> QED
  BY <1>1, <1>2

LEMMA ConnectionOrder ==
  ASSUME IngestIInv, OrderIInv, ConnectionLost \/ Reconnect
  PROVE  OrderIInv'
<1>1. CASE ConnectionLost
  <2>1. /\ UNCHANGED <<published, hand, pc, loaded, buffer, liveCache, isLive, saved,
                       restarts, dbFaults, lossy>>
        /\ ~held' /\ queue' = Requeued
    BY <1>1 DEF ConnectionLost, cacheVars, rowVars
  <2>2. QueueRises'
    BY <2>1, RequeuedOrder DEF QueueRises
  <2>3. /\ \A m \in Match : Waiting(m)' = Waiting(m)
             \/ (pc # "Getting" /\ m = hand.match /\ Waiting(m)' = Waiting(m) \cup {hand.event})
    BY <2>1, RequeuedOrder DEF Waiting
  <2>4. pc # "Getting" => hand.match \in Match /\ hand.event \in 1 .. Last
    BY OrderTypes DEF IngestIInv
  <2>5. HandFirst'
    <3>1. CASE pc = "Getting"
      BY <2>1, <3>1 DEF HandFirst
    <3>2. CASE pc # "Getting"
      <4>1. ASSUME NEW k \in Match, k = hand.match
            PROVE  \A e \in Waiting(k)' : hand.event <= e
        BY <2>3, <2>4, <3>2, <4>1 DEF OrderIInv, HandFirst
      <4> QED
        BY <2>1, <2>4, <3>2, <4>1 DEF OrderIInv, HandFirst
    <3> QED
      BY <3>1, <3>2
  <2>6. BufferFirst'
    <3> SUFFICES ASSUME NEW m \in Match
                 PROVE  /\ \A e \in Waiting(m)' : e <= published[m]
                        /\ \A b \in Elements(buffer[m]) : b <= published[m]
                        /\ \A b \in Elements(buffer[m]), e \in Waiting(m)' : b <= e
      BY <2>1 DEF BufferFirst
    <3>1. pc # "Getting" /\ m = hand.match =>
            /\ hand.event <= published[m]
            /\ \A b \in Elements(buffer[m]) : b <= hand.event
      BY DEF OrderIInv, HandFirst
    <3> QED
      BY <2>3, <3>1 DEF OrderIInv, BufferFirst
  <2>7. EndLast'
    BY <2>1, <2>3 DEF OrderIInv, EndLast
  <2>8. Emptied' /\ ClearedSaved' /\ InOrder'
    BY <2>1 DEF OrderIInv, Emptied, ClearedSaved, InOrder
  <2> QED
    BY <2>2, <2>5, <2>6, <2>7, <2>8 DEF OrderIInv
<1>2. CASE Reconnect
  <2>1. UNCHANGED <<published, queue, held, hand, pc, loaded, buffer, liveCache, isLive, saved,
                    dbFaults>>
    BY <1>2 DEF Reconnect, cacheVars, rowVars, boundVars
  <2>2. \A m \in Match : Waiting(m)' = Waiting(m)
    BY <2>1 DEF Waiting
  <2>3. pc # "Getting" => hand.match \in Match
    BY OrderTypes DEF IngestIInv
  <2> QED
    BY <2>1, <2>2, <2>3 DEF OrderIInv, QueueRises, HandFirst, BufferFirst, EndLast, Emptied,
       ClearedSaved, InOrder
<1> QED
  BY <1>1, <1>2

LEMMA RestartOrder ==
  ASSUME IngestIInv, OrderIInv, Restart
  PROVE  OrderIInv'
<1>1. /\ queue' = Requeued /\ pc' = "Getting"
      /\ loaded' = {} /\ liveCache' = {}
      /\ buffer' = [m \in Match |-> <<>>]
      /\ UNCHANGED <<published, isLive, saved, dbFaults>>
  BY DEF Restart, rowVars
<1>2. \A m \in Match : buffer'[m] = <<>> /\ Elements(buffer'[m]) = {}
  BY <1>1, ElementsEmpty
<1>3. QueueRises'
  BY <1>1, RequeuedOrder DEF QueueRises
<1>4. \A m \in Match : Waiting(m)' = Waiting(m)
        \/ (pc # "Getting" /\ m = hand.match /\ Waiting(m)' = Waiting(m) \cup {hand.event})
  BY <1>1, RequeuedOrder DEF Waiting
<1>5. BufferFirst'
  <2>1. ASSUME NEW m \in Match, NEW e \in Waiting(m)'
        PROVE  e <= published'[m]
    BY <1>1, <1>4 DEF OrderIInv, BufferFirst, HandFirst
  <2> QED
    BY <1>2, <2>1 DEF BufferFirst
<1>6. EndLast'
  BY <1>1, <1>4 DEF OrderIInv, EndLast
<1>7. InOrder'
  <2>1. \A m \in Match : \A i \in 1 .. Len(saved'[m]) - 1 : saved'[m][i] <= saved'[m][i + 1]
    BY <1>1 DEF OrderIInv, InOrder
  <2>2. \A m \in Match : 1 .. Len(buffer'[m]) - 1 = {}
    BY <1>2
  <2> QED
    BY <2>1, <2>2 DEF InOrder
<1>8. HandFirst' /\ Emptied' /\ ClearedSaved'
  BY <1>1, <1>2 DEF HandFirst, Emptied, ClearedSaved
<1> QED
  BY <1>3, <1>5, <1>6, <1>7, <1>8 DEF OrderIInv

LEMMA GetOrder ==
  ASSUME IngestIInv, OrderIInv, Get
  PROVE  OrderIInv'
<1>1. /\ queue \in Seq(Message) /\ queue # <<>>
      /\ hand' = Head(queue) /\ queue' = Tail(queue)
      /\ held' = TRUE /\ pc' = "Handling" /\ pc = "Getting"
      /\ UNCHANGED <<published, loaded, buffer, liveCache, isLive, saved, dbFaults>>
  BY OrderTypes DEF IngestIInv, Get, cacheVars, rowVars, boundVars
<1>2. /\ RisesByMatch(queue')
      /\ WaitingIn(queue, hand'.match) = WaitingIn(queue', hand'.match) \cup {hand'.event}
      /\ \A m \in Match \ {hand'.match} : WaitingIn(queue, m) = WaitingIn(queue', m)
      /\ \A e \in WaitingIn(queue', hand'.match) : hand'.event < e
  BY <1>1, QueueTail DEF OrderIInv, QueueRises
<1>3. hand' \in Message /\ hand'.match \in Match /\ hand'.event \in 1 .. Last
  BY <1>1, HeadTailProperties, MessageParts
<1>4. PICK h \in Match : h = hand'.match
  BY <1>3
<1>5. /\ hand'.event \in Waiting(h)
      /\ \A e \in Waiting(h)' : hand'.event < e
      /\ \A m \in Match : Waiting(m)' \subseteq Waiting(m)
  BY <1>2, <1>4 DEF Waiting
<1>6. \A e \in Waiting(h)' : hand'.event <= e
  <2>1. \A e \in Waiting(h)' : e \in 1 .. Last
    BY DEF Waiting, WaitingIn
  <2> QED
    BY <1>3, <1>5, <2>1
<1>7. HandFirst'
  <2>1. /\ hand'.event <= published[h]
        /\ \A b \in Elements(buffer[h]) : b <= hand'.event
    BY <1>5 DEF OrderIInv, BufferFirst
  <2> QED
    BY <1>1, <1>4, <1>5, <1>6, <2>1 DEF HandFirst
<1>8. BufferFirst'
  BY <1>1, <1>5 DEF OrderIInv, BufferFirst
<1>9. EndLast'
  <2>1. ~isLive[h] => hand'.event = Last
    BY <1>5 DEF OrderIInv, EndLast
  <2> QED
    BY <1>1, <1>4, <1>5, <2>1 DEF OrderIInv, EndLast
<1>10. QueueRises' /\ Emptied' /\ ClearedSaved' /\ InOrder'
  BY <1>1, <1>2 DEF OrderIInv, QueueRises, Emptied, ClearedSaved, InOrder
<1> QED
  BY <1>7, <1>8, <1>9, <1>10 DEF OrderIInv

LEMMA UnloadedOrder ==
  ASSUME IngestIInv, OrderIInv, HandleUnloaded
  PROVE  OrderIInv'
<1>1. /\ IngestTypeOK /\ hand.match \in Match
      /\ dbFaults \in Nat /\ dbFaults' = dbFaults + 1
      /\ pc = "Handling" /\ pc' = IF hand.event = Last THEN "Flushing" ELSE "Acking"
      /\ UNCHANGED <<published, queue, held, hand, loaded, buffer, liveCache, isLive, saved>>
  BY InHand DEF IngestIInv, IngestTypeOK, HandleUnloaded, DatabaseFault, AfterHandling,
     brokerVars, cacheVars, rowVars
<1>2. \A m \in Match : Waiting(m)' = Waiting(m)
  BY <1>1 DEF Waiting
<1>3. dbFaults' # 0
  BY <1>1
<1> QED
  BY <1>1, <1>2, <1>3 DEF OrderIInv, QueueRises, HandFirst, BufferFirst, EndLast, Emptied,
     ClearedSaved, InOrder

\* The buffer grows by an event that comes after all of it.
LEMMA HandleOrder ==
  ASSUME IngestIInv, OrderIInv, Handle
  PROVE  OrderIInv'
<1>1. PICK h \in Match : h = hand.match
  BY InHand DEF IngestIInv, Handle
<1>2. PICK v \in 1 .. Last : v = hand.event
  BY InHand DEF IngestIInv, Handle
<1>3. /\ loaded' = loaded \cup {h}
      /\ buffer' = [buffer EXCEPT ![h] = Append(buffer[h], v)]
      /\ liveCache' = liveCache \cup {h} \/ (v < Last /\ liveCache' = liveCache)
      /\ pc = "Handling" /\ pc' = IF v = Last THEN "Flushing" ELSE "Acking"
      /\ UNCHANGED <<published, queue, held, hand, isLive, saved, dbFaults>>
  BY <1>1, <1>2 DEF Handle, AfterHandling, brokerVars, rowVars, boundVars
<1>4. \A m \in Match : Waiting(m)' = Waiting(m)
  BY <1>3 DEF Waiting
<1>5. /\ Last \in Nat \ {0} /\ buffer \in [Match -> Seq(1 .. Last)]
      /\ buffer'[h] = Append(buffer[h], v)
      /\ Elements(buffer'[h]) = Elements(buffer[h]) \cup {v}
      /\ \A m \in Match \ {h} : buffer'[m] = buffer[m]
  <2>1. Last \in Nat \ {0} /\ buffer \in [Match -> Seq(1 .. Last)]
    BY OrderTypes DEF IngestIInv
  <2>2. /\ buffer'[h] = Append(buffer[h], v)
        /\ \A m \in Match \ {h} : buffer'[m] = buffer[m]
    BY <1>3, <2>1
  <2>3. \A s \in Seq(1 .. Last), e \in 1 .. Last :
          /\ Append(s, e) \in Seq(1 .. Last)
          /\ Elements(Append(s, e)) = Elements(s) \cup {e}
    BY ElementsAppend
  <2>4. Elements(Append(buffer[h], v)) = Elements(buffer[h]) \cup {v}
    BY <2>1, <2>3
  <2> QED
    BY <2>1, <2>2, <2>4
<1>6. /\ v <= published[h]
      /\ \A e \in Waiting(h) : v <= e /\ (held => v < e)
      /\ \A b \in Elements(buffer[h]) : b <= v
  BY <1>1, <1>2, <1>3 DEF OrderIInv, HandFirst
<1>7. HandFirst'
  BY <1>1, <1>2, <1>3, <1>4, <1>5, <1>6 DEF HandFirst
<1>8. BufferFirst'
  BY <1>3, <1>4, <1>5, <1>6 DEF OrderIInv, BufferFirst
<1>9. EndLast'
  BY <1>1, <1>2, <1>3, <1>4 DEF OrderIInv, EndLast
<1>10. Emptied'
  <2> SUFFICES ASSUME NEW m \in Match, ~isLive[m], dbFaults = 0
               PROVE  \/ pc' = "Flushing" /\ h = m
                      \/ m \notin loaded' /\ m \notin liveCache' /\ buffer'[m] = <<>>
    BY <1>1, <1>3 DEF Emptied
  <2>1. CASE m = h
    <3>1. v = Last
      BY <1>1, <1>2, <1>3, <2>1 DEF OrderIInv, EndLast
    <3> QED
      BY <1>3, <2>1, <3>1
  <2>2. CASE m # h
    <3>1. m \notin loaded /\ m \notin liveCache /\ buffer[m] = <<>>
      BY <1>3 DEF OrderIInv, Emptied
    <3> QED
      BY <1>3, <1>5, <2>2, <3>1
  <2> QED
    BY <2>1, <2>2
<1>11. InOrder'
  <2>1. Rising(buffer[h])
    BY DEF OrderIInv, InOrder, Rising
  <2>2. Rising(buffer'[h])
    BY <1>5, <1>6, <2>1, RisingAppend
  <2>3. \A m \in Match : Rising(buffer'[m]) /\ Rising(saved'[m])
    BY <1>3, <1>5, <2>2 DEF OrderIInv, InOrder, Rising
  <2> QED
    BY <2>3 DEF InOrder, Rising
<1>12. QueueRises' /\ ClearedSaved'
  BY <1>3 DEF OrderIInv, QueueRises, ClearedSaved
<1> QED
  BY <1>7, <1>8, <1>9, <1>10, <1>11, <1>12 DEF OrderIInv

\* The row takes over the order of the buffer, and its match is at its end.
LEMMA FlushOrder ==
  ASSUME IngestIInv, OrderIInv, Flush
  PROVE  OrderIInv'
<1>1. PICK h \in Match : h = hand.match
  BY InHand DEF IngestIInv, Flush
<1>2. /\ pc = "Flushing" /\ pc' \in {"Clearing", "Nacking"}
      /\ UNCHANGED <<published, queue, held, hand, loaded, buffer, liveCache>>
  BY DEF Flush, brokerVars, cacheVars
<1>3. /\ isLive \in [Match -> BOOLEAN] /\ saved \in [Match -> Seq(1 .. Last)]
      /\ published \in [Match -> 0 .. Last] /\ dbFaults \in Nat /\ Last \in Nat
      /\ \A m \in Match : Waiting(m) \subseteq 1 .. Last
  <2>1. dbFaults \in Nat
    BY DEF IngestIInv, IngestTypeOK
  <2> QED
    BY <2>1, OrderTypes DEF IngestIInv
<1>4. \A m \in Match : Waiting(m)' = Waiting(m)
  BY <1>2 DEF Waiting
<1>5. CASE Committed(h)
  <2>1. /\ isLive' = [isLive EXCEPT ![h] = FALSE]
        /\ saved' = [saved EXCEPT ![h] = IF buffer[h] # <<>> THEN buffer[h] ELSE saved[h]]
    BY <1>5 DEF Committed
  <2>2. /\ saved'[h] = buffer[h] \/ (buffer[h] = <<>> /\ saved'[h] = saved[h])
        /\ \A m \in Match \ {h} : saved'[m] = saved[m]
        /\ \A m \in Match \ {h} : isLive'[m] = isLive[m]
    BY <1>3, <2>1
  <2>3. /\ hand.event = Last /\ hand.event <= published[h]
        /\ \A e \in Waiting(h) : hand.event <= e
    BY <1>1, <1>2 DEF OrderIInv, HandFirst, EndLast
  <2>4. published[h] = Last /\ \A e \in Waiting(h) : e = Last
    BY <1>3, <2>3
  <2>5. EndLast'
    BY <1>1, <1>2, <1>4, <2>2, <2>3, <2>4 DEF OrderIInv, EndLast
  <2>6. InOrder'
    BY <1>2, <2>2 DEF OrderIInv, InOrder
  <2>7. ClearedSaved'
    BY <1>1, <1>2, <2>2 DEF ClearedSaved
  <2>8. \/ pc' = "Clearing" /\ dbFaults' = dbFaults
        \/ dbFaults' = dbFaults + 1
    BY <1>2 DEF Flush, DatabaseFault
  <2>9. Emptied'
    BY <1>1, <1>2, <1>3, <2>2, <2>8 DEF OrderIInv, Emptied
  <2>10. QueueRises' /\ HandFirst' /\ BufferFirst'
    <3>1. hand.match \in Match
      BY <1>1
    <3> QED
      BY <1>2, <1>4, <3>1 DEF OrderIInv, QueueRises, HandFirst, BufferFirst
  <2> QED
    BY <2>5, <2>6, <2>7, <2>9, <2>10 DEF OrderIInv
<1>6. CASE isLive' = isLive /\ saved' = saved /\ pc' = "Nacking" /\ dbFaults' = dbFaults + 1
  <2>1. hand.match \in Match
    BY <1>1
  <2> QED
    BY <1>2, <1>3, <1>4, <1>6, <2>1 DEF OrderIInv, QueueRises, HandFirst, BufferFirst, EndLast,
       Emptied, ClearedSaved, InOrder
<1> QED
  BY <1>1, <1>5, <1>6 DEF Flush, DatabaseFault, rowVars

LEMMA ClearOrder ==
  ASSUME IngestIInv, OrderIInv, Clear
  PROVE  OrderIInv'
<1>1. PICK h \in Match : h = hand.match
  BY InHand DEF IngestIInv, Clear
<1>2. /\ loaded' = loaded \ {h} /\ liveCache' = liveCache \ {h}
      /\ buffer' = [buffer EXCEPT ![h] = <<>>]
      /\ pc = "Clearing" /\ pc' = "Acking"
      /\ UNCHANGED <<published, queue, held, hand, isLive, saved, dbFaults>>
  BY <1>1 DEF Clear, brokerVars, rowVars, boundVars
<1>3. /\ buffer'[h] = <<>> /\ Elements(buffer'[h]) = {}
      /\ \A m \in Match \ {h} : buffer'[m] = buffer[m]
  BY <1>2, OrderTypes, ElementsEmpty DEF IngestIInv
<1>4. \A m \in Match : Waiting(m)' = Waiting(m)
  BY <1>2 DEF Waiting
<1>5. HandFirst' /\ BufferFirst' /\ EndLast'
  BY <1>1, <1>2, <1>3, <1>4 DEF OrderIInv, HandFirst, BufferFirst, EndLast
<1>6. Emptied'
  BY <1>1, <1>2, <1>3 DEF OrderIInv, Emptied
<1>7. InOrder'
  <2>1. 1 .. Len(buffer'[h]) - 1 = {}
    BY <1>3
  <2> QED
    BY <1>2, <1>3, <2>1 DEF OrderIInv, InOrder
<1>8. QueueRises' /\ ClearedSaved'
  BY <1>2 DEF OrderIInv, QueueRises, ClearedSaved
<1> QED
  BY <1>5, <1>6, <1>7, <1>8 DEF OrderIInv

LEMMA SettleOrder ==
  ASSUME IngestIInv, OrderIInv, Ack \/ Nack
  PROVE  OrderIInv'
<1>1. /\ pc' = "Getting" /\ pc \in {"Acking", "Nacking"}
      /\ UNCHANGED <<published, queue, loaded, buffer, liveCache, isLive, saved, dbFaults>>
  BY DEF Ack, Nack, Settle, cacheVars, rowVars, boundVars
<1>2. \A m \in Match : Waiting(m)' = Waiting(m)
  BY <1>1 DEF Waiting
<1> QED
  BY <1>1, <1>2 DEF OrderIInv, QueueRises, HandFirst, BufferFirst, EndLast, Emptied,
     ClearedSaved, InOrder

LEMMA OrderStep == IngestIInv /\ OrderIInv /\ [IngestNext]_ingestVars => OrderIInv'
<1> SUFFICES ASSUME IngestIInv, OrderIInv, [IngestNext]_ingestVars PROVE OrderIInv'
  OBVIOUS
<1>1. ASSUME NEW m \in Match, Publish(m) PROVE OrderIInv'
  BY <1>1, PublishOrder
<1>2. CASE ConnectionLost \/ Reconnect
  BY <1>2, ConnectionOrder
<1>3. CASE Restart
  BY <1>3, RestartOrder
<1>4. CASE Get
  BY <1>4, GetOrder
<1>5. CASE HandleUnloaded
  BY <1>5, UnloadedOrder
<1>6. CASE Handle
  BY <1>6, HandleOrder
<1>7. CASE Flush
  BY <1>7, FlushOrder
<1>8. CASE Clear
  BY <1>8, ClearOrder
<1>9. CASE Ack \/ Nack
  BY <1>9, SettleOrder
<1>10. CASE UNCHANGED ingestVars
  <2>1. UNCHANGED <<published, queue, held, hand, pc, loaded, buffer, liveCache, isLive, saved,
                    dbFaults>>
    BY <1>10 DEF ingestVars, brokerVars, cacheVars, rowVars, boundVars
  <2>2. \A m \in Match : Waiting(m)' = Waiting(m)
    BY <2>1 DEF Waiting
  <2>3. pc # "Getting" => hand.match \in Match
    BY OrderTypes DEF IngestIInv
  <2> QED
    BY <2>1, <2>2, <2>3 DEF OrderIInv, QueueRises, HandFirst, BufferFirst, EndLast, Emptied,
       ClearedSaved, InOrder
<1> QED
  BY <1>1, <1>2, <1>3, <1>4, <1>5, <1>6, <1>7, <1>8, <1>9, <1>10 DEF IngestNext, Consume

LEMMA OrderInvariant == IngestSpec => []OrderIInv
<1>1. IngestInit => OrderIInv
  BY OrderInitOK
<1>2. IngestIInv /\ OrderIInv /\ [IngestNext]_ingestVars => OrderIInv'
  BY OrderStep
<1> QED
  BY <1>1, <1>2, IngestInvariant, PTL DEF IngestSpec

-----------------------------------------------------------------------------
\* The loop is about to buffer an event that the buffer has.
InHandAgain(m) ==
  pc = "Handling" /\ hand.match = m /\ hand.event \in Elements(buffer[m])

\* A message waits whose event the buffer has, or is about to get.
InQueueAgain(m) ==
  \E e \in Waiting(m) :
    \/ e \in Elements(buffer[m])
    \/ pc = "Handling" /\ hand = [match |-> m, event |-> e]

CopyInHand(m) == IF InHandAgain(m) THEN 1 ELSE 0
CopyInQueue(m) == IF InQueueAgain(m) THEN 1 ELSE 0

\* Every copy of an event, made or still to be made, has cost a connection.
CopiesPaid ==
  \A m \in Match :
    Len(buffer[m]) + CopyInHand(m) + CopyInQueue(m)
      <= Cardinality(Elements(buffer[m])) + losses

LEMMA CountTypes ==
  ASSUME IngestTypeOK
  PROVE  /\ losses \in Nat
         /\ \A m \in Match :
              /\ Len(buffer[m]) \in Nat
              /\ IsFiniteSet(Elements(buffer[m]))
              /\ Cardinality(Elements(buffer[m])) \in Nat
              /\ CopyInHand(m) \in {0, 1} /\ CopyInQueue(m) \in {0, 1}
<1>1. losses \in Nat
  BY DEF IngestTypeOK
<1>2. ASSUME NEW m \in Match
      PROVE  /\ Len(buffer[m]) \in Nat
             /\ IsFiniteSet(Elements(buffer[m]))
             /\ Cardinality(Elements(buffer[m])) \in Nat
  <2>1. buffer[m] \in Seq(1 .. Last) /\ Elements(buffer[m]) \subseteq 1 .. Last
    BY OrderTypes
  <2>2. IsFiniteSet(1 .. Last)
    BY FS_Interval, IngestAssumption
  <2>3. IsFiniteSet(Elements(buffer[m]))
    BY <2>1, <2>2, FS_Subset
  <2> QED
    BY <2>1, <2>3, FS_CardinalityType, LenProperties
<1>3. \A m \in Match : CopyInHand(m) \in {0, 1} /\ CopyInQueue(m) \in {0, 1}
  BY DEF CopyInHand, CopyInQueue
<1> QED
  BY <1>1, <1>2, <1>3

LEMMA SumStays ==
  \A n, c, a, w, a1, w1, x, x1 \in Nat :
    n + a + w <= c + x /\ a1 <= a /\ w1 <= w + (x1 - x) => n + a1 + w1 <= c + x1
  OBVIOUS

\* A buffer that stays as it is and gets no new copy under way.
LEMMA CopiesStay ==
  ASSUME IngestTypeOK, CopiesPaid, NEW m \in Match, losses' \in Nat, losses <= losses',
         buffer'[m] = buffer[m],
         InHandAgain(m)' => InHandAgain(m),
         InQueueAgain(m)' => InQueueAgain(m) \/ losses' = losses + 1
  PROVE  Len(buffer'[m]) + CopyInHand(m)' + CopyInQueue(m)'
           <= Cardinality(Elements(buffer'[m])) + losses'
<1>1. /\ CopyInHand(m)' \in {0, 1} /\ CopyInQueue(m)' \in {0, 1}
      /\ CopyInHand(m)' <= CopyInHand(m)
      /\ CopyInQueue(m)' <= CopyInQueue(m) + (losses' - losses)
  BY CountTypes DEF CopyInHand, CopyInQueue
<1>2. Len(buffer[m]) + CopyInHand(m) + CopyInQueue(m)
        <= Cardinality(Elements(buffer[m])) + losses
  BY DEF CopiesPaid
<1>3. /\ losses \in Nat /\ Len(buffer[m]) \in Nat /\ Cardinality(Elements(buffer[m])) \in Nat
      /\ CopyInHand(m) \in {0, 1} /\ CopyInQueue(m) \in {0, 1}
  BY CountTypes
<1>4. /\ Len(buffer'[m]) = Len(buffer[m])
      /\ Cardinality(Elements(buffer'[m])) = Cardinality(Elements(buffer[m]))
  OBVIOUS
<1>5. /\ CopyInHand(m) \in Nat /\ CopyInQueue(m) \in Nat
      /\ CopyInHand(m)' \in Nat /\ CopyInQueue(m)' \in Nat
  <2>1. {0, 1} \subseteq Nat
    OBVIOUS
  <2> QED
    BY <1>1, <1>3, <2>1, Zenon
<1>6. Len(buffer[m]) + CopyInHand(m)' + CopyInQueue(m)'
        <= Cardinality(Elements(buffer[m])) + losses'
  BY <1>1, <1>2, <1>3, <1>5, SumStays
<1> QED
  BY <1>4, <1>6

\* An empty buffer with nothing on its way into it.
LEMMA CopiesNone ==
  ASSUME NEW m \in Match, losses' \in Nat, buffer'[m] = <<>>, pc' # "Handling"
  PROVE  Len(buffer'[m]) + CopyInHand(m)' + CopyInQueue(m)'
           <= Cardinality(Elements(buffer'[m])) + losses'
<1>1. Elements(buffer'[m]) = {} /\ Len(buffer'[m]) = 0
  BY ElementsEmpty
<1>2. ~InHandAgain(m)' /\ ~InQueueAgain(m)'
  BY <1>1 DEF InHandAgain, InQueueAgain
<1>3. Cardinality(Elements(buffer'[m])) = 0
  BY <1>1, FS_EmptySet
<1> QED
  BY <1>1, <1>2, <1>3 DEF CopyInHand, CopyInQueue

LEMMA CopiesInitOK == IngestInit => CopiesPaid
<1> SUFFICES ASSUME IngestInit, NEW m \in Match
             PROVE  Len(buffer[m]) + CopyInHand(m) + CopyInQueue(m)
                      <= Cardinality(Elements(buffer[m])) + losses
  BY DEF CopiesPaid
<1>1. /\ Elements(buffer[m]) = {} /\ Len(buffer[m]) = 0 /\ losses = 0 /\ pc = "Getting"
  BY ElementsEmpty DEF IngestInit
<1>2. ~InHandAgain(m) /\ ~InQueueAgain(m)
  BY <1>1 DEF InHandAgain, InQueueAgain
<1>3. Cardinality(Elements(buffer[m])) = 0
  BY <1>1, FS_EmptySet
<1> QED
  BY <1>1, <1>2, <1>3 DEF CopyInHand, CopyInQueue

\* The steps that leave the buffers alone: only a lost connection makes a copy.
LEMMA CopiesQuiet ==
  ASSUME IngestIInv, IngestIInv', OrderIInv, CopiesPaid,
         \/ \E m \in Match : Publish(m)
         \/ ConnectionLost \/ Reconnect \/ HandleUnloaded \/ Flush \/ Ack \/ Nack
         \/ UNCHANGED ingestVars
  PROVE  CopiesPaid'
<1>1. /\ UNCHANGED buffer
      /\ pc' = "Handling" => pc = "Handling" /\ hand' = hand
  BY DEF Publish, ConnectionLost, Reconnect, HandleUnloaded, Flush, Ack, Nack, Settle,
     AfterHandling, cacheVars, brokerVars, ingestVars
<1>2. IngestTypeOK /\ losses \in Nat /\ losses' \in Nat
  BY DEF IngestIInv, IngestTypeOK
<1>3. losses <= losses'
  <2>1. ConnectionFault \/ losses' = losses
    BY DEF Publish, ConnectionLost, Reconnect, HandleUnloaded, Flush, Ack, Nack, boundVars,
       ingestVars
  <2> QED
    BY <1>2, <2>1 DEF ConnectionFault
<1>4. ASSUME NEW k \in Match
      PROVE  InHandAgain(k)' => InHandAgain(k)
  BY <1>1 DEF InHandAgain
<1>5. ASSUME NEW k \in Match
      PROVE  InQueueAgain(k)' => InQueueAgain(k) \/ losses' = losses + 1
  <2>1. CASE Waiting(k)' = Waiting(k)
    BY <1>1, <2>1 DEF InQueueAgain
  <2>2. CASE losses' = losses + 1
    BY <2>2
  <2>3. ASSUME NEW m \in Match, Publish(m)
        PROVE  InQueueAgain(k)' => InQueueAgain(k) \/ losses' = losses + 1
    <3>1. CASE ConnectionFault
      BY <3>1 DEF ConnectionFault
    <3>2. CASE queue' = Append(queue, [match |-> m, event |-> published[m] + 1])
      <4>1. published[m] \in Nat /\ published[m] + 1 \in 1 .. Last
        BY <2>3, OrderTypes DEF IngestIInv, Publish
      <4>2. Waiting(k)' \subseteq Waiting(k)
              \cup IF k = m THEN {published[m] + 1} ELSE {}
        <5>1. Elements(queue')
                = Elements(queue) \cup {[match |-> m, event |-> published[m] + 1]}
          BY <3>2, <4>1, OrderTypes, MessageParts, ElementsAppend DEF IngestIInv
        <5>2. \A e \in 1 .. Last :
                [match |-> k, event |-> e] = [match |-> m, event |-> published[m] + 1]
                  => k = m /\ e = published[m] + 1
          BY <4>1, MessageParts
        <5> QED
          BY <5>1, <5>2 DEF Waiting, WaitingIn
      <4>3. published[m] + 1 \notin Elements(buffer[m])
        <5>1. \A b \in Elements(buffer[m]) : b <= published[m]
          BY DEF OrderIInv, BufferFirst
        <5>2. ~(published[m] + 1 <= published[m])
          BY <4>1
        <5> QED
          BY <5>1, <5>2, Zenon
      <4>4. pc = "Handling" => hand # [match |-> m, event |-> published[m] + 1]
        <5>1. pc = "Handling" => hand.event <= published[hand.match]
          BY DEF OrderIInv, HandFirst
        <5> QED
          BY <4>1, <5>1
      <4> QED
        BY <1>1, <4>2, <4>3, <4>4 DEF InQueueAgain
    <3> QED
      BY <2>3, <3>1, <3>2 DEF Publish
  <2>4. CASE ConnectionLost
    BY <2>2, <2>4 DEF ConnectionLost, ConnectionFault
  <2>5. CASE \/ Reconnect \/ HandleUnloaded \/ Flush \/ Ack \/ Nack
             \/ UNCHANGED ingestVars
    <3>1. UNCHANGED queue
      BY <2>5 DEF Reconnect, HandleUnloaded, Flush, Ack, Nack, Settle, brokerVars, ingestVars
    <3> QED
      BY <2>1, <3>1 DEF Waiting
  <2> QED
    BY <2>3, <2>4, <2>5
<1>6. ASSUME NEW k \in Match
      PROVE  Len(buffer'[k]) + CopyInHand(k)' + CopyInQueue(k)'
               <= Cardinality(Elements(buffer'[k])) + losses'
  BY <1>1, <1>2, <1>3, <1>4, <1>5, CopiesStay
<1> QED
  BY <1>6 DEF CopiesPaid

\* A copy that waited is now in the loop's hand, and no other waits: they rise.
LEMMA CopiesGet ==
  ASSUME IngestIInv, OrderIInv, CopiesPaid, Get
  PROVE  CopiesPaid'
<1>1. /\ queue \in Seq(Message) /\ queue # <<>>
      /\ hand' = Head(queue) /\ queue' = Tail(queue)
      /\ pc' = "Handling" /\ pc = "Getting"
      /\ UNCHANGED <<buffer, losses>>
  BY OrderTypes DEF IngestIInv, Get, cacheVars, boundVars
<1>2. hand' \in Message /\ hand'.match \in Match /\ hand'.event \in 1 .. Last
  BY <1>1, HeadTailProperties, MessageParts
<1>3. PICK h \in Match : h = hand'.match
  BY <1>2
<1>4. PICK v \in 1 .. Last : v = hand'.event
  BY <1>2
<1>5. /\ Waiting(h) = Waiting(h)' \cup {v}
      /\ \A m \in Match \ {h} : Waiting(m)' = Waiting(m)
      /\ \A e \in Waiting(h)' : v < e
  BY <1>1, <1>3, <1>4, QueueTail DEF OrderIInv, QueueRises, Waiting
<1>6. \A b \in Elements(buffer[h]) : b \in 1 .. Last /\ b <= v
  BY <1>5, OrderTypes DEF IngestIInv, OrderIInv, BufferFirst
<1>7. ~InQueueAgain(h)'
  <2> SUFFICES ASSUME NEW e \in Waiting(h)',
                      e \in Elements(buffer[h]) \/ hand' = [match |-> h, event |-> e]
               PROVE  FALSE
    BY <1>1 DEF InQueueAgain
  <2>1. v < e /\ e \in 1 .. Last
    BY <1>5 DEF Waiting, WaitingIn
  <2>2. CASE e \in Elements(buffer[h])
    BY <1>6, <2>1, <2>2
  <2>3. CASE hand' = [match |-> h, event |-> e]
    <3>1. v = e
      BY <1>4, <2>3
    <3> QED
      BY <2>1, <3>1
  <2> QED
    BY <2>2, <2>3
<1>8. InHandAgain(h)' => InQueueAgain(h)
  BY <1>1, <1>3, <1>4, <1>5 DEF InHandAgain, InQueueAgain
<1>9. ~InHandAgain(h)
  BY <1>1 DEF InHandAgain
<1>10. /\ losses \in Nat /\ \A m \in Match :
              /\ Len(buffer[m]) \in Nat
              /\ Cardinality(Elements(buffer[m])) \in Nat
  BY CountTypes DEF IngestIInv
<1>11. ASSUME NEW m \in Match
       PROVE  Len(buffer'[m]) + CopyInHand(m)' + CopyInQueue(m)'
                <= Cardinality(Elements(buffer'[m])) + losses'
  <2>1. CASE m = h
    <3>1. Len(buffer[h]) + CopyInHand(h) + CopyInQueue(h)
            <= Cardinality(Elements(buffer[h])) + losses
      BY DEF CopiesPaid
    <3>2. CopyInQueue(h)' = 0 /\ CopyInHand(h) = 0
      BY <1>7, <1>9 DEF CopyInHand, CopyInQueue
    <3>3. /\ CopyInHand(h)' \in {0, 1} /\ CopyInQueue(h) \in {0, 1}
          /\ CopyInHand(h)' <= CopyInQueue(h)
      BY <1>8 DEF CopyInHand, CopyInQueue
    <3>4. buffer'[m] = buffer[h] /\ losses' = losses
      BY <1>1, <2>1
    <3> QED
      BY <1>10, <2>1, <3>1, <3>2, <3>3, <3>4
  <2>2. CASE m # h
    <3>1. ~InHandAgain(m)'
      BY <1>3, <2>2 DEF InHandAgain
    <3>2. InQueueAgain(m)' => InQueueAgain(m)
      <4>1. \A e : hand' # [match |-> m, event |-> e]
        BY <1>3, <2>2
      <4> QED
        BY <1>1, <1>5, <2>2, <4>1 DEF InQueueAgain
    <3>3. buffer'[m] = buffer[m] /\ losses' = losses
      BY <1>1
    <3> QED
      BY <1>10, <3>1, <3>2, <3>3, CopiesStay DEF IngestIInv
  <2> QED
    BY <2>1, <2>2
<1> QED
  BY <1>11 DEF CopiesPaid

\* The buffer grows by a new event, or by a copy that was counted in the hand.
LEMMA CopiesHandle ==
  ASSUME IngestIInv, IngestIInv', OrderIInv, CopiesPaid, Handle
  PROVE  CopiesPaid'
<1>1. PICK h \in Match : h = hand.match
  BY InHand DEF IngestIInv, Handle
<1>2. PICK v \in 1 .. Last : v = hand.event
  BY InHand DEF IngestIInv, Handle
<1>3. /\ buffer' = [buffer EXCEPT ![h] = Append(buffer[h], v)]
      /\ pc = "Handling" /\ pc' # "Handling"
      /\ UNCHANGED <<queue, losses>>
  BY <1>1, <1>2 DEF Handle, AfterHandling, brokerVars, boundVars
<1>4. /\ buffer[h] \in Seq(1 .. Last)
      /\ buffer'[h] = Append(buffer[h], v)
      /\ \A m \in Match \ {h} : buffer'[m] = buffer[m]
  BY <1>3, OrderTypes DEF IngestIInv
<1>5. /\ Len(buffer'[h]) = Len(buffer[h]) + 1
      /\ Elements(buffer'[h]) = Elements(buffer[h]) \cup {v}
  <2>1. \A s \in Seq(1 .. Last), e \in 1 .. Last :
          /\ Append(s, e) \in Seq(1 .. Last)
          /\ Elements(Append(s, e)) = Elements(s) \cup {e}
    BY ElementsAppend
  <2>2. \A s \in Seq(1 .. Last), e \in 1 .. Last : Len(Append(s, e)) = Len(s) + 1
    BY AppendProperties
  <2> QED
    BY <1>4, <2>1, <2>2
<1>6. /\ \A m \in Match : Waiting(m)' = Waiting(m)
      /\ \A m \in Match : ~InHandAgain(m)'
  BY <1>3 DEF Waiting, InHandAgain
<1>7. hand = [match |-> h, event |-> v]
  BY <1>1, <1>2, <1>3, OrderTypes, MessageParts DEF IngestIInv
<1>8. \A m \in Match : InQueueAgain(m)' => InQueueAgain(m)
  BY <1>3, <1>4, <1>5, <1>6, <1>7 DEF InQueueAgain
<1>9. Len(buffer'[h]) + CopyInHand(h)' + CopyInQueue(h)'
        <= Cardinality(Elements(buffer'[h])) + losses'
  <2>1. Len(buffer[h]) + CopyInHand(h) + CopyInQueue(h)
          <= Cardinality(Elements(buffer[h])) + losses
    BY DEF CopiesPaid
  <2>2. CopyInHand(h)' = 0
    BY <1>6 DEF CopyInHand
  <2>3. /\ CopyInQueue(h)' <= CopyInQueue(h)
        /\ CopyInHand(h) \in Nat /\ CopyInQueue(h) \in Nat /\ CopyInQueue(h)' \in Nat
    <3>1. 0 \in Nat /\ 1 \in Nat /\ 0 <= 1 /\ 0 <= 0 /\ 1 <= 1
      OBVIOUS
    <3> QED
      BY <1>8, <3>1, Zenon DEF CopyInHand, CopyInQueue
  <2>4. /\ losses \in Nat /\ IsFiniteSet(Elements(buffer[h]))
        /\ Len(buffer[h]) \in Nat /\ Len(buffer'[h]) \in Nat
        /\ Cardinality(Elements(buffer[h])) \in Nat
        /\ Cardinality(Elements(buffer'[h])) \in Nat
    <3>1. IngestTypeOK
      BY DEF IngestIInv
    <3>2. IsFiniteSet(Elements(buffer[h])) /\ IsFiniteSet(Elements(buffer[h]) \cup {v})
      BY <3>1, CountTypes, FS_AddElement
    <3> QED
      BY <1>5, <3>1, <3>2, CountTypes, FS_CardinalityType
  <2>5. \/ Cardinality(Elements(buffer'[h])) = Cardinality(Elements(buffer[h])) + 1
        \/ /\ Cardinality(Elements(buffer'[h])) = Cardinality(Elements(buffer[h]))
           /\ CopyInHand(h) = 1
    <3>1. CASE v \in Elements(buffer[h])
      <4>1. Elements(buffer'[h]) = Elements(buffer[h])
        BY <1>5, <3>1
      <4>2. InHandAgain(h)
        BY <1>1, <1>2, <1>3, <3>1 DEF InHandAgain
      <4> QED
        BY <4>1, <4>2 DEF CopyInHand
    <3>2. CASE v \notin Elements(buffer[h])
      BY <1>5, <2>4, <3>2, FS_AddElement
    <3> QED
      BY <3>1, <3>2
  <2>6. losses' = losses
    BY <1>3
  <2>7. Len(buffer'[h]) + 0 + CopyInQueue(h)' <= Cardinality(Elements(buffer'[h])) + losses
    <3>1. PICK n \in Nat, c \in Nat, c1 \in Nat :
            /\ n = Len(buffer[h]) /\ c = Cardinality(Elements(buffer[h]))
            /\ c1 = Cardinality(Elements(buffer'[h]))
      BY <2>4
    <3>2. PICK a \in Nat, w \in Nat, w1 \in Nat :
            a = CopyInHand(h) /\ w = CopyInQueue(h) /\ w1 = CopyInQueue(h)'
      BY <2>3
    <3>3. PICK x \in Nat : x = losses
      BY <2>4
    <3>4. /\ n + a + w <= c + x /\ w1 <= w
          /\ c1 = c + 1 \/ (c1 = c /\ a = 1)
      BY <2>1, <2>3, <2>5, <3>1, <3>2, <3>3
    <3>5. (n + 1) + 0 + w1 <= c1 + x
      BY <3>4
    <3>6. Len(buffer'[h]) = n + 1
      BY <1>5, <3>1
    <3> QED
      BY <3>1, <3>2, <3>3, <3>5, <3>6
  <2> QED
    BY <2>2, <2>6, <2>7
<1>10. ASSUME NEW m \in Match, m # h
       PROVE  Len(buffer'[m]) + CopyInHand(m)' + CopyInQueue(m)'
                <= Cardinality(Elements(buffer'[m])) + losses'
  <2>1. /\ losses' \in Nat /\ losses <= losses'
        /\ buffer'[m] = buffer[m]
    BY <1>3, <1>4, <1>10 DEF IngestIInv, IngestTypeOK
  <2> QED
    BY <1>6, <1>8, <2>1, CopiesStay DEF IngestIInv
<1> QED
  BY <1>9, <1>10 DEF CopiesPaid

\* A buffer that is let go takes its copies with it.
LEMMA CopiesLetGo ==
  ASSUME IngestIInv, IngestIInv', CopiesPaid, Clear \/ Restart
  PROVE  CopiesPaid'
<1>1. losses' \in Nat /\ losses' = losses /\ pc' # "Handling"
  BY DEF IngestIInv, IngestTypeOK, Clear, Restart, boundVars
<1>2. ASSUME NEW m \in Match, buffer'[m] # <<>>
      PROVE  /\ buffer'[m] = buffer[m]
             /\ InQueueAgain(m)' => InQueueAgain(m)
  <2>1. CASE Clear
    <3>1. buffer' = [buffer EXCEPT ![hand.match] = <<>>] /\ queue' = queue
      BY <2>1 DEF Clear, brokerVars
    <3>2. buffer'[m] = buffer[m]
      BY <1>2, <3>1, OrderTypes DEF IngestIInv
    <3>3. Waiting(m)' = Waiting(m)
      BY <3>1 DEF Waiting
    <3> QED
      BY <1>1, <3>2, <3>3 DEF InQueueAgain
  <2>2. CASE Restart
    BY <1>2, <2>2 DEF Restart
  <2> QED
    BY <2>1, <2>2
<1>3. ASSUME NEW m \in Match
      PROVE  Len(buffer'[m]) + CopyInHand(m)' + CopyInQueue(m)'
               <= Cardinality(Elements(buffer'[m])) + losses'
  <2>1. CASE buffer'[m] = <<>>
    BY <1>1, <2>1, CopiesNone
  <2>2. CASE buffer'[m] # <<>>
    <3>1. InHandAgain(m)' => InHandAgain(m)
      BY <1>1 DEF InHandAgain
    <3>2. losses <= losses'
      BY <1>1
    <3> QED
      BY <1>1, <1>2, <2>2, <3>1, <3>2, CopiesStay DEF IngestIInv
  <2> QED
    BY <2>1, <2>2
<1> QED
  BY <1>3 DEF CopiesPaid

LEMMA CopiesStep ==
  IngestIInv /\ IngestIInv' /\ OrderIInv /\ CopiesPaid /\ [IngestNext]_ingestVars => CopiesPaid'
  BY CopiesQuiet, CopiesGet, CopiesHandle, CopiesLetGo DEF IngestNext, Consume

LEMMA CopiesInvariant == IngestSpec => []CopiesPaid
<1>1. IngestInit => CopiesPaid
  BY CopiesInitOK
<1>2. IngestIInv /\ IngestIInv' /\ OrderIInv /\ CopiesPaid /\ [IngestNext]_ingestVars
        => CopiesPaid'
  BY CopiesStep
<1> QED
  BY <1>1, <1>2, IngestInvariant, OrderInvariant, PTL DEF IngestSpec

LEMMA PaidBounds == IngestTypeOK /\ CopiesPaid => DuplicatesBounded
<1> SUFFICES ASSUME IngestTypeOK, CopiesPaid, NEW m \in Match
             PROVE  Len(buffer[m]) <= Cardinality(Elements(buffer[m])) + losses
  BY DEF DuplicatesBounded
<1>1. Len(buffer[m]) + CopyInHand(m) + CopyInQueue(m)
        <= Cardinality(Elements(buffer[m])) + losses
  BY DEF CopiesPaid
<1>2. /\ losses \in Nat /\ Len(buffer[m]) \in Nat /\ Cardinality(Elements(buffer[m])) \in Nat
      /\ CopyInHand(m) \in {0, 1} /\ CopyInQueue(m) \in {0, 1}
  BY CountTypes DEF CopyInHand, CopyInQueue
<1>3. \A n, c, x \in Nat : \A a, w \in {0, 1} : n + a + w <= c + x => n <= c + x
  OBVIOUS
<1> QED
  BY <1>1, <1>2, <1>3

\* Whatever fails and however often: the buffers and the row keep the order in which
\* the engine published, an event is repeated at most once for each lost connection,
\* and a match that has ended is in no cache once its message is settled and no
\* flush has failed (HandleReceivedMessageAsync, FlushAndPersistMatchAsync).
THEOREM IngestsInOrder == IngestSpec => []IngestInv
<1>1. IngestIInv /\ OrderIInv /\ CopiesPaid => IngestInv
  BY PaidBounds DEF IngestIInv, OrderIInv, Emptied, NothingLeftBehind, IngestInv
<1> QED
  BY <1>1, IngestInvariant, OrderInvariant, CopiesInvariant, PTL

-----------------------------------------------------------------------------
\* The step that ends a match is a flush of its end marker, behind every event of it.
LEMMA FlushComplete ==
  ASSUME IngestIInv, OrderIInv, [IngestNext]_ingestVars,
         NEW m \in Match, isLive[m], ~isLive'[m], ~lossy[m]
  PROVE  Elements(saved'[m]) = 1 .. Last
<1>1. Flush
  BY DEF IngestNext, Consume, Publish, ConnectionLost, Reconnect, Restart, Get, HandleUnloaded,
     Handle, Clear, Ack, Nack, rowVars, ingestVars
<1>2. /\ isLive \in [Match -> BOOLEAN] /\ saved \in [Match -> Seq(1 .. Last)]
      /\ published \in [Match -> 0 .. Last] /\ Last \in Nat \ {0}
      /\ Elements(buffer[m]) \subseteq 1 .. Last /\ Waiting(m) \subseteq 1 .. Last
  BY OrderTypes DEF IngestIInv
<1>3. Committed(hand.match)
  BY <1>1 DEF Flush, rowVars
<1>4. hand.match = m
  BY <1>2, <1>3 DEF Committed
<1>5. saved'[m] = IF buffer[m] # <<>> THEN buffer[m] ELSE saved[m]
  BY <1>2, <1>3, <1>4 DEF Committed
<1>6. pc = "Flushing" /\ hand.event = Last
  BY <1>1 DEF Flush, OrderIInv, EndLast
<1>7. Last \in Elements(buffer[m])
  BY <1>4, <1>6 DEF IngestIInv, HandBuffered
<1>8. saved'[m] = buffer[m]
  BY <1>5, <1>7, ElementsEmpty
<1>9. published[m] = Last
  <2>1. hand.event <= published[m]
    BY <1>4, <1>6 DEF OrderIInv, HandFirst
  <2> QED
    BY <1>2, <1>6, <2>1
<1>10. ASSUME NEW e \in 1 .. Last
       PROVE  e \in Elements(buffer[m])
  <2>1. CASE [match |-> m, event |-> e] = hand
    BY <1>6, <1>7, <2>1
  <2>2. CASE e \in Waiting(m)
    <3>1. Last <= e
      BY <1>4, <1>6, <2>2 DEF OrderIInv, HandFirst
    <3>2. e = Last
      BY <1>2, <3>1
    <3> QED
      BY <1>7, <3>2
  <2> QED
    BY <1>9, <2>1, <2>2 DEF IngestIInv, AtLeastOnce, Waiting, WaitingIn
<1> QED
  BY <1>2, <1>8, <1>10

\* A buffer is let go by the clearing that follows its commit, or by a restart.
LEMMA LetGo ==
  ASSUME IngestIInv, OrderIInv, [IngestNext]_ingestVars,
         NEW m \in Match, buffer[m] # <<>>, buffer'[m] = <<>>
  PROVE  saved[m] = buffer[m] \/ restarts' # restarts
<1>1. CASE Restart
  BY <1>1 DEF Restart, IngestIInv, IngestTypeOK
<1>2. CASE Clear
  <2>1. hand.match = m /\ pc = "Clearing"
    BY <1>2, OrderTypes DEF Clear, IngestIInv
  <2> QED
    BY <2>1 DEF OrderIInv, ClearedSaved
<1>3. CASE Handle
  <2>1. buffer' = [buffer EXCEPT ![hand.match] = Append(buffer[hand.match], hand.event)]
    BY <1>3 DEF Handle
  <2>2. \A s \in Seq(1 .. Last), e \in 1 .. Last : Append(s, e) # <<>>
    BY AppendProperties
  <2>3. hand.match \in Match /\ hand.event \in 1 .. Last /\ buffer \in [Match -> Seq(1 .. Last)]
    BY <1>3, InHand, OrderTypes DEF Handle, IngestIInv
  <2> QED
    BY <2>1, <2>2, <2>3
<1>4. UNCHANGED buffer \/ Restart \/ Clear \/ Handle
  BY DEF IngestNext, Consume, Publish, ConnectionLost, Reconnect, Get, HandleUnloaded, Flush,
     Ack, Nack, cacheVars, ingestVars
<1> QED
  BY <1>1, <1>2, <1>3, <1>4

\* Whatever fails and however often: the flush that ends a match of which nothing
\* was dropped persists every event of it, and a buffer is let go only once the row
\* has it or with the process (FlushAndPersistMatchAsync and its finally).
THEOREM BuffersKept == IngestSpec => BufferKept
<1> DEFINE Complete == \A m \in Match : isLive[m] /\ ~isLive'[m] /\ ~lossy[m] =>
                         Elements(saved'[m]) = 1 .. Last
           Retained == \A m \in Match : buffer[m] # <<>> /\ buffer'[m] = <<>> =>
                         saved[m] = buffer[m] \/ restarts' # restarts
<1>1. IngestIInv /\ OrderIInv /\ [IngestNext]_ingestVars => Complete
  BY FlushComplete
<1>2. IngestIInv /\ OrderIInv /\ [IngestNext]_ingestVars => Retained
  BY LetGo
<1>3. IngestSpec => [][Complete]_ingestVars
  BY <1>1, IngestInvariant, OrderInvariant, PTL DEF IngestSpec
<1>4. IngestSpec => [][Retained]_ingestVars
  BY <1>2, IngestInvariant, OrderInvariant, PTL DEF IngestSpec
<1> QED
  BY <1>3, <1>4 DEF BufferKept, FirstFlushComplete, BufferRetained

=============================================================================
