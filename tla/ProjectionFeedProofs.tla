------------------------ MODULE ProjectionFeedProofs ------------------------
(***************************************************************************)
(* TLAPS proofs about ProjectionFeed: whatever a worker has been handed or *)
(* has read is an event that is committed, and offsets stay inside the     *)
(* topic, for any number of consumers, rebuilders, streams and events.     *)
(***************************************************************************)
EXTENDS ProjectionFeed, SequenceTheorems, TLAPS

-----------------------------------------------------------------------------
(* The invariant of the feed *)

CommittedEvents == {e \in T!Events : T!Committed(e)}

VersionOK == version \in [Streams -> Nat] /\ \A s \in Streams : version[s] <= Length[s]

\* The events table holds every committed event, and no other.
StoreOK ==
    /\ store \in Seq(CommittedEvents)
    /\ \A e \in CommittedEvents : e \in T!Contents(store)

GroupOK ==
    /\ log \in Seq(CommittedEvents)
    /\ owner \in Consumers
    /\ pos \in [Consumers -> Nat] /\ \A c \in Consumers : pos[c] <= Len(log)
    /\ fetched \in [Consumers -> Nat] /\ \A c \in Consumers : fetched[c] <= Len(log)
    /\ \A c \in Consumers : pc[c] # "idle" => pos[c] < Len(log)

WorkOK ==
    /\ pc \in [Workers -> PCs]
    /\ msg \in [Workers -> CommittedEvents \cup {NoEvent}]
    /\ \A w \in Workers : pc[w] \in {"read", "upsert", "append"} => msg[w] \in CommittedEvents
    /\ scope \in [Rebuilders -> Streams \cup {All, NoScope}]
    /\ todo \in [Rebuilders -> Seq(CommittedEvents)]
    /\ \A r \in Rebuilders : pc[r] # "idle" => scope[r] # NoScope
    /\ aborted \in BOOLEAN

CountOK == disruptions \in 0..MaxDisruptions

FeedInv == VersionOK /\ StoreOK /\ GroupOK /\ WorkOK /\ CountOK

\* The feed is well typed.
LEMMA FeedInvType == FeedInv => FeedTypeOK
<1> SUFFICES ASSUME FeedInv PROVE FeedTypeOK
  OBVIOUS
<1>1. CommittedEvents \subseteq T!Events
  BY DEF CommittedEvents
<1>2. store \in Seq(T!Events) /\ log \in Seq(T!Events)
  BY <1>1, SeqMonotonic DEF FeedInv, StoreOK, GroupOK
<1>3. \A r \in Rebuilders : todo[r] \in Seq(T!Events)
  BY <1>1, SeqMonotonic DEF FeedInv, WorkOK
<1>4. todo \in [Rebuilders -> Seq(T!Events)]
  BY <1>3 DEF FeedInv, WorkOK
<1>5. QED
  BY <1>1, <1>2, <1>4 DEF FeedInv, VersionOK, GroupOK, WorkOK, CountOK, FeedTypeOK

-----------------------------------------------------------------------------
(* The events *)

LEMMA EventForm ==
    ASSUME NEW e \in T!Events
    PROVE  /\ e.stream \in Streams /\ e.version \in 1..Length[e.stream]
           /\ e = [stream |-> e.stream, version |-> e.version]
           /\ e.version \in Nat /\ Length[e.stream] \in Nat
<1>1. PICK s \in Streams : \E v \in 1..Length[s] : e = [stream |-> s, version |-> v]
  BY DEF T!Events
<1>2. Length[s] \in Nat
  BY FeedAssumption DEF T!TopicAssumption
<1>3. QED
  BY <1>1, <1>2

LEMMA EventExists ==
    ASSUME NEW s \in Streams, NEW v \in 1..Length[s]
    PROVE  [stream |-> s, version |-> v] \in T!Events
BY DEF T!Events

\* A place of a sequence of n elements is the last one or there is a next.
LEMMA AtEndOrBefore ==
    ASSUME NEW n \in Nat, NEW i \in 0..n
    PROVE  i + 1 <= n \/ i = n
OBVIOUS

\* new is seq with e at place i + 1: the places before it stay, those after it move up
\* by one.
Inserted(new, seq, i, e) ==
    /\ Len(new) = Len(seq) + 1
    /\ \A k \in 1..i : new[k] = seq[k]
    /\ new[i + 1] = e
    /\ \A k \in 1..Len(seq) - i : new[i + 1 + k] = seq[i + k]

LEMMA InsertPlaces ==
    ASSUME NEW S, NEW seq \in Seq(S), NEW i \in 0..Len(seq), NEW e \in S
    PROVE  T!Insert(seq, i, e) \in Seq(S) /\ Inserted(T!Insert(seq, i, e), seq, i, e)
<1> DEFINE front == SubSeq(seq, 1, i)
           back == SubSeq(seq, i + 1, Len(seq))
<1>0. /\ Len(seq) \in Nat /\ DOMAIN seq = 1..Len(seq)
      /\ \A k \in 1..Len(seq) : seq[k] \in S
  OBVIOUS
<1>1. /\ front \in Seq(S) /\ Len(front) = i
      /\ \A k \in 1..i : front[k] = seq[k]
  <2>1. /\ front \in Seq(S)
        /\ Len(front) = IF 1 <= i THEN i - 1 + 1 ELSE 0
        /\ \A k \in 1..i - 1 + 1 : front[k] = seq[1 + k - 1]
    <3>1. 1 \in Int /\ i \in Int /\ \A k \in 1..i : seq[k] \in S
      BY <1>0
    <3>2. QED
      BY <3>1, SubSeqProperties
  <2> HIDE DEF front
  <2>2. QED
    BY <1>0, <2>1
<1>2. /\ back \in Seq(S) /\ Len(back) = Len(seq) - i
      /\ \A k \in 1..Len(seq) - i : back[k] = seq[i + k]
  <2>1. /\ back \in Seq(S)
        /\ Len(back) = IF i + 1 <= Len(seq) THEN Len(seq) - (i + 1) + 1 ELSE 0
        /\ \A k \in 1..Len(seq) - (i + 1) + 1 : back[k] = seq[(i + 1) + k - 1]
    <3>1. i + 1 \in Int /\ Len(seq) \in Int /\ \A k \in i + 1..Len(seq) : seq[k] \in S
      BY <1>0
    <3>2. QED
      BY <3>1, SubSeqProperties
  <2> HIDE DEF back
  <2>2. Len(back) = Len(seq) - i
    <3>1. CASE i + 1 <= Len(seq)
      <4>1. Len(seq) - (i + 1) + 1 = Len(seq) - i
        BY <1>0
      <4>2. QED
        BY <2>1, <3>1, <4>1
    <3>2. CASE i = Len(seq)
      <4>1. ~(i + 1 <= i) /\ i - i = 0
        BY <1>0
      <4>2. QED
        BY <2>1, <3>2, <4>1
    <3>3. i + 1 <= Len(seq) \/ i = Len(seq)
      <4>1. Len(seq) \in Nat /\ i \in 0..Len(seq)
        BY <1>0
      <4>2. QED
        BY <4>1, AtEndOrBefore, Zenon
    <3>4. QED
      BY <3>1, <3>2, <3>3
  <2>3. ASSUME NEW k \in 1..Len(seq) - i PROVE back[k] = seq[i + k]
    <3>1. k \in 1..Len(seq) - (i + 1) + 1 /\ (i + 1) + k - 1 = i + k
      BY <1>0
    <3>2. QED
      BY <2>1, <3>1
  <2>4. QED
    BY <2>1, <2>2, <2>3
<1>3. <<e>> \in Seq(S) /\ Len(<<e>>) = 1 /\ <<e>>[1] = e
  OBVIOUS
<1> DEFINE head == front \o <<e>>
<1>4. /\ head \in Seq(S) /\ Len(head) = i + 1
      /\ \A k \in 1..i : head[k] = seq[k]
      /\ head[i + 1] = e
  BY <1>1, <1>3, ConcatProperties
<1>6. T!Insert(seq, i, e) = head \o back
  BY <1>1, <1>2, <1>3, ConcatAssociative DEF T!Insert
<1> HIDE DEF front, back, head
<1> DEFINE new == head \o back
<1>5. /\ new \in Seq(S) /\ Len(new) = Len(seq) + 1
      /\ \A k \in 1..i : new[k] = seq[k]
      /\ new[i + 1] = e
      /\ \A k \in 1..Len(seq) - i : new[i + 1 + k] = seq[i + k]
  <2>1. /\ new \in Seq(S) /\ Len(new) = Len(head) + Len(back)
        /\ \A k \in 1..Len(head) + Len(back) :
              new[k] = IF k <= Len(head) THEN head[k] ELSE back[k - Len(head)]
    BY <1>2, <1>4, ConcatProperties
  <2> HIDE DEF new
  <2>2. Len(head) + Len(back) = Len(seq) + 1 /\ Len(head) = i + 1
    BY <1>0, <1>2, <1>4
  <2>3. \A k \in 1..i : new[k] = seq[k]
    BY <1>0, <1>4, <2>1, <2>2
  <2>4. new[i + 1] = e
    BY <1>0, <1>4, <2>1, <2>2
  <2>5. ASSUME NEW k \in 1..Len(seq) - i PROVE new[i + 1 + k] = seq[i + k]
    <3>1. i + 1 + k \in 1..Len(seq) + 1 /\ ~(i + 1 + k <= i + 1) /\ (i + 1 + k) - (i + 1) = k
      BY <1>0
    <3>2. new[i + 1 + k] = back[(i + 1 + k) - (i + 1)]
      BY <2>1, <2>2, <3>1
    <3>3. QED
      BY <1>2, <3>1, <3>2
  <2>6. QED
    BY <2>1, <2>2, <2>3, <2>4, <2>5
<1> HIDE DEF new
<1>7. new \in Seq(S) /\ Inserted(new, seq, i, e)
  BY <1>5 DEF Inserted
<1>8. QED
  BY <1>6, <1>7 DEF new

LEMMA InsertElements ==
    ASSUME NEW S, NEW seq \in Seq(S), NEW i \in 0..Len(seq), NEW e \in S
    PROVE  /\ T!Insert(seq, i, e) \in Seq(S)
           /\ T!Contents(T!Insert(seq, i, e)) = T!Contents(seq) \cup {e}
<1> DEFINE new == T!Insert(seq, i, e)
<1>0. Len(seq) \in Nat /\ DOMAIN seq = 1..Len(seq)
  OBVIOUS
<1>5. /\ new \in Seq(S) /\ Len(new) = Len(seq) + 1
      /\ \A k \in 1..i : new[k] = seq[k]
      /\ new[i + 1] = e
      /\ \A k \in 1..Len(seq) - i : new[i + 1 + k] = seq[i + k]
  <2>1. new \in Seq(S) /\ Inserted(new, seq, i, e)
    BY InsertPlaces
  <2> HIDE DEF new
  <2>2. QED
    BY <2>1 DEF Inserted
<1> HIDE DEF new
<1>7. T!Contents(new) = T!Contents(seq) \cup {e}
  <2>1. DOMAIN new = 1..Len(seq) + 1
    BY <1>0, <1>5
  <2>2. ASSUME NEW k \in 1..Len(seq) + 1 PROVE new[k] \in T!Contents(seq) \cup {e}
    <3>1. CASE k <= i
      BY <1>0, <1>5, <3>1 DEF T!Contents
    <3>2. CASE k = i + 1
      BY <1>5, <3>2
    <3>3. CASE k > i + 1
      <4>1. k - i - 1 \in 1..Len(seq) - i /\ k = i + 1 + (k - i - 1) /\ i + (k - i - 1) = k - 1
        BY <1>0, <3>3
      <4>2. new[k] = seq[k - 1] /\ k - 1 \in 1..Len(seq)
        <5>1. PICK j \in 1..Len(seq) - i : j = k - i - 1
          BY <4>1
        <5>2. new[i + 1 + j] = seq[i + j]
          BY <1>5
        <5>3. k - 1 \in 1..Len(seq)
          BY <1>0, <3>3
        <5>4. QED
          BY <4>1, <5>1, <5>2, <5>3
      <4>3. QED
        BY <1>0, <4>2 DEF T!Contents
    <3>4. QED
      BY <1>0, <3>1, <3>2, <3>3
  <2>3. ASSUME NEW k \in 1..Len(seq) PROVE seq[k] \in T!Contents(new)
    <3>1. CASE k <= i
      BY <1>0, <1>5, <2>1, <3>1 DEF T!Contents
    <3>2. CASE k > i
      <4>1. k - i \in 1..Len(seq) - i /\ i + (k - i) = k /\ i + 1 + (k - i) = k + 1
        BY <1>0, <3>2
      <4>2. new[i + 1 + (k - i)] = seq[i + (k - i)]
        BY <1>5, <4>1
      <4>3. new[k + 1] = seq[k] /\ k + 1 \in 1..Len(seq) + 1
        BY <1>0, <4>1, <4>2
      <4>4. QED
        BY <2>1, <4>3 DEF T!Contents
    <3>3. QED
      BY <1>0, <3>1, <3>2
  <2>4. e \in T!Contents(new)
    BY <1>0, <1>5, <2>1 DEF T!Contents
  <2>5. QED
    BY <1>0, <2>1, <2>2, <2>3, <2>4 DEF T!Contents
<1>8. QED
  BY <1>5, <1>7 DEF new

-----------------------------------------------------------------------------
(* The event store, the relay and the consumer group *)

LEMMA FeedInitInv == FeedInit => FeedInv
<1> SUFFICES ASSUME FeedInit PROVE FeedInv
  OBVIOUS
<1>1. /\ version = [s \in Streams |-> 0] /\ store = <<>> /\ log = <<>>
      /\ owner = (CHOOSE c \in Consumers : TRUE)
      /\ pos = [c \in Consumers |-> 0] /\ fetched = [c \in Consumers |-> 0]
      /\ pc = [w \in Workers |-> "idle"] /\ msg = [w \in Workers |-> NoEvent]
      /\ scope = [r \in Rebuilders |-> NoScope] /\ todo = [r \in Rebuilders |-> <<>>]
      /\ aborted = FALSE /\ disruptions = 0
  BY DEF FeedInit, T!Init
<1>2. VersionOK /\ CountOK
  BY <1>1, FeedAssumption DEF VersionOK, CountOK, T!TopicAssumption
<1>3. CommittedEvents = {}
  <2>1. ASSUME NEW e \in CommittedEvents PROVE FALSE
    BY <1>1, EventForm DEF CommittedEvents, T!Committed
  <2>2. QED
    BY <2>1
<1>4. StoreOK
  BY <1>1, <1>3 DEF StoreOK
<1>5. owner \in Consumers /\ \A c \in Consumers : pc[c] = "idle"
  BY <1>1, FeedAssumption DEF Workers
<1>6. GroupOK
  BY <1>1, <1>5 DEF GroupOK
<1>7. WorkOK
  <2>1. <<>> \in Seq(CommittedEvents)
    OBVIOUS
  <2>2. \A r \in Rebuilders : pc[r] = "idle"
    BY <1>1 DEF Workers
  <2>3. QED
    BY <1>1, <2>1, <2>2 DEF WorkOK, PCs
<1>8. QED
  BY <1>2, <1>4, <1>6, <1>7 DEF FeedInv

\* A commit adds the next event of its stream to the committed ones.
LEMMA CommitAdds ==
    ASSUME VersionOK, NEW s \in Streams, T!Commit(s)
    PROVE  LET new == [stream |-> s, version |-> version[s] + 1] IN
           /\ VersionOK'
           /\ CommittedEvents' = CommittedEvents \cup {new}
           /\ \E i \in 0..Len(store) : store' = T!Insert(store, i, new)
           /\ UNCHANGED log
<1> DEFINE new == [stream |-> s, version |-> version[s] + 1]
<1>1. Length[s] \in Nat /\ version[s] \in Nat /\ version[s] < Length[s]
  BY FeedAssumption DEF T!TopicAssumption, T!Commit, VersionOK
<1>2. version' = [version EXCEPT ![s] = @ + 1] /\ UNCHANGED log
  BY DEF T!Commit
<1>3. VersionOK'
  BY <1>1, <1>2, FeedAssumption DEF VersionOK, T!TopicAssumption
<1>4. new \in T!Events
  BY <1>1, EventExists
<1>5. ASSUME NEW e \in T!Events
      PROVE  T!Committed(e)' <=> T!Committed(e) \/ e = new
  <2>1. /\ e.stream \in Streams /\ e.version \in Nat
        /\ e = [stream |-> e.stream, version |-> e.version]
    BY EventForm
  <2>2. e = new <=> e.stream = s /\ e.version = version[s] + 1
    BY <2>1
  <2>3. QED
    BY <1>1, <1>2, <2>1, <2>2 DEF T!Committed, VersionOK
<1>6. CommittedEvents' = CommittedEvents \cup {new}
  BY <1>4, <1>5 DEF CommittedEvents
<1>7. \E i \in 0..Len(store) : store' = T!Insert(store, i, new)
  BY DEF T!Commit
<1>8. QED
  BY <1>2, <1>3, <1>6, <1>7

\* More committed events make no worker's event uncommitted.
LEMMA WorkGrows ==
    ASSUME WorkOK, UNCHANGED work, CommittedEvents \subseteq CommittedEvents'
    PROVE  WorkOK'
<1>1. UNCHANGED <<pc, msg, scope, todo, aborted>>
  BY DEF work
<1>2. \A r \in Rebuilders : todo[r] \in Seq(CommittedEvents')
  BY SeqMonotonic DEF WorkOK
<1>3. todo' \in [Rebuilders -> Seq(CommittedEvents')]
  BY <1>1, <1>2 DEF WorkOK
<1>4. QED
  BY <1>1, <1>3 DEF WorkOK

LEMMA CommitEventInv ==
    ASSUME FeedInv, NEW s \in Streams, CommitEvent(s)
    PROVE  FeedInv'
<1> DEFINE new == [stream |-> s, version |-> version[s] + 1]
<1>1. /\ VersionOK' /\ UNCHANGED log
      /\ CommittedEvents' = CommittedEvents \cup {new}
      /\ \E i \in 0..Len(store) : store' = T!Insert(store, i, new)
  BY CommitAdds DEF FeedInv, CommitEvent
<1> HIDE DEF new
<1>2. UNCHANGED <<owner, pos, fetched, pc, msg, scope, todo, aborted, disruptions>>
  BY DEF CommitEvent, group, work
<1>3. CommittedEvents \subseteq CommittedEvents' /\ new \in CommittedEvents'
  BY <1>1
<1>4. StoreOK'
  <2>1. store \in Seq(CommittedEvents')
    BY <1>3, SeqMonotonic DEF FeedInv, StoreOK
  <2>2. store' \in Seq(CommittedEvents') /\ T!Contents(store') = T!Contents(store) \cup {new}
    BY <1>1, <1>3, <2>1, InsertElements
  <2>3. T!Contents(store)' = T!Contents(store')
    BY DEF T!Contents
  <2>4. QED
    BY <1>1, <2>2, <2>3 DEF FeedInv, StoreOK
<1>5. GroupOK'
  <2>1. log' \in Seq(CommittedEvents')
    BY <1>1, <1>3, SeqMonotonic DEF FeedInv, GroupOK
  <2>2. QED
    BY <1>1, <1>2, <2>1 DEF FeedInv, GroupOK
<1>6. WorkOK'
  BY <1>2, <1>3, WorkGrows DEF FeedInv, work
<1>7. QED
  BY <1>1, <1>2, <1>4, <1>5, <1>6 DEF FeedInv, CountOK

\* The steps that commit nothing leave the events and the store as they are.
LEMMA StoreUnchanged ==
    ASSUME FeedInv, UNCHANGED <<version, store>>
    PROVE  VersionOK' /\ StoreOK' /\ CommittedEvents' = CommittedEvents
<1>1. CommittedEvents' = CommittedEvents
  BY DEF CommittedEvents, T!Committed
<1>2. QED
  BY <1>1 DEF FeedInv, VersionOK, StoreOK, T!Contents

LEMMA SendEventInv ==
    ASSUME FeedInv, NEW e \in T!Events, SendEvent(e)
    PROVE  FeedInv'
<1>1. /\ T!Committed(e) /\ log' = Append(log, e)
      /\ UNCHANGED <<version, store, owner, pos, fetched, pc, msg, scope, todo, aborted, disruptions>>
  BY DEF SendEvent, T!Send, group, work
<1>2. VersionOK' /\ StoreOK' /\ CommittedEvents' = CommittedEvents
  BY <1>1, StoreUnchanged
<1>3. e \in CommittedEvents
  BY <1>1 DEF CommittedEvents
<1>4. log' \in Seq(CommittedEvents) /\ Len(log') = Len(log) + 1
  BY <1>1, <1>3, AppendProperties DEF FeedInv, GroupOK
<1>5. GroupOK'
  BY <1>1, <1>2, <1>4 DEF FeedInv, GroupOK
<1>6. WorkOK'
  BY <1>1, <1>2, WorkGrows DEF FeedInv, work
<1>7. QED
  BY <1>1, <1>2, <1>5, <1>6 DEF FeedInv, CountOK

LEMMA DisruptionCounts ==
    ASSUME CountOK, Disruption
    PROVE  CountOK'
BY FeedAssumption DEF CountOK, Disruption

LEMMA RebalanceInv ==
    ASSUME FeedInv, Rebalance
    PROVE  FeedInv'
<1>1. /\ Disruption /\ owner' \in Consumers /\ pc[owner'] = "idle"
      /\ UNCHANGED <<version, store, log, pc, msg, scope, todo, aborted>>
  BY DEF Rebalance, topic, work
<1>2. PICK offset \in 0..pos[owner] : pos' = [pos EXCEPT ![owner'] = offset]
  BY DEF Rebalance
<1>3. PICK end \in IF pc[owner] = "idle" THEN {0} ELSE pos[owner] + 1..Len(log) :
          fetched' = [fetched EXCEPT ![owner] = end, ![owner'] = 0]
  BY DEF Rebalance
<1>4. /\ log \in Seq(CommittedEvents) /\ Len(log) \in Nat
      /\ owner \in Consumers /\ pos \in [Consumers -> Nat] /\ fetched \in [Consumers -> Nat]
      /\ \A c \in Consumers : pos[c] <= Len(log) /\ fetched[c] <= Len(log)
      /\ \A c \in Consumers : pc[c] # "idle" => pos[c] < Len(log)
  BY DEF FeedInv, GroupOK
<1>5. pos' \in [Consumers -> Nat] /\ \A c \in Consumers : pos'[c] <= Len(log)
  BY <1>1, <1>2, <1>4
<1>6. fetched' \in [Consumers -> Nat] /\ \A c \in Consumers : fetched'[c] <= Len(log)
  <2>1. end \in Nat /\ end <= Len(log)
    BY <1>3, <1>4
  <2>2. QED
    BY <1>1, <1>3, <1>4, <2>1
<1>7. ASSUME NEW c \in Consumers, pc[c] # "idle" PROVE pos'[c] < Len(log)
  <2>1. c # owner'
    BY <1>1, <1>7
  <2>2. QED
    BY <1>2, <1>4, <1>7, <2>1
<1>8. VersionOK' /\ StoreOK' /\ CommittedEvents' = CommittedEvents /\ CountOK'
  BY <1>1, StoreUnchanged, DisruptionCounts DEF FeedInv
<1>9. GroupOK'
  BY <1>1, <1>8, <1>4, <1>5, <1>6, <1>7 DEF GroupOK
<1>10. WorkOK'
  BY <1>1, <1>8, WorkGrows DEF FeedInv, work
<1>11. QED
  BY <1>8, <1>9, <1>10 DEF FeedInv

LEMMA FeedStutters ==
    ASSUME FeedInv, UNCHANGED feed
    PROVE  FeedInv'
<1>1. UNCHANGED <<version, store, log, owner, pos, fetched, pc, msg, scope, todo, aborted, disruptions>>
  BY DEF feed, topic, group, work
<1>2. VersionOK' /\ StoreOK' /\ CommittedEvents' = CommittedEvents
  BY <1>1, StoreUnchanged
<1>3. QED
  BY <1>1, <1>2, WorkGrows DEF FeedInv, GroupOK, CountOK, work

LEMMA FetchInv ==
    ASSUME FeedInv, NEW c \in Consumers, Fetch(c)
    PROVE  FeedInv'
<1>0. /\ log \in Seq(CommittedEvents) /\ Len(log) \in Nat
      /\ pos[c] \in Nat /\ fetched[c] \in Nat /\ fetched[c] <= Len(log)
  BY DEF FeedInv, GroupOK
<1>1. /\ pos[c] < Len(log)
      /\ msg' = [msg EXCEPT ![c] = log[pos[c] + 1]] /\ pc' = [pc EXCEPT ![c] = "read"]
      /\ UNCHANGED <<version, store, log, owner, pos, fetched, scope, todo, aborted, disruptions>>
  BY <1>0 DEF Fetch, topic, group
<1>2. VersionOK' /\ StoreOK' /\ CommittedEvents' = CommittedEvents
  BY <1>1, StoreUnchanged
<1>3. log[pos[c] + 1] \in CommittedEvents
  BY <1>0, <1>1, ElementOfSeq
<1>4. c \in Workers /\ c \notin Rebuilders
  BY FeedAssumption DEF Workers
<1>5. GroupOK'
  <2>1. \A d \in Consumers : pc'[d] # "idle" => pc[d] # "idle" \/ d = c
    BY <1>1 DEF FeedInv, WorkOK, Workers
  <2>2. QED
    BY <1>1, <1>2, <2>1 DEF FeedInv, GroupOK
<1>6. WorkOK'
  BY <1>1, <1>2, <1>3, <1>4 DEF FeedInv, WorkOK, PCs
<1>7. QED
  BY <1>1, <1>2, <1>5, <1>6 DEF FeedInv, CountOK
-----------------------------------------------------------------------------
(* The handling of one event *)

LEMMA GotoInv ==
    ASSUME FeedInv, NEW w \in Workers, NEW label \in {"upsert", "append"},
           pc[w] \in {"read", "upsert", "append"}, Goto(w, label)
    PROVE  FeedInv'
<1>1. /\ pc' = [pc EXCEPT ![w] = label]
      /\ UNCHANGED <<version, store, log, owner, pos, fetched, msg, scope, todo, aborted, disruptions>>
  BY DEF Goto, topic, group
<1>2. VersionOK' /\ StoreOK' /\ CommittedEvents' = CommittedEvents
  BY <1>1, StoreUnchanged
<1>3. GroupOK'
  <2>1. \A c \in Consumers : pc'[c] # "idle" => pc[c] # "idle"
    BY <1>1 DEF FeedInv, WorkOK, Workers
  <2>2. QED
    BY <1>1, <1>2, <2>1 DEF FeedInv, GroupOK
<1>4. WorkOK'
  BY <1>1, <1>2 DEF FeedInv, WorkOK, PCs
<1>5. QED
  BY <1>1, <1>2, <1>3, <1>4 DEF FeedInv, CountOK

\* A worker that stops with its event, and may leave its rebuild.
LEMMA IdleWork ==
    ASSUME FeedInv, NEW w \in Workers, CommittedEvents' = CommittedEvents,
           pc' = [pc EXCEPT ![w] = "idle"], msg' = [msg EXCEPT ![w] = NoEvent],
           \/ w \in Consumers /\ UNCHANGED <<scope, todo, aborted>>
           \/ /\ w \in Rebuilders
              /\ scope' = [scope EXCEPT ![w] = NoScope]
              /\ todo' = todo \/ todo' = [todo EXCEPT ![w] = <<>>]
              /\ aborted' \in BOOLEAN
    PROVE  WorkOK'
<1>1. todo' \in [Rebuilders -> Seq(CommittedEvents)]
  <2>1. <<>> \in Seq(CommittedEvents)
    OBVIOUS
  <2>2. QED
    BY <2>1 DEF FeedInv, WorkOK
<1>2. scope' \in [Rebuilders -> Streams \cup {All, NoScope}] /\ aborted' \in BOOLEAN
  BY DEF FeedInv, WorkOK
<1>3. /\ pc' \in [Workers -> PCs] /\ msg' \in [Workers -> CommittedEvents \cup {NoEvent}]
      /\ \A v \in Workers : pc'[v] \in {"read", "upsert", "append"} => msg'[v] \in CommittedEvents
  BY DEF FeedInv, WorkOK, PCs
<1>4. \A r \in Rebuilders : pc'[r] # "idle" => scope'[r] # NoScope
  BY FeedAssumption DEF FeedInv, WorkOK, Workers
<1>5. QED
  BY <1>1, <1>2, <1>3, <1>4 DEF WorkOK

\* A rebuilder that turns to its next event.
LEMMA NextWork ==
    ASSUME FeedInv, NEW r \in Rebuilders, CommittedEvents' = CommittedEvents,
           NEW page \in Seq(CommittedEvents), page # <<>>, pc[r] # "idle",
           pc' = [pc EXCEPT ![r] = "read"], msg' = [msg EXCEPT ![r] = Head(page)],
           todo' = [todo EXCEPT ![r] = Tail(page)], UNCHANGED <<scope, aborted>>
    PROVE  WorkOK'
<1>1. Head(page) \in CommittedEvents /\ Tail(page) \in Seq(CommittedEvents)
  BY HeadTailProperties
<1>2. r \in Workers
  BY DEF Workers
<1>3. todo' \in [Rebuilders -> Seq(CommittedEvents)]
  BY <1>1 DEF FeedInv, WorkOK
<1>4. /\ pc' \in [Workers -> PCs] /\ msg' \in [Workers -> CommittedEvents \cup {NoEvent}]
      /\ \A v \in Workers : pc'[v] \in {"read", "upsert", "append"} => msg'[v] \in CommittedEvents
  BY <1>1, <1>2 DEF FeedInv, WorkOK, PCs
<1>5. \A q \in Rebuilders : pc'[q] # "idle" => scope'[q] # NoScope
  BY <1>2 DEF FeedInv, WorkOK, Workers
<1>6. QED
  BY <1>3, <1>4, <1>5 DEF FeedInv, WorkOK

\* A rebuilder is no member of the group.
LEMMA RebuilderGroup ==
    ASSUME FeedInv, NEW r \in Rebuilders, NEW label, pc' = [pc EXCEPT ![r] = label],
           CommittedEvents' = CommittedEvents, UNCHANGED <<log, owner, pos, fetched>>
    PROVE  GroupOK'
<1>1. \A c \in Consumers : pc'[c] = pc[c]
  BY FeedAssumption DEF FeedInv, WorkOK, Workers
<1>2. QED
  BY <1>1 DEF FeedInv, GroupOK

LEMMA AdvanceInv ==
    ASSUME FeedInv, NEW w \in Workers, pc[w] \in {"read", "upsert", "append"}, Advance(w)
    PROVE  FeedInv'
<1>1. CASE w \in Consumers
  <2>1. /\ pc' = [pc EXCEPT ![w] = "idle"] /\ msg' = [msg EXCEPT ![w] = NoEvent]
        /\ pos' = [pos EXCEPT ![w] = @ + 1]
        /\ UNCHANGED <<version, store, log, owner, fetched, scope, todo, aborted, disruptions>>
    BY <1>1 DEF Advance, topic
  <2>2. VersionOK' /\ StoreOK' /\ CommittedEvents' = CommittedEvents
    BY <2>1, StoreUnchanged
  <2>3. WorkOK'
    BY <1>1, <2>1, <2>2, IdleWork
  <2>4. GroupOK'
    <3>1. log \in Seq(CommittedEvents) /\ Len(log) \in Nat /\ pos \in [Consumers -> Nat]
      BY DEF FeedInv, GroupOK
    <3>2. pos[w] < Len(log)
      BY <1>1 DEF FeedInv, GroupOK
    <3>3. pos' \in [Consumers -> Nat] /\ \A c \in Consumers : pos'[c] <= Len(log)
      BY <1>1, <2>1, <3>1, <3>2 DEF FeedInv, GroupOK
    <3>4. ASSUME NEW c \in Consumers, pc'[c] # "idle" PROVE pos'[c] < Len(log)
      <4>1. c # w /\ pc[c] # "idle"
        BY <1>1, <2>1, <3>4 DEF FeedInv, WorkOK, Workers
      <4>2. QED
        BY <2>1, <3>1, <4>1 DEF FeedInv, GroupOK
    <3>5. QED
      BY <2>1, <2>2, <3>3, <3>4 DEF FeedInv, GroupOK
  <2>5. QED
    BY <2>1, <2>2, <2>3, <2>4 DEF FeedInv, CountOK
<1>2. CASE w \notin Consumers
  <2>1. w \in Rebuilders
    BY <1>2 DEF Workers
  <2>2. UNCHANGED <<version, store, log, owner, pos, fetched, aborted, disruptions>>
    BY <1>2 DEF Advance, topic, group
  <2>3. VersionOK' /\ StoreOK' /\ CommittedEvents' = CommittedEvents
    BY <2>2, StoreUnchanged
  <2>4. CASE todo[w] # <<>>
    <3>1. /\ pc' = [pc EXCEPT ![w] = "read"] /\ msg' = [msg EXCEPT ![w] = Head(todo[w])]
          /\ todo' = [todo EXCEPT ![w] = Tail(todo[w])] /\ UNCHANGED scope
      BY <1>2, <2>4 DEF Advance
    <3>2. todo[w] \in Seq(CommittedEvents)
      BY <2>1 DEF FeedInv, WorkOK
    <3>3. WorkOK'
      BY <2>1, <2>2, <2>3, <2>4, <3>1, <3>2, NextWork
    <3>4. GroupOK'
      BY <2>1, <2>2, <2>3, <3>1, RebuilderGroup
    <3>5. QED
      BY <2>2, <2>3, <3>3, <3>4 DEF FeedInv, CountOK
  <2>5. CASE todo[w] = <<>> /\ scope[w] = All
    <3>1. pc' = [pc EXCEPT ![w] = "events"] /\ UNCHANGED <<msg, todo, scope>>
      BY <1>2, <2>5 DEF Advance
    <3>2. WorkOK'
      BY <2>1, <2>2, <2>3, <2>5, <3>1, FeedAssumption DEF FeedInv, WorkOK, PCs, Workers
    <3>3. GroupOK'
      BY <2>1, <2>2, <2>3, <3>1, RebuilderGroup
    <3>4. QED
      BY <2>2, <2>3, <3>2, <3>3 DEF FeedInv, CountOK
  <2>6. CASE todo[w] = <<>> /\ scope[w] # All
    <3>1. /\ pc' = [pc EXCEPT ![w] = "idle"] /\ msg' = [msg EXCEPT ![w] = NoEvent]
          /\ scope' = [scope EXCEPT ![w] = NoScope] /\ UNCHANGED todo
      BY <1>2, <2>6 DEF Advance
    <3>2. aborted' \in BOOLEAN
      BY <2>2 DEF FeedInv, WorkOK
    <3>3. WorkOK'
      BY <2>1, <2>3, <3>1, <3>2, IdleWork
    <3>4. GroupOK'
      BY <2>1, <2>2, <2>3, <3>1, RebuilderGroup
    <3>5. QED
      BY <2>2, <2>3, <3>3, <3>4 DEF FeedInv, CountOK
  <2>7. QED
    BY <2>4, <2>5, <2>6
<1>3. QED
  BY <1>1, <1>2

LEMMA ThrowInv ==
    ASSUME FeedInv, NEW w \in Workers, Throw(w), Disruption \/ UNCHANGED disruptions
    PROVE  FeedInv'
<1>1. /\ pc' = [pc EXCEPT ![w] = "idle"] /\ msg' = [msg EXCEPT ![w] = NoEvent]
      /\ UNCHANGED <<version, store, log, owner, pos>>
      /\ fetched' = fetched \/ (w \in Consumers /\ fetched' = [fetched EXCEPT ![w] = 0])
  BY DEF Throw, topic
<1>2. \/ w \in Consumers /\ UNCHANGED <<scope, todo, aborted>>
      \/ /\ w \in Rebuilders
         /\ scope' = [scope EXCEPT ![w] = NoScope]
         /\ todo' = todo \/ todo' = [todo EXCEPT ![w] = <<>>]
         /\ aborted' \in BOOLEAN
  BY DEF Throw, Workers
<1>3. VersionOK' /\ StoreOK' /\ CommittedEvents' = CommittedEvents
  BY <1>1, StoreUnchanged
<1>4. WorkOK'
  BY <1>1, <1>2, <1>3, IdleWork
<1>5. GroupOK'
  <2>1. \A c \in Consumers : pc'[c] # "idle" => pc[c] # "idle"
    BY <1>1 DEF FeedInv, WorkOK, Workers
  <2>2. fetched' \in [Consumers -> Nat] /\ \A c \in Consumers : fetched'[c] <= Len(log)
    <3>1. log \in Seq(CommittedEvents) /\ Len(log) \in Nat /\ fetched \in [Consumers -> Nat]
      BY DEF FeedInv, GroupOK
    <3>2. fetched' \in [Consumers -> Nat]
      BY <1>1, <3>1
    <3>3. \A c \in Consumers : fetched'[c] = fetched[c] \/ fetched'[c] = 0
      BY <1>1, <3>1
    <3>4. \A c \in Consumers : fetched[c] <= Len(log)
      BY DEF FeedInv, GroupOK
    <3>5. QED
      BY <3>1, <3>2, <3>3, <3>4
  <2>3. QED
    BY <1>1, <1>3, <2>1, <2>2 DEF FeedInv, GroupOK
<1>6. CountOK'
  BY DisruptionCounts DEF FeedInv, CountOK
<1>7. QED
  BY <1>3, <1>4, <1>5, <1>6 DEF FeedInv

-----------------------------------------------------------------------------
(* Rebuilds *)

LEMMA StartRebuildInv ==
    ASSUME FeedInv, NEW r \in Rebuilders, NEW sc \in Streams \cup {All}, StartRebuild(r, sc)
    PROVE  FeedInv'
<1>1. /\ scope' = [scope EXCEPT ![r] = sc] /\ pc' = [pc EXCEPT ![r] = "events"] /\ Disruption
      /\ UNCHANGED <<version, store, log, owner, pos, fetched, msg, todo, aborted>>
  BY DEF StartRebuild, topic, group
<1>2. VersionOK' /\ StoreOK' /\ CommittedEvents' = CommittedEvents /\ CountOK'
  BY <1>1, StoreUnchanged, DisruptionCounts DEF FeedInv
<1>3. r \in Workers /\ sc # NoScope
  BY FeedAssumption DEF Workers
<1>4. WorkOK'
  <2>1. \A q \in Rebuilders : pc'[q] # "idle" => scope'[q] # NoScope
    BY <1>1, <1>3 DEF FeedInv, WorkOK, Workers
  <2>2. QED
    BY <1>1, <1>2, <1>3, <2>1 DEF FeedInv, WorkOK, PCs
<1>5. GroupOK'
  BY <1>1, <1>2, RebuilderGroup
<1>6. QED
  BY <1>2, <1>4, <1>5 DEF FeedInv

\* readStream returns committed events.
LEMMA StreamEventsType ==
    ASSUME FeedInv, NEW s \in Streams
    PROVE  StreamEvents(s) \in Seq(CommittedEvents)
<1>1. version[s] \in Nat /\ version[s] <= Length[s] /\ Length[s] \in Nat
  BY FeedAssumption DEF FeedInv, VersionOK, T!TopicAssumption
<1>2. ASSUME NEW v \in 1..version[s] PROVE [stream |-> s, version |-> v] \in CommittedEvents
  <2>1. v \in 1..Length[s]
    BY <1>1
  <2>2. QED
    BY <1>1, <2>1, EventExists DEF CommittedEvents, T!Committed
<1>3. StreamEvents(s) \in [1..version[s] -> CommittedEvents]
  BY <1>2 DEF StreamEvents
<1>4. QED
  BY <1>1, <1>3, SeqDef

\* readAll returns committed events: the position of the last one projected is known.
LEMMA EventsAfterType ==
    ASSUME FeedInv, NEW e \in CommittedEvents \cup {NoEvent}
    PROVE  EventsAfter(e) \in Seq(CommittedEvents)
<1>1. store \in Seq(CommittedEvents) /\ Len(store) \in Nat /\ DOMAIN store = 1..Len(store)
  BY DEF FeedInv, StoreOK
<1>2. CASE e = NoEvent
  BY <1>1, <1>2 DEF EventsAfter
<1>3. CASE e # NoEvent
  <2> DEFINE i == CHOOSE j \in DOMAIN store : store[j] = e
  <2>1. e \in T!Contents(store)
    BY <1>3 DEF FeedInv, StoreOK
  <2>2. \E j \in DOMAIN store : store[j] = e
    BY <2>1 DEF T!Contents
  <2>3. i \in DOMAIN store
    BY <2>2
  <2> HIDE DEF i
  <2>4. i + 1 \in 1..Len(store) + 1
    BY <1>1, <2>3
  <2>5. SubSeq(store, i + 1, Len(store)) \in Seq(CommittedEvents)
    BY <1>1, <2>4, SubSeqProperties
  <2>6. EventsAfter(e) = SubSeq(store, i + 1, Len(store))
    BY <1>3 DEF EventsAfter, i
  <2>7. QED
    BY <2>5, <2>6
<1>4. QED
  BY <1>2, <1>3

LEMMA ReadEventsInv ==
    ASSUME FeedInv, NEW r \in Rebuilders, ReadEvents(r)
    PROVE  FeedInv'
<1> DEFINE page == IF scope[r] = All THEN EventsAfter(msg[r]) ELSE StreamEvents(scope[r])
<1>1. /\ pc[r] = "events" /\ UNCHANGED <<version, store, log, owner, pos, fetched, aborted, disruptions>>
      /\ \/ /\ page = <<>> /\ pc' = [pc EXCEPT ![r] = "idle"]
            /\ msg' = [msg EXCEPT ![r] = NoEvent]
            /\ scope' = [scope EXCEPT ![r] = NoScope] /\ UNCHANGED todo
         \/ /\ page # <<>> /\ pc' = [pc EXCEPT ![r] = "read"]
            /\ msg' = [msg EXCEPT ![r] = Head(page)]
            /\ todo' = [todo EXCEPT ![r] = Tail(page)] /\ UNCHANGED scope
  BY DEF ReadEvents, topic, group
<1>2. VersionOK' /\ StoreOK' /\ CommittedEvents' = CommittedEvents
  BY <1>1, StoreUnchanged
<1>3. r \in Workers
  BY DEF Workers
<1>4. page \in Seq(CommittedEvents)
  <2>1. CASE scope[r] = All
    <3>1. msg[r] \in CommittedEvents \cup {NoEvent}
      BY <1>3 DEF FeedInv, WorkOK
    <3>2. QED
      BY <2>1, <3>1, EventsAfterType
  <2>2. CASE scope[r] # All
    <3>1. scope[r] \in Streams
      BY <1>1, <2>2 DEF FeedInv, WorkOK
    <3>2. QED
      BY <2>2, <3>1, StreamEventsType
  <2>3. QED
    BY <2>1, <2>2
<1> HIDE DEF page
<1>5. aborted' \in BOOLEAN
  BY <1>1 DEF FeedInv, WorkOK
<1>6. WorkOK'
  <2>1. CASE page = <<>>
    BY <1>1, <1>2, <1>3, <1>5, <2>1, IdleWork
  <2>2. CASE page # <<>>
    BY <1>1, <1>2, <1>4, <2>2, NextWork
  <2>3. QED
    BY <2>1, <2>2
<1>7. GroupOK'
  BY <1>1, <1>2, RebuilderGroup
<1>8. QED
  BY <1>1, <1>2, <1>6, <1>7 DEF FeedInv, CountOK
=============================================================================
