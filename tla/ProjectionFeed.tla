--------------------------- MODULE ProjectionFeed ---------------------------
(***************************************************************************)
(* How events reach a projector: live, through the Kafka consumers of the  *)
(* application instances (account-events-consumer.service.ts and           *)
(* transfer-events-consumer.service.ts), or from the event store, by a     *)
(* rebuild of one stream or of everything (projection-runner.service.ts).  *)
(* Messages of one partition are handled one at a time, but a consumer     *)
(* that lost the partition goes on with the batch it has fetched until it  *)
(* notices, and a rebuild of another process (the rebuild script, another  *)
(* instance) is not coordinated with the consumers; ProjectionCoordination *)
(* models what is coordinated inside one process.                          *)
(***************************************************************************)
EXTENDS Naturals, Sequences

CONSTANTS
    Streams, Length,
    Consumers,      \* members of the consumer group
    Rebuilders,     \* processes that run rebuilds
    All, NoScope,   \* scope of a rebuild of everything; no rebuild running
    NoEvent,
    MaxLog,         \* bound on the messages in the topic
    MaxDisruptions  \* bound on failing calls, dying processes, rebalances and rebuilds

VARIABLES
    version, store, log,    \* the streams and the topic, see Topic
    owner,      \* the consumer the partition is assigned to
    pos,        \* how many messages of the partition each consumer is past
    fetched,    \* how far one that has lost the partition still goes in its batch
    pc,         \* where each worker is in handling its event
    msg,        \* the event it is handling
    scope,      \* what each rebuilder rebuilds
    todo,       \* the events it has read and not projected yet
    aborted,    \* some rebuild ended before it was through
    disruptions \* how many of them there were

T == INSTANCE Topic

Workers == Consumers \cup Rebuilders

ASSUME FeedAssumption ==
    /\ T!TopicAssumption
    /\ Consumers # {}
    /\ Consumers \cap Rebuilders = {}
    /\ NoEvent \notin T!Events
    /\ {All, NoScope} \cap Streams = {}
    /\ All # NoScope
    /\ MaxLog \in Nat /\ MaxDisruptions \in Nat

topic  == <<version, store, log>>
group  == <<owner, pos, fetched>>
work   == <<pc, msg, scope, todo, aborted>>
feed   == <<topic, group, work, disruptions>>

\* Waiting for an event; about to read the events of a rebuild; about to read the
\* row the event changes, to write it, to write the statement entry.
PCs == {"idle", "events", "read", "upsert", "append"}

FeedTypeOK ==
    /\ version \in [Streams -> Nat] /\ \A s \in Streams : version[s] <= Length[s]
    /\ store \in Seq(T!Events) /\ log \in Seq(T!Events)
    /\ owner \in Consumers
    /\ pos \in [Consumers -> Nat] /\ \A c \in Consumers : pos[c] <= Len(log)
    /\ fetched \in [Consumers -> Nat] /\ \A c \in Consumers : fetched[c] <= Len(log)
    /\ pc \in [Workers -> PCs]
    /\ msg \in [Workers -> T!Events \cup {NoEvent}]
    /\ \A w \in Workers : pc[w] \in {"read", "upsert", "append"} => msg[w] \in T!Events
    /\ scope \in [Rebuilders -> Streams \cup {All, NoScope}]
    /\ todo \in [Rebuilders -> Seq(T!Events)]
    /\ aborted \in BOOLEAN
    /\ disruptions \in 0..MaxDisruptions

FeedInit ==
    /\ T!Init
    /\ owner = (CHOOSE c \in Consumers : TRUE)
    /\ pos = [c \in Consumers |-> 0]
    /\ fetched = [c \in Consumers |-> 0]
    /\ pc = [w \in Workers |-> "idle"]
    /\ msg = [w \in Workers |-> NoEvent]
    /\ scope = [r \in Rebuilders |-> NoScope]
    /\ todo = [r \in Rebuilders |-> <<>>]
    /\ aborted = FALSE
    /\ disruptions = 0

Disruption == disruptions < MaxDisruptions /\ disruptions' = disruptions + 1

-----------------------------------------------------------------------------
(* The event store, the relay and the consumer group *)

CommitEvent(s) == T!Commit(s) /\ UNCHANGED <<group, work, disruptions>>

SendEvent(e) ==
    /\ Len(log) < MaxLog
    /\ T!Send(e)
    /\ UNCHANGED <<group, work, disruptions>>

\* eachMessage is called with the next message of the partition, or of the batch.
Fetch(c) ==
    /\ pc[c] = "idle"
    /\ pos[c] < (IF owner = c THEN Len(log) ELSE fetched[c])
    /\ msg' = [msg EXCEPT ![c] = log[pos[c] + 1]]
    /\ pc' = [pc EXCEPT ![c] = "read"]
    /\ UNCHANGED <<topic, group, scope, todo, aborted, disruptions>>

\* The partition has no further message: the consumer keeps polling.
EmptyFetch == pos[owner] = Len(log) /\ pc[owner] = "idle" /\ UNCHANGED feed

\* The partition moves to another member, which starts at the last committed offset.
\* Offsets are committed at the end of a fetched batch, which may be the whole log.  The
\* former owner, if it is handling a message, handles that one and some more of its batch
\* before a heartbeat tells it.
Rebalance ==
    /\ Disruption
    /\ owner' \in {c \in Consumers \ {owner} : pc[c] = "idle"}
    /\ \E offset \in 0..pos[owner] : pos' = [pos EXCEPT ![owner'] = offset]
    /\ \E end \in IF pc[owner] = "idle" THEN {0} ELSE pos[owner] + 1..Len(log) :
          fetched' = [fetched EXCEPT ![owner] = end, ![owner'] = 0]
    /\ UNCHANGED <<topic, work>>

-----------------------------------------------------------------------------
(* The handling of one event *)

Goto(w, label) ==
    /\ pc' = [pc EXCEPT ![w] = label]
    /\ UNCHANGED <<topic, group, msg, scope, todo, aborted, disruptions>>

\* project() has returned: the consumer is past its message; a rebuild turns to the next
\* event, the next page of readAll, or is done.
Advance(w) ==
    IF w \in Consumers
    THEN /\ pc' = [pc EXCEPT ![w] = "idle"]
         /\ msg' = [msg EXCEPT ![w] = NoEvent]
         /\ pos' = [pos EXCEPT ![w] = @ + 1]
         /\ UNCHANGED <<topic, owner, fetched, scope, todo, aborted, disruptions>>
    ELSE /\ IF todo[w] # <<>>
            THEN /\ msg' = [msg EXCEPT ![w] = Head(todo[w])]
                 /\ todo' = [todo EXCEPT ![w] = Tail(@)]
                 /\ pc' = [pc EXCEPT ![w] = "read"]
                 /\ UNCHANGED scope
            ELSE IF scope[w] = All
            THEN /\ pc' = [pc EXCEPT ![w] = "events"]
                 /\ UNCHANGED <<msg, todo, scope>>
            ELSE /\ pc' = [pc EXCEPT ![w] = "idle"]
                 /\ msg' = [msg EXCEPT ![w] = NoEvent]
                 /\ scope' = [scope EXCEPT ![w] = NoScope]
                 /\ UNCHANGED todo
         /\ UNCHANGED <<topic, group, aborted, disruptions>>

\* Mutant: the error is swallowed, and the offset moves on.
Swallow(w) ==
    /\ pc' = [pc EXCEPT ![w] = "idle"]
    /\ msg' = [msg EXCEPT ![w] = NoEvent]
    /\ IF w \in Consumers
       THEN /\ pos' = [pos EXCEPT ![w] = @ + 1]
            /\ UNCHANGED <<fetched, scope, todo, aborted>>
       ELSE /\ scope' = [scope EXCEPT ![w] = NoScope]
            /\ todo' = [todo EXCEPT ![w] = <<>>]
            /\ aborted' = TRUE
            /\ UNCHANGED <<pos, fetched>>
    /\ UNCHANGED <<topic, owner>>

\* project() has thrown, or the process has died: the message is delivered again, and
\* the rest of the batch is given up; a rebuild is over, whatever it has projected so far.
Throw(w) ==
    /\ pc' = [pc EXCEPT ![w] = "idle"]
    /\ msg' = [msg EXCEPT ![w] = NoEvent]
    /\ IF w \in Consumers
       THEN /\ fetched' = [fetched EXCEPT ![w] = 0]
            /\ UNCHANGED <<scope, todo, aborted>>
       ELSE /\ scope' = [scope EXCEPT ![w] = NoScope]
            /\ todo' = [todo EXCEPT ![w] = <<>>]
            /\ aborted' = TRUE
            /\ UNCHANGED fetched
    /\ UNCHANGED <<topic, owner, pos>>

-----------------------------------------------------------------------------
(* Rebuilds *)

\* rebuildAccount, rebuildTransfer or rebuildAll is called; its first step, the
\* reset of the read model, is the projection's.
StartRebuild(r, sc) ==
    /\ pc[r] = "idle"
    /\ Disruption
    /\ scope' = [scope EXCEPT ![r] = sc]
    /\ pc' = [pc EXCEPT ![r] = "events"]
    /\ UNCHANGED <<topic, group, msg, todo, aborted>>

\* Mutant: fromVersion is exclusive, and the first event missed.
StreamEventsAfterFirst(s) ==
    [v \in 1..version[s] - 1 |-> [stream |-> s, version |-> v + 1]]

\* readStream: the stream's events in the order of their versions.
StreamEvents(s) == [v \in 1..version[s] |-> [stream |-> s, version |-> v]]

\* readAll(checkpoint): the events at greater positions than the last one projected.
EventsAfter(e) ==
    IF e = NoEvent THEN store
    ELSE LET i == CHOOSE j \in DOMAIN store : store[j] = e
         IN SubSeq(store, i + 1, Len(store))

ReadEvents(r) ==
    LET page == IF scope[r] = All THEN EventsAfter(msg[r]) ELSE StreamEvents(scope[r])
    IN /\ pc[r] = "events"
       /\ IF page = <<>>
          THEN /\ pc' = [pc EXCEPT ![r] = "idle"]
               /\ msg' = [msg EXCEPT ![r] = NoEvent]
               /\ scope' = [scope EXCEPT ![r] = NoScope]
               /\ UNCHANGED todo
          ELSE /\ pc' = [pc EXCEPT ![r] = "read"]
               /\ msg' = [msg EXCEPT ![r] = Head(page)]
               /\ todo' = [todo EXCEPT ![r] = Tail(page)]
               /\ UNCHANGED scope
       /\ UNCHANGED <<topic, group, aborted, disruptions>>

-----------------------------------------------------------------------------
\* Every message comes after the earlier versions of its stream.
InOrder ==
    \A i \in DOMAIN log : \A v \in 1..log[i].version - 1 :
        \E j \in 1..i - 1 : log[j] = [stream |-> log[i].stream, version |-> v]
=============================================================================
