-------------------------------- MODULE Topic --------------------------------
(***************************************************************************)
(* What the projections may assume of the way events reach them: the       *)
(* streams of the event store grow one version at a time, and the Kafka    *)
(* topic holds events that were committed before they were sent - in any   *)
(* order and possibly several times.  OutboxRelay implements this; the     *)
(* projection modules take it as their environment.                        *)
(***************************************************************************)
EXTENDS Naturals, Sequences

CONSTANTS
    Streams,    \* event streams, each the message key of its events
    Length      \* bound: how many events each stream may get

\* What the modules that use this one assume of its constants.
TopicAssumption == Length \in [Streams -> Nat]

VARIABLES
    version,    \* the current version of each stream
    store,      \* the events table in the order of its sequence number (position)
    log         \* the messages of the topic, in the order they were written

Events == UNION {{[stream |-> s, version |-> v] : v \in 1..Length[s]} : s \in Streams}

Committed(e) == e.version <= version[e.stream]

Contents(seq) == {seq[i] : i \in DOMAIN seq}

\* seq with e in front of what follows its first i elements.
Insert(seq, i, e) == SubSeq(seq, 1, i) \o <<e>> \o SubSeq(seq, i + 1, Len(seq))

-----------------------------------------------------------------------------
Init ==
    /\ version = [s \in Streams |-> 0]
    /\ store = <<>>
    /\ log = <<>>

\* PostgresEventStore.append commits one event and, in the same transaction, its
\* outbox row.  The sequence number is drawn before the commit, so the event may
\* turn up before events of other streams that were committed earlier.
Commit(s) ==
    /\ version[s] < Length[s]
    /\ version' = [version EXCEPT ![s] = @ + 1]
    /\ \E i \in 0..Len(store) :
          /\ \A j \in i + 1..Len(store) : store[j].stream # s
          /\ store' = Insert(store, i, [stream |-> s, version |-> version[s] + 1])
    /\ UNCHANGED log

\* One more copy of a committed event.
Send(e) ==
    /\ Committed(e)
    /\ log' = Append(log, e)
    /\ UNCHANGED <<version, store>>

Next == (\E s \in Streams : Commit(s)) \/ (\E e \in Events : Send(e))

vars == <<version, store, log>>

Spec == Init /\ [][Next]_vars
=============================================================================
