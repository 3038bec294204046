----------------------------- MODULE OutboxRelay -----------------------------
(***************************************************************************)
(* The transactional outbox and its publishers.  append() writes an outbox *)
(* row with every event (postgres-event-store.ts); each application        *)
(* instance, the rebuild script included, runs a loop that claims pending  *)
(* rows, sends them to Kafka one by one and marks each published or failed *)
(* (outbox-publisher.service.ts, postgres-outbox-store.ts).                *)
(*                                                                         *)
(* A row is identified with its event.  attempts, last_error and the       *)
(* metrics are left out: nothing reads them back.                          *)
(***************************************************************************)
EXTENDS FiniteSets, Naturals, Sequences

CONSTANTS
    Streams,
    Length,         \* bound: events per stream
    Publishers,     \* one publisher loop per running process
    BatchSize,
    NoMessage,
    MaxFaults,      \* bound on failing calls
    MaxCrashes      \* bound on processes that die

VARIABLES
    version, store, log,    \* the streams and the topic, see Topic
    outbox,         \* the rows of outbox_events
    published,      \* rows with published_at set
    claimed,        \* rows with processing_started_at set
    pc,             \* where each loop is
    batch,          \* the claimed messages the loop has not dealt with yet
    msg,            \* the message it is dealing with
    faults, crashes,
    abandoned       \* auxiliary: claimed rows whose publisher has lost track of them

T == INSTANCE Topic

ASSUME RelayAssumption ==
    /\ T!TopicAssumption
    /\ BatchSize \in Nat \ {0}
    /\ NoMessage \notin T!Events
    /\ MaxFaults \in Nat
    /\ MaxCrashes \in Nat

rows == <<outbox, published, claimed>>
loop == <<pc, batch, msg>>
vars == <<version, store, log, rows, loop, faults, crashes, abandoned>>

\* Polling; sending the next message; marking it published; marking it failed.
PCs == {"idle", "send", "mark", "fail", "down"}

TypeOK ==
    /\ outbox \subseteq T!Events
    /\ published \subseteq outbox
    /\ claimed \subseteq outbox
    /\ abandoned \subseteq outbox
    /\ pc \in [Publishers -> PCs]
    /\ batch \in [Publishers -> SUBSET outbox]
    /\ msg \in [Publishers -> T!Events \cup {NoMessage}]
    /\ \A p \in Publishers :
          /\ pc[p] \in {"idle", "down"} => batch[p] = {}
          /\ pc[p] = "send" => batch[p] # {}
          /\ pc[p] \in {"mark", "fail"} => msg[p] \in batch[p]
    /\ faults \in 0..MaxFaults
    /\ crashes \in 0..MaxCrashes

-----------------------------------------------------------------------------
(* Helpers *)

\* Mutant: the claim mark is not looked at.
ClaimableUnlessPublished == outbox \ published

\* WHERE published_at IS NULL AND processing_started_at IS NULL
Claimable == outbox \ (published \cup claimed)

\* ORDER BY event_position
Before(e, f) == \E i, j \in DOMAIN store : i < j /\ store[i] = e /\ store[j] = f

Smaller(m, n) == IF m < n THEN m ELSE n

\* Mutant: an error in the try block is swallowed and the row marked published.
Swallow(p, e) ==
    /\ pc' = [pc EXCEPT ![p] = "mark"]
    /\ msg' = [msg EXCEPT ![p] = e]
    /\ UNCHANGED batch

\* The catch block inside the loop over the messages is entered.
Catch(p, e) ==
    /\ pc' = [pc EXCEPT ![p] = "fail"]
    /\ msg' = [msg EXCEPT ![p] = e]
    /\ UNCHANGED batch

\* This message is done; on to the rest of the batch, or back to polling.
Proceed(p) ==
    /\ batch' = [batch EXCEPT ![p] = @ \ {msg[p]}]
    /\ pc' = [pc EXCEPT ![p] = IF batch[p] \subseteq {msg[p]} THEN "idle" ELSE "send"]
    /\ msg' = [msg EXCEPT ![p] = NoMessage]

\* The loop gives the messages in lost up, and so the rest of its batch.
Drop(p, label, lost) ==
    /\ abandoned' = abandoned \cup lost
    /\ pc' = [pc EXCEPT ![p] = label]
    /\ batch' = [batch EXCEPT ![p] = {}]
    /\ msg' = [msg EXCEPT ![p] = NoMessage]

\* Mutant: the row is released without published_at.
ForgetsPublishedAt(e) == claimed' = claimed \ {e} /\ UNCHANGED <<outbox, published>>

\* UPDATE ... SET published_at, processing_started_at = NULL
SetPublished(e) ==
    /\ published' = published \cup {e}
    /\ claimed' = claimed \ {e}
    /\ UNCHANGED outbox

\* Mutant: the failed row keeps its claim mark.
StaysClaimed(e) == UNCHANGED rows

\* UPDATE ... SET attempts + 1, processing_started_at = NULL; published_at is kept.
SetFailed(e) ==
    /\ claimed' = claimed \ {e}
    /\ UNCHANGED <<outbox, published>>

\* producer.send writes the message to the partition of its key.
Write(e) ==
    /\ log' = Append(log, e)
    /\ UNCHANGED <<version, store>>

Fault == faults < MaxFaults /\ faults' = faults + 1

-----------------------------------------------------------------------------
(* Actions *)

Init ==
    /\ T!Init
    /\ outbox = {} /\ published = {} /\ claimed = {} /\ abandoned = {}
    /\ pc = [p \in Publishers |-> "idle"]
    /\ batch = [p \in Publishers |-> {}]
    /\ msg = [p \in Publishers |-> NoMessage]
    /\ faults = 0 /\ crashes = 0

NextEvent(s) == [stream |-> s, version |-> version[s] + 1]

\* Mutant: the row is inserted in a transaction of its own, before the event.
AppendsRowFirst(s) ==
    /\ version[s] < Length[s]
    /\ outbox' = outbox \cup {NextEvent(s)}
    /\ T!Commit(s) \/ UNCHANGED <<version, store, log>>
    /\ UNCHANGED <<published, claimed, loop, faults, crashes, abandoned>>

\* append: the event and its outbox row in one transaction.
AppendEvent(s) ==
    /\ T!Commit(s)
    /\ outbox' = outbox \cup {NextEvent(s)}
    /\ UNCHANGED <<published, claimed, loop, faults, crashes, abandoned>>

\* The rows claimPending selects: FOR UPDATE SKIP LOCKED makes a row that another
\* claim holds as good as claimed.
Selected(sel) ==
    /\ Cardinality(sel) = Smaller(BatchSize, Cardinality(Claimable))
    /\ \A e \in sel, f \in Claimable \ sel : Before(e, f)

\* claimPending.  RETURNING promises no order, so the batch is a set.
Claim(p) ==
    /\ pc[p] = "idle"
    /\ Claimable # {}
    /\ \E sel \in SUBSET Claimable :
          /\ Selected(sel)
          /\ claimed' = claimed \cup sel
          /\ batch' = [batch EXCEPT ![p] = sel]
    /\ pc' = [pc EXCEPT ![p] = "send"]
    /\ UNCHANGED <<version, store, log, outbox, published, msg, faults, crashes, abandoned>>

\* The COMMIT of claimPending takes effect, its reply is lost: the outer catch
\* block logs and sleeps.  A claim that fails outright changes nothing.
ClaimReplyLost(p) ==
    /\ pc[p] = "idle"
    /\ Claimable # {}
    /\ Fault
    /\ \E sel \in SUBSET Claimable :
          /\ Selected(sel)
          /\ claimed' = claimed \cup sel
          /\ abandoned' = abandoned \cup sel
    /\ UNCHANGED <<version, store, log, outbox, published, loop, crashes>>

\* Nothing to claim: the loop sleeps and polls again.
Poll(p) ==
    /\ pc[p] = "idle"
    /\ Claimable = {}
    /\ UNCHANGED vars

\* kafkaClient.publish for any message of the batch.
Publish(p) ==
    /\ pc[p] = "send"
    /\ \E e \in batch[p] :
          /\ Write(e)
          /\ msg' = [msg EXCEPT ![p] = e]
    /\ pc' = [pc EXCEPT ![p] = "mark"]
    /\ UNCHANGED <<rows, batch, faults, crashes, abandoned>>

\* publish throws; the message was not written, or it was and the answer is lost.
PublishFails(p) ==
    /\ pc[p] = "send"
    /\ Fault
    /\ \E e \in batch[p] :
          /\ Write(e) \/ UNCHANGED <<version, store, log>>
          /\ Catch(p, e)
    /\ UNCHANGED <<rows, crashes, abandoned>>

\* The producer resends a message whose acknowledgement it did not get.
ProducerRetries(p) ==
    /\ pc[p] = "mark"
    /\ Fault
    /\ Write(msg[p])
    /\ UNCHANGED <<rows, loop, crashes, abandoned>>

MarkPublished(p) ==
    /\ pc[p] = "mark"
    /\ SetPublished(msg[p])
    /\ Proceed(p)
    /\ UNCHANGED <<version, store, log, faults, crashes, abandoned>>

\* markPublished throws, with or without effect.
MarkPublishedFails(p) ==
    /\ pc[p] = "mark"
    /\ Fault
    /\ SetPublished(msg[p]) \/ UNCHANGED rows
    /\ Catch(p, msg[p])
    /\ UNCHANGED <<version, store, log, crashes, abandoned>>

MarkFailed(p) ==
    /\ pc[p] = "fail"
    /\ SetFailed(msg[p])
    /\ Proceed(p)
    /\ UNCHANGED <<version, store, log, faults, crashes, abandoned>>

\* markFailed throws, with or without effect: the outer catch block takes over and
\* the rest of the batch is forgotten.
MarkFailedFails(p) ==
    /\ pc[p] = "fail"
    /\ Fault
    /\ \/ SetFailed(msg[p]) /\ Drop(p, "idle", batch[p] \ {msg[p]})
       \/ UNCHANGED rows /\ Drop(p, "idle", batch[p])
    /\ UNCHANGED <<version, store, log, crashes>>

\* The process dies; a loop that is stopped while polling loses nothing.
Crash(p) ==
    /\ pc[p] # "down"
    /\ crashes < MaxCrashes
    /\ crashes' = crashes + 1
    /\ Drop(p, "down", batch[p])
    /\ UNCHANGED <<version, store, log, rows, faults>>

\* onModuleInit starts the loop.
Restart(p) ==
    /\ pc[p] = "down"
    /\ pc' = [pc EXCEPT ![p] = "idle"]
    /\ UNCHANGED <<version, store, log, rows, batch, msg, faults, crashes, abandoned>>

\* runLoop: what publisher p does next.
Step(p) ==
    \/ Claim(p) \/ ClaimReplyLost(p)
    \/ Publish(p) \/ PublishFails(p) \/ ProducerRetries(p)
    \/ MarkPublished(p) \/ MarkPublishedFails(p)
    \/ MarkFailed(p) \/ MarkFailedFails(p)

Next ==
    \/ \E s \in Streams : AppendEvent(s)
    \/ \E p \in Publishers : Step(p) \/ Poll(p) \/ Crash(p) \/ Restart(p)

Spec == Init /\ [][Next]_vars

\* Every loop keeps running; a process that died need not be started again.
FairSpec == Spec /\ \A p \in Publishers : WF_vars(Step(p))

-----------------------------------------------------------------------------
(* Properties *)

\* "prevents competing publishers from working the same outbox rows at the same
\* time" (spec-002.md): no row is in the batches of two publishers, whichever of
\* their calls fail.
ClaimExclusive ==
    \A p, q \in Publishers : p # q => batch[p] \cap batch[q] = {}

\* "if the event exists in the event store, the publish work also exists durably in the
\* outbox" (spec-002.md), until it is done: every committed event is in the topic or has
\* a row that is still to be published, whichever calls fail and whoever dies.
NothingLost ==
    \A e \in T!Events : T!Committed(e) =>
        e \in T!Contents(log) \/ e \in outbox \ published

\* As long as no call fails, every event is sent once, although several publishers
\* claim, send and die in any order.
SentOnceWithoutFaults ==
    faults = 0 => \A i, j \in DOMAIN log : log[i] = log[j] => i = j

\* Every event of the store is published in the end, except the rows a publisher
\* had claimed when it died or when its bookkeeping failed: nothing releases those.
PublishedUnlessAbandoned ==
    \A e \in T!Events : T!Committed(e) ~> e \in published \cup abandoned

\* To a projection the relay is no more than a topic: it sends committed events only.
ImplementsTopic == T!Spec
=============================================================================
