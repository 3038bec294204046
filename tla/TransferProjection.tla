------------------------- MODULE TransferProjection -------------------------
(***************************************************************************)
(* The transfer projector (transfer-projector.service.ts) and its table    *)
(* transfer_summary (postgres-transfer-read-model.repository.ts), from     *)
(* which coordinators list the pending transfers.  Unlike the account      *)
(* projector it does not compare versions: a row is overwritten unless its *)
(* updated_at is later than the event's occurredAt, a clock reading of the *)
(* process that raised the event.                                          *)
(*                                                                         *)
(* Of a row its status, failure stage, the legs whose transaction id is    *)
(* set and updated_at are kept.                                            *)
(***************************************************************************)
EXTENDS TransferAggregate, ProjectionFeed

CONSTANTS
    History,    \* the type and stage of the events each transfer stream gets
    Replay,     \* status and failure stage of the aggregate after each of them
    Clocks      \* assignments of occurredAt to the events

VARIABLES
    summary,    \* transfer_summary, per transfer
    seen,       \* the row a worker has read and is about to update
    clock,      \* occurredAt of every event
    disturbed   \* auxiliary: a rebuild has run while another worker was at work, or
                \* one of everything while events were committed behind its back

vars == <<feed, summary, seen, clock, disturbed>>

NoRow == [exists |-> FALSE, state |-> NewTransfer, legs |-> {}, updatedAt |-> 0]

Rows ==
    [exists : BOOLEAN, state : TransferState, legs : SUBSET Legs, updatedAt : Nat]

TransferEventTypes ==
    {"TransferInitiated", "TransferDebitStarted", "TransferDebited", "TransferCreditStarted",
     "TransferCompleted", "TransferFailed", "TransferCompensationStarted",
     "TransferCompensated"}

ASSUME TransferHistoryAssumption ==
    /\ \A t \in Streams :
          /\ History[t] \in [1..Length[t] -> [eventType : TransferEventTypes, stage : Stages]]
          /\ Replay[t] \in [0..Length[t] -> TransferState]
          /\ Replay[t][0] = NewTransfer
          /\ \A n \in 1..Length[t] :
                /\ CanRaise(Replay[t][n - 1], History[t][n].eventType)
                /\ Replay[t][n] = TransferWhen(Replay[t][n - 1], History[t][n].eventType,
                                               History[t][n].stage)
    /\ Clocks \subseteq [T!Events -> Nat]

TypeOK ==
    /\ FeedTypeOK
    /\ summary \in [Streams -> Rows]
    /\ seen \in [Workers -> Rows]
    /\ clock \in Clocks
    /\ disturbed \in BOOLEAN

-----------------------------------------------------------------------------
(* The projector *)

EventType(e) == History[e.stream][e.version].eventType

\* The leg whose transaction id a Started event carries.
LegOf(e) ==
    CASE EventType(e) = "TransferDebitStarted"        -> {"debit"}
      [] EventType(e) = "TransferCreditStarted"       -> {"credit"}
      [] EventType(e) = "TransferCompensationStarted" -> {"compensation"}
      [] OTHER -> {}

StatusAfter(e) ==
    CASE EventType(e) = "TransferInitiated"           -> "INITIATED"
      [] EventType(e) = "TransferDebitStarted"        -> "DEBIT_IN_PROGRESS"
      [] EventType(e) = "TransferDebited"             -> "DEBITED"
      [] EventType(e) = "TransferCreditStarted"       -> "CREDIT_IN_PROGRESS"
      [] EventType(e) = "TransferCompleted"           -> "COMPLETED"
      [] EventType(e) = "TransferFailed"              -> "FAILED"
      [] EventType(e) = "TransferCompensationStarted" -> "COMPENSATION_IN_PROGRESS"
      [] EventType(e) = "TransferCompensated"         -> "COMPENSATED"

\* What becomes of failureStage: set, cleared, or left as it was.
StageAfter(row, e) ==
    CASE EventType(e) = "TransferFailed" -> History[e.stream][e.version].stage
      [] EventType(e) \in {"TransferDebitStarted", "TransferCreditStarted"} -> "NONE"
      [] OTHER -> row.state.failureStage

\* Mutant: the transaction ids of earlier legs are not carried over.
ProjectedAfresh(existing, e) ==
    [exists |-> TRUE,
     state |-> [status |-> StatusAfter(e), failureStage |-> StageAfter(existing, e)],
     legs |-> LegOf(e),
     updatedAt |-> clock[e]]

\* The row to upsert; TransferInitiated starts from an empty one.
Projected(existing, e) ==
    LET row == IF EventType(e) = "TransferInitiated" THEN NoRow ELSE existing IN
    [exists |-> TRUE,
     state |-> [status |-> StatusAfter(e), failureStage |-> StageAfter(row, e)],
     legs |-> row.legs \cup LegOf(e),
     updatedAt |-> clock[e]]

\* Mutant: the upsert is unconditional.
OverwritesAnyRow(row, new) == TRUE

\* INSERT ... ON CONFLICT DO UPDATE ... WHERE updated_at <= EXCLUDED.updated_at
UpsertApplies(row, new) == ~row.exists \/ row.updatedAt <= new.updatedAt

\* Mutant: TransferInitiated must not meet a row.
ProjectableOnce(row, e) == row.exists # (EventType(e) = "TransferInitiated")

\* Not 'Projection missing transfer summary'.
Projectable(row, e) == row.exists \/ EventType(e) = "TransferInitiated"

-----------------------------------------------------------------------------
(* Actions *)

Init ==
    /\ FeedInit
    /\ summary = [t \in Streams |-> NoRow]
    /\ seen = [w \in Workers |-> NoRow]
    /\ clock \in Clocks
    /\ disturbed = FALSE

\* getTransferSummary; every event but the first needs a row.
ReadSummary(w) ==
    LET row == summary[msg[w].stream] IN
    /\ pc[w] = "read"
    /\ \/ /\ Projectable(row, msg[w])
          /\ seen' = [seen EXCEPT ![w] = row]
          /\ Goto(w, "upsert")
       \/ /\ ~Projectable(row, msg[w])
          /\ Throw(w)
          /\ UNCHANGED <<seen, disruptions>>
    /\ UNCHANGED summary

WriteSummary(w) ==
    LET new == Projected(seen[w], msg[w]) IN
    summary' = [summary EXCEPT ![msg[w].stream] = IF UpsertApplies(@, new) THEN new ELSE @]

\* upsertTransferSummary
Upsert(w) ==
    /\ pc[w] = "upsert"
    /\ WriteSummary(w)
    /\ seen' = [seen EXCEPT ![w] = NoRow]
    /\ Advance(w)

\* A query fails or the process dies; an upsert may have taken effect.
CallFails(w) ==
    /\ pc[w] \in {"events", "read", "upsert"}
    /\ Disruption
    /\ Throw(w)
    /\ seen' = [seen EXCEPT ![w] = NoRow]
    /\ \/ UNCHANGED summary
       \/ pc[w] = "upsert" /\ WriteSummary(w)

\* resetTransfer, resetAll
Rebuild(r) ==
    /\ \/ \E t \in Streams : StartRebuild(r, t) /\ summary' = [summary EXCEPT ![t] = NoRow]
       \/ StartRebuild(r, All) /\ summary' = [t \in Streams |-> NoRow]
    /\ UNCHANGED seen

Project(w) == ReadSummary(w) \/ Upsert(w)

Environment ==
    /\ \/ \E t \in Streams : CommitEvent(t)
       \/ \E e \in T!Events : SendEvent(e)
       \/ Rebalance
       \/ EmptyFetch
    /\ UNCHANGED <<summary, seen>>

Deliver(c) == Fetch(c) /\ UNCHANGED <<summary, seen>>

ReadRebuildEvents(r) == ReadEvents(r) /\ UNCHANGED <<summary, seen>>

Overlapping ==
    \E r \in Rebuilders : scope[r] # NoScope /\ \E w \in Workers \ {r} : pc[w] # "idle"

\* An event has got a lower position than one that a rebuild of everything may have read.
Overtaken ==
    \E r \in Rebuilders : scope[r] = All /\ \E i \in DOMAIN store : store'[i] # store[i]

\* clock never changes; disturbed records.
Recorded == clock' = clock /\ disturbed' = (disturbed \/ Overlapping' \/ Overtaken)

Step(w) ==
    /\ \/ w \in Consumers /\ Deliver(w)
       \/ w \in Rebuilders /\ ReadRebuildEvents(w)
       \/ Project(w)
    /\ Recorded

Next ==
    \/ Environment /\ Recorded
    \/ \E r \in Rebuilders : Rebuild(r) /\ Recorded
    \/ \E w \in Workers : Step(w) \/ (CallFails(w) /\ Recorded)

Spec == Init /\ [][Next]_vars

\* Consumers poll, and what was begun goes on.
FairSpec == Spec /\ \A w \in Workers : WF_vars(Step(w))

-----------------------------------------------------------------------------
(* Properties *)

\* The clock readings of a stream agree with its versions.
ClockIncreases ==
    \A e, f \in T!Events :
        e.stream = f.stream /\ e.version < f.version => clock[e] < clock[f]

InitiatedFirst ==
    \A i \in DOMAIN log : \E j \in 1..i :
        log[j] = [stream |-> log[i].stream, version |-> 1]

\* A row is what the aggregate replays to at the version whose time the row bears, with
\* the transaction ids of every leg started by then - if clocks increase along the
\* stream, messages come in order (or again), and every rebuild ran to its end, alone and
\* not overtaken by a commit.
RowIsReplay ==
    (ClockIncreases /\ InOrder /\ ~disturbed /\ ~aborted) =>
        \A t \in Streams : summary[t].exists =>
            \E n \in 1..version[t] :
                /\ summary[t].updatedAt = clock[[stream |-> t, version |-> n]]
                /\ summary[t].state = Replay[t][n]
                /\ summary[t].legs =
                      UNION {LegOf([stream |-> t, version |-> k]) : k \in 1..n}

\* What a consumer has handled shows, as itself or as an event of a later time, except
\* while a rebuild is about to bring it back - in whatever order messages come, whatever
\* the clocks say and whoever is at work beside a rebuild, unless a rebuild is aborted.
HandledShows ==
    ~aborted =>
        \A c \in Consumers : \A i \in 1..pos[c] :
            LET row == summary[log[i].stream] IN
            \/ row.exists /\ clock[log[i]] <= row.updatedAt
            \/ \E r \in Rebuilders : scope[r] \in {All, log[i].stream}

\* The reset that begins a rebuild of t.
Reset(t) ==
    \E r \in Rebuilders : scope[r] = NoScope /\ scope'[r] \in {All, t} /\ summary'[t] = NoRow

\* Only the reset of a rebuild takes a status away that clients and coordinators have
\* read; otherwise it gives way to one that the transfer had later, never earlier, in
\* whatever order the messages come and whoever else is at work - if clocks increase.
StatusNeverBack ==
    [][ClockIncreases => \A t \in Streams : summary[t].exists =>
         \/ Reset(t)
         \/ /\ summary'[t].exists
            /\ \/ summary'[t].state.status = summary[t].state.status
               \/ \A m, n \in 1..Length[t] :
                     /\ summary[t].state.status = StatusAfter([stream |-> t, version |-> m])
                     /\ summary'[t].state.status = StatusAfter([stream |-> t, version |-> n])
                     => m < n]_vars

\* The status that e gave the transfer is shown, or that of a later version.
ShowsStatus(e) ==
    \E n \in e.version..version[e.stream] :
        summary[e.stream].state.status = StatusAfter([stream |-> e.stream, version |-> n])

\* Once messages, failures and rebuilds have stopped coming, and if no rebuild was aborted,
\* the table shows all the topic holds and goes on doing so, in whatever order messages came
\* after TransferInitiated: nothing blocks the partition.  If clocks increase along a
\* stream that is the status of every event or of a later version; if not, all that is
\* certain is a row that bears the event's time or a later one - the comparison of times
\* may have dropped its status for good.
CatchesUp ==
    [](InitiatedFirst /\ ~aborted) =>
        <>[](\A e \in T!Contents(log) :
                /\ summary[e.stream].exists
                /\ summary[e.stream].updatedAt >= clock[e]
                /\ ClockIncreases => ShowsStatus(e))
=============================================================================
