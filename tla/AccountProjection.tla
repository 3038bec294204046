-------------------------- MODULE AccountProjection --------------------------
(***************************************************************************)
(* The account projector (account-projector.service.ts) and its two tables *)
(* (postgres-account-read-model.repository.ts): account_summary, one row   *)
(* per account, and account_statement, one row per event.  For each event  *)
(* the projector reads the summary, decides, writes the summary and then   *)
(* writes the entry, in separate queries and without a lock, while other   *)
(* workers do the same.                                                    *)
(*                                                                         *)
(* created says whether the account has a summary row.  Of an entry only   *)
(* its existence is kept; the transfer details it is labelled with, owner  *)
(* and timestamps are left out.                                            *)
(***************************************************************************)
EXTENDS AccountAggregate, ProjectionFeed

CONSTANTS
    History,    \* the events each account stream gets
    Replay      \* the aggregate's state after each of them

ASSUME HistoryAssumption ==
    \A a \in Streams :
        /\ History[a] \in [1..Length[a] -> Event({"command"})]
        /\ \A n \in 1..Length[a] : History[a][n].streamVersion = n
        /\ Replay[a] \in [0..Length[a] -> AccountState]
        /\ Replay[a][0] = NewAccount
        /\ \A n \in 1..Length[a] : Replay[a][n] = When(Replay[a][n - 1], History[a][n])

VARIABLES
    summary,    \* account_summary, per account
    statement,  \* account_statement: the versions that have an entry
    seen,       \* the summary a worker has read and is about to update
    torn        \* auxiliary: versions whose entry nobody will write

tables == <<summary, statement, torn>>
vars   == <<feed, tables, seen>>

TypeOK ==
    /\ FeedTypeOK
    /\ summary \in [Streams -> AccountState]
    /\ statement \in [Streams -> SUBSET Nat]
    /\ torn \in [Streams -> SUBSET Nat]
    /\ seen \in [Workers -> AccountState]

-----------------------------------------------------------------------------
(* The projector *)

EventOf(e) == History[e.stream][e.version]

\* Mutant: an event that is projected already counts as out of sequence.
ProjectedLongAgo(row, e) == row.created /\ row.version > e.version

\* existing && existing.version >= event.streamVersion
AlreadyProjected(row, e) == row.created /\ row.version >= e.version

\* Mutant: gaps are accepted.
ProjectableWithGap(row, e) ==
    IF EventOf(e).eventType = "AccountCreated" THEN ~row.created ELSE row.created

\* Neither 'Projection missing account summary' nor a ProjectionGapError.
Projectable(row, e) ==
    IF EventOf(e).eventType = "AccountCreated"
    THEN ~row.created /\ e.version = 1
    ELSE row.created /\ e.version = row.version + 1

\* The row to upsert.
Projected(row, e) ==
    LET event == EventOf(e) IN
    CASE event.eventType = "AccountCreated" ->
           [created |-> TRUE, currency |-> event.currency, status |-> "ACTIVE",
            balance |-> 0, version |-> e.version]
      [] event.eventType = "MoneyDeposited" ->
           [row EXCEPT !.balance = @ + ParseMoneyToMinorUnits(event.amount),
                       !.version = e.version]
      [] event.eventType = "MoneyWithdrawn" ->
           [row EXCEPT !.balance = @ - ParseMoneyToMinorUnits(event.amount),
                       !.version = e.version]
      [] event.eventType = "AccountFrozen" ->
           [row EXCEPT !.status = "FROZEN", !.version = e.version]

\* Mutant: the upsert is unconditional.
OverwritesAnyRow(row, new) == TRUE

\* INSERT ... ON CONFLICT DO UPDATE ... WHERE account_summary.version < EXCLUDED.version
UpsertApplies(row, new) == ~row.created \/ row.version < new.version

-----------------------------------------------------------------------------
(* Actions *)

Init ==
    /\ FeedInit
    /\ summary = [a \in Streams |-> NewAccount]
    /\ statement = [a \in Streams |-> {}]
    /\ torn = [a \in Streams |-> {}]
    /\ seen = [w \in Workers |-> NewAccount]

\* getAccountSummary, and what project() decides from it.
ReadSummary(w) ==
    LET row == summary[msg[w].stream] IN
    /\ pc[w] = "read"
    /\ \/ /\ AlreadyProjected(row, msg[w])
          /\ Advance(w)
          /\ UNCHANGED seen
       \/ /\ ~AlreadyProjected(row, msg[w])
          /\ Projectable(row, msg[w])
          /\ seen' = [seen EXCEPT ![w] = row]
          /\ Goto(w, "upsert")
       \/ /\ ~AlreadyProjected(row, msg[w])
          /\ ~Projectable(row, msg[w])
          /\ Throw(w)
          /\ UNCHANGED <<seen, disruptions>>
    /\ UNCHANGED tables

\* upsertAccountSummary.  A row that skips versions (the table was reset after the
\* summary was read) leaves their entries to nobody.
WriteSummary(w) ==
    LET a == msg[w].stream
        new == Projected(seen[w], msg[w])
    IN /\ summary' = [summary EXCEPT ![a] = IF UpsertApplies(@, new) THEN new ELSE @]
       /\ torn' = [torn EXCEPT ![a] = @ \cup summary[a].version + 1..msg[w].version - 1]
       /\ UNCHANGED statement

\* Mutant: project() returns after the summary.
UpsertsOnly(w) ==
    /\ pc[w] = "upsert"
    /\ WriteSummary(w)
    /\ Advance(w)
    /\ seen' = [seen EXCEPT ![w] = NewAccount]

Upsert(w) ==
    /\ pc[w] = "upsert"
    /\ WriteSummary(w)
    /\ Goto(w, "append")
    /\ seen' = [seen EXCEPT ![w] = NewAccount]

\* appendAccountStatement: ON CONFLICT (event_id) DO NOTHING.
AppendStatement(w) ==
    /\ pc[w] = "append"
    /\ statement' = [statement EXCEPT ![msg[w].stream] = @ \cup {msg[w].version}]
    /\ Advance(w)
    /\ UNCHANGED <<summary, torn, seen>>

\* A query fails or the process dies; before the summary is written nothing is lost.
CallFails(w) ==
    /\ pc[w] \in {"events", "read", "upsert"}
    /\ Disruption
    /\ Throw(w)
    /\ seen' = [seen EXCEPT ![w] = NewAccount]
    /\ UNCHANGED tables

\* After it is written the redelivered event is skipped: unless the failing call took
\* effect all the same, the entry is never written.
AppendFails(w) ==
    /\ pc[w] = "append"
    /\ Disruption
    /\ Throw(w)
    /\ \/ /\ statement' = [statement EXCEPT ![msg[w].stream] = @ \cup {msg[w].version}]
          /\ UNCHANGED torn
       \/ /\ torn' = [torn EXCEPT ![msg[w].stream] = @ \cup {msg[w].version}]
          /\ UNCHANGED statement
    /\ UNCHANGED <<summary, seen>>

\* resetAccount, resetAll: both tables in one transaction.
Reset(accounts) ==
    /\ summary' = [a \in Streams |-> IF a \in accounts THEN NewAccount ELSE summary[a]]
    /\ statement' = [a \in Streams |-> IF a \in accounts THEN {} ELSE statement[a]]
    /\ torn' = [a \in Streams |-> IF a \in accounts THEN {} ELSE torn[a]]

Rebuild(r) ==
    /\ \/ \E a \in Streams : StartRebuild(r, a) /\ Reset({a})
       \/ StartRebuild(r, All) /\ Reset(Streams)
    /\ UNCHANGED seen

Project(w) == ReadSummary(w) \/ Upsert(w) \/ AppendStatement(w)

Environment ==
    /\ \/ \E a \in Streams : CommitEvent(a)
       \/ \E e \in T!Events : SendEvent(e)
       \/ Rebalance
       \/ EmptyFetch
    /\ UNCHANGED <<tables, seen>>

Deliver(c) == Fetch(c) /\ UNCHANGED <<tables, seen>>

ReadRebuildEvents(r) == ReadEvents(r) /\ UNCHANGED <<tables, seen>>

Next ==
    \/ Environment
    \/ \E c \in Consumers : Deliver(c)
    \/ \E r \in Rebuilders : Rebuild(r) \/ ReadRebuildEvents(r)
    \/ \E w \in Workers : Project(w) \/ CallFails(w) \/ AppendFails(w)

Spec == Init /\ [][Next]_vars

\* Consumers poll, and what was begun goes on.
FairSpec ==
    /\ Spec
    /\ \A c \in Consumers : WF_vars(Deliver(c) \/ Project(c))
    /\ \A r \in Rebuilders : WF_vars(ReadRebuildEvents(r) \/ Project(r))

-----------------------------------------------------------------------------
(* Properties *)

\* A balance that is shown is one the account had: whatever is redelivered, reordered,
\* rebuilt or handled twice at once, a summary row is what the aggregate replays to at
\* the row's version, so projector and aggregate never disagree.
SummaryIsReplay ==
    \A a \in Streams : summary[a].created =>
        /\ summary[a].version \in 1..version[a]
        /\ summary[a] = Replay[a][summary[a].version]

\* Readers never see a balance go back to an older version: only a reset takes a row away.
VersionNeverBack ==
    [][\A a \in Streams :
         summary'[a].created => summary'[a].version >= summary[a].version]_vars

\* Every version a summary counts has its statement entry, or a worker about to write
\* it; an entry is missing only if a call failed after the summary was written, or the
\* tables were reset while a worker held an old summary.
EntryMissingOnlyIfTorn ==
    \A a \in Streams : summary[a].created =>
        \A v \in 1..summary[a].version :
            \/ v \in statement[a] \cup torn[a]
            \/ \E w \in Workers : pc[w] = "append" /\ msg[w] = [stream |-> a, version |-> v]

\* A rebuild of one account never meets a gap or a missing summary, although consumers
\* project the same account all the while - if no other rebuild resets it meanwhile, so
\* with one rebuilder, and if the account was created first.
RebuildMeetsNoGap ==
    \A r \in Rebuilders :
        pc[r] = "read" /\ scope[r] \in Streams =>
            \/ AlreadyProjected(summary[msg[r].stream], msg[r])
            \/ Projectable(summary[msg[r].stream], msg[r])

\* As long as the messages of every stream arrive in order (or again) and no rebuild is
\* aborted, redelivery, rebalances, failed queries and rebuilds do not stop the partition:
\* once they have stopped coming, the summaries show every event in the topic and go on
\* doing so.
CatchesUp ==
    [](InOrder /\ ~aborted) =>
        <>[](\A e \in T!Contents(log) :
                summary[e.stream].created /\ summary[e.stream].version >= e.version)
=============================================================================
