----------------------- MODULE AccountProjectionProofs -----------------------
(***************************************************************************)
(* TLAPS proofs about AccountProjection, for any number of accounts,       *)
(* events, consumers and rebuilders: what the read model shows is what the *)
(* aggregate replays to, it never goes back, and an entry is missing from  *)
(* a statement only for one of the two reasons the model records.  Then    *)
(* the rebuild of one account, and last ProjectionCoordination: rebuilds   *)
(* of one process never overlap, and a first one runs alone.               *)
(***************************************************************************)
EXTENDS AccountProjection, ProjectionCoordination, AccountAggregateProofs, ProjectionFeedProofs,
        FiniteSetTheorems

-----------------------------------------------------------------------------
(* The inductive invariant *)

\* row is no row, or account a as it was at the version the row carries, at most n.
RowOK(a, row, n) ==
    /\ row \in AccountState
    /\ ~row.created => row = NewAccount
    /\ row.created => row.version \in 1..n /\ row = Replay[a][row.version]

TablesOK ==
    /\ summary \in [Streams -> AccountState]
    /\ \A a \in Streams : RowOK(a, summary[a], version[a])
    /\ statement \in [Streams -> SUBSET Nat]
    /\ torn \in [Streams -> SUBSET Nat]

\* A worker about to write has read a row its event continues.
SeenOK ==
    /\ seen \in [Workers -> AccountState]
    /\ \A w \in Workers : pc[w] = "upsert" =>
           RowOK(msg[w].stream, seen[w], version[msg[w].stream]) /\ Projectable(seen[w], msg[w])

IInv == FeedInv /\ TablesOK /\ SeenOK /\ EntryMissingOnlyIfTorn

-----------------------------------------------------------------------------
(* Rows *)

LEMMA CommittedForm ==
    ASSUME FeedInv, NEW e \in CommittedEvents
    PROVE  /\ e.stream \in Streams /\ e.version \in 1..Length[e.stream]
           /\ e.version \in 1..version[e.stream] /\ version[e.stream] \in Nat
           /\ e.version \in Nat /\ Length[e.stream] \in Nat
           /\ e = [stream |-> e.stream, version |-> e.version]
<1>1. e \in T!Events /\ T!Committed(e)
  BY DEF CommittedEvents
<1>2. QED
  BY <1>1, EventForm DEF FeedInv, VersionOK, T!Committed

LEMMA EventOfType ==
    ASSUME FeedInv, NEW e \in CommittedEvents
    PROVE  /\ EventOf(e) \in Event({"command"})
           /\ EventOf(e).streamVersion = e.version
           /\ Replay[e.stream][e.version] \in AccountState
           /\ Replay[e.stream][e.version] = When(Replay[e.stream][e.version - 1], EventOf(e))
           /\ Replay[e.stream][0] = NewAccount
<1>1. e.stream \in Streams /\ e.version \in 1..Length[e.stream] /\ Length[e.stream] \in Nat
  BY CommittedForm
<1>2. e.version \in 0..Length[e.stream]
  BY <1>1
<1>3. PICK s \in Streams, n \in 1..Length[e.stream] : s = e.stream /\ n = e.version
  BY <1>1
<1>4. /\ History[s] \in [1..Length[s] -> Event({"command"})]
      /\ History[s][n].streamVersion = n
      /\ Replay[s] \in [0..Length[s] -> AccountState]
      /\ Replay[s][0] = NewAccount
      /\ Replay[s][n] = When(Replay[s][n - 1], History[s][n])
  BY <1>3, HistoryAssumption
<1>5. QED
  BY <1>2, <1>3, <1>4 DEF EventOf

\* The projector computes the row the aggregate would have: four event handlers written
\* twice, in account-projector.service.ts and in account.aggregate.ts, agree.
LEMMA ProjectedIsReplay ==
    ASSUME FeedInv, NEW e \in CommittedEvents, NEW row, NEW n \in Nat,
           RowOK(e.stream, row, n), Projectable(row, e)
    PROVE  LET new == Projected(row, e) IN
           /\ new = Replay[e.stream][e.version]
           /\ new \in AccountState /\ new.created /\ new.version = e.version
<1> DEFINE event == EventOf(e)
<1>1. /\ e.stream \in Streams /\ e.version \in 1..Length[e.stream] /\ e.version \in Nat
  BY CommittedForm
<1>2. /\ event \in Event({"command"}) /\ event.streamVersion = e.version
      /\ Replay[e.stream][e.version] \in AccountState
      /\ Replay[e.stream][e.version] = When(Replay[e.stream][e.version - 1], event)
      /\ Replay[e.stream][0] = NewAccount
  BY EventOfType
<1>3. row \in AccountState
  BY DEF RowOK
<1>4. CASE event.eventType = "AccountCreated"
  <2>1. e.version = 1 /\ e.version - 1 = 0
    BY <1>4 DEF Projectable
  <2>2. Replay[e.stream][e.version] = When(NewAccount, event)
    BY <1>2, <2>1
  <2>3. When(NewAccount, event) =
          [created |-> TRUE, currency |-> event.currency, status |-> "ACTIVE",
           balance |-> 0, version |-> e.version]
    BY <1>2, <1>4 DEF When, NewAccount
  <2>4. Projected(row, e) =
          [created |-> TRUE, currency |-> event.currency, status |-> "ACTIVE",
           balance |-> 0, version |-> e.version]
    BY <1>4 DEF Projected
  <2>5. QED
    BY <1>2, <2>2, <2>3, <2>4
<1>5. CASE event.eventType # "AccountCreated"
  <2>1. row.created /\ e.version = row.version + 1
    BY <1>5 DEF Projectable
  <2>2. row.version \in Nat /\ e.version - 1 = row.version /\ row = Replay[e.stream][row.version]
    BY <1>3, <2>1 DEF RowOK, AccountState
  <2>3. Replay[e.stream][e.version] = When(row, event)
    BY <1>2, <2>2
  <2>4. event.eventType \in {"MoneyDeposited", "MoneyWithdrawn", "AccountFrozen"}
    BY <1>2, <1>5 DEF Event, EventTypes
  <2> HIDE DEF event
  <2>5. Projected(row, e) = When(row, event)
    <3>1. CASE event.eventType = "MoneyDeposited"
      BY <1>2, <1>3, <3>1 DEF Projected, When, AccountState, event
    <3>2. CASE event.eventType = "MoneyWithdrawn"
      BY <1>2, <1>3, <3>2 DEF Projected, When, AccountState, event
    <3>3. CASE event.eventType = "AccountFrozen"
      BY <1>2, <1>3, <3>3 DEF Projected, When, AccountState, event
    <3>4. QED
      BY <2>4, <3>1, <3>2, <3>3
  <2>6. When(row, event).created /\ When(row, event).version = e.version
    <3>1. CASE event.eventType = "MoneyDeposited"
      BY <1>2, <1>3, <2>1, <3>1 DEF When, AccountState
    <3>2. CASE event.eventType = "MoneyWithdrawn"
      BY <1>2, <1>3, <2>1, <3>2 DEF When, AccountState
    <3>3. CASE event.eventType = "AccountFrozen"
      BY <1>2, <1>3, <2>1, <3>3 DEF When, AccountState
    <3>4. QED
      BY <2>4, <3>1, <3>2, <3>3
  <2>7. QED
    BY <1>2, <2>3, <2>5, <2>6
<1>6. QED
  BY <1>4, <1>5

LEMMA RowKept ==
    ASSUME NEW a, NEW row, NEW m \in Nat, NEW n \in Nat, m <= n, RowOK(a, row, m)
    PROVE  RowOK(a, row, n)
BY DEF RowOK

-----------------------------------------------------------------------------
(* What a step of the feed does to the workers *)

\* Streams only grow.
Monotone ==
    \A a \in Streams : version[a] \in Nat /\ version'[a] \in Nat /\ version[a] <= version'[a]

Kept(w) == pc'[w] = pc[w] /\ msg'[w] = msg[w]

\* Nobody starts or stops writing.
Frame ==
    \A w \in Workers :
        {pc[w], pc'[w]} \cap {"upsert", "append"} # {} => Kept(w)

\* Worker w moves to one of the labels, everybody else stays.
Moves(w, labels) ==
    /\ pc'[w] \in labels
    /\ \A u \in Workers \ {w} : Kept(u)

NotWriting == {"idle", "events", "read"}

LEMMA MonotoneSteps ==
    ASSUME FeedInv, \/ UNCHANGED version
                    \/ \E s \in Streams : T!Commit(s)
    PROVE  Monotone
<1>1. version \in [Streams -> Nat]
  BY DEF FeedInv, VersionOK
<1>2. CASE UNCHANGED version
  BY <1>1, <1>2 DEF Monotone
<1>3. ASSUME NEW s \in Streams, T!Commit(s) PROVE Monotone
  BY <1>1, <1>3 DEF Monotone, T!Commit
<1>4. QED
  BY <1>2, <1>3

LEMMA MovesFrame ==
    ASSUME NEW w \in Workers, Moves(w, NotWriting), pc[w] \in NotWriting
    PROVE  Frame
BY DEF Moves, Frame, NotWriting

LEMMA AdvanceMoves ==
    ASSUME FeedInv, NEW w \in Workers, Advance(w)
    PROVE  Moves(w, NotWriting) /\ UNCHANGED version
<1>1. pc \in [Workers -> PCs] /\ msg \in [Workers -> CommittedEvents \cup {NoEvent}]
  BY DEF FeedInv, WorkOK
<1>2. CASE w \in Consumers
  BY <1>1, <1>2 DEF Advance, Moves, Kept, NotWriting, topic
<1>3. CASE w \notin Consumers
  BY <1>1, <1>3 DEF Advance, Moves, Kept, NotWriting, topic
<1>4. QED
  BY <1>2, <1>3

LEMMA ThrowMoves ==
    ASSUME FeedInv, NEW w \in Workers, Throw(w)
    PROVE  Moves(w, NotWriting) /\ UNCHANGED version
BY DEF Throw, Moves, Kept, NotWriting, topic, FeedInv, WorkOK

LEMMA GotoMoves ==
    ASSUME FeedInv, NEW w \in Workers, NEW label, Goto(w, label)
    PROVE  Moves(w, {label}) /\ msg' = msg /\ UNCHANGED version
BY DEF Goto, Moves, Kept, topic, FeedInv, WorkOK

LEMMA RebuilderMoves ==
    ASSUME FeedInv, NEW r \in Rebuilders,
           ReadEvents(r) \/ \E sc \in Streams \cup {All} : StartRebuild(r, sc)
    PROVE  r \in Workers /\ pc[r] \in NotWriting /\ Moves(r, NotWriting) /\ UNCHANGED version
<1>1. r \in Workers /\ pc \in [Workers -> PCs] /\ msg \in [Workers -> CommittedEvents \cup {NoEvent}]
  BY DEF FeedInv, WorkOK, Workers
<1>2. CASE ReadEvents(r)
  BY <1>1, <1>2 DEF ReadEvents, Moves, Kept, NotWriting, topic
<1>3. CASE \E sc \in Streams \cup {All} : StartRebuild(r, sc)
  BY <1>1, <1>3 DEF StartRebuild, Moves, Kept, NotWriting, topic
<1>4. QED
  BY <1>2, <1>3

LEMMA FetchMoves ==
    ASSUME FeedInv, NEW c \in Consumers, Fetch(c)
    PROVE  c \in Workers /\ pc[c] \in NotWriting /\ Moves(c, NotWriting) /\ UNCHANGED version
BY DEF Fetch, Moves, Kept, NotWriting, topic, FeedInv, WorkOK, Workers

-----------------------------------------------------------------------------
(* The parts of the invariant, step by step *)

\* The statement is complete after a step that keeps the writing workers and every entry.
LEMMA EntriesKept ==
    ASSUME EntryMissingOnlyIfTorn, UNCHANGED summary,
           \A a \in Streams : statement[a] \cup torn[a] \subseteq statement'[a] \cup torn'[a],
           \A w \in Workers : pc[w] = "append" =>
               \/ Kept(w)
               \/ msg[w].version \in statement'[msg[w].stream] \cup torn'[msg[w].stream]
    PROVE  EntryMissingOnlyIfTorn'
<1> SUFFICES ASSUME NEW a \in Streams, summary[a].created, NEW v \in 1..summary[a].version
             PROVE  \/ v \in statement'[a] \cup torn'[a]
                    \/ \E w \in Workers :
                          pc'[w] = "append" /\ msg'[w] = [stream |-> a, version |-> v]
  BY DEF EntryMissingOnlyIfTorn
<1>1. CASE v \in statement[a] \cup torn[a]
  BY <1>1
<1>2. ASSUME NEW w \in Workers, pc[w] = "append", msg[w] = [stream |-> a, version |-> v]
      PROVE  \/ v \in statement'[a] \cup torn'[a]
             \/ pc'[w] = "append" /\ msg'[w] = [stream |-> a, version |-> v]
  BY <1>2 DEF Kept
<1>3. QED
  BY <1>1, <1>2 DEF EntryMissingOnlyIfTorn

\* A row of a table stays good when streams grow.
LEMMA TablesKept ==
    ASSUME TablesOK, Monotone, UNCHANGED summary,
           statement' \in [Streams -> SUBSET Nat], torn' \in [Streams -> SUBSET Nat]
    PROVE  TablesOK'
<1>1. ASSUME NEW a \in Streams PROVE RowOK(a, summary[a], version'[a])
  BY RowKept DEF TablesOK, Monotone
<1>2. QED
  BY <1>1 DEF TablesOK, RowOK

LEMMA SeenKept ==
    ASSUME FeedInv, FeedInv', SeenOK, Monotone, seen' \in [Workers -> AccountState],
           \A w \in Workers : pc'[w] = "upsert" => Kept(w) /\ seen'[w] = seen[w]
    PROVE  SeenOK'
<1>1. ASSUME NEW w \in Workers, pc'[w] = "upsert"
      PROVE  RowOK(msg'[w].stream, seen'[w], version'[msg'[w].stream]) /\ Projectable(seen'[w], msg'[w])
  <2>1. pc[w] = "upsert" /\ msg'[w] = msg[w] /\ seen'[w] = seen[w]
    BY <1>1 DEF Kept
  <2>2. msg[w] \in CommittedEvents
    BY <2>1 DEF FeedInv, WorkOK
  <2>3. msg[w].stream \in Streams
    BY <2>2, CommittedForm
  <2>4. RowOK(msg[w].stream, seen[w], version'[msg[w].stream])
    BY <2>1, <2>3, RowKept DEF SeenOK, Monotone
  <2>5. QED
    BY <2>1, <2>4 DEF SeenOK
<1>2. QED
  BY <1>1 DEF SeenOK, RowOK, Projectable, EventOf

\* Steps that neither touch the tables nor start or end a write.
LEMMA FrameKeeps ==
    ASSUME IInv, FeedInv', Monotone, Frame, UNCHANGED <<summary, statement, torn, seen>>
    PROVE  IInv'
<1>1. TablesOK'
  BY TablesKept DEF IInv, TablesOK
<1>2. \A w \in Workers : pc'[w] = "upsert" => Kept(w) /\ seen'[w] = seen[w]
  BY DEF Frame
<1>3. SeenOK'
  BY <1>2, SeenKept DEF IInv, SeenOK
<1>4. \A w \in Workers : pc[w] = "append" => Kept(w)
  BY DEF Frame
<1>5. EntryMissingOnlyIfTorn'
  BY <1>4, EntriesKept DEF IInv
<1>6. QED
  BY <1>1, <1>3, <1>5 DEF IInv

LEMMA InitInv == Init => IInv
<1> SUFFICES ASSUME Init PROVE IInv
  OBVIOUS
<1>1. FeedInv
  BY FeedInitInv DEF Init
<1>2. TablesOK
  BY NewAccountType DEF Init, TablesOK, RowOK, NewAccount
<1>3. \A w \in Workers : pc[w] = "idle"
  BY DEF Init, FeedInit
<1>4. SeenOK
  BY <1>3, NewAccountType DEF Init, SeenOK
<1>5. EntryMissingOnlyIfTorn
  BY DEF Init, EntryMissingOnlyIfTorn, NewAccount
<1>6. QED
  BY <1>1, <1>2, <1>4, <1>5 DEF IInv

LEMMA EnvironmentInv == IInv /\ Environment => IInv'
<1> SUFFICES ASSUME IInv, Environment PROVE IInv'
  OBVIOUS
<1>1. FeedInv /\ UNCHANGED <<summary, statement, torn, seen>>
  BY DEF IInv, Environment, tables
<1>2. CASE \E a \in Streams : CommitEvent(a)
  <2>1. PICK a \in Streams : CommitEvent(a)
    BY <1>2
  <2>2. FeedInv' /\ Monotone
    BY <1>1, <2>1, CommitEventInv, MonotoneSteps DEF CommitEvent
  <2>3. Frame
    BY <2>1 DEF Frame, Kept, CommitEvent, work
  <2>4. QED
    BY <1>1, <2>2, <2>3, FrameKeeps
<1>3. CASE \E e \in T!Events : SendEvent(e)
  <2>1. PICK e \in T!Events : SendEvent(e)
    BY <1>3
  <2>2. FeedInv' /\ Monotone
    BY <1>1, <2>1, SendEventInv, MonotoneSteps DEF SendEvent, T!Send
  <2>3. Frame
    BY <2>1 DEF Frame, Kept, SendEvent, work
  <2>4. QED
    BY <1>1, <2>2, <2>3, FrameKeeps
<1>4. CASE Rebalance
  <2>1. FeedInv' /\ Monotone
    BY <1>1, <1>4, RebalanceInv, MonotoneSteps DEF Rebalance, topic
  <2>2. Frame
    BY <1>4 DEF Frame, Kept, Rebalance, work
  <2>3. QED
    BY <1>1, <2>1, <2>2, FrameKeeps
<1>5. CASE EmptyFetch
  <2>1. FeedInv' /\ Monotone
    BY <1>1, <1>5, FeedStutters, MonotoneSteps DEF EmptyFetch, feed, topic
  <2>2. Frame
    BY <1>5 DEF Frame, Kept, EmptyFetch, feed, work
  <2>3. QED
    BY <1>1, <2>1, <2>2, FrameKeeps
<1>6. QED
  BY <1>2, <1>3, <1>4, <1>5 DEF Environment

LEMMA DeliverInv ==
    ASSUME IInv, NEW c \in Consumers, Deliver(c)
    PROVE  IInv'
<1>1. FeedInv /\ Fetch(c) /\ UNCHANGED <<summary, statement, torn, seen>>
  BY DEF IInv, Deliver, tables
<1>2. FeedInv' /\ Monotone /\ Frame
  BY <1>1, FetchInv, FetchMoves, MonotoneSteps, MovesFrame
<1>3. QED
  BY <1>1, <1>2, FrameKeeps

LEMMA ReadRebuildEventsInv ==
    ASSUME IInv, NEW r \in Rebuilders, ReadRebuildEvents(r)
    PROVE  IInv'
<1>1. FeedInv /\ ReadEvents(r) /\ UNCHANGED <<summary, statement, torn, seen>>
  BY DEF IInv, ReadRebuildEvents, tables
<1>2. FeedInv' /\ Monotone /\ Frame
  BY <1>1, ReadEventsInv, RebuilderMoves, MonotoneSteps, MovesFrame
<1>3. QED
  BY <1>1, <1>2, FrameKeeps

\* A reset takes rows away; whoever is about to write a row goes on with what it has read.
LEMMA RebuildInv ==
    ASSUME IInv, NEW r \in Rebuilders, Rebuild(r)
    PROVE  IInv'
<1>1. PICK sc \in Streams \cup {All}, accounts \in SUBSET Streams :
          StartRebuild(r, sc) /\ Reset(accounts)
  BY DEF Rebuild
<1>2. FeedInv /\ UNCHANGED seen
  BY DEF IInv, Rebuild
<1>3. FeedInv' /\ Monotone /\ Frame
  <2>1. FeedInv'
    BY <1>1, <1>2, StartRebuildInv
  <2>2. r \in Workers /\ pc[r] \in NotWriting /\ Moves(r, NotWriting) /\ UNCHANGED version
    BY <1>1, <1>2, RebuilderMoves
  <2>3. QED
    BY <1>2, <2>1, <2>2, MonotoneSteps, MovesFrame
<1>4. /\ summary' = [a \in Streams |-> IF a \in accounts THEN NewAccount ELSE summary[a]]
      /\ statement' = [a \in Streams |-> IF a \in accounts THEN {} ELSE statement[a]]
      /\ torn' = [a \in Streams |-> IF a \in accounts THEN {} ELSE torn[a]]
  BY <1>1 DEF Reset
<1>5. TablesOK'
  <2>1. ASSUME NEW a \in Streams PROVE RowOK(a, summary'[a], version'[a])
    <3>1. RowOK(a, summary[a], version'[a])
      BY <1>3, RowKept DEF IInv, TablesOK, Monotone
    <3>2. RowOK(a, NewAccount, version'[a])
      BY NewAccountType DEF RowOK, NewAccount
    <3>3. QED
      BY <1>4, <3>1, <3>2
  <2>2. summary' \in [Streams -> AccountState]
    BY <1>4, NewAccountType DEF IInv, TablesOK
  <2>3. statement' \in [Streams -> SUBSET Nat] /\ torn' \in [Streams -> SUBSET Nat]
    BY <1>4 DEF IInv, TablesOK
  <2>4. QED
    BY <2>1, <2>2, <2>3 DEF TablesOK, RowOK
<1>6. SeenOK'
  <2>1. \A w \in Workers : pc'[w] = "upsert" => Kept(w) /\ seen'[w] = seen[w]
    BY <1>2, <1>3 DEF Frame
  <2>2. QED
    BY <1>2, <1>3, <2>1, SeenKept DEF IInv, SeenOK
<1>7. EntryMissingOnlyIfTorn'
  <2> SUFFICES ASSUME NEW a \in Streams, summary'[a].created, NEW v \in 1..summary'[a].version
               PROVE  \/ v \in statement'[a] \cup torn'[a]
                      \/ \E w \in Workers :
                            pc'[w] = "append" /\ msg'[w] = [stream |-> a, version |-> v]
    BY DEF EntryMissingOnlyIfTorn
  <2>1. /\ summary'[a] = summary[a] /\ statement'[a] = statement[a] /\ torn'[a] = torn[a]
    BY <1>4 DEF NewAccount
  <2>2. \A w \in Workers : pc[w] = "append" => Kept(w)
    BY <1>3 DEF Frame
  <2>3. QED
    BY <2>1, <2>2 DEF IInv, EntryMissingOnlyIfTorn, Kept
<1>8. QED
  BY <1>3, <1>5, <1>6, <1>7 DEF IInv

LEMMA ReadSummaryInv ==
    ASSUME IInv, NEW w \in Workers, ReadSummary(w)
    PROVE  IInv'
<1> DEFINE row == summary[msg[w].stream]
<1>1. FeedInv /\ pc[w] = "read" /\ UNCHANGED <<summary, statement, torn>>
  BY DEF IInv, ReadSummary, tables
<1>2. CASE Advance(w) /\ UNCHANGED seen
  <2>1. FeedInv' /\ Monotone /\ Frame
    BY <1>1, <1>2, AdvanceInv, AdvanceMoves, MonotoneSteps, MovesFrame DEF NotWriting
  <2>2. QED
    BY <1>1, <1>2, <2>1, FrameKeeps
<1>3. CASE Throw(w) /\ UNCHANGED <<seen, disruptions>>
  <2>1. FeedInv' /\ Monotone /\ Frame
    BY <1>1, <1>3, ThrowInv, ThrowMoves, MonotoneSteps, MovesFrame DEF NotWriting
  <2>2. QED
    BY <1>1, <1>3, <2>1, FrameKeeps
<1>4. CASE Projectable(row, msg[w]) /\ seen' = [seen EXCEPT ![w] = row] /\ Goto(w, "upsert")
  <2>1. FeedInv' /\ Monotone /\ Moves(w, {"upsert"}) /\ msg' = msg /\ UNCHANGED version
    BY <1>1, <1>4, GotoInv, GotoMoves, MonotoneSteps
  <2>2. msg[w] \in CommittedEvents
    BY <1>1 DEF FeedInv, WorkOK
  <2>3. msg[w].stream \in Streams
    BY <1>1, <2>2, CommittedForm
  <2>4. RowOK(msg[w].stream, row, version[msg[w].stream]) /\ row \in AccountState
    BY <2>3 DEF IInv, TablesOK
  <2> HIDE DEF row
  <2>5. seen' \in [Workers -> AccountState] /\ seen'[w] = row
    BY <1>4, <2>4 DEF IInv, SeenOK
  <2>6. SeenOK'
    <3>1. ASSUME NEW u \in Workers, pc'[u] = "upsert"
          PROVE  /\ RowOK(msg'[u].stream, seen'[u], version'[msg'[u].stream])
                 /\ Projectable(seen'[u], msg'[u])
      <4>1. CASE u = w
        BY <1>4, <2>1, <2>4, <2>5, <4>1
      <4>2. CASE u # w
        <5>1. pc[u] = "upsert" /\ msg'[u] = msg[u] /\ seen'[u] = seen[u] /\ version' = version
          BY <1>4, <2>1, <3>1, <4>2 DEF Moves, Kept, IInv, SeenOK
        <5>2. QED
          BY <5>1 DEF IInv, SeenOK
      <4>3. QED
        BY <4>1, <4>2
    <3>2. QED
      BY <2>5, <3>1 DEF SeenOK, RowOK, Projectable, EventOf
  <2>7. TablesOK'
    BY <1>1, <2>1, TablesKept DEF IInv, TablesOK
  <2>8. \A u \in Workers : pc[u] = "append" => Kept(u)
    BY <1>1, <2>1 DEF Moves
  <2>9. EntryMissingOnlyIfTorn'
    BY <1>1, <2>8, EntriesKept DEF IInv
  <2>10. QED
    BY <2>1, <2>6, <2>7, <2>9 DEF IInv
<1>5. QED
  BY <1>2, <1>3, <1>4 DEF ReadSummary

LEMMA CallFailsInv ==
    ASSUME IInv, NEW w \in Workers, CallFails(w)
    PROVE  IInv'
<1>1. /\ FeedInv /\ pc[w] \in {"events", "read", "upsert"} /\ Disruption /\ Throw(w)
      /\ seen' = [seen EXCEPT ![w] = NewAccount] /\ UNCHANGED <<summary, statement, torn>>
  BY DEF IInv, CallFails, tables
<1>2. FeedInv' /\ Moves(w, NotWriting) /\ Monotone
  BY <1>1, ThrowInv, ThrowMoves, MonotoneSteps
<1>3. TablesOK'
  BY <1>1, <1>2, TablesKept DEF IInv, TablesOK
<1>4. seen' \in [Workers -> AccountState] /\ \A u \in Workers \ {w} : seen'[u] = seen[u]
  BY <1>1, NewAccountType DEF IInv, SeenOK
<1>5. \A u \in Workers : pc'[u] = "upsert" => Kept(u) /\ seen'[u] = seen[u]
  BY <1>2, <1>4 DEF Moves, NotWriting
<1>6. SeenOK'
  BY <1>1, <1>2, <1>4, <1>5, SeenKept DEF IInv
<1>7. \A u \in Workers : pc[u] = "append" => Kept(u)
  BY <1>1, <1>2 DEF Moves
<1>8. EntryMissingOnlyIfTorn'
  BY <1>1, <1>7, EntriesKept DEF IInv
<1>9. QED
  BY <1>2, <1>3, <1>6, <1>8 DEF IInv

\* The entry is written, or nobody will write it any more.
LEMMA AppendInv ==
    ASSUME IInv, NEW w \in Workers, pc[w] = "append",
           Advance(w) \/ (Disruption /\ Throw(w)), UNCHANGED <<summary, seen>>,
           \/ /\ statement' = [statement EXCEPT ![msg[w].stream] = @ \cup {msg[w].version}]
              /\ UNCHANGED torn
           \/ /\ torn' = [torn EXCEPT ![msg[w].stream] = @ \cup {msg[w].version}]
              /\ UNCHANGED statement
    PROVE  IInv'
<1>1. FeedInv
  BY DEF IInv
<1>2. FeedInv' /\ Moves(w, NotWriting) /\ Monotone
  BY <1>1, AdvanceInv, AdvanceMoves, ThrowInv, ThrowMoves, MonotoneSteps
<1>3. msg[w] \in CommittedEvents
  BY <1>1 DEF FeedInv, WorkOK
<1>4. msg[w].stream \in Streams /\ msg[w].version \in Nat
  BY <1>1, <1>3, CommittedForm
<1>5. statement \in [Streams -> SUBSET Nat] /\ torn \in [Streams -> SUBSET Nat]
  BY DEF IInv, TablesOK
<1>6. /\ statement' \in [Streams -> SUBSET Nat] /\ torn' \in [Streams -> SUBSET Nat]
      /\ \A a \in Streams : statement[a] \cup torn[a] \subseteq statement'[a] \cup torn'[a]
      /\ msg[w].version \in statement'[msg[w].stream] \cup torn'[msg[w].stream]
  BY <1>4, <1>5
<1>7. TablesOK'
  BY <1>2, <1>6, TablesKept DEF IInv
<1>8. \A u \in Workers : pc'[u] = "upsert" => Kept(u) /\ seen'[u] = seen[u]
  BY <1>2 DEF Moves, NotWriting
<1>9. SeenOK'
  BY <1>1, <1>2, <1>8, SeenKept DEF IInv, SeenOK
<1>10. \A u \in Workers : pc[u] = "append" =>
          \/ Kept(u)
          \/ msg[u].version \in statement'[msg[u].stream] \cup torn'[msg[u].stream]
  BY <1>2, <1>6 DEF Moves
<1>11. EntryMissingOnlyIfTorn'
  BY <1>6, <1>10, EntriesKept DEF IInv
<1>12. QED
  BY <1>2, <1>7, <1>9, <1>11 DEF IInv

\* The row that is written is the replay at the event's version, and it replaces no newer
\* one; the versions it skips are recorded.
LEMMA UpsertInv ==
    ASSUME IInv, NEW w \in Workers, Upsert(w)
    PROVE  IInv'
<1> DEFINE e == msg[w]
           a == e.stream
           new == Projected(seen[w], e)
           gap == summary[a].version + 1..e.version - 1
<1>1. /\ FeedInv /\ pc[w] = "upsert" /\ Goto(w, "append")
      /\ seen' = [seen EXCEPT ![w] = NewAccount]
      /\ summary' = [summary EXCEPT ![a] = IF UpsertApplies(summary[a], new) THEN new ELSE summary[a]]
      /\ torn' = [torn EXCEPT ![a] = torn[a] \cup gap]
      /\ statement' = statement
  BY DEF IInv, Upsert, WriteSummary
<1>2. FeedInv' /\ Moves(w, {"append"}) /\ msg' = msg /\ UNCHANGED version /\ Monotone
  BY <1>1, GotoInv, GotoMoves, MonotoneSteps
<1>3. e \in CommittedEvents
  BY <1>1 DEF FeedInv, WorkOK
<1>4. /\ a \in Streams /\ e.version \in 1..version[a] /\ version[a] \in Nat /\ e.version \in Nat
      /\ e = [stream |-> a, version |-> e.version]
  BY <1>1, <1>3, CommittedForm
<1>5. RowOK(a, seen[w], version[a]) /\ Projectable(seen[w], e)
  BY <1>1 DEF IInv, SeenOK
<1>6. new = Replay[a][e.version] /\ new \in AccountState /\ new.created /\ new.version = e.version
  BY <1>1, <1>3, <1>4, <1>5, ProjectedIsReplay
<1>7. RowOK(a, new, version[a])
  BY <1>4, <1>6 DEF RowOK
<1>8. /\ summary \in [Streams -> AccountState] /\ statement \in [Streams -> SUBSET Nat]
      /\ torn \in [Streams -> SUBSET Nat] /\ \A b \in Streams : RowOK(b, summary[b], version[b])
  BY DEF IInv, TablesOK
<1>9. summary[a].version \in Nat /\ (~summary[a].created => summary[a].version = 0)
  BY <1>4, <1>8 DEF RowOK, AccountState, NewAccount
<1>10. gap \subseteq Nat
  BY <1>4, <1>9
<1>11. UpsertApplies(summary[a], new) <=> ~summary[a].created \/ summary[a].version < e.version
  BY <1>6 DEF UpsertApplies
<1> HIDE DEF new, gap, a, e
<1>12. TablesOK'
  <2>1. ASSUME NEW b \in Streams PROVE RowOK(b, summary'[b], version'[b])
    <3>1. CASE b = a
      BY <1>1, <1>2, <1>4, <1>7, <1>8, <3>1
    <3>2. CASE b # a
      BY <1>1, <1>2, <1>4, <1>8, <3>2
    <3>3. QED
      BY <3>1, <3>2
  <2>2. summary' \in [Streams -> AccountState]
    BY <1>1, <1>6, <1>8
  <2>3. torn' \in [Streams -> SUBSET Nat] /\ statement' \in [Streams -> SUBSET Nat]
    BY <1>1, <1>8, <1>10
  <2>4. QED
    BY <2>1, <2>2, <2>3 DEF TablesOK, RowOK
<1>13. seen' \in [Workers -> AccountState] /\ \A u \in Workers \ {w} : seen'[u] = seen[u]
  BY <1>1, NewAccountType DEF IInv, SeenOK
<1>14. \A u \in Workers : pc'[u] = "upsert" => Kept(u) /\ seen'[u] = seen[u]
  BY <1>2, <1>13 DEF Moves
<1>15. SeenOK'
  BY <1>1, <1>2, <1>13, <1>14, SeenKept DEF IInv
<1>16. EntryMissingOnlyIfTorn'
  <2> SUFFICES ASSUME NEW b \in Streams, summary'[b].created, NEW v \in 1..summary'[b].version
               PROVE  \/ v \in statement'[b] \cup torn'[b]
                      \/ \E u \in Workers :
                            pc'[u] = "append" /\ msg'[u] = [stream |-> b, version |-> v]
    BY DEF EntryMissingOnlyIfTorn
  <2>1. \A u \in Workers : pc[u] = "append" => Kept(u)
    BY <1>1, <1>2 DEF Moves
  <2>2. torn[b] \subseteq torn'[b] /\ statement'[b] = statement[b]
    BY <1>1, <1>8
  <2>3. CASE summary'[b] = summary[b]
    BY <2>1, <2>2, <2>3 DEF IInv, EntryMissingOnlyIfTorn, Kept
  <2>4. CASE summary'[b] # summary[b]
    <3>1. b = a /\ summary'[b] = new /\ UpsertApplies(summary[a], new)
      BY <1>1, <1>8, <2>4
    <3>2. v \in 1..e.version
      BY <1>6, <3>1
    <3>3. torn'[a] = torn[a] \cup gap
      BY <1>1, <1>4, <1>8
    <3>4. CASE v \in gap
      BY <3>1, <3>3, <3>4
    <3>5. CASE v = e.version
      <4>1. pc'[w] = "append" /\ msg'[w] = [stream |-> b, version |-> v]
        BY <1>2, <1>4, <3>1, <3>5 DEF Moves, e
      <4>2. QED
        BY <4>1
    <3>6. CASE summary[a].created /\ v \in 1..summary[a].version
      BY <2>1, <2>2, <3>1, <3>6 DEF IInv, EntryMissingOnlyIfTorn, Kept
    <3>7. v \in gap \/ v = e.version \/ (summary[a].created /\ v \in 1..summary[a].version)
      BY <1>4, <1>9, <3>2 DEF gap
    <3>8. QED
      BY <3>4, <3>5, <3>6, <3>7
  <2>5. QED
    BY <2>3, <2>4
<1>17. QED
  BY <1>2, <1>12, <1>15, <1>16 DEF IInv

-----------------------------------------------------------------------------
(* The theorems *)

LEMMA NextInv == IInv /\ [Next]_vars => IInv'
<1> SUFFICES ASSUME IInv, [Next]_vars PROVE IInv'
  OBVIOUS
<1>1. CASE Environment
  BY <1>1, EnvironmentInv
<1>2. ASSUME NEW c \in Consumers, Deliver(c) PROVE IInv'
  BY <1>2, DeliverInv
<1>3. ASSUME NEW r \in Rebuilders, Rebuild(r) \/ ReadRebuildEvents(r) PROVE IInv'
  BY <1>3, RebuildInv, ReadRebuildEventsInv
<1>4. ASSUME NEW w \in Workers, Project(w) PROVE IInv'
  <2>1. CASE ReadSummary(w)
    BY <2>1, ReadSummaryInv
  <2>2. CASE Upsert(w)
    BY <2>2, UpsertInv
  <2>3. CASE AppendStatement(w)
    BY <2>3, AppendInv DEF AppendStatement
  <2>4. QED
    BY <1>4, <2>1, <2>2, <2>3 DEF Project
<1>5. ASSUME NEW w \in Workers, CallFails(w) PROVE IInv'
  BY <1>5, CallFailsInv
<1>6. ASSUME NEW w \in Workers, AppendFails(w) PROVE IInv'
  BY <1>6, AppendInv DEF AppendFails
<1>7. CASE UNCHANGED vars
  <2>1. UNCHANGED feed /\ UNCHANGED <<summary, statement, torn, seen>>
    BY <1>7 DEF vars, tables
  <2>2. FeedInv' /\ Monotone
    BY <2>1, FeedStutters, MonotoneSteps DEF IInv, feed, topic
  <2>3. Frame
    BY <2>1 DEF Frame, Kept, feed, work
  <2>4. QED
    BY <2>1, <2>2, <2>3, FrameKeeps
<1>8. QED
  BY <1>1, <1>2, <1>3, <1>4, <1>5, <1>6, <1>7 DEF Next

\* The inductive invariant.
THEOREM ProjectionInvariant == Spec => []IInv
<1>1. QED
  BY InitInv, NextInv, PTL DEF Spec

\* The feed and the two tables are well typed.
THEOREM ProjectionTypeCorrect == Spec => []TypeOK
<1>1. IInv => TypeOK
  BY FeedInvType DEF IInv, TablesOK, SeenOK, TypeOK
<1>2. QED
  BY <1>1, ProjectionInvariant, PTL

\* Whatever is redelivered, reordered, rebuilt or projected twice at once, every summary
\* row is the aggregate's state at the row's version.
THEOREM ShownBalanceIsReal == Spec => []SummaryIsReplay
<1>1. IInv => SummaryIsReplay
  BY DEF IInv, TablesOK, RowOK, SummaryIsReplay
<1>2. QED
  BY <1>1, ProjectionInvariant, PTL

\* Every version a summary counts has an entry, a worker about to write it, or is
\* recorded as torn.
THEOREM EntriesAccountedFor == Spec => []EntryMissingOnlyIfTorn
<1>1. IInv => EntryMissingOnlyIfTorn
  BY DEF IInv
<1>2. QED
  BY <1>1, ProjectionInvariant, PTL

\* Only a reset takes a row away; no step replaces it by an older one.
LEMMA NoStepGoesBack ==
    ASSUME IInv, [Next]_vars, NEW a \in Streams, summary'[a].created
    PROVE  summary'[a].version >= summary[a].version
<1>1. summary \in [Streams -> AccountState] /\ RowOK(a, summary[a], version[a])
  BY DEF IInv, TablesOK
<1>2. summary[a].version \in Nat
  BY <1>1 DEF AccountState
<1>3. CASE UNCHANGED summary
  BY <1>2, <1>3
<1>4. ASSUME NEW r \in Rebuilders, Rebuild(r)
      PROVE  summary'[a].version >= summary[a].version
  <2>1. summary'[a] = NewAccount \/ summary'[a] = summary[a]
    BY <1>4 DEF Rebuild, Reset
  <2>2. QED
    BY <1>2, <2>1 DEF NewAccount
<1>5. ASSUME NEW w \in Workers, Upsert(w)
      PROVE  summary'[a].version >= summary[a].version
  <2> DEFINE b == msg[w].stream
             new == Projected(seen[w], msg[w])
  <2>1. /\ FeedInv /\ pc[w] = "upsert" /\ RowOK(b, seen[w], version[b])
        /\ Projectable(seen[w], msg[w])
        /\ summary' = [summary EXCEPT ![b] = IF UpsertApplies(summary[b], new) THEN new ELSE summary[b]]
    BY <1>5 DEF IInv, SeenOK, Upsert, WriteSummary
  <2>2. msg[w] \in CommittedEvents
    BY <2>1 DEF FeedInv, WorkOK
  <2>3. b \in Streams /\ version[b] \in Nat /\ msg[w].version \in Nat
    BY <2>1, <2>2, CommittedForm
  <2>4. new.version = msg[w].version
    BY <2>1, <2>2, <2>3, ProjectedIsReplay
  <2> HIDE DEF new
  <2>5. CASE summary'[a] = summary[a]
    BY <1>2, <2>5
  <2>6. CASE summary'[a] # summary[a]
    <3>1. a = b /\ summary'[a] = new /\ UpsertApplies(summary[a], new)
      BY <1>1, <2>1, <2>3, <2>6
    <3>2. CASE summary[a].created
      BY <1>2, <2>3, <2>4, <3>1, <3>2 DEF UpsertApplies
    <3>3. CASE ~summary[a].created
      BY <1>1, <2>3, <2>4, <3>1, <3>3 DEF RowOK, NewAccount
    <3>4. QED
      BY <3>2, <3>3
  <2>7. QED
    BY <2>5, <2>6
<1>6. \/ UNCHANGED summary
      \/ \E r \in Rebuilders : Rebuild(r)
      \/ \E w \in Workers : Upsert(w)
  BY DEF Next, vars, tables, Environment, Deliver, ReadRebuildEvents, Project, ReadSummary,
         AppendStatement, CallFails, AppendFails
<1>7. QED
  BY <1>3, <1>4, <1>5, <1>6

\* Readers never see an account go back to an older version.
THEOREM NeverShownOlder == Spec => VersionNeverBack
<1>1. IInv /\ [Next]_vars
        => [\A a \in Streams :
              summary'[a].created => summary'[a].version >= summary[a].version]_vars
  BY NoStepGoesBack
<1>2. QED
  BY <1>1, ProjectionInvariant, PTL DEF Spec, VersionNeverBack

-----------------------------------------------------------------------------
(* The rebuild of one account                                              *)
(*                                                                         *)
(* Its events are versions 1, 2, 3 and so on, and whoever writes the row   *)
(* only takes it further: at each event the row has reached the version    *)
(* before.  Two things are needed for that.  A second rebuild would reset  *)
(* the row under the first, and the projector throws at a stream that does *)
(* not begin with its one AccountCreated, as that of an account frozen     *)
(* before it was created does not.                                         *)

OneRebuild == \A r, q \in Rebuilders : r = q

CreatedFirst ==
    \A a \in Streams : \A n \in 1..Length[a] :
        History[a][n].eventType = "AccountCreated" <=> n = 1

\* The row of account a is at version n or further.
Reaches(a, n) == n = 0 \/ (summary[a].created /\ summary[a].version >= n)

Handling == {"read", "upsert", "append"}

\* What follows the event a rebuild is at.
Consecutive(r) ==
    /\ msg[r].stream = scope[r]
    /\ \A i \in 1..Len(todo[r]) :
          todo[r][i] = [stream |-> scope[r], version |-> msg[r].version + i]

\* The version the row has reached.
Behind(r) == IF pc[r] = "append" THEN msg[r].version ELSE msg[r].version - 1

RebuildOf(r) ==
    scope[r] \in Streams /\ pc[r] \in Handling =>
        Consecutive(r) /\ Reaches(scope[r], Behind(r))

RebuildsOK == \A r \in Rebuilders : RebuildOf(r)

\* Only a reset takes a row back.
LEMMA ReachesKept ==
    ASSUME IInv, [Next]_vars, ~\E r \in Rebuilders : Rebuild(r),
           NEW a \in Streams, NEW n \in Nat, Reaches(a, n)
    PROVE  Reaches(a, n)'
<1>1. summary \in [Streams -> AccountState] /\ summary' \in [Streams -> AccountState]
  BY NextInv DEF IInv, TablesOK
<1>2. summary[a].version \in Nat /\ summary'[a].version \in Nat
  BY <1>1 DEF AccountState
<1>3. ASSUME NEW w \in Workers, Upsert(w), summary[a].created PROVE summary'[a].created
  <2> DEFINE b == msg[w].stream
             new == Projected(seen[w], msg[w])
  <2>1. /\ FeedInv /\ pc[w] = "upsert" /\ RowOK(b, seen[w], version[b])
        /\ Projectable(seen[w], msg[w])
        /\ summary' = [summary EXCEPT ![b] = IF UpsertApplies(summary[b], new) THEN new ELSE summary[b]]
    BY <1>3 DEF IInv, SeenOK, Upsert, WriteSummary
  <2>2. msg[w] \in CommittedEvents
    BY <2>1 DEF FeedInv, WorkOK
  <2>3. b \in Streams /\ version[b] \in Nat
    BY <2>1, <2>2, CommittedForm
  <2>4. new.created
    BY <2>1, <2>2, <2>3, ProjectedIsReplay
  <2> HIDE DEF new
  <2>5. summary'[a] = new \/ summary'[a] = summary[a]
    BY <1>1, <2>1
  <2>6. QED
    BY <1>3, <2>4, <2>5
<1>4. UNCHANGED summary \/ \E w \in Workers : Upsert(w)
  BY DEF Next, vars, tables, Environment, Deliver, ReadRebuildEvents, Project, ReadSummary,
         AppendStatement, CallFails, AppendFails
<1>5. summary[a].created => summary'[a].created
  BY <1>3, <1>4
<1>6. summary'[a].created => summary'[a].version >= summary[a].version
  BY NoStepGoesBack
<1>7. QED
  BY <1>2, <1>5, <1>6 DEF Reaches

\* RebuildOf after a step, with names for the state it speaks of.
LEMMA RebuildAt ==
    ASSUME NEW r \in Rebuilders, NEW a \in Streams, NEW n \in Nat,
           scope'[r] = a, Behind(r)' = n, Consecutive(r)', Reaches(a, n)'
    PROVE  RebuildOf(r)'
BY DEF RebuildOf, Reaches

LEMMA BehindType ==
    ASSUME FeedInv, NEW r \in Rebuilders, pc[r] \in Handling
    PROVE  /\ r \in Workers /\ msg[r] \in CommittedEvents
           /\ msg[r].version \in Nat \ {0} /\ Behind(r) \in Nat
<1>1. r \in Workers /\ msg[r] \in CommittedEvents
  BY DEF FeedInv, WorkOK, Workers, Handling
<1>2. msg[r].version \in 1..version[msg[r].stream] /\ version[msg[r].stream] \in Nat
  BY <1>1, CommittedForm
<1>3. QED
  BY <1>1, <1>2 DEF Behind

\* A rebuild that a step does not concern stays as it is.
LEMMA RebuildStays ==
    ASSUME IInv, [Next]_vars, ~\E r \in Rebuilders : Rebuild(r), NEW r \in Rebuilders, RebuildOf(r),
           pc'[r] = pc[r], msg'[r] = msg[r], scope'[r] = scope[r], todo'[r] = todo[r]
    PROVE  RebuildOf(r)'
<1>1. CASE ~(scope[r] \in Streams /\ pc[r] \in Handling)
  BY <1>1 DEF RebuildOf
<1>2. CASE scope[r] \in Streams /\ pc[r] \in Handling
  <2>1. PICK a \in Streams, n \in Nat : a = scope[r] /\ n = Behind(r)
    BY <1>2, BehindType DEF IInv
  <2>2. Consecutive(r) /\ Reaches(a, n)
    BY <1>2, <2>1 DEF RebuildOf
  <2>3. Reaches(a, n)'
    BY <2>2, ReachesKept
  <2>4. Behind(r)' = n /\ Consecutive(r)'
    BY <2>1, <2>2 DEF Behind, Consecutive
  <2>5. QED
    BY <2>1, <2>3, <2>4, RebuildAt
<1>3. QED
  BY <1>1, <1>2

\* A rebuild that is not handling an event has nothing to keep.
LEMMA RebuildRests ==
    ASSUME NEW r \in Rebuilders, pc'[r] \in {"idle", "events"}
    PROVE  RebuildOf(r)'
BY DEF RebuildOf, Handling

\* The next event continues the row the last one has reached.
LEMMA RebuildAdvances ==
    ASSUME FeedInv, NEW r \in Rebuilders, pc[r] \in Handling, Advance(r),
           scope[r] \in Streams => Consecutive(r),
           \A a \in Streams, n \in Nat : a = scope[r] /\ n = msg[r].version => Reaches(a, n)'
    PROVE  RebuildOf(r)'
<1>1. r \notin Consumers /\ r \in Workers
  BY FeedAssumption DEF Workers
<1>2. /\ pc \in [Workers -> PCs] /\ msg \in [Workers -> CommittedEvents \cup {NoEvent}]
      /\ scope \in [Rebuilders -> Streams \cup {All, NoScope}]
      /\ todo \in [Rebuilders -> Seq(CommittedEvents)]
  BY DEF FeedInv, WorkOK
<1>3. CASE todo[r] = <<>>
  BY <1>1, <1>2, <1>3, RebuildRests DEF Advance
<1>4. CASE todo[r] # <<>> /\ scope[r] \in Streams
  <2>1. /\ msg' = [msg EXCEPT ![r] = Head(todo[r])] /\ todo' = [todo EXCEPT ![r] = Tail(todo[r])]
        /\ pc' = [pc EXCEPT ![r] = "read"] /\ UNCHANGED scope
    BY <1>1, <1>4 DEF Advance
  <2>2. msg'[r] = Head(todo[r]) /\ todo'[r] = Tail(todo[r]) /\ pc'[r] = "read" /\ scope'[r] = scope[r]
    BY <1>1, <1>2, <2>1
  <2>3. PICK a \in Streams, n \in Nat \ {0} : a = scope[r] /\ n = msg[r].version
    BY <1>4, BehindType
  <2>4. PICK rest \in Seq(CommittedEvents) : rest = todo[r]
    BY <1>2
  <2>5. \A i \in 1..Len(rest) : rest[i] = [stream |-> a, version |-> n + i]
    BY <1>4, <2>3, <2>4 DEF Consecutive
  <2>6. rest # <<>> /\ Len(rest) \in Nat \ {0}
    BY <1>4, <2>4
  <2>7. Head(rest) = [stream |-> a, version |-> n + 1]
    <3>1. Head(rest) = rest[1] /\ 1 \in 1..Len(rest)
      BY <2>6
    <3>2. QED
      BY <2>5, <3>1
  <2>8. /\ Len(Tail(rest)) = Len(rest) - 1
        /\ \A i \in 1..Len(Tail(rest)) : Tail(rest)[i] = rest[i + 1]
    BY <2>6, HeadTailProperties
  <2>9. \A i \in 1..Len(Tail(rest)) : Tail(rest)[i] = [stream |-> a, version |-> (n + 1) + i]
    <3>1. SUFFICES ASSUME NEW i \in 1..Len(Tail(rest))
                   PROVE  Tail(rest)[i] = [stream |-> a, version |-> (n + 1) + i]
      OBVIOUS
    <3>2. i + 1 \in 1..Len(rest) /\ n + (i + 1) = (n + 1) + i
      BY <2>6, <2>8
    <3>3. QED
      BY <2>5, <2>8, <3>2
  <2>10. Consecutive(r)'
    BY <2>2, <2>3, <2>4, <2>7, <2>9 DEF Consecutive
  <2>11. Behind(r)' = n
    BY <2>2, <2>3, <2>4, <2>7 DEF Behind
  <2>12. Reaches(a, n)'
    BY <2>3
  <2>13. QED
    BY <2>2, <2>3, <2>10, <2>11, <2>12, RebuildAt
<1>5. CASE todo[r] # <<>> /\ scope[r] \notin Streams
  <2>1. scope'[r] = scope[r]
    BY <1>1, <1>5 DEF Advance
  <2>2. QED
    BY <1>5, <2>1 DEF RebuildOf
<1>6. QED
  BY <1>3, <1>4, <1>5

SameWork(r) ==
    pc'[r] = pc[r] /\ msg'[r] = msg[r] /\ scope'[r] = scope[r] /\ todo'[r] = todo[r]

\* No worker but itself moves a rebuild.
LEMMA OthersWork ==
    ASSUME FeedInv, NEW w \in Workers, NEW r \in Rebuilders, r # w,
           Advance(w) \/ Throw(w) \/ \E label \in PCs : Goto(w, label)
    PROVE  SameWork(r)
<1>1. /\ pc \in [Workers -> PCs] /\ msg \in [Workers -> CommittedEvents \cup {NoEvent}]
      /\ scope \in [Rebuilders -> Streams \cup {All, NoScope}]
      /\ todo \in [Rebuilders -> Seq(CommittedEvents)] /\ r \in Workers
  BY DEF FeedInv, WorkOK, Workers
<1>2. CASE Advance(w)
  <2>1. CASE w \in Consumers
    BY <1>1, <1>2, <2>1 DEF Advance, SameWork
  <2>2. CASE w \notin Consumers
    BY <1>1, <1>2, <2>2 DEF Advance, SameWork
  <2>3. QED
    BY <2>1, <2>2
<1>3. CASE Throw(w)
  BY <1>1, <1>3 DEF Throw, SameWork
<1>4. CASE \E label \in PCs : Goto(w, label)
  BY <1>1, <1>4 DEF Goto, SameWork
<1>5. QED
  BY <1>2, <1>3, <1>4

\* readStream hands the rebuild versions 1, 2, 3 and so on.
LEMMA RebuildReads ==
    ASSUME FeedInv, NEW r \in Rebuilders, ReadEvents(r), scope[r] \in Streams
    PROVE  RebuildOf(r)'
<1>1. /\ pc \in [Workers -> PCs] /\ msg \in [Workers -> CommittedEvents \cup {NoEvent}]
      /\ scope \in [Rebuilders -> Streams \cup {All, NoScope}]
      /\ todo \in [Rebuilders -> Seq(CommittedEvents)] /\ r \in Workers
  BY DEF FeedInv, WorkOK, Workers
<1>2. PICK a \in Streams : a = scope[r]
  OBVIOUS
<1>3. a # All
  BY FeedAssumption
<1>4. PICK page \in Seq(CommittedEvents) : page = StreamEvents(a)
  BY StreamEventsType
<1>5. CASE page = <<>>
  <2>1. pc'[r] = "idle"
    BY <1>1, <1>2, <1>3, <1>4, <1>5 DEF ReadEvents
  <2>2. QED
    BY <2>1, RebuildRests
<1>6. CASE page # <<>>
  <2>1. msg'[r] = Head(page) /\ todo'[r] = Tail(page) /\ pc'[r] = "read" /\ scope'[r] = a
    BY <1>1, <1>2, <1>3, <1>4, <1>6 DEF ReadEvents
  <2>2. version[a] \in Nat
    BY DEF FeedInv, VersionOK
  <2>3. Len(page) = version[a] /\ \A i \in 1..Len(page) : page[i] = [stream |-> a, version |-> i]
    BY <1>4, <2>2 DEF StreamEvents
  <2>4. Len(page) \in Nat \ {0}
    BY <1>6
  <2>5. Head(page) = [stream |-> a, version |-> 1]
    <3>1. Head(page) = page[1] /\ 1 \in 1..Len(page)
      BY <2>4
    <3>2. QED
      BY <2>3, <3>1
  <2>6. /\ Len(Tail(page)) = Len(page) - 1
        /\ \A i \in 1..Len(Tail(page)) : Tail(page)[i] = page[i + 1]
    BY <1>6, HeadTailProperties
  <2>7. \A i \in 1..Len(Tail(page)) : Tail(page)[i] = [stream |-> a, version |-> 1 + i]
    BY <2>3, <2>4, <2>6
  <2>8. Consecutive(r)'
    BY <2>1, <2>5, <2>7 DEF Consecutive
  <2>9. Behind(r)' = 0
    BY <2>1, <2>5 DEF Behind
  <2>10. QED
    BY <2>1, <2>8, <2>9, RebuildAt DEF Reaches
<1>7. QED
  BY <1>5, <1>6

\* The row has the event's version once it is projected, by whomever.
LEMMA UpsertReaches ==
    ASSUME IInv, NEW w \in Workers, Upsert(w), NEW a \in Streams, NEW n \in Nat,
           a = msg[w].stream, n = msg[w].version
    PROVE  Reaches(a, n)'
<1> DEFINE new == Projected(seen[w], msg[w])
<1>1. /\ FeedInv /\ pc[w] = "upsert" /\ RowOK(a, seen[w], version[a]) /\ Projectable(seen[w], msg[w])
      /\ summary' = [summary EXCEPT ![a] = IF UpsertApplies(summary[a], new) THEN new ELSE summary[a]]
  BY DEF IInv, SeenOK, Upsert, WriteSummary
<1>2. msg[w] \in CommittedEvents /\ version[a] \in Nat
  BY <1>1 DEF FeedInv, WorkOK, VersionOK
<1>3. new.created /\ new.version = n
  BY <1>1, <1>2, ProjectedIsReplay
<1>4. summary \in [Streams -> AccountState] /\ summary[a].version \in Nat
  BY DEF IInv, TablesOK, AccountState
<1>5. UpsertApplies(summary[a], new) <=> ~summary[a].created \/ summary[a].version < n
  BY <1>3 DEF UpsertApplies
<1> HIDE DEF new
<1>6. summary'[a] = IF UpsertApplies(summary[a], new) THEN new ELSE summary[a]
  BY <1>1, <1>4
<1>7. QED
  BY <1>3, <1>4, <1>5, <1>6 DEF Reaches

\* The rebuild's own handling of an event.
LEMMA RebuildProjects ==
    ASSUME IInv, NEW r \in Rebuilders, RebuildOf(r), Project(r)
    PROVE  RebuildOf(r)'
<1>1. FeedInv /\ r \in Workers /\ pc[r] \in Handling
  BY DEF IInv, Project, ReadSummary, Upsert, AppendStatement, Handling, Workers
<1>2. /\ pc \in [Workers -> PCs] /\ msg[r] \in CommittedEvents
      /\ msg[r].version \in Nat \ {0} /\ Behind(r) \in Nat
  BY <1>1, BehindType DEF FeedInv, WorkOK
<1>3. scope[r] \in Streams => Consecutive(r) /\ Reaches(scope[r], Behind(r))
  BY <1>1 DEF RebuildOf
<1>4. scope[r] \in Streams => msg[r].stream = scope[r]
  BY <1>3 DEF Consecutive
<1>5. CASE ReadSummary(r)
  <2>1. UNCHANGED summary /\ pc[r] = "read"
    BY <1>5 DEF ReadSummary, tables
  <2>2. CASE AlreadyProjected(summary[msg[r].stream], msg[r]) /\ Advance(r)
    <3>1. \A a \in Streams, n \in Nat : a = scope[r] /\ n = msg[r].version => Reaches(a, n)'
      BY <1>4, <2>1, <2>2 DEF AlreadyProjected, Reaches
    <3>2. QED
      BY <1>1, <1>3, <2>2, <3>1, RebuildAdvances
  <2>3. CASE Goto(r, "upsert")
    <3>1. pc'[r] = "upsert" /\ msg'[r] = msg[r] /\ scope'[r] = scope[r] /\ todo'[r] = todo[r]
      BY <1>1, <1>2, <2>3 DEF Goto
    <3>2. CASE scope[r] \in Streams
      <4>1. PICK a \in Streams, n \in Nat : a = scope[r] /\ n = Behind(r)
        BY <1>2, <3>2
      <4>2. Behind(r)' = n /\ Consecutive(r)' /\ Reaches(a, n)'
        BY <1>3, <2>1, <3>1, <3>2, <4>1 DEF Behind, Consecutive, Reaches
      <4>3. QED
        BY <3>1, <4>1, <4>2, RebuildAt
    <3>3. QED
      BY <3>1, <3>2 DEF RebuildOf
  <2>4. CASE Throw(r)
    BY <1>1, <1>2, <2>4, RebuildRests DEF Throw
  <2>5. QED
    BY <1>5, <2>2, <2>3, <2>4 DEF ReadSummary
<1>6. CASE Upsert(r)
  <2>1. pc'[r] = "append" /\ msg'[r] = msg[r] /\ scope'[r] = scope[r] /\ todo'[r] = todo[r]
    BY <1>1, <1>2, <1>6 DEF Upsert, Goto
  <2>2. CASE scope[r] \in Streams
    <3>1. PICK a \in Streams, n \in Nat : a = scope[r] /\ n = msg[r].version
      BY <1>2, <2>2
    <3>2. Reaches(a, n)'
      BY <1>1, <1>4, <1>6, <3>1, UpsertReaches
    <3>3. Behind(r)' = n /\ Consecutive(r)'
      BY <1>3, <2>1, <2>2, <3>1 DEF Behind, Consecutive
    <3>4. QED
      BY <2>1, <3>1, <3>2, <3>3, RebuildAt
  <2>3. QED
    BY <2>1, <2>2 DEF RebuildOf
<1>7. CASE AppendStatement(r)
  <2>1. UNCHANGED summary /\ pc[r] = "append" /\ Advance(r)
    BY <1>7 DEF AppendStatement
  <2>2. \A a \in Streams, n \in Nat : a = scope[r] /\ n = msg[r].version => Reaches(a, n)'
    BY <1>3, <2>1 DEF Behind, Reaches
  <2>3. QED
    BY <1>1, <1>3, <2>1, <2>2, RebuildAdvances
<1>8. QED
  BY <1>5, <1>6, <1>7 DEF Project

LEMMA NextRebuilds ==
    ASSUME OneRebuild, IInv, RebuildsOK, [Next]_vars
    PROVE  RebuildsOK'
<1> SUFFICES ASSUME NEW r \in Rebuilders PROVE RebuildOf(r)'
  BY DEF RebuildsOK
<1>1. /\ FeedInv /\ RebuildOf(r) /\ r \in Workers /\ r \notin Consumers
      /\ pc \in [Workers -> PCs] /\ msg \in [Workers -> CommittedEvents \cup {NoEvent}]
  BY FeedAssumption DEF IInv, RebuildsOK, Workers, FeedInv, WorkOK
<1>2. CASE \E q \in Rebuilders : Rebuild(q)
  <2>1. Rebuild(r)
    BY <1>2 DEF OneRebuild
  <2>2. pc'[r] = "events"
    BY <1>1, <2>1 DEF Rebuild, StartRebuild
  <2>3. QED
    BY <2>2, RebuildRests
<1>3. CASE ~\E q \in Rebuilders : Rebuild(q)
  <2>1. SameWork(r) => RebuildOf(r)'
    BY <1>1, <1>3, RebuildStays DEF SameWork
  <2>2. CASE Environment \/ UNCHANGED vars
    <3>1. SameWork(r)
      BY <2>2 DEF SameWork, Environment, CommitEvent, SendEvent, Rebalance, EmptyFetch, vars, feed, work
    <3>2. QED
      BY <2>1, <3>1
  <2>3. ASSUME NEW c \in Consumers, Deliver(c) PROVE RebuildOf(r)'
    <3>1. SameWork(r)
      BY <1>1, <2>3 DEF SameWork, Deliver, Fetch
    <3>2. QED
      BY <2>1, <3>1
  <2>4. ASSUME NEW q \in Rebuilders, ReadRebuildEvents(q) PROVE RebuildOf(r)'
    <3>1. ReadEvents(r)
      BY <2>4 DEF OneRebuild, ReadRebuildEvents
    <3>2. CASE scope[r] \in Streams
      BY <1>1, <3>1, <3>2, RebuildReads
    <3>3. CASE scope[r] \notin Streams
      <4>1. scope'[r] \in {scope[r], NoScope}
        BY <1>1, <3>1 DEF ReadEvents, FeedInv, WorkOK
      <4>2. scope'[r] \notin Streams
        BY <3>3, <4>1, FeedAssumption
      <4>3. QED
        BY <4>2 DEF RebuildOf
    <3>4. QED
      BY <3>2, <3>3
  <2>5. ASSUME NEW w \in Workers, w # r, Project(w) \/ CallFails(w) \/ AppendFails(w)
        PROVE  RebuildOf(r)'
    <3>1. Advance(w) \/ Throw(w) \/ \E label \in PCs : Goto(w, label)
      BY <2>5 DEF Project, ReadSummary, Upsert, AppendStatement, CallFails, AppendFails, PCs
    <3>2. SameWork(r)
      BY <1>1, <2>5, <3>1, OthersWork
    <3>3. QED
      BY <2>1, <3>2
  <2>6. CASE Project(r)
    BY <1>1, <2>6, RebuildProjects
  <2>7. CASE CallFails(r) \/ AppendFails(r)
    <3>1. pc'[r] = "idle"
      BY <1>1, <2>7 DEF CallFails, AppendFails, Throw
    <3>2. QED
      BY <3>1, RebuildRests
  <2>8. QED
    BY <1>3, <2>2, <2>3, <2>4, <2>5, <2>6, <2>7 DEF Next
<1>4. QED
  BY <1>2, <1>3

\* Where the row has got to, the event is projected already or comes next.
LEMMA ReachedNoGap ==
    ASSUME CreatedFirst, IInv, RebuildsOK
    PROVE  RebuildMeetsNoGap
<1> SUFFICES ASSUME NEW r \in Rebuilders, pc[r] = "read", scope[r] \in Streams
             PROVE  \/ AlreadyProjected(summary[msg[r].stream], msg[r])
                    \/ Projectable(summary[msg[r].stream], msg[r])
  BY DEF RebuildMeetsNoGap
<1>1. FeedInv /\ msg[r] \in CommittedEvents
  BY BehindType DEF IInv, Handling
<1>2. PICK a \in Streams, v \in Nat : a = msg[r].stream /\ v = msg[r].version
  BY <1>1, CommittedForm
<1>3. v \in 1..Length[a] /\ v >= 1
  BY <1>1, <1>2, CommittedForm
<1>4. Reaches(a, v - 1)
  BY <1>2 DEF RebuildsOK, RebuildOf, Handling, Consecutive, Behind
<1>5. EventOf(msg[r]).eventType = "AccountCreated" <=> v = 1
  BY <1>2, <1>3 DEF CreatedFirst, EventOf
<1>6. RowOK(a, summary[a], version[a]) /\ summary[a].version \in Nat /\ version[a] \in Nat
  BY <1>1 DEF IInv, TablesOK, AccountState, FeedInv, VersionOK
<1>7. CASE summary[a].created /\ summary[a].version >= v
  BY <1>2, <1>7 DEF AlreadyProjected
<1>8. CASE ~(summary[a].created /\ summary[a].version >= v)
  <2>1. CASE v = 1
    <3>1. ~summary[a].created
      BY <1>6, <1>8, <2>1 DEF RowOK
    <3>2. QED
      BY <1>2, <1>5, <2>1, <3>1 DEF Projectable
  <2>2. CASE v # 1
    <3>1. summary[a].created /\ summary[a].version >= v - 1
      BY <1>2, <1>4, <2>2 DEF Reaches
    <3>2. v = summary[a].version + 1
      BY <1>2, <1>6, <1>8, <3>1
    <3>3. QED
      BY <1>2, <1>5, <2>2, <3>1, <3>2 DEF Projectable
  <2>3. QED
    BY <2>1, <2>2
<1>9. QED
  BY <1>7, <1>8

LEMMA InitRebuilds == Init => RebuildsOK
<1> SUFFICES ASSUME Init, NEW r \in Rebuilders PROVE pc[r] = "idle"
  BY DEF RebuildsOK, RebuildOf, Handling
<1>1. QED
  BY DEF Init, FeedInit, Workers

\* A rebuild of one account runs through, whatever the consumers project meanwhile
\* (rebuildAccount in projection-runner.service.ts), as long as rebuilds do not overlap
\* and accounts are created before anything else happens to them.
THEOREM RebuildRunsThrough ==
    ASSUME OneRebuild, CreatedFirst
    PROVE  Spec => []RebuildMeetsNoGap
<1>1. IInv /\ RebuildsOK /\ [Next]_vars => RebuildsOK'
  BY NextRebuilds
<1>2. IInv /\ RebuildsOK => RebuildMeetsNoGap
  BY ReachedNoGap
<1>3. QED
  BY <1>1, <1>2, InitRebuilds, ProjectionInvariant, PTL DEF Spec

-----------------------------------------------------------------------------
(* Coordination: why two rebuilds of one process do not overlap            *)
(*                                                                         *)
(* The theorems about ProjectionCoordination, for any finite set of        *)
(* consumers and any set of rebuilds: rebuilds never overlap, and one that *)
(* did not wait for another one has the tables to itself.                  *)

In(t, s) == \E i \in 1..Len(s) : s[i] = t

Working == {l \in Live : place[l] = "work"}

Types ==
    /\ inProgress \in BOOLEAN /\ requested \in BOOLEAN
    /\ exclusiveQueue \in Seq(Rebuilds)
    /\ waiters \in Seq(Tasks) /\ micro \in Seq(Tasks)
    /\ place \in [Tasks -> Places]
    /\ behind \in [Rebuilds -> BOOLEAN]

\* activeSharedOperations counts the live projections at work.
ActiveOK == active = Cardinality(Working)

\* Whoever is in waitingResolvers waits, and whoever can go on has a microtask.
WaitersOK == \A t \in Tasks : In(t, waiters) => place[t] = "waiting"
MicroOK   == \A t \in Tasks : place[t] \in {"turn", "woken", "enter"} => In(t, micro)

\* Only the first rebuild of the queue has its turn; the others are queued, each once.
QueueOK ==
    /\ \A i, j \in 1..Len(exclusiveQueue) : exclusiveQueue[i] = exclusiveQueue[j] => i = j
    /\ \A i \in 1..Len(exclusiveQueue) :
           /\ i > 1 => place[exclusiveQueue[i]] = "queued"
           /\ i = 1 => place[exclusiveQueue[i]] \notin {"idle", "queued"}
    /\ \A r \in Rebuilds : place[r] \notin {"idle", "queued"} =>
           1 \in 1..Len(exclusiveQueue) /\ exclusiveQueue[1] = r

\* A rebuild that found the queue empty: nothing else is ready to run when its turn
\* comes, from then on no live projection enters, and it enters when none is at work.
FirstOK ==
    \A r \in Rebuilds :
        /\ place[r] = "queued" => behind[r]
        /\ ~behind[r] /\ place[r] = "turn" => micro = <<r>>
        /\ ~behind[r] /\ place[r] \in {"waiting", "woken", "enter", "work"} =>
               requested /\ \A l \in Live : place[l] # "enter"
        /\ ~behind[r] /\ place[r] \in {"enter", "work"} => Working = {}

CoordinationInv == Types /\ ActiveOK /\ WaitersOK /\ MicroOK /\ QueueOK /\ FirstOK

-----------------------------------------------------------------------------
(* Queues *)

LEMMA InEmpty == ASSUME NEW t PROVE ~In(t, <<>>)
BY DEF In

LEMMA InOne == ASSUME NEW t, NEW e PROVE In(t, <<e>>) <=> t = e
BY DEF In

LEMMA InAppend ==
    ASSUME NEW S, NEW s \in Seq(S), NEW e \in S, NEW t
    PROVE  /\ Append(s, e) \in Seq(S)
           /\ In(t, Append(s, e)) <=> In(t, s) \/ t = e
<1>1. Len(s) \in Nat
  OBVIOUS
<1>2. /\ Append(s, e) \in Seq(S) /\ Len(Append(s, e)) = Len(s) + 1
      /\ \A i \in 1..Len(s) : Append(s, e)[i] = s[i]
      /\ Append(s, e)[Len(s) + 1] = e
  BY AppendProperties
<1>3. QED
  BY <1>1, <1>2 DEF In

LEMMA InConcat ==
    ASSUME NEW S, NEW s \in Seq(S), NEW u \in Seq(S), NEW t
    PROVE  /\ s \o u \in Seq(S)
           /\ In(t, s \o u) <=> In(t, s) \/ In(t, u)
<1> DEFINE c == s \o u
<1>1. Len(s) \in Nat /\ Len(u) \in Nat
  OBVIOUS
<1>2. /\ c \in Seq(S) /\ Len(c) = Len(s) + Len(u)
      /\ \A i \in 1..Len(s) + Len(u) : c[i] = IF i <= Len(s) THEN s[i] ELSE u[i - Len(s)]
  BY ConcatProperties
<1> HIDE DEF c
<1>3. In(t, c) => In(t, s) \/ In(t, u)
  <2>1. ASSUME NEW i \in 1..Len(s) + Len(u), c[i] = t PROVE In(t, s) \/ In(t, u)
    <3>1. CASE i <= Len(s)
      BY <1>1, <1>2, <2>1, <3>1 DEF In
    <3>2. CASE ~(i <= Len(s))
      <4>1. i - Len(s) \in 1..Len(u) /\ u[i - Len(s)] = t
        BY <1>1, <1>2, <2>1, <3>2
      <4>2. QED
        BY <4>1 DEF In
    <3>3. QED
      BY <3>1, <3>2
  <2>2. QED
    BY <1>2, <2>1 DEF In
<1>4. In(t, s) => In(t, c)
  <2>1. ASSUME NEW i \in 1..Len(s), s[i] = t PROVE In(t, c)
    <3>1. i \in 1..Len(c) /\ c[i] = t
      BY <1>1, <1>2, <2>1
    <3>2. QED
      BY <3>1 DEF In
  <2>2. QED
    BY <2>1 DEF In
<1>5. In(t, u) => In(t, c)
  <2>1. ASSUME NEW i \in 1..Len(u), u[i] = t PROVE In(t, c)
    <3>1. /\ i + Len(s) \in 1..Len(s) + Len(u) /\ ~(i + Len(s) <= Len(s))
          /\ (i + Len(s)) - Len(s) = i
      BY <1>1
    <3>2. c[i + Len(s)] = t
      BY <1>2, <2>1, <3>1
    <3>3. QED
      BY <1>2, <3>1, <3>2 DEF In
  <2>2. QED
    BY <2>1 DEF In
<1>6. QED
  BY <1>2, <1>3, <1>4, <1>5 DEF c

LEMMA InTail ==
    ASSUME NEW S, NEW s \in Seq(S), s # <<>>
    PROVE  /\ Head(s) \in S /\ Tail(s) \in Seq(S)
           /\ \A t : In(t, s) /\ t # Head(s) => In(t, Tail(s))
<1>1. /\ Len(s) \in Nat \ {0} /\ Head(s) = s[1] /\ Head(s) \in S
      /\ Tail(s) \in Seq(S) /\ Len(Tail(s)) = Len(s) - 1
      /\ \A i \in 1..Len(Tail(s)) : Tail(s)[i] = s[i + 1]
  BY HeadTailProperties, EmptySeq, LenProperties
<1>2. ASSUME NEW t, NEW i \in 1..Len(s), s[i] = t, t # Head(s) PROVE In(t, Tail(s))
  <2>1. i - 1 \in 1..Len(Tail(s)) /\ (i - 1) + 1 = i
    BY <1>1, <1>2
  <2>2. Tail(s)[i - 1] = t
    BY <1>1, <1>2, <2>1
  <2>3. QED
    BY <2>1, <2>2 DEF In
<1>3. QED
  BY <1>1, <1>2 DEF In

\* Whoever waits is woken, nobody else changes.
LEMMA WokenLabel ==
    ASSUME Types, NEW label, NEW t \in Tasks
    PROVE  Woken(label)[t] = IF In(t, waiters) THEN "woken" ELSE label[t]
<1>1. DOMAIN waiters = 1..Len(waiters)
  BY DEF Types
<1>2. QED
  BY <1>1 DEF Woken, In

-----------------------------------------------------------------------------
(* The parts of the invariant, for steps of a common kind *)

\* The projections at work are the same.
LEMMA CountKept ==
    ASSUME ActiveOK, UNCHANGED active,
           \A l \in Live : place'[l] = "work" <=> place[l] = "work"
    PROVE  ActiveOK' /\ Working' = Working
<1>1. Working' = Working
  BY DEF Working
<1>2. QED
  BY <1>1 DEF ActiveOK

LEMMA NobodyWorks ==
    ASSUME ActiveOK, active = 0
    PROVE  Working = {}
<1>1. IsFiniteSet(Working)
  BY CoordinationAssumption, FS_Subset DEF Working
<1>2. QED
  BY <1>1, FS_EmptySet DEF ActiveOK

\* No rebuild takes or loses its turn.
LEMMA QueueKept ==
    ASSUME Types, QueueOK, UNCHANGED exclusiveQueue,
           \A r \in Rebuilds : \/ place'[r] = place[r]
                               \/ {place[r], place'[r]} \cap {"idle", "queued"} = {}
    PROVE  QueueOK'
<1>1. \A i \in 1..Len(exclusiveQueue) : exclusiveQueue[i] \in Rebuilds
  BY DEF Types
<1>2. \A r \in Rebuilds : (place'[r] = "idle" <=> place[r] = "idle") /\ (place'[r] = "queued" <=> place[r] = "queued")
  OBVIOUS
<1>3. QED
  BY <1>1, <1>2 DEF QueueOK

\* A task with an open predicate will enter.
LEMMA ReadyInv ==
    ASSUME CoordinationInv, NEW t \in Tasks, NEW queue \in Seq(Tasks),
           \A u \in Tasks \ {t} : In(u, micro) => In(u, queue),
           place[t] = "woken" \/ (place[t] = "idle" /\ t \in Live),
           \A r \in Rebuilds : ~behind[r] => place[r] # "turn",
           t \in Live => MayShare, t \in Rebuilds => MayExclude,
           micro' = Append(queue, t), place' = [place EXCEPT ![t] = "enter"],
           UNCHANGED <<waiters, active, inProgress, requested, exclusiveQueue, behind>>
    PROVE  CoordinationInv'
<1>1. Types /\ ActiveOK /\ WaitersOK /\ MicroOK /\ QueueOK /\ FirstOK
  BY DEF CoordinationInv
<1>2. /\ place'[t] = "enter" /\ place' \in [Tasks -> Places]
      /\ \A u \in Tasks : u # t => place'[u] = place[u]
  BY <1>1 DEF Types, Places
<1>3. micro' \in Seq(Tasks) /\ \A u \in Tasks : In(u, micro') <=> In(u, queue) \/ u = t
  BY InAppend
<1>4. Types'
  BY <1>1, <1>2, <1>3 DEF Types
<1>5. ActiveOK' /\ Working' = Working
  BY <1>1, <1>2, CountKept DEF Tasks
<1>6. WaitersOK'
  BY <1>1, <1>2 DEF WaitersOK, In
<1>7. MicroOK'
  <2>1. ASSUME NEW u \in Tasks, place'[u] \in {"turn", "woken", "enter"} PROVE In(u, micro')
    BY <1>1, <1>2, <1>3, <2>1 DEF MicroOK
  <2>2. QED
    BY <2>1 DEF MicroOK, In
<1>8. QueueOK'
  <2>1. ASSUME NEW r \in Rebuilds
        PROVE  place'[r] = place[r] \/ {place[r], place'[r]} \cap {"idle", "queued"} = {}
    BY <1>2, CoordinationAssumption DEF Tasks
  <2>2. QED
    BY <1>1, <2>1, QueueKept
<1>9. FirstOK'
  <2> SUFFICES ASSUME NEW r \in Rebuilds
               PROVE  /\ place'[r] = "queued" => behind[r]
                      /\ ~behind[r] /\ place'[r] = "turn" => micro' = <<r>>
                      /\ ~behind[r] /\ place'[r] \in {"waiting", "woken", "enter", "work"} =>
                             requested /\ \A l \in Live : place'[l] # "enter"
                      /\ ~behind[r] /\ place'[r] \in {"enter", "work"} => Working = {}
    BY <1>5 DEF FirstOK
  <2>0. r \in Tasks
    BY DEF Tasks
  <2>1. CASE r = t
    <3>1. place[r] = "woken" /\ active = 0 /\ t \notin Live
      BY <2>1, CoordinationAssumption DEF MayExclude
    <3>2. Working = {}
      BY <1>1, <3>1, NobodyWorks
    <3>3. ~behind[r] => requested /\ \A l \in Live : place[l] # "enter"
      BY <1>1, <3>1 DEF FirstOK
    <3>4. \A l \in Live : place'[l] = place[l]
      BY <1>2, <3>1 DEF Tasks
    <3>5. QED
      BY <1>2, <2>1, <3>2, <3>3, <3>4
  <2>2. CASE r # t
    <3>1. place'[r] = place[r]
      BY <1>2, <2>0, <2>2
    <3>2. CASE behind[r] \/ place[r] \in {"idle", "queued"}
      BY <1>1, <3>1, <3>2 DEF FirstOK
    <3>3. CASE ~behind[r] /\ place[r] \notin {"idle", "queued"}
      <4>1. place[r] \in {"waiting", "woken", "enter", "work"}
        BY <1>1, <2>0, <3>3 DEF Types, Places
      <4>2. requested /\ \A l \in Live : place[l] # "enter"
        BY <1>1, <3>3, <4>1 DEF FirstOK
      <4>3. t \notin Live /\ t \in Rebuilds
        BY <4>2 DEF MayShare, Tasks
      <4>4. t = exclusiveQueue[1] /\ r = exclusiveQueue[1]
        BY <1>1, <3>3, <4>3 DEF QueueOK
      <4>5. QED
        BY <2>2, <4>4
    <3>4. QED
      BY <3>2, <3>3
  <2>3. QED
    BY <2>1, <2>2
<1>10. QED
  BY <1>4, <1>5, <1>6, <1>7, <1>8, <1>9 DEF CoordinationInv

\* A task whose predicate is false joins the waiters.
LEMMA WaitInv ==
    ASSUME CoordinationInv, NEW t \in Tasks, NEW queue \in Seq(Tasks),
           \A u \in Tasks \ {t} : In(u, micro) => In(u, queue),
           place[t] = "woken" \/ (place[t] = "idle" /\ t \in Live),
           \A r \in Rebuilds : ~behind[r] => place[r] # "turn",
           waiters' = Append(waiters, t), place' = [place EXCEPT ![t] = "waiting"],
           micro' = queue,
           UNCHANGED <<active, inProgress, requested, exclusiveQueue, behind>>
    PROVE  CoordinationInv'
<1>1. Types /\ ActiveOK /\ WaitersOK /\ MicroOK /\ QueueOK /\ FirstOK
  BY DEF CoordinationInv
<1>2. /\ place'[t] = "waiting" /\ place' \in [Tasks -> Places]
      /\ \A u \in Tasks : u # t => place'[u] = place[u]
  BY <1>1 DEF Types, Places
<1>3. waiters' \in Seq(Tasks) /\ \A u \in Tasks : In(u, waiters') <=> In(u, waiters) \/ u = t
  BY <1>1, InAppend DEF Types
<1>4. Types'
  BY <1>1, <1>2, <1>3 DEF Types
<1>5. ActiveOK' /\ Working' = Working
  BY <1>1, <1>2, CountKept DEF Tasks
<1>6. WaitersOK'
  <2>1. ASSUME NEW u \in Tasks, In(u, waiters') PROVE place'[u] = "waiting"
    BY <1>1, <1>2, <1>3, <2>1 DEF WaitersOK
  <2>2. QED
    BY <2>1 DEF WaitersOK, In
<1>7. MicroOK'
  <2>1. ASSUME NEW u \in Tasks, place'[u] \in {"turn", "woken", "enter"} PROVE In(u, micro')
    BY <1>1, <1>2, <2>1 DEF MicroOK
  <2>2. QED
    BY <2>1 DEF MicroOK, In
<1>8. QueueOK'
  <2>1. ASSUME NEW r \in Rebuilds
        PROVE  place'[r] = place[r] \/ {place[r], place'[r]} \cap {"idle", "queued"} = {}
    BY <1>2, CoordinationAssumption DEF Tasks
  <2>2. QED
    BY <1>1, <2>1, QueueKept
<1>9. FirstOK'
  <2> SUFFICES ASSUME NEW r \in Rebuilds
               PROVE  /\ place'[r] = "queued" => behind[r]
                      /\ ~behind[r] /\ place'[r] = "turn" => micro' = <<r>>
                      /\ ~behind[r] /\ place'[r] \in {"waiting", "woken", "enter", "work"} =>
                             requested /\ \A l \in Live : place'[l] # "enter"
                      /\ ~behind[r] /\ place'[r] \in {"enter", "work"} => Working = {}
    BY <1>5 DEF FirstOK
  <2>1. r \in Tasks /\ \A l \in Live : place'[l] = place[l] \/ place'[l] = "waiting"
    BY <1>2 DEF Tasks
  <2>2. CASE r = t
    BY <1>1, <1>2, <2>1, <2>2, CoordinationAssumption DEF FirstOK
  <2>3. CASE r # t
    BY <1>1, <1>2, <2>1, <2>3 DEF FirstOK
  <2>4. QED
    BY <2>2, <2>3
<1>10. QED
  BY <1>4, <1>5, <1>6, <1>7, <1>8, <1>9 DEF CoordinationInv

-----------------------------------------------------------------------------
(* runShared *)

LEMMA CoordinationInitInv == CoordinationInit => CoordinationInv
<1> SUFFICES ASSUME CoordinationInit PROVE CoordinationInv
  OBVIOUS
<1>1. /\ active = 0 /\ inProgress = FALSE /\ requested = FALSE
      /\ exclusiveQueue = <<>> /\ waiters = <<>> /\ micro = <<>>
      /\ place = [t \in Tasks |-> "idle"] /\ behind = [r \in Rebuilds |-> FALSE]
  BY DEF CoordinationInit
<1>2. Types
  <2>1. <<>> \in Seq(Rebuilds) /\ <<>> \in Seq(Tasks)
    OBVIOUS
  <2>2. place \in [Tasks -> Places] /\ behind \in [Rebuilds -> BOOLEAN]
    BY <1>1 DEF Places
  <2>3. QED
    BY <1>1, <2>1, <2>2 DEF Types
<1>3. \A t \in Tasks : place[t] = "idle"
  BY <1>1
<1>4. Working = {}
  BY <1>3 DEF Working, Tasks
<1>5. ActiveOK
  BY <1>1, <1>4, FS_EmptySet DEF ActiveOK
<1>6. WaitersOK /\ MicroOK
  BY <1>1, <1>3, InEmpty DEF WaitersOK, MicroOK
<1>7. QueueOK
  <2>1. Len(exclusiveQueue) = 0 /\ 1..Len(exclusiveQueue) = {}
    BY <1>1
  <2>2. QED
    BY <1>3, <2>1 DEF QueueOK, Tasks
<1>8. FirstOK
  BY <1>3 DEF FirstOK, Tasks
<1>9. QED
  BY <1>2, <1>5, <1>6, <1>7, <1>8 DEF CoordinationInv

\* With an empty microtask queue nobody is between two awaits.
LEMMA NothingReady ==
    ASSUME CoordinationInv, micro = <<>>
    PROVE  \A t \in Tasks : place[t] \in {"idle", "queued", "waiting", "work"}
BY InEmpty DEF CoordinationInv, Types, MicroOK, Places

LEMMA CallSharedInv ==
    ASSUME CoordinationInv, NEW l \in Live, CallShared(l)
    PROVE  CoordinationInv'
<1>1. /\ l \in Tasks /\ micro = <<>> /\ place[l] = "idle" /\ micro \in Seq(Tasks)
      /\ UNCHANGED <<active, inProgress, requested, exclusiveQueue, behind>>
  BY DEF CallShared, flags, Tasks, CoordinationInv, Types
<1>2. l \notin Rebuilds /\ \A r \in Rebuilds : place[r] # "turn"
  BY <1>1, NothingReady, CoordinationAssumption DEF Tasks
<1>3. CASE MayShare
  <2>1. micro' = Append(micro, l) /\ place' = [place EXCEPT ![l] = "enter"] /\ UNCHANGED waiters
    BY <1>3 DEF CallShared, WaitUntil
  <2>2. QED
    BY <1>1, <1>2, <1>3, <2>1, ReadyInv
<1>4. CASE ~MayShare
  <2>1. waiters' = Append(waiters, l) /\ place' = [place EXCEPT ![l] = "waiting"] /\ micro' = micro
    BY <1>4 DEF CallShared, WaitUntil
  <2>2. QED
    BY <1>1, <1>2, <2>1, WaitInv
<1>5. QED
  BY <1>3, <1>4

\* The task whose microtask runs is the only one that leaves the microtask queue.
LEMMA FirstMicrotask ==
    ASSUME CoordinationInv, micro # <<>>
    PROVE  /\ Head(micro) \in Tasks /\ Tail(micro) \in Seq(Tasks)
           /\ \A u \in Tasks \ {Head(micro)} : In(u, micro) => In(u, Tail(micro))
           /\ \A r : micro = <<r>> => r = Head(micro)
<1>1. micro \in Seq(Tasks)
  BY DEF CoordinationInv, Types
<1>2. \A r : micro = <<r>> => r = Head(micro)
  OBVIOUS
<1>3. QED
  BY <1>1, <1>2, InTail

LEMMA RetestInv ==
    ASSUME CoordinationInv, micro # <<>>, Retest(Head(micro))
    PROVE  CoordinationInv'
<1> DEFINE t == Head(micro)
           queue == Tail(micro)
           predicate == IF t \in Live THEN MayShare ELSE MayExclude
<1>1. /\ t \in Tasks /\ queue \in Seq(Tasks)
      /\ \A u \in Tasks \ {t} : In(u, micro) => In(u, queue)
      /\ \A r : micro = <<r>> => r = t
  BY FirstMicrotask
<1>2. place[t] = "woken" /\ UNCHANGED <<active, inProgress, requested, exclusiveQueue, behind>>
  BY DEF Retest, flags
<1>3. \A r \in Rebuilds : ~behind[r] => place[r] # "turn"
  BY <1>1, <1>2 DEF CoordinationInv, FirstOK
<1>4. CASE predicate
  <2>1. micro' = Append(queue, t) /\ place' = [place EXCEPT ![t] = "enter"] /\ UNCHANGED waiters
    BY <1>4 DEF Retest, WaitUntil
  <2>2. (t \in Live => MayShare) /\ (t \in Rebuilds => MayExclude)
    BY <1>4, CoordinationAssumption
  <2> HIDE DEF t, queue
  <2>3. QED
    BY <1>1, <1>2, <1>3, <2>1, <2>2, ReadyInv
<1>5. CASE ~predicate
  <2>1. waiters' = Append(waiters, t) /\ place' = [place EXCEPT ![t] = "waiting"] /\ micro' = queue
    BY <1>5 DEF Retest, WaitUntil
  <2> HIDE DEF t, queue
  <2>2. QED
    BY <1>1, <1>2, <1>3, <2>1, WaitInv
<1>6. QED
  BY <1>4, <1>5

\* A live projection enters only if no rebuild that came first has had its turn.
LEMMA EnterSharedInv ==
    ASSUME CoordinationInv, micro # <<>>, NEW l \in Live, l = Head(micro), EnterShared(l)
    PROVE  CoordinationInv'
<1>1. Types /\ ActiveOK /\ WaitersOK /\ MicroOK /\ QueueOK /\ FirstOK
  BY DEF CoordinationInv
<1>2. /\ place[l] = "enter" /\ active' = active + 1 /\ place' = [place EXCEPT ![l] = "work"]
      /\ micro' = Tail(micro)
      /\ UNCHANGED <<inProgress, requested, exclusiveQueue, waiters, behind>>
  BY DEF EnterShared
<1>3. /\ l \in Tasks /\ Tail(micro) \in Seq(Tasks)
      /\ \A u \in Tasks \ {l} : In(u, micro) => In(u, Tail(micro))
      /\ \A r : micro = <<r>> => r = l
  BY FirstMicrotask
<1>4. /\ place'[l] = "work" /\ place' \in [Tasks -> Places]
      /\ \A u \in Tasks : u # l => place'[u] = place[u]
  BY <1>1, <1>2, <1>3 DEF Types, Places
<1>5. Types'
  BY <1>1, <1>2, <1>3, <1>4 DEF Types
<1>6. ActiveOK'
  <2>1. Working' = Working \cup {l} /\ l \notin Working
    BY <1>2, <1>4 DEF Working, Tasks
  <2>2. IsFiniteSet(Working)
    BY CoordinationAssumption, FS_Subset DEF Working
  <2>3. Cardinality(Working \cup {l}) = Cardinality(Working) + 1
    BY <2>1, <2>2, FS_AddElement
  <2>4. QED
    BY <1>1, <1>2, <2>1, <2>3 DEF ActiveOK
<1>7. WaitersOK'
  BY <1>1, <1>2, <1>4 DEF WaitersOK, In
<1>8. MicroOK'
  <2>1. ASSUME NEW u \in Tasks, place'[u] \in {"turn", "woken", "enter"} PROVE In(u, micro')
    BY <1>1, <1>2, <1>3, <1>4, <2>1 DEF MicroOK
  <2>2. QED
    BY <2>1 DEF MicroOK, In
<1>9. l \notin Rebuilds /\ \A r \in Rebuilds : r \in Tasks /\ place'[r] = place[r]
  BY <1>4, CoordinationAssumption DEF Tasks
<1>10. QueueOK'
  BY <1>1, <1>2, <1>9, QueueKept
<1>11. FirstOK'
  <2>1. ASSUME NEW r \in Rebuilds, ~behind[r] PROVE place[r] \in {"idle", "queued"}
    <3>1. place[r] # "turn"
      BY <1>1, <1>3, <1>9, <2>1 DEF FirstOK
    <3>2. place[r] \notin {"waiting", "woken", "enter", "work"}
      BY <1>1, <1>2, <2>1 DEF FirstOK
    <3>3. QED
      BY <1>1, <1>9, <3>1, <3>2 DEF Types, Places
  <2>2. QED
    BY <1>1, <1>2, <1>9, <2>1 DEF FirstOK
<1>12. QED
  BY <1>5, <1>6, <1>7, <1>8, <1>10, <1>11 DEF CoordinationInv

LEMMA FinishSharedInv ==
    ASSUME CoordinationInv, NEW l \in Live, FinishShared(l)
    PROVE  CoordinationInv'
<1>1. Types /\ ActiveOK /\ WaitersOK /\ MicroOK /\ QueueOK /\ FirstOK
  BY DEF CoordinationInv
<1>2. /\ micro = <<>> /\ place[l] = "work" /\ active' = active - 1
      /\ micro' = micro \o waiters /\ waiters' = <<>> /\ place' = Woken([place EXCEPT ![l] = "idle"])
      /\ UNCHANGED <<inProgress, requested, exclusiveQueue, behind>>
  BY DEF FinishShared, NotifyWaiters
<1>3. l \in Tasks /\ ~In(l, waiters)
  BY <1>1, <1>2 DEF Tasks, WaitersOK
<1>4. \A u \in Tasks : place'[u] = IF In(u, waiters) THEN "woken" ELSE IF u = l THEN "idle" ELSE place[u]
  <2>1. ASSUME NEW u \in Tasks
        PROVE  place'[u] = IF In(u, waiters) THEN "woken" ELSE [place EXCEPT ![l] = "idle"][u]
    BY <1>1, <1>2, WokenLabel
  <2>2. QED
    BY <1>1, <2>1 DEF Types
<1>5. place' \in [Tasks -> Places]
  <2>1. DOMAIN place' = Tasks /\ place' = [u \in Tasks |-> place'[u]]
    BY <1>2 DEF Woken
  <2>2. \A u \in Tasks : place'[u] \in Places
    BY <1>1, <1>4 DEF Types, Places
  <2>3. QED
    BY <2>1, <2>2
<1>6. micro' \in Seq(Tasks) /\ \A u \in Tasks : In(u, micro') <=> In(u, waiters)
  BY <1>1, <1>2, InConcat, InEmpty DEF Types
<1>7. Types'
  BY <1>1, <1>2, <1>5, <1>6 DEF Types
<1>8. \A u \in Tasks : In(u, waiters) => place[u] = "waiting"
  BY <1>1 DEF WaitersOK
<1>9. ActiveOK' /\ Working' \subseteq Working
  <2>1. Working' = Working \ {l} /\ l \in Working
    BY <1>2, <1>3, <1>4, <1>8 DEF Working, Tasks
  <2>2. IsFiniteSet(Working)
    BY CoordinationAssumption, FS_Subset DEF Working
  <2>3. Cardinality(Working \ {l}) = Cardinality(Working) - 1
    BY <2>1, <2>2, FS_RemoveElement
  <2>4. QED
    BY <1>1, <1>2, <2>1, <2>3 DEF ActiveOK
<1>10. WaitersOK'
  BY <1>2, InEmpty DEF WaitersOK, In
<1>11. MicroOK'
  <2>1. ASSUME NEW u \in Tasks, place'[u] \in {"turn", "woken", "enter"} PROVE In(u, micro')
    <3>1. place[u] \notin {"turn", "woken", "enter"}
      BY <1>2, NothingReady
    <3>2. QED
      BY <1>4, <1>6, <2>1, <3>1
  <2>2. QED
    BY <2>1 DEF MicroOK, In
<1>12. \A r \in Rebuilds :
          r \in Tasks /\ (place'[r] = place[r] \/ (place[r] = "waiting" /\ place'[r] = "woken"))
  BY <1>4, <1>8, CoordinationAssumption DEF Tasks
<1>13. QueueOK'
  BY <1>1, <1>2, <1>12, QueueKept
<1>14. FirstOK'
  <2>1. \A r \in Rebuilds : place[r] \in {"idle", "queued", "waiting", "work"}
    BY <1>2, <1>12, NothingReady
  <2>2. \A k \in Live : place'[k] # "enter"
    BY <1>2, <1>4, NothingReady DEF Tasks
  <2>3. QED
    BY <1>1, <1>2, <1>9, <1>12, <2>1, <2>2 DEF FirstOK
<1>15. QED
  BY <1>7, <1>9, <1>10, <1>11, <1>13, <1>14 DEF CoordinationInv

-----------------------------------------------------------------------------
(* runExclusive *)

LEMMA CallExclusiveInv ==
    ASSUME CoordinationInv, NEW r \in Rebuilds, CallExclusive(r)
    PROVE  CoordinationInv'
<1> DEFINE label == IF exclusiveQueue = <<>> THEN "turn" ELSE "queued"
<1>1. Types /\ ActiveOK /\ WaitersOK /\ MicroOK /\ QueueOK /\ FirstOK
  BY DEF CoordinationInv
<1>2. /\ micro = <<>> /\ place[r] = "idle" /\ exclusiveQueue' = Append(exclusiveQueue, r)
      /\ behind' = [behind EXCEPT ![r] = exclusiveQueue # <<>>]
      /\ place' = [place EXCEPT ![r] = label]
      /\ UNCHANGED <<active, inProgress, requested, waiters>>
  BY DEF CallExclusive, flags
<1>3. micro' = IF exclusiveQueue = <<>> THEN <<r>> ELSE <<>>
  BY <1>2 DEF CallExclusive
<1>4. r \in Tasks /\ r \notin Live
  BY CoordinationAssumption DEF Tasks
<1>5. /\ place'[r] = label /\ place' \in [Tasks -> Places]
      /\ \A u \in Tasks : u # r => place'[u] = place[u]
  BY <1>1, <1>2, <1>4 DEF Types, Places
<1>6. /\ behind' \in [Rebuilds -> BOOLEAN] /\ behind'[r] = (exclusiveQueue # <<>>)
      /\ \A q \in Rebuilds : q # r => behind'[q] = behind[q]
  BY <1>1, <1>2 DEF Types
<1>7. /\ exclusiveQueue \in Seq(Rebuilds) /\ Len(exclusiveQueue) \in Nat
      /\ \A i \in 1..Len(exclusiveQueue) : exclusiveQueue[i] \in Rebuilds
      /\ exclusiveQueue = <<>> <=> Len(exclusiveQueue) = 0
  BY <1>1, EmptySeq DEF Types
<1>8. /\ exclusiveQueue' \in Seq(Rebuilds) /\ Len(exclusiveQueue') = Len(exclusiveQueue) + 1
      /\ \A i \in 1..Len(exclusiveQueue) : exclusiveQueue'[i] = exclusiveQueue[i]
      /\ exclusiveQueue'[Len(exclusiveQueue) + 1] = r
  BY <1>2, <1>7, AppendProperties
<1>9. Types'
  <2>1. micro' \in Seq(Tasks)
    <3>1. <<r>> \in Seq(Tasks) /\ <<>> \in Seq(Tasks)
      BY <1>4
    <3>2. QED
      BY <1>3, <3>1
  <2>2. QED
    BY <1>1, <1>2, <1>5, <1>6, <1>8, <2>1 DEF Types
<1>10. ActiveOK' /\ Working' = Working
  BY <1>1, <1>2, <1>4, <1>5, CountKept DEF Tasks
<1>11. WaitersOK'
  BY <1>1, <1>2, <1>5 DEF WaitersOK, In
<1>12. MicroOK'
  <2>1. ASSUME NEW u \in Tasks, place'[u] \in {"turn", "woken", "enter"} PROVE In(u, micro')
    <3>1. u = r /\ exclusiveQueue = <<>>
      BY <1>2, <1>5, <2>1, NothingReady
    <3>2. QED
      BY <1>3, <3>1, InOne
  <2>2. QED
    BY <2>1 DEF MicroOK, In
<1>13. \A i \in 1..Len(exclusiveQueue) : exclusiveQueue[i] # r /\ place[exclusiveQueue[i]] # "idle"
  BY <1>1, <1>2, <1>7 DEF QueueOK
<1>14. QueueOK'
  <2>1. ASSUME NEW i \in 1..Len(exclusiveQueue'), NEW j \in 1..Len(exclusiveQueue'),
               exclusiveQueue'[i] = exclusiveQueue'[j]
        PROVE  i = j
    <3>1. CASE i \in 1..Len(exclusiveQueue) /\ j \in 1..Len(exclusiveQueue)
      BY <1>1, <1>8, <2>1, <3>1 DEF QueueOK
    <3>2. CASE ~(i \in 1..Len(exclusiveQueue) /\ j \in 1..Len(exclusiveQueue))
      BY <1>7, <1>8, <1>13, <2>1, <3>2
    <3>3. QED
      BY <3>1, <3>2
  <2>2. ASSUME NEW i \in 1..Len(exclusiveQueue')
        PROVE  /\ i > 1 => place'[exclusiveQueue'[i]] = "queued"
               /\ i = 1 => place'[exclusiveQueue'[i]] \notin {"idle", "queued"}
    <3>1. CASE i \in 1..Len(exclusiveQueue)
      <4>1. /\ exclusiveQueue'[i] = exclusiveQueue[i] /\ exclusiveQueue[i] \in Tasks
            /\ exclusiveQueue[i] # r
        BY <1>7, <1>8, <1>13, <3>1 DEF Tasks
      <4>2. place'[exclusiveQueue'[i]] = place[exclusiveQueue[i]]
        BY <1>5, <4>1
      <4>3. QED
        BY <1>1, <3>1, <4>2 DEF QueueOK
    <3>2. CASE i = Len(exclusiveQueue) + 1
      <4>1. place'[exclusiveQueue'[i]] = label
        BY <1>5, <1>8, <3>2
      <4>2. QED
        BY <1>7, <3>2, <4>1
    <3>3. QED
      BY <1>7, <1>8, <3>1, <3>2
  <2>3. ASSUME NEW q \in Rebuilds, place'[q] \notin {"idle", "queued"}
        PROVE  1 \in 1..Len(exclusiveQueue') /\ exclusiveQueue'[1] = q
    <3>1. q \in Tasks
      BY DEF Tasks
    <3>2. CASE q = r
      BY <1>5, <1>7, <1>8, <2>3, <3>2
    <3>3. CASE q # r
      <4>1. 1 \in 1..Len(exclusiveQueue) /\ exclusiveQueue[1] = q
        BY <1>1, <1>5, <2>3, <3>1, <3>3 DEF QueueOK
      <4>2. QED
        BY <1>7, <1>8, <4>1
    <3>4. QED
      BY <3>2, <3>3
  <2>4. QED
    BY <2>1, <2>2, <2>3 DEF QueueOK
<1>15. FirstOK'
  <2>1. ASSUME NEW q \in Rebuilds
        PROVE  /\ place'[q] = "queued" => behind'[q]
               /\ ~behind'[q] /\ place'[q] = "turn" => micro' = <<q>>
               /\ ~behind'[q] /\ place'[q] \in {"waiting", "woken", "enter", "work"} =>
                      requested' /\ \A l \in Live : place'[l] # "enter"
               /\ ~behind'[q] /\ place'[q] \in {"enter", "work"} => Working' = {}
    <3>1. q \in Tasks /\ \A l \in Live : place'[l] = place[l]
      BY <1>4, <1>5 DEF Tasks
    <3>2. CASE q = r
      BY <1>3, <1>5, <1>6, <3>2
    <3>3. CASE q # r
      <4>1. place'[q] = place[q] /\ behind'[q] = behind[q] /\ place[q] # "turn"
        BY <1>2, <1>5, <1>6, <3>1, <3>3, NothingReady
      <4>2. QED
        BY <1>1, <1>2, <1>10, <3>1, <4>1 DEF FirstOK
    <3>4. QED
      BY <3>2, <3>3
  <2>2. QED
    BY <2>1 DEF FirstOK
<1>16. QED
  BY <1>9, <1>10, <1>11, <1>12, <1>14, <1>15 DEF CoordinationInv

\* From its turn on, a rebuild that came first keeps live projections out.
LEMMA TakeTurnInv ==
    ASSUME CoordinationInv, micro # <<>>, NEW r \in Rebuilds, r = Head(micro), TakeTurn(r)
    PROVE  CoordinationInv'
<1> DEFINE queue == Tail(micro) \o waiters
           label == IF MayExclude THEN "enter" ELSE "waiting"
<1>1. Types /\ ActiveOK /\ WaitersOK /\ MicroOK /\ QueueOK /\ FirstOK
  BY DEF CoordinationInv
<1>2. /\ place[r] = "turn" /\ requested' = TRUE /\ place' = [Woken(place) EXCEPT ![r] = label]
      /\ micro' = IF MayExclude THEN Append(queue, r) ELSE queue
      /\ waiters' = IF MayExclude THEN <<>> ELSE <<r>>
      /\ UNCHANGED <<active, inProgress, exclusiveQueue, behind>>
  BY DEF TakeTurn
<1>3. /\ r \in Tasks /\ r \notin Live /\ Tail(micro) \in Seq(Tasks)
      /\ \A u \in Tasks \ {r} : In(u, micro) => In(u, Tail(micro))
  BY FirstMicrotask, CoordinationAssumption
<1>4. queue \in Seq(Tasks) /\ \A u \in Tasks : In(u, queue) <=> In(u, Tail(micro)) \/ In(u, waiters)
  BY <1>1, <1>3, InConcat DEF Types
<1> HIDE DEF queue
<1>5. micro' \in Seq(Tasks) /\ \A u \in Tasks : In(u, queue) => In(u, micro')
  BY <1>2, <1>3, <1>4, InAppend
<1>6. MayExclude => In(r, micro')
  BY <1>2, <1>3, <1>4, InAppend
<1>7. waiters' \in Seq(Tasks) /\ \A u \in Tasks : In(u, waiters') => u = r /\ ~MayExclude
  <2>1. <<r>> \in Seq(Tasks) /\ <<>> \in Seq(Tasks)
    BY <1>3
  <2>2. QED
    BY <1>2, <2>1, InEmpty, InOne
<1>8. /\ place'[r] = label
      /\ \A u \in Tasks : u # r => place'[u] = IF In(u, waiters) THEN "woken" ELSE place[u]
  <2>1. DOMAIN Woken(place) = Tasks
    BY DEF Woken
  <2>2. \A u \in Tasks : Woken(place)[u] = IF In(u, waiters) THEN "woken" ELSE place[u]
    BY <1>1, WokenLabel
  <2>3. QED
    BY <1>2, <1>3, <2>1, <2>2
<1>9. place' \in [Tasks -> Places]
  <2>1. place' = [u \in Tasks |-> place'[u]]
    BY <1>2 DEF Woken
  <2>2. \A u \in Tasks : place'[u] \in Places
    BY <1>1, <1>8 DEF Types, Places
  <2>3. QED
    BY <2>1, <2>2
<1>10. Types'
  BY <1>1, <1>2, <1>5, <1>7, <1>9 DEF Types
<1>11. \A u \in Tasks : In(u, waiters) => place[u] = "waiting"
  BY <1>1 DEF WaitersOK
<1>12. ActiveOK' /\ Working' = Working
  <2>1. \A l \in Live : place'[l] = "work" <=> place[l] = "work"
    BY <1>3, <1>8, <1>11 DEF Tasks
  <2>2. QED
    BY <1>1, <1>2, <2>1, CountKept
<1>13. WaitersOK'
  <2>1. \A u \in Tasks : In(u, waiters') => place'[u] = "waiting"
    BY <1>7, <1>8
  <2>2. QED
    BY <2>1 DEF WaitersOK, In
<1>14. MicroOK'
  <2>1. ASSUME NEW u \in Tasks, place'[u] \in {"turn", "woken", "enter"} PROVE In(u, micro')
    <3>1. CASE u = r
      BY <1>6, <1>8, <2>1, <3>1
    <3>2. CASE u # r
      BY <1>1, <1>3, <1>4, <1>5, <1>8, <2>1, <3>2 DEF MicroOK
    <3>3. QED
      BY <3>1, <3>2
  <2>2. QED
    BY <2>1 DEF MicroOK, In
<1>15. \A q \in Rebuilds :
          \/ place'[q] = place[q]
          \/ {place[q], place'[q]} \cap {"idle", "queued"} = {}
  BY <1>2, <1>8, <1>11 DEF Tasks
<1>16. QueueOK'
  BY <1>1, <1>2, <1>15, QueueKept
<1>17. FirstOK'
  <2>1. ASSUME NEW q \in Rebuilds
        PROVE  /\ place'[q] = "queued" => behind'[q]
               /\ ~behind'[q] /\ place'[q] = "turn" => micro' = <<q>>
               /\ ~behind'[q] /\ place'[q] \in {"waiting", "woken", "enter", "work"} =>
                      requested' /\ \A l \in Live : place'[l] # "enter"
               /\ ~behind'[q] /\ place'[q] \in {"enter", "work"} => Working' = {}
    <3>1. CASE q = r
      <4>1. ASSUME ~behind[r], NEW l \in Live PROVE place'[l] # "enter"
        <5>1. micro = <<r>> /\ l \in Tasks /\ l # r
          BY <1>1, <1>2, <1>3, <4>1 DEF FirstOK, Tasks
        <5>2. place[l] # "enter"
          BY <1>1, <5>1, InOne DEF MicroOK
        <5>3. QED
          BY <1>8, <5>1, <5>2
      <4>2. MayExclude => Working = {}
        BY <1>1, NobodyWorks DEF MayExclude
      <4>3. QED
        BY <1>2, <1>8, <1>12, <3>1, <4>1, <4>2
    <3>2. CASE q # r
      <4>1. q \in Tasks /\ place[q] \in {"idle", "queued"}
        BY <1>1, <1>2, <3>2 DEF QueueOK, Tasks
      <4>2. place'[q] = place[q]
        BY <1>8, <1>11, <3>2, <4>1
      <4>3. QED
        BY <1>1, <1>2, <4>1, <4>2 DEF FirstOK
    <3>3. QED
      BY <3>1, <3>2
  <2>2. QED
    BY <2>1 DEF FirstOK
<1>18. QED
  BY <1>10, <1>12, <1>13, <1>14, <1>16, <1>17 DEF CoordinationInv

LEMMA EnterExclusiveInv ==
    ASSUME CoordinationInv, micro # <<>>, NEW r \in Rebuilds, r = Head(micro), EnterExclusive(r)
    PROVE  CoordinationInv'
<1>1. Types /\ ActiveOK /\ WaitersOK /\ MicroOK /\ QueueOK /\ FirstOK
  BY DEF CoordinationInv
<1>2. /\ place[r] = "enter" /\ inProgress' = TRUE /\ place' = [place EXCEPT ![r] = "work"]
      /\ micro' = Tail(micro)
      /\ UNCHANGED <<active, requested, exclusiveQueue, waiters, behind>>
  BY DEF EnterExclusive
<1>3. /\ r \in Tasks /\ r \notin Live /\ Tail(micro) \in Seq(Tasks)
      /\ \A u \in Tasks \ {r} : In(u, micro) => In(u, Tail(micro))
  BY FirstMicrotask, CoordinationAssumption
<1>4. /\ place'[r] = "work" /\ place' \in [Tasks -> Places]
      /\ \A u \in Tasks : u # r => place'[u] = place[u]
  BY <1>1, <1>2, <1>3 DEF Types, Places
<1>5. Types'
  BY <1>1, <1>2, <1>3, <1>4 DEF Types
<1>6. ActiveOK' /\ Working' = Working
  BY <1>1, <1>2, <1>3, <1>4, CountKept DEF Tasks
<1>7. WaitersOK'
  BY <1>1, <1>2, <1>4 DEF WaitersOK, In
<1>8. MicroOK'
  <2>1. ASSUME NEW u \in Tasks, place'[u] \in {"turn", "woken", "enter"} PROVE In(u, micro')
    BY <1>1, <1>2, <1>3, <1>4, <2>1 DEF MicroOK
  <2>2. QED
    BY <2>1 DEF MicroOK, In
<1>9. QueueOK'
  <2>1. ASSUME NEW q \in Rebuilds
        PROVE  place'[q] = place[q] \/ {place[q], place'[q]} \cap {"idle", "queued"} = {}
    BY <1>2, <1>4 DEF Tasks
  <2>2. QED
    BY <1>1, <1>2, <2>1, QueueKept
<1>10. FirstOK'
  <2>1. \A q \in Rebuilds : q # r => place[q] \in {"idle", "queued"} /\ place'[q] = place[q]
    BY <1>1, <1>2, <1>4 DEF QueueOK, Tasks
  <2>2. \A l \in Live : place'[l] = place[l]
    BY <1>3, <1>4 DEF Tasks
  <2>3. QED
    BY <1>1, <1>2, <1>4, <1>6, <2>1, <2>2 DEF FirstOK
<1>11. QED
  BY <1>5, <1>6, <1>7, <1>8, <1>9, <1>10 DEF CoordinationInv

\* The rebuild that is released had to wait, so nothing is promised to it.
LEMMA FinishExclusiveInv ==
    ASSUME CoordinationInv, NEW r \in Rebuilds, FinishExclusive(r)
    PROVE  CoordinationInv'
<1> DEFINE rest == Tail(exclusiveQueue)
           woken == Woken([place EXCEPT ![r] = "idle"])
<1>1. Types /\ ActiveOK /\ WaitersOK /\ MicroOK /\ QueueOK /\ FirstOK
  BY DEF CoordinationInv
<1>2. /\ micro = <<>> /\ place[r] = "work" /\ inProgress' = FALSE /\ requested' = FALSE
      /\ exclusiveQueue' = rest /\ waiters' = <<>>
      /\ micro' = IF rest = <<>> THEN waiters ELSE Append(waiters, Head(rest))
      /\ place' = IF rest = <<>> THEN woken ELSE [woken EXCEPT ![Head(rest)] = "turn"]
      /\ UNCHANGED <<active, behind>>
  BY DEF FinishExclusive
<1>3. r \in Tasks /\ r \notin Live /\ exclusiveQueue \in Seq(Rebuilds) /\ exclusiveQueue[1] = r
      /\ 1 \in 1..Len(exclusiveQueue) /\ Len(exclusiveQueue) \in Nat
  BY <1>1, <1>2, CoordinationAssumption DEF Types, QueueOK, Tasks
<1>4. exclusiveQueue # <<>>
  BY <1>3
<1>5. /\ rest \in Seq(Rebuilds) /\ Len(rest) = Len(exclusiveQueue) - 1
      /\ \A i \in 1..Len(rest) : rest[i] = exclusiveQueue[i + 1]
  BY <1>3, <1>4, HeadTailProperties
<1> HIDE DEF rest
<1>6. ASSUME NEW i \in 1..Len(rest)
      PROVE  /\ rest[i] \in Rebuilds /\ rest[i] \in Tasks /\ rest[i] # r
             /\ place[rest[i]] = "queued" /\ ~In(rest[i], waiters)
             /\ \A j \in 1..Len(rest) : rest[i] = rest[j] => i = j
  <2>1. i + 1 \in 1..Len(exclusiveQueue) /\ i + 1 > 1 /\ i + 1 # 1
    BY <1>3, <1>5
  <2>2. rest[i] \in Rebuilds /\ rest[i] = exclusiveQueue[i + 1]
    BY <1>5
  <2>3. place[rest[i]] = "queued" /\ rest[i] # r
    BY <1>1, <1>3, <2>1, <2>2 DEF QueueOK
  <2>4. ASSUME NEW j \in 1..Len(rest), rest[i] = rest[j] PROVE i = j
    <3>1. j + 1 \in 1..Len(exclusiveQueue) /\ rest[j] = exclusiveQueue[j + 1]
      BY <1>3, <1>5
    <3>2. i + 1 = j + 1
      BY <1>1, <2>1, <2>2, <2>4, <3>1 DEF QueueOK
    <3>3. QED
      BY <3>2
  <2>5. QED
    BY <1>1, <2>2, <2>3, <2>4 DEF WaitersOK, Tasks
<1>7. rest = <<>> \/ (rest # <<>> /\ 1 \in 1..Len(rest) /\ Head(rest) = rest[1])
  BY <1>3, <1>5, HeadTailProperties, EmptySeq
<1>8. DOMAIN woken = Tasks
      /\ \A u \in Tasks : woken[u] = IF In(u, waiters) THEN "woken" ELSE IF u = r THEN "idle" ELSE place[u]
  <2>1. DOMAIN woken = Tasks
    BY DEF Woken
  <2>2. ASSUME NEW u \in Tasks
        PROVE  woken[u] = IF In(u, waiters) THEN "woken" ELSE [place EXCEPT ![r] = "idle"][u]
    BY <1>1, WokenLabel
  <2>3. QED
    BY <1>1, <2>1, <2>2 DEF Types
<1>9. \A u \in Tasks : In(u, waiters) => place[u] = "waiting"
  BY <1>1 DEF WaitersOK
<1>10. \A u \in Tasks : place'[u] = IF rest # <<>> /\ u = rest[1] THEN "turn"
                                 ELSE IF In(u, waiters) THEN "woken"
                                 ELSE IF u = r THEN "idle" ELSE place[u]
  <2> HIDE DEF woken
  <2>1. QED
    BY <1>2, <1>6, <1>7, <1>8
<1>11. place' \in [Tasks -> Places]
  <2>1. place' = [u \in Tasks |-> place'[u]]
    BY <1>2 DEF Woken
  <2>2. \A u \in Tasks : place'[u] \in Places
    BY <1>1, <1>10 DEF Types, Places
  <2>3. QED
    BY <2>1, <2>2
<1> HIDE DEF woken
<1>12. /\ micro' \in Seq(Tasks) /\ \A u \in Tasks : In(u, waiters) => In(u, micro')
       /\ rest # <<>> => In(rest[1], micro')
  <2>1. waiters \in Seq(Tasks)
    BY <1>1 DEF Types
  <2>2. CASE rest = <<>>
    BY <1>2, <2>1, <2>2
  <2>3. CASE rest # <<>>
    <3>1. Head(rest) = rest[1] /\ rest[1] \in Tasks /\ micro' = Append(waiters, rest[1])
      BY <1>2, <1>6, <1>7, <2>3
    <3>2. QED
      BY <2>1, <2>3, <3>1, InAppend
  <2>4. QED
    BY <2>2, <2>3
<1>13. Types'
  <2>1. <<>> \in Seq(Tasks)
    OBVIOUS
  <2>2. QED
    BY <1>1, <1>2, <1>5, <1>11, <1>12, <2>1 DEF Types
<1>14. ActiveOK'
  <2>1. \A l \in Live : l \in Tasks /\ l # r /\ (rest # <<>> => l # rest[1])
    BY <1>3, <1>6, <1>7, CoordinationAssumption DEF Tasks
  <2>2. \A l \in Live : place'[l] = "work" <=> place[l] = "work"
    BY <1>9, <1>10, <2>1
  <2>3. QED
    BY <1>1, <1>2, <2>2, CountKept
<1>15. WaitersOK'
  BY <1>2, InEmpty DEF WaitersOK, In
<1>16. MicroOK'
  <2>1. ASSUME NEW u \in Tasks, place'[u] \in {"turn", "woken", "enter"} PROVE In(u, micro')
    <3>1. place[u] \notin {"turn", "woken", "enter"}
      BY <1>2, NothingReady
    <3>2. QED
      BY <1>10, <1>12, <2>1, <3>1
  <2>2. QED
    BY <2>1 DEF MicroOK, In
<1>17. \A q \in Rebuilds : q \in Tasks /\ (q # r => place[q] \in {"idle", "queued"})
  BY <1>1, <1>2 DEF QueueOK, Tasks
<1>18. \A q \in Rebuilds : place'[q] = IF rest # <<>> /\ q = rest[1] THEN "turn"
                                    ELSE IF q = r THEN "idle" ELSE place[q]
  BY <1>2, <1>9, <1>10, <1>17
<1>19. QueueOK'
  <2>1. ASSUME NEW i \in 1..Len(rest)
        PROVE  /\ i > 1 => place'[rest[i]] = "queued"
               /\ i = 1 => place'[rest[i]] \notin {"idle", "queued"}
    <3>1. CASE i = 1
      BY <1>6, <1>7, <1>18, <3>1
    <3>2. CASE i > 1
      <4>1. rest # <<>> /\ rest[i] # rest[1]
        BY <1>6, <1>7, <3>2
      <4>2. QED
        BY <1>6, <1>18, <3>2, <4>1
    <3>3. QED
      BY <3>1, <3>2
  <2>2. ASSUME NEW q \in Rebuilds, place'[q] \notin {"idle", "queued"}
        PROVE  1 \in 1..Len(rest) /\ rest[1] = q
    BY <1>7, <1>17, <1>18, <2>2
  <2>3. \A i, j \in 1..Len(rest) : rest[i] = rest[j] => i = j
    BY <1>6
  <2>4. QED
    BY <1>2, <2>1, <2>2, <2>3 DEF QueueOK
<1>20. FirstOK'
  <2>1. ASSUME NEW q \in Rebuilds
        PROVE  /\ place'[q] \in {"idle", "queued", "turn"}
               /\ place'[q] \in {"queued", "turn"} => behind[q]
    <3>1. CASE rest # <<>> /\ q = rest[1]
      BY <1>1, <1>6, <1>7, <1>18, <3>1 DEF FirstOK
    <3>2. CASE ~(rest # <<>> /\ q = rest[1])
      BY <1>1, <1>17, <1>18, <3>2 DEF FirstOK
    <3>3. QED
      BY <3>1, <3>2
  <2>2. QED
    BY <1>2, <2>1 DEF FirstOK
<1>21. QED
  BY <1>13, <1>14, <1>15, <1>16, <1>19, <1>20 DEF CoordinationInv

-----------------------------------------------------------------------------
(* The theorems *)

LEMMA CoordinationNextInv == CoordinationInv /\ [CoordinationNext]_coordination => CoordinationInv'
<1> SUFFICES ASSUME CoordinationInv, [CoordinationNext]_coordination PROVE CoordinationInv'
  OBVIOUS
<1>1. CASE RunMicrotask
  <2>1. micro # <<>>
    BY <1>1 DEF RunMicrotask
  <2>2. CASE Retest(Head(micro))
    BY <2>1, <2>2, RetestInv
  <2>3. CASE Head(micro) \in Live /\ EnterShared(Head(micro))
    BY <2>1, <2>3, EnterSharedInv
  <2>4. CASE Head(micro) \in Rebuilds /\ TakeTurn(Head(micro))
    BY <2>1, <2>4, TakeTurnInv
  <2>5. CASE Head(micro) \in Rebuilds /\ EnterExclusive(Head(micro))
    BY <2>1, <2>5, EnterExclusiveInv
  <2>6. QED
    BY <1>1, <2>2, <2>3, <2>4, <2>5 DEF RunMicrotask
<1>2. ASSUME NEW l \in Live, CallShared(l) PROVE CoordinationInv'
  BY <1>2, CallSharedInv
<1>3. ASSUME NEW r \in Rebuilds, CallExclusive(r) PROVE CoordinationInv'
  BY <1>3, CallExclusiveInv
<1>4. ASSUME NEW t \in Tasks, Finish(t) PROVE CoordinationInv'
  BY <1>4, FinishSharedInv, FinishExclusiveInv DEF Finish
<1>5. CASE UNCHANGED coordination
  BY <1>5 DEF coordination, CoordinationInv, Types, ActiveOK, Working, WaitersOK, MicroOK, In, QueueOK, FirstOK
<1>6. QED
  BY <1>1, <1>2, <1>3, <1>4, <1>5 DEF CoordinationNext

\* The inductive invariant.
THEOREM CoordinationInvariant == CoordinationSpec => []CoordinationInv
<1>1. QED
  BY CoordinationInitInv, CoordinationNextInv, PTL DEF CoordinationSpec

\* The counter never goes below zero: every release was preceded by its entry.
THEOREM CoordinationTypeCorrect == CoordinationSpec => []CoordinationTypeOK
<1>1. CoordinationInv => CoordinationTypeOK
  <2> SUFFICES ASSUME CoordinationInv PROVE CoordinationTypeOK
    OBVIOUS
  <2>1. IsFiniteSet(Working)
    BY CoordinationAssumption, FS_Subset DEF Working
  <2>2. active \in Nat
    BY <2>1, FS_CardinalityType DEF CoordinationInv, ActiveOK
  <2>3. QED
    BY <2>2 DEF CoordinationInv, Types, CoordinationTypeOK
<1>2. QED
  BY <1>1, CoordinationInvariant, PTL

\* runExclusive: two rebuilds of a process never run at the same time.
THEOREM RebuildsNeverOverlap == CoordinationSpec => []RebuildsAreSerial
<1>1. CoordinationInv => RebuildsAreSerial
  BY DEF CoordinationInv, QueueOK, RebuildsAreSerial
<1>2. QED
  BY <1>1, CoordinationInvariant, PTL

\* A rebuild that did not queue behind another one has no live projection beside it,
\* although runShared and runExclusive test first and act a microtask later.
THEOREM FirstRebuildUndisturbed == CoordinationSpec => []FirstRebuildAlone
<1>1. CoordinationInv => FirstRebuildAlone
  <2> SUFFICES ASSUME CoordinationInv, NEW r \in Rebuilds, AtWork(r) PROVE behind[r]
    BY DEF FirstRebuildAlone
  <2>1. place[r] = "work" /\ Working # {}
    BY DEF AtWork, Working
  <2>2. QED
    BY <2>1 DEF CoordinationInv, FirstOK
<1>2. QED
  BY <1>1, CoordinationInvariant, PTL
=============================================================================
