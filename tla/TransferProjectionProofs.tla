---------------------- MODULE TransferProjectionProofs ----------------------
(***************************************************************************)
(* TLAPS proofs about TransferProjection, for any number of transfers,     *)
(* consumers and rebuilders, any history the aggregate can have and any    *)
(* clock readings: the projection is well typed; only a reset takes a      *)
(* status away, and otherwise it moves forward; what was handled shows or  *)
(* is being rebuilt; and a row is the replay of its stream under the       *)
(* conditions that RowIsReplay names.                                      *)
(***************************************************************************)
EXTENDS TransferProjection, ProjectionFeedProofs, WellFoundedInduction

-----------------------------------------------------------------------------
(* What an aggregate replays to *)

At(t, n) == [stream |-> t, version |-> n]

\* The place of each status in a transfer's life.
Rank ==
    [s \in TransferStatus \cup {"NONE"} |->
        CASE s = "NONE"                     -> 0
          [] s = "INITIATED"                -> 1
          [] s = "DEBIT_IN_PROGRESS"        -> 2
          [] s = "DEBITED"                  -> 3
          [] s = "CREDIT_IN_PROGRESS"       -> 4
          [] s = "COMPLETED"                -> 5
          [] s = "FAILED"                   -> 6
          [] s = "COMPENSATION_IN_PROGRESS" -> 7
          [] s = "COMPENSATED"              -> 8]

LEMMA RankValues ==
    /\ Rank["NONE"] = 0 /\ Rank["INITIATED"] = 1 /\ Rank["DEBIT_IN_PROGRESS"] = 2
    /\ Rank["DEBITED"] = 3 /\ Rank["CREDIT_IN_PROGRESS"] = 4 /\ Rank["COMPLETED"] = 5
    /\ Rank["FAILED"] = 6 /\ Rank["COMPENSATION_IN_PROGRESS"] = 7 /\ Rank["COMPENSATED"] = 8
BY DEF Rank, TransferStatus

LEMMA RankInjective ==
    ASSUME NEW a \in TransferStatus \cup {"NONE"}, NEW b \in TransferStatus \cup {"NONE"}
    PROVE  Rank[a] \in Nat /\ (Rank[a] = Rank[b] => a = b)
BY RankValues DEF TransferStatus

LEMMA LengthType == ASSUME NEW t \in Streams PROVE Length[t] \in Nat
BY FeedAssumption DEF T!TopicAssumption

LEMMA EventAt ==
    ASSUME NEW e \in T!Events
    PROVE  /\ e.stream \in Streams /\ e.version \in 1..Length[e.stream] /\ e.version \in Nat
           /\ e = At(e.stream, e.version)
BY EventForm DEF At

LEMMA ReplayStep ==
    ASSUME NEW t \in Streams, NEW n \in 1..Length[t]
    PROVE  /\ EventType(At(t, n)) \in TransferEventTypes
           /\ EventType(At(t, n)) = History[t][n].eventType
           /\ History[t][n].stage \in Stages
           /\ Replay[t][n - 1] \in TransferState /\ Replay[t][n] \in TransferState
           /\ CanRaise(Replay[t][n - 1], EventType(At(t, n)))
           /\ Replay[t][n] = TransferWhen(Replay[t][n - 1], EventType(At(t, n)), History[t][n].stage)
<1>1. /\ History[t] \in [1..Length[t] -> [eventType : TransferEventTypes, stage : Stages]]
      /\ Replay[t] \in [0..Length[t] -> TransferState]
      /\ CanRaise(Replay[t][n - 1], History[t][n].eventType)
      /\ Replay[t][n] = TransferWhen(Replay[t][n - 1], History[t][n].eventType, History[t][n].stage)
  BY TransferHistoryAssumption
<1>2. n \in 0..Length[t] /\ n - 1 \in 0..Length[t]
  BY LengthType
<1>3. At(t, n).stream = t /\ At(t, n).version = n
  BY DEF At
<1>4. EventType(At(t, n)) = History[t][n].eventType
  BY <1>3 DEF EventType
<1>5. QED
  BY <1>1, <1>2, <1>4

\* The status the projector writes is the one the aggregate gets to.
LEMMA StatusReplayed ==
    ASSUME NEW t \in Streams, NEW n \in 1..Length[t]
    PROVE  /\ StatusAfter(At(t, n)) = Replay[t][n].status
           /\ Replay[t][n].status \in TransferStatus
           /\ Replay[t][n].status # "NONE"
<1> DEFINE type == EventType(At(t, n))
           old == Replay[t][n - 1]
           new == Replay[t][n]
           after == StatusAfter(At(t, n))
<1>1. /\ type \in TransferEventTypes /\ old \in TransferState
      /\ new = TransferWhen(old, type, History[t][n].stage)
  BY ReplayStep
<1>2. /\ type = "TransferInitiated"           => after = "INITIATED"
      /\ type = "TransferDebitStarted"        => after = "DEBIT_IN_PROGRESS"
      /\ type = "TransferDebited"             => after = "DEBITED"
      /\ type = "TransferCreditStarted"       => after = "CREDIT_IN_PROGRESS"
      /\ type = "TransferCompleted"           => after = "COMPLETED"
      /\ type = "TransferFailed"              => after = "FAILED"
      /\ type = "TransferCompensationStarted" => after = "COMPENSATION_IN_PROGRESS"
      /\ type = "TransferCompensated"         => after = "COMPENSATED"
  BY DEF StatusAfter
<1> HIDE DEF type, old, new, after
<1>3. /\ type = "TransferInitiated"           => new.status = "INITIATED"
      /\ type = "TransferDebitStarted"        => new.status = "DEBIT_IN_PROGRESS"
      /\ type = "TransferDebited"             => new.status = "DEBITED"
      /\ type = "TransferCreditStarted"       => new.status = "CREDIT_IN_PROGRESS"
      /\ type = "TransferCompleted"           => new.status = "COMPLETED"
      /\ type = "TransferFailed"              => new.status = "FAILED"
      /\ type = "TransferCompensationStarted" => new.status = "COMPENSATION_IN_PROGRESS"
      /\ type = "TransferCompensated"         => new.status = "COMPENSATED"
  BY <1>1 DEF TransferWhen, TransferState
<1>4. after = new.status /\ new.status \in TransferStatus /\ new.status # "NONE"
  BY <1>1, <1>2, <1>3 DEF TransferEventTypes, TransferStatus
<1>5. QED
  BY <1>4 DEF after, new

LEMMA RankGrows ==
    ASSUME NEW t \in Streams, NEW n \in 1..Length[t]
    PROVE  Rank[Replay[t][n - 1].status] <= Rank[Replay[t][n].status]
<1> DEFINE type == EventType(At(t, n))
           old == Replay[t][n - 1]
<1>1. /\ type \in TransferEventTypes /\ old \in TransferState /\ CanRaise(old, type)
      /\ Replay[t][n] = TransferWhen(old, type, History[t][n].stage)
  BY ReplayStep
<1> HIDE DEF type, old
<1>2. CASE type = "TransferInitiated"
  BY <1>1, <1>2, RankValues DEF CanRaise, TransferWhen, old
<1>3. CASE type = "TransferDebitStarted"
  BY <1>1, <1>3, RankValues DEF CanRaise, CanStart, TransferWhen, old
<1>4. CASE type = "TransferDebited"
  BY <1>1, <1>4, RankValues DEF CanRaise, CanAdvance, TransferWhen, TransferState, old
<1>5. CASE type = "TransferCreditStarted"
  BY <1>1, <1>5, RankValues DEF CanRaise, CanStart, TransferWhen, old
<1>6. CASE type = "TransferCompleted"
  BY <1>1, <1>6, RankValues DEF CanRaise, CanAdvance, TransferWhen, TransferState, old
<1>7. CASE type = "TransferFailed"
  BY <1>1, <1>7, RankValues DEF CanRaise, CanFail, TransferWhen, old
<1>8. CASE type = "TransferCompensationStarted"
  BY <1>1, <1>8, RankValues DEF CanRaise, CanStart, TransferWhen, TransferState, old
<1>9. CASE type = "TransferCompensated"
  BY <1>1, <1>9, RankValues DEF CanRaise, CanAdvance, TransferWhen, TransferState, old
<1>10. QED
  BY <1>1, <1>2, <1>3, <1>4, <1>5, <1>6, <1>7, <1>8, <1>9 DEF TransferEventTypes

\* TransferInitiated comes first in its stream, and only first.
LEMMA InitiatedIsFirst ==
    ASSUME NEW t \in Streams, NEW n \in 1..Length[t]
    PROVE  EventType(At(t, n)) = "TransferInitiated" <=> n = 1
<1> DEFINE type == EventType(At(t, n))
           old == Replay[t][n - 1]
<1>1. type \in TransferEventTypes /\ old \in TransferState /\ CanRaise(old, type)
  BY ReplayStep
<1>2. type = "TransferInitiated" <=> old.status = "NONE"
  <2> HIDE DEF type, old
  <2>1. type = "TransferInitiated" => old.status = "NONE"
    BY <1>1 DEF CanRaise
  <2>2. old.status = "NONE" => type = "TransferInitiated"
    BY <1>1 DEF CanRaise, CanStart, CanAdvance, CanFail, TransferEventTypes
  <2>3. QED
    BY <2>1, <2>2
<1>3. n = 1 => old.status = "NONE"
  BY TransferHistoryAssumption DEF NewTransfer
<1>4. n # 1 => old.status # "NONE"
  <2>1. n # 1 => n - 1 \in 1..Length[t]
    BY LengthType
  <2>2. QED
    BY <2>1, StatusReplayed
<1>5. QED
  BY <1>2, <1>3, <1>4

-----------------------------------------------------------------------------
(* Induction over the versions, by the least counterexample *)

LEMMA LeastElement ==
    ASSUME NEW S \in SUBSET Nat, S # {}
    PROVE  \E x \in S : \A y \in S : x <= y
<1> DEFINE R == {ss \in Nat \X Nat : ss[1] < ss[2]}
<1>1. IsWellFoundedOn(R, Nat)
  BY ONLY NatLessThanWellFounded DEF OpToRel
<1> HIDE DEF R
<1>2. PICK x \in S : \A y \in S : ~(<<y, x>> \in R)
  BY <1>1, WFMin
<1>3. ASSUME NEW a \in Nat, NEW b \in Nat, a < b PROVE <<a, b>> \in R
  BY <1>3 DEF R
<1>4. ASSUME NEW y \in S PROVE x <= y
  <2>1. x \in Nat /\ y \in Nat
    OBVIOUS
  <2>2. ~(y < x)
    BY <1>2, <1>3, <2>1
  <2>3. QED
    BY <2>1, <2>2
<1>5. QED
  BY <1>4

\* A function that falls from no version to the next falls nowhere.
LEMMA NeverFalls ==
    ASSUME NEW N \in Nat, NEW f \in [0..N -> Nat], \A n \in 1..N : f[n - 1] <= f[n],
           NEW m \in 0..N, NEW n \in 0..N, m <= n
    PROVE  f[m] <= f[n]
<1> SUFFICES ASSUME ~(f[m] <= f[n]) PROVE FALSE
  OBVIOUS
<1> DEFINE S == {k \in m..N : ~(f[m] <= f[k])}
<1>1. S \in SUBSET Nat /\ n \in S
  OBVIOUS
<1>2. PICK x \in S : \A y \in S : x <= y
  BY <1>1, LeastElement
<1>3. x # m /\ x \in 1..N /\ x - 1 \in m..N
  OBVIOUS
<1>4. x - 1 \notin S
  BY <1>2, <1>3
<1>5. QED
  BY <1>3, <1>4

\* A transfer never comes back to a status it has left.
LEMMA StatusesInOrder ==
    ASSUME NEW t \in Streams, NEW m \in 1..Length[t], NEW n \in 1..Length[t], m <= n
    PROVE  Rank[StatusAfter(At(t, m))] <= Rank[StatusAfter(At(t, n))]
<1> DEFINE f == [k \in 0..Length[t] |-> Rank[Replay[t][k].status]]
<1>1. Length[t] \in Nat /\ Replay[t] \in [0..Length[t] -> TransferState]
  BY LengthType, TransferHistoryAssumption
<1>2. f \in [0..Length[t] -> Nat]
  BY <1>1, RankInjective DEF TransferState
<1>3. ASSUME NEW k \in 1..Length[t] PROVE f[k - 1] <= f[k]
  <2>1. k \in 0..Length[t] /\ k - 1 \in 0..Length[t]
    BY <1>1
  <2>2. QED
    BY <2>1, RankGrows
<1>4. f[m] = Rank[StatusAfter(At(t, m))] /\ f[n] = Rank[StatusAfter(At(t, n))]
  BY <1>1, StatusReplayed
<1> HIDE DEF f
<1>5. m \in 0..Length[t] /\ n \in 0..Length[t]
  BY <1>1
<1>6. f[m] <= f[n]
  BY <1>1, <1>2, <1>3, <1>5, NeverFalls
<1>7. QED
  BY <1>4, <1>6

-----------------------------------------------------------------------------
(* What the projector writes *)

\* The transaction ids of the legs started by version n.
LegsAt(t, n) == UNION {LegOf(At(t, k)) : k \in 1..n}

\* The row of version n, given the time of every event.
RowAt(t, n, times) ==
    [exists |-> TRUE, state |-> Replay[t][n], legs |-> LegsAt(t, n),
     updatedAt |-> times[At(t, n)]]

LEMMA LegsGrow ==
    ASSUME NEW t, NEW n \in Nat, n >= 1
    PROVE  LegsAt(t, n) = LegsAt(t, n - 1) \cup LegOf(At(t, n))
<1>1. 1..n = 1..(n - 1) \cup {n}
  OBVIOUS
<1>2. QED
  BY <1>1, Zenon DEF LegsAt

LEMMA NoLegsAtFirst == ASSUME NEW t PROVE LegsAt(t, 0) = {}
<1>1. 1..0 = {}
  OBVIOUS
<1>2. QED
  BY <1>1, Zenon DEF LegsAt

\* Projecting an event over the row of the version before it, or over its own row, gives
\* its row; the first event needs no row.
LEMMA ProjectedReplays ==
    ASSUME NEW t \in Streams, NEW k \in 1..Length[t], NEW row,
           k = 1 \/ row = RowAt(t, k - 1, clock) \/ row = RowAt(t, k, clock)
    PROVE  Projected(row, At(t, k)) = RowAt(t, k, clock)
<1> DEFINE e == At(t, k)
           type == EventType(e)
           base == IF type = "TransferInitiated" THEN NoRow ELSE row
           old == Replay[t][k - 1]
           new == Replay[t][k]
           stage == History[t][k].stage
<1>1. /\ type \in TransferEventTypes /\ old \in TransferState /\ new \in TransferState
      /\ new = TransferWhen(old, type, stage)
  BY ReplayStep
<1>2. type = "TransferInitiated" <=> k = 1
  BY InitiatedIsFirst
<1>3. StatusAfter(e) = new.status
  BY StatusReplayed
<1>4. new = [status |-> new.status, failureStage |-> new.failureStage]
  BY <1>1 DEF TransferState
<1>5. k # 1 => row.state \in {old, new} /\ row.legs \in {LegsAt(t, k - 1), LegsAt(t, k)}
  BY DEF RowAt
<1>6. StageAfter(base, e) = new.failureStage
  <2>1. StageAfter(base, e) = CASE type = "TransferFailed" -> stage
                                [] type \in {"TransferDebitStarted", "TransferCreditStarted"} -> "NONE"
                                [] OTHER -> base.state.failureStage
    BY DEF StageAfter, At
  <2>2. type = "TransferInitiated" => base.state.failureStage = "NONE"
    BY DEF NoRow, NewTransfer
  <2>3. type # "TransferInitiated" => base.state \in {old, new}
    BY <1>2, <1>5
  <2> HIDE DEF e, type, base, old, new, stage
  <2>4. CASE type = "TransferInitiated"
    BY <1>1, <2>1, <2>2, <2>4 DEF TransferWhen
  <2>5. CASE type \in {"TransferDebitStarted", "TransferCreditStarted"}
    BY <1>1, <2>1, <2>5 DEF TransferWhen
  <2>6. CASE type = "TransferFailed"
    BY <1>1, <2>1, <2>6 DEF TransferWhen
  <2>7. CASE type \in {"TransferDebited", "TransferCompleted", "TransferCompensationStarted",
                       "TransferCompensated"}
    <3>1. new.failureStage = old.failureStage
      BY <1>1, <2>7 DEF TransferWhen, TransferState
    <3>2. StageAfter(base, e) = base.state.failureStage
      BY <2>1, <2>7
    <3>3. QED
      BY <2>3, <2>7, <3>1, <3>2
  <2>8. QED
    BY <1>1, <2>4, <2>5, <2>6, <2>7 DEF TransferEventTypes
<1>7. base.legs \cup LegOf(e) = LegsAt(t, k)
  <2>0. k \in Nat /\ k >= 1
    BY LengthType
  <2>1. LegsAt(t, k) = LegsAt(t, k - 1) \cup LegOf(e)
    BY <2>0, LegsGrow
  <2>2. CASE k = 1
    <3>1. base.legs = {}
      BY <1>2, <2>2 DEF NoRow
    <3>2. LegsAt(t, k - 1) = {}
      BY <2>2, NoLegsAtFirst
    <3>3. QED
      BY <2>1, <3>1, <3>2
  <2>3. CASE k # 1
    <3>1. base.legs \in {LegsAt(t, k - 1), LegsAt(t, k)}
      BY <1>2, <1>5, <2>3
    <3> HIDE DEF base, e
    <3>2. QED
      BY <2>1, <3>1
  <2>4. QED
    BY <2>2, <2>3
<1>8. Projected(row, e) =
        [exists |-> TRUE,
         state |-> [status |-> StatusAfter(e), failureStage |-> StageAfter(base, e)],
         legs |-> base.legs \cup LegOf(e),
         updatedAt |-> clock[e]]
  BY DEF Projected
<1> HIDE DEF e, type, base, new
<1>9. QED
  BY <1>3, <1>4, <1>6, <1>7, <1>8 DEF RowAt, e, new

\* What a projection writes bears the event's time and status.
LEMMA ProjectedShows ==
    ASSUME NEW row, NEW e
    PROVE  /\ Projected(row, e).exists /\ Projected(row, e).updatedAt = clock[e]
           /\ Projected(row, e).state.status = StatusAfter(e)
BY DEF Projected

LEMMA ProjectedType ==
    ASSUME NEW row \in Rows, NEW e \in T!Events, clock \in Clocks
    PROVE  Projected(row, e) \in Rows
<1>1. /\ e.stream \in Streams /\ e.version \in 1..Length[e.stream]
      /\ e = At(e.stream, e.version)
  BY EventAt
<1> DEFINE base == IF EventType(e) = "TransferInitiated" THEN NoRow ELSE row
<1>2. base \in Rows
  BY DEF NoRow, Rows, NewTransfer, TransferState
<1> HIDE DEF base
<1>3. StatusAfter(e) \in TransferStatus \cup {"NONE"}
  BY <1>1, StatusReplayed
<1>4. StageAfter(base, e) \in Stages \cup {"NONE"}
  <2>1. base.state.failureStage \in Stages \cup {"NONE"}
    BY <1>2 DEF Rows, TransferState
  <2>2. History[e.stream][e.version].stage \in Stages
    BY <1>1, ReplayStep
  <2>3. QED
    BY <2>1, <2>2 DEF StageAfter
<1>5. base.legs \cup LegOf(e) \in SUBSET Legs
  <2>1. base.legs \in SUBSET Legs
    BY <1>2 DEF Rows
  <2>2. LegOf(e) \in SUBSET Legs
    BY DEF LegOf, Legs
  <2>3. QED
    BY <2>1, <2>2
<1>6. clock[e] \in Nat
  BY TransferHistoryAssumption
<1>7. Projected(row, e) =
        [exists |-> TRUE,
         state |-> [status |-> StatusAfter(e), failureStage |-> StageAfter(base, e)],
         legs |-> base.legs \cup LegOf(e),
         updatedAt |-> clock[e]]
  BY DEF Projected, base
<1>8. QED
  BY <1>3, <1>4, <1>5, <1>6, <1>7 DEF Rows, TransferState

-----------------------------------------------------------------------------
(* The first invariant: what holds whatever the clocks say, in whatever order messages   *)
(* come and however workers overlap                                                       *)

TablesOK ==
    /\ summary \in [Streams -> Rows]
    /\ seen \in [Workers -> Rows]
    /\ clock \in Clocks
    /\ disturbed \in BOOLEAN

\* Positions of a stream's events agree with their versions.
StoreOrder ==
    \A i, j \in DOMAIN store :
        i < j /\ store[i].stream = store[j].stream => store[i].version < store[j].version

\* Nobody holds an event or a rebuild while idle, and a consumer is busy with the message
\* after the last one it has handled.
RestOK ==
    /\ \A w \in Workers : pc[w] = "idle" => msg[w] = NoEvent
    /\ \A r \in Rebuilders : pc[r] = "idle" => scope[r] = NoScope
    /\ \A c \in Consumers : pc[c] # "idle" => msg[c] = log[pos[c] + 1]

AloneOK == Overlapping => disturbed

\* The places in the topic of the messages that consumers have handled.
Handled == UNION {1..pos[c] : c \in Consumers}

\* A row of t bears the time and the status of one event of the stream.
Bears(t, row, times) ==
    \E n \in 1..Length[t] :
        row.updatedAt = times[At(t, n)] /\ row.state.status = StatusAfter(At(t, n))

ShowsOK == \A t \in Streams : summary[t].exists => Bears(t, summary[t], clock)

Base == FeedInv /\ TablesOK /\ StoreOrder /\ RestOK /\ AloneOK /\ ShowsOK

LEMMA NoRowType == NoRow \in Rows /\ NoRow.exists = FALSE
BY DEF NoRow, Rows, NewTransfer, TransferState

LEMMA InitBase == Init => Base
<1> SUFFICES ASSUME Init PROVE Base
  OBVIOUS
<1>1. FeedInv
  BY FeedInitInv DEF Init
<1>2. /\ pc = [w \in Workers |-> "idle"] /\ msg = [w \in Workers |-> NoEvent]
      /\ scope = [r \in Rebuilders |-> NoScope] /\ store = <<>>
  BY DEF Init, FeedInit, T!Init
<1>3. \A c \in Consumers : pc[c] = "idle"
  BY <1>2 DEF Workers
<1>4. TablesOK
  BY NoRowType DEF Init, TablesOK
<1>5. StoreOrder
  BY <1>2 DEF StoreOrder
<1>6. RestOK
  BY <1>2, <1>3 DEF RestOK, Workers
<1>7. AloneOK
  BY <1>2 DEF AloneOK, Overlapping
<1>8. ShowsOK
  BY NoRowType DEF Init, ShowsOK
<1>9. QED
  BY <1>1, <1>4, <1>5, <1>6, <1>7, <1>8 DEF Base

\* A commit puts its event after all others of the stream, and leaves their order.
LEMMA CommitOrder ==
    ASSUME FeedInv, StoreOrder, NEW s \in Streams, T!Commit(s)
    PROVE  StoreOrder'
<1> DEFINE new == At(s, version[s] + 1)
<1>1. PICK i \in 0..Len(store) :
          /\ \A j \in i + 1..Len(store) : store[j].stream # s
          /\ store' = T!Insert(store, i, new)
  BY DEF T!Commit, At
<1>2. /\ version[s] \in Nat /\ new.stream = s /\ new.version = version[s] + 1
  BY DEF FeedInv, VersionOK, At
<1>3. /\ Len(store) \in Nat /\ DOMAIN store = 1..Len(store)
      /\ \A j \in 1..Len(store) : store[j] \in CommittedEvents
  BY DEF FeedInv, StoreOK
<1>4. ASSUME NEW j \in 1..Len(store), store[j].stream = s
      PROVE  store[j].version < new.version /\ j <= i
  <2>1. store[j].version \in Nat /\ store[j].version <= version[s]
    BY <1>3, <1>4, EventForm DEF CommittedEvents, T!Committed
  <2>2. j <= i
    BY <1>1, <1>3, <1>4
  <2>3. QED
    BY <1>2, <2>1, <2>2
<1> HIDE DEF new
<1>5. /\ store' \in Seq(CommittedEvents \cup {new}) /\ Len(store') = Len(store) + 1
      /\ \A k \in 1..i : store'[k] = store[k]
      /\ store'[i + 1] = new
      /\ \A k \in 1..Len(store) - i : store'[i + 1 + k] = store[i + k]
  <2>1. store \in Seq(CommittedEvents \cup {new})
    BY SeqMonotonic DEF FeedInv, StoreOK
  <2>2. /\ T!Insert(store, i, new) \in Seq(CommittedEvents \cup {new})
        /\ Inserted(T!Insert(store, i, new), store, i, new)
    BY <2>1, InsertPlaces
  <2>3. QED
    BY <1>1, <2>2 DEF Inserted
<1>6. DOMAIN store' = 1..Len(store) + 1
  BY <1>3, <1>5
<1>7. ASSUME NEW k \in i + 2..Len(store) + 1
      PROVE  store'[k] = store[k - 1] /\ k - 1 \in i + 1..Len(store) /\ k - 1 \in 1..Len(store)
  <2>1. PICK m \in 1..Len(store) - i : m = k - (i + 1)
    BY <1>3
  <2>2. i + 1 + m = k /\ i + m = k - 1
    BY <1>3, <2>1
  <2>3. store'[k] = store[k - 1]
    BY <1>5, <2>2
  <2>4. QED
    BY <1>3, <2>3
<1>8. SUFFICES ASSUME NEW a \in 1..Len(store) + 1, NEW b \in 1..Len(store) + 1, a < b,
                      store'[a].stream = store'[b].stream
               PROVE  store'[a].version < store'[b].version
  BY <1>6 DEF StoreOrder
<1>9. CASE b <= i
  <2>1. store'[a] = store[a] /\ store'[b] = store[b] /\ a \in DOMAIN store /\ b \in DOMAIN store
    BY <1>3, <1>5, <1>8, <1>9
  <2>2. QED
    BY <1>8, <2>1 DEF StoreOrder
<1>10. CASE b = i + 1
  <2>1. store'[a] = store[a] /\ store'[b] = new /\ a \in 1..Len(store)
    BY <1>3, <1>5, <1>8, <1>10
  <2>2. QED
    BY <1>2, <1>4, <1>8, <2>1
<1>11. CASE b >= i + 2
  <2>1. /\ store'[b] = store[b - 1] /\ b - 1 \in i + 1..Len(store)
        /\ b - 1 \in DOMAIN store
    BY <1>3, <1>7, <1>11
  <2>2. CASE a <= i
    <3>1. store'[a] = store[a] /\ a \in DOMAIN store /\ a < b - 1
      BY <1>3, <1>5, <1>11, <2>2
    <3>2. QED
      BY <1>8, <2>1, <3>1 DEF StoreOrder
  <2>3. CASE a = i + 1
    <3>1. store[b - 1].stream # s
      BY <1>1, <2>1
    <3>2. QED
      BY <1>2, <1>5, <1>8, <2>1, <2>3, <3>1
  <2>4. CASE a >= i + 2
    <3>1. store'[a] = store[a - 1] /\ a - 1 \in DOMAIN store /\ a - 1 < b - 1
      BY <1>3, <1>7, <1>8, <2>4
    <3>2. QED
      BY <1>8, <2>1, <3>1 DEF StoreOrder
  <2>5. QED
    BY <1>3, <2>2, <2>3, <2>4
<1>12. QED
  BY <1>3, <1>9, <1>10, <1>11

-----------------------------------------------------------------------------
(* What each step does to the workers *)

\* Everybody but w keeps what he has.
Only(w) ==
    /\ \A v \in Workers \ {w} : pc'[v] = pc[v] /\ msg'[v] = msg[v] /\ seen'[v] = seen[v]
    /\ \A r \in Rebuilders \ {w} : scope'[r] = scope[r] /\ todo'[r] = todo[r]

LEMMA RecordedSteps ==
    ASSUME Recorded
    PROVE  /\ clock' = clock /\ disturbed' \in BOOLEAN /\ (disturbed => disturbed')
           /\ (Overlapping' => disturbed') /\ (Overtaken => disturbed')
BY Zenon DEF Recorded

LEMMA WorkerKinds ==
    ASSUME NEW w \in Workers
    PROVE  \/ w \in Consumers /\ w \notin Rebuilders
           \/ w \in Rebuilders /\ w \notin Consumers
BY FeedAssumption DEF Workers

LEMMA DeliverMoves ==
    ASSUME FeedInv, NEW c \in Consumers, Deliver(c)
    PROVE  /\ c \in Workers /\ c \notin Rebuilders /\ Only(c)
           /\ pos[c] \in Nat /\ pos[c] < Len(log)
           /\ pc[c] = "idle" /\ pc'[c] = "read" /\ msg'[c] = log[pos[c] + 1]
           /\ UNCHANGED <<version, store, log, owner, pos, scope, todo, aborted, summary, seen>>
<1>0. /\ log \in Seq(CommittedEvents) /\ Len(log) \in Nat
      /\ pos[c] \in Nat /\ fetched[c] \in Nat /\ fetched[c] <= Len(log)
  BY DEF FeedInv, GroupOK
<1>1. /\ pc[c] = "idle" /\ pos[c] < Len(log)
      /\ msg' = [msg EXCEPT ![c] = log[pos[c] + 1]] /\ pc' = [pc EXCEPT ![c] = "read"]
      /\ UNCHANGED <<version, store, log, owner, pos, scope, todo, aborted, summary, seen>>
  BY <1>0 DEF Deliver, Fetch, topic, group
<1>2. c \in Workers /\ c \notin Rebuilders
  BY FeedAssumption DEF Workers
<1>3. QED
  BY <1>0, <1>1, <1>2 DEF Only, FeedInv, WorkOK

LEMMA GotoMoves ==
    ASSUME FeedInv, NEW w \in Workers, NEW label, Goto(w, label),
           \A v \in Workers \ {w} : seen'[v] = seen[v]
    PROVE  /\ Only(w) /\ pc'[w] = label
           /\ UNCHANGED <<version, store, log, owner, pos, msg, scope, todo, aborted>>
BY DEF Goto, Only, topic, group, FeedInv, WorkOK

LEMMA ThrowMoves ==
    ASSUME FeedInv, NEW w \in Workers, Throw(w), \A v \in Workers \ {w} : seen'[v] = seen[v]
    PROVE  /\ Only(w) /\ pc'[w] = "idle" /\ msg'[w] = NoEvent
           /\ UNCHANGED <<version, store, log, owner, pos>>
           /\ aborted => aborted'
           /\ w \in Rebuilders => aborted' /\ scope'[w] = NoScope
<1>1. pc \in [Workers -> PCs] /\ msg \in [Workers -> CommittedEvents \cup {NoEvent}]
  BY DEF FeedInv, WorkOK
<1>2. /\ pc' = [pc EXCEPT ![w] = "idle"] /\ msg' = [msg EXCEPT ![w] = NoEvent]
      /\ UNCHANGED <<version, store, log, owner, pos>>
  BY DEF Throw, topic, group
<1>3. CASE w \in Consumers
  <2>1. UNCHANGED <<scope, todo, aborted>> /\ w \notin Rebuilders
    BY <1>3, WorkerKinds DEF Throw
  <2>2. QED
    BY <1>1, <1>2, <2>1 DEF Only
<1>4. CASE w \notin Consumers
  <2>1. /\ scope' = [scope EXCEPT ![w] = NoScope] /\ todo' = [todo EXCEPT ![w] = <<>>] /\ aborted'
        /\ scope \in [Rebuilders -> Streams \cup {All, NoScope}]
        /\ todo \in [Rebuilders -> Seq(CommittedEvents)]
    BY <1>4 DEF Throw, FeedInv, WorkOK
  <2>2. QED
    BY <1>1, <1>2, <2>1 DEF Only
<1>5. QED
  BY <1>3, <1>4

\* The three ways in which a rebuild goes on after an event.
NextEvent(r) ==
    /\ todo[r] # <<>> /\ pc'[r] = "read" /\ msg'[r] = Head(todo[r])
    /\ todo'[r] = Tail(todo[r]) /\ scope'[r] = scope[r]

NextPage(r) ==
    /\ todo[r] = <<>> /\ scope[r] = All
    /\ pc'[r] = "events" /\ msg'[r] = msg[r] /\ todo'[r] = todo[r] /\ scope'[r] = scope[r]

StreamDone(r) ==
    /\ todo[r] = <<>> /\ scope[r] # All
    /\ pc'[r] = "idle" /\ msg'[r] = NoEvent /\ scope'[r] = NoScope

LEMMA AdvanceMoves ==
    ASSUME FeedInv, NEW w \in Workers, Advance(w), \A v \in Workers \ {w} : seen'[v] = seen[v]
    PROVE  /\ Only(w) /\ UNCHANGED <<version, store, log, owner, aborted>>
           /\ w \in Consumers => /\ pc'[w] = "idle" /\ msg'[w] = NoEvent
                                 /\ pos' = [pos EXCEPT ![w] = @ + 1]
                                 /\ UNCHANGED <<scope, todo>>
           /\ w \in Rebuilders => pos' = pos /\ (NextEvent(w) \/ NextPage(w) \/ StreamDone(w))
<1>1. /\ pc \in [Workers -> PCs] /\ msg \in [Workers -> CommittedEvents \cup {NoEvent}]
      /\ scope \in [Rebuilders -> Streams \cup {All, NoScope}]
      /\ todo \in [Rebuilders -> Seq(CommittedEvents)]
  BY DEF FeedInv, WorkOK
<1>2. CASE w \in Consumers
  <2>1. w \notin Rebuilders
    BY <1>2, WorkerKinds
  <2>2. QED
    BY <1>1, <1>2, <2>1 DEF Advance, Only, topic
<1>3. CASE w \notin Consumers
  <2>1. w \in Rebuilders
    BY <1>3, WorkerKinds
  <2>2. UNCHANGED <<version, store, log, owner, pos, aborted>>
    BY <1>3 DEF Advance, topic, group
  <2>3. CASE todo[w] # <<>>
    BY <1>1, <1>3, <2>1, <2>2, <2>3 DEF Advance, Only, NextEvent
  <2>4. CASE todo[w] = <<>> /\ scope[w] = All
    BY <1>1, <1>3, <2>1, <2>2, <2>4 DEF Advance, Only, NextPage
  <2>5. CASE todo[w] = <<>> /\ scope[w] # All
    BY <1>1, <1>3, <2>1, <2>2, <2>5 DEF Advance, Only, StreamDone
  <2>6. QED
    BY <2>3, <2>4, <2>5
<1>4. QED
  BY <1>2, <1>3

LEMMA StartMoves ==
    ASSUME FeedInv, NEW r \in Rebuilders, NEW sc, StartRebuild(r, sc), UNCHANGED seen
    PROVE  /\ r \in Workers /\ Only(r)
           /\ pc[r] = "idle" /\ pc'[r] = "events" /\ scope'[r] = sc
           /\ UNCHANGED <<version, store, log, owner, pos, msg, todo, aborted>>
<1>1. r \in Workers
  BY DEF Workers
<1>2. QED
  BY <1>1 DEF StartRebuild, Only, topic, group, FeedInv, WorkOK

PageOf(r) == IF scope[r] = All THEN EventsAfter(msg[r]) ELSE StreamEvents(scope[r])

LEMMA ReadMoves ==
    ASSUME FeedInv, NEW r \in Rebuilders, ReadRebuildEvents(r)
    PROVE  /\ r \in Workers /\ Only(r) /\ pc[r] = "events"
           /\ UNCHANGED <<version, store, log, owner, pos, aborted, summary, seen>>
           /\ \/ /\ PageOf(r) = <<>>
                 /\ pc'[r] = "idle" /\ msg'[r] = NoEvent /\ scope'[r] = NoScope
              \/ /\ PageOf(r) # <<>> /\ pc'[r] = "read" /\ msg'[r] = Head(PageOf(r))
                 /\ todo'[r] = Tail(PageOf(r)) /\ scope'[r] = scope[r]
<1>1. /\ pc[r] = "events"
      /\ UNCHANGED <<version, store, log, owner, pos, aborted, summary, seen>>
      /\ \/ /\ PageOf(r) = <<>> /\ pc' = [pc EXCEPT ![r] = "idle"]
            /\ msg' = [msg EXCEPT ![r] = NoEvent]
            /\ scope' = [scope EXCEPT ![r] = NoScope] /\ UNCHANGED todo
         \/ /\ PageOf(r) # <<>> /\ pc' = [pc EXCEPT ![r] = "read"]
            /\ msg' = [msg EXCEPT ![r] = Head(PageOf(r))]
            /\ todo' = [todo EXCEPT ![r] = Tail(PageOf(r))] /\ UNCHANGED scope
  BY DEF ReadRebuildEvents, ReadEvents, PageOf, topic, group
<1>2. r \in Workers
  BY DEF Workers
<1>3. QED
  BY <1>1, <1>2 DEF Only, FeedInv, WorkOK

-----------------------------------------------------------------------------
(* The first invariant, step by step *)

LEMMA RestStep ==
    ASSUME FeedInv, RestOK, NEW w \in Workers, Only(w), UNCHANGED log,
           pc'[w] = "idle" => msg'[w] = NoEvent /\ (w \in Rebuilders => scope'[w] = NoScope),
           \A c \in Consumers \ {w} : pos'[c] = pos[c],
           w \in Consumers => pc'[w] = "idle" \/ msg'[w] = log[pos'[w] + 1]
    PROVE  RestOK'
<1>1. Consumers \subseteq Workers /\ Rebuilders \subseteq Workers
  BY DEF Workers
<1>2. \A v \in Workers : pc'[v] = "idle" => msg'[v] = NoEvent
  BY DEF RestOK, Only
<1>3. \A r \in Rebuilders : pc'[r] = "idle" => scope'[r] = NoScope
  BY <1>1 DEF RestOK, Only
<1>4. \A c \in Consumers : pc'[c] # "idle" => msg'[c] = log[pos'[c] + 1]
  BY <1>1 DEF RestOK, Only
<1>5. QED
  BY <1>2, <1>3, <1>4 DEF RestOK

\* The row is there after the write, and is the projected one or was later already.
LEMMA WriteRow ==
    ASSUME TablesOK, NEW w \in Workers, msg[w] \in T!Events, WriteSummary(w)
    PROVE  LET t == msg[w].stream
               new == Projected(seen[w], msg[w])
           IN /\ t \in Streams /\ new \in Rows /\ summary' \in [Streams -> Rows]
              /\ \A u \in Streams \ {t} : summary'[u] = summary[u]
              /\ \/ summary'[t] = new /\ (~summary[t].exists \/ summary[t].updatedAt <= clock[msg[w]])
                 \/ summary'[t] = summary[t] /\ summary[t].exists /\ ~(summary[t].updatedAt <= clock[msg[w]])
<1> DEFINE t == msg[w].stream
           new == Projected(seen[w], msg[w])
<1>1. t \in Streams /\ summary \in [Streams -> Rows]
  BY EventAt DEF TablesOK
<1>2. new \in Rows
  BY ProjectedType DEF TablesOK
<1>3. new.updatedAt = clock[msg[w]]
  BY ProjectedShows
<1>4. summary' = [summary EXCEPT ![t] = IF UpsertApplies(summary[t], new) THEN new ELSE summary[t]]
  BY <1>1 DEF WriteSummary
<1>5. UpsertApplies(summary[t], new) <=> (~summary[t].exists \/ summary[t].updatedAt <= clock[msg[w]])
  BY <1>3 DEF UpsertApplies
<1> HIDE DEF t, new
<1>6. QED
  BY <1>1, <1>2, <1>4, <1>5 DEF t, new

LEMMA WriteShows ==
    ASSUME TablesOK, ShowsOK, NEW w \in Workers, msg[w] \in T!Events, WriteSummary(w), clock' = clock
    PROVE  summary' \in [Streams -> Rows] /\ ShowsOK'
<1> DEFINE e == msg[w]
           new == Projected(seen[w], e)
<1>1. /\ e.stream \in Streams /\ summary' \in [Streams -> Rows]
      /\ \A u \in Streams \ {e.stream} : summary'[u] = summary[u]
      /\ summary'[e.stream] \in {new, summary[e.stream]}
  BY WriteRow
<1>2. new.updatedAt = clock[e] /\ new.state.status = StatusAfter(e)
  BY ProjectedShows
<1>3. e.version \in 1..Length[e.stream] /\ e = At(e.stream, e.version)
  BY EventAt
<1> HIDE DEF new
<1>4. ASSUME NEW t \in Streams, summary'[t].exists
      PROVE  Bears(t, summary'[t], clock')
  <2>1. CASE summary'[t] = summary[t]
    BY <1>4, <2>1 DEF ShowsOK
  <2>2. CASE t = e.stream /\ summary'[t] = new
    BY <1>2, <1>3, <2>2 DEF Bears
  <2>3. QED
    BY <1>1, <2>1, <2>2
<1>5. ShowsOK'
  BY <1>4 DEF ShowsOK
<1>6. QED
  BY <1>1, <1>5

\* What is left to show of a step of a worker: where it is, and what it writes.
LEMMA WorkerBase ==
    ASSUME Base, FeedInv', Recorded, RestOK', UNCHANGED store,
           seen' \in [Workers -> Rows], summary' \in [Streams -> Rows],
           ShowsOK'
    PROVE  Base'
<1>1. clock' = clock /\ disturbed' \in BOOLEAN /\ (Overlapping' => disturbed')
  BY RecordedSteps
<1>2. TablesOK'
  BY <1>1 DEF Base, TablesOK
<1>3. AloneOK'
  BY <1>1 DEF AloneOK
<1>4. StoreOrder'
  BY DEF Base, StoreOrder
<1>5. QED
  BY <1>2, <1>3, <1>4 DEF Base

\* An untouched table shows what it showed.
LEMMA ShowsKept == ASSUME ShowsOK, UNCHANGED <<summary, clock>> PROVE ShowsOK'
BY DEF ShowsOK

LEMMA DeliverBase == ASSUME Base, NEW c \in Consumers, Deliver(c), Recorded PROVE Base'
<1>1. /\ c \in Workers /\ c \notin Rebuilders /\ Only(c)
      /\ pc'[c] = "read" /\ msg'[c] = log[pos[c] + 1]
      /\ UNCHANGED <<store, log, owner, pos, summary, seen>>
  BY DeliverMoves DEF Base
<1>2. FeedInv'
  BY FetchInv DEF Base, Deliver
<1>3. RestOK'
  BY <1>1, RestStep DEF Base
<1>4. ShowsOK'
  BY <1>1, RecordedSteps, ShowsKept DEF Base
<1>5. QED
  BY <1>1, <1>2, <1>3, <1>4, WorkerBase DEF Base, TablesOK

LEMMA ReadRebuildEventsBase ==
    ASSUME Base, NEW r \in Rebuilders, ReadRebuildEvents(r), Recorded
    PROVE  Base'
<1>1. /\ r \in Workers /\ Only(r) /\ UNCHANGED <<store, log, owner, pos, summary, seen>>
      /\ pc'[r] = "idle" => msg'[r] = NoEvent /\ scope'[r] = NoScope
  BY ReadMoves DEF Base
<1>2. r \notin Consumers
  BY FeedAssumption
<1>3. FeedInv'
  BY ReadEventsInv DEF Base, ReadRebuildEvents
<1>4. RestOK'
  BY <1>1, <1>2, RestStep DEF Base
<1>5. ShowsOK'
  BY <1>1, RecordedSteps, ShowsKept DEF Base
<1>6. QED
  BY <1>1, <1>3, <1>4, <1>5, WorkerBase DEF Base, TablesOK

\* A worker that stops.
LEMMA ThrowBase ==
    ASSUME Base, NEW w \in Workers, Throw(w), Disruption \/ UNCHANGED disruptions, Recorded,
           \A v \in Workers \ {w} : seen'[v] = seen[v], seen' \in [Workers -> Rows],
           \/ UNCHANGED summary
           \/ pc[w] = "upsert" /\ WriteSummary(w)
    PROVE  Base'
<1>1. /\ Only(w) /\ pc'[w] = "idle" /\ msg'[w] = NoEvent /\ UNCHANGED <<store, log, owner, pos>>
      /\ w \in Rebuilders => scope'[w] = NoScope
  BY ThrowMoves DEF Base
<1>2. FeedInv'
  BY ThrowInv DEF Base
<1>3. RestOK'
  BY <1>1, RestStep DEF Base
<1>4. clock' = clock
  BY RecordedSteps
<1>5. summary' \in [Streams -> Rows] /\ ShowsOK'
  <2>1. CASE UNCHANGED summary
    BY <1>4, <2>1, ShowsKept DEF Base, TablesOK
  <2>2. CASE pc[w] = "upsert" /\ WriteSummary(w)
    <3>1. msg[w] \in T!Events
      BY <2>2 DEF Base, FeedInv, WorkOK, CommittedEvents
    <3>2. QED
      BY <1>4, <2>2, <3>1, WriteShows DEF Base
  <2>3. QED
    BY <2>1, <2>2
<1>6. QED
  BY <1>1, <1>2, <1>3, <1>5, WorkerBase

LEMMA CallFailsBase == ASSUME Base, NEW w \in Workers, CallFails(w), Recorded PROVE Base'
<1>1. /\ Disruption /\ Throw(w) /\ seen' = [seen EXCEPT ![w] = NoRow]
      /\ UNCHANGED summary \/ (pc[w] = "upsert" /\ WriteSummary(w))
  BY DEF CallFails
<1>2. seen' \in [Workers -> Rows] /\ \A v \in Workers \ {w} : seen'[v] = seen[v]
  BY <1>1, NoRowType DEF Base, TablesOK
<1>3. QED
  BY <1>1, <1>2, ThrowBase

LEMMA ReadSummaryBase == ASSUME Base, NEW w \in Workers, ReadSummary(w), Recorded PROVE Base'
<1>1. CASE Throw(w) /\ UNCHANGED <<seen, disruptions, summary>>
  BY <1>1, ThrowBase DEF Base, TablesOK
<1>2. CASE Goto(w, "upsert")
  <2>1. pc[w] = "read" /\ UNCHANGED summary /\ msg[w] \in CommittedEvents
    BY DEF ReadSummary, Base, FeedInv, WorkOK
  <2>2. summary[msg[w].stream] \in Rows
    BY <2>1, EventAt DEF CommittedEvents, Base, TablesOK
  <2>3. seen' \in [Workers -> Rows] /\ \A v \in Workers \ {w} : seen'[v] = seen[v]
    BY <2>2 DEF ReadSummary, Base, TablesOK
  <2>4. /\ Only(w) /\ pc'[w] = "upsert" /\ UNCHANGED <<store, log, owner, pos, msg>>
    BY <1>2, <2>3, GotoMoves DEF Base
  <2>5. FeedInv'
    BY <1>2, <2>1, GotoInv DEF Base
  <2>6. RestOK'
    BY <2>1, <2>4, RestStep DEF Base, RestOK
  <2>7. ShowsOK'
    BY <2>1, RecordedSteps, ShowsKept DEF Base
  <2>8. QED
    BY <2>1, <2>3, <2>4, <2>5, <2>6, <2>7, WorkerBase DEF Base, TablesOK
<1>3. QED
  BY <1>1, <1>2 DEF ReadSummary

LEMMA UpsertBase == ASSUME Base, NEW w \in Workers, Upsert(w), Recorded PROVE Base'
<1>1. /\ pc[w] = "upsert" /\ WriteSummary(w) /\ Advance(w) /\ seen' = [seen EXCEPT ![w] = NoRow]
  BY DEF Upsert
<1>2. seen' \in [Workers -> Rows] /\ \A v \in Workers \ {w} : seen'[v] = seen[v]
  BY <1>1, NoRowType DEF Base, TablesOK
<1>3. /\ Only(w) /\ UNCHANGED <<store, log, owner>>
      /\ w \in Consumers => /\ pc'[w] = "idle" /\ msg'[w] = NoEvent
                            /\ pos' = [pos EXCEPT ![w] = @ + 1]
      /\ w \in Rebuilders => pos' = pos /\ (NextEvent(w) \/ NextPage(w) \/ StreamDone(w))
  BY <1>1, <1>2, AdvanceMoves DEF Base
<1>4. FeedInv'
  BY <1>1, AdvanceInv DEF Base
<1>5. RestOK'
  <2>1. CASE w \in Consumers /\ w \notin Rebuilders
    <3>1. \A c \in Consumers \ {w} : pos'[c] = pos[c]
      BY <1>3, <2>1 DEF Base, FeedInv, GroupOK
    <3>2. QED
      BY <1>3, <2>1, <3>1, RestStep DEF Base
  <2>2. CASE w \in Rebuilders /\ w \notin Consumers
    <3>1. pc'[w] = "idle" => msg'[w] = NoEvent /\ scope'[w] = NoScope
      BY <1>3, <2>2 DEF NextEvent, NextPage, StreamDone
    <3>2. QED
      BY <1>3, <2>2, <3>1, RestStep DEF Base
  <2>3. QED
    BY <2>1, <2>2, WorkerKinds
<1>6. msg[w] \in T!Events
  BY <1>1 DEF Base, FeedInv, WorkOK, CommittedEvents
<1>7. summary' \in [Streams -> Rows] /\ ShowsOK'
  BY <1>1, <1>6, RecordedSteps, WriteShows DEF Base
<1>8. QED
  BY <1>2, <1>3, <1>4, <1>5, <1>7, WorkerBase

\* A rebuild that starts resets the rows of its scope.
LEMMA RebuildResets ==
    ASSUME TablesOK, NEW r, Rebuild(r)
    PROVE  \E sc \in Streams \cup {All} :
              /\ StartRebuild(r, sc) /\ UNCHANGED seen /\ summary' \in [Streams -> Rows]
              /\ \A t \in Streams : IF sc \in {All, t} THEN summary'[t] = NoRow
                                    ELSE summary'[t] = summary[t]
<1>1. UNCHANGED seen /\ All \notin Streams /\ summary \in [Streams -> Rows]
  BY FeedAssumption DEF Rebuild, TablesOK
<1>2. ASSUME NEW t \in Streams, StartRebuild(r, t), summary' = [summary EXCEPT ![t] = NoRow]
      PROVE  /\ StartRebuild(r, t) /\ summary' \in [Streams -> Rows]
             /\ \A u \in Streams : IF t \in {All, u} THEN summary'[u] = NoRow
                                   ELSE summary'[u] = summary[u]
  BY <1>1, <1>2, NoRowType
<1>3. ASSUME StartRebuild(r, All), summary' = [t \in Streams |-> NoRow]
      PROVE  /\ StartRebuild(r, All) /\ summary' \in [Streams -> Rows]
             /\ \A u \in Streams : IF All \in {All, u} THEN summary'[u] = NoRow
                                   ELSE summary'[u] = summary[u]
  BY <1>1, <1>3, NoRowType
<1>4. QED
  BY <1>1, <1>2, <1>3 DEF Rebuild

LEMMA RebuildBase == ASSUME Base, NEW r \in Rebuilders, Rebuild(r), Recorded PROVE Base'
<1>1. PICK sc \in Streams \cup {All} :
          /\ StartRebuild(r, sc) /\ UNCHANGED seen /\ summary' \in [Streams -> Rows]
          /\ \A t \in Streams : IF sc \in {All, t} THEN summary'[t] = NoRow
                                ELSE summary'[t] = summary[t]
  BY RebuildResets DEF Base
<1>2. /\ r \in Workers /\ Only(r) /\ pc'[r] = "events" /\ UNCHANGED <<store, log, owner, pos>>
  BY <1>1, StartMoves DEF Base
<1>3. r \notin Consumers
  BY FeedAssumption
<1>4. FeedInv'
  BY <1>1, StartRebuildInv DEF Base
<1>5. RestOK'
  BY <1>2, <1>3, RestStep DEF Base
<1>6. clock' = clock
  BY RecordedSteps
<1>7. ShowsOK'
  <2>1. ASSUME NEW t \in Streams, summary'[t].exists PROVE summary'[t] = summary[t]
    BY <1>1, <2>1, NoRowType
  <2>2. QED
    BY <1>6, <2>1 DEF Base, ShowsOK
<1>8. QED
  BY <1>1, <1>2, <1>4, <1>5, <1>7, WorkerBase DEF Base, TablesOK

LEMMA EnvironmentBase == ASSUME Base, Environment, Recorded PROVE Base'
<1>0. UNCHANGED <<summary, seen>> /\ clock' = clock /\ disturbed' \in BOOLEAN /\ (Overlapping' => disturbed')
  BY RecordedSteps DEF Environment
<1>1. TablesOK' /\ AloneOK' /\ ShowsOK'
  BY <1>0, ShowsKept DEF Base, TablesOK, AloneOK
<1>2. ASSUME NEW t \in Streams, CommitEvent(t) PROVE Base'
  <2>1. T!Commit(t) /\ UNCHANGED <<log, owner, pos, pc, msg, scope>>
    BY <1>2 DEF CommitEvent, T!Commit, group, work
  <2>2. RestOK'
    BY <2>1 DEF Base, RestOK
  <2>3. FeedInv' /\ StoreOrder'
    BY <1>2, <2>1, CommitEventInv, CommitOrder DEF Base
  <2>4. QED
    BY <1>1, <2>2, <2>3 DEF Base
<1>3. ASSUME NEW e \in T!Events, SendEvent(e) PROVE Base'
  <2>1. log' = Append(log, e) /\ UNCHANGED <<store, owner, pos, pc, msg, scope>>
    BY <1>3 DEF SendEvent, T!Send, group, work
  <2>2. ASSUME NEW c \in Consumers, pc[c] # "idle" PROVE log'[pos[c] + 1] = log[pos[c] + 1]
    <3>1. log \in Seq(CommittedEvents) /\ pos[c] \in Nat /\ pos[c] < Len(log)
      BY <2>2 DEF Base, FeedInv, GroupOK
    <3>2. QED
      BY <2>1, <3>1
  <2>3. RestOK'
    BY <2>1, <2>2 DEF Base, RestOK
  <2>4. FeedInv' /\ StoreOrder'
    BY <1>3, <2>1, SendEventInv DEF Base, StoreOrder
  <2>5. QED
    BY <1>1, <2>3, <2>4 DEF Base
<1>4. CASE Rebalance
  <2>1. pc[owner'] = "idle" /\ UNCHANGED <<store, log, pc, msg, scope>>
    BY <1>4 DEF Rebalance, topic, work
  <2>2. RestOK'
    <3>1. \A c \in Consumers : c # owner' => pos'[c] = pos[c]
      BY <1>4 DEF Rebalance, Base, FeedInv, GroupOK
    <3>2. QED
      BY <2>1, <3>1 DEF Base, RestOK
  <2>3. FeedInv' /\ StoreOrder'
    BY <1>4, <2>1, RebalanceInv DEF Base, StoreOrder
  <2>4. QED
    BY <1>1, <2>2, <2>3 DEF Base
<1>5. CASE EmptyFetch
  <2>1. UNCHANGED feed /\ UNCHANGED <<store, log, owner, pos, pc, msg, scope>>
    BY <1>5 DEF EmptyFetch, feed, topic, group, work
  <2>2. FeedInv' /\ StoreOrder' /\ RestOK'
    BY <2>1, FeedStutters DEF Base, StoreOrder, RestOK
  <2>3. QED
    BY <1>1, <2>2 DEF Base
<1>6. QED
  BY <1>2, <1>3, <1>4, <1>5 DEF Environment

LEMMA StutterBase == ASSUME Base, UNCHANGED vars PROVE Base'
<1>1. /\ UNCHANGED feed /\ UNCHANGED <<store, log, owner, pos, pc, msg, scope>>
      /\ UNCHANGED <<summary, seen, clock, disturbed>>
  BY DEF vars, feed, topic, group, work
<1>2. FeedInv' /\ StoreOrder' /\ RestOK'
  BY <1>1, FeedStutters DEF Base, StoreOrder, RestOK
<1>3. TablesOK' /\ AloneOK' /\ ShowsOK'
  BY <1>1, ShowsKept DEF Base, TablesOK, AloneOK, Overlapping
<1>4. QED
  BY <1>2, <1>3 DEF Base

\* The steps there are.
LEMMA Steps ==
    ASSUME [Next]_vars
    PROVE  \/ UNCHANGED vars
           \/ /\ Recorded
              /\ \/ Environment
                 \/ \E c \in Consumers : Deliver(c)
                 \/ \E r \in Rebuilders : Rebuild(r) \/ ReadRebuildEvents(r)
                 \/ \E w \in Workers : ReadSummary(w) \/ Upsert(w) \/ CallFails(w)
BY DEF Next, Step, Project

LEMMA NextBase == Base /\ [Next]_vars => Base'
<1> SUFFICES ASSUME Base, [Next]_vars PROVE Base'
  OBVIOUS
<1>1. QED
  BY Steps, StutterBase, EnvironmentBase, DeliverBase, RebuildBase, ReadRebuildEventsBase,
     ReadSummaryBase, UpsertBase, CallFailsBase

\* The first invariant: no clock, order of messages, crash or overlap breaks it.
THEOREM TransferProjectionBase == Spec => []Base
<1>1. QED
  BY InitBase, NextBase, PTL DEF Spec

\* The feed, transfer_summary and the rows that projectors hold are well typed.
THEOREM TransferProjectionTypeCorrect == Spec => []TypeOK
<1>1. Base => TypeOK
  BY FeedInvType DEF Base, TablesOK, TypeOK
<1>2. QED
  BY <1>1, TransferProjectionBase, PTL

-----------------------------------------------------------------------------
(* Statuses never go back *)

\* A row changes by an upsert or is taken away.
LEMMA RowChanges ==
    ASSUME Base, [Next]_vars
    PROVE  \/ \E w \in Workers : pc[w] = "upsert" /\ WriteSummary(w)
           \/ \A t \in Streams : summary'[t] \in {NoRow, summary[t]}
<1>1. CASE UNCHANGED vars
  BY <1>1 DEF vars
<1>2. CASE Environment
  BY <1>2 DEF Environment
<1>3. ASSUME NEW c \in Consumers, Deliver(c) PROVE UNCHANGED summary
  BY <1>3 DEF Deliver
<1>4. ASSUME NEW r \in Rebuilders, Rebuild(r)
      PROVE  \A t \in Streams : summary'[t] \in {NoRow, summary[t]}
  <2>1. PICK sc \in Streams \cup {All} :
            \A t \in Streams : IF sc \in {All, t} THEN summary'[t] = NoRow
                               ELSE summary'[t] = summary[t]
    BY <1>4, RebuildResets DEF Base
  <2>2. QED
    BY <2>1
<1>5. ASSUME NEW r \in Rebuilders, ReadRebuildEvents(r) PROVE UNCHANGED summary
  BY <1>5 DEF ReadRebuildEvents
<1>6. ASSUME NEW w \in Workers, ReadSummary(w) \/ Upsert(w) \/ CallFails(w)
      PROVE  UNCHANGED summary \/ (pc[w] = "upsert" /\ WriteSummary(w))
  BY <1>6 DEF ReadSummary, Upsert, CallFails
<1>7. QED
  BY <1>1, <1>2, <1>3, <1>4, <1>5, <1>6, Steps

LEMMA ClockType ==
    ASSUME clock \in Clocks, NEW t \in Streams, NEW n \in 1..Length[t]
    PROVE  At(t, n) \in T!Events /\ clock[At(t, n)] \in Nat
<1>1. At(t, n) \in T!Events
  BY EventExists DEF At
<1>2. QED
  BY <1>1, TransferHistoryAssumption

LEMMA ClockOrder ==
    ASSUME ClockIncreases, clock \in Clocks, NEW t \in Streams,
           NEW m \in 1..Length[t], NEW n \in 1..Length[t]
    PROVE  m <= n <=> clock[At(t, m)] <= clock[At(t, n)]
<1>1. /\ At(t, m) \in T!Events /\ clock[At(t, m)] \in Nat
      /\ At(t, n) \in T!Events /\ clock[At(t, n)] \in Nat
  BY ClockType
<1>2. m < n => clock[At(t, m)] < clock[At(t, n)]
  BY <1>1 DEF ClockIncreases, At
<1>3. n < m => clock[At(t, n)] < clock[At(t, m)]
  BY <1>1 DEF ClockIncreases, At
<1>4. m \in Nat /\ n \in Nat
  BY LengthType
<1>5. QED
  BY <1>1, <1>2, <1>3, <1>4

\* A row is replaced by that of its own event or of a later one.
LEMMA RowAdvances ==
    ASSUME Base, [Next]_vars, ClockIncreases, NEW t \in Streams,
           summary[t].exists, summary'[t].exists, summary'[t] # summary[t]
    PROVE  \E m, n \in 1..Length[t] :
              /\ m <= n
              /\ summary[t].state.status = StatusAfter(At(t, m))
              /\ summary'[t].state.status = StatusAfter(At(t, n))
<1>1. PICK w \in Workers : pc[w] = "upsert" /\ WriteSummary(w)
  BY RowChanges, NoRowType
<1> DEFINE e == msg[w]
           new == Projected(seen[w], e)
<1>2. e \in T!Events
  BY <1>1 DEF Base, FeedInv, WorkOK, CommittedEvents
<1>3. /\ \A u \in Streams \ {e.stream} : summary'[u] = summary[u]
      /\ \/ summary'[e.stream] = new
            /\ (~summary[e.stream].exists \/ summary[e.stream].updatedAt <= clock[e])
         \/ summary'[e.stream] = summary[e.stream]
  BY <1>1, <1>2, WriteRow DEF Base
<1>4. t = e.stream /\ summary'[t] = new /\ summary[t].updatedAt <= clock[e]
  BY <1>3
<1>5. new.state.status = StatusAfter(e)
  BY ProjectedShows
<1>6. e.version \in 1..Length[t] /\ e = At(t, e.version)
  BY <1>2, <1>4, EventAt
<1>7. PICK m \in 1..Length[t] : /\ summary[t].updatedAt = clock[At(t, m)]
                                /\ summary[t].state.status = StatusAfter(At(t, m))
  BY DEF Base, ShowsOK, Bears
<1> HIDE DEF e, new
<1>8. clock[At(t, m)] <= clock[At(t, e.version)]
  BY <1>4, <1>6, <1>7
<1>9. m <= e.version
  BY <1>6, <1>8, ClockOrder DEF Base, TablesOK
<1>10. QED
  BY <1>4, <1>5, <1>6, <1>7, <1>9

LEMMA NoStatusBack ==
    ASSUME Base, [Next]_vars, ClockIncreases, NEW t \in Streams,
           summary[t].exists, summary'[t].exists,
           summary'[t].state.status # summary[t].state.status,
           NEW m \in 1..Length[t], NEW n \in 1..Length[t],
           summary[t].state.status = StatusAfter(At(t, m)),
           summary'[t].state.status = StatusAfter(At(t, n))
    PROVE  m < n
<1>1. PICK a, b \in 1..Length[t] : /\ a <= b
                                   /\ summary[t].state.status = StatusAfter(At(t, a))
                                   /\ summary'[t].state.status = StatusAfter(At(t, b))
  BY RowAdvances
<1> DEFINE old == summary[t].state.status
           new == summary'[t].state.status
<1>2. old \in TransferStatus /\ new \in TransferStatus
  BY StatusReplayed
<1>3. Rank[old] <= Rank[new]
  BY <1>1, StatusesInOrder
<1>4. Rank[old] \in Nat /\ Rank[new] \in Nat /\ Rank[old] # Rank[new]
  BY <1>2, RankInjective
<1>5. n <= m => Rank[new] <= Rank[old]
  BY StatusesInOrder
<1> HIDE DEF old, new
<1>6. m \in Nat /\ n \in Nat
  BY LengthType
<1>7. QED
  BY <1>3, <1>4, <1>5, <1>6

\* A row that is no longer there was taken away by the reset of a rebuild: nothing else
\* deletes it, and a rebuilder that starts is not running another rebuild.
LEMMA OnlyResetsTakeAway ==
    ASSUME Base, [Next]_vars, NEW t \in Streams, summary[t].exists, ~summary'[t].exists
    PROVE  Reset(t)
<1>1. ASSUME NEW w \in Workers, pc[w] = "upsert", WriteSummary(w) PROVE FALSE
  <2>1. msg[w] \in T!Events
    BY <1>1 DEF Base, FeedInv, WorkOK, CommittedEvents
  <2>2. summary'[t] = summary[t] \/ summary'[t] = Projected(seen[w], msg[w])
    BY <1>1, <2>1, WriteRow DEF Base
  <2>3. QED
    BY <2>2, ProjectedShows
<1>2. \A w \in Workers : ~(ReadSummary(w) \/ Upsert(w) \/ CallFails(w))
  BY <1>1 DEF ReadSummary, Upsert, CallFails
<1>3. PICK r \in Rebuilders : Rebuild(r)
  BY <1>2, Steps DEF Environment, Deliver, ReadRebuildEvents, vars
<1>4. PICK sc \in Streams \cup {All} :
          /\ StartRebuild(r, sc) /\ UNCHANGED seen
          /\ \A u \in Streams : IF sc \in {All, u} THEN summary'[u] = NoRow
                                ELSE summary'[u] = summary[u]
  BY <1>3, RebuildResets DEF Base
<1>5. pc[r] = "idle" /\ scope'[r] = sc
  BY <1>4, StartMoves DEF Base
<1>6. scope[r] = NoScope
  BY <1>5 DEF Base, RestOK
<1>7. sc \in {All, t} /\ summary'[t] = NoRow
  BY <1>4
<1>8. QED
  BY <1>5, <1>6, <1>7 DEF Reset

\* Whoever projects, and in whatever order events come: as long as the clock readings of a
\* stream increase, the status of a row moves forward in the aggregate's life cycle; only
\* the reset that begins a rebuild takes it away, whatever the clocks say.
THEOREM StatusMovesForward == Spec => StatusNeverBack
<1>1. ASSUME Base, [Next]_vars
      PROVE  [ClockIncreases => \A t \in Streams : summary[t].exists =>
                \/ Reset(t)
                \/ /\ summary'[t].exists
                   /\ \/ summary'[t].state.status = summary[t].state.status
                      \/ \A m, n \in 1..Length[t] :
                            /\ summary[t].state.status = StatusAfter([stream |-> t, version |-> m])
                            /\ summary'[t].state.status = StatusAfter([stream |-> t, version |-> n])
                            => m < n]_vars
  BY <1>1, NoStatusBack, OnlyResetsTakeAway DEF At
<1>2. QED
  BY <1>1, TransferProjectionBase, PTL DEF Spec, StatusNeverBack

-----------------------------------------------------------------------------
(* The second invariant: rows are replays, under the conditions of RowIsReplay *)

Good == ClockIncreases /\ InOrder /\ ~disturbed /\ ~aborted

Handling == {"read", "upsert"}

\* The row is that of some version up to last.
RowOK(t, row, last, times) == row.exists => \E n \in 1..last : row = RowAt(t, n, times)

\* The row is that of e or of a later event.
Shows(row, e, times) == row.exists /\ times[e] <= row.updatedAt

Reached(e) == Shows(summary[e.stream], e, clock)

\* There is no gap between the row and e.
NoGap(row, e, times) == e.version = 1 \/ Shows(row, At(e.stream, e.version - 1), times)

RowsOK == \A t \in Streams : RowOK(t, summary[t], version[t], clock)

\* What the group has handled shows in the table, or a rebuild is about to bring it back.
CoveredOK ==
    \A i \in Handled : Reached(log[i]) \/ \E r \in Rebuilders : scope[r] \in {All, log[i].stream}

\* An event meets a table without a gap, and so was the row its projector has read; the
\* table has not fallen behind that row.
WorkerOK(w) ==
    LET row == seen[w]
        current == summary[msg[w].stream]
    IN /\ pc[w] \in Handling => NoGap(current, msg[w], clock)
       /\ pc[w] = "upsert" =>
             /\ RowOK(msg[w].stream, row, version[msg[w].stream], clock)
             /\ NoGap(row, msg[w], clock)
             /\ row.exists => current.exists /\ row.updatedAt <= current.updatedAt

\* The rebuild of a stream goes through its versions one by one, up to what the group has
\* handled at least.
StreamPage(r) ==
    pc[r] \in Handling /\ scope[r] \in Streams =>
        /\ msg[r].stream = scope[r]
        /\ \A j \in 1..Len(todo[r]) : todo[r][j] = At(scope[r], msg[r].version + j)
        /\ \A i \in Handled :
              log[i].stream = scope[r] => log[i].version <= msg[r].version + Len(todo[r])

\* The rebuild of everything is at place i of the store: what comes before shows.
PageRead(r, i) ==
    /\ pc[r] = "events"
    /\ msg[r] = IF i = 0 THEN NoEvent ELSE store[i]
    /\ \A j \in 1..i : Reached(store[j])

PageAt(r, i) ==
    /\ pc[r] \in Handling
    /\ i >= 1 /\ msg[r] = store[i]
    /\ i + Len(todo[r]) <= Len(store)
    /\ \A j \in 1..Len(todo[r]) : todo[r][j] = store[i + j]
    /\ \A j \in 1..i - 1 : Reached(store[j])

AllPage(r) == scope[r] = All => \E i \in 0..Len(store) : PageRead(r, i) \/ PageAt(r, i)

RebuildOK(r) == StreamPage(r) /\ AllPage(r)

Live ==
    /\ RowsOK /\ CoveredOK
    /\ \A w \in Workers : WorkerOK(w)
    /\ \A r \in Rebuilders : RebuildOK(r)

IInv == Base /\ (Good => Live)

\* What every step leaves or lets grow.
Grows ==
    /\ clock' = clock
    /\ disturbed => disturbed'
    /\ aborted => aborted'
    /\ \A t \in Streams : version[t] <= version'[t]
    /\ \A i \in 1..Len(log) : i \in DOMAIN log' /\ log'[i] = log[i]

\* e shows after the step.
ReachedNext(e) == Shows(summary'[e.stream], e, clock')

\* No row falls behind.
Rises ==
    \A t \in Streams :
        summary[t].exists => summary'[t].exists /\ summary[t].updatedAt <= summary'[t].updatedAt

LEMMA LogFacts ==
    ASSUME Base
    PROVE  /\ Len(log) \in Nat /\ DOMAIN log = 1..Len(log)
           /\ pos \in [Consumers -> Nat] /\ \A c \in Consumers : pos[c] <= Len(log)
           /\ \A i \in 1..Len(log) : log[i] \in CommittedEvents /\ log[i] \in T!Events
           /\ \A i \in Handled : /\ i \in 1..Len(log)
                                 /\ log[i] \in CommittedEvents /\ log[i] \in T!Events
<1>1. /\ log \in Seq(CommittedEvents) /\ pos \in [Consumers -> Nat]
      /\ \A c \in Consumers : pos[c] <= Len(log)
  BY DEF Base, FeedInv, GroupOK
<1>2. Len(log) \in Nat /\ DOMAIN log = 1..Len(log) /\ \A i \in 1..Len(log) : log[i] \in CommittedEvents
  BY <1>1
<1>3. ASSUME NEW i \in Handled PROVE i \in 1..Len(log)
  <2>1. PICK c \in Consumers : i \in 1..pos[c]
    BY <1>3 DEF Handled
  <2>2. pos[c] \in Nat /\ pos[c] <= Len(log)
    BY <1>1
  <2>3. QED
    BY <1>2, <2>1, <2>2
<1>4. QED
  BY <1>1, <1>2, <1>3 DEF CommittedEvents

LEMMA SameHandled == UNCHANGED pos => Handled' = Handled
BY DEF Handled

\* Rebalances give back, and never add to, what the group has handled.
LEMMA RebalanceHandled == ASSUME Base, Rebalance PROVE Handled' \subseteq Handled
<1>1. PICK offset \in 0..pos[owner] : pos' = [pos EXCEPT ![owner'] = offset]
  BY DEF Rebalance
<1>2. pos \in [Consumers -> Nat] /\ owner \in Consumers
  BY DEF Base, FeedInv, GroupOK
<1>3. ASSUME NEW c \in Consumers, NEW i \in 1..pos'[c] PROVE i \in Handled
  <2>1. CASE c = owner'
    <3>1. i \in 1..pos[owner]
      BY <1>1, <1>2, <1>3, <2>1
    <3>2. QED
      BY <1>2, <3>1 DEF Handled
  <2>2. CASE c # owner'
    <3>1. pos'[c] = pos[c]
      BY <1>1, <1>2, <2>2
    <3>2. QED
      BY <1>3, <3>1 DEF Handled
  <2>3. QED
    BY <2>1, <2>2
<1>4. QED
  BY <1>3 DEF Handled

\* A consumer that is past its message has handled that one more.
LEMMA AdvanceHandled ==
    ASSUME Base, NEW c \in Consumers, pos' = [pos EXCEPT ![c] = @ + 1]
    PROVE  Handled' \subseteq Handled \cup {pos[c] + 1}
<1>1. pos \in [Consumers -> Nat]
  BY DEF Base, FeedInv, GroupOK
<1>2. ASSUME NEW d \in Consumers, NEW i \in 1..pos'[d], i # pos[c] + 1 PROVE i \in 1..pos[d]
  BY <1>1, <1>2
<1>3. QED
  BY <1>2 DEF Handled

LEMMA StoreFacts ==
    ASSUME Base
    PROVE  /\ store \in Seq(CommittedEvents)
           /\ Len(store) \in Nat /\ DOMAIN store = 1..Len(store)
           /\ \A i \in 1..Len(store) : store[i] \in CommittedEvents /\ store[i] \in T!Events
<1>1. store \in Seq(CommittedEvents)
  BY DEF Base, FeedInv, StoreOK
<1>2. Len(store) \in Nat /\ DOMAIN store = 1..Len(store) /\ \A i \in 1..Len(store) : store[i] \in CommittedEvents
  BY <1>1
<1>3. QED
  BY <1>1, <1>2 DEF CommittedEvents

LEMMA HandlingFacts ==
    ASSUME Base, NEW w \in Workers, pc[w] \in Handling
    PROVE  /\ msg[w] \in CommittedEvents /\ msg[w] \in T!Events
           /\ msg[w].stream \in Streams
           /\ msg[w].version \in 1..Length[msg[w].stream] /\ msg[w].version \in Nat
           /\ msg[w] = At(msg[w].stream, msg[w].version)
           /\ msg[w].version \in 1..version[msg[w].stream]
<1>1. msg[w] \in CommittedEvents
  BY DEF Base, FeedInv, WorkOK, Handling
<1>2. msg[w] \in T!Events /\ msg[w].version <= version[msg[w].stream]
  BY <1>1 DEF CommittedEvents, T!Committed
<1>3. /\ msg[w].stream \in Streams /\ msg[w].version \in 1..Length[msg[w].stream]
      /\ msg[w].version \in Nat /\ msg[w] = At(msg[w].stream, msg[w].version)
  BY <1>2, EventAt
<1>4. version[msg[w].stream] \in Nat /\ Length[msg[w].stream] \in Nat
  BY <1>3, LengthType DEF Base, FeedInv, VersionOK
<1>5. QED
  BY <1>1, <1>2, <1>3, <1>4

LEMMA RowType ==
    ASSUME Base, NEW t \in Streams
    PROVE  summary[t] \in Rows /\ summary[t].updatedAt \in Nat /\ summary[t].exists \in BOOLEAN
BY DEF Base, TablesOK, Rows

LEMMA TimeType == ASSUME Base, NEW e \in T!Events PROVE clock[e] \in Nat
BY TransferHistoryAssumption DEF Base, TablesOK

LEMMA StepGrows == ASSUME Base, [Next]_vars PROVE Grows
<1>0. /\ log \in Seq(CommittedEvents) /\ Len(log) \in Nat /\ DOMAIN log = 1..Len(log)
      /\ version \in [Streams -> Nat]
  BY DEF Base, FeedInv, GroupOK, VersionOK
<1>1. clock' = clock /\ (disturbed => disturbed')
  BY Steps, RecordedSteps DEF vars
<1> DEFINE Same == UNCHANGED <<version, log>> /\ (aborted => aborted')
<1>2. Same => Grows
  BY <1>0, <1>1 DEF Grows
<1>3. CASE UNCHANGED vars
  BY <1>2, <1>3 DEF vars, feed, topic, work
<1>4. CASE Environment
  <2>1. ASSUME NEW t \in Streams, CommitEvent(t) PROVE Grows
    <3>1. version' = [version EXCEPT ![t] = @ + 1] /\ UNCHANGED <<log, aborted>>
      BY <2>1 DEF CommitEvent, T!Commit, work
    <3>2. \A u \in Streams : version[u] <= version'[u]
      BY <1>0, <3>1
    <3>3. QED
      BY <1>0, <1>1, <3>1, <3>2 DEF Grows
  <2>2. ASSUME NEW e \in T!Events, SendEvent(e) PROVE Grows
    <3>1. log' = Append(log, e) /\ UNCHANGED <<version, aborted>> /\ e \in CommittedEvents
      BY <2>2 DEF SendEvent, T!Send, work, CommittedEvents
    <3>2. DOMAIN log' = 1..Len(log) + 1 /\ \A i \in 1..Len(log) : log'[i] = log[i]
      BY <1>0, <3>1, AppendProperties
    <3>3. QED
      BY <1>0, <1>1, <3>1, <3>2 DEF Grows
  <2>3. CASE Rebalance \/ EmptyFetch
    BY <1>2, <2>3 DEF Rebalance, EmptyFetch, feed, topic, work
  <2>4. QED
    BY <1>4, <2>1, <2>2, <2>3 DEF Environment
<1>5. ASSUME NEW c \in Consumers, Deliver(c) PROVE Grows
  BY <1>2, <1>5, DeliverMoves DEF Base
<1>6. ASSUME NEW r \in Rebuilders, Rebuild(r) \/ ReadRebuildEvents(r) PROVE Grows
  BY <1>2, <1>6 DEF Rebuild, StartRebuild, ReadRebuildEvents, ReadEvents, topic
<1>7. ASSUME NEW w \in Workers, ReadSummary(w) \/ Upsert(w) \/ CallFails(w) PROVE Grows
  <2>1. Throw(w) \/ Advance(w) \/ Goto(w, "upsert")
    BY <1>7 DEF ReadSummary, Upsert, CallFails
  <2>2. CASE Throw(w)
    BY <1>2, <2>2 DEF Throw, topic
  <2>3. CASE Advance(w)
    BY <1>2, <2>3 DEF Advance, topic
  <2>4. CASE Goto(w, "upsert")
    BY <1>2, <2>4 DEF Goto, topic
  <2>5. QED
    BY <2>1, <2>2, <2>3, <2>4
<1>8. QED
  BY <1>3, <1>4, <1>5, <1>6, <1>7, Steps

\* The conditions of RowIsReplay, once broken, stay broken.
LEMMA GoodBefore == ASSUME Base, Grows, Good' PROVE Good
<1>1. clock' = clock /\ ~disturbed /\ ~aborted
  BY DEF Grows, Good
<1>2. ClockIncreases
  BY <1>1 DEF Good, ClockIncreases
<1>3. Len(log) \in Nat /\ DOMAIN log = 1..Len(log)
  BY LogFacts
<1>4. InOrder
  <2> SUFFICES ASSUME NEW i \in 1..Len(log), NEW v \in 1..log[i].version - 1
               PROVE  \E j \in 1..i - 1 : log[j] = [stream |-> log[i].stream, version |-> v]
    BY <1>3 DEF InOrder
  <2>1. log'[i] = log[i] /\ i \in DOMAIN log'
    BY <1>3 DEF Grows
  <2>2. PICK j \in 1..i - 1 : log'[j] = [stream |-> log'[i].stream, version |-> v]
    BY <2>1 DEF Good, InOrder
  <2>3. log'[j] = log[j]
    BY <1>3 DEF Grows
  <2>4. QED
    BY <2>1, <2>2, <2>3
<1>5. QED
  BY <1>1, <1>2, <1>4 DEF Good

-----------------------------------------------------------------------------
(* What the parts of the second invariant need of a step *)

LEMMA RowOKGrows ==
    ASSUME NEW t, NEW row, NEW times, NEW m \in Nat, NEW n \in Nat, m <= n, RowOK(t, row, m, times)
    PROVE  RowOK(t, row, n, times)
BY DEF RowOK

LEMMA VersionGrows ==
    ASSUME Base, Base', Grows, NEW t \in Streams
    PROVE  version[t] \in Nat /\ version'[t] \in Nat /\ version[t] <= version'[t]
BY DEF Base, FeedInv, VersionOK, Grows

LEMMA ReachedKept ==
    ASSUME Base, Base', Grows, Rises, NEW e \in T!Events, Reached(e)
    PROVE  ReachedNext(e)
<1>1. e.stream \in Streams /\ clock[e] \in Nat
  BY EventAt, TimeType
<1>2. summary[e.stream].updatedAt \in Nat /\ summary'[e.stream].updatedAt \in Nat
  BY <1>1 DEF Base, TablesOK, Rows
<1>3. /\ summary[e.stream].exists /\ clock[e] <= summary[e.stream].updatedAt
      /\ summary'[e.stream].exists /\ summary[e.stream].updatedAt <= summary'[e.stream].updatedAt
  BY <1>1 DEF Reached, Shows, Rises
<1>4. Shows(summary'[e.stream], e, clock')
  BY <1>1, <1>2, <1>3 DEF Shows, Grows
<1>5. QED
  BY <1>4 DEF ReachedNext

LEMMA PreviousEvent ==
    ASSUME NEW e \in T!Events, e.version # 1
    PROVE  /\ At(e.stream, e.version - 1) \in T!Events
           /\ At(e.stream, e.version - 1).stream = e.stream
           /\ At(e.stream, e.version - 1).version = e.version - 1
<1>1. e.stream \in Streams /\ e.version \in 1..Length[e.stream] /\ Length[e.stream] \in Nat
  BY EventAt, LengthType
<1>2. e.version - 1 \in 1..Length[e.stream]
  BY <1>1
<1>3. QED
  BY <1>1, <1>2, EventExists DEF At

LEMMA NoGapReached ==
    ASSUME NEW e
    PROVE  NoGap(summary[e.stream], e, clock) <=>
               e.version = 1 \/ Reached(At(e.stream, e.version - 1))
BY DEF NoGap, Reached, At

LEMMA NoGapKept ==
    ASSUME Base, Base', Grows, Rises, NEW e \in T!Events, NoGap(summary[e.stream], e, clock)
    PROVE  NoGap(summary'[e.stream], e, clock')
<1> DEFINE f == At(e.stream, e.version - 1)
<1>1. CASE e.version = 1
  BY <1>1 DEF NoGap
<1>2. CASE e.version # 1
  <2>1. f \in T!Events /\ f.stream = e.stream
    BY <1>2, PreviousEvent
  <2>2. Reached(f)
    BY <1>2, NoGapReached
  <2> HIDE DEF f
  <2>3. ReachedNext(f)
    BY <2>1, <2>2, ReachedKept
  <2>4. Shows(summary'[e.stream], f, clock')
    BY <2>1, <2>3 DEF ReachedNext
  <2>5. QED
    BY <2>4 DEF NoGap, f
<1>3. QED
  BY <1>1, <1>2

\* A worker that stays where it is.
LEMMA WorkerKept ==
    ASSUME Base, Base', Grows, Rises, NEW w \in Workers, WorkerOK(w),
           pc'[w] = pc[w], msg'[w] = msg[w], seen'[w] = seen[w]
    PROVE  WorkerOK(w)'
<1> DEFINE t == msg[w].stream
<1>1. ASSUME pc[w] \in Handling PROVE NoGap(summary'[t], msg[w], clock')
  BY <1>1, HandlingFacts, NoGapKept DEF WorkerOK
<1>2. ASSUME pc[w] = "upsert"
      PROVE  /\ RowOK(t, seen[w], version'[t], clock')
             /\ NoGap(seen[w], msg[w], clock')
             /\ seen[w].exists => summary'[t].exists /\ seen[w].updatedAt <= summary'[t].updatedAt
  <2>1. t \in Streams
    BY <1>2, HandlingFacts DEF Handling
  <2>2. /\ RowOK(t, seen[w], version[t], clock) /\ NoGap(seen[w], msg[w], clock)
        /\ seen[w].exists => summary[t].exists /\ seen[w].updatedAt <= summary[t].updatedAt
    BY <1>2 DEF WorkerOK
  <2>3. /\ seen[w].updatedAt \in Nat /\ summary[t].updatedAt \in Nat
        /\ summary'[t].updatedAt \in Nat
    BY <2>1 DEF Base, TablesOK, Rows
  <2> HIDE DEF t
  <2>4. RowOK(t, seen[w], version'[t], clock)
    BY <2>1, <2>2, VersionGrows, RowOKGrows
  <2>5. seen[w].exists => summary'[t].exists /\ seen[w].updatedAt <= summary'[t].updatedAt
    BY <2>1, <2>2, <2>3 DEF Rises
  <2>6. QED
    BY <2>2, <2>4, <2>5 DEF Grows
<1>3. QED
  BY <1>1, <1>2 DEF WorkerOK

LEMMA RowsKept ==
    ASSUME Base, Base', Grows, RowsOK, \A t \in Streams : summary'[t] \in {summary[t], NoRow}
    PROVE  RowsOK'
<1>1. ASSUME NEW t \in Streams PROVE RowOK(t, summary'[t], version'[t], clock')
  <2>1. CASE summary'[t] = summary[t]
    BY <2>1, VersionGrows, RowOKGrows DEF RowsOK, Grows
  <2>2. CASE summary'[t] = NoRow
    BY <2>2, NoRowType DEF RowOK
  <2>3. QED
    BY <2>1, <2>2
<1>2. QED
  BY <1>1 DEF RowsOK

\* While a worker is at work, nobody else rebuilds, as long as nothing was disturbed.
LEMMA NoOtherRebuild ==
    ASSUME Base, Base', Grows, ~disturbed', NEW w \in Workers, Only(w),
           pc[w] # "idle" \/ pc'[w] # "idle", NEW q \in Rebuilders \ {w}
    PROVE  scope[q] = NoScope /\ scope'[q] = NoScope
<1>1. ~disturbed /\ scope'[q] = scope[q] /\ w \in Workers \ {q}
  BY DEF Grows, Only
<1>2. ASSUME pc[w] # "idle" PROVE scope[q] = NoScope
  BY <1>1, <1>2 DEF Base, AloneOK, Overlapping
<1>3. ASSUME pc'[w] # "idle" PROVE scope'[q] = NoScope
  BY <1>1, <1>3 DEF Base, AloneOK, Overlapping
<1>4. QED
  BY <1>1, <1>2, <1>3

\* What is left to show of a worker's step.
LEMMA WorkerLive ==
    ASSUME Base, Base', Grows, Rises, Good', Live, NEW w \in Workers, Only(w),
           pc[w] # "idle" \/ pc'[w] # "idle",
           RowsOK', CoveredOK', WorkerOK(w)', w \in Rebuilders => RebuildOK(w)'
    PROVE  Live'
<1>1. ASSUME NEW v \in Workers PROVE WorkerOK(v)'
  <2>1. CASE v = w
    BY <2>1
  <2>2. CASE v # w
    BY <2>2, WorkerKept DEF Live, Only
  <2>3. QED
    BY <2>1, <2>2
<1>2. ASSUME NEW q \in Rebuilders PROVE RebuildOK(q)'
  <2>1. CASE q = w
    BY <2>1
  <2>2. CASE q # w
    <3>1. scope'[q] = NoScope
      BY <2>2, NoOtherRebuild DEF Good
    <3>2. QED
      BY <3>1, FeedAssumption DEF RebuildOK, StreamPage, AllPage
  <2>3. QED
    BY <2>1, <2>2
<1>3. QED
  BY <1>1, <1>2 DEF Live

-----------------------------------------------------------------------------
(* The second invariant, step by step *)

\* An upsert in the conditions of RowIsReplay writes its event's row, or none: the row
\* its projector has read is at the version before, at the event's own, or so far ahead
\* that the table is later than the event.
LEMMA WriteReplays ==
    ASSUME Base, ClockIncreases, NEW w \in Workers, pc[w] = "upsert", WorkerOK(w),
           ~summary[msg[w].stream].exists \/ summary[msg[w].stream].updatedAt <= clock[msg[w]]
    PROVE  Projected(seen[w], msg[w]) = RowAt(msg[w].stream, msg[w].version, clock)
<1> DEFINE e == msg[w]
           t == e.stream
           k == e.version
           row == seen[w]
<1>1. t \in Streams /\ k \in 1..Length[t] /\ k \in Nat /\ e = At(t, k) /\ e \in T!Events
  BY HandlingFacts DEF Handling
<1>2. /\ RowOK(t, row, version[t], clock) /\ NoGap(row, e, clock)
      /\ row.exists => summary[t].exists /\ row.updatedAt <= summary[t].updatedAt
  BY DEF WorkerOK
<1>3. CASE k = 1
  BY <1>1, <1>3, ProjectedReplays
<1>4. CASE k # 1
  <2>1. row.exists /\ clock[At(t, k - 1)] <= row.updatedAt
    BY <1>2, <1>4 DEF NoGap, Shows
  <2>2. PICK m \in 1..version[t] : row = RowAt(t, m, clock)
    BY <1>2, <2>1 DEF RowOK
  <2>3. m \in 1..Length[t] /\ m \in Nat /\ k - 1 \in 1..Length[t]
    BY <1>1, <1>4, LengthType DEF Base, FeedInv, VersionOK
  <2>4. row.updatedAt = clock[At(t, m)]
    BY <2>2 DEF RowAt
  <2>5. k - 1 <= m
    BY <1>1, <2>1, <2>3, <2>4, ClockOrder DEF Base, TablesOK
  <2>6. m <= k
    <3>1. row.updatedAt <= summary[t].updatedAt /\ summary[t].updatedAt <= clock[e]
      BY <1>2, <2>1
    <3>2. row.updatedAt \in Nat /\ summary[t].updatedAt \in Nat /\ clock[e] \in Nat
      BY <1>1, TimeType, RowType DEF Base, TablesOK, Rows
    <3> HIDE DEF row, e, t
    <3>3. row.updatedAt <= clock[e]
      BY <3>1, <3>2
    <3>4. clock[At(t, m)] <= clock[At(t, k)]
      BY <1>1, <2>4, <3>3
    <3>5. QED
      BY <1>1, <2>3, <3>4, ClockOrder DEF Base, TablesOK
  <2> HIDE DEF row, t, k, e
  <2>7. m = k - 1 \/ m = k
    BY <1>1, <2>3, <2>5, <2>6
  <2>8. Projected(row, At(t, k)) = RowAt(t, k, clock)
    BY <1>1, <2>2, <2>7, ProjectedReplays
  <2>9. QED
    BY <1>1, <2>8 DEF row, t, k, e
<1>5. QED
  BY <1>3, <1>4

LEMMA WriteLive ==
    ASSUME Base, Base', Grows, Good, Live, UNCHANGED version,
           NEW w \in Workers, pc[w] = "upsert", WriteSummary(w)
    PROVE  Rises /\ RowsOK' /\ ReachedNext(msg[w])
<1> DEFINE e == msg[w]
           t == e.stream
           new == Projected(seen[w], e)
<1>1. t \in Streams /\ e \in T!Events /\ e.version \in 1..version[t]
  BY HandlingFacts DEF Handling
<1>2. /\ \A u \in Streams \ {t} : summary'[u] = summary[u]
      /\ \/ summary'[t] = new /\ (~summary[t].exists \/ summary[t].updatedAt <= clock[e])
         \/ summary'[t] = summary[t] /\ summary[t].exists /\ ~(summary[t].updatedAt <= clock[e])
  BY <1>1, WriteRow DEF Base
<1>3. new.exists /\ new.updatedAt = clock[e]
  BY ProjectedShows
<1>4. \A u \in Streams : summary[u].updatedAt \in Nat
  BY RowType
<1>5. clock[e] \in Nat /\ clock' = clock
  BY <1>1, TimeType DEF Grows
<1>6. summary'[t] = new => new = RowAt(t, e.version, clock)
  <2>1. CASE ~summary[t].exists \/ summary[t].updatedAt <= clock[e]
    BY <2>1, WriteReplays DEF Good, Live
  <2>2. CASE summary'[t] = summary[t] /\ summary[t].exists /\ ~(summary[t].updatedAt <= clock[e])
    <3>1. ASSUME summary'[t] = new PROVE FALSE
      <4>1. summary[t].updatedAt = clock[e]
        BY <1>3, <2>2, <3>1
      <4>2. QED
        BY <1>5, <2>2, <4>1
    <3>2. QED
      BY <3>1
  <2>3. QED
    BY <1>2, <2>1, <2>2
<1> HIDE DEF e, t, new
<1>7. Rises
  <2>1. ASSUME NEW u \in Streams, summary[u].exists
        PROVE  summary'[u].exists /\ summary[u].updatedAt <= summary'[u].updatedAt
    <3>1. CASE summary'[u] = summary[u]
      BY <1>4, <2>1, <3>1
    <3>2. CASE u = t /\ summary'[t] = new /\ summary[t].updatedAt <= clock[e]
      BY <1>3, <3>2
    <3>3. QED
      BY <1>2, <2>1, <3>1, <3>2
  <2>2. QED
    BY <2>1 DEF Rises
<1>8. RowsOK'
  <2>1. ASSUME NEW u \in Streams PROVE RowOK(u, summary'[u], version'[u], clock')
    <3>1. CASE summary'[u] = summary[u]
      BY <1>5, <3>1 DEF Live, RowsOK
    <3>2. CASE u = t /\ summary'[t] = new
      BY <1>1, <1>5, <1>6, <3>2 DEF RowOK
    <3>3. QED
      BY <1>2, <3>1, <3>2
  <2>2. QED
    BY <2>1 DEF RowsOK
<1>9. Shows(summary'[t], e, clock')
  <2>1. CASE summary'[t] = new
    BY <1>3, <1>5, <2>1 DEF Shows
  <2>2. CASE summary'[t] = summary[t] /\ summary[t].exists /\ ~(summary[t].updatedAt <= clock[e])
    BY <1>1, <1>4, <1>5, <2>2 DEF Shows
  <2>3. QED
    BY <1>2, <2>1, <2>2
<1>10. QED
  BY <1>7, <1>8, <1>9 DEF ReachedNext, e, t

\* Events handled show as before, if the rows rise and no rebuild ends.
LEMMA CoveredKept ==
    ASSUME Base, Base', Grows, Rises, CoveredOK, Handled' \subseteq Handled,
           \A r \in Rebuilders : scope[r] # NoScope => scope'[r] = scope[r]
    PROVE  CoveredOK'
<1> SUFFICES ASSUME NEW i \in Handled'
             PROVE  \/ ReachedNext(log'[i])
                    \/ \E r \in Rebuilders : scope'[r] \in {All, log'[i].stream}
  BY DEF CoveredOK, Reached, ReachedNext
<1>1. \A k \in Handled : k \in 1..Len(log) /\ log[k] \in T!Events
  BY LogFacts
<1>2. i \in Handled /\ i \in 1..Len(log)
  BY <1>1
<1>3. log'[i] = log[i] /\ log[i] \in T!Events /\ log[i].stream \in Streams
  BY <1>1, <1>2, EventAt DEF Grows
<1>4. CASE Reached(log[i])
  BY <1>3, <1>4, ReachedKept
<1>5. CASE \E r \in Rebuilders : scope[r] \in {All, log[i].stream}
  <2>1. PICK r \in Rebuilders : scope[r] \in {All, log[i].stream}
    BY <1>5
  <2>2. scope[r] # NoScope
    BY <1>3, <2>1, FeedAssumption
  <2>3. QED
    BY <1>3, <2>1, <2>2
<1>6. QED
  BY <1>2, <1>4, <1>5 DEF CoveredOK

LEMMA QuietRises == ASSUME Base, UNCHANGED summary PROVE Rises
<1>1. \A t \in Streams : summary[t].updatedAt \in Nat
  BY RowType
<1>2. QED
  BY <1>1 DEF Rises

\* Steps that neither move a worker nor change a row.
LEMMA QuietLive ==
    ASSUME Base, Base', Grows, Good', Live,
           UNCHANGED <<summary, seen, pc, msg, scope, todo>>, Handled' \subseteq Handled,
           \A r \in Rebuilders : scope[r] = All =>
               /\ Len(store) <= Len(store')
               /\ \A i \in 1..Len(store) : store'[i] = store[i]
    PROVE  Live'
<1>1. Rises
  BY QuietRises
<1>2. RowsOK'
  BY RowsKept DEF Live
<1>3. CoveredOK'
  BY <1>1, CoveredKept DEF Live
<1>4. \A w \in Workers : WorkerOK(w)'
  BY <1>1, WorkerKept DEF Live
<1>5. ASSUME NEW r \in Rebuilders PROVE StreamPage(r)'
  <2>1. StreamPage(r)
    BY DEF Live, RebuildOK
  <2>2. ASSUME NEW i \in Handled' PROVE i \in Handled /\ log'[i] = log[i]
    BY LogFacts DEF Grows
  <2>3. QED
    BY <2>1, <2>2 DEF StreamPage, At
<1>6. ASSUME NEW r \in Rebuilders PROVE AllPage(r)'
  <2> SUFFICES ASSUME scope[r] = All
               PROVE  \E i \in 0..Len(store') : PageRead(r, i)' \/ PageAt(r, i)'
    BY DEF AllPage
  <2>1. PICK i \in 0..Len(store) : PageRead(r, i) \/ PageAt(r, i)
    BY DEF Live, RebuildOK, AllPage
  <2>2. /\ Len(store) \in Nat /\ \A j \in 1..Len(store) : store[j] \in T!Events
    BY StoreFacts
  <2>3. Len(store') \in Nat /\ Len(store) <= Len(store')
    BY DEF Base, FeedInv, StoreOK
  <2>4. i \in 0..Len(store')
    BY <2>2, <2>3
  <2>5. ASSUME NEW j \in 1..Len(store), Reached(store[j]) PROVE ReachedNext(store'[j])
    BY <1>1, <2>2, <2>5, ReachedKept
  <2>6. CASE PageRead(r, i)
    <3>1. \A j \in 1..i : ReachedNext(store'[j])
      BY <2>2, <2>5, <2>6 DEF PageRead
    <3>2. i # 0 => store'[i] = store[i]
      BY <2>2
    <3>3. PageRead(r, i)'
      BY <2>6, <3>1, <3>2 DEF PageRead, Reached, ReachedNext
    <3>4. QED
      BY <2>4, <3>3
  <2>7. CASE PageAt(r, i)
    <3>0. Len(todo[r]) \in Nat
      BY DEF Base, FeedInv, WorkOK
    <3>1. \A j \in 1..i - 1 : ReachedNext(store'[j])
      BY <2>2, <2>5, <2>7 DEF PageAt
    <3>2. \A j \in 1..Len(todo[r]) : i + j \in 1..Len(store)
      BY <2>2, <2>7, <3>0 DEF PageAt
    <3>3. i \in 1..Len(store) /\ i + Len(todo[r]) <= Len(store')
      BY <2>2, <2>3, <2>7, <3>0 DEF PageAt
    <3>4. PageAt(r, i)'
      BY <2>7, <3>1, <3>2, <3>3 DEF PageAt, Reached, ReachedNext
    <3>5. QED
      BY <2>4, <3>4
  <2>8. QED
    BY <2>1, <2>6, <2>7
<1>7. QED
  BY <1>2, <1>3, <1>4, <1>5, <1>6 DEF Live, RebuildOK

LEMMA StutterLive == ASSUME Base, Base', Grows, Good', Live, UNCHANGED vars PROVE Live'
<1>1. UNCHANGED <<summary, seen, store, pos, pc, msg, scope, todo>>
  BY DEF vars, feed, topic, group, work
<1>2. Handled' \subseteq Handled /\ Len(store) \in Nat
  BY <1>1, StoreFacts DEF Handled
<1>3. QED
  BY <1>1, <1>2, QuietLive

LEMMA EnvironmentLive ==
    ASSUME Base, Base', Grows, Good', Live, Environment, Recorded
    PROVE  Live'
<1>0. UNCHANGED <<summary, seen>> /\ Len(store) \in Nat
  BY StoreFacts DEF Environment
<1>1. ASSUME NEW t \in Streams, CommitEvent(t) PROVE Live'
  <2>1. T!Commit(t) /\ UNCHANGED <<pos, pc, msg, scope, todo>>
    BY <1>1 DEF CommitEvent, group, work
  <2>2. ~Overtaken
    BY RecordedSteps DEF Good
  <2>3. ASSUME NEW r \in Rebuilders, scope[r] = All, NEW i \in 1..Len(store)
        PROVE  store'[i] = store[i]
    BY <2>2, <2>3, StoreFacts DEF Overtaken
  <2>4. Len(store) <= Len(store')
    <3> DEFINE new == [stream |-> t, version |-> version[t] + 1]
    <3>1. PICK i \in 0..Len(store) : store' = T!Insert(store, i, new)
      BY <2>1 DEF T!Commit
    <3> HIDE DEF new
    <3>2. store \in Seq(CommittedEvents \cup {new})
      BY SeqMonotonic DEF Base, FeedInv, StoreOK
    <3>3. Inserted(T!Insert(store, i, new), store, i, new)
      BY <3>2, InsertPlaces
    <3>4. QED
      BY <1>0, <3>1, <3>3 DEF Inserted
  <2>5. Handled' \subseteq Handled
    BY <2>1 DEF Handled
  <2>6. QED
    BY <1>0, <2>1, <2>3, <2>4, <2>5, QuietLive
<1>2. ASSUME NEW e \in T!Events, SendEvent(e) PROVE Live'
  <2>1. UNCHANGED <<store, pos, pc, msg, scope, todo>>
    BY <1>2 DEF SendEvent, T!Send, group, work
  <2>2. Handled' \subseteq Handled
    BY <2>1 DEF Handled
  <2>3. QED
    BY <1>0, <2>1, <2>2, QuietLive
<1>3. CASE Rebalance
  <2>1. UNCHANGED <<store, pc, msg, scope, todo>>
    BY <1>3 DEF Rebalance, topic, work
  <2>2. QED
    BY <1>0, <1>3, <2>1, RebalanceHandled, QuietLive
<1>4. CASE EmptyFetch
  <2>1. UNCHANGED <<store, pos, pc, msg, scope, todo>>
    BY <1>4 DEF EmptyFetch, feed, topic, group, work
  <2>2. Handled' \subseteq Handled
    BY <2>1 DEF Handled
  <2>3. QED
    BY <1>0, <2>1, <2>2, QuietLive
<1>5. QED
  BY <1>1, <1>2, <1>3, <1>4 DEF Environment

\* The next message of the partition: the version before it was handled earlier, no
\* rebuild is running, and so it shows.
LEMMA DeliverLive ==
    ASSUME Base, Base', Grows, Good, Good', Live, NEW c \in Consumers, Deliver(c)
    PROVE  Live'
<1>1. /\ c \in Workers /\ c \notin Rebuilders /\ Only(c) /\ pos[c] \in Nat /\ pos[c] < Len(log)
      /\ pc'[c] = "read" /\ msg'[c] = log[pos[c] + 1]
      /\ UNCHANGED <<log, pos, scope, summary, seen>>
  BY DeliverMoves DEF Base
<1>2. Rises
  BY <1>1, QuietRises
<1>3. RowsOK'
  BY <1>1, RowsKept DEF Live
<1>4. Handled' \subseteq Handled /\ Len(log) \in Nat /\ DOMAIN log = 1..Len(log)
  BY <1>1, LogFacts DEF Handled
<1>5. CoveredOK'
  BY <1>1, <1>2, <1>4, CoveredKept DEF Live
<1>6. \A r \in Rebuilders : scope[r] = NoScope
  BY <1>1, NoOtherRebuild DEF Good
<1>7. ASSUME NEW i \in Handled PROVE Reached(log[i])
  <2>1. log[i].stream \in Streams
    BY LogFacts, EventAt
  <2>2. \A r \in Rebuilders : ~(scope[r] \in {All, log[i].stream})
    BY <1>6, <2>1, FeedAssumption
  <2>3. QED
    BY <2>2 DEF Live, CoveredOK
<1> DEFINE e == log[pos[c] + 1]
<1>8. pos[c] + 1 \in 1..Len(log) /\ e \in T!Events
  BY <1>1, <1>4, LogFacts
<1>9. NoGap(summary[e.stream], e, clock)
  <2>1. CASE e.version = 1
    BY <2>1 DEF NoGap
  <2>2. CASE e.version # 1
    <3>1. e.version \in Nat /\ e.version >= 1
      BY <1>8, EventForm
    <3>2. e.version - 1 \in 1..e.version - 1
      BY <2>2, <3>1
    <3>3. PICK j \in 1..(pos[c] + 1) - 1 :
              log[j] = [stream |-> e.stream, version |-> e.version - 1]
      BY <1>4, <1>8, <3>2 DEF Good, InOrder
    <3>4. j \in Handled
      <4>1. j \in 1..pos[c]
        BY <1>1, <3>3
      <4>2. QED
        BY <4>1 DEF Handled
    <3>5. Reached(At(e.stream, e.version - 1))
      BY <1>7, <3>3, <3>4 DEF At
    <3>6. QED
      BY <3>5, NoGapReached
  <2>3. QED
    BY <2>1, <2>2
<1> HIDE DEF e
<1>10. WorkerOK(c)'
  BY <1>1, <1>9 DEF WorkerOK, Grows, e
<1>11. QED
  BY <1>1, <1>2, <1>3, <1>5, <1>10, WorkerLive

\* A rebuild that starts alone: what it takes away it is about to bring back.
LEMMA RebuildLive ==
    ASSUME Base, Base', Grows, Good', Live, NEW r \in Rebuilders, Rebuild(r)
    PROVE  Live'
<1>1. PICK sc \in Streams \cup {All} :
          /\ StartRebuild(r, sc) /\ UNCHANGED seen
          /\ \A t \in Streams : IF sc \in {All, t} THEN summary'[t] = NoRow
                                ELSE summary'[t] = summary[t]
  BY RebuildResets DEF Base
<1>2. /\ r \in Workers /\ Only(r) /\ pc[r] = "idle" /\ pc'[r] = "events" /\ scope'[r] = sc
      /\ UNCHANGED <<store, log, pos, msg>>
  BY <1>1, StartMoves DEF Base
<1>3. \A q \in Rebuilders \ {r} : scope[q] = NoScope /\ scope'[q] = NoScope
  BY <1>2, NoOtherRebuild DEF Good
<1>4. scope[r] = NoScope /\ sc # NoScope /\ msg'[r] = NoEvent
  BY <1>2, FeedAssumption DEF Base, RestOK
<1>5. \A w \in Workers \ {r} : pc'[w] = "idle"
  BY <1>2, <1>4 DEF Base, AloneOK, Overlapping, Good
<1>6. RowsOK'
  BY <1>1, RowsKept DEF Live
<1>7. CoveredOK'
  <2> SUFFICES ASSUME NEW i \in Handled
               PROVE  ReachedNext(log[i]) \/ scope'[r] \in {All, log[i].stream}
    BY <1>2 DEF CoveredOK, Reached, ReachedNext, Handled
  <2>1. log[i].stream \in Streams
    BY LogFacts, EventAt
  <2>2. Reached(log[i])
    <3>1. \A q \in Rebuilders : ~(scope[q] \in {All, log[i].stream})
      BY <1>3, <1>4, <2>1, FeedAssumption
    <3>2. QED
      BY <3>1 DEF Live, CoveredOK
  <2>3. CASE sc \in {All, log[i].stream}
    BY <1>2, <2>3
  <2>4. CASE sc \notin {All, log[i].stream}
    BY <1>1, <2>1, <2>2, <2>4 DEF Reached, ReachedNext, Grows
  <2>5. QED
    BY <2>3, <2>4
<1>8. \A w \in Workers : WorkerOK(w)'
  BY <1>2, <1>5 DEF WorkerOK, Handling
<1>9. ASSUME NEW q \in Rebuilders PROVE RebuildOK(q)'
  <2>1. CASE q # r
    BY <1>3, <2>1, FeedAssumption DEF RebuildOK, StreamPage, AllPage
  <2>2. CASE q = r
    <3>1. StreamPage(r)'
      BY <1>2 DEF StreamPage, Handling
    <3>2. PageRead(r, 0)'
      BY <1>2, <1>4 DEF PageRead
    <3>3. Len(store') \in Nat
      BY <1>2, StoreFacts
    <3>4. AllPage(r)'
      BY <3>2, <3>3 DEF AllPage
    <3>5. QED
      BY <2>2, <3>1, <3>4 DEF RebuildOK
  <2>3. QED
    BY <2>1, <2>2
<1>10. QED
  BY <1>6, <1>7, <1>8, <1>9 DEF Live

\* A worker that stops: a consumer's message comes again, a rebuild's is an abort.
LEMMA ThrowLive ==
    ASSUME Base, Base', Grows, Good, Good', Live, NEW w \in Workers, pc[w] # "idle", Throw(w),
           \A v \in Workers \ {w} : seen'[v] = seen[v],
           UNCHANGED summary \/ (pc[w] = "upsert" /\ WriteSummary(w))
    PROVE  Live'
<1>1. /\ Only(w) /\ pc'[w] = "idle" /\ UNCHANGED <<version, pos>>
      /\ w \in Rebuilders => aborted'
  BY ThrowMoves DEF Base
<1>2. w \notin Rebuilders
  BY <1>1 DEF Good
<1>3. UNCHANGED scope
  BY <1>2, WorkerKinds DEF Throw
<1>4. Rises /\ RowsOK'
  <2>1. CASE UNCHANGED summary
    BY <2>1, QuietRises, RowsKept DEF Live
  <2>2. CASE pc[w] = "upsert" /\ WriteSummary(w)
    BY <1>1, <2>2, WriteLive
  <2>3. QED
    BY <2>1, <2>2
<1>5. CoveredOK'
  BY <1>1, <1>3, <1>4, SameHandled, CoveredKept DEF Live
<1>6. WorkerOK(w)'
  BY <1>1 DEF WorkerOK, Handling
<1>7. QED
  BY <1>1, <1>2, <1>4, <1>5, <1>6, WorkerLive

LEMMA CallFailsLive ==
    ASSUME Base, Base', Grows, Good, Good', Live, NEW w \in Workers, CallFails(w)
    PROVE  Live'
<1>1. /\ pc[w] # "idle" /\ Throw(w) /\ seen' = [seen EXCEPT ![w] = NoRow]
      /\ UNCHANGED summary \/ (pc[w] = "upsert" /\ WriteSummary(w))
  BY DEF CallFails
<1>2. \A v \in Workers \ {w} : seen'[v] = seen[v]
  BY <1>1 DEF Base, TablesOK
<1>3. QED
  BY <1>1, <1>2, ThrowLive

\* The row a projector reads has no gap to its event.
LEMMA ReadSummaryLive ==
    ASSUME Base, Base', Grows, Good, Good', Live, NEW w \in Workers, ReadSummary(w)
    PROVE  Live'
<1>1. CASE Throw(w) /\ UNCHANGED <<seen, summary>>
  BY <1>1, ThrowLive DEF ReadSummary
<1>2. CASE Goto(w, "upsert") /\ seen' = [seen EXCEPT ![w] = summary[msg[w].stream]]
  <2> DEFINE t == msg[w].stream
  <2>1. pc[w] = "read" /\ UNCHANGED summary /\ seen' = [seen EXCEPT ![w] = summary[t]]
    BY <1>2 DEF ReadSummary
  <2>2. seen'[w] = summary[t] /\ \A v \in Workers \ {w} : seen'[v] = seen[v]
    BY <2>1 DEF Base, TablesOK
  <2>3. /\ Only(w) /\ pc'[w] = "upsert"
        /\ UNCHANGED <<version, store, log, pos, msg, scope, todo>>
    BY <1>2, <2>2, GotoMoves DEF Base
  <2>4. t \in Streams
    BY <2>1, HandlingFacts DEF Handling
  <2>5. Rises /\ RowsOK'
    BY <2>1, QuietRises, RowsKept DEF Live
  <2>6. CoveredOK'
    BY <2>3, <2>5, SameHandled, CoveredKept DEF Live
  <2>7. NoGap(summary[t], msg[w], clock) /\ RowOK(t, summary[t], version[t], clock)
    BY <2>1, <2>4 DEF Live, WorkerOK, RowsOK, Handling
  <2>8. summary[t].updatedAt \in Nat
    BY <2>4, RowType
  <2>9. WorkerOK(w)'
    BY <2>1, <2>2, <2>3, <2>7, <2>8 DEF WorkerOK, Grows
  <2>10. ASSUME w \in Rebuilders PROVE RebuildOK(w)'
    <3>1. StreamPage(w) /\ AllPage(w)
      BY <2>10 DEF Live, RebuildOK
    <3>2. StreamPage(w)'
      BY <2>1, <2>3, <3>1, SameHandled DEF StreamPage, Handling, At
    <3>3. \A j \in 1..Len(store) : Reached(store[j]) => Reached(store[j])'
      BY <2>1, <2>3 DEF Reached, Grows
    <3>4. ASSUME NEW i \in 0..Len(store), PageRead(w, i) \/ PageAt(w, i) PROVE PageAt(w, i)'
      <4>1. PageAt(w, i)
        BY <2>1, <3>4 DEF PageRead
      <4>2. \A j \in 1..i - 1 : j \in 1..Len(store)
        BY StoreFacts
      <4>3. QED
        BY <2>1, <2>3, <3>3, <4>1, <4>2 DEF PageAt, Handling
    <3>5. AllPage(w)'
      BY <2>3, <3>1, <3>4 DEF AllPage
    <3>6. QED
      BY <3>2, <3>5 DEF RebuildOK
  <2>11. QED
    BY <2>1, <2>3, <2>5, <2>6, <2>9, <2>10, WorkerLive
<1>3. QED
  BY <1>1, <1>2 DEF ReadSummary

LEMMA HeadTail ==
    ASSUME NEW S, NEW seq \in Seq(S), seq # <<>>
    PROVE  /\ Len(seq) \in Nat /\ Len(seq) >= 1 /\ Head(seq) = seq[1]
           /\ Len(Tail(seq)) = Len(seq) - 1
           /\ \A j \in 1..Len(seq) - 1 : Tail(seq)[j] = seq[j + 1]
OBVIOUS

LEMMA StreamPageRead ==
    ASSUME Base, NEW t \in Streams
    PROVE  /\ StreamEvents(t) \in Seq(CommittedEvents)
           /\ Len(StreamEvents(t)) = version[t] /\ version[t] \in Nat
           /\ \A j \in 1..version[t] : StreamEvents(t)[j] = At(t, j)
<1>1. StreamEvents(t) \in Seq(CommittedEvents) /\ version[t] \in Nat
  BY StreamEventsType DEF Base, FeedInv, VersionOK
<1>2. DOMAIN StreamEvents(t) = 1..version[t] /\ \A j \in 1..version[t] : StreamEvents(t)[j] = At(t, j)
  BY DEF StreamEvents, At
<1>3. QED
  BY <1>1, <1>2

\* The position of an event in the store is known.
LEMMA StorePlaces ==
    ASSUME Base, NEW i \in 1..Len(store), NEW j \in 1..Len(store), store[i] = store[j]
    PROVE  i = j
<1>1. store[i].version \in Nat /\ i \in DOMAIN store /\ j \in DOMAIN store /\ Len(store) \in Nat
  BY StoreFacts, EventAt
<1>2. ~(i < j) /\ ~(j < i)
  BY <1>1 DEF Base, StoreOrder
<1>3. QED
  BY <1>1, <1>2

\* readAll goes on after the place of its checkpoint.
LEMMA AllPageRead ==
    ASSUME Base, NEW i \in 0..Len(store), NEW e, e = IF i = 0 THEN NoEvent ELSE store[i]
    PROVE  /\ EventsAfter(e) \in Seq(CommittedEvents)
           /\ Len(EventsAfter(e)) = Len(store) - i
           /\ \A j \in 1..Len(store) - i : EventsAfter(e)[j] = store[i + j]
<1>0. /\ store \in Seq(CommittedEvents) /\ Len(store) \in Nat /\ DOMAIN store = 1..Len(store)
      /\ \A k \in 1..Len(store) : store[k] \in CommittedEvents /\ store[k] \in T!Events
  BY StoreFacts
<1>1. CASE i = 0
  BY <1>0, <1>1 DEF EventsAfter
<1>2. CASE i # 0
  <2> DEFINE at == CHOOSE j \in DOMAIN store : store[j] = e
             page == SubSeq(store, i + 1, Len(store))
  <2>1. i \in 1..Len(store) /\ e = store[i] /\ e # NoEvent
    BY <1>0, <1>2, FeedAssumption
  <2>2. at \in DOMAIN store /\ store[at] = e
    BY <1>0, <2>1
  <2>3. at = i
    BY <1>0, <2>1, <2>2, StorePlaces
  <2> HIDE DEF at
  <2>4. EventsAfter(e) = page
    BY <2>1, <2>3 DEF EventsAfter, at
  <2>5. /\ page \in Seq(CommittedEvents)
        /\ Len(page) = IF i + 1 <= Len(store) THEN Len(store) - (i + 1) + 1 ELSE 0
        /\ \A k \in 1..Len(store) - (i + 1) + 1 : page[k] = store[(i + 1) + k - 1]
    <3>1. i + 1 \in Int /\ Len(store) \in Int /\ \A k \in i + 1..Len(store) : store[k] \in CommittedEvents
      BY <1>0
    <3>2. QED
      BY <3>1, SubSeqProperties
  <2> HIDE DEF page
  <2>6. Len(page) = Len(store) - i
    <3>1. i + 1 <= Len(store) \/ i = Len(store)
      BY <1>0, AtEndOrBefore
    <3>2. CASE i + 1 <= Len(store)
      <4>1. Len(store) - (i + 1) + 1 = Len(store) - i
        BY <1>0
      <4>2. QED
        BY <2>5, <3>2, <4>1
    <3>3. CASE i = Len(store)
      <4>1. ~(i + 1 <= i) /\ i - i = 0
        BY <1>0
      <4>2. QED
        BY <2>5, <3>3, <4>1
    <3>4. QED
      BY <3>1, <3>2, <3>3
  <2>7. ASSUME NEW k \in 1..Len(store) - i PROVE page[k] = store[i + k]
    <3>1. k \in 1..Len(store) - (i + 1) + 1 /\ (i + 1) + k - 1 = i + k
      BY <1>0
    <3>2. QED
      BY <2>5, <3>1
  <2>8. QED
    BY <2>4, <2>5, <2>6, <2>7
<1>3. QED
  BY <1>1, <1>2

\* The version before an event is at a lower position.
LEMMA StorePrevious ==
    ASSUME Base, NEW i \in 1..Len(store), store[i].version # 1
    PROVE  \E j \in 1..i - 1 : store[j] = At(store[i].stream, store[i].version - 1)
<1> DEFINE e == store[i]
           f == At(e.stream, e.version - 1)
<1>1. e \in T!Events /\ e.version <= version[e.stream] /\ DOMAIN store = 1..Len(store) /\ Len(store) \in Nat
  BY StoreFacts DEF CommittedEvents, T!Committed
<1>2. f \in T!Events /\ f.stream = e.stream /\ f.version = e.version - 1
  BY <1>1, PreviousEvent
<1>3. e.version \in Nat /\ version[e.stream] \in Nat /\ e.stream \in Streams
  BY <1>1, EventAt DEF Base, FeedInv, VersionOK
<1> HIDE DEF e, f
<1>4. f \in CommittedEvents
  BY <1>1, <1>2, <1>3 DEF CommittedEvents, T!Committed
<1>5. PICK j \in 1..Len(store) : store[j] = f
  BY <1>1, <1>4 DEF Base, FeedInv, StoreOK, T!Contents
<1>6. ~(i < j)
  BY <1>1, <1>2, <1>3, <1>5 DEF Base, StoreOrder, e
<1>7. i # j
  BY <1>2, <1>3, <1>5 DEF e
<1>8. j \in 1..i - 1
  BY <1>1, <1>6, <1>7
<1>9. QED
  BY <1>5, <1>8 DEF f, e

\* A page that goes on from place i of the store.
LEMMA PageStarts ==
    ASSUME Base, Base', Grows, Rises, NEW r \in Rebuilders, UNCHANGED store,
           NEW i \in 0..Len(store), \A j \in 1..i : ReachedNext(store[j]),
           NEW page \in Seq(CommittedEvents), page # <<>>, i + Len(page) <= Len(store),
           \A j \in 1..Len(page) : page[j] = store[i + j],
           pc'[r] = "read", msg'[r] = Head(page), todo'[r] = Tail(page)
    PROVE  PageAt(r, i + 1)' /\ i + 1 \in 0..Len(store') /\ WorkerOK(r)'
<1>0. Len(store) \in Nat /\ DOMAIN store = 1..Len(store)
  BY StoreFacts
<1>1. /\ Len(page) \in Nat /\ Len(page) >= 1 /\ Head(page) = page[1]
      /\ Len(Tail(page)) = Len(page) - 1
      /\ \A j \in 1..Len(page) - 1 : Tail(page)[j] = page[j + 1]
  BY HeadTail
<1>2. i + 1 \in 1..Len(store) /\ msg'[r] = store[i + 1] /\ i + 1 \in 0..Len(store')
  BY <1>0, <1>1
<1>3. Len(todo'[r]) = Len(page) - 1 /\ (i + 1) + Len(todo'[r]) <= Len(store)
  BY <1>0, <1>1
<1>4. ASSUME NEW j \in 1..Len(todo'[r]) PROVE todo'[r][j] = store[(i + 1) + j]
  <2>1. j \in 1..Len(page) - 1 /\ j + 1 \in 1..Len(page) /\ i + (j + 1) = (i + 1) + j
    BY <1>1, <1>3
  <2>2. todo'[r][j] = page[j + 1] /\ page[j + 1] = store[i + (j + 1)]
    BY <1>1, <2>1
  <2>3. QED
    BY <2>1, <2>2
<1>5. \A j \in 1..(i + 1) - 1 : Reached(store[j])'
  BY <1>0 DEF Reached, ReachedNext
<1>6. PageAt(r, i + 1)'
  BY <1>0, <1>2, <1>3, <1>4, <1>5 DEF PageAt, Handling
<1> DEFINE e == store[i + 1]
<1>7. NoGap(summary'[e.stream], e, clock')
  <2>1. CASE e.version = 1
    BY <2>1 DEF NoGap
  <2>2. CASE e.version # 1
    <3>1. PICK j \in 1..(i + 1) - 1 : store[j] = At(e.stream, e.version - 1)
      BY <1>2, <2>2, StorePrevious
    <3>2. ReachedNext(store[j])
      BY <1>0, <3>1
    <3>3. Shows(summary'[e.stream], At(e.stream, e.version - 1), clock')
      BY <3>1, <3>2 DEF ReachedNext, At
    <3>4. QED
      BY <3>3 DEF NoGap
  <2>3. QED
    BY <2>1, <2>2
<1>8. WorkerOK(r)'
  BY <1>2, <1>7 DEF WorkerOK
<1>9. QED
  BY <1>2, <1>6, <1>8

LEMMA ReadRebuildEventsLive ==
    ASSUME Base, Base', Grows, Good, Good', Live, NEW r \in Rebuilders, ReadRebuildEvents(r)
    PROVE  Live'
<1>1. /\ r \in Workers /\ Only(r) /\ pc[r] = "events"
      /\ UNCHANGED <<version, store, log, pos, summary, seen>>
      /\ \/ /\ PageOf(r) = <<>>
            /\ pc'[r] = "idle" /\ msg'[r] = NoEvent /\ scope'[r] = NoScope
         \/ /\ PageOf(r) # <<>> /\ pc'[r] = "read" /\ msg'[r] = Head(PageOf(r))
            /\ todo'[r] = Tail(PageOf(r)) /\ scope'[r] = scope[r]
  BY ReadMoves DEF Base
<1>2. Rises /\ RowsOK'
  BY <1>1, QuietRises, RowsKept DEF Live
<1>3. \A q \in Rebuilders \ {r} : scope[q] = NoScope /\ scope'[q] = NoScope
  BY <1>1, NoOtherRebuild DEF Good
<1>4. scope[r] \in Streams \/ scope[r] = All
  BY <1>1 DEF Base, FeedInv, WorkOK
<1>5. scope[r] \in Streams =>
        /\ PageOf(r) = StreamEvents(scope[r]) /\ PageOf(r) \in Seq(CommittedEvents)
        /\ Len(PageOf(r)) = version[scope[r]] /\ version[scope[r]] \in Nat
        /\ \A j \in 1..version[scope[r]] : PageOf(r)[j] = At(scope[r], j)
  BY StreamPageRead, FeedAssumption DEF PageOf
<1>6. ASSUME scope[r] = All
      PROVE  \E i \in 0..Len(store) :
                /\ \A j \in 1..i : Reached(store[j])
                /\ PageOf(r) \in Seq(CommittedEvents) /\ Len(PageOf(r)) = Len(store) - i
                /\ \A j \in 1..Len(store) - i : PageOf(r)[j] = store[i + j]
  <2>1. PICK i \in 0..Len(store) : PageRead(r, i)
    BY <1>1, <1>6 DEF Live, RebuildOK, AllPage, PageAt, Handling
  <2>2. /\ msg[r] = (IF i = 0 THEN NoEvent ELSE store[i])
        /\ \A j \in 1..i : Reached(store[j])
    BY <2>1 DEF PageRead
  <2>3. PageOf(r) = EventsAfter(msg[r])
    BY <1>6 DEF PageOf
  <2>4. /\ EventsAfter(msg[r]) \in Seq(CommittedEvents)
        /\ Len(EventsAfter(msg[r])) = Len(store) - i
        /\ \A j \in 1..Len(store) - i : EventsAfter(msg[r])[j] = store[i + j]
    BY <2>2, AllPageRead
  <2>5. QED
    BY <2>2, <2>3, <2>4
<1>7. Len(store) \in Nat /\ Handled' = Handled
  BY <1>1, StoreFacts DEF Handled
<1>8. CASE PageOf(r) = <<>>
  <2>1. pc'[r] = "idle" /\ scope'[r] = NoScope
    BY <1>1, <1>8
  <2>2. ASSUME NEW k \in Handled PROVE Reached(log[k])
    <3>0. /\ log[k] \in CommittedEvents /\ log[k].stream \in Streams /\ log[k].version \in Nat
          /\ log[k].version >= 1 /\ log[k].version <= version[log[k].stream]
      BY LogFacts, EventForm DEF CommittedEvents, T!Committed
    <3>1. CASE scope[r] = All
      <4>1. PICK i \in 0..Len(store) : /\ \A j \in 1..i : Reached(store[j])
                                       /\ Len(PageOf(r)) = Len(store) - i
        BY <1>6, <3>1
      <4>2. i = Len(store)
        BY <1>7, <1>8, <4>1
      <4>3. PICK j \in 1..Len(store) : store[j] = log[k]
        BY <3>0, StoreFacts DEF Base, FeedInv, StoreOK, T!Contents
      <4>4. QED
        BY <4>1, <4>2, <4>3
    <3>2. CASE scope[r] \in Streams
      <4>1. version[scope[r]] = 0
        BY <1>5, <1>8, <3>2
      <4>2. log[k].stream # scope[r]
        BY <3>0, <4>1
      <4>3. \A q \in Rebuilders : ~(scope[q] \in {All, log[k].stream})
        BY <1>3, <3>0, <3>2, <4>2, FeedAssumption
      <4>4. QED
        BY <4>3 DEF Live, CoveredOK
    <3>3. QED
      BY <1>4, <3>1, <3>2
  <2>3. CoveredOK'
    BY <1>1, <1>7, <2>2 DEF CoveredOK, Reached, Grows
  <2>4. WorkerOK(r)'
    BY <2>1 DEF WorkerOK, Handling
  <2>5. RebuildOK(r)'
    BY <2>1, FeedAssumption DEF RebuildOK, StreamPage, AllPage
  <2>6. QED
    BY <1>1, <1>2, <2>3, <2>4, <2>5, WorkerLive
<1>9. CASE PageOf(r) # <<>>
  <2>1. /\ pc'[r] = "read" /\ msg'[r] = Head(PageOf(r)) /\ todo'[r] = Tail(PageOf(r))
        /\ scope'[r] = scope[r]
    BY <1>1, <1>9
  <2>2. CoveredOK'
    BY <1>1, <1>2, <1>3, <1>7, <2>1, CoveredKept DEF Live
  <2>3. CASE scope[r] = All
    <3>1. PICK i \in 0..Len(store) :
              /\ \A j \in 1..i : Reached(store[j])
              /\ PageOf(r) \in Seq(CommittedEvents) /\ Len(PageOf(r)) = Len(store) - i
              /\ \A j \in 1..Len(store) - i : PageOf(r)[j] = store[i + j]
      BY <1>6, <2>3
    <3>2. \A j \in 1..i : ReachedNext(store[j])
      BY <1>1, <3>1 DEF Reached, ReachedNext, Grows
    <3>3. i + Len(PageOf(r)) <= Len(store)
      BY <1>7, <3>1
    <3>4. PageAt(r, i + 1)' /\ i + 1 \in 0..Len(store') /\ WorkerOK(r)'
      BY <1>1, <1>2, <1>9, <2>1, <3>1, <3>2, <3>3, PageStarts
    <3>5. RebuildOK(r)'
      BY <2>1, <2>3, <3>4, FeedAssumption DEF RebuildOK, StreamPage, AllPage
    <3>6. QED
      BY <1>1, <1>2, <2>2, <3>4, <3>5, WorkerLive
  <2>4. CASE scope[r] \in Streams
    <3> DEFINE t == scope[r]
    <3>1. /\ version[t] \in Nat /\ version[t] >= 1
          /\ msg'[r] = At(t, 1) /\ Len(todo'[r]) = version[t] - 1
          /\ \A j \in 1..version[t] - 1 : todo'[r][j] = At(t, 1 + j)
      <4>1. /\ Len(PageOf(r)) >= 1 /\ Head(PageOf(r)) = PageOf(r)[1]
            /\ Len(Tail(PageOf(r))) = Len(PageOf(r)) - 1
            /\ \A j \in 1..Len(PageOf(r)) - 1 : Tail(PageOf(r))[j] = PageOf(r)[j + 1]
        BY <1>5, <1>9, <2>4, HeadTail
      <4>2. ASSUME NEW j \in 1..version[t] - 1 PROVE todo'[r][j] = At(t, 1 + j)
        <5>1. j + 1 \in 1..version[t] /\ j + 1 = 1 + j
          BY <1>5, <2>4
        <5>2. QED
          BY <1>5, <2>1, <2>4, <4>1, <5>1
      <4>3. QED
        BY <1>5, <2>1, <2>4, <4>1, <4>2
    <3>2. msg'[r].stream = t /\ msg'[r].version = 1
      BY <3>1 DEF At
    <3>3. WorkerOK(r)'
      BY <2>1, <3>2 DEF WorkerOK, NoGap
    <3>4. ASSUME NEW k \in Handled, log[k].stream = t
          PROVE  log[k].version <= 1 + Len(todo'[r])
      <4>1. log[k].version <= version[t]
        BY <3>4, LogFacts DEF CommittedEvents, T!Committed
      <4>2. QED
        BY <3>1, <4>1
    <3>5. StreamPage(r)'
      BY <1>1, <1>7, <2>1, <3>1, <3>2, <3>4 DEF StreamPage, At
    <3>6. AllPage(r)'
      BY <2>1, <2>4, FeedAssumption DEF AllPage
    <3>7. QED
      BY <1>1, <1>2, <2>2, <3>3, <3>5, <3>6, WorkerLive DEF RebuildOK
  <2>5. QED
    BY <1>4, <2>3, <2>4
<1>10. QED
  BY <1>8, <1>9

\* A rebuild of everything after the event at place i shows.
LEMMA AllGoesOn ==
    ASSUME Base, Base', Grows, Rises, NEW r \in Rebuilders, scope[r] = All, AllPage(r),
           pc[r] = "upsert", UNCHANGED store, ReachedNext(msg[r]), NextEvent(r) \/ NextPage(r)
    PROVE  RebuildOK(r)' /\ WorkerOK(r)'
<1>0. /\ Len(store) \in Nat /\ \A j \in 1..Len(store) : store[j] \in T!Events
      /\ todo[r] \in Seq(CommittedEvents) /\ Len(todo[r]) \in Nat
  BY StoreFacts DEF Base, FeedInv, WorkOK
<1>1. PICK i \in 0..Len(store) : PageAt(r, i)
  BY DEF AllPage, PageRead
<1>2. /\ i \in 1..Len(store) /\ msg[r] = store[i] /\ i + Len(todo[r]) <= Len(store)
      /\ \A j \in 1..Len(todo[r]) : todo[r][j] = store[i + j]
      /\ \A j \in 1..i - 1 : Reached(store[j])
  BY <1>0, <1>1 DEF PageAt
<1>3. ASSUME NEW j \in 1..i PROVE ReachedNext(store[j])
  <2>1. CASE j = i
    BY <1>2, <2>1
  <2>2. CASE j # i
    <3>1. j \in 1..i - 1 /\ j \in 1..Len(store)
      BY <1>0, <1>2, <2>2
    <3>2. QED
      BY <1>0, <1>2, <3>1, ReachedKept
  <2>3. QED
    BY <2>1, <2>2
<1>4. StreamPage(r)'
  BY FeedAssumption DEF StreamPage, NextEvent, NextPage
<1>5. CASE NextEvent(r)
  <2>1. /\ todo[r] # <<>> /\ pc'[r] = "read" /\ msg'[r] = Head(todo[r])
        /\ todo'[r] = Tail(todo[r])
    BY <1>5 DEF NextEvent
  <2>2. PageAt(r, i + 1)' /\ i + 1 \in 0..Len(store') /\ WorkerOK(r)'
    BY <1>0, <1>2, <1>3, <2>1, PageStarts
  <2>3. AllPage(r)'
    BY <2>2 DEF AllPage
  <2>4. QED
    BY <1>4, <2>2, <2>3 DEF RebuildOK
<1>6. CASE NextPage(r)
  <2>1. pc'[r] = "events" /\ msg'[r] = msg[r]
    BY <1>6 DEF NextPage
  <2>2. PageRead(r, i)'
    BY <1>2, <1>3, <2>1 DEF PageRead, Reached, ReachedNext
  <2>3. AllPage(r)'
    BY <2>2 DEF AllPage
  <2>4. WorkerOK(r)'
    BY <2>1 DEF WorkerOK, Handling
  <2>5. QED
    BY <1>4, <2>3, <2>4 DEF RebuildOK
<1>7. QED
  BY <1>5, <1>6

\* A rebuild of a stream turns to the next version.
LEMMA StreamGoesOn ==
    ASSUME Base, Base', Grows, Rises, NEW r \in Rebuilders, scope[r] \in Streams, StreamPage(r),
           pc[r] = "upsert", UNCHANGED <<log, Handled>>, ReachedNext(msg[r]), NextEvent(r)
    PROVE  RebuildOK(r)' /\ WorkerOK(r)'
<1> DEFINE t == scope[r]
           v == msg[r].version
<1>0. /\ todo[r] \in Seq(CommittedEvents) /\ todo[r] # <<>> /\ r \in Workers
      /\ pc'[r] = "read" /\ msg'[r] = Head(todo[r]) /\ todo'[r] = Tail(todo[r]) /\ scope'[r] = t
  BY DEF Base, FeedInv, WorkOK, NextEvent, Workers
<1>1. /\ Len(todo[r]) \in Nat /\ Len(todo[r]) >= 1 /\ Head(todo[r]) = todo[r][1]
      /\ Len(Tail(todo[r])) = Len(todo[r]) - 1
      /\ \A j \in 1..Len(todo[r]) - 1 : Tail(todo[r])[j] = todo[r][j + 1]
  BY <1>0, HeadTail
<1>2. v \in Nat /\ msg[r] = At(msg[r].stream, v)
  BY <1>0, HandlingFacts DEF Handling
<1>3. /\ msg[r].stream = t
      /\ \A j \in 1..Len(todo[r]) : todo[r][j] = At(t, v + j)
      /\ \A i \in Handled : log[i].stream = t => log[i].version <= v + Len(todo[r])
  BY DEF StreamPage, Handling
<1>4. ReachedNext(At(t, v))
  BY <1>2, <1>3
<1> HIDE DEF t, v
<1>5. msg'[r] = At(t, v + 1)
  BY <1>0, <1>1, <1>3
<1>6. msg'[r].stream = t /\ msg'[r].version = v + 1 /\ (v + 1) - 1 = v
  BY <1>2, <1>5 DEF At
<1>7. WorkerOK(r)'
  <2>1. Shows(summary'[t], At(t, v), clock')
    BY <1>4 DEF ReachedNext, At
  <2>2. NoGap(summary'[t], msg'[r], clock')
    BY <1>6, <2>1 DEF NoGap
  <2>3. QED
    BY <1>0, <1>6, <2>2 DEF WorkerOK
<1>8. ASSUME NEW j \in 1..Len(todo'[r]) PROVE todo'[r][j] = At(t, msg'[r].version + j)
  <2>1. j \in 1..Len(todo[r]) - 1 /\ j + 1 \in 1..Len(todo[r]) /\ v + (j + 1) = (v + 1) + j
    BY <1>0, <1>1, <1>2
  <2>2. QED
    BY <1>0, <1>1, <1>3, <1>6, <2>1
<1>9. msg'[r].version + Len(todo'[r]) = v + Len(todo[r])
  BY <1>0, <1>1, <1>2, <1>6
<1>10. StreamPage(r)'
  BY <1>0, <1>3, <1>6, <1>8, <1>9 DEF StreamPage, At
<1>11. AllPage(r)'
  BY <1>0, FeedAssumption DEF AllPage, t
<1>12. QED
  BY <1>7, <1>10, <1>11 DEF RebuildOK

\* The rebuild of a stream is through: what the group has handled of it shows again.
LEMMA StreamEnds ==
    ASSUME Base, Base', Grows, Rises, ClockIncreases, CoveredOK,
           NEW r \in Rebuilders, scope[r] \in Streams, StreamPage(r), pc[r] = "upsert",
           UNCHANGED <<log, Handled>>, ReachedNext(msg[r]), StreamDone(r),
           \A q \in Rebuilders \ {r} : scope[q] = NoScope
    PROVE  CoveredOK' /\ RebuildOK(r)' /\ WorkerOK(r)'
<1>1. todo[r] = <<>> /\ pc'[r] = "idle" /\ scope'[r] = NoScope /\ r \in Workers
  BY DEF StreamDone, Workers
<1>2. /\ msg[r] \in T!Events /\ msg[r].stream = scope[r] /\ msg[r].version \in Nat
      /\ \A i \in Handled : log[i].stream = scope[r] => log[i].version <= msg[r].version
  <2>1. msg[r] \in T!Events /\ msg[r].version \in Nat /\ Len(todo[r]) = 0
    BY <1>1, HandlingFacts DEF Handling
  <2>2. /\ msg[r].stream = scope[r]
        /\ \A i \in Handled : log[i].stream = scope[r] => log[i].version <= msg[r].version + Len(todo[r])
    BY DEF StreamPage, Handling
  <2>3. QED
    BY <2>1, <2>2
<1>3. ASSUME NEW i \in Handled PROVE ReachedNext(log[i])
  <2>1. log[i] \in T!Events /\ log[i].stream \in Streams
    BY LogFacts, EventAt
  <2>2. CASE log[i].stream = scope[r]
    <3>1. log[i].version <= msg[r].version
      BY <1>2, <2>2
    <3>2. /\ log[i] = At(scope[r], log[i].version) /\ log[i].version \in 1..Length[scope[r]]
          /\ msg[r] = At(scope[r], msg[r].version) /\ msg[r].version \in 1..Length[scope[r]]
      BY <1>2, <2>1, <2>2, EventAt
    <3>3. clock[log[i]] <= clock[msg[r]]
      BY <3>1, <3>2, ClockOrder DEF Base, TablesOK
    <3>4. clock[log[i]] \in Nat /\ clock[msg[r]] \in Nat /\ summary'[scope[r]].updatedAt \in Nat
      BY <1>2, <2>1, TimeType DEF Base, TablesOK, Rows
    <3>5. summary'[scope[r]].exists /\ clock[msg[r]] <= summary'[scope[r]].updatedAt
      BY <1>2 DEF ReachedNext, Shows, Grows
    <3>6. QED
      BY <2>2, <3>3, <3>4, <3>5 DEF ReachedNext, Shows, Grows
  <2>3. CASE log[i].stream # scope[r]
    <3>1. \A q \in Rebuilders : ~(scope[q] \in {All, log[i].stream})
      BY <2>1, <2>3, FeedAssumption
    <3>2. Reached(log[i])
      BY <3>1 DEF CoveredOK
    <3>3. QED
      BY <2>1, <3>2, ReachedKept
  <2>4. QED
    BY <2>2, <2>3
<1>4. CoveredOK'
  BY <1>3 DEF CoveredOK, Reached, ReachedNext
<1>5. RebuildOK(r)'
  BY <1>1, FeedAssumption DEF RebuildOK, StreamPage, AllPage
<1>6. WorkerOK(r)'
  BY <1>1 DEF WorkerOK, Handling
<1>7. QED
  BY <1>4, <1>5, <1>6

LEMMA UpsertLive ==
    ASSUME Base, Base', Grows, Good, Good', Live, NEW w \in Workers, Upsert(w)
    PROVE  Live'
<1>1. pc[w] = "upsert" /\ WriteSummary(w) /\ Advance(w) /\ seen' = [seen EXCEPT ![w] = NoRow]
  BY DEF Upsert
<1>2. \A v \in Workers \ {w} : seen'[v] = seen[v]
  BY <1>1 DEF Base, TablesOK
<1>3. /\ Only(w) /\ UNCHANGED <<version, store, log, owner>>
      /\ w \in Consumers => /\ pc'[w] = "idle" /\ msg'[w] = NoEvent
                            /\ pos' = [pos EXCEPT ![w] = @ + 1]
                            /\ UNCHANGED scope
      /\ w \in Rebuilders => pos' = pos /\ (NextEvent(w) \/ NextPage(w) \/ StreamDone(w))
  BY <1>1, <1>2, AdvanceMoves DEF Base
<1>4. Rises /\ RowsOK' /\ ReachedNext(msg[w])
  BY <1>1, <1>3, WriteLive
<1>5. \A q \in Rebuilders \ {w} : scope[q] = NoScope /\ scope'[q] = NoScope
  BY <1>1, <1>3, NoOtherRebuild DEF Good
<1>7. CASE w \in Consumers /\ w \notin Rebuilders
  <2>1. WorkerOK(w)'
    BY <1>3, <1>7 DEF WorkerOK, Handling
  <2>2. ASSUME NEW i \in Handled PROVE ReachedNext(log[i])
    <3>1. log[i] \in T!Events /\ log[i].stream \in Streams
      BY LogFacts, EventAt
    <3>2. \A q \in Rebuilders : ~(scope[q] \in {All, log[i].stream})
      BY <1>5, <1>7, <3>1, FeedAssumption
    <3>3. Reached(log[i])
      BY <3>2 DEF Live, CoveredOK
    <3>4. QED
      BY <1>4, <3>1, <3>3, ReachedKept
  <2>3. log[pos[w] + 1] = msg[w]
    BY <1>1, <1>7 DEF Base, RestOK
  <2>4. ASSUME NEW i \in Handled' PROVE ReachedNext(log[i])
    <3>1. i \in Handled \/ i = pos[w] + 1
      BY <1>3, <1>7, AdvanceHandled
    <3>2. QED
      BY <1>4, <2>2, <2>3, <3>1
  <2>5. CoveredOK'
    BY <1>3, <2>4 DEF CoveredOK, Reached, ReachedNext
  <2>6. QED
    BY <1>1, <1>3, <1>4, <1>7, <2>1, <2>5, WorkerLive
<1>8. CASE w \in Rebuilders /\ w \notin Consumers
  <2>1. StreamPage(w) /\ AllPage(w)
    BY <1>8 DEF Live, RebuildOK
  <2>2. scope[w] \in Streams \/ scope[w] = All
    BY <1>1, <1>8 DEF Base, FeedInv, WorkOK
  <2>3. UNCHANGED <<log, Handled>>
    BY <1>3, <1>8 DEF Handled
  <2>4. scope'[w] = scope[w] => CoveredOK'
    BY <1>4, <1>5, <2>3, CoveredKept DEF Live
  <2>5. CASE scope[w] = All
    <3>1. NextEvent(w) \/ NextPage(w)
      BY <1>3, <1>8, <2>5 DEF StreamDone
    <3>2. RebuildOK(w)' /\ WorkerOK(w)'
      BY <1>1, <1>3, <1>4, <1>8, <2>1, <2>5, <3>1, AllGoesOn
    <3>3. scope'[w] = scope[w]
      BY <3>1 DEF NextEvent, NextPage
    <3>4. QED
      BY <1>1, <1>3, <1>4, <2>4, <3>2, <3>3, WorkerLive
  <2>6. CASE scope[w] \in Streams
    <3>1. CASE NextEvent(w)
      <4>1. RebuildOK(w)' /\ WorkerOK(w)'
        BY <1>1, <1>4, <1>8, <2>1, <2>3, <2>6, <3>1, StreamGoesOn
      <4>2. scope'[w] = scope[w]
        BY <3>1 DEF NextEvent
      <4>3. QED
        BY <1>1, <1>3, <1>4, <2>4, <4>1, <4>2, WorkerLive
    <3>2. CASE StreamDone(w)
      <4>1. CoveredOK' /\ RebuildOK(w)' /\ WorkerOK(w)'
        BY <1>1, <1>4, <1>5, <1>8, <2>1, <2>3, <2>6, <3>2, StreamEnds DEF Good, Live
      <4>2. QED
        BY <1>1, <1>3, <1>4, <4>1, WorkerLive
    <3>3. ~NextPage(w)
      BY <2>6, FeedAssumption DEF NextPage
    <3>4. QED
      BY <1>3, <1>8, <3>1, <3>2, <3>3
  <2>7. QED
    BY <2>2, <2>5, <2>6
<1>9. QED
  BY <1>7, <1>8, WorkerKinds

-----------------------------------------------------------------------------
(* Rows are replays *)

LEMMA InitHandled == ASSUME pos = [c \in Consumers |-> 0] PROVE Handled = {}
BY DEF Handled

LEMMA InitIInv == Init => IInv
<1> SUFFICES ASSUME Init PROVE IInv
  OBVIOUS
<1>1. Base
  BY InitBase
<1>2. /\ pc = [w \in Workers |-> "idle"] /\ scope = [r \in Rebuilders |-> NoScope]
      /\ pos = [c \in Consumers |-> 0] /\ summary = [t \in Streams |-> NoRow]
  BY DEF Init, FeedInit
<1>3. RowsOK
  BY <1>2, NoRowType DEF RowsOK, RowOK
<1>4. CoveredOK
  BY <1>2, InitHandled DEF CoveredOK
<1>5. \A w \in Workers : WorkerOK(w)
  BY <1>2 DEF WorkerOK, Handling
<1>6. \A r \in Rebuilders : RebuildOK(r)
  BY <1>2, FeedAssumption DEF RebuildOK, StreamPage, AllPage
<1>7. QED
  BY <1>1, <1>3, <1>4, <1>5, <1>6 DEF IInv, Live

LEMMA NextIInv == IInv /\ [Next]_vars => IInv'
<1> SUFFICES ASSUME IInv, [Next]_vars PROVE IInv'
  OBVIOUS
<1>1. Base /\ Base' /\ Grows
  BY NextBase, StepGrows DEF IInv
<1>2. ASSUME Good' PROVE Live'
  <2>1. Good /\ Live
    BY <1>1, <1>2, GoodBefore DEF IInv
  <2>2. QED
    BY <1>1, <1>2, <2>1, Steps, StutterLive, EnvironmentLive, DeliverLive, RebuildLive,
       ReadRebuildEventsLive, ReadSummaryLive, UpsertLive, CallFailsLive
<1>3. QED
  BY <1>1, <1>2 DEF IInv

\* The inductive invariant of the transfer projection.
THEOREM TransferProjectionInvariant == Spec => []IInv
<1>1. QED
  BY InitIInv, NextIInv, PTL DEF Spec

\* For any history and any number of transfers, consumers and rebuilders: if clocks
\* increase along a stream, messages come in order (or again), and every rebuild ran to
\* its end, alone and not overtaken, then every row is what the aggregate replays to at
\* the version whose time it bears, with the transaction id of every leg started by then.
THEOREM ShownTransferIsReal == Spec => []RowIsReplay
<1>1. ASSUME IInv PROVE RowIsReplay
  <2> SUFFICES ASSUME Good, NEW t \in Streams, summary[t].exists
               PROVE  \E n \in 1..version[t] :
                         /\ summary[t].updatedAt = clock[[stream |-> t, version |-> n]]
                         /\ summary[t].state = Replay[t][n]
                         /\ summary[t].legs =
                               UNION {LegOf([stream |-> t, version |-> k]) : k \in 1..n}
    BY DEF RowIsReplay, Good
  <2>1. PICK n \in 1..version[t] : summary[t] = RowAt(t, n, clock)
    BY <1>1 DEF IInv, Live, RowsOK, RowOK
  <2>2. /\ summary[t].updatedAt = clock[At(t, n)] /\ summary[t].state = Replay[t][n]
        /\ summary[t].legs = LegsAt(t, n)
    BY <2>1 DEF RowAt
  <2>3. QED
    BY <2>2 DEF LegsAt, At
<1>2. QED
  BY <1>1, TransferProjectionInvariant, PTL

-----------------------------------------------------------------------------
(* What has been handled shows, or is still to come *)

\* f has a later position in the store than e.
After(e, f) == \E i, j \in 1..Len(store) : i < j /\ store[i] = e /\ store[j] = f

\* The last event a rebuild has read so far.
LastRead(r) == IF todo[r] = <<>> THEN msg[r] ELSE todo[r][Len(todo[r])]

\* The rebuild of r still has e to project: it is about to read it, or has.
ToCome(r, e) ==
    /\ scope[r] \in {All, e.stream}
    /\ \/ pc[r] = "events" /\ (scope[r] = All => msg[r] = NoEvent \/ After(msg[r], e))
       \/ /\ pc[r] \in Handling
          /\ \/ e = msg[r]
             \/ \E j \in 1..Len(todo[r]) : todo[r][j] = e
             \/ scope[r] = All /\ After(LastRead(r), e)

Carried(e) == Reached(e) \/ \E r \in Rebuilders : ToCome(r, e)

HandledEvents == {log[i] : i \in Handled}

\* As long as no rebuild is aborted, nothing that was handled is forgotten.
CarriedOK == ~aborted => \A e \in HandledEvents : Carried(e)

\* A commit leaves the order of the events that were there.
LEMMA AfterKept ==
    ASSUME Base, [Next]_vars, NEW e, NEW f, After(e, f)
    PROVE  After(e, f)'
<1>0. Len(store) \in Nat
  BY StoreFacts
<1>1. PICK i, j \in 1..Len(store) : i < j /\ store[i] = e /\ store[j] = f
  BY DEF After
<1>2. CASE UNCHANGED store
  BY <1>1, <1>2 DEF After
<1>3. ASSUME NEW t \in Streams, CommitEvent(t) PROVE After(e, f)'
  <2> DEFINE new == [stream |-> t, version |-> version[t] + 1]
  <2>1. PICK k \in 0..Len(store) : store' = T!Insert(store, k, new)
    BY <1>3 DEF CommitEvent, T!Commit
  <2> HIDE DEF new
  <2>2. store \in Seq(CommittedEvents \cup {new})
    BY SeqMonotonic DEF Base, FeedInv, StoreOK
  <2>3. Inserted(store', store, k, new)
    BY <2>1, <2>2, InsertPlaces
  <2>4. Len(store') = Len(store) + 1
    BY <2>3 DEF Inserted
  <2>5. ASSUME NEW n \in 1..Len(store)
        PROVE  store'[IF n <= k THEN n ELSE n + 1] = store[n]
    <3>1. CASE n <= k
      BY <1>0, <2>3, <3>1 DEF Inserted
    <3>2. CASE ~(n <= k)
      <4>1. PICK m \in 1..Len(store) - k : m = n - k
        BY <1>0, <3>2
      <4>2. store'[k + 1 + m] = store[k + m]
        BY <2>3 DEF Inserted
      <4>3. k + 1 + m = n + 1 /\ k + m = n
        BY <1>0, <4>1
      <4>4. QED
        BY <3>2, <4>2, <4>3
    <3>3. QED
      BY <3>1, <3>2
  <2> DEFINE i2 == IF i <= k THEN i ELSE i + 1
             j2 == IF j <= k THEN j ELSE j + 1
  <2>6. i2 \in 1..Len(store') /\ j2 \in 1..Len(store') /\ i2 < j2
    BY <1>0, <1>1, <2>4
  <2>7. store'[i2] = e /\ store'[j2] = f
    BY <1>1, <2>5
  <2> HIDE DEF i2, j2
  <2>8. QED
    BY <2>6, <2>7 DEF After
<1>4. CASE Environment
  BY <1>2, <1>3, <1>4 DEF Environment, SendEvent, T!Send, Rebalance, EmptyFetch, feed, topic
<1>5. ASSUME NEW w \in Workers, ReadSummary(w) \/ Upsert(w) \/ CallFails(w) PROVE UNCHANGED store
  <2>1. Throw(w) \/ Advance(w) \/ Goto(w, "upsert")
    BY <1>5 DEF ReadSummary, Upsert, CallFails
  <2>2. QED
    BY <2>1 DEF Throw, Advance, Goto, topic
<1>6. ASSUME NEW r \in Rebuilders, Rebuild(r) \/ ReadRebuildEvents(r) PROVE UNCHANGED store
  BY <1>6 DEF Rebuild, StartRebuild, ReadRebuildEvents, ReadEvents, topic
<1>7. ASSUME NEW c \in Consumers, Deliver(c) PROVE UNCHANGED store
  BY <1>7, DeliverMoves DEF Base
<1>8. CASE UNCHANGED vars
  BY <1>2, <1>8 DEF vars, feed, topic
<1>9. QED
  BY <1>2, <1>4, <1>5, <1>6, <1>7, <1>8, Steps

\* A rebuilder that does nothing has the same events to project.
LEMMA ToComeKept ==
    ASSUME Base, [Next]_vars, NEW r \in Rebuilders, NEW e, ToCome(r, e),
           pc'[r] = pc[r], msg'[r] = msg[r], scope'[r] = scope[r], todo'[r] = todo[r]
    PROVE  ToCome(r, e)'
<1>1. After(msg[r], e) => After(msg[r], e)'
  <2>1. PICK f : f = msg[r]
    OBVIOUS
  <2>2. After(f, e) => After(f, e)'
    BY AfterKept
  <2>3. QED
    BY <2>1, <2>2 DEF After
<1>2. After(LastRead(r), e) => After(LastRead(r), e)'
  <2>1. PICK f : f = LastRead(r)
    OBVIOUS
  <2>2. After(f, e) => After(f, e)'
    BY AfterKept
  <2>3. LastRead(r)' = LastRead(r)
    BY DEF LastRead
  <2>4. QED
    BY <2>1, <2>2, <2>3 DEF After
<1>3. QED
  BY <1>1, <1>2 DEF ToCome

\* No write makes a row fall behind, and what is projected shows, whatever the clocks say.
LEMMA WriteRises ==
    ASSUME Base, Grows, NEW w \in Workers, pc[w] = "upsert", WriteSummary(w)
    PROVE  Rises /\ ReachedNext(msg[w])
<1> DEFINE e == msg[w]
           t == e.stream
           new == Projected(seen[w], e)
<1>1. t \in Streams /\ e \in T!Events
  BY HandlingFacts DEF Handling
<1>2. /\ \A u \in Streams \ {t} : summary'[u] = summary[u]
      /\ \/ summary'[t] = new /\ (~summary[t].exists \/ summary[t].updatedAt <= clock[e])
         \/ summary'[t] = summary[t] /\ summary[t].exists /\ ~(summary[t].updatedAt <= clock[e])
  BY <1>1, WriteRow DEF Base
<1>3. new.exists /\ new.updatedAt = clock[e]
  BY ProjectedShows
<1>4. \A u \in Streams : summary[u].updatedAt \in Nat
  BY RowType
<1>5. clock[e] \in Nat /\ clock' = clock
  BY <1>1, TimeType DEF Grows
<1> HIDE DEF e, t, new
<1>6. Rises
  <2> SUFFICES ASSUME NEW u \in Streams, summary[u].exists
               PROVE  summary'[u].exists /\ summary[u].updatedAt <= summary'[u].updatedAt
    BY DEF Rises
  <2>1. CASE summary'[u] = summary[u]
    BY <1>4, <2>1
  <2>2. CASE u = t /\ summary'[t] = new /\ summary[t].updatedAt <= clock[e]
    BY <1>3, <2>2
  <2>3. QED
    BY <1>2, <2>1, <2>2
<1>7. summary'[t].exists /\ clock[e] <= summary'[t].updatedAt
  BY <1>1, <1>2, <1>3, <1>4, <1>5
<1>8. QED
  BY <1>5, <1>6, <1>7 DEF ReachedNext, Shows, e, t

\* Rows rise and no rebuilder but w moves: of the others nothing is forgotten.
LEMMA CarriedByOthers ==
    ASSUME Base, Base', Grows, [Next]_vars, Rises, NEW w, Only(w), NEW e \in T!Events, Carried(e),
           \A r \in Rebuilders : r = w => ~ToCome(r, e)
    PROVE  Carried(e)'
<1>1. CASE Reached(e)
  BY <1>1, ReachedKept DEF Carried, Reached, ReachedNext
<1>2. ASSUME NEW r \in Rebuilders, ToCome(r, e) PROVE ToCome(r, e)'
  <2>1. r # w /\ r \in Workers
    BY <1>2 DEF Workers
  <2>2. QED
    BY <1>2, <2>1, ToComeKept DEF Only
<1>3. QED
  BY <1>1, <1>2 DEF Carried

\* Steps that neither move a worker nor change a row.
LEMMA QuietCarried ==
    ASSUME Base, Base', Grows, [Next]_vars, UNCHANGED <<summary, pc, msg, scope, todo>>,
           NEW e \in T!Events, Carried(e)
    PROVE  Carried(e)'
<1>1. CASE Reached(e)
  BY <1>1, QuietRises, ReachedKept DEF Carried, Reached, ReachedNext
<1>2. ASSUME NEW r \in Rebuilders, ToCome(r, e) PROVE ToCome(r, e)'
  BY <1>2, ToComeKept
<1>3. QED
  BY <1>1, <1>2 DEF Carried

\* What the reset takes away, the rebuild it begins brings back.
LEMMA RebuildCarried ==
    ASSUME Base, Base', Grows, [Next]_vars, NEW r \in Rebuilders, Rebuild(r),
           NEW e \in T!Events, Carried(e)
    PROVE  Carried(e)'
<1>1. PICK sc \in Streams \cup {All} :
          /\ StartRebuild(r, sc) /\ UNCHANGED seen
          /\ \A t \in Streams : IF sc \in {All, t} THEN summary'[t] = NoRow
                                ELSE summary'[t] = summary[t]
  BY RebuildResets DEF Base
<1>2. /\ r \in Workers /\ Only(r) /\ pc[r] = "idle" /\ pc'[r] = "events" /\ scope'[r] = sc
      /\ UNCHANGED msg
  BY <1>1, StartMoves DEF Base
<1>3. msg'[r] = NoEvent /\ e.stream \in Streams
  BY <1>2, EventAt DEF Base, RestOK
<1>4. CASE sc \in {All, e.stream}
  <2>1. ToCome(r, e)'
    BY <1>2, <1>3, <1>4 DEF ToCome
  <2>2. QED
    BY <2>1 DEF Carried
<1>5. CASE sc \notin {All, e.stream} /\ Reached(e)
  <2>1. summary'[e.stream] = summary[e.stream] /\ clock' = clock
    BY <1>1, <1>3, <1>5 DEF Grows
  <2>2. Reached(e)'
    BY <1>5, <2>1 DEF Reached
  <2>3. QED
    BY <2>2 DEF Carried
<1>6. ASSUME NEW q \in Rebuilders, ToCome(q, e) PROVE Carried(e)'
  <2>1. q # r /\ q \in Workers
    BY <1>2, <1>6 DEF ToCome, Handling, Workers
  <2>2. ToCome(q, e)'
    BY <1>2, <1>6, <2>1, ToComeKept DEF Only
  <2>3. QED
    BY <2>2 DEF Carried
<1>7. QED
  BY <1>4, <1>5, <1>6 DEF Carried

LEMMA HeadOrTail ==
    ASSUME NEW S, NEW seq \in Seq(S), NEW k \in 1..Len(seq)
    PROVE  seq[k] = Head(seq) \/ \E j \in 1..Len(Tail(seq)) : Tail(seq)[j] = seq[k]
<1>1. seq # <<>>
  OBVIOUS
<1>2. /\ Len(seq) \in Nat /\ Head(seq) = seq[1] /\ Len(Tail(seq)) = Len(seq) - 1
      /\ \A j \in 1..Len(seq) - 1 : Tail(seq)[j] = seq[j + 1]
  BY <1>1, HeadTail
<1>3. CASE k = 1
  BY <1>2, <1>3
<1>4. CASE k # 1
  <2>1. k - 1 \in 1..Len(seq) - 1 /\ (k - 1) + 1 = k
    BY <1>2, <1>4
  <2>2. Tail(seq)[k - 1] = seq[k]
    BY <1>2, <2>1
  <2>3. QED
    BY <1>2, <2>1, <2>2
<1>5. QED
  BY <1>3, <1>4

\* The page a rebuild reads holds every event that was to come.
LEMMA PageHolds ==
    ASSUME Base, NEW r \in Rebuilders, pc[r] = "events", NEW e \in CommittedEvents, ToCome(r, e)
    PROVE  /\ PageOf(r) \in Seq(CommittedEvents)
           /\ \E k \in 1..Len(PageOf(r)) : PageOf(r)[k] = e
<1>0. /\ e \in T!Events /\ e.stream \in Streams /\ e = At(e.stream, e.version)
      /\ e.version \in 1..version[e.stream]
  <2>1. e \in T!Events /\ e.version <= version[e.stream]
    BY DEF CommittedEvents, T!Committed
  <2>2. /\ e.stream \in Streams /\ e = At(e.stream, e.version)
        /\ e.version \in Nat /\ e.version >= 1
    BY <2>1, EventAt, LengthType
  <2>3. version[e.stream] \in Nat
    BY <2>2 DEF Base, FeedInv, VersionOK
  <2>4. QED
    BY <2>1, <2>2, <2>3
<1>1. CASE scope[r] = e.stream
  <2>1. PageOf(r) = StreamEvents(e.stream)
    BY <1>0, <1>1, FeedAssumption DEF PageOf
  <2>2. QED
    BY <1>0, <2>1, StreamPageRead
<1>2. CASE scope[r] = All
  <2>1. PageOf(r) = EventsAfter(msg[r])
    BY <1>2 DEF PageOf
  <2>2. Len(store) \in Nat /\ DOMAIN store = 1..Len(store)
    BY StoreFacts
  <2>3. PICK i \in 0..Len(store), j \in 1..Len(store) :
            i < j /\ store[j] = e /\ msg[r] = (IF i = 0 THEN NoEvent ELSE store[i])
    <3>1. CASE msg[r] = NoEvent
      <4>1. PICK j \in 1..Len(store) : store[j] = e
        BY <2>2 DEF Base, FeedInv, StoreOK, T!Contents
      <4>2. 0 \in 0..Len(store) /\ 0 < j
        BY <2>2
      <4>3. QED
        BY <3>1, <4>1, <4>2
    <3>2. CASE After(msg[r], e)
      <4>1. PICK i, j \in 1..Len(store) : i < j /\ store[i] = msg[r] /\ store[j] = e
        BY <3>2 DEF After
      <4>2. i \in 0..Len(store) /\ i # 0
        BY <2>2
      <4>3. QED
        BY <4>1, <4>2
    <3>3. QED
      BY <1>2, <3>1, <3>2 DEF ToCome, Handling
  <2>4. /\ EventsAfter(msg[r]) \in Seq(CommittedEvents)
        /\ Len(EventsAfter(msg[r])) = Len(store) - i
        /\ \A k \in 1..Len(store) - i : EventsAfter(msg[r])[k] = store[i + k]
    BY <2>3, AllPageRead
  <2>5. PICK k \in 1..Len(store) - i : k = j - i
    BY <2>2, <2>3
  <2>6. i + k = j
    BY <2>2, <2>5
  <2>7. QED
    BY <2>1, <2>3, <2>4, <2>5, <2>6
<1>3. QED
  BY <1>1, <1>2 DEF ToCome

LEMMA ReadRebuildEventsCarried ==
    ASSUME Base, Base', Grows, [Next]_vars, NEW r \in Rebuilders, ReadRebuildEvents(r),
           NEW e \in CommittedEvents, Carried(e)
    PROVE  Carried(e)'
<1>1. /\ r \in Workers /\ Only(r) /\ pc[r] = "events" /\ UNCHANGED summary
      /\ \/ /\ PageOf(r) = <<>>
            /\ pc'[r] = "idle" /\ msg'[r] = NoEvent /\ scope'[r] = NoScope
         \/ /\ PageOf(r) # <<>> /\ pc'[r] = "read" /\ msg'[r] = Head(PageOf(r))
            /\ todo'[r] = Tail(PageOf(r)) /\ scope'[r] = scope[r]
  BY ReadMoves DEF Base
<1>2. CASE ToCome(r, e)
  <2> DEFINE page == PageOf(r)
  <2>1. page \in Seq(CommittedEvents) /\ \E k \in 1..Len(page) : page[k] = e
    BY <1>1, <1>2, PageHolds
  <2> HIDE DEF page
  <2>2. page # <<>>
    BY <2>1
  <2>3. /\ pc'[r] = "read" /\ msg'[r] = Head(page) /\ todo'[r] = Tail(page) /\ scope'[r] = scope[r]
    BY <1>1, <2>2 DEF page
  <2>4. e = Head(page) \/ \E j \in 1..Len(Tail(page)) : Tail(page)[j] = e
    BY <2>1, <2>2, HeadOrTail
  <2>5. scope[r] \in {All, e.stream}
    BY <1>2 DEF ToCome
  <2>6. ToCome(r, e)'
    BY <2>3, <2>4, <2>5 DEF ToCome, Handling
  <2>7. QED
    BY <2>6 DEF Carried
<1>3. CASE ~ToCome(r, e)
  BY <1>1, <1>3, QuietRises, CarriedByOthers DEF CommittedEvents
<1>4. QED
  BY <1>2, <1>3

\* A projector that stops: nothing was to come from a consumer, and a rebuild is aborted.
LEMMA ThrowCarried ==
    ASSUME Base, Base', Grows, [Next]_vars, ~aborted', NEW w \in Workers, Throw(w),
           \A v \in Workers \ {w} : seen'[v] = seen[v],
           UNCHANGED summary \/ (pc[w] = "upsert" /\ WriteSummary(w)),
           NEW e \in T!Events, Carried(e)
    PROVE  Carried(e)'
<1>1. Only(w) /\ w \notin Rebuilders
  BY ThrowMoves DEF Base
<1>2. Rises
  BY QuietRises, WriteRises
<1>3. QED
  BY <1>1, <1>2, CarriedByOthers

LEMMA CallFailsCarried ==
    ASSUME Base, Base', Grows, [Next]_vars, ~aborted', NEW w \in Workers, CallFails(w),
           NEW e \in T!Events, Carried(e)
    PROVE  Carried(e)'
<1>1. /\ Throw(w) /\ seen' = [seen EXCEPT ![w] = NoRow]
      /\ UNCHANGED summary \/ (pc[w] = "upsert" /\ WriteSummary(w))
  BY DEF CallFails
<1>2. \A v \in Workers \ {w} : seen'[v] = seen[v]
  BY <1>1 DEF Base, TablesOK
<1>3. QED
  BY <1>1, <1>2, ThrowCarried

LEMMA ReadSummaryCarried ==
    ASSUME Base, Base', Grows, [Next]_vars, ~aborted', NEW w \in Workers, ReadSummary(w),
           NEW e \in T!Events, Carried(e)
    PROVE  Carried(e)'
<1>1. CASE Throw(w) /\ UNCHANGED <<seen, summary>>
  BY <1>1, ThrowCarried
<1>2. CASE Goto(w, "upsert") /\ seen' = [seen EXCEPT ![w] = summary[msg[w].stream]]
  <2>1. pc[w] = "read" /\ UNCHANGED summary
    BY <1>2 DEF ReadSummary
  <2>2. \A v \in Workers \ {w} : seen'[v] = seen[v]
    BY <1>2 DEF Base, TablesOK
  <2>3. Only(w) /\ pc'[w] = "upsert" /\ UNCHANGED <<store, msg, scope, todo>>
    BY <1>2, <2>2, GotoMoves DEF Base
  <2>4. CASE w \in Rebuilders /\ ToCome(w, e)
    <3>1. LastRead(w)' = LastRead(w)
      BY <2>3 DEF LastRead
    <3>2. After(LastRead(w), e) => After(LastRead(w), e)'
      BY <2>3, <3>1 DEF After
    <3>3. ToCome(w, e)'
      BY <2>1, <2>3, <2>4, <3>2 DEF ToCome, Handling
    <3>4. QED
      BY <2>4, <3>3 DEF Carried
  <2>5. CASE ~(w \in Rebuilders /\ ToCome(w, e))
    BY <2>1, <2>3, <2>5, QuietRises, CarriedByOthers
  <2>6. QED
    BY <2>4, <2>5
<1>3. QED
  BY <1>1, <1>2 DEF ReadSummary

\* The last event of a page stays the last one while the page is gone through.
LEMMA LastStays ==
    ASSUME Base, NEW r \in Rebuilders, NextEvent(r)
    PROVE  LastRead(r)' = LastRead(r)
<1>1. /\ todo[r] \in Seq(CommittedEvents) /\ todo[r] # <<>>
      /\ msg'[r] = Head(todo[r]) /\ todo'[r] = Tail(todo[r])
  BY DEF Base, FeedInv, WorkOK, NextEvent
<1>2. /\ Len(todo[r]) \in Nat /\ Len(todo[r]) >= 1 /\ Head(todo[r]) = todo[r][1]
      /\ Len(Tail(todo[r])) = Len(todo[r]) - 1
      /\ \A j \in 1..Len(todo[r]) - 1 : Tail(todo[r])[j] = todo[r][j + 1]
  BY <1>1, HeadTail
<1>3. CASE Tail(todo[r]) = <<>>
  <2>1. Len(Tail(todo[r])) = 0
    <3>1. Len(<<>>) = 0
      OBVIOUS
    <3>2. QED
      BY <1>3, <3>1, Zenon
  <2>2. Len(todo[r]) = 1
    BY <1>2, <2>1
  <2>3. QED
    BY <1>1, <1>2, <1>3, <2>2 DEF LastRead
<1>4. CASE Tail(todo[r]) # <<>>
  <2>1. Tail(todo[r]) \in Seq(CommittedEvents)
    BY <1>1, HeadTailProperties
  <2>2. Len(todo[r]) - 1 \in 1..Len(todo[r]) - 1 /\ (Len(todo[r]) - 1) + 1 = Len(todo[r])
    BY <1>2, <1>4, <2>1, EmptySeq
  <2>3. Tail(todo[r])[Len(todo[r]) - 1] = todo[r][Len(todo[r])]
    BY <1>2, <2>2
  <2>4. QED
    BY <1>1, <1>2, <1>4, <2>3 DEF LastRead
<1>5. QED
  BY <1>3, <1>4

LEMMA UpsertCarried ==
    ASSUME Base, Base', Grows, [Next]_vars, NEW w \in Workers, Upsert(w),
           NEW e \in T!Events, Carried(e)
    PROVE  Carried(e)'
<1>1. pc[w] = "upsert" /\ WriteSummary(w) /\ Advance(w) /\ seen' = [seen EXCEPT ![w] = NoRow]
  BY DEF Upsert
<1>2. \A v \in Workers \ {w} : seen'[v] = seen[v]
  BY <1>1 DEF Base, TablesOK
<1>3. /\ Only(w) /\ UNCHANGED store
      /\ w \in Rebuilders => NextEvent(w) \/ NextPage(w) \/ StreamDone(w)
  BY <1>1, <1>2, AdvanceMoves DEF Base
<1>4. Rises /\ ReachedNext(msg[w])
  BY <1>1, WriteRises
<1>5. CASE e = msg[w]
  BY <1>4, <1>5 DEF Carried, Reached, ReachedNext
<1>6. CASE w \in Rebuilders /\ ToCome(w, e) /\ e # msg[w]
  <2>1. /\ scope[w] \in {All, e.stream}
        /\ \/ \E j \in 1..Len(todo[w]) : todo[w][j] = e
           \/ scope[w] = All /\ After(LastRead(w), e)
    BY <1>1, <1>6 DEF ToCome, Handling
  <2>2. todo[w] \in Seq(CommittedEvents)
    BY <1>6 DEF Base, FeedInv, WorkOK
  <2>3. CASE NextEvent(w)
    <3>1. /\ todo[w] # <<>> /\ pc'[w] = "read" /\ msg'[w] = Head(todo[w])
          /\ todo'[w] = Tail(todo[w]) /\ scope'[w] = scope[w]
      BY <2>3 DEF NextEvent
    <3>2. CASE \E j \in 1..Len(todo[w]) : todo[w][j] = e
      <4>1. e = Head(todo[w]) \/ \E j \in 1..Len(Tail(todo[w])) : Tail(todo[w])[j] = e
        BY <2>2, <3>1, <3>2, HeadOrTail
      <4>2. ToCome(w, e)'
        BY <2>1, <3>1, <4>1 DEF ToCome, Handling
      <4>3. QED
        BY <1>6, <4>2 DEF Carried
    <3>3. CASE scope[w] = All /\ After(LastRead(w), e)
      <4>1. LastRead(w)' = LastRead(w)
        BY <1>6, <2>3, LastStays
      <4>2. After(LastRead(w), e)'
        BY <1>3, <3>3, <4>1 DEF After
      <4>3. ToCome(w, e)'
        BY <2>1, <3>1, <3>3, <4>2 DEF ToCome, Handling
      <4>4. QED
        BY <1>6, <4>3 DEF Carried
    <3>4. QED
      BY <2>1, <3>2, <3>3
  <2>4. CASE NextPage(w)
    <3>1. /\ todo[w] = <<>> /\ scope[w] = All /\ scope'[w] = All
          /\ pc'[w] = "events" /\ msg'[w] = msg[w]
      BY <2>4 DEF NextPage
    <3>2. After(msg[w], e)
      BY <2>1, <3>1 DEF LastRead
    <3>3. After(msg[w], e)'
      BY <1>3, <3>1, <3>2 DEF After
    <3>4. ToCome(w, e)'
      BY <2>1, <3>1, <3>3 DEF ToCome
    <3>5. QED
      BY <1>6, <3>4 DEF Carried
  <2>5. ~StreamDone(w)
    BY <2>1, <2>2 DEF StreamDone
  <2>6. QED
    BY <1>3, <1>6, <2>3, <2>4, <2>5
<1>7. CASE e # msg[w] /\ ~(w \in Rebuilders /\ ToCome(w, e))
  BY <1>3, <1>4, <1>7, CarriedByOthers
<1>8. QED
  BY <1>5, <1>6, <1>7

\* A message is handled when a consumer has projected it.
LEMMA HandledGrows ==
    ASSUME Base, Grows, [Next]_vars, NEW e \in HandledEvents'
    PROVE  e \in HandledEvents \/ \E w \in Workers : Upsert(w) /\ e = msg[w]
<1>1. PICK i \in Handled' : e = log'[i]
  BY DEF HandledEvents
<1>2. CASE i \in Handled
  <2>1. log'[i] = log[i]
    BY <1>2, LogFacts DEF Grows
  <2>2. QED
    BY <1>1, <1>2, <2>1 DEF HandledEvents
<1>3. CASE i \notin Handled
  <2>1. ~(Handled' \subseteq Handled)
    BY <1>3
  <2>2. pos' # pos /\ ~Rebalance
    BY <2>1, SameHandled, RebalanceHandled
  <2>3. ~UNCHANGED vars /\ ~Environment
    BY <2>2 DEF vars, feed, group, Environment, CommitEvent, SendEvent, EmptyFetch
  <2>4. \A c \in Consumers : ~Deliver(c)
    BY <2>2, DeliverMoves DEF Base
  <2>5. \A r \in Rebuilders : ~Rebuild(r) /\ ~ReadRebuildEvents(r)
    BY <2>2 DEF Rebuild, StartRebuild, ReadRebuildEvents, ReadEvents, group
  <2>6. PICK w \in Workers : ReadSummary(w) \/ Upsert(w) \/ CallFails(w)
    BY <2>3, <2>4, <2>5, Steps
  <2>7. ~Throw(w) /\ ~Goto(w, "upsert")
    BY <2>2 DEF Throw, Goto, group
  <2>8. Upsert(w)
    BY <2>6, <2>7 DEF ReadSummary, CallFails
  <2>9. pc[w] = "upsert" /\ Advance(w) /\ \A v \in Workers \ {w} : seen'[v] = seen[v]
    BY <2>8 DEF Upsert, Base, TablesOK
  <2>10. /\ w \in Consumers /\ pos' = [pos EXCEPT ![w] = @ + 1] /\ log' = log
    BY <2>2, <2>9, AdvanceMoves, WorkerKinds DEF Base
  <2>11. i = pos[w] + 1
    BY <1>3, <2>10, AdvanceHandled
  <2>12. msg[w] = log[pos[w] + 1]
    BY <2>9, <2>10 DEF Base, RestOK
  <2>13. QED
    BY <1>1, <2>8, <2>10, <2>11, <2>12
<1>4. QED
  BY <1>2, <1>3

\* No step forgets an event.
LEMMA CarriedKept ==
    ASSUME Base, Base', Grows, [Next]_vars, ~aborted', NEW e \in CommittedEvents, Carried(e)
    PROVE  Carried(e)'
<1>0. e \in T!Events
  BY DEF CommittedEvents
<1>1. CASE UNCHANGED vars \/ Environment
  <2>1. UNCHANGED <<summary, pc, msg, scope, todo>>
    BY <1>1 DEF vars, feed, work, Environment, CommitEvent, SendEvent, Rebalance, EmptyFetch
  <2>2. QED
    BY <1>0, <2>1, QuietCarried
<1>2. ASSUME NEW c \in Consumers, Deliver(c) PROVE Carried(e)'
  <2>1. c \notin Rebuilders /\ Only(c) /\ UNCHANGED summary
    BY <1>2, DeliverMoves DEF Base
  <2>2. QED
    BY <1>0, <2>1, QuietRises, CarriedByOthers
<1>3. QED
  BY <1>0, <1>1, <1>2, Steps, RebuildCarried, ReadRebuildEventsCarried, ReadSummaryCarried,
     UpsertCarried, CallFailsCarried

LEMMA NextCarried == Base /\ CarriedOK /\ [Next]_vars => CarriedOK'
<1> SUFFICES ASSUME Base, CarriedOK, [Next]_vars, ~aborted', NEW e \in HandledEvents'
             PROVE  Carried(e)'
  BY DEF CarriedOK
<1>1. Base' /\ Grows
  BY NextBase, StepGrows
<1>2. ~aborted
  BY <1>1 DEF Grows
<1>3. CASE e \in HandledEvents
  <2>1. e \in CommittedEvents
    BY <1>3, LogFacts DEF HandledEvents
  <2>2. Carried(e)
    BY <1>2, <1>3 DEF CarriedOK
  <2>3. QED
    BY <1>1, <2>1, <2>2, CarriedKept
<1>4. ASSUME NEW w \in Workers, Upsert(w), e = msg[w] PROVE Carried(e)'
  <2>1. ReachedNext(msg[w])
    BY <1>1, <1>4, WriteRises DEF Upsert
  <2>2. QED
    BY <1>4, <2>1 DEF Carried, Reached, ReachedNext
<1>5. QED
  BY <1>1, <1>3, <1>4, HandledGrows

\* Whatever the clocks say, in whatever order messages come and however projectors and
\* rebuilds overlap: what a consumer has handled shows, as itself or as an event of a later
\* time, or a rebuild is about to bring it back - unless a rebuild was aborted.
THEOREM HandledIsShown == Spec => []HandledShows
<1>1. Init => CarriedOK
  <2>1. Init => Handled = {}
    <3>1. Init => pos = [c \in Consumers |-> 0]
      BY DEF Init, FeedInit
    <3>2. QED
      BY <3>1, InitHandled
  <2>2. QED
    BY <2>1 DEF CarriedOK, HandledEvents
<1>2. CarriedOK => HandledShows
  <2> SUFFICES ASSUME CarriedOK, ~aborted, NEW c \in Consumers, NEW i \in 1..pos[c]
               PROVE  LET row == summary[log[i].stream] IN
                      \/ row.exists /\ clock[log[i]] <= row.updatedAt
                      \/ \E r \in Rebuilders : scope[r] \in {All, log[i].stream}
    BY DEF HandledShows
  <2>1. Carried(log[i])
    BY DEF CarriedOK, HandledEvents, Handled
  <2>2. QED
    BY <2>1 DEF Carried, Reached, Shows, ToCome
<1>3. QED
  BY <1>1, <1>2, NextCarried, TransferProjectionBase, PTL DEF Spec
=============================================================================
