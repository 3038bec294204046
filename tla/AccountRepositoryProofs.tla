----------------------- MODULE AccountRepositoryProofs -----------------------
(***************************************************************************)
(* TLAPS proofs about AccountRepository, for any number of accounts,       *)
(* commands and processes, any snapshot interval and retry limit, any      *)
(* number of failing calls and crashes.                                    *)
(*                                                                         *)
(* NoOverdraft rests on a chain of facts that IInv states: a stream's      *)
(* history is one unbroken replay (HistoryOK); snapshots and loaded        *)
(* aggregates are points of it (SnapshotsOK, AggregateOK), also while the  *)
(* tail is still being replayed (ReplayOK); and a command that is about to *)
(* append was accepted by the very aggregate it appends from (AppendOK).   *)
(* The version check of append then says that this aggregate is the        *)
(* current end of the history.                                             *)
(*                                                                         *)
(* The rest is about what the callers see.  MutexOK says why the promise   *)
(* chain of withAccountLock is a lock, FreshOK what a request that holds it *)
(* knows of the stream, and ToldOK that the answers are true.  Together    *)
(* they show that the write path implements AccountLedger.                 *)
(***************************************************************************)
EXTENDS AccountRepository, AccountAggregateProofs

-----------------------------------------------------------------------------
(* The inductive invariant *)

\* history[a][n + 1] is the state after the first n events, and was never overdrawn.
HistoryOK(a) ==
    /\ Len(history[a]) = Len(streams[a]) + 1
    /\ history[a][1] = NewAccount
    /\ \A n \in 1 .. Len(history[a]) :
          history[a][n].version = n - 1 /\ history[a][n].balance >= 0
    /\ \A n \in 1 .. Len(streams[a]) :
          history[a][n + 1] = When(history[a][n], streams[a][n])

\* The state s is what the events of a up to the version of s replay to.
InHistory(a, s) ==
    s.version \in 0 .. Len(streams[a]) /\ s = history[a][s.version + 1]

SnapshotsOK ==
    \A a \in Accounts : \A s \in snapshots[a] : InHistory(a, s) /\ s.version > 0

AggregateOK ==
    \A r \in CommandIds :
        /\ InHistory(AccountOf[r], aggregate[r])
        /\ pc[r] = "saveSnapshot" => aggregate[r].version > 0

ReplayOK ==
    \A r \in CommandIds : pc[r] = "replay" => readTo[r] <= Len(streams[AccountOf[r]])

AppendOK ==
    \A r \in CommandIds : pc[r] = "append" => DomainError(aggregate[r], cmd[r]) = "none"

IInv ==
    /\ TypeOK
    /\ \A a \in Accounts : HistoryOK(a)
    /\ SnapshotsOK
    /\ AggregateOK
    /\ ReplayOK
    /\ AppendOK

-----------------------------------------------------------------------------
(* Events and replay *)

\* What a command appends, and the aggregate after it, are well formed.
LEMMA NewEventType ==
    ASSUME TypeOK, NEW r \in CommandIds
    PROVE  /\ NewEvent(r) \in Event(CommandIds)
           /\ NewState(r) \in AccountState
           /\ NewState(r).version = aggregate[r].version + 1
<1>1. aggregate[r] \in AccountState /\ cmd[r] \in Command
  BY DEF TypeOK
<1>2. NewEvent(r) \in Event(CommandIds) /\ NewEvent(r).streamVersion = aggregate[r].version + 1
  BY <1>1, MakeEventType DEF NewEvent
<1>3. /\ When(aggregate[r], NewEvent(r)) \in AccountState
      /\ When(aggregate[r], NewEvent(r)).version = NewEvent(r).streamVersion
  BY ONLY <1>1, <1>2, WhenType
<1>4. QED
  BY <1>2, <1>3 DEF NewState

\* One event of the tail takes a point of the history to the next one.
LEMMA ReplayOne ==
    ASSUME IInv, NEW a \in Accounts, NEW s, InHistory(a, s), s.version < Len(streams[a])
    PROVE  /\ InHistory(a, When(s, streams[a][s.version + 1]))
           /\ When(s, streams[a][s.version + 1]) \in AccountState
<1> DEFINE v == s.version
           next == When(s, streams[a][v + 1])
<1>1. HistoryOK(a) /\ v \in Nat /\ Len(streams[a]) \in Nat
  BY DEF IInv, InHistory, TypeOK
<1>2. next = history[a][v + 2]
  <2>1. v + 1 \in 1 .. Len(streams[a]) /\ (v + 1) + 1 = v + 2 /\ s = history[a][v + 1]
    BY <1>1 DEF InHistory
  <2>2. history[a][(v + 1) + 1] = When(history[a][v + 1], streams[a][v + 1])
    BY <1>1, <2>1 DEF HistoryOK
  <2>3. QED
    BY <2>1, <2>2
<1>3. v + 2 \in 1 .. Len(history[a])
  BY <1>1 DEF HistoryOK
<1>4. next.version = v + 1
  <2>1. history[a][v + 2].version = (v + 2) - 1
    BY <1>1, <1>3 DEF HistoryOK
  <2>2. (v + 2) - 1 = v + 1
    BY <1>1
  <2>3. QED
    BY <1>2, <2>1, <2>2
<1>5. history[a] \in Seq(AccountState)
  BY DEF IInv, TypeOK
<1>6. next \in AccountState
  BY <1>2, <1>3, <1>5
<1>7. InHistory(a, next)
  BY <1>1, <1>2, <1>4 DEF InHistory
<1>8. QED
  BY <1>6, <1>7

-----------------------------------------------------------------------------
(* A commit extends one history and no more *)

LEMMA CommitIInv ==
    ASSUME IInv, NEW r \in CommandIds, pc[r] = "append", VersionMatches(r), Commit(r),
           NEW b, b = AccountOf[r], NEW new, new = NewState(r)
    PROVE  /\ streams' \in [Accounts -> Seq(Event(CommandIds))]
           /\ history' \in [Accounts -> Seq(AccountState)]
           /\ \A a \in Accounts : HistoryOK(a)' /\ Len(streams'[a]) >= Len(streams[a])
           /\ \A a \in Accounts : \A s : InHistory(a, s) => InHistory(a, s)'
           /\ InHistory(b, new)' /\ new.version > 0
<1>1. b \in Accounts /\ TypeOK /\ HistoryOK(b)
  BY RepositoryAssumption DEF IInv
<1>2. PICK h : h = history[b]
  OBVIOUS
<1>3. PICK st : st = streams[b]
  OBVIOUS
<1>4. PICK e : e = NewEvent(r)
  OBVIOUS
<1>5. /\ st \in Seq(Event(CommandIds)) /\ h \in Seq(AccountState)
      /\ Len(st) \in Nat /\ Len(h) = Len(st) + 1
  BY <1>1, <1>2, <1>3 DEF TypeOK, HistoryOK
<1>6. aggregate[r].version = Len(st) /\ aggregate[r] = h[Len(h)]
  <2>1. InHistory(b, aggregate[r])
    BY DEF IInv, AggregateOK
  <2>2. QED
    BY <1>2, <1>3, <1>5, <2>1 DEF VersionMatches, Version, InHistory
<1>7. /\ e \in Event(CommandIds) /\ new \in AccountState
      /\ new.version = Len(st) + 1 /\ new = When(h[Len(h)], e)
  BY <1>1, <1>4, <1>6, NewEventType DEF NewState
<1>8. new.balance >= 0
  <2>1. h[Len(h)].balance >= 0
    BY <1>1, <1>2, <1>5 DEF HistoryOK
  <2>2. DomainError(aggregate[r], cmd[r]) = "none"
    BY DEF IInv, AppendOK
  <2>3. aggregate[r] \in AccountState /\ cmd[r] \in Command
    BY <1>1 DEF TypeOK
  <2>4. QED
    BY <1>6, <2>1, <2>2, <2>3, GuardedNonNegative DEF NewState, NewEvent
<1>9. /\ streams' = [streams EXCEPT ![b] = Append(st, e)]
      /\ history' = [history EXCEPT ![b] = Append(h, new)]
  BY <1>2, <1>3, <1>4, <1>7 DEF Commit
<1>10. /\ streams' \in [Accounts -> Seq(Event(CommandIds))]
       /\ history' \in [Accounts -> Seq(AccountState)]
  BY <1>1, <1>5, <1>7, <1>9 DEF TypeOK
<1>11. /\ streams'[b] = Append(st, e) /\ history'[b] = Append(h, new)
       /\ \A a \in Accounts : a # b => streams'[a] = streams[a] /\ history'[a] = history[a]
  BY <1>1, <1>9 DEF TypeOK
<1>12. /\ Len(streams'[b]) = Len(st) + 1 /\ Len(history'[b]) = Len(h) + 1
       /\ \A n \in 1 .. Len(st) : streams'[b][n] = st[n]
       /\ \A n \in 1 .. Len(h) : history'[b][n] = h[n]
       /\ streams'[b][Len(st) + 1] = e /\ history'[b][Len(h) + 1] = new
  BY <1>5, <1>7, <1>11
<1>13. HistoryOK(b)'
  <2>1. Len(history'[b]) = Len(streams'[b]) + 1
    BY <1>5, <1>12
  <2>2. ASSUME NEW n \in 1 .. Len(history'[b])
        PROVE  history'[b][n].version = n - 1 /\ history'[b][n].balance >= 0
    <3>1. CASE n = Len(h) + 1
      BY <1>5, <1>7, <1>8, <1>12, <3>1
    <3>2. CASE n # Len(h) + 1
      <4>1. n \in 1 .. Len(h)
        BY <1>5, <1>12, <3>2
      <4>2. QED
        BY <1>1, <1>2, <1>12, <4>1 DEF HistoryOK
    <3>3. QED
      BY <3>1, <3>2
  <2>3. ASSUME NEW n \in 1 .. Len(streams'[b])
        PROVE  history'[b][n + 1] = When(history'[b][n], streams'[b][n])
    <3>1. CASE n = Len(h)
      BY <1>5, <1>7, <1>12, <3>1
    <3>2. CASE n # Len(h)
      <4>1. n \in 1 .. Len(st) /\ n \in 1 .. Len(h) /\ n + 1 \in 1 .. Len(h)
        BY <1>5, <1>12, <3>2
      <4>2. h[n + 1] = When(h[n], st[n])
        BY <1>1, <1>2, <1>3, <4>1 DEF HistoryOK
      <4>3. QED
        BY <1>12, <4>1, <4>2
    <3>3. QED
      BY <3>1, <3>2
  <2>4. history'[b][1] = NewAccount
    BY <1>1, <1>2, <1>5, <1>12 DEF HistoryOK
  <2>5. QED
    BY <2>1, <2>2, <2>3, <2>4 DEF HistoryOK
<1>14. ASSUME NEW a \in Accounts PROVE HistoryOK(a)' /\ Len(streams'[a]) >= Len(streams[a])
  <2>1. CASE a = b
    BY <1>3, <1>5, <1>12, <1>13, <2>1
  <2>2. CASE a # b
    <3>1. HistoryOK(a) /\ Len(streams[a]) \in Nat
      BY <1>1 DEF IInv, TypeOK
    <3>2. streams'[a] = streams[a] /\ history'[a] = history[a]
      BY <1>11, <2>2
    <3>3. QED
      BY <3>1, <3>2 DEF HistoryOK
  <2>3. QED
    BY <2>1, <2>2
<1>15. ASSUME NEW a \in Accounts, NEW s, InHistory(a, s) PROVE InHistory(a, s)'
  <2>1. CASE a = b
    <3>1. s.version \in 0 .. Len(st) /\ s = h[s.version + 1]
      BY <1>2, <1>3, <1>15, <2>1 DEF InHistory
    <3>2. s.version \in 0 .. Len(streams'[a]) /\ s = history'[a][s.version + 1]
      BY <1>5, <1>12, <2>1, <3>1
    <3>3. QED
      BY <3>2 DEF InHistory
  <2>2. CASE a # b
    BY <1>11, <1>15, <2>2 DEF InHistory
  <2>3. QED
    BY <2>1, <2>2
<1>16. InHistory(b, new)'
  <2>1. new.version \in 0 .. Len(streams'[b]) /\ new = history'[b][new.version + 1]
    BY <1>5, <1>7, <1>12
  <2>2. QED
    BY <2>1 DEF InHistory
<1>17. QED
  BY <1>5, <1>7, <1>10, <1>14, <1>15, <1>16

-----------------------------------------------------------------------------
(* Steps that leave the store and the loaded aggregates alone *)

\* What was a point of a history stays one while no event is committed.
LEMMA StoreStays ==
    ASSUME IInv, UNCHANGED <<streams, history>>
    PROVE  /\ \A a \in Accounts : HistoryOK(a)'
           /\ \A a \in Accounts : \A s : InHistory(a, s) => InHistory(a, s)'
BY DEF IInv, HistoryOK, InHistory

LEMMA QuietIInv ==
    ASSUME IInv, TypeOK', UNCHANGED <<store, aggregate, cmd, readTo>>,
           \A r \in CommandIds :
              pc'[r] \in {"replay", "append", "saveSnapshot"} => pc'[r] = pc[r]
    PROVE  IInv'
<1>1. UNCHANGED <<streams, history, snapshots>>
  BY DEF store
<1>2. /\ \A a \in Accounts : HistoryOK(a)'
      /\ \A a \in Accounts : \A s : InHistory(a, s) => InHistory(a, s)'
  BY <1>1, StoreStays
<1>3. SnapshotsOK'
  BY <1>1, <1>2 DEF IInv, SnapshotsOK
<1>4. AggregateOK'
  <2>1. ASSUME NEW r \in CommandIds
        PROVE  InHistory(AccountOf[r], aggregate[r])' /\ (pc'[r] = "saveSnapshot" => aggregate'[r].version > 0)
    BY <1>1, <2>1 DEF IInv, AggregateOK, InHistory
  <2>2. QED
    BY <2>1 DEF AggregateOK
<1>5. ReplayOK'
  BY <1>1 DEF IInv, ReplayOK
<1>6. AppendOK'
  BY DEF IInv, AppendOK
<1>7. QED
  BY <1>2, <1>3, <1>4, <1>5, <1>6 DEF IInv

LEMMA SubmitIInv ==
    ASSUME IInv, NEW r \in CommandIds, Submit(r)
    PROVE  IInv'
<1>1. TypeOK'
  <2>1. InstanceOf[r] \in Instances /\ AccountOf[r] \in Accounts
    BY RepositoryAssumption
  <2>2. /\ accountLocks' \in [Instances -> [Accounts -> CommandIds \cup {NoCommand}]]
        /\ prev' \in [CommandIds -> CommandIds \cup {NoCommand}]
    BY <2>1 DEF IInv, TypeOK, Submit
  <2>3. pc' \in [CommandIds -> PCs]
    BY DEF IInv, TypeOK, Submit, PCs
  <2>4. QED
    BY <2>2, <2>3 DEF IInv, TypeOK, Submit, store, local, budget
<1>2. QED
  BY <1>1, QuietIInv DEF IInv, TypeOK, Submit, store, local

LEMMA AcquireIInv ==
    ASSUME IInv, NEW r \in CommandIds, Acquire(r)
    PROVE  IInv'
<1>1. AccountOf[r] \in Accounts /\ Version(AccountOf[r]) \in Nat
  BY RepositoryAssumption DEF IInv, TypeOK, Version
<1>2. TypeOK'
  BY <1>1 DEF IInv, TypeOK, Acquire, store, locks, budget, PCs
<1>3. QED
  BY <1>2, QuietIInv DEF IInv, TypeOK, Acquire, store

LEMMA AppendConflictsIInv ==
    ASSUME IInv, NEW r \in CommandIds, AppendConflicts(r)
    PROVE  IInv'
<1>1. TypeOK'
  <2>1. pc' \in [CommandIds -> PCs] /\ outcome' \in [CommandIds -> Outcomes]
    BY DEF IInv, TypeOK, AppendConflicts, Finish, PCs, Outcomes
  <2>2. attempt' \in [CommandIds -> 1 .. MaxWriteAttempts]
    <3>1. /\ attempt \in [CommandIds -> 1 .. MaxWriteAttempts] /\ MaxWriteAttempts \in Nat
      BY RepositoryAssumption DEF IInv, TypeOK
    <3>2. CASE MayRetry(r)
      <4>1. attempt' = [attempt EXCEPT ![r] = attempt[r] + 1]
        BY <3>2 DEF AppendConflicts
      <4>2. attempt[r] + 1 \in 1 .. MaxWriteAttempts
        BY <3>1, <3>2 DEF MayRetry
      <4>3. QED
        BY <3>1, <4>1, <4>2
    <3>3. CASE ~MayRetry(r)
      BY <3>1, <3>3 DEF AppendConflicts
    <3>4. QED
      BY <3>2, <3>3
  <2>3. QED
    BY <2>1, <2>2 DEF IInv, TypeOK, AppendConflicts, store, locks, budget
<1>2. UNCHANGED <<store, aggregate, cmd, readTo>>
  BY DEF AppendConflicts
<1>3. pc' = [pc EXCEPT ![r] = "snapshot"] \/ pc' = [pc EXCEPT ![r] = "release"]
  BY DEF AppendConflicts, Finish
<1>4. ASSUME NEW q \in CommandIds, pc'[q] \in {"replay", "append", "saveSnapshot"}
      PROVE  pc'[q] = pc[q]
  <2>1. pc \in [CommandIds -> PCs]
    BY DEF IInv, TypeOK
  <2>2. QED
    BY <1>3, <1>4, <2>1
<1>5. QED
  BY <1>1, <1>2, <1>4, QuietIInv

LEMMA QueryFailsIInv ==
    ASSUME IInv, NEW r \in CommandIds, QueryFails(r)
    PROVE  IInv'
<1>1. TypeOK'
  <2>1. faults' \in 0 .. MaxFaults
    BY RepositoryAssumption DEF IInv, TypeOK, QueryFails
  <2>2. pc' \in [CommandIds -> PCs] /\ outcome' \in [CommandIds -> Outcomes]
    BY DEF IInv, TypeOK, QueryFails, Finish, PCs, Outcomes
  <2>3. QED
    BY <2>1, <2>2 DEF IInv, TypeOK, QueryFails, store, locks, local
<1>2. QED
  BY <1>1, QuietIInv DEF IInv, TypeOK, QueryFails, Finish, store, local

LEMMA ReleaseIInv ==
    ASSUME IInv, NEW r \in CommandIds, Release(r)
    PROVE  IInv'
<1>1. TypeOK'
  BY RepositoryAssumption DEF IInv, TypeOK, Release, store, local, budget, PCs
<1>2. QED
  BY <1>1, QuietIInv DEF IInv, TypeOK, Release, store, local

LEMMA CrashIInv ==
    ASSUME IInv, NEW i \in Instances, Crash(i)
    PROVE  IInv'
<1>1. TypeOK'
  BY RepositoryAssumption DEF IInv, TypeOK, Crash, store, local, PCs
<1>2. QED
  BY <1>1, QuietIInv DEF IInv, TypeOK, Crash, store, local

-----------------------------------------------------------------------------
(* Loading *)

\* A step of one command that only changes its own aggregate, to another point
\* of its account's history.
LEMMA LoadIInv ==
    ASSUME IInv, TypeOK', NEW r \in CommandIds, NEW loaded,
           UNCHANGED <<streams, history, snapshots, cmd, readTo>>,
           InHistory(AccountOf[r], loaded),
           aggregate' = [aggregate EXCEPT ![r] = loaded],
           pc'[r] \in {"read", "replay"}, pc'[r] = "replay" => pc[r] = "replay",
           \A q \in CommandIds : q # r => pc'[q] = pc[q]
    PROVE  IInv'
<1>1. /\ \A a \in Accounts : HistoryOK(a)'
      /\ \A a \in Accounts : \A s : InHistory(a, s) => InHistory(a, s)'
  BY StoreStays
<1>2. SnapshotsOK'
  BY <1>1 DEF IInv, SnapshotsOK
<1>3. /\ aggregate'[r] = loaded
      /\ \A q \in CommandIds : q # r => aggregate'[q] = aggregate[q]
  BY DEF IInv, TypeOK
<1>4. AggregateOK'
  <2>1. ASSUME NEW q \in CommandIds, NEW s, InHistory(AccountOf[q], s)
        PROVE  s.version \in 0 .. Len(streams'[AccountOf[q]]) /\ s = history'[AccountOf[q]][s.version + 1]
    BY <2>1 DEF InHistory
  <2>2. ASSUME NEW q \in CommandIds
        PROVE  InHistory(AccountOf[q], aggregate[q])' /\ (pc'[q] = "saveSnapshot" => aggregate'[q].version > 0)
    <3>1. CASE q = r
      BY <1>3, <2>1, <3>1 DEF InHistory
    <3>2. CASE q # r
      BY <1>3, <2>1, <3>2 DEF IInv, AggregateOK, InHistory
    <3>3. QED
      BY <3>1, <3>2
  <2>3. QED
    BY <2>2 DEF AggregateOK
<1>5. ReplayOK'
  BY DEF IInv, ReplayOK
<1>6. AppendOK'
  <2>1. ASSUME NEW q \in CommandIds, pc'[q] = "append"
        PROVE  DomainError(aggregate'[q], cmd'[q]) = "none"
    <3>1. q # r /\ pc[q] = "append"
      BY <2>1
    <3>2. QED
      BY <1>3, <3>1 DEF IInv, AppendOK
  <2>2. QED
    BY <2>1 DEF AppendOK
<1>7. QED
  BY <1>1, <1>2, <1>4, <1>5, <1>6 DEF IInv

LEMMA ReadSnapshotIInv ==
    ASSUME IInv, NEW r \in CommandIds, ReadSnapshot(r)
    PROVE  IInv'
<1>1. UNCHANGED <<streams, history, snapshots, cmd, readTo>> /\ pc' = [pc EXCEPT ![r] = "read"]
  BY DEF ReadSnapshot, store
<1>2. PICK b \in Accounts : b = AccountOf[r]
  BY RepositoryAssumption
<1>3. PICK loaded \in AccountState :
         InHistory(b, loaded) /\ aggregate' = [aggregate EXCEPT ![r] = loaded]
  <2>1. CASE aggregate' = [aggregate EXCEPT ![r] = NewAccount]
    <3>1. HistoryOK(b) /\ Len(streams[b]) \in Nat /\ NewAccount.version = 0
      BY DEF IInv, TypeOK, NewAccount
    <3>2. InHistory(b, NewAccount)
      BY <3>1 DEF HistoryOK, InHistory
    <3>3. QED
      BY <2>1, <3>2, NewAccountType
  <2>2. CASE \E s \in snapshots[b] : aggregate' = [aggregate EXCEPT ![r] = s]
    BY <2>2 DEF IInv, TypeOK, SnapshotsOK
  <2>3. QED
    BY <1>2, <2>1, <2>2 DEF ReadSnapshot
<1>4. TypeOK'
  BY <1>1, <1>3 DEF IInv, TypeOK, ReadSnapshot, locks, budget, PCs
<1>5. pc'[r] = "read" /\ \A q \in CommandIds : q # r => pc'[q] = pc[q]
  BY <1>1 DEF IInv, TypeOK
<1>6. QED
  BY <1>1, <1>2, <1>3, <1>4, <1>5, LoadIInv

LEMMA ReadStreamIInv ==
    ASSUME IInv, NEW r \in CommandIds, ReadStream(r)
    PROVE  IInv'
<1>1. /\ UNCHANGED <<streams, history, snapshots, cmd, aggregate>>
      /\ pc' = [pc EXCEPT ![r] = "replay"]
      /\ readTo' = [readTo EXCEPT ![r] = Len(streams[AccountOf[r]])]
  BY DEF ReadStream, store, Version
<1>2. AccountOf[r] \in Accounts /\ Len(streams[AccountOf[r]]) \in Nat
  BY RepositoryAssumption DEF IInv, TypeOK
<1>3. TypeOK'
  BY <1>1, <1>2 DEF IInv, TypeOK, ReadStream, locks, budget, PCs
<1>4. /\ \A a \in Accounts : HistoryOK(a)'
      /\ \A a \in Accounts : \A s : InHistory(a, s) => InHistory(a, s)'
  BY <1>1, StoreStays
<1>5. SnapshotsOK'
  BY <1>1, <1>4 DEF IInv, SnapshotsOK
<1>6. AggregateOK'
  BY <1>1 DEF IInv, TypeOK, AggregateOK, InHistory
<1>7. ReplayOK'
  BY <1>1, <1>2 DEF IInv, TypeOK, ReplayOK
<1>8. AppendOK'
  BY <1>1 DEF IInv, TypeOK, AppendOK
<1>9. QED
  BY <1>3, <1>4, <1>5, <1>6, <1>7, <1>8 DEF IInv

LEMMA ReplayIInv ==
    ASSUME IInv, NEW r \in CommandIds, Replay(r)
    PROVE  IInv'
<1>1. UNCHANGED <<streams, history, snapshots, cmd, readTo, pc>> /\ pc[r] = "replay"
  BY DEF Replay, store
<1>2. PICK b \in Accounts : b = AccountOf[r]
  BY RepositoryAssumption
<1>3. InHistory(b, aggregate[r])
  BY <1>2 DEF IInv, AggregateOK
<1>4. aggregate[r].version < Len(streams[b])
  <2>1. /\ aggregate[r].version \in Nat /\ readTo[r] \in Nat /\ Len(streams[b]) \in Nat
        /\ aggregate[r].version < readTo[r] /\ readTo[r] <= Len(streams[b])
    BY <1>1, <1>2 DEF IInv, TypeOK, AccountState, ReplayOK, Replay
  <2>2. QED
    BY <2>1
<1>5. PICK loaded : loaded = When(aggregate[r], streams[b][aggregate[r].version + 1])
  OBVIOUS
<1>6. InHistory(b, loaded) /\ loaded \in AccountState
  BY <1>3, <1>4, <1>5, ReplayOne
<1>7. aggregate' = [aggregate EXCEPT ![r] = loaded]
  BY <1>2, <1>5 DEF Replay
<1>8. TypeOK'
  BY <1>1, <1>6, <1>7 DEF IInv, TypeOK, Replay, locks, budget
<1>9. QED
  BY <1>1, <1>2, <1>6, <1>7, <1>8, LoadIInv

-----------------------------------------------------------------------------
(* Executing, appending, saving *)

LEMMA ExecuteIInv ==
    ASSUME IInv, NEW r \in CommandIds, Execute(r)
    PROVE  IInv'
<1>1. UNCHANGED <<streams, history, snapshots, cmd, readTo, aggregate>>
  BY DEF Execute, store, local
<1>2. TypeOK'
  BY DEF IInv, TypeOK, Execute, Finish, store, locks, local, budget, PCs, Outcomes
<1>3. CASE DomainError(aggregate[r], cmd[r]) = "none"
  <2>1. pc' = [pc EXCEPT ![r] = "append"]
    BY <1>3 DEF Execute
  <2>2. /\ \A a \in Accounts : HistoryOK(a)'
        /\ \A a \in Accounts : \A s : InHistory(a, s) => InHistory(a, s)'
    BY <1>1, StoreStays
  <2>3. SnapshotsOK'
    BY <1>1, <2>2 DEF IInv, SnapshotsOK
  <2>4. AggregateOK'
    BY <1>1, <2>1 DEF IInv, TypeOK, AggregateOK, InHistory
  <2>5. ReplayOK'
    BY <1>1, <2>1 DEF IInv, TypeOK, ReplayOK
  <2>6. AppendOK'
    BY <1>1, <1>3, <2>1 DEF IInv, TypeOK, AppendOK
  <2>7. QED
    BY <1>2, <2>2, <2>3, <2>4, <2>5, <2>6 DEF IInv
<1>4. CASE DomainError(aggregate[r], cmd[r]) # "none"
  <2>1. pc' = [pc EXCEPT ![r] = "release"]
    BY <1>4 DEF Execute, Finish
  <2>2. QED
    BY <1>1, <1>2, <2>1, QuietIInv DEF IInv, TypeOK, store
<1>5. QED
  BY <1>3, <1>4

\* Both ways a commit can end: the aggregate of the writer is the new end of the
\* history, or still the point it wrote from; no other command is touched.
LEMMA WriteIInv ==
    ASSUME IInv, TypeOK', NEW r \in CommandIds, pc[r] = "append", VersionMatches(r),
           Commit(r), UNCHANGED <<snapshots, cmd, readTo>>,
           pc'[r] \in {"saveSnapshot", "release"},
           \/ aggregate' = [aggregate EXCEPT ![r] = NewState(r)]
           \/ aggregate' = aggregate /\ pc'[r] = "release",
           \A q \in CommandIds : q # r => pc'[q] = pc[q]
    PROVE  IInv'
<1>1. PICK b \in Accounts : b = AccountOf[r]
  BY RepositoryAssumption
<1>2. PICK new : new = NewState(r)
  OBVIOUS
<1>3. /\ \A a \in Accounts : HistoryOK(a)' /\ Len(streams'[a]) >= Len(streams[a])
      /\ \A a \in Accounts : \A s : InHistory(a, s) => InHistory(a, s)'
      /\ InHistory(b, new)' /\ new.version > 0
  BY <1>1, <1>2, CommitIInv
<1>4. ASSUME NEW q \in CommandIds, NEW s, InHistory(AccountOf[q], s)
      PROVE  s.version \in 0 .. Len(streams'[AccountOf[q]]) /\ s = history'[AccountOf[q]][s.version + 1]
  <2>1. PICK a \in Accounts : a = AccountOf[q]
    BY RepositoryAssumption
  <2>2. InHistory(a, s)'
    BY <1>3, <1>4, <2>1
  <2>3. QED
    BY <2>1, <2>2 DEF InHistory
<1>5. SnapshotsOK'
  BY <1>3 DEF IInv, SnapshotsOK
<1>6. \A q \in CommandIds : q # r => aggregate'[q] = aggregate[q]
  BY DEF IInv, TypeOK
<1>7. AggregateOK'
  <2>1. ASSUME NEW q \in CommandIds, q # r
        PROVE  InHistory(AccountOf[q], aggregate[q])' /\ (pc'[q] = "saveSnapshot" => aggregate'[q].version > 0)
    <3>1. InHistory(AccountOf[q], aggregate[q]) /\ (pc[q] = "saveSnapshot" => aggregate[q].version > 0)
      BY DEF IInv, AggregateOK
    <3>2. aggregate'[q] = aggregate[q] /\ pc'[q] = pc[q]
      BY <1>6, <2>1
    <3>3. QED
      BY <1>4, <3>1, <3>2 DEF InHistory
  <2>2. InHistory(AccountOf[r], aggregate[r])' /\ (pc'[r] = "saveSnapshot" => aggregate'[r].version > 0)
    <3>1. CASE aggregate' = [aggregate EXCEPT ![r] = NewState(r)]
      <4>1. aggregate'[r] = new
        BY <1>2, <3>1 DEF IInv, TypeOK
      <4>2. new.version \in 0 .. Len(streams'[b]) /\ new = history'[b][new.version + 1]
        BY <1>3 DEF InHistory
      <4>3. QED
        BY <1>1, <1>3, <4>1, <4>2 DEF InHistory
    <3>2. CASE aggregate' = aggregate /\ pc'[r] = "release"
      BY <1>4, <3>2 DEF IInv, AggregateOK, InHistory
    <3>3. QED
      BY <3>1, <3>2
  <2>3. QED
    BY <2>1, <2>2 DEF AggregateOK
<1>8. ReplayOK'
  <2>1. ASSUME NEW q \in CommandIds, pc'[q] = "replay"
        PROVE  readTo'[q] <= Len(streams'[AccountOf[q]])
    <3>1. PICK a \in Accounts : a = AccountOf[q]
      BY RepositoryAssumption
    <3>2. /\ readTo[q] \in Nat /\ Len(streams[a]) \in Nat /\ Len(streams'[a]) \in Nat
          /\ Len(streams'[a]) >= Len(streams[a])
      <4>1. streams \in [Accounts -> Seq(Event(CommandIds))] /\ readTo \in [CommandIds -> Nat]
        BY DEF IInv, TypeOK
      <4>2. streams' \in [Accounts -> Seq(Event(CommandIds))]
        BY DEF TypeOK
      <4>3. Len(streams'[a]) >= Len(streams[a])
        BY <1>3
      <4>4. QED
        BY <4>1, <4>2, <4>3
    <3>3. readTo[q] <= Len(streams[a])
      BY <2>1, <3>1 DEF IInv, ReplayOK
    <3>4. QED
      BY <3>1, <3>2, <3>3
  <2>2. QED
    BY <2>1 DEF ReplayOK
<1>9. AppendOK'
  <2>1. ASSUME NEW q \in CommandIds, pc'[q] = "append"
        PROVE  DomainError(aggregate'[q], cmd'[q]) = "none"
    <3>1. q # r /\ pc[q] = "append"
      BY <2>1
    <3>2. QED
      BY <1>6, <3>1 DEF IInv, AppendOK
  <2>2. QED
    BY <2>1 DEF AppendOK
<1>10. QED
  BY <1>3, <1>5, <1>7, <1>8, <1>9 DEF IInv

LEMMA AppendCommitsIInv ==
    ASSUME IInv, NEW r \in CommandIds, AppendCommits(r)
    PROVE  IInv'
<1>1. /\ pc[r] = "append" /\ VersionMatches(r) /\ Commit(r)
      /\ aggregate' = [aggregate EXCEPT ![r] = NewState(r)]
      /\ UNCHANGED <<snapshots, cmd, readTo>>
  BY DEF AppendCommits
<1>2. /\ streams' \in [Accounts -> Seq(Event(CommandIds))]
      /\ history' \in [Accounts -> Seq(AccountState)]
  BY <1>1, CommitIInv
<1>3. NewState(r) \in AccountState
  BY NewEventType DEF IInv
<1>4. aggregate' \in [CommandIds -> AccountState]
  BY <1>1, <1>3 DEF IInv, TypeOK
<1>5. /\ pc' \in [CommandIds -> PCs] /\ outcome' \in [CommandIds -> Outcomes]
      /\ pc'[r] \in {"saveSnapshot", "release"}
      /\ \A q \in CommandIds : q # r => pc'[q] = pc[q]
  <2>1. pc \in [CommandIds -> PCs] /\ outcome \in [CommandIds -> Outcomes]
    BY DEF IInv, TypeOK
  <2>2. PICK x \in {"saveSnapshot", "release"} : pc' = [pc EXCEPT ![r] = x]
    BY DEF AppendCommits, Finish
  <2>3. outcome' = outcome \/ outcome' = [outcome EXCEPT ![r] = "ok"]
    BY DEF AppendCommits, Finish
  <2>4. QED
    BY <2>1, <2>2, <2>3 DEF PCs, Outcomes
<1>6. TypeOK'
  BY <1>1, <1>2, <1>4, <1>5 DEF IInv, TypeOK, AppendCommits, locks, budget
<1>7. QED
  BY <1>1, <1>5, <1>6, WriteIInv

LEMMA CommitReplyLostIInv ==
    ASSUME IInv, NEW r \in CommandIds, CommitReplyLost(r)
    PROVE  IInv'
<1>1. /\ pc[r] = "append" /\ VersionMatches(r) /\ Commit(r)
      /\ UNCHANGED <<snapshots, cmd, readTo, aggregate>>
  BY DEF CommitReplyLost, local
<1>2. /\ streams' \in [Accounts -> Seq(Event(CommandIds))]
      /\ history' \in [Accounts -> Seq(AccountState)]
  BY <1>1, CommitIInv
<1>3. /\ pc' \in [CommandIds -> PCs] /\ outcome' \in [CommandIds -> Outcomes]
      /\ pc'[r] = "release" /\ \A q \in CommandIds : q # r => pc'[q] = pc[q]
  BY DEF IInv, TypeOK, CommitReplyLost, Finish, PCs, Outcomes
<1>4. faults' \in 0 .. MaxFaults
  BY RepositoryAssumption DEF IInv, TypeOK, CommitReplyLost
<1>5. TypeOK'
  BY <1>1, <1>2, <1>3, <1>4 DEF IInv, TypeOK, CommitReplyLost, locks, local
<1>6. QED
  BY <1>1, <1>3, <1>5, WriteIInv

LEMMA SaveSnapshotIInv ==
    ASSUME IInv, NEW r \in CommandIds, SaveSnapshot(r)
    PROVE  IInv'
<1>1. /\ UNCHANGED <<streams, history, cmd, readTo, aggregate>>
      /\ pc[r] = "saveSnapshot" /\ pc' = [pc EXCEPT ![r] = "release"]
  BY DEF SaveSnapshot, Finish, local
<1>2. PICK b \in Accounts : b = AccountOf[r]
  BY RepositoryAssumption
<1>3. PICK saved \in AccountState : saved = aggregate[r]
  BY DEF IInv, TypeOK
<1>4. InHistory(b, saved) /\ saved.version > 0
  BY <1>1, <1>2, <1>3 DEF IInv, AggregateOK
<1>5. snapshots' = snapshots \/ snapshots' = [snapshots EXCEPT ![b] = snapshots[b] \cup {saved}]
  BY <1>2, <1>3 DEF SaveSnapshot, SnapshotOf
<1>6. TypeOK'
  <2>1. snapshots' \in [Accounts -> SUBSET AccountState]
    <3>1. snapshots \in [Accounts -> SUBSET AccountState]
      BY DEF IInv, TypeOK
    <3>2. PICK more \in SUBSET AccountState : more = snapshots[b] \cup {saved}
      BY <3>1
    <3>3. snapshots' = snapshots \/ snapshots' = [snapshots EXCEPT ![b] = more]
      BY <1>5, <3>2
    <3>4. QED
      BY <3>1, <3>3
  <2>2. pc' \in [CommandIds -> PCs] /\ outcome' \in [CommandIds -> Outcomes]
    BY DEF IInv, TypeOK, SaveSnapshot, Finish, PCs, Outcomes
  <2>3. QED
    BY <1>1, <2>1, <2>2 DEF IInv, TypeOK, SaveSnapshot, locks, local, budget
<1>7. /\ \A a \in Accounts : HistoryOK(a)'
      /\ \A a \in Accounts : \A s : InHistory(a, s) => InHistory(a, s)'
  BY <1>1, StoreStays
<1>8. SnapshotsOK'
  <2>1. ASSUME NEW a \in Accounts, NEW s \in snapshots'[a]
        PROVE  InHistory(a, s) /\ s.version > 0
    <3>1. s \in snapshots[a] \/ (a = b /\ s = saved)
      BY <1>5, <2>1 DEF IInv, TypeOK
    <3>2. QED
      BY <1>4, <3>1 DEF IInv, SnapshotsOK
  <2>2. QED
    BY <1>7, <2>1 DEF SnapshotsOK
<1>9. AggregateOK'
  BY <1>1 DEF IInv, TypeOK, AggregateOK, InHistory
<1>10. ReplayOK'
  BY <1>1 DEF IInv, TypeOK, ReplayOK
<1>11. AppendOK'
  BY <1>1 DEF IInv, TypeOK, AppendOK
<1>12. QED
  BY <1>6, <1>7, <1>8, <1>9, <1>10, <1>11 DEF IInv

-----------------------------------------------------------------------------
(* The theorems *)

LEMMA InitIInv == Init => IInv
<1> SUFFICES ASSUME Init PROVE IInv
  OBVIOUS
<1>1. cmd \in [CommandIds -> Command]
  BY RepositoryAssumption DEF Init
<1>2. TypeOK
  BY <1>1, RepositoryAssumption, NewAccountType DEF Init, TypeOK, PCs, Outcomes
<1>3. NewAccount.version = 0 /\ NewAccount.balance = 0
  BY DEF NewAccount
<1>4. ASSUME NEW a \in Accounts PROVE HistoryOK(a) /\ InHistory(a, NewAccount)
  <2>1. streams[a] = <<>> /\ history[a] = <<NewAccount>>
    BY DEF Init
  <2>2. QED
    BY <1>3, <2>1 DEF HistoryOK, InHistory
<1>5. SnapshotsOK /\ ReplayOK /\ AppendOK
  BY DEF Init, SnapshotsOK, ReplayOK, AppendOK
<1>6. AggregateOK
  BY <1>4, RepositoryAssumption DEF Init, AggregateOK
<1>7. QED
  BY <1>2, <1>4, <1>5, <1>6 DEF IInv

LEMMA NextIInv == IInv /\ [Next]_vars => IInv'
<1> SUFFICES ASSUME IInv, [Next]_vars PROVE IInv'
  OBVIOUS
<1>1. CASE UNCHANGED vars
  <2>1. TypeOK'
    BY <1>1 DEF IInv, TypeOK, vars
  <2>2. QED
    BY <1>1, <2>1, QuietIInv DEF vars, store
<1>2. ASSUME NEW r \in CommandIds, Submit(r) \/ Step(r) \/ QueryFails(r) \/ CommitReplyLost(r)
      PROVE  IInv'
  BY <1>2, SubmitIInv, AcquireIInv, ReadSnapshotIInv, ReadStreamIInv, ReplayIInv, ExecuteIInv,
     AppendCommitsIInv, AppendConflictsIInv, SaveSnapshotIInv, ReleaseIInv, QueryFailsIInv,
     CommitReplyLostIInv
  DEF Step
<1>3. ASSUME NEW i \in Instances, Crash(i) PROVE IInv'
  BY <1>3, CrashIInv
<1>4. QED
  BY <1>1, <1>2, <1>3 DEF Next

\* Every reachable state of the write path satisfies the inductive invariant:
\* all that executeWithRetry holds in memory or stores is a point of the account's
\* one history.
THEOREM Invariant == Spec => []IInv
<1>1. Init => IInv
  BY InitIInv
<1>2. IInv /\ [Next]_vars => IInv'
  BY NextIInv
<1>3. QED
  BY <1>1, <1>2, PTL DEF Spec

\* Type correctness of the write path; it includes that executeWithRetry never
\* makes more than MAX_WRITE_ATTEMPTS attempts.
THEOREM TypeCorrect == Spec => []TypeOK
<1>1. IInv => TypeOK
  BY DEF IInv
<1>2. QED
  BY <1>1, Invariant, PTL

\* An account is never overdrawn, whatever processes write to it, fail or crash:
\* the funds check on a loaded copy holds when the event is committed.
THEOREM NeverOverdrawn == Spec => []NoOverdraft
<1>1. IInv => NoOverdraft
  <2> SUFFICES ASSUME IInv, NEW a \in Accounts, NEW n \in DOMAIN history[a]
               PROVE  history[a][n].balance >= 0
    BY DEF NoOverdraft
  <2>1. DOMAIN history[a] = 1 .. Len(history[a])
    BY DEF IInv, TypeOK
  <2>2. QED
    BY <2>1 DEF IInv, HistoryOK
<1>2. QED
  BY <1>1, Invariant, PTL

\* A snapshot and the tail read after it always load the state that the whole
\* stream replays to, however many appends happen in between.
THEOREM LoadFaithful == Spec => []LoadIsReplay
<1>1. IInv => LoadIsReplay
  <2> SUFFICES ASSUME IInv PROVE LoadIsReplay
    OBVIOUS
  <2>1. ASSUME NEW a \in Accounts, NEW s \in snapshots[a]
        PROVE  s.version \in 1 .. Version(a) /\ s = history[a][s.version + 1]
    <3>1. InHistory(a, s) /\ s.version > 0 /\ Len(streams[a]) \in Nat
      BY DEF IInv, TypeOK, SnapshotsOK
    <3>2. QED
      BY <3>1 DEF InHistory, Version
  <2>2. ASSUME NEW r \in CommandIds
        PROVE  LET v == aggregate[r].version IN
               v \in 0 .. Version(AccountOf[r]) /\ aggregate[r] = history[AccountOf[r]][v + 1]
    BY DEF IInv, AggregateOK, InHistory, Version
  <2>3. QED
    BY <2>1, <2>2 DEF LoadIsReplay
<1>2. QED
  BY <1>1, Invariant, PTL
-----------------------------------------------------------------------------
(* The mutex of withAccountLock                                            *)
(*                                                                         *)
(* The lock is a chain of promises: every request awaits the one that was  *)
(* last in the map when it came.  That at most one request per process and *)
(* account holds it is not inductive: when the holder that is last in the  *)
(* map leaves, its entry goes, and nobody may be waiting.  Chain says why: *)
(* requests have ranks, the last in the map has the highest, and whoever   *)
(* is not the lowest awaits the one ranked right below it.                 *)

\* Both requests use the same entry of the same lock map.
SameLock(q, r) == InstanceOf[q] = InstanceOf[r] /\ AccountOf[q] = AccountOf[r]

\* The promise registered last for r's account in r's process.
LastOf(r) == accountLocks[InstanceOf[r]][AccountOf[r]]

Chain(rank) ==
    \A r \in CommandIds : InFlight(r) =>
        /\ LastOf(r) \in CommandIds
        /\ rank[r] <= rank[LastOf(r)]
        /\ \A q \in CommandIds : InFlight(q) /\ SameLock(q, r) =>
              /\ rank[q] = rank[r] => q = r
              /\ rank[q] < rank[r] => ~LockFree(r) /\ rank[r] = rank[prev[r]] + 1

MutexOK ==
    /\ LocksBounded
    /\ \A r \in CommandIds : pc[r] \in Critical => LockFree(r)
    /\ \A r \in released : pc[r] = "done"
    /\ \A r \in CommandIds : prev[r] # NoCommand => pc[prev[r]] # "new" /\ SameLock(prev[r], r)
    /\ \E rank \in [CommandIds -> Nat] : Chain(rank)

\* Of two requests on one lock, at most one is free to run.
LEMMA OneFree ==
    ASSUME MutexOK, NEW q \in CommandIds, NEW r \in CommandIds, SameLock(q, r),
           InFlight(q), InFlight(r), LockFree(q), LockFree(r)
    PROVE  q = r
<1>1. PICK rank \in [CommandIds -> Nat] : Chain(rank)
  BY DEF MutexOK
<1>2. SameLock(r, q)
  BY DEF SameLock
<1>3. ~(rank[q] < rank[r]) /\ ~(rank[r] < rank[q])
  BY <1>1, <1>2 DEF Chain
<1>4. rank[q] = rank[r]
  BY <1>3
<1>5. QED
  BY <1>1, <1>4 DEF Chain

\* A request gets the lock, or goes on with the lock in hand.
LEMMA HoldingMutex ==
    ASSUME TypeOK, MutexOK, NEW r \in CommandIds, NEW x \in Critical, UNCHANGED locks,
           pc[r] \in Critical \/ (pc[r] = "queued" /\ LockFree(r)),
           pc' = [pc EXCEPT ![r] = x]
    PROVE  MutexOK'
<1>1. UNCHANGED <<accountLocks, prev, released>>
  BY DEF locks
<1>2. pc'[r] = x /\ \A q \in CommandIds : q # r => pc'[q] = pc[q]
  BY DEF TypeOK
<1>3. \A q \in CommandIds : InFlight(q)' <=> InFlight(q)
  BY <1>2 DEF InFlight
<1>4. \A q \in CommandIds : LockFree(q)' <=> LockFree(q)
  BY <1>1 DEF LockFree
<1>5. LocksBounded'
  <2>1. ASSUME NEW i \in Instances, NEW a \in Accounts, accountLocks[i][a] # NoCommand
        PROVE  /\ InFlight(accountLocks[i][a])'
               /\ InstanceOf[accountLocks[i][a]] = i /\ AccountOf[accountLocks[i][a]] = a
    <3>1. accountLocks[i][a] \in CommandIds
      BY <2>1 DEF TypeOK
    <3>2. InFlight(accountLocks[i][a])
      BY <2>1 DEF MutexOK, LocksBounded
    <3>3. InFlight(accountLocks[i][a])'
      BY <1>1, <1>2, <3>1, <3>2 DEF InFlight
    <3>4. QED
      BY <2>1, <3>3 DEF MutexOK, LocksBounded
  <2>2. QED
    BY <1>1, <2>1 DEF LocksBounded, InFlight
<1>6. ASSUME NEW q \in CommandIds, pc'[q] \in Critical PROVE LockFree(q)'
  BY <1>2, <1>4, <1>6 DEF MutexOK
<1>7. ASSUME NEW q \in released PROVE pc'[q] = "done"
  <2>1. pc[q] = "done" /\ q \in CommandIds
    BY DEF MutexOK, TypeOK
  <2>2. q # r
    BY <2>1 DEF Critical
  <2>3. QED
    BY <1>2, <2>1, <2>2
<1>8. ASSUME NEW q \in CommandIds, prev[q] # NoCommand
      PROVE  pc'[prev[q]] # "new" /\ SameLock(prev[q], q)
  <2>1. prev[q] \in CommandIds /\ pc[prev[q]] # "new" /\ SameLock(prev[q], q)
    BY <1>8 DEF MutexOK, TypeOK
  <2>2. QED
    BY <1>2, <2>1 DEF Critical
<1>9. ASSUME NEW rank \in [CommandIds -> Nat], Chain(rank) PROVE Chain(rank)'
  BY <1>1, <1>3, <1>4, <1>9 DEF Chain, LastOf, SameLock
<1>10. QED
  BY <1>1, <1>5, <1>6, <1>7, <1>8, <1>9 DEF MutexOK, SameLock

\* A request joins the chain behind the last one, and ranks above it.
LEMMA SubmitMutex ==
    ASSUME TypeOK, MutexOK, NEW r \in CommandIds, Submit(r)
    PROVE  MutexOK'
<1>1. PICK i \in Instances : i = InstanceOf[r]
  BY RepositoryAssumption
<1>2. PICK a \in Accounts : a = AccountOf[r]
  BY RepositoryAssumption
<1>3. PICK last \in CommandIds \cup {NoCommand} : last = accountLocks[i][a]
  BY DEF TypeOK
<1>4. /\ pc[r] = "new" /\ UNCHANGED released
      /\ prev' = [prev EXCEPT ![r] = last]
      /\ accountLocks' = [accountLocks EXCEPT ![i][a] = r]
      /\ pc' = [pc EXCEPT ![r] = "queued"]
  BY <1>1, <1>2, <1>3 DEF Submit
<1>5. /\ pc'[r] = "queued" /\ prev'[r] = last
      /\ \A q \in CommandIds : q # r => pc'[q] = pc[q] /\ prev'[q] = prev[q]
  BY <1>4 DEF TypeOK
<1>6. \A j \in Instances, b \in Accounts :
         accountLocks'[j][b] = IF j = i /\ b = a THEN r ELSE accountLocks[j][b]
  BY <1>4 DEF TypeOK
<1>7. ~InFlight(r) /\ InFlight(r)' /\ \A q \in CommandIds : q # r => (InFlight(q)' <=> InFlight(q))
  BY <1>4, <1>5 DEF InFlight, Critical
<1>8. last # NoCommand => last # r /\ InFlight(last) /\ InstanceOf[last] = i /\ AccountOf[last] = a
  BY <1>3, <1>7 DEF MutexOK, LocksBounded
<1>9. last # NoCommand => last \notin released
  BY <1>8 DEF MutexOK, InFlight, Critical
<1>10. LocksBounded'
  <2>1. ASSUME NEW j \in Instances, NEW b \in Accounts, NEW h, h = accountLocks'[j][b], h # NoCommand
        PROVE  pc'[h] \in Critical \cup {"queued"} /\ InstanceOf[h] = j /\ AccountOf[h] = b
    <3>1. CASE j = i /\ b = a
      BY <1>1, <1>2, <1>5, <1>6, <2>1, <3>1
    <3>2. CASE ~(j = i /\ b = a)
      <4>1. h = accountLocks[j][b] /\ h \in CommandIds
        BY <1>6, <2>1, <3>2 DEF TypeOK
      <4>2. InFlight(h) /\ InstanceOf[h] = j /\ AccountOf[h] = b
        BY <2>1, <4>1 DEF MutexOK, LocksBounded
      <4>3. InFlight(h)'
        BY <1>7, <4>1, <4>2
      <4>4. QED
        BY <4>2, <4>3 DEF InFlight
    <3>3. QED
      BY <3>1, <3>2
  <2>2. QED
    BY <2>1 DEF LocksBounded, InFlight
<1>11. ASSUME NEW q \in CommandIds, pc'[q] \in Critical PROVE LockFree(q)'
  <2>1. q # r
    BY <1>5, <1>11 DEF Critical
  <2>2. LockFree(q)
    BY <1>5, <1>11, <2>1 DEF MutexOK
  <2>3. QED
    BY <1>4, <1>5, <2>1, <2>2 DEF LockFree
<1>12. ASSUME NEW q \in released PROVE pc'[q] = "done"
  <2>1. pc[q] = "done" /\ q \in CommandIds
    BY DEF MutexOK, TypeOK
  <2>2. QED
    BY <1>4, <1>5, <2>1
<1>13. ASSUME NEW q \in CommandIds, prev'[q] # NoCommand
       PROVE  pc'[prev'[q]] # "new" /\ SameLock(prev'[q], q)
  <2>1. CASE q = r
    <3>1. last \in CommandIds /\ last # r /\ InFlight(last)' /\ SameLock(last, r)
      BY <1>1, <1>2, <1>5, <1>7, <1>8, <1>13, <2>1 DEF SameLock
    <3>2. QED
      BY <1>5, <2>1, <3>1 DEF InFlight, Critical
  <2>2. CASE q # r
    <3>1. prev'[q] = prev[q] /\ prev[q] \in CommandIds /\ pc[prev[q]] # "new" /\ SameLock(prev[q], q)
      BY <1>5, <1>13, <2>2 DEF MutexOK, TypeOK
    <3>2. QED
      BY <1>5, <3>1
  <2>3. QED
    BY <2>1, <2>2
<1>14. \E rank \in [CommandIds -> Nat] : Chain(rank)'
  <2>1. PICK old \in [CommandIds -> Nat] : Chain(old)
    BY DEF MutexOK
  <2>2. PICK top \in Nat : top = IF last = NoCommand THEN 0 ELSE old[last] + 1
    BY <1>3
  <2>3. PICK rank \in [CommandIds -> Nat] : rank = [old EXCEPT ![r] = top]
    OBVIOUS
  <2>4. rank[r] = top /\ \A q \in CommandIds : q # r => rank[q] = old[q]
    BY <2>3
  <2>5. ASSUME NEW q \in CommandIds, InFlight(q), SameLock(q, r)
        PROVE  q # r /\ last \in CommandIds /\ old[q] <= old[last] /\ rank[q] < rank[r]
    <3>1. q # r /\ LastOf(q) = last
      BY <1>1, <1>2, <1>3, <1>7, <2>5 DEF SameLock, LastOf
    <3>2. last \in CommandIds /\ old[q] <= old[last]
      BY <2>1, <2>5, <3>1 DEF Chain
    <3>3. top = old[last] + 1
      BY <2>2, <3>2, RepositoryAssumption
    <3>4. old[q] \in Nat /\ old[last] \in Nat
      BY <3>2
    <3>5. QED
      BY <2>4, <3>1, <3>2, <3>3, <3>4
  <2>6. ASSUME NEW q \in CommandIds, InFlight(q)'
        PROVE  accountLocks'[InstanceOf[q]][AccountOf[q]] \in CommandIds
    <3>1. InstanceOf[q] \in Instances /\ AccountOf[q] \in Accounts
      BY RepositoryAssumption
    <3>2. CASE q = r
      BY <1>1, <1>2, <1>6, <3>1, <3>2
    <3>3. CASE q # r
      <4>1. LastOf(q) \in CommandIds
        BY <1>7, <2>1, <2>6, <3>3 DEF Chain
      <4>2. QED
        BY <1>6, <3>1, <4>1 DEF LastOf
    <3>4. QED
      BY <3>2, <3>3
  <2>7. ASSUME NEW q \in CommandIds, InFlight(q)'
        PROVE  rank[q] <= rank[accountLocks'[InstanceOf[q]][AccountOf[q]]]
    <3>1. InstanceOf[q] \in Instances /\ AccountOf[q] \in Accounts
      BY RepositoryAssumption
    <3>2. CASE SameLock(q, r)
      <4>1. accountLocks'[InstanceOf[q]][AccountOf[q]] = r
        BY <1>1, <1>2, <1>6, <3>1, <3>2 DEF SameLock
      <4>2. q = r \/ rank[q] < rank[r]
        BY <1>7, <2>5, <2>7, <3>2
      <4>3. QED
        BY <4>1, <4>2
    <3>3. CASE ~SameLock(q, r)
      <4>1. q # r /\ InFlight(q)
        BY <1>7, <2>7, <3>3 DEF SameLock
      <4>2. accountLocks'[InstanceOf[q]][AccountOf[q]] = LastOf(q)
        BY <1>1, <1>2, <1>6, <3>1, <3>3 DEF SameLock, LastOf
      <4>3. LastOf(q) \in CommandIds /\ old[q] <= old[LastOf(q)]
        BY <2>1, <4>1 DEF Chain
      <4>4. InFlight(LastOf(q))
        BY <3>1, <4>3, RepositoryAssumption DEF MutexOK, LocksBounded, LastOf
      <4>5. LastOf(q) # r
        BY <1>7, <4>4
      <4>6. QED
        BY <2>4, <4>1, <4>2, <4>3, <4>5
    <3>4. QED
      BY <3>2, <3>3
  <2>8. ASSUME NEW p \in CommandIds, NEW q \in CommandIds, InFlight(p)', InFlight(q)', SameLock(p, q)
        PROVE  /\ rank[p] = rank[q] => p = q
               /\ rank[p] < rank[q] => ~LockFree(q)' /\ rank[q] = rank[prev'[q]] + 1
    <3>1. CASE p = q
      BY <3>1
    <3>2. CASE p # q /\ q = r
      <4>1. InFlight(p) /\ rank[p] < rank[r] /\ last \in CommandIds
        BY <1>7, <2>5, <2>8, <3>2
      <4>2. last # NoCommand /\ last # r /\ last \notin released
        BY <1>8, <1>9, <4>1, RepositoryAssumption
      <4>3. ~LockFree(q)'
        BY <1>4, <1>5, <3>2, <4>2 DEF LockFree
      <4>4. rank[q] = rank[prev'[q]] + 1
        BY <1>5, <2>2, <2>4, <3>2, <4>1, <4>2
      <4>5. QED
        BY <3>2, <4>1, <4>3, <4>4
    <3>3. CASE p = r /\ q # r
      <4>1. InFlight(q) /\ SameLock(q, r)
        BY <1>7, <2>8, <3>3 DEF SameLock
      <4>2. rank[q] < rank[r]
        BY <2>5, <4>1
      <4>3. QED
        BY <3>3, <4>2
    <3>4. CASE p # r /\ q # r
      <4>1. InFlight(p) /\ InFlight(q) /\ rank[p] = old[p] /\ rank[q] = old[q]
        BY <1>7, <2>4, <2>8, <3>4
      <4>2. /\ old[p] = old[q] => p = q
            /\ old[p] < old[q] => ~LockFree(q) /\ old[q] = old[prev[q]] + 1
        BY <2>1, <2>8, <4>1 DEF Chain
      <4>3. LockFree(q)' <=> LockFree(q)
        BY <1>4, <1>5, <3>4 DEF LockFree
      <4>4. ASSUME ~LockFree(q) PROVE rank[prev'[q]] = old[prev[q]]
        <5>1. prev'[q] = prev[q] /\ prev[q] \in CommandIds /\ prev[q] # NoCommand
          BY <1>5, <3>4, <4>4 DEF LockFree, TypeOK
        <5>2. prev[q] # r
          BY <1>4, <5>1 DEF MutexOK
        <5>3. QED
          BY <2>4, <5>1, <5>2
      <4>5. QED
        BY <4>1, <4>2, <4>3, <4>4
    <3>5. QED
      BY <3>1, <3>2, <3>3, <3>4
  <2>9. Chain(rank)'
    BY <2>6, <2>7, <2>8 DEF Chain, LastOf, SameLock
  <2>10. QED
    BY <2>9
<1>15. QED
  BY <1>4, <1>10, <1>11, <1>12, <1>13, <1>14 DEF MutexOK, SameLock

\* The holder leaves.  It has the lowest rank; if it is the last in the map, also the
\* highest, and it was alone.  Otherwise the request ranked next becomes free.
LEMMA ReleaseMutex ==
    ASSUME TypeOK, MutexOK, NEW r \in CommandIds, Release(r)
    PROVE  MutexOK'
<1>1. PICK i \in Instances : i = InstanceOf[r]
  BY RepositoryAssumption
<1>2. PICK a \in Accounts : a = AccountOf[r]
  BY RepositoryAssumption
<1>3. /\ pc[r] = "release" /\ UNCHANGED prev
      /\ released' = released \cup {r}
      /\ accountLocks' = IF accountLocks[i][a] = r
                           THEN [accountLocks EXCEPT ![i][a] = NoCommand]
                           ELSE accountLocks
      /\ pc' = [pc EXCEPT ![r] = "done"]
  BY <1>1, <1>2 DEF Release
<1>4. pc'[r] = "done" /\ \A q \in CommandIds : q # r => pc'[q] = pc[q]
  BY <1>3 DEF TypeOK
<1>5. \A j \in Instances, b \in Accounts :
         accountLocks'[j][b] =
            IF j = i /\ b = a /\ accountLocks[i][a] = r THEN NoCommand ELSE accountLocks[j][b]
  BY <1>3 DEF TypeOK
<1>6. InFlight(r) /\ ~InFlight(r)' /\ \A q \in CommandIds : q # r => (InFlight(q)' <=> InFlight(q))
  BY <1>3, <1>4 DEF InFlight, Critical
<1>7. LockFree(r)
  BY <1>3 DEF MutexOK, Critical
<1>8. LocksBounded'
  <2>1. ASSUME NEW j \in Instances, NEW b \in Accounts, NEW h, h = accountLocks'[j][b], h # NoCommand
        PROVE  pc'[h] \in Critical \cup {"queued"} /\ InstanceOf[h] = j /\ AccountOf[h] = b
    <3>1. h = accountLocks[j][b] /\ h \in CommandIds /\ ~(j = i /\ b = a /\ h = r)
      BY <1>5, <2>1 DEF TypeOK
    <3>2. InFlight(h) /\ InstanceOf[h] = j /\ AccountOf[h] = b
      BY <2>1, <3>1 DEF MutexOK, LocksBounded
    <3>3. InFlight(h)'
      BY <1>1, <1>2, <1>6, <3>1, <3>2
    <3>4. QED
      BY <3>2, <3>3 DEF InFlight
  <2>2. QED
    BY <2>1 DEF LocksBounded, InFlight
<1>9. ASSUME NEW q \in CommandIds, pc'[q] \in Critical PROVE LockFree(q)'
  <2>1. q # r
    BY <1>4, <1>9 DEF Critical
  <2>2. LockFree(q)
    BY <1>4, <1>9, <2>1 DEF MutexOK
  <2>3. QED
    BY <1>3, <2>2 DEF LockFree
<1>10. ASSUME NEW q \in released' PROVE pc'[q] = "done"
  <2>1. CASE q = r
    BY <1>4, <2>1
  <2>2. CASE q # r
    <3>1. pc[q] = "done" /\ q \in CommandIds
      BY <1>3, <1>10, <2>2 DEF MutexOK, TypeOK
    <3>2. QED
      BY <1>4, <2>2, <3>1
  <2>3. QED
    BY <2>1, <2>2
<1>11. ASSUME NEW q \in CommandIds, prev'[q] # NoCommand
       PROVE  pc'[prev'[q]] # "new" /\ SameLock(prev'[q], q)
  <2>1. prev'[q] = prev[q] /\ prev[q] \in CommandIds /\ pc[prev[q]] # "new" /\ SameLock(prev[q], q)
    BY <1>3, <1>11 DEF MutexOK, TypeOK
  <2>2. QED
    BY <1>4, <2>1
<1>12. \E rank \in [CommandIds -> Nat] : Chain(rank)'
  <2>1. PICK rank \in [CommandIds -> Nat] : Chain(rank)
    BY DEF MutexOK
  <2>2. ASSUME NEW q \in CommandIds, q # r, InFlight(q), SameLock(q, r)
        PROVE  rank[r] < rank[q]
    <3>1. ~(rank[q] < rank[r]) /\ rank[q] # rank[r]
      BY <1>6, <1>7, <2>1, <2>2 DEF Chain
    <3>2. QED
      BY <3>1
  <2>3. ASSUME NEW q \in CommandIds, InFlight(q)'
        PROVE  accountLocks'[InstanceOf[q]][AccountOf[q]] = LastOf(q)
    <3>1. InstanceOf[q] \in Instances /\ AccountOf[q] \in Accounts
      BY RepositoryAssumption
    <3>2. q # r /\ InFlight(q)
      BY <1>6, <2>3
    <3>3. CASE InstanceOf[q] = i /\ AccountOf[q] = a /\ accountLocks[i][a] = r
      <4>1. SameLock(q, r) /\ LastOf(q) = r
        BY <1>1, <1>2, <3>3 DEF SameLock, LastOf
      <4>2. rank[q] <= rank[r] /\ rank[r] < rank[q]
        BY <2>1, <2>2, <3>2, <4>1 DEF Chain
      <4>3. QED
        BY <4>2
    <3>4. CASE ~(InstanceOf[q] = i /\ AccountOf[q] = a /\ accountLocks[i][a] = r)
      BY <1>5, <3>1, <3>4 DEF LastOf
    <3>5. QED
      BY <3>3, <3>4
  <2>4. ASSUME NEW p \in CommandIds, NEW q \in CommandIds, InFlight(p)', InFlight(q)', SameLock(p, q),
               rank[p] < rank[q]
        PROVE  ~LockFree(q)' /\ rank[q] = rank[prev'[q]] + 1
    <3>1. p # r /\ q # r /\ InFlight(p) /\ InFlight(q)
      BY <1>6, <2>4
    <3>2. ~LockFree(q) /\ rank[q] = rank[prev[q]] + 1 /\ prev'[q] = prev[q]
      BY <1>3, <2>1, <2>4, <3>1 DEF Chain
    <3>3. prev[q] # r
      <4>1. SUFFICES ASSUME prev[q] = r PROVE FALSE
        OBVIOUS
      <4>2. SameLock(r, q)
        BY <4>1, RepositoryAssumption DEF MutexOK
      <4>3. rank[q] = rank[r] + 1
        BY <3>2, <4>1
      <4>4. SameLock(p, r)
        BY <2>4, <4>2 DEF SameLock
      <4>5. rank[r] < rank[p]
        BY <2>2, <3>1, <4>4
      <4>6. QED
        BY <2>4, <4>3, <4>5
    <3>4. QED
      BY <1>3, <3>2, <3>3 DEF LockFree
  <2>5. Chain(rank)'
    <3>1. ASSUME NEW q \in CommandIds, InFlight(q)'
          PROVE  LastOf(q)' \in CommandIds /\ rank[q] <= rank[LastOf(q)']
      BY <1>6, <2>1, <2>3, <3>1 DEF Chain, LastOf
    <3>2. ASSUME NEW p \in CommandIds, NEW q \in CommandIds, InFlight(p)', InFlight(q)', SameLock(p, q)
          PROVE  rank[p] = rank[q] => p = q
      BY <1>6, <2>1, <3>2 DEF Chain
    <3>3. QED
      BY <2>4, <3>1, <3>2 DEF Chain, LastOf, SameLock
  <2>6. QED
    BY <2>5
<1>13. QED
  BY <1>8, <1>9, <1>10, <1>11, <1>12 DEF MutexOK, SameLock

\* A crash takes the requests of one process and all entries of its lock map.
LEMMA CrashMutex ==
    ASSUME TypeOK, MutexOK, NEW i \in Instances, Crash(i)
    PROVE  MutexOK'
<1>1. /\ UNCHANGED <<prev, released>>
      /\ accountLocks' = [accountLocks EXCEPT ![i] = [a \in Accounts |-> NoCommand]]
  BY DEF Crash
<1>2. \A q \in CommandIds :
         pc'[q] = IF InstanceOf[q] = i /\ InFlight(q) THEN "crashed" ELSE pc[q]
  BY DEF Crash
<1>3. \A j \in Instances, a \in Accounts :
         accountLocks'[j][a] = IF j = i THEN NoCommand ELSE accountLocks[j][a]
  BY <1>1 DEF TypeOK
<1>4. \A q \in CommandIds : InFlight(q)' <=> InFlight(q) /\ InstanceOf[q] # i
  BY <1>2 DEF InFlight, Critical
<1>5. LocksBounded'
  <2>1. ASSUME NEW j \in Instances, NEW b \in Accounts, NEW h, h = accountLocks'[j][b], h # NoCommand
        PROVE  pc'[h] \in Critical \cup {"queued"} /\ InstanceOf[h] = j /\ AccountOf[h] = b
    <3>1. j # i /\ h = accountLocks[j][b] /\ h \in CommandIds
      BY <1>3, <2>1 DEF TypeOK
    <3>2. InFlight(h) /\ InstanceOf[h] = j /\ AccountOf[h] = b
      BY <2>1, <3>1 DEF MutexOK, LocksBounded
    <3>3. InFlight(h)'
      BY <1>4, <3>1, <3>2
    <3>4. QED
      BY <3>2, <3>3 DEF InFlight
  <2>2. QED
    BY <2>1 DEF LocksBounded, InFlight
<1>6. ASSUME NEW q \in CommandIds, pc'[q] \in Critical PROVE LockFree(q)'
  BY <1>1, <1>2, <1>6 DEF MutexOK, LockFree, Critical
<1>7. ASSUME NEW q \in released PROVE pc'[q] = "done"
  <2>1. pc[q] = "done" /\ q \in CommandIds
    BY DEF MutexOK, TypeOK
  <2>2. QED
    BY <1>2, <2>1 DEF InFlight, Critical
<1>8. ASSUME NEW q \in CommandIds, prev[q] # NoCommand
      PROVE  pc'[prev[q]] # "new" /\ SameLock(prev[q], q)
  <2>1. prev[q] \in CommandIds /\ pc[prev[q]] # "new" /\ SameLock(prev[q], q)
    BY <1>8 DEF MutexOK, TypeOK
  <2>2. QED
    BY <1>2, <2>1
<1>9. ASSUME NEW rank \in [CommandIds -> Nat], Chain(rank) PROVE Chain(rank)'
  <2>1. ASSUME NEW q \in CommandIds, InFlight(q)' PROVE LastOf(q)' = LastOf(q)
    BY <1>3, <1>4, <2>1, RepositoryAssumption DEF LastOf
  <2>2. \A q \in CommandIds : LockFree(q)' <=> LockFree(q)
    BY <1>1 DEF LockFree
  <2>3. ASSUME NEW q \in CommandIds, InFlight(q)'
        PROVE  LastOf(q)' \in CommandIds /\ rank[q] <= rank[LastOf(q)']
    BY <1>4, <1>9, <2>1, <2>3 DEF Chain
  <2>4. ASSUME NEW p \in CommandIds, NEW q \in CommandIds, InFlight(p)', InFlight(q)', SameLock(p, q)
        PROVE  /\ rank[p] = rank[q] => p = q
               /\ rank[p] < rank[q] => ~LockFree(q)' /\ rank[q] = rank[prev'[q]] + 1
    BY <1>1, <1>4, <1>9, <2>2, <2>4 DEF Chain
  <2>5. QED
    BY <2>3, <2>4 DEF Chain, SameLock
<1>10. QED
  BY <1>1, <1>5, <1>6, <1>7, <1>8, <1>9 DEF MutexOK, SameLock

LEMMA InitMutex == Init => MutexOK
<1> SUFFICES ASSUME Init PROVE MutexOK
  OBVIOUS
<1>1. \A r \in CommandIds : ~InFlight(r) /\ pc[r] = "new" /\ prev[r] = NoCommand
  BY DEF Init, InFlight, Critical
<1>2. LocksBounded
  BY DEF Init, LocksBounded
<1>3. [r \in CommandIds |-> 0] \in [CommandIds -> Nat] /\ Chain([r \in CommandIds |-> 0])
  BY <1>1 DEF Chain
<1>4. \A r \in CommandIds : pc[r] \notin Critical
  BY <1>1 DEF Critical
<1>5. \A r \in released : pc[r] = "done"
  BY DEF Init
<1>6. QED
  BY <1>1, <1>2, <1>3, <1>4, <1>5 DEF MutexOK

LEMMA StutterMutex == MutexOK /\ UNCHANGED vars => MutexOK'
BY DEF MutexOK, vars, LocksBounded, InFlight, LockFree, SameLock, Chain, LastOf

\* The shape of a step of a request between acquiring and releasing its lock.
LEMMA HoldingStep ==
    ASSUME NEW r \in CommandIds, Step(r) \/ QueryFails(r) \/ CommitReplyLost(r), ~Release(r)
    PROVE  /\ UNCHANGED locks
           /\ pc[r] \in Critical \/ (pc[r] = "queued" /\ LockFree(r))
           /\ \E x \in Critical : pc' = [pc EXCEPT ![r] = x] \/ (pc[r] \in Critical /\ UNCHANGED pc)
<1>1. CASE Acquire(r)
  BY <1>1 DEF Acquire, locks, Critical
<1>2. CASE ReadSnapshot(r)
  BY <1>2 DEF ReadSnapshot, locks, Critical
<1>3. CASE ReadStream(r)
  BY <1>3 DEF ReadStream, locks, Critical
<1>4. CASE Replay(r)
  BY <1>4 DEF Replay, locks, Critical
<1>5. CASE Execute(r)
  BY <1>5 DEF Execute, Finish, locks, Critical
<1>6. CASE AppendCommits(r)
  BY <1>6 DEF AppendCommits, Finish, locks, Critical
<1>7. CASE AppendConflicts(r)
  BY <1>7 DEF AppendConflicts, Finish, locks, Critical
<1>8. CASE SaveSnapshot(r)
  BY <1>8 DEF SaveSnapshot, Finish, locks, Critical
<1>9. CASE QueryFails(r)
  BY <1>9 DEF QueryFails, Finish, locks, Critical
<1>10. CASE CommitReplyLost(r)
  BY <1>10 DEF CommitReplyLost, Finish, locks, Critical
<1>11. QED
  BY <1>1, <1>2, <1>3, <1>4, <1>5, <1>6, <1>7, <1>8, <1>9, <1>10 DEF Step

LEMMA NextMutex == TypeOK /\ MutexOK /\ [Next]_vars => MutexOK'
<1> SUFFICES ASSUME TypeOK, MutexOK, [Next]_vars PROVE MutexOK'
  OBVIOUS
<1>1. CASE UNCHANGED vars
  BY <1>1, StutterMutex
<1>2. ASSUME NEW r \in CommandIds, Submit(r) \/ Release(r) PROVE MutexOK'
  BY <1>2, SubmitMutex, ReleaseMutex
<1>3. ASSUME NEW r \in CommandIds, Step(r) \/ QueryFails(r) \/ CommitReplyLost(r), ~Release(r)
      PROVE  MutexOK'
  <2>1. /\ UNCHANGED locks
        /\ pc[r] \in Critical \/ (pc[r] = "queued" /\ LockFree(r))
        /\ \E x \in Critical : pc' = [pc EXCEPT ![r] = x] \/ (pc[r] \in Critical /\ UNCHANGED pc)
    BY <1>3, HoldingStep
  <2>2. PICK x \in Critical : pc' = [pc EXCEPT ![r] = x]
    <3>1. UNCHANGED pc => pc' = [pc EXCEPT ![r] = pc[r]]
      BY DEF TypeOK
    <3>2. QED
      BY <2>1, <3>1
  <2>3. QED
    BY <2>1, <2>2, HoldingMutex
<1>4. ASSUME NEW i \in Instances, Crash(i) PROVE MutexOK'
  BY <1>4, CrashMutex
<1>5. QED
  BY <1>1, <1>2, <1>3, <1>4 DEF Next

\* withAccountLock keeps its lock map clean, whatever way requests end and whichever
\* processes crash: an entry belongs to a request that is still in flight.
THEOREM LockMapClean == Spec => []LocksBounded
<1>1. MutexOK => LocksBounded
  BY DEF MutexOK
<1>2. Init => MutexOK
  BY InitMutex
<1>3. TypeOK /\ MutexOK /\ [Next]_vars => MutexOK'
  BY NextMutex
<1>4. QED
  BY <1>1, <1>2, <1>3, TypeCorrect, PTL DEF Spec

-----------------------------------------------------------------------------
(* What a request holds while it has the lock                              *)
(*                                                                         *)
(* Every failed attempt saw the stream grow since the lock was acquired,   *)
(* and what a request loads is never older than its last failed attempt.   *)
(* Since the lock is exclusive in its process, what was written after the  *)
(* load was written elsewhere.                                             *)

\* The events of r's account after version v come from other processes.
OthersWrote(r, v) ==
    \A n \in v + 1 .. Version(AccountOf[r]) :
        InstanceOf[streams[AccountOf[r]][n].commandId] # InstanceOf[r]

\* A domain error of r is true of a state the account had since r got its lock.
Justified(r) ==
    \E v \in since[r] .. Version(AccountOf[r]) :
        DomainError(history[AccountOf[r]][v + 1], cmd[r]) # "none"

Fresh(r) ==
    /\ pc[r] \in {"new", "queued"} => attempt[r] = 1
    /\ outcome[r] # "none" => pc[r] \in {"release", "done", "crashed"}
    /\ pc[r] \in {"snapshot", "read"} => since[r] + attempt[r] <= Version(AccountOf[r]) + 1
    /\ pc[r] = "replay" => since[r] + attempt[r] <= readTo[r] + 1 /\ OthersWrote(r, readTo[r])
    /\ pc[r] = "append" =>
          since[r] + attempt[r] <= aggregate[r].version + 1 /\ OthersWrote(r, aggregate[r].version)
    /\ outcome[r] = "conflict" => since[r] + MaxWriteAttempts <= Version(AccountOf[r])
    /\ outcome[r] = "rejected" => Justified(r)

FreshOK == \A r \in CommandIds : Fresh(r)

\* Nothing in memory of request q changes but perhaps where it is.
Idle(q) ==
    /\ attempt'[q] = attempt[q] /\ aggregate'[q] = aggregate[q] /\ readTo'[q] = readTo[q]
    /\ outcome'[q] = outcome[q] /\ since'[q] = since[q] /\ cmd'[q] = cmd[q]

LEMMA NumbersOfRequest ==
    ASSUME TypeOK, NEW r \in CommandIds
    PROVE  /\ AccountOf[r] \in Accounts /\ Version(AccountOf[r]) \in Nat
           /\ attempt[r] \in Nat \ {0} /\ since[r] \in Nat /\ readTo[r] \in Nat
           /\ aggregate[r].version \in Nat /\ MaxWriteAttempts \in Nat
<1>1. AccountOf[r] \in Accounts /\ MaxWriteAttempts \in Nat
  BY RepositoryAssumption
<1>2. aggregate[r] \in AccountState
  BY DEF TypeOK
<1>3. attempt[r] \in 1 .. MaxWriteAttempts
  BY DEF TypeOK
<1>4. QED
  BY <1>1, <1>2, <1>3 DEF TypeOK, Version, AccountState

\* What a commit does to the streams and histories.
LEMMA CommitEffect ==
    ASSUME IInv, NEW r \in CommandIds, pc[r] = "append", VersionMatches(r), Commit(r)
    PROVE  /\ \A a \in Accounts :
                 /\ Len(streams[a]) \in Nat
                 /\ Len(streams'[a]) = IF a = AccountOf[r] THEN Len(streams[a]) + 1 ELSE Len(streams[a])
                 /\ \A n \in 1 .. Len(streams[a]) : streams'[a][n] = streams[a][n]
                 /\ \A n \in 1 .. Len(streams[a]) + 1 : history'[a][n] = history[a][n]
           /\ AccountOf[r] \in Accounts
           /\ streams'[AccountOf[r]][Len(streams[AccountOf[r]]) + 1].commandId = r
<1>1. PICK b \in Accounts : b = AccountOf[r]
  BY RepositoryAssumption
<1>2. PICK e \in Event(CommandIds) : e = NewEvent(r) /\ e.commandId = r
  <2>1. aggregate[r] \in AccountState /\ cmd[r] \in Command /\ r \in CommandIds
    BY DEF IInv, TypeOK
  <2>2. NewEvent(r) \in Event(CommandIds) /\ NewEvent(r).commandId = r
    BY ONLY <2>1, MakeEventType DEF NewEvent
  <2>3. QED
    BY <2>2
<1>3. PICK new : new = When(history[b][Len(history[b])], e)
  OBVIOUS
<1>4. /\ streams' = [streams EXCEPT ![b] = Append(streams[b], e)]
      /\ history' = [history EXCEPT ![b] = Append(history[b], new)]
  BY <1>1, <1>2, <1>3 DEF Commit
<1>5. /\ streams \in [Accounts -> Seq(Event(CommandIds))] /\ history \in [Accounts -> Seq(AccountState)]
      /\ \A a \in Accounts : Len(history[a]) = Len(streams[a]) + 1
  BY DEF IInv, TypeOK, HistoryOK
<1>6. /\ streams'[b] = Append(streams[b], e) /\ history'[b] = Append(history[b], new)
      /\ \A a \in Accounts : a # b => streams'[a] = streams[a] /\ history'[a] = history[a]
  BY <1>4, <1>5
<1>7. /\ Len(streams[b]) \in Nat /\ Len(streams'[b]) = Len(streams[b]) + 1
      /\ \A n \in 1 .. Len(streams[b]) : streams'[b][n] = streams[b][n]
      /\ streams'[b][Len(streams[b]) + 1] = e
  <2>1. streams[b] \in Seq(Event(CommandIds))
    BY <1>5
  <2>2. QED
    BY <1>6, <2>1
<1>8. \A n \in 1 .. Len(streams[b]) + 1 : history'[b][n] = history[b][n]
  <2>1. history[b] \in Seq(AccountState) /\ Len(history[b]) = Len(streams[b]) + 1
    BY <1>5
  <2>2. QED
    BY <1>6, <2>1
<1>9. \A a \in Accounts : Len(streams[a]) \in Nat
  BY <1>5
<1>10. QED
  BY <1>1, <1>2, <1>6, <1>7, <1>8, <1>9

\* A request that only moves on, while no event is committed.
LEMMA QuietFresh ==
    ASSUME NEW q \in CommandIds, Fresh(q), UNCHANGED <<streams, history>>, Idle(q),
           pc'[q] = pc[q] \/ pc'[q] \in {"done", "crashed"}
    PROVE  Fresh(q)'
BY DEF Fresh, Idle, Version, OthersWrote, Justified

\* A request while another one commits.
LEMMA OtherCommitsFresh ==
    ASSUME IInv, MutexOK, NEW r \in CommandIds, pc[r] = "append", VersionMatches(r), Commit(r),
           NEW q \in CommandIds, q # r, Fresh(q), Idle(q), pc'[q] = pc[q]
    PROVE  Fresh(q)'
<1>1. PICK a \in Accounts : a = AccountOf[q]
  BY RepositoryAssumption
<1>2. /\ Len(streams[a]) \in Nat /\ Len(streams'[a]) \in {Len(streams[a]), Len(streams[a]) + 1}
      /\ \A n \in 1 .. Len(streams[a]) : streams'[a][n] = streams[a][n]
      /\ \A n \in 1 .. Len(streams[a]) + 1 : history'[a][n] = history[a][n]
      /\ Len(streams'[a]) # Len(streams[a]) =>
            a = AccountOf[r] /\ streams'[a][Len(streams[a]) + 1].commandId = r
  BY CommitEffect
<1>3. /\ Version(AccountOf[q]) = Len(streams[a]) /\ Version(AccountOf[q])' = Len(streams'[a])
      /\ since[q] \in Nat /\ attempt[q] \in Nat /\ MaxWriteAttempts \in Nat
  BY <1>1, NumbersOfRequest DEF IInv, Version
<1>4. ASSUME NEW v \in Nat, pc[q] \in {"replay", "append"}, OthersWrote(q, v) PROVE OthersWrote(q, v)'
  <2>1. ASSUME NEW n \in v + 1 .. Len(streams'[a])
        PROVE  InstanceOf[streams'[a][n].commandId] # InstanceOf[q]
    <3>1. CASE n <= Len(streams[a])
      <4>1. n \in v + 1 .. Len(streams[a]) /\ n \in 1 .. Len(streams[a])
        BY <1>2, <2>1, <3>1
      <4>2. InstanceOf[streams[a][n].commandId] # InstanceOf[q]
        BY <1>1, <1>3, <1>4, <4>1 DEF OthersWrote
      <4>3. QED
        BY <1>2, <4>1, <4>2
    <3>2. CASE n > Len(streams[a])
      <4>1. n = Len(streams[a]) + 1 /\ a = AccountOf[r] /\ streams'[a][n].commandId = r
        BY <1>2, <2>1, <3>2
      <4>2. ~SameLock(q, r)
        <5>1. pc[q] \in Critical /\ pc[r] \in Critical
          BY <1>4 DEF Critical
        <5>2. InFlight(q) /\ InFlight(r) /\ LockFree(q) /\ LockFree(r)
          BY <5>1 DEF InFlight, MutexOK
        <5>3. QED
          BY <5>2, OneFree
      <4>3. QED
        BY <1>1, <4>1, <4>2 DEF SameLock
    <3>3. QED
      BY <1>2, <2>1, <3>1, <3>2
  <2>2. QED
    BY <1>1, <2>1 DEF OthersWrote, Version
<1>5. Justified(q) => Justified(q)'
  <2>1. ASSUME NEW v \in since[q] .. Len(streams[a]), DomainError(history[a][v + 1], cmd[q]) # "none"
        PROVE  v \in since'[q] .. Len(streams'[a]) /\ DomainError(history'[a][v + 1], cmd'[q]) # "none"
    <3>1. v + 1 \in 1 .. Len(streams[a]) + 1 /\ v <= Len(streams'[a])
      BY <1>2, <1>3
    <3>2. history'[a][v + 1] = history[a][v + 1]
      BY <1>2, <3>1
    <3>3. since'[q] = since[q] /\ cmd'[q] = cmd[q]
      BY DEF Idle
    <3>4. v \in since'[q] .. Len(streams'[a])
      BY <1>2, <1>3, <3>1, <3>3
    <3>5. QED
      BY <2>1, <3>2, <3>3, <3>4
  <2>2. QED
    BY <1>1, <2>1 DEF Justified, Version
<1>6. \A m : m <= Version(AccountOf[q]) /\ m \in Nat => m <= Version(AccountOf[q])'
  BY <1>2, <1>3
<1>7. pc[q] \in {"snapshot", "read"} => since[q] + attempt[q] <= Version(AccountOf[q])' + 1
  BY <1>2, <1>3 DEF Fresh
<1>8. outcome[q] = "conflict" => since[q] + MaxWriteAttempts <= Version(AccountOf[q])'
  BY <1>3, <1>6 DEF Fresh
<1>9. readTo[q] \in Nat /\ aggregate[q].version \in Nat
  BY NumbersOfRequest DEF IInv
<1>10. /\ pc[q] = "replay" => OthersWrote(q, readTo[q])'
       /\ pc[q] = "append" => OthersWrote(q, aggregate[q].version)'
  <2>1. pc[q] = "replay" => OthersWrote(q, readTo[q])
    BY DEF Fresh
  <2>2. pc[q] = "append" => OthersWrote(q, aggregate[q].version)
    BY DEF Fresh
  <2>3. ASSUME NEW v \in Nat, pc[q] \in {"replay", "append"}, OthersWrote(q, v)
        PROVE  \A n \in v + 1 .. Len(streams'[a]) : InstanceOf[streams'[a][n].commandId] # InstanceOf[q]
    BY <1>1, <1>4, <2>3 DEF OthersWrote, Version
  <2>4. QED
    BY <1>1, <1>9, <2>1, <2>2, <2>3 DEF OthersWrote, Version, Idle
<1>11. QED
  BY <1>5, <1>7, <1>8, <1>10 DEF Fresh, Idle

\* A step of one request leaves what the others have in memory alone.
LEMMA OthersIdle ==
    ASSUME TypeOK, NEW r \in CommandIds,
           Submit(r) \/ Step(r) \/ QueryFails(r) \/ CommitReplyLost(r),
           NEW q \in CommandIds, q # r
    PROVE  Idle(q) /\ pc'[q] = pc[q]
<1>1. CASE Submit(r)
  BY <1>1 DEF Submit, Idle, TypeOK, local
<1>2. CASE Acquire(r)
  BY <1>2 DEF Acquire, Idle, TypeOK
<1>3. CASE ReadSnapshot(r)
  BY <1>3 DEF ReadSnapshot, Idle, TypeOK
<1>4. CASE ReadStream(r)
  BY <1>4 DEF ReadStream, Idle, TypeOK
<1>5. CASE Replay(r)
  BY <1>5 DEF Replay, Idle, TypeOK
<1>6. CASE Execute(r)
  BY <1>6 DEF Execute, Finish, Idle, TypeOK, local
<1>7. CASE AppendCommits(r)
  BY <1>7 DEF AppendCommits, Finish, Idle, TypeOK
<1>8. CASE AppendConflicts(r)
  BY <1>8 DEF AppendConflicts, Finish, Idle, TypeOK
<1>9. CASE SaveSnapshot(r)
  BY <1>9 DEF SaveSnapshot, Finish, Idle, TypeOK, local
<1>10. CASE Release(r)
  BY <1>10 DEF Release, Idle, TypeOK, local
<1>11. CASE QueryFails(r)
  BY <1>11 DEF QueryFails, Finish, Idle, TypeOK, local
<1>12. CASE CommitReplyLost(r)
  BY <1>12 DEF CommitReplyLost, Finish, Idle, TypeOK, local
<1>13. QED
  BY <1>1, <1>2, <1>3, <1>4, <1>5, <1>6, <1>7, <1>8, <1>9, <1>10, <1>11, <1>12 DEF Step

\* The steps before an attempt reads the stream.
LEMMA StartFresh ==
    ASSUME TypeOK, NEW r \in CommandIds, Fresh(r), Submit(r) \/ Acquire(r) \/ ReadSnapshot(r)
    PROVE  Fresh(r)' /\ UNCHANGED <<streams, history>>
<1>1. /\ Version(AccountOf[r]) \in Nat /\ since[r] \in Nat /\ attempt[r] \in Nat
  BY NumbersOfRequest
<1>2. CASE Submit(r)
  <2>1. /\ pc'[r] = "queued" /\ Idle(r) /\ pc[r] = "new" /\ UNCHANGED <<streams, history>>
    BY <1>2 DEF Submit, Idle, TypeOK, local, store
  <2>2. attempt[r] = 1 /\ outcome[r] = "none"
    BY <2>1 DEF Fresh
  <2>3. QED
    BY <2>1, <2>2 DEF Fresh, Idle
<1>3. CASE Acquire(r)
  <2>1. /\ pc[r] = "queued" /\ pc'[r] = "snapshot" /\ since'[r] = Version(AccountOf[r])
        /\ attempt'[r] = attempt[r] /\ outcome'[r] = outcome[r] /\ UNCHANGED <<streams, history>>
    BY <1>3 DEF Acquire, TypeOK, store
  <2>2. attempt[r] = 1 /\ outcome[r] = "none"
    BY <2>1 DEF Fresh
  <2>3. Version(AccountOf[r])' = Version(AccountOf[r])
    BY <2>1 DEF Version
  <2>4. QED
    BY <1>1, <2>1, <2>2, <2>3 DEF Fresh
<1>4. CASE ReadSnapshot(r)
  <2>1. /\ pc[r] = "snapshot" /\ pc'[r] = "read" /\ since'[r] = since[r]
        /\ attempt'[r] = attempt[r] /\ outcome'[r] = outcome[r] /\ UNCHANGED <<streams, history>>
    BY <1>4 DEF ReadSnapshot, TypeOK, store
  <2>2. outcome[r] = "none" /\ since[r] + attempt[r] <= Version(AccountOf[r]) + 1
    BY <2>1 DEF Fresh
  <2>3. Version(AccountOf[r])' = Version(AccountOf[r])
    BY <2>1 DEF Version
  <2>4. QED
    BY <1>1, <2>1, <2>2, <2>3 DEF Fresh
<1>5. QED
  BY <1>2, <1>3, <1>4

\* Reading the stream and replaying it: what is loaded is up to date when it is read.
LEMMA LoadFresh ==
    ASSUME TypeOK, NEW r \in CommandIds, Fresh(r), ReadStream(r) \/ Replay(r)
    PROVE  Fresh(r)' /\ UNCHANGED <<streams, history>>
<1>1. /\ Version(AccountOf[r]) \in Nat /\ since[r] \in Nat /\ attempt[r] \in Nat
  BY NumbersOfRequest
<1>2. CASE ReadStream(r)
  <2>1. /\ pc[r] = "read" /\ pc'[r] = "replay" /\ since'[r] = since[r]
        /\ attempt'[r] = attempt[r] /\ outcome'[r] = outcome[r]
        /\ readTo'[r] = Version(AccountOf[r]) /\ UNCHANGED <<streams, history>>
    BY <1>2 DEF ReadStream, TypeOK, store
  <2>2. outcome[r] = "none" /\ since[r] + attempt[r] <= Version(AccountOf[r]) + 1
    BY <2>1 DEF Fresh
  <2>3. Version(AccountOf[r])' = Version(AccountOf[r])
    BY <2>1 DEF Version
  <2>4. OthersWrote(r, readTo[r])'
    BY <1>1, <2>1, <2>3 DEF OthersWrote
  <2>5. QED
    BY <1>1, <2>1, <2>2, <2>3, <2>4 DEF Fresh
<1>3. CASE Replay(r)
  <2>1. /\ pc[r] = "replay" /\ pc'[r] = "replay" /\ since'[r] = since[r]
        /\ attempt'[r] = attempt[r] /\ outcome'[r] = outcome[r]
        /\ readTo'[r] = readTo[r] /\ UNCHANGED <<streams, history>>
    BY <1>3 DEF Replay, TypeOK, store
  <2>2. /\ outcome[r] = "none" /\ since[r] + attempt[r] <= readTo[r] + 1
        /\ OthersWrote(r, readTo[r])
    BY <2>1 DEF Fresh
  <2>3. OthersWrote(r, readTo[r])'
    BY <2>1, <2>2 DEF OthersWrote, Version
  <2>4. QED
    BY <2>1, <2>2, <2>3 DEF Fresh
<1>4. QED
  BY <1>2, <1>3

\* The command is accepted or refused on the version it has loaded, which the
\* account had after the lock was acquired.
LEMMA ExecuteFresh ==
    ASSUME IInv, NEW r \in CommandIds, Fresh(r), Execute(r)
    PROVE  Fresh(r)' /\ UNCHANGED <<streams, history>>
<1>1. PICK v \in Nat : v = aggregate[r].version
  BY NumbersOfRequest DEF IInv
<1>2. /\ Version(AccountOf[r]) \in Nat /\ since[r] \in Nat /\ attempt[r] \in Nat \ {0} /\ readTo[r] \in Nat
  BY NumbersOfRequest DEF IInv
<1>3. /\ pc[r] = "replay" /\ v >= readTo[r] /\ since'[r] = since[r] /\ cmd'[r] = cmd[r]
      /\ attempt'[r] = attempt[r] /\ aggregate'[r] = aggregate[r] /\ UNCHANGED <<streams, history>>
  BY <1>1 DEF Execute, store, local
<1>4. /\ outcome[r] = "none" /\ since[r] + attempt[r] <= readTo[r] + 1
      /\ OthersWrote(r, readTo[r])
  BY <1>3 DEF Fresh
<1>5. Version(AccountOf[r])' = Version(AccountOf[r])
  BY <1>3 DEF Version
<1>6. CASE DomainError(aggregate[r], cmd[r]) = "none"
  <2>1. pc'[r] = "append" /\ outcome'[r] = "none"
    BY <1>4, <1>6 DEF Execute, IInv, TypeOK
  <2>2. OthersWrote(r, v)
    <3>1. \A n \in v + 1 .. Version(AccountOf[r]) : n \in readTo[r] + 1 .. Version(AccountOf[r])
      BY <1>2, <1>3
    <3>2. QED
      BY <1>4, <3>1 DEF OthersWrote
  <2>3. OthersWrote(r, aggregate[r].version)'
    BY <1>1, <1>3, <2>2 DEF OthersWrote, Version
  <2>4. since'[r] + attempt'[r] <= aggregate'[r].version + 1
    BY <1>1, <1>2, <1>3, <1>4
  <2>5. QED
    BY <1>3, <2>1, <2>3, <2>4 DEF Fresh
<1>7. CASE DomainError(aggregate[r], cmd[r]) # "none"
  <2>1. pc'[r] = "release" /\ outcome'[r] = "rejected"
    BY <1>7 DEF Execute, Finish, IInv, TypeOK
  <2>2. v \in 0 .. Version(AccountOf[r]) /\ aggregate[r] = history[AccountOf[r]][v + 1]
    BY <1>1 DEF IInv, AggregateOK, InHistory, Version
  <2>3. v \in since[r] .. Version(AccountOf[r])
    BY <1>2, <1>3, <1>4, <2>2
  <2>4. Justified(r)
    BY <1>7, <2>2, <2>3 DEF Justified
  <2>5. Justified(r)'
    BY <1>3, <2>4 DEF Justified, Version
  <2>6. QED
    BY <1>3, <2>1, <2>5 DEF Fresh
<1>8. QED
  BY <1>3, <1>6, <1>7

\* A failed attempt: the stream has grown past the loaded version.
LEMMA AppendConflictsFresh ==
    ASSUME IInv, NEW r \in CommandIds, Fresh(r), AppendConflicts(r)
    PROVE  Fresh(r)' /\ UNCHANGED <<streams, history>>
<1>1. PICK v \in Nat : v = aggregate[r].version
  BY NumbersOfRequest DEF IInv
<1>2. /\ Version(AccountOf[r]) \in Nat /\ since[r] \in Nat
      /\ attempt[r] \in Nat \ {0} /\ MaxWriteAttempts \in Nat
  BY NumbersOfRequest DEF IInv
<1>3. /\ pc[r] = "append" /\ Version(AccountOf[r]) # v /\ since'[r] = since[r]
      /\ UNCHANGED <<streams, history>>
  BY <1>1 DEF AppendConflicts, VersionMatches, store
<1>4. outcome[r] = "none" /\ since[r] + attempt[r] <= v + 1
  BY <1>1, <1>3 DEF Fresh
<1>5. v <= Version(AccountOf[r])
  BY <1>1 DEF IInv, AggregateOK, InHistory, Version
<1>6. since[r] + attempt[r] <= Version(AccountOf[r])
  BY <1>2, <1>3, <1>4, <1>5
<1>7. Version(AccountOf[r])' = Version(AccountOf[r])
  BY <1>3 DEF Version
<1>8. CASE MayRetry(r)
  <2>1. pc'[r] = "snapshot" /\ outcome'[r] = "none" /\ attempt'[r] = attempt[r] + 1
    BY <1>4, <1>8 DEF AppendConflicts, IInv, TypeOK
  <2>2. since'[r] + attempt'[r] <= Version(AccountOf[r])' + 1
    BY <1>2, <1>3, <1>6, <1>7, <2>1
  <2>3. QED
    BY <2>1, <2>2, <1>3 DEF Fresh
<1>9. CASE ~MayRetry(r)
  <2>1. pc'[r] = "release" /\ outcome'[r] = "conflict"
    BY <1>9 DEF AppendConflicts, Finish, IInv, TypeOK
  <2>2. MaxWriteAttempts <= attempt[r]
    BY <1>2, <1>9 DEF MayRetry
  <2>3. since'[r] + MaxWriteAttempts <= Version(AccountOf[r])'
    BY <1>2, <1>3, <1>6, <1>7, <2>2
  <2>4. QED
    BY <1>3, <2>1, <2>3 DEF Fresh
<1>10. QED
  BY <1>8, <1>9

\* A request that ends well or with a database error owes no explanation.
LEMMA EndFresh ==
    ASSUME TypeOK, NEW r \in CommandIds, Fresh(r),
           AppendCommits(r) \/ SaveSnapshot(r) \/ QueryFails(r) \/ CommitReplyLost(r)
    PROVE  Fresh(r)'
<1>1. pc[r] \in {"snapshot", "read", "append", "saveSnapshot"}
  BY DEF AppendCommits, SaveSnapshot, QueryFails, CommitReplyLost
<1>2. outcome[r] = "none"
  BY <1>1 DEF Fresh
<1>3. CASE pc'[r] = "release" /\ outcome'[r] \in {"ok", "error"}
  BY <1>3 DEF Fresh
<1>4. CASE pc'[r] = "saveSnapshot" /\ outcome'[r] = "none"
  BY <1>4 DEF Fresh
<1>5. AppendCommits(r) => \/ pc'[r] = "saveSnapshot" /\ outcome'[r] = "none"
                          \/ pc'[r] = "release" /\ outcome'[r] = "ok"
  BY <1>2 DEF AppendCommits, Finish, TypeOK
<1>6. SaveSnapshot(r) => pc'[r] = "release" /\ outcome'[r] = "ok"
  BY DEF SaveSnapshot, Finish, TypeOK
<1>7. QueryFails(r) \/ CommitReplyLost(r) => pc'[r] = "release" /\ outcome'[r] = "error"
  BY DEF QueryFails, CommitReplyLost, Finish, TypeOK
<1>8. QED
  BY <1>3, <1>4, <1>5, <1>6, <1>7

LEMMA InitFresh == Init => FreshOK
<1> SUFFICES ASSUME Init, NEW r \in CommandIds PROVE Fresh(r)
  BY DEF FreshOK
<1>1. pc[r] = "new" /\ attempt[r] = 1 /\ outcome[r] = "none"
  BY DEF Init
<1>2. QED
  BY <1>1 DEF Fresh

LEMMA NextFresh == IInv /\ MutexOK /\ FreshOK /\ [Next]_vars => FreshOK'
<1> SUFFICES ASSUME IInv, MutexOK, FreshOK, [Next]_vars, NEW q \in CommandIds PROVE Fresh(q)'
  BY DEF FreshOK
<1>1. TypeOK /\ Fresh(q)
  BY DEF IInv, FreshOK
<1>2. CASE UNCHANGED vars
  BY <1>1, <1>2, QuietFresh DEF vars, Idle
<1>3. ASSUME NEW i \in Instances, Crash(i) PROVE Fresh(q)'
  <2>1. UNCHANGED <<streams, history, cmd, attempt, aggregate, readTo, since, outcome>>
    BY <1>3 DEF Crash, store, local
  <2>2. pc'[q] = pc[q] \/ pc'[q] = "crashed"
    BY <1>3 DEF Crash
  <2>3. QED
    BY <1>1, <2>1, <2>2, QuietFresh DEF Idle
<1>4. ASSUME NEW r \in CommandIds, AppendCommits(r) \/ CommitReplyLost(r) PROVE Fresh(q)'
  <2>1. pc[r] = "append" /\ VersionMatches(r) /\ Commit(r)
    BY <1>4 DEF AppendCommits, CommitReplyLost
  <2>2. CASE q = r
    BY <1>1, <1>4, <2>2, EndFresh
  <2>3. CASE q # r
    <3>1. Idle(q) /\ pc'[q] = pc[q]
      BY <1>1, <1>4, <2>3, OthersIdle DEF Step
    <3>2. QED
      BY <1>1, <2>1, <2>3, <3>1, OtherCommitsFresh
  <2>4. QED
    BY <2>2, <2>3
<1>5. ASSUME NEW r \in CommandIds, Submit(r) \/ Step(r) \/ QueryFails(r), ~AppendCommits(r)
      PROVE  Fresh(q)'
  <2>1. UNCHANGED <<streams, history>>
    BY <1>5 DEF Step, Submit, Acquire, ReadSnapshot, ReadStream, Replay, Execute, AppendConflicts,
                SaveSnapshot, QueryFails, Release, store
  <2>2. CASE q = r
    <3>1. CASE Release(r)
      <4>1. Idle(r) /\ pc'[r] = "done"
        BY <1>1, <3>1 DEF Release, Idle, TypeOK, local
      <4>2. QED
        BY <1>1, <2>1, <2>2, <4>1, QuietFresh
    <3>2. CASE ~Release(r)
      BY <1>1, <1>5, <2>2, <3>2, StartFresh, LoadFresh, ExecuteFresh, AppendConflictsFresh, EndFresh DEF Step
    <3>3. QED
      BY <3>1, <3>2
  <2>3. CASE q # r
    <3>1. Idle(q) /\ pc'[q] = pc[q]
      BY <1>1, <1>5, <2>3, OthersIdle
    <3>2. QED
      BY <1>1, <2>1, <3>1, QuietFresh
  <2>4. QED
    BY <2>2, <2>3
<1>6. QED
  BY <1>2, <1>3, <1>4, <1>5 DEF Next, Step

\* withAccountLock is a lock, and what its holder has loaded is missing only what other
\* processes have written since.
THEOREM LoadsAreFresh == Spec => [](MutexOK /\ FreshOK)
<1>1. Init => MutexOK /\ FreshOK
  BY InitMutex, InitFresh
<1>2. IInv /\ MutexOK /\ FreshOK /\ [Next]_vars => MutexOK' /\ FreshOK'
  <2>1. IInv => TypeOK
    BY DEF IInv
  <2>2. QED
    BY <2>1, NextMutex, NextFresh
<1>3. QED
  BY <1>1, <1>2, Invariant, PTL DEF Spec

\* The comment on withAccountLock is right in every instance: the events that can
\* make an append of a request fail were written by other processes.
THEOREM NoConflictWithin == Spec => []NoSelfConflict
<1>1. FreshOK => NoSelfConflict
  BY DEF FreshOK, Fresh, OthersWrote, NoSelfConflict
<1>2. QED
  BY <1>1, LoadsAreFresh, PTL

\* A 409 for lost races is honest: MAX_WRITE_ATTEMPTS other events were written
\* on the account while the request held its lock.
THEOREM ConflictIsContention == Spec => []ConflictNeedsProgress
<1>1. TypeOK /\ FreshOK => ConflictNeedsProgress
  <2>1. SUFFICES ASSUME TypeOK, FreshOK, NEW r \in CommandIds, outcome[r] = "conflict"
                 PROVE  Version(AccountOf[r]) >= since[r] + MaxWriteAttempts
    BY DEF ConflictNeedsProgress
  <2>2. since[r] + MaxWriteAttempts <= Version(AccountOf[r])
    BY <2>1 DEF FreshOK, Fresh
  <2>3. QED
    BY <2>1, <2>2, NumbersOfRequest
<1>2. QED
  BY <1>1, LoadsAreFresh, TypeCorrect, PTL

\* A refusal is never due to stale data: the account was in a state that refuses
\* the command at some time since the request got its lock.
THEOREM RefusalIsTrue == Spec => []RejectionJustified
<1>1. FreshOK => RejectionJustified
  BY DEF FreshOK, Fresh, Justified, RejectionJustified
<1>2. QED
  BY <1>1, LoadsAreFresh, PTL

-----------------------------------------------------------------------------
(* The write path implements AccountLedger                                 *)
(*                                                                         *)
(* A command takes effect when its event is committed.  What its caller is *)
(* told when the lock is released is true of the stream.                   *)

\* The event of command r is in the stream of its account.
Written(r) ==
    \E n \in DOMAIN streams[AccountOf[r]] : streams[AccountOf[r]][n].commandId = r

Told(r) ==
    /\ Written(r) => pc[r] \in {"saveSnapshot", "release", "done", "crashed"}
    /\ pc[r] = "saveSnapshot" => Written(r)
    /\ pc[r] \in {"release", "done"} =>
          /\ outcome[r] # "none"
          /\ outcome[r] = "ok" => Written(r)
          /\ outcome[r] \in {"rejected", "conflict"} => ~Written(r)

ToldOK == \A r \in CommandIds : Told(r)

\* A commit writes the event of its command, and of no other.
LEMMA CommitWrites ==
    ASSUME IInv, NEW r \in CommandIds, pc[r] = "append", VersionMatches(r), Commit(r)
    PROVE  Written(r)' /\ \A q \in CommandIds : q # r => (Written(q)' <=> Written(q))
<1>1. \A a \in Accounts :
         /\ Len(streams[a]) \in Nat
         /\ Len(streams'[a]) = IF a = AccountOf[r] THEN Len(streams[a]) + 1 ELSE Len(streams[a])
         /\ \A n \in 1 .. Len(streams[a]) : streams'[a][n] = streams[a][n]
  BY CommitEffect
<1>2. \A a \in Accounts : DOMAIN streams[a] = 1 .. Len(streams[a]) /\ DOMAIN streams'[a] = 1 .. Len(streams'[a])
  <2>1. \A a \in Accounts : streams[a] \in Seq(Event(CommandIds))
    BY DEF IInv, TypeOK
  <2>2. PICK b, new : b = AccountOf[r] /\ new = NewState(r)
    OBVIOUS
  <2>3. streams' \in [Accounts -> Seq(Event(CommandIds))]
    BY <2>2, CommitIInv
  <2>4. \A a \in Accounts : streams'[a] \in Seq(Event(CommandIds))
    BY <2>3
  <2>5. QED
    BY <2>1, <2>4
<1>3. Written(r)'
  <2>1. PICK b \in Accounts : b = AccountOf[r]
    BY RepositoryAssumption
  <2>2. /\ Len(streams[b]) + 1 \in 1 .. Len(streams'[b])
        /\ streams'[b][Len(streams[b]) + 1].commandId = r
    BY <1>1, <2>1, CommitEffect
  <2>3. QED
    BY <1>2, <2>1, <2>2 DEF Written
<1>4. ASSUME NEW q \in CommandIds, q # r PROVE Written(q)' <=> Written(q)
  <2>1. PICK a \in Accounts : a = AccountOf[q]
    BY RepositoryAssumption
  <2>2. ASSUME Written(q) PROVE Written(q)'
    <3>1. PICK n \in 1 .. Len(streams[a]) : streams[a][n].commandId = q
      BY <1>2, <2>1, <2>2 DEF Written
    <3>2. n \in 1 .. Len(streams'[a]) /\ streams'[a][n].commandId = q
      BY <1>1, <3>1
    <3>3. QED
      BY <1>2, <2>1, <3>2 DEF Written
  <2>3. ASSUME Written(q)' PROVE Written(q)
    <3>1. PICK n \in 1 .. Len(streams'[a]) : streams'[a][n].commandId = q
      BY <1>2, <2>1, <2>3 DEF Written
    <3>2. n \in 1 .. Len(streams[a])
      <4>1. SUFFICES ASSUME n \notin 1 .. Len(streams[a]) PROVE FALSE
        OBVIOUS
      <4>2. a = AccountOf[r] /\ n = Len(streams[a]) + 1
        BY <1>1, <3>1, <4>1
      <4>3. streams'[a][n].commandId = r
        BY <4>2, CommitEffect
      <4>4. QED
        BY <1>4, <3>1, <4>3
    <3>3. QED
      BY <1>1, <1>2, <2>1, <3>1, <3>2 DEF Written
  <2>4. QED
    BY <2>2, <2>3
<1>5. QED
  BY <1>3, <1>4

\* A request that goes on while no event is committed: before its command is
\* executed, when it fails or is refused, after its commit, or not at all.
LEMMA QuietTold ==
    ASSUME NEW q \in CommandIds, Told(q), UNCHANGED streams,
           \/ pc'[q] = pc[q] /\ outcome'[q] = outcome[q]
           \/ pc'[q] = "crashed"
           \/ pc'[q] = "done" /\ pc[q] = "release" /\ outcome'[q] = outcome[q]
           \/ pc'[q] \in {"queued", "snapshot", "read", "replay", "append"}
                 /\ pc[q] \in {"new", "queued", "snapshot", "read", "replay", "append"}
           \/ pc'[q] = "release" /\ outcome'[q] \in {"rejected", "conflict", "error"}
                 /\ pc[q] \in {"snapshot", "read", "replay", "append"}
           \/ pc'[q] = "release" /\ outcome'[q] \in {"ok", "error"} /\ pc[q] = "saveSnapshot"
    PROVE  Told(q)'
BY DEF Told, Written

LEMMA InitTold == Init => ToldOK
<1> SUFFICES ASSUME Init, NEW r \in CommandIds PROVE Told(r)
  BY DEF ToldOK
<1>1. pc[r] = "new" /\ streams[AccountOf[r]] = <<>>
  BY RepositoryAssumption DEF Init
<1>2. ~Written(r)
  BY <1>1 DEF Written
<1>3. QED
  BY <1>1, <1>2 DEF Told

\* What the steps of a request that commit nothing do to that request.
LEMMA QuietMoves ==
    ASSUME TypeOK, NEW r \in CommandIds,
           Submit(r) \/ Step(r) \/ QueryFails(r), ~AppendCommits(r), ~Release(r)
    PROVE  /\ UNCHANGED <<streams, history, cmd>>
           /\ \/ pc'[r] \in {"queued", "snapshot", "read", "replay", "append"}
                    /\ pc[r] \in {"new", "queued", "snapshot", "read", "replay", "append"}
              \/ pc'[r] = "release" /\ outcome'[r] \in {"rejected", "conflict", "error"}
                    /\ pc[r] \in {"snapshot", "read", "replay", "append"}
              \/ pc'[r] = "release" /\ outcome'[r] \in {"ok", "error"} /\ pc[r] = "saveSnapshot"
           /\ \A q \in CommandIds : pc'[q] = "done" <=> pc[q] = "done"
           /\ \A q \in CommandIds : pc[q] = "done" => outcome'[q] = outcome[q]
<1>1. CASE Submit(r)
  BY <1>1 DEF Submit, TypeOK, store, local
<1>2. CASE Acquire(r)
  BY <1>2 DEF Acquire, TypeOK, store
<1>3. CASE ReadSnapshot(r)
  BY <1>3 DEF ReadSnapshot, TypeOK, store
<1>4. CASE ReadStream(r)
  BY <1>4 DEF ReadStream, TypeOK, store
<1>5. CASE Replay(r)
  BY <1>5 DEF Replay, TypeOK, store
<1>6. CASE Execute(r)
  BY <1>6 DEF Execute, Finish, TypeOK, store, local
<1>7. CASE AppendConflicts(r)
  BY <1>7 DEF AppendConflicts, Finish, TypeOK, store
<1>8. CASE SaveSnapshot(r)
  BY <1>8 DEF SaveSnapshot, Finish, TypeOK, local
<1>9. CASE QueryFails(r)
  BY <1>9 DEF QueryFails, Finish, TypeOK, store, local
<1>10. QED
  BY <1>1, <1>2, <1>3, <1>4, <1>5, <1>6, <1>7, <1>8, <1>9 DEF Step

LEMMA NextTold == IInv /\ ToldOK /\ [Next]_vars => ToldOK'
<1> SUFFICES ASSUME IInv, ToldOK, [Next]_vars, NEW q \in CommandIds PROVE Told(q)'
  BY DEF ToldOK
<1>1. TypeOK /\ Told(q)
  BY DEF IInv, ToldOK
<1>2. CASE UNCHANGED vars
  BY <1>1, <1>2, QuietTold DEF vars
<1>3. ASSUME NEW i \in Instances, Crash(i) PROVE Told(q)'
  <2>1. UNCHANGED <<streams, outcome>>
    BY <1>3 DEF Crash, store
  <2>2. pc'[q] = pc[q] \/ pc'[q] = "crashed"
    BY <1>3 DEF Crash
  <2>3. QED
    BY <1>1, <2>1, <2>2, QuietTold
<1>4. ASSUME NEW r \in CommandIds, AppendCommits(r) \/ CommitReplyLost(r) PROVE Told(q)'
  <2>1. pc[r] = "append" /\ VersionMatches(r) /\ Commit(r)
    BY <1>4 DEF AppendCommits, CommitReplyLost
  <2>2. Written(r)' /\ (q # r => (Written(q)' <=> Written(q)))
    BY <2>1, CommitWrites
  <2>3. CASE q = r
    <3>1. \/ pc'[r] = "saveSnapshot"
          \/ pc'[r] = "release" /\ outcome'[r] \in {"ok", "error"}
      BY <1>1, <1>4 DEF AppendCommits, CommitReplyLost, Finish, TypeOK
    <3>2. QED
      BY <2>2, <2>3, <3>1 DEF Told
  <2>4. CASE q # r
    <3>1. Idle(q) /\ pc'[q] = pc[q]
      BY <1>1, <1>4, <2>4, OthersIdle DEF Step
    <3>2. QED
      BY <1>1, <2>2, <2>4, <3>1 DEF Told, Idle
  <2>5. QED
    BY <2>3, <2>4
<1>5. ASSUME NEW r \in CommandIds, Release(r) PROVE Told(q)'
  <2>1. UNCHANGED <<streams, outcome>> /\ pc[r] = "release" /\ pc' = [pc EXCEPT ![r] = "done"]
    BY <1>5 DEF Release, store
  <2>2. pc'[q] = pc[q] \/ (pc'[q] = "done" /\ pc[q] = "release")
    BY <1>1, <2>1 DEF TypeOK
  <2>3. QED
    BY <1>1, <2>1, <2>2, QuietTold
<1>6. ASSUME NEW r \in CommandIds, Submit(r) \/ Step(r) \/ QueryFails(r), ~AppendCommits(r), ~Release(r)
      PROVE  Told(q)'
  <2>1. CASE q = r
    BY <1>1, <1>6, <2>1, QuietMoves, QuietTold
  <2>2. CASE q # r
    <3>1. pc'[q] = pc[q] /\ outcome'[q] = outcome[q]
      BY <1>1, <1>6, <2>2, OthersIdle DEF Idle
    <3>2. UNCHANGED streams
      BY <1>1, <1>6, QuietMoves
    <3>3. QED
      BY <1>1, <3>1, <3>2, QuietTold
  <2>3. QED
    BY <2>1, <2>2
<1>7. QED
  BY <1>2, <1>3, <1>4, <1>5, <1>6 DEF Next, Step

\* Every answer a caller gets is true of the stream of its account.
THEOREM AnswersAreTrue == Spec => []ToldOK
BY InitTold, NextTold, Invariant, PTL DEF Spec

\* The refinement mapping, by name.
LedgerBar  == [a \in Accounts |-> history[a][Len(history[a])]]
AppliedBar == {r \in CommandIds : Written(r)}
AnswerBar  == [r \in CommandIds |-> IF pc[r] = "done" THEN outcome[r] ELSE "none"]

\* The abstract specification talks about the same aggregate.
LEMMA SameAggregate ==
    /\ Ledger!NewAccount = NewAccount
    /\ \A acct, c : Ledger!DomainError(acct, c) = DomainError(acct, c)
    /\ \A acct, c, id : Ledger!MakeEvent(acct, c, id) = MakeEvent(acct, c, id)
    /\ \A acct, e : Ledger!When(acct, e) = When(acct, e)
<1>1. \A d : Ledger!ParseMoneyToMinorUnits(d) = ParseMoneyToMinorUnits(d)
  BY DEF Ledger!ParseMoneyToMinorUnits, ParseMoneyToMinorUnits, Ledger!MinorUnitsPerUnit, MinorUnitsPerUnit
<1>2. \A m : Ledger!FormatMinorUnitsToMoney(m) = FormatMinorUnitsToMoney(m)
  BY DEF Ledger!FormatMinorUnitsToMoney, FormatMinorUnitsToMoney, Ledger!MinorUnitsPerUnit, MinorUnitsPerUnit
<1>3. Ledger!NewAccount = NewAccount
  BY DEF Ledger!NewAccount, NewAccount
<1>4. \A acct, c : Ledger!DomainError(acct, c) = DomainError(acct, c)
  BY <1>1 DEF Ledger!DomainError, DomainError
<1>5. \A c : Ledger!EventTypeOf(c) = EventTypeOf(c)
  BY DEF Ledger!EventTypeOf, EventTypeOf
<1>6. \A acct, c, id : Ledger!MakeEvent(acct, c, id) = MakeEvent(acct, c, id)
  BY <1>1, <1>2, <1>5 DEF Ledger!MakeEvent, MakeEvent
<1>7. \A acct, e : Ledger!When(acct, e) = When(acct, e)
  BY <1>1 DEF Ledger!When, When
<1>8. QED
  BY <1>3, <1>4, <1>6, <1>7

LEMMA InitLedger == Init => Ledger!Init
<1> SUFFICES ASSUME Init PROVE Ledger!Init
  OBVIOUS
<1>1. LedgerBar = [a \in Accounts |-> Ledger!NewAccount]
  BY SameAggregate DEF Init, LedgerBar
<1>2. AppliedBar = {}
  <2>1. ASSUME NEW r \in CommandIds PROVE ~Written(r)
    <3>1. streams[AccountOf[r]] = <<>>
      BY RepositoryAssumption DEF Init
    <3>2. QED
      BY <3>1 DEF Written
  <2>2. QED
    BY <2>1 DEF AppliedBar
<1>3. AnswerBar = [r \in CommandIds |-> "none"]
  BY DEF Init, AnswerBar
<1>4. cmd \in [CommandIds -> UNION {Incoming[r] : r \in CommandIds}] /\ \A r \in CommandIds : cmd[r] \in Incoming[r]
  BY DEF Init
<1>5. QED
  BY <1>1, <1>2, <1>3, <1>4 DEF Ledger!Init, LedgerBar, AppliedBar, AnswerBar, Written

\* A step that commits nothing and answers nobody is a stuttering step.
LEMMA QuietLedger ==
    ASSUME UNCHANGED <<streams, history, cmd>>,
           \A q \in CommandIds : pc'[q] = "done" <=> pc[q] = "done",
           \A q \in CommandIds : pc[q] = "done" => outcome'[q] = outcome[q]
    PROVE  UNCHANGED Ledger!vars
<1>1. UNCHANGED LedgerBar
  BY DEF LedgerBar
<1>2. UNCHANGED AppliedBar
  BY DEF AppliedBar, Written
<1>3. UNCHANGED AnswerBar
  BY DEF AnswerBar
<1>4. QED
  BY <1>1, <1>2, <1>3 DEF Ledger!vars, LedgerBar, AppliedBar, AnswerBar, Written

\* A commit applies the command to the state its account has at that moment.
LEMMA CommitApplies ==
    ASSUME IInv, ToldOK, NEW r \in CommandIds, pc[r] = "append", VersionMatches(r), Commit(r),
           UNCHANGED cmd,
           \A q \in CommandIds : pc'[q] = "done" <=> pc[q] = "done",
           \A q \in CommandIds : pc[q] = "done" => outcome'[q] = outcome[q]
    PROVE  Ledger!Apply(r)
<1>1. PICK b \in Accounts : b = AccountOf[r]
  BY RepositoryAssumption
<1>2. ~Written(r)
  BY DEF ToldOK, Told
<1>3. AppliedBar' = AppliedBar \cup {r} /\ r \notin AppliedBar
  <2>1. Written(r)' /\ \A q \in CommandIds : q # r => (Written(q)' <=> Written(q))
    BY CommitWrites
  <2>2. QED
    BY <1>2, <2>1 DEF AppliedBar
<1>4. UNCHANGED AnswerBar /\ AnswerBar[r] = "none"
  BY DEF AnswerBar
<1>5. history[b] \in Seq(AccountState) /\ Len(history[b]) = Len(streams[b]) + 1 /\ Len(streams[b]) \in Nat
  BY DEF IInv, TypeOK, HistoryOK
<1>6. aggregate[r] = LedgerBar[b]
  <2>1. aggregate[r] = history[b][Len(streams[b]) + 1]
    BY <1>1 DEF IInv, AggregateOK, InHistory, VersionMatches, Version
  <2>2. QED
    BY <1>5, <2>1 DEF LedgerBar
<1>7. DomainError(LedgerBar[b], cmd[r]) = "none"
  BY <1>6 DEF IInv, AppendOK
<1>8. PICK new : new = When(LedgerBar[b], MakeEvent(LedgerBar[b], cmd[r], r))
  OBVIOUS
<1>9. /\ history'[b] = Append(history[b], new)
      /\ \A a \in Accounts : a # b => history'[a] = history[a]
  <2>1. history' = [history EXCEPT ![b] = Append(history[b], When(history[b][Len(history[b])], NewEvent(r)))]
    BY <1>1 DEF Commit
  <2>2. NewEvent(r) = MakeEvent(LedgerBar[b], cmd[r], r)
    BY <1>6 DEF NewEvent
  <2>3. When(history[b][Len(history[b])], NewEvent(r)) = new
    BY <1>8, <2>2 DEF LedgerBar
  <2>4. QED
    BY <2>1, <2>3 DEF IInv, TypeOK
<1>10. LedgerBar'[b] = new
  BY <1>5, <1>9 DEF LedgerBar
<1>11. \A a \in Accounts : a # b => LedgerBar'[a] = LedgerBar[a]
  BY <1>9 DEF LedgerBar
<1>12. LedgerBar' = [LedgerBar EXCEPT ![b] = new]
  <2>1. DOMAIN LedgerBar = Accounts /\ DOMAIN LedgerBar' = Accounts
    BY DEF LedgerBar
  <2>2. LedgerBar = [a \in Accounts |-> LedgerBar[a]] /\ LedgerBar' = [a \in Accounts |-> LedgerBar'[a]]
    BY DEF LedgerBar
  <2>3. QED
    BY <1>10, <1>11, <2>1, <2>2
<1>13. /\ Ledger!DomainError(LedgerBar[b], cmd[r]) = "none"
       /\ new = Ledger!When(LedgerBar[b], Ledger!MakeEvent(LedgerBar[b], cmd[r], r))
  BY <1>7, <1>8, SameAggregate
<1>14. QED
  BY <1>1, <1>3, <1>4, <1>12, <1>13
     DEF Ledger!Apply, LedgerBar, AppliedBar, AnswerBar, Written

\* The finally block tells the caller something that is true.
LEMMA ReleaseAnswers ==
    ASSUME IInv, ToldOK, NEW r \in CommandIds, Release(r)
    PROVE  Ledger!Answer(r)
<1>1. /\ pc[r] = "release" /\ pc' = [pc EXCEPT ![r] = "done"]
      /\ UNCHANGED <<streams, history, cmd, outcome>>
  BY DEF Release, store, local
<1>2. /\ outcome[r] \in Ledger!Answers
      /\ outcome[r] = "ok" => r \in AppliedBar
      /\ outcome[r] \in {"rejected", "conflict"} => r \notin AppliedBar
  <2>1. Told(r) /\ outcome[r] \in Outcomes
    BY DEF ToldOK, IInv, TypeOK
  <2>2. QED
    BY <1>1, <2>1 DEF Told, Outcomes, Ledger!Answers, AppliedBar
<1>3. UNCHANGED <<LedgerBar, AppliedBar>>
  BY <1>1 DEF LedgerBar, AppliedBar, Written
<1>4. AnswerBar[r] = "none"
  BY <1>1 DEF AnswerBar
<1>5. AnswerBar' = [AnswerBar EXCEPT ![r] = outcome[r]]
  <2>1. \A q \in CommandIds : pc'[q] = IF q = r THEN "done" ELSE pc[q]
    BY <1>1 DEF IInv, TypeOK
  <2>2. QED
    BY <1>1, <2>1 DEF AnswerBar
<1>6. QED
  BY <1>1, <1>2, <1>3, <1>4, <1>5 DEF Ledger!Answer, LedgerBar, AppliedBar, AnswerBar, Written

LEMMA NextLedger == IInv /\ ToldOK /\ [Next]_vars => [Ledger!Next]_(Ledger!vars)
<1> SUFFICES ASSUME IInv, ToldOK, [Next]_vars PROVE [Ledger!Next]_(Ledger!vars)
  OBVIOUS
<1>1. TypeOK
  BY DEF IInv
<1>2. CASE UNCHANGED vars
  BY <1>2, QuietLedger DEF vars
<1>3. ASSUME NEW i \in Instances, Crash(i) PROVE UNCHANGED Ledger!vars
  <2>1. UNCHANGED <<streams, history, cmd, outcome>>
    BY <1>3 DEF Crash, store, local
  <2>2. \A q \in CommandIds : pc'[q] = "done" <=> pc[q] = "done"
    BY <1>3 DEF Crash, InFlight, Critical
  <2>3. QED
    BY <2>1, <2>2, QuietLedger
<1>4. ASSUME NEW r \in CommandIds, AppendCommits(r) \/ CommitReplyLost(r) PROVE Ledger!Apply(r)
  <2>1. pc[r] = "append" /\ VersionMatches(r) /\ Commit(r) /\ UNCHANGED cmd
    BY <1>4 DEF AppendCommits, CommitReplyLost, local
  <2>2. pc'[r] # "done"
    BY <1>1, <1>4 DEF AppendCommits, CommitReplyLost, Finish, TypeOK
  <2>3. \A q \in CommandIds : q # r => pc'[q] = pc[q] /\ outcome'[q] = outcome[q]
    BY <1>1, <1>4, OthersIdle DEF Step, Idle
  <2>4. /\ \A q \in CommandIds : pc'[q] = "done" <=> pc[q] = "done"
        /\ \A q \in CommandIds : pc[q] = "done" => outcome'[q] = outcome[q]
    BY <2>1, <2>2, <2>3
  <2>5. QED
    BY <2>1, <2>4, CommitApplies
<1>5. ASSUME NEW r \in CommandIds, Release(r) PROVE Ledger!Answer(r)
  BY <1>5, ReleaseAnswers
<1>6. ASSUME NEW r \in CommandIds, Submit(r) \/ Step(r) \/ QueryFails(r), ~AppendCommits(r), ~Release(r)
      PROVE  UNCHANGED Ledger!vars
  BY <1>1, <1>6, QuietMoves, QuietLedger
<1>7. QED
  BY <1>2, <1>3, <1>4, <1>5, <1>6 DEF Next, Step, Ledger!Next

\* The write path, with its retries, snapshots, faults and crashes, implements the
\* ledger: commands are atomic, take effect at most once, and answers are truthful.
THEOREM WritePathImplementsLedger == Spec => ImplementsLedger
<1>1. Init => Ledger!Init
  BY InitLedger
<1>2. IInv /\ ToldOK /\ [Next]_vars => [Ledger!Next]_(Ledger!vars)
  BY NextLedger
<1>3. QED
  BY <1>1, <1>2, Invariant, AnswersAreTrue, PTL DEF Spec, ImplementsLedger, Ledger!Spec
=============================================================================
