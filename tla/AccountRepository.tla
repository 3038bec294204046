-------------------------- MODULE AccountRepository --------------------------
(***************************************************************************)
(* The account write path: AccountRepository.executeWithRetry, the         *)
(* per-account promise-chain mutex it runs under, the aggregate load       *)
(* (snapshot, then stream tail, then replay) and the optimistic append,    *)
(* against the Postgres event store and snapshot store.  A step of a       *)
(* request is the code between two awaits; requests run concurrently in    *)
(* several application instances that share the database.                  *)
(***************************************************************************)
EXTENDS AccountAggregate, FiniteSets

CONSTANTS
    CommandIds,         \* context.commandId, one per command: the concurrent requests
    Accounts,
    Instances,          \* application processes
    InstanceOf,         \* the process a command is handled in
    AccountOf,          \* the account a command is addressed to
    Incoming,           \* the commands that may be sent under a command id
    NoCommand,          \* an absent map entry, an already resolved promise
    SnapshotInterval,   \* SNAPSHOT_INTERVAL
    MaxWriteAttempts,   \* MAX_WRITE_ATTEMPTS
    FaultKinds,         \* which of Faults may happen
    MaxFaults,          \* bound on failing database calls
    MaxCrashes          \* bound on process crashes

\* A query that fails, a COMMIT whose reply is lost, a snapshot INSERT that fails.
Faults == {"query", "commit", "snapshot"}

ASSUME RepositoryAssumption ==
    /\ InstanceOf \in [CommandIds -> Instances]
    /\ AccountOf \in [CommandIds -> Accounts]
    /\ \A r \in CommandIds : Incoming[r] \subseteq Command
    /\ NoCommand \notin CommandIds
    /\ SnapshotInterval \in Nat \ {0}
    /\ MaxWriteAttempts \in Nat \ {0}
    /\ FaultKinds \subseteq Faults
    /\ MaxFaults \in Nat
    /\ MaxCrashes \in Nat

VARIABLES
    streams,        \* the events table, one stream per account
    snapshots,      \* the snapshots table: the saved states of each account
    accountLocks,   \* per process, the last lock promise registered per account
    prev,           \* the promise each command awaits before it runs
    released,       \* the lock promises that are resolved
    pc,             \* where each command is
    cmd,            \* what each command asks for
    attempt,        \* the loop variable of executeWithRetry
    aggregate,      \* the account each command has loaded
    readTo,         \* version of the last row readStream returned
    outcome,        \* how each command ended
    faults,         \* failed database calls so far
    crashes,        \* process crashes so far
    history,        \* auxiliary: the state after each prefix of a stream
    since           \* auxiliary: stream length when the command got its lock

store   == <<streams, snapshots, history>>
locks   == <<accountLocks, prev, released>>
budget  == <<faults, crashes>>
local   == <<cmd, attempt, aggregate, readTo, since>>
vars    == <<streams, snapshots, accountLocks, prev, released, pc, cmd, attempt,
             aggregate, readTo, outcome, faults, crashes, history, since>>

\* After new: waiting for the lock; about to query the snapshot, then the
\* stream; replaying; about to append; about to insert a snapshot; about to
\* run the finally block.
PCs == {"new", "queued", "snapshot", "read", "replay", "append",
        "saveSnapshot", "release", "done", "crashed"}

Outcomes == {"none", "ok", "rejected", "conflict", "error"}

\* The commands inside withAccountLock's fn, lock in hand.
Critical == {"snapshot", "read", "replay", "append", "saveSnapshot", "release"}

InFlight(r) == pc[r] \in Critical \cup {"queued"}

-----------------------------------------------------------------------------
(* Helpers *)

Version(a) == Len(streams[a])

\* The event a command that passed its checks is about to append, and the
\* aggregate after it.
NewEvent(r) == MakeEvent(aggregate[r], cmd[r], r)
NewState(r) == When(aggregate[r], NewEvent(r))

\* floor(version / interval) grew: save() stores a snapshot.
CrossesBoundary(expectedVersion, version) ==
    version \div SnapshotInterval > expectedVersion \div SnapshotInterval

\* Mutant: append forgets to compare versions.
VersionUnchecked(r) == TRUE

\* save() passes the version it loaded at as expectedVersion.
VersionMatches(r) == Version(AccountOf[r]) = aggregate[r].version

\* Mutants: the loop bound is off by one, either way.
RetriesOnceTooOften(r) == attempt[r] <= MaxWriteAttempts
GivesUpEarly(r) == attempt[r] + 1 < MaxWriteAttempts

\* attempt < MAX_WRITE_ATTEMPTS.
MayRetry(r) == attempt[r] < MaxWriteAttempts

\* Mutant: withAccountLock forgets `await prev`.
LockIgnored(r) == TRUE

\* The promise this request chained onto is resolved, or there was none.
LockFree(r) == prev[r] \in released \cup {NoCommand}

\* Mutant: the snapshot is stored under expectedVersion.
SnapshotAtExpectedVersion(r) == [aggregate[r] EXCEPT !.version = @ - 1]

\* What save() stores as a snapshot.
SnapshotOf(r) == aggregate[r]

Finish(r, result) ==
    /\ pc' = [pc EXCEPT ![r] = "release"]
    /\ outcome' = [outcome EXCEPT ![r] = result]

Commit(r) ==
    LET a == AccountOf[r] IN
    /\ streams' = [streams EXCEPT ![a] = Append(@, NewEvent(r))]
    /\ history' = [history EXCEPT ![a] = Append(@, When(@[Len(@)], NewEvent(r)))]

-----------------------------------------------------------------------------

Init ==
    /\ streams = [a \in Accounts |-> <<>>]
    /\ snapshots = [a \in Accounts |-> {}]
    /\ accountLocks = [i \in Instances |-> [a \in Accounts |-> NoCommand]]
    /\ prev = [r \in CommandIds |-> NoCommand]
    /\ released = {}
    /\ pc = [r \in CommandIds |-> "new"]
    /\ cmd \in [CommandIds -> UNION {Incoming[r] : r \in CommandIds}]
    /\ \A r \in CommandIds : cmd[r] \in Incoming[r]
    /\ attempt = [r \in CommandIds |-> 1]
    /\ aggregate = [r \in CommandIds |-> NewAccount]
    /\ readTo = [r \in CommandIds |-> 0]
    /\ outcome = [r \in CommandIds |-> "none"]
    /\ faults = 0
    /\ crashes = 0
    /\ history = [a \in Accounts |-> <<NewAccount>>]
    /\ since = [r \in CommandIds |-> 0]

\* A handler calls executeWithRetry; withAccountLock chains onto the promise in
\* the map, if any, and replaces it by its own.
Submit(r) ==
    LET i == InstanceOf[r]
        a == AccountOf[r]
    IN  /\ pc[r] = "new"
        /\ prev' = [prev EXCEPT ![r] = accountLocks[i][a]]
        /\ accountLocks' = [accountLocks EXCEPT ![i][a] = r]
        /\ pc' = [pc EXCEPT ![r] = "queued"]
        /\ UNCHANGED <<store, released, local, outcome, budget>>

\* `await prev` returns and the first attempt starts.
Acquire(r) ==
    /\ pc[r] = "queued"
    /\ LockFree(r)
    /\ pc' = [pc EXCEPT ![r] = "snapshot"]
    /\ since' = [since EXCEPT ![r] = Version(AccountOf[r])]
    /\ UNCHANGED <<store, locks, cmd, attempt, aggregate, readTo, outcome, budget>>

\* getById: the newest snapshot row, or a new aggregate.
ReadSnapshot(r) ==
    LET saved == snapshots[AccountOf[r]] IN
    /\ pc[r] = "snapshot"
    /\ \/ /\ saved = {}
          /\ aggregate' = [aggregate EXCEPT ![r] = NewAccount]
       \/ \E s \in saved :
             /\ \A other \in saved : other.version <= s.version
             /\ aggregate' = [aggregate EXCEPT ![r] = s]
    /\ pc' = [pc EXCEPT ![r] = "read"]
    /\ UNCHANGED <<store, locks, cmd, attempt, readTo, since, outcome, budget>>

\* Mutant: a snapshot read is taken for the whole load.
ReadNoTail(r) ==
    /\ pc[r] = "read"
    /\ readTo' = [readTo EXCEPT ![r] = aggregate[r].version]
    /\ pc' = [pc EXCEPT ![r] = "replay"]
    /\ UNCHANGED <<store, locks, cmd, attempt, aggregate, since, outcome, budget>>

\* getById: readStream returns the rows after the snapshot's version.  Rows
\* never change, so the result is known by the version of its last row.
ReadStream(r) ==
    /\ pc[r] = "read"
    /\ readTo' = [readTo EXCEPT ![r] = Version(AccountOf[r])]
    /\ pc' = [pc EXCEPT ![r] = "replay"]
    /\ UNCHANGED <<store, locks, cmd, attempt, aggregate, since, outcome, budget>>

\* loadFromHistory, one event.
Replay(r) ==
    /\ pc[r] = "replay"
    /\ aggregate[r].version < readTo[r]
    /\ aggregate' = [aggregate EXCEPT
                       ![r] = When(@, streams[AccountOf[r]][@.version + 1])]
    /\ UNCHANGED <<store, locks, pc, cmd, attempt, readTo, since, outcome, budget>>

\* operation(account): the guards of the aggregate; a domain error leaves the
\* retry loop at once.
Execute(r) ==
    /\ pc[r] = "replay"
    /\ aggregate[r].version >= readTo[r]
    /\ IF DomainError(aggregate[r], cmd[r]) = "none"
         THEN /\ pc' = [pc EXCEPT ![r] = "append"]
              /\ UNCHANGED outcome
         ELSE Finish(r, "rejected")
    /\ UNCHANGED <<store, locks, local, budget>>

\* append finds the expected version and commits event and outbox row;
\* save goes on to the snapshot if a boundary was crossed.
AppendCommits(r) ==
    /\ pc[r] = "append"
    /\ VersionMatches(r)
    /\ Commit(r)
    /\ aggregate' = [aggregate EXCEPT ![r] = NewState(r)]
    /\ IF CrossesBoundary(aggregate[r].version, NewState(r).version)
         THEN /\ pc' = [pc EXCEPT ![r] = "saveSnapshot"]
              /\ UNCHANGED outcome
         ELSE Finish(r, "ok")
    /\ UNCHANGED <<snapshots, locks, cmd, attempt, readTo, since, budget>>

\* append throws WrongExpectedVersionError: another attempt, or the last one failed.
AppendConflicts(r) ==
    /\ pc[r] = "append"
    /\ ~VersionMatches(r)
    /\ IF MayRetry(r)
         THEN /\ attempt' = [attempt EXCEPT ![r] = @ + 1]
              /\ pc' = [pc EXCEPT ![r] = "snapshot"]
              /\ UNCHANGED outcome
         ELSE /\ Finish(r, "conflict")
              /\ UNCHANGED attempt
    /\ UNCHANGED <<store, locks, cmd, aggregate, readTo, since, budget>>

\* INSERT INTO snapshots ... ON CONFLICT DO NOTHING.
SaveSnapshot(r) ==
    LET a == AccountOf[r] IN
    /\ pc[r] = "saveSnapshot"
    /\ IF \E s \in snapshots[a] : s.version = SnapshotOf(r).version
         THEN UNCHANGED snapshots
         ELSE snapshots' = [snapshots EXCEPT ![a] = @ \cup {SnapshotOf(r)}]
    /\ Finish(r, "ok")
    /\ UNCHANGED <<streams, history, locks, local, budget>>

\* A database call fails with no effect; the error leaves the retry loop.
QueryFails(r) ==
    /\ faults < MaxFaults
    /\ \/ pc[r] \in {"snapshot", "read", "append"} /\ "query" \in FaultKinds
       \/ pc[r] = "saveSnapshot" /\ "snapshot" \in FaultKinds
    /\ faults' = faults + 1
    /\ Finish(r, "error")
    /\ UNCHANGED <<store, locks, local, crashes>>

\* Mutant: a lost reply is retried like a version conflict.
CommitReplyLostRetried(r) ==
    /\ faults < MaxFaults /\ "commit" \in FaultKinds
    /\ pc[r] = "append"
    /\ VersionMatches(r)
    /\ faults' = faults + 1
    /\ Commit(r)
    /\ pc' = [pc EXCEPT ![r] = "snapshot"]
    /\ UNCHANGED <<snapshots, locks, local, outcome, crashes>>

\* COMMIT took effect but its reply was lost: append throws all the same.
CommitReplyLost(r) ==
    /\ faults < MaxFaults /\ "commit" \in FaultKinds
    /\ pc[r] = "append"
    /\ VersionMatches(r)
    /\ faults' = faults + 1
    /\ Commit(r)
    /\ Finish(r, "error")
    /\ UNCHANGED <<snapshots, locks, local, crashes>>

\* Mutants: the map entry is never deleted; the lock is only released after success.
ReleaseKeepsEntry(r) ==
    /\ pc[r] = "release"
    /\ released' = released \cup {r}
    /\ pc' = [pc EXCEPT ![r] = "done"]
    /\ UNCHANGED <<store, accountLocks, prev, local, outcome, budget>>
ReleaseOnSuccess(r) ==
    /\ pc[r] = "release"
    /\ released' = IF outcome[r] = "ok" THEN released \cup {r} ELSE released
    /\ pc' = [pc EXCEPT ![r] = "done"]
    /\ UNCHANGED <<store, accountLocks, prev, local, outcome, budget>>

\* The finally block of withAccountLock; then the caller is answered.
Release(r) ==
    LET i == InstanceOf[r]
        a == AccountOf[r]
    IN  /\ pc[r] = "release"
        /\ released' = released \cup {r}
        /\ accountLocks' = IF accountLocks[i][a] = r
                             THEN [accountLocks EXCEPT ![i][a] = NoCommand]
                             ELSE accountLocks
        /\ pc' = [pc EXCEPT ![r] = "done"]
        /\ UNCHANGED <<store, prev, local, outcome, budget>>

\* A process dies with its requests and its lock map; the database survives.
Crash(i) ==
    /\ crashes < MaxCrashes
    /\ crashes' = crashes + 1
    /\ pc' = [r \in CommandIds |->
                IF InstanceOf[r] = i /\ InFlight(r) THEN "crashed" ELSE pc[r]]
    /\ accountLocks' = [accountLocks EXCEPT ![i] = [a \in Accounts |-> NoCommand]]
    /\ UNCHANGED <<store, prev, released, local, outcome, faults>>

Terminated == \A r \in CommandIds : pc[r] \in {"done", "crashed"}

Step(r) ==
    \/ Acquire(r) \/ ReadSnapshot(r) \/ ReadStream(r) \/ Replay(r) \/ Execute(r)
    \/ AppendCommits(r) \/ AppendConflicts(r) \/ SaveSnapshot(r) \/ Release(r)

Next ==
    \/ \E r \in CommandIds :
          Submit(r) \/ Step(r) \/ QueryFails(r) \/ CommitReplyLost(r)
    \/ \E i \in Instances : Crash(i)
    \/ Terminated /\ UNCHANGED vars

\* The event loop and the database eventually run what they were given.
Fairness == \A r \in CommandIds : WF_vars(Step(r))

Spec == Init /\ [][Next]_vars
FairSpec == Spec /\ Fairness

-----------------------------------------------------------------------------
(* Properties *)

TypeOK ==
    /\ streams \in [Accounts -> Seq(Event(CommandIds))]
    /\ snapshots \in [Accounts -> SUBSET AccountState]
    /\ accountLocks \in [Instances -> [Accounts -> CommandIds \cup {NoCommand}]]
    /\ prev \in [CommandIds -> CommandIds \cup {NoCommand}]
    /\ released \subseteq CommandIds
    /\ pc \in [CommandIds -> PCs]
    /\ cmd \in [CommandIds -> Command]
    /\ attempt \in [CommandIds -> 1 .. MaxWriteAttempts]
    /\ aggregate \in [CommandIds -> AccountState]
    /\ readTo \in [CommandIds -> Nat]
    /\ outcome \in [CommandIds -> Outcomes]
    /\ faults \in 0 .. MaxFaults
    /\ crashes \in 0 .. MaxCrashes
    /\ history \in [Accounts -> Seq(AccountState)]
    /\ since \in [CommandIds -> Nat]

\* No prefix of an account's stream replays to a negative balance, whatever the
\* interleaving of withdrawals in all processes: the funds check made on a
\* loaded copy still holds when its event is committed.
NoOverdraft ==
    \A a \in Accounts : \A n \in DOMAIN history[a] : history[a][n].balance >= 0

\* Loading from a snapshot and a later read of the tail gives exactly the state
\* that replaying the whole stream to that version gives: of every stored
\* snapshot, and of the aggregate a command is about to write from.
LoadIsReplay ==
    /\ \A a \in Accounts : \A s \in snapshots[a] :
          s.version \in 1 .. Version(a) /\ s = history[a][s.version + 1]
    /\ \A r \in CommandIds : pc[r] \in {"append", "saveSnapshot"} =>
          LET v == aggregate[r].version IN
          v \in 0 .. Version(AccountOf[r]) /\ aggregate[r] = history[AccountOf[r]][v + 1]

\* The in-process mutex does what its comment says: the events that can make an
\* append fail its version check were all written by other processes.
NoSelfConflict ==
    \A r \in CommandIds : pc[r] = "append" =>
        \A n \in aggregate[r].version + 1 .. Version(AccountOf[r]) :
            InstanceOf[streams[AccountOf[r]][n].commandId] # InstanceOf[r]

\* A command is answered 409 only if, while it held its lock, at least
\* MaxWriteAttempts other commands were committed on its account.
ConflictNeedsProgress ==
    \A r \in CommandIds : outcome[r] = "conflict" =>
        Version(AccountOf[r]) >= since[r] + MaxWriteAttempts

\* A domain error is never an artefact of stale data: the command was invalid in
\* a state its account really had while the command held its lock.
RejectionJustified ==
    \A r \in CommandIds : outcome[r] = "rejected" =>
        \E v \in since[r] .. Version(AccountOf[r]) :
            DomainError(history[AccountOf[r]][v + 1], cmd[r]) # "none"

\* The lock map has an entry only for accounts with a request in flight, and
\* it is that of a request still in flight.
LocksBounded ==
    \A i \in Instances, a \in Accounts :
        LET r == accountLocks[i][a] IN
        r # NoCommand => InFlight(r) /\ InstanceOf[r] = i /\ AccountOf[r] = a

\* Every request that was started is answered, unless its process crashed: the
\* lock chain never strands a waiter, whatever way its predecessors end.
EveryRequestAnswered ==
    \A r \in CommandIds : (pc[r] = "queued") ~> (pc[r] \in {"done", "crashed"})

\* The write path implements AccountLedger.  A command takes effect when its
\* event is committed; its caller learns the outcome when the lock is released.
Ledger == INSTANCE AccountLedger WITH
    ledger  <- [a \in Accounts |-> history[a][Len(history[a])]],
    sent    <- cmd,
    applied <- {r \in CommandIds :
                  \E n \in DOMAIN streams[AccountOf[r]] :
                     streams[AccountOf[r]][n].commandId = r},
    answer  <- [r \in CommandIds |-> IF pc[r] = "done" THEN outcome[r] ELSE "none"]

\* Commands are atomic, take effect at most once, and their answers are truthful.
ImplementsLedger == Ledger!Spec
=============================================================================
