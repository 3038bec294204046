---------------------------- MODULE TransferSaga ----------------------------
(***************************************************************************)
(* Internal transfers: the coordinator loops of several application        *)
(* instances (transfer-coordinator.service.ts) drive every pending transfer*)
(* through debit, credit and, if the credit is refused, compensation.      *)
(* They share the transfer streams, the transaction registry that is to    *)
(* make each leg happen once (transaction-registry.service.ts), the        *)
(* accounts, and a transfer summary that lags behind the streams.          *)
(*                                                                         *)
(* Account and transfer commands are atomic here: AccountRepository shows  *)
(* that for accounts, and TransferRepository is the same code without      *)
(* snapshots.  What their retry loop cannot hide (a conflict that outlasts *)
(* the attempts, a failed query, a lost COMMIT reply) is a fault.          *)
(***************************************************************************)
EXTENDS AccountAggregate, TransferAggregate

CONSTANTS
    Transfers,
    Accounts,
    Source, Destination,    \* the accounts of each transfer
    Amount,                 \* its amount in minor units
    Currency,               \* the one currency accounts and transfers use
    InitialBalance,         \* what each account holds before the first transfer
    Coordinators,           \* one polling loop per application instance
    NoTransfer,
    Freezable,              \* accounts that may be frozen
    Unreliable,             \* transfers whose projection may lose events or be rebuilt
    MaxFaults,              \* bound on failing calls, lost events and rebuilds
    MaxCrashes              \* bound on process crashes

ASSUME SagaAssumption ==
    /\ Source \in [Transfers -> Accounts]
    /\ Destination \in [Transfers -> Accounts]
    /\ Amount \in [Transfers -> Nat]
    /\ Currency \in Currencies
    /\ InitialBalance \in [Accounts -> Nat]
    /\ NoTransfer \notin Transfers
    /\ Freezable \subseteq Accounts
    /\ Unreliable \subseteq Transfers
    /\ MaxFaults \in Nat
    /\ MaxCrashes \in Nat

VARIABLES
    transfer,   \* the state each transfer stream replays to
    summary,    \* transfer_summary.status, as far as it is projected
    lost,       \* the status whose event will not be projected, if there is one
    account,    \* the state each account stream replays to
    registry,   \* transaction_records.status of every leg
    pc,         \* where each coordinator is in its loop
    batch,      \* the pending transfers it still has to process
    job,        \* the transfer it is processing
    leg,        \* the leg it is processing
    err,        \* the error registry.execute is about to rethrow
    faults,     \* failed calls, lost events and rebuilds so far
    crashes,    \* crashes so far
    applied     \* auxiliary: account events carrying the leg's transaction id

vars == <<transfer, summary, lost, account, registry, pc, batch, job, leg, err,
          faults, crashes, applied>>
world  == <<transfer, summary, lost, account, registry, applied>>
budget == <<faults, crashes>>

RegistryStatus == {"NONE", "PENDING", "COMPLETED", "FAILED_RETRYABLE", "FAILED_TERMINAL"}

\* Between two iterations; about to load, reload, start the leg, reserve its
\* transaction, run the account command, mark the record completed or failed,
\* advance the transfer, fail it.
PCs == {"idle", "next", "reload", "start", "reserve", "handler", "complete",
        "markFailed", "advance", "fail"}

Errors == {"none", "Account is not active", "Currency mismatch", "must be positive",
           "Insufficient funds", "transient"}

-----------------------------------------------------------------------------
(* Helpers *)

Pending == {t \in Transfers : summary[t] \notin {"NONE", "COMPLETED", "COMPENSATED"}}

\* The switch of processTransfer.
LegFor(tr) ==
    CASE tr.status \in {"INITIATED", "DEBIT_IN_PROGRESS"} -> "debit"
      [] tr.status \in {"DEBITED", "CREDIT_IN_PROGRESS"}  -> "credit"
      [] tr.status = "FAILED" /\ tr.failureStage = "CREDIT" -> "compensation"
      [] tr.status = "COMPENSATION_IN_PROGRESS" -> "compensation"
      [] OTHER -> "none"

\* The status test before each Start...Command; it does not look at failureStage.
NeedsStart(status, l) ==
    CASE l = "debit"        -> status \in {"INITIATED", "DEBIT_IN_PROGRESS"}
      [] l = "credit"       -> status \in {"DEBITED", "CREDIT_IN_PROGRESS"}
      [] l = "compensation" -> status \in {"FAILED", "COMPENSATION_IN_PROGRESS"}

\* Mutant: the credit goes back to the source.
CreditsSource(t, l) == Source[t]

LegAccount(t, l) == IF l = "credit" THEN Destination[t] ELSE Source[t]

LegCommand(t, l) ==
    [type |-> IF l = "debit" THEN "withdraw" ELSE "deposit",
     amount |-> FormatMinorUnitsToMoney(Amount[t]), currency |-> Currency]

\* Mutant: every error fails the transfer.
EveryErrorIsTerminal(e) == TRUE

IsTerminalDomainError(e) ==
    e \in {"Insufficient funds", "Account is not active", "Currency mismatch", "not found"}

\* Mutant: the legs' transient errors are declared retryable.
TransientIsRetryable(e) == e = "transient"

\* instanceof RetryableTransferProcessingError: thrown only after registry.execute.
IsRetryableError(e) == e = "RetryableTransferProcessingError"

\* This transfer is over for the coordinator c; on to the rest of its batch.
Leave(c) ==
    /\ pc' = [pc EXCEPT ![c] = IF batch[c] = {} THEN "idle" ELSE "next"]
    /\ job' = [job EXCEPT ![c] = NoTransfer]
    /\ leg' = [leg EXCEPT ![c] = "debit"]
    /\ err' = [err EXCEPT ![c] = "none"]
    /\ UNCHANGED batch

Goto(c, label) ==
    /\ pc' = [pc EXCEPT ![c] = label]
    /\ UNCHANGED <<batch, job, leg, err>>

\* The catch block of registry.execute is entered with error e.
Catch(c, e) ==
    /\ pc' = [pc EXCEPT ![c] = "markFailed"]
    /\ err' = [err EXCEPT ![c] = e]
    /\ UNCHANGED <<batch, job, leg>>

\* How the catch block classifies the error.
FailureStatus(c) == IF IsRetryableError(err[c]) THEN "FAILED_RETRYABLE" ELSE "FAILED_TERMINAL"

\* The current transfer of c, its record in the registry, a write to each.
Job(c) == transfer[job[c]]
Record(c) == registry[job[c]][leg[c]]
SetJob(c, state) == transfer' = [transfer EXCEPT ![job[c]] = state]
SetRecord(c, status) == registry' = [registry EXCEPT ![job[c]][leg[c]] = status]

LegError(c) ==
    DomainError(account[LegAccount(job[c], leg[c])], LegCommand(job[c], leg[c]))

\* The account command of the leg commits its event.
MoveMoney(c) ==
    LET t == job[c]
        l == leg[c]
    IN  /\ account' = [account EXCEPT ![LegAccount(t, l)] =
                         When(@, MakeEvent(@, LegCommand(t, l), <<t, l>>))]
        /\ applied' = [applied EXCEPT ![t][l] = @ + 1]

-----------------------------------------------------------------------------

\* An account that was created and, if it holds money, received one deposit.
OpenAccount(a) ==
    [created |-> TRUE, currency |-> Currency, status |-> "ACTIVE",
     balance |-> InitialBalance[a], version |-> IF InitialBalance[a] = 0 THEN 1 ELSE 2]

Init ==
    /\ transfer = [t \in Transfers |-> NewTransfer]
    /\ summary = [t \in Transfers |-> "NONE"]
    /\ lost = [t \in Transfers |-> "NONE"]
    /\ account = [a \in Accounts |-> OpenAccount(a)]
    /\ registry = [t \in Transfers |-> [l \in Legs |-> "NONE"]]
    /\ applied = [t \in Transfers |-> [l \in Legs |-> 0]]
    /\ pc = [c \in Coordinators |-> "idle"]
    /\ batch = [c \in Coordinators |-> {}]
    /\ job = [c \in Coordinators |-> NoTransfer]
    /\ leg = [c \in Coordinators |-> "debit"]
    /\ err = [c \in Coordinators |-> "none"]
    /\ faults = 0
    /\ crashes = 0

-----------------------------------------------------------------------------
(* Around the coordinators *)

\* InitiateTransferHandler: both accounts exist in the transfer's currency.
Initiate(t) ==
    /\ CanInitiate(transfer[t], Source[t], Destination[t], Amount[t])
    /\ \A a \in {Source[t], Destination[t]} :
          account[a].created /\ account[a].currency = Currency
    /\ transfer' = [transfer EXCEPT ![t] = Initiated(@)]
    /\ UNCHANGED <<summary, lost, account, registry, applied, pc, batch, job, leg, err, budget>>

\* The newest event reaches the projector and is accepted: it was not lost, and if an
\* earlier one was there is still a row, without which the projector throws.
Arrives(t) == lost[t] = "NONE" \/ (summary[t] # "NONE" /\ lost[t] # transfer[t].status)

\* The transfer projector catches up with the stream.  All that is read of the
\* summary is whether it is pending, so one step may stand for several events.
ProjectTransfer(t) ==
    /\ summary[t] # transfer[t].status
    /\ Arrives(t)
    /\ summary' = [summary EXCEPT ![t] = transfer[t].status]
    /\ UNCHANGED <<transfer, lost, account, registry, applied, pc, batch, job, leg, err, budget>>

Fault == faults < MaxFaults /\ faults' = faults + 1 /\ UNCHANGED crashes

\* The newest event will not be projected: the publisher that had claimed its outbox
\* row died or lost track of it (abandoned in OutboxRelay), or the rebuild that was to
\* project it was aborted.
LoseEvent(t) ==
    /\ transfer[t].status \notin {summary[t], lost[t]}
    /\ t \in Unreliable /\ Fault
    /\ lost' = [lost EXCEPT ![t] = transfer[t].status]
    /\ UNCHANGED <<transfer, summary, account, registry, applied, pc, batch, job, leg, err>>

\* rebuildTransfer: the row is deleted, and every event of the stream projected again.
RebuildTransfer(t) ==
    /\ summary[t] # "NONE" \/ lost[t] # "NONE"
    /\ t \in Unreliable /\ Fault
    /\ summary' = [summary EXCEPT ![t] = "NONE"]
    /\ lost' = [lost EXCEPT ![t] = "NONE"]
    /\ UNCHANGED <<transfer, account, registry, applied, pc, batch, job, leg, err>>

\* A client freezes an account.
FreezeAccount(a) ==
    LET freeze == [type |-> "freeze", amount |-> FormatMinorUnitsToMoney(0),
                   currency |-> Currency]
    IN  /\ a \in Freezable
        /\ DomainError(account[a], freeze) = "none"
        /\ account' = [account EXCEPT ![a] = When(@, MakeEvent(@, freeze, "freeze"))]
        /\ UNCHANGED <<transfer, summary, lost, registry, applied, pc, batch, job, leg, err, budget>>

-----------------------------------------------------------------------------
(* The coordinator loop, one step per awaited call *)

\* processPendingTransfersOnce: listPendingTransfers.
Poll(c) ==
    /\ pc[c] = "idle"
    /\ batch' = [batch EXCEPT ![c] = Pending]
    /\ pc' = [pc EXCEPT ![c] = IF Pending = {} THEN "idle" ELSE "next"]
    /\ UNCHANGED <<world, job, leg, err, budget>>

\* processTransfer loads the stream and picks the leg, or has nothing to do.
ProcessTransfer(c, t) ==
    LET l == LegFor(transfer[t])
        rest == batch[c] \ {t}
    IN  /\ batch' = [batch EXCEPT ![c] = rest]
        /\ IF l = "none"
             THEN /\ pc' = [pc EXCEPT ![c] = IF rest = {} THEN "idle" ELSE "next"]
                  /\ UNCHANGED <<job, leg>>
             ELSE /\ pc' = [pc EXCEPT ![c] = "reload"]
                  /\ job' = [job EXCEPT ![c] = t]
                  /\ leg' = [leg EXCEPT ![c] = l]

\* The loop over the batch takes one of the transfers that are left.
Load(c) ==
    /\ pc[c] = "next"
    /\ \E t \in batch[c] : ProcessTransfer(c, t)
    /\ UNCHANGED <<world, err, budget>>

\* processDebit, processCredit and processCompensation load the stream again.
Reload(c) ==
    /\ pc[c] = "reload"
    /\ Goto(c, IF NeedsStart(Job(c).status, leg[c]) THEN "start" ELSE "reserve")
    /\ UNCHANGED <<world, budget>>

\* StartDebit, StartCredit or StartTransferCompensation; a refusal is logged.
Start(c) ==
    /\ pc[c] = "start"
    /\ IF CanStart(Job(c), leg[c])
         THEN SetJob(c, Started(Job(c), leg[c])) /\ Goto(c, "reserve")
         ELSE Leave(c) /\ UNCHANGED transfer
    /\ UNCHANGED <<summary, lost, account, registry, applied, budget>>

\* Mutant: a completed record is refused like a pending one.
ReserveRefusesCompleted(c) ==
    /\ pc[c] = "reserve"
    /\ IF Record(c) \in {"NONE", "FAILED_RETRYABLE"}
         THEN SetRecord(c, "PENDING") /\ Goto(c, "handler")
         ELSE Leave(c) /\ UNCHANGED registry
    /\ UNCHANGED <<transfer, summary, lost, account, applied, budget>>

\* registry.execute up to the handler: a new record is inserted, a retryable one
\* reopened, a completed one answered at once; any other is a ConflictException.
\* (Reopening takes a query of its own in the code.  No record of a leg is ever
\* retryable, see IsRetryableError, so it is part of this step.)
Reserve(c) ==
    /\ pc[c] = "reserve"
    /\ CASE Record(c) \in {"NONE", "FAILED_RETRYABLE"} ->
              SetRecord(c, "PENDING") /\ Goto(c, "handler")
         [] Record(c) = "COMPLETED" -> Goto(c, "advance") /\ UNCHANGED registry
         [] OTHER -> Leave(c) /\ UNCHANGED registry
    /\ UNCHANGED <<transfer, summary, lost, account, applied, budget>>

\* The handler passed to registry.execute: WithdrawMoney or DepositMoney.
Handler(c) ==
    /\ pc[c] = "handler"
    /\ IF LegError(c) = "none"
         THEN MoveMoney(c) /\ Goto(c, "complete")
         ELSE Catch(c, LegError(c)) /\ UNCHANGED <<account, applied>>
    /\ UNCHANGED <<transfer, summary, lost, registry, budget>>

MarkCompleted(c) ==
    /\ pc[c] = "complete"
    /\ SetRecord(c, "COMPLETED")
    /\ Goto(c, "advance")
    /\ UNCHANGED <<transfer, summary, lost, account, applied, budget>>

\* Mutant: the error is rethrown before it is classified.
MarkFailedAndLeave(c) ==
    /\ pc[c] = "markFailed"
    /\ SetRecord(c, "FAILED_TERMINAL")
    /\ Leave(c)
    /\ UNCHANGED <<transfer, summary, lost, account, applied, budget>>

\* The catch block of registry.execute, then the one of processDebit or
\* processCredit; processCompensation never fails the transfer.
MarkFailed(c) ==
    /\ pc[c] = "markFailed"
    /\ SetRecord(c, FailureStatus(c))
    /\ IF IsTerminalDomainError(err[c]) /\ leg[c] # "compensation"
         THEN Goto(c, "fail")
         ELSE Leave(c)
    /\ UNCHANGED <<transfer, summary, lost, account, applied, budget>>

\* MarkTransferDebited, CompleteTransfer or CompleteTransferCompensation.
Advance(c) ==
    /\ pc[c] = "advance"
    /\ IF CanAdvance(Job(c), leg[c])
         THEN SetJob(c, Advanced(Job(c), leg[c]))
         ELSE UNCHANGED transfer
    /\ Leave(c)
    /\ UNCHANGED <<summary, lost, account, registry, applied, budget>>

\* FailTransfer, with the stage of the leg that was refused.
FailTransfer(c) ==
    /\ pc[c] = "fail"
    /\ IF CanFail(Job(c))
         THEN SetJob(c, Failed(Job(c), IF leg[c] = "debit" THEN "DEBIT" ELSE "CREDIT"))
         ELSE UNCHANGED transfer
    /\ Leave(c)
    /\ UNCHANGED <<summary, lost, account, registry, applied, budget>>

-----------------------------------------------------------------------------
(* Faults *)

\* The awaited call fails and had no effect.  The load that opens
\* processTransfer is outside its try block: it takes the whole batch with it.
CallFails(c) ==
    /\ Fault
    /\ \/ /\ pc[c] = "next"
          /\ pc' = [pc EXCEPT ![c] = "idle"]
          /\ batch' = [batch EXCEPT ![c] = {}]
          /\ UNCHANGED <<job, leg, err>>
       \/ pc[c] \in {"reload", "start", "reserve", "markFailed", "advance", "fail"} /\ Leave(c)
       \/ pc[c] \in {"handler", "complete"} /\ Catch(c, "transient")
    /\ UNCHANGED world

\* The awaited call takes effect but its reply is lost, so it fails as well.  (For
\* the last two calls, advance and fail, that is no different from success.)
ReplyLost(c) ==
    /\ Fault
    /\ \/ /\ pc[c] = "start" /\ CanStart(Job(c), leg[c])
          /\ SetJob(c, Started(Job(c), leg[c]))
          /\ Leave(c)
          /\ UNCHANGED <<account, registry, applied>>
       \/ /\ pc[c] = "reserve" /\ Record(c) \in {"NONE", "FAILED_RETRYABLE"}
          /\ SetRecord(c, "PENDING")
          /\ Leave(c)
          /\ UNCHANGED <<transfer, account, applied>>
       \/ /\ pc[c] = "handler" /\ LegError(c) = "none"
          /\ MoveMoney(c)
          /\ Catch(c, "transient")
          /\ UNCHANGED <<transfer, registry>>
       \/ /\ pc[c] = "complete"
          /\ SetRecord(c, "COMPLETED")
          /\ Catch(c, "transient")
          /\ UNCHANGED <<transfer, account, applied>>
       \/ /\ pc[c] = "markFailed"
          /\ SetRecord(c, FailureStatus(c))
          /\ Leave(c)
          /\ UNCHANGED <<transfer, account, applied>>
    /\ UNCHANGED <<summary, lost>>

\* The process dies and is restarted: its loop starts over.
Crash(c) ==
    /\ crashes < MaxCrashes /\ pc[c] # "idle"
    /\ crashes' = crashes + 1
    /\ pc' = [pc EXCEPT ![c] = "idle"]
    /\ batch' = [batch EXCEPT ![c] = {}]
    /\ job' = [job EXCEPT ![c] = NoTransfer]
    /\ leg' = [leg EXCEPT ![c] = "debit"]
    /\ err' = [err EXCEPT ![c] = "none"]
    /\ UNCHANGED <<world, faults>>

-----------------------------------------------------------------------------

Step(c) ==
    \/ Poll(c) \/ Load(c) \/ Reload(c) \/ Start(c) \/ Reserve(c) \/ Handler(c)
    \/ MarkCompleted(c) \/ MarkFailed(c) \/ Advance(c) \/ FailTransfer(c)

Next ==
    \/ \E t \in Transfers : Initiate(t) \/ ProjectTransfer(t) \/ LoseEvent(t) \/ RebuildTransfer(t)
    \/ \E a \in Accounts : FreezeAccount(a)
    \/ \E c \in Coordinators : Step(c) \/ CallFails(c) \/ ReplyLost(c) \/ Crash(c)

\* Every instance keeps polling, and every event that is not lost is projected.
Fairness ==
    /\ \A c \in Coordinators : WF_vars(Step(c))
    /\ \A t \in Transfers : WF_vars(ProjectTransfer(t))

Spec == Init /\ [][Next]_vars
FairSpec == Spec /\ Fairness

-----------------------------------------------------------------------------
(* Properties *)

TypeOK ==
    /\ transfer \in [Transfers -> TransferState]
    /\ summary \in [Transfers -> TransferStatus \cup {"NONE"}]
    /\ lost \in [Transfers -> TransferStatus \cup {"NONE"}]
    /\ account \in [Accounts -> AccountState]
    /\ registry \in [Transfers -> [Legs -> RegistryStatus]]
    /\ applied \in [Transfers -> [Legs -> Nat]]
    /\ pc \in [Coordinators -> PCs]
    /\ batch \in [Coordinators -> SUBSET Transfers]
    /\ job \in [Coordinators -> Transfers \cup {NoTransfer}]
    /\ leg \in [Coordinators -> Legs]
    /\ err \in [Coordinators -> Errors]
    /\ faults \in 0 .. MaxFaults
    /\ crashes \in 0 .. MaxCrashes
    /\ \A c \in Coordinators : pc[c] \in {"idle", "next"} <=> job[c] = NoTransfer

\* "A retry must not double-apply money movement": whatever crashes, lost replies
\* and competing coordinators there are, a leg's account command commits at most once.
LegAtMostOnce ==
    \A t \in Transfers, l \in Legs : applied[t][l] <= 1

Moved(t, debit, credit, compensation) ==
    /\ applied[t]["debit"] = debit
    /\ applied[t]["credit"] = credit
    /\ applied[t]["compensation"] = compensation

\* What a client reads off a transfer's status is where the money is.  A failed
\* debit moved nothing; a failed credit left it out of the source only; the two
\* happy ends moved it exactly once each way.
OutcomeMatchesMoney ==
    \A t \in Transfers :
        LET tr == transfer[t] IN
        /\ tr.status \in {"NONE", "INITIATED"} => Moved(t, 0, 0, 0)
        /\ tr.status = "FAILED" /\ tr.failureStage = "DEBIT" => Moved(t, 0, 0, 0)
        /\ tr.status = "DEBITED" => Moved(t, 1, 0, 0)
        /\ tr.status = "FAILED" /\ tr.failureStage = "CREDIT" => Moved(t, 1, 0, 0)
        /\ tr.status = "COMPLETED" => Moved(t, 1, 1, 0)
        /\ tr.status = "COMPENSATED" => Moved(t, 1, 0, 1)

Settled(t) ==
    \/ transfer[t].status \in {"COMPLETED", "COMPENSATED"}
    \/ transfer[t].status = "FAILED" /\ transfer[t].failureStage = "DEBIT"

\* The ends of the lifecycle are final: no late step of a coordinator that read
\* an older state changes them.
SettledIsFinal ==
    [][\A t \in Transfers : Settled(t) => transfer'[t] = transfer[t]]_vars

\* Where the money of a transfer is, from its state and its applied legs.
Phase(tr, moved) ==
    IF tr.status = "NONE"              THEN "absent"
    ELSE IF moved["credit"] > 0        THEN "delivered"
    ELSE IF moved["compensation"] > 0  THEN "returned"
    ELSE IF moved["debit"] > 0         THEN "inTransit"
    ELSE IF tr.status = "FAILED"       THEN "rejected"
    ELSE "requested"

\* The saga implements MoneyTransfer: money moves when a leg's account command
\* commits, never anywhere else, and never both forward and back.
Money == INSTANCE MoneyTransfer WITH
    phase <- [t \in Transfers |-> Phase(transfer[t], applied[t])],
    balance <- [a \in Accounts |-> account[a].balance]

\* Every behaviour of the saga is one MoneyTransfer allows.
ImplementsMoneyTransfer == Money!Spec

\* The coordinator c is working on the leg l of t in one of the given steps.
At(c, steps, t, l) == pc[c] \in steps /\ job[c] = t /\ leg[c] = l

\* The registry blocks the leg t needs next and nobody is about to change that: a
\* pending record without an owner, or a failed one the transfer does not know of.
Poisoned(t) == \E l \in Legs :
    /\ LegFor(transfer[t]) = l
    /\ \/ /\ registry[t][l] = "PENDING"
          /\ \A c \in Coordinators : ~At(c, {"handler", "complete", "markFailed"}, t, l)
       \/ /\ registry[t][l] = "FAILED_TERMINAL"
          /\ \A c \in Coordinators : ~At(c, {"advance", "fail"}, t, l)

\* The transfer has no row and nothing on its way that would make one: its
\* TransferInitiated was lost, or a rebuild was aborted before it came to it.
Unlisted(t) == summary[t] = "NONE" /\ lost[t] # "NONE"

\* Nothing but a poisoned registry record, or a missing row that no rebuild brings back,
\* keeps a transfer from settling: losing a race, crashes and failed calls anywhere else,
\* the loss of any later event, and rebuilds are recovered from by the next poll.
SettlesUnlessPoisoned ==
    \A t \in Transfers :
        []<>~Unlisted(t) =>
            ((transfer[t].status = "INITIATED") ~> (Settled(t) \/ Poisoned(t)))

\* Every accepted transfer is settled: "clients observe progression to COMPLETED,
\* FAILED, or COMPENSATED".  Which faults it survives is for each run to say.
EveryTransferSettles ==
    \A t \in Transfers : (transfer[t].status = "INITIATED") ~> Settled(t)
=============================================================================
