------------------------- MODULE TransferSagaProofs -------------------------
(***************************************************************************)
(* TLAPS proofs about TransferSaga, for any number of transfers, accounts  *)
(* and coordinators, any amounts, any number of faults and crashes.        *)
(*                                                                         *)
(* LegAtMostOnce and OutcomeMatchesMoney are not inductive.  IInv adds why *)
(* they hold: a leg that was never reserved moved nothing and has no owner;*)
(* a reserved one has at most one owner, ever (LegOwned); a transfer's     *)
(* status bounds how far its legs got (StatusKnows); and a coordinator     *)
(* only works on a leg its transfer has reached (JobReached).  The same    *)
(* invariant makes the saga an implementation of MoneyTransfer.            *)
(***************************************************************************)
EXTENDS TransferSaga, AccountAggregateProofs

-----------------------------------------------------------------------------
(* The inductive invariant *)

Owner(c, t, l) == At(c, {"handler", "complete", "markFailed"}, t, l)

\* The registry record, the coordinators and the account agree about a leg.
LegOwnedAt(t, l) ==
    /\ applied[t][l] \in {0, 1}
    /\ registry[t][l] # "FAILED_RETRYABLE"
    /\ registry[t][l] = "NONE" => applied[t][l] = 0
    /\ registry[t][l] = "COMPLETED" => applied[t][l] = 1
    /\ \A c \in Coordinators :
          /\ Owner(c, t, l) => registry[t][l] \in {"PENDING", "COMPLETED"}
          /\ At(c, {"handler"}, t, l) => applied[t][l] = 0
          /\ At(c, {"complete", "advance"}, t, l) => applied[t][l] = 1
          /\ At(c, {"markFailed"}, t, l) /\ IsTerminalDomainError(err[c]) =>
                applied[t][l] = 0
          /\ At(c, {"fail"}, t, l) =>
                /\ l # "compensation"
                /\ registry[t][l] = "FAILED_TERMINAL"
                /\ applied[t][l] = 0
          /\ \A d \in Coordinators : Owner(c, t, l) /\ Owner(d, t, l) => c = d

LegOwned == \A t \in Transfers, l \in Legs : LegOwnedAt(t, l)

\* The statuses after which the source has been debited.
DebitDone(tr) ==
    \/ tr.status \in {"DEBITED", "CREDIT_IN_PROGRESS", "COMPLETED",
                      "COMPENSATION_IN_PROGRESS", "COMPENSATED"}
    \/ tr.status = "FAILED" /\ tr.failureStage = "CREDIT"

\* The statuses after which the credit was refused.
CreditRefused(tr) ==
    \/ tr.status \in {"COMPENSATION_IN_PROGRESS", "COMPENSATED"}
    \/ tr.status = "FAILED" /\ tr.failureStage = "CREDIT"

\* What a transfer's status says about its legs.
StatusKnowsOf(t) ==
    LET tr == transfer[t] IN
    /\ tr.status \in {"NONE", "INITIATED"} => registry[t]["debit"] = "NONE"
    /\ tr.status = "FAILED" => tr.failureStage # "NONE"
    /\ tr.status = "FAILED" /\ tr.failureStage = "DEBIT" =>
          registry[t]["debit"] = "FAILED_TERMINAL" /\ applied[t]["debit"] = 0
    /\ IF DebitDone(tr) THEN applied[t]["debit"] = 1
                        ELSE registry[t]["credit"] = "NONE"
    /\ tr.status = "DEBITED" => registry[t]["credit"] = "NONE"
    /\ tr.status = "COMPLETED" => applied[t]["credit"] = 1
    /\ IF CreditRefused(tr)
         THEN /\ registry[t]["credit"] = "FAILED_TERMINAL"
              /\ applied[t]["credit"] = 0
              /\ tr.failureStage = "CREDIT"
         ELSE registry[t]["compensation"] = "NONE"
    /\ tr.status = "FAILED" => registry[t]["compensation"] = "NONE"
    /\ tr.status = "COMPENSATED" => applied[t]["compensation"] = 1

StatusKnows == \A t \in Transfers : StatusKnowsOf(t)

\* A coordinator works on a leg its transfer has reached, and has started it
\* before it goes to the registry.
JobReachedBy(c) ==
    job[c] # NoTransfer =>
        LET tr == transfer[job[c]]
            started == pc[c] \notin {"reload", "start"}
        IN  /\ tr.status # "NONE"
            /\ leg[c] = "debit" /\ started => tr.status # "INITIATED"
            /\ leg[c] = "credit" => DebitDone(tr)
            /\ leg[c] = "credit" /\ started => tr.status # "DEBITED"
            /\ leg[c] = "compensation" => CreditRefused(tr)
            /\ leg[c] = "compensation" /\ started => tr.status # "FAILED"

JobReached == \A c \in Coordinators : JobReachedBy(c)

IInv == TypeOK /\ LegOwned /\ StatusKnows /\ JobReached

-----------------------------------------------------------------------------
(* Typing *)

\* TypeOK in three parts: what the database holds, what the coordinators hold,
\* how many faults and crashes there were.
WorldType ==
    /\ transfer \in [Transfers -> TransferState]
    /\ summary \in [Transfers -> TransferStatus \cup {"NONE"}]
    /\ lost \in [Transfers -> TransferStatus \cup {"NONE"}]
    /\ account \in [Accounts -> AccountState]
    /\ registry \in [Transfers -> [Legs -> RegistryStatus]]
    /\ applied \in [Transfers -> [Legs -> Nat]]

LocalType ==
    /\ pc \in [Coordinators -> PCs]
    /\ batch \in [Coordinators -> SUBSET Transfers]
    /\ job \in [Coordinators -> Transfers \cup {NoTransfer}]
    /\ leg \in [Coordinators -> Legs]
    /\ err \in [Coordinators -> Errors]
    /\ \A c \in Coordinators : pc[c] \in {"idle", "next"} <=> job[c] = NoTransfer

BudgetType == faults \in 0 .. MaxFaults /\ crashes \in 0 .. MaxCrashes

LEMMA TypeParts == TypeOK <=> WorldType /\ LocalType /\ BudgetType
BY DEF TypeOK, WorldType, LocalType, BudgetType

Busy(c) == pc[c] \notin {"idle", "next"}

LEMMA BusyJob ==
    ASSUME LocalType, NEW c \in Coordinators, Busy(c)
    PROVE  job[c] \in Transfers /\ leg[c] \in Legs
BY DEF LocalType, Busy

LEMMA LeaveType ==
    ASSUME LocalType, NEW c \in Coordinators, Leave(c)
    PROVE  LocalType'
BY DEF LocalType, Leave, PCs, Legs, Errors

LEMMA GotoType ==
    ASSUME LocalType, NEW c \in Coordinators, Busy(c),
           NEW label \in PCs \ {"idle", "next"}, Goto(c, label)
    PROVE  LocalType'
BY DEF LocalType, Goto, Busy

LEMMA CatchType ==
    ASSUME LocalType, NEW c \in Coordinators, Busy(c),
           NEW e \in Errors, Catch(c, e)
    PROVE  LocalType'
BY DEF LocalType, Catch, Busy, PCs

\* Every event takes a transfer to a transfer state.
LEMMA TransferWhenTypes ==
    ASSUME NEW tr \in TransferState, NEW l \in Legs, NEW stage \in Stages
    PROVE  /\ Initiated(tr) \in TransferState
           /\ Started(tr, l) \in TransferState
           /\ Advanced(tr, l) \in TransferState
           /\ Failed(tr, stage) \in TransferState
<1>1. Initiated(tr) \in TransferState /\ Failed(tr, stage) \in TransferState
  BY DEF Initiated, Failed, TransferWhen, TransferState, TransferStatus, Stages
<1>2. Started(tr, l) \in TransferState
  BY DEF Started, TransferWhen, TransferState, TransferStatus, Stages, Legs
<1>3. Advanced(tr, l) \in TransferState
  BY DEF Advanced, TransferWhen, TransferState, TransferStatus, Stages, Legs
<1>4. QED
  BY <1>1, <1>2, <1>3

\* A leg's account command is well formed, and its event is too.
LEMMA LegTypes ==
    ASSUME NEW t \in Transfers, NEW l \in Legs
    PROVE  LegAccount(t, l) \in Accounts /\ LegCommand(t, l) \in Command
<1>1. LegAccount(t, l) \in Accounts
  BY SagaAssumption DEF LegAccount
<1>2. FormatMinorUnitsToMoney(Amount[t]) \in Decimal
  BY SagaAssumption, FormatType, Amount[t] \in Int
<1>3. QED
  BY <1>1, <1>2, SagaAssumption DEF LegCommand, Command

LEMMA LegErrorType ==
    ASSUME NEW acct, NEW t \in Transfers, NEW l \in Legs
    PROVE  DomainError(acct, LegCommand(t, l)) \in Errors
BY DEF DomainError, LegCommand, Errors

LEMMA AppliedCommandType ==
    ASSUME NEW acct \in AccountState, NEW cmd \in Command, NEW id
    PROVE  When(acct, MakeEvent(acct, cmd, id)) \in AccountState
<1>1. MakeEvent(acct, cmd, id) \in Event({id})
  BY MakeEventType
<1>2. QED
  BY <1>1, WhenType

LEMMA MoveMoneyType ==
    ASSUME WorldType, NEW c \in Coordinators,
           job[c] \in Transfers, leg[c] \in Legs, MoveMoney(c)
    PROVE  account' \in [Accounts -> AccountState] /\ applied' \in [Transfers -> [Legs -> Nat]]
<1> DEFINE a == LegAccount(job[c], leg[c])
           k == LegCommand(job[c], leg[c])
           new == When(account[a], MakeEvent(account[a], k, <<job[c], leg[c]>>))
<1>1. a \in Accounts /\ k \in Command
  BY LegTypes
<1>2. account[a] \in AccountState
  BY <1>1 DEF WorldType
<1>3. new \in AccountState
  BY <1>1, <1>2, AppliedCommandType
<1>4. account' = [account EXCEPT ![a] = new]
  BY DEF MoveMoney
<1> HIDE DEF a, k, new
<1>5. account' \in [Accounts -> AccountState]
  BY <1>3, <1>4 DEF WorldType
<1>6. applied' \in [Transfers -> [Legs -> Nat]]
  BY DEF MoveMoney, WorldType
<1>7. QED
  BY <1>5, <1>6

LEMMA InitType == Init => TypeOK
<1> SUFFICES ASSUME Init PROVE TypeOK
  OBVIOUS
<1>1. NewTransfer \in TransferState
  BY DEF NewTransfer, TransferState
<1>2. \A a \in Accounts : OpenAccount(a) \in AccountState
  BY SagaAssumption DEF OpenAccount, AccountState, Statuses
<1>3. WorldType
  BY <1>1, <1>2 DEF Init, WorldType, RegistryStatus
<1>4. LocalType
  BY DEF Init, LocalType, PCs, Legs, Errors
<1>5. BudgetType
  BY SagaAssumption DEF Init, BudgetType
<1>6. QED
  BY <1>3, <1>4, <1>5, TypeParts

\* Writing a record of the registry keeps its type.
LEMMA SetRecordType ==
    ASSUME WorldType, NEW c \in Coordinators,
           job[c] \in Transfers, leg[c] \in Legs,
           NEW status \in RegistryStatus, SetRecord(c, status)
    PROVE  registry' \in [Transfers -> [Legs -> RegistryStatus]]
BY DEF SetRecord, WorldType

LEMMA SetJobType ==
    ASSUME WorldType, NEW c \in Coordinators, job[c] \in Transfers,
           NEW state \in TransferState, SetJob(c, state)
    PROVE  transfer' \in [Transfers -> TransferState]
BY DEF SetJob, WorldType

LEMMA FailureStatusType ==
    ASSUME NEW c PROVE FailureStatus(c) \in RegistryStatus
BY DEF FailureStatus, RegistryStatus

\* The steps of a coordinator keep the types.
LEMMA StepType ==
    ASSUME TypeOK, NEW c \in Coordinators, Step(c)
    PROVE  WorldType' /\ LocalType'
<1>1. WorldType /\ LocalType
  BY TypeParts
<1>2. Busy(c) => job[c] \in Transfers /\ leg[c] \in Legs /\ Job(c) \in TransferState
  BY <1>1, BusyJob DEF Job, WorldType
<1>3. CASE Poll(c)
  <2>1. WorldType'
    BY <1>1, <1>3 DEF Poll, world, WorldType
  <2>2. LocalType'
    BY <1>1, <1>3 DEF Poll, LocalType, Pending, PCs
  <2>3. QED
    BY <2>1, <2>2
<1>4. CASE Load(c)
  <2>1. WorldType'
    BY <1>1, <1>4 DEF Load, world, WorldType
  <2>2. PICK t \in batch[c] : ProcessTransfer(c, t)
    BY <1>4 DEF Load
  <2>3. t \in Transfers
    BY <1>1 DEF LocalType
  <2>4. LegFor(transfer[t]) \in Legs \cup {"none"}
    BY DEF LegFor, Legs
  <2>5. pc[c] = "next" /\ UNCHANGED err
    BY <1>4 DEF Load
  <2>6. CASE LegFor(transfer[t]) = "none"
    BY <1>1, <2>1, <2>2, <2>3, <2>5, <2>6 DEF LocalType, PCs, ProcessTransfer
  <2>7. CASE LegFor(transfer[t]) # "none"
    BY <1>1, <2>1, <2>2, <2>3, <2>4, <2>5, <2>7, SagaAssumption
    DEF LocalType, PCs, ProcessTransfer
  <2>8. QED
    BY <2>6, <2>7
<1>5. CASE Reload(c)
  <2>1. WorldType'
    BY <1>1, <1>5 DEF Reload, world, WorldType
  <2>2. PICK label \in {"start", "reserve"} : Goto(c, label)
    BY <1>5 DEF Reload
  <2>3. QED
    BY <1>1, <1>5, <2>1, <2>2, GotoType DEF Reload, Busy, PCs
<1>6. CASE Start(c)
  <2>1. Busy(c)
    BY <1>6 DEF Start, Busy
  <2>2. CASE CanStart(Job(c), leg[c])
    <3>1. Started(Job(c), leg[c]) \in TransferState
      BY <1>2, <2>1, TransferWhenTypes DEF Stages
    <3>2. SetJob(c, Started(Job(c), leg[c])) /\ Goto(c, "reserve")
      BY <1>6, <2>2 DEF Start
    <3>3. transfer' \in [Transfers -> TransferState]
      BY <1>1, <1>2, <2>1, <3>1, <3>2, SetJobType
    <3>4. WorldType'
      BY <1>1, <1>6, <3>3 DEF Start, WorldType
    <3>5. QED
      BY <1>1, <2>1, <3>2, <3>4, GotoType DEF PCs
  <2>3. CASE ~CanStart(Job(c), leg[c])
    BY <1>1, <1>6, <2>3, LeaveType DEF Start, WorldType
  <2>4. QED
    BY <2>2, <2>3
<1>7. CASE Reserve(c)
  <2>1. Busy(c)
    BY <1>7 DEF Reserve, Busy
  <2>2. \/ SetRecord(c, "PENDING") /\ Goto(c, "handler")
        \/ Goto(c, "advance") /\ UNCHANGED registry
        \/ Leave(c) /\ UNCHANGED registry
    BY <1>7 DEF Reserve
  <2>3. registry' \in [Transfers -> [Legs -> RegistryStatus]]
    <3>1. CASE SetRecord(c, "PENDING")
      BY <1>1, <1>2, <2>1, <3>1, SetRecordType DEF RegistryStatus
    <3>2. CASE UNCHANGED registry
      BY <1>1, <3>2 DEF WorldType
    <3>3. QED
      BY <2>2, <3>1, <3>2
  <2>4. WorldType'
    BY <1>1, <1>7, <2>3 DEF Reserve, WorldType
  <2>5. LocalType'
    BY <1>1, <2>1, <2>2, GotoType, LeaveType DEF PCs
  <2>6. QED
    BY <2>4, <2>5
<1>8. CASE Handler(c)
  <2>1. Busy(c)
    BY <1>8 DEF Handler, Busy
  <2>2. CASE LegError(c) = "none"
    <3>1. MoveMoney(c) /\ Goto(c, "complete")
      BY <1>8, <2>2 DEF Handler
    <3>2. WorldType'
      BY <1>1, <1>2, <1>8, <2>1, <3>1, MoveMoneyType DEF Handler, WorldType
    <3>3. QED
      BY <1>1, <2>1, <3>1, <3>2, GotoType DEF PCs
  <2>3. CASE LegError(c) # "none"
    <3>1. LegError(c) \in Errors
      BY <1>2, <2>1, LegErrorType DEF LegError
    <3>2. Catch(c, LegError(c)) /\ UNCHANGED <<account, applied>>
      BY <1>8, <2>3 DEF Handler
    <3>3. WorldType'
      BY <1>1, <1>8, <3>2 DEF Handler, WorldType
    <3>4. QED
      BY <1>1, <2>1, <3>1, <3>2, <3>3, CatchType
  <2>4. QED
    BY <2>2, <2>3
<1>9. CASE MarkCompleted(c)
  <2>1. Busy(c) /\ SetRecord(c, "COMPLETED") /\ Goto(c, "advance")
    BY <1>9 DEF MarkCompleted, Busy
  <2>2. registry' \in [Transfers -> [Legs -> RegistryStatus]]
    BY <1>1, <1>2, <2>1, SetRecordType DEF RegistryStatus
  <2>3. WorldType'
    BY <1>1, <1>9, <2>2 DEF MarkCompleted, WorldType
  <2>4. QED
    BY <1>1, <2>1, <2>3, GotoType DEF PCs
<1>10. CASE MarkFailed(c)
  <2>1. Busy(c) /\ SetRecord(c, FailureStatus(c)) /\ (Goto(c, "fail") \/ Leave(c))
    BY <1>10 DEF MarkFailed, Busy
  <2>2. registry' \in [Transfers -> [Legs -> RegistryStatus]]
    BY <1>1, <1>2, <2>1, SetRecordType, FailureStatusType
  <2>3. WorldType'
    BY <1>1, <1>10, <2>2 DEF MarkFailed, WorldType
  <2>4. QED
    BY <1>1, <2>1, <2>3, GotoType, LeaveType DEF PCs
<1>11. CASE Advance(c)
  <2>1. Busy(c) /\ Leave(c)
    BY <1>11 DEF Advance, Busy
  <2>2. Advanced(Job(c), leg[c]) \in TransferState
    BY <1>2, <2>1, TransferWhenTypes DEF Stages
  <2>3. transfer' \in [Transfers -> TransferState]
    BY <1>1, <1>2, <1>11, <2>1, <2>2, SetJobType DEF Advance, WorldType
  <2>4. WorldType'
    BY <1>1, <1>11, <2>3 DEF Advance, WorldType
  <2>5. QED
    BY <1>1, <2>1, <2>4, LeaveType
<1>12. CASE FailTransfer(c)
  <2> DEFINE stage == IF leg[c] = "debit" THEN "DEBIT" ELSE "CREDIT"
  <2>1. Busy(c) /\ Leave(c)
    BY <1>12 DEF FailTransfer, Busy
  <2>2. Failed(Job(c), stage) \in TransferState
    BY <1>2, <2>1, TransferWhenTypes, stage \in Stages DEF Stages
  <2>3. transfer' \in [Transfers -> TransferState]
    BY <1>1, <1>2, <1>12, <2>1, <2>2, SetJobType DEF FailTransfer, WorldType
  <2>4. WorldType'
    BY <1>1, <1>12, <2>3 DEF FailTransfer, WorldType
  <2>5. QED
    BY <1>1, <2>1, <2>4, LeaveType
<1>13. QED
  BY <1>3, <1>4, <1>5, <1>6, <1>7, <1>8, <1>9, <1>10, <1>11, <1>12 DEF Step

\* So does everything else.
LEMMA NextType == TypeOK /\ [Next]_vars => TypeOK'
<1> SUFFICES ASSUME TypeOK, [Next]_vars PROVE TypeOK'
  OBVIOUS
<1>1. WorldType /\ LocalType /\ BudgetType
  BY TypeParts
<1>2. ASSUME NEW t \in Transfers, Initiate(t) PROVE TypeOK'
  <2>1. Initiated(transfer[t]) \in TransferState
    BY <1>1, TransferWhenTypes DEF WorldType, Legs, Stages
  <2>2. WorldType'
    BY <1>1, <1>2, <2>1 DEF Initiate, WorldType
  <2>3. LocalType' /\ BudgetType'
    BY <1>1, <1>2 DEF Initiate, LocalType, BudgetType, budget
  <2>4. QED
    BY <2>2, <2>3 DEF TypeOK, WorldType, LocalType, BudgetType
<1>3. ASSUME NEW t \in Transfers, ProjectTransfer(t) PROVE TypeOK'
  <2>1. transfer[t].status \in TransferStatus \cup {"NONE"}
    BY <1>1 DEF WorldType, TransferState
  <2>2. WorldType'
    BY <1>1, <1>3, <2>1 DEF ProjectTransfer, WorldType
  <2>3. LocalType' /\ BudgetType'
    BY <1>1, <1>3 DEF ProjectTransfer, LocalType, BudgetType, budget
  <2>4. QED
    BY <2>2, <2>3 DEF TypeOK, WorldType, LocalType, BudgetType
<1>4. ASSUME NEW a \in Accounts, FreezeAccount(a) PROVE TypeOK'
  <2> DEFINE k == [type |-> "freeze", amount |-> FormatMinorUnitsToMoney(0),
                   currency |-> Currency]
             new == When(account[a], MakeEvent(account[a], k, "freeze"))
  <2>1. k \in Command
    BY FormatType, SagaAssumption DEF Command
  <2>2. new \in AccountState
    BY <1>1, <2>1, AppliedCommandType DEF WorldType
  <2>3. account' = [account EXCEPT ![a] = new]
    BY <1>4 DEF FreezeAccount
  <2> HIDE DEF k, new
  <2>4. WorldType'
    BY <1>1, <1>4, <2>2, <2>3 DEF FreezeAccount, WorldType
  <2>5. LocalType' /\ BudgetType'
    BY <1>1, <1>4 DEF FreezeAccount, LocalType, BudgetType, budget
  <2>6. QED
    BY <2>4, <2>5 DEF TypeOK, WorldType, LocalType, BudgetType
<1>5. ASSUME NEW c \in Coordinators, Step(c) PROVE TypeOK'
  <2>1. WorldType' /\ LocalType'
    BY <1>5, StepType
  <2>2. UNCHANGED budget
    BY <1>5 DEF Step, Poll, Load, Reload, Start, Reserve, Handler, MarkCompleted,
                MarkFailed, Advance, FailTransfer
  <2>3. BudgetType'
    BY <1>1, <2>2 DEF BudgetType, budget
  <2>4. QED
    BY <2>1, <2>3 DEF TypeOK, WorldType, LocalType, BudgetType
<1>6. ASSUME NEW c \in Coordinators, CallFails(c) PROVE TypeOK'
  <2>1. WorldType'
    BY <1>1, <1>6 DEF CallFails, world, WorldType
  <2>2. BudgetType'
    BY <1>1, <1>6, SagaAssumption DEF CallFails, Fault, BudgetType
  <2>3. CASE pc[c] = "next"
    <3>1. /\ pc' = [pc EXCEPT ![c] = "idle"]
          /\ batch' = [batch EXCEPT ![c] = {}]
          /\ UNCHANGED <<job, leg, err>>
      BY <1>6, <2>3 DEF CallFails
    <3>2. LocalType'
      BY <1>1, <2>3, <3>1 DEF LocalType, PCs
    <3>3. QED
      BY <2>1, <2>2, <3>2 DEF TypeOK, WorldType, LocalType, BudgetType
  <2>4. CASE Leave(c)
    BY <1>1, <2>1, <2>2, <2>4, LeaveType DEF TypeOK, WorldType, LocalType, BudgetType
  <2>5. CASE pc[c] \in {"handler", "complete"} /\ Catch(c, "transient")
    <3>1. LocalType'
      BY <1>1, <2>5, CatchType DEF Busy, Errors
    <3>2. QED
      BY <2>1, <2>2, <3>1 DEF TypeOK, WorldType, LocalType, BudgetType
  <2>6. QED
    BY <1>6, <2>3, <2>4, <2>5 DEF CallFails
<1>7. ASSUME NEW c \in Coordinators, ReplyLost(c) PROVE TypeOK'
  <2>1. BudgetType'
    BY <1>1, <1>7, SagaAssumption DEF ReplyLost, Fault, BudgetType
  <2>2. Busy(c) /\ job[c] \in Transfers /\ leg[c] \in Legs /\ Job(c) \in TransferState
    BY <1>1, <1>7, BusyJob DEF ReplyLost, Busy, Job, WorldType
  <2>3. LocalType'
    BY <1>1, <1>7, <2>2, LeaveType, CatchType DEF ReplyLost, Errors
  <2>4. transfer' \in [Transfers -> TransferState]
    <3>1. Started(Job(c), leg[c]) \in TransferState
      BY <2>2, TransferWhenTypes DEF Stages
    <3>2. QED
      BY <1>1, <1>7, <2>2, <3>1, SetJobType DEF ReplyLost, WorldType
  <2>5. registry' \in [Transfers -> [Legs -> RegistryStatus]]
    BY <1>1, <1>7, <2>2, SetRecordType, FailureStatusType
    DEF ReplyLost, WorldType, RegistryStatus
  <2>6. account' \in [Accounts -> AccountState] /\ applied' \in [Transfers -> [Legs -> Nat]]
    BY <1>1, <1>7, <2>2, MoveMoneyType DEF ReplyLost, WorldType
  <2>7. WorldType'
    BY <1>1, <1>7, <2>4, <2>5, <2>6 DEF ReplyLost, WorldType
  <2>8. QED
    BY <2>1, <2>3, <2>7 DEF TypeOK, WorldType, LocalType, BudgetType
<1>8. ASSUME NEW c \in Coordinators, Crash(c) PROVE TypeOK'
  <2>1. WorldType'
    BY <1>1, <1>8 DEF Crash, world, WorldType
  <2>2. LocalType'
    BY <1>1, <1>8 DEF Crash, LocalType, PCs, Legs, Errors
  <2>3. BudgetType'
    BY <1>1, <1>8, SagaAssumption DEF Crash, BudgetType
  <2>4. QED
    BY <2>1, <2>2, <2>3 DEF TypeOK, WorldType, LocalType, BudgetType
<1>9. CASE UNCHANGED vars
  BY <1>9 DEF vars, TypeOK
<1>10. ASSUME NEW t \in Transfers, LoseEvent(t) \/ RebuildTransfer(t) PROVE TypeOK'
  <2>1. transfer[t].status \in TransferStatus \cup {"NONE"}
    BY <1>1 DEF WorldType, TransferState
  <2>2. WorldType'
    BY <1>1, <1>10, <2>1 DEF LoseEvent, RebuildTransfer, WorldType
  <2>3. LocalType' /\ BudgetType'
    BY <1>1, <1>10, SagaAssumption DEF LoseEvent, RebuildTransfer, Fault, LocalType, BudgetType
  <2>4. QED
    BY <2>2, <2>3 DEF TypeOK, WorldType, LocalType, BudgetType
<1>11. QED
  BY <1>2, <1>3, <1>4, <1>5, <1>6, <1>7, <1>8, <1>9, <1>10 DEF Next

\* Type correctness: no step of the saga leaves the types, and a coordinator has
\* a transfer in hand exactly while it is inside processTransfer.
THEOREM TypeCorrect == Spec => []TypeOK
<1>1. Init => TypeOK
  BY InitType
<1>2. TypeOK /\ [Next]_vars => TypeOK'
  BY NextType
<1>3. QED
  BY <1>1, <1>2, PTL DEF Spec

-----------------------------------------------------------------------------
(* The inductive invariant *)

LEMMA InitIInv == Init => IInv
<1> SUFFICES ASSUME Init PROVE IInv
  OBVIOUS
<1>1. TypeOK
  BY InitType
<1>2. LegOwned
  BY DEF Init, LegOwned, LegOwnedAt, Owner, At
<1>3. StatusKnows
  BY DEF Init, StatusKnows, StatusKnowsOf, NewTransfer, DebitDone, CreditRefused, Legs
<1>4. JobReached
  BY DEF Init, JobReached, JobReachedBy
<1>5. QED
  BY <1>1, <1>2, <1>3, <1>4 DEF IInv

\* Every coordinator but c stays where it is.
Others(c) ==
    \A d \in Coordinators : d # c =>
        pc'[d] = pc[d] /\ job'[d] = job[d] /\ leg'[d] = leg[d] /\ err'[d] = err[d]

\* Where a coordinator claims nothing about the leg it has in hand.
Unclaimed == {"idle", "next", "reload", "start", "reserve"}

\* What the invariant lets a transfer's state do: reach further, never back.
Progress(old, new) ==
    /\ new.status # "NONE"
    /\ new.status = "INITIATED" => old.status \in {"NONE", "INITIATED"}
    /\ DebitDone(old) => DebitDone(new)
    /\ DebitDone(old) /\ new.status = "DEBITED" => old.status = "DEBITED"
    /\ CreditRefused(old) => CreditRefused(new)
    /\ CreditRefused(old) /\ new.status = "FAILED" => old.status = "FAILED"

\* Frame: what a step must leave alone for each part of the invariant to survive.
LEMMA LegOwnedFrame ==
    ASSUME NEW c \in Coordinators, Others(c),
           NEW t \in Transfers, NEW l \in Legs, LegOwnedAt(t, l),
           registry'[t][l] = registry[t][l], applied'[t][l] = applied[t][l],
           pc'[c] \in Unclaimed \/ job'[c] # t \/ leg'[c] # l
    PROVE  LegOwnedAt(t, l)'
BY DEF LegOwnedAt, Owner, At, Others, Unclaimed

LEMMA StatusKnowsFrame ==
    ASSUME NEW t \in Transfers, StatusKnowsOf(t), transfer'[t] = transfer[t],
           registry'[t] = registry[t], applied'[t] = applied[t]
    PROVE  StatusKnowsOf(t)'
BY DEF StatusKnowsOf, DebitDone, CreditRefused

LEMMA JobReachedFrame ==
    ASSUME NEW d \in Coordinators, JobReachedBy(d),
           pc'[d] = pc[d], job'[d] = job[d], leg'[d] = leg[d],
           job[d] # NoTransfer =>
              \/ transfer'[job[d]] = transfer[job[d]]
              \/ Progress(transfer[job[d]], transfer'[job[d]])
    PROVE  JobReachedBy(d)'
BY DEF JobReachedBy, Progress, DebitDone, CreditRefused

\* Leave, Goto and Catch concern one coordinator only.
LEMMA LocalMoves ==
    ASSUME LocalType, NEW c \in Coordinators
    PROVE  /\ Leave(c) => Others(c) /\ job'[c] = NoTransfer /\ pc'[c] \in {"idle", "next"}
           /\ \A label : Goto(c, label) =>
                 Others(c) /\ pc'[c] = label /\ job'[c] = job[c] /\ leg'[c] = leg[c]
           /\ \A e : Catch(c, e) =>
                 /\ Others(c) /\ pc'[c] = "markFailed" /\ err'[c] = e
                 /\ job'[c] = job[c] /\ leg'[c] = leg[c]
BY DEF LocalType, Others, Leave, Goto, Catch

-----------------------------------------------------------------------------
(* Steps that write nothing but the coordinator's own state *)

LEMMA LocalIInv ==
    ASSUME IInv, NEW c \in Coordinators, Others(c), UNCHANGED <<registry, applied, transfer>>,
           pc'[c] \in Unclaimed, JobReachedBy(c)'
    PROVE  LegOwned' /\ StatusKnows' /\ JobReached'
<1>1. LegOwned'
  BY LegOwnedFrame DEF IInv, LegOwned
<1>2. StatusKnows'
  BY StatusKnowsFrame DEF IInv, StatusKnows
<1>3. ASSUME NEW d \in Coordinators PROVE JobReachedBy(d)'
  <2>1. CASE d = c
    BY <2>1
  <2>2. CASE d # c
    BY <2>2, JobReachedFrame DEF IInv, JobReached, Others
  <2>3. QED
    BY <2>1, <2>2
<1>4. QED
  BY <1>1, <1>2, <1>3 DEF JobReached

LEMMA LeaveIInv ==
    ASSUME IInv, NEW c \in Coordinators, Leave(c), UNCHANGED <<registry, applied, transfer>>
    PROVE  LegOwned' /\ StatusKnows' /\ JobReached'
<1>1. Others(c) /\ job'[c] = NoTransfer /\ pc'[c] \in {"idle", "next"}
  BY LocalMoves, TypeParts DEF IInv
<1>2. JobReachedBy(c)'
  BY <1>1 DEF JobReachedBy
<1>3. QED
  BY <1>1, <1>2, LocalIInv DEF Unclaimed

\* processTransfer takes a leg the transfer it just loaded has reached.
LEMMA LoadIInv ==
    ASSUME IInv, NEW c \in Coordinators, Load(c)
    PROVE  LegOwned' /\ StatusKnows' /\ JobReached'
<1>1. LocalType /\ WorldType
  BY TypeParts DEF IInv
<1>2. PICK t \in batch[c] : ProcessTransfer(c, t)
  BY DEF Load
<1>3. t \in Transfers /\ job[c] = NoTransfer
  BY <1>1 DEF LocalType, Load
<1>4. Others(c) /\ UNCHANGED <<registry, applied, transfer>>
  BY <1>1, <1>2 DEF Others, Load, ProcessTransfer, LocalType, world
<1>5. pc'[c] \in {"idle", "next", "reload"}
  BY <1>1, <1>2 DEF ProcessTransfer, LocalType
<1>6. JobReachedBy(c)'
  <2>1. CASE LegFor(transfer[t]) = "none"
    <3>1. job'[c] = NoTransfer
      BY <1>2, <1>3, <2>1 DEF ProcessTransfer
    <3>2. QED
      BY <3>1 DEF JobReachedBy
  <2>2. CASE LegFor(transfer[t]) # "none"
    <3>1. job'[c] = t /\ leg'[c] = LegFor(transfer[t]) /\ pc'[c] = "reload"
      BY <1>1, <1>2, <2>2 DEF ProcessTransfer, LocalType
    <3>2. StatusKnowsOf(t)
      BY <1>3 DEF IInv, StatusKnows
    <3>3. transfer'[t] = transfer[t]
      BY <1>4
    <3>4. QED
      BY <3>1, <3>2, <3>3, <2>2 DEF JobReachedBy, LegFor, DebitDone, CreditRefused, StatusKnowsOf
  <2>3. QED
    BY <2>1, <2>2
<1>7. QED
  BY <1>4, <1>5, <1>6, LocalIInv DEF Unclaimed

\* The Start command is skipped only for a transfer that is past the leg's start.
LEMMA ReloadIInv ==
    ASSUME IInv, NEW c \in Coordinators, Reload(c)
    PROVE  LegOwned' /\ StatusKnows' /\ JobReached'
<1> DEFINE t == job[c]
           label == IF NeedsStart(transfer[t].status, leg[c]) THEN "start" ELSE "reserve"
<1>1. LocalType
  BY TypeParts DEF IInv
<1>2. t \in Transfers /\ leg[c] \in Legs /\ pc[c] = "reload"
  BY <1>1, BusyJob DEF Reload, Busy
<1>3. Goto(c, label) /\ UNCHANGED <<registry, applied, transfer>>
  BY DEF Reload, world, Job
<1>4. Others(c) /\ pc'[c] = label /\ job'[c] = t /\ leg'[c] = leg[c] /\ transfer'[t] = transfer[t]
  BY <1>1, <1>3, LocalMoves
<1>5. JobReachedBy(c)
  BY DEF IInv, JobReached
<1>6. JobReachedBy(c)'
  BY <1>2, <1>4, <1>5, SagaAssumption DEF JobReachedBy, NeedsStart, Legs, DebitDone, CreditRefused
<1>7. pc'[c] \in Unclaimed
  BY <1>4 DEF Unclaimed
<1>8. QED
  BY <1>3, <1>4, <1>6, <1>7, LocalIInv

-----------------------------------------------------------------------------
(* Steps that append to a transfer stream *)

LEMMA TransferIInv ==
    ASSUME IInv, NEW c \in Coordinators, Others(c), UNCHANGED <<registry, applied>>,
           NEW t \in Transfers, NEW new, transfer' = [transfer EXCEPT ![t] = new],
           Progress(transfer[t], new), pc'[c] \in Unclaimed,
           StatusKnowsOf(t)', JobReachedBy(c)'
    PROVE  LegOwned' /\ StatusKnows' /\ JobReached'
<1>1. transfer'[t] = new /\ \A u \in Transfers : u # t => transfer'[u] = transfer[u]
  BY DEF IInv, TypeOK
<1>2. LegOwned'
  BY LegOwnedFrame DEF IInv, LegOwned
<1>3. ASSUME NEW u \in Transfers PROVE StatusKnowsOf(u)'
  <2>1. CASE u = t
    BY <2>1
  <2>2. CASE u # t
    BY <1>1, <2>2, StatusKnowsFrame DEF IInv, StatusKnows
  <2>3. QED
    BY <2>1, <2>2
<1>4. ASSUME NEW d \in Coordinators PROVE JobReachedBy(d)'
  <2>1. CASE d = c
    BY <2>1
  <2>2. CASE d # c
    <3>1. JobReachedBy(d) /\ job[d] \in Transfers \cup {NoTransfer}
      BY DEF IInv, JobReached, TypeOK
    <3>2. job[d] # NoTransfer =>
            transfer'[job[d]] = transfer[job[d]] \/ Progress(transfer[job[d]], transfer'[job[d]])
      BY <1>1, <3>1
    <3>3. pc'[d] = pc[d] /\ job'[d] = job[d] /\ leg'[d] = leg[d]
      BY <2>2 DEF Others
    <3>4. QED
      BY <3>1, <3>2, <3>3, JobReachedFrame
  <2>3. QED
    BY <2>1, <2>2
<1>5. QED
  BY <1>2, <1>3, <1>4 DEF StatusKnows, JobReached

\* The events of the lifecycle, as far as the invariant looks at them.
LEMMA StartedState ==
    ASSUME NEW tr \in TransferState, NEW l \in Legs, CanStart(tr, l)
    PROVE  /\ l = "debit" => Started(tr, l).status = "DEBIT_IN_PROGRESS"
           /\ l = "credit" => Started(tr, l).status = "CREDIT_IN_PROGRESS"
           /\ l = "compensation" => Started(tr, l).status = "COMPENSATION_IN_PROGRESS"
           /\ l = "compensation" => Started(tr, l).failureStage = "CREDIT"
BY DEF CanStart, Started, TransferWhen, TransferState, Legs

LEMMA AdvancedState ==
    ASSUME NEW tr \in TransferState, NEW l \in Legs
    PROVE  /\ l = "debit" => Advanced(tr, l).status = "DEBITED"
           /\ l = "credit" => Advanced(tr, l).status = "COMPLETED"
           /\ l = "compensation" => Advanced(tr, l).status = "COMPENSATED"
           /\ Advanced(tr, l).failureStage = tr.failureStage
BY DEF Advanced, TransferWhen, TransferState, Legs

LEMMA FailedState ==
    ASSUME NEW tr, NEW stage
    PROVE  Failed(tr, stage).status = "FAILED" /\ Failed(tr, stage).failureStage = stage
BY DEF Failed, TransferWhen

LEMMA StartIInv ==
    ASSUME IInv, NEW c \in Coordinators, pc[c] = "start", CanStart(Job(c), leg[c]),
           SetJob(c, Started(Job(c), leg[c])), UNCHANGED <<registry, applied>>,
           Goto(c, "reserve") \/ Leave(c)
    PROVE  LegOwned' /\ StatusKnows' /\ JobReached'
<1>0. LocalType /\ WorldType
  BY TypeParts DEF IInv
<1>1. PICK t \in Transfers, l \in Legs : t = job[c] /\ l = leg[c]
  BY <1>0, BusyJob DEF Busy
<1> DEFINE old == transfer[t]
           new == Started(old, l)
<1>2. old \in TransferState /\ transfer' = [transfer EXCEPT ![t] = new] /\ transfer'[t] = new
  BY <1>0, <1>1 DEF SetJob, Job, WorldType
<1>3. /\ Others(c) /\ pc'[c] \in {"idle", "next", "reserve"}
      /\ job'[c] = NoTransfer \/ (job'[c] = t /\ leg'[c] = l)
  BY <1>0, <1>1, LocalMoves
<1>4. JobReachedBy(c) /\ StatusKnowsOf(t) /\ CanStart(old, l)
  BY <1>1 DEF IInv, JobReached, StatusKnows, Job
<1>5. /\ l = "debit" => new.status = "DEBIT_IN_PROGRESS"
      /\ l = "credit" => new.status = "CREDIT_IN_PROGRESS"
      /\ l = "compensation" => new.status = "COMPENSATION_IN_PROGRESS"
      /\ l = "compensation" => new.failureStage = "CREDIT"
  BY <1>2, <1>4, StartedState
<1> HIDE DEF new
<1>6. Progress(old, new)
  BY <1>4, <1>5 DEF Progress, DebitDone, CreditRefused, CanStart, Legs
<1>7. StatusKnowsOf(t)'
  BY <1>2, <1>4, <1>5 DEF StatusKnowsOf, DebitDone, CreditRefused, CanStart, Legs
<1>8. JobReachedBy(c)'
  BY <1>2, <1>3, <1>5 DEF JobReachedBy, DebitDone, CreditRefused, Legs
<1>9. QED
  BY <1>2, <1>3, <1>6, <1>7, <1>8, TransferIInv DEF Unclaimed

\* A coordinator about to advance knows that the leg's money moved.
LEMMA AdvanceIInv ==
    ASSUME IInv, NEW c \in Coordinators, Advance(c), CanAdvance(Job(c), leg[c])
    PROVE  LegOwned' /\ StatusKnows' /\ JobReached'
<1>0. LocalType /\ WorldType
  BY TypeParts DEF IInv
<1>1. PICK t \in Transfers, l \in Legs : t = job[c] /\ l = leg[c]
  BY <1>0, BusyJob DEF Busy, Advance
<1> DEFINE old == transfer[t]
           new == Advanced(old, l)
<1>2. /\ old \in TransferState
      /\ transfer' = [transfer EXCEPT ![t] = new]
      /\ transfer'[t] = new
      /\ UNCHANGED <<registry, applied>>
  BY <1>0, <1>1 DEF Advance, SetJob, Job, WorldType
<1>3. Others(c) /\ pc'[c] \in {"idle", "next"} /\ job'[c] = NoTransfer
  BY <1>0, LocalMoves DEF Advance
<1>4. JobReachedBy(c) /\ StatusKnowsOf(t) /\ CanAdvance(old, l)
  BY <1>1 DEF IInv, JobReached, StatusKnows, Job
<1>5. applied[t][l] = 1
  BY <1>1 DEF IInv, LegOwned, LegOwnedAt, At, Advance
<1>6. /\ l = "debit" => new.status = "DEBITED"
      /\ l = "credit" => new.status = "COMPLETED"
      /\ l = "compensation" => new.status = "COMPENSATED"
      /\ new.failureStage = old.failureStage
  BY <1>2, AdvancedState
<1> HIDE DEF new
<1>7. Progress(old, new)
  BY <1>4, <1>6 DEF Progress, DebitDone, CreditRefused, CanAdvance, Legs
<1>8. StatusKnowsOf(t)'
  BY <1>2, <1>4, <1>5, <1>6 DEF StatusKnowsOf, DebitDone, CreditRefused, CanAdvance, Legs
<1>9. JobReachedBy(c)'
  BY <1>3 DEF JobReachedBy
<1>10. QED
  BY <1>2, <1>3, <1>7, <1>8, <1>9, TransferIInv DEF Unclaimed

\* fail() does not compare the stage with the status.  It need not: a coordinator
\* whose leg was refused holds the only record of it, so the transfer still waits
\* for that leg.
LEMMA FailIInv ==
    ASSUME IInv, NEW c \in Coordinators, FailTransfer(c), CanFail(Job(c))
    PROVE  LegOwned' /\ StatusKnows' /\ JobReached'
<1>0. LocalType /\ WorldType
  BY TypeParts DEF IInv
<1>1. PICK t \in Transfers, l \in Legs : t = job[c] /\ l = leg[c]
  BY <1>0, BusyJob DEF Busy, FailTransfer
<1> DEFINE old == transfer[t]
           stage == IF l = "debit" THEN "DEBIT" ELSE "CREDIT"
           new == Failed(old, stage)
<1>2. /\ transfer' = [transfer EXCEPT ![t] = new]
      /\ transfer'[t] = new
      /\ UNCHANGED <<registry, applied>>
  BY <1>0, <1>1 DEF FailTransfer, SetJob, Job, WorldType
<1>3. Others(c) /\ pc'[c] \in {"idle", "next"} /\ job'[c] = NoTransfer
  BY <1>0, LocalMoves DEF FailTransfer
<1>4. JobReachedBy(c) /\ StatusKnowsOf(t) /\ CanFail(old)
  BY <1>1 DEF IInv, JobReached, StatusKnows, Job
<1>5. l # "compensation" /\ registry[t][l] = "FAILED_TERMINAL" /\ applied[t][l] = 0
  BY <1>1 DEF IInv, LegOwned, LegOwnedAt, At, FailTransfer
<1>6. old.status = IF l = "debit" THEN "DEBIT_IN_PROGRESS" ELSE "CREDIT_IN_PROGRESS"
  BY <1>4, <1>5 DEF StatusKnowsOf, DebitDone, CreditRefused, CanFail, Legs
<1>7. new.status = "FAILED" /\ new.failureStage = stage
  BY FailedState
<1> HIDE DEF new
<1>8. Progress(old, new)
  BY <1>5, <1>6, <1>7 DEF Progress, DebitDone, CreditRefused, Legs
<1>9. StatusKnowsOf(t)'
  BY <1>2, <1>4, <1>5, <1>6, <1>7 DEF StatusKnowsOf, DebitDone, CreditRefused, Legs
<1>10. JobReachedBy(c)'
  BY <1>3 DEF JobReachedBy
<1>11. QED
  BY <1>2, <1>3, <1>8, <1>9, <1>10, TransferIInv DEF Unclaimed

-----------------------------------------------------------------------------
(* Steps that write a leg's registry record or move its money *)

\* A record that has not failed may be written, and its money moved, without
\* contradicting the transfer's status.
LEMMA StatusKnowsWrite ==
    ASSUME NEW c \in Coordinators, NEW t \in Transfers, NEW l \in Legs,
           t = job[c], l = leg[c], t # NoTransfer, pc[c] \notin {"reload", "start"},
           LegOwnedAt(t, l), StatusKnowsOf(t), JobReachedBy(c),
           registry[t][l] # "FAILED_TERMINAL", transfer'[t] = transfer[t],
           \A k \in Legs : k # l =>
              registry'[t][k] = registry[t][k] /\ applied'[t][k] = applied[t][k],
           applied'[t][l] \in {applied[t][l], 1}
    PROVE  StatusKnowsOf(t)'
<1>1. CASE l = "debit"
  BY <1>1 DEF LegOwnedAt, StatusKnowsOf, JobReachedBy, DebitDone, CreditRefused, Legs
<1>2. CASE l = "credit"
  BY <1>2 DEF LegOwnedAt, StatusKnowsOf, JobReachedBy, DebitDone, CreditRefused, Legs
<1>3. CASE l = "compensation"
  BY <1>3 DEF LegOwnedAt, StatusKnowsOf, JobReachedBy, DebitDone, CreditRefused, Legs
<1>4. QED
  BY <1>1, <1>2, <1>3 DEF Legs

LEMMA LegIInv ==
    ASSUME IInv, NEW c \in Coordinators, NEW t \in Transfers, NEW l \in Legs,
           t = job[c], l = leg[c],
           pc[c] \in {"reserve", "handler", "complete", "markFailed"},
           registry[t][l] # "FAILED_TERMINAL", UNCHANGED transfer, Others(c),
           \A u \in Transfers, k \in Legs : u # t \/ k # l =>
              registry'[u][k] = registry[u][k] /\ applied'[u][k] = applied[u][k],
           applied'[t][l] \in {applied[t][l], 1},
           \/ job'[c] = NoTransfer
           \/ job'[c] = t /\ leg'[c] = l /\ pc'[c] \notin {"reload", "start"},
           LegOwnedAt(t, l)', TypeOK'
    PROVE  LegOwned' /\ StatusKnows' /\ JobReached'
<1>1. ASSUME NEW u \in Transfers, NEW k \in Legs PROVE LegOwnedAt(u, k)'
  <2>1. CASE u = t /\ k = l
    BY <2>1
  <2>2. CASE u # t \/ k # l
    <3>1. registry'[u][k] = registry[u][k] /\ applied'[u][k] = applied[u][k]
      BY <2>2
    <3>2. pc'[c] \in Unclaimed \/ job'[c] # u \/ leg'[c] # k
      BY <2>2, SagaAssumption
    <3>3. QED
      BY <3>1, <3>2, LegOwnedFrame DEF IInv, LegOwned
  <2>3. QED
    BY <2>1, <2>2
<1>2. ASSUME NEW u \in Transfers PROVE StatusKnowsOf(u)'
  <2>1. CASE u = t
    <3>1. LegOwnedAt(t, l) /\ StatusKnowsOf(t) /\ JobReachedBy(c) /\ t # NoTransfer
      BY SagaAssumption DEF IInv, LegOwned, StatusKnows, JobReached
    <3>2. QED
      BY <2>1, <3>1, StatusKnowsWrite
  <2>2. CASE u # t
    <3>1. registry'[u] = registry[u]
      <4>1. registry[u] \in [Legs -> RegistryStatus] /\ registry'[u] \in [Legs -> RegistryStatus]
        BY DEF IInv, TypeOK
      <4>2. QED
        BY <2>2, <4>1
    <3>2. applied'[u] = applied[u]
      <4>1. applied[u] \in [Legs -> Nat] /\ applied'[u] \in [Legs -> Nat]
        BY DEF IInv, TypeOK
      <4>2. QED
        BY <2>2, <4>1
    <3>3. QED
      BY <3>1, <3>2, StatusKnowsFrame DEF IInv, StatusKnows
  <2>3. QED
    BY <2>1, <2>2
<1>3. ASSUME NEW d \in Coordinators PROVE JobReachedBy(d)'
  <2>1. CASE d # c
    BY <2>1, JobReachedFrame DEF IInv, JobReached, Others
  <2>2. CASE d = c /\ job'[c] = NoTransfer
    BY <2>2 DEF JobReachedBy
  <2>3. CASE d = c /\ job'[c] = t /\ leg'[c] = l /\ pc'[c] \notin {"reload", "start"}
    BY <2>3 DEF IInv, JobReached, JobReachedBy
  <2>4. QED
    BY <2>1, <2>2, <2>3
<1>4. QED
  BY <1>1, <1>2, <1>3 DEF LegOwned, StatusKnows, JobReached

\* What writing the record of the leg in hand changes and leaves alone.
LEMMA SetRecordPointwise ==
    ASSUME WorldType, NEW c \in Coordinators, NEW t \in Transfers, NEW l \in Legs,
           t = job[c], l = leg[c], NEW status, SetRecord(c, status)
    PROVE  /\ registry'[t][l] = status
           /\ \A u \in Transfers, k \in Legs : u # t \/ k # l => registry'[u][k] = registry[u][k]
BY DEF SetRecord, WorldType

LEMMA MoveMoneyPointwise ==
    ASSUME WorldType, NEW c \in Coordinators, NEW t \in Transfers, NEW l \in Legs,
           t = job[c], l = leg[c], MoveMoney(c)
    PROVE  /\ applied'[t][l] = applied[t][l] + 1
           /\ \A u \in Transfers, k \in Legs : u # t \/ k # l => applied'[u][k] = applied[u][k]
<1>1. applied' = [applied EXCEPT ![t][l] = applied[t][l] + 1]
  BY DEF MoveMoney
<1>2. QED
  BY <1>1 DEF WorldType

\* Inserting the record makes its coordinator the only owner the leg ever had.
LEMMA ReserveIInv ==
    ASSUME IInv, TypeOK', NEW c \in Coordinators, pc[c] = "reserve",
           Record(c) \in {"NONE", "FAILED_RETRYABLE"}, SetRecord(c, "PENDING"),
           UNCHANGED <<transfer, applied>>, Goto(c, "handler") \/ Leave(c)
    PROVE  LegOwned' /\ StatusKnows' /\ JobReached'
<1>0. LocalType /\ WorldType
  BY TypeParts DEF IInv
<1>1. PICK t \in Transfers, l \in Legs : t = job[c] /\ l = leg[c]
  BY <1>0, BusyJob DEF Busy
<1>2. LegOwnedAt(t, l) /\ registry[t][l] = "NONE"
  BY <1>1 DEF IInv, LegOwned, LegOwnedAt, Record
<1>3. /\ registry'[t][l] = "PENDING"
      /\ \A u \in Transfers, k \in Legs : u # t \/ k # l => registry'[u][k] = registry[u][k]
  BY <1>0, <1>1, SetRecordPointwise
<1>4. /\ Others(c)
      /\ \/ job'[c] = NoTransfer /\ pc'[c] \in {"idle", "next"}
         \/ job'[c] = t /\ leg'[c] = l /\ pc'[c] = "handler"
  BY <1>0, <1>1, LocalMoves
<1>5. LegOwnedAt(t, l)'
  BY <1>2, <1>3, <1>4 DEF LegOwnedAt, Owner, At, Others
<1>6. QED
  BY <1>1, <1>2, <1>3, <1>4, <1>5, LegIInv

\* A completed record is answered without running the handler again.
LEMMA AnsweredIInv ==
    ASSUME IInv, TypeOK', NEW c \in Coordinators, pc[c] = "reserve",
           Record(c) = "COMPLETED", UNCHANGED <<transfer, registry, applied>>,
           Goto(c, "advance")
    PROVE  LegOwned' /\ StatusKnows' /\ JobReached'
<1>0. LocalType /\ WorldType
  BY TypeParts DEF IInv
<1>1. PICK t \in Transfers, l \in Legs : t = job[c] /\ l = leg[c]
  BY <1>0, BusyJob DEF Busy
<1>2. LegOwnedAt(t, l) /\ registry[t][l] = "COMPLETED"
  BY <1>1 DEF IInv, LegOwned, Record
<1>3. Others(c) /\ job'[c] = t /\ leg'[c] = l /\ pc'[c] = "advance"
  BY <1>0, <1>1, LocalMoves
<1>4. LegOwnedAt(t, l)'
  BY <1>2, <1>3 DEF LegOwnedAt, Owner, At, Others
<1>5. QED
  BY <1>1, <1>2, <1>3, <1>4, LegIInv

\* The account command commits: its owner is the only one who could have run it.
LEMMA MoveIInv ==
    ASSUME IInv, TypeOK', NEW c \in Coordinators, pc[c] = "handler", MoveMoney(c),
           UNCHANGED <<transfer, registry>>, Goto(c, "complete") \/ Catch(c, "transient")
    PROVE  LegOwned' /\ StatusKnows' /\ JobReached'
<1>0. LocalType /\ WorldType
  BY TypeParts DEF IInv
<1>1. PICK t \in Transfers, l \in Legs : t = job[c] /\ l = leg[c]
  BY <1>0, BusyJob DEF Busy
<1>2. LegOwnedAt(t, l) /\ registry[t][l] = "PENDING" /\ applied[t][l] = 0
  BY <1>1 DEF IInv, LegOwned, LegOwnedAt, Owner, At
<1>3. /\ applied'[t][l] = 1
      /\ \A u \in Transfers, k \in Legs : u # t \/ k # l => applied'[u][k] = applied[u][k]
  BY <1>0, <1>1, <1>2, MoveMoneyPointwise
<1>4. /\ Others(c) /\ job'[c] = t /\ leg'[c] = l
      /\ pc'[c] = "complete" \/ (pc'[c] = "markFailed" /\ err'[c] = "transient")
  BY <1>0, <1>1, LocalMoves
<1>5. ~IsTerminalDomainError("transient")
  BY DEF IsTerminalDomainError
<1>6. LegOwnedAt(t, l)'
  BY <1>1, <1>2, <1>3, <1>4, <1>5 DEF LegOwnedAt, Owner, At, Others
<1>7. QED
  BY <1>1, <1>2, <1>3, <1>4, <1>6, LegIInv

\* The handler throws, or the call that marks the record completed does.
LEMMA CatchIInv ==
    ASSUME IInv, TypeOK', NEW c \in Coordinators, NEW e,
           pc[c] = "handler" \/ (pc[c] = "complete" /\ e = "transient"),
           UNCHANGED <<transfer, registry, applied>>, Catch(c, e)
    PROVE  LegOwned' /\ StatusKnows' /\ JobReached'
<1>0. LocalType /\ WorldType
  BY TypeParts DEF IInv
<1>1. PICK t \in Transfers, l \in Legs : t = job[c] /\ l = leg[c]
  BY <1>0, BusyJob DEF Busy
<1>2. LegOwnedAt(t, l) /\ Owner(c, t, l) /\ registry[t][l] # "FAILED_TERMINAL"
  BY <1>1 DEF IInv, LegOwned, LegOwnedAt, Owner, At
<1>3. Others(c) /\ job'[c] = t /\ leg'[c] = l /\ pc'[c] = "markFailed" /\ err'[c] = e
  BY <1>0, <1>1, LocalMoves
<1>4. ~IsTerminalDomainError("transient")
  BY DEF IsTerminalDomainError
<1>5. LegOwnedAt(t, l)'
  BY <1>1, <1>2, <1>3, <1>4 DEF LegOwnedAt, Owner, At, Others
<1>6. QED
  BY <1>1, <1>2, <1>3, <1>5, LegIInv

LEMMA CompleteIInv ==
    ASSUME IInv, TypeOK', NEW c \in Coordinators, pc[c] = "complete",
           SetRecord(c, "COMPLETED"), UNCHANGED <<transfer, applied>>,
           Goto(c, "advance") \/ Catch(c, "transient")
    PROVE  LegOwned' /\ StatusKnows' /\ JobReached'
<1>0. LocalType /\ WorldType
  BY TypeParts DEF IInv
<1>1. PICK t \in Transfers, l \in Legs : t = job[c] /\ l = leg[c]
  BY <1>0, BusyJob DEF Busy
<1>2. LegOwnedAt(t, l) /\ registry[t][l] # "FAILED_TERMINAL" /\ applied[t][l] = 1
  BY <1>1 DEF IInv, LegOwned, LegOwnedAt, Owner, At
<1>3. /\ registry'[t][l] = "COMPLETED"
      /\ \A u \in Transfers, k \in Legs : u # t \/ k # l => registry'[u][k] = registry[u][k]
  BY <1>0, <1>1, SetRecordPointwise
<1>4. /\ Others(c) /\ job'[c] = t /\ leg'[c] = l
      /\ pc'[c] = "advance" \/ (pc'[c] = "markFailed" /\ err'[c] = "transient")
  BY <1>0, <1>1, LocalMoves
<1>5. ~IsTerminalDomainError("transient")
  BY DEF IsTerminalDomainError
<1>6. LegOwnedAt(t, l)'
  BY <1>1, <1>2, <1>3, <1>4, <1>5 DEF LegOwnedAt, Owner, At, Others
<1>7. QED
  BY <1>1, <1>2, <1>3, <1>4, <1>6, LegIInv

\* markFailed overwrites the record without looking at it, a completed one too;
\* but only an error of the domain, before any money moved, goes on to fail.
LEMMA MarkFailedIInv ==
    ASSUME IInv, TypeOK', NEW c \in Coordinators, pc[c] = "markFailed",
           SetRecord(c, FailureStatus(c)), UNCHANGED <<transfer, applied>>,
           \/ Goto(c, "fail") /\ IsTerminalDomainError(err[c]) /\ leg[c] # "compensation"
           \/ Leave(c)
    PROVE  LegOwned' /\ StatusKnows' /\ JobReached'
<1>0. LocalType /\ WorldType
  BY TypeParts DEF IInv
<1>1. PICK t \in Transfers, l \in Legs : t = job[c] /\ l = leg[c]
  BY <1>0, BusyJob DEF Busy
<1>2. /\ LegOwnedAt(t, l) /\ registry[t][l] # "FAILED_TERMINAL"
      /\ IsTerminalDomainError(err[c]) => applied[t][l] = 0
  BY <1>1 DEF IInv, LegOwned, LegOwnedAt, Owner, At
<1>3. FailureStatus(c) = "FAILED_TERMINAL"
  BY <1>0 DEF LocalType, FailureStatus, IsRetryableError, Errors
<1>4. /\ registry'[t][l] = "FAILED_TERMINAL"
      /\ \A u \in Transfers, k \in Legs : u # t \/ k # l => registry'[u][k] = registry[u][k]
  BY <1>0, <1>1, <1>3, SetRecordPointwise
<1>5. /\ Others(c)
      /\ \/ job'[c] = NoTransfer /\ pc'[c] \in {"idle", "next"}
         \/ /\ job'[c] = t /\ leg'[c] = l /\ pc'[c] = "fail"
            /\ l # "compensation" /\ applied[t][l] = 0
  BY <1>0, <1>1, <1>2, LocalMoves
<1>6. LegOwnedAt(t, l)'
  BY <1>1, <1>2, <1>4, <1>5 DEF LegOwnedAt, Owner, At, Others
<1>7. QED
  BY <1>1, <1>2, <1>4, <1>5, <1>6, LegIInv

-----------------------------------------------------------------------------
(* Every step keeps the invariant *)

LEMMA StepIInv ==
    ASSUME IInv, TypeOK', NEW c \in Coordinators, Step(c)
    PROVE  LegOwned' /\ StatusKnows' /\ JobReached'
<1>1. CASE Poll(c)
  <2>1. /\ Others(c) /\ pc'[c] \in Unclaimed /\ job'[c] = NoTransfer
        /\ UNCHANGED <<registry, applied, transfer>>
    BY <1>1 DEF Poll, Others, Unclaimed, IInv, TypeOK, world
  <2>2. QED
    BY <2>1, LocalIInv DEF JobReachedBy
<1>2. CASE Load(c)
  BY <1>2, LoadIInv
<1>3. CASE Reload(c)
  BY <1>3, ReloadIInv
<1>4. CASE Start(c)
  BY <1>4, StartIInv, LeaveIInv DEF Start
<1>5. CASE Reserve(c)
  BY <1>5, ReserveIInv, AnsweredIInv, LeaveIInv DEF Reserve
<1>6. CASE Handler(c)
  BY <1>6, MoveIInv, CatchIInv DEF Handler
<1>7. CASE MarkCompleted(c)
  BY <1>7, CompleteIInv DEF MarkCompleted
<1>8. CASE MarkFailed(c)
  BY <1>8, MarkFailedIInv DEF MarkFailed
<1>9. CASE Advance(c)
  BY <1>9, AdvanceIInv, LeaveIInv DEF Advance
<1>10. CASE FailTransfer(c)
  BY <1>10, FailIInv, LeaveIInv DEF FailTransfer
<1>11. QED
  BY <1>1, <1>2, <1>3, <1>4, <1>5, <1>6, <1>7, <1>8, <1>9, <1>10 DEF Step

LEMMA NextIInv == IInv /\ [Next]_vars => IInv'
<1> SUFFICES ASSUME IInv, [Next]_vars PROVE IInv'
  OBVIOUS
<1>0. TypeOK'
  BY NextType DEF IInv
<1>1. ASSUME NEW t \in Transfers, Initiate(t) PROVE IInv'
  <2>1. /\ transfer' = [transfer EXCEPT ![t] = Initiated(transfer[t])]
        /\ UNCHANGED <<registry, applied, pc, job, leg, err>>
        /\ transfer[t].status = "NONE" /\ StatusKnowsOf(t)
    BY <1>1 DEF Initiate, CanInitiate, IInv, StatusKnows
  <2>2. Initiated(transfer[t]).status = "INITIATED"
    BY DEF Initiated, TransferWhen
  <2>3. /\ transfer'[t].status = "INITIATED"
        /\ \A u \in Transfers : u # t => transfer'[u] = transfer[u]
    BY <2>1, <2>2 DEF IInv, TypeOK
  <2>4. LegOwned'
    BY <2>1 DEF IInv, LegOwned, LegOwnedAt, Owner, At
  <2>5. StatusKnowsOf(t)'
    BY <2>1, <2>3 DEF StatusKnowsOf, DebitDone, CreditRefused
  <2>6. StatusKnows'
    BY <2>1, <2>3, <2>5, StatusKnowsFrame DEF IInv, StatusKnows
  <2>7. JobReached'
    BY <2>1, <2>3 DEF IInv, TypeOK, JobReached, JobReachedBy
  <2>8. QED
    BY <1>0, <2>4, <2>6, <2>7 DEF IInv
<1>2. ASSUME UNCHANGED <<transfer, registry, applied, pc, job, leg, err>> PROVE IInv'
  <2>1. LegOwned'
    BY <1>2 DEF IInv, LegOwned, LegOwnedAt, Owner, At
  <2>2. StatusKnows'
    BY <1>2, StatusKnowsFrame DEF IInv, StatusKnows
  <2>3. JobReached'
    BY <1>2, JobReachedFrame DEF IInv, JobReached
  <2>4. QED
    BY <1>0, <2>1, <2>2, <2>3 DEF IInv
<1>3. ASSUME NEW c \in Coordinators, Step(c) PROVE IInv'
  BY <1>0, <1>3, StepIInv DEF IInv
<1>4. ASSUME NEW c \in Coordinators, CallFails(c) PROVE IInv'
  <2>1. UNCHANGED <<registry, applied, transfer>>
    BY <1>4 DEF CallFails, world
  <2>2. CASE pc[c] = "next" /\ pc' = [pc EXCEPT ![c] = "idle"] /\ UNCHANGED <<job, leg, err>>
    <3>1. Others(c) /\ pc'[c] \in Unclaimed /\ job'[c] = NoTransfer
      BY <2>2 DEF Others, Unclaimed, IInv, TypeOK
    <3>2. QED
      BY <1>0, <2>1, <3>1, LocalIInv DEF IInv, JobReachedBy
  <2>3. CASE Leave(c)
    BY <1>0, <2>1, <2>3, LeaveIInv DEF IInv
  <2>4. CASE pc[c] \in {"handler", "complete"} /\ Catch(c, "transient")
    BY <1>0, <2>1, <2>4, CatchIInv DEF IInv
  <2>5. QED
    BY <1>4, <2>2, <2>3, <2>4 DEF CallFails
<1>5. ASSUME NEW c \in Coordinators, ReplyLost(c) PROVE IInv'
  BY <1>0, <1>5, StartIInv, ReserveIInv, MoveIInv, CompleteIInv, MarkFailedIInv
  DEF ReplyLost, IInv
<1>6. ASSUME NEW c \in Coordinators, Crash(c) PROVE IInv'
  <2>1. /\ Others(c) /\ pc'[c] \in Unclaimed /\ job'[c] = NoTransfer
        /\ UNCHANGED <<registry, applied, transfer>>
    BY <1>6 DEF Crash, Others, Unclaimed, IInv, TypeOK, world
  <2>2. QED
    BY <1>0, <2>1, LocalIInv DEF IInv, JobReachedBy
<1>7. QED
  BY <1>1, <1>2, <1>3, <1>4, <1>5, <1>6
  DEF Next, ProjectTransfer, LoseEvent, RebuildTransfer, FreezeAccount, vars

-----------------------------------------------------------------------------
(* The theorems *)

\* Every reachable state of the saga satisfies the inductive invariant: a leg's
\* commit belongs to the owner of its registry record, the transfer's status says
\* no more than the records do, and every coordinator is at a point its transfer's
\* stage allows (TransferCoordinatorService, TransactionRegistryService).
THEOREM Invariant == Spec => []IInv
<1>1. Init => IInv
  BY InitIInv
<1>2. IInv /\ [Next]_vars => IInv'
  BY NextIInv
<1>3. QED
  BY <1>1, <1>2, PTL DEF Spec

\* However many coordinators race for a leg, crash in it or lose a reply, its
\* account command commits at most once.
THEOREM AtMostOnce == Spec => []LegAtMostOnce
<1>1. IInv => LegAtMostOnce
  BY DEF IInv, LegOwned, LegOwnedAt, LegAtMostOnce
<1>2. QED
  BY <1>1, Invariant, PTL

\* A transfer's status is always right about where its money is.
THEOREM OutcomeCorrect == Spec => []OutcomeMatchesMoney
<1>1. ASSUME IInv, NEW t \in Transfers PROVE
        /\ StatusKnowsOf(t)
        /\ \A l \in Legs : registry[t][l] = "NONE" => applied[t][l] = 0
  BY <1>1 DEF IInv, StatusKnows, LegOwned, LegOwnedAt
<1>2. IInv => OutcomeMatchesMoney
  BY <1>1 DEF OutcomeMatchesMoney, Moved, StatusKnowsOf, DebitDone, CreditRefused, Legs
<1>3. QED
  BY <1>2, Invariant, PTL

\* No step writes a transfer that is settled: every operation of the aggregate
\* refuses the three ends of the lifecycle, however stale its caller is.
THEOREM SettledFinal == Spec => SettledIsFinal
<1> DEFINE Final == \A t \in Transfers : Settled(t) => transfer'[t] = transfer[t]
<1>1. ASSUME TypeOK, [Next]_vars PROVE [Final]_vars
  <2> SUFFICES ASSUME NEW t \in Transfers, Settled(t), Next PROVE transfer'[t] = transfer[t]
    BY <1>1
  <2>1. ASSUME NEW u \in Transfers, Initiate(u) PROVE transfer'[t] = transfer[t]
    BY <1>1, <2>1 DEF Initiate, CanInitiate, Settled, TypeOK
  <2>2. ASSUME NEW c \in Coordinators, NEW state, SetJob(c, state), job[c] # t
        PROVE  transfer'[t] = transfer[t]
    BY <1>1, <2>2 DEF SetJob, TypeOK
  <2>3. ASSUME NEW c \in Coordinators, job[c] = t, leg[c] \in Legs
        PROVE  ~CanStart(Job(c), leg[c]) /\ ~CanAdvance(Job(c), leg[c]) /\ ~CanFail(Job(c))
    BY <2>3 DEF Settled, Job, CanStart, CanAdvance, CanFail, Legs
  <2>4. \A c \in Coordinators : leg[c] \in Legs
    BY <1>1 DEF TypeOK
  <2>5. ASSUME NEW c \in Coordinators, Step(c) \/ CallFails(c) \/ ReplyLost(c) \/ Crash(c)
        PROVE  transfer'[t] = transfer[t]
    <3>1. \/ UNCHANGED transfer
          \/ CanStart(Job(c), leg[c]) /\ SetJob(c, Started(Job(c), leg[c]))
          \/ CanAdvance(Job(c), leg[c]) /\ SetJob(c, Advanced(Job(c), leg[c]))
          \/ CanFail(Job(c)) /\ \E stage \in Stages : SetJob(c, Failed(Job(c), stage))
      BY <2>5 DEF Step, Poll, Load, Reload, Start, Reserve, Handler, MarkCompleted, MarkFailed,
                  Advance, FailTransfer, CallFails, ReplyLost, Crash, world, Stages
    <3>2. QED
      BY <2>2, <2>3, <2>4, <3>1
  <2>6. QED
    BY <2>1, <2>5 DEF Next, ProjectTransfer, LoseEvent, RebuildTransfer, FreezeAccount
<1>2. QED
  BY <1>1, TypeCorrect, PTL DEF Spec, SettledIsFinal

-----------------------------------------------------------------------------
(* The saga implements MoneyTransfer                                       *)
(*                                                                         *)
(* The commit of a leg's account command is the step of MoneyTransfer, and *)
(* the invariant says which legs can have been applied before it.          *)

\* The refinement mapping, by name.
PhaseBar   == [t \in Transfers |-> Phase(transfer[t], applied[t])]
BalanceBar == [a \in Accounts |-> account[a].balance]

\* Which phase the counters of a transfer stand for.
LEMMA PhaseOf ==
    ASSUME NEW tr, NEW moved \in [Legs -> Nat]
    PROVE  /\ tr.status = "NONE" => Phase(tr, moved) = "absent"
           /\ tr.status # "NONE" /\ moved["credit"] > 0 => Phase(tr, moved) = "delivered"
           /\ tr.status # "NONE" /\ moved["credit"] = 0 /\ moved["compensation"] > 0 =>
                 Phase(tr, moved) = "returned"
           /\ tr.status # "NONE" /\ moved["credit"] = 0 /\ moved["compensation"] = 0 =>
                 Phase(tr, moved) = IF moved["debit"] > 0 THEN "inTransit"
                                    ELSE IF tr.status = "FAILED" THEN "rejected" ELSE "requested"
<1>1. moved["credit"] \in Nat /\ moved["compensation"] \in Nat /\ moved["debit"] \in Nat
  BY DEF Legs
<1>2. QED
  BY <1>1 DEF Phase

\* The phase does not depend on more of the status than this.
LEMMA SamePhase ==
    ASSUME NEW old, NEW new, NEW moved, old.status # "NONE", new.status # "NONE",
           (old.status = "FAILED" <=> new.status = "FAILED") \/ moved["debit"] > 0
    PROVE  Phase(new, moved) = Phase(old, moved)
BY DEF Phase

\* One phase changes: the step of the abstract transfer.
LEMMA MoveBar ==
    ASSUME NEW t \in Transfers, NEW to, Phase(transfer'[t], applied'[t]) = to,
           \A u \in Transfers : u # t => transfer'[u] = transfer[u] /\ applied'[u] = applied[u]
    PROVE  PhaseBar' = [PhaseBar EXCEPT ![t] = to]
<1>1. \A u \in Transfers : PhaseBar'[u] = IF u = t THEN to ELSE PhaseBar[u]
  BY DEF PhaseBar
<1>2. PhaseBar = [u \in Transfers |-> PhaseBar[u]] /\ PhaseBar' = [u \in Transfers |-> PhaseBar'[u]]
  BY DEF PhaseBar
<1>3. QED
  BY <1>1, <1>2

LEMMA SameBar ==
    ASSUME \A u \in Transfers : Phase(transfer'[u], applied'[u]) = Phase(transfer[u], applied[u])
    PROVE  UNCHANGED PhaseBar
BY DEF PhaseBar

\* What the account command of a leg does to a balance, and what it requires.
LEMMA LegMoves ==
    ASSUME NEW t \in Transfers, NEW l \in Legs, NEW acct \in AccountState, NEW id,
           DomainError(acct, LegCommand(t, l)) = "none"
    PROVE  /\ l = "debit" => acct.balance >= Amount[t]
           /\ When(acct, MakeEvent(acct, LegCommand(t, l), id)).balance =
                 IF l = "debit" THEN acct.balance - Amount[t] ELSE acct.balance + Amount[t]
<1>1. PICK m \in Nat : m = Amount[t]
  BY SagaAssumption
<1>2. PICK d \in Decimal : d = FormatMinorUnitsToMoney(m)
  BY <1>1, FormatType
<1>3. ParseMoneyToMinorUnits(d) = m /\ ParseMoneyToMinorUnits(FormatMinorUnitsToMoney(m)) = m
  BY <1>2, MoneyRoundTrip
<1>4. PICK k : k = LegCommand(t, l)
  OBVIOUS
<1>5. k.amount = d /\ k.type = IF l = "debit" THEN "withdraw" ELSE "deposit"
  BY <1>1, <1>2, <1>4 DEF LegCommand
<1>6. acct.balance \in Int
  BY DEF AccountState
<1>7. CASE l = "debit"
  <2>1. k.type = "withdraw"
    BY <1>5, <1>7
  <2>2. acct.balance >= m
    BY <1>3, <1>4, <1>5, <1>6, <2>1 DEF DomainError
  <2>3. When(acct, MakeEvent(acct, k, id)).balance = acct.balance - m
    BY <1>2, <1>3, <1>5, <2>1 DEF When, MakeEvent, EventTypeOf, AccountState
  <2>4. QED
    BY <1>1, <1>4, <1>7, <2>2, <2>3
<1>8. CASE l # "debit"
  <2>1. k.type = "deposit"
    BY <1>5, <1>8
  <2>2. When(acct, MakeEvent(acct, k, id)).balance = acct.balance + m
    BY <1>2, <1>3, <1>5, <2>1 DEF When, MakeEvent, EventTypeOf, AccountState
  <2>3. QED
    BY <1>1, <1>4, <1>8, <2>2
<1>9. QED
  BY <1>7, <1>8

LEMMA InitMoney == Init => Money!Init
<1> SUFFICES ASSUME Init PROVE Money!Init
  OBVIOUS
<1>1. PhaseBar = [t \in Transfers |-> "absent"]
  <2>1. ASSUME NEW t \in Transfers PROVE Phase(transfer[t], applied[t]) = "absent"
    <3>1. transfer[t].status = "NONE"
      BY DEF Init, NewTransfer
    <3>2. QED
      BY <3>1 DEF Phase
  <2>2. QED
    BY <2>1 DEF PhaseBar
<1>2. BalanceBar = [a \in Accounts |-> InitialBalance[a]]
  BY DEF Init, BalanceBar, OpenAccount
<1>3. QED
  BY <1>1, <1>2 DEF Money!Init, PhaseBar, BalanceBar

\* What the invariant says about the legs of a transfer that was not debited, and of
\* one that was.
LEMMA LegsBefore ==
    ASSUME IInv, NEW t \in Transfers
    PROVE  /\ applied[t] \in [Legs -> Nat]
           /\ transfer[t].status \in {"NONE", "INITIATED"} \/ applied[t]["debit"] = 0 =>
                 applied[t]["debit"] = 0 /\ applied[t]["credit"] = 0 /\ applied[t]["compensation"] = 0
           /\ DebitDone(transfer[t]) => applied[t]["debit"] = 1
           /\ CreditRefused(transfer[t]) => applied[t]["credit"] = 0 /\ DebitDone(transfer[t])
           /\ ~CreditRefused(transfer[t]) => applied[t]["compensation"] = 0
<1>1. StatusKnowsOf(t) /\ \A l \in Legs : registry[t][l] = "NONE" => applied[t][l] = 0
  BY DEF IInv, StatusKnows, LegOwned, LegOwnedAt
<1>2. applied[t] \in [Legs -> Nat]
  BY DEF IInv, TypeOK
<1>3. CreditRefused(transfer[t]) => DebitDone(transfer[t])
  BY DEF CreditRefused, DebitDone
<1>4. transfer[t].status \in {"NONE", "INITIATED"} => ~DebitDone(transfer[t]) /\ applied[t]["debit"] = 0
  BY <1>1 DEF StatusKnowsOf, DebitDone, Legs
<1>5. ~DebitDone(transfer[t]) => applied[t]["credit"] = 0
  BY <1>1 DEF StatusKnowsOf, Legs
<1>6. ~CreditRefused(transfer[t]) => applied[t]["compensation"] = 0
  BY <1>1 DEF StatusKnowsOf, Legs
<1>7. /\ DebitDone(transfer[t]) => applied[t]["debit"] = 1
      /\ CreditRefused(transfer[t]) => applied[t]["credit"] = 0
  BY <1>1 DEF StatusKnowsOf
<1>8. QED
  BY <1>2, <1>3, <1>4, <1>5, <1>6, <1>7

LEMMA InitiateMoney ==
    ASSUME IInv, NEW t \in Transfers, Initiate(t)
    PROVE  Money!Request(t)
<1>1. /\ transfer' = [transfer EXCEPT ![t] = Initiated(transfer[t])]
      /\ transfer[t].status = "NONE" /\ UNCHANGED <<applied, account>>
  BY DEF Initiate, CanInitiate
<1>2. Initiated(transfer[t]).status = "INITIATED"
  BY DEF Initiated, TransferWhen
<1>3. /\ transfer'[t].status = "INITIATED"
      /\ \A u \in Transfers : u # t => transfer'[u] = transfer[u]
  BY <1>1, <1>2 DEF IInv, TypeOK
<1>4. /\ applied[t] \in [Legs -> Nat] /\ applied[t]["debit"] = 0
      /\ applied[t]["credit"] = 0 /\ applied[t]["compensation"] = 0
  BY <1>1, LegsBefore
<1>5. Phase(transfer'[t], applied'[t]) = "requested" /\ PhaseBar[t] = "absent"
  BY <1>1, <1>3, <1>4, PhaseOf DEF PhaseBar
<1>6. PhaseBar' = [PhaseBar EXCEPT ![t] = "requested"]
  BY <1>1, <1>3, <1>5, MoveBar
<1>7. UNCHANGED BalanceBar
  BY <1>1 DEF BalanceBar
<1>8. QED
  BY <1>5, <1>6, <1>7 DEF Money!Request, Money!Move, PhaseBar, BalanceBar

\* One balance changes, by the amount of the leg.
LEMMA BalanceMoves ==
    ASSUME WorldType, NEW c \in Coordinators, NEW t \in Transfers, NEW l \in Legs,
           t = job[c], l = leg[c], LegError(c) = "none", MoveMoney(c)
    PROVE  /\ l = "debit" =>
                 /\ BalanceBar[Source[t]] >= Amount[t]
                 /\ BalanceBar' = [BalanceBar EXCEPT ![Source[t]] = BalanceBar[Source[t]] - Amount[t]]
           /\ l = "credit" =>
                 BalanceBar' = [BalanceBar EXCEPT ![Destination[t]] = BalanceBar[Destination[t]] + Amount[t]]
           /\ l = "compensation" =>
                 BalanceBar' = [BalanceBar EXCEPT ![Source[t]] = BalanceBar[Source[t]] + Amount[t]]
<1>1. PICK a \in Accounts : a = LegAccount(t, l)
  BY LegTypes
<1>2. account[a] \in AccountState /\ DomainError(account[a], LegCommand(t, l)) = "none"
  BY <1>1 DEF WorldType, LegError
<1>3. PICK new : new = When(account[a], MakeEvent(account[a], LegCommand(t, l), <<t, l>>))
  OBVIOUS
<1>4. account' = [account EXCEPT ![a] = new]
  BY <1>1, <1>3 DEF MoveMoney
<1>5. /\ l = "debit" => account[a].balance >= Amount[t]
      /\ new.balance = IF l = "debit" THEN account[a].balance - Amount[t]
                                      ELSE account[a].balance + Amount[t]
  BY <1>2, <1>3, LegMoves
<1>6. \A b \in Accounts : account'[b] = IF b = a THEN new ELSE account[b]
  BY <1>4 DEF WorldType
<1>7. BalanceBar' = [BalanceBar EXCEPT ![a] = new.balance]
  BY <1>6 DEF BalanceBar
<1>8. BalanceBar[a] = account[a].balance
  BY <1>1 DEF BalanceBar
<1>9. a = IF l = "credit" THEN Destination[t] ELSE Source[t]
  BY <1>1 DEF LegAccount
<1>10. QED
  BY <1>5, <1>7, <1>8, <1>9

\* The account command of a leg commits.
LEMMA LegMoney ==
    ASSUME IInv, NEW c \in Coordinators, pc[c] = "handler", LegError(c) = "none", MoveMoney(c),
           UNCHANGED transfer, NEW t \in Transfers, t = job[c]
    PROVE  Money!Take(t) \/ Money!Deliver(t) \/ Money!GiveBack(t)
<1>0. WorldType /\ LocalType
  BY TypeParts DEF IInv
<1>1. PICK l \in Legs : l = leg[c]
  BY <1>0 DEF LocalType
<1>2. registry[t][l] = "PENDING" /\ applied[t][l] = 0
  BY <1>1 DEF IInv, LegOwned, LegOwnedAt, Owner, At
<1>3. /\ applied'[t][l] = 1
      /\ \A u \in Transfers, k \in Legs : u # t \/ k # l => applied'[u][k] = applied[u][k]
  BY <1>0, <1>1, <1>2, MoveMoneyPointwise
<1>4. applied' \in [Transfers -> [Legs -> Nat]] /\ applied \in [Transfers -> [Legs -> Nat]]
  BY <1>0, <1>1, MoveMoneyType DEF WorldType
<1>5. \A u \in Transfers : u # t => applied'[u] = applied[u] /\ transfer'[u] = transfer[u]
  BY <1>3, <1>4
<1>6. /\ transfer[t].status # "NONE" /\ (l = "credit" => DebitDone(transfer[t]))
      /\ l = "compensation" => CreditRefused(transfer[t])
  BY <1>0, <1>1, SagaAssumption DEF IInv, JobReached, JobReachedBy
<1>7. applied[t] \in [Legs -> Nat] /\ applied'[t] \in [Legs -> Nat]
  BY <1>4
<1>8. StatusKnowsOf(t)
  BY DEF IInv, StatusKnows
<1>balances.
      /\ l = "debit" =>
            /\ BalanceBar[Source[t]] >= Amount[t]
            /\ BalanceBar' = [BalanceBar EXCEPT ![Source[t]] = BalanceBar[Source[t]] - Amount[t]]
      /\ l = "credit" =>
            BalanceBar' = [BalanceBar EXCEPT ![Destination[t]] = BalanceBar[Destination[t]] + Amount[t]]
      /\ l = "compensation" =>
            BalanceBar' = [BalanceBar EXCEPT ![Source[t]] = BalanceBar[Source[t]] + Amount[t]]
  BY <1>0, <1>1, BalanceMoves
<1>9. CASE l = "debit"
  <2>1. applied[t]["credit"] = 0 /\ applied[t]["compensation"] = 0 /\ applied[t]["debit"] = 0
    BY <1>2, <1>9, LegsBefore
  <2>2. transfer[t].status # "FAILED"
    BY <1>2, <1>8, <1>9, <2>1 DEF StatusKnowsOf, DebitDone, TransferState, IInv, TypeOK, Stages
  <2>3. PhaseBar[t] = "requested"
    BY <1>6, <1>7, <2>1, <2>2, PhaseOf DEF PhaseBar
  <2>4. applied'[t]["credit"] = 0 /\ applied'[t]["compensation"] = 0 /\ applied'[t]["debit"] = 1
    BY <1>3, <1>9, <2>1 DEF Legs
  <2>5. Phase(transfer'[t], applied'[t]) = "inTransit"
    BY <1>6, <1>7, <2>4, PhaseOf
  <2>6. PhaseBar' = [PhaseBar EXCEPT ![t] = "inTransit"]
    BY <1>5, <2>5, MoveBar
  <2>7. /\ BalanceBar[Source[t]] >= Amount[t]
        /\ BalanceBar' = [BalanceBar EXCEPT ![Source[t]] = BalanceBar[Source[t]] - Amount[t]]
    BY <1>9, <1>balances
  <2>8. QED
    BY <2>3, <2>6, <2>7 DEF Money!Take, Money!Move, PhaseBar, BalanceBar
<1>10. CASE l = "credit"
  <2>1. ~CreditRefused(transfer[t])
    BY <1>2, <1>8, <1>10 DEF StatusKnowsOf
  <2>2. applied[t]["credit"] = 0 /\ applied[t]["compensation"] = 0 /\ applied[t]["debit"] = 1
    BY <1>2, <1>6, <1>10, <2>1, LegsBefore
  <2>3. PhaseBar[t] = "inTransit"
    BY <1>6, <1>7, <2>2, PhaseOf DEF PhaseBar
  <2>4. applied'[t]["credit"] = 1
    BY <1>3, <1>10
  <2>5. Phase(transfer'[t], applied'[t]) = "delivered"
    BY <1>6, <1>7, <2>4, PhaseOf
  <2>6. PhaseBar' = [PhaseBar EXCEPT ![t] = "delivered"]
    BY <1>5, <2>5, MoveBar
  <2>7. BalanceBar' = [BalanceBar EXCEPT ![Destination[t]] = BalanceBar[Destination[t]] + Amount[t]]
    BY <1>10, <1>balances
  <2>8. QED
    BY <2>3, <2>6, <2>7 DEF Money!Deliver, Money!Move, PhaseBar, BalanceBar
<1>11. CASE l = "compensation"
  <2>1. applied[t]["credit"] = 0 /\ applied[t]["compensation"] = 0 /\ applied[t]["debit"] = 1
    BY <1>2, <1>6, <1>11, LegsBefore
  <2>2. PhaseBar[t] = "inTransit"
    BY <1>6, <1>7, <2>1, PhaseOf DEF PhaseBar
  <2>3. applied'[t]["credit"] = 0 /\ applied'[t]["compensation"] = 1
    BY <1>3, <1>11, <2>1 DEF Legs
  <2>4. Phase(transfer'[t], applied'[t]) = "returned"
    BY <1>6, <1>7, <2>3, PhaseOf
  <2>5. PhaseBar' = [PhaseBar EXCEPT ![t] = "returned"]
    BY <1>5, <2>4, MoveBar
  <2>6. BalanceBar' = [BalanceBar EXCEPT ![Source[t]] = BalanceBar[Source[t]] + Amount[t]]
    BY <1>11, <1>balances
  <2>7. QED
    BY <2>2, <2>5, <2>6 DEF Money!GiveBack, Money!Move, PhaseBar, BalanceBar
<1>12. QED
  BY <1>9, <1>10, <1>11 DEF Legs

\* FailTransfer rejects a transfer whose debit was refused.  One whose credit was
\* refused is still in transit.
LEMMA FailMoney ==
    ASSUME IInv, NEW c \in Coordinators, pc[c] = "fail", CanFail(Job(c)), NEW stage,
           SetJob(c, Failed(Job(c), stage)), UNCHANGED <<applied, account>>,
           NEW t \in Transfers, t = job[c]
    PROVE  Money!Reject(t) \/ UNCHANGED <<PhaseBar, BalanceBar>>
<1>0. WorldType /\ LocalType
  BY TypeParts DEF IInv
<1>1. PICK l \in Legs : l = leg[c]
  BY <1>0 DEF LocalType
<1>2. l # "compensation" /\ applied[t][l] = 0
  BY <1>1 DEF IInv, LegOwned, LegOwnedAt, At
<1>3. /\ transfer'[t].status = "FAILED"
      /\ \A u \in Transfers : u # t => transfer'[u] = transfer[u]
  BY <1>0, FailedState DEF SetJob, WorldType
<1>4. transfer[t].status \in {"DEBIT_IN_PROGRESS", "CREDIT_IN_PROGRESS"}
  BY DEF CanFail, Job
<1>5. applied[t] \in [Legs -> Nat]
  BY LegsBefore
<1>6. UNCHANGED BalanceBar
  BY DEF BalanceBar
<1>7. CASE l = "debit"
  <2>1. applied[t]["credit"] = 0 /\ applied[t]["compensation"] = 0 /\ applied[t]["debit"] = 0
    BY <1>2, <1>7, LegsBefore
  <2>2. PhaseBar[t] = "requested"
    BY <1>4, <1>5, <2>1, PhaseOf DEF PhaseBar
  <2>3. Phase(transfer'[t], applied'[t]) = "rejected"
    BY <1>3, <1>5, <2>1, PhaseOf
  <2>4. PhaseBar' = [PhaseBar EXCEPT ![t] = "rejected"]
    BY <1>3, <2>3, MoveBar
  <2>5. QED
    BY <1>6, <2>2, <2>4 DEF Money!Reject, Money!Move, PhaseBar, BalanceBar
<1>8. CASE l = "credit"
  <2>1. DebitDone(transfer[t])
    BY <1>0, <1>1, <1>8, SagaAssumption DEF IInv, JobReached, JobReachedBy
  <2>2. applied[t]["debit"] > 0
    BY <2>1, LegsBefore
  <2>3. Phase(transfer'[t], applied'[t]) = Phase(transfer[t], applied[t])
    BY <1>3, <1>4, <2>2, SamePhase
  <2>4. UNCHANGED PhaseBar
    BY <1>3, <2>3, SameBar
  <2>5. QED
    BY <1>6, <2>4
<1>9. QED
  BY <1>2, <1>7, <1>8 DEF Legs

\* Starting or advancing a leg moves no money.
LEMMA StatusMoney ==
    ASSUME IInv, NEW c \in Coordinators, NEW t \in Transfers, NEW l \in Legs, t = job[c], l = leg[c],
           UNCHANGED <<applied, account>>,
           \/ CanStart(Job(c), l) /\ SetJob(c, Started(Job(c), l))
           \/ CanAdvance(Job(c), l) /\ SetJob(c, Advanced(Job(c), l))
    PROVE  UNCHANGED <<PhaseBar, BalanceBar>>
<1>1. transfer[t] \in TransferState /\ transfer \in [Transfers -> TransferState]
  BY DEF IInv, TypeOK
<1>2. PICK new : SetJob(c, new) /\ (\/ CanStart(Job(c), l) /\ new = Started(Job(c), l)
                                    \/ CanAdvance(Job(c), l) /\ new = Advanced(Job(c), l))
  OBVIOUS
<1>3. transfer'[t] = new /\ \A u \in Transfers : u # t => transfer'[u] = transfer[u]
  BY <1>1, <1>2 DEF SetJob
<1>4. new.status \notin {"NONE", "FAILED"}
  BY <1>1, <1>2, StartedState, AdvancedState DEF Job, Legs
<1>5. transfer[t].status # "NONE"
  BY <1>2 DEF CanStart, CanAdvance, Job, Legs
<1>6. transfer[t].status = "FAILED" => applied[t]["debit"] > 0
  <2>1. transfer[t].status = "FAILED" => transfer[t].failureStage = "CREDIT"
    BY <1>2 DEF CanStart, CanAdvance, Job, Legs
  <2>2. QED
    BY <2>1, LegsBefore DEF DebitDone
<1>7. Phase(transfer'[t], applied'[t]) = Phase(transfer[t], applied[t])
  BY <1>3, <1>4, <1>5, <1>6, SamePhase
<1>8. UNCHANGED PhaseBar
  BY <1>3, <1>7, SameBar
<1>9. QED
  BY <1>8 DEF BalanceBar

\* Freezing an account leaves its balance alone.
LEMMA FreezeMoney ==
    ASSUME IInv, NEW a \in Accounts, FreezeAccount(a)
    PROVE  UNCHANGED <<PhaseBar, BalanceBar>>
<1>1. UNCHANGED <<transfer, applied>> /\ account[a] \in AccountState
  BY DEF FreezeAccount, IInv, TypeOK
<1>2. PICK k : /\ k.type = "freeze"
               /\ account' = [account EXCEPT ![a] = When(account[a], MakeEvent(account[a], k, "freeze"))]
  BY DEF FreezeAccount
<1>3. When(account[a], MakeEvent(account[a], k, "freeze")).balance = account[a].balance
  BY <1>1, <1>2 DEF When, MakeEvent, EventTypeOf, AccountState
<1>4. \A b \in Accounts : account'[b].balance = account[b].balance
  BY <1>2, <1>3 DEF IInv, TypeOK
<1>5. QED
  BY <1>1, <1>4 DEF PhaseBar, BalanceBar

LEMMA NextMoney == IInv /\ [Next]_vars => [Money!Next]_(Money!vars)
<1> SUFFICES ASSUME IInv, [Next]_vars PROVE [Money!Next]_(Money!vars)
  OBVIOUS
<1>0. UNCHANGED <<PhaseBar, BalanceBar>> => UNCHANGED Money!vars
  BY DEF Money!vars, PhaseBar, BalanceBar
<1>1. UNCHANGED <<transfer, applied, account>> => UNCHANGED <<PhaseBar, BalanceBar>>
  BY DEF PhaseBar, BalanceBar
<1>2. ASSUME NEW t \in Transfers, Initiate(t) PROVE Money!Next
  BY <1>2, InitiateMoney DEF Money!Next
<1>3. ASSUME NEW c \in Coordinators, Step(c) \/ CallFails(c) \/ ReplyLost(c) \/ Crash(c)
      PROVE  [Money!Next]_(Money!vars)
  <2>1. \/ UNCHANGED <<transfer, applied, account>>
        \/ /\ UNCHANGED <<applied, account>> /\ pc[c] \in {"start", "advance"}
           /\ \/ CanStart(Job(c), leg[c]) /\ SetJob(c, Started(Job(c), leg[c]))
              \/ CanAdvance(Job(c), leg[c]) /\ SetJob(c, Advanced(Job(c), leg[c]))
        \/ /\ UNCHANGED <<applied, account>> /\ pc[c] = "fail" /\ CanFail(Job(c))
           /\ \E stage \in Stages : SetJob(c, Failed(Job(c), stage))
        \/ UNCHANGED transfer /\ pc[c] = "handler" /\ LegError(c) = "none" /\ MoveMoney(c)
    BY <1>3 DEF Step, Poll, Load, Reload, Start, Reserve, Handler, MarkCompleted, MarkFailed,
                Advance, FailTransfer, CallFails, ReplyLost, Crash, world, Stages
  <2>2. Busy(c) => job[c] \in Transfers /\ leg[c] \in Legs
    BY BusyJob, TypeParts DEF IInv
  <2>3. CASE UNCHANGED <<transfer, applied, account>>
    BY <1>0, <1>1, <2>3
  <2>4. CASE /\ UNCHANGED <<applied, account>> /\ pc[c] \in {"start", "advance"}
             /\ \/ CanStart(Job(c), leg[c]) /\ SetJob(c, Started(Job(c), leg[c]))
                \/ CanAdvance(Job(c), leg[c]) /\ SetJob(c, Advanced(Job(c), leg[c]))
    <3>1. job[c] \in Transfers /\ leg[c] \in Legs
      BY <2>2, <2>4 DEF Busy
    <3>2. QED
      BY <1>0, <2>4, <3>1, StatusMoney
  <2>5. CASE /\ UNCHANGED <<applied, account>> /\ pc[c] = "fail" /\ CanFail(Job(c))
             /\ \E stage \in Stages : SetJob(c, Failed(Job(c), stage))
    <3>1. job[c] \in Transfers
      BY <2>2, <2>5 DEF Busy
    <3>2. Money!Reject(job[c]) \/ UNCHANGED <<PhaseBar, BalanceBar>>
      BY <2>5, <3>1, FailMoney
    <3>3. QED
      BY <1>0, <3>1, <3>2 DEF Money!Next
  <2>6. CASE UNCHANGED transfer /\ pc[c] = "handler" /\ LegError(c) = "none" /\ MoveMoney(c)
    <3>1. job[c] \in Transfers
      BY <2>2, <2>6 DEF Busy
    <3>2. QED
      BY <2>6, <3>1, LegMoney DEF Money!Next
  <2>7. QED
    BY <2>1, <2>3, <2>4, <2>5, <2>6
<1>4. ASSUME NEW a \in Accounts, FreezeAccount(a) PROVE UNCHANGED Money!vars
  BY <1>0, <1>4, FreezeMoney
<1>5. ASSUME NEW t \in Transfers, ProjectTransfer(t) \/ LoseEvent(t) \/ RebuildTransfer(t)
      PROVE  UNCHANGED Money!vars
  BY <1>0, <1>1, <1>5 DEF ProjectTransfer, LoseEvent, RebuildTransfer
<1>6. CASE UNCHANGED vars
  BY <1>0, <1>1, <1>6 DEF vars
<1>7. QED
  BY <1>2, <1>3, <1>4, <1>5, <1>6 DEF Next

\* Every transfer moves its amount as MoneyTransfer says, whatever the coordinators,
\* the registry and the faults do: out of the source once, then to the destination or
\* back, once; a balance changes in no other way.
THEOREM SagaImplementsMoneyTransfer == Spec => ImplementsMoneyTransfer
<1>1. Init => Money!Init
  BY InitMoney
<1>2. IInv /\ [Next]_vars => [Money!Next]_(Money!vars)
  BY NextMoney
<1>3. QED
  BY <1>1, <1>2, Invariant, PTL DEF Spec, ImplementsMoneyTransfer, Money!Spec
=============================================================================
