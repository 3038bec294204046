----------------------------- MODULE CommandApi -----------------------------
(***************************************************************************)
(* The way of an account command from an HTTP request to the account:      *)
(* AccountsController runs it inside IdempotencyService.execute, deposits  *)
(* and withdrawals also inside TransactionRegistryService.execute.         *)
(* Requests, first ones and retries, are handled concurrently by several   *)
(* processes that share nothing but the database.  The account command     *)
(* itself is one step (see AccountRepository).                             *)
(***************************************************************************)
EXTENDS AccountAggregate, FiniteSets

CONSTANTS
    Requests,           \* HTTP requests, a retry is a request of its own
    Keys,               \* Idempotency-Key values
    Accounts,
    Transactions,       \* transactionId values
    NoTransaction,      \* of a command that has none
    Bodies,             \* the commands clients send
    NoBody,             \* of a record that does not exist
    InitialBalance,     \* what an account holds before the first request
    InitialCurrency,
    MaxFaults,          \* bound on failing calls
    MaxCrashes          \* bound on crashes

\* What a request asks for: path and payload, all that the request hash covers.
Body ==
    [command : Command, accountId : Accounts, transactionId : Transactions \cup {NoTransaction}]

\* Deposits and withdrawals move money and carry a transaction id.
IsMovement(body) == body.command.type \in {"deposit", "withdraw"}

ASSUME ApiAssumption ==
    /\ Bodies \subseteq Body
    /\ NoTransaction \notin Transactions
    /\ NoBody \notin Bodies
    /\ \A b \in Bodies : IsMovement(b) <=> b.transactionId \in Transactions
    /\ InitialBalance \in Nat
    /\ InitialCurrency \in Currencies
    /\ MaxFaults \in Nat
    /\ MaxCrashes \in Nat

VARIABLES
    keys,       \* idempotency_records: status and request of every key
    registry,   \* transaction_records: status and movement of every transaction
    account,    \* the state each account stream replays to
    request,    \* the key and the body each request was sent with
    pc,         \* where each request is
    err,        \* the error it is about to rethrow
    answer,     \* what its client was told
    committed,  \* auxiliary: the requests whose account command was committed
    faults,     \* failed calls so far
    crashes     \* crashes so far

vars == <<keys, registry, account, request, pc, err, answer, committed, faults, crashes>>

KeyStatus == {"NONE", "IN_PROGRESS", "COMPLETED", "FAILED"}
TransactionStatus == {"NONE", "PENDING", "COMPLETED", "FAILED_TERMINAL"}

\* About to reserve the key, to reserve the transaction, to run the command, to
\* mark the transaction, to mark the key.
PCs == {"new", "reserveTransaction", "handler", "completeTransaction", "failTransaction",
        "completeKey", "failKey", "done", "crashed"}

\* Success, a domain error, the three conflicts, and any other failure.
Answers == {"none", "accepted", "rejected", "usedBefore", "inProgress", "failedBefore", "error"}

-----------------------------------------------------------------------------
(* Helpers *)

KeyOf(r) == request[r].key
BodyOf(r) == request[r].body
TransactionOf(r) == BodyOf(r).transactionId

\* The request is being handled and has passed the key's reservation.
Running(r) == pc[r] \notin {"new", "done", "crashed"}

\* What a request is told whose key has a record already.
KeyAnswer(record, body) ==
    IF record.body # body                 THEN "usedBefore"
    ELSE IF record.status = "COMPLETED"   THEN "accepted"
    ELSE IF record.status = "IN_PROGRESS" THEN "inProgress"
    ELSE "failedBefore"

\* Mutant: every use of a transaction id is taken for the same movement.
IntentUnchecked(body, other) == TRUE

\* ensureSameTransactionIntent: account, operation, amount and currency agree.
SameTransactionIntent(body, other) ==
    /\ body.accountId = other.accountId
    /\ body.command.type = other.command.type
    /\ ParseMoneyToMinorUnits(body.command.amount) = ParseMoneyToMinorUnits(other.command.amount)
    /\ body.command.currency = other.command.currency

\* The same of a request whose transaction has a record already.
TransactionAnswer(record, body) ==
    IF ~SameTransactionIntent(body, record.body) THEN "usedBefore"
    ELSE IF record.status = "COMPLETED"          THEN "accepted"
    ELSE IF record.status = "PENDING"            THEN "inProgress"
    ELSE "failedBefore"

\* Mutant: a failed transaction is run again.
MayRunAgain(record) == record.status \in {"NONE", "FAILED_TERMINAL"}

\* The INSERT of a transaction record succeeds.  The controller passes no retry
\* options, so no record of a movement is ever reopened.
MayRun(record) == record.status = "NONE"

Goto(r, label) ==
    /\ pc' = [pc EXCEPT ![r] = label]
    /\ UNCHANGED <<err, answer>>

\* An exception reaches the catch block at label.
Throw(r, label, e) ==
    /\ pc' = [pc EXCEPT ![r] = label]
    /\ err' = [err EXCEPT ![r] = e]
    /\ UNCHANGED answer

Reply(r, a) ==
    /\ pc' = [pc EXCEPT ![r] = "done"]
    /\ answer' = [answer EXCEPT ![r] = a]
    /\ UNCHANGED err

SetKey(r, status) ==
    keys' = [keys EXCEPT ![KeyOf(r)] = [status |-> status, body |-> BodyOf(r)]]
SetTransaction(r, status) ==
    registry' = [registry EXCEPT ![TransactionOf(r)].status = status]
NewTransaction(r) ==
    registry' = [registry EXCEPT ![TransactionOf(r)] = [status |-> "PENDING", body |-> BodyOf(r)]]

CommandError(r) == DomainError(account[BodyOf(r).accountId], BodyOf(r).command)

CommitCommand(r) ==
    /\ account' = [account EXCEPT ![BodyOf(r).accountId] =
                     When(@, MakeEvent(@, BodyOf(r).command, KeyOf(r)))]
    /\ committed' = committed \cup {r}

\* Where the result of the account command is marked first.
AfterCommand(r) == IF IsMovement(BodyOf(r)) THEN "completeTransaction" ELSE "completeKey"
AfterError(r)   == IF IsMovement(BodyOf(r)) THEN "failTransaction" ELSE "failKey"

-----------------------------------------------------------------------------

\* Created and, with a balance, paid into once.
OpenAccount ==
    [created |-> TRUE, currency |-> InitialCurrency, status |-> "ACTIVE",
     balance |-> InitialBalance, version |-> IF InitialBalance = 0 THEN 1 ELSE 2]

Init ==
    /\ keys = [k \in Keys |-> [status |-> "NONE", body |-> NoBody]]
    /\ registry = [t \in Transactions |-> [status |-> "NONE", body |-> NoBody]]
    /\ account = [a \in Accounts |-> OpenAccount]
    /\ request \in [Requests -> [key : Keys, body : Bodies]]
    /\ pc = [r \in Requests |-> "new"]
    /\ err = [r \in Requests |-> "none"]
    /\ answer = [r \in Requests |-> "none"]
    /\ committed = {}
    /\ faults = 0
    /\ crashes = 0

\* IdempotencyService.execute up to the handler: the INSERT decides who runs.
ReserveKey(r) ==
    /\ pc[r] = "new"
    /\ \/ /\ keys[KeyOf(r)].status = "NONE"
          /\ SetKey(r, "IN_PROGRESS")
          /\ Goto(r, IF IsMovement(BodyOf(r)) THEN "reserveTransaction" ELSE "handler")
       \/ /\ keys[KeyOf(r)].status # "NONE"
          /\ Reply(r, KeyAnswer(keys[KeyOf(r)], BodyOf(r)))
          /\ UNCHANGED keys
    /\ UNCHANGED <<registry, account, request, committed, faults, crashes>>

\* TransactionRegistryService.execute up to the handler.
ReserveTransaction(r) ==
    LET record == registry[TransactionOf(r)] IN
    /\ pc[r] = "reserveTransaction"
    /\ \/ /\ MayRun(record)
          /\ NewTransaction(r)
          /\ Goto(r, "handler")
       \/ /\ ~MayRun(record)
          /\ IF TransactionAnswer(record, BodyOf(r)) = "accepted"
               THEN Goto(r, "completeKey")
               ELSE Throw(r, "failKey", TransactionAnswer(record, BodyOf(r)))
          /\ UNCHANGED registry
    /\ UNCHANGED <<keys, account, request, committed, faults, crashes>>

\* commandBus.execute.
Handler(r) ==
    /\ pc[r] = "handler"
    /\ IF CommandError(r) = "none"
         THEN CommitCommand(r) /\ Goto(r, AfterCommand(r))
         ELSE Throw(r, AfterError(r), "rejected") /\ UNCHANGED <<account, committed>>
    /\ UNCHANGED <<keys, registry, request, faults, crashes>>

CompleteTransaction(r) ==
    /\ pc[r] = "completeTransaction"
    /\ SetTransaction(r, "COMPLETED")
    /\ Goto(r, "completeKey")
    /\ UNCHANGED <<keys, account, request, committed, faults, crashes>>

\* The catch block of TransactionRegistryService.execute.
FailTransaction(r) ==
    /\ pc[r] = "failTransaction"
    /\ SetTransaction(r, "FAILED_TERMINAL")
    /\ Goto(r, "failKey")
    /\ UNCHANGED <<keys, account, request, committed, faults, crashes>>

\* Mutant: the record is not marked.
CompleteUnmarked(r) ==
    /\ pc[r] = "completeKey"
    /\ Reply(r, "accepted")
    /\ UNCHANGED <<keys, registry, account, request, committed, faults, crashes>>

CompleteKey(r) ==
    /\ pc[r] = "completeKey"
    /\ SetKey(r, "COMPLETED")
    /\ Reply(r, "accepted")
    /\ UNCHANGED <<registry, account, request, committed, faults, crashes>>

\* Mutant: the catch block rethrows without markFailed.
FailUnmarked(r) ==
    /\ pc[r] = "failKey"
    /\ Reply(r, err[r])
    /\ UNCHANGED <<keys, registry, account, request, committed, faults, crashes>>

\* The catch block of IdempotencyService.execute.
FailKey(r) ==
    /\ pc[r] = "failKey"
    /\ SetKey(r, "FAILED")
    /\ Reply(r, err[r])
    /\ UNCHANGED <<registry, account, request, committed, faults, crashes>>

-----------------------------------------------------------------------------
(* Faults *)

Fault == faults < MaxFaults /\ faults' = faults + 1 /\ UNCHANGED <<crashes, request>>

\* An awaited call fails and had no effect.
CallFails(r) ==
    /\ Fault
    /\ \/ pc[r] \in {"new", "failKey"} /\ Reply(r, "error")
       \/ pc[r] \in {"reserveTransaction", "failTransaction", "completeKey"}
            /\ Throw(r, "failKey", "error")
       \/ pc[r] = "handler" /\ Throw(r, AfterError(r), "error")
       \/ pc[r] = "completeTransaction" /\ Throw(r, "failTransaction", "error")
    /\ UNCHANGED <<keys, registry, account, committed>>

\* An awaited call takes effect but its reply is lost, so it fails as well.
ReplyLost(r) ==
    /\ Fault
    /\ \/ /\ pc[r] = "new" /\ keys[KeyOf(r)].status = "NONE"
          /\ SetKey(r, "IN_PROGRESS")
          /\ Reply(r, "error")
          /\ UNCHANGED <<registry, account, committed>>
       \/ /\ pc[r] = "reserveTransaction" /\ MayRun(registry[TransactionOf(r)])
          /\ NewTransaction(r)
          /\ Throw(r, "failKey", "error")
          /\ UNCHANGED <<keys, account, committed>>
       \/ /\ pc[r] = "handler" /\ CommandError(r) = "none"
          /\ CommitCommand(r)
          /\ Throw(r, AfterError(r), "error")
          /\ UNCHANGED <<keys, registry>>
       \/ /\ pc[r] = "completeTransaction"
          /\ SetTransaction(r, "COMPLETED")
          /\ Throw(r, "failTransaction", "error")
          /\ UNCHANGED <<keys, account, committed>>
       \/ /\ pc[r] = "failTransaction"
          /\ SetTransaction(r, "FAILED_TERMINAL")
          /\ Throw(r, "failKey", "error")
          /\ UNCHANGED <<keys, account, committed>>
       \/ /\ pc[r] = "completeKey"
          /\ SetKey(r, "COMPLETED")
          /\ Throw(r, "failKey", "error")
          /\ UNCHANGED <<registry, account, committed>>
       \/ /\ pc[r] = "failKey"
          /\ SetKey(r, "FAILED")
          /\ Reply(r, "error")
          /\ UNCHANGED <<registry, account, committed>>

\* The process that handles the request dies.
Crash(r) ==
    /\ crashes < MaxCrashes
    /\ Running(r)
    /\ crashes' = crashes + 1
    /\ pc' = [pc EXCEPT ![r] = "crashed"]
    /\ UNCHANGED <<keys, registry, account, request, err, answer, committed, faults>>

Terminated == \A r \in Requests : pc[r] \in {"done", "crashed"}

Step(r) ==
    \/ ReserveKey(r) \/ ReserveTransaction(r) \/ Handler(r) \/ CompleteTransaction(r)
    \/ FailTransaction(r) \/ CompleteKey(r) \/ FailKey(r)

Next ==
    \/ \E r \in Requests : Step(r) \/ CallFails(r) \/ ReplyLost(r) \/ Crash(r)
    \/ Terminated /\ UNCHANGED vars

Spec == Init /\ [][Next]_vars

-----------------------------------------------------------------------------
(* Properties *)

TypeOK ==
    /\ keys \in [Keys -> [status : KeyStatus, body : Bodies \cup {NoBody}]]
    /\ registry \in [Transactions -> [status : TransactionStatus, body : Bodies \cup {NoBody}]]
    /\ account \in [Accounts -> AccountState]
    /\ request \in [Requests -> [key : Keys, body : Bodies]]
    /\ pc \in [Requests -> PCs]
    /\ err \in [Requests -> Answers]
    /\ answer \in [Requests -> Answers]
    /\ committed \subseteq Requests
    /\ faults \in 0 .. MaxFaults
    /\ crashes \in 0 .. MaxCrashes
    /\ \A r \in Requests : answer[r] # "none" <=> pc[r] = "done"

\* "Even if a caller changes the Idempotency-Key, reusing the same transactionId
\* for a deposit or withdrawal will not create a second business transaction":
\* also after lost replies, failed calls and crashes anywhere on the path.
MovementAtMostOnce ==
    \A r, q \in committed :
        IsMovement(BodyOf(r)) /\ TransactionOf(r) = TransactionOf(q) => r = q

\* A client that is told "accepted", by the handler or from either record, asked
\* for something that was done: its very movement, or its very command.
AcceptedIsDone ==
    \A r \in Requests : answer[r] = "accepted" =>
        \E q \in committed :
            IF IsMovement(BodyOf(r))
              THEN BodyOf(q) = BodyOf(r)
              ELSE request[q] = request[r]

\* A domain error is the last word on a transaction: no request with the same
\* transaction id, under whatever key, has moved or will move its money.
RejectionIsFinal ==
    \A r \in Requests : answer[r] = "rejected" /\ IsMovement(BodyOf(r)) =>
        \A q \in committed : TransactionOf(q) # TransactionOf(r)

\* Once the request that ran its command was told "accepted", so is every retry
\* with the same key and payload that reaches the database, whatever failed.
RetryGetsOriginal ==
    [][\A r, q \in Requests :
          /\ q \in committed /\ answer[q] = "accepted" /\ request[r] = request[q]
          /\ answer[r] = "none" /\ answer'[r] # "none"
          => answer'[r] \in {"accepted", "error"}]_vars

\* q is still at work, or ended without knowing what became of its request.
Undecided(q) == Running(q) \/ pc[q] = "crashed" \/ answer[q] = "error"

\* Who is told that its request or transaction "is already in progress" is told so
\* because of a request with that key or transaction id whose client has no answer
\* yet: one that was answered, accepted or rejected, left no open record behind.
InProgressIsTrue ==
    [][\A r \in Requests :
          /\ answer[r] # "inProgress" /\ answer'[r] = "inProgress" /\ err[r] # "inProgress" =>
                \E q \in Requests \ {r} : KeyOf(q) = KeyOf(r) /\ Undecided(q)
          /\ err[r] # "inProgress" /\ err'[r] = "inProgress" =>
                \E q \in Requests \ {r} : TransactionOf(q) = TransactionOf(r) /\ Undecided(q)]_vars
=============================================================================
