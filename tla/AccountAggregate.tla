-------------------------- MODULE AccountAggregate --------------------------
(***************************************************************************)
(* The account aggregate: its state, the guards of its four operations and *)
(* the event handler `when` (account.aggregate.ts).  Everything here is    *)
(* synchronous code, so it is a set of operators and not a state machine.  *)
(***************************************************************************)
EXTENDS Money, Sequences

CONSTANTS
    Currencies,     \* currency codes
    NoCurrency      \* the `undefined` currency of an account never created

ASSUME CurrencyAssumption == NoCurrency \notin Currencies

-----------------------------------------------------------------------------
(* Types *)

Statuses == {"ACTIVE", "FROZEN"}

\* `created` says whether this.accountId is set.
AccountState ==
    [created : BOOLEAN, currency : Currencies \cup {NoCurrency},
     status : Statuses, balance : Int, version : Nat]

\* A request for one of the four account command handlers.
Command ==
    [type : {"create", "deposit", "withdraw", "freeze"},
     amount : Decimal, currency : Currencies]

EventTypes == {"AccountCreated", "MoneyDeposited", "MoneyWithdrawn", "AccountFrozen"}

\* The fields of data and metadata the handlers read; commandIds are the ids of
\* the commands that may raise an event.
Event(commandIds) ==
    [eventType : EventTypes, streamVersion : Nat \ {0},
     amount : Decimal, currency : Currencies, commandId : commandIds]

-----------------------------------------------------------------------------
(* Behaviour *)

\* The field initialisers of a new AccountAggregate.
NewAccount ==
    [created |-> FALSE, currency |-> NoCurrency, status |-> "ACTIVE",
     balance |-> 0, version |-> 0]

\* The exceptions an operation may throw, in the order it tests for them;
\* "none" when it raises its event.  freeze tests neither accountId nor
\* currency, and its reason is always given.
DomainError(acct, cmd) ==
    CASE cmd.type = "create" ->
           IF acct.created THEN "Account already exists" ELSE "none"
      [] cmd.type = "freeze" ->
           IF acct.status = "FROZEN" THEN "Account already frozen" ELSE "none"
      [] OTHER ->
           IF acct.status # "ACTIVE" THEN "Account is not active"
           ELSE IF acct.currency # cmd.currency THEN "Currency mismatch"
           ELSE IF ParseMoneyToMinorUnits(cmd.amount) <= 0 THEN "must be positive"
           ELSE IF /\ cmd.type = "withdraw"
                   /\ acct.balance < ParseMoneyToMinorUnits(cmd.amount)
                THEN "Insufficient funds"
           ELSE "none"

EventTypeOf(cmd) ==
    CASE cmd.type = "create"   -> "AccountCreated"
      [] cmd.type = "deposit"  -> "MoneyDeposited"
      [] cmd.type = "withdraw" -> "MoneyWithdrawn"
      [] cmd.type = "freeze"   -> "AccountFrozen"

\* makeEvent: the amount is parsed and formatted again, the version is the next one.
MakeEvent(acct, cmd, commandId) ==
    [eventType     |-> EventTypeOf(cmd),
     streamVersion |-> acct.version + 1,
     amount        |-> FormatMinorUnitsToMoney(ParseMoneyToMinorUnits(cmd.amount)),
     currency      |-> cmd.currency,
     commandId     |-> commandId]

\* when: how an event, new or replayed, changes the state.
When(acct, event) ==
    CASE event.eventType = "AccountCreated" ->
           [acct EXCEPT !.version = event.streamVersion, !.created = TRUE,
                        !.currency = event.currency, !.status = "ACTIVE"]
      [] event.eventType = "MoneyDeposited" ->
           [acct EXCEPT !.version = event.streamVersion,
                        !.balance = @ + ParseMoneyToMinorUnits(event.amount)]
      [] event.eventType = "MoneyWithdrawn" ->
           [acct EXCEPT !.version = event.streamVersion,
                        !.balance = @ - ParseMoneyToMinorUnits(event.amount)]
      [] event.eventType = "AccountFrozen" ->
           [acct EXCEPT !.version = event.streamVersion, !.status = "FROZEN"]
=============================================================================
