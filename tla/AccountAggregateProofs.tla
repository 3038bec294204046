----------------------- MODULE AccountAggregateProofs -----------------------
(* Facts about money and the account aggregate that other proofs rest on. *)
EXTENDS AccountAggregate, TLAPS

-----------------------------------------------------------------------------
(* Money *)

\* Formatting an amount yields a well-formed decimal.
LEMMA FormatType ==
    ASSUME NEW m \in Int
    PROVE  FormatMinorUnitsToMoney(m) \in Decimal
<1>1. \A n \in Nat : n \div 100 \in Nat /\ n % 100 \in 0 .. 99
  OBVIOUS
<1>2. CASE m < 0
  BY <1>1, <1>2, -m \in Nat DEF FormatMinorUnitsToMoney, Decimal, MinorUnitsPerUnit
<1>3. CASE m >= 0
  BY <1>1, <1>3, m \in Nat DEF FormatMinorUnitsToMoney, Decimal, MinorUnitsPerUnit
<1>4. QED
  BY <1>2, <1>3

\* Parsing a decimal yields a number of minor units.
LEMMA ParseType ==
    ASSUME NEW d \in Decimal
    PROVE  ParseMoneyToMinorUnits(d) \in Int
BY DEF ParseMoneyToMinorUnits, Decimal, MinorUnitsPerUnit

\* The conversion an amount goes through on its way from a command to its event
\* and back into the aggregate loses nothing: parse undoes format
\* (parseMoneyToMinorUnits and formatMinorUnitsToMoney in money.ts).
THEOREM MoneyRoundTrip ==
    ASSUME NEW m \in Int
    PROVE  ParseMoneyToMinorUnits(FormatMinorUnitsToMoney(m)) = m
<1>1. \A n \in Nat : (n \div 100) * 100 + (n % 100) = n
  OBVIOUS
<1>2. CASE m < 0
  <2> DEFINE n == -m
  <2>1. n \in Nat
    BY <1>2
  <2>2. FormatMinorUnitsToMoney(m) =
          [sign |-> "-", whole |-> n \div 100, fraction |-> n % 100]
    BY <1>2 DEF FormatMinorUnitsToMoney, MinorUnitsPerUnit
  <2>3. ParseMoneyToMinorUnits(FormatMinorUnitsToMoney(m)) = -((n \div 100) * 100 + (n % 100))
    BY <2>2 DEF ParseMoneyToMinorUnits, MinorUnitsPerUnit
  <2>4. (n \div 100) * 100 + (n % 100) = n
    BY <1>1, <2>1
  <2>5. -n = m
    OBVIOUS
  <2> HIDE DEF n
  <2>6. QED
    BY <2>3, <2>4, <2>5
<1>3. CASE m >= 0
  <2>1. FormatMinorUnitsToMoney(m) =
          [sign |-> "+", whole |-> m \div 100, fraction |-> m % 100]
    BY <1>3 DEF FormatMinorUnitsToMoney, MinorUnitsPerUnit
  <2>2. ParseMoneyToMinorUnits(FormatMinorUnitsToMoney(m)) = (m \div 100) * 100 + (m % 100)
    BY <2>1 DEF ParseMoneyToMinorUnits, MinorUnitsPerUnit
  <2>3. QED
    BY <1>1, <1>3, <2>2
<1>4. QED
  BY <1>2, <1>3

-----------------------------------------------------------------------------
(* The aggregate *)

LEMMA NewAccountType == NewAccount \in AccountState
BY DEF NewAccount, AccountState, Statuses

\* An operation raises a well-formed event with the next version.
LEMMA MakeEventType ==
    ASSUME NEW acct \in AccountState, NEW cmd \in Command,
           NEW ids, NEW id \in ids
    PROVE  /\ MakeEvent(acct, cmd, id) \in Event(ids)
           /\ MakeEvent(acct, cmd, id).streamVersion = acct.version + 1
           /\ MakeEvent(acct, cmd, id).commandId = id
<1>1. ParseMoneyToMinorUnits(cmd.amount) \in Int
  BY ParseType DEF Command
<1>2. FormatMinorUnitsToMoney(ParseMoneyToMinorUnits(cmd.amount)) \in Decimal
  BY <1>1, FormatType
<1>3. EventTypeOf(cmd) \in EventTypes
  BY DEF EventTypeOf, Command, EventTypes
<1>4. acct.version + 1 \in Nat \ {0}
  BY DEF AccountState
<1>5. QED
  BY <1>2, <1>3, <1>4 DEF MakeEvent, Event, Command

\* The event handler takes states to states and records the event's version.
LEMMA WhenType ==
    ASSUME NEW acct \in AccountState, NEW ids, NEW event \in Event(ids)
    PROVE  /\ When(acct, event) \in AccountState
           /\ When(acct, event).version = event.streamVersion
<1>1. ParseMoneyToMinorUnits(event.amount) \in Int
  BY ParseType DEF Event
<1>2. event.eventType \in EventTypes
  BY DEF Event
<1>3. event.streamVersion \in Nat /\ event.currency \in Currencies
  BY DEF Event
<1>4. acct.balance \in Int
  BY DEF AccountState
<1>5. CASE event.eventType = "AccountCreated"
  BY <1>3, <1>5 DEF When, AccountState, Statuses
<1>6. CASE event.eventType = "MoneyDeposited"
  <2> DEFINE b == acct.balance + ParseMoneyToMinorUnits(event.amount)
  <2>1. b \in Int
    BY <1>1, <1>4
  <2>2. When(acct, event) = [acct EXCEPT !.version = event.streamVersion, !.balance = b]
    BY <1>6 DEF When
  <2> HIDE DEF b
  <2>3. QED
    BY <1>3, <2>1, <2>2 DEF AccountState
<1>7. CASE event.eventType = "MoneyWithdrawn"
  <2> DEFINE b == acct.balance - ParseMoneyToMinorUnits(event.amount)
  <2>1. b \in Int
    BY <1>1, <1>4
  <2>2. When(acct, event) = [acct EXCEPT !.version = event.streamVersion, !.balance = b]
    BY <1>7 DEF When
  <2> HIDE DEF b
  <2>3. QED
    BY <1>3, <2>1, <2>2 DEF AccountState
<1>8. CASE event.eventType = "AccountFrozen"
  BY <1>3, <1>8 DEF When, AccountState, Statuses
<1>9. QED
  BY <1>2, <1>5, <1>6, <1>7, <1>8 DEF EventTypes

\* An operation whose guards pass keeps the balance non-negative.
LEMMA GuardedNonNegative ==
    ASSUME NEW acct \in AccountState, NEW cmd \in Command, NEW id,
           acct.balance >= 0, DomainError(acct, cmd) = "none"
    PROVE  When(acct, MakeEvent(acct, cmd, id)).balance >= 0
<1> DEFINE amount == ParseMoneyToMinorUnits(cmd.amount)
<1>1. amount \in Int
  BY ParseType DEF Command
<1>2. ParseMoneyToMinorUnits(FormatMinorUnitsToMoney(amount)) = amount
  BY <1>1, MoneyRoundTrip
<1>3. acct.balance \in Int
  BY DEF AccountState
<1>4. CASE cmd.type = "create"
  BY <1>4 DEF When, MakeEvent, EventTypeOf, AccountState
<1>5. CASE cmd.type = "freeze"
  BY <1>5 DEF When, MakeEvent, EventTypeOf, AccountState
<1>6. CASE cmd.type = "deposit"
  <2>1. amount > 0
    BY <1>1, <1>6 DEF DomainError
  <2>2. When(acct, MakeEvent(acct, cmd, id)).balance = acct.balance + amount
    BY <1>2, <1>6 DEF When, MakeEvent, EventTypeOf, AccountState
  <2>3. QED
    BY <1>1, <1>3, <2>1, <2>2
<1>7. CASE cmd.type = "withdraw"
  <2>1. acct.balance >= amount
    BY <1>1, <1>3, <1>7 DEF DomainError
  <2>2. When(acct, MakeEvent(acct, cmd, id)).balance = acct.balance - amount
    BY <1>2, <1>7 DEF When, MakeEvent, EventTypeOf, AccountState
  <2>3. QED
    BY <1>1, <1>3, <2>1, <2>2
<1>8. QED
  BY <1>4, <1>5, <1>6, <1>7 DEF Command
=============================================================================
