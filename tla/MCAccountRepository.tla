------------------------- MODULE MCAccountRepository -------------------------
(* Instances of AccountRepository for TLC: one hot account, two processes. *)
EXTENDS AccountRepository, TLC

CONSTANTS r1, r2, r3, r4, i1, i2, acc1, USD, EUR

Request(type, minorUnits, currency) ==
    [type |-> type, amount |-> FormatMinorUnitsToMoney(minorUnits), currency |-> currency]

MCInstanceOf == [r \in CommandIds |-> IF r = r4 THEN i2 ELSE i1]
MCAccountOf  == [r \in CommandIds |-> acc1]

\* Two withdrawals that the deposit covers one at a time only, a deposit in the
\* wrong currency, a second creation, a freeze that may come before the first one.
MCIncoming ==
    [r \in CommandIds |->
        CASE r = r1 -> {Request("create", 0, USD)}
          [] r = r2 -> {Request("deposit", 150, USD), Request("deposit", 150, EUR)}
          [] r = r3 -> {Request("withdraw", 100, USD), Request("create", 0, USD)}
          [] r = r4 -> {Request("withdraw", 125, USD), Request("freeze", 0, USD)}]
=============================================================================
