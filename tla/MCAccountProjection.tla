------------------------ MODULE MCAccountProjection ------------------------
(* Instance of AccountProjection for TLC. *)
EXTENDS AccountProjection, TLC

CONSTANTS a1, c1, c2, r1

MoneyEvent(n, type, minorUnits) ==
    [eventType |-> type, streamVersion |-> n, currency |-> "USD", commandId |-> "command",
     amount |-> FormatMinorUnitsToMoney(minorUnits)]

MCHistory ==
    [a \in Streams |-> << MoneyEvent(1, "AccountCreated", 0),
                          MoneyEvent(2, "MoneyDeposited", 300),
                          MoneyEvent(3, "MoneyWithdrawn", 125) >>]

MCLength == [a \in Streams |-> Len(MCHistory[a])]

MCReplay ==
    [a \in Streams |->
        LET f[n \in 0..MCLength[a]] ==
                IF n = 0 THEN NewAccount ELSE When(f[n - 1], MCHistory[a][n])
        IN f]
=============================================================================
