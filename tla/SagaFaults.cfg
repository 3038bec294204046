SPECIFICATION FairSpec
CONSTANTS
    t1 = t1  t2 = t2  alice = alice  bob = bob  carol = carol  c1 = c1  c2 = c2
    Transfers = {t1}
    Accounts = {alice, bob, carol}
    Source <- MCSource
    Destination <- MCDestination
    Amount <- MCAmount
    InitialBalance <- MCInitialBalance
    Currencies = {"USD"}
    Currency = "USD"
    NoCurrency = NoCurrency
    NoTransfer = NoTransfer
    Coordinators = {c1, c2}
    Freezable = {alice, bob}
    Unreliable = {t1}
    MaxFaults = 2
    MaxCrashes = 1
INVARIANTS LegAtMostOnce OutcomeMatchesMoney
PROPERTIES SettledIsFinal ImplementsMoneyTransfer SettlesUnlessPoisoned
