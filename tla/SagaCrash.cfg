SPECIFICATION FairSpec
CONSTANTS
    t1 = t1  t2 = t2  alice = alice  bob = bob  carol = carol  c1 = c1  c2 = c2
    Transfers = {t1}
    Accounts = {alice, bob, carol}
    Source <- MCSource
    Destination <- MCDestination
    Amount <- MCAmount
    InitialBalance <- MCInitialBalance
    Currencies = {"USD"}
    Currency = "USD"
    NoCurrency = NoCurrency
    NoTransfer = NoTransfer
    Coordinators = {c1}
    Freezable = {}
    Unreliable = {}
    MaxFaults = 0
    MaxCrashes = 1
PROPERTY EveryTransferSettles
