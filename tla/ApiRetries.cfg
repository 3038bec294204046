SPECIFICATION Spec
CONSTANTS
    Requests = {r1, r2, r3}
    Keys = {k1, k2, k3}
    Accounts = {acc1}
    Transactions = {tx1, tx2}
    NoTransaction = NoTransaction
    NoBody = NoBody
    Currencies = {USD}
    NoCurrency = NoCurrency
    InitialCurrency = USD
    InitialBalance = 50
    acc1 = acc1  USD = USD  tx1 = tx1  tx2 = tx2
    Bodies <- MCBodies
    MaxFaults = 2
    MaxCrashes = 1
SYMMETRY MCSymmetry
INVARIANTS MovementAtMostOnce AcceptedIsDone RejectionIsFinal
PROPERTIES RetryGetsOriginal InProgressIsTrue
