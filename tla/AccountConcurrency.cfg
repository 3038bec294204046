SPECIFICATION Spec
CONSTANTS
    r1 = r1  r2 = r2  r3 = r3  r4 = r4
    i1 = i1  i2 = i2  acc1 = acc1  USD = USD  EUR = EUR
    CommandIds = {r1, r2, r3, r4}
    Instances = {i1, i2}
    Accounts = {acc1}
    Currencies = {USD, EUR}
    NoCurrency = NoCurrency
    NoCommand = NoCommand
    InstanceOf <- MCInstanceOf
    AccountOf <- MCAccountOf
    Incoming <- MCIncoming
    SnapshotInterval = 2
    MaxWriteAttempts = 2
    FaultKinds = {}
    MaxFaults = 0
    MaxCrashes = 0
INVARIANTS TypeOK NoOverdraft LoadIsReplay NoSelfConflict ConflictNeedsProgress RejectionJustified
PROPERTY ImplementsLedger
