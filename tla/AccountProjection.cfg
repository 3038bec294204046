SPECIFICATION FairSpec
CONSTANTS
    a1 = a1  c1 = c1  c2 = c2  r1 = r1
    Streams = {a1}
    Length <- MCLength
    History <- MCHistory
    Replay <- MCReplay
    Currencies = {"USD"}
    NoCurrency = NoCurrency
    Consumers = {c1, c2}
    Rebuilders = {r1}
    All = All
    NoScope = NoScope
    NoEvent = NoEvent
    MaxLog = 3
    MaxDisruptions = 2
INVARIANTS SummaryIsReplay EntryMissingOnlyIfTorn RebuildMeetsNoGap
PROPERTIES VersionNeverBack CatchesUp
