SPECIFICATION FairSpec
CONSTANTS
    t1 = t1  c1 = c1  c2 = c2  r1 = r1
    Streams = {t1}
    Length <- MCLength
    History <- MCHistory
    Replay <- MCReplay
    Consumers = {c1, c2}
    Rebuilders = {r1}
    All = All
    NoScope = NoScope
    NoEvent = NoEvent
    MaxLog = 3
    Clocks <- MCClocks
    MaxDisruptions = 2
INVARIANTS HandledShows RowIsReplay
PROPERTIES StatusNeverBack CatchesUp
