SPECIFICATION FairSpec
CONSTANTS
    p1 = p1  p2 = p2  s1 = s1  s2 = s2
    Publishers = {p1, p2}
    Streams = {s1, s2}
    Length <- MCLength
    BatchSize = 2
    NoMessage = NoMessage
    MaxFaults = 2
    MaxCrashes = 1
INVARIANTS ClaimExclusive NothingLost SentOnceWithoutFaults
PROPERTIES PublishedUnlessAbandoned ImplementsTopic
