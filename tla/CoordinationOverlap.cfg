SPECIFICATION FairCoordination
CONSTANTS
    l1 = l1  l2 = l2  l3 = l3  r1 = r1  r2 = r2  r3 = r3
    Live = {l1}
    Rebuilds = {r1, r2}
INVARIANT RebuildAlone
