\* Five locations, a non-matching record first and three matching ones, three operations of the other
\* client (remove, insert, drop), a yield after every second record scanned
\* on either path.
CONSTANTS
    d1 = d1
    d2 = d2
    d3 = d3
    d4 = d4
    d5 = d5
    free = free
    null = null
    u = u
    r = r
    m = m
    Locs <- MCLocs
    Docs <- MCDocs
    Match <- MCMatch
    InitRecs <- MCInitRecs
    Free <- free
    Null <- null
    U <- u
    R <- r
    M <- m
    YieldSkip = 2
    YieldMod = 2
    AgeLimit = 1
    MaxOps = 3
SPECIFICATION Spec
INVARIANT TypeOK
INVARIANT CursorOnLiveRecord
INVARIANT UpdatedOnce
