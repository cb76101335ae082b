\* Two client threads and the dur thread; three writes, a commit on unlock
\* above two pending writes, recursion two deep, one power failure.
CONSTANTS
    c1 = c1
    c2 = c2
    d = d
    none = none
    Clients <- MCClients
    Dur <- d
    None <- none
    MaxWrites = 3
    Big = 1
    MaxDepth = 2
    MaxCrashes = 1
SPECIFICATION Spec
INVARIANT TypeOK
INVARIANT LockStateConsistent
INVARIANT WriteAhead
INVARIANT ViewIsCommittedPlusPending
INVARIANT RemapOnlyWhenClean
PROPERTY NotedWritesCommitted
