\* Self m0 and two other members m1 and m2; three writes, one election
\* after the first, and an oplog of three entries, so that a failover can
\* leave m0 with writes the new primary lacks and the capped oplog can
\* outrun it.
CONSTANTS
    m0 = m0
    m1 = m1
    m2 = m2
    none = none
    Self <- m0
    Others <- MCOthers
    None <- none
    MaxWrites = 3
    MaxElections = 1
    Cap = 3
SPECIFICATION Spec
 
INVARIANT ConsistentHistory
PROPERTY SyncCatchesUp
\* Once the writes and elections are spent, the sync thread waits on its
\* tailable cursor or sleeps in _syncThread(); neither changes the state.
CHECK_DEADLOCK FALSE
