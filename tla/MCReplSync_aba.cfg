\* Two elections: Self is elected and steps down and the old primary is
\* elected again while the sync thread holds an op it read before taking
\* the write lock.
CONSTANTS
    m0 = m0
    m1 = m1
    m2 = m2
    none = none
    Self <- m0
    Others <- MCOthers
    None <- none
    MaxWrites = 3
    MaxElections = 2
    Cap = 3
SPECIFICATION Spec
INVARIANT ConsistentHistory
\* Once the writes and elections are spent, the sync thread waits on its
\* tailable cursor or sleeps in _syncThread(); neither changes the state.
CHECK_DEADLOCK FALSE
