\* Universes 2, 9 and 15 give m_l = 0 (m > n), 1, 2 and 3; the bit vectors
\* of 7 and 9 bits give every density, m_l = 0 included.
CONSTANTS
    WordBits = 4
    Universes = {2, 9, 15}
    Counts = {1, 2, 3, 4}
    BitUniverses = {7, 9}
    PushTop = FALSE
SPECIFICATION Spec
\* A behaviour ends after its one query.
CHECK_DEADLOCK FALSE
INVARIANTS
    TypeOK
    SelectCorrect
    RankCorrect
    NeighbourCorrect
