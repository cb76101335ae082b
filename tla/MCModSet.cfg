\* Every valid ModSet of one or two mods outside the five finding classes,
\* on 3-bit ints and 6-bit longs.
CONSTANTS
    Replays = 2
    FieldNames <- MCFieldNames
    IntBits = 3
    LongBits = 6
    Inputs <- MCInputs
INIT Init
NEXT Next
\* An update ends after prepare and one apply.
CHECK_DEADLOCK FALSE
INVARIANTS
    ModsMatchReference
    InPlaceKeepsLayout
    ReplayConverges
