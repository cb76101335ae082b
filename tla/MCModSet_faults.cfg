\* Every valid ModSet of one or two mods, the finding classes included.
CONSTANTS
    Replays = 2
    FieldNames <- MCFieldNames
    IntBits = 3
    LongBits = 6
    Inputs <- AllInputs
INIT Init
NEXT Next
\* An update ends after prepare and one apply.
CHECK_DEADLOCK FALSE
INVARIANT UpdateSound
