SPECIFICATION Spec
\* A behaviour ends after its one query.
CHECK_DEADLOCK FALSE
INVARIANTS
    TypeOK
    FindCloseCorrect
    FindOpenCorrect
    MinMaxTreeCorrect
    BuilderMatchesCalls
    GetBitsCorrect
    ScanCorrect
