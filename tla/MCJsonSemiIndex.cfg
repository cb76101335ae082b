\* Navigation over well-formed corpora: compact and spaced styles.
CONSTANTS
    Corpora <- MCCorpora
    Keys <- MCKeys
    Indexes <- MCIndexes
    MaxDepth = 2
INIT Init
NEXT Next
INVARIANTS
    TypeOK
    BPBalanced
    NavCorrect
    CursorTracksRecords
    NoReadOutsideRecord
\* The driver stops after the last record.
CHECK_DEADLOCK FALSE
