\* Compact corpora, empty containers with an inner space, records with a
\* leading space, and a lookup key longer than the document key, together.
CONSTANTS
    Corpora <- MCNavFaultCorpora
    Keys <- MCNavFaultKeys
    Indexes <- MCIndexes
    MaxDepth = 2
INIT Init
NEXT Next
INVARIANT NavSound
\* The driver stops after the last record.
CHECK_DEADLOCK FALSE
