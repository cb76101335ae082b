\* Blocks of 2 over a 5-character corpus (3 blocks), a cache of 2 entries,
\* two iterators sharing the current block.
CONSTANTS
    i1 = i1
    i2 = i2
    Text <- MCText
    Alphabet <- MCAlphabet
    Iters <- MCIters
    B = 2
    MaxEntries = 2
    MaxStep = 2
SPECIFICATION Spec
INVARIANT DerefCorrect
INVARIANT CacheBounded
