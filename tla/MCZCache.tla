------------------------------ MODULE MCZCache ------------------------------
EXTENDS ZCache

CONSTANTS i1, i2

\* Five distinct characters in three blocks of two, the last one short.
MCText == <<"a", "b", "c", "d", "e">>
MCAlphabet == {"a", "b", "c", "d", "e"}
MCIters == {i1, i2}

=============================================================================
