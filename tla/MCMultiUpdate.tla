---------------------------- MODULE MCMultiUpdate ----------------------------
EXTENDS MultiUpdate, TLC

CONSTANTS d1, d2, d3, d4, d5, free, null, u, r, m

\* A document the query does not match (d5) at location 1, so UpdateOp's
\* search takes a step and may yield on it, three matching documents at
\* locations 2-4 and a free location 5; the other client can insert d4,
\* which matches.
MCLocs == 1..5
MCDocs == {d1, d2, d3, d4, d5}
MCMatch == {d1, d2, d3, d4}
MCInitRecs == (1 :> d5) @@ (2 :> d1) @@ (3 :> d2) @@ (4 :> d3) @@ (5 :> free)

=============================================================================
