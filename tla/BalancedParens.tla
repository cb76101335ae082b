--------------------------- MODULE BalancedParens ---------------------------
(***************************************************************************)
(* What bp_vector promises: the operations on a sequence of parentheses    *)
(* (bit 1 = open, 0 = close) stated by their definition, with positions    *)
(* 0-based as in the code.  JsonSemiIndex navigates with these; the        *)
(* block / min-max-tree algorithm of bp_vector.cpp is checked against them *)
(* in BPVector.                                                            *)
(***************************************************************************)
EXTENDS Integers, Sequences

\* Bit at 0-based position i (bp_vector inherits operator[] from bit_vector).
\* Past the end it is 0: the padding bits of the last word are zero.
Bit(bp, i) == IF i < Len(bp) THEN bp[i + 1] ELSE 0

\* Excess of the prefix [0, i): opening minus closing parentheses.
RECURSIVE Excess(_, _)
Excess(bp, i) ==
    IF i = 0 THEN 0 ELSE Excess(bp, i - 1) + (IF Bit(bp, i - 1) = 1 THEN 1 ELSE -1)

\* The running excess never goes negative and ends at zero.
Balanced(bp) ==
    /\ \A i \in 0..Len(bp) : Excess(bp, i) >= 0
    /\ Excess(bp, Len(bp)) = 0

\* Forward scan from q with depth d still open: first position where the
\* depth returns to zero; Len(bp) when there is none (a find_close outside
\* the precondition, whose result the code leaves undefined).
RECURSIVE CloseFrom(_, _, _)
CloseFrom(bp, q, d) ==
    LET d2 == d + (IF Bit(bp, q) = 1 THEN 1 ELSE -1) IN
    IF q >= Len(bp) THEN Len(bp)
    ELSE IF d2 = 0 THEN q ELSE CloseFrom(bp, q + 1, d2)

RECURSIVE OpenFrom(_, _, _)
OpenFrom(bp, q, d) ==
    LET d2 == d + (IF Bit(bp, q) = 0 THEN 1 ELSE -1) IN
    IF d2 = 0 THEN q ELSE OpenFrom(bp, q - 1, d2)

\* find_close(p), p an open parenthesis: the matching closing one.
find_close(bp, p) == CloseFrom(bp, p + 1, 1)

\* find_open(p), p a closing parenthesis: the matching opening one.
find_open(bp, p) == OpenFrom(bp, p - 1, 1)

\* enclose(p), p an open parenthesis: the opening parenthesis of its parent.
enclose(bp, p) == OpenFrom(bp, p - 1, 1)
=============================================================================
