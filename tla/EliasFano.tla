----------------------------- MODULE EliasFano -----------------------------
(***************************************************************************)
(* elias_fano (src/succinct/elias_fano.hpp): a non-decreasing sequence of  *)
(* values <= n, each split into m_l low bits (packed in a bit_vector) and  *)
(* its high part (a 1 at position high + index of an rs_bit_vector).       *)
(*                                                                         *)
(* Two ways in: an elias_fano_builder fed with push_back and frozen with   *)
(* elias_fano(&builder), or elias_fano(&bvb), which encodes the            *)
(* positions of the 1 bits of a bit vector (the semi-index's m_nav).       *)
(* The ghost vals is the sequence encoded; the queries are checked         *)
(* against it.                                                             *)
(***************************************************************************)
EXTENDS Integers, Sequences, FiniteSets, Bitwise, SequencesExt

CONSTANTS
    WordBits,      \* bits per word (64)
    Universes,     \* values of n for elias_fano_builder(n, m)
    Counts,        \* values of m for elias_fano_builder(n, m)
    BitUniverses,  \* sizes of the bit vectors elias_fano(&bvb) encodes
    PushTop        \* whether push_back is given i = n, which its assertion allows

BV == INSTANCE BitVector

VARIABLES
    efb,    \* the elias_fano_builder, or NoBuilder
    nav,    \* the bit_vector_builder given to elias_fano(&bvb), or NoBuilder
    vals,   \* ghost: the values pushed, in order
    ef,     \* the elias_fano once built: [size, l, high, low], or NoEF
    res     \* the query made: [op, arg, ret]

vars == <<efb, nav, vals, ef, res>>

NoBuilder == [n |-> -1]
NoEF      == [size |-> -1]
NoQuery   == [op |-> "none", arg |-> 0, ret |-> 0]

\* broadword::msb of a positive natural.
msb(x) == CHOOSE i \in 0..x : 2^i <= x /\ x < 2^(i + 1)

(***************************************************************************)
(* rs_bit_vector (source not in the repository): select and select0 are    *)
(* the positions of the k-th 1 and 0 bit, num_ones the number of 1 bits.   *)
(***************************************************************************)
OnesOf(v)  == {i \in 0..(v.size - 1) : BV!get(v, i) = 1}
ZerosOf(v) == {i \in 0..(v.size - 1) : BV!get(v, i) = 0}
KthOf(S, k) == CHOOSE i \in S : Cardinality({j \in S : j < i}) = k
rs_select(v, k)  == KthOf(OnesOf(v), k)
rs_select0(v, k) == KthOf(ZerosOf(v), k)
num_ones(v) == Cardinality(OnesOf(v))

(***************************************************************************)
(* elias_fano_builder                                                      *)
(***************************************************************************)
\* Variant that takes one low bit more than msb(n / m).
NewEFBuilder_wide(n, m) ==
    LET l == IF m # 0 /\ n \div m # 0 THEN msb(n \div m) + 1 ELSE 0
    IN [n |-> n, m |-> m, pos |-> 0, last |-> 0, l |-> l,
        high |-> BV!NewBuilder((m + 1) + (n \div 2^l) + 1, FALSE),
        low  |-> BV!reserve(BV!NewBuilder(0, FALSE), m * l)]

NewEFBuilder(n, m) ==
    LET l == IF m # 0 /\ n \div m # 0 THEN msb(n \div m) ELSE 0
    IN [n |-> n, m |-> m, pos |-> 0, last |-> 0, l |-> l,
        high |-> BV!NewBuilder((m + 1) + (n \div 2^l) + 1, FALSE),
        low  |-> BV!reserve(BV!NewBuilder(0, FALSE), m * l)]

\* push_back(i), under its assertion i >= m_last /\ i <= m_n.
EFPushBack(b, i) ==
    LET low_mask == 2^b.l - 1
    IN [b EXCEPT !.last = i,
                 !.low  = IF b.l # 0 THEN BV!append_bits(@, i & low_mask, b.l) ELSE @,
                 !.high = BV!set(@, (i \div 2^b.l) + b.pos, 1),
                 !.pos  = @ + 1]

\* build(): m_size = n, and the two builders frozen.
EFBuild(b) ==
    [size |-> b.n, l |-> b.l, high |-> BV!FromBuilder(b.high), low |-> BV!FromBuilder(b.low)]

\* elias_fano(&bvb): count the ones, then push the position
\* of each, found with bit_vector::successor1, into a builder of that size.
RECURSIVE PushOnes(_, _, _, _)
PushOnes(b, bv, i, k) ==
    IF k = b.m THEN b
    ELSE LET j == BV!successor1(bv, i)
         IN PushOnes(EFPushBack(b, j), bv, j + 1, k + 1)

FromBitVector(bvb) ==
    LET bv == BV!FromBuilder(bvb)
        m  == num_ones(bv)
    IN EFBuild(PushOnes(NewEFBuilder(bvb.size, m), bv, 0, 0))

(***************************************************************************)
(* Queries                                                                 *)
(***************************************************************************)
\* Variant that does not subtract the ones before the n-th from its position.
select_no_offset(e, n) ==
    (rs_select(e.high, n) * 2^e.l) | BV!get_bits(e.low, n * e.l, e.l)

select(e, n) ==
    ((rs_select(e.high, n) - n) * 2^e.l) | BV!get_bits(e.low, n * e.l, e.l)

\* Variant that stops at a value whose low bits equal pos's.
RECURSIVE RankWalkStrict(_, _, _, _)
RankWalkStrict(e, h_pos, rnk, l_pos) ==
    IF h_pos > 0 /\ BV!get(e.high, h_pos - 1) = 1
       /\ BV!get_bits(e.low, (rnk - 1) * e.l, e.l) > l_pos
    THEN RankWalkStrict(e, h_pos - 1, rnk - 1, l_pos)
    ELSE rnk

\* The backward walk of rank over the ones of pos's bucket whose low bits
\* are >= l_pos.
RECURSIVE RankWalk(_, _, _, _)
RankWalk(e, h_pos, rnk, l_pos) ==
    IF h_pos > 0 /\ BV!get(e.high, h_pos - 1) = 1
       /\ BV!get_bits(e.low, (rnk - 1) * e.l, e.l) >= l_pos
    THEN RankWalk(e, h_pos - 1, rnk - 1, l_pos)
    ELSE rnk

rank(e, pos) ==
    IF pos = e.size THEN num_ones(e.high)
    ELSE LET h_rank == pos \div 2^e.l
             h_pos  == rs_select0(e.high, h_rank)
         IN RankWalk(e, h_pos, h_pos - h_rank, pos % 2^e.l)

\* Variant whose first test accepts any low bits up to pos's.
RECURSIVE AccessWalkLe(_, _, _, _)
AccessWalkLe(e, h_pos, rnk, l_pos) ==
    IF ~(h_pos > 0 /\ BV!get(e.high, h_pos - 1) = 1) THEN FALSE
    ELSE LET cur_low_bits == BV!get_bits(e.low, (rnk - 1) * e.l, e.l)
         IN IF cur_low_bits <= l_pos THEN TRUE
            ELSE AccessWalkLe(e, h_pos - 1, rnk - 1, l_pos)

\* operator[]: the same walk, returning as soon as the low bits are equal
\* (present) or smaller (absent).
RECURSIVE AccessWalk(_, _, _, _)
AccessWalk(e, h_pos, rnk, l_pos) ==
    IF ~(h_pos > 0 /\ BV!get(e.high, h_pos - 1) = 1) THEN FALSE
    ELSE LET cur_low_bits == BV!get_bits(e.low, (rnk - 1) * e.l, e.l)
         IN IF cur_low_bits = l_pos THEN TRUE
            ELSE IF cur_low_bits < l_pos THEN FALSE
            ELSE AccessWalk(e, h_pos - 1, rnk - 1, l_pos)

access(e, pos) ==
    LET h_rank == pos \div 2^e.l
        h_pos  == rs_select0(e.high, h_rank)
    IN AccessWalk(e, h_pos, h_pos - h_rank, pos % 2^e.l)

predecessor1(e, pos) == select(e, rank(e, pos + 1) - 1)
successor1(e, pos)   == select(e, rank(e, pos))

(***************************************************************************)
(* The client: either an elias_fano_builder(n, m) fed with push_back and   *)
(* frozen, or a bit_vector_builder of n bits frozen with elias_fano(&bvb); *)
(* then one query under its precondition.                                  *)
(***************************************************************************)
\* The words of a bit_vector_builder of n bits whose ones are S.
NavBuilder(n, S) ==
    [bits |-> [w \in 1..BV!words_for(n) |->
                 LET ws == {i \in S : i \div WordBits = w - 1}
                 IN  IF ws = {} THEN 0 ELSE FoldSet(LAMBDA i, acc : acc + 2^(i % WordBits), 0, ws)],
     size |-> n, cap |-> BV!words_for(n), cur |-> IF n > 0 THEN "back" ELSE "none"]

Init ==
    /\ \/ /\ \E n \in Universes, m \in Counts : efb = NewEFBuilder(n, m)
          /\ nav = NoBuilder /\ vals = <<>>
       \/ /\ \E n \in BitUniverses : \E S \in SUBSET (0..(n - 1)) :
               /\ nav = NavBuilder(n, S)
               /\ vals = [k \in 1..Cardinality(S) |-> KthOf(S, k - 1)]
          /\ efb = NoBuilder
    /\ ef = NoEF
    /\ res = NoQuery

\* Values handed to push_back: non-decreasing, below n, or up to n with PushTop.
PushValues(b) == b.last..(IF PushTop THEN b.n ELSE b.n - 1)

PushBack ==
    /\ efb # NoBuilder /\ ef = NoEF
    /\ efb.pos < efb.m
    /\ \E i \in PushValues(efb) :
         /\ efb' = EFPushBack(efb, i)
         /\ vals' = Append(vals, i)
    /\ UNCHANGED <<nav, ef, res>>

\* elias_fano(&builder), after any number of pushes up to m.
Build ==
    /\ efb # NoBuilder /\ ef = NoEF
    /\ ef' = EFBuild(efb)
    /\ UNCHANGED <<efb, nav, vals, res>>

BuildFromBits ==
    /\ nav # NoBuilder /\ ef = NoEF
    /\ ef' = FromBitVector(nav)
    /\ UNCHANGED <<efb, nav, vals, res>>

Values == Range(vals)

Ready == ef # NoEF /\ res.op = "none"

Query(op, arg, ret) ==
    /\ res' = [op |-> op, arg |-> arg, ret |-> ret]
    /\ UNCHANGED <<efb, nav, vals, ef>>

Select ==
    Ready /\ \E k \in 0..(num_ones(ef.high) - 1) : Query("select", k, select(ef, k))
Rank ==
    Ready /\ \E pos \in 0..ef.size : Query("rank", pos, rank(ef, pos))
Access ==
    Ready /\ \E pos \in 0..(ef.size - 1) : Query("access", pos, access(ef, pos))
Predecessor ==
    Ready /\ \E pos \in 0..(ef.size - 1) :
                /\ \E v \in Values : v <= pos
                /\ Query("pred", pos, predecessor1(ef, pos))
Successor ==
    Ready /\ \E pos \in 0..ef.size :
                /\ \E v \in Values : v >= pos
                /\ Query("succ", pos, successor1(ef, pos))

Next == PushBack \/ Build \/ BuildFromBits
        \/ Select \/ Rank \/ Access \/ Predecessor \/ Successor

Spec == Init /\ [][Next]_vars

(***************************************************************************)
(* Properties.                                                             *)
(***************************************************************************)
\* Types, and the constructor's assertion m_l < 64 (low_mask needs it).
TypeOK ==
    /\ vals \in Seq(Nat)
    /\ efb # NoBuilder =>
         /\ efb.l \in 0..(WordBits - 1)
         /\ efb.pos \in 0..efb.m
         /\ efb.high.bits \in Seq(0..BV!WordMask) /\ efb.low.bits \in Seq(0..BV!WordMask)
    /\ res.op \in {"none", "select", "rank", "access", "pred", "succ"}

\* select(k) decodes the k-th value pushed (or the k-th 1 of the bit
\* vector), for any split into high and low bits.
SelectCorrect ==
    res.op = "select" => res.ret = vals[res.arg + 1]

\* rank(pos) counts the values below pos: the backward walk over pos's
\* high bucket stops at the first value whose low bits are below pos's.
RankCorrect ==
    res.op = "rank" => res.ret = Cardinality({k \in DOMAIN vals : vals[k] < res.arg})

\* operator[](pos) tells whether pos is a value; predecessor1(pos) is the
\* greatest value <= pos and successor1(pos) the least value >= pos.
NeighbourCorrect ==
    /\ res.op = "access" => res.ret = (res.arg \in Values)
    /\ res.op = "pred" => res.ret = Max({v \in Values : v <= res.arg})
    /\ res.op = "succ" => res.ret = Min({v \in Values : v >= res.arg})
=============================================================================
