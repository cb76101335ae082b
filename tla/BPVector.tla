------------------------------ MODULE BPVector ------------------------------
(***************************************************************************)
(* bp_vector (src/succinct/bp_vector.{hpp,cpp}): the balanced-parenthesis  *)
(* vector and its find_close / find_open / enclose searches.               *)
(*                                                                         *)
(* The bits are kept in words of WordBits bits (64 in the code), scanned   *)
(* ByteBits at a time through precomputed tables (8), grouped in blocks of *)
(* BlockSize words (rs_bit_vector's block_size).  A search looks in the    *)
(* word of the position, then in the rest of its block, then climbs a      *)
(* min/max excess tree over the blocks.  Words are naturals < 2^WordBits,  *)
(* bit i of a word is bit WordBits * w + i of the vector.                  *)
(***************************************************************************)
EXTENDS Integers, Sequences, FiniteSetsExt

CONSTANTS
    WordBits,   \* bits per word (64)
    ByteBits,   \* bits per table lookup (8)
    BlockSize,  \* words per block (rs_bit_vector::block_size)
    Inputs      \* the bit sequences a bp_vector is built from

ASSUME /\ ByteBits \in Nat \ {0} /\ WordBits % ByteBits = 0
       /\ BlockSize \in Nat \ {0}

VARIABLES
    bits,      \* the bits of the vector (m_bits, as a sequence)
    built,     \* build_minmax_tree has run
    treesize,  \* m_treesize
    blockmm,   \* m_block_excess_minmax: [min, max] per block, block-relative
    supermm,   \* m_superblock_excess_minmax: [min, max] per tree node
    res        \* the last query: [op, pos, ret]

vars == <<bits, built, treesize, blockmm, supermm, res>>

\* What bp_vector promises, stated by definition.
Contract == INSTANCE BalancedParens

NBytes    == WordBits \div ByteBits
BlockBits == BlockSize * WordBits
Size      == Len(bits)
NWords    == (Size + WordBits - 1) \div WordBits
NBlocks   == (NWords + BlockSize - 1) \div BlockSize
Bytes     == 0..(2^ByteBits - 1)
MM(lo, hi) == [min |-> lo, max |-> hi]

\* m_bits[w]: the word holding bits WordBits * w ..; the bits past size()
\* (and a word past the end) read as 0.
Word(w) ==
    LET F[j \in 0..WordBits] ==
          IF j = 0 THEN 0 ELSE F[j - 1] + Contract!Bit(bits, w * WordBits + j - 1) * 2^(j - 1)
    IN F[WordBits]

BitOf(x, j) == (x \div 2^j) % 2

popcount(x) == Cardinality({j \in 0..(WordBits - 1) : BitOf(x, j) = 1})

(***************************************************************************)
(* rs_bit_vector ranks (its source is not in the repository: rank is the  *)
(* number of 1 bits before a position, sub-block ranks are block-relative) *)
(***************************************************************************)
rank(p) == Len(SelectSeq(SubSeq(bits, 1, IF p < Size THEN p ELSE Size), LAMBDA b : b = 1))

block_rank(block) == rank(block * BlockBits)

\* Excess at the start of word `offset' of a block, relative to the block.
sub_block_excess(block, offset) ==
    2 * (rank(block * BlockBits + offset * WordBits) - block_rank(block)) - offset * WordBits

get_block_excess(block) == 2 * block_rank(block) - block * BlockBits

(***************************************************************************)
(* excess_tables: per byte value c, the excess of c read from bit 0 up     *)
(* (m_excess), and for k = 1 .. ByteBits the 1-based bit at which the     *)
(* forward excess first reaches -k (m_fwd_pos) and the backward excess,   *)
(* read from the top bit down, first reaches k (m_bwd_pos); 0 if never.   *)
(***************************************************************************)
FwdExc(c, n) == 2 * Cardinality({j \in 0..(n - 1) : BitOf(c, j) = 1}) - n
BwdExc(c, n) == 2 * Cardinality({j \in 0..(n - 1) : BitOf(c, ByteBits - 1 - j) = 1}) - n

FirstOr0(S) == IF S = {} THEN 0 ELSE Min(S) + 1

m_excess  == [c \in Bytes |-> FwdExc(c, ByteBits)]
m_fwd_pos == [c \in Bytes |-> [k \in 1..ByteBits |->
                FirstOr0({i \in 0..(ByteBits - 1) : FwdExc(c, i + 1) = -k})]]
m_bwd_pos == [c \in Bytes |-> [k \in 1..ByteBits |->
                FirstOr0({i \in 0..(ByteBits - 1) : BwdExc(c, i + 1) = k})]]

(***************************************************************************)
(* build_minmax_tree                                                       *)
(***************************************************************************)
\* Min and max of the block-relative excess over the bits of block b that
\* are below size() (the last word stops at the bit boundary).
\* Variant whose min and max start from the first bit, not from 0.
BlockMinMaxFromFirstBit(b) ==
    LET lo == b * BlockBits
        hi == IF (b + 1) * BlockBits < Size THEN (b + 1) * BlockBits ELSE Size
        ex == {2 * (rank(p) - rank(lo)) - (p - lo) : p \in (lo + 1)..hi}
    IN MM(Min(ex), Max(ex))

BlockMinMax(b) ==
    LET lo == b * BlockBits
        hi == IF (b + 1) * BlockBits < Size THEN (b + 1) * BlockBits ELSE Size
        ex == {2 * (rank(p) - rank(lo)) - (p - lo) : p \in lo..hi}
    IN MM(Min(ex), Max(ex))

TreeSizeFor(n) == Min({t \in {2^i : i \in 0..n} : t >= n})

\* Absolute [min, max] of the blocks i and i + 1 (if it exists) of the
\* lowest layer.
\* Variant that leaves the second block of the pair out.
PairMinMaxFirstOnly(bmm, i) ==
    MM(get_block_excess(i) + bmm[i + 1].min, get_block_excess(i) + bmm[i + 1].max)

PairMinMax(bmm, i) ==
    LET ids == {b \in {i, i + 1} : b < NBlocks}
    IN MM(Min({get_block_excess(b) + bmm[b + 1].min : b \in ids}),
          Max({get_block_excess(b) + bmm[b + 1].max : b \in ids}))

\* Node n of the tree: the lowest layer is filled pair by pair, the rest
\* bottom-up from the children; nodes no block reaches stay [0, 0].
RECURSIVE SuperNode(_, _, _)
SuperNode(bmm, ts, n) ==
    IF n >= ts \div 2
    THEN IF \E i \in 0..(NBlocks - 1) : i % 2 = 0 /\ (ts + i) \div 2 = n
         THEN PairMinMax(bmm, CHOOSE i \in 0..(NBlocks - 1) : i % 2 = 0 /\ (ts + i) \div 2 = n)
         ELSE MM(0, 0)
    ELSE IF n = 0 THEN MM(0, 0)
    ELSE LET l == SuperNode(bmm, ts, 2 * n)
             r == SuperNode(bmm, ts, 2 * n + 1)
         IN MM(Min({l.min, r.min}), Max({l.max, r.max}))

(***************************************************************************)
(* Searches.  A search result is [found, ret]; NotFound leaves ret at the  *)
(* code's initial -1.                                                      *)
(***************************************************************************)
NotFound == [found |-> FALSE, ret |-> -1]
Found(r) == [found |-> TRUE, ret |-> r]

\* find_close_in_word: bytes from the lowest up; cur_exc is the number of
\* closing parentheses still needed.
RECURSIVE find_close_in_word(_, _, _)
find_close_in_word(word, cur_exc, i) ==
    IF i = NBytes THEN NotFound
    ELSE LET shift    == i * ByteBits
             cur_byte == (word \div 2^shift) % 2^ByteBits
             bit_pos  == IF cur_exc \in 1..ByteBits THEN m_fwd_pos[cur_byte][cur_exc] ELSE 0
         IN IF bit_pos # 0 THEN Found(shift + bit_pos - 1)
            ELSE find_close_in_word(word, cur_exc + m_excess[cur_byte], i + 1)

\* find_open_in_word: bytes from the highest down.
RECURSIVE find_open_in_word(_, _, _)
find_open_in_word(word, cur_exc, i) ==
    IF i = NBytes THEN NotFound
    ELSE LET shift    == (NBytes - 1 - i) * ByteBits
             cur_byte == (word \div 2^shift) % 2^ByteBits
             bit_pos  == IF cur_exc \in 1..ByteBits THEN m_bwd_pos[cur_byte][cur_exc] ELSE 0
         IN IF bit_pos # 0 THEN Found(shift + (ByteBits - bit_pos))
            ELSE find_open_in_word(word, cur_exc - m_excess[cur_byte], i + 1)

\* The loop of find_close_in_block over the words sub_block_offset ..
RECURSIVE CloseBlockLoop(_, _, _, _)
CloseBlockLoop(block_offset, block, block_excess, sub_block_offset) ==
    IF sub_block_offset >= BlockSize THEN NotFound
    ELSE LET cur_exc   == block_excess + sub_block_excess(block, sub_block_offset)
             sub_block == block_offset + sub_block_offset
             r == IF cur_exc <= WordBits
                  THEN find_close_in_word(Word(sub_block), cur_exc, 0) ELSE NotFound
         IN IF r.found THEN Found(r.ret + sub_block * WordBits)
            ELSE CloseBlockLoop(block_offset, block, block_excess, sub_block_offset + 1)

\* Variant that gives up when the excess equals the bits left.
find_close_in_block_ge(block_offset, excess, start) ==
    IF excess >= (BlockSize - start) * WordBits THEN NotFound
    ELSE LET block == block_offset \div BlockSize
         IN CloseBlockLoop(block_offset, block, excess - sub_block_excess(block, start), start)

find_close_in_block(block_offset, excess, start) ==
    IF excess > (BlockSize - start) * WordBits THEN NotFound
    ELSE LET block == block_offset \div BlockSize
         IN CloseBlockLoop(block_offset, block, excess - sub_block_excess(block, start), start)

\* The loop of find_open_in_block over the words sub_block_offset down to 0;
\* last is the excess at the start of the word after sub_block_offset.
RECURSIVE OpenBlockLoop(_, _, _, _, _, _)

\* Variant that never moves last_excess_offset to the word just scanned.
OpenBlockLoopStale(block_offset, block, excess, block_excess, last, sub_block_offset) ==
    IF sub_block_offset < 0 THEN NotFound
    ELSE LET cur_exc   == excess - (block_excess - last)
             sub_block == block_offset + sub_block_offset
             r == IF cur_exc <= WordBits
                  THEN find_open_in_word(Word(sub_block), cur_exc, 0) ELSE NotFound
         IN IF r.found THEN Found(r.ret + sub_block * WordBits)
            ELSE OpenBlockLoop(block_offset, block, excess, block_excess,
                               last, sub_block_offset - 1)

OpenBlockLoop(block_offset, block, excess, block_excess, last, sub_block_offset) ==
    IF sub_block_offset < 0 THEN NotFound
    ELSE LET cur_exc   == excess - (block_excess - last)
             sub_block == block_offset + sub_block_offset
             r == IF cur_exc <= WordBits
                  THEN find_open_in_word(Word(sub_block), cur_exc, 0) ELSE NotFound
         IN IF r.found THEN Found(r.ret + sub_block * WordBits)
            ELSE OpenBlockLoop(block_offset, block, excess, block_excess,
                               sub_block_excess(block, sub_block_offset), sub_block_offset - 1)

find_open_in_block(block_offset, excess, start) ==
    IF excess > start * WordBits THEN NotFound
    ELSE LET block == block_offset \div BlockSize
             block_excess ==
                IF start = BlockSize
                THEN 2 * (block_rank(block + 1) - block_rank(block)) - BlockSize * WordBits
                ELSE sub_block_excess(block, start)
         IN OpenBlockLoop(block_offset, block, excess, block_excess, block_excess, start - 1)

\* in_superblock_range; a leaf past the last block is outside every range.
in_superblock_range(superblock, excess) ==
    IF superblock < treesize
    THEN excess >= supermm[superblock + 1].min /\ excess <= supermm[superblock + 1].max
    ELSE LET block == superblock - treesize
         IN /\ block < NBlocks
            /\ excess >= get_block_excess(block) + blockmm[block + 1].min
            /\ excess <= get_block_excess(block) + blockmm[block + 1].max

\* search_minmax_tree: climb while the sibling in the search direction
\* does not hold the excess, then descend to the nearest block holding it.
\* -1 stands for the climb reaching node 0 (assert(cur_superblock)).
RECURSIVE SearchDown(_, _, _)
SearchDown(cur, excess, direction) ==
    IF cur >= treesize THEN cur - treesize
    ELSE LET next == cur * 2 + (1 - direction)
         IN IF in_superblock_range(next, excess) THEN SearchDown(next, excess, direction)
            ELSE SearchDown(next + direction * 2 - 1, excess, direction)

RECURSIVE SearchUp(_, _, _)
SearchUp(cur, excess, direction) ==
    IF cur = 0 THEN -1
    ELSE LET going_back == (cur % 2) = direction
             up    == cur \div 2
             child == up * 2 + direction
         IN IF ~going_back /\ in_superblock_range(child, excess)
            THEN SearchDown(child, excess, direction)
            ELSE SearchUp(up, excess, direction)

search_minmax_tree(block, excess, direction) == SearchUp(treesize + block, excess, direction)

\* bp_vector::find_close(pos): the word after pos padded with opening
\* parentheses, then the rest of the block, then the tree.
find_close(pos) ==
    LET word_pos     == (pos + 1) \div WordBits
        shift        == (pos + 1) % WordBits
        shifted_word == Word(word_pos) \div 2^shift
        padded_word  == shifted_word + (IF shift = 0 THEN 0 ELSE 2^WordBits - 2^(WordBits - shift))
        in_word      == find_close_in_word(padded_word, 1, 0)
        block        == word_pos \div BlockSize
        local_excess == 2 * popcount(shifted_word) - (WordBits - shift)
        in_block     == find_close_in_block(block * BlockSize, local_excess + 1,
                                            (word_pos % BlockSize) + 1)
        pos_excess   == 2 * rank(pos) - pos
        found_block  == search_minmax_tree(block, pos_excess, 1)
        in_found     == find_close_in_block(found_block * BlockSize,
                                            get_block_excess(found_block) - pos_excess, 0)
    IN IF in_word.found THEN in_word.ret + pos + 1
       ELSE IF in_block.found THEN in_block.ret
       ELSE IF found_block < 0 THEN -1
       ELSE in_found.ret

\* bp_vector::find_open(pos): the bits of pos's word before pos, shifted
\* to the top and padded with closing parentheses, then the earlier words
\* of the block, then the tree.
find_open(pos) ==
    LET word_pos     == pos \div WordBits
        len          == pos % WordBits
        shifted_word == IF len = 0 THEN 0
                        ELSE (Word(word_pos) * 2^(WordBits - len)) % 2^WordBits
        in_word      == find_open_in_word(shifted_word, 1, 0)
        block        == word_pos \div BlockSize
        local_excess == -(2 * popcount(shifted_word) - len)
        in_block     == find_open_in_block(block * BlockSize, local_excess + 1,
                                           word_pos % BlockSize)
        pos_excess   == 2 * rank(pos) - pos - 1
        found_block  == search_minmax_tree(block, pos_excess, 0)
        in_found     == find_open_in_block(found_block * BlockSize,
                                           get_block_excess(found_block + 1) - pos_excess,
                                           BlockSize)
    IN IF in_word.found THEN in_word.ret + pos - WordBits
       ELSE IF in_block.found THEN in_block.ret
       ELSE IF found_block < 0 THEN -1
       ELSE in_found.ret

\* bp_vector::enclose(pos) is find_open(pos) on an opening parenthesis.
enclose(pos) == find_open(pos)

(***************************************************************************)
(* Actions.                                                                *)
(***************************************************************************)
Init ==
    /\ bits \in Inputs
    /\ built = FALSE
    /\ treesize = 0
    /\ blockmm = <<>>
    /\ supermm = <<>>
    /\ res = [op |-> "none", pos |-> 0, ret |-> 0]

\* The constructor: rs_bit_vector over the bits, then build_minmax_tree
\* (which returns at once on an empty vector).
Build ==
    /\ ~built
    /\ built' = TRUE
    /\ IF Size = 0
       THEN UNCHANGED <<treesize, blockmm, supermm>>
       ELSE LET bmm == [b \in 1..NBlocks |-> BlockMinMax(b - 1)]
                ts  == TreeSizeFor(NBlocks)
            IN /\ blockmm' = bmm
               /\ treesize' = ts
               /\ supermm' = [n \in 1..ts |-> SuperNode(bmm, ts, n - 1)]
    /\ UNCHANGED <<bits, res>>

\* Queries do not change the vector, so a behaviour makes one query: the
\* query's answer depends only on the vector and the position.
\* find_close on an opening parenthesis (assert((*this)[pos])).
FindClose ==
    /\ built /\ res.op = "none"
    /\ \E pos \in 0..(Size - 1) :
         /\ Contract!Bit(bits, pos) = 1
         /\ res' = [op |-> "close", pos |-> pos, ret |-> find_close(pos)]
    /\ UNCHANGED <<bits, built, treesize, blockmm, supermm>>

\* find_open on a closing parenthesis (assert(pos)).
FindOpen ==
    /\ built /\ res.op = "none"
    /\ \E pos \in 1..(Size - 1) :
         /\ Contract!Bit(bits, pos) = 0
         /\ res' = [op |-> "open", pos |-> pos, ret |-> find_open(pos)]
    /\ UNCHANGED <<bits, built, treesize, blockmm, supermm>>

\* enclose on an opening parenthesis that has a parent.
Enclose ==
    /\ built /\ res.op = "none"
    /\ \E pos \in 0..(Size - 1) :
         /\ Contract!Bit(bits, pos) = 1
         /\ Contract!Excess(bits, pos) > 0
         /\ res' = [op |-> "enclose", pos |-> pos, ret |-> enclose(pos)]
    /\ UNCHANGED <<bits, built, treesize, blockmm, supermm>>

Next == Build \/ FindClose \/ FindOpen \/ Enclose

Spec == Init /\ [][Next]_vars

(***************************************************************************)
(* Properties.                                                             *)
(***************************************************************************)
TypeOK ==
    /\ bits \in Seq({0, 1})
    /\ built \in BOOLEAN
    /\ treesize \in Nat
    /\ \A b \in DOMAIN blockmm : blockmm[b].min \in -BlockBits..0 /\ blockmm[b].max \in 0..BlockBits
    /\ res.op \in {"none", "close", "open", "enclose"}
    /\ res.ret \in Int

\* find_close returns the matching closing parenthesis, whichever of its
\* three stages (word, block, min/max tree) finds it.
FindCloseCorrect ==
    res.op = "close" => res.ret = Contract!find_close(bits, res.pos)

\* find_open and enclose return the matching / enclosing opening
\* parenthesis, whichever stage finds it.
FindOpenCorrect ==
    res.op \in {"open", "enclose"} => res.ret = Contract!find_open(bits, res.pos)

\* Reference meaning of the tree: a node's [min, max] is that of the
\* absolute excess over the blocks below it (build_minmax_tree, bottom-up).
BlocksUnder(n) ==
    {b \in 0..(NBlocks - 1) : \E k \in 1..NBlocks : (treesize + b) \div 2^k = n}
AbsExcessOf(B) ==
    UNION {{2 * rank(p) - p : p \in (b * BlockBits)..Min({(b + 1) * BlockBits, Size})} : b \in B}

\* Every node of the min/max tree holds the true min and max of the
\* excess over the blocks it covers (the searches rely on it to skip).
MinMaxTreeCorrect ==
    built /\ Size > 0 =>
      \A n \in 1..(treesize - 1) :
        BlocksUnder(n) # {} =>
          supermm[n + 1] = MM(Min(AbsExcessOf(BlocksUnder(n))), Max(AbsExcessOf(BlocksUnder(n))))

====
