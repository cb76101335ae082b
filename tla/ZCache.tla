------------------------------- MODULE ZCache -------------------------------
(***************************************************************************)
(* zrandom::decompressor (src/semi_index/zrandom.{hpp,cpp}): random access *)
(* into a corpus compressed in blocks, through an iterator that keeps the  *)
(* block it last used and a cache of decompressed blocks with timestamps.  *)
(*                                                                         *)
(* The compressed file is the text Text cut into blocks of B characters;  *)
(* inflating block id gives back its slice (read_block).  The iterators    *)
(* are copies of one begin() iterator, so they share the m_cur_block      *)
(* holder, as json + cursor.get_offset() does in json_select.cpp.          *)
(* cache::m_timestamp is left out: get() and put() stamp entries with it  *)
(* and tick() increments it, but only tick()'s wrap-around test reads it, *)
(* and a uint64 counter incremented once per block access does not wrap;  *)
(* put()'s eviction compares the block id, not the stamp.                  *)
(***************************************************************************)
EXTENDS Integers, Sequences, FiniteSets, Functions, TLC

CONSTANTS
    Text,        \* the original corpus, a sequence of characters
    Alphabet,    \* the characters Text is made of
    B,           \* m_block_size
    MaxEntries,  \* cache::max_entries
    Iters,       \* iterator copies sharing one m_cur_block
    MaxStep      \* the largest iterator advance in one step

ASSUME B \in Nat \ {0} /\ MaxEntries \in Nat \ {0}

N == Len(Text)
NumBlocks == (N + B - 1) \div B
BlockIds == 0..(NumBlocks - 1)

\* A block_t: the offset of its first character and its characters.
Blocks == [first : Nat, data : Seq(Alphabet)]
NoBlock == [first |-> 0, data |-> <<>>]
NoOut == [pos |-> -1, ch |-> "none"]

MinOf(a, b) == IF a < b THEN a ELSE b

\* read_block's inflate of block id: m_block_size characters, fewer for the
\* last block (block.resize(m_block_size - strm.avail_out)).
Decompress(id) ==
    [first |-> id * B, data |-> SubSeq(Text, id * B + 1, MinOf((id + 1) * B, N))]

VARIABLES
    cache,  \* cache::m_cache: block id -> the block
    pos,    \* each iterator's m_absolute_pos
    cur,    \* the shared *m_cur_block (NoBlock while null)
    out     \* the last dereference: the position and the character returned

vars == <<cache, pos, cur, out>>

-----------------------------------------------------------------------------
(* cache *)

\* The entry put() evicts: the loop compares iter->first, which is the block
\* id, with min_timestamp, so it keeps the smallest block id.
Victim(c) == CHOOSE k \in DOMAIN c : \A j \in DOMAIN c : k <= j

\* Mutant: put() evicts only once the cache is over max_entries.
Put_late(c, key, blk) ==
    LET room == IF Cardinality(DOMAIN c) > MaxEntries
                THEN Restrict(c, DOMAIN c \ {Victim(c)})
                ELSE c
    IN  room @@ (key :> blk)

\* The cache after put(key, blk): evict when full, then insert.
Put(c, key, blk) ==
    LET room == IF Cardinality(DOMAIN c) = MaxEntries
                THEN Restrict(c, DOMAIN c \ {Victim(c)})
                ELSE c
    IN  room @@ (key :> blk)

\* cache::get(id) on a hit, as read_block uses it: the cached block becomes
\* *m_cur_block.
get(id) ==
    /\ id \in DOMAIN cache
    /\ UNCHANGED cache
    /\ cur' = cache[id]

\* decompressor::read_block(id): a hit in get(), or on a miss the block is
\* inflated and put(); the block returned becomes the shared *m_cur_block.
read_block(id) ==
    \/ get(id)
    \/ /\ id \notin DOMAIN cache
       /\ cache' = Put(cache, id, Decompress(id))
       /\ cur' = Decompress(id)

-----------------------------------------------------------------------------
(* iterator *)

pos_in_block(p) ==
    /\ p >= cur.first
    /\ p < cur.first + Len(cur.data)

\* second[m_absolute_pos - first]: outside the vector the read is undefined
\* and may return any character.
Read(blk, p) ==
    LET i == p - blk.first + 1
    IN  IF i \in 1..Len(blk.data) THEN {blk.data[i]} ELSE Alphabet

\* increment(), decrement() and advance(n) move the position only.
advance(it, n) ==
    /\ pos[it] + n \in 0..N
    /\ pos' = [pos EXCEPT ![it] = pos[it] + n]
    /\ UNCHANGED <<cache, cur, out>>

\* Mutant: check_cur_block() reuses any non-null block.
check_cur_block_any(it) ==
    IF cur # NoBlock
    THEN UNCHANGED <<cache, cur>>
    ELSE read_block(pos[it] \div B)

\* dereference(): check_cur_block() keeps the shared block when the
\* position is in it, else reads block m_absolute_pos / block_size; then the
\* character is read from the (new) current block.  Dereferencing end() is
\* not done by the callers.
check_cur_block(it) ==
    IF cur # NoBlock /\ pos_in_block(pos[it])
    THEN UNCHANGED <<cache, cur>>
    ELSE read_block(pos[it] \div B)

dereference(it) ==
    /\ pos[it] < N
    /\ check_cur_block(it)
    /\ \E ch \in Read(cur', pos[it]) : out' = [pos |-> pos[it], ch |-> ch]
    /\ UNCHANGED pos

Init ==
    /\ cache = <<>>
    /\ pos = [it \in Iters |-> 0]
    /\ cur = NoBlock
    /\ out = NoOut

Next ==
    \E it \in Iters :
        \/ dereference(it)
        \/ \E n \in (-MaxStep)..MaxStep \ {0} : advance(it, n)

Spec == Init /\ [][Next]_vars

-----------------------------------------------------------------------------
(* Properties *)

\* Every dereference returns the corpus character at the iterator's
\* position, whether the shared m_cur_block still holds it, the cache holds
\* it (after any evictions), or it is inflated again.
DerefCorrect == out # NoOut => out.ch = Text[out.pos + 1]

\* The cache never holds more than max_entries blocks: put() evicts before
\* it inserts into a full cache (assert at zrandom.cpp:105).
CacheBounded == Cardinality(DOMAIN cache) <= MaxEntries

=============================================================================
