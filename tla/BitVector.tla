----------------------------- MODULE BitVector -----------------------------
(***************************************************************************)
(* bit_vector_builder and bit_vector (src/succinct/bit_vector.hpp) as      *)
(* operators on values, used by BitVectorBuilder and EliasFano.            *)
(*                                                                         *)
(* A builder is [bits, size, cap, cur]: bits is m_bits (words, naturals    *)
(* below 2^WordBits, bit i of word w is bit WordBits * w + i), size is     *)
(* m_size, cap the capacity of the std::vector, and cur what m_cur_word    *)
(* points to: "back" (the last word), "none" (never set) or "stale" (the  *)
(* storage it pointed into was reallocated).  std::vector grows as in      *)
(* libstdc++: push_back to max(1, 2 * size), insert to size + max(size,   *)
(* n), reserve to exactly the request.                                     *)
(***************************************************************************)
EXTENDS Integers, Sequences, Bitwise

CONSTANT WordBits   \* bits per word (64)

ASSUME WordBits \in Nat \ {0}

WordMask == 2^WordBits - 1

words_for(n) == (n + WordBits - 1) \div WordBits

\* x << k and x >> k on a word (bits shifted past the top are lost).
Shl(x, k) == (x * 2^k) % 2^WordBits
Shr(x, k) == x \div 2^k

\* m_bits[w], 0-based; 0 past the end.
WordAt(bits, w) == IF w < Len(bits) THEN bits[w + 1] ELSE 0

BitAt(bits, i) == Shr(WordAt(bits, i \div WordBits), i % WordBits) % 2

\* Capacity after appending k words to a vector of length len.
GrowPush(len, cap)      == IF len < cap THEN cap ELSE IF len = 0 THEN 1 ELSE 2 * len
GrowInsert(len, cap, k) == IF len + k <= cap THEN cap ELSE len + (IF len >= k THEN len ELSE k)

\* m_bits.push_back(w): cur is set to the new back by every caller.
PushWord(b, w) ==
    [b EXCEPT !.bits = Append(@, w), !.cap = GrowPush(Len(b.bits), b.cap)]

\* *m_cur_word |= x: a write through a stale pointer is lost.
OrCur(b, x) ==
    IF b.cur = "back"
    THEN [b EXCEPT !.bits[Len(b.bits)] = @ | x]
    ELSE b

(***************************************************************************)
(* bit_vector_builder                                                      *)
(***************************************************************************)
\* bit_vector_builder(size, init): words all ones (-int64_t(init)) or all
\* zeros, and the padding bits of the last word cleared.
NewBuilder(size, init) ==
    LET nw   == words_for(size)
        fill == IF init THEN WordMask ELSE 0
        last == IF init /\ size % WordBits # 0
                THEN Shr(fill, WordBits - (size % WordBits)) ELSE fill
    IN [bits |-> [w \in 1..nw |-> IF w = nw THEN last ELSE fill],
        size |-> size, cap |-> nw, cur |-> IF size > 0 THEN "back" ELSE "none"]

\* reserve(size): reallocates when the request exceeds the capacity,
\* leaving m_cur_word pointing into the old storage.
reserve(b, size) ==
    IF words_for(size) > b.cap
    THEN [b EXCEPT !.cap = words_for(size),
                   !.cur = IF @ = "back" THEN "stale" ELSE @]
    ELSE b

push_back(b, x) ==
    LET pos_in_word == b.size % WordBits
        b1 == IF pos_in_word = 0 THEN [PushWord(b, 0) EXCEPT !.cur = "back"] ELSE b
    IN [OrCur(b1, Shl(x, pos_in_word)) EXCEPT !.size = @ + 1]

\* Variant that clears a bit by subtracting it.
set_by_subtract(b, i, x) ==
    LET w == i \div WordBits + 1
        m == 2^(i % WordBits)
    IN [b EXCEPT !.bits[w] = IF x = 1 THEN @ | m ELSE @ - m]

set(b, i, x) ==
    LET w == i \div WordBits + 1
        m == 2^(i % WordBits)
    IN [b EXCEPT !.bits[w] = IF x = 1 THEN @ | m ELSE @ & (WordMask - m)]

\* Variant that spills into a new word already when the bits just fit.
append_bits_spill_early(b, x, len) ==
    LET pos_in_word == b.size % WordBits
        b1 == [b EXCEPT !.size = @ + len]
        b2 == IF pos_in_word = 0 THEN PushWord(b1, x)
              ELSE LET o == OrCur(b1, Shl(x, pos_in_word))
                   IN IF len >= WordBits - pos_in_word
                      THEN PushWord(o, Shr(x, WordBits - pos_in_word)) ELSE o
    IN [b2 EXCEPT !.cur = "back"]

append_bits(b, x, len) ==
    LET pos_in_word == b.size % WordBits
        b1 == [b EXCEPT !.size = @ + len]
        b2 == IF pos_in_word = 0 THEN PushWord(b1, x)
              ELSE LET o == OrCur(b1, Shl(x, pos_in_word))
                   IN IF len > WordBits - pos_in_word
                      THEN PushWord(o, Shr(x, WordBits - pos_in_word)) ELSE o
    IN [b2 EXCEPT !.cur = "back"]

zero_extend(b, n) ==
    LET size   == b.size + n
        needed == words_for(size) - Len(b.bits)
    IN IF needed > 0
       THEN [b EXCEPT !.size = size,
                      !.bits = @ \o [w \in 1..needed |-> 0],
                      !.cap  = GrowInsert(Len(b.bits), b.cap, needed),
                      !.cur  = "back"]
       ELSE [b EXCEPT !.size = size]

\* move_bits()'s assertion: exactly the words the size needs.
MoveBitsOK(b) == words_for(b.size) = Len(b.bits)

(***************************************************************************)
(* bit_vector: [bits, size], stolen from a builder.                         *)
(***************************************************************************)
FromBuilder(b) == [bits |-> b.bits, size |-> b.size]

get(v, pos) == BitAt(v.bits, pos)

\* Variant that does not mask the bits taken from the second word.
get_bits_unmasked(v, pos, len) ==
    LET block == pos \div WordBits
        shift == pos % WordBits
        mask  == IF len = WordBits THEN WordMask ELSE 2^len - 1
    IN IF len = 0 THEN 0
       ELSE IF shift + len <= WordBits THEN Shr(WordAt(v.bits, block), shift) & mask
       ELSE Shr(WordAt(v.bits, block), shift) | Shl(WordAt(v.bits, block + 1), WordBits - shift)

get_bits(v, pos, len) ==
    LET block == pos \div WordBits
        shift == pos % WordBits
        mask  == IF len = WordBits THEN WordMask ELSE 2^len - 1
    IN IF len = 0 THEN 0
       ELSE IF shift + len <= WordBits THEN Shr(WordAt(v.bits, block), shift) & mask
       ELSE Shr(WordAt(v.bits, block), shift)
              | (Shl(WordAt(v.bits, block + 1), WordBits - shift) & mask)

\* broadword::lsb / msb: index of the lowest / highest 1 bit of a nonzero
\* word (the word is nonzero where they are used).
lsb(x) == CHOOSE i \in 0..(WordBits - 1) : Shr(x, i) % 2 = 1 /\ x % 2^i = 0
msb(x) == CHOOSE i \in 0..(WordBits - 1) : Shr(x, i) = 1

Flip(x) == WordMask - x

\* successor1 / successor0: the word of pos with the bits below pos
\* cleared, then the following words until one is nonzero.
RECURSIVE ScanUp(_, _, _, _)
ScanUp(v, block, word, ones) ==
    IF word # 0 THEN block * WordBits + lsb(word)
    ELSE IF block + 1 >= Len(v.bits) THEN -1
    ELSE ScanUp(v, block + 1,
                IF ones THEN WordAt(v.bits, block + 1) ELSE Flip(WordAt(v.bits, block + 1)),
                ones)

RECURSIVE ScanDown(_, _, _, _)
ScanDown(v, block, word, ones) ==
    IF word # 0 THEN block * WordBits + msb(word)
    ELSE IF block = 0 THEN -1
    ELSE ScanDown(v, block - 1,
                  IF ones THEN WordAt(v.bits, block - 1) ELSE Flip(WordAt(v.bits, block - 1)),
                  ones)

\* Variant that does not clear the bits below pos.
successor1_unmasked(v, pos) ==
    LET block == pos \div WordBits
    IN ScanUp(v, block, WordAt(v.bits, block), TRUE)

successor1(v, pos) ==
    LET block == pos \div WordBits
        shift == pos % WordBits
    IN ScanUp(v, block, Shl(Shr(WordAt(v.bits, block), shift), shift), TRUE)

successor0(v, pos) ==
    LET block == pos \div WordBits
        shift == pos % WordBits
    IN ScanUp(v, block, Shl(Shr(Flip(WordAt(v.bits, block)), shift), shift), FALSE)

\* predecessor1 / predecessor0: (word << shift) >> shift keeps the bits up
\* to pos.
predecessor1(v, pos) ==
    LET block == pos \div WordBits
        shift == WordBits - (pos % WordBits) - 1
    IN ScanDown(v, block, Shr(Shl(WordAt(v.bits, block), shift), shift), TRUE)

predecessor0(v, pos) ==
    LET block == pos \div WordBits
        shift == WordBits - (pos % WordBits) - 1
    IN ScanDown(v, block, Shr(Shl(Flip(WordAt(v.bits, block)), shift), shift), FALSE)
=============================================================================
