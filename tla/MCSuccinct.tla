----------------------------- MODULE MCSuccinct -----------------------------
(***************************************************************************)
(* The bit-level parts of the succinct library checked in one run: a      *)
(* behaviour either builds a bp_vector and makes one query (BPVector), or *)
(* drives a bit_vector_builder and queries the frozen bit_vector          *)
(* (BitVectorBuilder).  The two never share a behaviour, so the state     *)
(* space is the sum of theirs; each property is about its own part.       *)
(***************************************************************************)
EXTENDS Integers, Sequences, TLC

VARIABLES
    part,                                           \* "bp" or "bv"
    bits, built, treesize, blockmm, supermm, bpres, \* BPVector's
    bvb, ref, frozen, bvres                         \* BitVectorBuilder's

bpvars == <<bits, built, treesize, blockmm, supermm, bpres>>
bvvars == <<bvb, ref, frozen, bvres>>
vars   == <<part, bpvars, bvvars>>

\* The sequences of length len that close `open' pending parentheses and
\* never close more than are open (Dyck words when open = 0).
RECURSIVE DyckFrom(_, _)
DyckFrom(len, open) ==
    IF len = 0 THEN (IF open = 0 THEN {<<>>} ELSE {})
    ELSE (IF open < len THEN {<<1>> \o s : s \in DyckFrom(len - 1, open + 1)} ELSE {})
         \cup (IF open > 0 THEN {<<0>> \o s : s \in DyckFrom(len - 1, open - 1)} ELSE {})

\* Every balanced sequence of length 16 inside 9 more pairs: 34 bits.
Nested == {[i \in 1..9 |-> 1] \o s \o [i \in 1..9 |-> 0] : s \in DyckFrom(16, 0)}

\* On 4-bit words (two 2-bit table bytes) and 2-word blocks of 8 bits:
\* lengths 18 and 20 give 3 blocks (the last one partial for 18) under a
\* tree of 4 leaves; the nested sequences give 5 blocks, the last one of
\* 2 bits, under a tree of 8 leaves of which 3 lie past the last block,
\* so the opening pairs are matched through three levels of the tree.
BPInputs == DyckFrom(18, 0) \cup DyckFrom(20, 0) \cup Nested

BP == INSTANCE BPVector
        WITH WordBits <- 4, ByteBits <- 2, BlockSize <- 2, Inputs <- BPInputs,
             res <- bpres

\* 4-bit words, up to 12 bits (three words), builders made with 0, 4 and
\* 5 bits; appends of 1 to 4 bits straddle a word boundary; reserve on
\* the empty builder, as elias_fano_builder calls it.
BV == INSTANCE BitVectorBuilder
        WITH WordBits <- 4, InitSizes <- {0, 4, 5}, MaxSize <- 12,
             AppendLens <- {1, 2, 3, 4}, ExtendLens <- {1, 3, 4},
             ReserveAt <- {0}, ReserveSizes <- {8}, res <- bvres

\* The variables of the part a behaviour does not run keep their initial
\* values.
BPIdle == bits = <<>> /\ built = FALSE /\ treesize = 0 /\ blockmm = <<>>
          /\ supermm = <<>> /\ bpres = [op |-> "none", pos |-> 0, ret |-> 0]
BVIdle == bvb = BV!NewBuilder(0, FALSE) /\ ref = <<>> /\ frozen = FALSE
          /\ bvres = BV!NoQuery

Init ==
    \/ part = "bp" /\ BP!Init /\ BVIdle
    \/ part = "bv" /\ BV!Init /\ BPIdle

Next ==
    \/ part = "bp" /\ BP!Next /\ UNCHANGED <<part, bvvars>>
    \/ part = "bv" /\ BV!Next /\ UNCHANGED <<part, bpvars>>

Spec == Init /\ [][Next]_vars

\* The types of the part that runs.
TypeOK ==
    /\ part \in {"bp", "bv"}
    /\ part = "bp" => BP!TypeOK
    /\ part = "bv" => BV!TypeOK

\* bp_vector::find_close returns the matching closing parenthesis: the
\* in-word scan, the block scan and the climb of the min-max tree agree
\* with the excess-walk definition (BalancedParens).
FindCloseCorrect == part = "bp" => BP!FindCloseCorrect

\* bp_vector::find_open and enclose return the matching and the enclosing
\* opening parenthesis, through the backward scans and the tree.
FindOpenCorrect == part = "bp" => BP!FindOpenCorrect

\* build_minmax_tree: every tree node holds the minimum and maximum excess
\* of the blocks under it, the padding leaves past the last block included.
MinMaxTreeCorrect == part = "bp" => BP!MinMaxTreeCorrect

\* bit_vector_builder: after any sequence of push_back, set, append_bits,
\* zero_extend and reserve the words hold exactly the bits the calls
\* describe, the bits past size are zero and there are as many words as
\* the size needs (move_bits' assertion).
BuilderMatchesCalls == part = "bv" => BV!BuilderMatchesCalls

\* bit_vector::get_bits on the frozen vector returns the len bits at pos,
\* across a word boundary.
GetBitsCorrect == part = "bv" => BV!GetBitsCorrect

\* bit_vector::successor1/0 and predecessor1/0 return the nearest set
\* (clear) position at or after (before) pos.
ScanCorrect == part = "bv" => BV!ScanCorrect
=============================================================================
