-------------------------- MODULE BitVectorBuilder --------------------------
(***************************************************************************)
(* A client of bit_vector_builder: any sequence of its operations, then    *)
(* bit_vector(&builder) and a query on the frozen vector.  The ghost ref   *)
(* is the bit sequence the calls describe; the properties compare the     *)
(* words with it.                                                          *)
(***************************************************************************)
EXTENDS BitVector

CONSTANTS
    InitSizes,     \* sizes the builder is constructed with
    MaxSize,       \* bound on the number of bits
    AppendLens,    \* lengths passed to append_bits
    ExtendLens,    \* lengths passed to zero_extend
    ReserveAt,     \* builder sizes at which the client calls reserve
    ReserveSizes   \* sizes passed to reserve

VARIABLES
    bvb,      \* the builder [bits, size, cap, cur]
    ref,      \* ghost: the bits the calls so far describe
    frozen,   \* bit_vector(&bvb) has taken the words
    res       \* the query made on the frozen vector: [op, pos, len, ret]

vars == <<bvb, ref, frozen, res>>

\* The len low bits of x, lowest first.
BitsOf(x, len) == [i \in 1..len |-> (x \div 2^(i - 1)) % 2]

Vec == FromBuilder(bvb)

NoQuery == [op |-> "none", pos |-> 0, len |-> 0, ret |-> 0]

Init ==
    /\ \E s \in InitSizes, init \in BOOLEAN :
         /\ bvb = NewBuilder(s, init)
         /\ ref = [i \in 1..s |-> IF init THEN 1 ELSE 0]
    /\ frozen = FALSE
    /\ res = NoQuery

PushBack ==
    /\ ~frozen /\ bvb.size < MaxSize
    /\ \E x \in {0, 1} :
         /\ bvb' = push_back(bvb, x)
         /\ ref' = Append(ref, x)
    /\ UNCHANGED <<frozen, res>>

Set ==
    /\ ~frozen
    /\ \E i \in 0..(bvb.size - 1), x \in {0, 1} :
         /\ bvb' = set(bvb, i, x)
         /\ ref' = [ref EXCEPT ![i + 1] = x]
    /\ UNCHANGED <<frozen, res>>

AppendBits ==
    /\ ~frozen
    /\ \E len \in AppendLens, x \in 0..(2^WordBits - 1) :
         /\ x < 2^len
         /\ bvb.size + len <= MaxSize
         /\ bvb' = append_bits(bvb, x, len)
         /\ ref' = ref \o BitsOf(x, len)
    /\ UNCHANGED <<frozen, res>>

ZeroExtend ==
    /\ ~frozen
    /\ \E n \in ExtendLens :
         /\ bvb.size + n <= MaxSize
         /\ bvb' = zero_extend(bvb, n)
         /\ ref' = ref \o [i \in 1..n |-> 0]
    /\ UNCHANGED <<frozen, res>>

Reserve ==
    /\ ~frozen /\ bvb.size \in ReserveAt
    /\ \E s \in ReserveSizes : bvb' = reserve(bvb, s)
    /\ UNCHANGED <<ref, frozen, res>>

\* bit_vector(bit_vector_builder*): steals the words (move_bits).
Freeze ==
    /\ ~frozen
    /\ frozen' = TRUE
    /\ UNCHANGED <<bvb, ref, res>>

\* One query per behaviour, with its precondition: get_bits inside the
\* vector; successor / predecessor where the bit sought exists.
Ones  == {i \in 0..(Len(ref) - 1) : ref[i + 1] = 1}
Zeros == {i \in 0..(Len(ref) - 1) : ref[i + 1] = 0}

GetBits ==
    /\ frozen /\ res.op = "none"
    /\ \E pos \in 0..bvb.size, len \in 0..WordBits :
         /\ pos + len <= bvb.size
         /\ res' = [op |-> "get_bits", pos |-> pos, len |-> len, ret |-> get_bits(Vec, pos, len)]
    /\ UNCHANGED <<bvb, ref, frozen>>

Scan ==
    /\ frozen /\ res.op = "none"
    /\ \E pos \in 0..(bvb.size - 1), op \in {"succ1", "succ0", "pred1", "pred0"} :
         /\ CASE op = "succ1" -> \E i \in Ones : i >= pos
              [] op = "succ0" -> \E i \in Zeros : i >= pos
              [] op = "pred1" -> \E i \in Ones : i <= pos
              [] op = "pred0" -> \E i \in Zeros : i <= pos
         /\ res' = [op |-> op, pos |-> pos, len |-> 0,
                    ret |-> CASE op = "succ1" -> successor1(Vec, pos)
                              [] op = "succ0" -> successor0(Vec, pos)
                              [] op = "pred1" -> predecessor1(Vec, pos)
                              [] op = "pred0" -> predecessor0(Vec, pos)]
    /\ UNCHANGED <<bvb, ref, frozen>>

Next == PushBack \/ Set \/ AppendBits \/ ZeroExtend \/ Reserve \/ Freeze \/ GetBits \/ Scan

Spec == Init /\ [][Next]_vars

(***************************************************************************)
(* Properties.                                                             *)
(***************************************************************************)
TypeOK ==
    /\ bvb.bits \in Seq(0..WordMask)
    /\ bvb.size \in 0..MaxSize
    /\ bvb.cap >= Len(bvb.bits)
    /\ bvb.cur \in {"back", "none", "stale"}
    /\ ref \in Seq({0, 1}) /\ frozen \in BOOLEAN

\* After any sequence of push_back, set, append_bits, zero_extend and
\* reserve calls, the words hold exactly the bits the calls describe, the
\* bits past size() are 0 (bp_vector and the scans rely on it), and there
\* are as many words as the size needs (move_bits' assertion).
BuilderMatchesCalls ==
    /\ bvb.size = Len(ref)
    /\ MoveBitsOK(bvb)
    /\ \A i \in 0..(Len(bvb.bits) * WordBits - 1) :
         BitAt(bvb.bits, i) = IF i < Len(ref) THEN ref[i + 1] ELSE 0

\* get_bits(pos, len) returns the len bits at pos, lowest first, also when
\* they straddle two words.
GetBitsCorrect ==
    res.op = "get_bits" =>
      res.ret = LET F[i \in 0..res.len] ==
                      IF i = 0 THEN 0 ELSE F[i - 1] + ref[res.pos + i] * 2^(i - 1)
                IN F[res.len]

\* successor1/0 return the first 1/0 at or after pos, predecessor1/0 the
\* last one at or before pos, across word boundaries.
ScanCorrect ==
    /\ res.op = "succ1" => res.ret = CHOOSE i \in Ones : i >= res.pos /\ \A j \in Ones : j >= res.pos => i <= j
    /\ res.op = "succ0" => res.ret = CHOOSE i \in Zeros : i >= res.pos /\ \A j \in Zeros : j >= res.pos => i <= j
    /\ res.op = "pred1" => res.ret = CHOOSE i \in Ones : i <= res.pos /\ \A j \in Ones : j <= res.pos => i >= j
    /\ res.op = "pred0" => res.ret = CHOOSE i \in Zeros : i <= res.pos /\ \A j \in Zeros : j <= res.pos => i >= j
=============================================================================
