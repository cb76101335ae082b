------------------------------ MODULE JsonText ------------------------------
(***************************************************************************)
(* Reference JSON documents: the inputs the semi-index is built from and   *)
(* the meaning a path query has on them.                                   *)
(*                                                                         *)
(* A value is a tree record [t, s, el]: t is "num", "str", "arr" or "obj"; *)
(* s is the characters of a string; el is the sequence of members of a     *)
(* container, each [k |-> key characters, v |-> value] (k is <<>> in an    *)
(* array).  Render turns a tree into the characters of its JSON text under *)
(* a whitespace style, and RefRange says which characters a path denotes.  *)
(* Nothing here is code of the repository: it is the independent          *)
(* definition the code is checked against.                                 *)
(***************************************************************************)
EXTENDS Integers, Sequences, SequencesExt

\* The characters that occur in the documents.  Q is the double quote and
\* BS the backslash.
Q  == "\""
BS == "\\"

\* Whitespace style of a corpus: pad puts a space after the opening and
\* before the closing bracket of a non-empty container, sep a space after
\* every ',' and ':', inner a space inside an empty container, lead a space
\* before every record.
Styles == [pad : BOOLEAN, sep : BOOLEAN, inner : BOOLEAN, lead : BOOLEAN]

Sp(b) == IF b THEN <<" ">> ELSE <<>>

\* JSON string escaping of the characters of a key or string value.
Esc(s) == FlattenSeq([i \in 1..Len(s) |->
                        IF s[i] \in {Q, BS} THEN <<BS, s[i]>> ELSE <<s[i]>>])

OpenChar(v)  == IF v.t = "arr" THEN "[" ELSE "{"
CloseChar(v) == IF v.t = "arr" THEN "]" ELSE "}"

\* Leading space of the slot of member j, i.e. between the separator and
\* the member's value.
LeadSp(v, j, st) ==
    IF v.t = "obj" THEN st.sep ELSE (j = 1 /\ st.pad) \/ (j > 1 /\ st.sep)

\* What precedes the slot of member j: nothing in an array, the quoted key
\* and ':' in an object.
KeyPart(v, j, st) ==
    IF v.t = "arr" THEN <<>>
    ELSE Sp((j = 1 /\ st.pad) \/ (j > 1 /\ st.sep))
            \o <<Q>> \o Esc(v.el[j].k) \o <<Q, ":">>

RECURSIVE Render(_, _), Slot(_, _, _)

\* The slot of member j: from just after its separator to just before the
\* next separator or closing bracket.
Slot(v, j, st) ==
    Sp(LeadSp(v, j, st)) \o Render(v.el[j].v, st) \o Sp(j = Len(v.el) /\ st.pad)

Member(v, j, st) == KeyPart(v, j, st) \o Slot(v, j, st)

Render(v, st) ==
    CASE v.t = "num" -> <<"1">>
      [] v.t = "str" -> <<Q>> \o Esc(v.s) \o <<Q>>
      [] OTHER ->
           <<OpenChar(v)>>
           \o (IF v.el = <<>> THEN Sp(st.inner)
               ELSE FlattenSeq([j \in 1..Len(v.el) |->
                      Member(v, j, st) \o (IF j < Len(v.el) THEN <<",">> ELSE <<>>)]))
           \o <<CloseChar(v)>>

\* Offset of the slot of member j from the value's first character.
SlotStart(v, j, st) ==
    1 + FoldLeft(LAMBDA acc, i : acc + Len(Member(v, i, st)) + 1, 0,
                 [i \in 1..(j - 1) |-> i])
      + Len(KeyPart(v, j, st))

(***************************************************************************)
(* Path steps and their reference meaning.                                 *)
(***************************************************************************)
KeyStep(k) == [kind |-> "key", key |-> k, idx |-> 0]
IdxStep(i) == [kind |-> "idx", key |-> <<>>, idx |-> i]

\* The member a step selects (1-based), or 0 when there is none: the first
\* member with the key in an object; in an array the idx-th element, a
\* negative idx counting from the end (-1 is the last element).
ChildIndex(v, s) ==
    LET n == Len(v.el) IN
    IF s.kind = "key"
    THEN IF v.t = "obj" /\ \E j \in 1..n : v.el[j].k = s.key
         THEN CHOOSE j \in 1..n : v.el[j].k = s.key
                                 /\ \A i \in 1..(j - 1) : v.el[i].k # s.key
         ELSE 0
    ELSE IF v.t # "arr" THEN 0
         ELSE IF s.idx >= 0 THEN (IF s.idx < n THEN s.idx + 1 ELSE 0)
         ELSE IF -s.idx <= n THEN n + s.idx + 1 ELSE 0

RECURSIVE RefExists(_, _)
RefExists(v, path) ==
    \/ path = <<>>
    \/ /\ v.t \in {"arr", "obj"}
       /\ ChildIndex(v, Head(path)) # 0
       /\ RefExists(v.el[ChildIndex(v, Head(path))].v, Tail(path))

\* The [first, last) character range a non-empty path denotes inside a value
\* whose first character is at position start: the slot of the last step.
RECURSIVE RefSlotRange(_, _, _, _)
RefSlotRange(v, path, st, start) ==
    LET j  == ChildIndex(v, Head(path))
        ss == start + SlotStart(v, j, st)
    IN IF Tail(path) = <<>>
       THEN <<ss, ss + Len(Slot(v, j, st))>>
       ELSE RefSlotRange(v.el[j].v, Tail(path), st,
                         ss + (IF LeadSp(v, j, st) THEN 1 ELSE 0))

\* The root denotes the value itself, a child path the slot of its value.
RefRange(v, path, st, start) ==
    IF path = <<>> THEN <<start, start + Len(Render(v, st))>>
    ELSE RefSlotRange(v, path, st, start)

\* Number of structural characters ({ } [ ] , :) of a value: each of them
\* is one pair of bits of the balanced-parenthesis sequence.
RECURSIVE StructChars(_)
StructChars(v) ==
    IF v.t \in {"num", "str"} THEN 0
    ELSE LET n == Len(v.el) IN
         2 + (IF n = 0 THEN 0 ELSE n - 1)
           + (IF v.t = "obj" THEN n ELSE 0)
           + FoldLeft(LAMBDA acc, i : acc + StructChars(v.el[i].v), 0,
                      [i \in 1..n |-> i])

(***************************************************************************)
(* Generators of small documents.                                          *)
(***************************************************************************)
Num      == [t |-> "num", s |-> <<>>, el |-> <<>>]
Str(s)   == [t |-> "str", s |-> s, el |-> <<>>]
Arr(els) == [t |-> "arr", s |-> <<>>, el |-> [i \in 1..Len(els) |-> [k |-> <<>>, v |-> els[i]]]]
Obj(ms)  == [t |-> "obj", s |-> <<>>, el |-> ms]

\* Arrays and objects of at most w members drawn from vals, with keys from ks.
Arrays(vals, w) == {Arr(e) : e \in BoundedSeq(vals, w)}
Objects(vals, ks, w) ==
    {Obj(m) : m \in BoundedSeq([k : ks, v : vals], w)}
=============================================================================
