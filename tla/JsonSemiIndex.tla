---------------------------- MODULE JsonSemiIndex ----------------------------
(***************************************************************************)
(* The JSON semi-index (src/semi_index/json_semi_index.hpp) and the        *)
(* record loop of its streaming drivers (src/json_select.cpp).             *)
(*                                                                         *)
(* The constructor scans a corpus of records once and builds m_nav (the    *)
(* positions of the structural characters, kept by elias_fano; here the    *)
(* sequence of those positions, which is what elias_fano::select returns)  *)
(* and m_bp (two bits per structural character; here the bit sequence,    *)
(* navigated with the contract operators of BalancedParens).  A cursor     *)
(* walks the records; an accessor descends a path with operator[].         *)
(*                                                                         *)
(* The documents are generated from reference trees (JsonText), so that    *)
(* every accessor carries, as ghost state, the path it was reached by; the *)
(* properties compare what the code computes with what that path means.    *)
(***************************************************************************)
EXTENDS Integers, Sequences, SequencesExt, JsonText, BalancedParens

CONSTANTS
    Corpora,    \* set of [st |-> a style of Styles, recs |-> sequence of values]
    Keys,       \* keys the accessors look up (sequences of characters)
    Indexes,    \* array indexes the accessors look up (negative from the end)
    MaxDepth    \* bound on the length of an accessor's path

ASSUME MaxDepth \in Nat

VARIABLES
    doc,     \* the corpus: style and records (input, never changes)
    text,    \* the characters of all records, concatenated (the caller's buffer)
    starts,  \* starts[k]: position in text of the first character of record k
    built,   \* "no" before the constructor ran, "yes" after, "error" if it threw
    ones,    \* m_nav: positions of the 1 bits of the nav bit stream, ascending
    bp,      \* m_bp: the balanced-parenthesis bits
    cur,     \* the driver's cursor: [node, offset, end]
    line,    \* the driver's current record (0 before get_cursor)
    acc,     \* the current accessor, with ghost fields live, rec and path
    oob      \* ghost: some navigation read a character outside its record

vars == <<doc, text, starts, built, ones, bp, cur, line, acc, oob>>

\* Record k as the lines range of si_save gives it: fast_getline keeps the
\* line's '\n' (trim_newline defaults to false).
RecText(d, k) == Sp(d.st.lead) \o Render(d.recs[k], d.st) \o <<"\n">>
NRecs == Len(doc.recs)

\* Character at 0-based position p of the buffer; "EOF" past its end.
Ch(p) == IF p \in 0..(Len(text) - 1) THEN text[p + 1] ELSE "EOF"

(***************************************************************************)
(* Construction: json_semi_index_base(StringsRange const&).                *)
(***************************************************************************)

\* The string-literal loop: index (1-based) of the closing quote of a
\* literal whose first character after the opening quote is at j; 0 when
\* the record ends first ("Unterminated string literal").
RECURSIVE StrEnd(_, _, _)
StrEnd(t, j, escaped) ==
    IF j > Len(t) THEN 0
    ELSE IF escaped THEN StrEnd(t, j + 1, FALSE)
    ELSE IF t[j] = Q THEN j
    ELSE StrEnd(t, j + 1, t[j] = BS)

RECURSIVE ScanRecord(_, _, _, _, _)

\* Variant with the case ']' label missing: ']' falls to the default branch.
ScanRecordNoCloseBracket(t, i, base, nav, bits) ==
    IF i > Len(t) THEN [ok |-> TRUE, nav |-> nav, bits |-> bits]
    ELSE LET c == t[i] IN
    CASE c \in {"[", "{"} -> ScanRecord(t, i + 1, base, Append(nav, base + i - 1), bits \o <<1, 1>>)
      [] c = "}" -> ScanRecord(t, i + 1, base, Append(nav, base + i - 1), bits \o <<0, 0>>)
      [] c \in {",", ":"} -> ScanRecord(t, i + 1, base, Append(nav, base + i - 1), bits \o <<0, 1>>)
      [] c = Q -> LET e == StrEnd(t, i + 1, FALSE) IN
                  IF e = 0 THEN [ok |-> FALSE, nav |-> nav, bits |-> bits]
                  ELSE ScanRecord(t, e + 1, base, nav, bits)
      [] OTHER -> ScanRecord(t, i + 1, base, nav, bits)

\* Variant that records a structural character one position too early.
ScanRecordOffByOne(t, i, base, nav, bits) ==
    IF i > Len(t) THEN [ok |-> TRUE, nav |-> nav, bits |-> bits]
    ELSE LET c == t[i] IN
    CASE c \in {"[", "{"} -> ScanRecord(t, i + 1, base, Append(nav, base + i - 2), bits \o <<1, 1>>)
      [] c \in {"}", "]"} -> ScanRecord(t, i + 1, base, Append(nav, base + i - 2), bits \o <<0, 0>>)
      [] c \in {",", ":"} -> ScanRecord(t, i + 1, base, Append(nav, base + i - 2), bits \o <<0, 1>>)
      [] c = Q -> LET e == StrEnd(t, i + 1, FALSE) IN
                  IF e = 0 THEN [ok |-> FALSE, nav |-> nav, bits |-> bits]
                  ELSE ScanRecord(t, e + 1, base, nav, bits)
      [] OTHER -> ScanRecord(t, i + 1, base, nav, bits)

\* The per-character switch over one record t whose first character is at
\* position base of the nav stream.
ScanRecord(t, i, base, nav, bits) ==
    IF i > Len(t) THEN [ok |-> TRUE, nav |-> nav, bits |-> bits]
    ELSE LET c == t[i] IN
    CASE c \in {"[", "{"} -> ScanRecord(t, i + 1, base, Append(nav, base + i - 1), bits \o <<1, 1>>)
      [] c \in {"}", "]"} -> ScanRecord(t, i + 1, base, Append(nav, base + i - 1), bits \o <<0, 0>>)
      [] c \in {",", ":"} -> ScanRecord(t, i + 1, base, Append(nav, base + i - 1), bits \o <<0, 1>>)
      [] c = Q -> LET e == StrEnd(t, i + 1, FALSE) IN
                  IF e = 0 THEN [ok |-> FALSE, nav |-> nav, bits |-> bits]
                  ELSE ScanRecord(t, e + 1, base, nav, bits)
      [] OTHER -> ScanRecord(t, i + 1, base, nav, bits)

\* The loop over the records; the nav stream runs on across records.
RECURSIVE ScanCorpus(_, _, _)
ScanCorpus(k, nav, bits) ==
    IF k > NRecs THEN [ok |-> TRUE, nav |-> nav, bits |-> bits]
    ELSE LET r == ScanRecord(RecText(doc, k), 1, starts[k], nav, bits) IN
         IF r.ok THEN ScanCorpus(k + 1, r.nav, r.bits) ELSE r

(***************************************************************************)
(* Node positions: get_pos, FindEnd, find_close.                           *)
(***************************************************************************)
\* m_nav.select(n): position of the n-th structural character (past the
\* end of the buffer when there is no n-th one: select's result is then
\* undefined, and any read there is outside the record).
Select(n) == IF n + 1 \in DOMAIN ones THEN ones[n + 1] ELSE Len(text)

get_pos(node, offset) == Select(node \div 2) + (node % 2) - offset

FindEnd(node, offset) ==
    Select(find_close(bp, node) \div 2) + (1 - (node % 2)) - offset

(***************************************************************************)
(* Cursor.                                                                 *)
(***************************************************************************)
EndCursor == [node |-> 0, offset |-> 0, end |-> TRUE]

\* cursor(index, node): the offset is the record root's position.
CursorAt(node) == [node |-> node, offset |-> get_pos(node, 0), end |-> FALSE]

\* Variant that forgets the + 1 after find_close.
CursorNextNoSkip(c) ==
    LET next_node == find_close(bp, c.node) IN
    IF next_node = Len(bp) THEN EndCursor ELSE CursorAt(next_node)

\* cursor::next(): skip the record's subtree; at the end, the default cursor.
CursorNext(c) ==
    LET next_node == find_close(bp, c.node) + 1 IN
    IF next_node = Len(bp) THEN EndCursor ELSE CursorAt(next_node)

(***************************************************************************)
(* Accessor navigation.  A result is [ok, node, reads]: whether a child    *)
(* was found, the child's node, and the buffer positions read on the way.  *)
(***************************************************************************)
NoAcc == [live |-> FALSE, valid |-> FALSE, node |-> 0, offset |-> 0,
          base |-> 0, rec |-> 0, path |-> <<>>]

\* json::parser::escape_table on the escapes the documents contain.
escape_table(c) == IF c \in {Q, BS, "/"} THEN c ELSE "EOF"

\* check_key, after the skip to the key's opening quote: compare the key
\* characters, decoding a backslash escape, then require the closing quote.
RECURSIVE KeyCompare(_, _, _)
KeyCompare(key, i, it) ==
    IF i > Len(key) THEN [match |-> Ch(it) = Q, reads |-> {it}]
    ELSE LET esc == Ch(it) = BS
             c   == IF esc THEN escape_table(Ch(it + 1)) ELSE Ch(it)
             rd  == IF esc THEN {it, it + 1} ELSE {it}
         IN IF c # key[i] THEN [match |-> FALSE, reads |-> rd]
            ELSE LET r == KeyCompare(key, i + 1, IF esc THEN it + 2 ELSE it + 1)
                 IN [match |-> r.match, reads |-> rd \cup r.reads]

\* while (*it++ != '"'); stops at the end of the buffer.
RECURSIVE QuoteFrom(_)
QuoteFrom(p) == IF Ch(p) \in {Q, "EOF"} THEN p ELSE QuoteFrom(p + 1)

check_key(key, pos) ==
    LET qp == QuoteFrom(pos) IN
    IF Ch(qp) = "EOF" THEN [match |-> FALSE, reads |-> pos..qp]
    ELSE LET r == KeyCompare(key, 1, qp + 1) IN
         [match |-> r.match, reads |-> (pos..qp) \cup r.reads]

Fail(rd) == [ok |-> FALSE, node |-> 0, reads |-> rd]

\* The member loop of get_object_child: cur_node opens a key, find_close
\* of it ends the key, the value starts right after.
RECURSIVE ObjectLoop(_, _, _, _, _)
ObjectLoop(a, key, cur_node, cur_node_pos, rd) ==
    IF Bit(bp, cur_node) = 0 THEN Fail(rd)
    ELSE LET val_begin == find_close(bp, cur_node) + 1
             ck        == check_key(key, cur_node_pos)
         IN IF ck.match THEN [ok |-> TRUE, node |-> val_begin, reads |-> rd \cup ck.reads]
            ELSE LET next == find_close(bp, val_begin) + 1 IN
                 ObjectLoop(a, key, next, a.base + get_pos(next, a.offset) + 1,
                            rd \cup ck.reads)

\* Variant without the empty-object special case.
get_object_child_no_empty(a, key) ==
    LET node    == a.node + (a.node % 2)
        opening == a.base + get_pos(node, a.offset)
    IN IF Ch(opening) # "{" THEN Fail({opening})
       ELSE ObjectLoop(a, key, node + 1, opening + 1, {opening, opening + 1})

get_object_child(a, key) ==
    LET node    == a.node + (a.node % 2)
        opening == a.base + get_pos(node, a.offset)
    IN IF Ch(opening) # "{" THEN Fail({opening})
       ELSE IF Ch(opening + 1) = "}" THEN Fail({opening, opening + 1})
       ELSE ObjectLoop(a, key, node + 1, opening + 1, {opening, opening + 1})

RECURSIVE ForwardLoop(_, _, _)
ForwardLoop(cur_node, i, idx) ==
    IF Bit(bp, cur_node) = 0 THEN Fail({})
    ELSE IF i = idx THEN [ok |-> TRUE, node |-> cur_node, reads |-> {}]
    ELSE ForwardLoop(find_close(bp, cur_node) + 1, i + 1, idx)

RECURSIVE BackwardLoop(_, _, _)

\* Variant that stops one element too late (i = -idx instead of -idx - 1).
BackwardLoopOffByOne(cur_node, i, idx) ==
    IF Bit(bp, cur_node) = 1 THEN Fail({})
    ELSE IF i = -idx THEN [ok |-> TRUE, node |-> find_open(bp, cur_node), reads |-> {}]
    ELSE BackwardLoop(find_open(bp, cur_node) - 1, i + 1, idx)

BackwardLoop(cur_node, i, idx) ==
    IF Bit(bp, cur_node) = 1 THEN Fail({})
    ELSE IF i = -idx - 1 THEN [ok |-> TRUE, node |-> find_open(bp, cur_node), reads |-> {}]
    ELSE BackwardLoop(find_open(bp, cur_node) - 1, i + 1, idx)

get_array_child(a, idx) ==
    LET node    == a.node + (a.node % 2)
        opening == a.base + get_pos(node, a.offset)
        rd      == {opening, opening + 1}
        r       == IF idx >= 0 THEN ForwardLoop(node + 1, 0, idx)
                   ELSE BackwardLoop(find_close(bp, node) - 1, 0, idx)
    IN IF Ch(opening) # "[" THEN Fail({opening})
       ELSE IF Ch(opening + 1) = "]" THEN Fail(rd)
       ELSE [r EXCEPT !.reads = @ \cup rd]

\* Positions of record k in the buffer.
RecordSpan(k) == starts[k]..(starts[k] + Len(RecText(doc, k)) - 1)

\* accessor::operator[]: an invalid accessor stays invalid; m_node is
\* assigned only when a child is found.
Descend(r, step) ==
    /\ acc' = [acc EXCEPT !.valid = r.ok,
                          !.node  = IF r.ok THEN r.node ELSE @,
                          !.path  = Append(@, step)]
    /\ oob' = (oob \/ ~(r.reads \subseteq RecordSpan(acc.rec)))

(***************************************************************************)
(* Actions.                                                                *)
(***************************************************************************)
Init ==
    /\ doc \in Corpora
    /\ text = FlattenSeq([k \in 1..Len(doc.recs) |-> RecText(doc, k)])
    /\ starts = [k \in 1..Len(doc.recs) |->
                   FoldLeft(LAMBDA s, i : s + Len(RecText(doc, i)), 0, [i \in 1..(k - 1) |-> i])]
    /\ built = "no"
    /\ ones = <<>>
    /\ bp = <<>>
    /\ cur = EndCursor
    /\ line = 0
    /\ acc = NoAcc
    /\ oob = FALSE

\* The constructor: one pass over the records, then the two structures.
Build ==
    /\ built = "no"
    /\ LET r == ScanCorpus(1, <<>>, <<>>) IN
       /\ built' = IF r.ok THEN "yes" ELSE "error"
       /\ ones' = r.nav
       /\ bp' = r.bits
    /\ UNCHANGED <<doc, text, starts, cur, line, acc, oob>>

\* index.get_cursor(), once, before the record loop.
GetCursor ==
    /\ built = "yes" /\ line = 0 /\ bp # <<>>
    /\ cur' = CursorAt(0)
    /\ line' = 1
    /\ UNCHANGED <<doc, text, starts, built, ones, bp, acc, oob>>

RootAt(base) ==
    [live |-> TRUE, valid |-> TRUE, node |-> cur.node, offset |-> cur.offset,
     base |-> base, rec |-> line, path |-> <<>>]

\* saved_si_parse_stream: root = cursor.get_accessor(line.c_str()), the
\* json iterator at the start of the line just read.
GetAccessorLine ==
    /\ line \in 1..NRecs /\ ~cur.end
    /\ acc' = RootAt(starts[line])
    /\ UNCHANGED <<doc, text, starts, built, ones, bp, cur, line, oob>>

\* saved_si_parse_mapped: root = cursor.get_accessor(json + cursor.get_offset()).
GetAccessorMapped ==
    /\ line \in 1..NRecs /\ ~cur.end
    /\ acc' = RootAt(cur.offset)
    /\ UNCHANGED <<doc, text, starts, built, ones, bp, cur, line, oob>>

\* accessor::operator[](std::string const& key)
ObjectStep ==
    /\ acc.live /\ Len(acc.path) < MaxDepth
    /\ \E key \in Keys :
         Descend(IF acc.valid THEN get_object_child(acc, key) ELSE Fail({}), KeyStep(key))
    /\ UNCHANGED <<doc, text, starts, built, ones, bp, cur, line>>

\* accessor::operator[](int64_t idx)
ArrayStep ==
    /\ acc.live /\ Len(acc.path) < MaxDepth
    /\ \E idx \in Indexes :
         Descend(IF acc.valid THEN get_array_child(acc, idx) ELSE Fail({}), IdxStep(idx))
    /\ UNCHANGED <<doc, text, starts, built, ones, bp, cur, line>>

\* End of a loop iteration: cursor = cursor.next(), the next line is read.
NextRecord ==
    /\ line \in 1..NRecs /\ ~cur.end
    /\ cur' = CursorNext(cur)
    /\ line' = line + 1
    /\ acc' = NoAcc
    /\ UNCHANGED <<doc, text, starts, built, ones, bp, oob>>

Next ==
    \/ Build
    \/ GetCursor
    \/ GetAccessorLine
    \/ GetAccessorMapped
    \/ ObjectStep
    \/ ArrayStep
    \/ NextRecord

Spec == Init /\ [][Next]_vars

(***************************************************************************)
(* Properties.                                                             *)
(***************************************************************************)
TypeOK ==
    /\ built \in {"no", "yes", "error"}
    /\ ones \in Seq(Nat) /\ bp \in Seq({0, 1})
    /\ cur \in [node : Nat, offset : Int, end : BOOLEAN]
    /\ line \in 0..(NRecs + 1)
    /\ acc.live \in BOOLEAN /\ acc.valid \in BOOLEAN /\ acc.node \in Nat
    /\ Len(acc.path) <= MaxDepth
    /\ oob \in BOOLEAN

\* The constructor's bp stream is balanced: running excess never negative,
\* zero at the end (test_balanced in test_json_semi_index.cpp).  Structural
\* characters inside string literals, escaped quotes included, must not
\* emit bits.
BPBalanced == built = "yes" => Balanced(bp)

\* Path navigation is correct: an accessor reached from a record root by a
\* path is valid exactly when the path exists in the document (missing key,
\* wrong kind of node, index out of range give an invalid accessor), and
\* a valid accessor's get_range() is the text the path denotes: the whole
\* record for the root, the slot between the separators for a child.
NavCorrect ==
    acc.live =>
      LET v  == doc.recs[acc.rec]
          rs == starts[acc.rec] + (IF doc.st.lead THEN 1 ELSE 0)
      IN /\ acc.valid = RefExists(v, acc.path)
         /\ acc.valid =>
              <<acc.base + get_pos(acc.node, acc.offset),
                acc.base + FindEnd(acc.node, acc.offset)>>
              = RefRange(v, acc.path, doc.st, rs)

\* The cursor stays aligned with the records the driver reads: while the
\* driver is on record k the cursor addresses record k's root (its node is
\* the number of bp bits of the earlier records, its offset the root's
\* position), and after the last record it is the end cursor.
CursorTracksRecords ==
    /\ line \in 1..NRecs =>
         /\ ~cur.end
         /\ cur.node = 2 * FoldLeft(LAMBDA s, i : s + StructChars(doc.recs[i]), 0,
                                    [i \in 1..(line - 1) |-> i])
         /\ cur.offset = starts[line] + (IF doc.st.lead THEN 1 ELSE 0)
    /\ line = NRecs + 1 => cur.end

\* Navigation never reads a character outside the record being navigated
\* (check_key's skip to the next quote, the '{' / '[' and empty checks).
NoReadOutsideRecord == ~oob

\* What the cursor and the accessor promise (spec: cursor::next(),
\* obj[key] / arr[idx] and get_range()): the cursor addresses the record
\* the driver reads (CursorTracksRecords), every lookup gets the answer the
\* JSON text gives (NavCorrect), and navigation reads nothing outside the
\* record it navigates (NoReadOutsideRecord).
NavSound == CursorTracksRecords /\ NavCorrect /\ NoReadOutsideRecord

=============================================================================
