--------------------------- MODULE MCJsonSemiIndex ---------------------------
(***************************************************************************)
(* Model-checking instances of JsonSemiIndex.                              *)
(*                                                                         *)
(* Leaves are the number 1 and two strings that exercise the literal scan: *)
(* one holding structural characters, one holding an escaped quote and an *)
(* escaped backslash.  Containers hold at most two members, keys are "a"   *)
(* and "b" (so a key can repeat), and roots nest two levels deep.  Styles  *)
(* are compact and spaced ({ "a": 1, "b": [ 1 ] }).                        *)
(***************************************************************************)
EXTENDS JsonSemiIndex, TLC

KA == <<"a">>
KB == <<"b">>

\* Leaves.
MCLeaves == {Num, Str(<<"{", ",">>), Str(<<Q, BS>>)}

\* One level of nesting: containers of leaves, with at most two members.
MCInner == MCLeaves \cup Arrays({Num, Str(<<"{", ",">>)}, 2)
                    \cup Objects({Num, Str(<<Q, BS>>)}, {KA, KB}, 2)

\* Record roots: containers of at most two inner values.
MCRoots == Arrays(MCInner, 2) \cup Objects(MCInner, {KA, KB}, 2)

KQ  == <<Q>>
KAQ == <<"a", Q>>

\* Small roots for the two-record corpora; one has the key "\"" (an
\* escaped quote) before the key "a".
MCSmallRoots == {Arr(<<>>), Arr(<<Num>>), Obj(<<[k |-> KA, v |-> Num]>>),
                 Obj(<<[k |-> KQ, v |-> Num], [k |-> KA, v |-> Arr(<<Num>>)]>>)}

\* Styles with a space after every separator (json.dumps's ", " and ": "),
\* with and without padding inside brackets, and no whitespace inside empty
\* containers or before a record.
MCStyles == {[pad |-> p, sep |-> TRUE, inner |-> FALSE, lead |-> FALSE] : p \in BOOLEAN}

MCCorpora ==
    {[st |-> [pad |-> FALSE, sep |-> TRUE, inner |-> FALSE, lead |-> FALSE], recs |-> <<r>>] :
        r \in MCRoots}
    \cup {[st |-> st, recs |-> <<r1, r2>>] : st \in MCStyles, r1, r2 \in MCSmallRoots}

\* Compact corpora (no whitespace at all, as JSON.stringify writes them).
MCCompactCorpora ==
    {[st |-> [pad |-> FALSE, sep |-> FALSE, inner |-> FALSE, lead |-> FALSE], recs |-> <<r>>] :
        r \in MCRoots}

\* Spaced corpora whose empty containers have a space inside ("[ ]", "{ }"),
\* as pretty-printers write them.
MCInnerCorpora ==
    {[st |-> [pad |-> TRUE, sep |-> TRUE, inner |-> TRUE, lead |-> FALSE], recs |-> rs] :
        rs \in {<<Obj(<<>>)>>, <<Arr(<<>>)>>, <<Obj(<<[k |-> KA, v |-> Arr(<<>>)]>>)>>}}

\* Spaced corpora whose records start with a space.
MCLeadCorpora ==
    {[st |-> [pad |-> FALSE, sep |-> TRUE, inner |-> FALSE, lead |-> TRUE], recs |-> <<r>>] :
        r \in MCSmallRoots}

\* A corpus whose first record is a bare number (a JSON text that is not a
\* container), followed by an object.
MCScalarCorpora ==
    {[st |-> [pad |-> FALSE, sep |-> TRUE, inner |-> FALSE, lead |-> FALSE],
      recs |-> <<Num, Obj(<<[k |-> KA, v |-> Num]>>)>>]}

\* An object whose member "a" holds a string, and the lookup key
\* a": (a, quote, colon, space), which no document has.
MCStringValueCorpora ==
    {[st |-> [pad |-> FALSE, sep |-> TRUE, inner |-> FALSE, lead |-> FALSE],
      recs |-> <<Obj(<<[k |-> KA, v |-> Str(<<"{", ",">>)]>>)>>]}
MCOverrunKeys == {KA, <<"a", Q, ":", " ">>}

\* Lookup keys: the document keys, and "a\"", which shares the prefix "a"
\* with a document key (root["top\""] in test_json_semi_index.cpp).
MCKeys == {KA, KB, KQ, KAQ}
MCIndexes == {0, 1, 2, -1, -2, -3}

\* Every corpus and key that breaks NavSound on its own (the _compact,
\* _inner, _inner_reads, _lead, _overrun and _scalar configurations), in
\* one model.
MCNavFaultCorpora ==
    MCCompactCorpora \cup MCInnerCorpora \cup MCLeadCorpora \cup MCStringValueCorpora
        \cup MCScalarCorpora
MCNavFaultKeys == MCKeys \cup MCOverrunKeys
=============================================================================
