------------------------------ MODULE MCModSet ------------------------------
(***************************************************************************)
(* Inputs for ModSet: documents with fields a, b (numbers or arrays) and   *)
(* o (a sub-object with fields x, y), and every valid ModSet of one or two *)
(* $ operators over them.                                                  *)
(***************************************************************************)
EXTENDS ModSet, FiniteSets

MCFieldNames == <<"a", "b", "o", "x", "y">>

I(n) == Num("int", n)
L(n) == Num("long", n)
D(n) == Num("dbl", n)

AVals == {I(IntMax), I(IntMin), L(2), D(1), Arr(<<>>), Arr(<<1>>)}
BVals == {I(1), Arr(<<>>), Arr(<<1, 2>>)}
OVals == {Obj(<<>>), Obj("x" :> I(1)), Obj(("x" :> I(1)) @@ ("y" :> Arr(<<>>)))}

Opt(k, S) == {<<>>} \cup {k :> v : v \in S}

MCDocs == {a @@ b @@ o : a \in Opt("a", AVals), b \in Opt("b", BVals), o \in Opt("o", OVals)}

U(op, p, elt) == [op |-> op, path |-> p, elt |-> elt, each |-> FALSE, to |-> <<>>]

Paths == {<<"a">>, <<"b">>, <<"o", "x">>, <<"o", "y">>}

MCUserMods ==
    {U("inc", p, e) : p \in Paths, e \in {I(1), I(-1), L(-8), D(1)}}
    \cup {U("set", p, e) : p \in Paths, e \in {I(1), L(1), Arr(<<1>>)}}
    \cup {U(op, p, e) : p \in Paths,
                        <<op, e>> \in {<<"unset", I(1)>>, <<"push", I(2)>>,
                                       <<"pushAll", Arr(<<2, 1>>)>>,
                                       <<"addToSet", I(1)>>, <<"pull", I(1)>>,
                                       <<"pullAll", Arr(<<1, 2>>)>>,
                                       <<"pop", I(1)>>, <<"pop", I(-1)>>}}
    \cup {[U("addToSet", p, Arr(<<2, 1>>)) EXCEPT !.each = TRUE] : p \in Paths}
    \cup {U("bit", p, [t |-> "bits", s |-> ops]) :
            p \in Paths, ops \in {<<[op |-> "and", n |-> 1]>>,
                                  <<[op |-> "or", n |-> 2], [op |-> "and", n |-> -2]>>}}
    \cup {[U("rename", p, Missing) EXCEPT !.to = t] :
            <<p, t>> \in {<<<<"a">>, <<"b">>>>, <<<<"o", "x">>, <<"a">>>>,
                          <<<<"a">>, <<"o", "y">>>>, <<<<"o">>, <<"o", "x">>>>}}

\* The ModSets of one or two mods the constructor accepts.
MCModSets ==
    {{u} : u \in MCUserMods}
    \cup {S \in {{pr[1], pr[2]} : pr \in MCUserMods \X MCUserMods} :
             Cardinality(S) = 2 /\ ModSetValid(S)}

\* $pop or $bit on a missing field is built by update.h's appendNewFromMod,
\* which is not in the repository; those inputs are left out.
Modelled(in) ==
    \A u \in in.mods :
        /\ u.op \in {"pop", "bit"} => getFieldDotted(in.doc, u.path) # Missing

\* Finding (a): an $inc on an int field whose exact sum is below INT_MIN.
NegOverflow(in) ==
    \E u \in in.mods :
        LET old == getFieldDotted(in.doc, u.path) IN
        /\ u.op = "inc" /\ old.t = "int" /\ u.elt.t # "dbl"
        /\ old.n + u.elt.n < IntMin

\* Finding (b): a $rename of a missing field onto an existing one, beside
\* another mod.
RenameMissingSource(in) ==
    \E u \in in.mods :
        /\ u.op = "rename" /\ Cardinality(in.mods) > 1
        /\ getFieldDotted(in.doc, u.path) = Missing
        /\ getFieldDotted(in.doc, u.to) # Missing

\* The paths of user mod u that leave their field alone in a rebuild:
\* $pull's, and $unset's or a $rename's whose source is missing when
\* another mod forces the rebuild (alone those are applied in place, as
\* nothing).
Idle(in, u) ==
    CASE u.op \in {"pull", "pullAll"} -> {u.path}
      [] Cardinality(in.mods) = 1 -> {}
      [] u.op = "unset" -> {u.path}
      [] u.op = "rename" /\ getFieldDotted(in.doc, u.path) = Missing -> {u.path, u.to}
      [] OTHER -> {}

\* Finding (c): such a mod below a missing sub-object.
EmptyParent(in) ==
    \E u \in in.mods : \E p \in Idle(in, u) :
        Len(p) = 2 /\ getFieldDotted(in.doc, <<p[1]>>) = Missing

\* Finding (d): $pop on an empty array.
PopEmpty(in) ==
    \E u \in in.mods :
        u.op = "pop" /\ getFieldDotted(in.doc, u.path) = Arr(<<>>)

\* Finding (e): a $rename of an existing field into a field below it.
RenameIntoChild(in) ==
    \E u \in in.mods :
        /\ u.op = "rename" /\ IsStrictPrefix(u.path, u.to)
        /\ getFieldDotted(in.doc, u.path) # Missing

AllInputs ==
    {in \in [doc : MCDocs, mods : MCModSets] : Modelled(in)}

\* The pass run: every input outside the five finding classes.
MCInputs ==
    {in \in AllInputs : ~NegOverflow(in) /\ ~RenameMissingSource(in)
                       /\ ~EmptyParent(in) /\ ~PopEmpty(in) /\ ~RenameIntoChild(in)}

\* One finding class each, for the reproductions.
NegOverflowInputs   == {in \in AllInputs : NegOverflow(in)}
RenameMissingInputs == {in \in AllInputs : RenameMissingSource(in) /\ ~EmptyParent(in)}
EmptyParentInputs   == {in \in AllInputs : EmptyParent(in)}
PopEmptyInputs      == {in \in AllInputs : PopEmpty(in)}
RenameChildInputs   == {in \in AllInputs : RenameIntoChild(in)}
=============================================================================
