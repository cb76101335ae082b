------------------------------- MODULE ModSet -------------------------------
(***************************************************************************)
(* The $-operator update engine of db/update.cpp: ModSet::prepare decides  *)
(* whether a ModSet can be applied to a document in place and records the  *)
(* per-mod state; ModSetState::applyModsInPlace changes the values where   *)
(* they are; ModSetState::createNewFromMods builds a new document, merging *)
(* the document's fields in sorted order with the mods in sorted order,    *)
(* and Mod::apply computes each modified field.                            *)
(*                                                                         *)
(* Data is abstracted to what the operators tell apart: a value is a       *)
(* number of one of BSON's three numeric types, an array of ints, or an    *)
(* object (a function from the field names present to values).  NumberInt *)
(* is IntBits wide and NumberLong LongBits wide; doubles hold integral     *)
(* values.  Field names are strings whose sort order is FieldNames.        *)
(***************************************************************************)
EXTENDS Integers, SequencesExt, Bitwise

CONSTANTS
    FieldNames,  \* every field name, in BSONObjIteratorSorted's order
    IntBits,     \* width of NumberInt (32)
    LongBits,    \* width of NumberLong (64)
    Inputs,      \* the (document, ModSet) pairs an update is given
    Replays      \* how often a secondary may apply the update's oplog entry

ASSUME IntBits \in Nat \ {0} /\ LongBits > IntBits

IntMax == 2^(IntBits - 1) - 1
IntMin == -(2^(IntBits - 1))

\* Two's complement truncation to w bits, as an int or long assignment
\* stores a wider result.
Wrap(x, w) == ((x + 2^(w - 1)) % 2^w) - 2^(w - 1)

Num(t, n) == [t |-> t, n |-> n]
Arr(s)    == [t |-> "arr", s |-> s]
Obj(f)    == [t |-> "obj", f |-> f]
Missing   == [t |-> "eoo"]
Err       == [t |-> "error"]
Numeric   == {"int", "long", "dbl"}

\* BSONElement::numberInt() / numberLong(): a conversion to the narrower
\* type keeps the low bits; a double is truncated (its values are integral).
numberInt(v)  == Wrap(v.n, IntBits)
numberLong(v) == Wrap(v.n, LongBits)

\* BSONElement::valuesize(): ints 4 bytes, longs and doubles 8, an array of
\* ints 5 plus 7 per element (type, one-digit name, 4 bytes), an object 5
\* plus, per field, its type byte, its one-letter name with the NUL and its
\* value.
RECURSIVE valuesize(_)
valuesize(v) ==
    CASE v.t = "int" -> 4
      [] v.t \in {"long", "dbl"} -> 8
      [] v.t = "arr" -> 5 + 7 * Len(v.s)
      [] OTHER -> FoldFunction(LAMBDA x, acc : acc + 3 + valuesize(x), 5, v.f)

Ord(n) == CHOOSE i \in 1..Len(FieldNames) : FieldNames[i] = n

\* The fields of an object, as BSONObjIteratorSorted returns them.
SortedFields(f) == SelectSeq(FieldNames, LAMBDA n : n \in DOMAIN f)

\* Dotted field names as sequences; std::map<string> order (a path before
\* its subfields, '.' before any letter).
PathLess(p, q) ==
    \/ IsStrictPrefix(p, q)
    \/ \E i \in 1..Len(p) :
          /\ i <= Len(q)
          /\ SubSeq(p, 1, i - 1) = SubSeq(q, 1, i - 1)
          /\ Ord(p[i]) < Ord(q[i])

\* compareDottedFieldNames(l, r).
compareDottedFieldNames(l, r) ==
    CASE l = r                -> "SAME"
      [] IsStrictPrefix(r, l) -> "LEFT_SUBFIELD"
      [] IsStrictPrefix(l, r) -> "RIGHT_SUBFIELD"
      [] PathLess(l, r)       -> "LEFT_BEFORE"
      [] OTHER                -> "RIGHT_BEFORE"

\* An object with field k set to v (v = Missing removes k).
PutField(f, k, v) ==
    IF v = Missing THEN [x \in DOMAIN f \ {k} |-> f[x]] ELSE (k :> v) @@ f

\* BSONObj::getFieldDotted(path).
RECURSIVE getFieldDotted(_, _)
getFieldDotted(doc, p) ==
    IF Len(p) = 1
    THEN IF p[1] \in DOMAIN doc THEN doc[p[1]] ELSE Missing
    ELSE IF p[1] \in DOMAIN doc /\ doc[p[1]].t = "obj"
         THEN getFieldDotted(doc[p[1]].f, Tail(p))
         ELSE Missing

\* validRenamePath(obj, path): -1 inside a non-object, 0 missing, 1 found.
RECURSIVE validRenamePath(_, _)
validRenamePath(doc, p) ==
    IF Len(p) = 1 THEN IF p[1] \in DOMAIN doc THEN 1 ELSE 0
    ELSE IF p[1] \notin DOMAIN doc THEN 0
    ELSE IF doc[p[1]].t # "obj" THEN -1
    ELSE validRenamePath(doc[p[1]].f, Tail(p))

-----------------------------------------------------------------------------
(* Mods.  A Mod is [op, elt, each, from]: its operator, its argument, for  *)
(* $addToSet whether elt is {$each: [...]}, and for RENAME_TO the source   *)
(* path.  A ModSet is a function from dotted paths to Mods (ModHolder, a   *)
(* std::map).                                                              *)

\* ModSet::ModSet(from): a $rename becomes a RENAME_FROM mod at the source
\* and a RENAME_TO mod at the target; every other mod is kept at its path.
\* A user mod is [op, path, elt, each, to].
\* The paths a user mod names.
Named(u) == IF u.op = "rename" THEN {u.path, u.to} ELSE {u.path}

\* ModSet::ModSet's uasserts on field names: no field twice (10150, 13484)
\* and none below another (10151, 13485) across mods; a $rename's target
\* differs from its source (13495) and is not its parent (13486).
ModSetValid(user) ==
    /\ \A u, v \in user :
          u # v => \A p \in Named(u), q \in Named(v) : ~IsPrefix(p, q) /\ ~IsPrefix(q, p)
    /\ \A u \in user : u.op = "rename" => u.to # u.path /\ ~IsStrictPrefix(u.to, u.path)

ModSetOf(user) ==
    LET plain  == {u \in user : u.op # "rename"}
        rename == {u \in user : u.op = "rename"}
        paths  == {u.path : u \in plain} \cup {u.path : u \in rename}
                  \cup {u.to : u \in rename}
        ModAt(p) ==
            IF \E u \in plain : u.path = p
            THEN LET u == CHOOSE u \in plain : u.path = p
                 IN [op |-> u.op, elt |-> u.elt, each |-> u.each, from |-> <<>>]
            ELSE IF \E u \in rename : u.path = p
            THEN [op |-> "renameFrom", elt |-> Missing, each |-> FALSE, from |-> <<>>]
            ELSE LET u == CHOOSE u \in rename : u.to = p
                 IN [op |-> "renameTo", elt |-> Missing, each |-> FALSE, from |-> u.path]
    IN [p \in paths |-> ModAt(p)]

\* Mod::_pullElementMatch(toMatch) for a non-object elt: woCompare, which
\* compares numbers by value whatever their types.
pullElementMatch(m, x) == m.elt.n = x

\* The values of an array.
Elems(s) == {s[i] : i \in DOMAIN s}

\* $addToSet's argument as a list.
EachOf(m) == IF m.each THEN m.elt.s ELSE <<m.elt.n>>

-----------------------------------------------------------------------------
(* ModSet::prepare *)

PrepOk(inPlace) == [err |-> FALSE, inPlace |-> inPlace, dontApply |-> FALSE, newVal |-> Missing]
PrepFail        == [err |-> TRUE, inPlace |-> FALSE, dontApply |-> FALSE, newVal |-> Missing]

\* Variant without the int overflow check.
IncInPlace_unchecked(e, elt) ==
    elt.t # e.t => elt.t # "dbl"

\* $inc on a number: in place unless a double is added to another type, or
\* an int field's sum exceeds the int maximum.
IncInPlace(e, elt) ==
    /\ elt.t # e.t => elt.t # "dbl"
    /\ ~(e.t = "int" /\ Wrap(numberLong(e) + numberLong(elt), LongBits) > IntMax)

\* Variant that compares the types only.
SetInPlace_typeOnly(e, elt) == elt.t = e.t

\* $set: in place when the new value has the old one's type and size.
SetInPlace(e, elt) == elt.t = e.t /\ valuesize(elt) = valuesize(e)

\* One iteration of prepare's loop: the uasserts, whether the mod allows
\* an in-place update, and the ModState's dontApply and newVal.
PrepareMod(doc, p, m) ==
    LET e == getFieldDotted(doc, p) IN
    CASE m.op = "renameFrom" ->
            LET source == validRenamePath(doc, p)
            IN [err |-> source = -1, inPlace |-> TRUE, dontApply |-> source # 1,
                newVal |-> Missing]
      [] m.op = "renameTo" ->
            IF validRenamePath(doc, m.from) = 1
            THEN [err |-> validRenamePath(doc, p) = -1, inPlace |-> FALSE,
                  dontApply |-> FALSE, newVal |-> getFieldDotted(doc, m.from)]
            ELSE [err |-> FALSE, inPlace |-> TRUE, dontApply |-> TRUE, newVal |-> Missing]
      [] e = Missing -> PrepOk(m.op = "unset")
      [] m.op = "inc" ->
            IF e.t \notin Numeric THEN PrepFail ELSE PrepOk(IncInPlace(e, m.elt))
      [] m.op = "set" ->
            PrepOk(SetInPlace(e, m.elt))
      [] m.op \in {"push", "pushAll"} ->
            IF e.t # "arr" THEN PrepFail ELSE PrepOk(FALSE)
      [] m.op = "pull" ->
            IF e.t # "arr" THEN PrepFail
            ELSE PrepOk(\A x \in Elems(e.s) : ~pullElementMatch(m, x))
      [] m.op = "pullAll" ->
            IF e.t # "arr" THEN PrepFail
            ELSE PrepOk(Elems(e.s) \cap Elems(m.elt.s) = {})
      [] m.op = "pop" ->
            IF e.t # "arr" THEN PrepFail ELSE PrepOk(e.s = <<>>)
      [] m.op = "addToSet" ->
            IF e.t # "arr" THEN PrepFail ELSE PrepOk(Elems(EachOf(m)) \subseteq Elems(e.s))
      [] OTHER -> PrepOk(FALSE)

\* ModSet::prepare(obj): a uassert in any mod fails the update before the
\* document is touched; amIInPlacePossible(false) by any mod is final.
prepare(doc, S) ==
    LET st == [p \in DOMAIN S |-> PrepareMod(doc, p, S[p])]
    IN IF \E p \in DOMAIN S : st[p].err
       THEN Err
       ELSE [inPlace |-> \A p \in DOMAIN S : st[p].inPlace,
             st |-> [p \in DOMAIN S |-> [m |-> S[p], dontApply |-> st[p].dontApply,
                                         newVal |-> st[p].newVal]]]

-----------------------------------------------------------------------------
(* Mod::apply *)

\* Mod::appendIncremented: a double if either is a double, a long if either
\* is a long, else an int, made a long when two positive ints give a
\* negative sum (the signed overflow wraps).
appendIncremented(in, elt) ==
    CASE in.t = "dbl" \/ elt.t = "dbl" -> Num("dbl", elt.n + in.n)
      [] in.t = "long" \/ elt.t = "long" ->
            Num("long", Wrap(numberLong(elt) + numberLong(in), LongBits))
      [] OTHER ->
            LET x == Wrap(numberInt(elt) + numberInt(in), IntBits)
            IN IF x < 0 /\ numberInt(elt) > 0 /\ numberInt(in) > 0
               THEN Num("long", Wrap(numberLong(elt) + numberLong(in), LongBits))
               ELSE Num("int", x)

\* $addToSet {$each: [...]}: every element of the array is kept; of the
\* $each values (a set, toadd, less those present), each is appended once.
RECURSIVE AddEach(_, _, _)
AddEach(s, toadd, each) ==
    IF each = <<>> THEN s
    ELSE IF Head(each) \in toadd
         THEN AddEach(Append(s, Head(each)), toadd \ {Head(each)}, Tail(each))
         ELSE AddEach(s, toadd, Tail(each))

\* Two's complement bit operations on a w-bit value.
BitOp(x, o, w) ==
    LET u == (x + 2^w) % 2^w
        v == (o.n + 2^w) % 2^w
        r == IF o.op = "and" THEN u & v ELSE u | v
    IN IF r >= 2^(w - 1) THEN r - 2^w ELSE r

RECURSIVE BitFold(_, _, _)
BitFold(x, ops, w) ==
    IF ops = <<>> THEN x ELSE BitFold(BitOp(x, Head(ops), w), Tail(ops), w)

\* Mod::apply(b, in, ms): the new value of an existing field, Missing when
\* nothing is appended (the field goes), or Err for a uassert.
ApplyMod(ms, in) ==
    LET m == ms.m IN
    IF ms.dontApply THEN Missing
    ELSE CASE m.op = "inc" -> appendIncremented(in, m.elt)
           [] m.op = "set" -> m.elt
           [] m.op \in {"unset", "renameFrom"} -> Missing
           [] m.op = "renameTo" -> ms.newVal
           [] m.op = "bit" ->
                 IF in.t \notin {"int", "long"} THEN Err
                 ELSE IF in.t = "int"
                      THEN Num("int", BitFold(numberInt(in), m.elt.s, IntBits))
                      ELSE Num("long", BitFold(numberLong(in), m.elt.s, LongBits))
           [] in.t # "arr" -> Err
           [] m.op = "push" -> Arr(Append(in.s, m.elt.n))
           [] m.op = "pushAll" -> Arr(in.s \o m.elt.s)
           [] m.op = "addToSet" ->
                 Arr(AddEach(in.s, Elems(EachOf(m)) \ Elems(in.s), EachOf(m)))
           [] m.op = "pull" -> Arr(SelectSeq(in.s, LAMBDA x : ~pullElementMatch(m, x)))
           [] m.op = "pullAll" -> Arr(SelectSeq(in.s, LAMBDA x : x \notin Elems(m.elt.s)))
           [] OTHER -> \* pop
                 IF m.elt.n < 0
                 THEN IF in.s = <<>> THEN in ELSE Arr(Tail(in.s))
                 ELSE Arr(SubSeq(in.s, 1, Len(in.s) - 1))

-----------------------------------------------------------------------------
(* ModSetState::createNewFromMods *)

\* Every path of length 1 or 2, sorted: a name, then its subfields.
AllPaths ==
    LET N == Len(FieldNames) IN
    [i \in 1..(N * (N + 1)) |->
        LET k == (i - 1) \div (N + 1) + 1
            j == (i - 1) % (N + 1)
        IN IF j = 0 THEN <<FieldNames[k]>> ELSE <<FieldNames[k], FieldNames[j]>>]

\* The mods from _mods.lower_bound(root) to lower_bound(root + '\xff'):
\* those below root, in map order.
ModsUnder(root, mss) ==
    SelectSeq(AllPaths, LAMBDA p : p \in DOMAIN mss.st /\ IsStrictPrefix(root, p))

\* Builder::append of a field whose value may be Err or nothing (Missing).
Put(b, f, v) == IF b = Err \/ v = Err THEN Err ELSE PutField(b, f, v)

AsObj(r) == IF r = Err THEN Err ELSE Obj(r)

\* ModSetState::appendNewFromMod(ms, b), in update.h (not in the
\* repository), for a field the document does not have: by its effect.
appendNewFromMod(ms) ==
    LET m == ms.m IN
    IF ms.dontApply THEN Missing
    ELSE CASE m.op \in {"push", "addToSet"} -> Arr(EachOf(m))
           [] m.op \in {"pushAll", "inc", "set"} -> m.elt
           [] m.op \in {"unset", "pull", "pullAll"} -> Missing
           [] m.op = "renameTo" -> ms.newVal
           [] OTHER -> Err

RECURSIVE createNewFromMods(_, _, _), merge(_, _, _, _, _, _, _),
          appendNewFromMods(_, _, _, _, _)

\* _appendNewFromMods(root, m, b, onedownseen): a mod below a field the
\* object does not have creates that field as an object, once, filled by
\* createNewFromMods over an empty object; else appendNewFromMod.
appendNewFromMods(root, mp, b, seen, mss) ==
    LET rest == SubSeq(mp, Len(root) + 1, Len(mp)) IN
    IF Len(rest) > 1
    THEN IF rest[1] \in seen
         THEN [b |-> b, seen |-> seen]
         ELSE [b |-> Put(b, rest[1], AsObj(createNewFromMods(Append(root, rest[1]), <<>>, mss))),
               seen |-> seen \cup {rest[1]}]
    ELSE [b |-> Put(b, rest[1], appendNewFromMod(mss.st[mp])), seen |-> seen]

\* The loop of createNewFromMods(root, b, obj): es the fields still to
\* visit, ms the mods, seen onedownseen, b the object built so far.
merge(root, obj, es, ms, seen, b, mss) ==
    IF b = Err THEN Err
    ELSE IF es # <<>> /\ ms # <<>>
    THEN LET f   == Head(es)
             mp  == Head(ms)
             cmp == compareDottedFieldNames(mp, Append(root, f))
         IN CASE cmp = "LEFT_SUBFIELD" ->
                   \* uassert 10145 (arrays are not among the inputs); the
                   \* second visit is the assert(0) of the "very weird case"
                   IF obj[f].t # "obj" \/ f \in seen THEN Err
                   ELSE merge(root, obj, Tail(es), Tail(ms), seen \cup {f},
                              Put(b, f, AsObj(createNewFromMods(Append(root, f), obj[f].f, mss))),
                              mss)
              [] cmp = "LEFT_BEFORE" ->
                   LET r == appendNewFromMods(root, mp, b, seen, mss)
                   IN merge(root, obj, es, Tail(ms), r.seen, r.b, mss)
              [] cmp = "SAME" ->
                   merge(root, obj, Tail(es), Tail(ms), seen,
                         Put(b, f, ApplyMod(mss.st[mp], obj[f])), mss)
              [] cmp = "RIGHT_BEFORE" ->
                   merge(root, obj, Tail(es), ms, seen, Put(b, f, obj[f]), mss)
              [] OTHER -> Err   \* massert 10399
    ELSE IF es # <<>>
    THEN merge(root, obj, Tail(es), ms, seen, Put(b, Head(es), obj[Head(es)]), mss)
    ELSE IF ms # <<>>
    THEN LET r == appendNewFromMods(root, Head(ms), b, seen, mss)
         IN merge(root, obj, es, Tail(ms), r.seen, r.b, mss)
    ELSE b

createNewFromMods(root, obj, mss) ==
    merge(root, obj, SortedFields(obj), ModsUnder(root, mss), {}, <<>>, mss)

-----------------------------------------------------------------------------
(* ModSetState::applyModsInPlace *)

\* Mod::incrementMe(in) (update.h): the sum is stored in the field's own
\* type: BSONElementManipulator's setNumber, setLong or setInt.
incrementMe(in, elt) ==
    CASE in.t = "dbl"  -> Num("dbl", elt.n + in.n)
      [] in.t = "long" -> Num("long", Wrap(numberLong(elt) + numberLong(in), LongBits))
      [] OTHER         -> Num("int", Wrap(numberInt(elt) + numberInt(in), IntBits))

RECURSIVE SetDotted(_, _, _)
SetDotted(doc, p, v) ==
    IF Len(p) = 1 THEN PutField(doc, p[1], v)
    ELSE PutField(doc, p[1], Obj(SetDotted(doc[p[1]].f, Tail(p), v)))

\* applyModsInPlace(isOnDisk): the mods in map order; INC and SET write
\* over m.old, the no-op kinds prepare let through are skipped, any other
\* kind is uassert 13478, after the earlier writes are done.  The result
\* is the document and whether the uassert fired.
RECURSIVE InPlaceLoop(_, _, _)
InPlaceLoop(doc, ps, mss) ==
    IF ps = <<>> THEN [doc |-> doc, err |-> FALSE]
    ELSE LET p  == Head(ps)
             ms == mss.st[p]
             op == ms.m.op
         IN CASE ms.dontApply \/ op \in {"unset", "pull", "pullAll", "addToSet",
                                         "renameFrom", "renameTo"} ->
                   InPlaceLoop(doc, Tail(ps), mss)
              [] op = "inc" ->
                   InPlaceLoop(SetDotted(doc, p, incrementMe(getFieldDotted(doc, p), ms.m.elt)),
                               Tail(ps), mss)
              [] op = "set" ->
                   InPlaceLoop(SetDotted(doc, p, ms.m.elt), Tail(ps), mss)
              [] OTHER -> [doc |-> doc, err |-> TRUE]

applyModsInPlace(doc, mss) == InPlaceLoop(doc, ModsUnder(<<>>, mss), mss)

-----------------------------------------------------------------------------
(* What an update with $ operators means, independently of the engine:    *)
(* every mod is applied to the value its field had before the update; a   *)
(* $rename moves the source's value, if there is one, to the target; a mod *)
(* whose field is missing and that removes or pulls changes nothing; a mod *)
(* that does not fit its field's type fails the whole update.  Numbers     *)
(* are exact: an int sum outside the int range is a long.                  *)

Keep == [t |-> "keep"]

RefInc(old, elt) ==
    LET s == old.n + elt.n IN
    CASE old.t = "dbl" \/ elt.t = "dbl" -> Num("dbl", s)
      [] old.t = "int" /\ elt.t = "int" /\ s \in IntMin..IntMax -> Num("int", s)
      [] OTHER -> Num("long", s)

\* The new value of the field of user mod u, whose old value is old.
RefValue(u, old) ==
    CASE u.op = "set" -> u.elt
      [] old = Missing ->
            CASE u.op \in {"inc", "pushAll"} -> u.elt
              [] u.op \in {"push", "addToSet"} -> Arr(EachOf(u))
              [] OTHER -> Keep
      [] u.op = "unset" -> Missing
      [] u.op = "inc" -> IF old.t \in Numeric THEN RefInc(old, u.elt) ELSE Err
      [] u.op = "bit" ->
            IF old.t = "int" THEN Num("int", BitFold(old.n, u.elt.s, IntBits))
            ELSE IF old.t = "long" THEN Num("long", BitFold(old.n, u.elt.s, LongBits))
            ELSE Err
      [] old.t # "arr" -> Err
      [] u.op = "push" -> Arr(Append(old.s, u.elt.n))
      [] u.op = "pushAll" -> Arr(old.s \o u.elt.s)
      [] u.op = "addToSet" -> Arr(old.s \o SelectSeq(EachOf(u), LAMBDA x : x \notin Elems(old.s)))
      [] u.op = "pull" -> Arr(SelectSeq(old.s, LAMBDA x : x # u.elt.n))
      [] u.op = "pullAll" -> Arr(SelectSeq(old.s, LAMBDA x : x \notin Elems(u.elt.s)))
      [] OTHER -> \* pop: -1 removes the first element, 1 the last
            Arr(IF u.elt.n < 0 THEN SubSeq(old.s, 2, Len(old.s))
                ELSE SubSeq(old.s, 1, Len(old.s) - 1))

\* The document with path p set to v (Missing removes it; Keep leaves the
\* document as it is); a parent that is not an object is an error.
RefSet(doc, p, v) ==
    CASE doc = Err \/ v = Err -> Err
      [] v = Keep -> doc
      [] Len(p) = 1 -> PutField(doc, p[1], v)
      [] p[1] \notin DOMAIN doc ->
            IF v = Missing THEN doc ELSE PutField(doc, p[1], Obj(p[2] :> v))
      [] doc[p[1]].t # "obj" -> Err
      [] OTHER -> PutField(doc, p[1], Obj(PutField(doc[p[1]].f, p[2], v)))

RECURSIVE RefFold(_, _, _)
RefFold(doc, us, orig) ==
    IF us = {} THEN doc
    ELSE LET u == CHOOSE u \in us : TRUE
         IN RefFold(RefSet(doc, u.path, RefValue(u, getFieldDotted(orig, u.path))),
                    us \ {u}, orig)

\* Renames first (source removed, then target set), then the other mods.
RefApply(orig, user) ==
    LET ren  == {u \in user : u.op = "rename"}
        Move(d, u) == LET v == getFieldDotted(orig, u.path)
                      IN IF v = Missing THEN d
                         ELSE RefSet(RefSet(d, u.path, Missing), u.to, v)
        RECURSIVE Moves(_, _)
        Moves(d, us) == IF us = {} THEN d
                        ELSE LET u == CHOOSE u \in us : TRUE IN Moves(Move(d, u), us \ {u})
    IN RefFold(Moves(orig, ren), user \ ren, orig)

\* Values equal as BSON compares them: numbers by value.
RECURSIVE Equiv(_, _)
Equiv(v, w) ==
    CASE v.t \in Numeric -> w.t \in Numeric /\ v.n = w.n
      [] v.t = "obj" -> w.t = "obj" /\ DOMAIN v.f = DOMAIN w.f
                        /\ \A k \in DOMAIN v.f : Equiv(v.f[k], w.f[k])
      [] OTHER -> v = w

DocEquiv(d, e) == Equiv(Obj(d), Obj(e))

-----------------------------------------------------------------------------
(* The oplog entry.  An entry is [mods, sizes]: the update, as user mods,  *)
(* and the pattern's size spec, a function from the array-dependent mods'  *)
(* paths to the array size the update started from (-1: the field was not  *)
(* there, logged as {path: null}).  ModState's fields and ModSetState's    *)
(* needOpLogRewrite, getOpLogRewrite and appendSizeSpecForArrayDepMods are *)
(* in update.h, not in the repository: modelled by their effect.           *)

NoEntry == [t |-> "none"]

LogMod(op, p, elt, each) == [op |-> op, path |-> p, elt |-> elt, each |-> each, to |-> <<>>]

\* Mod::arrayDep(): the mods whose result depends on the array's length.
arrayDep(m) == m.op \in {"push", "pushAll", "pop"}

\* Variant in which an $inc applied in place keeps its own operator.
appendForOpLog_unfixed(ms, p, old, inPlace) ==
    LET m == ms.m
        e == getFieldDotted(old, p)
    IN CASE m.op = "inc" /\ inPlace -> LogMod("inc", p, m.elt, FALSE)
         [] m.op = "inc" ->
              LogMod("set", p, IF e # Missing THEN appendIncremented(e, m.elt) ELSE m.elt, FALSE)
         [] m.op = "renameFrom" -> LogMod("unset", p, Num("int", 1), FALSE)
         [] m.op = "renameTo"   -> LogMod("set", p, ms.newVal, FALSE)
         [] OTHER               -> LogMod(m.op, p, m.elt, m.each)

\* ModState::appendForOpLog: nothing for a dontApply mod; an $inc is logged
\* as a $set of the value written -- in place the field's own incremented
\* value (fixed, fixedOpName "$set"), on a rebuild appendIncValue of the
\* sum, and for a new field appendNewFromMod's elt; RENAME_FROM as
\* {$unset: {from: 1}}, RENAME_TO as a $set of newVal; any other mod as its
\* own operator and argument.
appendForOpLog(ms, p, old, inPlace) ==
    LET m == ms.m
        e == getFieldDotted(old, p)
    IN CASE m.op = "inc" ->
              LogMod("set", p, IF inPlace THEN incrementMe(e, m.elt)
                               ELSE IF e # Missing THEN appendIncremented(e, m.elt)
                               ELSE m.elt, FALSE)
         [] m.op = "renameFrom" -> LogMod("unset", p, Num("int", 1), FALSE)
         [] m.op = "renameTo"   -> LogMod("set", p, ms.newVal, FALSE)
         [] OTHER               -> LogMod(m.op, p, m.elt, m.each)

\* ModSetState::needOpLogRewrite(): a mod that applies and is an $inc (it
\* has incType, fixed or fixedOpName) or part of a $rename.
needOpLogRewrite(mss) ==
    \E p \in DOMAIN mss.st :
        ~mss.st[p].dontApply /\ mss.st[p].m.op \in {"inc", "renameFrom", "renameTo"}

\* ModState::pushStartSize: Mod::apply records the array's length; it stays
\* -1 when the field is new.
pushStartSize(p, old, inPlace) ==
    IF ~inPlace /\ getFieldDotted(old, p) # Missing
    THEN Len(getFieldDotted(old, p).s) ELSE -1

\* The entry logOp("u", ...) writes after an update of old succeeded:
\* getOpLogRewrite() or the update as given, and the pattern extended by
\* appendSizeSpecForArrayDepMods.
LogEntry(user, mss, old, inPlace) ==
    [mods  |-> IF needOpLogRewrite(mss)
               THEN {appendForOpLog(mss.st[p], p, old, inPlace) :
                        p \in {q \in DOMAIN mss.st : ~mss.st[q].dontApply}}
               ELSE user,
     sizes |-> [p \in {q \in DOMAIN mss.st : arrayDep(mss.st[q].m)} |->
                   pushStartSize(p, old, inPlace)]]

\* The pattern's size spec matches: {$size: n} an array of n elements,
\* null a missing field.
Matches(d, sizes) ==
    \A p \in DOMAIN sizes :
        IF sizes[p] = -1 THEN getFieldDotted(d, p) = Missing
        ELSE getFieldDotted(d, p).t = "arr" /\ Len(getFieldDotted(d, p).s) = sizes[p]

\* A secondary applies the entry through _updateObjects (upsert false): the
\* ModSet constructor's uasserts, the query, then prepare and
\* applyModsInPlace or createNewFromMods on the one matching document.
SecondaryUpdate(d, e) ==
    IF ~ModSetValid(e.mods) THEN [doc |-> d, res |-> "error"]
    ELSE IF ~Matches(d, e.sizes) THEN [doc |-> d, res |-> "ok"]
    ELSE LET m == prepare(d, ModSetOf(e.mods)) IN
         IF m = Err THEN [doc |-> d, res |-> "error"]
         ELSE IF m.inPlace
         THEN LET r == applyModsInPlace(d, m)
              IN [doc |-> r.doc, res |-> IF r.err THEN "error" ELSE "ok"]
         ELSE LET r == createNewFromMods(<<>>, d, m)
              IN IF r = Err THEN [doc |-> d, res |-> "error"]
                 ELSE [doc |-> r, res |-> "ok"]

-----------------------------------------------------------------------------
(* _updateById's $-operator branch on the one document the query finds    *)
(* (_updateObjects' loop does the same for each document it modifies).    *)

VARIABLES
    doc,    \* the record's document on disk
    upd,    \* the update's $ operators, as user mods
    mss,    \* the ModSetState prepare returns
    pc,     \* "prepare", "apply", "done"
    res,    \* "ok" or "error" (a uassert reached the client)
    orig,   \* ghost: the document before the update
    oplog,  \* the entry logOp wrote, or NoEntry
    sdoc,   \* a secondary's copy of the document
    sn,     \* how often the secondary has applied the entry
    sres    \* the outcome of its last application

vars == <<doc, upd, mss, pc, res, orig, oplog, sdoc, sn, sres>>

Init ==
    /\ \E in \in Inputs : doc = in.doc /\ upd = in.mods
    /\ orig = doc
    /\ mss = Err
    /\ pc = "prepare"
    /\ res = "none"
    /\ oplog = NoEntry
    /\ sdoc = doc
    /\ sn = 0
    /\ sres = "none"

\* mods->prepare(onDisk); a uassert ends the update.
Prepare ==
    /\ pc = "prepare"
    /\ mss' = prepare(doc, ModSetOf(upd))
    /\ IF mss' = Err
       THEN pc' = "done" /\ res' = "error"
       ELSE pc' = "apply" /\ res' = res
    /\ UNCHANGED <<doc, upd, orig, oplog, sdoc, sn, sres>>

\* canApplyInPlace(): applyModsInPlace(true) writes into the record.
ApplyInPlace ==
    /\ pc = "apply"
    /\ mss.inPlace
    /\ LET r == applyModsInPlace(doc, mss)
       IN /\ doc' = r.doc
          /\ res' = IF r.err THEN "error" ELSE "ok"
          /\ oplog' = IF r.err THEN NoEntry ELSE LogEntry(upd, mss, doc, TRUE)
    /\ pc' = "done"
    /\ UNCHANGED <<upd, mss, orig, sdoc, sn, sres>>

\* Otherwise createNewFromMods() builds the new object and updateRecord
\* stores it; a uassert while building leaves the record as it was.
CreateNew ==
    /\ pc = "apply"
    /\ ~mss.inPlace
    /\ LET r == createNewFromMods(<<>>, doc, mss)
       IN IF r = Err
          THEN res' = "error" /\ UNCHANGED <<doc, oplog>>
          ELSE res' = "ok" /\ doc' = r /\ oplog' = LogEntry(upd, mss, doc, FALSE)
    /\ pc' = "done"
    /\ UNCHANGED <<upd, mss, orig, sdoc, sn, sres>>

\* A secondary applies the entry; it may apply it again (an oplog entry is
\* replayed after a restart or an initial sync that already saw its effect).
Replay ==
    /\ oplog # NoEntry
    /\ sn < Replays
    /\ LET r == SecondaryUpdate(sdoc, oplog)
       IN sdoc' = r.doc /\ sres' = r.res
    /\ sn' = sn + 1
    /\ UNCHANGED <<doc, upd, mss, pc, res, orig, oplog>>

Next == Prepare \/ ApplyInPlace \/ CreateNew \/ Replay

Spec == Init /\ [][Next]_vars

-----------------------------------------------------------------------------
(* Properties *)

\* The update does what its operators mean: when it succeeds the document
\* is the reference result (numbers compared by value), and when it fails
\* -- the reference fails exactly then -- the document is untouched, as
\* prepare's "so that we don't leave a partially modified object on
\* uassert" intends.  About prepare's in-place decision, Mod::apply,
\* applyModsInPlace and createNewFromMods' merge.
ModsMatchReference ==
    pc = "done" =>
        LET r == RefApply(orig, upd) IN
        IF r = Err THEN res = "error" /\ doc = orig
        ELSE res = "ok" /\ DocEquiv(doc, r)

RECURSIVE Layout(_)
Layout(v) ==
    IF v.t = "obj" THEN [k \in DOMAIN v.f |-> Layout(v.f[k])]
    ELSE <<v.t, valuesize(v)>>

\* An update applied in place leaves every field of the record with its
\* type and size, so writing over the old bytes cannot spill into the next
\* field: prepare's in-place decision agrees with what applyModsInPlace
\* writes.
InPlaceKeepsLayout ==
    (pc = "done" /\ mss # Err /\ mss.inPlace) => Layout(Obj(doc)) = Layout(Obj(orig))

\* Every application of the update's oplog entry on a secondary succeeds
\* and leaves the secondary's document equal to the primary's, types
\* included, however often it is applied: appendForOpLog's rewrites ($inc
\* to $set, $rename to $unset and $set) and the size spec of
\* appendSizeSpecForArrayDepMods make the entry idempotent.
ReplayConverges ==
    sn > 0 => sres = "ok" /\ sdoc = doc

\* The update is sound end to end: the primary's document is what the
\* operators mean (or untouched on an error) and every secondary that
\* applies the oplog entry reaches the same document.
UpdateSound == ModsMatchReference /\ ReplayConverges

=============================================================================
