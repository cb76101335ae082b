----------------------------- MODULE MultiUpdate -----------------------------
(***************************************************************************)
(* A multi-document $-operator update (_updateObjects, db/update.cpp) that *)
(* scans a collection in natural order and yields dbMutex now and then,    *)
(* composed with the ClientCursor registry (db/clientcursor.{h,cpp}) that  *)
(* keeps its cursor valid while it is unlocked, another client removing,   *)
(* inserting and dropping, and the ClientCursorMonitor timing out idle     *)
(* cursors.  The lock steps are those of RWLock, what MongoMutex promises  *)
(* its callers.                                                            *)
(*                                                                         *)
(* The collection is a function from record locations (DiskLoc, ordered   *)
(* as the natural-order cursor visits them) to documents.  Moving a       *)
(* record, deleting and inserting are pdfile's updateRecord, deleteRecord  *)
(* and insert, whose source is not in the repository: a delete calls      *)
(* aboutToDelete and frees the location, an insert takes a free one.       *)
(***************************************************************************)
EXTENDS Integers, FiniteSets

CONSTANTS
    Locs,        \* record locations, a finite set of naturals
    Docs,        \* document identities
    Match,       \* the documents the update's query matches
    InitRecs,    \* the collection before the update: Locs -> Docs \cup {Free}
    Free,        \* an unused location
    Null,        \* the null DiskLoc; also refLoc() of a cursor at its end
    U, R, M,     \* the updating client, another client, the cursor monitor
    YieldSkip,   \* the yield period of the no-match path (256)
    YieldMod,    \* the yield period after a modification (64)
    AgeLimit,    \* shouldTimeout()'s idle limit, in monitor periods
    MaxOps       \* the other client's operations in one behaviour

ASSUME Locs \subseteq Nat /\ Match \subseteq Docs
ASSUME InitRecs \in [Locs -> Docs \cup {Free}]
ASSUME YieldSkip \in Nat \ {0} /\ YieldMod \in Nat \ {0}

Threads == {U, R, M}

VARIABLES
    held,      \* dbMutex as RWLock sees it
    recs,      \* the collection: location -> document or Free
    pc,        \* the update: "start", "search", "opyielded" (UpdateOp finding
               \* the first match), "loop", "yielded", "done"
    cpos,      \* the cursor UpdateOp opens and the MultiCursor c takes over:
               \* its current location, Null at the end
    nscanned,  \* _updateObjects' nscanned
    seen,      \* _updateObjects' seenObjects
    cc,        \* the update's ClientCursor: st "none" / "live" / "gone",
               \* loc (_lastLoc, its byLoc key), pin (_pinValue), age
    opcc,      \* UpdateOp's _cc, made at its first yield, alike
    dropped,   \* the collection was dropped
    ops,       \* the other client's operations so far
    cnt,       \* ghost: times the update modified each document
    stable     \* ghost: documents present from the start and never removed

vars == <<held, recs, pc, cpos, nscanned, seen, cc, opcc, dropped, ops, cnt,
          stable>>

Lock == INSTANCE RWLock

NoCC == [st |-> "none", loc |-> Null, pin |-> 0, age |-> 0]

Live == {l \in Locs : recs[l] # Free}

MinOf(S) == CHOOSE x \in S : \A y \in S : x <= y

\* c->advance() of a natural-order cursor: the next record of the
\* collection after p, Null past the last.
NextLive(p) ==
    LET S == {l \in Live : l > p} IN IF S = {} THEN Null ELSE MinOf(S)

-----------------------------------------------------------------------------
(* ClientCursor *)

\* The constructor, with QueryOption_NoCursorTimeout: noTimeout() pins it.
NewCC == [st |-> "live", loc |-> Null, pin |-> 1, age |-> 0]

\* setLastLoc_inlock(L): the byLoc entry moves from _lastLoc to L (none
\* for the null DiskLoc).
setLastLoc_inlock(c, L) == [c EXCEPT !.loc = L]

\* updateLocation(): _idleAgeMillis = 0, then the byLoc entry follows
\* refLoc().
updateLocation(c, refLoc) == setLastLoc_inlock([c EXCEPT !.age = 0], refLoc)

\* Variant: the destructor leaves the cursor in byLoc.
Destroy_keeploc(c) == IF c.st = "live" THEN [c EXCEPT !.st = "gone"] ELSE c

\* ~ClientCursor(): setLastLoc_inlock(DiskLoc()) takes it out of byLoc, and
\* it leaves clientCursorsById.
Destroy(c) == IF c.st = "live" THEN setLastLoc_inlock([c EXCEPT !.st = "gone"], Null)
              ELSE c

\* c->advance() of the shared natural-order cursor; at its end it stays there.
Adv(cur) == IF cur = Null THEN Null ELSE NextLive(cur)

\* One ClientCursor of aboutToDelete(dl)'s toAdvance list: if it is
\* registered in byLoc at dl, its Cursor (the one cursor that the update's
\* MultiCursor and UpdateOp share) is advanced, and it is re-registered
\* where that cursor now is.  r holds the cursor's position and the
\* update's and UpdateOp's ClientCursors.
AdvanceOne(dl, r, which) ==
    IF r[which].st = "live" /\ r[which].loc = dl
    THEN [r EXCEPT !.pos = Adv(r.pos), ![which] = updateLocation(@, Adv(r.pos))]
    ELSE r

\* toAdvance is in byLoc's key order, (dl, cursor id), and ids are random.
Orders == {<<"cc", "opcc">>, <<"opcc", "cc">>}

\* aboutToDelete(dl): every ClientCursor registered at dl, in that order.
aboutToDelete(dl, r, order) ==
    AdvanceOne(dl, AdvanceOne(dl, r, order[1]), order[2])

\* The cursor and both ClientCursors, as aboutToDelete sees them.
Regs(cur) == [pos |-> cur, cc |-> cc, opcc |-> opcc]

\* Variant: prepareToYield() does not call updateLocation().
prepareToYield_noloc(c, cur) == c

\* prepareToYield(): store the id, then updateLocation().
prepareToYield(c, cur) == updateLocation(c, cur)

\* yield(): a ClientCursor is made the first time, prepareToYield(), and
\* staticYield()'s dbtempreleasecond lets go of the write lock.
yield(c, cur) ==
    /\ cc' = prepareToYield(IF c.st = "none" THEN NewCC ELSE c, cur)
    /\ Lock!Release(U)
    /\ pc' = "yielded"

-----------------------------------------------------------------------------
(* _updateObjects *)

\* _updateObjects makes the MultiCursor under the update's write lock; it
\* runs UpdateOp, whose _init() opens the natural-order cursor on the
\* first record.
Start ==
    /\ pc = "start"
    /\ Lock!AcquireW(U)
    /\ cpos' = IF Live = {} THEN Null ELSE MinOf(Live)
    /\ stable' = {recs[l] : l \in Live}
    /\ pc' = "search"
    /\ UNCHANGED <<recs, nscanned, seen, cc, opcc, dropped, ops, cnt>>

\* UpdateOp::next(): at the cursor's end or on a record that matches,
\* setComplete(): the MultiCursor takes over the cursor (newCursor()
\* returns _c) and _updateObjects' loop starts; otherwise _c->advance().
OpNext ==
    /\ pc = "search"
    /\ IF cpos = Null \/ recs[cpos] \in Match
       THEN pc' = "loop" /\ UNCHANGED cpos
       ELSE cpos' = NextLive(cpos) /\ UNCHANGED pc
    /\ UNCHANGED <<held, recs, nscanned, seen, cc, opcc, dropped, ops, cnt,
                   stable>>

\* Between two next() calls the query runner may yield: UpdateOp's
\* prepareToYield() makes _cc the first time, a ClientCursor with
\* QueryOption_NoCursorTimeout on the same _c, and prepareToYield()
\* registers it where _c is; then the write lock is let go.
OpYield ==
    /\ pc = "search"
    /\ opcc' = prepareToYield(IF opcc.st = "none" THEN NewCC ELSE opcc, cpos)
    /\ Lock!Release(U)
    /\ pc' = "opyielded"
    /\ UNCHANGED <<recs, cpos, nscanned, seen, cc, dropped, ops, cnt, stable>>

\* The runner relocks and calls UpdateOp::recoverFromYield(): if _cc was
\* deleted, massert 13339 ("cursor dropped during update") fails the update;
\* the exception releases the lock.  Otherwise the search goes on.
OpRecover ==
    /\ pc = "opyielded"
    /\ \/ /\ opcc.st = "live"
          /\ Lock!AcquireW(U)
          /\ pc' = "search"
       \/ /\ opcc.st = "gone"
          /\ Lock!Free
          /\ pc' = "done"
          /\ UNCHANGED held
    /\ UNCHANGED <<recs, cpos, nscanned, seen, cc, opcc, dropped, ops, cnt,
                   stable>>

\* while (c->ok()), a record that does not match: advance, and every
\* YieldSkip records scanned, yield.
SkipStep ==
    /\ pc = "loop"
    /\ cpos # Null
    /\ recs[cpos] \notin Match
    /\ nscanned' = nscanned + 1
    /\ cpos' = NextLive(cpos)
    /\ IF nscanned' % YieldSkip = 0
       THEN yield(cc, cpos')
       ELSE UNCHANGED <<held, pc, cc>>
    /\ UNCHANGED <<recs, seen, opcc, dropped, ops, cnt, stable>>

\* indexHack: a record that may move (not applied in place) makes the
\* ClientCursor, if there is one, register the cursor's new location first.
indexHack(how, c, nxt) ==
    IF how # "inplace" /\ c.st # "none" THEN updateLocation(c, nxt) ELSE c

\* Variant: the new location of a moved record is not remembered.
Seen_never(how, nl) == seen

\* seenObjects after updateRecord(): a moved record's new location (the
\* collection has no index on a modified field: modsIsIndexed is 0, so an
\* in-place or unmoved record is not entered).
Seen(how, nl) == IF how = "move" THEN seen \cup {nl} ELSE seen

\* A record that matches, multi with $ operators: advance first ("in case
\* this one moves"); a location in seenObjects is skipped.  Otherwise the
\* mods are applied in place, or updateRecord() rewrites the record where it
\* is or moves it to a free location; before updateRecord the indexHack
\* calls cc->updateLocation().  A move deletes the old record (aboutToDelete)
\* and enters the new location in seenObjects.  Every YieldMod records
\* scanned, yield.
MatchStep ==
    /\ pc = "loop"
    /\ cpos # Null
    /\ recs[cpos] \in Match
    /\ nscanned' = nscanned + 1
    /\ LET loc == cpos
           d   == recs[cpos]
           nxt == NextLive(cpos)
       IN
       \/ /\ loc \in seen
          /\ cpos' = nxt
          /\ UNCHANGED <<held, pc, cc, opcc, recs, seen, cnt>>
       \/ /\ loc \notin seen
          /\ cnt' = [cnt EXCEPT ![d] = @ + 1]
          /\ \E how \in {"inplace", "rewrite", "move"},
                nl \in {l \in Locs : recs[l] = Free} \cup {loc},
                order \in Orders :
               LET hacked == [Regs(nxt) EXCEPT !.cc = indexHack(how, cc, nxt)]
                   after  == IF how = "move"
                             THEN aboutToDelete(loc, hacked, order)
                             ELSE hacked
               IN /\ (how = "move") = (nl # loc)
                  /\ recs' = IF how = "move"
                             THEN [recs EXCEPT ![loc] = Free, ![nl] = d]
                             ELSE recs
                  /\ seen' = Seen(how, nl)
                  /\ cpos' = after.pos
                  /\ opcc' = after.opcc
                  /\ IF nscanned' % YieldMod = 0
                     THEN yield(after.cc, after.pos)
                     ELSE cc' = after.cc /\ UNCHANGED <<held, pc>>
    /\ UNCHANGED <<dropped, ops, stable>>

\* The relock at the end of staticYield(), then recoverFromYield(): the
\* ClientCursor is looked up by id; if it was deleted the update breaks out
\* of its loop; so it does when the cursor is at its end.  Breaking out
\* ends the update: its ClientCursor, if still there, is destroyed and the
\* write lock released.
recoverFromYield ==
    /\ pc = "yielded"
    /\ \/ /\ cc.st = "live"
          /\ cpos # Null
          /\ Lock!AcquireW(U)
          /\ pc' = "loop"
          /\ UNCHANGED <<cc, opcc>>
       \/ /\ cc.st = "gone" \/ cpos = Null
          /\ Lock!Free
          /\ pc' = "done"
          /\ cc' = Destroy(cc)
          /\ opcc' = Destroy(opcc)
          /\ UNCHANGED held
    /\ UNCHANGED <<recs, cpos, nscanned, seen, dropped, ops, cnt, stable>>

\* c->ok() is false: the loop ends, the update returns; its auto_ptr
\* destroys its ClientCursor, the last shared_ptr to UpdateOp destroys
\* _cc, and its scope releases the write lock.
End ==
    /\ pc = "loop"
    /\ cpos = Null
    /\ Lock!Release(U)
    /\ pc' = "done"
    /\ cc' = Destroy(cc)
    /\ opcc' = Destroy(opcc)
    /\ UNCHANGED <<recs, cpos, nscanned, seen, dropped, ops, cnt, stable>>

-----------------------------------------------------------------------------
(* The other client, each operation under the write lock *)

OtherOp ==
    /\ Lock!Free
    /\ ~dropped
    /\ ops < MaxOps
    /\ ops' = ops + 1
    /\ UNCHANGED held

\* A remove of one record: deleteRecord calls aboutToDelete(dl).
Remove ==
    /\ OtherOp
    /\ \E dl \in Live, order \in Orders :
          LET r == aboutToDelete(dl, Regs(cpos), order)
          IN /\ cpos' = r.pos
             /\ cc' = r.cc
             /\ opcc' = r.opcc
             /\ recs' = [recs EXCEPT ![dl] = Free]
             /\ stable' = stable \ {recs[dl]}
    /\ UNCHANGED <<pc, nscanned, seen, dropped, cnt>>

\* An insert of a new document into a free location.
Insert ==
    /\ OtherOp
    /\ \E l \in Locs, d \in Docs :
          /\ recs[l] = Free
          /\ d \notin {recs[k] : k \in Locs}
          /\ cnt[d] = 0
          /\ d \notin stable
          /\ recs' = [recs EXCEPT ![l] = d]
    /\ UNCHANGED <<pc, cpos, nscanned, seen, cc, opcc, dropped, cnt, stable>>

\* A drop of the collection: invalidate(ns) deletes every ClientCursor of
\* the namespace, then the records go.
invalidate ==
    /\ OtherOp
    /\ cc' = Destroy(cc)
    /\ opcc' = Destroy(opcc)
    /\ recs' = [l \in Locs |-> Free]
    /\ dropped' = TRUE
    /\ stable' = {}
    /\ UNCHANGED <<pc, cpos, nscanned, seen, cnt>>

\* shouldTimeout(): the cursor ages by one monitor period and times out
\* past the limit unless pinned; the age stops counting past the limit.
aged(c) == [c EXCEPT !.age = IF @ > AgeLimit THEN @ ELSE @ + 1]
shouldTimeout(c) == aged(c).age > AgeLimit /\ c.pin = 0

\* One cursor of idleTimeReport()'s loop over clientCursorsById.
Report(c) ==
    IF c.st # "live" THEN c
    ELSE IF shouldTimeout(c) THEN Destroy(aged(c)) ELSE aged(c)

\* ClientCursorMonitor::run() calls idleTimeReport() every 4 seconds: under
\* a read lock, every cursor ages by one period and shouldTimeout() (past
\* the limit and not pinned) deletes it.
idleTimeReport ==
    /\ Lock!NoWriter
    /\ "live" \in {cc.st, opcc.st}
    /\ cc' = Report(cc)
    /\ opcc' = Report(opcc)
    /\ UNCHANGED <<held, recs, pc, cpos, nscanned, seen, dropped, ops, cnt,
                   stable>>

-----------------------------------------------------------------------------

Init ==
    /\ Lock!Init
    /\ recs = InitRecs
    /\ pc = "start"
    /\ cpos = Null
    /\ nscanned = 0
    /\ seen = {}
    /\ cc = NoCC
    /\ opcc = NoCC
    /\ dropped = FALSE
    /\ ops = 0
    /\ cnt = [d \in Docs |-> 0]
    /\ stable = {}

\* After the update and the other client's operations, the monitor keeps
\* running; with no cursor left it changes nothing.
Idle ==
    /\ pc = "done"
    /\ UNCHANGED vars

Next ==
    \/ Start \/ OpNext \/ OpYield \/ OpRecover \/ SkipStep \/ MatchStep \/ recoverFromYield \/ End
    \/ Remove \/ Insert \/ invalidate \/ idleTimeReport \/ Idle

Spec == Init /\ [][Next]_vars

-----------------------------------------------------------------------------
(* Properties *)

CCs == [st : {"none", "gone"}, loc : {Null}, pin : {0, 1}, age : 0..(AgeLimit + 1)]
       \cup [st : {"live"}, loc : Locs \cup {Null}, pin : {0, 1},
             age : 0..(AgeLimit + 1)]

TypeOK ==
    /\ held \in [Threads -> Lock!Modes]
    /\ recs \in [Locs -> Docs \cup {Free}]
    /\ pc \in {"start", "search", "opyielded", "loop", "yielded", "done"}
    /\ cpos \in Locs \cup {Null}
    /\ nscanned \in Nat
    /\ seen \subseteq Locs
    /\ cc \in CCs
    /\ opcc \in CCs
    /\ dropped \in BOOLEAN
    /\ ops \in 0..MaxOps
    /\ cnt \in [Docs -> Nat]
    /\ stable \subseteq Docs

\* Whenever the update runs its loop, its cursor is on a record that
\* exists: removes done while it yielded advanced it (aboutToDelete finds
\* it in byLoc because prepareToYield registered its current location), and
\* its own moves never leave it on the freed location.
CursorOnLiveRecord ==
    pc \in {"search", "loop"} /\ cpos # Null => recs[cpos] # Free

\* No document is modified twice by one multi-update, although a moved
\* document lands at a location the scan may still reach (seenObjects, and
\* advancing before the move).
UpdatedOnce == \A d \in Docs : cnt[d] <= 1

\* An update that ends without its collection being dropped has modified
\* every matching document that was there throughout: no yield, remove,
\* insert, own move or cursor timeout makes the scan skip one.
UpdateComplete ==
    pc = "done" /\ ~dropped => \A d \in stable \cap Match : cnt[d] >= 1

=============================================================================
