# TLA+ models of the JSON semi-index

This directory holds the TLA+ models of `semi_index`, a succinct index over
a corpus of JSON records, and of the durability layer, the big lock,
the yielding multi-update, the `$`-operator update engine and replica-set
sync of the MongoDB fragment vendored under `src/3rd_party/mongodb`. Each model is checked with TLC.

## The system and its parts

| Part | Source | What it does |
|---|---|---|
| Semi-index construction | `src/semi_index/json_semi_index.hpp` 26-94 | Scans every record once. Each structural character (`{ } [ ] , :`) outside a string literal sets a bit in the nav stream (`m_nav`, an `elias_fano`). It also pushes two bits into `m_bp` (a `bp_vector`): `{[` → 11, `}]` → 00, `,:` → 01. Escapes inside literals are skipped. |
| Cursor | same file, 190-246 | Walks the records. Record k's root is bp node `find_close(previous root) + 1`. Its offset is `select(node/2)`. |
| Accessor | same file, 106-188, 254-370 | `operator[](key)` and `operator[](idx)` move from node to node. They compare keys in the text (`check_key`) and use `find_close` / `find_open` on `m_bp`. `get_range` gives the `[first, last)` text of a node. |
| Drivers | `src/json_select.cpp` 73-190 | `si_save` builds the index from the lines of stdin. `saved_si_parse_stream` reads the lines again and gives each one to `cursor.get_accessor`. `saved_si_parse_mapped` takes the record's text at `json + cursor.get_offset()`. |
| bp_vector | `src/succinct/bp_vector.{hpp,cpp}` | `find_close`, `find_open` and `enclose`. These work through byte tables within a word, then a scan of the sub-blocks of a block, then a min/max excess tree over the blocks. |
| elias_fano | `src/succinct/elias_fano.hpp` | Holds a monotone sequence. Its operations are `select`, `rank`, `predecessor1` and `successor1`. |
| bit_vector | `src/succinct/bit_vector.hpp` | The bit vector builder and 64-bit word access (`get_bits`). |
| zrandom | `src/semi_index/zrandom.{hpp,cpp}` | Random access into zlib-compressed blocks. An iterator keeps the block it last used in a `m_cur_block` holder that its copies share; `read_block` goes through an 8-entry cache that evicts the smallest block id when full. |
| Parsers | `json_spirit_parser.cpp`, `path_parser.cpp` | Boost.Spirit grammars for JSON values and for path lists. |
| MongoMutex | `src/3rd_party/mongodb/db/mongomutex.h` | The database-wide reader/writer lock: a thread-local `_state` (>0 write with recursion count, <0 read) over an `RWLock _m`, `releaseEarly`, and the `_remapPrivateViewRequested` flag. |
| ClientCursor | `src/3rd_party/mongodb/db/clientcursor.{h,cpp}` | A server-side cursor, registered by id and by the record it rests on (`byLoc`). `aboutToDelete` advances every cursor registered at a record about to be deleted; `prepareToYield` / `recoverFromYield` let an operation drop `dbMutex` and find out afterwards whether its cursor survived; the monitor times out unpinned idle cursors; `invalidate` destroys the cursors of a dropped collection. |
| Multi-update | `src/3rd_party/mongodb/db/update.cpp` 889-926, 1062-1242 | `_updateObjects` with `multi` and `$` operators. The query runner first runs `UpdateOp`, which advances the cursor to the first match and may yield on the way, through a ClientCursor `_cc` of its own on the same cursor; the `MultiCursor` then takes that cursor over for a scan that advances before modifying, skips records in `seenObjects`, rewrites or moves records through `updateRecord`, and yields its ClientCursor every 256 records skipped / 64 modified. |
| `$`-operator engine | `src/3rd_party/mongodb/db/update.cpp` 37-855, 954-1008, 1039-1180 | The `ModSet` of an update such as `{$inc: {a: 1}, $rename: {b: "c"}}`, one `Mod` per field, ordered by dotted field name. `prepare(obj)` checks each mod against the document and decides whether the update can be written in place over the old bytes. If it can, `applyModsInPlace` writes the new values; if not, `createNewFromMods` builds a new document by merging the document's sorted fields with the sorted mods, and `Mod::apply` computes each new value. After the write the update is logged: `appendForOpLog` rewrites each mod into an idempotent form, and a secondary applies the entry through `_updateObjects`, by way of `syncApply` in `rs_sync.cpp`. |
| Replica-set sync | `src/3rd_party/mongodb/db/repl/rs_sync.cpp`, `rs.cpp` | A secondary's sync thread (`_syncThread`) runs `syncTail` against the primary: it leaves when its last op is older than the primary's oldest (too stale), rolls back when the primary has no entry at its last OpTime with its hash, and otherwise tails the primary's capped oplog, reading each op and then applying and logging it under the write lock if the primary has not changed. `assumePrimary`, `relinquish` and `forgetPrimary` change the member's own state. |
| dur | `src/3rd_party/mongodb/db/dur.cpp`, `dur_commitjob.cpp` | Journaling. Writes are noted in `commitJob`; `groupCommit()` journals them, writes them to the data files, resets the job and remaps the private view. The dur thread's `go()` commits every 100ms under a read lock (a write lock if that times out); `unlock()` commits when the job is over 100MB. `startup()` recovers from the journal. |

How the parts interact:

1. The constructor produces `m_nav` and `m_bp`.
2. The cursor and the accessor only read these two structures and the caller's character buffer.
3. Every accessor position is computed with `get_pos(node, offset) = select(node/2) + node%2 - offset`. `offset` is the cursor's position of the record root, and `json` points at that root.
4. A mistake in any of the three (the bits, the select, or the buffer pointer) shows up as a wrong range or a wrong key match.

The semi-index code runs on one thread. The hard cases come from data the tests do not cover:
- whitespace layouts such as compact JSON, `[ ]` and leading spaces;
- escapes inside keys and strings;
- negative indexes;
- records that are not containers;
- the pairing of the cursor with the driver's line buffer.

A multi-update is concurrent with every other client through its yields: while it has released `dbMutex`, others remove, insert and drop, and the monitor may time its cursor out. Its hard cases are a record deleted or moved while the cursor rests on it or is about to reach it, and two ClientCursors (the update's and `UpdateOp`'s) registered on one shared cursor.

The `$`-operator engine runs on one thread, inside the write lock. Its hard cases are combinations: two mods of one update decide together between the in-place and the rebuild path, and a mod that is harmless on one path must be harmless on the other. Number widths and missing fields or sub-objects add to this.

Replication is concurrent in two ways: the sync thread reads an op from the primary and only afterwards takes the write lock to apply it, while elections, heartbeats and the member's own promotion change who the primary is; and the primary's capped oplog deletes old entries under a tailing cursor. Its hard cases are a failover between the read and the apply, a divergent write left behind by the old primary, a member that falls off the end of the oplog, and a state the sync thread read before its network round trips that is stale when `tryToGoLiveAsASecondary` acts on it.

The durability layer is concurrent: client threads take `dbMutex` for reading or writing and note writes under the write lock; the dur thread commits them. Its hard cases are interleavings of lock calls, the commit on `unlock()`, and a crash between the journal write and the data-file write.

## Modules

| Module | Models | State and actions |
|---|---|---|
| `JsonText` | Not code. It is the reference meaning of a JSON document. | Value trees, `Render` (tree → characters under a whitespace style), `RefExists` and `RefRange` (what a path denotes), and `StructChars`. |
| `BalancedParens` | The contract of `bp_vector`. | `Excess`, `Balanced`, `find_close`, `find_open` and `enclose`, each written from its definition. |
| `JsonSemiIndex` | The constructor, cursor, accessor and both driver loops. | Variables: `ones` (the positions `m_nav.select` returns), `bp`, `cur`, `line`, `acc`, and a ghost `oob`. Actions: `Build` (constructor), `GetCursor`, `GetAccessorLine` / `GetAccessorMapped` (the two drivers), `ObjectStep` / `ArrayStep` (`operator[]`), and `NextRecord` (`cursor.next()` plus the next `fast_getline`). |
| `MCJsonSemiIndex` | Model-checking instances. | The corpora, keys and indexes. |
| `BPVector` | `bp_vector`: the excess tables, `build_minmax_tree`, and the three-stage `find_close` / `find_open` / `enclose`. | Variables: `bits`, `treesize`, `blockmm` / `supermm` (the two min/max arrays) and `res` (the last query). Actions: `Build` (the constructor), `FindClose`, `FindOpen` and `Enclose`. Words are naturals below `2^WordBits`. `WordBits`, `ByteBits` and `BlockSize` stand for 64, 8 and `rs_bit_vector::block_size`. |
| `BitVector` | `bit_vector_builder` and `bit_vector` as operators on values (no variables). | A builder is `[bits, size, cap, cur]`. `cap` is the `std::vector` capacity, grown as libstdc++ grows it. `cur` says what `m_cur_word` points to: the last word, nothing yet, or storage that `reserve` has freed. Operators under the code's names: `push_back`, `set`, `append_bits`, `zero_extend`, `reserve`, `get_bits`, `successor0/1`, `predecessor0/1`. |
| `BitVectorBuilder` | A client of the builder. | Variables: `bvb`, a ghost `ref` (the bits the calls describe), `frozen` and `res`. Actions: one per builder call, `Freeze` (`bit_vector(&builder)`), then one `GetBits` or `Scan` query. |
| `MCBitVectorBuilder` | Model-checking instances for the reproduction of `bit_vector.hpp:40`. | Where `reserve` may be called. |
| `MCSuccinct` | `BPVector` and `BitVectorBuilder` in one run. | Each is instantiated (`BP`, `BV`), with its own `res` renamed. `part` says which one a behaviour runs. `Init` starts one part and holds the other at its idle values, so the state space is the sum of the two. `DyckFrom` generates every balanced sequence of a given length, and `Nested` puts some inside extra pairs. |
| `ModSet` | The `$`-operator engine of `update.cpp`, driven as `_updateById`'s operator branch. | Variables: `doc` (the record), `upd` (the user's mods), `mss` (the `ModSetState` that `prepare` returns), `pc`, `res` (ok or a uassert), a ghost `orig`, the logged entry `oplog`, and a secondary's `sdoc`, `sn` (applications so far) and `sres`. Actions: `Prepare`, `ApplyInPlace` and `CreateNew` (each logs on success), and `Replay` (the secondary applies the entry, up to `Replays` times). Operators under the code's names: `prepare`, `PrepareMod` (one turn of its loop), `ApplyMod` (`Mod::apply`), `appendIncremented`, `createNewFromMods`, `merge` (its loop), `appendNewFromMods`, `applyModsInPlace`, `validRenamePath`, `pullElementMatch`, `ModSetValid` (the constructor's field-name uasserts), `appendForOpLog`, `needOpLogRewrite`, `pushStartSize`, `LogEntry` and `SecondaryUpdate`. `RefApply` is the reference: what the operators mean, written independently of the engine. |
| `MCModSet` | Model-checking instances. | The documents, the user mods, every valid ModSet of one or two of them (as `ModSetValid` accepts them), and the five finding classes. |
| `Durability` | `MongoMutex`, `dur`'s group commit and `CommitJob`, composed, with crashes. | Variables: per thread `pc`, `st` (`_state`) and `early` (`_releasedEarly`); the RWLock as `writer` / `readers`; `remapReq`; the commit job `pending`; `journal`, `data` and `view` (write ids in the journal, the data files and the private view); `up` and `crashes`. Actions under the code's names: `lock`, `acquireW` (`_m.lock()` returning, then `_acquiredWriteLock`), `lock_shared`, `acquireR`, `unlock`, `unlockRest`, `unlock_shared`, `releaseEarly`, `noteOp`, `go`, `groupCommitJournal`, `groupCommitData`, `Crash`, `startup`. |
| `MCDurability` | Model-checking instance. | Two clients `c1`, `c2` and the dur thread `d`. |
| `ReplSync` | `syncTail`, `_syncThread`, `tryToGoLiveAsASecondary`, `assumePrimary`, `relinquish`, `forgetPrimary`; the other members, elections, heartbeats, client writes and `syncRollback` by their effect. | Variables: `oplog` and `first` (every member's capped oplog, as a sequence and the index of its oldest live entry), `prim` (the real primary), `view` (Self's `box.getPrimary()`, set by heartbeats), `state`, `minvalid`; the sync thread's `pc`, `src` (the primary it syncs from), `cur` (the cursor's position), `op` (the op read), `rest`; `writes`, `elections` (bounds) and a ghost `pred` (write → the entry it followed). An op is `[ts, h]` with a hash unique per write. Actions: `syncTail` (`_syncThread`'s state check, then the connect), `Query` (its four outcomes, after the network round trips), `BatchCheck`, `ReadOp`, `ApplyOp`, `TailEnd`, `assumePrimary`, `relinquish`, `forgetPrimary`; environment `noteRemotePrimary`, `Write`, `Replicate`, `OtherRollback`, `OtherStepDown`, `Elect`. |
| `MCReplSync` | Model-checking instance. | Self `m0` and the other members `m1`, `m2`. |
| `RWLock` | What `MongoMutex` promises: an abstract reader-writer lock. | Variable `held` (thread → none / R / W). Actions `AcquireW`, `AcquireR`, `Release`, and `Reset` (the process dies). `MultiUpdate` takes its lock steps from it: the update, the other client and the monitor each take and release `dbMutex` as one thread. |
| `MultiUpdate` | `_updateObjects`' multi loop, `ClientCursor`, another client and the cursor monitor, composed. | Variables: `held` (RWLock's), `recs` (location → document or free), the update's `pc`, `cpos` (the cursor's record), `nscanned` and `seen` (`seenObjects`); `cc` (the update's ClientCursor: state, `byLoc` registration, pin, idle age) and `opcc` (`UpdateOp`'s `_cc`, alike); `dropped`, `ops`; ghosts `cnt` (modifications per document) and `stable` (documents never removed). Actions: `Start`, `OpNext`, `OpYield`, `OpRecover` (`UpdateOp`'s search), `SkipStep`, `MatchStep`, `recoverFromYield`, `End` (the update); `OtherOp`, `Remove`, `Insert`, `invalidate` (another client under the write lock); `idleTimeReport` (the monitor); `Idle`. |
| `MCMultiUpdate` | Model-checking instance. | Five locations: a non-matching document, three matching ones, a free slot. |
| `ZCache` | `decompressor::cache`, `read_block` and the iterator. | Variables: `cache` (block id → the inflated block), `pos` (each iterator copy's `m_absolute_pos`), `cur` (the shared `*m_cur_block`) and `out` (the last dereference). Actions: `dereference` (with `check_cur_block`, `read_block`, `get` or `put`) and `advance`. |
| `MCZCache` | Model-checking instance. | A 5-character corpus and two iterator copies. |
| `EliasFano` | `elias_fano_builder`, both `elias_fano` constructors, and the queries. | Variables: `efb` (the builder), `nav` (a `bit_vector_builder` handed to `elias_fano(&bvb)`), a ghost `vals` (the sequence encoded), `ef` and `res`. Actions: `PushBack`, `Build`, `BuildFromBits`, then one of `Select`, `Rank`, `Access`, `Predecessor`, `Successor`. The bit vectors are `BitVector`'s, through `BV == INSTANCE BitVector`. |

How the code maps onto `JsonSemiIndex`:
- Each helper the accessor calls is its own operator, under the code's own name: `get_object_child`, `get_array_child`, `check_key`, `get_pos` and `FindEnd`. Their loops are RECURSIVE operators (`ObjectLoop`, `ForwardLoop`, `BackwardLoop`, `KeyCompare`).
- These operators return every text position they read. A read outside the record sets `oob`.
- The accessor carries the path it was reached by as ghost state. That lets the properties compare it with `JsonText`.
- Each record is the text `fast_getline` returns, newline included. `starts[k]` is the record's position in the concatenated buffer the index was built from.

How the code maps onto `BPVector`:
- Each search stage is an operator under the code's name (`find_close_in_word`, `find_close_in_block`, `search_minmax_tree`, ...). Its loop is a RECURSIVE operator.
- The byte tables are constant functions, built the way the `excess_tables` constructor builds them.
- `rank` and the sub-block ranks belong to `rs_bit_vector`, whose source is not in the repository. They are modelled by their meaning: ones before a position, and block-relative.
- A bp_vector never changes after construction, and each query's answer depends only on the bits and the position. So a behaviour makes one query (`res.op = "none"` guards the queries) and then stops.

How the code maps onto `BitVector` and `EliasFano`:
- Each builder operation is one operator, with every assignment of the C++ method, including the `m_cur_word` update and the vector growth.
- A write through `m_cur_word` after `reserve` has reallocated is undefined behaviour. The model takes one of its outcomes: the write is lost.
- `rs_bit_vector::select`, `select0` and `num_ones` are modelled by their meaning: the position of the k-th 1 (or 0), and the number of ones. Their source is not in the repository.
- `rank`'s backward walk and `operator[]`'s walk are RECURSIVE operators (`RankWalk`, `AccessWalk`) with the loop's exact conditions.

How the code maps onto `Durability`:
- A call that blocks is split where it blocks: `lock()` sets `_state` and then waits (`pc = "waitW"`); `acquireW` is `_m.lock()` returning, with `_acquiredWriteLock()`'s remap. The RWLock is greedy, as the comment at `mongomutex.h:204` says: a waiting writer blocks new readers. `RWLock` itself is not in the repository.
- `groupCommit()` is two steps. `groupCommitJournal` is the lock assertion, the early return and PREPLOGBUFFER / WRITETOJOURNAL; `groupCommitData` is WRITETODATAFILES, `commitJob.reset()` and the remap (now in a write lock, else requested). A crash can fall between them. `pc` says whether `go()` or `unlock()` called it (`gc*` / `ugc*`), which decides where it returns.
- A failed `assert` throws; in `durThread()` and `releasingWriteLock()` the catch calls `abort()`. The model takes that as a process death (`Down`), like a power failure but not counted in `crashes`.
- `commitJob.note()`, `hasWritten()` and `bytes()` are declared in `dur_commitjob.h`, which is not in the repository. A write is one id added to `pending`, so `hasWritten` is `pending # {}` and `bytes` counts pending writes; `Big` stands for the 100MB threshold. Overlapping write intents (`Writes::insert`) are not modelled.
- `recover()` is not in the repository; `startup` replays the journal into the data files, which is what its call in `DurableImpl::startup` is for.
- Clients never ask for the write lock while they hold a read lock (massert 10293) and never unlock what they do not hold; those error paths are not taken.

How the code maps onto `MultiUpdate`:
- ClientCursor's methods are operators on the cursor record under the code's names: `NewCC` (the constructor; `QueryOption_NoCursorTimeout` pins it), `setLastLoc_inlock`, `updateLocation`, `Destroy` (the destructor), `aboutToDelete`, `prepareToYield`, `yield`, `shouldTimeout`. `ClientCursor::find` is `cc.st = "live"`.
- The natural-order cursor is abstracted to the next live location (`NextLive`); the matcher is membership in `Match`. `updateRecord`, `deleteRecord` and the insert of pdfile are not in the repository: a record is rewritten in place or moved to a free location, and a move or a remove first calls `aboutToDelete`, as `deleteRecord` does.
- The collection has no index on a modified field (`modsIsIndexed` is 0); `canApplyInPlace` is the choice `inplace` versus `rewrite` / `move`.
- `UpdateOp` (`update.cpp` 889-941) runs inside the query runner of `MultiCursor`, whose source (`queryoptimizer.cpp`) is not in the repository. `Start` is `_init()`: the cursor opens on the first record. `OpNext` is `next()`: it completes on a match or at the end, and otherwise advances. The runner may yield between any two `next()` calls (`yieldSometimes` depends on waiting writers), so `OpYield` is enabled at every step of the search: `prepareToYield` makes `_cc` the first time, with `QueryOption_NoCursorTimeout`, on `_c`, and registers it where `_c` is. `OpRecover` is the relock and `UpdateOp::recoverFromYield`: if `_cc` is gone, massert 13339 fails the update. `newCursor()` returns `_c` itself, so the update's loop and `_cc` share one cursor (`cpos`). The model keeps `_cc` until the update ends, as the `MultiCursor` keeps the completed op.
- `aboutToDelete` advances the shared cursor once for each ClientCursor registered at the deleted record, in `byLoc`'s order of random cursor ids (`Orders`), and re-registers each where the cursor then is (`AdvanceOne`).
- `staticYield` releases the write lock (`yield` ends in `pc = "yielded"`); `recoverFromYield` is the relock and the lookup. Another client runs only while nobody holds the lock (`Lock!Free`), which is what `dbMutex` guarantees.
- The monitor's `idleTimeReport` takes the read lock, so it runs when there is no writer; it ages every ClientCursor (`Report`). The yield periods 256 and 64 are the constants `YieldSkip` and `YieldMod`; the 600000ms limit is `AgeLimit` monitor periods.

How the code maps onto `ZCache`:
- Inflating a block is abstracted to its slice of the corpus (`Decompress`), shortened for the last block as `block.resize(m_block_size - strm.avail_out)` does.
- `Put` and `get` carry the map updates of `put()` and `get()`. `put()`'s eviction loop compares `iter->first`, the block id, so `Victim` is the smallest id, as the code does it.
- `m_timestamp` is left out. `tick()` only increments it and clears the cache when it wraps to 0, and it is a `uint64_t` incremented once per cache access, which never wraps. No other code reads it: the eviction compares ids, not timestamps.
- The iterators are copies of one `begin()`, as `json + cursor.get_offset()` copies it in `json_select.cpp`, so they share `cur`. A read outside the current block would be undefined behaviour; `Read` then returns any character.

How the code maps onto `ModSet`:
- A value is a record: a number `[t, n]` with `t` int, long or double, an array of ints, an object (field → value), or `Missing` (BSON's EOO). Ints are `IntBits` wide and longs `LongBits` wide; a sum wraps (`Wrap`) wherever the C++ sum wraps.
- A field name is a path. `PathLess` orders paths the way the `_mods` map and `BSONObjIteratorSorted` order them, by the field-name order `FieldNames`.
- `valuesize` is `BSONElement::valuesize()` over these values. An object's size is 5 plus, per field, a type byte, the one-letter name with its NUL, and the field's own size, counted recursively. `prepare`'s in-place `$set` compares these sizes.
- `ModSetOf` is the constructor: a `$rename` becomes a `renameFrom` mod at the source and a `renameTo` mod at the target.
- `prepare` returns `Err` on a uassert. Otherwise it returns whether every mod allowed an in-place write, and per mod its `dontApply` and `newVal`.
- `createNewFromMods` and `merge` are mutually RECURSIVE operators over one level of the document. They follow the code's `compareDottedFieldNames` cases: `LEFT_SUBFIELD` recurses, `LEFT_BEFORE` appends a new field, `SAME` applies the mod, and `RIGHT_BEFORE` copies the field.
- `applyModsInPlace` walks the mods in order. `$inc` and `$set` write; the kinds `prepare` handled are skipped; any other kind raises uassert 13478 after the earlier writes.
- `LogEntry` is `_updateById`'s log step. If a mod that applies is an `$inc` or part of a `$rename`, `needOpLogRewrite` holds and the entry is the rewrite: `appendForOpLog` per mod that applies (`$inc` → `$set` of the value written, `renameFrom` → `$unset`, `renameTo` → `$set` of `newVal`, the rest as given). Otherwise the entry is the update as given. Each `$push`, `$pushAll` and `$pop` adds `{path: {$size: pushStartSize}}` to the pattern, or `{path: null}` when the field was new.
- `SecondaryUpdate` is the secondary's `_updateObjects` with upsert false: the constructor's uasserts, the pattern, then the same `prepare` and apply. `applyOperation_inlock` (oplog.cpp) is not in the repository; the model takes it to call `_updateObjects` on the entry's `o` and `o2`.
- `appendNewFromMod`, `incrementMe`, `ModState::apply` and `canApplyInPlace` are in `update.h`, which is not in the repository. They are modelled by their effect, as their calls in `update.cpp` use them. A new field is made from the mod alone, with nothing for `$unset` and `$pull`. `ModState::apply` forwards to `Mod::apply`. The in-place sum stays in the field's own type.

The drivers navigate `root` after `cursor = cursor.next()`. An accessor is a value that does not depend on the cursor afterwards, so the model navigates before `NextRecord`; this does not change any result.

## Runs

| Run | Expect | What it shows |
|---|---|---|
| `nav_spaced` (`MCJsonSemiIndex.cfg`) | pass | See below. |
| `nav_faults` (`MCJsonSemiIndex_navfaults.cfg`) | violation | Five faults break `NavSound` (`NavCorrect` and `NoReadOutsideRecord`). Each is reproduced alone by its own cfg. `_compact`: JSON with no space after `,` (the way `JSON.stringify` writes it) reports every object member after the first absent (`json_semi_index.hpp:284`). `_inner`: `[ ]` answers `[0]` and `[-1]` with a valid accessor (`:296`). `_lead`: in line mode, a record that starts with a space is misaddressed (`json_select.cpp:124`). `_overrun`: the absent key `a": ` matches member `a` (`:356`). `_inner_reads`: a key lookup on `{ }` makes `check_key` read past the record (`:353`). `_scalar`: a record that is a bare scalar puts the cursor out of step with the records (`:213`), which breaks `CursorTracksRecords`, also part of `NavSound`. |
| `succinct_bits` (`MCSuccinct.cfg`) | pass | BPVector: uses 4-bit words of two 2-bit table bytes and 2-word blocks. The inputs are every balanced sequence of length 18 and 20, and every length-16 one nested in 9 more pairs. At every valid position, `find_close`, `find_open` and `enclose` agree with `BalancedParens`, and every min/max tree node holds the true excess range of the blocks below it. BitVectorBuilder: any sequence of builder calls leaves exactly the bits the calls describe, with zero padding and `move_bits`' word count, and `get_bits` and the four scans on the frozen vector agree with those bits. |
| `ef_builder` (`EliasFano.cfg`) | pass | Covers both constructors, with `m_l` from 0 to 3 and builders frozen before `m` pushes. `select`, `rank`, `operator[]`, `predecessor1` and `successor1` agree with the sequence encoded. |
| `durability` (`MCDurability.cfg`) | pass | See below. |
| `zcache` (`MCZCache.cfg`) | pass | See below. |
| `multi_update` (`MCMultiUpdate.cfg`) | pass | See below. |
| `multi_update_skip` (`MCMultiUpdate_skip.cfg`) | violation | `UpdateComplete` fails: a multi-update misses a matching document that was there all along. `UpdateOp`'s `_cc` (`update.cpp:900`) stays registered at the record where the search last yielded, and it shares the cursor the update goes on using. In the 9-state counterexample the search yields on the first match d1. Another client removes d1, and `aboutToDelete` moves `_cc` to d2. The update then modifies d2 and moves it to a free location. Deleting d2's old record advances the shared cursor once more for `_cc`, past d3, which is never updated. A remove of that record during a yield of the update loop does the same. |
| `mod_set` (`MCModSet.cfg`) | pass | See below. |
| `mod_set_faults` (`MCModSet_faults.cfg`) | violation | Five faults of the engine break `UpdateSound`, which is `ModsMatchReference` and `ReplayConverges` together. Each is reproduced alone by its own cfg. `_negoverflow`: an `$inc` that takes an int below INT_MIN is applied in place and wraps, because `prepare`'s check (`update.cpp:412`) and `appendIncremented`'s (`:70`) only look at the positive side. `_rename`: a `$rename` of a missing field onto an existing one, beside a mod that forces a rebuild, deletes the target: the `renameTo` mod is `dontApply`, and `Mod::apply` returns without copying the field (`:388`, `:96`). `_emptyparent`: a `$pull` under a missing sub-object, or an `$unset` there beside another mod, creates the sub-object, empty (`:627`). `_popempty`: `$pop` on an empty array passes `prepare` as in place, but `applyModsInPlace` has no POP case; uassert 13478 fails the update after the mods before it in field order were written to the record, and the update is not logged (`:591`). `_renamechild` (`ReplayConverges`): `$rename` of an existing `o` to `o.x` succeeds on the primary, but it is logged as `{$unset: {o: 1}, $set: {"o.x": ...}}`, which the secondary's constructor rejects with uassert 10151 (`:509`, `:807`). `syncApply` does not catch it (`rs_sync.cpp:45`), so the secondary cannot apply the op. |
| `repl_sync` (`MCReplSync.cfg`) | pass | See below. |
| `repl_sync_aba` (`MCReplSync_aba.cfg`) | violation | The sync thread reads an op from `m1`; `m1` steps down, Self is elected, writes, relinquishes; `m1` is elected again and a heartbeat sets `box.getPrimary()` back to it. The check after the write lock (`rs_sync.cpp:339`) compares Member pointers, so it passes, and Self logs `m1`'s old op after its own write. The comment above the check says it is safe because `assumePrimary` takes the db lock. Self's oplog is no longer a history (`ConsistentHistory`), and since its last op is now `m1`'s, no later `syncTail` rolls the foreign write back. |

`nav_spaced` checks every one- and two-level document with spaces after the separators, in both drivers and over every key and index lookup of depth 2. It checks five properties:
- `TypeOK`: the type invariant.
- `BPBalanced`: the constructor's bp stream is balanced.
- `NavCorrect`: an accessor is valid exactly when its path exists, and its range is the text the path denotes.
- `CursorTracksRecords`: the cursor addresses the record the driver is on, and it is the end cursor after the last record.
- `NoReadOutsideRecord`: navigation never reads outside the record.

Each property of `nav_spaced` has a mutant in `PROJECT.json`. Each mutant is a plausible bug, and TLC finds its property violated:
- the constructor without its `]` case;
- the constructor recording nav positions one position early;
- `cursor::next` without its `+ 1`;
- `get_object_child` without its empty-object check;
- an off-by-one backward index loop.

`succinct_bits` checks `TypeOK`, and `FindCloseCorrect`, `FindOpenCorrect` and `MinMaxTreeCorrect` on the BPVector behaviours, and `BuilderMatchesCalls`, `GetBitsCorrect` and `ScanCorrect` on the BitVectorBuilder behaviours. The BPVector mutants:
- block min/max started from the first bit instead of 0;
- the in-block close search giving up when the excess equals the bits left (`>=` for `>`);
- the backward block loop not advancing `last_excess_offset`;
- the lowest tree layer ignoring a pair's second block.

The bit_vector mutants are:
- `append_bits` spilling into a new word when the bits just fit;
- `get_bits` not masking the second word;
- `successor1` not clearing the bits below `pos`.

The EliasFano mutants are:
- `m_l` one bit wider than `msb(n / m)`, which breaks the assertion `m_l < 64`;
- `select` without `- n`;
- `rank`'s walk using `>` for `>=`;
- `operator[]` accepting low bits `<=` the sought ones.

The BPVector inputs reach all three stages of each search: the word, the rest of the block, and the tree.

`durability` checks, under the fairness below:
- `TypeOK`.
- `LockStateConsistent`: every thread's `_state` agrees with the RWLock. A writer excludes readers.
- `WriteAhead`: the data files hold only journaled writes.
- `ViewIsCommittedPlusPending`: while the process runs, the private view is exactly the journal plus the pending writes. No remap, reset or recovery loses a write.
- `RemapOnlyWhenClean`: a remap request never coexists with pending writes, so the asserts at `dur.cpp:288` and `dur_commitjob.cpp:91` hold.
- `NotedWritesCommitted` (liveness): every noted write is journaled unless the process dies first.

The run includes `releaseEarly` and the abort it can cause. That abort is a process death, and every property above survives it. `MCDurability_early.cfg` checks the assertion itself (`GroupCommitLocked`) and finds it violated. After `releaseEarly()`, the scope's `unlock()` still calls `dur::releasingWriteLock()` (`mongomutex.h:91`), now with no lock held. If the other client has meanwhile written past `Big`, that call enters `groupCommit()` unlocked. The assertion at `dur.cpp:342` then throws, and the process aborts. No code in the repository calls `releaseEarly()`, so this is a reproduction kept beside the model, not a run or a finding.

Its mutants:
- `unlock_shared` counting a nested read unlock the wrong way;
- `unlock_shared` never releasing `_m`;
- WRITETODATAFILES before WRITETOJOURNAL;
- `startup` without the journal replay;
- `_acquiredWriteLock` ignoring the remap request;
- `go()` committing only a job above `Big`.

`multi_update` checks three invariants:
- `TypeOK`; in particular a destroyed cursor is no longer registered in `byLoc`.
- `CursorOnLiveRecord`: while the update runs, its cursor is on a live record or at the end, whatever was removed, moved or inserted during its yields.
- `UpdatedOnce`: no document is modified twice, though a moved record lies ahead of the scan.

Its mutants: the destructor not unregistering from `byLoc` (`TypeOK`); `prepareToYield` without `updateLocation` (`CursorOnLiveRecord`); no `seenObjects` insert (`UpdatedOnce`).

`UpdateComplete` states that when the update finishes and the collection was not dropped, every matching document that was never removed has been modified. `multi_update_skip` shows it does not hold. Because it fails through `UpdateOp`'s `_cc`, it can no longer show that the `indexHack` or the `QueryOption_NoCursorTimeout` pin is needed.

`zcache` checks two properties:
- `DerefCorrect`: every dereference returns the corpus character at the iterator's position, whether the shared block still holds it, the cache holds it, or it is inflated again after an eviction.
- `CacheBounded`: the cache never holds more than `max_entries` blocks.

Its mutants: `check_cur_block` reusing any non-null block without `pos_in_block` (breaks `DerefCorrect`); `put` evicting only above `max_entries` (breaks `CacheBounded`).

The eviction of the smallest block id (`zrandom.cpp:98`) is not least-recently-used. `DerefCorrect` shows it costs only re-inflation, never a wrong character; it is a performance matter, not a finding.

`mod_set` checks three invariants on every update of its inputs:
- `ModsMatchReference`: when the update succeeds, the document is what the operators mean (`RefApply`, numbers compared by value). When it fails, and it fails exactly when the reference fails, the document is untouched.
- `InPlaceKeepsLayout`: an update written in place leaves every field with its type and its size, so no write spills into the next field.
- `ReplayConverges`: every application of the update's oplog entry on a secondary that started from the same document succeeds, and leaves the secondary's document equal to the primary's, types included. It must hold for a second application too, as after a restart or an initial sync.

Its mutants: `prepare`'s `$inc` without the overflow check (`ModsMatchReference`: INT_MAX + 1 is written in place and wraps); `prepare`'s `$set` comparing only the types, not the sizes (`InPlaceKeepsLayout`); `appendForOpLog` logging an in-place `$inc` as `$inc` instead of a `$set` of the result (`ReplayConverges`: a second application increments again).

`repl_sync` checks, under the fairness below:
- `TypeOK`; in particular a capped oplog holds fewer than `Cap` entries past `first`, and Self's state is PRIMARY exactly when it is the primary.
- `ConsistentHistory`: in every member's oplog every entry follows the entry its write followed on the primary that made it. No member ever appends an op after an entry the op was not written after, whatever failovers, rollbacks and promotions happen between a read and its apply.
- `SyncCatchesUp` (liveness): if the primary is eventually always another member, Self's oplog eventually always equals the primary's, unless Self is too stale (its last op older than the primary's oldest) or its rollback failed (FATAL).

`_syncThread` reads the member state once, before `syncTail`'s network round trips (`syncTail`, then `Query`). Self can be elected in between, and `tryToGoLiveAsASecondary`'s `changeState(RS_SECONDARY)` (`rs_sync.cpp:174`) then demotes the new primary without `relinquish`. `changeState` models `StateBox::change` (`rs.h`, not in the repository), which clears the box's primary when Self leaves PRIMARY. The run reaches this demotion, and `TypeOK` and `ConsistentHistory` hold through it.

Its mutants: `_syncThread` running `syncTail` while Self is PRIMARY (`TypeOK`); the rollback check comparing only `ts`, not `h` (`ConsistentHistory`); the apply without the primary check after the write lock (`ConsistentHistory`); the apply without `logOp` (`SyncCatchesUp`).

`EliasFano_top.cfg` (`PushTop = TRUE`) lets `push_back(n)` store the value `n`. Its assertion `i <= m_n` allows it, but `rank(n)` then counts the value `n`, and `predecessor1(n - 1)` returns `n` (`elias_fano.hpp:134`), which breaks `RankCorrect`. The spec's data model keeps values below n, and the only caller in `src/` never pushes n, so this is a hazard and a reproduction, not a run.

`MCBitVectorBuilder_reserve.cfg` allows `reserve` on a builder with a partly filled last word: it reallocates under `m_cur_word`, and the next `push_back` loses its bit (`bit_vector.hpp:40`), which breaks `BuilderMatchesCalls`. The only caller reserves an empty builder, so this is kept as a hazard and a reproduction, not a run.

Every violation run is listed as a finding in `PROJECT.json`.

### Bounds

The bounds of `MCJsonSemiIndex` and why they are enough:
- **Containers have up to two members.** The member after the first is the one every separator bug needs.
- **Nesting is two levels deep, and paths have length 2.** An inner container is then both a target and a step.
- **The keys are `a` and `b`.** That allows a repeated key and a missing key.
- **Lookup keys include `"` and `a"`.** These test escapes and shared prefixes (the test `root["top\""]`).
- **Strings include `{,` and `\"\\`.** One holds structural characters, the other an escape right before the closing quote.
- **Indexes run from -3 to 2.** That covers every in-range and out-of-range index of a two-element array, on both sides.
- **Two-record corpora are built from four small roots.** This exercises the cursor and both drivers across a record boundary.

The passing run covers 570,764 distinct states in about 1 min 40 s.

The bounds of `MCSuccinct`'s BPVector part and why they are enough: the algorithm depends on the sizes only through the constants. The geometries are chosen so that every stage and boundary occurs:
- a match in the same word;
- a match in a later word of the block;
- a match in another block found through the tree, in both directions;
- a partial last word and a partial last block;
- tree nodes with no block below them.

The 18- and 20-bit sequences make 3 blocks under a 4-leaf tree, the last block partial for 18. The 34-bit nested ones make 5 blocks under an 8-leaf tree, with three leaves past the last block. Their outer pairs are matched through all three levels of the tree. This part has 698,906 states.

The bounds of `MCSuccinct`'s BitVectorBuilder part (also `MCBitVectorBuilder`'s):
- **Words are 4 bits and the builder holds up to 12 bits.** That is three words.
- **Initial sizes are 0, 4 and 5.** They give an empty builder, a full last word, and a partial last word, with `init` either way.
- **`append_bits` lengths run from 1 to 4.** So appends can land exactly on a word boundary or straddle one.
- **`zero_extend` lengths are 1, 3 and 4.**
- **`reserve(8)` is called only on an empty builder**, the way `elias_fano_builder` calls it. `EliasFano_top.cfg` (`PushTop = TRUE`) lets `push_back(n)` store the value `n`. Its assertion `i <= m_n` allows it, but `rank(n)` then counts the value `n`, and `predecessor1(n - 1)` returns `n` (`elias_fano.hpp:134`), which breaks `RankCorrect`. The spec's data model keeps values below n, and the only caller in `src/` never pushes n, so this is a hazard and a reproduction, not a run.

`MCBitVectorBuilder_reserve.cfg` allows it anywhere.
- 754,458 states. `succinct_bits` covers both parts, 1,453,364 distinct states, in about 1 min 25 s.

The bounds of `EliasFano`:
- **n is 2, 9 or 15 and m runs from 1 to 4.** This gives `m_l` = 0 (`n / m` = 0), 1, 2 and 3. With 4-bit words the low bits straddle words.
- **Values are below n.** `EliasFano_top.cfg` also allows n.
- **Every bit vector of 7 or 9 bits** feeds the bit-vector constructor. That covers every density, including `m_l` = 0 with every position set.
- 355,408 states in 10 s.

The bounds of `MCDurability`:
- **Two clients and the dur thread.** Two clients give a writer racing a reader, two writers, and one client's `releaseEarly` against the other's writes.
- **Three writes and `Big` = 1.** A commit on `unlock()` needs two pending writes, and a third write can follow a commit.
- **Recursion two deep.** That covers a nested read or write, and a read inside a write.
- **One power failure.** It can fall between any two steps, including between the journal write and the data-file write.
- `MCDurability_early.cfg` has no power failure. Its counterexample is 9 steps long.
- `durability` covers 15,926 distinct states in about 45 s, most of it the liveness check.

The bounds of `MCMultiUpdate`:
- **Five locations: a document the query does not match first, then three matching documents and one free slot; a fourth matching document can be inserted.** `UpdateOp`'s search takes a step and can yield on either record. A move can go to the free slot ahead of the cursor or, after a remove, to a freed slot behind it.
- **Yield every 2 records, skipped or modified.** Yields fall between every pair of steps the scan takes.
- **Three operations of the other client** (remove, insert, drop). A yield can see a remove of the cursor's record, of the next one, and an insert into a freed slot.
- **`AgeLimit` 1.** Two monitor periods in one yield time out an unpinned cursor.
- 105,539 distinct states in 4 s. `multi_update_skip` uses the same bounds. The update ends and the system then idles (`Idle`), so deadlock is checked.

The bounds of `MCZCache`:
- **A 5-character corpus in blocks of 2.** That gives 3 blocks, the last one short.
- **A 2-entry cache.** Reading the third block evicts.
- **Two iterator copies with steps of up to 2.** One copy can replace the block the other one is in.
- 576 distinct states in 1 s. Every iterator action stops nowhere (`advance` is always enabled), so deadlock is checked.

The bounds of `MCModSet`:
- **Ints of 3 bits, longs of 6.** Both ends of the int range, and a long that `numberInt()` truncates, are reachable in one `$inc`.
- **Fields `a` and `b` at the top, `x` and `y` under the sub-object `o`.** Field `a` holds INT_MAX, INT_MIN, a long, a double, an empty array or `[1]`; `b` an int, `[]` or `[1, 2]`; `o` is `{}`, `{x: 1}` or `{x: 1, y: []}`. Any field may be missing. A mod can then fall before, on, after or under each field, which are the four merge cases.
- **Every operator.** Operators are `$inc` by ±1, by a long -8 and by a double; `$set` of an int, a long or an array; `$unset`, `$push`, `$pushAll`, `$addToSet` (one value, or `$each`), `$pull`, `$pullAll`, `$pop` at either end, and `$bit` and / or. Each goes on the paths `a`, `b`, `o.x` and `o.y`. Four `$rename`s are included, `o` → `o.x` among them.
- **One or two mods per update.** Every pair the constructor accepts is included. Two mods are what it takes for one mod to force the other onto the rebuild path.
- **Two applications on the secondary** (`Replays = 2`). The second shows whether the entry is idempotent.
- 174,053 inputs and 640,145 distinct states in about 20 s. An update ends after it is applied, so deadlock is not checked.

The bounds of `MCReplSync`:
- **Self and two other members.** Two others give a failover between two remote primaries, and one of them holding a divergent write the other never received.
- **Three client writes.** One write can be lost to a failover and two more follow it.
- **One election (two in `repl_sync_aba`).** One election is either a remote failover or Self's own promotion; the A-B-A needs two, so the passing run stays below it.
- **`Cap` 3.** A primary holding three writes has evicted the genesis entry, so a member that has not started syncing is too stale, and a cursor resting on the oldest entry dies.
- `repl_sync` covers 13,821 distinct states in about 2 s. Once the writes and elections are spent, the sync thread waits on an empty tail or sleeps, so deadlock is not checked.

`append_bits(x, 0)` at a word boundary pushes a word the size does not need (`bit_vector.hpp:66`). No caller passes length 0 (elias_fano guards with `if (m_l)`), so the runs use lengths 1 to 4. With 0 added, `BuilderMatchesCalls` fails.

### Fairness

`durability` and `repl_sync` have liveness properties. `repl_sync` (`Fairness` in `ReplSync`) assumes weak fairness of the sync thread's steps (`_syncThread` loops forever, sleeping between passes) and of `noteRemotePrimary` (heartbeats run every two seconds and update `box.getPrimary()`). Writes, elections, step-downs and replication by the other members are not fair.

`durability`'s property is `NotedWritesCommitted`. Its fairness (`Fairness` in `Durability`) comes from the code:
- `durThread()` loops forever with a 100ms sleep, so `go` is weakly fair.
- A thread inside a call (the rest of `groupCommit()` and `unlock()`) goes on: weak fairness.
- Locks are scoped (`readlock`, `writelock`), so a held lock is released: weak fairness on `unlock` and `unlock_shared`.
- A request that keeps coming back to its outermost lock level ends: strong fairness on the outermost release. Without it, a client could lock and unlock recursively forever inside one scope.
- A thread blocked on `_m` gets it if `_m` is free infinitely often: strong fairness on `acquireW` and `acquireR`.
- After a crash the server is restarted: `startup` is weakly fair.

Client calls (`lock`, `lock_shared`, `noteOp`, `releaseEarly`) are not fair; a client may stop at any time.

The other modules' properties are invariants. A BPVector, BitVectorBuilder or EliasFano behaviour ends after its one query, a ModSet behaviour after its one update, and the drivers stop after the last record, so deadlock is not checked (`CHECK_DEADLOCK FALSE`). `durability` does check deadlock: no state leaves every thread blocked. `CursorTracksRecords` states that the cursor is the end cursor once every record has been read.

## Not modelled, and the plan

Parts that are not modelled, and why:
- **Missing sources.** `rs_bit_vector`, `mapper` / `mappable_vector`, `broadword` and `escape_table` are included from headers that are not in the repository. `rs_bit_vector`'s select and `broadword`'s `msb` / `lsb` are modelled by their meaning. `JsonSemiIndex`'s `Select` uses the contract of `elias_fano::select`, which `EliasFano` checks. `escape_table` is modelled from the JSON specification.
- **`bit_vector(Range const&)`.** No caller in `src/` uses it. `map` and `swap` are serialisation and are not modelled either.
- **Pure conversion or I/O.** The Boost.Spirit parsers, output formatting and the timing harnesses.
- **The rest of replication.** `initialSyncOplogApplication` and `syncApply`'s document changes (the models hold no documents), `slaveDelay`, reconfiguration (`initFromConfig`, `haveNewConfig`), `_freeze` and the election timer of `_stepDown`. The elector, the heartbeat manager, `syncRollback` and `_logOp` are not in the repository; `ReplSync` models them by their effect.
- **The rest of the vendored MongoDB.** That means `Client` / `CurOp` bookkeeping, the query optimizer and BSON. Of `update.cpp` the multi `$op` loop and the `ModSet` engine (as `_updateById` uses it) are modelled. Not modelled: upsert (`createNewFromQuery`); positional `$` and dynamic-array mods (`fixDynamicArray`); `$pop` and `$bit` on a missing field; `_updateObjects`' `forceRewrite` (dynamic arrays only); the secondary's side beyond the one document (`applyOperation_inlock` and the oplog bookkeeping are `ReplSync`'s); capped collections; index cursors; nor is `ClientCursor`'s `doingDeletes`, which only deletes use. It is used only by the `bson_*` benchmark commands. In the durability layer, these are not modelled:
  - `lock_try`, `droppingDb`, `commitNow` and `closingFileNotification`, which no code in the repository calls;
  - `Writes::insert`;
  - the `_DEBUG` checks;
  - journal rotation and unlinking, whose code is not in the repository.
- **zrandom's `compress()`, the file mapping and the offsets table.** These are zlib and file I/O; `ZCache` takes the inflated blocks as given.
- **Serialisation.** `accessor::parse`, which hands a range to the JSON parser.

Plan for the next modules, in order:
1. **BPVector.** Modelled (see above).
2. **EliasFano.** Modelled (see above).
3. **BitVector.** Modelled (see above).
4. **Refinement.** Abstract specifications of what `bp_vector` and `elias_fano` promise: a frozen bit sequence with its `find_close` / `find_open`, and a monotone sequence with `select` / `rank` / neighbours. `BPVector` and `EliasFano` will be shown to implement them through `INSTANCE ... WITH`, as properties of the existing runs. After that, a version of `JsonSemiIndex` whose `select` and `find_close` come from EliasFano and BPVector.
5. **Durability.** Modelled (see above). Next: `Writes::insert`'s interval merge as a RECURSIVE operator checked against the union of intervals, and `MutexDebugger`.
6. **MultiUpdate.** Modelled (see above). Next: the single (non-multi) update and `_updateById`, and a btree cursor with `modsIsIndexed`.
7. **ZCache.** Modelled (see above). Next: an LRU specification of the cache, which the smallest-id eviction would fail, and `compress()`'s block offsets.
8. **ReplSync.** Modelled (see above). Next: initial sync with a document model (a fuzzy clone replayed from `applyGTE` to `minValid`) and `slaveDelay`.
9. **ModSet.** Modelled (see above). Next: upsert's `createNewFromQuery`, and `MultiUpdate` composed with `ModSet` so that its in-place / move choice comes from `prepare`.
