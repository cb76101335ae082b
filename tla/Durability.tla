----------------------------- MODULE Durability -----------------------------
(***************************************************************************)
(* The vendored MongoDB durability layer: the database-wide reader/writer  *)
(* lock MongoMutex (db/mongomutex.h), the group commit of dur.cpp and the  *)
(* commit job of dur_commitjob.cpp, composed with a crash of the process   *)
(* and the recovery done at startup.                                       *)
(*                                                                         *)
(* Threads are the client threads and the dur thread.  Each thread has    *)
(* its thread-local lock state _state (st) and _releasedEarly (early); the *)
(* RWLock _m is the pair writer/readers.  A write is a write id; the      *)
(* commit job holds the ids noted since the last commit (pending), the    *)
(* journal and the data files hold the ids written to them, and the       *)
(* private view holds the ids a reader of the memory-mapped files sees.   *)
(* The commit job's byte count is the number of pending writes.            *)
(***************************************************************************)
EXTENDS Integers, FiniteSets

CONSTANTS
    Clients,    \* client threads
    Dur,        \* the dur thread started by DurableImpl::startup
    None,       \* no writer holds _m
    MaxWrites,  \* write ids 1..MaxWrites; the clients stop writing after that
    Big,        \* the commit job size above which releasingWriteLock commits
    MaxDepth,   \* the deepest recursion of a thread's lock state
    MaxCrashes  \* power failures in one behaviour

ASSUME Dur \notin Clients /\ None \notin Clients \cup {Dur}
ASSUME MaxWrites \in Nat /\ Big \in Nat /\ MaxDepth \in Nat \ {0, 1}
       /\ MaxCrashes \in Nat

Threads == Clients \cup {Dur}
WriteIds == 1..MaxWrites

VARIABLES
    pc,        \* where each thread is
    st,        \* MongoMutex::_state, thread-local: >0 write (recursion), <0 read
    early,     \* MongoMutex::_releasedEarly, thread-local
    writer,    \* the thread holding _m exclusively, or None
    readers,   \* the threads holding _m shared
    remapReq,  \* MongoMutex::_remapPrivateViewRequested
    pending,   \* the writes noted in commitJob since its last reset
    journal,   \* the writes in the journal files
    data,      \* the writes in the data files
    view,      \* the writes visible in the private view
    nextW,     \* the last write id used
    up,        \* the process is running
    crashes    \* power failures so far

vars == <<pc, st, early, writer, readers, remapReq, pending, journal, data,
          view, nextW, up, crashes>>

\* gc1/gc2: the two halves of a groupCommit() called by go(); ugc1/ugc2:
\* of one called by releasingWriteLock() inside unlock().
PCs == {"idle", "sleep", "waitW", "waitR", "gc1", "gc2", "ugc1", "ugc2",
        "relR", "relW", "unlock2"}

\* Where a thread is between calls: the client's request loop, the dur
\* thread's loop in durThread().
Home(t) == IF t = Dur THEN "sleep" ELSE "idle"

-----------------------------------------------------------------------------
(* CommitJob *)

hasWritten == pending # {}
bytes == Cardinality(pending)

\* A thread blocked in _m.lock(): a greedy RWLock then admits no new reader.
WriterWaiting == \E u \in Threads : pc[u] = "waitW"

\* REMAPPRIVATEVIEW(): reload the private view from the data files d and
\* clear the request.  It asserts !commitJob.hasWritten().
REMAPPRIVATEVIEW(d) ==
    /\ remapReq' = FALSE
    /\ view' = d

\* Where groupCommit() returns to: the rest of unlock() when unlock() called
\* it, else the release of the lock that go() took.
AfterGC(t) ==
    IF pc[t] \in {"ugc1", "ugc2"} THEN "unlock2"
    ELSE IF st[t] < 0 THEN "relR" ELSE "relW"
-----------------------------------------------------------------------------
(* Crash and restart *)

\* The process dies: every thread, lock, the commit job and the private
\* view are gone; the journal and the data files stay on disk.
Down ==
    /\ up' = FALSE
    /\ pc' = [t \in Threads |-> Home(t)]
    /\ st' = [t \in Threads |-> 0]
    /\ early' = [t \in Threads |-> FALSE]
    /\ writer' = None
    /\ readers' = {}
    /\ remapReq' = FALSE
    /\ pending' = {}
    /\ view' = {}
    /\ UNCHANGED <<journal, data, nextW>>

\* A power failure, at any point.
Crash ==
    /\ up
    /\ crashes < MaxCrashes
    /\ Down
    /\ crashes' = crashes + 1

\* Variant: startup does not replay the journal.
startup_noreplay ==
    /\ ~up
    /\ view' = data
    /\ up' = TRUE
    /\ UNCHANGED <<pc, st, early, writer, readers, remapReq, pending, journal,
                   data, nextW, crashes>>

\* DurableImpl::startup(): recover() replays the journal into the data
\* files, then the dur thread starts; the private view maps the data files.
startup ==
    /\ ~up
    /\ data' = data \cup journal
    /\ view' = data'
    /\ up' = TRUE
    /\ UNCHANGED <<pc, st, early, writer, readers, remapReq, pending, journal,
                   nextW, crashes>>

-----------------------------------------------------------------------------
(* MongoMutex *)

\* The rest of unlock() after _releasingWriteLock(), with e the value of
\* _releasedEarly when unlock() was entered.
unlockTail(t, e) ==
    \/ /\ st[t] > 1
       /\ st' = [st EXCEPT ![t] = st[t] - 1]
       /\ early' = [early EXCEPT ![t] = e]
       /\ UNCHANGED writer
    \/ /\ st[t] = 0
       /\ e
       /\ early' = [early EXCEPT ![t] = FALSE]
       /\ UNCHANGED <<st, writer>>
    \/ /\ st[t] = 1
       /\ st' = [st EXCEPT ![t] = 0]
       /\ writer' = None
       /\ early' = [early EXCEPT ![t] = e]

\* unlock(): dur::releasingWriteLock() commits when the commit job is
\* over Big, then the lock state is unwound.
callUnlock(t, e) ==
    \/ /\ bytes > Big
       /\ pc' = [pc EXCEPT ![t] = "ugc1"]
       /\ early' = [early EXCEPT ![t] = e]
       /\ UNCHANGED <<st, writer>>
    \/ /\ bytes <= Big
       /\ unlockTail(t, e)
       /\ pc' = [pc EXCEPT ![t] = Home(t)]

\* The scoped writelock's release; the dur thread's after go()'s commit.
unlock(t) ==
    /\ up
    /\ pc[t] = IF t = Dur THEN "relW" ELSE "idle"
    /\ st[t] > 0 \/ (st[t] = 0 /\ early[t])
    /\ callUnlock(t, early[t])
    /\ UNCHANGED <<readers, remapReq, pending, journal, data, view, nextW,
                   up, crashes>>

\* releaseEarly(): mark, then unlock(); the scope's unlock() comes later.
releaseEarly(t) ==
    /\ up
    /\ pc[t] = "idle"
    /\ st[t] = 1
    /\ ~early[t]
    /\ callUnlock(t, TRUE)
    /\ UNCHANGED <<readers, remapReq, pending, journal, data, view, nextW,
                   up, crashes>>

\* The rest of an unlock() whose releasingWriteLock() committed.
unlockRest(t) ==
    /\ up
    /\ pc[t] = "unlock2"
    /\ unlockTail(t, early[t])
    /\ pc' = [pc EXCEPT ![t] = Home(t)]
    /\ UNCHANGED <<readers, remapReq, pending, journal, data, view, nextW,
                   up, crashes>>

\* lock(): recursive when already write locked; else _state is set to 1
\* before the thread blocks in _m.lock().  The clients never ask for the
\* write lock while read locked (massert 10293).
lock(t) ==
    /\ up
    /\ pc[t] = "idle"
    /\ 0 <= st[t] /\ st[t] < MaxDepth
    /\ st' = [st EXCEPT ![t] = st[t] + 1]
    /\ pc' = IF st[t] > 0 THEN pc ELSE [pc EXCEPT ![t] = "waitW"]
    /\ UNCHANGED <<early, writer, readers, remapReq, pending, journal, data,
                   view, nextW, up, crashes>>

\* Variant: _acquiredWriteLock() ignores the remap request.
acquireW_noremap(t) ==
    /\ up
    /\ pc[t] = "waitW"
    /\ writer = None
    /\ readers = {}
    /\ writer' = t
    /\ pc' = [pc EXCEPT ![t] = IF t = Dur THEN "gc1" ELSE "idle"]
    /\ UNCHANGED <<st, early, readers, remapReq, pending, journal, data, view,
                   nextW, up, crashes>>

\* _m.lock() returns, then _acquiredWriteLock() remaps the private view if
\* a commit outside the write lock asked for it.  The dur thread goes on
\* with the groupCommit() of go().
acquireW(t) ==
    /\ up
    /\ pc[t] = "waitW"
    /\ writer = None
    /\ readers = {}
    /\ writer' = t
    /\ IF remapReq THEN REMAPPRIVATEVIEW(data) ELSE UNCHANGED <<remapReq, view>>
    /\ pc' = [pc EXCEPT ![t] = IF t = Dur THEN "gc1" ELSE "idle"]
    /\ UNCHANGED <<st, early, readers, pending, journal, data, nextW, up,
                   crashes>>

\* lock_shared(): recursive in a read or a write lock, else _state = -1
\* and the thread blocks in _m.lock_shared().
lock_shared(t) ==
    /\ up
    /\ pc[t] = "idle"
    /\ st[t] < MaxDepth /\ st[t] > -MaxDepth
    /\ st' = [st EXCEPT ![t] = IF st[t] > 0 THEN st[t] + 1 ELSE st[t] - 1]
    /\ pc' = IF st[t] # 0 THEN pc ELSE [pc EXCEPT ![t] = "waitR"]
    /\ UNCHANGED <<early, writer, readers, remapReq, pending, journal, data,
                   view, nextW, up, crashes>>

\* _m.lock_shared() returns: no writer holds _m or waits for it.
acquireR(t) ==
    /\ up
    /\ pc[t] = "waitR"
    /\ writer = None
    /\ ~WriterWaiting
    /\ readers' = readers \cup {t}
    /\ pc' = [pc EXCEPT ![t] = "idle"]
    /\ UNCHANGED <<st, early, writer, remapReq, pending, journal, data, view,
                   nextW, up, crashes>>

\* Variant: the nested read unlock counts the wrong way (s-1).
unlock_shared_sign(t) ==
    /\ up
    /\ pc[t] = IF t = Dur THEN "relR" ELSE "idle"
    /\ st[t] > 1 \/ st[t] < 0
    /\ \/ /\ st[t] > 1
          /\ st' = [st EXCEPT ![t] = st[t] - 1]
          /\ UNCHANGED readers
       \/ /\ st[t] < -1
          /\ st' = [st EXCEPT ![t] = st[t] - 1]
          /\ UNCHANGED readers
       \/ /\ st[t] = -1
          /\ st' = [st EXCEPT ![t] = 0]
          /\ readers' = readers \ {t}
    /\ pc' = [pc EXCEPT ![t] = Home(t)]
    /\ UNCHANGED <<early, writer, remapReq, pending, journal, data, view,
                   nextW, up, crashes>>

\* Variant: every read unlock is taken as a nested one; _m is never released.
unlock_shared_keep(t) ==
    /\ up
    /\ pc[t] = IF t = Dur THEN "relR" ELSE "idle"
    /\ st[t] > 1 \/ st[t] < 0
    /\ st' = [st EXCEPT ![t] = IF st[t] > 1 THEN st[t] - 1 ELSE st[t] + 1]
    /\ pc' = [pc EXCEPT ![t] = Home(t)]
    /\ UNCHANGED <<early, writer, readers, remapReq, pending, journal, data,
                   view, nextW, up, crashes>>

\* unlock_shared(): the scoped readlock's release; the dur thread's after
\* go()'s commit under readlocktry.
unlock_shared(t) ==
    /\ up
    /\ pc[t] = IF t = Dur THEN "relR" ELSE "idle"
    /\ st[t] > 1 \/ st[t] < 0
    /\ \/ /\ st[t] > 1
          /\ st' = [st EXCEPT ![t] = st[t] - 1]
          /\ UNCHANGED readers
       \/ /\ st[t] < -1
          /\ st' = [st EXCEPT ![t] = st[t] + 1]
          /\ UNCHANGED readers
       \/ /\ st[t] = -1
          /\ st' = [st EXCEPT ![t] = 0]
          /\ readers' = readers \ {t}
    /\ pc' = [pc EXCEPT ![t] = Home(t)]
    /\ UNCHANGED <<early, writer, remapReq, pending, journal, data, view,
                   nextW, up, crashes>>

-----------------------------------------------------------------------------
(* dur *)

\* A write under the write lock: declareWriteIntent() or noteOp() notes it
\* in the commit job; the private view shows it at once.
noteOp(t) ==
    /\ up
    /\ pc[t] = "idle"
    /\ st[t] > 0
    /\ nextW < MaxWrites
    /\ nextW' = nextW + 1
    /\ pending' = pending \cup {nextW'}
    /\ view' = view \cup {nextW'}
    /\ UNCHANGED <<pc, st, early, writer, readers, remapReq, journal, data,
                   up, crashes>>

\* Variant: go() commits only a commit job above Big.
go_big ==
    /\ up
    /\ pc[Dur] = "sleep"
    /\ bytes > Big
    /\ \/ /\ writer = None
          /\ ~WriterWaiting
          /\ readers' = readers \cup {Dur}
          /\ st' = [st EXCEPT ![Dur] = -1]
          /\ pc' = [pc EXCEPT ![Dur] = "gc1"]
       \/ /\ writer # None \/ WriterWaiting
          /\ st' = [st EXCEPT ![Dur] = 1]
          /\ pc' = [pc EXCEPT ![Dur] = "waitW"]
          /\ UNCHANGED readers
    /\ UNCHANGED <<early, writer, remapReq, pending, journal, data, view,
                   nextW, up, crashes>>

\* go(), called by durThread() every 100ms: nothing to do without writes;
\* else readlocktry, and when that times out behind a writer, writelock.
go ==
    /\ up
    /\ pc[Dur] = "sleep"
    /\ hasWritten
    /\ \/ /\ writer = None
          /\ ~WriterWaiting
          /\ readers' = readers \cup {Dur}
          /\ st' = [st EXCEPT ![Dur] = -1]
          /\ pc' = [pc EXCEPT ![Dur] = "gc1"]
       \/ /\ writer # None \/ WriterWaiting
          /\ st' = [st EXCEPT ![Dur] = 1]
          /\ pc' = [pc EXCEPT ![Dur] = "waitW"]
          /\ UNCHANGED readers
    /\ UNCHANGED <<early, writer, remapReq, pending, journal, data, view,
                   nextW, up, crashes>>

\* Variant: WRITETODATAFILES comes before WRITETOJOURNAL.
groupCommitJournal_dataFirst(t) ==
    /\ up
    /\ pc[t] \in {"gc1", "ugc1"}
    /\ \/ /\ st[t] = 0
          /\ Down
          /\ UNCHANGED crashes
       \/ /\ st[t] # 0
          /\ ~hasWritten
          /\ pc' = [pc EXCEPT ![t] = AfterGC(t)]
          /\ UNCHANGED <<st, early, writer, readers, remapReq, pending,
                         journal, data, view, nextW, up, crashes>>
       \/ /\ st[t] # 0
          /\ hasWritten
          /\ data' = data \cup pending
          /\ pc' = [pc EXCEPT ![t] = IF pc[t] = "gc1" THEN "gc2" ELSE "ugc2"]
          /\ UNCHANGED <<st, early, writer, readers, remapReq, pending,
                         journal, view, nextW, up, crashes>>

\* groupCommit() up to notifyCommitted(): assertAtLeastReadLocked() throws
\* and the catch in durThread() or releasingWriteLock() aborts the
\* process; nothing to commit returns; else PREPLOGBUFFER and
\* WRITETOJOURNAL put the commit job in the journal.
groupCommitJournal(t) ==
    /\ up
    /\ pc[t] \in {"gc1", "ugc1"}
    /\ \/ /\ st[t] = 0
          /\ Down
          /\ UNCHANGED crashes
       \/ /\ st[t] # 0
          /\ ~hasWritten
          /\ pc' = [pc EXCEPT ![t] = AfterGC(t)]
          /\ UNCHANGED <<st, early, writer, readers, remapReq, pending,
                         journal, data, view, nextW, up, crashes>>
       \/ /\ st[t] # 0
          /\ hasWritten
          /\ journal' = journal \cup pending
          /\ pc' = [pc EXCEPT ![t] = IF pc[t] = "gc1" THEN "gc2" ELSE "ugc2"]
          /\ UNCHANGED <<st, early, writer, readers, remapReq, pending, data,
                         view, nextW, up, crashes>>

\* The rest of groupCommit(): WRITETODATAFILES, commitJob.reset(), then
\* the private view is remapped now in a write lock, or on the next write
\* lock acquisition.
groupCommitData(t) ==
    /\ up
    /\ pc[t] \in {"gc2", "ugc2"}
    /\ data' = data \cup pending
    /\ pending' = {}
    /\ IF st[t] > 0 THEN REMAPPRIVATEVIEW(data')
                    ELSE remapReq' = TRUE /\ UNCHANGED view
    /\ pc' = [pc EXCEPT ![t] = AfterGC(t)]
    /\ UNCHANGED <<st, early, writer, readers, journal, nextW, up, crashes>>

-----------------------------------------------------------------------------

Init ==
    /\ pc = [t \in Threads |-> Home(t)]
    /\ st = [t \in Threads |-> 0]
    /\ early = [t \in Threads |-> FALSE]
    /\ writer = None
    /\ readers = {}
    /\ remapReq = FALSE
    /\ pending = {}
    /\ journal = {}
    /\ data = {}
    /\ view = {}
    /\ nextW = 0
    /\ up = TRUE
    /\ crashes = 0

Next ==
    \/ \E c \in Clients :
          \/ lock(c) \/ lock_shared(c) \/ releaseEarly(c) \/ noteOp(c)
    \/ go
    \/ \E t \in Threads :
          \/ acquireW(t) \/ acquireR(t) \/ unlock(t) \/ unlock_shared(t)
          \/ groupCommitJournal(t) \/ groupCommitData(t) \/ unlockRest(t)
    \/ Crash
    \/ startup

\* The outermost release of a scoped lock: the thread lets go of _m.
releaseOutermost(t) ==
    \/ unlock(t) /\ st[t] = 1
    \/ unlock_shared(t) /\ st[t] = -1

\* The dur thread loops forever; a scoped lock is always released, and a
\* request that keeps coming back to its outermost lock level finishes;
\* a thread inside a call goes on; the process is restarted after a crash;
\* a thread blocked on _m gets it when _m is free infinitely often.
Fairness ==
    /\ WF_vars(go)
    /\ WF_vars(startup)
    /\ \A t \in Threads :
          /\ WF_vars(unlock(t)) /\ WF_vars(unlock_shared(t))
          /\ SF_vars(releaseOutermost(t))
          /\ WF_vars(groupCommitJournal(t) \/ groupCommitData(t) \/ unlockRest(t))
          /\ SF_vars(acquireW(t)) /\ SF_vars(acquireR(t))

Spec == Init /\ [][Next]_vars /\ Fairness

-----------------------------------------------------------------------------
(* Properties *)

TypeOK ==
    /\ pc \in [Threads -> PCs]
    /\ st \in [Threads -> -MaxDepth..MaxDepth]
    /\ early \in [Threads -> BOOLEAN]
    /\ writer \in Threads \cup {None}
    /\ readers \subseteq Threads
    /\ remapReq \in BOOLEAN
    /\ pending \subseteq WriteIds /\ journal \subseteq WriteIds
    /\ data \subseteq WriteIds /\ view \subseteq WriteIds
    /\ nextW \in 0..MaxWrites
    /\ up \in BOOLEAN
    /\ crashes \in 0..MaxCrashes

\* The thread-local _state of every thread agrees with who holds the RWLock
\* _m: a thread past _m.lock() with _state > 0 is the one writer, a thread
\* past _m.lock_shared() with _state < 0 is a reader, and a writer excludes
\* readers.  Recursive locking, releaseEarly() and the dur thread's
\* readlocktry/writelock fallback all change _state without touching _m.
LockStateConsistent ==
    /\ writer # None => readers = {}
    /\ \A t \in Threads :
          /\ (writer = t) <=> (st[t] > 0 /\ pc[t] # "waitW")
          /\ (t \in readers) <=> (st[t] < 0 /\ pc[t] # "waitR")

\* Write-ahead: groupCommit() writes to the data files only what is already
\* in the journal, so that recovery after a crash at any point can redo it.
WriteAhead == data \subseteq journal

\* While the process runs, the private view shows exactly the journaled
\* writes and those noted since the last commit: a remap of the private view
\* (REMAPPRIVATEVIEW) never drops a write that is not yet in the data files,
\* commitJob.reset() never drops a write that is not yet journaled, and
\* startup's recovery brings back everything the journal holds.
ViewIsCommittedPlusPending == up => view = journal \cup pending

\* A remap request (_remapPrivateViewRequested, set by a commit outside the
\* write lock) never coexists with uncommitted writes: the asserts of
\* REMAPPRIVATEVIEW (dur.cpp:288) and of noteOp (dur_commitjob.cpp:91) hold.
RemapOnlyWhenClean == remapReq => ~hasWritten

\* Every noted write is eventually in the journal, unless the process dies
\* first: durThread's go() keeps committing while the commit job has writes.
NotedWritesCommitted ==
    \A w \in WriteIds : (w \in pending) ~> (w \in journal \/ ~up)

\* groupCommit() is only ever entered by a thread that holds the db lock
\* ("locking in read lock when called", dur.cpp:336; asserted at :342).
\* releaseEarly() leaves the scope's later unlock() to call
\* releasingWriteLock() with no lock held.
GroupCommitLocked ==
    \A t \in Threads : pc[t] \in {"gc1", "ugc1"} => st[t] # 0

=============================================================================
