------------------------------ MODULE ReplSync ------------------------------
(***************************************************************************)
(* A replica-set member (Self) keeping its oplog in step with the primary: *)
(* ReplSetImpl's sync thread (db/repl/rs_sync.cpp: _syncThread, syncTail, *)
(* tryToGoLiveAsASecondary) and the state changes of db/repl/rs.cpp       *)
(* (assumePrimary, relinquish, forgetPrimary).                             *)
(*                                                                         *)
(* The other members, elections, heartbeats and writes are the            *)
(* environment; their code (rs_manager, consensus, oplog.cpp's _logOp,    *)
(* rs_rollback's syncRollback) is not in the repository and is modelled   *)
(* by its effect.  An oplog entry is its OpTime ts and its hash h; every   *)
(* write gets a fresh h, as the 64-bit hash of the previous h and the     *)
(* write gives in practice.  local.oplog.rs is a capped collection: once   *)
(* it holds Cap entries each insert deletes the oldest.                    *)
(***************************************************************************)
EXTENDS Integers, SequencesExt, FiniteSets

CONSTANTS
    Self,          \* the member whose sync thread is modelled
    Others,        \* the other members
    None,          \* no member (box.getPrimary() == 0)
    MaxWrites,     \* writes to the replica set
    MaxElections,  \* elections after the initial one
    Cap            \* entries local.oplog.rs holds

Members == {Self} \cup Others

States == {"STARTUP2", "RECOVERING", "SECONDARY", "PRIMARY", "FATAL"}

VARIABLES
    oplog,      \* member -> its oplog, oldest first (deleted entries kept)
    first,      \* member -> index of the oldest entry the oplog still holds
    prim,       \* the member that is primary, or None
    view,       \* box.getPrimary() on Self
    state,      \* box.getState() on Self
    minvalid,   \* ts in local.replset.minvalid; 0 when there is none
    pc,         \* Self's sync thread: "idle", "query" (syncTail connecting
                \* and querying), "tail" (syncTail's loop), "read" (an op
                \* read, the write lock not yet taken)
    src,        \* syncTail's local 'primary'
    cur,        \* index in oplog[src] of the op the cursor returns next
    rest,       \* the op the tailable cursor rests on (the last returned)
    op,         \* the op syncTail has read and not yet applied
    writes,     \* writes so far; the next write's h is writes + 1
    pred,       \* ghost: h -> the entry its writer's oplog ended with
    elections

vars == <<oplog, first, prim, view, state, minvalid, pc, src, cur, rest, op,
          writes, pred, elections>>
syncVars == <<pc, src, cur, rest, op>>

Genesis == [ts |-> 1, h |-> 0]
Ops == [ts : 1..(MaxWrites + 1), h : 0..MaxWrites]

LastOp(n) == Last(oplog[n])

\* ReplSetImpl::lastOpTimeWritten and lastH: Self's last oplog entry.
lastOpTimeWritten == LastOp(Self).ts
lastH == LastOp(Self).h

\* The ts of the oldest entry member n's oplog still holds
\* (r.findOne(rsoplog, Query())).
OldestTs(n) == oplog[n][first[n]].ts

\* Inserting o into member n's capped oplog.
LogOp(n, o) ==
    /\ oplog' = [oplog EXCEPT ![n] = Append(@, o)]
    /\ first' = [first EXCEPT ![n] = IF Len(oplog[n]) + 1 - @ >= Cap THEN @ + 1 ELSE @]

-----------------------------------------------------------------------------
(* Self's sync thread                                                      *)

SyncThreadRuns == state \notin {"PRIMARY", "FATAL"} /\ view # None

\* tryToGoLiveAsASecondary(): SECONDARY once the oplog reaches minvalid (or
\* there is no minvalid document); the new state.
tryToGoLiveAsASecondary ==
    IF minvalid <= lastOpTimeWritten THEN "SECONDARY" ELSE state

\* changeState(s), StateBox::change (rs.h, not in the repository): the new
\* state; a member that leaves PRIMARY clears box's primary (it was Self),
\* and the set, told by heartbeats, has no primary any more.
changeState(s) ==
    /\ state' = s
    /\ IF state = "PRIMARY" /\ s # "PRIMARY"
       THEN view' = None /\ prim' = None
       ELSE UNCHANGED <<view, prim>>

\* Variant: only the OpTimes are compared.
Diverged_ts(o) == o.ts # lastOpTimeWritten

\* The first op of the query ts >= lastOpTimeWritten is not our last op:
\* the histories have diverged.
Diverged(o) == o.ts # lastOpTimeWritten \/ o.h # lastH

\* syncRollback(r), rs_rollback.cpp (not in the repository), by its effect:
\* Self's oplog goes back to the last entry it shares with the source,
\* minvalid becomes the source's last OpTime and Self is RECOVERING; a
\* common point the capped oplogs no longer hold is fatal.
syncRollback(s) ==
    LET common == LongestCommonPrefix({oplog[Self], oplog[s]})
    IN IF Len(common) >= first[Self] /\ Len(common) >= first[s]
       THEN /\ oplog' = [oplog EXCEPT ![Self] = common]
            /\ minvalid' = LastOp(s).ts
            /\ changeState("RECOVERING")
       ELSE /\ changeState("FATAL")
            /\ UNCHANGED <<oplog, minvalid>>

\* _syncThread() reads box's state and primary and calls syncTail(), which
\* takes box.getPrimary() as the source to tail.
syncTail ==
    /\ pc = "idle"
    /\ SyncThreadRuns
    /\ pc' = "query"
    /\ src' = view
    /\ UNCHANGED <<oplog, first, prim, view, state, minvalid, cur, rest, op,
                   writes, pred, elections>>

\* The rest of syncTail() up to its loop, after the connect: the staleness
\* check against the source's oldest entry (RS102), the tailing query
\* ts >= lastOpTimeWritten and the rollback checks, then
\* tryToGoLiveAsASecondary().  Network round trips separate these from the
\* state _syncThread read, and none of them reads the state again.  A
\* failed connect, and an empty query whose source is not behind
\* ("condition 1"), return with nothing changed.
Query ==
    /\ pc = "query"
    /\ LET s   == src
           gte == {i \in first[s]..Len(oplog[s]) : oplog[s][i].ts >= lastOpTimeWritten}
           k   == CHOOSE i \in gte : \A j \in gte : i <= j
       IN \/ /\ lastOpTimeWritten < OldestTs(s)
             /\ changeState("RECOVERING")
             /\ pc' = "idle"
             /\ UNCHANGED <<oplog, first, minvalid, src, cur, rest, op>>
          \/ /\ lastOpTimeWritten >= OldestTs(s)
             /\ gte = {}
             /\ LastOp(s).ts < lastOpTimeWritten
             /\ syncRollback(s)
             /\ pc' = "idle"
             /\ UNCHANGED <<first, src, cur, rest, op>>
          \/ /\ lastOpTimeWritten >= OldestTs(s)
             /\ gte # {}
             /\ Diverged(oplog[s][k])
             /\ syncRollback(s)
             /\ pc' = "idle"
             /\ UNCHANGED <<first, src, cur, rest, op>>
          \/ /\ lastOpTimeWritten >= OldestTs(s)
             /\ gte # {}
             /\ ~Diverged(oplog[s][k])
             /\ changeState(tryToGoLiveAsASecondary)
             /\ pc' = "tail"
             /\ cur' = k + 1
             /\ rest' = oplog[s][k]
             /\ UNCHANGED <<oplog, first, minvalid, src, op>>
    /\ UNCHANGED <<writes, pred, elections>>

\* The source's ClientCursor is deleted when the entry it rests on is
\* deleted (aboutToDelete on a capped collection: "writes to the oplog have
\* caught the reader"), by the capped insert or by the source's rollback.
CursorLive ==
    /\ cur - 1 \in first[src]..Len(oplog[src])
    /\ oplog[src][cur - 1] = rest

\* Between batches (!r.moreInCurrentBatch()): a RECOVERING member tries to
\* go live, and a change of primary ends the pass.
BatchCheck ==
    /\ pc = "tail"
    /\ state' = IF state = "RECOVERING" THEN tryToGoLiveAsASecondary ELSE state
    /\ pc' = IF view # src THEN "idle" ELSE "tail"
    /\ UNCHANGED <<oplog, first, prim, view, minvalid, src, cur, rest, op,
                   writes, pred, elections>>

\* r.nextSafe(): the next op, read before the write lock is taken
\* (slaveDelay is 0).
ReadOp ==
    /\ pc = "tail"
    /\ CursorLive
    /\ cur <= Len(oplog[src])
    /\ op' = oplog[src][cur]
    /\ rest' = oplog[src][cur]
    /\ cur' = cur + 1
    /\ pc' = "read"
    /\ UNCHANGED <<oplog, first, prim, view, state, minvalid, src, writes,
                   pred, elections>>

\* Variant: the op is applied without looking at the primary again.
ApplyOp_nocheck ==
    /\ pc = "read"
    /\ LogOp(Self, op)
    /\ pc' = "tail"
    /\ UNCHANGED <<prim, view, state, minvalid, src, cur, rest, op, writes,
                   pred, elections>>

\* Variant: syncApply() without _logOpObjRS(): the op is not written to
\* Self's oplog.
ApplyOp_nolog ==
    /\ pc = "read"
    /\ IF view # src THEN pc' = "idle" ELSE pc' = "tail"
    /\ UNCHANGED <<oplog, first, prim, view, state, minvalid, src, cur, rest,
                   op, writes, pred, elections>>

\* In the write lock: if the primary changed (Self may have become primary,
\* assumePrimary takes the same lock) syncTail returns; otherwise
\* syncApply(o) and _logOpObjRS(o) put the op into Self's oplog.
ApplyOp ==
    /\ pc = "read"
    /\ IF view # src
       THEN pc' = "idle" /\ UNCHANGED <<oplog, first>>
       ELSE LogOp(Self, op) /\ pc' = "tail"
    /\ UNCHANGED <<prim, view, state, minvalid, src, cur, rest, op, writes,
                   pred, elections>>

\* !r.more(): r.tailCheck(); without a cursor, or with a new primary, the
\* pass ends (_syncThread will call syncTail again); otherwise the
\* tailable cursor waits for more.
TailEnd ==
    /\ pc = "tail"
    /\ ~CursorLive \/ cur > Len(oplog[src])
    /\ ~CursorLive \/ view # src
    /\ pc' = "idle"
    /\ UNCHANGED <<oplog, first, prim, view, state, minvalid, src, cur, rest,
                   op, writes, pred, elections>>

-----------------------------------------------------------------------------
(* Self's member state (rs.cpp)                                            *)

\* assumePrimary(): elected (iAmPotentiallyHot: Self is SECONDARY), Self
\* takes the write lock and box.setSelfPrimary() makes it the primary.
assumePrimary ==
    /\ prim = None
    /\ state = "SECONDARY"
    /\ elections < MaxElections
    /\ prim' = Self
    /\ view' = Self
    /\ state' = "PRIMARY"
    /\ elections' = elections + 1
    /\ UNCHANGED <<oplog, first, minvalid, syncVars, writes, pred>>

\* relinquish() of a primary: changeState(RS_SECONDARY), which also clears
\* box's primary (it was Self).  Its STARTUP2 branch is taken only on calls
\* from the manager, not in the repository.
relinquish ==
    /\ state = "PRIMARY"
    /\ changeState("SECONDARY")

\* forgetPrimary(): the manager no longer sees the primary Self knew (or,
\* when Self is primary, a majority): a primary relinquishes, a secondary
\* forgets whom it took for primary.
forgetPrimary ==
    /\ state = "PRIMARY" \/ view # prim
    /\ IF state = "PRIMARY"
       THEN relinquish
       ELSE view' = None /\ UNCHANGED <<prim, state>>
    /\ UNCHANGED <<oplog, first, minvalid, syncVars, writes, pred, elections>>

-----------------------------------------------------------------------------
(* The rest of the replica set                                             *)

\* The manager learns from a heartbeat who the primary is.
noteRemotePrimary ==
    /\ state # "PRIMARY"
    /\ prim \in Others
    /\ view # prim
    /\ view' = prim
    /\ UNCHANGED <<oplog, first, prim, state, minvalid, syncVars, writes,
                   pred, elections>>

\* A client writes on the primary (_logOp): the next OpTime, a fresh hash.
Write ==
    /\ prim # None
    /\ writes < MaxWrites
    /\ LET o == [ts |-> LastOp(prim).ts + 1, h |-> writes + 1]
       IN /\ LogOp(prim, o)
          /\ pred' = [pred EXCEPT ![o.h] = LastOp(prim)]
    /\ writes' = writes + 1
    /\ UNCHANGED <<prim, view, state, minvalid, syncVars, elections>>

\* Another member steps down or is lost.
OtherStepDown ==
    /\ prim \in Others
    /\ prim' = None
    /\ UNCHANGED <<oplog, first, view, state, minvalid, syncVars, writes,
                   pred, elections>>

\* Another member is elected.
Elect(n) ==
    /\ prim = None
    /\ elections < MaxElections
    /\ prim' = n
    /\ elections' = elections + 1
    /\ UNCHANGED <<oplog, first, view, state, minvalid, syncVars, writes, pred>>

\* Another member replicates the primary's next entry.
Replicate(n) ==
    /\ prim \notin {None, n}
    /\ IsStrictPrefix(oplog[n], oplog[prim])
    /\ LogOp(n, oplog[prim][Len(oplog[n]) + 1])
    /\ UNCHANGED <<prim, view, state, minvalid, syncVars, writes, pred,
                   elections>>

\* Another member rolls back what the primary does not have.
OtherRollback(n) ==
    /\ prim \notin {None, n}
    /\ ~IsPrefix(oplog[n], oplog[prim])
    /\ LET common == LongestCommonPrefix({oplog[n], oplog[prim]})
       IN /\ Len(common) >= first[n]
          /\ oplog' = [oplog EXCEPT ![n] = common]
    /\ UNCHANGED <<first, prim, view, state, minvalid, syncVars, writes, pred,
                   elections>>

-----------------------------------------------------------------------------

\* Every member has the genesis entry (Self's initial sync is done); one of
\* the others is primary; Self has just started (_go: RS_STARTUP2).
Init ==
    /\ oplog = [n \in Members |-> <<Genesis>>]
    /\ first = [n \in Members |-> 1]
    /\ prim \in Others
    /\ view = None
    /\ state = "STARTUP2"
    /\ minvalid = 0
    /\ pc = "idle"
    /\ src = None
    /\ cur = 1
    /\ rest = Genesis
    /\ op = Genesis
    /\ writes = 0
    /\ pred = [h \in 1..MaxWrites |-> Genesis]
    /\ elections = 0

SyncStep == syncTail \/ Query \/ BatchCheck \/ ReadOp \/ ApplyOp \/ TailEnd

Next ==
    \/ SyncStep
    \/ assumePrimary \/ forgetPrimary
    \/ noteRemotePrimary \/ Write \/ OtherStepDown
    \/ \E n \in Others : Elect(n) \/ Replicate(n) \/ OtherRollback(n)

\* The sync thread loops for as long as the process runs, and heartbeats
\* keep coming: both are weakly fair.  Clients, elections and the other
\* members are not.
Fairness == WF_vars(SyncStep) /\ WF_vars(noteRemotePrimary)

Spec == Init /\ [][Next]_vars /\ Fairness

-----------------------------------------------------------------------------
(* Properties                                                              *)

TypeOK ==
    /\ \A n \in Members :
          /\ oplog[n] \in Seq(Ops)
          /\ Len(oplog[n]) >= 1
          /\ first[n] \in 1..Len(oplog[n])
          /\ Len(oplog[n]) - first[n] < Cap
    /\ prim \in Members \cup {None}
    /\ view \in Members \cup {None}
    /\ state \in States
    /\ (state = "PRIMARY") = (prim = Self)
    /\ minvalid \in 0..(MaxWrites + 1)
    /\ pc \in {"idle", "query", "tail", "read"}
    /\ pc # "idle" => src \in Others
    /\ op \in Ops /\ rest \in Ops
    /\ writes \in 0..MaxWrites
    /\ elections \in 0..MaxElections

\* Every oplog is a history: each entry follows, in every member's oplog,
\* the very entry its writer's oplog ended with when it was written.
\* syncTail must roll back a member that diverged (same OpTime, other
\* hash) and must not apply an old primary's op once Self is primary.
ConsistentHistory ==
    \A n \in Members : \A i \in 2..Len(oplog[n]) :
        oplog[n][i - 1] = pred[oplog[n][i].h]

\* Self's oplog is the primary's, once no more happens.
CaughtUp ==
    prim \in Others =>
        \/ oplog[Self] = oplog[prim]
        \/ state = "FATAL"
        \/ lastOpTimeWritten < OldestTs(prim)

\* If some other member stays primary, Self's sync thread eventually holds
\* exactly the primary's oplog (rolling back what it must), unless it fell
\* off the end of the primary's capped oplog (RS102 too stale) or a
\* rollback was impossible (fatal).
SyncCatchesUp == <>[](prim \in Others) => <>[]CaughtUp

=============================================================================
