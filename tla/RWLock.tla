------------------------------- MODULE RWLock -------------------------------
(***************************************************************************)
(* What MongoMutex (db/mongomutex.h) promises the code that takes dbMutex: *)
(* each thread holds the lock not at all, shared or exclusively; an        *)
(* exclusive holder is alone; a thread gets the lock only when it does not *)
(* hold it (recursion is the thread's own business and invisible here);   *)
(* the death of the process frees it.                                      *)
(*                                                                         *)
(* MultiUpdate takes its lock steps from it: the update, the other client *)
(* and the cursor monitor each take and release dbMutex as one thread.    *)
(***************************************************************************)
CONSTANTS Threads

VARIABLE held   \* thread -> "none", "R" (shared) or "W" (exclusive)

Modes == {"none", "R", "W"}

\* No thread holds the lock exclusively: a shared request can be granted.
NoWriter == \A u \in Threads : held[u] # "W"

\* Nobody holds the lock: an exclusive request can be granted.
Free == \A u \in Threads : held[u] = "none"

AcquireW(t) ==
    /\ held[t] = "none"
    /\ Free
    /\ held' = [held EXCEPT ![t] = "W"]

AcquireR(t) ==
    /\ held[t] = "none"
    /\ NoWriter
    /\ held' = [held EXCEPT ![t] = "R"]

Release(t) ==
    /\ held[t] # "none"
    /\ held' = [held EXCEPT ![t] = "none"]

\* The process dies and every thread's hold with it.
Reset == held' = [u \in Threads |-> "none"]

Init == held = [u \in Threads |-> "none"]

Next == \E t \in Threads : AcquireW(t) \/ AcquireR(t) \/ Release(t)
        \/ Reset

Spec == Init /\ [][Next]_held

\* An exclusive holder is the only holder.
Exclusive ==
    \A t \in Threads : held[t] = "W" => \A u \in Threads \ {t} : held[u] = "none"

=============================================================================
