----------------------------- MODULE LibraryParts -----------------------------
(* The serial heap (HeapOps), the pool (Pool) and the thread library         *)
(* (ThreadTools), each on its own, as `part` says.                           *)
EXTENDS HeapOps

CONSTANTS
    Entries, MaxBlocks, Usages,        \* of Pool
    NThreads, Plans, Rounds            \* of ThreadTools

VARIABLES
    part,
    cur_entry, free_entries, back, recycle_list, head_block, cur_block, held,
    usage, in_use, log,
    plan, oversubscribed, starts, caller, created, noop_resched, uthread_sched,
    bar_arrive, bar_leave, state, late, strayed, n_fibers, currentFiber, active,
    finished, arrive, leave, arrive_flag, leave_flag, val_at_set, pc, calls

heapVars == <<heap, ret, plain>>
poolVars == <<cur_entry, free_entries, back, recycle_list, head_block, cur_block,
              held, usage, in_use, log>>
threadVars == <<plan, oversubscribed, starts, caller, created, noop_resched,
                uthread_sched, bar_arrive, bar_leave, state, late, strayed,
                n_fibers, currentFiber, active, finished, arrive, leave,
                arrive_flag, leave_flag, val_at_set, pc, calls>>
partsVars == <<part, heapVars, poolVars, threadVars>>

Nodes   == INSTANCE Pool
Program == INSTANCE ThreadTools

ASSUME BoundsAssumption ==
    /\ Nodes!PoolAssumption
    /\ Program!StartsAssumption /\ Program!Barrier!BoundsAssumption

PartsInit == Init /\ Nodes!Init /\ Program!Init

PartsNext ==
    /\ \/ part = "heap" /\ Next /\ UNCHANGED <<poolVars, threadVars>>
       \/ part = "pool" /\ Nodes!Next /\ UNCHANGED <<heapVars, threadVars>>
       \/ part = "threads" /\ Program!Next /\ UNCHANGED <<heapVars, poolVars>>
    /\ UNCHANGED part

PartsSpec == PartsInit /\ [][PartsNext]_partsVars
-----------------------------------------------------------------------------
(* The properties are those of the parts; each is stated there.              *)

(* Every object a pool has allocated is in use or on its recycle list, once  *)
(* (pool.c:76-130). *)
ObjectsAccountedFor == Nodes!ObjectsAccountedFor

(* No call of synchBarrierWait returns before every thread has called it as  *)
(* often (barrier.c:14-39). *)
NoneLeavesEarly == Program!NoneLeavesEarly

(* synchJoinThreadsN waits for every thread of its start but for as many as  *)
(* were late in leaving an earlier one (threadtools.c:174-177, barrier.c:48).*)
JoinWaits == Program!JoinWaits

(* Every thread of every start returns, and so does the join                 *)
(* (threadtools.c:130-191, uthreads.c:45-113). *)
EveryStartEnds == Program!EveryStartEnds
=============================================================================
