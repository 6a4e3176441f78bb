------------------------------- MODULE PBHeap -------------------------------
(* PBheap, a heap on PBcomb (libconcurrent/concurrent/pbcombheap.c).         *)
(*                                                                           *)
(* The state record of PBcomb is a copy of a HeapState: the level, position  *)
(* and size fields, the array, and heap_arrays, the pointers through which   *)
(* every operation reaches its elements.  heapInit makes those point into    *)
(* initial_state.bulk, and PBCombStructInit and PBCombApplyOp copy them as   *)
(* they are, so that every record's operations work on that one array, which *)
(* is in no record and which nothing flushes.  The state word of the         *)
(* combining object is therefore the three fields; bulk is shared.           *)
EXTENDS Heap

CONSTANTS
    Threads,         \* the threads that share the heap
    Inserted,        \* the elements that are inserted
    NoArg, NoVal, NoThread, Unformatted    \* as in CombiningSessions

VARIABLES
    (* the combining object, see CombiningSessions *)
    phase, param, result, stage, combiner, word, published, durable, synced,
    (* initial_state.bulk, and its slots that are durable as they are *)
    bulk, clean

combVars == <<phase, param, result, stage, combiner, word, published, durable,
              synced>>
vars == <<combVars, bulk, clean>>

HeapArgs == {InsertArg(el) : el \in Inserted} \union {DeleteMinArg, GetMinArg}

Fields(h) == [last_used_level |-> h.last_used_level,
              last_used_level_pos |-> h.last_used_level_pos,
              last_used_level_size |-> h.last_used_level_size]

(* The heap an operation on a record with the fields w works on. *)
HeapOf(w) == [last_used_level |-> w.last_used_level,
              last_used_level_pos |-> w.last_used_level_pos,
              last_used_level_size |-> w.last_used_level_size,
              bulk |-> bulk]

Comb == INSTANCE CombiningSessions WITH
    Args <- HeapArgs,
    RetVals <- HeapElement \union {InsertFail},
    Words <- [last_used_level : 0 .. Levels - 1,
              last_used_level_pos : 0 .. SizeOfLevel[Levels],
              last_used_level_size : 0 .. SizeOfLevel[Levels]],
    InitialWord <- Fields(EmptyState)

Init ==
    /\ Comb!Init
    /\ bulk = EmptyState.bulk
    /\ clean = {}

(* PBCombHeapInsert, PBCombHeapDeleteMin and PBCombHeapGetMin. *)
Invoke(t) ==
    /\ \E arg \in HeapArgs : Comb!Invoke(t, arg)
    /\ UNCHANGED <<bulk, clean>>

(* heapSerialOperation on behalf of thread k. *)
Serve(k) ==
    LET served == SerialOperation(HeapOf(word), param[k]) IN
    /\ Comb!Serve(k, Fields(served.heap), served.ret)
    /\ bulk' = served.heap.bulk
    /\ clean' = clean \ {s \in Slots : bulk[s] # bulk'[s]}

(* The steps of PBCombApplyOp; PBheap installs no hooks. *)
CombinerStep ==
    /\ \/ Comb!Persist \/ Comb!Unlock \/ Comb!Evict
       \/ \E t \in Threads : Comb!Begin(t) \/ Comb!Return(t)
    /\ UNCHANGED <<bulk, clean>>

(* A line of bulk reaches the durable memory on its own. *)
EvictSlot ==
    /\ \E s \in Slots : clean' = clean \union {s}
    /\ UNCHANGED <<combVars, bulk>>

Next == (\E t \in Threads : Invoke(t) \/ Serve(t)) \/ CombinerStep \/ EvictSlot

Spec == Init /\ [][Next]_vars

(* PBheap is a "persistent heap object" (pbcombheap.h:3): the elements of    *)
(* the heap that a crash leaves have been made durable.                      *)
ElementsDurable ==
    durable # Unformatted => UsedSlots(HeapOf(durable)) \subseteq clean
=============================================================================
