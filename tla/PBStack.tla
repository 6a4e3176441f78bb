------------------------------- MODULE PBStack -------------------------------
(* PBstack, a persistent stack on PBcomb                                     *)
(* (libconcurrent/concurrent/pbcombstack.c).                                 *)
(*                                                                           *)
(* The state word of the combining object is `head`, a pointer into a linked *)
(* list of nodes.  Nodes are written outside the state record, so making the *)
(* record durable is not enough: while it serves, the combiner remembers the *)
(* cache lines of the nodes it pushes (clNewItems) and flushes them in the   *)
(* final_persist hook; it remembers the nodes it pops (free_list) and gives  *)
(* them back to the pool in the after_persist hook, once no crash can bring  *)
(* them back.                                                                *)
(*                                                                           *)
(* Node n lives in cache line Line(n).  clean holds the nodes not written    *)
(* since their line was last flushed; what a crash leaves of any other node  *)
(* is an unknown mix of old and new words.                                   *)
EXTENDS Integers, LinkedLists

CONSTANTS
    Threads,         \* the threads that share the stack
    Values,          \* the values that are pushed
    PopOp,           \* POP_OP, the argument that means pop
    NoArg, NoVal, NoThread, Unformatted,    \* as in CombiningSessions
    Null,            \* NULL
    Junk,            \* what is in a node's val while the node is in the pool
    NumNodes,        \* bound: the nodes of the pool
    NodesPerLine,    \* how many nodes share a cache line
    Elimination,     \* FALSE with SYNCH_DISABLE_ELIMINATION_ON_STACKS
    Recycling        \* FALSE with SYNCH_POOL_NODE_RECYCLING_DISABLE

Nodes == 0 .. NumNodes - 1

Lines == {n \div NodesPerLine : n \in Nodes}

Line(n) == n \div NodesPerLine

Args == Values \union {PopOp}

PushRet  == 0     \* line 120
EmptyRet == -1    \* line 92

RetVals == Values \union {PushRet, EmptyRet}

Words == Nodes \union {Null}

(* What the constants must be. *)
NodesAssumption ==
    /\ NumNodes \in Nat \ {0}
    /\ NodesPerLine \in Nat \ {0}
    /\ Null \notin Nodes
    /\ Unformatted \notin Words
    /\ IsFiniteSet(Threads)
    /\ Elimination \in BOOLEAN /\ Recycling \in BOOLEAN

VARIABLES
    (* the combining object, see CombiningSessions *)
    phase, param, result, stage, combiner, word, published, durable, synced,
    (* the nodes *)
    val, next, clean,
    (* the pool of the stack *)
    recycle_list, cur_entry,
    (* the combiner's thread-local variables *)
    clNewItems, clNewItems_count, free_list

nodeVars  == <<val, next, clean>>
poolVars  == <<recycle_list, cur_entry>>
batchVars == <<clNewItems, clNewItems_count, free_list>>
combVars  == <<phase, param, result, stage, combiner, word, published,
               durable, synced>>
vars == <<combVars, nodeVars, poolVars, batchVars>>

Comb == INSTANCE CombiningSessions WITH InitialWord <- Null
-----------------------------------------------------------------------------
(* PBCombStackInit and PBCombStackThreadStateInit.                           *)
Init ==
    /\ Comb!Init
    /\ val = [n \in Nodes |-> Junk]
    /\ next = [n \in Nodes |-> Null]
    /\ clean = {}
    /\ recycle_list = <<>>
    /\ cur_entry = 0
    /\ clNewItems = {}
    /\ clNewItems_count = [l \in Lines |-> 0]
    /\ free_list = <<>>

(* PBCombStackPush and PBCombStackPop announce the operation ...             *)
Push(t, v) ==
    /\ Comb!Invoke(t, v)
    /\ UNCHANGED <<nodeVars, poolVars, batchVars>>

Pop(t) ==
    /\ Comb!Invoke(t, PopOp)
    /\ UNCHANGED <<nodeVars, poolVars, batchVars>>

(* Mutant: the lists of the last session are not emptied. *)
EmptyBatchNot == UNCHANGED batchVars

(* ... after resetting the thread-local variables; a call is a combiner at   *)
(* most once, so the reset is modelled where the session begins.             *)
EmptyBatch ==
    /\ clNewItems' = {}
    /\ clNewItems_count' = [l \in Lines |-> 0]
    /\ free_list' = <<>>

Begin(t) ==
    /\ Comb!Begin(t)
    /\ EmptyBatch
    /\ UNCHANGED <<nodeVars, poolVars>>
-----------------------------------------------------------------------------
(* serialPushPop.  Line 72 tells a pop from a push by the argument alone.    *)

(* Lines 90-92, with the empty stack. *)
PopEmpty(k) ==
    /\ param[k] = PopOp
    /\ word = Null
    /\ Comb!Serve(k, Null, EmptyRet)
    /\ UNCHANGED <<nodeVars, poolVars, batchVars>>

(* Mutant: a popped node goes back to the pool at once. *)
DeferredNot(n) ==
    /\ recycle_list' = <<n>> \o recycle_list
    /\ val' = [val EXCEPT ![n] = Junk]
    /\ clean' = clean \ {n}
    /\ UNCHANGED <<next, cur_entry, free_list>>

(* Lines 88-89: the node goes to the free list until the session is durable. *)
Deferred(n) ==
    /\ free_list' = Append(free_list, n)
    /\ UNCHANGED <<nodeVars, poolVars>>

(* Lines 73-91.  If a node of the same line was pushed in this session, its  *)
(* line has one node less to flush, whichever session pushed n.  The count   *)
(* is a uint64_t that wraps below 0; only whether it is 0 matters.           *)
PopNode(k) ==
    LET n == word IN
    /\ param[k] = PopOp
    /\ n # Null
    /\ Comb!Serve(k, next[n], val[n])
    /\ clNewItems_count' =
          IF Line(n) \in clNewItems
          THEN [clNewItems_count EXCEPT ![Line(n)] = @ - 1]
          ELSE clNewItems_count
    /\ Deferred(n)
    /\ UNCHANGED clNewItems

(* synchAllocObj: the recycled node on top, or the next entry of the block;  *)
(* the model has one block of NumNodes entries.                              *)
CanAlloc == recycle_list # <<>> \/ cur_entry < NumNodes

(* Mutant: recycled nodes are taken off the list but not used. *)
AllocatedNodeFresh == cur_entry

AllocatedNode ==
    IF recycle_list # <<>> THEN Head(recycle_list) ELSE cur_entry

Alloc ==
    IF recycle_list # <<>>
    THEN recycle_list' = Tail(recycle_list) /\ UNCHANGED cur_entry
    ELSE cur_entry' = cur_entry + 1 /\ UNCHANGED recycle_list

(* Lines 104-115. *)
Counted(l) ==
    [clNewItems_count EXCEPT ![l] = IF l \in clNewItems THEN @ + 1 ELSE 1]

(* Lines 94-120. *)
PushNode(k) ==
    LET n == AllocatedNode IN
    /\ param[k] # PopOp
    /\ CanAlloc
    /\ Alloc
    /\ next' = [next EXCEPT ![n] = word]
    /\ val' = [val EXCEPT ![n] = param[k]]
    /\ clean' = clean \ {n}
    /\ clNewItems' = clNewItems \union {Line(n)}
    /\ clNewItems_count' = Counted(Line(n))
    /\ Comb!Serve(k, n, PushRet)
    /\ UNCHANGED free_list

serialPushPop(k) == PopEmpty(k) \/ PopNode(k) \/ PushNode(k)
-----------------------------------------------------------------------------
(* The hooks *)

(* Mutant: lines of one new node are not flushed. *)
FlushedLinesMany == {l \in clNewItems : clNewItems_count[l] > 1}

FlushedLines ==
    IF Elimination THEN {l \in clNewItems : clNewItems_count[l] # 0}
    ELSE clNewItems

(* clPersist_pushed_nodes, lines 19-32.  The drain is PBCombApplyOp's, before*)
(* it publishes the record; nothing is written in between.                   *)
FinalPersist ==
    /\ Comb!FinalPersist
    /\ clean' = clean \union {n \in Nodes : Line(n) \in FlushedLines}
    /\ UNCHANGED <<val, next, poolVars, batchVars>>

(* after_persist_func, lines 34-40.  synchRecycleObj links a node through    *)
(* its first word, which is val.                                             *)
AfterPersist ==
    /\ Comb!AfterPersist
    /\ IF Recycling
       THEN /\ recycle_list' = Reverse(free_list) \o recycle_list
            /\ val' = [n \in Nodes |->
                          IF n \in ToSet(free_list) THEN Junk ELSE val[n]]
            /\ clean' = clean \ ToSet(free_list)
       ELSE UNCHANGED <<recycle_list, val, clean>>
    /\ UNCHANGED <<next, cur_entry, batchVars>>

(* The steps of PBCombApplyOp the stack takes no part in. *)
CombinerStep ==
    /\ \/ Comb!FlushState \/ Comb!Publish \/ Comb!FlushPointer
       \/ Comb!Unlock \/ Comb!Evict
    /\ UNCHANGED <<nodeVars, poolVars, batchVars>>

Return(t) ==
    /\ Comb!Return(t)
    /\ UNCHANGED <<nodeVars, poolVars, batchVars>>

Next ==
    \/ \E t \in Threads :
          \/ \E v \in Values : Push(t, v)
          \/ Pop(t) \/ Begin(t) \/ serialPushPop(t) \/ Return(t)
    \/ FinalPersist \/ AfterPersist \/ CombinerStep

Spec == Init /\ [][Next]_vars
-----------------------------------------------------------------------------
(* Correctness *)

TypeOK ==
    /\ phase \in [Threads -> {"idle", "pending", "applied", "released"}]
    /\ param \in [Threads -> Args \union {NoArg}]
    /\ result \in [Threads -> RetVals \union {NoVal}]
    /\ stage \in {"free", "serving", "flush_state", "publish", "flush_pointer",
                  "after_persist", "unlock"}
    /\ combiner \in Threads \union {NoThread}
    /\ word \in Words
    /\ {published, durable} \subseteq Words \union {Unformatted}
    /\ synced \in BOOLEAN
    /\ val \in [Nodes -> Values \union {Junk}]
    /\ next \in [Nodes -> Words]
    /\ clean \subseteq Nodes
    /\ recycle_list \in Seq(Nodes)
    /\ cur_entry \in 0 .. NumNodes
    /\ clNewItems \subseteq Lines
    /\ clNewItems_count \in [Lines -> Int]
    /\ free_list \in Seq(Nodes)

(* The nodes from node w on, top first. *)
NodesFrom(w) == ListFrom(next, Null, w, NumNodes)

Contents(w) ==
    LET nodes == NodesFrom(w) IN [k \in 1 .. Len(nodes) |-> val[nodes[k]]]

InStack(w) == IF w = Unformatted THEN {} ELSE ToSet(NodesFrom(w))

(* Popped by the session under way and not yet given back to the pool. *)
Popped ==
    IF stage \in {"free", "unlock"} THEN {} ELSE ToSet(free_list)

(* Every node the pool ever handed out is in one place: in the stack, popped *)
(* by the session under way, or back in the pool; and none that the pool may *)
(* hand out again can be brought back by a crash (lines 34-40, 88).          *)
NodesAccountedFor ==
    /\ IsInjective(recycle_list)
    /\ ToSet(recycle_list) \intersect (InStack(word) \union InStack(durable)) = {}
    /\ InStack(word) \intersect Popped = {}
    /\ Recycling =>
          0 .. cur_entry - 1 =
              ToSet(recycle_list) \union InStack(word) \union Popped

(* Whatever a crash leaves is a whole stack: every node that can be reached  *)
(* from the durable head has its value and its link in the durable memory    *)
(* (lines 19-32 flush them before the head is published).                    *)
WholeAfterCrash == InStack(durable) \subseteq clean

(* The combiner's arrays hold nthreads entries each (lines 55-57), and a     *)
(* session fills at most one entry of them per thread.                       *)
ArraysSuffice ==
    /\ Cardinality(clNewItems) <= Cardinality(Threads)
    /\ Len(free_list) <= Cardinality(Threads)

(* The abstract stack. *)
Stack(s, a, t) ==
    IF a # PopOp THEN [state |-> <<a>> \o s, ret |-> PushRet]
    ELSE IF s = <<>> THEN [state |-> s, ret |-> EmptyRet]
    ELSE [state |-> Tail(s), ret |-> Head(s)]

(* What a crash leaves of the stack with head w: nothing if a node is torn.  *)
Recovered(w) ==
    IF w # Unformatted /\ InStack(w) \subseteq clean THEN Contents(w)
    ELSE Unformatted

DurableStack == INSTANCE DurableObject WITH
    InitialState <- <<>>,
    SFunc        <- Stack,
    phase        <- [t \in Threads |->
                        IF \/ phase[t] = "released"
                           \/ /\ phase[t] = "applied" /\ synced
                              /\ stage \in {"flush_pointer", "after_persist",
                                            "unlock"}
                        THEN "durable" ELSE phase[t]],
    param        <- [t \in Threads |->
                        IF phase[t] = "pending" THEN param[t] ELSE NoArg],
    object       <- Contents(word),
    durable      <- Recovered(durable)

(* PBstack is a durable stack: operations take effect one at a time, return  *)
(* what a stack returns, and a crash at any moment leaves a whole stack that *)
(* holds every operation that has returned.  This is so if sessions leave no *)
(* line of a new node out of the flush: with at most two nodes to a line, or *)
(* with sessions of fewer than four operations.  WholeAfterCrash refutes it  *)
(* of more (line 82).                                                        *)
ImplementsDurableStack == DurableStack!Spec
=============================================================================
