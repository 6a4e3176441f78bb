------------------------------- MODULE PBQueue -------------------------------
(* PBqueue, a persistent queue on two PBcomb objects                         *)
(* (libconcurrent/concurrent/pbcombqueue.c).                                 *)
(*                                                                           *)
(* The queue is a linked list behind a dummy node.  The state word of the    *)
(* object that serves dequeues (variables d_...) is `first`, the dummy; that *)
(* of the object that serves enqueues (e_...) is `last`.  The two combiners  *)
(* run at the same time; a dequeue goes no further than enqueue_struct.aux,  *)
(* which the after_persist hook of an enqueue session moves to the last node *)
(* that session appended.  Nodes come from a pool of the enqueue combiner    *)
(* and go back to a pool of the dequeue combiner.                            *)
(*                                                                           *)
(* Node n lives in cache line Line(n).  clean_val and clean_next hold the    *)
(* nodes whose val, or next, was not written since that line was last        *)
(* flushed: what a crash leaves of the other words is not known.             *)
EXTENDS Integers, LinkedLists

CONSTANTS
    Threads,         \* the threads that share the queue
    Values,          \* the values that are enqueued
    NoArg, NoVal, NoThread, Unformatted,    \* as in CombiningSessions
    Null,            \* NULL
    Guard,           \* &queue_object_struct->guard
    Junk,            \* what is in a node's val while the node is in a pool
    PoolEntries,     \* bound: the nodes of each thread's pool
    NodesPerLine     \* how many nodes share a cache line

PoolNodes == Threads \X (0 .. PoolEntries - 1)
Nodes == PoolNodes \union {Guard}
Words == Nodes \union {Null}

(* The guard is aligned to a line of its own (pbcombqueue.h:32). *)
Line(n) == IF n = Guard THEN Guard ELSE <<n[1], n[2] \div NodesPerLine>>

EnqueueRet == -1    \* line 89
EmptyRet   == -1    \* line 95
DeqArg     == 0     \* the argument of a dequeue, which nothing reads

ASSUME NodesAssumption ==
    /\ PoolEntries \in Nat \ {0}
    /\ NodesPerLine \in Nat \ {0}
    /\ Guard \notin PoolNodes
    /\ Null \notin Nodes
    /\ Unformatted \notin Nodes
    /\ NoThread \notin Threads
    /\ IsFiniteSet(Threads)

VARIABLES
    (* enqueue_struct *)
    e_phase, e_param, e_result, e_stage, e_combiner, e_word, e_published,
    e_durable, e_synced, aux,
    (* dequeue_struct *)
    d_phase, d_param, d_result, d_stage, d_combiner, d_word, d_published,
    d_durable, d_synced,
    (* the nodes *)
    val, next, clean_val, clean_next,
    (* per thread: pool_node *)
    recycle_list, cur_entry,
    (* thread-local variables of the enqueue combiner *)
    clNewItems, enqueue_counter, tail

enqVars   == <<e_phase, e_param, e_result, e_stage, e_combiner, e_word,
               e_published, e_durable, e_synced>>
deqVars   == <<d_phase, d_param, d_result, d_stage, d_combiner, d_word,
               d_published, d_durable, d_synced>>
nodeVars  == <<val, next, clean_val, clean_next>>
poolVars  == <<recycle_list, cur_entry>>
batchVars == <<clNewItems, enqueue_counter, tail>>
vars == <<enqVars, aux, deqVars, nodeVars, poolVars, batchVars>>

E == INSTANCE CombiningSessions WITH
    Args <- Values, RetVals <- {EnqueueRet}, InitialWord <- Guard,
    phase <- e_phase, param <- e_param, result <- e_result, stage <- e_stage,
    combiner <- e_combiner, word <- e_word, published <- e_published,
    durable <- e_durable, synced <- e_synced

D == INSTANCE CombiningSessions WITH
    Args <- {DeqArg}, RetVals <- Values \union {EmptyRet}, InitialWord <- Guard,
    phase <- d_phase, param <- d_param, result <- d_result, stage <- d_stage,
    combiner <- d_combiner, word <- d_word, published <- d_published,
    durable <- d_durable, synced <- d_synced
-----------------------------------------------------------------------------
(* PBCombQueueInit and PBCombQueueThreadStateInit, lines 34-62.              *)
Init ==
    /\ E!Init
    /\ D!Init
    /\ aux = Guard
    /\ val = [n \in Nodes |-> Junk]
    /\ next = [n \in Nodes |-> Null]
    /\ clean_val = {}
    /\ clean_next = {}
    /\ recycle_list = [t \in Threads |-> <<>>]
    /\ cur_entry = [t \in Threads |-> 0]
    /\ clNewItems = {}
    /\ enqueue_counter = 0
    /\ tail = Null

(* A thread makes one call at a time, to either object. *)
IsIdle(t) == e_phase[t] = "idle" /\ d_phase[t] = "idle"

(* PBCombQueueApplyEnqueue, lines 109-113. *)
ApplyEnqueue(t, v) ==
    /\ IsIdle(t)
    /\ E!Invoke(t, v)
    /\ UNCHANGED <<aux, deqVars, nodeVars, poolVars, batchVars>>

(* PBCombQueueApplyDequeue, lines 115-118. *)
ApplyDequeue(t) ==
    /\ IsIdle(t)
    /\ D!Invoke(t, DeqArg)
    /\ UNCHANGED <<enqVars, aux, nodeVars, poolVars, batchVars>>

(* Lines 110-111; a call is a combiner at most once, so the reset of the     *)
(* thread-local variables is modelled where the session begins.              *)
EmptyBatch ==
    /\ clNewItems' = {}
    /\ enqueue_counter' = 0
    /\ tail' = Null

BeginEnqueues(t) ==
    /\ E!Begin(t)
    /\ EmptyBatch
    /\ UNCHANGED <<aux, deqVars, nodeVars, poolVars>>

BeginDequeues(t) ==
    /\ D!Begin(t)
    /\ UNCHANGED <<enqVars, aux, nodeVars, poolVars, batchVars>>
-----------------------------------------------------------------------------
(* The pools *)

(* Mutant: all threads share one pool. *)
PoolOfShared(t) == CHOOSE u \in Threads : TRUE

(* pool_node is a thread-local variable of the combiner. *)
PoolOf(t) == t

(* synchAllocObj and synchRecycleObj for a pool of one block. *)
CanAlloc(p) == recycle_list[p] # <<>> \/ cur_entry[p] < PoolEntries

(* Mutant: recycled nodes are taken off the list but not used. *)
AllocatedNodeFresh(p) == <<p, cur_entry[p]>>

AllocatedNode(p) ==
    IF recycle_list[p] # <<>> THEN Head(recycle_list[p]) ELSE <<p, cur_entry[p]>>

Alloc(p) ==
    IF recycle_list[p] # <<>>
    THEN /\ recycle_list' = [recycle_list EXCEPT ![p] = Tail(@)]
         /\ UNCHANGED cur_entry
    ELSE /\ cur_entry' = [cur_entry EXCEPT ![p] = @ + 1]
         /\ UNCHANGED recycle_list

(* synchRecycleObj links the node through its first word, which is val. *)
Recycle(p, n) ==
    /\ recycle_list' = [recycle_list EXCEPT ![p] = <<n>> \o @]
    /\ val' = [val EXCEPT ![n] = Junk]
    /\ clean_val' = clean_val \ {n}
    /\ UNCHANGED cur_entry
-----------------------------------------------------------------------------
(* serialEnqueue and serialDequeue *)

(* Lines 64-90.  The link of line 75 is in the line of the old tail, which   *)
(* clNewItems does not get.                                                  *)
serialEnqueue(k) ==
    LET pool == PoolOf(e_combiner)
        last == e_word
        node == AllocatedNode(pool)
    IN
    /\ e_stage = "serving"
    /\ CanAlloc(pool)
    /\ Alloc(pool)
    /\ next' = [next EXCEPT ![node] = Null, ![last] = node]
    /\ val' = [val EXCEPT ![node] = e_param[k]]
    /\ clean_next' = clean_next \ {node, last}
    /\ clean_val' = clean_val \ {node}
    /\ enqueue_counter' = enqueue_counter + 1
    /\ tail' = node
    /\ clNewItems' = clNewItems \union {Line(node)}
    /\ E!Serve(k, node, EnqueueRet)
    /\ UNCHANGED <<aux, deqVars>>

(* Mutant: a dequeue goes as far as the list does. *)
IsEmptyByLink == next[d_word] = Null

(* Line 97. *)
IsEmpty == d_word = aux

(* Mutant: the node that becomes the dummy is recycled. *)
RemovedNodeNew == next[d_word]

(* Lines 98 and 102. *)
RemovedNode == d_word

(* Lines 97-106. *)
serialDequeue(k) ==
    /\ d_stage = "serving"
    /\ IF IsEmpty
       THEN /\ D!Serve(k, d_word, EmptyRet)
            /\ UNCHANGED <<nodeVars, poolVars>>
       ELSE /\ D!Serve(k, next[d_word], val[next[d_word]])
            /\ Recycle(PoolOf(d_combiner), RemovedNode)
            /\ UNCHANGED <<next, clean_next>>
    /\ UNCHANGED <<enqVars, aux, batchVars>>
-----------------------------------------------------------------------------
(* The hooks of the enqueue object *)

(* Mutant: the lines of the batch are not flushed. *)
FlushedLinesNone == {}

FlushedLines == clNewItems

(* clPersist_enqueued_nodes, lines 18-24. *)
FinalPersist ==
    LET flushed == {n \in Nodes : Line(n) \in FlushedLines} IN
    /\ E!FinalPersist
    /\ clean_val' = clean_val \union flushed
    /\ clean_next' = clean_next \union flushed
    /\ UNCHANGED <<aux, deqVars, val, next, poolVars, batchVars>>

ExposedTail == IF enqueue_counter > 0 THEN tail ELSE aux

(* updateAuxField, lines 26-31. *)
AfterPersist ==
    /\ E!AfterPersist
    /\ aux' = ExposedTail
    /\ UNCHANGED <<deqVars, nodeVars, poolVars, batchVars>>

(* The steps of PBCombApplyOp the queue takes no part in. *)
EnqueueCombinerStep ==
    /\ \/ E!FlushState \/ E!Publish \/ E!FlushPointer \/ E!Unlock \/ E!Evict
       \/ \E t \in Threads : E!Return(t)
    /\ UNCHANGED <<aux, deqVars, nodeVars, poolVars, batchVars>>

(* dequeue_struct has no hooks. *)
DequeueCombinerStep ==
    /\ \/ D!Persist \/ D!Unlock \/ D!Evict
       \/ \E t \in Threads : D!Return(t)
    /\ UNCHANGED <<enqVars, aux, nodeVars, poolVars, batchVars>>

Next ==
    \/ \E t \in Threads :
          \/ \E v \in Values : ApplyEnqueue(t, v)
          \/ ApplyDequeue(t)
          \/ BeginEnqueues(t) \/ serialEnqueue(t)
          \/ BeginDequeues(t) \/ serialDequeue(t)
    \/ FinalPersist \/ AfterPersist
    \/ EnqueueCombinerStep \/ DequeueCombinerStep

Spec == Init /\ [][Next]_vars
-----------------------------------------------------------------------------
(* Correctness *)

Phases == {"idle", "pending", "applied", "released"}

Stages == {"free", "serving", "flush_state", "publish", "flush_pointer",
           "after_persist", "unlock"}

TypeOK ==
    /\ e_phase \in [Threads -> Phases] /\ d_phase \in [Threads -> Phases]
    /\ e_param \in [Threads -> Values \union {NoArg}]
    /\ d_param \in [Threads -> {DeqArg, NoArg}]
    /\ e_result \in [Threads -> {EnqueueRet, NoVal}]
    /\ d_result \in [Threads -> Values \union {EmptyRet, NoVal}]
    /\ {e_stage, d_stage} \subseteq Stages
    /\ {e_combiner, d_combiner} \subseteq Threads \union {NoThread}
    /\ {e_word, d_word, aux} \subseteq Nodes
    /\ {e_published, e_durable, d_published, d_durable}
           \subseteq Nodes \union {Unformatted}
    /\ {e_synced, d_synced} \subseteq BOOLEAN
    /\ val \in [Nodes -> Values \union {Junk}]
    /\ next \in [Nodes -> Words]
    /\ clean_val \subseteq Nodes /\ clean_next \subseteq Nodes
    /\ recycle_list \in [Threads -> Seq(Nodes)]
    /\ cur_entry \in [Threads -> 0 .. PoolEntries]
    /\ clNewItems \subseteq {Line(n) : n \in Nodes}
    /\ enqueue_counter \in 0 .. Cardinality(Threads)
    /\ tail \in Words

(* The nodes after a, as far as b. *)
NodesBetween(a, b) ==
    Tail(ListFrom([next EXCEPT ![b] = Null], Null, a, Cardinality(Nodes)))

(* The nodes a crash would rebuild the queue from: the dummy, and the others.*)
Formatted == d_durable # Unformatted /\ e_durable # Unformatted

RecoveredNodes ==
    IF Formatted THEN ToSet(NodesBetween(d_durable, e_durable)) ELSE {}

InQueue == {d_word} \union ToSet(NodesBetween(d_word, e_word))

InPools == UNION {ToSet(recycle_list[t]) : t \in Threads}

(* Every node is in one place: in the list, or in one pool, once.  Nodes are *)
(* linked and unlinked by two combiners at the same time (lines 75, 99-102). *)
NodesAccountedFor ==
    /\ \A t \in Threads : IsInjective(recycle_list[t])
    /\ \A t, u \in Threads :
          t # u => ToSet(recycle_list[t]) \intersect ToSet(recycle_list[u]) = {}
    /\ InPools \intersect InQueue = {}
    /\ InPools \union InQueue =
          {Guard} \union {n \in PoolNodes : n[2] < cur_entry[n[1]]}

(* A node an enqueue combiner may take from the pool cannot be brought back  *)
(* by a crash, although serialDequeue recycles nodes before the dequeue is   *)
(* durable (line 102): the pool is the dequeue combiner's own (line 11), and *)
(* it enqueues only after its dequeue has returned.                          *)
ReusedNodesForgotten ==
    e_combiner # NoThread /\ Formatted =>
        ToSet(recycle_list[PoolOf(e_combiner)])
            \intersect ({d_durable} \union RecoveredNodes) = {}

(* Whatever a dequeue returns has been made durable by its enqueue before    *)
(* (lines 18-31, 97): no dequeue depends on an enqueue a crash could undo.   *)
(* The nodes and the durable last are meant, not the links, which are never  *)
(* flushed between batches (LinksDurable).                                   *)
DequeuesDurableOnly ==
    LET queued == ToSet(NodesBetween(d_word, aux)) IN
    /\ queued \subseteq clean_val
    /\ queued # {} => /\ e_durable # Unformatted
                      /\ queued \subseteq ToSet(NodesBetween(d_word, e_durable))

(* PBqueue is "a persistent queue implementation" (pbcombqueue.h:3), so what *)
(* is between the durable first and the durable last node can be walked      *)
(* after a crash.  Line 75 writes a link that line 84 does not list.         *)
LinksDurable ==
    Formatted =>
        \A n \in ({d_durable} \union RecoveredNodes) \ {e_durable} :
            n \in clean_next

(* What thread t is doing to the queue, seen from outside: its enqueue takes *)
(* effect when updateAuxField moves aux past its node.                       *)
QueuePhase(t) ==
    CASE e_phase[t] = "pending"                           -> "enqueueing"
      [] e_phase[t] = "applied" /\ e_stage # "unlock"     -> "enqueueing"
      [] d_phase[t] = "pending"                           -> "dequeueing"
      [] IsIdle(t)                                        -> "idle"
      [] OTHER                                            -> "done"

(* The values a dequeue can reach. *)
Queued ==
    LET nodes == NodesBetween(d_word, aux)
    IN [k \in DOMAIN nodes |-> val[nodes[k]]]
=============================================================================
