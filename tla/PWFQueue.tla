------------------------------- MODULE PWFQueue -------------------------------
(* PWFqueue, a persistent queue by wait-free combining                       *)
(* (libconcurrent/concurrent/pwfcombqueue.c).                                *)
(*                                                                           *)
(* PWFCombQueueEnqueue and PWFCombQueueDequeue repeat the scheme of          *)
(* PWFCombApplyOp on two objects, Epstate (variables e_...) and Dpstate      *)
(* (d_...).  The queue is a linked list behind a dummy, the head, which is   *)
(* the state word of Dpstate.  An enqueue attempt appends a chain of its own *)
(* to no list: its record says where the chain belongs, `first`, what it     *)
(* begins with, `last`, and what it ends with, `tail`.  The link from first  *)
(* to last is written after the record is published, by whoever comes first: *)
(* the publisher, the next enqueue attempt, or a dequeue that finds the list *)
(* at its end.                                                               *)
(*                                                                           *)
(* clean_val and clean_next hold the nodes whose val, or next, was not       *)
(* written since it was last flushed and drained; flushed[t] those whose     *)
(* next thread t has flushed, but not drained.                               *)
EXTENDS LinkedLists

CONSTANTS
    NThreads,        \* nthreads, the number of threads of the queue
    Values,          \* the values that are enqueued
    NoArg, NoVal, Unformatted,    \* as in WaitFreeSessions
    Null,            \* NULL
    Guard,           \* &queue->guard
    Junk,            \* what is in a node's val before its first use
    PoolEntries      \* bound: the nodes of each thread's pool

Threads == 0 .. NThreads - 1

PoolNodes == Threads \X (0 .. PoolEntries - 1)
Nodes == PoolNodes \union {Guard}
Words == Nodes \union {Null}

EmptyRet == -1    \* GUARD_VALUE
DeqArg   == 0     \* the argument of a dequeue, which nothing reads

(* PWFCombQueueEnqRec, without what the scheme keeps in it. *)
EnqRecs == [first : Words, last : Words, tail : Nodes]

InitialRec == [first |-> Null, last |-> Null, tail |-> Guard]

ASSUME QueueAssumption ==
    /\ NThreads \in 1 .. 64    \* one cell of a toggle vector
    /\ PoolEntries \in Nat \ {0}
    /\ Guard \notin PoolNodes /\ Null \notin Nodes
    /\ Unformatted \notin Nodes \union EnqRecs
    /\ EmptyRet \notin Values

VARIABLES
    (* the scheme for Epstate and Dpstate, see WaitFreeSessions *)
    e_phase, e_param, e_word, e_result, e_durable, e_stage, e_batch,
    d_phase, d_param, d_word, d_result, d_durable, d_stage, d_batch,
    (* the nodes *)
    val, next, clean_val, clean_next, flushed,
    (* per thread: th_state->pool_node, of which nothing is ever recycled *)
    cur_entry,
    (* per thread: where its attempt is, and its local variables *)
    at, loc

enqVars  == <<e_phase, e_param, e_word, e_result, e_durable, e_stage, e_batch>>
deqVars  == <<d_phase, d_param, d_word, d_result, d_durable, d_stage, d_batch>>
nodeVars == <<val, next, clean_val, clean_next, flushed>>
vars == <<enqVars, deqVars, nodeVars, cur_entry, at, loc>>

Enq == INSTANCE WaitFreeSessions WITH
    Args <- Values, RetVals <- {NoVal}, InitialVal <- NoVal,
    Words <- EnqRecs, InitialWord <- InitialRec,
    phase <- e_phase, param <- e_param, word <- e_word, result <- e_result,
    durable <- e_durable, stage <- e_stage, batch <- e_batch

Deq == INSTANCE WaitFreeSessions WITH
    Args <- {DeqArg}, RetVals <- Values \union {EmptyRet, NoVal},
    InitialVal <- NoVal, Words <- Nodes, InitialWord <- Guard,
    phase <- d_phase, param <- d_param, word <- d_word, result <- d_result,
    durable <- d_durable, stage <- d_stage, batch <- d_batch

NoLocals ==
    [rec |-> InitialRec, nodes |-> <<>>, diffs |-> {}, head |-> Guard,
     return_val |-> [k \in Threads |-> NoVal]]
-----------------------------------------------------------------------------
(* PWFCombQueueThreadStateInit and PWFCombQueueInit, lines 58-166.           *)
Init ==
    /\ Enq!Init
    /\ Deq!Init
    /\ val = [n \in Nodes |-> Junk]
    /\ next = [n \in Nodes |-> Null]
    /\ clean_val = {}
    /\ clean_next = {}
    /\ flushed = [t \in Threads |-> {}]
    /\ cur_entry = [t \in Threads |-> 0]
    /\ at = [t \in Threads |-> "out"]
    /\ loc = [t \in Threads |-> NoLocals]

(* The threads of S as the bits of a toggle vector are searched, from the    *)
(* lowest on.                                                                *)
InOrder(S) ==
    CHOOSE s \in [1 .. Cardinality(S) -> S] :
        \A i, j \in DOMAIN s : i < j => s[i] < s[j]

(* A thread makes one call at a time, of either kind. *)
IsIdle(t) == e_phase[t] = "idle" /\ d_phase[t] = "idle"

(* PWFCombQueueEnqueue, lines 183-189. *)
Enqueue(t, v) ==
    /\ IsIdle(t)
    /\ Enq!Invoke(t, v)
    /\ UNCHANGED <<deqVars, nodeVars, cur_entry, at, loc>>

(* PWFCombQueueDequeue, lines 359-366. *)
Dequeue(t) ==
    /\ IsIdle(t)
    /\ Deq!Invoke(t, DeqArg)
    /\ UNCHANGED <<enqVars, nodeVars, cur_entry, at, loc>>

GoTo(t, label) == at' = [at EXCEPT ![t] = label]

Leave(t) ==
    /\ GoTo(t, "out")
    /\ loc' = [loc EXCEPT ![t] = NoLocals]

(* The link of a record: from NULL only. *)
Link(rec) ==
    IF next[rec.first] = Null
    THEN /\ next' = [next EXCEPT ![rec.first] = rec.last]
         /\ clean_next' = clean_next \ {rec.first}
    ELSE UNCHANGED <<next, clean_next>>

(* Mutant: the link is not flushed. *)
FlushNothing(t, n) == UNCHANGED flushed

(* synchFlushPersistentMemory of n->next; thread t has still to drain. *)
Flush(t, n) == flushed' = [flushed EXCEPT ![t] = @ \union {n}]

(* Mutant: the link is left to others. *)
EnqLinkQueueNot(t, rec) == UNCHANGED nodeVars

(* Lines 22-27. *)
EnqLinkQueue(t, rec) ==
    IF rec.first = Null THEN UNCHANGED nodeVars
    ELSE /\ Link(rec)
         /\ Flush(t, rec.first)
         /\ UNCHANGED <<val, clean_val>>

(* Mutant: a dequeue links nothing. *)
DeqLinkQueueNot(t, head) == UNCHANGED nodeVars

(* Lines 29-45.  S is the same before and after the record is read. *)
DeqLinkQueue(t, head) ==
    IF next[head] # Null \/ e_word.first = Null THEN UNCHANGED nodeVars
    ELSE /\ Link(e_word)
         /\ Flush(t, e_word.first)
         /\ UNCHANGED <<val, clean_val>>
-----------------------------------------------------------------------------
(* Enqueues *)

(* Lines 204-230, an attempt that gets as far.                               *)
StartEnqueues(t) ==
    /\ \E threads \in SUBSET Enq!Pending : Enq!Start(t, threads)
    /\ GoTo(t, "link")
    /\ loc' = [loc EXCEPT ![t] = [NoLocals EXCEPT !.rec = e_word,
                                                  !.diffs = e_batch'[t] \ {t}]]
    /\ UNCHANGED <<deqVars, nodeVars, cur_entry>>

(* Line 231: the link of the session before is made good. *)
LinkOwnCopy(t) ==
    /\ at[t] = "link"
    /\ EnqLinkQueue(t, loc[t].rec)
    /\ GoTo(t, "append")
    /\ UNCHANGED <<enqVars, deqVars, cur_entry, loc>>

(* Lines 282-284. *)
RecordOf(rec, nodes) ==
    [first |-> rec.tail, last |-> Head(nodes), tail |-> Last(nodes)]

(* Lines 232-289: a chain of new nodes, the first for the thread's own       *)
(* operation, the others for the rest of the batch.  Nobody else sees them.  *)
AppendBatch(t) ==
    LET served == <<t>> \o InOrder(loc[t].diffs)
        nodes == [i \in DOMAIN served |-> <<t, cur_entry[t] + i - 1>>]
        IndexOf(n) == n[2] - cur_entry[t] + 1
        new == ToSet(nodes)
    IN
    /\ at[t] = "append"
    /\ cur_entry[t] + Len(served) <= PoolEntries
    /\ cur_entry' = [cur_entry EXCEPT ![t] = @ + Len(served)]
    /\ val' = [n \in Nodes |->
                  IF n \in new THEN e_param[served[IndexOf(n)]] ELSE val[n]]
    /\ next' = [n \in Nodes |->
                  IF n \notin new THEN next[n]
                  ELSE IF n = Last(nodes) THEN Null ELSE nodes[IndexOf(n) + 1]]
    /\ clean_val' = clean_val \ new
    /\ clean_next' = clean_next \ new
    /\ flushed' = [k \in Threads |-> flushed[k] \ new]
    /\ loc' = [loc EXCEPT ![t].rec = RecordOf(@, nodes), ![t].nodes = nodes]
    /\ GoTo(t, "flush")
    /\ UNCHANGED <<enqVars, deqVars>>

(* The nodes in the lines that are collected in lines 238-239 and 263-277.   *)
FlushedNodes(t) == ToSet(loc[t].nodes)

(* Lines 291-317: the chain, the link of line 231 and the record become      *)
(* durable.                                                                  *)
PersistEnqueues(t) ==
    /\ at[t] = "flush"
    /\ e_stage[t] = "trying"
    /\ clean_val' = clean_val \union FlushedNodes(t)
    /\ clean_next' = clean_next \union FlushedNodes(t) \union flushed[t]
    /\ flushed' = [flushed EXCEPT ![t] = {}]
    /\ GoTo(t, "cas")
    /\ UNCHANGED <<enqVars, deqVars, val, next, cur_entry, loc>>

(* Lines 292, 297 and 327-329: the attempt is stale.  synchRollback takes    *)
(* its nodes back.                                                           *)
RollBackEnqueues(t) ==
    /\ at[t] = "flush"
    /\ Enq!GiveUp(t)
    /\ cur_entry' = [cur_entry EXCEPT ![t] = @ - Len(loc[t].nodes)]
    /\ Leave(t)
    /\ UNCHANGED <<deqVars, nodeVars>>

(* Line 319. *)
PublishEnqueues(t) ==
    /\ at[t] = "cas"
    /\ Enq!Publish(t, loc[t].rec, [k \in Threads |-> NoVal])
    /\ GoTo(t, "relink")
    /\ UNCHANGED <<deqVars, nodeVars, cur_entry, loc>>

(* Line 319, when another session was published: the nodes are lost.         *)
FailEnqueues(t) ==
    /\ at[t] = "cas"
    /\ Enq!GiveUp(t)
    /\ Leave(t)
    /\ UNCHANGED <<deqVars, nodeVars, cur_entry>>

(* Line 320. *)
LinkPublished(t) ==
    /\ at[t] = "relink"
    /\ EnqLinkQueue(t, loc[t].rec)
    /\ GoTo(t, "sync")
    /\ UNCHANGED <<enqVars, deqVars, cur_entry, loc>>

(* What thread t has flushed is durable once it drains. *)
Drain(t) ==
    /\ clean_next' = clean_next \union flushed[t]
    /\ flushed' = [flushed EXCEPT ![t] = {}]
    /\ UNCHANGED <<val, next, clean_val>>

(* Lines 321-322. *)
SyncEnqueues(t) ==
    /\ at[t] = "sync"
    /\ Enq!Sync(t)
    /\ Drain(t)
    /\ GoTo(t, "return")
    /\ UNCHANGED <<deqVars, cur_entry, loc>>

(* Lines 323-325. *)
ReturnEnqueue(t) ==
    /\ Enq!ReturnOwn(t)
    /\ Leave(t)
    /\ UNCHANGED <<deqVars, nodeVars, cur_entry>>

(* Lines 333-341; the flush of line 336 is an EvictE. *)
EnqueueServed(t) ==
    /\ Enq!ReturnServed(t)
    /\ UNCHANGED <<deqVars, nodeVars, cur_entry, at, loc>>

EvictE ==
    /\ Enq!Evict
    /\ UNCHANGED <<deqVars, nodeVars, cur_entry, at, loc>>
-----------------------------------------------------------------------------
(* Dequeues *)

(* Lines 381-404, an attempt that gets as far. *)
StartDequeues(t) ==
    /\ \E threads \in SUBSET Deq!Pending : Deq!Start(t, threads)
    /\ GoTo(t, "deqlink")
    /\ loc' = [loc EXCEPT ![t] = [NoLocals EXCEPT !.head = d_word,
                                                  !.return_val = d_result,
                                                  !.diffs = d_batch'[t]]]
    /\ UNCHANGED <<enqVars, nodeVars, cur_entry>>

(* Line 405. *)
LinkFirst(t) ==
    /\ at[t] = "deqlink"
    /\ DeqLinkQueue(t, loc[t].head)
    /\ GoTo(t, "serve")
    /\ UNCHANGED <<enqVars, deqVars, cur_entry, loc>>

(* The next request to serve, and lines 424-425 for it. *)
Served(t) == Min(loc[t].diffs)

Answer(t, answer, head) ==
    loc' = [loc EXCEPT ![t].return_val[Served(t)] = answer, ![t].head = head,
                       ![t].diffs = @ \ {Served(t)}]

(* Mutant: the head moves past the node that is returned. *)
TakeNodeBehind(t, node) == Answer(t, val[node], next[node])

(* Line 424, when node is behind the head. *)
TakeNode(t, node) == Answer(t, val[node], node)

(* Lines 420-425, with a node at once. *)
ServeDequeue(t) ==
    LET node == next[loc[t].head] IN
    /\ at[t] = "serve"
    /\ loc[t].diffs # {}
    /\ node # Null
    /\ TakeNode(t, node)
    /\ UNCHANGED <<enqVars, deqVars, nodeVars, cur_entry, at>>

(* Lines 420-421, with none: perhaps a link is missing. *)
LinkNext(t) ==
    /\ at[t] = "serve"
    /\ loc[t].diffs # {}
    /\ next[loc[t].head] = Null
    /\ DeqLinkQueue(t, loc[t].head)
    /\ GoTo(t, "reread")
    /\ UNCHANGED <<enqVars, deqVars, cur_entry, loc>>

(* Lines 422-426: a node after all, or the queue is empty. *)
Reread(t) ==
    LET node == next[loc[t].head] IN
    /\ at[t] = "reread"
    /\ IF node # Null THEN TakeNode(t, node)
       ELSE Answer(t, EmptyRet, loc[t].head)
    /\ GoTo(t, "serve")
    /\ UNCHANGED <<enqVars, deqVars, nodeVars, cur_entry>>

(* Lines 429-455. *)
PersistDequeues(t) ==
    /\ at[t] = "serve"
    /\ loc[t].diffs = {}
    /\ d_stage[t] = "trying"
    /\ Drain(t)
    /\ GoTo(t, "deqcas")
    /\ UNCHANGED <<enqVars, deqVars, cur_entry, loc>>

(* Line 457, or 467: the attempt is stale. *)
FailDequeues(t) ==
    /\ at[t] \in {"serve", "deqcas"}
    /\ at[t] = "serve" => loc[t].diffs = {}
    /\ Deq!GiveUp(t)
    /\ Leave(t)
    /\ UNCHANGED <<enqVars, nodeVars, cur_entry>>

(* Line 457. *)
PublishDequeues(t) ==
    /\ at[t] = "deqcas"
    /\ Deq!Publish(t, loc[t].head, loc[t].return_val)
    /\ GoTo(t, "deqsync")
    /\ UNCHANGED <<enqVars, nodeVars, cur_entry, loc>>

(* Lines 458-459. *)
SyncDequeues(t) ==
    /\ at[t] = "deqsync"
    /\ Deq!Sync(t)
    /\ Drain(t)
    /\ GoTo(t, "return")
    /\ UNCHANGED <<enqVars, cur_entry, loc>>

(* Lines 460-462. *)
ReturnDequeue(t) ==
    /\ Deq!ReturnOwn(t)
    /\ Leave(t)
    /\ UNCHANGED <<enqVars, nodeVars, cur_entry>>

(* Lines 467-476; the flush of line 470 is an EvictD. *)
DequeueServed(t) ==
    /\ Deq!ReturnServed(t)
    /\ UNCHANGED <<enqVars, nodeVars, cur_entry, at, loc>>

EvictD ==
    /\ Deq!Evict
    /\ UNCHANGED <<enqVars, nodeVars, cur_entry, at, loc>>

Next ==
    \/ \E t \in Threads :
          \/ \E v \in Values : Enqueue(t, v)
          \/ StartEnqueues(t) \/ LinkOwnCopy(t) \/ AppendBatch(t)
          \/ PersistEnqueues(t) \/ RollBackEnqueues(t)
          \/ PublishEnqueues(t) \/ FailEnqueues(t) \/ LinkPublished(t)
          \/ SyncEnqueues(t) \/ ReturnEnqueue(t) \/ EnqueueServed(t)
          \/ Dequeue(t) \/ StartDequeues(t) \/ LinkFirst(t)
          \/ ServeDequeue(t) \/ LinkNext(t) \/ Reread(t)
          \/ PersistDequeues(t) \/ PublishDequeues(t) \/ FailDequeues(t)
          \/ SyncDequeues(t) \/ ReturnDequeue(t) \/ DequeueServed(t)
    \/ EvictE \/ EvictD

Spec == Init /\ [][Next]_vars
-----------------------------------------------------------------------------
(* Correctness *)

(* The type of the variables of lines 22-103 of pwfcombqueue.h and of the    *)
(* local variables of an attempt.                                            *)
TypeOK ==
    /\ e_phase \in [Threads -> {"idle", "pending", "applied"}]
    /\ d_phase \in [Threads -> {"idle", "pending", "applied"}]
    /\ e_word \in EnqRecs /\ e_durable \in EnqRecs \union {Unformatted}
    /\ d_word \in Nodes /\ d_durable \in Nodes \union {Unformatted}
    /\ d_result \in [Threads -> Values \union {EmptyRet, NoVal}]
    /\ val \in [Nodes -> Values \union {Junk}]
    /\ next \in [Nodes -> Words]
    /\ clean_val \subseteq Nodes /\ clean_next \subseteq Nodes
    /\ flushed \in [Threads -> SUBSET Nodes]
    /\ cur_entry \in [Threads -> 0 .. PoolEntries]
    /\ at \in [Threads -> {"out", "link", "append", "flush", "cas", "relink",
                           "sync", "return", "deqlink", "serve", "reread",
                           "deqcas", "deqsync"}]
    /\ \A t \in Threads :
          /\ loc[t].rec \in EnqRecs /\ loc[t].head \in Nodes
          /\ loc[t].nodes \in Seq(PoolNodes)
          /\ loc[t].diffs \subseteq Threads
          /\ loc[t].return_val \in [Threads -> Values \union {EmptyRet, NoVal}]

(* The links once that of record rec is made good. *)
MadeGood(rec, links) ==
    [n \in Nodes |-> IF n = rec.first /\ links[n] = Null THEN rec.last ELSE links[n]]

(* The nodes behind n, the link of record rec being made good. *)
NodesBehind(n, rec, links) ==
    LET succ == MadeGood(rec, links)
    IN ListFrom(succ, Null, succ[n], Cardinality(Nodes))

(* The queue: the nodes behind the head. *)
QueuedNodes == NodesBehind(d_word, e_word, next)

Contents == [i \in DOMAIN QueuedNodes |-> val[QueuedNodes[i]]]

(* The arguments of the batch of t, and the nonempty answers to it, in the   *)
(* order it is served.                                                       *)
BatchValues(t) ==
    LET order == <<t>> \o InOrder(e_batch[t] \ {t})
    IN [i \in DOMAIN order |-> e_param[order[i]]]

BatchAnswers(t) ==
    LET order == InOrder({k \in d_batch[t] : loc[t].return_val[k] # EmptyRet})
    IN [i \in DOMAIN order |-> loc[t].return_val[order[i]]]

EnqueuesTakeEffect(t) == e_stage[t] = "trying" /\ e_stage'[t] = "published"
DequeuesTakeEffect(t) == d_stage[t] = "trying" /\ d_stage'[t] = "published"

(* The queue is first in, first out: the values of a batch of enqueues are   *)
(* appended the instant its record is published (line 319), the nonempty     *)
(* answers to a batch of dequeues removed from the front when its record is  *)
(* (line 457), each once and in order, and nothing else changes the queue:   *)
(* not a link that is made good late, nor a stale attempt, nor one whose     *)
(* compare-and-swap has failed.                                              *)
QueueOrder ==
    [][/\ \A t \in Threads :
             /\ EnqueuesTakeEffect(t) => Contents' = Contents \o BatchValues(t)
             /\ DequeuesTakeEffect(t) => Contents = BatchAnswers(t) \o Contents'
       /\ \/ Contents' = Contents
          \/ \E t \in Threads : EnqueuesTakeEffect(t) \/ DequeuesTakeEffect(t)]_vars

(* The links as a crash leaves them. *)
DurableNext == [n \in Nodes |-> IF n \in clean_next THEN next[n] ELSE Null]

AreFormatted == d_durable # Unformatted /\ e_durable # Unformatted

(* The nodes in the order they were enqueued. *)
AllNodes == <<Guard>> \o NodesBehind(Guard, e_word, next)

PositionOf(n) == CHOOSE i \in DOMAIN AllNodes : AllNodes[i] = n

(* The head a crash leaves is no further than the tail a crash leaves: a     *)
(* dequeue returns no value whose enqueue can be lost.                       *)
HeadNotAhead == AreFormatted => PositionOf(d_durable) <= PositionOf(e_durable.tail)

(* Whatever a crash leaves is a whole queue unless the head is ahead: from   *)
(* the durable head, the durable links and that of the durable record lead   *)
(* through nodes with durable values to the durable tail (lines 231, 302,    *)
(* 322).                                                                     *)
WholeAfterCrash ==
    AreFormatted /\ HeadNotAhead =>
        LET from == PositionOf(d_durable)
            upto == PositionOf(e_durable.tail)
            left == NodesBehind(d_durable, e_durable, DurableNext)
        IN /\ Len(left) >= upto - from
           /\ \A i \in 1 .. upto - from :
                 left[i] = AllNodes[from + i] /\ left[i] \in clean_val
=============================================================================
