------------------------------- MODULE PWFStack -------------------------------
(* PWFstack, a persistent stack by wait-free combining                       *)
(* (libconcurrent/concurrent/pwfcombstack.c).                                *)
(*                                                                           *)
(* PWFCombStackApplyOp repeats the scheme of PWFCombApplyOp, on records      *)
(* whose state is the head of a linked list.  An attempt first pushes all    *)
(* the nodes of its batch and then serves its pops, so that a pop takes a    *)
(* node of its own batch first; nodes that are pushed and popped again need  *)
(* not be flushed.  Every thread has its own pool: an attempt that notices   *)
(* early that it is stale gives back what it has pushed, one that publishes  *)
(* what it has popped.                                                       *)
(*                                                                           *)
(* What an attempt reads of the records, the bits and the requests does not  *)
(* change unless the attempt is stale, which WaitFreeSessions keeps track    *)
(* of; so these reads are not steps of their own.                            *)
EXTENDS LinkedLists

CONSTANTS
    NThreads,        \* nthreads, the number of threads of the stack
    Values,          \* the values that are pushed
    PopOp,           \* POP, the argument that means pop
    NoArg, ZeroVal, Unformatted,    \* as in WaitFreeSessions
    Null,            \* NULL
    Junk,            \* what is in a node's val while the node is in a pool
    PoolEntries,     \* bound: the nodes of each thread's pool
    NodesPerLine     \* how many nodes share a cache line

Threads == 0 .. NThreads - 1

Nodes == Threads \X (0 .. PoolEntries - 1)
Words == Nodes \union {Null}
Line(n) == <<n[1], n[2] \div NodesPerLine>>

EmptyRet == -1    \* line 50

NodesAssumption ==
    /\ NThreads \in 1 .. 64    \* one cell of a toggle vector
    /\ PoolEntries \in Nat \ {0}
    /\ NodesPerLine \in Nat \ {0}
    /\ Null \notin Nodes /\ Unformatted \notin Words

VARIABLES
    (* the scheme, see WaitFreeSessions *)
    phase, param, word, result, durable, stage, batch,
    (* the nodes: val and next, and those not written since their line was   *)
    (* last flushed                                                          *)
    val, next, clean,
    (* per thread: th_state->pool *)
    recycle_list, cur_entry,
    (* per thread: where its attempt is, and its local variables *)
    at, loc

combVars == <<phase, param, word, result, durable, stage, batch>>
nodeVars == <<val, next, clean>>
poolVars == <<recycle_list, cur_entry>>
vars == <<combVars, nodeVars, poolVars, at, loc>>

Comb == INSTANCE WaitFreeSessions WITH
    Args <- Values \union {PopOp}, RetVals <- Values \union {ZeroVal, EmptyRet},
    InitialVal <- ZeroVal, InitialWord <- Null

NoLocals ==
    [head |-> Null, return_val |-> [k \in Threads |-> ZeroVal], diffs |-> {},
     pops |-> {}, push_counter |-> 0, pop_counter |-> 0, free_list |-> Null,
     clNewItems |-> <<>>, clNewItems_count |-> <<>>]
-----------------------------------------------------------------------------
(* PWFCombStackInit and PWFCombStackThreadStateInit, lines 60-133.           *)
Init ==
    /\ Comb!Init
    /\ val = [n \in Nodes |-> Junk]
    /\ next = [n \in Nodes |-> Null]
    /\ clean = {}
    /\ recycle_list = [t \in Threads |-> <<>>]
    /\ cur_entry = [t \in Threads |-> 0]
    /\ at = [t \in Threads |-> "out"]
    /\ loc = [t \in Threads |-> NoLocals]

(* PWFCombStackPush and PWFCombStackPop; lines 156-162.                      *)
Push(t, v) ==
    /\ Comb!Invoke(t, v)
    /\ UNCHANGED <<nodeVars, poolVars, at, loc>>

Pop(t) ==
    /\ Comb!Invoke(t, PopOp)
    /\ UNCHANGED <<nodeVars, poolVars, at, loc>>

(* Lines 178-207, an attempt that gets as far: the record is copied, the     *)
(* bits are read and S is still the same.                                    *)
Start(t) ==
    /\ \E threads \in SUBSET Comb!Pending : Comb!Start(t, threads)
    /\ at' = [at EXCEPT ![t] = "push"]
    /\ loc' = [loc EXCEPT ![t] = [NoLocals EXCEPT !.head = word,
                                                  !.return_val = result,
                                                  !.diffs = batch'[t]]]
    /\ UNCHANGED <<nodeVars, poolVars>>

(* A step of t that is not one of the scheme. *)
Serving(t, label) ==
    /\ stage[t] \in {"trying", "stale"}
    /\ at[t] = label
    /\ UNCHANGED combVars
-----------------------------------------------------------------------------
(* The pushes, lines 208-248.  The next request is that of thread k.         *)

(* Lines 221-222. *)
SetAside(t) ==
    LET k == Min(loc[t].diffs) IN
    /\ Serving(t, "push")
    /\ loc[t].diffs # {}
    /\ param[k] = PopOp
    /\ loc' = [loc EXCEPT ![t].diffs = @ \ {k}, ![t].pops = @ \union {k}]
    /\ UNCHANGED <<nodeVars, poolVars, at>>

(* synchAllocObj, with a pool of one block. *)
CanAlloc(t) == recycle_list[t] # <<>> \/ cur_entry[t] < PoolEntries

(* Mutant: recycled nodes are taken off the list but not used. *)
AllocatedNodeFresh(t) == <<t, cur_entry[t]>>

AllocatedNode(t) ==
    IF recycle_list[t] # <<>> THEN Head(recycle_list[t]) ELSE <<t, cur_entry[t]>>

Alloc(t) ==
    IF recycle_list[t] # <<>>
    THEN /\ recycle_list' = [recycle_list EXCEPT ![t] = Tail(@)]
         /\ UNCHANGED cur_entry
    ELSE /\ cur_entry' = [cur_entry EXCEPT ![t] = @ + 1]
         /\ UNCHANGED recycle_list

(* Lines 229-244: line l is listed, once.  clNewItems_count[i] of line 236 is*)
(* the first count, whichever line was found, since i is the index of the    *)
(* cell of diffs.                                                            *)
Listed(own, l) ==
    IF l \in ToSet(own.clNewItems)
    THEN [own EXCEPT !.clNewItems_count[1] = @ + 1]
    ELSE [own EXCEPT !.clNewItems = Append(own.clNewItems, l),
                     !.clNewItems_count = Append(own.clNewItems_count, 1)]

(* Lines 18-29 and 228-245. *)
serialPush(t) ==
    LET k == Min(loc[t].diffs)
        n == AllocatedNode(t)
        own == Listed(loc[t], Line(n))
    IN
    /\ Serving(t, "push")
    /\ loc[t].diffs # {}
    /\ param[k] # PopOp
    /\ CanAlloc(t)
    /\ Alloc(t)
    /\ val' = [val EXCEPT ![n] = param[k]]
    /\ next' = [next EXCEPT ![n] = loc[t].head]
    /\ clean' = clean \ {n}
    /\ loc' = [loc EXCEPT ![t] =
                  [own EXCEPT !.diffs = own.diffs \ {k}, !.head = n,
                              !.push_counter = own.push_counter + 1]]
    /\ UNCHANGED at

(* Lines 250-251. *)
EndPushes(t) ==
    /\ Serving(t, "push")
    /\ loc[t].diffs = {}
    /\ at' = [at EXCEPT ![t] = "pop"]
    /\ loc' = [loc EXCEPT ![t].free_list = loc[t].head]
    /\ UNCHANGED <<nodeVars, poolVars>>
-----------------------------------------------------------------------------
(* The pops, lines 252-267.                                                  *)

(* Lines 38-44: a node in a line that was listed.  The counts are of 64 bits *)
(* without sign and wrap below 0; only whether they are 0 matters.           *)
Discounted(own, n) ==
    IF Line(n) \notin ToSet(own.clNewItems) THEN own
    ELSE LET i == CHOOSE j \in DOMAIN own.clNewItems : own.clNewItems[j] = Line(n)
         IN [own EXCEPT !.clNewItems_count[i] = @ - 1]

(* Lines 31-53 and 263; a stale attempt stops after a pop (line 264), see    *)
(* Abandon.                                                                  *)
serialPop(t) ==
    LET k == Min(loc[t].pops)
        n == loc[t].head
        own == [loc[t] EXCEPT !.pops = loc[t].pops \ {k}]
    IN
    /\ Serving(t, "pop")
    /\ stage[t] = "trying"
    /\ loc[t].pops # {}
    /\ loc' = [loc EXCEPT ![t] =
                  IF n = Null THEN [own EXCEPT !.return_val[k] = EmptyRet]
                  ELSE [Discounted(own, n) EXCEPT !.return_val[k] = val[n],
                                                  !.head = next[n],
                                                  !.pop_counter = own.pop_counter + 1]]
    /\ UNCHANGED <<nodeVars, poolVars, at>>

(* The first m nodes of the list from n on. *)
FirstNodes(n, m) == ListFrom(next, Null, n, m)

(* Lines 135-142.  synchRecycleObj links a node through its first word, val. *)
recycleList(t, head, items) ==
    LET nodes == FirstNodes(head, items) IN
    /\ recycle_list' = [recycle_list EXCEPT ![t] = Reverse(nodes) \o @]
    /\ val' = [n \in Nodes |-> IF n \in ToSet(nodes) THEN Junk ELSE val[n]]
    /\ clean' = clean \ ToSet(nodes)
    /\ UNCHANGED <<next, cur_entry>>

Leave(t) ==
    /\ at' = [at EXCEPT ![t] = "out"]
    /\ loc' = [loc EXCEPT ![t] = NoLocals]

(* Mutant: a stale attempt counts its pops instead. *)
ReturnedPops(t) == loc[t].pop_counter

(* Line 326. *)
ReturnedPushes(t) == loc[t].push_counter

(* Lines 264-265, 292 and 323-327: the attempt is stale.  A pop it has done  *)
(* since changes nothing but its own record.                                 *)
Abandon(t) ==
    /\ at[t] = "pop"
    /\ Comb!GiveUp(t)
    /\ recycleList(t, loc[t].free_list, ReturnedPushes(t))
    /\ Leave(t)
-----------------------------------------------------------------------------
(* The end of an attempt, lines 276-322.                                     *)

(* Mutant: lines of one new node are not flushed. *)
FlushedLinesMany(own) ==
    {own.clNewItems[i] : i \in {j \in DOMAIN own.clNewItems :
                                    own.clNewItems_count[j] > 1}}

(* Lines 277-282. *)
FlushedLines(own) ==
    {own.clNewItems[i] : i \in {j \in DOMAIN own.clNewItems :
                                    own.clNewItems_count[j] # 0}}

(* Lines 276-312: the nodes, and the record, are made durable.  What a thread*)
(* that returns later learns from flush and comb_round is left open, see     *)
(* Evict of WaitFreeSessions.                                                *)
Persist(t) ==
    /\ Serving(t, "pop")
    /\ stage[t] = "trying"
    /\ loc[t].pops = {}
    /\ at' = [at EXCEPT ![t] = "cas"]
    /\ clean' = clean \union {n \in Nodes : Line(n) \in FlushedLines(loc[t])}
    /\ UNCHANGED <<val, next, poolVars, loc>>

(* Line 314. *)
Publish(t) ==
    /\ at[t] = "cas"
    /\ Comb!Publish(t, loc[t].head, loc[t].return_val)
    /\ at' = [at EXCEPT ![t] = "sync"]
    /\ UNCHANGED <<nodeVars, poolVars, loc>>

(* Line 314, when another session has been published: the nodes of the       *)
(* attempt go back to no pool.                                               *)
FailToPublish(t) ==
    /\ at[t] = "cas"
    /\ Comb!GiveUp(t)
    /\ Leave(t)
    /\ UNCHANGED <<nodeVars, poolVars>>

(* Lines 315-316. *)
FlushS(t) ==
    /\ at[t] = "sync"
    /\ Comb!Sync(t)
    /\ at' = [at EXCEPT ![t] = "recycle"]
    /\ UNCHANGED <<nodeVars, poolVars, loc>>

(* Lines 317-321. *)
ReturnOwn(t) ==
    /\ at[t] = "recycle"
    /\ Comb!ReturnOwn(t)
    /\ recycleList(t, loc[t].free_list, loc[t].pop_counter)
    /\ Leave(t)

(* Lines 330-338.  The flush of lines 332-336 is an Evict. *)
ReturnServed(t) ==
    /\ Comb!ReturnServed(t)
    /\ UNCHANGED <<nodeVars, poolVars, at, loc>>

Evict ==
    /\ Comb!Evict
    /\ UNCHANGED <<nodeVars, poolVars, at, loc>>

Next ==
    \/ \E t \in Threads :
          \/ \E v \in Values : Push(t, v)
          \/ Pop(t) \/ Start(t)
          \/ SetAside(t) \/ serialPush(t) \/ EndPushes(t) \/ serialPop(t)
          \/ Abandon(t) \/ Persist(t) \/ Publish(t) \/ FailToPublish(t)
          \/ FlushS(t) \/ ReturnOwn(t) \/ ReturnServed(t)
    \/ Evict

Spec == Init /\ [][Next]_vars
-----------------------------------------------------------------------------
(* Correctness *)

TypeOK ==
    /\ phase \in [Threads -> {"idle", "pending", "applied"}]
    /\ param \in [Threads -> Values \union {PopOp, NoArg}]
    /\ result \in [Threads -> Values \union {ZeroVal, EmptyRet}]
    /\ word \in Words /\ durable \in Words \union {Unformatted}
    /\ stage \in [Threads -> {"out", "trying", "stale", "published", "synced"}]
    /\ batch \in [Threads -> SUBSET Threads]
    /\ val \in [Nodes -> Values \union {Junk}]
    /\ next \in [Nodes -> Words]
    /\ clean \subseteq Nodes
    /\ recycle_list \in [Threads -> Seq(Nodes)]
    /\ cur_entry \in [Threads -> 0 .. PoolEntries]
    /\ at \in [Threads -> {"out", "push", "pop", "cas", "sync", "recycle"}]
    /\ \A t \in Threads :
          /\ loc[t].diffs \union loc[t].pops \subseteq Threads
          /\ Len(loc[t].clNewItems) = Len(loc[t].clNewItems_count)
          /\ Len(loc[t].clNewItems) <= NThreads

NodesFrom(w) == FirstNodes(w, Cardinality(Nodes))

Contents(w) ==
    LET nodes == NodesFrom(w) IN [k \in DOMAIN nodes |-> val[nodes[k]]]

InStack(w) == IF w = Unformatted THEN {} ELSE ToSet(NodesFrom(w))

(* The nodes only the attempt of t knows, and those its published session    *)
(* has popped and it has still to give back.                                 *)
Pushed(t) ==
    IF at[t] \in {"push", "pop", "cas"}
    THEN ToSet(FirstNodes(IF at[t] = "push" THEN loc[t].head ELSE loc[t].free_list,
                          loc[t].push_counter))
    ELSE {}

Popped(t) ==
    IF at[t] \in {"sync", "recycle"}
    THEN ToSet(FirstNodes(loc[t].free_list, loc[t].pop_counter)) ELSE {}

InPool(t) == ToSet(recycle_list[t])

(* No node is in two places, of those a node can be in: the stack, the hands *)
(* of one attempt, the pool of one thread; and none that a pool may hand out *)
(* again can be brought back by a crash.  Nodes move between the pools of    *)
(* threads that do not wait for each other, and an attempt gives back nodes  *)
(* by walking a list others may have changed (lines 135-142, 319, 326).      *)
NodesInOnePlace ==
    /\ \A t \in Threads : IsInjective(recycle_list[t])
    /\ \A t \in Threads :
          /\ InPool(t) \intersect (InStack(word) \union InStack(durable)) = {}
          /\ (Pushed(t) \union Popped(t)) \intersect InStack(word) = {}
    /\ \A t, u \in Threads :
          t # u => (InPool(t) \union Pushed(t) \union Popped(t))
                      \intersect (InPool(u) \union Pushed(u) \union Popped(u)) = {}
    /\ \A t \in Threads : InPool(t) \intersect (Pushed(t) \union Popped(t)) = {}

(* PWFstack is "a persistent stack object" (pwfcombstack.h:3): whatever a    *)
(* crash leaves is a whole stack, every node that can be reached from the    *)
(* durable head having its value and its link in the durable memory (lines   *)
(* 276-282).                                                                 *)
WholeAfterCrash == InStack(durable) \subseteq clean

(* What a crash leaves of the stack with head w: nothing if a node is torn.  *)
Recovered(w) ==
    IF w # Unformatted /\ InStack(w) \subseteq clean THEN Contents(w)
    ELSE Unformatted
=============================================================================
