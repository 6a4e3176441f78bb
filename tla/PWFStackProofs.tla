---------------------------- MODULE PWFStackProofs ----------------------------
(* Proofs about PWFStack: its variables have their types, and no node is in  *)
(* two places.  Where a node is follows from the places as sets (SetsInv)    *)
(* and from the lists they are kept in (ListsInv).                           *)
EXTENDS PWFStack, LinkedListsProofs

RetVals == Values \union {ZeroVal, EmptyRet}
Requests == Values \union {PopOp}
Lines == Threads \X Nat

Building == {"push", "pop", "cas"}
Freeing == {"sync", "recycle"}

Locals ==
    [head : Words, return_val : [Threads -> RetVals], diffs : SUBSET Threads,
     pops : SUBSET Threads, push_counter : Nat, pop_counter : Nat, free_list : Words,
     clNewItems : Seq(Lines), clNewItems_count : Seq(Int)]

(* What is known of the calls and the attempts.                              *)
SchemeInv ==
    /\ phase \in [Threads -> {"idle", "pending", "applied"}]
    /\ param \in [Threads -> Values \union {PopOp, NoArg}]
    /\ stage \in [Threads -> {"out", "trying", "stale", "published", "synced"}]
    /\ batch \in [Threads -> SUBSET Threads]
    /\ at \in [Threads -> {"out"} \union Building \union Freeing]
    /\ \A t \in Threads :
          /\ phase[t] # "idle" => param[t] \in Requests
          /\ \A k \in batch[t] : param[k] \in Requests
          /\ at[t] \in Building <=> stage[t] \in {"trying", "stale"}
          /\ at[t] = "sync" <=> stage[t] = "published"
          /\ at[t] = "recycle" <=> stage[t] = "synced"

DataInv ==
    /\ word \in Words /\ durable \in Words \union {Unformatted}
    /\ result \in [Threads -> RetVals]
    /\ val \in [Nodes -> Values \union {Junk}]
    /\ next \in [Nodes -> Words]
    /\ clean \subseteq Nodes
    /\ recycle_list \in [Threads -> Seq(Nodes)]
    /\ cur_entry \in [Threads -> 0 .. PoolEntries]
    /\ loc \in [Threads -> Locals]

LocalOf(t) ==
    /\ Len(loc[t].clNewItems) = Len(loc[t].clNewItems_count)
    /\ Len(loc[t].clNewItems) + Cardinality(loc[t].diffs) <= NThreads
    /\ \A k \in loc[t].diffs \union loc[t].pops : param[k] \in Requests

LocalInv == \A t \in Threads : LocalOf(t)

(* The nodes in the hands of t: those its attempt has pushed or, once it is  *)
(* published, those it has popped and not given back.                        *)
HeldFrom(t) == IF at[t] = "push" THEN loc[t].head ELSE loc[t].free_list

HeldCount(t) ==
    IF at[t] \in Building THEN loc[t].push_counter
    ELSE IF at[t] \in Freeing THEN loc[t].pop_counter ELSE 0

HeldList(t) == FirstNodes(HeldFrom(t), HeldCount(t))
Held(t) == ToSet(HeldList(t))

(* The places as sets: P[t] the pool of t, H[t] what t holds, W the stack, D *)
(* the stack a crash would leave; a is at.  A thread that has published holds*)
(* nodes the durable stack may have still, until S is flushed.               *)
Apart(P, H, W, D, a) ==
    /\ \A t \in Threads :
          /\ P[t] \intersect (W \union D) = {}
          /\ P[t] \intersect H[t] = {} /\ H[t] \intersect W = {}
          /\ a[t] # "sync" => H[t] \intersect D = {}
    /\ \A t, u \in Threads :
          t # u => (P[t] \union H[t]) \intersect (P[u] \union H[u]) = {}

(* A pool hands out its nodes in order.                                      *)
HandedOut(S, cur) == \A n \in S : n \in Nodes /\ n[2] < cur[n[1]]

AllHandedOut(P, H, W, D, cur) ==
    /\ HandedOut(W, cur) /\ HandedOut(D, cur)
    /\ \A t \in Threads : HandedOut(P[t], cur) /\ HandedOut(H[t], cur)

HaveValues(H, W, a, v) ==
    /\ \A n \in W : v[n] \in Values
    /\ \A t \in Threads : a[t] \in Building => \A n \in H[t] : v[n] \in Values

Sets(P, H, W, D, a, cur, v) ==
    Apart(P, H, W, D, a) /\ AllHandedOut(P, H, W, D, cur) /\ HaveValues(H, W, a, v)

Pools == [t \in Threads |-> InPool(t)]
Hands == [t \in Threads |-> Held(t)]

SetsInv == Sets(Pools, Hands, InStack(word), InStack(durable), at, cur_entry, val)

(* The copy an attempt builds is a whole list, and so is what it leaves of it*)
(* after its pops.                                                           *)
CopyOf(t, w) ==
    /\ IsListFrom(NodesFrom(w), next, Null, w)
    /\ InStack(w) \subseteq Held(t) \union InStack(word)
    /\ at[t] = "push" => loc[t].pop_counter = 0
    /\ at[t] # "push" =>
          /\ loc[t].pop_counter \in 0 .. Len(NodesFrom(w))
          /\ loc[t].head = IF loc[t].pop_counter = Len(NodesFrom(w)) THEN Null
                           ELSE NodesFrom(w)[loc[t].pop_counter + 1]

AttemptOf(t) == stage[t] = "trying" => CopyOf(t, HeldFrom(t))

ListsInv ==
    /\ IsListFrom(NodesFrom(word), next, Null, word)
    /\ \A t \in Threads :
          IsInjective(recycle_list[t]) /\ IsInjective(HeldList(t)) /\ AttemptOf(t)

Inv == NodesAssumption /\ SchemeInv /\ DataInv /\ LocalInv /\ SetsInv /\ ListsInv
-----------------------------------------------------------------------------
(* The places as sets                                                        *)

(* Nothing moves; at may change where it does not matter.                    *)
LEMMA SetsStay ==
    ASSUME NEW P, NEW H, NEW W, NEW D, NEW a, NEW cur, NEW v,
           Sets(P, H, W, D, a, cur, v), NEW b,
           \A t \in Threads : a[t] = "sync" => b[t] = "sync" \/ H[t] = {},
           \A t \in Threads : b[t] \in Building => a[t] \in Building \/ H[t] = {}
    PROVE  Sets(P, H, W, D, b, cur, v)
  <1>1. ASSUME NEW t \in Threads, b[t] # "sync"
        PROVE  H[t] \intersect D = {}
    BY <1>1 DEF Sets, Apart
  <1>2. Apart(P, H, W, D, b)
    BY <1>1 DEF Sets, Apart
  <1>3. HaveValues(H, W, b, v)
    BY DEF Sets, HaveValues
  <1> QED
    BY <1>2, <1>3 DEF Sets

(* Thread t takes node n: one of its pool, or one no pool has handed out.    *)
LEMMA SetsTaken ==
    ASSUME NEW P, NEW H, NEW W, NEW D, NEW a, NEW cur, NEW v,
           Sets(P, H, W, D, a, cur, v),
           NEW t \in Threads, a[t] \in Building, NEW n \in Nodes,
           n \notin W, n \notin D, \A u \in Threads : n \notin H[u],
           \A u \in Threads : u # t => n \notin P[u],
           NEW Q, Q[t] \subseteq P[t], n \notin Q[t],
           \A u \in Threads : u # t => Q[u] = P[u],
           NEW G, G[t] = {n} \union H[t], \A u \in Threads : u # t => G[u] = H[u],
           NEW then, n[2] < then[n[1]],
           cur \in [Threads -> Int], then \in [Threads -> Int],
           \A u \in Threads : cur[u] <= then[u],
           NEW x, x[n] \in Values, \A m \in Nodes : m # n => x[m] = v[m]
    PROVE  Sets(Q, G, W, D, a, then, x)
  <1> USE DEF Sets
  <1>1. ASSUME NEW u \in Threads
        PROVE  /\ Q[u] \subseteq P[u] /\ n \notin Q[u]
               /\ G[u] \subseteq {n} \union H[u]
    BY <1>1
  <1>2. ASSUME NEW u \in Threads
        PROVE  /\ Q[u] \intersect (W \union D) = {}
               /\ Q[u] \intersect G[u] = {} /\ G[u] \intersect W = {}
               /\ a[u] # "sync" => G[u] \intersect D = {}
    BY <1>1 DEF Apart
  <1>3. ASSUME NEW u \in Threads, NEW r \in Threads, u # r
        PROVE  (Q[u] \union G[u]) \intersect (Q[r] \union G[r]) = {}
    <2>1. (P[u] \union H[u]) \intersect (P[r] \union H[r]) = {}
      BY <1>3 DEF Apart
    <2>2. /\ n \notin P[u] \union H[u] \/ u = t
          /\ n \notin P[r] \union H[r] \/ r = t
          /\ u # t => Q[u] = P[u] /\ G[u] = H[u]
          /\ r # t => Q[r] = P[r] /\ G[r] = H[r]
      OBVIOUS
    <2> QED
      BY <1>1, <1>3, <2>1, <2>2
  <1>4. Apart(Q, G, W, D, a)
    BY <1>2, <1>3 DEF Apart
  <1>5. ASSUME NEW S, HandedOut(S, cur)
        PROVE  HandedOut(S, then) /\ HandedOut({n} \union S, then)
    <2>1. \A m \in Nodes : m[1] \in Threads
      BY DEF Nodes
    <2>2. \A m \in S : m \in Nodes /\ m[2] \in Int /\ m[2] < cur[m[1]]
      BY <1>5 DEF HandedOut, Nodes
    <2>3. \A m \in S : cur[m[1]] \in Int /\ then[m[1]] \in Int /\ cur[m[1]] <= then[m[1]]
      BY <2>1, <2>2
    <2>4. \A m \in S : m \in Nodes /\ m[2] < then[m[1]]
      BY <2>2, <2>3
    <2> QED
      BY <2>4 DEF HandedOut
  <1>6. ASSUME NEW u \in Threads
        PROVE  HandedOut(Q[u], then) /\ HandedOut(G[u], then)
    <2>1. HandedOut(P[u], then) /\ HandedOut(H[u], then) /\ HandedOut({n} \union H[u], then)
      BY <1>5 DEF AllHandedOut
    <2> QED
      BY <1>1, <2>1 DEF HandedOut
  <1>7. AllHandedOut(Q, G, W, D, then)
    BY <1>5, <1>6 DEF AllHandedOut
  <1>8. HaveValues(G, W, a, x)
    <2>1. \A m \in W : m \in Nodes /\ m # n
      BY DEF AllHandedOut, HandedOut
    <2>2. \A u \in Threads : \A m \in H[u] : m \in Nodes /\ m # n
      BY DEF AllHandedOut, HandedOut
    <2> QED
      BY <1>1, <2>1, <2>2 DEF HaveValues
  <1> QED
    BY <1>4, <1>7, <1>8

(* Thread t gives back what it holds, to its pool or to none.                *)
LEMMA SetsGiven ==
    ASSUME NEW P, NEW H, NEW W, NEW D, NEW a, NEW cur, NEW v,
           Sets(P, H, W, D, a, cur, v),
           NEW t \in Threads, a[t] # "sync",
           NEW Q, Q[t] \subseteq P[t] \union H[t], \A u \in Threads : u # t => Q[u] = P[u],
           NEW G, G[t] = {}, \A u \in Threads : u # t => G[u] = H[u],
           NEW b, \A u \in Threads : u # t => b[u] = a[u],
           NEW x, \A m \in Nodes : m \notin H[t] => x[m] = v[m]
    PROVE  Sets(Q, G, W, D, b, cur, x)
  <1> USE DEF Sets
  <1>1. ASSUME NEW u \in Threads
        PROVE  Q[u] \union G[u] \subseteq P[u] \union H[u]
    BY <1>1
  <1>2. ASSUME NEW u \in Threads
        PROVE  /\ Q[u] \intersect (W \union D) = {}
               /\ Q[u] \intersect G[u] = {} /\ G[u] \intersect W = {}
               /\ b[u] # "sync" => G[u] \intersect D = {}
    <2>1. CASE u = t
      BY <2>1 DEF Apart
    <2>2. CASE u # t
      BY <2>2 DEF Apart
    <2> QED
      BY <2>1, <2>2
  <1>3. ASSUME NEW u \in Threads, NEW r \in Threads, u # r
        PROVE  (Q[u] \union G[u]) \intersect (Q[r] \union G[r]) = {}
    <2>1. (P[u] \union H[u]) \intersect (P[r] \union H[r]) = {}
      BY <1>3 DEF Apart
    <2> QED
      BY <1>1, <2>1
  <1>4. Apart(Q, G, W, D, b)
    BY <1>2, <1>3 DEF Apart
  <1>5. AllHandedOut(Q, G, W, D, cur)
    <2>1. ASSUME NEW u \in Threads
          PROVE  HandedOut(Q[u], cur) /\ HandedOut(G[u], cur)
      <3>1. HandedOut(P[u] \union H[u], cur)
        BY DEF AllHandedOut, HandedOut
      <3> QED
        BY <1>1, <3>1 DEF HandedOut
    <2> QED
      BY <2>1 DEF AllHandedOut
  <1>6. HaveValues(G, W, b, x)
    <2>1. \A m \in W : m \in Nodes /\ m \notin H[t]
      BY DEF Apart, AllHandedOut, HandedOut
    <2>2. \A u \in Threads : u # t => \A m \in H[u] : m \in Nodes /\ m \notin H[t]
      BY DEF Apart, AllHandedOut, HandedOut
    <2> QED
      BY <2>1, <2>2 DEF HaveValues
  <1> QED
    BY <1>4, <1>5, <1>6

(* Thread t publishes: W and what it holds are divided anew.                 *)
LEMMA SetsPublished ==
    ASSUME NEW P, NEW H, NEW W, NEW D, NEW a, NEW cur, NEW v,
           Sets(P, H, W, D, a, cur, v),
           NEW t \in Threads, a[t] \in Building,
           NEW G, \A u \in Threads : u # t => G[u] = H[u],
           NEW Z, Z \union G[t] \subseteq W \union H[t], Z \intersect G[t] = {},
           NEW b, b[t] = "sync", \A u \in Threads : u # t => b[u] = a[u]
    PROVE  Sets(P, G, Z, D, b, cur, v)
  <1> USE DEF Sets
  <1>1. ASSUME NEW u \in Threads
        PROVE  /\ P[u] \intersect (Z \union D) = {}
               /\ P[u] \intersect G[u] = {} /\ G[u] \intersect Z = {}
               /\ b[u] # "sync" => G[u] \intersect D = {}
    <2>1. P[u] \intersect (W \union H[t]) = {}
      <3>1. CASE u = t
        BY <3>1 DEF Apart
      <3>2. CASE u # t
        BY <3>2 DEF Apart
      <3> QED
        BY <3>1, <3>2
    <2>2. CASE u = t
      BY <2>1, <2>2 DEF Apart
    <2>3. CASE u # t
      <3>1. H[u] \intersect (W \union H[t]) = {}
        BY <2>3 DEF Apart
      <3>2. G[u] = H[u] /\ b[u] = a[u]
        BY <2>3
      <3> QED
        BY <2>1, <3>1, <3>2 DEF Apart
    <2> QED
      BY <2>2, <2>3
  <1>2. ASSUME NEW u \in Threads, u # t
        PROVE  (P[u] \union H[u]) \intersect (P[t] \union G[t]) = {}
    <2>1. /\ (P[u] \union H[u]) \intersect (P[t] \union H[t]) = {}
          /\ (P[u] \union H[u]) \intersect W = {}
      BY <1>2 DEF Apart
    <2> QED
      BY <2>1
  <1>3. ASSUME NEW u \in Threads, NEW r \in Threads, u # r
        PROVE  (P[u] \union G[u]) \intersect (P[r] \union G[r]) = {}
    <2>1. CASE u = t
      BY <1>2, <1>3, <2>1
    <2>2. CASE r = t
      BY <1>2, <1>3, <2>2
    <2>3. CASE u # t /\ r # t
      <3>1. (P[u] \union H[u]) \intersect (P[r] \union H[r]) = {}
        BY <1>3 DEF Apart
      <3> QED
        BY <2>3, <3>1
    <2> QED
      BY <2>1, <2>2, <2>3
  <1>4. Apart(P, G, Z, D, b)
    BY <1>1, <1>3 DEF Apart
  <1>5. AllHandedOut(P, G, Z, D, cur)
    <2>1. HandedOut(W \union H[t], cur)
      BY DEF AllHandedOut, HandedOut
    <2>2. HandedOut(Z, cur) /\ HandedOut(G[t], cur)
      BY <2>1 DEF HandedOut
    <2> QED
      BY <2>2 DEF AllHandedOut
  <1>6. HaveValues(G, Z, b, v)
    <2>1. \A n \in W \union H[t] : v[n] \in Values
      BY DEF HaveValues
    <2>2. "sync" \notin Building
      BY DEF Building
    <2> QED
      BY <2>1, <2>2 DEF HaveValues
  <1> QED
    BY <1>4, <1>5, <1>6

(* The stack becomes durable.                                                *)
LEMMA SetsSynced ==
    ASSUME NEW P, NEW H, NEW W, NEW D, NEW a, NEW cur, NEW v,
           Sets(P, H, W, D, a, cur, v), NEW b,
           \A t \in Threads : b[t] \in Building => a[t] \in Building
    PROVE  Sets(P, H, W, W, b, cur, v)
  <1>1. Apart(P, H, W, W, b)
    BY DEF Sets, Apart
  <1>2. HaveValues(H, W, b, v) /\ AllHandedOut(P, H, W, W, cur)
    BY DEF Sets, HaveValues, AllHandedOut
  <1> QED
    BY <1>1, <1>2 DEF Sets
-----------------------------------------------------------------------------
(* The local variables of an attempt                                         *)

LEMMA LeastIn ==
    ASSUME NEW S \in SUBSET Threads, S # {}
    PROVE  Min(S) \in S
  <1>1. S \in SUBSET Nat
    BY DEF Threads
  <1>2. \E m \in S : \A k \in S : m <= k
    BY <1>1, LeastNatural
  <1> QED
    BY <1>2 DEF Min

LEMMA LineOfNode ==
    ASSUME NodesAssumption, NEW n \in Nodes
    PROVE  Line(n) \in Lines
  <1>1. n[1] \in Threads /\ n[2] \in Nat /\ NodesPerLine \in Nat \ {0}
    BY DEF Nodes, NodesAssumption
  <1>2. n[2] \div NodesPerLine \in Nat
    BY <1>1
  <1> QED
    BY <1>1, <1>2 DEF Line, Lines

LEMMA FewThreads ==
    ASSUME NodesAssumption, NEW S \in SUBSET Threads
    PROVE  /\ IsFiniteSet(S) /\ Cardinality(S) \in Nat /\ Cardinality(S) <= NThreads
           /\ \A k \in S : Cardinality(S \ {k}) = Cardinality(S) - 1
  <1>1. NThreads \in Nat /\ NThreads >= 1
    BY DEF NodesAssumption
  <1>2. IsFiniteSet(Threads) /\ Cardinality(Threads) = NThreads
    BY <1>1, FS_Interval DEF Threads
  <1>3. IsFiniteSet(S) /\ Cardinality(S) <= NThreads
    BY <1>2, FS_Subset
  <1>4. Cardinality(S) \in Nat
    BY <1>3, FS_CardinalityType
  <1> QED
    BY <1>3, <1>4, FS_RemoveElement

LEMMA NoLocalsAre ==
    ASSUME NodesAssumption
    PROVE  /\ NoLocals \in Locals
           /\ NoLocals.clNewItems = <<>> /\ NoLocals.clNewItems_count = <<>>
           /\ NoLocals.diffs = {} /\ NoLocals.pops = {}
  <1>1. <<>> \in Seq(Lines) /\ <<>> \in Seq(Int)
    OBVIOUS
  <1>2. Null \in Words /\ [k \in Threads |-> ZeroVal] \in [Threads -> RetVals]
    BY DEF Words, RetVals
  <1> QED
    BY <1>1, <1>2 DEF NoLocals, Locals

(* What the list of lines of a push is.                                      *)
SameButLines(own, new) ==
    /\ new.head = own.head /\ new.return_val = own.return_val
    /\ new.diffs = own.diffs /\ new.pops = own.pops
    /\ new.push_counter = own.push_counter /\ new.pop_counter = own.pop_counter
    /\ new.free_list = own.free_list

LEMMA LinesCounted ==
    ASSUME NEW own \in Locals, NEW i \in 1 .. Len(own.clNewItems_count), NEW e \in Int,
           NEW new, new = [own EXCEPT !.clNewItems_count[i] = e]
    PROVE  /\ new \in Locals /\ SameButLines(own, new)
           /\ new.clNewItems = own.clNewItems
           /\ Len(new.clNewItems_count) = Len(own.clNewItems_count)
  <1> DEFINE counts == [own.clNewItems_count EXCEPT ![i] = e]
  <1>1. own.clNewItems_count \in Seq(Int)
    BY DEF Locals
  <1>2. counts \in Seq(Int) /\ Len(counts) = Len(own.clNewItems_count)
    BY <1>1, ExceptSeq
  <1>3. new = [own EXCEPT !.clNewItems_count = counts]
    OBVIOUS
  <1> HIDE DEF counts
  <1> QED
    BY <1>2, <1>3 DEF Locals, SameButLines

LEMMA ListedIs ==
    ASSUME NEW own \in Locals, Len(own.clNewItems) = Len(own.clNewItems_count),
           NEW l \in Lines
    PROVE  /\ Listed(own, l) \in Locals /\ SameButLines(own, Listed(own, l))
           /\ Len(Listed(own, l).clNewItems) = Len(Listed(own, l).clNewItems_count)
           /\ Len(Listed(own, l).clNewItems) <= Len(own.clNewItems) + 1
  <1>1. /\ own.clNewItems \in Seq(Lines) /\ own.clNewItems_count \in Seq(Int)
        /\ Len(own.clNewItems) \in Nat
    BY DEF Locals
  <1>2. CASE l \in ToSet(own.clNewItems)
    <2>1. 1 \in 1 .. Len(own.clNewItems_count)
      BY <1>1, <1>2, InjectiveSeq
    <2>2. own.clNewItems_count[1] + 1 \in Int
      BY <1>1, <2>1
    <2>3. PICK e : e = own.clNewItems_count[1] + 1
      OBVIOUS
    <2>4. Listed(own, l) = [own EXCEPT !.clNewItems_count[1] = e]
      BY <1>2, <2>3 DEF Listed
    <2>5. e \in Int
      BY <2>2, <2>3
    <2>6. /\ Listed(own, l) \in Locals /\ SameButLines(own, Listed(own, l))
          /\ Listed(own, l).clNewItems = own.clNewItems
          /\ Len(Listed(own, l).clNewItems_count) = Len(own.clNewItems_count)
      BY <2>1, <2>4, <2>5, LinesCounted
    <2> QED
      BY <1>1, <2>6
  <1>3. CASE l \notin ToSet(own.clNewItems)
    <2>1. /\ Append(own.clNewItems, l) \in Seq(Lines)
          /\ Append(own.clNewItems_count, 1) \in Seq(Int)
          /\ Len(Append(own.clNewItems, l)) = Len(own.clNewItems) + 1
          /\ Len(Append(own.clNewItems_count, 1)) = Len(own.clNewItems) + 1
      BY <1>1, PutLast
    <2>2. Listed(own, l) = [own EXCEPT !.clNewItems = Append(own.clNewItems, l),
                                       !.clNewItems_count = Append(own.clNewItems_count, 1)]
      BY <1>3 DEF Listed
    <2>3. PICK a, b : a = Append(own.clNewItems, l) /\ b = Append(own.clNewItems_count, 1)
      OBVIOUS
    <2>4. /\ a \in Seq(Lines) /\ b \in Seq(Int)
          /\ Listed(own, l) = [own EXCEPT !.clNewItems = a, !.clNewItems_count = b]
      BY <2>1, <2>2, <2>3
    <2>5. /\ Listed(own, l) \in Locals /\ SameButLines(own, Listed(own, l))
          /\ Listed(own, l).clNewItems = a /\ Listed(own, l).clNewItems_count = b
      BY <2>4 DEF Locals, SameButLines
    <2> QED
      BY <1>1, <2>1, <2>3, <2>5
  <1> QED
    BY <1>2, <1>3

LEMMA DiscountedIs ==
    ASSUME NEW own \in Locals, Len(own.clNewItems) = Len(own.clNewItems_count),
           NEW n \in Nodes
    PROVE  /\ Discounted(own, n) \in Locals /\ SameButLines(own, Discounted(own, n))
           /\ Discounted(own, n).clNewItems = own.clNewItems
           /\ Len(Discounted(own, n).clNewItems_count) = Len(own.clNewItems_count)
  <1>1. own.clNewItems \in Seq(Lines) /\ own.clNewItems_count \in Seq(Int)
    BY DEF Locals
  <1>2. CASE Line(n) \notin ToSet(own.clNewItems)
    BY <1>2 DEF Discounted, SameButLines
  <1>3. CASE Line(n) \in ToSet(own.clNewItems)
    <2> DEFINE i == CHOOSE j \in DOMAIN own.clNewItems : own.clNewItems[j] = Line(n)
    <2>1. \E j \in DOMAIN own.clNewItems : own.clNewItems[j] = Line(n)
      BY <1>1, <1>3, InjectiveSeq
    <2>2. i \in DOMAIN own.clNewItems
      BY <2>1
    <2>3. Discounted(own, n) =
             [own EXCEPT !.clNewItems_count[i] = own.clNewItems_count[i] - 1]
      BY <1>3 DEF Discounted
    <2> HIDE DEF i
    <2>4. i \in 1 .. Len(own.clNewItems_count)
      BY <1>1, <2>2
    <2>5. PICK e : e = own.clNewItems_count[i] - 1
      OBVIOUS
    <2>6. e \in Int /\ Discounted(own, n) = [own EXCEPT !.clNewItems_count[i] = e]
      BY <1>1, <2>3, <2>4, <2>5
    <2> QED
      BY <2>4, <2>6, LinesCounted
  <1> QED
    BY <1>2, <1>3
-----------------------------------------------------------------------------
(* The lists of a state                                                      *)

LEMMA NodesFinite ==
    ASSUME NodesAssumption
    PROVE  IsFiniteSet(Nodes) /\ Cardinality(Nodes) \in Nat
  <1>1. PoolEntries - 1 \in Int
    BY DEF NodesAssumption
  <1>2. IsFiniteSet(0 .. PoolEntries - 1) /\ IsFiniteSet(Threads)
    BY <1>1, FS_Interval, FewThreads
  <1>3. IsFiniteSet(Nodes)
    BY <1>2, FS_Product DEF Nodes
  <1> QED
    BY <1>3, FS_CardinalityType

LEMMA LinksAreLinked ==
    ASSUME NodesAssumption, NEW link \in [Nodes -> Words]
    PROVE  /\ DOMAIN link = Nodes /\ IsLinked(link, Null) /\ Null \notin DOMAIN link
           /\ IsFiniteSet(DOMAIN link) /\ Cardinality(DOMAIN link) <= Cardinality(Nodes)
           /\ DOMAIN link \union {Null} = Words
  <1>1. DOMAIN link = Nodes
    OBVIOUS
  <1> QED
    BY <1>1, NodesFinite DEF IsLinked, NodesAssumption, Words

(* A whole list is what its nodes are found to be.                           *)
LEMMA WholeList ==
    ASSUME NodesAssumption, NEW link \in [Nodes -> Words], NEW w, NEW s,
           IsListFrom(s, link, Null, w)
    PROVE  ListFrom(link, Null, w, Cardinality(Nodes)) = s
  BY LinksAreLinked, NodesFinite, ListFound

LEMMA StateLists ==
    ASSUME NodesAssumption, DataInv
    PROVE  /\ \A w \in Words : \A m \in Nat :
                 /\ FirstNodes(w, m) \in Seq(Nodes)
                 /\ ToSet(FirstNodes(w, m)) \subseteq Nodes
           /\ \A w \in Words : /\ NodesFrom(w) \in Seq(Nodes)
                               /\ InStack(w) = ToSet(NodesFrom(w))
                               /\ InStack(w) \subseteq Nodes
           /\ \A t \in Threads :
                 /\ HeldFrom(t) \in Words /\ HeldCount(t) \in Nat
                 /\ HeldList(t) \in Seq(Nodes) /\ Held(t) \subseteq Nodes
  <1>1. ASSUME NEW w \in Words, NEW m \in Nat
        PROVE  /\ FirstNodes(w, m) \in Seq(Nodes)
               /\ ToSet(FirstNodes(w, m)) \subseteq Nodes
    <2>1. /\ next \in [Nodes -> Words] /\ DOMAIN next = Nodes /\ IsLinked(next, Null)
          /\ DOMAIN next \union {Null} = Words
      BY LinksAreLinked DEF DataInv
    <2>2. w \in DOMAIN next \union {Null}
      BY <2>1
    <2>3. /\ ListFrom(next, Null, w, m) \in Seq(DOMAIN next)
          /\ ToSet(ListFrom(next, Null, w, m)) \subseteq DOMAIN next
      BY <2>1, <2>2, WalkFindsNodes
    <2> QED
      BY <2>1, <2>3 DEF FirstNodes
  <1>2. ASSUME NEW w \in Words
        PROVE  /\ NodesFrom(w) \in Seq(Nodes) /\ InStack(w) = ToSet(NodesFrom(w))
               /\ InStack(w) \subseteq Nodes
    <2>1. w # Unformatted
      BY DEF NodesAssumption
    <2> QED
      BY <1>1, <2>1, NodesFinite DEF NodesFrom, InStack
  <1>3. ASSUME NEW t \in Threads
        PROVE  /\ HeldFrom(t) \in Words /\ HeldCount(t) \in Nat
               /\ HeldList(t) \in Seq(Nodes) /\ Held(t) \subseteq Nodes
    <2>1. loc[t] \in Locals
      BY DEF DataInv
    <2>2. HeldFrom(t) \in Words /\ HeldCount(t) \in Nat
      BY <2>1 DEF HeldFrom, HeldCount, Locals
    <2> QED
      BY <1>1, <2>2 DEF HeldList, Held
  <1> QED
    BY <1>1, <1>2, <1>3

LEMMA AttemptStays ==
    ASSUME NEW u \in Threads, AttemptOf(u), next' = next, word' = word,
           at'[u] = at[u], loc'[u] = loc[u], stage'[u] = "trying" => stage[u] = "trying"
    PROVE  AttemptOf(u)'
  <1>1. HeldFrom(u)' = HeldFrom(u) /\ Held(u)' = Held(u)
    BY DEF HeldFrom, HeldCount, HeldList, Held, FirstNodes
  <1>2. PICK w : w = HeldFrom(u)
    OBVIOUS
  <1>3. /\ NodesFrom(w)' = NodesFrom(w) /\ InStack(w)' = InStack(w)
        /\ InStack(word)' = InStack(word)
    BY DEF NodesFrom, InStack, FirstNodes
  <1>4. CopyOf(u, w) => CopyOf(u, w)'
    BY <1>1, <1>3 DEF CopyOf
  <1> QED
    BY <1>1, <1>2, <1>4 DEF AttemptOf

(* A step of t that moves no node.                                           *)
LEMMA QuietStep ==
    ASSUME Inv, NEW t \in Threads,
           UNCHANGED <<word, durable, val, next, recycle_list, cur_entry>>,
           \A u \in Threads :
              u # t => at'[u] = at[u] /\ loc'[u] = loc[u] /\ stage'[u] = stage[u],
           HeldList(t)' = HeldList(t), AttemptOf(t)',
           at[t] = "sync" => at'[t] = "sync",
           at'[t] \in Building => at[t] \in Building \/ HeldList(t) = <<>>
    PROVE  SetsInv' /\ ListsInv'
  <1>1. ASSUME NEW u \in Threads
        PROVE  HeldList(u)' = HeldList(u) /\ Held(u)' = Held(u) /\ InPool(u)' = InPool(u)
    <2>1. HeldList(u)' = HeldList(u)
      BY DEF HeldList, HeldFrom, HeldCount, FirstNodes
    <2> QED
      BY <2>1 DEF Held, InPool
  <1>2. Hands' = Hands /\ Pools' = Pools
    BY <1>1 DEF Hands, Pools
  <1>3. /\ NodesFrom(word)' = NodesFrom(word) /\ InStack(word)' = InStack(word)
        /\ InStack(durable)' = InStack(durable)
    BY DEF NodesFrom, InStack, FirstNodes
  <1>4. \A u \in Threads : at[u] = "sync" => at'[u] = "sync"
    OBVIOUS
  <1>5. \A u \in Threads : at'[u] \in Building => at[u] \in Building \/ Hands[u] = {}
    <2>1. HeldList(t) = <<>> => Hands[t] = {}
      BY DEF Hands, Held, ToSet
    <2> QED
      BY <2>1
  <1>6. Sets(Pools, Hands, InStack(word), InStack(durable), at', cur_entry, val)
    <2>1. Sets(Pools, Hands, InStack(word), InStack(durable), at, cur_entry, val)
      BY DEF Inv, SetsInv
    <2> QED
      BY <1>4, <1>5, <2>1, SetsStay
  <1>7. SetsInv'
    BY <1>2, <1>3, <1>6 DEF SetsInv
  <1>8. ASSUME NEW u \in Threads
        PROVE  AttemptOf(u)'
    BY AttemptStays DEF Inv, ListsInv
  <1> QED
    BY <1>1, <1>3, <1>7, <1>8 DEF Inv, ListsInv
-----------------------------------------------------------------------------
(* The scheme                                                                *)

LEMMA InitKeepsInv ==
    ASSUME NodesAssumption, Init
    PROVE  Inv
  <1> USE DEF Init
  <1>1. SchemeInv
    BY DEF Comb!Init, SchemeInv, Building, Freeing
  <1>2. <<>> \in Seq(Nodes) /\ 0 \in 0 .. PoolEntries
    BY DEF NodesAssumption
  <1>3. ZeroVal \in RetVals /\ Null \in Words
    BY DEF RetVals, Words
  <1>4. DataInv
    BY <1>2, <1>3, NoLocalsAre DEF Comb!Init, DataInv
  <1>5. LocalInv
    <2>1. Len(<<>>) = 0 /\ Cardinality({}) = 0
      BY FS_EmptySet
    <2>2. NThreads \in Nat
      BY DEF NodesAssumption
    <2>3. ASSUME NEW t \in Threads
          PROVE  /\ loc[t].clNewItems = <<>> /\ loc[t].clNewItems_count = <<>>
                 /\ loc[t].diffs = {} /\ loc[t].pops = {}
      BY NoLocalsAre
    <2>4. ASSUME NEW t \in Threads
          PROVE  LocalOf(t)
      <3>1. Len(loc[t].clNewItems) = 0 /\ Len(loc[t].clNewItems_count) = 0
        BY <2>1, <2>3
      <3>2. Cardinality(loc[t].diffs) = 0 /\ loc[t].diffs \union loc[t].pops = {}
        BY <2>1, <2>3
      <3> QED
        BY <2>2, <3>1, <3>2 DEF LocalOf
    <2> QED
      BY <2>4 DEF LocalInv
  <1>6. ASSUME NEW t \in Threads
        PROVE  HeldList(t) = <<>> /\ InPool(t) = {}
    <2>1. HeldFrom(t) \in Words /\ HeldCount(t) = 0
      BY <1>4, StateLists DEF HeldCount, Building, Freeing
    <2>2. next \in [Nodes -> Words]
      BY <1>4 DEF DataInv
    <2>3. HeldList(t) = <<>>
      BY <2>1, <2>2, LinksAreLinked, WalkNothing DEF HeldList, FirstNodes
    <2> QED
      BY <2>3 DEF InPool, ToSet
  <1>7. NodesFrom(word) = <<>>
    BY NodesFinite, WalkNothing DEF Comb!Init, NodesFrom, FirstNodes
  <1>8. InStack(word) = {} /\ InStack(durable) = {}
    BY <1>7 DEF Comb!Init, InStack, ToSet
  <1>9. Pools = [t \in Threads |-> {}] /\ Hands = [t \in Threads |-> {}]
    BY <1>6 DEF Pools, Hands, Held, ToSet
  <1>10. SetsInv
    BY <1>8, <1>9 DEF SetsInv, Sets, Apart, AllHandedOut, HandedOut, HaveValues
  <1>11. ListsInv
    <2>1. IsListFrom(NodesFrom(word), next, Null, word)
      BY <1>7, ListEmpty DEF Comb!Init
    <2>2. IsInjective(<<>>)
      BY DEF IsInjective
    <2>3. \A t \in Threads : stage[t] = "out" /\ recycle_list[t] = <<>>
      BY DEF Comb!Init
    <2> QED
      BY <1>6, <2>1, <2>2, <2>3 DEF ListsInv, AttemptOf
  <1> QED
    BY <1>1, <1>4, <1>5, <1>10, <1>11 DEF Inv

LEMMA NextKeepsScheme ==
    ASSUME SchemeInv, Next
    PROVE  SchemeInv'
  <1> USE DEF SchemeInv, Building, Freeing, Comb!callVars, Comb!recordVars
  <1>1. ASSUME NEW t \in Threads, NEW v \in Values, Push(t, v)
        PROVE  SchemeInv'
    BY <1>1 DEF Push, Comb!Invoke, Requests
  <1>2. ASSUME NEW t \in Threads, Pop(t)
        PROVE  SchemeInv'
    BY <1>2 DEF Pop, Comb!Invoke, Requests
  <1>3. ASSUME NEW t \in Threads, Start(t)
        PROVE  SchemeInv'
    <2>1. PICK threads \in SUBSET Comb!Pending : Comb!Start(t, threads)
      BY <1>3 DEF Start
    <2>2. \A k \in threads : k \in Threads /\ param[k] \in Requests
      BY DEF Comb!Pending
    <2>3. /\ stage[t] = "out" /\ stage' = [stage EXCEPT ![t] = "trying"]
          /\ at' = [at EXCEPT ![t] = "push"] /\ phase' = phase /\ param' = param
          /\ batch' = [batch EXCEPT ![t] = threads]
      BY <1>3, <2>1 DEF Start, Comb!Start
    <2>4. /\ batch' \in [Threads -> SUBSET Threads]
          /\ \A u \in Threads : \A k \in batch'[u] : param[k] \in Requests
      BY <2>2, <2>3
    <2> QED
      BY <2>3, <2>4
  <1>4. ASSUME NEW t \in Threads,
               SetAside(t) \/ serialPush(t) \/ EndPushes(t) \/ serialPop(t) \/ Persist(t)
        PROVE  SchemeInv'
    <2>1. /\ UNCHANGED combVars
          /\ at' = at \/ /\ at[t] \in Building
                         /\ at' = [at EXCEPT ![t] = "pop"] \/ at' = [at EXCEPT ![t] = "cas"]
      BY <1>4 DEF SetAside, serialPush, EndPushes, serialPop, Persist, Serving
    <2> QED
      BY <2>1 DEF combVars
  <1>5. ASSUME NEW t \in Threads, Abandon(t) \/ FailToPublish(t)
        PROVE  SchemeInv'
    BY <1>5 DEF Abandon, FailToPublish, Leave, Comb!GiveUp
  <1>6. ASSUME NEW t \in Threads, Publish(t)
        PROVE  SchemeInv'
    <2>1. /\ stage[t] = "trying" /\ param' = param
          /\ phase' = [k \in Threads |-> IF k \in batch[t] THEN "applied" ELSE phase[k]]
          /\ stage' = [k \in Threads |->
                          IF k = t THEN "published"
                          ELSE IF stage[k] = "trying" THEN "stale" ELSE stage[k]]
          /\ batch' = [k \in Threads |->
                          IF k = t \/ stage[k] = "trying" THEN {} ELSE batch[k]]
          /\ at[t] = "cas" /\ at' = [at EXCEPT ![t] = "sync"]
      BY <1>6 DEF Publish, Comb!Publish
    <2>2. ASSUME NEW k \in Threads
          PROVE  /\ phase'[k] \in {"idle", "pending", "applied"}
                 /\ phase'[k] # "idle" => param'[k] \in Requests
      <3>1. k \in batch[t] => param[k] \in Requests
        BY <2>1
      <3> QED
        BY <2>1, <3>1
    <2>3. ASSUME NEW k \in Threads
          PROVE  /\ stage'[k] \in {"out", "trying", "stale", "published", "synced"}
                 /\ batch'[k] \in SUBSET Threads /\ batch'[k] \subseteq batch[k]
                 /\ at'[k] \in Building <=> stage'[k] \in {"trying", "stale"}
                 /\ at'[k] = "sync" <=> stage'[k] = "published"
                 /\ at'[k] = "recycle" <=> stage'[k] = "synced"
      BY <2>1
    <2> QED
      BY <2>1, <2>2, <2>3
  <1>7. ASSUME NEW t \in Threads, FlushS(t)
        PROVE  SchemeInv'
    BY <1>7 DEF FlushS, Comb!Sync
  <1>8. ASSUME NEW t \in Threads, ReturnOwn(t)
        PROVE  SchemeInv'
    BY <1>8 DEF ReturnOwn, Leave, Comb!ReturnOwn
  <1>9. ASSUME NEW t \in Threads, ReturnServed(t)
        PROVE  SchemeInv'
    BY <1>9 DEF ReturnServed, Comb!ReturnServed
  <1>10. ASSUME Evict
         PROVE  SchemeInv'
    BY <1>10 DEF Evict, Comb!Evict
  <1> QED
    BY <1>1, <1>2, <1>3, <1>4, <1>5, <1>6, <1>7, <1>8, <1>9, <1>10 DEF Next
-----------------------------------------------------------------------------
(* What a step does to the nodes                                             *)

OthersStay(t) ==
    \A u \in Threads :
        u # t => at'[u] = at[u] /\ loc'[u] = loc[u] /\ stage'[u] = stage[u]

LEMMA OthersLists ==
    ASSUME NEW t \in Threads, OthersStay(t), next' = next
    PROVE  \A u \in Threads : u # t => HeldList(u)' = HeldList(u)
  BY DEF OthersStay, HeldList, HeldFrom, HeldCount, FirstNodes

(* The node an allocation returns is in no other place.                      *)
LEMMA TakenNode ==
    ASSUME Inv, NEW t \in Threads, CanAlloc(t), Alloc(t), NEW n, n = AllocatedNode(t)
    PROVE  /\ n \in Nodes
           /\ n \notin InStack(word) /\ n \notin InStack(durable)
           /\ \A u \in Threads : n \notin Held(u)
           /\ \A u \in Threads : u # t => n \notin InPool(u)
           /\ InPool(t)' \subseteq InPool(t) /\ n \notin InPool(t)'
           /\ \A u \in Threads : u # t => InPool(u)' = InPool(u)
           /\ recycle_list' \in [Threads -> Seq(Nodes)]
           /\ \A u \in Threads : IsInjective(recycle_list'[u])
           /\ cur_entry' \in [Threads -> 0 .. PoolEntries]
           /\ n[2] < cur_entry'[n[1]]
           /\ \A u \in Threads : cur_entry[u] <= cur_entry'[u]
  <1>1. /\ Sets(Pools, Hands, InStack(word), InStack(durable), at, cur_entry, val)
        /\ \A u \in Threads : Pools[u] = InPool(u) /\ Hands[u] = Held(u)
    BY DEF Inv, SetsInv, Pools, Hands
  <1>2. /\ recycle_list \in [Threads -> Seq(Nodes)]
        /\ cur_entry \in [Threads -> 0 .. PoolEntries]
        /\ \A u \in Threads : IsInjective(recycle_list[u])
        /\ PoolEntries \in Nat
    BY DEF Inv, DataInv, ListsInv, NodesAssumption
  <1>3. CASE recycle_list[t] # <<>>
    <2>1. /\ n = Head(recycle_list[t])
          /\ recycle_list' = [recycle_list EXCEPT ![t] = Tail(recycle_list[t])]
          /\ cur_entry' = cur_entry
      BY <1>3 DEF AllocatedNode, Alloc
    <2>2. /\ n \in Nodes /\ Tail(recycle_list[t]) \in Seq(Nodes)
          /\ InPool(t) = {n} \union ToSet(Tail(recycle_list[t]))
          /\ IsInjective(Tail(recycle_list[t]))
          /\ n \notin ToSet(Tail(recycle_list[t]))
      BY <1>2, <1>3, <2>1, TakeHead DEF InPool
    <2>3. /\ n \notin InStack(word) /\ n \notin InStack(durable)
          /\ \A u \in Threads : n \notin Held(u)
          /\ \A u \in Threads : u # t => n \notin InPool(u)
      BY <1>1, <2>2 DEF Sets, Apart
    <2>4. n[2] < cur_entry[n[1]]
      BY <1>1, <2>2 DEF Sets, AllHandedOut, HandedOut
    <2>5. InPool(t)' = ToSet(Tail(recycle_list[t]))
      BY <1>2, <2>1 DEF InPool
    <2>6. \A u \in Threads : u # t => InPool(u)' = InPool(u)
      BY <1>2, <2>1 DEF InPool
    <2>7. \A u \in Threads : IsInjective(recycle_list'[u])
      BY <1>2, <2>1, <2>2
    <2>8. recycle_list' \in [Threads -> Seq(Nodes)]
      BY <1>2, <2>1, <2>2
    <2>9. \A u \in Threads : cur_entry[u] <= cur_entry'[u]
      BY <1>2, <2>1
    <2> QED
      BY <1>2, <2>1, <2>2, <2>3, <2>4, <2>5, <2>6, <2>7, <2>8, <2>9
  <1>4. CASE recycle_list[t] = <<>>
    <2>1. /\ n = <<t, cur_entry[t]>> /\ cur_entry[t] < PoolEntries
          /\ recycle_list' = recycle_list
          /\ cur_entry' = [cur_entry EXCEPT ![t] = cur_entry[t] + 1]
      BY <1>4 DEF AllocatedNode, Alloc, CanAlloc
    <2>2. cur_entry[t] \in 0 .. PoolEntries - 1
      BY <1>2, <2>1
    <2>3. n \in Nodes /\ n[1] = t /\ n[2] = cur_entry[t]
      BY <2>1, <2>2 DEF Nodes
    <2>4. ~ (n[2] < cur_entry[n[1]])
      BY <1>2, <2>3
    <2>5. /\ n \notin InStack(word) /\ n \notin InStack(durable)
          /\ \A u \in Threads : n \notin Held(u) /\ n \notin InPool(u)
      BY <1>1, <2>4 DEF Sets, AllHandedOut, HandedOut
    <2>6. \A u \in Threads : InPool(u)' = InPool(u)
      BY <2>1 DEF InPool
    <2>7. /\ cur_entry' \in [Threads -> 0 .. PoolEntries]
          /\ n[2] < cur_entry'[n[1]]
          /\ \A u \in Threads : cur_entry[u] <= cur_entry'[u]
      BY <1>2, <2>1, <2>2, <2>3
    <2> QED
      BY <1>2, <2>1, <2>3, <2>5, <2>6, <2>7
  <1> QED
    BY <1>3, <1>4

(* Thread t gives back the nodes it holds and leaves.                        *)
LEMMA GivenBack ==
    ASSUME Inv, NEW t \in Threads, at[t] # "sync",
           recycleList(t, HeldFrom(t), HeldCount(t)),
           word' = word, durable' = durable, OthersStay(t),
           at'[t] = "out", stage'[t] = "out", loc'[t] \in Locals
    PROVE  /\ recycle_list' \in [Threads -> Seq(Nodes)]
           /\ val' \in [Nodes -> Values \union {Junk}]
           /\ clean' \subseteq Nodes
           /\ SetsInv' /\ ListsInv'
  <1> DEFINE nodes == HeldList(t)
  <1>1. /\ NodesAssumption /\ DataInv /\ SetsInv /\ ListsInv
        /\ recycle_list \in [Threads -> Seq(Nodes)] /\ clean \subseteq Nodes
        /\ val \in [Nodes -> Values \union {Junk}] /\ next \in [Nodes -> Words]
    BY DEF Inv, DataInv
  <1>2. nodes \in Seq(Nodes) /\ ToSet(nodes) = Held(t)
    BY <1>1, StateLists DEF Held
  <1>3. /\ recycle_list' = [recycle_list EXCEPT ![t] = Reverse(nodes) \o recycle_list[t]]
        /\ val' = [n \in Nodes |-> IF n \in ToSet(nodes) THEN Junk ELSE val[n]]
        /\ clean' = clean \ ToSet(nodes)
        /\ next' = next /\ cur_entry' = cur_entry
    BY DEF recycleList, HeldList
  <1> HIDE DEF nodes
  <1>4. Sets(Pools, Hands, InStack(word), InStack(durable), at, cur_entry, val)
    BY <1>1 DEF SetsInv
  <1>5. InPool(t) \intersect Held(t) = {}
    BY <1>4 DEF Sets, Apart, Pools, Hands
  <1>6. /\ Reverse(nodes) \o recycle_list[t] \in Seq(Nodes)
        /\ ToSet(Reverse(nodes) \o recycle_list[t]) = Held(t) \union InPool(t)
        /\ IsInjective(Reverse(nodes) \o recycle_list[t])
    <2>1. recycle_list[t] \in Seq(Nodes)
      BY <1>1
    <2>2. IsInjective(nodes) /\ IsInjective(recycle_list[t])
      BY <1>1 DEF ListsInv, nodes
    <2>3. ToSet(nodes) \intersect ToSet(recycle_list[t]) = {}
      BY <1>2, <1>5 DEF InPool
    <2> QED
      BY <1>2, <2>1, <2>2, <2>3, PutReversed DEF InPool
  <1>7. PICK list : list = Reverse(nodes) \o recycle_list[t]
    OBVIOUS
  <1>8. /\ recycle_list' = [recycle_list EXCEPT ![t] = list]
        /\ list \in Seq(Nodes) /\ ToSet(list) = Held(t) \union InPool(t)
        /\ IsInjective(list)
    BY <1>3, <1>6, <1>7
  <1>9. recycle_list' \in [Threads -> Seq(Nodes)]
    BY <1>1, <1>8
  <1>10. /\ InPool(t)' = InPool(t) \union Held(t)
         /\ \A u \in Threads : u # t => InPool(u)' = InPool(u)
    BY <1>1, <1>8 DEF InPool
  <1>11. \A u \in Threads : u # t => HeldList(u)' = HeldList(u)
    BY <1>3, OthersLists
  <1>12. HeldList(t)' = <<>>
    <2>1. PICK w : w = HeldFrom(t)'
      OBVIOUS
    <2>2. HeldCount(t)' = 0
      BY DEF HeldCount, Building, Freeing
    <2>3. w \in Words
      BY <2>1 DEF HeldFrom, Locals
    <2>4. ListFrom(next, Null, w, 0) = <<>>
      BY <1>1, <2>3, LinksAreLinked, WalkNothing
    <2> QED
      BY <1>3, <2>1, <2>2, <2>4 DEF HeldList, FirstNodes
  <1>13. /\ NodesFrom(word)' = NodesFrom(word) /\ InStack(word)' = InStack(word)
         /\ InStack(durable)' = InStack(durable)
    BY <1>3 DEF NodesFrom, InStack, FirstNodes
  <1>14. SetsInv'
    <2>1. /\ Hands'[t] = {} /\ Pools'[t] \subseteq Pools[t] \union Hands[t]
          /\ \A u \in Threads : u # t => Hands'[u] = Hands[u] /\ Pools'[u] = Pools[u]
      BY <1>10, <1>11, <1>12 DEF Hands, Pools, Held, ToSet
    <2>2. \A m \in Nodes : m \notin Hands[t] => val'[m] = val[m]
      BY <1>2, <1>3 DEF Hands
    <2>3. \A u \in Threads : u # t => at'[u] = at[u]
      BY DEF OthersStay
    <2>4. Sets(Pools', Hands', InStack(word), InStack(durable), at', cur_entry, val')
      BY <1>4, <2>1, <2>2, <2>3, SetsGiven
    <2> QED
      BY <1>3, <1>13, <2>4 DEF SetsInv
  <1>15. ListsInv'
    <2>1. ASSUME NEW u \in Threads
          PROVE  /\ IsInjective(recycle_list'[u]) /\ IsInjective(HeldList(u)')
                 /\ AttemptOf(u)'
      <3>1. CASE u = t
        <4>1. IsInjective(<<>>)
          BY DEF IsInjective
        <4> QED
          BY <1>1, <1>8, <1>12, <3>1, <4>1 DEF AttemptOf
      <3>2. CASE u # t
        <4>1. AttemptOf(u)'
          BY <1>1, <1>3, <3>2, AttemptStays DEF OthersStay, ListsInv
        <4>2. recycle_list'[u] = recycle_list[u]
          BY <1>1, <1>8, <3>2
        <4> QED
          BY <1>1, <1>11, <3>2, <4>1, <4>2 DEF ListsInv
      <3> QED
        BY <3>1, <3>2
    <2>2. IsListFrom(NodesFrom(word), next, Null, word)'
      BY <1>1, <1>3, <1>13 DEF ListsInv
    <2> QED
      BY <2>1, <2>2 DEF ListsInv
  <1>16. val' \in [Nodes -> Values \union {Junk}] /\ clean' \subseteq Nodes
    BY <1>1, <1>3
  <1> QED
    BY <1>9, <1>14, <1>15, <1>16
-----------------------------------------------------------------------------
(* The steps of an attempt                                                   *)

Kept == DataInv' /\ LocalInv' /\ SetsInv' /\ ListsInv'

LEMMA CallSteps ==
    ASSUME Inv, NEW t \in Threads,
           \/ \E v \in Values : Push(t, v)
           \/ Pop(t) \/ ReturnServed(t)
    PROVE  Kept
  <1>1. /\ UNCHANGED <<word, result, durable, stage, val, next, clean, recycle_list,
                       cur_entry, at, loc>>
        /\ param' = param \/ \E a \in Requests : param' = [param EXCEPT ![t] = a]
    BY DEF Push, Pop, ReturnServed, Comb!Invoke, Comb!ReturnServed, Comb!recordVars,
           nodeVars, poolVars, Requests
  <1>2. DataInv'
    BY <1>1 DEF Inv, DataInv
  <1>3. LocalInv'
    <2>1. \A k \in Threads : param[k] \in Requests => param'[k] \in Requests
      BY <1>1 DEF Inv, SchemeInv
    <2>2. \A u \in Threads : loc[u].diffs \union loc[u].pops \subseteq Threads
      BY DEF Inv, DataInv, Locals
    <2> QED
      BY <1>1, <2>1, <2>2 DEF Inv, LocalInv, LocalOf
  <1>4. HeldList(t)' = HeldList(t)
    BY <1>1 DEF HeldList, HeldFrom, HeldCount, FirstNodes
  <1>5. AttemptOf(t)'
    BY <1>1, AttemptStays DEF Inv, ListsInv
  <1>6. SetsInv' /\ ListsInv'
    BY <1>1, <1>4, <1>5, QuietStep
  <1> QED
    BY <1>2, <1>3, <1>6 DEF Kept

(* The local variables of t only.                                            *)
LEMMA OwnLocals ==
    ASSUME Inv, NEW t \in Threads, param' = param, NEW new \in Locals,
           loc' = [loc EXCEPT ![t] = new],
           Len(new.clNewItems) = Len(new.clNewItems_count),
           Len(new.clNewItems) + Cardinality(new.diffs) <= NThreads,
           \A k \in new.diffs \union new.pops : param[k] \in Requests
    PROVE  loc' \in [Threads -> Locals] /\ LocalInv' /\ loc'[t] = new
  <1>1. loc \in [Threads -> Locals] /\ loc' \in [Threads -> Locals] /\ loc'[t] = new
    BY DEF Inv, DataInv
  <1>2. ASSUME NEW u \in Threads
        PROVE  LocalOf(u)'
    <2>1. CASE u = t
      BY <1>1, <2>1 DEF LocalOf
    <2>2. CASE u # t
      <3>1. loc'[u] = loc[u]
        BY <1>1, <2>2
      <3> QED
        BY <3>1 DEF Inv, LocalInv, LocalOf
    <2> QED
      BY <2>1, <2>2
  <1> QED
    BY <1>1, <1>2 DEF LocalInv

LEMMA StartStep ==
    ASSUME Inv, NEW t \in Threads, Start(t)
    PROVE  Kept
  <1>1. PICK threads \in SUBSET Comb!Pending : Comb!Start(t, threads)
    BY DEF Start
  <1>2. /\ threads \subseteq Threads
        /\ \A k \in threads : param[k] \in Requests
    BY DEF Comb!Pending, Inv, SchemeInv
  <1>3. PICK new : new = [NoLocals EXCEPT !.head = word, !.return_val = result,
                                         !.diffs = threads]
    OBVIOUS
  <1>4. /\ UNCHANGED <<param, word, result, durable, val, next, clean, recycle_list,
                       cur_entry>>
        /\ stage[t] = "out" /\ stage' = [stage EXCEPT ![t] = "trying"]
        /\ at' = [at EXCEPT ![t] = "push"]
        /\ loc' = [loc EXCEPT ![t] = new]
    <2>1. batch'[t] = threads
      BY <1>1 DEF Comb!Start, Inv, SchemeInv
    <2> QED
      BY <1>1, <1>3, <2>1 DEF Start, Comb!Start, Comb!callVars, Comb!recordVars,
                              nodeVars, poolVars
  <1>5. /\ new \in Locals /\ new.head = word /\ new.diffs = threads /\ new.pops = {}
        /\ new.clNewItems = <<>> /\ new.clNewItems_count = <<>> /\ new.push_counter = 0
        /\ new.pop_counter = 0
    <2>1. word \in Words /\ result \in [Threads -> RetVals]
      BY DEF Inv, DataInv
    <2> QED
      BY <1>2, <1>3, <2>1, NoLocalsAre DEF Inv, Locals, NoLocals
  <1>6. loc' \in [Threads -> Locals] /\ LocalInv' /\ loc'[t] = new
    <2>1. Cardinality(threads) \in Nat /\ Cardinality(threads) <= NThreads
      BY <1>2, FewThreads DEF Inv
    <2>2. Len(new.clNewItems) = 0 /\ Len(new.clNewItems_count) = 0
      BY <1>5
    <2>3. Len(new.clNewItems) + Cardinality(new.diffs) <= NThreads
      BY <1>5, <2>1, <2>2
    <2>4. \A k \in new.diffs \union new.pops : param[k] \in Requests
      BY <1>2, <1>5
    <2> QED
      BY <1>4, <1>5, <2>2, <2>3, <2>4, OwnLocals
  <1>7. DataInv'
    BY <1>4, <1>6 DEF Inv, DataInv
  <1>8. /\ at \in [Threads -> {"out"} \union Building \union Freeing]
        /\ at[t] = "out" /\ at'[t] = "push"
        /\ \A u \in Threads : u # t => at'[u] = at[u] /\ loc'[u] = loc[u] /\ stage'[u] = stage[u]
    <2>1. at \in [Threads -> {"out"} \union Building \union Freeing] /\ at[t] = "out"
      BY <1>4 DEF Inv, SchemeInv, Building, Freeing
    <2>2. loc \in [Threads -> Locals]
          /\ stage \in [Threads -> {"out", "trying", "stale", "published", "synced"}]
      BY DEF Inv, DataInv, SchemeInv
    <2> QED
      BY <1>4, <2>1, <2>2
  <1>9. /\ next \in [Nodes -> Words] /\ IsLinked(next, Null)
        /\ DOMAIN next \union {Null} = Words
        /\ \A w \in Words : ListFrom(next, Null, w, 0) = <<>>
    BY LinksAreLinked, WalkNothing DEF Inv, DataInv
  <1>10. HeldList(t) = <<>> /\ HeldList(t)' = <<>> /\ HeldFrom(t)' = word
    <2>1. HeldCount(t) = 0 /\ HeldFrom(t) \in Words
      BY <1>8, StateLists DEF Inv, HeldCount, Building, Freeing
    <2>2. HeldCount(t)' = 0 /\ HeldFrom(t)' = word /\ word \in Words
      BY <1>5, <1>6, <1>8 DEF HeldCount, HeldFrom, Building, Inv, DataInv
    <2> QED
      BY <1>4, <1>9, <2>1, <2>2 DEF HeldList, FirstNodes
  <1>11. AttemptOf(t)'
    <2>1. PICK w : w = word
      OBVIOUS
    <2>2. IsListFrom(NodesFrom(w), next, Null, w)
      BY <2>1 DEF Inv, ListsInv
    <2>3. NodesFrom(w)' = NodesFrom(w) /\ InStack(w)' = InStack(w) /\ word' = w
      BY <1>4, <2>1 DEF NodesFrom, InStack, FirstNodes
    <2>4. IsListFrom(NodesFrom(w), next, Null, w)'
      BY <1>4, <2>2, <2>3
    <2>5. InStack(w)' \subseteq Held(t)' \union InStack(word)'
      BY <1>4, <2>1, <2>3 DEF InStack, NodesFrom, FirstNodes
    <2>6. CopyOf(t, w)'
      BY <1>5, <1>6, <1>8, <2>4, <2>5 DEF CopyOf
    <2> QED
      BY <1>10, <2>1, <2>6 DEF AttemptOf
  <1>12. SetsInv' /\ ListsInv'
    BY <1>4, <1>8, <1>10, <1>11, QuietStep
  <1> QED
    BY <1>6, <1>7, <1>12 DEF Kept

LEMMA SetAsideStep ==
    ASSUME Inv, NEW t \in Threads, SetAside(t)
    PROVE  Kept
  <1>1. PICK k : k = Min(loc[t].diffs)
    OBVIOUS
  <1>2. PICK new : new = [loc[t] EXCEPT !.diffs = loc[t].diffs \ {k},
                                        !.pops = loc[t].pops \union {k}]
    OBVIOUS
  <1>3. /\ UNCHANGED <<param, word, result, durable, stage, val, next, clean,
                       recycle_list, cur_entry, at>>
        /\ at[t] = "push" /\ loc[t].diffs # {}
        /\ loc' = [loc EXCEPT ![t] = new]
    BY <1>1, <1>2 DEF SetAside, Serving, combVars, nodeVars, poolVars
  <1>4. loc[t] \in Locals /\ LocalOf(t)
    BY DEF Inv, DataInv, LocalInv
  <1>5. loc[t].diffs \in SUBSET Threads /\ k \in loc[t].diffs
    BY <1>1, <1>3, <1>4, LeastIn DEF Locals
  <1>6. /\ new \in Locals /\ new.head = loc[t].head /\ new.free_list = loc[t].free_list
        /\ new.push_counter = loc[t].push_counter /\ new.pop_counter = loc[t].pop_counter
        /\ new.clNewItems = loc[t].clNewItems
        /\ new.clNewItems_count = loc[t].clNewItems_count
        /\ new.diffs = loc[t].diffs \ {k} /\ new.pops = loc[t].pops \union {k}
    BY <1>2, <1>4, <1>5 DEF Locals
  <1>7. loc' \in [Threads -> Locals] /\ LocalInv' /\ loc'[t] = new
    <2>1. /\ Cardinality(new.diffs) = Cardinality(loc[t].diffs) - 1
          /\ Cardinality(loc[t].diffs) \in Nat
      BY <1>5, <1>6, FewThreads DEF Inv
    <2>2. NThreads \in Nat /\ Len(loc[t].clNewItems) \in Nat
      BY <1>4 DEF Inv, NodesAssumption, Locals
    <2>3. Len(new.clNewItems) + Cardinality(new.diffs) <= NThreads
      BY <1>4, <1>6, <2>1, <2>2 DEF LocalOf
    <2>4. \A j \in new.diffs \union new.pops : param[j] \in Requests
      BY <1>4, <1>5, <1>6 DEF LocalOf
    <2>5. Len(new.clNewItems) = Len(new.clNewItems_count)
      BY <1>4, <1>6 DEF LocalOf
    <2> QED
      BY <1>3, <1>6, <2>3, <2>4, <2>5, OwnLocals
  <1>8. DataInv'
    BY <1>3, <1>7 DEF Inv, DataInv
  <1>9. \A u \in Threads :
           u # t => at'[u] = at[u] /\ loc'[u] = loc[u] /\ stage'[u] = stage[u]
    BY <1>3 DEF Inv, DataInv
  <1>10. HeldList(t)' = HeldList(t) /\ HeldFrom(t)' = HeldFrom(t) /\ Held(t)' = Held(t)
    BY <1>3, <1>6, <1>7 DEF HeldList, Held, HeldFrom, HeldCount, FirstNodes
  <1>11. AttemptOf(t)'
    <2>1. PICK w : w = HeldFrom(t)
      OBVIOUS
    <2>2. /\ NodesFrom(w)' = NodesFrom(w) /\ InStack(w)' = InStack(w)
          /\ InStack(word)' = InStack(word)
      BY <1>3 DEF NodesFrom, InStack, FirstNodes
    <2>3. CopyOf(t, w) => CopyOf(t, w)'
      BY <1>3, <1>6, <1>7, <1>10, <2>2 DEF CopyOf
    <2> QED
      BY <1>3, <1>10, <2>1, <2>3 DEF AttemptOf, Inv, ListsInv
  <1>12. SetsInv' /\ ListsInv'
    BY <1>3, <1>9, <1>10, <1>11, QuietStep
  <1> QED
    BY <1>7, <1>8, <1>12 DEF Kept

LEMMA EndPushesStep ==
    ASSUME Inv, NEW t \in Threads, EndPushes(t)
    PROVE  Kept
  <1>1. PICK new : new = [loc[t] EXCEPT !.free_list = loc[t].head]
    OBVIOUS
  <1>2. /\ UNCHANGED <<param, word, result, durable, stage, val, next, clean,
                       recycle_list, cur_entry>>
        /\ at[t] = "push" /\ at' = [at EXCEPT ![t] = "pop"]
        /\ loc' = [loc EXCEPT ![t] = new]
    BY <1>1 DEF EndPushes, Serving, combVars, nodeVars, poolVars
  <1>3. loc[t] \in Locals /\ LocalOf(t)
    BY DEF Inv, DataInv, LocalInv
  <1>4. /\ new \in Locals /\ new.head = loc[t].head /\ new.free_list = loc[t].head
        /\ new.push_counter = loc[t].push_counter /\ new.pop_counter = loc[t].pop_counter
        /\ new.clNewItems = loc[t].clNewItems
        /\ new.clNewItems_count = loc[t].clNewItems_count
        /\ new.diffs = loc[t].diffs /\ new.pops = loc[t].pops
    BY <1>1, <1>3 DEF Locals
  <1>5. loc' \in [Threads -> Locals] /\ LocalInv' /\ loc'[t] = new
    <2>1. /\ Len(new.clNewItems) = Len(new.clNewItems_count)
          /\ Len(new.clNewItems) + Cardinality(new.diffs) <= NThreads
          /\ \A k \in new.diffs \union new.pops : param[k] \in Requests
      BY <1>3, <1>4 DEF LocalOf
    <2> QED
      BY <1>2, <1>4, <2>1, OwnLocals
  <1>6. DataInv'
    BY <1>2, <1>5 DEF Inv, DataInv
  <1>7. /\ at'[t] = "pop"
        /\ \A u \in Threads :
              u # t => at'[u] = at[u] /\ loc'[u] = loc[u] /\ stage'[u] = stage[u]
    BY <1>2 DEF Inv, DataInv, SchemeInv
  <1>8. PICK w : w = loc[t].head
    OBVIOUS
  <1>9. /\ HeldFrom(t) = w /\ HeldFrom(t)' = w /\ HeldList(t)' = HeldList(t)
        /\ Held(t)' = Held(t)
    BY <1>2, <1>4, <1>5, <1>7, <1>8
       DEF HeldList, Held, HeldFrom, HeldCount, FirstNodes, Building
  <1>10. AttemptOf(t)'
    <2> SUFFICES ASSUME stage[t] = "trying" PROVE CopyOf(t, w)'
      BY <1>2, <1>9 DEF AttemptOf
    <2>1. CopyOf(t, w)
      BY <1>9 DEF AttemptOf, Inv, ListsInv
    <2>2. /\ NodesFrom(w)' = NodesFrom(w) /\ InStack(w)' = InStack(w)
          /\ InStack(word)' = InStack(word)
      BY <1>2 DEF NodesFrom, InStack, FirstNodes
    <2>3. /\ loc'[t].pop_counter = 0 /\ loc'[t].head = w
          /\ IsListFrom(NodesFrom(w), next, Null, w)
      BY <1>2, <1>4, <1>5, <1>8, <2>1 DEF CopyOf
    <2>4. Len(NodesFrom(w)) \in Nat
      BY <2>3, ListLength
    <2>5. w = IF Len(NodesFrom(w)) = 0 THEN Null ELSE NodesFrom(w)[1]
      BY <2>3, <2>4 DEF IsListFrom
    <2>6. /\ loc'[t].pop_counter \in 0 .. Len(NodesFrom(w))
          /\ loc'[t].head = IF loc'[t].pop_counter = Len(NodesFrom(w)) THEN Null
                            ELSE NodesFrom(w)[loc'[t].pop_counter + 1]
      BY <2>3, <2>4, <2>5
    <2> QED
      BY <1>2, <1>7, <1>9, <2>1, <2>2, <2>6 DEF CopyOf
  <1>11. SetsInv' /\ ListsInv'
    BY <1>2, <1>7, <1>9, <1>10, QuietStep DEF Building
  <1> QED
    BY <1>5, <1>6, <1>11 DEF Kept

(* The node a pop takes is the next one of the copy.                         *)
LEMMA NextPopped ==
    ASSUME Inv, NEW t \in Threads, stage[t] = "trying", at[t] = "pop",
           NEW n, n = loc[t].head, n # Null,
           NEW s, s = NodesFrom(HeldFrom(t)), NEW c, c = loc[t].pop_counter
    PROVE  /\ n \in Nodes /\ val[n] \in Values
           /\ c + 1 \in 0 .. Len(s)
           /\ next[n] = IF c + 1 = Len(s) THEN Null ELSE s[(c + 1) + 1]
  <1>1. PICK w : w = HeldFrom(t)
    OBVIOUS
  <1>2. CopyOf(t, w) /\ w \in Words
    BY <1>1, StateLists DEF Inv, ListsInv, AttemptOf
  <1>3. /\ IsListFrom(s, next, Null, w) /\ Len(s) \in Nat
        /\ c \in 0 .. Len(s) /\ n = IF c = Len(s) THEN Null ELSE s[c + 1]
    BY <1>1, <1>2, ListLength DEF CopyOf
  <1>4. c + 1 \in 1 .. Len(s) /\ n = s[c + 1]
    BY <1>3
  <1>5. n \in InStack(w) /\ n \in Nodes
    <2>1. InStack(w) = ToSet(s) /\ InStack(w) \subseteq Nodes /\ s \in Seq(Nodes)
      BY <1>1, <1>2, StateLists DEF Inv
    <2> QED
      BY <1>4, <2>1, InjectiveSeq
  <1>6. n \in Held(t) \union InStack(word)
    BY <1>2, <1>5 DEF CopyOf
  <1>7. val[n] \in Values
    <2>1. HaveValues(Hands, InStack(word), at, val)
      BY DEF Inv, SetsInv, Sets
    <2> QED
      BY <1>6, <2>1 DEF HaveValues, Hands, Building
  <1>8. next[n] = IF c + 1 = Len(s) THEN Null ELSE s[(c + 1) + 1]
    <2>1. \A i \in 1 .. Len(s) : next[s[i]] = IF i = Len(s) THEN Null ELSE s[i + 1]
      BY <1>3 DEF IsListFrom
    <2> QED
      BY <1>4, <2>1
  <1> QED
    BY <1>3, <1>4, <1>5, <1>7, <1>8

LEMMA serialPopStep ==
    ASSUME Inv, NEW t \in Threads, serialPop(t)
    PROVE  Kept
  <1>1. PICK k, n : k = Min(loc[t].pops) /\ n = loc[t].head
    OBVIOUS
  <1>2. PICK own : own = [loc[t] EXCEPT !.pops = loc[t].pops \ {k}]
    OBVIOUS
  <1>3. PICK new : new = IF n = Null THEN [own EXCEPT !.return_val[k] = EmptyRet]
                         ELSE [Discounted(own, n) EXCEPT !.return_val[k] = val[n],
                                                         !.head = next[n],
                                                         !.pop_counter = own.pop_counter + 1]
    OBVIOUS
  <1>4. /\ UNCHANGED <<param, word, result, durable, stage, val, next, clean,
                       recycle_list, cur_entry, at>>
        /\ at[t] = "pop" /\ stage[t] = "trying" /\ loc[t].pops # {}
        /\ loc' = [loc EXCEPT ![t] = new]
    BY <1>1, <1>2, <1>3 DEF serialPop, Serving, combVars, nodeVars, poolVars
  <1>5. loc[t] \in Locals /\ LocalOf(t)
    BY DEF Inv, DataInv, LocalInv
  <1>6. loc[t].pops \in SUBSET Threads /\ k \in loc[t].pops /\ k \in Threads
    BY <1>1, <1>4, <1>5, LeastIn DEF Locals
  <1>7. /\ own \in Locals /\ SameButLines([loc[t] EXCEPT !.pops = own.pops], own)
        /\ own.clNewItems = loc[t].clNewItems
        /\ own.clNewItems_count = loc[t].clNewItems_count
        /\ own.diffs = loc[t].diffs /\ own.pops = loc[t].pops \ {k}
        /\ own.head = n /\ own.free_list = loc[t].free_list
        /\ own.push_counter = loc[t].push_counter /\ own.pop_counter = loc[t].pop_counter
    BY <1>1, <1>2, <1>5, <1>6 DEF Locals, SameButLines
  <1>8. PICK s, c : s = NodesFrom(HeldFrom(t)) /\ c = loc[t].pop_counter
    OBVIOUS
  <1>9. /\ new \in Locals /\ Len(new.clNewItems) = Len(new.clNewItems_count)
        /\ new.clNewItems = loc[t].clNewItems /\ new.diffs = loc[t].diffs
        /\ new.pops = loc[t].pops \ {k} /\ new.free_list = loc[t].free_list
        /\ new.push_counter = loc[t].push_counter
        /\ IF n = Null THEN new.head = n /\ new.pop_counter = c
           ELSE new.head = next[n] /\ new.pop_counter = c + 1
    <2>1. CASE n = Null
      <3>1. PICK values : values = [own.return_val EXCEPT ![k] = EmptyRet]
        OBVIOUS
      <3>2. values \in [Threads -> RetVals]
        BY <1>7, <3>1 DEF Locals, RetVals
      <3>3. new = [own EXCEPT !.return_val = values]
        BY <1>3, <2>1, <3>1
      <3> QED
        BY <1>5, <1>7, <1>8, <2>1, <3>2, <3>3 DEF Locals, LocalOf
    <2>2. CASE n # Null
      <3>1. n \in Nodes /\ val[n] \in Values
        BY <1>1, <1>4, <1>8, <2>2, NextPopped
      <3>2. PICK less : less = Discounted(own, n)
        OBVIOUS
      <3>3. /\ less \in Locals /\ SameButLines(own, less)
            /\ less.clNewItems = own.clNewItems
            /\ Len(less.clNewItems_count) = Len(own.clNewItems_count)
        BY <1>5, <1>7, <3>1, <3>2, DiscountedIs DEF LocalOf
      <3>4. PICK values : values = [less.return_val EXCEPT ![k] = val[n]]
        OBVIOUS
      <3>5. values \in [Threads -> RetVals]
        BY <3>1, <3>3, <3>4 DEF Locals, RetVals
      <3>6. next[n] \in Words /\ c + 1 \in Nat
        BY <1>5, <1>8, <3>1 DEF Inv, DataInv, Locals
      <3>7. new = [less EXCEPT !.return_val = values, !.head = next[n],
                               !.pop_counter = c + 1]
        BY <1>3, <1>7, <1>8, <2>2, <3>2, <3>4
      <3>8. /\ new \in Locals /\ new.clNewItems = less.clNewItems
            /\ new.clNewItems_count = less.clNewItems_count
            /\ new.diffs = less.diffs /\ new.pops = less.pops
            /\ new.free_list = less.free_list /\ new.push_counter = less.push_counter
            /\ new.head = next[n] /\ new.pop_counter = c + 1
        BY <3>3, <3>5, <3>6, <3>7 DEF Locals
      <3> QED
        BY <1>5, <1>7, <2>2, <3>3, <3>8 DEF SameButLines, LocalOf
    <2> QED
      BY <2>1, <2>2
  <1>10. loc' \in [Threads -> Locals] /\ LocalInv' /\ loc'[t] = new
    <2>1. Len(new.clNewItems) + Cardinality(new.diffs) <= NThreads
      BY <1>5, <1>9 DEF LocalOf
    <2>2. \A j \in new.diffs \union new.pops : param[j] \in Requests
      BY <1>5, <1>9 DEF LocalOf
    <2> QED
      BY <1>4, <1>9, <2>1, <2>2, OwnLocals
  <1>11. DataInv'
    BY <1>4, <1>10 DEF Inv, DataInv
  <1>12. \A u \in Threads :
            u # t => at'[u] = at[u] /\ loc'[u] = loc[u] /\ stage'[u] = stage[u]
    BY <1>4 DEF Inv, DataInv
  <1>13. /\ HeldList(t)' = HeldList(t) /\ HeldFrom(t)' = HeldFrom(t)
         /\ Held(t)' = Held(t)
    BY <1>4, <1>9, <1>10
       DEF HeldList, Held, HeldFrom, HeldCount, FirstNodes, Building
  <1>14. AttemptOf(t)'
    <2>1. PICK w : w = HeldFrom(t)
      OBVIOUS
    <2>2. CopyOf(t, w) /\ s = NodesFrom(w)
      BY <1>4, <1>8, <2>1 DEF AttemptOf, Inv, ListsInv
    <2>3. /\ NodesFrom(w)' = s /\ InStack(w)' = InStack(w)
          /\ InStack(word)' = InStack(word)
      BY <1>4, <2>2 DEF NodesFrom, InStack, FirstNodes
    <2>4. /\ loc'[t].pop_counter \in 0 .. Len(s)
          /\ loc'[t].head = IF loc'[t].pop_counter = Len(s) THEN Null
                            ELSE s[loc'[t].pop_counter + 1]
      <3>1. CASE n = Null
        BY <1>1, <1>4, <1>8, <1>9, <1>10, <2>2, <3>1 DEF CopyOf
      <3>2. CASE n # Null
        BY <1>1, <1>4, <1>8, <1>9, <1>10, <3>2, NextPopped
      <3> QED
        BY <3>1, <3>2
    <2>5. CopyOf(t, w)'
      BY <1>4, <1>13, <2>2, <2>3, <2>4 DEF CopyOf
    <2> QED
      BY <1>4, <1>13, <2>1, <2>5 DEF AttemptOf
  <1>15. SetsInv' /\ ListsInv'
    BY <1>4, <1>12, <1>13, <1>14, QuietStep
  <1> QED
    BY <1>10, <1>11, <1>15 DEF Kept

LEMMA PersistStep ==
    ASSUME Inv, NEW t \in Threads, Persist(t)
    PROVE  Kept
  <1>1. /\ UNCHANGED <<param, word, result, durable, stage, val, next, recycle_list,
                       cur_entry, loc>>
        /\ at[t] = "pop" /\ at' = [at EXCEPT ![t] = "cas"]
        /\ clean' = clean \union {n \in Nodes : Line(n) \in FlushedLines(loc[t])}
    BY DEF Persist, Serving, combVars, poolVars
  <1>2. DataInv' /\ LocalInv'
    BY <1>1 DEF Inv, DataInv, LocalInv, LocalOf
  <1>3. /\ at'[t] = "cas"
        /\ \A u \in Threads :
              u # t => at'[u] = at[u] /\ loc'[u] = loc[u] /\ stage'[u] = stage[u]
    BY <1>1 DEF Inv, SchemeInv
  <1>4. /\ HeldList(t)' = HeldList(t) /\ HeldFrom(t)' = HeldFrom(t)
        /\ Held(t)' = Held(t)
    BY <1>1, <1>3 DEF HeldList, Held, HeldFrom, HeldCount, FirstNodes, Building
  <1>5. AttemptOf(t)'
    <2>1. PICK w : w = HeldFrom(t)
      OBVIOUS
    <2>2. /\ NodesFrom(w)' = NodesFrom(w) /\ InStack(w)' = InStack(w)
          /\ InStack(word)' = InStack(word)
      BY <1>1 DEF NodesFrom, InStack, FirstNodes
    <2>3. CopyOf(t, w) => CopyOf(t, w)'
      BY <1>1, <1>3, <1>4, <2>2 DEF CopyOf
    <2> QED
      BY <1>1, <1>4, <2>1, <2>3 DEF AttemptOf, Inv, ListsInv
  <1>6. SetsInv' /\ ListsInv'
    BY <1>1, <1>3, <1>4, <1>5, QuietStep DEF Building
  <1> QED
    BY <1>2, <1>6 DEF Kept

LEMMA LeavesNothing ==
    ASSUME Inv, NEW t \in Threads, param' = param, loc' = [loc EXCEPT ![t] = NoLocals]
    PROVE  loc' \in [Threads -> Locals] /\ LocalInv' /\ loc'[t] = NoLocals
  <1>1. Len(<<>>) = 0 /\ Cardinality({}) = 0 /\ NThreads \in Nat
    BY FS_EmptySet DEF Inv, NodesAssumption
  <1>2. /\ NoLocals \in Locals
        /\ Len(NoLocals.clNewItems) = 0 /\ Len(NoLocals.clNewItems_count) = 0
        /\ NoLocals.diffs = {} /\ NoLocals.pops = {}
    BY <1>1, NoLocalsAre DEF Inv
  <1>3. Len(NoLocals.clNewItems) + Cardinality(NoLocals.diffs) <= NThreads
    BY <1>1, <1>2
  <1> QED
    BY <1>2, <1>3, OwnLocals

LEMMA AbandonStep ==
    ASSUME Inv, NEW t \in Threads, Abandon(t)
    PROVE  Kept
  <1>1. /\ UNCHANGED <<param, word, result, durable>>
        /\ at[t] = "pop" /\ at' = [at EXCEPT ![t] = "out"]
        /\ stage' = [stage EXCEPT ![t] = "out"]
        /\ loc' = [loc EXCEPT ![t] = NoLocals]
        /\ recycleList(t, loc[t].free_list, loc[t].push_counter)
        /\ next' = next /\ cur_entry' = cur_entry
    BY DEF Abandon, Comb!GiveUp, Comb!callVars, Comb!recordVars, Leave, ReturnedPushes,
           recycleList
  <1>2. loc' \in [Threads -> Locals] /\ LocalInv' /\ loc'[t] = NoLocals
    BY <1>1, LeavesNothing
  <1>3. /\ at'[t] = "out" /\ stage'[t] = "out" /\ loc'[t] \in Locals /\ OthersStay(t)
    BY <1>1, <1>2 DEF Inv, DataInv, SchemeInv, OthersStay
  <1>4. HeldFrom(t) = loc[t].free_list /\ HeldCount(t) = loc[t].push_counter
    BY <1>1 DEF HeldFrom, HeldCount, Building
  <1>5. /\ recycle_list' \in [Threads -> Seq(Nodes)]
        /\ val' \in [Nodes -> Values \union {Junk}]
        /\ clean' \subseteq Nodes
        /\ SetsInv' /\ ListsInv'
    BY <1>1, <1>3, <1>4, GivenBack
  <1>6. DataInv'
    BY <1>1, <1>2, <1>5 DEF Inv, DataInv
  <1> QED
    BY <1>2, <1>5, <1>6 DEF Kept

LEMMA ReturnOwnStep ==
    ASSUME Inv, NEW t \in Threads, ReturnOwn(t)
    PROVE  Kept
  <1>1. /\ UNCHANGED <<param, word, result, durable>>
        /\ at[t] = "recycle" /\ at' = [at EXCEPT ![t] = "out"]
        /\ stage' = [stage EXCEPT ![t] = "out"]
        /\ loc' = [loc EXCEPT ![t] = NoLocals]
        /\ recycleList(t, loc[t].free_list, loc[t].pop_counter)
        /\ next' = next /\ cur_entry' = cur_entry
    BY DEF ReturnOwn, Comb!ReturnOwn, Comb!recordVars, Leave, recycleList
  <1>2. loc' \in [Threads -> Locals] /\ LocalInv' /\ loc'[t] = NoLocals
    BY <1>1, LeavesNothing
  <1>3. /\ at'[t] = "out" /\ stage'[t] = "out" /\ loc'[t] \in Locals /\ OthersStay(t)
    BY <1>1, <1>2 DEF Inv, DataInv, SchemeInv, OthersStay
  <1>4. HeldFrom(t) = loc[t].free_list /\ HeldCount(t) = loc[t].pop_counter
    BY <1>1 DEF HeldFrom, HeldCount, Building, Freeing
  <1>5. /\ recycle_list' \in [Threads -> Seq(Nodes)]
        /\ val' \in [Nodes -> Values \union {Junk}]
        /\ clean' \subseteq Nodes
        /\ SetsInv' /\ ListsInv'
    BY <1>1, <1>3, <1>4, GivenBack
  <1>6. DataInv'
    BY <1>1, <1>2, <1>5 DEF Inv, DataInv
  <1> QED
    BY <1>2, <1>5, <1>6 DEF Kept

(* An attempt that fails to publish leaves its nodes to no one.              *)
LEMMA FailToPublishStep ==
    ASSUME Inv, NEW t \in Threads, FailToPublish(t)
    PROVE  Kept
  <1>1. /\ UNCHANGED <<param, word, result, durable, val, next, clean, recycle_list,
                       cur_entry>>
        /\ at[t] = "cas" /\ at' = [at EXCEPT ![t] = "out"]
        /\ stage' = [stage EXCEPT ![t] = "out"]
        /\ loc' = [loc EXCEPT ![t] = NoLocals]
    BY DEF FailToPublish, Comb!GiveUp, Comb!callVars, Comb!recordVars, Leave,
           nodeVars, poolVars
  <1>2. loc' \in [Threads -> Locals] /\ LocalInv' /\ loc'[t] = NoLocals
    BY <1>1, LeavesNothing
  <1>3. DataInv'
    BY <1>1, <1>2 DEF Inv, DataInv
  <1>4. at'[t] = "out" /\ stage'[t] = "out" /\ OthersStay(t)
    BY <1>1 DEF Inv, DataInv, SchemeInv, OthersStay
  <1>5. \A u \in Threads : u # t => HeldList(u)' = HeldList(u)
    BY <1>1, <1>4, OthersLists
  <1>6. HeldList(t)' = <<>>
    <2>1. PICK w : w = HeldFrom(t)'
      OBVIOUS
    <2>2. HeldCount(t)' = 0
      BY <1>4 DEF HeldCount, Building, Freeing
    <2>3. w \in Words
      BY <1>2, <2>1, NoLocalsAre DEF Inv, HeldFrom, Locals
    <2>4. ListFrom(next, Null, w, 0) = <<>>
      BY <2>3, LinksAreLinked, WalkNothing DEF Inv, DataInv
    <2> QED
      BY <1>1, <2>1, <2>2, <2>4 DEF HeldList, FirstNodes
  <1>7. /\ NodesFrom(word)' = NodesFrom(word) /\ InStack(word)' = InStack(word)
        /\ InStack(durable)' = InStack(durable)
    BY <1>1 DEF NodesFrom, InStack, FirstNodes
  <1>8. SetsInv'
    <2>1. /\ Hands'[t] = {} /\ Pools' = Pools
          /\ \A u \in Threads : u # t => Hands'[u] = Hands[u] /\ at'[u] = at[u]
      BY <1>1, <1>4, <1>5, <1>6 DEF Hands, Pools, Held, InPool, ToSet, OthersStay
    <2>2. Sets(Pools, Hands, InStack(word), InStack(durable), at, cur_entry, val)
      BY DEF Inv, SetsInv
    <2>3. Sets(Pools, Hands', InStack(word), InStack(durable), at', cur_entry, val)
      <3>1. Pools[t] \subseteq Pools[t] \union Hands[t] /\ at[t] # "sync"
        BY <1>1
      <3> QED
        BY <2>1, <2>2, <3>1, SetsGiven
    <2> QED
      BY <1>1, <1>7, <2>1, <2>3 DEF SetsInv
  <1>9. ListsInv'
    <2>1. ASSUME NEW u \in Threads
          PROVE  IsInjective(HeldList(u)') /\ AttemptOf(u)'
      <3>1. CASE u = t
        <4>1. IsInjective(<<>>)
          BY DEF IsInjective
        <4> QED
          BY <1>4, <1>6, <3>1, <4>1 DEF AttemptOf
      <3>2. CASE u # t
        <4>1. AttemptOf(u)'
          BY <1>1, <1>4, <3>2, AttemptStays DEF Inv, ListsInv, OthersStay
        <4> QED
          BY <1>5, <3>2, <4>1 DEF Inv, ListsInv
      <3> QED
        BY <3>1, <3>2
    <2> QED
      BY <1>1, <1>7, <2>1 DEF Inv, ListsInv
  <1> QED
    BY <1>2, <1>3, <1>8, <1>9 DEF Kept

LEMMA DurableSteps ==
    ASSUME Inv, SchemeInv', Evict \/ \E t \in Threads : FlushS(t)
    PROVE  Kept
  <1>1. /\ UNCHANGED <<param, word, result, val, next, clean, recycle_list, cur_entry, loc>>
        /\ durable' = word
        /\ \A u \in Threads :
              \/ at'[u] = at[u] /\ stage'[u] = stage[u]
              \/ at[u] = "sync" /\ at'[u] = "recycle" /\ stage'[u] = "synced"
    <2>1. at \in [Threads -> {"out"} \union Building \union Freeing]
          /\ stage \in [Threads -> {"out", "trying", "stale", "published", "synced"}]
      BY DEF Inv, SchemeInv
    <2>2. CASE Evict
      BY <2>2 DEF Evict, Comb!Evict, Comb!Synced, Comb!callVars, Comb!recordVars,
                  nodeVars, poolVars
    <2>3. ASSUME NEW t \in Threads, FlushS(t)
          PROVE  /\ UNCHANGED <<param, word, result, val, next, clean, recycle_list,
                                cur_entry, loc>>
                 /\ durable' = word /\ at[t] = "sync"
                 /\ at' = [at EXCEPT ![t] = "recycle"]
                 /\ stage' = [stage EXCEPT ![t] = "synced"]
      BY <2>3 DEF FlushS, Comb!Sync, Comb!Synced, Comb!callVars, Comb!recordVars,
                  nodeVars, poolVars
    <2>4. ASSUME NEW t \in Threads, FlushS(t)
          PROVE  \A u \in Threads :
                    \/ at'[u] = at[u] /\ stage'[u] = stage[u]
                    \/ at[u] = "sync" /\ at'[u] = "recycle" /\ stage'[u] = "synced"
      BY <2>1, <2>3, <2>4
    <2> QED
      BY <2>2, <2>3, <2>4
  <1>2. DataInv' /\ LocalInv'
    BY <1>1 DEF Inv, DataInv, LocalInv, LocalOf
  <1>3. ASSUME NEW u \in Threads
        PROVE  HeldList(u)' = HeldList(u) /\ AttemptOf(u)'
    <2>1. CASE at'[u] = at[u] /\ stage'[u] = stage[u]
      <3>1. AttemptOf(u)'
        BY <1>1, <2>1, AttemptStays DEF Inv, ListsInv
      <3> QED
        BY <1>1, <2>1, <3>1 DEF HeldList, HeldFrom, HeldCount, FirstNodes
    <2>2. CASE at[u] = "sync" /\ at'[u] = "recycle" /\ stage'[u] = "synced"
      BY <1>1, <2>2
         DEF HeldList, HeldFrom, HeldCount, FirstNodes, AttemptOf, Building, Freeing
    <2> QED
      BY <1>1, <2>1, <2>2
  <1>4. /\ NodesFrom(word)' = NodesFrom(word) /\ InStack(word)' = InStack(word)
        /\ InStack(durable)' = InStack(word)
    BY <1>1 DEF NodesFrom, InStack, FirstNodes
  <1>5. SetsInv'
    <2>1. Hands' = Hands /\ Pools' = Pools
      BY <1>1, <1>3 DEF Hands, Pools, Held, InPool
    <2>2. \A u \in Threads : at'[u] \in Building => at[u] \in Building
      BY <1>1 DEF Building
    <2>3. Sets(Pools, Hands, InStack(word), InStack(durable), at, cur_entry, val)
      BY DEF Inv, SetsInv
    <2>4. Sets(Pools, Hands, InStack(word), InStack(word), at', cur_entry, val)
      BY <2>2, <2>3, SetsSynced
    <2> QED
      BY <1>1, <1>4, <2>1, <2>4 DEF SetsInv
  <1>6. ListsInv'
    BY <1>1, <1>3, <1>4 DEF Inv, ListsInv
  <1> QED
    BY <1>2, <1>5, <1>6 DEF Kept

(* What a step that takes node n leaves as it is: every list n is not in.    *)
LEMMA ListsWithout ==
    ASSUME Inv, NEW n \in Nodes, NEW head \in Words, next' = [next EXCEPT ![n] = head],
           NEW w \in Words, NEW m \in Nat, n \notin ToSet(FirstNodes(w, m))
    PROVE  FirstNodes(w, m)' = FirstNodes(w, m)
  <1>1. PICK after : after = next'
    OBVIOUS
  <1>2. /\ next \in [Nodes -> Words] /\ after \in [Nodes -> Words]
        /\ after = [next EXCEPT ![n] = head]
    BY <1>1 DEF Inv, DataInv
  <1>3. /\ DOMAIN next = Nodes /\ DOMAIN after = DOMAIN next
        /\ IsLinked(next, Null) /\ IsLinked(after, Null)
        /\ DOMAIN next \union {Null} = Words
    BY <1>2, LinksAreLinked DEF Inv
  <1>4. ToSet(ListFrom(next, Null, w, m)) \subseteq Nodes
    BY <1>3, WalkFindsNodes
  <1>5. \A x \in ToSet(ListFrom(next, Null, w, m)) : after[x] = next[x]
    BY <1>2, <1>4 DEF FirstNodes
  <1>6. ListFrom(after, Null, w, m) = ListFrom(next, Null, w, m)
    BY <1>3, <1>5, WalkKept
  <1> QED
    BY <1>1, <1>6 DEF FirstNodes

LEMMA serialPushStep ==
    ASSUME Inv, NEW t \in Threads, serialPush(t)
    PROVE  Kept
  <1>1. PICK k, n : k = Min(loc[t].diffs) /\ n = AllocatedNode(t)
    OBVIOUS
  <1>2. PICK own : own = Listed(loc[t], Line(n))
    OBVIOUS
  <1>3. PICK new : new = [own EXCEPT !.diffs = own.diffs \ {k}, !.head = n,
                                     !.push_counter = own.push_counter + 1]
    OBVIOUS
  <1>4. PICK head : head = loc[t].head
    OBVIOUS
  <1>5. /\ UNCHANGED <<param, word, result, durable, stage, at>>
        /\ at[t] = "push" /\ loc[t].diffs # {}
        /\ param[k] # PopOp /\ CanAlloc(t) /\ Alloc(t)
        /\ val' = [val EXCEPT ![n] = param[k]]
        /\ next' = [next EXCEPT ![n] = head]
        /\ clean' = clean \ {n}
        /\ loc' = [loc EXCEPT ![t] = new]
    BY <1>1, <1>2, <1>3, <1>4 DEF serialPush, Serving, combVars
  <1>6. /\ loc[t] \in Locals /\ LocalOf(t) /\ NodesAssumption /\ DataInv
        /\ next \in [Nodes -> Words] /\ val \in [Nodes -> Values \union {Junk}]
    BY DEF Inv, DataInv, LocalInv
  <1>7. /\ n \in Nodes
        /\ n \notin InStack(word) /\ n \notin InStack(durable)
        /\ \A u \in Threads : n \notin Held(u)
        /\ \A u \in Threads : u # t => n \notin InPool(u)
        /\ InPool(t)' \subseteq InPool(t) /\ n \notin InPool(t)'
        /\ \A u \in Threads : u # t => InPool(u)' = InPool(u)
        /\ recycle_list' \in [Threads -> Seq(Nodes)]
        /\ \A u \in Threads : IsInjective(recycle_list'[u])
        /\ cur_entry' \in [Threads -> 0 .. PoolEntries]
        /\ n[2] < cur_entry'[n[1]]
        /\ \A u \in Threads : cur_entry[u] <= cur_entry'[u]
    BY <1>1, <1>5, TakenNode
  <1>8. loc[t].diffs \in SUBSET Threads /\ k \in loc[t].diffs /\ param[k] \in Values
    <2>1. loc[t].diffs \in SUBSET Threads /\ k \in loc[t].diffs
      BY <1>1, <1>5, <1>6, LeastIn DEF Locals
    <2> QED
      BY <1>5, <1>6, <2>1 DEF LocalOf, Requests
  <1>9. /\ own \in Locals /\ SameButLines(loc[t], own)
        /\ Len(own.clNewItems) = Len(own.clNewItems_count)
        /\ Len(own.clNewItems) <= Len(loc[t].clNewItems) + 1
    <2>1. Line(n) \in Lines
      BY <1>6, <1>7, LineOfNode
    <2> QED
      BY <1>2, <1>6, <2>1, ListedIs DEF LocalOf
  <1>10. /\ new \in Locals /\ new.head = n /\ new.diffs = loc[t].diffs \ {k}
         /\ new.pops = loc[t].pops /\ new.push_counter = loc[t].push_counter + 1
         /\ new.pop_counter = loc[t].pop_counter /\ new.clNewItems = own.clNewItems
         /\ new.clNewItems_count = own.clNewItems_count
    <2>1. n \in Words /\ own.push_counter + 1 \in Nat /\ own.diffs \ {k} \in SUBSET Threads
      BY <1>7, <1>9 DEF Words, Locals
    <2> QED
      BY <1>3, <1>9, <2>1 DEF Locals, SameButLines
  <1>11. loc' \in [Threads -> Locals] /\ LocalInv' /\ loc'[t] = new
    <2>1. /\ Cardinality(new.diffs) = Cardinality(loc[t].diffs) - 1
          /\ Cardinality(loc[t].diffs) \in Nat
      BY <1>6, <1>8, <1>10, FewThreads
    <2>2. /\ NThreads \in Nat /\ Len(loc[t].clNewItems) \in Nat
          /\ Len(own.clNewItems) \in Nat
      <3>1. loc[t].clNewItems \in Seq(Lines) /\ own.clNewItems \in Seq(Lines)
        BY <1>6, <1>9 DEF Locals
      <3>2. NThreads \in Nat
        BY <1>6 DEF NodesAssumption
      <3> QED
        BY <3>1, <3>2, LenProperties
    <2>3. Len(new.clNewItems) + Cardinality(new.diffs) <= NThreads
      BY <1>6, <1>9, <1>10, <2>1, <2>2 DEF LocalOf
    <2>4. \A j \in new.diffs \union new.pops : param[j] \in Requests
      BY <1>6, <1>10 DEF LocalOf
    <2>5. Len(new.clNewItems) = Len(new.clNewItems_count)
      BY <1>9, <1>10
    <2> QED
      BY <1>5, <1>10, <2>3, <2>4, <2>5, OwnLocals
  <1>12. head \in Words /\ next' \in [Nodes -> Words] /\ next'[n] = head
    <2>1. head \in Words
      BY <1>4, <1>6 DEF Locals
    <2> QED
      BY <1>5, <1>6, <1>7, <2>1
  <1>13. DataInv'
    <2>1. val' \in [Nodes -> Values \union {Junk}] /\ clean' \subseteq Nodes
      BY <1>5, <1>6, <1>8 DEF DataInv
    <2> QED
      BY <1>5, <1>6, <1>7, <1>11, <1>12, <2>1 DEF DataInv
  <1>14. \A u \in Threads :
            u # t => at'[u] = at[u] /\ loc'[u] = loc[u] /\ stage'[u] = stage[u]
    BY <1>5, <1>6 DEF DataInv
  <1>15. ASSUME NEW u \in Threads, u # t
         PROVE  HeldList(u)' = HeldList(u) /\ HeldFrom(u)' = HeldFrom(u)
    <2>1. PICK w, m : w = HeldFrom(u) /\ m = HeldCount(u)
      OBVIOUS
    <2>2. w \in Words /\ m \in Nat
      BY <1>6, <2>1, StateLists
    <2>3. HeldFrom(u)' = w /\ HeldCount(u)' = m
      BY <1>14, <1>15, <2>1 DEF HeldFrom, HeldCount
    <2>4. HeldList(u) = FirstNodes(w, m)
      BY <2>1 DEF HeldList
    <2>5. n \notin ToSet(FirstNodes(w, m))
      BY <1>7, <2>4 DEF Held
    <2>6. FirstNodes(w, m)' = FirstNodes(w, m)
      BY <1>5, <1>7, <1>12, <2>2, <2>5, ListsWithout
    <2> QED
      BY <2>1, <2>3, <2>4, <2>6 DEF HeldList
  <1>16. ASSUME NEW w \in Words, n \notin InStack(w)
         PROVE  /\ NodesFrom(w)' = NodesFrom(w) /\ InStack(w)' = InStack(w)
                /\ IsListFrom(NodesFrom(w), next, Null, w) =>
                      IsListFrom(NodesFrom(w), next', Null, w)
    <2>1. n \notin ToSet(NodesFrom(w)) /\ NodesFrom(w) \in Seq(Nodes)
      BY <1>6, <1>16, StateLists
    <2>2. NodesFrom(w)' = NodesFrom(w)
      BY <1>5, <1>6, <1>7, <1>12, <2>1, NodesFinite, ListsWithout DEF NodesFrom
    <2>3. ASSUME IsListFrom(NodesFrom(w), next, Null, w)
          PROVE  IsListFrom(NodesFrom(w), next', Null, w)
      <3>1. PICK after, s : after = next' /\ s = NodesFrom(w)
        OBVIOUS
      <3>2. ToSet(s) \subseteq Nodes /\ n \notin ToSet(s)
        BY <2>1, <3>1, InjectiveSeq
      <3>3. DOMAIN after = DOMAIN next /\ \A x \in ToSet(s) : after[x] = next[x]
        BY <1>5, <1>6, <1>12, <3>1, <3>2
      <3>4. IsListFrom(s, next, Null, w)
        BY <2>3, <3>1
      <3>5. IsListFrom(s, after, Null, w)
        BY <3>3, <3>4, ListKept
      <3> QED
        BY <3>1, <3>5
    <2> QED
      BY <2>2, <2>3 DEF InStack
  <1>17. word \in Words /\ durable \in Words \union {Unformatted}
    BY <1>6 DEF DataInv
  <1>18. /\ NodesFrom(word)' = NodesFrom(word) /\ InStack(word)' = InStack(word)
         /\ InStack(durable)' = InStack(durable)
         /\ IsListFrom(NodesFrom(word), next, Null, word)'
    <2>1. PICK v, d : v = word /\ d = durable
      OBVIOUS
    <2>2. /\ NodesFrom(v)' = NodesFrom(v) /\ InStack(v)' = InStack(v)
          /\ IsListFrom(NodesFrom(v), next', Null, v)
      BY <1>7, <1>16, <1>17, <2>1 DEF Inv, ListsInv
    <2>3. InStack(d)' = InStack(d)
      <3>1. CASE d = Unformatted
        BY <3>1 DEF InStack
      <3>2. CASE d # Unformatted
        BY <1>7, <1>16, <1>17, <2>1, <3>2
      <3> QED
        BY <3>1, <3>2
    <2>4. word' = v /\ durable' = d
      BY <1>5, <2>1
    <2>5. NodesFrom(word)' = NodesFrom(v)' /\ InStack(word)' = InStack(v)'
      BY <2>4 DEF NodesFrom, InStack, FirstNodes
    <2>6. InStack(durable)' = InStack(d)'
      BY <2>4 DEF NodesFrom, InStack, FirstNodes
    <2> QED
      BY <2>1, <2>2, <2>3, <2>4, <2>5, <2>6
  <1>19. HeldList(t)' = <<n>> \o HeldList(t) /\ HeldFrom(t) = head /\ HeldFrom(t)' = n
    <2>1. PICK m : m = loc[t].push_counter
      OBVIOUS
    <2>2. m \in Nat
      BY <1>6, <2>1 DEF Locals
    <2>3. /\ HeldFrom(t) = head /\ HeldCount(t) = m
          /\ HeldFrom(t)' = n /\ HeldCount(t)' = m + 1
      BY <1>4, <1>5, <1>10, <1>11, <2>1 DEF HeldFrom, HeldCount, Building
    <2>4. HeldList(t) = FirstNodes(head, m)
      BY <2>3 DEF HeldList
    <2>5. n \notin ToSet(FirstNodes(head, m))
      BY <1>7, <2>4 DEF Held
    <2>6. FirstNodes(head, m)' = FirstNodes(head, m)
      BY <1>5, <1>7, <1>12, <2>2, <2>5, ListsWithout
    <2>7. PICK after : after = next'
      OBVIOUS
    <2>8. /\ after \in [Nodes -> Words] /\ after[n] = head
          /\ DOMAIN after = Nodes /\ IsLinked(after, Null)
      BY <1>6, <1>12, <2>7, LinksAreLinked
    <2>9. ListFrom(after, Null, n, m + 1) = <<n>> \o ListFrom(after, Null, after[n], m)
      BY <1>7, <2>2, <2>8, WalkOn, ZenonT(40)
    <2>10. HeldList(t)' = ListFrom(after, Null, n, m + 1)
      BY <2>3, <2>7 DEF HeldList, FirstNodes
    <2>11. FirstNodes(head, m)' = ListFrom(after, Null, head, m)
      BY <2>7 DEF FirstNodes
    <2> QED
      BY <2>3, <2>4, <2>6, <2>8, <2>9, <2>10, <2>11
  <1>20. /\ Held(t)' = {n} \union Held(t) /\ IsInjective(HeldList(t)')
         /\ \A u \in Threads : u # t => Held(u)' = Held(u)
    <2>1. HeldList(t) \in Seq(Nodes) /\ IsInjective(HeldList(t))
      BY <1>6, StateLists DEF Inv, ListsInv
    <2>2. n \notin ToSet(HeldList(t))
      BY <1>7 DEF Held
    <2>3. PICK s : s = HeldList(t)
      OBVIOUS
    <2>4. ToSet(<<n>> \o s) = {n} \union ToSet(s) /\ IsInjective(<<n>> \o s)
      BY <1>7, <2>1, <2>2, <2>3, PutFirst
    <2>5. HeldList(t)' = <<n>> \o s
      BY <1>19, <2>3
    <2> QED
      BY <1>15, <2>3, <2>4, <2>5 DEF Held
  <1>21. SetsInv'
    <2>1. Sets(Pools, Hands, InStack(word), InStack(durable), at, cur_entry, val)
      BY DEF Inv, SetsInv
    <2>2. /\ n \notin InStack(word) /\ n \notin InStack(durable)
          /\ \A u \in Threads : n \notin Hands[u]
          /\ \A u \in Threads : u # t => n \notin Pools[u]
          /\ Pools'[t] \subseteq Pools[t] /\ n \notin Pools'[t]
          /\ \A u \in Threads : u # t => Pools'[u] = Pools[u]
          /\ Hands'[t] = {n} \union Hands[t]
          /\ \A u \in Threads : u # t => Hands'[u] = Hands[u]
      BY <1>7, <1>20 DEF Pools, Hands
    <2>3. /\ n[2] < cur_entry'[n[1]]
          /\ cur_entry \in [Threads -> Int] /\ cur_entry' \in [Threads -> Int]
          /\ \A u \in Threads : cur_entry[u] <= cur_entry'[u]
      <3>1. 0 .. PoolEntries \subseteq Int
        BY <1>6 DEF NodesAssumption
      <3> QED
        BY <1>6, <1>7, <3>1 DEF DataInv
    <2>4. val'[n] \in Values /\ \A m \in Nodes : m # n => val'[m] = val[m]
      BY <1>5, <1>6, <1>7, <1>8
    <2>5. at[t] \in Building /\ n \in Nodes
      BY <1>5, <1>7 DEF Building
    <2>6. Sets(Pools', Hands', InStack(word), InStack(durable), at, cur_entry', val')
      BY <2>1, <2>2, <2>3, <2>4, <2>5, SetsTaken
    <2> QED
      BY <1>5, <1>18, <2>6 DEF SetsInv
  <1>22. ASSUME NEW u \in Threads, u # t
         PROVE  AttemptOf(u)'
    <2> SUFFICES ASSUME stage[u] = "trying" PROVE AttemptOf(u)'
      BY <1>5 DEF AttemptOf
    <2>1. PICK w : w = HeldFrom(u)
      OBVIOUS
    <2>2. CopyOf(u, w) /\ w \in Words
      BY <1>6, <2>1, StateLists DEF Inv, ListsInv, AttemptOf
    <2>3. n \notin InStack(w)
      BY <1>7, <2>2 DEF CopyOf
    <2>4. /\ NodesFrom(w)' = NodesFrom(w) /\ InStack(w)' = InStack(w)
          /\ IsListFrom(NodesFrom(w), next', Null, w)
      BY <1>16, <2>2, <2>3 DEF CopyOf
    <2>5. CopyOf(u, w)'
      BY <1>14, <1>18, <1>20, <1>22, <2>2, <2>4 DEF CopyOf
    <2> QED
      BY <1>15, <1>22, <2>1, <2>5 DEF AttemptOf
  <1>23. AttemptOf(t)'
    <2> SUFFICES ASSUME stage[t] = "trying" PROVE CopyOf(t, n)'
      BY <1>5, <1>19 DEF AttemptOf
    <2>1. CopyOf(t, head)
      BY <1>19 DEF Inv, ListsInv, AttemptOf
    <2>2. PICK s : s = NodesFrom(head)
      OBVIOUS
    <2>3. /\ IsListFrom(s, next, Null, head)
          /\ ToSet(s) = InStack(head) /\ InStack(head) \subseteq Held(t) \union InStack(word)
          /\ n \notin ToSet(s)
      <3>1. ToSet(s) = InStack(head)
        BY <1>6, <1>12, <2>2, StateLists
      <3> QED
        BY <1>7, <2>1, <2>2, <3>1 DEF CopyOf
    <2>4. PICK after : after = next'
      OBVIOUS
    <2>5. /\ after \in [Nodes -> Words] /\ DOMAIN next = Nodes /\ DOMAIN after = DOMAIN next
          /\ \A x \in DOMAIN next : after[x] = IF x = n THEN head ELSE next[x]
      BY <1>5, <1>6, <1>7, <1>12, <2>4
    <2>6. n \in DOMAIN next
      BY <1>7, <2>5
    <2>7. /\ IsListFrom(<<n>> \o s, after, Null, n)
          /\ ToSet(<<n>> \o s) = {n} \union ToSet(s)
      BY <2>3, <2>5, <2>6, ListCons
    <2>8. ListFrom(after, Null, n, Cardinality(Nodes)) = <<n>> \o s
      BY <1>6, <2>5, <2>7, WholeList
    <2>9. NodesFrom(n)' = <<n>> \o s /\ IsListFrom(NodesFrom(n), next, Null, n)'
      BY <2>4, <2>7, <2>8 DEF NodesFrom, FirstNodes
    <2>10. InStack(n)' = {n} \union InStack(head)
      <3>1. n # Unformatted
        BY <1>6, <1>7 DEF NodesAssumption, Words
      <3>2. InStack(n)' = ToSet(NodesFrom(n)')
        BY <3>1 DEF InStack
      <3> QED
        BY <2>3, <2>7, <2>9, <3>2
    <2>11. InStack(n)' \subseteq Held(t)' \union InStack(word)'
      BY <1>18, <1>20, <2>3, <2>10
    <2>12. at'[t] = "push" /\ loc'[t].pop_counter = 0
      BY <1>5, <1>10, <1>11, <2>1 DEF CopyOf
    <2> QED
      BY <2>9, <2>11, <2>12 DEF CopyOf
  <1>24. ListsInv'
    <2>1. ASSUME NEW u \in Threads
          PROVE  IsInjective(HeldList(u)') /\ AttemptOf(u)'
      BY <1>15, <1>20, <1>22, <1>23 DEF Inv, ListsInv
    <2> QED
      BY <1>7, <1>18, <2>1 DEF ListsInv
  <1> QED
    BY <1>11, <1>13, <1>21, <1>24 DEF Kept

(* The nodes a published session has popped are the first of its copy, the   *)
(* others are the stack.                                                     *)
LEMMA PublishStep ==
    ASSUME Inv, NEW t \in Threads, Publish(t)
    PROVE  Kept
  <1>1. PICK w, c, z : w = loc[t].free_list /\ c = loc[t].pop_counter /\ z = loc[t].head
    OBVIOUS
  <1>2. /\ UNCHANGED <<param, durable, val, next, clean, recycle_list, cur_entry, loc>>
        /\ word' = z /\ stage[t] = "trying"
        /\ result' = [k \in Threads |-> IF k \in batch[t] THEN loc[t].return_val[k]
                                        ELSE result[k]]
        /\ \A u \in Threads : stage'[u] # "trying"
        /\ at[t] = "cas" /\ at' = [at EXCEPT ![t] = "sync"]
    BY <1>1 DEF Publish, Comb!Publish, nodeVars, poolVars
  <1>3. /\ NodesAssumption /\ DataInv /\ next \in [Nodes -> Words]
        /\ loc[t] \in Locals /\ result \in [Threads -> RetVals]
        /\ at \in [Threads -> {"out"} \union Building \union Freeing]
    BY DEF Inv, DataInv, SchemeInv
  <1>4. w \in Words /\ z \in Words /\ c \in Nat
    BY <1>1, <1>3 DEF Locals
  <1>5. DataInv' /\ LocalInv'
    <2>1. loc[t].return_val \in [Threads -> RetVals]
      BY <1>3 DEF Locals
    <2>2. result' \in [Threads -> RetVals]
      BY <1>2, <1>3, <2>1
    <2> QED
      BY <1>2, <1>3, <1>4, <2>2 DEF Inv, DataInv, LocalInv, LocalOf
  <1>6. at'[t] = "sync" /\ \A u \in Threads : u # t => at'[u] = at[u]
    BY <1>2, <1>3
  <1>7. /\ HeldFrom(t) = w /\ HeldFrom(t)' = w /\ HeldCount(t)' = c
    BY <1>1, <1>2, <1>6 DEF HeldFrom, HeldCount, Building, Freeing
  <1>8. PICK s : s = NodesFrom(w)
    OBVIOUS
  <1>9. /\ IsListFrom(s, next, Null, w) /\ c \in 0 .. Len(s)
        /\ z = IF c = Len(s) THEN Null ELSE s[c + 1]
        /\ ToSet(s) \subseteq Held(t) \union InStack(word)
    <2>1. CopyOf(t, w) /\ InStack(w) = ToSet(s)
      BY <1>2, <1>3, <1>4, <1>7, <1>8, StateLists DEF Inv, ListsInv, AttemptOf
    <2> QED
      BY <1>1, <1>2, <1>8, <2>1 DEF CopyOf
  <1>10. /\ s \in Seq(Nodes) /\ Len(s) \in Nat /\ ToSet(s) = {s[x] : x \in 1 .. Len(s)}
         /\ \A x, y \in 1 .. Len(s) : s[x] = s[y] => x = y
    <2>1. s \in Seq(Nodes) /\ IsInjective(s)
      BY <1>3, <1>9 DEF IsListFrom
    <2> QED
      BY <2>1, InjectiveSeq
  <1>11. PICK first, rest : /\ first = ListFrom(next, Null, w, c)
                            /\ rest = SubSeq(s, c + 1, Len(s))
    OBVIOUS
  <1>12. /\ first \in Seq(Nodes) /\ Len(first) = c /\ \A x \in 1 .. c : first[x] = s[x]
    BY <1>3, <1>9, <1>11, LinksAreLinked, WalkPrefix
  <1>13. IsInjective(first) /\ ToSet(first) = {s[x] : x \in 1 .. c}
    <2>1. \A x \in 1 .. c : x \in 1 .. Len(s)
      BY <1>9, <1>10
    <2>2. /\ ToSet(first) = {first[x] : x \in 1 .. c}
          /\ IsInjective(first) <=> \A x, y \in 1 .. c : first[x] = first[y] => x = y
      BY <1>12, InjectiveSeq
    <2> QED
      BY <1>10, <1>12, <2>1, <2>2
  <1>14. /\ IsListFrom(rest, next, Null, z)
         /\ ToSet(rest) = {s[x] : x \in c + 1 .. Len(s)}
    <2>1. /\ IsListFrom(rest, next, Null, IF c = Len(s) THEN Null ELSE s[c + 1])
          /\ ToSet(rest) = {s[x] : x \in c + 1 .. Len(s)}
      BY <1>9, <1>11, ListRest
    <2> QED
      BY <1>9, <2>1
  <1>15. /\ HeldList(t)' = first
         /\ \A u \in Threads : u # t => HeldList(u)' = HeldList(u)
    <2>1. HeldList(t)' = first
      BY <1>2, <1>7, <1>11 DEF HeldList, FirstNodes
    <2> QED
      BY <1>2, <1>6, <2>1 DEF HeldList, HeldFrom, HeldCount, FirstNodes
  <1>16. /\ NodesFrom(word)' = rest /\ InStack(word)' = ToSet(rest)
         /\ InStack(durable)' = InStack(durable)
         /\ IsListFrom(NodesFrom(word), next, Null, word)'
    <2>1. ListFrom(next, Null, z, Cardinality(Nodes)) = rest
      BY <1>3, <1>14, WholeList
    <2>2. NodesFrom(word)' = rest
      BY <1>2, <2>1 DEF NodesFrom, FirstNodes
    <2>3. z # Unformatted
      BY <1>3, <1>4 DEF NodesAssumption
    <2>4. InStack(word)' = ToSet(rest)
      BY <1>2, <2>2, <2>3 DEF InStack
    <2>5. InStack(durable)' = InStack(durable)
      BY <1>2 DEF InStack, NodesFrom, FirstNodes
    <2> QED
      BY <1>2, <1>14, <2>2, <2>4, <2>5
  <1>17. /\ ToSet(first) \intersect ToSet(rest) = {}
         /\ ToSet(first) \union ToSet(rest) \subseteq ToSet(s)
    <2>1. /\ \A x \in 1 .. c : x \in 1 .. Len(s)
          /\ \A x \in c + 1 .. Len(s) : x \in 1 .. Len(s)
          /\ \A x \in 1 .. c : \A y \in c + 1 .. Len(s) : x # y
      BY <1>4, <1>9, <1>10
    <2> QED
      BY <1>10, <1>13, <1>14, <2>1
  <1>18. SetsInv'
    <2>1. Sets(Pools, Hands, InStack(word), InStack(durable), at, cur_entry, val)
      BY DEF Inv, SetsInv
    <2>2. /\ Pools' = Pools /\ Hands'[t] = ToSet(first) /\ Hands[t] = Held(t)
          /\ \A u \in Threads : u # t => Hands'[u] = Hands[u]
      BY <1>2, <1>15 DEF Pools, Hands, Held, InPool
    <2>3. PICK q : q = ToSet(rest)
      OBVIOUS
    <2>4. /\ q \union Hands'[t] \subseteq InStack(word) \union Hands[t]
          /\ q \intersect Hands'[t] = {}
      BY <1>9, <1>17, <2>2, <2>3
    <2>5. at[t] \in Building
      BY <1>2 DEF Building
    <2>6. Sets(Pools, Hands', q, InStack(durable), at', cur_entry, val)
      BY <1>6, <2>1, <2>2, <2>4, <2>5, SetsPublished
    <2> QED
      BY <1>2, <1>16, <2>2, <2>3, <2>6 DEF SetsInv
  <1>19. ListsInv'
    <2>1. ASSUME NEW u \in Threads
          PROVE  IsInjective(HeldList(u)') /\ AttemptOf(u)'
      BY <1>2, <1>13, <1>15 DEF Inv, ListsInv, AttemptOf
    <2> QED
      BY <1>2, <1>16, <2>1 DEF Inv, ListsInv
  <1> QED
    BY <1>5, <1>18, <1>19 DEF Kept
-----------------------------------------------------------------------------
(* The theorems                                                              *)

LEMMA NextKeepsInv ==
    ASSUME Inv, [Next]_vars
    PROVE  Inv'
  <1>1. NodesAssumption'
    BY DEF Inv, NodesAssumption, Nodes, Words, Threads
  <1>2. CASE Next
    <2>1. SchemeInv'
      BY <1>2, NextKeepsScheme DEF Inv
    <2>2. ASSUME NEW t \in Threads, NEW v \in Values, Push(t, v)
          PROVE  Kept
      BY <2>2, CallSteps
    <2>3. ASSUME NEW t \in Threads, Pop(t) \/ ReturnServed(t)
          PROVE  Kept
      BY <2>3, CallSteps
    <2>4. ASSUME NEW t \in Threads,
                 Start(t) \/ SetAside(t) \/ serialPush(t) \/ EndPushes(t)
          PROVE  Kept
      BY <2>4, StartStep, SetAsideStep, serialPushStep, EndPushesStep
    <2>5. ASSUME NEW t \in Threads, serialPop(t) \/ Abandon(t) \/ Persist(t) \/ Publish(t)
          PROVE  Kept
      BY <2>5, serialPopStep, AbandonStep, PersistStep, PublishStep
    <2>6. ASSUME NEW t \in Threads, FailToPublish(t) \/ ReturnOwn(t)
          PROVE  Kept
      BY <2>6, FailToPublishStep, ReturnOwnStep
    <2>7. ASSUME Evict \/ \E t \in Threads : FlushS(t)
          PROVE  Kept
      BY <2>1, <2>7, DurableSteps
    <2>8. Kept
      BY <1>2, <2>2, <2>3, <2>4, <2>5, <2>6, <2>7 DEF Next
    <2> QED
      BY <1>1, <2>1, <2>8 DEF Inv, Kept
  <1>3. CASE UNCHANGED vars
    <2>1. SchemeInv' /\ DataInv' /\ LocalInv'
      BY <1>3 DEF Inv, SchemeInv, DataInv, LocalInv, LocalOf, vars, combVars, nodeVars,
                  poolVars
    <2>2. UNCHANGED <<word, durable, stage, val, next, recycle_list, cur_entry, at, loc>>
      BY <1>3 DEF vars, combVars, nodeVars, poolVars
    <2>3. PICK t \in Threads : TRUE
      BY DEF Inv, NodesAssumption, Threads
    <2>4. HeldList(t)' = HeldList(t)
      BY <2>2 DEF HeldList, HeldFrom, HeldCount, FirstNodes
    <2>5. AttemptOf(t)'
      BY <2>2, AttemptStays DEF Inv, ListsInv
    <2>6. SetsInv' /\ ListsInv'
      BY <2>2, <2>4, <2>5, QuietStep
    <2> QED
      BY <1>1, <2>1, <2>6 DEF Inv
  <1> QED
    BY <1>2, <1>3

(* What the threads hold, the pools, the stack and its copy on the disk stay  *)
(* apart, and every copy an attempt builds is a whole list: its own nodes in  *)
(* front of what the attempt read (pwfcombstack.c:99-180, 253-344).           *)
THEOREM InvHolds == NodesAssumption /\ Spec => []Inv
  <1>1. NodesAssumption /\ Init => Inv
    BY InitKeepsInv
  <1>2. Inv /\ [Next]_vars => Inv'
    BY NextKeepsInv
  <1> QED
    BY <1>1, <1>2, PTL DEF Spec

LEMMA InvImpliesTypeOK ==
    ASSUME Inv
    PROVE  TypeOK
  <1>1. ASSUME NEW t \in Threads
        PROVE  /\ loc[t].diffs \union loc[t].pops \subseteq Threads
               /\ Len(loc[t].clNewItems) = Len(loc[t].clNewItems_count)
               /\ Len(loc[t].clNewItems) <= NThreads
    <2>1. loc[t] \in Locals /\ LocalOf(t)
      BY DEF Inv, DataInv, LocalInv
    <2>2. loc[t].diffs \in SUBSET Threads /\ loc[t].pops \in SUBSET Threads
      BY <2>1 DEF Locals
    <2>3. loc[t].clNewItems \in Seq(Lines) /\ NThreads \in Nat
      BY <2>1 DEF Locals, Inv, NodesAssumption
    <2>4. Cardinality(loc[t].diffs) \in Nat
      BY <2>2, FewThreads DEF Inv
    <2>5. Len(loc[t].clNewItems) \in Nat
      BY <2>3, LenProperties
    <2> QED
      BY <2>1, <2>2, <2>3, <2>4, <2>5 DEF LocalOf
  <1> QED
    BY <1>1 DEF Inv, SchemeInv, DataInv, TypeOK, RetVals, Building, Freeing

LEMMA InvImpliesOnePlace ==
    ASSUME Inv
    PROVE  NodesInOnePlace
  <1>1. ASSUME NEW t \in Threads
        PROVE  Pushed(t) \union Popped(t) \subseteq Held(t)
    BY DEF Pushed, Popped, Held, HeldList, HeldFrom, HeldCount, Building, Freeing
  <1>2. Apart(Pools, Hands, InStack(word), InStack(durable), at)
    BY DEF Inv, SetsInv, Sets
  <1>3. \A t \in Threads : Pools[t] = InPool(t) /\ Hands[t] = Held(t)
    BY DEF Pools, Hands
  <1>4. \A t \in Threads : IsInjective(recycle_list[t])
    BY DEF Inv, ListsInv
  <1>5. ASSUME NEW t \in Threads
        PROVE  /\ InPool(t) \intersect (InStack(word) \union InStack(durable)) = {}
               /\ (Pushed(t) \union Popped(t)) \intersect InStack(word) = {}
               /\ InPool(t) \intersect (Pushed(t) \union Popped(t)) = {}
    BY <1>1, <1>2, <1>3 DEF Apart
  <1>6. ASSUME NEW t \in Threads, NEW u \in Threads, t # u
        PROVE  (InPool(t) \union Pushed(t) \union Popped(t))
                  \intersect (InPool(u) \union Pushed(u) \union Popped(u)) = {}
    <2>1. (InPool(t) \union Held(t)) \intersect (InPool(u) \union Held(u)) = {}
      BY <1>2, <1>3, <1>6 DEF Apart
    <2> QED
      BY <1>1, <2>1
  <1> QED
    BY <1>4, <1>5, <1>6 DEF NodesInOnePlace

(* The variables of the stack have their types: a result is a value that was *)
(* pushed, or says that the stack is empty, and the lines of new nodes fit.  *)
THEOREM StackTypes == NodesAssumption /\ Spec => []TypeOK
  BY InvHolds, InvImpliesTypeOK, PTL

(* No node is in two places, however many threads push, pop and give back,   *)
(* and none that a pool hands out is still in the durable stack.             *)
THEOREM NodesApart == NodesAssumption /\ Spec => []NodesInOnePlace
  BY InvHolds, InvImpliesOnePlace, PTL
=============================================================================
