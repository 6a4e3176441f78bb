-------------------------- MODULE PBStructuresProofs --------------------------
(* Proofs about PBQueue, and what PBStackProofs proves, both of the          *)
(* behaviours run pb_structures explores: MCPBStructures runs PBStack next   *)
(* to PBQueue.                                                               *)
EXTENDS MCPBStructures, LinkedListsProofs

-----------------------------------------------------------------------------
(* PBQueue: its sessions                                                     *)

(* The two combining objects.  Between sessions the published word is the    *)
(* word; the durable one is the published one from the flush of the pointer  *)
(* to the next session's publication.                                        *)
Untouched(p, d) == p = Unformatted /\ d = Unformatted

SessionInv(ph, st, co, w, p, d, sy) ==
    /\ \A t \in Threads : ph[t] = "applied" => st # "free"
    /\ IF st = "free" THEN co = NoThread ELSE co \in Threads /\ ph[co] # "idle"
    /\ st = "free" => p = w \/ (Untouched(p, d) /\ w = Guard)
    /\ st \in {"flush_pointer", "after_persist", "unlock"} => p = w
    /\ st \in {"after_persist", "unlock"} => sy
    /\ IF sy THEN d = p ELSE st = "flush_pointer" \/ Untouched(p, d)

EnqueuesInv ==
    /\ e_phase \in [Threads -> Phases]
    /\ e_param \in [Threads -> Values \union {NoArg}]
    /\ e_result \in [Threads -> {EnqueueRet, NoVal}]
    /\ e_stage \in Stages
    /\ e_combiner \in Threads \union {NoThread}
    /\ e_synced \in BOOLEAN
    /\ \A t \in Threads : e_phase[t] # "idle" => e_param[t] \in Values
    /\ SessionInv(e_phase, e_stage, e_combiner, e_word, e_published, e_durable,
                  e_synced)

DequeuesInv ==
    /\ d_phase \in [Threads -> Phases]
    /\ d_param \in [Threads -> {DeqArg, NoArg}]
    /\ d_stage \in Stages
    /\ d_combiner \in Threads \union {NoThread}
    /\ d_synced \in BOOLEAN
    /\ SessionInv(d_phase, d_stage, d_combiner, d_word, d_published, d_durable,
                  d_synced)

(* A thread makes one call at a time. *)
OneCall == \A t \in Threads : e_phase[t] = "idle" \/ d_phase[t] = "idle"

SessionsInv == EnqueuesInv /\ DequeuesInv /\ OneCall

(* What a step of the queue is to each of the two objects. *)
EnqueuesStep ==
    \/ \E t \in Threads : \E v \in Values : E!Invoke(t, v) /\ IsIdle(t)
    \/ \E t \in Threads : E!Begin(t)
    \/ \E t \in Threads : \E w : E!Serve(t, w, EnqueueRet)
    \/ E!Persist
    \/ E!Unlock \/ E!Evict
    \/ \E t \in Threads : E!Return(t)

DequeuesStep ==
    \/ \E t \in Threads : D!Invoke(t, DeqArg) /\ IsIdle(t)
    \/ \E t \in Threads : D!Begin(t)
    \/ \E t \in Threads : \E w, v : D!Serve(t, w, v)
    \/ D!Persist
    \/ D!Unlock \/ D!Evict
    \/ \E t \in Threads : D!Return(t)

LEMMA EnqueuesStepKeeps ==
    ASSUME NodesAssumption, EnqueuesInv, EnqueuesStep
    PROVE  EnqueuesInv'
  <1> USE DEF EnqueuesInv, SessionInv, Untouched, Phases, Stages, E!callVars,
              E!sessionVars, E!wordVars
  <1>1. ASSUME NEW t \in Threads, NEW v \in Values, E!Invoke(t, v)
        PROVE  EnqueuesInv'
    BY <1>1 DEF E!Invoke
  <1>2. ASSUME NEW t \in Threads, E!Begin(t)
        PROVE  EnqueuesInv'
    BY <1>2 DEF E!Begin
  <1>3. ASSUME NEW t \in Threads, NEW w, E!Serve(t, w, EnqueueRet)
        PROVE  EnqueuesInv'
    BY <1>3 DEF E!Serve
  <1>4. CASE E!FinalPersist \/ E!FlushState
    BY <1>4 DEF E!FinalPersist, E!FlushState, E!Advance
  <1>5. CASE E!Publish \/ E!FlushPointer
    BY <1>5 DEF E!Publish, E!FlushPointer, E!Advance
  <1>6. CASE E!AfterPersist
    BY <1>6 DEF E!AfterPersist, E!Advance
  <1>7. CASE E!Unlock
    BY <1>7 DEF E!Unlock
  <1>8. CASE E!Evict
    BY <1>8 DEF E!Evict
  <1>9. ASSUME NEW t \in Threads, E!Return(t)
        PROVE  EnqueuesInv'
    BY <1>9, NodesAssumption DEF E!Return, NodesAssumption
  <1> QED
    BY <1>1, <1>2, <1>3, <1>4, <1>5, <1>6, <1>7, <1>8, <1>9
       DEF EnqueuesStep, E!Persist

LEMMA DequeuesStepKeeps ==
    ASSUME NodesAssumption, DequeuesInv, DequeuesStep
    PROVE  DequeuesInv'
  <1> USE DEF DequeuesInv, SessionInv, Untouched, Phases, Stages, D!callVars,
              D!sessionVars, D!wordVars
  <1>1. ASSUME NEW t \in Threads, D!Invoke(t, DeqArg)
        PROVE  DequeuesInv'
    BY <1>1 DEF D!Invoke
  <1>2. ASSUME NEW t \in Threads, D!Begin(t)
        PROVE  DequeuesInv'
    BY <1>2 DEF D!Begin
  <1>3. ASSUME NEW t \in Threads, NEW w, NEW v, D!Serve(t, w, v)
        PROVE  DequeuesInv'
    BY <1>3 DEF D!Serve
  <1>4. CASE D!FinalPersist \/ D!FlushState
    BY <1>4 DEF D!FinalPersist, D!FlushState, D!Advance
  <1>5. CASE D!Publish \/ D!FlushPointer
    BY <1>5 DEF D!Publish, D!FlushPointer, D!Advance
  <1>6. CASE D!AfterPersist
    BY <1>6 DEF D!AfterPersist, D!Advance
  <1>7. CASE D!Unlock
    BY <1>7 DEF D!Unlock
  <1>8. CASE D!Evict
    BY <1>8 DEF D!Evict
  <1>9. ASSUME NEW t \in Threads, D!Return(t)
        PROVE  DequeuesInv'
    BY <1>9, NodesAssumption DEF D!Return, NodesAssumption
  <1> QED
    BY <1>1, <1>2, <1>3, <1>4, <1>5, <1>6, <1>7, <1>8, <1>9
       DEF DequeuesStep, D!Persist

LEMMA SessionSteps ==
    ASSUME [Next]_vars
    PROVE  /\ EnqueuesStep \/ UNCHANGED enqVars
           /\ DequeuesStep \/ UNCHANGED deqVars
           /\ UNCHANGED enqVars \/ UNCHANGED deqVars
  <1> USE DEF vars, enqVars, deqVars
  <1>1. CASE UNCHANGED vars
    BY <1>1
  <1>2. ASSUME NEW t \in Threads, NEW v \in Values, ApplyEnqueue(t, v)
        PROVE  EnqueuesStep /\ UNCHANGED deqVars
    BY <1>2 DEF ApplyEnqueue, EnqueuesStep
  <1>3. ASSUME NEW t \in Threads, ApplyDequeue(t)
        PROVE  DequeuesStep /\ UNCHANGED enqVars
    BY <1>3 DEF ApplyDequeue, DequeuesStep
  <1>4. ASSUME NEW t \in Threads, BeginEnqueues(t)
        PROVE  EnqueuesStep /\ UNCHANGED deqVars
    BY <1>4 DEF BeginEnqueues, EnqueuesStep
  <1>5. ASSUME NEW t \in Threads, BeginDequeues(t)
        PROVE  DequeuesStep /\ UNCHANGED enqVars
    BY <1>5 DEF BeginDequeues, DequeuesStep
  <1>6. ASSUME NEW t \in Threads, serialEnqueue(t)
        PROVE  EnqueuesStep /\ UNCHANGED deqVars
    <2>1. PICK n : E!Serve(t, n, EnqueueRet) /\ UNCHANGED deqVars
      BY <1>6 DEF serialEnqueue
    <2> QED
      BY <2>1 DEF EnqueuesStep
  <1>7. ASSUME NEW t \in Threads, serialDequeue(t)
        PROVE  DequeuesStep /\ UNCHANGED enqVars
    <2>1. PICK w, v : D!Serve(t, w, v) /\ UNCHANGED enqVars
      BY <1>7 DEF serialDequeue
    <2> QED
      BY <2>1 DEF DequeuesStep
  <1>8. CASE FinalPersist \/ AfterPersist
    BY <1>8 DEF FinalPersist, AfterPersist, EnqueuesStep, E!Persist
  <1>9. CASE EnqueueCombinerStep
    BY <1>9 DEF EnqueueCombinerStep, EnqueuesStep, E!Persist
  <1>10. CASE DequeueCombinerStep
    BY <1>10 DEF DequeueCombinerStep, DequeuesStep, D!Persist
  <1> QED
    BY <1>1, <1>2, <1>3, <1>4, <1>5, <1>6, <1>7, <1>8, <1>9, <1>10 DEF Next

LEMMA NextKeepsSessions ==
    ASSUME NodesAssumption, SessionsInv, [Next]_vars
    PROVE  SessionsInv'
  <1>1. EnqueuesInv'
    <2>1. CASE EnqueuesStep
      BY <2>1, EnqueuesStepKeeps DEF SessionsInv
    <2>2. CASE UNCHANGED enqVars
      BY <2>2 DEF enqVars, EnqueuesInv, SessionInv, Untouched, SessionsInv
    <2> QED
      BY <2>1, <2>2, SessionSteps
  <1>2. DequeuesInv'
    <2>1. CASE DequeuesStep
      BY <2>1, DequeuesStepKeeps DEF SessionsInv
    <2>2. CASE UNCHANGED deqVars
      BY <2>2 DEF deqVars, DequeuesInv, SessionInv, Untouched, SessionsInv
    <2> QED
      BY <2>1, <2>2, SessionSteps
  <1>3. OneCall'
    <2> USE DEF SessionsInv, EnqueuesInv, DequeuesInv, OneCall, IsIdle,
            enqVars, deqVars
    <2>1. CASE EnqueuesStep /\ UNCHANGED deqVars
      BY <2>1 DEF EnqueuesStep, E!Invoke, E!Begin, E!Serve, E!Unlock, E!Evict,
            E!Return, E!Persist, E!FinalPersist, E!FlushState, E!Publish,
            E!FlushPointer, E!AfterPersist, E!Advance, E!callVars
    <2>2. CASE DequeuesStep /\ UNCHANGED enqVars
      BY <2>2 DEF DequeuesStep, D!Invoke, D!Begin, D!Serve, D!Unlock, D!Evict,
            D!Return, D!Persist, D!FinalPersist, D!FlushState, D!Publish,
            D!FlushPointer, D!AfterPersist, D!Advance, D!callVars
    <2>3. CASE UNCHANGED <<enqVars, deqVars>>
      BY <2>3
    <2> QED
      BY <2>1, <2>2, <2>3, SessionSteps
  <1> QED
    BY <1>1, <1>2, <1>3 DEF SessionsInv

-----------------------------------------------------------------------------
(* PBQueue: the batch of a session                                           *)

(* The batch of the session under way: the nodes behind aux.                 *)
Applied == {t \in Threads : e_phase[t] = "applied"}

BatchInv ==
    /\ enqueue_counter \in Nat
    /\ e_stage \in {"free", "unlock"} => aux = e_word
    /\ e_stage \in {"serving", "flush_state", "publish"} =>
          e_durable \in {Unformatted, aux}
    /\ e_durable \in {Unformatted, aux, e_word}
    /\ IF enqueue_counter > 0 THEN tail = e_word ELSE aux = e_word
    /\ enqueue_counter <=
          Cardinality(IF e_stage = "free" THEN Threads ELSE Applied)

LEMMA AppliedFinite ==
    ASSUME NodesAssumption
    PROVE  /\ IsFiniteSet(Applied) /\ IsFiniteSet(Threads)
           /\ Cardinality(Applied) \in Nat /\ Cardinality(Threads) \in Nat
           /\ Cardinality(Applied) <= Cardinality(Threads)
  <1>1. IsFiniteSet(Threads) /\ Applied \subseteq Threads
    BY DEF NodesAssumption, Applied
  <1> QED
    BY <1>1, FS_Subset, FS_CardinalityType

LEMMA ServeCounts ==
    ASSUME NodesAssumption, EnqueuesInv, NEW k \in Threads, NEW w, E!Serve(k, w, EnqueueRet)
    PROVE  Cardinality(Applied') = Cardinality(Applied) + 1
  <1>1. Applied' = Applied \union {k} /\ k \notin Applied
    BY DEF Applied, E!Serve, EnqueuesInv
  <1> QED
    BY <1>1, AppliedFinite, FS_AddElement

LEMMA NextKeepsBatch ==
    ASSUME NodesAssumption, SessionsInv, BatchInv, [Next]_vars
    PROVE  BatchInv'
  <1> USE DEF BatchInv, E!callVars, E!sessionVars, E!wordVars
  <1>1. EnqueuesInv /\ e_phase \in [Threads -> Phases]
    BY DEF SessionsInv, EnqueuesInv
  <1>2. /\ Cardinality(Applied) \in Nat /\ Cardinality(Threads) \in Nat
        /\ Cardinality(Applied) <= Cardinality(Threads)
    BY AppliedFinite
  <1>3. ASSUME UNCHANGED <<enqVars, aux, batchVars>>
        PROVE  BatchInv'
    BY <1>3 DEF enqVars, batchVars, Applied
  <1>4. ASSUME NEW t \in Threads, NEW v \in Values, ApplyEnqueue(t, v)
        PROVE  BatchInv'
    <2>1. Applied' = Applied
      BY <1>1, <1>4 DEF ApplyEnqueue, E!Invoke, Applied
    <2> QED
      BY <2>1, <1>4 DEF ApplyEnqueue, E!Invoke, batchVars
  <1>5. ASSUME NEW t \in Threads, BeginEnqueues(t)
        PROVE  BatchInv'
    <2>1. e_stage = "free" /\ e_stage' = "serving" /\ aux = e_word
      BY <1>5 DEF BeginEnqueues, E!Begin
    <2>2. e_durable \in {Unformatted, aux}
      BY <2>1
    <2>3. Applied' = Applied
      BY <1>5 DEF BeginEnqueues, E!Begin, Applied
    <2>4. /\ enqueue_counter' = 0 /\ aux' = aux /\ e_word' = e_word
          /\ e_durable' = e_durable
      BY <1>5 DEF BeginEnqueues, EmptyBatch, E!Begin
    <2> QED
      BY <2>1, <2>2, <2>3, <2>4, <1>2
  <1>6. ASSUME NEW t \in Threads, serialEnqueue(t)
        PROVE  BatchInv'
    <2>1. PICK n : /\ E!Serve(t, n, EnqueueRet) /\ tail' = n /\ aux' = aux
                   /\ enqueue_counter' = enqueue_counter + 1
      BY <1>6 DEF serialEnqueue
    <2>2. Cardinality(Applied') = Cardinality(Applied) + 1
      BY <1>1, <2>1, ServeCounts
    <2>3. /\ e_stage = "serving" /\ e_stage' = "serving" /\ e_word' = n
          /\ e_durable' = e_durable
      BY <2>1 DEF E!Serve
    <2> QED
      BY <2>1, <2>2, <2>3, <1>2
  <1>7. CASE FinalPersist
    BY <1>7 DEF FinalPersist, E!FinalPersist, E!Advance, batchVars, Applied
  <1>8. CASE AfterPersist
    <2>1. /\ e_stage = "after_persist" /\ e_stage' = "unlock" /\ aux' = ExposedTail
          /\ e_word' = e_word /\ e_durable' = e_durable /\ e_durable = e_word
          /\ Applied' = Applied
      BY <1>1, <1>8 DEF AfterPersist, E!AfterPersist, E!Advance, Applied, EnqueuesInv,
            SessionInv
    <2>2. aux' = e_word
      BY <2>1 DEF ExposedTail
    <2> QED
      BY <2>1, <2>2, <1>8 DEF AfterPersist, batchVars
  <1>9. CASE EnqueueCombinerStep
    <2>1. aux' = aux /\ UNCHANGED batchVars
      BY <1>9 DEF EnqueueCombinerStep
    <2> USE DEF EnqueuesInv, SessionInv, Untouched, batchVars
    <2>2. CASE E!FlushState
      BY <1>1, <2>1, <2>2 DEF E!FlushState, E!Advance, Applied
    <2>3. CASE E!Publish
      BY <1>1, <2>1, <2>3 DEF E!Publish, E!Advance, Applied
    <2>4. CASE E!FlushPointer
      BY <1>1, <2>1, <2>4 DEF E!FlushPointer, E!Advance, Applied
    <2>5. CASE E!Evict
      <3>1. Applied' = Applied
        BY <2>5 DEF E!Evict, Applied
      <3> QED
        BY <1>1, <2>1, <2>5, <3>1 DEF E!Evict
    <2>6. CASE E!Unlock
      BY <1>1, <1>2, <2>1, <2>6 DEF E!Unlock
    <2>7. ASSUME NEW t \in Threads, E!Return(t)
          PROVE  BatchInv'
      <3>1. Applied' = Applied
        BY <1>1, <2>7 DEF E!Return, Applied
      <3> QED
        BY <2>1, <2>7, <3>1 DEF E!Return
    <2> QED
      BY <1>9, <2>2, <2>3, <2>4, <2>5, <2>6, <2>7 DEF EnqueueCombinerStep
  <1> QED
    BY <1>3, <1>4, <1>5, <1>6, <1>7, <1>8, <1>9
       DEF Next, vars, ApplyDequeue, BeginDequeues, serialDequeue, DequeueCombinerStep

-----------------------------------------------------------------------------
(* The nodes and their links                                                 *)

LEMMA NodesFinite ==
    ASSUME NodesAssumption
    PROVE  IsFiniteSet(Nodes) /\ Cardinality(Nodes) \in Nat
  <1>1. PoolEntries - 1 \in Int /\ 0 \in Int
    BY DEF NodesAssumption
  <1>2. IsFiniteSet(0 .. PoolEntries - 1)
    BY <1>1, FS_Interval
  <1>3. IsFiniteSet(PoolNodes)
    BY <1>2, FS_Product DEF PoolNodes, NodesAssumption
  <1> QED
    BY <1>3, FS_AddElement, FS_CardinalityType DEF Nodes

(* The dummy a crash would leave, or the dummy if it leaves nothing; the     *)
(* chain of nodes from there on.                                             *)
First == IF d_durable = Unformatted THEN d_word ELSE d_durable

Chain == ListFrom(next, Null, First, Cardinality(Nodes))

(* What the variables about the nodes hold. *)
DataInv ==
    /\ d_result \in [Threads -> Values \union {EmptyRet, NoVal}]
    /\ {e_word, d_word, aux} \subseteq Nodes
    /\ {e_published, e_durable, d_published, d_durable}
           \subseteq Nodes \union {Unformatted}
    /\ val \in [Nodes -> Values \union {Junk}]
    /\ next \in [Nodes -> Words]
    /\ clean_val \subseteq Nodes /\ clean_next \subseteq Nodes
    /\ recycle_list \in [Threads -> Seq(Nodes)]
    /\ cur_entry \in [Threads -> 0 .. PoolEntries]
    /\ clNewItems \subseteq {Line(n) : n \in Nodes}
    /\ tail \in Words

(* The chain s has the dummy at i, aux at j, and ends with the last node.    *)
Linked(s, i, j) ==
    /\ IsListFrom(s, next, Null, First)
    /\ s[i] = d_word /\ s[j] = aux /\ s[Len(s)] = e_word

(* What is before the dummy, the session under way has removed.              *)
Removed(s, i) ==
    \A x \in 1 .. i - 1 :
        d_stage # "free" /\ s[x] \in ToSet(recycle_list[d_combiner])

(* What is behind it has a value, which is durable up to aux, and behind aux *)
(* listed for the flush until it is flushed.                                 *)
Written(s, i, j) ==
    /\ \A x \in i + 1 .. j : s[x] \in clean_val
    /\ \A x \in j + 1 .. Len(s) :
          IF e_stage = "serving" THEN Line(s[x]) \in clNewItems
          ELSE s[x] \in clean_val
    /\ \A x \in i + 1 .. Len(s) : val[s[x]] \in Values
    /\ e_durable = Unformatted => i = j

(* The nodes that ever left a pool for the first time. *)
Issued == {Guard} \union {n \in PoolNodes : n[2] < cur_entry[n[1]]}

PoolsInv ==
    /\ \A t \in Threads : IsInjective(recycle_list[t])
    /\ \A t, u \in Threads :
          t # u => ToSet(recycle_list[t]) \intersect ToSet(recycle_list[u]) = {}

Placed(s, i) ==
    /\ \A x \in i .. Len(s) : s[x] \notin InPools
    /\ InPools \union {s[x] : x \in i .. Len(s)} = Issued

Held(s, i, j) ==
    Linked(s, i, j) /\ Removed(s, i) /\ Written(s, i, j) /\ Placed(s, i)

ChainInv ==
    \E i \in 1 .. Len(Chain) : \E j \in i .. Len(Chain) : Held(Chain, i, j)

QueueInv == NodesAssumption /\ SessionsInv /\ BatchInv /\ DataInv /\ PoolsInv /\ ChainInv

LEMMA ChainIs ==
    ASSUME NodesAssumption, NEW link \in [Nodes -> Words], NEW w, NEW s,
           IsListFrom(s, link, Null, w)
    PROVE  ListFrom(link, Null, w, Cardinality(Nodes)) = s
  <1>1. DOMAIN link = Nodes
    OBVIOUS
  <1>2. Null \notin DOMAIN link
    BY <1>1 DEF NodesAssumption
  <1>3. PICK m : m = Cardinality(Nodes)
    OBVIOUS
  <1>4. IsFiniteSet(DOMAIN link) /\ Cardinality(DOMAIN link) <= m /\ m \in Nat
    BY <1>1, <1>3, NodesFinite
  <1> QED
    BY <1>2, <1>3, <1>4, ListFound

(* It is enough to name a chain after a step.                                *)
LEMMA ChainAfter ==
    ASSUME NodesAssumption, DataInv', NEW s, NEW i \in 1 .. Len(s),
           NEW j \in i .. Len(s), Held(s, i, j)'
    PROVE  ChainInv'
  <1>1. PICK link, w : link = next' /\ w = First'
    OBVIOUS
  <1>2. link \in [Nodes -> Words] /\ IsListFrom(s, link, Null, w)
    BY <1>1 DEF DataInv, Held, Linked
  <1>3. Chain' = s
    BY <1>1, <1>2, ChainIs DEF Chain
  <1>4. PICK c : c = Chain'
    OBVIOUS
  <1>5. \E a \in 1 .. Len(c) : \E b \in a .. Len(c) : Held(c, a, b)'
    BY <1>3, <1>4
  <1> QED
    BY <1>4, <1>5, SMTT(30) DEF ChainInv, Held, Linked, Removed, Written, Placed

(* The facts about a chain that the steps use.                               *)
LEMMA ChainFacts ==
    ASSUME QueueInv, NEW s, NEW i \in 1 .. Len(s), NEW j \in i .. Len(s), Linked(s, i, j)
    PROVE  /\ s \in Seq(Nodes) /\ Len(s) \in Nat /\ s # <<>>
           /\ ToSet(s) = {s[x] : x \in 1 .. Len(s)}
           /\ \A x \in 1 .. Len(s) : s[x] \in Nodes
           /\ \A x, y \in 1 .. Len(s) : s[x] = s[y] => x = y
           /\ s[1] = First
           /\ \A x \in 1 .. Len(s) : next[s[x]] = IF x = Len(s) THEN Null ELSE s[x + 1]
           /\ i = j <=> d_word = aux
           /\ j = Len(s) <=> aux = e_word
           /\ i = 1 <=> First = d_word
  <1>1. DOMAIN next = Nodes
    BY DEF QueueInv, DataInv
  <1>2. /\ s \in Seq(Nodes) /\ IsInjective(s)
        /\ First = IF s = <<>> THEN Null ELSE s[1]
        /\ \A x \in 1 .. Len(s) : next[s[x]] = IF x = Len(s) THEN Null ELSE s[x + 1]
    BY <1>1 DEF Linked, IsListFrom
  <1>3. /\ Len(s) \in Nat /\ ToSet(s) = {s[x] : x \in 1 .. Len(s)}
        /\ \A x, y \in 1 .. Len(s) : s[x] = s[y] => x = y
        /\ \A x \in 1 .. Len(s) : s[x] \in Nodes
    BY <1>2, InjectiveSeq
  <1>4. s # <<>> /\ {1, i, j, Len(s)} \subseteq 1 .. Len(s)
    BY <1>2, <1>3, EmptySeq
  <1> QED
    BY <1>2, <1>3, <1>4 DEF Linked

-----------------------------------------------------------------------------
(* A step that changes the pools or the links, in general                    *)

LEMMA PoolChanged ==
    ASSUME recycle_list \in [Threads -> Seq(Nodes)], PoolsInv, NEW p \in Threads,
           NEW r \in Seq(Nodes), IsInjective(r),
           \A t \in Threads : t # p => ToSet(r) \intersect ToSet(recycle_list[t]) = {},
           recycle_list' = [recycle_list EXCEPT ![p] = r]
    PROVE  /\ recycle_list' \in [Threads -> Seq(Nodes)]
           /\ PoolsInv'
           /\ InPools' = (InPools \ ToSet(recycle_list[p])) \union ToSet(r)
           /\ recycle_list'[p] = r
           /\ \A t \in Threads : t # p => recycle_list'[t] = recycle_list[t]
  <1>1. /\ recycle_list' \in [Threads -> Seq(Nodes)] /\ recycle_list'[p] = r
        /\ \A t \in Threads : t # p => recycle_list'[t] = recycle_list[t]
    OBVIOUS
  <1>2. PoolsInv'
    <2>1. \A t \in Threads : IsInjective(recycle_list'[t])
      BY <1>1 DEF PoolsInv
    <2>2. \A t, u \in Threads :
             t # u => ToSet(recycle_list'[t]) \intersect ToSet(recycle_list'[u]) = {}
      BY <1>1 DEF PoolsInv
    <2> QED
      BY <2>1, <2>2 DEF PoolsInv
  <1>3. InPools' = (InPools \ ToSet(recycle_list[p])) \union ToSet(r)
    <2>1. \A x : x \in InPools' <=> \E t \in Threads : x \in ToSet(recycle_list'[t])
      BY DEF InPools
    <2>2. \A x : x \in InPools <=> \E t \in Threads : x \in ToSet(recycle_list[t])
      BY DEF InPools
    <2>3. ASSUME NEW x \in InPools'
          PROVE  x \in (InPools \ ToSet(recycle_list[p])) \union ToSet(r)
      <3>1. PICK t \in Threads : x \in ToSet(recycle_list'[t])
        BY <2>1, <2>3
      <3>2. CASE t = p
        BY <3>1, <3>2, <1>1
      <3>3. CASE t # p
        BY <3>1, <3>3, <1>1, <2>2 DEF PoolsInv
      <3> QED
        BY <3>2, <3>3
    <2>4. ASSUME NEW x \in (InPools \ ToSet(recycle_list[p])) \union ToSet(r)
          PROVE  x \in InPools'
      <3>1. CASE x \in ToSet(r)
        BY <3>1, <1>1, <2>1
      <3>2. CASE x \in InPools /\ x \notin ToSet(recycle_list[p])
        BY <3>2, <1>1, <2>1, <2>2
      <3> QED
        BY <3>1, <3>2, <2>4
    <2> QED
      BY <2>3, <2>4
  <1> QED
    BY <1>1, <1>2, <1>3

(* synchAllocObj takes a node from the pool, or one that was never in it.    *)
LEMMA AllocTakes ==
    ASSUME NodesAssumption, DataInv, PoolsInv, InPools \subseteq Issued,
           NEW p \in Threads, CanAlloc(p), Alloc(p)
    PROVE  /\ AllocatedNode(p) \in PoolNodes \union InPools
           /\ recycle_list' \in [Threads -> Seq(Nodes)]
           /\ cur_entry' \in [Threads -> 0 .. PoolEntries]
           /\ PoolsInv'
           /\ InPools' = InPools \ {AllocatedNode(p)}
           /\ Issued' = Issued \union {AllocatedNode(p)}
           /\ \/ AllocatedNode(p) \in ToSet(recycle_list[p])
              \/ AllocatedNode(p) \notin Issued
           /\ \A t \in Threads : t # p => recycle_list'[t] = recycle_list[t]
  <1>1. /\ recycle_list \in [Threads -> Seq(Nodes)]
        /\ cur_entry \in [Threads -> 0 .. PoolEntries] /\ PoolEntries \in Nat
        /\ recycle_list[p] \in Seq(Nodes) /\ cur_entry[p] \in 0 .. PoolEntries
    BY DEF DataInv, NodesAssumption
  <1>2. CASE recycle_list[p] # <<>>
    <2>1. PICK n, r : n = Head(recycle_list[p]) /\ r = Tail(recycle_list[p])
      OBVIOUS
    <2>2. /\ AllocatedNode(p) = n /\ cur_entry' = cur_entry
          /\ recycle_list' = [recycle_list EXCEPT ![p] = r]
      BY <1>2, <2>1 DEF AllocatedNode, Alloc
    <2>3. /\ n \in Nodes /\ r \in Seq(Nodes)
          /\ ToSet(recycle_list[p]) = {n} \union ToSet(r)
          /\ IsInjective(r) /\ n \notin ToSet(r)
      BY <1>1, <1>2, <2>1, TakeHead DEF PoolsInv
    <2>4. \A t \in Threads : t # p => ToSet(r) \intersect ToSet(recycle_list[t]) = {}
      BY <2>3 DEF PoolsInv
    <2>5. /\ recycle_list' \in [Threads -> Seq(Nodes)] /\ PoolsInv'
          /\ InPools' = (InPools \ ToSet(recycle_list[p])) \union ToSet(r)
          /\ \A t \in Threads : t # p => recycle_list'[t] = recycle_list[t]
      BY <1>1, <2>2, <2>3, <2>4, PoolChanged
    <2>6. ToSet(recycle_list[p]) \subseteq InPools
      BY DEF InPools
    <2>7. n \in InPools /\ n \in Issued /\ Issued' = Issued
      BY <2>2, <2>3, <2>6 DEF Issued
    <2> QED
      BY <1>1, <2>2, <2>3, <2>5, <2>6, <2>7
  <1>3. CASE recycle_list[p] = <<>>
    <2>1. PICK n : n = <<p, cur_entry[p]>>
      OBVIOUS
    <2>2. /\ AllocatedNode(p) = n /\ recycle_list' = recycle_list
          /\ cur_entry' = [cur_entry EXCEPT ![p] = cur_entry[p] + 1]
          /\ cur_entry[p] < PoolEntries
      BY <1>3, <2>1 DEF AllocatedNode, Alloc, CanAlloc
    <2>3. /\ n \in PoolNodes /\ n[1] = p /\ n[2] = cur_entry[p]
          /\ cur_entry' \in [Threads -> 0 .. PoolEntries]
      BY <1>1, <2>1, <2>2 DEF PoolNodes
    <2>4. n \notin Issued
      BY <1>1, <2>3 DEF Issued, NodesAssumption
    <2>5. Issued' = Issued \union {n}
      <3>1. ASSUME NEW m \in PoolNodes
            PROVE  m[2] < cur_entry'[m[1]] <=> m[2] < cur_entry[m[1]] \/ m = n
        <4>1. m = <<m[1], m[2]>> /\ m[1] \in Threads /\ m[2] \in 0 .. PoolEntries - 1
          BY DEF PoolNodes
        <4>2. cur_entry[m[1]] \in Int /\ m[2] \in Int
          BY <1>1, <4>1
        <4>3. CASE m[1] = p
          <5>1. cur_entry'[m[1]] = cur_entry[p] + 1
            BY <1>1, <2>2, <4>3
          <5>2. m = n <=> m[2] = cur_entry[p]
            BY <2>1, <4>1, <4>3
          <5> QED
            BY <5>1, <5>2, <4>2, <4>3
        <4>4. CASE m[1] # p
          <5>1. cur_entry'[m[1]] = cur_entry[m[1]] /\ m # n
            BY <1>1, <2>2, <2>3, <4>1, <4>4
          <5> QED
            BY <5>1
        <4> QED
          BY <4>3, <4>4
      <3> QED
        BY <3>1, <2>3 DEF Issued
    <2>6. InPools' = InPools /\ n \notin InPools /\ PoolsInv'
      BY <2>2, <2>4 DEF InPools, PoolsInv
    <2> QED
      BY <1>1, <2>2, <2>3, <2>4, <2>5, <2>6
  <1> QED
    BY <1>2, <1>3

(* synchRecycleObj gives a node to a pool.                                   *)
LEMMA RecyclePuts ==
    ASSUME DataInv, PoolsInv, NEW p \in Threads, NEW n \in Nodes, n \notin InPools,
           recycle_list' = [recycle_list EXCEPT ![p] = <<n>> \o @]
    PROVE  /\ recycle_list' \in [Threads -> Seq(Nodes)]
           /\ PoolsInv'
           /\ InPools' = InPools \union {n}
           /\ ToSet(recycle_list'[p]) = ToSet(recycle_list[p]) \union {n}
  <1>1. recycle_list \in [Threads -> Seq(Nodes)] /\ recycle_list[p] \in Seq(Nodes)
    BY DEF DataInv
  <1>2. PICK r : r = <<n>> \o recycle_list[p]
    OBVIOUS
  <1>3. \A t \in Threads : ToSet(recycle_list[t]) \subseteq InPools
    BY DEF InPools
  <1>4. /\ r \in Seq(Nodes) /\ IsInjective(r)
        /\ ToSet(r) = {n} \union ToSet(recycle_list[p])
    BY <1>1, <1>2, <1>3, PutFirst DEF PoolsInv
  <1>5. \A t \in Threads : t # p => ToSet(r) \intersect ToSet(recycle_list[t]) = {}
    BY <1>3, <1>4 DEF PoolsInv
  <1>6. /\ recycle_list' \in [Threads -> Seq(Nodes)] /\ PoolsInv'
        /\ InPools' = (InPools \ ToSet(recycle_list[p])) \union ToSet(r)
        /\ recycle_list'[p] = r
    BY <1>1, <1>2, <1>4, <1>5, PoolChanged
  <1> QED
    BY <1>3, <1>4, <1>6

-----------------------------------------------------------------------------
(* The nodes in every step: persisting and recycling                         *)

NodesInv == DataInv /\ PoolsInv /\ ChainInv

LEMMA TheChain ==
    ASSUME QueueInv
    PROVE  \E s : \E i \in 1 .. Len(s) : \E j \in i .. Len(s) : Held(s, i, j)
  BY DEF QueueInv, ChainInv

(* A step that leaves the nodes, the dummy and aux alone, and the durable    *)
(* pointers.                                                                 *)
LEMMA CalmStep ==
    ASSUME QueueInv,
           UNCHANGED <<aux, e_word, e_durable, d_word, d_durable>>,
           UNCHANGED <<val, next, clean_val, clean_next, recycle_list, cur_entry>>,
           e_published' \in {e_published, e_word},
           d_published' \in {d_published, d_word},
           d_result' \in [Threads -> Values \union {EmptyRet, NoVal}],
           tail' \in Words, clNewItems' \subseteq {Line(n) : n \in Nodes},
           \/ d_stage = "free" \/ First = d_word
           \/ d_stage' # "free" /\ d_combiner' = d_combiner,
           e_stage = "serving" => e_stage' = "serving",
           e_stage' = "serving" =>
              (e_stage = "serving" /\ clNewItems' = clNewItems) \/ aux = e_word
    PROVE  NodesInv'
  <1>1. DataInv'
    BY DEF QueueInv, DataInv
  <1>2. PoolsInv'
    BY DEF QueueInv, PoolsInv
  <1>3. PICK s : \E i \in 1 .. Len(s) : \E j \in i .. Len(s) : Held(s, i, j)
    BY TheChain
  <1>4a. PICK i \in 1 .. Len(s) : \E j \in i .. Len(s) : Held(s, i, j)
    BY <1>3
  <1>4. PICK j \in i .. Len(s) : Held(s, i, j)
    BY <1>4a
  <1>5. Linked(s, i, j) /\ Removed(s, i) /\ Written(s, i, j) /\ Placed(s, i)
    BY <1>4 DEF Held
  <1>6. /\ j = Len(s) <=> aux = e_word
        /\ i = 1 <=> First = d_word
        /\ Len(s) \in Nat
    BY <1>5, ChainFacts
  <1>7. Linked(s, i, j)'
    BY <1>5 DEF Linked, First
  <1>8. Removed(s, i)'
    <2>1. CASE d_stage = "free"
      BY <1>5, <2>1 DEF Removed
    <2>2. CASE First = d_word
      BY <1>6, <2>2 DEF Removed
    <2>3. CASE d_stage' # "free" /\ d_combiner' = d_combiner
      BY <1>5, <2>3 DEF Removed
    <2> QED
      BY <2>1, <2>2, <2>3
  <1>9. Written(s, i, j)'
    <2>1. \A x \in j + 1 .. Len(s) :
             IF e_stage' = "serving" THEN Line(s[x]) \in clNewItems'
             ELSE s[x] \in clean_val'
      <3>1. CASE aux = e_word
        BY <3>1, <1>6
      <3>2. CASE e_stage = "serving" /\ e_stage' = "serving" /\ clNewItems' = clNewItems
        BY <3>2, <1>5 DEF Written
      <3>3. CASE e_stage # "serving" /\ e_stage' # "serving"
        BY <3>3, <1>5 DEF Written
      <3> QED
        BY <3>1, <3>2, <3>3
    <2> QED
      BY <2>1, <1>5 DEF Written
  <1>10. Placed(s, i)'
    BY <1>5 DEF Placed, InPools, Issued
  <1>11. Held(s, i, j)'
    BY <1>7, <1>8, <1>9, <1>10 DEF Held
  <1> QED
    BY <1>1, <1>2, <1>11, ChainAfter DEF NodesInv, QueueInv

(* clPersist_enqueued_nodes flushes the lines of the batch.                  *)
LEMMA FinalPersistKeeps ==
    ASSUME QueueInv, FinalPersist
    PROVE  NodesInv'
  <1>1. /\ e_stage = "serving" /\ e_stage' = "flush_state"
        /\ clean_val' = clean_val \union {n \in Nodes : Line(n) \in clNewItems}
        /\ clean_next' = clean_next \union {n \in Nodes : Line(n) \in clNewItems}
        /\ UNCHANGED <<aux, val, next>>
        /\ UNCHANGED <<e_word, e_published, e_durable>>
        /\ UNCHANGED <<recycle_list, cur_entry>>
        /\ UNCHANGED <<d_result, d_stage, d_combiner, d_word, d_published, d_durable>>
        /\ UNCHANGED <<clNewItems, tail>>
    BY DEF FinalPersist, FlushedLines, E!FinalPersist, E!Advance, E!wordVars, deqVars,
           poolVars, batchVars
  <1>2. DataInv'
    BY <1>1 DEF QueueInv, DataInv
  <1>3. PoolsInv'
    BY <1>1 DEF QueueInv, PoolsInv
  <1>4. PICK s : \E i \in 1 .. Len(s) : \E j \in i .. Len(s) : Held(s, i, j)
    BY TheChain
  <1>5a. PICK i \in 1 .. Len(s) : \E j \in i .. Len(s) : Held(s, i, j)
    BY <1>4
  <1>5. PICK j \in i .. Len(s) : Held(s, i, j)
    BY <1>5a
  <1>6. Linked(s, i, j) /\ Removed(s, i) /\ Written(s, i, j) /\ Placed(s, i)
    BY <1>5 DEF Held
  <1>7. Len(s) \in Nat /\ \A x \in 1 .. Len(s) : s[x] \in Nodes
    BY <1>6, ChainFacts
  <1>8. Linked(s, i, j)' /\ Removed(s, i)' /\ Placed(s, i)'
    BY <1>1, <1>6 DEF Linked, First, Removed, Placed, InPools, Issued
  <1>9. Written(s, i, j)'
    <2>1. \A x \in j + 1 .. Len(s) : s[x] \in clean_val'
      BY <1>1, <1>6, <1>7 DEF Written
    <2> QED
      BY <2>1, <1>1, <1>6 DEF Written
  <1>10. Held(s, i, j)'
    BY <1>8, <1>9 DEF Held
  <1> QED
    BY <1>2, <1>3, <1>10, ChainAfter DEF NodesInv, QueueInv

(* updateAuxField moves aux to the end of the list.                          *)
LEMMA AfterPersistKeeps ==
    ASSUME QueueInv, AfterPersist
    PROVE  NodesInv'
  <1>1. /\ e_stage = "after_persist" /\ e_stage' = "unlock" /\ aux' = ExposedTail
        /\ UNCHANGED <<val, next, clean_val, clean_next>>
        /\ UNCHANGED <<e_word, e_published, e_durable>>
        /\ UNCHANGED <<recycle_list, cur_entry>>
        /\ UNCHANGED <<d_result, d_stage, d_combiner, d_word, d_published, d_durable>>
        /\ UNCHANGED <<clNewItems, tail>>
    BY DEF AfterPersist, E!AfterPersist, E!Advance, E!wordVars, deqVars, nodeVars,
           poolVars, batchVars
  <1>2. aux' = e_word
    BY <1>1 DEF ExposedTail, QueueInv, BatchInv
  <1>3. e_durable # Unformatted
    <2>1. e_durable = e_word
      BY <1>1 DEF QueueInv, SessionsInv, EnqueuesInv, SessionInv
    <2> QED
      BY <2>1 DEF QueueInv, DataInv, NodesAssumption
  <1>4. DataInv'
    BY <1>1, <1>2 DEF QueueInv, DataInv
  <1>5. PoolsInv'
    BY <1>1 DEF QueueInv, PoolsInv
  <1>6. PICK s : \E i \in 1 .. Len(s) : \E j \in i .. Len(s) : Held(s, i, j)
    BY TheChain
  <1>7a. PICK i \in 1 .. Len(s) : \E j \in i .. Len(s) : Held(s, i, j)
    BY <1>6
  <1>7. PICK j \in i .. Len(s) : Held(s, i, j)
    BY <1>7a
  <1>8. Linked(s, i, j) /\ Removed(s, i) /\ Written(s, i, j) /\ Placed(s, i)
    BY <1>7 DEF Held
  <1>9. PICK k : k = Len(s) /\ k \in Nat
    BY <1>8, ChainFacts
  <1>10. k \in i .. Len(s)
    BY <1>9
  <1>11. Linked(s, i, k)' /\ Removed(s, i)' /\ Placed(s, i)'
    BY <1>1, <1>2, <1>8, <1>9 DEF Linked, First, Removed, Placed, InPools, Issued
  <1>12. Written(s, i, k)'
    <2>1. ASSUME NEW x \in i + 1 .. k
          PROVE  s[x] \in clean_val'
      <3>1. x \in i + 1 .. j \/ x \in j + 1 .. Len(s)
        BY <1>9
      <3> QED
        BY <3>1, <1>1, <1>8 DEF Written
    <2> QED
      BY <2>1, <1>1, <1>3, <1>8, <1>9 DEF Written
  <1>13. Held(s, i, k)'
    BY <1>11, <1>12 DEF Held
  <1> QED
    BY <1>4, <1>5, <1>10, <1>13, ChainAfter DEF NodesInv, QueueInv

(* The pointer of the enqueues becomes durable.                              *)
LEMMA EnqueuePointerKeeps ==
    ASSUME QueueInv, E!FlushPointer \/ E!Evict,
           UNCHANGED <<aux, deqVars, nodeVars, poolVars, batchVars>>
    PROVE  NodesInv'
  <1>1. /\ e_durable' = e_published
        /\ UNCHANGED <<aux, val, next, clean_val, clean_next>>
        /\ UNCHANGED <<e_word, e_published>>
        /\ UNCHANGED <<recycle_list, cur_entry>>
        /\ UNCHANGED <<d_result, d_stage, d_combiner, d_word, d_published, d_durable>>
        /\ UNCHANGED <<clNewItems, tail>>
        /\ e_stage = e_stage' \/ (e_stage = "flush_pointer" /\ e_stage' = "after_persist")
    BY DEF E!FlushPointer, E!Evict, E!Advance, E!wordVars, E!sessionVars, deqVars,
           nodeVars, poolVars, batchVars
  <1>2. e_published = Unformatted => e_durable = Unformatted
    BY DEF QueueInv, SessionsInv, EnqueuesInv, SessionInv, Untouched, DataInv,
           NodesAssumption
  <1>3. DataInv'
    BY <1>1 DEF QueueInv, DataInv
  <1>4. PoolsInv'
    BY <1>1 DEF QueueInv, PoolsInv
  <1>5. PICK s : \E i \in 1 .. Len(s) : \E j \in i .. Len(s) : Held(s, i, j)
    BY TheChain
  <1>6a. PICK i \in 1 .. Len(s) : \E j \in i .. Len(s) : Held(s, i, j)
    BY <1>5
  <1>6. PICK j \in i .. Len(s) : Held(s, i, j)
    BY <1>6a
  <1>7. Linked(s, i, j) /\ Removed(s, i) /\ Written(s, i, j) /\ Placed(s, i)
    BY <1>6 DEF Held
  <1>8. Linked(s, i, j)' /\ Removed(s, i)' /\ Placed(s, i)'
    BY <1>1, <1>7 DEF Linked, First, Removed, Placed, InPools, Issued
  <1>9. Written(s, i, j)'
    BY <1>1, <1>2, <1>7 DEF Written
  <1>10. Held(s, i, j)'
    BY <1>8, <1>9 DEF Held
  <1> QED
    BY <1>3, <1>4, <1>10, ChainAfter DEF NodesInv, QueueInv

-----------------------------------------------------------------------------
(* The nodes in every step: the dequeues                                     *)

(* When the durable dummy moves up to the dummy, the chain begins there.     *)
LEMMA ShiftAfter ==
    ASSUME NodesAssumption, DataInv', NEW s, NEW i \in 1 .. Len(s), NEW j \in i .. Len(s),
           NEW w, IsListFrom(s, next', Null, w), First' = s[i],
           s[i] = d_word', s[j] = aux', s[Len(s)] = e_word',
           Written(s, i, j)', Placed(s, i)'
    PROVE  ChainInv'
  <1>1. PICK link, m : link = next' /\ m = Len(s)
    OBVIOUS
  <1>2. /\ DOMAIN link = Nodes /\ IsListFrom(s, link, Null, w)
        /\ i \in 1 .. m /\ m \in i .. m /\ m \in Nat
        /\ link[s[m]] = Null
    BY <1>1 DEF DataInv, IsListFrom
  <1>3. PICK u : u = SubSeq(s, i, m)
    OBVIOUS
  <1>4. PICK l : l = m - i + 1
    OBVIOUS
  <1>5. /\ IsListFrom(u, link, Null, s[i])
        /\ Len(u) = l
        /\ \A x \in 1 .. l : u[x] = s[i + x - 1]
    <2>1. \A x \in DOMAIN link : link[x] = IF x = s[m] THEN Null ELSE link[x]
      BY <1>2
    <2>2. i \in 1 .. Len(s) /\ m \in i .. Len(s)
      BY <1>1, <1>2
    <2>3. /\ IsListFrom(SubSeq(s, i, m), link, Null, s[i])
          /\ Len(SubSeq(s, i, m)) = m - i + 1
          /\ \A x \in 1 .. m - i + 1 : SubSeq(s, i, m)[x] = s[i + x - 1]
      BY <1>2, <2>1, <2>2, ListSegment
    <2> QED
      BY <2>3, <1>3, <1>4
  <1>6. PICK k : k = j - i + 1
    OBVIOUS
  <1>7. /\ 1 \in 1 .. l /\ k \in 1 .. l /\ l \in 1 .. l
        /\ i + 1 - 1 = i /\ i + k - 1 = j /\ i + l - 1 = m
    BY <1>1, <1>2, <1>4, <1>6
  <1>7a. /\ i \in Int /\ j \in Int /\ k \in Int /\ l \in Int /\ m \in Int
         /\ k = j - i + 1 /\ l = m - i + 1 /\ 1 <= i /\ i <= j /\ j <= m /\ m = Len(s)
    <2>1. m \in Int /\ i \in Int /\ 1 <= i
      BY <1>2
    <2>2. j \in i .. m
      BY <1>1
    <2>3. j \in Int /\ i <= j /\ j <= m
      BY <2>1, <2>2
    <2> QED
      BY <2>1, <2>3, <1>1, <1>4, <1>6
  <1>8. u[1] = s[i] /\ u[k] = s[j] /\ u[l] = s[m]
    BY <1>5, <1>7
  <1>9. Linked(u, 1, k)'
    BY <1>1, <1>5, <1>8 DEF Linked
  <1>10. Removed(u, 1)'
    BY DEF Removed
  <1>11. Written(u, 1, k)'
    <2>1. \A x \in 2 .. k : u[x] \in clean_val'
      <3> TAKE x \in 2 .. k
      <3>1. x \in 1 .. l /\ i + x - 1 \in i + 1 .. j
        BY <1>7a
      <3> QED
        BY <3>1, <1>5 DEF Written
    <2>2. \A x \in k + 1 .. l :
             IF e_stage' = "serving" THEN Line(u[x]) \in clNewItems'
             ELSE u[x] \in clean_val'
      <3> TAKE x \in k + 1 .. l
      <3>1. x \in 1 .. l /\ i + x - 1 \in j + 1 .. Len(s)
        BY <1>7a
      <3>2. IF e_stage' = "serving" THEN Line(s[i + x - 1]) \in clNewItems'
            ELSE s[i + x - 1] \in clean_val'
        BY <3>1 DEF Written
      <3>3. u[x] = s[i + x - 1]
        BY <3>1, <1>5
      <3> QED
        BY <3>2, <3>3
    <2>3. \A x \in 2 .. l : val'[u[x]] \in Values
      <3> TAKE x \in 2 .. l
      <3>1. x \in 1 .. l /\ i + x - 1 \in i + 1 .. Len(s)
        BY <1>1, <1>2, <1>4, <1>7
      <3> QED
        BY <3>1, <1>5 DEF Written
    <2>4. e_durable' = Unformatted => 1 = k
      BY <1>2, <1>6 DEF Written
    <2> QED
      BY <2>1, <2>2, <2>3, <2>4, <1>5 DEF Written
  <1>12. Placed(u, 1)'
    <2>1. \A x \in 1 .. l : i + x - 1 \in i .. Len(s)
      BY <1>1, <1>2, <1>4, <1>7
    <2>2. \A y \in i .. Len(s) : y - i + 1 \in 1 .. l /\ i + (y - i + 1) - 1 = y
      BY <1>1, <1>2, <1>4, <1>7
    <2>3. \A x \in 1 .. l : u[x] \notin InPools'
      BY <2>1, <1>5 DEF Placed
    <2>4. {u[x] : x \in 1 .. l} = {s[y] : y \in i .. Len(s)}
      <3>1. \A x \in 1 .. l : u[x] \in {s[y] : y \in i .. Len(s)}
        BY <2>1, <1>5
      <3>2. \A y \in i .. Len(s) : s[y] \in {u[x] : x \in 1 .. l}
        <4> TAKE y \in i .. Len(s)
        <4>1. u[y - i + 1] = s[y] /\ y - i + 1 \in 1 .. l
          BY <2>2, <1>5
        <4> QED
          BY <4>1
      <3> QED
        BY <3>1, <3>2
    <2> QED
      BY <2>3, <2>4, <1>5 DEF Placed
  <1>13. Held(u, 1, k)'
    BY <1>9, <1>10, <1>11, <1>12 DEF Held
  <1>14. 1 \in 1 .. Len(u) /\ k \in 1 .. Len(u)
    BY <1>5, <1>7
  <1> QED
    BY <1>13, <1>14, ChainAfter

(* The pointer of the dequeues becomes durable: what is before the dummy is  *)
(* forgotten.                                                                *)
LEMMA DequeuePointerKeeps ==
    ASSUME QueueInv, D!FlushPointer \/ D!Evict,
           UNCHANGED <<enqVars, aux, nodeVars, poolVars, batchVars>>
    PROVE  NodesInv'
  <1>1. /\ d_durable' = d_published
        /\ UNCHANGED <<aux, val, next, clean_val, clean_next>>
        /\ UNCHANGED <<d_word, d_published, d_result, d_combiner>>
        /\ UNCHANGED <<recycle_list, cur_entry>>
        /\ UNCHANGED <<e_stage, e_word, e_published, e_durable>>
        /\ UNCHANGED <<clNewItems, tail>>
        /\ \/ d_stage' = d_stage
           \/ d_stage = "flush_pointer" /\ d_stage' = "after_persist"
    BY DEF D!FlushPointer, D!Evict, D!Advance, D!wordVars, D!callVars, D!sessionVars,
           enqVars, nodeVars, poolVars, batchVars
  <1>2. d_published = d_durable \/ d_published = d_word
    BY DEF QueueInv, SessionsInv, DequeuesInv, SessionInv, Untouched
  <1>3. DataInv
    BY DEF QueueInv
  <1>4. CASE d_published = d_durable
    <2>1. \/ d_stage = "free" \/ First = d_word
          \/ d_stage' # "free" /\ d_combiner' = d_combiner
      BY <1>1
    <2>2. /\ d_result' \in [Threads -> Values \union {EmptyRet, NoVal}]
          /\ tail' \in Words /\ clNewItems' \subseteq {Line(n) : n \in Nodes}
      BY <1>1, <1>3 DEF DataInv
    <2> QED
      BY <1>1, <1>4, <2>1, <2>2, CalmStep
  <1>5. CASE d_published # d_durable
    <2>1. d_durable' = d_word /\ d_durable' # Unformatted /\ First' = d_word
      BY <1>1, <1>2, <1>3, <1>5 DEF DataInv, First, QueueInv, NodesAssumption
    <2>2. DataInv'
      BY <1>1, <1>3 DEF DataInv
    <2>3. PoolsInv'
      BY <1>1 DEF QueueInv, PoolsInv
    <2>4. PICK s : \E i \in 1 .. Len(s) : \E j \in i .. Len(s) : Held(s, i, j)
      BY TheChain
    <2>5. PICK i \in 1 .. Len(s) : \E j \in i .. Len(s) : Held(s, i, j)
      BY <2>4
    <2>6. PICK j \in i .. Len(s) : Held(s, i, j)
      BY <2>5
    <2>7. Linked(s, i, j) /\ Written(s, i, j) /\ Placed(s, i)
      BY <2>6 DEF Held
    <2>8. Written(s, i, j)' /\ Placed(s, i)'
      BY <1>1, <2>7 DEF Written, Placed, InPools, Issued
    <2>9. PICK w : IsListFrom(s, next', Null, w)
      BY <1>1, <2>7 DEF Linked
    <2>10. s[i] = d_word' /\ s[j] = aux' /\ s[Len(s)] = e_word' /\ First' = s[i]
      BY <1>1, <2>1, <2>7 DEF Linked
    <2>11. ChainInv'
      BY <2>2, <2>8, <2>9, <2>10, ShiftAfter DEF QueueInv
    <2> QED
      BY <2>2, <2>3, <2>11 DEF NodesInv
  <1> QED
    BY <1>4, <1>5

(* A dequeue that finds a node behind the dummy makes it the dummy.          *)
LEMMA DequeueKeeps ==
    ASSUME QueueInv, NEW k \in Threads, serialDequeue(k), ~IsEmpty
    PROVE  NodesInv'
  <1>1. /\ d_stage = "serving" /\ d_stage' = "serving" /\ d_combiner' = d_combiner
        /\ d_word' = next[d_word] /\ d_word # aux
        /\ d_result' = [d_result EXCEPT ![k] = val[next[d_word]]]
        /\ recycle_list' = [recycle_list EXCEPT ![d_combiner] = <<d_word>> \o @]
        /\ val' = [val EXCEPT ![d_word] = Junk]
        /\ clean_val' = clean_val \ {d_word}
        /\ UNCHANGED <<cur_entry, next, clean_next, aux>>
        /\ UNCHANGED <<d_published, d_durable>>
        /\ UNCHANGED <<e_stage, e_word, e_published, e_durable>>
        /\ UNCHANGED <<clNewItems, tail>>
    BY DEF serialDequeue, IsEmpty, D!Serve, D!sessionVars, Recycle, PoolOf, RemovedNode,
           enqVars, batchVars
  <1>2. DataInv /\ PoolsInv /\ NodesAssumption
    BY DEF QueueInv
  <1>3. d_combiner \in Threads
    BY <1>1 DEF QueueInv, SessionsInv, DequeuesInv, SessionInv
  <1>4. PICK s : \E i \in 1 .. Len(s) : \E j \in i .. Len(s) : Held(s, i, j)
    BY TheChain
  <1>5. PICK i \in 1 .. Len(s) : \E j \in i .. Len(s) : Held(s, i, j)
    BY <1>4
  <1>6. PICK j \in i .. Len(s) : Held(s, i, j)
    BY <1>5
  <1>7. Linked(s, i, j) /\ Removed(s, i) /\ Written(s, i, j) /\ Placed(s, i)
    BY <1>6 DEF Held
  <1>8. /\ Len(s) \in Nat /\ \A x \in 1 .. Len(s) : s[x] \in Nodes
        /\ \A x, y \in 1 .. Len(s) : s[x] = s[y] => x = y
        /\ \A x \in 1 .. Len(s) : next[s[x]] = IF x = Len(s) THEN Null ELSE s[x + 1]
        /\ i = j <=> d_word = aux
        /\ i = 1 <=> First = d_word
    BY <1>7, ChainFacts
  <1>9. s[i] = d_word /\ s[j] = aux /\ s[Len(s)] = e_word
        /\ IsListFrom(s, next, Null, First)
    BY <1>7 DEF Linked
  <1>10. PICK m : m = i + 1
    OBVIOUS
  <1>11. /\ m \in 1 .. Len(s) /\ j \in m .. Len(s) /\ i # j /\ i # Len(s)
         /\ \A x \in m .. Len(s) : x \in i .. Len(s) /\ x # i /\ s[x] # d_word
    BY <1>1, <1>8, <1>9, <1>10
  <1>12. d_word' = s[m] /\ s[m] \in Nodes /\ val[s[m]] \in Values
    BY <1>1, <1>7, <1>8, <1>9, <1>10, <1>11 DEF Written
  <1>13. d_word \in Nodes /\ d_word \notin InPools
    BY <1>7, <1>8, <1>9 DEF Placed
  <1>14. /\ recycle_list' \in [Threads -> Seq(Nodes)]
         /\ PoolsInv'
         /\ InPools' = InPools \union {d_word}
         /\ ToSet(recycle_list'[d_combiner]) = ToSet(recycle_list[d_combiner]) \union {d_word}
    <2>1. PICK p, n : p = d_combiner /\ n = d_word
      OBVIOUS
    <2>2. /\ recycle_list' \in [Threads -> Seq(Nodes)]
          /\ PoolsInv'
          /\ InPools' = InPools \union {n}
          /\ ToSet(recycle_list'[p]) = ToSet(recycle_list[p]) \union {n}
      BY <1>1, <1>2, <1>3, <1>13, <2>1, RecyclePuts
    <2> QED
      BY <2>1, <2>2
  <1>15. DataInv'
    <2>1. /\ d_result' \in [Threads -> Values \union {EmptyRet, NoVal}]
          /\ val' \in [Nodes -> Values \union {Junk}]
      BY <1>1, <1>2, <1>12 DEF DataInv
    <2> QED
      BY <2>1, <1>1, <1>2, <1>12, <1>14 DEF DataInv
  <1>16. Written(s, m, j)'
    <2>1. \A x \in m + 1 .. j : s[x] \in clean_val'
      BY <1>1, <1>7, <1>8, <1>10, <1>11 DEF Written
    <2>2. \A x \in j + 1 .. Len(s) :
             IF e_stage' = "serving" THEN Line(s[x]) \in clNewItems' ELSE s[x] \in clean_val'
      BY <1>1, <1>7, <1>8, <1>10, <1>11 DEF Written
    <2>3. \A x \in m + 1 .. Len(s) : val'[s[x]] \in Values
      <3> TAKE x \in m + 1 .. Len(s)
      <3>1. x \in m .. Len(s) /\ x \in i + 1 .. Len(s) /\ x \in 1 .. Len(s)
        BY <1>8, <1>10
      <3>2. val'[s[x]] = val[s[x]]
        BY <3>1, <1>1, <1>2, <1>8, <1>11 DEF DataInv
      <3> QED
        BY <3>1, <3>2, <1>7 DEF Written
    <2>4. e_durable' # Unformatted
      BY <1>1, <1>7, <1>11 DEF Written
    <2> QED
      BY <2>1, <2>2, <2>3, <2>4 DEF Written
  <1>17. Placed(s, m)'
    <2>1. \A x \in m .. Len(s) : s[x] \notin InPools'
      BY <1>7, <1>11, <1>14 DEF Placed
    <2>2. {s[x] : x \in i .. Len(s)} = {d_word} \union {s[x] : x \in m .. Len(s)}
      <3>1. \A x \in i .. Len(s) : x = i \/ x \in m .. Len(s)
        BY <1>10
      <3> QED
        BY <3>1, <1>9, <1>11
    <2>3. Issued' = Issued
      BY <1>1 DEF Issued
    <2> QED
      BY <2>1, <2>2, <2>3, <1>7, <1>14 DEF Placed
  <1>18. ChainInv'
    <2>1. CASE d_durable = Unformatted
      <3>1. First' = s[m] /\ s[j] = aux' /\ s[Len(s)] = e_word'
        BY <2>1, <1>1, <1>9, <1>12 DEF First
      <3>2. PICK w : IsListFrom(s, next', Null, w)
        BY <1>1, <1>9
      <3> QED
        BY <3>1, <3>2, <1>2, <1>11, <1>12, <1>15, <1>16, <1>17, ShiftAfter
    <2>2. CASE d_durable # Unformatted
      <3>1. Linked(s, m, j)'
        BY <2>2, <1>1, <1>9, <1>12 DEF Linked, First
      <3>2. Removed(s, m)'
        <4>1. ASSUME NEW x \in 1 .. m - 1
              PROVE  s[x] \in ToSet(recycle_list'[d_combiner])
          <5>1. x \in 1 .. i - 1 \/ x = i
            BY <1>10
          <5> QED
            BY <5>1, <1>7, <1>9, <1>14 DEF Removed
        <4> QED
          BY <4>1, <1>1 DEF Removed
      <3>3. Held(s, m, j)'
        BY <3>1, <3>2, <1>16, <1>17 DEF Held
      <3> QED
        BY <3>3, <1>2, <1>11, <1>15, ChainAfter
    <2> QED
      BY <2>1, <2>2
  <1> QED
    BY <1>14, <1>15, <1>18 DEF NodesInv

-----------------------------------------------------------------------------
(* The nodes in every step: the enqueues, and all of them                    *)

(* An enqueue puts a node from the pool behind the last one.                 *)
LEMMA EnqueueKeeps ==
    ASSUME QueueInv, NEW k \in Threads, serialEnqueue(k)
    PROVE  NodesInv'
  <1>1. PICK p, n : p = e_combiner /\ n = AllocatedNode(p)
    OBVIOUS
  <1>2. /\ e_stage = "serving" /\ e_stage' = "serving" /\ CanAlloc(p) /\ Alloc(p)
        /\ next' = [next EXCEPT ![n] = Null, ![e_word] = n]
        /\ val' = [val EXCEPT ![n] = e_param[k]] /\ e_phase[k] = "pending"
        /\ clean_next' = clean_next \ {n, e_word}
        /\ clean_val' = clean_val \ {n}
        /\ tail' = n /\ clNewItems' = clNewItems \union {Line(n)}
        /\ e_word' = n
        /\ UNCHANGED <<e_published, e_durable, aux>>
        /\ UNCHANGED <<d_result, d_stage, d_combiner, d_word, d_published, d_durable>>
    BY <1>1 DEF serialEnqueue, PoolOf, E!Serve, E!sessionVars, deqVars
  <1>3. DataInv /\ PoolsInv /\ NodesAssumption
    BY DEF QueueInv
  <1>4. PICK s : \E i \in 1 .. Len(s) : \E j \in i .. Len(s) : Held(s, i, j)
    BY TheChain
  <1>5. PICK i \in 1 .. Len(s) : \E j \in i .. Len(s) : Held(s, i, j)
    BY <1>4
  <1>6. PICK j \in i .. Len(s) : Held(s, i, j)
    BY <1>5
  <1>7. Linked(s, i, j) /\ Removed(s, i) /\ Written(s, i, j) /\ Placed(s, i)
    BY <1>6 DEF Held
  <1>8. /\ s \in Seq(Nodes) /\ Len(s) \in Nat /\ s # <<>>
        /\ ToSet(s) = {s[x] : x \in 1 .. Len(s)}
        /\ \A x \in 1 .. Len(s) : s[x] \in Nodes
    BY <1>7, ChainFacts
  <1>9. /\ s[i] = d_word /\ s[j] = aux /\ s[Len(s)] = e_word
        /\ IsListFrom(s, next, Null, First)
    BY <1>7 DEF Linked
  <1>10. p \in Threads /\ e_phase[p] # "idle" /\ d_phase[p] = "idle" /\ e_param[k] \in Values
    BY <1>1, <1>2 DEF QueueInv, SessionsInv, EnqueuesInv, SessionInv, OneCall
  <1>11. InPools \subseteq Issued
    BY <1>7 DEF Placed
  <1>12. /\ n \in PoolNodes \union InPools
         /\ recycle_list' \in [Threads -> Seq(Nodes)]
         /\ cur_entry' \in [Threads -> 0 .. PoolEntries]
         /\ PoolsInv'
         /\ InPools' = InPools \ {n}
         /\ Issued' = Issued \union {n}
         /\ n \in ToSet(recycle_list[p]) \/ n \notin Issued
         /\ \A t \in Threads : t # p => recycle_list'[t] = recycle_list[t]
    BY <1>1, <1>2, <1>3, <1>10, <1>11, AllocTakes
  <1>13. InPools \subseteq Nodes
    <2>1. \A t \in Threads : ToSet(recycle_list[t]) \subseteq Nodes
      BY <1>3, InjectiveSeq DEF DataInv
    <2> QED
      BY <2>1 DEF InPools
  <1>14. n \in Nodes
    BY <1>12, <1>13 DEF Nodes
  <1>15. \A t \in Threads : ToSet(recycle_list[t]) \subseteq InPools
    BY DEF InPools
  <1>16. \A x \in 1 .. i - 1 : d_combiner \in Threads /\ d_combiner # p
    <2>1. \A x \in 1 .. i - 1 : d_stage # "free"
      BY <1>7 DEF Removed
    <2>2. d_stage # "free" => d_combiner \in Threads /\ d_phase[d_combiner] # "idle"
      BY DEF QueueInv, SessionsInv, DequeuesInv, SessionInv
    <2> QED
      BY <2>1, <2>2, <1>10
  <1>17. \A x \in 1 .. Len(s) : s[x] # n
    <2> TAKE x \in 1 .. Len(s)
    <2>1. CASE x \in i .. Len(s)
      <3>1. s[x] \notin InPools /\ s[x] \in Issued
        BY <2>1, <1>7 DEF Placed
      <3> QED
        BY <3>1, <1>10, <1>12, <1>15
    <2>2. CASE x \in 1 .. i - 1
      <3>1. /\ d_combiner \in Threads /\ d_combiner # p
            /\ s[x] \in ToSet(recycle_list[d_combiner])
        BY <2>2, <1>7, <1>16 DEF Removed
      <3>2. s[x] \notin ToSet(recycle_list[p]) /\ s[x] \in Issued
        BY <3>1, <1>3, <1>10, <1>11, <1>15 DEF PoolsInv
      <3> QED
        BY <3>2, <1>12
    <2> QED
      BY <2>1, <2>2, <1>8
  <1>18. n \notin ToSet(s) /\ e_word # n /\ e_word \in Nodes
    BY <1>3, <1>8, <1>9, <1>17 DEF DataInv
  <1>19. next' \in [Nodes -> Words]
    BY <1>2, <1>3, <1>14 DEF DataInv, Words
  <1>20. DataInv'
    <2>1. val' \in [Nodes -> Values \union {Junk}]
      BY <1>2, <1>3, <1>10, <1>14 DEF DataInv
    <2>2. clNewItems' \subseteq {Line(m) : m \in Nodes}
      BY <1>2, <1>3, <1>14 DEF DataInv
    <2>3. tail' \in Words /\ {e_word', d_word', aux'} \subseteq Nodes
      BY <1>2, <1>3, <1>14 DEF DataInv, Words
    <2>4. clean_val' \subseteq Nodes /\ clean_next' \subseteq Nodes
      BY <1>2, <1>3 DEF DataInv
    <2>5. /\ {e_published', e_durable', d_published', d_durable'}
                \subseteq Nodes \union {Unformatted}
          /\ d_result' \in [Threads -> Values \union {EmptyRet, NoVal}]
      BY <1>2, <1>3 DEF DataInv
    <2> QED
      BY <2>1, <2>2, <2>3, <2>4, <2>5, <1>12, <1>19 DEF DataInv
  <1>21. PICK t, m : t = Append(s, n) /\ m = Len(s)
    OBVIOUS
  <1>22. /\ Len(t) = m + 1 /\ m \in Nat
         /\ t[m + 1] = n /\ \A x \in 1 .. m : t[x] = s[x]
    BY <1>8, <1>14, <1>21
  <1>23. IsListFrom(t, next', Null, First')
    <2>1. PICK link, after, w : link = next /\ after = next' /\ w = First
      OBVIOUS
    <2>2. DOMAIN link = Nodes /\ DOMAIN after = Nodes
      BY <2>1, <1>3, <1>19 DEF DataInv
    <2>3. \A x \in Nodes : after[x] = IF x = n THEN Null
                                      ELSE IF x = s[Len(s)] THEN n ELSE link[x]
      BY <2>1, <2>2, <1>2, <1>9, <1>18
    <2>4. n \in DOMAIN link /\ IsListFrom(s, link, Null, w)
      BY <2>1, <2>2, <1>9, <1>14
    <2>5. IsListFrom(Append(s, n), after, Null, w)
      BY <2>2, <2>3, <2>4, <1>8, <1>18, ListAppended
    <2>6. First' = First
      BY <1>2 DEF First
    <2> QED
      BY <2>1, <2>5, <2>6, <1>21
  <1>24. i \in 1 .. Len(t) /\ j \in i .. Len(t) /\ i \in 1 .. m /\ j \in 1 .. m
    BY <1>21, <1>22
  <1>25. Linked(t, i, j)'
    BY <1>2, <1>9, <1>21, <1>22, <1>23, <1>24 DEF Linked
  <1>26. Removed(t, i)'
    <2> SUFFICES ASSUME NEW x \in 1 .. i - 1
                 PROVE  d_stage' # "free" /\ t[x] \in ToSet(recycle_list'[d_combiner'])
      BY DEF Removed
    <2>1. x \in 1 .. m
      BY <1>22, <1>24
    <2> QED
      BY <2>1, <1>2, <1>7, <1>12, <1>16, <1>22 DEF Removed
  <1>27. Written(t, i, j)'
    <2>1. \A x \in 1 .. m : t[x] = s[x] /\ s[x] # n /\ s[x] \in Nodes
      BY <1>8, <1>17, <1>21, <1>22
    <2>2. ASSUME NEW x \in i + 1 .. j
          PROVE  t[x] \in clean_val'
      <3>1. x \in 1 .. m
        BY <1>24, <1>22
      <3> QED
        BY <2>1, <3>1, <1>2, <1>7 DEF Written
    <2>3. ASSUME NEW x \in j + 1 .. Len(t)
          PROVE  Line(t[x]) \in clNewItems'
      <3>1. CASE x = m + 1
        BY <3>1, <1>2, <1>22
      <3>2. CASE x # m + 1
        <4>1. x \in 1 .. m /\ x \in j + 1 .. Len(s)
          BY <3>2, <1>21, <1>22, <1>24
        <4> QED
          BY <4>1, <2>1, <1>2, <1>7 DEF Written
      <3> QED
        BY <3>1, <3>2
    <2>4. ASSUME NEW x \in i + 1 .. Len(t)
          PROVE  val'[t[x]] \in Values
      <3>1. CASE x = m + 1
        BY <3>1, <1>2, <1>3, <1>10, <1>14, <1>22 DEF DataInv
      <3>2. CASE x # m + 1
        <4>1. x \in 1 .. m /\ x \in i + 1 .. Len(s)
          BY <3>2, <1>21, <1>22, <1>24
        <4>2. val'[t[x]] = val[s[x]]
          BY <4>1, <2>1, <1>2, <1>3 DEF DataInv
        <4> QED
          BY <4>1, <4>2, <1>7 DEF Written
      <3> QED
        BY <3>1, <3>2
    <2>5. e_durable' = Unformatted => i = j
      BY <1>2, <1>7 DEF Written
    <2> QED
      BY <2>2, <2>3, <2>4, <2>5, <1>2 DEF Written
  <1>28. Placed(t, i)'
    <2>1. \A x \in i .. Len(t) : x = m + 1 \/ x \in i .. Len(s)
      BY <1>21, <1>22, <1>24
    <2>2. \A x \in i .. Len(s) : x \in i .. Len(t) /\ t[x] = s[x]
      BY <1>21, <1>22, <1>24
    <2>3. m + 1 \in i .. Len(t)
      BY <1>22, <1>24
    <2>4. \A x \in i .. Len(t) : t[x] \notin InPools'
      BY <2>1, <2>2, <1>7, <1>12, <1>22 DEF Placed
    <2>5. {t[x] : x \in i .. Len(t)} = {s[x] : x \in i .. Len(s)} \union {n}
      BY <2>1, <2>2, <2>3, <1>22
    <2> QED
      BY <2>4, <2>5, <1>7, <1>12 DEF Placed
  <1>29. Held(t, i, j)'
    BY <1>25, <1>26, <1>27, <1>28 DEF Held
  <1> QED
    BY <1>3, <1>12, <1>20, <1>24, <1>29, ChainAfter DEF NodesInv
-----------------------------------------------------------------------------
(* Every step                                                                *)

LEMMA NextKeepsNodes ==
    ASSUME QueueInv, [Next]_vars
    PROVE  NodesInv'
  <1>1. /\ DataInv /\ BatchInv /\ EnqueuesInv /\ DequeuesInv
        /\ d_result \in [Threads -> Values \union {EmptyRet, NoVal}]
        /\ tail \in Words /\ clNewItems \subseteq {Line(n) : n \in Nodes}
    BY DEF QueueInv, SessionsInv, DataInv
  <1>2. d_stage = "unlock" => First = d_word
    BY <1>1 DEF DequeuesInv, SessionInv, First
  <1> USE DEF enqVars, deqVars, nodeVars, poolVars, batchVars
  <1>3. CASE UNCHANGED vars
    BY <1>1, <1>3, CalmStep DEF vars, DequeuesInv, SessionInv
  <1>4. ASSUME NEW t \in Threads, NEW v \in Values, ApplyEnqueue(t, v)
        PROVE  NodesInv'
    BY <1>1, <1>4, CalmStep DEF ApplyEnqueue, E!Invoke, E!sessionVars, E!wordVars
  <1>5. ASSUME NEW t \in Threads, ApplyDequeue(t)
        PROVE  NodesInv'
    BY <1>1, <1>5, CalmStep DEF ApplyDequeue, D!Invoke, D!sessionVars, D!wordVars
  <1>6. ASSUME NEW t \in Threads, BeginEnqueues(t)
        PROVE  NodesInv'
    BY <1>1, <1>6, CalmStep
       DEF BeginEnqueues, EmptyBatch, E!Begin, E!wordVars, BatchInv, Words
  <1>7. ASSUME NEW t \in Threads, BeginDequeues(t)
        PROVE  NodesInv'
    BY <1>1, <1>7, CalmStep DEF BeginDequeues, D!Begin, D!callVars, D!wordVars
  <1>8. ASSUME NEW t \in Threads, serialEnqueue(t)
        PROVE  NodesInv'
    BY <1>8, EnqueueKeeps
  <1>9. ASSUME NEW t \in Threads, serialDequeue(t)
        PROVE  NodesInv'
    <2>1. CASE IsEmpty
      <3>1. /\ D!Serve(t, d_word, EmptyRet)
            /\ UNCHANGED <<nodeVars, poolVars, enqVars, aux, batchVars>>
        BY <1>9, <2>1 DEF serialDequeue
      <3>2. d_result' \in [Threads -> Values \union {EmptyRet, NoVal}]
        BY <1>1, <3>1 DEF D!Serve
      <3> QED
        BY <1>1, <3>1, <3>2, CalmStep DEF D!Serve, D!sessionVars
    <2>2. CASE ~IsEmpty
      BY <1>9, <2>2, DequeueKeeps
    <2> QED
      BY <2>1, <2>2
  <1>10. CASE FinalPersist
    BY <1>10, FinalPersistKeeps
  <1>11. CASE AfterPersist
    BY <1>11, AfterPersistKeeps
  <1>12. CASE EnqueueCombinerStep
    <2>1. UNCHANGED <<aux, deqVars, nodeVars, poolVars, batchVars>>
      BY <1>12 DEF EnqueueCombinerStep
    <2>2. CASE E!FlushState \/ E!Publish
      BY <1>1, <2>1, <2>2, CalmStep
         DEF E!FlushState, E!Publish, E!Advance, E!wordVars
    <2>3. CASE E!FlushPointer \/ E!Evict
      BY <2>1, <2>3, EnqueuePointerKeeps
    <2>4. CASE E!Unlock
      BY <1>1, <2>1, <2>4, CalmStep DEF E!Unlock, E!wordVars
    <2>5. ASSUME NEW t \in Threads, E!Return(t)
          PROVE  NodesInv'
      BY <1>1, <2>1, <2>5, CalmStep DEF E!Return, E!sessionVars, E!wordVars
    <2> QED
      BY <1>12, <2>2, <2>3, <2>4, <2>5 DEF EnqueueCombinerStep
  <1>13. CASE DequeueCombinerStep
    <2>1. UNCHANGED <<enqVars, aux, nodeVars, poolVars, batchVars>>
      BY <1>13 DEF DequeueCombinerStep
    <2>2. CASE D!FinalPersist \/ D!FlushState \/ D!Publish \/ D!AfterPersist
      BY <1>1, <2>1, <2>2, CalmStep
         DEF D!FinalPersist, D!FlushState, D!Publish, D!AfterPersist, D!Advance,
             D!callVars, D!wordVars
    <2>3. CASE D!FlushPointer \/ D!Evict
      BY <2>1, <2>3, DequeuePointerKeeps
    <2>4. CASE D!Unlock
      BY <1>1, <1>2, <2>1, <2>4, CalmStep DEF D!Unlock, D!wordVars
    <2>5. ASSUME NEW t \in Threads, D!Return(t)
          PROVE  NodesInv'
      BY <1>1, <2>1, <2>5, CalmStep DEF D!Return, D!sessionVars, D!wordVars
    <2> QED
      BY <1>13, <2>2, <2>3, <2>4, <2>5 DEF DequeueCombinerStep, D!Persist
  <1> QED
    BY <1>3, <1>4, <1>5, <1>6, <1>7, <1>8, <1>9, <1>10, <1>11, <1>12, <1>13 DEF Next

LEMMA NextKeepsQueue ==
    ASSUME QueueInv, [Next]_vars
    PROVE  QueueInv'
  <1>1. SessionsInv' /\ BatchInv'
    BY NextKeepsSessions, NextKeepsBatch DEF QueueInv
  <1> QED
    BY <1>1, NextKeepsNodes DEF QueueInv, NodesInv

LEMMA InitQueue ==
    ASSUME Init
    PROVE  QueueInv
  <1> USE DEF Init, E!Init, D!Init
  <1>1. NodesAssumption
    BY NodesAssumption
  <1>2. SessionsInv
    BY DEF SessionsInv, EnqueuesInv, DequeuesInv, SessionInv, Untouched, OneCall, Phases,
           Stages
  <1>3. BatchInv
    BY <1>1, AppliedFinite DEF BatchInv
  <1>4. Guard \in Nodes /\ PoolEntries \in Nat /\ Null \notin Nodes
    BY <1>1 DEF Nodes, NodesAssumption
  <1>5. DataInv
    BY <1>4 DEF DataInv, Words
  <1>6. \A t \in Threads : IsInjective(recycle_list[t]) /\ ToSet(recycle_list[t]) = {}
    BY DEF IsInjective, ToSet
  <1>7. PoolsInv
    BY <1>6 DEF PoolsInv
  <1>8. PICK s, link : s = <<Guard>> /\ link = next
    OBVIOUS
  <1>9. s \in Seq(Nodes) /\ Len(s) = 1 /\ s[1] = Guard
    BY <1>4, <1>8
  <1>10. IsListFrom(s, link, Null, Guard)
    <2>1. DOMAIN link = Nodes /\ link[Guard] = Null
      BY <1>4, <1>8
    <2>2. IsInjective(s) /\ s # <<>>
      BY <1>9, InjectiveSeq
    <2> QED
      BY <1>9, <2>1, <2>2 DEF IsListFrom
  <1>11. Chain = s
    <2>1. link \in [Nodes -> Words] /\ First = Guard
      BY <1>4, <1>8 DEF Words, First
    <2> QED
      BY <2>1, <1>1, <1>8, <1>10, ChainIs DEF Chain
  <1>12. Linked(s, 1, 1) /\ Removed(s, 1) /\ Written(s, 1, 1)
    BY <1>8, <1>9, <1>10 DEF Linked, Removed, Written, First
  <1>13. Placed(s, 1)
    <2>1. InPools = {}
      BY <1>6 DEF InPools
    <2>2. Issued = {Guard}
      BY DEF Issued, PoolNodes
    <2>3. {s[x] : x \in 1 .. Len(s)} = {Guard}
      BY <1>9
    <2> QED
      BY <2>1, <2>2, <2>3 DEF Placed
  <1>14. Held(Chain, 1, 1) /\ Len(Chain) = 1
    BY <1>9, <1>11, <1>12, <1>13 DEF Held
  <1>15. ChainInv
    BY <1>14 DEF ChainInv
  <1> QED
    BY <1>1, <1>2, <1>3, <1>5, <1>7, <1>15 DEF QueueInv

THEOREM QueueKept == Spec => []QueueInv
  BY InitQueue, NextKeepsQueue, PTL DEF Spec

(* The variables keep their types. *)
THEOREM QueueTypes == Spec => []TypeOK
  <1>1. QueueInv => TypeOK
    <2> SUFFICES ASSUME QueueInv PROVE TypeOK
      OBVIOUS
    <2>1. enqueue_counter \in 0 .. Cardinality(Threads)
      <3>1. /\ Cardinality(Applied) \in Nat /\ Cardinality(Threads) \in Nat
            /\ Cardinality(Applied) <= Cardinality(Threads)
        BY AppliedFinite DEF QueueInv
      <3> QED
        BY <3>1 DEF QueueInv, BatchInv
    <2> QED
      BY <2>1 DEF TypeOK, QueueInv, SessionsInv, EnqueuesInv, DequeuesInv, DataInv
  <1> QED
    BY <1>1, QueueKept, PTL
-----------------------------------------------------------------------------
(* What is between two nodes of the chain *)

(* What a walk passes; NodesBetween is the one over next.                    *)
Passed(link, a, b) ==
    Tail(ListFrom([link EXCEPT ![b] = Null], Null, a, Cardinality(Nodes)))

LEMMA PassedIs ==
    ASSUME NodesAssumption, NEW link \in [Nodes -> Words],
           NEW s, NEW w, IsListFrom(s, link, Null, w),
           NEW a \in 1 .. Len(s), NEW b \in a .. Len(s)
    PROVE  Passed(link, s[a], s[b]) = SubSeq(s, a + 1, b)
  <1>1. PICK null, m : null = Null /\ m = Cardinality(Nodes)
    OBVIOUS
  <1>2. /\ DOMAIN link = Nodes /\ null \notin DOMAIN link /\ IsFiniteSet(DOMAIN link)
        /\ m \in Nat /\ Cardinality(DOMAIN link) <= m
        /\ IsListFrom(s, link, null, w)
    BY <1>1, NodesFinite DEF NodesAssumption
  <1>3. a \in 1 .. Len(s) /\ b \in a .. Len(s)
    OBVIOUS
  <1>4. PICK after : after = [link EXCEPT ![s[b]] = null]
    OBVIOUS
  <1>5. /\ DOMAIN after = DOMAIN link
        /\ \A x \in DOMAIN link : after[x] = IF x = s[b] THEN null ELSE link[x]
    <2>1. after = [x \in DOMAIN link |-> IF x = s[b] THEN null ELSE link[x]]
      BY <1>4
    <2> QED
      BY <2>1
  <1>6. Tail(ListFrom(after, null, s[a], m)) = SubSeq(s, a + 1, b)
    BY <1>2, <1>3, <1>5, ListBetween
  <1> QED
    BY <1>1, <1>4, <1>6 DEF Passed

LEMMA BetweenIs ==
    ASSUME QueueInv, NEW s, NEW w, IsListFrom(s, next, Null, w),
           NEW a \in 1 .. Len(s), NEW b \in a .. Len(s)
    PROVE  /\ NodesBetween(s[a], s[b]) = SubSeq(s, a + 1, b)
           /\ ToSet(NodesBetween(s[a], s[b])) = {s[x] : x \in a + 1 .. b}
  <1>1. PICK link : link = next
    OBVIOUS
  <1>2. NodesAssumption /\ link \in [Nodes -> Words] /\ IsListFrom(s, link, Null, w)
    BY <1>1 DEF QueueInv, DataInv
  <1>3. a \in 1 .. Len(s) /\ b \in a .. Len(s)
    OBVIOUS
  <1>4. Passed(link, s[a], s[b]) = SubSeq(s, a + 1, b)
    BY <1>2, <1>3, PassedIs
  <1>5. s \in Seq(Nodes)
    <2>1. DOMAIN link = Nodes
      BY <1>2
    <2> QED
      BY <2>1, <1>2 DEF IsListFrom
  <1>6. ToSet(SubSeq(s, a + 1, b)) = {s[x] : x \in a + 1 .. b}
    BY <1>3, <1>5, PartOf
  <1>7. NodesBetween(s[a], s[b]) = SubSeq(s, a + 1, b)
    BY <1>1, <1>4 DEF Passed, NodesBetween
  <1> QED
    BY <1>6, <1>7

(* Nodes are linked and unlinked by two combiners at the same time, and      *)
(* every node is in one place, in the list or in one pool.                   *)
THEOREM QueueNodesKept == Spec => []NodesAccountedFor
  <1>1. ASSUME QueueInv
        PROVE  NodesAccountedFor
    <2>1. PICK s : \E i \in 1 .. Len(s) : \E j \in i .. Len(s) : Held(s, i, j)
      BY <1>1, TheChain
    <2>2. PICK i \in 1 .. Len(s) : \E j \in i .. Len(s) : Held(s, i, j)
      BY <2>1
    <2>3. PICK j \in i .. Len(s) : Held(s, i, j)
      BY <2>2
    <2>4. Linked(s, i, j) /\ Placed(s, i)
      BY <2>3 DEF Held
    <2>5. Len(s) \in Nat /\ Len(s) \in i .. Len(s)
      BY <1>1, <2>4, ChainFacts
    <2>6. ToSet(NodesBetween(s[i], s[Len(s)])) = {s[x] : x \in i + 1 .. Len(s)}
      BY <1>1, <2>4, <2>5, BetweenIs DEF Linked
    <2>7. InQueue = {s[x] : x \in i .. Len(s)}
      <3>1. \A x \in i .. Len(s) : x = i \/ x \in i + 1 .. Len(s)
        BY <2>5
      <3>2. \A x \in i + 1 .. Len(s) : x \in i .. Len(s)
        BY <2>5
      <3>3. i \in i .. Len(s)
        BY <2>5
      <3> QED
        BY <2>4, <2>6, <3>1, <3>2, <3>3 DEF InQueue, Linked
    <2> QED
      BY <1>1, <2>4, <2>7 DEF NodesAccountedFor, QueueInv, PoolsInv, Placed, Issued
  <1> QED
    BY <1>1, QueueKept, PTL

(* serialDequeue recycles a node before the dequeue is durable; nevertheless *)
(* no node that may be reused can be brought back by a crash.                *)
THEOREM ReusedForgotten == Spec => []ReusedNodesForgotten
  <1>1. ASSUME QueueInv
        PROVE  ReusedNodesForgotten
    <2> SUFFICES ASSUME e_combiner # NoThread, Formatted,
                        NEW n \in ToSet(recycle_list[e_combiner]),
                        n \in {d_durable} \union RecoveredNodes
                 PROVE  FALSE
      BY DEF ReusedNodesForgotten, PoolOf
    <2>1. PICK s : \E i \in 1 .. Len(s) : \E j \in i .. Len(s) : Held(s, i, j)
      BY <1>1, TheChain
    <2>2. PICK i \in 1 .. Len(s) : \E j \in i .. Len(s) : Held(s, i, j)
      BY <2>1
    <2>3. PICK j \in i .. Len(s) : Held(s, i, j)
      BY <2>2
    <2>4. Linked(s, i, j) /\ Removed(s, i) /\ Placed(s, i)
      BY <2>3 DEF Held
    <2>5. /\ Len(s) \in Nat /\ s[1] = First /\ s # <<>>
          /\ First = d_durable
      BY <1>1, <2>4, ChainFacts DEF First, Formatted
    <2>6. PICK b : b \in 1 .. Len(s) /\ s[b] = e_durable
      <3>1. e_durable = aux \/ e_durable = e_word
        BY <1>1 DEF QueueInv, BatchInv, Formatted
      <3>2. j \in 1 .. Len(s) /\ Len(s) \in 1 .. Len(s)
        BY <2>5
      <3> QED
        BY <2>4, <3>1, <3>2 DEF Linked
    <2>7. 1 \in 1 .. Len(s)
      BY <2>5, <2>6
    <2>8. RecoveredNodes = {s[x] : x \in 1 + 1 .. b}
      BY <1>1, <2>4, <2>5, <2>6, <2>7, BetweenIs DEF RecoveredNodes, Linked
    <2>9. PICK x \in 1 .. Len(s) : n = s[x]
      BY <2>5, <2>6, <2>7, <2>8
    <2>10. e_combiner \in Threads /\ d_phase[e_combiner] = "idle"
      BY <1>1 DEF QueueInv, SessionsInv, EnqueuesInv, SessionInv, OneCall
    <2>11. n \in InPools
      BY <2>10 DEF InPools
    <2>12. x \in 1 .. i - 1
      BY <2>4, <2>5, <2>9, <2>11 DEF Placed
    <2>13. d_stage # "free" /\ n \in ToSet(recycle_list[d_combiner])
      BY <2>4, <2>9, <2>12 DEF Removed
    <2>14. d_combiner \in Threads /\ d_phase[d_combiner] # "idle"
      BY <1>1, <2>13 DEF QueueInv, SessionsInv, DequeuesInv, SessionInv
    <2> QED
      BY <1>1, <2>10, <2>13, <2>14 DEF QueueInv, PoolsInv
  <1> QED
    BY <1>1, QueueKept, PTL

(* Lines 18-31 and 97: the nodes a dequeue can take hold values that have    *)
(* been flushed, and the durable last is at or behind them.  Nothing is said *)
(* of the links, which may be lost (LinksDurable).                           *)
THEOREM DurableDequeued == Spec => []DequeuesDurableOnly
  <1>1. ASSUME QueueInv
        PROVE  DequeuesDurableOnly
    <2>1. PICK s : \E i \in 1 .. Len(s) : \E j \in i .. Len(s) : Held(s, i, j)
      BY <1>1, TheChain
    <2>2. PICK i \in 1 .. Len(s) : \E j \in i .. Len(s) : Held(s, i, j)
      BY <2>1
    <2>3. PICK j \in i .. Len(s) : Held(s, i, j)
      BY <2>2
    <2>4. Linked(s, i, j) /\ Written(s, i, j)
      BY <2>3 DEF Held
    <2>5. Len(s) \in Nat
      BY <1>1, <2>4, ChainFacts
    <2>6. ToSet(NodesBetween(d_word, aux)) = {s[x] : x \in i + 1 .. j}
      BY <1>1, <2>4, BetweenIs DEF Linked
    <2>7. ToSet(NodesBetween(d_word, aux)) \subseteq clean_val
      BY <2>4, <2>6 DEF Written
    <2>8. ASSUME ToSet(NodesBetween(d_word, aux)) # {}
          PROVE  /\ e_durable # Unformatted
                 /\ ToSet(NodesBetween(d_word, aux)) \subseteq
                        ToSet(NodesBetween(d_word, e_durable))
      <3>1. i # j
        BY <2>5, <2>6, <2>8
      <3>2. e_durable # Unformatted
        BY <2>4, <3>1 DEF Written
      <3>3. PICK b \in j .. Len(s) : s[b] = e_durable
        <4>1. e_durable = aux \/ e_durable = e_word
          BY <1>1, <3>2 DEF QueueInv, BatchInv
        <4>2. j \in j .. Len(s) /\ Len(s) \in j .. Len(s)
          BY <2>5
        <4> QED
          BY <2>4, <4>1, <4>2 DEF Linked
      <3>4. b \in i .. Len(s)
        BY <2>5, <3>3
      <3>5. ToSet(NodesBetween(d_word, e_durable)) = {s[x] : x \in i + 1 .. b}
        BY <1>1, <2>4, <3>3, <3>4, BetweenIs DEF Linked
      <3>6. \A x \in i + 1 .. j : x \in i + 1 .. b
        BY <2>5, <3>3
      <3> QED
        BY <2>6, <3>2, <3>5, <3>6
    <2> QED
      BY <2>7, <2>8 DEF DequeuesDurableOnly
  <1> QED
    BY <1>1, QueueKept, PTL

-----------------------------------------------------------------------------
(* The order of the list                                                     *)

(* The list as the calls see it: the dummy, what a dequeue can reach, as far *)
(* as aux, and what the session under way has enqueued.                      *)
Reached(r, j) ==
    /\ IsListFrom(r, next, Null, d_word)
    /\ r[1] = d_word /\ r[j] = aux /\ r[Len(r)] = e_word
    /\ \A x \in 1 .. Len(r) : r[x] \notin InPools /\ r[x] \in Issued
    /\ \A x \in 2 .. Len(r) : val[r[x]] \in Values

LEMMA TheQueue ==
    ASSUME QueueInv
    PROVE  \E r : \E j \in 1 .. Len(r) : Reached(r, j)
  <1>1. PICK s : \E i \in 1 .. Len(s) : \E j \in i .. Len(s) : Held(s, i, j)
    BY TheChain
  <1>2. PICK i \in 1 .. Len(s) : \E j \in i .. Len(s) : Held(s, i, j)
    BY <1>1
  <1>3. PICK j \in i .. Len(s) : Held(s, i, j)
    BY <1>2
  <1>4. Linked(s, i, j) /\ Written(s, i, j) /\ Placed(s, i)
    BY <1>3 DEF Held
  <1>5. /\ s \in Seq(Nodes) /\ Len(s) \in Nat
        /\ \A x, y \in 1 .. Len(s) : s[x] = s[y] => x = y
        /\ \A x \in 1 .. Len(s) : next[s[x]] = IF x = Len(s) THEN Null ELSE s[x + 1]
    BY <1>4, ChainFacts
  <1>6. PICK link, k, w : link = next /\ k = Len(s) /\ w = First
    OBVIOUS
  <1>7. /\ IsListFrom(s, link, Null, w) /\ DOMAIN link = Nodes
        /\ k \in i .. Len(s) /\ i \in 1 .. Len(s)
    BY <1>4, <1>5, <1>6 DEF Linked, QueueInv, DataInv
  <1>8. link[s[k]] = Null
    BY <1>5, <1>6, <1>7
  <1>9. \A x \in DOMAIN link : link[x] = IF x = s[k] THEN Null ELSE link[x]
    BY <1>8
  <1>10. PICK r : r = SubSeq(s, i, k)
    OBVIOUS
  <1>11. /\ IsListFrom(r, link, Null, s[i]) /\ Len(r) = k - i + 1
         /\ \A x \in 1 .. k - i + 1 : r[x] = s[i + x - 1]
    BY <1>7, <1>9, <1>10, ListSegment
  <1>12. PICK c : c = j - i + 1
    OBVIOUS
  <1>13. /\ c \in 1 .. Len(r) /\ 1 \in 1 .. Len(r) /\ Len(r) \in 1 .. Len(r)
         /\ i + 1 - 1 = i /\ i + c - 1 = j /\ i + Len(r) - 1 = k
    BY <1>5, <1>6, <1>7, <1>11, <1>12
  <1>14. r[1] = s[i] /\ r[c] = s[j] /\ r[Len(r)] = s[Len(s)]
    BY <1>6, <1>11, <1>13
  <1>15. \A x \in 1 .. Len(r) : i + x - 1 \in i .. Len(s) /\ r[x] = s[i + x - 1]
    BY <1>5, <1>6, <1>7, <1>11
  <1>16. \A x \in 2 .. Len(r) : i + x - 1 \in i + 1 .. Len(s) /\ x \in 1 .. Len(r)
    BY <1>5, <1>6, <1>7, <1>11
  <1>17. \A x \in 1 .. Len(r) : r[x] \notin InPools /\ r[x] \in Issued
    BY <1>4, <1>15 DEF Placed
  <1>18. \A x \in 2 .. Len(r) : val[r[x]] \in Values
    BY <1>4, <1>15, <1>16 DEF Written
  <1>19. Reached(r, c)
    BY <1>4, <1>6, <1>11, <1>14, <1>17, <1>18 DEF Reached, Linked
  <1> QED
    BY <1>13, <1>19

LEMMA ReachedFacts ==
    ASSUME QueueInv, NEW r, NEW j \in 1 .. Len(r), Reached(r, j)
    PROVE  /\ r \in Seq(Nodes) /\ Len(r) \in Nat /\ 1 \in 1 .. j /\ r # <<>>
           /\ j \in Nat /\ j <= Len(r)
           /\ \A x \in 1 .. Len(r) : r[x] \in Nodes
           /\ \A x, y \in 1 .. Len(r) : r[x] = r[y] => x = y
           /\ \A x \in 1 .. Len(r) : next[r[x]] = IF x = Len(r) THEN Null ELSE r[x + 1]
           /\ NodesBetween(d_word, aux) = SubSeq(r, 1 + 1, j)
           /\ NodesBetween(aux, e_word) = SubSeq(r, j + 1, Len(r))
  <1>1. DOMAIN next = Nodes
    BY DEF QueueInv, DataInv
  <1>2. /\ r \in Seq(Nodes) /\ IsInjective(r)
        /\ \A x \in 1 .. Len(r) : next[r[x]] = IF x = Len(r) THEN Null ELSE r[x + 1]
    BY <1>1 DEF Reached, IsListFrom
  <1>3. /\ Len(r) \in Nat /\ \A x \in 1 .. Len(r) : r[x] \in Nodes
        /\ \A x, y \in 1 .. Len(r) : r[x] = r[y] => x = y
    BY <1>2, InjectiveSeq
  <1>4. /\ 1 \in 1 .. Len(r) /\ j \in 1 .. Len(r) /\ j \in Nat /\ j <= Len(r)
        /\ Len(r) \in j .. Len(r) /\ 1 \in 1 .. j /\ j # 0
    BY <1>3
  <1>5. r # <<>>
    BY <1>3, <1>4
  <1>6. IsListFrom(r, next, Null, d_word)
    BY DEF Reached
  <1>7. NodesBetween(r[1], r[j]) = SubSeq(r, 1 + 1, j)
    BY <1>4, <1>6, BetweenIs
  <1>8. NodesBetween(r[j], r[Len(r)]) = SubSeq(r, j + 1, Len(r))
    BY <1>4, <1>6, BetweenIs
  <1> QED
    BY <1>2, <1>3, <1>4, <1>5, <1>7, <1>8 DEF Reached
-----------------------------------------------------------------------------
(* The order of a batch *)

(* The nodes of the session under way, and an order of the calls it served.  *)
Batch == NodesBetween(aux, e_word)

InOrder(order, nodes) ==
    /\ DOMAIN order = DOMAIN nodes
    /\ \A x \in DOMAIN nodes : val[nodes[x]] = e_param[order[x]]

(* Until aux moves, the batch holds the arguments of the served calls, each  *)
(* once; and a served call has its result.                                   *)
OrderInv ==
    /\ \A t \in Threads :
          e_phase[t] \in {"applied", "released"} => e_result[t] = EnqueueRet
    /\ e_stage # "unlock" => \E order \in SetToSeqs(Applied) : InOrder(order, Batch)

(* A step that serves no enqueue; a dequeue may make the dummy's value junk. *)
LEMMA OrderCalm ==
    ASSUME QueueInv, OrderInv, UNCHANGED <<next, aux, e_word, e_result>>,
           Applied' = Applied, \A t \in Applied : e_param'[t] = e_param[t],
           \A t \in Threads : e_phase'[t] \in {"applied", "released"} =>
                                  e_phase[t] \in {"applied", "released"},
           \A n \in Nodes : n # d_word => val'[n] = val[n],
           e_stage = "unlock" => e_stage' = "unlock"
    PROVE  OrderInv'
  <1>1. ASSUME e_stage' # "unlock"
        PROVE  \E order \in SetToSeqs(Applied)' : InOrder(order, Batch)'
    <2>1. PICK order \in SetToSeqs(Applied) : InOrder(order, Batch)
      BY <1>1 DEF OrderInv
    <2>2. PICK b : b = Batch
      OBVIOUS
    <2>3. Batch' = b
      BY <2>2 DEF Batch, NodesBetween
    <2>4. PICK r : \E j \in 1 .. Len(r) : Reached(r, j)
      BY TheQueue
    <2>5. PICK j \in 1 .. Len(r) : Reached(r, j)
      BY <2>4
    <2>6. /\ r \in Seq(Nodes) /\ Len(r) \in Nat /\ j \in Nat /\ j <= Len(r) /\ j >= 1
          /\ \A x \in 1 .. Len(r) : r[x] \in Nodes
          /\ \A x, y \in 1 .. Len(r) : r[x] = r[y] => x = y
          /\ b = SubSeq(r, j + 1, Len(r))
      BY <2>2, <2>5, ReachedFacts DEF Batch
    <2>7. Len(r) \in j .. Len(r)
      BY <2>6
    <2>8. /\ b \in Seq(Nodes) /\ Len(b) = Len(r) - j
          /\ \A x \in 1 .. Len(r) - j : j + x \in j + 1 .. Len(r) /\ b[x] = r[j + x]
      BY <2>6, <2>7, PartOf
    <2>9. DOMAIN b = 1 .. Len(r) - j
      BY <2>8
    <2>10. ASSUME NEW x \in DOMAIN b
           PROVE  b[x] \in Nodes /\ b[x] # d_word
      <3>1. j + x \in 1 .. Len(r) /\ j + x # 1 /\ 1 \in 1 .. Len(r) /\ b[x] = r[j + x]
        BY <2>6, <2>8, <2>9
      <3> QED
        BY <2>5, <2>6, <3>1 DEF Reached
    <2>11. \A x \in DOMAIN b : order[x] \in Applied
      BY <2>1, <2>2 DEF SetToSeqs, InOrder
    <2>12. InOrder(order, b)'
      BY <2>1, <2>2, <2>10, <2>11 DEF InOrder
    <2> QED
      BY <2>1, <2>3, <2>12
  <1> QED
    BY <1>1 DEF OrderInv

LEMMA NoOrder ==
    ASSUME NEW S, S = {}
    PROVE  <<>> \in SetToSeqs(S)
  BY FS_EmptySet DEF SetToSeqs

(* One more call at the end of the order.                                    *)
LEMMA OneMore ==
    ASSUME NEW S, IsFiniteSet(S), NEW k, k \notin S, NEW f \in SetToSeqs(S),
           NEW m \in Nat, m = Cardinality(S),
           NEW g \in [1 .. m + 1 -> S \union {k}],
           g[m + 1] = k, \A x \in 1 .. m : g[x] = f[x]
    PROVE  g \in SetToSeqs(S \union {k})
  <1> DEFINE T == S \union {k}
  <1>1. m \in Nat /\ Cardinality(T) = m + 1
    BY FS_AddElement, FS_CardinalityType
  <1>2. f \in [1 .. m -> S] /\ \A x, y \in 1 .. m : x # y => f[x] # f[y]
    BY DEF SetToSeqs
  <1>3. \A x \in 1 .. m + 1 : x = m + 1 \/ x \in 1 .. m
    BY <1>1
  <1>4. g \in [1 .. m + 1 -> T]
    OBVIOUS
  <1>5. \A x, y \in 1 .. m + 1 : x # y => g[x] # g[y]
    BY <1>2, <1>3
  <1> QED
    BY <1>1, <1>4, <1>5 DEF SetToSeqs

LEMMA EnqueueOrdered ==
    ASSUME QueueInv, OrderInv, NEW k \in Threads, serialEnqueue(k)
    PROVE  /\ OrderInv'
           /\ NodesBetween(d_word, aux)' = NodesBetween(d_word, aux)
           /\ \A x \in DOMAIN NodesBetween(d_word, aux) :
                 val'[NodesBetween(d_word, aux)[x]] = val[NodesBetween(d_word, aux)[x]]
  <1>1. PICK p, n : p = e_combiner /\ n = AllocatedNode(p)
    OBVIOUS
  <1>2. /\ e_stage = "serving" /\ CanAlloc(p) /\ Alloc(p) /\ e_phase[k] = "pending"
        /\ next' = [next EXCEPT ![n] = Null, ![e_word] = n]
        /\ val' = [val EXCEPT ![n] = e_param[k]]
        /\ e_phase' = [e_phase EXCEPT ![k] = "applied"]
        /\ e_result' = [e_result EXCEPT ![k] = EnqueueRet]
        /\ e_word' = n /\ UNCHANGED <<aux, d_word, e_param>>
    BY <1>1 DEF serialEnqueue, PoolOf, E!Serve, deqVars
  <1>3. /\ NodesAssumption /\ DataInv /\ PoolsInv /\ EnqueuesInv
        /\ val \in [Nodes -> Values \union {Junk}] /\ next \in [Nodes -> Words]
    BY DEF QueueInv, SessionsInv, DataInv
  <1>4. PICK r : \E j \in 1 .. Len(r) : Reached(r, j)
    BY TheQueue
  <1>5. PICK j \in 1 .. Len(r) : Reached(r, j)
    BY <1>4
  <1>6. PICK m : m = Len(r)
    OBVIOUS
  <1>7. /\ r \in Seq(Nodes) /\ m \in Nat /\ j \in Nat /\ 1 <= j /\ j <= m /\ r # <<>>
        /\ \A x \in 1 .. m : r[x] \in Nodes
        /\ ToSet(r) = {r[x] : x \in 1 .. m}
        /\ NodesBetween(d_word, aux) = SubSeq(r, 1 + 1, j)
        /\ NodesBetween(aux, e_word) = SubSeq(r, j + 1, m)
    BY <1>5, <1>6, ReachedFacts, InjectiveSeq
  <1>8. /\ r[1] = d_word /\ r[j] = aux /\ r[m] = e_word
        /\ IsListFrom(r, next, Null, d_word)
        /\ \A x \in 1 .. m : r[x] \notin InPools /\ r[x] \in Issued
    BY <1>5, <1>6 DEF Reached
  <1>9. p \in Threads
    BY <1>1, <1>2, <1>3 DEF EnqueuesInv, SessionInv
  <1>10. InPools \subseteq Issued
    <2>1. PICK s : \E i \in 1 .. Len(s) : \E l \in i .. Len(s) : Held(s, i, l)
      BY TheChain
    <2> QED
      BY <2>1 DEF Held, Placed
  <1>11. /\ n \in PoolNodes \union InPools
         /\ n \in ToSet(recycle_list[p]) \/ n \notin Issued
    BY <1>1, <1>2, <1>3, <1>9, <1>10, AllocTakes
  <1>12. n \in Nodes
    <2>1. \A t \in Threads : ToSet(recycle_list[t]) \subseteq Nodes
      BY <1>3, InjectiveSeq DEF DataInv
    <2>2. InPools \subseteq Nodes
      BY <2>1 DEF InPools
    <2> QED
      BY <2>2, <1>11 DEF Nodes
  <1>13. \A x \in 1 .. m : r[x] # n
    BY <1>8, <1>9, <1>11 DEF InPools
  <1>14. n \notin ToSet(r) /\ e_word # n
    BY <1>7, <1>8, <1>13
  <1>15. next' \in [Nodes -> Words]
    BY <1>2, <1>3, <1>12 DEF Words
  <1>16. PICK t, after, a, d : t = Append(r, n) /\ after = next' /\ a = aux /\ d = d_word
    OBVIOUS
  <1>17. /\ t \in Seq(Nodes) /\ Len(t) = m + 1 /\ t[m + 1] = n
         /\ \A x \in 1 .. m : t[x] = r[x]
    BY <1>6, <1>7, <1>12, <1>16
  <1>18. IsListFrom(t, after, Null, d)
    <2>1. PICK link : link = next
      OBVIOUS
    <2>2. DOMAIN link = Nodes /\ DOMAIN after = Nodes
      BY <2>1, <1>3, <1>15, <1>16
    <2>3. \A x \in Nodes : after[x] = IF x = n THEN Null
                                      ELSE IF x = r[Len(r)] THEN n ELSE link[x]
      BY <2>1, <1>2, <1>3, <1>6, <1>8, <1>14, <1>16
    <2>4. n \in DOMAIN link /\ IsListFrom(r, link, Null, d)
      BY <2>1, <2>2, <1>8, <1>12, <1>16
    <2> QED
      BY <2>2, <2>3, <2>4, <1>7, <1>14, <1>16, ListAppended
  <1>19. after \in [Nodes -> Words]
    BY <1>15, <1>16
  <1>20. /\ 1 \in 1 .. Len(t) /\ j \in 1 .. Len(t) /\ j \in 1 .. m /\ m + 1 \in j .. Len(t)
         /\ 1 \in 1 .. m /\ m \in j .. m
    BY <1>7, <1>17
  <1>21. /\ Passed(after, t[1], t[j]) = SubSeq(t, 1 + 1, j)
         /\ Passed(after, t[j], t[m + 1]) = SubSeq(t, j + 1, m + 1)
    <2>1. /\ 1 \in 1 .. Len(t) /\ j \in 1 .. Len(t)
          /\ NodesAssumption /\ after \in [Nodes -> Words] /\ IsListFrom(t, after, Null, d)
      BY <1>3, <1>18, <1>19, <1>20
    <2>2. PICK o : o = m + 1
      OBVIOUS
    <2>5. o \in j .. Len(t)
      BY <1>20, <2>2
    <2>3. Passed(after, t[1], t[j]) = SubSeq(t, 1 + 1, j)
      BY <2>1, PassedIs
    <2>4. Passed(after, t[j], t[o]) = SubSeq(t, j + 1, o)
      BY <2>1, <2>5, PassedIs
    <2> QED
      BY <2>2, <2>3, <2>4
  <1>22. /\ NodesBetween(d_word, aux)' = Passed(after, t[1], t[j])
         /\ Batch' = Passed(after, t[j], t[m + 1])
    BY <1>2, <1>8, <1>16, <1>17, <1>20 DEF NodesBetween, Passed, Batch
  <1>23. PICK q : q = NodesBetween(d_word, aux)
    OBVIOUS
  <1>24. /\ q \in Seq(Nodes) /\ Len(q) = j - 1
         /\ \A x \in 1 .. j - 1 : 1 + x \in 1 + 1 .. j /\ q[x] = r[1 + x]
    BY <1>6, <1>7, <1>20, <1>23, PartOf
  <1>25. PICK u : u = SubSeq(t, 1 + 1, j)
    OBVIOUS
  <1>26. /\ u \in Seq(Nodes) /\ Len(u) = j - 1
         /\ \A x \in 1 .. j - 1 : 1 + x \in 1 + 1 .. j /\ u[x] = t[1 + x]
    <2>1. t \in Seq(Nodes) /\ 1 \in 1 .. Len(t) /\ j \in 1 .. Len(t)
      BY <1>17, <1>20
    <2> QED
      BY <2>1, <1>25, PartOf
  <1>27. \A x \in 1 .. j - 1 : 1 + x \in 1 .. m
    BY <1>7
  <1>28. u = q
    <2>1. \A x \in 1 .. j - 1 : u[x] = q[x]
      BY <1>17, <1>24, <1>26, <1>27
    <2> QED
      BY <2>1, <1>24, <1>26, SeqEqual
  <1>29. PICK b, c : b = SubSeq(r, j + 1, m) /\ c = SubSeq(t, j + 1, m + 1)
    OBVIOUS
  <1>30. /\ b \in Seq(Nodes) /\ Len(b) = m - j
         /\ \A x \in 1 .. m - j : j + x \in j + 1 .. m /\ b[x] = r[j + x]
    BY <1>6, <1>7, <1>20, <1>29, PartOf
  <1>31. /\ c \in Seq(Nodes) /\ Len(c) = (m + 1) - j
         /\ \A x \in 1 .. (m + 1) - j : j + x \in j + 1 .. m + 1 /\ c[x] = t[j + x]
    <2>1. t \in Seq(Nodes) /\ j \in 1 .. Len(t) /\ m + 1 \in j .. Len(t)
      BY <1>17, <1>20
    <2>2. PICK o : o = m + 1
      OBVIOUS
    <2>3. o \in j .. Len(t) /\ c = SubSeq(t, j + 1, o)
      BY <1>29, <2>1, <2>2
    <2>4. /\ c \in Seq(Nodes) /\ Len(c) = o - j
          /\ \A x \in 1 .. o - j : j + x \in j + 1 .. o /\ c[x] = t[j + x]
      BY <2>1, <2>3, PartOf
    <2> QED
      BY <2>2, <2>4
  <1>32. Batch = b /\ Batch' = c /\ NodesBetween(d_word, aux)' = q
    BY <1>7, <1>21, <1>22, <1>25, <1>28, <1>29 DEF Batch
  <1>33. \A x \in DOMAIN q : val'[q[x]] = val[q[x]]
    <2>1. DOMAIN q = 1 .. j - 1
      BY <1>24
    <2>2. \A x \in 1 .. j - 1 : q[x] \in Nodes /\ q[x] # n
      BY <1>7, <1>13, <1>24, <1>27
    <2> QED
      BY <2>1, <2>2, <1>2, <1>3
  <1>34. PICK f \in SetToSeqs(Applied) : InOrder(f, b)
    BY <1>2, <1>32 DEF OrderInv
  <1>35. Applied' = Applied \union {k} /\ k \notin Applied /\ IsFiniteSet(Applied)
    BY <1>2, <1>3, AppliedFinite DEF Applied, EnqueuesInv
  <1>36. PICK l, g : l = Cardinality(Applied)
                     /\ g = [x \in 1 .. l + 1 |-> IF x = l + 1 THEN k ELSE f[x]]
    OBVIOUS
  <1>37. l \in Nat /\ DOMAIN f = 1 .. l /\ g \in SetToSeqs(Applied')
    <2>1. PICK S : S = Applied
      OBVIOUS
    <2>2. f \in SetToSeqs(S) /\ IsFiniteSet(S) /\ k \notin S /\ l = Cardinality(S)
      BY <2>1, <1>34, <1>35, <1>36
    <2>3. l \in Nat /\ f \in [1 .. l -> S]
      BY <2>2, FS_CardinalityType DEF SetToSeqs
    <2>4. g \in [1 .. l + 1 -> S \union {k}]
      BY <2>3, <1>36
    <2>5. g[l + 1] = k /\ \A x \in 1 .. l : g[x] = f[x]
      BY <2>3, <1>36
    <2>6. g \in SetToSeqs(S \union {k})
      BY <2>2, <2>3, <2>4, <2>5, OneMore
    <2> QED
      BY <2>1, <2>3, <2>6, <1>35
  <1>38. /\ DOMAIN b = 1 .. m - j /\ DOMAIN c = 1 .. (m + 1) - j
         /\ DOMAIN f = DOMAIN b
    BY <1>30, <1>31, <1>34 DEF InOrder
  <1>39. l = m - j
    BY <1>7, <1>37, <1>38
  <1>40. DOMAIN g = DOMAIN c
    BY <1>7, <1>36, <1>38, <1>39
  <1>41. \A x \in DOMAIN c : val'[c[x]] = e_param'[g[x]]
    <2> TAKE x \in DOMAIN c
    <2>1. CASE x = l + 1
      <3>1. j + x = m + 1 /\ c[x] = t[j + x]
        BY <2>1, <1>7, <1>31, <1>38, <1>39
      <3>2. c[x] = n
        BY <3>1, <1>17
      <3>3. g[x] = k
        BY <2>1, <1>36, <1>37
      <3> QED
        BY <3>2, <3>3, <1>2, <1>3, <1>12
    <2>2. CASE x # l + 1
      <3>1. x \in 1 .. l /\ x \in 1 .. m - j /\ x \in 1 .. l + 1 /\ j + x \in 1 .. m
        BY <2>2, <1>7, <1>38, <1>39
      <3>2. c[x] = r[j + x] /\ b[x] = r[j + x] /\ g[x] = f[x]
        BY <2>2, <3>1, <1>17, <1>30, <1>31, <1>36, <1>38
      <3>3. c[x] = b[x] /\ b[x] \in Nodes /\ b[x] # n
        BY <3>1, <3>2, <1>7, <1>13
      <3>4. val[b[x]] = e_param[f[x]]
        BY <3>1, <1>34, <1>38 DEF InOrder
      <3> QED
        BY <3>2, <3>3, <3>4, <1>2, <1>3
    <2> QED
      BY <2>1, <2>2
  <1>42. InOrder(g, c)'
    BY <1>40, <1>41 DEF InOrder
  <1>43. \E order \in SetToSeqs(Applied') : InOrder(order, c)'
    BY <1>37, <1>42
  <1>44. \E order \in SetToSeqs(Applied)' : InOrder(order, Batch)'
    BY <1>32, <1>43
  <1>45. \A t1 \in Threads : e_phase'[t1] \in {"applied", "released"} =>
                                e_result'[t1] = EnqueueRet
    BY <1>2, <1>3 DEF OrderInv, EnqueuesInv
  <1>46. OrderInv'
    BY <1>44, <1>45 DEF OrderInv
  <1> QED
    BY <1>23, <1>32, <1>33, <1>46

-----------------------------------------------------------------------------
(* Every step keeps the order                                                *)

LEMMA InitOrder ==
    ASSUME Init
    PROVE  OrderInv
  <1>1. QueueInv
    BY InitQueue
  <1>2. Applied = {}
    BY DEF Init, E!Init, Applied
  <1>3. Batch = <<>>
    <2>1. PICK r : \E j \in 1 .. Len(r) : Reached(r, j)
      BY <1>1, TheQueue
    <2>2. PICK j \in 1 .. Len(r) : Reached(r, j)
      BY <2>1
    <2>3. /\ Len(r) \in Nat /\ r[j] = aux /\ r[Len(r)] = e_word /\ j \in Nat
          /\ \A x, y \in 1 .. Len(r) : r[x] = r[y] => x = y
          /\ Batch = SubSeq(r, j + 1, Len(r))
      BY <1>1, <2>2, ReachedFacts DEF Batch, Reached
    <2>4. aux = e_word
      BY DEF Init, E!Init
    <2>5. j = Len(r)
      BY <2>3, <2>4
    <2> QED
      BY <2>3, <2>5, SubSeqEmpty
  <1>4. InOrder(<<>>, Batch) /\ <<>> \in SetToSeqs(Applied)
    BY <1>2, <1>3, NoOrder DEF InOrder
  <1> QED
    BY <1>4 DEF OrderInv, Init, E!Init

(* When the session ends, its batch is empty again.                          *)
LEMMA UnlockEmpties ==
    ASSUME QueueInv, OrderInv, E!Unlock,
           UNCHANGED <<aux, deqVars, nodeVars, poolVars, batchVars>>
    PROVE  OrderInv'
  <1>1. /\ e_stage = "unlock" /\ aux = e_word /\ e_phase \in [Threads -> Phases]
        /\ UNCHANGED <<e_word, e_result, next>>
    BY DEF QueueInv, SessionsInv, EnqueuesInv, BatchInv, E!Unlock, E!wordVars, nodeVars
  <1>2. Applied' = {}
    BY <1>1 DEF E!Unlock, Applied
  <1>3. Batch = <<>>
    <2>1. PICK r : \E j \in 1 .. Len(r) : Reached(r, j)
      BY <1>1, TheQueue
    <2>2. PICK j \in 1 .. Len(r) : Reached(r, j)
      BY <2>1
    <2>3. /\ Len(r) \in Nat /\ r[j] = aux /\ r[Len(r)] = e_word /\ j \in Nat
          /\ \A x, y \in 1 .. Len(r) : r[x] = r[y] => x = y
          /\ Batch = SubSeq(r, j + 1, Len(r))
      BY <2>2, ReachedFacts DEF Batch, Reached
    <2>5. j = Len(r)
      BY <2>3, <1>1
    <2> QED
      BY <2>3, <2>5, SubSeqEmpty
  <1>4. Batch' = <<>>
    BY <1>1, <1>3 DEF Batch, NodesBetween
  <1>5. InOrder(<<>>, Batch)' /\ <<>> \in SetToSeqs(Applied')
    BY <1>2, <1>4, NoOrder DEF InOrder
  <1>6. \A t \in Threads : e_phase'[t] \in {"applied", "released"} =>
                               e_phase[t] \in {"applied", "released"}
    BY <1>1 DEF E!Unlock
  <1> QED
    BY <1>1, <1>5, <1>6 DEF OrderInv

LEMMA NextKeepsOrder ==
    ASSUME QueueInv, OrderInv, [Next]_vars
    PROVE  OrderInv'
  <1>1. /\ e_phase \in [Threads -> Phases] /\ e_param \in [Threads -> Values \union {NoArg}]
        /\ val \in [Nodes -> Values \union {Junk}]
    BY DEF QueueInv, SessionsInv, EnqueuesInv, DataInv
  <1> USE DEF enqVars, deqVars, nodeVars, poolVars, batchVars, Applied
  <1>2. ASSUME UNCHANGED <<enqVars, aux, next>>,
               \A n \in Nodes : n # d_word => val'[n] = val[n]
        PROVE  OrderInv'
    BY <1>2, OrderCalm
  <1>3. CASE UNCHANGED vars
    BY <1>2, <1>3 DEF vars
  <1>4. ASSUME NEW t \in Threads, NEW v \in Values, ApplyEnqueue(t, v)
        PROVE  OrderInv'
    BY <1>1, <1>4, OrderCalm DEF ApplyEnqueue, E!Invoke, E!sessionVars, E!wordVars
  <1>5. ASSUME NEW t \in Threads, BeginEnqueues(t)
        PROVE  OrderInv'
    BY <1>1, <1>5, OrderCalm DEF BeginEnqueues, E!Begin, E!callVars, E!wordVars
  <1>6. ASSUME NEW t \in Threads, serialEnqueue(t)
        PROVE  OrderInv'
    BY <1>6, EnqueueOrdered
  <1>7. ASSUME NEW t \in Threads, serialDequeue(t)
        PROVE  OrderInv'
    BY <1>1, <1>2, <1>7 DEF serialDequeue, Recycle, RemovedNode
  <1>8. CASE FinalPersist
    BY <1>1, <1>8, OrderCalm
       DEF FinalPersist, E!FinalPersist, E!Advance, E!callVars, E!wordVars
  <1>9. CASE AfterPersist
    BY <1>1, <1>9 DEF AfterPersist, E!AfterPersist, E!Advance, E!callVars, OrderInv
  <1>10. CASE EnqueueCombinerStep
    <2>1. UNCHANGED <<aux, deqVars, nodeVars, poolVars, batchVars>>
      BY <1>10 DEF EnqueueCombinerStep
    <2>2. CASE E!FlushState \/ E!Publish \/ E!FlushPointer \/ E!Evict
      BY <1>1, <2>1, <2>2, OrderCalm
         DEF E!FlushState, E!Publish, E!FlushPointer, E!Evict, E!Advance, E!callVars,
             E!sessionVars, E!wordVars
    <2>3. CASE E!Unlock
      BY <2>1, <2>3, UnlockEmpties
    <2>4. ASSUME NEW t \in Threads, E!Return(t)
          PROVE  OrderInv'
      BY <1>1, <2>1, <2>4, OrderCalm DEF E!Return, E!sessionVars, E!wordVars
    <2> QED
      BY <1>10, <2>2, <2>3, <2>4 DEF EnqueueCombinerStep
  <1>11. CASE DequeueCombinerStep
    BY <1>2, <1>11 DEF DequeueCombinerStep
  <1>12. ASSUME NEW t \in Threads, ApplyDequeue(t) \/ BeginDequeues(t)
         PROVE  OrderInv'
    BY <1>2, <1>12 DEF ApplyDequeue, BeginDequeues
  <1> QED
    BY <1>3, <1>4, <1>5, <1>6, <1>7, <1>8, <1>9, <1>10, <1>11, <1>12 DEF Next

-----------------------------------------------------------------------------
(* PBQueue implements FIFOQueue: what the queue holds                        *)

(* The values of a sequence of nodes. *)
ValuesOf(nodes, v) == [k \in DOMAIN nodes |-> v[nodes[k]]]

LEMMA ValuesSeq ==
    ASSUME NEW S, NEW V, NEW s \in Seq(S), NEW v, \A k \in 1 .. Len(s) : v[s[k]] \in V
    PROVE  /\ ValuesOf(s, v) \in Seq(V)
           /\ Len(ValuesOf(s, v)) = Len(s)
           /\ \A k \in 1 .. Len(s) : ValuesOf(s, v)[k] = v[s[k]]
  <1>1. DOMAIN s = 1 .. Len(s) /\ Len(s) \in Nat
    BY InjectiveSeq
  <1>2. PICK n : n = Len(s)
    OBVIOUS
  <1>3. PICK u : u = [k \in 1 .. n |-> v[s[k]]]
    OBVIOUS
  <1>4. u \in [1 .. n -> V]
    BY <1>2, <1>3
  <1>5. u \in Seq(V) /\ Len(u) = n
    BY <1>1, <1>2, <1>4, SeqDef, LenProperties
  <1>6. ValuesOf(s, v) = u
    BY <1>1, <1>2, <1>3 DEF ValuesOf
  <1> QED
    BY <1>2, <1>3, <1>5, <1>6

(* A batch is put behind what a dequeue can reach.                           *)
LEMMA BatchBehind ==
    ASSUME NEW S, NEW r \in Seq(S), NEW j \in 1 .. Len(r), NEW v
    PROVE  ValuesOf(SubSeq(r, 1 + 1, Len(r)), v) =
              ValuesOf(SubSeq(r, 1 + 1, j), v) \o ValuesOf(SubSeq(r, j + 1, Len(r)), v)
  <1>0. PICK V : \A x \in 2 .. Len(r) : v[r[x]] \in V
    <2>1. \A x \in 2 .. Len(r) : v[r[x]] \in {v[r[y]] : y \in 2 .. Len(r)}
      OBVIOUS
    <2> QED
      BY <2>1
  <1>1. PICK m : m = Len(r)
    OBVIOUS
  <1>2. /\ m \in Nat /\ j \in Nat /\ 1 <= j /\ j <= m
    BY <1>1, InjectiveSeq
  <1>3. PICK all, old, new :
           /\ all = SubSeq(r, 1 + 1, m) /\ old = SubSeq(r, 1 + 1, j)
           /\ new = SubSeq(r, j + 1, m)
    OBVIOUS
  <1>4. /\ 1 \in 1 .. Len(r) /\ j \in 1 .. Len(r) /\ m \in 1 .. Len(r) /\ m \in j .. Len(r)
    BY <1>1, <1>2
  <1>5. /\ all \in Seq(S) /\ Len(all) = m - 1
        /\ \A x \in 1 .. m - 1 : 1 + x \in 1 + 1 .. m /\ all[x] = r[1 + x]
    BY <1>3, <1>4, PartOf
  <1>6. /\ old \in Seq(S) /\ Len(old) = j - 1
        /\ \A x \in 1 .. j - 1 : 1 + x \in 1 + 1 .. j /\ old[x] = r[1 + x]
    BY <1>3, <1>4, PartOf
  <1>7. /\ new \in Seq(S) /\ Len(new) = m - j
        /\ \A x \in 1 .. m - j : j + x \in j + 1 .. m /\ new[x] = r[j + x]
    BY <1>3, <1>4, PartOf
  <1>8. PICK a, o, n : a = ValuesOf(all, v) /\ o = ValuesOf(old, v) /\ n = ValuesOf(new, v)
    OBVIOUS
  <1>9. \A x \in 1 .. m - 1 : v[all[x]] \in V /\ all[x] = r[1 + x]
    <2> TAKE x \in 1 .. m - 1
    <2>1. 1 + x \in 2 .. m
      BY <1>2
    <2> QED
      BY <2>1, <1>0, <1>1, <1>5
  <1>10. a \in Seq(V) /\ Len(a) = m - 1 /\ \A x \in 1 .. m - 1 : a[x] = v[r[1 + x]]
    <2>1. all \in Seq(S) /\ \A x \in 1 .. Len(all) : v[all[x]] \in V
      BY <1>5, <1>9
    <2>2. /\ ValuesOf(all, v) \in Seq(V) /\ Len(ValuesOf(all, v)) = Len(all)
          /\ \A x \in 1 .. Len(all) : ValuesOf(all, v)[x] = v[all[x]]
      BY <2>1, ValuesSeq
    <2> QED
      BY <2>2, <1>5, <1>8, <1>9
  <1>11. \A x \in 1 .. j - 1 : v[old[x]] \in V /\ old[x] = r[1 + x]
    <2> TAKE x \in 1 .. j - 1
    <2>1. 1 + x \in 2 .. m
      BY <1>2
    <2> QED
      BY <2>1, <1>0, <1>1, <1>6
  <1>12. o \in Seq(V) /\ Len(o) = j - 1 /\ \A x \in 1 .. j - 1 : o[x] = v[r[1 + x]]
    <2>1. old \in Seq(S) /\ \A x \in 1 .. Len(old) : v[old[x]] \in V
      BY <1>6, <1>11
    <2>2. /\ ValuesOf(old, v) \in Seq(V) /\ Len(ValuesOf(old, v)) = Len(old)
          /\ \A x \in 1 .. Len(old) : ValuesOf(old, v)[x] = v[old[x]]
      BY <2>1, ValuesSeq
    <2> QED
      BY <2>2, <1>6, <1>8, <1>11
  <1>13. \A x \in 1 .. m - j : v[new[x]] \in V /\ new[x] = r[j + x]
    <2> TAKE x \in 1 .. m - j
    <2>1. j + x \in 2 .. m
      BY <1>2
    <2> QED
      BY <2>1, <1>0, <1>1, <1>7
  <1>14. n \in Seq(V) /\ Len(n) = m - j /\ \A x \in 1 .. m - j : n[x] = v[r[j + x]]
    <2>1. new \in Seq(S) /\ \A x \in 1 .. Len(new) : v[new[x]] \in V
      BY <1>7, <1>13
    <2>2. /\ ValuesOf(new, v) \in Seq(V) /\ Len(ValuesOf(new, v)) = Len(new)
          /\ \A x \in 1 .. Len(new) : ValuesOf(new, v)[x] = v[new[x]]
      BY <2>1, ValuesSeq
    <2> QED
      BY <2>2, <1>7, <1>8, <1>13
  <1>15. PICK c : c = o \o n
    OBVIOUS
  <1>16. /\ c \in Seq(V) /\ Len(c) = m - 1
         /\ \A x \in 1 .. j - 1 : c[x] = o[x]
         /\ \A x \in 1 .. m - j : c[j - 1 + x] = n[x]
    <2>1. /\ c \in Seq(V) /\ Len(c) = Len(o) + Len(n)
          /\ \A x \in 1 .. Len(o) + Len(n) :
                c[x] = IF x <= Len(o) THEN o[x] ELSE n[x - Len(o)]
      BY <1>12, <1>14, <1>15, ConcatProperties
    <2>2. Len(o) + Len(n) = m - 1
      BY <1>2, <1>12, <1>14
    <2>3. \A x \in 1 .. j - 1 : x \in 1 .. m - 1 /\ x <= j - 1
      BY <1>2
    <2>4. \A x \in 1 .. m - j : /\ j - 1 + x \in 1 .. m - 1 /\ ~ (j - 1 + x <= j - 1)
                               /\ (j - 1 + x) - (j - 1) = x
      BY <1>2
    <2>5. \A x \in 1 .. m - j : c[j - 1 + x] = n[x]
      <3> TAKE x \in 1 .. m - j
      <3>1. PICK y : y = j - 1 + x
        OBVIOUS
      <3>2. y \in 1 .. m - 1 /\ ~ (y <= j - 1) /\ y - (j - 1) = x
        BY <2>4, <3>1
      <3>3. c[y] = n[y - (j - 1)]
        BY <2>1, <2>2, <3>2, <1>12
      <3> QED
        BY <3>1, <3>2, <3>3
    <2>6. \A x \in 1 .. j - 1 : c[x] = o[x]
      BY <2>1, <2>2, <2>3, <1>12
    <2> QED
      BY <2>1, <2>2, <2>5, <2>6
  <1>17. \A x \in 1 .. m - 1 : a[x] = c[x]
    <2> TAKE x \in 1 .. m - 1
    <2>1. CASE x \in 1 .. j - 1
      BY <2>1, <1>10, <1>12, <1>16
    <2>2. CASE x \notin 1 .. j - 1
      <3>1. PICK y : y = x - (j - 1)
        OBVIOUS
      <3>2. y \in 1 .. m - j /\ j - 1 + y = x /\ j + y = 1 + x
        BY <2>2, <3>1, <1>2
      <3> QED
        BY <3>2, <1>10, <1>14, <1>16
    <2> QED
      BY <2>1, <2>2
  <1>18. a = c
    BY <1>10, <1>16, <1>17, SeqEqual
  <1> QED
    BY <1>1, <1>3, <1>8, <1>15, <1>18

(* The first of what a dequeue can reach, and the rest.                      *)
LEMMA FirstReached ==
    ASSUME NEW S, NEW r \in Seq(S), NEW j \in 2 .. Len(r), NEW v
    PROVE  /\ ValuesOf(SubSeq(r, 1 + 1, j), v) # <<>>
           /\ Head(ValuesOf(SubSeq(r, 1 + 1, j), v)) = v[r[2]]
           /\ Tail(ValuesOf(SubSeq(r, 1 + 1, j), v)) = ValuesOf(SubSeq(r, 2 + 1, j), v)
  <1>0. PICK V : \A x \in 2 .. Len(r) : v[r[x]] \in V
    <2>1. \A x \in 2 .. Len(r) : v[r[x]] \in {v[r[y]] : y \in 2 .. Len(r)}
      OBVIOUS
    <2> QED
      BY <2>1
  <1>1. Len(r) \in Nat /\ j \in Nat /\ 2 <= j /\ j <= Len(r)
    BY InjectiveSeq
  <1>2. PICK two : two = 2
    OBVIOUS
  <1>3. /\ 1 \in 1 .. Len(r) /\ j \in 1 .. Len(r) /\ two \in 1 .. Len(r) /\ j \in two .. Len(r)
    BY <1>1, <1>2
  <1>4. PICK old, rest : old = SubSeq(r, 1 + 1, j) /\ rest = SubSeq(r, two + 1, j)
    OBVIOUS
  <1>5. /\ old \in Seq(S) /\ Len(old) = j - 1
        /\ \A x \in 1 .. j - 1 : 1 + x \in 1 + 1 .. j /\ old[x] = r[1 + x]
    BY <1>3, <1>4, PartOf
  <1>6. /\ rest \in Seq(S) /\ Len(rest) = j - two
        /\ \A x \in 1 .. j - two : two + x \in two + 1 .. j /\ rest[x] = r[two + x]
    BY <1>3, <1>4, PartOf
  <1>7. PICK o, n : o = ValuesOf(old, v) /\ n = ValuesOf(rest, v)
    OBVIOUS
  <1>8. \A x \in 1 .. j - 1 : v[old[x]] \in V /\ old[x] = r[1 + x]
    <2> TAKE x \in 1 .. j - 1
    <2>1. 1 + x \in 2 .. Len(r)
      BY <1>1
    <2> QED
      BY <2>1, <1>0, <1>5
  <1>9. o \in Seq(V) /\ Len(o) = j - 1 /\ \A x \in 1 .. j - 1 : o[x] = v[r[1 + x]]
    <2>1. old \in Seq(S) /\ \A x \in 1 .. Len(old) : v[old[x]] \in V
      BY <1>5, <1>8
    <2>2. /\ ValuesOf(old, v) \in Seq(V) /\ Len(ValuesOf(old, v)) = Len(old)
          /\ \A x \in 1 .. Len(old) : ValuesOf(old, v)[x] = v[old[x]]
      BY <2>1, ValuesSeq
    <2> QED
      BY <2>2, <1>5, <1>7, <1>8
  <1>10. \A x \in 1 .. j - two : v[rest[x]] \in V /\ rest[x] = r[two + x]
    <2> TAKE x \in 1 .. j - two
    <2>1. two + x \in 2 .. Len(r)
      BY <1>1, <1>2
    <2> QED
      BY <2>1, <1>0, <1>6
  <1>11. n \in Seq(V) /\ Len(n) = j - two /\ \A x \in 1 .. j - two : n[x] = v[r[two + x]]
    <2>1. rest \in Seq(S) /\ \A x \in 1 .. Len(rest) : v[rest[x]] \in V
      BY <1>6, <1>10
    <2>2. /\ ValuesOf(rest, v) \in Seq(V) /\ Len(ValuesOf(rest, v)) = Len(rest)
          /\ \A x \in 1 .. Len(rest) : ValuesOf(rest, v)[x] = v[rest[x]]
      BY <2>1, ValuesSeq
    <2> QED
      BY <2>2, <1>6, <1>7, <1>10
  <1>12. /\ o # <<>> /\ Head(o) = o[1] /\ 1 \in 1 .. j - 1
    BY <1>1, <1>9
  <1>13. PICK t : t = Tail(o)
    OBVIOUS
  <1>14. t \in Seq(V) /\ Len(t) = j - 2 /\ \A x \in 1 .. j - 2 : t[x] = o[x + 1]
    BY <1>1, <1>9, <1>12, <1>13
  <1>15. \A x \in 1 .. j - 2 : t[x] = n[x]
    <2> TAKE x \in 1 .. j - 2
    <2>1. x + 1 \in 1 .. j - 1 /\ x \in 1 .. j - two /\ 1 + (x + 1) = two + x
      BY <1>1, <1>2
    <2> QED
      BY <2>1, <1>9, <1>11, <1>14
  <1>16. t = n
    <2>1. Len(t) = Len(n) /\ Len(t) = j - 2
      BY <1>2, <1>11, <1>14
    <2> QED
      BY <2>1, <1>11, <1>14, <1>15, SeqEqual
  <1>17. o[1] = v[r[2]]
    <2>1. 1 + 1 = 2
      OBVIOUS
    <2> QED
      BY <2>1, <1>9, <1>12
  <1> QED
    BY <1>2, <1>4, <1>7, <1>12, <1>13, <1>16, <1>17

-----------------------------------------------------------------------------
(* PBQueue implements FIFOQueue: the calls                                   *)

(* What a call's phase is, and what a step of MCNext records of it.          *)
Enqueueing(t) == e_phase[t] = "pending" \/ (e_phase[t] = "applied" /\ e_stage # "unlock")

LEMMA PhaseIs ==
    ASSUME OneCall, NEW t \in Threads
    PROVE  QueuePhase(t) = IF Enqueueing(t) THEN "enqueueing"
                           ELSE IF d_phase[t] = "pending" THEN "dequeueing"
                           ELSE IF IsIdle(t) THEN "idle" ELSE "done"
  BY DEF OneCall, QueuePhase, Enqueueing, IsIdle

LEMMA PhaseAfter ==
    ASSUME OneCall', NEW t \in Threads
    PROVE  QueuePhase(t)' = IF Enqueueing(t)' THEN "enqueueing"
                            ELSE IF d_phase'[t] = "pending" THEN "dequeueing"
                            ELSE IF IsIdle(t)' THEN "idle" ELSE "done"
  BY DEF OneCall, QueuePhase, Enqueueing, IsIdle

Recorded ==
    result' = [t \in Threads |->
                  IF QueuePhase(t) # "done" /\ QueuePhase(t)' = "done"
                  THEN IF d_phase'[t] # "idle" THEN d_result'[t] ELSE e_result'[t]
                  ELSE result[t]]

IsResult == result = [t \in Threads |-> result[t]]

FifoInv == QueueInv /\ OrderInv /\ IsResult

(* A step in which no call takes effect, begins or returns. *)
LEMMA Stutter ==
    ASSUME IsResult, Recorded, \A t \in Threads : QueuePhase(t)' = QueuePhase(t),
           \A t \in Threads : QueuePhase(t) = "enqueueing" => e_param'[t] = e_param[t],
           Queued' = Queued
    PROVE  UNCHANGED Queue!vars
  <1>1. result' = result
    BY DEF IsResult, Recorded
  <1>2. [t \in Threads |-> QueuePhase(t)]' = [t \in Threads |-> QueuePhase(t)]
    OBVIOUS
  <1>3. [t \in Threads |-> IF QueuePhase(t) = "enqueueing" THEN e_param[t] ELSE NoArg]' =
           [t \in Threads |-> IF QueuePhase(t) = "enqueueing" THEN e_param[t] ELSE NoArg]
    OBVIOUS
  <1> QED
    BY <1>1, <1>2, <1>3 DEF Queue!vars

LEMMA QueuedCalm ==
    ASSUME QueueInv, UNCHANGED <<next, aux, d_word, val>>
    PROVE  Queued' = Queued
  BY DEF Queued, NodesBetween

LEMMA BeginsEnqueue ==
    ASSUME FifoInv, QueueInv', Recorded, NEW t \in Threads, NEW v \in Values,
           ApplyEnqueue(t, v)
    PROVE  Queue!InvokeEnqueue(t, v)
  <1>1. /\ e_phase \in [Threads -> Phases] /\ e_param \in [Threads -> Values \union {NoArg}]
        /\ OneCall /\ OneCall' /\ IsResult
    BY DEF FifoInv, QueueInv, SessionsInv, EnqueuesInv
  <1>2. /\ e_phase[t] = "idle" /\ d_phase[t] = "idle"
        /\ e_phase' = [e_phase EXCEPT ![t] = "pending"]
        /\ e_param' = [e_param EXCEPT ![t] = v]
        /\ UNCHANGED <<d_phase, e_stage, next, aux, d_word, val>>
    BY DEF ApplyEnqueue, IsIdle, E!Invoke, E!sessionVars, deqVars, nodeVars
  <1>3. QueuePhase(t) = "idle" /\ QueuePhase(t)' = "enqueueing"
    BY <1>1, <1>2, PhaseIs, PhaseAfter DEF Enqueueing, IsIdle
  <1>4. \A u \in Threads : u # t =>
           QueuePhase(u)' = QueuePhase(u) /\ e_param'[u] = e_param[u]
    BY <1>1, <1>2, PhaseIs, PhaseAfter DEF Enqueueing, IsIdle
  <1>5. result' = result
    BY <1>1, <1>3, <1>4 DEF IsResult, Recorded
  <1>6. Queued' = Queued
    BY <1>2, QueuedCalm DEF FifoInv
  <1>7. [u \in Threads |-> QueuePhase(u)]' =
           [[u \in Threads |-> QueuePhase(u)] EXCEPT ![t] = "enqueueing"]
    BY <1>3, <1>4
  <1>8. [u \in Threads |-> IF QueuePhase(u) = "enqueueing" THEN e_param[u] ELSE NoArg]' =
           [[u \in Threads |-> IF QueuePhase(u) = "enqueueing" THEN e_param[u] ELSE NoArg]
               EXCEPT ![t] = v]
    BY <1>1, <1>2, <1>3, <1>4
  <1> QED
    BY <1>3, <1>5, <1>6, <1>7, <1>8 DEF Queue!InvokeEnqueue

LEMMA BeginsDequeue ==
    ASSUME FifoInv, QueueInv', Recorded, NEW t \in Threads, ApplyDequeue(t)
    PROVE  Queue!InvokeDequeue(t)
  <1>1. /\ d_phase \in [Threads -> Phases] /\ OneCall /\ OneCall' /\ IsResult
    BY DEF FifoInv, QueueInv, SessionsInv, DequeuesInv
  <1>2. /\ e_phase[t] = "idle" /\ d_phase[t] = "idle"
        /\ d_phase' = [d_phase EXCEPT ![t] = "pending"]
        /\ UNCHANGED <<e_phase, e_param, e_stage, next, aux, d_word, val>>
    BY DEF ApplyDequeue, IsIdle, D!Invoke, D!wordVars, enqVars, nodeVars
  <1>3. QueuePhase(t) = "idle" /\ QueuePhase(t)' = "dequeueing"
    BY <1>1, <1>2, PhaseIs, PhaseAfter DEF Enqueueing, IsIdle
  <1>4. \A u \in Threads : u # t => QueuePhase(u)' = QueuePhase(u)
    BY <1>1, <1>2, PhaseIs, PhaseAfter DEF Enqueueing, IsIdle
  <1>5. result' = result
    BY <1>1, <1>3, <1>4 DEF IsResult, Recorded
  <1>6. Queued' = Queued
    BY <1>2, QueuedCalm DEF FifoInv
  <1>7. [u \in Threads |-> QueuePhase(u)]' =
           [[u \in Threads |-> QueuePhase(u)] EXCEPT ![t] = "dequeueing"]
    BY <1>3, <1>4
  <1>8. [u \in Threads |-> IF QueuePhase(u) = "enqueueing" THEN e_param[u] ELSE NoArg]' =
           [u \in Threads |-> IF QueuePhase(u) = "enqueueing" THEN e_param[u] ELSE NoArg]
    BY <1>2, <1>3, <1>4
  <1> QED
    BY <1>3, <1>5, <1>6, <1>7, <1>8 DEF Queue!InvokeDequeue

(* A call returns; the other object has nothing to do with it.               *)
LEMMA Returns ==
    ASSUME FifoInv, QueueInv', Recorded, NEW t \in Threads,
           \/ E!Return(t) /\ UNCHANGED <<aux, deqVars, nodeVars, poolVars, batchVars>>
           \/ D!Return(t) /\ UNCHANGED <<enqVars, aux, nodeVars, poolVars, batchVars>>
    PROVE  Queue!Return(t)
  <1>1. /\ e_phase \in [Threads -> Phases] /\ d_phase \in [Threads -> Phases]
        /\ e_param \in [Threads -> Values \union {NoArg}]
        /\ OneCall /\ OneCall' /\ IsResult
    BY DEF FifoInv, QueueInv, SessionsInv, EnqueuesInv, DequeuesInv
  <1>2. /\ \/ e_phase[t] = "released" \/ d_phase[t] = "released"
        /\ e_phase'[t] = "idle" /\ d_phase'[t] = "idle"
        /\ \A u \in Threads : u # t => /\ e_phase'[u] = e_phase[u] /\ d_phase'[u] = d_phase[u]
                                       /\ e_param'[u] = e_param[u]
        /\ UNCHANGED <<e_stage, next, aux, d_word, val>>
    BY <1>1 DEF E!Return, E!sessionVars, E!wordVars, D!Return, D!sessionVars, D!wordVars,
                enqVars, deqVars, nodeVars, OneCall
  <1>3. QueuePhase(t) = "done" /\ QueuePhase(t)' = "idle"
    BY <1>1, <1>2, PhaseIs, PhaseAfter DEF Enqueueing, IsIdle, OneCall
  <1>4. \A u \in Threads : u # t => QueuePhase(u)' = QueuePhase(u)
    BY <1>1, <1>2, PhaseIs, PhaseAfter DEF Enqueueing, IsIdle
  <1>5. result' = result
    BY <1>1, <1>3, <1>4 DEF IsResult, Recorded
  <1>6. Queued' = Queued
    BY <1>2, QueuedCalm DEF FifoInv
  <1>7. [u \in Threads |-> QueuePhase(u)]' =
           [[u \in Threads |-> QueuePhase(u)] EXCEPT ![t] = "idle"]
    BY <1>3, <1>4
  <1>8. [u \in Threads |-> IF QueuePhase(u) = "enqueueing" THEN e_param[u] ELSE NoArg]' =
           [u \in Threads |-> IF QueuePhase(u) = "enqueueing" THEN e_param[u] ELSE NoArg]
    BY <1>2, <1>3, <1>4
  <1> QED
    BY <1>3, <1>5, <1>6, <1>7, <1>8 DEF Queue!Return

(* serialEnqueue takes effect later, when aux moves.                         *)
LEMMA ServedUnseen ==
    ASSUME FifoInv, QueueInv', Recorded, NEW k \in Threads, serialEnqueue(k)
    PROVE  UNCHANGED Queue!vars
  <1>1. /\ e_phase \in [Threads -> Phases] /\ OneCall /\ OneCall' /\ IsResult /\ QueueInv
        /\ OrderInv
    BY DEF FifoInv, QueueInv, SessionsInv, EnqueuesInv
  <1>2. /\ e_phase[k] = "pending" /\ e_stage = "serving" /\ e_stage' = e_stage
        /\ e_phase' = [e_phase EXCEPT ![k] = "applied"]
        /\ UNCHANGED <<d_phase, e_param>>
    BY DEF serialEnqueue, E!Serve, E!sessionVars, deqVars
  <1>3. \A t \in Threads : QueuePhase(t)' = QueuePhase(t)
    BY <1>1, <1>2, PhaseIs, PhaseAfter DEF Enqueueing, IsIdle
  <1>4. PICK q : q = NodesBetween(d_word, aux)
    OBVIOUS
  <1>5. NodesBetween(d_word, aux)' = q /\ \A x \in DOMAIN q : val'[q[x]] = val[q[x]]
    BY <1>1, <1>4, EnqueueOrdered
  <1>6. Queued' = Queued
    <2>1. Queued = [x \in DOMAIN q |-> val[q[x]]]
      BY <1>4 DEF Queued
    <2>2. Queued' = [x \in DOMAIN q |-> val'[q[x]]]
      BY <1>5 DEF Queued
    <2> QED
      BY <2>1, <2>2, <1>5
  <1> QED
    BY <1>1, <1>2, <1>3, <1>6, Stutter

(* What a dequeue can reach, as values.                                      *)
LEMMA QueuedIs ==
    ASSUME QueueInv, NEW r, NEW j \in 1 .. Len(r), Reached(r, j)
    PROVE  Queued = ValuesOf(SubSeq(r, 1 + 1, j), val)
  BY ReachedFacts DEF Queued, ValuesOf

(* A dequeue returns the first value, or finds none.                         *)
LEMMA ServesDequeue ==
    ASSUME FifoInv, QueueInv', Recorded, NEW k \in Threads, serialDequeue(k)
    PROVE  Queue!Dequeue(k)
  <1>1. /\ d_phase \in [Threads -> Phases] /\ OneCall /\ OneCall' /\ IsResult /\ QueueInv
        /\ d_result \in [Threads -> Values \union {EmptyRet, NoVal}]
        /\ val \in [Nodes -> Values \union {Junk}] /\ next \in [Nodes -> Words]
        /\ d_word \in Nodes /\ NodesAssumption
    BY DEF FifoInv, QueueInv, SessionsInv, DequeuesInv, DataInv
  <1>2. /\ d_phase[k] = "pending" /\ d_phase' = [d_phase EXCEPT ![k] = "applied"]
        /\ UNCHANGED <<e_phase, e_param, e_stage, aux, next>>
    BY DEF serialDequeue, D!Serve, enqVars, nodeVars
  <1>3. QueuePhase(k) = "dequeueing" /\ QueuePhase(k)' = "done" /\ d_phase'[k] # "idle"
    BY <1>1, <1>2, PhaseIs, PhaseAfter DEF Enqueueing, IsIdle, OneCall
  <1>4. \A t \in Threads : t # k => QueuePhase(t)' = QueuePhase(t)
    BY <1>1, <1>2, PhaseIs, PhaseAfter DEF Enqueueing, IsIdle
  <1>5. result' = [result EXCEPT ![k] = d_result'[k]]
    <2>1. result' = [t \in Threads |-> IF t = k THEN d_result'[k] ELSE result[t]]
      BY <1>3, <1>4 DEF Recorded
    <2> QED
      BY <2>1, <1>1 DEF IsResult
  <1>6. [u \in Threads |-> QueuePhase(u)]' =
           [[u \in Threads |-> QueuePhase(u)] EXCEPT ![k] = "done"]
    BY <1>3, <1>4
  <1>7. [u \in Threads |-> IF QueuePhase(u) = "enqueueing" THEN e_param[u] ELSE NoArg]' =
           [u \in Threads |-> IF QueuePhase(u) = "enqueueing" THEN e_param[u] ELSE NoArg]
    BY <1>2, <1>3, <1>4
  <1>8. PICK r : \E j \in 1 .. Len(r) : Reached(r, j)
    BY <1>1, TheQueue
  <1>9. PICK j \in 1 .. Len(r) : Reached(r, j)
    BY <1>8
  <1>10. PICK q, v : q = Queued /\ v = val
    OBVIOUS
  <1>11. q = ValuesOf(SubSeq(r, 1 + 1, j), v)
    BY <1>1, <1>9, <1>10, QueuedIs
  <1>12. /\ r \in Seq(Nodes) /\ Len(r) \in Nat /\ j \in Nat /\ 1 <= j /\ j <= Len(r)
         /\ \A x \in 1 .. Len(r) : r[x] \in Nodes
         /\ \A x, y \in 1 .. Len(r) : r[x] = r[y] => x = y
         /\ \A x \in 1 .. Len(r) : next[r[x]] = IF x = Len(r) THEN Null ELSE r[x + 1]
    BY <1>1, <1>9, ReachedFacts
  <1>13. /\ r[1] = d_word /\ r[j] = aux
         /\ \A x \in 2 .. Len(r) : v[r[x]] \in Values
         /\ IsListFrom(r, next, Null, d_word)
    BY <1>9, <1>10 DEF Reached
  <1>14. CASE IsEmpty
    <2>1. j = 1
      BY <1>12, <1>13, <1>14 DEF IsEmpty
    <2>2. SubSeq(r, 1 + 1, j) = <<>>
      BY <2>1, SubSeqEmpty
    <2>3. q = <<>>
      BY <1>11, <2>2 DEF ValuesOf
    <2>4. D!Serve(k, d_word, EmptyRet) /\ UNCHANGED <<nodeVars, aux>>
      BY <1>14 DEF serialDequeue
    <2>5. d_result'[k] = EmptyRet
      BY <1>1, <2>4 DEF D!Serve
    <2>6. Queued' = q
      BY <1>1, <1>10, <2>4, QueuedCalm DEF D!Serve, nodeVars
    <2> QED
      BY <1>3, <1>5, <1>6, <1>7, <1>10, <2>3, <2>5, <2>6 DEF Queue!Dequeue
  <1>15. CASE ~ IsEmpty
    <2>1. /\ d_word' = next[d_word]
          /\ d_result' = [d_result EXCEPT ![k] = val[next[d_word]]]
          /\ val' = [val EXCEPT ![d_word] = Junk]
      BY <1>15 DEF serialDequeue, D!Serve, Recycle, RemovedNode
    <2>2. PICK two : two = 2
      OBVIOUS
    <2>3. j # 1 /\ 1 # Len(r) /\ 1 \in 1 .. Len(r) /\ 1 + 1 = 2
      BY <1>12, <1>13, <1>15 DEF IsEmpty
    <2>4. j \in 2 .. Len(r) /\ two \in 1 .. Len(r) /\ j \in two .. Len(r)
      BY <1>12, <2>2, <2>3
    <2>5. next[d_word] = r[2] /\ d_word' = r[two]
      BY <1>12, <1>13, <2>1, <2>2, <2>3
    <2>6. /\ q # <<>> /\ Head(q) = v[r[2]]
          /\ Tail(q) = ValuesOf(SubSeq(r, 2 + 1, j), v)
      BY <1>11, <1>12, <1>13, <2>4, FirstReached
    <2>7. d_result'[k] = Head(q)
      BY <1>1, <1>10, <2>1, <2>5, <2>6
    <2>8. PICK link, d : link = next /\ d = d_word
      OBVIOUS
    <2>9. link \in [Nodes -> Words] /\ IsListFrom(r, link, Null, d)
      BY <1>1, <1>13, <2>8
    <2>10. Passed(link, r[two], r[j]) = SubSeq(r, two + 1, j)
      BY <1>1, <2>4, <2>9, PassedIs
    <2>11. PICK u : u = SubSeq(r, two + 1, j)
      OBVIOUS
    <2>12. NodesBetween(d_word, aux)' = u
      BY <1>2, <1>13, <2>5, <2>8, <2>10, <2>11 DEF NodesBetween, Passed
    <2>13. /\ u \in Seq(Nodes) /\ Len(u) = j - two
           /\ \A x \in 1 .. j - two : two + x \in two + 1 .. j /\ u[x] = r[two + x]
      BY <1>12, <2>4, <2>11, PartOf
    <2>14. DOMAIN u = 1 .. j - two
      BY <2>13
    <2>15. ASSUME NEW x \in DOMAIN u
           PROVE  val'[u[x]] = v[u[x]]
      <3>1. two + x \in 1 .. Len(r) /\ two + x # 1 /\ u[x] = r[two + x]
        BY <1>12, <2>2, <2>4, <2>13, <2>14
      <3>2. u[x] \in Nodes /\ u[x] # d_word
        BY <1>12, <1>13, <2>3, <3>1
      <3> QED
        BY <1>1, <1>10, <2>1, <3>2
    <2>16. Queued' = ValuesOf(u, v)
      <3>1. Queued' = [x \in DOMAIN u |-> val'[u[x]]]
        BY <2>12 DEF Queued
      <3> QED
        BY <2>15, <3>1 DEF ValuesOf
    <2>17. Queued' = Tail(q)
      BY <2>2, <2>6, <2>11, <2>16
    <2> QED
      BY <1>3, <1>5, <1>6, <1>7, <1>10, <2>6, <2>7, <2>17 DEF Queue!Dequeue
  <1> QED
    BY <1>14, <1>15

(* updateAuxField lets the session's enqueues take effect, all at once.      *)
LEMMA ExposesBatch ==
    ASSUME FifoInv, QueueInv', Recorded, AfterPersist
    PROVE  \/ \E batch \in SUBSET Threads : Queue!Enqueue(batch)
           \/ UNCHANGED Queue!vars
  <1>1. /\ e_phase \in [Threads -> Phases] /\ OneCall /\ OneCall' /\ IsResult
        /\ QueueInv /\ OrderInv /\ BatchInv /\ NodesAssumption
        /\ val \in [Nodes -> Values \union {Junk}] /\ next \in [Nodes -> Words]
    BY DEF FifoInv, QueueInv, SessionsInv, EnqueuesInv, DataInv
  <1>2. /\ e_stage = "after_persist" /\ e_stage' = "unlock" /\ aux' = ExposedTail
        /\ UNCHANGED <<e_phase, e_param, e_result, d_phase, d_word, val, next>>
    BY DEF AfterPersist, E!AfterPersist, E!Advance, E!callVars, E!wordVars, deqVars, nodeVars
  <1>3. \A t \in Threads : IF t \in Applied
                           THEN QueuePhase(t) = "enqueueing" /\ QueuePhase(t)' = "done"
                           ELSE QueuePhase(t)' = QueuePhase(t)
    BY <1>1, <1>2, PhaseIs, PhaseAfter DEF Enqueueing, IsIdle, OneCall, Applied
  <1>4. PICK r : \E j \in 1 .. Len(r) : Reached(r, j)
    BY <1>1, TheQueue
  <1>5. PICK j \in 1 .. Len(r) : Reached(r, j)
    BY <1>4
  <1>6. /\ r \in Seq(Nodes) /\ Len(r) \in Nat /\ j \in Nat /\ 1 <= j /\ j <= Len(r)
        /\ Batch = SubSeq(r, j + 1, Len(r))
    BY <1>1, <1>5, ReachedFacts DEF Batch
  <1>7. PICK q, v, m : q = Queued /\ v = val /\ m = Len(r)
    OBVIOUS
  <1>8. /\ r[1] = d_word /\ r[m] = e_word
        /\ \A x \in 2 .. Len(r) : v[r[x]] \in Values
        /\ IsListFrom(r, next, Null, d_word)
    BY <1>5, <1>7 DEF Reached
  <1>9. q = ValuesOf(SubSeq(r, 1 + 1, j), v)
    BY <1>1, <1>5, <1>7, QueuedIs
  <1>10. aux' = e_word
    BY <1>1, <1>2 DEF ExposedTail, BatchInv
  <1>11. Queued' = ValuesOf(SubSeq(r, 1 + 1, m), v)
    <2>1. PICK link, d : link = next /\ d = d_word
      OBVIOUS
    <2>2. link \in [Nodes -> Words] /\ IsListFrom(r, link, Null, d)
      BY <1>1, <1>8, <2>1
    <2>3. 1 \in 1 .. Len(r) /\ m \in 1 .. Len(r)
      BY <1>6, <1>7
    <2>4. Passed(link, r[1], r[m]) = SubSeq(r, 1 + 1, m)
      BY <1>1, <2>2, <2>3, PassedIs
    <2>5. PICK u : u = SubSeq(r, 1 + 1, m)
      OBVIOUS
    <2>6. NodesBetween(d_word, aux)' = u
      BY <1>2, <1>8, <1>10, <2>1, <2>4, <2>5 DEF NodesBetween, Passed
    <2> QED
      BY <1>2, <1>7, <2>5, <2>6 DEF Queued, ValuesOf
  <1>12. Queued' = q \o ValuesOf(Batch, v)
    BY <1>6, <1>7, <1>8, <1>9, <1>11, BatchBehind
  <1>13. PICK f \in SetToSeqs(Applied) : InOrder(f, Batch)
    BY <1>1, <1>2 DEF OrderInv
  <1>14. CASE Applied # {}
    <2>1. result' = [t \in Threads |-> IF t \in Applied THEN EnqueueRet ELSE result[t]]
      <3>1. ASSUME NEW t \in Applied
            PROVE  d_phase'[t] = "idle" /\ e_result'[t] = EnqueueRet /\ t \in Threads
        BY <1>1, <1>2 DEF Applied, OneCall, OrderInv
      <3> QED
        BY <1>3, <3>1 DEF Recorded
    <2>2. [t \in Threads |-> QueuePhase(t)]' =
             [t \in Threads |-> IF t \in Applied THEN "done"
                                ELSE [u \in Threads |-> QueuePhase(u)][t]]
      BY <1>3
    <2> DEFINE pa == [t \in Threads |-> IF QueuePhase(t) = "enqueueing"
                                        THEN e_param[t] ELSE NoArg]
    <2>4. pa' = [t \in Threads |-> IF t \in Applied THEN NoArg ELSE pa[t]]
      BY <1>2, <1>3
    <2>5. ValuesOf(Batch, v) = [x \in DOMAIN f |-> pa[f[x]]]
      <3>1. \A x \in DOMAIN f : f[x] \in Applied
        BY DEF SetToSeqs
      <3>2. \A t \in Applied : pa[t] = e_param[t]
        BY <1>3 DEF Applied
      <3> QED
        BY <1>7, <1>13, <3>1, <3>2 DEF InOrder, ValuesOf
    <2>6. f \in Queue!SetToSeqs(Applied)
      BY DEF SetToSeqs, Queue!SetToSeqs, Cardinality, Queue!Cardinality
    <2>7. \A t \in Applied : [u \in Threads |-> QueuePhase(u)][t] = "enqueueing"
      BY <1>3 DEF Applied
    <2>8. \E order \in Queue!SetToSeqs(Applied) :
             Queued' = Queued \o [x \in DOMAIN order |-> pa[order[x]]]
      BY <1>7, <1>12, <2>5, <2>6
    <2>9. PICK batch : batch = Applied
      OBVIOUS
    <2>10. Queue!Enqueue(batch)
      BY <2>9, <1>14, <2>1, <2>2, <2>4, <2>7, <2>8 DEF Queue!Enqueue
    <2> QED
      BY <2>9, <2>10 DEF Applied
  <1>15. CASE Applied = {}
    <2>1. enqueue_counter = 0
      BY <1>1, <1>2, <1>15, FS_EmptySet DEF BatchInv
    <2>2. aux' = aux
      BY <1>2, <2>1 DEF ExposedTail
    <2>3. Queued' = Queued
      BY <1>1, <1>2, <2>2, QueuedCalm
    <2> QED
      BY <1>1, <1>2, <1>3, <1>15, <2>3, Stutter
  <1> QED
    BY <1>14, <1>15
-----------------------------------------------------------------------------
(* PBQueue implements FIFOQueue: step by step                                *)

(* A step of a session that no call sees. *)
LEMMA SessionUnseen ==
    ASSUME FifoInv, QueueInv', Recorded,
           UNCHANGED <<e_param, d_word, aux, val, next>>,
           \A t \in Threads : \/ e_phase'[t] = e_phase[t]
                              \/ e_phase[t] = "applied" /\ e_phase'[t] = "released"
                                 /\ e_stage = "unlock",
           \A t \in Threads : \/ d_phase'[t] = d_phase[t]
                              \/ d_phase[t] = "applied" /\ d_phase'[t] = "released",
           \A t \in Threads : e_phase[t] = "applied" =>
                                  (e_stage = "unlock" <=> e_stage' = "unlock")
                                  \/ e_phase'[t] = "released"
    PROVE  UNCHANGED Queue!vars
  <1>1. OneCall /\ OneCall' /\ IsResult /\ QueueInv
    BY DEF FifoInv, QueueInv, SessionsInv
  <1>2. \A t \in Threads : QueuePhase(t)' = QueuePhase(t)
    BY <1>1, PhaseIs, PhaseAfter DEF Enqueueing, IsIdle
  <1>3. Queued' = Queued
    BY <1>1, QueuedCalm
  <1> QED
    BY <1>1, <1>2, <1>3, Stutter

LEMMA StepIsQueueStep ==
    ASSUME FifoInv, QueueInv', Recorded, Next
    PROVE  [Queue!Next]_Queue!vars
  <1>1. /\ e_phase \in [Threads -> Phases] /\ d_phase \in [Threads -> Phases]
        /\ \A t \in Threads : e_phase[t] = "applied" => e_stage # "free"
    BY DEF FifoInv, QueueInv, SessionsInv, EnqueuesInv, DequeuesInv, SessionInv
  <1> USE DEF enqVars, deqVars, nodeVars, poolVars, batchVars
  <1>2. ASSUME NEW t \in Threads, NEW v \in Values, ApplyEnqueue(t, v)
        PROVE  Queue!Next
    BY <1>2, BeginsEnqueue DEF Queue!Next
  <1>3. ASSUME NEW t \in Threads, ApplyDequeue(t)
        PROVE  Queue!Next
    BY <1>3, BeginsDequeue DEF Queue!Next
  <1>4. ASSUME NEW t \in Threads, BeginEnqueues(t)
        PROVE  UNCHANGED Queue!vars
    BY <1>1, <1>4, SessionUnseen DEF BeginEnqueues, E!Begin, E!callVars
  <1>5. ASSUME NEW t \in Threads, BeginDequeues(t)
        PROVE  UNCHANGED Queue!vars
    BY <1>5, SessionUnseen DEF BeginDequeues, D!Begin, D!callVars, D!wordVars
  <1>6. ASSUME NEW t \in Threads, serialEnqueue(t)
        PROVE  UNCHANGED Queue!vars
    BY <1>6, ServedUnseen
  <1>7. ASSUME NEW t \in Threads, serialDequeue(t)
        PROVE  Queue!Next
    BY <1>7, ServesDequeue DEF Queue!Next
  <1>8. CASE FinalPersist
    BY <1>8, SessionUnseen
       DEF FinalPersist, E!FinalPersist, E!Advance, E!callVars, E!wordVars
  <1>9. CASE AfterPersist
    BY <1>9, ExposesBatch DEF Queue!Next
  <1>10. CASE EnqueueCombinerStep
    <2>1. UNCHANGED <<aux, deqVars, nodeVars, poolVars, batchVars>>
      BY <1>10 DEF EnqueueCombinerStep
    <2>2. CASE E!FlushState \/ E!Publish \/ E!FlushPointer \/ E!Evict
      BY <2>1, <2>2, SessionUnseen
         DEF E!FlushState, E!Publish, E!FlushPointer, E!Evict, E!Advance, E!callVars,
             E!sessionVars, E!wordVars
    <2>3. CASE E!Unlock
      BY <1>1, <2>1, <2>3, SessionUnseen DEF E!Unlock, E!wordVars
    <2>4. ASSUME NEW t \in Threads, E!Return(t)
          PROVE  Queue!Next
      BY <2>1, <2>4, Returns DEF Queue!Next
    <2> QED
      BY <1>10, <2>2, <2>3, <2>4 DEF EnqueueCombinerStep
  <1>11. CASE DequeueCombinerStep
    <2>1. UNCHANGED <<enqVars, aux, nodeVars, poolVars, batchVars>>
      BY <1>11 DEF DequeueCombinerStep
    <2>2. CASE D!FinalPersist \/ D!FlushState \/ D!Publish \/ D!FlushPointer
               \/ D!AfterPersist \/ D!Evict
      BY <2>1, <2>2, SessionUnseen
         DEF D!FinalPersist, D!FlushState, D!Publish, D!FlushPointer, D!AfterPersist,
             D!Evict, D!Advance, D!callVars, D!sessionVars, D!wordVars
    <2>3. CASE D!Unlock
      BY <1>1, <2>1, <2>3, SessionUnseen DEF D!Unlock, D!wordVars
    <2>4. ASSUME NEW t \in Threads, D!Return(t)
          PROVE  Queue!Next
      BY <2>1, <2>4, Returns DEF Queue!Next
    <2> QED
      BY <1>11, <2>2, <2>3, <2>4 DEF DequeueCombinerStep, D!Persist
  <1> QED
    BY <1>2, <1>3, <1>4, <1>5, <1>6, <1>7, <1>8, <1>9, <1>10, <1>11 DEF Next

LEMMA InitIsQueueInit ==
    ASSUME MCInit
    PROVE  FifoInv /\ Queue!Init
  <1>1. Init /\ result = [t \in Threads |-> NoVal]
    BY DEF MCInit
  <1>2. QueueInv /\ OrderInv /\ IsResult
    BY <1>1, InitQueue, InitOrder DEF IsResult
  <1>3. \A t \in Threads : QueuePhase(t) = "idle"
    BY <1>1, <1>2, PhaseIs DEF Init, E!Init, D!Init, Enqueueing, IsIdle, QueueInv, SessionsInv
  <1>4. Queued = <<>>
    <2>1. PICK r : \E j \in 1 .. Len(r) : Reached(r, j)
      BY <1>2, TheQueue
    <2>2. PICK j \in 1 .. Len(r) : Reached(r, j)
      BY <2>1
    <2>3. /\ Len(r) \in Nat /\ r[1] = d_word /\ r[j] = aux /\ j \in Nat /\ 1 <= j
          /\ \A x, y \in 1 .. Len(r) : r[x] = r[y] => x = y
          /\ Queued = ValuesOf(SubSeq(r, 1 + 1, j), val)
      BY <1>2, <2>2, ReachedFacts, QueuedIs DEF Reached
    <2>4. aux = d_word
      BY <1>1 DEF Init, D!Init
    <2>5. j = 1
      BY <2>3, <2>4
    <2>6. SubSeq(r, 1 + 1, j) = <<>>
      BY <2>5, SubSeqEmpty
    <2> QED
      BY <2>3, <2>6 DEF ValuesOf
  <1> QED
    BY <1>1, <1>2, <1>3, <1>4 DEF FifoInv, Queue!Init

LEMMA MCStep ==
    ASSUME FifoInv, [MCNext]_<<vars, calls, result>>
    PROVE  FifoInv' /\ [Queue!Next]_Queue!vars
  <1>1. CASE MCNext
    <2>1. Next /\ Recorded
      BY <1>1 DEF MCNext, Recorded
    <2>2. QueueInv' /\ OrderInv'
      BY <2>1, NextKeepsQueue, NextKeepsOrder DEF FifoInv
    <2>3. IsResult'
      BY <2>1 DEF Recorded, IsResult
    <2> QED
      BY <2>1, <2>2, <2>3, StepIsQueueStep DEF FifoInv
  <1>2. CASE UNCHANGED <<vars, calls, result>>
    <2>1. QueueInv' /\ OrderInv' /\ IsResult'
      BY <1>2, NextKeepsQueue, NextKeepsOrder DEF FifoInv, IsResult
    <2>2. Queued' = Queued
      BY <1>2, QueuedCalm DEF FifoInv, vars, enqVars, deqVars, nodeVars
    <2>3. \A t \in Threads : QueuePhase(t)' = QueuePhase(t)
      BY <1>2 DEF QueuePhase, IsIdle, vars, enqVars, deqVars
    <2>4. e_param' = e_param /\ result' = result
      BY <1>2 DEF vars, enqVars
    <2> QED
      BY <2>1, <2>2, <2>3, <2>4 DEF FifoInv, Queue!vars
  <1> QED
    BY <1>1, <1>2

(* PBqueue is a linearizable queue. *)
THEOREM QueueIsFIFO == MCSpec => ImplementsFIFOQueue
  <1>1. MCInit => FifoInv /\ Queue!Init
    BY InitIsQueueInit
  <1>2. FifoInv /\ [MCNext]_<<vars, calls, result>> => FifoInv' /\ [Queue!Next]_Queue!vars
    BY MCStep
  <1> QED
    BY <1>1, <1>2, PTL DEF MCSpec, ImplementsFIFOQueue, Queue!Spec

-----------------------------------------------------------------------------
(* PBStack                                                                   *)

StackProofs == INSTANCE PBStackProofs WITH
    result <- s_result, val <- s_val, next <- s_next,
    recycle_list <- s_recycle_list, cur_entry <- s_cur_entry,
    clNewItems <- s_clNewItems

LEMMA StackConstants == StackProofs!NodesAssumption
  BY StackAssumption
     DEF Stack!NodesAssumption, StackProofs!NodesAssumption, Stack!Nodes, StackProofs!Nodes,
         Stack!Words, StackProofs!Words, Stack!IsFiniteSet, StackProofs!IsFiniteSet

(* The steps of the structures are steps of the stack, or leave it alone.    *)
LEMMA StackSteps == StructuresSpec => StackProofs!Spec
  <1>1. StructuresInit => StackProofs!Init
    BY DEF StructuresInit, Stack!Init, StackProofs!Init,
           Stack!Push, Stack!Pop, Stack!EmptyBatch, Stack!Begin,
           Stack!PopEmpty, Stack!Deferred, Stack!PopNode, Stack!CanAlloc,
           Stack!AllocatedNode, Stack!Alloc, Stack!Counted, Stack!PushNode,
           Stack!serialPushPop, Stack!FlushedLines, Stack!FinalPersist,
           Stack!AfterPersist, Stack!CombinerStep, Stack!Return, Stack!Next,
           Stack!vars, Stack!nodeVars, Stack!poolVars, Stack!batchVars,
           Stack!combVars, Stack!Nodes, Stack!Lines, Stack!Line, Stack!Args,
           Stack!PushRet, Stack!EmptyRet, Stack!ToSet, Stack!Reverse,
           Stack!Comb!Init, Stack!Comb!Invoke, Stack!Comb!Begin,
           Stack!Comb!Serve, Stack!Comb!Advance, Stack!Comb!FinalPersist,
           Stack!Comb!FlushState, Stack!Comb!Publish, Stack!Comb!FlushPointer,
           Stack!Comb!AfterPersist, Stack!Comb!Unlock, Stack!Comb!Return,
           Stack!Comb!Evict, Stack!Comb!callVars, Stack!Comb!sessionVars,
           Stack!Comb!wordVars, StackProofs!Push, StackProofs!Pop,
           StackProofs!EmptyBatch, StackProofs!Begin, StackProofs!PopEmpty,
           StackProofs!Deferred, StackProofs!PopNode, StackProofs!CanAlloc,
           StackProofs!AllocatedNode, StackProofs!Alloc, StackProofs!Counted,
           StackProofs!PushNode, StackProofs!serialPushPop,
           StackProofs!FlushedLines, StackProofs!FinalPersist,
           StackProofs!AfterPersist, StackProofs!CombinerStep,
           StackProofs!Return, StackProofs!Next, StackProofs!vars,
           StackProofs!nodeVars, StackProofs!poolVars, StackProofs!batchVars,
           StackProofs!combVars, StackProofs!Nodes, StackProofs!Lines,
           StackProofs!Line, StackProofs!Args, StackProofs!PushRet,
           StackProofs!EmptyRet, StackProofs!ToSet, StackProofs!Reverse,
           StackProofs!Comb!Init, StackProofs!Comb!Invoke,
           StackProofs!Comb!Begin, StackProofs!Comb!Serve,
           StackProofs!Comb!Advance, StackProofs!Comb!FinalPersist,
           StackProofs!Comb!FlushState, StackProofs!Comb!Publish,
           StackProofs!Comb!FlushPointer, StackProofs!Comb!AfterPersist,
           StackProofs!Comb!Unlock, StackProofs!Comb!Return,
           StackProofs!Comb!Evict, StackProofs!Comb!callVars,
           StackProofs!Comb!sessionVars, StackProofs!Comb!wordVars
  <1>2. [StructuresNext]_<<structure, stackVars, queueVars>> => [Stack!Next]_Stack!vars
    BY DEF StructuresNext, stackVars, Stack!vars, Stack!combVars, Stack!nodeVars,
           Stack!poolVars, Stack!batchVars
  <1>3. [Stack!Next]_Stack!vars => [StackProofs!Next]_StackProofs!vars
    BY DEF
           Stack!Push, Stack!Pop, Stack!EmptyBatch, Stack!Begin,
           Stack!PopEmpty, Stack!Deferred, Stack!PopNode, Stack!CanAlloc,
           Stack!AllocatedNode, Stack!Alloc, Stack!Counted, Stack!PushNode,
           Stack!serialPushPop, Stack!FlushedLines, Stack!FinalPersist,
           Stack!AfterPersist, Stack!CombinerStep, Stack!Return, Stack!Next,
           Stack!vars, Stack!nodeVars, Stack!poolVars, Stack!batchVars,
           Stack!combVars, Stack!Nodes, Stack!Lines, Stack!Line, Stack!Args,
           Stack!PushRet, Stack!EmptyRet, Stack!ToSet, Stack!Reverse,
           Stack!Comb!Init, Stack!Comb!Invoke, Stack!Comb!Begin,
           Stack!Comb!Serve, Stack!Comb!Advance, Stack!Comb!FinalPersist,
           Stack!Comb!FlushState, Stack!Comb!Publish, Stack!Comb!FlushPointer,
           Stack!Comb!AfterPersist, Stack!Comb!Unlock, Stack!Comb!Return,
           Stack!Comb!Evict, Stack!Comb!callVars, Stack!Comb!sessionVars,
           Stack!Comb!wordVars, StackProofs!Push, StackProofs!Pop,
           StackProofs!EmptyBatch, StackProofs!Begin, StackProofs!PopEmpty,
           StackProofs!Deferred, StackProofs!PopNode, StackProofs!CanAlloc,
           StackProofs!AllocatedNode, StackProofs!Alloc, StackProofs!Counted,
           StackProofs!PushNode, StackProofs!serialPushPop,
           StackProofs!FlushedLines, StackProofs!FinalPersist,
           StackProofs!AfterPersist, StackProofs!CombinerStep,
           StackProofs!Return, StackProofs!Next, StackProofs!vars,
           StackProofs!nodeVars, StackProofs!poolVars, StackProofs!batchVars,
           StackProofs!combVars, StackProofs!Nodes, StackProofs!Lines,
           StackProofs!Line, StackProofs!Args, StackProofs!PushRet,
           StackProofs!EmptyRet, StackProofs!ToSet, StackProofs!Reverse,
           StackProofs!Comb!Init, StackProofs!Comb!Invoke,
           StackProofs!Comb!Begin, StackProofs!Comb!Serve,
           StackProofs!Comb!Advance, StackProofs!Comb!FinalPersist,
           StackProofs!Comb!FlushState, StackProofs!Comb!Publish,
           StackProofs!Comb!FlushPointer, StackProofs!Comb!AfterPersist,
           StackProofs!Comb!Unlock, StackProofs!Comb!Return,
           StackProofs!Comb!Evict, StackProofs!Comb!callVars,
           StackProofs!Comb!sessionVars, StackProofs!Comb!wordVars
  <1> QED
    BY <1>1, <1>2, <1>3, PTL DEF StructuresSpec, StackProofs!Spec

(* The steps of the structures are steps of the queue, or leave it alone, so *)
(* that what is proved of the queue holds of them.                           *)
LEMMA QueueSteps == StructuresSpec => MCSpec
  <1>1. StructuresInit => MCInit
    BY DEF StructuresInit
  <1>2. [StructuresNext]_<<structure, stackVars, queueVars>>
            => [MCNext]_<<vars, calls, result>>
    BY DEF StructuresNext, queueVars
  <1> QED
    BY <1>1, <1>2, PTL DEF StructuresSpec, MCSpec

LEMMA BareQueue == MCSpec => Spec
  <1>1. MCInit => Init
    BY DEF MCInit
  <1>2. [MCNext]_<<vars, calls, result>> => [Next]_vars
    BY DEF MCNext
  <1> QED
    BY <1>1, <1>2, PTL DEF MCSpec, Spec

(* Both structures keep to the types of their variables: no node, line or    *)
(* index outside their ranges is ever stored (pbcombstack.c, pbcombqueue.c). *)
THEOREM StructuresTypes == StructuresSpec => []TypesOK
  <1>1. StackProofs!Spec => []StackProofs!TypeOK
    BY StackConstants, StackProofs!StackTypes
  <1>2. StackProofs!TypeOK => Stack!TypeOK
    BY DEF Stack!TypeOK, StackProofs!TypeOK, Stack!Args, StackProofs!Args,
           Stack!RetVals, StackProofs!RetVals, Stack!PushRet, StackProofs!PushRet,
           Stack!EmptyRet, StackProofs!EmptyRet, Stack!Words, StackProofs!Words,
           Stack!Nodes, StackProofs!Nodes, Stack!Lines, StackProofs!Lines,
           Stack!Line, StackProofs!Line
  <1>3. Stack!TypeOK /\ TypeOK => TypesOK
    BY DEF TypesOK
  <1> QED
    BY <1>1, <1>2, <1>3, StackSteps, QueueSteps, BareQueue, QueueTypes, PTL

(* What was proved of the queue alone, of the behaviours that run explores: *)
(* its nodes are in one place each, a reused node is one no crash brings     *)
(* back, a dequeue takes only nodes whose values are durable, and the queue  *)
(* is first-in first-out (pbcombqueue.c).                                    *)
THEOREM QueueOfStructures ==
    StructuresSpec =>
        /\ [](NodesAccountedFor /\ ReusedNodesForgotten /\ DequeuesDurableOnly)
        /\ ImplementsFIFOQueue
  BY QueueSteps, BareQueue, QueueNodesKept, ReusedForgotten, DurableDequeued,
     QueueIsFIFO, PTL

(* serialPushPop and after_persist_func: a node is in the stack, popped by   *)
(* the session under way or in the pool, and never in two of these places;   *)
(* no node of the pool is one a crash may bring back.                        *)
THEOREM StackNodesKept == StructuresSpec => []StackNodesAccountedFor
  <1>1. StackProofs!Spec => []StackProofs!NodesAccountedFor
    BY StackConstants, StackProofs!NodesKept
  <1>2. StackProofs!NodesAccountedFor => StackNodesAccountedFor
    BY DEF StackNodesAccountedFor,
           Stack!NodesAccountedFor, Stack!IsInjective, Stack!ToSet,
           Stack!InStack, Stack!NodesFrom, Stack!ListFrom, Stack!Popped,
           Stack!Nodes, StackProofs!NodesAccountedFor,
           StackProofs!IsInjective, StackProofs!ToSet, StackProofs!InStack,
           StackProofs!NodesFrom, StackProofs!ListFrom, StackProofs!Popped,
           StackProofs!Nodes
  <1> QED
    BY <1>1, <1>2, StackSteps, PTL

(* PBCombStackThreadStateInit gives each array nthreads entries: a session   *)
(* never lists more lines, nor more popped nodes, than there are threads.    *)
THEOREM ArraysDoSuffice == StructuresSpec => []ArraysSuffice
  <1>1. StackProofs!Spec => []StackProofs!ArraysSuffice
    BY StackConstants, StackProofs!ArraysAreLargeEnough
  <1>2. StackProofs!ArraysSuffice => ArraysSuffice
    BY DEF ArraysSuffice,
           Stack!ArraysSuffice, Stack!Cardinality, StackProofs!ArraysSuffice,
           StackProofs!Cardinality
  <1> QED
    BY <1>1, <1>2, StackSteps, PTL

(* PBstack is a durable stack, if no line is left out of the flush.          *)
THEOREM StackIsDurable == StackProofs!FlushesAll => (StructuresSpec => ImplementsDurableStack)
  <1> SUFFICES ASSUME StackProofs!FlushesAll PROVE StructuresSpec => ImplementsDurableStack
    OBVIOUS
  <1>1. StackProofs!Spec => StackProofs!ImplementsDurableStack
    BY StackConstants, StackProofs!IsDurableStack
  <1>2. StackProofs!DurableStack!Init => Stack!DurableStack!Init
    BY DEF
           Stack!ImplementsDurableStack, Stack!Stack, Stack!Recovered,
           Stack!Contents, Stack!InStack, Stack!NodesFrom, Stack!ListFrom,
           Stack!ToSet, Stack!Nodes, Stack!Args, Stack!EmptyRet,
           Stack!PushRet, Stack!DurableStack!Spec, Stack!DurableStack!Init,
           Stack!DurableStack!Next, Stack!DurableStack!vars,
           Stack!DurableStack!Invoke, Stack!DurableStack!Apply,
           Stack!DurableStack!Persist, Stack!DurableStack!Return,
           StackProofs!ImplementsDurableStack, StackProofs!Stack,
           StackProofs!Recovered, StackProofs!Contents, StackProofs!InStack,
           StackProofs!NodesFrom, StackProofs!ListFrom, StackProofs!ToSet,
           StackProofs!Nodes, StackProofs!Args, StackProofs!EmptyRet,
           StackProofs!PushRet, StackProofs!DurableStack!Spec,
           StackProofs!DurableStack!Init, StackProofs!DurableStack!Next,
           StackProofs!DurableStack!vars, StackProofs!DurableStack!Invoke,
           StackProofs!DurableStack!Apply, StackProofs!DurableStack!Persist,
           StackProofs!DurableStack!Return
  <1>3. [StackProofs!DurableStack!Next]_StackProofs!DurableStack!vars
            => [Stack!DurableStack!Next]_Stack!DurableStack!vars
    BY DEF
           Stack!ImplementsDurableStack, Stack!Stack, Stack!Recovered,
           Stack!Contents, Stack!InStack, Stack!NodesFrom, Stack!ListFrom,
           Stack!ToSet, Stack!Nodes, Stack!Args, Stack!EmptyRet,
           Stack!PushRet, Stack!DurableStack!Spec, Stack!DurableStack!Init,
           Stack!DurableStack!Next, Stack!DurableStack!vars,
           Stack!DurableStack!Invoke, Stack!DurableStack!Apply,
           Stack!DurableStack!Persist, Stack!DurableStack!Return,
           StackProofs!ImplementsDurableStack, StackProofs!Stack,
           StackProofs!Recovered, StackProofs!Contents, StackProofs!InStack,
           StackProofs!NodesFrom, StackProofs!ListFrom, StackProofs!ToSet,
           StackProofs!Nodes, StackProofs!Args, StackProofs!EmptyRet,
           StackProofs!PushRet, StackProofs!DurableStack!Spec,
           StackProofs!DurableStack!Init, StackProofs!DurableStack!Next,
           StackProofs!DurableStack!vars, StackProofs!DurableStack!Invoke,
           StackProofs!DurableStack!Apply, StackProofs!DurableStack!Persist,
           StackProofs!DurableStack!Return
  <1> QED
    BY <1>1, <1>2, <1>3, StackSteps, PTL
       DEF ImplementsDurableStack, Stack!ImplementsDurableStack, Stack!DurableStack!Spec,
           StackProofs!ImplementsDurableStack, StackProofs!DurableStack!Spec
=============================================================================
