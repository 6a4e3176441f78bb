------------------------- MODULE PWFStructuresProofs -------------------------
(* Proofs about PWFQueue, with the history variable of MCPWFQueue, and of    *)
(* the behaviours the run pwf_structures explores, in which MCPWFStructures  *)
(* runs PWFStack, or PWFQueue; PWFStackProofs has the proofs about the stack.*)
EXTENDS MCPWFStructures, LinkedListsProofs

Phases == {"idle", "pending", "applied"}
Stages == {"out", "trying", "stale", "published", "synced"}
Appending == {"link", "append", "flush", "cas"}
Removing == {"deqlink", "serve", "reread", "deqcas"}
Labels == {"out", "link", "append", "flush", "cas", "relink", "sync", "return",
           "deqlink", "serve", "reread", "deqcas", "deqsync"}

SessionInv(ph, st, ba) ==
    \A t \in Threads :
        /\ st[t] # "out" => ph[t] # "idle"
        /\ st[t] \in {"published", "synced"} => ph[t] = "applied"
        /\ st[t] = "trying" => t \in ba[t] /\ \A k \in ba[t] : ph[k] = "pending"

EnqueuesInv ==
    /\ e_phase \in [Threads -> Phases]
    /\ e_param \in [Threads -> Values \union {NoArg}]
    /\ e_stage \in [Threads -> Stages]
    /\ e_batch \in [Threads -> SUBSET Threads]
    /\ \A t \in Threads : e_phase[t] # "idle" => e_param[t] \in Values
    /\ SessionInv(e_phase, e_stage, e_batch)

DequeuesInv ==
    /\ d_phase \in [Threads -> Phases]
    /\ d_stage \in [Threads -> Stages]
    /\ d_batch \in [Threads -> SUBSET Threads]
    /\ SessionInv(d_phase, d_stage, d_batch)

OneCall == \A t \in Threads : e_phase[t] = "idle" \/ d_phase[t] = "idle"

PlacesInv ==
    /\ at \in [Threads -> Labels]
    /\ \A t \in Threads :
          /\ at[t] \in Appending <=> e_stage[t] \in {"trying", "stale"}
          /\ at[t] \in {"relink", "sync"} <=> e_stage[t] = "published"
          /\ at[t] \in Removing <=> d_stage[t] \in {"trying", "stale"}
          /\ at[t] = "deqsync" <=> d_stage[t] = "published"
          /\ at[t] = "return" <=> "synced" \in {e_stage[t], d_stage[t]}

SchemeInv == EnqueuesInv /\ DequeuesInv /\ OneCall /\ PlacesInv

DataInv ==
    /\ e_word \in EnqRecs /\ e_durable \in EnqRecs \union {Unformatted}
    /\ d_word \in Nodes /\ d_durable \in Nodes \union {Unformatted}
    /\ d_result \in [Threads -> Values \union {EmptyRet, NoVal}]
    /\ val \in [Nodes -> Values \union {Junk}]
    /\ next \in [Nodes -> Words]
    /\ clean_val \subseteq Nodes /\ clean_next \subseteq Nodes
    /\ flushed \in [Threads -> SUBSET Nodes]
    /\ cur_entry \in [Threads -> 0 .. PoolEntries]
    /\ loc \in [Threads -> [rec : EnqRecs, nodes : Seq(PoolNodes),
                            diffs : SUBSET Threads, head : Nodes,
                            return_val : [Threads -> Values \union {EmptyRet, NoVal}]]]

HasChain(t) == at[t] \in {"flush", "cas"}

ChainOf(t) ==
    LET c == loc[t].nodes IN
    /\ Len(c) \in 1 .. cur_entry[t]
    /\ \A i \in 1 .. Len(c) :
          /\ c[i] = <<t, cur_entry[t] - Len(c) + i - 1>>
          /\ next[c[i]] = IF i = Len(c) THEN Null ELSE c[i + 1]
          /\ val[c[i]] \in Values
          /\ at[t] = "cas" => c[i] \in clean_val /\ c[i] \in clean_next
    /\ loc[t].rec.last = c[1] /\ loc[t].rec.tail = c[Len(c)]

LocalOf(t) ==
    /\ at[t] \in {"link", "append"} =>
          t \notin loc[t].diffs /\ \A k \in loc[t].diffs : e_param[k] \in Values
    /\ HasChain(t) => ChainOf(t)
    /\ e_stage[t] = "trying" /\ ~HasChain(t) => loc[t].diffs = e_batch[t] \ {t}

LocalInv == \A t \in Threads : LocalOf(t)

Chain == ListFrom(MadeGood(e_word, next), Null, Guard, Cardinality(Nodes))

Linked(s, k) ==
    /\ IsListFrom(s, MadeGood(e_word, next), Null, Guard)
    /\ s[Len(s)] = e_word.tail
    /\ IF k = 0 THEN e_word = InitialRec /\ Len(s) = 1
       ELSE k < Len(s) /\ e_word.first = s[k] /\ e_word.last = s[k + 1]

Spent(t) == cur_entry[t] - IF HasChain(t) THEN Len(loc[t].nodes) ELSE 0

Issued(s) ==
    \A i \in 2 .. Len(s) :
        /\ s[i] \in PoolNodes /\ s[i][2] < Spent(s[i][1])
        /\ val[s[i]] \in Values

RecGood(s, rec) ==
    rec.first # Null /\ rec # e_word => rec.first \in ToSet(s) /\ next[rec.first] # Null

Trying(s, k, t) ==
    /\ IF HasChain(t) THEN loc[t].rec.first = e_word.tail ELSE loc[t].rec = e_word
    /\ at[t] # "link" /\ k # 0 =>
          /\ next[s[k]] # Null
          /\ s[k] \in IF at[t] = "cas" THEN clean_next ELSE flushed[t]

AttemptOf(s, k, t) ==
    /\ at[t] \in {"link", "append", "relink"} => RecGood(s, loc[t].rec)
    /\ e_stage[t] = "trying" => Trying(s, k, t)
    /\ at[t] \in Removing => loc[t].head \in ToSet(s)

Attempts(s, k) == \A t \in Threads : AttemptOf(s, k, t)

Durable(s, k) ==
    /\ \A i \in 2 .. Len(s) : s[i] \in clean_val
    /\ \A i \in 1 .. Len(s) - 1 : i # k => s[i] \in clean_next
    /\ e_durable \in {Unformatted, e_word} \/
          \E p \in 1 .. k :
              /\ e_durable.tail = s[p]
              /\ e_durable.first # Null =>
                    \E j \in 1 .. p - 1 : e_durable.first = s[j]
    /\ d_word \in ToSet(s)
    /\ d_durable \in ToSet(s) \union {Unformatted}

Held(s, k) == Linked(s, k) /\ Issued(s) /\ Attempts(s, k) /\ Durable(s, k)

ChainInv == \E k \in 0 .. Len(Chain) : Held(Chain, k)

QueueInv == QueueAssumption /\ SchemeInv /\ DataInv /\ LocalInv /\ ChainInv

-----------------------------------------------------------------------------
(* The scheme                                                                *)

EnqueuesStep ==
    \/ \E t \in Threads :
          \/ \E v \in Values : Enq!Invoke(t, v) /\ IsIdle(t)
          \/ \E threads \in SUBSET Enq!Pending : Enq!Start(t, threads)
          \/ \E w, answers : Enq!Publish(t, w, answers)
          \/ Enq!GiveUp(t) \/ Enq!Sync(t) \/ Enq!ReturnOwn(t) \/ Enq!ReturnServed(t)
    \/ Enq!Evict

DequeuesStep ==
    \/ \E t \in Threads :
          \/ Deq!Invoke(t, DeqArg) /\ IsIdle(t)
          \/ \E threads \in SUBSET Deq!Pending : Deq!Start(t, threads)
          \/ \E w, answers : Deq!Publish(t, w, answers)
          \/ Deq!GiveUp(t) \/ Deq!Sync(t) \/ Deq!ReturnOwn(t) \/ Deq!ReturnServed(t)
    \/ Deq!Evict

LEMMA EnqueuesStepKeeps ==
    ASSUME EnqueuesInv, EnqueuesStep
    PROVE  EnqueuesInv'
  <1> USE DEF EnqueuesInv, SessionInv, Phases, Stages, Enq!callVars,
              Enq!recordVars, Enq!Pending
  <1>1. ASSUME NEW t \in Threads, NEW v \in Values, Enq!Invoke(t, v)
        PROVE  EnqueuesInv'
    BY <1>1 DEF Enq!Invoke
  <1>2. ASSUME NEW t \in Threads, NEW threads \in SUBSET Enq!Pending,
               Enq!Start(t, threads)
        PROVE  EnqueuesInv'
    BY <1>2 DEF Enq!Start
  <1>3. ASSUME NEW t \in Threads, NEW w, NEW answers, Enq!Publish(t, w, answers)
        PROVE  EnqueuesInv'
    BY <1>3 DEF Enq!Publish
  <1>4. ASSUME NEW t \in Threads, Enq!GiveUp(t) \/ Enq!Sync(t)
        PROVE  EnqueuesInv'
    BY <1>4 DEF Enq!GiveUp, Enq!Sync
  <1>5. ASSUME NEW t \in Threads, Enq!ReturnOwn(t) \/ Enq!ReturnServed(t)
        PROVE  EnqueuesInv'
    BY <1>5 DEF Enq!ReturnOwn, Enq!ReturnServed
  <1>6. CASE Enq!Evict
    BY <1>6 DEF Enq!Evict
  <1> QED
    BY <1>1, <1>2, <1>3, <1>4, <1>5, <1>6 DEF EnqueuesStep

LEMMA DequeuesStepKeeps ==
    ASSUME DequeuesInv, DequeuesStep
    PROVE  DequeuesInv'
  <1> USE DEF DequeuesInv, SessionInv, Phases, Stages, Deq!callVars,
              Deq!recordVars, Deq!Pending
  <1>1. ASSUME NEW t \in Threads, Deq!Invoke(t, DeqArg)
        PROVE  DequeuesInv'
    BY <1>1 DEF Deq!Invoke
  <1>2. ASSUME NEW t \in Threads, NEW threads \in SUBSET Deq!Pending,
               Deq!Start(t, threads)
        PROVE  DequeuesInv'
    BY <1>2 DEF Deq!Start
  <1>3. ASSUME NEW t \in Threads, NEW w, NEW answers, Deq!Publish(t, w, answers)
        PROVE  DequeuesInv'
    BY <1>3 DEF Deq!Publish
  <1>4. ASSUME NEW t \in Threads, Deq!GiveUp(t) \/ Deq!Sync(t)
        PROVE  DequeuesInv'
    BY <1>4 DEF Deq!GiveUp, Deq!Sync
  <1>5. ASSUME NEW t \in Threads, Deq!ReturnOwn(t) \/ Deq!ReturnServed(t)
        PROVE  DequeuesInv'
    BY <1>5 DEF Deq!ReturnOwn, Deq!ReturnServed
  <1>6. CASE Deq!Evict
    BY <1>6 DEF Deq!Evict
  <1> QED
    BY <1>1, <1>2, <1>3, <1>4, <1>5, <1>6 DEF DequeuesStep

(* What a step is to each of the two objects. *)
LEMMA SessionSteps ==
    ASSUME Next
    PROVE  \/ EnqueuesStep /\ UNCHANGED deqVars
           \/ DequeuesStep /\ UNCHANGED enqVars
           \/ UNCHANGED <<enqVars, deqVars>>
  <1>1. ASSUME NEW t \in Threads, NEW v \in Values, Enqueue(t, v)
        PROVE  EnqueuesStep /\ UNCHANGED deqVars
    BY <1>1 DEF Enqueue, EnqueuesStep
  <1>2. ASSUME NEW t \in Threads, StartEnqueues(t)
        PROVE  EnqueuesStep /\ UNCHANGED deqVars
    BY <1>2 DEF StartEnqueues, EnqueuesStep
  <1>3. ASSUME NEW t \in Threads, RollBackEnqueues(t) \/ FailEnqueues(t)
                                     \/ SyncEnqueues(t) \/ ReturnEnqueue(t)
                                     \/ EnqueueServed(t)
        PROVE  EnqueuesStep /\ UNCHANGED deqVars
    BY <1>3 DEF RollBackEnqueues, FailEnqueues, SyncEnqueues, ReturnEnqueue,
            EnqueueServed, EnqueuesStep
  <1>4. ASSUME NEW t \in Threads, PublishEnqueues(t)
        PROVE  EnqueuesStep /\ UNCHANGED deqVars
    <2>1. PICK w, answers : Enq!Publish(t, w, answers) /\ UNCHANGED deqVars
      BY <1>4 DEF PublishEnqueues
    <2> QED
      BY <2>1 DEF EnqueuesStep
  <1>5. ASSUME NEW t \in Threads, Dequeue(t)
        PROVE  DequeuesStep /\ UNCHANGED enqVars
    BY <1>5 DEF Dequeue, DequeuesStep
  <1>6. ASSUME NEW t \in Threads, StartDequeues(t)
        PROVE  DequeuesStep /\ UNCHANGED enqVars
    BY <1>6 DEF StartDequeues, DequeuesStep
  <1>7. ASSUME NEW t \in Threads, FailDequeues(t) \/ SyncDequeues(t)
                                     \/ ReturnDequeue(t) \/ DequeueServed(t)
        PROVE  DequeuesStep /\ UNCHANGED enqVars
    BY <1>7 DEF FailDequeues, SyncDequeues, ReturnDequeue, DequeueServed, DequeuesStep
  <1>8. ASSUME NEW t \in Threads, PublishDequeues(t)
        PROVE  DequeuesStep /\ UNCHANGED enqVars
    <2>1. PICK w, answers : Deq!Publish(t, w, answers) /\ UNCHANGED enqVars
      BY <1>8 DEF PublishDequeues
    <2> QED
      BY <2>1 DEF DequeuesStep
  <1>9. ASSUME NEW t \in Threads, LinkOwnCopy(t) \/ AppendBatch(t) \/ PersistEnqueues(t)
                                     \/ LinkPublished(t) \/ LinkFirst(t)
                                     \/ ServeDequeue(t) \/ LinkNext(t) \/ Reread(t)
                                     \/ PersistDequeues(t)
        PROVE  UNCHANGED <<enqVars, deqVars>>
    BY <1>9 DEF LinkOwnCopy, AppendBatch, PersistEnqueues, LinkPublished, LinkFirst,
            ServeDequeue, LinkNext, Reread, PersistDequeues
  <1>10. CASE EvictE
    BY <1>10 DEF EvictE, EnqueuesStep
  <1>11. CASE EvictD
    BY <1>11 DEF EvictD, DequeuesStep
  <1> QED
    BY <1>1, <1>2, <1>3, <1>4, <1>5, <1>6, <1>7, <1>8, <1>9, <1>10, <1>11 DEF Next

LEMMA NextKeepsSessions ==
    ASSUME EnqueuesInv, DequeuesInv, OneCall, Next
    PROVE  EnqueuesInv' /\ DequeuesInv' /\ OneCall'
  <1>1. EnqueuesInv'
    <2>1. CASE UNCHANGED enqVars
      BY <2>1 DEF enqVars, EnqueuesInv, SessionInv
    <2> QED
      BY <2>1, EnqueuesStepKeeps, SessionSteps
  <1>2. DequeuesInv'
    <2>1. CASE UNCHANGED deqVars
      BY <2>1 DEF deqVars, DequeuesInv, SessionInv
    <2> QED
      BY <2>1, DequeuesStepKeeps, SessionSteps
  <1>3. OneCall'
    <2> USE DEF EnqueuesInv, DequeuesInv, OneCall, IsIdle, SessionInv,
            enqVars, deqVars
    <2>1. CASE EnqueuesStep /\ UNCHANGED deqVars
      BY <2>1 DEF EnqueuesStep, Enq!Invoke, Enq!Start, Enq!Publish, Enq!GiveUp,
            Enq!Sync, Enq!ReturnOwn, Enq!ReturnServed, Enq!Evict, Enq!callVars
    <2>2. CASE DequeuesStep /\ UNCHANGED enqVars
      BY <2>2 DEF DequeuesStep, Deq!Invoke, Deq!Start, Deq!Publish, Deq!GiveUp,
            Deq!Sync, Deq!ReturnOwn, Deq!ReturnServed, Deq!Evict, Deq!callVars
    <2>3. CASE UNCHANGED <<enqVars, deqVars>>
      BY <2>3
    <2> QED
      BY <2>1, <2>2, <2>3, SessionSteps
  <1> QED
    BY <1>1, <1>2, <1>3

(* Where a thread is in its attempt, its stages tell. *)
LEMMA NextKeepsPlaces ==
    ASSUME SchemeInv, Next
    PROVE  PlacesInv'
  <1> USE DEF SchemeInv, EnqueuesInv, DequeuesInv, SessionInv, OneCall, PlacesInv,
              Phases, Stages, Appending, Removing, Labels, GoTo, Leave,
              enqVars, deqVars
  <1>1. ASSUME NEW t \in Threads, NEW v \in Values, Enqueue(t, v)
        PROVE  PlacesInv'
    BY <1>1 DEF Enqueue, Enq!Invoke
  <1>2. ASSUME NEW t \in Threads, StartEnqueues(t)
        PROVE  PlacesInv'
    BY <1>2 DEF StartEnqueues, Enq!Start
  <1>3. ASSUME NEW t \in Threads, RollBackEnqueues(t) \/ FailEnqueues(t)
        PROVE  PlacesInv'
    BY <1>3 DEF RollBackEnqueues, FailEnqueues, Enq!GiveUp
  <1>4. ASSUME NEW t \in Threads, SyncEnqueues(t)
        PROVE  PlacesInv'
    BY <1>4 DEF SyncEnqueues, Enq!Sync
  <1>5. ASSUME NEW t \in Threads, ReturnEnqueue(t)
        PROVE  PlacesInv'
    BY <1>5 DEF ReturnEnqueue, Enq!ReturnOwn
  <1>6. ASSUME NEW t \in Threads, EnqueueServed(t)
        PROVE  PlacesInv'
    BY <1>6 DEF EnqueueServed, Enq!ReturnServed
  <1>7. ASSUME NEW t \in Threads, PublishEnqueues(t)
        PROVE  PlacesInv'
    BY <1>7 DEF PublishEnqueues, Enq!Publish
  <1>8. ASSUME NEW t \in Threads, Dequeue(t)
        PROVE  PlacesInv'
    BY <1>8 DEF Dequeue, Deq!Invoke
  <1>9. ASSUME NEW t \in Threads, StartDequeues(t)
        PROVE  PlacesInv'
    BY <1>9 DEF StartDequeues, Deq!Start
  <1>10. ASSUME NEW t \in Threads, FailDequeues(t)
         PROVE  PlacesInv'
    BY <1>10 DEF FailDequeues, Deq!GiveUp
  <1>11. ASSUME NEW t \in Threads, SyncDequeues(t)
         PROVE  PlacesInv'
    BY <1>11 DEF SyncDequeues, Deq!Sync
  <1>12. ASSUME NEW t \in Threads, ReturnDequeue(t)
         PROVE  PlacesInv'
    BY <1>12 DEF ReturnDequeue, Deq!ReturnOwn
  <1>13. ASSUME NEW t \in Threads, DequeueServed(t)
         PROVE  PlacesInv'
    BY <1>13 DEF DequeueServed, Deq!ReturnServed
  <1>14. ASSUME NEW t \in Threads, PublishDequeues(t)
         PROVE  PlacesInv'
    BY <1>14 DEF PublishDequeues, Deq!Publish
  <1>15. ASSUME NEW t \in Threads, LinkOwnCopy(t) \/ AppendBatch(t) \/ PersistEnqueues(t)
                                      \/ LinkPublished(t) \/ LinkFirst(t)
                                      \/ ServeDequeue(t) \/ LinkNext(t) \/ Reread(t)
                                      \/ PersistDequeues(t)
         PROVE  PlacesInv'
    <2>1. UNCHANGED <<enqVars, deqVars>>
      BY <1>15 DEF LinkOwnCopy, AppendBatch, PersistEnqueues, LinkPublished, LinkFirst,
              ServeDequeue, LinkNext, Reread, PersistDequeues
    <2>2. \/ at[t] \in Appending /\ \E l \in Appending : GoTo(t, l)
          \/ at[t] = "relink" /\ GoTo(t, "sync")
          \/ at[t] \in Removing /\ \E l \in Removing : GoTo(t, l)
          \/ UNCHANGED at
      BY <1>15 DEF LinkOwnCopy, AppendBatch, PersistEnqueues, LinkPublished, LinkFirst,
              ServeDequeue, LinkNext, Reread, PersistDequeues
    <2> QED
      BY <2>1, <2>2
  <1>16. CASE EvictE \/ EvictD
    BY <1>16 DEF EvictE, Enq!Evict, EvictD, Deq!Evict
  <1> QED
    BY <1>1, <1>2, <1>3, <1>4, <1>5, <1>6, <1>7, <1>8, <1>9, <1>10, <1>11, <1>12,
       <1>13, <1>14, <1>15, <1>16 DEF Next

LEMMA NextKeepsScheme ==
    ASSUME SchemeInv, [Next]_vars
    PROVE  SchemeInv'
  <1>1. CASE UNCHANGED vars
    BY <1>1 DEF vars, enqVars, deqVars, SchemeInv, EnqueuesInv, DequeuesInv, SessionInv,
            OneCall, PlacesInv
  <1> QED
    BY <1>1, NextKeepsSessions, NextKeepsPlaces DEF SchemeInv

-----------------------------------------------------------------------------
(* The order in which the requests of a batch are served                     *)

Ordered(s, S) ==
    /\ s \in [1 .. Cardinality(S) -> S]
    /\ \A i, j \in 1 .. Cardinality(S) : i < j => s[i] < s[j]

LEMMA FiniteBelow ==
    ASSUME NEW N \in Nat, NEW S \in SUBSET (0 .. N)
    PROVE  /\ IsFiniteSet(S) /\ Cardinality(S) \in Nat
           /\ \A x \in S : x \in Nat
  <1>1. IsFiniteSet(0 .. N)
    BY FS_Interval
  <1>2. IsFiniteSet(S) /\ Cardinality(S) \in Nat
    BY <1>1, FS_Subset, FS_CardinalityType
  <1>3. \A x \in S : x \in 0 .. N
    OBVIOUS
  <1> QED
    BY <1>2, <1>3

(* Every member of S is somewhere in the sequence. *)
LEMMA OrderedAll ==
    ASSUME NEW N \in Nat, NEW S \in SUBSET (0 .. N), NEW s, Ordered(s, S)
    PROVE  \A x \in S : \E i \in 1 .. Cardinality(S) : s[i] = x
  <1>1. PICK n \in Nat : n = Cardinality(S)
    BY FiniteBelow
  <1>2. s \in [1 .. n -> S] /\ \A i, j \in 1 .. n : i < j => s[i] < s[j]
    BY <1>1 DEF Ordered
  <1>3. \A i, j \in 1 .. n : s[i] = s[j] => i = j
    <2>1. \A i \in 1 .. n : s[i] \in Nat
      BY <1>2, FiniteBelow
    <2> QED
      BY <1>2, <2>1
  <1>4. s \in Injection(1 .. n, S)
    BY <1>2, <1>3 DEF Injection, IsInjective
  <1>5. IsFiniteSet(1 .. n) /\ Cardinality(1 .. n) = n
    BY FS_Interval
  <1>6. s \in Surjection(1 .. n, S)
    BY <1>1, <1>4, <1>5, FiniteBelow, FS_Injection
  <1> QED
    BY <1>1, <1>6 DEF Surjection

(* The last member is the largest; the others come before it in order.       *)
LargestLast(s, S, n) ==
    /\ s[n + 1] \in S
    /\ \A x \in S : x <= s[n + 1]
    /\ Cardinality(S \ {s[n + 1]}) = n
    /\ Ordered([i \in 1 .. n |-> s[i]], S \ {s[n + 1]})

LEMMA OrderedLast ==
    ASSUME NEW N \in Nat, NEW S \in SUBSET (0 .. N), NEW s, Ordered(s, S),
           NEW n \in Nat, Cardinality(S) = n + 1
    PROVE  LargestLast(s, S, n)
  <1>1. /\ s \in [1 .. n + 1 -> S] /\ n + 1 \in 1 .. n + 1
        /\ \A i, j \in 1 .. n + 1 : i < j => s[i] < s[j]
    BY DEF Ordered
  <1>2. s[n + 1] \in S /\ s[n + 1] \in Nat
    BY <1>1, FiniteBelow
  <1>3. ASSUME NEW x \in S
        PROVE  x <= s[n + 1]
    <2>1. PICK i \in 1 .. n + 1 : s[i] = x
      BY OrderedAll
    <2>2. i = n + 1 \/ i < n + 1
      OBVIOUS
    <2> QED
      BY <1>1, <1>2, <2>1, <2>2
  <1>4. Cardinality(S \ {s[n + 1]}) = n
    <2>1. IsFiniteSet(S)
      BY FiniteBelow
    <2>2. PICK m : m = s[n + 1]
      OBVIOUS
    <2>3. m \in S
      BY <1>2, <2>2
    <2>4. Cardinality(S \ {m}) = (n + 1) - 1
      BY <2>1, <2>3, FS_RemoveElement
    <2> QED
      BY <2>2, <2>4
  <1>5. ASSUME NEW i \in 1 .. n
        PROVE  s[i] \in S \ {s[n + 1]}
    <2>1. i \in 1 .. n + 1 /\ i < n + 1
      OBVIOUS
    <2>2. s[i] \in S /\ s[i] < s[n + 1] /\ s[i] \in Nat
      BY <1>1, <2>1, FiniteBelow
    <2> QED
      BY <1>2, <2>2
  <1>6. \A i, j \in 1 .. n : i < j => s[i] < s[j]
    BY <1>1
  <1> QED
    BY <1>2, <1>3, <1>4, <1>5, <1>6 DEF Ordered, LargestLast

LEMMA OrderedAppend ==
    ASSUME NEW N \in Nat, NEW S \in SUBSET (0 .. N), NEW s, Ordered(s, S),
           NEW m \in 0 .. N, \A x \in S : x < m
    PROVE  /\ Cardinality(S \union {m}) = Cardinality(S) + 1
           /\ Ordered(Append(s, m), S \union {m})
  <1>1. PICK n \in Nat : n = Cardinality(S)
    BY FiniteBelow
  <1>2. s \in [1 .. n -> S] /\ \A i, j \in 1 .. n : i < j => s[i] < s[j]
    BY <1>1 DEF Ordered
  <1>3. m \notin S
    OBVIOUS
  <1>4. Cardinality(S \union {m}) = n + 1
    BY <1>1, <1>3, FiniteBelow, FS_AddElement
  <1>5. s \in Seq(S) /\ Len(s) = n
    BY <1>2
  <1>6. PICK a : a = Append(s, m)
    OBVIOUS
  <1>7. /\ a \in [1 .. n + 1 -> S \union {m}]
        /\ a[n + 1] = m /\ \A i \in 1 .. n : a[i] = s[i] /\ a[i] \in S
    <2>1. s \in Seq(S \union {m}) /\ m \in S \union {m}
      BY <1>2
    <2>2. Append(s, m) \in Seq(S \union {m}) /\ Len(Append(s, m)) = n + 1
      BY <1>5, <2>1
    <2>3. a \in [1 .. n + 1 -> S \union {m}]
      <3>1. a \in Seq(S \union {m}) /\ Len(a) = n + 1
        BY <1>6, <2>2
      <3>2. a \in [1 .. Len(a) -> S \union {m}]
        BY <3>1, LenProperties
      <3> QED
        BY <3>1, <3>2
    <2>4. a[n + 1] = m /\ \A i \in 1 .. n : a[i] = s[i]
      BY <1>5, <1>6
    <2> QED
      BY <1>2, <2>3, <2>4
  <1>8. ASSUME NEW i \in 1 .. n + 1, NEW j \in 1 .. n + 1, i < j
        PROVE  a[i] < a[j]
    <2>1. i \in 1 .. n
      BY <1>8
    <2>2. CASE j = n + 1
      BY <1>7, <2>1, <2>2
    <2>3. CASE j \in 1 .. n
      BY <1>2, <1>7, <1>8, <2>1, <2>3
    <2> QED
      BY <2>2, <2>3
  <1> QED
    BY <1>1, <1>4, <1>6, <1>7, <1>8 DEF Ordered

LEMMA OrderedUnique ==
    ASSUME NEW N \in Nat
    PROVE  \A S \in SUBSET (0 .. N) : \A s, r : Ordered(s, S) /\ Ordered(r, S) => s = r
  <1> DEFINE Same(n) == \A S \in SUBSET (0 .. N) : \A s, r :
                 Cardinality(S) = n /\ Ordered(s, S) /\ Ordered(r, S) => s = r
             T == {n \in Nat : Same(n)}
  <1>1. 0 \in T
    <2>1. 1 .. 0 = {}
      OBVIOUS
    <2> QED
      BY <2>1 DEF Ordered
  <1>2. ASSUME NEW n \in T
        PROVE  n + 1 \in T
    <2>1. n \in Nat /\ n + 1 \in Nat /\ Same(n)
      OBVIOUS
    <2>2. ASSUME NEW S \in SUBSET (0 .. N), NEW s, NEW r, Cardinality(S) = n + 1,
                 Ordered(s, S), Ordered(r, S)
          PROVE  s = r
      <3>1. LargestLast(s, S, n)
        BY <2>1, <2>2, OrderedLast
      <3>2. LargestLast(r, S, n)
        BY <2>1, <2>2, OrderedLast
      <3>3. s[n + 1] = r[n + 1]
        <4>1. s[n + 1] \in S /\ r[n + 1] \in S
          BY <3>1, <3>2 DEF LargestLast
        <4>2. s[n + 1] \in Nat /\ r[n + 1] \in Nat
          BY <4>1, FiniteBelow
        <4>3. s[n + 1] <= r[n + 1] /\ r[n + 1] <= s[n + 1]
          BY <3>1, <3>2, <4>1 DEF LargestLast
        <4> QED
          BY <4>2, <4>3
      <3>4. [i \in 1 .. n |-> s[i]] = [i \in 1 .. n |-> r[i]]
        BY <2>1, <3>1, <3>2, <3>3 DEF LargestLast
      <3>5. \A i \in 1 .. n : s[i] = r[i]
        BY <3>4
      <3>6. s \in [1 .. n + 1 -> S] /\ r \in [1 .. n + 1 -> S]
        BY <2>2 DEF Ordered
      <3>7. \A i \in 1 .. n + 1 : i \in 1 .. n \/ i = n + 1
        BY <2>1
      <3>8. \A i \in 1 .. n + 1 : s[i] = r[i]
        BY <3>3, <3>5, <3>7
      <3> QED
        BY <3>6, <3>8
    <2>3. Same(n + 1)
      BY <2>2
    <2> QED
      BY <2>1, <2>3
  <1>3. T \in SUBSET Nat
    OBVIOUS
  <1>4. T = Nat
    BY <1>1, <1>2, <1>3, SetInduction
  <1>5. \A n \in Nat : Same(n)
    BY <1>4
  <1> QED
    BY <1>5, FiniteBelow

LEMMA LargestBelow ==
    ASSUME NEW N \in Nat, NEW S \in SUBSET (0 .. N), S # {}
    PROVE  \E m \in S : \A x \in S : x <= m
  <1> DEFINE T == {u \in Nat : \A x \in S : x <= u}
  <1>1. N \in T
    OBVIOUS
  <1>2. PICK m \in T : \A u \in T : m <= u
    BY <1>1, LeastNatural
  <1>3. m \in S
    <2>1. SUFFICES ASSUME m \notin S
                   PROVE  FALSE
      OBVIOUS
    <2>2. \A x \in S : x <= m - 1 /\ x \in Nat
      <3> SUFFICES ASSUME NEW x \in S
                   PROVE  x <= m - 1 /\ x \in Nat
        OBVIOUS
      <3>1. x \in Nat /\ m \in Nat /\ x <= m /\ x # m
        BY <1>2, <2>1, FiniteBelow
      <3> QED
        BY <3>1
    <2>3. m - 1 \in Nat
      <3>1. PICK x \in S : TRUE
        OBVIOUS
      <3>2. x <= m - 1 /\ x \in Nat /\ m \in Nat
        BY <1>2, <2>2
      <3> QED
        BY <3>2
    <2>4. m - 1 \in T
      BY <2>2, <2>3
    <2> QED
      BY <1>2, <2>3, <2>4
  <1> QED
    BY <1>2, <1>3

LEMMA OrderedExists ==
    ASSUME NEW N \in Nat
    PROVE  \A S \in SUBSET (0 .. N) : \E s : Ordered(s, S)
  <1> DEFINE Some(n) == \A S \in SUBSET (0 .. N) :
                 Cardinality(S) = n => \E s : Ordered(s, S)
             T == {n \in Nat : Some(n)}
  <1>1. 0 \in T
    <2>1. ASSUME NEW S \in SUBSET (0 .. N), Cardinality(S) = 0
          PROVE  Ordered(<<>>, S)
      <3>1. 1 .. Cardinality(S) = {}
        BY <2>1
      <3>2. <<>> \in [{} -> S]
        OBVIOUS
      <3> QED
        BY <3>1, <3>2 DEF Ordered
    <2> QED
      BY <2>1
  <1>2. ASSUME NEW n \in T
        PROVE  n + 1 \in T
    <2>1. n \in Nat /\ n + 1 \in Nat /\ Some(n)
      OBVIOUS
    <2>2. ASSUME NEW S \in SUBSET (0 .. N), Cardinality(S) = n + 1
          PROVE  \E s : Ordered(s, S)
      <3>1. S # {}
        BY <2>1, <2>2, FS_EmptySet
      <3>2. PICK m \in S : \A x \in S : x <= m
        BY <3>1, LargestBelow
      <3>3. PICK R : R = S \ {m}
        OBVIOUS
      <3>4. Cardinality(R) = n /\ R \in SUBSET (0 .. N)
        <4>1. IsFiniteSet(S)
          BY FiniteBelow
        <4>2. Cardinality(R) = (n + 1) - 1
          BY <2>2, <3>2, <3>3, <4>1, FS_RemoveElement
        <4> QED
          BY <2>1, <3>3, <4>2
      <3>5. PICK s : Ordered(s, R)
        BY <2>1, <3>4
      <3>6. \A x \in R : x < m
        BY <3>2, <3>3, <3>4
      <3>7. m \in 0 .. N /\ R \union {m} = S
        BY <3>2, <3>3
      <3>8. Ordered(Append(s, m), R \union {m})
        BY <3>4, <3>5, <3>6, <3>7, OrderedAppend
      <3> QED
        BY <3>7, <3>8
    <2>3. Some(n + 1)
      BY <2>2
    <2> QED
      BY <2>1, <2>3
  <1>3. T \in SUBSET Nat
    OBVIOUS
  <1>4. T = Nat
    BY <1>1, <1>2, <1>3, SetInduction
  <1>5. \A n \in Nat : Some(n)
    BY <1>4
  <1> QED
    BY <1>5, FiniteBelow

LEMMA InOrderIs ==
    ASSUME NEW N \in Nat, NEW S \in SUBSET (0 .. N)
    PROVE  /\ Ordered(InOrder(S), S)
           /\ \A s : Ordered(s, S) => InOrder(S) = s
  <1> DEFINE P(s) == \A i, j \in DOMAIN s : i < j => s[i] < s[j]
  <1>1. \A s \in [1 .. Cardinality(S) -> S] : Ordered(s, S) <=> P(s)
    BY DEF Ordered
  <1>2. \A s : Ordered(s, S) => s \in [1 .. Cardinality(S) -> S]
    BY DEF Ordered
  <1>3. \E s \in [1 .. Cardinality(S) -> S] : P(s)
    BY <1>1, <1>2, OrderedExists
  <1>4. /\ InOrder(S) \in [1 .. Cardinality(S) -> S]
        /\ P(InOrder(S))
    BY <1>3 DEF InOrder
  <1>5. Ordered(InOrder(S), S)
    BY <1>1, <1>4
  <1> QED
    BY <1>5, OrderedUnique

-----------------------------------------------------------------------------
(* The nodes                                                                 *)

LEMMA NodesFinite ==
    ASSUME QueueAssumption
    PROVE  /\ IsFiniteSet(Nodes) /\ Cardinality(Nodes) \in Nat
           /\ NThreads - 1 \in Nat /\ Threads = 0 .. NThreads - 1
  <1>1. PoolEntries - 1 \in Int /\ NThreads - 1 \in Int /\ 0 \in Int
    BY DEF QueueAssumption
  <1>2. IsFiniteSet(0 .. PoolEntries - 1) /\ IsFiniteSet(Threads)
    BY <1>1, FS_Interval DEF Threads
  <1>3. IsFiniteSet(PoolNodes)
    BY <1>2, FS_Product DEF PoolNodes
  <1>4. NThreads - 1 \in Nat
    BY DEF QueueAssumption
  <1> QED
    BY <1>3, <1>4, FS_AddElement, FS_CardinalityType DEF Nodes, Threads

LEMMA LinksType ==
    ASSUME NEW rec \in EnqRecs, NEW links \in [Nodes -> Words]
    PROVE  MadeGood(rec, links) \in [Nodes -> Words]
  BY DEF MadeGood, EnqRecs

LEMMA ChainIs ==
    ASSUME QueueAssumption, NEW link \in [Nodes -> Words], NEW w, NEW s,
           IsListFrom(s, link, Null, w)
    PROVE  ListFrom(link, Null, w, Cardinality(Nodes)) = s
  <1>1. DOMAIN link = Nodes
    OBVIOUS
  <1>2. Null \notin DOMAIN link
    BY <1>1 DEF QueueAssumption
  <1>3. PICK m : m = Cardinality(Nodes)
    OBVIOUS
  <1>4. IsFiniteSet(DOMAIN link) /\ Cardinality(DOMAIN link) <= m /\ m \in Nat
    BY <1>1, <1>3, NodesFinite
  <1> QED
    BY <1>2, <1>3, <1>4, ListFound

(* The chain is the sequence of which Held holds.                            *)
LEMMA TheChain ==
    ASSUME QueueInv
    PROVE  \E s : \E k \in 0 .. Len(s) : s = Chain /\ Held(s, k)
  BY DEF QueueInv, ChainInv

LEMMA IsTheChain ==
    ASSUME QueueAssumption, DataInv, NEW s, NEW k, Linked(s, k)
    PROVE  Chain = s
  <1>1. MadeGood(e_word, next) \in [Nodes -> Words]
    BY LinksType DEF DataInv
  <1> QED
    BY <1>1, ChainIs DEF Chain, Linked

(* It is enough to name a chain after a step.                                *)
LEMMA ChainAfter ==
    ASSUME QueueAssumption, DataInv', NEW s, NEW k \in 0 .. Len(s), Held(s, k)'
    PROVE  ChainInv' /\ Chain' = s
  <1>1. PICK link : link = MadeGood(e_word, next)'
    OBVIOUS
  <1>2. link \in [Nodes -> Words]
    BY <1>1, LinksType DEF DataInv
  <1>3. IsListFrom(s, link, Null, Guard)
    BY <1>1 DEF Held, Linked
  <1>4. Chain' = s
    BY <1>1, <1>2, <1>3, ChainIs DEF Chain
  <1> QED
    BY <1>4 DEF ChainInv

(* What Held says of the nodes of the chain and their links.                 *)
LEMMA ChainFacts ==
    ASSUME QueueAssumption, DataInv, NEW s, NEW k \in 0 .. Len(s), Linked(s, k)
    PROVE  /\ Len(s) \in Nat /\ Len(s) >= 1 /\ s[1] = Guard
           /\ \A i \in 1 .. Len(s) : s[i] \in Nodes /\ s[i] # Null
           /\ \A i, j \in 1 .. Len(s) : s[i] = s[j] => i = j
           /\ ToSet(s) = {s[i] : i \in 1 .. Len(s)}
           /\ s \in Seq(Nodes)
           /\ e_word.tail = s[Len(s)]
           /\ k = 0 => e_word.first = Null
           /\ k # 0 => /\ k < Len(s) /\ e_word.first = s[k] /\ e_word.last = s[k + 1]
                       /\ next[s[k]] \in {Null, s[k + 1]}
           /\ \A i \in 1 .. Len(s) :
                 i # k => next[s[i]] = IF i = Len(s) THEN Null ELSE s[i + 1]
  <1> DEFINE succ == MadeGood(e_word, next)
  <1>1. /\ succ \in [Nodes -> Words] /\ next \in [Nodes -> Words]
        /\ Null \notin Nodes
    BY LinksType DEF DataInv, QueueAssumption
  <1>2. \A n \in Nodes : succ[n] = IF n = e_word.first /\ next[n] = Null
                                   THEN e_word.last ELSE next[n]
    BY DEF MadeGood
  <1>3. /\ IsListFrom(s, succ, Null, Guard)
        /\ s[Len(s)] = e_word.tail
        /\ IF k = 0 THEN e_word = InitialRec /\ Len(s) = 1
           ELSE k < Len(s) /\ e_word.first = s[k] /\ e_word.last = s[k + 1]
    BY DEF Linked
  <1> HIDE DEF succ
  <1>4. /\ s \in Seq(Nodes) /\ IsInjective(s)
        /\ Guard = IF s = <<>> THEN Null ELSE s[1]
        /\ \A i \in 1 .. Len(s) : succ[s[i]] = IF i = Len(s) THEN Null ELSE s[i + 1]
    BY <1>1, <1>3 DEF IsListFrom
  <1>5. s # <<>> /\ s[1] = Guard
    BY <1>1, <1>4 DEF Nodes
  <1>6. Len(s) \in Nat /\ Len(s) >= 1
    BY <1>4, <1>5
  <1>7. \A i \in 1 .. Len(s) : s[i] \in Nodes /\ s[i] # Null
    BY <1>1, <1>4
  <1>8. /\ \A i, j \in 1 .. Len(s) : s[i] = s[j] => i = j
        /\ ToSet(s) = {s[i] : i \in 1 .. Len(s)}
    BY <1>4, InjectiveSeq
  <1>9. k = 0 => e_word.first = Null
    BY <1>3 DEF InitialRec
  <1>10. ASSUME k # 0
         PROVE  /\ k \in 1 .. Len(s) /\ k < Len(s) /\ e_word.first = s[k]
                /\ e_word.last = s[k + 1] /\ next[s[k]] \in {Null, s[k + 1]}
    <2>1. k \in 1 .. Len(s) /\ k < Len(s) /\ k # Len(s)
      BY <1>3, <1>6, <1>10
    <2>2. succ[s[k]] = s[k + 1]
      BY <1>4, <2>1
    <2>3. next[s[k]] # Null => succ[s[k]] = next[s[k]]
      BY <1>2, <1>7, <2>1
    <2> QED
      BY <1>3, <1>10, <2>1, <2>2, <2>3
  <1>11. ASSUME NEW i \in 1 .. Len(s), i # k
         PROVE  next[s[i]] = IF i = Len(s) THEN Null ELSE s[i + 1]
    <2>1. s[i] # e_word.first
      BY <1>7, <1>8, <1>9, <1>10, <1>11
    <2> QED
      BY <1>2, <1>4, <1>7, <2>1
  <1> QED
    BY <1>3, <1>4, <1>5, <1>6, <1>7, <1>8, <1>9, <1>10, <1>11

-----------------------------------------------------------------------------
(* Links that are made good                                                  *)

(* What EnqLinkQueue and DeqLinkQueue may do: the chain stays what it is.    *)
Relinked ==
    /\ UNCHANGED <<val, clean_val>>
    /\ next' \in [Nodes -> Words]
    /\ clean_next' \subseteq clean_next
    /\ flushed' \in [Threads -> SUBSET Nodes]
    /\ \A u \in Threads : flushed[u] \subseteq flushed'[u]
    /\ \A n \in Nodes :
          \/ next'[n] = next[n] /\ (n \in clean_next => n \in clean_next')
          \/ n = e_word.first /\ next[n] = Null /\ next'[n] = e_word.last

LEMMA LinkRelinks ==
    ASSUME QueueInv, NEW s, NEW k \in 0 .. Len(s), Held(s, k), NEW t \in Threads,
           NEW rec \in EnqRecs, rec.first # Null, RecGood(s, rec),
           Link(rec), Flush(t, rec.first), UNCHANGED <<val, clean_val>>
    PROVE  /\ Relinked
           /\ rec.first \in Nodes /\ rec.first \in flushed'[t]
           /\ next'[rec.first] # Null
  <1>1. /\ next \in [Nodes -> Words] /\ clean_next \subseteq Nodes
        /\ flushed \in [Threads -> SUBSET Nodes] /\ e_word \in EnqRecs
    BY DEF QueueInv, DataInv
  <1>2. PICK f, l : f = rec.first /\ l = rec.last
    OBVIOUS
  <1>3. f \in Nodes /\ l \in Words /\ Null \notin Nodes
    BY <1>2 DEF EnqRecs, Words, QueueInv, QueueAssumption
  <1>4. /\ flushed' = [flushed EXCEPT ![t] = @ \union {f}]
        /\ IF next[f] = Null
           THEN next' = [next EXCEPT ![f] = l] /\ clean_next' = clean_next \ {f}
           ELSE UNCHANGED <<next, clean_next>>
    BY <1>2 DEF Link, Flush
  <1>5. next[f] = Null => f = e_word.first /\ l = e_word.last /\ l # Null
    <2> SUFFICES ASSUME next[f] = Null
                 PROVE  f = e_word.first /\ l = e_word.last /\ l # Null
      OBVIOUS
    <2>1. rec = e_word
      BY <1>2 DEF RecGood
    <2>2. /\ k = 0 => e_word.first = Null
          /\ k # 0 => e_word.last = s[k + 1] /\ k < Len(s) /\ Len(s) \in Nat
          /\ \A i \in 1 .. Len(s) : s[i] # Null
      BY ChainFacts DEF QueueInv, Held
    <2>3. k # 0
      BY <2>1, <2>2
    <2>4. k + 1 \in 1 .. Len(s)
      BY <2>2, <2>3
    <2> QED
      BY <1>2, <2>1, <2>2, <2>3, <2>4
  <1>6. /\ flushed' \in [Threads -> SUBSET Nodes] /\ f \in flushed'[t]
        /\ \A u \in Threads : flushed[u] \subseteq flushed'[u]
    BY <1>1, <1>3, <1>4
  <1>7. /\ next' \in [Nodes -> Words] /\ clean_next' \subseteq clean_next
        /\ next'[f] # Null
    BY <1>1, <1>3, <1>4, <1>5
  <1>8. ASSUME NEW n \in Nodes
        PROVE  \/ next'[n] = next[n] /\ (n \in clean_next => n \in clean_next')
               \/ n = e_word.first /\ next[n] = Null /\ next'[n] = e_word.last
    BY <1>1, <1>4, <1>5
  <1> QED
    BY <1>2, <1>3, <1>6, <1>7, <1>8 DEF Relinked

LEMMA NothingRelinks ==
    ASSUME QueueInv, UNCHANGED nodeVars
    PROVE  Relinked
  BY DEF Relinked, nodeVars, QueueInv, DataInv

LEMMA EnqLinks ==
    ASSUME QueueInv, NEW s, NEW k \in 0 .. Len(s), Held(s, k), NEW t \in Threads,
           NEW rec \in EnqRecs, RecGood(s, rec), EnqLinkQueue(t, rec)
    PROVE  /\ Relinked
           /\ rec.first # Null => rec.first \in flushed'[t] /\ next'[rec.first] # Null
  BY LinkRelinks, NothingRelinks DEF EnqLinkQueue

LEMMA DeqLinks ==
    ASSUME QueueInv, NEW s, NEW k \in 0 .. Len(s), Held(s, k), NEW t \in Threads,
           NEW head, DeqLinkQueue(t, head)
    PROVE  /\ Relinked
           /\ next[head] # Null \/ e_word.first = Null \/ next'[e_word.first] # Null
  <1>1. CASE UNCHANGED nodeVars /\ (next[head] # Null \/ e_word.first = Null)
    BY <1>1, NothingRelinks
  <1>2. CASE /\ e_word.first # Null /\ Link(e_word) /\ Flush(t, e_word.first)
             /\ UNCHANGED <<val, clean_val>>
    <2>1. RecGood(s, e_word) /\ e_word \in EnqRecs
      BY DEF RecGood, QueueInv, DataInv
    <2>2. PICK rec \in EnqRecs : rec = e_word
      BY <2>1
    <2>3. Relinked /\ next'[rec.first] # Null
      BY <1>2, <2>1, <2>2, LinkRelinks
    <2> QED
      BY <2>2, <2>3
  <1> QED
    BY <1>1, <1>2 DEF DeqLinkQueue

(* A link that is made good is no news to the chain.                         *)
LEMMA RelinkKeepsChain ==
    ASSUME QueueInv, NEW s, NEW k \in 0 .. Len(s), Held(s, k), Relinked,
           UNCHANGED e_word
    PROVE  /\ Linked(s, k)'
           /\ \A n \in Nodes : next[n] # Null => next'[n] = next[n]
           /\ \A n \in Nodes : n \in clean_next /\ next[n] # Null => n \in clean_next'
           /\ \A i \in 1 .. Len(s) : i # k /\ s[i] \in clean_next => s[i] \in clean_next'
           /\ \A n \in Nodes \ ToSet(s) :
                 next'[n] = next[n] /\ (n \in clean_next => n \in clean_next')
  <1>1. /\ next \in [Nodes -> Words] /\ next' \in [Nodes -> Words]
        /\ \A n \in Nodes :
              \/ next'[n] = next[n] /\ (n \in clean_next => n \in clean_next')
              \/ n = e_word.first /\ next[n] = Null /\ next'[n] = e_word.last
    BY DEF QueueInv, DataInv, Relinked
  <1>2. /\ Len(s) \in Nat
        /\ \A i \in 1 .. Len(s) : s[i] \in Nodes /\ s[i] # Null
        /\ \A i, j \in 1 .. Len(s) : s[i] = s[j] => i = j
        /\ ToSet(s) = {s[i] : i \in 1 .. Len(s)}
        /\ k = 0 => e_word.first = Null
        /\ k # 0 => k < Len(s) /\ e_word.first = s[k] /\ e_word.last = s[k + 1]
    BY ChainFacts DEF QueueInv, Held
  <1>3. e_word.first = Null \/ (k \in 1 .. Len(s) /\ e_word.first = s[k] /\ s[k] \in ToSet(s)
                                 /\ e_word.last # Null)
    <2>1. ASSUME k # 0
          PROVE  k \in 1 .. Len(s) /\ k + 1 \in 1 .. Len(s)
      BY <1>2, <2>1
    <2> QED
      BY <1>2, <2>1
  <1>4. Null \notin Nodes
    BY DEF QueueInv, QueueAssumption
  <1>5. MadeGood(e_word, next)' = MadeGood(e_word, next)
    <2>1. ASSUME NEW n \in Nodes
          PROVE  (IF n = e_word.first /\ next'[n] = Null THEN e_word.last ELSE next'[n])
                    = IF n = e_word.first /\ next[n] = Null THEN e_word.last ELSE next[n]
      BY <1>1, <1>3, <1>4
    <2> QED
      BY <2>1 DEF MadeGood
  <1>6. Linked(s, k)'
    BY <1>5 DEF Held, Linked
  <1>7. \A i \in 1 .. Len(s) : i # k /\ s[i] \in clean_next => s[i] \in clean_next'
    BY <1>1, <1>2, <1>3
  <1>8. \A n \in Nodes \ ToSet(s) :
           next'[n] = next[n] /\ (n \in clean_next => n \in clean_next')
    BY <1>1, <1>3, <1>4
  <1> QED
    BY <1>1, <1>6, <1>7, <1>8

-----------------------------------------------------------------------------
(* The chain of a new batch                                                  *)

(* What AppendBatch does, with the chain c for the operations of `order`.    *)
Appended(t, c, order) ==
    /\ at[t] = "append"
    /\ order = <<t>> \o InOrder(loc[t].diffs)
    /\ order \in Seq(Threads) /\ c \in Seq(PoolNodes)
    /\ Len(c) = Len(order) /\ Len(c) >= 1 /\ cur_entry[t] + Len(c) <= PoolEntries
    /\ \A i \in 1 .. Len(c) : c[i] = <<t, cur_entry[t] + i - 1>> /\ c[i] \in Nodes
    /\ cur_entry' = [cur_entry EXCEPT ![t] = @ + Len(c)]
    /\ val' \in [Nodes -> Values \union {Junk}] /\ next' \in [Nodes -> Words]
    /\ \A n \in Nodes \ ToSet(c) : val'[n] = val[n] /\ next'[n] = next[n]
    /\ \A i \in 1 .. Len(c) :
          /\ val'[c[i]] = e_param[order[i]] /\ val'[c[i]] \in Values
          /\ next'[c[i]] = IF i = Len(c) THEN Null ELSE c[i + 1]
    /\ clean_val' = clean_val \ ToSet(c) /\ clean_next' = clean_next \ ToSet(c)
    /\ flushed' = [u \in Threads |-> flushed[u] \ ToSet(c)]
    /\ loc' = [loc EXCEPT ![t].rec = [first |-> @.tail, last |-> c[1], tail |-> c[Len(c)]],
                          ![t].nodes = c]
    /\ at' = [at EXCEPT ![t] = "flush"]
    /\ UNCHANGED <<enqVars, deqVars>>

LEMMA AppendIs ==
    ASSUME QueueInv, NEW t \in Threads, AppendBatch(t)
    PROVE  \E c, order : Appended(t, c, order)
  <1> DEFINE S == loc[t].diffs
             turns == <<t>> \o InOrder(S)
             nodes == [i \in DOMAIN turns |-> <<t, cur_entry[t] + i - 1>>]
             IndexOf(n) == n[2] - cur_entry[t] + 1
             new == ToSet(nodes)
  <1>1. /\ at[t] = "append" /\ cur_entry[t] + Len(turns) <= PoolEntries
        /\ cur_entry' = [cur_entry EXCEPT ![t] = @ + Len(turns)]
        /\ val' = [n \in Nodes |->
                      IF n \in new THEN e_param[turns[IndexOf(n)]] ELSE val[n]]
        /\ next' = [n \in Nodes |->
                      IF n \notin new THEN next[n]
                      ELSE IF n = Last(nodes) THEN Null ELSE nodes[IndexOf(n) + 1]]
        /\ clean_val' = clean_val \ new /\ clean_next' = clean_next \ new
        /\ flushed' = [u \in Threads |-> flushed[u] \ new]
        /\ loc' = [loc EXCEPT ![t].rec = RecordOf(@, nodes), ![t].nodes = nodes]
        /\ at' = [at EXCEPT ![t] = "flush"]
        /\ UNCHANGED <<enqVars, deqVars>>
    BY DEF AppendBatch, GoTo
  <1>2. /\ S \subseteq Threads /\ cur_entry[t] \in 0 .. PoolEntries
        /\ val \in [Nodes -> Values \union {Junk}] /\ next \in [Nodes -> Words]
        /\ \A x \in S : e_param[x] \in Values
        /\ e_param[t] \in Values
    <2>1. /\ cur_entry \in [Threads -> 0 .. PoolEntries]
          /\ loc[t].diffs \in SUBSET Threads
          /\ val \in [Nodes -> Values \union {Junk}] /\ next \in [Nodes -> Words]
      BY DEF QueueInv, DataInv
    <2>2. \A x \in S : e_param[x] \in Values
      BY <1>1 DEF QueueInv, LocalInv, LocalOf
    <2>3. e_param[t] \in Values
      BY <1>1 DEF QueueInv, SchemeInv, EnqueuesInv, SessionInv, PlacesInv, Appending
    <2> QED
      BY <2>1, <2>2, <2>3
  <1>3. PICK m, o : /\ m \in Nat /\ o = InOrder(S) /\ m = Cardinality(S)
                    /\ o \in [1 .. m -> S]
    <2>1. NThreads - 1 \in Nat /\ S \in SUBSET (0 .. NThreads - 1)
      BY <1>2, NodesFinite DEF QueueInv
    <2>2. Ordered(InOrder(S), S) /\ Cardinality(S) \in Nat
      BY <2>1, InOrderIs, FiniteBelow
    <2> QED
      BY <2>2 DEF Ordered
  <1>4. PICK M, order : M = m + 1 /\ order = <<t>> \o o
    OBVIOUS
  <1>5. /\ M \in Nat /\ M >= 1
        /\ order \in Seq(Threads) /\ Len(order) = M /\ DOMAIN order = 1 .. M
        /\ order[1] = t /\ \A i \in 1 .. m : order[i + 1] = o[i]
    <2>1. o \in Seq(Threads) /\ Len(o) = m
      BY <1>2, <1>3
    <2> QED
      BY <1>3, <1>4, <2>1
  <1>6. \A i \in 1 .. M : e_param[order[i]] \in Values
    <2> SUFFICES ASSUME NEW i \in 1 .. M
                 PROVE  e_param[order[i]] \in Values
      OBVIOUS
    <2>1. CASE i = 1
      BY <1>2, <1>5, <2>1
    <2>2. CASE i # 1
      <3>1. i - 1 \in 1 .. m /\ (i - 1) + 1 = i
        BY <1>3, <1>4, <2>2
      <3>2. order[i] = o[i - 1] /\ o[i - 1] \in S
        BY <1>3, <1>5, <3>1
      <3> QED
        BY <1>2, <3>2
    <2> QED
      BY <2>1, <2>2
  <1>7. PICK e \in Nat : e = cur_entry[t]
    BY <1>2
  <1>8. PICK c : c = nodes
    OBVIOUS
  <1>9. turns = order
    BY <1>3, <1>4
  <1>10. c = [i \in 1 .. M |-> <<t, e + i - 1>>] /\ e + M <= PoolEntries
    BY <1>1, <1>5, <1>7, <1>8, <1>9
  <1>11. \A i \in 1 .. M : c[i] = <<t, e + i - 1>> /\ c[i] \in PoolNodes /\ c[i] \in Nodes
    <2> SUFFICES ASSUME NEW i \in 1 .. M
                 PROVE  c[i] = <<t, e + i - 1>> /\ c[i] \in PoolNodes /\ c[i] \in Nodes
      OBVIOUS
    <2>1. e + i - 1 \in 0 .. PoolEntries - 1
      BY <1>5, <1>10 DEF QueueInv, QueueAssumption
    <2> QED
      BY <1>10, <2>1 DEF PoolNodes, Nodes
  <1>12. c \in Seq(PoolNodes) /\ Len(c) = M /\ DOMAIN c = 1 .. M
    <2>1. c \in [1 .. M -> PoolNodes]
      BY <1>10, <1>11
    <2> QED
      BY <1>5, <2>1
  <1>13. new = ToSet(c) /\ ToSet(c) = {c[i] : i \in 1 .. M}
    <2>1. ToSet(c) = {c[i] : i \in 1 .. Len(c)}
      BY <1>12, InjectiveSeq
    <2> QED
      BY <1>8, <1>12, <2>1
  <1>14. \A i \in 1 .. M : c[i] \in new /\ IndexOf(c[i]) = i
    <2> SUFFICES ASSUME NEW i \in 1 .. M
                 PROVE  c[i] \in new /\ IndexOf(c[i]) = i
      OBVIOUS
    <2>1. c[i][2] = e + i - 1
      BY <1>11
    <2>2. (e + i - 1) - e + 1 = i
      OBVIOUS
    <2> QED
      BY <1>7, <1>13, <2>1, <2>2
  <1>15. Last(c) = c[M] /\ Head(c) = c[1]
    BY <1>5, <1>12 DEF Last
  <1>16. \A i \in 1 .. M : c[i] = c[M] <=> i = M
    <2> SUFFICES ASSUME NEW i \in 1 .. M, c[i] = c[M]
                 PROVE  i = M
      OBVIOUS
    <2>1. c[i][2] = e + i - 1 /\ c[M][2] = e + M - 1
      BY <1>5, <1>11
    <2> QED
      BY <1>5, <2>1
  <1> HIDE DEF turns, nodes, new, IndexOf, S
  <1>17. /\ cur_entry' = [cur_entry EXCEPT ![t] = @ + M]
         /\ cur_entry[t] + M <= PoolEntries
    BY <1>1, <1>5, <1>9
  <1>18. ASSUME NEW n \in Nodes
         PROVE  /\ n \notin new => val'[n] = val[n] /\ next'[n] = next[n]
                /\ n \in new => val'[n] = e_param[order[IndexOf(n)]]
                /\ n \in new => next'[n] = IF n = c[M] THEN Null ELSE c[IndexOf(n) + 1]
    BY <1>1, <1>8, <1>9, <1>15
  <1>19. \A i \in 1 .. M : /\ val'[c[i]] = e_param[order[i]]
                           /\ next'[c[i]] = IF i = M THEN Null ELSE c[i + 1]
    BY <1>11, <1>14, <1>16, <1>18
  <1>20. ASSUME NEW n \in Nodes
         PROVE  val'[n] \in Values \union {Junk} /\ next'[n] \in Words
    <2>1. CASE n \notin new
      BY <1>2, <1>18, <2>1
    <2>2. CASE n \in new
      <3>1. PICK i \in 1 .. M : n = c[i]
        BY <1>13, <2>2
      <3>2. i # M => c[i + 1] \in Nodes
        <4>1. i # M => i + 1 \in 1 .. M
          BY <1>5
        <4> QED
          BY <1>11, <4>1
      <3> QED
        BY <1>6, <1>19, <3>1, <3>2 DEF Words
    <2> QED
      BY <2>1, <2>2
  <1>21. val' \in [Nodes -> Values \union {Junk}] /\ next' \in [Nodes -> Words]
    <2>1. /\ val' = [n \in Nodes |-> val'[n]]
          /\ next' = [n \in Nodes |-> next'[n]]
      BY <1>1
    <2> QED
      BY <1>20, <2>1
  <1>22. /\ \A n \in Nodes \ ToSet(c) : val'[n] = val[n] /\ next'[n] = next[n]
         /\ clean_val' = clean_val \ ToSet(c) /\ clean_next' = clean_next \ ToSet(c)
         /\ flushed' = [u \in Threads |-> flushed[u] \ ToSet(c)]
    BY <1>1, <1>13, <1>18
  <1>23. loc' = [loc EXCEPT ![t].rec = [first |-> @.tail, last |-> c[1], tail |-> c[M]],
                            ![t].nodes = c]
    BY <1>1, <1>8, <1>15 DEF RecordOf
  <1>24. order = <<t>> \o InOrder(loc[t].diffs)
    BY <1>9 DEF turns, S
  <1>25. \A i \in 1 .. M : c[i] = <<t, cur_entry[t] + i - 1>> /\ c[i] \in Nodes
    BY <1>7, <1>11
  <1>26. /\ Len(c) = Len(order) /\ Len(c) >= 1 /\ cur_entry[t] + Len(c) <= PoolEntries
         /\ cur_entry' = [cur_entry EXCEPT ![t] = @ + Len(c)]
    BY <1>5, <1>12, <1>17
  <1>27. \A i \in 1 .. Len(c) : c[i] = <<t, cur_entry[t] + i - 1>> /\ c[i] \in Nodes
    BY <1>12, <1>25
  <1>28. \A i \in 1 .. Len(c) :
            /\ val'[c[i]] = e_param[order[i]] /\ val'[c[i]] \in Values
            /\ next'[c[i]] = IF i = Len(c) THEN Null ELSE c[i + 1]
    BY <1>6, <1>12, <1>19
  <1>29. loc' = [loc EXCEPT ![t].rec = [first |-> @.tail, last |-> c[1], tail |-> c[Len(c)]],
                            ![t].nodes = c]
    BY <1>12, <1>23
  <1>30. Appended(t, c, order)
    BY <1>1, <1>5, <1>12, <1>21, <1>22, <1>24, <1>26, <1>27, <1>28, <1>29 DEF Appended
  <1> QED
    BY <1>30

-----------------------------------------------------------------------------
(* The types in every step                                                   *)

Locals == [rec : EnqRecs, nodes : Seq(PoolNodes), diffs : SUBSET Threads, head : Nodes,
           return_val : [Threads -> Values \union {EmptyRet, NoVal}]]

LEMMA NoLocalsType ==
    NoLocals \in Locals /\ InitialRec \in EnqRecs
  BY DEF NoLocals, Locals, InitialRec, EnqRecs, Nodes, Words

LEMMA AnswerType ==
    ASSUME DataInv, NEW t \in Threads, NEW head \in Nodes,
           NEW v \in Values \union {EmptyRet}, Answer(t, v, head)
    PROVE  loc' \in [Threads -> Locals]
  <1>1. loc \in [Threads -> Locals] /\ loc[t] \in Locals
    BY DEF DataInv, Locals
  <1>2. PICK own : own = loc[t]
    OBVIOUS
  <1>3. PICK q, d : q = Served(t) /\ d = own.diffs \ {q}
    OBVIOUS
  <1>4. loc' = [loc EXCEPT ![t] =
                   [own EXCEPT !.return_val[q] = v, !.head = head, !.diffs = d]]
    BY <1>1, <1>2, <1>3 DEF Answer
  <1>5. /\ [own.return_val EXCEPT ![q] = v]
              \in [Threads -> Values \union {EmptyRet, NoVal}]
        /\ d \in SUBSET Threads
    BY <1>1, <1>2, <1>3 DEF Locals
  <1>6. [own EXCEPT !.return_val[q] = v, !.head = head, !.diffs = d] \in Locals
    BY <1>1, <1>2, <1>5 DEF Locals
  <1> QED
    BY <1>1, <1>4, <1>6

(* A node behind one of the chain is of the chain, and has a value.          *)
LEMMA BehindIs ==
    ASSUME QueueInv, NEW s, NEW k \in 0 .. Len(s), Held(s, k),
           NEW i \in 1 .. Len(s), next[s[i]] # Null
    PROVE  /\ i + 1 \in 1 .. Len(s) /\ next[s[i]] = s[i + 1]
           /\ s[i + 1] \in Nodes /\ val[s[i + 1]] \in Values
  <1>1. /\ Len(s) \in Nat
        /\ \A j \in 1 .. Len(s) : s[j] \in Nodes
        /\ k # 0 => k < Len(s) /\ next[s[k]] \in {Null, s[k + 1]}
        /\ \A j \in 1 .. Len(s) :
              j # k => next[s[j]] = IF j = Len(s) THEN Null ELSE s[j + 1]
    BY ChainFacts DEF QueueInv, Held
  <1>2. i < Len(s) /\ next[s[i]] = s[i + 1]
    BY <1>1
  <1>3. i + 1 \in 2 .. Len(s) /\ i + 1 \in 1 .. Len(s)
    BY <1>1, <1>2
  <1> QED
    BY <1>1, <1>2, <1>3 DEF Held, Issued

LEMMA HeadBehind ==
    ASSUME QueueInv, NEW t \in Threads, at[t] \in Removing,
           next[loc[t].head] # Null
    PROVE  next[loc[t].head] \in Nodes /\ val[next[loc[t].head]] \in Values
  <1>1. PICK s : \E k \in 0 .. Len(s) : Held(s, k)
    BY TheChain
  <1>2. PICK k \in 0 .. Len(s) : Held(s, k)
    BY <1>1
  <1>3. loc[t].head \in ToSet(s)
    BY <1>2 DEF Held, Attempts, AttemptOf
  <1>4. ToSet(s) = {s[i] : i \in 1 .. Len(s)}
    BY <1>2, ChainFacts DEF QueueInv, Held
  <1>5. PICK i \in 1 .. Len(s) : loc[t].head = s[i]
    BY <1>3, <1>4
  <1> QED
    BY <1>2, <1>5, BehindIs

LEMMA NextKeepsData ==
    ASSUME QueueInv, Next
    PROVE  DataInv'
  <1>0. QueueInv /\ DataInv /\ loc \in [Threads -> Locals]
    BY DEF QueueInv, DataInv, Locals
  <1> USE DEF enqVars, deqVars, nodeVars
  <1>1. ASSUME NEW t \in Threads, NEW v \in Values, Enqueue(t, v)
        PROVE  DataInv'
    BY <1>0, <1>1 DEF Enqueue, Enq!Invoke, Enq!recordVars, DataInv
  <1>2. ASSUME NEW t \in Threads, StartEnqueues(t)
        PROVE  DataInv'
    <2>1. PICK threads \in SUBSET Threads : Enq!Start(t, threads)
      BY <1>2 DEF StartEnqueues, Enq!Pending
    <2>2. PICK new, d : d = threads \ {t} /\
                        new = [NoLocals EXCEPT !.rec = e_word, !.diffs = d]
      OBVIOUS
    <2>3. e_batch'[t] = threads
      BY <1>0, <2>1 DEF Enq!Start, QueueInv, SchemeInv, EnqueuesInv
    <2>4. new \in Locals
      BY <1>0, <2>2, NoLocalsType DEF Locals, DataInv
    <2>5. loc' = [loc EXCEPT ![t] = new]
      BY <1>2, <2>2, <2>3 DEF StartEnqueues
    <2>6. loc' \in [Threads -> Locals]
      BY <1>0, <2>4, <2>5
    <2>7. UNCHANGED <<e_word, e_durable, deqVars, nodeVars, cur_entry>>
      BY <1>2, <2>1 DEF StartEnqueues, Enq!Start, Enq!recordVars
    <2> QED
      BY <1>0, <2>6, <2>7 DEF DataInv, Locals
  <1>3. ASSUME NEW t \in Threads, NEW c, NEW order, Appended(t, c, order)
        PROVE  DataInv'
    <2>1. PICK rec : rec = [first |-> loc[t].rec.tail, last |-> c[1], tail |-> c[Len(c)]]
      OBVIOUS
    <2>2. PICK own : own = loc[t]
      OBVIOUS
    <2>3. own \in Locals /\ c \in Seq(PoolNodes) /\ Len(c) \in Nat /\ Len(c) >= 1
      BY <1>0, <1>3, <2>2 DEF Appended
    <2>4. rec \in EnqRecs
      <3>1. 1 \in 1 .. Len(c) /\ Len(c) \in 1 .. Len(c)
        BY <2>3
      <3>2. c[1] \in Nodes /\ c[Len(c)] \in Nodes
        BY <1>3, <3>1 DEF Appended
      <3> QED
        BY <2>1, <2>2, <2>3, <3>2 DEF EnqRecs, Locals, Words
    <2>5. loc' = [loc EXCEPT ![t] = [own EXCEPT !.rec = rec, !.nodes = c]]
      BY <1>0, <1>3, <2>1, <2>2 DEF Appended
    <2>6. [own EXCEPT !.rec = rec, !.nodes = c] \in Locals
      BY <2>3, <2>4 DEF Locals
    <2>7. loc' \in [Threads -> Locals]
      BY <1>0, <2>5, <2>6
    <2>8. cur_entry' \in [Threads -> 0 .. PoolEntries]
      <3>1. cur_entry \in [Threads -> 0 .. PoolEntries] /\ PoolEntries \in Nat
        BY <1>0 DEF DataInv, QueueInv, QueueAssumption
      <3>2. cur_entry[t] + Len(c) \in 0 .. PoolEntries
        BY <1>3, <2>3, <3>1 DEF Appended
      <3> QED
        BY <1>3, <3>1, <3>2 DEF Appended
    <2>9. /\ val' \in [Nodes -> Values \union {Junk}] /\ next' \in [Nodes -> Words]
          /\ clean_val' \subseteq Nodes /\ clean_next' \subseteq Nodes
          /\ flushed' \in [Threads -> SUBSET Nodes]
          /\ UNCHANGED <<enqVars, deqVars>>
      BY <1>0, <1>3 DEF Appended, DataInv
    <2> QED
      BY <1>0, <2>7, <2>8, <2>9 DEF DataInv, Locals
  <1>4. ASSUME NEW t \in Threads, LinkOwnCopy(t) \/ LinkPublished(t) \/ LinkFirst(t)
                                     \/ LinkNext(t)
        PROVE  DataInv'
    <2>1. PICK s : \E k \in 0 .. Len(s) : Held(s, k)
      BY <1>0, TheChain
    <2>2. PICK k \in 0 .. Len(s) : Held(s, k)
      BY <2>1
    <2>3. Relinked
      <3>1. CASE LinkOwnCopy(t) \/ LinkPublished(t)
        <4>1. loc[t].rec \in EnqRecs /\ EnqLinkQueue(t, loc[t].rec)
          BY <1>0, <3>1 DEF LinkOwnCopy, LinkPublished, Locals
        <4>2. RecGood(s, loc[t].rec)
          BY <2>2, <3>1 DEF LinkOwnCopy, LinkPublished, Held, Attempts, AttemptOf
        <4> QED
          BY <1>0, <2>2, <4>1, <4>2, EnqLinks
      <3>2. CASE LinkFirst(t) \/ LinkNext(t)
        BY <1>0, <2>2, <3>2, DeqLinks DEF LinkFirst, LinkNext
      <3> QED
        BY <1>4, <3>1, <3>2
    <2>4. UNCHANGED <<enqVars, deqVars, cur_entry, loc>>
      BY <1>4 DEF LinkOwnCopy, LinkPublished, LinkFirst, LinkNext
    <2> QED
      BY <1>0, <2>3, <2>4 DEF DataInv, Relinked
  <1>5. ASSUME NEW t \in Threads, PersistEnqueues(t)
        PROVE  DataInv'
    <2>1. FlushedNodes(t) \subseteq Nodes
      <3>1. loc[t].nodes \in Seq(PoolNodes)
        BY <1>0 DEF Locals
      <3> QED
        BY <3>1, InjectiveSeq DEF FlushedNodes, Nodes
    <2> QED
      BY <1>0, <1>5, <2>1 DEF PersistEnqueues, DataInv
  <1>6. ASSUME NEW t \in Threads, RollBackEnqueues(t)
        PROVE  DataInv'
    <2>1. loc' \in [Threads -> Locals]
      BY <1>0, <1>6, NoLocalsType DEF RollBackEnqueues, Leave
    <2>2. cur_entry' \in [Threads -> 0 .. PoolEntries]
      <3>1. cur_entry \in [Threads -> 0 .. PoolEntries] /\ PoolEntries \in Nat
        BY <1>0 DEF DataInv, QueueInv, QueueAssumption
      <3>2. Len(loc[t].nodes) \in 1 .. cur_entry[t]
        BY <1>0, <1>6 DEF RollBackEnqueues, QueueInv, LocalInv, LocalOf, HasChain, ChainOf
      <3>3. cur_entry[t] - Len(loc[t].nodes) \in 0 .. PoolEntries
        BY <3>1, <3>2
      <3> QED
        BY <1>6, <3>1, <3>3 DEF RollBackEnqueues
    <2>3. UNCHANGED <<e_word, e_durable, deqVars, nodeVars>>
      BY <1>6 DEF RollBackEnqueues, Enq!GiveUp, Enq!recordVars
    <2> QED
      BY <1>0, <2>1, <2>2, <2>3 DEF DataInv, Locals
  <1>7. ASSUME NEW t \in Threads, PublishEnqueues(t)
        PROVE  DataInv'
    <2>1. e_word' = loc[t].rec /\ UNCHANGED <<e_durable, deqVars, nodeVars, cur_entry, loc>>
      BY <1>7 DEF PublishEnqueues, Enq!Publish
    <2>2. loc[t].rec \in EnqRecs
      BY <1>0 DEF Locals
    <2> QED
      BY <1>0, <2>1, <2>2 DEF DataInv
  <1>8. ASSUME NEW t \in Threads, FailEnqueues(t) \/ ReturnEnqueue(t)
        PROVE  DataInv'
    <2>1. loc' \in [Threads -> Locals]
      BY <1>0, <1>8, NoLocalsType DEF FailEnqueues, ReturnEnqueue, Leave
    <2>2. UNCHANGED <<e_word, e_durable, deqVars, nodeVars, cur_entry>>
      BY <1>8 DEF FailEnqueues, Enq!GiveUp, ReturnEnqueue, Enq!ReturnOwn, Enq!recordVars
    <2> QED
      BY <1>0, <2>1, <2>2 DEF DataInv, Locals
  <1>9. ASSUME NEW t \in Threads, SyncEnqueues(t)
        PROVE  DataInv'
    BY <1>0, <1>9 DEF SyncEnqueues, Enq!Sync, Enq!Synced, Enq!recordVars, Drain, DataInv
  <1>10. ASSUME NEW t \in Threads, EnqueueServed(t)
         PROVE  DataInv'
    BY <1>0, <1>10 DEF EnqueueServed, Enq!ReturnServed, Enq!recordVars, DataInv
  <1>11. CASE EvictE
    BY <1>0, <1>11 DEF EvictE, Enq!Evict, Enq!Synced, Enq!recordVars, DataInv
  <1>12. ASSUME NEW t \in Threads, Dequeue(t)
         PROVE  DataInv'
    BY <1>0, <1>12 DEF Dequeue, Deq!Invoke, Deq!recordVars, DataInv
  <1>13. ASSUME NEW t \in Threads, StartDequeues(t)
         PROVE  DataInv'
    <2>1. PICK threads \in SUBSET Threads : Deq!Start(t, threads)
      BY <1>13 DEF StartDequeues, Deq!Pending
    <2>2. PICK new : new = [NoLocals EXCEPT !.head = d_word, !.return_val = d_result,
                                            !.diffs = threads]
      OBVIOUS
    <2>3. d_batch'[t] = threads
      BY <1>0, <2>1 DEF Deq!Start, QueueInv, SchemeInv, DequeuesInv
    <2>4. new \in Locals
      BY <1>0, <2>2, NoLocalsType DEF Locals, DataInv
    <2>5. loc' = [loc EXCEPT ![t] = new]
      BY <1>13, <2>2, <2>3 DEF StartDequeues
    <2>6. loc' \in [Threads -> Locals]
      BY <1>0, <2>4, <2>5
    <2>7. UNCHANGED <<d_word, d_durable, d_result, enqVars, nodeVars, cur_entry>>
      BY <1>13, <2>1 DEF StartDequeues, Deq!Start, Deq!recordVars
    <2> QED
      BY <1>0, <2>6, <2>7 DEF DataInv, Locals
  <1>14. ASSUME NEW t \in Threads, NEW head \in Nodes, NEW v \in Values \union {EmptyRet},
                Answer(t, v, head), UNCHANGED <<enqVars, deqVars, nodeVars, cur_entry>>
         PROVE  DataInv'
    <2>1. loc' \in [Threads -> Locals]
      BY <1>0, <1>14, AnswerType
    <2> QED
      BY <1>0, <1>14, <2>1 DEF DataInv, Locals
  <1>15. ASSUME NEW t \in Threads, at[t] \in Removing, NEW node, node # Null,
                node = next[loc[t].head], TakeNode(t, node),
                UNCHANGED <<enqVars, deqVars, nodeVars, cur_entry>>
         PROVE  DataInv'
    <2>1. node \in Nodes /\ val[node] \in Values
      BY <1>0, <1>15, HeadBehind
    <2> QED
      BY <1>14, <1>15, <2>1 DEF TakeNode
  <1>16. ASSUME NEW t \in Threads, ServeDequeue(t) \/ Reread(t)
         PROVE  DataInv'
    <2>1. at[t] \in Removing /\ UNCHANGED <<enqVars, deqVars, nodeVars, cur_entry>>
      BY <1>16 DEF ServeDequeue, Reread, Removing
    <2>2. \/ next[loc[t].head] # Null /\ TakeNode(t, next[loc[t].head])
          \/ Answer(t, EmptyRet, loc[t].head)
      BY <1>16 DEF ServeDequeue, Reread
    <2>3. loc[t].head \in Nodes
      BY <1>0 DEF Locals
    <2> QED
      BY <1>14, <1>15, <2>1, <2>2, <2>3
  <1>17. ASSUME NEW t \in Threads, PersistDequeues(t)
         PROVE  DataInv'
    BY <1>0, <1>17 DEF PersistDequeues, Drain, DataInv
  <1>18. ASSUME NEW t \in Threads, FailDequeues(t) \/ ReturnDequeue(t)
         PROVE  DataInv'
    <2>1. loc' \in [Threads -> Locals]
      BY <1>0, <1>18, NoLocalsType DEF FailDequeues, ReturnDequeue, Leave
    <2>2. UNCHANGED <<d_word, d_durable, d_result, enqVars, nodeVars, cur_entry>>
      BY <1>18 DEF FailDequeues, Deq!GiveUp, ReturnDequeue, Deq!ReturnOwn, Deq!recordVars
    <2> QED
      BY <1>0, <2>1, <2>2 DEF DataInv, Locals
  <1>19. ASSUME NEW t \in Threads, PublishDequeues(t)
         PROVE  DataInv'
    <2>1. /\ d_word' = loc[t].head
          /\ d_result' = [u \in Threads |-> IF u \in d_batch[t] THEN loc[t].return_val[u]
                                            ELSE d_result[u]]
          /\ UNCHANGED <<d_durable, enqVars, nodeVars, cur_entry, loc>>
      BY <1>19 DEF PublishDequeues, Deq!Publish
    <2>2. /\ loc[t].head \in Nodes
          /\ loc[t].return_val \in [Threads -> Values \union {EmptyRet, NoVal}]
      BY <1>0 DEF Locals
    <2>3. d_result' \in [Threads -> Values \union {EmptyRet, NoVal}]
      BY <1>0, <2>1, <2>2 DEF DataInv
    <2> QED
      BY <1>0, <2>1, <2>2, <2>3 DEF DataInv
  <1>20. ASSUME NEW t \in Threads, SyncDequeues(t)
         PROVE  DataInv'
    BY <1>0, <1>20 DEF SyncDequeues, Deq!Sync, Deq!Synced, Deq!recordVars, Drain, DataInv
  <1>21. ASSUME NEW t \in Threads, DequeueServed(t)
         PROVE  DataInv'
    BY <1>0, <1>21 DEF DequeueServed, Deq!ReturnServed, Deq!recordVars, DataInv
  <1>22. CASE EvictD
    BY <1>0, <1>22 DEF EvictD, Deq!Evict, Deq!Synced, Deq!recordVars, DataInv
  <1>23. ASSUME NEW t \in Threads, AppendBatch(t)
         PROVE  DataInv'
    BY <1>0, <1>3, <1>23, AppendIs
  <1> QED
    BY <1>1, <1>2, <1>4, <1>5, <1>6, <1>7, <1>8, <1>9, <1>10, <1>11, <1>12, <1>13,
       <1>16, <1>17, <1>18, <1>19, <1>20, <1>21, <1>22, <1>23 DEF Next

-----------------------------------------------------------------------------
(* What a step leaves alone                                                  *)

(* Only the threads of `movers` move in their attempts. *)
OthersStay(movers) ==
    /\ \A u \in Threads \ movers :
          /\ at'[u] = at[u] /\ loc'[u] = loc[u] /\ cur_entry'[u] = cur_entry[u]
          /\ e_stage'[u] = "trying" => e_stage[u] = "trying" /\ e_batch'[u] = e_batch[u]
    /\ \A u \in Threads : e_param[u] \in Values => e_param'[u] \in Values
    /\ \A u \in movers : Spent(u)' >= Spent(u)

(* Of the nodes, `new` are written by their owners, and the last link of the *)
(* chain may be made good.                                                   *)
NodesKept(s, k, movers, new) ==
    /\ movers \subseteq Threads
    /\ new \intersect ToSet(s) = {}
    /\ \A n \in new : n \in PoolNodes /\ n[1] \in movers
    /\ \A n \in Nodes \ new :
          /\ val'[n] = val[n] /\ (n \in clean_val => n \in clean_val')
          /\ next[n] # Null => next'[n] = next[n] /\ (n \in clean_next => n \in clean_next')
          /\ n \notin ToSet(s) => next'[n] = next[n] /\ (n \in clean_next => n \in clean_next')
    /\ \A i \in 1 .. Len(s) : i # k /\ s[i] \in clean_next => s[i] \in clean_next'
    /\ \A u \in Threads \ movers : flushed[u] \ new \subseteq flushed'[u]

WordsKept(s) ==
    /\ e_word' = e_word
    /\ e_durable' \in {e_durable, e_word}
    /\ d_word' \in ToSet(s) /\ d_durable' \in {d_durable, d_word}

Kept(s, k, movers, new) ==
    /\ OthersStay(movers) /\ NodesKept(s, k, movers, new) /\ WordsKept(s)
    /\ Linked(s, k)'

(* A chain that is not published yet is apart from the chain of the queue.   *)
LEMMA ChainApart ==
    ASSUME QueueInv, NEW s, NEW k \in 0 .. Len(s), Held(s, k),
           NEW t \in Threads, HasChain(t)
    PROVE  /\ Len(loc[t].nodes) \in Nat /\ Len(loc[t].nodes) >= 1
           /\ \A i \in 1 .. Len(loc[t].nodes) :
                 /\ loc[t].nodes[i] \in PoolNodes /\ loc[t].nodes[i] \in Nodes
                 /\ loc[t].nodes[i][1] = t /\ loc[t].nodes[i] \notin ToSet(s)
  <1>1. PICK c : c = loc[t].nodes
    OBVIOUS
  <1>2. /\ c \in Seq(PoolNodes) /\ cur_entry[t] \in 0 .. PoolEntries /\ PoolEntries \in Nat
        /\ Guard \notin PoolNodes
    BY <1>1 DEF QueueInv, DataInv, QueueAssumption
  <1>3. /\ Len(c) \in 1 .. cur_entry[t]
        /\ \A i \in 1 .. Len(c) : c[i] = <<t, cur_entry[t] - Len(c) + i - 1>>
    BY <1>1 DEF QueueInv, LocalInv, LocalOf, ChainOf
  <1>4. Len(c) \in Nat /\ \A i \in 1 .. Len(c) : c[i] \in PoolNodes
    BY <1>2
  <1>5. ASSUME NEW i \in 1 .. Len(c), c[i] \in ToSet(s)
        PROVE  FALSE
    <2>1. /\ ToSet(s) = {s[j] : j \in 1 .. Len(s)} /\ s[1] = Guard /\ Len(s) \in Nat
      BY ChainFacts DEF QueueInv, Held
    <2>2. PICK j \in 1 .. Len(s) : c[i] = s[j]
      BY <1>5, <2>1
    <2>3. j \in 2 .. Len(s)
      BY <1>2, <1>4, <2>1, <2>2
    <2>4. s[j][2] < Spent(s[j][1])
      BY <2>3 DEF Held, Issued
    <2>5. s[j][1] = t /\ s[j][2] = cur_entry[t] - Len(c) + i - 1
      BY <1>3, <2>2
    <2>6. Spent(t) = cur_entry[t] - Len(c)
      BY <1>1 DEF Spent
    <2> QED
      BY <1>2, <1>3, <1>4, <2>4, <2>5, <2>6
  <1>6. \A i \in 1 .. Len(c) : c[i][1] = t
    BY <1>3
  <1> QED
    BY <1>1, <1>3, <1>4, <1>5, <1>6 DEF Nodes

LEMMA OthersLocal ==
    ASSUME QueueInv, NEW s, NEW k \in 0 .. Len(s), Held(s, k),
           NEW movers, NEW new, OthersStay(movers), NodesKept(s, k, movers, new),
           NEW u \in Threads \ movers
    PROVE  LocalOf(u)'
  <1>1. /\ at'[u] = at[u] /\ loc'[u] = loc[u] /\ cur_entry'[u] = cur_entry[u]
        /\ e_stage'[u] = "trying" => e_stage[u] = "trying" /\ e_batch'[u] = e_batch[u]
        /\ \A x \in Threads : e_param[x] \in Values => e_param'[x] \in Values
    BY DEF OthersStay
  <1>2. LocalOf(u) /\ loc[u].diffs \in SUBSET Threads
    BY DEF QueueInv, LocalInv, DataInv
  <1>3. HasChain(u)' = HasChain(u)
    BY <1>1 DEF HasChain
  <1>4. ASSUME HasChain(u)
        PROVE  ChainOf(u)'
    <2>1. PICK c : c = loc[u].nodes
      OBVIOUS
    <2>2. \A i \in 1 .. Len(c) : c[i] \in Nodes /\ c[i] \notin ToSet(s) /\ c[i] \notin new
      <3>1. \A i \in 1 .. Len(c) : c[i] \in Nodes /\ c[i] \notin ToSet(s) /\ c[i][1] = u
        BY <1>4, <2>1, ChainApart
      <3>2. \A n \in new : n[1] \in movers
        BY DEF NodesKept
      <3> QED
        BY <3>1, <3>2
    <2>3. \A i \in 1 .. Len(c) :
             /\ val'[c[i]] = val[c[i]] /\ next'[c[i]] = next[c[i]]
             /\ c[i] \in clean_val => c[i] \in clean_val'
             /\ c[i] \in clean_next => c[i] \in clean_next'
      BY <2>2 DEF NodesKept
    <2>4. ChainOf(u)
      BY <1>2, <1>4 DEF LocalOf
    <2>5. /\ Len(c) \in 1 .. cur_entry'[u]
          /\ loc'[u].nodes = c /\ loc'[u].rec.last = c[1] /\ loc'[u].rec.tail = c[Len(c)]
      BY <1>1, <2>1, <2>4 DEF ChainOf
    <2>6. ASSUME NEW i \in 1 .. Len(c)
          PROVE  /\ c[i] = <<u, cur_entry'[u] - Len(c) + i - 1>>
                 /\ next'[c[i]] = IF i = Len(c) THEN Null ELSE c[i + 1]
                 /\ val'[c[i]] \in Values
                 /\ at'[u] = "cas" => c[i] \in clean_val' /\ c[i] \in clean_next'
      <3>1. /\ c[i] = <<u, cur_entry[u] - Len(c) + i - 1>>
            /\ next[c[i]] = IF i = Len(c) THEN Null ELSE c[i + 1]
            /\ val[c[i]] \in Values
            /\ at[u] = "cas" => c[i] \in clean_val /\ c[i] \in clean_next
        BY <2>1, <2>4 DEF ChainOf
      <3> QED
        BY <1>1, <2>3, <3>1
    <2> QED
      BY <2>5, <2>6 DEF ChainOf
  <1> QED
    BY <1>1, <1>2, <1>3, <1>4 DEF LocalOf

LEMMA OthersAttempt ==
    ASSUME QueueInv, NEW s, NEW k \in 0 .. Len(s), Held(s, k),
           NEW movers, NEW new, Kept(s, k, movers, new), NEW u \in Threads \ movers
    PROVE  AttemptOf(s, k, u)'
  <1>1. /\ at'[u] = at[u] /\ loc'[u] = loc[u]
        /\ e_stage'[u] = "trying" => e_stage[u] = "trying"
        /\ e_word' = e_word
    BY DEF Kept, OthersStay, WordsKept
  <1>2. AttemptOf(s, k, u)
    BY DEF Held, Attempts
  <1>3. \A n \in ToSet(s) : n \in Nodes /\ n \notin new
    BY ChainFacts DEF QueueInv, Held, Kept, NodesKept
  <1>4. \A n \in ToSet(s) : next[n] # Null =>
           next'[n] = next[n] /\ (n \in clean_next => n \in clean_next')
    BY <1>3 DEF Kept, NodesKept
  <1>5. \A n \in ToSet(s) : n \in flushed[u] => n \in flushed'[u]
    BY <1>3 DEF Kept, NodesKept
  <1>6. RecGood(s, loc[u].rec) => RecGood(s, loc[u].rec)'
    BY <1>1, <1>4 DEF RecGood
  <1>7. ASSUME Trying(s, k, u)
        PROVE  Trying(s, k, u)'
    <2>1. k # 0 => s[k] \in ToSet(s)
      <3>1. k # 0 => k \in 1 .. Len(s)
        BY ChainFacts DEF QueueInv, Held
      <3> QED
        BY <3>1, ChainFacts DEF QueueInv, Held
    <2> QED
      BY <1>1, <1>4, <1>5, <1>7, <2>1 DEF Trying, HasChain
  <1> QED
    BY <1>1, <1>2, <1>6, <1>7 DEF AttemptOf

LEMMA SpentTypes ==
    ASSUME DataInv, DataInv', NEW t \in Threads
    PROVE  Spent(t) \in Int /\ Spent(t)' \in Int
  <1>1. /\ cur_entry[t] \in Int /\ Len(loc[t].nodes) \in Int
        /\ cur_entry'[t] \in Int /\ Len(loc'[t].nodes) \in Int
    BY DEF DataInv
  <1>2. Spent(t) \in Int
    BY <1>1 DEF Spent
  <1>3. Spent(t)' \in Int
    BY <1>1 DEF Spent
  <1> QED
    BY <1>2, <1>3

LEMMA IssuedKept ==
    ASSUME QueueInv, NEW s, NEW k \in 0 .. Len(s), Held(s, k),
           NEW movers, NEW new, OthersStay(movers), NodesKept(s, k, movers, new), DataInv'
    PROVE  Issued(s)'
  <1>1. ASSUME NEW i \in 2 .. Len(s)
        PROVE  /\ s[i] \in PoolNodes /\ s[i][2] < Spent(s[i][1])'
               /\ val'[s[i]] \in Values
    <2>1. s[i] \in PoolNodes /\ s[i][2] < Spent(s[i][1]) /\ val[s[i]] \in Values
      BY DEF Held, Issued
    <2>2. s[i] \in ToSet(s)
      BY ChainFacts DEF QueueInv, Held
    <2>3. val'[s[i]] = val[s[i]]
      BY <2>1, <2>2 DEF NodesKept, Nodes
    <2>4. PICK u : u = s[i][1]
      OBVIOUS
    <2>5. u \in Threads /\ s[i][2] \in Nat
      BY <2>1, <2>4 DEF PoolNodes
    <2>6. u \notin movers => Spent(u)' = Spent(u)
      BY <2>5 DEF OthersStay, Spent, HasChain
    <2>7. u \in movers => Spent(u)' >= Spent(u)
      BY DEF OthersStay
    <2>8. Spent(u) \in Int /\ Spent(u)' \in Int
      BY <2>5, SpentTypes DEF QueueInv
    <2> QED
      BY <2>1, <2>3, <2>4, <2>5, <2>6, <2>7, <2>8
  <1> QED
    BY <1>1 DEF Issued

LEMMA DurableKept ==
    ASSUME QueueInv, NEW s, NEW k \in 0 .. Len(s), Held(s, k),
           NEW movers, NEW new, Kept(s, k, movers, new)
    PROVE  Durable(s, k)'
  <1>1. Durable(s, k)
    BY DEF Held
  <1>2. \A i \in 1 .. Len(s) : s[i] \in Nodes /\ s[i] \notin new
    BY ChainFacts DEF QueueInv, Held, Kept, NodesKept
  <1>3. \A i \in 2 .. Len(s) : s[i] \in clean_val'
    BY <1>1, <1>2 DEF Durable, Kept, NodesKept
  <1>4. \A i \in 1 .. Len(s) - 1 : i # k => s[i] \in clean_next'
    <2>1. Len(s) \in Nat
      BY ChainFacts DEF QueueInv, Held
    <2> QED
      BY <1>1, <2>1 DEF Durable, Kept, NodesKept
  <1> QED
    BY <1>1, <1>3, <1>4 DEF Durable, Kept, WordsKept

(* What such a step comes to: the chain is what it was. *)
Preserved(s) ==
    /\ LocalInv' /\ ChainInv' /\ Chain' = s
    /\ e_word' = e_word /\ d_word' \in ToSet(s)
    /\ \A n \in ToSet(s) : val'[n] = val[n] /\ (next[n] # Null => next'[n] = next[n])

LEMMA KeptHolds ==
    ASSUME QueueInv, NEW s, NEW k \in 0 .. Len(s), Held(s, k), DataInv',
           NEW movers, NEW new, Kept(s, k, movers, new),
           \A t \in movers : LocalOf(t)' /\ AttemptOf(s, k, t)'
    PROVE  Preserved(s)
  <1>1. ASSUME NEW u \in Threads
        PROVE  LocalOf(u)'
    <2>1. OthersStay(movers) /\ NodesKept(s, k, movers, new)
      BY DEF Kept
    <2> QED
      BY <2>1, OthersLocal
  <1>2. Attempts(s, k)'
    BY OthersAttempt DEF Kept, NodesKept, Attempts
  <1>3. Issued(s)' /\ Durable(s, k)' /\ Linked(s, k)'
    BY IssuedKept, DurableKept DEF Kept
  <1>4. Held(s, k)'
    BY <1>2, <1>3 DEF Held
  <1>5. QueueAssumption
    BY DEF QueueInv
  <1>6. ChainInv' /\ Chain' = s
    BY <1>4, <1>5, ChainAfter
  <1>7. \A n \in ToSet(s) : n \in Nodes /\ n \notin new
    BY ChainFacts DEF QueueInv, Held, Kept, NodesKept
  <1>8. /\ e_word' = e_word /\ d_word' \in ToSet(s)
        /\ \A n \in ToSet(s) :
              val'[n] = val[n] /\ (next[n] # Null => next'[n] = next[n])
    BY <1>7 DEF Kept, NodesKept, WordsKept
  <1> QED
    BY <1>1, <1>4, <1>5, <1>6, <1>7, <1>8 DEF LocalInv, Preserved

LEMMA QuietKept ==
    ASSUME QueueInv, NEW s, NEW k \in 0 .. Len(s), Held(s, k),
           NEW movers \in SUBSET Threads, OthersStay(movers), WordsKept(s),
           UNCHANGED <<val, next>>, clean_val \subseteq clean_val',
           clean_next \subseteq clean_next',
           \A u \in Threads \ movers : flushed[u] \subseteq flushed'[u]
    PROVE  Kept(s, k, movers, {})
  <1>1. Linked(s, k)'
    <2>1. e_word' = e_word /\ next' = next /\ Linked(s, k)
      BY DEF WordsKept, Held
    <2>2. MadeGood(e_word, next)' = MadeGood(e_word, next)
      BY <2>1 DEF MadeGood
    <2> QED
      BY <2>1, <2>2 DEF Linked
  <1>2. NodesKept(s, k, movers, {})
    BY DEF NodesKept
  <1> QED
    BY <1>1, <1>2 DEF Kept

LEMMA RelinkedKept ==
    ASSUME QueueInv, NEW s, NEW k \in 0 .. Len(s), Held(s, k), Relinked,
           NEW t \in Threads, UNCHANGED <<enqVars, deqVars, cur_entry, loc>>,
           \A u \in Threads \ {t} : at'[u] = at[u], Spent(t)' >= Spent(t)
    PROVE  Kept(s, k, {t}, {})
  <1>1. UNCHANGED <<e_word, e_durable, d_word, d_durable, e_stage, e_batch, e_param>>
    BY DEF enqVars, deqVars
  <1>2. Linked(s, k)'
    BY <1>1, RelinkKeepsChain
  <1>3. NodesKept(s, k, {t}, {})
    <2>1. \A n \in Nodes :
             /\ next[n] # Null => next'[n] = next[n] /\ (n \in clean_next => n \in clean_next')
             /\ n \notin ToSet(s) => next'[n] = next[n] /\ (n \in clean_next => n \in clean_next')
      BY <1>1, RelinkKeepsChain
    <2>2. \A i \in 1 .. Len(s) : i # k /\ s[i] \in clean_next => s[i] \in clean_next'
      BY <1>1, RelinkKeepsChain
    <2> QED
      BY <2>1, <2>2 DEF NodesKept, Relinked
  <1>4. OthersStay({t})
    BY <1>1 DEF OthersStay
  <1>5. WordsKept(s)
    BY <1>1 DEF WordsKept, Held, Durable
  <1> QED
    BY <1>2, <1>3, <1>4, <1>5 DEF Kept

(* Where an attempt has nothing, or only a head, to say of the chain.        *)
LEMMA OwnDone ==
    ASSUME SchemeInv', NEW t \in Threads,
           at'[t] \notin Appending \union Removing \union {"relink"}
    PROVE  LocalOf(t)' /\ \A s, k : AttemptOf(s, k, t)'
  <1>1. e_stage'[t] # "trying"
    BY DEF SchemeInv, PlacesInv, Appending
  <1> QED
    BY <1>1 DEF LocalOf, AttemptOf, HasChain, Appending, Removing

LEMMA OwnRemoving ==
    ASSUME SchemeInv', NEW t \in Threads, at'[t] \in Removing,
           NEW s, NEW k, loc'[t].head \in ToSet(s)
    PROVE  LocalOf(t)' /\ AttemptOf(s, k, t)'
  <1>1. e_stage'[t] # "trying"
    BY DEF SchemeInv, PlacesInv, Appending, Removing
  <1> QED
    BY <1>1 DEF LocalOf, AttemptOf, HasChain, Removing

-----------------------------------------------------------------------------
(* The steps, one by one                                                     *)

(* Steps in which no attempt moves.                                          *)
Quiet ==
    \/ \E t \in Threads : \/ \E v \in Values : Enqueue(t, v)
                          \/ Dequeue(t) \/ EnqueueServed(t) \/ DequeueServed(t)
    \/ EvictE \/ EvictD

LEMMA QuietSteps ==
    ASSUME QueueInv, DataInv', NEW s, NEW k \in 0 .. Len(s), Held(s, k),
           Quiet
    PROVE  Preserved(s)
  <1>1. /\ UNCHANGED <<nodeVars, at, loc, cur_entry, e_word, d_word>>
        /\ e_durable' \in {e_durable, e_word} /\ d_durable' \in {d_durable, d_word}
        /\ \A u \in Threads :
              e_stage'[u] = "trying" => e_stage[u] = "trying" /\ e_batch'[u] = e_batch[u]
        /\ \A u \in Threads : e_param[u] \in Values => e_param'[u] \in Values
    <2>1. ASSUME NEW t \in Threads, NEW v \in Values, Enqueue(t, v)
          PROVE  /\ UNCHANGED <<nodeVars, at, loc, cur_entry, e_word, d_word, e_durable,
                                d_durable, e_stage, e_batch>>
                 /\ e_param' = [e_param EXCEPT ![t] = v]
      BY <2>1 DEF Enqueue, Enq!Invoke, Enq!recordVars, deqVars
    <2>2. ASSUME NEW t \in Threads, Dequeue(t)
          PROVE  UNCHANGED <<nodeVars, at, loc, cur_entry, e_word, d_word, e_durable,
                             d_durable, e_stage, e_batch, e_param>>
      BY <2>2 DEF Dequeue, Deq!Invoke, Deq!recordVars, enqVars
    <2>3. ASSUME NEW t \in Threads, EnqueueServed(t)
          PROVE  UNCHANGED <<nodeVars, at, loc, cur_entry, e_word, d_word, e_durable,
                             d_durable, e_stage, e_batch, e_param>>
      BY <2>3 DEF EnqueueServed, Enq!ReturnServed, Enq!recordVars, deqVars
    <2>4. ASSUME NEW t \in Threads, DequeueServed(t)
          PROVE  UNCHANGED <<nodeVars, at, loc, cur_entry, e_word, d_word, e_durable,
                             d_durable, e_stage, e_batch, e_param>>
      BY <2>4 DEF DequeueServed, Deq!ReturnServed, Deq!recordVars, enqVars
    <2>5. CASE EvictE
      BY <2>5 DEF EvictE, Enq!Evict, Enq!Synced, Enq!recordVars, Enq!callVars, deqVars
    <2>6. CASE EvictD
      BY <2>6 DEF EvictD, Deq!Evict, Deq!Synced, Deq!recordVars, enqVars
    <2>7. e_param \in [Threads -> Values \union {NoArg}]
      BY DEF QueueInv, SchemeInv, EnqueuesInv
    <2>8. ASSUME NEW t \in Threads, NEW v \in Values, e_param' = [e_param EXCEPT ![t] = v]
          PROVE  \A u \in Threads : e_param[u] \in Values => e_param'[u] \in Values
      BY <2>7, <2>8
    <2> QED
      BY <2>1, <2>2, <2>3, <2>4, <2>5, <2>6, <2>8 DEF Quiet
  <1>2. OthersStay({})
    BY <1>1 DEF OthersStay
  <1>3. WordsKept(s)
    BY <1>1 DEF WordsKept, Held, Durable
  <1>4. Kept(s, k, {}, {})
    BY <1>1, <1>2, <1>3, QuietKept DEF nodeVars
  <1> QED
    BY <1>4, KeptHolds

(* An attempt that ends, or that publishes answers. *)
LEMMA EndingSteps ==
    ASSUME QueueInv, DataInv', SchemeInv', NEW s, NEW k \in 0 .. Len(s), Held(s, k),
           NEW t \in Threads,
           \/ RollBackEnqueues(t) \/ FailEnqueues(t) \/ ReturnEnqueue(t)
           \/ FailDequeues(t) \/ ReturnDequeue(t) \/ PublishDequeues(t)
    PROVE  Preserved(s)
  <1>1. /\ at \in [Threads -> Labels] /\ e_stage \in [Threads -> Stages]
        /\ loc \in [Threads -> Locals] /\ cur_entry \in [Threads -> 0 .. PoolEntries]
        /\ PoolEntries \in Nat
    BY DEF QueueInv, SchemeInv, PlacesInv, EnqueuesInv, DataInv, Locals, QueueAssumption
  <1>2. /\ UNCHANGED <<nodeVars, e_word, e_durable, d_durable, e_batch, e_param>>
        /\ \A u \in Threads \ {t} : at'[u] = at[u] /\ loc'[u] = loc[u] /\ e_stage'[u] = e_stage[u]
        /\ \A u \in Threads \ {t} : cur_entry'[u] = cur_entry[u]
        /\ at'[t] \in {"out", "deqsync"}
        /\ d_word' \in {d_word, loc[t].head} /\ (d_word' # d_word => at[t] = "deqcas")
        /\ cur_entry'[t] = IF RollBackEnqueues(t) THEN cur_entry[t] - Len(loc[t].nodes)
                                                  ELSE cur_entry[t]
    <2>1. CASE RollBackEnqueues(t)
      BY <1>1, <2>1 DEF RollBackEnqueues, Enq!GiveUp, Leave, GoTo, deqVars, Enq!recordVars, Enq!callVars
    <2>2. CASE ~RollBackEnqueues(t) /\ (FailEnqueues(t) \/ ReturnEnqueue(t))
      BY <1>1, <2>2 DEF FailEnqueues, ReturnEnqueue, Enq!GiveUp, Enq!ReturnOwn, Leave, GoTo,
                        deqVars, Enq!recordVars, Enq!callVars
    <2>3. CASE ~RollBackEnqueues(t) /\ (FailDequeues(t) \/ ReturnDequeue(t))
      BY <1>1, <2>3 DEF FailDequeues, ReturnDequeue, Deq!GiveUp, Deq!ReturnOwn, Leave, GoTo,
                        enqVars, Deq!recordVars, Deq!callVars
    <2>4. CASE ~RollBackEnqueues(t) /\ PublishDequeues(t)
      BY <1>1, <2>4 DEF PublishDequeues, Deq!Publish, GoTo, enqVars
    <2> QED
      BY <2>1, <2>2, <2>3, <2>4
  <1>3. Spent(t)' >= Spent(t)
    <2>1. /\ cur_entry[t] \in Nat /\ Len(loc[t].nodes) \in Nat
      BY <1>1 DEF Locals
    <2>2. RollBackEnqueues(t) => HasChain(t)
      BY DEF RollBackEnqueues, HasChain
    <2>3. ~HasChain(t)'
      BY <1>2 DEF HasChain
    <2> QED
      BY <1>2, <2>1, <2>2, <2>3 DEF Spent
  <1>4. OthersStay({t})
    BY <1>2, <1>3 DEF OthersStay
  <1>5. WordsKept(s)
    <2>1. d_word \in ToSet(s) /\ (at[t] = "deqcas" => loc[t].head \in ToSet(s))
      BY DEF Held, Durable, Attempts, AttemptOf, Removing
    <2> QED
      BY <1>2, <2>1 DEF WordsKept
  <1>6. Kept(s, k, {t}, {})
    BY <1>2, <1>4, <1>5, QuietKept DEF nodeVars
  <1>7. LocalOf(t)' /\ AttemptOf(s, k, t)'
    BY <1>2, OwnDone DEF Appending, Removing
  <1> QED
    BY <1>6, <1>7, KeptHolds

(* A drain of the enqueue's or the dequeue's flushes after its record.       *)
LEMMA SyncSteps ==
    ASSUME QueueInv, DataInv', SchemeInv', NEW s, NEW k \in 0 .. Len(s), Held(s, k),
           NEW t \in Threads, SyncEnqueues(t) \/ SyncDequeues(t) \/ PersistDequeues(t)
    PROVE  Preserved(s)
  <1>1. /\ at \in [Threads -> Labels] /\ e_stage \in [Threads -> Stages]
        /\ flushed \in [Threads -> SUBSET Nodes]
        /\ loc \in [Threads -> Locals] /\ cur_entry \in [Threads -> 0 .. PoolEntries]
    BY DEF QueueInv, SchemeInv, PlacesInv, EnqueuesInv, DataInv, Locals
  <1>2. /\ UNCHANGED <<val, next, clean_val, loc, cur_entry, e_word, d_word, e_batch, e_param>>
        /\ clean_next \subseteq clean_next'
        /\ \A u \in Threads \ {t} : /\ at'[u] = at[u] /\ e_stage'[u] = e_stage[u]
                                    /\ flushed'[u] = flushed[u]
        /\ at'[t] \in {"return", "deqcas"} /\ (at'[t] = "deqcas" => at[t] = "serve")
        /\ at[t] \notin {"flush", "cas"}
        /\ e_durable' \in {e_durable, e_word} /\ d_durable' \in {d_durable, d_word}
    <2>1. CASE SyncEnqueues(t)
      BY <1>1, <2>1 DEF SyncEnqueues, Drain, Enq!Sync, Enq!Synced, GoTo, deqVars,
                        Enq!recordVars, Enq!callVars
    <2>2. CASE SyncDequeues(t)
      BY <1>1, <2>2 DEF SyncDequeues, Drain, Deq!Sync, Deq!Synced, GoTo, enqVars,
                        Deq!recordVars, Deq!callVars
    <2>3. CASE PersistDequeues(t)
      BY <1>1, <2>3 DEF PersistDequeues, Drain, GoTo, enqVars, deqVars
    <2> QED
      BY <2>1, <2>2, <2>3
  <1>3. Spent(t)' >= Spent(t)
    <2>1. /\ cur_entry[t] \in Nat
      BY <1>1
    <2> QED
      BY <1>2, <2>1 DEF Spent, HasChain
  <1>4. OthersStay({t})
    BY <1>2, <1>3 DEF OthersStay
  <1>5. WordsKept(s)
    BY <1>2 DEF WordsKept, Held, Durable
  <1>6. Kept(s, k, {t}, {})
    BY <1>2, <1>4, <1>5, QuietKept
  <1>7. LocalOf(t)' /\ AttemptOf(s, k, t)'
    <2>1. CASE at'[t] = "return"
      BY <2>1, OwnDone DEF Appending, Removing
    <2>2. CASE at'[t] = "deqcas"
      <3>1. loc'[t].head \in ToSet(s)
        BY <1>2, <2>2 DEF Held, Attempts, AttemptOf, Removing
      <3> QED
        BY <2>2, <3>1, OwnRemoving DEF Removing
    <2> QED
      BY <1>2, <2>1, <2>2
  <1> QED
    BY <1>6, <1>7, KeptHolds

(* A batch of dequeues starts at the head of the queue, and goes on along it.*)
LEMMA RemovingSteps ==
    ASSUME QueueInv, DataInv', SchemeInv', NEW s, NEW k \in 0 .. Len(s), Held(s, k),
           NEW t \in Threads, StartDequeues(t) \/ ServeDequeue(t) \/ Reread(t)
    PROVE  Preserved(s)
  <1>1. /\ at \in [Threads -> Labels] /\ e_stage \in [Threads -> Stages]
        /\ loc \in [Threads -> Locals] /\ cur_entry \in [Threads -> 0 .. PoolEntries]
    BY DEF QueueInv, SchemeInv, PlacesInv, EnqueuesInv, DataInv, Locals
  <1>2. /\ UNCHANGED <<nodeVars, cur_entry, enqVars, d_word, d_durable>>
        /\ \A u \in Threads \ {t} : at'[u] = at[u] /\ loc'[u] = loc[u]
        /\ at'[t] \in {"deqlink", "serve"} /\ at[t] \notin {"flush", "cas"}
        /\ \/ loc'[t].head = d_word
           \/ /\ at[t] \in {"serve", "reread"}
              /\ \/ loc'[t].head = loc[t].head
                 \/ next[loc[t].head] # Null /\ loc'[t].head = next[loc[t].head]
    <2>1. CASE StartDequeues(t)
      <3>1. PICK threads : Deq!Start(t, threads)
        BY <2>1 DEF StartDequeues
      <3>2. UNCHANGED <<d_word, d_durable>>
        BY <3>1 DEF Deq!Start, Deq!recordVars
      <3>3. at[t] \notin {"flush", "cas"}
        <4>1. d_phase[t] # "idle"
          BY <3>1 DEF Deq!Start
        <4>2. e_stage[t] = "out"
          BY <1>1, <4>1 DEF QueueInv, SchemeInv, OneCall, EnqueuesInv, SessionInv
        <4> QED
          BY <4>2 DEF QueueInv, SchemeInv, PlacesInv, Appending
      <3>4. loc'[t].head = d_word
        <4>1. PICK d : d = d_batch'[t]
          OBVIOUS
        <4>2. loc' = [loc EXCEPT ![t] = [NoLocals EXCEPT !.head = d_word,
                                            !.return_val = d_result, !.diffs = d]]
          BY <2>1, <4>1 DEF StartDequeues
        <4> QED
          BY <1>1, <4>2, NoLocalsType DEF Locals
      <3> QED
        BY <1>1, <2>1, <3>2, <3>3, <3>4 DEF StartDequeues, GoTo
    <2>2. ASSUME NEW v, NEW head, Answer(t, v, head)
          PROVE  loc'[t].head = head /\ \A u \in Threads \ {t} : loc'[u] = loc[u]
      <3>1. PICK q : q = Served(t)
        OBVIOUS
      <3>2. loc' = [loc EXCEPT ![t].return_val[q] = v, ![t].head = head, ![t].diffs = @ \ {q}]
        BY <2>2, <3>1 DEF Answer
      <3>3. loc[t] \in Locals
        BY <1>1
      <3> QED
        BY <1>1, <3>2, <3>3 DEF Locals
    <2>3. CASE ServeDequeue(t)
      <3>1. TakeNode(t, next[loc[t].head]) /\ next[loc[t].head] # Null
        BY <2>3 DEF ServeDequeue
      <3>2. /\ loc'[t].head = next[loc[t].head]
            /\ \A u \in Threads \ {t} : loc'[u] = loc[u]
        BY <2>2, <3>1 DEF TakeNode
      <3> QED
        BY <1>1, <2>3, <3>1, <3>2 DEF ServeDequeue, GoTo, deqVars
    <2>4. CASE Reread(t)
      <3>1. \/ TakeNode(t, next[loc[t].head]) /\ next[loc[t].head] # Null
            \/ Answer(t, EmptyRet, loc[t].head)
        BY <2>4 DEF Reread
      <3>2. /\ \/ next[loc[t].head] # Null /\ loc'[t].head = next[loc[t].head]
               \/ loc'[t].head = loc[t].head
            /\ \A u \in Threads \ {t} : loc'[u] = loc[u]
        BY <2>2, <3>1 DEF TakeNode
      <3> QED
        BY <1>1, <2>4, <3>2 DEF Reread, GoTo, deqVars
    <2> QED
      BY <2>1, <2>3, <2>4
  <1>3. Spent(t)' >= Spent(t)
    <2>1. /\ cur_entry[t] \in Nat
      BY <1>1
    <2> QED
      BY <1>2, <2>1 DEF Spent, HasChain
  <1>4. OthersStay({t})
    BY <1>2, <1>3 DEF OthersStay, enqVars
  <1>5. WordsKept(s)
    BY <1>2 DEF WordsKept, Held, Durable, enqVars
  <1>6. Kept(s, k, {t}, {})
    BY <1>2, <1>4, <1>5, QuietKept DEF nodeVars
  <1>7. loc'[t].head \in ToSet(s)
    <2>1. d_word \in ToSet(s) /\ ToSet(s) = {s[i] : i \in 1 .. Len(s)}
      BY ChainFacts DEF QueueInv, Held, Durable
    <2>2. ASSUME at[t] \in {"serve", "reread"}
          PROVE  /\ loc[t].head \in ToSet(s)
                 /\ next[loc[t].head] # Null => next[loc[t].head] \in ToSet(s)
      <3>1. loc[t].head \in ToSet(s)
        BY <2>2 DEF Held, Attempts, AttemptOf, Removing
      <3>2. PICK i \in 1 .. Len(s) : loc[t].head = s[i]
        BY <2>1, <3>1
      <3>3. next[s[i]] # Null => i + 1 \in 1 .. Len(s) /\ next[s[i]] = s[i + 1]
        BY BehindIs, SMTT(30)
      <3>4. next[s[i]] # Null => next[s[i]] \in ToSet(s)
        BY <2>1, <3>3
      <3> QED
        BY <3>1, <3>2, <3>4
    <2> QED
      BY <1>2, <2>1, <2>2
  <1>8. LocalOf(t)' /\ AttemptOf(s, k, t)'
    BY <1>2, <1>7, OwnRemoving DEF Removing
  <1> QED
    BY <1>6, <1>8, KeptHolds

(* A link is made good. *)
LEMMA LinkingSteps ==
    ASSUME QueueInv, DataInv', SchemeInv', NEW s, NEW k \in 0 .. Len(s), Held(s, k),
           NEW t \in Threads,
           LinkOwnCopy(t) \/ LinkPublished(t) \/ LinkFirst(t) \/ LinkNext(t)
    PROVE  Preserved(s)
  <1>1. /\ at \in [Threads -> Labels] /\ e_stage \in [Threads -> Stages]
        /\ loc \in [Threads -> Locals] /\ cur_entry \in [Threads -> 0 .. PoolEntries]
    BY DEF QueueInv, SchemeInv, PlacesInv, EnqueuesInv, DataInv, Locals
  <1>2. /\ UNCHANGED <<enqVars, deqVars, cur_entry, loc>>
        /\ \A u \in Threads \ {t} : at'[u] = at[u]
        /\ \/ LinkOwnCopy(t) /\ at[t] = "link" /\ at'[t] = "append"
           \/ LinkPublished(t) /\ at'[t] = "sync" /\ at[t] = "relink"
           \/ at[t] \in {"deqlink", "serve"} /\ at'[t] \in {"serve", "reread"}
    BY <1>1 DEF LinkOwnCopy, LinkPublished, LinkFirst, LinkNext, GoTo
  <1>3. ASSUME LinkOwnCopy(t) \/ LinkPublished(t)
        PROVE  /\ Relinked
               /\ loc[t].rec.first # Null => /\ loc[t].rec.first \in flushed'[t]
                                             /\ next'[loc[t].rec.first] # Null
    <2>1. loc[t].rec \in EnqRecs /\ EnqLinkQueue(t, loc[t].rec)
      BY <1>1, <1>3 DEF LinkOwnCopy, LinkPublished, Locals
    <2>2. RecGood(s, loc[t].rec)
      BY <1>3 DEF LinkOwnCopy, LinkPublished, Held, Attempts, AttemptOf
    <2> QED
      BY <2>1, <2>2, EnqLinks
  <1>4. Relinked
    <2>1. CASE LinkFirst(t) \/ LinkNext(t)
      BY <2>1, DeqLinks DEF LinkFirst, LinkNext
    <2> QED
      BY <1>3, <2>1
  <1>5. Spent(t)' >= Spent(t)
    <2>1. cur_entry[t] \in Nat
      BY <1>1
    <2> QED
      BY <1>2, <2>1 DEF Spent, HasChain
  <1>6. Kept(s, k, {t}, {})
    BY <1>2, <1>4, <1>5, RelinkedKept
  <1>7. LocalOf(t)' /\ AttemptOf(s, k, t)'
    <2>1. CASE at'[t] = "sync"
      BY <2>1, OwnDone DEF Appending, Removing
    <2>2. CASE at[t] \in {"deqlink", "serve"} /\ at'[t] \in {"serve", "reread"}
      <3>1. loc'[t].head \in ToSet(s)
        BY <1>2, <2>2 DEF Held, Attempts, AttemptOf, Removing
      <3> QED
        BY <2>2, <3>1, OwnRemoving DEF Removing
    <2>3. CASE LinkOwnCopy(t) /\ at[t] = "link" /\ at'[t] = "append"
      <3>1. /\ UNCHANGED <<e_stage, e_batch, e_param, e_word>>
            /\ loc'[t] = loc[t]
        BY <1>2 DEF enqVars
      <3>2. LocalOf(t)'
        <4>1. LocalOf(t)
          BY DEF QueueInv, LocalInv
        <4> QED
          BY <2>3, <3>1, <4>1 DEF LocalOf, HasChain
      <3>3. AttemptOf(s, k, t)
        BY DEF Held, Attempts
      <3>4. RecGood(s, loc[t].rec)'
        <4>1. loc[t].rec.first # Null => next'[loc[t].rec.first] # Null
          BY <1>3, <2>3
        <4> QED
          BY <2>3, <3>1, <3>3, <4>1 DEF RecGood, AttemptOf
      <3>5. ASSUME e_stage'[t] = "trying"
            PROVE  Trying(s, k, t)'
        <4>1. loc[t].rec = e_word
          BY <2>3, <3>1, <3>3, <3>5 DEF AttemptOf, Trying, HasChain
        <4>2. k # 0 => e_word.first = s[k] /\ s[k] # Null
          <5>1. k # 0 => k \in 1 .. Len(s)
            BY ChainFacts DEF QueueInv, Held
          <5> QED
            BY <5>1, ChainFacts DEF QueueInv, Held
        <4> QED
          BY <1>3, <2>3, <3>1, <4>1, <4>2 DEF Trying, HasChain
      <3> QED
        BY <2>3, <3>2, <3>4, <3>5 DEF AttemptOf, Removing
    <2> QED
      BY <1>2, <2>1, <2>2, <2>3
  <1> QED
    BY <1>6, <1>7, KeptHolds

LEMMA StartSteps ==
    ASSUME QueueInv, DataInv', SchemeInv', NEW s, NEW k \in 0 .. Len(s), Held(s, k),
           NEW t \in Threads, StartEnqueues(t)
    PROVE  Preserved(s)
  <1>1. /\ at \in [Threads -> Labels] /\ e_stage \in [Threads -> Stages]
        /\ e_batch \in [Threads -> SUBSET Threads]
        /\ loc \in [Threads -> Locals] /\ cur_entry \in [Threads -> 0 .. PoolEntries]
    BY DEF QueueInv, SchemeInv, PlacesInv, EnqueuesInv, DataInv, Locals
  <1>2. PICK threads \in SUBSET Enq!Pending : Enq!Start(t, threads)
    BY DEF StartEnqueues
  <1>3. /\ e_batch' = [e_batch EXCEPT ![t] = threads]
        /\ e_stage' = [e_stage EXCEPT ![t] = "trying"] /\ e_stage[t] = "out"
        /\ threads \subseteq Threads /\ \A x \in threads : e_phase[x] = "pending"
        /\ UNCHANGED <<deqVars, nodeVars, cur_entry, e_phase, e_param, e_word, e_durable>>
        /\ at' = [at EXCEPT ![t] = "link"]
    BY <1>2 DEF StartEnqueues, Enq!Start, Enq!Pending, Enq!callVars, Enq!recordVars, GoTo
  <1>4. loc' = [loc EXCEPT ![t] = [NoLocals EXCEPT !.rec = e_word, !.diffs = threads \ {t}]]
    <2>1. PICK d : d = e_batch'[t] \ {t}
      OBVIOUS
    <2>2. d = threads \ {t}
      BY <1>1, <1>3, <2>1
    <2> QED
      BY <2>1, <2>2 DEF StartEnqueues
  <1>5. loc'[t].rec = e_word /\ loc'[t].diffs = threads \ {t}
    BY <1>1, <1>4, NoLocalsType DEF Locals
  <1>6. \A u \in Threads \ {t} : /\ at'[u] = at[u] /\ loc'[u] = loc[u]
                                 /\ e_stage'[u] = e_stage[u] /\ e_batch'[u] = e_batch[u]
    BY <1>1, <1>3, <1>4
  <1>7. at'[t] = "link" /\ e_batch'[t] = threads /\ at[t] \notin {"flush", "cas"}
    BY <1>1, <1>3 DEF QueueInv, SchemeInv, PlacesInv, Appending
  <1>8. Spent(t)' >= Spent(t)
    <2>1. cur_entry[t] \in Nat
      BY <1>1
    <2> QED
      BY <1>3, <1>7, <2>1 DEF Spent, HasChain
  <1>9. OthersStay({t})
    BY <1>3, <1>6, <1>8 DEF OthersStay
  <1>10. WordsKept(s)
    BY <1>3 DEF WordsKept, Held, Durable, deqVars
  <1>11. Kept(s, k, {t}, {})
    BY <1>3, <1>9, <1>10, QuietKept DEF nodeVars
  <1>12. LocalOf(t)'
    <2>1. \A x \in threads : e_param[x] \in Values
      BY <1>3 DEF QueueInv, SchemeInv, EnqueuesInv
    <2> QED
      BY <1>3, <1>5, <1>7, <2>1 DEF LocalOf, HasChain
  <1>13. AttemptOf(s, k, t)'
    BY <1>3, <1>5, <1>7 DEF AttemptOf, Trying, HasChain, RecGood, Removing
  <1> QED
    BY <1>11, <1>12, <1>13, KeptHolds

LEMMA AppendSteps ==
    ASSUME QueueInv, DataInv', SchemeInv', NEW s, NEW k \in 0 .. Len(s), Held(s, k),
           NEW t \in Threads, NEW c, NEW order, Appended(t, c, order)
    PROVE  Preserved(s)
  <1>1. /\ at \in [Threads -> Labels] /\ e_stage \in [Threads -> Stages]
        /\ loc \in [Threads -> Locals] /\ cur_entry \in [Threads -> 0 .. PoolEntries]
        /\ flushed \in [Threads -> SUBSET Nodes] /\ PoolEntries \in Nat
    BY DEF QueueInv, SchemeInv, PlacesInv, EnqueuesInv, DataInv, Locals, QueueAssumption
  <1>2. /\ c \in Seq(PoolNodes) /\ Len(c) \in Nat /\ Len(c) >= 1
        /\ ToSet(c) = {c[i] : i \in 1 .. Len(c)}
        /\ \A i \in 1 .. Len(c) : /\ c[i] = <<t, cur_entry[t] + i - 1>>
                                  /\ c[i] \in Nodes /\ c[i] \in PoolNodes /\ c[i] \in ToSet(c)
    BY InjectiveSeq DEF Appended
  <1>3. PICK e : e = cur_entry[t]
    OBVIOUS
  <1>4. /\ at[t] = "append" /\ at'[t] = "flush" /\ cur_entry'[t] = e + Len(c)
        /\ e + Len(c) <= PoolEntries /\ e \in Nat
        /\ UNCHANGED <<enqVars, deqVars>>
        /\ \A u \in Threads \ {t} :
              at'[u] = at[u] /\ loc'[u] = loc[u] /\ cur_entry'[u] = cur_entry[u]
    BY <1>1, <1>3 DEF Appended
  <1>5. /\ UNCHANGED <<e_word, e_durable, d_word, d_durable, e_stage, e_batch, e_param>>
    BY <1>4 DEF enqVars, deqVars
  <1>6. /\ loc'[t].nodes = c /\ loc'[t].diffs = loc[t].diffs
        /\ loc'[t].rec = [first |-> loc[t].rec.tail, last |-> c[1], tail |-> c[Len(c)]]
    BY <1>1 DEF Appended, Locals
  <1>7. Spent(t) = e /\ Spent(t)' = e
    <2>1. ~HasChain(t) /\ HasChain(t)'
      BY <1>4 DEF HasChain
    <2>2. Spent(t) = e - 0 /\ Spent(t)' = (e + Len(c)) - Len(c)
      BY <1>3, <1>4, <1>6, <2>1 DEF Spent
    <2> QED
      BY <1>2, <1>4, <2>2
  <1>8. /\ Len(s) \in Nat /\ s[1] = Guard /\ ToSet(s) = {s[j] : j \in 1 .. Len(s)}
        /\ \A j \in 1 .. Len(s) : s[j] \in Nodes /\ s[j] # Null /\ s[j] \in ToSet(s)
    BY ChainFacts DEF QueueInv, Held
  <1>9. ToSet(c) \intersect ToSet(s) = {}
    <2> SUFFICES ASSUME NEW i \in 1 .. Len(c), NEW j \in 1 .. Len(s), c[i] = s[j]
                 PROVE  FALSE
      BY <1>2, <1>8
    <2>1. j \in 2 .. Len(s)
      <3>1. c[i] # Guard
        BY <1>2 DEF QueueInv, QueueAssumption
      <3>2. j # 1
        BY <1>8, <3>1
      <3> QED
        BY <1>8, <3>2
    <2>2. s[j][2] < Spent(s[j][1])
      BY <2>1 DEF Held, Issued
    <2>3. s[j][1] = t /\ s[j][2] = e + i - 1
      BY <1>2, <1>3
    <2> QED
      BY <1>4, <1>7, <2>2, <2>3
  <1>10. \A n \in Nodes \ ToSet(c) :
            /\ val'[n] = val[n] /\ next'[n] = next[n]
            /\ n \in clean_val => n \in clean_val'
            /\ n \in clean_next => n \in clean_next'
    BY DEF Appended
  <1>11. NodesKept(s, k, {t}, ToSet(c))
    <2>1. \A n \in ToSet(c) : n \in PoolNodes /\ n[1] = t
      BY <1>2
    <2>2. \A u \in Threads : flushed[u] \ ToSet(c) \subseteq flushed'[u]
      BY DEF Appended
    <2>3. \A i \in 1 .. Len(s) : s[i] \in clean_next => s[i] \in clean_next'
      BY <1>8, <1>9, <1>10
    <2> QED
      BY <1>9, <1>10, <2>1, <2>2, <2>3 DEF NodesKept
  <1>12. OthersStay({t})
    BY <1>4, <1>5, <1>7 DEF OthersStay
  <1>13. WordsKept(s)
    BY <1>5 DEF WordsKept, Held, Durable
  <1>14. Linked(s, k)'
    <2>1. PICK link, link1 : link = MadeGood(e_word, next) /\ link1 = MadeGood(e_word, next)'
      OBVIOUS
    <2>2. /\ DOMAIN link = Nodes /\ DOMAIN link1 = Nodes
          /\ \A n \in Nodes \ ToSet(c) : link1[n] = link[n]
      BY <1>5, <1>10, <2>1 DEF MadeGood
    <2>3. IsListFrom(s, link, Null, Guard)
      BY <2>1 DEF Held, Linked
    <2>4. \A i \in 1 .. Len(s) : link1[s[i]] = link[s[i]]
      BY <1>8, <1>9, <2>2
    <2>5. IsListFrom(s, link1, Null, Guard)
      BY <2>2, <2>3, <2>4 DEF IsListFrom
    <2> QED
      BY <1>5, <2>1, <2>5 DEF Held, Linked
  <1>15. Kept(s, k, {t}, ToSet(c))
    BY <1>11, <1>12, <1>13, <1>14 DEF Kept
  <1>16. ChainOf(t)'
    <2>1. ASSUME NEW i \in 1 .. Len(c)
          PROVE  /\ c[i] = <<t, cur_entry'[t] - Len(c) + i - 1>>
                 /\ next'[c[i]] = IF i = Len(c) THEN Null ELSE c[i + 1]
                 /\ val'[c[i]] \in Values
      <3>1. cur_entry'[t] - Len(c) + i - 1 = e + i - 1
        BY <1>2, <1>4
      <3>2. c[i] = <<t, e + i - 1>>
        BY <1>2, <1>3
      <3>3. /\ next'[c[i]] = IF i = Len(c) THEN Null ELSE c[i + 1]
            /\ val'[c[i]] \in Values
        BY DEF Appended
      <3> QED
        BY <3>1, <3>2, <3>3
    <2>2. Len(c) \in 1 .. cur_entry'[t]
      BY <1>2, <1>4
    <2> QED
      BY <1>4, <1>6, <2>1, <2>2 DEF ChainOf
  <1>17. LocalOf(t)'
    BY <1>4, <1>16 DEF LocalOf, HasChain
  <1>18. ASSUME e_stage'[t] = "trying"
         PROVE  Trying(s, k, t)'
    <2>1. Trying(s, k, t) /\ ~HasChain(t)
      BY <1>4, <1>5, <1>18 DEF Held, Attempts, AttemptOf, HasChain
    <2>2. loc'[t].rec.first = e_word.tail
      BY <1>6, <2>1 DEF Trying
    <2>3. ASSUME k # 0
          PROVE  next'[s[k]] # Null /\ s[k] \in flushed'[t]
      <3>1. next[s[k]] # Null /\ s[k] \in flushed[t]
        BY <1>4, <2>1, <2>3 DEF Trying
      <3>2. k \in 1 .. Len(s)
        BY <1>8, <2>3
      <3>3. s[k] \in Nodes \ ToSet(c)
        BY <1>8, <1>9, <3>2
      <3>4. flushed'[t] = flushed[t] \ ToSet(c)
        BY DEF Appended
      <3> QED
        BY <1>10, <3>1, <3>3, <3>4
    <2> QED
      BY <1>4, <1>5, <2>2, <2>3 DEF Trying, HasChain
  <1>19. AttemptOf(s, k, t)'
    BY <1>4, <1>18 DEF AttemptOf, Removing
  <1> QED
    BY <1>15, <1>17, <1>19, KeptHolds

LEMMA PersistSteps ==
    ASSUME QueueInv, DataInv', SchemeInv', NEW s, NEW k \in 0 .. Len(s), Held(s, k),
           NEW t \in Threads, PersistEnqueues(t)
    PROVE  Preserved(s)
  <1>1. /\ at \in [Threads -> Labels] /\ e_stage \in [Threads -> Stages]
        /\ loc \in [Threads -> Locals] /\ cur_entry \in [Threads -> 0 .. PoolEntries]
        /\ flushed \in [Threads -> SUBSET Nodes]
    BY DEF QueueInv, SchemeInv, PlacesInv, EnqueuesInv, DataInv, Locals
  <1>2. PICK c : c = loc[t].nodes
    OBVIOUS
  <1>3. /\ at[t] = "flush" /\ e_stage[t] = "trying" /\ at'[t] = "cas"
        /\ clean_val' = clean_val \union ToSet(c)
        /\ clean_next' = clean_next \union ToSet(c) \union flushed[t]
        /\ \A u \in Threads \ {t} : at'[u] = at[u] /\ flushed'[u] = flushed[u]
        /\ UNCHANGED <<enqVars, deqVars, val, next, cur_entry, loc>>
    BY <1>1, <1>2 DEF PersistEnqueues, FlushedNodes, GoTo
  <1>4. UNCHANGED <<e_word, e_durable, d_word, d_durable, e_stage, e_batch, e_param>>
    BY <1>3 DEF enqVars, deqVars
  <1>5. Spent(t)' = Spent(t)
    BY <1>3 DEF Spent, HasChain
  <1>6. Spent(t)' >= Spent(t)
    BY <1>5, SpentTypes DEF QueueInv
  <1>7. OthersStay({t})
    BY <1>3, <1>4, <1>6 DEF OthersStay
  <1>8. WordsKept(s)
    BY <1>4 DEF WordsKept, Held, Durable
  <1>9. Kept(s, k, {t}, {})
    BY <1>3, <1>7, <1>8, QuietKept
  <1>10. LocalOf(t)'
    <2>1. ChainOf(t)
      BY <1>3 DEF QueueInv, LocalInv, LocalOf, HasChain
    <2>2. \A i \in 1 .. Len(c) : c[i] \in ToSet(c)
      <3>1. c \in Seq(PoolNodes)
        BY <1>1, <1>2 DEF Locals
      <3> QED
        BY <3>1, InjectiveSeq
    <2>3. ChainOf(t)'
      BY <1>2, <1>3, <2>1, <2>2 DEF ChainOf
    <2> QED
      BY <1>3, <2>3 DEF LocalOf, HasChain
  <1>11. AttemptOf(s, k, t)'
    <2>1. Trying(s, k, t)
      BY <1>3 DEF Held, Attempts, AttemptOf
    <2>2. Trying(s, k, t)'
      BY <1>3, <1>4, <2>1 DEF Trying, HasChain
    <2> QED
      BY <1>3, <2>2 DEF AttemptOf, Removing
  <1> QED
    BY <1>9, <1>10, <1>11, KeptHolds

(* The chain of a batch becomes the end of the queue. *)
LEMMA PublishLinks ==
    ASSUME QueueInv, DataInv', NEW s, NEW k \in 0 .. Len(s), Held(s, k),
           NEW t \in Threads, PublishEnqueues(t), NEW c, c = loc[t].nodes
    PROVE  /\ Linked(s \o c, Len(s))'
           /\ Len(s \o c) = Len(s) + Len(c)
           /\ \A i \in 1 .. Len(s) : (s \o c)[i] = s[i]
           /\ \A i \in 1 .. Len(c) : (s \o c)[Len(s) + i] = c[i]
  <1>1. /\ at[t] = "cas" /\ e_stage[t] = "trying" /\ e_word' = loc[t].rec
        /\ UNCHANGED nodeVars
    BY DEF PublishEnqueues, Enq!Publish
  <1>2. PICK rec, w : rec = loc[t].rec /\ w = e_word
    OBVIOUS
  <1>3. /\ ChainOf(t) /\ Trying(s, k, t)
    BY <1>1 DEF QueueInv, LocalInv, LocalOf, HasChain, Held, Attempts, AttemptOf
  <1>4. /\ rec.first = w.tail /\ rec.last = c[1] /\ rec.tail = c[Len(c)]
        /\ k # 0 => next[s[k]] # Null
        /\ \A i \in 1 .. Len(c) : next[c[i]] = IF i = Len(c) THEN Null ELSE c[i + 1]
    BY <1>1, <1>2, <1>3 DEF Trying, HasChain, ChainOf
  <1>5. /\ Len(s) \in Nat /\ Len(s) >= 1 /\ s[1] = Guard /\ s \in Seq(Nodes)
        /\ ToSet(s) = {s[i] : i \in 1 .. Len(s)}
        /\ \A i \in 1 .. Len(s) : s[i] \in Nodes /\ s[i] # Null
        /\ \A i, j \in 1 .. Len(s) : s[i] = s[j] => i = j
        /\ w.tail = s[Len(s)]
        /\ k # 0 => k < Len(s) /\ next[s[k]] \in {Null, s[k + 1]}
        /\ \A i \in 1 .. Len(s) :
              i # k => next[s[i]] = IF i = Len(s) THEN Null ELSE s[i + 1]
    BY <1>2, ChainFacts DEF QueueInv, Held
  <1>6. /\ Len(c) \in Nat /\ Len(c) >= 1
        /\ \A i \in 1 .. Len(c) : c[i] \in PoolNodes /\ c[i] \in Nodes /\ c[i] \notin ToSet(s)
    BY <1>1, ChainApart DEF HasChain
  <1>7. \A i, j \in 1 .. Len(c) : c[i] = c[j] => i = j
    <2> SUFFICES ASSUME NEW i \in 1 .. Len(c), NEW j \in 1 .. Len(c), c[i] = c[j]
                 PROVE  i = j
      OBVIOUS
    <2>1. PICK e : e = cur_entry[t] - Len(c)
      OBVIOUS
    <2>2. c[i] = <<t, e + i - 1>> /\ c[j] = <<t, e + j - 1>>
      BY <1>3, <2>1 DEF ChainOf
    <2>3. <<t, e + i - 1>>[2] = e + i - 1 /\ <<t, e + j - 1>>[2] = e + j - 1
      OBVIOUS
    <2>4. e + i - 1 = e + j - 1
      BY <2>2, <2>3
    <2>5. i \in Int /\ j \in Int /\ e \in Int
      BY <1>6, <2>1 DEF QueueInv, DataInv
    <2> QED
      BY <2>4, <2>5
  <1>8. c \in Seq(PoolNodes) /\ c \in Seq(Nodes)
    <2>1. c \in Seq(PoolNodes)
      BY DEF QueueInv, DataInv
    <2> QED
      BY <2>1 DEF Nodes
  <1>9. PICK link : link = next
    OBVIOUS
  <1>10. link \in [Nodes -> Words] /\ DOMAIN link = Nodes
    BY <1>9 DEF QueueInv, DataInv
  <1>11. \A i \in 1 .. Len(s) : link[s[i]] = IF i = Len(s) THEN Null ELSE s[i + 1]
    BY <1>4, <1>5, <1>9
  <1>12. IsListFrom(s, link, Null, Guard) /\ s # <<>>
    <2>1. IsInjective(s)
      BY <1>5, InjectiveSeq
    <2>2. s # <<>>
      BY <1>5
    <2> QED
      BY <1>5, <1>10, <1>11, <2>1, <2>2 DEF IsListFrom
  <1>13. IsListFrom(c, link, Null, c[1]) /\ c # <<>>
    <2>1. IsInjective(c)
      BY <1>7, <1>8, InjectiveSeq
    <2>2. c # <<>>
      BY <1>6
    <2> QED
      BY <1>4, <1>8, <1>9, <1>10, <2>1, <2>2 DEF IsListFrom
  <1>14. ToSet(s) \intersect ToSet(c) = {}
    <2>1. ToSet(c) = {c[i] : i \in 1 .. Len(c)}
      BY <1>8, InjectiveSeq
    <2> QED
      BY <1>6, <2>1
  <1>15. PICK after : after = MadeGood(rec, next)
    OBVIOUS
  <1>16. /\ DOMAIN after = Nodes
         /\ \A n \in Nodes : after[n] = IF n = s[Len(s)] THEN c[1] ELSE link[n]
    <2>1. \A n \in Nodes : after[n] = IF n = rec.first /\ link[n] = Null THEN rec.last
                                                                         ELSE link[n]
      BY <1>9, <1>15 DEF MadeGood
    <2>2. link[s[Len(s)]] = Null
      BY <1>5, <1>11
    <2> QED
      BY <1>4, <1>5, <1>15, <2>1, <2>2 DEF MadeGood
  <1>17. /\ IsListFrom(s \o c, after, Null, Guard)
         /\ Len(s \o c) = Len(s) + Len(c)
         /\ \A i \in 1 .. Len(s) : (s \o c)[i] = s[i]
         /\ \A i \in 1 .. Len(c) : (s \o c)[Len(s) + i] = c[i]
    BY <1>10, <1>12, <1>13, <1>14, <1>16, ListJoined
  <1>18. MadeGood(e_word, next)' = after
    BY <1>1, <1>2, <1>15 DEF nodeVars, MadeGood
  <1>19. Linked(s \o c, Len(s))'
    <2>1. PICK S : S = s \o c
      OBVIOUS
    <2>2. /\ Len(S) = Len(s) + Len(c) /\ S[Len(s)] = s[Len(s)]
          /\ S[Len(s) + 1] = c[1] /\ S[Len(S)] = c[Len(c)]
      BY <1>5, <1>6, <1>17, <2>1
    <2>3. Len(s) # 0 /\ Len(s) < Len(S)
      BY <1>5, <1>6, <2>2
    <2>4. e_word' = rec
      BY <1>1, <1>2
    <2>5. IsListFrom(S, MadeGood(e_word, next)', Null, Guard)
      BY <1>17, <1>18, <2>1
    <2>6. /\ S[Len(S)] = e_word'.tail /\ e_word'.first = S[Len(s)]
          /\ e_word'.last = S[Len(s) + 1]
      BY <1>4, <1>5, <2>2, <2>4
    <2>7. Linked(S, Len(s))'
      BY <2>3, <2>5, <2>6 DEF Linked
    <2> QED
      BY <2>1, <2>7
  <1> QED
    BY <1>17, <1>19

LEMMA PublishSteps ==
    ASSUME QueueInv, DataInv', SchemeInv', NEW s, NEW k \in 0 .. Len(s), Held(s, k),
           NEW t \in Threads, PublishEnqueues(t)
    PROVE  LocalInv' /\ ChainInv' /\ Chain' = s \o loc[t].nodes
  <1>1. PICK c, S, rec : c = loc[t].nodes /\ S = s \o c /\ rec = loc[t].rec
    OBVIOUS
  <1>2. /\ at \in [Threads -> Labels] /\ e_stage \in [Threads -> Stages]
        /\ e_batch \in [Threads -> SUBSET Threads] /\ rec \in EnqRecs
        /\ cur_entry \in [Threads -> 0 .. PoolEntries] /\ PoolEntries \in Nat
    BY <1>1 DEF QueueInv, SchemeInv, PlacesInv, EnqueuesInv, DataInv, QueueAssumption
  <1>3. /\ at[t] = "cas" /\ e_stage[t] = "trying" /\ e_word' = rec
        /\ e_stage' = [u \in Threads |->
                          IF u = t THEN "published"
                          ELSE IF e_stage[u] = "trying" THEN "stale" ELSE e_stage[u]]
        /\ UNCHANGED <<nodeVars, deqVars, cur_entry, loc, e_param, e_durable>>
        /\ at' = [at EXCEPT ![t] = "relink"]
    BY <1>1 DEF PublishEnqueues, Enq!Publish, GoTo
  <1>4. ChainOf(t) /\ Trying(s, k, t)
    BY <1>3 DEF QueueInv, LocalInv, LocalOf, HasChain, Held, Attempts, AttemptOf
  <1>5. /\ Len(s) \in Nat /\ Len(s) >= 1 /\ s[1] = Guard
        /\ s \in Seq(Nodes) /\ ToSet(s) = {s[i] : i \in 1 .. Len(s)}
        /\ \A i \in 1 .. Len(s) : s[i] \in Nodes /\ s[i] # Null /\ s[i] \in ToSet(s)
        /\ e_word.tail = s[Len(s)]
        /\ k = 0 => e_word.first = Null
        /\ k # 0 => k < Len(s) /\ e_word.first = s[k]
    BY ChainFacts DEF QueueInv, Held
  <1>6. /\ Len(c) \in Nat /\ Len(c) >= 1
        /\ \A i \in 1 .. Len(c) : c[i] \in PoolNodes /\ c[i] \in Nodes /\ c[i][1] = t
    BY <1>1, <1>3, ChainApart DEF HasChain
  <1>7. /\ Linked(S, Len(s))'
        /\ Len(S) = Len(s) + Len(c)
        /\ \A i \in 1 .. Len(s) : S[i] = s[i]
        /\ \A i \in 1 .. Len(c) : S[Len(s) + i] = c[i]
    BY <1>1, PublishLinks
  <1>8. Len(s) \in 0 .. Len(S)
    BY <1>5, <1>6, <1>7
  <1>9. /\ \A i \in 1 .. Len(S) : i <= Len(s) => i \in 1 .. Len(s) /\ S[i] = s[i]
        /\ \A i \in 1 .. Len(S) : i > Len(s) =>
              i - Len(s) \in 1 .. Len(c) /\ S[i] = c[i - Len(s)]
    <2>1. ASSUME NEW i \in 1 .. Len(S)
          PROVE  /\ i <= Len(s) => i \in 1 .. Len(s)
                 /\ i > Len(s) => /\ i - Len(s) \in 1 .. Len(c)
                                  /\ Len(s) + (i - Len(s)) = i
      BY <1>5, <1>6, <1>7
    <2> QED
      BY <1>7, <2>1
  <1>10. ToSet(s) \subseteq ToSet(S)
    <2>1. S \in Seq(Nodes)
      BY <1>7 DEF Linked, IsListFrom, MadeGood
    <2>2. ToSet(S) = {S[i] : i \in 1 .. Len(S)}
      BY <2>1, InjectiveSeq
    <2>3. \A i \in 1 .. Len(s) : i \in 1 .. Len(S) /\ S[i] = s[i]
      BY <1>5, <1>6, <1>7
    <2> QED
      BY <1>5, <2>2, <2>3
  <1>11. /\ \A u \in Threads \ {t} : at'[u] = at[u] /\ loc'[u] = loc[u]
                                    /\ e_stage'[u] # "trying"
         /\ at'[t] = "relink" /\ e_stage'[t] = "published" /\ loc'[t] = loc[t]
    BY <1>2, <1>3
  <1>12. Spent(t)' = cur_entry[t] /\ Spent(t) = cur_entry[t] - Len(c)
    <2>1. HasChain(t) /\ ~HasChain(t)'
      BY <1>3, <1>11 DEF HasChain
    <2>2. Spent(t)' = cur_entry[t] - 0 /\ Spent(t) = cur_entry[t] - Len(c)
      BY <1>1, <1>3, <2>1 DEF Spent
    <2> QED
      BY <1>2, <2>2
  <1>13. \A u \in Threads \ {t} : Spent(u)' = Spent(u)
    BY <1>3, <1>11 DEF Spent, HasChain
  <1>14. Issued(S)'
    <2>1. ASSUME NEW i \in 2 .. Len(S)
          PROVE  /\ S[i] \in PoolNodes /\ S[i][2] < Spent(S[i][1])'
                 /\ val'[S[i]] \in Values
      <3>0. val' = val /\ i \in 1 .. Len(S)
        BY <1>3, <1>5, <1>6, <1>7 DEF nodeVars
      <3>1. CASE i <= Len(s)
        <4>1. i \in 2 .. Len(s) /\ S[i] = s[i]
          BY <1>5, <1>9, <3>0, <3>1
        <4>2. s[i] \in PoolNodes /\ s[i][2] < Spent(s[i][1]) /\ val[s[i]] \in Values
          BY <4>1 DEF Held, Issued
        <4>3. PICK u, x : u = s[i][1] /\ x = s[i][2]
          OBVIOUS
        <4>4. u \in Threads /\ x \in Nat
          BY <4>2, <4>3 DEF PoolNodes
        <4>5. x < Spent(u)'
          <5>1. u # t => Spent(u)' = Spent(u)
            BY <1>13, <4>4
          <5>2. cur_entry[t] \in Nat /\ x < Spent(u)
            BY <1>2, <4>2, <4>3
          <5> QED
            BY <1>6, <1>12, <4>4, <5>1, <5>2
        <4> QED
          BY <3>0, <4>1, <4>2, <4>3, <4>5
      <3>2. CASE i > Len(s)
        <4>1. PICK j \in 1 .. Len(c) : S[i] = c[j]
          BY <1>9, <3>0, <3>2
        <4>2. c[j] = <<t, cur_entry[t] - Len(c) + j - 1>> /\ val[c[j]] \in Values
          BY <1>1, <1>4, <4>1 DEF ChainOf
        <4>3. c[j][1] = t /\ c[j][2] = cur_entry[t] - Len(c) + j - 1
          BY <4>2
        <4>4. c[j][2] < cur_entry[t]
          <5>1. cur_entry[t] \in Nat
            BY <1>2
          <5> QED
            BY <1>6, <4>1, <4>3, <5>1
        <4> QED
          BY <1>6, <1>12, <3>0, <4>1, <4>2, <4>3, <4>4
      <3> QED
        BY <1>5, <3>0, <3>1, <3>2
    <2> QED
      BY <2>1 DEF Issued
  <1>15. Attempts(S, Len(s))'
    <2>1. ASSUME NEW u \in Threads
          PROVE  AttemptOf(S, Len(s), u)'
      <3>1. AttemptOf(s, k, u)
        BY DEF Held, Attempts
      <3>2. at'[u] \in Removing => loc'[u].head \in ToSet(S)
        BY <1>10, <1>11, <3>1 DEF AttemptOf, Removing
      <3>3. ASSUME at'[u] \in {"link", "append", "relink"}
            PROVE  RecGood(S, loc[u].rec)'
        <4>1. CASE u = t
          BY <1>1, <1>3, <4>1 DEF RecGood
        <4>2. CASE u # t
          <5>1. RecGood(s, loc[u].rec) /\ loc'[u] = loc[u] /\ next' = next
            BY <1>3, <1>11, <3>1, <3>3, <4>2 DEF AttemptOf, nodeVars
          <5>2. CASE loc[u].rec # e_word
            BY <1>10, <5>1, <5>2 DEF RecGood
          <5>3. CASE loc[u].rec = e_word
            <6>1. CASE k = 0
              BY <1>5, <5>1, <5>3, <6>1 DEF RecGood
            <6>2. CASE k # 0
              <7>1. k \in 1 .. Len(s)
                BY <1>5, <6>2
              <7>2. next[s[k]] # Null
                BY <1>3, <1>4, <6>2 DEF Trying
              <7>3. e_word.first = s[k] /\ s[k] \in ToSet(S)
                BY <1>5, <1>10, <6>2, <7>1
              <7> QED
                BY <5>1, <5>3, <7>2, <7>3 DEF RecGood
            <6> QED
              BY <6>1, <6>2
          <5> QED
            BY <5>2, <5>3
        <4> QED
          BY <4>1, <4>2
      <3>4. e_stage'[u] # "trying"
        BY <1>11
      <3> QED
        BY <3>2, <3>3, <3>4 DEF AttemptOf
    <2> QED
      BY <2>1 DEF Attempts
  <1>16. Durable(S, Len(s))'
    <2>1. UNCHANGED <<val, next, clean_val, clean_next, e_durable, d_word, d_durable>>
      BY <1>3 DEF nodeVars, deqVars
    <2>2. Durable(s, k)
      BY DEF Held
    <2>3. \A i \in 1 .. Len(c) : c[i] \in clean_val /\ c[i] \in clean_next
      BY <1>1, <1>3, <1>4 DEF ChainOf
    <2>4. ASSUME NEW i \in 2 .. Len(S)
          PROVE  S[i] \in clean_val'
      <3>1. i \in 1 .. Len(S) /\ (i <= Len(s) => i \in 2 .. Len(s))
        BY <1>5
      <3>2. CASE i <= Len(s)
        BY <1>9, <2>1, <2>2, <3>1, <3>2 DEF Durable
      <3>3. CASE i > Len(s)
        BY <1>9, <2>1, <2>3, <3>1, <3>3
      <3> QED
        BY <1>5, <3>2, <3>3
    <2>5. ASSUME NEW i \in 1 .. Len(S) - 1, i # Len(s)
          PROVE  S[i] \in clean_next'
      <3>1. i \in 1 .. Len(S) /\ (i <= Len(s) => i \in 1 .. Len(s) - 1)
        BY <1>5, <1>6, <1>7, <2>5
      <3>2. CASE i <= Len(s)
        <4>1. CASE i # k
          BY <1>9, <2>1, <2>2, <3>1, <3>2, <4>1 DEF Durable
        <4>2. CASE i = k
          <5>1. s[k] \in clean_next
            BY <1>3, <1>4, <3>1, <4>2 DEF Trying
          <5> QED
            BY <1>9, <2>1, <3>1, <3>2, <4>2, <5>1
        <4> QED
          BY <4>1, <4>2
      <3>3. CASE i > Len(s)
        BY <1>9, <2>1, <2>3, <3>1, <3>3
      <3> QED
        BY <1>5, <3>2, <3>3
    <2>6. \/ e_durable' \in {Unformatted, e_word'}
          \/ \E p \in 1 .. Len(s) :
                /\ e_durable'.tail = S[p]
                /\ e_durable'.first # Null =>
                      \E j \in 1 .. p - 1 : e_durable'.first = S[j]
      <3>1. CASE e_durable = Unformatted
        BY <2>1, <3>1
      <3>2. CASE e_durable = e_word
        <4>1. Len(s) \in 1 .. Len(s) /\ e_durable.tail = S[Len(s)]
          BY <1>5, <1>7, <3>2
        <4>2. ASSUME e_durable.first # Null
              PROVE  \E j \in 1 .. Len(s) - 1 : e_durable.first = S[j]
          <5>1. k # 0 /\ k \in 1 .. Len(s) - 1 /\ k \in 1 .. Len(s)
            BY <1>5, <3>2, <4>2
          <5>2. e_durable.first = S[k]
            BY <1>5, <1>7, <3>2, <5>1
          <5> QED
            BY <5>1, <5>2
        <4> QED
          BY <2>1, <4>1, <4>2
      <3>3. CASE \E p \in 1 .. k :
                    /\ e_durable.tail = s[p]
                    /\ e_durable.first # Null =>
                          \E j \in 1 .. p - 1 : e_durable.first = s[j]
        <4>1. PICK p \in 1 .. k :
                    /\ e_durable.tail = s[p]
                    /\ e_durable.first # Null =>
                          \E j \in 1 .. p - 1 : e_durable.first = s[j]
          BY <3>3
        <4>2. p \in 1 .. Len(s) /\ \A j \in 1 .. p - 1 : j \in 1 .. Len(s)
          BY <1>5, <4>1
        <4>3. S[p] = s[p] /\ \A j \in 1 .. p - 1 : S[j] = s[j]
          BY <1>7, <4>2
        <4> QED
          BY <2>1, <4>1, <4>2, <4>3
      <3> QED
        BY <2>2, <3>1, <3>2, <3>3 DEF Durable
    <2>7. d_word' \in ToSet(S) /\ d_durable' \in ToSet(S) \union {Unformatted}
      BY <1>10, <2>1, <2>2 DEF Durable
    <2> QED
      BY <2>4, <2>5, <2>6, <2>7 DEF Durable
  <1>17. Held(S, Len(s))'
    BY <1>7, <1>14, <1>15, <1>16 DEF Held
  <1>18. ChainInv' /\ Chain' = S
    BY <1>8, <1>17, ChainAfter DEF QueueInv
  <1>19. LocalInv'
    <2>1. LocalOf(t)'
      BY <1>11 DEF LocalOf, HasChain
    <2>2. OthersStay({t})
      <3>1. cur_entry[t] \in Nat
        BY <1>2
      <3>2. Spent(t)' >= Spent(t)
        BY <1>6, <1>12, <3>1
      <3> QED
        BY <1>3, <1>11, <3>2 DEF OthersStay
    <2>3. NodesKept(s, k, {t}, {})
      BY <1>3 DEF NodesKept, nodeVars
    <2>4. \A u \in Threads \ {t} : LocalOf(u)'
      BY <2>2, <2>3, OthersLocal
    <2> QED
      BY <2>1, <2>4 DEF LocalInv
  <1> QED
    BY <1>1, <1>18, <1>19

(* A step publishes the chain of a batch, or leaves the chain what it was.   *)
ChainStep(s) ==
    \/ \E t \in Threads : /\ PublishEnqueues(t) /\ LocalInv' /\ ChainInv'
                          /\ Chain' = s \o loc[t].nodes
    \/ Preserved(s) /\ \A t \in Threads : ~PublishEnqueues(t)

LEMMA NextKeepsChain ==
    ASSUME QueueInv, Next, DataInv', SchemeInv'
    PROVE  \E s : s = Chain /\ (\E k \in 0 .. Len(s) : Held(s, k)) /\ ChainStep(s)
  <1>1. PICK s : s = Chain /\ \E k \in 0 .. Len(s) : Held(s, k)
    BY TheChain
  <1>2. PICK k \in 0 .. Len(s) : Held(s, k)
    BY <1>1
  <1>3. ASSUME \E t \in Threads : PublishEnqueues(t)
        PROVE  ChainStep(s)
    <2>1. PICK t \in Threads : PublishEnqueues(t)
      BY <1>3
    <2>2. LocalInv' /\ ChainInv' /\ Chain' = s \o loc[t].nodes
      BY <1>2, <2>1, PublishSteps
    <2> QED
      BY <2>1, <2>2 DEF ChainStep
  <1>4. ASSUME NEW t \in Threads, NEW v \in Values, Enqueue(t, v)
        PROVE  Preserved(s)
    <2>1. Quiet
      BY <1>4 DEF Quiet
    <2> QED
      BY <1>2, <2>1, QuietSteps
  <1>5. ASSUME NEW t \in Threads,
               Dequeue(t) \/ EnqueueServed(t) \/ DequeueServed(t)
        PROVE  Preserved(s)
    <2>1. Quiet
      BY <1>5 DEF Quiet
    <2> QED
      BY <1>2, <2>1, QuietSteps
  <1>6. ASSUME EvictE \/ EvictD
        PROVE  Preserved(s)
    <2>1. Quiet
      BY <1>6 DEF Quiet
    <2> QED
      BY <1>2, <2>1, QuietSteps
  <1>7. ASSUME NEW t \in Threads, AppendBatch(t)
        PROVE  Preserved(s)
    <2>1. PICK c, order : Appended(t, c, order)
      BY <1>7, AppendIs
    <2> QED
      BY <1>2, <2>1, AppendSteps
  <1>8. ASSUME NEW t \in Threads,
               \/ StartEnqueues(t) \/ LinkOwnCopy(t) \/ PersistEnqueues(t)
               \/ RollBackEnqueues(t) \/ FailEnqueues(t) \/ LinkPublished(t)
               \/ SyncEnqueues(t) \/ ReturnEnqueue(t)
        PROVE  Preserved(s)
    BY <1>2, <1>8, StartSteps, LinkingSteps, PersistSteps, EndingSteps, SyncSteps
  <1>9. ASSUME NEW t \in Threads,
               \/ StartDequeues(t) \/ LinkFirst(t) \/ ServeDequeue(t) \/ LinkNext(t)
               \/ Reread(t) \/ PersistDequeues(t) \/ PublishDequeues(t)
               \/ FailDequeues(t) \/ SyncDequeues(t) \/ ReturnDequeue(t)
        PROVE  Preserved(s)
    BY <1>2, <1>9, RemovingSteps, LinkingSteps, EndingSteps, SyncSteps
  <1>10. ASSUME \A t \in Threads : ~PublishEnqueues(t)
         PROVE  ChainStep(s)
    <2>1. Preserved(s) \/ EvictE \/ EvictD
      BY <1>4, <1>5, <1>7, <1>8, <1>9, <1>10 DEF Next
    <2>2. Preserved(s)
      BY <1>6, <2>1
    <2> QED
      BY <1>10, <2>2 DEF ChainStep
  <1>11. ChainStep(s)
    <2>1. \/ \E t \in Threads : PublishEnqueues(t)
          \/ \A t \in Threads : ~PublishEnqueues(t)
      OBVIOUS
    <2> QED
      BY <1>3, <1>10, <2>1
  <1> QED
    BY <1>1, <1>11

-----------------------------------------------------------------------------
(* The invariant                                                             *)

LEMMA InitHolds ==
    ASSUME QueueAssumption, Init
    PROVE  QueueInv
  <1>1. /\ Enq!Init /\ Deq!Init
        /\ val = [n \in Nodes |-> Junk] /\ next = [n \in Nodes |-> Null]
        /\ clean_val = {} /\ clean_next = {}
        /\ flushed = [t \in Threads |-> {}]
        /\ cur_entry = [t \in Threads |-> 0]
        /\ at = [t \in Threads |-> "out"]
        /\ loc = [t \in Threads |-> NoLocals]
    BY DEF Init
  <1>2. SchemeInv
    BY <1>1 DEF Enq!Init, Deq!Init, SchemeInv, EnqueuesInv, DequeuesInv, SessionInv,
                OneCall, PlacesInv, Phases, Stages, Appending, Removing, Labels
  <1>3. DataInv
    <2>1. loc \in [Threads -> Locals]
      BY <1>1, NoLocalsType
    <2>2. /\ e_word \in EnqRecs /\ e_durable = Unformatted /\ d_word \in Nodes
          /\ d_durable = Unformatted
          /\ d_result \in [Threads -> Values \union {EmptyRet, NoVal}]
      BY <1>1, NoLocalsType DEF Enq!Init, Deq!Init, Nodes
    <2>3. cur_entry \in [Threads -> 0 .. PoolEntries]
      BY <1>1 DEF QueueAssumption
    <2> QED
      BY <1>1, <2>1, <2>2, <2>3 DEF DataInv, Locals, Words
  <1>4. LocalInv
    BY <1>1 DEF LocalInv, LocalOf, HasChain, Enq!Init
  <1>5. PICK s : s = <<Guard>>
    OBVIOUS
  <1>6. Guard \in Nodes
    BY DEF Nodes
  <1>7. /\ s \in Seq(Nodes) /\ Len(s) = 1 /\ s[1] = Guard /\ s # <<>>
    BY <1>5, <1>6
  <1>8. ToSet(s) = {Guard} /\ IsInjective(s)
    BY <1>7, InjectiveSeq
  <1>9. e_word = InitialRec /\ d_word = Guard
    BY <1>1 DEF Enq!Init, Deq!Init
  <1>10. Linked(s, 0)
    <2>1. PICK link : link = MadeGood(e_word, next)
      OBVIOUS
    <2>2. DOMAIN link = Nodes
      BY <2>1 DEF MadeGood
    <2>3. link[Guard] = Null
      <3>1. Null \notin Nodes
        BY DEF QueueAssumption
      <3> QED
        BY <1>1, <1>6, <1>9, <2>1, <3>1 DEF MadeGood, InitialRec
    <2>4. IsListFrom(s, link, Null, Guard)
      BY <1>7, <1>8, <2>2, <2>3 DEF IsListFrom
    <2> QED
      BY <1>7, <1>9, <2>1, <2>4 DEF Linked, InitialRec
  <1>11. Issued(s)
    BY <1>7 DEF Issued
  <1>12. Attempts(s, 0)
    BY <1>1 DEF Attempts, AttemptOf, Enq!Init, Removing
  <1>13. Durable(s, 0)
    BY <1>1, <1>7, <1>8, <1>9 DEF Durable, Enq!Init, Deq!Init
  <1>14. Held(s, 0)
    BY <1>10, <1>11, <1>12, <1>13 DEF Held
  <1>15. Chain = s
    BY <1>3, <1>10, IsTheChain
  <1>16. ChainInv
    BY <1>7, <1>14, <1>15 DEF ChainInv
  <1> QED
    BY <1>2, <1>3, <1>4, <1>16 DEF QueueInv

LEMMA NextHolds ==
    ASSUME QueueInv, [Next]_vars
    PROVE  QueueInv'
  <1>1. QueueAssumption /\ SchemeInv
    BY DEF QueueInv
  <1>2. SchemeInv'
    BY <1>1, NextKeepsScheme
  <1>3. CASE Next
    <2>1. DataInv'
      BY <1>3, NextKeepsData
    <2>2. LocalInv' /\ ChainInv'
      BY <1>2, <1>3, <2>1, NextKeepsChain DEF ChainStep, Preserved
    <2> QED
      BY <1>1, <1>2, <2>1, <2>2 DEF QueueInv
  <1>4. CASE UNCHANGED vars
    <2>1. DataInv' /\ LocalInv'
      <3>1. DataInv'
        BY <1>4 DEF vars, enqVars, deqVars, nodeVars, QueueInv, DataInv
      <3>2. LocalInv'
        BY <1>4 DEF vars, enqVars, deqVars, nodeVars, QueueInv, LocalInv, LocalOf,
                    HasChain, ChainOf
      <3> QED
        BY <3>1, <3>2
    <2>2. ChainInv'
      <3>1. PICK s : \E k \in 0 .. Len(s) : Held(s, k)
        BY TheChain
      <3>2. PICK k \in 0 .. Len(s) : Held(s, k)
        BY <3>1
      <3>3. Held(s, k)'
        BY <1>4, <3>2 DEF vars, enqVars, deqVars, nodeVars, Held, Linked, MadeGood, Issued,
              Spent, HasChain, Attempts, AttemptOf, RecGood, Trying, Durable
      <3> QED
        BY <1>1, <2>1, <3>3, ChainAfter
    <2> QED
      BY <1>1, <1>2, <2>1, <2>2 DEF QueueInv
  <1> QED
    BY <1>3, <1>4

LEMMA InvariantTypes ==
    ASSUME QueueInv
    PROVE  TypeOK
  BY DEF QueueInv, DataInv, SchemeInv, EnqueuesInv, DequeuesInv, PlacesInv, Phases, Labels,
         TypeOK

-----------------------------------------------------------------------------
(* What a crash leaves                                                       *)

(* The nodes in the order they were enqueued, and where they are.            *)
LEMMA AllNodesIs ==
    ASSUME QueueInv, NEW s, NEW k \in 0 .. Len(s), Held(s, k)
    PROVE  /\ AllNodes = s
           /\ \A i \in 1 .. Len(s) : PositionOf(s[i]) = i
  <1>1. PICK link : link = MadeGood(e_word, next)
    OBVIOUS
  <1>2. link \in [Nodes -> Words] /\ IsListFrom(s, link, Null, Guard)
    BY <1>1, LinksType DEF QueueInv, DataInv, Held, Linked
  <1>3. /\ Len(s) \in Nat /\ Len(s) >= 1 /\ s[1] = Guard /\ s \in Seq(Nodes)
        /\ \A i, j \in 1 .. Len(s) : s[i] = s[j] => i = j
    BY ChainFacts DEF QueueInv, Held
  <1>4. s # <<>> /\ Guard \in DOMAIN link /\ DOMAIN link = Nodes
    BY <1>2, <1>3 DEF Nodes
  <1>5. IsListFrom(Tail(s), link, Null, link[Guard])
    <2>1. /\ Null \notin DOMAIN link
      BY <1>4 DEF QueueInv, QueueAssumption
    <2> QED
      BY <1>2, <1>3, <1>4, <2>1, ListTail
  <1>6. ListFrom(link, Null, link[Guard], Cardinality(Nodes)) = Tail(s)
    BY <1>2, <1>5, ChainIs DEF QueueInv
  <1>7. AllNodes = <<Guard>> \o Tail(s)
    BY <1>1, <1>6 DEF AllNodes, NodesBehind
  <1>8. <<Guard>> \o Tail(s) = s
    BY <1>3, <1>4
  <1>9. AllNodes = s /\ DOMAIN AllNodes = 1 .. Len(s)
    BY <1>3, <1>7, <1>8
  <1>10. ASSUME NEW i \in 1 .. Len(s)
         PROVE  PositionOf(s[i]) = i
    <2>1. PositionOf(s[i]) = CHOOSE j \in 1 .. Len(s) : s[j] = s[i]
      BY <1>9 DEF PositionOf
    <2> QED
      BY <1>3, <2>1
  <1> QED
    BY <1>9, <1>10

(* The link of a durable record is that of the chain, where it counts.       *)
LEMMA DurableLinks ==
    ASSUME QueueInv, NEW s, NEW k \in 0 .. Len(s), Held(s, k), AreFormatted
    PROVE  \E upto \in 1 .. Len(s) :
              /\ e_durable.tail = s[upto]
              /\ \A i \in 1 .. upto - 1 :
                    MadeGood(e_durable, DurableNext)[s[i]] = s[i + 1]
  <1>1. /\ Len(s) \in Nat /\ Len(s) >= 1
        /\ \A i \in 1 .. Len(s) : s[i] \in Nodes /\ s[i] # Null
        /\ e_word.tail = s[Len(s)]
        /\ k # 0 => /\ k < Len(s) /\ e_word.first = s[k] /\ e_word.last = s[k + 1]
                    /\ next[s[k]] \in {Null, s[k + 1]}
        /\ \A i \in 1 .. Len(s) : i # k => next[s[i]] = IF i = Len(s) THEN Null ELSE s[i + 1]
    BY ChainFacts DEF QueueInv, Held
  <1>2. Durable(s, k)
    BY DEF Held
  <1>3. \A n \in Nodes : DurableNext[n] = IF n \in clean_next THEN next[n] ELSE Null
    BY DEF DurableNext
  <1>4. \A n \in Nodes : MadeGood(e_durable, DurableNext)[n] =
           IF n = e_durable.first /\ DurableNext[n] = Null THEN e_durable.last
                                                           ELSE DurableNext[n]
    BY DEF MadeGood
  <1>5. ASSUME NEW i \in 1 .. Len(s) - 1, i # k
        PROVE  MadeGood(e_durable, DurableNext)[s[i]] = s[i + 1]
    <2>1. s[i] \in clean_next
      BY <1>2, <1>5 DEF Durable
    <2>2. i \in 1 .. Len(s) /\ i + 1 \in 1 .. Len(s) /\ i # Len(s)
      BY <1>1
    <2>3. next[s[i]] = s[i + 1] /\ s[i + 1] # Null /\ s[i] \in Nodes
      BY <1>1, <1>5, <2>2
    <2> QED
      BY <1>3, <1>4, <2>1, <2>3
  <1>6. CASE e_durable = e_word
    <2>1. ASSUME NEW i \in 1 .. Len(s) - 1
          PROVE  MadeGood(e_durable, DurableNext)[s[i]] = s[i + 1]
      <3>1. CASE i = k
        <4>1. /\ s[k] \in Nodes /\ s[k + 1] # Null /\ e_word.first = s[k]
              /\ e_word.last = s[k + 1] /\ next[s[k]] \in {Null, s[k + 1]}
          <5>1. k \in 1 .. Len(s) /\ k + 1 \in 1 .. Len(s) /\ k # 0
            BY <1>1, <3>1
          <5> QED
            BY <1>1, <5>1
        <4>2. DurableNext[s[k]] \in {Null, s[k + 1]}
          BY <1>3, <4>1
        <4> QED
          BY <1>4, <1>6, <3>1, <4>1, <4>2
      <3> QED
        BY <1>5, <3>1
    <2>2. Len(s) \in 1 .. Len(s)
      BY <1>1
    <2> QED
      BY <1>1, <1>6, <2>1, <2>2
  <1>7. CASE \E p \in 1 .. k : e_durable.tail = s[p]
    <2>1. PICK p \in 1 .. k : e_durable.tail = s[p]
      BY <1>7
    <2>2. p \in 1 .. Len(s) /\ \A i \in 1 .. p - 1 : i \in 1 .. Len(s) - 1 /\ i # k
      BY <1>1, <2>1
    <2> QED
      BY <1>5, <2>1, <2>2
  <1> QED
    BY <1>2, <1>6, <1>7 DEF Durable, AreFormatted

LEMMA InvariantWhole ==
    ASSUME QueueInv
    PROVE  WholeAfterCrash
  <1> SUFFICES ASSUME AreFormatted, HeadNotAhead
               PROVE  LET from == PositionOf(d_durable)
                          upto == PositionOf(e_durable.tail)
                          left == NodesBehind(d_durable, e_durable, DurableNext)
                      IN /\ Len(left) >= upto - from
                         /\ \A i \in 1 .. upto - from :
                               left[i] = AllNodes[from + i] /\ left[i] \in clean_val
    BY DEF WholeAfterCrash
  <1>1. PICK s : \E k \in 0 .. Len(s) : Held(s, k)
    BY TheChain
  <1>2. PICK k \in 0 .. Len(s) : Held(s, k)
    BY <1>1
  <1>3. PICK upto \in 1 .. Len(s) :
              /\ e_durable.tail = s[upto]
              /\ \A i \in 1 .. upto - 1 :
                    MadeGood(e_durable, DurableNext)[s[i]] = s[i + 1]
    BY <1>2, DurableLinks
  <1>4. AllNodes = s /\ \A i \in 1 .. Len(s) : PositionOf(s[i]) = i
    BY <1>2, AllNodesIs
  <1>5. /\ Len(s) \in Nat /\ ToSet(s) = {s[i] : i \in 1 .. Len(s)} /\ s \in Seq(Nodes)
        /\ \A i \in 1 .. Len(s) : s[i] \in Nodes
        /\ \A i, j \in 1 .. Len(s) : s[i] = s[j] => i = j
    BY <1>2, ChainFacts DEF QueueInv, Held
  <1>6. PICK from \in 1 .. Len(s) : d_durable = s[from]
    BY <1>2, <1>5 DEF Held, Durable, AreFormatted
  <1>7. PositionOf(d_durable) = from /\ PositionOf(e_durable.tail) = upto /\ from <= upto
    BY <1>3, <1>4, <1>6 DEF HeadNotAhead
  <1>8. PICK succ, M : succ = MadeGood(e_durable, DurableNext) /\ M = Cardinality(Nodes)
    OBVIOUS
  <1>9. /\ succ \in [Nodes -> Words] /\ DOMAIN succ = Nodes /\ M \in Nat
        /\ Null \notin Nodes
    <2>1. DurableNext \in [Nodes -> Words] /\ e_durable \in EnqRecs
      BY DEF DurableNext, QueueInv, DataInv, Words, AreFormatted
    <2>2. M \in Nat /\ Null \notin Nodes
      BY <1>8, NodesFinite DEF QueueInv, QueueAssumption
    <2> QED
      BY <1>8, <2>1, <2>2, LinksType
  <1>10. PICK left, w : w = succ[d_durable] /\ left = ListFrom(succ, Null, w, M)
    OBVIOUS
  <1>11. left = NodesBehind(d_durable, e_durable, DurableNext)
    BY <1>8, <1>10 DEF NodesBehind
  <1>12. w \in Words
    BY <1>5, <1>6, <1>9, <1>10
  <1>13. Len(s) <= M
    <2>1. PICK link : link = MadeGood(e_word, next)
      OBVIOUS
    <2>2. DOMAIN link = Nodes /\ IsListFrom(s, link, Null, Guard)
      BY <1>2, <2>1 DEF MadeGood, Held, Linked
    <2>3. IsFiniteSet(DOMAIN link)
      BY <2>2, NodesFinite DEF QueueInv
    <2>4. Len(s) <= Cardinality(DOMAIN link)
      BY <2>2, <2>3, ListFits
    <2> QED
      BY <1>8, <2>2, <2>4
  <1>14. Len(left) >= upto - from /\ \A i \in 1 .. upto - from : left[i] = s[from + i]
    <2>1. CASE upto = from
      <3>1. Len(left) \in Nat
        <4>1. CASE w = Null
          <5>1. left = <<>>
            <6>1. IsListFrom(<<>>, succ, Null, Null) /\ Len(<<>>) <= M
              BY <1>9, ListEmpty
            <6> QED
              BY <1>9, <1>10, <4>1, <6>1, ListFromIs
          <5> QED
            BY <5>1
        <4>2. CASE w \in Nodes
          <5>1. PICK p : p = <<w>>
            OBVIOUS
          <5>2. Along(p, 1, succ) /\ p[1] = w
            BY <1>9, <4>2, <5>1 DEF Along
          <5>3. 1 \in 1 .. M
            BY <1>5, <1>6, <1>9, <1>13
          <5>4. \A n \in DOMAIN succ : succ[n] \in DOMAIN succ \union {Null}
            BY <1>9 DEF Words
          <5> QED
            BY <1>9, <1>10, <5>2, <5>3, <5>4, ListLeads
        <4> QED
          BY <1>12, <4>1, <4>2 DEF Words
      <3> QED
        BY <1>3, <1>6, <2>1, <3>1
    <2>2. CASE upto # from
      <3>1. PICK m : m = upto - from
        OBVIOUS
      <3>2. m \in 1 .. M
        BY <1>3, <1>5, <1>6, <1>7, <1>9, <1>13, <2>2, <3>1
      <3>3. PICK p : p = [j \in 1 .. m |-> s[from + j]]
        OBVIOUS
      <3>4. ASSUME NEW j \in 1 .. m
            PROVE  from + j \in 1 .. Len(s) /\ p[j] = s[from + j]
        BY <1>3, <1>5, <1>6, <1>7, <3>1, <3>3
      <3>5. Along(p, m, succ)
        <4>1. ASSUME NEW j \in 1 .. m - 1
              PROVE  succ[p[j]] = p[j + 1]
          <5>1. /\ from + j \in 1 .. upto - 1 /\ j \in 1 .. m /\ j + 1 \in 1 .. m
                /\ from + j + 1 = from + (j + 1)
            BY <1>3, <1>6, <1>7, <3>1, <3>2
          <5> QED
            BY <1>3, <1>8, <3>4, <5>1
        <4>2. \A j \in 1 .. m : p[j] \in Nodes
          BY <1>5, <3>4
        <4> QED
          BY <1>9, <4>1, <4>2 DEF Along
      <3>6. p[1] = w
        <4>1. from \in 1 .. upto - 1 /\ 1 \in 1 .. m
          BY <1>3, <1>6, <1>7, <2>2, <3>2
        <4> QED
          BY <1>3, <1>6, <1>8, <1>10, <3>4, <4>1
      <3>7. \A n \in DOMAIN succ : succ[n] \in DOMAIN succ \union {Null}
        BY <1>9 DEF Words
      <3>8. Len(left) \in Nat /\ Len(left) >= m /\ \A i \in 1 .. m : left[i] = p[i]
        BY <1>9, <1>10, <3>2, <3>5, <3>6, <3>7, ListLeads
      <3> QED
        BY <3>1, <3>4, <3>8
    <2> QED
      BY <2>1, <2>2
  <1>15. ASSUME NEW i \in 1 .. upto - from
         PROVE  s[from + i] \in clean_val
    <2>1. from + i \in 2 .. Len(s)
      BY <1>3, <1>5, <1>6, <1>7
    <2> QED
      BY <1>2, <2>1 DEF Held, Durable
  <1> QED
    BY <1>4, <1>7, <1>11, <1>14, <1>15


-----------------------------------------------------------------------------
(* Who moves in a step, and where to                                         *)

Still(u) == at'[u] = at[u] /\ loc'[u] = loc[u]

Moves(u) ==
    \/ StartEnqueues(u) \/ LinkOwnCopy(u) \/ AppendBatch(u) \/ PersistEnqueues(u)
    \/ RollBackEnqueues(u) \/ PublishEnqueues(u) \/ FailEnqueues(u) \/ LinkPublished(u)
    \/ SyncEnqueues(u) \/ ReturnEnqueue(u)
    \/ StartDequeues(u) \/ LinkFirst(u) \/ ServeDequeue(u) \/ LinkNext(u) \/ Reread(u)
    \/ PersistDequeues(u) \/ PublishDequeues(u) \/ FailDequeues(u) \/ SyncDequeues(u)
    \/ ReturnDequeue(u)

LEMMA WhoMoves ==
    ASSUME QueueInv, Next, NEW u \in Threads
    PROVE  Still(u) \/ Moves(u)
  <1>1. at \in [Threads -> Labels] /\ loc \in [Threads -> Locals]
    BY DEF QueueInv, SchemeInv, PlacesInv, DataInv, Locals
  <1>2. ASSUME NEW t \in Threads, t # u, at' = [at EXCEPT ![t] = at'[t]],
               loc' = [loc EXCEPT ![t] = loc'[t]]
        PROVE  Still(u)
    BY <1>1, <1>2 DEF Still
  <1>3. ASSUME UNCHANGED <<at, loc>>
        PROVE  Still(u)
    BY <1>3 DEF Still
  <1>4. ASSUME NEW t \in Threads, NEW v \in Values, Enqueue(t, v)
        PROVE  Still(u)
    BY <1>3, <1>4 DEF Enqueue
  <1>5. ASSUME NEW t \in Threads, Dequeue(t) \/ EnqueueServed(t) \/ DequeueServed(t)
        PROVE  Still(u)
    BY <1>3, <1>5 DEF Dequeue, EnqueueServed, DequeueServed
  <1>6. CASE EvictE \/ EvictD
    BY <1>3, <1>6 DEF EvictE, EvictD
  <1>7. ASSUME NEW t \in Threads, t # u, NEW label, GoTo(t, label), Leave(t) \/ UNCHANGED loc
        PROVE  Still(u)
    BY <1>1, <1>7 DEF Still, GoTo, Leave
  <1>8. ASSUME NEW t \in Threads, t # u, Moves(t)
        PROVE  Still(u)
    <2>1. CASE LinkOwnCopy(t) \/ PersistEnqueues(t) \/ PublishEnqueues(t) \/ LinkPublished(t)
                  \/ SyncEnqueues(t)
      BY <1>7, <1>8, <2>1 DEF LinkOwnCopy, PersistEnqueues, PublishEnqueues, LinkPublished,
                              SyncEnqueues
    <2>2. CASE LinkFirst(t) \/ LinkNext(t) \/ PersistDequeues(t) \/ PublishDequeues(t)
                  \/ SyncDequeues(t)
      BY <1>7, <1>8, <2>2 DEF LinkFirst, LinkNext, PersistDequeues, PublishDequeues,
                              SyncDequeues
    <2>3. CASE RollBackEnqueues(t) \/ FailEnqueues(t) \/ ReturnEnqueue(t)
                  \/ FailDequeues(t) \/ ReturnDequeue(t)
      BY <1>7, <1>8, <2>3 DEF RollBackEnqueues, FailEnqueues, ReturnEnqueue, FailDequeues,
                              ReturnDequeue, Leave
    <2>4. CASE StartEnqueues(t)
      BY <1>1, <1>8, <2>4 DEF StartEnqueues, GoTo, Still
    <2>5. CASE StartDequeues(t)
      BY <1>1, <1>8, <2>5 DEF StartDequeues, GoTo, Still
    <2>6. CASE AppendBatch(t)
      <3>1. PICK c, order : Appended(t, c, order)
        BY <2>6, AppendIs
      <3> QED
        BY <1>1, <1>8, <3>1 DEF Appended, Still
    <2>7. ASSUME NEW v, NEW head, Answer(t, v, head)
          PROVE  loc'[u] = loc[u]
      BY <1>1, <1>8, <2>7 DEF Answer
    <2>8. CASE ServeDequeue(t)
      BY <2>7, <2>8 DEF ServeDequeue, TakeNode, Still
    <2>9. CASE Reread(t)
      BY <1>1, <1>8, <2>7, <2>9 DEF Reread, TakeNode, GoTo, Still
    <2> QED
      BY <1>8, <2>1, <2>2, <2>3, <2>4, <2>5, <2>6, <2>8, <2>9 DEF Moves
  <1>9. \/ \E t \in Threads : Moves(t)
        \/ \E t \in Threads : \E v \in Values : Enqueue(t, v)
        \/ \E t \in Threads : Dequeue(t) \/ EnqueueServed(t) \/ DequeueServed(t)
        \/ EvictE \/ EvictD
    BY DEF Next, Moves
  <1> QED
    BY <1>4, <1>5, <1>6, <1>8, <1>9

LEMMA WhereTo ==
    ASSUME QueueInv, NEW u \in Threads, Moves(u)
    PROVE  /\ at'[u] \in {"flush", "cas"} => AppendBatch(u) \/ PersistEnqueues(u)
           /\ at'[u] \in {"relink", "sync"} => PublishEnqueues(u) \/ LinkPublished(u)
           /\ at'[u] = "deqsync" => PublishDequeues(u)
           /\ at'[u] = "reread" => LinkNext(u)
           /\ at'[u] \in Removing =>
                 \/ StartDequeues(u) \/ LinkFirst(u) \/ ServeDequeue(u) \/ LinkNext(u)
                 \/ Reread(u) \/ PersistDequeues(u)
  <1>1. at \in [Threads -> Labels]
    BY DEF QueueInv, SchemeInv, PlacesInv
  <1>2. ASSUME NEW label, GoTo(u, label)
        PROVE  at'[u] = label
    BY <1>1, <1>2 DEF GoTo
  <1>3. /\ StartEnqueues(u) => at'[u] = "link"
        /\ LinkOwnCopy(u) => at'[u] = "append"
        /\ AppendBatch(u) => at'[u] = "flush"
        /\ PersistEnqueues(u) => at'[u] = "cas"
        /\ PublishEnqueues(u) => at'[u] = "relink"
        /\ LinkPublished(u) => at'[u] = "sync"
        /\ SyncEnqueues(u) \/ SyncDequeues(u) => at'[u] = "return"
    BY <1>2 DEF StartEnqueues, LinkOwnCopy, AppendBatch, PersistEnqueues, PublishEnqueues,
                LinkPublished, SyncEnqueues, SyncDequeues
  <1>4. ASSUME RollBackEnqueues(u) \/ FailEnqueues(u) \/ ReturnEnqueue(u)
                  \/ FailDequeues(u) \/ ReturnDequeue(u)
        PROVE  at'[u] = "out"
    BY <1>2, <1>4 DEF RollBackEnqueues, FailEnqueues, ReturnEnqueue, FailDequeues, ReturnDequeue,
                Leave
  <1>5. /\ StartDequeues(u) => at'[u] = "deqlink"
        /\ LinkFirst(u) \/ Reread(u) \/ ServeDequeue(u) => at'[u] = "serve"
        /\ LinkNext(u) => at'[u] = "reread"
        /\ PersistDequeues(u) => at'[u] = "deqcas"
        /\ PublishDequeues(u) => at'[u] = "deqsync"
    BY <1>1, <1>2 DEF StartDequeues, LinkFirst, Reread, ServeDequeue, LinkNext,
                      PersistDequeues, PublishDequeues
  <1> QED
    BY <1>3, <1>4, <1>5 DEF Moves, Removing

(* The sessions of attempts that go on. *)
LEMMA EnqueuesGoOn ==
    ASSUME QueueInv, Next, NEW u \in Threads, e_stage'[u] = "trying", e_stage[u] # "out"
    PROVE  /\ e_stage[u] = "trying" /\ e_batch'[u] = e_batch[u]
           /\ \A x \in e_batch[u] : e_param'[x] = e_param[x]
  <1>1. EnqueuesInv
    BY DEF QueueInv, SchemeInv
  <1>2. CASE UNCHANGED enqVars
    BY <1>2 DEF enqVars
  <1>3. CASE EnqueuesStep
    <2> USE DEF EnqueuesInv, SessionInv, Enq!callVars, Enq!recordVars
    <2>1. ASSUME NEW t \in Threads, NEW v \in Values, Enq!Invoke(t, v)
          PROVE  /\ e_stage[u] = "trying" /\ e_batch'[u] = e_batch[u]
                 /\ \A x \in e_batch[u] : e_param'[x] = e_param[x]
      <3>1. e_stage[u] = "trying" /\ e_batch'[u] = e_batch[u]
        BY <2>1 DEF Enq!Invoke
      <3>2. \A x \in e_batch[u] : x # t
        BY <1>1, <2>1, <3>1 DEF Enq!Invoke
      <3> QED
        BY <1>1, <2>1, <3>1, <3>2 DEF Enq!Invoke
    <2>2. ASSUME NEW t \in Threads, NEW threads, Enq!Start(t, threads)
          PROVE  e_stage[u] = "trying" /\ e_batch'[u] = e_batch[u] /\ e_param' = e_param
      BY <1>1, <2>2 DEF Enq!Start
    <2>3. ASSUME NEW t \in Threads, NEW w, NEW answers, Enq!Publish(t, w, answers)
          PROVE  FALSE
      BY <1>1, <2>3 DEF Enq!Publish
    <2>4. ASSUME NEW t \in Threads, Enq!GiveUp(t) \/ Enq!Sync(t) \/ Enq!ReturnOwn(t)
                                       \/ Enq!ReturnServed(t)
          PROVE  e_stage[u] = "trying" /\ e_batch'[u] = e_batch[u] /\ e_param' = e_param
      BY <1>1, <2>4 DEF Enq!GiveUp, Enq!Sync, Enq!ReturnOwn, Enq!ReturnServed
    <2>5. CASE Enq!Evict
      BY <2>5 DEF Enq!Evict
    <2> QED
      BY <1>3, <2>1, <2>2, <2>3, <2>4, <2>5 DEF EnqueuesStep
  <1> QED
    BY <1>2, <1>3, SessionSteps

LEMMA DequeuesGoOn ==
    ASSUME QueueInv, Next
    PROVE  /\ \A u \in Threads : d_stage'[u] = "trying" /\ d_stage[u] # "out" =>
                 d_stage[u] = "trying" /\ d_batch'[u] = d_batch[u] /\ d_word' = d_word
           /\ d_word' = d_word \/ \E u \in Threads : DequeuesTakeEffect(u)
           /\ \A u, x \in Threads : DequeuesTakeEffect(u) => ~EnqueuesTakeEffect(x)
  <1>1. DequeuesInv
    BY DEF QueueInv, SchemeInv
  <1>2. ASSUME UNCHANGED deqVars
        PROVE  /\ \A u \in Threads : d_stage'[u] = "trying" /\ d_stage[u] # "out" =>
                     d_stage[u] = "trying" /\ d_batch'[u] = d_batch[u] /\ d_word' = d_word
               /\ d_word' = d_word \/ \E u \in Threads : DequeuesTakeEffect(u)
               /\ \A u \in Threads : ~DequeuesTakeEffect(u)
    BY <1>2 DEF deqVars, DequeuesTakeEffect
  <1>3. ASSUME DequeuesStep
        PROVE  /\ \A u \in Threads : d_stage'[u] = "trying" /\ d_stage[u] # "out" =>
                     d_stage[u] = "trying" /\ d_batch'[u] = d_batch[u] /\ d_word' = d_word
               /\ d_word' = d_word \/ \E u \in Threads : DequeuesTakeEffect(u)
    <2> USE DEF DequeuesInv, SessionInv, Deq!callVars, Deq!recordVars
    <2>1. ASSUME NEW t \in Threads, NEW w, NEW answers, Deq!Publish(t, w, answers)
          PROVE  /\ \A u \in Threads : d_stage'[u] # "trying"
                 /\ DequeuesTakeEffect(t)
      BY <1>1, <2>1 DEF Deq!Publish, DequeuesTakeEffect
    <2>2. ASSUME NEW t \in Threads, NEW threads, Deq!Start(t, threads)
          PROVE  /\ d_word' = d_word
                 /\ \A u \in Threads : d_stage'[u] = "trying" /\ d_stage[u] # "out" =>
                       d_stage[u] = "trying" /\ d_batch'[u] = d_batch[u]
      BY <1>1, <2>2 DEF Deq!Start
    <2>3. ASSUME NEW t \in Threads,
                 Deq!Invoke(t, DeqArg) \/ Deq!GiveUp(t) \/ Deq!Sync(t) \/ Deq!ReturnOwn(t)
                    \/ Deq!ReturnServed(t)
          PROVE  /\ d_word' = d_word
                 /\ \A u \in Threads : d_stage'[u] = "trying" /\ d_stage[u] # "out" =>
                       d_stage[u] = "trying" /\ d_batch'[u] = d_batch[u]
      BY <1>1, <2>3 DEF Deq!Invoke, Deq!GiveUp, Deq!Sync, Deq!ReturnOwn, Deq!ReturnServed
    <2>4. CASE Deq!Evict
      BY <2>4 DEF Deq!Evict
    <2> QED
      BY <1>3, <2>1, <2>2, <2>3, <2>4 DEF DequeuesStep
  <1>4. ASSUME UNCHANGED enqVars, NEW x \in Threads
        PROVE  ~EnqueuesTakeEffect(x)
    BY <1>4 DEF enqVars, EnqueuesTakeEffect
  <1> QED
    BY <1>2, <1>3, <1>4, SessionSteps

(* A batch takes effect in the step that publishes its record.               *)
LEMMA TakingEffect ==
    ASSUME QueueInv, Next, SchemeInv', NEW u \in Threads
    PROVE  /\ EnqueuesTakeEffect(u) <=> PublishEnqueues(u)
           /\ DequeuesTakeEffect(u) <=> PublishDequeues(u)
  <1>1. PublishEnqueues(u) => EnqueuesTakeEffect(u)
    BY DEF PublishEnqueues, Enq!Publish, EnqueuesTakeEffect
  <1>2. PublishDequeues(u) => DequeuesTakeEffect(u)
    BY DEF PublishDequeues, Deq!Publish, DequeuesTakeEffect
  <1>3. ASSUME EnqueuesTakeEffect(u)
        PROVE  PublishEnqueues(u)
    <2>1. at[u] \in Appending /\ at'[u] \in {"relink", "sync"}
      BY <1>3 DEF EnqueuesTakeEffect, QueueInv, SchemeInv, PlacesInv
    <2>2. Moves(u) /\ ~LinkPublished(u)
      BY <2>1, WhoMoves DEF Still, Appending, LinkPublished
    <2> QED
      BY <2>1, <2>2, WhereTo
  <1>4. ASSUME DequeuesTakeEffect(u)
        PROVE  PublishDequeues(u)
    <2>1. at[u] \in Removing /\ at'[u] = "deqsync"
      BY <1>4 DEF DequeuesTakeEffect, QueueInv, SchemeInv, PlacesInv
    <2>2. Moves(u)
      BY <2>1, WhoMoves DEF Still, Removing
    <2> QED
      BY <2>1, <2>2, WhereTo
  <1> QED
    BY <1>1, <1>2, <1>3, <1>4

-----------------------------------------------------------------------------
(* The order of the queue                                                    *)

(* The operations of the batch of t in the order of its chain. *)
BatchOrder(t) == <<t>> \o InOrder(e_batch[t] \ {t})

(* The chain of an attempt that may be published holds the arguments of its  *)
(* batch.                                                                    *)
OrderOf(t) ==
    e_stage[t] = "trying" /\ HasChain(t) =>
        /\ Len(loc[t].nodes) = Len(BatchOrder(t))
        /\ \A i \in 1 .. Len(loc[t].nodes) :
              val[loc[t].nodes[i]] = e_param[BatchOrder(t)[i]]

OrderInv == \A t \in Threads : OrderOf(t)

(* What the attempt of t has taken from the chain, the answers in the order  *)
(* of the requests.                                                          *)
Answered(t) == {x \in d_batch[t] \ loc[t].diffs : loc[t].return_val[x] # EmptyRet}

TakenFrom(s, t, i, j, a) ==
    /\ i \in 1 .. Len(s) /\ j \in i .. Len(s)
    /\ s[i] = d_word /\ s[j] = loc[t].head
    /\ Ordered(a, Answered(t)) /\ Cardinality(Answered(t)) = j - i
    /\ \A x \in 1 .. j - i : loc[t].return_val[a[x]] = val[s[i + x]]

Taken(s, t) ==
    /\ loc[t].diffs \subseteq d_batch[t]
    /\ \A x \in d_batch[t] \ loc[t].diffs, y \in loc[t].diffs : x < y
    /\ at[t] = "deqcas" => loc[t].diffs = {}
    /\ at[t] = "reread" => loc[t].diffs # {}
    /\ \E i, j, a : TakenFrom(s, t, i, j, a)

TakenInv == \A t \in Threads : d_stage[t] = "trying" => Taken(Chain, t)

LEMMA ThreadsOrdered ==
    ASSUME QueueAssumption, NEW S \in SUBSET Threads
    PROVE  /\ Ordered(InOrder(S), S) /\ Cardinality(S) \in Nat
           /\ \A a : Ordered(a, S) => InOrder(S) = a
  <1>1. PICK N \in Nat : Threads = 0 .. N
    BY NodesFinite
  <1>2. S \in SUBSET (0 .. N)
    BY <1>1
  <1> QED
    BY <1>2, InOrderIs, FiniteBelow

LEMMA BatchOrderType ==
    ASSUME QueueInv, NEW t \in Threads
    PROVE  /\ BatchOrder(t) \in Seq(Threads)
           /\ \A i \in 1 .. Len(BatchOrder(t)) : BatchOrder(t)[i] \in e_batch[t] \union {t}
  <1>1. PICK S, r : S = e_batch[t] \ {t} /\ r = InOrder(S)
    OBVIOUS
  <1>2. S \in SUBSET Threads
    BY <1>1 DEF QueueInv, SchemeInv, EnqueuesInv
  <1>3. Ordered(r, S) /\ Cardinality(S) \in Nat
    BY <1>1, <1>2, ThreadsOrdered DEF QueueInv
  <1>4. r \in Seq(S)
    BY <1>3 DEF Ordered
  <1>5. r \in Seq(e_batch[t] \union {t}) /\ <<t>> \in Seq(e_batch[t] \union {t})
    BY <1>1, <1>4
  <1>6. BatchOrder(t) = <<t>> \o r
    BY <1>1 DEF BatchOrder
  <1>7. BatchOrder(t) \in Seq(e_batch[t] \union {t})
    BY <1>5, <1>6
  <1>8. e_batch[t] \union {t} \subseteq Threads
    BY DEF QueueInv, SchemeInv, EnqueuesInv
  <1> QED
    BY <1>7, <1>8

LEMMA ValuesChange ==
    ASSUME QueueInv, Next
    PROVE  UNCHANGED val \/ \E t \in Threads : AppendBatch(t)
  <1>1. ASSUME NEW t \in Threads, LinkOwnCopy(t) \/ LinkPublished(t)
        PROVE  UNCHANGED val
    BY <1>1 DEF LinkOwnCopy, LinkPublished, EnqLinkQueue, nodeVars
  <1>2. ASSUME NEW t \in Threads, LinkFirst(t) \/ LinkNext(t)
        PROVE  UNCHANGED val
    BY <1>2 DEF LinkFirst, LinkNext, DeqLinkQueue, nodeVars
  <1>3. ASSUME NEW t \in Threads,
               \/ StartEnqueues(t) \/ PersistEnqueues(t) \/ RollBackEnqueues(t)
               \/ PublishEnqueues(t) \/ FailEnqueues(t) \/ SyncEnqueues(t)
               \/ ReturnEnqueue(t) \/ EnqueueServed(t)
        PROVE  UNCHANGED val
    BY <1>3 DEF StartEnqueues, PersistEnqueues, RollBackEnqueues, PublishEnqueues,
                FailEnqueues, SyncEnqueues, ReturnEnqueue, EnqueueServed, nodeVars, Drain
  <1>4. ASSUME NEW t \in Threads,
               \/ Dequeue(t) \/ StartDequeues(t) \/ ServeDequeue(t) \/ Reread(t)
               \/ PersistDequeues(t) \/ PublishDequeues(t) \/ FailDequeues(t)
               \/ SyncDequeues(t) \/ ReturnDequeue(t) \/ DequeueServed(t)
        PROVE  UNCHANGED val
    BY <1>4 DEF Dequeue, StartDequeues, ServeDequeue, Reread, PersistDequeues,
                PublishDequeues, FailDequeues, SyncDequeues, ReturnDequeue, DequeueServed,
                nodeVars, Drain
  <1>5. ASSUME NEW t \in Threads, NEW v \in Values, Enqueue(t, v)
        PROVE  UNCHANGED val
    BY <1>5 DEF Enqueue, nodeVars
  <1>6. CASE EvictE \/ EvictD
    BY <1>6 DEF EvictE, EvictD, nodeVars
  <1> QED
    BY <1>1, <1>2, <1>3, <1>4, <1>5, <1>6 DEF Next

(* What is in the nodes of an attempt's chain does not change.               *)
LEMMA ValuesStay ==
    ASSUME QueueInv, Next, NEW u \in Threads, HasChain(u)
    PROVE  \A i \in 1 .. Len(loc[u].nodes) : val'[loc[u].nodes[i]] = val[loc[u].nodes[i]]
  <1>1. PICK s : \E k \in 0 .. Len(s) : Held(s, k)
    BY TheChain
  <1>2. PICK k \in 0 .. Len(s) : Held(s, k)
    BY <1>1
  <1>3. PICK r : r = loc[u].nodes
    OBVIOUS
  <1>4. \A i \in 1 .. Len(r) : r[i] \in Nodes /\ r[i][1] = u
    BY <1>2, <1>3, ChainApart
  <1>5. ASSUME NEW t \in Threads, AppendBatch(t)
        PROVE  \A i \in 1 .. Len(r) : val'[r[i]] = val[r[i]]
    <2>1. PICK c, order : Appended(t, c, order)
      BY <1>5, AppendIs
    <2>2. t # u
      BY <2>1 DEF Appended, HasChain
    <2>3. \A n \in ToSet(c) : n[1] = t
      <3>1. c \in Seq(PoolNodes) /\ \A i \in 1 .. Len(c) : c[i] = <<t, cur_entry[t] + i - 1>>
        BY <2>1 DEF Appended
      <3>2. \A i \in 1 .. Len(c) : c[i][1] = t
        BY <3>1
      <3> QED
        BY <3>1, <3>2, InjectiveSeq
    <2>4. \A i \in 1 .. Len(r) : r[i] \in Nodes \ ToSet(c)
      BY <1>4, <2>2, <2>3
    <2> QED
      BY <2>1, <2>4 DEF Appended
  <1>6. UNCHANGED val \/ \E t \in Threads : AppendBatch(t)
    BY ValuesChange
  <1> QED
    BY <1>3, <1>5, <1>6

LEMMA OrderKept ==
    ASSUME QueueInv, OrderInv, Next, SchemeInv'
    PROVE  OrderInv'
  <1> SUFFICES ASSUME NEW t \in Threads, e_stage'[t] = "trying", HasChain(t)'
               PROVE  /\ Len(loc'[t].nodes) = Len(BatchOrder(t)')
                      /\ \A i \in 1 .. Len(loc'[t].nodes) :
                            val'[loc'[t].nodes[i]] = e_param'[BatchOrder(t)'[i]]
    BY DEF OrderInv, OrderOf
  <1>1. CASE AppendBatch(t)
    <2>1. PICK c, order : Appended(t, c, order)
      BY <1>1, AppendIs
    <2>2. e_stage[t] = "trying" /\ e_batch' = e_batch /\ e_param' = e_param
      BY <2>1 DEF Appended, enqVars
    <2>3. order = BatchOrder(t)
      <3>1. loc[t].diffs = e_batch[t] \ {t}
        BY <2>1, <2>2 DEF Appended, QueueInv, LocalInv, LocalOf, HasChain
      <3> QED
        BY <2>1, <3>1 DEF Appended, BatchOrder
    <2>4. BatchOrder(t)' = order
      BY <2>2, <2>3 DEF BatchOrder
    <2>5. loc'[t].nodes = c
      <3>1. loc \in [Threads -> Locals]
        BY DEF QueueInv, DataInv, Locals
      <3> QED
        BY <2>1, <3>1 DEF Appended, Locals
    <2> QED
      BY <2>1, <2>2, <2>4, <2>5 DEF Appended
  <1>2. ASSUME HasChain(t), loc'[t].nodes = loc[t].nodes
        PROVE  /\ Len(loc'[t].nodes) = Len(BatchOrder(t)')
               /\ \A i \in 1 .. Len(loc'[t].nodes) :
                     val'[loc'[t].nodes[i]] = e_param'[BatchOrder(t)'[i]]
    <2>1. e_stage[t] # "out"
      BY <1>2 DEF QueueInv, SchemeInv, PlacesInv, HasChain, Appending
    <2>2. /\ e_stage[t] = "trying" /\ e_batch'[t] = e_batch[t]
          /\ \A x \in e_batch[t] : e_param'[x] = e_param[x]
      BY <2>1, EnqueuesGoOn
    <2>3. PICK c, order : c = loc[t].nodes /\ order = BatchOrder(t)
      OBVIOUS
    <2>4. BatchOrder(t)' = order
      BY <2>2, <2>3 DEF BatchOrder
    <2>5. Len(c) = Len(order) /\ \A i \in 1 .. Len(c) : val[c[i]] = e_param[order[i]]
      BY <1>2, <2>2, <2>3 DEF OrderInv, OrderOf
    <2>6. \A i \in 1 .. Len(c) : order[i] \in e_batch[t]
      <3>1. t \in e_batch[t]
        BY <2>2 DEF QueueInv, SchemeInv, EnqueuesInv, SessionInv
      <3> QED
        BY <2>3, <2>5, <3>1, BatchOrderType
    <2>7. \A i \in 1 .. Len(c) : val'[c[i]] = val[c[i]]
      BY <1>2, <2>3, ValuesStay
    <2> QED
      BY <1>2, <2>2, <2>3, <2>4, <2>5, <2>6, <2>7
  <1>3. CASE Still(t)
    BY <1>2, <1>3 DEF Still, HasChain
  <1>4. CASE PersistEnqueues(t)
    BY <1>2, <1>4 DEF PersistEnqueues, HasChain
  <1> QED
    BY <1>1, <1>3, <1>4, WhoMoves, WhereTo DEF HasChain

(* Thread u serves its next request, x, with answer v, and is at node head.  *)
Serves(u, x, v, head) ==
    /\ x \in loc[u].diffs /\ \A y \in loc[u].diffs : x <= y
    /\ loc'[u].diffs = loc[u].diffs \ {x} /\ loc'[u].head = head
    /\ loc'[u].return_val = [loc[u].return_val EXCEPT ![x] = v]

LEMMA ServedIs ==
    ASSUME QueueInv, NEW u \in Threads, loc[u].diffs # {}
    PROVE  /\ Served(u) \in loc[u].diffs
           /\ \A y \in loc[u].diffs : Served(u) <= y
  <1>1. PICK S : S = loc[u].diffs
    OBVIOUS
  <1>2. S \in SUBSET Nat /\ S # {}
    BY <1>1, NodesFinite DEF QueueInv, DataInv
  <1>3. \E m \in S : \A y \in S : m <= y
    BY <1>2, LeastNatural
  <1>4. Min(S) \in S /\ \A y \in S : Min(S) <= y
    BY <1>3 DEF Min
  <1> QED
    BY <1>1, <1>4 DEF Served

LEMMA AnswerServes ==
    ASSUME QueueInv, NEW u \in Threads, loc[u].diffs # {},
           NEW v, NEW head, Answer(u, v, head)
    PROVE  \E x : Serves(u, x, v, head)
  <1>1. PICK x : x = Served(u)
    OBVIOUS
  <1>2. x \in loc[u].diffs /\ \A y \in loc[u].diffs : x <= y
    BY <1>1, ServedIs
  <1>3. loc' = [loc EXCEPT ![u].return_val[x] = v, ![u].head = head,
                           ![u].diffs = @ \ {x}]
    BY <1>1 DEF Answer
  <1>4. loc \in [Threads -> Locals]
    BY DEF QueueInv, DataInv, Locals
  <1>5. Serves(u, x, v, head)
    BY <1>2, <1>3, <1>4 DEF Locals, Serves
  <1> QED
    BY <1>5

(* What is written of a node, or the emptiness of the queue, is one answer   *)
(* more.                                                                     *)
LEMMA TakenServes ==
    ASSUME QueueInv, DataInv', NEW s, NEW k \in 0 .. Len(s), Held(s, k), Preserved(s),
           NEW u \in Threads, d_stage[u] = "trying", Taken(s, u),
           d_batch'[u] = d_batch[u], d_word' = d_word, at'[u] = "serve",
           NEW x, NEW v, NEW head, Serves(u, x, v, head),
           \/ v = EmptyRet /\ head = loc[u].head
           \/ next[loc[u].head] # Null /\ head = next[loc[u].head] /\ v = val[head]
    PROVE  Taken(s, u)'
  <1>1. PICK S, B, r : S = loc[u].diffs /\ B = d_batch[u] /\ r = loc[u].return_val
    OBVIOUS
  <1>2. PICK S1, r1 : S1 = loc'[u].diffs /\ r1 = loc'[u].return_val
    OBVIOUS
  <1>3. PICK N \in Nat : Threads = 0 .. N
    BY NodesFinite DEF QueueInv
  <1>4. /\ B \in SUBSET (0 .. N) /\ S \in SUBSET B
        /\ r \in [Threads -> Values \union {EmptyRet, NoVal}]
        /\ \A y \in B \ S, z \in S : y < z
    BY <1>1, <1>3 DEF QueueInv, SchemeInv, DequeuesInv, DataInv, Taken
  <1>5. /\ x \in S /\ \A y \in S : x <= y
        /\ S1 = S \ {x} /\ loc'[u].head = head /\ r1 = [r EXCEPT ![x] = v]
    BY <1>1, <1>2 DEF Serves
  <1>6. /\ x \in 0 .. N /\ \A y \in B : y \in Nat
    BY <1>4, <1>5
  <1>7. B \ S1 = (B \ S) \union {x} /\ S1 \subseteq B
    BY <1>4, <1>5
  <1>8. \A y \in B \ S1, z \in S1 : y < z
    <2> SUFFICES ASSUME NEW y \in B \ S1, NEW z \in S1
                 PROVE  y < z
      OBVIOUS
    <2>1. y \in Nat /\ z \in Nat /\ x \in Nat /\ z \in S /\ z # x
      BY <1>4, <1>5, <1>6
    <2>2. y \in B \ S \/ y = x
      BY <1>7
    <2> QED
      BY <1>4, <1>5, <2>1, <2>2
  <1>9. PICK i, j, a : TakenFrom(s, u, i, j, a)
    BY DEF Taken
  <1>10. PICK A, A1 : A = Answered(u) /\ A1 = Answered(u)'
    OBVIOUS
  <1>11. /\ A = {y \in B \ S : r[y] # EmptyRet}
         /\ A1 = {y \in B \ S1 : r1[y] # EmptyRet}
    BY <1>1, <1>2, <1>10 DEF Answered
  <1>12. \A y \in B \ S : y # x /\ r1[y] = r[y] /\ y < x
    BY <1>3, <1>4, <1>5
  <1>13. r1[x] = v
    BY <1>3, <1>4, <1>5, <1>6
  <1>14. /\ i \in 1 .. Len(s) /\ j \in i .. Len(s) /\ Len(s) \in Nat
         /\ s[i] = d_word /\ s[j] = loc[u].head
         /\ Ordered(a, A) /\ Cardinality(A) = j - i
         /\ \A y \in 1 .. j - i : r[a[y]] = val[s[i + y]]
    <2>1. Len(s) \in Nat
      BY ChainFacts DEF QueueInv, Held
    <2> QED
      BY <1>1, <1>9, <1>10, <2>1 DEF TakenFrom
  <1>15. \A y \in 1 .. Len(s) : val'[s[y]] = val[s[y]]
    BY ChainFacts DEF QueueInv, Held, Preserved
  <1>16. A \in SUBSET (0 .. N) /\ \A y \in A : y < x /\ y \in B \ S
    BY <1>4, <1>11, <1>12
  <1>17. CASE v = EmptyRet /\ head = loc[u].head
    <2>1. A1 = A
      BY <1>7, <1>11, <1>12, <1>13, <1>17
    <2>2. \A y \in 1 .. j - i : r1[a[y]] = val'[s[i + y]]
      <3> SUFFICES ASSUME NEW y \in 1 .. j - i
                   PROVE  r1[a[y]] = val'[s[i + y]]
        OBVIOUS
      <3>1. a[y] \in A
        BY <1>14 DEF Ordered
      <3>2. i + y \in 1 .. Len(s)
        BY <1>14
      <3> QED
        BY <1>12, <1>14, <1>15, <1>16, <3>1, <3>2
    <2>3. TakenFrom(s, u, i, j, a)'
      BY <1>2, <1>5, <1>10, <1>14, <1>17, <2>1, <2>2 DEF TakenFrom
    <2> QED
      BY <1>1, <1>2, <1>7, <1>8, <2>3 DEF Taken
  <1>18. CASE next[loc[u].head] # Null /\ head = next[loc[u].head] /\ v = val[head]
    <2>1. j \in 1 .. Len(s)
      BY <1>14
    <2>2. j + 1 \in 1 .. Len(s) /\ head = s[j + 1] /\ v \in Values
      BY <1>14, <1>18, <2>1, BehindIs
    <2>3. v # EmptyRet
      BY <2>2 DEF QueueInv, QueueAssumption
    <2>4. A1 = A \union {x}
      BY <1>7, <1>11, <1>12, <1>13, <2>3
    <2>5. PICK b : b = Append(a, x)
      OBVIOUS
    <2>6. Cardinality(A1) = Cardinality(A) + 1 /\ Ordered(b, A1)
      BY <1>3, <1>6, <1>14, <1>16, <2>4, <2>5, OrderedAppend
    <2>7. /\ j + 1 \in i .. Len(s) /\ Cardinality(A1) = (j + 1) - i
          /\ j - i \in Nat /\ (j + 1) - i = (j - i) + 1
      BY <1>14, <2>2, <2>6
    <2>8. a \in [1 .. j - i -> A]
      BY <1>14 DEF Ordered
    <2>9. /\ \A y \in 1 .. j - i : b[y] = a[y] /\ a[y] \in A
          /\ b[(j + 1) - i] = x
      <3>1. a \in Seq(A) /\ Len(a) = j - i
        BY <2>7, <2>8
      <3>2. \A y \in 1 .. Len(a) : b[y] = a[y] /\ a[y] \in A
        BY <2>5, <3>1
      <3>3. b[Len(a) + 1] = x
        BY <2>5, <3>1
      <3> QED
        BY <2>7, <3>1, <3>2, <3>3
    <2>10. \A y \in 1 .. (j + 1) - i : r1[b[y]] = val'[s[i + y]]
      <3> SUFFICES ASSUME NEW y \in 1 .. (j + 1) - i
                   PROVE  r1[b[y]] = val'[s[i + y]]
        OBVIOUS
      <3>1. CASE y \in 1 .. j - i
        <4>1. i + y \in 1 .. Len(s)
          BY <1>14, <3>1
        <4>2. b[y] = a[y] /\ a[y] \in A
          BY <2>9, <3>1
        <4>3. r1[a[y]] = r[a[y]]
          BY <1>12, <1>16, <4>2
        <4> QED
          BY <1>14, <1>15, <3>1, <4>1, <4>2, <4>3
      <3>2. CASE y = (j + 1) - i
        <4>1. i + y = j + 1
          BY <1>14, <3>2
        <4> QED
          BY <1>13, <1>15, <1>18, <2>2, <2>9, <3>2, <4>1
      <3>3. y \in 1 .. j - i \/ y = (j + 1) - i
        BY <2>7
      <3> QED
        BY <3>1, <3>2, <3>3
    <2>11. TakenFrom(s, u, i, j + 1, b)'
      BY <1>2, <1>5, <1>10, <1>14, <2>2, <2>6, <2>7, <2>10 DEF TakenFrom
    <2> QED
      BY <1>1, <1>2, <1>7, <1>8, <2>11 DEF Taken
  <1> QED
    BY <1>17, <1>18

(* The chain s is the beginning of r, and what is in its nodes is as it was. *)
Extends(r, s) ==
    /\ Len(r) \in Nat /\ Len(r) >= Len(s)
    /\ \A i \in 1 .. Len(s) : r[i] = s[i] /\ val'[s[i]] = val[s[i]]

LEMMA ChainExtends ==
    ASSUME QueueInv, Next, NEW s, NEW k \in 0 .. Len(s), Held(s, k), s = Chain, ChainStep(s)
    PROVE  Extends(Chain', s)
  <1>1. /\ Len(s) \in Nat /\ \A i \in 1 .. Len(s) : s[i] \in ToSet(s)
        /\ s \in Seq(Nodes)
    BY ChainFacts DEF QueueInv, Held
  <1>2. CASE Preserved(s)
    BY <1>1, <1>2 DEF Preserved, Extends
  <1>3. ASSUME NEW t \in Threads, PublishEnqueues(t), Chain' = s \o loc[t].nodes
        PROVE  Extends(Chain', s)
    <2>1. PICK c : c = loc[t].nodes
      OBVIOUS
    <2>2. c \in Seq(Nodes)
      <3>1. c \in Seq(PoolNodes)
        BY <2>1 DEF QueueInv, DataInv
      <3> QED
        BY <3>1 DEF Nodes
    <2>3. val' = val
      BY <1>3 DEF PublishEnqueues, nodeVars
    <2>4. Len(s \o c) = Len(s) + Len(c) /\ \A i \in 1 .. Len(s) : (s \o c)[i] = s[i]
      BY <1>1, <2>2
    <2>5. Len(c) \in Nat
      BY <2>2
    <2> QED
      BY <1>1, <1>3, <2>1, <2>3, <2>4, <2>5 DEF Extends
  <1> QED
    BY <1>2, <1>3 DEF ChainStep

LEMMA TakenStays ==
    ASSUME NEW s, Len(s) \in Nat, NEW r, Extends(r, s), NEW u, Taken(s, u),
           d_batch'[u] = d_batch[u], d_word' = d_word,
           loc'[u].head = loc[u].head, loc'[u].diffs = loc[u].diffs,
           loc'[u].return_val = loc[u].return_val,
           at'[u] = "deqcas" => at[u] = "deqcas" \/ loc[u].diffs = {},
           at'[u] = "reread" => at[u] = "reread" \/ loc[u].diffs # {}
    PROVE  Taken(r, u)'
  <1>1. PICK i, j, a : TakenFrom(s, u, i, j, a)
    BY DEF Taken
  <1>2. Answered(u)' = Answered(u)
    BY DEF Answered
  <1>3. /\ i \in 1 .. Len(s) /\ j \in i .. Len(s)
        /\ s[i] = d_word /\ s[j] = loc[u].head
        /\ Ordered(a, Answered(u)) /\ Cardinality(Answered(u)) = j - i
        /\ \A x \in 1 .. j - i : loc[u].return_val[a[x]] = val[s[i + x]]
    BY <1>1 DEF TakenFrom
  <1>4. /\ i \in 1 .. Len(r) /\ j \in i .. Len(r) /\ j \in 1 .. Len(s)
        /\ \A x \in 1 .. j - i : i + x \in 1 .. Len(s)
    BY <1>3 DEF Extends
  <1>5. /\ r[i] = d_word /\ r[j] = loc[u].head
        /\ \A x \in 1 .. j - i : loc[u].return_val[a[x]] = val'[r[i + x]]
    BY <1>3, <1>4 DEF Extends
  <1>6. TakenFrom(r, u, i, j, a)'
    BY <1>2, <1>3, <1>4, <1>5 DEF TakenFrom
  <1> QED
    BY <1>6 DEF Taken

LEMMA TakenStarts ==
    ASSUME QueueInv, NEW s, NEW k \in 0 .. Len(s), Held(s, k), NEW r, Extends(r, s),
           NEW u \in Threads, StartDequeues(u)
    PROVE  Taken(r, u)'
  <1>1. PICK threads \in SUBSET Threads : Deq!Start(u, threads)
    BY DEF StartDequeues, Deq!Pending
  <1>2. d_batch'[u] = threads /\ d_word' = d_word
    BY <1>1 DEF Deq!Start, Deq!recordVars, QueueInv, SchemeInv, DequeuesInv
  <1>3. loc'[u].head = d_word /\ loc'[u].diffs = threads /\ at'[u] = "deqlink"
    <2>1. loc \in [Threads -> Locals] /\ at \in [Threads -> Labels]
      BY DEF QueueInv, SchemeInv, PlacesInv, DataInv, Locals
    <2>2. PICK d : d = d_batch'[u]
      OBVIOUS
    <2>3. loc' = [loc EXCEPT ![u] = [NoLocals EXCEPT !.head = d_word,
                                        !.return_val = d_result, !.diffs = d]]
      BY <2>2 DEF StartDequeues
    <2> QED
      BY <1>2, <2>1, <2>2, <2>3, NoLocalsType DEF Locals, StartDequeues, GoTo
  <1>4. /\ ToSet(s) = {s[i] : i \in 1 .. Len(s)} /\ d_word \in ToSet(s) /\ Len(s) \in Nat
    BY ChainFacts DEF QueueInv, Held, Durable
  <1>5. PICK i \in 1 .. Len(s) : s[i] = d_word
    BY <1>4
  <1>6. i \in 1 .. Len(r) /\ i \in i .. Len(r) /\ r[i] = d_word /\ i - i = 0
    BY <1>4, <1>5 DEF Extends
  <1>7. Answered(u)' = {}
    BY <1>2, <1>3 DEF Answered
  <1>8. Cardinality({}) = 0
    BY FS_EmptySet
  <1>9. Ordered(<<>>, {})
    <2>1. <<>> \in [1 .. 0 -> {}]
      <3>1. <<>> \in Seq({}) /\ Len(<<>>) = 0
        OBVIOUS
      <3> QED
        BY <3>1
    <2> QED
      BY <1>8, <2>1 DEF Ordered
  <1>10. TakenFrom(r, u, i, i, <<>>)'
    BY <1>2, <1>3, <1>6, <1>7, <1>8, <1>9 DEF TakenFrom
  <1> QED
    BY <1>2, <1>3, <1>10 DEF Taken

LEMMA TakenKept ==
    ASSUME QueueInv, TakenInv, Next, SchemeInv', DataInv'
    PROVE  TakenInv'
  <1>1. PICK s : s = Chain /\ (\E k \in 0 .. Len(s) : Held(s, k)) /\ ChainStep(s)
    BY NextKeepsChain
  <1>2. PICK k \in 0 .. Len(s) : Held(s, k)
    BY <1>1
  <1>3. PICK r : r = Chain'
    OBVIOUS
  <1>4. Extends(r, s) /\ Len(s) \in Nat
    BY <1>1, <1>2, <1>3, ChainExtends, ChainFacts DEF QueueInv, Held
  <1>5. ASSUME NEW u \in Threads, d_stage'[u] = "trying"
        PROVE  Taken(r, u)'
    <2>1. at'[u] \in Removing
      BY <1>5 DEF SchemeInv, PlacesInv
    <2>2. ASSUME at[u] \in Removing
          PROVE  /\ d_stage[u] = "trying" /\ d_batch'[u] = d_batch[u] /\ d_word' = d_word
                 /\ Taken(s, u)
      <3>1. d_stage[u] # "out"
        BY <2>2 DEF QueueInv, SchemeInv, PlacesInv
      <3>2. d_stage[u] = "trying" /\ d_batch'[u] = d_batch[u] /\ d_word' = d_word
        BY <1>5, <3>1, DequeuesGoOn
      <3> QED
        BY <1>1, <3>2 DEF TakenInv
    <2>3. ASSUME at[u] \in Removing, loc'[u] = loc[u],
                 at'[u] = "deqcas" => at[u] = "deqcas" \/ loc[u].diffs = {},
                 at'[u] = "reread" => at[u] = "reread" \/ loc[u].diffs # {}
          PROVE  Taken(r, u)'
      BY <1>4, <2>2, <2>3, TakenStays
    <2>4. CASE Still(u)
      BY <2>1, <2>3, <2>4 DEF Still
    <2>5. CASE StartDequeues(u)
      BY <1>2, <1>4, <2>5, TakenStarts
    <2>6. CASE LinkFirst(u) \/ LinkNext(u) \/ PersistDequeues(u)
      <3>1. /\ at[u] \in Removing /\ loc'[u] = loc[u]
            /\ at'[u] = "deqcas" => loc[u].diffs = {}
            /\ at'[u] = "reread" => loc[u].diffs # {}
        <4>1. at \in [Threads -> Labels]
          BY DEF QueueInv, SchemeInv, PlacesInv
        <4> QED
          BY <2>6, <4>1 DEF LinkFirst, LinkNext, PersistDequeues, GoTo, Removing
      <3> QED
        BY <2>3, <3>1
    <2>7. CASE ServeDequeue(u) \/ Reread(u)
      <3>1. at[u] \in Removing /\ at'[u] = "serve"
        <4>1. at \in [Threads -> Labels]
          BY DEF QueueInv, SchemeInv, PlacesInv
        <4> QED
          BY <2>7, <4>1 DEF ServeDequeue, Reread, GoTo, Removing
      <3>2. Taken(s, u) /\ d_stage[u] = "trying" /\ d_batch'[u] = d_batch[u] /\ d_word' = d_word
        BY <2>2, <3>1
      <3>3. Preserved(s) /\ r = s
        <4>1. Preserved(s)
          BY <1>2, <2>7, RemovingSteps
        <4> QED
          BY <1>3, <4>1 DEF Preserved
      <3>4. loc[u].diffs # {}
        BY <2>7, <3>2 DEF ServeDequeue, Reread, Taken
      <3>5. PICK v, head :
               /\ Answer(u, v, head)
               /\ \/ v = EmptyRet /\ head = loc[u].head
                  \/ /\ next[loc[u].head] # Null /\ head = next[loc[u].head]
                     /\ v = val[head]
        BY <2>7 DEF ServeDequeue, Reread, TakeNode
      <3>6. PICK x : Serves(u, x, v, head)
        BY <3>4, <3>5, AnswerServes
      <3> QED
        BY <1>2, <3>1, <3>2, <3>3, <3>5, <3>6, TakenServes
    <2> QED
      BY <2>1, <2>4, <2>5, <2>6, <2>7, WhoMoves, WhereTo
  <1> QED
    BY <1>3, <1>5 DEF TakenInv

(* The nodes behind the i-th of the chain are those that follow it.          *)
Follow(q, s, i) ==
    DOMAIN q = 1 .. Len(s) - i /\ \A x \in 1 .. Len(s) - i : q[x] = s[i + x]

LEMMA BehindAre ==
    ASSUME QueueAssumption, NEW rec \in EnqRecs, NEW links \in [Nodes -> Words],
           NEW s, IsListFrom(s, MadeGood(rec, links), Null, Guard), NEW i \in 1 .. Len(s),
           NEW n, n = s[i]
    PROVE  Follow(NodesBehind(n, rec, links), s, i)
  <1>1. PICK link : link = MadeGood(rec, links)
    OBVIOUS
  <1>2. link \in [Nodes -> Words] /\ IsListFrom(s, link, Null, Guard) /\ DOMAIN link = Nodes
    BY <1>1, LinksType
  <1>3. /\ s \in Seq(Nodes) /\ Len(s) \in Nat
        /\ \A x \in 1 .. Len(s) : s[x] \in Nodes
        /\ \A x, y \in 1 .. Len(s) : s[x] = s[y] => x = y
        /\ \A x \in 1 .. Len(s) : link[s[x]] = IF x = Len(s) THEN Null ELSE s[x + 1]
    BY <1>2, InjectiveSeq DEF IsListFrom
  <1>4. PICK m, t : m = Len(s) /\ t = SubSeq(s, i, m)
    OBVIOUS
  <1>5. m \in i .. Len(s) /\ m \in 1 .. Len(s)
    BY <1>3, <1>4
  <1>6. \A x \in DOMAIN link : link[x] = IF x = s[m] THEN Null ELSE link[x]
    BY <1>3, <1>4, <1>5
  <1>7. /\ IsListFrom(t, link, Null, s[i]) /\ Len(t) = m - i + 1
        /\ \A x \in 1 .. m - i + 1 : t[x] = s[i + x - 1]
    BY <1>2, <1>4, <1>5, <1>6, ListSegment
  <1>8. t # <<>>
    <2>1. Len(t) >= 1
      BY <1>5, <1>7
    <2> QED
      BY <2>1
  <1>9. /\ IsListFrom(Tail(t), link, Null, link[s[i]])
        /\ Len(Tail(t)) = Len(t) - 1
    <2>1. PICK w : w = s[i]
      OBVIOUS
    <2>2. IsListFrom(t, link, Null, w)
      BY <1>7, <2>1
    <2>3. IsListFrom(Tail(t), link, Null, link[w])
      BY <1>8, <2>2, ListTail, Zenon
    <2>4. t \in Seq(Nodes)
      BY <1>2, <2>2 DEF IsListFrom
    <2>5. Len(Tail(t)) = Len(t) - 1
      BY <1>8, <2>4, HeadTailProperties
    <2> QED
      BY <2>1, <2>3, <2>5
  <1>10. ListFrom(link, Null, link[s[i]], Cardinality(Nodes)) = Tail(t)
    BY <1>2, <1>9, ChainIs
  <1>11. NodesBehind(n, rec, links) = Tail(t)
    BY <1>1, <1>10 DEF NodesBehind
  <1>12. t \in Seq(Nodes) /\ m \in Nat /\ i \in Nat /\ i <= m
    BY <1>2, <1>3, <1>4, <1>5, <1>7 DEF IsListFrom
  <1>13. Tail(t) \in Seq(Nodes) /\ Len(Tail(t)) = m - i
    BY <1>7, <1>8, <1>9, <1>12
  <1>14. DOMAIN Tail(t) = 1 .. m - i
    BY <1>13
  <1>15. ASSUME NEW x \in 1 .. m - i
         PROVE  Tail(t)[x] = s[i + x]
    <2>1. Tail(t)[x] = t[x + 1]
      BY <1>7, <1>8, <1>12
    <2>2. x + 1 \in 1 .. m - i + 1 /\ i + (x + 1) - 1 = i + x
      BY <1>12
    <2> QED
      BY <1>7, <2>1, <2>2
  <1> QED
    BY <1>3, <1>4, <1>11, <1>14, <1>15 DEF Follow

(* The contents c of the queue, with the i-th node of the chain for its head.*)
Holds(c, s, i, value) == c = [x \in 1 .. Len(s) - i |-> value[s[i + x]]]

LEMMA ContentsAre ==
    ASSUME QueueInv, NEW s, NEW k, Linked(s, k), NEW i \in 1 .. Len(s), s[i] = d_word
    PROVE  Holds(Contents, s, i, val)
  <1>1. PICK q : q = QueuedNodes
    OBVIOUS
  <1>2. Follow(q, s, i)
    <2>1. PICK n, rec, links : n = d_word /\ rec = e_word /\ links = next
      OBVIOUS
    <2>2. /\ rec \in EnqRecs /\ links \in [Nodes -> Words] /\ QueueAssumption
          /\ IsListFrom(s, MadeGood(rec, links), Null, Guard) /\ n = s[i]
      BY <2>1 DEF Linked, QueueInv, DataInv
    <2>3. q = NodesBehind(n, rec, links)
      BY <1>1, <2>1 DEF QueuedNodes
    <2> QED
      BY <2>2, <2>3, BehindAre
  <1>3. Contents = [x \in DOMAIN q |-> val[q[x]]]
    BY <1>1 DEF Contents
  <1> QED
    BY <1>2, <1>3 DEF Holds, Follow

LEMMA ContentsBecome ==
    ASSUME QueueInv', NEW s, NEW k, Linked(s, k)', NEW i \in 1 .. Len(s), s[i] = d_word'
    PROVE  Holds(Contents', s, i, val')
  <1>1. PICK q : q = QueuedNodes'
    OBVIOUS
  <1>2. Follow(q, s, i)
    <2>1. /\ e_word' \in EnqRecs /\ next' \in [Nodes -> Words] /\ QueueAssumption
          /\ IsListFrom(s, MadeGood(e_word', next'), Null, Guard)
      BY DEF Linked, QueueInv, DataInv, MadeGood
    <2>2. q = NodesBehind(d_word', e_word', next')
      BY <1>1 DEF QueuedNodes, NodesBehind, MadeGood
    <2> QED
      BY <2>1, <2>2, BehindAre
  <1>3. Contents' = [x \in DOMAIN q |-> val'[q[x]]]
    BY <1>1 DEF Contents
  <1> QED
    BY <1>2, <1>3 DEF Holds, Follow

(* Two sequences one after the other. *)
IsOfLength(f, n) == f = [x \in 1 .. n |-> f[x]]

LEMMA LengthOf ==
    ASSUME NEW n \in Nat, NEW f, IsOfLength(f, n), NEW S, \A x \in 1 .. n : f[x] \in S
    PROVE  f \in Seq(S) /\ Len(f) = n
  <1>1. f \in [1 .. n -> S]
    BY DEF IsOfLength
  <1>2. f \in Seq(S)
    BY <1>1
  <1>3. DOMAIN f = 1 .. n
    BY <1>1
  <1> QED
    BY <1>2, <1>3, LenProperties

LEMMA Joined ==
    ASSUME NEW n \in Nat, NEW m \in Nat, NEW f, NEW g, NEW h,
           IsOfLength(f, n), IsOfLength(g, m), IsOfLength(h, n + m),
           \A x \in 1 .. n : h[x] = f[x], \A x \in 1 .. m : h[n + x] = g[x]
    PROVE  h = f \o g
  <1>1. PICK S : S = {f[x] : x \in 1 .. n} \union {g[x] : x \in 1 .. m}
    OBVIOUS
  <1>2. f \in Seq(S) /\ Len(f) = n /\ g \in Seq(S) /\ Len(g) = m
    <2>1. (\A x \in 1 .. n : f[x] \in S) /\ (\A x \in 1 .. m : g[x] \in S)
      BY <1>1
    <2>2. f \in Seq(S) /\ Len(f) = n
      BY <2>1, LengthOf
    <2>3. g \in Seq(S) /\ Len(g) = m
      BY <2>1, LengthOf
    <2> QED
      BY <2>2, <2>3
  <1>3. PICK r : r = f \o g
    OBVIOUS
  <1>4. r \in Seq(S)
    BY <1>2, <1>3
  <1>5. /\ Len(r) = n + m
        /\ \A x \in 1 .. n : r[x] = f[x]
        /\ \A x \in 1 .. m : r[n + x] = g[x]
    <2>1. Len(r) = n + m
      BY <1>2, <1>3, ConcatProperties
    <2>2. ASSUME NEW x \in 1 .. n
          PROVE  r[x] = f[x]
      <3>1. x \in 1 .. Len(f) + Len(g) /\ x <= Len(f)
        BY <1>2
      <3> QED
        BY <1>2, <1>3, <3>1
    <2>3. ASSUME NEW x \in 1 .. m
          PROVE  r[n + x] = g[x]
      <3>1. x \in 1 .. Len(g)
        BY <1>2
      <3>2. r[Len(f) + x] = g[x]
        BY <1>2, <1>3, <3>1
      <3> QED
        BY <1>2, <3>2
    <2> QED
      BY <2>1, <2>2, <2>3
  <1>6. r = [x \in 1 .. n + m |-> r[x]]
    BY <1>4, <1>5
  <1>7. ASSUME NEW x \in 1 .. n + m
        PROVE  h[x] = r[x]
    <2>1. CASE x <= n
      <3>1. x \in 1 .. n
        BY <2>1
      <3> QED
        BY <1>5, <3>1
    <2>2. CASE x > n
      <3>1. x - n \in 1 .. m /\ n + (x - n) = x
        BY <2>2
      <3> QED
        BY <1>5, <3>1
    <2> QED
      BY <2>1, <2>2
  <1> QED
    BY <1>3, <1>6, <1>7 DEF IsOfLength

(* An effect on the queue of one step.                                       *)
OrderStep ==
    /\ \A t \in Threads :
          /\ EnqueuesTakeEffect(t) => Contents' = Contents \o BatchValues(t)
          /\ DequeuesTakeEffect(t) => Contents = BatchAnswers(t) \o Contents'
    /\ \/ Contents' = Contents
       \/ \E t \in Threads : EnqueuesTakeEffect(t) \/ DequeuesTakeEffect(t)

LEMMA BatchAppended ==
    ASSUME QueueInv, OrderInv, QueueInv', NEW s, NEW k \in 0 .. Len(s), Held(s, k),
           NEW t \in Threads, PublishEnqueues(t), Chain' = s \o loc[t].nodes
    PROVE  Contents' = Contents \o BatchValues(t)
  <1>1. PICK c, r, order : c = loc[t].nodes /\ r = s \o c /\ order = BatchOrder(t)
    OBVIOUS
  <1>2. /\ at[t] = "cas" /\ e_stage[t] = "trying"
        /\ UNCHANGED <<val, next, d_word>>
    BY DEF PublishEnqueues, Enq!Publish, nodeVars, deqVars
  <1>3. /\ Len(c) = Len(order) /\ \A x \in 1 .. Len(c) : val[c[x]] = e_param[order[x]]
    BY <1>1, <1>2 DEF OrderInv, OrderOf, HasChain
  <1>4. order \in Seq(Threads)
    BY <1>1, BatchOrderType
  <1>5. BatchValues(t) = [x \in 1 .. Len(c) |-> val[c[x]]]
    <2>1. DOMAIN order = 1 .. Len(c)
      BY <1>3, <1>4
    <2>2. BatchValues(t) = [x \in DOMAIN order |-> e_param[order[x]]]
      BY <1>1 DEF BatchValues, BatchOrder
    <2> QED
      BY <1>3, <2>1, <2>2
  <1>6. /\ Len(s) \in Nat /\ ToSet(s) = {s[x] : x \in 1 .. Len(s)} /\ s \in Seq(Nodes)
        /\ d_word \in ToSet(s)
    BY ChainFacts DEF QueueInv, Held, Durable
  <1>7. PICK i \in 1 .. Len(s) : s[i] = d_word
    BY <1>6
  <1>8. c \in Seq(PoolNodes) /\ Len(c) \in Nat
    BY <1>1 DEF QueueInv, DataInv
  <1>9. /\ Len(r) = Len(s) + Len(c)
        /\ \A x \in 1 .. Len(s) : r[x] = s[x]
        /\ \A x \in 1 .. Len(c) : r[Len(s) + x] = c[x]
    <2>1. c \in Seq(Nodes)
      BY <1>8 DEF Nodes
    <2> QED
      BY <1>1, <1>6, <1>8, <2>1, SMTT(30)
  <1>10. Holds(Contents, s, i, val)
    BY <1>7, ContentsAre DEF Held
  <1>11. PICK m : Linked(r, m)'
    BY <1>1 DEF QueueInv, ChainInv, Held
  <1>12. i \in 1 .. Len(r) /\ r[i] = d_word'
    BY <1>2, <1>6, <1>7, <1>8, <1>9
  <1>13. Holds(Contents', r, i, val)
    BY <1>2, <1>11, <1>12, ContentsBecome
  <1>14. PICK n, M : n = Len(s) - i /\ M = Len(c) /\ n \in Nat /\ M \in Nat
    <2>1. Len(s) - i \in Nat /\ Len(c) \in Nat
      BY <1>6, <1>7, <1>8
    <2> QED
      BY <2>1
  <1>15. PICK f, g, h : f = Contents /\ g = BatchValues(t) /\ h = Contents'
    OBVIOUS
  <1>16. /\ f = [x \in 1 .. n |-> val[s[i + x]]] /\ g = [x \in 1 .. M |-> val[c[x]]]
         /\ h = [x \in 1 .. n + M |-> val[r[i + x]]]
    <2>1. Len(r) - i = n + M
      BY <1>6, <1>7, <1>9, <1>14
    <2> QED
      BY <1>5, <1>10, <1>13, <1>14, <1>15, <2>1 DEF Holds
  <1>17. /\ DOMAIN f = 1 .. n /\ DOMAIN g = 1 .. M /\ DOMAIN h = 1 .. n + M
         /\ \A x \in 1 .. n : f[x] = val[s[i + x]]
         /\ \A x \in 1 .. M : g[x] = val[c[x]]
         /\ \A x \in 1 .. n + M : h[x] = val[r[i + x]]
    BY <1>16
  <1>18. /\ \A x \in 1 .. n : h[x] = f[x]
         /\ \A x \in 1 .. M : h[n + x] = g[x]
    <2>1. ASSUME NEW x \in 1 .. n
          PROVE  h[x] = f[x]
      <3>1. i + x \in 1 .. Len(s) /\ x \in 1 .. n + M
        BY <1>6, <1>7, <1>14
      <3> QED
        BY <1>9, <1>17, <3>1
    <2>2. ASSUME NEW x \in 1 .. M
          PROVE  h[n + x] = g[x]
      <3>1. i + (n + x) = Len(s) + x /\ n + x \in 1 .. n + M /\ x \in 1 .. Len(c)
        BY <1>6, <1>7, <1>14
      <3>2. h[n + x] = val[r[i + (n + x)]] /\ g[x] = val[c[x]]
        BY <1>17, <3>1
      <3>3. r[Len(s) + x] = c[x]
        BY <1>9, <3>1
      <3> QED
        BY <3>1, <3>2, <3>3
    <2> QED
      BY <2>1, <2>2
  <1>19. IsOfLength(f, n) /\ IsOfLength(g, M) /\ IsOfLength(h, n + M)
    BY <1>16 DEF IsOfLength
  <1>20. h = f \o g
    <2>1. n \in Nat /\ M \in Nat
      BY <1>14
    <2> QED
      BY <2>1, <1>18, <1>19, Joined
  <1> QED
    BY <1>15, <1>20

LEMMA AnswersTaken ==
    ASSUME QueueInv, TakenInv, QueueInv', NEW s, NEW k \in 0 .. Len(s), Held(s, k), s = Chain,
           Preserved(s), NEW t \in Threads, PublishDequeues(t)
    PROVE  Contents = BatchAnswers(t) \o Contents'
  <1>1. /\ at[t] = "deqcas" /\ d_stage[t] = "trying" /\ d_word' = loc[t].head
    BY DEF PublishDequeues, Deq!Publish
  <1>2. Taken(s, t)
    BY <1>1 DEF TakenInv
  <1>3. PICK i, j, a : TakenFrom(s, t, i, j, a)
    BY <1>2 DEF Taken
  <1>4. /\ i \in 1 .. Len(s) /\ j \in i .. Len(s) /\ s[i] = d_word /\ s[j] = d_word'
        /\ Ordered(a, Answered(t)) /\ Cardinality(Answered(t)) = j - i
        /\ \A x \in 1 .. j - i : loc[t].return_val[a[x]] = val[s[i + x]]
    BY <1>1, <1>3 DEF TakenFrom
  <1>5. Len(s) \in Nat /\ (\A x \in 1 .. Len(s) : val'[s[x]] = val[s[x]])
    BY ChainFacts DEF QueueInv, Held, Preserved
  <1>6. BatchAnswers(t) = [x \in 1 .. j - i |-> val[s[i + x]]]
    <2>1. PICK A : A = Answered(t)
      OBVIOUS
    <2>2. A = {x \in d_batch[t] : loc[t].return_val[x] # EmptyRet}
      BY <1>1, <1>2, <2>1 DEF Answered, Taken
    <2>3. A \in SUBSET Threads
      BY <2>2 DEF QueueInv, SchemeInv, DequeuesInv
    <2>4. InOrder(A) = a
      BY <1>4, <2>1, <2>3, ThreadsOrdered DEF QueueInv
    <2>5. DOMAIN a = 1 .. j - i
      BY <1>4, <2>1 DEF Ordered
    <2>6. BatchAnswers(t) = [x \in DOMAIN a |-> loc[t].return_val[a[x]]]
      BY <2>2, <2>4 DEF BatchAnswers
    <2> QED
      BY <1>4, <2>5, <2>6
  <1>7. Holds(Contents, s, i, val)
    BY <1>4, ContentsAre DEF Held
  <1>8. j \in 1 .. Len(s)
    BY <1>4, <1>5
  <1>9. PICK m : Linked(s, m)'
    BY DEF QueueInv, ChainInv, Held, Preserved
  <1>10. Holds(Contents', s, j, val')
    BY <1>4, <1>8, <1>9, ContentsBecome
  <1>11. PICK n, M : n = j - i /\ M = Len(s) - j /\ n \in Nat /\ M \in Nat
    <2>1. j - i \in Nat /\ Len(s) - j \in Nat
      BY <1>4, <1>5
    <2> QED
      BY <2>1
  <1>12. PICK f, g, h : f = BatchAnswers(t) /\ g = Contents' /\ h = Contents
    OBVIOUS
  <1>13. /\ f = [x \in 1 .. n |-> val[s[i + x]]] /\ g = [x \in 1 .. M |-> val'[s[j + x]]]
         /\ h = [x \in 1 .. n + M |-> val[s[i + x]]]
    <2>1. Len(s) - i = n + M
      BY <1>4, <1>5, <1>11
    <2> QED
      BY <1>6, <1>7, <1>10, <1>11, <1>12, <2>1 DEF Holds
  <1>14. /\ \A x \in 1 .. n : h[x] = f[x]
         /\ \A x \in 1 .. M : h[n + x] = g[x]
    <2>1. ASSUME NEW x \in 1 .. n
          PROVE  h[x] = f[x]
      <3>1. x \in 1 .. n + M
        BY <1>11
      <3> QED
        BY <1>13, <3>1
    <2>2. ASSUME NEW x \in 1 .. M
          PROVE  h[n + x] = g[x]
      <3>1. i + (n + x) = j + x /\ n + x \in 1 .. n + M /\ j + x \in 1 .. Len(s)
        BY <1>4, <1>5, <1>11
      <3> QED
        BY <1>5, <1>13, <3>1
    <2> QED
      BY <2>1, <2>2
  <1>15. IsOfLength(f, n) /\ IsOfLength(g, M) /\ IsOfLength(h, n + M)
    BY <1>13 DEF IsOfLength
  <1>16. h = f \o g
    <2>1. n \in Nat /\ M \in Nat
      BY <1>11
    <2> QED
      BY <2>1, <1>14, <1>15, Joined
  <1> QED
    BY <1>12, <1>16

LEMMA NothingChanges ==
    ASSUME QueueInv, QueueInv', NEW s, NEW k \in 0 .. Len(s), Held(s, k), s = Chain,
           Preserved(s), d_word' = d_word
    PROVE  Contents' = Contents
  <1>1. /\ Len(s) \in Nat /\ ToSet(s) = {s[x] : x \in 1 .. Len(s)}
        /\ d_word \in ToSet(s)
    <2>1. Linked(s, k) /\ QueueAssumption /\ DataInv /\ d_word \in ToSet(s)
      BY DEF QueueInv, Held, Durable
    <2> QED
      BY <2>1, ChainFacts
  <1>2. PICK i \in 1 .. Len(s) : s[i] = d_word
    BY <1>1
  <1>3. \A x \in 1 .. Len(s) : val'[s[x]] = val[s[x]]
    BY <1>1 DEF Preserved
  <1>4. Holds(Contents, s, i, val)
    BY <1>2, ContentsAre DEF Held
  <1>5. PICK m : Linked(s, m)'
    BY DEF QueueInv, ChainInv, Held, Preserved
  <1>6. Holds(Contents', s, i, val')
    BY <1>2, <1>5, ContentsBecome
  <1>7. \A x \in 1 .. Len(s) - i : val'[s[i + x]] = val[s[i + x]]
    <2>1. \A x \in 1 .. Len(s) - i : i + x \in 1 .. Len(s)
      BY <1>1
    <2> QED
      BY <1>3, <2>1
  <1> QED
    BY <1>4, <1>6, <1>7 DEF Holds

LEMMA NextKeepsOrder ==
    ASSUME QueueInv, OrderInv, TakenInv, Next, QueueInv'
    PROVE  OrderStep
  <1>1. SchemeInv' /\ DataInv'
    BY DEF QueueInv
  <1>2. PICK s : s = Chain /\ (\E k \in 0 .. Len(s) : Held(s, k)) /\ ChainStep(s)
    BY <1>1, NextKeepsChain
  <1>3. PICK k \in 0 .. Len(s) : Held(s, k)
    BY <1>2
  <1>4. ASSUME NEW t \in Threads, EnqueuesTakeEffect(t)
        PROVE  Contents' = Contents \o BatchValues(t)
    <2>1. PublishEnqueues(t)
      BY <1>1, <1>4, TakingEffect
    <2>2. Chain' = s \o loc[t].nodes
      BY <1>1, <1>3, <2>1, PublishSteps
    <2> QED
      BY <1>3, <2>1, <2>2, BatchAppended
  <1>5. ASSUME NEW t \in Threads, DequeuesTakeEffect(t)
        PROVE  Contents = BatchAnswers(t) \o Contents'
    <2>1. PublishDequeues(t)
      BY <1>1, <1>5, TakingEffect
    <2>2. Preserved(s)
      BY <1>1, <1>3, <2>1, EndingSteps
    <2> QED
      BY <1>2, <1>3, <2>1, <2>2, AnswersTaken
  <1>6. ASSUME \A t \in Threads : ~EnqueuesTakeEffect(t) /\ ~DequeuesTakeEffect(t)
        PROVE  Contents' = Contents
    <2>1. Preserved(s)
      BY <1>1, <1>2, <1>6, TakingEffect DEF ChainStep
    <2>2. d_word' = d_word
      BY <1>6, DequeuesGoOn
    <2> QED
      BY <1>2, <1>3, <2>1, <2>2, NothingChanges
  <1> QED
    BY <1>4, <1>5, <1>6 DEF OrderStep

-----------------------------------------------------------------------------
(* Answers that the queue is empty                                           *)

(* An attempt has met the tail of now, and one that has found no node behind *)
(* the one it has come to was at the tail, or that node has a link by now.   *)
Seen ==
    \A t \in Threads :
        /\ at[t] \in Serving => e_word.tail \in tails[t]
        /\ at[t] = "reread" => next[loc[t].head] # Null \/ loc[t].head \in tails[t]

LEMMA SeenKept ==
    ASSUME QueueInv, Next, SchemeInv', DataInv', Seen, WatchTails
    PROVE  Seen'
  <1>1. PICK s : s = Chain /\ (\E k \in 0 .. Len(s) : Held(s, k)) /\ ChainStep(s)
    BY NextKeepsChain
  <1>2. PICK k \in 0 .. Len(s) : Held(s, k)
    BY <1>1
  <1>3. \A t \in Threads : at'[t] \in Serving =>
           e_word'.tail \in tails'[t] /\ (at[t] # "out" => tails[t] \subseteq tails'[t])
    BY DEF WatchTails
  <1>4. ASSUME NEW n \in ToSet(s), next[n] # Null
        PROVE  next'[n] # Null
    <2>1. CASE Preserved(s)
      BY <1>4, <2>1 DEF Preserved
    <2>2. ASSUME NEW t \in Threads, PublishEnqueues(t)
          PROVE  next' = next
      BY <2>2 DEF PublishEnqueues, nodeVars
    <2> QED
      BY <1>1, <1>4, <2>1, <2>2 DEF ChainStep
  <1>5. ASSUME NEW t \in Threads, at'[t] = "reread"
        PROVE  next'[loc'[t].head] # Null \/ loc'[t].head \in tails'[t]
    <2>1. CASE Still(t)
      <3>1. at[t] = "reread" /\ loc'[t] = loc[t]
        BY <1>5, <2>1 DEF Still
      <3>2. loc[t].head \in ToSet(s)
        BY <1>2, <3>1 DEF Held, Attempts, AttemptOf, Removing
      <3> QED
        BY <1>3, <1>4, <1>5, <3>1, <3>2 DEF Seen, Serving
    <2>2. CASE LinkNext(t)
      <3>1. PICK head : head = loc[t].head
        OBVIOUS
      <3>2. /\ at[t] = "serve" /\ loc' = loc /\ e_word' = e_word /\ next[head] = Null
            /\ DeqLinkQueue(t, head)
        BY <2>2, <3>1 DEF LinkNext, enqVars
      <3>3. e_word.first = Null \/ next'[e_word.first] # Null
        BY <1>2, <3>2, DeqLinks
      <3>4. /\ Len(s) \in Nat /\ ToSet(s) = {s[i] : i \in 1 .. Len(s)}
            /\ e_word.tail = s[Len(s)]
            /\ \A i \in 1 .. Len(s) : s[i] # Null
            /\ k # 0 => k < Len(s) /\ e_word.first = s[k]
            /\ \A i \in 1 .. Len(s) :
                  i # k => next[s[i]] = IF i = Len(s) THEN Null ELSE s[i + 1]
        BY <1>2, ChainFacts DEF QueueInv, Held
      <3>5. head \in ToSet(s)
        BY <1>2, <3>1, <3>2 DEF Held, Attempts, AttemptOf, Removing
      <3>6. PICK i \in 1 .. Len(s) : head = s[i]
        BY <3>4, <3>5
      <3>7. CASE i = Len(s)
        <4>1. e_word.tail \in tails'[t] /\ head = e_word.tail
          BY <1>3, <1>5, <3>2, <3>4, <3>6, <3>7 DEF Serving
        <4> QED
          BY <3>1, <3>2, <4>1
      <3>8. CASE i # Len(s)
        <4>1. i + 1 \in 1 .. Len(s)
          BY <3>4, <3>8
        <4>2. i = k
          BY <3>2, <3>4, <3>6, <3>8, <4>1
        <4>3. k # 0 /\ e_word.first = head /\ head # Null
          BY <3>4, <3>6, <4>2
        <4> QED
          BY <3>1, <3>2, <3>3, <4>3
      <3> QED
        BY <3>7, <3>8
    <2> QED
      BY <1>5, <2>1, <2>2, WhoMoves, WhereTo
  <1> QED
    BY <1>3, <1>5 DEF Seen, Serving

-----------------------------------------------------------------------------
(* The theorems                                                              *)

HistoryInv == QueueInv /\ OrderInv /\ TakenInv /\ Seen

LEMMA HistoryStarts == MCInit => HistoryInv
  <1> SUFFICES ASSUME MCInit
               PROVE  HistoryInv
    OBVIOUS
  <1>1. Init
    BY DEF MCInit
  <1>2. QueueInv
    BY <1>1, InitHolds, QueueAssumption
  <1>3. \A t \in Threads : at[t] = "out" /\ e_stage[t] = "out" /\ d_stage[t] = "out"
    BY <1>1 DEF Init, Enq!Init, Deq!Init
  <1>4. OrderInv
    BY <1>3 DEF OrderInv, OrderOf
  <1>5. TakenInv
    BY <1>3 DEF TakenInv
  <1>6. Seen
    BY <1>3 DEF Seen, Serving
  <1> QED
    BY <1>2, <1>4, <1>5, <1>6 DEF HistoryInv

LEMMA HistoryStep == HistoryInv /\ MCNext => HistoryInv' /\ OrderStep
  <1> SUFFICES ASSUME HistoryInv, MCNext
               PROVE  HistoryInv' /\ OrderStep
    OBVIOUS
  <1>1. QueueInv /\ OrderInv /\ TakenInv /\ Seen
    BY DEF HistoryInv
  <1>2. Next /\ WatchTails
    BY DEF MCNext
  <1>3. QueueInv'
    BY <1>1, <1>2, NextHolds
  <1>4. SchemeInv' /\ DataInv'
    BY <1>3 DEF QueueInv
  <1>5. OrderInv'
    BY <1>1, <1>2, <1>4, OrderKept
  <1>6. TakenInv'
    BY <1>1, <1>2, <1>4, TakenKept
  <1>7. Seen'
    BY <1>1, <1>2, <1>4, SeenKept
  <1>8. OrderStep
    BY <1>1, <1>2, <1>3, NextKeepsOrder
  <1> QED
    BY <1>3, <1>5, <1>6, <1>7, <1>8 DEF HistoryInv

LEMMA HistoryStutters == HistoryInv /\ UNCHANGED MCVars => HistoryInv'
  <1> SUFFICES ASSUME HistoryInv, UNCHANGED MCVars
               PROVE  HistoryInv'
    OBVIOUS
  <1>1. QueueInv /\ OrderInv /\ TakenInv /\ Seen
    BY DEF HistoryInv
  <1>2. UNCHANGED vars /\ tails' = tails
    BY DEF MCVars
  <1>3. UNCHANGED <<e_stage, e_param, e_batch, e_word, d_stage, d_batch, d_word, val, next,
                    at, loc>>
    BY <1>2 DEF vars, enqVars, deqVars, nodeVars
  <1>4. QueueInv'
    BY <1>1, <1>2, NextHolds
  <1>5. OrderInv'
    BY <1>1, <1>3 DEF OrderInv, OrderOf, HasChain, BatchOrder
  <1>6. TakenInv'
    <2>1. Chain' = Chain
      BY <1>3 DEF Chain, MadeGood
    <2>2. ASSUME NEW t \in Threads, d_stage'[t] = "trying"
          PROVE  Taken(Chain, t)'
      <3>1. PICK c : c = Chain
        OBVIOUS
      <3>2. Taken(c, t)
        BY <1>1, <1>3, <2>2, <3>1 DEF TakenInv
      <3>3. Answered(t)' = Answered(t)
        BY <1>3 DEF Answered
      <3>4. PICK i, j, a : TakenFrom(c, t, i, j, a)
        BY <3>2 DEF Taken
      <3>5. TakenFrom(c, t, i, j, a)'
        BY <1>3, <3>3, <3>4 DEF TakenFrom
      <3>6. Taken(c, t)'
        BY <1>3, <3>2, <3>5 DEF Taken
      <3> QED
        BY <2>1, <3>1, <3>6
    <2> QED
      BY <2>2 DEF TakenInv
  <1>7. Seen'
    BY <1>1, <1>2, <1>3 DEF Seen
  <1> QED
    BY <1>4, <1>5, <1>6, <1>7 DEF HistoryInv

LEMMA HistoryHolds == MCSpec => []HistoryInv
  <1>1. HistoryInv /\ [MCNext]_MCVars => HistoryInv'
    BY HistoryStep, HistoryStutters
  <1> QED
    BY HistoryStarts, <1>1, PTL DEF MCSpec

(* Every attempt works on nodes, requests and results that exist, and no     *)
(* pool ever has more nodes out than it holds (pwfcombqueue.h:22-103).       *)
THEOREM QueueTypes == MCSpec => []TypeOK
  <1>1. HistoryInv => TypeOK
    BY InvariantTypes DEF HistoryInv
  <1> QED
    BY <1>1, HistoryHolds, PTL

(* Whatever a crash leaves of PWFqueue is a whole queue, unless the head is  *)
(* ahead of the tail (pwfcombqueue.c:231, 302, 322).                         *)
THEOREM QueueLeftWhole == MCSpec => []WholeAfterCrash
  <1>1. HistoryInv => WholeAfterCrash
    BY InvariantWhole DEF HistoryInv
  <1> QED
    BY <1>1, HistoryHolds, PTL

(* PWFqueue is first in, first out, batch by batch, and nothing but the two  *)
(* compare-and-swaps changes what is in it (pwfcombqueue.c:319, 457).        *)
THEOREM QueueInOrder == MCSpec => QueueOrder
  <1>1. HistoryInv /\ [MCNext]_MCVars => [OrderStep]_vars
    <2>1. UNCHANGED MCVars => UNCHANGED vars
      BY DEF MCVars
    <2> QED
      BY <2>1, HistoryStep
  <1>2. [][OrderStep]_vars => QueueOrder
    BY PTL DEF QueueOrder, OrderStep
  <1> QED
    BY <1>1, <1>2, HistoryHolds, PTL DEF MCSpec

(* A dequeue that could still take effect answers that the queue is empty    *)
(* only if the node it has come to was the tail at some instant since its    *)
(* attempt has begun, however late the links are written                     *)
(* (pwfcombqueue.c:29-45, 420-426).                                          *)
THEOREM EmptyAnswersAreHonest == MCSpec => EmptyAnswersHonest
  <1>1. HistoryInv /\ [MCNext]_MCVars =>
           [\A t \in Threads :
               at[t] = "reread" /\ at'[t] = "serve" /\ d_stage[t] = "trying"
                   => next[loc[t].head] # Null \/ loc[t].head \in tails[t]]_MCVars
    BY DEF HistoryInv, Seen
  <1> QED
    BY <1>1, HistoryHolds, PTL DEF MCSpec, EmptyAnswersHonest

-----------------------------------------------------------------------------
(* The behaviours the run pwf_structures explores                            *)

(* A step of the structures is a step of the queue, or leaves it alone.      *)
LEMMA QueueSteps == StructuresSpec => MCSpec
  <1>1. StructuresInit => MCInit
    BY DEF StructuresInit
  <1>2. [StructuresNext]_<<structure, stackVars, MCVars>> => [MCNext]_MCVars
    BY DEF StructuresNext
  <1> QED
    BY <1>1, <1>2, PTL DEF StructuresSpec, MCSpec

(* What was proved of the queue alone, of the behaviours that run explores:  *)
(* a crash leaves a whole queue unless the head is ahead of the tail, the    *)
(* queue is first in, first out, and it is called empty only if it was       *)
(* (pwfcombqueue.c:29-45, 319, 420-457).                                     *)
THEOREM QueueOfStructures ==
    StructuresSpec =>
        []WholeAfterCrash /\ QueueOrder /\ EmptyAnswersHonest
  BY QueueSteps, QueueLeftWhole, QueueInOrder, EmptyAnswersAreHonest, PTL

-----------------------------------------------------------------------------
(* PWFStack, of which PWFStackProofs says the rest                           *)

StackProofs == INSTANCE PWFStackProofs WITH
    val <- s_val, next <- s_next, cur_entry <- s_entry, at <- s_at, loc <- s_loc

LEMMA StackConstants == StackProofs!NodesAssumption
  BY StackAssumption
     DEF Stack!NodesAssumption, StackProofs!NodesAssumption, Stack!Nodes, StackProofs!Nodes,
         Stack!Words, StackProofs!Words, Stack!Threads, StackProofs!Threads

(* The steps of the structures are steps of the stack, or leave it alone.    *)
LEMMA StackSteps == StructuresSpec => StackProofs!Spec
  <1>1. StructuresInit => StackProofs!Init
    BY DEF StructuresInit, Stack!MCInit,
           Stack!Init, Stack!Comb!Init, Stack!Threads, Stack!Nodes,
           Stack!EmptyRet, Stack!NoLocals, StackProofs!Init,
           StackProofs!Comb!Init, StackProofs!Threads, StackProofs!Nodes,
           StackProofs!EmptyRet, StackProofs!NoLocals
  <1>2. [StructuresNext]_<<structure, stackVars, MCVars>> => [Stack!Next]_Stack!vars
    BY DEF StructuresNext, stackVars, Stack!MCNext, Stack!vars, Stack!combVars,
           Stack!nodeVars, Stack!poolVars
  <1>3. [Stack!Next]_Stack!vars => [StackProofs!Next]_StackProofs!vars
    BY DEF
           Stack!Push, Stack!Pop, Stack!Start, Stack!Serving,
           Stack!SetAside, Stack!CanAlloc, Stack!AllocatedNode,
           Stack!Alloc, Stack!Listed, Stack!serialPush, Stack!EndPushes,
           Stack!Discounted, Stack!serialPop, Stack!FirstNodes,
           Stack!recycleList, Stack!Leave, Stack!ReturnedPushes,
           Stack!Abandon, Stack!FlushedLines, Stack!Persist,
           Stack!Publish, Stack!FailToPublish, Stack!FlushS,
           Stack!ReturnOwn, Stack!ReturnServed, Stack!Evict, Stack!Next,
           Stack!vars, Stack!combVars, Stack!nodeVars, Stack!poolVars,
           Stack!Threads, Stack!Nodes, Stack!Words, Stack!Line,
           Stack!EmptyRet, Stack!NoLocals, Stack!Min, Stack!ToSet,
           Stack!Reverse, Stack!ListFrom, Stack!Comb!Pending,
           Stack!Comb!Invoke, Stack!Comb!Start, Stack!Comb!Publish,
           Stack!Comb!GiveUp, Stack!Comb!Synced, Stack!Comb!Sync,
           Stack!Comb!ReturnOwn, Stack!Comb!ReturnServed,
           Stack!Comb!Evict, Stack!Comb!callVars, Stack!Comb!recordVars,
           StackProofs!Push, StackProofs!Pop, StackProofs!Start,
           StackProofs!Serving, StackProofs!SetAside,
           StackProofs!CanAlloc, StackProofs!AllocatedNode,
           StackProofs!Alloc, StackProofs!Listed, StackProofs!serialPush,
           StackProofs!EndPushes, StackProofs!Discounted,
           StackProofs!serialPop, StackProofs!FirstNodes,
           StackProofs!recycleList, StackProofs!Leave,
           StackProofs!ReturnedPushes, StackProofs!Abandon,
           StackProofs!FlushedLines, StackProofs!Persist,
           StackProofs!Publish, StackProofs!FailToPublish,
           StackProofs!FlushS, StackProofs!ReturnOwn,
           StackProofs!ReturnServed, StackProofs!Evict, StackProofs!Next,
           StackProofs!vars, StackProofs!combVars, StackProofs!nodeVars,
           StackProofs!poolVars, StackProofs!Threads, StackProofs!Nodes,
           StackProofs!Words, StackProofs!Line, StackProofs!EmptyRet,
           StackProofs!NoLocals, StackProofs!Min, StackProofs!ToSet,
           StackProofs!Reverse, StackProofs!ListFrom,
           StackProofs!Comb!Pending, StackProofs!Comb!Invoke,
           StackProofs!Comb!Start, StackProofs!Comb!Publish,
           StackProofs!Comb!GiveUp, StackProofs!Comb!Synced,
           StackProofs!Comb!Sync, StackProofs!Comb!ReturnOwn,
           StackProofs!Comb!ReturnServed, StackProofs!Comb!Evict,
           StackProofs!Comb!callVars, StackProofs!Comb!recordVars
  <1> QED
    BY <1>1, <1>2, <1>3, PTL DEF StructuresSpec, StackProofs!Spec

(* Both structures keep to the types of their variables: a stack's result is *)
(* a value that was pushed, or says that the stack was empty, and the lines  *)
(* of an attempt fit its arrays (pwfcombstack.c, pwfcombqueue.c).            *)
THEOREM StructuresTypes == StructuresSpec => []TypesOK
  <1>1. StackProofs!Spec => []StackProofs!TypeOK
    BY StackConstants, StackProofs!StackTypes
  <1>2. StackProofs!TypeOK => Stack!TypeOK
    BY DEF Stack!TypeOK, StackProofs!TypeOK, Stack!Threads, StackProofs!Threads,
           Stack!Nodes, StackProofs!Nodes, Stack!Words, StackProofs!Words,
           Stack!EmptyRet, StackProofs!EmptyRet
  <1>3. Stack!TypeOK /\ TypeOK => TypesOK
    BY DEF TypesOK
  <1> QED
    BY <1>1, <1>2, <1>3, StackSteps, QueueSteps, QueueTypes, PTL

(* serialPush, recycleList and line 314: no node of the stack is in two      *)
(* places, although failed attempts give back what they pushed by walking a  *)
(* list, and no node of a pool is one a crash may bring back                 *)
(* (pwfcombstack.c:135-142, 314-340).                                        *)
THEOREM StackNodesApart == StructuresSpec => []NodesInOnePlace
  <1>1. StackProofs!Spec => []StackProofs!NodesInOnePlace
    BY StackConstants, StackProofs!NodesApart
  <1>2. StackProofs!NodesInOnePlace => NodesInOnePlace
    BY DEF NodesInOnePlace,
           Stack!NodesInOnePlace, Stack!Cardinality, Stack!InPool,
           Stack!InStack, Stack!NodesFrom, Stack!FirstNodes,
           Stack!ListFrom, Stack!Pushed, Stack!Popped, Stack!IsInjective,
           Stack!ToSet, Stack!Threads, Stack!Nodes,
           StackProofs!NodesInOnePlace, StackProofs!Cardinality,
           StackProofs!InPool, StackProofs!InStack,
           StackProofs!NodesFrom, StackProofs!FirstNodes,
           StackProofs!ListFrom, StackProofs!Pushed, StackProofs!Popped,
           StackProofs!IsInjective, StackProofs!ToSet,
           StackProofs!Threads, StackProofs!Nodes
  <1> QED
    BY <1>1, <1>2, StackSteps, PTL
=============================================================================
