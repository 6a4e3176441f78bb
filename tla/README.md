# Verification of PersistentCombining

TLA+ models of the persistent combining objects in this repository and of the library under them, the TLC
runs that check them on small instances, and TLAPS proofs for every number of threads. The source
the models refer to is under `src/`; a comment such as "line 144" in a module means a line of the file
the module's header names, and `PROJECT.json` maps every definition to its lines.

To check a model: `tlc -workers 2 -config PBComb.cfg PBCombSessions.tla` (the runs and their modules are
in the table of section 4). To check the proofs: `tlapm PBCombProofs.tla`, and the same with
`LinkedListsProofs`, `PBStackProofs`, `PBStructuresProofs`, `PWFCombProofs`, `PWFStackProofs`,
`PWFStructuresProofs` and `LibraryProofs`.

## 1. The system

The library simulates a sequential object that many threads share and that survives a crash of the
machine. A thread announces its operation in memory; one thread, the *combiner*, applies all announced
operations to a copy of the object, flushes the copy to non-volatile memory (NVM) and then switches a
durable pointer to it. One flush thus pays for many operations.

| Component | Files (under `src/libconcurrent/`) | State | Operations | Talks to |
|---|---|---|---|---|
| PBcomb, blocking | `concurrent/pbcomb.c`, `includes/pbcomb.h` | requests, lock word, `lock_value`, state records, `last_state` in NVM, a pool of 2 records per thread | `PBCombStructInit`, `PBCombThreadStateInit`, `PBCombApplyOp`, setters of the hooks | calls `sfunc`, `final_persist`, `after_persist` of the structure built on it |
| PWFcomb, wait-free | `concurrent/pwfcomb.c`, `includes/pwfcomb.h` | requests, activate bits, records, `S` = (index, number) in NVM, `flush`, `comb_round` | `PWFCombInit`, `PWFCombApplyOp` | calls `sfunc` |
| PBstack | `concurrent/pbcombstack.c` | head, linked nodes, shared pool, arrays of the combiner | push, pop, two hooks | PBcomb, pool |
| PBqueue | `concurrent/pbcombqueue.c` | first, last, `aux`, guard, linked nodes, pools per thread | enqueue, dequeue, two hooks | two PBcomb objects, pool |
| Serial heap | `includes/heap.h` | level, position, size, array | insert, delete minimum, get minimum | - |
| PBheap | `concurrent/pbcombheap.c` | a `HeapState` as PBcomb's state | as the serial heap | PBcomb, heap |
| PWFstack, PWFqueue | `concurrent/pwfcombstack.c`, `pwfcombqueue.c` | as PWFcomb, with nodes | push/pop, enqueue/dequeue | PWFcomb's scheme, pool |
| Pool | `primitives/pool.c` | blocks, counters, recycle list | allocate, recycle, rollback, destroy | all linked structures |
| Barrier | `primitives/barrier.c` | two counters, two gates | set, wait, leave, last leave | thread library, benchmarks |
| Thread library, fibers | `primitives/threadtools.c`, `uthreads.c` | thread table, fibers, start/join barrier | start, join, spawn, yield | barrier |
| Toggle vectors | `includes/tvec.h` | bits | set, reverse, and, or, xor, copy, search, fetch-and-add | PWF objects |
| Primitives, backoff, random numbers, statistics, options | `primitives/*.c` | - | atomic instructions, flush, drain | all |
| Benchmarks and scripts | `src/benchmarks/`, `src/*.sh` | - | one loop per thread | all objects |

What is hard:

* *Interleavings.* A waiter reads its result through a pointer to a record whose owner may already be
  reusing it; a wait-free thread copies a record that is being rewritten, works on the torn copy and finds
  out later; two queue combiners work on one list; a thread walks a list of nodes another one recycles.
* *Crashes.* The cache may write a line to NVM at any time, in any order; only flush and drain force it.
  The code has no recovery function, so the question is what image a crash leaves.
* *Wrap and reuse.* A lock word of 32 bits whose value waiters compare by +1 and +2, sequence numbers of
  40 bits, two records per thread.
* *Rare cases of long sequences*: elimination, recycling, rollbacks over blocks, stale heap slots, a
  program started again while threads of the last start are still leaving.

What makes each component correct is stated under the runs (section 4). `PROJECT.json` lists the hazards
line by line, with the properties that cover each.

## 2. The modules

```
 abstract      DurableObject   BufferedObject   FIFOQueue
                 ^      ^        ^       ^         ^
                 |      |        |       |         |
 code          PBComb   |     PWFComb    |         |      Heap <- HeapOps   TVec <- ToggleOps
                 |      |        |       |         |       ^
                 v      |        v       |         |       |      SynchBarrier
 interfaces  CombiningSessions  WaitFreeSessions   |       |           ^
                 ^      |        ^       |         |       |           |
                 |      |        |       |         |       |      ThreadTools      Pool
 code          PBStack -+      PWFStack -+         |       |
               PBQueue ---------------------------+       |
               PBHeap -------------------------------------+
                               PWFQueue (properties of its own)
```

An arrow upwards from a structure to an interface means "is built on", one from `PBComb` or `PWFComb` down
to it, and every arrow to an abstract module, means "implements", and is checked.

| Module | What it is | State and actions, and the code |
|---|---|---|
| `PBComb` | `pbcomb.c` | One action per access to shared memory, named for what the statement does (`TryLock` 144, `ReadLastState` 152, `CheckServed` 153, `CopyState` 166-168, `ServeRequest` 175, `FlushState` 191, `Publish` 195, `FlushPointer` 197, `Unlock` 204-206 ...). `clean[r]` and `nvm_last_state` describe the NVM; `Evict` is a line written back by the cache on its own. |
| `PWFComb` | `pwfcomb.c` | The same, including every re-read of `S`. |
| `DurableObject` | abstract | A linearizable object; an operation returns only when it is durable, a crash leaves a prefix of the operations. |
| `BufferedObject` | abstract | A linearizable object with a durable state that lags behind. |
| `FIFOQueue` | abstract | A linearizable queue. |
| `CombiningSessions` | interface | What a structure on PBcomb may rely on: one session at a time applies pending operations to a state word, runs the hooks in order, makes the word durable and ends; then its operations return. |
| `WaitFreeSessions` | interface | The same for the wait-free objects: any number of attempts at a time, each of which copies the state (perhaps torn), serves, and then publishes or finds that another one did; `S` is flushed later, perhaps after calls of the session have returned. |
| `PBStack` | `pbcombstack.c` | `CombiningSessions` conjoined with what `serialPushPop` and the hooks do to nodes, cache lines, the pool and the combiner's arrays. |
| `PBQueue` | `pbcombqueue.c` | Two `CombiningSessions` instances (`e_...`, `d_...`) over one list, `aux`, and pools per thread. |
| `LinkedLists` | links | `ListFrom`, what a walk along the links returns, and `IsListFrom`, what a whole list is; used by `PBStack`, `PBQueue`, `PWFStack` and `PWFQueue`. |
| `PBHeap` | `pbcombheap.c` | The three fields PBcomb copies and the array it does not. |
| `PWFStack` | `pwfcombstack.c` | `WaitFreeSessions` conjoined with the nodes each attempt takes, the list it keeps to give them back, the counts per cache line and the flushes. |
| `PWFQueue` | `pwfcombqueue.c` | Two `WaitFreeSessions` instances over one list: an enqueue builds a chain of its own, and whoever comes next links it (`connectQueue`, 22-45); pools with rollback. |
| `Heap`, `HeapOps` | `heap.h` | The functions of the file as operators on a record; `HeapOps` calls them in any order. |
| `Pool` | `pool.c` | One action per function, over linked blocks. |
| `TVec`, `ToggleOps` | `tvec.h` | The functions of the file over words of bits, divided by `LOG2(TVEC_BIWORD_SIZE)` as in the code; `ToggleOps` calls them and compares with sets. |
| `SynchBarrier` | `barrier.c` | One action per access to a field, for waiting. |
| `ThreadTools` | `threadtools.c`, `uthreads.c` | The caller of start and join, the posix threads, their fibers, and leaving the barrier of the library (`barrier.c` 42-61) one access at a time; `SynchBarrier` is the barrier at which the started threads meet. |
| `LibraryParts` | - | `HeapOps`, `Pool` and `ThreadTools` side by side, each on its own, so that one run and one module of proofs are about all three. |
| `MC...`, `PBCombSessions` | for TLC | An object with data, bounds on calls, refinement mappings. `MCPBStructures` and `MCPWFStructures` check a stack or a queue in one run, `MCLibrary` one of `LibraryParts` or the toggles. |
| `...Proofs` | TLAPS | Section 5. |

Layering is sound because it is checked: the run `pbcomb` shows that `PBCombApplyOp` implements
`CombiningSessions`, the run `pwfcomb` that `PWFCombApplyOp` implements `WaitFreeSessions`, `PBCombProofs` and
`PWFCombProofs` prove both for every number of threads, and the structures use nothing else of them. (`pwfcombstack.c` and `pwfcombqueue.c` do not call `PWFCombApplyOp`, they repeat it;
their modules model what they do between the same steps, and the repeated `flush` and `comb_round` are left
open, so that `S` may become durable at any time after it was written.) Both interfaces allow a little more than
the code does, for instance an order of serving other than that of thread identifiers, so what holds of the
structures on the interface holds on the object.

Modelling decisions that matter:

* *Memory order.* Steps are sequentially consistent. On x86 only a store may be delayed past a later
  load; the announcement of a request is the one place where that would matter, and both
  `PBCombApplyOp` (133-138) and `PWFCombApplyOp` (91) fence there or use a locked instruction.
* *memcpy.* The state, the return values and the deactivate bits of a record are copied in separate
  steps. Their order is `AscendingCopy`. With an ascending copy (what glibc's routine does for blocks that
  do not overlap, in this layout) every call returns its own result; with a descending one it does not:
  a late waiter may see the new bit with the old value. The mutant `CopyFlexDescending` is that case, and
  `ReturnsOwnResult` finds it. C does not promise the order, so the code depends on its library here.
* *A record being written* is in the NVM as an unknown mix of old and new lines: `clean[r]` is FALSE
  until it is flushed. Nodes of the stacks and queues are tracked per cache line, with two nodes to a
  line, since the code decides per line what to flush.
* *Hooks.* PBComb itself runs hooks without effect; their effect is in the structures' modules, at the
  same places in the session.
* *Widths.* The lock word is modelled modulo `LockMod` = 2 * `HalfLock` and wraps in the runs; `seq` modulo
  `SeqRange`. The counters `flush` are 64 bits wide and are not bounded.
* *Default build.* Elimination and recycling are on, as built by default; they are constants of `PBStack`.
* *Toggle vectors* are sets of threads in every other module. `VectorsAreSets` of the run `library` is what
  justifies it, together with one reservation: with more than one division (a NUMA build) or more than
  64 threads a vector is read cell by cell, and PWFComb, PWFStack and PWFQueue read it at once.
* *Arguments* of the wait-free objects are the ones that fit in the 62 bits of `pwfcomb.h:72`: a thread
  applies its own argument in full, but another's as stored.

## 3. Fairness

Two liveness properties are claimed.

`EveryCallReturns` of PBcomb, under `SessionSpec`, which has weak fairness of `Step(t)` for each thread: the
operating system runs every thread, so a call that has begun goes on. No fairness is assumed of a thread
calling, of the lock being won by a particular thread (a thread that loses is served), or of evictions. It
is checked with a bounded number of calls per thread: with unbounded ones a lock word of four values can
have wrapped to the value a waiter spins on (line 149) every time the waiter looks, which a word of 32 bits
makes negligible, not impossible.

`EveryStartEnds` of the thread library, under `ThreadTools!Fairness`: weak fairness of the caller, of each
posix thread, and of a thread that is late in leaving the barrier of an earlier start. A posix
thread with several fibers runs the one its scheduler chooses (`uthreads.c` is cooperative), so fairness is of
the thread and not of a fiber: a fiber that waits without yielding would stop the others. That is why the
condition `YieldsWork` is stated: `synchResched` yields to fibers unless a start without fibers came
before (`threadtools.c:184`), and the programs of the run are those that keep it.

PWFcomb needs no fairness to be wait-free: the loop of line 111 runs twice, which is why what matters is
`TwoAttemptsSuffice`.

## 4. The runs

| Run | Module | Bounds | Shows |
|---|---|---|---|
| `pbcomb` | `PBCombSessions` | 3 threads; calls (3,2,0) or (1,1,1); lock modulo 4; 2 records per thread; 2 combining rounds | below |
| `pwfcomb` | `MCPWFComb` | 2 threads, calls (3,2); sequence numbers modulo 5 | below |
| `pwfcomb_durable` | `MCPWFComb` | the same | finding 1 |
| `pb_structures` | `MCPBStructures` | 2 threads; the stack without a bound over 3 nodes, 2 values; or the queue with 4 calls, 1 pool node each and the guard; 2 nodes to a line | below |
| `pbstack_elimination` | `MCPBStackCalls` | 4 threads, 5 calls, 3 nodes to a line | finding 2 |
| `pbqueue_links` | `MCPBQueue` | 2 threads, 4 calls, pools of 3 | finding 3 |
| `heap_delete` | `HeapOps` | 3 levels (7 slots), 4 values | finding 4 |
| `pbheap_durable` | `PBHeap` | 2 threads, 2 levels | finding 5 |
| `pwf_structures` | `MCPWFStructures` | 2 threads, 4 calls, at most 2 of a kind, pools of 3, 2 nodes to a line | below |
| `pwfqueue_durable` | `MCPWFQueue` | the same, the queue | finding 6 |
| `pwfstack_elimination` | `MCPWFStackSolo` | 4 threads, 5 calls, one attempt at a time, pools of 4 | finding 7 |
| `library` | `MCLibrary` | heap of 3 levels, 3 plain values and one above `EMPTY_HEAP`; pool of 3 blocks of 2 objects; vectors of 2-bit words, up to 4 threads, up to 2 divisions; 4 threads started in 6 ways, at most 3 times, 2 rounds | below |

*pbcomb.* `OneCombiner`: one thread holds the lock, and the word is odd exactly then.
`WorkingRecordPrivate`: a combiner never writes the published or the durable record, with only two records
per thread. `ImageComplete`: whatever a crash finds published is wholly durable. `NextSessionServes`: a
waiter is served by the session it waits for or the next one, across the wrap of the lock; lines 154-158
rely on it. `ReturnedDurable`, `ReturnsOwnResult`: a call returns its own result, and only when that is
durable. `ImplementsDurableObject` and `ImplementsSessions` are the refinements. `EveryCallReturns` is
liveness. The bounds: three calls of one thread bring it back to its first record while a second
thread may still hold a pointer to it, the smallest case in which reuse can go wrong; five sessions
wrap a lock of four values; three threads meeting give a waiter, a combiner and a third that wins
the lock between them; two rounds take both branches of the loop of line 170 (20 in the code).

*pwfcomb.* `LocalRecordPrivate`: an attempt writes a record that is neither current nor durable, although
it finds out which of its two to use from a record that may be torn. `ImageComplete` as above.
`TwoAttemptsSuffice`: a thread that leaves the loop without publishing has been served.
`ImplementsBufferedObject`: operations take effect once, at the compare-and-swap, return their own result,
and a crash leaves an earlier state of the object. `ImplementsSessions`: the refinement of
`WaitFreeSessions`. That an operation is durable when it returns does *not*
hold (finding 1). The bounds let one thread publish three times during an attempt of the other. A
sequence number modulo 5 does not come round to the same index in five sessions; 2^40 does not in
practice. With three threads of one call each (1.4 million states) the properties hold as well; that takes
longer than a regular run.

*pb_structures.* A stack: `StackNodesAccountedFor`: every node is in the stack, popped by the session under
way, or in the pool, once, and none in the pool can be brought back by a crash. `ArraysSuffice`: the
combiner's arrays of `nthreads` entries do not overflow. `ImplementsDurableStack`: a durable stack,
including the nodes, which are written outside PBcomb's record; it holds with at most two nodes to a line, or with less than four operations in a session, and is refuted
for four threads and three nodes to a line (finding 2); a line of 64 bytes has four nodes of 16. A queue: `NodesAccountedFor`; `ReusedNodesForgotten`: a node is recycled before its
dequeue is durable (line 102), and yet whoever may take it from the pool cannot overwrite one a crash
brings back; `DequeuesDurableOnly`: a dequeue returns only values whose enqueue is durable;
`ImplementsFIFOQueue`: the queue is linearizable, an enqueue taking effect when `aux` passes its node. One
pool node each forces recycling at once, of the guard too. Four calls on the queue are two sessions of each
combiner, the least for one to recycle what the other takes. `TypesOK` is the two type invariants.

*pwf_structures.* A stack: `NodesInOnePlace`: no node is at once in the list and in a pool, or
in two pools, although an attempt that fails gives its nodes back by walking a list whose nodes others may
have popped (line 326). The converse, that none is lost, does not hold:
an attempt whose compare-and-swap fails at line 314 keeps its nodes. `ImplementsBufferedStack`: the stack is
linearizable, and a crash leaves the stack of an earlier session, nodes included; for two threads, whose batches are too small for finding 7. Two threads
and four calls, two of a kind at most, are the least with an attempt that fails on the second record of its
thread and on nodes of a second batch; the same bounds serve the queue. Values go in
in the order of the calls that add them, which loses nothing, since the code never looks at them.
A queue: `QueueOrder`: a queue takes values out in the order they went in, and nothing but the two
compare-and-swaps changes what is in it, although the link between two chains is written by whoever comes next
and a rollback hands the nodes of a failed attempt out again. `EmptyAnswersHonest`: a dequeue that can still take effect
answers that the queue is empty only if the node it has come to was the tail at some moment of its attempt. `WholeAfterCrash`: the
durable queue can be walked from head to tail unless the head is ahead of the tail (finding 6). The nodes of the queue have no
lines, since it flushes every node it has written. `TypesOK` is the two type invariants.

*library.* One of four parts. The heap: `SlotsOrdered` (stale slots included, since the code compares with
them), `ReturnsMinimum`, `InsertAdds`; three levels have an inner level, a partly filled last one and a full
heap. The elements inserted are those `heap.h:64-65` admits, also one with the top bit set, and the history variable `plain` says
whether all of them so far were less than `EMPTY_HEAP`. `SlotsOrdered` and `ReturnsMinimum` are claimed while that is so, and fail
after (see the observations); `InsertAdds` is claimed of all. `ReturnsMinimum` demands the minimum, except that the answer may be
`EMPTY_HEAP` when the heap has as many elements as fill whole levels (0, 1, 3, 7...). The headers promise that answer for an empty heap alone
(`heap.h:68-71`, `pbcombheap.h:64`, `72`), and the code does not keep to it: the property
says by how much it does not, and the observations say when. The pool: `ObjectsAccountedFor`, across blocks, recycled objects and rollbacks of any length. The
toggle vectors: `VectorsAreSets`: however announcements and sessions follow each other, each vector is the set of threads
it stands for, and the fetch-and-add that toggles a bit never carries into another one; `ServesPending`:
searching for and clearing bits one after the other, as `pwfcombstack.c` 208-219 does, visits exactly the
pending threads, once. Threads: 4 threads
started as posix threads, as two with two fibers each, and in both orders, twice; as one with four fibers; and three times as two with two:
`NoneLeavesEarly`: none leaves a barrier before all have reached it; `JoinWaits`: a join misses at most as many of the posix threads of its
start as there were threads still leaving the barrier of the start before when it was set again, so none if there were
none (see the observations); `EveryStartEnds`: with fairness, every start is joined, although threads of the last start may still be
leaving the barrier the next one sets (`barrier.c:48`), and no thread is left behind a gate that a faster one, already
in its next call, has closed again. A third start is made only when no thread of the second one is still at work (`NoneBehind`): a join that missed
one has returned too early, and what the thread left behind does to a barrier that counts others is not modelled. The second start needs no such condition, since the first
join misses nobody. Two rounds are one more than one, which is the most a fast thread can be
ahead.

Runs switch deadlock checking off where the bound on calls ends a behaviour, or the pool runs out.
Threads are interchangeable in the stack and queue runs on PBcomb, which check no liveness, and so are the
values in `pb_structures`, since the code hands them over and compares them with nothing; the
wait-free runs use no symmetry, since threads are numbered there.
Each property of a passing run has a mutant: a plausible bug in the code that TLC finds with it.

### Findings

Each is a counterexample TLC gives for a statement of the repository.

1. `pwfcomb.c:178`: `!l_val%2` is `(!l_val)%2`. After the first session the flush counter of a record in
   flight is even, as if `S` had been flushed already, and a thread that was served by another one
   returns before its operation is durable. With the parity as intended the property holds for
   two threads but not for three: a third session may build on an `S` nobody has flushed, and
   `comb_round` of its owner does not name the thread served before.
2. `pbcombstack.c:82`: the elimination takes a popped *old* node out of the count of its cache line, and
   the new node in that line is not flushed. It takes four operations in one session.
3. `pbcombqueue.c:75`: the link from the old last node to a new batch is never flushed.
4. `heap.h:126`: deletion sifts through slots no longer in use and can swap a deleted value in for a live one.
5. `pbcombheap.c:6`, `heap.h:101`: the array of the heap is in no record PBcomb flushes.
6. `pwfcombqueue.c:458`: a dequeue makes its `S` durable without looking at whether the enqueue's is: a
   crash can leave a head ahead of the tail, and the next enqueue links its chain to a node the head has passed.
7. `pwfcombstack.c:236`: the count of a cache line is incremented at the index of another loop, so that the
   elimination leaves a line with a new node unflushed. It takes four threads and nodes in two lines.

Met while modelling, without a run of their own:

* PBcomb: `pbcomb.c:71` does not flush the initial record (`pbcomb.h:74` calls it persisted), so that a crash before the end of the first session leaves
  no state; `DurableObject` has the crash state `Unformatted` for it, and so does not object. The hook
  `after_persist` runs before the unlock (`pbcomb.c:200`, against `pbcomb.h:120-128`).
* Stacks: INT_MIN cannot be pushed (`pbcombstack.c:72`); a caller sets the stack's head after PBcomb copied the
  initial state (`pbcombstack.c:43`); `pwfcombstack.c:293` flushes as many bytes of the record as a PWFComb
  record has, not as a PWFStack record has.
* Queues: a dequeue gives its node to the pool before it is durable (`pbcombqueue.c:102`), and the pool writes its own link over the node's value: a crash
  that brings the node back finds a node without its value. `ReusedNodesForgotten` says that no such node is handed out again, so that its link is
  not overwritten too; of its value it says nothing. The guard of a queue goes to a pool of nodes at the first dequeue; a failed
  compare-and-swap loses the nodes of the attempt (`pwfcombqueue.c:319`, `pwfcombstack.c:314`).
* Heap: `heap.h:68-71` and `pbcombheap.h:64`, `72` promise `EMPTY_HEAP` for an empty heap only. `heap.h:191` tests the last level and the
  position in it, and so answers `EMPTY_HEAP` also after the first insert of all, and whenever deletions have emptied the last level used, which leaves
  1, 3, 7... elements; nothing is then deleted until the next insert. The operation bits of `heap.h:213`
  restrict elements. An element with the top bit set, which `heap.h:64-65` admits since it is in
  `_HEAP_VAL_MASK`, is not less than `EMPTY_HEAP`: slots never used then look like small elements to
  `heap.h:126-137` and are swapped in, and the order breaks after two inserts. Hence the condition `plain`.
* Pool: `pool.h:84` does not say that a user that recycles may not roll back; `pool.c:135` frees the
  first block only.
* Wait-free objects: an argument of more than 62 bits is truncated when another thread applies it (`pwfcomb.h:72`).
* Thread library: a join returns when the first counter is 0 (`barrier.c:48`), so that a thread may still
  have to decrement the second one (`barrier.c:43`); if the barrier is set for the next start meanwhile, that join
  can return one thread too early for each such thread, against `threadtools.h:26`; `JoinWaits` says that it misses no more than these. `__noop_resched` is set by a start without fibers and never
  cleared (`threadtools.c:184`), so that fibers of a later start do not yield, and such a start need not end: `YieldsWork` leaves these programs out, and
  no property covers them; the remainder of `nthreads / uthreads` gets no
  thread (`threadtools.c:145`); `threadtools.h:15-18` reads as if `nthreads * uthreads` threads were started,
  and `nthreads` are; a fiber's stack is freed by the next one only (`FIBER_RECYCLE`).

## 5. What is proved

### PBcomb: `PBCombProofs`

For every number of threads, every serial object, every size of the lock word and every pool of two records or
more:

| Theorem | States |
|---|---|
| `TypeCorrect` | `[]TypeOK` |
| `MutualExclusion` | `[]OneCombiner` |
| `RecordPrivate` | `[]WorkingRecordPrivate` |
| `ImageAlwaysComplete` | `[]ImageComplete` |
| `WaitersServed` | `[]NextSessionServes` |
| `DurableForever` | a durable operation stays durable until its thread makes the next one |
| `OwnResult` | with an ascending memcpy, `[]ReturnsOwnResult` |
| `DurableOnReturn` | with an ascending memcpy, `[]ReturnedDurable` |

The assumptions are those of `PBComb`: at least one thread, two records per thread, one round, a lock word
of at least four values, an initial record apart from the pool's, and a serial object that keeps its types.

The argument. None of these is inductive alone; `IndInv` is the conjunction of

* `TypeInv`: the types, and the ranges of the combiner's loop variables;
* `LockInv`: mutual exclusion, with the fact that a thread about to try the lock saw it even;
* `PoolInv`: a thread's working record is published exactly from `Publish` to `Unlock`, and the durable
  pointer has moved there before the pool index advances. This is why two records are enough;
* `ImageInv`: a record about to be published is clean;
* `WaitInv`: waiters hold an odd lock value, and the durable pointer is the current one except in a session
  that has published and not flushed;
* `ChainInv`: what is served in the durable record is served in the current one and in the combiner's copy;
* `SessionInv`: a combiner past thread `k` in its first pass has served every request announced before
  the session, and a waiter two sessions old is durable. It gives `NextSessionServes`;
* `StaleInv`: a record a waiter reads late either is current, or the waiter is durable or was served by
  the session that replaces the record.

Each conjunct has a lemma with a step per action; later conjuncts use earlier ones. `ResultInv` adds, under
`AscendingCopy`, that the copies agree on the results of those served. `OwnResult` and
`DurableOnReturn` follow from both; so the order of `memcpy` is needed for results, and for nothing else.

### PBcomb is a durable object: `PBCombProofs`

`Implements`: under `AscendingCopy`, `Spec => ImplementsDurableObject`, the refinement the run `pbcomb` checks,
for every value of the constants. The state of the abstract object is the one of `CurrentRec`: the record a
combiner works on once its copy is complete, and the published one otherwise. The invariant `RefInv` is
`IndInv`, `ResultInv` and `StateCopied` (a combiner that serves works on a copy of the published state).
There is one lemma per kind of step: an announcement is the abstract call, `ServeRequest` applies one operation,
`FlushPointer` and `Evict` persist, leaving is the abstract return, and everything else, the copies and
`Publish` included, is a stutter.

### PBcomb provides what the structures rely on: `PBCombProofs`

`ProvidesSessions`: under `AscendingCopy`, `PBComb` with the history variable `batch` implements
`CombiningSessions`, for every value of the constants and without a bound on the calls;
`BoundedProvidesSessions` says the same of `SessionSpec`, the specification of the run `pbcomb`. So the
interface the structures are checked on is not only an assumption that held on three threads.
The lemmas on steps are those of the refinement above; what is new is the invariant `BatchInv`:

* `BatchServed`: outside a session nobody is in the batch, and whoever is has been served in the combiner's record;
* `BatchUnpublished`: until `Publish`, nobody in the batch is served in the record the others read;
* `BatchWaits`: nobody in the batch is about to return; it still waits for the lock value of this session or
  holds one from the session before. This is the part that needs `WaitInv`, and the reason a call returns only
  after both hooks have run and the lock is free, which the reuse of nodes in `PBStack` depends on.

Each step of `PBComb` is then one step of `CombiningSessions` or none: `TryLock` begins a session,
`ServeRequest` serves one thread, `FlushPointer` and `Evict` make the word durable, `Unlock` ends it.

### Lists: `LinkedListsProofs`

`ListFrom` is a recursive function on how far a walk may go. What it returns is proved by induction on that
number, with the induction written as a set: the naturals from which on the statement holds contain 0 and
with each number the next (`SetInduction`, from the least element every non-empty set of naturals has). The
result is `ListFound`: if a sequence is the whole list from a node on (`IsListFrom`), a walk that may go as far as there are
nodes returns it. The rest of the module says what happens to such a sequence when a node is put in front or taken away, when one is
appended behind the last one, when a chain is joined to it (`ListJoined`), when a link outside the list changes, and what a walk between two of its
nodes returns. The proofs of the stacks and of the queues use walks through these lemmas only.

A walk need not be along a whole list: a rollback of the wait-free stack counts its steps, and by the time it takes them others
may have changed what lies further on. `WalksAgree` says that two walks agree if the links of the nodes they pass do, `WalkPrefix` and
`WalkOn` that a shorter walk is the beginning of a longer one, and `ListRest` that what is behind a node of a whole list is a
whole list, apart from what is in front of it.

### PBstack: `PBStackProofs`

For every number of threads, nodes and nodes to a line, and every set of values. `PlacesInv` is inductive:

* `TypeInv`, and `ListInv`: what the head, the published head and the durable head lead to is a whole list each;
* `StageInv`: how the three heads are related in each stage of a session;
* `PlaceInv`: a node handed out is in the stack, popped by the session under way or in the pool, and in one of these
  only, and what is published or durable is in the stack or popped by this session. Popped nodes go
  to the pool in `after_persist_func` (34-40), after the durable head has moved, so a crash brings none of the pool back;
* `ValueInv`: pending operations have arguments, and the nodes of the stack have values.

It gives `StackTypes` (`[]TypeOK`) and `NodesKept` (`[]NodesAccountedFor`). `ArraysAreLargeEnough`
(`[]ArraysSuffice`) adds `ArrayInv`: the entries of the combiner's arrays are no more than the operations the session has
applied, although callers reset the arrays (`pbcombstack.c:126`) and not the combiner.

`StackWhole` (`[]WholeAfterCrash`) and `IsDurableStack` (the refinement) need that the flush leaves no
line out. `FlushesAll` says when: no elimination, or at most two nodes to a line. `LineInv` adds to `PlacesInv`
`FreshInv`, the line of a node pushed in this session and still in the stack is listed; `CountInv`, with at most
two nodes to a line its count is that of such nodes, and once they are popped either it is 0 or no node of the line can
be pushed again in this session; and `CleanInv`, what a crash may leave is written back. With three
nodes to a line the count may come down to 0 with a new node still there: finding 2 is the run that shows it, so the
hypothesis is a limit of the code and not of the proof.

`PBStructuresProofs` carries the results over to `StructuresSpec`, the specification of the run
`pb_structures`, under the names the run checks (`StackNodesKept`, `ArraysDoSuffice`, `StackIsDurable`,
`StructuresTypes`).

### PBqueue: `PBStructuresProofs`

| Theorem | States |
|---|---|
| `QueueTypes` | `[]TypeOK` |
| `QueueNodesKept` | `[]NodesAccountedFor` |
| `ReusedForgotten` | `[]ReusedNodesForgotten` |
| `DurableDequeued` | `[]DequeuesDurableOnly` |
| `QueueIsFIFO` | `ImplementsFIFOQueue`, the refinement |

for every number of threads, size of a thread's pool and of a line, and every set of values. `QueueOfStructures`
is the same of `StructuresSpec`. None of the four invariants is inductive: they speak of the list from the
dummy on, and whether it stays in order depends on nodes that have left it. `QueueInv` is:

* `SessionsInv`, for each of the two PBcomb objects: how the published and the durable word follow the word
  from stage to stage, and that a thread has a call on one of the two only;
* `BatchInv`: an enqueue combiner has served as many calls as `enqueue_counter` says, and nodes lie behind `aux` only until
  the session's hook has moved it;
* `DataInv`: the types of nodes, links and pools;
* `PoolsInv`: a pool has a node once, no two pools share one, and what they hold has been handed out before;
* `ChainInv`, the heart of it: there is one list, from the *durable* dummy to the last node, with the dummy and
  `aux` in it in this order (`Linked`). The nodes before the dummy are in the pool of the combiner whose session has
  removed them (`Removed`); those between the dummy and `aux` are durable, and those behind `aux` are listed for
  the flush until they are (`Written`); and every node handed out is in the list from the dummy on or in a pool, never in both
  (`Placed`).

So only the pool of a dequeue combiner may hold nodes a crash would bring back, and a thread allocates from its own
pool: it may only do so in an enqueue, when its dequeue has returned and the durable dummy has moved past them.

The refinement needs one more, `OrderInv`: from the moment a combiner serves an enqueue until `aux` moves, the nodes behind
`aux` hold the arguments of the served calls, each once, in an order of serving. Then step by step: serving an enqueue is a stutter, moving `aux` (line 28) is the
abstract step that enqueues the whole batch, serving a dequeue (line 97) is the abstract dequeue, which gets the
first value behind the dummy, or finds nothing exactly when the dummy is `aux`; everything else is a
call, a return or a stutter.

Both structures are proved on `CombiningSessions`, which `ProvidesSessions` proves of PBcomb. The assumptions on
the constants are `NodesAssumption` of either module: the pools and the lines are not empty, the values
that stand for null, no word and no thread are apart from nodes and threads, and there are finitely many threads.

`DurableDequeued` is about the nodes a dequeue takes: their values are flushed, and the durable last node is at or behind
them. It is not about links: a crash may lose the one in front of such a node (finding 3).

### PWFcomb: `PWFCombProofs`

| Theorem | States |
|---|---|
| `TypeCorrectness` | `[]TypeOK` |
| `RecordPrivacy` | `[]LocalRecordPrivate` |
| `ImageIsComplete` | `[]ImageComplete` |
| `TwoAttempts` | `[]TwoAttemptsSuffice` |
| `ProvidesSessions`, `BoundedProvidesSessions` | `ImplementsSessions` |
| `ImplementsObject` | `ImplementsBufferedObject` |

for every number of threads and every serial object, under `UnwrappedSpec == Spec /\ [][Unwrapped]_vars`: the
sequence number of `S` grows and never comes round. That is what its 40 bits are for; if it came round
during an attempt the compare-and-swap could succeed on a stale copy, and nothing would be left of the
argument. The assumptions on the constants are those of `PWFComb`: the sizes, a serial operation stays within the object's states
and results, and (`NoRecAssumption`) no pointer to a record is NULL. The parts of the invariant:

* `TypeInv`, `CalledInv` (a thread that has not called has no bit set anywhere), `SeqInv` (a copy of `S` with the
  number of `S` is `S`);
* `FreeInv`: the record a thread writes next by the current index vector is neither current nor durable, and
  whoever still copies it began before its owner did;
* `IndexInv`: a record that is copied, even while it is being rewritten, has the current index of every
  thread whose attempt has not begun after the copier's; so a torn copy still names a free record;
* `CopyInv`, `CleanInv`: while `S` stays the same, the copy has the bits of the current record, and it is flushed
  before the compare-and-swap;
* `OwnInv`, `ServedInv`: the argument for two attempts. An attempt fails only if another session published during it. The
  second such session began after the first attempt, so after the announcement; it saw the request, and served it.

`ProvidesSessions`: PWFcomb implements `WaitFreeSessions`, with the refinement mapping of `MCPWFComb`;
`BoundedProvidesSessions` says so of `MCSpec`, the specification of the run `pwfcomb`. So the interface PWFstack and PWFqueue are
built on is one that PWFcomb provides for every number of threads and calls. The interface lets a call return once its session is published; that it is durable
by then is neither in it nor true (finding 1). The invariant `CallInv` adds to `IndInv`
that the first record is never flushed (`FirstInv`: until the first session a crash leaves nothing) and `AnswersInv`: the copy of
an attempt that can still succeed has the results of the current record but for the operations it will apply. Every
step is one of the kinds of `OneStep`, each of which is one action of the interface or none: reading the bits begins an
attempt, which is late from the start if `S` has changed, the compare-and-swap publishes or gives up, a flush of `S` makes the word durable.

`ImplementsObject`: PWFcomb implements `BufferedObject`, the refinement the run `pwfcomb` checks. An operation is called at the toggle
of its bit, takes effect with the others of its session, one after another, at the compare-and-swap, and returns its own result. Two
invariants are added (`EffectInv`):

* `OrderInv`: the copy of an attempt that can still succeed is the current state with the operations served so far
  applied to it, in an order of which each is a step, and has their results (`ServedAll`). `AppliedAtOnce` turns this order into the
  fold by which the abstract object applies a batch; the fold of the community modules is a recursive function on sets of indices, and
  what it computes is shown by induction over a set of naturals (`FoldTrace`).
* `ResultInv`: why line 215 is right to read the result from a record that may have been replaced and be rewritten. Once an operation
  has taken effect there is a number of `S` such that every attempt that began with it or later finds the operation done, in both vectors, and copies
  its result (`Knows`); and whoever rewrites the record `t` is about to return from is one of these attempts (`AnsweredFrom`). An
  earlier attempt may hold a torn copy, but not of that record: by `FreeInv` its owner has begun after everyone who still copies it.

### PWFstack: `PWFStackProofs`

| Theorem | States |
|---|---|
| `StackTypes` | `[]TypeOK` |
| `NodesApart` | `[]NodesInOnePlace` |

of `Spec` of `PWFStack`, for every number of threads, every size of the pools and every set of values; the only
assumption is `NodesAssumption`. `StructuresTypes` and `StackNodesApart`, in `PWFStructuresProofs`, are the same of `StructuresSpec`, the
specification of the run `pwf_structures`.

`NodesInOnePlace` is not inductive: it speaks of pools and of the stack, and a node that leaves the one for the other is for a
while in neither. The invariant (`Inv`, `InvHolds`) therefore adds the *hands* of a thread, `Held`: the nodes its attempt has
pushed, or, once it has published, those it has popped and not given back yet. Besides the types it says

* `SchemeInv`, `LocalInv`: where in the code a thread is, by the stage of its session, and how many lines it may list;
* `SetsInv`, about the places as sets: the pools, the hands, the stack and the durable stack are apart, except that a
  thread that has published and not flushed `S` holds nodes the durable stack still has (`Apart`); every node in a place has been handed out, so a fresh one
  is in none (`AllHandedOut`); nodes pushed have values (`HaveValues`);
* `ListsInv`, about the order: the stack is a whole list; no node is twice in a recycle list or in a hand; and the copy of an attempt that can still
  succeed is a whole list of its own nodes followed by nodes of the stack, with its head as many nodes further on as it has popped (`CopyOf`).

A step moves one node, or divides a list, and there is a lemma on each as sets (`SetsTaken` and those after it), which say nothing
of lists. The step that matters is the compare-and-swap: the nodes popped, a prefix of the copy, go to the thread's
hand, and the rest is the new stack. That they are apart is where the copy has to be a whole list. A stale attempt has no such
copy. What it gives back (line 326) it finds by a walk that is as long as its number of pushes, and the links of these nodes
are its own to write; so the walk returns the nodes it pushed whatever the others have done to the nodes behind them. That
is `WalksAgree`.

### PWFqueue: `PWFStructuresProofs`

| Theorem | States |
|---|---|
| `QueueTypes` | `[]TypeOK` |
| `QueueLeftWhole` | `[]WholeAfterCrash` |
| `QueueInOrder` | `QueueOrder`, an action property |
| `EmptyAnswersAreHonest` | `EmptyAnswersHonest`, an action property |

for up to 64 threads (one cell of a toggle vector), every size of a thread's pool, every set of values and every
bound on the calls, of `MCSpec` of `MCPWFQueue`; `QueueOfStructures` is the same of `StructuresSpec`, the specification of the run
`pwf_structures`. The assumptions are `QueueAssumption`: the pools are not empty, and
the guard and the values that stand for null, for an unwritten line and for an empty queue are apart from the rest.

What makes this queue hard is that it is never whole in memory. An enqueue builds a chain of nodes by itself and publishes
it by a compare-and-swap on the record (`first`, `last`, `tail`); the link from `first`, the old last node, to `last`,
the head of the chain, is written afterwards, by the thread itself, by the next enqueue or by a dequeue that comes to it.
Any number of threads write it, some of them late, from a record that is no longer current. The invariant therefore speaks
of the list with that one link *made good* (`MadeGood`). `QueueInv` is

* `SchemeInv`: what each of the two sessions of a thread has done, and where in the code the thread is;
* `DataInv`: the types;
* `LocalInv`: an attempt that has appended its batch holds a chain of its own: the last nodes allocated from its own pool, in
  the order of allocation, ending in null, and flushed once it has reached the compare-and-swap;
* `ChainInv`: there is one list from the guard, through every node ever published, to the tail, and a place `k` in it where the link
  may be missing. `Linked`: the current record says where `k` is. `Issued`: the list holds no node that a pool could still
  hand out, even if the attempt under way rolls back (`Spent`). `Attempts`: a record a thread works on is the current one if its
  compare-and-swap can still succeed, and if it is an old one, then its link is there already, so that writing it again changes
  nothing; a trying attempt has flushed the link at `k`. `Durable`: every link except the one at `k` is in the NVM, and the
  durable record is the current one or its tail is a node of the list no later than `k`.

This is inductive because the two critical steps hand its parts to each other: an attempt
writes and flushes the missing link before it publishes a new one, so that there is never more than one, and the
compare-and-swap fails for anyone whose record is old. `WholeAfterCrash` is `Durable`, with the durable head in the list. `QueueOrder`
needs `OrderInv` (the chain of an attempt holds the arguments of its batch, in an order of its own, each once) and
`TakenInv` (a dequeue attempt's answers are the values behind the current head, and its head is the node after them);
both speak of attempts that can still succeed only, since others may have read anything. `EmptyAnswersHonest` needs `Seen`: behind the node a dequeue
has come to there is a link, or it has been the tail since the attempt began.

The queue is proved on `WaitFreeSessions`, the interface that `PWFCombProofs` proves of PWFcomb.

### Barrier: `LibraryProofs`

`BarrierHolds`: no thread leaves `synchBarrierWait` before as many have come as the barrier was set for, for
every number of threads and every number of calls, and `BarrierTypes` that no counter goes below 0. The
invariant is that the barrier is in one of four stages: threads arrive, the last one opens the gate, threads
leave, the last one opens the other gate. Each stage says where every thread is, what the counters and
gates are, and how far the calls of two threads may differ.

### Thread library, pool and heap: `LibraryProofs`

| Theorem | States |
|---|---|
| `UsesBarrier` | the threads of `ThreadTools` use the barrier as `SynchBarrier` says |
| `ProgramMeets` | `[]NoneLeavesEarly` |
| `JoinWaitsForAll` | `[]JoinWaits` |
| `ObjectsInOnePlace` | `[]ObjectsAccountedFor` |
| `HeapStaysOrdered` | `[]SlotsOrdered` |
| `MinimumReturned` | `ReturnsMinimum`, an action property |
| `InsertKeepsTheRest` | `InsertAdds`, an action property |

of `PartsSpec`, which the run `library` extends by the toggle vectors. The assumptions: the number of posix
threads of a start divides the number of threads (`StartsAssumption`; `bench_args.c:89` sees to it), the numbers of calls are
bounded, and a block of the pool has room for an object (`PoolAssumption`). Programs are any set of finite
sequences of starts, of which the third and later ones find no thread of the last start at work (`NoneBehind`). The heap has two levels or more (`SizesAssumption`; `INITIAL_HEAP_LEVELS` is 10), and the elements
inserted leave the operation bits clear, as `heap.h:64-65` asks (`InsertedAssumption`).

`ProgramMeets` follows from `BarrierHolds`: only `synchBarrierWait` changes the barrier, and an ended or waiting fiber is not in it.

`JoinWaitsForAll` is the argument that fibers and the two counters together count every thread, but for those of an earlier start that
decrement the second one late. `JoinInv` says

* `CallerInv`, `StateInv`: which posix threads have been created when the caller is where it is, and that the caller has ended
  its own share of the work before it joins;
* `FibersInv`: `n_fibers` of a posix thread is the number of its active fibers, and one that has not finished is among
  those, so that the scan of `uthreads.c:52-54` ends (line 80) only when all have; threads are numbered by a posix thread and a fiber, and
  by `Numbering` (a fact about division) no two alike;
* `CountInv`: `bar_arrive` is the number of posix threads, and the caller, that have not decremented it; `bar_leave` is that number
  less the late threads that have decremented it for this start (`strayed - late`). So a counter at 0 means that all posix threads but `strayed` of them at most have come to
  `synchBarrierLeave`, and by then their fibers have finished.

`ObjectsInOnePlace` needs to know the order of allocation. `PoolInv` says, beside types:

* `HeldInv`: blocks are obtained in the order of their numbers;
* `InPlaces`: the property itself, and that the recycle list has no object twice;
* `LogInv`: the blocks in use form one chain through `back`, each but the last full, and there is a number `pos[b]` for
  each, the objects allocated before its own, such that object `e` of block `b` is number `pos[b] + e + 1` of the allocations that are left. The
  sum is what lets a rollback over blocks be compared with the end of a sequence.

What the loop of lines 116-121 computes, a recursive function of the block and the number of objects, is proved
by induction on the block (`RollExists`, `RollGoesTo`): it stops in the block that holds the last object to stay, with
the counters that leave this one there.

`HeapStaysOrdered` needs facts that `SlotsOrdered` does not state. `HeapInv` says, beside types, that while `plain` holds

* `Ordered`: every slot of the array is at least its parent, those no longer in use and those of levels not
  reached included. The code never clears a slot, and an element that sinks is compared with leftovers too, so the order
  of the slots in use alone is not inductive;
* `Filled`: no element is greater than `EMPTY_HEAP_NODE`, which is what all levels above the last used one hold. An
  insert into a new level therefore has no child that is less;
* `Real`: every slot in use holds less than `EMPTY_HEAP_NODE`, so that an answer `EMPTY_HEAP` is not an element.

In between, the array is ordered but at one slot: the element there may be less than those above it
(`RisingIn`), or greater than those below it (`SinkingIn`). Each swap moves that slot, up or down, and the two loops
(`heap.h:104-117`, `heap.h:119-144`) are recursive functions of the slot, shown to end in an ordered array by induction
from the root upwards (`RiseOrders`) and from the last level downwards (`SinkOrders`). The proof also
shows that the last used level never decreases: `heap.h:191` answers that the heap is empty before the code of
`heap.h:154-162` is reached.

`MinimumReturned` is then `RootLeast`: in an ordered array the root is the least, by induction along parents; with `Real`, the root is an element and not
`EMPTY_HEAP`; and where `heap.h:191` answers `EMPTY_HEAP`, whole levels are in use (`EmptyWhenWhole`).
`InsertKeepsTheRest` counts: `Where` is the set of slots that hold an element, a swap maps it to another by a bijection
(`SwapKeepsAll`), so that the bag changes by the inserted element only. That is so in an array in any order, hence for elements of every size. The same for deletion is false (finding 4).

### Only model-checked

Liveness: `EveryCallReturns` and `EveryStartEnds` (the prover has no backend for fairness and ENABLED). The
toggle vectors, and with them `TypesOK` and `VectorsAreSets` of the run `library`, since their module uses the operators on bits of
`Bitwise`, which the prover cannot read; the ranges of the heap, of the pool's counters and of the barrier are parts of `HeapInv`,
`PoolInv` and `BarrierInv`.
`ImplementsBufferedStack` of PWFstack: it is *not* true for every value of the constants. Because of the count of
a line (finding 7) a node may be published that was never flushed, so that a crash leaves a stack no session made. It holds on the
instance of `pwf_structures`, where four calls of two threads cannot bring that about, and a proof would have to assume what the code does not
ensure. And the properties of the runs that expect a violation, naturally.

## 6. Not modelled

* Waiting times (backoff, yielding outside fibers), statistics, options, random numbers, pinning, benchmarks and
  scripts: they decide when and how long, never what a step does. The benchmarks' use of the objects, a
  fixed number of threads that each call in a loop, is what the models take as their inputs.
* Atomic instructions and flushes: modelled by what they do in the modules that use them.
* `clh.h`, `hsynch.h`, `fam.h`: headers without an implementation the objects use.
* The functions of `tvec.h` nothing calls; `serialDisplay` of the heap and the counters of DEBUG builds; the
  ordering of threads by NUMA nodes.
* Recovery: the repository has none. What is checked is whether the image could be recovered from.

## 7. The plan

Done: every component with state of its own; the proofs of the two combining objects and of the refinements of
both, of everything the run `pb_structures` checks, of the wait-free queue, of the places of the wait-free stack's nodes, and of
the barrier, the thread library, the pool and the heap.

Left, in this order:

1. PWFstack with the count of line 236 put right, and `ImplementsBufferedStack` of it.
2. Fibers that call PBstack: its arrays are per kernel thread (`pbcombstack.c:126`), so that a fiber that yields
   inside `PBCombApplyOp` shares them with the next one.
3. Vectors read cell by cell in PWFComb, for more than 64 threads or more than one NUMA node.
