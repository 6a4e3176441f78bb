------------------------------- MODULE PBComb -------------------------------
(* PBcomb, the blocking persistent combining object                          *)
(* (libconcurrent/concurrent/pbcomb.c, libconcurrent/includes/pbcomb.h).     *)
(*                                                                           *)
(* A thread announces its request and competes for an integer lock: even is  *)
(* free, odd is held.  The winner is the combiner: it copies the current     *)
(* state record into a record of its own pool, serves every announced        *)
(* request on the copy, makes the copy durable, publishes it in              *)
(* pstate->last_state, makes that pointer durable and releases the lock.     *)
(* The others wait for a combiner to serve them.                             *)
(*                                                                           *)
(* Every access to shared memory whose order matters is a step of its own.   *)
(* Memory is sequentially consistent, which is what the fences and locked    *)
(* instructions of the code give on x86: the only store that must not be     *)
(* delayed past a load (the announcement, pbcomb.c:133-138) is followed by   *)
(* a full fence.                                                             *)
(*                                                                           *)
(* Non-volatile memory.  A crash may hit any state; what it leaves is        *)
(* described by two variables.  clean[r] says that no line of record r was   *)
(* written since the record was last flushed and drained: the durable image  *)
(* of a record that is not clean is an unknown mix of old and new lines.     *)
(* nvm_last_state is the durable copy of pstate->last_state; its cache line  *)
(* may be evicted, and so become durable, at any moment (Evict), not only    *)
(* where the code flushes it.                                                *)
EXTENDS Integers, FiniteSets

CONSTANTS
    NThreads,        \* nthreads, the number of threads of the object
    Args,            \* the arguments of operations
    RetVals,         \* the values operations return
    ObjStates,       \* the states of the simulated object
    InitialState,    \* initial_state of PBCombStructInit
    ZeroArg,         \* the ArgVal 0 a request is initialised with
    ZeroVal,         \* the RetVal 0 return_value is initialised with
    NoVal,           \* `out` of a thread no call of which returned
    NoRec,           \* pstate->last_state in memory nothing was written to
    InitRec,         \* the record PBCombStructInit allocates
    SFunc(_, _, _),  \* sfunc: <<state, arg, thread>> to [state, ret]
    PoolSize,        \* PBCOMB_POOL_SIZE
    Rounds,          \* COMBINING_ROUNDS
    HalfLock,        \* half the range of the lock word: 2^31 for a uint32_t
    AscendingCopy    \* TRUE when memcpy stores in ascending address order

Threads == 0 .. NThreads - 1

(* The state records: PoolSize per thread, and the initial one. *)
PoolRecs == Threads \X (0 .. PoolSize - 1)
Recs == PoolRecs \union {InitRec}

LockMod == 2 * HalfLock

ASSUME ConstantsAssumption ==
    /\ NThreads \in Nat \ {0}
    /\ PoolSize \in Nat /\ PoolSize >= 2
    /\ Rounds \in Nat \ {0}
    /\ HalfLock \in Nat /\ HalfLock >= 2
    /\ AscendingCopy \in BOOLEAN

ASSUME RecordsAssumption ==
    /\ InitRec \notin PoolRecs
    /\ NoRec \notin Recs

ASSUME ObjectAssumption ==
    /\ InitialState \in ObjStates
    /\ ZeroArg \in Args
    /\ ZeroVal \in RetVals
    /\ \A s \in ObjStates, a \in Args, t \in Threads :
          /\ SFunc(s, a, t).state \in ObjStates
          /\ SFunc(s, a, t).ret \in RetVals

VARIABLES
    (* struct PBCombRequest, one per thread *)
    arg, activate, valid,
    (* struct PBCombStruct *)
    lock, lock_value, last_state,
    (* struct PBCombStateRec, one per record *)
    state, return_value, deactivate,
    (* struct PBCombThreadState *)
    pool_index,
    (* the durable memory *)
    clean, nvm_last_state,
    (* PBCombApplyOp, per call: the next step, the local lock_value, the     *)
    (* local last_state, and the combiner's loop variables                   *)
    pc, local_lock, local_rec, j, i, serve_reqs,
    (* the value the thread's last call returned *)
    out

requestVars == <<arg, activate, valid>>
lockVars    == <<lock, lock_value>>
recordVars  == <<state, return_value, deactivate, clean>>
pointerVars == <<last_state, nvm_last_state>>
loopVars    == <<j, i, serve_reqs>>
localVars   == <<local_lock, local_rec>>

vars == <<requestVars, lockVars, recordVars, pointerVars, loopVars, localVars,
          pool_index, pc, out>>

-----------------------------------------------------------------------------
(* Helpers *)

(* x + 1 in the unsigned arithmetic of the lock word. *)
Inc(x) == IF x + 1 = LockMod THEN 0 ELSE x + 1

IsHeld(x) == x % 2 = 1

(* The record the combiner t works on: st_thread->pool[pool_index]. *)
WorkRec(t) == <<t, pool_index[t]>>

(* Mutants: the index of the pool does not wrap; it never moves. *)
NextIndexNoWrap(x) == x + 1
NextIndexStuck(x) == x

(* Line 204. *)
NextIndex(x) == IF x + 1 = PoolSize THEN 0 ELSE x + 1

(* The test of line 174: is the request of k announced and not yet served    *)
(* in record r?                                                              *)
IsPending(r, k) == deactivate[r][k] # activate[k] /\ valid[k] = 1

(* Mutant: the scan of the requests stops one short. *)
NumRequestsShort == NThreads - 1

(* The bound of the loop of line 173. *)
NumRequests == NThreads

Goto(t, label) == pc' = [pc EXCEPT ![t] = label]

At(t, label) == pc[t] = label

-----------------------------------------------------------------------------
(* PBCombStructInit and PBCombThreadStateInit.  Neither flushes anything;    *)
(* the pool records are not initialised, so their deactivate array may hold  *)
(* anything (here: all 0 or all 1).                                          *)
Init ==
    /\ arg = [t \in Threads |-> ZeroArg]
    /\ activate = [t \in Threads |-> 0]
    /\ valid = [t \in Threads |-> 0]
    /\ lock = 0
    /\ lock_value = 0
    /\ last_state = InitRec
    /\ state = [r \in Recs |-> InitialState]
    /\ return_value = [r \in Recs |-> [t \in Threads |-> ZeroVal]]
    /\ \E junk \in {0, 1} :
          deactivate = [r \in Recs |-> [t \in Threads |->
                           IF r = InitRec THEN 0 ELSE junk]]
    /\ pool_index = [t \in Threads |-> 0]
    /\ clean = [r \in Recs |-> FALSE]
    /\ nvm_last_state = NoRec
    /\ pc = [t \in Threads |-> "idle"]
    /\ local_lock = [t \in Threads |-> 0]
    /\ local_rec = [t \in Threads |-> InitRec]
    /\ j = [t \in Threads |-> 0]
    /\ i = [t \in Threads |-> 0]
    /\ serve_reqs = [t \in Threads |-> FALSE]
    /\ out = [t \in Threads |-> NoVal]

-----------------------------------------------------------------------------
(* PBCombApplyOp: announcing the request, lines 133-138.                     *)

WriteArg(t, a) ==
    /\ At(t, "idle")
    /\ arg' = [arg EXCEPT ![t] = a]
    /\ Goto(t, "activate")
    /\ UNCHANGED <<activate, valid, lockVars, recordVars, pointerVars, loopVars,
                   localVars, pool_index, out>>

ToggleActivate(t) ==
    /\ At(t, "activate")
    /\ activate' = [activate EXCEPT ![t] = 1 - @]
    /\ Goto(t, "valid")
    /\ UNCHANGED <<arg, valid, lockVars, recordVars, pointerVars, loopVars,
                   localVars, pool_index, out>>

SetValid(t) ==
    /\ At(t, "valid")
    /\ valid' = [valid EXCEPT ![t] = 1]
    /\ Goto(t, "lock")
    /\ UNCHANGED <<arg, activate, lockVars, recordVars, pointerVars, loopVars,
                   localVars, pool_index, out>>

-----------------------------------------------------------------------------
(* PBCombApplyOp: competing for the lock, and waiting for a combiner, lines  *)
(* 140-161.                                                                  *)

(* Lines 141-143. *)
ReadLock(t) ==
    /\ At(t, "lock")
    /\ local_lock' = [local_lock EXCEPT ![t] = lock]
    /\ Goto(t, IF IsHeld(lock) THEN "spin" ELSE "cas")
    /\ UNCHANGED <<requestVars, lockVars, recordVars, pointerVars, loopVars,
                   local_rec, pool_index, out>>

(* Mutant: the compare-and-swap does not compare. *)
CASSucceedsAlways(t) == TRUE

(* The compare-and-swap of line 144. *)
CASSucceeds(t) == lock = local_lock[t]

(* Line 144.  (A local that no later step reads is reset, here and below.)   *)
(* A thread that loses the race reads the lock again; it does not look       *)
(* whether the winner has served it (line 147 increments a dead local).      *)
TryLock(t) ==
    /\ At(t, "cas")
    /\ IF CASSucceeds(t)
       THEN /\ lock' = Inc(lock)
            /\ Goto(t, "copy")
       ELSE /\ Goto(t, "lock")
            /\ UNCHANGED lock
    /\ local_lock' = [local_lock EXCEPT ![t] = 0]
    /\ UNCHANGED <<requestVars, lock_value, recordVars, pointerVars, loopVars,
                   local_rec, pool_index, out>>

(* Lines 149-150. *)
SpinWhileLocked(t) ==
    /\ At(t, "spin")
    /\ lock # local_lock[t]
    /\ Goto(t, "read_last")
    /\ UNCHANGED <<requestVars, lockVars, recordVars, pointerVars, loopVars,
                   localVars, pool_index, out>>

(* Line 152. *)
ReadLastState(t) ==
    /\ At(t, "read_last")
    /\ local_rec' = [local_rec EXCEPT ![t] = last_state]
    /\ Goto(t, "check")
    /\ UNCHANGED <<requestVars, lockVars, recordVars, pointerVars, loopVars,
                   local_lock, pool_index, out>>

(* Line 153. *)
CheckServed(t) ==
    /\ At(t, "check")
    /\ IF deactivate[local_rec[t]][t] = activate[t]
       THEN /\ Goto(t, "check_version")
            /\ UNCHANGED localVars
       ELSE /\ Goto(t, "lock")
            /\ local_lock' = [local_lock EXCEPT ![t] = 0]
            /\ local_rec' = [local_rec EXCEPT ![t] = InitRec]
    /\ UNCHANGED <<requestVars, lockVars, recordVars, pointerVars, loopVars,
                   pool_index, out>>

(* Line 154.  lock_value is compared as a uint64_t with an int32_t that is   *)
(* sign extended, so the two never agree in the upper half of the lock's     *)
(* range.                                                                    *)
CheckVersion(t) ==
    /\ At(t, "check_version")
    /\ Goto(t, IF lock_value = local_lock[t] /\ local_lock[t] < HalfLock
               THEN "return" ELSE "wait_next")
    /\ UNCHANGED <<requestVars, lockVars, recordVars, pointerVars, loopVars,
                   localVars, pool_index, out>>

(* Mutant: a waiter does not wait for the publishing combiner. *)
IsReleasingNever(x) == FALSE

(* Is the session after the one with lock value x still going on? *)
IsReleasing(x) == lock = Inc(Inc(x))

(* Lines 156-157: the combiner that published the record may not have made   *)
(* the pointer to it durable yet; wait for it to release the lock.           *)
WaitNext(t) ==
    /\ At(t, "wait_next")
    /\ ~IsReleasing(local_lock[t])
    /\ Goto(t, "return")
    /\ UNCHANGED <<requestVars, lockVars, recordVars, pointerVars, loopVars,
                   localVars, pool_index, out>>

(* Leaving PBCombApplyOp with the value v.  The locals of the call are dead. *)
Leave(t, v) ==
    /\ out' = [out EXCEPT ![t] = v]
    /\ local_lock' = [local_lock EXCEPT ![t] = 0]
    /\ local_rec' = [local_rec EXCEPT ![t] = InitRec]
    /\ Goto(t, "idle")

(* Lines 155 and 158. *)
ReturnServed(t) ==
    /\ At(t, "return")
    /\ Leave(t, return_value[local_rec[t]][t])
    /\ UNCHANGED <<requestVars, lockVars, recordVars, pointerVars, loopVars,
                   pool_index>>

-----------------------------------------------------------------------------
(* PBCombApplyOp: the combiner, lines 166-208.                               *)

(* memcpy of flex, lines 166-168: the state and the return values first, the *)
(* deactivate array after them when memcpy ascends; the other way round too  *)
(* when its order is not known.  Other threads may hold a pointer to the     *)
(* record that is being overwritten.                                         *)
CopyResults(t) ==
    LET r == WorkRec(t) IN
    /\ state' = [state EXCEPT ![r] = state[last_state]]
    /\ return_value' = [return_value EXCEPT ![r] = return_value[last_state]]
    /\ clean' = [clean EXCEPT ![r] = FALSE]
    /\ UNCHANGED deactivate

CopyDeactivate(t) ==
    LET r == WorkRec(t) IN
    /\ deactivate' = [deactivate EXCEPT ![r] = deactivate[last_state]]
    /\ clean' = [clean EXCEPT ![r] = FALSE]
    /\ UNCHANGED <<state, return_value>>

CopyAscending(t) ==
    \/ At(t, "copy") /\ CopyResults(t) /\ Goto(t, "copy_deactivate")
    \/ At(t, "copy_deactivate") /\ CopyDeactivate(t) /\ Goto(t, "scan")

CopyDescending(t) ==
    \/ At(t, "copy") /\ CopyDeactivate(t) /\ Goto(t, "copy_results")
    \/ At(t, "copy_results") /\ CopyResults(t) /\ Goto(t, "scan")

(* Mutant: the deactivate array is copied first. *)
CopyFlexDescending(t) == CopyDescending(t)

CopyFlex(t) == CopyAscending(t) \/ (~AscendingCopy /\ CopyDescending(t))

CopyState(t) ==
    /\ CopyFlex(t)
    /\ UNCHANGED <<requestVars, lockVars, pointerVars, loopVars, localVars,
                   pool_index, out>>

(* Lines 173-174: request j is not pending, go on to the next one. *)
SkipRequest(t) ==
    /\ At(t, "scan")
    /\ j[t] < NumRequests
    /\ ~IsPending(WorkRec(t), j[t])
    /\ j' = [j EXCEPT ![t] = @ + 1]
    /\ UNCHANGED <<requestVars, lockVars, recordVars, pointerVars, i, serve_reqs,
                   localVars, pool_index, pc, out>>

(* Line 174: request j is pending. *)
FindRequest(t) ==
    /\ At(t, "scan")
    /\ j[t] < NumRequests
    /\ IsPending(WorkRec(t), j[t])
    /\ Goto(t, "serve")
    /\ UNCHANGED <<requestVars, lockVars, recordVars, pointerVars, loopVars,
                   localVars, pool_index, out>>

(* Line 175: apply the operation and record its result. *)
ServeRequest(t) ==
    LET r       == WorkRec(t)
        k       == j[t]
        applied == SFunc(state[r], arg[k], k)
    IN
    /\ At(t, "serve")
    /\ state' = [state EXCEPT ![r] = applied.state]
    /\ return_value' = [return_value EXCEPT ![r][k] = applied.ret]
    /\ clean' = [clean EXCEPT ![r] = FALSE]
    /\ Goto(t, "mark")
    /\ UNCHANGED <<requestVars, lockVars, deactivate, pointerVars, loopVars,
                   localVars, pool_index, out>>

(* Lines 176-177: mark the request as served. *)
MarkServed(t) ==
    LET r == WorkRec(t)
        k == j[t]
    IN
    /\ At(t, "mark")
    /\ deactivate' = [deactivate EXCEPT ![r][k] = activate[k]]
    /\ clean' = [clean EXCEPT ![r] = FALSE]
    /\ serve_reqs' = [serve_reqs EXCEPT ![t] = TRUE]
    /\ j' = [j EXCEPT ![t] = @ + 1]
    /\ Goto(t, "scan")
    /\ UNCHANGED <<requestVars, lockVars, state, return_value, pointerVars, i,
                   localVars, pool_index, out>>

(* Lines 170-185: the end of a pass over the requests.  The combiner stops   *)
(* after a pass that served nobody, or after Rounds passes.                  *)
EndPass(t) ==
    /\ At(t, "scan")
    /\ j[t] = NumRequests
    /\ j' = [j EXCEPT ![t] = 0]
    /\ serve_reqs' = [serve_reqs EXCEPT ![t] = FALSE]
    /\ IF serve_reqs[t] /\ i[t] + 1 < Rounds
       THEN /\ i' = [i EXCEPT ![t] = @ + 1]
            /\ UNCHANGED pc
       ELSE /\ i' = [i EXCEPT ![t] = 0]
            /\ Goto(t, "final_persist")
    /\ UNCHANGED <<requestVars, lockVars, recordVars, pointerVars, localVars,
                   pool_index, out>>

(* Lines 187-189: the hook of PBCombSetFinalPersist.  It belongs to the      *)
(* object built on PBcomb and touches none of the variables here.            *)
FinalPersist(t) ==
    /\ At(t, "final_persist")
    /\ Goto(t, "flush_state")
    /\ UNCHANGED <<requestVars, lockVars, recordVars, pointerVars, loopVars,
                   localVars, pool_index, out>>

(* Mutant: the record is not flushed. *)
FlushedNot(r) == clean

(* All lines of record r are flushed and drained. *)
Flushed(r) == [clean EXCEPT ![r] = TRUE]

(* Lines 191-192. *)
FlushState(t) ==
    /\ At(t, "flush_state")
    /\ clean' = Flushed(WorkRec(t))
    /\ Goto(t, "lock_value")
    /\ UNCHANGED <<requestVars, lockVars, state, return_value, deactivate,
                   pointerVars, loopVars, localVars, pool_index, out>>

(* Line 194. *)
SetLockValue(t) ==
    /\ At(t, "lock_value")
    /\ lock_value' = lock
    /\ Goto(t, "publish")
    /\ UNCHANGED <<requestVars, lock, recordVars, pointerVars, loopVars,
                   localVars, pool_index, out>>

(* Line 195. *)
Publish(t) ==
    /\ At(t, "publish")
    /\ last_state' = WorkRec(t)
    /\ Goto(t, "flush_pointer")
    /\ UNCHANGED <<requestVars, lockVars, recordVars, nvm_last_state, loopVars,
                   localVars, pool_index, out>>

(* Mutant: the pointer is not flushed. *)
FlushedPointerNot == nvm_last_state

(* What a flush of pstate makes durable. *)
FlushedPointer == last_state

(* Lines 197-198. *)
FlushPointer(t) ==
    /\ At(t, "flush_pointer")
    /\ nvm_last_state' = FlushedPointer
    /\ Goto(t, "after_persist")
    /\ UNCHANGED <<requestVars, lockVars, recordVars, last_state, loopVars,
                   localVars, pool_index, out>>

(* Lines 200-202: the hook of PBCombSetAfterPersist, like FinalPersist. *)
AfterPersist(t) ==
    /\ At(t, "after_persist")
    /\ Goto(t, "unlock")
    /\ UNCHANGED <<requestVars, lockVars, recordVars, pointerVars, loopVars,
                   localVars, pool_index, out>>

(* Mutant: the combiner keeps the lock. *)
ReleasedNot == lock

(* Line 205. *)
Released == Inc(lock)

(* Lines 204-206; local_rec stands for the local new_state from here on. *)
Unlock(t) ==
    /\ At(t, "unlock")
    /\ local_rec' = [local_rec EXCEPT ![t] = WorkRec(t)]
    /\ pool_index' = [pool_index EXCEPT ![t] = NextIndex(@)]
    /\ lock' = Released
    /\ Goto(t, "combiner_return")
    /\ UNCHANGED <<requestVars, lock_value, recordVars, pointerVars, loopVars,
                   local_lock, out>>

(* Line 208. *)
ReturnCombiner(t) ==
    /\ At(t, "combiner_return")
    /\ Leave(t, return_value[local_rec[t]][t])
    /\ UNCHANGED <<requestVars, lockVars, recordVars, pointerVars, loopVars,
                   pool_index>>

-----------------------------------------------------------------------------
(* The cache line of pstate reaches the durable memory on its own. *)
Evict ==
    /\ nvm_last_state' = last_state
    /\ UNCHANGED <<requestVars, lockVars, recordVars, last_state, loopVars,
                   localVars, pool_index, pc, out>>

Wait(t) ==
    \/ ReadLock(t) \/ TryLock(t) \/ SpinWhileLocked(t) \/ ReadLastState(t)
    \/ CheckServed(t) \/ CheckVersion(t) \/ WaitNext(t) \/ ReturnServed(t)

Combine(t) ==
    \/ CopyState(t) \/ SkipRequest(t) \/ FindRequest(t) \/ ServeRequest(t)
    \/ MarkServed(t) \/ EndPass(t) \/ FinalPersist(t) \/ FlushState(t)
    \/ SetLockValue(t) \/ Publish(t) \/ FlushPointer(t) \/ AfterPersist(t)
    \/ Unlock(t) \/ ReturnCombiner(t)

(* A step of a call thread t has begun. *)
Step(t) == ToggleActivate(t) \/ SetValid(t) \/ Wait(t) \/ Combine(t)

Next ==
    \/ \E t \in Threads : (\E a \in Args : WriteArg(t, a)) \/ Step(t)
    \/ Evict

Spec == Init /\ [][Next]_vars

-----------------------------------------------------------------------------
(* Correctness *)

(* The steps of a combiner that works on its own record, and all the steps   *)
(* at which a thread holds the lock.                                         *)
Serving  == {"scan", "serve", "mark", "final_persist", "flush_state",
             "lock_value", "publish"}
Filling  == {"copy", "copy_deactivate", "copy_results"}
Releasing == {"flush_pointer", "after_persist", "unlock"}
Holding  == Filling \union Serving \union Releasing

Labels == Holding \union
          {"idle", "activate", "valid", "lock", "cas", "spin", "read_last",
           "check", "check_version", "wait_next", "return", "combiner_return"}

TypeOK ==
    /\ arg \in [Threads -> Args]
    /\ activate \in [Threads -> {0, 1}]
    /\ valid \in [Threads -> {0, 1}]
    /\ lock \in 0 .. LockMod - 1
    /\ lock_value \in 0 .. LockMod - 1
    /\ last_state \in Recs
    /\ state \in [Recs -> ObjStates]
    /\ return_value \in [Recs -> [Threads -> RetVals]]
    /\ deactivate \in [Recs -> [Threads -> {0, 1}]]
    /\ pool_index \in [Threads -> 0 .. PoolSize - 1]
    /\ clean \in [Recs -> BOOLEAN]
    /\ nvm_last_state \in Recs \union {NoRec}
    /\ pc \in [Threads -> Labels]
    /\ local_lock \in [Threads -> 0 .. LockMod - 1]
    /\ local_rec \in [Threads -> Recs]
    /\ j \in [Threads -> 0 .. NThreads]
    /\ i \in [Threads -> 0 .. Rounds - 1]
    /\ serve_reqs \in [Threads -> BOOLEAN]
    /\ out \in [Threads -> RetVals \union {NoVal}]

(* At most one thread is between winning the compare-and-swap of line 144    *)
(* and the release of line 205, and exactly then the lock word is odd.       *)
OneCombiner ==
    /\ \A t, u \in Threads : pc[t] \in Holding /\ pc[u] \in Holding => t = u
    /\ IsHeld(lock) <=> \E t \in Threads : pc[t] \in Holding

(* The record a combiner writes (lines 166-185) is neither the one published *)
(* nor the one a crash would recover from, although the pool has only two    *)
(* records per thread and they are reused in turn.                           *)
WorkingRecordPrivate ==
    \A t \in Threads : pc[t] \in Filling \union Serving =>
        WorkRec(t) \notin {last_state, nvm_last_state}

(* Whatever record a crash finds published by a combiner is wholly durable   *)
(* (lines 191-198), also while later combiners rewrite other records.        *)
ImageComplete ==
    \A r \in PoolRecs : r \in {last_state, nvm_last_state} => clean[r]

(* The operation of t is in the durable image of the object. *)
IsDurable(t) ==
    /\ nvm_last_state \in PoolRecs
    /\ deactivate[nvm_last_state][t] = activate[t]

AtReturn(t) == pc[t] \in {"return", "combiner_return"}

(* A call that is about to return, as a combiner (line 208) or served by     *)
(* another thread (lines 154-158), is durable: a crash right after the       *)
(* return finds it applied, with the value it returns.                       *)
ReturnedDurable ==
    \A t \in Threads : AtReturn(t) =>
        /\ IsDurable(t)
        /\ return_value[nvm_last_state][t] = return_value[local_rec[t]][t]

(* A call returns the value the published record holds for it, although a    *)
(* waiter reads it from a record its owner may be rewriting (lines 152-158). *)
ReturnsOwnResult ==
    \A t \in Threads : AtReturn(t) =>
        return_value[local_rec[t]][t] = return_value[last_state][t]

(* A waiter is served by the session it waits for or by the next one: once   *)
(* the lock has moved past both, its request is served and durable.  This is *)
(* what lines 154-158 rely on when they wait for one release only.           *)
NextSessionServes ==
    \A t \in Threads :
        /\ pc[t] \in {"read_last", "check", "check_version", "wait_next"}
        /\ lock \notin {Inc(local_lock[t]), Inc(Inc(local_lock[t]))}
        => IsDurable(t)

-----------------------------------------------------------------------------
(* PBcomb implements the abstract durable object.  An operation takes effect *)
(* when the combiner applies it to its working record (line 175); it becomes *)
(* durable when the pointer to that record reaches the durable memory.       *)

Combining(t) == pc[t] \in Serving

CurrentRec ==
    IF \E t \in Threads : Combining(t)
    THEN WorkRec(CHOOSE t \in Threads : Combining(t))
    ELSE last_state

Unformatted == <<"unformatted">>

HasTakenEffect(t) ==
    \/ deactivate[CurrentRec][t] = activate[t]
    \/ \E c \in Threads : pc[c] = "mark" /\ j[c] = t

AbstractPhase(t) ==
    IF pc[t] \in {"idle", "activate"} THEN "idle"
    ELSE IF ~HasTakenEffect(t) THEN "pending"
    ELSE IF IsDurable(t) THEN "durable" ELSE "applied"

Abstract == INSTANCE DurableObject WITH
    NoArg   <- <<"no arg">>,
    phase   <- [t \in Threads |-> AbstractPhase(t)],
    param   <- [t \in Threads |->
                   IF AbstractPhase(t) = "pending" THEN arg[t]
                   ELSE <<"no arg">>],
    result  <- [t \in Threads |->
                   IF AbstractPhase(t) \in {"applied", "durable"}
                   THEN return_value[CurrentRec][t] ELSE out[t]],
    object  <- state[CurrentRec],
    durable <- IF nvm_last_state \in PoolRecs /\ clean[nvm_last_state]
               THEN state[nvm_last_state] ELSE Unformatted

(* Every behaviour of PBCombApplyOp is one of the durable object: each call  *)
(* takes effect once, between its announcement and its return, returns the   *)
(* result computed then, and only after it is durable.                       *)
ImplementsDurableObject == Abstract!Spec

(* A call that has been announced returns (lines 140-208). *)
EveryCallReturns ==
    \A t \in Threads : pc[t] # "idle" ~> pc[t] = "idle"
=============================================================================
