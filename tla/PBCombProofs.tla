---------------------------- MODULE PBCombProofs ----------------------------
(* Proofs about PBComb, for every number of threads, every object, every     *)
(* size of the pools and every range of the lock word.                       *)
EXTENDS PBCombSessions, TLAPS

-----------------------------------------------------------------------------
(* Arithmetic of the lock word and of the pool index. *)

(* The lock word wraps from LockMod - 1, which is odd, to 0, so an increment *)
(* always changes its parity, and two increments never bring it back.        *)
LEMMA IncParity ==
    ASSUME NEW x \in 0 .. LockMod - 1
    PROVE  /\ Inc(x) \in 0 .. LockMod - 1
           /\ IsHeld(Inc(x)) <=> ~IsHeld(x)
           /\ Inc(x) # x
           /\ Inc(Inc(x)) # x
  <1>1. CASE x + 1 = LockMod
    <2>1. x % 2 = 1
      BY <1>1, ConstantsAssumption DEF LockMod
    <2> QED
      BY <1>1, <2>1, ConstantsAssumption DEF Inc, IsHeld, LockMod
  <1>2. CASE x + 1 # LockMod
    BY <1>2, ConstantsAssumption DEF Inc, IsHeld, LockMod
  <1> QED
    BY <1>1, <1>2

(* The pool of a thread has at least two records, so the index moves to      *)
(* another record of the pool.                                               *)
LEMMA NextIndexMoves ==
    ASSUME NEW x \in 0 .. PoolSize - 1
    PROVE  /\ NextIndex(x) \in 0 .. PoolSize - 1
           /\ NextIndex(x) # x
  BY ConstantsAssumption DEF NextIndex

(* Toggling the activate bit changes it.                                     *)
LEMMA FlippedBit ==
    ASSUME NEW b \in {0, 1}
    PROVE  1 - b # b
  OBVIOUS

(* Small members of the ranges of the variables. *)
LEMMA ConstantFacts ==
    /\ 0 \in 0 .. LockMod - 1
    /\ 0 \in 0 .. NThreads
    /\ 0 \in 0 .. Rounds - 1
    /\ 0 \in 0 .. PoolSize - 1
    /\ InitRec \in Recs
    /\ Threads \subseteq 0 .. NThreads
  BY ConstantsAssumption DEF LockMod, Recs, Threads

(* The scan index of lines 173-176 is a thread while it is below the bound.  *)
LEMMA ScanIndex ==
    ASSUME NEW k \in 0 .. NThreads
    PROVE  /\ k < NumRequests => k \in Threads
           /\ k \in Threads => k + 1 \in 0 .. NThreads
  BY ConstantsAssumption DEF NumRequests, Threads

(* The working record of a thread is a record of its pool. *)
LEMMA WorkRecType ==
    ASSUME TypeOK, NEW t \in Threads
    PROVE  WorkRec(t) \in PoolRecs /\ WorkRec(t) \in Recs
  BY DEF TypeOK, WorkRec, PoolRecs, Recs

-----------------------------------------------------------------------------
(* Type correctness *)

(* The combiner serves and marks requests of the threads there are, and a    *)
(* thread outside the combining loop has its loop variables at their start.  *)
ScanInRange ==
    \A t \in Threads :
        /\ pc[t] \in {"serve", "mark"} => j[t] \in Threads
        /\ pc[t] \notin {"scan", "serve", "mark"} => j[t] = 0 /\ i[t] = 0

TypeInv == TypeOK /\ ScanInRange

(* The structures the init functions build have their types.                *)
LEMMA TypeInit == Init => TypeInv
  BY ConstantsAssumption, ObjectAssumption, ConstantFacts
     DEF Init, TypeInv, ScanInRange, TypeOK, Recs, PoolRecs, Labels

(* No step of PBCombApplyOp breaks a type.                                   *)
LEMMA TypeStep == TypeInv /\ [Next]_vars => TypeInv'
  <1> SUFFICES ASSUME TypeInv, [Next]_vars
               PROVE  TypeInv'
    OBVIOUS
  <1> USE ConstantFacts
      DEF TypeInv, ScanInRange, TypeOK, Labels, Holding, Filling, Serving,
          Releasing, At, Goto, requestVars, lockVars, recordVars,
          pointerVars, loopVars, localVars
  <1>1. CASE UNCHANGED vars
    BY <1>1 DEF vars
  <1>2. CASE Evict
    BY <1>2 DEF Evict
  <1>3. ASSUME NEW t \in Threads, NEW a \in Args, WriteArg(t, a)
        PROVE  TypeInv'
    BY <1>3 DEF WriteArg
  <1>4. ASSUME NEW t \in Threads, ToggleActivate(t)
        PROVE  TypeInv'
    BY <1>4 DEF ToggleActivate
  <1>5. ASSUME NEW t \in Threads, SetValid(t)
        PROVE  TypeInv'
    BY <1>5 DEF SetValid
  <1>6. ASSUME NEW t \in Threads, ReadLock(t)
        PROVE  TypeInv'
    BY <1>6 DEF ReadLock
  <1>7. ASSUME NEW t \in Threads, TryLock(t)
        PROVE  TypeInv'
    <2>1. CASE CASSucceeds(t)
      BY <1>7, <2>1, IncParity DEF TryLock
    <2>2. CASE ~CASSucceeds(t)
      BY <1>7, <2>2 DEF TryLock
    <2> QED
      BY <2>1, <2>2
  <1>8. ASSUME NEW t \in Threads, SpinWhileLocked(t)
        PROVE  TypeInv'
    BY <1>8 DEF SpinWhileLocked
  <1>9. ASSUME NEW t \in Threads, ReadLastState(t)
        PROVE  TypeInv'
    BY <1>9 DEF ReadLastState
  <1>10. ASSUME NEW t \in Threads, CheckServed(t)
        PROVE  TypeInv'
    <2>1. CASE deactivate[local_rec[t]][t] = activate[t]
      BY <1>10, <2>1 DEF CheckServed
    <2>2. CASE deactivate[local_rec[t]][t] # activate[t]
      <3>1. /\ pc' = [pc EXCEPT ![t] = "lock"]
            /\ local_lock' = [local_lock EXCEPT ![t] = 0]
            /\ local_rec' = [local_rec EXCEPT ![t] = InitRec]
        BY <1>10, <2>2 DEF CheckServed
      <3> QED
        BY <1>10, <3>1 DEF CheckServed
    <2> QED
      BY <2>1, <2>2
  <1>11. ASSUME NEW t \in Threads, CheckVersion(t)
        PROVE  TypeInv'
    BY <1>11 DEF CheckVersion
  <1>12. ASSUME NEW t \in Threads, WaitNext(t)
        PROVE  TypeInv'
    BY <1>12 DEF WaitNext
  <1>13. ASSUME NEW t \in Threads, ReturnServed(t)
        PROVE  TypeInv'
    BY <1>13 DEF ReturnServed, Leave
  <1>14. ASSUME NEW t \in Threads, CopyState(t)
        PROVE  TypeInv'
    <2>1. CASE CopyResults(t)
      BY <1>14, <2>1, WorkRecType
         DEF CopyState, CopyFlex, CopyAscending, CopyDescending, CopyResults
    <2>2. CASE CopyDeactivate(t)
      BY <1>14, <2>2, WorkRecType
         DEF CopyState, CopyFlex, CopyAscending, CopyDescending,
             CopyDeactivate
    <2> QED
      BY <1>14, <2>1, <2>2
         DEF CopyState, CopyFlex, CopyAscending, CopyDescending
  <1>15. ASSUME NEW t \in Threads, SkipRequest(t)
        PROVE  TypeInv'
    BY <1>15, ConstantsAssumption DEF SkipRequest, NumRequests
  <1>16. ASSUME NEW t \in Threads, FindRequest(t)
        PROVE  TypeInv'
    <2>1. j[t] \in Threads
      BY <1>16, ScanIndex DEF FindRequest, NumRequests
    <2> QED
      BY <1>16, <2>1 DEF FindRequest
  <1>17. ASSUME NEW t \in Threads, ServeRequest(t)
        PROVE  TypeInv'
    BY <1>17, WorkRecType, ObjectAssumption DEF ServeRequest
  <1>18. ASSUME NEW t \in Threads, MarkServed(t)
        PROVE  TypeInv'
    <2>1. j[t] \in Threads /\ j[t] + 1 \in 0 .. NThreads
      BY <1>18, ScanIndex DEF MarkServed
    <2> QED
      BY <1>18, <2>1, WorkRecType DEF MarkServed
  <1>19. ASSUME NEW t \in Threads, EndPass(t)
        PROVE  TypeInv'
    BY <1>19, ConstantsAssumption DEF EndPass
  <1>20. ASSUME NEW t \in Threads, FinalPersist(t)
        PROVE  TypeInv'
    BY <1>20 DEF FinalPersist
  <1>21. ASSUME NEW t \in Threads, FlushState(t)
        PROVE  TypeInv'
    BY <1>21, WorkRecType DEF FlushState, Flushed
  <1>22. ASSUME NEW t \in Threads, SetLockValue(t)
        PROVE  TypeInv'
    BY <1>22 DEF SetLockValue
  <1>23. ASSUME NEW t \in Threads, Publish(t)
        PROVE  TypeInv'
    BY <1>23, WorkRecType DEF Publish
  <1>24. ASSUME NEW t \in Threads, FlushPointer(t)
        PROVE  TypeInv'
    BY <1>24 DEF FlushPointer, FlushedPointer
  <1>25. ASSUME NEW t \in Threads, AfterPersist(t)
        PROVE  TypeInv'
    BY <1>25 DEF AfterPersist
  <1>26. ASSUME NEW t \in Threads, Unlock(t)
        PROVE  TypeInv'
    BY <1>26, WorkRecType, NextIndexMoves, IncParity DEF Unlock, Released
  <1>27. ASSUME NEW t \in Threads, ReturnCombiner(t)
        PROVE  TypeInv'
    BY <1>27 DEF ReturnCombiner, Leave
  <1> QED
    BY <1>1, <1>2, <1>3, <1>4, <1>5, <1>6, <1>7, <1>8, <1>9, <1>10, <1>11,
       <1>12, <1>13, <1>14, <1>15, <1>16, <1>17, <1>18, <1>19, <1>20, <1>21,
       <1>22, <1>23, <1>24, <1>25, <1>26, <1>27
       DEF Next, Step, Wait, Combine

-----------------------------------------------------------------------------
(* Mutual exclusion of combiners *)

LockInv ==
    /\ OneCombiner
    /\ \A t \in Threads : pc[t] = "cas" => ~IsHeld(local_lock[t])

(* The compare-and-swap of line 144 succeeds only on an even lock word, and  *)
(* the increment of line 205 makes it even again.                            *)
LEMMA LockStep == TypeInv /\ LockInv /\ [Next]_vars => LockInv'
  <1> SUFFICES ASSUME TypeInv, LockInv, [Next]_vars
               PROVE  LockInv'
    OBVIOUS
  <1> /\ pc \in [Threads -> Labels]
      /\ local_lock \in [Threads -> 0 .. LockMod - 1]
      /\ lock \in 0 .. LockMod - 1
    BY DEF TypeInv, TypeOK
  <1> USE DEF LockInv, OneCombiner, Holding, Filling, Serving, Releasing, At,
              Goto, requestVars, lockVars, recordVars, pointerVars, loopVars,
              localVars
  <1>1. CASE UNCHANGED vars
    BY <1>1 DEF vars
  <1>2. CASE Evict
    BY <1>2 DEF Evict
  <1>3. ASSUME NEW t \in Threads, NEW a \in Args, WriteArg(t, a)
        PROVE  LockInv'
    BY <1>3 DEF WriteArg
  <1>4. ASSUME NEW t \in Threads, ToggleActivate(t)
        PROVE  LockInv'
    BY <1>4 DEF ToggleActivate
  <1>5. ASSUME NEW t \in Threads, SetValid(t)
        PROVE  LockInv'
    BY <1>5 DEF SetValid
  <1>6. ASSUME NEW t \in Threads, ReadLock(t)
        PROVE  LockInv'
    BY <1>6 DEF ReadLock
  <1>7. ASSUME NEW t \in Threads, TryLock(t)
        PROVE  LockInv'
    <2>1. CASE lock = local_lock[t]
      BY <1>7, <2>1, IncParity DEF TryLock, CASSucceeds
    <2>2. CASE lock # local_lock[t]
      BY <1>7, <2>2, IncParity DEF TryLock, CASSucceeds
    <2> QED
      BY <2>1, <2>2
  <1>8. ASSUME NEW t \in Threads, SpinWhileLocked(t)
        PROVE  LockInv'
    BY <1>8 DEF SpinWhileLocked
  <1>9. ASSUME NEW t \in Threads, ReadLastState(t)
        PROVE  LockInv'
    BY <1>9 DEF ReadLastState
  <1>10. ASSUME NEW t \in Threads, CheckServed(t)
        PROVE  LockInv'
    <2>1. CASE deactivate[local_rec[t]][t] = activate[t]
      BY <1>10, <2>1 DEF CheckServed
    <2>2. CASE deactivate[local_rec[t]][t] # activate[t]
      BY <1>10, <2>2 DEF CheckServed
    <2> QED
      BY <2>1, <2>2
  <1>11. ASSUME NEW t \in Threads, CheckVersion(t)
        PROVE  LockInv'
    BY <1>11 DEF CheckVersion
  <1>12. ASSUME NEW t \in Threads, WaitNext(t)
        PROVE  LockInv'
    BY <1>12 DEF WaitNext, IsReleasing
  <1>13. ASSUME NEW t \in Threads, ReturnServed(t)
        PROVE  LockInv'
    BY <1>13 DEF ReturnServed, Leave
  <1>14. ASSUME NEW t \in Threads, CopyState(t)
        PROVE  LockInv'
    <2>1. CASE CopyAscending(t)
      BY <1>14, <2>1
         DEF CopyState, CopyFlex, CopyAscending, CopyDescending, CopyResults,
             CopyDeactivate
    <2>2. CASE CopyDescending(t)
      BY <1>14, <2>2
         DEF CopyState, CopyFlex, CopyAscending, CopyDescending, CopyResults,
             CopyDeactivate
    <2> QED
      BY <1>14, <2>1, <2>2 DEF CopyState, CopyFlex
  <1>15. ASSUME NEW t \in Threads, SkipRequest(t)
        PROVE  LockInv'
    BY <1>15 DEF SkipRequest
  <1>16. ASSUME NEW t \in Threads, FindRequest(t)
        PROVE  LockInv'
    BY <1>16 DEF FindRequest
  <1>17. ASSUME NEW t \in Threads, ServeRequest(t)
        PROVE  LockInv'
    BY <1>17 DEF ServeRequest
  <1>18. ASSUME NEW t \in Threads, MarkServed(t)
        PROVE  LockInv'
    BY <1>18 DEF MarkServed
  <1>19. ASSUME NEW t \in Threads, EndPass(t)
        PROVE  LockInv'
    <2>1. CASE serve_reqs[t] /\ i[t] + 1 < Rounds
      BY <1>19, <2>1 DEF EndPass
    <2>2. CASE ~(serve_reqs[t] /\ i[t] + 1 < Rounds)
      BY <1>19, <2>2 DEF EndPass
    <2> QED
      BY <2>1, <2>2
  <1>20. ASSUME NEW t \in Threads, FinalPersist(t)
        PROVE  LockInv'
    BY <1>20 DEF FinalPersist
  <1>21. ASSUME NEW t \in Threads, FlushState(t)
        PROVE  LockInv'
    BY <1>21 DEF FlushState, Flushed
  <1>22. ASSUME NEW t \in Threads, SetLockValue(t)
        PROVE  LockInv'
    BY <1>22 DEF SetLockValue
  <1>23. ASSUME NEW t \in Threads, Publish(t)
        PROVE  LockInv'
    BY <1>23 DEF Publish
  <1>24. ASSUME NEW t \in Threads, FlushPointer(t)
        PROVE  LockInv'
    BY <1>24 DEF FlushPointer, FlushedPointer
  <1>25. ASSUME NEW t \in Threads, AfterPersist(t)
        PROVE  LockInv'
    BY <1>25 DEF AfterPersist
  <1>26. ASSUME NEW t \in Threads, Unlock(t)
        PROVE  LockInv'
    BY <1>26, IncParity DEF Unlock, Released
  <1>27. ASSUME NEW t \in Threads, ReturnCombiner(t)
        PROVE  LockInv'
    BY <1>27 DEF ReturnCombiner, Leave
  <1> QED
    BY <1>1, <1>2, <1>3, <1>4, <1>5, <1>6, <1>7, <1>8, <1>9, <1>10, <1>11,
       <1>12, <1>13, <1>14, <1>15, <1>16, <1>17, <1>18, <1>19, <1>20, <1>21,
       <1>22, <1>23, <1>24, <1>25, <1>26, <1>27
       DEF Next, Step, Wait, Combine

-----------------------------------------------------------------------------
(* The record a combiner works on is its own *)

(* Between publishing its record and advancing its pool index a thread's     *)
(* working record is the published one; at all other times it is neither the *)
(* published record nor the durable one.  The index advances (line 204) only *)
(* after the pointer was drained (line 198), which is why it never moves     *)
(* onto the record a crash would recover.                                    *)
PoolInv ==
    \A t \in Threads :
        /\ pc[t] \notin Releasing =>
               WorkRec(t) # last_state /\ WorkRec(t) # nvm_last_state
        /\ pc[t] \in Releasing => last_state = WorkRec(t)
        /\ pc[t] \in {"after_persist", "unlock"} => nvm_last_state = last_state

(* Publish, FlushPointer and Unlock are the steps PoolInv is about.          *)
LEMMA PoolStep == TypeInv /\ OneCombiner /\ PoolInv /\ [Next]_vars => PoolInv'
  <1> SUFFICES ASSUME TypeInv, OneCombiner, PoolInv, [Next]_vars
               PROVE  PoolInv'
    OBVIOUS
  <1> /\ pc \in [Threads -> Labels]
      /\ pool_index \in [Threads -> 0 .. PoolSize - 1]
    BY DEF TypeInv, TypeOK
  <1> \A t, u \in Threads : pc[t] \in Holding /\ pc[u] \in Holding => t = u
    BY DEF OneCombiner
  <1> USE DEF PoolInv, WorkRec, Holding, Filling, Serving, Releasing, At, Goto,
              requestVars, lockVars, recordVars, pointerVars, loopVars,
              localVars
  <1>1. CASE UNCHANGED vars
    BY <1>1 DEF vars
  <1>2. CASE Evict
    BY <1>2 DEF Evict
  <1>3. ASSUME NEW t \in Threads, NEW a \in Args, WriteArg(t, a)
        PROVE  PoolInv'
    BY <1>3 DEF WriteArg
  <1>4. ASSUME NEW t \in Threads, ToggleActivate(t)
        PROVE  PoolInv'
    BY <1>4 DEF ToggleActivate
  <1>5. ASSUME NEW t \in Threads, SetValid(t)
        PROVE  PoolInv'
    BY <1>5 DEF SetValid
  <1>6. ASSUME NEW t \in Threads, ReadLock(t)
        PROVE  PoolInv'
    BY <1>6 DEF ReadLock
  <1>7. ASSUME NEW t \in Threads, TryLock(t)
        PROVE  PoolInv'
    <2>1. CASE lock = local_lock[t]
      BY <1>7, <2>1 DEF TryLock, CASSucceeds
    <2>2. CASE lock # local_lock[t]
      BY <1>7, <2>2 DEF TryLock, CASSucceeds
    <2> QED
      BY <2>1, <2>2
  <1>8. ASSUME NEW t \in Threads, SpinWhileLocked(t)
        PROVE  PoolInv'
    BY <1>8 DEF SpinWhileLocked
  <1>9. ASSUME NEW t \in Threads, ReadLastState(t)
        PROVE  PoolInv'
    BY <1>9 DEF ReadLastState
  <1>10. ASSUME NEW t \in Threads, CheckServed(t)
        PROVE  PoolInv'
    <2>1. CASE deactivate[local_rec[t]][t] = activate[t]
      BY <1>10, <2>1 DEF CheckServed
    <2>2. CASE deactivate[local_rec[t]][t] # activate[t]
      BY <1>10, <2>2 DEF CheckServed
    <2> QED
      BY <2>1, <2>2
  <1>11. ASSUME NEW t \in Threads, CheckVersion(t)
        PROVE  PoolInv'
    BY <1>11 DEF CheckVersion
  <1>12. ASSUME NEW t \in Threads, WaitNext(t)
        PROVE  PoolInv'
    BY <1>12 DEF WaitNext, IsReleasing
  <1>13. ASSUME NEW t \in Threads, ReturnServed(t)
        PROVE  PoolInv'
    BY <1>13 DEF ReturnServed, Leave
  <1>14. ASSUME NEW t \in Threads, CopyState(t)
        PROVE  PoolInv'
    <2>1. CASE CopyAscending(t)
      BY <1>14, <2>1
         DEF CopyState, CopyFlex, CopyAscending, CopyDescending, CopyResults,
             CopyDeactivate
    <2>2. CASE CopyDescending(t)
      BY <1>14, <2>2
         DEF CopyState, CopyFlex, CopyAscending, CopyDescending, CopyResults,
             CopyDeactivate
    <2> QED
      BY <1>14, <2>1, <2>2 DEF CopyState, CopyFlex
  <1>15. ASSUME NEW t \in Threads, SkipRequest(t)
        PROVE  PoolInv'
    BY <1>15 DEF SkipRequest
  <1>16. ASSUME NEW t \in Threads, FindRequest(t)
        PROVE  PoolInv'
    BY <1>16 DEF FindRequest
  <1>17. ASSUME NEW t \in Threads, ServeRequest(t)
        PROVE  PoolInv'
    BY <1>17 DEF ServeRequest
  <1>18. ASSUME NEW t \in Threads, MarkServed(t)
        PROVE  PoolInv'
    BY <1>18 DEF MarkServed
  <1>19. ASSUME NEW t \in Threads, EndPass(t)
        PROVE  PoolInv'
    <2>1. CASE serve_reqs[t] /\ i[t] + 1 < Rounds
      BY <1>19, <2>1 DEF EndPass
    <2>2. CASE ~(serve_reqs[t] /\ i[t] + 1 < Rounds)
      BY <1>19, <2>2 DEF EndPass
    <2> QED
      BY <2>1, <2>2
  <1>20. ASSUME NEW t \in Threads, FinalPersist(t)
        PROVE  PoolInv'
    BY <1>20 DEF FinalPersist
  <1>21. ASSUME NEW t \in Threads, FlushState(t)
        PROVE  PoolInv'
    BY <1>21 DEF FlushState, Flushed
  <1>22. ASSUME NEW t \in Threads, SetLockValue(t)
        PROVE  PoolInv'
    BY <1>22 DEF SetLockValue
  <1>23. ASSUME NEW t \in Threads, Publish(t)
        PROVE  PoolInv'
    BY <1>23 DEF Publish
  <1>24. ASSUME NEW t \in Threads, FlushPointer(t)
        PROVE  PoolInv'
    BY <1>24 DEF FlushPointer, FlushedPointer
  <1>25. ASSUME NEW t \in Threads, AfterPersist(t)
        PROVE  PoolInv'
    BY <1>25 DEF AfterPersist
  <1>26. ASSUME NEW t \in Threads, Unlock(t)
        PROVE  PoolInv'
    BY <1>26, NextIndexMoves DEF Unlock, Released
  <1>27. ASSUME NEW t \in Threads, ReturnCombiner(t)
        PROVE  PoolInv'
    BY <1>27 DEF ReturnCombiner, Leave
  <1> QED
    BY <1>1, <1>2, <1>3, <1>4, <1>5, <1>6, <1>7, <1>8, <1>9, <1>10, <1>11,
       <1>12, <1>13, <1>14, <1>15, <1>16, <1>17, <1>18, <1>19, <1>20, <1>21,
       <1>22, <1>23, <1>24, <1>25, <1>26, <1>27
       DEF Next, Step, Wait, Combine

-----------------------------------------------------------------------------
(* The durable image *)

(* A published record is clean, and so is one about to be published.         *)
ImageInv ==
    /\ ImageComplete
    /\ \A t \in Threads :
          pc[t] \in {"lock_value", "publish"} => clean[WorkRec(t)]

(* A combiner dirties its working record only, which PoolInv keeps apart     *)
(* from the published and the durable one, and flushes it before it          *)
(* publishes it.                                                             *)
LEMMA ImageStep ==
    TypeInv /\ OneCombiner /\ PoolInv /\ ImageInv /\ [Next]_vars => ImageInv'
  <1> SUFFICES ASSUME TypeInv, OneCombiner, PoolInv, ImageInv, [Next]_vars
               PROVE  ImageInv'
    OBVIOUS
  <1> /\ pc \in [Threads -> Labels]
      /\ clean \in [Recs -> BOOLEAN]
      /\ PoolRecs \subseteq Recs
    BY DEF TypeInv, TypeOK, Recs
  <1> \A t, u \in Threads : pc[t] \in Holding /\ pc[u] \in Holding => t = u
    BY DEF OneCombiner
  <1> \A t \in Threads : WorkRec(t) \in PoolRecs
    BY WorkRecType DEF TypeInv
  <1> USE DEF ImageInv, ImageComplete, PoolInv, Holding, Filling, Serving,
              Releasing, At, Goto, requestVars, lockVars, recordVars,
              pointerVars, loopVars, localVars
  <1>1. CASE UNCHANGED vars
    BY <1>1 DEF vars, WorkRec
  <1>2. CASE Evict
    BY <1>2 DEF Evict, WorkRec
  <1>3. ASSUME NEW t \in Threads, NEW a \in Args, WriteArg(t, a)
        PROVE  ImageInv'
    BY <1>3 DEF WriteArg, WorkRec
  <1>4. ASSUME NEW t \in Threads, ToggleActivate(t)
        PROVE  ImageInv'
    BY <1>4 DEF ToggleActivate, WorkRec
  <1>5. ASSUME NEW t \in Threads, SetValid(t)
        PROVE  ImageInv'
    BY <1>5 DEF SetValid, WorkRec
  <1>6. ASSUME NEW t \in Threads, ReadLock(t)
        PROVE  ImageInv'
    BY <1>6 DEF ReadLock, WorkRec
  <1>7. ASSUME NEW t \in Threads, TryLock(t)
        PROVE  ImageInv'
    <2>1. CASE lock = local_lock[t]
      BY <1>7, <2>1 DEF TryLock, CASSucceeds, WorkRec
    <2>2. CASE lock # local_lock[t]
      BY <1>7, <2>2 DEF TryLock, CASSucceeds, WorkRec
    <2> QED
      BY <2>1, <2>2
  <1>8. ASSUME NEW t \in Threads, SpinWhileLocked(t)
        PROVE  ImageInv'
    BY <1>8 DEF SpinWhileLocked, WorkRec
  <1>9. ASSUME NEW t \in Threads, ReadLastState(t)
        PROVE  ImageInv'
    BY <1>9 DEF ReadLastState, WorkRec
  <1>10. ASSUME NEW t \in Threads, CheckServed(t)
        PROVE  ImageInv'
    <2>1. CASE deactivate[local_rec[t]][t] = activate[t]
      BY <1>10, <2>1 DEF CheckServed, WorkRec
    <2>2. CASE deactivate[local_rec[t]][t] # activate[t]
      BY <1>10, <2>2 DEF CheckServed, WorkRec
    <2> QED
      BY <2>1, <2>2
  <1>11. ASSUME NEW t \in Threads, CheckVersion(t)
        PROVE  ImageInv'
    BY <1>11 DEF CheckVersion, WorkRec
  <1>12. ASSUME NEW t \in Threads, WaitNext(t)
        PROVE  ImageInv'
    BY <1>12 DEF WaitNext, IsReleasing, WorkRec
  <1>13. ASSUME NEW t \in Threads, ReturnServed(t)
        PROVE  ImageInv'
    BY <1>13 DEF ReturnServed, Leave, WorkRec
  <1>14. ASSUME NEW t \in Threads, CopyState(t)
        PROVE  ImageInv'
    <2>1. CASE CopyAscending(t)
      BY <1>14, <2>1
         DEF CopyState, CopyFlex, CopyAscending, CopyDescending, CopyResults,
             CopyDeactivate, WorkRec
    <2>2. CASE CopyDescending(t)
      BY <1>14, <2>2
         DEF CopyState, CopyFlex, CopyAscending, CopyDescending, CopyResults,
             CopyDeactivate, WorkRec
    <2> QED
      BY <1>14, <2>1, <2>2 DEF CopyState, CopyFlex
  <1>15. ASSUME NEW t \in Threads, SkipRequest(t)
        PROVE  ImageInv'
    BY <1>15 DEF SkipRequest, WorkRec
  <1>16. ASSUME NEW t \in Threads, FindRequest(t)
        PROVE  ImageInv'
    BY <1>16 DEF FindRequest, WorkRec
  <1>17. ASSUME NEW t \in Threads, ServeRequest(t)
        PROVE  ImageInv'
    BY <1>17 DEF ServeRequest, WorkRec
  <1>18. ASSUME NEW t \in Threads, MarkServed(t)
        PROVE  ImageInv'
    BY <1>18 DEF MarkServed, WorkRec
  <1>19. ASSUME NEW t \in Threads, EndPass(t)
        PROVE  ImageInv'
    <2>1. CASE serve_reqs[t] /\ i[t] + 1 < Rounds
      BY <1>19, <2>1 DEF EndPass, WorkRec
    <2>2. CASE ~(serve_reqs[t] /\ i[t] + 1 < Rounds)
      BY <1>19, <2>2 DEF EndPass, WorkRec
    <2> QED
      BY <2>1, <2>2
  <1>20. ASSUME NEW t \in Threads, FinalPersist(t)
        PROVE  ImageInv'
    BY <1>20 DEF FinalPersist, WorkRec
  <1>21. ASSUME NEW t \in Threads, FlushState(t)
        PROVE  ImageInv'
    BY <1>21 DEF FlushState, Flushed, WorkRec
  <1>22. ASSUME NEW t \in Threads, SetLockValue(t)
        PROVE  ImageInv'
    BY <1>22 DEF SetLockValue, WorkRec
  <1>23. ASSUME NEW t \in Threads, Publish(t)
        PROVE  ImageInv'
    BY <1>23 DEF Publish, WorkRec
  <1>24. ASSUME NEW t \in Threads, FlushPointer(t)
        PROVE  ImageInv'
    BY <1>24 DEF FlushPointer, FlushedPointer, WorkRec
  <1>25. ASSUME NEW t \in Threads, AfterPersist(t)
        PROVE  ImageInv'
    BY <1>25 DEF AfterPersist, WorkRec
  <1>26. ASSUME NEW t \in Threads, Unlock(t)
        PROVE  ImageInv'
    BY <1>26 DEF Unlock, Released, WorkRec
  <1>27. ASSUME NEW t \in Threads, ReturnCombiner(t)
        PROVE  ImageInv'
    BY <1>27 DEF ReturnCombiner, Leave, WorkRec
  <1> QED
    BY <1>1, <1>2, <1>3, <1>4, <1>5, <1>6, <1>7, <1>8, <1>9, <1>10, <1>11,
       <1>12, <1>13, <1>14, <1>15, <1>16, <1>17, <1>18, <1>19, <1>20, <1>21,
       <1>22, <1>23, <1>24, <1>25, <1>26, <1>27
       DEF Next, Step, Wait, Combine

-----------------------------------------------------------------------------
(* Waiting threads and the lock word *)

Waiters == {"spin", "read_last", "check", "check_version", "wait_next"}

(* Where the pointer and the lock word stand.  Before the first session has  *)
(* published, nobody has got past the spin loop.  Except between Publish and *)
(* FlushPointer the durable pointer is the current one.                      *)
WaitInv ==
    /\ \A t \in Threads :
          /\ pc[t] \notin {"idle", "activate", "valid"} => valid[t] = 1
          /\ pc[t] \in Waiters => IsHeld(local_lock[t])
          /\ pc[t] \in {"publish"} \union Releasing => lock_value = lock
          /\ last_state = InitRec /\ pc[t] \in Waiters =>
                 pc[t] = "spin" /\ local_lock[t] = lock
    /\ last_state = InitRec => nvm_last_state \in {NoRec, InitRec}
    /\ nvm_last_state # last_state =>
          \/ last_state = InitRec
          \/ \E t \in Threads : pc[t] = "flush_pointer"

-----------------------------------------------------------------------------
(* Served requests *)

Served(r, t) == deactivate[r][t] = activate[t]

(* The steps at which a thread holds the pointer it read on line 152 (or, as *)
(* a combiner, its new_state), and those after it found its request served.  *)
Confirmed == {"check_version", "wait_next", "return", "combiner_return"}
Examining == Confirmed \union {"check"}

(* The combiner c has the deactivate array of its working record in place.   *)
HasCopied(c) == pc[c] \in Serving \union {"copy_results"}

(* The combiner c has been past request k in its first pass.                 *)
HasPassed(c, k) ==
    \/ pc[c] \in {"scan", "serve", "mark"} /\ (i[c] > 0 \/ j[c] > k)
    \/ pc[c] \in (Serving \ {"scan", "serve", "mark"}) \union Releasing

(* The request of k was announced before the session of the combiner c       *)
(* began: k is c, or k waited for the session before it.                     *)
AnnouncedBefore(c, k) ==
    \/ k = c
    \/ pc[k] \in Waiters /\ lock = Inc(Inc(local_lock[k]))

(* A request served in the durable record is served in the current one, and  *)
(* in the one a combiner prepares; the requests of idle threads are served   *)
(* everywhere.                                                               *)
DurableServed ==
    \A t \in Threads :
        nvm_last_state # NoRec /\ Served(nvm_last_state, t) =>
            Served(last_state, t)

CopyServed ==
    \A c, t \in Threads :
        HasCopied(c) /\ Served(last_state, t) => Served(WorkRec(c), t)

IdleServed ==
    \A t \in Threads : pc[t] \in {"idle", "activate"} =>
        /\ Served(last_state, t)
        /\ nvm_last_state # NoRec => Served(nvm_last_state, t)

PendingUnserved ==
    \A c \in Threads : pc[c] \in {"serve", "mark"} =>
        ~Served(WorkRec(c), j[c])

ChainInv == DurableServed /\ CopyServed /\ IdleServed /\ PendingUnserved

(* A session serves every request announced before it; a waiter whose lock   *)
(* value is two sessions old is durable, and so is a call about to return.   *)
SessionServes ==
    \A c, k \in Threads :
        pc[c] \in Holding /\ AnnouncedBefore(c, k) /\ HasPassed(c, k) =>
            Served(WorkRec(c), k)

OldWaitersDurable ==
    \A t \in Threads :
        /\ pc[t] \in Waiters
        /\ pc[t] = "spin" => lock # local_lock[t]
        /\ lock \notin {Inc(local_lock[t]), Inc(Inc(local_lock[t]))}
        => IsDurable(t)

ReturningDurable == \A t \in Threads : AtReturn(t) => IsDurable(t)

SessionInv == SessionServes /\ OldWaitersDurable /\ ReturningDurable

(* What a thread reads through a pointer that may be stale: the record is    *)
(* still the current one, or was replaced by a session that served it, or    *)
(* the request is durable; a request it finds served is served.              *)
StaleRecord ==
    \A t \in Threads : pc[t] \in Examining =>
        \/ IsDurable(t)
        \/ local_rec[t] = last_state
        \/ /\ lock = Inc(Inc(local_lock[t]))
           /\ \E c \in Threads : pc[c] \in Releasing

StaleServed ==
    \A t \in Threads : pc[t] \in Examining /\ Served(local_rec[t], t) =>
        Served(last_state, t)

StaleConfirmed ==
    \A t \in Threads : pc[t] \in Confirmed => Served(local_rec[t], t)

StaleInv == StaleRecord /\ StaleServed /\ StaleConfirmed

(* With memcpy in ascending order, the results go with the deactivate bits.  *)
CopyOrder ==
    \A c \in Threads :
        /\ pc[c] # "copy_results"
        /\ pc[c] = "copy_deactivate" =>
               return_value[WorkRec(c)] = return_value[last_state]

DurableResult ==
    \A t \in Threads :
        nvm_last_state # NoRec /\ Served(nvm_last_state, t) =>
            return_value[nvm_last_state][t] = return_value[last_state][t]

CopyResult ==
    \A c, t \in Threads :
        HasCopied(c) /\ Served(last_state, t) =>
            return_value[WorkRec(c)][t] = return_value[last_state][t]

ExaminedResult ==
    \A t \in Threads :
        pc[t] \in Examining /\ Served(local_rec[t], t) =>
            return_value[local_rec[t]][t] = return_value[last_state][t]

ResultInv == CopyOrder /\ DurableResult /\ CopyResult /\ ExaminedResult

-----------------------------------------------------------------------------
(* Steps preserve the invariants on waiting threads *)

(* Every step preserves WaitInv: a spinning thread cannot see the lock move  *)
(* before a session has published a record.                                  *)
LEMMA WaitStep ==
    TypeInv /\ LockInv /\ PoolInv /\ WaitInv /\ [Next]_vars => WaitInv'
  <1> SUFFICES ASSUME TypeInv, LockInv, PoolInv, WaitInv, [Next]_vars
               PROVE  WaitInv'
    OBVIOUS
  <1> /\ pc \in [Threads -> Labels]
      /\ local_lock \in [Threads -> 0 .. LockMod - 1]
      /\ lock \in 0 .. LockMod - 1
      /\ valid \in [Threads -> {0, 1}]
    BY DEF TypeInv, TypeOK
  <1> \A t, u \in Threads : pc[t] \in Holding /\ pc[u] \in Holding => t = u
    BY DEF LockInv, OneCombiner
  <1> \A t \in Threads : pc[t] \in Holding => IsHeld(lock)
    BY DEF LockInv, OneCombiner
  <1> /\ \A t \in Threads : pc[t] = "cas" => ~IsHeld(local_lock[t])
      /\ \A t \in Threads : pc[t] \in Releasing => last_state = WorkRec(t)
      /\ \A t \in Threads :
            pc[t] \in {"after_persist", "unlock"} => nvm_last_state = last_state
    BY DEF LockInv, PoolInv
  <1> \A t \in Threads : WorkRec(t) \in PoolRecs /\ WorkRec(t) # InitRec
    BY WorkRecType, RecordsAssumption DEF TypeInv
  <1> USE DEF WaitInv, Waiters, Holding, Filling, Serving, Releasing, At, Goto,
              requestVars, lockVars, recordVars, pointerVars, loopVars,
              localVars
  <1>1. CASE UNCHANGED vars
    BY <1>1 DEF vars
  <1>2. CASE Evict
    BY <1>2 DEF Evict
  <1>3. ASSUME NEW t \in Threads, NEW a \in Args, WriteArg(t, a)
        PROVE  WaitInv'
    BY <1>3 DEF WriteArg
  <1>4. ASSUME NEW t \in Threads, ToggleActivate(t)
        PROVE  WaitInv'
    BY <1>4 DEF ToggleActivate
  <1>5. ASSUME NEW t \in Threads, SetValid(t)
        PROVE  WaitInv'
    BY <1>5 DEF SetValid
  <1>6. ASSUME NEW t \in Threads, ReadLock(t)
        PROVE  WaitInv'
    BY <1>6 DEF ReadLock
  <1>7. ASSUME NEW t \in Threads, TryLock(t)
        PROVE  WaitInv'
    <2>1. CASE lock = local_lock[t]
      BY <1>7, <2>1, IncParity DEF TryLock, CASSucceeds
    <2>2. CASE lock # local_lock[t]
      BY <1>7, <2>2, IncParity DEF TryLock, CASSucceeds
    <2> QED
      BY <2>1, <2>2
  <1>8. ASSUME NEW t \in Threads, SpinWhileLocked(t)
        PROVE  WaitInv'
    BY <1>8 DEF SpinWhileLocked
  <1>9. ASSUME NEW t \in Threads, ReadLastState(t)
        PROVE  WaitInv'
    BY <1>9 DEF ReadLastState
  <1>10. ASSUME NEW t \in Threads, CheckServed(t)
        PROVE  WaitInv'
    <2>1. CASE deactivate[local_rec[t]][t] = activate[t]
      BY <1>10, <2>1 DEF CheckServed
    <2>2. CASE deactivate[local_rec[t]][t] # activate[t]
      BY <1>10, <2>2 DEF CheckServed
    <2> QED
      BY <2>1, <2>2
  <1>11. ASSUME NEW t \in Threads, CheckVersion(t)
        PROVE  WaitInv'
    BY <1>11 DEF CheckVersion
  <1>12. ASSUME NEW t \in Threads, WaitNext(t)
        PROVE  WaitInv'
    BY <1>12 DEF WaitNext, IsReleasing
  <1>13. ASSUME NEW t \in Threads, ReturnServed(t)
        PROVE  WaitInv'
    BY <1>13 DEF ReturnServed, Leave
  <1>14. ASSUME NEW t \in Threads, CopyState(t)
        PROVE  WaitInv'
    <2>1. CASE CopyAscending(t)
      BY <1>14, <2>1
         DEF CopyState, CopyFlex, CopyAscending, CopyDescending, CopyResults,
             CopyDeactivate
    <2>2. CASE CopyDescending(t)
      BY <1>14, <2>2
         DEF CopyState, CopyFlex, CopyAscending, CopyDescending, CopyResults,
             CopyDeactivate
    <2> QED
      BY <1>14, <2>1, <2>2 DEF CopyState, CopyFlex
  <1>15. ASSUME NEW t \in Threads, SkipRequest(t)
        PROVE  WaitInv'
    BY <1>15 DEF SkipRequest
  <1>16. ASSUME NEW t \in Threads, FindRequest(t)
        PROVE  WaitInv'
    BY <1>16 DEF FindRequest
  <1>17. ASSUME NEW t \in Threads, ServeRequest(t)
        PROVE  WaitInv'
    BY <1>17 DEF ServeRequest
  <1>18. ASSUME NEW t \in Threads, MarkServed(t)
        PROVE  WaitInv'
    BY <1>18 DEF MarkServed
  <1>19. ASSUME NEW t \in Threads, EndPass(t)
        PROVE  WaitInv'
    <2>1. CASE serve_reqs[t] /\ i[t] + 1 < Rounds
      BY <1>19, <2>1 DEF EndPass
    <2>2. CASE ~(serve_reqs[t] /\ i[t] + 1 < Rounds)
      BY <1>19, <2>2 DEF EndPass
    <2> QED
      BY <2>1, <2>2
  <1>20. ASSUME NEW t \in Threads, FinalPersist(t)
        PROVE  WaitInv'
    BY <1>20 DEF FinalPersist
  <1>21. ASSUME NEW t \in Threads, FlushState(t)
        PROVE  WaitInv'
    BY <1>21 DEF FlushState, Flushed
  <1>22. ASSUME NEW t \in Threads, SetLockValue(t)
        PROVE  WaitInv'
    BY <1>22 DEF SetLockValue
  <1>23. ASSUME NEW t \in Threads, Publish(t)
        PROVE  WaitInv'
    BY <1>23 DEF Publish
  <1>24. ASSUME NEW t \in Threads, FlushPointer(t)
        PROVE  WaitInv'
    BY <1>24 DEF FlushPointer, FlushedPointer
  <1>25. ASSUME NEW t \in Threads, AfterPersist(t)
        PROVE  WaitInv'
    BY <1>25 DEF AfterPersist
  <1>26. ASSUME NEW t \in Threads, Unlock(t)
        PROVE  WaitInv'
    BY <1>26, IncParity DEF Unlock, Released
  <1>27. ASSUME NEW t \in Threads, ReturnCombiner(t)
        PROVE  WaitInv'
    BY <1>27 DEF ReturnCombiner, Leave
  <1> QED
    BY <1>1, <1>2, <1>3, <1>4, <1>5, <1>6, <1>7, <1>8, <1>9, <1>10, <1>11,
       <1>12, <1>13, <1>14, <1>15, <1>16, <1>17, <1>18, <1>19, <1>20, <1>21,
       <1>22, <1>23, <1>24, <1>25, <1>26, <1>27
       DEF Next, Step, Wait, Combine
-----------------------------------------------------------------------------
(* Steps preserve the invariants on served requests *)

(* Every step preserves ChainInv.  The combiner's copy starts with every     *)
(* request the published record has served, and serving only adds requests.  *)
LEMMA ChainStep ==
    /\ TypeInv /\ LockInv /\ PoolInv /\ WaitInv
    /\ ChainInv /\ SessionInv
    /\ [Next]_vars
    => ChainInv'
  <1> SUFFICES ASSUME TypeInv, LockInv, PoolInv, WaitInv,
                      ChainInv, SessionInv, [Next]_vars
               PROVE  ChainInv'
    OBVIOUS
  <1> /\ pc \in [Threads -> Labels]
      /\ activate \in [Threads -> {0, 1}]
      /\ deactivate \in [Recs -> [Threads -> {0, 1}]]
      /\ j \in [Threads -> 0 .. NThreads]
      /\ last_state \in Recs
      /\ nvm_last_state \in Recs \union {NoRec}
    BY DEF TypeInv, TypeOK
  <1> \A t, u \in Threads : pc[t] \in Holding /\ pc[u] \in Holding => t = u
    BY DEF LockInv, OneCombiner
  <1> \A t \in Threads :
          /\ pc[t] \notin Releasing =>
                 WorkRec(t) # last_state /\ WorkRec(t) # nvm_last_state
          /\ pc[t] \in {"serve", "mark"} => j[t] \in Threads
    BY DEF PoolInv, TypeInv, ScanInRange
  <1> \A t \in Threads : WorkRec(t) \in Recs
    BY WorkRecType DEF TypeInv
  <1> NoRec \notin Recs
    BY RecordsAssumption
  <1> \A t \in Threads :
          AtReturn(t) => nvm_last_state # NoRec /\ Served(nvm_last_state, t)
    BY RecordsAssumption
       DEF SessionInv, ReturningDurable, IsDurable, Served, Recs
  <1> USE DEF ChainInv, DurableServed, CopyServed, IdleServed, PendingUnserved,
              Served, HasCopied, AtReturn, Holding, Filling, Serving,
              Releasing, At, Goto, requestVars, lockVars, recordVars,
              pointerVars, loopVars, localVars
  <1>1. CASE UNCHANGED vars
    BY <1>1 DEF vars, WorkRec
  <1>2. CASE Evict
    BY <1>2 DEF Evict, WorkRec
  <1>3. ASSUME NEW t \in Threads, NEW a \in Args, WriteArg(t, a)
        PROVE  ChainInv'
    BY <1>3 DEF WriteArg, WorkRec
  <1>4. ASSUME NEW t \in Threads, ToggleActivate(t)
        PROVE  ChainInv'
    <2>1. /\ pc[t] = "activate" /\ pc' = [pc EXCEPT ![t] = "valid"]
          /\ activate' = [activate EXCEPT ![t] = 1 - activate[t]]
          /\ UNCHANGED <<deactivate, last_state, nvm_last_state, j>>
          /\ \A c \in Threads : WorkRec(c)' = WorkRec(c)
      BY <1>4 DEF ToggleActivate, WorkRec
    <2>2. /\ Served(last_state, t)
          /\ nvm_last_state # NoRec => Served(nvm_last_state, t)
          /\ \A c \in Threads : HasCopied(c) => Served(WorkRec(c), t)
      BY <2>1
    <2>3. /\ 1 - activate[t] # activate[t]
          /\ \A u \in Threads \ {t} : activate'[u] = activate[u]
      <3>1. activate[t] \in {0, 1}
        OBVIOUS
      <3>2. 1 - activate[t] # activate[t]
        BY <3>1, FlippedBit
      <3> QED
        BY <2>1, <3>2
    <2>4. /\ ~Served(last_state, t)'
          /\ nvm_last_state # NoRec => ~Served(nvm_last_state, t)'
      BY <2>1, <2>2, <2>3
    <2>5. \A c \in Threads : pc[c] \in {"serve", "mark"} => j[c] # t
      <3> SUFFICES ASSUME NEW c \in Threads, pc[c] \in {"serve", "mark"},
                          j[c] = t
                   PROVE  FALSE
        OBVIOUS
      <3>1. HasCopied(c) /\ ~Served(WorkRec(c), t)
        OBVIOUS
      <3> QED
        BY <2>2, <3>1
    <2> QED
      BY <2>1, <2>3, <2>4, <2>5
  <1>5. ASSUME NEW t \in Threads, SetValid(t)
        PROVE  ChainInv'
    BY <1>5 DEF SetValid, WorkRec
  <1>6. ASSUME NEW t \in Threads, ReadLock(t)
        PROVE  ChainInv'
    BY <1>6 DEF ReadLock, WorkRec
  <1>7. ASSUME NEW t \in Threads, TryLock(t)
        PROVE  ChainInv'
    <2>1. CASE lock = local_lock[t]
      BY <1>7, <2>1 DEF TryLock, CASSucceeds, WorkRec
    <2>2. CASE lock # local_lock[t]
      BY <1>7, <2>2 DEF TryLock, CASSucceeds, WorkRec
    <2> QED
      BY <2>1, <2>2
  <1>8. ASSUME NEW t \in Threads, SpinWhileLocked(t)
        PROVE  ChainInv'
    BY <1>8 DEF SpinWhileLocked, WorkRec
  <1>9. ASSUME NEW t \in Threads, ReadLastState(t)
        PROVE  ChainInv'
    BY <1>9 DEF ReadLastState, WorkRec
  <1>10. ASSUME NEW t \in Threads, CheckServed(t)
        PROVE  ChainInv'
    <2>1. CASE deactivate[local_rec[t]][t] = activate[t]
      BY <1>10, <2>1 DEF CheckServed, WorkRec
    <2>2. CASE deactivate[local_rec[t]][t] # activate[t]
      BY <1>10, <2>2 DEF CheckServed, WorkRec
    <2> QED
      BY <2>1, <2>2
  <1>11. ASSUME NEW t \in Threads, CheckVersion(t)
        PROVE  ChainInv'
    BY <1>11 DEF CheckVersion, WorkRec
  <1>12. ASSUME NEW t \in Threads, WaitNext(t)
        PROVE  ChainInv'
    BY <1>12 DEF WaitNext, IsReleasing, WorkRec
  <1>13. ASSUME NEW t \in Threads, ReturnServed(t)
        PROVE  ChainInv'
    BY <1>13 DEF ReturnServed, Leave, WorkRec
  <1>14. ASSUME NEW t \in Threads, CopyState(t)
        PROVE  ChainInv'
    <2>1. /\ \A r \in Recs \ {WorkRec(t)} : deactivate'[r] = deactivate[r]
          /\ pc[t] \in Filling
          /\ \A c \in Threads \ {t} : ~HasCopied(c) /\ pc'[c] = pc[c]
          /\ pc'[t] \in {"copy_deactivate", "copy_results", "scan"}
          /\ UNCHANGED <<activate, last_state, nvm_last_state>>
          /\ \A c \in Threads : WorkRec(c)' = WorkRec(c)
      BY <1>14 DEF CopyState, CopyFlex, CopyAscending, CopyDescending,
                CopyResults, CopyDeactivate, WorkRec
    <2>2. \/ deactivate'[WorkRec(t)] = deactivate[last_state]
          \/ deactivate' = deactivate /\ pc'[t] = "copy_deactivate"
          \/ deactivate' = deactivate /\ pc[t] = "copy_results"
      BY <1>14 DEF CopyState, CopyFlex, CopyAscending, CopyDescending,
                CopyResults, CopyDeactivate
    <2>3. \A k \in Threads :
              HasCopied(t)' /\ Served(last_state, k) => Served(WorkRec(t), k)'
      <3>1. CASE deactivate'[WorkRec(t)] = deactivate[last_state]
        BY <2>1, <3>1
      <3>2. CASE deactivate' = deactivate /\ pc'[t] = "copy_deactivate"
        BY <3>2
      <3>3. CASE deactivate' = deactivate /\ pc[t] = "copy_results"
        BY <2>1, <3>3
      <3> QED
        BY <2>2, <3>1, <3>2, <3>3
    <2>4. \A c \in Threads :
              /\ pc'[c] \notin {"serve", "mark"}
              /\ pc'[c] \in {"idle", "activate"} => pc[c] \in {"idle", "activate"}
      BY <2>1
    <2>5. \A c \in Threads \ {t} : ~HasCopied(c)'
      BY <2>1
    <2>6. CopyServed'
      BY <2>1, <2>3, <2>5
    <2>7. DurableServed' /\ IdleServed'
      BY <2>1, <2>4
    <2>8. PendingUnserved'
      BY <2>4
    <2> QED
      BY <2>6, <2>7, <2>8
  <1>15. ASSUME NEW t \in Threads, SkipRequest(t)
        PROVE  ChainInv'
    BY <1>15 DEF SkipRequest, WorkRec
  <1>16. ASSUME NEW t \in Threads, FindRequest(t)
        PROVE  ChainInv'
    <2>1. ~Served(WorkRec(t), j[t])
      BY <1>16 DEF FindRequest, IsPending
    <2>2. /\ pc[t] = "scan" /\ pc' = [pc EXCEPT ![t] = "serve"]
          /\ UNCHANGED <<deactivate, activate, last_state, nvm_last_state, j>>
          /\ \A c \in Threads : WorkRec(c)' = WorkRec(c)
      BY <1>16 DEF FindRequest, WorkRec
    <2>3. CopyServed'
      BY <2>2
    <2>4. PendingUnserved'
      BY <2>1, <2>2
    <2> QED
      BY <2>2, <2>3, <2>4
  <1>17. ASSUME NEW t \in Threads, ServeRequest(t)
        PROVE  ChainInv'
    BY <1>17 DEF ServeRequest, WorkRec
  <1>18. ASSUME NEW t \in Threads, MarkServed(t)
        PROVE  ChainInv'
    <2>1. /\ pc[t] = "mark" /\ pc' = [pc EXCEPT ![t] = "scan"]
          /\ j[t] \in Threads
          /\ deactivate' = [deactivate EXCEPT ![WorkRec(t)] =
                               [@ EXCEPT ![j[t]] = activate[j[t]]]]
      BY <1>18 DEF MarkServed
    <2>2. \A r \in Recs \ {WorkRec(t)} : deactivate'[r] = deactivate[r]
      BY <2>1
    <2>3. \A k \in Threads : Served(WorkRec(t), k) => Served(WorkRec(t), k)'
      <3>1. deactivate'[WorkRec(t)] =
                [deactivate[WorkRec(t)] EXCEPT ![j[t]] = activate[j[t]]]
        BY <2>1
      <3>2. activate' = activate /\ WorkRec(t)' = WorkRec(t)
        BY <1>18 DEF MarkServed, WorkRec
      <3> QED
        BY <2>1, <3>1, <3>2
    <2>4. \A c \in Threads \ {t} : ~HasCopied(c)' /\ pc'[c] \notin {"serve", "mark"}
      BY <2>1
    <2>5. /\ UNCHANGED <<activate, last_state, nvm_last_state>>
          /\ \A c \in Threads : WorkRec(c)' = WorkRec(c)
      BY <1>18 DEF MarkServed, WorkRec
    <2>6. /\ HasCopied(t)
          /\ \A u \in Threads : pc'[u] \in {"idle", "activate"} => pc'[u] = pc[u]
      BY <2>1
    <2>7. CopyServed'
      BY <2>2, <2>3, <2>4, <2>5, <2>6
    <2>8. DurableServed' /\ IdleServed'
      BY <2>2, <2>5, <2>6
    <2>9. PendingUnserved'
      BY <2>1, <2>4
    <2> QED
      BY <2>7, <2>8, <2>9
  <1>19. ASSUME NEW t \in Threads, EndPass(t)
        PROVE  ChainInv'
    <2>1. CASE serve_reqs[t] /\ i[t] + 1 < Rounds
      BY <1>19, <2>1 DEF EndPass, WorkRec
    <2>2. CASE ~(serve_reqs[t] /\ i[t] + 1 < Rounds)
      BY <1>19, <2>2 DEF EndPass, WorkRec
    <2> QED
      BY <2>1, <2>2
  <1>20. ASSUME NEW t \in Threads, FinalPersist(t)
        PROVE  ChainInv'
    BY <1>20 DEF FinalPersist, WorkRec
  <1>21. ASSUME NEW t \in Threads, FlushState(t)
        PROVE  ChainInv'
    BY <1>21 DEF FlushState, Flushed, WorkRec
  <1>22. ASSUME NEW t \in Threads, SetLockValue(t)
        PROVE  ChainInv'
    BY <1>22 DEF SetLockValue, WorkRec
  <1>23. ASSUME NEW t \in Threads, Publish(t)
        PROVE  ChainInv'
    BY <1>23 DEF Publish, WorkRec
  <1>24. ASSUME NEW t \in Threads, FlushPointer(t)
        PROVE  ChainInv'
    BY <1>24 DEF FlushPointer, FlushedPointer, WorkRec
  <1>25. ASSUME NEW t \in Threads, AfterPersist(t)
        PROVE  ChainInv'
    BY <1>25 DEF AfterPersist, WorkRec
  <1>26. ASSUME NEW t \in Threads, Unlock(t)
        PROVE  ChainInv'
    BY <1>26 DEF Unlock, Released, WorkRec
  <1>27. ASSUME NEW t \in Threads, ReturnCombiner(t)
        PROVE  ChainInv'
    BY <1>27 DEF ReturnCombiner, Leave, WorkRec
  <1> QED
    BY <1>1, <1>2, <1>3, <1>4, <1>5, <1>6, <1>7, <1>8, <1>9, <1>10, <1>11,
       <1>12, <1>13, <1>14, <1>15, <1>16, <1>17, <1>18, <1>19, <1>20, <1>21,
       <1>22, <1>23, <1>24, <1>25, <1>26, <1>27
       DEF Next, Step, Wait, Combine

(* No step takes a durable operation out of the durable image: the record    *)
(* the pointer leads to is not written, and the pointer moves only to a      *)
(* record that has the operation too.  It lasts until the thread announces   *)
(* its next request.                                                         *)
LEMMA DurableStep ==
    /\ TypeInv /\ PoolInv /\ WaitInv /\ ChainInv
    /\ [Next]_vars
    => \A u \in Threads : IsDurable(u) /\ pc[u] # "activate" => IsDurable(u)'
  <1> SUFFICES ASSUME TypeInv, PoolInv, WaitInv, ChainInv, [Next]_vars
               PROVE  \A u \in Threads :
                          IsDurable(u) /\ pc[u] # "activate" => IsDurable(u)'
    OBVIOUS
  <1> DEFINE G == \A u \in Threads :
                      IsDurable(u) /\ pc[u] # "activate" => IsDurable(u)'
  <1> /\ activate \in [Threads -> {0, 1}]
      /\ deactivate \in [Recs -> [Threads -> {0, 1}]]
      /\ PoolRecs \subseteq Recs
      /\ Recs = PoolRecs \union {InitRec}
      /\ NoRec \notin Recs
      /\ last_state \in Recs
    BY RecordsAssumption DEF TypeInv, TypeOK, Recs
  <1> \A t \in Threads :
          pc[t] \notin Releasing =>
              WorkRec(t) # last_state /\ WorkRec(t) # nvm_last_state
    BY DEF PoolInv
  <1> \A t \in Threads : IsDurable(t) =>
          last_state \in PoolRecs /\ deactivate[last_state][t] = activate[t]
    BY RecordsAssumption DEF ChainInv, DurableServed, Served, WaitInv, IsDurable,
                             Recs
  <1> USE DEF IsDurable, Releasing, At, requestVars, lockVars, recordVars,
              pointerVars, loopVars, localVars
  <1>1. CASE UNCHANGED vars
    BY <1>1 DEF vars
  <1>2. CASE Evict
    BY <1>2 DEF Evict
  <1>3. ASSUME NEW t \in Threads, NEW a \in Args, WriteArg(t, a)
        PROVE  G
    BY <1>3 DEF WriteArg
  <1>4. ASSUME NEW t \in Threads, ToggleActivate(t)
        PROVE  G
    BY <1>4 DEF ToggleActivate
  <1>5. ASSUME NEW t \in Threads, SetValid(t)
        PROVE  G
    BY <1>5 DEF SetValid
  <1>6. ASSUME NEW t \in Threads, ReadLock(t)
        PROVE  G
    BY <1>6 DEF ReadLock
  <1>7. ASSUME NEW t \in Threads, TryLock(t)
        PROVE  G
    BY <1>7 DEF TryLock, CASSucceeds
  <1>8. ASSUME NEW t \in Threads, SpinWhileLocked(t)
        PROVE  G
    BY <1>8 DEF SpinWhileLocked
  <1>9. ASSUME NEW t \in Threads, ReadLastState(t)
        PROVE  G
    BY <1>9 DEF ReadLastState
  <1>10. ASSUME NEW t \in Threads, CheckServed(t)
        PROVE  G
    BY <1>10 DEF CheckServed
  <1>11. ASSUME NEW t \in Threads, CheckVersion(t)
        PROVE  G
    BY <1>11 DEF CheckVersion
  <1>12. ASSUME NEW t \in Threads, WaitNext(t)
        PROVE  G
    BY <1>12 DEF WaitNext, IsReleasing
  <1>13. ASSUME NEW t \in Threads, ReturnServed(t)
        PROVE  G
    BY <1>13 DEF ReturnServed, Leave
  <1>14. ASSUME NEW t \in Threads, CopyState(t)
        PROVE  G
    <2>1. CASE CopyResults(t)
      BY <1>14, <2>1
         DEF CopyState, CopyFlex, CopyAscending, CopyDescending, CopyResults,
             CopyDeactivate
    <2>2. CASE CopyDeactivate(t)
      BY <1>14, <2>2
         DEF CopyState, CopyFlex, CopyAscending, CopyDescending, CopyResults,
             CopyDeactivate
    <2> QED
      BY <1>14, <2>1, <2>2 DEF CopyState, CopyFlex, CopyAscending, CopyDescending
  <1>15. ASSUME NEW t \in Threads, SkipRequest(t)
        PROVE  G
    BY <1>15 DEF SkipRequest
  <1>16. ASSUME NEW t \in Threads, FindRequest(t)
        PROVE  G
    BY <1>16 DEF FindRequest
  <1>17. ASSUME NEW t \in Threads, ServeRequest(t)
        PROVE  G
    BY <1>17 DEF ServeRequest
  <1>18. ASSUME NEW t \in Threads, MarkServed(t)
        PROVE  G
    BY <1>18 DEF MarkServed
  <1>19. ASSUME NEW t \in Threads, EndPass(t)
        PROVE  G
    BY <1>19 DEF EndPass
  <1>20. ASSUME NEW t \in Threads, FinalPersist(t)
        PROVE  G
    BY <1>20 DEF FinalPersist
  <1>21. ASSUME NEW t \in Threads, FlushState(t)
        PROVE  G
    BY <1>21 DEF FlushState, Flushed
  <1>22. ASSUME NEW t \in Threads, SetLockValue(t)
        PROVE  G
    BY <1>22 DEF SetLockValue
  <1>23. ASSUME NEW t \in Threads, Publish(t)
        PROVE  G
    BY <1>23 DEF Publish
  <1>24. ASSUME NEW t \in Threads, FlushPointer(t)
        PROVE  G
    BY <1>24 DEF FlushPointer, FlushedPointer
  <1>25. ASSUME NEW t \in Threads, AfterPersist(t)
        PROVE  G
    BY <1>25 DEF AfterPersist
  <1>26. ASSUME NEW t \in Threads, Unlock(t)
        PROVE  G
    BY <1>26 DEF Unlock, Released
  <1>27. ASSUME NEW t \in Threads, ReturnCombiner(t)
        PROVE  G
    BY <1>27 DEF ReturnCombiner, Leave
  <1> QED
    BY <1>1, <1>2, <1>3, <1>4, <1>5, <1>6, <1>7, <1>8, <1>9, <1>10, <1>11,
       <1>12, <1>13, <1>14, <1>15, <1>16, <1>17, <1>18, <1>19, <1>20, <1>21,
       <1>22, <1>23, <1>24, <1>25, <1>26, <1>27
       DEF Next, Step, Wait, Combine
-----------------------------------------------------------------------------
(* Steps preserve the invariants on sessions *)

(* The scan of lines 173-185 covers every request announced before the       *)
(* session, because none of them can be withdrawn while it runs.             *)
LEMMA SessionServesStep ==
    /\ TypeInv /\ LockInv /\ PoolInv /\ WaitInv
    /\ ChainInv /\ SessionInv
    /\ [Next]_vars
    => SessionServes'
  <1> SUFFICES ASSUME TypeInv, LockInv, PoolInv, WaitInv,
                      ChainInv, SessionInv, [Next]_vars
               PROVE  SessionServes'
    OBVIOUS
  <1> /\ pc \in [Threads -> Labels]
      /\ activate \in [Threads -> {0, 1}]
      /\ deactivate \in [Recs -> [Threads -> {0, 1}]]
      /\ j \in [Threads -> 0 .. NThreads]
      /\ i \in [Threads -> 0 .. Rounds - 1]
      /\ lock \in 0 .. LockMod - 1
      /\ local_lock \in [Threads -> 0 .. LockMod - 1]
    BY DEF TypeInv, TypeOK
  <1> \A t, u \in Threads : pc[t] \in Holding /\ pc[u] \in Holding => t = u
    BY DEF LockInv, OneCombiner
  <1> /\ \A t \in Threads : pc[t] \in Holding => IsHeld(lock)
      /\ \A t \in Threads : pc[t] = "cas" => ~IsHeld(local_lock[t])
    BY DEF LockInv, OneCombiner
  <1> \A t \in Threads : pc[t] \notin {"idle", "activate", "valid"} => valid[t] = 1
    BY DEF WaitInv
  <1> \A t \in Threads : WorkRec(t) \in Recs
    BY WorkRecType DEF TypeInv
  <1> \A t \in Threads :
          pc[t] \notin {"scan", "serve", "mark"} => j[t] = 0 /\ i[t] = 0
    BY DEF TypeInv, ScanInRange
  <1> \A k \in Threads : k \in Int /\ k >= 0 /\ k < NThreads
    BY ConstantsAssumption DEF Threads
  <1> SessionServes
    BY DEF SessionInv
  <1> USE DEF SessionServes, AnnouncedBefore, HasPassed, Served, Waiters,
              Holding, Filling, Serving, Releasing, At, Goto, requestVars,
              lockVars, recordVars, pointerVars, loopVars, localVars
  <1>1. CASE UNCHANGED vars
    BY <1>1 DEF vars, WorkRec
  <1>2. CASE Evict
    BY <1>2 DEF Evict, WorkRec
  <1>3. ASSUME NEW t \in Threads, NEW a \in Args, WriteArg(t, a)
        PROVE  SessionServes'
    BY <1>3 DEF WriteArg, WorkRec
  <1>4. ASSUME NEW t \in Threads, ToggleActivate(t)
        PROVE  SessionServes'
    BY <1>4 DEF ToggleActivate, WorkRec
  <1>5. ASSUME NEW t \in Threads, SetValid(t)
        PROVE  SessionServes'
    BY <1>5 DEF SetValid, WorkRec
  <1>6. ASSUME NEW t \in Threads, ReadLock(t)
        PROVE  SessionServes'
    BY <1>6, IncParity DEF ReadLock, WorkRec
  <1>7. ASSUME NEW t \in Threads, TryLock(t)
        PROVE  SessionServes'
    <2>1. CASE lock = local_lock[t]
      BY <1>7, <2>1, IncParity DEF TryLock, CASSucceeds, WorkRec
    <2>2. CASE lock # local_lock[t]
      BY <1>7, <2>2, IncParity DEF TryLock, CASSucceeds, WorkRec
    <2> QED
      BY <2>1, <2>2
  <1>8. ASSUME NEW t \in Threads, SpinWhileLocked(t)
        PROVE  SessionServes'
    BY <1>8 DEF SpinWhileLocked, WorkRec
  <1>9. ASSUME NEW t \in Threads, ReadLastState(t)
        PROVE  SessionServes'
    BY <1>9 DEF ReadLastState, WorkRec
  <1>10. ASSUME NEW t \in Threads, CheckServed(t)
        PROVE  SessionServes'
    <2>1. CASE deactivate[local_rec[t]][t] = activate[t]
      BY <1>10, <2>1 DEF CheckServed, WorkRec
    <2>2. CASE deactivate[local_rec[t]][t] # activate[t]
      BY <1>10, <2>2 DEF CheckServed, WorkRec
    <2> QED
      BY <2>1, <2>2
  <1>11. ASSUME NEW t \in Threads, CheckVersion(t)
        PROVE  SessionServes'
    BY <1>11 DEF CheckVersion, WorkRec
  <1>12. ASSUME NEW t \in Threads, WaitNext(t)
        PROVE  SessionServes'
    BY <1>12 DEF WaitNext, IsReleasing, WorkRec
  <1>13. ASSUME NEW t \in Threads, ReturnServed(t)
        PROVE  SessionServes'
    BY <1>13 DEF ReturnServed, Leave, WorkRec
  <1>14. ASSUME NEW t \in Threads, CopyState(t)
        PROVE  SessionServes'
    <2>1. CASE CopyAscending(t)
      BY <1>14, <2>1
         DEF CopyState, CopyFlex, CopyAscending, CopyDescending, CopyResults,
             CopyDeactivate, WorkRec
    <2>2. CASE CopyDescending(t)
      BY <1>14, <2>2
         DEF CopyState, CopyFlex, CopyAscending, CopyDescending, CopyResults,
             CopyDeactivate, WorkRec
    <2> QED
      BY <1>14, <2>1, <2>2 DEF CopyState, CopyFlex
  <1>15. ASSUME NEW t \in Threads, SkipRequest(t)
        PROVE  SessionServes'
    <2>1. /\ pc[t] = "scan" /\ j' = [j EXCEPT ![t] = @ + 1]
          /\ UNCHANGED <<pc, i, activate, deactivate, lock, local_lock>>
          /\ \A c \in Threads : WorkRec(c)' = WorkRec(c)
      BY <1>15 DEF SkipRequest, WorkRec
    <2>2. valid[j[t]] = 1 => Served(WorkRec(t), j[t])
      BY <1>15 DEF SkipRequest, IsPending
    <2>3. ASSUME NEW c \in Threads, NEW k \in Threads, pc'[c] \in Holding,
                 AnnouncedBefore(c, k)', HasPassed(c, k)'
          PROVE  Served(WorkRec(c), k)
      <3>1. c = t /\ AnnouncedBefore(t, k)
        BY <2>1, <2>3
      <3>2. CASE k = j[t]
        BY <2>1, <2>2, <3>1, <3>2
      <3>3. CASE k # j[t]
        <4>0. i[t] > 0 \/ j[t] + 1 > k
          BY <2>1, <2>3, <3>1
        <4>1. j[t] \in Int /\ k \in Int
          BY ConstantsAssumption
        <4>2. i[t] > 0 \/ j[t] > k
          BY <3>3, <4>0, <4>1
        <4>3. HasPassed(t, k)
          BY <2>1, <4>2
        <4> QED
          BY <2>1, <3>1, <4>3
      <3> QED
        BY <3>2, <3>3
    <2> QED
      BY <2>1, <2>3
  <1>16. ASSUME NEW t \in Threads, FindRequest(t)
        PROVE  SessionServes'
    BY <1>16 DEF FindRequest, WorkRec
  <1>17. ASSUME NEW t \in Threads, ServeRequest(t)
        PROVE  SessionServes'
    BY <1>17 DEF ServeRequest, WorkRec
  <1>18. ASSUME NEW t \in Threads, MarkServed(t)
        PROVE  SessionServes'
    <2>1. /\ pc[t] = "mark" /\ pc' = [pc EXCEPT ![t] = "scan"]
          /\ j[t] \in Threads /\ j' = [j EXCEPT ![t] = @ + 1]
          /\ deactivate' = [deactivate EXCEPT ![WorkRec(t)] =
                               [@ EXCEPT ![j[t]] = activate[j[t]]]]
          /\ UNCHANGED <<i, activate, lock, local_lock>>
          /\ \A c \in Threads : WorkRec(c)' = WorkRec(c)
      BY <1>18 DEF MarkServed, WorkRec, TypeInv, ScanInRange
    <2>2. deactivate'[WorkRec(t)] =
              [deactivate[WorkRec(t)] EXCEPT ![j[t]] = activate[j[t]]]
      BY <2>1
    <2>3. ASSUME NEW c \in Threads, NEW k \in Threads, pc'[c] \in Holding,
                 AnnouncedBefore(c, k)', HasPassed(c, k)'
          PROVE  Served(WorkRec(c), k)'
      <3>1. c = t /\ AnnouncedBefore(t, k)
        BY <2>1, <2>3
      <3>2. CASE k = j[t]
        BY <2>1, <2>2, <3>1, <3>2
      <3>3. CASE k # j[t]
        <4>0. i[t] > 0 \/ j[t] + 1 > k
          BY <2>1, <2>3, <3>1
        <4>1. j[t] \in Int /\ k \in Int
          BY ConstantsAssumption
        <4>2. i[t] > 0 \/ j[t] > k
          BY <3>3, <4>0, <4>1
        <4>3. HasPassed(t, k)
          BY <2>1, <4>2
        <4>4. Served(WorkRec(t), k)
          BY <2>1, <3>1, <4>3
        <4> QED
          BY <2>1, <2>2, <3>1, <3>3, <4>4
      <3> QED
        BY <3>2, <3>3
    <2> QED
      BY <2>3
  <1>19. ASSUME NEW t \in Threads, EndPass(t)
        PROVE  SessionServes'
    <2>1. /\ pc[t] = "scan" /\ j[t] = NThreads
          /\ \A c \in Threads \ {t} : pc'[c] = pc[c]
          /\ pc'[t] \in {"scan", "final_persist"}
          /\ UNCHANGED <<activate, deactivate, lock, local_lock>>
          /\ \A c \in Threads : WorkRec(c)' = WorkRec(c)
      BY <1>19 DEF EndPass, NumRequests, WorkRec
    <2>2. \A k \in Threads : HasPassed(t, k)
      BY <2>1
    <2>3. ASSUME NEW c \in Threads, NEW k \in Threads, pc'[c] \in Holding,
                 AnnouncedBefore(c, k)'
          PROVE  Served(WorkRec(c), k)
      <3>1. c = t
        BY <2>1, <2>3
      <3>2. AnnouncedBefore(t, k)
        BY <2>1, <2>3, <3>1
      <3> QED
        BY <2>1, <2>2, <3>1, <3>2
    <2> QED
      BY <2>1, <2>3
  <1>20. ASSUME NEW t \in Threads, FinalPersist(t)
        PROVE  SessionServes'
    BY <1>20 DEF FinalPersist, WorkRec
  <1>21. ASSUME NEW t \in Threads, FlushState(t)
        PROVE  SessionServes'
    BY <1>21 DEF FlushState, Flushed, WorkRec
  <1>22. ASSUME NEW t \in Threads, SetLockValue(t)
        PROVE  SessionServes'
    BY <1>22 DEF SetLockValue, WorkRec
  <1>23. ASSUME NEW t \in Threads, Publish(t)
        PROVE  SessionServes'
    BY <1>23 DEF Publish, WorkRec
  <1>24. ASSUME NEW t \in Threads, FlushPointer(t)
        PROVE  SessionServes'
    BY <1>24 DEF FlushPointer, FlushedPointer, WorkRec
  <1>25. ASSUME NEW t \in Threads, AfterPersist(t)
        PROVE  SessionServes'
    BY <1>25 DEF AfterPersist, WorkRec
  <1>26. ASSUME NEW t \in Threads, Unlock(t)
        PROVE  SessionServes'
    BY <1>26 DEF Unlock, Released, WorkRec
  <1>27. ASSUME NEW t \in Threads, ReturnCombiner(t)
        PROVE  SessionServes'
    BY <1>27 DEF ReturnCombiner, Leave, WorkRec
  <1> QED
    BY <1>1, <1>2, <1>3, <1>4, <1>5, <1>6, <1>7, <1>8, <1>9, <1>10, <1>11,
       <1>12, <1>13, <1>14, <1>15, <1>16, <1>17, <1>18, <1>19, <1>20, <1>21,
       <1>22, <1>23, <1>24, <1>25, <1>26, <1>27
       DEF Next, Step, Wait, Combine

(* The session of a combiner about to release the lock is durable.           *)
LEMMA SessionDurable ==
    ASSUME TypeInv, PoolInv, SessionInv,
           NEW c \in Threads, pc[c] = "unlock",
           NEW k \in Threads, AnnouncedBefore(c, k)
    PROVE  IsDurable(k)
  <1>1. Served(WorkRec(c), k)
    BY DEF SessionInv, SessionServes, HasPassed, Holding, Releasing
  <1>2. nvm_last_state = WorkRec(c)
    BY DEF PoolInv, Releasing
  <1>3. WorkRec(c) \in PoolRecs
    BY WorkRecType DEF TypeInv
  <1> QED
    BY <1>1, <1>2, <1>3 DEF IsDurable, Served

(* A waiter's request becomes durable at the latest when the session after   *)
(* the one it saw releases the lock.                                         *)
LEMMA OldWaitersStep ==
    /\ TypeInv /\ LockInv /\ PoolInv /\ WaitInv
    /\ ChainInv /\ SessionInv
    /\ [Next]_vars
    => OldWaitersDurable'
  <1> SUFFICES ASSUME TypeInv, LockInv, PoolInv, WaitInv,
                      ChainInv, SessionInv, [Next]_vars
               PROVE  OldWaitersDurable'
    OBVIOUS
  <1> /\ pc \in [Threads -> Labels]
      /\ lock \in 0 .. LockMod - 1
      /\ local_lock \in [Threads -> 0 .. LockMod - 1]
    BY DEF TypeInv, TypeOK
  <1> /\ \A t \in Threads : pc[t] = "cas" => ~IsHeld(local_lock[t])
      /\ \A t \in Threads : pc[t] \in Waiters => IsHeld(local_lock[t])
    BY DEF LockInv, WaitInv
  <1> \A u \in Threads : IsDurable(u) /\ pc[u] # "activate" => IsDurable(u)'
    BY DurableStep
  <1> OldWaitersDurable
    BY DEF SessionInv
  <1> USE DEF OldWaitersDurable, Waiters, At, Goto, requestVars, lockVars,
              recordVars, pointerVars, loopVars, localVars
  <1>1. CASE UNCHANGED vars
    BY <1>1 DEF vars
  <1>2. CASE Evict
    BY <1>2 DEF Evict
  <1>3. ASSUME NEW t \in Threads, NEW a \in Args, WriteArg(t, a)
        PROVE  OldWaitersDurable'
    BY <1>3 DEF WriteArg
  <1>4. ASSUME NEW t \in Threads, ToggleActivate(t)
        PROVE  OldWaitersDurable'
    BY <1>4 DEF ToggleActivate
  <1>5. ASSUME NEW t \in Threads, SetValid(t)
        PROVE  OldWaitersDurable'
    BY <1>5 DEF SetValid
  <1>6. ASSUME NEW t \in Threads, ReadLock(t)
        PROVE  OldWaitersDurable'
    BY <1>6 DEF ReadLock
  <1>7. ASSUME NEW t \in Threads, TryLock(t)
        PROVE  OldWaitersDurable'
    <2>1. CASE lock = local_lock[t]
      BY <1>7, <2>1, IncParity DEF TryLock, CASSucceeds
    <2>2. CASE lock # local_lock[t]
      BY <1>7, <2>2, IncParity DEF TryLock, CASSucceeds
    <2> QED
      BY <2>1, <2>2
  <1>8. ASSUME NEW t \in Threads, SpinWhileLocked(t)
        PROVE  OldWaitersDurable'
    BY <1>8 DEF SpinWhileLocked
  <1>9. ASSUME NEW t \in Threads, ReadLastState(t)
        PROVE  OldWaitersDurable'
    BY <1>9 DEF ReadLastState
  <1>10. ASSUME NEW t \in Threads, CheckServed(t)
        PROVE  OldWaitersDurable'
    <2>1. CASE deactivate[local_rec[t]][t] = activate[t]
      BY <1>10, <2>1 DEF CheckServed
    <2>2. CASE deactivate[local_rec[t]][t] # activate[t]
      BY <1>10, <2>2 DEF CheckServed
    <2> QED
      BY <2>1, <2>2
  <1>11. ASSUME NEW t \in Threads, CheckVersion(t)
        PROVE  OldWaitersDurable'
    BY <1>11 DEF CheckVersion
  <1>12. ASSUME NEW t \in Threads, WaitNext(t)
        PROVE  OldWaitersDurable'
    BY <1>12 DEF WaitNext, IsReleasing
  <1>13. ASSUME NEW t \in Threads, ReturnServed(t)
        PROVE  OldWaitersDurable'
    BY <1>13 DEF ReturnServed, Leave
  <1>14. ASSUME NEW t \in Threads, CopyState(t)
        PROVE  OldWaitersDurable'
    <2>1. CASE CopyAscending(t)
      BY <1>14, <2>1
         DEF CopyState, CopyFlex, CopyAscending, CopyDescending, CopyResults,
             CopyDeactivate
    <2>2. CASE CopyDescending(t)
      BY <1>14, <2>2
         DEF CopyState, CopyFlex, CopyAscending, CopyDescending, CopyResults,
             CopyDeactivate
    <2> QED
      BY <1>14, <2>1, <2>2 DEF CopyState, CopyFlex
  <1>15. ASSUME NEW t \in Threads, SkipRequest(t)
        PROVE  OldWaitersDurable'
    BY <1>15 DEF SkipRequest
  <1>16. ASSUME NEW t \in Threads, FindRequest(t)
        PROVE  OldWaitersDurable'
    BY <1>16 DEF FindRequest
  <1>17. ASSUME NEW t \in Threads, ServeRequest(t)
        PROVE  OldWaitersDurable'
    BY <1>17 DEF ServeRequest
  <1>18. ASSUME NEW t \in Threads, MarkServed(t)
        PROVE  OldWaitersDurable'
    BY <1>18 DEF MarkServed
  <1>19. ASSUME NEW t \in Threads, EndPass(t)
        PROVE  OldWaitersDurable'
    <2>1. CASE serve_reqs[t] /\ i[t] + 1 < Rounds
      BY <1>19, <2>1 DEF EndPass
    <2>2. CASE ~(serve_reqs[t] /\ i[t] + 1 < Rounds)
      BY <1>19, <2>2 DEF EndPass
    <2> QED
      BY <2>1, <2>2
  <1>20. ASSUME NEW t \in Threads, FinalPersist(t)
        PROVE  OldWaitersDurable'
    BY <1>20 DEF FinalPersist
  <1>21. ASSUME NEW t \in Threads, FlushState(t)
        PROVE  OldWaitersDurable'
    BY <1>21 DEF FlushState, Flushed
  <1>22. ASSUME NEW t \in Threads, SetLockValue(t)
        PROVE  OldWaitersDurable'
    BY <1>22 DEF SetLockValue
  <1>23. ASSUME NEW t \in Threads, Publish(t)
        PROVE  OldWaitersDurable'
    BY <1>23 DEF Publish
  <1>24. ASSUME NEW t \in Threads, FlushPointer(t)
        PROVE  OldWaitersDurable'
    BY <1>24 DEF FlushPointer, FlushedPointer
  <1>25. ASSUME NEW t \in Threads, AfterPersist(t)
        PROVE  OldWaitersDurable'
    BY <1>25 DEF AfterPersist
  <1>26. ASSUME NEW t \in Threads, Unlock(t)
        PROVE  OldWaitersDurable'
    <2>1. ASSUME NEW k \in Threads, pc[k] \in Waiters,
                 lock = Inc(Inc(local_lock[k]))
          PROVE  IsDurable(k)
      BY <1>26, <2>1, SessionDurable DEF Unlock, AnnouncedBefore
    <2> QED
      BY <1>26, <2>1 DEF Unlock, Released
  <1>27. ASSUME NEW t \in Threads, ReturnCombiner(t)
        PROVE  OldWaitersDurable'
    BY <1>27 DEF ReturnCombiner, Leave
  <1> QED
    BY <1>1, <1>2, <1>3, <1>4, <1>5, <1>6, <1>7, <1>8, <1>9, <1>10, <1>11,
       <1>12, <1>13, <1>14, <1>15, <1>16, <1>17, <1>18, <1>19, <1>20, <1>21,
       <1>22, <1>23, <1>24, <1>25, <1>26, <1>27
       DEF Next, Step, Wait, Combine

(* A request found served at line 153 is durable where lines 154 and 156 let *)
(* the waiter return.  If no session has begun since, the pointer to the     *)
(* record is durable; if the next one is running, line 154 finds the old     *)
(* lock_value only before that session has published anything.               *)
LEMMA ConfirmedDurable ==
    ASSUME TypeInv, LockInv, WaitInv, SessionInv, StaleInv,
           NEW t \in Threads, pc[t] \in {"check_version", "wait_next"},
           lock_value = local_lock[t] \/ lock # Inc(Inc(local_lock[t]))
    PROVE  IsDurable(t)
  <1> SUFFICES ASSUME ~IsDurable(t)
               PROVE  FALSE
    OBVIOUS
  <1>1. lock \in {Inc(local_lock[t]), Inc(Inc(local_lock[t]))}
    BY DEF SessionInv, OldWaitersDurable, Waiters
  <1>2. Served(last_state, t)
    BY DEF StaleInv, StaleServed, StaleConfirmed, Examining, Confirmed
  <1>3. last_state \in PoolRecs
    BY DEF WaitInv, Waiters, TypeInv, TypeOK, Recs
  <1>4. nvm_last_state # last_state
    BY <1>2, <1>3 DEF IsDurable, Served
  <1>5. PICK c \in Threads : pc[c] = "flush_pointer"
    BY <1>3, <1>4, RecordsAssumption DEF WaitInv
  <1>6. IsHeld(lock) /\ lock_value = lock
    BY <1>5 DEF LockInv, OneCombiner, Holding, Releasing, WaitInv
  <1>7. local_lock[t] \in 0 .. LockMod - 1 /\ IsHeld(local_lock[t])
    BY DEF TypeInv, TypeOK, WaitInv, Waiters
  <1>8. lock = Inc(Inc(local_lock[t]))
    BY <1>1, <1>6, <1>7, IncParity
  <1> QED
    BY <1>6, <1>7, <1>8, IncParity

(* A thread moves on to its return only when its request is durable.         *)
LEMMA ReturningStep ==
    /\ TypeInv /\ LockInv /\ PoolInv /\ WaitInv
    /\ ChainInv /\ SessionInv /\ StaleInv
    /\ [Next]_vars
    => ReturningDurable'
  <1> SUFFICES ASSUME TypeInv, LockInv, PoolInv, WaitInv,
                      ChainInv, SessionInv, StaleInv, [Next]_vars
               PROVE  ReturningDurable'
    OBVIOUS
  <1> pc \in [Threads -> Labels]
    BY DEF TypeInv, TypeOK
  <1> \A u \in Threads : IsDurable(u) /\ pc[u] # "activate" => IsDurable(u)'
    BY DurableStep
  <1> ReturningDurable
    BY DEF SessionInv
  <1> USE DEF ReturningDurable, AtReturn, At, Goto, requestVars, lockVars,
              recordVars, pointerVars, loopVars, localVars
  <1>1. CASE UNCHANGED vars
    BY <1>1 DEF vars
  <1>2. CASE Evict
    BY <1>2 DEF Evict
  <1>3. ASSUME NEW t \in Threads, NEW a \in Args, WriteArg(t, a)
        PROVE  ReturningDurable'
    BY <1>3 DEF WriteArg
  <1>4. ASSUME NEW t \in Threads, ToggleActivate(t)
        PROVE  ReturningDurable'
    BY <1>4 DEF ToggleActivate
  <1>5. ASSUME NEW t \in Threads, SetValid(t)
        PROVE  ReturningDurable'
    BY <1>5 DEF SetValid
  <1>6. ASSUME NEW t \in Threads, ReadLock(t)
        PROVE  ReturningDurable'
    BY <1>6 DEF ReadLock
  <1>7. ASSUME NEW t \in Threads, TryLock(t)
        PROVE  ReturningDurable'
    <2>1. CASE lock = local_lock[t]
      BY <1>7, <2>1 DEF TryLock, CASSucceeds
    <2>2. CASE lock # local_lock[t]
      BY <1>7, <2>2 DEF TryLock, CASSucceeds
    <2> QED
      BY <2>1, <2>2
  <1>8. ASSUME NEW t \in Threads, SpinWhileLocked(t)
        PROVE  ReturningDurable'
    BY <1>8 DEF SpinWhileLocked
  <1>9. ASSUME NEW t \in Threads, ReadLastState(t)
        PROVE  ReturningDurable'
    BY <1>9 DEF ReadLastState
  <1>10. ASSUME NEW t \in Threads, CheckServed(t)
        PROVE  ReturningDurable'
    <2>1. CASE deactivate[local_rec[t]][t] = activate[t]
      BY <1>10, <2>1 DEF CheckServed
    <2>2. CASE deactivate[local_rec[t]][t] # activate[t]
      BY <1>10, <2>2 DEF CheckServed
    <2> QED
      BY <2>1, <2>2
  <1>11. ASSUME NEW t \in Threads, CheckVersion(t)
        PROVE  ReturningDurable'
    <2>1. pc'[t] = "return" => IsDurable(t)
      BY <1>11, ConfirmedDurable DEF CheckVersion
    <2> QED
      BY <1>11, <2>1 DEF CheckVersion
  <1>12. ASSUME NEW t \in Threads, WaitNext(t)
        PROVE  ReturningDurable'
    <2>1. IsDurable(t)
      BY <1>12, ConfirmedDurable DEF WaitNext, IsReleasing
    <2> QED
      BY <1>12, <2>1 DEF WaitNext
  <1>13. ASSUME NEW t \in Threads, ReturnServed(t)
        PROVE  ReturningDurable'
    BY <1>13 DEF ReturnServed, Leave
  <1>14. ASSUME NEW t \in Threads, CopyState(t)
        PROVE  ReturningDurable'
    <2>1. CASE CopyAscending(t)
      BY <1>14, <2>1
         DEF CopyState, CopyFlex, CopyAscending, CopyDescending, CopyResults,
             CopyDeactivate
    <2>2. CASE CopyDescending(t)
      BY <1>14, <2>2
         DEF CopyState, CopyFlex, CopyAscending, CopyDescending, CopyResults,
             CopyDeactivate
    <2> QED
      BY <1>14, <2>1, <2>2 DEF CopyState, CopyFlex
  <1>15. ASSUME NEW t \in Threads, SkipRequest(t)
        PROVE  ReturningDurable'
    BY <1>15 DEF SkipRequest
  <1>16. ASSUME NEW t \in Threads, FindRequest(t)
        PROVE  ReturningDurable'
    BY <1>16 DEF FindRequest
  <1>17. ASSUME NEW t \in Threads, ServeRequest(t)
        PROVE  ReturningDurable'
    BY <1>17 DEF ServeRequest
  <1>18. ASSUME NEW t \in Threads, MarkServed(t)
        PROVE  ReturningDurable'
    BY <1>18 DEF MarkServed
  <1>19. ASSUME NEW t \in Threads, EndPass(t)
        PROVE  ReturningDurable'
    <2>1. CASE serve_reqs[t] /\ i[t] + 1 < Rounds
      BY <1>19, <2>1 DEF EndPass
    <2>2. CASE ~(serve_reqs[t] /\ i[t] + 1 < Rounds)
      BY <1>19, <2>2 DEF EndPass
    <2> QED
      BY <2>1, <2>2
  <1>20. ASSUME NEW t \in Threads, FinalPersist(t)
        PROVE  ReturningDurable'
    BY <1>20 DEF FinalPersist
  <1>21. ASSUME NEW t \in Threads, FlushState(t)
        PROVE  ReturningDurable'
    BY <1>21 DEF FlushState, Flushed
  <1>22. ASSUME NEW t \in Threads, SetLockValue(t)
        PROVE  ReturningDurable'
    BY <1>22 DEF SetLockValue
  <1>23. ASSUME NEW t \in Threads, Publish(t)
        PROVE  ReturningDurable'
    BY <1>23 DEF Publish
  <1>24. ASSUME NEW t \in Threads, FlushPointer(t)
        PROVE  ReturningDurable'
    BY <1>24 DEF FlushPointer, FlushedPointer
  <1>25. ASSUME NEW t \in Threads, AfterPersist(t)
        PROVE  ReturningDurable'
    BY <1>25 DEF AfterPersist
  <1>26. ASSUME NEW t \in Threads, Unlock(t)
        PROVE  ReturningDurable'
    <2>1. IsDurable(t)
      BY <1>26, SessionDurable DEF Unlock, AnnouncedBefore
    <2> QED
      BY <1>26, <2>1 DEF Unlock
  <1>27. ASSUME NEW t \in Threads, ReturnCombiner(t)
        PROVE  ReturningDurable'
    BY <1>27 DEF ReturnCombiner, Leave
  <1> QED
    BY <1>1, <1>2, <1>3, <1>4, <1>5, <1>6, <1>7, <1>8, <1>9, <1>10, <1>11,
       <1>12, <1>13, <1>14, <1>15, <1>16, <1>17, <1>18, <1>19, <1>20, <1>21,
       <1>22, <1>23, <1>24, <1>25, <1>26, <1>27
       DEF Next, Step, Wait, Combine
-----------------------------------------------------------------------------
(* Steps preserve the invariants on stale pointers *)

(* A record is reused only by a session at least two after the one that      *)
(* published it; by then every waiter that may still look at it is durable.  *)
LEMMA StaleRecordStep ==
    /\ TypeInv /\ LockInv /\ PoolInv /\ WaitInv
    /\ ChainInv /\ SessionInv /\ StaleInv
    /\ [Next]_vars
    => StaleRecord'
  <1> SUFFICES ASSUME TypeInv, LockInv, PoolInv, WaitInv,
                      ChainInv, SessionInv, StaleInv, [Next]_vars
               PROVE  StaleRecord'
    OBVIOUS
  <1> /\ pc \in [Threads -> Labels]
      /\ lock \in 0 .. LockMod - 1
      /\ local_lock \in [Threads -> 0 .. LockMod - 1]
      /\ local_rec \in [Threads -> Recs]
    BY DEF TypeInv, TypeOK
  <1> /\ \A t, u \in Threads : pc[t] \in Holding /\ pc[u] \in Holding => t = u
      /\ \A t \in Threads : pc[t] \in Holding => IsHeld(lock)
      /\ \A t \in Threads : pc[t] = "cas" => ~IsHeld(local_lock[t])
    BY DEF LockInv, OneCombiner
  <1> \A t \in Threads : pc[t] \in Waiters => IsHeld(local_lock[t])
    BY DEF WaitInv
  <1> \A u \in Threads : IsDurable(u) /\ pc[u] # "activate" => IsDurable(u)'
    BY DurableStep
  <1> \A t \in Threads : pc'[t] \in {"return", "combiner_return"} => IsDurable(t)'
    BY ReturningStep DEF ReturningDurable, AtReturn
  <1> /\ StaleRecord
      /\ ReturningDurable
      /\ OldWaitersDurable
    BY DEF StaleInv, SessionInv
  <1> USE DEF StaleRecord, ReturningDurable, AtReturn, Examining, Confirmed,
              Waiters, Holding, Filling, Serving, Releasing, At, Goto,
              requestVars, lockVars, recordVars, pointerVars, loopVars,
              localVars
  <1>1. CASE UNCHANGED vars
    BY <1>1 DEF vars
  <1>2. CASE Evict
    BY <1>2 DEF Evict
  <1>3. ASSUME NEW t \in Threads, NEW a \in Args, WriteArg(t, a)
        PROVE  StaleRecord'
    BY <1>3 DEF WriteArg
  <1>4. ASSUME NEW t \in Threads, ToggleActivate(t)
        PROVE  StaleRecord'
    BY <1>4 DEF ToggleActivate
  <1>5. ASSUME NEW t \in Threads, SetValid(t)
        PROVE  StaleRecord'
    BY <1>5 DEF SetValid
  <1>6. ASSUME NEW t \in Threads, ReadLock(t)
        PROVE  StaleRecord'
    BY <1>6 DEF ReadLock
  <1>7. ASSUME NEW t \in Threads, TryLock(t)
        PROVE  StaleRecord'
    <2>1. CASE lock = local_lock[t]
      BY <1>7, <2>1, IncParity DEF TryLock, CASSucceeds
    <2>2. CASE lock # local_lock[t]
      BY <1>7, <2>2, IncParity DEF TryLock, CASSucceeds
    <2> QED
      BY <2>1, <2>2
  <1>8. ASSUME NEW t \in Threads, SpinWhileLocked(t)
        PROVE  StaleRecord'
    BY <1>8 DEF SpinWhileLocked
  <1>9. ASSUME NEW t \in Threads, ReadLastState(t)
        PROVE  StaleRecord'
    BY <1>9 DEF ReadLastState
  <1>10. ASSUME NEW t \in Threads, CheckServed(t)
        PROVE  StaleRecord'
    <2>1. CASE deactivate[local_rec[t]][t] = activate[t]
      BY <1>10, <2>1 DEF CheckServed
    <2>2. CASE deactivate[local_rec[t]][t] # activate[t]
      BY <1>10, <2>2 DEF CheckServed
    <2> QED
      BY <2>1, <2>2
  <1>11. ASSUME NEW t \in Threads, CheckVersion(t)
        PROVE  StaleRecord'
    BY <1>11 DEF CheckVersion
  <1>12. ASSUME NEW t \in Threads, WaitNext(t)
        PROVE  StaleRecord'
    BY <1>12 DEF WaitNext, IsReleasing
  <1>13. ASSUME NEW t \in Threads, ReturnServed(t)
        PROVE  StaleRecord'
    BY <1>13 DEF ReturnServed, Leave
  <1>14. ASSUME NEW t \in Threads, CopyState(t)
        PROVE  StaleRecord'
    <2>1. CASE CopyAscending(t)
      BY <1>14, <2>1
         DEF CopyState, CopyFlex, CopyAscending, CopyDescending, CopyResults,
             CopyDeactivate
    <2>2. CASE CopyDescending(t)
      BY <1>14, <2>2
         DEF CopyState, CopyFlex, CopyAscending, CopyDescending, CopyResults,
             CopyDeactivate
    <2> QED
      BY <1>14, <2>1, <2>2 DEF CopyState, CopyFlex
  <1>15. ASSUME NEW t \in Threads, SkipRequest(t)
        PROVE  StaleRecord'
    BY <1>15 DEF SkipRequest
  <1>16. ASSUME NEW t \in Threads, FindRequest(t)
        PROVE  StaleRecord'
    BY <1>16 DEF FindRequest
  <1>17. ASSUME NEW t \in Threads, ServeRequest(t)
        PROVE  StaleRecord'
    BY <1>17 DEF ServeRequest
  <1>18. ASSUME NEW t \in Threads, MarkServed(t)
        PROVE  StaleRecord'
    BY <1>18 DEF MarkServed
  <1>19. ASSUME NEW t \in Threads, EndPass(t)
        PROVE  StaleRecord'
    <2>1. CASE serve_reqs[t] /\ i[t] + 1 < Rounds
      BY <1>19, <2>1 DEF EndPass
    <2>2. CASE ~(serve_reqs[t] /\ i[t] + 1 < Rounds)
      BY <1>19, <2>2 DEF EndPass
    <2> QED
      BY <2>1, <2>2
  <1>20. ASSUME NEW t \in Threads, FinalPersist(t)
        PROVE  StaleRecord'
    BY <1>20 DEF FinalPersist
  <1>21. ASSUME NEW t \in Threads, FlushState(t)
        PROVE  StaleRecord'
    BY <1>21 DEF FlushState, Flushed
  <1>22. ASSUME NEW t \in Threads, SetLockValue(t)
        PROVE  StaleRecord'
    BY <1>22 DEF SetLockValue
  <1>23. ASSUME NEW t \in Threads, Publish(t)
        PROVE  StaleRecord'
    <2>1. ASSUME NEW k \in Threads, pc[k] \in Examining, ~IsDurable(k)
          PROVE  lock = Inc(Inc(local_lock[k]))
      <3>1. lock \in {Inc(local_lock[k]), Inc(Inc(local_lock[k]))}
        BY <2>1 DEF OldWaitersDurable
      <3>2. IsHeld(lock) /\ IsHeld(local_lock[k])
        BY <1>23, <2>1 DEF Publish
      <3> QED
        BY <3>1, <3>2, IncParity
    <2>2. /\ pc' = [pc EXCEPT ![t] = "flush_pointer"]
          /\ UNCHANGED <<lock, local_lock, local_rec>>
      BY <1>23 DEF Publish
    <2> QED
      BY <2>1, <2>2
  <1>24. ASSUME NEW t \in Threads, FlushPointer(t)
        PROVE  StaleRecord'
    BY <1>24 DEF FlushPointer, FlushedPointer
  <1>25. ASSUME NEW t \in Threads, AfterPersist(t)
        PROVE  StaleRecord'
    BY <1>25 DEF AfterPersist
  <1>26. ASSUME NEW t \in Threads, Unlock(t)
        PROVE  StaleRecord'
    <2>1. ASSUME NEW k \in Threads, pc[k] \in Examining,
                 lock = Inc(Inc(local_lock[k]))
          PROVE  IsDurable(k)
      BY <1>26, <2>1, SessionDurable DEF Unlock, AnnouncedBefore
    <2> QED
      BY <1>26, <2>1 DEF Unlock
  <1>27. ASSUME NEW t \in Threads, ReturnCombiner(t)
        PROVE  StaleRecord'
    BY <1>27 DEF ReturnCombiner, Leave
  <1> QED
    BY <1>1, <1>2, <1>3, <1>4, <1>5, <1>6, <1>7, <1>8, <1>9, <1>10, <1>11,
       <1>12, <1>13, <1>14, <1>15, <1>16, <1>17, <1>18, <1>19, <1>20, <1>21,
       <1>22, <1>23, <1>24, <1>25, <1>26, <1>27
       DEF Next, Step, Wait, Combine

(* A request is found served in a record only if it is served.               *)
LEMMA StaleServedStep ==
    /\ TypeInv /\ LockInv /\ PoolInv /\ WaitInv
    /\ ChainInv /\ SessionInv /\ StaleInv
    /\ [Next]_vars
    => StaleServed' /\ StaleConfirmed'
  <1> SUFFICES ASSUME TypeInv, LockInv, PoolInv, WaitInv,
                      ChainInv, SessionInv, StaleInv, [Next]_vars
               PROVE  StaleServed' /\ StaleConfirmed'
    OBVIOUS
  <1> /\ pc \in [Threads -> Labels]
      /\ activate \in [Threads -> {0, 1}]
      /\ deactivate \in [Recs -> [Threads -> {0, 1}]]
      /\ j \in [Threads -> 0 .. NThreads]
      /\ local_rec \in [Threads -> Recs]
      /\ last_state \in Recs
    BY DEF TypeInv, TypeOK
  <1> \A t, u \in Threads : pc[t] \in Holding /\ pc[u] \in Holding => t = u
    BY DEF LockInv, OneCombiner
  <1> \A t \in Threads :
          /\ pc[t] \notin Releasing => WorkRec(t) # last_state
          /\ pc[t] \in Releasing => WorkRec(t) = last_state
    BY DEF PoolInv
  <1> \A t \in Threads : WorkRec(t) \in Recs
    BY WorkRecType DEF TypeInv
  <1> \A t \in Threads : IsDurable(t) => Served(last_state, t)
    BY RecordsAssumption DEF ChainInv, DurableServed, IsDurable, Served, Recs
  <1> \A c, t \in Threads : HasCopied(c) /\ Served(last_state, t) =>
          Served(WorkRec(c), t)
    BY DEF ChainInv, CopyServed
  <1> \A t \in Threads : pc[t] = "unlock" => Served(WorkRec(t), t)
    BY DEF SessionInv, SessionServes, AnnouncedBefore, HasPassed, Holding,
           Releasing
  <1> StaleRecord /\ StaleServed /\ StaleConfirmed
    BY DEF StaleInv
  <1> USE DEF StaleServed, StaleConfirmed, Examining, Confirmed, Served,
              HasCopied, Holding, Filling, Serving, Releasing, At, Goto,
              requestVars, lockVars, recordVars, pointerVars, loopVars,
              localVars
  <1>1. CASE UNCHANGED vars
    BY <1>1 DEF vars
  <1>2. CASE Evict
    BY <1>2 DEF Evict
  <1>3. ASSUME NEW t \in Threads, NEW a \in Args, WriteArg(t, a)
        PROVE  StaleServed' /\ StaleConfirmed'
    BY <1>3 DEF WriteArg
  <1>4. ASSUME NEW t \in Threads, ToggleActivate(t)
        PROVE  StaleServed' /\ StaleConfirmed'
    BY <1>4 DEF ToggleActivate
  <1>5. ASSUME NEW t \in Threads, SetValid(t)
        PROVE  StaleServed' /\ StaleConfirmed'
    BY <1>5 DEF SetValid
  <1>6. ASSUME NEW t \in Threads, ReadLock(t)
        PROVE  StaleServed' /\ StaleConfirmed'
    BY <1>6 DEF ReadLock
  <1>7. ASSUME NEW t \in Threads, TryLock(t)
        PROVE  StaleServed' /\ StaleConfirmed'
    <2>1. CASE lock = local_lock[t]
      BY <1>7, <2>1 DEF TryLock, CASSucceeds
    <2>2. CASE lock # local_lock[t]
      BY <1>7, <2>2 DEF TryLock, CASSucceeds
    <2> QED
      BY <2>1, <2>2
  <1>8. ASSUME NEW t \in Threads, SpinWhileLocked(t)
        PROVE  StaleServed' /\ StaleConfirmed'
    BY <1>8 DEF SpinWhileLocked
  <1>9. ASSUME NEW t \in Threads, ReadLastState(t)
        PROVE  StaleServed' /\ StaleConfirmed'
    BY <1>9 DEF ReadLastState
  <1>10. ASSUME NEW t \in Threads, CheckServed(t)
        PROVE  StaleServed' /\ StaleConfirmed'
    <2>1. /\ pc[t] = "check"
          /\ \A k \in Threads \ {t} :
                pc'[k] = pc[k] /\ local_rec'[k] = local_rec[k]
          /\ \/ pc'[t] = "lock"
             \/ /\ pc'[t] = "check_version" /\ local_rec'[t] = local_rec[t]
                /\ Served(local_rec[t], t)
          /\ UNCHANGED <<activate, deactivate, last_state>>
      BY <1>10 DEF CheckServed
    <2>2. StaleServed'
      BY <2>1
    <2>3. StaleConfirmed'
      BY <2>1
    <2> QED
      BY <2>2, <2>3
  <1>11. ASSUME NEW t \in Threads, CheckVersion(t)
        PROVE  StaleServed' /\ StaleConfirmed'
    BY <1>11 DEF CheckVersion
  <1>12. ASSUME NEW t \in Threads, WaitNext(t)
        PROVE  StaleServed' /\ StaleConfirmed'
    BY <1>12 DEF WaitNext, IsReleasing
  <1>13. ASSUME NEW t \in Threads, ReturnServed(t)
        PROVE  StaleServed' /\ StaleConfirmed'
    BY <1>13 DEF ReturnServed, Leave
  <1>14. ASSUME NEW t \in Threads, CopyState(t)
        PROVE  StaleServed' /\ StaleConfirmed'
    <2>1. /\ \A r \in Recs \ {WorkRec(t)} : deactivate'[r] = deactivate[r]
          /\ pc[t] \in Filling /\ pc'[t] \notin Examining
          /\ \A k \in Threads \ {t} : pc'[k] = pc[k]
          /\ UNCHANGED <<activate, last_state, local_rec>>
      BY <1>14 DEF CopyState, CopyFlex, CopyAscending, CopyDescending,
                CopyResults, CopyDeactivate
    <2>2. \/ deactivate'[WorkRec(t)] = deactivate[last_state]
          \/ deactivate' = deactivate
      BY <1>14 DEF CopyState, CopyFlex, CopyAscending, CopyDescending,
                CopyResults, CopyDeactivate
    <2>3. deactivate'[last_state] = deactivate[last_state]
      BY <2>1
    <2>4. CASE deactivate' = deactivate
      BY <2>1, <2>4
    <2>5. CASE deactivate'[WorkRec(t)] = deactivate[last_state]
      <3>1. \A k \in Threads :
                Served(local_rec[k], k)' <=>
                    IF local_rec[k] = WorkRec(t) THEN Served(last_state, k)
                    ELSE Served(local_rec[k], k)
        BY <2>1, <2>5
      <3>2. \A k \in Threads : Served(last_state, k)' <=> Served(last_state, k)
        BY <2>1, <2>3
      <3>3. \A k \in Threads : pc[k] \in Confirmed => Served(last_state, k)
        OBVIOUS
      <3>4. StaleServed'
        BY <2>1, <3>1, <3>2
      <3>5. StaleConfirmed'
        BY <2>1, <3>1, <3>3
      <3> QED
        BY <3>4, <3>5
    <2> QED
      BY <2>2, <2>4, <2>5
  <1>15. ASSUME NEW t \in Threads, SkipRequest(t)
        PROVE  StaleServed' /\ StaleConfirmed'
    BY <1>15 DEF SkipRequest
  <1>16. ASSUME NEW t \in Threads, FindRequest(t)
        PROVE  StaleServed' /\ StaleConfirmed'
    BY <1>16 DEF FindRequest
  <1>17. ASSUME NEW t \in Threads, ServeRequest(t)
        PROVE  StaleServed' /\ StaleConfirmed'
    BY <1>17 DEF ServeRequest
  <1>18. ASSUME NEW t \in Threads, MarkServed(t)
        PROVE  StaleServed' /\ StaleConfirmed'
    <2>1. /\ pc[t] = "mark" /\ pc' = [pc EXCEPT ![t] = "scan"]
          /\ j[t] \in Threads
          /\ deactivate' = [deactivate EXCEPT ![WorkRec(t)] =
                               [@ EXCEPT ![j[t]] = activate[j[t]]]]
          /\ UNCHANGED <<activate, last_state, local_rec>>
      BY <1>18 DEF MarkServed, TypeInv, ScanInRange
    <2>2. deactivate'[WorkRec(t)] =
              [deactivate[WorkRec(t)] EXCEPT ![j[t]] = activate[j[t]]]
      BY <2>1
    <2>3. deactivate'[last_state] = deactivate[last_state]
      BY <2>1
    <2>4. ASSUME NEW k \in Threads, pc[k] \in Examining,
                 local_rec[k] = WorkRec(t)
          PROVE  Served(last_state, k)
      BY <2>1, <2>4 DEF StaleRecord
    <2>5. ASSUME NEW k \in Threads, local_rec[k] # WorkRec(t)
          PROVE  deactivate'[local_rec[k]] = deactivate[local_rec[k]]
      BY <2>1, <2>5
    <2>6. StaleServed'
      BY <2>1, <2>3, <2>4, <2>5
    <2>7. ASSUME NEW k \in Threads, Served(local_rec[k], k)
          PROVE  Served(local_rec[k], k)'
      <3>1. CASE local_rec[k] # WorkRec(t)
        BY <2>1, <2>5, <2>7, <3>1
      <3>2. CASE local_rec[k] = WorkRec(t)
        BY <2>1, <2>2, <2>7, <3>2
      <3> QED
        BY <3>1, <3>2
    <2>8. StaleConfirmed'
      BY <2>1, <2>7
    <2> QED
      BY <2>6, <2>8
  <1>19. ASSUME NEW t \in Threads, EndPass(t)
        PROVE  StaleServed' /\ StaleConfirmed'
    <2>1. CASE serve_reqs[t] /\ i[t] + 1 < Rounds
      BY <1>19, <2>1 DEF EndPass
    <2>2. CASE ~(serve_reqs[t] /\ i[t] + 1 < Rounds)
      BY <1>19, <2>2 DEF EndPass
    <2> QED
      BY <2>1, <2>2
  <1>20. ASSUME NEW t \in Threads, FinalPersist(t)
        PROVE  StaleServed' /\ StaleConfirmed'
    BY <1>20 DEF FinalPersist
  <1>21. ASSUME NEW t \in Threads, FlushState(t)
        PROVE  StaleServed' /\ StaleConfirmed'
    BY <1>21 DEF FlushState, Flushed
  <1>22. ASSUME NEW t \in Threads, SetLockValue(t)
        PROVE  StaleServed' /\ StaleConfirmed'
    BY <1>22 DEF SetLockValue
  <1>23. ASSUME NEW t \in Threads, Publish(t)
        PROVE  StaleServed' /\ StaleConfirmed'
    BY <1>23 DEF Publish
  <1>24. ASSUME NEW t \in Threads, FlushPointer(t)
        PROVE  StaleServed' /\ StaleConfirmed'
    BY <1>24 DEF FlushPointer, FlushedPointer
  <1>25. ASSUME NEW t \in Threads, AfterPersist(t)
        PROVE  StaleServed' /\ StaleConfirmed'
    BY <1>25 DEF AfterPersist
  <1>26. ASSUME NEW t \in Threads, Unlock(t)
        PROVE  StaleServed' /\ StaleConfirmed'
    BY <1>26 DEF Unlock, Released
  <1>27. ASSUME NEW t \in Threads, ReturnCombiner(t)
        PROVE  StaleServed' /\ StaleConfirmed'
    BY <1>27 DEF ReturnCombiner, Leave
  <1> QED
    BY <1>1, <1>2, <1>3, <1>4, <1>5, <1>6, <1>7, <1>8, <1>9, <1>10, <1>11,
       <1>12, <1>13, <1>14, <1>15, <1>16, <1>17, <1>18, <1>19, <1>20, <1>21,
       <1>22, <1>23, <1>24, <1>25, <1>26, <1>27
       DEF Next, Step, Wait, Combine
-----------------------------------------------------------------------------
(* Steps preserve the invariant on results *)

(* Every step preserves ResultInv when memcpy ascends.                       *)
LEMMA ResultStep ==
    /\ AscendingCopy
    /\ TypeInv /\ LockInv /\ PoolInv /\ ChainInv /\ StaleInv /\ ResultInv
    /\ [Next]_vars
    => ResultInv'
  <1> SUFFICES ASSUME AscendingCopy, TypeInv, LockInv, PoolInv,
                      ChainInv, StaleInv, ResultInv, [Next]_vars
               PROVE  ResultInv'
    OBVIOUS
  <1> /\ pc \in [Threads -> Labels]
      /\ activate \in [Threads -> {0, 1}]
      /\ deactivate \in [Recs -> [Threads -> {0, 1}]]
      /\ return_value \in [Recs -> [Threads -> RetVals]]
      /\ j \in [Threads -> 0 .. NThreads]
      /\ local_rec \in [Threads -> Recs]
      /\ last_state \in Recs
      /\ nvm_last_state \in Recs \union {NoRec}
      /\ NoRec \notin Recs
    BY RecordsAssumption DEF TypeInv, TypeOK
  <1> \A t, u \in Threads : pc[t] \in Holding /\ pc[u] \in Holding => t = u
    BY DEF LockInv, OneCombiner
  <1> \A t \in Threads :
          /\ pc[t] \notin Releasing =>
                 WorkRec(t) # last_state /\ WorkRec(t) # nvm_last_state
          /\ pc[t] \in Releasing => WorkRec(t) = last_state
    BY DEF PoolInv
  <1> \A t \in Threads : WorkRec(t) \in Recs
    BY WorkRecType DEF TypeInv
  <1> /\ DurableServed /\ CopyServed /\ IdleServed /\ PendingUnserved
      /\ StaleRecord /\ StaleServed
      /\ CopyOrder /\ DurableResult /\ CopyResult /\ ExaminedResult
    BY DEF ChainInv, StaleInv, ResultInv
  <1> USE DEF ResultInv, CopyOrder, DurableResult, CopyResult, ExaminedResult,
              Examining, Confirmed, Served, HasCopied, Holding, Filling,
              Serving, Releasing, At, Goto, requestVars, lockVars, recordVars,
              pointerVars, loopVars, localVars
  <1>1. CASE UNCHANGED vars
    BY <1>1 DEF vars, WorkRec
  <1>2. CASE Evict
    BY <1>2 DEF Evict, WorkRec
  <1>3. ASSUME NEW t \in Threads, NEW a \in Args, WriteArg(t, a)
        PROVE  ResultInv'
    BY <1>3 DEF WriteArg, WorkRec
  <1>4. ASSUME NEW t \in Threads, ToggleActivate(t)
        PROVE  ResultInv'
    <2>1. /\ pc[t] = "activate" /\ pc' = [pc EXCEPT ![t] = "valid"]
          /\ activate' = [activate EXCEPT ![t] = 1 - activate[t]]
          /\ UNCHANGED <<deactivate, return_value, last_state, nvm_last_state,
                         local_rec>>
          /\ \A c \in Threads : WorkRec(c)' = WorkRec(c)
      BY <1>4 DEF ToggleActivate, WorkRec
    <2>2. /\ Served(last_state, t)
          /\ nvm_last_state # NoRec => Served(nvm_last_state, t)
      BY <2>1 DEF IdleServed
    <2>3. /\ 1 - activate[t] # activate[t]
          /\ \A u \in Threads \ {t} : activate'[u] = activate[u]
      <3>1. activate[t] \in {0, 1}
        OBVIOUS
      <3>2. 1 - activate[t] # activate[t]
        BY <3>1, FlippedBit
      <3> QED
        BY <2>1, <3>2
    <2>4. /\ ~Served(last_state, t)'
          /\ nvm_last_state # NoRec => ~Served(nvm_last_state, t)'
      BY <2>1, <2>2, <2>3
    <2> QED
      BY <2>1, <2>3, <2>4
  <1>5. ASSUME NEW t \in Threads, SetValid(t)
        PROVE  ResultInv'
    BY <1>5 DEF SetValid, WorkRec
  <1>6. ASSUME NEW t \in Threads, ReadLock(t)
        PROVE  ResultInv'
    BY <1>6 DEF ReadLock, WorkRec
  <1>7. ASSUME NEW t \in Threads, TryLock(t)
        PROVE  ResultInv'
    <2>1. CASE lock = local_lock[t]
      BY <1>7, <2>1 DEF TryLock, CASSucceeds, WorkRec
    <2>2. CASE lock # local_lock[t]
      BY <1>7, <2>2 DEF TryLock, CASSucceeds, WorkRec
    <2> QED
      BY <2>1, <2>2
  <1>8. ASSUME NEW t \in Threads, SpinWhileLocked(t)
        PROVE  ResultInv'
    BY <1>8 DEF SpinWhileLocked, WorkRec
  <1>9. ASSUME NEW t \in Threads, ReadLastState(t)
        PROVE  ResultInv'
    BY <1>9 DEF ReadLastState, WorkRec
  <1>10. ASSUME NEW t \in Threads, CheckServed(t)
        PROVE  ResultInv'
    <2>1. /\ pc[t] = "check"
          /\ \A k \in Threads \ {t} :
                pc'[k] = pc[k] /\ local_rec'[k] = local_rec[k]
          /\ \/ pc'[t] = "lock"
             \/ pc'[t] = "check_version" /\ local_rec'[t] = local_rec[t]
          /\ UNCHANGED <<activate, deactivate, return_value, last_state,
                         nvm_last_state>>
          /\ \A c \in Threads : WorkRec(c)' = WorkRec(c)
      BY <1>10 DEF CheckServed, WorkRec
    <2>2. ExaminedResult'
      <3>1. \A k \in Threads : pc'[k] \in Examining =>
                pc[k] \in Examining /\ local_rec'[k] = local_rec[k]
        BY <2>1
      <3> QED
        BY <2>1, <3>1
    <2>3. DurableResult'
      <3> SUFFICES ASSUME NEW k \in Threads, nvm_last_state # NoRec,
                          Served(nvm_last_state, k)
                   PROVE  return_value[nvm_last_state][k] =
                          return_value[last_state][k]
        BY <2>1
      <3> QED
        OBVIOUS
    <2>4. CopyOrder' /\ CopyResult'
      BY <2>1
    <2> QED
      BY <2>2, <2>3, <2>4
  <1>11. ASSUME NEW t \in Threads, CheckVersion(t)
        PROVE  ResultInv'
    BY <1>11 DEF CheckVersion, WorkRec
  <1>12. ASSUME NEW t \in Threads, WaitNext(t)
        PROVE  ResultInv'
    BY <1>12 DEF WaitNext, IsReleasing, WorkRec
  <1>13. ASSUME NEW t \in Threads, ReturnServed(t)
        PROVE  ResultInv'
    BY <1>13 DEF ReturnServed, Leave, WorkRec
  <1>14. ASSUME NEW t \in Threads, CopyState(t)
        PROVE  ResultInv'
    <2>1. /\ \A r \in Recs \ {WorkRec(t)} :
                /\ deactivate'[r] = deactivate[r]
                /\ return_value'[r] = return_value[r]
          /\ \A c \in Threads \ {t} : pc'[c] = pc[c]
          /\ UNCHANGED <<activate, last_state, nvm_last_state, local_rec>>
          /\ \A c \in Threads : WorkRec(c)' = WorkRec(c)
          /\ pc[t] \in Filling
      BY <1>14 DEF CopyState, CopyFlex, CopyAscending, CopyDescending,
                CopyResults, CopyDeactivate, WorkRec
    <2>2. /\ pc'[t] = "copy_deactivate" \/ pc'[t] = "scan"
          /\ return_value'[WorkRec(t)] = return_value[last_state]
          /\ \/ deactivate' = deactivate
             \/ deactivate'[WorkRec(t)] = deactivate[last_state]
      BY <1>14 DEF CopyState, CopyFlex, CopyAscending, CopyDescending,
                CopyResults, CopyDeactivate
    <2>3. CopyOrder'
      BY <2>1, <2>2
    <2>4. DurableResult'
      <3> SUFFICES ASSUME NEW k \in Threads, nvm_last_state # NoRec,
                          Served(nvm_last_state, k)
                   PROVE  return_value'[nvm_last_state][k] =
                          return_value'[last_state][k]
        BY <2>1
      <3>1. return_value[nvm_last_state][k] = return_value[last_state][k]
        OBVIOUS
      <3> QED
        BY <2>1, <3>1
    <2>5. CopyResult'
      BY <2>1, <2>2
    <2>6. ExaminedResult'
      <3>0. UNCHANGED <<activate, last_state, local_rec>>
        BY <2>1
      <3>4. last_state \in Recs \ {WorkRec(t)}
        <4>1. pc[t] \notin Releasing
          BY <2>1 DEF Filling, Releasing
        <4> QED
          BY <4>1
      <3>3. return_value'[last_state] = return_value[last_state]
        BY <2>1, <3>4
      <3> SUFFICES ASSUME NEW k \in Threads, pc'[k] \in Examining,
                          Served(local_rec[k], k)'
                   PROVE  return_value'[local_rec[k]][k] =
                          return_value[last_state][k]
        BY <3>0, <3>3
      <3>1. CASE local_rec[k] = WorkRec(t)
        BY <2>2, <3>1
      <3>2. CASE local_rec[k] # WorkRec(t)
        BY <2>1, <2>2, <3>2
      <3> QED
        BY <3>1, <3>2
    <2> QED
      BY <2>3, <2>4, <2>5, <2>6
  <1>15. ASSUME NEW t \in Threads, SkipRequest(t)
        PROVE  ResultInv'
    BY <1>15 DEF SkipRequest, WorkRec
  <1>16. ASSUME NEW t \in Threads, FindRequest(t)
        PROVE  ResultInv'
    BY <1>16 DEF FindRequest, WorkRec
  <1>17. ASSUME NEW t \in Threads, ServeRequest(t)
        PROVE  ResultInv'
    <2>1. /\ pc[t] = "serve" /\ pc' = [pc EXCEPT ![t] = "mark"]
          /\ j[t] \in Threads
          /\ \E v : return_value' = [return_value EXCEPT ![WorkRec(t)] =
                                        [@ EXCEPT ![j[t]] = v]]
          /\ UNCHANGED <<activate, deactivate, last_state, nvm_last_state,
                         local_rec>>
          /\ \A c \in Threads : WorkRec(c)' = WorkRec(c)
      BY <1>17 DEF ServeRequest, WorkRec, TypeInv, ScanInRange
    <2>2. /\ ~Served(WorkRec(t), j[t])
          /\ ~Served(last_state, j[t])
      BY <2>1 DEF PendingUnserved, CopyServed
    <2>3. \A r \in Recs, k \in Threads : r # WorkRec(t) \/ k # j[t] =>
              return_value'[r][k] = return_value[r][k]
      BY <2>1
    <2>4. CopyOrder'
      BY <2>1
    <2>5. DurableResult'
      <3> SUFFICES ASSUME NEW k \in Threads, nvm_last_state # NoRec,
                          Served(nvm_last_state, k)
                   PROVE  return_value'[nvm_last_state][k] =
                          return_value'[last_state][k]
        BY <2>1
      <3>1. return_value[nvm_last_state][k] = return_value[last_state][k]
        OBVIOUS
      <3>2. nvm_last_state # WorkRec(t) /\ last_state # WorkRec(t)
        BY <2>1
      <3> QED
        BY <2>3, <3>1, <3>2
    <2>6. CopyResult'
      BY <2>1, <2>2, <2>3
    <2>7. ExaminedResult'
      <3> SUFFICES ASSUME NEW k \in Threads, pc[k] \in Examining,
                          Served(local_rec[k], k)
                   PROVE  return_value'[local_rec[k]][k] =
                          return_value'[last_state][k]
        BY <2>1
      <3>1. return_value[local_rec[k]][k] = return_value[last_state][k]
        OBVIOUS
      <3>2. return_value'[last_state][k] = return_value[last_state][k]
        BY <2>1, <2>3
      <3>3. local_rec[k] # WorkRec(t) \/ k # j[t]
        BY <2>2
      <3> QED
        BY <2>3, <3>1, <3>2, <3>3
    <2> QED
      BY <2>4, <2>5, <2>6, <2>7
  <1>18. ASSUME NEW t \in Threads, MarkServed(t)
        PROVE  ResultInv'
    <2>1. /\ pc[t] = "mark" /\ pc' = [pc EXCEPT ![t] = "scan"]
          /\ \A r \in Recs \ {WorkRec(t)} : deactivate'[r] = deactivate[r]
          /\ UNCHANGED <<activate, return_value, last_state, nvm_last_state,
                         local_rec>>
          /\ \A c \in Threads : WorkRec(c)' = WorkRec(c)
      BY <1>18 DEF MarkServed, WorkRec
    <2>2. /\ CopyOrder' /\ DurableResult'
          /\ CopyResult'
      <3>2. \A c \in Threads : HasCopied(c)' => HasCopied(c)
        BY <2>1
      <3>1. CopyOrder'
        BY <2>1
      <3>3. DurableResult'
        <4>1. UNCHANGED <<activate, return_value, last_state, nvm_last_state>>
          BY <2>1
        <4>2. nvm_last_state # NoRec =>
                  deactivate'[nvm_last_state] = deactivate[nvm_last_state]
          BY <2>1
        <4> QED
          BY <4>1, <4>2
      <3>4. CopyResult'
        BY <2>1, <3>2
      <3> QED
        BY <3>1, <3>3, <3>4
    <2>3. ASSUME NEW k \in Threads, pc[k] \in Examining,
                 local_rec[k] = WorkRec(t)
          PROVE  return_value[local_rec[k]][k] = return_value[last_state][k]
      <3>1. IsDurable(k)
        BY <2>1, <2>3 DEF StaleRecord
      <3>2. Served(last_state, k)
        BY <3>1, RecordsAssumption DEF DurableServed, IsDurable, Recs
      <3> QED
        BY <2>1, <2>3, <3>2
    <2>4. ExaminedResult'
      BY <2>1, <2>3
    <2> QED
      BY <2>2, <2>4
  <1>19. ASSUME NEW t \in Threads, EndPass(t)
        PROVE  ResultInv'
    <2>1. CASE serve_reqs[t] /\ i[t] + 1 < Rounds
      BY <1>19, <2>1 DEF EndPass, WorkRec
    <2>2. CASE ~(serve_reqs[t] /\ i[t] + 1 < Rounds)
      BY <1>19, <2>2 DEF EndPass, WorkRec
    <2> QED
      BY <2>1, <2>2
  <1>20. ASSUME NEW t \in Threads, FinalPersist(t)
        PROVE  ResultInv'
    BY <1>20 DEF FinalPersist, WorkRec
  <1>21. ASSUME NEW t \in Threads, FlushState(t)
        PROVE  ResultInv'
    BY <1>21 DEF FlushState, Flushed, WorkRec
  <1>22. ASSUME NEW t \in Threads, SetLockValue(t)
        PROVE  ResultInv'
    BY <1>22 DEF SetLockValue, WorkRec
  <1>23. ASSUME NEW t \in Threads, Publish(t)
        PROVE  ResultInv'
    <2>1. /\ pc[t] = "publish" /\ pc' = [pc EXCEPT ![t] = "flush_pointer"]
          /\ last_state' = WorkRec(t)
          /\ UNCHANGED <<activate, deactivate, return_value, nvm_last_state,
                         local_rec>>
      BY <1>23 DEF Publish
    <2>2. \A k \in Threads : Served(last_state, k) =>
              return_value[WorkRec(t)][k] = return_value[last_state][k]
      BY <2>1
    <2>3. DurableResult'
      BY <2>1, <2>2 DEF DurableServed
    <2>4. ExaminedResult'
      BY <2>1, <2>2 DEF StaleServed
    <2>5. CopyOrder' /\ CopyResult'
      BY <2>1
    <2> QED
      BY <2>3, <2>4, <2>5
  <1>24. ASSUME NEW t \in Threads, FlushPointer(t)
        PROVE  ResultInv'
    BY <1>24 DEF FlushPointer, FlushedPointer, WorkRec
  <1>25. ASSUME NEW t \in Threads, AfterPersist(t)
        PROVE  ResultInv'
    BY <1>25 DEF AfterPersist, WorkRec
  <1>26. ASSUME NEW t \in Threads, Unlock(t)
        PROVE  ResultInv'
    <2>1. /\ pc[t] = "unlock" /\ pc' = [pc EXCEPT ![t] = "combiner_return"]
          /\ local_rec' = [local_rec EXCEPT ![t] = WorkRec(t)]
          /\ UNCHANGED <<activate, deactivate, return_value, last_state,
                         nvm_last_state>>
          /\ \A c \in Threads \ {t} : WorkRec(c)' = WorkRec(c)
      BY <1>26 DEF Unlock, WorkRec
    <2>2. CopyOrder' /\ CopyResult'
      BY <2>1
    <2>3. DurableResult'
      BY <2>1
    <2>4. ExaminedResult'
      BY <2>1
    <2> QED
      BY <2>2, <2>3, <2>4
  <1>27. ASSUME NEW t \in Threads, ReturnCombiner(t)
        PROVE  ResultInv'
    BY <1>27 DEF ReturnCombiner, Leave, WorkRec
  <1> QED
    BY <1>1, <1>2, <1>3, <1>4, <1>5, <1>6, <1>7, <1>8, <1>9, <1>10, <1>11,
       <1>12, <1>13, <1>14, <1>15, <1>16, <1>17, <1>18, <1>19, <1>20, <1>21,
       <1>22, <1>23, <1>24, <1>25, <1>26, <1>27
       DEF Next, Step, Wait, Combine

-----------------------------------------------------------------------------
(* The inductive invariant, and the theorems that follow from it *)

IndInv ==
    /\ TypeInv /\ LockInv /\ PoolInv /\ ImageInv
    /\ WaitInv /\ ChainInv /\ SessionInv /\ StaleInv

(* The inductive invariant holds of a new object.                            *)
LEMMA IndInvInit == Init => IndInv
  <1> SUFFICES ASSUME Init
               PROVE  IndInv
    OBVIOUS
  <1>1. TypeInv
    BY TypeInit
  <1>2. LockInv
    BY DEF Init, LockInv, OneCombiner, Holding, Filling, Serving, Releasing,
           IsHeld
  <1>3. PoolInv
    BY RecordsAssumption, ConstantsAssumption
       DEF Init, PoolInv, WorkRec, Releasing, PoolRecs, Recs
  <1>4. ImageInv
    BY RecordsAssumption DEF Init, ImageInv, ImageComplete, Recs
  <1>5. WaitInv
    BY DEF Init, WaitInv, Waiters, Releasing
  <1>6. ChainInv
    <2>1. \A t \in Threads : pc[t] = "idle" /\ Served(last_state, t)
      BY DEF Init, Served, Recs
    <2>2. nvm_last_state = NoRec
      BY DEF Init
    <2> QED
      BY <2>1, <2>2 DEF ChainInv, DurableServed, CopyServed, IdleServed,
                        PendingUnserved, HasCopied, Serving
  <1>7. SessionInv /\ StaleInv
    <2>1. \A t \in Threads : pc[t] = "idle"
      BY DEF Init
    <2> QED
      BY <2>1 DEF SessionInv, SessionServes, OldWaitersDurable,
                  ReturningDurable, AtReturn, StaleInv, StaleRecord,
                  StaleServed, StaleConfirmed, Examining, Confirmed, Waiters,
                  Holding, Filling, Serving, Releasing
  <1> QED
    BY <1>1, <1>2, <1>3, <1>4, <1>5, <1>6, <1>7 DEF IndInv

(* Every step preserves it.                                                  *)
LEMMA IndInvStep == IndInv /\ [Next]_vars => IndInv'
  BY TypeStep, LockStep, PoolStep, ImageStep, WaitStep, ChainStep,
     SessionServesStep, OldWaitersStep, ReturningStep, StaleRecordStep,
     StaleServedStep
     DEF IndInv, LockInv, SessionInv, StaleInv

(* It holds for ever.                                                        *)
LEMMA Induction == Spec => []IndInv
  BY IndInvInit, IndInvStep, PTL DEF Spec

(* Every variable of PBCombApplyOp and of its structures keeps its type: the *)
(* lock word its width, the pool index and the loop variables their ranges,  *)
(* every record a state, a result and a deactivate bit per thread.           *)
THEOREM TypeCorrect == Spec => []TypeOK
  BY Induction, PTL DEF IndInv, TypeInv

(* At most one thread runs the combiner's code (lines 166-205) at a time,    *)
(* and the lock word is odd exactly while one does.                          *)
THEOREM MutualExclusion == Spec => []OneCombiner
  BY Induction, PTL DEF IndInv, LockInv

(* A combiner never writes the record the other threads read or the one a    *)
(* crash would recover, with two records per thread or more.                 *)
THEOREM RecordPrivate == Spec => []WorkingRecordPrivate
  <1>1. IndInv => WorkingRecordPrivate
    BY DEF IndInv, PoolInv, WorkingRecordPrivate, Filling, Serving, Releasing
  <1> QED
    BY <1>1, Induction, PTL

(* Every record that is published, or may be what a crash recovers, is       *)
(* wholly durable (lines 191-198).                                           *)
THEOREM ImageAlwaysComplete == Spec => []ImageComplete
  BY Induction, PTL DEF IndInv, ImageInv

(* A waiter's request is served by the session it waits for or by the next   *)
(* one, whatever the number of threads and wherever the lock word wraps.     *)
THEOREM WaitersServed == Spec => []NextSessionServes
  <1>1. IndInv => NextSessionServes
    BY DEF IndInv, SessionInv, OldWaitersDurable, NextSessionServes, Waiters
  <1> QED
    BY <1>1, Induction, PTL

(* No crash loses an operation that has become durable: it stays in the      *)
(* durable image until its thread announces the next one.                    *)
THEOREM DurableForever ==
    Spec => [][\A t \in Threads :
                  IsDurable(t) /\ pc[t] # "activate" => IsDurable(t)']_vars
  <1>1. IndInv /\ [Next]_vars => \A t \in Threads :
            IsDurable(t) /\ pc[t] # "activate" => IsDurable(t)'
    BY DurableStep DEF IndInv
  <1> QED
    BY <1>1, Induction, PTL DEF Spec

(* With memcpy in ascending order ResultInv holds for ever.                  *)
LEMMA ResultInduction ==
    ASSUME AscendingCopy
    PROVE  Spec => []ResultInv
  <1>1. Init => ResultInv
    <2> SUFFICES ASSUME Init
                 PROVE  ResultInv
      OBVIOUS
    <2>1. \A t \in Threads : pc[t] = "idle"
      BY DEF Init
    <2>2. nvm_last_state = NoRec
      BY DEF Init
    <2> QED
      BY <2>1, <2>2 DEF ResultInv, CopyOrder, DurableResult, CopyResult,
                        ExaminedResult, Examining, Confirmed, HasCopied, Serving
  <1>2. IndInv /\ ResultInv /\ [Next]_vars => ResultInv'
    BY ResultStep DEF IndInv
  <1> QED
    BY <1>1, <1>2, Induction, PTL DEF Spec

(* What the invariants say of a thread about to return.                      *)
LEMMA ReturnFacts ==
    ASSUME IndInv, ResultInv, NEW t \in Threads, AtReturn(t)
    PROVE  /\ IsDurable(t)
           /\ return_value[local_rec[t]][t] = return_value[last_state][t]
           /\ return_value[nvm_last_state][t] = return_value[last_state][t]
  <1>1. IsDurable(t)
    BY DEF IndInv, SessionInv, ReturningDurable
  <1>2. Served(nvm_last_state, t) /\ nvm_last_state # NoRec
    BY <1>1, RecordsAssumption DEF IsDurable, Served, Recs
  <1>3. pc[t] \in Examining /\ Served(local_rec[t], t)
    BY DEF IndInv, StaleInv, StaleConfirmed, AtReturn, Examining, Confirmed
  <1> QED
    BY <1>1, <1>2, <1>3 DEF ResultInv, DurableResult, ExaminedResult

(* With memcpy in ascending order a call returns the result of the session   *)
(* that served it, although a waiter may read it from a record being reused. *)
THEOREM OwnResult ==
    ASSUME AscendingCopy
    PROVE  Spec => []ReturnsOwnResult
  <1>1. IndInv /\ ResultInv => ReturnsOwnResult
    BY ReturnFacts DEF ReturnsOwnResult
  <1> QED
    BY <1>1, Induction, ResultInduction, PTL

(* A call returns only after its operation and its result are in the durable *)
(* image: durable linearizability's demand on every crash.                   *)
THEOREM DurableOnReturn ==
    ASSUME AscendingCopy
    PROVE  Spec => []ReturnedDurable
  <1>1. IndInv /\ ResultInv => ReturnedDurable
    BY ReturnFacts DEF ReturnedDurable
  <1> QED
    BY <1>1, Induction, ResultInduction, PTL

-----------------------------------------------------------------------------
(* PBcomb implements DurableObject if memcpy stores in ascending order: the  *)
(* refinement mapping of PBComb takes initial states to initial states and   *)
(* every step to a step of the abstract object or to none.  It also          *)
(* implements CombiningSessions, the interface PBStack, PBQueue and PBHeap   *)
(* are built on.                                                             *)
-----------------------------------------------------------------------------
(* The abstract variables, one thread at a time *)

IsOutside(t) == pc[t] \in {"idle", "activate"}

AbstractParam(t) ==
    IF AbstractPhase(t) = "pending" THEN arg[t] ELSE <<"no arg">>

AbstractResult(t) ==
    IF AbstractPhase(t) \in {"applied", "durable"}
    THEN return_value[CurrentRec][t] ELSE out[t]

DurableState ==
    IF nvm_last_state \in PoolRecs /\ clean[nvm_last_state]
    THEN state[nvm_last_state] ELSE Unformatted

(* What a step may do, as the mapping sees it: change nothing of thread t,   *)
(* or nothing but whether its operation is durable, ...                      *)
Undisturbed(t) ==
    /\ IsOutside(t)' <=> IsOutside(t)
    /\ HasTakenEffect(t)' <=> HasTakenEffect(t)
    /\ ~IsOutside(t) => arg'[t] = arg[t]
    /\ out'[t] = out[t]
    /\ (return_value[CurrentRec][t])' = return_value[CurrentRec][t]

Unaffected(t) == Undisturbed(t) /\ (IsDurable(t)' <=> IsDurable(t))

KeepsStates ==
    /\ (state[CurrentRec])' = state[CurrentRec]
    /\ DurableState' = DurableState

(* ... change nothing at all, ...                                            *)
Silent == (\A t \in Threads : Unaffected(t)) /\ KeepsStates

(* ... announce the operation of t, let it take effect, make what has taken  *)
(* effect durable, or return from the call of t.                             *)
Announces(t) ==
    /\ IsOutside(t) /\ ~IsOutside(t)' /\ ~HasTakenEffect(t)'
    /\ arg'[t] = arg[t] /\ out'[t] = out[t]
    /\ \A u \in Threads \ {t} : Unaffected(u)
    /\ KeepsStates

TakesEffect(t) ==
    /\ ~IsOutside(t) /\ ~IsOutside(t)'
    /\ ~HasTakenEffect(t) /\ HasTakenEffect(t)' /\ ~IsDurable(t)'
    /\ arg'[t] = arg[t]
    /\ \A u \in Threads \ {t} : Unaffected(u)
    /\ (state[CurrentRec])' = SFunc(state[CurrentRec], arg[t], t).state
    /\ (return_value[CurrentRec][t])' = SFunc(state[CurrentRec], arg[t], t).ret
    /\ DurableState' = DurableState

BecomesDurable ==
    /\ \A t \in Threads : Undisturbed(t) /\ (HasTakenEffect(t) <=> IsDurable(t)')
    /\ (state[CurrentRec])' = state[CurrentRec]
    /\ DurableState' = state[CurrentRec]

Leaves(t) ==
    /\ ~IsOutside(t) /\ IsOutside(t)'
    /\ HasTakenEffect(t) /\ IsDurable(t)
    /\ out'[t] = return_value[CurrentRec][t]
    /\ \A u \in Threads \ {t} : Unaffected(u)
    /\ KeepsStates

-----------------------------------------------------------------------------
(* These are the steps of the abstract object *)

LEMMA UnaffectedThread ==
    ASSUME NEW t \in Threads, Unaffected(t)
    PROVE  /\ AbstractPhase(t)' = AbstractPhase(t)
           /\ AbstractParam(t)' = AbstractParam(t)
           /\ AbstractResult(t)' = AbstractResult(t)
  <1>1. AbstractPhase(t)' = AbstractPhase(t)
    BY DEF Unaffected, Undisturbed, AbstractPhase, IsOutside
  <1>2. AbstractPhase(t) = "pending" => ~IsOutside(t)
    BY DEF AbstractPhase, IsOutside
  <1> QED
    BY <1>1, <1>2 DEF Unaffected, Undisturbed, AbstractParam, AbstractResult

LEMMA SilentRefines == Silent => UNCHANGED Abstract!vars
  <1> SUFFICES ASSUME Silent
               PROVE  UNCHANGED Abstract!vars
    OBVIOUS
  <1>1. \A t \in Threads :
            /\ AbstractPhase(t)' = AbstractPhase(t)
            /\ AbstractParam(t)' = AbstractParam(t)
            /\ AbstractResult(t)' = AbstractResult(t)
    BY UnaffectedThread DEF Silent
  <1> QED
    BY <1>1 DEF Silent, KeepsStates, Abstract!vars, AbstractParam, AbstractResult,
                DurableState

LEMMA AnnouncesRefines ==
    ASSUME NEW t \in Threads, NEW a \in Args, Announces(t), arg[t] = a
    PROVE  Abstract!Invoke(t, a)
  <1>1. \A u \in Threads \ {t} :
            /\ AbstractPhase(u)' = AbstractPhase(u)
            /\ AbstractParam(u)' = AbstractParam(u)
            /\ AbstractResult(u)' = AbstractResult(u)
    BY UnaffectedThread DEF Announces
  <1>2. AbstractPhase(t) = "idle" /\ AbstractPhase(t)' = "pending"
    BY DEF Announces, AbstractPhase, IsOutside
  <1>3. AbstractParam(t)' = a /\ AbstractResult(t)' = AbstractResult(t)
    BY <1>2 DEF Announces, AbstractParam, AbstractResult
  <1> QED
    BY <1>1, <1>2, <1>3
       DEF Announces, KeepsStates, Abstract!Invoke, AbstractParam, AbstractResult,
           DurableState

LEMMA TakesEffectRefines ==
    ASSUME NEW t \in Threads, TakesEffect(t)
    PROVE  Abstract!Apply(t)
  <1>1. \A u \in Threads \ {t} :
            /\ AbstractPhase(u)' = AbstractPhase(u)
            /\ AbstractParam(u)' = AbstractParam(u)
            /\ AbstractResult(u)' = AbstractResult(u)
    BY UnaffectedThread DEF TakesEffect
  <1>2. AbstractPhase(t) = "pending" /\ AbstractPhase(t)' = "applied"
    BY DEF TakesEffect, AbstractPhase, IsOutside
  <1>3. /\ AbstractParam(t) = arg[t] /\ AbstractParam(t)' = <<"no arg">>
        /\ AbstractResult(t)' = SFunc(state[CurrentRec], arg[t], t).ret
    BY <1>2 DEF TakesEffect, AbstractParam, AbstractResult
  <1> QED
    BY <1>1, <1>2, <1>3
       DEF TakesEffect, Abstract!Apply, AbstractParam, AbstractResult, DurableState

LEMMA BecomesDurableRefines == BecomesDurable => Abstract!Persist
  <1> SUFFICES ASSUME BecomesDurable
               PROVE  Abstract!Persist
    OBVIOUS
  <1>1. \A u \in Threads :
            AbstractPhase(u)' = IF AbstractPhase(u) = "applied" THEN "durable"
                                ELSE AbstractPhase(u)
    BY DEF BecomesDurable, Undisturbed, AbstractPhase, IsOutside
  <1>2. \A u \in Threads : AbstractPhase(u) = "pending" => ~IsOutside(u)
    BY DEF AbstractPhase, IsOutside
  <1>3. \A u \in Threads : /\ AbstractParam(u)' = AbstractParam(u)
                           /\ AbstractResult(u)' = AbstractResult(u)
    BY <1>1, <1>2 DEF BecomesDurable, Undisturbed, AbstractParam, AbstractResult
  <1> QED
    BY <1>1, <1>3
       DEF BecomesDurable, Abstract!Persist, AbstractParam, AbstractResult, DurableState

LEMMA LeavesRefines ==
    ASSUME NEW t \in Threads, Leaves(t)
    PROVE  Abstract!Return(t)
  <1>1. \A u \in Threads \ {t} :
            /\ AbstractPhase(u)' = AbstractPhase(u)
            /\ AbstractParam(u)' = AbstractParam(u)
            /\ AbstractResult(u)' = AbstractResult(u)
    BY UnaffectedThread DEF Leaves
  <1>2. AbstractPhase(t) = "durable" /\ AbstractPhase(t)' = "idle"
    BY DEF Leaves, AbstractPhase, IsOutside
  <1>3. /\ AbstractParam(t)' = AbstractParam(t)
        /\ AbstractResult(t)' = AbstractResult(t)
    BY <1>2 DEF Leaves, AbstractParam, AbstractResult
  <1> QED
    BY <1>1, <1>2, <1>3
       DEF Leaves, KeepsStates, Abstract!Return, AbstractParam, AbstractResult,
           DurableState

-----------------------------------------------------------------------------
(* The record that holds the current state *)

(* There is one combiner: between its copy and its publication the current   *)
(* state is in the record it works on, and otherwise in the published one.   *)
LEMMA CurrentRecord ==
    ASSUME OneCombiner
    PROVE  /\ \A t \in Threads : pc[t] \in Serving => CurrentRec = WorkRec(t)
           /\ (\A t \in Threads : pc[t] \notin Serving) => CurrentRec = last_state
  <1>1. \A t, u \in Threads : Combining(t) /\ Combining(u) => t = u
    BY DEF OneCombiner, Combining, Holding
  <1>2. ASSUME NEW t \in Threads, Combining(t)
        PROVE  CurrentRec = WorkRec(t)
    <2>1. (CHOOSE u \in Threads : Combining(u)) = t
      BY <1>1, <1>2
    <2> QED
      BY <1>2, <2>1 DEF CurrentRec
  <1>3. (\A t \in Threads : ~Combining(t)) => CurrentRec = last_state
    BY DEF CurrentRec
  <1> QED
    BY <1>2, <1>3 DEF Combining

LEMMA NextCurrentRecord ==
    ASSUME OneCombiner'
    PROVE  /\ \A t \in Threads : pc'[t] \in Serving => CurrentRec' = WorkRec(t)'
           /\ (\A t \in Threads : pc'[t] \notin Serving) =>
                  CurrentRec' = last_state'
  <1>1. \A t, u \in Threads : Combining(t)' /\ Combining(u)' => t = u
    BY DEF OneCombiner, Combining, Holding
  <1>2. ASSUME NEW t \in Threads, Combining(t)'
        PROVE  CurrentRec' = WorkRec(t)'
    <2>1. (CHOOSE u \in Threads : Combining(u)') = t
      BY <1>1, <1>2
    <2> QED
      BY <1>2, <2>1 DEF CurrentRec
  <1>3. (\A t \in Threads : ~Combining(t)') => CurrentRec' = last_state'
    BY DEF CurrentRec
  <1> QED
    BY <1>2, <1>3 DEF Combining

(* The copy of line 166 takes the state with it.                             *)
StateCopied ==
    \A c \in Threads : pc[c] = "copy_deactivate" =>
        state[WorkRec(c)] = state[last_state]

RefInv == IndInv /\ ResultInv /\ StateCopied

(* What the invariants say in the terms of the mapping: a request that is    *)
(* served in the published or in the durable record is served in the current *)
(* one, a thread outside the object has been served and is not being served, *)
(* and its result is in the current record.                                  *)
LEMMA CurrentFacts ==
    ASSUME RefInv, NEW t \in Threads
    PROVE  /\ Served(last_state, t) =>
                  /\ Served(CurrentRec, t)
                  /\ return_value[CurrentRec][t] = return_value[last_state][t]
           /\ IsDurable(t) => Served(last_state, t)
           /\ IsOutside(t) => Served(last_state, t)
           /\ \A c \in Threads : pc[c] \in {"serve", "mark"} /\ j[c] = t =>
                  ~Served(CurrentRec, t) /\ ~IsDurable(t) /\ ~IsOutside(t)
           /\ CurrentRec \in Recs
           /\ nvm_last_state \in PoolRecs => clean[nvm_last_state]
  <1> /\ DurableServed /\ CopyServed /\ IdleServed /\ PendingUnserved /\ CopyResult
      /\ OneCombiner /\ TypeOK
    BY DEF RefInv, IndInv, ChainInv, ResultInv, LockInv, TypeInv
  <1>1. Served(last_state, t) =>
            /\ Served(CurrentRec, t)
            /\ return_value[CurrentRec][t] = return_value[last_state][t]
    BY CurrentRecord DEF CopyServed, CopyResult, HasCopied
  <1>2. IsDurable(t) => Served(last_state, t)
    BY RecordsAssumption DEF DurableServed, IsDurable, Served, Recs
  <1>3. IsOutside(t) => Served(last_state, t)
    BY DEF IdleServed, IsOutside
  <1>4. ASSUME NEW c \in Threads, pc[c] \in {"serve", "mark"}, j[c] = t
        PROVE  ~Served(CurrentRec, t)
    BY <1>4, CurrentRecord DEF PendingUnserved, Serving
  <1>5. CurrentRec \in Recs
    BY CurrentRecord, WorkRecType DEF TypeOK
  <1>6. nvm_last_state \in PoolRecs => clean[nvm_last_state]
    BY DEF RefInv, IndInv, ImageInv, ImageComplete
  <1> QED
    BY <1>1, <1>2, <1>3, <1>4, <1>5, <1>6

(* Every step preserves StateCopied: only the combiner writes a state, in    *)
(* its own record.                                                           *)
LEMMA StateCopiedStep == RefInv /\ [Next]_vars => StateCopied'
  <1> SUFFICES ASSUME RefInv, [Next]_vars, NEW c \in Threads,
                      pc'[c] = "copy_deactivate"
               PROVE  state'[WorkRec(c)'] = state'[last_state']
    BY DEF StateCopied
  <1> OneCombiner /\ PoolInv /\ TypeOK /\ StateCopied
    BY DEF RefInv, IndInv, LockInv, TypeInv
  <1> /\ pc \in [Threads -> Labels] /\ last_state \in Recs
      /\ WorkRec(c) \in Recs
    BY WorkRecType DEF TypeOK
  <1> USE DEF At, Goto, requestVars, lockVars, recordVars, pointerVars, loopVars,
              localVars
  <1>1. CASE pc[c] = "copy_deactivate"
    <2>1. WorkRec(c) # last_state
      BY <1>1 DEF PoolInv, Releasing
    <2>2. \A t \in Threads : pc[t] \in Holding => t = c
      BY <1>1 DEF OneCombiner, Holding, Filling
    <2>3. state[WorkRec(c)] = state[last_state]
      BY <1>1 DEF StateCopied
    <2>4. \A t \in Threads \ {c} :
              ~(CopyState(t) \/ ServeRequest(t) \/ Publish(t) \/ Unlock(t))
      BY <2>2 DEF CopyState, CopyFlex, CopyAscending, CopyDescending,
                  ServeRequest, Publish, Unlock, Holding, Filling, Serving, Releasing
    <2>5. ~(CopyState(c) \/ ServeRequest(c) \/ Publish(c) \/ Unlock(c))
      BY <1>1 DEF CopyState, CopyFlex, CopyAscending, CopyDescending,
                  ServeRequest, Publish, Unlock
    <2>6. UNCHANGED <<state, last_state, pool_index>>
      BY <2>4, <2>5
         DEF Next, Step, Wait, Combine, Evict, vars, WriteArg, ToggleActivate,
             SetValid, ReadLock, TryLock, SpinWhileLocked, ReadLastState,
             CheckServed, CheckVersion, WaitNext, ReturnServed, SkipRequest,
             FindRequest, MarkServed, EndPass, FinalPersist, FlushState,
             SetLockValue, FlushPointer, AfterPersist, ReturnCombiner
    <2> QED
      BY <2>3, <2>6 DEF WorkRec
  <1>2. CASE pc[c] # "copy_deactivate"
    <2>1. CopyState(c)
      BY <1>2
         DEF Next, Step, Wait, Combine, Evict, vars, WriteArg, ToggleActivate,
             SetValid, ReadLock, TryLock, SpinWhileLocked, ReadLastState,
             CheckServed, CheckVersion, WaitNext, ReturnServed, SkipRequest,
             FindRequest, ServeRequest, MarkServed, EndPass, FinalPersist,
             FlushState, SetLockValue, Publish, FlushPointer, AfterPersist,
             Unlock, ReturnCombiner, Leave, CopyState, CopyFlex, CopyAscending,
             CopyDescending
    <2>2. pc[c] = "copy" /\ CopyResults(c) /\ UNCHANGED <<last_state, pool_index>>
      BY <1>2, <2>1 DEF CopyState, CopyFlex, CopyAscending, CopyDescending
    <2> QED
      BY <2>2 DEF CopyResults, WorkRec, TypeOK
  <1> QED
    BY <1>1, <1>2

-----------------------------------------------------------------------------
(* The steps of PBcomb *)

(* Whatever is durable is complete, so the durable state is that of the      *)
(* record the durable pointer leads to.                                      *)
LEMMA DurableStateIs ==
    /\ RefInv =>
           DurableState = IF nvm_last_state \in PoolRecs
                          THEN state[nvm_last_state] ELSE Unformatted
    /\ RefInv' =>
           DurableState' = IF nvm_last_state' \in PoolRecs
                           THEN state'[nvm_last_state'] ELSE Unformatted
  BY DEF RefInv, IndInv, ImageInv, ImageComplete, DurableState

(* A step that changes neither a record nor a pointer, and moves no thread   *)
(* between the places the mapping tells apart, is silent.                    *)
LEMMA QuietStep ==
    ASSUME RefInv, RefInv',
           UNCHANGED <<activate, state, return_value, deactivate, last_state,
                       nvm_last_state, out>>,
           \A u \in Threads :
               /\ IsOutside(u)' <=> IsOutside(u)
               /\ ~IsOutside(u) => arg'[u] = arg[u]
               /\ pc'[u] \in Serving <=> pc[u] \in Serving
               /\ pc[u] \in Serving => WorkRec(u)' = WorkRec(u)
               /\ pc'[u] = "mark" <=> pc[u] = "mark"
               /\ pc[u] = "mark" => j'[u] = j[u]
    PROVE  Silent
  <1>1. CurrentRec' = CurrentRec
    <2>1. OneCombiner /\ OneCombiner'
      BY DEF RefInv, IndInv, LockInv
    <2>2. CASE \E u \in Threads : pc[u] \in Serving
      BY <2>1, <2>2, CurrentRecord, NextCurrentRecord
    <2>3. CASE \A u \in Threads : pc[u] \notin Serving
      BY <2>1, <2>3, CurrentRecord, NextCurrentRecord
    <2> QED
      BY <2>2, <2>3
  <1>2. \A u \in Threads : HasTakenEffect(u)' <=> HasTakenEffect(u)
    BY <1>1 DEF HasTakenEffect
  <1>3. \A u \in Threads : Unaffected(u)
    BY <1>1, <1>2 DEF Unaffected, Undisturbed, IsDurable
  <1>4. DurableState' = DurableState
    BY DurableStateIs
  <1> QED
    BY <1>1, <1>3, <1>4 DEF Silent, KeepsStates

(* Line 135 announces the operation.                                         *)
LEMMA ActivateAnnounces ==
    ASSUME RefInv, RefInv', NEW t \in Threads, ToggleActivate(t)
    PROVE  Announces(t)
  <1> TypeOK /\ OneCombiner /\ OneCombiner'
    BY DEF RefInv, IndInv, LockInv, TypeInv
  <1>1. /\ pc[t] = "activate" /\ pc' = [pc EXCEPT ![t] = "valid"]
        /\ activate' = [activate EXCEPT ![t] = 1 - activate[t]]
        /\ UNCHANGED <<arg, state, return_value, deactivate, last_state,
                       nvm_last_state, j, out>>
        /\ \A u \in Threads : WorkRec(u)' = WorkRec(u)
    BY DEF ToggleActivate, At, Goto, recordVars, pointerVars, loopVars, WorkRec
  <1> /\ pc \in [Threads -> Labels] /\ activate \in [Threads -> {0, 1}]
    BY DEF TypeOK
  <1>2. \A u \in Threads : pc'[u] \in Serving <=> pc[u] \in Serving
    BY <1>1 DEF Serving
  <1>3. CurrentRec' = CurrentRec
    <2>1. CASE \E u \in Threads : pc[u] \in Serving
      BY <1>1, <1>2, <2>1, CurrentRecord, NextCurrentRecord
    <2>2. CASE \A u \in Threads : pc[u] \notin Serving
      BY <1>1, <1>2, <2>2, CurrentRecord, NextCurrentRecord
    <2> QED
      BY <2>1, <2>2
  <1>4. IsOutside(t) /\ Served(CurrentRec, t)
    BY <1>1, CurrentFacts DEF IsOutside
  <1>5. ~HasTakenEffect(t)'
    <2>1. \A c \in Threads : pc'[c] = "mark" => pc[c] = "mark" /\ j[c] # t
      BY <1>1, <1>4, CurrentFacts
    <2>2. deactivate'[CurrentRec'][t] # activate'[t]
      BY <1>1, <1>3, <1>4, FlippedBit DEF Served
    <2> QED
      BY <1>1, <2>1, <2>2 DEF HasTakenEffect
  <1>6. IsOutside(t) /\ ~IsOutside(t)'
    BY <1>1, <1>4 DEF IsOutside
  <1>7. \A u \in Threads \ {t} : Unaffected(u)
    <2>1. \A u \in Threads \ {t} : HasTakenEffect(u)' <=> HasTakenEffect(u)
      BY <1>1, <1>3 DEF HasTakenEffect
    <2> QED
      BY <1>1, <1>3, <2>1 DEF Unaffected, Undisturbed, IsOutside, IsDurable
  <1>8. DurableState' = DurableState
    BY <1>1, DurableStateIs
  <1> QED
    BY <1>1, <1>3, <1>5, <1>6, <1>7, <1>8 DEF Announces, KeepsStates

(* Line 175 applies it to the working record.                                *)
LEMMA ServeTakesEffect ==
    ASSUME RefInv, RefInv', NEW t \in Threads, NEW k \in Threads,
           ServeRequest(t), j[t] = k
    PROVE  TakesEffect(k)
  <1> TypeOK /\ OneCombiner /\ OneCombiner' /\ PoolInv /\ ScanInRange
    BY DEF RefInv, IndInv, LockInv, TypeInv
  <1> /\ pc \in [Threads -> Labels] /\ state \in [Recs -> ObjStates]
      /\ return_value \in [Recs -> [Threads -> RetVals]]
    BY DEF TypeOK
  <1> DEFINE r == WorkRec(t)
  <1> HIDE DEF r
  <1>1. /\ pc[t] = "serve" /\ pc' = [pc EXCEPT ![t] = "mark"]
        /\ state' = [state EXCEPT ![r] = SFunc(state[r], arg[k], k).state]
        /\ return_value' = [return_value EXCEPT ![r][k] =
                               SFunc(state[r], arg[k], k).ret]
        /\ UNCHANGED <<arg, activate, deactivate, last_state, nvm_last_state,
                       j, out>>
        /\ \A u \in Threads : WorkRec(u)' = WorkRec(u)
    BY DEF ServeRequest, At, Goto, requestVars, pointerVars, loopVars, WorkRec, r
  <1>2. r \in Recs
    BY WorkRecType DEF r
  <1>3. CurrentRec = r /\ CurrentRec' = r
    BY <1>1, CurrentRecord, NextCurrentRecord DEF Serving, r
  <1>4. \A c \in Threads : pc[c] \in Serving => c = t
    BY <1>1 DEF OneCombiner, Holding, Serving
  <1>5. ~Served(r, k) /\ ~IsDurable(k) /\ ~IsOutside(k)
    BY <1>1, <1>2, <1>3, CurrentFacts
  <1>6. nvm_last_state # r
    BY <1>1 DEF PoolInv, Releasing, r
  <1>7. ~HasTakenEffect(k)
    <2>1. \A c \in Threads : pc[c] # "mark"
      BY <1>1, <1>4 DEF Serving
    <2> QED
      BY <1>3, <1>5, <2>1 DEF HasTakenEffect, Served
  <1>8. HasTakenEffect(k)' /\ ~IsDurable(k)' /\ ~IsOutside(k)'
    <2>1. HasTakenEffect(k)'
      BY <1>1 DEF HasTakenEffect
    <2>2. ~IsDurable(k)'
      BY <1>1, <1>5 DEF IsDurable
    <2>3. ~IsOutside(k)'
      BY <1>1, <1>2, <1>5 DEF IsOutside
    <2> QED
      BY <2>1, <2>2, <2>3
  <1>9. \A u \in Threads \ {k} : Unaffected(u)
    <2>1. \A u \in Threads \ {k} : HasTakenEffect(u)' <=> HasTakenEffect(u)
      BY <1>1, <1>3, <1>4 DEF HasTakenEffect, Serving
    <2>2. \A u \in Threads \ {k} : return_value'[r][u] = return_value[r][u]
      BY <1>1, <1>2
    <2> QED
      BY <1>1, <1>3, <2>1, <2>2 DEF Unaffected, Undisturbed, IsOutside, IsDurable
  <1>10. /\ (state[CurrentRec])' = SFunc(state[CurrentRec], arg[k], k).state
         /\ (return_value[CurrentRec][k])' = SFunc(state[CurrentRec], arg[k], k).ret
    <2>1. state'[r] = SFunc(state[r], arg[k], k).state
      BY <1>1, <1>2
    <2>2. return_value'[r][k] = SFunc(state[r], arg[k], k).ret
      BY <1>1, <1>2
    <2>3. k' = k
      BY <1>1
    <2> QED
      BY <1>3, <2>1, <2>2, <2>3
  <1>11. DurableState' = DurableState
    <2>1. nvm_last_state \in PoolRecs => state'[nvm_last_state] = state[nvm_last_state]
      BY <1>1, <1>6 DEF Recs
    <2> QED
      BY <1>1, <2>1, DurableStateIs
  <1> QED
    BY <1>1, <1>5, <1>7, <1>8, <1>9, <1>10, <1>11 DEF TakesEffect

(* Lines 176-177 record what line 175 did.                                   *)
LEMMA MarkIsSilent ==
    ASSUME RefInv, RefInv', NEW t \in Threads, MarkServed(t)
    PROVE  Silent
  <1> TypeOK /\ OneCombiner /\ OneCombiner' /\ PoolInv /\ ScanInRange
    BY DEF RefInv, IndInv, LockInv, TypeInv
  <1> /\ pc \in [Threads -> Labels]
      /\ deactivate \in [Recs -> [Threads -> {0, 1}]]
    BY DEF TypeOK
  <1> DEFINE r == WorkRec(t)
             k == j[t]
  <1> HIDE DEF r, k
  <1>1. /\ pc[t] = "mark" /\ pc' = [pc EXCEPT ![t] = "scan"]
        /\ deactivate' = [deactivate EXCEPT ![r][k] = activate[k]]
        /\ UNCHANGED <<arg, activate, state, return_value, last_state,
                       nvm_last_state, out>>
        /\ \A u \in Threads : WorkRec(u)' = WorkRec(u)
    BY DEF MarkServed, At, Goto, requestVars, pointerVars, WorkRec, r, k
  <1>2. k \in Threads /\ r \in Recs
    BY <1>1, WorkRecType DEF ScanInRange, r, k
  <1>3. CurrentRec = r /\ CurrentRec' = r
    BY <1>1, CurrentRecord, NextCurrentRecord DEF Serving, r
  <1>4. \A c \in Threads : pc[c] \in Serving => c = t
    BY <1>1 DEF OneCombiner, Holding, Serving
  <1>5. nvm_last_state # r
    BY <1>1 DEF PoolInv, Releasing, r
  <1>6. \A c \in Threads : pc[c] = "mark" <=> c = t
    BY <1>1, <1>4 DEF Serving
  <1>7. \A c \in Threads : pc'[c] # "mark"
    BY <1>1, <1>6
  <1>8. ASSUME NEW u \in Threads
        PROVE  HasTakenEffect(u)' <=> HasTakenEffect(u)
    <2>1. HasTakenEffect(u) <=> Served(r, u) \/ u = k
      BY <1>3, <1>6 DEF HasTakenEffect, Served, k
    <2>2. HasTakenEffect(u)' <=> deactivate'[r][u] = activate[u]
      BY <1>1, <1>3, <1>7 DEF HasTakenEffect
    <2>3. CASE u = k
      BY <1>1, <1>2, <2>1, <2>2, <2>3
    <2>4. CASE u # k
      BY <1>1, <1>2, <2>1, <2>2, <2>4 DEF Served
    <2> QED
      BY <2>3, <2>4
  <1>9. \A u \in Threads : IsDurable(u)' <=> IsDurable(u)
    <2>1. nvm_last_state \in PoolRecs =>
              deactivate'[nvm_last_state] = deactivate[nvm_last_state]
      BY <1>1, <1>5 DEF Recs
    <2> QED
      BY <1>1, <2>1 DEF IsDurable
  <1>10. \A u \in Threads : Unaffected(u)
    BY <1>1, <1>3, <1>8, <1>9 DEF Unaffected, Undisturbed, IsOutside
  <1>11. DurableState' = DurableState
    BY <1>1, DurableStateIs
  <1> QED
    BY <1>1, <1>3, <1>10, <1>11 DEF Silent, KeepsStates

(* Lines 166-168: nobody looks at the record before it is complete, and then *)
(* it is a copy of the published one.                                        *)
LEMMA CopyIsSilent ==
    ASSUME RefInv, RefInv', NEW t \in Threads, CopyState(t)
    PROVE  Silent
  <1> /\ TypeOK /\ OneCombiner /\ OneCombiner' /\ PoolInv
      /\ StateCopied /\ CopyOrder /\ CopyOrder'
    BY DEF RefInv, IndInv, LockInv, TypeInv, ResultInv
  <1> /\ pc \in [Threads -> Labels] /\ last_state \in Recs
      /\ state \in [Recs -> ObjStates]
      /\ return_value \in [Recs -> [Threads -> RetVals]]
      /\ deactivate \in [Recs -> [Threads -> {0, 1}]]
    BY DEF TypeOK
  <1> DEFINE r == WorkRec(t)
  <1> HIDE DEF r
  <1>1. /\ UNCHANGED <<arg, activate, last_state, nvm_last_state, j, out>>
        /\ \A u \in Threads : WorkRec(u)' = WorkRec(u)
    BY DEF CopyState, requestVars, pointerVars, loopVars, WorkRec
  <1>2. r \in Recs /\ pc[t] \in Filling
    BY WorkRecType
       DEF CopyState, CopyFlex, CopyAscending, CopyDescending, At, Filling, r
  <1>3. r # last_state /\ r # nvm_last_state
    BY <1>2 DEF PoolInv, Filling, Releasing, r
  <1>4. \A c \in Threads : pc[c] \notin Serving
    BY <1>2 DEF OneCombiner, Holding, Filling, Serving
  <1>5. CurrentRec = last_state
    BY <1>4, CurrentRecord
  <1>6. /\ \A u \in Recs \ {r} : /\ state'[u] = state[u]
                                 /\ return_value'[u] = return_value[u]
                                 /\ deactivate'[u] = deactivate[u]
        /\ \A u \in Threads \ {t} : pc'[u] = pc[u]
    BY DEF CopyState, CopyFlex, CopyAscending, CopyDescending, CopyResults,
           CopyDeactivate, Goto, r
  <1>7. \/ pc[t] = "copy" /\ pc'[t] = "copy_deactivate"
        \/ /\ pc[t] = "copy_deactivate" /\ pc'[t] = "scan"
           /\ deactivate'[r] = deactivate[last_state]
           /\ UNCHANGED <<state, return_value>>
    BY <1>2 DEF CopyState, CopyFlex, CopyAscending, CopyDescending, CopyResults,
           CopyDeactivate, At, Goto, CopyOrder, r
  <1>8. /\ state'[CurrentRec'] = state[last_state]
        /\ return_value'[CurrentRec'] = return_value[last_state]
        /\ deactivate'[CurrentRec'] = deactivate[last_state]
    <2>1. CASE pc'[t] = "copy_deactivate"
      <3>1. CurrentRec' = last_state
        BY <1>1, <1>4, <1>6, <2>1, NextCurrentRecord DEF Serving
      <3> QED
        BY <1>3, <1>6, <3>1
    <2>2. CASE pc'[t] = "scan"
      <3>1. CurrentRec' = r
        BY <1>1, <2>2, NextCurrentRecord DEF Serving, r
      <3>2. /\ state[r] = state[last_state]
            /\ return_value[r] = return_value[last_state]
        BY <1>7, <2>2 DEF StateCopied, CopyOrder, r
      <3> QED
        BY <1>7, <2>2, <3>1, <3>2
    <2> QED
      BY <1>7, <2>1, <2>2
  <1>9. \A u \in Threads : HasTakenEffect(u)' <=> HasTakenEffect(u)
    <2>1. \A c \in Threads : pc[c] # "mark" /\ pc'[c] # "mark"
      BY <1>4, <1>6, <1>7 DEF Serving
    <2> QED
      BY <1>1, <1>5, <1>8, <2>1 DEF HasTakenEffect
  <1>10. ASSUME nvm_last_state \in PoolRecs
         PROVE  /\ state'[nvm_last_state] = state[nvm_last_state]
                /\ deactivate'[nvm_last_state] = deactivate[nvm_last_state]
    BY <1>3, <1>6, <1>10 DEF Recs
  <1>11. \A u \in Threads : IsOutside(u)' <=> IsOutside(u)
    BY <1>6, <1>7 DEF IsOutside
  <1>12. \A u \in Threads : Unaffected(u)
    BY <1>1, <1>5, <1>8, <1>9, <1>10, <1>11 DEF Unaffected, Undisturbed, IsDurable
  <1>13. DurableState' = DurableState
    BY <1>1, <1>10, DurableStateIs
  <1> QED
    BY <1>5, <1>8, <1>12, <1>13 DEF Silent, KeepsStates

(* Line 195: the working record becomes the published one.                   *)
LEMMA PublishIsSilent ==
    ASSUME RefInv, RefInv', NEW t \in Threads, Publish(t)
    PROVE  Silent
  <1> TypeOK /\ OneCombiner /\ OneCombiner'
    BY DEF RefInv, IndInv, LockInv, TypeInv
  <1> pc \in [Threads -> Labels]
    BY DEF TypeOK
  <1>1. /\ pc[t] = "publish" /\ pc' = [pc EXCEPT ![t] = "flush_pointer"]
        /\ last_state' = WorkRec(t)
        /\ UNCHANGED <<arg, activate, state, return_value, deactivate,
                       nvm_last_state, j, out>>
    BY DEF Publish, At, Goto, requestVars, recordVars, loopVars
  <1>2. \A c \in Threads : pc[c] \in Serving => c = t
    BY <1>1 DEF OneCombiner, Holding, Serving
  <1>3. \A c \in Threads : pc'[c] \notin Serving
    BY <1>1, <1>2 DEF Serving
  <1>4. CurrentRec' = CurrentRec
    BY <1>1, <1>3, CurrentRecord, NextCurrentRecord DEF Serving
  <1>5. \A u \in Threads : Unaffected(u)
    <2>1. \A u \in Threads : HasTakenEffect(u)' <=> HasTakenEffect(u)
      BY <1>1, <1>4 DEF HasTakenEffect
    <2> QED
      BY <1>1, <1>4, <2>1 DEF Unaffected, Undisturbed, IsOutside, IsDurable
  <1>6. DurableState' = DurableState
    BY <1>1, DurableStateIs
  <1> QED
    BY <1>1, <1>4, <1>5, <1>6 DEF Silent, KeepsStates

(* Lines 197-198, or the eviction of the line before them: the published     *)
(* record becomes the durable one.                                           *)
LEMMA PointerPersists ==
    ASSUME RefInv, RefInv', NEW t \in Threads, pc[t] = "flush_pointer",
           nvm_last_state' = last_state,
           UNCHANGED <<arg, activate, state, return_value, deactivate,
                       last_state, out>>,
           pc' = pc \/ pc' = [pc EXCEPT ![t] = "after_persist"]
    PROVE  BecomesDurable
  <1> TypeOK /\ OneCombiner /\ OneCombiner' /\ PoolInv
    BY DEF RefInv, IndInv, LockInv, TypeInv
  <1> pc \in [Threads -> Labels]
    BY DEF TypeOK
  <1>1. \A c \in Threads : pc[c] \notin Serving
    BY DEF OneCombiner, Holding, Releasing, Serving
  <1>2. \A c \in Threads : pc'[c] \notin Serving
    BY <1>1 DEF Serving
  <1>3. CurrentRec = last_state /\ CurrentRec' = last_state
    BY <1>1, <1>2, CurrentRecord, NextCurrentRecord
  <1>4. last_state \in PoolRecs
    BY WorkRecType DEF PoolInv, Releasing
  <1>5. ASSUME NEW u \in Threads
        PROVE  /\ HasTakenEffect(u) <=> Served(last_state, u)
               /\ HasTakenEffect(u)' <=> Served(last_state, u)
               /\ IsDurable(u)' <=> Served(last_state, u)
               /\ IsOutside(u)' <=> IsOutside(u)
    <2>1. \A c \in Threads : pc[c] # "mark" /\ pc'[c] # "mark"
      BY <1>1, <1>2 DEF Serving
    <2>2. IsOutside(u)' <=> IsOutside(u)
      BY DEF IsOutside
    <2> QED
      BY <1>3, <1>4, <2>1, <2>2 DEF HasTakenEffect, IsDurable, Served
  <1>6. DurableState' = state[CurrentRec]
    BY <1>3, <1>4, DurableStateIs
  <1> QED
    BY <1>3, <1>5, <1>6 DEF BecomesDurable, Undisturbed

(* The line of the pointer reaches the durable memory on its own: between    *)
(* lines 195 and 198 this persists the new state, before the first session   *)
(* it makes an initial state durable that nothing has formatted, and at      *)
(* other times it changes nothing.                                           *)
LEMMA EvictPersists ==
    ASSUME RefInv, RefInv', Evict
    PROVE  BecomesDurable \/ Silent
  <1> WaitInv
    BY DEF RefInv, IndInv
  <1>1. /\ nvm_last_state' = last_state
        /\ UNCHANGED <<arg, activate, state, return_value, deactivate,
                       last_state, j, out, pc>>
        /\ \A u \in Threads : WorkRec(u)' = WorkRec(u)
    BY DEF Evict, requestVars, recordVars, loopVars, WorkRec
  <1>2. CASE nvm_last_state = last_state
    BY <1>1, <1>2, QuietStep DEF IsOutside
  <1>3. CASE last_state = InitRec
    <2>1. OneCombiner /\ OneCombiner'
      BY DEF RefInv, IndInv, LockInv
    <2>2. nvm_last_state \notin PoolRecs /\ nvm_last_state' \notin PoolRecs
      BY <1>1, <1>3, RecordsAssumption DEF WaitInv, Recs
    <2>3. CurrentRec' = CurrentRec
      <3>1. CASE \E u \in Threads : pc[u] \in Serving
        BY <1>1, <2>1, <3>1, CurrentRecord, NextCurrentRecord
      <3>2. CASE \A u \in Threads : pc[u] \notin Serving
        BY <1>1, <2>1, <3>2, CurrentRecord, NextCurrentRecord
      <3> QED
        BY <3>1, <3>2
    <2>4. \A u \in Threads : Unaffected(u)
      <3>1. \A u \in Threads : HasTakenEffect(u)' <=> HasTakenEffect(u)
        BY <1>1, <2>3 DEF HasTakenEffect
      <3> QED
        BY <1>1, <2>2, <2>3, <3>1 DEF Unaffected, Undisturbed, IsOutside, IsDurable
    <2>5. DurableState' = DurableState
      BY <2>2, DurableStateIs
    <2> QED
      BY <1>1, <2>3, <2>4, <2>5 DEF Silent, KeepsStates
  <1>4. CASE \E t \in Threads : pc[t] = "flush_pointer"
    BY <1>1, <1>4, PointerPersists
  <1> QED
    BY <1>2, <1>3, <1>4 DEF WaitInv

(* Lines 155, 158 and 208 return a durable operation with its result, also   *)
(* when it is read from a record that is being rewritten.                    *)
LEMMA LeaveLeaves ==
    ASSUME RefInv, RefInv', NEW t \in Threads, AtReturn(t),
           Leave(t, return_value[local_rec[t]][t]),
           UNCHANGED <<requestVars, lockVars, recordVars, pointerVars, loopVars,
                       pool_index>>
    PROVE  Leaves(t)
  <1> TypeOK /\ OneCombiner /\ OneCombiner'
    BY DEF RefInv, IndInv, LockInv, TypeInv
  <1> pc \in [Threads -> Labels] /\ out \in [Threads -> RetVals \union {NoVal}]
    BY DEF TypeOK
  <1>1. /\ pc[t] \in {"return", "combiner_return"} /\ pc' = [pc EXCEPT ![t] = "idle"]
        /\ out' = [out EXCEPT ![t] = return_value[local_rec[t]][t]]
        /\ UNCHANGED <<arg, activate, state, return_value, deactivate,
                       last_state, nvm_last_state, j>>
        /\ \A u \in Threads : WorkRec(u)' = WorkRec(u)
    BY DEF AtReturn, Leave, Goto, requestVars, recordVars, pointerVars, loopVars,
           WorkRec
  <1>2. \A u \in Threads : pc'[u] \in Serving <=> pc[u] \in Serving
    BY <1>1 DEF Serving
  <1>3. CurrentRec' = CurrentRec
    <2>1. CASE \E u \in Threads : pc[u] \in Serving
      BY <1>1, <1>2, <2>1, CurrentRecord, NextCurrentRecord
    <2>2. CASE \A u \in Threads : pc[u] \notin Serving
      BY <1>1, <1>2, <2>2, CurrentRecord, NextCurrentRecord
    <2> QED
      BY <2>1, <2>2
  <1>4. /\ IsDurable(t)
        /\ return_value[local_rec[t]][t] = return_value[last_state][t]
    BY ReturnFacts DEF RefInv
  <1>5. /\ Served(CurrentRec, t)
        /\ return_value[CurrentRec][t] = return_value[local_rec[t]][t]
    BY <1>4, CurrentFacts
  <1>6. ~IsOutside(t) /\ IsOutside(t)' /\ HasTakenEffect(t)
    BY <1>1, <1>5 DEF IsOutside, HasTakenEffect, Served
  <1>7. \A u \in Threads \ {t} : Unaffected(u)
    <2>1. \A c \in Threads : pc'[c] = "mark" <=> pc[c] = "mark"
      BY <1>1
    <2>2. \A u \in Threads : HasTakenEffect(u)' <=> HasTakenEffect(u)
      BY <1>1, <1>3, <2>1 DEF HasTakenEffect
    <2> QED
      BY <1>1, <1>3, <2>2 DEF Unaffected, Undisturbed, IsOutside, IsDurable
  <1>8. DurableState' = DurableState
    BY <1>1, DurableStateIs
  <1>9. out'[t] = return_value[CurrentRec][t]
    BY <1>1, <1>5
  <1> QED
    BY <1>1, <1>3, <1>4, <1>6, <1>7, <1>8, <1>9 DEF Leaves, KeepsStates

(* The other steps, of waiting threads and of the combiner between its       *)
(* accesses to the records and the pointer, are none of the object.          *)
LEMMA OthersAreSilent ==
    ASSUME RefInv, RefInv', NEW t \in Threads,
           \/ \E a \in Args : WriteArg(t, a)
           \/ SetValid(t) \/ ReadLock(t) \/ TryLock(t)
           \/ SpinWhileLocked(t) \/ ReadLastState(t) \/ CheckServed(t)
           \/ CheckVersion(t) \/ WaitNext(t) \/ SkipRequest(t)
           \/ FindRequest(t) \/ EndPass(t) \/ FinalPersist(t)
           \/ FlushState(t) \/ SetLockValue(t) \/ AfterPersist(t) \/ Unlock(t)
    PROVE  Silent
  <1> pc \in [Threads -> Labels] /\ pool_index \in [Threads -> 0 .. PoolSize - 1]
      /\ j \in [Threads -> 0 .. NThreads] /\ arg \in [Threads -> Args]
    BY DEF RefInv, IndInv, TypeInv, TypeOK
  <1> DEFINE Quiet ==
          /\ UNCHANGED <<activate, state, return_value, deactivate, last_state,
                         nvm_last_state, out>>
          /\ \A u \in Threads :
                /\ IsOutside(u)' <=> IsOutside(u)
                /\ ~IsOutside(u) => arg'[u] = arg[u]
                /\ pc'[u] \in Serving <=> pc[u] \in Serving
                /\ pc[u] \in Serving => WorkRec(u)' = WorkRec(u)
                /\ pc'[u] = "mark" <=> pc[u] = "mark"
                /\ pc[u] = "mark" => j'[u] = j[u]
  <1> USE DEF IsOutside, Serving, WorkRec, At, Goto, requestVars, lockVars,
              recordVars, pointerVars, loopVars, localVars
  <1>0. ASSUME NEW a \in Args, WriteArg(t, a) PROVE Quiet
    BY <1>0 DEF WriteArg
  <1>1. ASSUME SetValid(t) PROVE Quiet
    BY <1>1 DEF SetValid
  <1>2. ASSUME ReadLock(t) PROVE Quiet
    BY <1>2 DEF ReadLock
  <1>3. ASSUME TryLock(t) PROVE Quiet
    BY <1>3 DEF TryLock
  <1>4. ASSUME SpinWhileLocked(t) PROVE Quiet
    BY <1>4 DEF SpinWhileLocked
  <1>5. ASSUME ReadLastState(t) PROVE Quiet
    BY <1>5 DEF ReadLastState
  <1>6. ASSUME CheckServed(t) PROVE Quiet
    BY <1>6 DEF CheckServed
  <1>7. ASSUME CheckVersion(t) PROVE Quiet
    BY <1>7 DEF CheckVersion
  <1>8. ASSUME WaitNext(t) PROVE Quiet
    BY <1>8 DEF WaitNext
  <1>9. ASSUME SkipRequest(t) PROVE Quiet
    BY <1>9 DEF SkipRequest
  <1>10. ASSUME FindRequest(t) PROVE Quiet
    BY <1>10 DEF FindRequest
  <1>11. ASSUME EndPass(t) PROVE Quiet
    BY <1>11 DEF EndPass
  <1>12. ASSUME FinalPersist(t) PROVE Quiet
    BY <1>12 DEF FinalPersist
  <1>13. ASSUME FlushState(t) PROVE Quiet
    BY <1>13 DEF FlushState
  <1>14. ASSUME SetLockValue(t) PROVE Quiet
    BY <1>14 DEF SetLockValue
  <1>15. ASSUME AfterPersist(t) PROVE Quiet
    BY <1>15 DEF AfterPersist
  <1>16. ASSUME Unlock(t) PROVE Quiet
    BY <1>16 DEF Unlock
  <1>17. Quiet
    BY <1>0, <1>1, <1>2, <1>3, <1>4, <1>5, <1>6, <1>7, <1>8, <1>9, <1>10, <1>11, <1>12, <1>13, <1>14, <1>15, <1>16
  <1> QED
    BY <1>17, QuietStep

(* Every step of PBCombApplyOp is one step of the abstract object or none.   *)
LEMMA StepRefines ==
    AscendingCopy /\ RefInv /\ RefInv' /\ [Next]_vars => [Abstract!Next]_Abstract!vars
  <1> SUFFICES ASSUME AscendingCopy, RefInv, RefInv', [Next]_vars
               PROVE  Abstract!Next \/ UNCHANGED Abstract!vars
    OBVIOUS
  <1>1. CASE UNCHANGED vars
    BY <1>1, QuietStep, SilentRefines
       DEF vars, requestVars, lockVars, recordVars, pointerVars, loopVars, localVars,
           IsOutside, WorkRec
  <1>2. CASE Evict
    BY <1>2, EvictPersists, BecomesDurableRefines, SilentRefines DEF Abstract!Next
  <1>3. ASSUME NEW t \in Threads, ToggleActivate(t)
        PROVE  Abstract!Next
    <2>1. arg[t] \in Args
      BY DEF RefInv, IndInv, TypeInv, TypeOK
    <2>2. PICK a \in Args : a = arg[t]
      BY <2>1
    <2>3. Abstract!Invoke(t, a)
      BY <1>3, <2>2, ActivateAnnounces, AnnouncesRefines
    <2> QED
      BY <2>3 DEF Abstract!Next
  <1>4. ASSUME NEW t \in Threads, ReturnServed(t) \/ ReturnCombiner(t)
        PROVE  Abstract!Next
    <2>1. Abstract!Return(t)
      BY <1>4, LeaveLeaves, LeavesRefines DEF ReturnServed, ReturnCombiner, At, AtReturn
    <2> QED
      BY <2>1 DEF Abstract!Next
  <1>5. ASSUME NEW t \in Threads, ServeRequest(t)
        PROVE  Abstract!Next
    <2>1. j[t] \in Threads
      BY <1>5 DEF RefInv, IndInv, TypeInv, ScanInRange, ServeRequest, At
    <2>2. PICK k \in Threads : j[t] = k
      BY <2>1
    <2>3. Abstract!Apply(k)
      BY <1>5, <2>2, ServeTakesEffect, TakesEffectRefines
    <2> QED
      BY <2>3 DEF Abstract!Next
  <1>6. ASSUME NEW t \in Threads, FlushPointer(t)
        PROVE  Abstract!Next
    <2>1. Abstract!Persist
      BY <1>6, PointerPersists, BecomesDurableRefines
         DEF FlushPointer, FlushedPointer, At, Goto, requestVars, recordVars
    <2> QED
      BY <2>1 DEF Abstract!Next
  <1>7. ASSUME NEW t \in Threads, CopyState(t) \/ MarkServed(t) \/ Publish(t)
        PROVE  UNCHANGED Abstract!vars
    BY <1>7, CopyIsSilent, MarkIsSilent, PublishIsSilent, SilentRefines
  <1> QED
    BY <1>1, <1>2, <1>3, <1>4, <1>5, <1>6, <1>7, OthersAreSilent, SilentRefines
       DEF Next, Step, Wait, Combine

(* A new object is a new abstract object.                                    *)
LEMMA InitRefines == Init => Abstract!Init
  <1> SUFFICES ASSUME Init
               PROVE  Abstract!Init
    OBVIOUS
  <1>1. \A t \in Threads : pc[t] = "idle"
    BY DEF Init
  <1>2. CurrentRec = InitRec
    BY <1>1 DEF Init, CurrentRec, Combining, Serving
  <1>3. state[InitRec] = InitialState
    BY DEF Init, Recs
  <1>4. nvm_last_state \notin PoolRecs
    BY RecordsAssumption DEF Init, Recs
  <1>5. \A t \in Threads : AbstractPhase(t) = "idle" /\ out[t] = NoVal
    BY <1>1 DEF Init, AbstractPhase
  <1> QED
    BY <1>2, <1>3, <1>4, <1>5 DEF Abstract!Init

LEMMA RefInduction ==
    ASSUME AscendingCopy
    PROVE  Spec => []RefInv
  <1>1. Init => StateCopied
    BY DEF Init, StateCopied
  <1>2. RefInv /\ [Next]_vars => StateCopied'
    BY StateCopiedStep
  <1>3. IndInv /\ ResultInv /\ StateCopied <=> RefInv
    BY DEF RefInv
  <1> QED
    BY <1>1, <1>2, <1>3, Induction, ResultInduction, PTL DEF Spec

(* With memcpy in ascending order PBcomb is a durable object: a call takes   *)
(* effect once, at line 175 of one combiner, between its announcement and    *)
(* its return, returns the result computed there, and only after a crash can *)
(* no longer undo it.                                                        *)
THEOREM Implements ==
    ASSUME AscendingCopy
    PROVE  Spec => ImplementsDurableObject
  <1>1. RefInv /\ RefInv' /\ [Next]_vars => [Abstract!Next]_Abstract!vars
    BY StepRefines
  <1> QED
    BY <1>1, InitRefines, RefInduction, PTL
       DEF Spec, ImplementsDurableObject, Abstract!Spec

-----------------------------------------------------------------------------
(* PBcomb implements CombiningSessions                                       *)

(* PBComb with the history variable, without a bound on the calls. *)
batchVars == <<vars, batch>>
BatchNext == Next /\ KeepBatch
BatchSpec == Init /\ batch = {} /\ [][BatchNext]_batchVars

-----------------------------------------------------------------------------
(* The threads the session under way has served                              *)

(* They are served, in the record the combiner works on and not in the       *)
(* published one; they may not return yet: those that wait hold the lock     *)
(* value of this session, or of the one before.                              *)
BatchServed ==
    /\ batch \subseteq Threads
    /\ (\A t \in Threads : pc[t] \notin Serving \union Releasing) => batch = {}
    /\ \A k \in batch : ~IsOutside(k) /\ HasTakenEffect(k)

BatchUnpublished ==
    \A c \in Threads, k \in batch : pc[c] \in Serving => ~Served(last_state, k)

BatchWaits ==
    \A k \in batch :
        /\ ~AtReturn(k)
        /\ pc[k] \in Waiters =>
              \/ pc[k] = "spin" /\ local_lock[k] = lock
              \/ lock = Inc(Inc(local_lock[k]))

BatchInv == BatchServed /\ BatchUnpublished /\ BatchWaits

(* What a step does to the batch. *)
LEMMA BatchSteps ==
    ASSUME RefInv, KeepBatch, NEW t \in Threads
    PROVE  /\ ServeRequest(t) => batch' = batch \union {j[t]}
           /\ Unlock(t) => batch' = {}
           /\ pc' = pc => batch' = batch
           /\ \A label : /\ pc' = [pc EXCEPT ![t] = label]
                         /\ pc[t] \notin {"serve", "unlock"}
                         => batch' = batch
  <1> pc \in [Threads -> Labels] /\ OneCombiner
    BY DEF RefInv, IndInv, TypeInv, TypeOK, LockInv
  <1>1. ASSUME ServeRequest(t)
        PROVE  batch' = batch \union {j[t]}
    <2>1. pc[t] = "serve" /\ pc'[t] = "mark"
      BY <1>1 DEF ServeRequest, At, Goto
    <2>2. {c \in Threads : pc[c] = "serve"} = {t}
      BY <2>1 DEF OneCombiner, Holding, Serving
    <2>3. {j[c] : c \in {c \in Threads : pc[c] = "serve"}} = {j[t]}
      BY <2>2
    <2> QED
      BY <2>1, <2>3 DEF KeepBatch
  <1>2. ASSUME Unlock(t)
        PROVE  batch' = {}
    <2>1. pc[t] = "unlock" /\ pc' = [pc EXCEPT ![t] = "combiner_return"]
      BY <1>2 DEF Unlock, At, Goto
    <2>2. ~ \E u \in Threads : pc[u] = "serve" /\ pc'[u] = "mark"
      BY <2>1
    <2>3. pc'[t] # pc[t]
      BY <2>1
    <2> QED
      BY <2>1, <2>2, <2>3 DEF KeepBatch
  <1>3. ASSUME pc' = pc
        PROVE  batch' = batch
    BY <1>3 DEF KeepBatch
  <1>4. ASSUME NEW label, pc' = [pc EXCEPT ![t] = label],
               pc[t] \notin {"serve", "unlock"}
        PROVE  batch' = batch
    <2>1. \A u \in Threads : pc[u] \in {"serve", "unlock"} => pc'[u] = pc[u]
      BY <1>4
    <2> QED
      BY <2>1 DEF KeepBatch
  <1> QED
    BY <1>1, <1>2, <1>3, <1>4

(* The steps other than line 175 and the release of the lock: the combiner   *)
(* goes on, and until it publishes nobody writes the published record.       *)
LEMMA BatchKept ==
    ASSUME RefInv, KeepBatch, [Next]_vars,
           \A t \in Threads : ~ServeRequest(t) /\ ~Unlock(t)
    PROVE  /\ batch' = batch
           /\ \A u \in Threads :
                 /\ pc[u] \in Serving => pc'[u] \in Serving \union Releasing
                 /\ pc[u] \in Releasing => pc'[u] \in Releasing
                 /\ pc[u] \in Serving /\ pc'[u] \in Serving =>
                       /\ last_state' = last_state
                       /\ deactivate'[last_state] = deactivate[last_state]
                 /\ pc[u] # "activate" => activate'[u] = activate[u]
  <1> /\ pc \in [Threads -> Labels] /\ last_state \in Recs
      /\ deactivate \in [Recs -> [Threads -> {0, 1}]]
      /\ activate \in [Threads -> {0, 1}]
      /\ OneCombiner /\ PoolInv
    BY DEF RefInv, IndInv, TypeInv, TypeOK, LockInv
  <1> DEFINE Goal ==
          /\ batch' = batch
          /\ \A u \in Threads :
                /\ pc[u] \in Serving => pc'[u] \in Serving \union Releasing
                /\ pc[u] \in Releasing => pc'[u] \in Releasing
                /\ pc[u] \in Serving /\ pc'[u] \in Serving =>
                      /\ last_state' = last_state
                      /\ deactivate'[last_state] = deactivate[last_state]
                /\ pc[u] # "activate" => activate'[u] = activate[u]
  <1> USE DEF At, Goto, requestVars, pointerVars, recordVars, Serving, Releasing
  <1>1. CASE UNCHANGED vars \/ Evict
    BY <1>1, ConstantsAssumption, BatchSteps DEF vars, Evict, Threads
  <1>2. ASSUME NEW t \in Threads,
               \/ \E a \in Args : WriteArg(t, a)
               \/ ToggleActivate(t) \/ SetValid(t)
        PROVE  Goal
    BY <1>2, BatchSteps DEF WriteArg, ToggleActivate, SetValid
  <1>3. ASSUME NEW t \in Threads, Wait(t) \/ ReturnCombiner(t)
        PROVE  Goal
    <2>1. /\ \E label : pc' = [pc EXCEPT ![t] = label]
          /\ pc[t] \notin Holding
          /\ UNCHANGED <<last_state, deactivate, activate>>
      BY <1>3
         DEF Wait, ReadLock, TryLock, SpinWhileLocked, ReadLastState, CheckServed,
             CheckVersion, WaitNext, ReturnServed, ReturnCombiner, Leave, Holding, Filling
    <2> QED
      BY <2>1, BatchSteps DEF Holding
  <1>4. ASSUME NEW t \in Threads, CopyState(t)
        PROVE  Goal
    <2>1. /\ \E label : pc' = [pc EXCEPT ![t] = label]
          /\ pc[t] \in Filling
          /\ UNCHANGED <<last_state, activate>>
          /\ \A r \in Recs \ {WorkRec(t)} : deactivate'[r] = deactivate[r]
      BY <1>4
         DEF CopyState, CopyFlex, CopyAscending, CopyDescending, CopyResults,
             CopyDeactivate, Filling
    <2>2. WorkRec(t) # last_state
      BY <2>1 DEF PoolInv, Filling
    <2> QED
      BY <2>1, <2>2, BatchSteps DEF Filling
  <1>5. ASSUME NEW t \in Threads, MarkServed(t)
        PROVE  Goal
    <2>1. WorkRec(t) # last_state
      BY <1>5 DEF PoolInv, MarkServed
    <2> QED
      BY <1>5, <2>1, BatchSteps DEF MarkServed
  <1>6. ASSUME NEW t \in Threads, SkipRequest(t) \/ FindRequest(t) \/ EndPass(t)
        PROVE  Goal
    BY <1>6, BatchSteps DEF SkipRequest, FindRequest, EndPass
  <1>7. ASSUME NEW t \in Threads,
               FinalPersist(t) \/ FlushState(t) \/ SetLockValue(t)
        PROVE  Goal
    BY <1>7, BatchSteps DEF FinalPersist, FlushState, SetLockValue
  <1>8. ASSUME NEW t \in Threads, Publish(t)
        PROVE  Goal
    BY <1>8, BatchSteps DEF Publish, OneCombiner, Holding
  <1>9. ASSUME NEW t \in Threads, FlushPointer(t) \/ AfterPersist(t)
        PROVE  Goal
    BY <1>9, BatchSteps DEF FlushPointer, AfterPersist
  <1> QED
    BY <1>1, <1>2, <1>3, <1>4, <1>5, <1>6, <1>7, <1>8, <1>9 DEF Next, Step, Combine

(* What has been served stays served, and its call announced.                *)
LEMMA BatchStays ==
    ASSUME RefInv, RefInv', BatchInv, [Next]_vars, NEW k \in batch
    PROVE  ~IsOutside(k)' /\ HasTakenEffect(k)'
  <1>1. k \in Threads /\ ~IsOutside(k) /\ HasTakenEffect(k) /\ ~AtReturn(k)
    BY DEF BatchInv, BatchServed, BatchWaits
  <1>2. ASSUME Undisturbed(k)
        PROVE  ~IsOutside(k)' /\ HasTakenEffect(k)'
    BY <1>1, <1>2 DEF Undisturbed
  <1>3. Silent \/ BecomesDurable => Undisturbed(k)
    BY <1>1 DEF Silent, Unaffected, BecomesDurable
  <1>4. CASE UNCHANGED vars
    BY <1>2, <1>3, <1>4, QuietStep
       DEF vars, requestVars, lockVars, recordVars, pointerVars, loopVars, localVars,
           IsOutside, WorkRec
  <1>5. CASE Evict
    BY <1>2, <1>3, <1>5, EvictPersists
  <1>6. ASSUME NEW t \in Threads, ToggleActivate(t)
        PROVE  Undisturbed(k)
    <2>1. Announces(t)
      BY <1>6, ActivateAnnounces
    <2> QED
      BY <1>1, <2>1 DEF Announces, Unaffected
  <1>7. ASSUME NEW t \in Threads, ReturnServed(t) \/ ReturnCombiner(t)
        PROVE  Undisturbed(k)
    <2>1. Leaves(t) /\ AtReturn(t)
      BY <1>7, LeaveLeaves DEF ReturnServed, ReturnCombiner, At, AtReturn
    <2> QED
      BY <1>1, <2>1 DEF Leaves, Unaffected
  <1>8. ASSUME NEW t \in Threads, ServeRequest(t)
        PROVE  Undisturbed(k)
    <2>1. j[t] \in Threads
      BY <1>8 DEF RefInv, IndInv, TypeInv, ScanInRange, ServeRequest, At
    <2>2. PICK u \in Threads : j[t] = u
      BY <2>1
    <2>3. TakesEffect(u)
      BY <1>8, <2>2, ServeTakesEffect
    <2> QED
      BY <1>1, <2>3 DEF TakesEffect, Unaffected
  <1>9. ASSUME NEW t \in Threads, FlushPointer(t)
        PROVE  BecomesDurable
    BY <1>9, PointerPersists
       DEF FlushPointer, FlushedPointer, At, Goto, requestVars, recordVars
  <1>10. ASSUME NEW t \in Threads, CopyState(t) \/ MarkServed(t) \/ Publish(t)
         PROVE  Silent
    BY <1>10, CopyIsSilent, MarkIsSilent, PublishIsSilent
  <1> QED
    BY <1>2, <1>3, <1>4, <1>5, <1>6, <1>7, <1>8, <1>9, <1>10, OthersAreSilent
       DEF Next, Step, Wait, Combine

LEMMA BatchServedStep ==
    ASSUME RefInv, RefInv', BatchInv, [Next]_vars, KeepBatch
    PROVE  BatchServed'
  <1> pc \in [Threads -> Labels]
    BY DEF RefInv, IndInv, TypeInv, TypeOK
  <1> BatchServed
    BY DEF BatchInv
  <1>1. CASE \A t \in Threads : ~ServeRequest(t) /\ ~Unlock(t)
    <2>1. batch' = batch
      BY <1>1, BatchKept
    <2>2. (\A t \in Threads : pc'[t] \notin Serving \union Releasing) => batch = {}
      <3>1. \A t \in Threads : pc[t] \in Serving \union Releasing =>
                pc'[t] \in Serving \union Releasing
        BY <1>1, BatchKept
      <3> QED
        BY <3>1 DEF BatchServed
    <2> QED
      BY <2>1, <2>2, BatchStays DEF BatchServed
  <1>2. ASSUME NEW t \in Threads, ServeRequest(t)
        PROVE  BatchServed'
    <2>1. j[t] \in Threads /\ batch' = batch \union {j[t]}
      BY <1>2, BatchSteps DEF RefInv, IndInv, TypeInv, ScanInRange, ServeRequest, At
    <2>2. PICK k \in Threads : j[t] = k
      BY <2>1
    <2>3. TakesEffect(k)
      BY <1>2, <2>2, ServeTakesEffect
    <2>4. pc'[t] \in Serving
      BY <1>2 DEF ServeRequest, Goto, Serving
    <2> QED
      BY <2>1, <2>2, <2>3, <2>4, BatchStays DEF BatchServed, TakesEffect
  <1>3. ASSUME NEW t \in Threads, Unlock(t)
        PROVE  BatchServed'
    <2>1. batch' = {}
      BY <1>3, BatchSteps
    <2> QED
      BY <2>1 DEF BatchServed
  <1> QED
    BY <1>1, <1>2, <1>3

(* While there is a batch, its session has not ended.                        *)
LEMMA BatchHasSession ==
    ASSUME BatchInv, batch # {}
    PROVE  \E c \in Threads : pc[c] \in Serving \union Releasing
  BY DEF BatchInv, BatchServed

LEMMA BatchUnpublishedStep ==
    ASSUME RefInv, RefInv', BatchInv, [Next]_vars, KeepBatch
    PROVE  BatchUnpublished'
  <1> SUFFICES ASSUME NEW c \in Threads, NEW k \in batch', pc'[c] \in Serving
               PROVE  deactivate'[last_state'][k] # activate'[k]
    BY DEF BatchUnpublished, Served
  <1> /\ OneCombiner /\ OneCombiner' /\ BatchServed /\ BatchUnpublished
      /\ pc \in [Threads -> Labels] /\ CopyServed /\ PendingUnserved
    BY DEF BatchInv, RefInv, IndInv, LockInv, TypeInv, TypeOK, ChainInv
  <1>1. CASE \A t \in Threads : ~ServeRequest(t) /\ ~Unlock(t)
    <2>1. k \in batch /\ k \in Threads /\ ~IsOutside(k)
      BY <1>1, BatchKept DEF BatchServed
    <2>2. PICK u \in Threads : pc[u] \in Serving \union Releasing
      BY <2>1, BatchHasSession
    <2>3. pc'[u] \in Serving \union Releasing
      BY <1>1, <2>2, BatchKept
    <2>4. u = c
      BY <2>3 DEF OneCombiner, Holding
    <2>5. pc[c] \in Serving
      <3>1. pc[c] \in Releasing => pc'[c] \in Releasing
        BY <1>1, BatchKept
      <3> QED
        BY <2>2, <2>4, <3>1 DEF Serving, Releasing
    <2>6. last_state' = last_state /\ deactivate'[last_state] = deactivate[last_state]
      BY <1>1, <2>5, BatchKept
    <2>7. activate'[k] = activate[k]
      BY <1>1, <2>1, BatchKept DEF IsOutside
    <2> QED
      BY <2>1, <2>5, <2>6, <2>7 DEF BatchUnpublished, Served
  <1>2. ASSUME NEW t \in Threads, ServeRequest(t)
        PROVE  deactivate'[last_state'][k] # activate'[k]
    <2>1. /\ pc[t] = "serve" /\ batch' = batch \union {j[t]}
          /\ UNCHANGED <<last_state, deactivate, activate>> /\ j[t] \in Threads
      BY <1>2, BatchSteps
         DEF ServeRequest, At, requestVars, pointerVars, RefInv, IndInv, TypeInv, ScanInRange
    <2>2. ~Served(last_state, j[t])
      BY <2>1 DEF PendingUnserved, CopyServed, HasCopied, Serving
    <2> QED
      BY <2>1, <2>2 DEF BatchUnpublished, Served, Serving
  <1>3. ASSUME NEW t \in Threads, Unlock(t)
        PROVE  FALSE
    BY <1>3, BatchSteps
  <1> QED
    BY <1>1, <1>2, <1>3

(* A thread of the batch gets no further than waiting for the release of the *)
(* lock: while the session has not published it does not find itself served  *)
(* (line 153), and afterwards lock_value is the value of this session, not   *)
(* the one it holds (line 154).                                              *)
LEMMA BatchWaitsStep ==
    ASSUME RefInv, BatchInv, [Next]_vars, KeepBatch
    PROVE  BatchWaits'
  <1> /\ pc \in [Threads -> Labels] /\ local_lock \in [Threads -> 0 .. LockMod - 1]
      /\ lock \in 0 .. LockMod - 1
      /\ OneCombiner /\ WaitInv /\ OldWaitersDurable /\ ReturningDurable
      /\ StaleServed /\ StaleConfirmed
      /\ BatchServed /\ BatchUnpublished /\ BatchWaits
    BY DEF BatchInv, RefInv, IndInv, TypeInv, TypeOK, LockInv, SessionInv, StaleInv
  <1> DEFINE Waits(k) ==
          /\ ~AtReturn(k)
          /\ pc[k] \in Waiters =>
                \/ pc[k] = "spin" /\ local_lock[k] = lock
                \/ lock = Inc(Inc(local_lock[k]))
  <1>1. ASSUME NEW t \in Threads, Unlock(t)
        PROVE  BatchWaits'
    BY <1>1, BatchSteps DEF BatchWaits
  <1>2. ASSUME NEW t \in Threads, ServeRequest(t)
        PROVE  BatchWaits'
    <2>1. /\ pc[t] = "serve" /\ pc' = [pc EXCEPT ![t] = "mark"]
          /\ UNCHANGED <<lock, local_lock>> /\ j[t] \in Threads
          /\ batch' = batch \union {j[t]}
      BY <1>2, BatchSteps
         DEF ServeRequest, At, Goto, lockVars, localVars, RefInv, IndInv, TypeInv,
             ScanInRange
    <2>2. PICK k \in Threads : j[t] = k
      BY <2>1
    <2>3. ~IsDurable(k)
      BY <2>1, <2>2, CurrentFacts
    <2>4. Waits(k)
      <3>1. ~AtReturn(k)
        BY <2>3 DEF ReturningDurable
      <3>2. ASSUME pc[k] \in Waiters, ~(pc[k] = "spin" /\ local_lock[k] = lock)
            PROVE  lock = Inc(Inc(local_lock[k]))
        <4>1. lock \in {Inc(local_lock[k]), Inc(Inc(local_lock[k]))}
          BY <2>3, <3>2 DEF OldWaitersDurable
        <4>2. IsHeld(lock) /\ IsHeld(local_lock[k])
          BY <2>1, <3>2 DEF OneCombiner, WaitInv, Holding, Serving
        <4>3. ~IsHeld(Inc(local_lock[k]))
          BY <4>2, IncParity
        <4> QED
          BY <4>1, <4>2, <4>3
      <3> QED
        BY <3>1, <3>2
    <2>5. \A u \in batch' : u \in Threads /\ Waits(u)
      BY <2>1, <2>2, <2>4 DEF BatchWaits, BatchServed
    <2>6. \A u \in Threads : Waits(u) =>
              /\ pc'[u] \notin {"return", "combiner_return"}
              /\ pc'[u] \in Waiters =>
                    \/ pc'[u] = "spin" /\ local_lock'[u] = lock'
                    \/ lock' = Inc(Inc(local_lock'[u]))
      BY <2>1 DEF AtReturn, Waiters
    <2> QED
      BY <2>5, <2>6 DEF BatchWaits, AtReturn
  <1>3. ASSUME \A t \in Threads : ~ServeRequest(t) /\ ~Unlock(t), NEW k \in batch'
        PROVE  /\ pc'[k] \notin {"return", "combiner_return"}
               /\ pc'[k] \in Waiters =>
                     \/ pc'[k] = "spin" /\ local_lock'[k] = lock'
                     \/ lock' = Inc(Inc(local_lock'[k]))
    <2>1. k \in batch /\ k \in Threads /\ ~IsOutside(k) /\ Waits(k)
      BY <1>3, BatchKept DEF BatchServed, BatchWaits
    <2>2. PICK c \in Threads : pc[c] \in Serving \union Releasing
      BY <2>1, BatchHasSession
    <2>3. IsHeld(lock)
      BY <2>2 DEF OneCombiner, Holding
    <2>4. pc[k] \in Confirmed => pc[c] \in Releasing
      <3>1. pc[k] \in Confirmed => Served(last_state, k)
        BY <2>1 DEF StaleConfirmed, StaleServed, Examining
      <3> QED
        BY <2>1, <2>2, <3>1 DEF BatchUnpublished
    <2> DEFINE Goal ==
            /\ pc'[k] \notin {"return", "combiner_return"}
            /\ pc'[k] \in Waiters =>
                  \/ pc'[k] = "spin" /\ local_lock'[k] = lock'
                  \/ lock' = Inc(Inc(local_lock'[k]))
    <2>5. ASSUME UNCHANGED <<lock, local_lock>>, pc'[k] = pc[k]
          PROVE  Goal
      BY <2>1, <2>5 DEF AtReturn
    <2> USE DEF At, Goto, Waiters, lockVars, localVars
    <2>6. CASE UNCHANGED vars \/ Evict
      BY <2>5, <2>6 DEF vars, Evict
    <2>7. ASSUME NEW t \in Threads, ReadLock(t)
          PROVE  Goal
      BY <2>1, <2>3, <2>7 DEF ReadLock, AtReturn
    <2>8. ASSUME NEW t \in Threads, TryLock(t)
          PROVE  Goal
      <3>1. lock # local_lock[t]
        BY <2>3, <2>8 DEF TryLock, RefInv, IndInv, LockInv
      <3> QED
        BY <2>1, <2>8, <3>1 DEF TryLock, CASSucceeds, AtReturn
    <2>9. ASSUME NEW t \in Threads, SpinWhileLocked(t) \/ ReadLastState(t) \/ CheckServed(t)
          PROVE  Goal
      BY <2>1, <2>9 DEF SpinWhileLocked, ReadLastState, CheckServed, AtReturn
    <2>10. ASSUME NEW t \in Threads, CheckVersion(t)
           PROVE  Goal
      <3>1. CASE t = k
        <4>1. pc[k] = "check_version" /\ lock = Inc(Inc(local_lock[k]))
          BY <2>1, <2>10, <3>1 DEF CheckVersion
        <4>2. lock_value # local_lock[k]
          <5>1. lock_value = lock
            BY <2>4, <4>1 DEF WaitInv, Confirmed
          <5> QED
            BY <4>1, <5>1, IncParity
        <4> QED
          BY <2>1, <2>10, <3>1, <4>1, <4>2 DEF CheckVersion
      <3>2. CASE t # k
        BY <2>1, <2>5, <2>10, <3>2 DEF CheckVersion
      <3> QED
        BY <3>1, <3>2
    <2>11. ASSUME NEW t \in Threads, WaitNext(t)
           PROVE  Goal
      BY <2>1, <2>11 DEF WaitNext, IsReleasing, AtReturn
    <2>12. ASSUME NEW t \in Threads, ReturnServed(t) \/ ReturnCombiner(t)
           PROVE  Goal
      BY <2>1, <2>12 DEF ReturnServed, ReturnCombiner, Leave, AtReturn
    <2>13. ASSUME NEW t \in Threads,
                  \/ \E a \in Args : WriteArg(t, a)
                  \/ ToggleActivate(t) \/ SetValid(t)
           PROVE  Goal
      BY <2>1, <2>13 DEF WriteArg, ToggleActivate, SetValid, AtReturn
    <2>14. ASSUME NEW t \in Threads, CopyState(t)
           PROVE  Goal
      BY <2>1, <2>14
         DEF CopyState, CopyFlex, CopyAscending, CopyDescending, AtReturn
    <2>15. ASSUME NEW t \in Threads,
                  SkipRequest(t) \/ FindRequest(t) \/ MarkServed(t) \/ EndPass(t)
           PROVE  Goal
      BY <2>1, <2>15 DEF SkipRequest, FindRequest, MarkServed, EndPass, AtReturn
    <2>16. ASSUME NEW t \in Threads,
                  \/ FinalPersist(t) \/ FlushState(t) \/ SetLockValue(t)
                  \/ Publish(t) \/ FlushPointer(t) \/ AfterPersist(t)
           PROVE  Goal
      BY <2>1, <2>16
         DEF FinalPersist, FlushState, SetLockValue, Publish, FlushPointer,
             AfterPersist, AtReturn
    <2> QED
      BY <1>3, <2>6, <2>7, <2>8, <2>9, <2>10, <2>11, <2>12, <2>13, <2>14, <2>15, <2>16
         DEF Next, Step, Wait, Combine
  <1> QED
    BY <1>1, <1>2, <1>3 DEF BatchWaits, AtReturn

LEMMA BatchStep ==
    RefInv /\ RefInv' /\ BatchInv /\ [BatchNext]_batchVars => BatchInv'
  <1> SUFFICES ASSUME RefInv, RefInv', BatchInv, [BatchNext]_batchVars
               PROVE  BatchInv'
    OBVIOUS
  <1>1. CASE BatchNext
    BY <1>1, BatchServedStep, BatchUnpublishedStep, BatchWaitsStep
       DEF BatchInv, BatchNext
  <1>2. CASE UNCHANGED batchVars
    <2>1. [Next]_vars
      BY <1>2 DEF batchVars
    <2>2. KeepBatch
      BY <1>2 DEF KeepBatch, batchVars, vars
    <2> QED
      BY <2>1, <2>2, BatchServedStep, BatchUnpublishedStep, BatchWaitsStep
         DEF BatchInv
  <1> QED
    BY <1>1, <1>2

LEMMA BatchInduction ==
    ASSUME AscendingCopy
    PROVE  BatchSpec => []RefInv /\ []BatchInv
  <1>1. BatchSpec => Spec
    <2>1. [BatchNext]_batchVars => [Next]_vars
      BY DEF BatchNext, batchVars
    <2> QED
      BY <2>1, PTL DEF BatchSpec, Spec
  <1>2. batch = {} => BatchInv
    BY DEF BatchInv, BatchServed, BatchUnpublished, BatchWaits
  <1> QED
    BY <1>1, <1>2, RefInduction, BatchStep, PTL DEF BatchSpec

-----------------------------------------------------------------------------
(* The variables of the sessions                                             *)

SessionParam(t) ==
    IF SessionPhase(t) = "idle" THEN <<"no arg">> ELSE arg[t]

SessionResult(t) ==
    IF SessionPhase(t) \in {"applied", "released"}
    THEN return_value[CurrentRec][t] ELSE out[t]

Stage == IF Holders = {} THEN "free" ELSE StageOf(pc[CHOOSE t \in Holders : TRUE])

Combiner == IF Holders = {} THEN -1 ELSE CHOOSE t \in Holders : TRUE

SameCall(t) ==
    /\ SessionPhase(t)' = SessionPhase(t)
    /\ SessionParam(t)' = SessionParam(t)
    /\ SessionResult(t)' = SessionResult(t)

SameCombiner == Combiner' = Combiner

SameSession == Stage' = Stage /\ Combiner' = Combiner

SamePublished == RecordedWord(last_state)' = RecordedWord(last_state)

SameDurable == RecordedWord(nvm_last_state)' = RecordedWord(nvm_last_state)

SameSynced == (nvm_last_state' = last_state') <=> (nvm_last_state = last_state)

SameWords ==
    /\ (state[CurrentRec])' = state[CurrentRec]
    /\ SamePublished /\ SameDurable /\ SameSynced

(* The stage and the combiner are those of the thread that holds the lock.   *)
LEMMA SessionOf ==
    ASSUME OneCombiner
    PROVE  /\ \A t \in Threads : pc[t] \in Holding =>
                  Combiner = t /\ Stage = StageOf(pc[t])
           /\ (\A t \in Threads : pc[t] \notin Holding) =>
                  Combiner = -1 /\ Stage = "free"
  <1>1. ASSUME NEW t \in Threads, pc[t] \in Holding
        PROVE  Combiner = t /\ Stage = StageOf(pc[t])
    <2>1. Holders = {t}
      BY <1>1 DEF OneCombiner, Holders
    <2>2. (CHOOSE u \in Holders : TRUE) = t
      BY <2>1
    <2> QED
      BY <2>1, <2>2 DEF Combiner, Stage
  <1>2. (\A t \in Threads : pc[t] \notin Holding) => Holders = {}
    BY DEF Holders
  <1> QED
    BY <1>1, <1>2 DEF Combiner, Stage

LEMMA NextSessionOf ==
    ASSUME OneCombiner'
    PROVE  /\ \A t \in Threads : pc'[t] \in Holding =>
                  Combiner' = t /\ Stage' = StageOf(pc'[t])
           /\ (\A t \in Threads : pc'[t] \notin Holding) =>
                  Combiner' = -1 /\ Stage' = "free"
  <1>1. ASSUME NEW t \in Threads, pc'[t] \in Holding
        PROVE  Combiner' = t /\ Stage' = StageOf(pc'[t])
    <2>1. Holders' = {t}
      BY <1>1 DEF OneCombiner, Holders
    <2>2. (CHOOSE u \in Holders : TRUE)' = t
      BY <2>1
    <2> QED
      BY <2>1, <2>2 DEF Combiner, Stage
  <1>2. (\A t \in Threads : pc'[t] \notin Holding) => Holders' = {}
    BY DEF Holders
  <1> QED
    BY <1>1, <1>2 DEF Combiner, Stage

(* Published and durable words are those of the records the pointers lead    *)
(* to, which are complete.                                                   *)
LEMMA WordsAre ==
    ASSUME RefInv, RefInv'
    PROVE  /\ RecordedWord(last_state) =
                  IF last_state \in PoolRecs THEN state[last_state] ELSE Unformatted
           /\ RecordedWord(nvm_last_state) =
                  IF nvm_last_state \in PoolRecs THEN state[nvm_last_state] ELSE Unformatted
           /\ RecordedWord(last_state)' =
                  IF last_state' \in PoolRecs THEN state'[last_state'] ELSE Unformatted
           /\ RecordedWord(nvm_last_state)' =
                  IF nvm_last_state' \in PoolRecs THEN state'[nvm_last_state'] ELSE Unformatted
  BY DEF RefInv, IndInv, ImageInv, ImageComplete, RecordedWord

(* A call that is not disturbed and does not change its batch is the same.   *)
LEMMA UndisturbedCall ==
    ASSUME NEW t \in Threads, Undisturbed(t), t \in batch' <=> t \in batch
    PROVE  SameCall(t)
  <1>1. SessionPhase(t)' = SessionPhase(t)
    BY DEF Undisturbed, SessionPhase, IsOutside
  <1>2. SessionPhase(t) # "idle" => ~IsOutside(t)
    BY DEF SessionPhase, IsOutside
  <1> QED
    BY <1>1, <1>2 DEF Undisturbed, SameCall, SessionParam, SessionResult

LEMMA NothingHappens ==
    ASSUME \A t \in Threads : SameCall(t), SameSession, SameWords
    PROVE  UNCHANGED Sessions!vars
  BY DEF SameCall, SameSession, SameWords, SamePublished, SameDurable, SameSynced,
         Sessions!vars, Sessions!callVars, Sessions!sessionVars, Sessions!wordVars,
         SessionParam, SessionResult, Stage, Combiner

(* While the same threads hold the lock and their steps belong to the same   *)
(* stages, the session is the same.                                          *)
LEMMA SessionStays ==
    ASSUME OneCombiner, OneCombiner',
           \A u \in Threads : /\ pc'[u] \in Holding <=> pc[u] \in Holding
                              /\ pc[u] \in Holding => StageOf(pc'[u]) = StageOf(pc[u])
    PROVE  SameSession
  <1>1. CASE \E u \in Threads : pc[u] \in Holding
    BY <1>1, SessionOf, NextSessionOf DEF SameSession
  <1>2. CASE \A u \in Threads : pc[u] \notin Holding
    BY <1>2, SessionOf, NextSessionOf DEF SameSession
  <1> QED
    BY <1>1, <1>2

(* The words change with the records and the pointers only.                  *)
LEMMA WordsStay ==
    ASSUME RefInv, RefInv', KeepsStates,
           UNCHANGED <<last_state, nvm_last_state>>,
           last_state \in PoolRecs => state'[last_state] = state[last_state]
    PROVE  SameWords
  BY WordsAre, DurableStateIs
     DEF SameWords, SamePublished, SameDurable, SameSynced, KeepsStates

-----------------------------------------------------------------------------
(* The steps of PBcomb are those of the sessions                             *)

(* A silent step that leaves the batch, the session and the pointers alone.  *)
LEMMA QuietSession ==
    ASSUME RefInv, RefInv', Silent, batch' = batch, SameSession,
           UNCHANGED <<last_state, nvm_last_state>>,
           last_state \in PoolRecs => state'[last_state] = state[last_state]
    PROVE  UNCHANGED Sessions!vars
  <1>1. \A t \in Threads : SameCall(t)
    BY UndisturbedCall DEF Silent, Unaffected
  <1>2. SameWords
    BY WordsStay DEF Silent
  <1> QED
    BY <1>1, <1>2, NothingHappens

(* Waiting, and the combiner's copying, scanning and marking.                *)
LEMMA QuietSteps ==
    ASSUME RefInv, RefInv', KeepBatch, NEW t \in Threads,
           \/ \E a \in Args : WriteArg(t, a)
           \/ SetValid(t) \/ ReadLock(t) \/ (TryLock(t) /\ lock # local_lock[t])
           \/ SpinWhileLocked(t) \/ ReadLastState(t) \/ CheckServed(t)
           \/ CheckVersion(t) \/ WaitNext(t) \/ CopyState(t) \/ SkipRequest(t)
           \/ FindRequest(t) \/ MarkServed(t) \/ EndPass(t) \/ SetLockValue(t)
    PROVE  UNCHANGED Sessions!vars
  <1> /\ pc \in [Threads -> Labels] /\ state \in [Recs -> ObjStates]
      /\ OneCombiner /\ OneCombiner' /\ PoolInv
    BY DEF RefInv, IndInv, TypeInv, TypeOK, LockInv
  <1>1. Silent
    BY OthersAreSilent, CopyIsSilent, MarkIsSilent
  <1> DEFINE Goal ==
          /\ batch' = batch
          /\ UNCHANGED <<last_state, nvm_last_state>>
          /\ last_state \in PoolRecs => state'[last_state] = state[last_state]
          /\ \A u \in Threads : /\ pc'[u] \in Holding <=> pc[u] \in Holding
                                /\ pc[u] \in Holding => StageOf(pc'[u]) = StageOf(pc[u])
  <1> USE DEF At, Goto, requestVars, lockVars, recordVars, pointerVars, Holding,
              Serving, Filling, Releasing
  <1>2. ASSUME \/ \E a \in Args : WriteArg(t, a)
               \/ SetValid(t) \/ ReadLock(t) \/ (TryLock(t) /\ lock # local_lock[t])
               \/ SpinWhileLocked(t) \/ ReadLastState(t) \/ CheckServed(t)
               \/ CheckVersion(t) \/ WaitNext(t)
        PROVE  Goal
    <2>1. /\ \E label \in Labels \ Holding : pc' = [pc EXCEPT ![t] = label]
          /\ pc[t] \notin Holding
          /\ UNCHANGED <<last_state, nvm_last_state, state>>
      BY <1>2
         DEF WriteArg, SetValid, ReadLock, TryLock, CASSucceeds, SpinWhileLocked,
             ReadLastState, CheckServed, CheckVersion, WaitNext, Labels
    <2> QED
      BY <2>1, BatchSteps
  <1>3. ASSUME CopyState(t)
        PROVE  Goal
    <2>1. /\ \E label \in {"copy_deactivate", "copy_results", "scan"} :
                pc' = [pc EXCEPT ![t] = label]
          /\ pc[t] \in Filling
          /\ UNCHANGED <<last_state, nvm_last_state>>
          /\ \A r \in Recs \ {WorkRec(t)} : state'[r] = state[r]
      BY <1>3
         DEF CopyState, CopyFlex, CopyAscending, CopyDescending, CopyResults,
             CopyDeactivate
    <2>2. WorkRec(t) # last_state
      BY <2>1 DEF PoolInv
    <2>3. last_state \in PoolRecs => state'[last_state] = state[last_state]
      BY <2>1, <2>2 DEF Recs
    <2>4. \A u \in Threads : /\ pc'[u] \in Holding <=> pc[u] \in Holding
                             /\ pc[u] \in Holding => StageOf(pc'[u]) = StageOf(pc[u])
      BY <2>1 DEF StageOf
    <2> QED
      BY <2>1, <2>3, <2>4, BatchSteps, ZenonT(30)
  <1>4. ASSUME SkipRequest(t) \/ FindRequest(t) \/ MarkServed(t) \/ EndPass(t)
        PROVE  Goal
    <2>1. /\ \E label \in {"scan", "serve", "final_persist"} :
                pc' = [pc EXCEPT ![t] = label]
          /\ pc[t] \in {"scan", "mark"}
          /\ UNCHANGED <<last_state, nvm_last_state, state>>
      BY <1>4 DEF SkipRequest, FindRequest, MarkServed, EndPass
    <2>2. \A u \in Threads : /\ pc'[u] \in Holding <=> pc[u] \in Holding
                             /\ pc[u] \in Holding => StageOf(pc'[u]) = StageOf(pc[u])
      BY <2>1 DEF StageOf
    <2> QED
      BY <2>1, <2>2, BatchSteps
  <1>5. ASSUME SetLockValue(t)
        PROVE  Goal
    <2>1. /\ pc' = [pc EXCEPT ![t] = "publish"] /\ pc[t] = "lock_value"
          /\ UNCHANGED <<last_state, nvm_last_state, state>>
      BY <1>5 DEF SetLockValue
    <2>2. \A u \in Threads : /\ pc'[u] \in Holding <=> pc[u] \in Holding
                             /\ pc[u] \in Holding => StageOf(pc'[u]) = StageOf(pc[u])
      BY <2>1 DEF StageOf
    <2> QED
      BY <2>1, <2>2, BatchSteps
  <1>6. Goal
    BY <1>2, <1>3, <1>4, <1>5
  <1>7. SameSession
    BY <1>6, SessionStays
  <1> QED
    BY <1>1, <1>6, <1>7, QuietSession

(* Line 135 is the call of the operation.                                    *)
LEMMA ActivateInvokes ==
    ASSUME RefInv, RefInv', BatchInv, KeepBatch, NEW t \in Threads, NEW a \in Args,
           ToggleActivate(t), arg[t] = a
    PROVE  Sessions!Invoke(t, a)
  <1> pc \in [Threads -> Labels] /\ OneCombiner /\ OneCombiner' /\ BatchServed
    BY DEF RefInv, IndInv, TypeInv, TypeOK, LockInv, BatchInv
  <1>1. Announces(t)
    BY ActivateAnnounces
  <1>2. /\ pc[t] = "activate" /\ pc' = [pc EXCEPT ![t] = "valid"]
        /\ UNCHANGED <<last_state, nvm_last_state, state>>
    BY DEF ToggleActivate, At, Goto, recordVars, pointerVars
  <1>3. batch' = batch /\ t \notin batch
    BY <1>2, BatchSteps DEF BatchServed, IsOutside
  <1>4. \A u \in Threads \ {t} : SameCall(u)
    BY <1>1, <1>3, UndisturbedCall DEF Announces, Unaffected
  <1>5. /\ SessionPhase(t) = "idle" /\ SessionPhase(t)' = "pending"
        /\ SessionParam(t)' = a /\ SessionResult(t)' = SessionResult(t)
    BY <1>1 DEF Announces, SessionPhase, SessionParam, SessionResult, IsOutside
  <1>6. SameSession
    BY <1>2, SessionStays DEF Holding, Filling, Serving, Releasing
  <1>7. SameWords
    BY <1>1, <1>2, WordsStay DEF Announces
  <1> QED
    BY <1>4, <1>5, <1>6, <1>7
       DEF SameCall, SameSession, SameWords, SamePublished, SameDurable, SameSynced,
           Sessions!Invoke, Sessions!sessionVars, Sessions!wordVars, SessionParam,
           SessionResult, Stage, Combiner

(* The compare-and-swap of line 144 that succeeds begins a session.          *)
LEMMA LockBegins ==
    ASSUME RefInv, RefInv', KeepBatch, NEW t \in Threads,
           TryLock(t), lock = local_lock[t]
    PROVE  Sessions!Begin(t)
  <1> pc \in [Threads -> Labels] /\ OneCombiner /\ OneCombiner'
    BY DEF RefInv, IndInv, TypeInv, TypeOK, LockInv
  <1>1. Silent
    BY OthersAreSilent
  <1>2. /\ pc[t] = "cas" /\ pc' = [pc EXCEPT ![t] = "copy"]
        /\ UNCHANGED <<last_state, nvm_last_state, state>>
    BY DEF TryLock, CASSucceeds, At, Goto, recordVars, pointerVars
  <1>3. batch' = batch
    BY <1>2, BatchSteps
  <1>4. \A u \in Threads : SameCall(u)
    BY <1>1, <1>3, UndisturbedCall DEF Silent, Unaffected
  <1>5. SessionPhase(t) # "idle"
    BY <1>2 DEF SessionPhase
  <1>6. Stage = "free"
    <2>1. ~IsHeld(lock)
      BY <1>2 DEF RefInv, IndInv, LockInv
    <2> QED
      BY <2>1, SessionOf DEF OneCombiner
  <1>7. Stage' = "serving" /\ Combiner' = t
    BY <1>2, NextSessionOf DEF Holding, Filling, StageOf
  <1>8. SameWords
    BY <1>1, <1>2, WordsStay DEF Silent
  <1> QED
    BY <1>4, <1>5, <1>6, <1>7, <1>8
       DEF SameCall, SameWords, SamePublished, SameDurable, SameSynced,
           Sessions!Begin, Sessions!callVars, Sessions!wordVars, SessionParam,
           SessionResult, Stage, Combiner

(* Line 175 serves an operation of the batch.                                *)
LEMMA ServeServes ==
    ASSUME RefInv, RefInv', BatchInv, KeepBatch, NEW t \in Threads, NEW k \in Threads,
           ServeRequest(t), j[t] = k
    PROVE  Sessions!ServeAny(k)
  <1> /\ pc \in [Threads -> Labels] /\ state \in [Recs -> ObjStates]
      /\ OneCombiner /\ OneCombiner' /\ PoolInv /\ BatchServed
    BY DEF RefInv, IndInv, TypeInv, TypeOK, LockInv, BatchInv
  <1>1. TakesEffect(k)
    BY ServeTakesEffect
  <1>2. /\ pc[t] = "serve" /\ pc' = [pc EXCEPT ![t] = "mark"]
        /\ UNCHANGED <<last_state, nvm_last_state>>
        /\ \A r \in Recs \ {WorkRec(t)} : state'[r] = state[r]
    BY DEF ServeRequest, At, Goto, pointerVars
  <1>3. batch' = batch \union {k} /\ k \notin batch
    BY <1>1, BatchSteps DEF BatchServed, TakesEffect
  <1>4. \A u \in Threads \ {k} : SameCall(u)
    BY <1>1, <1>3, UndisturbedCall DEF TakesEffect, Unaffected
  <1>5. SessionPhase(k) = "pending" /\ SessionPhase(k)' = "applied"
    BY <1>1, <1>3 DEF TakesEffect, SessionPhase, IsOutside
  <1>6. /\ SessionParam(k)' = SessionParam(k)
        /\ SessionResult(k)' = (return_value[CurrentRec][k])'
    BY <1>1, <1>5 DEF TakesEffect, SessionParam, SessionResult
  <1>7. Stage = "serving" /\ SameSession
    <2>1. \A u \in Threads : /\ pc'[u] \in Holding <=> pc[u] \in Holding
                             /\ pc[u] \in Holding => StageOf(pc'[u]) = StageOf(pc[u])
      BY <1>2 DEF Holding, Filling, Serving, Releasing, StageOf
    <2>2. StageOf(pc[t]) = "serving" /\ pc[t] \in Holding
      BY <1>2 DEF Holding, Filling, Serving, StageOf
    <2> QED
      BY <2>1, <2>2, SessionOf, SessionStays
  <1>8. SamePublished /\ SameDurable /\ SameSynced
    <2>1. WorkRec(t) # last_state
      BY <1>2 DEF PoolInv, Releasing
    <2>2. last_state \in PoolRecs => state'[last_state] = state[last_state]
      BY <1>2, <2>1 DEF Recs
    <2> QED
      BY <1>1, <1>2, <2>2, WordsAre, DurableStateIs
         DEF TakesEffect, SamePublished, SameDurable, SameSynced
  <1>9. /\ (state[CurrentRec])' \in ObjStates
        /\ (return_value[CurrentRec][k])' \in RetVals
    <2>1. state[CurrentRec] \in ObjStates /\ arg[k] \in Args
      BY CurrentFacts DEF RefInv, IndInv, TypeInv, TypeOK
    <2> QED
      BY <1>1, <2>1, ObjectAssumption DEF TakesEffect
  <1>10. PICK w \in ObjStates, v \in RetVals :
             w = (state[CurrentRec])' /\ v = (return_value[CurrentRec][k])'
    BY <1>9
  <1>11. Sessions!Serve(k, w, v)
    BY <1>4, <1>5, <1>6, <1>7, <1>8, <1>10
       DEF SameCall, SameSession, SamePublished, SameDurable, SameSynced,
           Sessions!Serve, Sessions!sessionVars, SessionParam, SessionResult, Stage,
           Combiner
  <1> QED
    BY <1>11 DEF Sessions!ServeAny

(* The session goes on from one stage to the next.                           *)
LEMMA SessionAdvances ==
    ASSUME RefInv, RefInv', NEW t \in Threads, pc[t] \in Holding,
           NEW label \in Holding, pc' = [pc EXCEPT ![t] = label]
    PROVE  Stage = StageOf(pc[t]) /\ Stage' = StageOf(label) /\ Combiner' = Combiner
  <1> pc \in [Threads -> Labels] /\ OneCombiner /\ OneCombiner'
    BY DEF RefInv, IndInv, TypeInv, TypeOK, LockInv
  <1>1. pc'[t] = label
    OBVIOUS
  <1> QED
    BY <1>1, SessionOf, NextSessionOf

(* The hooks and the flush of the state, lines 187-192 and 200-202.          *)
LEMMA SilentAdvances ==
    ASSUME RefInv, RefInv', KeepBatch, NEW t \in Threads,
           FinalPersist(t) \/ FlushState(t) \/ AfterPersist(t)
    PROVE  Sessions!Persist
  <1>1. Silent
    BY OthersAreSilent
  <1>2. UNCHANGED <<last_state, nvm_last_state, state>>
    BY DEF FinalPersist, FlushState, AfterPersist, recordVars, pointerVars
  <1>3. SameWords
    BY <1>1, <1>2, WordsStay DEF Silent
  <1> DEFINE Goes(from, to, new) ==
          /\ pc[t] \in Holding /\ StageOf(pc[t]) = from
          /\ new \in Holding /\ StageOf(new) = to
          /\ pc' = [pc EXCEPT ![t] = new]
          /\ batch' = batch
  <1>4. ASSUME NEW from, NEW to, NEW new, Goes(from, to, new)
        PROVE  Sessions!Advance(from, to) /\ UNCHANGED Sessions!wordVars
    <2>1. Stage = from /\ Stage' = to /\ Combiner' = Combiner
      BY <1>4, SessionAdvances
    <2>2. \A u \in Threads : SameCall(u)
      BY <1>1, <1>4, UndisturbedCall DEF Silent, Unaffected
    <2>3. UNCHANGED Sessions!callVars
      BY <2>2 DEF SameCall, Sessions!callVars, SessionParam, SessionResult
    <2>4. UNCHANGED Sessions!wordVars
      BY <1>3 DEF SameWords, SamePublished, SameDurable, SameSynced, Sessions!wordVars
    <2>5. Sessions!Advance(from, to)
      BY <2>1, <2>3 DEF Sessions!Advance, Stage, Combiner
    <2> QED
      BY <2>4, <2>5
  <1> HIDE DEF Goes
  <1>5. \/ FinalPersist(t) /\ Goes("serving", "flush_state", "flush_state")
        \/ FlushState(t) /\ Goes("flush_state", "publish", "lock_value")
        \/ AfterPersist(t) /\ Goes("after_persist", "unlock", "unlock")
    BY BatchSteps
       DEF FinalPersist, FlushState, AfterPersist, At, Goto, Goes, StageOf, Holding,
           Filling, Serving, Releasing
  <1> QED
    BY <1>4, <1>5
       DEF Sessions!Persist, Sessions!FinalPersist, Sessions!FlushState,
           Sessions!AfterPersist

(* Line 195 publishes the word the session has come to.                      *)
LEMMA PublishPublishes ==
    ASSUME RefInv, RefInv', KeepBatch, NEW t \in Threads, Publish(t)
    PROVE  Sessions!Publish
  <1> OneCombiner /\ PoolInv /\ TypeOK
    BY DEF RefInv, IndInv, TypeInv, LockInv
  <1>1. Silent
    BY PublishIsSilent
  <1>2. /\ pc[t] = "publish" /\ pc' = [pc EXCEPT ![t] = "flush_pointer"]
        /\ last_state' = WorkRec(t)
        /\ UNCHANGED <<nvm_last_state, state>>
    BY DEF Publish, At, Goto, recordVars
  <1>3. batch' = batch
    BY <1>2, BatchSteps
  <1>4. \A u \in Threads : SameCall(u)
    BY <1>1, <1>3, UndisturbedCall DEF Silent, Unaffected
  <1>5. Stage = "publish" /\ Stage' = "flush_pointer" /\ Combiner' = Combiner
    BY <1>2, SessionAdvances DEF Holding, Serving, Filling, Releasing, StageOf
  <1>6. /\ RecordedWord(last_state)' = state[CurrentRec]
        /\ (state[CurrentRec])' = state[CurrentRec]
    <2>1. CurrentRec = WorkRec(t) /\ WorkRec(t) \in PoolRecs
      BY <1>2, CurrentRecord, WorkRecType DEF Serving
    <2> QED
      BY <1>1, <1>2, <2>1, WordsAre DEF Silent, KeepsStates
  <1>7. nvm_last_state' # last_state'
    BY <1>2 DEF PoolInv, Releasing
  <1>8. SameDurable
    BY <1>2, WordsAre DEF SameDurable
  <1>9. UNCHANGED Sessions!callVars
    BY <1>4 DEF SameCall, Sessions!callVars, SessionParam, SessionResult
  <1> QED
    BY <1>5, <1>6, <1>7, <1>8, <1>9
       DEF SameDurable, Sessions!Publish, Sessions!Advance, Stage, Combiner

(* What the flush of the pointer and its eviction have in common.            *)
LEMMA PointerArrives ==
    ASSUME RefInv, RefInv', BecomesDurable \/ Silent, batch' = batch,
           nvm_last_state' = last_state, UNCHANGED <<last_state, state>>
    PROVE  /\ UNCHANGED Sessions!callVars
           /\ RecordedWord(nvm_last_state)' = RecordedWord(last_state)
           /\ SamePublished
           /\ (state[CurrentRec])' = state[CurrentRec]
  <1>1. \A u \in Threads : SameCall(u)
    BY UndisturbedCall DEF Silent, Unaffected, BecomesDurable
  <1>2. UNCHANGED Sessions!callVars
    BY <1>1 DEF SameCall, Sessions!callVars, SessionParam, SessionResult
  <1>3. RecordedWord(nvm_last_state)' = RecordedWord(last_state) /\ SamePublished
    BY WordsAre DEF SamePublished
  <1> QED
    BY <1>2, <1>3 DEF Silent, KeepsStates, BecomesDurable

(* Lines 197-198. *)
LEMMA FlushFlushes ==
    ASSUME RefInv, RefInv', KeepBatch, NEW t \in Threads, FlushPointer(t)
    PROVE  Sessions!FlushPointer
  <1>1. /\ pc[t] = "flush_pointer" /\ pc' = [pc EXCEPT ![t] = "after_persist"]
        /\ nvm_last_state' = last_state
        /\ UNCHANGED <<last_state, state>>
    BY DEF FlushPointer, FlushedPointer, At, Goto, recordVars
  <1>2. BecomesDurable
    BY PointerPersists
       DEF FlushPointer, FlushedPointer, At, Goto, requestVars, recordVars
  <1>3. batch' = batch
    BY <1>1, BatchSteps DEF RefInv, IndInv, TypeInv, TypeOK
  <1>4. Stage = "flush_pointer" /\ Stage' = "after_persist" /\ Combiner' = Combiner
    <2>1. pc[t] \in Holding /\ "after_persist" \in Holding
      BY <1>1 DEF Holding, Releasing
    <2>2. StageOf(pc[t]) = "flush_pointer" /\ StageOf("after_persist") = "after_persist"
      BY <1>1 DEF StageOf, Filling
    <2> QED
      BY <1>1, <2>1, <2>2, SessionAdvances
  <1> QED
    BY <1>1, <1>2, <1>3, <1>4, PointerArrives
       DEF SamePublished, Sessions!FlushPointer, Sessions!Advance, Stage, Combiner

LEMMA EvictEvicts ==
    ASSUME RefInv, RefInv', KeepBatch, Evict
    PROVE  Sessions!Evict
  <1>1. /\ nvm_last_state' = last_state
        /\ UNCHANGED <<last_state, state, pc>>
    BY DEF Evict, recordVars
  <1>2. BecomesDurable \/ Silent
    BY EvictPersists
  <1>3. batch' = batch
    BY <1>1 DEF KeepBatch
  <1>4. SameSession
    BY <1>1, SessionStays DEF RefInv, IndInv, LockInv
  <1>5. UNCHANGED Sessions!sessionVars
    BY <1>4 DEF SameSession, Sessions!sessionVars, Stage, Combiner
  <1>6. /\ UNCHANGED Sessions!callVars
        /\ RecordedWord(nvm_last_state)' = RecordedWord(last_state)
        /\ SamePublished
        /\ (state[CurrentRec])' = state[CurrentRec]
    BY <1>1, <1>2, <1>3, PointerArrives
  <1>7. nvm_last_state' = last_state'
    BY <1>1
  <1> QED
    BY <1>5, <1>6, <1>7 DEF SamePublished, Sessions!Evict

(* Lines 204-206: the batch may return.                                      *)
LEMMA UnlockUnlocks ==
    ASSUME RefInv, RefInv', BatchInv, KeepBatch, NEW t \in Threads, Unlock(t)
    PROVE  Sessions!Unlock
  <1> pc \in [Threads -> Labels] /\ OneCombiner /\ OneCombiner' /\ BatchServed
    BY DEF RefInv, IndInv, TypeInv, TypeOK, LockInv, BatchInv
  <1>1. Silent
    BY OthersAreSilent
  <1>2. /\ pc[t] = "unlock" /\ pc' = [pc EXCEPT ![t] = "combiner_return"]
        /\ UNCHANGED <<last_state, nvm_last_state, state>>
    BY DEF Unlock, At, Goto, recordVars, pointerVars
  <1>3. batch' = {}
    BY BatchSteps
  <1>4. ASSUME NEW u \in Threads
        PROVE  /\ SessionPhase(u)' = IF SessionPhase(u) = "applied" THEN "released"
                                     ELSE SessionPhase(u)
               /\ SessionParam(u)' = SessionParam(u)
               /\ SessionResult(u)' = SessionResult(u)
    <2>1. Undisturbed(u)
      BY <1>1 DEF Silent, Unaffected
    <2>2. SessionPhase(u)' = IF SessionPhase(u) = "applied" THEN "released"
                             ELSE SessionPhase(u)
      BY <1>3, <2>1 DEF Undisturbed, SessionPhase, IsOutside
    <2>3. SessionPhase(u) # "idle" => ~IsOutside(u)
      BY DEF SessionPhase, IsOutside
    <2> QED
      BY <2>1, <2>2, <2>3 DEF Undisturbed, SessionParam, SessionResult
  <1>5. Stage = "unlock"
    BY <1>2, SessionOf DEF Holding, Serving, Filling, Releasing, StageOf
  <1>6. Stage' = "free" /\ Combiner' = -1
    <2>1. \A u \in Threads : pc'[u] \notin Holding
      BY <1>2 DEF OneCombiner, Holding, Serving, Filling, Releasing
    <2> QED
      BY <2>1, NextSessionOf
  <1>7. SameWords
    BY <1>1, <1>2, WordsStay DEF Silent
  <1> QED
    BY <1>4, <1>5, <1>6, <1>7
       DEF SameWords, SamePublished, SameDurable, SameSynced, Sessions!Unlock,
           Sessions!wordVars, SessionParam, SessionResult, Stage, Combiner

(* Lines 155, 158 and 208: a call returns when its session has ended.        *)
LEMMA LeaveReturns ==
    ASSUME RefInv, RefInv', BatchInv, KeepBatch, NEW t \in Threads,
           ReturnServed(t) \/ ReturnCombiner(t)
    PROVE  Sessions!Return(t)
  <1> pc \in [Threads -> Labels] /\ OneCombiner /\ OneCombiner' /\ BatchWaits
    BY DEF RefInv, IndInv, TypeInv, TypeOK, LockInv, BatchInv
  <1>1. Leaves(t)
    BY LeaveLeaves DEF ReturnServed, ReturnCombiner, At, AtReturn
  <1>2. /\ AtReturn(t) /\ pc' = [pc EXCEPT ![t] = "idle"]
        /\ UNCHANGED <<last_state, nvm_last_state, state>>
    BY DEF ReturnServed, ReturnCombiner, Leave, At, AtReturn, Goto, recordVars,
           pointerVars
  <1>3. batch' = batch /\ t \notin batch
    BY <1>2, BatchSteps DEF BatchWaits, AtReturn
  <1>4. \A u \in Threads \ {t} : SameCall(u)
    BY <1>1, <1>3, UndisturbedCall DEF Leaves, Unaffected
  <1>5. /\ SessionPhase(t) = "released" /\ SessionPhase(t)' = "idle"
        /\ SessionParam(t)' = <<"no arg">> /\ SessionResult(t)' = SessionResult(t)
    BY <1>1, <1>3 DEF Leaves, SessionPhase, SessionParam, SessionResult, IsOutside
  <1>6. Combiner # t
    <2>1. pc[t] \notin Holding
      BY <1>2 DEF AtReturn, Holding, Serving, Filling, Releasing
    <2>2. CASE \E c \in Threads : pc[c] \in Holding
      BY <2>1, <2>2, SessionOf
    <2>3. CASE \A c \in Threads : pc[c] \notin Holding
      BY <2>3, SessionOf DEF Threads
    <2> QED
      BY <2>2, <2>3
  <1>7. SameSession
    BY <1>2, SessionStays DEF AtReturn, Holding, Filling, Serving, Releasing
  <1>8. SameWords
    BY <1>1, <1>2, WordsStay DEF Leaves
  <1> QED
    BY <1>4, <1>5, <1>6, <1>7, <1>8
       DEF SameCall, SameSession, SameWords, SamePublished, SameDurable, SameSynced,
           Sessions!Return, Sessions!sessionVars, Sessions!wordVars, SessionParam,
           SessionResult, Stage, Combiner

-----------------------------------------------------------------------------
(* Every step of PBCombApplyOp is one step of the sessions or none.          *)
LEMMA SessionStep ==
    RefInv /\ RefInv' /\ BatchInv /\ [BatchNext]_batchVars =>
        [Sessions!Next]_Sessions!vars
  <1> SUFFICES ASSUME RefInv, RefInv', BatchInv, [BatchNext]_batchVars
               PROVE  Sessions!Next \/ UNCHANGED Sessions!vars
    OBVIOUS
  <1>1. CASE UNCHANGED batchVars
    <2>1. Silent
      BY <1>1, QuietStep
         DEF batchVars, vars, requestVars, lockVars, recordVars, pointerVars, loopVars,
             localVars, IsOutside, WorkRec
    <2>2. SameSession
      BY <1>1, SessionStays DEF batchVars, vars, RefInv, IndInv, LockInv
    <2> QED
      BY <1>1, <2>1, <2>2, QuietSession DEF batchVars, vars, recordVars, pointerVars
  <1>2. ASSUME KeepBatch, Evict
        PROVE  Sessions!Next
    BY <1>2, EvictEvicts DEF Sessions!Next
  <1>3. ASSUME KeepBatch, NEW t \in Threads, ToggleActivate(t)
        PROVE  Sessions!Next
    <2>1. arg[t] \in Args
      BY DEF RefInv, IndInv, TypeInv, TypeOK
    <2>2. PICK a \in Args : a = arg[t]
      BY <2>1
    <2>3. Sessions!Invoke(t, a)
      BY <1>3, <2>2, ActivateInvokes
    <2> QED
      BY <2>3 DEF Sessions!Next
  <1>4. ASSUME KeepBatch, NEW t \in Threads, TryLock(t)
        PROVE  Sessions!Next \/ UNCHANGED Sessions!vars
    <2>1. CASE lock = local_lock[t]
      BY <1>4, <2>1, LockBegins DEF Sessions!Next
    <2>2. CASE lock # local_lock[t]
      BY <1>4, <2>2, QuietSteps
    <2> QED
      BY <2>1, <2>2
  <1>5. ASSUME KeepBatch, NEW t \in Threads, ServeRequest(t)
        PROVE  Sessions!Next
    <2>1. j[t] \in Threads
      BY <1>5 DEF RefInv, IndInv, TypeInv, ScanInRange, ServeRequest, At
    <2>2. PICK k \in Threads : j[t] = k
      BY <2>1
    <2>3. Sessions!ServeAny(k)
      BY <1>5, <2>2, ServeServes
    <2> QED
      BY <2>3 DEF Sessions!Next
  <1>6. ASSUME KeepBatch, NEW t \in Threads,
               FinalPersist(t) \/ FlushState(t) \/ AfterPersist(t)
        PROVE  Sessions!Next
    BY <1>6, SilentAdvances DEF Sessions!Next
  <1>7. ASSUME KeepBatch, NEW t \in Threads, Publish(t) \/ FlushPointer(t)
        PROVE  Sessions!Next
    BY <1>7, PublishPublishes, FlushFlushes DEF Sessions!Next, Sessions!Persist
  <1>8. ASSUME KeepBatch, NEW t \in Threads, Unlock(t)
        PROVE  Sessions!Next
    BY <1>8, UnlockUnlocks DEF Sessions!Next
  <1>9. ASSUME KeepBatch, NEW t \in Threads, ReturnServed(t) \/ ReturnCombiner(t)
        PROVE  Sessions!Next
    BY <1>9, LeaveReturns DEF Sessions!Next
  <1> QED
    BY <1>1, <1>2, <1>3, <1>4, <1>5, <1>6, <1>7, <1>8, <1>9, QuietSteps
       DEF BatchNext, Next, Step, Wait, Combine

(* A new object has had no session.                                          *)
LEMMA InitSessions == Init => Sessions!Init
  <1> SUFFICES ASSUME Init
               PROVE  Sessions!Init
    OBVIOUS
  <1>1. \A t \in Threads : pc[t] = "idle"
    BY DEF Init
  <1>2. CurrentRec = InitRec /\ state[InitRec] = InitialState
    BY <1>1 DEF Init, CurrentRec, Combining, Serving, Recs
  <1>3. Holders = {}
    BY <1>1 DEF Holders, Holding, Filling, Serving, Releasing
  <1>4. /\ RecordedWord(last_state) = Unformatted
        /\ RecordedWord(nvm_last_state) = Unformatted
        /\ nvm_last_state # last_state
    BY RecordsAssumption DEF Init, RecordedWord, Recs
  <1>5. \A t \in Threads : SessionPhase(t) = "idle" /\ out[t] = NoVal
    BY <1>1 DEF Init, SessionPhase
  <1> QED
    BY <1>2, <1>3, <1>4, <1>5 DEF Sessions!Init

(* With memcpy in ascending order PBcomb provides sessions, however many     *)
(* calls there are: an operation is applied once, by one session, and its    *)
(* call returns only after that session has made it durable, run both hooks  *)
(* and released the lock.  What is checked of PBStack, PBQueue and PBHeap on *)
(* CombiningSessions therefore holds on PBcomb.                              *)
THEOREM ProvidesSessions ==
    ASSUME AscendingCopy
    PROVE  BatchSpec => ImplementsSessions
  <1>1. RefInv /\ RefInv' /\ BatchInv /\ [BatchNext]_batchVars =>
            [Sessions!Next]_Sessions!vars
    BY SessionStep
  <1>2. Init => Sessions!Init
    BY InitSessions
  <1> QED
    BY <1>1, <1>2, BatchInduction, PTL
       DEF BatchSpec, ImplementsSessions, Sessions!Spec

(* A bound on the calls only leaves behaviours out.                          *)
LEMMA BoundedCalls == SessionSpec => BatchSpec
  <1>1. SessionInit => Init /\ batch = {}
    BY DEF SessionInit, MCInit
  <1>2. [MCNext /\ KeepBatch]_sessionVars => [BatchNext]_batchVars
    <2>1. MCNext => Next
      BY DEF MCNext, MCStep, MCEvict, Begin, Next
    <2> QED
      BY <2>1 DEF sessionVars, MCvars, batchVars, BatchNext
  <1> QED
    BY <1>1, <1>2, PTL DEF SessionSpec, BatchSpec

(* With any bound on the calls, as in the specification the run checks,      *)
(* PBCombApplyOp is a sequence of sessions, with memcpy in ascending order.  *)
THEOREM BoundedProvidesSessions ==
    ASSUME AscendingCopy
    PROVE  SessionSpec => ImplementsSessions
  <1> QED
    BY BoundedCalls, ProvidesSessions, PTL
=============================================================================
