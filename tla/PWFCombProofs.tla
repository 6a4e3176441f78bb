---------------------------- MODULE PWFCombProofs ----------------------------
(* Proofs about PWFComb, for every number of threads and every object: its   *)
(* safety invariants, that it provides WaitFreeSessions (MCPWFComb), and that*)
(* it implements BufferedObject.                                             *)
(*                                                                           *)
(* The compare-and-swap of line 197 tells records apart by a number of 40    *)
(* bits.  The theorems are about executions in which it does not come round: *)
(* UnwrappedSpec.                                                            *)
EXTENDS MCPWFComb, FiniteSetTheorems, WellFoundedInduction, TLAPS

Unwrapped == S.seq <= S'.seq

UnwrappedSpec == Spec /\ [][Unwrapped]_vars

-----------------------------------------------------------------------------
(* The parts of PWFCombApplyOp a thread can be in.                           *)

Reading   == {"read_diffs", "read_flush", "check_S", "copy"}
InAttempt == Reading \union Writing
Copying   == {"copy_results", "check_copy"}
Serving   == {"serve_own", "scan", "serve"}
Marked    == {"check_publish", "flush_record", "set_flush", "set_round", "cas"}
Tried     == Serving \union Marked
Settled   == Finishing \union {"settle", "return_own"}

-----------------------------------------------------------------------------
(* The inductive invariant                                                   *)

(* A thread serves another one when there is one left. *)
OthersLeft == \A t \in Threads : pc[t] = "serve" => loc[t].diffs # {}

TypeInv == TypeOK /\ OthersLeft

(* A thread that has called never has its bit clear everywhere. *)
CalledInv ==
    \A k \in Threads : ~valid[k] =>
        /\ activate[k] = 0
        /\ pc[k] = "idle"
        /\ \A r \in Recs : rec[r].deactivate[k] = 0
        /\ \A u \in Threads : loc[u].l_activate[k] = 0 /\ k \notin loc[u].diffs

(* As the number grows, S that is the same was the same all the time. *)
SeqInv ==
    \A t \in Threads : pc[t] \in InAttempt =>
        /\ loc[t].old_sp.seq <= S.seq
        /\ loc[t].old_sp.seq = S.seq => loc[t].old_sp = S

(* The record t writes, or will write next, by the current index vector. *)
NextOf(t) == <<t, rec[S.index].index[t]>>

(* The record a thread writes is free: it is neither current nor durable,    *)
(* and a thread that still copies it has begun before its owner has.         *)
FreeInv ==
    /\ \A t \in Threads : S.index # NextOf(t)
    /\ \A t \in Threads : pc[t] \in Writing => loc[t].lsp = NextOf(t)
    /\ \A t \in Threads : pc[t] # "flush_S" /\ nvm_S # NoRec => nvm_S.index # NextOf(t)
    /\ \A o, p \in Threads :
          /\ pc[o] \in InAttempt /\ pc[p] \in InAttempt
          /\ loc[o].old_sp.index = NextOf(p)
          => loc[o].old_sp.seq < loc[p].old_sp.seq

(* A record that thread o copies, even while it is being rewritten, has the  *)
(* current index of every thread whose attempt has not begun after o's.      *)
IndexInv ==
    \A o, p \in Threads :
        /\ pc[o] \in InAttempt /\ pc[p] \in InAttempt
        /\ loc[p].old_sp.seq <= loc[o].old_sp.seq
        => rec[loc[o].old_sp.index].index[p] = rec[S.index].index[p]

(* While S stays the same, the copy has the bits of the current record until *)
(* it is marked.                                                             *)
CopyInv ==
    \A t \in Threads : pc[t] \in Writing =>
        /\ loc[t].old_sp = S =>
              rec[loc[t].lsp].index = IF pc[t] \in Marked
                                      THEN Flipped(rec[S.index].index, t)
                                      ELSE rec[S.index].index
        /\ loc[t].old_sp = S /\ pc[t] \notin Marked =>
              rec[loc[t].lsp].deactivate = rec[S.index].deactivate
        /\ pc[t] \in Marked => rec[loc[t].lsp].deactivate = loc[t].l_activate

CleanInv ==
    /\ \A t \in Threads : pc[t] \in {"set_flush", "set_round", "cas"} => clean[loc[t].lsp]
    /\ ImageComplete

(* What an attempt knows about its own operation. *)
OwnInv ==
    \A t \in Threads :
        /\ pc[t] \in {"idle", "activate"} => loc[t].j = 0
        /\ pc[t] \in {"read_flush", "check_S"} /\ loc[t].old_sp = S =>
              (loc[t].diffs = {} <=> HasTakenEffect(t))
        /\ pc[t] \in {"copy", "copy_results", "check_copy"} /\ loc[t].old_sp = S =>
              ~HasTakenEffect(t)
        /\ pc[t] = "read_activate" => rec[loc[t].lsp].deactivate[t] # activate[t]
        /\ pc[t] \in Tried => loc[t].l_activate[t] = activate[t]

(* The attempts that may still publish have seen the operation of t.         *)
SeenByAll(t) ==
    \A u \in Threads : pc[u] \in Tried /\ loc[u].old_sp = S =>
        loc[u].l_activate[t] = activate[t]

(* Another thread has published since t announced its operation. *)
Overtaken(t) ==
    \/ pc[t] = "read_S" /\ loc[t].j = 1
    \/ pc[t] \in InAttempt /\ (loc[t].j = 1 \/ loc[t].old_sp # S)

ServedInv ==
    \A t \in Threads :
        /\ pc[t] \in Settled \union {"idle", "activate", "flush_S"} => HasTakenEffect(t)
        /\ HasTakenEffect(t) \/ Overtaken(t) => SeenByAll(t)
        /\ pc[t] \in InAttempt /\ loc[t].j = 1 /\ loc[t].old_sp # S => HasTakenEffect(t)

IndInv ==
    /\ TypeInv /\ CalledInv /\ SeqInv /\ FreeInv /\ IndexInv /\ CopyInv
    /\ CleanInv /\ OwnInv /\ ServedInv
-----------------------------------------------------------------------------
(* Facts about the constants and the helpers                                 *)

(* A set of natural numbers that is not empty has a least member. *)
LEMMA LeastNatural ==
    ASSUME NEW T \in SUBSET Nat, T # {}
    PROVE  \E m \in T : \A k \in T : m <= k
  <1>1. PICK m \in T : \A k \in T : <<k, m>> \notin OpToRel(<, Nat)
    BY WFMin, NatLessThanWellFounded, Zenon
  <1>2. \A k \in T : ~ (k < m)
    BY <1>1, Zenon DEF OpToRel
  <1> QED
    BY <1>2

LEMMA MinIsMember ==
    ASSUME NEW D, D \subseteq Nat, D # {}
    PROVE  Min(D) \in D
  BY LeastNatural DEF Min

(* Toggling a bit of a vector. *)
LEMMA BitFlips ==
    ASSUME NEW v \in Bits, NEW t \in Threads
    PROVE  /\ [v EXCEPT ![t] = 1 - @] \in Bits
           /\ v[t] \in {0, 1} /\ 1 - v[t] \in {0, 1}
           /\ 1 - v[t] # v[t]
  <1>1. v[t] = 0 \/ v[t] = 1
    BY DEF Bits
  <1> QED
    BY <1>1 DEF Bits

LEMMA OtherBit == \A b \in {0, 1} : 1 - b \in {0, 1} /\ 1 - b # b
  OBVIOUS

(* The initial record belongs to no thread. *)
LEMMA RecFacts ==
    /\ Threads \subseteq Nat /\ 0 \in Threads /\ NThreads \notin Threads
    /\ InitRec \in Recs /\ InitRec \notin PoolRecs
    /\ PoolRecs \subseteq Recs
    /\ \A r \in Recs : Owner(r) \in Threads \union {NThreads}
    /\ \A r \in PoolRecs : Owner(r) \in Threads
    /\ \A t \in Threads, b \in {0, 1} : <<t, b>> \in PoolRecs
    /\ 0 \in 0 .. SeqRange - 1
    /\ \A n \in 0 .. SeqRange - 1 : NextSeq(n) \in 0 .. SeqRange - 1
  BY PWFConstantsAssumption
     DEF Threads, InitRec, PoolRecs, Recs, Owner, NextSeq

(* The record t copies to is one of its own. *)
LEMMA LocalIndexType ==
    ASSUME TypeOK, NEW t \in Threads, NEW r \in Recs
    PROVE  LocalIndex(t, r) \in PoolRecs /\ LocalIndex(t, r) \in Recs
  <1>1. rec[r].index \in [Threads -> {0, 1}]
    BY DEF TypeOK, Records, Bits
  <1> QED
    BY <1>1, RecFacts DEF LocalIndex

(* Starting over keeps the types of the local variables. *)
LEMMA NoLocalsType ==
    /\ NoLocals \in Locals
    /\ \A n \in {0, 1} : [NoLocals EXCEPT !.j = n] \in Locals
  BY RecFacts DEF NoLocals, Locals, Attempts, Pointers, Bits

-----------------------------------------------------------------------------
(* Type correctness                                                          *)

LEMMA TypeInit == Init => TypeInv
  BY RecFacts, NoLocalsType, PWFConstantsAssumption, SFuncAssumption
     DEF Init, TypeInv, OthersLeft, TypeOK, Records, Pointers, Bits, Labels

(* A field of the local variables, or of a record, is replaced. *)
LEMMA LocalsUpdated ==
    ASSUME NEW l \in Locals
    PROVE  /\ \A v \in Pointers : [l EXCEPT !.old_sp = v] \in Locals
           /\ \A v \in Nat : [l EXCEPT !.l_val = v] \in Locals
           /\ \A v \in SUBSET Threads : [l EXCEPT !.diffs = v] \in Locals
           /\ \A v \in SUBSET Threads : [l EXCEPT !.diffs_copy = v] \in Locals
           /\ \A v \in Recs : [l EXCEPT !.lsp = v] \in Locals
           /\ \A v \in Bits : [l EXCEPT !.l_activate = v] \in Locals
           /\ \A k \in Threads, v \in {0, 1} :
                 [l EXCEPT !.l_activate[k] = v] \in Locals
  BY DEF Locals, Bits

LEMMA RecordsUpdated ==
    ASSUME NEW r \in Records
    PROVE  /\ \A v \in ObjStates : [r EXCEPT !.st = v] \in Records
           /\ \A v \in [Threads -> RetVals] : [r EXCEPT !.return_val = v] \in Records
           /\ \A k \in Threads, v \in RetVals :
                 [r EXCEPT !.return_val[k] = v] \in Records
           /\ \A v \in Bits : [r EXCEPT !.deactivate = v] \in Records
           /\ \A v \in Bits : [r EXCEPT !.index = v] \in Records
  BY DEF Records

(* What the actions read. *)
LEMMA Reads ==
    ASSUME TypeOK, NEW t \in Threads
    PROVE  /\ loc[t] \in Locals
           /\ loc[t].old_sp \in Pointers /\ loc[t].old_sp.index \in Recs
           /\ loc[t].lsp \in Recs /\ loc[t].j \in 0 .. 1
           /\ loc[t].l_val \in Nat
           /\ loc[t].diffs \subseteq Threads /\ loc[t].diffs_copy \subseteq Threads
           /\ loc[t].l_activate \in Bits
           /\ S \in Pointers /\ S.index \in Recs
           /\ \A r \in Recs : /\ rec[r] \in Records /\ rec[r].st \in ObjStates
                                 /\ rec[r].deactivate \in Bits /\ rec[r].index \in Bits
                                 /\ rec[r].return_val \in [Threads -> RetVals]
  BY DEF TypeOK, Locals, Records, Pointers, Attempts

(* The end of an attempt, with or without another one. *)
LEMMA AttemptEnds ==
    ASSUME TypeOK, NEW t \in Threads
    PROVE  Retry(t) \/ Break(t) =>
              /\ loc' \in [Threads -> Locals]
              /\ pc' \in [Threads -> Labels]
  <1> USE DEF TypeOK, Goto, Labels, Finishing, Attempts
  <1>1. CASE Break(t)
    BY <1>1, NoLocalsType DEF Break
  <1>2. CASE Retry(t) /\ loc[t].j = 0
    BY <1>2, NoLocalsType DEF Retry
  <1>3. CASE Retry(t) /\ loc[t].j = 1
    BY <1>3, NoLocalsType DEF Retry
  <1> QED
    BY <1>1, <1>2, <1>3, Reads

(* No step of PWFCombApplyOp breaks a type. *)
LEMMA TypeStep == TypeInv /\ [Next]_vars => TypeOK'
  <1> SUFFICES ASSUME TypeInv, [Next]_vars
               PROVE  TypeOK'
    OBVIOUS
  <1> TypeOK
    BY DEF TypeInv
  <1> USE RecFacts, Reads, LocalsUpdated, RecordsUpdated, AttemptEnds
      DEF TypeOK, Labels, Writing, Finishing, At, Goto, Local, requestVars,
          flushVars, recordVars
  <1>1. CASE UNCHANGED vars
    BY <1>1 DEF vars
  <1>2. CASE Evict
    BY <1>2 DEF Evict
  <1>3. ASSUME NEW t \in Threads, NEW a \in Args, WriteRequest(t, a)
        PROVE  TypeOK'
    BY <1>3 DEF WriteRequest
  <1>4. ASSUME NEW t \in Threads, ToggleActivate(t)
        PROVE  TypeOK'
    <2>1. activate' \in Bits
      BY <1>4, BitFlips DEF ToggleActivate
    <2> QED
      BY <1>4, <2>1 DEF ToggleActivate
  <1>5. ASSUME NEW t \in Threads, ReadS(t)
        PROVE  TypeOK'
    BY <1>5 DEF ReadS
  <1>6. ASSUME NEW t \in Threads, ReadDiffs(t)
        PROVE  TypeOK'
    BY <1>6, ZenonT(30) DEF ReadDiffs
  <1>7. ASSUME NEW t \in Threads, ReadFlush(t)
        PROVE  TypeOK'
    BY <1>7 DEF ReadFlush
  <1>8. ASSUME NEW t \in Threads, CheckS(t)
        PROVE  TypeOK'
    BY <1>8 DEF CheckS
  <1>9. ASSUME NEW t \in Threads, CopyState(t)
        PROVE  TypeOK'
    BY <1>9, LocalIndexType DEF CopyState
  <1>10. ASSUME NEW t \in Threads, CopyResults(t)
        PROVE  TypeOK'
    BY <1>10 DEF CopyResults
  <1>11. ASSUME NEW t \in Threads, CheckCopy(t)
        PROVE  TypeOK'
    BY <1>11 DEF CheckCopy
  <1>12. ASSUME NEW t \in Threads, ReadActivate(t)
        PROVE  TypeOK'
    <2> DEFINE diffs == {k \in Threads : rec[loc[t].lsp].deactivate[k] # activate[k]}
    <2>1. diffs \in SUBSET Threads
      OBVIOUS
    <2>2. CASE t \notin diffs
      <3>1. Break(t)
        BY <1>12, <2>2 DEF ReadActivate
      <3> QED
        BY <1>12, <3>1 DEF ReadActivate
    <2>3. CASE t \in diffs
      <3>1. loc' = [loc EXCEPT ![t].diffs = diffs, ![t].l_activate = activate]
        BY <1>12, <2>3 DEF ReadActivate
      <3>2. pc' = [pc EXCEPT ![t] = "serve_own"]
        BY <1>12, <2>3 DEF ReadActivate
      <3> HIDE DEF diffs
      <3>3. loc' \in [Threads -> Locals]
        BY <2>1, <3>1
      <3> QED
        BY <1>12, <3>2, <3>3 DEF ReadActivate
    <2> QED
      BY <2>2, <2>3
  <1>13. ASSUME NEW t \in Threads, ServeOwn(t)
        PROVE  TypeOK'
    BY <1>13, SFuncAssumption, ZenonT(30) DEF ServeOwn, Served
  <1>14. ASSUME NEW t \in Threads, LoadArg(t)
        PROVE  TypeOK'
    <2> DEFINE k == Min(loc[t].diffs)
    <2>1. k \in Threads
      BY <1>14, MinIsMember DEF LoadArg
    <2>2. CASE valid[k]
      <3>1. AsVal(arg[k]) \in RetVals
        BY <2>1, SFuncAssumption
      <3>2. rec' = [rec EXCEPT ![loc[t].lsp].return_val[k] = AsVal(arg[k])]
        BY <1>14, <2>2 DEF LoadArg
      <3>3. rec' \in [Recs -> Records]
        BY <2>1, <3>1, <3>2
      <3> QED
        BY <1>14, <2>2, <3>3 DEF LoadArg
    <2>3. CASE ~valid[k]
      <3>1. 1 - loc[t].l_activate[k] \in {0, 1}
        BY <2>1, BitFlips
      <3>2. loc' = [loc EXCEPT ![t].diffs = loc[t].diffs \ {k},
                               ![t].l_activate[k] = 1 - loc[t].l_activate[k]]
        BY <1>14, <2>3 DEF LoadArg
      <3>3. loc' \in [Threads -> Locals]
        BY <2>1, <3>1, <3>2
      <3> QED
        BY <1>14, <2>3, <3>3 DEF LoadArg
    <2> QED
      BY <2>2, <2>3
  <1>15. ASSUME NEW t \in Threads, ServeOther(t)
        PROVE  TypeOK'
    <2> DEFINE k == Min(loc[t].diffs)
    <2>1. k \in Threads
      BY <1>15, MinIsMember DEF ServeOther, TypeInv, OthersLeft
    <2> QED
      BY <1>15, <2>1, SFuncAssumption DEF ServeOther, Served
  <1>16. ASSUME NEW t \in Threads, MarkServed(t)
        PROVE  TypeOK'
    <2>1. \A v \in Bits : Flipped(v, t) \in Bits
      BY BitFlips DEF Flipped
    <2> QED
      BY <1>16, <2>1 DEF MarkServed
  <1>17. ASSUME NEW t \in Threads, CheckPublish(t)
        PROVE  TypeOK'
    BY <1>17 DEF CheckPublish
  <1>18. ASSUME NEW t \in Threads, FlushRecord(t)
        PROVE  TypeOK'
    BY <1>18 DEF FlushRecord, Flushed
  <1>19. ASSUME NEW t \in Threads, SetFlush(t)
        PROVE  TypeOK'
    <2>1. NextFlush(loc[t].l_val) \in Nat
      BY DEF NextFlush
    <2> QED
      BY <1>19, <2>1 DEF SetFlush
  <1>20. ASSUME NEW t \in Threads, SetRound(t)
        PROVE  TypeOK'
    <2>1. [k \in Threads |-> IF k \in loc[t].diffs_copy THEN loc[t].l_val
                            ELSE comb_round[t][k]] \in [Threads -> Nat]
      OBVIOUS
    <2>2. comb_round' \in [Threads -> [Threads -> Nat]]
      BY <1>20, <2>1 DEF SetRound
    <2> QED
      BY <1>20, <2>2 DEF SetRound
  <1>21. ASSUME NEW t \in Threads, Publish(t)
        PROVE  TypeOK'
    <2>1. CASE Unchanged_S(t)
      <3>1. S' \in Pointers
        BY <1>21, <2>1 DEF Publish, Pointers
      <3> QED
        BY <1>21, <2>1, <3>1 DEF Publish
    <2>2. CASE ~Unchanged_S(t)
      BY <1>21, <2>2 DEF Publish
    <2> QED
      BY <2>1, <2>2
  <1>22. ASSUME NEW t \in Threads, FlushOwn(t)
        PROVE  TypeOK'
    BY <1>22 DEF FlushOwn, FlushS, FlushedPointer
  <1>23. ASSUME NEW t \in Threads, SettleOwn(t)
        PROVE  TypeOK'
    BY <1>23 DEF SettleOwn, Settle
  <1>24. ASSUME NEW t \in Threads, Return(t, "return_own")
        PROVE  TypeOK'
    BY <1>24, NoLocalsType DEF Return
  <1>25. ASSUME NEW t \in Threads, ReadCurrent(t)
        PROVE  TypeOK'
    BY <1>25 DEF ReadCurrent
  <1>26. ASSUME NEW t \in Threads, ReadCurrentFlush(t)
        PROVE  TypeOK'
    BY <1>26 DEF ReadCurrentFlush
  <1>27. ASSUME NEW t \in Threads, CheckRound(t)
        PROVE  TypeOK'
    BY <1>27 DEF CheckRound
  <1>28. ASSUME NEW t \in Threads, HelpFlush(t)
        PROVE  TypeOK'
    BY <1>28 DEF HelpFlush, FlushS, FlushedPointer
  <1>29. ASSUME NEW t \in Threads, HelpSettle(t)
        PROVE  TypeOK'
    BY <1>29 DEF HelpSettle, Settle
  <1>30. ASSUME NEW t \in Threads, Return(t, "return_current")
        PROVE  TypeOK'
    BY <1>30, NoLocalsType DEF Return
  <1> QED
    BY <1>1, <1>2, <1>3, <1>4, <1>5, <1>6, <1>7, <1>8, <1>9, <1>10, <1>11, <1>12, <1>13, <1>14, <1>15, <1>16, <1>17, <1>18, <1>19, <1>20, <1>21, <1>22, <1>23, <1>24, <1>25, <1>26, <1>27, <1>28, <1>29, <1>30
       DEF Next, Step, Attempt, Finish

-----------------------------------------------------------------------------
(* The kinds of steps, by what they do to the bits and the indices           *)

Others(t) == \A u \in Threads : u # t => pc'[u] = pc[u] /\ loc'[u] = loc[u]

Moves(t, from, to) == pc[t] = from /\ pc'[t] = to

SameRequests == activate' = activate /\ valid' = valid

(* S, and the bits of every record, stay as they are. *)
Still ==
    /\ S' = S
    /\ \A r \in Recs : rec'[r].index = rec[r].index /\ rec'[r].deactivate = rec[r].deactivate

KeepsAttempt(t) ==
    /\ loc'[t].j = loc[t].j
    /\ loc'[t].old_sp = loc[t].old_sp
    /\ loc'[t].l_activate = loc[t].l_activate

(* A step inside one part of the code. *)
Quiet(t) ==
    /\ Others(t) /\ SameRequests /\ Still /\ KeepsAttempt(t)
    /\ nvm_S' \in {nvm_S, S}
    /\ \/ clean' = clean /\ (pc'[t] = "set_flush" => pc[t] = "set_flush")
       \/ pc[t] = "copy_results" /\ clean' = [clean EXCEPT ![loc[t].lsp] = FALSE]
       \/ pc[t] = "flush_record" /\ clean' = [clean EXCEPT ![loc[t].lsp] = TRUE]
    /\ pc'[t] \in {"set_round", "cas"} => pc[t] \in {"set_flush", "set_round", "cas"}
    /\ pc[t] \in Writing => loc'[t].lsp = loc[t].lsp
    /\ pc[t] \in Reading => loc'[t].diffs = loc[t].diffs
    /\ loc'[t].diffs \subseteq loc[t].diffs
    /\ pc'[t] = "serve" => loc'[t].diffs # {}
    /\ \/ pc'[t] = pc[t]
       \/ {pc[t], pc'[t]} \subseteq {"read_flush", "check_S"}
       \/ {pc[t], pc'[t]} \subseteq Copying
       \/ {pc[t], pc'[t]} \subseteq Serving
       \/ {pc[t], pc'[t]} \subseteq Marked
       \/ {pc[t], pc'[t]} \subseteq Settled

Announces(t) ==
    /\ Others(t) /\ Still /\ nvm_S' = nvm_S /\ clean' = clean /\ activate' = activate
    /\ Moves(t, "idle", "activate")
    /\ loc'[t] = loc[t]
    /\ valid'[t] = TRUE
    /\ \A u \in Threads : u # t => valid'[u] = valid[u]

Toggles(t) ==
    /\ Others(t) /\ Still /\ nvm_S' = nvm_S /\ clean' = clean /\ valid' = valid
    /\ Moves(t, "activate", "read_S")
    /\ loc'[t] = loc[t]
    /\ activate'[t] # activate[t]
    /\ \A u \in Threads : u # t => activate'[u] = activate[u]

Starts(t) ==
    /\ Others(t) /\ Still /\ nvm_S' = nvm_S /\ SameRequests /\ clean' = clean
    /\ Moves(t, "read_S", "read_diffs")
    /\ loc'[t].j = loc[t].j /\ loc'[t].old_sp = S
    /\ loc'[t].l_activate = loc[t].l_activate /\ loc'[t].diffs = loc[t].diffs

Looks(t) ==
    /\ Others(t) /\ Still /\ nvm_S' = nvm_S /\ SameRequests /\ clean' = clean
    /\ KeepsAttempt(t)
    /\ Moves(t, "read_diffs", "read_flush")
    /\ loc'[t].diffs = IF rec[loc[t].old_sp.index].deactivate[t] # activate[t]
                       THEN {t} ELSE {}

GoesOn(t) ==
    /\ Others(t) /\ Still /\ nvm_S' = nvm_S /\ SameRequests /\ clean' = clean
    /\ \/ Moves(t, "check_S", "copy") /\ loc[t].diffs # {}
       \/ Moves(t, "check_copy", "read_activate")
    /\ loc[t].old_sp = S
    /\ loc'[t] = loc[t]

(* An attempt ends: it was overtaken, or t has been served. *)
Leaves(t) ==
    /\ Others(t) /\ Still /\ nvm_S' = nvm_S /\ SameRequests /\ clean' = clean
    /\ pc[t] \in InAttempt
    /\ \/ /\ loc[t].old_sp # S
          /\ pc'[t] = IF loc[t].j = 0 THEN "read_S" ELSE "read_current"
          /\ loc'[t] = [NoLocals EXCEPT !.j = 1 - loc[t].j]
       \/ /\ loc[t].old_sp = S
          /\ Moves(t, "check_S", "read_current")
          /\ loc[t].diffs = {}
          /\ loc'[t] = NoLocals

Copies(t) ==
    /\ Others(t) /\ S' = S /\ nvm_S' = nvm_S /\ SameRequests
    /\ Moves(t, "copy", "copy_results")
    /\ KeepsAttempt(t) /\ loc'[t].diffs = {}
    /\ loc'[t].lsp = LocalIndex(t, loc[t].old_sp.index)
    /\ clean' = [clean EXCEPT ![loc'[t].lsp] = FALSE]
    /\ \A r \in Recs :
          /\ rec'[r].index = rec[IF r = loc'[t].lsp THEN loc[t].old_sp.index ELSE r].index
          /\ rec'[r].deactivate =
                 rec[IF r = loc'[t].lsp THEN loc[t].old_sp.index ELSE r].deactivate

ReadsBits(t) ==
    /\ Others(t) /\ Still /\ nvm_S' = nvm_S /\ SameRequests /\ clean' = clean
    /\ Moves(t, "read_activate", "serve_own")
    /\ loc'[t].j = loc[t].j /\ loc'[t].old_sp = loc[t].old_sp
    /\ loc'[t].lsp = loc[t].lsp
    /\ loc'[t].l_activate = activate
    /\ \A k \in loc'[t].diffs : rec[loc[t].lsp].deactivate[k] # activate[k]

Marks(t) ==
    /\ Others(t) /\ S' = S /\ nvm_S' = nvm_S /\ SameRequests /\ clean' = clean
    /\ Moves(t, "scan", "check_publish")
    /\ loc'[t] = loc[t]
    /\ \A r \in Recs :
          /\ rec'[r].index = IF r = loc[t].lsp THEN Flipped(rec[r].index, t)
                             ELSE rec[r].index
          /\ rec'[r].deactivate = IF r = loc[t].lsp THEN loc[t].l_activate
                                  ELSE rec[r].deactivate

Publishes(t) ==
    /\ Others(t) /\ rec' = rec /\ nvm_S' = nvm_S /\ SameRequests /\ clean' = clean
    /\ Moves(t, "cas", "flush_S")
    /\ loc[t].old_sp = S
    /\ S' = [index |-> loc[t].lsp, seq |-> NextSeq(S.seq)]
    /\ loc'[t] = loc[t]

Flushes(t) ==
    /\ Others(t) /\ Still /\ nvm_S' = S /\ SameRequests /\ clean' = clean
    /\ Moves(t, "flush_S", "settle")
    /\ loc'[t] = loc[t]

Returns(t) ==
    /\ Others(t) /\ Still /\ nvm_S' = nvm_S /\ SameRequests /\ clean' = clean
    /\ pc[t] \in Settled /\ pc'[t] = "idle"
    /\ loc'[t] = NoLocals

SomeKind(t) ==
    \/ Quiet(t) \/ Announces(t) \/ Toggles(t) \/ Starts(t) \/ Looks(t) \/ GoesOn(t)
    \/ Leaves(t) \/ Copies(t) \/ ReadsBits(t) \/ Marks(t) \/ Publishes(t) \/ Flushes(t)
    \/ Returns(t)

(* The attempt ends when S has changed. *)
LEMMA RetryLeaves ==
    ASSUME TypeOK, NEW t \in Threads, Retry(t)
    PROVE  /\ \A u \in Threads : u # t => pc'[u] = pc[u] /\ loc'[u] = loc[u]
           /\ pc'[t] = IF loc[t].j = 0 THEN "read_S" ELSE "read_current"
           /\ loc'[t] = [NoLocals EXCEPT !.j = 1 - loc[t].j]
  <1> USE DEF TypeOK, Goto, Attempts
  <1>1. CASE loc[t].j = 0
    BY <1>1 DEF Retry
  <1>2. CASE loc[t].j = 1
    BY <1>2 DEF Retry
  <1> QED
    BY <1>1, <1>2, Reads

(* Every step is of one of the kinds. *)
LEMMA StepKinds ==
    ASSUME TypeInv, CalledInv, OwnInv, [Next]_vars
    PROVE  \E t \in Threads : SomeKind(t)
  <1> TypeOK
    BY DEF TypeInv
  <1> USE RecFacts, Reads
      DEF TypeOK, At, Goto, Local, requestVars, flushVars, recordVars, Others, Moves,
          SameRequests, Still, KeepsAttempt, Serving, Marked, Copying, Settled,
          Finishing, Reading, Writing
  <1>1. CASE UNCHANGED vars
    BY <1>1 DEF vars, SomeKind, Quiet, TypeInv, OthersLeft
  <1>2. CASE Evict
    BY <1>2 DEF Evict, SomeKind, Quiet, TypeInv, OthersLeft
  <1>3. ASSUME NEW t \in Threads, NEW a \in Args, WriteRequest(t, a)
        PROVE  Announces(t)
    BY <1>3 DEF WriteRequest, Announces
  <1>4. ASSUME NEW t \in Threads, ToggleActivate(t)
        PROVE  Toggles(t)
    <2>1. activate' = [activate EXCEPT ![t] = 1 - activate[t]]
      BY <1>4 DEF ToggleActivate
    <2>2. activate'[t] = 1 - activate[t]
      BY <2>1 DEF Bits
    <2>3. \A u \in Threads : u # t => activate'[u] = activate[u]
      BY <2>1 DEF Bits
    <2>4. activate'[t] # activate[t]
      <3>1. activate[t] \in {0, 1}
        BY DEF Bits
      <3> HIDE DEF TypeOK
      <3> QED
        BY <2>2, <3>1, OtherBit
    <2> QED
      BY <1>4, <2>3, <2>4 DEF ToggleActivate, Toggles
  <1>5. ASSUME NEW t \in Threads, ReadS(t)
        PROVE  Starts(t)
    BY <1>5 DEF ReadS, Starts, Locals
  <1>6. ASSUME NEW t \in Threads, ReadDiffs(t)
        PROVE  Looks(t)
    BY <1>6 DEF ReadDiffs, Looks, Locals
  <1>7. ASSUME NEW t \in Threads, ReadFlush(t)
        PROVE  Quiet(t)
    BY <1>7 DEF ReadFlush, Quiet, Locals
  <1>8. ASSUME NEW t \in Threads, CheckS(t)
        PROVE  Leaves(t) \/ GoesOn(t)
    BY <1>8, RetryLeaves DEF CheckS, Unchanged_S, Break, Leaves, GoesOn, InAttempt
  <1>9. ASSUME NEW t \in Threads, CopyState(t)
        PROVE  Copies(t)
    BY <1>9, LocalIndexType DEF CopyState, Copies, Locals, Records
  <1>10. ASSUME NEW t \in Threads, CopyResults(t)
        PROVE  Quiet(t)
    BY <1>10 DEF CopyResults, Quiet, Records
  <1>11. ASSUME NEW t \in Threads, CheckCopy(t)
        PROVE  Leaves(t) \/ GoesOn(t)
    BY <1>11, RetryLeaves DEF CheckCopy, Unchanged_S, Leaves, GoesOn, InAttempt
  <1>12. ASSUME NEW t \in Threads, ReadActivate(t)
        PROVE  ReadsBits(t)
    <2> DEFINE diffs == {k \in Threads : rec[loc[t].lsp].deactivate[k] # activate[k]}
    <2>1. t \in diffs
      BY <1>12 DEF ReadActivate, OwnInv
    <2>2. /\ loc' = [loc EXCEPT ![t].diffs = diffs, ![t].l_activate = activate]
          /\ pc' = [pc EXCEPT ![t] = "serve_own"]
      BY <1>12, <2>1 DEF ReadActivate
    <2> HIDE DEF diffs
    <2>3. /\ loc'[t].j = loc[t].j /\ loc'[t].old_sp = loc[t].old_sp
          /\ loc'[t].lsp = loc[t].lsp
          /\ loc'[t].l_activate = activate /\ loc'[t].diffs = diffs
      BY <2>2 DEF Locals
    <2>4. \A k \in loc'[t].diffs : rec[loc[t].lsp].deactivate[k] # activate[k]
      BY <2>3 DEF diffs
    <2>5. /\ pc[t] = "read_activate" /\ pc'[t] = "serve_own" /\ Others(t)
      BY <1>12, <2>2 DEF ReadActivate, Others
    <2>6. /\ S' = S /\ nvm_S' = nvm_S /\ rec' = rec /\ clean' = clean
          /\ activate' = activate /\ valid' = valid
      BY <1>12 DEF ReadActivate
    <2> QED
      BY <2>3, <2>4, <2>5, <2>6 DEF ReadsBits, Still, Moves, SameRequests
  <1>13. ASSUME NEW t \in Threads, ServeOwn(t)
        PROVE  Quiet(t)
    <2>1. \E st, v :
             rec' = [rec EXCEPT ![loc[t].lsp].st = st, ![loc[t].lsp].return_val[t] = v]
      BY <1>13 DEF ServeOwn, Served
    <2>2. /\ pc[t] = "serve_own" /\ pc' = [pc EXCEPT ![t] = "scan"]
          /\ loc' = [loc EXCEPT ![t].diffs = @ \ {t}, ![t].diffs_copy = loc[t].diffs]
          /\ UNCHANGED <<requestVars, S, nvm_S, clean, flushVars, out>>
      BY <1>13 DEF ServeOwn
    <2> QED
      BY <2>1, <2>2 DEF Quiet, Locals, Records
  <1>14. ASSUME NEW t \in Threads, LoadArg(t)
        PROVE  Quiet(t)
    <2> DEFINE k == Min(loc[t].diffs)
    <2>1. k \in loc[t].diffs /\ k \in Threads
      BY <1>14, MinIsMember DEF LoadArg
    <2>2. valid[k]
      BY <2>1 DEF CalledInv
    <2>3. /\ rec' = [rec EXCEPT ![loc[t].lsp].return_val[k] = AsVal(arg[k])]
          /\ pc[t] = "scan" /\ pc' = [pc EXCEPT ![t] = "serve"]
          /\ UNCHANGED <<requestVars, S, nvm_S, clean, flushVars, loc, out>>
      BY <1>14, <2>2 DEF LoadArg
    <2>4. loc[t].diffs # {}
      BY <2>1
    <2> HIDE DEF k
    <2> QED
      BY <2>3, <2>4, SMTT(40) DEF Quiet, Records
  <1>15. ASSUME NEW t \in Threads, ServeOther(t)
        PROVE  Quiet(t)
    <2> DEFINE k == Min(loc[t].diffs)
    <2>1. \E st, v :
             rec' = [rec EXCEPT ![loc[t].lsp].st = st, ![loc[t].lsp].return_val[k] = v]
      BY <1>15 DEF ServeOther, Served
    <2>2. /\ pc[t] = "serve" /\ pc' = [pc EXCEPT ![t] = "scan"]
          /\ loc' = [loc EXCEPT ![t].diffs = @ \ {k}]
          /\ UNCHANGED <<requestVars, S, nvm_S, clean, flushVars, out>>
      BY <1>15 DEF ServeOther
    <2> HIDE DEF k
    <2> QED
      BY <2>1, <2>2 DEF Quiet, Locals, Records
  <1>16. ASSUME NEW t \in Threads, MarkServed(t)
        PROVE  Marks(t)
    BY <1>16 DEF MarkServed, Marks, Records
  <1>17. ASSUME NEW t \in Threads, CheckPublish(t)
        PROVE  Leaves(t) \/ Quiet(t)
    <2>1. CASE Unchanged_S(t)
      BY <1>17, <2>1 DEF CheckPublish, Quiet
    <2>2. CASE ~Unchanged_S(t)
      BY <1>17, <2>2, RetryLeaves DEF CheckPublish, Unchanged_S, Leaves, InAttempt
    <2> QED
      BY <2>1, <2>2
  <1>18. ASSUME NEW t \in Threads, FlushRecord(t)
        PROVE  Quiet(t)
    BY <1>18 DEF FlushRecord, Flushed, Quiet
  <1>19. ASSUME NEW t \in Threads, SetFlush(t)
        PROVE  Quiet(t)
    BY <1>19 DEF SetFlush, Quiet, Locals
  <1>20. ASSUME NEW t \in Threads, SetRound(t)
        PROVE  Quiet(t)
    BY <1>20 DEF SetRound, Quiet, Locals
  <1>21. ASSUME NEW t \in Threads, Publish(t)
        PROVE  Leaves(t) \/ Publishes(t)
    BY <1>21, RetryLeaves DEF Publish, Unchanged_S, Leaves, Publishes, InAttempt
  <1>22. ASSUME NEW t \in Threads, FlushOwn(t)
        PROVE  Flushes(t)
    BY <1>22 DEF FlushOwn, FlushS, FlushedPointer, Flushes
  <1>23. ASSUME NEW t \in Threads, SettleOwn(t)
        PROVE  Quiet(t)
    BY <1>23 DEF SettleOwn, Settle, Quiet
  <1>24. ASSUME NEW t \in Threads, Return(t, "return_own")
        PROVE  Returns(t)
    BY <1>24 DEF Return, Returns
  <1>25. ASSUME NEW t \in Threads, ReadCurrent(t)
        PROVE  Quiet(t)
    BY <1>25 DEF ReadCurrent, Quiet, Locals
  <1>26. ASSUME NEW t \in Threads, ReadCurrentFlush(t)
        PROVE  Quiet(t)
    BY <1>26 DEF ReadCurrentFlush, Quiet, Locals
  <1>27. ASSUME NEW t \in Threads, CheckRound(t)
        PROVE  Quiet(t)
    BY <1>27 DEF CheckRound, Quiet
  <1>28. ASSUME NEW t \in Threads, HelpFlush(t)
        PROVE  Quiet(t)
    BY <1>28 DEF HelpFlush, FlushS, FlushedPointer, Quiet
  <1>29. ASSUME NEW t \in Threads, HelpSettle(t)
        PROVE  Quiet(t)
    BY <1>29 DEF HelpSettle, Settle, Quiet
  <1>30. ASSUME NEW t \in Threads, Return(t, "return_current")
        PROVE  Returns(t)
    BY <1>30 DEF Return, Returns
  <1> QED
    BY <1>1, <1>2, <1>3, <1>4, <1>5, <1>6, <1>7, <1>8, <1>9, <1>10, <1>11, <1>12, <1>13, <1>14, <1>15, <1>16, <1>17, <1>18, <1>19, <1>20, <1>21, <1>22, <1>23, <1>24, <1>25, <1>26, <1>27, <1>28, <1>29, <1>30
       DEF Next, Step, Attempt, Finish, SomeKind

-----------------------------------------------------------------------------
(* The parts of the invariant, one by one                                    *)

(* A thread serves another one only while there is one left (line 155).      *)
LEMMA OthersLeftStep ==
    ASSUME TypeInv, NEW t \in Threads, SomeKind(t)
    PROVE  OthersLeft'
  <1> SUFFICES ASSUME NEW u \in Threads, pc'[u] = "serve"
               PROVE  loc'[u].diffs # {}
    BY DEF OthersLeft
  <1>1. CASE u # t
    <2>1. pc'[u] = pc[u] /\ loc'[u] = loc[u]
      BY <1>1 DEF SomeKind, Quiet, Announces, Toggles, Starts, Looks, GoesOn, Leaves, Copies,
                  ReadsBits, Marks, Publishes, Flushes, Returns, Others
    <2> QED
      BY <2>1 DEF TypeInv, OthersLeft
  <1>2. CASE u = t
    <2>1. Quiet(t)
      BY <1>2 DEF SomeKind, Announces, Toggles, Starts, Looks, GoesOn, Leaves, Copies,
                  ReadsBits, Marks, Publishes, Flushes, Returns, Moves
    <2> QED
      BY <1>2, <2>1 DEF Quiet
  <1> QED
    BY <1>1, <1>2

(* A thread that has never called takes no step but its first (lines 89-90). *)
LEMMA CalledStep ==
    ASSUME TypeInv, CalledInv, NEW t \in Threads, SomeKind(t)
    PROVE  CalledInv'
  <1> SUFFICES ASSUME NEW k \in Threads, ~valid'[k]
               PROVE  /\ activate'[k] = 0
                      /\ pc'[k] = "idle"
                      /\ \A r \in Recs : rec'[r].deactivate[k] = 0
                      /\ \A u \in Threads : /\ loc'[u].l_activate[k] = 0
                                            /\ k \notin loc'[u].diffs
    BY DEF CalledInv
  <1>a. ~valid[k] /\ (pc[t] # "idle" => k # t)
    <2>1. ~valid[k]
      BY DEF SomeKind, Quiet, Announces, Toggles, Starts, Looks, GoesOn, Leaves, Copies,
             ReadsBits, Marks, Publishes, Flushes, Returns, SameRequests
    <2> QED
      BY <2>1 DEF CalledInv
  <1>b. /\ activate[k] = 0 /\ pc[k] = "idle"
        /\ \A r \in Recs : rec[r].deactivate[k] = 0
        /\ \A u \in Threads : loc[u].l_activate[k] = 0 /\ k \notin loc[u].diffs
    BY <1>a DEF CalledInv
  <1>c. loc[t] \in Locals /\ loc[t].lsp \in Recs /\ loc[t].old_sp.index \in Recs
    BY Reads DEF TypeInv
  <1> USE <1>a, <1>b, <1>c DEF Others, Moves, SameRequests, Still, KeepsAttempt
  <1>1. CASE Quiet(t)
    BY <1>1 DEF Quiet, Copying, Serving, Marked, Settled, Finishing
  <1>2. CASE Announces(t)
    BY <1>2 DEF Announces
  <1>3. CASE Toggles(t)
    BY <1>3 DEF Toggles
  <1>4. CASE Starts(t)
    BY <1>4 DEF Starts
  <1>5. CASE Looks(t)
    BY <1>5 DEF Looks
  <1>6. CASE GoesOn(t)
    BY <1>6 DEF GoesOn
  <1>7. CASE Leaves(t)
    BY <1>7 DEF Leaves, InAttempt, Writing, Reading, NoLocals
  <1>8. CASE Copies(t)
    BY <1>8 DEF Copies
  <1>9. CASE ReadsBits(t)
    BY <1>9 DEF ReadsBits
  <1>10. CASE Marks(t)
    BY <1>10 DEF Marks
  <1>11. CASE Publishes(t)
    BY <1>11 DEF Publishes
  <1>12. CASE Flushes(t)
    BY <1>12 DEF Flushes
  <1>13. CASE Returns(t)
    BY <1>13 DEF Returns, NoLocals, Settled, Finishing
  <1> QED
    BY <1>1, <1>2, <1>3, <1>4, <1>5, <1>6, <1>7, <1>8, <1>9, <1>10, <1>11, <1>12, <1>13
       DEF SomeKind

(* The number of S grows when an attempt publishes, and then only. *)
LEMMA SeqGrows ==
    ASSUME TypeInv, Unwrapped, NEW t \in Threads, SomeKind(t)
    PROVE  /\ S.seq \in Nat
           /\ Publishes(t) => S'.seq = S.seq + 1
           /\ ~Publishes(t) => S' = S
  <1>1. S.seq \in 0 .. SeqRange - 1
    BY DEF TypeInv, TypeOK, Pointers
  <1>2. Publishes(t) => S'.seq = S.seq + 1
    BY <1>1, PWFConstantsAssumption DEF Publishes, NextSeq, Unwrapped
  <1>3. ~Publishes(t) => S' = S
    BY DEF SomeKind, Quiet, Announces, Toggles, Starts, Looks, GoesOn, Leaves, Copies,
           ReadsBits, Marks, Flushes, Returns, Still
  <1> QED
    BY <1>1, <1>2, <1>3

(* Where a thread in an attempt has been the step before. *)
LEMMA AttemptBefore ==
    ASSUME TypeInv, NEW t \in Threads, SomeKind(t), NEW u \in Threads
    PROVE  /\ pc'[u] \in InAttempt =>
                 \/ u = t /\ Starts(t)
                 \/ /\ pc[u] \in InAttempt
                    /\ loc'[u].old_sp = loc[u].old_sp
                    /\ loc'[u].j = loc[u].j
                    /\ ~(u = t /\ Publishes(t))
           /\ pc'[u] \in Writing =>
                 \/ u = t /\ Copies(t)
                 \/ pc[u] \in Writing /\ loc'[u].lsp = loc[u].lsp
           /\ u # t => pc'[u] = pc[u] /\ loc'[u] = loc[u]
           /\ pc[u] \in InAttempt => loc[u].old_sp.seq \in Nat
           /\ loc[u].old_sp.index \in Recs
  <1>1. u # t => pc'[u] = pc[u] /\ loc'[u] = loc[u]
    BY DEF SomeKind, Quiet, Announces, Toggles, Starts, Looks, GoesOn, Leaves, Copies,
           ReadsBits, Marks, Publishes, Flushes, Returns, Others
  <1>2. loc[u].old_sp.seq \in Nat /\ loc[u].old_sp.index \in Recs
    BY Reads DEF TypeInv, Pointers
  <1>3. CASE u # t
    BY <1>1, <1>2, <1>3
  <1>4. CASE u = t
    <2> USE <1>4 DEF Moves, KeepsAttempt, InAttempt, Reading, Writing
    <2>1. CASE Quiet(t)
      BY <1>2, <2>1 DEF Quiet, Publishes, Copying, Serving, Marked, Settled, Finishing
    <2>2. CASE Announces(t) \/ Toggles(t) \/ Flushes(t) \/ Returns(t) \/ Publishes(t)
      BY <1>2, <2>2 DEF Announces, Toggles, Flushes, Returns, Publishes
    <2>3. CASE Starts(t)
      BY <1>2, <2>3 DEF Starts
    <2>4. CASE Looks(t) \/ GoesOn(t)
      BY <1>2, <2>4 DEF Looks, GoesOn, Publishes
    <2>5. CASE Leaves(t)
      BY <1>2, <2>5 DEF Leaves
    <2>6. CASE Copies(t) \/ ReadsBits(t) \/ Marks(t)
      BY <1>2, <2>6 DEF Copies, ReadsBits, Marks, Publishes
    <2> QED
      BY <2>1, <2>2, <2>3, <2>4, <2>5, <2>6 DEF SomeKind
  <1> QED
    BY <1>3, <1>4

(* Nobody holds a number that is yet to come (line 171). *)
LEMMA SeqStep ==
    ASSUME TypeInv, SeqInv, Unwrapped, NEW t \in Threads, SomeKind(t)
    PROVE  SeqInv'
  <1> SUFFICES ASSUME NEW u \in Threads, pc'[u] \in InAttempt
               PROVE  /\ loc'[u].old_sp.seq <= S'.seq
                      /\ loc'[u].old_sp.seq = S'.seq => loc'[u].old_sp = S'
    BY DEF SeqInv
  <1>1. CASE u = t /\ Starts(t)
    BY <1>1, SeqGrows DEF Starts, Still
  <1>2. CASE ~(u = t /\ Starts(t))
    <2>1. /\ pc[u] \in InAttempt /\ loc'[u].old_sp = loc[u].old_sp
          /\ loc[u].old_sp.seq \in Nat
      BY <1>2, AttemptBefore
    <2> QED
      BY <2>1, SeqGrows DEF SeqInv
  <1> QED
    BY <1>1, <1>2

(* The record a thread copies to is its next one: the index it finds in the  *)
(* record it copies is the current one (line 123).                           *)
LEMMA CopyTarget ==
    ASSUME TypeInv, FreeInv, IndexInv, NEW t \in Threads, Copies(t)
    PROVE  loc'[t].lsp = NextOf(t)
  <1>1. pc[t] \in InAttempt /\ loc[t].old_sp.seq <= loc[t].old_sp.seq
    <2>1. loc[t].old_sp.seq \in Nat
      BY Reads DEF TypeInv, Pointers
    <2> QED
      BY <2>1 DEF Copies, Moves, InAttempt, Reading
  <1>2. rec[loc[t].old_sp.index].index[t] = rec[S.index].index[t]
    BY <1>1 DEF IndexInv
  <1> QED
    BY <1>2 DEF Copies, LocalIndex, NextOf

(* The bits of a record change only while its owner writes it. *)
LEMMA RecordStays ==
    ASSUME TypeInv, FreeInv, IndexInv, NEW t \in Threads, SomeKind(t),
           NEW r \in Recs, r # NextOf(t)
    PROVE  rec'[r].index = rec[r].index /\ rec'[r].deactivate = rec[r].deactivate
  <1>1. CASE Copies(t)
    BY <1>1, CopyTarget DEF Copies
  <1>2. CASE Marks(t)
    <2>1. loc[t].lsp = NextOf(t)
      BY <1>2 DEF FreeInv, Marks, Moves, Writing
    <2> QED
      BY <1>2, <2>1 DEF Marks
  <1> QED
    BY <1>1, <1>2
       DEF SomeKind, Quiet, Announces, Toggles, Starts, Looks, GoesOn, Leaves,
           ReadsBits, Publishes, Flushes, Returns, Still

(* The indices of the current record: publishing flips the one of its thread.*)
LEMMA NextChanges ==
    ASSUME TypeInv, FreeInv, IndexInv, CopyInv, NEW t \in Threads, SomeKind(t)
    PROVE  /\ ~Publishes(t) => /\ rec'[S'.index].index = rec[S.index].index
                               /\ rec'[S'.index].deactivate = rec[S.index].deactivate
           /\ \A u \in Threads : u # t \/ ~Publishes(t) =>
                 /\ rec'[S'.index].index[u] = rec[S.index].index[u]
                 /\ NextOf(u)' = NextOf(u)
           /\ Publishes(t) => S'.index = NextOf(t) /\ NextOf(t)' # NextOf(t)
  <1> S.index \in Recs /\ rec[S.index].index \in Bits /\ loc[t].lsp \in Recs
    BY Reads DEF TypeInv
  <1>1. CASE ~Publishes(t)
    <2>1. S' = S
      BY <1>1 DEF SomeKind, Quiet, Announces, Toggles, Starts, Looks, GoesOn, Leaves, Copies,
           ReadsBits, Marks, Flushes, Returns, Still
    <2>2. S.index # NextOf(t)
      BY DEF FreeInv
    <2> QED
      BY <1>1, <2>1, <2>2, RecordStays DEF NextOf
  <1>2. CASE Publishes(t)
    <2>1. /\ loc[t].lsp = NextOf(t)
          /\ rec[loc[t].lsp].index = Flipped(rec[S.index].index, t)
      BY <1>2 DEF Publishes, Moves, FreeInv, CopyInv, Writing, Marked
    <2>2. S'.index = loc[t].lsp /\ rec' = rec
      BY <1>2 DEF Publishes
    <2>3. /\ \A u \in Threads : u # t => Flipped(rec[S.index].index, t)[u] = rec[S.index].index[u]
          /\ Flipped(rec[S.index].index, t)[t] # rec[S.index].index[t]
      <3>1. Flipped(rec[S.index].index, t)[t] = 1 - rec[S.index].index[t]
        BY DEF Flipped, Bits
      <3>2. rec[S.index].index[t] \in {0, 1}
        BY DEF Bits
      <3> QED
        BY <3>1, <3>2, OtherBit DEF Flipped, Bits
    <2> QED
      BY <1>2, <2>1, <2>2, <2>3 DEF NextOf
  <1> QED
    BY <1>1, <1>2

(* The record a thread will write next stays free (lines 123-197): another   *)
(* one publishes its own records only, and a thread that has published makes *)
(* S durable before its older record is the next one it writes.              *)
LEMMA FreeStep ==
    ASSUME TypeInv, SeqInv, FreeInv, IndexInv, CopyInv, Unwrapped,
           NEW t \in Threads, SomeKind(t)
    PROVE  FreeInv'
  <1>1. ASSUME NEW u \in Threads
        PROVE  S'.index # NextOf(u)'
    <2>1. CASE Publishes(t) /\ u = t
      BY <2>1, NextChanges
    <2>2. CASE Publishes(t) /\ u # t
      BY <2>2, NextChanges DEF NextOf
    <2>3. CASE ~Publishes(t)
      BY <2>3, SeqGrows, NextChanges DEF FreeInv
    <2> QED
      BY <2>1, <2>2, <2>3
  <1>2. ASSUME NEW u \in Threads, pc'[u] \in Writing
        PROVE  loc'[u].lsp = NextOf(u)'
    <2>1. CASE u = t /\ Copies(t)
      <3>1. ~Publishes(t)
        BY <2>1 DEF Copies, Publishes, Moves
      <3> QED
        BY <2>1, <3>1, CopyTarget, NextChanges
    <2>2. CASE ~(u = t /\ Copies(t))
      <3>1. pc[u] \in Writing /\ loc'[u].lsp = loc[u].lsp
        BY <1>2, <2>2, AttemptBefore
      <3>2. u # t \/ ~Publishes(t)
        BY <1>2 DEF Publishes, Moves, Writing
      <3> QED
        BY <3>1, <3>2, NextChanges DEF FreeInv
    <2> QED
      BY <2>1, <2>2
  <1>3. ASSUME NEW u \in Threads, pc'[u] # "flush_S", nvm_S' # NoRec
        PROVE  nvm_S'.index # NextOf(u)'
    <2>1. CASE nvm_S' = S /\ ~Publishes(t)
      BY <1>1, <2>1, SeqGrows
    <2>2. CASE nvm_S' # S \/ Publishes(t)
      <3>1. nvm_S' = nvm_S /\ (u # t \/ ~Publishes(t)) /\ pc[u] # "flush_S"
        <4>1. nvm_S' = nvm_S /\ ~Flushes(t)
          BY <2>2 DEF SomeKind, Quiet, Announces, Toggles, Starts, Looks, GoesOn, Leaves,
                      Copies, ReadsBits, Marks, Publishes, Flushes, Returns, Moves
        <4>2. u # t \/ ~Publishes(t)
          BY <1>3 DEF Publishes, Moves
        <4>3. CASE u = t
          BY <1>3, <4>1, <4>3
             DEF SomeKind, Quiet, Announces, Toggles, Starts, Looks, GoesOn, Leaves,
                 Copies, ReadsBits, Marks, Publishes, Returns, Moves, InAttempt, Reading,
                 Writing, Settled, Finishing, Copying, Serving, Marked
        <4>4. CASE u # t
          BY <1>3, <4>1, <4>2, <4>4, AttemptBefore
        <4> QED
          BY <4>1, <4>2, <4>3, <4>4
      <3> QED
        BY <1>3, <3>1, NextChanges DEF FreeInv
    <2> QED
      BY <2>1, <2>2
  <1>4. ASSUME NEW o \in Threads, NEW p \in Threads,
               pc'[o] \in InAttempt, pc'[p] \in InAttempt,
               loc'[o].old_sp.index = NextOf(p)'
        PROVE  loc'[o].old_sp.seq < loc'[p].old_sp.seq
    <2>1. NextOf(p)' = NextOf(p)
      BY <1>4, NextChanges DEF Publishes, Moves, InAttempt, Reading, Writing
    <2>2. CASE o = t /\ Starts(t)
      <3>1. loc'[o].old_sp = S
        BY <2>2 DEF Starts
      <3> QED
        BY <1>4, <2>1, <3>1 DEF FreeInv
    <2>3. CASE ~(o = t /\ Starts(t)) /\ p = t /\ Starts(t)
      <3>1. /\ pc[o] \in InAttempt /\ loc'[o].old_sp = loc[o].old_sp
            /\ loc'[p].old_sp = S /\ loc[o].old_sp.seq \in Nat
        BY <1>4, <2>3, AttemptBefore DEF Starts
      <3>2. loc[o].old_sp # S
        BY <1>4, <2>1, <3>1 DEF FreeInv
      <3> QED
        BY <3>1, <3>2, SeqGrows DEF SeqInv
    <2>4. CASE ~(o = t /\ Starts(t)) /\ ~(p = t /\ Starts(t))
      BY <1>4, <2>1, <2>4, AttemptBefore DEF FreeInv
    <2> QED
      BY <2>2, <2>3, <2>4
  <1> QED
    BY <1>1, <1>2, <1>3, <1>4 DEF FreeInv

(* A record that is being rewritten gets the indices of a record that is     *)
(* copied later still, and its owner's own index only after its attempt has  *)
(* begun (lines 123-125, 169).                                               *)
LEMMA IndexStep ==
    ASSUME TypeInv, SeqInv, FreeInv, IndexInv, CopyInv, Unwrapped,
           NEW t \in Threads, SomeKind(t)
    PROVE  IndexInv'
  <1> SUFFICES ASSUME NEW o \in Threads, NEW p \in Threads,
                      pc'[o] \in InAttempt, pc'[p] \in InAttempt,
                      loc'[p].old_sp.seq <= loc'[o].old_sp.seq
               PROVE  rec'[loc'[o].old_sp.index].index[p] = rec'[S'.index].index[p]
    BY DEF IndexInv
  <1>1. rec'[S'.index].index[p] = rec[S.index].index[p]
    <2>1. p # t \/ ~Publishes(t)
      BY AttemptBefore DEF Publishes, Moves, InAttempt, Reading, Writing
    <2> QED
      BY <2>1, NextChanges
  <1>2. CASE o = t /\ Starts(t)
    <2>1. loc'[o].old_sp = S /\ ~Publishes(t)
      BY <1>2 DEF Starts, Publishes, Moves
    <2> QED
      BY <2>1, SeqGrows
  <1>3. CASE ~(o = t /\ Starts(t)) /\ p = t /\ Starts(t)
    <2>1. /\ pc[o] \in InAttempt /\ loc'[o].old_sp = loc[o].old_sp
          /\ loc'[p].old_sp = S /\ loc[o].old_sp.seq \in Nat
      BY <1>3, AttemptBefore DEF Starts
    <2>2. loc[o].old_sp = S
      BY <2>1, SeqGrows DEF SeqInv
    <2> QED
      BY <1>3, <2>1, <2>2 DEF Starts, Still
  <1>4. CASE ~(o = t /\ Starts(t)) /\ ~(p = t /\ Starts(t))
    <2> DEFINE r == loc[o].old_sp.index
    <2>1. /\ pc[o] \in InAttempt /\ loc'[o].old_sp = loc[o].old_sp
          /\ pc[p] \in InAttempt /\ loc'[p].old_sp = loc[p].old_sp
          /\ loc[o].old_sp.seq \in Nat /\ loc[p].old_sp.seq \in Nat /\ r \in Recs
      BY <1>4, AttemptBefore
    <2>2. rec[r].index[p] = rec[S.index].index[p]
      BY <2>1 DEF IndexInv
    <2>3. CASE Copies(t) /\ r = NextOf(t)
      <3>1. pc[t] \in InAttempt /\ loc[t].old_sp.seq \in Nat
        BY <2>3, AttemptBefore DEF Copies, Moves, InAttempt, Reading
      <3>2. loc[o].old_sp.seq < loc[t].old_sp.seq
        BY <2>1, <2>3, <3>1 DEF FreeInv
      <3>3. rec[loc[t].old_sp.index].index[p] = rec[S.index].index[p]
        BY <2>1, <3>1, <3>2 DEF IndexInv
      <3>4. rec'[r].index = rec[loc[t].old_sp.index].index
        BY <2>1, <2>3, CopyTarget DEF Copies
      <3> QED
        BY <1>1, <2>1, <3>3, <3>4
    <2>4. CASE Marks(t) /\ r = NextOf(t)
      <3>1. pc[t] \in InAttempt /\ loc[t].old_sp.seq \in Nat /\ loc[t].lsp = NextOf(t)
        BY <2>4, AttemptBefore DEF Marks, Moves, InAttempt, Writing, FreeInv
      <3>2. loc[o].old_sp.seq < loc[t].old_sp.seq
        BY <2>1, <2>4, <3>1 DEF FreeInv
      <3>3. p # t
        BY <2>1, <3>1, <3>2
      <3>4. rec'[r].index = Flipped(rec[r].index, t)
        BY <2>1, <2>4, <3>1 DEF Marks
      <3>5. rec[r].index \in Bits
        BY <2>1, Reads DEF TypeInv
      <3>6. rec'[r].index[p] = rec[r].index[p]
        BY <3>3, <3>4, <3>5 DEF Flipped, Bits
      <3> QED
        BY <1>1, <2>1, <2>2, <3>6
    <2>5. CASE r # NextOf(t)
      BY <1>1, <2>1, <2>2, <2>5, RecordStays
    <2>6. CASE ~Copies(t) /\ ~Marks(t)
      <3>1. rec'[r].index = rec[r].index
        BY <2>1, <2>6 DEF SomeKind, Quiet, Announces, Toggles, Starts, Looks, GoesOn, Leaves,
                      ReadsBits, Publishes, Flushes, Returns, Still
      <3> QED
        BY <1>1, <2>1, <2>2, <3>1
    <2> QED
      BY <2>3, <2>4, <2>5, <2>6
  <1> QED
    BY <1>2, <1>3, <1>4

(* A copy of the current record stays one while S stays the same (lines      *)
(* 126, 174 and 197 see to it).                                              *)
LEMMA CopyStep ==
    ASSUME TypeInv, SeqInv, FreeInv, IndexInv, CopyInv, Unwrapped,
           NEW t \in Threads, SomeKind(t)
    PROVE  CopyInv'
  <1> SUFFICES ASSUME NEW u \in Threads, pc'[u] \in Writing
               PROVE  /\ loc'[u].old_sp = S' =>
                            rec'[loc'[u].lsp].index =
                               IF pc'[u] \in Marked THEN Flipped(rec'[S'.index].index, u)
                               ELSE rec'[S'.index].index
                      /\ loc'[u].old_sp = S' /\ pc'[u] \notin Marked =>
                            rec'[loc'[u].lsp].deactivate = rec'[S'.index].deactivate
                      /\ pc'[u] \in Marked =>
                            rec'[loc'[u].lsp].deactivate = loc'[u].l_activate
    BY DEF CopyInv
  <1>0. pc'[u] \in InAttempt
    BY DEF InAttempt
  <1>1. CASE u = t /\ Copies(t)
    <2>1. ~Publishes(t) /\ pc'[u] \notin Marked /\ loc'[t].lsp \in Recs
      BY <1>1, LocalIndexType, Reads DEF TypeInv, Copies, Publishes, Moves, Marked
    <2>2. /\ S' = S
          /\ rec'[S.index].index = rec[S.index].index
          /\ rec'[S.index].deactivate = rec[S.index].deactivate
      BY <2>1, SeqGrows, NextChanges
    <2> QED
      BY <1>1, <2>1, <2>2 DEF Copies, KeepsAttempt
  <1>2. CASE ~(u = t /\ Copies(t))
    <2>1. /\ pc[u] \in Writing /\ loc'[u].lsp = loc[u].lsp
          /\ loc'[u].old_sp = loc[u].old_sp
          /\ loc[u].lsp = NextOf(u) /\ loc[u].lsp \in Recs
          /\ loc[u].old_sp.seq \in Nat /\ loc[u].old_sp.seq <= S.seq
      <3>1. pc[u] \in Writing /\ loc'[u].lsp = loc[u].lsp
        BY <1>2, AttemptBefore
      <3>2. ~Starts(t) \/ u # t
        BY <3>1 DEF Starts, Moves, Writing
      <3> QED
        BY <1>0, <3>1, <3>2, AttemptBefore, Reads DEF TypeInv, FreeInv, SeqInv, InAttempt
    <2>2. CASE u = t /\ Marks(t)
      <3>1. S' = S /\ pc[t] \notin Marked /\ pc'[t] \in Marked
        BY <2>2 DEF Marks, Moves, Marked
      <3>2. rec'[S.index].index = rec[S.index].index
        BY <2>2, <3>1, NextChanges DEF Marks, Publishes, Moves
      <3> QED
        BY <2>1, <2>2, <3>1, <3>2 DEF Marks, CopyInv
    <2>3. CASE ~(u = t /\ Marks(t))
      <3>1. /\ rec'[loc[u].lsp].index = rec[loc[u].lsp].index
            /\ rec'[loc[u].lsp].deactivate = rec[loc[u].lsp].deactivate
        <4>1. CASE u # t
          <5>1. loc[u].lsp # NextOf(t)
            BY <2>1, <4>1 DEF NextOf
          <5> QED
            BY <2>1, <5>1, RecordStays
        <4>2. CASE u = t
          BY <1>2, <2>1, <2>3, <4>2
             DEF SomeKind, Quiet, Announces, Toggles, Starts, Looks, GoesOn, Leaves,
                 ReadsBits, Publishes, Flushes, Returns, Still
        <4> QED
          BY <4>1, <4>2
      <3>2. /\ pc'[u] \in Marked <=> pc[u] \in Marked
            /\ pc'[u] \in Marked => loc'[u].l_activate = loc[u].l_activate
        <4>1. CASE u # t
          BY <4>1, AttemptBefore
        <4>2. CASE u = t
          BY <1>2, <2>1, <2>3, <4>2
             DEF SomeKind, Quiet, Announces, Toggles, Starts, Looks, GoesOn, Leaves, Copies,
                 ReadsBits, Marks, Publishes, Flushes, Returns, Moves, KeepsAttempt,
                 Marked, Writing, Reading, Copying, Serving, Settled, Finishing, InAttempt
        <4> QED
          BY <4>1, <4>2
      <3>3. CASE Publishes(t)
        <4>1. loc[u].old_sp # S'
          BY <2>1, <3>3, SeqGrows
        <4> QED
          BY <2>1, <3>1, <3>2, <4>1 DEF CopyInv
      <3>4. CASE ~Publishes(t)
        BY <2>1, <3>1, <3>2, <3>4, SeqGrows, NextChanges DEF CopyInv
      <3> QED
        BY <3>3, <3>4
    <2> QED
      BY <2>2, <2>3
  <1> QED
    BY <1>1, <1>2

(* The record a thread is about to publish was flushed (line 176), and the   *)
(* current and the durable one are written by nobody.                        *)
LEMMA CleanStep ==
    ASSUME TypeInv, SeqInv, FreeInv, IndexInv, CopyInv, CleanInv,
           NEW t \in Threads, SomeKind(t)
    PROVE  CleanInv'
  <1> DEFINE Flushing == {"set_flush", "set_round", "cas"}
  <1>1. /\ S.index \in PoolRecs => clean[S.index]
        /\ nvm_S # NoRec /\ nvm_S.index \in PoolRecs => clean[nvm_S.index]
        /\ \A u \in Threads : pc[u] \in Flushing => clean[loc[u].lsp]
    BY DEF CleanInv, ImageComplete
  <1>2. /\ clean \in [Recs -> BOOLEAN] /\ PoolRecs \subseteq Recs
        /\ \A u \in Threads : loc[u].lsp \in Recs
    BY Reads, RecFacts DEF TypeInv, TypeOK
  <1>3. \A u \in Threads : pc[u] \in Writing => loc[u].lsp = NextOf(u)
    BY DEF FreeInv
  <1>4. CASE Publishes(t)
    <2>1. clean[loc[t].lsp]
      BY <1>1, <1>4 DEF Publishes, Moves
    <2> QED
      BY <1>1, <1>4, <2>1
         DEF Publishes, Moves, Others, CleanInv, ImageComplete
  <1>5. CASE ~Publishes(t)
    <2>1. S' = S /\ nvm_S' \in {nvm_S, S}
      BY <1>5 DEF SomeKind, Quiet, Announces, Toggles, Starts, Looks, GoesOn, Leaves, Copies,
                  ReadsBits, Marks, Flushes, Returns, Still
    <2>2. ASSUME NEW r \in Recs, r # NextOf(t) \/ pc[t] \notin Writing \union {"copy"},
                 clean[r]
          PROVE  clean'[r]
      <3>1. CASE Copies(t)
        BY <1>2, <2>2, <3>1, CopyTarget DEF Copies, Moves
      <3>2. CASE Quiet(t)
        BY <1>2, <1>3, <2>2, <3>2 DEF Quiet, Writing
      <3> QED
        BY <2>2, <3>1, <3>2, <1>5
           DEF SomeKind, Announces, Toggles, Starts, Looks, GoesOn, Leaves,
               ReadsBits, Marks, Flushes, Returns
    <2>3. S.index # NextOf(t)
      BY DEF FreeInv
    <2>4. nvm_S # NoRec /\ pc[t] \in Writing \union {"copy"} => nvm_S.index # NextOf(t)
      BY DEF FreeInv, Writing
    <2>5. ASSUME NEW u \in Threads, pc'[u] \in Flushing
          PROVE  clean'[loc'[u].lsp]
      <3>1. CASE u # t
        <4>1. pc[u] \in Flushing /\ loc'[u].lsp = loc[u].lsp
          BY <2>5, <3>1, AttemptBefore
        <4>2. loc[u].lsp # NextOf(t)
          BY <1>3, <3>1, <4>1 DEF NextOf, Writing
        <4> QED
          BY <1>1, <1>2, <2>2, <4>1, <4>2
      <3>2. CASE u = t
        <4>1. Quiet(t)
          BY <1>5, <2>5, <3>2
             DEF SomeKind, Announces, Toggles, Starts, Looks, GoesOn, Leaves, Copies,
                 ReadsBits, Marks, Flushes, Returns, Moves
        <4> QED
          BY <1>1, <1>2, <2>5, <3>2, <4>1 DEF Quiet, Copying, Serving, Marked, Settled, Finishing, Writing
      <3> QED
        BY <3>1, <3>2
    <2> QED
      BY <1>1, <1>2, <2>1, <2>2, <2>3, <2>4, <2>5 DEF CleanInv, ImageComplete
  <1> QED
    BY <1>4, <1>5

(* Whether an operation has been applied changes when a session is published,*)
(* or its thread announces another one.                                      *)
LEMMA EffectStays ==
    ASSUME TypeInv, FreeInv, IndexInv, CopyInv, Unwrapped, NEW t \in Threads, SomeKind(t),
           ~Publishes(t), NEW u \in Threads, u # t \/ ~Toggles(t)
    PROVE  /\ HasTakenEffect(u)' <=> HasTakenEffect(u)
           /\ activate'[u] = activate[u]
  <1>1. activate'[u] = activate[u]
    BY DEF SomeKind, Quiet, Announces, Toggles, Starts, Looks, GoesOn, Leaves, Copies,
           ReadsBits, Marks, Flushes, Returns, SameRequests
  <1>2. rec'[S'.index].deactivate = rec[S.index].deactivate
    BY NextChanges
  <1> QED
    BY <1>1, <1>2 DEF HasTakenEffect

(* After a session nobody has read the new S yet. *)
LEMMA NobodyHasNew ==
    ASSUME TypeInv, SeqInv, Unwrapped, NEW t \in Threads, Publishes(t),
           NEW u \in Threads, pc'[u] \in InAttempt
    PROVE  /\ u # t /\ pc[u] \in InAttempt
           /\ pc'[u] = pc[u] /\ loc'[u] = loc[u] /\ loc'[u].old_sp # S'
  <1>1. SomeKind(t)
    BY DEF SomeKind
  <1>2. /\ u # t /\ pc[u] \in InAttempt
        /\ pc'[u] = pc[u] /\ loc'[u] = loc[u]
        /\ loc[u].old_sp.seq \in Nat
    BY <1>1, AttemptBefore DEF Publishes, Moves, InAttempt, Reading, Writing
  <1>3. loc[u].old_sp.seq <= S.seq /\ S'.seq = S.seq + 1 /\ S.seq \in Nat
    BY <1>1, <1>2, SeqGrows DEF SeqInv
  <1> QED
    BY <1>2, <1>3

(* A thread that has not noticed another session finds out rightly whether   *)
(* its operation has been applied (lines 116-136).                           *)
LEMMA OwnStep ==
    ASSUME TypeInv, SeqInv, FreeInv, IndexInv, CopyInv, OwnInv, Unwrapped,
           NEW t \in Threads, SomeKind(t)
    PROVE  OwnInv'
  <1> SUFFICES ASSUME NEW u \in Threads
               PROVE  /\ pc'[u] \in {"idle", "activate"} => loc'[u].j = 0
                      /\ pc'[u] \in {"read_flush", "check_S"} /\ loc'[u].old_sp = S' =>
                            (loc'[u].diffs = {} <=> HasTakenEffect(u)')
                      /\ pc'[u] \in {"copy", "copy_results", "check_copy"} /\ loc'[u].old_sp = S' =>
                            ~HasTakenEffect(u)'
                      /\ pc'[u] = "read_activate" =>
                            rec'[loc'[u].lsp].deactivate[u] # activate'[u]
                      /\ pc'[u] \in Tried => loc'[u].l_activate[u] = activate'[u]
    BY DEF OwnInv
  <1>1. /\ pc[u] \in {"idle", "activate"} => loc[u].j = 0
        /\ pc[u] \in {"read_flush", "check_S"} /\ loc[u].old_sp = S =>
              (loc[u].diffs = {} <=> HasTakenEffect(u))
        /\ pc[u] \in {"copy", "copy_results", "check_copy"} /\ loc[u].old_sp = S =>
              ~HasTakenEffect(u)
        /\ pc[u] = "read_activate" => rec[loc[u].lsp].deactivate[u] # activate[u]
        /\ pc[u] \in Tried => loc[u].l_activate[u] = activate[u]
    BY DEF OwnInv
  <1>2. CASE Publishes(t)
    <2>1. CASE u = t
      BY <1>2, <2>1 DEF Publishes, Moves, Tried, Serving, Marked
    <2>2. CASE u # t
      <3>1. pc'[u] = pc[u] /\ loc'[u] = loc[u] /\ rec' = rec /\ activate' = activate
        BY <1>2, <2>2 DEF Publishes, Others, SameRequests
      <3>2. pc[u] \in InAttempt => loc'[u].old_sp # S'
        BY <1>2, <3>1, NobodyHasNew
      <3> QED
        BY <1>1, <3>1, <3>2 DEF InAttempt, Reading, Writing
    <2> QED
      BY <2>1, <2>2
  <1>3. CASE ~Publishes(t) /\ u # t
    <2>1. /\ pc'[u] = pc[u] /\ loc'[u] = loc[u] /\ S' = S
          /\ HasTakenEffect(u)' <=> HasTakenEffect(u)
          /\ activate'[u] = activate[u]
      BY <1>3, AttemptBefore, SeqGrows, EffectStays
    <2>2. pc[u] = "read_activate" =>
             rec'[loc[u].lsp].deactivate = rec[loc[u].lsp].deactivate
      <3>1. pc[u] = "read_activate" => loc[u].lsp = NextOf(u) /\ loc[u].lsp \in Recs
        BY Reads DEF FreeInv, Writing, TypeInv
      <3>2. NextOf(u) # NextOf(t)
        BY <1>3 DEF NextOf
      <3> QED
        BY <3>1, <3>2, RecordStays
    <2> QED
      BY <1>1, <2>1, <2>2
  <1>4. CASE ~Publishes(t) /\ u = t
    <2> USE <1>1, <1>4 DEF Moves, KeepsAttempt
    <2>0. S' = S
      BY SeqGrows
    <2>1. CASE Toggles(t)
      BY <2>1 DEF Toggles, Tried, Serving, Marked
    <2>2. ASSUME ~Toggles(t)
          PROVE  (HasTakenEffect(t)' <=> HasTakenEffect(t)) /\ activate'[t] = activate[t]
      BY <2>2, EffectStays
    <2>3. CASE Quiet(t)
      <3>1. /\ HasTakenEffect(t)' <=> HasTakenEffect(t)
            /\ activate'[t] = activate[t]
        BY <2>2, <2>3 DEF Quiet, Toggles, Settled, Finishing, Copying, Serving, Marked
      <3>2. pc'[t] = "read_activate" =>
               /\ pc[t] = "read_activate"
               /\ rec'[loc'[t].lsp].deactivate = rec[loc[t].lsp].deactivate
        BY <2>3, Reads
           DEF TypeInv, Quiet, Still, Settled, Finishing, Copying, Serving, Marked, Writing
      <3>3. pc'[t] \in {"read_flush", "check_S"} => loc'[t].diffs = loc[t].diffs
        BY <2>3 DEF Quiet, Settled, Finishing, Copying, Serving, Marked, Reading
      <3> QED
        BY <2>0, <2>3, <3>1, <3>2, <3>3
           DEF Quiet, Settled, Finishing, Copying, Serving, Marked, Tried
    <2>4. CASE Announces(t) \/ Starts(t)
      BY <2>4 DEF Announces, Starts, Tried, Serving, Marked
    <2>5. CASE Looks(t)
      <3>1. loc[t].old_sp = S => (loc'[t].diffs = {} <=> HasTakenEffect(t))
        BY <2>5 DEF Looks, HasTakenEffect
      <3> QED
        BY <2>0, <2>2, <2>5, <3>1 DEF Looks, Toggles, Tried, Serving, Marked
    <2>6. CASE GoesOn(t)
      <3>1. pc[t] = "check_copy" =>
               rec[loc[t].lsp].deactivate = rec[S.index].deactivate
        BY <2>6 DEF GoesOn, CopyInv, Writing, Marked
      <3>2. pc[t] = "check_copy" =>
               rec'[loc'[t].lsp].deactivate[t] # activate'[t]
        BY <2>2, <2>6, <3>1, Reads
           DEF GoesOn, Still, Toggles, HasTakenEffect, TypeInv
      <3> QED
        BY <2>0, <2>2, <2>6, <3>2 DEF GoesOn, Toggles, Tried, Serving, Marked
    <2>7. CASE Leaves(t) \/ Returns(t) \/ Flushes(t)
      BY <2>7 DEF Leaves, Returns, Flushes, NoLocals, Tried, Serving, Marked
    <2>8. CASE Copies(t)
      BY <2>0, <2>2, <2>8 DEF Copies, Toggles, Tried, Serving, Marked
    <2>9. CASE ReadsBits(t)
      BY <2>2, <2>9 DEF ReadsBits, Toggles, Tried, Serving, Marked
    <2>10. CASE Marks(t)
      BY <2>2, <2>10 DEF Marks, Toggles, Tried, Serving, Marked
    <2> QED
      BY <2>1, <2>3, <2>4, <2>5, <2>6, <2>7, <2>8, <2>9, <2>10 DEF SomeKind
  <1> QED
    BY <1>2, <1>3, <1>4

(* Only reading the bits, line 130, makes a thread know others' operations.  *)
LEMMA TriedBefore ==
    ASSUME TypeInv, NEW t \in Threads, SomeKind(t), ~ReadsBits(t),
           NEW u \in Threads, pc'[u] \in Tried
    PROVE  /\ pc[u] \in Tried
           /\ loc'[u].l_activate = loc[u].l_activate
           /\ loc'[u].old_sp = loc[u].old_sp
  <1>1. CASE u # t
    BY <1>1, AttemptBefore
  <1>2. CASE u = t
    <2> USE <1>2 DEF Moves, KeepsAttempt, Tried, Serving, Marked
    <2>1. CASE Quiet(t)
      BY <2>1 DEF Quiet, Settled, Finishing, Copying
    <2>2. CASE Marks(t)
      BY <2>2 DEF Marks
    <2> QED
      BY <2>1, <2>2
         DEF SomeKind, Announces, Toggles, Starts, Looks, GoesOn, Leaves, Copies,
             Publishes, Flushes, Returns
  <1> QED
    BY <1>1, <1>2

(* A thread that has been overtaken was so before, or is so since S changed. *)
LEMMA OvertakenBefore ==
    ASSUME TypeInv, OwnInv, Unwrapped, NEW t \in Threads, SomeKind(t), ~Publishes(t),
           NEW u \in Threads, Overtaken(u)'
    PROVE  Overtaken(u) /\ (u # t \/ ~Toggles(t))
  <1>1. S' = S
    BY SeqGrows
  <1>2. CASE pc'[u] \in InAttempt
    <2>1. CASE u = t /\ Starts(t)
      BY <1>1, <1>2, <2>1
         DEF Starts, Toggles, Moves, Overtaken, InAttempt, Reading, Writing
    <2>2. CASE ~(u = t /\ Starts(t))
      <3>1. /\ pc[u] \in InAttempt /\ loc'[u].old_sp = loc[u].old_sp
            /\ loc'[u].j = loc[u].j
        BY <1>2, <2>2, AttemptBefore
      <3> QED
        BY <1>1, <1>2, <3>1 DEF Overtaken, Toggles, Moves, InAttempt, Reading, Writing
    <2> QED
      BY <2>1, <2>2
  <1>3. CASE pc'[u] = "read_S" /\ loc'[u].j = 1
    <2>1. CASE u # t
      BY <1>3, <2>1, AttemptBefore DEF Overtaken
    <2>2. CASE u = t
      <3>1. ~Toggles(t)
        BY <1>3, <2>2 DEF Toggles, Moves, OwnInv
      <3>2. CASE Quiet(t)
        BY <1>3, <2>2, <3>1, <3>2
           DEF Quiet, KeepsAttempt, Overtaken, Settled, Finishing, Copying, Serving, Marked
      <3>3. CASE Leaves(t)
        BY <1>3, <2>2, <3>1, <3>3 DEF Leaves, Moves, Overtaken
      <3> QED
        BY <1>3, <2>2, <3>1, <3>2, <3>3
           DEF SomeKind, Announces, Starts, Looks, GoesOn, Copies, ReadsBits, Marks,
               Flushes, Returns, Moves
    <2> QED
      BY <2>1, <2>2
  <1> QED
    BY <1>2, <1>3 DEF Overtaken

(* The session that overtakes a second attempt serves its operation; so a    *)
(* thread that leaves the loop of line 111 has been served.                  *)
LEMMA ServedStep ==
    ASSUME TypeInv, SeqInv, FreeInv, IndexInv, CopyInv, OwnInv, ServedInv, Unwrapped,
           NEW t \in Threads, SomeKind(t)
    PROVE  ServedInv'
  <1> DEFINE Over == Settled \union {"idle", "activate", "flush_S"}
  <1> SUFFICES ASSUME NEW u \in Threads
               PROVE  /\ pc'[u] \in Over => HasTakenEffect(u)'
                      /\ HasTakenEffect(u)' \/ Overtaken(u)' => SeenByAll(u)'
                      /\ pc'[u] \in InAttempt /\ loc'[u].j = 1 /\ loc'[u].old_sp # S' =>
                            HasTakenEffect(u)'
    BY DEF ServedInv
  <1>1. /\ pc[u] \in Over => HasTakenEffect(u)
        /\ HasTakenEffect(u) \/ Overtaken(u) => SeenByAll(u)
        /\ pc[u] \in InAttempt /\ loc[u].j = 1 /\ loc[u].old_sp # S => HasTakenEffect(u)
    BY DEF ServedInv
  <1>2. CASE Publishes(t)
    <2>1. /\ pc[t] \in Tried /\ loc[t].old_sp = S
          /\ pc[t] = "cas" /\ pc'[t] = "flush_S"
          /\ activate' = activate
          /\ \A v \in Threads : v # t => pc'[v] = pc[v] /\ loc'[v] = loc[v]
      BY <1>2 DEF Publishes, Moves, Tried, Marked, SameRequests, Others
    <2>2. HasTakenEffect(u)' <=> loc[t].l_activate[u] = activate[u]
      BY <1>2 DEF Publishes, Moves, CopyInv, Writing, Marked, HasTakenEffect, SameRequests
    <2>3. SeenByAll(u) => HasTakenEffect(u)'
      BY <2>1, <2>2 DEF SeenByAll
    <2>4. pc'[u] \in Over => HasTakenEffect(u)'
      <3>1. CASE u = t
        BY <2>1, <2>2, <3>1 DEF OwnInv
      <3>2. CASE u # t
        BY <1>1, <2>1, <2>3, <3>2
      <3> QED
        BY <3>1, <3>2
    <2>5. SeenByAll(u)'
      <3>1. \A v \in Threads : pc'[v] \in Tried => loc'[v].old_sp # S'
        BY <1>2, NobodyHasNew DEF Tried, Serving, Marked, InAttempt, Writing
      <3> QED
        BY <3>1 DEF SeenByAll
    <2>6. pc'[u] \in InAttempt /\ loc'[u].j = 1 => HasTakenEffect(u)'
      <3> SUFFICES ASSUME pc'[u] \in InAttempt, loc'[u].j = 1
                   PROVE  HasTakenEffect(u)'
        OBVIOUS
      <3>1. pc[u] \in InAttempt /\ loc[u].j = 1
        BY <1>2, NobodyHasNew
      <3>2. SeenByAll(u)
        BY <1>1, <3>1 DEF Overtaken
      <3> QED
        BY <2>3, <3>2
    <2> QED
      BY <2>4, <2>5, <2>6
  <1>3. CASE ~Publishes(t)
    <2>1. S' = S
      BY <1>3, SeqGrows
    <2>2. u # t \/ ~Toggles(t) => /\ HasTakenEffect(u)' <=> HasTakenEffect(u)
                                 /\ activate'[u] = activate[u]
      BY <1>3, EffectStays
    <2>3. pc'[u] \in Over => HasTakenEffect(u)'
      <3> SUFFICES ASSUME pc'[u] \in Over
                   PROVE  HasTakenEffect(u)'
        OBVIOUS
      <3>1. u # t \/ ~Toggles(t)
        BY DEF Toggles, Moves, Settled, Finishing
      <3>2. CASE u = t /\ Leaves(t)
        <4>1. CASE loc[t].old_sp # S
          <5>1. loc[t].j \in 0 .. 1
            BY Reads DEF TypeInv
          <5>2. loc[t].j = 1
            BY <3>2, <4>1, <5>1 DEF Leaves, Settled, Finishing
          <5>3. HasTakenEffect(t)
            BY <1>1, <3>2, <4>1, <5>2 DEF Leaves
          <5> QED
            BY <2>2, <3>1, <3>2, <5>3
        <4>2. CASE loc[t].old_sp = S
          <5>1. HasTakenEffect(t)
            BY <3>2, <4>2 DEF Leaves, Moves, OwnInv
          <5> QED
            BY <2>2, <3>1, <3>2, <5>1
        <4> QED
          BY <4>1, <4>2
      <3>3. CASE ~(u = t /\ Leaves(t))
        <4>1. pc[u] \in Over
          <5>1. CASE u # t
            BY <5>1, AttemptBefore
          <5>2. CASE u = t
            BY <1>3, <3>1, <3>3, <5>2
               DEF SomeKind, Quiet, Announces, Starts, Looks, GoesOn, Copies, ReadsBits,
                   Marks, Flushes, Returns, Moves, Settled, Finishing, Copying, Serving,
                   Marked
          <5> QED
            BY <5>1, <5>2
        <4> QED
          BY <1>1, <2>2, <3>1, <4>1
      <3> QED
        BY <3>2, <3>3
    <2>4. HasTakenEffect(u)' \/ Overtaken(u)' =>
             /\ HasTakenEffect(u) \/ Overtaken(u)
             /\ u # t \/ ~Toggles(t)
      <3>1. CASE u = t /\ Toggles(t)
        <4>1. HasTakenEffect(t) /\ activate'[t] # activate[t]
          BY <1>1, <3>1 DEF Toggles, Moves
        <4>2. rec'[S'.index].deactivate = rec[S.index].deactivate
          BY <1>3, NextChanges
        <4>3. ~HasTakenEffect(u)'
          BY <3>1, <4>1, <4>2 DEF HasTakenEffect
        <4> QED
          BY <1>3, <3>1, <4>3, OvertakenBefore
      <3>2. CASE u # t \/ ~Toggles(t)
        BY <1>3, <2>2, <3>2, OvertakenBefore
      <3> QED
        BY <3>1, <3>2
    <2>5. HasTakenEffect(u)' \/ Overtaken(u)' => SeenByAll(u)'
      <3> SUFFICES ASSUME HasTakenEffect(u)' \/ Overtaken(u)',
                          NEW v \in Threads, pc'[v] \in Tried, loc'[v].old_sp = S'
                   PROVE  loc'[v].l_activate[u] = activate'[u]
        BY DEF SeenByAll
      <3>1. SeenByAll(u) /\ activate'[u] = activate[u]
        BY <1>1, <2>2, <2>4
      <3>2. CASE v = t /\ ReadsBits(t)
        BY <3>1, <3>2 DEF ReadsBits
      <3>3. CASE v # t /\ ReadsBits(t)
        BY <2>1, <3>1, <3>3, AttemptBefore DEF SeenByAll
      <3>4. CASE ~ReadsBits(t)
        BY <2>1, <3>1, <3>4, TriedBefore DEF SeenByAll
      <3> QED
        BY <3>2, <3>3, <3>4
    <2>6. pc'[u] \in InAttempt /\ loc'[u].j = 1 /\ loc'[u].old_sp # S' =>
             HasTakenEffect(u)'
      <3> SUFFICES ASSUME pc'[u] \in InAttempt, loc'[u].j = 1, loc'[u].old_sp # S'
                   PROVE  HasTakenEffect(u)'
        OBVIOUS
      <3>1. ~(u = t /\ Starts(t))
        BY <2>1 DEF Starts
      <3>2. /\ pc[u] \in InAttempt /\ loc[u].j = 1 /\ loc[u].old_sp # S
        BY <2>1, <3>1, AttemptBefore
      <3>3. u # t \/ ~Toggles(t)
        BY <3>2 DEF Toggles, Moves, InAttempt, Reading, Writing
      <3> QED
        BY <1>1, <2>2, <3>2, <3>3
    <2> QED
      BY <2>3, <2>5, <2>6
  <1> QED
    BY <1>2, <1>3

-----------------------------------------------------------------------------
(* The invariant                                                             *)

LEMMA IndInvInit == Init => IndInv
  <1> SUFFICES ASSUME Init
               PROVE  IndInv
    OBVIOUS
  <1> USE DEF Init, InAttempt, Reading, Writing
  <1>1. TypeInv
    BY TypeInit
  <1>2. CalledInv
    BY DEF CalledInv, NoLocals
  <1>3. SeqInv /\ IndexInv /\ CopyInv
    BY DEF SeqInv, IndexInv, CopyInv
  <1>4. FreeInv
    BY RecFacts DEF FreeInv, NextOf, InitRec
  <1>5. CleanInv
    BY RecFacts DEF CleanInv, ImageComplete
  <1>6. OwnInv
    BY DEF OwnInv, NoLocals, Tried, Serving, Marked
  <1>7. ServedInv
    BY RecFacts DEF ServedInv, SeenByAll, HasTakenEffect, Tried, Serving, Marked
  <1> QED
    BY <1>1, <1>2, <1>3, <1>4, <1>5, <1>6, <1>7 DEF IndInv

LEMMA IndInvStep == IndInv /\ Unwrapped /\ [Next]_vars => IndInv'
  <1> SUFFICES ASSUME IndInv, Unwrapped, [Next]_vars
               PROVE  IndInv'
    OBVIOUS
  <1>1. /\ TypeInv /\ CalledInv /\ SeqInv /\ FreeInv /\ IndexInv /\ CopyInv
        /\ CleanInv /\ OwnInv /\ ServedInv
    BY DEF IndInv
  <1>2. PICK t \in Threads : SomeKind(t)
    BY <1>1, StepKinds
  <1>3. TypeInv'
    BY <1>1, <1>2, TypeStep, OthersLeftStep DEF TypeInv
  <1>4. CalledInv'
    BY <1>1, <1>2, CalledStep
  <1>5. SeqInv'
    BY <1>1, <1>2, SeqStep
  <1>6. FreeInv'
    BY <1>1, <1>2, FreeStep
  <1>7. IndexInv'
    BY <1>1, <1>2, IndexStep
  <1>8. CopyInv'
    BY <1>1, <1>2, CopyStep
  <1>9. CleanInv'
    BY <1>1, <1>2, CleanStep
  <1>10. OwnInv'
    BY <1>1, <1>2, OwnStep
  <1>11. ServedInv'
    BY <1>1, <1>2, ServedStep
  <1> QED
    BY <1>3, <1>4, <1>5, <1>6, <1>7, <1>8, <1>9, <1>10, <1>11 DEF IndInv

(* As long as the number does not come round, the invariant holds.           *)
THEOREM Invariance == UnwrappedSpec => []IndInv
  <1>1. IndInv /\ [Next /\ Unwrapped]_vars => IndInv'
    <2> SUFFICES ASSUME IndInv, [Next /\ Unwrapped]_vars
                 PROVE  IndInv'
      OBVIOUS
    <2>1. S.seq \in Nat
      BY DEF IndInv, TypeInv, TypeOK, Pointers
    <2>2. [Next]_vars /\ Unwrapped
      BY <2>1 DEF vars, Unwrapped
    <2> QED
      BY <2>2, IndInvStep
  <1> QED
    BY <1>1, IndInvInit, PTL DEF UnwrappedSpec, Spec

-----------------------------------------------------------------------------
(* The properties                                                            *)

(* The variables of PWFCombApplyOp and its records have their types          *)
(* (pwfcomb.c:76-216).                                                       *)
THEOREM TypeCorrectness == UnwrappedSpec => []TypeOK
  <1>1. IndInv => TypeOK
    BY DEF IndInv, TypeInv
  <1> QED
    BY <1>1, Invariance, PTL

(* The record a thread writes (pwfcomb.c:123-197) is never the current one,  *)
(* nor the one a crash would recover.                                        *)
THEOREM RecordPrivacy == UnwrappedSpec => []LocalRecordPrivate
  <1>1. IndInv => LocalRecordPrivate
    BY DEF IndInv, FreeInv, LocalRecordPrivate, Writing
  <1> QED
    BY <1>1, Invariance, PTL

(* A record that is current or that a crash recovers is wholly durable       *)
(* (pwfcomb.c:174-200).                                                      *)
THEOREM ImageIsComplete == UnwrappedSpec => []ImageComplete
  <1>1. IndInv => ImageComplete
    BY DEF IndInv, CleanInv
  <1> QED
    BY <1>1, Invariance, PTL

(* A call never needs a third attempt (pwfcomb.c:111): the thread that leaves*)
(* the loop has been served.  With it every call ends after a number of its  *)
(* own steps that does not depend on the others.                             *)
THEOREM TwoAttempts == UnwrappedSpec => []TwoAttemptsSuffice
  <1>1. IndInv => TwoAttemptsSuffice
    BY DEF IndInv, ServedInv, Settled, TwoAttemptsSuffice
  <1> QED
    BY <1>1, Invariance, PTL

-----------------------------------------------------------------------------
(* PWFcomb implements WaitFreeSessions, the interface PWFStack and PWFQueue  *)
(* are built on                                                              *)

(* Before the first session there is nothing durable; the record a thread    *)
(* publishes is one of its own.                                              *)
FirstInv ==
    /\ ~clean[InitRec]
    /\ S.index = InitRec /\ nvm_S # NoRec => nvm_S.index = InitRec
    /\ \A t \in Threads : pc[t] = "flush_S" => S.index # InitRec

(* While S stays the same, the copy has the results of the current record,   *)
(* but for the operations it will apply.                                     *)
AnswersOf(t) ==
    /\ pc[t] \in {"check_copy", "read_activate"} =>
          rec[loc[t].lsp].return_val = rec[S.index].return_val
    /\ pc[t] \in Tried =>
          /\ loc[t].l_activate[t] # rec[S.index].deactivate[t]
          /\ \A k \in Threads : loc[t].l_activate[k] = rec[S.index].deactivate[k] =>
                /\ k \notin loc[t].diffs
                /\ rec[loc[t].lsp].return_val[k] = rec[S.index].return_val[k]

AnswersInv == \A t \in Threads : loc[t].old_sp = S => AnswersOf(t)

CallInv == IndInv /\ FirstInv /\ AnswersInv

OutOfAttempt ==
    {"read_S"} \union Reading \union Copying \union {"read_activate"} \union Finishing

(* A step that stays in the same part of the code. *)
SamePart(t) ==
    /\ \/ pc'[t] = pc[t]
       \/ {pc[t], pc'[t]} \subseteq OutOfAttempt
       \/ {pc[t], pc'[t]} \subseteq Tried
       \/ {pc[t], pc'[t]} \subseteq {"settle", "return_own"}
    /\ pc[t] \in Tried => /\ loc'[t].old_sp = loc[t].old_sp
                          /\ loc'[t].l_activate = loc[t].l_activate

(* Only the record t writes changes. *)
WritesOwn(t) ==
    \A r \in Recs : r # NextOf(t) => rec'[r] = rec[r] /\ clean'[r] = clean[r]

Alone(t) == Others(t) /\ pc'[t] \in Labels /\ loc'[t] \in Locals

Silent(t) ==
    /\ Alone(t) /\ UNCHANGED <<requestVars, S, nvm_S>>
    /\ pc[t] # "flush_S" /\ SamePart(t) /\ WritesOwn(t)

(* A step of t that ends its attempt, since it is stale. *)
GivesUp(t) ==
    /\ Alone(t) /\ UNCHANGED <<requestVars, S, nvm_S, recordVars>>
    /\ pc[t] \in Tried /\ loc[t].old_sp # S /\ pc'[t] \in {"read_S", "read_current"}

LEMMA OwnRecords ==
    ASSUME IndInv
    PROVE  /\ TypeOK /\ S.index \in Recs
           /\ \A t \in Threads :
                 /\ NextOf(t) \in PoolRecs /\ NextOf(t) \in Recs /\ S.index # NextOf(t)
                 /\ pc[t] \in Writing => loc[t].lsp = NextOf(t)
                 /\ pc[t] # "flush_S" /\ nvm_S # NoRec => nvm_S.index # NextOf(t)
           /\ nvm_S # NoRec => nvm_S.index \in Recs
  <1>1. TypeOK
    BY DEF IndInv, TypeInv
  <1>a. S.index \in Recs
    BY <1>1 DEF TypeOK, Pointers
  <1>2. \A t \in Threads : NextOf(t) \in PoolRecs /\ NextOf(t) \in Recs
    <2>1. rec[S.index].index \in [Threads -> {0, 1}]
      BY <1>1, <1>a DEF TypeOK, Records, Bits
    <2>2. \A t \in Threads : rec[S.index].index[t] \in {0, 1}
      BY <2>1
    <2> QED
      BY <2>2, RecFacts DEF NextOf
  <1>3. nvm_S # NoRec => nvm_S.index \in Recs
    BY <1>1 DEF TypeOK, Pointers
  <1> QED
    BY <1>1, <1>a, <1>2, <1>3 DEF IndInv, FreeInv

(* Where a thread stays, by what it does. *)
LEMMA SilentStep ==
    ASSUME IndInv, NEW t \in Threads,
           \/ ReadS(t) \/ ReadDiffs(t) \/ ReadFlush(t) \/ CheckS(t)
           \/ CopyState(t) \/ CopyResults(t) \/ CheckCopy(t)
           \/ ServeOwn(t) \/ LoadArg(t) \/ ServeOther(t) \/ MarkServed(t)
           \/ (CheckPublish(t) /\ Unchanged_S(t))
           \/ FlushRecord(t) \/ SetFlush(t) \/ SetRound(t) \/ SettleOwn(t)
           \/ ReadCurrent(t) \/ ReadCurrentFlush(t) \/ CheckRound(t) \/ HelpSettle(t),
           TypeOK'
    PROVE  Silent(t)
  <1> TypeOK
    BY DEF IndInv, TypeInv
  <1> DEFINE W == NextOf(t)
  <1>0. /\ pc[t] \in Writing => loc[t].lsp = W
        /\ W \in Recs
    BY OwnRecords
  <1>a. pc'[t] \in Labels /\ loc'[t] \in Locals
    BY DEF TypeOK
  <1> HIDE DEF W
  <1>b. ASSUME Others(t), UNCHANGED <<requestVars, S, nvm_S>>, pc[t] # "flush_S",
               SamePart(t),
               \A r \in Recs : r # W => rec'[r] = rec[r] /\ clean'[r] = clean[r]
        PROVE  Silent(t)
    BY <1>a, <1>b DEF Silent, Alone, WritesOwn, W
  <1> USE DEF At, Goto, Local, requestVars, flushVars, recordVars, Others, SamePart,
              OutOfAttempt, Tried, Serving, Marked, Copying, Finishing, Reading
  <1>1. CASE ReadS(t) \/ ReadDiffs(t) \/ ReadFlush(t)
    <2>1. /\ Others(t) /\ UNCHANGED <<requestVars, S, nvm_S, recordVars>>
          /\ pc[t] \in {"read_S", "read_diffs", "read_flush"}
          /\ pc'[t] \in {"read_diffs", "read_flush", "check_S"}
      BY <1>1 DEF TypeOK, ReadS, ReadDiffs, ReadFlush
    <2> QED
      BY <2>1, <1>b
  <1>2. CASE CheckS(t)
    <2>1. /\ Others(t) /\ UNCHANGED <<requestVars, S, nvm_S, recordVars>>
          /\ pc[t] = "check_S" /\ pc'[t] \in {"read_S", "read_current", "copy"}
      BY <1>2, RetryLeaves DEF TypeOK, CheckS, Break
    <2> QED
      BY <2>1, <1>b
  <1>3. CASE CopyState(t)
    <2>1. pc[t] = "copy" /\ pc' = [pc EXCEPT ![t] = "copy_results"]
      BY <1>3 DEF CopyState
    <2>2. LocalIndex(t, loc[t].old_sp.index) = W
      <3>1. pc[t] \in InAttempt /\ loc[t].old_sp.seq <= loc[t].old_sp.seq
        BY <2>1, Reads DEF InAttempt, Pointers
      <3>2. rec[loc[t].old_sp.index].index[t] = rec[S.index].index[t]
        BY <3>1 DEF IndInv, IndexInv
      <3> QED
        BY <3>2 DEF LocalIndex, NextOf, W
    <2>3. /\ Others(t) /\ UNCHANGED <<requestVars, S, nvm_S>>
          /\ \A r \in Recs : r # W => rec'[r] = rec[r] /\ clean'[r] = clean[r]
      BY <1>3, <2>2 DEF TypeOK, CopyState
    <2> QED
      BY <2>1, <2>3, <1>b DEF TypeOK
  <1>4. CASE CopyResults(t)
    <2>1. /\ Others(t) /\ UNCHANGED <<requestVars, S, nvm_S>>
          /\ pc[t] = "copy_results" /\ pc'[t] = "check_copy"
          /\ \A r \in Recs : r # loc[t].lsp => rec'[r] = rec[r] /\ clean'[r] = clean[r]
      BY <1>4 DEF TypeOK, CopyResults
    <2> QED
      BY <2>1, <1>0, <1>b DEF Writing
  <1>5. CASE CheckCopy(t)
    <2>1. /\ Others(t) /\ UNCHANGED <<requestVars, S, nvm_S, recordVars>>
          /\ pc[t] = "check_copy" /\ pc'[t] \in {"read_S", "read_current", "read_activate"}
      BY <1>5, RetryLeaves DEF TypeOK, CheckCopy
    <2> QED
      BY <2>1, <1>b
  <1>6. CASE ServeOwn(t) \/ LoadArg(t) \/ ServeOther(t)
    <2>1. /\ Others(t) /\ UNCHANGED <<requestVars, S, nvm_S, clean>>
          /\ pc[t] \in Serving /\ pc'[t] \in Serving
      BY <1>6 DEF TypeOK, ServeOwn, LoadArg, ServeOther
    <2>2. /\ loc'[t].old_sp = loc[t].old_sp
          /\ loc'[t].l_activate = loc[t].l_activate
      <3>1. CASE ServeOwn(t) \/ ServeOther(t)
        BY <3>1, Reads DEF TypeOK, ServeOwn, ServeOther, Locals
      <3>2. CASE LoadArg(t)
        <4>1. valid[Min(loc[t].diffs)]
          <5>1. Min(loc[t].diffs) \in loc[t].diffs /\ Min(loc[t].diffs) \in Threads
            BY <3>2, MinIsMember, Reads, RecFacts DEF LoadArg
          <5> QED
            BY <5>1 DEF IndInv, CalledInv
        <4> QED
          BY <3>2, <4>1 DEF LoadArg
      <3> QED
        BY <1>6, <3>1, <3>2
    <2>3. \A r \in Recs : r # loc[t].lsp => rec'[r] = rec[r]
      BY <1>6 DEF TypeOK, ServeOwn, LoadArg, ServeOther, Served
    <2> QED
      BY <2>1, <2>2, <2>3, <1>0, <1>b DEF Writing
  <1>7. CASE MarkServed(t)
    <2>1. /\ Others(t) /\ UNCHANGED <<requestVars, S, nvm_S, clean, loc>>
          /\ pc[t] = "scan" /\ pc'[t] = "check_publish"
          /\ \A r \in Recs : r # loc[t].lsp => rec'[r] = rec[r]
      BY <1>7 DEF TypeOK, MarkServed
    <2> QED
      BY <2>1, <1>0, <1>b DEF Writing
  <1>8. CASE (CheckPublish(t) /\ Unchanged_S(t)) \/ SetFlush(t) \/ SetRound(t)
    <2>1. /\ Others(t) /\ UNCHANGED <<requestVars, S, nvm_S, recordVars>>
          /\ pc[t] \in Marked /\ pc'[t] \in Marked
          /\ loc'[t].old_sp = loc[t].old_sp
          /\ loc'[t].l_activate = loc[t].l_activate
      BY <1>8, Reads DEF TypeOK, CheckPublish, SetFlush, SetRound, Locals
    <2> QED
      BY <2>1, <1>b
  <1>9. CASE FlushRecord(t)
    <2>1. /\ Others(t) /\ UNCHANGED <<requestVars, S, nvm_S, rec, loc>>
          /\ pc[t] = "flush_record" /\ pc'[t] = "set_flush"
          /\ \A r \in Recs : r # loc[t].lsp => clean'[r] = clean[r]
      BY <1>9 DEF TypeOK, FlushRecord, Flushed
    <2> QED
      BY <2>1, <1>0, <1>b DEF Writing
  <1>10. CASE SettleOwn(t) \/ ReadCurrent(t) \/ ReadCurrentFlush(t) \/ CheckRound(t)
              \/ HelpSettle(t)
    <2>1. /\ Others(t) /\ UNCHANGED <<requestVars, S, nvm_S, recordVars>>
          /\ \/ pc[t] = "settle" /\ pc'[t] = "return_own"
             \/ pc[t] \in Finishing /\ pc'[t] \in Finishing
      BY <1>10 DEF TypeOK, SettleOwn, ReadCurrent, ReadCurrentFlush, CheckRound,
                   HelpSettle, Settle
    <2> QED
      BY <2>1, <1>b
  <1> QED
    BY <1>1, <1>2, <1>3, <1>4, <1>5, <1>6, <1>7, <1>8, <1>9, <1>10

(* What a thread shows of its call depends on a few variables.               *)
SameCall(u) ==
    /\ SessionPhase(u)' = SessionPhase(u) /\ SessionParam(u)' = SessionParam(u)
    /\ SessionStage(u)' = SessionStage(u) /\ SessionBatch(u)' = SessionBatch(u)

LEMMA StageIs ==
    ASSUME NEW u \in Threads
    PROVE  /\ pc[u] \in Tried /\ loc[u].old_sp = S => SessionStage(u) = "trying"
           /\ pc[u] \in Tried /\ loc[u].old_sp # S => SessionStage(u) = "stale"
           /\ pc[u] = "flush_S" => SessionStage(u) = "published"
           /\ pc[u] \in {"settle", "return_own"} => SessionStage(u) = "synced"
           /\ pc[u] \in OutOfAttempt \union {"idle", "activate"} => SessionStage(u) = "out"
  BY DEF SessionStage, Trying, Unchanged_S, Tried, Serving, Marked, OutOfAttempt, Reading,
         Copying, Finishing

LEMMA NextStageIs ==
    ASSUME NEW u \in Threads
    PROVE  /\ pc'[u] \in Tried /\ loc'[u].old_sp = S' => SessionStage(u)' = "trying"
           /\ pc'[u] \in Tried /\ loc'[u].old_sp # S' => SessionStage(u)' = "stale"
           /\ pc'[u] = "flush_S" => SessionStage(u)' = "published"
           /\ pc'[u] \in {"settle", "return_own"} => SessionStage(u)' = "synced"
           /\ pc'[u] \in OutOfAttempt \union {"idle", "activate"} => SessionStage(u)' = "out"
  BY DEF SessionStage, Trying, Unchanged_S, Tried, Serving, Marked, OutOfAttempt, Reading,
         Copying, Finishing

LEMMA StageKept ==
    ASSUME S' = S, NEW u \in Threads, pc[u] \in Labels, SamePart(u)
    PROVE  SessionStage(u)' = SessionStage(u)
  <1>1. CASE pc[u] \in Tried
    BY <1>1, StageIs, NextStageIs
       DEF SamePart, Tried, Serving, Marked, OutOfAttempt, Reading, Copying, Finishing
  <1>2. CASE pc[u] \notin Tried
    BY <1>2, StageIs, NextStageIs
       DEF SamePart, Tried, Serving, Marked, OutOfAttempt, Reading, Copying, Finishing,
           Labels, Writing
  <1> QED
    BY <1>1, <1>2

LEMMA CallKept ==
    ASSUME IndInv, S' = S, NEW u \in Threads, SamePart(u),
           rec'[S.index] = rec[S.index],
           arg'[u] = arg[u], valid'[u] = valid[u], activate'[u] = activate[u]
    PROVE  SameCall(u)
  <1>1. pc[u] \in Labels
    BY DEF IndInv, TypeInv, TypeOK
  <1>2. SessionStage(u)' = SessionStage(u)
    BY <1>1, StageKept
  <1>3. HasTakenEffect(u)' = HasTakenEffect(u)
    BY DEF HasTakenEffect
  <1>4. SessionPhase(u)' = SessionPhase(u)
    BY <1>3 DEF SessionPhase, SamePart, OutOfAttempt, Reading, Copying, Finishing, Tried,
                Serving, Marked
  <1>5. SessionBatch(u)' = SessionBatch(u)
    <2>1. SessionStage(u) = "trying" => pc[u] \in Tried
      BY DEF SessionStage, Trying, Tried, Serving, Marked
    <2> QED
      BY <1>2, <2>1 DEF SessionBatch, SamePart
  <1> QED
    BY <1>2, <1>4, <1>5 DEF SameCall, SessionParam

(* The others are not concerned. *)
LEMMA OthersKept ==
    ASSUME IndInv, S' = S, NEW t \in Threads, Others(t),
           rec'[S.index] = rec[S.index],
           \A u \in Threads \ {t} :
              arg'[u] = arg[u] /\ valid'[u] = valid[u] /\ activate'[u] = activate[u]
    PROVE  \A u \in Threads \ {t} : SameCall(u)
  <1> SUFFICES ASSUME NEW u \in Threads \ {t}
               PROVE  SameCall(u)
    OBVIOUS
  <1>1. SamePart(u)
    BY DEF Others, SamePart
  <1> QED
    BY <1>1, CallKept

(* The state that a crash leaves is kept as long as its record is.           *)
LEMMA DurableKept ==
    ASSUME IndInv, NEW t \in Threads, pc[t] # "flush_S", WritesOwn(t), nvm_S' = nvm_S
    PROVE  DurableState' = DurableState
  <1>1. CASE nvm_S = NoRec
    BY <1>1 DEF DurableState
  <1>2. CASE nvm_S # NoRec
    <2>1. nvm_S.index \in Recs /\ nvm_S.index # NextOf(t)
      BY <1>2, OwnRecords
    <2>2. rec'[nvm_S.index] = rec[nvm_S.index] /\ clean'[nvm_S.index] = clean[nvm_S.index]
      BY <2>1 DEF WritesOwn
    <2> QED
      BY <2>2 DEF DurableState
  <1> QED
    BY <1>1, <1>2

LEMMA CurrentKept ==
    ASSUME IndInv, NEW t \in Threads, WritesOwn(t)
    PROVE  rec'[S.index] = rec[S.index]
  BY OwnRecords DEF WritesOwn

LEMMA SilentStutters ==
    ASSUME IndInv, NEW t \in Threads, Silent(t)
    PROVE  UNCHANGED Sessions!vars
  <1>1. S' = S /\ rec'[S.index] = rec[S.index] /\ DurableState' = DurableState
    BY CurrentKept, DurableKept DEF Silent
  <1>2. \A u \in Threads : SameCall(u)
    <2>1. SameCall(t)
      BY <1>1, CallKept DEF Silent, requestVars
    <2>2. \A u \in Threads \ {t} : SameCall(u)
      BY <1>1, OthersKept DEF Silent, Alone, requestVars
    <2> QED
      BY <2>1, <2>2
  <1> QED
    BY <1>1, <1>2 DEF Sessions!vars, Sessions!callVars, Sessions!recordVars, SameCall

(* A stale attempt ends. *)
LEMMA GivesUpGivesUp ==
    ASSUME IndInv, NEW t \in Threads, GivesUp(t)
    PROVE  Sessions!GiveUp(t)
  <1>1. S' = S /\ rec' = rec /\ DurableState' = DurableState
    BY DEF GivesUp, recordVars, DurableState
  <1>2. \A u \in Threads \ {t} : SameCall(u)
    BY <1>1, OthersKept DEF GivesUp, Alone, requestVars
  <1>3. SessionStage(t) = "stale" /\ SessionStage(t)' = "out"
    BY StageIs, NextStageIs DEF GivesUp, OutOfAttempt, Finishing
  <1>4. SessionBatch(t) = {} /\ SessionBatch(t)' = {}
    BY <1>3 DEF SessionBatch
  <1>5. SessionPhase(t)' = SessionPhase(t) /\ SessionParam(t)' = SessionParam(t)
    BY <1>1 DEF GivesUp, requestVars, SessionPhase, SessionParam, HasTakenEffect, Tried,
                Serving, Marked
  <1> QED
    BY <1>1, <1>2, <1>3, <1>4, <1>5
       DEF Sessions!GiveUp, Sessions!callVars, Sessions!recordVars, SameCall

(* Announcing the request is the call (lines 89-90).                         *)
LEMMA RequestInvokes ==
    ASSUME IndInv, NEW t \in Threads, NEW a \in Args, WriteRequest(t, a)
    PROVE  Sessions!Invoke(t, a)
  <1> USE DEF At, Goto, recordVars
  <1>1. /\ S' = S /\ rec' = rec /\ DurableState' = DurableState /\ activate' = activate
        /\ Others(t)
        /\ \A u \in Threads \ {t} : arg'[u] = arg[u] /\ valid'[u] = valid[u]
        /\ arg'[t] = a /\ valid'[t]
        /\ pc[t] = "idle" /\ pc'[t] = "activate"
    BY DEF WriteRequest, IndInv, TypeInv, TypeOK, DurableState, Others
  <1>2. \A u \in Threads \ {t} : SameCall(u)
    BY <1>1, OthersKept
  <1>3. SessionStage(t) = "out" /\ SessionStage(t)' = "out"
    BY <1>1, StageIs, NextStageIs
  <1>4. SessionBatch(t) = {} /\ SessionBatch(t)' = {}
    BY <1>3 DEF SessionBatch
  <1>5. SessionPhase(t) = "idle" /\ SessionPhase(t)' = "pending" /\ SessionParam(t)' = a
    BY <1>1 DEF SessionPhase, SessionParam
  <1> QED
    BY <1>1, <1>2, <1>3, <1>4, <1>5
       DEF Sessions!Invoke, Sessions!recordVars, SameCall

(* The toggle of the bit: the call was pending already.                      *)
LEMMA ToggleStutters ==
    ASSUME IndInv, NEW t \in Threads, ToggleActivate(t)
    PROVE  UNCHANGED Sessions!vars
  <1> USE DEF At, Goto, recordVars
  <1>1. /\ S' = S /\ rec' = rec /\ DurableState' = DurableState
        /\ arg' = arg /\ valid' = valid /\ Others(t)
        /\ pc[t] = "activate" /\ pc'[t] = "read_S"
    BY DEF ToggleActivate, IndInv, TypeInv, TypeOK, DurableState, Others
  <1>2. \A u \in Threads \ {t} : activate'[u] = activate[u]
    BY DEF ToggleActivate, IndInv, TypeInv, TypeOK, Bits
  <1>3. \A u \in Threads \ {t} : SameCall(u)
    BY <1>1, <1>2, OthersKept
  <1>4. activate'[t] # activate[t]
    <2>1. activate \in [Threads -> {0, 1}]
      BY DEF IndInv, TypeInv, TypeOK, Bits
    <2>2. activate'[t] = 1 - activate[t]
      BY <2>1 DEF ToggleActivate
    <2>3. activate[t] \in {0, 1}
      BY <2>1
    <2> QED
      BY <2>2, <2>3, OtherBit
  <1>5. HasTakenEffect(t)
    BY <1>1 DEF IndInv, ServedInv
  <1>6. SessionPhase(t) = "pending" /\ SessionPhase(t)' = "pending"
    BY <1>1, <1>4, <1>5 DEF SessionPhase, HasTakenEffect
  <1>7. SessionStage(t) = "out" /\ SessionStage(t)' = "out"
    BY <1>1, StageIs, NextStageIs DEF OutOfAttempt
  <1>8. SessionBatch(t) = {} /\ SessionBatch(t)' = {}
    BY <1>7 DEF SessionBatch
  <1>9. SameCall(t)
    BY <1>1, <1>6, <1>7, <1>8 DEF SameCall, SessionParam
  <1> QED
    BY <1>1, <1>3, <1>9 DEF Sessions!vars, Sessions!callVars, Sessions!recordVars, SameCall

(* An operation that has not taken effect is pending.                        *)
LEMMA NoEffectPending ==
    ASSUME IndInv, NEW k \in Threads, ~HasTakenEffect(k)
    PROVE  SessionPhase(k) = "pending"
  BY DEF IndInv, ServedInv, SessionPhase

(* Reading the bits begins an attempt, which may be stale (lines 129-136).   *)
LEMMA ReadingStarts ==
    ASSUME IndInv, NEW t \in Threads, ReadActivate(t)
    PROVE  \/ \E threads \in SUBSET Sessions!Pending : Sessions!Start(t, threads)
           \/ Sessions!StartLate(t)
  <1> USE DEF At, Goto, Local, recordVars, requestVars
  <1> DEFINE D == {k \in Threads : rec[loc[t].lsp].deactivate[k] # activate[k]}
  <1>0. t \in D /\ pc[t] = "read_activate"
    BY DEF ReadActivate, IndInv, OwnInv
  <1>1. /\ S' = S /\ rec' = rec /\ DurableState' = DurableState
        /\ arg' = arg /\ valid' = valid /\ activate' = activate
        /\ pc' = [pc EXCEPT ![t] = "serve_own"]
        /\ loc' = [loc EXCEPT ![t].diffs = D, ![t].l_activate = activate]
    BY <1>0 DEF ReadActivate, DurableState
  <1> HIDE DEF D
  <1>2. /\ pc'[t] = "serve_own" /\ Others(t)
        /\ loc'[t].old_sp = loc[t].old_sp /\ loc'[t].l_activate = activate
    BY <1>1, Reads DEF IndInv, TypeInv, TypeOK, Others, Locals
  <1>3. \A u \in Threads \ {t} : SameCall(u)
    BY <1>1, <1>2, OthersKept
  <1>4. SessionStage(t) = "out" /\ SessionBatch(t) = {}
    BY <1>0, StageIs DEF OutOfAttempt, SessionBatch
  <1>5. SessionPhase(t)' = SessionPhase(t) /\ SessionParam(t)' = SessionParam(t)
    BY <1>0, <1>1, <1>2 DEF SessionPhase, SessionParam, HasTakenEffect
  <1>6. CASE loc[t].old_sp = S
    <2>1. rec[loc[t].lsp].deactivate = rec[S.index].deactivate
      BY <1>0, <1>6 DEF IndInv, CopyInv, Writing, Marked
    <2>2. SessionStage(t)' = "trying"
      BY <1>1, <1>2, <1>6, NextStageIs DEF Tried, Serving
    <2>3. SessionBatch(t)' = D
      BY <1>1, <1>2, <2>1, <2>2 DEF SessionBatch, D
    <2>4. ASSUME NEW k \in D
          PROVE  k \in Threads /\ SessionPhase(k) = "pending"
      BY <2>1, NoEffectPending DEF D, HasTakenEffect
    <2>5. D \in SUBSET Sessions!Pending
      BY <2>4 DEF Sessions!Pending
    <2>6. Sessions!Start(t, D)
      BY <1>0, <1>1, <1>3, <1>4, <1>5, <2>2, <2>3, <2>4, <2>5
         DEF Sessions!Start, Sessions!callVars, Sessions!recordVars, SameCall
    <2> QED
      BY <2>5, <2>6
  <1>7. CASE loc[t].old_sp # S
    <2>1. SessionStage(t)' = "stale" /\ SessionBatch(t)' = {}
      BY <1>1, <1>2, <1>7, NextStageIs DEF Tried, Serving, SessionBatch
    <2>2. SessionPhase(t) # "idle"
      BY <1>0 DEF SessionPhase
    <2> QED
      BY <1>1, <1>3, <1>4, <1>5, <2>1, <2>2
         DEF Sessions!StartLate, Sessions!callVars, Sessions!recordVars, SameCall
  <1> QED
    BY <1>6, <1>7

(* The operations an attempt will apply are still pending.                   *)
LEMMA BatchPending ==
    ASSUME IndInv, NEW t \in Threads, pc[t] \in Tried, loc[t].old_sp = S,
           NEW k \in Threads, loc[t].l_activate[k] # rec[S.index].deactivate[k]
    PROVE  loc[t].l_activate[k] = activate[k] /\ ~HasTakenEffect(k)
  <1>1. HasTakenEffect(k) => loc[t].l_activate[k] = activate[k]
    BY DEF IndInv, ServedInv, SeenByAll
  <1>2. ~HasTakenEffect(k)
    BY <1>1 DEF HasTakenEffect
  <1>3. /\ loc[t].l_activate[k] \in {0, 1} /\ activate[k] \in {0, 1}
        /\ rec[S.index].deactivate[k] \in {0, 1}
    <2>1. /\ loc[t].l_activate \in [Threads -> {0, 1}] /\ activate \in [Threads -> {0, 1}]
          /\ rec[S.index].deactivate \in [Threads -> {0, 1}]
      BY Reads DEF IndInv, TypeInv, TypeOK, Bits
    <2> QED
      BY <2>1
  <1> QED
    BY <1>2, <1>3 DEF HasTakenEffect

(* Line 197 publishes the batch. *)
LEMMA PublishPublishes ==
    ASSUME CallInv, Unwrapped, NEW t \in Threads, Publish(t), loc[t].old_sp = S
    PROVE  \E w \in ObjStates, answers \in [SessionBatch(t) -> RetVals] :
              Sessions!Publish(t, w, answers)
  <1> USE DEF At, Goto, recordVars, requestVars
  <1>0. IndInv /\ TypeOK /\ TypeInv /\ SeqInv
    BY DEF CallInv, IndInv, TypeInv
  <1> DEFINE r == loc[t].lsp
             B == SessionBatch(t)
             w == rec[r].st
             answers == [k \in B |-> rec[r].return_val[k]]
  <1>1. /\ pc[t] = "cas" /\ pc' = [pc EXCEPT ![t] = "flush_S"]
        /\ S'.index = r /\ S' = [index |-> r, seq |-> NextSeq(S.seq)]
        /\ arg' = arg /\ valid' = valid /\ activate' = activate
        /\ rec' = rec /\ nvm_S' = nvm_S /\ clean' = clean /\ loc' = loc
    BY DEF Publish, Unchanged_S
  <1>2. /\ r \in Recs /\ w \in ObjStates
        /\ rec[r].return_val \in [Threads -> RetVals]
        /\ rec[S.index].return_val \in [Threads -> RetVals]
    BY <1>0, Reads
  <1>3. pc[t] \in Tried /\ SessionStage(t) = "trying"
    BY <1>1, StageIs DEF Tried, Marked
  <1>4. B = {k \in Threads : loc[t].l_activate[k] # rec[S.index].deactivate[k]}
    BY <1>3 DEF SessionBatch
  <1>5. rec[r].deactivate = loc[t].l_activate
    BY <1>0, <1>1 DEF IndInv, CopyInv, Writing, Marked
  <1>6. \A k \in Threads \ B : rec[r].return_val[k] = rec[S.index].return_val[k]
    BY <1>3, <1>4 DEF CallInv, AnswersInv, AnswersOf
  <1> HIDE DEF B, r
  <1>7. rec'[S'.index].return_val =
            [k \in Threads |-> IF k \in B THEN answers[k] ELSE rec[S.index].return_val[k]]
    BY <1>1, <1>2, <1>6
  <1>8. \A k \in Threads :
            SessionPhase(k)' = IF k \in B THEN "applied" ELSE SessionPhase(k)
    <2> SUFFICES ASSUME NEW k \in Threads
                 PROVE  SessionPhase(k)' = IF k \in B THEN "applied" ELSE SessionPhase(k)
      OBVIOUS
    <2>1. HasTakenEffect(k)' <=> loc[t].l_activate[k] = activate[k]
      BY <1>1, <1>5 DEF HasTakenEffect
    <2>2. /\ pc'[k] = "idle" <=> pc[k] = "idle"
          /\ pc'[k] = "activate" <=> pc[k] = "activate"
      BY <1>0, <1>1 DEF TypeOK
    <2>3. CASE k \in B
      <3>1. loc[t].l_activate[k] = activate[k] /\ ~HasTakenEffect(k)
        BY <1>0, <1>3, <1>4, <2>3, BatchPending
      <3>2. SessionPhase(k) = "pending" /\ pc[k] \notin {"idle", "activate"}
        BY <1>0, <3>1 DEF IndInv, ServedInv, SessionPhase
      <3> QED
        BY <2>1, <2>2, <2>3, <3>1, <3>2 DEF SessionPhase
    <2>4. CASE k \notin B
      <3>1. loc[t].l_activate[k] = rec[S.index].deactivate[k]
        BY <1>4, <2>4
      <3> QED
        BY <2>1, <2>2, <2>4, <3>1 DEF SessionPhase, HasTakenEffect
    <2> QED
      BY <2>3, <2>4
  <1>9. \A k \in Threads :
            /\ SessionStage(k)' = IF k = t THEN "published"
                                  ELSE IF SessionStage(k) = "trying" THEN "stale"
                                  ELSE SessionStage(k)
            /\ SessionBatch(k)' = {}
    <2> SUFFICES ASSUME NEW k \in Threads
                 PROVE  /\ SessionStage(k)' = IF k = t THEN "published"
                                  ELSE IF SessionStage(k) = "trying" THEN "stale"
                                  ELSE SessionStage(k)
                        /\ SessionStage(k)' # "trying"
      BY DEF SessionBatch
    <2>1. CASE k = t
      BY <1>0, <1>1, <2>1, NextStageIs DEF TypeOK
    <2>2. CASE k # t /\ pc[k] \in Tried
      <3>1. Publishes(t)
        BY <1>0, <1>1 DEF Publishes, Others, Moves, SameRequests, TypeOK, r
      <3>2. pc'[k] = pc[k] /\ loc'[k] = loc[k]
        BY <1>0, <1>1, <2>2 DEF TypeOK
      <3>3. loc'[k].old_sp # S'
        BY <1>0, <2>2, <3>1, <3>2, NobodyHasNew
           DEF CallInv, Tried, Serving, Marked, InAttempt, Writing
      <3> QED
        BY <2>2, <3>2, <3>3, StageIs, NextStageIs
    <2>3. CASE k # t /\ pc[k] \notin Tried
      <3>1. pc'[k] = pc[k] /\ pc[k] \in Labels
        BY <1>0, <1>1, <2>3 DEF TypeOK
      <3> QED
        BY <2>3, <3>1 DEF SessionStage, Trying, Tried, Serving, Marked
    <2> QED
      BY <2>1, <2>2, <2>3
  <1>10. \A k \in Threads : SessionStage(k) # "trying" => SessionBatch(k) = {}
    BY DEF SessionBatch
  <1>11. /\ \A k \in Threads : SessionParam(k)' = SessionParam(k)
         /\ DurableState' = DurableState /\ rec'[S'.index].st = w
    BY <1>1 DEF SessionParam, DurableState
  <1> HIDE DEF w, answers
  <1>12. Sessions!Publish(t, w, answers)
    BY <1>3, <1>7, <1>8, <1>9, <1>10, <1>11 DEF Sessions!Publish, B
  <1>13. answers \in [SessionBatch(t) -> RetVals]
    BY <1>2, <1>4 DEF answers, B
  <1> QED
    BY <1>2, <1>12, <1>13

(* What a flush of S makes durable (lines 198, 210).                         *)
LEMMA FlushedState ==
    ASSUME IndInv, FirstInv, nvm_S' = S, rec' = rec, clean' = clean
    PROVE  IF S.index # InitRec THEN DurableState' = rec[S.index].st
           ELSE DurableState' = DurableState
  <1>1. S \in Pointers /\ S # NoRec
    BY NoRecAssumption DEF IndInv, TypeInv, TypeOK
  <1>2. CASE S.index # InitRec
    <2>1. clean[S.index]
      BY <1>1, <1>2 DEF IndInv, CleanInv, ImageComplete, Pointers, Recs
    <2> QED
      BY <1>1, <1>2, <2>1 DEF DurableState
  <1>3. CASE S.index = InitRec
    BY <1>1, <1>3 DEF FirstInv, DurableState
  <1> QED
    BY <1>2, <1>3

LEMMA FlushSyncs ==
    ASSUME CallInv, NEW t \in Threads, FlushOwn(t)
    PROVE  Sessions!Sync(t)
  <1>0. IndInv /\ FirstInv /\ TypeOK
    BY DEF CallInv, IndInv, TypeInv
  <1>1. /\ S' = S /\ rec' = rec /\ clean' = clean /\ nvm_S' = S /\ loc' = loc
        /\ arg' = arg /\ valid' = valid /\ activate' = activate /\ Others(t)
        /\ pc[t] = "flush_S" /\ pc'[t] = "settle"
    BY <1>0 DEF FlushOwn, FlushS, FlushedPointer, At, Goto, requestVars, recordVars, TypeOK,
                Others
  <1>2. \A u \in Threads \ {t} : SameCall(u)
    BY <1>0, <1>1, OthersKept
  <1>3. SessionStage(t) = "published" /\ SessionStage(t)' = "synced"
    BY <1>1, StageIs, NextStageIs
  <1>4. SessionBatch(t) = {} /\ SessionBatch(t)' = {}
    BY <1>3 DEF SessionBatch
  <1>5. SessionPhase(t)' = SessionPhase(t) /\ SessionParam(t)' = SessionParam(t)
    BY <1>1 DEF SessionPhase, SessionParam, HasTakenEffect
  <1>6. DurableState' = rec[S.index].st
    BY <1>0, <1>1, FlushedState DEF FirstInv
  <1> QED
    BY <1>1, <1>2, <1>3, <1>4, <1>5, <1>6
       DEF Sessions!Sync, Sessions!Synced, Sessions!callVars, Sessions!recordVars, SameCall

(* S is flushed by a thread that was served, or evicted.                     *)
LEMMA FlushEvicts ==
    ASSUME CallInv, Evict \/ \E t \in Threads : HelpFlush(t)
    PROVE  Sessions!Evict \/ UNCHANGED Sessions!vars
  <1>0. IndInv /\ FirstInv /\ TypeOK
    BY DEF CallInv, IndInv, TypeInv
  <1>1. /\ S' = S /\ rec' = rec /\ clean' = clean /\ nvm_S' = S /\ loc' = loc
        /\ arg' = arg /\ valid' = valid /\ activate' = activate
    BY DEF HelpFlush, FlushS, FlushedPointer, requestVars, recordVars, Evict
  <1>2. \A u \in Threads : SamePart(u)
    BY <1>0, <1>1
       DEF HelpFlush, FlushS, At, Goto, Evict, SamePart, OutOfAttempt, Finishing, TypeOK
  <1>3. \A u \in Threads : SameCall(u)
    BY <1>0, <1>1, <1>2, CallKept
  <1>4. DurableState' = rec[S.index].st \/ DurableState' = DurableState
    BY <1>0, <1>1, FlushedState
  <1> QED
    BY <1>1, <1>3, <1>4
       DEF Sessions!Evict, Sessions!Synced, Sessions!vars, Sessions!callVars,
           Sessions!recordVars, SameCall

(* Lines 202 and 215. *)
LEMMA ReturnReturns ==
    ASSUME IndInv, NEW t \in Threads, Return(t, "return_own") \/ Return(t, "return_current")
    PROVE  Sessions!ReturnOwn(t) \/ Sessions!ReturnServed(t)
  <1>0. TypeOK
    BY DEF IndInv, TypeInv
  <1>1. /\ S' = S /\ rec' = rec /\ DurableState' = DurableState
        /\ arg' = arg /\ valid' = valid /\ activate' = activate /\ Others(t)
        /\ pc[t] \in {"return_own", "return_current"} /\ pc'[t] = "idle"
    BY <1>0 DEF Return, At, Goto, requestVars, recordVars, TypeOK, Others, DurableState
  <1>2. \A u \in Threads \ {t} : SameCall(u)
    BY <1>1, OthersKept
  <1>3. /\ SessionStage(t) = IF pc[t] = "return_own" THEN "synced" ELSE "out"
        /\ SessionStage(t)' = "out"
    BY <1>1, StageIs, NextStageIs DEF OutOfAttempt, Finishing
  <1>4. SessionBatch(t) = {} /\ SessionBatch(t)' = {}
    BY <1>3 DEF SessionBatch
  <1>5. SessionPhase(t) = "applied"
    BY <1>1 DEF IndInv, ServedInv, Settled, Finishing, SessionPhase
  <1>6. SessionPhase(t)' = "idle" /\ SessionParam(t)' = SessionParam(t)
    BY <1>1 DEF SessionPhase, SessionParam
  <1> QED
    BY <1>1, <1>2, <1>3, <1>4, <1>5, <1>6
       DEF Sessions!ReturnOwn, Sessions!ReturnServed, Sessions!recordVars, SameCall

-----------------------------------------------------------------------------
(* The invariant of the refinement                                           *)

(* Every step is one of these. *)
OneStep(t) ==
    \/ (\E a \in Args : WriteRequest(t, a)) \/ ToggleActivate(t)
    \/ Silent(t) \/ ReadActivate(t) \/ GivesUp(t)
    \/ (Publish(t) /\ loc[t].old_sp = S)
    \/ FlushOwn(t) \/ HelpFlush(t) \/ Return(t, "return_own") \/ Return(t, "return_current")

LEMMA FailureGivesUp ==
    ASSUME IndInv, TypeOK', NEW t \in Threads,
           (CheckPublish(t) \/ Publish(t)) /\ loc[t].old_sp # S
    PROVE  GivesUp(t)
  <1> TypeOK
    BY DEF IndInv, TypeInv
  <1>1. Retry(t) /\ pc[t] \in {"check_publish", "cas"}
    BY DEF CheckPublish, Publish, Unchanged_S, At
  <1>2. UNCHANGED <<requestVars, S, nvm_S, recordVars>>
    BY DEF CheckPublish, Publish, Unchanged_S, Local, recordVars, requestVars
  <1>3. pc'[t] \in {"read_S", "read_current"} /\ Others(t)
    BY <1>1, RetryLeaves DEF Others
  <1>4. pc'[t] \in Labels /\ loc'[t] \in Locals
    BY DEF TypeOK
  <1> QED
    BY <1>1, <1>2, <1>3, <1>4 DEF GivesUp, Alone, Tried, Marked

Moving(t) == Step(t) \/ \E a \in Args : WriteRequest(t, a)

LEMMA StepIsOne ==
    ASSUME IndInv, TypeOK', NEW t \in Threads, Moving(t)
    PROVE  OneStep(t)
  <1>1. CASE (CheckPublish(t) \/ Publish(t)) /\ loc[t].old_sp # S
    BY <1>1, FailureGivesUp DEF OneStep
  <1>2. CASE ~((CheckPublish(t) \/ Publish(t)) /\ loc[t].old_sp # S)
    BY <1>2, SilentStep DEF Moving, Step, Attempt, Finish, OneStep, Unchanged_S
  <1> QED
    BY <1>1, <1>2

(* What every step leaves alone. *)
LEMMA StepWrites ==
    ASSUME IndInv, NEW t \in Threads, OneStep(t)
    PROVE  /\ WritesOwn(t) /\ Others(t)
           /\ nvm_S' \in {nvm_S, S}
           /\ ~(Publish(t) /\ loc[t].old_sp = S) => S' = S /\ pc'[t] # "flush_S"
           /\ Publish(t) /\ loc[t].old_sp = S => S'.index = NextOf(t)
  <1> TypeOK
    BY DEF IndInv, TypeInv
  <1> USE DEF At, Goto, requestVars, recordVars, flushVars, TypeOK, Others, WritesOwn, Local
  <1>1. CASE \E a \in Args : WriteRequest(t, a)
    BY <1>1 DEF WriteRequest, Publish
  <1>2. CASE ToggleActivate(t)
    BY <1>2 DEF ToggleActivate, Publish
  <1>3. CASE Silent(t)
    <2>1. pc'[t] # "flush_S"
      BY <1>3 DEF Silent, SamePart, OutOfAttempt, Reading, Copying, Finishing, Tried,
                  Serving, Marked
    <2>2. S' = S
      BY <1>3 DEF Silent
    <2>3. Publish(t) /\ loc[t].old_sp = S => FALSE
      BY <2>1 DEF Publish, Unchanged_S
    <2> QED
      BY <1>3, <2>1, <2>2, <2>3 DEF Silent, Alone
  <1>4. CASE ReadActivate(t)
    <2>1. pc[t] = "read_activate" /\ Others(t) /\ pc'[t] # "flush_S"
      BY <1>4 DEF ReadActivate, Break
    <2> QED
      BY <1>4, <2>1 DEF ReadActivate, Publish
  <1>5. CASE GivesUp(t)
    BY <1>5 DEF GivesUp, Alone
  <1>6. CASE Publish(t) /\ loc[t].old_sp = S
    <2>1. loc[t].lsp = NextOf(t)
      BY <1>6, OwnRecords DEF Publish, Writing
    <2> QED
      BY <1>6, <2>1 DEF Publish, Unchanged_S
  <1>7. CASE FlushOwn(t) \/ HelpFlush(t)
    BY <1>7 DEF FlushOwn, HelpFlush, FlushS, FlushedPointer, Publish
  <1>8. CASE Return(t, "return_own") \/ Return(t, "return_current")
    BY <1>8 DEF Return, Publish
  <1> QED
    BY <1>1, <1>2, <1>3, <1>4, <1>5, <1>6, <1>7, <1>8 DEF OneStep

LEMMA FirstStep ==
    ASSUME IndInv, FirstInv, NEW t \in Threads, OneStep(t)
    PROVE  FirstInv'
  <1>1. /\ InitRec \in Recs /\ NextOf(t) # InitRec
    BY OwnRecords, RecFacts
  <1>2. ~clean'[InitRec]
    BY <1>1, StepWrites DEF WritesOwn, FirstInv
  <1>3. CASE Publish(t) /\ loc[t].old_sp = S
    <2>1. S'.index # InitRec
      BY <1>1, <1>3, StepWrites
    <2> QED
      BY <1>2, <2>1 DEF FirstInv
  <1>4. CASE ~(Publish(t) /\ loc[t].old_sp = S)
    <2>1. S' = S /\ nvm_S' \in {nvm_S, S}
      BY <1>4, StepWrites
    <2>2. ASSUME NEW u \in Threads, pc'[u] = "flush_S"
          PROVE  pc[u] = "flush_S"
      BY <1>4, <2>2, StepWrites DEF Others
    <2> QED
      BY <1>2, <2>1, <2>2 DEF FirstInv
  <1> QED
    BY <1>3, <1>4

(* Serving does not change what the copy has for the others.                 *)
LEMMA AnswersKept ==
    ASSUME NEW t \in Threads, AnswersOf(t), pc[t] \in Tried, pc'[t] \in Tried,
           S' = S, rec'[S.index] = rec[S.index],
           loc'[t].l_activate = loc[t].l_activate, loc'[t].lsp = loc[t].lsp,
           loc'[t].diffs \subseteq loc[t].diffs,
           \A k \in Threads : loc[t].l_activate[k] = rec[S.index].deactivate[k] =>
              rec'[loc[t].lsp].return_val[k] = rec[loc[t].lsp].return_val[k]
    PROVE  AnswersOf(t)'
  <1>1. pc'[t] \notin {"check_copy", "read_activate"}
    BY DEF Tried, Serving, Marked
  <1> QED
    BY <1>1 DEF AnswersOf

(* What t's own step does to its copy. *)
LEMMA OwnAnswers ==
    ASSUME IndInv, AnswersInv, NEW t \in Threads,
           Step(t), S' = S, rec'[S.index] = rec[S.index],
           loc'[t].old_sp = S, pc'[t] \in {"check_copy", "read_activate"} \union Tried
    PROVE  AnswersOf(t)'
  <1>0. TypeOK
    BY DEF IndInv, TypeInv
  <1>a. /\ S.index \in Recs /\ loc[t] \in Locals
        /\ pc[t] \in Writing => /\ loc[t].lsp \in Recs /\ loc[t].lsp # S.index
      BY <1>0, OwnRecords, Reads
  <1> USE DEF At, Goto, Local, requestVars, recordVars, flushVars
  <1>1. CASE CopyResults(t)
    <2>1. /\ pc[t] = "copy_results" /\ pc'[t] = "check_copy" /\ loc' = loc
          /\ loc[t].old_sp = S
          /\ rec'[loc[t].lsp].return_val = rec[S.index].return_val
      BY <1>0, <1>1, <1>a DEF CopyResults, TypeOK, Writing, Records
    <2> QED
      BY <2>1 DEF AnswersOf, Tried, Serving, Marked
  <1>2. CASE CheckCopy(t)
    <2>1. /\ pc[t] = "check_copy" /\ pc'[t] = "read_activate" /\ loc' = loc /\ rec' = rec
      <3>1. Unchanged_S(t)
        <4>1. ~Unchanged_S(t) => pc'[t] \in {"read_S", "read_current"}
          BY <1>0, <1>2, RetryLeaves DEF CheckCopy
        <4> QED
          BY <4>1 DEF Tried, Serving, Marked
      <3> QED
        BY <1>0, <1>2, <3>1 DEF CheckCopy, TypeOK
    <2> QED
      BY <2>1 DEF AnswersInv, AnswersOf, Tried, Serving, Marked
  <1>3. CASE ReadActivate(t)
    <2> DEFINE D == {k \in Threads : rec[loc[t].lsp].deactivate[k] # activate[k]}
    <2>0. t \in D /\ pc[t] = "read_activate"
      BY <1>3 DEF ReadActivate, IndInv, OwnInv
    <2>1. /\ rec' = rec
          /\ pc' = [pc EXCEPT ![t] = "serve_own"]
          /\ loc' = [loc EXCEPT ![t].diffs = D, ![t].l_activate = activate]
      BY <1>3, <2>0 DEF ReadActivate
    <2>x. D \subseteq Threads /\ \A k \in Threads : k \in D <=> rec[loc[t].lsp].deactivate[k] # activate[k]
      OBVIOUS
    <2> HIDE DEF D
    <2>2. /\ pc'[t] = "serve_own" /\ loc'[t].old_sp = loc[t].old_sp
          /\ loc'[t].lsp = loc[t].lsp
          /\ loc'[t].l_activate = activate /\ loc'[t].diffs = D
      BY <1>0, <1>a, <2>1 DEF TypeOK, Locals
    <2>3. /\ rec[loc[t].lsp].deactivate = rec[S.index].deactivate
          /\ rec[loc[t].lsp].return_val = rec[S.index].return_val
      BY <2>0, <2>2 DEF IndInv, CopyInv, Writing, Marked, AnswersInv, AnswersOf
    <2> QED
      BY <2>0, <2>1, <2>2, <2>3, <2>x DEF AnswersOf
  <1>4. CASE ServeOwn(t)
    <2>1. /\ pc[t] = "serve_own" /\ pc'[t] = "scan"
          /\ loc'[t].old_sp = loc[t].old_sp /\ loc'[t].lsp = loc[t].lsp
          /\ loc'[t].l_activate = loc[t].l_activate
          /\ loc'[t].diffs \subseteq loc[t].diffs
      BY <1>0, <1>4, <1>a DEF ServeOwn, TypeOK, Locals
    <2>2. \A k \in Threads : k # t =>
              rec'[loc[t].lsp].return_val[k] = rec[loc[t].lsp].return_val[k]
      <3>1. loc[t].lsp \in Recs
        BY <1>0, <2>1, <1>a, Reads DEF TypeOK, Writing
      <3>2. rec[loc[t].lsp].return_val \in [Threads -> RetVals]
        BY <1>0, <3>1 DEF TypeOK, Records
      <3>3. \E st, v :
               rec' = [rec EXCEPT ![loc[t].lsp].st = st, ![loc[t].lsp].return_val[t] = v]
        BY <1>4 DEF ServeOwn, Served
      <3> QED
        BY <1>0, <3>1, <3>2, <3>3 DEF TypeOK, Records
    <2>3. AnswersOf(t) /\ pc[t] \in Tried /\ pc'[t] \in Tried
      BY <2>1 DEF AnswersInv, Tried, Serving
    <2>4. loc[t].l_activate[t] # rec[S.index].deactivate[t]
      BY <2>3 DEF AnswersOf
    <2> QED
      BY <2>1, <2>2, <2>3, <2>4, AnswersKept
  <1>5. CASE LoadArg(t) \/ ServeOther(t)
    <2> DEFINE k == Min(loc[t].diffs)
    <2>1. /\ k \in loc[t].diffs /\ k \in Threads
      <3>1. loc[t].diffs # {}
        BY <1>5 DEF LoadArg, ServeOther, IndInv, TypeInv, OthersLeft
      <3>2. loc[t].diffs \subseteq Threads
        BY <1>0, Reads
      <3> QED
        BY <3>1, <3>2, MinIsMember, RecFacts
    <2>2. valid[k]
      BY <2>1 DEF IndInv, CalledInv
    <2> HIDE DEF k
    <2>3. /\ pc[t] \in {"scan", "serve"} /\ pc'[t] \in {"scan", "serve"}
          /\ loc'[t].old_sp = loc[t].old_sp /\ loc'[t].lsp = loc[t].lsp
          /\ loc'[t].l_activate = loc[t].l_activate
          /\ loc'[t].diffs \subseteq loc[t].diffs
      <3>1. CASE LoadArg(t)
        BY <1>0, <3>1, <2>2 DEF LoadArg, TypeOK, k
      <3>2. CASE ServeOther(t)
        BY <1>0, <3>2, <1>a DEF ServeOther, TypeOK, Locals
      <3> QED
        BY <1>5, <3>1, <3>2
    <2>4. \A i \in Threads : i # k =>
              rec'[loc[t].lsp].return_val[i] = rec[loc[t].lsp].return_val[i]
      <3>1. loc[t].lsp \in Recs /\ rec[loc[t].lsp].return_val \in [Threads -> RetVals]
        BY <1>0, Reads
      <3>2. CASE LoadArg(t)
        <4>1. rec' = [rec EXCEPT ![loc[t].lsp].return_val[k] = AsVal(arg[k])]
          BY <3>2, <2>2 DEF LoadArg, k
        <4> QED
          BY <1>0, <3>1, <4>1 DEF TypeOK, Records
      <3>3. CASE ServeOther(t)
        <4>1. rec' = Served(loc[t].lsp, arg[k], k)
          BY <3>3 DEF ServeOther, k
        <4> QED
          BY <1>0, <3>1, <4>1 DEF TypeOK, Records, Served
      <3> QED
        BY <1>5, <3>2, <3>3
    <2>5. AnswersOf(t) /\ pc[t] \in Tried /\ pc'[t] \in Tried
      BY <2>3 DEF AnswersInv, Tried, Serving
    <2>6. loc[t].l_activate[k] # rec[S.index].deactivate[k]
      BY <2>1, <2>5 DEF AnswersOf
    <2> QED
      BY <2>3, <2>4, <2>5, <2>6, AnswersKept
  <1>6. CASE MarkServed(t)
    <2>1. /\ pc[t] = "scan" /\ pc'[t] = "check_publish" /\ loc' = loc
      BY <1>0, <1>6 DEF MarkServed, TypeOK
    <2>2. rec'[loc[t].lsp].return_val = rec[loc[t].lsp].return_val
      BY <1>0, <1>6, <1>a, <2>1, Reads DEF MarkServed, TypeOK, Records
    <2>3. AnswersOf(t) /\ pc[t] \in Tried /\ pc'[t] \in Tried
      BY <2>1 DEF AnswersInv, Tried, Serving, Marked
    <2> QED
      BY <2>1, <2>2, <2>3, AnswersKept
  <1>7. CASE CheckPublish(t) \/ FlushRecord(t) \/ SetFlush(t) \/ SetRound(t)
    <2>1. /\ pc[t] \in Marked /\ rec' = rec
          /\ pc'[t] \in Marked => /\ loc'[t].old_sp = loc[t].old_sp
                                  /\ loc'[t].lsp = loc[t].lsp
                                  /\ loc'[t].l_activate = loc[t].l_activate
                                  /\ loc'[t].diffs = loc[t].diffs
          /\ pc'[t] \in Marked \union {"read_S", "read_current"}
      <3>1. CASE CheckPublish(t)
        BY <1>0, <3>1, RetryLeaves DEF CheckPublish, TypeOK, Marked
      <3>2. CASE FlushRecord(t) \/ SetFlush(t) \/ SetRound(t)
        BY <1>0, <3>2, <1>a DEF FlushRecord, SetFlush, SetRound, TypeOK, Locals, Marked
      <3> QED
        BY <1>7, <3>1, <3>2
    <2>2. pc'[t] \in Marked
      BY <2>1 DEF Tried, Serving, Marked
    <2>3. AnswersOf(t) /\ pc[t] \in Tried /\ pc'[t] \in Tried
      BY <2>1, <2>2 DEF AnswersInv, Tried
    <2> QED
      BY <2>1, <2>2, <2>3, AnswersKept
  <1>8. CASE Publish(t)
    <2>1. pc'[t] \in {"flush_S", "read_S", "read_current"}
      BY <1>0, <1>8, RetryLeaves DEF Publish, TypeOK
    <2> QED
      BY <2>1 DEF Tried, Serving, Marked
  <1>9. CASE ToggleActivate(t) \/ ReadS(t) \/ ReadDiffs(t) \/ ReadFlush(t) \/ CheckS(t)
             \/ CopyState(t) \/ FlushOwn(t) \/ SettleOwn(t) \/ Return(t, "return_own")
             \/ Finish(t)
    <2>1. pc'[t] \notin {"check_copy", "read_activate"} \union Tried
      <3>1. CASE CheckS(t)
        BY <1>0, <3>1, RetryLeaves DEF CheckS, Break, TypeOK, Tried, Serving, Marked
      <3>2. CASE ~CheckS(t)
        BY <1>0, <1>9, <3>2
           DEF ToggleActivate, ReadS, ReadDiffs, ReadFlush, CopyState, FlushOwn, SettleOwn,
               FlushS, Settle, Return, Finish, ReadCurrent, ReadCurrentFlush, CheckRound,
               HelpFlush, HelpSettle, TypeOK, Tried, Serving, Marked
      <3> QED
        BY <3>1, <3>2
    <2> QED
      BY <2>1
  <1> QED
    BY <1>1, <1>2, <1>3, <1>4, <1>5, <1>6, <1>7, <1>8, <1>9 DEF Step, Attempt

(* The others' copies do not change. *)
LEMMA AnswersStep ==
    ASSUME CallInv, IndInv', Unwrapped, NEW t \in Threads, Moving(t), OneStep(t)
    PROVE  AnswersInv'
  <1>0. IndInv /\ TypeOK /\ TypeInv /\ SeqInv
    BY DEF CallInv, IndInv, TypeInv
  <1> SUFFICES ASSUME NEW u \in Threads, loc'[u].old_sp = S',
                      pc'[u] \in {"check_copy", "read_activate"} \union Tried
               PROVE  AnswersOf(u)'
    BY DEF AnswersInv, AnswersOf
  <1>1. pc'[u] \in Writing
    BY DEF Tried, Serving, Marked, Writing
  <1>2. CASE Publish(t) /\ loc[t].old_sp = S
    <2>1. Publishes(t)
      BY <1>0, <1>2 DEF Publish, Unchanged_S, Publishes, Others, Moves, SameRequests, TypeOK,
                        At, Goto, requestVars, recordVars
    <2> QED
      BY <1>0, <1>1, <2>1, NobodyHasNew DEF InAttempt
  <1>3. CASE ~(Publish(t) /\ loc[t].old_sp = S)
    <2>1. S' = S /\ rec'[S.index] = rec[S.index] /\ Others(t) /\ WritesOwn(t)
      BY <1>0, <1>3, StepWrites, CurrentKept
    <2>2. CASE u # t
      <3>1. pc'[u] = pc[u] /\ loc'[u] = loc[u]
        BY <2>1, <2>2 DEF Others
      <3>2. loc[u].lsp = NextOf(u) /\ loc[u].lsp \in Recs /\ loc[u].lsp # NextOf(t)
        <4>1. pc[u] \in Writing
          BY <1>1, <3>1
        <4>2. loc[u].lsp = NextOf(u) /\ NextOf(u) \in Recs
          BY <1>0, <4>1, OwnRecords
        <4>3. NextOf(u) # NextOf(t)
          BY <2>2 DEF NextOf
        <4> QED
          BY <4>2, <4>3
      <3>3. rec'[loc[u].lsp] = rec[loc[u].lsp]
        BY <2>1, <3>2 DEF WritesOwn
      <3>4. AnswersOf(u)
        BY <2>1, <3>1 DEF CallInv, AnswersInv
      <3> QED
        BY <2>1, <3>1, <3>3, <3>4 DEF AnswersOf
    <2>3. CASE u = t
      <3>1. CASE Step(t)
        BY <1>0, <2>1, <2>3, <3>1, OwnAnswers DEF CallInv
      <3>2. CASE \E a \in Args : WriteRequest(t, a)
        <4>1. pc'[t] = "activate"
          BY <1>0, <3>2 DEF WriteRequest, Goto, TypeOK
        <4> QED
          BY <2>3, <4>1 DEF Tried, Serving, Marked
      <3> QED
        BY <3>1, <3>2 DEF Moving
    <2> QED
      BY <2>2, <2>3
  <1> QED
    BY <1>2, <1>3

LEMMA EvictKeeps ==
    ASSUME CallInv, Evict
    PROVE  FirstInv' /\ AnswersInv'
  <1>1. S' = S /\ rec' = rec /\ clean' = clean /\ pc' = pc /\ loc' = loc /\ nvm_S' = S
    BY DEF Evict, FlushedPointer, recordVars
  <1> QED
    BY <1>1 DEF CallInv, FirstInv, AnswersInv, AnswersOf

(* The copies and the requests stay, and so does what is shown of them.      *)
LEMMA NothingKept ==
    ASSUME CallInv, UNCHANGED vars
    PROVE  FirstInv' /\ AnswersInv' /\ UNCHANGED Sessions!vars
  <1>1. /\ S' = S /\ rec' = rec /\ clean' = clean /\ pc' = pc /\ loc' = loc /\ nvm_S' = nvm_S
        /\ arg' = arg /\ valid' = valid /\ activate' = activate
    BY DEF vars, requestVars, recordVars
  <1>2. \A u \in Threads : SameCall(u)
    BY <1>1, CallKept DEF CallInv, SamePart
  <1>3. DurableState' = DurableState
    BY <1>1 DEF DurableState
  <1>4. FirstInv' /\ AnswersInv'
    BY <1>1 DEF CallInv, FirstInv, AnswersInv, AnswersOf
  <1> QED
    BY <1>1, <1>2, <1>3, <1>4
       DEF Sessions!vars, Sessions!callVars, Sessions!recordVars, SameCall

(* A step of a thread is a step of the interface.                            *)
LEMMA MovingIsSession ==
    ASSUME CallInv, Unwrapped, NEW t \in Threads, OneStep(t)
    PROVE  [Sessions!Next]_Sessions!vars
  <1>0. IndInv
    BY DEF CallInv
  <1>1. ASSUME NEW a \in Args, WriteRequest(t, a)
        PROVE  Sessions!Next
    BY <1>0, <1>1, RequestInvokes DEF Sessions!Next
  <1>2. CASE ToggleActivate(t)
    BY <1>0, <1>2, ToggleStutters
  <1>3. CASE Silent(t)
    BY <1>0, <1>3, SilentStutters
  <1>4. CASE ReadActivate(t)
    <2>1. \/ \E threads \in SUBSET Sessions!Pending : Sessions!Start(t, threads)
          \/ Sessions!StartLate(t)
      BY <1>0, <1>4, ReadingStarts
    <2> QED
      BY <2>1 DEF Sessions!Next
  <1>5. CASE GivesUp(t)
    <2>1. Sessions!GiveUp(t)
      BY <1>0, <1>5, GivesUpGivesUp
    <2> QED
      BY <2>1 DEF Sessions!Next
  <1>6. CASE Publish(t) /\ loc[t].old_sp = S
    <2>1. PICK w \in ObjStates, answers \in [SessionBatch(t) -> RetVals] :
             Sessions!Publish(t, w, answers)
      BY <1>6, PublishPublishes
    <2> QED
      BY <2>1 DEF Sessions!Next
  <1>7. CASE FlushOwn(t)
    <2>1. Sessions!Sync(t)
      BY <1>7, FlushSyncs
    <2> QED
      BY <2>1 DEF Sessions!Next
  <1>8. CASE HelpFlush(t)
    <2>1. Sessions!Evict \/ UNCHANGED Sessions!vars
      BY <1>8, FlushEvicts
    <2> QED
      BY <2>1 DEF Sessions!Next
  <1>9. CASE Return(t, "return_own") \/ Return(t, "return_current")
    <2>1. Sessions!ReturnOwn(t) \/ Sessions!ReturnServed(t)
      BY <1>0, <1>9, ReturnReturns
    <2> QED
      BY <2>1 DEF Sessions!Next
  <1> QED
    BY <1>1, <1>2, <1>3, <1>4, <1>5, <1>6, <1>7, <1>8, <1>9 DEF OneStep

LEMMA CallInit == Init => CallInv /\ Sessions!Init
  <1> SUFFICES ASSUME Init
               PROVE  CallInv /\ Sessions!Init
    OBVIOUS
  <1>1. IndInv
    BY IndInvInit
  <1>2. /\ S = [index |-> InitRec, seq |-> 0] /\ nvm_S = NoRec
        /\ InitRec \in Recs /\ ~clean[InitRec]
        /\ rec[InitRec].st = InitialState
        /\ rec[InitRec].return_val = [t \in Threads |-> ZeroVal]
        /\ \A t \in Threads : pc[t] = "idle" /\ ~valid[t]
    BY RecFacts DEF Init
  <1>3. FirstInv
    BY <1>2 DEF FirstInv
  <1>4. AnswersInv
    BY <1>2 DEF AnswersInv, AnswersOf, Tried, Serving, Marked
  <1>5. ASSUME NEW t \in Threads
        PROVE  /\ SessionPhase(t) = "idle" /\ SessionStage(t) = "out"
               /\ SessionParam(t) = <<"no arg">> /\ SessionBatch(t) = {}
    <2>1. SessionStage(t) = "out"
      BY <1>2, StageIs
    <2> QED
      BY <1>2, <2>1 DEF SessionPhase, SessionParam, SessionBatch
  <1>6. DurableState = Unformatted
    BY <1>2 DEF DurableState
  <1> QED
    BY <1>1, <1>2, <1>3, <1>4, <1>5, <1>6 DEF CallInv, Sessions!Init

LEMMA CallStep ==
    ASSUME CallInv, Unwrapped, [Next]_vars
    PROVE  CallInv' /\ [Sessions!Next]_Sessions!vars
  <1>0. IndInv /\ FirstInv
    BY DEF CallInv
  <1>1. IndInv'
    BY <1>0, IndInvStep
  <1>2. TypeOK'
    BY <1>1 DEF IndInv, TypeInv
  <1>3. CASE UNCHANGED vars
    BY <1>1, <1>3, NothingKept DEF CallInv
  <1>4. CASE Evict
    <2>1. Sessions!Evict \/ UNCHANGED Sessions!vars
      BY <1>4, FlushEvicts
    <2> QED
      BY <1>1, <1>4, <2>1, EvictKeeps DEF CallInv, Sessions!Next
  <1>5. ASSUME NEW t \in Threads, Moving(t)
        PROVE  CallInv' /\ [Sessions!Next]_Sessions!vars
    <2>1. OneStep(t)
      BY <1>0, <1>2, <1>5, StepIsOne
    <2>2. FirstInv'
      BY <1>0, <2>1, FirstStep
    <2>3. AnswersInv'
      BY <1>1, <1>5, <2>1, AnswersStep
    <2>4. [Sessions!Next]_Sessions!vars
      BY <2>1, MovingIsSession
    <2> QED
      BY <1>1, <2>2, <2>3, <2>4 DEF CallInv
  <1> QED
    BY <1>3, <1>4, <1>5 DEF Next, Moving

(* The number of S does not come round when nothing happens. *)
LEMMA UnwrappedStep ==
    ASSUME CallInv, [Next /\ Unwrapped]_vars
    PROVE  Unwrapped /\ [Next]_vars
  <1>1. S.seq \in Nat
    BY DEF CallInv, IndInv, TypeInv, TypeOK, Pointers
  <1> QED
    BY <1>1 DEF vars, Unwrapped

(* PWFCombApplyOp provides the sessions PWFStack and PWFQueue are built on   *)
(* (pwfcomb.c:111-215), however many threads call and however often, as long *)
(* as the number in S does not come round.  The sessions say that a call     *)
(* returns after the attempt that applied it was published, not that it is   *)
(* durable by then: it need not be (ReturnedDurable, line 178).              *)
THEOREM ProvidesSessions == UnwrappedSpec => ImplementsSessions
  <1>1. CallInv /\ [Next /\ Unwrapped]_vars => CallInv'
    <2> SUFFICES ASSUME CallInv, [Next /\ Unwrapped]_vars
                 PROVE  CallInv'
      OBVIOUS
    <2> QED
      BY UnwrappedStep, CallStep
  <1>2. CallInv /\ [Next /\ Unwrapped]_vars => [Sessions!Next]_Sessions!vars
    <2> SUFFICES ASSUME CallInv, [Next /\ Unwrapped]_vars
                 PROVE  [Sessions!Next]_Sessions!vars
      OBVIOUS
    <2> QED
      BY UnwrappedStep, CallStep
  <1> QED
    BY <1>1, <1>2, CallInit, PTL DEF UnwrappedSpec, Spec, ImplementsSessions, Sessions!Spec

(* So does the specification that the run pwfcomb checks: its bound on the   *)
(* calls allows nothing else.                                                *)
THEOREM BoundedProvidesSessions == MCSpec /\ [][Unwrapped]_vars => ImplementsSessions
  <1>1. MCInit => Init
    BY DEF MCInit
  <1>2. [MCNext]_<<vars, left>> => [Next]_vars
    BY DEF MCNext, Next
  <1> QED
    BY <1>1, <1>2, ProvidesSessions, PTL DEF MCSpec, UnwrappedSpec, Spec

-----------------------------------------------------------------------------
(* PWFcomb implements BufferedObject: operations that take effect one after  *)
(* another                                                                   *)

(* The fold of the abstract object: a function of the subsets of the indices.*)
Combine(done, t) == Abstract!ApplyOne(done, t)

FoldsTo(base, seq, D, f) ==
    f = [s \in SUBSET D |-> IF s = {} THEN base
                            ELSE Combine(f[s \ {Max(s)}], seq[Max(s)])]

LEMMA FoldIs ==
    ASSUME NEW base, NEW seq
    PROVE  Abstract!FoldLeft(Abstract!ApplyOne, base, seq) =
             (CHOOSE f : FoldsTo(base, seq, DOMAIN seq, f))[DOMAIN seq]
  BY DEF Abstract!FoldLeft, Abstract!MapThenFoldSet, Abstract!Max, Max, Combine, FoldsTo

(* Induction, for a set of natural numbers. *)
LEMMA CountingUp ==
    ASSUME NEW G, 0 \in G, \A i \in Nat : i \in G => i + 1 \in G
    PROVE  \A i \in Nat : i \in G
  <1> DEFINE Left == {i \in Nat : i \notin G}
  <1>1. CASE Left = {}
    BY <1>1
  <1>2. CASE Left # {}
    <2>1. PICK m \in Left : \A i \in Left : m <= i
      BY <1>2, LeastNatural
    <2>2. m \in Nat /\ m \notin G /\ m # 0
      OBVIOUS
    <2>3. m - 1 \in Nat /\ m - 1 \notin Left
      BY <2>1, <2>2
    <2>4. m - 1 \in G /\ m = (m - 1) + 1
      BY <2>2, <2>3
    <2> QED
      BY <2>2, <2>3, <2>4
  <1> QED
    BY <1>1, <1>2

LEMMA LastIndex ==
    ASSUME NEW n \in Nat, NEW s, s \subseteq 1 .. n + 1, n + 1 \in s
    PROVE  Max(s) = n + 1
  <1>1. \A y \in s : n + 1 >= y
    OBVIOUS
  <1>2. \A x \in s : (\A y \in s : x >= y) => x = n + 1
    OBVIOUS
  <1> QED
    BY <1>1, <1>2 DEF Max

LEMMA FoldExists ==
    ASSUME NEW base, NEW seq
    PROVE  \A n \in Nat : \E f : FoldsTo(base, seq, 1 .. n, f)
  <1> DEFINE G == {n \in Nat : \E f : FoldsTo(base, seq, 1 .. n, f)}
  <1>1. 0 \in G
    <2> DEFINE f == [s \in SUBSET (1 .. 0) |-> base]
    <2>1. \A s \in SUBSET (1 .. 0) : s = {}
      OBVIOUS
    <2>2. FoldsTo(base, seq, 1 .. 0, f)
      BY <2>1 DEF FoldsTo
    <2> QED
      BY <2>2
  <1>2. ASSUME NEW n \in Nat, n \in G
        PROVE  n + 1 \in G
    <2>1. PICK f : FoldsTo(base, seq, 1 .. n, f)
      BY <1>2
    <2> DEFINE g == [s \in SUBSET (1 .. n + 1) |->
                        IF n + 1 \in s THEN Combine(f[s \ {n + 1}], seq[n + 1]) ELSE f[s]]
    <2>2. ASSUME NEW s \in SUBSET (1 .. n + 1)
          PROVE  g[s] = IF s = {} THEN base ELSE Combine(g[s \ {Max(s)}], seq[Max(s)])
      <3>1. CASE n + 1 \in s
        <4>1. Max(s) = n + 1
          BY <3>1, LastIndex
        <4>2. g[s \ {n + 1}] = f[s \ {n + 1}]
          OBVIOUS
        <4> QED
          BY <3>1, <4>1, <4>2
      <3>2. CASE n + 1 \notin s
        <4>1. s \in SUBSET (1 .. n)
          BY <3>2
        <4>a. \A r \in SUBSET (1 .. n) : r \in SUBSET (1 .. n + 1) /\ n + 1 \notin r
          OBVIOUS
        <4>b. \A r \in SUBSET (1 .. n) : g[r] = f[r]
          BY <4>a
        <4>2. g[s] = f[s] /\ g[s \ {Max(s)}] = f[s \ {Max(s)}]
          BY <4>1, <4>b
        <4>3. f[s] = IF s = {} THEN base ELSE Combine(f[s \ {Max(s)}], seq[Max(s)])
          BY <2>1, <4>1 DEF FoldsTo
        <4> QED
          BY <4>2, <4>3
      <3> QED
        BY <3>1, <3>2
    <2>3. DOMAIN g = SUBSET (1 .. n + 1)
      OBVIOUS
    <2> HIDE DEF g
    <2>4. g = [s \in SUBSET (1 .. n + 1) |-> g[s]]
      BY <2>3 DEF g
    <2>5. FoldsTo(base, seq, 1 .. n + 1, g)
      BY <2>2, <2>4 DEF FoldsTo
    <2> QED
      BY <2>5
  <1> HIDE DEF G
  <1>3. \A n \in Nat : n \in G
    BY <1>1, <1>2, CountingUp
  <1> QED
    BY <1>3 DEF G

(* The fold of a sequence, by what it is after each of its elements.         *)
LEMMA FoldTrace ==
    ASSUME NEW n \in Nat, NEW seq, DOMAIN seq = 1 .. n, NEW tr,
           \A i \in 1 .. n : tr[i] = Combine(tr[i - 1], seq[i])
    PROVE  Abstract!FoldLeft(Abstract!ApplyOne, tr[0], seq) = tr[n]
  <1> DEFINE f == CHOOSE f : FoldsTo(tr[0], seq, DOMAIN seq, f)
  <1>1. FoldsTo(tr[0], seq, 1 .. n, f)
    BY FoldExists
  <1>2. Abstract!FoldLeft(Abstract!ApplyOne, tr[0], seq) = f[1 .. n]
    BY FoldIs
  <1> HIDE DEF f
  <1> DEFINE G == {i \in Nat : i <= n => f[1 .. i] = tr[i]}
  <1>3. 0 \in G
    BY <1>1 DEF FoldsTo
  <1>4. ASSUME NEW i \in Nat, i \in G
        PROVE  i + 1 \in G
    <2> SUFFICES ASSUME i + 1 <= n
                 PROVE  f[1 .. i + 1] = tr[i + 1]
      OBVIOUS
    <2>1. Max(1 .. i + 1) = i + 1
      BY LastIndex
    <2>2. (1 .. i + 1) \ {i + 1} = 1 .. i
      OBVIOUS
    <2>3. 1 .. i + 1 \in SUBSET (1 .. n) /\ 1 .. i + 1 # {}
      OBVIOUS
    <2>4. f[1 .. i + 1] = Combine(f[1 .. i], seq[i + 1])
      <3> DEFINE s == 1 .. i + 1
      <3>1. s \in SUBSET (1 .. n) /\ s # {} /\ Max(s) = i + 1 /\ s \ {i + 1} = 1 .. i
        BY <2>1, <2>2, <2>3
      <3> HIDE DEF s
      <3>2. f[s] = Combine(f[s \ {Max(s)}], seq[Max(s)])
        BY <1>1, <3>1 DEF FoldsTo
      <3> QED
        BY <3>1, <3>2 DEF s
    <2>5. f[1 .. i] = tr[i] /\ i + 1 \in 1 .. n
      BY <1>4
    <2> QED
      BY <2>4, <2>5
  <1> HIDE DEF G
  <1>5. n \in G
    BY <1>3, <1>4, CountingUp
  <1> QED
    BY <1>2, <1>5 DEF G

(* The threads of done have been served one after another, with arguments    *)
(* args, from state first on to state last; their return values are in ret.  *)
InOrder(args, first, last, ret, done, n, order, st) ==
    /\ n \in Nat /\ order \in [1 .. n -> Threads]
    /\ \A i, j \in 1 .. n : i # j => order[i] # order[j]
    /\ done = {order[i] : i \in 1 .. n}
    /\ st[0] = first /\ st[n] = last
    /\ \A i \in 1 .. n :
          /\ st[i] = SFunc(st[i - 1], args[order[i]], order[i]).state
          /\ ret[order[i]] = SFunc(st[i - 1], args[order[i]], order[i]).ret

ServedAll(args, first, last, ret, done) ==
    \E n, order, st : InOrder(args, first, last, ret, done, n, order, st)

LEMMA NoneServed ==
    ASSUME NEW args, NEW first, NEW ret
    PROVE  ServedAll(args, first, first, ret, {})
  <1> DEFINE order == [i \in 1 .. 0 |-> 0]
             st == [i \in {0} |-> first]
  <1>1. InOrder(args, first, first, ret, {}, 0, order, st)
    BY DEF InOrder
  <1> QED
    BY <1>1 DEF ServedAll

LEMMA StillServed ==
    ASSUME NEW args, NEW first, NEW last, NEW ret, NEW done,
           ServedAll(args, first, last, ret, done), NEW a, NEW x,
           \A k \in done : a[k] = args[k] /\ x[k] = ret[k]
    PROVE  ServedAll(a, first, last, x, done)
  <1>1. PICK n, order, st : InOrder(args, first, last, ret, done, n, order, st)
    BY DEF ServedAll
  <1>2. \A i \in 1 .. n : a[order[i]] = args[order[i]] /\ x[order[i]] = ret[order[i]]
    BY <1>1 DEF InOrder
  <1>3. InOrder(a, first, last, x, done, n, order, st)
    BY <1>1, <1>2 DEF InOrder
  <1> QED
    BY <1>3 DEF ServedAll

LEMMA OneMoreServed ==
    ASSUME NEW args, NEW first, NEW last, NEW ret, NEW done,
           ServedAll(args, first, last, ret, done),
           NEW k \in Threads, k \notin done, NEW x,
           \A u \in done : x[u] = ret[u], x[k] = SFunc(last, args[k], k).ret
    PROVE  ServedAll(args, first, SFunc(last, args[k], k).state, x, done \union {k})
  <1>1. PICK n, order, st : InOrder(args, first, last, ret, done, n, order, st)
    BY DEF ServedAll
  <1>0. n \in Nat /\ order \in [1 .. n -> Threads]
    BY <1>1 DEF InOrder
  <1> DEFINE new == SFunc(last, args[k], k).state
             ord == [i \in 1 .. n + 1 |-> IF i <= n THEN order[i] ELSE k]
             sts == [i \in 0 .. n + 1 |-> IF i <= n THEN st[i] ELSE new]
  <1>2. \A i \in 1 .. n : ord[i] = order[i] /\ ord[i] \in done /\ sts[i] = st[i]
                            /\ sts[i - 1] = st[i - 1]
    BY <1>0, <1>1 DEF InOrder
  <1>3. ord[n + 1] = k /\ sts[n + 1] = new /\ sts[n] = last /\ sts[0] = first
    BY <1>0, <1>1 DEF InOrder
  <1>4. n + 1 \in Nat /\ ord \in [1 .. n + 1 -> Threads]
    BY <1>0
  <1> HIDE DEF new, ord, sts
  <1>5. \A i \in 1 .. n + 1 : i \in 1 .. n \/ i = n + 1
    BY <1>0
  <1>6. \A i, j \in 1 .. n + 1 : i # j => ord[i] # ord[j]
    BY <1>1, <1>2, <1>3, <1>5 DEF InOrder
  <1>7. done \union {k} = {ord[i] : i \in 1 .. n + 1}
    <2>1. done = {order[i] : i \in 1 .. n}
      BY <1>1 DEF InOrder
    <2>2. n + 1 \in 1 .. n + 1 /\ \A i \in 1 .. n : i \in 1 .. n + 1
      BY <1>0
    <2> QED
      BY <1>2, <1>3, <1>5, <2>1, <2>2
  <1>8. ASSUME NEW i \in 1 .. n + 1
        PROVE  /\ sts[i] = SFunc(sts[i - 1], args[ord[i]], ord[i]).state
               /\ x[ord[i]] = SFunc(sts[i - 1], args[ord[i]], ord[i]).ret
    <2>1. CASE i \in 1 .. n
      <3>1. /\ st[i] = SFunc(st[i - 1], args[order[i]], order[i]).state
            /\ ret[order[i]] = SFunc(st[i - 1], args[order[i]], order[i]).ret
        BY <1>1, <2>1 DEF InOrder
      <3> QED
        BY <1>2, <2>1, <3>1
    <2>2. CASE i = n + 1
      <3>1. i - 1 = n
        BY <1>0, <2>2
      <3> QED
        BY <1>3, <2>2, <3>1 DEF new
    <2> QED
      BY <1>5, <2>1, <2>2
  <1>9. InOrder(args, first, new, x, done \union {k}, n + 1, ord, sts)
    BY <1>3, <1>4, <1>6, <1>7, <1>8 DEF InOrder
  <1> QED
    BY <1>9 DEF ServedAll, new

LEMMA SameCardinality == \A D : Abstract!Cardinality(D) = Cardinality(D)
  BY DEF Abstract!Cardinality, Cardinality

(* What was served one after another is what the abstract object applies at  *)
(* one instant.                                                              *)
LEMMA AppliedAtOnce ==
    ASSUME NEW first, NEW last, NEW ret, NEW done,
           ServedAll(arg, first, last, ret, done),
           \A k \in done : AbstractPhase(k) = "pending", NEW R
    PROVE  \E order \in Abstract!SetToSeqs(done) :
              Abstract!FoldLeft(Abstract!ApplyOne,
                    [object |-> first, result |-> [k \in Threads |-> R[k]]], order)
              = [object |-> last,
                 result |-> [k \in Threads |-> IF k \in done THEN ret[k] ELSE R[k]]]
  <1>1. PICK n, order, st : InOrder(arg, first, last, ret, done, n, order, st)
    BY DEF ServedAll
  <1>0. n \in Nat /\ order \in [1 .. n -> Threads] /\ order \in [1 .. n -> done]
    BY <1>1 DEF InOrder
  <1> DEFINE upto(i) == {order[j] : j \in 1 .. i}
             tr == [i \in 0 .. n |->
                       [object |-> st[i],
                        result |-> [k \in Threads |->
                                       IF k \in upto(i) THEN ret[k] ELSE R[k]]]]
  <1>2. ASSUME NEW i \in 1 .. n
        PROVE  tr[i] = Combine(tr[i - 1], order[i])
    <2> DEFINE o == order[i]
    <2>0. i - 1 \in 0 .. n /\ i \in 0 .. n /\ o \in Threads /\ o \in done
      BY <1>0
    <2>1. upto(i) = upto(i - 1) \union {o}
      <3>1. 1 .. i = (1 .. i - 1) \union {i}
        BY <1>0
      <3> QED
        BY <3>1
    <2>2. /\ st[i] = SFunc(st[i - 1], arg[o], o).state
          /\ ret[o] = SFunc(st[i - 1], arg[o], o).ret
      BY <1>1 DEF InOrder
    <2> DEFINE before == [k \in Threads |-> IF k \in upto(i - 1) THEN ret[k] ELSE R[k]]
               after == [k \in Threads |-> IF k \in upto(i) THEN ret[k] ELSE R[k]]
    <2>3. tr[i] = [object |-> st[i], result |-> after]
      BY <2>0
    <2>4. tr[i - 1] = [object |-> st[i - 1], result |-> before]
      BY <2>0
    <2>5. after = [before EXCEPT ![o] = ret[o]]
      <3> HIDE DEF o
      <3>1. \A k \in Threads : k \in upto(i) <=> k \in upto(i - 1) \/ k = o
        BY <2>1
      <3> HIDE DEF upto
      <3> QED
        BY <2>0, <3>1
    <2> HIDE DEF o, upto, tr, before, after
    <2>6. Combine(tr[i - 1], o) = [object |-> SFunc(st[i - 1], arg[o], o).state,
                                   result |-> [before EXCEPT ![o] =
                                                   SFunc(st[i - 1], arg[o], o).ret]]
      <3>1. [t \in Threads |-> AbstractParam(t)][o] = arg[o]
        BY <2>0 DEF AbstractParam
      <3>2. tr[i - 1].object = st[i - 1] /\ tr[i - 1].result = before
        BY <2>4
      <3> QED
        BY <3>1, <3>2 DEF Combine, Abstract!ApplyOne
    <2> QED
      BY <2>2, <2>3, <2>5, <2>6 DEF o
  <1>3. /\ tr[0] = [object |-> first, result |-> [k \in Threads |-> R[k]]]
        /\ tr[n] = [object |-> last,
                    result |-> [k \in Threads |-> IF k \in done THEN ret[k] ELSE R[k]]]
    <2>1. upto(0) = {} /\ upto(n) = done
      BY <1>1 DEF InOrder
    <2>2. tr[0] = [object |-> st[0],
                   result |-> [k \in Threads |-> IF k \in upto(0) THEN ret[k] ELSE R[k]]]
      BY <1>0
    <2>3. tr[n] = [object |-> st[n],
                   result |-> [k \in Threads |-> IF k \in upto(n) THEN ret[k] ELSE R[k]]]
      BY <1>0
    <2>4. st[0] = first /\ st[n] = last
      BY <1>1 DEF InOrder
    <2> HIDE DEF tr, upto
    <2> QED
      BY <2>1, <2>2, <2>3, <2>4
  <1> HIDE DEF tr
  <1>4. Abstract!FoldLeft(Abstract!ApplyOne, tr[0], order) = tr[n]
    <2>1. DOMAIN order = 1 .. n
      BY <1>0
    <2> QED
      BY <1>0, <1>2, <2>1, FoldTrace
  <1>5. order \in Abstract!SetToSeqs(done)
    <2>1. Cardinality(done) = n
      <3>1. order \in Bijection(1 .. n, done)
        <4>1. \A i, j \in 1 .. n : order[i] = order[j] => i = j
          BY <1>1 DEF InOrder
        <4>2. \A k \in done : \E i \in 1 .. n : order[i] = k
          BY <1>1 DEF InOrder
        <4> QED
          BY <1>0, <4>1, <4>2
             DEF Bijection, Injection, Surjection, IsInjective
      <3> QED
        BY <1>0, <3>1, FS_CountingElements DEF ExistsBijection
    <2>2. \A i, j \in 1 .. n : i # j => order[i] # order[j]
      BY <1>1 DEF InOrder
    <2> QED
      BY <1>0, <2>1, <2>2, SameCardinality DEF Abstract!SetToSeqs
  <1> QED
    BY <1>3, <1>4, <1>5

-----------------------------------------------------------------------------
(* What a call returns (pwfcomb.c:202, 215)                                  *)

(* t has a record from which it will read its return value, or which it has  *)
(* published.                                                                *)
Holding == {"flush_S", "settle", "return_own", "read_current_flush", "check_round",
            "help_flush", "help_settle", "return_current"}

(* The attempt of o treats the operation of t as done and copies its result. *)
Knows(o, t) ==
    /\ rec[loc[o].old_sp.index].deactivate[t] = activate[t]
    /\ rec[loc[o].old_sp.index].return_val[t] = rec[S.index].return_val[t]
    /\ pc[o] \in Writing => rec[loc[o].lsp].deactivate[t] = activate[t]
    /\ pc[o] \in Writing \ {"copy_results"} =>
          rec[loc[o].lsp].return_val[t] = rec[S.index].return_val[t]
    /\ pc[o] \in Tried => t \notin loc[o].diffs /\ loc[o].l_activate[t] = activate[t]

(* So do all attempts that began at number n or later; and who writes into   *)
(* the record from which t returns is one of these.                          *)
AnsweredFrom(t, n) ==
    /\ n \in Nat /\ n <= S.seq
    /\ \A o \in Threads : pc[o] \in InAttempt /\ n <= loc[o].old_sp.seq => Knows(o, t)
    /\ pc[t] \in Holding =>
          /\ rec[loc[t].lsp].return_val[t] = rec[S.index].return_val[t]
          /\ \A o \in Threads : pc[o] \in InAttempt /\ NextOf(o) = loc[t].lsp =>
                n <= loc[o].old_sp.seq

ResultInv ==
    /\ \A o \in Threads : pc[o] = "serve_own" => o \in loc[o].diffs
    /\ \A t \in Threads : HasTakenEffect(t) => \E n : AnsweredFrom(t, n)

(* What p writes into its record is right for t. *)
WritesRight(p, t) ==
    LET r == NextOf(p) IN
    /\ rec'[r].deactivate[t] \in {rec[r].deactivate[t], activate[t]}
    /\ rec'[r].return_val[t] \in {rec[r].return_val[t], rec[S.index].return_val[t]}

(* A step of p that writes no record. *)
LEMMA WritesNothing ==
    ASSUME NEW p \in Threads, NEW t \in Threads, rec' = rec
    PROVE  WritesRight(p, t)
  BY DEF WritesRight

LEMMA KnowingKept ==
    ASSUME IndInv, ResultInv, NEW p \in Threads, NEW t \in Threads, Step(p), S' = S,
           rec'[S.index] = rec[S.index], WritesOwn(p),
           activate' = activate, HasTakenEffect(t),
           pc[p] \in InAttempt => Knows(p, t)
    PROVE  WritesRight(p, t) /\ (pc'[p] \in InAttempt => Knows(p, t)')
  <1>0. TypeOK
    BY DEF IndInv, TypeInv
  <1>a. /\ S.index \in Recs /\ loc[p] \in Locals
        /\ pc[p] \in Writing => /\ loc[p].lsp \in Recs /\ loc[p].lsp = NextOf(p)
                                /\ loc[p].lsp # S.index
    BY <1>0, OwnRecords, Reads
  <1>b. pc[p] \in InAttempt => /\ loc[p].old_sp.index # NextOf(p)
                               /\ loc[p].old_sp.index \in Recs
                               /\ rec'[loc[p].old_sp.index] = rec[loc[p].old_sp.index]
    <2>1. pc[p] \in InAttempt => loc[p].old_sp.seq \in Nat
      BY <1>0, Reads DEF Pointers
    <2>2. pc[p] \in InAttempt => loc[p].old_sp.index # NextOf(p)
      BY <2>1 DEF IndInv, FreeInv
    <2> QED
      BY <1>0, <2>2, Reads DEF WritesOwn
  <1>c. Writing \subseteq InAttempt /\ Tried \subseteq Writing
    BY DEF InAttempt, Writing, Tried, Serving, Marked
  (* A step that keeps the records and the attempt. *)
  <1>d. ASSUME pc[p] \in InAttempt, rec' = rec, loc'[p].old_sp = loc[p].old_sp,
               pc'[p] \in Writing => /\ pc[p] \in Writing \ {"copy_results"}
                                     /\ loc'[p].lsp = loc[p].lsp,
               pc'[p] \in Tried => /\ pc[p] \in Tried
                                   /\ loc'[p].diffs \subseteq loc[p].diffs
                                   /\ loc'[p].l_activate = loc[p].l_activate
        PROVE  WritesRight(p, t) /\ Knows(p, t)'
    BY <1>d, WritesNothing DEF Knows
  <1> USE DEF At, Goto, Local, requestVars, recordVars, flushVars
  <1>1. CASE ReadS(p)
    <2>1. /\ rec' = rec /\ pc'[p] = "read_diffs" /\ loc'[p].old_sp = S
      BY <1>0, <1>1, <1>a DEF ReadS, TypeOK, Locals
    <2>2. pc'[p] \notin Writing /\ pc'[p] \notin Tried
      BY <2>1 DEF Writing, Tried, Serving, Marked
    <2> QED
      BY <2>1, <2>2, WritesNothing DEF Knows, HasTakenEffect
  <1>2. CASE ReadDiffs(p) \/ ReadFlush(p)
    <2>1. /\ rec' = rec /\ pc[p] \in InAttempt /\ loc'[p].old_sp = loc[p].old_sp
          /\ pc'[p] \notin Writing
      BY <1>0, <1>2, <1>a DEF ReadDiffs, ReadFlush, TypeOK, Locals, InAttempt, Reading, Writing
    <2> QED
      BY <1>c, <1>d, <2>1
  <1>3. CASE CheckS(p)
    <2>1. /\ rec' = rec /\ pc[p] \in InAttempt
          /\ pc'[p] \in InAttempt => pc'[p] = "copy" /\ loc'[p].old_sp = loc[p].old_sp
      BY <1>0, <1>3, RetryLeaves DEF CheckS, Break, TypeOK, InAttempt, Reading, Writing
    <2>2. pc'[p] \in InAttempt => pc'[p] \notin Writing
      BY <2>1 DEF Writing
    <2> QED
      BY <1>c, <1>d, <2>1, <2>2, WritesNothing
  <1>4. CASE CopyState(p)
    <2> DEFINE from == loc[p].old_sp.index
               to == LocalIndex(p, from)
    <2>1. pc[p] = "copy" /\ pc[p] \in InAttempt /\ pc'[p] = "copy_results"
      BY <1>0, <1>4 DEF CopyState, TypeOK, InAttempt, Reading
    <2>2. to = NextOf(p)
      <3>1. loc[p].old_sp.seq <= loc[p].old_sp.seq
        BY <1>0, Reads DEF Pointers
      <3>2. rec[from].index[p] = rec[S.index].index[p]
        BY <2>1, <3>1 DEF IndInv, IndexInv
      <3> QED
        BY <3>2 DEF LocalIndex, NextOf
    <2>3. /\ rec' = [rec EXCEPT ![to] = [rec[from] EXCEPT !.return_val = rec[to].return_val]]
          /\ loc' = [loc EXCEPT ![p].lsp = to, ![p].diffs = {}]
      BY <1>4 DEF CopyState
    <2> HIDE DEF to
    <2>4. to \in Recs /\ rec[from] \in Records
      BY <1>0, <1>b, <2>1, <2>2, OwnRecords, Reads
    <2>5. /\ rec'[to].deactivate = rec[from].deactivate
          /\ rec'[to].return_val = rec[to].return_val
          /\ loc'[p].old_sp = loc[p].old_sp /\ loc'[p].lsp = to
      BY <1>0, <1>a, <2>3, <2>4 DEF TypeOK, Records, Locals
    <2>6. Knows(p, t) /\ pc'[p] \notin Tried
      BY <2>1 DEF Tried, Serving, Marked
    <2>7. WritesRight(p, t)
      BY <2>2, <2>5, <2>6 DEF WritesRight, Knows
    <2>8. Knows(p, t)'
      BY <1>b, <2>1, <2>5, <2>6 DEF Knows
    <2> QED
      BY <2>7, <2>8
  <1>5. CASE CopyResults(p)
    <2>1. /\ pc[p] = "copy_results" /\ pc'[p] = "check_copy" /\ loc' = loc
          /\ pc[p] \in Writing /\ pc[p] \in InAttempt
          /\ rec' = [rec EXCEPT ![loc[p].lsp].return_val =
                        rec[loc[p].old_sp.index].return_val]
      BY <1>0, <1>5 DEF CopyResults, TypeOK, Writing, InAttempt
    <2>2. /\ rec'[loc[p].lsp].deactivate = rec[loc[p].lsp].deactivate
          /\ rec'[loc[p].lsp].return_val = rec[loc[p].old_sp.index].return_val
      BY <1>0, <1>a, <2>1 DEF TypeOK, Records
    <2>3. Knows(p, t) /\ pc'[p] \notin Tried
      BY <2>1 DEF Tried, Serving, Marked
    <2>4. WritesRight(p, t)
      BY <1>a, <2>1, <2>2, <2>3 DEF WritesRight, Knows
    <2>5. Knows(p, t)'
      BY <1>b, <2>1, <2>2, <2>3 DEF Knows
    <2> QED
      BY <2>4, <2>5
  <1>6. CASE CheckCopy(p)
    <2>1. /\ rec' = rec /\ pc[p] = "check_copy"
          /\ pc'[p] \in InAttempt => pc'[p] = "read_activate" /\ loc' = loc
      BY <1>0, <1>6, RetryLeaves DEF CheckCopy, TypeOK, InAttempt, Reading, Writing
    <2>2. /\ pc[p] \in InAttempt /\ pc[p] \in Writing \ {"copy_results"}
          /\ pc'[p] = "read_activate" => pc'[p] \notin Tried
      BY <2>1 DEF InAttempt, Writing, Tried, Serving, Marked
    <2> QED
      BY <1>d, <2>1, <2>2, WritesNothing
  <1>7. CASE ReadActivate(p)
    <2> DEFINE D == {k \in Threads : rec[loc[p].lsp].deactivate[k] # activate[k]}
    <2>0. p \in D /\ pc[p] = "read_activate"
      BY <1>7 DEF ReadActivate, IndInv, OwnInv
    <2>1. /\ rec' = rec
          /\ pc' = [pc EXCEPT ![p] = "serve_own"]
          /\ loc' = [loc EXCEPT ![p].diffs = D, ![p].l_activate = activate]
      BY <1>7, <2>0 DEF ReadActivate
    <2>2. /\ pc[p] \in InAttempt /\ pc[p] \in Writing \ {"copy_results"}
      BY <2>0 DEF InAttempt, Writing
    <2>3. Knows(p, t)
      BY <2>2
    <2>4. t \notin D
      BY <2>2, <2>3 DEF Knows
    <2> HIDE DEF D
    <2>5. /\ pc'[p] = "serve_own" /\ loc'[p].old_sp = loc[p].old_sp
          /\ loc'[p].lsp = loc[p].lsp
          /\ loc'[p].l_activate = activate /\ loc'[p].diffs = D
      BY <1>0, <1>a, <2>1 DEF TypeOK, Locals
    <2>6. Knows(p, t)'
      BY <2>1, <2>2, <2>3, <2>4, <2>5 DEF Knows
    <2> QED
      BY <2>1, <2>6, WritesNothing
  <1>8. CASE ServeOwn(p) \/ LoadArg(p) \/ ServeOther(p)
    <2>1. pc[p] \in Tried /\ Knows(p, t)
      <3>1. pc[p] \in Tried
        BY <1>8 DEF ServeOwn, LoadArg, ServeOther, Tried, Serving
      <3> QED
        BY <1>c, <3>1
    <2>2. t \notin loc[p].diffs
      BY <2>1 DEF Knows
    <2>3. \E v, s : \E k \in loc[p].diffs :
             /\ valid[k]
             /\ \/ rec' = [rec EXCEPT ![loc[p].lsp].return_val[k] = v]
                \/ rec' = [rec EXCEPT ![loc[p].lsp].st = s, ![loc[p].lsp].return_val[k] = v]
      <3>1. CASE ServeOwn(p)
        <4>1. p \in loc[p].diffs
          BY <3>1 DEF ResultInv, ServeOwn
        <4>2. valid[p]
          BY <4>1 DEF IndInv, CalledInv
        <4> QED
          BY <3>1, <4>1, <4>2 DEF ServeOwn, Served
      <3>2. CASE LoadArg(p) \/ ServeOther(p)
        <4>1. Min(loc[p].diffs) \in loc[p].diffs /\ Min(loc[p].diffs) \in Threads
          <5>1. loc[p].diffs # {}
            BY <3>2 DEF LoadArg, ServeOther, IndInv, TypeInv, OthersLeft
          <5>2. loc[p].diffs \subseteq Threads
            BY <1>0, Reads
          <5> QED
            BY <5>1, <5>2, MinIsMember, RecFacts
        <4>2. valid[Min(loc[p].diffs)]
          BY <4>1 DEF IndInv, CalledInv
        <4> QED
          BY <3>2, <4>1, <4>2 DEF LoadArg, ServeOther, Served
      <3> QED
        BY <1>8, <3>1, <3>2
    <2>4. PICK v, s, k :
             /\ k \in loc[p].diffs /\ valid[k]
             /\ \/ rec' = [rec EXCEPT ![loc[p].lsp].return_val[k] = v]
                \/ rec' = [rec EXCEPT ![loc[p].lsp].st = s, ![loc[p].lsp].return_val[k] = v]
      BY <2>3
    <2>5. /\ rec'[loc[p].lsp].deactivate = rec[loc[p].lsp].deactivate
          /\ rec'[loc[p].lsp].return_val[t] = rec[loc[p].lsp].return_val[t]
      <3>1. /\ loc[p].lsp \in Recs /\ rec[loc[p].lsp] \in Records
            /\ rec[loc[p].lsp].return_val \in [Threads -> RetVals]
            /\ k # t /\ DOMAIN rec = Recs
        BY <1>0, <2>2, <2>4, Reads DEF TypeOK
      <3> QED
        BY <2>4, <3>1 DEF Records
    <2>6. /\ loc'[p].old_sp = loc[p].old_sp /\ loc'[p].lsp = loc[p].lsp
          /\ loc'[p].l_activate = loc[p].l_activate /\ loc'[p].diffs \subseteq loc[p].diffs
          /\ pc'[p] \in Serving
      <3>1. CASE ServeOwn(p) \/ ServeOther(p)
        BY <1>0, <1>a, <3>1 DEF ServeOwn, ServeOther, TypeOK, Locals, Serving
      <3>2. CASE LoadArg(p)
        <4>1. Min(loc[p].diffs) \in loc[p].diffs /\ Min(loc[p].diffs) \in Threads
          BY <1>0, <3>2, MinIsMember, RecFacts, Reads DEF LoadArg
        <4>2. valid[Min(loc[p].diffs)]
          BY <4>1 DEF IndInv, CalledInv
        <4> QED
          BY <1>0, <3>2, <4>2 DEF LoadArg, TypeOK, Serving
      <3> QED
        BY <1>8, <3>1, <3>2
    <2>7. pc[p] \in Writing \ {"copy_results"} /\ pc[p] \in InAttempt
      BY <1>c, <2>1 DEF Tried, Serving, Marked
    <2>8. WritesRight(p, t)
      BY <1>a, <2>5, <2>7 DEF WritesRight
    <2>9. Knows(p, t)'
      BY <1>b, <2>1, <2>5, <2>6, <2>7 DEF Knows
    <2> QED
      BY <2>8, <2>9
  <1>9. CASE MarkServed(p)
    <2>1. /\ pc[p] = "scan" /\ pc'[p] = "check_publish" /\ loc' = loc
          /\ pc[p] \in Writing \ {"copy_results"} /\ pc[p] \in InAttempt /\ pc[p] \in Tried
          /\ rec' = [rec EXCEPT ![loc[p].lsp].deactivate = loc[p].l_activate,
                                ![loc[p].lsp].index = Flipped(@, p)]
      BY <1>0, <1>9 DEF MarkServed, TypeOK, Writing, InAttempt, Tried, Serving
    <2>2. /\ rec'[loc[p].lsp].deactivate = loc[p].l_activate
          /\ rec'[loc[p].lsp].return_val = rec[loc[p].lsp].return_val
      BY <1>0, <1>a, <2>1 DEF TypeOK, Records
    <2>3. Knows(p, t)
      BY <2>1
    <2>4. WritesRight(p, t)
      BY <1>a, <2>1, <2>2, <2>3 DEF WritesRight, Knows
    <2>5. Knows(p, t)'
      BY <1>b, <2>1, <2>2, <2>3 DEF Knows
    <2> QED
      BY <2>4, <2>5
  <1>10. CASE CheckPublish(p) \/ FlushRecord(p) \/ SetFlush(p) \/ SetRound(p)
    <2>1. /\ pc[p] \in Marked /\ rec' = rec
          /\ pc'[p] \in InAttempt => /\ loc'[p].old_sp = loc[p].old_sp
                                     /\ loc'[p].lsp = loc[p].lsp
                                     /\ loc'[p].l_activate = loc[p].l_activate
                                     /\ loc'[p].diffs = loc[p].diffs
      <3>1. CASE CheckPublish(p)
        BY <1>0, <3>1, RetryLeaves DEF CheckPublish, TypeOK, Marked, InAttempt, Reading, Writing
      <3>2. CASE FlushRecord(p) \/ SetFlush(p) \/ SetRound(p)
        BY <1>0, <3>2, <1>a DEF FlushRecord, SetFlush, SetRound, TypeOK, Locals, Marked
      <3> QED
        BY <1>10, <3>1, <3>2
    <2>2. pc[p] \in Tried /\ pc[p] \in Writing \ {"copy_results"} /\ pc[p] \in InAttempt
      BY <2>1 DEF Tried, Marked, Writing, InAttempt
    <2> QED
      BY <1>d, <2>1, <2>2, WritesNothing
  <1>11. CASE \/ ToggleActivate(p) \/ Publish(p) \/ FlushOwn(p) \/ SettleOwn(p)
              \/ Return(p, "return_own") \/ Finish(p)
    <2>1. rec' = rec /\ pc'[p] \notin InAttempt
      <3>1. CASE Publish(p)
        BY <1>0, <3>1, RetryLeaves DEF Publish, TypeOK, InAttempt, Reading, Writing
      <3>2. CASE ~Publish(p)
        BY <1>0, <1>11, <3>2
           DEF ToggleActivate, FlushOwn, SettleOwn, FlushS, Settle, Return, Finish,
               ReadCurrent, ReadCurrentFlush, CheckRound, HelpFlush, HelpSettle, TypeOK,
               InAttempt, Reading, Writing
      <3> QED
        BY <3>1, <3>2
    <2> QED
      BY <2>1, WritesNothing
  <1> QED
    BY <1>1, <1>2, <1>3, <1>4, <1>5, <1>6, <1>7, <1>8, <1>9, <1>10, <1>11 DEF Step, Attempt

(* A session is published: a thread that it serves has its answer from now   *)
(* on; the one that published knew the answers of the others.                *)
LEMMA ResultPublished ==
    ASSUME CallInv, ResultInv, Unwrapped, IndInv', NEW p \in Threads, Publish(p),
           loc[p].old_sp = S
    PROVE  ResultInv'
  <1>0. IndInv /\ TypeOK /\ TypeInv /\ SeqInv
    BY DEF CallInv, IndInv, TypeInv
  <1> USE DEF At, Goto, requestVars, recordVars
  <1>1. /\ pc[p] = "cas" /\ pc' = [pc EXCEPT ![p] = "flush_S"]
        /\ S' = [index |-> loc[p].lsp, seq |-> NextSeq(S.seq)] /\ S'.index = loc[p].lsp
        /\ activate' = activate /\ rec' = rec /\ loc' = loc
    BY DEF Publish, Unchanged_S
  <1>2. Publishes(p)
    BY <1>0, <1>1 DEF Publish, Unchanged_S, Publishes, Others, Moves, SameRequests, TypeOK
  <1>3. S.seq \in Nat /\ S'.seq = S.seq + 1
    <2>1. SomeKind(p)
      BY <1>2 DEF SomeKind
    <2> QED
      BY <1>0, <1>2, <2>1, SeqGrows DEF Pointers, TypeOK
  <1>4. ASSUME NEW o \in Threads, pc'[o] \in InAttempt
        PROVE  /\ o # p /\ pc[o] \in InAttempt /\ pc'[o] = pc[o]
               /\ loc[o].old_sp.seq \in Nat /\ loc[o].old_sp.seq <= S.seq
    <2>1. o # p /\ pc[o] \in InAttempt /\ pc'[o] = pc[o]
      BY <1>0, <1>2, <1>4, NobodyHasNew
    <2> QED
      BY <1>0, <2>1, Reads DEF SeqInv, Pointers
  <1>5. ASSUME NEW o \in Threads
        PROVE  NextOf(o)' # S'.index
    BY DEF IndInv, FreeInv
  <1>6. ASSUME NEW o \in Threads, o # p
        PROVE  NextOf(o)' = NextOf(o)
    <2>1. rec[loc[p].lsp].index = Flipped(rec[S.index].index, p)
      BY <1>0, <1>1 DEF IndInv, CopyInv, Writing, Marked
    <2>2. rec[S.index].index \in [Threads -> {0, 1}]
      BY <1>0, Reads DEF Bits
    <2>3. rec[loc[p].lsp].index[o] = rec[S.index].index[o]
      BY <1>6, <2>1, <2>2 DEF Flipped
    <2> QED
      BY <1>1, <2>3 DEF NextOf
  <1>7. ASSUME NEW t \in Threads, HasTakenEffect(t)'
        PROVE  \E n : AnsweredFrom(t, n)'
    <2>1. CASE ~HasTakenEffect(t)
      <3>1. pc'[t] \in Holding => t = p
        <4>1. t # p => pc'[t] = pc[t]
          BY <1>0, <1>1 DEF TypeOK
        <4>2. pc[t] \in Holding => HasTakenEffect(t)
          BY <1>0 DEF IndInv, ServedInv, Settled, Finishing, Holding
        <4> QED
          BY <2>1, <4>1, <4>2
      <3>2. \A o \in Threads : pc'[o] \in InAttempt => ~(S'.seq <= loc'[o].old_sp.seq)
        BY <1>1, <1>3, <1>4
      <3>3. PICK n : n = S'.seq
        OBVIOUS
      <3>4. n \in Nat /\ n <= S'.seq
        BY <1>3, <3>3
      <3>5. pc'[t] \in Holding =>
               /\ rec'[loc'[t].lsp].return_val[t] = rec'[S'.index].return_val[t]
               /\ \A o \in Threads : NextOf(o)' # loc'[t].lsp
        BY <1>1, <1>5, <3>1
      <3>6. AnsweredFrom(t, n)'
        BY <3>2, <3>3, <3>4, <3>5 DEF AnsweredFrom
      <3> QED
        BY <3>6
    <2>2. CASE HasTakenEffect(t)
      <3>1. PICK n : AnsweredFrom(t, n)
        BY <2>2 DEF ResultInv
      <3>2. n \in Nat /\ n <= S.seq /\ n <= S'.seq
        BY <1>3, <3>1 DEF AnsweredFrom
      <3>3. Knows(p, t)
        BY <1>1, <3>1, <3>2 DEF AnsweredFrom, InAttempt, Writing
      <3>4. rec'[S'.index].return_val[t] = rec[S.index].return_val[t]
        BY <1>1, <3>3 DEF Knows, Writing
      <3>5. ASSUME NEW o \in Threads, pc'[o] \in InAttempt, n <= loc'[o].old_sp.seq
            PROVE  Knows(o, t)'
        <4>1. pc'[o] = pc[o] /\ Knows(o, t)
          BY <1>1, <1>4, <3>1, <3>5 DEF AnsweredFrom
        <4> QED
          BY <1>1, <3>4, <4>1 DEF Knows
      <3>6. ASSUME pc'[t] \in Holding
            PROVE  /\ rec'[loc'[t].lsp].return_val[t] = rec'[S'.index].return_val[t]
                   /\ \A o \in Threads : pc'[o] \in InAttempt /\ NextOf(o)' = loc'[t].lsp =>
                         n <= loc'[o].old_sp.seq
        <4>1. CASE t = p
          BY <1>1, <1>5, <4>1
        <4>2. CASE t # p
          <5>1. pc[t] \in Holding
            BY <1>0, <1>1, <3>6, <4>2 DEF TypeOK
          <5> QED
            BY <1>1, <1>4, <1>6, <3>1, <3>4, <5>1 DEF AnsweredFrom
        <4> QED
          BY <4>1, <4>2
      <3>7. AnsweredFrom(t, n)'
        BY <3>2, <3>5, <3>6 DEF AnsweredFrom
      <3> QED
        BY <3>7
    <2> QED
      BY <2>1, <2>2
  <1>8. \A o \in Threads : pc'[o] = "serve_own" => o \in loc'[o].diffs
    BY <1>0, <1>1 DEF ResultInv, TypeOK
  <1> QED
    BY <1>7, <1>8 DEF ResultInv

(* A thread in an attempt keeps the S it has read. *)
LEMMA SameAttempt ==
    ASSUME IndInv, NEW p \in Threads, Step(p), pc[p] \in InAttempt, pc'[p] \in InAttempt
    PROVE  loc'[p].old_sp = loc[p].old_sp
  <1>0. TypeInv /\ TypeOK /\ CalledInv /\ OwnInv /\ Next
    BY DEF IndInv, TypeInv, Next
  <1>1. PICK t \in Threads : SomeKind(t)
    BY <1>0, StepKinds
  <1>2. ~(p = t /\ Starts(t))
    BY DEF Starts, Moves, InAttempt, Reading, Writing
  <1> QED
    BY <1>0, <1>1, <1>2, AttemptBefore

(* Where t holds a record, it comes to it from there, or by line 207.        *)
LEMMA HoldingKept ==
    ASSUME IndInv, NEW t \in Threads, Step(t), S' = S, pc'[t] \in Holding
    PROVE  /\ rec' = rec
           /\ \/ pc[t] \in Holding /\ loc'[t].lsp = loc[t].lsp
              \/ pc[t] = "read_current" /\ loc'[t].lsp = S.index
  <1>0. TypeOK
    BY DEF IndInv, TypeInv
  <1>a. loc[t] \in Locals
    BY <1>0, Reads
  <1> USE DEF At, Goto, Local, requestVars, recordVars, flushVars, Holding
  <1>1. CASE FlushOwn(t) \/ SettleOwn(t) \/ HelpFlush(t) \/ HelpSettle(t) \/ CheckRound(t)
    BY <1>0, <1>1 DEF FlushOwn, SettleOwn, HelpFlush, HelpSettle, FlushS, Settle, CheckRound,
                      TypeOK
  <1>2. CASE ReadCurrent(t) \/ ReadCurrentFlush(t)
    BY <1>0, <1>a, <1>2 DEF ReadCurrent, ReadCurrentFlush, TypeOK, Locals
  <1>3. CASE Publish(t)
    <2>1. CASE loc[t].old_sp = S
      <3>1. S'.index = loc[t].lsp /\ pc[t] = "cas"
        BY <1>3, <2>1 DEF Publish, Unchanged_S
      <3> QED
        BY <1>0, <2>1, <3>1, OwnRecords DEF Writing
    <2>2. CASE loc[t].old_sp # S
      BY <1>0, <1>3, <2>2, RetryLeaves DEF Publish, Unchanged_S
    <2> QED
      BY <2>1, <2>2
  <1>4. CASE CheckS(t) \/ CheckCopy(t) \/ CheckPublish(t) \/ ReadActivate(t)
    BY <1>0, <1>4, RetryLeaves DEF CheckS, CheckCopy, CheckPublish, ReadActivate, Break, TypeOK
  <1>5. CASE \/ ToggleActivate(t) \/ ReadS(t) \/ ReadDiffs(t) \/ ReadFlush(t) \/ CopyState(t)
             \/ CopyResults(t) \/ ServeOwn(t) \/ LoadArg(t) \/ ServeOther(t) \/ MarkServed(t)
             \/ FlushRecord(t) \/ SetFlush(t) \/ SetRound(t)
             \/ Return(t, "return_own") \/ Return(t, "return_current")
    <2>1. CASE LoadArg(t)
      BY <1>0, <2>1 DEF LoadArg, TypeOK
    <2>2. CASE ~LoadArg(t)
      BY <1>0, <1>5, <2>2
         DEF ToggleActivate, ReadS, ReadDiffs, ReadFlush, CopyState, CopyResults, ServeOwn,
             ServeOther, MarkServed, FlushRecord, SetFlush, SetRound, Return, TypeOK
    <2> QED
      BY <2>1, <2>2
  <1> QED
    BY <1>1, <1>2, <1>3, <1>4, <1>5 DEF Step, Attempt, Finish

LEMMA ResultKept ==
    ASSUME CallInv, ResultInv, NEW p \in Threads, Step(p), OneStep(p),
           ~(Publish(p) /\ loc[p].old_sp = S)
    PROVE  \A t \in Threads : HasTakenEffect(t)' => \E n : AnsweredFrom(t, n)'
  <1> SUFFICES ASSUME NEW t \in Threads, HasTakenEffect(t)'
               PROVE  \E n : AnsweredFrom(t, n)'
    OBVIOUS
  <1>0. IndInv /\ TypeOK
    BY DEF CallInv, IndInv, TypeInv
  <1>1. S' = S /\ rec'[S.index] = rec[S.index] /\ Others(p) /\ WritesOwn(p)
    BY <1>0, StepWrites, CurrentKept
  <1>2. activate'[t] = activate[t] /\ HasTakenEffect(t) /\ (activate' = activate \/ rec' = rec)
    <2>1. CASE ToggleActivate(p)
      <3>1. /\ rec' = rec /\ pc[p] = "activate"
            /\ activate' = [activate EXCEPT ![p] = 1 - @]
        BY <2>1 DEF ToggleActivate, At, recordVars
      <3>2. t # p
        <4> SUFFICES ASSUME t = p
                     PROVE  FALSE
          OBVIOUS
        <4>1. activate \in [Threads -> {0, 1}]
          BY <1>0 DEF TypeOK, Bits
        <4>2. activate'[t] # activate[t]
          BY <3>1, <4>1, OtherBit
        <4>3. HasTakenEffect(t)
          BY <1>0, <3>1 DEF IndInv, ServedInv
        <4> QED
          BY <1>1, <4>2, <4>3 DEF HasTakenEffect
      <3> QED
        BY <1>0, <1>1, <3>1, <3>2 DEF TypeOK, HasTakenEffect
    <2>2. CASE ~ToggleActivate(p)
      <3>1. activate' = activate
        BY <2>2 DEF Step, Attempt, Finish, ReadS, ReadDiffs, ReadFlush, CheckS, CopyState,
                    CopyResults, CheckCopy, ReadActivate, ServeOwn, LoadArg, ServeOther,
                    MarkServed, CheckPublish, FlushRecord, SetFlush, SetRound, Publish,
                    FlushOwn, SettleOwn, FlushS, Settle, Return, ReadCurrent,
                    ReadCurrentFlush, CheckRound, HelpFlush, HelpSettle, Local, requestVars
      <3> QED
        BY <1>1, <3>1 DEF HasTakenEffect
    <2> QED
      BY <2>1, <2>2
  <1>3. PICK n : AnsweredFrom(t, n)
    BY <1>2 DEF ResultInv
  <1>4. n \in Nat /\ n <= S.seq /\ S.seq \in Nat
    BY <1>0, <1>3 DEF AnsweredFrom, TypeOK, Pointers
  <1>5. \A o \in Threads : NextOf(o)' = NextOf(o)
    BY <1>1 DEF NextOf
  <1>6. ASSUME NEW o \in Threads, o # p
        PROVE  pc'[o] = pc[o] /\ loc'[o] = loc[o]
    BY <1>1, <1>6 DEF Others
  (* The step of p, if p is in an attempt from n on. *)
  <1>7. ASSUME pc[p] \in InAttempt => n <= loc[p].old_sp.seq
        PROVE  WritesRight(p, t) /\ (pc'[p] \in InAttempt => Knows(p, t)')
    <2>1. pc[p] \in InAttempt => Knows(p, t)
      BY <1>3, <1>7 DEF AnsweredFrom
    <2>2. CASE activate' = activate
      BY <1>0, <1>1, <1>2, <2>1, <2>2, KnowingKept
    <2>3. CASE activate' # activate
      <3>1. ToggleActivate(p)
        BY <2>3 DEF Step, Attempt, Finish, ReadS, ReadDiffs, ReadFlush, CheckS, CopyState,
                    CopyResults, CheckCopy, ReadActivate, ServeOwn, LoadArg, ServeOther,
                    MarkServed, CheckPublish, FlushRecord, SetFlush, SetRound, Publish,
                    FlushOwn, SettleOwn, FlushS, Settle, Return, ReadCurrent,
                    ReadCurrentFlush, CheckRound, HelpFlush, HelpSettle, Local, requestVars
      <3>2. pc'[p] = "read_S" /\ rec' = rec
        BY <1>0, <3>1 DEF ToggleActivate, Goto, TypeOK, recordVars
      <3> QED
        BY <3>2, WritesNothing DEF InAttempt, Reading, Writing
    <2> QED
      BY <2>2, <2>3
  <1>8. pc'[p] \in InAttempt /\ pc[p] \in InAttempt => loc'[p].old_sp = loc[p].old_sp
    BY <1>0, SameAttempt
  <1>9. pc'[p] \in InAttempt /\ pc[p] \notin InAttempt => loc'[p].old_sp = S
    <2>1. TypeInv /\ CalledInv /\ OwnInv /\ Next
      BY <1>0 DEF IndInv, Next
    <2>2. PICK u \in Threads : SomeKind(u)
      BY <2>1, StepKinds
    <2> QED
      BY <2>1, <2>2, AttemptBefore DEF Starts
  <1>10. ASSUME NEW o \in Threads, pc'[o] \in InAttempt, n <= loc'[o].old_sp.seq
         PROVE  Knows(o, t)'
    <2>1. CASE o = p
      <3>1. pc[p] \in InAttempt => n <= loc[p].old_sp.seq
        BY <1>8, <1>10, <2>1
      <3> QED
        BY <1>7, <1>10, <2>1, <3>1
    <2>2. CASE o # p
      <3>1. pc'[o] = pc[o] /\ loc'[o] = loc[o] /\ pc[o] \in InAttempt /\ Knows(o, t)
        BY <1>3, <1>6, <1>10, <2>2 DEF AnsweredFrom
      <3>2. pc[o] \in Writing => rec'[loc[o].lsp] = rec[loc[o].lsp]
        <4>1. pc[o] \in Writing => /\ loc[o].lsp = NextOf(o) /\ NextOf(o) \in Recs
          BY <1>0, OwnRecords
        <4>2. NextOf(o) # NextOf(p)
          BY <2>2 DEF NextOf
        <4> QED
          BY <1>1, <4>1, <4>2 DEF WritesOwn
      <3>3. /\ rec'[loc[o].old_sp.index].deactivate[t] = activate[t]
            /\ rec'[loc[o].old_sp.index].return_val[t] = rec[S.index].return_val[t]
        <4>1. /\ rec[loc[o].old_sp.index].deactivate[t] = activate[t]
              /\ rec[loc[o].old_sp.index].return_val[t] = rec[S.index].return_val[t]
          BY <3>1 DEF Knows
        <4>2. CASE loc[o].old_sp.index # NextOf(p)
          <5>1. rec'[loc[o].old_sp.index] = rec[loc[o].old_sp.index]
            BY <1>0, <1>1, <4>2, Reads DEF WritesOwn
          <5> QED
            BY <4>1, <5>1
        <4>3. CASE loc[o].old_sp.index = NextOf(p)
          <5>1. pc[p] \in InAttempt => n <= loc[p].old_sp.seq
            <6>1. pc[p] \in InAttempt => loc[o].old_sp.seq < loc[p].old_sp.seq
              BY <1>0, <3>1, <4>3 DEF IndInv, FreeInv
            <6>2. loc[o].old_sp.seq \in Nat /\ loc[p].old_sp.seq \in Nat
              BY <1>0, Reads DEF Pointers
            <6> QED
              BY <1>4, <1>10, <3>1, <6>1, <6>2
          <5>2. WritesRight(p, t)
            BY <1>7, <5>1
          <5> QED
            BY <4>1, <4>3, <5>2 DEF WritesRight
        <4> QED
          BY <4>2, <4>3
      <3>4. pc[o] \in Writing \ {"copy_results"} => pc[o] \in Writing
        OBVIOUS
      <3> QED
        BY <1>1, <1>2, <3>1, <3>2, <3>3, <3>4 DEF Knows
    <2> QED
      BY <2>1, <2>2
  <1>11. ASSUME pc'[t] \in Holding
         PROVE  /\ rec'[loc'[t].lsp].return_val[t] = rec[S.index].return_val[t]
                /\ \A o \in Threads : pc'[o] \in InAttempt /\ NextOf(o) = loc'[t].lsp =>
                      n <= loc'[o].old_sp.seq
    <2>1. ASSUME NEW o \in Threads, pc'[o] \in InAttempt,
                 pc[o] \in InAttempt => n <= loc[o].old_sp.seq
          PROVE  n <= loc'[o].old_sp.seq
      BY <1>4, <1>6, <1>8, <1>9, <2>1
    <2>2. CASE t = p /\ pc[t] \notin Holding
      <3>1. loc'[t].lsp = S.index /\ rec' = rec
        BY <1>0, <1>1, <1>11, <2>2, HoldingKept
      <3>2. \A o \in Threads : NextOf(o) # S.index
        BY <1>0, OwnRecords
      <3> QED
        BY <3>1, <3>2
    <2>3. CASE pc[t] \in Holding
      <3>1. loc'[t].lsp = loc[t].lsp
        BY <1>0, <1>1, <1>6, <1>11, <2>3, HoldingKept DEF Holding
      <3>2. /\ rec[loc[t].lsp].return_val[t] = rec[S.index].return_val[t]
            /\ \A o \in Threads : pc[o] \in InAttempt /\ NextOf(o) = loc[t].lsp =>
                  n <= loc[o].old_sp.seq
        BY <1>3, <2>3 DEF AnsweredFrom
      <3>3. rec'[loc[t].lsp].return_val[t] = rec[S.index].return_val[t]
        <4>1. CASE loc[t].lsp # NextOf(p)
          <5>1. rec'[loc[t].lsp] = rec[loc[t].lsp]
            BY <1>0, <1>1, <4>1, Reads DEF WritesOwn
          <5> QED
            BY <3>2, <5>1
        <4>2. CASE loc[t].lsp = NextOf(p)
          <5>1. WritesRight(p, t)
            BY <1>7, <3>2, <4>2
          <5> QED
            BY <3>2, <4>2, <5>1 DEF WritesRight
        <4> QED
          BY <4>1, <4>2
      <3> QED
        BY <2>1, <3>1, <3>2, <3>3
    <2> QED
      BY <1>6, <1>11, <2>2, <2>3
  <1>12. AnsweredFrom(t, n)'
    BY <1>1, <1>4, <1>5, <1>10, <1>11 DEF AnsweredFrom
  <1> QED
    BY <1>12

(* A thread that will serve its own operation has seen that it must.         *)
LEMMA OwnBitKept ==
    ASSUME IndInv, ResultInv, NEW p \in Threads, Step(p), Others(p)
    PROVE  \A o \in Threads : pc'[o] = "serve_own" => o \in loc'[o].diffs
  <1>0. TypeOK
    BY DEF IndInv, TypeInv
  <1>1. pc'[p] = "serve_own" => p \in loc'[p].diffs
    <2>1. CASE ReadActivate(p)
      <3> DEFINE D == {k \in Threads : rec[loc[p].lsp].deactivate[k] # activate[k]}
      <3>1. p \in D
        BY <2>1 DEF ReadActivate, IndInv, OwnInv, At
      <3>2. loc' = [loc EXCEPT ![p].diffs = D, ![p].l_activate = activate]
        BY <2>1, <3>1 DEF ReadActivate
      <3> HIDE DEF D
      <3>3. loc'[p].diffs = D
        BY <1>0, <3>2, Reads DEF TypeOK, Locals
      <3> QED
        BY <3>1, <3>3
    <2>2. CASE ~ReadActivate(p)
      <3>1. pc'[p] # "serve_own"
        BY <1>0, <2>2, RetryLeaves
           DEF Step, Attempt, Finish, ToggleActivate, ReadS, ReadDiffs, ReadFlush, CheckS,
               CopyState, CopyResults, CheckCopy, ServeOwn, LoadArg, ServeOther,
               MarkServed, CheckPublish, FlushRecord, SetFlush, SetRound, Publish,
               FlushOwn, SettleOwn, FlushS, Settle, Return, ReadCurrent,
               ReadCurrentFlush, CheckRound, HelpFlush, HelpSettle, Break, At, Goto, TypeOK
      <3> QED
        BY <3>1
    <2> QED
      BY <2>1, <2>2
  <1> QED
    BY <1>1 DEF Others, ResultInv

-----------------------------------------------------------------------------
(* The operations of an attempt, one after another                           *)

(* The operations that take effect if o publishes. *)
Wanted(o) == {k \in Threads : loc[o].l_activate[k] # rec[S.index].deactivate[k]}

(* While S stays the same, the copy is the current state with the operations *)
(* served so far applied to it.                                              *)
OrderOf(o) ==
    /\ pc[o] \in Copying \union {"read_activate"} => rec[loc[o].lsp].st = rec[S.index].st
    /\ pc[o] \in Marked => loc[o].diffs = {}
    /\ pc[o] \in Tried =>
          ServedAll(arg, rec[S.index].st, rec[loc[o].lsp].st, rec[loc[o].lsp].return_val,
                    Wanted(o) \ loc[o].diffs)

OrderInv == \A o \in Threads : loc[o].old_sp = S => OrderOf(o)

EffectInv == CallInv /\ ResultInv /\ OrderInv

(* One more operation is served, or none. *)
LEMMA OrderGrows ==
    ASSUME NEW p \in Threads, pc[p] \in Serving, pc'[p] \in Serving, OrderOf(p), S' = S,
           arg' = arg, rec'[S.index] = rec[S.index],
           loc'[p].lsp = loc[p].lsp, loc'[p].l_activate = loc[p].l_activate,
           NEW k \in Wanted(p), k \in loc[p].diffs,
           \A u \in Threads : u # k =>
              rec'[loc[p].lsp].return_val[u] = rec[loc[p].lsp].return_val[u],
           \/ /\ loc'[p].diffs = loc[p].diffs
              /\ rec'[loc[p].lsp].st = rec[loc[p].lsp].st
           \/ /\ loc'[p].diffs = loc[p].diffs \ {k}
              /\ rec'[loc[p].lsp].st = SFunc(rec[loc[p].lsp].st, arg[k], k).state
              /\ rec'[loc[p].lsp].return_val[k] = SFunc(rec[loc[p].lsp].st, arg[k], k).ret
    PROVE  OrderOf(p)'
  <1> DEFINE done == Wanted(p) \ loc[p].diffs
             ret == rec[loc[p].lsp].return_val
             first == rec[S.index].st
             last == rec[loc[p].lsp].st
             x == rec'[loc[p].lsp].return_val
  <1>1. /\ pc'[p] \notin Copying \union {"read_activate"} /\ pc'[p] \notin Marked
        /\ pc[p] \in Tried
    BY DEF Serving, Marked, Copying, Tried
  <1>2. ServedAll(arg, first, last, ret, done)
    BY <1>1 DEF OrderOf
  <1>3. k \in Threads /\ k \notin done /\ \A u \in done : u \in Threads /\ x[u] = ret[u]
    BY DEF Wanted
  <1>4. Wanted(p)' = Wanted(p)
    BY DEF Wanted
  <1>5. CASE loc'[p].diffs = loc[p].diffs /\ rec'[loc[p].lsp].st = last
    <2>1. ServedAll(arg, first, last, x, done)
      <3> HIDE DEF done, ret, first, last, x
      <3> QED
        BY <1>2, <1>3, StillServed
    <2>2. rec'[S'.index].st = first /\ done = Wanted(p)' \ loc'[p].diffs
      BY <1>4, <1>5
    <2> QED
      BY <1>1, <1>5, <2>1, <2>2 DEF OrderOf
  <1>6. CASE /\ loc'[p].diffs = loc[p].diffs \ {k}
             /\ rec'[loc[p].lsp].st = SFunc(last, arg[k], k).state
             /\ x[k] = SFunc(last, arg[k], k).ret
    <2>1. ServedAll(arg, first, SFunc(last, arg[k], k).state, x, done \union {k})
      <3> HIDE DEF done, ret, first, last, x
      <3> QED
        BY <1>2, <1>3, <1>6, OneMoreServed
    <2>2. rec'[S'.index].st = first /\ done \union {k} = Wanted(p)' \ loc'[p].diffs
      BY <1>4, <1>6
    <2> QED
      BY <1>1, <1>6, <2>1, <2>2 DEF OrderOf
  <1> QED
    BY <1>5, <1>6

(* The state and the results of the copy stay.                               *)
LEMMA OrderStays ==
    ASSUME NEW p \in Threads, OrderOf(p), S' = S, arg' = arg, rec'[S.index] = rec[S.index],
           loc'[p].lsp = loc[p].lsp, loc'[p].l_activate = loc[p].l_activate,
           loc'[p].diffs = loc[p].diffs,
           rec'[loc[p].lsp].st = rec[loc[p].lsp].st,
           rec'[loc[p].lsp].return_val = rec[loc[p].lsp].return_val,
           pc[p] \in Tried, pc'[p] \in Marked, pc[p] \in Marked \/ loc[p].diffs = {}
    PROVE  OrderOf(p)'
  <1>1. pc'[p] \notin Copying \union {"read_activate"} /\ pc'[p] \in Tried
    BY DEF Marked, Copying, Tried
  <1>2. Wanted(p)' = Wanted(p)
    BY DEF Wanted
  <1> QED
    BY <1>1, <1>2 DEF OrderOf

LEMMA OwnOrder ==
    ASSUME EffectInv, NEW p \in Threads, Step(p), S' = S, rec'[S.index] = rec[S.index],
           loc'[p].old_sp = S,
           pc'[p] \in Copying \union {"read_activate"} \union Tried
    PROVE  OrderOf(p)'
  <1>0. TypeOK /\ IndInv /\ AnswersInv
    BY DEF EffectInv, CallInv, IndInv, TypeInv
  <1>a. /\ S.index \in Recs /\ loc[p] \in Locals /\ DOMAIN rec = Recs
        /\ pc[p] \in Writing => /\ loc[p].lsp \in Recs /\ loc[p].lsp # S.index
                                /\ rec[loc[p].lsp] \in Records
                                /\ rec[loc[p].lsp].return_val \in [Threads -> RetVals]
    BY <1>0, OwnRecords, Reads DEF TypeOK
  <1> USE DEF At, Goto, Local, requestVars, recordVars, flushVars
  <1>1. CASE CopyState(p)
    <2> DEFINE from == loc[p].old_sp.index
               to == LocalIndex(p, from)
    <2>1. pc[p] = "copy" /\ pc'[p] = "copy_results" /\ pc'[p] \notin Tried
      BY <1>0, <1>1 DEF CopyState, TypeOK, Tried, Serving, Marked
    <2>2. /\ rec' = [rec EXCEPT ![to] = [rec[from] EXCEPT !.return_val = rec[to].return_val]]
          /\ loc' = [loc EXCEPT ![p].lsp = to, ![p].diffs = {}]
      BY <1>1 DEF CopyState
    <2>3. to \in Recs /\ from \in Recs /\ rec[from] \in Records
      <3>1. from \in Recs
        BY <1>0, Reads
      <3> QED
        BY <1>0, <3>1, LocalIndexType, Reads, RecFacts
    <2> HIDE DEF to
    <2>4. rec'[to].st = rec[from].st /\ loc'[p].lsp = to /\ loc'[p].old_sp = loc[p].old_sp
      BY <1>0, <1>a, <2>2, <2>3 DEF TypeOK, Records, Locals
    <2>5. pc'[p] \notin Marked
      BY <2>1 DEF Marked
    <2> QED
      BY <2>1, <2>4, <2>5 DEF OrderOf
  <1>2. CASE CopyResults(p) \/ CheckCopy(p)
    <2>1. /\ pc[p] \in Copying /\ loc' = loc
          /\ pc'[p] \in Copying \union {"read_activate"}
          /\ rec'[loc[p].lsp].st = rec[loc[p].lsp].st
      <3>1. CASE CopyResults(p)
        BY <1>0, <1>a, <3>1 DEF CopyResults, TypeOK, Records, Copying, Writing
      <3>2. CASE CheckCopy(p)
        <4>1. Unchanged_S(p)
          <5>1. ~Unchanged_S(p) => pc'[p] \in {"read_S", "read_current"}
            BY <1>0, <3>2, RetryLeaves DEF CheckCopy
          <5> QED
            BY <5>1 DEF Copying, Tried, Serving, Marked
        <4> QED
          BY <1>0, <3>2, <4>1 DEF CheckCopy, TypeOK, Copying
      <3> QED
        BY <1>2, <3>1, <3>2
    <2>2. pc'[p] \notin Tried /\ pc'[p] \notin Marked
      BY <2>1 DEF Copying, Tried, Serving, Marked
    <2> QED
      BY <2>1, <2>2 DEF EffectInv, OrderInv, OrderOf
  <1>3. CASE ReadActivate(p)
    <2> DEFINE D == {k \in Threads : rec[loc[p].lsp].deactivate[k] # activate[k]}
    <2>0. p \in D /\ pc[p] = "read_activate"
      BY <1>0, <1>3 DEF ReadActivate, IndInv, OwnInv
    <2>1. /\ rec' = rec
          /\ pc' = [pc EXCEPT ![p] = "serve_own"]
          /\ loc' = [loc EXCEPT ![p].diffs = D, ![p].l_activate = activate]
      BY <1>3, <2>0 DEF ReadActivate
    <2>x. \A k \in Threads : k \in D <=> rec[loc[p].lsp].deactivate[k] # activate[k]
      OBVIOUS
    <2> HIDE DEF D
    <2>2. /\ pc'[p] = "serve_own" /\ loc'[p].old_sp = loc[p].old_sp
          /\ loc'[p].lsp = loc[p].lsp
          /\ loc'[p].l_activate = activate /\ loc'[p].diffs = D
      BY <1>0, <1>a, <2>1 DEF TypeOK, Locals
    <2>3. /\ rec[loc[p].lsp].deactivate = rec[S.index].deactivate
          /\ rec[loc[p].lsp].st = rec[S.index].st
      BY <1>0, <2>0, <2>2 DEF IndInv, CopyInv, Writing, Marked, EffectInv, OrderInv, OrderOf
    <2>4. Wanted(p)' \ D = {}
      BY <2>1, <2>2, <2>3, <2>x DEF Wanted
    <2>5. pc'[p] \notin Copying \union {"read_activate"} /\ pc'[p] \notin Marked
      BY <2>2 DEF Copying, Marked
    <2> DEFINE first == rec[S.index].st
               ret == rec[loc[p].lsp].return_val
    <2>6. arg' = arg
      BY <1>3 DEF ReadActivate
    <2>7. ServedAll(arg, first, first, ret, {})
      BY NoneServed
    <2> QED
      BY <2>1, <2>2, <2>3, <2>4, <2>5, <2>6, <2>7 DEF OrderOf
  <1>4. CASE ServeOwn(p) \/ LoadArg(p) \/ ServeOther(p)
    <2>1. pc[p] \in Serving /\ pc[p] \in Tried /\ pc[p] \in Writing
      BY <1>4 DEF ServeOwn, LoadArg, ServeOther, Tried, Serving, Writing
    <2> DEFINE m == IF pc[p] = "serve_own" THEN p ELSE Min(loc[p].diffs)
    <2>2. m \in loc[p].diffs /\ m \in Threads
      <3>1. CASE ServeOwn(p)
        BY <3>1 DEF EffectInv, ResultInv, ServeOwn
      <3>2. CASE LoadArg(p) \/ ServeOther(p)
        <4>1. loc[p].diffs # {} /\ pc[p] # "serve_own"
          BY <1>0, <3>2 DEF LoadArg, ServeOther, IndInv, TypeInv, OthersLeft
        <4>2. loc[p].diffs \subseteq Threads
          BY <1>0, Reads
        <4> QED
          BY <4>1, <4>2, MinIsMember, RecFacts
      <3> QED
        BY <1>4, <3>1, <3>2
    <2>3. valid[m]
      BY <1>0, <2>2 DEF IndInv, CalledInv
    <2>4. \/ /\ ServeOwn(p) \/ ServeOther(p)
             /\ rec' = Served(loc[p].lsp, arg[m], m)
             /\ loc'[p].diffs = loc[p].diffs \ {m}
          \/ /\ LoadArg(p)
             /\ rec' = [rec EXCEPT ![loc[p].lsp].return_val[m] = AsVal(arg[m])]
             /\ loc' = loc
      <3>1. CASE ServeOwn(p)
        BY <1>0, <1>a, <3>1 DEF ServeOwn, TypeOK, Locals
      <3>2. CASE ServeOther(p)
        BY <1>0, <1>a, <3>2 DEF ServeOther, TypeOK, Locals
      <3>3. CASE LoadArg(p)
        BY <2>3, <3>3 DEF LoadArg
      <3> QED
        BY <1>4, <3>1, <3>2, <3>3
    <2> HIDE DEF m
    <2>5. /\ loc'[p].old_sp = loc[p].old_sp /\ loc'[p].lsp = loc[p].lsp
          /\ loc'[p].l_activate = loc[p].l_activate
          /\ arg' = arg /\ pc'[p] \in Serving
      <3>1. CASE ServeOwn(p) \/ ServeOther(p)
        BY <1>0, <1>a, <3>1 DEF ServeOwn, ServeOther, TypeOK, Locals, Serving
      <3>2. CASE ~(ServeOwn(p) \/ ServeOther(p))
        <4>1. LoadArg(p) /\ loc' = loc
          BY <2>4, <3>2
        <4>2. pc'[p] \in Serving
          BY <1>0, <4>1 DEF LoadArg, TypeOK, Serving
        <4> QED
          BY <4>1, <4>2 DEF LoadArg
      <3> QED
        BY <3>1, <3>2
    <2>6. \A u \in Threads : u # m =>
             rec'[loc[p].lsp].return_val[u] = rec[loc[p].lsp].return_val[u]
      BY <1>a, <2>1, <2>2, <2>4 DEF Served, Records
    <2>7. \/ /\ loc'[p].diffs = loc[p].diffs
             /\ rec'[loc[p].lsp].st = rec[loc[p].lsp].st
          \/ /\ loc'[p].diffs = loc[p].diffs \ {m}
             /\ rec'[loc[p].lsp].st = SFunc(rec[loc[p].lsp].st, arg[m], m).state
             /\ rec'[loc[p].lsp].return_val[m] = SFunc(rec[loc[p].lsp].st, arg[m], m).ret
      BY <1>a, <2>1, <2>2, <2>4 DEF Served, Records
    <2>8. m \in Wanted(p) /\ OrderOf(p)
      BY <1>0, <2>1, <2>2, <2>5 DEF AnswersInv, AnswersOf, Wanted, EffectInv, OrderInv
    <2> QED
      BY <2>1, <2>2, <2>5, <2>6, <2>7, <2>8, OrderGrows
  <1>5. CASE MarkServed(p) \/ CheckPublish(p) \/ FlushRecord(p) \/ SetFlush(p) \/ SetRound(p)
    <2>1. /\ pc[p] \in Marked \/ (pc[p] = "scan" /\ loc[p].diffs = {})
          /\ arg' = arg
      BY <1>5 DEF MarkServed, CheckPublish, FlushRecord, SetFlush, SetRound, Marked
    <2>2. pc[p] \in Tried /\ pc[p] \in Writing
      BY <2>1 DEF Tried, Serving, Marked, Writing
    <2>3. /\ pc'[p] \in Marked
          /\ loc'[p].old_sp = loc[p].old_sp /\ loc'[p].lsp = loc[p].lsp
          /\ loc'[p].l_activate = loc[p].l_activate /\ loc'[p].diffs = loc[p].diffs
      <3>1. CASE CheckPublish(p)
        <4>1. ~Unchanged_S(p) => pc'[p] \in {"read_S", "read_current"}
          BY <1>0, <3>1, RetryLeaves DEF CheckPublish
        <4>2. Unchanged_S(p)
          BY <4>1 DEF Copying, Tried, Serving, Marked
        <4> QED
          BY <1>0, <3>1, <4>2 DEF CheckPublish, TypeOK, Marked
      <3>2. CASE MarkServed(p) \/ FlushRecord(p) \/ SetFlush(p) \/ SetRound(p)
        BY <1>0, <1>a, <3>2
           DEF MarkServed, FlushRecord, SetFlush, SetRound, TypeOK, Locals, Marked
      <3> QED
        BY <1>5, <3>1, <3>2
    <2>4. /\ rec'[loc[p].lsp].st = rec[loc[p].lsp].st
          /\ rec'[loc[p].lsp].return_val = rec[loc[p].lsp].return_val
      BY <1>5, <1>a, <2>2
         DEF MarkServed, CheckPublish, FlushRecord, SetFlush, SetRound, Records
    <2>5. OrderOf(p)
      BY <2>3 DEF EffectInv, OrderInv
    <2> QED
      BY <2>1, <2>2, <2>3, <2>4, <2>5, OrderStays
  <1>6. CASE \/ ToggleActivate(p) \/ ReadS(p) \/ ReadDiffs(p) \/ ReadFlush(p) \/ CheckS(p)
             \/ Publish(p) \/ FlushOwn(p) \/ SettleOwn(p) \/ Return(p, "return_own")
             \/ Finish(p)
    <2>1. pc'[p] \notin Copying \union {"read_activate"} \union Tried
      <3>1. CASE CheckS(p) \/ Publish(p)
        BY <1>0, <3>1, RetryLeaves
           DEF CheckS, Publish, Break, TypeOK, Copying, Tried, Serving, Marked
      <3>2. CASE ~(CheckS(p) \/ Publish(p))
        BY <1>0, <1>6, <3>2
           DEF ToggleActivate, ReadS, ReadDiffs, ReadFlush, FlushOwn, SettleOwn, FlushS,
               Settle, Return, Finish, ReadCurrent, ReadCurrentFlush, CheckRound,
               HelpFlush, HelpSettle, TypeOK, Copying, Tried, Serving, Marked
      <3> QED
        BY <3>1, <3>2
    <2> QED
      BY <2>1
  <1> QED
    BY <1>1, <1>2, <1>3, <1>4, <1>5, <1>6 DEF Step, Attempt

(* What a step of a call leaves alone. *)
LEMMA CallVarsKept ==
    ASSUME NEW p \in Threads, Step(p)
    PROVE  /\ arg' = arg
           /\ ~(Return(p, "return_own") \/ Return(p, "return_current")) => out' = out
           /\ ~ToggleActivate(p) => activate' = activate
  BY DEF Step, Attempt, Finish, ToggleActivate, ReadS, ReadDiffs, ReadFlush, CheckS, CopyState,
         CopyResults, CheckCopy, ReadActivate, ServeOwn, LoadArg, ServeOther,
         MarkServed, CheckPublish, FlushRecord, SetFlush, SetRound, Publish,
         FlushOwn, SettleOwn, FlushS, Settle, Return, ReadCurrent,
         ReadCurrentFlush, CheckRound, HelpFlush, HelpSettle, Local, requestVars

(* The others' operations are applied as before: a request is written when   *)
(* no attempt that can succeed applies it.                                   *)
LEMMA OrderStep ==
    ASSUME EffectInv, IndInv', Unwrapped, NEW t \in Threads, Moving(t), OneStep(t)
    PROVE  OrderInv'
  <1>0. IndInv /\ TypeOK /\ TypeInv /\ SeqInv
    BY DEF EffectInv, CallInv, IndInv, TypeInv
  <1> SUFFICES ASSUME NEW u \in Threads, loc'[u].old_sp = S',
                      pc'[u] \in Copying \union {"read_activate"} \union Tried
               PROVE  OrderOf(u)'
    BY DEF OrderInv, OrderOf, Tried
  <1>1. pc'[u] \in Writing
    BY DEF Tried, Serving, Marked, Copying, Writing
  <1>2. CASE Publish(t) /\ loc[t].old_sp = S
    <2>1. Publishes(t)
      BY <1>0, <1>2 DEF Publish, Unchanged_S, Publishes, Others, Moves, SameRequests, TypeOK,
                        At, Goto, requestVars, recordVars
    <2> QED
      BY <1>0, <1>1, <2>1, NobodyHasNew DEF InAttempt
  <1>3. CASE ~(Publish(t) /\ loc[t].old_sp = S)
    <2>1. S' = S /\ rec'[S.index] = rec[S.index] /\ Others(t) /\ WritesOwn(t)
      BY <1>0, <1>3, StepWrites, CurrentKept
    <2>2. CASE u # t
      <3>1. pc'[u] = pc[u] /\ loc'[u] = loc[u]
        BY <2>1, <2>2 DEF Others
      <3>2. loc[u].lsp = NextOf(u) /\ loc[u].lsp \in Recs /\ loc[u].lsp # NextOf(t)
        <4>1. pc[u] \in Writing
          BY <1>1, <3>1
        <4>2. loc[u].lsp = NextOf(u) /\ NextOf(u) \in Recs
          BY <1>0, <4>1, OwnRecords
        <4>3. NextOf(u) # NextOf(t)
          BY <2>2 DEF NextOf
        <4> QED
          BY <4>2, <4>3
      <3>3. rec'[loc[u].lsp] = rec[loc[u].lsp]
        BY <2>1, <3>2 DEF WritesOwn
      <3>4. OrderOf(u)
        BY <2>1, <3>1 DEF EffectInv, OrderInv
      <3>5. Wanted(u)' = Wanted(u)
        BY <2>1, <3>1 DEF Wanted
      <3>6. CASE pc[u] \in Tried
        <4> DEFINE done == Wanted(u) \ loc[u].diffs
                   first == rec[S.index].st
                   last == rec[loc[u].lsp].st
                   ret == rec[loc[u].lsp].return_val
                   a == arg'
        <4>1. \A k \in done : a[k] = arg[k] /\ ret[k] = ret[k]
          <5>1. CASE Step(t)
            BY <5>1, CallVarsKept
          <5>2. ASSUME NEW b \in Args, WriteRequest(t, b)
                PROVE  \A k \in done : a[k] = arg[k]
            <6>1. pc[t] = "idle" /\ \A k \in Threads : k # t => a[k] = arg[k]
              BY <1>0, <5>2 DEF WriteRequest, At, TypeOK
            <6>2. HasTakenEffect(t)
              BY <1>0, <6>1 DEF IndInv, ServedInv
            <6>3. t \notin Wanted(u)
              BY <1>0, <2>1, <3>1, <3>6, <6>2, BatchPending DEF Wanted
            <6>4. \A k \in done : k \in Threads /\ k # t
              BY <6>3 DEF Wanted
            <6> QED
              BY <6>1, <6>4
          <5> QED
            BY <5>1, <5>2 DEF Moving
        <4>2. ServedAll(arg, first, last, ret, done)
          BY <3>4, <3>6 DEF OrderOf
        <4>3. ServedAll(a, first, last, ret, done)
          <5> HIDE DEF a, done, first, last, ret
          <5> QED
            BY <4>1, <4>2, StillServed
        <4>4. /\ first = rec'[S'.index].st /\ last = rec'[loc'[u].lsp].st
              /\ ret = rec'[loc'[u].lsp].return_val
              /\ done = Wanted(u)' \ loc'[u].diffs
          BY <2>1, <3>1, <3>3, <3>5
        <4>5. ServedAll(arg', rec'[S'.index].st, rec'[loc'[u].lsp].st,
                        rec'[loc'[u].lsp].return_val, Wanted(u)' \ loc'[u].diffs)
          <5> HIDE DEF done, first, last, ret
          <5> QED
            BY <4>3, <4>4
        <4>6. /\ pc'[u] \notin Copying \union {"read_activate"}
              /\ pc'[u] \in Marked => loc'[u].diffs = {}
          BY <3>1, <3>4, <3>6 DEF OrderOf, Copying, Tried, Serving, Marked
        <4> QED
          BY <4>5, <4>6 DEF OrderOf
      <3>7. CASE pc[u] \notin Tried
        <4>1. pc'[u] \notin Tried /\ pc'[u] \notin Marked
          BY <3>1, <3>7 DEF Tried
        <4> QED
          BY <2>1, <3>1, <3>3, <3>4, <4>1 DEF OrderOf
      <3> QED
        BY <3>6, <3>7
    <2>3. CASE u = t
      <3>1. CASE Step(t)
        BY <2>1, <2>3, <3>1, OwnOrder
      <3>2. CASE \E a \in Args : WriteRequest(t, a)
        <4>1. pc'[t] = "activate"
          BY <1>0, <3>2 DEF WriteRequest, Goto, TypeOK
        <4> QED
          BY <2>3, <4>1 DEF Tried, Serving, Marked, Copying
      <3> QED
        BY <3>1, <3>2 DEF Moving
    <2> QED
      BY <2>2, <2>3
  <1> QED
    BY <1>2, <1>3

(* A request is written, or nothing that the invariant is about changes.     *)
LEMMA ResultSame ==
    ASSUME ResultInv, S' = S, rec' = rec, activate' = activate, loc' = loc,
           \A o \in Threads : pc'[o] \in {pc[o], "activate"}
    PROVE  ResultInv'
  <1>1. /\ "activate" \notin Holding /\ "activate" \notin InAttempt
        /\ "activate" # "serve_own"
    BY DEF Holding, InAttempt, Reading, Writing
  <1>2. ASSUME NEW t \in Threads, HasTakenEffect(t)'
        PROVE  \E n : AnsweredFrom(t, n)'
    <2>1. HasTakenEffect(t)
      BY <1>2 DEF HasTakenEffect
    <2>2. PICK n : AnsweredFrom(t, n)
      BY <2>1 DEF ResultInv
    <2>3. \A o \in Threads : NextOf(o)' = NextOf(o)
      BY DEF NextOf
    <2>4. ASSUME NEW o \in Threads, pc'[o] \in InAttempt, n <= loc'[o].old_sp.seq
          PROVE  Knows(o, t)'
      <3>1. pc'[o] = pc[o] /\ Knows(o, t)
        BY <1>1, <2>2, <2>4 DEF AnsweredFrom
      <3> QED
        BY <3>1 DEF Knows
    <2>5. ASSUME pc'[t] \in Holding
          PROVE  /\ rec'[loc'[t].lsp].return_val[t] = rec'[S'.index].return_val[t]
                 /\ \A o \in Threads : pc'[o] \in InAttempt /\ NextOf(o)' = loc'[t].lsp =>
                       n <= loc'[o].old_sp.seq
      BY <1>1, <2>2, <2>3, <2>5 DEF AnsweredFrom
    <2>6. AnsweredFrom(t, n)'
      BY <2>2, <2>4, <2>5 DEF AnsweredFrom
    <2> QED
      BY <2>6
  <1>3. \A o \in Threads : pc'[o] = "serve_own" => o \in loc'[o].diffs
    BY <1>1 DEF ResultInv
  <1> QED
    BY <1>2, <1>3 DEF ResultInv

LEMMA ResultStep ==
    ASSUME EffectInv, IndInv', Unwrapped, NEW t \in Threads, Moving(t), OneStep(t)
    PROVE  ResultInv'
  <1>0. CallInv /\ ResultInv /\ IndInv /\ TypeOK
    BY DEF EffectInv, CallInv, IndInv, TypeInv
  <1>1. CASE Publish(t) /\ loc[t].old_sp = S
    BY <1>0, <1>1, ResultPublished
  <1>2. CASE Step(t) /\ ~(Publish(t) /\ loc[t].old_sp = S)
    <2>1. \A u \in Threads : HasTakenEffect(u)' => \E n : AnsweredFrom(u, n)'
      BY <1>0, <1>2, ResultKept
    <2>2. Others(t)
      BY <1>0, StepWrites
    <2>3. \A o \in Threads : pc'[o] = "serve_own" => o \in loc'[o].diffs
      BY <1>0, <1>2, <2>2, OwnBitKept
    <2> QED
      BY <2>1, <2>3 DEF ResultInv
  <1>3. ASSUME NEW a \in Args, WriteRequest(t, a)
        PROVE  ResultInv'
    <2>1. /\ S' = S /\ rec' = rec /\ activate' = activate /\ loc' = loc
          /\ pc' = [pc EXCEPT ![t] = "activate"]
      BY <1>3 DEF WriteRequest, Goto, recordVars
    <2>2. \A o \in Threads : pc'[o] \in {pc[o], "activate"}
      BY <1>0, <2>1 DEF TypeOK
    <2> QED
      BY <1>0, <2>1, <2>2, ResultSame
  <1> QED
    BY <1>1, <1>2, <1>3 DEF Moving

LEMMA EvictKeepsEffect ==
    ASSUME EffectInv, Evict \/ UNCHANGED vars
    PROVE  ResultInv' /\ OrderInv'
  <1>1. /\ S' = S /\ rec' = rec /\ activate' = activate /\ arg' = arg /\ pc' = pc /\ loc' = loc
    BY DEF Evict, vars, recordVars, requestVars
  <1>2. ResultInv'
    BY <1>1, ResultSame DEF EffectInv
  <1>3. \A o \in Threads : Wanted(o)' = Wanted(o)
    BY <1>1 DEF Wanted
  <1>4. ASSUME NEW o \in Threads, loc'[o].old_sp = S'
        PROVE  OrderOf(o)'
    <2>1. OrderOf(o)
      BY <1>1, <1>4 DEF EffectInv, OrderInv
    <2> QED
      BY <1>1, <1>3, <2>1 DEF OrderOf
  <1> QED
    BY <1>2, <1>4 DEF OrderInv

-----------------------------------------------------------------------------
(* The steps of the abstract object                                          *)

Outside == {"idle", "activate"}

(* What the abstract object sees of a thread. *)
SameView(u) ==
    /\ AbstractPhase(u)' = AbstractPhase(u) /\ AbstractParam(u)' = AbstractParam(u)
    /\ AbstractResult(u)' = AbstractResult(u)

LEMMA ViewKept ==
    ASSUME S' = S, rec'[S.index] = rec[S.index], NEW u \in Threads,
           activate'[u] = activate[u], pc'[u] \in Outside <=> pc[u] \in Outside,
           pc[u] \in Outside \/ arg'[u] = arg[u], out'[u] = out[u]
    PROVE  SameView(u)
  <1>1. HasTakenEffect(u)' = HasTakenEffect(u)
    BY DEF HasTakenEffect
  <1>2. AbstractPhase(u)' = AbstractPhase(u)
    BY <1>1 DEF AbstractPhase, Outside
  <1>3. pc[u] \in Outside => AbstractPhase(u) = "idle"
    BY DEF AbstractPhase, Outside
  <1>4. AbstractParam(u)' = AbstractParam(u)
    BY <1>2, <1>3 DEF AbstractParam
  <1>5. AbstractResult(u)' = AbstractResult(u)
    BY <1>2 DEF AbstractResult
  <1> QED
    BY <1>2, <1>4, <1>5 DEF SameView

LEMMA ViewStays ==
    ASSUME \A u \in Threads : SameView(u), rec'[S'.index].st = rec[S.index].st
    PROVE  /\ DurableState' = rec[S.index].st => Abstract!Persist
           /\ DurableState' = DurableState => UNCHANGED Abstract!vars
  BY DEF SameView, Abstract!Persist, Abstract!vars

(* What happens inside a call and is no effect. *)
LEMMA QuietIsAbstract ==
    ASSUME CallInv, NEW t \in Threads, Step(t),
           ~ToggleActivate(t), ~Return(t, "return_own"), ~Return(t, "return_current"),
           Silent(t) \/ ReadActivate(t) \/ GivesUp(t) \/ FlushOwn(t) \/ HelpFlush(t)
    PROVE  Abstract!Persist \/ UNCHANGED Abstract!vars
  <1>0. IndInv /\ FirstInv /\ TypeOK /\ OneStep(t)
    BY DEF CallInv, IndInv, TypeInv, OneStep
  <1>1. arg' = arg /\ activate' = activate /\ out' = out
    BY CallVarsKept
  <1>2. Others(t) /\ WritesOwn(t) /\ rec'[S.index] = rec[S.index]
    BY <1>0, StepWrites, CurrentKept
  <1> USE DEF At, Goto, Local, requestVars, recordVars, flushVars
  <1>3. /\ S' = S
        /\ pc'[t] \in Outside <=> pc[t] \in Outside
        /\ DurableState' = rec[S.index].st \/ DurableState' = DurableState
    <2>1. CASE Silent(t)
      <3>1. DurableState' = DurableState /\ S' = S
        BY <1>0, <2>1, DurableKept DEF Silent
      <3>2. pc'[t] \in Outside <=> pc[t] \in Outside
        BY <2>1 DEF Silent, SamePart, OutOfAttempt, Reading, Copying, Finishing, Tried,
                    Serving, Marked, Outside
      <3> QED
        BY <3>1, <3>2
    <2>2. CASE ReadActivate(t)
      <3>1. DurableState' = DurableState /\ S' = S
        BY <2>2 DEF ReadActivate, DurableState
      <3>2. pc[t] = "read_activate" /\ pc'[t] \in {"read_current", "serve_own"}
        BY <1>0, <2>2 DEF ReadActivate, Break, TypeOK
      <3> QED
        BY <3>1, <3>2 DEF Outside
    <2>3. CASE GivesUp(t)
      BY <2>3 DEF GivesUp, DurableState, Tried, Serving, Marked, Outside
    <2>4. CASE FlushOwn(t) \/ HelpFlush(t)
      <3>1. S' = S /\ nvm_S' = S /\ rec' = rec /\ clean' = clean
        BY <2>4 DEF FlushOwn, HelpFlush, FlushS, FlushedPointer
      <3>2. DurableState' = rec[S.index].st \/ DurableState' = DurableState
        BY <1>0, <3>1, FlushedState
      <3>3. /\ pc[t] \in {"flush_S", "help_flush"}
            /\ pc'[t] \in {"settle", "help_settle"}
        BY <1>0, <2>4 DEF FlushOwn, HelpFlush, FlushS, TypeOK
      <3> QED
        BY <3>1, <3>2, <3>3 DEF Outside
    <2> QED
      BY <2>1, <2>2, <2>3, <2>4
  <1>4. \A u \in Threads : SameView(u)
    <2> SUFFICES ASSUME NEW u \in Threads
                 PROVE  SameView(u)
      OBVIOUS
    <2>1. pc'[u] \in Outside <=> pc[u] \in Outside
      BY <1>2, <1>3 DEF Others
    <2> QED
      BY <1>1, <1>2, <1>3, <2>1, ViewKept
  <1>5. rec'[S'.index].st = rec[S.index].st
    BY <1>2, <1>3
  <1> QED
    BY <1>3, <1>4, <1>5, ViewStays

LEMMA EvictPersists ==
    ASSUME CallInv, Evict
    PROVE  Abstract!Persist \/ UNCHANGED Abstract!vars
  <1>0. IndInv /\ FirstInv
    BY DEF CallInv
  <1>1. /\ S' = S /\ rec' = rec /\ clean' = clean /\ pc' = pc /\ nvm_S' = S
        /\ arg' = arg /\ activate' = activate /\ out' = out
    BY DEF Evict, requestVars, recordVars
  <1>2. DurableState' = rec[S.index].st \/ DurableState' = DurableState
    BY <1>0, <1>1, FlushedState
  <1>3. \A u \in Threads : SameView(u)
    BY <1>1, ViewKept
  <1> QED
    BY <1>1, <1>2, <1>3, ViewStays

(* Writing the request is not yet the call. *)
LEMMA RequestStutters ==
    ASSUME IndInv, NEW t \in Threads, NEW a \in Args, WriteRequest(t, a)
    PROVE  UNCHANGED Abstract!vars
  <1>1. /\ S' = S /\ rec' = rec /\ activate' = activate /\ out' = out
        /\ DurableState' = DurableState
        /\ pc[t] = "idle" /\ pc'[t] = "activate"
        /\ \A u \in Threads : u # t => arg'[u] = arg[u] /\ pc'[u] = pc[u]
    BY DEF WriteRequest, At, Goto, recordVars, IndInv, TypeInv, TypeOK, DurableState
  <1>2. ASSUME NEW u \in Threads
        PROVE  SameView(u)
    <2>1. pc'[u] \in Outside <=> pc[u] \in Outside
      BY <1>1 DEF Outside
    <2>2. pc[u] \in Outside \/ arg'[u] = arg[u]
      BY <1>1 DEF Outside
    <2> QED
      BY <1>1, <2>1, <2>2, ViewKept
  <1> QED
    BY <1>1, <1>2, ViewStays

(* The toggle of the bit (line 95) is. *)
LEMMA ToggleInvokes ==
    ASSUME IndInv, NEW t \in Threads, ToggleActivate(t)
    PROVE  Abstract!Invoke(t, arg[t])
  <1>1. /\ S' = S /\ rec' = rec /\ arg' = arg /\ out' = out /\ DurableState' = DurableState
        /\ pc[t] = "activate" /\ pc'[t] = "read_S"
        /\ \A u \in Threads : u # t => activate'[u] = activate[u] /\ pc'[u] = pc[u]
    BY DEF ToggleActivate, At, Goto, recordVars, IndInv, TypeInv, TypeOK, DurableState, Bits
  <1>2. activate'[t] # activate[t]
    <2>1. activate \in [Threads -> {0, 1}]
      BY DEF IndInv, TypeInv, TypeOK, Bits
    <2>2. activate'[t] = 1 - activate[t]
      BY <2>1 DEF ToggleActivate
    <2>3. activate[t] \in {0, 1}
      BY <2>1
    <2> QED
      BY <2>2, <2>3, OtherBit
  <1>3. HasTakenEffect(t)
    BY <1>1 DEF IndInv, ServedInv
  <1>4. AbstractPhase(t) = "idle" /\ AbstractPhase(t)' = "pending"
    BY <1>1, <1>2, <1>3 DEF AbstractPhase, HasTakenEffect
  <1>5. AbstractParam(t)' = arg[t] /\ AbstractResult(t)' = AbstractResult(t)
    BY <1>1, <1>4 DEF AbstractParam, AbstractResult
  <1>6. \A u \in Threads : u # t => SameView(u)
    BY <1>1, ViewKept
  <1> QED
    BY <1>1, <1>4, <1>5, <1>6 DEF Abstract!Invoke, SameView

(* Lines 202 and 215: the result of the operation is returned, though the    *)
(* record it is read from may have been replaced and be rewritten.           *)
LEMMA ReturnReturnsResult ==
    ASSUME IndInv, ResultInv, NEW t \in Threads,
           Return(t, "return_own") \/ Return(t, "return_current")
    PROVE  Abstract!Return(t)
  <1>0. TypeOK
    BY DEF IndInv, TypeInv
  <1>1. /\ S' = S /\ rec' = rec /\ activate' = activate /\ arg' = arg
        /\ DurableState' = DurableState
        /\ pc[t] \in {"return_own", "return_current"} /\ pc'[t] = "idle"
        /\ out'[t] = rec[loc[t].lsp].return_val[t]
        /\ \A u \in Threads : u # t => out'[u] = out[u] /\ pc'[u] = pc[u]
    BY <1>0 DEF Return, At, Goto, requestVars, recordVars, TypeOK, DurableState
  <1>2. HasTakenEffect(t)
    BY <1>1 DEF IndInv, ServedInv, Settled, Finishing
  <1>3. out'[t] = rec[S.index].return_val[t]
    <2>1. PICK n : AnsweredFrom(t, n)
      BY <1>2 DEF ResultInv
    <2> QED
      BY <1>1, <2>1 DEF AnsweredFrom, Holding
  <1>4. AbstractPhase(t) = "applied" /\ AbstractPhase(t)' = "idle"
    BY <1>1, <1>2 DEF AbstractPhase
  <1>5. AbstractParam(t)' = AbstractParam(t) /\ AbstractResult(t)' = AbstractResult(t)
    BY <1>3, <1>4 DEF AbstractParam, AbstractResult
  <1>6. \A u \in Threads : u # t => SameView(u)
    BY <1>1, ViewKept
  <1> QED
    BY <1>1, <1>4, <1>5, <1>6 DEF Abstract!Return, SameView

(* The compare-and-swap of line 197: the operations of the attempt take      *)
(* effect, one after another, at one instant.                                *)
LEMMA PublishApplies ==
    ASSUME EffectInv, NEW t \in Threads, Publish(t), loc[t].old_sp = S
    PROVE  Abstract!Apply(Wanted(t))
  <1>0. CallInv /\ IndInv /\ TypeOK
    BY DEF EffectInv, CallInv, IndInv, TypeInv
  <1> DEFINE r == loc[t].lsp
             W == Wanted(t)
             first == rec[S.index].st
             last == rec[r].st
             ret == rec[r].return_val
             R == [k \in Threads |-> AbstractResult(k)]
  <1>1. /\ pc[t] = "cas" /\ pc' = [pc EXCEPT ![t] = "flush_S"] /\ S'.index = r
        /\ arg' = arg /\ activate' = activate /\ rec' = rec /\ nvm_S' = nvm_S
        /\ clean' = clean /\ loc' = loc /\ out' = out
    BY DEF Publish, Unchanged_S, At, Goto, recordVars, requestVars
  <1>2. pc[t] \in Tried /\ pc[t] \in Marked /\ pc[t] \in Writing
    BY <1>1 DEF Tried, Marked, Writing
  <1>3. ServedAll(arg, first, last, ret, W)
    <2>1. OrderOf(t)
      BY DEF EffectInv, OrderInv
    <2>2. W \ loc[t].diffs = W
      BY <1>2, <2>1 DEF OrderOf
    <2>3. ServedAll(arg, first, last, ret, W \ loc[t].diffs)
      BY <1>2, <2>1 DEF OrderOf
    <2> HIDE DEF W, first, last, ret
    <2> QED
      BY <2>2, <2>3
  <1>4. AnswersOf(t)
    BY <1>0 DEF CallInv, AnswersInv
  <1>5. W \subseteq Threads /\ W # {}
    BY <1>2, <1>4 DEF AnswersOf, Wanted
  <1>6. ASSUME NEW k \in W
        PROVE  /\ AbstractPhase(k) = "pending" /\ AbstractPhase(k)' = "applied"
               /\ AbstractResult(k)' = ret[k]
    <2>1. k \in Threads /\ loc[t].l_activate[k] # rec[S.index].deactivate[k]
      BY DEF Wanted
    <2>2. loc[t].l_activate[k] = activate[k] /\ ~HasTakenEffect(k)
      BY <1>0, <1>2, <2>1, BatchPending
    <2>3. pc[k] \notin {"idle", "activate"} /\ pc'[k] \notin {"idle", "activate"}
      BY <1>0, <1>1, <2>1, <2>2 DEF IndInv, ServedInv, TypeOK
    <2>4. HasTakenEffect(k)'
      <3>1. rec[r].deactivate = loc[t].l_activate
        BY <1>0, <1>2 DEF IndInv, CopyInv
      <3> QED
        BY <1>1, <2>2, <3>1 DEF HasTakenEffect
    <2> QED
      BY <1>1, <2>2, <2>3, <2>4 DEF AbstractPhase, AbstractResult
  <1>7. ASSUME NEW k \in Threads, k \notin W
        PROVE  SameView(k)
    <2>1. /\ rec[r].deactivate[k] = rec[S.index].deactivate[k]
          /\ rec[r].return_val[k] = rec[S.index].return_val[k]
      <3>1. loc[t].l_activate[k] = rec[S.index].deactivate[k]
        BY <1>7 DEF Wanted
      <3>2. rec[r].deactivate = loc[t].l_activate
        BY <1>0, <1>2 DEF IndInv, CopyInv
      <3> QED
        BY <1>2, <1>4, <3>1, <3>2 DEF AnswersOf
    <2>2. HasTakenEffect(k)' = HasTakenEffect(k)
      BY <1>1, <2>1 DEF HasTakenEffect
    <2>3. pc'[k] \in {"idle", "activate"} <=> pc[k] \in {"idle", "activate"}
      BY <1>0, <1>1 DEF TypeOK
    <2>4. AbstractPhase(k)' = AbstractPhase(k)
      BY <2>2, <2>3 DEF AbstractPhase
    <2> QED
      BY <1>1, <2>1, <2>4 DEF SameView, AbstractParam, AbstractResult
  <1>8. \E order \in Abstract!SetToSeqs(W) :
           Abstract!FoldLeft(Abstract!ApplyOne,
                    [object |-> first, result |-> [k \in Threads |-> R[k]]], order)
           = [object |-> last,
              result |-> [k \in Threads |-> IF k \in W THEN ret[k] ELSE R[k]]]
    <2>1. \A k \in W : AbstractPhase(k) = "pending"
      BY <1>6
    <2> HIDE DEF first, last, ret, W, R
    <2> QED
      BY <1>3, <2>1, AppliedAtOnce
  <1>9. PICK order \in Abstract!SetToSeqs(W) :
           Abstract!FoldLeft(Abstract!ApplyOne,
                    [object |-> first, result |-> [k \in Threads |-> R[k]]], order)
           = [object |-> last,
              result |-> [k \in Threads |-> IF k \in W THEN ret[k] ELSE R[k]]]
    BY <1>8
  <1>10. [k \in Threads |-> R[k]] = [k \in Threads |-> AbstractResult(k)]
    OBVIOUS
  <1>11. /\ [k \in Threads |-> IF k \in W THEN ret[k] ELSE R[k]]
            = [k \in Threads |-> AbstractResult(k)']
         /\ rec'[S'.index].st = last
    <2>1. \A k \in Threads :
             AbstractResult(k)' = IF k \in W THEN ret[k] ELSE R[k]
      BY <1>6, <1>7 DEF SameView
    <2> HIDE DEF W, ret, R
    <2> QED
      BY <1>1, <2>1
  <1>12. /\ [k \in Threads |-> AbstractPhase(k)'] =
               [k \in Threads |-> IF k \in W THEN "applied" ELSE AbstractPhase(k)]
         /\ [k \in Threads |-> AbstractParam(k)'] =
               [k \in Threads |-> IF k \in W THEN <<"no arg">> ELSE AbstractParam(k)]
    <2>1. \A k \in Threads :
             /\ AbstractPhase(k)' = IF k \in W THEN "applied" ELSE AbstractPhase(k)
             /\ AbstractParam(k)' = IF k \in W THEN <<"no arg">> ELSE AbstractParam(k)
      BY <1>6, <1>7 DEF SameView, AbstractParam
    <2> HIDE DEF W
    <2> QED
      BY <2>1
  <1>13. DurableState' = DurableState
    BY <1>1 DEF DurableState
  <1> HIDE DEF W, ret, R, last
  <1>14. \E o \in Abstract!SetToSeqs(W) :
            /\ rec'[S'.index].st = Abstract!FoldLeft(Abstract!ApplyOne,
                  [object |-> first, result |-> [k \in Threads |-> AbstractResult(k)]],
                  o).object
            /\ [k \in Threads |-> AbstractResult(k)'] =
                  Abstract!FoldLeft(Abstract!ApplyOne,
                  [object |-> first, result |-> [k \in Threads |-> AbstractResult(k)]],
                  o).result
    BY <1>9, <1>10, <1>11
  <1>15. \A k \in W : [u \in Threads |-> AbstractPhase(u)][k] = "pending"
    BY <1>5, <1>6
  <1>16. Abstract!Apply(W)
    BY <1>5, <1>12, <1>13, <1>14, <1>15 DEF Abstract!Apply
  <1> QED
    BY <1>16 DEF W

LEMMA EffectInit == Init => EffectInv /\ Abstract!Init
  <1> SUFFICES ASSUME Init
               PROVE  EffectInv /\ Abstract!Init
    OBVIOUS
  <1>1. CallInv
    BY CallInit
  <1>2. /\ S = [index |-> InitRec, seq |-> 0] /\ nvm_S = NoRec /\ InitRec \in Recs
        /\ rec[InitRec].st = InitialState
        /\ \A t \in Threads : pc[t] = "idle" /\ out[t] = NoVal
    BY RecFacts DEF Init
  <1>3. ResultInv
    <2>1. \A t \in Threads : AnsweredFrom(t, 0)
      BY <1>2 DEF AnsweredFrom, InAttempt, Reading, Writing, Holding
    <2> QED
      BY <1>2, <2>1 DEF ResultInv
  <1>4. OrderInv
    BY <1>2 DEF OrderInv, OrderOf, Tried, Serving, Marked, Copying
  <1>5. \A t \in Threads : /\ AbstractPhase(t) = "idle" /\ AbstractParam(t) = <<"no arg">>
                           /\ AbstractResult(t) = NoVal
    BY <1>2 DEF AbstractPhase, AbstractParam, AbstractResult
  <1>6. DurableState = Unformatted
    BY <1>2 DEF DurableState
  <1> QED
    BY <1>1, <1>2, <1>3, <1>4, <1>5, <1>6 DEF EffectInv, Abstract!Init

LEMMA EffectStep ==
    ASSUME EffectInv, Unwrapped, [Next]_vars
    PROVE  EffectInv' /\ [Abstract!Next]_Abstract!vars
  <1>0. CallInv /\ IndInv /\ ResultInv /\ CallInv'
    BY CallStep DEF EffectInv, CallInv
  <1>1. IndInv' /\ TypeOK' /\ TypeOK
    BY <1>0 DEF CallInv, IndInv, TypeInv
  <1>2. CASE UNCHANGED vars
    <2>1. \A u \in Threads : SameView(u)
      BY <1>2, ViewKept DEF vars, requestVars, recordVars
    <2>2. rec'[S'.index].st = rec[S.index].st /\ DurableState' = DurableState
      BY <1>2 DEF vars, recordVars, DurableState
    <2>3. UNCHANGED Abstract!vars
      BY <2>1, <2>2, ViewStays
    <2> QED
      BY <1>0, <1>2, <2>3, EvictKeepsEffect DEF EffectInv
  <1>3. CASE Evict
    <2>1. Abstract!Persist \/ UNCHANGED Abstract!vars
      BY <1>0, <1>3, EvictPersists
    <2> QED
      BY <1>0, <1>3, <2>1, EvictKeepsEffect DEF EffectInv, Abstract!Next
  <1>4. ASSUME NEW t \in Threads, Moving(t)
        PROVE  EffectInv' /\ [Abstract!Next]_Abstract!vars
    <2>1. OneStep(t)
      BY <1>0, <1>1, <1>4, StepIsOne
    <2>2. ResultInv' /\ OrderInv'
      BY <1>1, <1>4, <2>1, ResultStep, OrderStep
    <2>3. CASE \E a \in Args : WriteRequest(t, a)
      <3>1. UNCHANGED Abstract!vars
        BY <1>0, <2>3, RequestStutters
      <3> QED
        BY <1>0, <2>2, <3>1 DEF EffectInv
    <2>4. CASE ToggleActivate(t)
      <3>1. Abstract!Invoke(t, arg[t]) /\ arg[t] \in Args
        BY <1>0, <1>1, <2>4, ToggleInvokes DEF TypeOK
      <3> QED
        BY <1>0, <2>2, <3>1 DEF EffectInv, Abstract!Next
    <2>5. CASE Publish(t) /\ loc[t].old_sp = S
      <3>1. Abstract!Apply(Wanted(t)) /\ Wanted(t) \in SUBSET Threads
        BY <2>5, PublishApplies DEF Wanted
      <3> QED
        BY <1>0, <2>2, <3>1 DEF EffectInv, Abstract!Next
    <2>6. CASE Return(t, "return_own") \/ Return(t, "return_current")
      <3>1. Abstract!Return(t)
        BY <1>0, <2>6, ReturnReturnsResult
      <3> QED
        BY <1>0, <2>2, <3>1 DEF EffectInv, Abstract!Next
    <2>7. CASE ~ \/ \E a \in Args : WriteRequest(t, a)
                 \/ ToggleActivate(t)
                 \/ Publish(t) /\ loc[t].old_sp = S
                 \/ Return(t, "return_own") \/ Return(t, "return_current")
      <3>1. /\ Step(t)
            /\ Silent(t) \/ ReadActivate(t) \/ GivesUp(t) \/ FlushOwn(t) \/ HelpFlush(t)
        BY <1>4, <2>1, <2>7 DEF Moving, OneStep
      <3>2. Abstract!Persist \/ UNCHANGED Abstract!vars
        BY <1>0, <2>7, <3>1, QuietIsAbstract
      <3> QED
        BY <1>0, <2>2, <3>2 DEF EffectInv, Abstract!Next
    <2> QED
      BY <2>3, <2>4, <2>5, <2>6, <2>7
  <1> QED
    BY <1>2, <1>3, <1>4 DEF Next, Moving

(* PWFCombApplyOp makes a linearizable object whose crashes lose a suffix of *)
(* the operations at most (pwfcomb.c:79-215): the operations of a session    *)
(* take effect one after another at the compare-and-swap of line 197, each   *)
(* call returns what its own operation computed, even where it reads it from *)
(* a record that has been replaced (lines 202, 215), and a crash leaves the  *)
(* object as it was after some session, perhaps without operations that have *)
(* returned (ReturnedDurable).                                               *)
THEOREM ImplementsObject == UnwrappedSpec => ImplementsBufferedObject
  <1>a. EffectInv /\ [Next /\ Unwrapped]_vars =>
           EffectInv' /\ [Abstract!Next]_Abstract!vars
    <2> SUFFICES ASSUME EffectInv, [Next /\ Unwrapped]_vars
                 PROVE  EffectInv' /\ [Abstract!Next]_Abstract!vars
      OBVIOUS
    <2>1. Unwrapped /\ [Next]_vars
      BY UnwrappedStep DEF EffectInv
    <2> QED
      BY <2>1, EffectStep
  <1>1. EffectInv /\ [Next /\ Unwrapped]_vars => EffectInv'
    BY <1>a
  <1>2. EffectInv /\ [Next /\ Unwrapped]_vars => [Abstract!Next]_Abstract!vars
    BY <1>a
  <1> QED
    BY <1>1, <1>2, EffectInit, PTL
       DEF UnwrappedSpec, Spec, ImplementsBufferedObject, Abstract!Spec
=============================================================================
