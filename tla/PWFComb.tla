------------------------------- MODULE PWFComb -------------------------------
(* PWFcomb, the wait-free persistent combining object                        *)
(* (libconcurrent/concurrent/pwfcomb.c, libconcurrent/includes/pwfcomb.h).   *)
(*                                                                           *)
(* A thread announces its request, copies the current state record into one  *)
(* of its own two, serves every announced request on the copy, makes it      *)
(* durable and tries to make it the current one by a compare-and-swap of     *)
(* pstate->S.  Nobody waits: a thread that fails twice has been served by    *)
(* another one.  Since the copy is read while its owner may be rewriting it, *)
(* S carries a sequence number, and is compared again after every read.      *)
(*                                                                           *)
(* flush[o] tells whether S is durable, for the last record of owner o: odd  *)
(* is not yet, even is so.  A thread that was served by another uses it to   *)
(* see whether it must flush S itself before it returns.                     *)
(*                                                                           *)
(* Every access to shared memory whose order matters is a step.  There is    *)
(* one division of the activate bits (a machine with one NUMA node) and one  *)
(* cell in a toggle vector (at most 64 threads): a vector is read at once.   *)
(* clean and nvm_S describe the durable memory as in PBComb.                 *)
EXTENDS Integers, FiniteSets, FiniteSetsExt

CONSTANTS
    NThreads,        \* nthreads, the number of threads of the object
    Args,            \* the arguments of operations, of 62 bits (pwfcomb.h:72)
    RetVals,         \* the values operations return
    ObjStates,       \* the states of the simulated object
    InitialState,    \* the state the object is created with
    ZeroArg, ZeroVal, NoVal, NoRec,    \* as in PBComb
    SFunc(_, _, _),  \* sfunc: <<state, arg, thread>> to [state, ret]
    AsVal(_),        \* an argument, stored as a return value (line 161)
    SeqRange         \* 2^40: how many values the sequence number has

Threads == 0 .. NThreads - 1

(* Record <<o, k>> is mem_state[2 * o + k], of thread o; the initial record  *)
(* comes after those of the threads.                                         *)
InitRec == <<NThreads, 0>>
PoolRecs == Threads \X {0, 1}
Recs == PoolRecs \union {InitRec}
Owner(r) == r[1]

ASSUME PWFConstantsAssumption ==
    /\ NThreads \in Nat \ {0}
    /\ SeqRange \in Nat /\ SeqRange >= 2
    /\ ZeroArg \in Args /\ ZeroVal \in RetVals /\ InitialState \in ObjStates

(* The operations of the object keep its types. *)
ASSUME SFuncAssumption ==
    /\ \A s \in ObjStates, a \in Args, t \in Threads :
          SFunc(s, a, t).state \in ObjStates /\ SFunc(s, a, t).ret \in RetVals
    /\ \A a \in Args : AsVal(a) \in RetVals

VARIABLES
    arg, valid, activate,    \* request, and the activate bits
    S,                       \* pstate->S: the current record and a number
    rec,                     \* the records, PWFCombStateRec
    flush, comb_round,       \* per owner; per owner and thread
    clean, nvm_S,            \* the durable memory
    pc, loc,                 \* per thread: the next step, its local variables
    out                      \* per thread: what its last call returned

requestVars == <<arg, valid, activate>>
flushVars   == <<flush, comb_round>>
recordVars  == <<rec, clean>>
vars == <<requestVars, S, nvm_S, recordVars, flushVars, pc, loc, out>>

Goto(t, label) == pc' = [pc EXCEPT ![t] = label]
At(t, label) == pc[t] = label

Bits == [Threads -> {0, 1}]

NoLocals ==
    [j |-> 0, old_sp |-> [index |-> InitRec, seq |-> 0], l_val |-> 0,
     lsp |-> InitRec, diffs |-> {}, diffs_copy |-> {},
     l_activate |-> [k \in Threads |-> 0]]

-----------------------------------------------------------------------------
(* PWFCombInit and PWFCombThreadStateInit, lines 11-72.  flush[o] of a       *)
(* thread is not initialised and not read before it is written.              *)
Init ==
    /\ arg = [t \in Threads |-> ZeroArg]
    /\ valid = [t \in Threads |-> FALSE]
    /\ activate = [t \in Threads |-> 0]
    /\ S = [index |-> InitRec, seq |-> 0]
    /\ rec = [r \in Recs |-> [st |-> InitialState,
                              deactivate |-> [t \in Threads |-> 0],
                              index |-> [t \in Threads |-> 0],
                              return_val |-> [t \in Threads |-> ZeroVal]]]
    /\ flush = [o \in Threads \union {NThreads} |-> 0]
    /\ comb_round = [o \in Threads |-> [t \in Threads |-> 0]]
    /\ clean = [r \in Recs |-> FALSE]
    /\ nvm_S = NoRec
    /\ pc = [t \in Threads |-> "idle"]
    /\ loc = [t \in Threads |-> NoLocals]
    /\ out = [t \in Threads |-> NoVal]

(* Lines 89-90: arg and valid share a word. *)
WriteRequest(t, a) ==
    /\ At(t, "idle")
    /\ arg' = [arg EXCEPT ![t] = a]
    /\ valid' = [valid EXCEPT ![t] = TRUE]
    /\ Goto(t, "activate")
    /\ UNCHANGED <<activate, S, nvm_S, recordVars, flushVars, loc, out>>

(* Lines 93-95: the fetch-and-add toggles the bit of t alone. *)
ToggleActivate(t) ==
    /\ At(t, "activate")
    /\ activate' = [activate EXCEPT ![t] = 1 - @]
    /\ Goto(t, "read_S")
    /\ UNCHANGED <<arg, valid, S, nvm_S, recordVars, flushVars, loc, out>>

-----------------------------------------------------------------------------
(* An attempt, lines 111-205.                                                *)

(* A step of t that reads shared memory and changes local variables only. *)
Local(t) == UNCHANGED <<requestVars, S, nvm_S, recordVars, flushVars, out>>

(* Mutant: a single attempt. *)
AttemptsOne == 1

(* The bound of the loop of line 111. *)
Attempts == 2

(* The next attempt, or the end of the loop. *)
Retry(t) ==
    LET j == loc[t].j + 1 IN
    /\ loc' = [loc EXCEPT ![t] = [NoLocals EXCEPT !.j = IF j < Attempts THEN j ELSE 0]]
    /\ Goto(t, IF j < Attempts THEN "read_S" ELSE "read_current")

(* break: t has been served. *)
Break(t) ==
    /\ loc' = [loc EXCEPT ![t] = NoLocals]
    /\ Goto(t, "read_current")

Unchanged_S(t) == S = loc[t].old_sp

(* Lines 112-113. *)
ReadS(t) ==
    /\ At(t, "read_S")
    /\ loc' = [loc EXCEPT ![t].old_sp = S]
    /\ Goto(t, "read_diffs")
    /\ Local(t)

(* Line 116; of the difference only the bit of t is used. *)
ReadDiffs(t) ==
    /\ At(t, "read_diffs")
    /\ loc' = [loc EXCEPT ![t].diffs =
                  IF rec[loc[t].old_sp.index].deactivate[t] # activate[t]
                  THEN {t} ELSE {}]
    /\ Goto(t, "read_flush")
    /\ Local(t)

(* Line 117. *)
ReadFlush(t) ==
    /\ At(t, "read_flush")
    /\ loc' = [loc EXCEPT ![t].l_val = flush[Owner(loc[t].old_sp.index)]]
    /\ Goto(t, "check_S")
    /\ Local(t)

(* Lines 118-121. *)
CheckS(t) ==
    /\ At(t, "check_S")
    /\ IF ~Unchanged_S(t) THEN Retry(t)
       ELSE IF loc[t].diffs = {} THEN Break(t)
       ELSE Goto(t, "copy") /\ UNCHANGED loc
    /\ Local(t)

(* Mutant: the records of t are counted from 1. *)
LocalIndexLate(t, r) == <<t, rec[r].index[t] + 1>>

(* The record of t that is not the last one it published, by the index       *)
(* vector of the record it copies (line 123).                                *)
LocalIndex(t, r) == <<t, rec[r].index[t]>>

(* Lines 123-125.  memcpy copies the state and both vectors, then the return *)
(* values; the record it reads may be written at the same time.              *)
CopyState(t) ==
    LET from == loc[t].old_sp.index
        to   == LocalIndex(t, from)
    IN
    /\ At(t, "copy")
    /\ rec' = [rec EXCEPT ![to] = [rec[from] EXCEPT !.return_val =
                                       rec[to].return_val]]
    /\ clean' = [clean EXCEPT ![to] = FALSE]
    /\ loc' = [loc EXCEPT ![t].lsp = to, ![t].diffs = {}]
    /\ Goto(t, "copy_results")
    /\ UNCHANGED <<requestVars, S, nvm_S, flushVars, out>>

CopyResults(t) ==
    /\ At(t, "copy_results")
    /\ rec' = [rec EXCEPT ![loc[t].lsp].return_val =
                  rec[loc[t].old_sp.index].return_val]
    /\ clean' = [clean EXCEPT ![loc[t].lsp] = FALSE]
    /\ Goto(t, "check_copy")
    /\ UNCHANGED <<requestVars, S, nvm_S, flushVars, loc, out>>

(* Lines 126-127. *)
CheckCopy(t) ==
    /\ At(t, "check_copy")
    /\ IF Unchanged_S(t) THEN Goto(t, "read_activate") /\ UNCHANGED loc
       ELSE Retry(t)
    /\ Local(t)

(* Lines 129-136. *)
ReadActivate(t) ==
    LET diffs == {k \in Threads :
                     rec[loc[t].lsp].deactivate[k] # activate[k]}
    IN
    /\ At(t, "read_activate")
    /\ IF t \notin diffs THEN Break(t)
       ELSE /\ loc' = [loc EXCEPT ![t].diffs = diffs,
                                  ![t].l_activate = activate]
            /\ Goto(t, "serve_own")
    /\ Local(t)

(* The operation a of thread k applied to record r. *)
Served(r, a, k) ==
    LET applied == SFunc(rec[r].st, a, k)
    IN [rec EXCEPT ![r].st = applied.state, ![r].return_val[k] = applied.ret]

(* Lines 142-144.  From here on diffs_copy holds the threads served.         *)
ServeOwn(t) ==
    /\ At(t, "serve_own")
    /\ rec' = Served(loc[t].lsp, arg[t], t)
    /\ loc' = [loc EXCEPT ![t].diffs = @ \ {t}, ![t].diffs_copy = loc[t].diffs]
    /\ Goto(t, "scan")
    /\ UNCHANGED <<requestVars, S, nvm_S, clean, flushVars, out>>

(* Lines 154-161: the argument is put in the place of the return value ...   *)
LoadArg(t) ==
    LET k == Min(loc[t].diffs) IN
    /\ At(t, "scan")
    /\ loc[t].diffs # {}
    /\ IF valid[k]
       THEN /\ rec' = [rec EXCEPT ![loc[t].lsp].return_val[k] = AsVal(arg[k])]
            /\ Goto(t, "serve")
            /\ UNCHANGED loc
       ELSE /\ loc' = [loc EXCEPT ![t].diffs = @ \ {k},
                                  ![t].l_activate[k] = 1 - @]
            /\ UNCHANGED <<rec, pc>>
    /\ UNCHANGED <<requestVars, S, nvm_S, clean, flushVars, out>>

(* ... and the request is served, with the argument read again (line 162).   *)
ServeOther(t) ==
    LET k == Min(loc[t].diffs) IN
    /\ At(t, "serve")
    /\ rec' = Served(loc[t].lsp, arg[k], k)
    /\ loc' = [loc EXCEPT ![t].diffs = @ \ {k}]
    /\ Goto(t, "scan")
    /\ UNCHANGED <<requestVars, S, nvm_S, clean, flushVars, out>>

(* Mutant: the index vector keeps the bit of t. *)
FlippedNot(index, t) == index

(* Line 169. *)
Flipped(index, t) == [index EXCEPT ![t] = 1 - @]

(* Lines 168-169. *)
MarkServed(t) ==
    LET r == loc[t].lsp IN
    /\ At(t, "scan")
    /\ loc[t].diffs = {}
    /\ rec' = [rec EXCEPT ![r].deactivate = loc[t].l_activate,
                          ![r].index = Flipped(@, t)]
    /\ Goto(t, "check_publish")
    /\ UNCHANGED <<requestVars, S, nvm_S, clean, flushVars, loc, out>>

(* Lines 174 and 204. *)
CheckPublish(t) ==
    /\ At(t, "check_publish")
    /\ IF Unchanged_S(t) THEN Goto(t, "flush_record") /\ UNCHANGED loc
       ELSE Retry(t)
    /\ Local(t)

(* Mutant: the record is not flushed. *)
FlushedNot(r) == clean

Flushed(r) == [clean EXCEPT ![r] = TRUE]

(* Lines 175-176. *)
FlushRecord(t) ==
    /\ At(t, "flush_record")
    /\ clean' = Flushed(loc[t].lsp)
    /\ Goto(t, "set_flush")
    /\ UNCHANGED <<requestVars, S, nvm_S, rec, flushVars, loc, out>>

(* Lines 178-183.  !l_val%2 is (!l_val)%2: the first branch is taken when    *)
(* l_val is 0, not when it is even.                                          *)
NextFlush(l_val) == IF l_val = 0 THEN l_val + 1 ELSE l_val + 2

(* Line 184. *)
SetFlush(t) ==
    LET v == NextFlush(loc[t].l_val) IN
    /\ At(t, "set_flush")
    /\ loc' = [loc EXCEPT ![t].l_val = v]
    /\ flush' = [flush EXCEPT ![t] = v]
    /\ Goto(t, "set_round")
    /\ UNCHANGED <<requestVars, S, nvm_S, recordVars, comb_round, out>>

(* Lines 187-195. *)
SetRound(t) ==
    /\ At(t, "set_round")
    /\ comb_round' = [comb_round EXCEPT ![t] =
                         [k \in Threads |-> IF k \in loc[t].diffs_copy
                                            THEN loc[t].l_val ELSE @[k]]]
    /\ loc' = [loc EXCEPT ![t].diffs_copy = {}]
    /\ Goto(t, "cas")
    /\ UNCHANGED <<requestVars, S, nvm_S, recordVars, flush, out>>

(* Mutant: the sequence number stays the same. *)
NextSeqStuck(seq) == seq

(* Line 171. *)
NextSeq(seq) == (seq + 1) % SeqRange

(* Line 197. *)
Publish(t) ==
    /\ At(t, "cas")
    /\ IF Unchanged_S(t)
       THEN /\ S' = [index |-> loc[t].lsp, seq |-> NextSeq(loc[t].old_sp.seq)]
            /\ Goto(t, "flush_S")
            /\ UNCHANGED loc
       ELSE Retry(t) /\ UNCHANGED S
    /\ UNCHANGED <<requestVars, nvm_S, recordVars, flushVars, out>>

(* What a flush of pstate->S makes durable. *)
FlushedPointer == S

(* A thread flushes S and then adds one to the flush counter of o, unless it *)
(* has moved: lines 198-200 and 210-212.                                     *)
FlushS(t, from, to) ==
    /\ At(t, from)
    /\ nvm_S' = FlushedPointer
    /\ Goto(t, to)
    /\ UNCHANGED <<requestVars, S, recordVars, flushVars, loc, out>>

Settle(t, o, from, to) ==
    /\ At(t, from)
    /\ flush' = [flush EXCEPT ![o] = IF @ = loc[t].l_val THEN @ + 1 ELSE @]
    /\ Goto(t, to)
    /\ UNCHANGED <<requestVars, S, nvm_S, recordVars, comb_round, loc, out>>

FlushOwn(t)  == FlushS(t, "flush_S", "settle")
SettleOwn(t) == Settle(t, t, "settle", "return_own")

(* Returning the value record loc[t].lsp has for t, lines 202 and 215. *)
Return(t, from) ==
    /\ At(t, from)
    /\ out' = [out EXCEPT ![t] = rec[loc[t].lsp].return_val[t]]
    /\ loc' = [loc EXCEPT ![t] = NoLocals]
    /\ Goto(t, "idle")
    /\ UNCHANGED <<requestVars, S, nvm_S, recordVars, flushVars>>

-----------------------------------------------------------------------------
(* After two attempts, or when t was served, lines 207-215; lsp stands for   *)
(* curr_pool_index.                                                          *)

(* Line 207. *)
ReadCurrent(t) ==
    /\ At(t, "read_current")
    /\ loc' = [loc EXCEPT ![t].lsp = S.index]
    /\ Goto(t, "read_current_flush")
    /\ Local(t)

(* Line 208. *)
ReadCurrentFlush(t) ==
    /\ At(t, "read_current_flush")
    /\ loc' = [loc EXCEPT ![t].l_val = flush[Owner(loc[t].lsp)]]
    /\ Goto(t, "check_round")
    /\ Local(t)

(* Line 209: must t make S durable?  The record is not the initial one, which*)
(* serves nobody.                                                            *)
CheckRound(t) ==
    /\ At(t, "check_round")
    /\ Goto(t, IF /\ loc[t].l_val % 2 = 1
                  /\ loc[t].l_val = comb_round[Owner(loc[t].lsp)][t]
               THEN "help_flush" ELSE "return_current")
    /\ UNCHANGED loc
    /\ Local(t)

HelpFlush(t)  == FlushS(t, "help_flush", "help_settle")
HelpSettle(t) == Settle(t, Owner(loc[t].lsp), "help_settle", "return_current")

(* The cache line of S reaches the durable memory on its own. *)
Evict ==
    /\ nvm_S' = S
    /\ UNCHANGED <<requestVars, S, recordVars, flushVars, pc, loc, out>>

Attempt(t) ==
    \/ ReadS(t) \/ ReadDiffs(t) \/ ReadFlush(t) \/ CheckS(t)
    \/ CopyState(t) \/ CopyResults(t) \/ CheckCopy(t) \/ ReadActivate(t)
    \/ ServeOwn(t) \/ LoadArg(t) \/ ServeOther(t) \/ MarkServed(t)
    \/ CheckPublish(t) \/ FlushRecord(t) \/ SetFlush(t) \/ SetRound(t)
    \/ Publish(t) \/ FlushOwn(t) \/ SettleOwn(t) \/ Return(t, "return_own")

Finish(t) ==
    \/ ReadCurrent(t) \/ ReadCurrentFlush(t) \/ CheckRound(t)
    \/ HelpFlush(t) \/ HelpSettle(t) \/ Return(t, "return_current")

(* A step of a call thread t has begun. *)
Step(t) == ToggleActivate(t) \/ Attempt(t) \/ Finish(t)

Next ==
    \/ \E t \in Threads : (\E a \in Args : WriteRequest(t, a)) \/ Step(t)
    \/ Evict

Spec == Init /\ [][Next]_vars
-----------------------------------------------------------------------------
(* Correctness *)

(* The steps at which a thread writes its record, and those after which it   *)
(* takes its operation to have been applied by another thread.               *)
Writing == {"copy_results", "check_copy", "read_activate", "serve_own", "scan",
            "serve", "check_publish", "flush_record", "set_flush", "set_round",
            "cas"}
Finishing == {"read_current", "read_current_flush", "check_round", "help_flush",
              "help_settle", "return_current"}

Labels == Writing \union Finishing \union
          {"idle", "activate", "read_S", "read_diffs", "read_flush", "check_S",
           "copy", "flush_S", "settle", "return_own"}

Pointers == [index : Recs, seq : 0 .. SeqRange - 1]

(* NULL is no pointer to a record. *)
ASSUME NoRecAssumption == NoRec \notin Pointers

Records == [st : ObjStates, deactivate : Bits, index : Bits,
            return_val : [Threads -> RetVals]]

Locals == [j : 0 .. Attempts - 1, old_sp : Pointers, l_val : Nat, lsp : Recs,
           diffs : SUBSET Threads, diffs_copy : SUBSET Threads, l_activate : Bits]

TypeOK ==
    /\ arg \in [Threads -> Args]
    /\ valid \in [Threads -> BOOLEAN]
    /\ activate \in Bits
    /\ S \in Pointers
    /\ nvm_S \in Pointers \union {NoRec}
    /\ rec \in [Recs -> Records]
    /\ flush \in [Threads \union {NThreads} -> Nat]
    /\ comb_round \in [Threads -> [Threads -> Nat]]
    /\ clean \in [Recs -> BOOLEAN]
    /\ pc \in [Threads -> Labels]
    /\ loc \in [Threads -> Locals]
    /\ out \in [Threads -> RetVals \union {NoVal}]

(* The record a thread writes (lines 123-197) is neither the current one nor *)
(* the one a crash would recover from, although a thread has two records     *)
(* only, finds out which one to use from a copy that may be torn (line 123), *)
(* and may be late by several rounds.                                        *)
LocalRecordPrivate ==
    \A t \in Threads : pc[t] \in Writing =>
        loc[t].lsp # S.index /\ (nvm_S # NoRec => loc[t].lsp # nvm_S.index)

(* A record that is current, or that a crash recovers, is wholly durable     *)
(* (lines 174-197), also while its owner has begun another call.             *)
ImageComplete ==
    /\ S.index \in PoolRecs => clean[S.index]
    /\ nvm_S # NoRec /\ nvm_S.index \in PoolRecs => clean[nvm_S.index]

HasTakenEffect(t) == rec[S.index].deactivate[t] = activate[t]

(* A thread that leaves the loop of line 111 without having published has    *)
(* been served: two failed attempts are enough, since the second one failed  *)
(* because of a thread that looked at the activate bits after the first one  *)
(* had begun.                                                                *)
TwoAttemptsSuffice ==
    \A t \in Threads : pc[t] \in Finishing => HasTakenEffect(t)

(* Each call returns the value its own operation computed, although line 215 *)
(* reads it from a record that may have been replaced and begun to be        *)
(* rewritten; operations take effect one after another, at line 197; a crash *)
(* leaves the object as it was after some session.                           *)
Unformatted == <<"unformatted">>

DurableState ==
    IF nvm_S # NoRec /\ clean[nvm_S.index] THEN rec[nvm_S.index].st ELSE Unformatted

AbstractPhase(t) ==
    IF pc[t] \in {"idle", "activate"} THEN "idle"
    ELSE IF HasTakenEffect(t) THEN "applied" ELSE "pending"

AbstractParam(t) == IF AbstractPhase(t) = "pending" THEN arg[t] ELSE <<"no arg">>

AbstractResult(t) ==
    IF AbstractPhase(t) = "applied" THEN rec[S.index].return_val[t] ELSE out[t]

Abstract == INSTANCE BufferedObject WITH
    NoArg   <- <<"no arg">>,
    phase   <- [t \in Threads |-> AbstractPhase(t)],
    param   <- [t \in Threads |-> AbstractParam(t)],
    result  <- [t \in Threads |-> AbstractResult(t)],
    object  <- rec[S.index].st,
    durable <- DurableState

ImplementsBufferedObject == Abstract!Spec

(* The operation of t is in the durable image of the object. *)
IsDurable(t) ==
    /\ nvm_S # NoRec
    /\ rec[nvm_S.index].deactivate[t] = activate[t]

(* A call returns only when its operation is durable: what the flush         *)
(* counters, and the help of lines 209-213, are for.                         *)
ReturnedDurable ==
    \A t \in Threads :
        pc[t] \in {"return_own", "return_current"} => IsDurable(t)
=============================================================================
