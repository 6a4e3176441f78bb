-------------------------- MODULE WaitFreeSessions --------------------------
(* What the wait-free scheme of PWFcomb promises to an object built by it.   *)
(* Every thread with an operation may try to publish a session: it takes the *)
(* state word and the operations that are pending, applies them to its own   *)
(* copy, and publishes the copy unless another thread has published in       *)
(* between.  Then its attempt is stale: it goes on, to find out at its next  *)
(* look at S, and has no effect.  The published word becomes durable later,  *)
(* perhaps after calls of its session have returned.                         *)
(* PWFComb implements this module (MCPWFComb).                               *)
(*                                                                           *)
(* The structure keeps the copies: Publish takes the new state word and the  *)
(* return values as parameters.  PWFStack and PWFQueue, whose code repeats   *)
(* the scheme, conjoin these actions with their own.                         *)
EXTENDS Integers

CONSTANTS
    Threads,         \* the threads that share the object
    Args,            \* the arguments of operations
    NoArg,           \* the argument of a thread that has called never
    RetVals,         \* the values operations return
    InitialVal,      \* return_val of the initial record
    Words,           \* the values of the state word
    InitialWord,     \* the state word the object is created with
    Unformatted      \* what a crash leaves before the first session

VARIABLES
    phase,      \* per thread: idle, pending or applied
    param,      \* per thread: request[t].arg, its last argument
    word,       \* the state word of the current record
    result,     \* return_val of the current record
    durable,    \* the state word of the record the durable S leads to
    stage,      \* per thread: out of an attempt, trying, stale, published, synced
    batch       \* per thread: the operations its attempt will apply

callVars   == <<phase, param>>
recordVars == <<word, result>>
vars == <<callVars, recordVars, durable, stage, batch>>

Init ==
    /\ phase = [t \in Threads |-> "idle"]
    /\ param = [t \in Threads |-> NoArg]
    /\ word = InitialWord
    /\ result = [t \in Threads |-> InitialVal]
    /\ durable = Unformatted
    /\ stage = [t \in Threads |-> "out"]
    /\ batch = [t \in Threads |-> {}]

Pending == {t \in Threads : phase[t] = "pending"}

(* Thread t announces an operation and is about to toggle its bit. *)
Invoke(t, a) ==
    /\ phase[t] = "idle"
    /\ phase' = [phase EXCEPT ![t] = "pending"]
    /\ param' = [param EXCEPT ![t] = a]
    /\ UNCHANGED <<recordVars, durable, stage, batch>>

(* Thread t copies the current record and reads the bits, S being the same   *)
(* before and after: it will apply the operations of threads.  Some pending  *)
(* ones may have come too late for it.                                       *)
Start(t, threads) ==
    /\ stage[t] = "out"
    /\ phase[t] = "pending"
    /\ t \in threads /\ threads \subseteq Pending
    /\ stage' = [stage EXCEPT ![t] = "trying"]
    /\ batch' = [batch EXCEPT ![t] = threads]
    /\ UNCHANGED <<callVars, recordVars, durable>>

(* The same, with a look at S before the bits are read only, too early to    *)
(* notice another session.                                                   *)
StartLate(t) ==
    /\ stage[t] = "out"
    /\ phase[t] # "idle"
    /\ stage' = [stage EXCEPT ![t] = "stale"]
    /\ UNCHANGED <<callVars, recordVars, durable, batch>>

(* The compare-and-swap of S succeeds: the batch takes effect, returns the   *)
(* values answers[k] and leaves the state word w.  Other attempts are stale. *)
Publish(t, w, answers) ==
    /\ stage[t] = "trying"
    /\ word' = w
    /\ result' = [k \in Threads |-> IF k \in batch[t] THEN answers[k] ELSE result[k]]
    /\ phase' = [k \in Threads |-> IF k \in batch[t] THEN "applied" ELSE phase[k]]
    /\ stage' = [k \in Threads |->
                    IF k = t THEN "published"
                    ELSE IF stage[k] = "trying" THEN "stale" ELSE stage[k]]
    /\ batch' = [k \in Threads |->
                    IF k = t \/ stage[k] = "trying" THEN {} ELSE batch[k]]
    /\ UNCHANGED <<param, durable>>

(* An attempt notices that it is stale. *)
GiveUp(t) ==
    /\ stage[t] = "stale"
    /\ stage' = [stage EXCEPT ![t] = "out"]
    /\ UNCHANGED <<callVars, recordVars, durable, batch>>

(* What a flush, or an eviction, of S makes durable. *)
Synced == word

(* The thread that has published makes S durable; other sessions may have    *)
(* come after its own.                                                       *)
Sync(t) ==
    /\ stage[t] = "published"
    /\ stage' = [stage EXCEPT ![t] = "synced"]
    /\ durable' = Synced
    /\ UNCHANGED <<callVars, recordVars, batch>>

ReturnOwn(t) ==
    /\ stage[t] = "synced"
    /\ stage' = [stage EXCEPT ![t] = "out"]
    /\ phase' = [phase EXCEPT ![t] = "idle"]
    /\ UNCHANGED <<param, recordVars, durable, batch>>

(* A thread whose operation another one has applied returns. *)
ReturnServed(t) ==
    /\ stage[t] = "out"
    /\ phase[t] = "applied"
    /\ phase' = [phase EXCEPT ![t] = "idle"]
    /\ UNCHANGED <<param, recordVars, durable, stage, batch>>

(* S reaches the durable memory: its cache line is evicted, or flushed by a  *)
(* thread that has been served.  Whether that thread flushes depends on a    *)
(* counter that is not kept here; it need not.                               *)
Evict ==
    /\ durable' = Synced
    /\ UNCHANGED <<callVars, recordVars, stage, batch>>

Next ==
    \/ \E t \in Threads :
          \/ \E a \in Args : Invoke(t, a)
          \/ \E threads \in SUBSET Pending : Start(t, threads)
          \/ \E w \in Words, answers \in [batch[t] -> RetVals] :
                Publish(t, w, answers)
          \/ StartLate(t) \/ GiveUp(t) \/ Sync(t) \/ ReturnOwn(t) \/ ReturnServed(t)
    \/ Evict

Spec == Init /\ [][Next]_vars
=============================================================================
