-------------------------- MODULE CombiningSessions --------------------------
(* What a persistent combining object gives to the data structure built on   *)
(* it: sessions.  One thread at a time is the combiner; its session applies  *)
(* pending operations one after another to a word of state, runs the         *)
(* structure's final_persist hook, makes the word durable, publishes it, runs *)
(* the after_persist hook and ends; only then do the operations it applied   *)
(* return.  PBComb implements this module (PBCombSessions).                  *)
(*                                                                           *)
(* The structure decides what an operation does: Serve takes the new state   *)
(* word and the return value as parameters.  PBStack and PBQueue conjoin     *)
(* these actions with their own.                                             *)

CONSTANTS
    Threads,         \* the threads that share the object
    Args,            \* the arguments of operations
    NoArg,           \* the argument of a thread without an operation
    RetVals,         \* the values operations return
    NoVal,           \* the result of a thread that has none
    Words,           \* the values of the state word
    InitialWord,     \* the state word the object is created with
    Unformatted,     \* what a crash leaves before the first session
    NoThread         \* the combiner when there is no session

VARIABLES
    phase,      \* per thread: idle, pending, applied (by the session under
                \* way) or released (by a session that has ended)
    param,      \* per thread: the argument of its operation
    result,     \* per thread: the result of its last applied operation
    stage,      \* how far the session under way has come, or free
    combiner,   \* the thread that runs it
    word,       \* the state word after the operations applied so far
    published,  \* the state word of the last session that published one
    durable,    \* the state word a crash leaves
    synced      \* the durable pointer is the published one

callVars    == <<phase, param, result>>
sessionVars == <<stage, combiner>>
wordVars    == <<word, published, durable, synced>>
vars        == <<callVars, sessionVars, wordVars>>

Init ==
    /\ phase = [t \in Threads |-> "idle"]
    /\ param = [t \in Threads |-> NoArg]
    /\ result = [t \in Threads |-> NoVal]
    /\ stage = "free"
    /\ combiner = NoThread
    /\ word = InitialWord
    /\ published = Unformatted
    /\ durable = Unformatted
    /\ synced = FALSE

(* Thread t announces an operation. *)
Invoke(t, a) ==
    /\ phase[t] = "idle"
    /\ phase' = [phase EXCEPT ![t] = "pending"]
    /\ param' = [param EXCEPT ![t] = a]
    /\ UNCHANGED <<result, sessionVars, wordVars>>

(* Thread t, which is inside a call, wins the lock. *)
Begin(t) ==
    /\ stage = "free"
    /\ phase[t] # "idle"
    /\ stage' = "serving"
    /\ combiner' = t
    /\ UNCHANGED <<callVars, wordVars>>

(* The combiner applies the operation of thread k: it returns v and leaves   *)
(* the state word w.                                                         *)
Serve(k, w, v) ==
    /\ stage = "serving"
    /\ phase[k] = "pending"
    /\ phase' = [phase EXCEPT ![k] = "applied"]
    /\ result' = [result EXCEPT ![k] = v]
    /\ word' = w
    /\ UNCHANGED <<param, sessionVars, published, durable, synced>>

(* ... whatever they are. *)
ServeAny(k) == \E w \in Words, v \in RetVals : Serve(k, w, v)

(* The session goes on from one stage to the next. *)
Advance(from, to) ==
    /\ stage = from
    /\ stage' = to
    /\ UNCHANGED <<callVars, combiner>>

FinalPersist == Advance("serving", "flush_state") /\ UNCHANGED wordVars

FlushState == Advance("flush_state", "publish") /\ UNCHANGED wordVars

Publish ==
    /\ Advance("publish", "flush_pointer")
    /\ published' = word
    /\ synced' = FALSE
    /\ UNCHANGED <<word, durable>>

FlushPointer ==
    /\ Advance("flush_pointer", "after_persist")
    /\ durable' = published
    /\ synced' = TRUE
    /\ UNCHANGED <<word, published>>

AfterPersist == Advance("after_persist", "unlock") /\ UNCHANGED wordVars

(* The session ends; the operations it applied may return. *)
Unlock ==
    /\ stage = "unlock"
    /\ stage' = "free"
    /\ combiner' = NoThread
    /\ phase' = [t \in Threads |->
                    IF phase[t] = "applied" THEN "released" ELSE phase[t]]
    /\ UNCHANGED <<param, result, wordVars>>

(* Thread t returns, with result[t]. *)
Return(t) ==
    /\ phase[t] = "released"
    /\ combiner # t
    /\ phase' = [phase EXCEPT ![t] = "idle"]
    /\ param' = [param EXCEPT ![t] = NoArg]
    /\ UNCHANGED <<result, sessionVars, wordVars>>

(* The cache line of the published pointer reaches the durable memory. *)
Evict ==
    /\ durable' = published
    /\ synced' = TRUE
    /\ UNCHANGED <<callVars, sessionVars, word, published>>

Persist == FinalPersist \/ FlushState \/ Publish \/ FlushPointer \/ AfterPersist

Next ==
    \/ \E t \in Threads :
          \/ \E a \in Args : Invoke(t, a)
          \/ ServeAny(t)
          \/ Begin(t) \/ Return(t)
    \/ Persist \/ Unlock \/ Evict

Spec == Init /\ [][Next]_vars
=============================================================================
