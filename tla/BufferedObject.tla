--------------------------- MODULE BufferedObject ---------------------------
(* A linearizable object whose durable state lags behind: a sequential       *)
(* object shared by a set of threads, in which the pending operations of     *)
(* several threads may take effect at one instant, one after another, and in *)
(* which an operation may return before it is durable.  What a crash leaves  *)
(* is the state of the object at some earlier instant (buffered durable      *)
(* linearizability); compare DurableObject.                                  *)
EXTENDS Integers, SequencesExt

CONSTANTS
    Threads,         \* the threads that share the object
    Args,            \* the arguments of operations
    NoArg,           \* the argument of a thread without a pending operation
    NoVal,           \* the result of a thread that computed none yet
    InitialState,    \* the state the object is created with
    Unformatted,     \* what a crash leaves before the first state is durable
    SFunc(_, _, _)   \* the sequential object: <<state, arg, thread>> to
                     \* a record [state, ret]

VARIABLES
    phase,     \* per thread: idle, pending or applied
    param,     \* per thread: the argument of its pending operation
    result,    \* per thread: the result of its last applied operation
    object,    \* the current state of the object
    durable    \* the state that survives a crash

vars == <<phase, param, result, object, durable>>

Init ==
    /\ phase = [t \in Threads |-> "idle"]
    /\ param = [t \in Threads |-> NoArg]
    /\ result = [t \in Threads |-> NoVal]
    /\ object = InitialState
    /\ durable = Unformatted

(* Thread t calls the object with argument a. *)
Invoke(t, a) ==
    /\ phase[t] = "idle"
    /\ phase' = [phase EXCEPT ![t] = "pending"]
    /\ param' = [param EXCEPT ![t] = a]
    /\ UNCHANGED <<result, object, durable>>

(* The operation of thread t on the object and results of `done`. *)
ApplyOne(done, t) ==
    LET applied == SFunc(done.object, param[t], t)
    IN [object |-> applied.state,
        result |-> [done.result EXCEPT ![t] = applied.ret]]

(* The pending operations of the threads in batch take effect. *)
Apply(batch) ==
    /\ batch # {}
    /\ \A t \in batch : phase[t] = "pending"
    /\ \E order \in SetToSeqs(batch) :
          LET done == FoldLeft(ApplyOne, [object |-> object, result |-> result],
                               order)
          IN object' = done.object /\ result' = done.result
    /\ phase' = [t \in Threads |-> IF t \in batch THEN "applied" ELSE phase[t]]
    /\ param' = [t \in Threads |-> IF t \in batch THEN NoArg ELSE param[t]]
    /\ UNCHANGED durable

(* The current state becomes durable. *)
Persist ==
    /\ durable' = object
    /\ UNCHANGED <<phase, param, result, object>>

(* Thread t returns, with result[t]. *)
Return(t) ==
    /\ phase[t] = "applied"
    /\ phase' = [phase EXCEPT ![t] = "idle"]
    /\ UNCHANGED <<param, result, object, durable>>

Next ==
    \/ \E t \in Threads : (\E a \in Args : Invoke(t, a)) \/ Return(t)
    \/ \E batch \in SUBSET Threads : Apply(batch)
    \/ Persist

Spec == Init /\ [][Next]_vars
=============================================================================
