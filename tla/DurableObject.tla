--------------------------- MODULE DurableObject ---------------------------
(* The abstract promise of a persistent combining object: a sequential       *)
(* object shared by a set of threads.  An operation is invoked, takes effect *)
(* atomically at one instant before it returns, becomes durable, and only    *)
(* then returns the value it computed when it took effect (durable           *)
(* linearizability).  What a crash leaves behind is the state `durable`:     *)
(* the object's state at some earlier instant, holding every operation that  *)
(* has returned.  The module knows nothing of locks, records or caches; the  *)
(* combining algorithms of the library are shown to implement it.            *)

CONSTANTS
    Threads,         \* the threads that share the object
    Args,            \* the arguments of operations
    NoArg,           \* the argument of a thread without a pending operation
    NoVal,           \* the result of a thread that computed none yet
    InitialState,    \* the state the object is created with
    Unformatted,     \* what a crash leaves before the first state is durable
    SFunc(_, _, _)   \* the sequential object: <<state, arg, thread>> to
                     \* a record [state, ret]

VARIABLES
    phase,     \* per thread: idle, pending, applied or durable
    param,     \* per thread: the argument of its pending operation
    result,    \* per thread: the result of its last applied operation
    object,    \* the current state of the object
    durable    \* the state that survives a crash

vars == <<phase, param, result, object, durable>>

Init ==
    /\ phase = [t \in Threads |-> "idle"]
    /\ param = [t \in Threads |-> NoArg]
    /\ result = [t \in Threads |-> NoVal]
    /\ object = InitialState
    /\ durable = Unformatted

(* Thread t calls the object with argument a. *)
Invoke(t, a) ==
    /\ phase[t] = "idle"
    /\ phase' = [phase EXCEPT ![t] = "pending"]
    /\ param' = [param EXCEPT ![t] = a]
    /\ UNCHANGED <<result, object, durable>>

(* The pending operation of t takes effect. *)
Apply(t) ==
    LET applied == SFunc(object, param[t], t) IN
    /\ phase[t] = "pending"
    /\ phase' = [phase EXCEPT ![t] = "applied"]
    /\ param' = [param EXCEPT ![t] = NoArg]
    /\ result' = [result EXCEPT ![t] = applied.ret]
    /\ object' = applied.state
    /\ UNCHANGED durable

(* The current state becomes durable, and with it every applied operation. *)
Persist ==
    /\ durable' = object
    /\ phase' = [t \in Threads |->
                    IF phase[t] = "applied" THEN "durable" ELSE phase[t]]
    /\ UNCHANGED <<param, result, object>>

(* Thread t returns from a durable operation, with result[t]. *)
Return(t) ==
    /\ phase[t] = "durable"
    /\ phase' = [phase EXCEPT ![t] = "idle"]
    /\ UNCHANGED <<param, result, object, durable>>

Next ==
    \/ \E t \in Threads : (\E a \in Args : Invoke(t, a)) \/ Apply(t) \/ Return(t)
    \/ Persist

Spec == Init /\ [][Next]_vars

=============================================================================
