------------------------------ MODULE FIFOQueue ------------------------------
(* A linearizable first-in first-out queue.  Several pending enqueues may    *)
(* take effect at one instant, in some order.                                *)
EXTENDS Integers, SequencesExt

CONSTANTS
    Threads,     \* the threads that share the queue
    Values,      \* the values that are enqueued
    NoArg,       \* the argument of a thread that is not enqueueing
    NoVal,       \* the result of a thread that has returned none yet
    EnqueueRet,  \* what an enqueue returns
    EmptyRet     \* what a dequeue returns when the queue is empty

VARIABLES
    phase,       \* per thread: idle, enqueueing, dequeueing or done
    param,       \* per thread: the value it is enqueueing
    result,      \* per thread: the result of its last operation
    queue        \* the values in the queue, oldest first

vars == <<phase, param, result, queue>>

Init ==
    /\ phase = [t \in Threads |-> "idle"]
    /\ param = [t \in Threads |-> NoArg]
    /\ result = [t \in Threads |-> NoVal]
    /\ queue = <<>>

InvokeEnqueue(t, v) ==
    /\ phase[t] = "idle"
    /\ phase' = [phase EXCEPT ![t] = "enqueueing"]
    /\ param' = [param EXCEPT ![t] = v]
    /\ UNCHANGED <<result, queue>>

InvokeDequeue(t) ==
    /\ phase[t] = "idle"
    /\ phase' = [phase EXCEPT ![t] = "dequeueing"]
    /\ UNCHANGED <<param, result, queue>>

(* The enqueues of the threads in batch take effect, in that order. *)
Enqueue(batch) ==
    /\ batch # {}
    /\ \A t \in batch : phase[t] = "enqueueing"
    /\ \E order \in SetToSeqs(batch) :
          queue' = queue \o [k \in DOMAIN order |-> param[order[k]]]
    /\ phase' = [t \in Threads |-> IF t \in batch THEN "done" ELSE phase[t]]
    /\ param' = [t \in Threads |-> IF t \in batch THEN NoArg ELSE param[t]]
    /\ result' = [t \in Threads |->
                     IF t \in batch THEN EnqueueRet ELSE result[t]]

Dequeue(t) ==
    /\ phase[t] = "dequeueing"
    /\ phase' = [phase EXCEPT ![t] = "done"]
    /\ IF queue = <<>>
       THEN result' = [result EXCEPT ![t] = EmptyRet] /\ UNCHANGED queue
       ELSE result' = [result EXCEPT ![t] = Head(queue)] /\ queue' = Tail(queue)
    /\ UNCHANGED param

(* Thread t returns, with result[t]. *)
Return(t) ==
    /\ phase[t] = "done"
    /\ phase' = [phase EXCEPT ![t] = "idle"]
    /\ UNCHANGED <<param, result, queue>>

Next ==
    \/ \E t \in Threads :
          \/ \E v \in Values : InvokeEnqueue(t, v)
          \/ InvokeDequeue(t) \/ Dequeue(t) \/ Return(t)
    \/ \E batch \in SUBSET Threads : Enqueue(batch)

Spec == Init /\ [][Next]_vars
=============================================================================
