------------------------------ MODULE MCPBQueue ------------------------------
(* PBQueue for TLC, with the queue it implements.  Threads are               *)
(* interchangeable.                                                          *)
EXTENDS PBQueue, TLC

ThreadSymmetry == Permutations(Threads)

CONSTANT MaxCalls    \* bound: how many calls are made in all

VARIABLES
    calls,           \* how many calls were made
    result           \* what each thread's last call returned (history)

MCInit ==
    /\ Init
    /\ calls = 0
    /\ result = [t \in Threads |-> NoVal]

MCNext ==
    /\ Next
    /\ calls' = IF \E t \in Threads : IsIdle(t) /\ ~IsIdle(t)'
                THEN calls + 1 ELSE calls
    /\ calls' <= MaxCalls
    /\ result' = [t \in Threads |->
                     IF QueuePhase(t) # "done" /\ QueuePhase(t)' = "done"
                     THEN IF d_phase'[t] # "idle" THEN d_result'[t]
                          ELSE e_result'[t]
                     ELSE result[t]]

MCSpec == MCInit /\ [][MCNext]_<<vars, calls, result>>

Queue == INSTANCE FIFOQueue WITH
    phase  <- [t \in Threads |-> QueuePhase(t)],
    param  <- [t \in Threads |->
                  IF QueuePhase(t) = "enqueueing" THEN e_param[t] ELSE NoArg],
    queue  <- Queued

(* PBqueue is a linearizable queue: an enqueue takes effect when aux moves   *)
(* past its node (line 28), a dequeue when the combiner serves it (line 97). *)
ImplementsFIFOQueue == Queue!Spec
=============================================================================
