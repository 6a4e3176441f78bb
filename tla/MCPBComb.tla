------------------------------ MODULE MCPBComb ------------------------------
(* PBComb for TLC: a simulated object with data, and a bound on the calls of *)
(* each thread.  (Liveness promises a call's return only while no other      *)
(* thread calls for ever.)                                                   *)
EXTENDS PBComb

CONSTANT Workloads   \* how many calls each thread makes: the bounds to try

VARIABLE left        \* how many calls each thread will still make

(* A swap register that remembers which thread wrote which argument: an      *)
(* operation that is lost, applied twice or given another's argument changes *)
(* a later result.                                                           *)
Fresh == <<"initial">>

SwapStates == (Threads \X Args) \union {Fresh}

Swap(s, a, t) == [state |-> <<t, a>>, ret |-> s]

(* One thread calls often enough to reuse a record the other may be reading, *)
(* while a third one has made no call yet; or three threads meet.            *)
ReuseOrMeet == { [t \in Threads |-> <<3, 2, 0>>[t + 1]],
                 [t \in Threads |-> 1] }

MCInit == Init /\ left \in Workloads

Begin(t) ==
    /\ left[t] > 0
    /\ left' = [left EXCEPT ![t] = @ - 1]
    /\ \E a \in Args : WriteArg(t, a)

MCStep(t) == Step(t) /\ UNCHANGED left

MCEvict == Evict /\ UNCHANGED left

MCNext == (\E t \in Threads : Begin(t) \/ MCStep(t)) \/ MCEvict

MCvars == <<vars, left>>
=============================================================================
