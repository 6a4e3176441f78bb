--------------------------- MODULE MCPBStackCalls ---------------------------
(* PBStack for TLC with a bound on the number of calls, for more threads     *)
(* than MCPBStructures affords.  Threads are interchangeable.                *)
EXTENDS PBStack, TLC

ThreadSymmetry == Permutations(Threads)

CONSTANT MaxCalls    \* bound: how many calls are made in all

VARIABLE calls       \* how many calls were made

MCInit == Init /\ calls = 0

MCNext ==
    /\ Next
    /\ calls' = IF \E t \in Threads : phase[t] = "idle" /\ phase'[t] # "idle"
                THEN calls + 1 ELSE calls
    /\ calls' <= MaxCalls

MCSpec == MCInit /\ [][MCNext]_<<vars, calls>>
=============================================================================
