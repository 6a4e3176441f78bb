---------------------------- MODULE MCPWFStackSolo ----------------------------
(* PWFStack for TLC, one attempt at a time and a bounded number of calls, for*)
(* more threads than MCPWFStack affords.                                     *)
EXTENDS PWFStack

CONSTANT MaxCalls    \* bound: how many calls are made in all

VARIABLE calls       \* how many calls were made

MCInit == Init /\ calls = 0

MCNext ==
    /\ Next
    /\ calls' = IF \E t \in Threads : phase[t] = "idle" /\ phase'[t] # "idle"
                THEN calls + 1 ELSE calls
    /\ calls' <= MaxCalls
    /\ Cardinality({t \in Threads : stage'[t] # "out"}) <= 1

MCSpec == MCInit /\ [][MCNext]_<<vars, calls>>
=============================================================================
