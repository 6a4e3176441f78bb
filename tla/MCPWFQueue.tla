------------------------------ MODULE MCPWFQueue ------------------------------
(* PWFQueue for TLC, with a bounded number of calls, and with what its       *)
(* answers that the queue is empty are compared with.  The values are 1, 2,  *)
(* ... in the order of the calls that enqueue them.                          *)
EXTENDS PWFQueue

CONSTANTS
    MaxCalls,      \* bound: how many calls are made in all,
    MaxOfAKind     \* and how many of them enqueue, or dequeue

VARIABLES
    adds, removes,    \* the calls that were made
    tails             \* per thread, the tails since its attempt to dequeue has
                      \* begun (history)

MCVars == <<vars, adds, removes, tails>>

MCInit ==
    /\ Init
    /\ adds = 0 /\ removes = 0
    /\ tails = [t \in Threads |-> {}]

(* A call is made while there are some left. *)
CountCalls ==
    LET Begins(ph) == \E t \in Threads : ph[t] = "idle" /\ ph'[t] # "idle" IN
    /\ adds' = IF Begins(e_phase) THEN adds + 1 ELSE adds
    /\ removes' = IF Begins(d_phase) THEN removes + 1 ELSE removes
    /\ adds' <= MaxOfAKind /\ removes' <= MaxOfAKind
    /\ adds' + removes' <= MaxCalls
    /\ \A t \in Threads :
          e_phase[t] = "idle" /\ e_phase'[t] # "idle" => e_param'[t] = adds'

Serving == {"deqlink", "serve", "reread"}

WatchTails ==
    tails' = [t \in Threads |->
                 IF at'[t] \in Serving
                 THEN (IF at[t] = "out" THEN {} ELSE tails[t]) \union {e_word'.tail}
                 ELSE {}]

MCNext == Next /\ CountCalls /\ WatchTails

MCSpec == MCInit /\ [][MCNext]_MCVars
-----------------------------------------------------------------------------
(* A dequeue answers that the queue is empty only if, at some instant since  *)
(* its attempt has begun, the node it has come to was the tail: neither a    *)
(* link that is missing yet nor a record read too late makes it say so of a  *)
(* queue with elements (lines 29-45, 420-426).  An attempt that is stale     *)
(* says nothing.                                                             *)
EmptyAnswersHonest ==
    [][\A t \in Threads :
          at[t] = "reread" /\ at'[t] = "serve" /\ d_stage[t] = "trying"
              => next[loc[t].head] # Null \/ loc[t].head \in tails[t]
      ]_MCVars
=============================================================================
