------------------------------ MODULE MCPWFStack ------------------------------
(* PWFStack for TLC, with a bounded number of calls, and the abstract stack  *)
(* it implements.  The values are 1, 2, ... in the order of the calls that   *)
(* push them.                                                                *)
EXTENDS PWFStack

CONSTANTS
    NoVal,         \* before a thread has a result
    MaxCalls,      \* bound: how many calls are made in all,
    MaxOfAKind     \* and how many of them push, or pop

VARIABLES
    adds, removes,    \* the calls that were made
    served            \* per thread, its operation that was last applied (history)

MCVars == <<vars, adds, removes, served>>

MCInit ==
    /\ Init
    /\ adds = 0 /\ removes = 0
    /\ served = [t \in Threads |-> NoArg]

(* A call is made while there are some left. *)
CountCalls ==
    LET Begins(t) == phase[t] = "idle" /\ phase'[t] # "idle" IN
    /\ adds' = IF \E t \in Threads : Begins(t) /\ param'[t] # PopOp
               THEN adds + 1 ELSE adds
    /\ removes' = IF \E t \in Threads : Begins(t) /\ param'[t] = PopOp
                  THEN removes + 1 ELSE removes
    /\ adds' <= MaxOfAKind /\ removes' <= MaxOfAKind
    /\ adds' + removes' <= MaxCalls
    /\ \A t \in Threads : Begins(t) => param'[t] \in {adds', PopOp}

NoteServed ==
    served' = [t \in Threads |->
                  IF phase[t] = "pending" /\ phase'[t] = "applied"
                  THEN param[t] ELSE served[t]]

MCNext == Next /\ CountCalls /\ NoteServed

MCSpec == MCInit /\ [][MCNext]_MCVars
-----------------------------------------------------------------------------
PushRet == 0

(* The sequential stack. *)
Applied(s, a, t) ==
    IF a # PopOp THEN [state |-> <<a>> \o s, ret |-> PushRet]
    ELSE IF s = <<>> THEN [state |-> s, ret |-> EmptyRet]
    ELSE [state |-> Tail(s), ret |-> Head(s)]

BufferedStack == INSTANCE BufferedObject WITH
    Args <- Values \union {PopOp},
    InitialState <- <<>>,
    SFunc <- Applied,
    param <- [t \in Threads |-> IF phase[t] = "pending" THEN param[t] ELSE NoArg],
    result <- [t \in Threads |-> IF served[t] = NoArg THEN NoVal
                                 ELSE IF served[t] = PopOp THEN result[t]
                                 ELSE PushRet],
    object <- Contents(word),
    durable <- Recovered(durable)

(* PWFstack is a linearizable stack: a batch takes effect when its record is *)
(* published (line 314), and a crash leaves what some earlier instant left   *)
(* (lines 276-316), never a stack with a torn or reused node.  This is so    *)
(* with two threads: the run pwfstack_elimination has four, whose batches go *)
(* to two lines and leave one out of the flush (line 236).                   *)
ImplementsBufferedStack == BufferedStack!Spec
=============================================================================
