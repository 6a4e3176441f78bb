---------------------------- MODULE MCPBStructures ----------------------------
(* PBStack and PBQueue for TLC, one at a time, as `structure` says.  The     *)
(* threads of the stack call for ever, those of the queue as MCPBQueue says. *)
EXTENDS MCPBQueue

CONSTANTS
    PopOp, NumNodes, Elimination, Recycling    \* of PBStack

VARIABLES
    structure,
    (* the variables of PBStack *)
    phase, param, s_result, stage, combiner, word, published, durable, synced,
    s_val, s_next, clean, s_recycle_list, s_cur_entry,
    s_clNewItems, clNewItems_count, free_list

stackVars == <<phase, param, s_result, stage, combiner, word, published, durable,
               synced, s_val, s_next, clean, s_recycle_list, s_cur_entry,
               s_clNewItems, clNewItems_count, free_list>>
queueVars == <<vars, calls, result>>

Stack == INSTANCE PBStack WITH
    result <- s_result, val <- s_val, next <- s_next,
    recycle_list <- s_recycle_list, cur_entry <- s_cur_entry,
    clNewItems <- s_clNewItems

(* The values are handed over and compared with nothing: any is as good. *)
Symmetry == Permutations(Threads) \union Permutations(Values)

ASSUME StackAssumption == Stack!NodesAssumption

StructuresInit ==
    /\ structure \in {"stack", "queue"}
    /\ Stack!Init
    /\ MCInit

(* The queue stops when its calls are made, or its pools are empty; the stack*)
(* must not. *)
StructuresNext ==
    /\ \/ structure = "stack" /\ Stack!Next /\ UNCHANGED queueVars
       \/ structure = "queue" /\ MCNext /\ UNCHANGED stackVars
       \/ structure = "queue" /\ UNCHANGED <<stackVars, queueVars>>
    /\ UNCHANGED structure

StructuresSpec ==
    StructuresInit /\ [][StructuresNext]_<<structure, stackVars, queueVars>>
-----------------------------------------------------------------------------
(* Both structures keep to the types of their variables. *)
TypesOK == IF structure = "stack" THEN Stack!TypeOK ELSE TypeOK

(* Every node of the stack is in one place, and none in the pool can be      *)
(* brought back by a crash (pbcombstack.c:34-40, 88). *)
StackNodesAccountedFor == Stack!NodesAccountedFor

(* The combiner's arrays of nthreads entries do not overflow                 *)
(* (pbcombstack.c:55-57, 88, 110). *)
ArraysSuffice == Stack!ArraysSuffice

(* PBstack is a durable stack (pbcombstack.c), with at most two nodes to a   *)
(* line; the run pbstack_elimination has three, where it is not. *)
ImplementsDurableStack == Stack!ImplementsDurableStack
=============================================================================
