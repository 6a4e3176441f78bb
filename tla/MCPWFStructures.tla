--------------------------- MODULE MCPWFStructures ---------------------------
(* PWFStack and PWFQueue for TLC, one at a time, as `structure` says.        *)
EXTENDS MCPWFQueue

CONSTANTS
    PopOp, ZeroVal, NodesPerLine    \* of PWFStack

VARIABLES
    structure,
    (* the variables of MCPWFStack *)
    phase, param, word, result, durable, stage, batch,
    s_val, s_next, clean, recycle_list, s_entry, s_at, s_loc,
    s_adds, s_removes, served

stackVars == <<phase, param, word, result, durable, stage, batch,
               s_val, s_next, clean, recycle_list, s_entry, s_at, s_loc,
               s_adds, s_removes, served>>

Stack == INSTANCE MCPWFStack WITH
    val <- s_val, next <- s_next, cur_entry <- s_entry, at <- s_at, loc <- s_loc,
    adds <- s_adds, removes <- s_removes

ASSUME StackAssumption == Stack!NodesAssumption

StructuresInit ==
    /\ structure \in {"stack", "queue"}
    /\ Stack!MCInit
    /\ MCInit

StructuresNext ==
    /\ \/ structure = "stack" /\ Stack!MCNext /\ UNCHANGED MCVars
       \/ structure = "queue" /\ MCNext /\ UNCHANGED stackVars
    /\ UNCHANGED structure

StructuresSpec ==
    StructuresInit /\ [][StructuresNext]_<<structure, stackVars, MCVars>>
-----------------------------------------------------------------------------
(* Both structures keep to the types of their variables. *)
TypesOK == IF structure = "stack" THEN Stack!TypeOK ELSE TypeOK

(* No node of the stack is in two places, the list and the pools, although a *)
(* failed attempt gives back what it has pushed by walking a list others pop *)
(* from (pwfcombstack.c:314-340). *)
NodesInOnePlace == Stack!NodesInOnePlace

(* PWFstack is a linearizable stack, and a crash leaves what some earlier    *)
(* instant left (pwfcombstack.c:276-316): with two threads, see MCPWFStack. *)
ImplementsBufferedStack == Stack!ImplementsBufferedStack
=============================================================================
