--------------------------------- MODULE Pool ---------------------------------
(* The pool of objects (libconcurrent/primitives/pool.c) that the stacks and *)
(* the queues get their nodes from.  It allocates by counting up through     *)
(* blocks of memory, hands recycled objects out again first, and can cancel  *)
(* its last allocations.                                                     *)
(*                                                                           *)
(* A pool has one user at a time, which either recycles objects, as the      *)
(* blocking stack and queue do, or cancels its last allocations, as          *)
(* PWFqueue does.  A user that does both is not among those modelled: an     *)
(* allocation that came from the recycle list cannot be cancelled, although  *)
(* pool.h:84 only asks that none of the cancelled objects was recycled.      *)
(* The module also holds what the user does: the objects it has in use, and  *)
(* which of its allocations it may cancel.                                   *)
EXTENDS Integers, SequencesExt

CONSTANTS
    Entries,      \* metadata.entries: the objects of a block
    MaxBlocks,    \* bound: how many blocks are ever allocated
    Usages        \* the users to consider: "recycle", "rollback"

Blocks == 1 .. MaxBlocks

Objects == Blocks \X (0 .. Entries - 1)

NoBlock == 0      \* NULL

PoolAssumption ==
    /\ Entries \in Nat \ {0}
    /\ MaxBlocks \in Nat \ {0}
    /\ Usages \subseteq {"recycle", "rollback"}

VARIABLES
    cur_entry, free_entries, back,    \* SynchPoolBlockMetadata, per block
    recycle_list, head_block, cur_block,    \* SynchPoolStruct
    held,         \* the blocks got from the system and not given back
    usage,        \* what the user does beside allocating
    in_use,       \* the objects the user has
    log           \* the allocations the user may cancel, the last one last

blockVars == <<cur_entry, free_entries, back>>
vars == <<blockVars, recycle_list, head_block, cur_block, held, usage, in_use, log>>

(* synchInitPool and synchInitPoolPersistent, lines 28-74. *)
Init ==
    /\ cur_entry = [b \in Blocks |-> 0]
    /\ free_entries = [b \in Blocks |-> Entries]
    /\ back = [b \in Blocks |-> NoBlock]
    /\ recycle_list = <<>>
    /\ head_block = 1
    /\ cur_block = 1
    /\ held = {1}
    /\ usage \in Usages
    /\ in_use = {}
    /\ log = <<>>

NewBlock == Cardinality(held) + 1

HasBlocks == Cardinality(held) < MaxBlocks

(* Allocating object o: what its user sees. *)
HandOut(o) ==
    /\ in_use' = in_use \union {o}
    /\ log' = IF usage = "rollback" THEN Append(log, o) ELSE log

RestOfList == Tail(recycle_list)

(* Lines 95-96. *)
AllocRecycled ==
    /\ recycle_list # <<>>
    /\ HandOut(Head(recycle_list))
    /\ recycle_list' = RestOfList
    /\ UNCHANGED <<blockVars, head_block, cur_block, held>>

(* Line 80. *)
HasFree(b) == free_entries[b] > 0

(* Lines 80-83. *)
AllocEntry ==
    /\ recycle_list = <<>>
    /\ HasFree(cur_block)
    /\ HandOut(<<cur_block, cur_entry[cur_block]>>)
    /\ free_entries' = [free_entries EXCEPT ![cur_block] = @ - 1]
    /\ cur_entry' = [cur_entry EXCEPT ![cur_block] = @ + 1]
    /\ UNCHANGED <<back, recycle_list, head_block, cur_block, held>>

(* Lines 88-92.  metadata.next is never set to another block (line 22), so   *)
(* line 86 is not reached.                                                   *)
AllocBlock ==
    LET b == NewBlock IN
    /\ recycle_list = <<>>
    /\ ~HasFree(cur_block)
    /\ HasBlocks
    /\ held' = held \union {b}
    /\ back' = [back EXCEPT ![b] = cur_block]
    /\ cur_block' = b
    /\ HandOut(<<b, 0>>)
    /\ free_entries' = [free_entries EXCEPT ![b] = Entries - 1]
    /\ cur_entry' = [cur_entry EXCEPT ![b] = 1]
    /\ UNCHANGED <<recycle_list, head_block>>

synchAllocObj ==
    cur_block # NoBlock /\ (AllocRecycled \/ AllocEntry \/ AllocBlock)

(* Lines 106-112, for an object in use.                                      *)
synchRecycleObj(o) ==
    /\ usage = "recycle"
    /\ o \in in_use
    /\ recycle_list' = <<o>> \o recycle_list
    /\ in_use' = in_use \ {o}
    /\ UNCHANGED <<blockVars, log, head_block, cur_block, held>>

(* Lines 118-119. *)
Emptied(b) == [cur_entry |-> 0, free_entries |-> Entries]

(* Mutant: what the current block gave back is not counted. *)
LeftToCancelAll(n, b) == n

(* Line 117. *)
LeftToCancel(n, b) == n - cur_entry[b]

(* Lines 115-129, as a function of the number of objects left to cancel and  *)
(* the current block: the counters of all blocks, and the block it ends in.  *)
RolledBack(num_objs) ==
    LET Counters == [b \in Blocks |-> [cur_entry |-> cur_entry[b],
                                       free_entries |-> free_entries[b]]]
        Cancelled(n, b) == [cur_entry |-> cur_entry[b] - n,
                            free_entries |-> free_entries[b] + n]
        roll[b \in Blocks] ==
            [n \in 0 .. num_objs |->
                IF n <= cur_entry[b]
                THEN [counters |-> [Counters EXCEPT ![b] = Cancelled(n, b)],
                      cur_block |-> b]
                ELSE IF back[b] = NoBlock
                THEN [counters |-> [Counters EXCEPT ![b] = Emptied(b)],
                      cur_block |-> b]
                ELSE LET rest == roll[back[b]][LeftToCancel(n, b)]
                     IN [counters |-> [rest.counters EXCEPT ![b] = Emptied(b)],
                         cur_block |-> rest.cur_block]]
    IN roll[cur_block][num_objs]

(* Lines 114-130, for the last n allocations the user may cancel. *)
synchRollback(n) ==
    LET rolled == RolledBack(n)
        kept   == Len(log) - n
    IN
    /\ usage = "rollback"
    /\ cur_block # NoBlock
    /\ cur_entry' = [b \in Blocks |-> rolled.counters[b].cur_entry]
    /\ free_entries' = [b \in Blocks |-> rolled.counters[b].free_entries]
    /\ cur_block' = rolled.cur_block
    /\ in_use' = in_use \ ToSet(SubSeq(log, kept + 1, Len(log)))
    /\ log' = SubSeq(log, 1, kept)
    /\ UNCHANGED <<back, recycle_list, head_block, held>>

(* Lines 132-140, when the user is done.  next of head_block is NULL. *)
synchDestroyPool ==
    /\ head_block # NoBlock
    /\ in_use = {}
    /\ held' = held \ {head_block}
    /\ head_block' = NoBlock
    /\ cur_block' = NoBlock
    /\ log' = <<>>
    /\ UNCHANGED <<blockVars, recycle_list, in_use>>

Next ==
    /\ \/ synchAllocObj
       \/ \E o \in Objects : synchRecycleObj(o)
       \/ \E n \in 1 .. Len(log) : synchRollback(n)
       \/ synchDestroyPool
    /\ UNCHANGED usage

Spec == Init /\ [][Next]_vars
-----------------------------------------------------------------------------
(* Correctness *)

TypeOK ==
    /\ cur_entry \in [Blocks -> 0 .. Entries]
    /\ free_entries \in [Blocks -> 0 .. Entries]
    /\ \A b \in Blocks : cur_entry[b] + free_entries[b] = Entries
    /\ back \in [Blocks -> Blocks \union {NoBlock}]
    /\ recycle_list \in Seq(Objects)
    /\ {head_block, cur_block} \subseteq Blocks \union {NoBlock}
    /\ held \subseteq Blocks
    /\ usage \in Usages
    /\ in_use \subseteq Objects
    /\ log \in Seq(Objects)

(* The objects below the counters of their blocks. *)
Counted == {o \in Objects : o[2] < cur_entry[o[1]]}

(* Every object the counters say is allocated is in one place: in use, or on *)
(* the recycle list, once (lines 76-130).  A rollback cancels exactly the    *)
(* allocations it is asked to, also across blocks (lines 116-121).           *)
ObjectsAccountedFor ==
    /\ IsInjective(recycle_list)
    /\ ToSet(recycle_list) \intersect in_use = {}
    /\ Counted = in_use \union ToSet(recycle_list)
=============================================================================
