------------------------------- MODULE HeapOps -------------------------------
(* The serial heap under any sequence of operations.                         *)
EXTENDS Heap

CONSTANT Inserted     \* the elements that are inserted

(* They leave the bits of the operation clear: "the maximum value of ELMNT   *)
(* should be equal to _HEAP_VAL_MASK" (lines 64-65), which has the top bit.  *)
ASSUME InsertedAssumption == Inserted \subseteq {el \in HeapElement : Op(el) = 0}

VARIABLES
    heap,        \* the HeapState
    ret,         \* the value the last operation returned
    plain        \* whether every element so far was less than EMPTY_HEAP (history)

vars == <<heap, ret, plain>>

Init ==
    /\ heap = EmptyState
    /\ ret = InsertSuccess
    /\ plain = TRUE

Operate(arg) ==
    /\ heap' = SerialOperation(heap, arg).heap
    /\ ret' = SerialOperation(heap, arg).ret

(* PBCombHeapInsert, PBCombHeapDeleteMin and PBCombHeapGetMin. *)
HeapInsert(el) == Operate(InsertArg(el)) /\ plain' = (plain /\ el < EmptyHeap)

HeapDeleteMin == Operate(DeleteMinArg) /\ UNCHANGED plain

HeapGetMin == Operate(GetMinArg) /\ UNCHANGED plain

Next == (\E el \in Inserted : HeapInsert(el)) \/ HeapDeleteMin \/ HeapGetMin

Spec == Init /\ [][Next]_vars
-----------------------------------------------------------------------------
TypeOK ==
    /\ heap.last_used_level \in 0 .. Levels - 1
    /\ heap.last_used_level_size = SizeOfLevel[heap.last_used_level]
    /\ heap.last_used_level_pos \in 0 .. heap.last_used_level_size
    /\ heap.bulk \in Arrays
    /\ ret \in HeapElement \union {InsertFail}
    /\ plain \in BOOLEAN

(* While every element inserted was less than EMPTY_HEAP, no slot of the     *)
(* levels in use is less than its parent, the slots no element is in         *)
(* included: serialCorrectUpHeap compares with those too (lines 126-128).    *)
SlotsOrdered ==
    plain =>
        \A s \in Slots \ {0} :
            s < Slot(heap.last_used_level + 1, 0) =>
                heap.bulk[Parent(s)] <= heap.bulk[s]

(* The heap has no element, or as many as some number of levels holds.       *)
OnlyWholeLevels(h) == \E l \in 0 .. Levels : UsedSlots(h) = 0 .. SizeOfLevel[l] - 2

(* While every element inserted was less than EMPTY_HEAP, GetMin and         *)
(* DeleteMin return the least element of the heap (lines 146-153, 190-193),  *)
(* or EMPTY_HEAP when the heap has only whole levels.  Lines 68-71 and       *)
(* pbcombheap.h:64, 72 promise EMPTY_HEAP for an empty heap alone; the code  *)
(* also returns it after the deletes that leave 1, 3, 7... elements and      *)
(* after the first insert of all (line 191), and then removes nothing until  *)
(* the next insert.  With any other number of elements it returns one.       *)
ReturnsMinimum ==
    [][ plain /\ (HeapDeleteMin \/ HeapGetMin) =>
          \/ ret' = EmptyHeap /\ OnlyWholeLevels(heap)
          \/ /\ ret' # EmptyHeap /\ ret' \in DOMAIN Elements(heap)
             /\ \A e \in DOMAIN Elements(heap) : ret' <= e ]_vars

(* An insert adds its element to those in the heap and moves none of them    *)
(* out, or fails; it fails only when every slot is used (lines 168-188).     *)
InsertAdds ==
    [][ \A el \in Inserted : HeapInsert(el) =>
          IF ret' = InsertFail
          THEN UsedSlots(heap) = Slots /\ heap' = heap
          ELSE Elements(heap') = Elements(heap) (+) SetToBag({el}) ]_vars

(* pbcombheap.h:59: DeleteMin "removes the element of the heap that has the  *)
(* minimum value", and no other.  Line 119 also moves values of slots that   *)
(* are no longer in use.                                                     *)
DeleteRemovesOne ==
    [][HeapDeleteMin /\ ret' # EmptyHeap =>
          Elements(heap') = Elements(heap) (-) SetToBag({ret'})]_vars

=============================================================================
