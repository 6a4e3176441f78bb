-------------------------------- MODULE Heap --------------------------------
(* The serial binary heap (libconcurrent/includes/heap.h), which PBheap runs *)
(* inside PBcomb.  A level of the heap is a slice of one array: level l and  *)
(* position p are slot 2^l - 1 + p.                                          *)
(*                                                                           *)
(* Elements and arguments are uint64_t.  The model shrinks the word but      *)
(* keeps its fields: the value bits, the 3 operation bits above them         *)
(* (_HEAP_OP_MASK) and the top bit.  EMPTY_HEAP_NODE, LLONG_MIN as an        *)
(* unsigned number, is the top bit alone, and greater than any plain value.  *)
EXTENDS Integers, FiniteSets, Bags

CONSTANTS
    Levels,      \* INITIAL_HEAP_LEVELS
    ValRange     \* 2^60: the number of values below the operation bits

ASSUME SizesAssumption ==
    /\ Levels \in Nat /\ Levels >= 2
    /\ ValRange \in Nat \ {0}

TopBit    == 8 * ValRange
EmptyHeap == TopBit
HeapElement == 0 .. 2 * TopBit - 1

InsertOp    == 1
DeleteMinOp == 2
GetMinOp    == 3

(* Lines 210-211. *)
Op(arg)  == (arg \div ValRange) % 8
Val(arg) == arg - Op(arg) * ValRange

(* arg | _HEAP_INSERT_OP, pbcombheap.c:14. *)
InsertArg(el) == IF Op(el) % 2 = 0 THEN el + ValRange ELSE el

DeleteMinArg == DeleteMinOp * ValRange
GetMinArg    == GetMinOp * ValRange

(* HEAP_INSERT_SUCCESS and HEAP_INSERT_FAIL, as RetVals. *)
InsertSuccess == 0
InsertFail    == -1

(* _SIZE_OF_HEAP_LEVEL, line 27. *)
SizeOfLevel[level \in 0 .. Levels] ==
    IF level = 0 THEN 1 ELSE 2 * SizeOfLevel[level - 1]

Slots == 0 .. SizeOfLevel[Levels] - 2

Slot(level, pos) == SizeOfLevel[level] - 1 + pos

Parent(s) == (s - 1) \div 2

Arrays == [Slots -> HeapElement]
-----------------------------------------------------------------------------
(* The operations, on a record h of the fields of HeapState.                 *)

(* heapInit, lines 91-102. *)
EmptyState ==
    [last_used_level |-> 0, last_used_level_pos |-> 0, last_used_level_size |-> 1,
     bulk |-> [s \in Slots |-> EmptyHeap]]

Swap(a, s, r) == [a EXCEPT ![s] = a[r], ![r] = a[s]]

(* Mutant: the element rises one level at most. *)
CorrectDownHeapOnce(a, slot) ==
    IF slot > 0 /\ a[slot] < a[Parent(slot)] THEN Swap(a, slot, Parent(slot)) ELSE a

(* Lines 104-117: the element in slot rises while it is less than its parent.*)
CorrectDownHeap(a, slot) ==
    LET rise[s \in Slots] ==
            [b \in Arrays |->
                IF s > 0 /\ b[s] < b[Parent(s)]
                THEN rise[Parent(s)][Swap(b, s, Parent(s))]
                ELSE b]
    IN rise[slot][a]

(* Lines 128-137: the right child if it is less than the left one. *)
SmallerChild(a, s) == IF a[2 * s + 1] > a[2 * s + 2] THEN 2 * s + 2 ELSE 2 * s + 1

(* Lines 119-144: the element in the root sinks while it is greater than a   *)
(* child, through all slots of the last used level, in use or not.           *)
CorrectUpHeap(a, last_used_level) ==
    LET sink[s \in Slots] ==
            [b \in Arrays |->
                IF /\ s < Slot(last_used_level, 0)
                   /\ b[s] > b[2 * s + 1] \/ b[s] > b[2 * s + 2]
                THEN sink[SmallerChild(b, s)][Swap(b, s, SmallerChild(b, s))]
                ELSE b]
    IN sink[0][a]

(* Mutant: the heap is taken for empty until it uses its third level. *)
GetMinLate(h) ==
    IF h.last_used_level > 1 /\ h.last_used_level_pos # 0 THEN h.bulk[0]
    ELSE EmptyHeap

(* Lines 190-193. *)
GetMin(h) ==
    IF h.last_used_level # 0 /\ h.last_used_level_pos # 0 THEN h.bulk[0]
    ELSE EmptyHeap

(* The last element of h takes the place of the root and sinks, lines 152-153.*)
MoveLastToRoot(h) ==
    [h EXCEPT !.bulk =
        CorrectUpHeap(
            [@ EXCEPT ![0] = h.bulk[Slot(h.last_used_level, h.last_used_level_pos)]],
            h.last_used_level)]

(* Lines 146-166; the comparisons of lines 150-162 all see a heap whose      *)
(* GetMin is not EMPTY_HEAP, so in fact only the first of them is taken.     *)
DeleteMin(h) ==
    IF GetMin(h) = EmptyHeap THEN h
    ELSE IF h.last_used_level_pos > 0
    THEN MoveLastToRoot([h EXCEPT !.last_used_level_pos = @ - 1])
    ELSE IF h.last_used_level > 0
    THEN MoveLastToRoot(
            [h EXCEPT !.last_used_level = @ - 1,
                      !.last_used_level_size = SizeOfLevel[h.last_used_level - 1],
                      !.last_used_level_pos = SizeOfLevel[h.last_used_level - 1] - 2])
    ELSE h

(* Mutant: the last slot of the heap is never used. *)
IsFullEarly(h) ==
    /\ h.last_used_level_pos >= h.last_used_level_size - 1
    /\ h.last_used_level = Levels - 1

IsFull(h) ==
    /\ h.last_used_level_pos = h.last_used_level_size
    /\ h.last_used_level = Levels - 1

(* Mutant: a level takes one element too many. *)
NextPlaceLate(h) ==
    IF h.last_used_level_pos <= h.last_used_level_size
    THEN [level |-> h.last_used_level, pos |-> h.last_used_level_pos]
    ELSE [level |-> h.last_used_level + 1, pos |-> 0]

(* The level and position a new element goes to, lines 170-179. *)
NextPlace(h) ==
    IF h.last_used_level_pos < h.last_used_level_size
    THEN [level |-> h.last_used_level, pos |-> h.last_used_level_pos]
    ELSE [level |-> h.last_used_level + 1, pos |-> 0]

(* Lines 168-188. *)
Insert(h, el) ==
    LET place == NextPlace(h)
        slot  == Slot(place.level, place.pos)
    IN  IF IsFull(h) THEN h
        ELSE [last_used_level |-> place.level,
              last_used_level_pos |-> place.pos + 1,
              last_used_level_size |->
                  IF place.level > h.last_used_level
                  THEN 2 * h.last_used_level_size ELSE h.last_used_level_size,
              bulk |-> CorrectDownHeap([h.bulk EXCEPT ![slot] = el], slot)]

(* heapSerialOperation, lines 208-228. *)
SerialOperation(h, arg) ==
    CASE Op(arg) = InsertOp ->
            [heap |-> Insert(h, Val(arg)),
             ret |-> IF IsFull(h) THEN InsertFail ELSE InsertSuccess]
      [] Op(arg) = DeleteMinOp -> [heap |-> DeleteMin(h), ret |-> GetMin(h)]
      [] Op(arg) = GetMinOp -> [heap |-> h, ret |-> GetMin(h)]
      [] OTHER -> [heap |-> h, ret |-> EmptyHeap]

(* The slots in use, and the bag of the elements in them. *)
UsedSlots(h) ==
    {s \in Slots : s < Slot(h.last_used_level, h.last_used_level_pos)}

Elements(h) ==
    LET used == UsedSlots(h)
        held == {h.bulk[s] : s \in used}
    IN [e \in held |-> Cardinality({s \in used : h.bulk[s] = e})]
=============================================================================
