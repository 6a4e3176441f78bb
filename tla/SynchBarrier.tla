----------------------------- MODULE SynchBarrier -----------------------------
(* The re-entrant barrier (libconcurrent/primitives/barrier.c) at which the  *)
(* threads of a program meet, as often as they like.  It has an arrive phase *)
(* and a leave phase; the last thread of either resets the counter of that   *)
(* phase, closes the gate of the other and opens its own.                    *)
(*                                                                           *)
(* The threads that call it, and in what order, are those of ThreadTools.    *)
(*                                                                           *)
(* Every access to a field of the barrier is a step of its own.  The fences  *)
(* give sequential consistency.  synchBarrierLeave and                       *)
(* synchBarrierLastLeave, which only the thread library calls, on a barrier  *)
(* nobody waits at, are modelled with it, in ThreadTools.                    *)
EXTENDS Integers, FiniteSets

CONSTANTS
    Threads,      \* the threads that use the barrier
    NThreads,     \* n of synchBarrierSet: how many they are
    MaxCalls      \* bound: how often each thread calls synchBarrierWait

BoundsAssumption ==
    /\ NThreads \in Nat \ {0}
    /\ IsFiniteSet(Threads) /\ Cardinality(Threads) = NThreads
    /\ MaxCalls \in Nat

VARIABLES
    arrive, leave, arrive_flag, leave_flag, val_at_set,  \* struct SynchBarrier
    pc,           \* per thread: the next step of synchBarrierWait
    calls         \* per thread: how often it has called it (history)

counterVars == <<arrive, leave>>
flagVars    == <<arrive_flag, leave_flag>>
vars == <<counterVars, flagVars, val_at_set, pc, calls>>

(* synchBarrierSet, lines 5-12. *)
Init ==
    /\ arrive = NThreads
    /\ leave = NThreads
    /\ arrive_flag = TRUE
    /\ leave_flag = TRUE
    /\ val_at_set = NThreads
    /\ pc = [t \in Threads |-> "out"]
    /\ calls = [t \in Threads |-> 0]

Goto(t, label) == pc' = [pc EXCEPT ![t] = label]

(* Mutant: the thread before the last one takes itself for the last. *)
IsLastEarly(old) == old <= 2

(* Lines 15 and 28: old is the counter before it was decremented. *)
IsLast(old) == old <= 1

(* Line 15. *)
Arrive(t) ==
    /\ pc[t] = "out"
    /\ calls[t] < MaxCalls
    /\ calls' = [calls EXCEPT ![t] = @ + 1]
    /\ arrive' = arrive - 1
    /\ Goto(t, IF IsLast(arrive) THEN "reset_arrive" ELSE "wait_arrive")
    /\ UNCHANGED <<leave, flagVars, val_at_set>>

(* Lines 16-17. *)
AwaitArrival(t) ==
    /\ pc[t] = "wait_arrive"
    /\ ~arrive_flag
    /\ Goto(t, "leave")
    /\ UNCHANGED <<counterVars, flagVars, val_at_set, calls>>

(* Lines 19 and 32: the counter is ready for the next round. *)
Restored(counter) == val_at_set

(* Line 19. *)
ResetArrive(t) ==
    /\ pc[t] = "reset_arrive"
    /\ arrive' = Restored(arrive)
    /\ Goto(t, "close_leave")
    /\ UNCHANGED <<leave, flagVars, val_at_set, calls>>

(* Line 21. *)
CloseLeave(t) ==
    /\ pc[t] = "close_leave"
    /\ leave_flag' = TRUE
    /\ Goto(t, "open_arrive")
    /\ UNCHANGED <<counterVars, arrive_flag, val_at_set, calls>>

(* Line 23. *)
OpenArrive(t) ==
    /\ pc[t] = "open_arrive"
    /\ arrive_flag' = FALSE
    /\ Goto(t, "leave")
    /\ UNCHANGED <<counterVars, leave_flag, val_at_set, calls>>

(* Line 28. *)
Leave(t) ==
    /\ pc[t] = "leave"
    /\ leave' = leave - 1
    /\ Goto(t, IF IsLast(leave) THEN "reset_leave" ELSE "wait_leave")
    /\ UNCHANGED <<arrive, flagVars, val_at_set, calls>>

(* Lines 29-30, and the return. *)
AwaitLeaving(t) ==
    /\ pc[t] = "wait_leave"
    /\ ~leave_flag
    /\ Goto(t, "out")
    /\ UNCHANGED <<counterVars, flagVars, val_at_set, calls>>

(* Line 32. *)
ResetLeave(t) ==
    /\ pc[t] = "reset_leave"
    /\ leave' = Restored(leave)
    /\ Goto(t, "close_arrive")
    /\ UNCHANGED <<arrive, flagVars, val_at_set, calls>>

(* Line 34. *)
CloseArrive(t) ==
    /\ pc[t] = "close_arrive"
    /\ arrive_flag' = TRUE
    /\ Goto(t, "open_leave")
    /\ UNCHANGED <<counterVars, leave_flag, val_at_set, calls>>

(* Line 36, and the return. *)
OpenLeave(t) ==
    /\ pc[t] = "open_leave"
    /\ leave_flag' = FALSE
    /\ Goto(t, "out")
    /\ UNCHANGED <<counterVars, arrive_flag, val_at_set, calls>>

(* What a thread does inside synchBarrierWait. *)
Step(t) ==
    \/ AwaitArrival(t) \/ ResetArrive(t) \/ CloseLeave(t) \/ OpenArrive(t)
    \/ Leave(t)
    \/ AwaitLeaving(t) \/ ResetLeave(t) \/ CloseArrive(t) \/ OpenLeave(t)

Next == \E t \in Threads : Arrive(t) \/ Step(t)

Spec == Init /\ [][Next]_vars
-----------------------------------------------------------------------------
(* Correctness *)

Labels == {"out", "wait_arrive", "reset_arrive", "close_leave", "open_arrive",
           "leave", "wait_leave", "reset_leave", "close_arrive", "open_leave"}

TypeOK ==
    /\ arrive \in 0 .. NThreads
    /\ leave \in 0 .. NThreads
    /\ arrive_flag \in BOOLEAN
    /\ leave_flag \in BOOLEAN
    /\ val_at_set = NThreads
    /\ pc \in [Threads -> Labels]
    /\ calls \in [Threads -> 0 .. MaxCalls]

(* How often synchBarrierWait has returned to thread t. *)
Returns(t) == IF pc[t] = "out" THEN calls[t] ELSE calls[t] - 1

(* barrier.h:34: a thread waits "until all the other n-1 threads also        *)
(* execute the same function": no call returns before every thread has       *)
(* called as often, however far the fast threads have come in the next round.*)
NoneLeavesEarly == \A t, u \in Threads : Returns(t) <= calls[u]
=============================================================================
