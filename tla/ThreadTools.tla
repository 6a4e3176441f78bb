------------------------------ MODULE ThreadTools ------------------------------
(* The thread library (libconcurrent/primitives/threadtools.c), its          *)
(* user-level threads (libconcurrent/primitives/uthreads.c) and a program    *)
(* that uses both: it starts threads, joins them and starts threads again.   *)
(* Every thread runs a function that calls synchBarrierWait (SynchBarrier),  *)
(* as the functions of benchmarks/ do, and spins there with synchResched.    *)
(*                                                                           *)
(* A start makes NThreads threads, `uthreads` of them to a posix thread.  The*)
(* last posix thread is the caller's own, so that synchStartThreadsN returns *)
(* when the caller has run the function, and synchJoinThreadsN waits for the *)
(* others.  They meet at a barrier of the library's own, bar, through        *)
(* synchBarrierLeave and synchBarrierLastLeave.                              *)
(*                                                                           *)
(* Fibers of a posix thread run one at a time: only the current one moves.   *)
EXTENDS Integers, FiniteSetsExt, SequencesExt

CONSTANTS
    NThreads,        \* nthreads of synchStartThreadsN
    Plans,           \* the programs: uthreads of each of their starts
    Rounds           \* how often the function calls synchBarrierWait

Threads == 0 .. NThreads - 1
Posix   == 0 .. NThreads - 1    \* the posix threads of a start, at most

MostStarts == Max({Len(p) : p \in Plans})

(* uthreads divides nthreads: the remainder would get no thread (line 145).  *)
StartsAssumption ==
    /\ NThreads \in Nat \ {0}
    /\ Plans \subseteq Seq(Nat \ {0})
    /\ \A p \in Plans : \A i \in 1 .. Len(p) : NThreads % p[i] = 0

VARIABLES
    plan,             \* the program
    oversubscribed,   \* whether there are more threads than cores
    (* the caller: how many starts it has made, where it is, and how many    *)
    (* threads of this start it has created                                  *)
    starts, caller, created,
    noop_resched, uthread_sched,       \* static variables
    bar_arrive, bar_leave,             \* arrive and leave of bar
    state,            \* per posix thread of this start: where it is
    late,             \* how many of earlier starts are inside synchBarrierLeave
    strayed,          \* how many of them there were when bar was set (history)
    (* per posix thread: N_FIBERS, currentFiber, and the active fibers       *)
    n_fibers, currentFiber, active,
    finished,         \* the threads whose function has returned in this start
    arrive, leave, arrive_flag, leave_flag, val_at_set, pc, calls
                      \* the barrier of the program, see SynchBarrier

programVars == <<plan, oversubscribed>>
callerVars  == <<starts, caller, created>>
schedVars   == <<noop_resched, uthread_sched>>
barVars     == <<bar_arrive, bar_leave>>
lateVars    == <<late, strayed>>
fiberVars   == <<n_fibers, currentFiber, active>>
meetingVars == <<arrive, leave, arrive_flag, leave_flag, val_at_set, pc, calls>>
vars == <<programVars, callerVars, schedVars, barVars, state, lateVars, fiberVars,
          finished, meetingVars>>

Barrier == INSTANCE SynchBarrier WITH MaxCalls <- Rounds * MostStarts

(* A program that starts fibers after threads that each have a core would    *)
(* wait for ever: see synchResched.                                          *)
YieldsWork ==
    oversubscribed \/ \A i, j \in DOMAIN plan : i < j /\ plan[i] = 1 => plan[j] = 1

Init ==
    /\ plan \in Plans
    /\ oversubscribed \in BOOLEAN
    /\ YieldsWork
    /\ starts = 0 /\ caller = "out" /\ created = 0
    /\ noop_resched = FALSE /\ uthread_sched = FALSE
    /\ bar_arrive = 0 /\ bar_leave = 0
    /\ state = [k \in Posix |-> "none"]
    /\ late = 0 /\ strayed = 0
    /\ n_fibers = [k \in Posix |-> 1]
    /\ currentFiber = [k \in Posix |-> 0]
    /\ active = [k \in Posix |-> {}]
    /\ finished = {}
    /\ Barrier!Init

(* uthreads, and the posix threads of this start.                            *)
PerPosix   == plan[starts]
NPosix     == NThreads \div PerPosix
CallersOwn == NPosix - 1

(* The posix thread, and the number there, of thread t. *)
PosixOf(t) == t \div PerPosix
FiberOf(t) == t % PerPosix
-----------------------------------------------------------------------------
(* synchStartThreadsN and synchJoinThreadsN                                  *)

(* Mutant: the caller that joins is not counted. *)
MembersFewer(posix) == posix

(* Lines 144 and 160. *)
Members(posix) == posix + 1

(* Every thread of the last start has at least come to synchBarrierLeave.    *)
NoneBehind == \A k \in Posix : state[k] \in {"none", "leave", "gone"}

(* Lines 130-144 and 154-160.  What the caller left of its fibers stays.     *)
(* The code does not look for threads of the last start that still run; with *)
(* NoneBehind the program is one that has none.  Every program is, up to its *)
(* second start; later a join may have returned too early (JoinWaits), and   *)
(* what a thread left behind then does to the new bar is not modelled.       *)
StartThreads ==
    LET posix == NThreads \div plan[starts + 1]
        Own(v, new) == [k \in Posix |->
                           IF k = posix - 1 /\ starts > 0 THEN v[CallersOwn] ELSE new]
    IN
    /\ caller \in {"out", "joined"}
    /\ starts < Len(plan)
    /\ NoneBehind
    /\ starts' = starts + 1
    /\ caller' = "creating"
    /\ created' = 0
    /\ uthread_sched' = (plan[starts'] > 1)
    /\ noop_resched' = (noop_resched \/ (~uthread_sched' /\ ~oversubscribed))
    /\ bar_arrive' = Members(posix)
    /\ bar_leave' = Members(posix)
    /\ late' = late + Cardinality({k \in Posix : state[k] = "leave"})
    /\ strayed' = late'
    /\ state' = [k \in Posix |-> "none"]
    /\ n_fibers' = Own(n_fibers, 1)
    /\ currentFiber' = Own(currentFiber, 0)
    /\ active' = [k \in Posix |-> {}]
    /\ finished' = {}
    /\ UNCHANGED <<programVars, meetingVars>>

(* Lines 145-152 and 161-168: one more posix thread. *)
Create ==
    /\ caller = "creating"
    /\ created < NPosix - 1
    /\ created' = created + 1
    /\ state' = [state EXCEPT ![created] = "begin"]
    /\ UNCHANGED <<programVars, starts, caller, schedVars, barVars, lateVars,
                   fiberVars, finished, meetingVars>>

(* Lines 153 and 169: the caller runs the last one. *)
RunOwn ==
    /\ caller = "creating"
    /\ created = NPosix - 1
    /\ caller' = "running"
    /\ state' = [state EXCEPT ![CallersOwn] = "begin"]
    /\ UNCHANGED <<programVars, starts, created, schedVars, barVars, lateVars,
                   fiberVars, finished, meetingVars>>

(* synchBarrierLastLeave, line 47, the two decrements of barrier.c:42-43.    *)
JoinArrive ==
    /\ caller = "running" /\ state[CallersOwn] = "gone"
    /\ caller' = "join"
    /\ bar_arrive' = bar_arrive - 1
    /\ UNCHANGED <<programVars, starts, created, schedVars, bar_leave, state,
                   lateVars, fiberVars, finished, meetingVars>>

JoinLeave ==
    /\ caller = "join"
    /\ caller' = "waiting"
    /\ bar_leave' = bar_leave - 1
    /\ UNCHANGED <<programVars, starts, created, schedVars, bar_arrive, state,
                   lateVars, fiberVars, finished, meetingVars>>

(* Line 48. *)
AllLeft == bar_arrive = 0 \/ bar_leave = 0

(* Lines 48-50, and the end of synchJoinThreadsN. *)
Join ==
    /\ caller = "waiting"
    /\ AllLeft
    /\ caller' = "joined"
    /\ UNCHANGED <<programVars, starts, created, schedVars, barVars, state,
                   lateVars, fiberVars, finished, meetingVars>>

CallerStep == Create \/ RunOwn \/ JoinArrive \/ JoinLeave \/ Join
-----------------------------------------------------------------------------
(* A posix thread k: kthreadWrapper, or uthreadWrapper with its fibers       *)

MoveTo(k, label) ==
    /\ state[k] # label
    /\ state' = [state EXCEPT ![k] = label]

(* Lines 52-56; or lines 114-118 with synchInitFibers, uthreads.c:27-37,     *)
(* which leaves N_FIBERS and currentFiber as they are.                       *)
Begin(k) ==
    /\ state[k] = "begin"
    /\ IF PerPosix = 1 THEN MoveTo(k, "func") /\ UNCHANGED active
       ELSE /\ MoveTo(k, "spawn")
            /\ active' = [active EXCEPT ![k] = {0}]
    /\ UNCHANGED <<programVars, callerVars, schedVars, barVars, lateVars, n_fibers,
                   currentFiber, finished, meetingVars>>

(* Lines 119-121, synchSpawnFiber (uthreads.c:86-108).  The new fiber stops  *)
(* before its function, until somebody yields to it (uthreads.c:68-71).      *)
SpawnFiber(k) ==
    /\ state[k] = "spawn"
    /\ n_fibers[k] < PerPosix
    /\ active' = [active EXCEPT ![k] = @ \union {n_fibers[k]}]
    /\ n_fibers' = [n_fibers EXCEPT ![k] = @ + 1]
    /\ UNCHANGED <<programVars, callerVars, schedVars, barVars, state, lateVars,
                   currentFiber, finished, meetingVars>>

(* Line 122. *)
EndSpawning(k) ==
    /\ state[k] = "spawn"
    /\ n_fibers[k] = PerPosix
    /\ MoveTo(k, "func")
    /\ UNCHANGED <<programVars, callerVars, schedVars, barVars, lateVars, fiberVars,
                   finished, meetingVars>>

(* Thread t has the processor, inside its function. *)
IsRunning(t) ==
    LET k == PosixOf(t) IN
    /\ state[k] \in {"func", "wait_fibers"}
    /\ PerPosix > 1 => FiberOf(t) = currentFiber[k]
    /\ t \notin finished

(* The function is in, or enters, synchBarrierWait. *)
Meet(t) ==
    /\ IsRunning(t)
    /\ \/ calls[t] < Rounds * starts /\ Barrier!Arrive(t)
       \/ Barrier!Step(t)
    /\ UNCHANGED <<programVars, callerVars, schedVars, barVars, state, lateVars,
                   fiberVars, finished>>

(* Mutant: the scan starts at the fiber that yields. *)
NextFiberSame(k, fibers) == currentFiber[k]

(* uthreads.c:52-54 and 80-82: the next of the active fibers, in a circle.   *)
NextFiber(k, fibers) ==
    LET ahead(i) == (currentFiber[k] + i) % PerPosix
    IN ahead(Min({i \in 1 .. PerPosix : ahead(i) \in fibers}))

(* synchFiberYield, uthreads.c:45-60. *)
FiberYield(k) ==
    /\ n_fibers[k] > 1
    /\ currentFiber' = [currentFiber EXCEPT ![k] = NextFiber(k, active[k])]
    /\ UNCHANGED <<n_fibers, active>>

(* Lines 184-187. *)
GivesWay == ~noop_resched /\ uthread_sched

(* synchResched at a gate of the barrier that is closed.  synchPause and     *)
(* sched_yield change nothing.                                               *)
Resched(t) ==
    /\ IsRunning(t)
    /\ \/ pc[t] = "wait_arrive" /\ arrive_flag
       \/ pc[t] = "wait_leave" /\ leave_flag
    /\ GivesWay
    /\ FiberYield(PosixOf(t))
    /\ UNCHANGED <<programVars, callerVars, schedVars, barVars, state, lateVars,
                   finished, meetingVars>>

(* The function of t returns. *)
FunctionReturns(t) ==
    /\ IsRunning(t)
    /\ pc[t] = "out" /\ calls[t] = Rounds * starts
    /\ finished' = finished \union {t}
    /\ UNCHANGED <<programVars, callerVars, schedVars, barVars, lateVars,
                   meetingVars>>

(* Lines 56-57 and 122-124. *)
PosixReturns(t) ==
    /\ FunctionReturns(t)
    /\ FiberOf(t) = 0
    /\ MoveTo(PosixOf(t), IF PerPosix = 1 THEN "arrive" ELSE "wait_fibers")
    /\ UNCHANGED fiberVars

(* fiber_start_func, uthreads.c:73-83. *)
FiberReturns(t) ==
    LET k == PosixOf(t) IN
    /\ FunctionReturns(t)
    /\ FiberOf(t) # 0
    /\ active' = [active EXCEPT ![k] = @ \ {FiberOf(t)}]
    /\ n_fibers' = [n_fibers EXCEPT ![k] = @ - 1]
    /\ currentFiber' = [currentFiber EXCEPT ![k] = NextFiber(k, active'[k])]
    /\ UNCHANGED state

(* synchWaitForAllFibers, uthreads.c:110-113. *)
WaitForFibers(k) ==
    /\ state[k] = "wait_fibers"
    /\ currentFiber[k] = 0
    /\ IF n_fibers[k] > 1 THEN FiberYield(k) /\ UNCHANGED state
       ELSE MoveTo(k, "arrive") /\ UNCHANGED fiberVars
    /\ UNCHANGED <<programVars, callerVars, schedVars, barVars, lateVars, finished,
                   meetingVars>>

(* Lines 58 and 126: synchBarrierLeave, barrier.c:41-44. *)
LeaveArrive(k) ==
    /\ state[k] = "arrive"
    /\ MoveTo(k, "leave")
    /\ bar_arrive' = bar_arrive - 1
    /\ UNCHANGED <<programVars, callerVars, schedVars, bar_leave, lateVars,
                   fiberVars, finished, meetingVars>>

LeaveLeave(k) ==
    /\ state[k] = "leave"
    /\ MoveTo(k, "gone")
    /\ bar_leave' = bar_leave - 1
    /\ UNCHANGED <<programVars, callerVars, schedVars, bar_arrive, lateVars,
                   fiberVars, finished, meetingVars>>

(* The same, of a thread of an earlier start. *)
LateLeave ==
    /\ late > 0
    /\ late' = late - 1
    /\ bar_leave' = bar_leave - 1
    /\ UNCHANGED <<programVars, callerVars, schedVars, bar_arrive, state, strayed,
                   fiberVars, finished, meetingVars>>

PosixStep(k) ==
    \/ Begin(k) \/ SpawnFiber(k) \/ EndSpawning(k)
    \/ \E t \in Threads :
          /\ PosixOf(t) = k
          /\ Meet(t) \/ Resched(t) \/ PosixReturns(t) \/ FiberReturns(t)
    \/ WaitForFibers(k) \/ LeaveArrive(k) \/ LeaveLeave(k)

Next ==
    \/ StartThreads \/ CallerStep
    \/ starts > 0 /\ \E k \in Posix : PosixStep(k)
    \/ LateLeave

Spec == Init /\ [][Next]_vars

(* The operating system runs every posix thread; nothing makes the caller    *)
(* start threads.                                                            *)
Fairness ==
    /\ WF_vars(CallerStep)
    /\ \A k \in Posix : WF_vars(starts > 0 /\ PosixStep(k))
    /\ WF_vars(LateLeave)
-----------------------------------------------------------------------------
(* Correctness *)

TypeOK ==
    /\ Barrier!TypeOK
    /\ starts \in 0 .. Len(plan) /\ created \in 0 .. NThreads - 1
    /\ caller \in {"out", "creating", "running", "join", "waiting", "joined"}
    /\ bar_arrive \in 0 .. NThreads + 1
    /\ bar_leave \in -NThreads .. NThreads + 1
    /\ state \in [Posix -> {"none", "begin", "spawn", "func", "wait_fibers",
                            "arrive", "leave", "gone"}]
    /\ late \in 0 .. NThreads * MostStarts /\ strayed \in late .. NThreads * MostStarts
    /\ \A k \in Posix : n_fibers[k] \in 1 .. NThreads
    /\ currentFiber \in [Posix -> Threads]
    /\ active \in [Posix -> SUBSET Threads]
    /\ finished \subseteq Threads

(* No call of synchBarrierWait returns before every thread has called it as  *)
(* often (barrier.h:34), also when the threads that meet are fibers and only *)
(* one of those of a posix thread can move (uthreads.c:45-60).               *)
NoneLeavesEarly == Barrier!NoneLeavesEarly

(* The posix threads of this start whose threads have not all returned.      *)
Unfinished ==
    {k \in 0 .. NPosix - 1 : \E t \in Threads : PosixOf(t) = k /\ t \notin finished}

(* threadtools.h:26: synchJoinThreadsN returns once all threads of the start *)
(* "have completed the execution".  It does so when no thread of an earlier  *)
(* start was still inside synchBarrierLeave when bar was set again.  The     *)
(* second decrement of one that was (barrier.c:43) counts for a thread of    *)
(* this start, so the join misses as many of its threads as there were late  *)
(* ones, but never more.                                                     *)
JoinWaits == caller = "joined" => Cardinality(Unfinished) <= strayed

(* In every start the function of every thread returns, and so does          *)
(* synchJoinThreadsN: no fiber keeps the processor from one that the others  *)
(* wait for, none is skipped by the scan for the next one once another has   *)
(* ended (uthreads.c:52-54, 80-82), and the join does not miss the moment it *)
(* waits for (barrier.c:48).                                                 *)
EveryStartEnds ==
    \A n \in 1 .. MostStarts :
        (starts = n) ~> (caller = "joined" /\ finished = Threads)
=============================================================================
