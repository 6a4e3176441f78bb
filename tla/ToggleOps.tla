------------------------------- MODULE ToggleOps -------------------------------
(* What PWFcomb, PWFstack and PWFqueue do with toggle vectors, beside the    *)
(* sets of threads they stand for (variables asked, done and flips): a       *)
(* thread announces an operation by adding to its bank, which toggles its    *)
(* bit in activate, and an attempt that is published copies the OR of all    *)
(* activate vectors to deactivate and reverses its bit of index.             *)
EXTENDS TVec

CONSTANTS
    MaxThreads,      \* bound on nthreads
    Divisions        \* _SIM_PERSISTENT_FAD_DIVISIONS_

VARIABLES
    nthreads,
    activate,        \* per division, a vector
    th_index,        \* per thread: th_state->index, what it adds next
    deactivate, index,    \* the vectors of the current record
    served,          \* the requests of the last session, in order
    asked, done, flips    \* history: the threads that have asked, been served,
                          \* or published an odd number of times

vars == <<nthreads, activate, th_index, deactivate, index, served, asked, done,
          flips>>

Threads == 0 .. nthreads - 1

(* The NUMA node of the thread's core, pwfcomb.c:84-87. *)
Division(t) == t % Divisions

(* pwfcombstack.c:121-122. *)
InitialIndex(t, n) == Negative(SetBit(ZeroVector(n), t))

Init ==
    /\ nthreads \in 1 .. MaxThreads
    /\ activate = [d \in 0 .. Divisions - 1 |-> ZeroVector(nthreads)]
    /\ th_index = [t \in Threads |-> InitialIndex(t, nthreads)]
    /\ deactivate = ZeroVector(nthreads)
    /\ index = ZeroVector(nthreads)
    /\ served = <<>>
    /\ asked = {} /\ done = {} /\ flips = {}

Toggled(set, t) == IF t \in set THEN set \ {t} ELSE set \union {t}

(* An operation is pending while its thread's bits differ. *)
Pending == (asked \ done) \union (done \ asked)

(* pwfcombstack.c:160-162; the thread has no operation pending. *)
Announce(t) ==
    LET bank == BankOfBit(t, nthreads) IN
    /\ t \notin Pending
    /\ th_index' = [th_index EXCEPT ![t] = NegativeBank(@, bank)]
    /\ activate' = [activate EXCEPT ![Division(t)] = AddBank(@, th_index'[t], bank)]
    /\ asked' = Toggled(asked, t)
    /\ UNCHANGED <<nthreads, deactivate, index, served, done, flips>>

(* pwfcombstack.c:196-199: all operations that were announced. *)
l_activate ==
    FoldLeft(LAMBDA v, d : OrVector(v, activate[d]), ZeroVector(nthreads),
             [d \in 1 .. Divisions |-> d - 1])

(* pwfcombstack.c:185 and 189: whether thread t finds its operation pending. *)
Finds(t) ==
    LET bank == BankOfBit(t, nthreads)
    IN IsSet([i \in CellsOf(nthreads) |->
                 XorBank(activate[Division(t)], deactivate, bank)[bank]], t)

(* pwfcombstack.c:192-219 and 285-286, an attempt of t that is published.    *)
Serve(t) ==
    /\ t \in Pending
    /\ served' = Visited(XorVector(deactivate, l_activate))
    /\ deactivate' = l_activate
    /\ index' = ReverseBit(index, t)
    /\ done' = asked
    /\ flips' = Toggled(flips, t)
    /\ UNCHANGED <<nthreads, activate, th_index, asked>>

Next == \E t \in Threads : Announce(t) \/ Serve(t)

Spec == Init /\ [][Next]_vars
-----------------------------------------------------------------------------
(* Correctness *)

IsVector(v) == v \in [CellsOf(nthreads) -> 0 .. Width - 1]

TypeOK ==
    /\ \A d \in DOMAIN activate : IsVector(activate[d])
    /\ \A t \in Threads : IsVector(th_index[t])
    /\ IsVector(deactivate) /\ IsVector(index)

Members(v) == ToSet(Visited(v))

(* Every vector is the set it stands for, at every number of threads up to   *)
(* and over the end of a word: the fetch-and-add that toggles a thread's bit *)
(* never carries into the bit of another (tvec.h:37-47), whose toggles may   *)
(* come in between, and a thread finds its bit set exactly while its         *)
(* operation is pending.                                                     *)
VectorsAreSets ==
    /\ \A d \in DOMAIN activate :
          Members(activate[d]) = {t \in asked : Division(t) = d}
    /\ Members(l_activate) = asked
    /\ Members(deactivate) = done
    /\ \A t \in Threads : Finds(t) <=> t \in Pending
    /\ \A t \in Threads : IsSet(index, t) <=> t \in flips

(* A session visits every operation that was pending once, in ascending      *)
(* order, and nothing else (pwfcombstack.c:208-219).                         *)
ServesPending ==
    [][\A t \in Threads : Serve(t) => served' = SetToSortSeq(Pending, <)]_vars
=============================================================================
