----------------------------- MODULE LibraryProofs -----------------------------
(* Proofs about the library (LibraryParts): no thread leaves the barrier     *)
(* before all have come; the join of the thread library waits for every      *)
(* thread; its threads, posix threads or fibers, use the barrier as          *)
(* SynchBarrier describes; every object of the pool is in one place; and the *)
(* heap stays ordered, loses no element to an insert and returns the least.  *)
EXTENDS LinkedListsProofs, LibraryParts, FunctionTheorems

-----------------------------------------------------------------------------
(* Threads are numbered: thread t is fiber t % PerPosix of posix thread      *)
(* t \div PerPosix.                                                          *)
LEMMA Numbering ==
    ASSUME NEW n \in Nat \ {0}, NEW p \in Nat \ {0}, n % p = 0
    PROVE  /\ n \div p \in 1 .. n
           /\ \A t \in 0 .. n - 1 : t \div p \in 0 .. (n \div p) - 1 /\ t % p \in 0 .. p - 1
           /\ \A t, u \in 0 .. n - 1 : t \div p = u \div p /\ t % p = u % p => t = u
  <1>1. \A t \in Nat : \E q \in Nat, r \in 0 .. p - 1 :
            q = t \div p /\ r = t % p /\ t = p * q + r
    <2> TAKE t \in Nat
    <2>1. t \in Int /\ p \in Int /\ p > 0
      OBVIOUS
    <2>2. PICK q \in Int, r \in Int : q = t \div p /\ r = t % p
      OBVIOUS
    <2>3. t = p * q + r
      BY <2>1, <2>2
    <2>4. r \in 0 .. p - 1
      BY <2>1, <2>2
    <2>5. q >= 0
      <3> SUFFICES ASSUME q <= -1 PROVE FALSE
        OBVIOUS
      <3>1. PICK e \in Nat : q = -1 - e
        <4>1. (-1 - q) \in Nat /\ q = -1 - (-1 - q)
          OBVIOUS
        <4> QED
          BY <4>1
      <3>2. p * q = -p - p * e /\ p * e \in Nat
        BY <3>1
      <3> QED
        BY <2>1, <2>3, <2>4, <3>2
    <2>6. q \in Nat
      BY <2>2, <2>5
    <2> QED
      BY <2>2, <2>3, <2>4, <2>6, Zenon
  <1>2. PICK q \in Nat : q = n \div p /\ n = p * q
    <2>1. PICK q \in Nat, r \in 0 .. p - 1 : q = n \div p /\ r = n % p /\ n = p * q + r
      BY <1>1
    <2> QED
      BY <2>1
  <1>4. q >= 1 /\ q <= n
    BY <1>2
  <1>5. ASSUME NEW t \in 0 .. n - 1
        PROVE  t \div p \in 0 .. q - 1 /\ t % p \in 0 .. p - 1
    <2>1. PICK d \in Nat, r \in 0 .. p - 1 : d = t \div p /\ r = t % p /\ t = p * d + r
      BY <1>1
    <2>2. p * d <= t /\ t < p * q
      BY <1>2, <2>1
    <2>3. d < q
      <3> SUFFICES ASSUME d >= q PROVE FALSE
        OBVIOUS
      <3>1. PICK e \in Nat : d = q + e
        BY <1>2
      <3>2. p * d = p * q + p * e /\ p * e \in Nat
        BY <3>1
      <3> QED
        BY <2>2, <3>2
    <2> QED
      BY <2>1, <2>3
  <1>6. ASSUME NEW t \in 0 .. n - 1, NEW u \in 0 .. n - 1, t \div p = u \div p, t % p = u % p
        PROVE  t = u
    <2>1. PICK d \in Nat, r \in 0 .. p - 1 : d = t \div p /\ r = t % p /\ t = p * d + r
      BY <1>1
    <2>2. PICK e \in Nat, s \in 0 .. p - 1 : e = u \div p /\ s = u % p /\ u = p * e + s
      BY <1>1
    <2> QED
      BY <1>6, <2>1, <2>2
  <1> QED
    BY <1>2, <1>4, <1>5, <1>6

-----------------------------------------------------------------------------
(* The thread library: synchJoinThreadsN waits for the threads of its start  *)

NPosix   == Program!NPosix
PerPosix == Program!PerPosix
Posix    == Program!Posix
Threads  == Program!Threads

ThreadsOf(k) == {t \in Threads : Program!PosixOf(t) = k}

Started == starts > 0

(* The types, and where the caller and the posix threads may be.             *)
CallerInv ==
    /\ plan \in Plans /\ starts \in 0 .. Len(plan) /\ created \in Nat
    /\ caller \in {"out", "creating", "running", "join", "waiting", "joined"}
    /\ Started <=> caller # "out"
    /\ state \in [Posix -> {"none", "begin", "spawn", "func", "wait_fibers",
                            "arrive", "leave", "gone"}]
    /\ n_fibers \in [Posix -> Nat] /\ active \in [Posix -> SUBSET Nat]
    /\ finished \subseteq Threads
    /\ bar_arrive \in Int /\ bar_leave \in Int
    /\ strayed \in Nat /\ late \in 0 .. strayed

StateInv ==
    Started =>
        /\ created < NPosix
        /\ \A k \in Posix : state[k] # "none" => k < NPosix
        /\ caller = "creating" => \A k \in Posix : k >= created => state[k] = "none"
        /\ caller \in {"join", "waiting", "joined"} => state[NPosix - 1] = "gone"

(* The fibers of posix thread k: n_fibers counts those that are active, and  *)
(* those that have not finished are among them.                              *)
Fibers(k) ==
    /\ active[k] \subseteq 0 .. PerPosix - 1 /\ 0 \in active[k]
    /\ n_fibers[k] = Cardinality(active[k])
    /\ \A t \in ThreadsOf(k) \ finished : Program!FiberOf(t) \in active[k]

FiberInv(k) ==
    /\ state[k] \in {"none", "begin", "spawn"} => ThreadsOf(k) \intersect finished = {}
    /\ state[k] \in {"none", "begin", "arrive", "leave", "gone"} => n_fibers[k] = 1
    /\ state[k] = "spawn" =>
          /\ PerPosix > 1 /\ n_fibers[k] \in 1 .. PerPosix
          /\ active[k] = 0 .. n_fibers[k] - 1
    /\ state[k] = "func" => IF PerPosix = 1 THEN n_fibers[k] = 1 ELSE Fibers(k)
    /\ state[k] = "wait_fibers" =>
          /\ PerPosix > 1 /\ Fibers(k)
          /\ \A t \in ThreadsOf(k) : Program!FiberOf(t) = 0 => t \in finished
    /\ state[k] \in {"arrive", "leave", "gone"} => ThreadsOf(k) \subseteq finished

FibersInv == Started => \A k \in Posix : FiberInv(k)

(* Who has made the first, and who the second, decrement of bar.             *)
Arrived == {k \in Posix : state[k] \in {"leave", "gone"}}
Gone    == {k \in Posix : state[k] = "gone"}

(* The counters say how many are still to come, but for the late threads     *)
(* that have taken one off bar_leave; and the caller waits until one of the  *)
(* counters is 0.                                                            *)
CountInv ==
    Started =>
        /\ bar_arrive = NPosix + 1 - Cardinality(Arrived)
                        - (IF caller \in {"join", "waiting", "joined"} THEN 1 ELSE 0)
        /\ bar_leave = NPosix + 1 - Cardinality(Gone) - (strayed - late)
                       - (IF caller \in {"waiting", "joined"} THEN 1 ELSE 0)
        /\ caller = "joined" => NPosix <= Cardinality(Arrived) + strayed

JoinInv == CallerInv /\ StateInv /\ FibersInv /\ CountInv

(* What is known of the numbers in a start. *)
LEMMA StartNumbers ==
    ASSUME plan \in Plans, starts \in 1 .. Len(plan)
    PROVE  /\ NThreads \in Nat \ {0} /\ PerPosix \in Nat \ {0} /\ NThreads % PerPosix = 0
           /\ NPosix = NThreads \div PerPosix /\ NPosix \in 1 .. NThreads
           /\ NPosix - 1 \in Posix /\ Program!CallersOwn = NPosix - 1
           /\ Posix = 0 .. NThreads - 1 /\ Threads = 0 .. NThreads - 1
           /\ \A t \in Threads : /\ Program!PosixOf(t) \in 0 .. NPosix - 1
                                 /\ Program!PosixOf(t) \in Posix
                                 /\ Program!FiberOf(t) \in 0 .. PerPosix - 1
           /\ \A t, u \in Threads :
                 Program!PosixOf(t) = Program!PosixOf(u) /\ Program!FiberOf(t) = Program!FiberOf(u)
                    => t = u
  <1>1. PICK n, p : n = NThreads /\ p = PerPosix
    OBVIOUS
  <1>2. n \in Nat \ {0} /\ p \in Nat \ {0} /\ n % p = 0
    <2>1. plan \in Seq(Nat \ {0}) /\ \A i \in 1 .. Len(plan) : NThreads % plan[i] = 0
      BY BoundsAssumption DEF Program!StartsAssumption
    <2>2. p = plan[starts]
      BY <1>1 DEF PerPosix, Program!PerPosix
    <2> QED
      BY <1>1, <2>1, <2>2, BoundsAssumption DEF Program!StartsAssumption
  <1>3. /\ NPosix = n \div p /\ Posix = 0 .. n - 1 /\ Threads = 0 .. n - 1
        /\ Program!CallersOwn = NPosix - 1
        /\ \A t : Program!PosixOf(t) = t \div p /\ Program!FiberOf(t) = t % p
    BY <1>1 DEF NPosix, Posix, Threads, PerPosix, Program!NPosix, Program!PerPosix,
                Program!Posix, Program!Threads, Program!CallersOwn, Program!PosixOf,
                Program!FiberOf
  <1>4. PICK q : q = n \div p
    OBVIOUS
  <1>5. /\ q \in 1 .. n
        /\ \A t \in 0 .. n - 1 : t \div p \in 0 .. q - 1 /\ t % p \in 0 .. p - 1
        /\ \A t, u \in 0 .. n - 1 : t \div p = u \div p /\ t % p = u % p => t = u
    BY <1>2, <1>4, Numbering
  <1>6. \A k \in 0 .. q - 1 : k \in 0 .. n - 1
    BY <1>2, <1>5
  <1>7. q - 1 \in 0 .. n - 1
    BY <1>2, <1>5
  <1>8. ASSUME NEW t \in Threads
        PROVE  /\ Program!PosixOf(t) \in 0 .. NPosix - 1
               /\ Program!PosixOf(t) \in Posix
               /\ Program!FiberOf(t) \in 0 .. PerPosix - 1
    BY <1>1, <1>3, <1>4, <1>5, <1>6
  <1>9. ASSUME NEW t \in Threads, NEW u \in Threads,
               Program!PosixOf(t) = Program!PosixOf(u), Program!FiberOf(t) = Program!FiberOf(u)
        PROVE  t = u
    <2>1. t \in 0 .. n - 1 /\ u \in 0 .. n - 1 /\ t \div p = u \div p /\ t % p = u % p
      BY <1>3, <1>9
    <2> QED
      BY <1>5, <2>1
  <1>10. n \in Nat \ {0} /\ q \in 1 .. n /\ NPosix = q /\ PerPosix = p /\ NThreads = n
    BY <1>1, <1>2, <1>3, <1>4, <1>5
  <1> QED
    BY <1>2, <1>3, <1>4, <1>7, <1>8, <1>9, <1>10

(* The steps in a start.                                                     *)
Steady == Started /\ UNCHANGED <<plan, starts>>

LEMMA SteadyNumbers ==
    ASSUME CallerInv, Started
    PROVE  plan \in Plans /\ starts \in 1 .. Len(plan)
  <1>1. Len(plan) \in Nat
    BY BoundsAssumption DEF CallerInv, Program!StartsAssumption
  <1> QED
    BY <1>1 DEF CallerInv, Started

LEMMA SteadySame ==
    ASSUME Steady
    PROVE  /\ Started' /\ PerPosix' = PerPosix /\ NPosix' = NPosix
           /\ Program!CallersOwn' = Program!CallersOwn
           /\ \A t : Program!PosixOf(t)' = Program!PosixOf(t)
                     /\ Program!FiberOf(t)' = Program!FiberOf(t)
           /\ \A k : ThreadsOf(k)' = ThreadsOf(k)
  BY DEF Steady, Started, PerPosix, NPosix, ThreadsOf, Program!PerPosix, Program!NPosix,
         Program!CallersOwn, Program!PosixOf, Program!FiberOf

(* Nothing happens to posix thread k. *)
LEMMA FiberKept ==
    ASSUME Steady, NEW k, FiberInv(k), state'[k] = state[k], n_fibers'[k] = n_fibers[k],
           active'[k] = active[k],
           \A t \in ThreadsOf(k) : t \in finished' <=> t \in finished
    PROVE  FiberInv(k)'
  <1>1. /\ PerPosix' = PerPosix /\ ThreadsOf(k)' = ThreadsOf(k)
        /\ \A t : Program!FiberOf(t)' = Program!FiberOf(t)
    BY SteadySame
  <1>2. Fibers(k) => Fibers(k)'
    BY <1>1 DEF Fibers
  <1> QED
    BY <1>1, <1>2 DEF FiberInv

(* A posix thread goes from one state to another.                            *)
LEMMA Counts ==
    ASSUME CallerInv, Started
    PROVE  /\ IsFiniteSet(Arrived) /\ Cardinality(Arrived) \in Nat
           /\ IsFiniteSet(Gone) /\ Cardinality(Gone) \in Nat
  <1>1. Posix = 0 .. NThreads - 1 /\ NThreads \in Nat
    BY SteadyNumbers, StartNumbers
  <1>2. IsFiniteSet(Posix)
    <2>1. PICK n \in Nat : n = NThreads
      BY <1>1
    <2>2. 0 \in Int /\ n - 1 \in Int /\ Posix = 0 .. n - 1
      BY <1>1, <2>1
    <2>3. IsFiniteSet(0 .. n - 1)
      BY <2>2, FS_Interval
    <2> QED
      BY <2>2, <2>3
  <1>3. PICK a, g : a = Arrived /\ g = Gone
    OBVIOUS
  <1>4. a \subseteq Posix /\ g \subseteq Posix
    BY <1>3 DEF Arrived, Gone
  <1>5. IsFiniteSet(a)
    BY <1>2, <1>4, FS_Subset, Zenon
  <1>6. IsFiniteSet(g)
    BY <1>2, <1>4, FS_Subset, Zenon
  <1>7. Cardinality(a) \in Nat /\ Cardinality(g) \in Nat
    BY <1>5, <1>6, FS_CardinalityType, Zenon
  <1> QED
    BY <1>3, <1>5, <1>6, <1>7, Zenon

(* A step between two states that count as the same. *)
LEMMA SameCounts ==
    ASSUME CallerInv, Steady, NEW k \in Posix, NEW s, state' = [state EXCEPT ![k] = s],
           s \notin {"leave", "gone"}, state[k] \notin {"leave", "gone"}
    PROVE  Arrived' = Arrived /\ Gone' = Gone
  <1>1. \A j \in Posix : state'[j] = IF j = k THEN s ELSE state[j]
    BY DEF CallerInv
  <1> QED
    BY <1>1 DEF Arrived, Gone

LEMMA CountKept ==
    ASSUME CallerInv, CountInv, Steady, Arrived' = Arrived, Gone' = Gone,
           UNCHANGED <<strayed, late, bar_arrive, bar_leave, caller>>
    PROVE  CountInv'
  <1>1. Started' /\ Started /\ NPosix' = NPosix
    BY SteadySame DEF Steady
  <1>2. Cardinality(Arrived)' = Cardinality(Arrived) /\ Cardinality(Gone)' = Cardinality(Gone)
    OBVIOUS
  <1>3. /\ bar_arrive = NPosix + 1 - Cardinality(Arrived)
                        - (IF caller \in {"join", "waiting", "joined"} THEN 1 ELSE 0)
        /\ bar_leave = NPosix + 1 - Cardinality(Gone) - (strayed - late)
                       - (IF caller \in {"waiting", "joined"} THEN 1 ELSE 0)
        /\ caller = "joined" => NPosix <= Cardinality(Arrived) + strayed
    BY <1>1 DEF CountInv
  <1> QED
    BY <1>1, <1>2, <1>3 DEF CountInv

LEMMA StateKept ==
    ASSUME CallerInv, StateInv, Steady, NEW k \in Posix, NEW s,
           s # "none", state[k] # "none", state[k] # "gone",
           state' = [state EXCEPT ![k] = s], UNCHANGED <<caller, created>>
    PROVE  StateInv'
  <1>1. \A j \in Posix : state'[j] = IF j = k THEN s ELSE state[j]
    BY DEF CallerInv
  <1>2. Started' /\ NPosix' = NPosix
    BY SteadySame
  <1>3. NPosix - 1 \in Posix
    BY SteadyNumbers, StartNumbers DEF Steady
  <1> QED
    BY <1>1, <1>2, <1>3 DEF StateInv, Steady

(* What a step of posix thread k keeps of the others. *)
LEMMA OthersKept ==
    ASSUME CallerInv, FibersInv, Steady, NEW k \in Posix, FiberInv(k)',
           \A j \in Posix \ {k} : /\ state'[j] = state[j] /\ n_fibers'[j] = n_fibers[j]
                                  /\ active'[j] = active[j],
           \A t \in Threads : Program!PosixOf(t) # k => (t \in finished' <=> t \in finished)
    PROVE  FibersInv'
  <1>1. ASSUME NEW j \in Posix, j # k PROVE FiberInv(j)'
    <2>1. FiberInv(j)
      BY DEF FibersInv, Steady
    <2>2. \A t \in ThreadsOf(j) : t \in finished' <=> t \in finished
      BY <1>1 DEF ThreadsOf
    <2> QED
      BY <1>1, <2>1, <2>2, FiberKept
  <1> QED
    BY <1>1 DEF FibersInv

(* A step of something else. *)
LEMMA NothingOfJoin ==
    ASSUME JoinInv, UNCHANGED <<plan, starts, caller, created, state, n_fibers, active,
                                finished, bar_arrive, bar_leave, strayed, late>>
    PROVE  JoinInv'
  <1>1. CallerInv'
    BY DEF JoinInv, CallerInv, Started, Posix, Program!Posix, Threads, Program!Threads
  <1>2. StateInv'
    BY DEF JoinInv, StateInv, Started, NPosix, PerPosix, Program!NPosix, Program!PerPosix,
           Posix, Program!Posix
  <1>3. FibersInv'
    <2> SUFFICES ASSUME Started, NEW k \in Posix PROVE FiberInv(k)'
      BY DEF FibersInv, Started, JoinInv
    <2>1. FiberInv(k) /\ Steady
      BY DEF JoinInv, FibersInv, Steady
    <2> QED
      BY <2>1, FiberKept
  <1>4. CountInv'
    <2>1. CASE Started
      <3>1. Steady /\ CallerInv /\ CountInv
        BY <2>1 DEF Steady, JoinInv
      <3>2. Arrived' = Arrived /\ Gone' = Gone
        BY DEF Arrived, Gone
      <3> QED
        BY <3>1, <3>2, CountKept
    <2>2. CASE ~Started
      BY <2>2 DEF CountInv, Started
    <2> QED
      BY <2>1, <2>2
  <1> QED
    BY <1>1, <1>2, <1>3, <1>4 DEF JoinInv

(* Thread creation. *)
LEMMA CreateKeeps ==
    ASSUME JoinInv, Program!Create
    PROVE  JoinInv'
  <1>1. /\ CallerInv /\ Started /\ Steady /\ StateInv
        /\ caller = "creating" /\ created \in Nat /\ created < NPosix - 1
        /\ created' = created + 1 /\ state' = [state EXCEPT ![created] = "begin"]
        /\ UNCHANGED <<plan, starts, caller, n_fibers, active, finished, bar_arrive,
                       bar_leave, strayed, late>>
    BY DEF JoinInv, CallerInv, Steady, Started, Program!Create, Program!programVars,
           Program!barVars, Program!lateVars, Program!fiberVars, NPosix
  <1>2. created \in Posix /\ NPosix \in Nat
    <2>1. NPosix \in 1 .. NThreads /\ NThreads \in Nat /\ Posix = 0 .. NThreads - 1
      BY <1>1, SteadyNumbers, StartNumbers
    <2> QED
      BY <1>1, <2>1
  <1>3. state[created] = "none"
    BY <1>1, <1>2 DEF StateInv
  <1>4. \A j \in Posix : state'[j] = IF j = created THEN "begin" ELSE state[j]
    BY <1>1 DEF CallerInv
  <1>5. CallerInv'
    <2>1. created' \in Nat
      BY <1>1
    <2>2. state' \in [Posix -> {"none", "begin", "spawn", "func", "wait_fibers",
                               "arrive", "leave", "gone"}]
      BY <1>1 DEF CallerInv
    <2> QED
      BY <1>1, <2>1, <2>2 DEF CallerInv, Started, Posix, Program!Posix, Threads, Program!Threads
  <1>6. StateInv'
    <2>1. Started' /\ NPosix' = NPosix /\ Posix' = Posix
      BY <1>1, SteadySame DEF Posix, Program!Posix
    <2>2. \A k \in Posix : state'[k] # "none" => k < NPosix
      BY <1>1, <1>2, <1>4 DEF StateInv
    <2>3. \A k \in Posix : k >= created' => state'[k] = "none"
      <3> SUFFICES ASSUME NEW k \in Posix, k >= created + 1 PROVE state'[k] = "none"
        BY <1>1
      <3>1. k \in Int
        BY DEF Posix, Program!Posix
      <3> QED
        BY <1>1, <1>4, <3>1 DEF StateInv
    <2> QED
      BY <1>1, <1>2, <2>1, <2>2, <2>3 DEF StateInv
  <1>7. FibersInv'
    <2>3. PICK c \in Posix : c = created
      BY <1>2
    <2>4. FiberInv(c)'
      <3>1. /\ ThreadsOf(c)' \intersect finished' = {} /\ state'[c] = "begin"
            /\ n_fibers'[c] = 1
        <4>1. /\ FiberInv(c) /\ state[c] = "none" /\ ThreadsOf(c)' = ThreadsOf(c)
              /\ finished' = finished /\ n_fibers'[c] = n_fibers[c] /\ state'[c] = "begin"
          BY <1>1, <1>2, <1>3, <1>4, <2>3, SteadySame DEF JoinInv, FibersInv
        <4> QED
          BY <4>1 DEF FiberInv
      <3> QED
        BY <3>1 DEF FiberInv
    <2>5. \A j \in Posix \ {c} : /\ state'[j] = state[j] /\ n_fibers'[j] = n_fibers[j]
                                 /\ active'[j] = active[j]
      BY <1>1, <1>4, <2>3
    <2> QED
      BY <1>1, <2>4, <2>5, OthersKept DEF JoinInv
  <1>8. CountInv'
    <2>1. PICK c \in Posix : c = created
      BY <1>2
    <2>2. Arrived' = Arrived /\ Gone' = Gone
      BY <1>1, <1>3, <1>4, <2>1 DEF Arrived, Gone
    <2> QED
      BY <1>1, <2>2, CountKept DEF JoinInv
  <1> QED
    BY <1>5, <1>6, <1>7, <1>8 DEF JoinInv

LEMMA RunOwnKeeps ==
    ASSUME JoinInv, Program!RunOwn
    PROVE  JoinInv'
  <1>1. PICK c : c = Program!CallersOwn
    OBVIOUS
  <1>2. /\ CallerInv /\ Started /\ Steady /\ StateInv
        /\ caller = "creating" /\ caller' = "running" /\ created = c
        /\ state' = [state EXCEPT ![c] = "begin"]
        /\ UNCHANGED <<plan, starts, created, n_fibers, active, finished, bar_arrive,
                       bar_leave, strayed, late>>
    BY <1>1 DEF JoinInv, CallerInv, Steady, Started, Program!RunOwn, Program!programVars,
           Program!barVars, Program!lateVars, Program!fiberVars, Program!CallersOwn
  <1>3. c \in Posix /\ NPosix \in Nat /\ c = NPosix - 1
    <2>1. /\ NPosix \in 1 .. NThreads /\ NThreads \in Nat /\ NPosix - 1 \in Posix
          /\ Program!CallersOwn = NPosix - 1
      BY <1>2, SteadyNumbers, StartNumbers
    <2> QED
      BY <1>1, <2>1
  <1>4. state[c] = "none"
    BY <1>2, <1>3 DEF StateInv
  <1>5. \A j \in Posix : state'[j] = IF j = c THEN "begin" ELSE state[j]
    BY <1>2 DEF CallerInv
  <1>6. CallerInv'
    BY <1>2 DEF CallerInv, Started, Posix, Program!Posix, Threads, Program!Threads
  <1>7. StateInv'
    <2>1. Started' /\ NPosix' = NPosix /\ Posix' = Posix
      BY <1>2, SteadySame DEF Posix, Program!Posix
    <2>2. \A k \in Posix : state'[k] # "none" => k < NPosix
      BY <1>2, <1>3, <1>5 DEF StateInv
    <2> QED
      BY <1>2, <1>3, <2>1, <2>2 DEF StateInv
  <1>8. FibersInv'
    <2>1. FiberInv(c)'
      <3>1. /\ ThreadsOf(c)' \intersect finished' = {} /\ state'[c] = "begin"
            /\ n_fibers'[c] = 1
        <4>1. /\ FiberInv(c) /\ state[c] = "none" /\ ThreadsOf(c)' = ThreadsOf(c)
              /\ finished' = finished /\ n_fibers'[c] = n_fibers[c] /\ state'[c] = "begin"
          BY <1>2, <1>3, <1>4, <1>5, SteadySame DEF JoinInv, FibersInv
        <4> QED
          BY <4>1 DEF FiberInv
      <3> QED
        BY <3>1 DEF FiberInv
    <2>2. \A j \in Posix \ {c} : /\ state'[j] = state[j] /\ n_fibers'[j] = n_fibers[j]
                                 /\ active'[j] = active[j]
      BY <1>2, <1>5
    <2> QED
      BY <1>2, <1>3, <2>1, <2>2, OthersKept DEF JoinInv
  <1>9. CountInv'
    <2>1. Arrived' = Arrived /\ Gone' = Gone
      BY <1>4, <1>5 DEF Arrived, Gone
    <2>2. Cardinality(Arrived)' = Cardinality(Arrived) /\ Cardinality(Gone)' = Cardinality(Gone)
      BY <2>1
    <2>3. Started' /\ NPosix' = NPosix
      BY <1>2, SteadySame
    <2> QED
      BY <1>2, <2>2, <2>3 DEF JoinInv, CountInv
  <1> QED
    BY <1>6, <1>7, <1>8, <1>9 DEF JoinInv

(* The caller's two decrements, and the end of its wait. *)
LEMMA CallerKeeps ==
    ASSUME JoinInv, Started, Steady,
           caller' \in {"join", "waiting", "joined"}, caller # "creating",
           caller \in {"join", "waiting", "joined"} \/ state[NPosix - 1] = "gone",
           UNCHANGED <<created, state, n_fibers, active, finished, strayed, late>>,
           bar_arrive' \in Int, bar_leave' \in Int
    PROVE  /\ CallerInv' /\ StateInv' /\ FibersInv'
           /\ Arrived' = Arrived /\ Gone' = Gone
  <1>1. CallerInv'
    BY DEF JoinInv, CallerInv, Steady, Started, Posix, Program!Posix, Threads, Program!Threads
  <1>2. StateInv'
    <2>1. Started' /\ NPosix' = NPosix /\ Posix' = Posix
      BY SteadySame DEF Posix, Program!Posix
    <2> QED
      BY <2>1 DEF JoinInv, StateInv
  <1>3. FibersInv'
    <2> SUFFICES ASSUME NEW k \in Posix PROVE FiberInv(k)'
      BY DEF FibersInv
    <2>1. FiberInv(k)
      BY DEF JoinInv, FibersInv
    <2> QED
      BY <2>1, FiberKept
  <1>4. Arrived' = Arrived /\ Gone' = Gone
    BY DEF Arrived, Gone
  <1> QED
    BY <1>1, <1>2, <1>3, <1>4

LEMMA JoinArriveKeeps ==
    ASSUME JoinInv, Program!JoinArrive
    PROVE  JoinInv'
  <1>1. /\ CallerInv /\ Started /\ Steady
        /\ caller = "running" /\ caller' = "join" /\ state[Program!CallersOwn] = "gone"
        /\ bar_arrive' = bar_arrive - 1 /\ bar_leave' = bar_leave
        /\ bar_arrive \in Int /\ bar_leave \in Int
        /\ UNCHANGED <<plan, starts, created, state, n_fibers, active, finished, strayed, late>>
    BY DEF JoinInv, CallerInv, Steady, Started, Program!JoinArrive, Program!programVars,
           Program!lateVars, Program!fiberVars
  <1>2. Program!CallersOwn = NPosix - 1 /\ NPosix \in Nat
    <2>1. Program!CallersOwn = NPosix - 1 /\ NPosix \in 1 .. NThreads /\ NThreads \in Nat
      BY <1>1, SteadyNumbers, StartNumbers
    <2> QED
      BY <2>1
  <1>3. CallerInv' /\ StateInv' /\ FibersInv' /\ Arrived' = Arrived /\ Gone' = Gone
    BY <1>1, <1>2, CallerKeeps
  <1>4. CountInv'
    <2>1. Cardinality(Arrived)' = Cardinality(Arrived) /\ Cardinality(Gone)' = Cardinality(Gone)
      BY <1>3
    <2>2. Started' /\ NPosix' = NPosix /\ Cardinality(Arrived) \in Nat
      BY <1>1, SteadySame, Counts
    <2> QED
      BY <1>1, <1>2, <2>1, <2>2 DEF JoinInv, CountInv
  <1> QED
    BY <1>3, <1>4 DEF JoinInv

LEMMA JoinLeaveKeeps ==
    ASSUME JoinInv, Program!JoinLeave
    PROVE  JoinInv'
  <1>1. /\ CallerInv /\ Started /\ Steady
        /\ caller = "join" /\ caller' = "waiting"
        /\ bar_leave' = bar_leave - 1 /\ bar_arrive' = bar_arrive
        /\ bar_arrive \in Int /\ bar_leave \in Int
        /\ UNCHANGED <<plan, starts, created, state, n_fibers, active, finished, strayed, late>>
    BY DEF JoinInv, CallerInv, Steady, Started, Program!JoinLeave, Program!programVars,
           Program!lateVars, Program!fiberVars
  <1>2. NPosix \in Nat
    <2>1. NPosix \in 1 .. NThreads /\ NThreads \in Nat
      BY <1>1, SteadyNumbers, StartNumbers
    <2> QED
      BY <2>1
  <1>3. CallerInv' /\ StateInv' /\ FibersInv' /\ Arrived' = Arrived /\ Gone' = Gone
    BY <1>1, CallerKeeps
  <1>4. CountInv'
    <2>1. Cardinality(Arrived)' = Cardinality(Arrived) /\ Cardinality(Gone)' = Cardinality(Gone)
      BY <1>3
    <2>2. Started' /\ NPosix' = NPosix /\ Cardinality(Gone) \in Nat
      BY <1>1, SteadySame, Counts
    <2>3. /\ bar_arrive = NPosix + 1 - Cardinality(Arrived) - 1
          /\ bar_leave = NPosix + 1 - Cardinality(Gone) - (strayed - late) - 0
      BY <1>1 DEF JoinInv, CountInv
    <2>4. PICK gone, slow : gone = Cardinality(Gone) /\ slow = strayed - late
      OBVIOUS
    <2>5. slow \in Int
      BY <1>1, <2>4 DEF CallerInv
    <2>6. bar_leave' = NPosix + 1 - gone - slow - 1
      <3>1. bar_leave = NPosix + 1 - gone - slow - 0 /\ gone \in Nat
        BY <2>2, <2>3, <2>4
      <3> QED
        BY <1>1, <1>2, <2>5, <3>1
    <2>7. /\ bar_arrive' = NPosix' + 1 - Cardinality(Arrived)' - 1
          /\ bar_leave' = NPosix' + 1 - Cardinality(Gone)' - (strayed' - late') - 1
      BY <1>1, <2>1, <2>2, <2>3, <2>4, <2>6
    <2> QED
      BY <1>1, <2>7 DEF CountInv
  <1> QED
    BY <1>3, <1>4 DEF JoinInv

(* The join ends when one of the counters is 0. *)
LEMMA JoinKeeps ==
    ASSUME JoinInv, Program!Join
    PROVE  JoinInv'
  <1>1. /\ CallerInv /\ Started /\ Steady /\ StateInv
        /\ caller = "waiting" /\ caller' = "joined"
        /\ bar_arrive = 0 \/ bar_leave = 0
        /\ bar_leave' = bar_leave /\ bar_arrive' = bar_arrive
        /\ bar_arrive \in Int /\ bar_leave \in Int
        /\ UNCHANGED <<plan, starts, created, state, n_fibers, active, finished, strayed, late>>
    BY DEF JoinInv, CallerInv, Steady, Started, Program!Join, Program!AllLeft,
           Program!programVars, Program!barVars, Program!lateVars, Program!fiberVars
  <1>2. PICK n \in Nat : n = NPosix
    <2>1. NPosix \in 1 .. NThreads /\ NThreads \in Nat
      BY <1>1, SteadyNumbers, StartNumbers
    <2> QED
      BY <2>1
  <1>3. CallerInv' /\ StateInv' /\ FibersInv' /\ Arrived' = Arrived /\ Gone' = Gone
    BY <1>1, CallerKeeps
  <1>4. PICK a, g : a = Arrived /\ g = Gone
    OBVIOUS
  <1>5. g \subseteq a /\ a \subseteq 0 .. n - 1
    <2>1. \A k \in a : k \in 0 .. NThreads - 1 /\ k < NPosix
      BY <1>1, <1>4 DEF Arrived, StateInv, Posix, Program!Posix
    <2>2. \A k \in a : k \in 0 .. n - 1
      <3> TAKE k \in a
      <3>1. k \in 0 .. NThreads - 1 /\ k < n /\ NThreads \in Nat
        BY <2>1, <1>1, <1>2, SteadyNumbers, StartNumbers
      <3> QED
        BY <3>1
    <2> QED
      BY <1>4, <2>2 DEF Arrived, Gone
  <1>6. /\ IsFiniteSet(a) /\ Cardinality(a) \in Nat /\ Cardinality(a) <= n
        /\ IsFiniteSet(g) /\ Cardinality(g) \in Nat /\ Cardinality(g) <= n
    <2>1. IsFiniteSet(0 .. n - 1) /\ Cardinality(0 .. n - 1) = n
      BY FS_Interval
    <2>2. g \subseteq 0 .. n - 1
      BY <1>5
    <2>3. IsFiniteSet(a) /\ Cardinality(a) <= n
      BY <1>5, <2>1, FS_Subset
    <2>4. IsFiniteSet(g) /\ Cardinality(g) <= n
      BY <2>1, <2>2, FS_Subset
    <2> QED
      BY <2>3, <2>4, FS_CardinalityType
  <1>7. CountInv'
    <2>1. Cardinality(Arrived)' = Cardinality(Arrived) /\ Cardinality(Gone)' = Cardinality(Gone)
      BY <1>3
    <2>2. Started' /\ NPosix' = NPosix
      BY <1>1, SteadySame
    <2>3. /\ strayed \in Nat /\ late \in 0 .. strayed
          /\ bar_arrive = n + 1 - Cardinality(a) - 1
          /\ bar_leave = n + 1 - Cardinality(g) - (strayed - late) - 1
      BY <1>1, <1>2, <1>4 DEF JoinInv, CountInv, CallerInv
    <2>4. Cardinality(g) <= Cardinality(a)
      BY <1>5, <1>6, FS_Subset
    <2>5. n <= Cardinality(a) + strayed
      BY <1>1, <1>6, <2>3, <2>4
    <2> QED
      BY <1>1, <1>2, <1>3, <1>4, <2>1, <2>2, <2>3, <2>5 DEF CountInv
  <1> QED
    BY <1>3, <1>7 DEF JoinInv

-----------------------------------------------------------------------------
(* The steps of a posix thread                                               *)

States == {"none", "begin", "spawn", "func", "wait_fibers", "arrive", "leave", "gone"}

LEMMA TypesKept ==
    ASSUME CallerInv, Steady, UNCHANGED <<caller, created, strayed, late>>,
           state' \in [Posix -> States], n_fibers' \in [Posix -> Nat],
           active' \in [Posix -> SUBSET Nat], finished' \subseteq Threads,
           bar_arrive' \in Int, bar_leave' \in Int
    PROVE  CallerInv'
  BY DEF CallerInv, Steady, Started, States, Posix, Program!Posix, Threads, Program!Threads

(* A step of posix thread k before it arrives at bar. *)
LEMMA FiberStep ==
    ASSUME JoinInv, Started, Steady, NEW k \in Posix, NEW s \in States, NEW n \in Nat,
           NEW a \in SUBSET Nat,
           UNCHANGED <<caller, created, strayed, late, bar_arrive, bar_leave>>,
           s \notin {"none", "leave", "gone"}, state[k] \notin {"none", "leave", "gone"},
           state' = [state EXCEPT ![k] = s],
           n_fibers' = [n_fibers EXCEPT ![k] = n],
           active' = [active EXCEPT ![k] = a],
           finished' \subseteq Threads,
           \A t \in Threads : Program!PosixOf(t) # k => (t \in finished' <=> t \in finished),
           FiberInv(k)'
    PROVE  JoinInv'
  <1>1. CallerInv /\ StateInv /\ FibersInv /\ CountInv
    BY DEF JoinInv
  <1>2. \A j \in Posix : /\ state'[j] = IF j = k THEN s ELSE state[j]
                         /\ n_fibers'[j] = IF j = k THEN n ELSE n_fibers[j]
                         /\ active'[j] = IF j = k THEN a ELSE active[j]
    BY <1>1 DEF CallerInv
  <1>3. CallerInv'
    <2>1. /\ state' \in [Posix -> States] /\ n_fibers' \in [Posix -> Nat]
          /\ active' \in [Posix -> SUBSET Nat]
      BY <1>1 DEF CallerInv, States
    <2>2. bar_arrive' \in Int /\ bar_leave' \in Int
      BY <1>1 DEF CallerInv
    <2> QED
      BY <1>1, <2>1, <2>2, TypesKept
  <1>4. StateInv'
    BY <1>1, StateKept
  <1>5. FibersInv'
    BY <1>1, <1>2, OthersKept
  <1>6. CountInv'
    <2>1. Arrived' = Arrived /\ Gone' = Gone
      BY <1>1, SameCounts
    <2> QED
      BY <1>1, <2>1, CountKept
  <1> QED
    BY <1>3, <1>4, <1>5, <1>6 DEF JoinInv

(* What of it does not change. *)
LEMMA Unchanging ==
    ASSUME CallerInv, NEW k \in Posix
    PROVE  /\ n_fibers = [n_fibers EXCEPT ![k] = n_fibers[k]] /\ n_fibers[k] \in Nat
           /\ active = [active EXCEPT ![k] = active[k]] /\ active[k] \in SUBSET Nat
           /\ state = [state EXCEPT ![k] = state[k]] /\ state[k] \in States
           /\ finished \subseteq Threads
  BY DEF CallerInv, States

LEMMA BeginKeeps ==
    ASSUME JoinInv, Started, NEW k \in Posix, Program!Begin(k)
    PROVE  JoinInv'
  <1>1. PICK s \in States, a \in SUBSET Nat :
            /\ state' = [state EXCEPT ![k] = s] /\ active' = [active EXCEPT ![k] = a]
            /\ (PerPosix = 1 /\ s = "func") \/ (PerPosix # 1 /\ s = "spawn" /\ a = {0})
    <2>1. CASE PerPosix = 1
      <3>1. state' = [state EXCEPT ![k] = "func"] /\ active' = [active EXCEPT ![k] = active[k]]
        BY <2>1, Unchanging DEF JoinInv, Program!Begin, Program!MoveTo, PerPosix
      <3>2. active[k] \in SUBSET Nat
        BY Unchanging DEF JoinInv
      <3>3. "func" \in States
        BY DEF States
      <3> QED
        BY <2>1, <3>1, <3>2, <3>3
    <2>2. CASE PerPosix # 1
      <3>1. state' = [state EXCEPT ![k] = "spawn"] /\ active' = [active EXCEPT ![k] = {0}]
        BY <2>2 DEF Program!Begin, Program!MoveTo, PerPosix
      <3>2. "spawn" \in States /\ {0} \in SUBSET Nat
        BY DEF States
      <3> QED
        BY <2>2, <3>1, <3>2
    <2> QED
      BY <2>1, <2>2
  <1>2. /\ CallerInv /\ Steady /\ state[k] = "begin"
        /\ UNCHANGED <<caller, created, strayed, late, bar_arrive, bar_leave, n_fibers, finished>>
    BY DEF JoinInv, Steady, Program!Begin, Program!programVars, Program!callerVars,
           Program!barVars, Program!lateVars
  <1>3. /\ n_fibers' = [n_fibers EXCEPT ![k] = n_fibers[k]] /\ n_fibers[k] \in Nat
        /\ finished' \subseteq Threads
    BY <1>2, Unchanging
  <1>4. FiberInv(k) /\ n_fibers[k] = 1 /\ ThreadsOf(k) \intersect finished = {}
    BY <1>2 DEF JoinInv, FibersInv, FiberInv
  <1>5. FiberInv(k)'
    <2>1. /\ PerPosix' = PerPosix /\ ThreadsOf(k)' = ThreadsOf(k)
          /\ n_fibers'[k] = 1 /\ finished' = finished
      BY <1>2, <1>4, SteadySame
    <2>2. state'[k] = s /\ active'[k] = a
      BY <1>1, <1>2 DEF CallerInv
    <2>3. CASE s = "func"
      BY <1>1, <2>1, <2>2, <2>3 DEF FiberInv
    <2>4. CASE s = "spawn"
      <3>1. PerPosix \in Nat \ {0} /\ PerPosix # 1 /\ a = 0 .. 0
        BY <1>1, <1>2, <2>4, SteadyNumbers, StartNumbers
      <3>2. /\ state'[k] = "spawn" /\ PerPosix' > 1 /\ n_fibers'[k] \in 1 .. PerPosix'
            /\ active'[k] = 0 .. n_fibers'[k] - 1
            /\ ThreadsOf(k)' \intersect finished' = {}
        BY <1>4, <2>1, <2>2, <2>4, <3>1
      <3> QED
        BY <3>2 DEF FiberInv
    <2> QED
      BY <1>1, <2>3, <2>4
  <1>6. s \notin {"none", "leave", "gone"}
    BY <1>1
  <1> QED
    BY <1>1, <1>2, <1>3, <1>5, <1>6, FiberStep

LEMMA SpawnKeeps ==
    ASSUME JoinInv, Started, NEW k \in Posix, Program!SpawnFiber(k)
    PROVE  JoinInv'
  <1>1. PICK n : n = n_fibers[k]
    OBVIOUS
  <1>2. /\ CallerInv /\ Steady /\ state[k] = "spawn" /\ n < PerPosix
        /\ n_fibers' = [n_fibers EXCEPT ![k] = n + 1]
        /\ active' = [active EXCEPT ![k] = active[k] \union {n}]
        /\ UNCHANGED <<state, caller, created, strayed, late, bar_arrive, bar_leave, finished>>
    BY <1>1 DEF JoinInv, CallerInv, Steady, Program!SpawnFiber, Program!programVars,
           Program!callerVars, Program!barVars, Program!lateVars, PerPosix
  <1>3. /\ PerPosix > 1 /\ n \in 1 .. PerPosix /\ active[k] = 0 .. n - 1
        /\ ThreadsOf(k) \intersect finished = {}
    BY <1>1, <1>2 DEF JoinInv, FibersInv, FiberInv
  <1>4. PICK p \in Nat : p = PerPosix
    BY <1>2, SteadyNumbers, StartNumbers
  <1>5. n \in Nat /\ n >= 1 /\ n + 1 <= p /\ p > 1
    BY <1>2, <1>3, <1>4
  <1>6. active[k] \union {n} = 0 .. n
    <2>1. \A i : i \in 0 .. n <=> i \in 0 .. n - 1 \/ i = n
      BY <1>5
    <2> QED
      BY <1>3, <2>1
  <1>7. /\ active' = [active EXCEPT ![k] = 0 .. n] /\ 0 .. n \in SUBSET Nat
        /\ n_fibers' = [n_fibers EXCEPT ![k] = n + 1] /\ n + 1 \in Nat
        /\ state' = [state EXCEPT ![k] = "spawn"] /\ "spawn" \in States
        /\ finished' \subseteq Threads
    <2>1. state = [state EXCEPT ![k] = state[k]] /\ finished \subseteq Threads
      BY <1>2, Unchanging
    <2>2. "spawn" \in States
      BY DEF States
    <2>3. 0 .. n \in SUBSET Nat /\ n + 1 \in Nat
      BY <1>5
    <2> QED
      BY <1>2, <1>6, <2>1, <2>2, <2>3
  <1>8. FiberInv(k)'
    <2>1. /\ PerPosix' = p /\ ThreadsOf(k)' = ThreadsOf(k) /\ finished' = finished
      BY <1>2, <1>4, SteadySame
    <2>2. state'[k] = "spawn" /\ n_fibers'[k] = n + 1 /\ active'[k] = 0 .. n
      BY <1>2, <1>7 DEF CallerInv
    <2>3. /\ n_fibers'[k] \in 1 .. PerPosix' /\ active'[k] = 0 .. n_fibers'[k] - 1
          /\ PerPosix' > 1 /\ ThreadsOf(k)' \intersect finished' = {}
      BY <1>3, <1>5, <2>1, <2>2
    <2> QED
      BY <2>2, <2>3 DEF FiberInv
  <1> QED
    BY <1>2, <1>7, <1>8, FiberStep

LEMMA EndSpawningKeeps ==
    ASSUME JoinInv, Started, NEW k \in Posix, Program!EndSpawning(k)
    PROVE  JoinInv'
  <1>1. PICK p : p = PerPosix
    OBVIOUS
  <1>2. /\ CallerInv /\ Steady /\ state[k] = "spawn" /\ n_fibers[k] = p
        /\ state' = [state EXCEPT ![k] = "func"]
        /\ UNCHANGED <<caller, created, strayed, late, bar_arrive, bar_leave, n_fibers,
                       active, finished>>
    BY <1>1 DEF JoinInv, CallerInv, Steady, Program!EndSpawning, Program!MoveTo,
           Program!programVars, Program!callerVars, Program!barVars, Program!lateVars,
           Program!fiberVars, PerPosix
  <1>3. p > 1 /\ active[k] = 0 .. p - 1 /\ p \in Nat
    <2>1. p > 1 /\ active[k] = 0 .. p - 1
      BY <1>1, <1>2 DEF JoinInv, FibersInv, FiberInv
    <2> QED
      BY <1>1, <1>2, <2>1, SteadyNumbers, StartNumbers
  <1>4. /\ n_fibers' = [n_fibers EXCEPT ![k] = n_fibers[k]] /\ n_fibers[k] \in Nat
        /\ active' = [active EXCEPT ![k] = active[k]] /\ active[k] \in SUBSET Nat
        /\ finished' \subseteq Threads /\ "func" \in States
    BY <1>2, Unchanging DEF States
  <1>5. FiberInv(k)'
    <2>1. /\ PerPosix' = p /\ ThreadsOf(k)' = ThreadsOf(k) /\ finished' = finished
          /\ \A t : Program!FiberOf(t)' = Program!FiberOf(t)
      BY <1>1, <1>2, SteadySame
    <2>2. state'[k] = "func" /\ n_fibers'[k] = p /\ active'[k] = 0 .. p - 1
      BY <1>2, <1>3 DEF CallerInv
    <2>3. Cardinality(0 .. p - 1) = p
      BY <1>3, FS_Interval
    <2>4. \A t \in ThreadsOf(k) : Program!FiberOf(t) \in 0 .. p - 1
      <3>1. \A t \in Threads : Program!FiberOf(t) \in 0 .. PerPosix - 1
        BY <1>2, SteadyNumbers, StartNumbers
      <3> QED
        BY <1>1, <3>1 DEF ThreadsOf
    <2>5. Fibers(k)'
      <3>1. active'[k] \subseteq 0 .. PerPosix' - 1 /\ 0 \in active'[k]
        BY <1>3, <2>1, <2>2
      <3>2. n_fibers'[k] = Cardinality(active'[k])
        BY <2>2, <2>3
      <3>3. \A t \in ThreadsOf(k)' \ finished' : Program!FiberOf(t)' \in active'[k]
        BY <2>1, <2>2, <2>4
      <3> QED
        BY <3>1, <3>2, <3>3 DEF Fibers
    <2>6. PerPosix' # 1
      BY <1>3, <2>1
    <2> QED
      BY <2>2, <2>5, <2>6 DEF FiberInv
  <1> QED
    BY <1>2, <1>4, <1>5, FiberStep

(* The function of t returns. *)
LEMMA ReturnsFacts ==
    ASSUME JoinInv, Started, NEW t \in Threads, NEW k, k = Program!PosixOf(t),
           Program!FunctionReturns(t)
    PROVE  /\ k \in Posix /\ t \in ThreadsOf(k) /\ t \notin finished
           /\ CallerInv /\ Steady /\ state[k] \in {"func", "wait_fibers"}
           /\ finished' = finished \union {t} /\ finished' \subseteq Threads
           /\ \A u \in Threads : Program!PosixOf(u) # k => (u \in finished' <=> u \in finished)
           /\ UNCHANGED <<caller, created, strayed, late, bar_arrive, bar_leave>>
  <1>1. CallerInv /\ k \in Posix
    <2>1. CallerInv
      BY DEF JoinInv
    <2> QED
      BY <2>1, SteadyNumbers, StartNumbers
  <1>2. /\ Steady /\ state[k] \in {"func", "wait_fibers"} /\ t \notin finished
        /\ finished' = finished \union {t}
        /\ UNCHANGED <<caller, created, strayed, late, bar_arrive, bar_leave>>
    BY DEF Steady, Program!FunctionReturns, Program!IsRunning, Program!programVars,
           Program!callerVars, Program!barVars, Program!lateVars
  <1>3. finished' \subseteq Threads
    BY <1>1, <1>2 DEF CallerInv
  <1>4. t \in ThreadsOf(k)
    BY DEF ThreadsOf
  <1> QED
    BY <1>1, <1>2, <1>3, <1>4

LEMMA PosixReturnsKeeps ==
    ASSUME JoinInv, Started, NEW t \in Threads, Program!PosixReturns(t)
    PROVE  JoinInv'
  <1>1. PICK k : k = Program!PosixOf(t)
    OBVIOUS
  <1>2. PICK p : p = PerPosix
    OBVIOUS
  <1>3. /\ k \in Posix /\ t \in ThreadsOf(k) /\ t \notin finished
        /\ CallerInv /\ Steady /\ state[k] \in {"func", "wait_fibers"}
        /\ finished' = finished \union {t} /\ finished' \subseteq Threads
        /\ \A u \in Threads : Program!PosixOf(u) # k => (u \in finished' <=> u \in finished)
        /\ UNCHANGED <<caller, created, strayed, late, bar_arrive, bar_leave>>
    BY <1>1, ReturnsFacts DEF Program!PosixReturns
  <1>4. PICK s : s = IF p = 1 THEN "arrive" ELSE "wait_fibers"
    OBVIOUS
  <1>5. /\ Program!FiberOf(t) = 0 /\ state[k] # s /\ state' = [state EXCEPT ![k] = s]
        /\ UNCHANGED <<n_fibers, active>>
    BY <1>1, <1>2, <1>4 DEF Program!PosixReturns, Program!MoveTo, Program!fiberVars, PerPosix
  <1>6. /\ n_fibers' = [n_fibers EXCEPT ![k] = n_fibers[k]] /\ n_fibers[k] \in Nat
        /\ active' = [active EXCEPT ![k] = active[k]] /\ active[k] \in SUBSET Nat
        /\ s \in States /\ s \notin {"none", "leave", "gone"}
    BY <1>3, <1>4, <1>5, Unchanging DEF States
  <1>7. /\ p \in Nat \ {0}
        /\ \A u \in ThreadsOf(k) : Program!FiberOf(u) \in 0 .. p - 1
        /\ \A u \in ThreadsOf(k) : Program!FiberOf(u) = 0 => u = t
    <2>1. /\ PerPosix \in Nat \ {0}
          /\ \A u \in Threads : Program!FiberOf(u) \in 0 .. PerPosix - 1
          /\ \A u, v \in Threads :
                Program!PosixOf(u) = Program!PosixOf(v) /\ Program!FiberOf(u) = Program!FiberOf(v)
                   => u = v
      BY <1>3, SteadyNumbers, StartNumbers
    <2> QED
      BY <1>1, <1>2, <1>5, <2>1 DEF ThreadsOf
  <1>8. FiberInv(k)
    BY <1>3 DEF JoinInv, FibersInv
  <1>9. FiberInv(k)'
    <2>1. /\ PerPosix' = p /\ ThreadsOf(k)' = ThreadsOf(k)
          /\ \A u : Program!FiberOf(u)' = Program!FiberOf(u)
      BY <1>2, <1>3, SteadySame
    <2>2. state'[k] = s /\ n_fibers'[k] = n_fibers[k] /\ active'[k] = active[k]
      BY <1>3, <1>5 DEF CallerInv
    <2>3. CASE p = 1
      <3>1. \A u \in ThreadsOf(k) : u = t
        BY <1>7, <2>3
      <3>2. s = "arrive" /\ ThreadsOf(k)' \subseteq finished'
        BY <1>3, <1>4, <2>1, <2>3, <3>1
      <3>3. n_fibers[k] = 1
        BY <1>2, <1>3, <1>8, <2>3 DEF FiberInv
      <3> QED
        BY <2>2, <3>2, <3>3 DEF FiberInv
    <2>4. CASE p # 1
      <3>1. s = "wait_fibers" /\ state[k] = "func"
        BY <1>3, <1>4, <1>5, <2>4
      <3>2. Fibers(k)
        BY <1>2, <1>8, <2>4, <3>1 DEF FiberInv
      <3>3. Fibers(k)'
        BY <1>2, <1>3, <2>1, <2>2, <3>2 DEF Fibers
      <3>4. \A u \in ThreadsOf(k)' : Program!FiberOf(u)' = 0 => u \in finished'
        BY <1>3, <1>7, <2>1
      <3>5. PerPosix' > 1
        BY <1>7, <2>1, <2>4
      <3> QED
        BY <2>2, <3>1, <3>3, <3>4, <3>5 DEF FiberInv
    <2> QED
      BY <2>3, <2>4
  <1> QED
    BY <1>3, <1>5, <1>6, <1>9, FiberStep

LEMMA FiberReturnsKeeps ==
    ASSUME JoinInv, Started, NEW t \in Threads, Program!FiberReturns(t)
    PROVE  JoinInv'
  <1>1. PICK k : k = Program!PosixOf(t)
    OBVIOUS
  <1>2. PICK p : p = PerPosix
    OBVIOUS
  <1>3. PICK f : f = Program!FiberOf(t)
    OBVIOUS
  <1>4. /\ k \in Posix /\ t \in ThreadsOf(k) /\ t \notin finished
        /\ CallerInv /\ Steady /\ state[k] \in {"func", "wait_fibers"}
        /\ finished' = finished \union {t} /\ finished' \subseteq Threads
        /\ \A u \in Threads : Program!PosixOf(u) # k => (u \in finished' <=> u \in finished)
        /\ UNCHANGED <<caller, created, strayed, late, bar_arrive, bar_leave>>
    BY <1>1, ReturnsFacts DEF Program!FiberReturns
  <1>5. PICK n, a : n = n_fibers[k] /\ a = active[k]
    OBVIOUS
  <1>6. /\ f # 0 /\ state' = state
        /\ n_fibers' = [n_fibers EXCEPT ![k] = n - 1]
        /\ active' = [active EXCEPT ![k] = a \ {f}]
    BY <1>1, <1>3, <1>5 DEF Program!FiberReturns
  <1>7. /\ p \in Nat \ {0} /\ f \in 0 .. p - 1
        /\ \A u \in ThreadsOf(k) : Program!FiberOf(u) = f => u = t
    <2>1. /\ PerPosix \in Nat \ {0}
          /\ \A u \in Threads : Program!FiberOf(u) \in 0 .. PerPosix - 1
          /\ \A u, v \in Threads :
                Program!PosixOf(u) = Program!PosixOf(v) /\ Program!FiberOf(u) = Program!FiberOf(v)
                   => u = v
      BY <1>4, SteadyNumbers, StartNumbers
    <2> QED
      BY <1>1, <1>2, <1>3, <2>1 DEF ThreadsOf
  <1>8. p > 1
    BY <1>6, <1>7
  <1>9. FiberInv(k)
    BY <1>4 DEF JoinInv, FibersInv
  <1>10. Fibers(k)
    BY <1>2, <1>4, <1>8, <1>9 DEF FiberInv
  <1>11. /\ a \subseteq 0 .. p - 1 /\ 0 \in a /\ n = Cardinality(a) /\ f \in a
         /\ \A u \in ThreadsOf(k) \ finished : Program!FiberOf(u) \in a
    BY <1>2, <1>3, <1>4, <1>5, <1>10 DEF Fibers
  <1>12. /\ IsFiniteSet(a) /\ n \in Nat /\ n - 1 \in Nat /\ Cardinality(a \ {f}) = n - 1
    <2>1. IsFiniteSet(0 .. p - 1)
      BY <1>7, FS_Interval
    <2>2. IsFiniteSet(a)
      BY <1>11, <2>1, FS_Subset
    <2>3. IsFiniteSet(a \ {f}) /\ Cardinality(a \ {f}) = Cardinality(a) - 1
      BY <1>11, <2>2, FS_RemoveElement
    <2>4. Cardinality(a) \in Nat /\ Cardinality(a \ {f}) \in Nat
      BY <2>2, <2>3, FS_CardinalityType
    <2> QED
      BY <1>11, <2>2, <2>3, <2>4
  <1>13. /\ a \ {f} \in SUBSET Nat
         /\ state' = [state EXCEPT ![k] = state[k]] /\ state[k] \in States
         /\ state[k] \notin {"none", "leave", "gone"}
    BY <1>4, <1>6, <1>7, <1>11, Unchanging
  <1>14. FiberInv(k)'
    <2>1. /\ PerPosix' = p /\ ThreadsOf(k)' = ThreadsOf(k)
          /\ \A u : Program!FiberOf(u)' = Program!FiberOf(u)
      BY <1>2, <1>4, SteadySame
    <2>2. state'[k] = state[k] /\ n_fibers'[k] = n - 1 /\ active'[k] = a \ {f}
      BY <1>4, <1>6 DEF CallerInv
    <2>3. \A u \in ThreadsOf(k)' \ finished' : Program!FiberOf(u)' \in active'[k]
      <3> SUFFICES ASSUME NEW u \in ThreadsOf(k), u \notin finished, u # t
                   PROVE  Program!FiberOf(u) \in a \ {f}
        BY <1>4, <2>1, <2>2
      <3> QED
        BY <1>7, <1>11
    <2>4. Fibers(k)'
      <3>1. active'[k] \subseteq 0 .. PerPosix' - 1 /\ 0 \in active'[k]
        BY <1>6, <1>11, <2>1, <2>2
      <3>2. n_fibers'[k] = Cardinality(active'[k])
        BY <1>12, <2>2
      <3> QED
        BY <2>3, <3>1, <3>2 DEF Fibers
    <2>5. state[k] = "wait_fibers" =>
              \A u \in ThreadsOf(k)' : Program!FiberOf(u)' = 0 => u \in finished'
      BY <1>4, <1>9, <2>1 DEF FiberInv
    <2>6. PerPosix' > 1 /\ PerPosix' # 1
      BY <1>8, <2>1
    <2> QED
      BY <1>4, <2>2, <2>4, <2>5, <2>6 DEF FiberInv
  <1> QED
    BY <1>4, <1>6, <1>12, <1>13, <1>14, FiberStep

LEMMA WaitKeeps ==
    ASSUME JoinInv, Started, NEW k \in Posix, Program!WaitForFibers(k)
    PROVE  JoinInv'
  <1>1. /\ CallerInv /\ Steady /\ state[k] = "wait_fibers" /\ FiberInv(k)
        /\ UNCHANGED <<plan, starts, caller, created, strayed, late, bar_arrive, bar_leave,
                       n_fibers, active, finished>>
        /\ state' = state \/ (n_fibers[k] <= 1 /\ state' = [state EXCEPT ![k] = "arrive"])
    <2>1. CallerInv /\ FiberInv(k) /\ n_fibers[k] \in Nat
      BY DEF JoinInv, FibersInv, CallerInv
    <2>2. /\ Steady /\ state[k] = "wait_fibers"
          /\ UNCHANGED <<plan, starts, caller, created, strayed, late, bar_arrive, bar_leave,
                         n_fibers, active, finished>>
          /\ state' = state \/ (~(n_fibers[k] > 1) /\ state' = [state EXCEPT ![k] = "arrive"])
      BY DEF Steady, Program!WaitForFibers, Program!FiberYield, Program!MoveTo,
             Program!programVars, Program!callerVars, Program!barVars, Program!lateVars,
             Program!fiberVars
    <2>3. ~(n_fibers[k] > 1) => n_fibers[k] <= 1
      BY <2>1
    <2> QED
      BY <2>1, <2>2, <2>3
  <1>2. CASE state' = state
    BY <1>1, <1>2, NothingOfJoin
  <1>3. CASE n_fibers[k] <= 1 /\ state' = [state EXCEPT ![k] = "arrive"]
    <2>1. Fibers(k) /\ \A t \in ThreadsOf(k) : Program!FiberOf(t) = 0 => t \in finished
      BY <1>1 DEF FiberInv
    <2>2. PICK p, n, a : p = PerPosix /\ n = n_fibers[k] /\ a = active[k]
      OBVIOUS
    <2>3. /\ a \subseteq 0 .. p - 1 /\ 0 \in a /\ n = Cardinality(a) /\ n <= 1
          /\ p \in Nat \ {0}
      <3>1. PerPosix \in Nat \ {0}
        BY <1>1, SteadyNumbers, StartNumbers
      <3> QED
        BY <1>3, <2>1, <2>2, <3>1 DEF Fibers
    <2>4. IsFiniteSet(a)
      <3>1. IsFiniteSet(0 .. p - 1)
        BY <2>3, FS_Interval
      <3> QED
        BY <2>3, <3>1, FS_Subset
    <2>5. n = 1 /\ a = {0}
      <3>1. IsFiniteSet({0}) /\ Cardinality({0}) = 1
        BY FS_Singleton
      <3>2. /\ {0} \subseteq a /\ 1 <= Cardinality(a)
            /\ Cardinality(a) = 1 => a = {0}
        <4>1. {0} \subseteq a
          BY <2>3
        <4>2. /\ Cardinality({0}) <= Cardinality(a)
              /\ Cardinality(a) = Cardinality({0}) => a = {0}
          BY <2>4, <4>1, FS_Subset
        <4> QED
          BY <3>1, <4>1, <4>2
      <3>3. Cardinality(a) \in Nat
        BY <2>4, FS_CardinalityType
      <3> QED
        BY <2>3, <3>2, <3>3
    <2>6. ThreadsOf(k) \subseteq finished
      BY <2>1, <2>2, <2>5 DEF Fibers
    <2>7. FiberInv(k)'
      <3>1. ThreadsOf(k)' = ThreadsOf(k) /\ finished' = finished /\ n_fibers'[k] = 1
        BY <1>1, <2>2, <2>5, SteadySame
      <3>2. state'[k] = "arrive"
        BY <1>1, <1>3 DEF CallerInv
      <3> QED
        BY <2>6, <3>1, <3>2 DEF FiberInv
    <2>8. /\ n_fibers' = [n_fibers EXCEPT ![k] = n_fibers[k]] /\ n_fibers[k] \in Nat
          /\ active' = [active EXCEPT ![k] = active[k]] /\ active[k] \in SUBSET Nat
          /\ finished' \subseteq Threads /\ "arrive" \in States
      BY <1>1, Unchanging DEF States
    <2> QED
      BY <1>1, <1>3, <2>7, <2>8, FiberStep
  <1> QED
    BY <1>1, <1>2, <1>3

(* The two decrements of bar. *)
LEMMA LeavesKeeps ==
    ASSUME JoinInv, Started, NEW k \in Posix,
           Program!LeaveArrive(k) \/ Program!LeaveLeave(k)
    PROVE  JoinInv'
  <1>1. PICK s : s = IF Program!LeaveArrive(k) THEN "leave" ELSE "gone"
    OBVIOUS
  <1>2. /\ CallerInv /\ StateInv /\ FibersInv /\ CountInv /\ Steady
        /\ state' = [state EXCEPT ![k] = s]
        /\ UNCHANGED <<caller, created, strayed, late, n_fibers, active, finished>>
        /\ \/ /\ state[k] = "arrive" /\ s = "leave"
              /\ bar_arrive' = bar_arrive - 1 /\ bar_leave' = bar_leave
           \/ /\ state[k] = "leave" /\ s = "gone"
              /\ bar_arrive' = bar_arrive /\ bar_leave' = bar_leave - 1
    BY <1>1 DEF JoinInv, Steady, Program!LeaveArrive, Program!LeaveLeave, Program!MoveTo,
           Program!programVars, Program!callerVars, Program!lateVars, Program!fiberVars
  <1>3. \A j \in Posix : state'[j] = IF j = k THEN s ELSE state[j]
    BY <1>2 DEF CallerInv
  <1>4. /\ bar_arrive \in Int /\ bar_leave \in Int /\ finished \subseteq Threads
        /\ strayed \in Nat /\ late \in 0 .. strayed
    BY <1>2 DEF CallerInv
  <1>5. CallerInv'
    <2>1. state' \in [Posix -> States] /\ n_fibers' \in [Posix -> Nat]
          /\ active' \in [Posix -> SUBSET Nat]
      BY <1>2 DEF CallerInv, States
    <2>2. bar_arrive' \in Int /\ bar_leave' \in Int /\ finished' \subseteq Threads
      BY <1>2, <1>4
    <2> QED
      BY <1>2, <2>1, <2>2, TypesKept
  <1>6. StateInv'
    <2>1. s # "none" /\ state[k] # "none" /\ state[k] # "gone"
      BY <1>2
    <2> QED
      BY <1>2, <2>1, StateKept
  <1>7. FibersInv'
    <2>1. FiberInv(k) /\ ThreadsOf(k)' = ThreadsOf(k) /\ s \in {"leave", "gone"}
      BY <1>2, SteadySame DEF FibersInv
    <2>2. ThreadsOf(k) \subseteq finished /\ n_fibers[k] = 1
      BY <1>2, <2>1 DEF FiberInv
    <2>3. /\ ThreadsOf(k)' \subseteq finished' /\ n_fibers'[k] = 1
          /\ state'[k] \in {"leave", "gone"}
      BY <1>2, <1>3, <2>1, <2>2
    <2>4. FiberInv(k)'
      BY <2>3 DEF FiberInv
    <2>5. \A j \in Posix \ {k} : /\ state'[j] = state[j] /\ n_fibers'[j] = n_fibers[j]
                                 /\ active'[j] = active[j]
      BY <1>2, <1>3
    <2> QED
      BY <1>2, <2>4, <2>5, OthersKept
  <1>8. CountInv'
    <2>1. PICK a, g : a = Arrived /\ g = Gone
      OBVIOUS
    <2>2. PICK b, h : b = Arrived' /\ h = Gone'
      OBVIOUS
    <2>3. IsFiniteSet(a) /\ Cardinality(a) \in Nat /\ IsFiniteSet(g) /\ Cardinality(g) \in Nat
      BY <1>2, <2>1, Counts
    <2>4. Started' /\ NPosix' = NPosix
      BY <1>2, SteadySame
    <2>5. /\ NPosix \in Nat
      <3>1. NPosix \in 1 .. NThreads /\ NThreads \in Nat
        BY <1>2, SteadyNumbers, StartNumbers
      <3> QED
        BY <3>1
    <2>6. a \subseteq b
      BY <1>2, <1>3, <2>1, <2>2 DEF Arrived
    <2>7. CASE s = "leave"
      <3>1. b = a \union {k} /\ k \notin a /\ h = g
        BY <1>2, <1>3, <2>1, <2>2, <2>7 DEF Arrived, Gone
      <3>2. Cardinality(b) = Cardinality(a) + 1
        BY <2>3, <3>1, FS_AddElement
      <3> QED
        BY <1>2, <1>4, <2>1, <2>2, <2>3, <2>4, <2>5, <2>6, <2>7, <3>1, <3>2 DEF CountInv
    <2>8. CASE s = "gone"
      <3>1. h = g \union {k} /\ k \notin g /\ b = a
        BY <1>2, <1>3, <2>1, <2>2, <2>8 DEF Arrived, Gone
      <3>2. Cardinality(h) = Cardinality(g) + 1
        BY <2>3, <3>1, FS_AddElement
      <3> QED
        BY <1>2, <1>4, <2>1, <2>2, <2>3, <2>4, <2>5, <2>6, <2>8, <3>1, <3>2 DEF CountInv
    <2> QED
      BY <1>2, <2>7, <2>8
  <1> QED
    BY <1>5, <1>6, <1>7, <1>8 DEF JoinInv

(* A late thread of an earlier start. *)
LEMMA LateLeaveKeeps ==
    ASSUME JoinInv, Program!LateLeave
    PROVE  JoinInv'
  <1>1. /\ CallerInv /\ strayed \in Nat /\ late \in 0 .. strayed
        /\ late > 0 /\ late' = late - 1
        /\ bar_leave' = bar_leave - 1 /\ bar_leave \in Int
        /\ UNCHANGED <<plan, starts, caller, created, state, n_fibers, active, finished,
                       bar_arrive, strayed>>
    BY DEF JoinInv, CallerInv, Program!LateLeave, Program!programVars, Program!callerVars,
           Program!fiberVars
  <1>2. CallerInv'
    <2>1. late' \in 0 .. strayed' /\ strayed' \in Nat /\ bar_leave' \in Int
      BY <1>1
    <2> QED
      BY <1>1, <2>1 DEF CallerInv, Started, Posix, Program!Posix, Threads, Program!Threads
  <1>3. StateInv'
    BY <1>1 DEF JoinInv, StateInv, Started, NPosix, PerPosix, Program!NPosix,
                Program!PerPosix, Posix, Program!Posix
  <1>4. FibersInv'
    <2> SUFFICES ASSUME Started, NEW k \in Posix PROVE FiberInv(k)'
      BY <1>1 DEF FibersInv, Started
    <2>1. FiberInv(k) /\ Steady
      BY <1>1 DEF JoinInv, FibersInv, Steady
    <2> QED
      BY <1>1, <2>1, FiberKept
  <1>5. CountInv'
    <2> SUFFICES ASSUME Started PROVE CountInv'
      BY <1>1 DEF CountInv, Started
    <2>1. Steady
      BY <1>1 DEF Steady
    <2>2. Started' /\ NPosix' = NPosix /\ NPosix \in Nat
      <3>1. NPosix \in 1 .. NThreads /\ NThreads \in Nat
        BY <1>1, <2>1, SteadyNumbers, StartNumbers
      <3> QED
        BY <2>1, <3>1, SteadySame
    <2>3. PICK a, g : a = Cardinality(Arrived) /\ g = Cardinality(Gone)
      OBVIOUS
    <2>4. a \in Nat /\ g \in Nat /\ Cardinality(Arrived)' = a /\ Cardinality(Gone)' = g
      <3>1. Arrived' = Arrived /\ Gone' = Gone
        BY <1>1 DEF Arrived, Gone, Posix, Program!Posix
      <3> QED
        BY <1>1, <2>3, <3>1, Counts
    <2> QED
      BY <1>1, <2>2, <2>3, <2>4 DEF JoinInv, CountInv
  <1> QED
    BY <1>2, <1>3, <1>4, <1>5 DEF JoinInv

LEMMA StartThreadsKeeps ==
    ASSUME JoinInv, Program!StartThreads
    PROVE  JoinInv'
  <1>1. PICK n, p, q, own : /\ n = NThreads /\ p = plan[starts + 1] /\ q = n \div p
                            /\ own = Program!CallersOwn
    OBVIOUS
  <1>2. PICK l : l = late'
    OBVIOUS
  <1>3. /\ caller \in {"out", "joined"} /\ starts < Len(plan) /\ starts' = starts + 1
        /\ caller' = "creating" /\ created' = 0 /\ finished' = {} /\ plan' = plan
        /\ bar_arrive' = q + 1 /\ bar_leave' = q + 1
        /\ state' = [k \in Posix |-> "none"]
        /\ n_fibers' = [k \in Posix |-> IF k = q - 1 /\ starts > 0 THEN n_fibers[own] ELSE 1]
        /\ active' = [k \in Posix |-> {}]
        /\ strayed' = l
    BY <1>1, <1>2 DEF Program!StartThreads, Program!Members, Program!programVars, Posix
  <1>4. CallerInv /\ StateInv /\ FibersInv
    BY DEF JoinInv
  <1>5. starts \in Nat /\ starts' \in 1 .. Len(plan) /\ plan \in Plans /\ Len(plan) \in Nat
    <2>1. plan \in Plans /\ Len(plan) \in Nat /\ starts \in 0 .. Len(plan)
      BY <1>4, BoundsAssumption DEF CallerInv, Program!StartsAssumption
    <2> QED
      BY <1>3, <2>1
  <1>6. l \in Nat
    <2>1. PICK c : c = {k \in Posix : state[k] = "leave"}
      OBVIOUS
    <2>2. late' = late + Cardinality(c)
      <3>1. late' = late + Program!Cardinality(c)
        BY <2>1 DEF Program!StartThreads, Posix
      <3>2. Program!Cardinality(c) = Cardinality(c)
        BY DEF Program!Cardinality, Cardinality
      <3> QED
        BY <3>1, <3>2
    <2>3. Cardinality(c) \in Nat
      <3>1. n \in Nat /\ Posix = 0 .. n - 1
        BY <1>1, BoundsAssumption DEF Program!StartsAssumption, Posix, Program!Posix
      <3>2. IsFiniteSet(0 .. n - 1)
        BY <3>1, FS_Interval
      <3>3. c \subseteq 0 .. n - 1
        BY <2>1, <3>1
      <3>4. IsFiniteSet(c)
        BY <3>2, <3>3, FS_Subset
      <3> QED
        BY <3>4, FS_CardinalityType
    <2> QED
      BY <1>2, <1>4, <2>2, <2>3 DEF CallerInv
  <1>7. /\ NPosix' = q /\ q \in Nat /\ q >= 1
    <2>1. PICK m : m = starts'
      OBVIOUS
    <2>2. /\ plan \in Seq(Nat \ {0}) /\ \A i \in 1 .. Len(plan) : NThreads % plan[i] = 0
          /\ n \in Nat \ {0}
      BY <1>1, <1>5, BoundsAssumption DEF Program!StartsAssumption
    <2>3. p = plan[m] /\ m \in 1 .. Len(plan)
      BY <1>1, <1>3, <1>5, <2>1
    <2>4. p \in Nat \ {0} /\ n % p = 0
      BY <1>1, <2>2, <2>3
    <2>5. n \div p \in 1 .. n
      BY <2>2, <2>4, Numbering
    <2>6. PerPosix' = p
      BY <1>1, <1>3 DEF PerPosix, Program!PerPosix
    <2>7. NPosix' = n \div p
      BY <1>1, <2>6 DEF NPosix, Program!NPosix, PerPosix
    <2> QED
      BY <1>1, <2>2, <2>5, <2>7
  <1>8. starts > 0 => own \in Posix /\ n_fibers[own] = 1
    <2> SUFFICES ASSUME starts > 0 PROVE own \in Posix /\ n_fibers[own] = 1
      OBVIOUS
    <2>1. Started /\ caller = "joined"
      BY <1>3, <1>4 DEF Started, CallerInv
    <2>2. own = NPosix - 1 /\ own \in Posix
      BY <1>1, <1>4, <2>1, SteadyNumbers, StartNumbers
    <2>3. state[own] = "gone"
      BY <1>4, <2>1, <2>2 DEF StateInv
    <2> QED
      BY <1>4, <2>1, <2>2, <2>3 DEF FibersInv, FiberInv
  <1>9. \A k \in Posix : n_fibers'[k] = 1 /\ state'[k] = "none"
    BY <1>3, <1>8
  <1>10. CallerInv'
    <2>1. n_fibers' \in [Posix -> Nat]
      <3>1. n_fibers' = [k \in Posix |-> 1]
        BY <1>3, <1>8
      <3> QED
        BY <3>1
    <2>2. /\ plan' \in Plans /\ starts' \in 0 .. Len(plan') /\ starts' > 0
          /\ bar_arrive' \in Int /\ bar_leave' \in Int
      BY <1>3, <1>5, <1>7
    <2>3. strayed' \in Nat /\ late' \in 0 .. strayed'
      BY <1>2, <1>3, <1>6
    <2>4. /\ state' \in [Posix -> {"none", "begin", "spawn", "func", "wait_fibers",
                                   "arrive", "leave", "gone"}]
          /\ active' \in [Posix -> SUBSET Nat] /\ finished' \subseteq Threads
      BY <1>3
    <2> QED
      BY <1>3, <2>1, <2>2, <2>3, <2>4 DEF CallerInv, Started, Posix, Program!Posix, Threads,
                                          Program!Threads
  <1>11. StateInv'
    <2>1. Posix' = Posix
      BY DEF Posix, Program!Posix
    <2> QED
      BY <1>3, <1>7, <1>9, <2>1 DEF StateInv
  <1>12. FibersInv'
    <2> SUFFICES ASSUME NEW k \in Posix PROVE FiberInv(k)'
      BY DEF FibersInv, Posix, Program!Posix
    <2>1. state'[k] = "none" /\ n_fibers'[k] = 1 /\ ThreadsOf(k)' \intersect finished' = {}
      BY <1>3, <1>9
    <2> QED
      BY <2>1 DEF FiberInv
  <1>13. CountInv'
    <2>1. Arrived' = {} /\ Gone' = {}
      BY <1>9 DEF Arrived, Gone, Posix, Program!Posix
    <2>2. Cardinality({}) = 0
      BY FS_EmptySet
    <2>3. Cardinality(Arrived)' = 0 /\ Cardinality(Gone)' = 0
      BY <2>1, <2>2
    <2>4. strayed' - late' = 0
      <3>1. strayed' = l /\ late' = l
        BY <1>2, <1>3
      <3> QED
        BY <1>6, <3>1
    <2> QED
      BY <1>3, <1>7, <2>3, <2>4 DEF CountInv
  <1> QED
    BY <1>10, <1>11, <1>12, <1>13 DEF JoinInv

LEMMA JoinInvNext ==
    ASSUME JoinInv, [PartsNext]_partsVars
    PROVE  JoinInv'
  <1>1. CASE UNCHANGED threadVars
    BY <1>1, NothingOfJoin DEF threadVars
  <1>2. CASE Program!Next
    <2>1. CASE Program!StartThreads
      BY <2>1, StartThreadsKeeps
    <2>2. CASE Program!CallerStep
      BY <2>2, CreateKeeps, RunOwnKeeps, JoinArriveKeeps, JoinLeaveKeeps, JoinKeeps
         DEF Program!CallerStep
    <2>3. CASE Program!LateLeave
      BY <2>3, LateLeaveKeeps
    <2>4. ASSUME Started, NEW k \in Posix, Program!PosixStep(k)
          PROVE  JoinInv'
      <3>1. CASE Program!Begin(k)
        BY <2>4, <3>1, BeginKeeps
      <3>2. CASE Program!SpawnFiber(k)
        BY <2>4, <3>2, SpawnKeeps
      <3>3. CASE Program!EndSpawning(k)
        BY <2>4, <3>3, EndSpawningKeeps
      <3>4. ASSUME NEW t \in Threads,
                   \/ Program!Meet(t) \/ Program!Resched(t)
                   \/ Program!PosixReturns(t) \/ Program!FiberReturns(t)
            PROVE  JoinInv'
        <4>1. CASE Program!Meet(t) \/ Program!Resched(t)
          <5>1. UNCHANGED <<plan, starts, caller, created, state, n_fibers, active,
                            finished, bar_arrive, bar_leave, strayed, late>>
            BY <4>1 DEF Program!Meet, Program!Resched, Program!FiberYield,
                        Program!programVars, Program!callerVars, Program!barVars,
                        Program!lateVars, Program!fiberVars
          <5> QED
            BY <5>1, NothingOfJoin
        <4>2. CASE Program!PosixReturns(t)
          BY <2>4, <4>2, PosixReturnsKeeps
        <4>3. CASE Program!FiberReturns(t)
          BY <2>4, <4>3, FiberReturnsKeeps
        <4> QED
          BY <3>4, <4>1, <4>2, <4>3
      <3>5. CASE Program!WaitForFibers(k)
        BY <2>4, <3>5, WaitKeeps
      <3>6. CASE Program!LeaveArrive(k) \/ Program!LeaveLeave(k)
        BY <2>4, <3>6, LeavesKeeps
      <3> QED
        BY <2>4, <3>1, <3>2, <3>3, <3>4, <3>5, <3>6 DEF Program!PosixStep, Threads
    <2> QED
      BY <1>2, <2>1, <2>2, <2>3, <2>4 DEF Program!Next, Posix, Started
  <1> QED
    BY <1>1, <1>2 DEF PartsNext, partsVars

LEMMA JoinInvInit ==
    ASSUME PartsInit
    PROVE  JoinInv
  <1>1. /\ plan \in Plans /\ starts = 0 /\ caller = "out" /\ created = 0
        /\ bar_arrive = 0 /\ bar_leave = 0 /\ state = [k \in Posix |-> "none"]
        /\ late = 0 /\ strayed = 0 /\ n_fibers = [k \in Posix |-> 1]
        /\ active = [k \in Posix |-> {}] /\ finished = {}
    BY DEF PartsInit, Program!Init, Posix
  <1>2. ~Started
    BY <1>1 DEF Started
  <1>3. starts \in 0 .. Len(plan)
    <2>1. Len(plan) \in Nat
      BY <1>1, BoundsAssumption DEF Program!StartsAssumption
    <2> QED
      BY <1>1, <2>1
  <1>4. CallerInv
    <2>1. n_fibers \in [Posix -> Nat] /\ active \in [Posix -> SUBSET Nat]
      BY <1>1
    <2>2. /\ plan \in Plans /\ starts \in 0 .. Len(plan) /\ created \in Nat
          /\ bar_arrive \in Int /\ bar_leave \in Int
      BY <1>1, <1>3
    <2>3. /\ caller \in {"out", "creating", "running", "join", "waiting", "joined"}
          /\ Started <=> caller # "out"
          /\ state \in [Posix -> {"none", "begin", "spawn", "func", "wait_fibers",
                                  "arrive", "leave", "gone"}]
          /\ finished \subseteq Threads
      BY <1>1, <1>2
    <2>4. strayed \in Nat /\ late \in 0 .. strayed
      BY <1>1
    <2> QED
      BY <2>1, <2>2, <2>3, <2>4 DEF CallerInv
  <1> QED
    BY <1>2, <1>4 DEF JoinInv, StateInv, FibersInv, CountInv

LEMMA JoinInvInvariant == PartsSpec => []JoinInv
  <1>1. PartsInit => JoinInv
    BY JoinInvInit
  <1>2. JoinInv /\ [PartsNext]_partsVars => JoinInv'
    BY JoinInvNext
  <1> QED
    BY <1>1, <1>2, PTL DEF PartsSpec

(* synchJoinThreadsN waits for the threads of its start, whatever the number *)
(* of threads, of fibers and of starts; it misses no more of its posix       *)
(* threads than there were late ones of earlier starts, so none if there     *)
(* were none (threadtools.c:43-59, 111-127, 172-177; barrier.c:41-50).       *)
THEOREM JoinWaitsForAll == PartsSpec => []JoinWaits
  <1>1. JoinInv => JoinWaits
    <2> SUFFICES ASSUME JoinInv, caller = "joined"
                 PROVE  Program!Cardinality(Program!Unfinished) <= strayed
      BY DEF JoinWaits, Program!JoinWaits
    <2>1. /\ CallerInv /\ StateInv /\ Started /\ strayed \in Nat
          /\ NPosix <= Cardinality(Arrived) + strayed
      BY DEF JoinInv, CallerInv, CountInv
    <2>2. PICK n, a, u : n = NPosix /\ a = Arrived /\ u = Program!Unfinished
      OBVIOUS
    <2>3. n \in Nat /\ \A k \in 0 .. n - 1 : k \in Posix
      <3>1. n \in 1 .. NThreads /\ NThreads \in Nat
        BY <2>1, <2>2, SteadyNumbers, StartNumbers
      <3> QED
        BY <3>1 DEF Posix, Program!Posix
    <2>4. a \subseteq 0 .. n - 1
      <3>1. \A k \in a : k \in 0 .. NThreads - 1 /\ k < n
        BY <2>1, <2>2 DEF Arrived, StateInv, Posix, Program!Posix
      <3>2. NThreads \in Nat
        BY <2>1, SteadyNumbers, StartNumbers
      <3> QED
        BY <2>3, <3>1, <3>2
    <2>5. u \subseteq (0 .. n - 1) \ a
      <3> SUFFICES ASSUME NEW k \in u PROVE k \in 0 .. n - 1 /\ k \notin a
        OBVIOUS
      <3>1. PICK t \in Threads : Program!PosixOf(t) = k /\ t \notin finished
        BY <2>2 DEF Program!Unfinished, Threads
      <3>2. k \in 0 .. n - 1 /\ k \in Posix
        BY <2>2, <2>3 DEF Program!Unfinished, NPosix
      <3>3. FiberInv(k) /\ t \in ThreadsOf(k)
        BY <2>1, <3>1, <3>2 DEF JoinInv, FibersInv, ThreadsOf
      <3> QED
        BY <2>2, <3>1, <3>2, <3>3 DEF FiberInv, Arrived
    <2>6. IsFiniteSet(0 .. n - 1) /\ Cardinality(0 .. n - 1) = n
      BY <2>3, FS_Interval
    <2>7. /\ IsFiniteSet((0 .. n - 1) \ a)
          /\ Cardinality((0 .. n - 1) \ a) = n - Cardinality((0 .. n - 1) \intersect a)
      BY <2>6, FS_Difference
    <2>8. (0 .. n - 1) \intersect a = a
      BY <2>4
    <2>9. Cardinality(u) <= Cardinality((0 .. n - 1) \ a) /\ Cardinality(u) \in Nat
      BY <2>5, <2>7, FS_Subset, FS_CardinalityType
    <2>10. Cardinality(a) \in Nat
      BY <2>1, <2>2, Counts
    <2>11. Cardinality(u) <= strayed
      BY <2>1, <2>2, <2>3, <2>7, <2>8, <2>9, <2>10
    <2>12. Program!Cardinality(u) = Cardinality(u)
      BY DEF Program!Cardinality, Cardinality
    <2> QED
      BY <2>2, <2>11, <2>12
  <1> QED
    BY <1>1, JoinInvInvariant, PTL

-----------------------------------------------------------------------------
(* The barrier at which the threads of a program meet, for every number of   *)
(* threads and of calls: none of them leaves a call early.                   *)

(* The barrier goes through four stages. *)

(* The threads the counters wait for. *)
Arriving == {t \in Program!Threads : pc[t] \in {"out", "wait_leave"}}
Leaving  == {t \in Program!Threads : pc[t] \in {"wait_arrive", "leave"}}

SameCalls == \A t, u \in Program!Threads : calls[t] = calls[u]

(* Threads arrive, while slow ones still leave the round before. *)
StageArrive ==
    /\ \A t \in Program!Threads : pc[t] \in {"out", "wait_leave", "wait_arrive"}
    /\ arrive = Cardinality(Arriving) /\ Arriving # {}
    /\ leave = NThreads
    /\ arrive_flag
    /\ (\E t \in Program!Threads : pc[t] = "wait_leave") => ~leave_flag
    /\ \A t, u \in Program!Threads :
          calls[t] - calls[u] = (IF pc[t] = "wait_arrive" THEN 1 ELSE 0)
                                - (IF pc[u] = "wait_arrive" THEN 1 ELSE 0)

(* The last one has arrived and opens the gate (lines 18-24). *)
StageOpenArrive ==
    /\ \E t \in Program!Threads :
          /\ pc[t] \in {"reset_arrive", "close_leave", "open_arrive"}
          /\ \A u \in Program!Threads : u # t => pc[u] = "wait_arrive"
          /\ pc[t] # "reset_arrive" => arrive = NThreads
          /\ pc[t] = "reset_arrive" => arrive = 0
          /\ pc[t] = "open_arrive" => leave_flag
    /\ leave = NThreads
    /\ arrive_flag
    /\ SameCalls

(* Threads pass the gate and leave. *)
StageLeave ==
    /\ \A t \in Program!Threads : pc[t] \in {"wait_arrive", "leave", "wait_leave"}
    /\ leave = Cardinality(Leaving) /\ Leaving # {}
    /\ arrive = NThreads
    /\ ~arrive_flag /\ leave_flag
    /\ SameCalls

(* The last one has left and opens the other gate (lines 31-37). *)
StageOpenLeave ==
    /\ \E t \in Program!Threads :
          /\ pc[t] \in {"reset_leave", "close_arrive", "open_leave"}
          /\ \A u \in Program!Threads : u # t => pc[u] = "wait_leave"
          /\ pc[t] # "reset_leave" => leave = NThreads
          /\ pc[t] = "reset_leave" => leave = 0
          /\ pc[t] = "open_leave" => arrive_flag
    /\ arrive = NThreads
    /\ leave_flag
    /\ SameCalls

Stages == StageArrive \/ StageOpenArrive \/ StageLeave \/ StageOpenLeave

BarrierInv == Program!Barrier!TypeOK /\ Stages

-----------------------------------------------------------------------------
(* Counting *)

(* What synchBarrierSet is told: how many threads there are. *)
MeetingSize ==
    /\ NThreads \in Nat \ {0}
    /\ IsFiniteSet(Program!Threads) /\ Cardinality(Program!Threads) = NThreads
    /\ Rounds * Program!MostStarts \in Nat

LEMMA MeetingHasSize == MeetingSize
  <1>1. NThreads \in Nat \ {0} /\ Rounds * Program!MostStarts \in Nat
    BY BoundsAssumption DEF Program!StartsAssumption, Program!Barrier!BoundsAssumption
  <1>2. IsFiniteSet(0 .. NThreads - 1) /\ Cardinality(0 .. NThreads - 1) = NThreads
    BY <1>1, FS_Interval
  <1> QED
    BY <1>1, <1>2 DEF MeetingSize, Program!Threads


(* Taking a thread out of those a counter waits for. *)
LEMMA OneFewer ==
    ASSUME MeetingSize, NEW D, D \subseteq Program!Threads, NEW t \in D
    PROVE  /\ Cardinality(D) \in 1 .. NThreads
           /\ Cardinality(D \ {t}) = Cardinality(D) - 1
           /\ Program!Barrier!IsLast(Cardinality(D)) <=> D \ {t} = {}
  <1>1. IsFiniteSet(D) /\ Cardinality(D) <= NThreads
    BY FS_Subset DEF MeetingSize
  <1>2. /\ IsFiniteSet(D \ {t}) /\ Cardinality(D) \in Nat
        /\ Cardinality(D \ {t}) = Cardinality(D) - 1
    BY <1>1, FS_RemoveElement, FS_CardinalityType
  <1>3. Cardinality(D \ {t}) \in Nat
    BY <1>2, FS_CardinalityType
  <1>4. Cardinality(D \ {t}) = 0 <=> D \ {t} = {}
    BY <1>2, FS_EmptySet
  <1> QED
    BY <1>1, <1>2, <1>3, <1>4 DEF Program!Barrier!IsLast, MeetingSize

(* A whole round begins with all threads. *)
LEMMA AllThreads ==
    ASSUME MeetingSize, NEW D, \A t \in Program!Threads : t \in D, D \subseteq Program!Threads
    PROVE  Cardinality(D) = NThreads /\ D # {}
  <1>1. D = Program!Threads
    OBVIOUS
  <1>2. Program!Threads # {}
    BY FS_EmptySet DEF MeetingSize
  <1> QED
    BY <1>1, <1>2 DEF MeetingSize

-----------------------------------------------------------------------------
(* The steps, one stage after the other                                      *)

LEMMA InitStage == MeetingSize /\ Program!Barrier!Init => BarrierInv
  <1> SUFFICES ASSUME MeetingSize, Program!Barrier!Init
               PROVE  BarrierInv
    OBVIOUS
  <1>1. \A t \in Program!Threads : t \in Arriving
    BY DEF Program!Barrier!Init, Arriving
  <1>2. Cardinality(Arriving) = NThreads /\ Arriving # {}
    BY <1>1, AllThreads DEF Arriving
  <1>3. StageArrive
    BY <1>2 DEF Program!Barrier!Init, StageArrive
  <1>4. Program!Barrier!TypeOK
    BY DEF Program!Barrier!Init, Program!Barrier!TypeOK, Program!Barrier!Labels,
           MeetingSize
  <1> QED
    BY <1>3, <1>4 DEF BarrierInv, Stages

(* Line 15: the last one that arrives finds 1 in the counter. *)
LEMMA ArriveStep ==
    ASSUME MeetingSize, BarrierInv, NEW t \in Program!Threads, Program!Barrier!Arrive(t)
    PROVE  BarrierInv'
  <1> USE DEF BarrierInv, Program!Barrier!TypeOK, Program!Barrier!Labels
  <1>1. StageArrive
    BY DEF Program!Barrier!Arrive, Stages, StageOpenArrive, StageLeave, StageOpenLeave
  <1>2. t \in Arriving /\ Arriving \subseteq Program!Threads
    BY DEF Program!Barrier!Arrive, Arriving
  <1>3. /\ arrive \in 1 .. NThreads
        /\ arrive' = Cardinality(Arriving \ {t})
        /\ Program!Barrier!IsLast(arrive) <=> Arriving \ {t} = {}
    BY <1>1, <1>2, OneFewer DEF Program!Barrier!Arrive, StageArrive
  <1>4. Arriving' = Arriving \ {t}
    BY DEF Program!Barrier!Arrive, Program!Barrier!Goto, Arriving
  <1>5. calls' = [calls EXCEPT ![t] = calls[t] + 1]
    BY DEF Program!Barrier!Arrive
  <1>6. Program!Barrier!TypeOK'
    BY <1>3, <1>5
       DEF Program!Barrier!Arrive, Program!Barrier!Goto, Program!Barrier!flagVars,
           MeetingSize
  <1>7. CASE Program!Barrier!IsLast(arrive)
    <2>1. \A u \in Program!Threads : u # t => pc[u] = "wait_arrive"
      BY <1>1, <1>3, <1>7 DEF StageArrive, Arriving
    <2>2. \A u \in Program!Threads : u # t => calls[u] = calls[t] + 1
      <3> SUFFICES ASSUME NEW u \in Program!Threads, u # t
                   PROVE  calls[u] = calls[t] + 1
        OBVIOUS
      <3>1. calls[u] - calls[t] = 1
        BY <1>1, <2>1 DEF StageArrive, Program!Barrier!Arrive
      <3> QED
        BY <3>1
    <2>3. SameCalls'
      BY <1>5, <2>2 DEF SameCalls
    <2>4. arrive' = 0
      BY <1>3, <1>7, FS_EmptySet
    <2>5. /\ pc'[t] = "reset_arrive"
          /\ \A u \in Program!Threads : u # t => pc'[u] = "wait_arrive"
      BY <1>7, <2>1 DEF Program!Barrier!Arrive, Program!Barrier!Goto
    <2>6. StageOpenArrive'
      BY <1>1, <2>3, <2>4, <2>5
         DEF StageOpenArrive, StageArrive, Program!Barrier!Arrive,
             Program!Barrier!flagVars
    <2> QED
      BY <1>6, <2>6 DEF Stages
  <1>8. CASE ~Program!Barrier!IsLast(arrive)
    <2>1. /\ pc'[t] = "wait_arrive" /\ pc[t] = "out"
          /\ \A u \in Program!Threads : u # t => pc'[u] = pc[u]
      BY <1>8 DEF Program!Barrier!Arrive, Program!Barrier!Goto
    <2>2. \A u \in Program!Threads : calls'[u] = IF u = t THEN calls[t] + 1 ELSE calls[u]
      BY <1>5
    <2>3. \A u, v \in Program!Threads :
             calls'[u] - calls'[v] = (IF pc'[u] = "wait_arrive" THEN 1 ELSE 0)
                                     - (IF pc'[v] = "wait_arrive" THEN 1 ELSE 0)
      <3> SUFFICES ASSUME NEW u \in Program!Threads, NEW v \in Program!Threads
                   PROVE  calls'[u] - calls'[v] =
                             (IF pc'[u] = "wait_arrive" THEN 1 ELSE 0)
                             - (IF pc'[v] = "wait_arrive" THEN 1 ELSE 0)
        OBVIOUS
      <3>1. calls[u] - calls[v] = (IF pc[u] = "wait_arrive" THEN 1 ELSE 0)
                                  - (IF pc[v] = "wait_arrive" THEN 1 ELSE 0)
        BY <1>1 DEF StageArrive
      <3> QED
        BY <2>1, <2>2, <3>1
    <2>4. StageArrive'
      BY <1>1, <1>3, <1>4, <1>8, <2>1, <2>3
         DEF StageArrive, Program!Barrier!Arrive, Program!Barrier!flagVars
    <2> QED
      BY <1>6, <2>4 DEF Stages
  <1> QED
    BY <1>7, <1>8

(* Lines 16-30: a thread passes a gate. *)
LEMMA GateSteps ==
    ASSUME MeetingSize, BarrierInv, NEW t \in Program!Threads,
           Program!Barrier!AwaitArrival(t) \/ Program!Barrier!AwaitLeaving(t)
    PROVE  BarrierInv'
  <1> USE DEF BarrierInv, Program!Barrier!TypeOK, Program!Barrier!Labels, Program!Barrier!Goto
  <1>1. Program!Barrier!TypeOK'
    BY DEF Program!Barrier!AwaitArrival, Program!Barrier!AwaitLeaving,
           Program!Barrier!flagVars, Program!Barrier!counterVars
  <1>2. CASE Program!Barrier!AwaitArrival(t)
    <2>1. StageLeave
      BY <1>2
         DEF Program!Barrier!AwaitArrival, Stages, StageArrive, StageOpenArrive,
             StageOpenLeave
    <2>2. Leaving' = Leaving
      BY <1>2 DEF Program!Barrier!AwaitArrival, Leaving
    <2>3. StageLeave'
      BY <1>2, <2>1, <2>2
         DEF Program!Barrier!AwaitArrival, StageLeave, SameCalls,
             Program!Barrier!flagVars, Program!Barrier!counterVars
    <2> QED
      BY <1>1, <2>3 DEF Stages
  <1>3. CASE Program!Barrier!AwaitLeaving(t)
    <2>1. StageArrive
      BY <1>3
         DEF Program!Barrier!AwaitLeaving, Stages, StageOpenArrive, StageLeave,
             StageOpenLeave
    <2>2. Arriving' = Arriving
      BY <1>3 DEF Program!Barrier!AwaitLeaving, Arriving
    <2>3. StageArrive'
      <3>1. \A u \in Program!Threads : (pc'[u] = "wait_arrive") <=> (pc[u] = "wait_arrive")
        BY <1>3 DEF Program!Barrier!AwaitLeaving
      <3> QED
        BY <1>3, <2>1, <2>2, <3>1
           DEF Program!Barrier!AwaitLeaving, StageArrive, Program!Barrier!flagVars,
               Program!Barrier!counterVars
    <2> QED
      BY <1>1, <2>3 DEF Stages
  <1> QED
    BY <1>2, <1>3

(* Lines 19-23: the gate of those who have arrived opens. *)
LEMMA OpenArriveSteps ==
    ASSUME MeetingSize, BarrierInv, NEW t \in Program!Threads,
           Program!Barrier!ResetArrive(t) \/ Program!Barrier!CloseLeave(t)
              \/ Program!Barrier!OpenArrive(t)
    PROVE  BarrierInv'
  <1> USE DEF BarrierInv, Program!Barrier!TypeOK, Program!Barrier!Labels, Program!Barrier!Goto
  <1>1. Program!Barrier!TypeOK'
    <2>1. CASE Program!Barrier!ResetArrive(t)
      BY <2>1
         DEF Program!Barrier!ResetArrive, Program!Barrier!Restored,
             Program!Barrier!flagVars, MeetingSize
    <2>2. CASE Program!Barrier!CloseLeave(t)
      BY <2>2 DEF Program!Barrier!CloseLeave, Program!Barrier!counterVars
    <2>3. CASE Program!Barrier!OpenArrive(t)
      BY <2>3 DEF Program!Barrier!OpenArrive, Program!Barrier!counterVars
    <2> QED
      BY <2>1, <2>2, <2>3
  <1>2. StageOpenArrive
    BY DEF Program!Barrier!ResetArrive, Program!Barrier!CloseLeave,
           Program!Barrier!OpenArrive, Stages, StageArrive, StageLeave, StageOpenLeave
  <1>3. /\ \A u \in Program!Threads : u # t => pc[u] = "wait_arrive"
        /\ pc[t] # "reset_arrive" => arrive = NThreads
        /\ pc[t] = "open_arrive" => leave_flag
    BY <1>2
       DEF Program!Barrier!ResetArrive, Program!Barrier!CloseLeave,
           Program!Barrier!OpenArrive, StageOpenArrive
  <1>4. CASE Program!Barrier!ResetArrive(t) \/ Program!Barrier!CloseLeave(t)
    <2>1. StageOpenArrive'
      <3>1. CASE Program!Barrier!ResetArrive(t)
        BY <1>2, <1>3, <3>1
           DEF Program!Barrier!ResetArrive, StageOpenArrive, SameCalls,
               Program!Barrier!Restored, Program!Barrier!flagVars
      <3>2. CASE Program!Barrier!CloseLeave(t)
        BY <1>2, <1>3, <3>2
           DEF Program!Barrier!CloseLeave, StageOpenArrive, SameCalls,
               Program!Barrier!counterVars
      <3> QED
        BY <1>4, <3>1, <3>2
    <2> QED
      BY <1>1, <2>1 DEF Stages
  <1>5. CASE Program!Barrier!OpenArrive(t)
    <2>1. /\ \A u \in Program!Threads : pc'[u] \in {"wait_arrive", "leave"}
          /\ leave' = NThreads /\ arrive' = NThreads /\ ~arrive_flag' /\ leave_flag'
          /\ SameCalls'
      BY <1>2, <1>3, <1>5
         DEF Program!Barrier!OpenArrive, StageOpenArrive, SameCalls,
             Program!Barrier!flagVars, Program!Barrier!counterVars
    <2>2. \A u \in Program!Threads : u \in Leaving'
      BY <2>1 DEF Leaving
    <2>3. Cardinality(Leaving') = NThreads /\ Leaving' # {}
      BY <2>2, AllThreads DEF Leaving
    <2> QED
      BY <1>1, <2>1, <2>3 DEF StageLeave, Stages
  <1> QED
    BY <1>4, <1>5

(* Line 28: the last one that leaves finds 1 in the counter. *)
LEMMA LeaveStep ==
    ASSUME MeetingSize, BarrierInv, NEW t \in Program!Threads, Program!Barrier!Leave(t)
    PROVE  BarrierInv'
  <1> USE DEF BarrierInv, Program!Barrier!TypeOK, Program!Barrier!Labels
  <1>1. StageLeave
    BY DEF Program!Barrier!Leave, Stages, StageArrive, StageOpenArrive, StageOpenLeave
  <1>2. t \in Leaving /\ Leaving \subseteq Program!Threads
    BY DEF Program!Barrier!Leave, Leaving
  <1>3. /\ leave \in 1 .. NThreads
        /\ leave' = Cardinality(Leaving \ {t})
        /\ Program!Barrier!IsLast(leave) <=> Leaving \ {t} = {}
    BY <1>1, <1>2, OneFewer DEF Program!Barrier!Leave, StageLeave
  <1>4. Leaving' = Leaving \ {t}
    BY DEF Program!Barrier!Leave, Program!Barrier!Goto, Leaving
  <1>5. Program!Barrier!TypeOK'
    BY <1>3
       DEF Program!Barrier!Leave, Program!Barrier!Goto, Program!Barrier!flagVars,
           MeetingSize
  <1>6. CASE Program!Barrier!IsLast(leave)
    <2>1. \A u \in Program!Threads : u # t => pc[u] = "wait_leave"
      BY <1>1, <1>3, <1>6 DEF StageLeave, Leaving
    <2>2. leave' = 0
      BY <1>3, <1>6, FS_EmptySet
    <2>3. StageOpenLeave'
      BY <1>1, <1>6, <2>1, <2>2
         DEF StageOpenLeave, StageLeave, Program!Barrier!Leave, Program!Barrier!Goto,
             SameCalls, Program!Barrier!flagVars
    <2> QED
      BY <1>5, <2>3 DEF Stages
  <1>7. CASE ~Program!Barrier!IsLast(leave)
    <2>1. StageLeave'
      BY <1>1, <1>3, <1>4, <1>7
         DEF StageLeave, Program!Barrier!Leave, Program!Barrier!Goto, SameCalls,
             Program!Barrier!flagVars
    <2> QED
      BY <1>5, <2>1 DEF Stages
  <1> QED
    BY <1>6, <1>7

(* Lines 32-36: the gate of those who leave opens. *)
LEMMA OpenLeaveSteps ==
    ASSUME MeetingSize, BarrierInv, NEW t \in Program!Threads,
           Program!Barrier!ResetLeave(t) \/ Program!Barrier!CloseArrive(t)
              \/ Program!Barrier!OpenLeave(t)
    PROVE  BarrierInv'
  <1> USE DEF BarrierInv, Program!Barrier!TypeOK, Program!Barrier!Labels, Program!Barrier!Goto
  <1>1. Program!Barrier!TypeOK'
    <2>1. CASE Program!Barrier!ResetLeave(t)
      BY <2>1
         DEF Program!Barrier!ResetLeave, Program!Barrier!Restored,
             Program!Barrier!flagVars, MeetingSize
    <2>2. CASE Program!Barrier!CloseArrive(t)
      BY <2>2 DEF Program!Barrier!CloseArrive, Program!Barrier!counterVars
    <2>3. CASE Program!Barrier!OpenLeave(t)
      BY <2>3 DEF Program!Barrier!OpenLeave, Program!Barrier!counterVars
    <2> QED
      BY <2>1, <2>2, <2>3
  <1>2. StageOpenLeave
    BY DEF Program!Barrier!ResetLeave, Program!Barrier!CloseArrive,
           Program!Barrier!OpenLeave, Stages, StageArrive, StageLeave, StageOpenArrive
  <1>3. /\ \A u \in Program!Threads : u # t => pc[u] = "wait_leave"
        /\ pc[t] # "reset_leave" => leave = NThreads
        /\ pc[t] = "open_leave" => arrive_flag
    BY <1>2
       DEF Program!Barrier!ResetLeave, Program!Barrier!CloseArrive,
           Program!Barrier!OpenLeave, StageOpenLeave
  <1>4. CASE Program!Barrier!ResetLeave(t) \/ Program!Barrier!CloseArrive(t)
    <2>1. StageOpenLeave'
      <3>1. CASE Program!Barrier!ResetLeave(t)
        BY <1>2, <1>3, <3>1
           DEF Program!Barrier!ResetLeave, StageOpenLeave, SameCalls,
               Program!Barrier!Restored, Program!Barrier!flagVars
      <3>2. CASE Program!Barrier!CloseArrive(t)
        BY <1>2, <1>3, <3>2
           DEF Program!Barrier!CloseArrive, StageOpenLeave, SameCalls,
               Program!Barrier!counterVars
      <3> QED
        BY <1>4, <3>1, <3>2
    <2> QED
      BY <1>1, <2>1 DEF Stages
  <1>5. CASE Program!Barrier!OpenLeave(t)
    <2>1. /\ \A u \in Program!Threads : pc'[u] \in {"out", "wait_leave"}
          /\ leave' = NThreads /\ arrive' = NThreads /\ arrive_flag' /\ ~leave_flag'
          /\ \A u, v \in Program!Threads : calls'[u] = calls'[v]
      BY <1>2, <1>3, <1>5
         DEF Program!Barrier!OpenLeave, StageOpenLeave, SameCalls,
             Program!Barrier!flagVars, Program!Barrier!counterVars
    <2>2. \A u \in Program!Threads : u \in Arriving'
      BY <2>1 DEF Arriving
    <2>3. Cardinality(Arriving') = NThreads /\ Arriving' # {}
      BY <2>2, AllThreads DEF Arriving
    <2>4. \A u, v \in Program!Threads : calls'[u] - calls'[v] = 0
      BY <1>1, <2>1
    <2> QED
      BY <1>1, <2>1, <2>3, <2>4 DEF StageArrive, Stages
  <1> QED
    BY <1>4, <1>5

LEMMA StageStep ==
    MeetingSize /\ BarrierInv /\ [Program!Barrier!Next]_Program!Barrier!vars => BarrierInv'
  <1> SUFFICES ASSUME MeetingSize, BarrierInv, [Program!Barrier!Next]_Program!Barrier!vars
               PROVE  BarrierInv'
    OBVIOUS
  <1>1. CASE UNCHANGED Program!Barrier!vars
    <2>1. Arriving' = Arriving /\ Leaving' = Leaving
      BY <1>1 DEF Program!Barrier!vars, Arriving, Leaving
    <2> QED
      BY <1>1, <2>1
         DEF Program!Barrier!vars, Program!Barrier!counterVars, Program!Barrier!flagVars,
             BarrierInv, Program!Barrier!TypeOK, Stages, StageArrive, StageOpenArrive,
             StageLeave, StageOpenLeave, SameCalls
  <1>2. CASE Program!Barrier!Next
    BY <1>2, ArriveStep, GateSteps, OpenArriveSteps, LeaveStep, OpenLeaveSteps
       DEF Program!Barrier!Next, Program!Barrier!Step
  <1> QED
    BY <1>1, <1>2

-----------------------------------------------------------------------------
(* The barrier *)

LEMMA BarrierKept == Program!Barrier!Spec => []BarrierInv
  <1>1. Program!Barrier!Init => BarrierInv
    BY InitStage, MeetingHasSize
  <1>2. BarrierInv /\ [Program!Barrier!Next]_Program!Barrier!vars => BarrierInv'
    BY StageStep, MeetingHasSize
  <1> QED
    BY <1>1, <1>2, PTL DEF Program!Barrier!Spec

(* The counters, the gates and the threads have their types: no counter is   *)
(* decremented below 0 (barrier.c:14-39).                                    *)
THEOREM BarrierTypes == Program!Barrier!Spec => []Program!Barrier!TypeOK
  <1>1. BarrierInv => Program!Barrier!TypeOK
    BY DEF BarrierInv
  <1> QED
    BY <1>1, BarrierKept, PTL

(* No call of synchBarrierWait returns before every thread has called it as  *)
(* often (barrier.c:14-39), for any number of threads and of rounds.         *)
THEOREM BarrierHolds == Program!Barrier!Spec => []Program!Barrier!NoneLeavesEarly
  <1>1. BarrierInv => Program!Barrier!NoneLeavesEarly
    <2> SUFFICES ASSUME BarrierInv, NEW t \in Program!Threads, NEW u \in Program!Threads
                 PROVE  Program!Barrier!Returns(t) <= calls[u]
      BY DEF Program!Barrier!NoneLeavesEarly
    <2>1. calls[t] \in Int /\ calls[u] \in Int
      BY DEF BarrierInv, Program!Barrier!TypeOK
    <2>2. CASE StageArrive
      <3>1. calls[t] - calls[u] = (IF pc[t] = "wait_arrive" THEN 1 ELSE 0)
                                  - (IF pc[u] = "wait_arrive" THEN 1 ELSE 0)
        BY <2>2 DEF StageArrive
      <3> QED
        BY <2>1, <3>1 DEF Program!Barrier!Returns
    <2>3. CASE SameCalls
      BY <2>1, <2>3 DEF SameCalls, Program!Barrier!Returns
    <2> QED
      BY <2>2, <2>3 DEF BarrierInv, Stages, StageOpenArrive, StageLeave, StageOpenLeave
  <1> QED
    BY <1>1, BarrierKept, PTL

-----------------------------------------------------------------------------
(* The barrier of the program: the library adds no call of its own to the    *)
(* barrier its threads meet at, and takes none away, whether the threads are *)
(* posix threads or fibers, so that what is proved of the barrier holds of   *)
(* the program.                                                              *)

(* Every step of the program is one of the barrier or leaves it alone.       *)
LEMMA MeetOrNot ==
    [Program!Next]_Program!vars =>
        [\E t \in Threads : \/ Program!Barrier!Arrive(t)
                            \/ Program!Barrier!Step(t)]_Program!meetingVars
  <1> SUFFICES ASSUME [Program!Next]_Program!vars
               PROVE  \/ \E t \in Threads : Program!Barrier!Arrive(t) \/ Program!Barrier!Step(t)
                      \/ UNCHANGED Program!meetingVars
    OBVIOUS
  <1>1. CASE UNCHANGED Program!vars
    BY <1>1 DEF Program!vars
  <1>2. CASE Program!StartThreads \/ Program!CallerStep \/ Program!LateLeave
    BY <1>2 DEF Program!StartThreads, Program!CallerStep, Program!Create, Program!RunOwn,
                Program!JoinArrive, Program!JoinLeave, Program!Join, Program!LateLeave
  <1>3. ASSUME NEW k \in Posix, Program!PosixStep(k)
        PROVE  \/ \E t \in Threads : Program!Barrier!Arrive(t) \/ Program!Barrier!Step(t)
               \/ UNCHANGED Program!meetingVars
    <2>1. CASE \/ Program!Begin(k) \/ Program!SpawnFiber(k) \/ Program!EndSpawning(k)
               \/ Program!WaitForFibers(k) \/ Program!LeaveArrive(k) \/ Program!LeaveLeave(k)
      BY <2>1 DEF Program!Begin, Program!SpawnFiber, Program!EndSpawning,
                  Program!WaitForFibers, Program!LeaveArrive, Program!LeaveLeave
    <2>2. ASSUME NEW t \in Threads,
                 Program!Resched(t) \/ Program!PosixReturns(t) \/ Program!FiberReturns(t)
          PROVE  UNCHANGED Program!meetingVars
      BY <2>2 DEF Program!Resched, Program!PosixReturns, Program!FiberReturns,
                  Program!FunctionReturns
    <2>3. ASSUME NEW t \in Threads, Program!Meet(t)
          PROVE  Program!Barrier!Arrive(t) \/ Program!Barrier!Step(t)
      BY <2>3 DEF Program!Meet
    <2> QED
      BY <1>3, <2>1, <2>2, <2>3 DEF Program!PosixStep, Threads
  <1> QED
    BY <1>1, <1>2, <1>3 DEF Program!Next, Posix

(* The program implements the barrier's specification                        *)
(* (threadtools.c:130-180, uthreads.c:39-113).                               *)
THEOREM UsesBarrier == PartsSpec => Program!Barrier!Spec
  <1>1. PartsInit => Program!Barrier!Init
    BY DEF PartsInit, Program!Init
  <1>2. [PartsNext]_partsVars => [Program!Barrier!Next]_Program!Barrier!vars
    <2>1. UNCHANGED Program!meetingVars => UNCHANGED Program!Barrier!vars
      BY DEF Program!meetingVars, Program!Barrier!vars, Program!Barrier!counterVars,
             Program!Barrier!flagVars
    <2>2. UNCHANGED threadVars => UNCHANGED Program!Barrier!vars
      BY DEF threadVars, Program!Barrier!vars, Program!Barrier!counterVars,
             Program!Barrier!flagVars
    <2>3. [Program!Next]_Program!vars => [Program!Barrier!Next]_Program!Barrier!vars
      BY <2>1, MeetOrNot DEF Program!Barrier!Next, Threads
    <2> QED
      BY <2>2, <2>3 DEF PartsNext, partsVars
  <1> QED
    BY <1>1, <1>2, PTL DEF PartsSpec, Program!Barrier!Spec

(* No thread, posix thread or fiber, passes synchBarrierWait before all have *)
(* called it as often (barrier.c:14-39).                                     *)
THEOREM ProgramMeets == PartsSpec => []NoneLeavesEarly
  <1>1. Program!Barrier!NoneLeavesEarly => NoneLeavesEarly
    BY DEF NoneLeavesEarly, Program!NoneLeavesEarly
  <1> QED
    BY <1>1, UsesBarrier, BarrierHolds, PTL
-----------------------------------------------------------------------------
(* The pool: every object is in one place                                    *)

Blocks  == Nodes!Blocks
Objects == Nodes!Objects
Counted == Nodes!Counted

Recycled == {recycle_list[i] : i \in 1 .. Len(recycle_list)}

PoolTypes ==
    /\ cur_entry \in [Blocks -> 0 .. Entries] /\ free_entries \in [Blocks -> 0 .. Entries]
    /\ \A b \in Blocks : cur_entry[b] + free_entries[b] = Entries
    /\ back \in [Blocks -> 0 .. MaxBlocks] /\ \A b \in Blocks : back[b] < b
    /\ cur_block \in Blocks \union {0}
    /\ usage \in {"recycle", "rollback"}
    /\ recycle_list \in Seq(Objects) /\ in_use \subseteq Objects /\ log \in Seq(Objects)

(* Blocks are got in the order of their numbers, and the entries of one that *)
(* has not been got are free.                                                *)
HeldInv ==
    cur_block # 0 =>
        /\ Cardinality(held) \in Nat /\ held = 1 .. Cardinality(held) /\ cur_block \in held
        /\ \A b \in Blocks : b \notin held => cur_entry[b] = 0

InPlaces ==
    /\ \A i, j \in 1 .. Len(recycle_list) : recycle_list[i] = recycle_list[j] => i = j
    /\ Recycled \intersect in_use = {}
    /\ Counted = in_use \union Recycled

(* What a user that does not cancel, or does not recycle, never changes.     *)
UsageInv ==
    /\ usage = "recycle" => log = <<>>
    /\ usage = "rollback" => recycle_list = <<>>
    /\ cur_block = 0 => log = <<>>

(* The blocks that the current one leads back to.  pos[b] objects have been  *)
(* allocated before those of block b, and not been cancelled.                *)
Chained == {b \in Blocks : cur_entry[b] > 0} \union {cur_block}

Links(pos) ==
    \A b \in Chained :
        /\ b <= cur_block
        /\ back[b] = 0 => pos[b] = 0
        /\ back[b] # 0 =>
              /\ back[b] \in Chained /\ cur_entry[back[b]] = Entries
              /\ pos[b] = pos[back[b]] + Entries
        /\ \A x \in Chained :
              x < b => back[b] # 0 /\ x <= back[b] /\ pos[x] + Entries <= pos[b]

Place(pos, o) == pos[o[1]] + o[2] + 1

Logged(pos) ==
    /\ Len(log) = pos[cur_block] + cur_entry[cur_block]
    /\ \A o \in Counted : Place(pos, o) \in 1 .. Len(log) /\ log[Place(pos, o)] = o
    /\ \A i \in 1 .. Len(log) : log[i] \in Counted /\ Place(pos, log[i]) = i

LogInv ==
    usage = "rollback" /\ cur_block # 0 =>
        \E pos \in [Blocks -> Nat] : Links(pos) /\ Logged(pos)

PoolInv == PoolTypes /\ HeldInv /\ InPlaces /\ UsageInv /\ LogInv

LEMMA PoolNumbers ==
    /\ Entries \in Nat \ {0} /\ MaxBlocks \in Nat \ {0} /\ Blocks = 1 .. MaxBlocks
    /\ Objects = Blocks \X (0 .. Entries - 1)
    /\ Nodes!NoBlock = 0
  BY BoundsAssumption DEF Nodes!PoolAssumption, Blocks, Nodes!Blocks, Objects, Nodes!Objects,
                          Nodes!NoBlock

LEMMA CountedIs ==
    /\ Counted \subseteq Objects
    /\ \A b, e : <<b, e>> \in Counted <=> b \in Blocks /\ e \in 0 .. Entries - 1 /\ e < cur_entry[b]
    /\ \A o \in Objects : /\ o = <<o[1], o[2]>> /\ o[1] \in Blocks /\ o[2] \in 0 .. Entries - 1
                          /\ o \in Counted <=> o[2] < cur_entry[o[1]]
  BY PoolNumbers DEF Counted, Nodes!Counted, Objects

(* The counters of a step that changes those of block b only.                *)
LEMMA CountedChange ==
    ASSUME NEW b \in Blocks, NEW n, cur_entry \in [Blocks -> 0 .. Entries],
           cur_entry' = [cur_entry EXCEPT ![b] = n]
    PROVE  Counted' = {o \in Objects : o[2] < (IF o[1] = b THEN n ELSE cur_entry[o[1]])}
  <1>1. \A x \in Blocks : cur_entry'[x] = IF x = b THEN n ELSE cur_entry[x]
    OBVIOUS
  <1>2. Objects' = Objects /\ \A o \in Objects : o[1] \in Blocks
    BY PoolNumbers DEF Objects, Nodes!Objects, Nodes!Blocks
  <1>3. Counted' = {o \in Objects : o[2] < cur_entry'[o[1]]}
    BY DEF Counted, Nodes!Counted, Objects, Nodes!Objects, Nodes!Blocks
  <1> QED
    BY <1>1, <1>2, <1>3

(* The objects on the recycle list. *)
LEMMA RecycledIs ==
    ASSUME NEW s, s \in Seq(Objects)
    PROVE  /\ Nodes!ToSet(s) = {s[i] : i \in 1 .. Len(s)}
           /\ Nodes!IsInjective(s) <=> \A i, j \in 1 .. Len(s) : s[i] = s[j] => i = j
  <1>1. DOMAIN s = 1 .. Len(s)
    BY LenProperties
  <1> QED
    BY <1>1 DEF Nodes!ToSet, Nodes!IsInjective

LEMMA AccountedFor ==
    ASSUME PoolInv
    PROVE  ObjectsAccountedFor
  <1>1. recycle_list \in Seq(Objects)
    BY DEF PoolInv, PoolTypes
  <1>2. PICK r : r = recycle_list
    OBVIOUS
  <1>3. /\ Nodes!ToSet(r) = {r[i] : i \in 1 .. Len(r)}
        /\ Nodes!IsInjective(r) <=> \A i, j \in 1 .. Len(r) : r[i] = r[j] => i = j
    BY <1>1, <1>2, RecycledIs
  <1> QED
    BY <1>2, <1>3 DEF PoolInv, InPlaces, Recycled, Counted, ObjectsAccountedFor,
                      Nodes!ObjectsAccountedFor

(* A step that leaves the pool alone. *)
LEMMA PoolUnchanged ==
    ASSUME PoolInv, UNCHANGED poolVars
    PROVE  PoolInv'
  <1>1. /\ UNCHANGED <<cur_entry, free_entries, back, recycle_list, cur_block, held, usage,
                       in_use, log>>
        /\ Objects' = Objects /\ Blocks' = Blocks
    BY DEF poolVars, Objects, Nodes!Objects, Blocks, Nodes!Blocks
  <1>2. Chained' = Chained /\ Counted' = Counted
    BY <1>1 DEF Chained, Counted, Nodes!Counted, Objects
  <1>3. PoolTypes' /\ HeldInv' /\ UsageInv'
    BY <1>1 DEF PoolInv, PoolTypes, HeldInv, UsageInv
  <1>4. InPlaces'
    BY <1>1, <1>2 DEF PoolInv, InPlaces, Recycled
  <1>5. LogInv'
    <2> SUFFICES ASSUME usage = "rollback", cur_block # 0
                 PROVE  \E pos \in [Blocks -> Nat] : Links(pos)' /\ Logged(pos)'
      BY <1>1 DEF LogInv
    <2>1. PICK pos \in [Blocks -> Nat] : Links(pos) /\ Logged(pos)
      BY DEF PoolInv, LogInv
    <2>2. Links(pos)'
      BY <1>1, <1>2, <2>1 DEF Links
    <2>3. Logged(pos)'
      BY <1>1, <1>2, <2>1 DEF Logged, Place
    <2> QED
      BY <2>2, <2>3
  <1> QED
    BY <1>3, <1>4, <1>5 DEF PoolInv

(* An object from the recycle list. *)
LEMMA AllocRecycledKeeps ==
    ASSUME PoolInv, Nodes!AllocRecycled, UNCHANGED usage, cur_block # 0
    PROVE  PoolInv'
  <1>1. PICK r, o : r = recycle_list /\ o = Head(r)
    OBVIOUS
  <1>2. /\ r # <<>> /\ recycle_list' = Tail(r) /\ in_use' = in_use \union {o}
        /\ log' = (IF usage = "rollback" THEN Append(log, o) ELSE log)
        /\ UNCHANGED <<cur_entry, free_entries, back, cur_block, held, usage>>
    BY <1>1 DEF Nodes!AllocRecycled, Nodes!HandOut, Nodes!RestOfList, Nodes!blockVars
  <1>3. PoolTypes /\ HeldInv /\ InPlaces /\ UsageInv
    BY DEF PoolInv
  <1>4. r \in Seq(Objects) /\ usage = "recycle" /\ log' = log /\ log = <<>>
    BY <1>1, <1>2, <1>3 DEF PoolTypes, UsageInv
  <1>5. /\ o = r[1] /\ o \in Objects /\ Tail(r) \in Seq(Objects)
        /\ Len(r) \in Nat /\ Len(r) >= 1 /\ Len(Tail(r)) = Len(r) - 1
        /\ \A i \in 1 .. Len(r) - 1 : Tail(r)[i] = r[i + 1]
    <2>1. Len(r) \in Nat /\ Len(r) >= 1
      BY <1>2, <1>4, EmptySeq
    <2>2. o = r[1] /\ Tail(r) \in Seq(Objects) /\ Len(Tail(r)) = Len(r) - 1
      BY <1>1, <1>2, <1>4, HeadTailProperties
    <2>3. \A i \in 1 .. Len(r) - 1 : Tail(r)[i] = r[i + 1]
      BY <1>2, <1>4, <2>2, HeadTailProperties
    <2>4. r[1] \in Objects
      BY <1>4, <2>1, ElementOfSeq
    <2> QED
      BY <2>1, <2>2, <2>3, <2>4
  <1>6. PICK u : u = Tail(r)
    OBVIOUS
  <1>7. \A i, j \in 1 .. Len(u) : u[i] = u[j] => i = j
    <2> TAKE i, j \in 1 .. Len(u)
    <2>1. i + 1 \in 1 .. Len(r) /\ j + 1 \in 1 .. Len(r)
      BY <1>5, <1>6
    <2>2. u[i] = r[i + 1] /\ u[j] = r[j + 1]
      BY <1>5, <1>6
    <2>3. r[i + 1] = r[j + 1] => i + 1 = j + 1
      BY <1>1, <1>3, <2>1 DEF InPlaces
    <2> QED
      BY <2>2, <2>3
  <1>8. PICK R, U : R = {r[i] : i \in 1 .. Len(r)} /\ U = {u[i] : i \in 1 .. Len(u)}
    OBVIOUS
  <1>9. R = U \union {o} /\ o \notin U
    <2>1. \A i \in 1 .. Len(u) : i + 1 \in 1 .. Len(r) /\ u[i] = r[i + 1] /\ i + 1 # 1
      BY <1>5, <1>6
    <2>2. U \subseteq R
      BY <1>8, <2>1
    <2>3. 1 \in 1 .. Len(r)
      BY <1>5
    <2>4. o \in R
      BY <1>5, <1>8, <2>3
    <2>5. o \notin U
      <3> SUFFICES ASSUME NEW i \in 1 .. Len(u), u[i] = r[1] PROVE FALSE
        BY <1>5, <1>8
      <3>1. r[i + 1] = r[1] /\ i + 1 \in 1 .. Len(r)
        BY <2>1
      <3>2. i + 1 = 1
        BY <1>1, <1>3, <2>3, <3>1 DEF InPlaces
      <3> QED
        BY <2>1, <3>2
    <2>6. ASSUME NEW x \in R PROVE x \in U \union {o}
      <3>1. PICK i \in 1 .. Len(r) : x = r[i]
        BY <1>8, <2>6
      <3>2. CASE i = 1
        BY <1>5, <3>1, <3>2
      <3>3. CASE i # 1
        <4>1. i - 1 \in 1 .. Len(u) /\ i - 1 \in 1 .. Len(r) - 1 /\ (i - 1) + 1 = i
          BY <1>5, <1>6, <3>1, <3>3
        <4>2. u[i - 1] = r[(i - 1) + 1]
          BY <1>5, <1>6, <4>1
        <4>3. u[i - 1] = x
          BY <3>1, <4>1, <4>2
        <4> QED
          BY <1>8, <4>1, <4>3
      <3> QED
        BY <3>2, <3>3
    <2> QED
      BY <2>2, <2>4, <2>5, <2>6
  <1>10. Recycled = R /\ Recycled' = U /\ Counted' = Counted
    BY <1>1, <1>2, <1>6, <1>8 DEF Recycled, Counted, Nodes!Counted, Objects, Nodes!Objects,
                                  Nodes!Blocks
  <1>11. InPlaces'
    <2>1. R \intersect in_use = {} /\ Counted = in_use \union R
      BY <1>3, <1>10 DEF InPlaces
    <2>2. U \intersect in_use' = {} /\ Counted' = in_use' \union U
      BY <1>2, <1>9, <1>10, <2>1
    <2>3. \A i, j \in 1 .. Len(recycle_list') : recycle_list'[i] = recycle_list'[j] => i = j
      BY <1>2, <1>6, <1>7
    <2> QED
      BY <1>10, <2>2, <2>3 DEF InPlaces
  <1>12. PoolTypes'
    <2>1. recycle_list' \in Seq(Objects) /\ in_use' \subseteq Objects /\ log' \in Seq(Objects)
      BY <1>2, <1>3, <1>4, <1>5 DEF PoolTypes
    <2> QED
      BY <1>2, <1>3, <2>1 DEF PoolTypes, Objects, Nodes!Objects, Blocks, Nodes!Blocks
  <1>13. HeldInv' /\ UsageInv' /\ LogInv'
    BY <1>2, <1>3, <1>4 DEF HeldInv, UsageInv, LogInv, Blocks, Nodes!Blocks
  <1> QED
    BY <1>11, <1>12, <1>13 DEF PoolInv

LEMMA RecycleKeeps ==
    ASSUME PoolInv, NEW o \in Objects, Nodes!synchRecycleObj(o), UNCHANGED usage
    PROVE  PoolInv'
  <1>1. PICK r : r = recycle_list
    OBVIOUS
  <1>2. /\ usage = "recycle" /\ o \in in_use /\ recycle_list' = <<o>> \o r
        /\ in_use' = in_use \ {o}
        /\ UNCHANGED <<cur_entry, free_entries, back, cur_block, held, usage, log>>
    BY <1>1 DEF Nodes!synchRecycleObj, Nodes!blockVars
  <1>3. PoolTypes /\ HeldInv /\ InPlaces /\ UsageInv
    BY DEF PoolInv
  <1>4. r \in Seq(Objects) /\ Len(r) \in Nat
    BY <1>1, <1>3 DEF PoolTypes
  <1>5. PICK u : u = <<o>> \o r
    OBVIOUS
  <1>6. /\ u \in Seq(Objects) /\ Len(u) = Len(r) + 1 /\ u[1] = o
        /\ \A i \in 1 .. Len(r) : u[i + 1] = r[i]
    BY <1>4, <1>5
  <1>7. PICK R, U : R = {r[i] : i \in 1 .. Len(r)} /\ U = {u[i] : i \in 1 .. Len(u)}
    OBVIOUS
  <1>8. Recycled = R /\ Recycled' = U /\ Counted' = Counted
    BY <1>1, <1>2, <1>5, <1>7 DEF Recycled, Counted, Nodes!Counted, Objects, Nodes!Objects,
                                  Nodes!Blocks
  <1>9. R \intersect in_use = {} /\ Counted = in_use \union R /\ o \notin R
    BY <1>2, <1>3, <1>8 DEF InPlaces
  <1>10. \A i \in 1 .. Len(u) : i = 1 \/ (i - 1 \in 1 .. Len(r) /\ u[i] = r[i - 1] /\ u[i] \in R)
    <2> SUFFICES ASSUME NEW i \in 1 .. Len(u), i # 1
                 PROVE  i - 1 \in 1 .. Len(r) /\ u[i] = r[i - 1] /\ u[i] \in R
      OBVIOUS
    <2>1. i - 1 \in 1 .. Len(r) /\ (i - 1) + 1 = i
      BY <1>4, <1>6
    <2>2. u[(i - 1) + 1] = r[i - 1]
      BY <1>6, <2>1
    <2> QED
      BY <1>7, <2>1, <2>2
  <1>11. U = R \union {o}
    <2>1. ASSUME NEW x \in U PROVE x \in R \union {o}
      <3>1. PICK i \in 1 .. Len(u) : x = u[i]
        BY <1>7
      <3>2. u[1] = o
        BY <1>6
      <3> QED
        BY <1>10, <3>1, <3>2
    <2>2. 1 \in 1 .. Len(u) /\ \A i \in 1 .. Len(r) : i + 1 \in 1 .. Len(u) /\ u[i + 1] = r[i]
      BY <1>4, <1>6
    <2>3. o \in U /\ R \subseteq U
      BY <1>6, <1>7, <2>2
    <2> QED
      BY <2>1, <2>3
  <1>12. \A i, j \in 1 .. Len(u) : u[i] = u[j] => i = j
    <2> TAKE i, j \in 1 .. Len(u)
    <2>1. CASE i = 1 \/ j = 1
      BY <1>6, <1>9, <1>10, <2>1
    <2>2. CASE i # 1 /\ j # 1
      <3>1. /\ i - 1 \in 1 .. Len(r) /\ u[i] = r[i - 1]
            /\ j - 1 \in 1 .. Len(r) /\ u[j] = r[j - 1]
        BY <1>10, <2>2
      <3>2. r[i - 1] = r[j - 1] => i - 1 = j - 1
        BY <1>1, <1>3, <3>1 DEF InPlaces
      <3> QED
        BY <3>1, <3>2
    <2> QED
      BY <2>1, <2>2
  <1>13. InPlaces'
    <2>1. U \intersect in_use' = {} /\ Counted' = in_use' \union U
      BY <1>2, <1>8, <1>9, <1>11
    <2>2. \A i, j \in 1 .. Len(recycle_list') : recycle_list'[i] = recycle_list'[j] => i = j
      BY <1>2, <1>5, <1>12
    <2> QED
      BY <1>8, <2>1, <2>2 DEF InPlaces
  <1>14. PoolTypes'
    <2>1. recycle_list' \in Seq(Objects) /\ in_use' \subseteq Objects
      BY <1>2, <1>3, <1>5, <1>6 DEF PoolTypes
    <2> QED
      BY <1>2, <1>3, <2>1 DEF PoolTypes, Objects, Nodes!Objects, Blocks, Nodes!Blocks
  <1>15. HeldInv' /\ UsageInv' /\ LogInv'
    BY <1>2, <1>3 DEF HeldInv, UsageInv, LogInv, Blocks, Nodes!Blocks
  <1> QED
    BY <1>13, <1>14, <1>15 DEF PoolInv

LEMMA DestroyKeeps ==
    ASSUME PoolInv, Nodes!synchDestroyPool, UNCHANGED usage
    PROVE  PoolInv'
  <1>1. /\ in_use = {} /\ cur_block' = 0 /\ log' = <<>>
        /\ UNCHANGED <<cur_entry, free_entries, back, recycle_list, in_use, usage>>
    BY PoolNumbers DEF Nodes!synchDestroyPool, Nodes!blockVars
  <1>2. PoolTypes'
    <2>1. log' \in Seq(Objects) /\ cur_block' \in Blocks \union {0}
      BY <1>1
    <2> QED
      BY <1>1, <2>1 DEF PoolInv, PoolTypes, Objects, Nodes!Objects, Blocks, Nodes!Blocks
  <1>3. InPlaces'
    BY <1>1 DEF PoolInv, InPlaces, Recycled, Counted, Nodes!Counted, Objects, Nodes!Objects,
                Nodes!Blocks
  <1>4. HeldInv' /\ UsageInv' /\ LogInv'
    BY <1>1 DEF PoolInv, HeldInv, UsageInv, LogInv
  <1> QED
    BY <1>2, <1>3, <1>4 DEF PoolInv

(* One more object is allocated, when none is on the recycle list. *)
LEMMA OneMore ==
    ASSUME PoolInv, recycle_list = <<>>, recycle_list' = <<>>, UNCHANGED usage,
           NEW o \in Objects, o \notin Counted, Counted' = Counted \union {o},
           Nodes!HandOut(o), cur_block # 0, cur_block' # 0
    PROVE  /\ InPlaces' /\ UsageInv' /\ in_use' \subseteq Objects /\ log' \in Seq(Objects)
           /\ usage = "rollback" => log' = Append(log, o)
  <1>1. /\ in_use' = in_use \union {o}
        /\ log' = (IF usage = "rollback" THEN Append(log, o) ELSE log)
    BY DEF Nodes!HandOut
  <1>2. PoolTypes /\ InPlaces /\ UsageInv
    BY DEF PoolInv
  <1>3. InPlaces'
    <2>1. Len(<<>>) = 0
      OBVIOUS
    <2>2. Recycled = {} /\ Recycled' = {}
      BY <2>1 DEF Recycled
    <2> QED
      BY <1>1, <1>2, <2>1, <2>2 DEF InPlaces
  <1>4. UsageInv'
    BY <1>1, <1>2 DEF UsageInv
  <1>5. in_use' \subseteq Objects /\ log' \in Seq(Objects)
    <2>1. Append(log, o) \in Seq(Objects) /\ log \in Seq(Objects)
      BY <1>2 DEF PoolTypes
    <2> QED
      BY <1>1, <1>2, <2>1 DEF PoolTypes
  <1> QED
    BY <1>1, <1>3, <1>4, <1>5

LEMMA LogAppended ==
    ASSUME log \in Seq(Objects), NEW o, NEW pos, NEW q, Logged(pos), o \notin Counted,
           Counted' = Counted \union {o}, log' = Append(log, o),
           Place(q, o) = Len(log) + 1,
           \A x \in Counted : Place(q, x) = Place(pos, x)
    PROVE  /\ Len(log') = Len(log) + 1
           /\ \A x \in Counted' : Place(q, x) \in 1 .. Len(log') /\ log'[Place(q, x)] = x
           /\ \A i \in 1 .. Len(log') : log'[i] \in Counted' /\ Place(q, log'[i]) = i
  <1>1. PICK s, u : s = log /\ u = log'
    OBVIOUS
  <1>2. /\ s \in Seq(Objects) /\ u = Append(s, o)
        /\ \A x \in Counted : Place(q, x) \in 1 .. Len(s) /\ s[Place(q, x)] = x
        /\ \A i \in 1 .. Len(s) : s[i] \in Counted /\ Place(q, s[i]) = i
        /\ Place(q, o) = Len(s) + 1
    BY <1>1 DEF Logged
  <1>3. /\ Len(s) \in Nat /\ Len(u) = Len(s) + 1 /\ u[Len(s) + 1] = o
        /\ \A i \in 1 .. Len(s) : u[i] = s[i]
    <2>1. Len(s) \in Nat
      BY <1>2
    <2>2. Len(u) = Len(s) + 1 /\ u[Len(s) + 1] = o /\ \A i \in 1 .. Len(s) : u[i] = s[i]
      BY <1>2, AppendProperties
    <2> QED
      BY <2>1, <2>2
  <1>4. ASSUME NEW x \in Counted \union {o}
        PROVE  Place(q, x) \in 1 .. Len(u) /\ u[Place(q, x)] = x
    <2>1. CASE x \in Counted
      <3>1. PICK p : p = Place(q, x)
        OBVIOUS
      <3>2. p \in 1 .. Len(s) /\ s[p] = x
        BY <1>2, <2>1, <3>1
      <3> QED
        BY <1>3, <3>1, <3>2
    <2>2. CASE x = o
      BY <1>2, <1>3, <2>2
    <2> QED
      BY <2>1, <2>2
  <1>5. ASSUME NEW i \in 1 .. Len(u)
        PROVE  u[i] \in Counted \union {o} /\ Place(q, u[i]) = i
    <2>1. CASE i = Len(s) + 1
      BY <1>2, <1>3, <2>1
    <2>2. CASE i # Len(s) + 1
      <3>1. i \in 1 .. Len(s)
        BY <1>3, <2>2
      <3> QED
        BY <1>2, <1>3, <3>1
    <2> QED
      BY <2>1, <2>2
  <1> QED
    BY <1>1, <1>3, <1>4, <1>5

LEMMA AllocEntryKeeps ==
    ASSUME PoolInv, Nodes!AllocEntry, UNCHANGED usage, cur_block # 0
    PROVE  PoolInv'
  <1>1. PICK c, e, o : c = cur_block /\ e = cur_entry[c] /\ o = <<c, e>>
    OBVIOUS
  <1>2. /\ recycle_list = <<>> /\ recycle_list' = <<>> /\ free_entries[c] > 0
        /\ Nodes!HandOut(o)
        /\ free_entries' = [free_entries EXCEPT ![c] = free_entries[c] - 1]
        /\ cur_entry' = [cur_entry EXCEPT ![c] = e + 1]
        /\ UNCHANGED <<back, cur_block, held>>
    BY <1>1 DEF Nodes!AllocEntry, Nodes!HasFree
  <1>3. PoolTypes /\ HeldInv /\ c \in Blocks
    BY <1>1 DEF PoolInv, PoolTypes
  <1>4. PICK n, f : n = Entries /\ f = free_entries[c]
    OBVIOUS
  <1>5. n \in Nat /\ e \in 0 .. n /\ f \in 0 .. n /\ e + f = n /\ f > 0
    BY <1>1, <1>2, <1>3, <1>4, PoolNumbers DEF PoolTypes
  <1>6. e \in 0 .. n - 1 /\ e + 1 \in 0 .. n /\ f - 1 \in 0 .. n /\ (e + 1) + (f - 1) = n
    BY <1>5
  <1>7. o \in Objects /\ o \notin Counted
    <2>1. o \in Objects
      BY <1>1, <1>3, <1>4, <1>6, PoolNumbers
    <2>2. <<c, e>> \in Counted => e < e
      BY <1>1, CountedIs
    <2> QED
      BY <1>1, <1>5, <2>1, <2>2
  <1>8. \A x \in Blocks : /\ cur_entry'[x] = IF x = c THEN e + 1 ELSE cur_entry[x]
                          /\ free_entries'[x] = IF x = c THEN f - 1 ELSE free_entries[x]
    BY <1>2, <1>3, <1>4 DEF PoolTypes
  <1>9. Counted' = Counted \union {o}
    <2>1. Counted' = {x \in Objects : x[2] < (IF x[1] = c THEN e + 1 ELSE cur_entry[x[1]])}
      BY <1>2, <1>3, CountedChange DEF PoolTypes
    <2>2. ASSUME NEW x \in Objects
          PROVE  x[2] < (IF x[1] = c THEN e + 1 ELSE cur_entry[x[1]])
                    <=> x \in Counted \/ x = o
      <3>1. /\ x = <<x[1], x[2]>> /\ x[1] \in Blocks /\ x[2] \in 0 .. n - 1
            /\ x \in Counted <=> x[2] < cur_entry[x[1]]
        BY <1>4, CountedIs
      <3>2. CASE x[1] # c
        BY <1>1, <3>1, <3>2
      <3>3. CASE x[1] = c
        <4>1. x[2] < e + 1 <=> x[2] < e \/ x[2] = e
          BY <1>5, <3>1
        <4>2. x = o <=> x[2] = e
          BY <1>1, <3>1, <3>3
        <4> QED
          BY <1>1, <3>1, <3>3, <4>1, <4>2
      <3> QED
        BY <3>2, <3>3
    <2>3. Counted \subseteq Objects
      BY CountedIs
    <2> QED
      BY <1>7, <2>1, <2>2, <2>3
  <1>10. /\ InPlaces' /\ UsageInv' /\ in_use' \subseteq Objects /\ log' \in Seq(Objects)
         /\ usage = "rollback" => log' = Append(log, o)
    BY <1>1, <1>2, <1>7, <1>9, OneMore
  <1>11. PoolTypes'
    <2>1. /\ cur_entry' \in [Blocks -> 0 .. n] /\ free_entries' \in [Blocks -> 0 .. n]
      BY <1>2, <1>3, <1>4, <1>6 DEF PoolTypes
    <2>2. \A x \in Blocks : cur_entry'[x] + free_entries'[x] = n
      BY <1>3, <1>4, <1>6, <1>8 DEF PoolTypes
    <2>3. <<>> \in Seq(Objects)
      OBVIOUS
    <2> QED
      BY <1>2, <1>3, <1>4, <1>10, <2>1, <2>2, <2>3
         DEF PoolTypes, Objects, Nodes!Objects, Blocks, Nodes!Blocks
  <1>12. HeldInv'
    BY <1>1, <1>2, <1>3, <1>8 DEF HeldInv, Blocks, Nodes!Blocks
  <1>13. LogInv'
    <2> SUFFICES ASSUME usage = "rollback"
                 PROVE  \E pos \in [Blocks -> Nat] : Links(pos)' /\ Logged(pos)'
      BY DEF LogInv, Blocks, Nodes!Blocks
    <2>1. PICK pos \in [Blocks -> Nat] : Links(pos) /\ Logged(pos)
      BY DEF PoolInv, LogInv
    <2>2. Chained' = Chained
      <3>1. c \in Chained
        BY <1>1 DEF Chained
      <3>2. \A x \in Blocks : x # c => (cur_entry'[x] > 0 <=> cur_entry[x] > 0)
        BY <1>8
      <3>3. Chained' = {x \in Blocks : cur_entry'[x] > 0} \union {c}
        BY <1>1, <1>2 DEF Chained, Blocks, Nodes!Blocks
      <3> QED
        BY <1>1, <3>2, <3>3 DEF Chained
    <2>3. \A x \in Chained : x <= c /\ x \in Blocks /\ back[x] < x /\ back[x] # c
      <3> TAKE x \in Chained
      <3>1. x \in Blocks /\ x <= c /\ back[x] < x
        BY <1>1, <1>3, <2>1 DEF Chained, Links, PoolTypes
      <3>2. x \in Int /\ back[x] \in Int /\ c \in Int
        BY <1>3, <3>1, PoolNumbers DEF PoolTypes
      <3> QED
        BY <3>1, <3>2
    <2>4. Links(pos)'
      <3>1. \A b \in Chained : back[b] # 0 => cur_entry'[back[b]] = cur_entry[back[b]]
        <4> TAKE b \in Chained
        <4>1. back[b] # 0 => back[b] \in Chained
          BY <2>1 DEF Links
        <4> QED
          BY <1>8, <2>3, <4>1
      <3> QED
        BY <1>2, <2>1, <2>2, <3>1 DEF Links
    <2>5. Logged(pos)'
      <3>1. pos[c] \in Nat /\ Len(log) = pos[c] + e
        BY <1>1, <1>3, <2>1 DEF Logged
      <3>2. Place(pos, o) = Len(log) + 1
        BY <1>1, <3>1 DEF Place
      <3>3. log \in Seq(Objects) /\ log' = Append(log, o)
        BY <1>3, <1>10 DEF PoolTypes
      <3>4. /\ Len(log') = Len(log) + 1
            /\ \A x \in Counted' : Place(pos, x) \in 1 .. Len(log') /\ log'[Place(pos, x)] = x
            /\ \A i \in 1 .. Len(log') : log'[i] \in Counted' /\ Place(pos, log'[i]) = i
        BY <1>7, <1>9, <2>1, <3>2, <3>3, LogAppended
      <3>5. cur_block' = c /\ cur_entry'[c] = e + 1
        BY <1>1, <1>2, <1>3, <1>8
      <3>6. Len(log') = pos[c] + (e + 1)
        <4>1. PICK p, l, m : p = pos[c] /\ l = Len(log) /\ m = Len(log')
          OBVIOUS
        <4>2. p \in Nat /\ e \in Nat /\ l = p + e /\ m = l + 1
          BY <1>5, <3>1, <3>4, <4>1
        <4>3. m = p + (e + 1)
          BY <4>2
        <4> QED
          BY <4>1, <4>3
      <3> QED
        BY <3>4, <3>5, <3>6 DEF Logged, Place
    <2> QED
      BY <2>4, <2>5
  <1> QED
    BY <1>10, <1>11, <1>12, <1>13 DEF PoolInv

(* The number of the next block. *)
LEMMA NextBlock ==
    ASSUME PoolInv, Nodes!HasBlocks, cur_block # 0
    PROVE  \E h \in Nat :
               /\ h = Cardinality(held) /\ Nodes!NewBlock = h + 1 /\ h + 1 \in Blocks
               /\ held = 1 .. h /\ cur_block \in 1 .. h
               /\ cur_entry[h + 1] = 0
               /\ Cardinality(held \union {h + 1}) = h + 1
               /\ held \union {h + 1} = 1 .. (h + 1)
  <1>1. PICK h \in Nat : h = Cardinality(held)
    BY DEF PoolInv, HeldInv
  <1>2. /\ held = 1 .. h /\ cur_block \in 1 .. h
        /\ \A b \in Blocks : b \notin held => cur_entry[b] = 0
    BY <1>1 DEF PoolInv, HeldInv
  <1>3. Nodes!Cardinality(held) = h
    BY <1>1 DEF Nodes!Cardinality, Cardinality
  <1>4. Nodes!NewBlock = h + 1 /\ h < MaxBlocks
    BY <1>3 DEF Nodes!NewBlock, Nodes!HasBlocks
  <1>5. h + 1 \in Blocks /\ h + 1 \notin held
    BY <1>2, <1>4, PoolNumbers
  <1>6. held \union {h + 1} = 1 .. (h + 1)
    <2>1. \A i : i \in 1 .. (h + 1) <=> i \in 1 .. h \/ i = h + 1
      OBVIOUS
    <2> QED
      BY <1>2, <2>1
  <1>7. Cardinality(1 .. (h + 1)) = h + 1
    <2>1. 1 \in Int /\ h + 1 \in Int /\ ~(1 > h + 1) /\ (h + 1) - 1 + 1 = h + 1
      OBVIOUS
    <2> QED
      BY <2>1, FS_Interval
  <1> QED
    BY <1>1, <1>2, <1>4, <1>5, <1>6, <1>7

LEMMA AllocBlockKeeps ==
    ASSUME PoolInv, Nodes!AllocBlock, UNCHANGED usage, cur_block # 0
    PROVE  PoolInv'
  <1>1. PICK c, n : c = cur_block /\ n = Entries
    OBVIOUS
  <1>2. Nodes!HasBlocks
    BY DEF Nodes!AllocBlock
  <1>3. PICK h \in Nat :
            /\ h = Cardinality(held) /\ Nodes!NewBlock = h + 1 /\ h + 1 \in Blocks
            /\ held = 1 .. h /\ cur_block \in 1 .. h
            /\ cur_entry[h + 1] = 0
            /\ Cardinality(held \union {h + 1}) = h + 1
            /\ held \union {h + 1} = 1 .. (h + 1)
    BY <1>2, NextBlock
  <1>4. PICK b, o : b = h + 1 /\ o = <<b, 0>>
    OBVIOUS
  <1>5. /\ recycle_list = <<>> /\ recycle_list' = <<>> /\ ~(free_entries[c] > 0)
        /\ held' = held \union {b} /\ back' = [back EXCEPT ![b] = c] /\ cur_block' = b
        /\ Nodes!HandOut(o)
        /\ free_entries' = [free_entries EXCEPT ![b] = n - 1]
        /\ cur_entry' = [cur_entry EXCEPT ![b] = 1]
    BY <1>1, <1>3, <1>4 DEF Nodes!AllocBlock, Nodes!HasFree
  <1>6. PoolTypes /\ HeldInv /\ c \in Blocks
    BY <1>1 DEF PoolInv, PoolTypes
  <1>7. /\ n \in Nat /\ n >= 1 /\ b \in Nat /\ b \in Blocks /\ c \in Nat /\ c >= 1 /\ c < b
        /\ b # 0 /\ cur_entry[b] = 0
    <2>1. n \in Nat \ {0}
      BY <1>1, PoolNumbers
    <2>2. h \in Nat /\ c \in 1 .. h /\ b = h + 1
      BY <1>1, <1>3, <1>4
    <2>3. b \in Nat /\ c \in Nat /\ c >= 1 /\ c < b /\ b # 0
      BY <2>2
    <2>4. b \in Blocks /\ cur_entry[b] = 0
      BY <1>3, <1>4, Zenon
    <2>5. n \in Nat /\ n >= 1
      BY <2>1
    <2> QED
      BY <2>3, <2>4, <2>5, Zenon
  <1>8. cur_entry[c] = n
    <2>1. /\ cur_entry[c] \in 0 .. n /\ free_entries[c] \in 0 .. n
          /\ cur_entry[c] + free_entries[c] = n
      BY <1>1, <1>6 DEF PoolTypes
    <2> QED
      BY <1>5, <1>7, <2>1
  <1>9. o \in Objects /\ o \notin Counted
    <2>1. o \in Objects
      <3>1. 0 \in 0 .. n - 1
        BY <1>7
      <3> QED
        BY <1>1, <1>4, <1>7, <3>1, PoolNumbers
    <2>2. <<b, 0>> \in Counted => 0 < cur_entry[b]
      BY CountedIs
    <2> QED
      BY <1>4, <1>7, <2>1, <2>2
  <1>10. \A x \in Blocks : /\ cur_entry'[x] = IF x = b THEN 1 ELSE cur_entry[x]
                           /\ free_entries'[x] = IF x = b THEN n - 1 ELSE free_entries[x]
                           /\ back'[x] = IF x = b THEN c ELSE back[x]
    BY <1>5, <1>6 DEF PoolTypes
  <1>11. Counted' = Counted \union {o}
    <2>1. Counted' = {x \in Objects : x[2] < (IF x[1] = b THEN 1 ELSE cur_entry[x[1]])}
      BY <1>5, <1>6, <1>7, CountedChange DEF PoolTypes
    <2>2. ASSUME NEW x \in Objects
          PROVE  x[2] < (IF x[1] = b THEN 1 ELSE cur_entry[x[1]]) <=> x \in Counted \/ x = o
      <3>1. /\ x = <<x[1], x[2]>> /\ x[1] \in Blocks /\ x[2] \in 0 .. n - 1
            /\ x \in Counted <=> x[2] < cur_entry[x[1]]
        BY <1>1, CountedIs
      <3>2. CASE x[1] # b
        BY <1>4, <3>1, <3>2
      <3>3. CASE x[1] = b
        <4>1. (x[2] < 1 <=> x[2] = 0) /\ ~(x[2] < 0)
          BY <1>7, <3>1
        <4>2. x = o <=> x[2] = 0
          BY <1>4, <3>1, <3>3
        <4> QED
          BY <1>7, <3>1, <3>3, <4>1, <4>2
      <3> QED
        BY <3>2, <3>3
    <2>3. Counted \subseteq Objects
      BY CountedIs
    <2> QED
      BY <1>9, <2>1, <2>2, <2>3
  <1>12. /\ InPlaces' /\ UsageInv' /\ in_use' \subseteq Objects /\ log' \in Seq(Objects)
         /\ usage = "rollback" => log' = Append(log, o)
    BY <1>5, <1>7, <1>9, <1>11, OneMore
  <1>13. PoolTypes'
    <2>1. 1 \in 0 .. n /\ n - 1 \in 0 .. n /\ 1 + (n - 1) = n /\ c \in 0 .. MaxBlocks
      <3>1. MaxBlocks \in Nat /\ c \in 1 .. MaxBlocks
        BY <1>6, PoolNumbers
      <3> QED
        BY <1>7, <3>1
    <2>2. /\ cur_entry' \in [Blocks -> 0 .. n] /\ free_entries' \in [Blocks -> 0 .. n]
          /\ back' \in [Blocks -> 0 .. MaxBlocks]
      BY <1>1, <1>5, <1>6, <2>1 DEF PoolTypes
    <2>3. \A x \in Blocks : cur_entry'[x] + free_entries'[x] = n /\ back'[x] < x
      BY <1>1, <1>6, <1>7, <1>10, <2>1 DEF PoolTypes
    <2>4. <<>> \in Seq(Objects)
      OBVIOUS
    <2> QED
      BY <1>1, <1>5, <1>6, <1>7, <1>12, <2>2, <2>3, <2>4
         DEF PoolTypes, Objects, Nodes!Objects, Blocks, Nodes!Blocks
  <1>14. HeldInv'
    <2>1. PICK g : g = held'
      OBVIOUS
    <2>2. Cardinality(g) = b /\ g = 1 .. b /\ b \in g
      BY <1>3, <1>4, <1>5, <1>7, <2>1
    <2>3. \A x \in Blocks : x \notin g => cur_entry'[x] = 0
      BY <1>3, <1>4, <1>5, <1>6, <1>10, <2>1, <2>2 DEF HeldInv
    <2> QED
      BY <1>5, <1>7, <2>1, <2>2, <2>3 DEF HeldInv, Blocks, Nodes!Blocks
  <1>15. LogInv'
    <2> SUFFICES ASSUME usage = "rollback"
                 PROVE  \E q \in [Blocks -> Nat] : Links(q)' /\ Logged(q)'
      BY DEF LogInv, Blocks, Nodes!Blocks
    <2>1. PICK pos \in [Blocks -> Nat] : Links(pos) /\ Logged(pos)
      BY DEF PoolInv, LogInv
    <2>2. PICK q : q = [pos EXCEPT ![b] = pos[c] + n]
      OBVIOUS
    <2>3. /\ q \in [Blocks -> Nat]
          /\ \A x \in Blocks : q[x] = IF x = b THEN pos[c] + n ELSE pos[x]
          /\ pos[c] \in Nat
      <3>1. pos[c] \in Nat
        BY <1>6
      <3>2. pos[c] + n \in Nat
        BY <1>7, <3>1
      <3> QED
        BY <2>2, <3>1, <3>2
    <2>4. b \notin Chained /\ c \in Chained /\ Chained' = Chained \union {b}
      <3>1. c \in Chained
        BY <1>1 DEF Chained
      <3>2. b \notin Chained
        BY <1>1, <1>7 DEF Chained
      <3>3. \A x \in Blocks : cur_entry'[x] > 0 <=> x = b \/ cur_entry[x] > 0
        BY <1>10
      <3>4. Chained' = {x \in Blocks : cur_entry'[x] > 0} \union {b}
        BY <1>5 DEF Chained, Blocks, Nodes!Blocks
      <3>5. cur_entry[c] > 0
        BY <1>7, <1>8
      <3> QED
        BY <1>1, <1>6, <3>1, <3>2, <3>3, <3>4, <3>5 DEF Chained
    <2>5. \A x \in Chained : x <= c /\ x \in Blocks /\ x # b /\ x \in Nat
      <3> TAKE x \in Chained
      <3>1. x \in Blocks /\ x <= c
        BY <1>1, <1>6, <2>1 DEF Chained, Links
      <3> QED
        BY <1>7, <3>1, PoolNumbers
    <2>6. Links(q)'
      <3>1. ASSUME NEW y \in Chained, NEW x \in Chained, x < y
            PROVE  back'[y] # 0 /\ x <= back'[y] /\ q[x] + n <= q[y]
        BY <1>1, <1>10, <2>1, <2>3, <2>5, <3>1 DEF Links
      <3>2. ASSUME NEW y \in Chained
            PROVE  /\ y <= b
                   /\ back'[y] = 0 => q[y] = 0
                   /\ back'[y] # 0 =>
                         /\ back'[y] \in Chained /\ cur_entry'[back'[y]] = n
                         /\ q[y] = q[back'[y]] + n
        <4>1. back'[y] = back[y] /\ q[y] = pos[y] /\ y <= b
          BY <1>7, <1>10, <2>3, <2>5
        <4>2. /\ back[y] = 0 => pos[y] = 0
              /\ back[y] # 0 =>
                    /\ back[y] \in Chained /\ cur_entry[back[y]] = n
                    /\ pos[y] = pos[back[y]] + n
          BY <1>1, <2>1 DEF Links
        <4> QED
          BY <1>10, <2>3, <2>5, <4>1, <4>2
      <3>3. /\ back'[b] = c /\ c # 0 /\ c \in Chained /\ cur_entry'[c] = n
            /\ q[b] = q[c] + n
        BY <1>6, <1>7, <1>8, <1>10, <2>3, <2>4
      <3>4. ASSUME NEW x \in Chained
            PROVE  x <= c /\ q[x] + n <= q[b] /\ ~(b < x)
        <4>1. x = c \/ (x < c /\ pos[x] + n <= pos[c])
          BY <1>1, <1>7, <2>1, <2>4, <2>5 DEF Links
        <4>2. pos[x] \in Nat /\ q[x] = pos[x] /\ q[b] = pos[c] + n
          BY <1>7, <2>3, <2>5
        <4>3. x <= c /\ x \in Nat
          BY <2>5
        <4> QED
          BY <1>7, <2>3, <4>1, <4>2, <4>3
      <3>5. ~(b < b) /\ b <= b
        BY <1>7
      <3> QED
        BY <1>1, <1>5, <1>7, <2>4, <3>1, <3>2, <3>3, <3>4, <3>5 DEF Links
    <2>7. Logged(q)'
      <3>1. Len(log) = pos[c] + n
        BY <1>1, <1>8, <2>1 DEF Logged
      <3>2. Place(q, o) = Len(log) + 1
        <4>1. Place(q, o) = (pos[c] + n) + 0 + 1
          BY <1>4, <1>7, <2>3 DEF Place
        <4> QED
          BY <1>7, <2>3, <3>1, <4>1
      <3>3. log \in Seq(Objects) /\ log' = Append(log, o)
        BY <1>6, <1>12 DEF PoolTypes
      <3>4. \A x \in Counted : Place(q, x) = Place(pos, x)
        <4> TAKE x \in Counted
        <4>1. x \in Objects /\ x[1] \in Blocks /\ x[2] \in 0 .. n - 1 /\ x[2] < cur_entry[x[1]]
          BY <1>1, CountedIs
        <4>2. x[1] # b
          BY <1>7, <4>1
        <4> QED
          BY <2>3, <4>1, <4>2 DEF Place
      <3>5. /\ Len(log') = Len(log) + 1
            /\ \A x \in Counted' : Place(q, x) \in 1 .. Len(log') /\ log'[Place(q, x)] = x
            /\ \A i \in 1 .. Len(log') : log'[i] \in Counted' /\ Place(q, log'[i]) = i
        BY <1>9, <1>11, <2>1, <3>2, <3>3, <3>4, LogAppended
      <3>6. cur_block' = b /\ cur_entry'[b] = 1 /\ q[b] = pos[c] + n
        BY <1>5, <1>7, <1>10, <2>3
      <3>7. Len(log') = q[b] + 1
        BY <1>7, <3>1, <3>5, <3>6
      <3> QED
        BY <3>5, <3>6, <3>7 DEF Logged, Place
    <2> QED
      BY <2>3, <2>6, <2>7
  <1> QED
    BY <1>12, <1>13, <1>14, <1>15 DEF PoolInv

(* The recursive function of RolledBack. *)
Counters == [b \in Blocks |-> [cur_entry |-> cur_entry[b], free_entries |-> free_entries[b]]]

Cancelled(n, b) == [cur_entry |-> cur_entry[b] - n, free_entries |-> free_entries[b] + n]

RollOf(f, N, b) ==
    [n \in 0 .. N |->
        IF n <= cur_entry[b]
        THEN [counters |-> [Counters EXCEPT ![b] = Cancelled(n, b)], cur_block |-> b]
        ELSE IF back[b] = Nodes!NoBlock
        THEN [counters |-> [Counters EXCEPT ![b] = Nodes!Emptied(b)], cur_block |-> b]
        ELSE LET rest == f[back[b]][Nodes!LeftToCancel(n, b)]
             IN [counters |-> [rest.counters EXCEPT ![b] = Nodes!Emptied(b)],
                 cur_block |-> rest.cur_block]]

Roll(f, N) == f = [b \in Blocks |-> RollOf(f, N, b)]

(* It exists, since a block leads to one with a smaller number.              *)
LEMMA RollExists ==
    ASSUME PoolTypes, NEW N \in Nat
    PROVE  \E f : Roll(f, N)
  <1> DEFINE T == {k \in Nat : \E f : /\ f = [b \in Blocks |-> f[b]]
                                      /\ \A b \in Blocks : b <= k => f[b] = RollOf(f, N, b)}
  <1>1. 0 \in T
    <2> DEFINE f == [b \in Blocks |-> 0]
    <2>1. f = [b \in Blocks |-> f[b]]
      OBVIOUS
    <2>2. \A b \in Blocks : ~(b <= 0)
      BY PoolNumbers
    <2> QED
      BY <2>1, <2>2
  <1>2. ASSUME NEW k \in T
        PROVE  k + 1 \in T
    <2>1. PICK f : /\ f = [b \in Blocks |-> f[b]]
                   /\ \A b \in Blocks : b <= k => f[b] = RollOf(f, N, b)
      OBVIOUS
    <2>2. PICK r : r = RollOf(f, N, k + 1)
      OBVIOUS
    <2> DEFINE g == [b \in Blocks |-> IF b = k + 1 THEN r ELSE f[b]]
    <2>3. g = [b \in Blocks |-> g[b]]
      OBVIOUS
    <2>4. ASSUME NEW b \in Blocks PROVE g[b] = IF b = k + 1 THEN r ELSE f[b]
      OBVIOUS
    <2> HIDE DEF g
    <2>5. ASSUME NEW b \in Blocks, b <= k + 1
          PROVE  g[b] = RollOf(g, N, b)
      <3>1. back[b] # 0 => back[b] \in Blocks /\ back[b] # k + 1
        <4> SUFFICES ASSUME back[b] # 0 PROVE back[b] \in Blocks /\ back[b] # k + 1
          OBVIOUS
        <4>1. back[b] \in 0 .. MaxBlocks /\ back[b] < b /\ b \in Nat /\ k \in Nat
          BY PoolNumbers DEF PoolTypes
        <4> QED
          BY <2>5, <4>1, PoolNumbers
      <3>2. back[b] # 0 => g[back[b]] = f[back[b]]
        BY <2>4, <3>1
      <3>3. RollOf(g, N, b) = RollOf(f, N, b)
        BY <3>2, PoolNumbers DEF RollOf
      <3>4. CASE b = k + 1
        BY <2>2, <2>4, <3>3, <3>4
      <3>5. CASE b # k + 1
        <4>1. b <= k
          BY <2>5, <3>5, PoolNumbers
        <4> QED
          BY <2>1, <2>4, <3>3, <3>5, <4>1
      <3> QED
        BY <3>4, <3>5
    <2> QED
      BY <2>3, <2>5
  <1> HIDE DEF T
  <1>3. T = Nat
    BY <1>1, <1>2, SetInduction DEF T
  <1>4. MaxBlocks \in T
    BY <1>3, PoolNumbers
  <1>5. PICK f : /\ f = [b \in Blocks |-> f[b]]
                 /\ \A b \in Blocks : b <= MaxBlocks => f[b] = RollOf(f, N, b)
    BY <1>4 DEF T
  <1>6. \A b \in Blocks : f[b] = RollOf(f, N, b)
    BY <1>5, PoolNumbers
  <1>7. f = [b \in Blocks |-> RollOf(f, N, b)]
    BY <1>5, <1>6
  <1> QED
    BY <1>7 DEF Roll

LEMMA RolledBackIs ==
    ASSUME PoolTypes, NEW N \in Nat
    PROVE  \E f : Roll(f, N) /\ Nodes!RolledBack(N) = f[cur_block][N]
  <1> DEFINE f == CHOOSE g : Roll(g, N)
  <1>1. Roll(f, N)
    BY RollExists
  <1>2. Nodes!RolledBack(N) = f[cur_block][N]
    BY DEF Nodes!RolledBack, Roll, RollOf, Counters, Cancelled, Blocks
  <1> QED
    BY <1>1, <1>2

(* What a rollback from block b on leaves when the first m objects stay.     *)
RolledTo(pos, r, b, m) ==
    LET d == r.cur_block IN
    /\ d \in Chained /\ d <= b
    /\ pos[d] <= m /\ m <= pos[d] + cur_entry[d]
    /\ r.counters =
          [x \in Blocks |->
              IF x = d
              THEN [cur_entry |-> m - pos[d], free_entries |-> Entries - (m - pos[d])]
              ELSE IF x \in Chained /\ d < x /\ x <= b THEN Nodes!Emptied(x)
              ELSE Counters[x]]

(* What is known of the blocks of the chain. *)
LEMMA ChainFacts ==
    ASSUME PoolTypes, cur_block # 0, NEW pos \in [Blocks -> Nat], Links(pos)
    PROVE  /\ cur_block \in Chained
           /\ \A b \in Chained :
                 /\ b \in Blocks /\ b \in Nat /\ b <= cur_block
                 /\ pos[b] \in Nat /\ cur_entry[b] \in 0 .. Entries
                 /\ free_entries[b] = Entries - cur_entry[b]
                 /\ back[b] = 0 => pos[b] = 0
                 /\ back[b] # 0 =>
                       /\ back[b] \in Chained /\ cur_entry[back[b]] = Entries
                       /\ back[b] < b /\ pos[b] = pos[back[b]] + Entries
                 /\ \A x \in Chained :
                       x < b => back[b] # 0 /\ x <= back[b] /\ pos[x] + Entries <= pos[b]
           /\ \A b \in Blocks : b \notin Chained => cur_entry[b] = 0
  <1>1. cur_block \in Chained /\ Chained \subseteq Blocks
    BY DEF Chained, PoolTypes
  <1>2. ASSUME NEW b \in Chained
        PROVE  /\ b \in Blocks /\ b \in Nat
               /\ pos[b] \in Nat /\ cur_entry[b] \in 0 .. Entries
               /\ free_entries[b] = Entries - cur_entry[b] /\ back[b] < b
    <2>1. b \in Blocks /\ b \in Nat
      BY <1>1, PoolNumbers
    <2>2. /\ cur_entry[b] \in 0 .. Entries /\ free_entries[b] \in 0 .. Entries
          /\ cur_entry[b] + free_entries[b] = Entries /\ Entries \in Nat
          /\ back[b] < b
      BY <2>1, PoolNumbers DEF PoolTypes
    <2>3. free_entries[b] = Entries - cur_entry[b]
      BY <2>2
    <2> QED
      BY <2>1, <2>2, <2>3
  <1>3. ASSUME NEW b \in Blocks, b \notin Chained PROVE cur_entry[b] = 0
    <2>1. ~(cur_entry[b] > 0)
      BY <1>3 DEF Chained
    <2>2. cur_entry[b] \in 0 .. Entries /\ Entries \in Nat
      BY PoolNumbers DEF PoolTypes
    <2> QED
      BY <2>1, <2>2
  <1> QED
    BY <1>1, <1>2, <1>3 DEF Links

LEMMA RollGoesTo ==
    ASSUME PoolTypes, cur_block # 0, NEW pos \in [Blocks -> Nat], Links(pos),
           NEW N \in Nat, NEW f, Roll(f, N)
    PROVE  \A b \in Chained : \A n \in 0 .. N :
               n <= pos[b] + cur_entry[b] => RolledTo(pos, f[b][n], b, pos[b] + cur_entry[b] - n)
  <1> DEFINE Good(b) ==
                 \A n \in 0 .. N :
                     n <= pos[b] + cur_entry[b] =>
                         RolledTo(pos, f[b][n], b, pos[b] + cur_entry[b] - n)
             T == {k \in Nat : \A b \in Chained : b <= k => Good(b)}
  <1>1. /\ \A b \in Chained :
              /\ b \in Blocks /\ b \in Nat
              /\ pos[b] \in Nat /\ cur_entry[b] \in 0 .. Entries
              /\ free_entries[b] = Entries - cur_entry[b]
              /\ back[b] = 0 => pos[b] = 0
              /\ back[b] # 0 =>
                    /\ back[b] \in Chained /\ cur_entry[back[b]] = Entries
                    /\ back[b] < b /\ pos[b] = pos[back[b]] + Entries
              /\ \A x \in Chained :
                    x < b => back[b] # 0 /\ x <= back[b] /\ pos[x] + Entries <= pos[b]
        /\ Entries \in Nat \ {0}
    BY ChainFacts, PoolNumbers
  <1>2. ASSUME NEW b \in Chained, \A c \in Chained : c < b => Good(c)
        PROVE  Good(b)
    <2> SUFFICES ASSUME NEW n \in 0 .. N, n <= pos[b] + cur_entry[b]
                 PROVE  RolledTo(pos, f[b][n], b, pos[b] + cur_entry[b] - n)
      OBVIOUS
    <2>1. PICK p, e, m, r : p = pos[b] /\ e = cur_entry[b] /\ m = p + e - n /\ r = f[b][n]
      OBVIOUS
    <2>2. /\ b \in Blocks /\ b \in Nat /\ p \in Nat /\ e \in Nat /\ n \in Nat /\ m \in Nat
          /\ e <= Entries /\ n <= p + e
      BY <1>1, <2>1
    <2>3. r = IF n <= e
              THEN [counters |-> [Counters EXCEPT ![b] = Cancelled(n, b)], cur_block |-> b]
              ELSE IF back[b] = 0
              THEN [counters |-> [Counters EXCEPT ![b] = Nodes!Emptied(b)], cur_block |-> b]
              ELSE [counters |-> [f[back[b]][n - e].counters EXCEPT ![b] = Nodes!Emptied(b)],
                    cur_block |-> f[back[b]][n - e].cur_block]
      <3>1. f[b] = RollOf(f, N, b)
        BY <2>2 DEF Roll
      <3>2. r = RollOf(f, N, b)[n]
        BY <2>1, <3>1
      <3> QED
        BY <2>1, <3>2, PoolNumbers DEF RollOf, Nodes!LeftToCancel
    <2>4. CASE n <= e
      <3>1. r.cur_block = b /\ r.counters = [Counters EXCEPT ![b] = Cancelled(n, b)]
        BY <2>3, <2>4
      <3>2. e - n = m - p /\ (Entries - e) + n = Entries - (m - p)
        BY <1>1, <2>1, <2>2
      <3>3. Cancelled(n, b) = [cur_entry |-> m - p, free_entries |-> Entries - (m - p)]
        BY <1>1, <2>1, <3>2 DEF Cancelled
      <3>4. p <= m /\ m <= p + e /\ b <= b /\ \A x \in Blocks : ~(b < x /\ x <= b)
        <4>1. m = p + e - n /\ n >= 0
          BY <2>1, <2>2
        <4>2. p <= m /\ m <= p + e /\ b <= b
          BY <2>2, <2>4, <4>1
        <4>3. \A x \in Blocks : ~(b < x /\ x <= b)
          BY <2>2, PoolNumbers
        <4> QED
          BY <4>2, <4>3
      <3>5. r.counters = [x \in Blocks |->
                             IF x = b
                             THEN [cur_entry |-> m - p, free_entries |-> Entries - (m - p)]
                             ELSE IF x \in Chained /\ b < x /\ x <= b THEN Nodes!Emptied(x)
                             ELSE Counters[x]]
        BY <3>1, <3>3, <3>4 DEF Counters
      <3> QED
        BY <2>1, <3>1, <3>4, <3>5 DEF RolledTo
    <2>5. CASE ~(n <= e)
      <3>1. PICK c : c = back[b]
        OBVIOUS
      <3>2. c # 0
        BY <1>1, <2>1, <2>2, <2>5, <3>1
      <3>3. /\ c \in Chained /\ cur_entry[c] = Entries /\ c < b /\ p = pos[c] + Entries
            /\ pos[c] \in Nat /\ c \in Nat
        BY <1>1, <2>1, <3>1, <3>2
      <3>4. /\ n - e \in 0 .. N /\ n - e <= pos[c] + cur_entry[c]
            /\ m = pos[c] + cur_entry[c] - (n - e)
        BY <1>1, <2>1, <2>2, <2>5, <3>3
      <3>5. PICK s : s = f[c][n - e]
        OBVIOUS
      <3>6. RolledTo(pos, s, c, m)
        <4>1. Good(c)
          BY <1>2, <3>3
        <4> QED
          BY <3>4, <3>5, <4>1
      <3>7. PICK d : d = s.cur_block
        OBVIOUS
      <3>8. /\ r.cur_block = d
            /\ r.counters = [s.counters EXCEPT ![b] = Nodes!Emptied(b)]
        BY <2>3, <2>5, <3>1, <3>2, <3>5, <3>7
      <3>9. /\ d \in Chained /\ d <= c /\ pos[d] <= m /\ m <= pos[d] + cur_entry[d]
            /\ s.counters =
                  [x \in Blocks |->
                      IF x = d
                      THEN [cur_entry |-> m - pos[d], free_entries |-> Entries - (m - pos[d])]
                      ELSE IF x \in Chained /\ d < x /\ x <= c THEN Nodes!Emptied(x)
                      ELSE Counters[x]]
        BY <3>6, <3>7 DEF RolledTo
      <3>10. d \in Nat /\ d < b /\ d <= b /\ d # b
        BY <1>1, <2>2, <3>3, <3>9
      <3>11. \A x \in Blocks : x # b =>
                (x \in Chained /\ d < x /\ x <= b <=> x \in Chained /\ d < x /\ x <= c)
        <4> SUFFICES ASSUME NEW x \in Chained, x # b
                     PROVE  x <= b <=> x <= c
          OBVIOUS
        <4>1. x < b => x <= c
          BY <1>1, <3>1
        <4>2. x \in Nat
          BY <1>1
        <4> QED
          BY <2>2, <3>3, <4>1, <4>2
      <3>12. d < b /\ b <= b /\ b \in Chained
        BY <2>2, <3>10
      <3>13. r.counters =
                [x \in Blocks |->
                    IF x = d
                    THEN [cur_entry |-> m - pos[d], free_entries |-> Entries - (m - pos[d])]
                    ELSE IF x \in Chained /\ d < x /\ x <= b THEN Nodes!Emptied(x)
                    ELSE Counters[x]]
        BY <3>8, <3>9, <3>10, <3>11, <3>12
      <3> QED
        BY <2>1, <3>8, <3>9, <3>10, <3>13 DEF RolledTo
    <2> QED
      BY <2>4, <2>5
  <1> HIDE DEF Good
  <1>3. 0 \in T
    <2>1. ASSUME NEW b \in Chained, b <= 0 PROVE FALSE
      BY <1>1, <2>1, PoolNumbers
    <2> QED
      BY <2>1
  <1>4. ASSUME NEW k \in T PROVE k + 1 \in T
    <2>1. k \in Nat /\ \A b \in Chained : b <= k => Good(b)
      OBVIOUS
    <2>2. ASSUME NEW b \in Chained, b <= k + 1 PROVE Good(b)
      <3>1. \A c \in Chained : c < b => c <= k
        BY <1>1, <2>1, <2>2
      <3> QED
        BY <1>2, <2>1, <3>1
    <2> QED
      BY <2>1, <2>2
  <1> HIDE DEF T
  <1>5. T = Nat
    BY <1>3, <1>4, SetInduction DEF T
  <1>6. ASSUME NEW b \in Chained PROVE Good(b)
    <2>1. b \in T /\ b <= b
      BY <1>1, <1>5
    <2> QED
      BY <2>1 DEF T
  <1> QED
    BY <1>6 DEF Good

(* The end of a sequence, as a set. *)
LEMMA EndOfLog ==
    ASSUME NEW s, s \in Seq(Objects), NEW m \in 0 .. Len(s)
    PROVE  /\ SubSeq(s, 1, m) \in Seq(Objects) /\ Len(SubSeq(s, 1, m)) = m
           /\ \A i \in 1 .. m : SubSeq(s, 1, m)[i] = s[i]
           /\ Nodes!ToSet(SubSeq(s, m + 1, Len(s))) = {s[i] : i \in m + 1 .. Len(s)}
  <1>1. Len(s) \in Nat /\ m \in Nat /\ m <= Len(s)
    OBVIOUS
  <1>2. /\ SubSeq(s, 1, m) \in Seq(Objects) /\ Len(SubSeq(s, 1, m)) = m
        /\ \A i \in 1 .. m : SubSeq(s, 1, m)[i] = s[i]
    <2>1. \A i \in 1 .. m : i \in 1 .. Len(s)
      BY <1>1
    <2>2. \A i \in 1 .. m : s[i] \in Objects
      BY <2>1
    <2> QED
      BY <1>1, <2>2, SubSeqProperties
  <1>3. PICK u, k : u = SubSeq(s, m + 1, Len(s)) /\ k = Len(s) - m
    OBVIOUS
  <1>4. /\ u \in Seq(Objects) /\ Len(u) = k /\ k \in Nat
        /\ \A i \in 1 .. k : u[i] = s[m + i]
    <2>1. \A i \in m + 1 .. Len(s) : i \in 1 .. Len(s)
      BY <1>1
    <2>2. \A i \in m + 1 .. Len(s) : s[i] \in Objects
      BY <2>1
    <2>3. m + 1 \in 1 .. Len(s) + 1 /\ Len(s) \in m .. Len(s)
      BY <1>1
    <2> QED
      BY <1>1, <1>3, <2>2, <2>3, SubSeqProperties
  <1>5. Nodes!ToSet(u) = {u[i] : i \in 1 .. k}
    <2>1. DOMAIN u = 1 .. k
      BY <1>4, LenProperties
    <2> QED
      BY <2>1 DEF Nodes!ToSet
  <1>6. \A i \in 1 .. k : m + i \in m + 1 .. Len(s) /\ u[i] = s[m + i]
    BY <1>1, <1>3, <1>4
  <1>7. \A i \in m + 1 .. Len(s) : i - m \in 1 .. k /\ u[i - m] = s[i]
    <2> TAKE i \in m + 1 .. Len(s)
    <2>1. i - m \in 1 .. k /\ m + (i - m) = i
      BY <1>1, <1>3
    <2>2. u[i - m] = s[m + (i - m)]
      BY <1>4, <2>1
    <2> QED
      BY <2>1, <2>2
  <1>8. {u[i] : i \in 1 .. k} \subseteq {s[i] : i \in m + 1 .. Len(s)}
    BY <1>6
  <1>9. {s[i] : i \in m + 1 .. Len(s)} \subseteq {u[i] : i \in 1 .. k}
    BY <1>7
  <1> QED
    BY <1>2, <1>3, <1>5, <1>8, <1>9

(* Counters cur leave block d the objects up to place m, and none to those   *)
(* after it.                                                                 *)
LeftCounters(pos, m, d, cur) ==
    \A x \in Blocks : cur[x] = IF x = d THEN m - pos[d]
                               ELSE IF x \in Chained /\ d < x THEN 0
                               ELSE cur_entry[x]

LeavesFirst(pos, m, d, cur) ==
    /\ \A o \in Objects : o[2] < cur[o[1]] <=> o \in Counted /\ Place(pos, o) <= m
    /\ \A x \in Blocks : /\ cur[x] \in 0 .. Entries
                         /\ x < d /\ x \in Chained => cur[x] = cur_entry[x]
                         /\ cur_entry[x] = 0 => cur[x] = 0
    /\ {x \in Blocks : cur[x] > 0} \union {d} = {x \in Chained : x <= d}

(* A rollback leaves the objects whose places are among the first m.         *)
LEMMA RollbackLeaves ==
    ASSUME PoolTypes, cur_block # 0, NEW pos \in [Blocks -> Nat], Links(pos), Logged(pos),
           NEW m \in Nat, m <= Len(log), NEW d, d \in Chained,
           pos[d] <= m, m <= pos[d] + cur_entry[d],
           NEW cur, LeftCounters(pos, m, d, cur)
    PROVE  LeavesFirst(pos, m, d, cur)
  <1>0. \A x \in Blocks : cur[x] = IF x = d THEN m - pos[d]
                                   ELSE IF x \in Chained /\ d < x THEN 0
                                   ELSE cur_entry[x]
    BY DEF LeftCounters
  <1>1. /\ cur_block \in Chained
        /\ \A b \in Chained :
              /\ b \in Blocks /\ b \in Nat /\ b <= cur_block
              /\ pos[b] \in Nat /\ cur_entry[b] \in 0 .. Entries
              /\ \A x \in Chained : x < b => pos[x] + Entries <= pos[b]
        /\ \A b \in Blocks : b \notin Chained => cur_entry[b] = 0
        /\ Entries \in Nat \ {0}
    BY ChainFacts, PoolNumbers
  <1>2. ASSUME NEW o \in Objects
        PROVE  o[2] < cur[o[1]] <=> o \in Counted /\ Place(pos, o) <= m
    <2>1. PICK b, e : b = o[1] /\ e = o[2]
      OBVIOUS
    <2>2. /\ b \in Blocks /\ e \in 0 .. Entries - 1
          /\ o \in Counted <=> e < cur_entry[b]
          /\ Place(pos, o) = pos[b] + e + 1 /\ b \in Nat
      BY <2>1, CountedIs, PoolNumbers DEF Place
    <2>3. CASE b \notin Chained
      <3>1. b # d /\ cur_entry[b] = 0
        BY <1>1, <2>2, <2>3
      <3>2. cur[b] = 0
        BY <1>0, <2>2, <2>3, <3>1
      <3>3. ~(e < 0)
        BY <1>1, <2>2
      <3> QED
        BY <2>1, <2>2, <3>1, <3>2, <3>3
    <2>4. CASE b = d
      <3>1. PICK p, c : p = pos[d] /\ c = cur_entry[d]
        OBVIOUS
      <3>2. /\ p \in Nat /\ c \in Nat /\ p <= m /\ m <= p + c /\ e \in Nat
        BY <1>1, <2>2, <3>1
      <3>3. cur[b] = m - p
        BY <1>0, <2>2, <2>4, <3>1
      <3>4. e < m - p <=> e < c /\ p + e + 1 <= m
        BY <3>2
      <3> QED
        BY <2>1, <2>2, <2>4, <3>1, <3>3, <3>4
    <2>5. CASE b \in Chained /\ d < b
      <3>1. PICK p, c, q : p = pos[d] /\ c = cur_entry[d] /\ q = pos[b]
        OBVIOUS
      <3>2. /\ p \in Nat /\ c \in 0 .. Entries /\ q \in Nat /\ e \in Nat /\ m <= p + c
            /\ p + Entries <= q
        BY <1>1, <2>2, <2>5, <3>1
      <3>3. ~(q + e + 1 <= m) /\ ~(e < 0)
        BY <1>1, <3>2
      <3>4. cur[b] = 0
        <4>1. b # d
          BY <1>1, <2>2, <2>5
        <4> QED
          BY <1>0, <2>2, <2>5, <4>1
      <3> QED
        BY <2>1, <2>2, <3>1, <3>3, <3>4
    <2>6. CASE b \in Chained /\ b < d
      <3>1. PICK p, c, q : p = pos[d] /\ c = cur_entry[b] /\ q = pos[b]
        OBVIOUS
      <3>2. /\ p \in Nat /\ c \in 0 .. Entries /\ q \in Nat /\ e \in Nat /\ p <= m
            /\ q + Entries <= p
        BY <1>1, <2>2, <2>6, <3>1
      <3>3. e < c => q + e + 1 <= m
        BY <1>1, <3>2
      <3>4. cur[b] = c
        <4>1. b # d /\ ~(d < b)
          BY <1>1, <2>2, <2>6
        <4> QED
          BY <1>0, <2>2, <3>1, <4>1
      <3> QED
        BY <2>1, <2>2, <3>1, <3>3, <3>4
    <2>7. b = d \/ d < b \/ b < d
      BY <1>1, <2>2
    <2> QED
      BY <2>3, <2>4, <2>5, <2>6, <2>7
  <1>3. ASSUME NEW x \in Blocks
        PROVE  /\ cur[x] \in 0 .. Entries
               /\ x < d /\ x \in Chained => cur[x] = cur_entry[x]
               /\ cur_entry[x] = 0 => cur[x] = 0
    <2>1. CASE x = d
      <3>1. PICK p, c : p = pos[d] /\ c = cur_entry[d]
        OBVIOUS
      <3>2. p \in Nat /\ c \in 0 .. Entries /\ p <= m /\ m <= p + c /\ d \in Nat
        BY <1>1, <3>1
      <3>3. m - p \in 0 .. Entries /\ (c = 0 => m - p = 0) /\ ~(d < d)
        BY <1>1, <3>2
      <3>4. cur[x] = m - p
        BY <1>0, <2>1, <3>1
      <3> QED
        BY <2>1, <3>1, <3>3, <3>4
    <2>2. CASE x # d
      <3>1. cur_entry[x] \in 0 .. Entries /\ 0 \in 0 .. Entries
        BY <1>1 DEF PoolTypes
      <3>2. x < d => ~(d < x)
        BY <1>1, PoolNumbers
      <3> QED
        BY <1>0, <2>2, <3>1, <3>2
    <2> QED
      BY <2>1, <2>2
  <1>4. {x \in Blocks : cur[x] > 0} \union {d} = {x \in Chained : x <= d}
    <2>1. ASSUME NEW x \in Blocks, cur[x] > 0, x # d PROVE x \in Chained /\ x <= d
      <3>1. ~(0 > 0)
        OBVIOUS
      <3>2. x \in Chained /\ ~(d < x)
        BY <1>0, <1>1, <2>1, <3>1
      <3> QED
        BY <1>1, <3>2
    <2>2. d <= d
      BY <1>1
    <2>3. ASSUME NEW x \in Chained, x <= d, x # d PROVE x \in Blocks /\ cur[x] > 0
      <3>1. x < d /\ x \in Blocks /\ x # cur_block /\ d <= cur_block
        BY <1>1, <2>3
      <3>2. cur_entry[x] > 0
        BY <3>1 DEF Chained
      <3> QED
        BY <1>3, <3>1, <3>2
    <2> QED
      BY <2>1, <2>2, <2>3
  <1> QED
    BY <1>2, <1>3, <1>4 DEF LeavesFirst

LEMMA RollbackKeeps ==
    ASSUME PoolInv, NEW n \in 1 .. Len(log), Nodes!synchRollback(n), UNCHANGED usage
    PROVE  PoolInv'
  <1>1. PICK rolled : rolled = Nodes!RolledBack(n)
    OBVIOUS
  <1>2. PICK m : m = Len(log) - n
    OBVIOUS
  <1>3. /\ usage = "rollback" /\ cur_block # 0
        /\ cur_entry' = [b \in Blocks |-> rolled.counters[b].cur_entry]
        /\ free_entries' = [b \in Blocks |-> rolled.counters[b].free_entries]
        /\ cur_block' = rolled.cur_block
        /\ in_use' = in_use \ Nodes!ToSet(SubSeq(log, m + 1, Len(log)))
        /\ log' = SubSeq(log, 1, m)
        /\ UNCHANGED <<back, recycle_list, held>>
    BY <1>1, <1>2, PoolNumbers DEF Nodes!synchRollback, Blocks
  <1>4. PoolTypes /\ HeldInv /\ InPlaces /\ UsageInv
    BY DEF PoolInv
  <1>5. PICK pos \in [Blocks -> Nat] : Links(pos) /\ Logged(pos)
    BY <1>3 DEF PoolInv, LogInv
  <1>6. /\ Len(log) \in Nat /\ n \in Nat /\ m \in Nat /\ m <= Len(log) /\ m \in 0 .. Len(log)
    <2>1. Len(log) \in Nat
      BY <1>4 DEF PoolTypes
    <2> QED
      BY <1>2, <2>1
  <1>7. RolledTo(pos, rolled, cur_block, m)
    <2>1. PICK f : Roll(f, n) /\ rolled = f[cur_block][n]
      BY <1>1, <1>4, <1>6, RolledBackIs
    <2>2. cur_block \in Chained
      BY <1>3, <1>4, <1>5, ChainFacts
    <2>3. Len(log) = pos[cur_block] + cur_entry[cur_block]
      BY <1>5 DEF Logged
    <2>4. n \in 0 .. n /\ n <= pos[cur_block] + cur_entry[cur_block]
      BY <1>6, <2>3
    <2>5. \A b \in Chained : \A i \in 0 .. n :
              i <= pos[b] + cur_entry[b] =>
                  RolledTo(pos, f[b][i], b, pos[b] + cur_entry[b] - i)
      BY <1>3, <1>4, <1>5, <1>6, <2>1, RollGoesTo
    <2>6. RolledTo(pos, f[cur_block][n], cur_block, pos[cur_block] + cur_entry[cur_block] - n)
      BY <2>2, <2>4, <2>5
    <2>7. pos[cur_block] + cur_entry[cur_block] - n = m
      <3>1. PICK p, e, l : p = pos[cur_block] /\ e = cur_entry[cur_block] /\ l = Len(log)
        OBVIOUS
      <3>2. l = p + e /\ m = l - n
        BY <1>2, <2>3, <3>1
      <3>3. p \in Nat /\ e \in Nat /\ l \in Nat /\ n \in Nat
        <4>1. cur_block \in Blocks /\ e \in 0 .. Entries /\ Entries \in Nat
          BY <1>3, <1>4, <1>5, <2>2, <3>1, ChainFacts, PoolNumbers
        <4> QED
          BY <1>6, <3>1, <4>1
      <3>4. p + e - n = m
        BY <3>2, <3>3
      <3> QED
        BY <3>1, <3>4
    <2> QED
      BY <2>1, <2>6, <2>7
  <1>8. PICK d : d = rolled.cur_block
    OBVIOUS
  <1>9. /\ d \in Chained /\ d <= cur_block /\ pos[d] <= m /\ m <= pos[d] + cur_entry[d]
        /\ rolled.counters =
              [x \in Blocks |->
                  IF x = d
                  THEN [cur_entry |-> m - pos[d], free_entries |-> Entries - (m - pos[d])]
                  ELSE IF x \in Chained /\ d < x /\ x <= cur_block THEN Nodes!Emptied(x)
                  ELSE Counters[x]]
    BY <1>7, <1>8 DEF RolledTo
  <1>10. /\ cur_block \in Chained /\ Entries \in Nat \ {0}
         /\ \A b \in Chained :
               /\ b \in Blocks /\ b \in Nat /\ b <= cur_block
               /\ pos[b] \in Nat /\ cur_entry[b] \in 0 .. Entries
               /\ back[b] = 0 => pos[b] = 0
               /\ back[b] # 0 =>
                     /\ back[b] \in Chained /\ cur_entry[back[b]] = Entries
                     /\ back[b] < b /\ pos[b] = pos[back[b]] + Entries
               /\ \A x \in Chained :
                     x < b => back[b] # 0 /\ x <= back[b] /\ pos[x] + Entries <= pos[b]
    BY <1>3, <1>4, <1>5, ChainFacts, PoolNumbers
  <1>11. PICK cur, free : cur = cur_entry' /\ free = free_entries'
    OBVIOUS
  <1>12. \A x \in Blocks : /\ cur[x] = IF x = d THEN m - pos[d]
                                       ELSE IF x \in Chained /\ d < x THEN 0
                                       ELSE cur_entry[x]
                           /\ free[x] = Entries - cur[x]
    <2> TAKE x \in Blocks
    <2>1. cur[x] = rolled.counters[x].cur_entry /\ free[x] = rolled.counters[x].free_entries
      BY <1>3, <1>11
    <2>2. CASE x = d
      BY <1>9, <2>1, <2>2
    <2>3. CASE x # d /\ x \in Chained /\ d < x
      <3>1. rolled.counters[x] = [cur_entry |-> 0, free_entries |-> Entries]
        BY <1>9, <1>10, <2>3 DEF Nodes!Emptied
      <3>2. Entries - 0 = Entries
        BY <1>10
      <3> QED
        BY <2>1, <2>3, <3>1, <3>2
    <2>4. CASE x # d /\ ~(x \in Chained /\ d < x)
      <3>1. rolled.counters[x] = [cur_entry |-> cur_entry[x], free_entries |-> free_entries[x]]
        BY <1>9, <2>4 DEF Counters
      <3>2. free_entries[x] = Entries - cur_entry[x]
        <4>1. /\ cur_entry[x] \in 0 .. Entries /\ free_entries[x] \in 0 .. Entries
              /\ cur_entry[x] + free_entries[x] = Entries
          BY <1>4 DEF PoolTypes
        <4> QED
          BY <1>10, <4>1
      <3> QED
        BY <2>1, <2>4, <3>1, <3>2
    <2> QED
      BY <2>2, <2>3, <2>4
  <1>13. /\ \A o \in Objects : o[2] < cur[o[1]] <=> o \in Counted /\ Place(pos, o) <= m
         /\ \A x \in Blocks : /\ cur[x] \in 0 .. Entries
                              /\ x < d /\ x \in Chained => cur[x] = cur_entry[x]
                              /\ cur_entry[x] = 0 => cur[x] = 0
         /\ {x \in Blocks : cur[x] > 0} \union {d} = {x \in Chained : x <= d}
    <2>1. PoolTypes /\ cur_block # 0 /\ Links(pos) /\ Logged(pos) /\ m \in Nat /\ m <= Len(log)
      BY <1>3, <1>4, <1>5, <1>6
    <2>2. d \in Chained /\ pos[d] <= m /\ m <= pos[d] + cur_entry[d]
      BY <1>9
    <2>3. LeftCounters(pos, m, d, cur)
      BY <1>12 DEF LeftCounters
    <2>4. LeavesFirst(pos, m, d, cur)
      BY <2>1, <2>2, <2>3, RollbackLeaves
    <2> QED
      BY <2>4 DEF LeavesFirst
  <1>14. Counted' = {o \in Counted : Place(pos, o) <= m} /\ Counted \subseteq Objects
    <2>1. Counted' = {o \in Objects : o[2] < cur[o[1]]}
      BY <1>11 DEF Counted, Nodes!Counted, Objects, Nodes!Objects, Nodes!Blocks
    <2>2. Counted \subseteq Objects
      BY CountedIs
    <2> QED
      BY <1>13, <2>1, <2>2
  <1>15. Chained' = {x \in Chained : x <= d}
    <2>1. Chained' = {x \in Blocks : cur[x] > 0} \union {d}
      BY <1>3, <1>8, <1>11 DEF Chained, Blocks, Nodes!Blocks
    <2> QED
      BY <1>13, <2>1
  <1>16. PICK s : s = log
    OBVIOUS
  <1>17. /\ s \in Seq(Objects)
         /\ SubSeq(s, 1, m) \in Seq(Objects) /\ Len(SubSeq(s, 1, m)) = m
         /\ \A i \in 1 .. m : SubSeq(s, 1, m)[i] = s[i]
         /\ Nodes!ToSet(SubSeq(s, m + 1, Len(s))) = {s[i] : i \in m + 1 .. Len(s)}
    BY <1>4, <1>6, <1>16, EndOfLog DEF PoolTypes
  <1>18. /\ \A o \in Counted : Place(pos, o) \in 1 .. Len(s) /\ s[Place(pos, o)] = o
         /\ \A i \in 1 .. Len(s) : s[i] \in Counted /\ Place(pos, s[i]) = i
    BY <1>5, <1>16 DEF Logged
  <1>19. InPlaces'
    <2>1. Len(<<>>) = 0 /\ recycle_list = <<>> /\ recycle_list' = <<>>
      BY <1>3, <1>4 DEF UsageInv
    <2>2. Recycled = {} /\ Recycled' = {}
      BY <2>1 DEF Recycled
    <2>3. Counted = in_use
      BY <1>4, <2>2 DEF InPlaces
    <2>4. in_use' = Counted \ {s[i] : i \in m + 1 .. Len(s)}
      BY <1>3, <1>16, <1>17, <2>3
    <2>5. ASSUME NEW o \in Counted
          PROVE  Place(pos, o) <= m <=> o \notin {s[i] : i \in m + 1 .. Len(s)}
      <3>1. PICK p : p = Place(pos, o)
        OBVIOUS
      <3>2. p \in 1 .. Len(s) /\ s[p] = o /\ Len(s) \in Nat
        BY <1>6, <1>16, <1>18, <3>1
      <3>3. CASE p <= m
        <4>1. ASSUME NEW i \in m + 1 .. Len(s), s[i] = o PROVE FALSE
          <5>1. i \in 1 .. Len(s)
            BY <1>6, <3>2
          <5>2. Place(pos, s[i]) = i
            BY <1>18, <5>1
          <5>3. i = p
            BY <3>1, <4>1, <5>2
          <5> QED
            BY <1>6, <3>2, <3>3, <5>1, <5>3
        <4> QED
          BY <3>1, <3>3, <4>1
      <3>4. CASE ~(p <= m)
        <4>1. p \in m + 1 .. Len(s)
          BY <1>6, <3>2, <3>4
        <4> QED
          BY <3>1, <3>2, <3>4, <4>1
      <3> QED
        BY <3>3, <3>4
    <2>6. Counted' = in_use'
      BY <1>14, <2>4, <2>5
    <2> QED
      BY <2>1, <2>2, <2>6 DEF InPlaces
  <1>20. PoolTypes'
    <2>1. cur \in [Blocks -> 0 .. Entries] /\ free \in [Blocks -> 0 .. Entries]
      <3>1. \A x \in Blocks : cur[x] \in 0 .. Entries /\ free[x] \in 0 .. Entries
        BY <1>10, <1>12, <1>13
      <3>2. cur = [b \in Blocks |-> cur[b]] /\ free = [b \in Blocks |-> free[b]]
        BY <1>3, <1>11
      <3> QED
        BY <3>1, <3>2
    <2>2. \A x \in Blocks : cur[x] + free[x] = Entries
      BY <1>10, <1>12, <1>13
    <2>3. d \in Blocks
      BY <1>9, <1>10
    <2>4. in_use' \subseteq Objects
      BY <1>3, <1>4 DEF PoolTypes
    <2>5. log' \in Seq(Objects)
      BY <1>3, <1>16, <1>17
    <2> QED
      BY <1>3, <1>4, <1>8, <1>11, <2>1, <2>2, <2>3, <2>4, <2>5
         DEF PoolTypes, Objects, Nodes!Objects, Blocks, Nodes!Blocks
  <1>21. HeldInv'
    <2>1. /\ Cardinality(held) \in Nat /\ held = 1 .. Cardinality(held) /\ cur_block \in held
          /\ \A b \in Blocks : b \notin held => cur_entry[b] = 0
      BY <1>3, <1>4 DEF HeldInv
    <2>2. PICK h \in Nat : h = Cardinality(held)
      BY <2>1
    <2>3. d \in held
      <3>1. d \in Nat /\ d # 0 /\ d <= cur_block /\ cur_block \in 1 .. h
        BY <1>9, <1>10, <2>1, <2>2, PoolNumbers
      <3> QED
        BY <2>1, <2>2, <3>1
    <2> QED
      BY <1>3, <1>8, <1>11, <1>13, <2>1, <2>3 DEF HeldInv, Blocks, Nodes!Blocks
  <1>22. UsageInv'
    BY <1>3, <1>4, <1>8, <1>9, <1>10, PoolNumbers DEF UsageInv
  <1>23. LogInv'
    <2>1. Links(pos)'
      <3>1. ASSUME NEW b \in Chained, b <= d
            PROVE  /\ back[b] # 0 => /\ back[b] \in Chained /\ back[b] <= d
                                     /\ cur[back[b]] = Entries
      <4> SUFFICES ASSUME back[b] # 0
                   PROVE  back[b] \in Chained /\ back[b] <= d /\ cur[back[b]] = Entries
        OBVIOUS
      <4>1. PICK c : c = back[b]
        OBVIOUS
      <4>2. /\ c \in Chained /\ cur_entry[c] = Entries /\ c < b /\ c \in Nat /\ b \in Nat
            /\ d \in Nat /\ c \in Blocks
        BY <1>9, <1>10, <4>1
      <4>3. c < d
        BY <3>1, <4>2
      <4>4. c <= d /\ cur[c] = Entries
        BY <1>13, <4>2, <4>3
      <4> QED
        BY <4>1, <4>2, <4>4
      <3>2. cur_block' = d /\ back' = back /\ cur_entry' = cur
        BY <1>3, <1>8, <1>11
      <3> QED
        BY <1>10, <1>15, <3>1, <3>2 DEF Links
    <2>2. Logged(pos)'
      <3>1. PICK u : u = SubSeq(s, 1, m)
        OBVIOUS
      <3>2. Len(u) = m /\ \A i \in 1 .. m : u[i] = s[i]
        BY <1>17, <3>1
      <3>3. m = pos[d] + cur[d]
        <4>1. PICK p : p = pos[d]
          OBVIOUS
        <4>2. cur[d] = m - p /\ p \in Nat
          BY <1>9, <1>10, <1>12, <4>1
        <4> QED
          BY <1>6, <4>1, <4>2
      <3>4. ASSUME NEW o \in Counted, Place(pos, o) <= m
            PROVE  Place(pos, o) \in 1 .. m /\ u[Place(pos, o)] = o
        <4>1. PICK p : p = Place(pos, o)
          OBVIOUS
        <4>2. p \in 1 .. Len(s) /\ s[p] = o /\ p <= m /\ Len(s) \in Nat
          BY <1>6, <1>16, <1>18, <3>4, <4>1
        <4>3. p \in 1 .. m
          BY <1>6, <4>2
        <4> QED
          BY <3>2, <4>1, <4>2, <4>3
      <3>5. ASSUME NEW i \in 1 .. m
            PROVE  u[i] \in Counted /\ Place(pos, u[i]) = i /\ i <= m
        <4>1. i \in 1 .. Len(s)
          BY <1>6, <1>16
        <4> QED
          BY <1>6, <1>18, <3>2, <4>1
      <3>6. log' = u /\ cur_block' = d /\ cur_entry' = cur
        BY <1>3, <1>8, <1>11, <1>16, <3>1
      <3> QED
        BY <1>14, <3>2, <3>3, <3>4, <3>5, <3>6 DEF Logged, Place
    <2>3. pos \in [Blocks -> Nat]' /\ cur_block' # 0
      BY <1>3, <1>8, <1>9, <1>10, PoolNumbers DEF Blocks, Nodes!Blocks
    <2> QED
      BY <2>1, <2>2, <2>3 DEF LogInv
  <1> QED
    BY <1>19, <1>20, <1>21, <1>22, <1>23 DEF PoolInv

LEMMA PoolInvInit ==
    ASSUME PartsInit
    PROVE  PoolInv
  <1>1. /\ cur_entry = [b \in Blocks |-> 0] /\ free_entries = [b \in Blocks |-> Entries]
        /\ back = [b \in Blocks |-> 0]
        /\ recycle_list = <<>> /\ cur_block = 1 /\ held = {1} /\ usage \in Usages
        /\ in_use = {} /\ log = <<>>
        /\ Usages \subseteq {"recycle", "rollback"}
    BY BoundsAssumption DEF PartsInit, Nodes!Init, Nodes!NoBlock, Blocks, Nodes!PoolAssumption
  <1>2. 1 \in Blocks
    BY PoolNumbers
  <1>3. Len(<<>>) = 0
    OBVIOUS
  <1>4. PoolTypes
    <2>1. /\ 0 \in 0 .. Entries /\ Entries \in 0 .. Entries /\ 0 + Entries = Entries
          /\ 0 \in 0 .. MaxBlocks /\ \A b \in Blocks : 0 < b
      BY PoolNumbers
    <2>2. <<>> \in Seq(Objects)
      OBVIOUS
    <2> QED
      BY <1>1, <1>2, <2>1, <2>2 DEF PoolTypes
  <1>5. HeldInv
    <2>1. Cardinality({1}) = 1
      BY FS_Singleton
    <2>2. {1} = 1 .. 1
      OBVIOUS
    <2> QED
      BY <1>1, <1>2, <2>1, <2>2 DEF HeldInv
  <1>6. Counted = {}
    <2>1. \A o \in Objects : cur_entry[o[1]] = 0 /\ ~(o[2] < 0)
      BY <1>1, PoolNumbers
    <2> QED
      BY <2>1, CountedIs DEF Counted, Nodes!Counted, Objects
  <1>7. InPlaces
    BY <1>1, <1>3, <1>6 DEF InPlaces, Recycled
  <1>8. UsageInv
    BY <1>1 DEF UsageInv
  <1>9. LogInv
    <2>1. PICK pos \in [Blocks -> Nat] : \A b \in Blocks : pos[b] = 0
      <3> [b \in Blocks |-> 0] \in [Blocks -> Nat]
        OBVIOUS
      <3> QED
        OBVIOUS
    <2>2. Chained = {1}
      <3>1. \A b \in Blocks : ~(cur_entry[b] > 0)
        BY <1>1
      <3> QED
        BY <1>1, <3>1 DEF Chained
    <2>3. Links(pos)
      BY <1>1, <1>2, <2>1, <2>2 DEF Links
    <2>4. Logged(pos)
      BY <1>1, <1>2, <1>3, <1>6, <2>1 DEF Logged
    <2> QED
      BY <2>3, <2>4 DEF LogInv
  <1> QED
    BY <1>4, <1>5, <1>7, <1>8, <1>9 DEF PoolInv

LEMMA PoolInvNext ==
    ASSUME PoolInv, [PartsNext]_partsVars
    PROVE  PoolInv'
  <1>1. CASE UNCHANGED poolVars
    BY <1>1, PoolUnchanged
  <1>2. CASE Nodes!Next
    <2>1. UNCHANGED usage
      BY <1>2 DEF Nodes!Next
    <2>2. CASE Nodes!synchAllocObj
      <3>1. cur_block # 0
        BY <2>2, PoolNumbers DEF Nodes!synchAllocObj
      <3>2. Nodes!AllocRecycled \/ Nodes!AllocEntry \/ Nodes!AllocBlock
        BY <2>2 DEF Nodes!synchAllocObj
      <3> QED
        BY <2>1, <3>1, <3>2, AllocRecycledKeeps, AllocEntryKeeps, AllocBlockKeeps
    <2>3. CASE \E o \in Objects : Nodes!synchRecycleObj(o)
      BY <2>1, <2>3, RecycleKeeps
    <2>4. CASE \E n \in 1 .. Len(log) : Nodes!synchRollback(n)
      BY <2>1, <2>4, RollbackKeeps
    <2>5. CASE Nodes!synchDestroyPool
      BY <2>1, <2>5, DestroyKeeps
    <2> QED
      BY <1>2, <2>2, <2>3, <2>4, <2>5 DEF Nodes!Next, Objects
  <1> QED
    BY <1>1, <1>2 DEF PartsNext, partsVars

(* Every object that the counters of the blocks say is allocated is in use   *)
(* or on the recycle list, once, and a rollback takes back the last          *)
(* allocations and no other (pool.c:76-130).                                 *)
THEOREM ObjectsInOnePlace == PartsSpec => []ObjectsAccountedFor
  <1>1. PartsInit => PoolInv
    BY PoolInvInit
  <1>2. PoolInv /\ [PartsNext]_partsVars => PoolInv'
    BY PoolInvNext
  <1>3. PoolInv => ObjectsAccountedFor
    BY AccountedFor
  <1> QED
    BY <1>1, <1>2, <1>3, PTL DEF PartsSpec
-----------------------------------------------------------------------------
(* The heap: its slots                                                       *)

(* A level has twice as many slots as the one before.                        *)
LEMMA SizesOfLevels ==
    /\ SizeOfLevel[0] = 1
    /\ \A l \in 0 .. Levels - 1 : SizeOfLevel[l + 1] = 2 * SizeOfLevel[l]
    /\ \A l \in 0 .. Levels : SizeOfLevel[l] \in Nat \ {0}
  <1> DEFINE Sizes(f, k) ==
                 \A l \in 0 .. Levels : l <= k => f[l] = IF l = 0 THEN 1 ELSE 2 * f[l - 1]
             T == {k \in Nat : \E f : f = [l \in 0 .. Levels |-> f[l]] /\ Sizes(f, k)}
  <1>1. Levels \in Nat /\ Levels >= 2
    BY SizesAssumption
  <1>2. 0 \in T
    <2> DEFINE f == [l \in 0 .. Levels |-> 1]
    <2>1. f = [l \in 0 .. Levels |-> f[l]]
      OBVIOUS
    <2>2. Sizes(f, 0)
      OBVIOUS
    <2> QED
      BY <2>1, <2>2
  <1>3. ASSUME NEW k \in T
        PROVE  k + 1 \in T
    <2>1. PICK f : f = [l \in 0 .. Levels |-> f[l]] /\ Sizes(f, k)
      OBVIOUS
    <2>2. PICK n : n = 2 * f[k]
      OBVIOUS
    <2> DEFINE g == [l \in 0 .. Levels |-> IF l = k + 1 THEN n ELSE f[l]]
    <2>3. g = [l \in 0 .. Levels |-> g[l]]
      OBVIOUS
    <2>4. \A l \in 0 .. Levels : g[l] = IF l = k + 1 THEN n ELSE f[l]
      OBVIOUS
    <2> HIDE DEF g
    <2>5. ASSUME NEW l \in 0 .. Levels, l <= k + 1
          PROVE  g[l] = IF l = 0 THEN 1 ELSE 2 * g[l - 1]
      <3>1. l # 0 => l - 1 \in 0 .. Levels /\ l - 1 # k + 1
        BY <1>1, <2>5
      <3>2. l # 0 => g[l - 1] = f[l - 1]
        BY <2>4, <3>1
      <3>3. CASE l = k + 1
        <4>1. l # 0 /\ l - 1 = k
          BY <3>3
        <4> QED
          BY <2>2, <2>4, <3>2, <3>3, <4>1
      <3>4. CASE l # k + 1
        <4>1. l <= k
          BY <2>5, <3>4
        <4>2. f[l] = IF l = 0 THEN 1 ELSE 2 * f[l - 1]
          BY <2>1, <4>1
        <4> QED
          BY <2>4, <3>2, <3>4, <4>2
      <3> QED
        BY <3>3, <3>4
    <2>6. Sizes(g, k + 1)
      BY <2>5
    <2> HIDE DEF Sizes
    <2>7. \E h : h = [l \in 0 .. Levels |-> h[l]] /\ Sizes(h, k + 1)
      BY <2>3, <2>6
    <2>8. k + 1 \in Nat
      OBVIOUS
    <2> QED
      BY <2>7, <2>8, Zenon
  <1> HIDE DEF T
  <1>4. T = Nat
    BY <1>2, <1>3, SetInduction DEF T
  <1>5. \E f : f = [l \in 0 .. Levels |-> IF l = 0 THEN 1 ELSE 2 * f[l - 1]]
    <2>1. Levels \in T
      BY <1>1, <1>4
    <2>2. PICK f : f = [l \in 0 .. Levels |-> f[l]] /\ Sizes(f, Levels)
      BY <2>1 DEF T
    <2>3. ASSUME NEW l \in 0 .. Levels PROVE f[l] = IF l = 0 THEN 1 ELSE 2 * f[l - 1]
      <3>1. Sizes(f, Levels)
        BY <2>2
      <3>2. l <= Levels
        BY <1>1
      <3> QED
        BY <3>1, <3>2
    <2> QED
      BY <2>2, <2>3
  <1>6. SizeOfLevel = [l \in 0 .. Levels |-> IF l = 0 THEN 1 ELSE 2 * SizeOfLevel[l - 1]]
    BY <1>5 DEF SizeOfLevel
  <1>7. \A l \in 0 .. Levels : SizeOfLevel[l] = IF l = 0 THEN 1 ELSE 2 * SizeOfLevel[l - 1]
    BY <1>6
  <1>8. \A l \in 0 .. Levels - 1 : SizeOfLevel[l + 1] = 2 * SizeOfLevel[l]
    <2> TAKE l \in 0 .. Levels - 1
    <2>1. l + 1 \in 0 .. Levels /\ l + 1 # 0 /\ (l + 1) - 1 = l
      BY <1>1
    <2> QED
      BY <1>7, <2>1
  <1>9. SizeOfLevel[0] = 1
    BY <1>1, <1>7
  <1> DEFINE P == {k \in Nat : k <= Levels => SizeOfLevel[k] \in Nat \ {0}}
  <1>10. 0 \in P
    BY <1>9
  <1>11. ASSUME NEW k \in P PROVE k + 1 \in P
    <2> SUFFICES ASSUME k + 1 <= Levels PROVE SizeOfLevel[k + 1] \in Nat \ {0}
      OBVIOUS
    <2>1. k \in 0 .. Levels - 1 /\ SizeOfLevel[k] \in Nat \ {0}
      BY <1>1
    <2> QED
      BY <1>8, <2>1
  <1> HIDE DEF P
  <1>12. P = Nat
    BY <1>10, <1>11, SetInduction DEF P
  <1>13. \A l \in 0 .. Levels : SizeOfLevel[l] \in Nat \ {0}
    <2> TAKE l \in 0 .. Levels
    <2>1. l \in P /\ l <= Levels
      BY <1>1, <1>12
    <2> QED
      BY <2>1 DEF P
  <1> QED
    BY <1>8, <1>9, <1>13

(* Every level fits.                                                         *)
LEMMA LevelsFit ==
    \A l \in 0 .. Levels : SizeOfLevel[l] <= SizeOfLevel[Levels]
  <1> DEFINE T == {k \in Nat : k <= Levels => SizeOfLevel[Levels - k] <= SizeOfLevel[Levels]}
  <1>1. Levels \in Nat
    BY SizesAssumption
  <1>2. 0 \in T
    <2>1. SizeOfLevel[Levels] \in Nat /\ Levels - 0 = Levels
      BY <1>1, SizesOfLevels
    <2> QED
      BY <2>1
  <1>3. ASSUME NEW k \in T PROVE k + 1 \in T
    <2> SUFFICES ASSUME k + 1 <= Levels
                 PROVE  SizeOfLevel[Levels - (k + 1)] <= SizeOfLevel[Levels]
      OBVIOUS
    <2>1. PICK l, m, n : l = Levels - (k + 1) /\ m = Levels - k /\ n = Levels
      OBVIOUS
    <2>2. l \in 0 .. Levels - 1 /\ l + 1 = m /\ m \in 0 .. Levels /\ l \in 0 .. Levels
          /\ n \in 0 .. Levels
      BY <1>1, <2>1
    <2>3. SizeOfLevel[m] = 2 * SizeOfLevel[l] /\ SizeOfLevel[m] <= SizeOfLevel[n]
      BY <1>1, <2>1, <2>2, SizesOfLevels
    <2>4. SizeOfLevel[l] \in Nat /\ SizeOfLevel[m] \in Nat /\ SizeOfLevel[n] \in Nat
      BY <2>2, SizesOfLevels
    <2> QED
      BY <2>1, <2>3, <2>4
  <1> HIDE DEF T
  <1>4. T = Nat
    BY <1>2, <1>3, SetInduction DEF T
  <1>5. ASSUME NEW l \in 0 .. Levels PROVE SizeOfLevel[l] <= SizeOfLevel[Levels]
    <2>1. PICK k : k = Levels - l
      OBVIOUS
    <2>2. k \in T /\ k <= Levels /\ Levels - k = l
      BY <1>1, <1>4, <2>1
    <2> QED
      BY <2>2 DEF T
  <1> QED
    BY <1>5

(* First(l) is the first slot of level l. *)
First(l) == Slot(l, 0)

LEMMA SlotNumbers ==
    /\ 0 \in Slots
    /\ \A s \in Slots : s \in Nat
    /\ \A s \in Slots : s # 0 => Parent(s) \in Slots /\ Parent(s) < s
    /\ \A s \in Nat : Parent(2 * s + 1) = s /\ Parent(2 * s + 2) = s
    /\ \A s \in Nat, c \in Nat : c # 0 /\ Parent(c) = s => c = 2 * s + 1 \/ c = 2 * s + 2
    /\ \A l \in 0 .. Levels : First(l) \in Nat
    /\ First(0) = 0 /\ First(Levels) \notin Slots
    /\ \A s \in Nat : s < First(Levels) <=> s \in Slots
    /\ \A l \in 0 .. Levels - 1 :
          /\ First(l + 1) = 2 * First(l) + 1 /\ First(l + 1) <= First(Levels)
          /\ First(l + 1) = First(l) + SizeOfLevel[l]
    /\ \A l \in 0 .. Levels, p \in Nat : Slot(l, p) = First(l) + p
  <1>1. Levels \in Nat /\ Levels >= 2
    BY SizesAssumption
  <1>2. ASSUME NEW l \in 0 .. Levels
        PROVE  /\ SizeOfLevel[l] \in Nat \ {0} /\ First(l) = SizeOfLevel[l] - 1
               /\ First(l) \in Nat /\ \A p \in Nat : Slot(l, p) = First(l) + p
    <2>1. SizeOfLevel[l] \in Nat \ {0}
      BY SizesOfLevels
    <2> QED
      BY <2>1 DEF First, Slot
  <1>3. ASSUME NEW l \in 0 .. Levels - 1
        PROVE  /\ First(l + 1) = 2 * First(l) + 1 /\ First(l + 1) <= First(Levels)
               /\ First(l + 1) = First(l) + SizeOfLevel[l]
    <2>1. PICK m, n : m = l + 1 /\ n = Levels
      OBVIOUS
    <2>2. m \in 0 .. Levels /\ l \in 0 .. Levels /\ n \in 0 .. Levels
      BY <1>1, <2>1
    <2>3. SizeOfLevel[m] = 2 * SizeOfLevel[l] /\ SizeOfLevel[m] <= SizeOfLevel[n]
      BY <2>1, <2>2, SizesOfLevels, LevelsFit
    <2>4. /\ SizeOfLevel[l] \in Nat /\ SizeOfLevel[m] \in Nat /\ SizeOfLevel[n] \in Nat
          /\ First(l) = SizeOfLevel[l] - 1 /\ First(m) = SizeOfLevel[m] - 1
          /\ First(n) = SizeOfLevel[n] - 1
      BY <1>2, <2>2
    <2> QED
      BY <2>1, <2>3, <2>4
  <1>4. PICK top : top = SizeOfLevel[Levels]
    OBVIOUS
  <1>5. top \in Nat /\ top >= 4 /\ First(Levels) = top - 1
    <2>1. PICK a, b, c : a = SizeOfLevel[0] /\ b = SizeOfLevel[1] /\ c = SizeOfLevel[2]
      OBVIOUS
    <2>2. 0 \in 0 .. Levels - 1 /\ 1 \in 0 .. Levels - 1 /\ 2 \in 0 .. Levels
          /\ 0 + 1 = 1 /\ 1 + 1 = 2 /\ Levels \in 0 .. Levels
      BY <1>1
    <2>3. a = 1 /\ b = 2 * a /\ c = 2 * b
      BY <2>1, <2>2, SizesOfLevels
    <2>4. c <= top
      BY <1>4, <2>1, <2>2, LevelsFit
    <2>5. top \in Nat /\ First(Levels) = top - 1
      BY <1>2, <1>4, <2>2
    <2> QED
      BY <2>3, <2>4, <2>5
  <1>6. Slots = 0 .. top - 2
    BY <1>4 DEF Slots
  <1>7. First(0) = 0
    BY <1>1, <1>2, SizesOfLevels
  <1>8. \A s \in Slots : s # 0 => Parent(s) \in Slots /\ Parent(s) < s
    BY <1>5, <1>6 DEF Parent
  <1>9. /\ \A s \in Nat : Parent(2 * s + 1) = s /\ Parent(2 * s + 2) = s
        /\ \A s \in Nat, c \in Nat : c # 0 /\ Parent(c) = s => c = 2 * s + 1 \/ c = 2 * s + 2
    BY DEF Parent
  <1>10. /\ 0 \in Slots /\ \A s \in Slots : s \in Nat
         /\ First(Levels) \notin Slots /\ \A s \in Nat : s < First(Levels) <=> s \in Slots
    BY <1>5, <1>6
  <1> QED
    BY <1>2, <1>3, <1>7, <1>8, <1>9, <1>10


(* What CorrectDownHeap does.                                                *)

RiseOf(f, s) ==
    [b \in Arrays |->
        IF s > 0 /\ b[s] < b[Parent(s)] THEN f[Parent(s)][Swap(b, s, Parent(s))] ELSE b]

Rise(f) == f = [s \in Slots |-> RiseOf(f, s)]

LEMMA RiseAt ==
    ASSUME NEW f, NEW s \in Slots, NEW b \in Arrays, \A r \in Slots : f[r] = RiseOf(f, r)
    PROVE  f[s][b] = IF s > 0 /\ b[s] < b[Parent(s)]
                     THEN f[Parent(s)][Swap(b, s, Parent(s))] ELSE b
  <1>1. RiseOf(f, s)[b] = IF s > 0 /\ b[s] < b[Parent(s)]
                          THEN f[Parent(s)][Swap(b, s, Parent(s))] ELSE b
    BY DEF RiseOf
  <1>2. f[s] = RiseOf(f, s)
    OBVIOUS
  <1> QED
    BY <1>1, <1>2

LEMMA RiseExists == \E f : Rise(f)
  <1> DEFINE Until(f, k) == \A s \in Slots : s <= k => f[s] = RiseOf(f, s)
             T == {k \in Nat : \E f : f = [s \in Slots |-> f[s]] /\ Until(f, k)}
  <1>1. 0 \in T
    <2> DEFINE f == [s \in Slots |-> [b \in Arrays |-> b]]
    <2>1. f = [s \in Slots |-> f[s]]
      OBVIOUS
    <2>2. \A s \in Slots : s <= 0 => s = 0
      BY SlotNumbers
    <2>3. f[0] = [b \in Arrays |-> b]
      BY SlotNumbers
    <2> HIDE DEF f
    <2>4. f[0] = RiseOf(f, 0)
      BY <2>3 DEF RiseOf
    <2>5. Until(f, 0)
      BY <2>2, <2>4
    <2> HIDE DEF Until
    <2>6. \E g : g = [s \in Slots |-> g[s]] /\ Until(g, 0)
      BY <2>1, <2>5
    <2> QED
      BY <2>6
  <1>2. ASSUME NEW k \in T
        PROVE  k + 1 \in T
    <2>1. PICK f : f = [s \in Slots |-> f[s]] /\ Until(f, k)
      OBVIOUS
    <2>2. PICK r : r = RiseOf(f, k + 1)
      OBVIOUS
    <2> DEFINE g == [s \in Slots |-> IF s = k + 1 THEN r ELSE f[s]]
    <2>3. g = [s \in Slots |-> g[s]]
      OBVIOUS
    <2>4. \A s \in Slots : g[s] = IF s = k + 1 THEN r ELSE f[s]
      OBVIOUS
    <2> HIDE DEF g
    <2>5. ASSUME NEW s \in Slots, s <= k + 1
          PROVE  g[s] = RiseOf(g, s)
      <3>1. s \in Nat /\ k \in Nat /\ (s # 0 => Parent(s) \in Slots /\ Parent(s) < s)
        BY SlotNumbers
      <3>2. s # 0 => Parent(s) # k + 1
        BY <2>5, <3>1, SlotNumbers
      <3>3. s > 0 => g[Parent(s)] = f[Parent(s)]
        BY <2>4, <3>1, <3>2
      <3>4. RiseOf(g, s) = RiseOf(f, s)
        BY <3>3 DEF RiseOf
      <3>5. CASE s = k + 1
        BY <2>2, <2>4, <3>4, <3>5
      <3>6. CASE s # k + 1
        <4>1. s <= k
          BY <2>5, <3>1, <3>6
        <4> QED
          BY <2>1, <2>4, <3>4, <3>6, <4>1
      <3> QED
        BY <3>5, <3>6
    <2>6. Until(g, k + 1)
      BY <2>5
    <2> HIDE DEF Until
    <2>7. \E h : h = [s \in Slots |-> h[s]] /\ Until(h, k + 1)
      BY <2>3, <2>6
    <2>8. k + 1 \in Nat
      OBVIOUS
    <2> QED
      BY <2>7, <2>8, Zenon
  <1> HIDE DEF T
  <1>3. T = Nat
    BY <1>1, <1>2, SetInduction DEF T
  <1>4. First(Levels) \in Nat /\ \A s \in Slots : s <= First(Levels)
    <2>1. Levels \in 0 .. Levels
      BY SizesAssumption
    <2>2. PICK top : top = First(Levels)
      OBVIOUS
    <2>3. top \in Nat /\ \A s \in Slots : s \in Nat /\ s < top
      BY <2>1, <2>2, SlotNumbers
    <2>4. \A s \in Slots : s <= top
      BY <2>3
    <2> QED
      BY <2>2, <2>3, <2>4
  <1>5. First(Levels) \in T
    BY <1>3, <1>4
  <1>6. PICK f : f = [s \in Slots |-> f[s]] /\ Until(f, First(Levels))
    BY <1>5 DEF T
  <1>7. ASSUME NEW s \in Slots PROVE f[s] = RiseOf(f, s)
    BY <1>4, <1>6
  <1>8. f = [s \in Slots |-> RiseOf(f, s)]
    BY <1>6, <1>7
  <1> QED
    BY <1>8 DEF Rise

LEMMA CorrectDownIs ==
    \E f : /\ Rise(f) /\ \A s \in Slots : f[s] = RiseOf(f, s)
           /\ \A a, s : CorrectDownHeap(a, s) = f[s][a]
  <1> DEFINE f == CHOOSE g : Rise(g)
  <1>1. Rise(f)
    BY RiseExists
  <1>2. \A a, s : CorrectDownHeap(a, s) = f[s][a]
    BY DEF CorrectDownHeap, Rise, RiseOf
  <1> HIDE DEF f
  <1>3. \A s \in Slots : f[s] = RiseOf(f, s)
    BY <1>1 DEF Rise
  <1> QED
    BY <1>1, <1>2, <1>3

(* Two slots exchange their elements. *)
LEMMA SwapIs ==
    ASSUME NEW a \in Arrays, NEW s \in Slots, NEW r \in Slots
    PROVE  /\ Swap(a, s, r) \in Arrays
           /\ \A x \in Slots : Swap(a, s, r)[x] = IF x = s THEN a[r] ELSE IF x = r THEN a[s] ELSE a[x]
  BY DEF Swap, Arrays

(* Array b is ordered but that the element in slot s may be less than those  *)
(* above it.                                                                 *)
RisingIn(b, s) ==
    /\ \A x \in Slots \ {0} : x # s => b[Parent(x)] <= b[x]
    /\ s # 0 => \A x \in Slots \ {0} : Parent(x) = s => b[Parent(s)] <= b[x]

Ordered(b) == \A x \in Slots \ {0} : b[Parent(x)] <= b[x]

Plain(b) == \A x \in Slots : b[x] <= EmptyHeap

LEMMA ElementNumbers ==
    /\ \A b \in Arrays, s \in Slots : b[s] \in Nat
    /\ EmptyHeap \in Nat /\ EmptyHeap \in HeapElement /\ HeapElement \subseteq Nat
    /\ 0 \in HeapElement
  <1>1. PICK v \in Nat : v = TopBit /\ v >= 8
    BY SizesAssumption DEF TopBit
  <1> QED
    BY <1>1 DEF Arrays, HeapElement, EmptyHeap

LEMMA RiseOrders ==
    ASSUME NEW f, \A s \in Slots : f[s] = RiseOf(f, s)
    PROVE  \A s \in Slots : \A b \in Arrays :
               RisingIn(b, s) /\ Plain(b) =>
                   /\ f[s][b] \in Arrays /\ Ordered(f[s][b]) /\ Plain(f[s][b])
                   /\ \A x \in Slots : x > s => f[s][b][x] = b[x]
  <1> DEFINE Good(s) == \A b \in Arrays :
                            RisingIn(b, s) /\ Plain(b) =>
                                /\ f[s][b] \in Arrays /\ Ordered(f[s][b]) /\ Plain(f[s][b])
                                /\ \A x \in Slots : x > s => f[s][b][x] = b[x]
             T == {k \in Nat : \A s \in Slots : s <= k => Good(s)}
  <1>1. ASSUME NEW s \in Slots, s # 0 => Good(Parent(s))
        PROVE  Good(s)
    <2> SUFFICES ASSUME NEW b \in Arrays, RisingIn(b, s), Plain(b)
                 PROVE  /\ f[s][b] \in Arrays /\ Ordered(f[s][b]) /\ Plain(f[s][b])
                        /\ \A x \in Slots : x > s => f[s][b][x] = b[x]
      OBVIOUS
    <2>1. f[s][b] = IF s > 0 /\ b[s] < b[Parent(s)]
                    THEN f[Parent(s)][Swap(b, s, Parent(s))] ELSE b
      BY RiseAt
    <2>2. s \in Nat /\ \A x \in Slots : b[x] \in Nat /\ x \in Nat
      BY SlotNumbers, ElementNumbers
    <2>3. CASE ~(s > 0 /\ b[s] < b[Parent(s)])
      <3>1. f[s][b] = b
        BY <2>1, <2>3
      <3>2. s # 0 => b[Parent(s)] <= b[s]
        <4> SUFFICES ASSUME s # 0 PROVE b[Parent(s)] <= b[s]
          OBVIOUS
        <4>1. PICK p \in Slots : p = Parent(s)
          BY SlotNumbers
        <4>2. ~(b[s] < b[p]) /\ b[p] \in Nat /\ b[s] \in Nat
          BY <2>2, <2>3, <4>1
        <4>3. b[p] <= b[s]
          BY <4>2
        <4> QED
          BY <4>1, <4>3
      <3>3. Ordered(b)
        BY <3>2 DEF Ordered, RisingIn
      <3> QED
        BY <3>1, <3>3
    <2>4. CASE s > 0 /\ b[s] < b[Parent(s)]
      <3>1. PICK p \in Slots : p = Parent(s)
        BY <2>4, SlotNumbers
      <3>2. PICK c \in Arrays : c = Swap(b, s, p)
        BY <3>1, SwapIs
      <3>3. /\ \A x \in Slots : c[x] = IF x = s THEN b[p] ELSE IF x = p THEN b[s] ELSE b[x]
            /\ p < s /\ s # 0 /\ p \in Nat /\ b[s] < b[p]
        <4>1. \A x \in Slots : c[x] = IF x = s THEN b[p] ELSE IF x = p THEN b[s] ELSE b[x]
          <5>1. b \in Arrays /\ s \in Slots /\ p \in Slots
            BY <3>1
          <5>2. \A x \in Slots : Swap(b, s, p)[x] = IF x = s THEN b[p] ELSE IF x = p THEN b[s] ELSE b[x]
            BY <5>1, SwapIs
          <5> QED
            BY <3>2, <5>2
        <4>2. s # 0 /\ p \in Nat /\ b[s] < b[p]
          BY <2>2, <2>4, <3>1
        <4>3. p < s
          BY <3>1, <4>2, SlotNumbers
        <4> QED
          BY <4>1, <4>2, <4>3
      <3>4. f[s][b] = f[p][c]
        BY <2>1, <2>4, <3>1, <3>2
      <3>5. RisingIn(c, p)
        <4>1. ASSUME NEW x \in Slots \ {0}, x # p PROVE c[Parent(x)] <= c[x]
          <5>1. PICK y \in Slots : y = Parent(x)
            BY SlotNumbers
          <5>2. CASE x = s
            <6>1. c[y] = b[s] /\ c[x] = b[p]
              BY <3>1, <3>3, <5>1, <5>2
            <6> QED
              BY <2>2, <3>3, <5>1, <6>1
          <5>3. CASE x # s
            <6>1. c[x] = b[x] /\ b[y] <= b[x]
              BY <3>3, <4>1, <5>1, <5>3 DEF RisingIn
            <6>2. CASE y = s
              <7>1. c[y] = b[p] /\ b[p] <= b[x]
                BY <3>1, <3>3, <5>1, <6>2 DEF RisingIn
              <7> QED
                BY <5>1, <6>1, <7>1
            <6>3. CASE y = p
              <7>1. c[y] = b[s] /\ b[s] < b[p] /\ b[p] <= b[x]
                BY <3>3, <6>1, <6>3
              <7> QED
                BY <2>2, <5>1, <6>1, <7>1
            <6>4. CASE y # s /\ y # p
              <7>1. c[y] = b[y]
                BY <3>3, <6>4
              <7> QED
                BY <5>1, <6>1, <7>1
            <6> QED
              BY <6>2, <6>3, <6>4
          <5> QED
            BY <5>2, <5>3
        <4>2. ASSUME p # 0, NEW x \in Slots \ {0}, Parent(x) = p PROVE c[Parent(p)] <= c[x]
          <5>1. PICK q \in Slots : q = Parent(p) /\ q < p
            BY <4>2, SlotNumbers
          <5>2. c[q] = b[q] /\ b[q] <= b[p]
            <6>1. q # p /\ q # s
              BY <2>2, <3>3, <5>1
            <6>2. p # s
              BY <2>2, <3>3
            <6> QED
              BY <3>3, <4>2, <5>1, <6>1, <6>2 DEF RisingIn
          <5>3. CASE x = s
            BY <3>3, <5>1, <5>2, <5>3
          <5>4. CASE x # s
            <6>1. x # p
              BY <2>2, <4>2, SlotNumbers
            <6>2. c[x] = b[x] /\ b[p] <= b[x]
              BY <3>3, <4>2, <5>4, <6>1 DEF RisingIn
            <6> QED
              BY <2>2, <5>1, <5>2, <6>2
          <5> QED
            BY <5>3, <5>4
        <4> QED
          BY <4>1, <4>2 DEF RisingIn
      <3>8. Plain(c)
        BY <3>1, <3>3 DEF Plain
      <3>6. /\ f[p][c] \in Arrays /\ Ordered(f[p][c]) /\ Plain(f[p][c])
            /\ \A x \in Slots : x > p => f[p][c][x] = c[x]
        BY <1>1, <3>1, <3>3, <3>5, <3>8
      <3>7. ASSUME NEW x \in Slots, x > s PROVE f[p][c][x] = b[x]
        <4>1. x > p /\ x # s /\ x # p
          BY <2>2, <3>3, <3>7
        <4> QED
          BY <3>3, <3>6, <4>1
      <3> QED
        BY <3>4, <3>6, <3>7
    <2> QED
      BY <2>3, <2>4
  <1> HIDE DEF Good
  <1>2. 0 \in T
    <2>1. \A s \in Slots : s <= 0 => s = 0
      BY SlotNumbers
    <2> QED
      BY <1>1, <2>1
  <1>3. ASSUME NEW k \in T PROVE k + 1 \in T
    <2>1. k \in Nat /\ \A s \in Slots : s <= k => Good(s)
      OBVIOUS
    <2>2. ASSUME NEW s \in Slots, s <= k + 1 PROVE Good(s)
      <3>1. s # 0 => Parent(s) \in Slots /\ Parent(s) <= k
        <4> SUFFICES ASSUME s # 0 PROVE Parent(s) \in Slots /\ Parent(s) <= k
          OBVIOUS
        <4>1. PICK p : p = Parent(s)
          OBVIOUS
        <4>2. p \in Slots /\ p \in Nat /\ s \in Nat /\ p < s
          BY <4>1, SlotNumbers
        <4>3. p <= k
          BY <2>1, <2>2, <4>2
        <4> QED
          BY <4>1, <4>2, <4>3
      <3> QED
        BY <1>1, <2>1, <3>1
    <2> QED
      BY <2>1, <2>2
  <1> HIDE DEF T
  <1>4. T = Nat
    BY <1>2, <1>3, SetInduction DEF T
  <1>5. ASSUME NEW s \in Slots PROVE Good(s)
    <2>1. s \in T /\ s <= s
      BY <1>4, SlotNumbers
    <2> QED
      BY <2>1 DEF T
  <1> QED
    BY <1>5 DEF Good


(* What CorrectUpHeap does.                                                  *)

SinkOf(f, l, s) ==
    [b \in Arrays |->
        IF /\ s < Slot(l, 0)
           /\ b[s] > b[2 * s + 1] \/ b[s] > b[2 * s + 2]
        THEN f[SmallerChild(b, s)][Swap(b, s, SmallerChild(b, s))]
        ELSE b]

Sink(f, l) == f = [s \in Slots |-> SinkOf(f, l, s)]

LEMMA SinkAt ==
    ASSUME NEW f, NEW l, NEW s \in Slots, NEW b \in Arrays,
           \A r \in Slots : f[r] = SinkOf(f, l, r)
    PROVE  f[s][b] = IF /\ s < First(l)
                        /\ b[s] > b[2 * s + 1] \/ b[s] > b[2 * s + 2]
                     THEN f[SmallerChild(b, s)][Swap(b, s, SmallerChild(b, s))] ELSE b
  <1>1. SinkOf(f, l, s)[b] =
                     IF /\ s < First(l)
                        /\ b[s] > b[2 * s + 1] \/ b[s] > b[2 * s + 2]
                     THEN f[SmallerChild(b, s)][Swap(b, s, SmallerChild(b, s))] ELSE b
    BY DEF SinkOf, First
  <1>2. f[s] = SinkOf(f, l, s)
    OBVIOUS
  <1> QED
    BY <1>1, <1>2

LEMMA Children ==
    ASSUME NEW l \in 0 .. Levels - 1, NEW s \in Slots, s < First(l)
    PROVE  /\ 2 * s + 1 \in Slots /\ 2 * s + 2 \in Slots
           /\ 2 * s + 1 > s /\ 2 * s + 2 > s
           /\ 2 * s + 1 < First(l + 1) /\ 2 * s + 2 < First(l + 1)
  <1>1. PICK n, m, t : n = First(l) /\ m = First(l + 1) /\ t = First(Levels)
    OBVIOUS
  <1>2. l \in 0 .. Levels /\ l + 1 \in 0 .. Levels /\ Levels \in 0 .. Levels
    BY SizesAssumption
  <1>3. n \in Nat /\ m \in Nat /\ t \in Nat /\ m = 2 * n + 1 /\ m <= t /\ s \in Nat /\ s < n
    BY <1>1, <1>2, SlotNumbers
  <1>4. /\ 2 * s + 1 > s /\ 2 * s + 2 > s /\ 2 * s + 1 < m /\ 2 * s + 2 < m
        /\ 2 * s + 1 < t /\ 2 * s + 2 < t /\ 2 * s + 1 \in Nat /\ 2 * s + 2 \in Nat
    BY <1>3
  <1> QED
    BY <1>1, <1>4, SlotNumbers

LEMMA TopSlot ==
    First(Levels) \in Nat /\ \A s \in Slots : s \in Nat /\ s < First(Levels)
  <1>1. First(Levels) \in Nat
    <2>1. Levels \in 0 .. Levels
      BY SizesAssumption
    <2> QED
      BY <2>1, SlotNumbers
  <1>2. ASSUME NEW s \in Slots PROVE s \in Nat /\ s < First(Levels)
    <2>1. s \in Nat
      BY SlotNumbers
    <2> QED
      BY <2>1, SlotNumbers
  <1> QED
    BY <1>1, <1>2

LEMMA SmallerIs ==
    ASSUME NEW b \in Arrays, NEW s \in Slots, 2 * s + 1 \in Slots, 2 * s + 2 \in Slots
    PROVE  /\ SmallerChild(b, s) = 2 * s + 1 \/ SmallerChild(b, s) = 2 * s + 2
           /\ b[SmallerChild(b, s)] <= b[2 * s + 1] /\ b[SmallerChild(b, s)] <= b[2 * s + 2]
  <1>1. b[2 * s + 1] \in Nat /\ b[2 * s + 2] \in Nat
    BY ElementNumbers
  <1>2. CASE b[2 * s + 1] > b[2 * s + 2]
    <2>1. SmallerChild(b, s) = 2 * s + 2
      BY <1>2 DEF SmallerChild
    <2> QED
      BY <1>1, <1>2, <2>1
  <1>3. CASE ~(b[2 * s + 1] > b[2 * s + 2])
    <2>1. SmallerChild(b, s) = 2 * s + 1
      BY <1>3 DEF SmallerChild
    <2> QED
      BY <1>1, <1>3, <2>1
  <1> QED
    BY <1>2, <1>3

LEMMA SinkExists ==
    ASSUME NEW l \in 0 .. Levels - 1
    PROVE  \E f : Sink(f, l)
  <1> DEFINE Until(f, k) == \A s \in Slots : First(Levels) <= s + k => f[s] = SinkOf(f, l, s)
             T == {k \in Nat : \E f : f = [s \in Slots |-> f[s]] /\ Until(f, k)}
  <1>1. PICK top \in Nat : top = First(Levels) /\ \A s \in Slots : s \in Nat /\ s < top
    BY TopSlot
  <1>2. 0 \in T
    <2> DEFINE f == [s \in Slots |-> 0]
    <2>1. f = [s \in Slots |-> f[s]]
      OBVIOUS
    <2>2. \A s \in Slots : ~(First(Levels) <= s + 0)
      BY <1>1
    <2> HIDE DEF f
    <2>3. Until(f, 0)
      BY <2>2
    <2> HIDE DEF Until
    <2>4. \E g : g = [s \in Slots |-> g[s]] /\ Until(g, 0)
      BY <2>1, <2>3
    <2> QED
      BY <2>4
  <1>3. ASSUME NEW k \in T
        PROVE  k + 1 \in T
    <2>1. PICK f : f = [s \in Slots |-> f[s]] /\ Until(f, k)
      OBVIOUS
    <2>2. PICK r : r = SinkOf(f, l, top - (k + 1))
      OBVIOUS
    <2> DEFINE g == [s \in Slots |-> IF s = top - (k + 1) THEN r ELSE f[s]]
    <2>3. g = [s \in Slots |-> g[s]]
      OBVIOUS
    <2>4. \A s \in Slots : g[s] = IF s = top - (k + 1) THEN r ELSE f[s]
      OBVIOUS
    <2> HIDE DEF g
    <2>5. ASSUME NEW s \in Slots, First(Levels) <= s + (k + 1)
          PROVE  g[s] = SinkOf(g, l, s)
      <3>1. s \in Nat /\ k \in Nat /\ top <= s + (k + 1)
        BY <1>1, <2>5
      <3>2. ASSUME s < First(l), NEW b \in Arrays
            PROVE  g[SmallerChild(b, s)] = f[SmallerChild(b, s)]
        <4>1. PICK c : c = SmallerChild(b, s)
          OBVIOUS
        <4>2. c \in Slots /\ c > s
          BY <3>2, <4>1, Children, SmallerIs
        <4>3. c # top - (k + 1)
          BY <1>1, <3>1, <4>2
        <4> QED
          BY <2>4, <4>1, <4>2, <4>3
      <3>3. SinkOf(g, l, s) = SinkOf(f, l, s)
        BY <3>2 DEF SinkOf, First
      <3>4. CASE s = top - (k + 1)
        BY <2>2, <2>4, <3>3, <3>4
      <3>5. CASE s # top - (k + 1)
        <4>1. First(Levels) <= s + k
          BY <1>1, <3>1, <3>5
        <4> QED
          BY <2>1, <2>4, <3>3, <3>5, <4>1
      <3> QED
        BY <3>4, <3>5
    <2>6. Until(g, k + 1)
      BY <2>5
    <2> HIDE DEF Until
    <2>7. \E h : h = [s \in Slots |-> h[s]] /\ Until(h, k + 1)
      BY <2>3, <2>6
    <2>8. k + 1 \in Nat
      OBVIOUS
    <2> QED
      BY <2>7, <2>8, Zenon
  <1> HIDE DEF T
  <1>4. T = Nat
    BY <1>2, <1>3, SetInduction DEF T
  <1>5. top \in T
    BY <1>4
  <1>6. PICK f : f = [s \in Slots |-> f[s]] /\ Until(f, top)
    BY <1>5 DEF T
  <1>7. ASSUME NEW s \in Slots PROVE f[s] = SinkOf(f, l, s)
    <2>1. First(Levels) <= s + top
      BY <1>1
    <2> QED
      BY <1>6, <2>1
  <1>8. f = [s \in Slots |-> SinkOf(f, l, s)]
    BY <1>6, <1>7
  <1> QED
    BY <1>8 DEF Sink

LEMMA CorrectUpIs ==
    ASSUME NEW l \in 0 .. Levels - 1
    PROVE  \E f : /\ \A s \in Slots : f[s] = SinkOf(f, l, s)
                  /\ \A a : CorrectUpHeap(a, l) = f[0][a]
  <1> DEFINE f == CHOOSE g : Sink(g, l)
  <1>1. Sink(f, l)
    BY SinkExists
  <1>2. \A a : CorrectUpHeap(a, l) = f[0][a]
    BY DEF CorrectUpHeap, Sink, SinkOf
  <1> HIDE DEF f
  <1>3. \A s \in Slots : f[s] = SinkOf(f, l, s)
    BY <1>1 DEF Sink
  <1> QED
    BY <1>2, <1>3

(* Array b is ordered but that the element in slot s may be greater than     *)
(* those below it.                                                           *)
SinkingIn(b, s) ==
    /\ \A x \in Slots \ {0} : Parent(x) # s => b[Parent(x)] <= b[x]
    /\ s # 0 => \A x \in Slots \ {0} : Parent(x) = s => b[Parent(s)] <= b[x]

(* No element is in the levels after l. *)
Filled(b, l) ==
    \A x \in Slots : b[x] <= EmptyHeap /\ (x >= First(l + 1) => b[x] = EmptyHeap)

LEMMA SinkOrders ==
    ASSUME NEW l \in 0 .. Levels - 1, NEW f, \A s \in Slots : f[s] = SinkOf(f, l, s)
    PROVE  \A s \in Slots : \A b \in Arrays :
               s < First(l + 1) /\ SinkingIn(b, s) /\ Filled(b, l) =>
                   f[s][b] \in Arrays /\ Ordered(f[s][b]) /\ Filled(f[s][b], l)
  <1> DEFINE Good(s) == \A b \in Arrays :
                            s < First(l + 1) /\ SinkingIn(b, s) /\ Filled(b, l) =>
                                f[s][b] \in Arrays /\ Ordered(f[s][b]) /\ Filled(f[s][b], l)
             T == {k \in Nat : \A s \in Slots : First(Levels) <= s + k => Good(s)}
  <1>1. PICK top \in Nat : top = First(Levels) /\ \A s \in Slots : s \in Nat /\ s < top
    BY TopSlot
  <1>2. /\ l \in 0 .. Levels /\ l + 1 \in 0 .. Levels /\ First(l) \in Nat /\ First(l + 1) \in Nat
        /\ First(l + 1) = 2 * First(l) + 1
    <2>1. l \in 0 .. Levels /\ l + 1 \in 0 .. Levels
      BY SizesAssumption
    <2> QED
      BY <2>1, SlotNumbers
  <1>3. ASSUME NEW s \in Slots, \A c \in Slots : c > s => Good(c)
        PROVE  Good(s)
    <2> SUFFICES ASSUME NEW b \in Arrays, s < First(l + 1), SinkingIn(b, s), Filled(b, l)
                 PROVE  f[s][b] \in Arrays /\ Ordered(f[s][b]) /\ Filled(f[s][b], l)
      OBVIOUS
    <2>1. PICK left, right, c : left = 2 * s + 1 /\ right = 2 * s + 2 /\ c = SmallerChild(b, s)
      OBVIOUS
    <2>2. f[s][b] = IF s < First(l) /\ (b[s] > b[left] \/ b[s] > b[right])
                    THEN f[c][Swap(b, s, c)] ELSE b
      <3>1. f[s][b] = IF /\ s < First(l)
                         /\ b[s] > b[2 * s + 1] \/ b[s] > b[2 * s + 2]
                      THEN f[SmallerChild(b, s)][Swap(b, s, SmallerChild(b, s))] ELSE b
        BY SinkAt
      <3> QED
        BY <2>1, <3>1
    <2>3. s \in Nat /\ \A x \in Slots : b[x] \in Nat /\ x \in Nat
      BY SlotNumbers, ElementNumbers
    <2>4. \A x \in Slots \ {0} : Parent(x) = s <=> x = left \/ x = right
      BY <2>1, <2>3, SlotNumbers
    <2>5. CASE ~(s < First(l) /\ (b[s] > b[left] \/ b[s] > b[right]))
      <3>1. f[s][b] = b
        BY <2>2, <2>5
      <3>2. ASSUME NEW x \in Slots \ {0}, Parent(x) = s PROVE b[s] <= b[x]
        <4>1. x = left \/ x = right
          BY <2>4, <3>2
        <4>2. CASE s < First(l)
          BY <2>3, <2>5, <4>1, <4>2
        <4>3. CASE ~(s < First(l))
          <5>1. x >= First(l + 1)
            BY <1>2, <2>1, <2>3, <4>1, <4>3
          <5> QED
            BY <5>1 DEF Filled
        <4> QED
          BY <4>2, <4>3
      <3>3. Ordered(b)
        BY <3>2 DEF Ordered, SinkingIn
      <3> QED
        BY <3>1, <3>3
    <2>6. CASE s < First(l) /\ (b[s] > b[left] \/ b[s] > b[right])
      <3>1. /\ left \in Slots /\ right \in Slots /\ left > s /\ right > s
            /\ left < First(l + 1) /\ right < First(l + 1)
        BY <2>1, <2>6, Children
      <3>2. (c = left \/ c = right) /\ b[c] <= b[left] /\ b[c] <= b[right]
        BY <2>1, <3>1, SmallerIs
      <3>3. /\ c \in Slots /\ c > s /\ c < First(l + 1) /\ b[c] < b[s] /\ c # 0 /\ Parent(c) = s
            /\ \A x \in Slots \ {0} : Parent(x) = s => b[c] <= b[x]
        <4>1. c \in Slots /\ c > s /\ c < First(l + 1)
          BY <3>1, <3>2
        <4>2. c # 0
          BY <2>3, <4>1
        <4>3. b[c] < b[s]
          <5>1. b[c] \in Nat /\ b[s] \in Nat /\ b[left] \in Nat /\ b[right] \in Nat
            BY <2>3, <3>1, <4>1
          <5> QED
            BY <2>6, <3>2, <5>1
        <4> QED
          BY <2>4, <3>2, <4>1, <4>2, <4>3
      <3>4. PICK d \in Arrays : d = Swap(b, s, c)
        BY <3>3, SwapIs
      <3>5. \A x \in Slots : d[x] = IF x = s THEN b[c] ELSE IF x = c THEN b[s] ELSE b[x]
        <4>1. \A x \in Slots : Swap(b, s, c)[x] = IF x = s THEN b[c] ELSE IF x = c THEN b[s] ELSE b[x]
          BY <3>3, SwapIs
        <4> QED
          BY <3>4, <4>1
      <3>6. f[s][b] = f[c][d]
        BY <2>2, <2>6, <3>4
      <3>7. SinkingIn(d, c)
        <4>1. ASSUME NEW x \in Slots \ {0}, Parent(x) # c PROVE d[Parent(x)] <= d[x]
          <5>1. PICK y \in Slots : y = Parent(x) /\ y < x
            BY SlotNumbers
          <5>2. CASE x = s
            <6>1. y # s /\ y # c
              BY <2>3, <3>3, <5>1, <5>2
            <6>2. b[y] <= b[c]
              BY <3>3, <5>1, <5>2 DEF SinkingIn
            <6>3. d[y] = b[y] /\ d[x] = b[c]
              BY <3>5, <5>1, <5>2, <6>1
            <6> QED
              BY <5>1, <6>2, <6>3
          <5>3. CASE y = s /\ x = c
            <6>1. d[y] = b[c] /\ d[x] = b[s]
              BY <2>3, <3>3, <3>5, <5>3
            <6> QED
              BY <2>3, <3>3, <5>1, <6>1
          <5>4. CASE y = s /\ x # c
            <6>1. x # s
              BY <2>3, <5>1, <5>4
            <6>2. d[y] = b[c] /\ d[x] = b[x] /\ b[c] <= b[x]
              BY <3>3, <3>5, <5>1, <5>4, <6>1
            <6> QED
              BY <5>1, <6>2
          <5>5. CASE x # s /\ y # s
            <6>1. x # c /\ y # c
              BY <3>3, <4>1, <5>1, <5>5
            <6>2. d[y] = b[y] /\ d[x] = b[x] /\ b[y] <= b[x]
              BY <3>5, <5>1, <5>5, <6>1 DEF SinkingIn
            <6> QED
              BY <5>1, <6>2
          <5> QED
            BY <5>2, <5>3, <5>4, <5>5
        <4>2. ASSUME NEW x \in Slots \ {0}, Parent(x) = c PROVE d[Parent(c)] <= d[x]
          <5>1. c < x /\ x # s /\ x # c
            <6>1. c < x
              <7>1. x # 0 => Parent(x) < x
                BY SlotNumbers
              <7> QED
                BY <4>2, <7>1
            <6> QED
              BY <2>3, <3>3, <6>1
          <5>2. d[s] = b[c] /\ d[x] = b[x]
            BY <3>5, <5>1
          <5>3. c # s
            BY <2>3, <3>3
          <5>4. b[c] <= b[x]
            BY <4>2, <5>3 DEF SinkingIn
          <5> QED
            BY <3>3, <5>2, <5>4
        <4> QED
          BY <4>1, <4>2 DEF SinkingIn
      <3>8. Filled(d, l)
        <4>1. ~(s >= First(l + 1)) /\ ~(c >= First(l + 1))
          BY <1>2, <2>3, <3>3
        <4> QED
          BY <3>3, <3>5, <4>1 DEF Filled
      <3>9. Good(c)
        BY <1>3, <3>3
      <3> QED
        BY <3>3, <3>4, <3>6, <3>7, <3>8, <3>9
    <2> QED
      BY <2>5, <2>6
  <1> HIDE DEF Good
  <1>4. 0 \in T
    <2>1. \A s \in Slots : ~(First(Levels) <= s + 0)
      BY <1>1
    <2> QED
      BY <2>1
  <1>5. ASSUME NEW k \in T PROVE k + 1 \in T
    <2>1. k \in Nat /\ \A s \in Slots : First(Levels) <= s + k => Good(s)
      OBVIOUS
    <2>2. ASSUME NEW s \in Slots, First(Levels) <= s + (k + 1) PROVE Good(s)
      <3>1. \A c \in Slots : c > s => First(Levels) <= c + k
        BY <1>1, <2>1, <2>2
      <3> QED
        BY <1>3, <2>1, <3>1
    <2> QED
      BY <2>1, <2>2
  <1> HIDE DEF T
  <1>6. T = Nat
    BY <1>4, <1>5, SetInduction DEF T
  <1>7. ASSUME NEW s \in Slots PROVE Good(s)
    <2>1. top \in T /\ First(Levels) <= s + top
      BY <1>1, <1>6
    <2> QED
      BY <2>1 DEF T
  <1> QED
    BY <1>7 DEF Good

(* In the slots before n there are elements less than EMPTY_HEAP_NODE only.  *)
Real(b, n) == \A x \in Slots : x < n => b[x] < EmptyHeap

(* An element that sinks leaves no gap behind, whatever is in the array.     *)
LEMMA SinkKeepsAll ==
    ASSUME NEW l \in 0 .. Levels - 1, NEW f, \A s \in Slots : f[s] = SinkOf(f, l, s), NEW n
    PROVE  \A s \in Slots : \A b \in Arrays :
               /\ f[s][b] \in Arrays
               /\ b[s] < EmptyHeap /\ Real(b, n) => Real(f[s][b], n)
  <1> DEFINE Good(s) == \A b \in Arrays :
                            /\ f[s][b] \in Arrays
                            /\ b[s] < EmptyHeap /\ Real(b, n) => Real(f[s][b], n)
             T == {k \in Nat : \A s \in Slots : First(Levels) <= s + k => Good(s)}
  <1>1. PICK top \in Nat : top = First(Levels) /\ \A s \in Slots : s \in Nat /\ s < top
    BY TopSlot
  <1>2. ASSUME NEW s \in Slots, \A c \in Slots : c > s => Good(c)
        PROVE  Good(s)
    <2> SUFFICES ASSUME NEW b \in Arrays
                 PROVE  /\ f[s][b] \in Arrays
                        /\ b[s] < EmptyHeap /\ Real(b, n) => Real(f[s][b], n)
      OBVIOUS
    <2>1. PICK left, right, c : left = 2 * s + 1 /\ right = 2 * s + 2 /\ c = SmallerChild(b, s)
      OBVIOUS
    <2>2. f[s][b] = IF s < First(l) /\ (b[s] > b[left] \/ b[s] > b[right])
                    THEN f[c][Swap(b, s, c)] ELSE b
      <3>1. f[s][b] = IF /\ s < First(l)
                         /\ b[s] > b[2 * s + 1] \/ b[s] > b[2 * s + 2]
                      THEN f[SmallerChild(b, s)][Swap(b, s, SmallerChild(b, s))] ELSE b
        <4> HIDE DEF Good, T
        <4>1. f[s] = SinkOf(f, l, s)
          OBVIOUS
        <4>2. SinkOf(f, l, s)[b] =
                 IF /\ s < First(l)
                    /\ b[s] > b[2 * s + 1] \/ b[s] > b[2 * s + 2]
                 THEN f[SmallerChild(b, s)][Swap(b, s, SmallerChild(b, s))] ELSE b
          BY DEF SinkOf, First
        <4> QED
          BY <4>1, <4>2
      <3> QED
        BY <2>1, <3>1
    <2>3. CASE ~(s < First(l) /\ (b[s] > b[left] \/ b[s] > b[right]))
      BY <2>2, <2>3
    <2>4. CASE s < First(l) /\ (b[s] > b[left] \/ b[s] > b[right])
      <3>1. left \in Slots /\ right \in Slots /\ left > s /\ right > s
        BY <2>1, <2>4, Children
      <3>2. (c = left \/ c = right) /\ b[c] <= b[left] /\ b[c] <= b[right]
        BY <2>1, <3>1, SmallerIs
      <3>3. c \in Slots /\ c > s
        BY <3>1, <3>2
      <3>4. b[c] < b[s]
        <4>1. b[c] \in Nat /\ b[s] \in Nat /\ b[left] \in Nat /\ b[right] \in Nat
          BY <3>1, <3>3, ElementNumbers
        <4> QED
          BY <2>4, <3>2, <4>1
      <3>5. PICK d \in Arrays : d = Swap(b, s, c)
        BY <3>3, SwapIs
      <3>6. \A x \in Slots : d[x] = IF x = s THEN b[c] ELSE IF x = c THEN b[s] ELSE b[x]
        <4>1. \A x \in Slots : Swap(b, s, c)[x] = IF x = s THEN b[c] ELSE IF x = c THEN b[s] ELSE b[x]
          BY <3>3, SwapIs
        <4> QED
          BY <3>5, <4>1
      <3>7. f[s][b] = f[c][d]
        BY <2>2, <2>4, <3>5
      <3>8. Good(c)
        BY <1>2, <3>3
      <3>9. ASSUME b[s] < EmptyHeap, Real(b, n)
            PROVE  d[c] < EmptyHeap /\ Real(d, n)
        <4>1. b[c] < EmptyHeap
          <5>1. b[c] \in Nat /\ b[s] \in Nat /\ EmptyHeap \in Nat
            BY <3>3, ElementNumbers
          <5> QED
            BY <3>4, <3>9, <5>1
        <4>2. d[c] = b[s]
          BY <3>3, <3>6
        <4> QED
          BY <3>6, <3>9, <4>1, <4>2 DEF Real
      <3> QED
        BY <3>5, <3>7, <3>8, <3>9
    <2> QED
      BY <2>3, <2>4
  <1> HIDE DEF Good
  <1>3. 0 \in T
    <2>1. \A s \in Slots : ~(First(Levels) <= s + 0)
      BY <1>1
    <2> QED
      BY <2>1
  <1>4. ASSUME NEW k \in T PROVE k + 1 \in T
    <2>1. k \in Nat /\ \A s \in Slots : First(Levels) <= s + k => Good(s)
      OBVIOUS
    <2>2. ASSUME NEW s \in Slots, First(Levels) <= s + (k + 1) PROVE Good(s)
      <3>1. \A c \in Slots : c > s => First(Levels) <= c + k
        BY <1>1, <2>1, <2>2
      <3> QED
        BY <1>2, <2>1, <3>1
    <2> QED
      BY <2>1, <2>2
  <1> HIDE DEF T
  <1>5. T = Nat
    BY <1>3, <1>4, SetInduction DEF T
  <1>6. ASSUME NEW s \in Slots PROVE Good(s)
    <2>1. top \in T /\ First(Levels) <= s + top
      BY <1>1, <1>5
    <2> QED
      BY <2>1 DEF T
  <1> QED
    BY <1>6 DEF Good

LEMMA Quotients ==
    ASSUME NEW q \in Nat, NEW r \in 0 .. ValRange - 1
    PROVE  (q * ValRange + r) \div ValRange = q
  <1>1. PICK v \in Nat \ {0} : v = ValRange
    BY SizesAssumption
  <1>2. PICK x \in Nat : x = q * v + r
    BY <1>1
  <1>3. PICK d \in Int, e \in Int : d = x \div v /\ e = x % v
    BY <1>1, <1>2
  <1>4. e \in 0 .. v - 1 /\ x = v * d + e
    BY <1>1, <1>2, <1>3
  <1>5. ~(d <= q - 1)
    <2> SUFFICES ASSUME d <= q - 1 PROVE FALSE
      OBVIOUS
    <2>1. PICK k \in Nat : q = d + 1 + k
      <3>1. (q - d - 1) \in Nat /\ q = d + 1 + (q - d - 1)
        OBVIOUS
      <3> QED
        BY <3>1
    <2>2. q * v = v * d + v + v * k /\ v * k \in Nat
      BY <2>1
    <2> QED
      BY <1>1, <1>2, <1>4, <2>2
  <1>6. ~(d >= q + 1)
    <2> SUFFICES ASSUME d >= q + 1 PROVE FALSE
      OBVIOUS
    <2>1. PICK k \in Nat : d = q + 1 + k
      <3>1. (d - q - 1) \in Nat /\ d = q + 1 + (d - q - 1)
        OBVIOUS
      <3> QED
        BY <3>1
    <2>2. v * d = q * v + v + v * k /\ v * k \in Nat
      BY <2>1
    <2> QED
      BY <1>1, <1>2, <1>4, <2>2
  <1>7. d = q
    BY <1>5, <1>6
  <1> QED
    BY <1>1, <1>2, <1>3, <1>7

(* What the operations are told apart by. *)
LEMMA ArgsAre ==
    /\ \A el \in Inserted : /\ el \in HeapElement
                            /\ Op(InsertArg(el)) = InsertOp /\ Val(InsertArg(el)) = el
    /\ Op(DeleteMinArg) = DeleteMinOp /\ Op(GetMinArg) = GetMinOp
  <1>1. PICK v \in Nat \ {0} : v = ValRange
    BY SizesAssumption
  <1>2. ASSUME NEW el \in Inserted
        PROVE  /\ el \in HeapElement
               /\ Op(InsertArg(el)) = InsertOp /\ Val(InsertArg(el)) = el
    <2>1. el \in HeapElement /\ Op(el) = 0 /\ el \in Nat
      BY InsertedAssumption, ElementNumbers
    <2>2. PICK q \in Int, r \in Int : q = el \div v /\ r = el % v
      BY <1>1, <2>1
    <2>3. r \in 0 .. v - 1 /\ el = v * q + r
      BY <1>1, <2>1, <2>2
    <2>4. q \in Nat
      <3> SUFFICES ASSUME q <= -1 PROVE FALSE
        OBVIOUS
      <3>1. PICK e \in Nat : q = -1 - e
        <4>1. (-1 - q) \in Nat /\ q = -1 - (-1 - q)
          OBVIOUS
        <4> QED
          BY <4>1
      <3>2. v * q = -v - v * e /\ v * e \in Nat
        BY <3>1
      <3> QED
        BY <2>1, <2>3, <3>2
    <2>5. q % 8 = 0
      BY <1>1, <2>1, <2>2 DEF Op
    <2>6. (q + 1) % 8 = 1
      BY <2>4, <2>5
    <2>7. InsertArg(el) = el + v
      BY <1>1, <2>1 DEF InsertArg
    <2>8. el + v = (q + 1) * v + r /\ q + 1 \in Nat
      BY <2>3, <2>4
    <2>9. (el + v) \div v = q + 1
      BY <1>1, <2>3, <2>8, Quotients
    <2>10. Op(el + v) = 1
      BY <1>1, <2>6, <2>9 DEF Op
    <2>11. (el + v) - 1 * v = el
      BY <2>1
    <2> QED
      BY <1>1, <2>1, <2>7, <2>10, <2>11 DEF Val, InsertOp
  <1>3. /\ 0 \in 0 .. v - 1 /\ 2 \in Nat /\ 3 \in Nat
        /\ 2 * v + 0 = 2 * v /\ 3 * v + 0 = 3 * v
    OBVIOUS
  <1>4. (2 * v) \div v = 2 /\ (3 * v) \div v = 3
    BY <1>1, <1>3, Quotients
  <1> QED
    BY <1>1, <1>2, <1>4 DEF Op, DeleteMinArg, GetMinArg, DeleteMinOp, GetMinOp

HeapTypes ==
    /\ heap \in [last_used_level : 0 .. Levels - 1, last_used_level_pos : Nat,
                 last_used_level_size : Nat, bulk : Arrays]
    /\ heap.last_used_level_size = SizeOfLevel[heap.last_used_level]
    /\ heap.last_used_level_pos <= heap.last_used_level_size
    /\ ret \in HeapElement \union {InsertFail}

(* While only plain elements came in, all slots are ordered, also those that *)
(* are not in use; the levels that have never been used are empty, and       *)
(* EMPTY_HEAP_NODE is the greatest; and none of those in use holds it.       *)
HeapInv ==
    /\ HeapTypes
    /\ plain =>
          /\ Ordered(heap.bulk)
          /\ Filled(heap.bulk, heap.last_used_level)
          /\ Real(heap.bulk, Slot(heap.last_used_level, heap.last_used_level_pos))

LEMMA HeapOrdered ==
    ASSUME HeapInv
    PROVE  SlotsOrdered
  BY DEF HeapInv, SlotsOrdered, Ordered

LEMMA HeapInvInit ==
    ASSUME Init
    PROVE  HeapInv
  <1>1. /\ heap = [last_used_level |-> 0, last_used_level_pos |-> 0,
                   last_used_level_size |-> 1, bulk |-> [s \in Slots |-> EmptyHeap]]
        /\ ret = 0
    BY DEF Init, EmptyState, InsertSuccess
  <1>2. PICK b : b = [s \in Slots |-> EmptyHeap]
    OBVIOUS
  <1>3. b \in Arrays /\ \A s \in Slots : b[s] = EmptyHeap
    BY <1>2, ElementNumbers DEF Arrays
  <1>4. EmptyHeap <= EmptyHeap
    BY ElementNumbers
  <1>5. HeapTypes
    <2>1. 0 \in 0 .. Levels - 1 /\ SizeOfLevel[0] = 1
      BY SizesAssumption, SizesOfLevels
    <2> QED
      BY <1>1, <1>2, <1>3, <2>1, ElementNumbers DEF HeapTypes
  <1>6. Ordered(b)
    BY <1>3, <1>4, SlotNumbers DEF Ordered
  <1>7. Filled(b, 0)
    BY <1>3, <1>4 DEF Filled
  <1>8. Real(b, Slot(0, 0))
    <2>1. Slot(0, 0) = 0 /\ \A s \in Slots : ~(s < 0)
      BY SlotNumbers DEF First
    <2> QED
      BY <2>1 DEF Real
  <1> QED
    BY <1>1, <1>2, <1>5, <1>6, <1>7, <1>8 DEF HeapInv

(* An element comes into slot x, the first that is not used.                 *)
LEMMA ComesIn ==
    ASSUME NEW a \in Arrays, Ordered(a), NEW l \in 0 .. Levels - 1, Filled(a, l),
           NEW x \in Slots, First(l) <= x, x < First(l + 1),
           NEW el \in HeapElement, el <= EmptyHeap
    PROVE  /\ [a EXCEPT ![x] = el] \in Arrays
           /\ RisingIn([a EXCEPT ![x] = el], x) /\ Plain([a EXCEPT ![x] = el])
  <1>1. PICK b : b = [a EXCEPT ![x] = el]
    OBVIOUS
  <1>2. b \in Arrays /\ \A y \in Slots : b[y] = IF y = x THEN el ELSE a[y]
    BY <1>1 DEF Arrays
  <1>3. Plain(b)
    BY <1>2 DEF Plain, Filled
  <1>4. ASSUME NEW y \in Slots \ {0}, Parent(y) = x
        PROVE  a[y] = EmptyHeap /\ y # x
    <2>1. y \in Nat /\ x \in Nat
      BY SlotNumbers
    <2>2. y = 2 * x + 1 \/ y = 2 * x + 2
      BY <1>4, <2>1, SlotNumbers
    <2>3. /\ l \in 0 .. Levels /\ l + 1 \in 0 .. Levels
      BY SizesAssumption
    <2>4. First(l) \in Nat /\ First(l + 1) \in Nat /\ First(l + 1) = 2 * First(l) + 1
      BY <2>3, SlotNumbers
    <2>5. y >= First(l + 1)
      BY <2>1, <2>2, <2>4
    <2>6. y # x
      BY <2>1, <2>2
    <2> QED
      BY <2>5, <2>6 DEF Filled
  <1>5. ASSUME NEW y \in Slots \ {0}, y # x PROVE b[Parent(y)] <= b[y]
    <2>1. CASE Parent(y) = x
      BY <1>2, <1>4, <1>5, <2>1
    <2>2. CASE Parent(y) # x
      <3>1. Parent(y) \in Slots
        BY SlotNumbers
      <3> QED
        BY <1>2, <1>5, <2>2, <3>1 DEF Ordered
    <2> QED
      BY <2>1, <2>2
  <1>6. ASSUME x # 0, NEW y \in Slots \ {0}, Parent(y) = x PROVE b[Parent(x)] <= b[y]
    <2>1. Parent(x) \in Slots /\ b[y] = EmptyHeap
      BY <1>2, <1>4, <1>6, SlotNumbers
    <2> QED
      BY <1>3, <2>1 DEF Plain
  <1> QED
    BY <1>1, <1>2, <1>3, <1>5, <1>6 DEF RisingIn

(* Where the next element goes. *)
LEMMA NextPlaceIs ==
    ASSUME HeapTypes, ~IsFull(heap)
    PROVE  \E l \in 0 .. Levels - 1, p \in Nat, x \in Slots :
              /\ NextPlace(heap) = [level |-> l, pos |-> p] /\ x = Slot(l, p)
              /\ l >= heap.last_used_level /\ p + 1 <= SizeOfLevel[l]
              /\ First(l) <= x /\ x < First(l + 1)
              /\ SizeOfLevel[l] = (IF l > heap.last_used_level
                                   THEN 2 * heap.last_used_level_size
                                   ELSE heap.last_used_level_size)
              /\ x = Slot(heap.last_used_level, heap.last_used_level_pos)
              /\ Slot(l, p + 1) = x + 1
  <1>1. PICK n, p, z : n = heap.last_used_level /\ p = heap.last_used_level_pos
                       /\ z = heap.last_used_level_size
    OBVIOUS
  <1>2. n \in 0 .. Levels - 1 /\ p \in Nat /\ z \in Nat /\ z = SizeOfLevel[n] /\ p <= z
        /\ Levels \in Nat
    BY <1>1, SizesAssumption DEF HeapTypes
  <1>3. ~(p = z /\ n = Levels - 1)
    BY <1>1 DEF IsFull
  <1>4. ASSUME NEW l \in 0 .. Levels - 1, NEW q \in Nat, q + 1 <= SizeOfLevel[l]
        PROVE  /\ Slot(l, q) \in Slots /\ Slot(l, q) = First(l) + q
               /\ First(l) <= Slot(l, q) /\ Slot(l, q) < First(l + 1)
               /\ Slot(l, q + 1) = Slot(l, q) + 1
    <2>1. l \in 0 .. Levels /\ l + 1 \in 0 .. Levels /\ Levels \in 0 .. Levels
      BY <1>2
    <2>2. PICK a, b, t : a = First(l) /\ b = First(l + 1) /\ t = First(Levels)
      OBVIOUS
    <2>3. /\ a \in Nat /\ b \in Nat /\ t \in Nat /\ b = a + SizeOfLevel[l] /\ b <= t
          /\ SizeOfLevel[l] \in Nat
      BY <2>1, <2>2, SlotNumbers, SizesOfLevels
    <2>4. Slot(l, q) = a + q /\ Slot(l, q + 1) = a + (q + 1)
      <3>1. q + 1 \in Nat
        OBVIOUS
      <3>2. \A i \in Nat : Slot(l, i) = a + i
        BY <2>1, <2>2, SlotNumbers
      <3> QED
        BY <3>1, <3>2
    <2>5. /\ a + q \in Nat /\ a + q < t /\ a <= a + q /\ a + q < b
          /\ a + (q + 1) = (a + q) + 1
      BY <1>4, <2>3
    <2> QED
      BY <2>2, <2>4, <2>5, SlotNumbers
  <1>5. CASE p < z
    <2>1. NextPlace(heap) = [level |-> n, pos |-> p]
      BY <1>1, <1>5 DEF NextPlace
    <2>2. p + 1 <= SizeOfLevel[n] /\ n >= n /\ ~(n > n)
      BY <1>2, <1>5
    <2> QED
      BY <1>1, <1>2, <1>4, <2>1, <2>2
  <1>6. CASE ~(p < z)
    <2>1. p = z /\ n + 1 \in 0 .. Levels - 1 /\ n + 1 >= n /\ n + 1 > n /\ n \in 0 .. Levels
      BY <1>2, <1>3, <1>6
    <2>2. NextPlace(heap) = [level |-> n + 1, pos |-> 0]
      BY <1>1, <1>6 DEF NextPlace
    <2>3. SizeOfLevel[n + 1] = 2 * z
      BY <1>2, SizesOfLevels
    <2>4. 0 + 1 <= SizeOfLevel[n + 1]
      <3>1. n + 1 \in 0 .. Levels
        BY <2>1, <1>2
      <3>2. SizeOfLevel[n + 1] \in Nat \ {0}
        BY <3>1, SizesOfLevels
      <3> QED
        BY <3>2
    <2>5. Slot(n + 1, 0) = Slot(n, p)
      <3>1. First(n + 1) = First(n) + z /\ Slot(n, p) = First(n) + p
        BY <1>2, <2>1, SlotNumbers
      <3> QED
        BY <2>1, <3>1 DEF First
    <2> QED
      BY <1>1, <1>4, <2>1, <2>2, <2>3, <2>4, <2>5
  <1> QED
    BY <1>5, <1>6


LEMMA OperationsAre ==
    ASSUME NEW h
    PROVE  /\ \A el \in Inserted :
                 SerialOperation(h, InsertArg(el)) =
                     [heap |-> Insert(h, el),
                      ret |-> IF IsFull(h) THEN InsertFail ELSE InsertSuccess]
           /\ SerialOperation(h, DeleteMinArg) = [heap |-> DeleteMin(h), ret |-> GetMin(h)]
           /\ SerialOperation(h, GetMinArg) = [heap |-> h, ret |-> GetMin(h)]
  <1>1. ASSUME NEW el \in Inserted
        PROVE  SerialOperation(h, InsertArg(el)) =
                     [heap |-> Insert(h, el),
                      ret |-> IF IsFull(h) THEN InsertFail ELSE InsertSuccess]
    <2>1. PICK arg : arg = InsertArg(el)
      OBVIOUS
    <2>2. Op(arg) = InsertOp /\ Val(arg) = el
      BY <2>1, ArgsAre
    <2>3. SerialOperation(h, arg) =
                     [heap |-> Insert(h, el),
                      ret |-> IF IsFull(h) THEN InsertFail ELSE InsertSuccess]
      BY <2>2 DEF SerialOperation, InsertOp, DeleteMinOp, GetMinOp
    <2> QED
      BY <2>1, <2>3
  <1>2. SerialOperation(h, DeleteMinArg) = [heap |-> DeleteMin(h), ret |-> GetMin(h)]
    <2>1. PICK arg : arg = DeleteMinArg
      OBVIOUS
    <2>2. Op(arg) = DeleteMinOp
      BY <2>1, ArgsAre
    <2>3. SerialOperation(h, arg) = [heap |-> DeleteMin(h), ret |-> GetMin(h)]
      BY <2>2 DEF SerialOperation, InsertOp, DeleteMinOp, GetMinOp
    <2> QED
      BY <2>1, <2>3
  <1>3. SerialOperation(h, GetMinArg) = [heap |-> h, ret |-> GetMin(h)]
    <2>1. PICK arg : arg = GetMinArg
      OBVIOUS
    <2>2. Op(arg) = GetMinOp
      BY <2>1, ArgsAre
    <2>3. SerialOperation(h, arg) = [heap |-> h, ret |-> GetMin(h)]
      BY <2>2 DEF SerialOperation, InsertOp, DeleteMinOp, GetMinOp
    <2> QED
      BY <2>1, <2>3
  <1> QED
    BY <1>1, <1>2, <1>3

(* The slots up to m in which b holds e.                                     *)
Where(b, m, e) == {s \in Slots : s <= m /\ b[s] = e}

LEMMA WhereFinite ==
    ASSUME NEW b, NEW m \in Slots, NEW e
    PROVE  IsFiniteSet(Where(b, m, e))
  <1>1. m \in Nat /\ \A s \in Slots : s \in Nat
    BY SlotNumbers
  <1>2. IsFiniteSet(0 .. m)
    BY <1>1, FS_Interval
  <1>3. ASSUME NEW s \in Where(b, m, e) PROVE s \in 0 .. m
    <2>1. s \in Slots /\ s <= m
      BY DEF Where
    <2>2. s \in Nat /\ m \in Nat
      BY <1>1, <2>1
    <2> QED
      BY <2>1, <2>2
  <1> QED
    BY <1>2, <1>3, FS_Subset

(* As many slots hold an element after an exchange as before. *)
LEMMA SwapKeepsAll ==
    ASSUME NEW b \in Arrays, NEW m \in Slots, NEW s \in Slots, NEW r \in Slots,
           s <= m, r <= m, NEW e
    PROVE  Cardinality(Where(Swap(b, s, r), m, e)) = Cardinality(Where(b, m, e))
  <1>1. PICK c : c = Swap(b, s, r)
    OBVIOUS
  <1>2. \A x \in Slots : c[x] = IF x = s THEN b[r] ELSE IF x = r THEN b[s] ELSE b[x]
    <2>1. \A x \in Slots : Swap(b, s, r)[x] = IF x = s THEN b[r] ELSE IF x = r THEN b[s] ELSE b[x]
      BY SwapIs
    <2> QED
      BY <1>1, <2>1
  <1> DEFINE other(x) == IF x = s THEN r ELSE IF x = r THEN s ELSE x
             f == [x \in Where(b, m, e) |-> other(x)]
  <1>3. \A x \in Slots : other(x) \in Slots /\ other(other(x)) = x /\ c[other(x)] = b[x]
    BY <1>2
  <1>4. \A x \in Slots : x <= m => other(x) <= m
    OBVIOUS
  <1>5. \A x \in Slots : c[x] = b[other(x)]
    BY <1>2
  <1> HIDE DEF other
  <1>6. \A x \in Where(b, m, e) : other(x) \in Where(c, m, e)
    BY <1>3, <1>4 DEF Where
  <1>7. \A y \in Where(c, m, e) : other(y) \in Where(b, m, e) /\ other(other(y)) = y
    BY <1>3, <1>4, <1>5 DEF Where
  <1>8. f \in [Where(b, m, e) -> Where(c, m, e)]
    BY <1>6
  <1>9. \A x, y \in Where(b, m, e) : f[x] = f[y] => x = y
    BY <1>3 DEF Where
  <1>10. \A y \in Where(c, m, e) : \E x \in Where(b, m, e) : f[x] = y
    BY <1>7
  <1> HIDE DEF f
  <1>11. ExistsBijection(Where(b, m, e), Where(c, m, e))
    BY <1>8, <1>9, <1>10, Fun_IsBij, Fun_ExistsBij
  <1> QED
    BY <1>1, <1>11, WhereFinite, FS_Bijection

LEMMA RiseKeepsAll ==
    ASSUME NEW f, \A s \in Slots : f[s] = RiseOf(f, s), NEW m \in Slots, NEW e
    PROVE  \A s \in Slots : s <= m => \A b \in Arrays :
               /\ f[s][b] \in Arrays
               /\ Cardinality(Where(f[s][b], m, e)) = Cardinality(Where(b, m, e))
  <1> DEFINE Good(s) == \A b \in Arrays :
                  /\ f[s][b] \in Arrays
                  /\ Cardinality(Where(f[s][b], m, e)) = Cardinality(Where(b, m, e))
             T == {k \in Nat : \A s \in Slots : s <= k /\ s <= m => Good(s)}
  <1>1. ASSUME NEW s \in Slots, s <= m, s # 0 => Good(Parent(s))
        PROVE  Good(s)
    <2> SUFFICES ASSUME NEW b \in Arrays
                 PROVE  /\ f[s][b] \in Arrays
                        /\ Cardinality(Where(f[s][b], m, e)) = Cardinality(Where(b, m, e))
      OBVIOUS
    <2>1. f[s][b] = IF s > 0 /\ b[s] < b[Parent(s)]
                    THEN f[Parent(s)][Swap(b, s, Parent(s))] ELSE b
      BY RiseAt
    <2>2. CASE ~(s > 0 /\ b[s] < b[Parent(s)])
      BY <2>1, <2>2
    <2>3. CASE s > 0 /\ b[s] < b[Parent(s)]
      <3>1. PICK p : p = Parent(s)
        OBVIOUS
      <3>2. s \in Nat /\ m \in Nat /\ s # 0
        BY <2>3, SlotNumbers
      <3>3. p \in Slots /\ p \in Nat /\ p < s
        BY <3>1, <3>2, SlotNumbers
      <3>4. p <= m
        BY <1>1, <3>2, <3>3
      <3>5. PICK c \in Arrays : c = Swap(b, s, p)
        BY <3>3, SwapIs
      <3>6. Cardinality(Where(c, m, e)) = Cardinality(Where(b, m, e))
        <4>1. s \in Slots /\ p \in Slots /\ m \in Slots /\ s <= m /\ p <= m /\ b \in Arrays
          BY <1>1, <3>3, <3>4
        <4>2. Cardinality(Where(Swap(b, s, p), m, e)) = Cardinality(Where(b, m, e))
          BY <4>1, SwapKeepsAll
        <4> QED
          BY <3>5, <4>2
      <3>7. f[s][b] = f[p][c]
        BY <2>1, <2>3, <3>1, <3>5
      <3>8. /\ f[p][c] \in Arrays
            /\ Cardinality(Where(f[p][c], m, e)) = Cardinality(Where(c, m, e))
        BY <1>1, <3>1, <3>2, <3>5
      <3> QED
        BY <3>6, <3>7, <3>8
    <2> QED
      BY <2>2, <2>3
  <1> HIDE DEF Good
  <1>2. 0 \in T
    <2>1. \A s \in Slots : s <= 0 => s = 0
      BY SlotNumbers
    <2> QED
      BY <1>1, <2>1
  <1>3. ASSUME NEW k \in T PROVE k + 1 \in T
    <2>1. k \in Nat /\ m \in Nat /\ \A s \in Slots : s <= k /\ s <= m => Good(s)
      BY SlotNumbers
    <2>2. ASSUME NEW s \in Slots, s <= k + 1, s <= m PROVE Good(s)
      <3>1. ASSUME s # 0 PROVE Good(Parent(s))
        <4>1. PICK p : p = Parent(s)
          OBVIOUS
        <4>2. p \in Slots /\ p \in Nat /\ s \in Nat /\ p < s
          BY <3>1, <4>1, SlotNumbers
        <4>3. p <= k /\ p <= m
          BY <2>1, <2>2, <4>2
        <4> QED
          BY <2>1, <4>1, <4>2, <4>3
      <3> QED
        BY <1>1, <2>2, <3>1
    <2> QED
      BY <2>1, <2>2
  <1> HIDE DEF T
  <1>4. T = Nat
    BY <1>2, <1>3, SetInduction DEF T
  <1>5. ASSUME NEW s \in Slots, s <= m PROVE Good(s)
    <2>1. s \in T /\ s <= s
      BY <1>4, SlotNumbers
    <2> QED
      BY <1>5, <2>1 DEF T
  <1> QED
    BY <1>5 DEF Good

(* A plain element comes into slot x and rises. *)
LEMMA InsertOrders ==
    ASSUME NEW n \in 0 .. Levels - 1, NEW l \in 0 .. Levels - 1, l = n \/ l = n + 1,
           NEW a \in Arrays, Ordered(a), Filled(a, n),
           NEW x \in Slots, First(l) <= x, x < First(l + 1), Real(a, x),
           NEW el \in HeapElement, el < EmptyHeap,
           NEW f, \A s \in Slots : f[s] = RiseOf(f, s)
    PROVE  /\ Ordered(f[x][[a EXCEPT ![x] = el]]) /\ Filled(f[x][[a EXCEPT ![x] = el]], l)
           /\ Real(f[x][[a EXCEPT ![x] = el]], x + 1)
  <1>1. PICK b, out : b = [a EXCEPT ![x] = el] /\ out = f[x][b]
    OBVIOUS
  <1>2. /\ l + 1 \in 0 .. Levels /\ n + 1 \in 0 .. Levels /\ l \in 0 .. Levels
        /\ First(l) \in Nat /\ First(l + 1) \in Nat /\ First(n + 1) \in Nat
        /\ First(l + 1) = 2 * First(l) + 1
    <2>1. l + 1 \in 0 .. Levels /\ n + 1 \in 0 .. Levels /\ l \in 0 .. Levels
      BY SizesAssumption
    <2> QED
      BY <2>1, SlotNumbers
  <1>3. x \in Nat /\ \A y \in Slots : y \in Nat
    BY SlotNumbers
  <1>4. Filled(a, l)
    <2>1. First(n + 1) <= First(l + 1)
      <3>1. CASE l = n
        BY <1>2, <3>1
      <3>2. CASE l = n + 1
        <4>1. First(l) <= First(l + 1)
          BY <1>2
        <4> QED
          BY <3>2, <4>1
      <3> QED
        BY <3>1, <3>2
    <2>2. ASSUME NEW y \in Slots, y >= First(l + 1) PROVE a[y] = EmptyHeap
      <3>1. y >= First(n + 1)
        BY <1>2, <1>3, <2>1, <2>2
      <3> QED
        BY <3>1 DEF Filled
    <2> QED
      BY <2>2 DEF Filled
  <1>5. el <= EmptyHeap
    <2>1. el \in Nat /\ EmptyHeap \in Nat
      BY ElementNumbers
    <2> QED
      BY <2>1
  <1>6. b \in Arrays /\ RisingIn(b, x) /\ Plain(b)
    BY <1>1, <1>4, <1>5, ComesIn
  <1>7. /\ out \in Arrays /\ Ordered(out) /\ Plain(out)
        /\ \A y \in Slots : y > x => out[y] = b[y]
    <2>1. \A s \in Slots : \A c \in Arrays :
              RisingIn(c, s) /\ Plain(c) =>
                  /\ f[s][c] \in Arrays /\ Ordered(f[s][c]) /\ Plain(f[s][c])
                  /\ \A y \in Slots : y > s => f[s][c][y] = c[y]
      BY RiseOrders
    <2>2. /\ f[x][b] \in Arrays /\ Ordered(f[x][b]) /\ Plain(f[x][b])
          /\ \A y \in Slots : y > x => f[x][b][y] = b[y]
      BY <1>6, <2>1
    <2> QED
      BY <1>1, <2>2
  <1>8. ASSUME NEW y \in Slots, y >= First(l + 1) PROVE out[y] = EmptyHeap
    <2>1. y > x /\ y # x
      BY <1>2, <1>3, <1>8
    <2>2. out[y] = b[y] /\ b[y] = a[y]
      BY <1>1, <1>7, <2>1 DEF Arrays
    <2> QED
      BY <1>4, <1>8, <2>2 DEF Filled
  <1>9. Filled(out, l)
    BY <1>7, <1>8 DEF Filled, Plain
  <1>10. ASSUME NEW y \in Slots, y < x + 1 PROVE out[y] < EmptyHeap
    <2>1. \A z \in Slots : z <= x => z < x \/ z = x
      BY <1>3
    <2>2. \A z \in Slots : z <= x => b[z] < EmptyHeap
      BY <1>1, <2>1 DEF Real, Arrays
    <2>3. EmptyHeap \in Nat /\ ~(EmptyHeap < EmptyHeap)
      BY ElementNumbers
    <2>4. Where(b, x, EmptyHeap) = {}
      BY <2>2, <2>3 DEF Where
    <2>5. Cardinality(Where(out, x, EmptyHeap)) = 0
      <3>1. x <= x
        BY <1>3
      <3>2. Cardinality(Where(f[x][b], x, EmptyHeap)) = Cardinality(Where(b, x, EmptyHeap))
        BY <1>6, <3>1, RiseKeepsAll
      <3> QED
        BY <1>1, <2>4, <3>2, FS_EmptySet
    <2>6. Where(out, x, EmptyHeap) = {}
      BY <2>5, WhereFinite, FS_EmptySet
    <2>7. y <= x
      BY <1>3, <1>10
    <2>8. out[y] # EmptyHeap
      BY <2>6, <2>7 DEF Where
    <2>9. out[y] <= EmptyHeap /\ out[y] \in Nat
      BY <1>7, ElementNumbers DEF Plain
    <2> QED
      BY <2>3, <2>8, <2>9
  <1> QED
    BY <1>1, <1>7, <1>9, <1>10 DEF Real

LEMMA InsertKeeps ==
    ASSUME HeapInv, NEW el \in Inserted, HeapInsert(el)
    PROVE  HeapInv'
  <1>1. /\ heap' = Insert(heap, el)
        /\ ret' = IF IsFull(heap) THEN InsertFail ELSE InsertSuccess
    <2>1. PICK op : op = SerialOperation(heap, InsertArg(el))
      OBVIOUS
    <2>2. heap' = op.heap /\ ret' = op.ret
      BY <2>1 DEF HeapInsert, Operate
    <2>3. op = [heap |-> Insert(heap, el),
                ret |-> IF IsFull(heap) THEN InsertFail ELSE InsertSuccess]
      BY <2>1, OperationsAre
    <2> QED
      BY <2>2, <2>3
  <1>2. ret' \in HeapElement \union {InsertFail}
    BY <1>1, ElementNumbers DEF InsertSuccess
  <1>3. plain' => plain /\ el < EmptyHeap
    <2>1. plain' = (plain /\ el < EmptyHeap)
      BY Zenon DEF HeapInsert
    <2> QED
      BY <2>1, Zenon
  <1>4. CASE IsFull(heap)
    <2>1. heap' = heap
      BY <1>1, <1>4 DEF Insert
    <2> QED
      BY <1>2, <1>3, <2>1 DEF HeapInv, HeapTypes, Ordered, Filled, Real
  <1>5. CASE ~IsFull(heap)
    <2>1. PICK l \in 0 .. Levels - 1, p \in Nat, x \in Slots :
              /\ NextPlace(heap) = [level |-> l, pos |-> p] /\ x = Slot(l, p)
              /\ l >= heap.last_used_level /\ p + 1 <= SizeOfLevel[l]
              /\ First(l) <= x /\ x < First(l + 1)
              /\ SizeOfLevel[l] = (IF l > heap.last_used_level
                                   THEN 2 * heap.last_used_level_size
                                   ELSE heap.last_used_level_size)
              /\ x = Slot(heap.last_used_level, heap.last_used_level_pos)
              /\ Slot(l, p + 1) = x + 1
      BY <1>5, NextPlaceIs DEF HeapInv
    <2>2. PICK a \in Arrays : a = heap.bulk
      BY DEF HeapInv, HeapTypes
    <2>3. PICK b : b = [a EXCEPT ![x] = el]
      OBVIOUS
    <2>4. PICK z : z = (IF l > heap.last_used_level
                        THEN 2 * heap.last_used_level_size
                        ELSE heap.last_used_level_size)
      OBVIOUS
    <2>5. PICK out : out = CorrectDownHeap(b, x)
      OBVIOUS
    <2>6. heap' = [last_used_level |-> l, last_used_level_pos |-> p + 1,
                   last_used_level_size |-> z, bulk |-> out]
      <3>1. Slot(l, p) = x /\ heap' = Insert(heap, el)
        BY <1>1, <2>1
      <3>2. Insert(heap, el) = [last_used_level |-> l, last_used_level_pos |-> p + 1,
                                last_used_level_size |-> z,
                                bulk |-> CorrectDownHeap([heap.bulk EXCEPT ![x] = el], x)]
        <4>1. NextPlace(heap).level = l /\ NextPlace(heap).pos = p
          BY <2>1
        <4>2. Slot(NextPlace(heap).level, NextPlace(heap).pos) = x
          BY <3>1, <4>1
        <4>3. Insert(heap, el) =
                 [last_used_level |-> NextPlace(heap).level,
                  last_used_level_pos |-> NextPlace(heap).pos + 1,
                  last_used_level_size |->
                      IF NextPlace(heap).level > heap.last_used_level
                      THEN 2 * heap.last_used_level_size ELSE heap.last_used_level_size,
                  bulk |-> CorrectDownHeap([heap.bulk EXCEPT
                                ![Slot(NextPlace(heap).level, NextPlace(heap).pos)] = el],
                                Slot(NextPlace(heap).level, NextPlace(heap).pos))]
          BY <1>5, Zenon DEF Insert
        <4> QED
          BY <2>4, <4>1, <4>2, <4>3
      <3> QED
        BY <2>2, <2>3, <2>5, <3>1, <3>2
    <2>7. el \in HeapElement /\ b \in Arrays
      <3>1. el \in HeapElement
        BY ArgsAre
      <3> QED
        BY <2>3, <3>1 DEF Arrays
    <2>8. PICK f : /\ \A s \in Slots : f[s] = RiseOf(f, s)
                   /\ \A c, s : CorrectDownHeap(c, s) = f[s][c]
      BY CorrectDownIs
    <2>9. out = f[x][b] /\ out \in Arrays
      <3>1. out = f[x][b]
        BY <2>5, <2>8
      <3>2. x <= x
        <4>1. x \in Nat
          BY SlotNumbers
        <4> QED
          BY <4>1
      <3> QED
        BY <2>7, <2>8, <3>1, <3>2, RiseKeepsAll
    <2>10. z \in Nat /\ z = SizeOfLevel[l]
      <3>1. l \in 0 .. Levels
        BY SizesAssumption
      <3> QED
        BY <2>1, <2>4, <3>1, SizesOfLevels
    <2>11. /\ p + 1 \in Nat /\ p + 1 <= z
      BY <2>1, <2>10
    <2>12. HeapTypes'
      BY <1>2, <2>6, <2>9, <2>10, <2>11 DEF HeapTypes
    <2>13. ASSUME plain'
           PROVE  Ordered(out) /\ Filled(out, l) /\ Real(out, x + 1)
      <3>1. plain /\ el < EmptyHeap
        BY <1>3, <2>13, Zenon
      <3>2. PICK n : n = heap.last_used_level
        OBVIOUS
      <3>3. n \in 0 .. Levels - 1 /\ Ordered(a) /\ Filled(a, n) /\ Real(a, x)
        BY <2>1, <2>2, <3>1, <3>2 DEF HeapInv, HeapTypes
      <3>4. l = NextPlace(heap).level
        BY <2>1
      <3>5. l = n \/ l = n + 1
        BY <3>2, <3>4 DEF NextPlace
      <3>6. /\ Ordered(f[x][[a EXCEPT ![x] = el]]) /\ Filled(f[x][[a EXCEPT ![x] = el]], l)
            /\ Real(f[x][[a EXCEPT ![x] = el]], x + 1)
        BY <2>1, <2>7, <2>8, <3>1, <3>3, <3>5, InsertOrders
      <3> QED
        BY <2>3, <2>9, <3>6
    <2> QED
      BY <2>1, <2>6, <2>12, <2>13 DEF HeapInv
  <1> QED
    BY <1>4, <1>5

(* The last element takes the place of the root. *)
LEMMA GoesDown ==
    ASSUME NEW l \in 0 .. Levels - 1, NEW a \in Arrays, NEW x \in Slots, NEW n
    PROVE  LET out == CorrectUpHeap([a EXCEPT ![0] = a[x]], l)
           IN  /\ out \in Arrays
               /\ Ordered(a) /\ Filled(a, l) => Ordered(out) /\ Filled(out, l)
               /\ a[x] < EmptyHeap /\ Real(a, n) => Real(out, n)
  <1>1. PICK b, out : b = [a EXCEPT ![0] = a[x]] /\ out = CorrectUpHeap(b, l)
    OBVIOUS
  <1>2. b \in Arrays /\ \A y \in Slots : b[y] = IF y = 0 THEN a[x] ELSE a[y]
    BY <1>1 DEF Arrays
  <1>3. 0 < First(l + 1) /\ 0 \in Slots /\ First(l + 1) \in Nat
    <2>1. l \in 0 .. Levels
      BY SizesAssumption
    <2>2. First(l + 1) = 2 * First(l) + 1 /\ First(l) \in Nat
      BY <2>1, SlotNumbers
    <2>3. 0 \in Slots
      BY SlotNumbers
    <2>4. 0 < First(l + 1) /\ First(l + 1) \in Nat
      BY <2>2
    <2> QED
      BY <2>3, <2>4
  <1>4. PICK f : /\ \A s \in Slots : f[s] = SinkOf(f, l, s)
                 /\ \A c : CorrectUpHeap(c, l) = f[0][c]
    BY CorrectUpIs
  <1>5. out = f[0][b]
    BY <1>1, <1>4
  <1>6. out \in Arrays /\ (b[0] < EmptyHeap /\ Real(b, n) => Real(out, n))
    BY <1>2, <1>3, <1>4, <1>5, SinkKeepsAll
  <1>7. ASSUME Ordered(a), Filled(a, l)
        PROVE  Ordered(out) /\ Filled(out, l)
    <2>1. ASSUME NEW y \in Slots \ {0}, Parent(y) # 0 PROVE b[Parent(y)] <= b[y]
      <3>1. Parent(y) \in Slots
        BY SlotNumbers
      <3> QED
        BY <1>2, <1>7, <2>1, <3>1 DEF Ordered
    <2>2. SinkingIn(b, 0)
      BY <2>1 DEF SinkingIn
    <2>3. Filled(b, l)
      <3>1. ~(0 >= First(l + 1))
        BY <1>3
      <3> QED
        BY <1>2, <1>7, <3>1 DEF Filled
    <2> QED
      BY <1>2, <1>3, <1>4, <1>5, <2>2, <2>3, SinkOrders
  <1>8. ASSUME a[x] < EmptyHeap, Real(a, n)
        PROVE  Real(out, n)
    <2>1. b[0] < EmptyHeap /\ Real(b, n)
      BY <1>2, <1>3, <1>8 DEF Real
    <2> QED
      BY <1>6, <2>1
  <1> QED
    BY <1>1, <1>6, <1>7, <1>8

LEMMA GetMinIs ==
    ASSUME HeapTypes
    PROVE  /\ GetMin(heap) \in HeapElement
           /\ GetMin(heap) # EmptyHeap =>
                 /\ heap.last_used_level # 0 /\ heap.last_used_level_pos # 0
                 /\ GetMin(heap) = heap.bulk[0]
  BY ElementNumbers, SlotNumbers DEF GetMin, HeapTypes, Arrays

LEMMA DeleteMinKeeps ==
    ASSUME HeapInv, HeapDeleteMin
    PROVE  HeapInv'
  <1>1. heap' = DeleteMin(heap) /\ ret' = GetMin(heap)
    <2>1. PICK op : op = SerialOperation(heap, DeleteMinArg)
      OBVIOUS
    <2>2. heap' = op.heap /\ ret' = op.ret
      BY <2>1 DEF HeapDeleteMin, Operate
    <2>3. op = [heap |-> DeleteMin(heap), ret |-> GetMin(heap)]
      BY <2>1, OperationsAre
    <2> QED
      BY <2>2, <2>3
  <1>2. ret' \in HeapElement \union {InsertFail} /\ plain' = plain
    BY <1>1, GetMinIs DEF HeapInv, HeapDeleteMin
  <1>3. CASE GetMin(heap) = EmptyHeap
    <2>1. heap' = heap
      BY <1>1, <1>3 DEF DeleteMin
    <2> QED
      BY <1>2, <2>1 DEF HeapInv, HeapTypes, Ordered, Filled, Real
  <1>4. CASE GetMin(heap) # EmptyHeap
    <2>1. PICK l, p, z, a : /\ l = heap.last_used_level /\ p = heap.last_used_level_pos
                            /\ z = heap.last_used_level_size /\ a = heap.bulk
      OBVIOUS
    <2>2. /\ heap = [last_used_level |-> l, last_used_level_pos |-> p,
                     last_used_level_size |-> z, bulk |-> a]
          /\ l \in 0 .. Levels - 1 /\ p \in Nat /\ z \in Nat /\ a \in Arrays
          /\ z = SizeOfLevel[l] /\ p <= z
          /\ plain => Ordered(a) /\ Filled(a, l) /\ Real(a, Slot(l, p))
      BY <2>1 DEF HeapInv, HeapTypes
    <2>3. p > 0
      BY <1>4, <2>1, <2>2, GetMinIs DEF HeapInv
    <2>4. PICK x \in Slots : x = Slot(l, p - 1) /\ x < Slot(l, p)
      <3>1. l \in 0 .. Levels /\ p - 1 \in Nat /\ l + 1 \in 0 .. Levels /\ Levels \in 0 .. Levels
        BY <2>2, <2>3, SizesAssumption
      <3>2. PICK i, j, t : i = First(l) /\ j = First(l + 1) /\ t = First(Levels)
        OBVIOUS
      <3>3. i \in Nat /\ t \in Nat /\ j \in Nat /\ j = i + z /\ j <= t
        BY <2>2, <3>1, <3>2, SlotNumbers
      <3>4. Slot(l, p - 1) = i + (p - 1)
        BY <3>1, <3>2, SlotNumbers
      <3>5. i + (p - 1) \in Nat /\ i + (p - 1) < t /\ i + (p - 1) < i + p
        BY <2>2, <2>3, <3>3
      <3>6. Slot(l, p) = i + p
        BY <2>2, <3>1, <3>2, SlotNumbers
      <3> QED
        BY <3>2, <3>4, <3>5, <3>6, SlotNumbers
    <2>5. PICK out : out = CorrectUpHeap([a EXCEPT ![0] = a[x]], l)
      OBVIOUS
    <2>6. heap' = [last_used_level |-> l, last_used_level_pos |-> p - 1,
                   last_used_level_size |-> z, bulk |-> out]
      <3>1. PICK h : h = [heap EXCEPT !.last_used_level_pos = @ - 1]
        OBVIOUS
      <3>2. h = [last_used_level |-> l, last_used_level_pos |-> p - 1,
                 last_used_level_size |-> z, bulk |-> a]
        BY <2>2, <3>1
      <3>3. heap' = MoveLastToRoot(h)
        BY <1>1, <1>4, <2>1, <2>3, <3>1 DEF DeleteMin
      <3>4. MoveLastToRoot(h) = [h EXCEPT !.bulk = out]
        BY <2>4, <2>5, <3>2 DEF MoveLastToRoot
      <3> QED
        BY <3>2, <3>3, <3>4
    <2>7. PICK n : n = Slot(l, p)
      OBVIOUS
    <2>8. /\ out \in Arrays
          /\ Ordered(a) /\ Filled(a, l) => Ordered(out) /\ Filled(out, l)
          /\ a[x] < EmptyHeap /\ Real(a, n) => Real(out, n)
      BY <2>2, <2>5, GoesDown
    <2>9. p - 1 \in Nat /\ p - 1 <= z
      BY <2>2, <2>3
    <2>10. HeapTypes'
      BY <1>2, <2>2, <2>6, <2>8, <2>9 DEF HeapTypes
    <2>11. ASSUME plain'
           PROVE  Ordered(out) /\ Filled(out, l) /\ Real(out, x)
      <3>1. plain
        BY <1>2, <2>11, Zenon
      <3>2. a[x] < EmptyHeap
        BY <2>2, <2>4, <3>1 DEF Real
      <3>3. Ordered(out) /\ Filled(out, l) /\ Real(out, n)
        BY <2>2, <2>7, <2>8, <3>1, <3>2
      <3>4. \A y \in Slots : y < x => y < n
        <4> SUFFICES ASSUME NEW y \in Slots, y < x PROVE y < n
          OBVIOUS
        <4>1. l \in 0 .. Levels /\ p \in Nat
          BY <2>2, SizesAssumption
        <4>2. y \in Nat /\ x \in Nat /\ First(l) \in Nat /\ n = First(l) + p
          BY <2>7, <4>1, SlotNumbers
        <4> QED
          BY <2>4, <2>7, <4>1, <4>2
      <3> QED
        BY <3>3, <3>4 DEF Real
    <2> QED
      BY <2>4, <2>6, <2>10, <2>11 DEF HeapInv
  <1> QED
    BY <1>3, <1>4

LEMMA GetMinKeeps ==
    ASSUME HeapInv, HeapGetMin
    PROVE  HeapInv'
  <1>1. heap' = heap /\ ret' = GetMin(heap)
    <2>1. PICK op : op = SerialOperation(heap, GetMinArg)
      OBVIOUS
    <2>2. heap' = op.heap /\ ret' = op.ret
      BY <2>1 DEF HeapGetMin, Operate
    <2>3. op = [heap |-> heap, ret |-> GetMin(heap)]
      BY <2>1, OperationsAre
    <2> QED
      BY <2>2, <2>3
  <1>2. ret' \in HeapElement \union {InsertFail} /\ plain' = plain
    BY <1>1, GetMinIs DEF HeapInv, HeapGetMin
  <1> QED
    BY <1>1, <1>2 DEF HeapInv, HeapTypes, Ordered, Filled, Real


LEMMA HeapInvNext ==
    ASSUME HeapInv, [PartsNext]_partsVars
    PROVE  HeapInv'
  <1>1. CASE UNCHANGED heapVars
    BY <1>1 DEF heapVars, HeapInv, HeapTypes, Ordered, Filled, Real
  <1>2. CASE Next
    BY <1>2, InsertKeeps, DeleteMinKeeps, GetMinKeeps DEF Next
  <1> QED
    BY <1>1, <1>2 DEF PartsNext, partsVars

(* In an ordered array no slot is less than the root.                        *)
LEMMA RootLeast ==
    ASSUME NEW b \in Arrays, Ordered(b)
    PROVE  \A s \in Slots : b[0] <= b[s]
  <1> DEFINE T == {k \in Nat : \A s \in Slots : s <= k => b[0] <= b[s]}
  <1>1. b[0] \in Nat /\ b[0] <= b[0]
    <2>1. PICK n : n = b[0]
      OBVIOUS
    <2>2. n \in Nat
      BY <2>1, SlotNumbers, ElementNumbers
    <2>3. n <= n
      BY <2>2
    <2> QED
      BY <2>1, <2>2, <2>3
  <1>2. 0 \in T
    <2>1. \A s \in Slots : s <= 0 => s = 0
      BY SlotNumbers
    <2>2. b[0] <= b[0]
      BY <1>1
    <2> QED
      BY <2>1, <2>2
  <1>3. ASSUME NEW k \in T PROVE k + 1 \in T
    <2>1. ASSUME NEW s \in Slots, s <= k + 1 PROVE b[0] <= b[s]
      <3>1. CASE s = 0
        BY <1>1, <3>1
      <3>2. CASE s # 0
        <4>1. PICK p : p = Parent(s)
          OBVIOUS
        <4>2. p \in Slots /\ p \in Nat /\ s \in Nat /\ p < s
          BY <3>2, <4>1, SlotNumbers
        <4>3. p <= k
          BY <2>1, <4>2
        <4>4. b[0] <= b[p] /\ b[p] <= b[s]
          BY <3>2, <4>1, <4>2, <4>3 DEF Ordered
        <4>5. b[0] \in Nat /\ b[p] \in Nat /\ b[s] \in Nat
          BY <4>2, SlotNumbers, ElementNumbers
        <4> QED
          BY <4>4, <4>5
      <3> QED
        BY <3>1, <3>2
    <2> QED
      BY <2>1
  <1> HIDE DEF T
  <1>4. T = Nat
    BY <1>2, <1>3, SetInduction DEF T
  <1>5. ASSUME NEW s \in Slots PROVE b[0] <= b[s]
    <2>1. s \in T /\ s <= s
      BY <1>4, SlotNumbers
    <2> QED
      BY <2>1 DEF T
  <1> QED
    BY <1>5

LEMMA LeastIsReturned ==
    ASSUME HeapInv, plain, GetMin(heap) # EmptyHeap
    PROVE  /\ GetMin(heap) \in DOMAIN Elements(heap)
           /\ \A e \in DOMAIN Elements(heap) : GetMin(heap) <= e
  <1>1. PICK l, p, a : /\ l = heap.last_used_level /\ p = heap.last_used_level_pos
                       /\ a = heap.bulk
    OBVIOUS
  <1>2. /\ l \in 0 .. Levels - 1 /\ p \in Nat /\ l # 0 /\ p # 0
        /\ a \in Arrays /\ Ordered(a) /\ GetMin(heap) = a[0]
    BY <1>1, GetMinIs DEF HeapInv, HeapTypes
  <1>3. DOMAIN Elements(heap) = {a[s] : s \in UsedSlots(heap)}
    BY <1>1 DEF Elements
  <1>4. 0 \in UsedSlots(heap)
    <2>1. l \in 0 .. Levels
      BY <1>2, SizesAssumption
    <2>2. PICK x : x = Slot(l, p)
      OBVIOUS
    <2>3. First(l) \in Nat /\ x = First(l) + p
      BY <1>2, <2>1, <2>2, SlotNumbers
    <2>4. 0 < x
      BY <1>2, <2>3
    <2> QED
      BY <1>1, <2>2, <2>4, SlotNumbers DEF UsedSlots
  <1>5. UsedSlots(heap) \subseteq Slots
    BY DEF UsedSlots
  <1>6. \A s \in Slots : a[0] <= a[s]
    BY <1>2, RootLeast
  <1> QED
    BY <1>2, <1>3, <1>4, <1>5, <1>6

(* A heap of plain elements is taken for empty when it has whole levels only.*)
LEMMA EmptyWhenWhole ==
    ASSUME HeapInv, plain, GetMin(heap) = EmptyHeap
    PROVE  OnlyWholeLevels(heap)
  <1>1. PICK l, p : l = heap.last_used_level /\ p = heap.last_used_level_pos
    OBVIOUS
  <1>2. /\ l \in 0 .. Levels - 1 /\ l \in 0 .. Levels /\ p \in Nat /\ p <= SizeOfLevel[l]
        /\ Levels \in 0 .. Levels /\ 0 \in 0 .. Levels /\ 1 \in 0 .. Levels
        /\ 0 \in 0 .. Levels - 1 /\ 0 + 1 = 1
    BY <1>1, SizesAssumption DEF HeapInv, HeapTypes
  <1>3. ASSUME NEW k \in 0 .. Levels, \A s \in Nat : s < First(k) => s \in Slots,
               Slot(l, p) = First(k)
        PROVE  OnlyWholeLevels(heap)
    <2>1. SizeOfLevel[k] \in Nat \ {0} /\ First(k) = SizeOfLevel[k] - 1
      <3>1. SizeOfLevel[k] \in Nat \ {0}
        BY SizesOfLevels
      <3> QED
        BY <3>1 DEF First, Slot
    <2>2. UsedSlots(heap) = {s \in Slots : s < First(k)}
      BY <1>1, <1>3 DEF UsedSlots
    <2>3. \A s \in Slots : s \in Nat
      BY SlotNumbers
    <2>4. {s \in Slots : s < First(k)} = 0 .. SizeOfLevel[k] - 2
      BY <1>3, <2>1, <2>3
    <2> QED
      BY <2>2, <2>4 DEF OnlyWholeLevels
  <1>4. ASSUME NEW k \in 0 .. Levels PROVE \A s \in Nat : s < First(k) => s \in Slots
    <2>1. PICK n, t : n = First(k) /\ t = First(Levels)
      OBVIOUS
    <2>2. n \in Nat /\ t \in Nat /\ n <= t
      <3>1. SizeOfLevel[k] \in Nat /\ SizeOfLevel[Levels] \in Nat
            /\ SizeOfLevel[k] <= SizeOfLevel[Levels]
        BY <1>2, SizesOfLevels, LevelsFit
      <3>2. n = SizeOfLevel[k] - 1 /\ t = SizeOfLevel[Levels] - 1
        BY <2>1, <3>1 DEF First, Slot
      <3>3. n \in Nat /\ t \in Nat
        BY <1>2, <2>1, SlotNumbers
      <3> QED
        BY <3>1, <3>2, <3>3
    <2>3. \A s \in Nat : s < n => s < t
      BY <2>2
    <2> QED
      BY <2>1, <2>3, SlotNumbers
  <1>5. CASE p = 0
    <2>1. Slot(l, p) = First(l)
      BY <1>5 DEF First
    <2> QED
      BY <1>2, <1>3, <1>4, <2>1
  <1>6. CASE l = 0 /\ p # 0
    <2>1. p = 1
      BY <1>2, <1>6, SizesOfLevels
    <2>2. First(1) = 1 /\ Slot(l, p) = 1
      <3>1. First(0) = 0 /\ Slot(0, 1) = First(0) + 1
        BY <1>2, SlotNumbers
      <3>2. First(0 + 1) = 2 * First(0) + 1
        BY <1>2, SlotNumbers
      <3> QED
        BY <1>2, <1>6, <2>1, <3>1, <3>2
    <2> QED
      BY <1>2, <1>3, <1>4, <2>2
  <1>7. CASE l # 0 /\ p # 0
    <2>1. GetMin(heap) = heap.bulk[0]
      BY <1>1, <1>7 DEF GetMin
    <2>2. 0 \in Slots /\ 0 < Slot(l, p)
      <3>1. First(l) \in Nat /\ Slot(l, p) = First(l) + p
        BY <1>2, SlotNumbers
      <3>2. 0 < First(l) + p
        BY <1>2, <1>7, <3>1
      <3> QED
        BY <3>1, <3>2, SlotNumbers
    <2>3. heap.bulk[0] < EmptyHeap
      BY <1>1, <2>2 DEF HeapInv, Real
    <2>4. ~(EmptyHeap < EmptyHeap)
      BY ElementNumbers
    <2> QED
      BY <2>1, <2>3, <2>4
  <1> QED
    BY <1>5, <1>6, <1>7

LEMMA MinimumNext ==
    ASSUME HeapInv, [PartsNext]_partsVars
    PROVE  [ plain /\ (HeapDeleteMin \/ HeapGetMin) =>
               \/ ret' = EmptyHeap /\ OnlyWholeLevels(heap)
               \/ /\ ret' # EmptyHeap /\ ret' \in DOMAIN Elements(heap)
                  /\ \A e \in DOMAIN Elements(heap) : ret' <= e ]_vars
  <1> SUFFICES ASSUME plain, HeapDeleteMin \/ HeapGetMin
               PROVE  \/ ret' = EmptyHeap /\ OnlyWholeLevels(heap)
                      \/ /\ ret' # EmptyHeap /\ ret' \in DOMAIN Elements(heap)
                         /\ \A e \in DOMAIN Elements(heap) : ret' <= e
    OBVIOUS
  <1>1. ret' = GetMin(heap)
    <2>1. PICK d, g : d = SerialOperation(heap, DeleteMinArg) /\ g = SerialOperation(heap, GetMinArg)
      OBVIOUS
    <2>2. d = [heap |-> DeleteMin(heap), ret |-> GetMin(heap)]
          /\ g = [heap |-> heap, ret |-> GetMin(heap)]
      BY <2>1, OperationsAre
    <2>3. ret' = d.ret \/ ret' = g.ret
      BY <2>1 DEF HeapDeleteMin, HeapGetMin, Operate
    <2> QED
      BY <2>2, <2>3
  <1> QED
    BY <1>1, EmptyWhenWhole, LeastIsReturned

(* No slot of the levels in use is less than its parent, whatever elements   *)
(* were inserted and taken out before, if all were less than EMPTY_HEAP      *)
(* (heap.h:104-144).                                                         *)
THEOREM HeapStaysOrdered == PartsSpec => []SlotsOrdered
  <1>1. PartsInit => HeapInv
    BY HeapInvInit DEF PartsInit
  <1>2. HeapInv /\ [PartsNext]_partsVars => HeapInv'
    BY HeapInvNext
  <1>3. HeapInv => SlotsOrdered
    BY HeapOrdered
  <1> QED
    BY <1>1, <1>2, <1>3, PTL DEF PartsSpec

(* If all elements inserted were less than EMPTY_HEAP, what GetMin and       *)
(* DeleteMin return is in the heap, and nothing in it is less; or it is      *)
(* EMPTY_HEAP and the heap has 0, 1, 3, 7... elements (heap.h:146-153,       *)
(* 190-193).                                                                 *)
THEOREM MinimumReturned == PartsSpec => ReturnsMinimum
  <1>1. PartsInit => HeapInv
    BY HeapInvInit DEF PartsInit
  <1>2. HeapInv /\ [PartsNext]_partsVars => HeapInv'
    BY HeapInvNext
  <1>3. HeapInv /\ [PartsNext]_partsVars =>
          [ plain /\ (HeapDeleteMin \/ HeapGetMin) =>
               \/ ret' = EmptyHeap /\ OnlyWholeLevels(heap)
               \/ /\ ret' # EmptyHeap /\ ret' \in DOMAIN Elements(heap)
                  /\ \A e \in DOMAIN Elements(heap) : ret' <= e ]_vars
    BY MinimumNext
  <1> QED
    BY <1>1, <1>2, <1>3, PTL DEF PartsSpec, ReturnsMinimum


(* What is added to the slots that were used. *)
LEMMA OneMoreUsed ==
    ASSUME NEW a \in Arrays, NEW x \in Slots, NEW el \in HeapElement, NEW e
    PROVE  LET used == {s \in Slots : s < x /\ a[s] = e}
           IN  Cardinality(Where([a EXCEPT ![x] = el], x, e))
                 = Cardinality(used) + (IF e = el THEN 1 ELSE 0)
               /\ Cardinality(used) \in Nat
  <1>1. PICK b : b = [a EXCEPT ![x] = el]
    OBVIOUS
  <1>2. \A y \in Slots : b[y] = IF y = x THEN el ELSE a[y]
    BY <1>1 DEF Arrays
  <1>3. PICK used : used = {s \in Slots : s < x /\ a[s] = e}
    OBVIOUS
  <1>4. \A s \in Slots : s \in Nat /\ (s <= x <=> s < x \/ s = x) /\ ~(x < x)
    <2> TAKE s \in Slots
    <2>1. s \in Nat /\ x \in Nat
      BY SlotNumbers
    <2> QED
      BY <2>1
  <1>5. x \notin used /\ used \subseteq Where(a, x, e)
    BY <1>3, <1>4 DEF Where
  <1>6. IsFiniteSet(used)
    BY <1>5, WhereFinite, FS_Subset
  <1>7. Cardinality(used) \in Nat
    BY <1>6, FS_CardinalityType
  <1>8. CASE e = el
    <2>1. Where(b, x, e) = used \union {x}
      BY <1>2, <1>3, <1>4, <1>8 DEF Where
    <2>2. Cardinality(Where(b, x, e)) = Cardinality(used) + 1
      BY <1>5, <1>6, <2>1, FS_AddElement
    <2> QED
      BY <1>1, <1>3, <1>7, <1>8, <2>2
  <1>9. CASE e # el
    <2>1. Where(b, x, e) = used
      BY <1>2, <1>3, <1>4, <1>9 DEF Where
    <2>2. Cardinality(used) + 0 = Cardinality(used)
      BY <1>7
    <2> QED
      BY <1>1, <1>3, <1>7, <1>9, <2>1, <2>2
  <1> QED
    BY <1>8, <1>9


(* The bag of the elements in the slots before x. *)
Before(b, x) ==
    [e \in {b[s] : s \in {s \in Slots : s < x}} |->
        Cardinality({s \in Slots : s < x /\ b[s] = e})]

LEMMA ElementsAre ==
    ASSUME NEW h, NEW x, NEW b, x = Slot(h.last_used_level, h.last_used_level_pos),
           b = h.bulk
    PROVE  Elements(h) = Before(b, x)
  <1>1. UsedSlots(h) = {s \in Slots : s < x}
    BY DEF UsedSlots
  <1>2. \A e : {s \in UsedSlots(h) : b[s] = e} = {s \in Slots : s < x /\ b[s] = e}
    BY <1>1
  <1> QED
    BY <1>1, <1>2 DEF Elements, Before

(* Nothing moves out of the heap when an element comes in. *)
LEMMA ComesInAlone ==
    ASSUME NEW a \in Arrays, NEW x \in Slots, NEW el \in HeapElement, NEW out,
           out = CorrectDownHeap([a EXCEPT ![x] = el], x)
    PROVE  Before(out, x + 1) = Before(a, x) (+) SetToBag({el})
  <1> DEFINE before(e) == {s \in Slots : s < x /\ a[s] = e}
             old == {a[s] : s \in {s \in Slots : s < x}}
             new == {out[s] : s \in {s \in Slots : s < x + 1}}
  <1>1. PICK b \in Arrays : b = [a EXCEPT ![x] = el]
    <2>1. [a EXCEPT ![x] = el] \in Arrays
      BY DEF Arrays
    <2> QED
      BY <2>1
  <1>2. PICK f : /\ \A s \in Slots : f[s] = RiseOf(f, s)
                 /\ \A c, s : CorrectDownHeap(c, s) = f[s][c]
    BY CorrectDownIs
  <1>3. out = f[x][b]
    BY <1>1, <1>2
  <1>4. \A s \in Slots : (s < x + 1 <=> s <= x) /\ x <= x
    <2> TAKE s \in Slots
    <2>1. s \in Nat /\ x \in Nat
      BY SlotNumbers
    <2> QED
      BY <2>1
  <1>5. ASSUME NEW e
        PROVE  /\ {s \in Slots : s < x + 1 /\ out[s] = e} = Where(out, x, e)
               /\ Cardinality(Where(out, x, e))
                    = Cardinality(before(e)) + (IF e = el THEN 1 ELSE 0)
               /\ Cardinality(before(e)) \in Nat /\ IsFiniteSet(before(e))
    <2>1. {s \in Slots : s < x + 1 /\ out[s] = e} = Where(out, x, e)
      BY <1>4 DEF Where
    <2>2. Cardinality(Where(f[x][b], x, e)) = Cardinality(Where(b, x, e))
      BY <1>2, <1>4, RiseKeepsAll
    <2>3. /\ Cardinality(Where([a EXCEPT ![x] = el], x, e))
                 = Cardinality(before(e)) + (IF e = el THEN 1 ELSE 0)
          /\ Cardinality(before(e)) \in Nat
      BY OneMoreUsed
    <2>4. IsFiniteSet(before(e))
      <3>1. before(e) \subseteq Where(a, x, e)
        <4>1. \A s \in Slots : s < x => s <= x
          <5> TAKE s \in Slots
          <5>1. s \in Nat /\ x \in Nat
            BY SlotNumbers
          <5> QED
            BY <5>1
        <4> QED
          BY <4>1 DEF Where
      <3> QED
        BY <3>1, WhereFinite, FS_Subset
    <2> QED
      BY <1>1, <1>3, <2>1, <2>2, <2>3, <2>4
  <1>6. \A e : e \in old <=> before(e) # {}
    OBVIOUS
  <1>7. \A e : e \in new <=> Where(out, x, e) # {}
    <2> TAKE e
    <2>1. e \in new <=> {s \in Slots : s < x + 1 /\ out[s] = e} # {}
      OBVIOUS
    <2> QED
      BY <1>5, <2>1
  <1> HIDE DEF before, old, new
  <1>8. ASSUME NEW e PROVE e \in new <=> e \in old \/ e = el
    <2>1. PICK n, k : n = Cardinality(before(e)) /\ k = Cardinality(Where(out, x, e))
      OBVIOUS
    <2>2. n \in Nat /\ k = n + (IF e = el THEN 1 ELSE 0)
      BY <1>5, <2>1
    <2>3. n = 0 <=> before(e) = {}
      BY <1>5, <2>1, FS_EmptySet
    <2>4. k = 0 <=> Where(out, x, e) = {}
      BY <2>1, WhereFinite, FS_EmptySet
    <2>5. k = 0 <=> n = 0 /\ e # el
      BY <2>2
    <2> QED
      BY <1>6, <1>7, <2>3, <2>4, <2>5
  <1>9. new = old \union {el}
    BY <1>8
  <1>10. ASSUME NEW e \in new
         PROVE  Cardinality({s \in Slots : s < x + 1 /\ out[s] = e})
                  = (IF e \in old THEN Cardinality(before(e)) ELSE 0)
                    + (IF e \in {el} THEN 1 ELSE 0)
    <2>1. e \notin old => Cardinality(before(e)) = 0
      BY <1>6, FS_EmptySet
    <2> QED
      BY <1>5, <2>1
  <1>11. SetToBag({el}) = [e \in {el} |-> 1]
    BY DEF SetToBag
  <1>12. [e \in old |-> Cardinality(before(e))] (+) SetToBag({el})
           = [e \in old \union {el} |->
                 (IF e \in old THEN Cardinality(before(e)) ELSE 0)
                    + (IF e \in {el} THEN 1 ELSE 0)]
    BY <1>11 DEF (+)
  <1>13. [e \in new |-> Cardinality({s \in Slots : s < x + 1 /\ out[s] = e})]
           = [e \in old |-> Cardinality(before(e))] (+) SetToBag({el})
    BY <1>9, <1>10, <1>12
  <1> QED
    BY <1>13 DEF new, old, before, Before

LEMMA InsertIs ==
    ASSUME NEW h, NEW el, NEW l, NEW p, NEW x, ~IsFull(h),
           NextPlace(h) = [level |-> l, pos |-> p], x = Slot(l, p)
    PROVE  Insert(h, el) =
              [last_used_level |-> l, last_used_level_pos |-> p + 1,
               last_used_level_size |->
                   IF l > h.last_used_level
                   THEN 2 * h.last_used_level_size ELSE h.last_used_level_size,
               bulk |-> CorrectDownHeap([h.bulk EXCEPT ![x] = el], x)]
  <1>1. PICK place : place = NextPlace(h)
    OBVIOUS
  <1>2. place.level = l /\ place.pos = p
    BY <1>1
  <1> QED
    BY <1>1, <1>2 DEF Insert

LEMMA InsertAddsNext ==
    ASSUME HeapInv, NEW el \in Inserted, HeapInsert(el)
    PROVE  IF ret' = InsertFail
           THEN UsedSlots(heap) = Slots /\ heap' = heap
           ELSE Elements(heap') = Elements(heap) (+) SetToBag({el})
  <1>1. /\ heap' = Insert(heap, el)
        /\ ret' = IF IsFull(heap) THEN InsertFail ELSE InsertSuccess
    <2>1. PICK op : op = SerialOperation(heap, InsertArg(el))
      OBVIOUS
    <2>2. heap' = op.heap /\ ret' = op.ret
      BY <2>1 DEF HeapInsert, Operate
    <2>3. op = [heap |-> Insert(heap, el),
                ret |-> IF IsFull(heap) THEN InsertFail ELSE InsertSuccess]
      BY <2>1, OperationsAre
    <2> QED
      BY <2>2, <2>3
  <1>2. ret' = InsertFail <=> IsFull(heap)
    BY <1>1 DEF InsertFail, InsertSuccess
  <1>3. CASE IsFull(heap)
    <2>1. heap' = heap
      BY <1>1, <1>3 DEF Insert
    <2>2. PICK n : n = Levels - 1
      OBVIOUS
    <2>3. /\ n \in 0 .. Levels - 1 /\ n \in 0 .. Levels /\ n + 1 = Levels
          /\ SizeOfLevel[n] \in Nat
      BY <2>2, SizesAssumption, SizesOfLevels
    <2>4. heap.last_used_level = n /\ heap.last_used_level_pos = SizeOfLevel[n]
      BY <1>3, <2>2 DEF IsFull, HeapInv, HeapTypes
    <2>5. Slot(n, SizeOfLevel[n]) = First(Levels)
      <3>1. First(n + 1) = First(n) + SizeOfLevel[n]
        BY <2>3, SlotNumbers
      <3>2. Slot(n, SizeOfLevel[n]) = First(n) + SizeOfLevel[n]
        BY <2>3, SlotNumbers
      <3> QED
        BY <2>3, <3>1, <3>2
    <2>6. \A s \in Slots : s < First(Levels)
      BY SlotNumbers
    <2>7. UsedSlots(heap) = Slots
      BY <2>4, <2>5, <2>6 DEF UsedSlots
    <2> QED
      BY <1>2, <1>3, <2>1, <2>7
  <1>4. CASE ~IsFull(heap)
    <2>1. PICK l \in 0 .. Levels - 1, p \in Nat, x \in Slots :
              /\ NextPlace(heap) = [level |-> l, pos |-> p] /\ x = Slot(l, p)
              /\ x = Slot(heap.last_used_level, heap.last_used_level_pos)
              /\ Slot(l, p + 1) = x + 1
      BY <1>4, NextPlaceIs DEF HeapInv
    <2>2. PICK a \in Arrays : a = heap.bulk
      BY DEF HeapInv, HeapTypes
    <2>3. PICK out : out = CorrectDownHeap([a EXCEPT ![x] = el], x)
      OBVIOUS
    <2>4. PICK z : z = IF l > heap.last_used_level
                       THEN 2 * heap.last_used_level_size
                       ELSE heap.last_used_level_size
      OBVIOUS
    <2>5. heap' = [last_used_level |-> l, last_used_level_pos |-> p + 1,
                   last_used_level_size |-> z, bulk |-> out]
      <3>1. ~IsFull(heap) /\ NextPlace(heap) = [level |-> l, pos |-> p] /\ x = Slot(l, p)
        BY <1>4, <2>1
      <3>2. Insert(heap, el) =
              [last_used_level |-> l, last_used_level_pos |-> p + 1,
               last_used_level_size |->
                   IF l > heap.last_used_level
                   THEN 2 * heap.last_used_level_size ELSE heap.last_used_level_size,
               bulk |-> CorrectDownHeap([heap.bulk EXCEPT ![x] = el], x)]
        BY <3>1, InsertIs
      <3> QED
        BY <1>1, <2>2, <2>3, <2>4, <3>2
    <2>6. PICK h : h = heap'
      OBVIOUS
    <2>7. Elements(h) = Before(out, x + 1)
      <3>1. x + 1 = Slot(h.last_used_level, h.last_used_level_pos) /\ out = h.bulk
        BY <2>1, <2>5, <2>6
      <3> QED
        BY <3>1, ElementsAre
    <2>8. PICK g : g = heap
      OBVIOUS
    <2>9. Elements(g) = Before(a, x)
      <3>1. x = Slot(g.last_used_level, g.last_used_level_pos) /\ a = g.bulk
        BY <2>1, <2>2, <2>8
      <3> QED
        BY <3>1, ElementsAre
    <2>10. el \in HeapElement
      BY ArgsAre
    <2>11. Elements(h) = Elements(g) (+) SetToBag({el})
      <3>1. Before(out, x + 1) = Before(a, x) (+) SetToBag({el})
        BY <2>3, <2>10, ComesInAlone
      <3> QED
        BY <2>7, <2>9, <3>1
    <2> QED
      BY <1>2, <1>4, <2>8, <2>11, <2>6
  <1> QED
    BY <1>3, <1>4

(* An insert adds its element to the bag in the heap and loses none of it;   *)
(* it fails only when every slot is used (heap.h:168-188).                   *)
THEOREM InsertKeepsTheRest == PartsSpec => InsertAdds
  <1>1. PartsInit => HeapInv
    BY HeapInvInit DEF PartsInit
  <1>2. HeapInv /\ [PartsNext]_partsVars => HeapInv'
    BY HeapInvNext
  <1>3. HeapInv /\ [PartsNext]_partsVars =>
          [ \A el \in Inserted : HeapInsert(el) =>
              IF ret' = InsertFail
              THEN UsedSlots(heap) = Slots /\ heap' = heap
              ELSE Elements(heap') = Elements(heap) (+) SetToBag({el}) ]_vars
    BY InsertAddsNext
  <1> QED
    BY <1>1, <1>2, <1>3, PTL DEF PartsSpec, InsertAdds
=============================================================================
