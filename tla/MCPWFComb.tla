------------------------------ MODULE MCPWFComb ------------------------------
(* PWFComb for TLC: a simulated object with data, and a bound on the calls of*)
(* each thread.                                                              *)
EXTENDS PWFComb

CONSTANT Workloads   \* how many calls each thread makes: the bounds to try

VARIABLE left        \* how many calls each thread will still make

(* A swap register that remembers which thread wrote which argument.         *)
Fresh == <<"initial">>

SwapStates == (Threads \X Args) \union {Fresh}

Swap(s, a, t) == [state |-> <<t, a>>, ret |-> s]

(* An argument is no return value of the register; the initial one stands    *)
(* for it.                                                                   *)
Stored(a) == Fresh

(* Two threads, of which one calls often enough to come back to a record the*)
(* other may still hold.                                                     *)
Reuse == { [t \in Threads |-> <<3, 2>>[t + 1]] }

MCInit == Init /\ left \in Workloads

MCNext ==
    \/ \E t \in Threads :
          \/ /\ left[t] > 0
             /\ left' = [left EXCEPT ![t] = @ - 1]
             /\ \E a \in Args : WriteRequest(t, a)
          \/ Step(t) /\ UNCHANGED left
    \/ Evict /\ UNCHANGED left

MCSpec == MCInit /\ [][MCNext]_<<vars, left>>
-----------------------------------------------------------------------------
(* The steps from reading the bits to the compare-and-swap. *)
Trying == {"serve_own", "scan", "serve", "check_publish", "flush_record",
           "set_flush", "set_round", "cas"}

SessionStage(t) ==
    CASE pc[t] \in Trying /\ Unchanged_S(t)   -> "trying"
      [] pc[t] \in Trying /\ ~Unchanged_S(t)  -> "stale"
      [] pc[t] = "flush_S"                    -> "published"
      [] pc[t] \in {"settle", "return_own"}   -> "synced"
      [] OTHER                                -> "out"

SessionPhase(t) ==
    IF pc[t] = "idle" THEN "idle"
    ELSE IF pc[t] # "activate" /\ HasTakenEffect(t) THEN "applied" ELSE "pending"

SessionParam(t) == IF valid[t] THEN arg[t] ELSE <<"no arg">>

(* The operations that take effect if t publishes. *)
SessionBatch(t) ==
    IF SessionStage(t) # "trying" THEN {}
    ELSE {k \in Threads : loc[t].l_activate[k] # rec[S.index].deactivate[k]}

Sessions == INSTANCE WaitFreeSessions WITH
    NoArg       <- <<"no arg">>,
    InitialVal  <- ZeroVal,
    Words       <- ObjStates,
    InitialWord <- InitialState,
    phase   <- [t \in Threads |-> SessionPhase(t)],
    param   <- [t \in Threads |-> SessionParam(t)],
    word    <- rec[S.index].st,
    result  <- rec[S.index].return_val,
    durable <- DurableState,
    stage   <- [t \in Threads |-> SessionStage(t)],
    batch   <- [t \in Threads |-> SessionBatch(t)]

(* What PWFStack and PWFQueue assume of the scheme, PWFCombApplyOp does:     *)
(* an attempt applies operations that are pending, its own among them, to    *)
(* what is the current state until it publishes; one that is overtaken has   *)
(* no effect; a call returns only when a published session has applied its   *)
(* operation (lines 111-215), durable or not: see ReturnedDurable.           *)
ImplementsSessions == Sessions!Spec
=============================================================================
