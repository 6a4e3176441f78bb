--------------------------- MODULE PBCombSessions ---------------------------
(* PBComb implements CombiningSessions: what PBStack and PBQueue assume of   *)
(* the combining object they are built on is what PBCombApplyOp does.        *)
(*                                                                           *)
(* The auxiliary variable batch holds the threads served by the session      *)
(* under way; the code keeps no such set, but the guarantee that a call      *)
(* returns only after the session that served it has ended speaks of it.     *)
EXTENDS MCPBComb

VARIABLE batch

SessionInit == MCInit /\ batch = {}

KeepBatch ==
    batch' = IF \E t \in Threads : pc[t] = "serve" /\ pc'[t] = "mark"
             THEN batch \union {j[t] : t \in {c \in Threads : pc[c] = "serve"}}
             ELSE IF \E t \in Threads : pc[t] = "unlock" /\ pc'[t] # pc[t]
             THEN {} ELSE batch

sessionVars == <<MCvars, batch>>

(* The operating system runs every thread: a call that has begun goes on.    *)
(* Nothing makes a thread begin a call, or a cache line be evicted.          *)
SessionSpec ==
    /\ SessionInit
    /\ [][MCNext /\ KeepBatch]_sessionVars
    /\ \A t \in Threads : WF_sessionVars(MCStep(t) /\ KeepBatch)

(* The thread that holds the lock, and the stage its program counter is in. *)
Holders == {t \in Threads : pc[t] \in Holding}

SessionPhase(t) ==
    IF pc[t] \in {"idle", "activate"} THEN "idle"
    ELSE IF ~HasTakenEffect(t) THEN "pending"
    ELSE IF t \in batch THEN "applied" ELSE "released"

StageOf(label) ==
    CASE label \in Filling \union {"scan", "serve", "mark", "final_persist"} ->
            "serving"
      [] label \in {"lock_value", "publish"} -> "publish"
      [] OTHER -> label

RecordedWord(r) ==
    IF r \in PoolRecs /\ clean[r] THEN state[r] ELSE Unformatted

Sessions == INSTANCE CombiningSessions WITH
    Words       <- ObjStates,
    InitialWord <- InitialState,
    NoArg       <- <<"no arg">>,
    NoThread    <- -1,
    phase       <- [t \in Threads |-> SessionPhase(t)],
    param       <- [t \in Threads |->
                       IF SessionPhase(t) = "idle" THEN <<"no arg">>
                       ELSE arg[t]],
    result      <- [t \in Threads |->
                       IF SessionPhase(t) \in {"applied", "released"}
                       THEN return_value[CurrentRec][t] ELSE out[t]],
    stage       <- IF Holders = {} THEN "free"
                   ELSE StageOf(pc[CHOOSE t \in Holders : TRUE]),
    combiner    <- IF Holders = {} THEN -1
                   ELSE CHOOSE t \in Holders : TRUE,
    word        <- state[CurrentRec],
    published   <- RecordedWord(last_state),
    durable     <- RecordedWord(nvm_last_state),
    synced      <- nvm_last_state = last_state

(* Every behaviour of PBCombApplyOp is a sequence of sessions: an operation  *)
(* is applied once, by one session, and its call returns only after that     *)
(* session has made it durable, run both hooks and released the lock (lines  *)
(* 144-208), whoever the combiner is.                                        *)
ImplementsSessions == Sessions!Spec
=============================================================================
