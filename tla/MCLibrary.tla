------------------------------ MODULE MCLibrary ------------------------------
(* The parts of the library, with the toggle vectors (ToggleOps), for TLC:   *)
(* each on its own, as `part` says.                                          *)
EXTENDS LibraryParts

CONSTANTS
    Shift, MaxThreads, Divisions       \* of ToggleOps

(* The starts of a program: posix threads or fibers, once or twice, and a    *)
(* posix thread that runs all the fibers; or three times, the least for a    *)
(* start after a join that missed a thread.                                  *)
Programs == {<<1, 1>>, <<2, 2>>, <<2, 1>>, <<1, 2>>, <<4, 2>>, <<2, 2, 2>>}

VARIABLES
    nthreads, activate, th_index, deactivate, index, served, asked, done, flips

toggleVars == <<nthreads, activate, th_index, deactivate, index, served, asked,
                done, flips>>

Toggles == INSTANCE ToggleOps

(* A part that is not considered has one initial state only. *)
MCInit ==
    /\ part \in {"heap", "pool", "toggles", "threads"}
    /\ PartsInit /\ Toggles!Init
    /\ part = "pool" \/ usage = "recycle"
    /\ part = "toggles" \/ nthreads = 1
    /\ part = "threads" \/ (plan = <<1, 1>> /\ oversubscribed)

MCNext ==
    \/ PartsNext /\ UNCHANGED toggleVars
    \/ part = "toggles" /\ Toggles!Next /\ UNCHANGED partsVars

MCSpec == MCInit /\ [][MCNext]_<<partsVars, toggleVars>> /\ Program!Fairness
-----------------------------------------------------------------------------
(* Every part keeps to the types of its variables. *)
TypesOK == TypeOK /\ Nodes!TypeOK /\ Toggles!TypeOK /\ Program!TypeOK

(* Every toggle vector is the set of threads it stands for (tvec.h). *)
VectorsAreSets == Toggles!VectorsAreSets

(* A session visits each pending operation once (pwfcombstack.c:208-219). *)
ServesPending == Toggles!ServesPending
=============================================================================
