----------------------------- MODULE SingleWorker -----------------------------
(***************************************************************************)
(* What a background manager promises                                      *)
(* (backend/core/internal/application/background/manager.go, lines 1-13):  *)
(* "lifecycle management for a single background worker" that "prevents    *)
(* double-start".  A worker goroutine starts only when none is left, and   *)
(* the running flag the status endpoint reports comes down when the worker *)
(* is told to stop or ends by itself.                                      *)
(***************************************************************************)
CONSTANT Workers

VARIABLES active, running

vars == <<active, running>>

Init == active = {} /\ running = FALSE

Start(w) ==
    /\ active = {}
    /\ active' = {w}
    /\ running' = TRUE

Finish(w) ==
    /\ active = {w}
    /\ active' = {}
    /\ running' = FALSE

\* The worker is told to stop; it ends at its next check.
Halt ==
    /\ running
    /\ running' = FALSE
    /\ UNCHANGED active

Next == Halt \/ \E w \in Workers : Start(w) \/ Finish(w)

Spec == Init /\ [][Next]_vars

\* Two goroutines never run the job at once.
AtMostOneWorker == \A v, w \in active : v = w
===============================================================================
