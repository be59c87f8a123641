-------------------------- MODULE BackgroundManager --------------------------
(***************************************************************************)
(* The start/stop record that every background job of the core service     *)
(* embeds (backend/core/internal/application/background/manager.go).       *)
(*                                                                         *)
(* Every method runs under the manager's mutex, so each is one step.  A    *)
(* stop channel is a number: TryStart makes the next one, Stop closes the  *)
(* current one, and a worker that calls Done is handed the current one     *)
(* whatever channel was current when the worker was started.               *)
(***************************************************************************)
EXTENDS Naturals

Manager == [running : BOOLEAN, stopChan : Nat, closed : SUBSET Nat]

NewManager == [running |-> FALSE, stopChan |-> 0, closed |-> {}]

\* mutant: no check for a running worker
AlwaysStarts(m) == TRUE

\* TryStart: the condition on which it succeeds, and what it then leaves behind
MayStart(m) == ~m.running
Started(m) == [m EXCEPT !.running = TRUE, !.stopChan = @ + 1]

Stop(m) ==
    IF m.running
    THEN [m EXCEPT !.running = FALSE, !.closed = @ \cup {m.stopChan}]
    ELSE m

Done(m) == m.stopChan

IsClosed(m, ch) == ch \in m.closed

\* mutant: the worker's deferred MarkStopped is missing
NotMarkedStopped(m) == m

MarkStopped(m) == [m EXCEPT !.running = FALSE]
===============================================================================
