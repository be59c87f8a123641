-------------------------------- MODULE Sessions --------------------------------
(***************************************************************************)
(* The sessions table (application/auth/session_repo.go) and the job that  *)
(* clears it (session_cleanup.go).                                         *)
(*                                                                         *)
(* Of a session's times only what is asked of them is kept: whether it is  *)
(* idle for too long or past its absolute end.                             *)
(***************************************************************************)
EXTENDS Naturals, FiniteSets

CONSTANTS
    Accounts,    \* users.id, in the order of creation
    MaxSession,  \* bound: sessions ever opened
    MaxStarts    \* bound: how often the cleanup job is started

ASSUME SessionsOK ==
    /\ Accounts \subseteq Nat
    /\ MaxSession \in Nat /\ MaxStarts \in Nat

VARIABLES
    sessions,     \* sessions.id -> user_id, revoked_at is set, its age, stale
    nextSession,  \* the next sessions.id
    cleaner       \* the SessionCleanupJob

sessionVars == <<sessions, nextSession, cleaner>>

\* "stale" is a history: the account got another password or was deactivated
\* since the session was opened, or between the login's look at the password
\* and the opening, or neither.
Session == [user : Accounts, revoked : BOOLEAN, age : {"fresh", "idle", "expired"},
            stale : {"since", "born", "no"}]

Loops == 1 .. MaxStarts
Gone == [at |-> "gone", channel |-> 0]

SessionsTypeOK ==
    /\ nextSession \in 1 .. MaxSession + 1
    /\ DOMAIN sessions \subseteq 1 .. nextSession - 1
    /\ \A s \in DOMAIN sessions : sessions[s] \in Session
    /\ cleaner.running \in BOOLEAN
    /\ cleaner.channel \in 0 .. MaxStarts /\ cleaner.closed \subseteq Loops
    /\ \A l \in Loops : /\ cleaner.loops[l].at \in {"gone", "enters", "waits", "sweeps"}
                        /\ cleaner.loops[l].channel \in 0 .. MaxStarts

SessionsInit ==
    /\ sessions = << >>
    /\ nextSession = 1
    /\ cleaner = [running |-> FALSE, channel |-> 0, closed |-> {}, loops |-> [l \in Loops |-> Gone]]

-------------------------------------------------------------------------------
(* The repository *)

\* A table with one row more
Inserted(table, id, row) ==
    [i \in DOMAIN table \cup {id} |-> IF i = id THEN row ELSE table[i]]

IsOpen(s) == s \in DOMAIN sessions /\ ~sessions[s].revoked
OpenOf(a) == {s \in DOMAIN sessions : sessions[s].user = a /\ IsOpen(s)}

CreateSession(a, stale) ==
    /\ nextSession <= MaxSession
    /\ sessions' = Inserted(sessions, nextSession,
                            [user |-> a, revoked |-> FALSE, age |-> "fresh",
                             stale |-> IF stale THEN "born" ELSE "no"])
    /\ nextSession' = nextSession + 1

\* GetSession: one that is idle or expired is revoked when it is asked for.
IsValid(s) == IsOpen(s) /\ sessions[s].age = "fresh"

Revoked(S) ==
    [s \in DOMAIN sessions |-> [sessions[s] EXCEPT !.revoked = @ \/ s \in S]]

\* mutant: the newest session is taken for the one that asks, and kept
ButTheNewest(a) == {s \in OpenOf(a) : \E t \in OpenOf(a) : s < t}
\* RevokeAllUserSessions
AllOf(a) == OpenOf(a)

Outdated(S) ==
    [s \in DOMAIN sessions |-> [sessions[s] EXCEPT !.stale = IF s \in S THEN "since" ELSE @]]

\* Nobody uses it for IdleTimeout, or AbsoluteTimeout passes.
Grows(s) ==
    /\ ~sessions[s].revoked
    /\ \E age \in {"idle", "expired"} \ {sessions[s].age} :
          /\ sessions[s].age # "expired"
          /\ sessions' = [sessions EXCEPT ![s].age = age]
    /\ UNCHANGED <<nextSession, cleaner>>

\* mutant: revoked sessions wait for their absolute end
PastTheirEnd == {s \in DOMAIN sessions : sessions[s].age = "expired"}
\* CleanupExpiredSessions; a session that is only idle stays.
ToDelete == {s \in DOMAIN sessions : sessions[s].age = "expired" \/ sessions[s].revoked}

-------------------------------------------------------------------------------
(* The job *)

Started == Cardinality({l \in Loops : l <= cleaner.channel})

StartCleanup ==
    /\ ~cleaner.running
    /\ Started < MaxStarts
    /\ cleaner' = [cleaner EXCEPT !.running = TRUE, !.channel = @ + 1,
                      !.loops[cleaner.channel + 1] = [at |-> "enters", channel |-> 0]]
    /\ UNCHANGED <<sessions, nextSession>>

\* mutant: the job is marked as stopped, its channel left open
StopKeepsLoop ==
    /\ cleaner.running
    /\ cleaner' = [cleaner EXCEPT !.running = FALSE]
    /\ UNCHANGED <<sessions, nextSession>>

StopCleanup ==
    /\ cleaner.running
    /\ cleaner' = [cleaner EXCEPT !.running = FALSE, !.closed = @ \cup {cleaner.channel}]
    /\ UNCHANGED <<sessions, nextSession>>

\* The loop takes the channel of the moment whenever it starts to wait.
Waits(l) ==
    /\ cleaner.loops[l].at = "enters"
    /\ cleaner' = [cleaner EXCEPT !.loops[l] = [at |-> "waits", channel |-> cleaner.channel]]
    /\ UNCHANGED <<sessions, nextSession>>

\* A tick of the timer
Ticks(l) ==
    /\ cleaner.loops[l].at = "waits"
    /\ cleaner' = [cleaner EXCEPT !.loops[l].at = "sweeps"]
    /\ UNCHANGED <<sessions, nextSession>>

Sweeps(l) ==
    /\ cleaner.loops[l].at = "sweeps"
    /\ sessions' = [s \in DOMAIN sessions \ ToDelete |-> sessions[s]]
    /\ cleaner' = [cleaner EXCEPT !.loops[l].at = "enters"]
    /\ UNCHANGED nextSession

\* A loop that ends says so, also when another has been started since.
Ends(l) ==
    /\ cleaner.loops[l].at = "waits" /\ cleaner.loops[l].channel \in cleaner.closed
    /\ cleaner' = [cleaner EXCEPT !.loops[l] = Gone, !.running = FALSE]
    /\ UNCHANGED <<sessions, nextSession>>

CleanupRuns(l) == Waits(l) \/ Ticks(l) \/ Sweeps(l) \/ Ends(l)

NoLoops == \A l \in Loops : cleaner.loops[l] = Gone
===============================================================================
