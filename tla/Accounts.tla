-------------------------------- MODULE Accounts --------------------------------
(***************************************************************************)
(* Accounts, and the requests that change them (application/auth/service.go,*)
(* user_service.go, bootstrap.go, interfaces/handler/auth_handlers.go,     *)
(* middleware/auth.go).                                                    *)
(*                                                                         *)
(* No handler uses a transaction: a request is the steps between which     *)
(* another may run, and what it has read is in "request".  Names, avatars  *)
(* and the audit log are left out; a password is the right one or not.     *)
(***************************************************************************)
EXTENDS Sessions

-------------------------------------------------------------------------------
(***************************************************************************)
(* The limiter of failed attempts per address                              *)
(* (application/auth/rate_limiter.go), as operators on the attempts of one *)
(* address; the mutex makes each of its methods a step.                    *)
(*                                                                         *)
(* Of the times an entry keeps: are its first and last attempts out of the *)
(* window, and does a ban last.                                            *)
(***************************************************************************)
CONSTANT MaxAttempts
ASSUME AttemptsOK == MaxAttempts \in Nat \ {0}

\* Counts above the limit are not told apart: bound MaxAttempts + 1.
Times == {"recent", "old", "never"}
Attempts == [count : 0 .. MaxAttempts + 1, first : Times, last : Times, banned : BOOLEAN]
NoAttempts == [count |-> 0, first |-> "never", last |-> "never", banned |-> FALSE]

\* cleanupExpired, which every Allow and a timer does
Pruned(a) == IF ~a.banned /\ a.last = "old" THEN NoAttempts ELSE a

\* Allow begins a new window when the old one is over, unless there is a ban ...
Renewed(a) ==
    LET p == Pruned(a)
    IN  IF p # NoAttempts /\ ~p.banned /\ p.first = "old"
        THEN [p EXCEPT !.count = 0, !.first = "recent"] ELSE p

\* ... and what it answers
Allow(a) == ~Renewed(a).banned /\ Renewed(a).count < MaxAttempts

RecordFailure(a) ==
    IF a = NoAttempts
    THEN [count |-> 1, first |-> "recent", last |-> "recent", banned |-> FALSE]
    ELSE LET n == IF a.count > MaxAttempts THEN a.count ELSE a.count + 1
         IN  [a EXCEPT !.count = n, !.last = "recent", !.banned = @ \/ n >= MaxAttempts]

RecordSuccess(a) == NoAttempts

\* mutant: an attempt that is refused counts as a failure
CountsRefused(a) == RecordFailure(Renewed(a))
\* What an attempt that is refused leaves
Refused(a) == Renewed(a)

\* Time passes: the window since an attempt, or the ban.
Ages(a) == IF a = NoAttempts THEN {} ELSE
    {b \in {[a EXCEPT !.first = "old"], [a EXCEPT !.first = "old", !.last = "old"],
            [a EXCEPT !.banned = FALSE]} : b # a}

-------------------------------------------------------------------------------
(* Accounts *)

CONSTANTS
    Logins,       \* logins that users register with
    BootstrapLogin,
    Addresses,    \* of clients
    Requests,     \* requests that may be handled at once
    MaxRequests   \* bound: requests that may change something

ASSUME LoginsOK == BootstrapLogin \in Logins /\ MaxRequests \in Nat

VARIABLES
    mode,      \* ACCOUNT_CREATION_MODE
    users,     \* users.id -> login, role, is_active, account_status
    nextUser,  \* the next users.id
    limiter,   \* the limiter of logins and that of registrations, per address
    request,   \* what each handler holds
    made       \* history: how many requests were made

vars == <<sessionVars, mode, users, nextUser, limiter, request, made>>

Modes == {"self_service", "self_service_with_approval", "admin_only"}
Statuses == {"active", "pending", "rejected"}
User == [login : Logins, role : {"admin", "user"}, active : BOOLEAN, status : Statuses]

\* What a request asks of a row: "same" leaves a column alone.
Change == [role : {"admin", "user", "same"}, active : {"yes", "no", "same"},
           status : Statuses \cup {"same"}, password : BOOLEAN]
Same == [role |-> "same", active |-> "same", status |-> "same", password |-> FALSE]

Idle == [at |-> "idle"]
Request ==
    {Idle}
    \cup [at : {"checked"}, address : Addresses, user : Accounts \cup {0}, stale : BOOLEAN]
    \cup [at : {"registers"}, address : Addresses, login : Logins]
    \cup [at : {"signs"}, user : Accounts, stale : BOOLEAN]
    \cup [at : {"setup"}]
    \cup [at : {"known"}, actor : Accounts, admin : BOOLEAN, session : Nat]
    \cup [at : {"creates"}, login : Logins, role : {"admin", "user"}]
    \cup [at : {"updates"}, user : Accounts, change : Change]
    \cup [at : {"revokes", "deletes", "clears"}, user : Accounts]

\* Every row, request and attempt has its type, and ids are those given out
\* (domain/auth.go).
TypeOK ==
    /\ SessionsTypeOK
    /\ mode \in Modes
    /\ DOMAIN users \subseteq {a \in Accounts : a < nextUser}
    /\ \A a \in DOMAIN users : users[a] \in User
    /\ \A a, b \in DOMAIN users : users[a].login = users[b].login => a = b
    /\ limiter \in [{"login", "register"} -> [Addresses -> Attempts]]
    /\ request \in [Requests -> Request]
    /\ \A s \in DOMAIN sessions : sessions[s].user < nextUser

Init ==
    /\ SessionsInit
    /\ mode \in Modes
    /\ users = << >>
    /\ nextUser = 1
    /\ limiter = [l \in {"login", "register"} |-> [ip \in Addresses |-> NoAttempts]]
    /\ request = [r \in Requests |-> Idle]
    /\ made = 0

-------------------------------------------------------------------------------

At(r, label) == request[r].at = label
Becomes(r, held) == request' = [request EXCEPT ![r] = held]
Begins(r) == At(r, "idle") /\ made < MaxRequests /\ made' = made + 1
KeepsUsers == UNCHANGED <<mode, users, nextUser>>
KeepsSessions == UNCHANGED sessionVars

IsBootstrapMode == users = << >>
HasLogin(login) == {a \in DOMAIN users : users[a].login = login}
MayLogIn(a) == users[a].active /\ users[a].status = "active"

Limits(l, ip, attempts) == limiter' = [limiter EXCEPT ![l][ip] = attempts]

-------------------------------------------------------------------------------
(* Login.  The password is compared with the row that was read, which takes *)
(* its time; only then is the outcome recorded and a session opened.        *)

\* The attempt, by a login that exists or not, with its password or another
Login(r, ip, right) ==
    /\ At(r, "idle")
    /\ Allow(limiter["login"][ip])
    /\ Limits("login", ip, Renewed(limiter["login"][ip]))
    /\ \E a \in (IF right THEN DOMAIN users ELSE {0}) :
         Becomes(r, [at |-> "checked", address |-> ip, stale |-> FALSE,
                     user |-> IF a # 0 /\ MayLogIn(a) THEN a ELSE 0])
    /\ made' = IF right THEN made + 1 ELSE made
    /\ right => made < MaxRequests
    /\ KeepsUsers /\ KeepsSessions

\* ... turned away by the limiter
TurnedAway(l, ip) ==
    /\ ~Allow(limiter[l][ip])
    /\ Refused(limiter[l][ip]) # limiter[l][ip]
    /\ Limits(l, ip, Refused(limiter[l][ip]))
    /\ KeepsUsers /\ KeepsSessions /\ UNCHANGED <<request, made>>

LoginFails(r) ==
    LET q == request[r]
    IN  /\ At(r, "checked") /\ q.user = 0
        /\ Limits("login", q.address, RecordFailure(limiter["login"][q.address]))
        /\ Becomes(r, Idle)
        /\ KeepsUsers /\ KeepsSessions /\ UNCHANGED made

LoginSucceeds(r) ==
    LET q == request[r]
    IN  /\ At(r, "checked") /\ q.user # 0
        /\ Limits("login", q.address, RecordSuccess(limiter["login"][q.address]))
        /\ CreateSession(q.user, q.stale)
        /\ Becomes(r, Idle)
        /\ KeepsUsers /\ UNCHANGED <<cleaner, made>>

-------------------------------------------------------------------------------
(* Registration, and the first administrator *)

\* mutant: without the unique index
CreateAnyway(login, role, status) ==
    /\ nextUser \in Accounts
    /\ users' = Inserted(users, nextUser, [login |-> login, role |-> role, active |-> TRUE,
                                           status |-> status])
    /\ nextUser' = nextUser + 1

CreateUser(login, role, status) ==
    /\ nextUser \in Accounts
    /\ HasLogin(login) = {}    \* the unique index
    /\ users' = Inserted(users, nextUser, [login |-> login, role |-> role, active |-> TRUE,
                                           status |-> status])
    /\ nextUser' = nextUser + 1

RegisterUser(r, ip, login) ==
    /\ Begins(r)
    /\ Allow(limiter["register"][ip])
    /\ mode # "admin_only" /\ ~IsBootstrapMode
    /\ LET attempts == Renewed(limiter["register"][ip])
       IN  IF HasLogin(login) # {}
           THEN Limits("register", ip, RecordFailure(attempts)) /\ UNCHANGED request
           ELSE /\ Limits("register", ip, attempts)
                /\ Becomes(r, [at |-> "registers", address |-> ip, login |-> login])
    /\ KeepsUsers /\ KeepsSessions

\* Only a registration without approval goes on to a session.
Registered(r) ==
    LET q == request[r]
        approved == mode = "self_service"
    IN  /\ At(r, "registers")
        /\ CreateUser(q.login, "user", IF approved THEN "active" ELSE "pending")
        /\ Limits("register", q.address, RecordSuccess(limiter["register"][q.address]))
        /\ Becomes(r, IF approved THEN [at |-> "signs", user |-> nextUser, stale |-> FALSE]
                      ELSE Idle)
        /\ KeepsSessions /\ UNCHANGED <<mode, made>>

Signs(r) ==
    /\ At(r, "signs")
    /\ CreateSession(request[r].user, request[r].stale)
    /\ Becomes(r, Idle)
    /\ KeepsUsers /\ UNCHANGED <<cleaner, limiter, made>>

BootstrapSetup(r) ==
    /\ Begins(r)
    /\ IsBootstrapMode
    /\ Becomes(r, [at |-> "setup"])
    /\ KeepsUsers /\ KeepsSessions /\ UNCHANGED limiter

CreateBootstrapAdmin(r) ==
    /\ At(r, "setup")
    /\ CreateUser(BootstrapLogin, "admin", "active")
    /\ Becomes(r, [at |-> "signs", user |-> nextUser, stale |-> FALSE])
    /\ KeepsSessions /\ UNCHANGED <<mode, limiter, made>>

\* The login is taken by now: the unique index refuses the row.
Taken(r) ==
    /\ \/ At(r, "setup") /\ HasLogin(BootstrapLogin) # {}
       \/ At(r, "registers") /\ HasLogin(request[r].login) # {}
       \/ At(r, "creates") /\ HasLogin(request[r].login) # {}
    /\ Becomes(r, Idle)
    /\ KeepsUsers /\ KeepsSessions /\ UNCHANGED <<limiter, made>>

-------------------------------------------------------------------------------
(* Requests with a session *)

\* RequireAuth: the account is looked up for every request.
Authenticate(r, s) ==
    /\ Begins(r)
    /\ IsValid(s)
    /\ LET a == sessions[s].user
       IN  /\ a \in DOMAIN users /\ MayLogIn(a)
           /\ Becomes(r, [at |-> "known", actor |-> a, session |-> s,
                          admin |-> users[a].role = "admin"])
    /\ KeepsUsers /\ KeepsSessions /\ UNCHANGED limiter

\* A session that is over, or whose account may not log in any more; that of an
\* account that is gone is refused, and stays.
Unauthorized(s) ==
    /\ IsOpen(s)
    /\ \/ ~IsValid(s)
       \/ sessions[s].user \in DOMAIN users /\ ~MayLogIn(sessions[s].user)
    /\ sessions' = Revoked({s})
    /\ KeepsUsers /\ UNCHANGED <<nextSession, cleaner, limiter, request, made>>

Logout(r) ==
    /\ At(r, "known")
    /\ sessions' = Revoked({request[r].session})
    /\ Becomes(r, Idle)
    /\ KeepsUsers /\ UNCHANGED <<nextSession, cleaner, limiter, made>>

\* The old password is wrong, the account is gone, or an administrator's
\* request is refused.
Declined(r) ==
    /\ At(r, "known")
    /\ Becomes(r, Idle)
    /\ KeepsUsers /\ KeepsSessions /\ UNCHANGED <<limiter, made>>

ChangePassword(r) ==
    /\ At(r, "known")
    /\ request[r].actor \in DOMAIN users
    /\ Becomes(r, [at |-> "updates", user |-> request[r].actor,
                   change |-> [Same EXCEPT !.password = TRUE]])
    /\ KeepsUsers /\ KeepsSessions /\ UNCHANGED <<limiter, made>>

\* RequireAdmin, and each service's second look at the administrator's row
Administers(r) ==
    /\ At(r, "known") /\ request[r].admin
    /\ request[r].actor \in DOMAIN users /\ users[request[r].actor].role = "admin"

AskCreate(r) ==
    /\ Administers(r)
    /\ \E login \in Logins, role \in {"admin", "user"} :
         /\ HasLogin(login) = {}
         /\ Becomes(r, [at |-> "creates", login |-> login, role |-> role])
    /\ KeepsUsers /\ KeepsSessions /\ UNCHANGED <<limiter, made>>

Creates(r) ==
    /\ At(r, "creates")
    /\ CreateUser(request[r].login, request[r].role, "active")
    /\ Becomes(r, Idle)
    /\ KeepsSessions /\ UNCHANGED <<mode, limiter, made>>

\* mutant: administrators who were deactivated count
EveryAdmin == Cardinality({a \in DOMAIN users : users[a].role = "admin"})
\* countAdmins; an account that was never approved counts.
CountAdmins == Cardinality({a \in DOMAIN users : users[a].role = "admin" /\ users[a].active})

\* UpdateUser: neither demotes nor deactivates the last administrator
MayUpdate(a, change) ==
    users[a].role = "admin" /\ (change.role = "user" \/ change.active = "no")
        => CountAdmins > 1

Updates == {[Same EXCEPT !.role = role, !.active = active] :
               role \in {"admin", "user", "same"}, active \in {"yes", "no", "same"}} \ {Same}
Decisions == {[Same EXCEPT !.status = "active"], [Same EXCEPT !.status = "rejected"]}
Reset == [Same EXCEPT !.password = TRUE]

\* UpdateUser, ApproveUser, RejectUser and AdminResetPassword read and decide ...
AskUpdate(r) ==
    /\ Administers(r)
    /\ \E a \in DOMAIN users, change \in Updates \cup Decisions \cup {Reset} :
         /\ change \in Updates => MayUpdate(a, change)
         /\ change \in Decisions => users[a].status = "pending"
         /\ Becomes(r, [at |-> "updates", user |-> a, change |-> change])
    /\ KeepsUsers /\ KeepsSessions /\ UNCHANGED <<limiter, made>>

\* Logins of the account that are under way have read what is old now.
Overtaken(a) ==
    [r \in Requests |->
        IF request[r].at \in {"checked", "signs"} /\ request[r].user = a
        THEN [request[r] EXCEPT !.stale = TRUE] ELSE request[r]]

\* The row a change leaves
Changed(row, c) ==
    LET set(new, old) == IF new = "same" THEN old ELSE new
    IN  [row EXCEPT !.role = set(c.role, @),
                    !.active = c.active = "yes" \/ (c.active = "same" /\ @),
                    !.status = set(c.status, @)]

\* ... the row is written, if it is still there ...
Update(r) ==
    LET a == request[r].user
        c == request[r].change
        ends == c.password \/ c.active = "no"
    IN  /\ At(r, "updates")
        /\ users' = IF a \in DOMAIN users THEN [users EXCEPT ![a] = Changed(@, c)] ELSE users
        /\ sessions' = IF ends THEN Outdated(OpenOf(a)) ELSE sessions
        /\ request' = [IF ends THEN Overtaken(a) ELSE request EXCEPT
                          ![r] = IF ends THEN [at |-> "revokes", user |-> a] ELSE Idle]
        /\ UNCHANGED <<nextSession, cleaner, mode, nextUser, limiter, made>>

\* ... and a new password or a deactivation ends the account's sessions.
RevokeAllUserSessions(r) ==
    /\ request[r].at \in {"revokes", "deletes"}
    /\ sessions' = Revoked(AllOf(request[r].user))
    /\ Becomes(r, IF At(r, "deletes") THEN [at |-> "clears", user |-> request[r].user] ELSE Idle)
    /\ KeepsUsers /\ UNCHANGED <<nextSession, cleaner, limiter, made>>

AskDelete(r) ==
    /\ Administers(r)
    /\ \E a \in DOMAIN users :
         /\ users[a].role = "admin" => CountAdmins > 1
         /\ Becomes(r, [at |-> "deletes", user |-> a])
    /\ KeepsUsers /\ KeepsSessions /\ UNCHANGED <<limiter, made>>

DeleteUser(r) ==
    LET a == request[r].user
    IN  /\ At(r, "clears")
        /\ users' = [b \in DOMAIN users \ {a} |-> users[b]]
        /\ Becomes(r, Idle)
        /\ KeepsSessions /\ UNCHANGED <<mode, nextUser, limiter, made>>

-------------------------------------------------------------------------------

\* The process ends and is started again: handlers, limiters and the job's loops
\* are gone.
Crash ==
    /\ request' = [r \in Requests |-> Idle]
    /\ limiter' = [l \in {"login", "register"} |-> [ip \in Addresses |-> NoAttempts]]
    /\ cleaner' = [cleaner EXCEPT !.running = FALSE, !.loops = [l \in Loops |-> Gone]]
    /\ UNCHANGED <<sessions, nextSession, mode, users, nextUser, made>>

TimePasses(l, ip) ==
    /\ \E attempts \in Ages(limiter[l][ip]) : Limits(l, ip, attempts)
    /\ KeepsUsers /\ KeepsSessions /\ UNCHANGED <<request, made>>

\* What a handler goes on with
GoesOn(r) ==
    \/ LoginFails(r) \/ LoginSucceeds(r) \/ Registered(r) \/ Signs(r)
    \/ CreateBootstrapAdmin(r) \/ Taken(r) \/ Logout(r) \/ Declined(r) \/ ChangePassword(r)
    \/ AskCreate(r) \/ Creates(r) \/ AskUpdate(r) \/ Update(r)
    \/ RevokeAllUserSessions(r) \/ AskDelete(r) \/ DeleteUser(r)

Arrives(r) ==
    \/ \E ip \in Addresses, right \in BOOLEAN : Login(r, ip, right)
    \/ \E ip \in Addresses, login \in Logins : RegisterUser(r, ip, login)
    \/ BootstrapSetup(r)
    \/ \E s \in DOMAIN sessions : Authenticate(r, s)

Cleanup ==
    \/ StartCleanup \/ StopCleanup \/ \E l \in Loops : CleanupRuns(l)

Next ==
    \/ \E r \in Requests : Arrives(r) \/ GoesOn(r)
    \/ \E s \in DOMAIN sessions : Unauthorized(s)
                                  \/ (Grows(s) /\ UNCHANGED <<mode, users, nextUser, limiter, request, made>>)
    \/ Cleanup /\ UNCHANGED <<mode, users, nextUser, limiter, request, made>>
    \/ \E l \in {"login", "register"}, ip \in Addresses : TurnedAway(l, ip) \/ TimePasses(l, ip)
    \/ Crash

Spec == Init /\ [][Next]_vars
===============================================================================
