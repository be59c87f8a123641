------------------------------- MODULE MCAccounts -------------------------------
(* Instances of Accounts: scenarios that keep the state space small. *)
EXTENDS Accounts

CONSTANT Scenarios

\* What a scenario may consist of.  A crash does not befall requests that change
\* accounts: one between such a change and the revocation of the account's
\* sessions leaves them open.
ASSUME ScenariosOK ==
    /\ Requests # {}
    /\ \A s \in Scenarios :
          /\ s.modes \subseteq Modes
          /\ "founded" \in s.may => 1 \in Accounts
          /\ "crash" \in s.may => "ask" \notin s.may
          /\ s.serial => "guess" \notin s.may

VARIABLE scenario

ThreeAccounts == {1, 2, 3}

\* serial: a request begins when the others have ended; others: what else happens
Approval == [modes |-> {"self_service_with_approval"}, serial |-> TRUE, may |-> {"ask"}]
Serial == [modes |-> {"self_service", "admin_only"}, serial |-> TRUE, may |-> {"ask", "age"}]
Raced == [modes |-> {"self_service"}, serial |-> FALSE, may |-> {"ask", "founded"}]
Guesses == [modes |-> {"self_service"}, serial |-> FALSE, may |-> {"guess", "founded"}]
Cleaned == [modes |-> {"self_service"}, serial |-> TRUE, may |-> {"founded", "age", "logout", "clean", "crash"}]
Every == {Serial, Approval, Raced, Guesses, Cleaned}

MCVars == <<vars, scenario>>

May(what) == what \in scenario.may
\* Without races one handler is enough.
Handlers == IF scenario.serial THEN {CHOOSE r \in Requests : TRUE} ELSE Requests

\* The first administrator has been there before.
Founded ==
    /\ users = [a \in {1} |-> [login |-> BootstrapLogin, role |-> "admin", active |-> TRUE,
                                status |-> "active"]]
    /\ nextUser = 2

MCInit ==
    /\ scenario \in Scenarios
    /\ SessionsInit
    /\ mode \in scenario.modes
    /\ IF May("founded") THEN Founded ELSE users = << >> /\ nextUser = 1
    /\ limiter = [l \in {"login", "register"} |-> [ip \in Addresses |-> NoAttempts]]
    /\ request = [r \in Requests |-> Idle]
    /\ made = 0

\* The job is started again when its loop has ended.
Patient == cleaner.channel > 0 /\ ~cleaner.running => NoLoops
KeepsAccounts == UNCHANGED <<mode, users, nextUser, limiter, request, made>>

Asked(r) == (Arrives(r) /\ made' > made) \/ GoesOn(r)
Guessed(r) ==
    \/ \E ip \in Addresses, right \in BOOLEAN : Login(r, ip, right)
    \/ \E ip \in Addresses, login \in Logins : RegisterUser(r, ip, login)
    \/ LoginFails(r) \/ LoginSucceeds(r) \/ Registered(r) \/ Taken(r) \/ Signs(r)

MCNext ==
    /\ UNCHANGED scenario
    /\ \/ May("ask") /\ \E r \in Handlers : Asked(r)
       \/ May("guess") /\ \E r \in Requests : Guessed(r)
       \/ /\ May("guess")
          /\ \E l \in {"login", "register"}, ip \in Addresses : TurnedAway(l, ip) \/ TimePasses(l, ip)
       \/ /\ May("logout")
          /\ \E r \in Handlers : \/ Arrives(r) /\ made' <= 2
                                 \/ LoginFails(r) \/ LoginSucceeds(r) \/ Logout(r) \/ Declined(r)
       \/ /\ May("age")
          /\ \E s \in DOMAIN sessions : Unauthorized(s) \/ (Grows(s) /\ KeepsAccounts)
       \/ May("clean") /\ Patient /\ StartCleanup /\ KeepsAccounts
       \/ May("clean") /\ (StopCleanup \/ \E l \in Loops : CleanupRuns(l)) /\ KeepsAccounts
       \/ May("crash") /\ Crash

\* Time passes, and the timer of the job ticks.  Ticks are far apart, so a loop
\* whose channel is closed does not take one for ever instead.
MCSpec ==
    /\ MCInit /\ [][MCNext]_MCVars
    /\ \A l \in {"login", "register"}, ip \in Addresses : SF_vars(TimePasses(l, ip))
    /\ \A l \in Loops : WF_vars(CleanupRuns(l) /\ KeepsAccounts) /\ SF_vars(Ends(l) /\ KeepsAccounts)

\* A session that an account's new password or deactivation has made stale is
\* revoked, or about to be, however requests race; only a login that was under
\* way may bring one that stays.  Handled one at a time, there are none of those,
\* and none of accounts that are gone (service.go: ChangePassword,
\* AdminResetPassword; user_service.go: UpdateUser, DeleteUser).
StaleSessionsEnd ==
    /\ TypeOK
    /\ \A s \in DOMAIN sessions : IsOpen(s) =>
          /\ sessions[s].stale = "since" =>
                \E r \in Requests : At(r, "revokes") /\ request[r].user = sessions[s].user
          /\ scenario.serial =>
                sessions[s].stale # "born" /\ sessions[s].user \in DOMAIN users

\* Once there is an administrator, one who may log in remains, if requests do
\* not race and no account awaits approval (user_service.go: countAdmins).
AdminRemains == IsBootstrapMode \/ \E a \in DOMAIN users : users[a].role = "admin" /\ MayLogIn(a)
SerialAdminRemains ==
    scenario.serial /\ mode # "self_service_with_approval" => AdminRemains

\* However often somebody tries, an address is not turned away for ever, nor is
\* a failure needed to end a ban (rate_limiter.go: Allow, cleanupExpired).
RefusalsEnd ==
    scenario = Guesses =>
        \A l \in {"login", "register"}, ip \in Addresses : []<>Allow(limiter[l][ip])

\* While the job is left running, revoked and expired sessions are deleted; once
\* it is stopped for good, its loop ends and none is left (session_cleanup.go: Start, Stop).
ClosedSessionsGo ==
    /\ <>[]cleaner.running => \A s \in 1 .. MaxSession :
          (s \in DOMAIN sessions /\ (sessions[s].revoked \/ sessions[s].age = "expired"))
              ~> s \notin DOMAIN sessions
    /\ <>[]~cleaner.running => <>[]NoLoops

\* Bans and closed sessions come to an end.
BansAndSessionsEnd == RefusalsEnd /\ ClosedSessionsGo
===============================================================================
