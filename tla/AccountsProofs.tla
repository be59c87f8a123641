---------------------------- MODULE AccountsProofs ----------------------------
(***************************************************************************)
(* What holds of accounts and their sessions for every set of accounts,    *)
(* logins, addresses and handlers, and in every scenario: the types, that  *)
(* no stale session stays open, and that an administrator remains.         *)
(***************************************************************************)
EXTENDS MCAccounts, FiniteSetTheorems, TLAPS

(* Types *)

Cleaner == [running : BOOLEAN, channel : 0 .. MaxStarts, closed : SUBSET Loops,
            loops : [Loops -> [at : {"gone", "enters", "waits", "sweeps"},
                               channel : 0 .. MaxStarts]]]

\* The job that runs has a channel.
CleanerTyped == cleaner \in Cleaner /\ (cleaner.running => cleaner.channel > 0)

\* Sessions belong to accounts that there were.
SessionsTyped ==
    /\ nextSession \in 1 .. MaxSession + 1
    /\ DOMAIN sessions \subseteq 1 .. nextSession - 1
    /\ \A s \in DOMAIN sessions : sessions[s] \in Session /\ sessions[s].user < nextUser

UsersTyped ==
    /\ mode \in Modes
    /\ nextUser \in Nat \ {0}
    /\ DOMAIN users \subseteq {a \in Accounts : a < nextUser}
    /\ \A a \in DOMAIN users : users[a] \in User
    /\ \A a, b \in DOMAIN users : users[a].login = users[b].login => a = b

LimiterTyped == limiter \in [{"login", "register"} -> [Addresses -> Attempts]]

\* A request that will open a session opens it for an account that there was.
RequestTyped ==
    /\ request \in [Requests -> Request]
    /\ \A r \in Requests :
          /\ At(r, "checked") => request[r].user < nextUser
          /\ At(r, "signs") => request[r].user < nextUser

Typed == CleanerTyped /\ SessionsTyped /\ UsersTyped /\ LimiterTyped /\ RequestTyped

LEMMA TypedIsTypeOK == Typed => TypeOK
  <1> SUFFICES ASSUME Typed PROVE TypeOK  OBVIOUS
  <1>1. /\ cleaner.running \in BOOLEAN
        /\ cleaner.channel \in 0 .. MaxStarts /\ cleaner.closed \subseteq Loops
        /\ \A l \in Loops : /\ cleaner.loops[l].at \in {"gone", "enters", "waits", "sweeps"}
                            /\ cleaner.loops[l].channel \in 0 .. MaxStarts
    BY DEF Typed, CleanerTyped, Cleaner
  <1>2. SessionsTypeOK  BY <1>1 DEF Typed, SessionsTyped, SessionsTypeOK
  <1> QED
    BY <1>2 DEF Typed, TypeOK, SessionsTyped, UsersTyped, LimiterTyped, RequestTyped

\* What a handler holds, by where it is
LEMMA RequestKinds ==
    ASSUME NEW q \in Request
    PROVE  /\ q.at = "checked" =>
                q \in [at : {"checked"}, address : Addresses, user : Accounts \cup {0}, stale : BOOLEAN]
           /\ q.at = "registers" => q \in [at : {"registers"}, address : Addresses, login : Logins]
           /\ q.at = "signs" => q \in [at : {"signs"}, user : Accounts, stale : BOOLEAN]
           /\ q.at = "known" => q \in [at : {"known"}, actor : Accounts, admin : BOOLEAN, session : Nat]
           /\ q.at = "creates" => q \in [at : {"creates"}, login : Logins, role : {"admin", "user"}]
           /\ q.at = "updates" => q \in [at : {"updates"}, user : Accounts, change : Change]
           /\ q.at \in {"revokes", "deletes", "clears"} =>
                q \in [at : {"revokes", "deletes", "clears"}, user : Accounts]
  <1> DEFINE OneUser == [at : {"revokes", "deletes", "clears"}, user : Accounts]
  <1>1. \/ q = Idle
        \/ q \in [at : {"checked"}, address : Addresses, user : Accounts \cup {0}, stale : BOOLEAN]
        \/ q \in [at : {"registers"}, address : Addresses, login : Logins]
        \/ q \in [at : {"signs"}, user : Accounts, stale : BOOLEAN]
        \/ q \in [at : {"setup"}]
        \/ q \in [at : {"known"}, actor : Accounts, admin : BOOLEAN, session : Nat]
        \/ q \in [at : {"creates"}, login : Logins, role : {"admin", "user"}]
        \/ q \in [at : {"updates"}, user : Accounts, change : Change]
        \/ q \in OneUser
    BY DEF Request
  <1>2. CASE q = Idle  BY <1>2 DEF Idle
  <1>3. CASE q \in OneUser
    <2>1. q.at \in {"revokes", "deletes", "clears"}  BY <1>3
    <2> QED  BY <1>3, <2>1
  <1>4. CASE q \in [at : {"checked"}, address : Addresses, user : Accounts \cup {0}, stale : BOOLEAN]
    BY <1>4
  <1>5. CASE q \in [at : {"updates"}, user : Accounts, change : Change]  BY <1>5
  <1>6. CASE q \in [at : {"known"}, actor : Accounts, admin : BOOLEAN, session : Nat]  BY <1>6
  <1>7. CASE \/ q \in [at : {"registers"}, address : Addresses, login : Logins]
             \/ q \in [at : {"signs"}, user : Accounts, stale : BOOLEAN]
    BY <1>7
  <1>8. CASE \/ q \in [at : {"setup"}]
             \/ q \in [at : {"creates"}, login : Logins, role : {"admin", "user"}]
    BY <1>8
  <1> QED  BY <1>1, <1>2, <1>3, <1>4, <1>5, <1>6, <1>7, <1>8

LEMMA Becoming ==
    ASSUME request \in [Requests -> Request], NEW r \in Requests, NEW held \in Request,
           Becomes(r, held)
    PROVE  /\ request' \in [Requests -> Request] /\ request'[r] = held
           /\ \A q \in Requests \ {r} : request'[q] = request[q]
  BY DEF Becomes

LEMMA LimitTyped ==
    ASSUME LimiterTyped, NEW l \in {"login", "register"}, NEW ip \in Addresses,
           NEW a \in Attempts, Limits(l, ip, a)
    PROVE  LimiterTyped'
  BY DEF LimiterTyped, Limits

\* The limiter's operators give counts back.
LEMMA AttemptsTyped ==
    ASSUME NEW a \in Attempts
    PROVE  /\ Renewed(a) \in Attempts /\ RecordFailure(a) \in Attempts
           /\ RecordSuccess(a) \in Attempts /\ Refused(a) \in Attempts
           /\ Ages(a) \subseteq Attempts
  <1> USE AttemptsOK
  <1>1. NoAttempts \in Attempts  BY DEF NoAttempts, Attempts, Times
  <1>2. Pruned(a) \in Attempts  BY <1>1 DEF Pruned
  <1>3. ASSUME NEW b \in Attempts PROVE [b EXCEPT !.count = 0, !.first = "recent"] \in Attempts
    <2> DEFINE counts == 0 .. MaxAttempts + 1
    <2>1. 0 \in counts /\ b \in [count : counts, first : Times, last : Times, banned : BOOLEAN]
      BY DEF Attempts
    <2> HIDE DEF counts
    <2>2. [b EXCEPT !.count = 0, !.first = "recent"]
              \in [count : counts, first : Times, last : Times, banned : BOOLEAN]
      BY ONLY <2>1 DEF Times
    <2> QED  BY <2>2 DEF Attempts, counts
  <1>4. Renewed(a) \in Attempts  BY <1>2, <1>3 DEF Renewed
  <1>5. RecordFailure(a) \in Attempts
    <2>1. CASE a = NoAttempts  BY <2>1 DEF RecordFailure, Attempts, Times
    <2>2. CASE a # NoAttempts
      <3> DEFINE n == IF a.count > MaxAttempts THEN a.count ELSE a.count + 1
      <3>1. n \in 0 .. MaxAttempts + 1
        <4>1. a.count \in 0 .. MaxAttempts + 1  BY DEF Attempts
        <4> QED  BY ONLY <4>1, AttemptsOK
      <3>2. (n >= MaxAttempts) \in BOOLEAN /\ a.banned \in BOOLEAN  BY DEF Attempts
      <3> HIDE DEF n
      <3>3. ASSUME NEW k \in 0 .. MaxAttempts + 1, NEW b \in BOOLEAN
            PROVE  [a EXCEPT !.count = k, !.last = "recent", !.banned = b] \in Attempts
        <4> DEFINE counts == 0 .. MaxAttempts + 1
        <4>1. k \in counts /\ a \in [count : counts, first : Times, last : Times, banned : BOOLEAN]
          BY DEF Attempts
        <4> HIDE DEF counts
        <4>2. [a EXCEPT !.count = k, !.last = "recent", !.banned = b]
                  \in [count : counts, first : Times, last : Times, banned : BOOLEAN]
          BY ONLY <3>3, <4>1 DEF Times
        <4> QED  BY <4>2 DEF Attempts, counts
      <3>4. [a EXCEPT !.count = n, !.last = "recent", !.banned = a.banned \/ n >= MaxAttempts] \in Attempts
        <4>1. (a.banned \/ n >= MaxAttempts) \in BOOLEAN  OBVIOUS
        <4> QED  BY <3>1, <3>3, <4>1
      <3> QED  BY <2>2, <3>4 DEF RecordFailure, n
    <2> QED  BY <2>1, <2>2
  <1>6. Ages(a) \subseteq Attempts
    <2>1. /\ [a EXCEPT !.first = "old"] \in Attempts
          /\ [a EXCEPT !.first = "old", !.last = "old"] \in Attempts
          /\ [a EXCEPT !.banned = FALSE] \in Attempts
      BY DEF Attempts, Times
    <2> QED  BY <2>1 DEF Ages
  <1> QED  BY <1>1, <1>4, <1>5, <1>6 DEF RecordSuccess, Refused

LEMMA RevokedTyped ==
    ASSUME SessionsTyped, NEW S, sessions' = Revoked(S) \/ sessions' = Outdated(S),
           UNCHANGED <<nextSession, nextUser>>
    PROVE  SessionsTyped'
  <1>1. DOMAIN sessions' = DOMAIN sessions  BY DEF Revoked, Outdated
  <1>2. ASSUME NEW x \in DOMAIN sessions
        PROVE  sessions'[x] \in Session /\ sessions'[x].user = sessions[x].user
    <2>1. sessions[x] \in Session  BY DEF SessionsTyped
    <2>2. CASE sessions' = Revoked(S)
      <3>1. (sessions[x].revoked \/ x \in S) \in BOOLEAN  BY <2>1 DEF Session
      <3>2. sessions'[x] = [sessions[x] EXCEPT !.revoked = sessions[x].revoked \/ x \in S]
        BY <2>2 DEF Revoked
      <3> QED  BY <2>1, <3>1, <3>2 DEF Session
    <2>3. CASE sessions' = Outdated(S)
      <3>1. sessions'[x] \in {sessions[x], [sessions[x] EXCEPT !.stale = "since"]}
        <4>1. [sessions[x] EXCEPT !.stale = sessions[x].stale] = sessions[x]  BY <2>1 DEF Session
        <4>2. sessions'[x] = [sessions[x] EXCEPT !.stale = IF x \in S THEN "since" ELSE sessions[x].stale]
          BY <2>3 DEF Outdated
        <4> QED  BY <4>1, <4>2
      <3> QED  BY <2>1, <3>1 DEF Session
    <2> QED  BY <2>2, <2>3
  <1> QED  BY <1>1, <1>2 DEF SessionsTyped

LEMMA SessionTyped ==
    ASSUME SessionsTyped, UsersTyped, NEW a \in Accounts, a < nextUser, NEW stale \in BOOLEAN,
           CreateSession(a, stale), UNCHANGED nextUser
    PROVE  SessionsTyped'
  <1> DEFINE row == [user |-> a, revoked |-> FALSE, age |-> "fresh",
                     stale |-> IF stale THEN "born" ELSE "no"]
  <1>1. row \in Session /\ row.user = a  BY DEF Session
  <1>2. /\ nextSession <= MaxSession /\ nextSession' = nextSession + 1
        /\ sessions' = Inserted(sessions, nextSession, row)
    BY DEF CreateSession
  <1> HIDE DEF row
  <1>3. nextSession \in 1 .. MaxSession /\ nextSession' \in 1 .. MaxSession + 1
        /\ \A x \in {nextSession} \cup 1 .. nextSession - 1 : x \in 1 .. nextSession' - 1
    <2>1. nextSession \in 1 .. MaxSession + 1 /\ MaxSession \in Nat
      BY SessionsOK DEF SessionsTyped
    <2> QED  BY ONLY <1>2, <2>1
  <1>4. DOMAIN sessions' \subseteq 1 .. nextSession' - 1
    <2>1. DOMAIN sessions' = {nextSession} \cup DOMAIN sessions  BY <1>2 DEF Inserted
    <2>2. DOMAIN sessions \subseteq 1 .. nextSession - 1  BY DEF SessionsTyped
    <2> QED  BY ONLY <1>3, <2>1, <2>2
  <1>5. ASSUME NEW x \in DOMAIN sessions'
        PROVE  sessions'[x] \in Session /\ sessions'[x].user < nextUser
    <2>1. x = nextSession => sessions'[x] = row  BY <1>2 DEF Inserted
    <2>2. x # nextSession => x \in DOMAIN sessions /\ sessions'[x] = sessions[x]
      BY <1>2 DEF Inserted
    <2> QED  BY <1>1, <2>1, <2>2 DEF SessionsTyped
  <1> QED  BY <1>3, <1>4, <1>5 DEF SessionsTyped

LEMMA UserTyped ==
    ASSUME UsersTyped, NEW login \in Logins, NEW role \in {"admin", "user"},
           NEW status \in Statuses, CreateUser(login, role, status), UNCHANGED mode
    PROVE  UsersTyped' /\ nextUser \in Accounts /\ nextUser' = nextUser + 1
  <1> DEFINE row == [login |-> login, role |-> role, active |-> TRUE, status |-> status]
  <1>1. row \in User /\ row.login = login  BY DEF User
  <1>2. /\ nextUser \in Accounts /\ HasLogin(login) = {} /\ nextUser' = nextUser + 1
        /\ users' = Inserted(users, nextUser, row)
    BY DEF CreateUser
  <1> HIDE DEF row
  <1>3. DOMAIN users' = {nextUser} \cup DOMAIN users /\ users'[nextUser] = row
        /\ \A x \in DOMAIN users \ {nextUser} : users'[x] = users[x]
    BY <1>2 DEF Inserted
  <1>4. nextUser \notin DOMAIN users  BY DEF UsersTyped
  <1>5. DOMAIN users' \subseteq {a \in Accounts : a < nextUser'}
    <2>1. nextUser \in Nat /\ nextUser < nextUser'  BY <1>2 DEF UsersTyped
    <2>2. ASSUME NEW a \in DOMAIN users PROVE a \in Accounts /\ a < nextUser'
      <3>1. a \in Accounts /\ a \in Nat /\ a < nextUser  BY SessionsOK DEF UsersTyped
      <3> QED  BY ONLY <1>2, <2>1, <3>1
    <2> QED  BY <1>2, <1>3, <2>1, <2>2
  <1>6. \A a \in DOMAIN users' : users'[a] \in User  BY <1>1, <1>3 DEF UsersTyped
  <1>7. \A a, b \in DOMAIN users' : users'[a].login = users'[b].login => a = b
    <2>1. \A a \in DOMAIN users : users[a].login # login  BY <1>2 DEF HasLogin
    <2> QED  BY <1>1, <1>3, <2>1 DEF UsersTyped
  <1>8. nextUser' \in Nat \ {0}  BY <1>2 DEF UsersTyped
  <1> QED  BY <1>2, <1>5, <1>6, <1>7, <1>8 DEF UsersTyped

\* Ids that were given out stay so.
LEMMA MoreUsers ==
    ASSUME SessionsTyped, UsersTyped, UNCHANGED <<sessions, nextSession>>, nextUser' = nextUser + 1
    PROVE  SessionsTyped'
  <1>1. ASSUME NEW x \in DOMAIN sessions PROVE sessions[x].user < nextUser'
    <2>1. sessions[x].user \in Nat /\ nextUser \in Nat /\ sessions[x].user < nextUser
      BY SessionsOK DEF SessionsTyped, UsersTyped, Session
    <2> QED  BY ONLY nextUser' = nextUser + 1, <2>1
  <1> QED  BY <1>1 DEF SessionsTyped

\* A handler goes on with something that opens no session, or one for an
\* account that there is.
LEMMA HandlerTyped ==
    ASSUME RequestTyped, UsersTyped, nextUser' \in {nextUser, nextUser + 1},
           NEW r \in Requests, NEW held \in Request, Becomes(r, held),
           held.at \in {"checked", "signs"} => held.user \in Nat /\ held.user < nextUser'
    PROVE  RequestTyped'
  <1>1. /\ request' \in [Requests -> Request] /\ request'[r] = held
        /\ \A q \in Requests \ {r} : request'[q] = request[q]
    BY Becoming DEF RequestTyped
  <1>2. ASSUME NEW q \in Requests \ {r}, request[q].at \in {"checked", "signs"}
        PROVE  request[q].user < nextUser'
    <2>1. request[q].user < nextUser  BY <1>2 DEF RequestTyped, At
    <2>2. request[q].user \in Nat
      <3>1. request[q] \in Request  BY DEF RequestTyped
      <3>2. request[q].user \in Accounts \cup {0}  BY <1>2, <3>1, RequestKinds
      <3>3. \A a \in Accounts \cup {0} : a \in Nat  BY SessionsOK
      <3> QED  BY <3>2, <3>3
    <2>3. nextUser \in Nat  BY DEF UsersTyped
    <2> QED  BY ONLY <2>1, <2>2, <2>3, nextUser' \in {nextUser, nextUser + 1}
  <1> QED  BY <1>1, <1>2 DEF RequestTyped, At

USE DEF KeepsUsers, KeepsSessions, sessionVars

\* Attempts, and what becomes of them
LEMMA LoginTyped ==
    ASSUME Typed, NEW r \in Requests,
           (\E ip \in Addresses, right \in BOOLEAN : Login(r, ip, right)) \/ LoginFails(r)
    PROVE  Typed'
  <1> USE DEF Typed
  <1>1. ASSUME NEW ip \in Addresses, NEW right \in BOOLEAN, Login(r, ip, right) PROVE Typed'
    <2>1. PICK a \in (IF right THEN DOMAIN users ELSE {0}) :
              Becomes(r, [at |-> "checked", address |-> ip, stale |-> FALSE,
                          user |-> IF a # 0 /\ MayLogIn(a) THEN a ELSE 0])
      BY <1>1 DEF Login
    <2> DEFINE u == IF a # 0 /\ MayLogIn(a) THEN a ELSE 0
               held == [at |-> "checked", address |-> ip, stale |-> FALSE, user |-> u]
    <2>2. u \in Accounts \cup {0} /\ u \in Nat /\ u < nextUser'
      <3>1. nextUser' = nextUser /\ nextUser \in Nat \ {0}  BY <1>1 DEF Login, UsersTyped
      <3>2. CASE u = 0  BY <3>1, <3>2
      <3>3. CASE u # 0
        <4>1. u \in DOMAIN users  BY <2>1, <3>3
        <4> QED  BY <3>1, <4>1, SessionsOK DEF UsersTyped
      <3> QED  BY <3>2, <3>3
    <2> HIDE DEF u
    <2>3. held \in Request /\ held.at = "checked" /\ held.user = u  BY <2>2 DEF Request
    <2>4. Becomes(r, held)  BY <2>1 DEF u
    <2> HIDE DEF held
    <2>5. RequestTyped'  BY <1>1, <2>2, <2>3, <2>4, HandlerTyped DEF Login
    <2>6. limiter["login"][ip] \in Attempts  BY DEF LimiterTyped
    <2>7. LimiterTyped'  BY <1>1, <2>6, AttemptsTyped, LimitTyped DEF Login
    <2>8. UNCHANGED <<cleaner, sessions, nextSession, mode, users, nextUser>>  BY <1>1 DEF Login
    <2> QED  BY <2>5, <2>7, <2>8 DEF CleanerTyped, SessionsTyped, UsersTyped
  <1>2. CASE LoginFails(r)
    <2>1. request[r] \in Request /\ request[r].at = "checked"  BY <1>2 DEF LoginFails, RequestTyped, At
    <2>2. request[r].address \in Addresses  BY <2>1, RequestKinds
    <2>3. limiter["login"][request[r].address] \in Attempts  BY <2>2 DEF LimiterTyped
    <2>4. LimiterTyped'  BY <1>2, <2>2, <2>3, AttemptsTyped, LimitTyped DEF LoginFails
    <2>5. Idle \in Request /\ Idle.at = "idle"  BY DEF Request, Idle
    <2>6. RequestTyped'  BY <1>2, <2>5, HandlerTyped DEF LoginFails
    <2>7. UNCHANGED <<cleaner, sessions, nextSession, mode, users, nextUser>>  BY <1>2 DEF LoginFails
    <2> QED  BY <2>4, <2>6, <2>7 DEF CleanerTyped, SessionsTyped, UsersTyped
  <1> QED  BY <1>1, <1>2

\* What opens a session
LEMMA SignsTyped ==
    ASSUME Typed, NEW r \in Requests, LoginSucceeds(r) \/ Signs(r)
    PROVE  Typed'
  <1> USE DEF Typed
  <1>1. Idle \in Request /\ Idle.at = "idle"  BY DEF Request, Idle
  <1>2. RequestTyped'  BY <1>1, HandlerTyped DEF LoginSucceeds, Signs
  <1>3. request[r] \in Request /\ request[r].at \in {"checked", "signs"}
    BY DEF LoginSucceeds, Signs, RequestTyped, At
  <1>4. request[r].stale \in BOOLEAN /\ request[r].user < nextUser
    BY <1>3, RequestKinds DEF RequestTyped, At
  <1>5. request[r].user \in Accounts
    <2>1. request[r].user \in Accounts \cup {0}  BY <1>3, RequestKinds
    <2>2. At(r, "checked") => request[r].user # 0  BY DEF LoginSucceeds, Signs, At
    <2>3. At(r, "signs") => request[r].user \in Accounts  BY <1>3, RequestKinds DEF At
    <2> QED  BY <1>3, <2>1, <2>2, <2>3 DEF At
  <1>6. SessionsTyped'  BY <1>4, <1>5, SessionTyped DEF LoginSucceeds, Signs
  <1>7. LimiterTyped'
    <2>1. CASE LoginSucceeds(r)
      <3>1. request[r].address \in Addresses  BY <1>3, <2>1, RequestKinds DEF LoginSucceeds, At
      <3>2. limiter["login"][request[r].address] \in Attempts  BY <3>1 DEF LimiterTyped
      <3> QED  BY <2>1, <3>1, <3>2, AttemptsTyped, LimitTyped DEF LoginSucceeds
    <2>2. CASE Signs(r)  BY <2>2 DEF Signs, LimiterTyped
    <2> QED  BY <2>1, <2>2
  <1>8. UNCHANGED <<cleaner, mode, users, nextUser>>  BY DEF LoginSucceeds, Signs
  <1> QED  BY <1>2, <1>6, <1>7, <1>8 DEF CleanerTyped, UsersTyped

\* What adds an account
LEMMA CreatesTyped ==
    ASSUME Typed, NEW r \in Requests, Registered(r) \/ CreateBootstrapAdmin(r) \/ Creates(r)
    PROVE  Typed'
  <1> USE DEF Typed
  <1>1. request[r] \in Request  BY DEF RequestTyped
  <1>2. PICK login \in Logins, role \in {"admin", "user"}, status \in Statuses :
            CreateUser(login, role, status)
    <2>1. CASE Registered(r)
      <3>1. request[r].login \in Logins  BY <1>1, <2>1, RequestKinds DEF Registered, At
      <3> QED  BY <2>1, <3>1 DEF Registered, Statuses
    <2>2. CASE CreateBootstrapAdmin(r)  BY <2>2, LoginsOK DEF CreateBootstrapAdmin, Statuses
    <2>3. CASE Creates(r)
      <3>1. request[r].login \in Logins /\ request[r].role \in {"admin", "user"}
        BY <1>1, <2>3, RequestKinds DEF Creates, At
      <3> QED  BY <2>3, <3>1 DEF Creates, Statuses
    <2> QED  BY <2>1, <2>2, <2>3
  <1>3. mode' = mode /\ UNCHANGED <<cleaner, sessions, nextSession>>
    BY DEF Registered, CreateBootstrapAdmin, Creates
  <1>4. UsersTyped' /\ nextUser \in Accounts /\ nextUser' = nextUser + 1
    BY <1>2, <1>3, UserTyped
  <1>5. SessionsTyped' /\ CleanerTyped'  BY <1>3, <1>4, MoreUsers DEF CleanerTyped
  <1> DEFINE signs == [at |-> "signs", user |-> nextUser, stale |-> FALSE]
  <1>6. signs \in Request /\ signs.at = "signs" /\ signs.user = nextUser  BY <1>4 DEF Request
  <1>7. Idle \in Request /\ Idle.at = "idle"  BY DEF Request, Idle
  <1>8. PICK held \in {signs, Idle} : Becomes(r, held)
    BY DEF Registered, CreateBootstrapAdmin, Creates
  <1> HIDE DEF signs
  <1>9. nextUser \in Nat /\ nextUser < nextUser'  BY <1>4 DEF UsersTyped
  <1>10. RequestTyped'
    <2>1. held \in Request /\ (held.at \in {"checked", "signs"} => held.user \in Nat /\ held.user < nextUser')
      BY <1>6, <1>7, <1>8, <1>9
    <2> QED  BY <1>4, <1>8, <2>1, HandlerTyped
  <1>11. LimiterTyped'
    <2>1. CASE Registered(r)
      <3>1. request[r].address \in Addresses  BY <1>1, <2>1, RequestKinds DEF Registered, At
      <3>2. limiter["register"][request[r].address] \in Attempts  BY <3>1 DEF LimiterTyped
      <3> QED  BY <2>1, <3>1, <3>2, AttemptsTyped, LimitTyped DEF Registered
    <2>2. CASE CreateBootstrapAdmin(r) \/ Creates(r)
      BY <2>2 DEF CreateBootstrapAdmin, Creates, LimiterTyped
    <2> QED  BY <2>1, <2>2
  <1> QED  BY <1>4, <1>5, <1>10, <1>11

LEMMA ChangesTyped == Updates \cup Decisions \cup {Reset} \subseteq Change
  <1>1. Same \in Change  BY DEF Same, Change
  <1>2. ASSUME NEW role \in {"admin", "user", "same"}, NEW active \in {"yes", "no", "same"}
        PROVE  [Same EXCEPT !.role = role, !.active = active] \in Change
    BY <1>1 DEF Change
  <1>3. Decisions \cup {Reset} \subseteq Change  BY <1>1 DEF Decisions, Reset, Change, Statuses
  <1> QED  BY <1>2, <1>3 DEF Updates

\* What only becomes known, or is asked for
LEMMA AsksTyped ==
    ASSUME Typed, NEW r \in Requests,
           \/ \E ip \in Addresses, login \in Logins : RegisterUser(r, ip, login)
           \/ BootstrapSetup(r) \/ (\E s \in DOMAIN sessions : Authenticate(r, s))
           \/ Taken(r) \/ Logout(r) \/ Declined(r) \/ ChangePassword(r)
           \/ AskCreate(r) \/ AskUpdate(r) \/ AskDelete(r)
    PROVE  Typed'
  <1> USE DEF Typed
  <1> DEFINE Harmless(held) == held \in Request /\ held.at \notin {"checked", "signs"}
  <1>1. Harmless(Idle)  BY DEF Request, Idle
  <1>2. DOMAIN users \subseteq Accounts /\ \A a \in DOMAIN users : users[a] \in User
    BY DEF UsersTyped
  <1>3. \/ UNCHANGED request
        \/ \E held \in Request : Becomes(r, held) /\ held.at \notin {"checked", "signs"}
    <2>1. ASSUME NEW ip \in Addresses, NEW login \in Logins, RegisterUser(r, ip, login)
          PROVE  \/ UNCHANGED request
                 \/ \E held \in Request : Becomes(r, held) /\ held.at \notin {"checked", "signs"}
      <3> DEFINE held == [at |-> "registers", address |-> ip, login |-> login]
      <3>1. Harmless(held)  BY DEF Request
      <3>2. UNCHANGED request \/ Becomes(r, held)  BY <2>1 DEF RegisterUser
      <3> QED  BY <3>1, <3>2
    <2>2. CASE BootstrapSetup(r)
      <3>1. Harmless([at |-> "setup"])  BY DEF Request
      <3> QED  BY <2>2, <3>1 DEF BootstrapSetup
    <2>3. ASSUME NEW s \in DOMAIN sessions, Authenticate(r, s)
          PROVE  \E held \in Request : Becomes(r, held) /\ held.at \notin {"checked", "signs"}
      <3> DEFINE a == sessions[s].user
                 held == [at |-> "known", actor |-> a, session |-> s, admin |-> users[a].role = "admin"]
      <3>1. a \in Accounts /\ s \in Nat
        <4>1. s \in 1 .. nextSession - 1 /\ nextSession \in Nat  BY DEF SessionsTyped
        <4>2. sessions[s] \in Session  BY DEF SessionsTyped
        <4> QED  BY <4>1, <4>2 DEF Session
      <3>2. (users[a].role = "admin") \in BOOLEAN  OBVIOUS
      <3>3. Becomes(r, held)  BY <2>3 DEF Authenticate
      <3> HIDE DEF a
      <3>4. Harmless(held)  BY <3>1, <3>2 DEF Request
      <3> QED  BY <3>3, <3>4
    <2>4. CASE Taken(r) \/ Logout(r) \/ Declined(r)
      BY <1>1, <2>4 DEF Taken, Logout, Declined
    <2>5. ASSUME NEW a \in Accounts, NEW change \in Change
          PROVE  Harmless([at |-> "updates", user |-> a, change |-> change])
      BY DEF Request
    <2>6. CASE ChangePassword(r)
      <3>1. request[r].actor \in Accounts  BY <1>2, <2>6 DEF ChangePassword
      <3>2. [Same EXCEPT !.password = TRUE] \in Change  BY DEF Same, Change
      <3> QED  BY <2>5, <2>6, <3>1, <3>2 DEF ChangePassword
    <2>7. CASE AskCreate(r)
      <3>1. PICK login \in Logins, role \in {"admin", "user"} :
                Becomes(r, [at |-> "creates", login |-> login, role |-> role])
        BY <2>7 DEF AskCreate
      <3>2. Harmless([at |-> "creates", login |-> login, role |-> role])  BY DEF Request
      <3> QED  BY <3>1, <3>2
    <2>8. CASE AskUpdate(r)
      <3>1. PICK a \in DOMAIN users, change \in Updates \cup Decisions \cup {Reset} :
                Becomes(r, [at |-> "updates", user |-> a, change |-> change])
        BY <2>8 DEF AskUpdate
      <3>2. change \in Change  BY ChangesTyped
      <3> QED  BY <1>2, <2>5, <3>1, <3>2
    <2>9. CASE AskDelete(r)
      <3>1. PICK a \in DOMAIN users : Becomes(r, [at |-> "deletes", user |-> a])
        BY <2>9 DEF AskDelete
      <3>2. Harmless([at |-> "deletes", user |-> a])  BY <1>2 DEF Request
      <3> QED  BY <3>1, <3>2
    <2> QED  BY <2>1, <2>2, <2>3, <2>4, <2>6, <2>7, <2>8, <2>9
  <1>4. UNCHANGED <<cleaner, nextSession, mode, users, nextUser>>
    BY DEF RegisterUser, BootstrapSetup, Authenticate, Taken, Logout, Declined, ChangePassword,
        AskCreate, AskUpdate, AskDelete
  <1>5. RequestTyped'
    <2>1. CASE UNCHANGED request  BY <1>4, <2>1 DEF RequestTyped, At
    <2>2. CASE \E held \in Request : Becomes(r, held) /\ held.at \notin {"checked", "signs"}
      BY <1>4, <2>2, HandlerTyped
    <2> QED  BY <1>3, <2>1, <2>2
  <1>6. SessionsTyped'
    <2>1. CASE Logout(r)  BY <1>4, <2>1, RevokedTyped DEF Logout
    <2>2. CASE UNCHANGED sessions  BY <1>4, <2>2 DEF SessionsTyped
    <2>3. Logout(r) \/ UNCHANGED sessions
      BY DEF RegisterUser, BootstrapSetup, Authenticate, Taken, Logout, Declined, ChangePassword,
          AskCreate, AskUpdate, AskDelete
    <2> QED  BY <2>1, <2>2, <2>3
  <1>7. LimiterTyped'
    <2>1. ASSUME NEW ip \in Addresses, NEW login \in Logins, RegisterUser(r, ip, login)
          PROVE  LimiterTyped'
      <3>1. limiter["register"][ip] \in Attempts  BY DEF LimiterTyped
      <3>2. PICK a \in Attempts : Limits("register", ip, a)
        BY <2>1, <3>1, AttemptsTyped DEF RegisterUser
      <3> QED  BY <3>2, LimitTyped
    <2>2. CASE UNCHANGED limiter  BY <2>2 DEF LimiterTyped
    <2> QED
      BY <2>1, <2>2 DEF BootstrapSetup, Authenticate, Taken, Logout, Declined, ChangePassword,
          AskCreate, AskUpdate, AskDelete
  <1> QED  BY <1>4, <1>5, <1>6, <1>7 DEF CleanerTyped, UsersTyped

LEMMA OvertakenTyped ==
    ASSUME request \in [Requests -> Request], NEW a
    PROVE  /\ Overtaken(a) \in [Requests -> Request]
           /\ \A q \in Requests : /\ Overtaken(a)[q].at = request[q].at
                                  /\ request[q].at \in {"checked", "signs"} =>
                                       Overtaken(a)[q].user = request[q].user
                                  /\ request[q].at \notin {"checked", "signs"} =>
                                       Overtaken(a)[q] = request[q]
  <1> SUFFICES ASSUME NEW q \in Requests
               PROVE  LET o == IF request[q].at \in {"checked", "signs"} /\ request[q].user = a
                               THEN [request[q] EXCEPT !.stale = TRUE] ELSE request[q]
                      IN  /\ o \in Request /\ o.at = request[q].at
                          /\ request[q].at \in {"checked", "signs"} => o.user = request[q].user
                          /\ request[q].at \notin {"checked", "signs"} => o = request[q]
    BY DEF Overtaken
  <1>1. request[q] \in Request  OBVIOUS
  <1> DEFINE late == [request[q] EXCEPT !.stale = TRUE]
  <1>2. CASE request[q].at = "checked"
    <2>1. request[q] \in [at : {"checked"}, address : Addresses, user : Accounts \cup {0}, stale : BOOLEAN]
      BY <1>1, <1>2, RequestKinds
    <2>2. /\ late \in [at : {"checked"}, address : Addresses, user : Accounts \cup {0}, stale : BOOLEAN]
          /\ late.at = "checked" /\ late.user = request[q].user
      BY ONLY <2>1
    <2>3. late \in Request  BY <2>2 DEF Request
    <2> QED  BY <1>1, <1>2, <2>2, <2>3
  <1>3. CASE request[q].at = "signs"
    <2>1. request[q] \in [at : {"signs"}, user : Accounts, stale : BOOLEAN]
      BY <1>1, <1>3, RequestKinds
    <2>2. /\ late \in [at : {"signs"}, user : Accounts, stale : BOOLEAN]
          /\ late.at = "signs" /\ late.user = request[q].user
      BY ONLY <2>1
    <2>3. late \in Request  BY <2>2 DEF Request
    <2> QED  BY <1>1, <1>3, <2>2, <2>3
  <1> QED  BY <1>1, <1>2, <1>3

\* What a row is after an update
LEMMA ChangedTyped ==
    ASSUME NEW row \in User, NEW c \in Change
    PROVE  /\ Changed(row, c) \in User /\ Changed(row, c).login = row.login
           /\ Changed(row, c).role = IF c.role = "same" THEN row.role ELSE c.role
           /\ Changed(row, c).active = (c.active = "yes" \/ (c.active = "same" /\ row.active))
           /\ Changed(row, c).status = IF c.status = "same" THEN row.status ELSE c.status
  <1> DEFINE x == IF c.role = "same" THEN row.role ELSE c.role
             y == c.active = "yes" \/ (c.active = "same" /\ row.active)
             z == IF c.status = "same" THEN row.status ELSE c.status
  <1>1. x \in {"admin", "user"} /\ y \in BOOLEAN /\ z \in Statuses  BY DEF User, Change
  <1>2. Changed(row, c) = [row EXCEPT !.role = x, !.active = y, !.status = z]  BY DEF Changed
  <1> HIDE DEF x, y, z
  <1>3. Changed(row, c) \in User  BY <1>1, <1>2 DEF User
  <1>4. /\ Changed(row, c).login = row.login /\ Changed(row, c).role = x
        /\ Changed(row, c).active = y /\ Changed(row, c).status = z
    BY <1>2 DEF User
  <1> QED  BY <1>3, <1>4 DEF x, y, z

\* What an update does to the tables
LEMMA UpdateStep ==
    ASSUME Typed, NEW r \in Requests, Update(r)
    PROVE  /\ request[r].user \in Accounts /\ request[r].change \in Change
           /\ DOMAIN users' = DOMAIN users
           /\ \A a \in DOMAIN users :
                 users'[a] = IF a = request[r].user THEN Changed(users[a], request[r].change) ELSE users[a]
  <1>1. request[r] \in Request /\ request[r].at = "updates"
    BY DEF Update, At, Typed, RequestTyped
  <1>2. request[r].user \in Accounts /\ request[r].change \in Change  BY <1>1, RequestKinds
  <1>3. DOMAIN users' = DOMAIN users  BY DEF Update
  <1>4. ASSUME NEW a \in DOMAIN users
        PROVE  users'[a] = IF a = request[r].user THEN Changed(users[a], request[r].change) ELSE users[a]
    <2>1. CASE a # request[r].user  BY <2>1 DEF Update
    <2>2. CASE a = request[r].user  BY <2>2 DEF Update
    <2> QED  BY <2>1, <2>2
  <1> QED  BY <1>2, <1>3, <1>4

\* What changes or removes an account, and ends its sessions
LEMMA ChangesKeepTypes ==
    ASSUME Typed, NEW r \in Requests, Update(r) \/ RevokeAllUserSessions(r) \/ DeleteUser(r)
    PROVE  Typed'
  <1> USE DEF Typed
  <1>1. UNCHANGED <<cleaner, limiter, nextSession, mode, nextUser>>
    BY DEF Update, RevokeAllUserSessions, DeleteUser
  <1>2. request[r] \in Request /\ request[r].user \in Accounts
        /\ request[r].at \in {"updates", "revokes", "deletes", "clears"}
    <2>1. request[r] \in Request /\ request[r].at \in {"updates", "revokes", "deletes", "clears"}
      BY DEF RequestTyped, Update, RevokeAllUserSessions, DeleteUser, At
    <2> QED  BY <2>1, RequestKinds
  <1> DEFINE revokes == [at |-> "revokes", user |-> request[r].user]
             clears == [at |-> "clears", user |-> request[r].user]
  <1>3. /\ revokes \in Request /\ revokes.at = "revokes"
        /\ clears \in Request /\ clears.at = "clears"
        /\ Idle \in Request /\ Idle.at = "idle"
    BY <1>2 DEF Request, Idle
  <1>4. CASE Update(r)
    <2>1. UsersTyped'
      <3>1. /\ request[r].change \in Change /\ DOMAIN users' = DOMAIN users
            /\ \A a \in DOMAIN users :
                 users'[a] = IF a = request[r].user THEN Changed(users[a], request[r].change) ELSE users[a]
        BY <1>4, UpdateStep
      <3>2. ASSUME NEW a \in DOMAIN users
            PROVE  users'[a] \in User /\ users'[a].login = users[a].login
        <4>1. users[a] \in User  BY DEF UsersTyped
        <4> QED  BY <3>1, <4>1, ChangedTyped
      <3> QED  BY <1>1, <3>1, <3>2 DEF UsersTyped
    <2>2. SessionsTyped'
      <3>1. CASE UNCHANGED sessions  BY <1>1, <3>1 DEF SessionsTyped
      <3>2. CASE \E S : sessions' = Outdated(S)  BY <1>1, <3>2, RevokedTyped
      <3> QED  BY <1>4, <3>1, <3>2 DEF Update
    <2>3. RequestTyped'
      <3> DEFINE a == request[r].user
      <3>1. PICK o \in {Overtaken(a), request}, held \in {revokes, Idle} :
                request' = [o EXCEPT ![r] = held]
        BY <1>4 DEF Update
      <3> HIDE DEF a, revokes
      <3>2. held \in Request /\ held.at \notin {"checked", "signs"}  BY <1>3
      <3>3. /\ o \in [Requests -> Request]
            /\ \A q \in Requests : /\ o[q].at = request[q].at
                                   /\ o[q].at \in {"checked", "signs"} => o[q].user = request[q].user
        <4>1. request \in [Requests -> Request]  BY DEF RequestTyped
        <4> QED  BY <4>1, OvertakenTyped
      <3>4. /\ request' \in [Requests -> Request] /\ request'[r] = held
            /\ \A q \in Requests \ {r} : request'[q] = o[q]
        BY <3>1, <3>2, <3>3
      <3> QED  BY <1>1, <3>2, <3>3, <3>4 DEF RequestTyped, At
    <2> QED  BY <1>1, <2>1, <2>2, <2>3 DEF CleanerTyped, LimiterTyped
  <1>5. CASE RevokeAllUserSessions(r) \/ DeleteUser(r)
    <2>1. Becomes(r, clears) \/ Becomes(r, Idle)  BY <1>5 DEF RevokeAllUserSessions, DeleteUser
    <2> HIDE DEF clears
    <2>2. RequestTyped'  BY <1>1, <1>3, <2>1, HandlerTyped
    <2>3. SessionsTyped'
      <3>1. CASE UNCHANGED sessions  BY <1>1, <3>1 DEF SessionsTyped
      <3>2. CASE \E S : sessions' = Revoked(S)  BY <1>1, <3>2, RevokedTyped
      <3> QED  BY <1>5, <3>1, <3>2 DEF RevokeAllUserSessions, DeleteUser
    <2>4. UsersTyped'
      <3>1. CASE UNCHANGED users  BY <1>1, <3>1 DEF UsersTyped
      <3>2. CASE \E a : users' = [b \in DOMAIN users \ {a} |-> users[b]]
        BY <1>1, <3>2 DEF UsersTyped
      <3> QED  BY <1>5, <3>1, <3>2 DEF RevokeAllUserSessions, DeleteUser
    <2> QED  BY <1>1, <2>2, <2>3, <2>4 DEF CleanerTyped, LimiterTyped
  <1> QED  BY <1>4, <1>5

\* Time, and attempts that are turned away
LEMMA TimeTyped ==
    ASSUME Typed,
           \/ \E l \in {"login", "register"}, ip \in Addresses : TurnedAway(l, ip) \/ TimePasses(l, ip)
           \/ \E s \in DOMAIN sessions : Unauthorized(s) \/ (Grows(s) /\ KeepsAccounts)
    PROVE  Typed'
  <1> USE DEF Typed, KeepsAccounts
  <1>1. ASSUME NEW l \in {"login", "register"}, NEW ip \in Addresses,
               TurnedAway(l, ip) \/ TimePasses(l, ip)
        PROVE  Typed'
    <2>1. limiter[l][ip] \in Attempts  BY DEF LimiterTyped
    <2>2. PICK a \in Attempts : Limits(l, ip, a)
      BY <1>1, <2>1, AttemptsTyped DEF TurnedAway, TimePasses
    <2>3. LimiterTyped'  BY <2>2, LimitTyped
    <2>4. UNCHANGED <<cleaner, sessions, nextSession, mode, users, nextUser, request>>
      BY <1>1 DEF TurnedAway, TimePasses
    <2> QED  BY <2>3, <2>4 DEF CleanerTyped, SessionsTyped, UsersTyped, RequestTyped, At
  <1>2. ASSUME NEW s \in DOMAIN sessions, Unauthorized(s) \/ (Grows(s) /\ KeepsAccounts)
        PROVE  Typed'
    <2>1. UNCHANGED <<cleaner, nextSession, mode, users, nextUser, limiter, request>>
      BY <1>2 DEF Unauthorized, Grows
    <2>2. SessionsTyped'
      <3>1. CASE Unauthorized(s)  BY <2>1, <3>1, RevokedTyped DEF Unauthorized
      <3>2. CASE Grows(s)
        <4>1. PICK age \in {"idle", "expired"} : sessions' = [sessions EXCEPT ![s].age = age]
          BY <3>2 DEF Grows
        <4>2. ASSUME NEW x \in DOMAIN sessions
              PROVE  sessions'[x] \in Session /\ sessions'[x].user = sessions[x].user
          <5>1. sessions[x] \in Session  BY DEF SessionsTyped
          <5>2. sessions'[x] \in {sessions[x], [sessions[x] EXCEPT !.age = age]}  BY <4>1
          <5> QED  BY <5>1, <5>2 DEF Session
        <4> QED  BY <2>1, <4>1, <4>2 DEF SessionsTyped
      <3> QED  BY <1>2, <3>1, <3>2
    <2> QED  BY <2>1, <2>2 DEF CleanerTyped, UsersTyped, LimiterTyped, RequestTyped, At
  <1> QED  BY <1>1, <1>2

LEMMA CleanupTyped == ASSUME Typed, Cleanup /\ KeepsAccounts PROVE Typed'
  <1> USE DEF Typed, KeepsAccounts
  <1>1. /\ cleaner \in Cleaner /\ cleaner.channel \in 0 .. MaxStarts
        /\ MaxStarts \in Nat /\ (cleaner.running => cleaner.channel \in Loops)
    <2>1. cleaner.channel \in 0 .. MaxStarts  BY DEF CleanerTyped, Cleaner
    <2>2. cleaner.running => cleaner.channel \in Loops  BY <2>1 DEF CleanerTyped, Loops
    <2> QED  BY <2>1, <2>2, SessionsOK DEF CleanerTyped
  <1>2. CASE StartCleanup
    <2>1. cleaner.channel + 1 \in Loops
      <3>1. {l \in Loops : l <= cleaner.channel} = 1 .. cleaner.channel  BY <1>1 DEF Loops
      <3>2. \A k \in Nat : Cardinality(1 .. k) = k  BY FS_Interval
      <3>3. cleaner.channel \in Nat  BY <1>1
      <3>4. Started = cleaner.channel  BY <3>1, <3>2, <3>3 DEF Started
      <3> QED  BY <1>1, <1>2, <3>4 DEF StartCleanup, Loops
    <2>2. cleaner' = [cleaner EXCEPT !.running = TRUE, !.channel = cleaner.channel + 1,
                         !.loops[cleaner.channel + 1] = [at |-> "enters", channel |-> 0]]
      BY <1>2 DEF StartCleanup
    <2>3. cleaner.channel + 1 \in 0 .. MaxStarts /\ 0 \in 0 .. MaxStarts /\ cleaner.channel + 1 > 0
      BY <1>1, <2>1 DEF Loops
    <2>4. CleanerTyped'
      <3> DEFINE channels == 0 .. MaxStarts
                 k == cleaner.channel + 1
      <3>1. k \in channels /\ 0 \in channels /\ k \in Loops /\ k > 0  BY <2>1, <2>3
      <3>2. cleaner \in [running : BOOLEAN, channel : channels, closed : SUBSET Loops,
                         loops : [Loops -> [at : {"gone", "enters", "waits", "sweeps"}, channel : channels]]]
        BY <1>1 DEF Cleaner
      <3>3. cleaner' = [cleaner EXCEPT !.running = TRUE, !.channel = k,
                           !.loops[k] = [at |-> "enters", channel |-> 0]]
        BY <2>2
      <3> HIDE DEF channels, k
      <3>4. /\ cleaner' \in [running : BOOLEAN, channel : channels, closed : SUBSET Loops,
                         loops : [Loops -> [at : {"gone", "enters", "waits", "sweeps"}, channel : channels]]]
            /\ cleaner'.channel = k
        BY ONLY <3>1, <3>2, <3>3
      <3> QED  BY <3>1, <3>4 DEF CleanerTyped, Cleaner, channels
    <2>5. UNCHANGED <<sessions, nextSession>>  BY <1>2 DEF StartCleanup
    <2> QED  BY <2>4, <2>5 DEF SessionsTyped, UsersTyped, LimiterTyped, RequestTyped, At
  <1>3. CASE StopCleanup
    <2>1. CleanerTyped'  BY <1>1, <1>3 DEF StopCleanup, CleanerTyped, Cleaner
    <2> QED  BY <1>3, <2>1 DEF StopCleanup, SessionsTyped, UsersTyped, LimiterTyped, RequestTyped, At
  <1>4. ASSUME NEW l \in Loops, CleanupRuns(l) PROVE Typed'
    <2> DEFINE channels == 0 .. MaxStarts
    <2>1. cleaner.channel \in channels /\ 0 \in channels  BY <1>1
    <2>2. cleaner \in [running : BOOLEAN, channel : channels, closed : SUBSET Loops,
                       loops : [Loops -> [at : {"gone", "enters", "waits", "sweeps"}, channel : channels]]]
      BY <1>1 DEF Cleaner
    <2>3. \/ cleaner' = [cleaner EXCEPT !.loops[l] = [at |-> "waits", channel |-> cleaner.channel]]
          \/ cleaner' = [cleaner EXCEPT !.loops[l].at = "sweeps"]
          \/ cleaner' = [cleaner EXCEPT !.loops[l].at = "enters"]
          \/ cleaner' = [cleaner EXCEPT !.loops[l] = [at |-> "gone", channel |-> 0], !.running = FALSE]
      BY <1>4 DEF CleanupRuns, Waits, Ticks, Sweeps, Ends, Gone
    <2> HIDE DEF channels
    <2>4. /\ cleaner' \in [running : BOOLEAN, channel : channels, closed : SUBSET Loops,
                       loops : [Loops -> [at : {"gone", "enters", "waits", "sweeps"}, channel : channels]]]
          /\ cleaner'.channel = cleaner.channel /\ cleaner'.running \in {cleaner.running, FALSE}
      <3> DEFINE Loop == [at : {"gone", "enters", "waits", "sweeps"}, channel : channels]
      <3>1. PICK loop \in Loop : \/ cleaner' = [cleaner EXCEPT !.loops[l] = loop]
                                 \/ cleaner' = [cleaner EXCEPT !.loops[l] = loop, !.running = FALSE]
        <4>1. cleaner.loops[l] \in Loop  BY <2>2
        <4>2. CASE cleaner' = [cleaner EXCEPT !.loops[l] = [at |-> "waits", channel |-> cleaner.channel]]
          BY <2>1, <4>2
        <4>3. CASE cleaner' = [cleaner EXCEPT !.loops[l].at = "sweeps"]
          <5>1. [cleaner.loops[l] EXCEPT !.at = "sweeps"] \in Loop  BY <4>1
          <5> QED  BY <4>3, <5>1
        <4>4. CASE cleaner' = [cleaner EXCEPT !.loops[l].at = "enters"]
          <5>1. [cleaner.loops[l] EXCEPT !.at = "enters"] \in Loop  BY <4>1
          <5> QED  BY <4>4, <5>1
        <4>5. CASE cleaner' = [cleaner EXCEPT !.loops[l] = [at |-> "gone", channel |-> 0], !.running = FALSE]
          BY <2>1, <4>5
        <4> QED  BY <2>3, <4>2, <4>3, <4>4, <4>5
      <3> HIDE DEF Loop
      <3>2. cleaner \in [running : BOOLEAN, channel : channels, closed : SUBSET Loops, loops : [Loops -> Loop]]
        BY <2>2 DEF Loop
      <3>3. /\ cleaner' \in [running : BOOLEAN, channel : channels, closed : SUBSET Loops, loops : [Loops -> Loop]]
            /\ cleaner'.channel = cleaner.channel /\ cleaner'.running \in {cleaner.running, FALSE}
        BY ONLY <3>1, <3>2, l \in Loops
      <3> QED  BY <3>3 DEF Loop
    <2>5. CleanerTyped'  BY <2>4 DEF CleanerTyped, Cleaner, channels
    <2>6. SessionsTyped'
      <3>1. CASE Sweeps(l)  BY <3>1 DEF Sweeps, SessionsTyped
      <3>2. CASE UNCHANGED <<sessions, nextSession>>  BY <3>2 DEF SessionsTyped
      <3> QED  BY <1>4, <3>1, <3>2 DEF CleanupRuns, Waits, Ticks, Ends
    <2> QED  BY <2>5, <2>6 DEF UsersTyped, LimiterTyped, RequestTyped, At
  <1> QED  BY <1>2, <1>3, <1>4 DEF Cleanup

LEMMA CrashTyped == ASSUME Typed, Crash PROVE Typed'
  <1> USE DEF Typed
  <1>1. Idle \in Request /\ Idle.at = "idle"  BY DEF Request, Idle
  <1>2. RequestTyped'  BY <1>1 DEF Crash, RequestTyped, At
  <1>3. NoAttempts \in Attempts  BY AttemptsOK DEF NoAttempts, Attempts, Times
  <1>4. LimiterTyped'  BY <1>3 DEF Crash, LimiterTyped
  <1>5. CleanerTyped'
    <2>1. 0 \in 0 .. MaxStarts  BY SessionsOK
    <2>2. [l \in Loops |-> Gone] \in [Loops -> [at : {"gone", "enters", "waits", "sweeps"}, channel : 0 .. MaxStarts]]
      BY <2>1 DEF Gone
    <2> QED  BY <2>2 DEF Crash, CleanerTyped, Cleaner
  <1> QED  BY <1>2, <1>4, <1>5 DEF Crash, SessionsTyped, UsersTyped

LEMMA StepTyped == Typed /\ [Next]_vars => Typed'
  <1> SUFFICES ASSUME Typed, [Next]_vars PROVE Typed'  OBVIOUS
  <1>1. CASE UNCHANGED vars
    BY <1>1 DEF vars, Typed, CleanerTyped, SessionsTyped, UsersTyped, LimiterTyped, RequestTyped, At
  <1>2. ASSUME NEW r \in Requests, Arrives(r) \/ GoesOn(r) PROVE Typed'
    BY <1>2, LoginTyped, SignsTyped, CreatesTyped, AsksTyped, ChangesKeepTypes DEF Arrives, GoesOn
  <1> QED
    BY <1>1, <1>2, TimeTyped, CleanupTyped, CrashTyped DEF Next, KeepsAccounts

LEMMA InitTyped == ASSUME SessionsInit, mode \in Modes, UsersTyped,
                          limiter = [l \in {"login", "register"} |-> [ip \in Addresses |-> NoAttempts]],
                          request = [r \in Requests |-> Idle]
                   PROVE  Typed
  <1>1. Idle \in Request /\ Idle.at = "idle"  BY DEF Request, Idle
  <1>2. RequestTyped  BY <1>1 DEF RequestTyped, At
  <1>3. NoAttempts \in Attempts  BY AttemptsOK DEF NoAttempts, Attempts, Times
  <1>4. LimiterTyped  BY <1>3 DEF LimiterTyped
  <1>5. CleanerTyped
    <2>1. 0 \in 0 .. MaxStarts  BY SessionsOK
    <2>2. [l \in Loops |-> Gone] \in [Loops -> [at : {"gone", "enters", "waits", "sweeps"}, channel : 0 .. MaxStarts]]
      BY <2>1 DEF Gone
    <2> QED  BY <2>1, <2>2 DEF SessionsInit, CleanerTyped, Cleaner
  <1>6. SessionsTyped
    <2>1. nextSession = 1 /\ DOMAIN sessions = {}  BY DEF SessionsInit
    <2> QED  BY <2>1, SessionsOK DEF SessionsTyped
  <1> QED  BY <1>2, <1>4, <1>5, <1>6 DEF Typed

LEMMA MCInitTyped == MCInit => Typed
  <1> SUFFICES ASSUME MCInit PROVE Typed  OBVIOUS
  <1>1. mode \in Modes  BY ScenariosOK DEF MCInit
  <1>2. UsersTyped
    <2>1. CASE May("founded")
      <3>1. 1 \in Accounts /\ Founded  BY <2>1, ScenariosOK DEF MCInit, May
      <3>2. DOMAIN users = {1} /\ users[1] \in User  BY <3>1, LoginsOK DEF Founded, User, Statuses
      <3> QED  BY <1>1, <3>1, <3>2 DEF UsersTyped, Founded
    <2>2. CASE ~May("founded")
      <3>1. DOMAIN users = {} /\ nextUser = 1  BY <2>2 DEF MCInit
      <3> QED  BY <1>1, <3>1 DEF UsersTyped
    <2> QED  BY <2>1, <2>2
  <1> QED  BY <1>1, <1>2, InitTyped DEF MCInit

\* A step of a scenario is a step of the handlers, the job and time.
LEMMA ScenarioStep == MCNext => Next /\ UNCHANGED scenario
  <1> SUFFICES ASSUME MCNext PROVE Next /\ UNCHANGED scenario  OBVIOUS
  <1>1. Handlers \subseteq Requests  BY ScenariosOK DEF Handlers
  <1> QED  BY <1>1 DEF MCNext, Next, Asked, Guessed, Arrives, GoesOn, KeepsAccounts, Cleanup

-------------------------------------------------------------------------------
(* Stale sessions *)

\* An update that ends the account's sessions
EndsAll(r) == Update(r) /\ (request[r].change.password \/ request[r].change.active = "no")

\* What becomes of a session, and where one comes from
Survives(s) ==
    /\ s \in DOMAIN sessions /\ sessions'[s].user = sessions[s].user
    /\ sessions[s].revoked => sessions'[s].revoked
    /\ \/ sessions'[s].stale = sessions[s].stale
       \/ /\ sessions'[s].stale = "since"
          /\ \E r \in Requests : EndsAll(r) /\ sessions[s].user = request[r].user
Begun(s) ==
    \E r \in Requests :
       /\ LoginSucceeds(r) \/ Signs(r)
       /\ sessions'[s].user = request[r].user
       /\ sessions'[s].stale = IF request[r].stale THEN "born" ELSE "no"

LEMMA SessionsChange ==
    ASSUME Typed, [Next]_vars, NEW s \in DOMAIN sessions'
    PROVE  Survives(s) \/ Begun(s)
  <1>1. CASE s \in DOMAIN sessions /\ sessions'[s] = sessions[s]  BY <1>1 DEF Survives
  <1>2. CASE UNCHANGED sessions  BY <1>1, <1>2
  <1>3. ASSUME NEW S, sessions' = Revoked(S) PROVE Survives(s)
    <2>1. s \in DOMAIN sessions  BY <1>3 DEF Revoked
    <2>2. sessions[s] \in Session  BY <2>1 DEF Typed, SessionsTyped
    <2>3. sessions'[s] = [sessions[s] EXCEPT !.revoked = sessions[s].revoked \/ s \in S]
      BY <1>3, <2>1 DEF Revoked
    <2> QED  BY <2>1, <2>2, <2>3 DEF Survives, Session
  <1>4. ASSUME NEW r \in Requests, Update(r) PROVE Survives(s)
    <2>1. CASE UNCHANGED sessions  BY <2>1 DEF Survives
    <2>2. CASE EndsAll(r) /\ sessions' = Outdated(OpenOf(request[r].user))
      <3>1. s \in DOMAIN sessions  BY <2>2 DEF Outdated
      <3>2. sessions[s] \in Session  BY <3>1 DEF Typed, SessionsTyped
      <3>3. sessions'[s] = [sessions[s] EXCEPT !.stale =
                               IF s \in OpenOf(request[r].user) THEN "since" ELSE sessions[s].stale]
        BY <2>2, <3>1 DEF Outdated
      <3>4. sessions'[s].user = sessions[s].user /\ sessions'[s].revoked = sessions[s].revoked
            /\ sessions'[s].stale = IF s \in OpenOf(request[r].user) THEN "since" ELSE sessions[s].stale
        BY <3>2, <3>3 DEF Session
      <3>5. s \in OpenOf(request[r].user) => sessions[s].user = request[r].user  BY DEF OpenOf
      <3> QED  BY <2>2, <3>1, <3>4, <3>5 DEF Survives
    <2> QED  BY <1>4, <2>1, <2>2 DEF Update, EndsAll
  <1>5. ASSUME NEW r \in Requests, LoginSucceeds(r) \/ Signs(r) PROVE Survives(s) \/ Begun(s)
    <2> DEFINE row == [user |-> request[r].user, revoked |-> FALSE, age |-> "fresh",
                       stale |-> IF request[r].stale THEN "born" ELSE "no"]
    <2>1. sessions' = Inserted(sessions, nextSession, row)
      BY <1>5 DEF LoginSucceeds, Signs, CreateSession
    <2>2. row.user = request[r].user /\ row.stale = IF request[r].stale THEN "born" ELSE "no"
      OBVIOUS
    <2> HIDE DEF row
    <2>3. \/ sessions'[s] = row
          \/ s \in DOMAIN sessions /\ sessions'[s] = sessions[s]
      BY <2>1 DEF Inserted
    <2> QED  BY <1>1, <1>5, <2>2, <2>3 DEF Begun
  <1>6. ASSUME NEW x \in DOMAIN sessions, Grows(x) PROVE Survives(s)
    <2>1. PICK age \in {"idle", "expired"} : sessions' = [sessions EXCEPT ![x].age = age]
      BY <1>6 DEF Grows
    <2>2. s \in DOMAIN sessions /\ sessions'[s] \in {sessions[s], [sessions[s] EXCEPT !.age = age]}
      BY <2>1
    <2>3. sessions[s] \in Session  BY <2>2 DEF Typed, SessionsTyped
    <2> QED  BY <2>2, <2>3 DEF Survives, Session
  <1>7. CASE Cleanup
    <2>1. UNCHANGED sessions \/ (s \in DOMAIN sessions /\ sessions'[s] = sessions[s])
      BY <1>7 DEF Cleanup, StartCleanup, StopCleanup, CleanupRuns, Waits, Ticks, Sweeps, Ends
    <2> QED  BY <1>1, <1>2, <2>1
  <1>8. ASSUME NEW r \in Requests, Arrives(r) \/ GoesOn(r)
        PROVE  \/ UNCHANGED sessions \/ (\E S : sessions' = Revoked(S))
               \/ Update(r) \/ LoginSucceeds(r) \/ Signs(r)
    BY <1>8 DEF Arrives, GoesOn, Login, LoginFails, Registered, CreateBootstrapAdmin, Creates,
        RegisterUser, BootstrapSetup, Authenticate, Taken, Logout, Declined, ChangePassword,
        AskCreate, AskUpdate, AskDelete, RevokeAllUserSessions, DeleteUser
  <1>9. ASSUME NEW x \in DOMAIN sessions, Unauthorized(x) PROVE \E S : sessions' = Revoked(S)
    BY <1>9 DEF Unauthorized
  <1>10. Crash \/ UNCHANGED vars \/ (\E l \in {"login", "register"}, ip \in Addresses : TurnedAway(l, ip) \/ TimePasses(l, ip))
            => UNCHANGED sessions
    BY DEF Crash, vars, TurnedAway, TimePasses
  <1> QED
    BY <1>2, <1>3, <1>4, <1>5, <1>6, <1>7, <1>8, <1>9, <1>10 DEF Next

\* Other handlers keep what they hold, but for logins of an account whose
\* sessions an update ends.
LEMMA OthersKept ==
    ASSUME Typed, NEW r \in Requests, Arrives(r) \/ GoesOn(r), NEW q \in Requests \ {r}
    PROVE  \/ request'[q] = request[q]
           \/ EndsAll(r) /\ request'[q] = Overtaken(request[r].user)[q]
  <1>0. request \in [Requests -> Request]  BY DEF Typed, RequestTyped
  <1>1. CASE UNCHANGED request  BY <1>1
  <1>2. CASE ~Update(r)
    <2>1. CASE \E held : Becomes(r, held)  BY <1>0, <2>1 DEF Becomes
    <2> QED
      BY <1>1, <1>2, <2>1 DEF Arrives, GoesOn, Login, LoginFails, LoginSucceeds, Registered, Signs,
          CreateBootstrapAdmin, Creates, RegisterUser, BootstrapSetup, Authenticate, Taken, Logout,
          Declined, ChangePassword, AskCreate, AskUpdate, AskDelete, RevokeAllUserSessions, DeleteUser
  <1>3. CASE Update(r)
    <2>1. Overtaken(request[r].user) \in [Requests -> Request]  BY <1>0, OvertakenTyped
    <2> DEFINE o == Overtaken(request[r].user)
    <2>2. PICK held : \/ request' = [request EXCEPT ![r] = held]
                      \/ EndsAll(r) /\ request' = [o EXCEPT ![r] = held]
      BY <1>3 DEF Update, EndsAll
    <2> HIDE DEF o
    <2>3. o \in [Requests -> Request]  BY <2>1 DEF o
    <2>4. request'[q] = request[q] \/ (EndsAll(r) /\ request'[q] = o[q])  BY <1>0, <2>2, <2>3
    <2> QED  BY <2>4 DEF o
  <1> QED  BY <1>2, <1>3

\* What a handler does in a scenario without changes of accounts
Quiet(r) ==
    \/ Arrives(r) \/ LoginFails(r) \/ LoginSucceeds(r) \/ Logout(r) \/ Declined(r)
    \/ Registered(r) \/ Taken(r) \/ Signs(r)

\* The handlers' steps in a scenario
LEMMA ScenarioSteps ==
    ASSUME [MCNext]_MCVars, scenario \in Scenarios
    PROVE  \/ UNCHANGED <<request, users>>
           \/ May("crash") /\ Crash
           \/ \E r \in Requests : /\ scenario.serial => r \in Handlers
                                  /\ Quiet(r) \/ (May("ask") /\ (Arrives(r) \/ GoesOn(r)))
  <1>1. Handlers \subseteq Requests  BY ScenariosOK DEF Handlers
  <1>2. CASE UNCHANGED MCVars  BY <1>2 DEF MCVars, vars
  <1>3. CASE May("ask") /\ \E r \in Handlers : Asked(r)  BY <1>1, <1>3 DEF Asked
  <1>4. CASE May("guess") /\ \E r \in Requests : Guessed(r)
    <2>1. ~scenario.serial  BY <1>4, ScenariosOK DEF May
    <2>2. PICK r \in Requests : Guessed(r)  BY <1>4
    <2>3. Quiet(r)  BY <2>2 DEF Guessed, Quiet, Arrives
    <2> QED  BY <1>4, <2>1, <2>3 DEF May
  <1>5. CASE \E l \in {"login", "register"}, ip \in Addresses : TurnedAway(l, ip) \/ TimePasses(l, ip)
    BY <1>5 DEF TurnedAway, TimePasses
  <1>6. CASE \E r \in Handlers : \/ Arrives(r) /\ made' <= 2
                                 \/ LoginFails(r) \/ LoginSucceeds(r) \/ Logout(r) \/ Declined(r)
    BY <1>1, <1>6 DEF Quiet
  <1>7. CASE \E s \in DOMAIN sessions : Unauthorized(s) \/ (Grows(s) /\ KeepsAccounts)
    BY <1>7 DEF Unauthorized, KeepsAccounts
  <1>8. CASE KeepsAccounts  BY <1>8 DEF KeepsAccounts
  <1> QED  BY <1>2, <1>3, <1>4, <1>5, <1>6, <1>7, <1>8 DEF MCNext

\* A stale session that is open is about to be revoked; where nobody changes an
\* account, no session is stale.
Owed ==
    \A s \in DOMAIN sessions :
        IsOpen(s) /\ sessions[s].stale = "since" =>
            \E r \in Requests : At(r, "revokes") /\ request[r].user = sessions[s].user
Changing == {"updates", "revokes", "deletes", "clears"}
NoChanges ==
    /\ \A r \in Requests : request[r].at \notin Changing
    /\ \A s \in DOMAIN sessions : sessions[s].stale # "since"

\* A scenario without changes makes none.
LEMMA NoChangesKept ==
    ASSUME Typed, scenario \in Scenarios, NoChanges, [MCNext]_MCVars, "ask" \notin scenario.may
    PROVE  NoChanges'
  <1>1. [Next]_vars /\ request \in [Requests -> Request]
    BY ScenarioStep DEF MCVars, Typed, RequestTyped
  <1>2. ~\E r \in Requests : EndsAll(r)  BY DEF NoChanges, Changing, EndsAll, Update, At
  <1>3. ASSUME NEW s \in DOMAIN sessions' PROVE sessions'[s].stale # "since"
    <2>1. CASE Survives(s)  BY <1>2, <2>1 DEF Survives, NoChanges
    <2>2. CASE Begun(s)  BY <2>2 DEF Begun
    <2> QED  BY <1>1, <2>1, <2>2, SessionsChange
  <1>4. ASSUME NEW q \in Requests PROVE request'[q].at \notin Changing
    <2>1. CASE request'[q] = request[q]  BY <2>1 DEF NoChanges
    <2>2. CASE Crash  BY <2>2 DEF Crash, Idle, Changing
    <2>3. ASSUME NEW held, Becomes(q, held), held.at \notin Changing
          PROVE  request'[q].at \notin Changing
      BY <1>1, <2>3 DEF Becomes
    <2>4. ASSUME NEW r \in Requests, Quiet(r) PROVE request'[q].at \notin Changing
      <3> DEFINE Harmless == \E held : Becomes(r, held) /\ held.at \notin Changing
      <3>1. UNCHANGED request \/ Harmless
        <4>1. CASE Arrives(r)
          <5>1. CASE \E ip \in Addresses, right \in BOOLEAN : Login(r, ip, right)
            BY <5>1 DEF Login, Changing
          <5>2. CASE \E ip \in Addresses, login \in Logins : RegisterUser(r, ip, login)
            BY <5>2 DEF RegisterUser, Changing
          <5>3. CASE BootstrapSetup(r)
            <6>1. [at |-> "setup"].at \notin Changing  BY DEF Changing
            <6> QED  BY <5>3, <6>1 DEF BootstrapSetup
          <5>4. ASSUME NEW s, Authenticate(r, s) PROVE Harmless
            <6> DEFINE held == [at |-> "known", actor |-> sessions[s].user, session |-> s,
                                admin |-> users[sessions[s].user].role = "admin"]
            <6>1. Becomes(r, held)  BY <5>4 DEF Authenticate
            <6>2. held.at = "known"  OBVIOUS
            <6> QED  BY <6>1, <6>2 DEF Changing
          <5> QED  BY <4>1, <5>1, <5>2, <5>3, <5>4 DEF Arrives
        <4>2. CASE LoginFails(r) \/ LoginSucceeds(r) \/ Logout(r) \/ Declined(r) \/ Taken(r) \/ Signs(r)
          <5>1. Becomes(r, Idle)  BY <4>2 DEF LoginFails, LoginSucceeds, Logout, Declined, Taken, Signs
          <5> QED  BY <5>1 DEF Idle, Changing
        <4>3. CASE Registered(r)
          <5>1. PICK held \in {Idle, [at |-> "signs", user |-> nextUser, stale |-> FALSE]} : Becomes(r, held)
            BY <4>3 DEF Registered
          <5> QED  BY <5>1 DEF Idle, Changing
        <4> QED  BY <2>4, <4>1, <4>2, <4>3 DEF Quiet
      <3>2. ASSUME NEW held, Becomes(r, held), r # q PROVE request'[q] = request[q]
        BY <1>1, <3>2 DEF Becomes
      <3> QED  BY <2>1, <2>3, <3>1, <3>2
    <2> QED  BY <2>1, <2>2, <2>4, ScenarioSteps DEF May
  <1> QED  BY <1>3, <1>4 DEF NoChanges

LEMMA OwedKept ==
    ASSUME Typed, Owed, "ask" \notin scenario.may => NoChanges, scenario \in Scenarios,
           [MCNext]_MCVars
    PROVE  Owed'
  <1> SUFFICES ASSUME NEW s \in DOMAIN sessions', ~sessions'[s].revoked, sessions'[s].stale = "since"
               PROVE  \E r \in Requests : request'[r].at = "revokes" /\ request'[r].user = sessions'[s].user
    BY DEF Owed, IsOpen, At
  <1>1. [Next]_vars /\ request \in [Requests -> Request]
    BY ScenarioStep DEF MCVars, Typed, RequestTyped
  <1>2. Survives(s)
    <2>1. ~Begun(s)  BY DEF Begun
    <2> QED  BY <1>1, <2>1, SessionsChange
  <1>3. ASSUME NEW r \in Requests, EndsAll(r), sessions[s].user = request[r].user
        PROVE  request'[r].at = "revokes" /\ request'[r].user = sessions'[s].user
    <2> DEFINE a == request[r].user
               held == [at |-> "revokes", user |-> a]
    <2>1. Overtaken(a) \in [Requests -> Request]  BY <1>1, OvertakenTyped
    <2>2. request' = [Overtaken(a) EXCEPT ![r] = held]  BY <1>3 DEF EndsAll, Update
    <2>3. request'[r] = held  BY <2>1, <2>2
    <2> QED  BY <1>2, <1>3, <2>3 DEF Survives
  <1>4. CASE sessions[s].stale = "since"
    <2>1. ~sessions[s].revoked /\ s \in DOMAIN sessions  BY <1>2 DEF Survives
    <2>2. PICK r \in Requests : At(r, "revokes") /\ request[r].user = sessions[s].user
      BY <1>4, <2>1 DEF Owed, IsOpen
    <2>3. request[r].at = "revokes"  BY <2>2 DEF At
    <2>4. ~RevokeAllUserSessions(r)
      <3> SUFFICES ASSUME RevokeAllUserSessions(r) PROVE FALSE  OBVIOUS
      <3>1. s \in AllOf(request[r].user)  BY <2>1, <2>2 DEF AllOf, OpenOf, IsOpen
      <3>2. sessions[s] \in Session  BY <2>1 DEF Typed, SessionsTyped
      <3>3. sessions'[s] = [sessions[s] EXCEPT !.revoked = sessions[s].revoked \/ s \in AllOf(request[r].user)]
        BY <2>1 DEF RevokeAllUserSessions, Revoked
      <3> QED  BY <3>1, <3>2, <3>3 DEF Session
    <2>5. ~Arrives(r) /\ ~GoesOn(r)
      BY <2>3, <2>4 DEF Arrives, GoesOn, At, Begins, Login, LoginFails, LoginSucceeds, Registered,
          Signs, CreateBootstrapAdmin, Creates, RegisterUser, BootstrapSetup, Authenticate, Taken,
          Logout, Declined, ChangePassword, AskCreate, AskUpdate, AskDelete, Administers, Update,
          DeleteUser
    <2>6. ~May("crash")  BY <1>4, <2>1, ScenariosOK DEF May, NoChanges
    <2>7. request'[r] = request[r]
      <3>1. \A a : Overtaken(a)[r] = request[r]  BY <1>1, <2>3, OvertakenTyped
      <3>2. \/ UNCHANGED request
            \/ \E q \in Requests : Arrives(q) \/ GoesOn(q)
        BY <2>6, ScenarioSteps DEF Quiet, GoesOn
      <3> QED  BY <2>5, <3>1, <3>2, OthersKept
    <2> QED  BY <1>2, <2>2, <2>3, <2>7 DEF Survives
  <1>5. CASE sessions[s].stale # "since"  BY <1>2, <1>3, <1>5 DEF Survives
  <1> QED  BY <1>4, <1>5

-------------------------------------------------------------------------------
(* One request at a time *)

Handler == CHOOSE r \in Requests : TRUE
Holds(label) == At(Handler, label)
Held == request[Handler]

\* Where requests do not race, the one that goes on to a session has read what
\* is still so, and open sessions are of accounts that there are; when an account
\* is about to be deleted, it has none.
OneAtATime ==
    /\ \A r \in Requests \ {Handler} : request[r] = Idle
    /\ Holds("checked") => ~Held.stale /\ (Held.user = 0 \/ Held.user \in DOMAIN users)
    /\ Holds("signs") => ~Held.stale /\ Held.user \in DOMAIN users
    /\ \A s \in DOMAIN sessions :
          /\ sessions[s].stale # "born"
          /\ ~sessions[s].revoked =>
                /\ sessions[s].user \in DOMAIN users
                /\ Holds("clears") => Held.user # sessions[s].user

\* Where a step leaves its handler, and what it has read by then
LEMMA Outcomes ==
    ASSUME Typed, NEW r \in Requests, Arrives(r) \/ GoesOn(r)
    PROVE  /\ request'[r].at = "checked" =>
                 /\ ~request'[r].stale /\ UNCHANGED users
                 /\ request'[r].user = 0 \/ request'[r].user \in DOMAIN users
           /\ request'[r].at = "registers" => mode # "admin_only" /\ users # << >> /\ UNCHANGED users
           /\ request'[r].at = "signs" => ~request'[r].stale /\ request'[r].user \in DOMAIN users'
           /\ request'[r].at = "creates" => users # << >> /\ UNCHANGED users
           /\ request'[r].at = "updates" =>
                 (ChangePassword(r) \/ AskUpdate(r)) /\ users # << >> /\ UNCHANGED users
           /\ request'[r].at = "deletes" => AskDelete(r) /\ users # << >> /\ UNCHANGED users
           /\ request'[r].at = "clears" =>
                 /\ RevokeAllUserSessions(r) /\ At(r, "deletes") /\ UNCHANGED users
                 /\ request'[r].user = request[r].user
  <1>0. request \in [Requests -> Request]  BY DEF Typed, RequestTyped
  <1> USE DEF Becomes
  <1>1. ASSUME NEW ip \in Addresses, NEW right \in BOOLEAN, Login(r, ip, right)
        PROVE  /\ request'[r].at = "checked" /\ ~request'[r].stale /\ UNCHANGED users
               /\ request'[r].user = 0 \/ request'[r].user \in DOMAIN users
    <2>1. PICK a \in (IF right THEN DOMAIN users ELSE {0}) :
              request'[r] = [at |-> "checked", address |-> ip, stale |-> FALSE,
                             user |-> IF a # 0 /\ MayLogIn(a) THEN a ELSE 0]
      BY <1>0, <1>1 DEF Login
    <2> QED  BY <1>1, <2>1 DEF Login
  <1>2. ASSUME NEW ip \in Addresses, NEW login \in Logins, RegisterUser(r, ip, login)
        PROVE  /\ request'[r].at \in {"idle", "registers"}
               /\ mode # "admin_only" /\ users # << >> /\ UNCHANGED users
    BY <1>0, <1>2 DEF RegisterUser, Begins, At, IsBootstrapMode
  <1>3. BootstrapSetup(r) => request'[r].at = "setup"  BY <1>0 DEF BootstrapSetup
  <1>4. ASSUME NEW s, Authenticate(r, s) PROVE request'[r].at = "known"
    BY <1>0, <1>4 DEF Authenticate
  <1>5. LoginFails(r) \/ LoginSucceeds(r) \/ Signs(r) \/ Taken(r) \/ Logout(r) \/ Declined(r)
           \/ Creates(r) \/ DeleteUser(r) => request'[r] = Idle
    BY <1>0 DEF LoginFails, LoginSucceeds, Signs, Taken, Logout, Declined, Creates, DeleteUser
  <1>6. Registered(r) \/ CreateBootstrapAdmin(r) =>
           request'[r] \in {Idle, [at |-> "signs", user |-> nextUser, stale |-> FALSE]}
             /\ nextUser \in DOMAIN users'
    BY <1>0 DEF Registered, CreateBootstrapAdmin, CreateUser, Inserted
  <1>7. ChangePassword(r) \/ AskUpdate(r) => request'[r].at = "updates" /\ users # << >> /\ UNCHANGED users
    BY <1>0 DEF ChangePassword, AskUpdate, Administers
  <1>8. AskCreate(r) => request'[r].at = "creates" /\ users # << >> /\ UNCHANGED users
    BY <1>0 DEF AskCreate, Administers
  <1>9. AskDelete(r) => request'[r].at = "deletes" /\ users # << >> /\ UNCHANGED users
    BY <1>0 DEF AskDelete, Administers
  <1>10. Update(r) => request'[r].at \in {"revokes", "idle"}
    <2>1. Overtaken(request[r].user) \in [Requests -> Request]  BY <1>0, OvertakenTyped
    <2> QED  BY <1>0, <2>1 DEF Update, Idle
  <1>11. RevokeAllUserSessions(r) =>
            /\ request'[r] \in {Idle, [at |-> "clears", user |-> request[r].user]}
            /\ request'[r].at = "clears" => At(r, "deletes")
            /\ UNCHANGED users
    BY <1>0 DEF RevokeAllUserSessions, Idle
  <1> QED
    BY <1>1, <1>2, <1>3, <1>4, <1>5, <1>6, <1>7, <1>8, <1>9, <1>10, <1>11 DEF Arrives, GoesOn, Idle

\* Accounts go when they are deleted only.
LEMMA AccountsStay ==
    ASSUME NEW r, Arrives(r) \/ GoesOn(r)
    PROVE  \/ DOMAIN users \subseteq DOMAIN users'
           \/ DeleteUser(r) /\ DOMAIN users' = DOMAIN users \ {request[r].user}
  <1> DEFINE Stay == DOMAIN users \subseteq DOMAIN users'
  <1>1. Registered(r) \/ CreateBootstrapAdmin(r) \/ Creates(r) => Stay
    BY DEF Registered, CreateBootstrapAdmin, Creates, CreateUser, Inserted
  <1>2. Update(r) => Stay  BY DEF Update
  <1>3. DeleteUser(r) => DOMAIN users' = DOMAIN users \ {request[r].user}  BY DEF DeleteUser
  <1>4. ASSUME \/ Arrives(r) \/ LoginFails(r) \/ LoginSucceeds(r) \/ Signs(r) \/ Taken(r)
               \/ Logout(r) \/ Declined(r) \/ ChangePassword(r) \/ AskCreate(r) \/ AskUpdate(r)
               \/ RevokeAllUserSessions(r) \/ AskDelete(r)
        PROVE  Stay
    BY <1>4 DEF Arrives, Login, RegisterUser, BootstrapSetup, Authenticate, LoginFails, LoginSucceeds,
        Signs, Taken, Logout, Declined, ChangePassword, AskCreate, AskUpdate, RevokeAllUserSessions,
        AskDelete
  <1>5. Stay \/ DeleteUser(r)
    <2> HIDE DEF Stay
    <2> QED  BY <1>1, <1>2, <1>4 DEF GoesOn
  <1> QED  BY <1>3, <1>5

LEMMA OneAtATimeKept ==
    ASSUME Typed, scenario \in Scenarios, scenario.serial, OneAtATime, [MCNext]_MCVars
    PROVE  OneAtATime'
  <1>1. /\ [Next]_vars /\ request \in [Requests -> Request]
        /\ Handler \in Requests /\ Handlers = {Handler}
    BY ScenarioStep, ScenariosOK DEF MCVars, Typed, RequestTyped, Handlers, Handler
  <1>2. \/ UNCHANGED <<request, users>>
        \/ Crash
        \/ Arrives(Handler) \/ GoesOn(Handler)
    BY <1>1, ScenarioSteps DEF Quiet, GoesOn
  <1>3. ASSUME NEW r \in Requests \ {Handler} PROVE request'[r] = Idle
    <2>1. request[r] = Idle  BY DEF OneAtATime
    <2>2. \A a : Overtaken(a)[r] = request[r]  BY <1>1, <2>1, OvertakenTyped DEF Idle
    <2> QED  BY <1>1, <1>2, <2>1, <2>2, OthersKept DEF Crash
  <1>4. \/ UNCHANGED <<request, users>>
        \/ UNCHANGED users /\ request'[Handler] = Idle
        \/ Arrives(Handler) \/ GoesOn(Handler)
    BY <1>1, <1>2 DEF Crash
  <1>5. /\ request'[Handler].at = "checked" =>
             ~request'[Handler].stale /\ (request'[Handler].user = 0 \/ request'[Handler].user \in DOMAIN users')
        /\ request'[Handler].at = "signs" =>
             ~request'[Handler].stale /\ request'[Handler].user \in DOMAIN users'
    <2>1. CASE UNCHANGED <<request, users>>  BY <2>1 DEF OneAtATime, Holds, Held, At
    <2>2. CASE request'[Handler] = Idle  BY <2>2 DEF Idle
    <2>3. CASE Arrives(Handler) \/ GoesOn(Handler)  BY <1>1, <2>3, Outcomes
    <2> QED  BY <1>4, <2>1, <2>2, <2>3
  <1>6. ASSUME NEW s \in DOMAIN sessions', Begun(s)
        PROVE  /\ sessions'[s].stale # "born" /\ sessions'[s].user \in DOMAIN users'
               /\ request'[Handler].at # "clears"
    <2>1. PICK r \in Requests :
             /\ LoginSucceeds(r) \/ Signs(r)
             /\ sessions'[s].user = request[r].user
             /\ sessions'[s].stale = IF request[r].stale THEN "born" ELSE "no"
      BY <1>6 DEF Begun
    <2>2. /\ (request[r].at = "checked" /\ request[r].user # 0) \/ request[r].at = "signs"
          /\ UNCHANGED users /\ Becomes(r, Idle)
      BY <2>1 DEF LoginSucceeds, Signs, At
    <2>3. r = Handler  BY <2>2 DEF OneAtATime, Idle
    <2>4. request'[Handler] = Idle  BY <1>1, <2>2, <2>3 DEF Becomes
    <2> QED  BY <2>1, <2>2, <2>3, <2>4 DEF OneAtATime, Holds, Held, At, Idle
  <1>7. ASSUME NEW s \in DOMAIN sessions', Survives(s)
        PROVE  /\ sessions'[s].stale # "born"
               /\ ~sessions'[s].revoked =>
                     /\ sessions'[s].user \in DOMAIN users'
                     /\ request'[Handler].at = "clears" => request'[Handler].user # sessions'[s].user
    <2>1. sessions'[s].stale # "born"  BY <1>7 DEF Survives, OneAtATime
    <2> SUFFICES ASSUME ~sessions'[s].revoked
                 PROVE  /\ sessions'[s].user \in DOMAIN users'
                        /\ request'[Handler].at = "clears" => request'[Handler].user # sessions'[s].user
      BY <2>1
    <2>2. /\ s \in DOMAIN sessions /\ ~sessions[s].revoked /\ sessions'[s].user = sessions[s].user
          /\ sessions[s].user \in DOMAIN users
          /\ request[Handler].at = "clears" => request[Handler].user # sessions[s].user
      BY <1>7 DEF Survives, OneAtATime, Holds, Held, At
    <2>3. CASE UNCHANGED <<request, users>>  BY <2>2, <2>3
    <2>4. CASE UNCHANGED users /\ request'[Handler] = Idle  BY <2>2, <2>4 DEF Idle
    <2>5. CASE Arrives(Handler) \/ GoesOn(Handler)
      <3>1. sessions[s].user \in DOMAIN users'
        <4>1. DeleteUser(Handler) => request[Handler].at = "clears"  BY DEF DeleteUser, At
        <4> QED  BY <2>2, <2>5, <4>1, AccountsStay
      <3>2. ASSUME RevokeAllUserSessions(Handler) PROVE request[Handler].user # sessions[s].user
        <4> SUFFICES ASSUME request[Handler].user = sessions[s].user PROVE FALSE  OBVIOUS
        <4>1. s \in AllOf(request[Handler].user)  BY <2>2 DEF AllOf, OpenOf, IsOpen
        <4>2. sessions[s] \in Session  BY <2>2 DEF Typed, SessionsTyped
        <4>3. sessions'[s] = [sessions[s] EXCEPT !.revoked =
                                 sessions[s].revoked \/ s \in AllOf(request[Handler].user)]
          BY <2>2, <3>2 DEF RevokeAllUserSessions, Revoked
        <4> QED  BY <4>1, <4>2, <4>3 DEF Session
      <3> QED  BY <1>1, <2>2, <2>5, <3>1, <3>2, Outcomes
    <2> QED  BY <1>4, <2>3, <2>4, <2>5
  <1> QED  BY <1>1, <1>3, <1>5, <1>6, <1>7, SessionsChange DEF OneAtATime, Holds, Held, At

StaleInv ==
    /\ Typed /\ scenario \in Scenarios
    /\ Owed
    /\ "ask" \notin scenario.may => NoChanges
    /\ scenario.serial => OneAtATime

\* A session that an account's new password or deactivation has made stale is
\* revoked, or about to be, with any number of handlers that race; and without
\* races no session is opened from what is old, nor left to an account that is
\* gone (service.go: ChangePassword, AdminResetPassword; user_service.go:
\* UpdateUser, DeleteUser).
THEOREM StaleSessionsAreEnded == MCSpec => []StaleSessionsEnd
<1>1. MCInit => StaleInv
  <2> SUFFICES ASSUME MCInit PROVE StaleInv  OBVIOUS
  <2>1. Typed  BY MCInitTyped
  <2>2. DOMAIN sessions = {} /\ request = [r \in Requests |-> Idle]
    BY DEF MCInit, SessionsInit
  <2>3. Idle.at = "idle"  BY DEF Idle
  <2>4. Handler \in Requests  BY ScenariosOK DEF Handler
  <2> QED  BY <2>1, <2>2, <2>3, <2>4 DEF StaleInv, MCInit, Owed, NoChanges, Changing, OneAtATime, Holds, Held, At
<1>2. StaleInv /\ [MCNext]_MCVars => StaleInv'
  <2> SUFFICES ASSUME StaleInv, [MCNext]_MCVars PROVE StaleInv'  OBVIOUS
  <2>1. UNCHANGED scenario /\ [Next]_vars  BY ScenarioStep DEF MCVars
  <2>2. Typed'  BY <2>1, StepTyped DEF StaleInv
  <2>3. Owed'  BY OwedKept DEF StaleInv
  <2>4. "ask" \notin scenario.may => NoChanges'  BY NoChangesKept DEF StaleInv
  <2>5. scenario.serial => OneAtATime'  BY OneAtATimeKept DEF StaleInv
  <2> QED  BY <2>1, <2>2, <2>3, <2>4, <2>5 DEF StaleInv
<1>3. StaleInv => StaleSessionsEnd
  BY TypedIsTypeOK DEF StaleInv, StaleSessionsEnd, Owed, OneAtATime, IsOpen
<1> QED  BY <1>1, <1>2, <1>3, PTL DEF MCSpec

-------------------------------------------------------------------------------
(* The last administrator *)

Admins == {a \in DOMAIN users : users[a].role = "admin" /\ users[a].active}
AnotherThan(a) == \E b \in Admins : b # a

\* Where requests do not race and nobody awaits approval, a request that may
\* take an administrator's place leaves another.
AdminsSafe ==
    /\ \A a \in DOMAIN users : users[a].status = "active"
    /\ users = << >> \/ Admins # {}
    /\ Holds("registers") => mode # "admin_only" /\ users # << >>
    /\ Holds("creates") => users # << >>
    /\ Holds("updates") =>
          /\ Held.change.status = "same"
          /\ Held.change.role = "user" \/ Held.change.active = "no" => AnotherThan(Held.user)
    /\ Holds("deletes") \/ Holds("clears") => AnotherThan(Held.user)

\* Counted, the administrators are several when there is another one.
LEMMA AnotherCounted ==
    ASSUME NEW a \in Admins, CountAdmins > 1
    PROVE  AnotherThan(a)
  <1> SUFFICES ASSUME ~AnotherThan(a) PROVE FALSE  OBVIOUS
  <1>1. Admins = {a}  BY DEF AnotherThan
  <1>2. Cardinality({a}) = 1  BY FS_Singleton
  <1> QED  BY <1>1, <1>2 DEF CountAdmins, Admins

\* Rows that a step leaves alone
LEMMA AdminsStay ==
    ASSUME UNCHANGED users
    PROVE  Admins' = Admins /\ \A a : AnotherThan(a)' = AnotherThan(a)
  BY DEF Admins, AnotherThan

\* What an administrator's request is about to do
LEMMA Decided ==
    ASSUME Typed, AdminsSafe, users # << >>, NEW r \in Requests,
           ChangePassword(r) \/ AskUpdate(r) \/ AskDelete(r)
    PROVE  /\ request'[r].at = "updates" =>
                 /\ request'[r].change.status = "same"
                 /\ request'[r].change.role = "user" \/ request'[r].change.active = "no"
                       => AnotherThan(request'[r].user)
           /\ request'[r].at = "deletes" => AnotherThan(request'[r].user)
  <1>0. request \in [Requests -> Request]  BY DEF Typed, RequestTyped
  <1>1. ASSUME NEW a \in DOMAIN users, users[a].role = "admin" => CountAdmins > 1
        PROVE  AnotherThan(a)
    <2>1. CASE a \in Admins  BY <1>1, <2>1, AnotherCounted DEF Admins
    <2>2. CASE a \notin Admins  BY <2>2 DEF AnotherThan, AdminsSafe
    <2> QED  BY <2>1, <2>2
  <1>2. CASE ChangePassword(r)
    <2> DEFINE c == [Same EXCEPT !.password = TRUE]
    <2>1. c.status = "same" /\ c.role = "same" /\ c.active = "same"  BY DEF Same
    <2>2. request'[r] = [at |-> "updates", user |-> request[r].actor, change |-> c]
      BY <1>0, <1>2 DEF ChangePassword, Becomes
    <2> HIDE DEF c
    <2> QED  BY <2>1, <2>2
  <1>3. CASE AskUpdate(r)
    <2>1. PICK a \in DOMAIN users, c \in Updates \cup Decisions \cup {Reset} :
             /\ c \in Updates => MayUpdate(a, c)
             /\ c \in Decisions => users[a].status = "pending"
             /\ Becomes(r, [at |-> "updates", user |-> a, change |-> c])
      BY <1>3 DEF AskUpdate
    <2>2. request'[r] = [at |-> "updates", user |-> a, change |-> c]  BY <1>0, <2>1 DEF Becomes
    <2>3. c \in Updates \cup {Reset}  BY <2>1 DEF AdminsSafe
    <2>4. c.status = "same"
      <3>1. CASE c = Reset  BY <3>1 DEF Reset, Same
      <3>2. CASE c \in Updates
        <4>1. PICK role \in {"admin", "user", "same"}, active \in {"yes", "no", "same"} :
                 c = [Same EXCEPT !.role = role, !.active = active]
          BY <3>2 DEF Updates
        <4> QED  BY <4>1 DEF Same
      <3> QED  BY <2>3, <3>1, <3>2
    <2>5. c = Reset => c.role = "same" /\ c.active = "same"  BY DEF Reset, Same
    <2>6. c.role = "user" \/ c.active = "no" => AnotherThan(a)
      <3> SUFFICES ASSUME c.role = "user" \/ c.active = "no" PROVE AnotherThan(a)  OBVIOUS
      <3>1. MayUpdate(a, c)  BY <2>1, <2>3, <2>5
      <3> QED  BY <1>1, <3>1 DEF MayUpdate
    <2> QED  BY <2>2, <2>4, <2>6
  <1>4. CASE AskDelete(r)
    <2>1. PICK a \in DOMAIN users : /\ users[a].role = "admin" => CountAdmins > 1
                                   /\ Becomes(r, [at |-> "deletes", user |-> a])
      BY <1>4 DEF AskDelete
    <2>2. request'[r] = [at |-> "deletes", user |-> a]  BY <1>0, <2>1 DEF Becomes
    <2> QED  BY <1>1, <2>1, <2>2
  <1> QED  BY <1>2, <1>3, <1>4

\* A step of the only request that changes the rows
LEMMA AdminsKept ==
    ASSUME Typed, OneAtATime, AdminsSafe, mode # "self_service_with_approval",
           Arrives(Handler) \/ GoesOn(Handler), Handler \in Requests
    PROVE  /\ \A a \in DOMAIN users' : users'[a].status = "active"
           /\ UNCHANGED users \/ Admins' # {}
           /\ users # << >> => users' # << >>
  <1> DEFINE Good == /\ \A a \in DOMAIN users' : users'[a].status = "active"
                     /\ UNCHANGED users \/ Admins' # {}
                     /\ users # << >> => users' # << >>
  <1> SUFFICES Good  OBVIOUS
  <1>1. ASSUME NEW login, NEW role, CreateUser(login, role, "active"), users # << >> \/ role = "admin"
        PROVE  Good
    <2> DEFINE row == [login |-> login, role |-> role, active |-> TRUE, status |-> "active"]
    <2>1. users' = Inserted(users, nextUser, row)  BY <1>1 DEF CreateUser
    <2>2. row.status = "active" /\ row.role = role /\ row.active  OBVIOUS
    <2> HIDE DEF row
    <2>3. /\ DOMAIN users' = DOMAIN users \cup {nextUser} /\ users'[nextUser] = row
          /\ \A a \in DOMAIN users \ {nextUser} : users'[a] = users[a]
      BY <2>1 DEF Inserted
    <2>4. nextUser \notin DOMAIN users  BY DEF Typed, UsersTyped
    <2>5. \A a \in DOMAIN users' : users'[a].status = "active"  BY <2>2, <2>3 DEF AdminsSafe
    <2>6. Admins' # {}
      <3>1. CASE role = "admin"
        <4>1. nextUser \in Admins'  BY <2>2, <2>3, <3>1 DEF Admins
        <4> QED  BY <4>1
      <3>2. CASE users # << >>
        <4>1. PICK a : a \in Admins  BY <3>2 DEF AdminsSafe
        <4>2. a \in Admins'  BY <2>3, <2>4, <4>1 DEF Admins
        <4> QED  BY <4>2
      <3> QED  BY <1>1, <3>1, <3>2
    <2>7. users' # << >>  BY <2>3
    <2> QED  BY <2>5, <2>6, <2>7
  <1>2. CASE Registered(Handler)
    <2>1. mode = "self_service" /\ users # << >>
      <3>1. mode \in Modes /\ mode # "admin_only" /\ users # << >>
        BY <1>2 DEF Registered, AdminsSafe, Holds, Typed, UsersTyped
      <3> QED  BY <3>1 DEF Modes
    <2>2. \E login, role : CreateUser(login, role, "active")  BY <1>2, <2>1 DEF Registered
    <2> QED  BY <1>1, <2>1, <2>2
  <1>3. CASE CreateBootstrapAdmin(Handler)
    <2>1. CreateUser(BootstrapLogin, "admin", "active")  BY <1>3 DEF CreateBootstrapAdmin
    <2> QED  BY <1>1, <2>1
  <1>4. CASE Creates(Handler)
    <2>1. \E login, role : CreateUser(login, role, "active")  BY <1>4 DEF Creates
    <2>2. users # << >>  BY <1>4 DEF Creates, AdminsSafe, Holds
    <2> QED  BY <1>1, <2>1, <2>2
  <1>5. CASE Update(Handler)
    <2> DEFINE u == Held.user
               c == Held.change
    <2>0. At(Handler, "updates")  BY <1>5 DEF Update
    <2>1. c.status = "same" /\ (c.role = "user" \/ c.active = "no" => AnotherThan(u))
      BY <2>0 DEF AdminsSafe, Holds
    <2>2. CASE u \notin DOMAIN users
      <3>1. UNCHANGED users  BY <1>5, <2>2 DEF Update, Held
      <3> QED  BY <3>1 DEF AdminsSafe
    <2>3. CASE u \in DOMAIN users
      <3>1. users' = [users EXCEPT ![u] = Changed(users[u], c)]  BY <1>5, <2>3 DEF Update, Held
      <3>2. users[u] \in User  BY <2>3 DEF Typed, UsersTyped
      <3>3. Held \in [at : {"updates"}, user : Accounts, change : Change]
        BY <2>0, RequestKinds DEF Typed, RequestTyped, At, Held
      <3>4. c.role \in {"admin", "user", "same"} /\ c.active \in {"yes", "no", "same"}
        BY <3>3 DEF Change
      <3> DEFINE new == Changed(users[u], c)
      <3>5. /\ new.status = users[u].status
            /\ c.role # "user" /\ users[u].role = "admin" => new.role = "admin"
            /\ c.active # "no" /\ users[u].active => new.active
        <4> DEFINE role == IF c.role = "same" THEN users[u].role ELSE c.role
                   active == c.active = "yes" \/ (c.active = "same" /\ users[u].active)
                   status == IF c.status = "same" THEN users[u].status ELSE c.status
        <4>1. new = [users[u] EXCEPT !.role = role, !.active = active, !.status = status]
          BY DEF Changed
        <4>2. /\ status = users[u].status
              /\ c.role # "user" /\ users[u].role = "admin" => role = "admin"
              /\ c.active # "no" /\ users[u].active => active
          BY <2>1, <3>4
        <4> HIDE DEF new, role, active, status
        <4>3. new.role = role /\ new.active = active /\ new.status = status
          BY <3>2, <4>1 DEF User
        <4> QED  BY <4>2, <4>3
      <3> HIDE DEF new, u, c
      <3>6. /\ DOMAIN users' = DOMAIN users /\ users'[u] = new
            /\ \A a \in DOMAIN users \ {u} : users'[a] = users[a]
        BY <2>3, <3>1 DEF new
      <3>7. \A a \in DOMAIN users' : users'[a].status = "active"  BY <2>3, <3>5, <3>6 DEF AdminsSafe
      <3>8. users # << >> /\ users' # << >>  BY <2>3, <3>6
      <3>9. Admins' # {}
        <4>1. CASE c.role = "user" \/ c.active = "no"
          <5>1. PICK b \in Admins : b # u  BY <2>1, <4>1 DEF AnotherThan, u, c
          <5>2. b \in Admins'  BY <3>6, <5>1 DEF Admins
          <5> QED  BY <5>2
        <4>2. CASE c.role # "user" /\ c.active # "no"
          <5>1. PICK b : b \in Admins  BY <3>8 DEF AdminsSafe
          <5>2. b \in Admins'  BY <3>5, <3>6, <4>2, <5>1 DEF Admins
          <5> QED  BY <5>2
        <4> QED  BY <4>1, <4>2
      <3> QED  BY <3>7, <3>8, <3>9
    <2> QED  BY <2>2, <2>3
  <1>6. CASE DeleteUser(Handler)
    <2>1. users' = [b \in DOMAIN users \ {Held.user} |-> users[b]] /\ At(Handler, "clears")
      BY <1>6 DEF DeleteUser, Held
    <2>2. PICK b \in Admins : b # Held.user  BY <2>1 DEF AdminsSafe, AnotherThan, Holds
    <2>3. b \in Admins' /\ b \in DOMAIN users'  BY <2>1, <2>2 DEF Admins
    <2>4. users' # << >>  BY <2>3
    <2> QED  BY <2>1, <2>3, <2>4 DEF AdminsSafe
  <1>7. CASE UNCHANGED users  BY <1>7 DEF AdminsSafe
  <1>8. ASSUME \/ Arrives(Handler) \/ LoginFails(Handler) \/ LoginSucceeds(Handler) \/ Signs(Handler)
               \/ Taken(Handler) \/ Logout(Handler) \/ Declined(Handler) \/ ChangePassword(Handler)
               \/ AskCreate(Handler) \/ AskUpdate(Handler) \/ RevokeAllUserSessions(Handler)
               \/ AskDelete(Handler)
        PROVE  UNCHANGED users
    BY <1>8 DEF Arrives, Login, RegisterUser, BootstrapSetup, Authenticate, LoginFails, LoginSucceeds,
        Signs, Taken, Logout, Declined, ChangePassword, AskCreate, AskUpdate, RevokeAllUserSessions,
        AskDelete
  <1> QED
    <2> HIDE DEF Good
    <2> QED  BY <1>2, <1>3, <1>4, <1>5, <1>6, <1>7, <1>8 DEF GoesOn

LEMMA ModeStays == ASSUME [Next]_vars PROVE UNCHANGED mode
  <1>1. ASSUME NEW r, Arrives(r) PROVE UNCHANGED mode
    BY <1>1 DEF Arrives, Login, RegisterUser, BootstrapSetup, Authenticate
  <1>2. ASSUME NEW r, GoesOn(r) PROVE UNCHANGED mode
    BY <1>2 DEF GoesOn, LoginFails, LoginSucceeds, Registered, Signs, CreateBootstrapAdmin, Taken,
        Logout, Declined, ChangePassword, AskCreate, Creates, AskUpdate, Update,
        RevokeAllUserSessions, AskDelete, DeleteUser
  <1>3. \/ UNCHANGED vars \/ Crash
        \/ \E s \in DOMAIN sessions : Unauthorized(s) \/ KeepsAccounts
        \/ \E l \in {"login", "register"}, ip \in Addresses : TurnedAway(l, ip) \/ TimePasses(l, ip)
        \/ KeepsAccounts
        \/ \E r \in Requests : Arrives(r) \/ GoesOn(r)
    BY DEF Next, KeepsAccounts
  <1> QED  BY <1>1, <1>2, <1>3 DEF vars, Crash, Unauthorized, KeepsAccounts, TurnedAway, TimePasses

LEMMA AdminsSafeKept ==
    ASSUME Typed, scenario \in Scenarios, scenario.serial, OneAtATime, AdminsSafe,
           mode # "self_service_with_approval", [MCNext]_MCVars
    PROVE  AdminsSafe'
  <1>1. /\ [Next]_vars /\ request \in [Requests -> Request]
        /\ Handler \in Requests /\ Handlers = {Handler}
    BY ScenarioStep, ScenariosOK DEF MCVars, Typed, RequestTyped, Handlers, Handler
  <1>2. UNCHANGED mode  BY <1>1, ModeStays
  <1>3. \/ UNCHANGED <<request, users>>
        \/ UNCHANGED users /\ request'[Handler] = Idle
        \/ Arrives(Handler) \/ GoesOn(Handler)
    BY <1>1, ScenarioSteps DEF Quiet, GoesOn, Crash
  <1>4. CASE UNCHANGED <<request, users>>
    BY <1>2, <1>4 DEF AdminsSafe, Admins, AnotherThan, Holds, Held, At
  <1>5. CASE UNCHANGED users /\ request'[Handler] = Idle
    BY <1>2, <1>5 DEF AdminsSafe, Admins, AnotherThan, Holds, Held, At, Idle
  <1>6. CASE Arrives(Handler) \/ GoesOn(Handler)
    <2>1. /\ \A a \in DOMAIN users' : users'[a].status = "active"
          /\ users' = << >> \/ Admins' # {}
      <3>1. UNCHANGED users => Admins' = Admins  BY AdminsStay
      <3> QED  BY <1>1, <1>6, <3>1, AdminsKept DEF AdminsSafe
    <2>2. /\ request'[Handler].at = "registers" => mode' # "admin_only" /\ users' # << >>
          /\ request'[Handler].at = "creates" => users' # << >>
      BY <1>1, <1>2, <1>6, Outcomes
    <2>3. /\ request'[Handler].at = "updates" =>
                 /\ request'[Handler].change.status = "same"
                 /\ request'[Handler].change.role = "user" \/ request'[Handler].change.active = "no"
                       => \E b \in Admins' : b # request'[Handler].user
          /\ request'[Handler].at = "deletes" => \E b \in Admins' : b # request'[Handler].user
      <3> SUFFICES ASSUME request'[Handler].at \in {"updates", "deletes"}
                   PROVE  <2>3!1 /\ <2>3!2
        OBVIOUS
      <3>1. /\ ChangePassword(Handler) \/ AskUpdate(Handler) \/ AskDelete(Handler)
            /\ users # << >> /\ UNCHANGED users
        BY <1>1, <1>6, Outcomes
      <3>2. Admins' = Admins  BY <3>1, AdminsStay
      <3> QED  BY <1>1, <3>1, <3>2, Decided DEF AnotherThan
    <2>4. request'[Handler].at = "clears" => \E b \in Admins' : b # request'[Handler].user
      <3> SUFFICES ASSUME request'[Handler].at = "clears"
                   PROVE  \E b \in Admins' : b # request'[Handler].user
        OBVIOUS
      <3>1. At(Handler, "deletes") /\ request'[Handler].user = Held.user /\ UNCHANGED users
        BY <1>1, <1>6, Outcomes DEF Held
      <3>2. Admins' = Admins  BY <3>1, AdminsStay
      <3> QED  BY <3>1, <3>2 DEF AdminsSafe, AnotherThan, Holds
    <2> QED  BY <2>1, <2>2, <2>3, <2>4 DEF AdminsSafe, AnotherThan, Holds, Held, At
  <1> QED  BY <1>3, <1>4, <1>5, <1>6

AdminInv ==
    /\ Typed /\ scenario \in Scenarios
    /\ scenario.serial => OneAtATime
    /\ scenario.serial /\ mode # "self_service_with_approval" => AdminsSafe

\* Once there is an administrator, one who may log in remains, when requests do
\* not race and no account awaits approval (user_service.go: countAdmins).
THEOREM AnAdministratorRemains == MCSpec => []SerialAdminRemains
<1>1. MCInit => AdminInv
  <2> SUFFICES ASSUME MCInit PROVE AdminInv  OBVIOUS
  <2>1. Typed  BY MCInitTyped
  <2>2. DOMAIN sessions = {} /\ request = [r \in Requests |-> Idle]
    BY DEF MCInit, SessionsInit
  <2>3. Idle.at = "idle"  BY DEF Idle
  <2>4. Handler \in Requests  BY ScenariosOK DEF Handler
  <2>5. OneAtATime  BY <2>2, <2>3, <2>4 DEF OneAtATime, Holds, At
  <2>6. /\ \A a \in DOMAIN users : users[a].status = "active"
        /\ users = << >> \/ Admins # {}
    <3>1. CASE May("founded")
      <4>1. Founded  BY <3>1 DEF MCInit
      <4>2. DOMAIN users = {1} /\ users[1].role = "admin" /\ users[1].active /\ users[1].status = "active"
        BY <4>1 DEF Founded
      <4> QED  BY <4>2 DEF Admins
    <3>2. CASE ~May("founded")
      <4>1. users = << >>  BY <3>2 DEF MCInit
      <4> QED  BY <4>1
    <3> QED  BY <3>1, <3>2
  <2>7. AdminsSafe  BY <2>2, <2>3, <2>4, <2>6 DEF AdminsSafe, Holds, At
  <2> QED  BY <2>1, <2>5, <2>7 DEF AdminInv, MCInit
<1>2. AdminInv /\ [MCNext]_MCVars => AdminInv'
  <2> SUFFICES ASSUME AdminInv, [MCNext]_MCVars PROVE AdminInv'  OBVIOUS
  <2>1. UNCHANGED scenario /\ [Next]_vars  BY ScenarioStep DEF MCVars
  <2>2. Typed' /\ UNCHANGED mode  BY <2>1, StepTyped, ModeStays DEF AdminInv
  <2>3. scenario.serial => OneAtATime'  BY OneAtATimeKept DEF AdminInv
  <2>4. scenario.serial /\ mode # "self_service_with_approval" => AdminsSafe'
    BY AdminsSafeKept DEF AdminInv
  <2> QED  BY <2>1, <2>2, <2>3, <2>4 DEF AdminInv
<1>3. AdminInv => SerialAdminRemains
  <2> SUFFICES ASSUME AdminInv, scenario.serial, mode # "self_service_with_approval", users # << >>
               PROVE  \E a \in DOMAIN users : users[a].role = "admin" /\ MayLogIn(a)
    BY DEF SerialAdminRemains, AdminRemains, IsBootstrapMode
  <2> QED  BY DEF AdminInv, AdminsSafe, Admins, MayLogIn
<1> QED  BY <1>1, <1>2, <1>3, PTL DEF MCSpec
===============================================================================
