-------------------------- MODULE Registration ---------------------------
(***************************************************************************)
(* Processes that publish themselves in the registry: the Go client of     *)
(* registry/client (core, exif and ocr services) and the client of the     *)
(* faces service, which mirrors it.                                        *)
(*                                                                         *)
(* A process has a main thread, which starts the registration and removes  *)
(* it when the process is told to stop, and a second thread, which repeats *)
(* the registration until the registry answers, then renews the lease and  *)
(* registers again after two heartbeats that failed.  The core service     *)
(* handles no signal: it just ends.                                        *)
(*                                                                         *)
(* A call is answered by the registry and the answer is taken by the       *)
(* client in separate steps; a call that the client gives up is dropped by *)
(* the registry, whose handlers run under the context of the connection.   *)
(* Lost answers, time-outs and outages are troubles; MaxTroubles bounds    *)
(* them.                                                                   *)
(***************************************************************************)
EXTENDS Naturals, FiniteSets

-------------------------------------------------------------------------------
(***************************************************************************)
(* The registry of the services: the HTTP facade of src/backend/registry   *)
(* over an embedded etcd.  An instance is published under the key of its   *)
(* service and instance id, bound to a lease; a lease that is not renewed  *)
(* ends, and etcd deletes the keys bound to it.                            *)
(*                                                                         *)
(* Time is counted in thirds of the lease's time to live, the interval at  *)
(* which the clients send heartbeats: a lease of age Ttl has ended.  While *)
(* the registry is down no lease ages, and a restart renews them all.      *)
(***************************************************************************)
CONSTANTS
    Processes,   \* processes that publish themselves
    Ids,         \* instance ids
    Id,          \* the instance id of each process (SERVICE_ID, or one with the pid)
    Leases       \* ids of leases; one that nothing refers to is granted again

ASSUME RegistryAssumption ==
    /\ Id \in [Processes -> Ids]
    /\ Leases \subseteq Nat \ {0} /\ IsFiniteSet(Leases)

VARIABLES
    up,       \* the registry answers
    store,    \* the registration under each instance id: its lease and who put it
    age       \* age of each lease

registryVars == <<up, store, age>>

Ttl == 3
Unlisted == [lease |-> 0, by |-> {}]
Registrations == {Unlisted} \cup [lease : Leases, by : {{p} : p \in Processes}]

RegistryTypeOK ==
    /\ up \in BOOLEAN
    /\ store \in [Ids -> Registrations]
    /\ age \in [Leases -> 0 .. Ttl]

RegistryInit ==
    /\ up = TRUE
    /\ store = [k \in Ids |-> Unlisted]
    /\ age = [l \in Leases |-> Ttl]

Alive(l) == l \in Leases /\ age[l] < Ttl
Listed(k) == store[k] # Unlisted
Owns(p) == store[Id[p]].by = {p}

\* The id etcd gives to a new lease: one that is not in use.
NewLease(used) == CHOOSE l \in Leases \ used : ~Alive(l)

\* PUT: the instance's key is bound to a new lease.  The key leaves the lease
\* it was bound to before.
PutWithLease(p, l) ==
    /\ store' = [store EXCEPT ![Id[p]] = [lease |-> l, by |-> {p}]]
    /\ age' = [age EXCEPT ![l] = 0]

\* POST heartbeat: the lease is renewed, whatever is bound to it.
KeepAliveOnce(l) == age' = [age EXCEPT ![l] = 0]

\* DELETE, first half: whose registration is it?
OwnedBy(p, l) == Listed(Id[p]) /\ store[Id[p]].lease = l

\* DELETE, second half: the key goes, whoever has put it by now.
Delete(p) == store' = [store EXCEPT ![Id[p]] = Unlisted]

\* A plausible error: a lease never ends.
AgesForever(l) == age[l] + 1

\* The age of a lease a third of its time to live later.
Aged(l) == IF Alive(l) THEN age[l] + 1 ELSE Ttl

\* A plausible error of the expiry: it forgets the keys bound to a lease.
LeasesAgeAlone ==
    /\ age' = [l \in Leases |-> Aged(l)]
    /\ UNCHANGED store

\* A third of the time to live passes: the leases that reach it end, and the
\* registrations bound to them go.
LeasesAge ==
    /\ age' = [l \in Leases |-> Aged(l)]
    /\ store' = [k \in Ids |-> IF store[k].lease \in {l \in Leases : Aged(l) = Ttl}
                               THEN Unlisted ELSE store[k]]

TimePasses ==
    \/ up /\ LeasesAge
    \/ ~up /\ UNCHANGED <<store, age>>

\* The registry goes down: a restart that keeps its data, or one on an empty
\* data directory.
RegistryStops ==
    /\ up /\ up' = FALSE
    /\ \/ UNCHANGED <<store, age>>
       \/ store' = [k \in Ids |-> Unlisted] /\ age' = [l \in Leases |-> Ttl]

RegistryStarts ==
    /\ ~up /\ up' = TRUE
    /\ age' = [l \in Leases |-> IF Alive(l) THEN 0 ELSE Ttl]
    /\ UNCHANGED store

-------------------------------------------------------------------------------
(* The clients *)

CONSTANTS
    Kind,          \* the service of each process
    Overlap,       \* a process may start while another of its id is not gone
    Losses,        \* the answer to a registration may get lost
    MaxTroubles

ASSUME RegistrationAssumption ==
    /\ Kind \in [Processes -> {"core", "exif", "faces"}]
    /\ {Overlap, Losses} \subseteq BOOLEAN
    /\ MaxTroubles \in Nat

VARIABLES
    main,       \* what the main thread does
    thread,     \* what the registering thread does
    answer,     \* lease in the registry's answer to a registration, 0: none yet
    lease,      \* the client's lease, 0: none
    failures,   \* heartbeats that failed in a row
    stop,       \* the second thread is told to stop
    due,        \* the ticker of the second thread has fired
    leaving,    \* lease sent along with the removal
    checked,    \* the registry has found that lease bound to the key
    troubles    \* troubles so far

clientVars == <<main, thread, answer, lease, failures, stop, due, leaving, checked>>
regVars == <<registryVars, clientVars, troubles>>

MaxFailures == 2   \* maxHeartbeatFailures

RegistrationTypeOK ==
    /\ RegistryTypeOK
    /\ main \in [Processes -> {"off", "starting", "up", "leaving", "left", "gone"}]
    /\ thread \in [Processes -> {"none", "registers", "waits", "beats", "reregisters"}]
    /\ {answer, lease, leaving} \subseteq [Processes -> Leases \cup {0}]
    /\ failures \in [Processes -> 0 .. MaxFailures]
    /\ {stop, due, checked} \subseteq [Processes -> BOOLEAN]
    /\ troubles \in 0 .. MaxTroubles

RegistrationInit ==
    /\ RegistryInit
    /\ main \in [Processes -> {"off", "gone"}]
    /\ thread = [p \in Processes |-> "none"]
    /\ answer = [p \in Processes |-> 0]
    /\ lease = answer /\ leaving = answer /\ failures = answer
    /\ stop = [p \in Processes |-> FALSE]
    /\ due = stop /\ checked = stop
    /\ troubles \in 0 .. MaxTroubles

Trouble == troubles < MaxTroubles /\ troubles' = troubles + 1
NoTrouble == UNCHANGED troubles

\* A call fails for free while the registry is down; otherwise it is a trouble.
Fails == IF up THEN Trouble ELSE NoTrouble

Python(p) == Kind[p] = "faces"

-----------------------------------------------------------------------------
(* Registering *)

Start(p) ==
    /\ main[p] = "off"
    /\ Overlap \/ \A q \in Processes \ {p} : Id[q] = Id[p] => main[q] \in {"off", "gone"}
    /\ main' = [main EXCEPT ![p] = IF Python(p) THEN "up" ELSE "starting"]
    /\ thread' = [thread EXCEPT ![p] = "registers"]
    /\ UNCHANGED <<registryVars, answer, lease, failures, stop, due, leaving, checked, troubles>>

\* Leases that some process or some answer names.
InUse == UNION {{lease[q], answer[q], leaving[q]} : q \in Processes}

Asks(p) == thread[p] \in {"registers", "reregisters"} /\ answer[p] = 0

\* registerService: the registry grants a lease and publishes the instance.
RegisterService(p) ==
    /\ Asks(p) /\ up
    /\ LET l == NewLease(InUse)
       IN  PutWithLease(p, l) /\ answer' = [answer EXCEPT ![p] = l]
    /\ UNCHANGED <<up, main, thread, lease, failures, stop, due, leaving, checked, troubles>>

\* A plausible error: a new registration renews with the lease it had.
RegisteredOldLease(p) ==
    /\ answer[p] # 0
    /\ thread' = [thread EXCEPT ![p] = "waits"]
    /\ lease' = [lease EXCEPT ![p] = IF @ = 0 THEN answer[p] ELSE @]
    /\ answer' = [answer EXCEPT ![p] = 0]
    /\ failures' = [failures EXCEPT ![p] = 0]
    /\ main' = [main EXCEPT ![p] = IF @ = "starting" THEN "up" ELSE @]
    /\ UNCHANGED <<registryVars, stop, due, leaving, checked, troubles>>

\* registerOnce stores the lease.  A first registration starts a supervisor
\* with a stop channel of its own; the thread of the faces service looks at
\* its event first.
Registered(p) ==
    /\ answer[p] # 0
    /\ LET first == thread[p] = "registers"
       IN  /\ thread' = [thread EXCEPT ![p] = IF Python(p) /\ stop[p] THEN "none" ELSE "waits"]
           /\ stop' = [stop EXCEPT ![p] = @ /\ ~(first /\ ~Python(p))]
           /\ due' = [due EXCEPT ![p] = @ /\ ~first]
    /\ lease' = [lease EXCEPT ![p] = answer[p]]
    /\ answer' = [answer EXCEPT ![p] = 0]
    /\ failures' = [failures EXCEPT ![p] = 0]
    /\ main' = [main EXCEPT ![p] = IF @ = "starting" THEN "up" ELSE @]
    /\ UNCHANGED <<registryVars, leaving, checked, troubles>>

\* The call fails, before or after the registry has answered it.  The first
\* registration is repeated, in the background once RegisterTimeout is over;
\* a supervisor goes back to its heartbeats, and only the one of the faces
\* service tries again at the next of them.
RegisterFails(p) ==
    /\ thread[p] \in {"registers", "reregisters"}
    /\ answer[p] = 0 \/ Losses
    /\ Fails
    /\ answer' = [answer EXCEPT ![p] = 0]
    /\ IF thread[p] = "registers"
       THEN /\ \/ UNCHANGED main
               \/ main[p] = "starting" /\ main' = [main EXCEPT ![p] = "up"]
            /\ thread' = [thread EXCEPT ![p] = IF Python(p) /\ stop[p] THEN "none" ELSE @]
            /\ UNCHANGED failures
       ELSE /\ thread' = [thread EXCEPT ![p] = IF Python(p) /\ stop[p] THEN "none" ELSE "waits"]
            /\ failures' = [failures EXCEPT ![p] = IF Python(p) THEN @ ELSE 0]
            /\ UNCHANGED main
    /\ UNCHANGED <<registryVars, lease, stop, due, leaving, checked>>

-----------------------------------------------------------------------------
(* Heartbeats *)

Beats(p) ==
    /\ thread[p] = "waits" /\ due[p]
    /\ ~(Python(p) /\ stop[p])
    /\ thread' = [thread EXCEPT ![p] = "beats"]
    /\ due' = [due EXCEPT ![p] = FALSE]
    /\ UNCHANGED <<registryVars, main, answer, lease, failures, stop, leaving, checked, troubles>>

\* A thread that waits is told to stop.
Ends(p) ==
    /\ thread[p] = "waits" /\ stop[p]
    /\ thread' = [thread EXCEPT ![p] = "none"]
    /\ UNCHANGED <<registryVars, main, answer, lease, failures, stop, due, leaving, checked, troubles>>

Waits(p) == thread' = [thread EXCEPT ![p] = IF Python(p) /\ stop[p] THEN "none" ELSE "waits"]

HeartbeatSucceeds(p) ==
    /\ thread[p] = "beats" /\ up /\ Alive(lease[p])
    /\ KeepAliveOnce(lease[p])
    /\ failures' = [failures EXCEPT ![p] = 0]
    /\ Waits(p)
    /\ UNCHANGED <<up, store, main, answer, lease, stop, due, leaving, checked, troubles>>

\* The registry refuses a lease that has ended (or none), or the call fails,
\* possibly after the lease is renewed.  The second failure in a row leads to
\* a new registration, and nothing looks at the stop channel on the way.
HeartbeatFails(p) ==
    /\ thread[p] = "beats"
    /\ \/ up /\ ~Alive(lease[p]) /\ NoTrouble /\ UNCHANGED age
       \/ Fails /\ UNCHANGED age
       \/ up /\ Alive(lease[p]) /\ Trouble /\ KeepAliveOnce(lease[p])
    /\ IF failures[p] + 1 < MaxFailures
       THEN failures' = [failures EXCEPT ![p] = @ + 1] /\ Waits(p)
       ELSE /\ failures' = [failures EXCEPT ![p] = MaxFailures]
            /\ thread' = [thread EXCEPT ![p] = "reregisters"]
    /\ UNCHANGED <<up, store, main, answer, lease, stop, due, leaving, checked>>

-----------------------------------------------------------------------------
(* Leaving *)

\* Deregister stops the supervisor and takes the lease; without one there is
\* nothing to remove.
Deregister(p) ==
    /\ main[p] = "up" /\ Kind[p] # "core"
    /\ stop' = [stop EXCEPT ![p] = TRUE]
    /\ leaving' = [leaving EXCEPT ![p] = lease[p]]
    /\ lease' = [lease EXCEPT ![p] = 0]
    /\ main' = [main EXCEPT ![p] = IF lease[p] = 0 THEN "left" ELSE "leaving"]
    /\ UNCHANGED <<registryVars, thread, answer, failures, due, checked, troubles>>

Left(p) ==
    /\ main' = [main EXCEPT ![p] = "left"]
    /\ leaving' = [leaving EXCEPT ![p] = 0]
    /\ checked' = [checked EXCEPT ![p] = FALSE]

\* deregisterService reads the lease of the key.
DeregisterService(p) ==
    /\ main[p] = "leaving" /\ up /\ ~checked[p]
    /\ \/ /\ OwnedBy(p, leaving[p])
          /\ checked' = [checked EXCEPT ![p] = TRUE]
          /\ UNCHANGED <<main, leaving>>
       \/ ~OwnedBy(p, leaving[p]) /\ Left(p)
    /\ UNCHANGED <<registryVars, thread, answer, lease, failures, stop, due, troubles>>

\* Then it deletes the key.
DeleteService(p) ==
    /\ checked[p] /\ up
    /\ Delete(p)
    /\ Left(p)
    /\ UNCHANGED <<up, age, thread, answer, lease, failures, stop, due, troubles>>

\* The call fails or takes longer than ShutdownTimeout.
DeregisterFails(p) ==
    /\ main[p] = "leaving"
    /\ Fails
    /\ Left(p)
    /\ UNCHANGED <<registryVars, thread, answer, lease, failures, stop, due>>

\* The process ends: after its shutdown, or at any time when it is killed.
Exits(p) ==
    /\ main[p] \notin {"off", "gone"}
    /\ main' = [main EXCEPT ![p] = "gone"]
    /\ thread' = [thread EXCEPT ![p] = "none"]
    /\ answer' = [answer EXCEPT ![p] = 0]
    /\ lease' = [lease EXCEPT ![p] = 0]
    /\ leaving' = [leaving EXCEPT ![p] = 0]
    /\ failures' = [failures EXCEPT ![p] = 0]
    /\ stop' = [stop EXCEPT ![p] = FALSE]
    /\ due' = [due EXCEPT ![p] = FALSE]
    /\ checked' = [checked EXCEPT ![p] = FALSE]
    /\ UNCHANGED <<registryVars, troubles>>

-----------------------------------------------------------------------------
(* Time and outages *)

\* Calls and heartbeats are quicker than the interval of the heartbeats; one
\* that is not is a trouble.  A first registration is repeated for as long as
\* the registry is down.
Prompt ==
    \A p \in Processes :
        /\ ~due[p]
        /\ thread[p] \notin {"beats", "reregisters"}
        /\ up => thread[p] # "registers" /\ main[p] # "leaving"

\* The ticker of the Go client keeps a tick for a busy supervisor; the thread
\* of the faces service counts from the end of its last call.
Ticking(p) ==
    IF Python(p) THEN thread[p] = "waits" ELSE thread[p] \in {"waits", "beats", "reregisters"}

Tick ==
    /\ IF Prompt THEN NoTrouble ELSE Trouble
    /\ TimePasses
    /\ due' = [p \in Processes |-> due[p] \/ Ticking(p)]
    /\ UNCHANGED <<up, main, thread, answer, lease, failures, stop, leaving, checked>>

RegistryDown == Trouble /\ RegistryStops /\ UNCHANGED clientVars
RegistryUp == RegistryStarts /\ UNCHANGED <<clientVars, troubles>>

ClientSteps(p) ==
    \/ RegisterService(p) \/ Registered(p) \/ Beats(p) \/ Ends(p)
    \/ HeartbeatSucceeds(p) \/ HeartbeatFails(p)
    \/ DeregisterService(p) \/ DeleteService(p) \/ DeregisterFails(p)

RegistrationNext ==
    \/ \E p \in Processes :
          Start(p) \/ ClientSteps(p) \/ RegisterFails(p) \/ Deregister(p) \/ Exits(p)
    \/ Tick \/ RegistryDown \/ RegistryUp

\* The threads run, the registry answers, a process that has finished its
\* shutdown ends, the clock runs and someone restarts the registry.
RegistrationFairness ==
    /\ \A p \in Processes :
          /\ WF_regVars(RegisterService(p)) /\ WF_regVars(Registered(p))
          /\ WF_regVars(Beats(p)) /\ WF_regVars(Ends(p))
          /\ WF_regVars(HeartbeatSucceeds(p) \/ HeartbeatFails(p))
          /\ WF_regVars(RegisterFails(p) /\ thread[p] = "reregisters")
          /\ WF_regVars(DeregisterService(p) \/ DeleteService(p) \/ DeregisterFails(p))
          /\ WF_regVars(main[p] = "left" /\ Exits(p))
    /\ WF_regVars(Tick)
    /\ WF_regVars(RegistryUp)
===============================================================================
