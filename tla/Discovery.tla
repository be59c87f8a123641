---------------------------- MODULE Discovery ----------------------------
(***************************************************************************)
(* The address of a peer that the core service keeps: a Resolver of        *)
(* registrybootstrap.  One goroutine watches the registrations of the      *)
(* service and reads them again at every event, another one reads them     *)
(* periodically; both set the same address, the one of some listed         *)
(* instance (the registry lists them in no order), or the configured one   *)
(* when the registry does not answer or lists none.                        *)
(*                                                                         *)
(* The watch stream ends when the registry stops, after watchTimeout, or   *)
(* when the connection breaks; events on their way may then be lost.       *)
(***************************************************************************)
EXTENDS Registration

VARIABLES
    resolver,  \* "off", "first" (the synchronous resolution), "runs", "unused"
    url,       \* the peer's address: a process, or the configured one
    stream,    \* the watch stream is open
    event,     \* an event the watcher has not handled
    found      \* what the refresh of each goroutine has read, and not set yet

resolverVars == <<resolver, url, stream, event, found>>
vars == <<regVars, resolverVars>>

Bootstrap == {}                       \* bootstrapURL
Refreshers == {"first", "watcher", "ticker"}
Reading == {{"none"}}
Urls == {Bootstrap} \cup {{p} : p \in Processes}

TypeOK ==
    /\ RegistrationTypeOK
    /\ resolver \in {"off", "first", "runs", "unused"}
    /\ url \in Urls
    /\ {stream, event} \subseteq BOOLEAN
    /\ found \in [Refreshers -> Urls \cup Reading]

ResolverInit ==
    /\ resolver \in {"off", "unused"}
    /\ url = Bootstrap
    /\ stream = FALSE /\ event = FALSE
    /\ found = [w \in Refreshers |-> {"none"}]

Idle(w) == found[w] \in Reading

\* The processes whose registrations are listed.
Publishers == UNION {store[k].by : k \in Ids}

\* A plausible error: the address is kept when the list is empty.
KeepPeer == IF up /\ Publishers # {} THEN {{p} : p \in Publishers} ELSE {url}

\* ResolvePeer: an instance of the list, the configured address otherwise.
ResolvePeer ==
    IF up /\ Publishers # {} THEN {{p} : p \in Publishers} ELSE {Bootstrap}

\* The first half of refresh: the list is read, or the call fails.
Discovers(w) ==
    /\ Idle(w)
    /\ \/ \E u \in ResolvePeer : found' = [found EXCEPT ![w] = u] /\ NoTrouble
       \/ up /\ Trouble /\ found' = [found EXCEPT ![w] = Bootstrap]
    /\ UNCHANGED <<registryVars, clientVars>>

NewResolver ==
    /\ resolver = "off"
    /\ resolver' = "first"
    /\ Discovers("first")
    /\ UNCHANGED <<url, stream, event>>

\* The second half: the address is set.
Sets(w) ==
    /\ ~Idle(w)
    /\ url' = found[w]
    /\ found' = [found EXCEPT ![w] = {"none"}]
    /\ resolver' = "runs"
    /\ UNCHANGED <<regVars, stream, event>>

\* The stream is opened, and the registry says so with a "ready" event.
WatchInstances ==
    /\ resolver = "runs" /\ up /\ ~stream /\ ~event /\ Idle("watcher")
    /\ stream' = TRUE /\ event' = TRUE
    /\ UNCHANGED <<regVars, resolver, url, found>>

StreamEnds ==
    /\ stream /\ stream' = FALSE
    /\ event' \in {event, FALSE}
    /\ UNCHANGED <<regVars, resolver, url, found>>

\* An event makes the watcher read the list.
HandleEvent ==
    /\ event /\ event' = FALSE
    /\ Discovers("watcher")
    /\ UNCHANGED <<resolver, url, stream>>

\* So does the ticker of the other goroutine, every peerResyncInterval.
Resync ==
    /\ resolver = "runs"
    /\ Discovers("ticker")
    /\ UNCHANGED <<resolver, url, stream, event>>

ResolverNext ==
    \/ NewResolver \/ WatchInstances \/ StreamEnds \/ HandleEvent \/ Resync
    \/ \E w \in Refreshers : Sets(w)

\* What the registry does reaches the resolver over the stream.
RegistrationStep ==
    /\ RegistrationNext
    /\ stream' = (stream /\ up')
    /\ IF stream /\ up' /\ store' # store THEN event' = TRUE ELSE UNCHANGED event
    /\ UNCHANGED <<resolver, url, found>>

Init == RegistrationInit /\ ResolverInit
Next == RegistrationStep \/ ResolverNext

Fairness ==
    /\ RegistrationFairness
    /\ \A w \in Refreshers : WF_vars(Sets(w))
    /\ WF_vars(WatchInstances) /\ WF_vars(HandleEvent) /\ WF_vars(Resync)

Spec == Init /\ [][Next]_vars /\ Fairness
=============================================================================
