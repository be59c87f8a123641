-------------------------- MODULE ModelCatalog --------------------------
(***************************************************************************)
(* The stored catalogue of the models of one LLM provider.  A request is   *)
(* answered from the rows; when they are too old, or when it asks so, the  *)
(* provider is asked again first and its listing is merged into the rows.  *)
(* Requests that meet in a refresh share it (singleFlight).  Meanwhile the *)
(* administrator changes the provider's address or deletes the provider.   *)
(*                                                                         *)
(* Of what is known of a model remains who described it: the provider that *)
(* answers at an address, a heuristic that guesses from its name, or       *)
(* nobody, when only its name was stored.                                  *)
(***************************************************************************)
EXTENDS Naturals, FiniteSets

CONSTANTS
    NoFlight,    \* no refresh
    Requests,    \* requests for the catalogue, each made once
    Models,      \* models that providers offer
    MaxMoves,    \* changes of the provider's address
    MaxAgeings   \* times the catalogue outlives its TTL

VARIABLES
    provider,  \* its row: exists, address, the time and the kind of its last refresh
    catalog,   \* the rows of its models: who described each of them
    stage,     \* what each request does next
    explicit,  \* the requests that demand a refresh
    known,     \* the models a request found stored (stored)
    target,    \* the address of the provider it has read
    listing,   \* the listing it was given, as the leader of a refresh
    flight,    \* the refresh under way, named by its leader (inflight), or NoFlight
    joined,    \* the refresh a request waits for
    result,    \* what has become of the refresh each request has led
    answer,    \* how each request was answered
    clearing,  \* changes of the address whose models have yet to be deleted
    ageings    \* times the catalogue has aged

catalogVars == <<provider, catalog, stage, explicit, known, target, listing, flight, joined,
                 result, answer, clearing, ageings>>

Addresses == 0 .. MaxMoves
Stages == {"unmade", "reads", "joins", "waits", "lists", "merges", "closes", "reloads", "done"}

\* Who described a model: the provider at an address, a heuristic, or nobody.
Guessed == MaxMoves + 1
Unknown == MaxMoves + 2
Descriptions == Addresses \cup {Guessed, Unknown}

Answers == {"none", "error", "stale", "good"}

\* A provider lists some models and describes them, or leaves that to guessing.
Listings == UNION {[S -> BOOLEAN] : S \in SUBSET Models}
Nothing == [m \in {} |-> Unknown]

CatalogTypeOK ==
    /\ provider \in [exists : BOOLEAN, address : Addresses,
                     fetched : {"never", "fresh", "expired"}, rich : BOOLEAN]
    /\ DOMAIN catalog \subseteq Models /\ \A m \in DOMAIN catalog : catalog[m] \in Descriptions
    /\ stage \in [Requests -> Stages] /\ explicit \subseteq Requests
    /\ known \in [Requests -> SUBSET Models] /\ target \in [Requests -> Addresses]
    /\ \A r \in Requests : listing[r] \in Listings
    /\ flight \in Requests \cup {NoFlight} /\ joined \in [Requests -> Requests \cup {NoFlight}]
    /\ result \in [Requests -> {"open", "ok", "failed"}]
    /\ answer \in [Requests -> Answers] /\ clearing \in 0 .. MaxMoves /\ ageings \in 0 .. MaxAgeings

CatalogInit ==
    /\ provider = [exists |-> TRUE, address |-> 0, fetched |-> "never", rich |-> FALSE]
    /\ catalog = Nothing
    /\ stage = [r \in Requests |-> "unmade"] /\ explicit = {}
    /\ known = [r \in Requests |-> {}] /\ target = [r \in Requests |-> 0]
    /\ listing = [r \in Requests |-> Nothing]
    /\ flight = NoFlight /\ joined = [r \in Requests |-> NoFlight]
    /\ result = [r \in Requests |-> "open"]
    /\ answer = [r \in Requests |-> "none"] /\ clearing = 0 /\ ageings = 0

Moves(r, from, to) == stage[r] = from /\ stage' = [stage EXCEPT ![r] = to]
Answered(r, how) == answer' = [answer EXCEPT ![r] = how]

-----------------------------------------------------------------------------
(* A request *)

\* Get: the provider is looked up by its alias.
Get(r) ==
    /\ Moves(r, "unmade", IF provider.exists THEN "reads" ELSE "done")
    /\ target' = [target EXCEPT ![r] = provider.address]
    /\ IF provider.exists THEN UNCHANGED answer ELSE Answered(r, "error")
    /\ explicit' \in {explicit, explicit \cup {r}}
    /\ UNCHANGED <<provider, catalog, known, listing, flight, joined, result, clearing, ageings>>

\* getForProvider reads what is stored, and is content with it while it is
\* fresh and nobody demands more.
ReadStored(r) ==
    /\ stage[r] = "reads"
    /\ LET content == provider.exists /\ r \notin explicit /\ provider.fetched = "fresh"
       IN  /\ Moves(r, "reads", IF content \/ ~provider.exists THEN "done" ELSE "joins")
           /\ answer' = [answer EXCEPT ![r] =
                            IF ~provider.exists THEN "error" ELSE IF content THEN "good" ELSE @]
    /\ known' = [known EXCEPT ![r] = DOMAIN catalog]
    /\ UNCHANGED <<provider, catalog, explicit, target, listing, flight, joined, result, clearing, ageings>>

\* singleFlight: lead a refresh, or wait for the one under way.
Lead(r) ==
    /\ Moves(r, "joins", "lists") /\ flight = NoFlight
    /\ flight' = r
    /\ UNCHANGED <<provider, catalog, explicit, known, target, listing, joined, result, answer, clearing, ageings>>

Wait(r) ==
    /\ Moves(r, "joins", "waits") /\ flight # NoFlight
    /\ joined' = [joined EXCEPT ![r] = flight]
    /\ UNCHANGED <<provider, catalog, explicit, known, target, listing, flight, result, answer, clearing, ageings>>

\* The provider answers with a listing in which it describes some models.  One
\* without models is an error, like no answer.
List(r) ==
    /\ Moves(r, "lists", "merges")
    /\ \E l \in Listings : DOMAIN l # {} /\ listing' = [listing EXCEPT ![r] = l]
    /\ UNCHANGED <<provider, catalog, explicit, known, target, flight, joined, result, answer, clearing, ageings>>

\* The refresh is over: the leader tells those who wait (close), and then
\* removes it from the map.
Lands(r, how) == result' = [result EXCEPT ![r] = how]

ListFails(r) ==
    /\ Moves(r, "lists", "closes") /\ Lands(r, "failed")
    /\ UNCHANGED <<provider, catalog, explicit, known, target, listing, flight, joined, answer, clearing, ageings>>

\* A plausible error: whatever the listing says is taken.
TakesGuesses(r, m) == IF listing[r][m] THEN target[r] ELSE Guessed

\* What the listing says of a model: of one that was stored already and that
\* the provider does not describe, only its name is taken.
Incoming(r, m) ==
    IF listing[r][m] THEN target[r] ELSE IF m \in known[r] THEN Unknown ELSE Guessed

\* MergeProviderCatalog and mergeCatalogModel: what the listing does not know
\* of a model keeps its stored value.
Merged(r, m) ==
    IF m \in DOMAIN catalog /\ Incoming(r, m) = Unknown THEN catalog[m] ELSE Incoming(r, m)

Rich(r) == \A m \in DOMAIN listing[r] : listing[r][m]

\* Only a listing that describes all its models deletes the others.
Merge(r) ==
    /\ Moves(r, "merges", "closes") /\ Lands(r, "ok")
    /\ provider.exists
    /\ catalog' = [m \in DOMAIN listing[r] \cup (IF Rich(r) THEN {} ELSE DOMAIN catalog) |->
                      IF m \in DOMAIN listing[r] THEN Merged(r, m) ELSE catalog[m]]
    /\ provider' = [provider EXCEPT !.fetched = "fresh", !.rich = Rich(r)]
    /\ UNCHANGED <<explicit, known, target, listing, flight, joined, answer, clearing, ageings>>

\* The transaction fails and is rolled back, as it must without the provider's
\* row (foreign key).
MergeFails(r) ==
    /\ Moves(r, "merges", "closes") /\ Lands(r, "failed")
    /\ UNCHANGED <<provider, catalog, explicit, known, target, listing, flight, joined, answer, clearing, ageings>>

Forget(r) ==
    /\ Moves(r, "closes", "reloads") /\ flight = r
    /\ flight' = NoFlight
    /\ UNCHANGED <<provider, catalog, explicit, known, target, listing, joined, result, answer, clearing, ageings>>

Landed(r) ==
    /\ stage[r] = "waits" /\ result[joined[r]] # "open"
    /\ Moves(r, "waits", "reloads")
    /\ UNCHANGED <<provider, catalog, explicit, known, target, listing, flight, joined, result, answer, clearing, ageings>>

\* The client of a request that waits goes away.
GivesUp(r) ==
    /\ stage[r] = "waits"
    /\ Moves(r, "waits", "reloads")
    /\ joined' = [joined EXCEPT ![r] = NoFlight]
    /\ UNCHANGED <<provider, catalog, explicit, known, target, listing, flight, result, answer, clearing, ageings>>

\* What is stored now is the answer.  After a refresh that failed it is stale,
\* and an error if there is nothing.
Succeeded(r) == LET f == IF joined[r] = NoFlight THEN r ELSE joined[r] IN result[f] = "ok"

Forgets(r) ==
    /\ known' = [known EXCEPT ![r] = {}] /\ target' = [target EXCEPT ![r] = 0]
    /\ listing' = [listing EXCEPT ![r] = Nothing] /\ joined' = [joined EXCEPT ![r] = NoFlight]
    /\ explicit' = explicit \ {r}

Reload(r) ==
    /\ Moves(r, "reloads", "done")
    /\ Answered(r, IF ~provider.exists \/ (~Succeeded(r) /\ DOMAIN catalog = {}) THEN "error"
                   ELSE IF Succeeded(r) THEN "good" ELSE "stale")
    /\ Forgets(r)
    /\ UNCHANGED <<provider, catalog, flight, result, clearing, ageings>>

RequestSteps(r) ==
    \/ ReadStored(r) \/ Lead(r) \/ Wait(r) \/ List(r) \/ ListFails(r) \/ Merge(r) \/ MergeFails(r)
    \/ Forget(r) \/ Landed(r) \/ Reload(r)

-----------------------------------------------------------------------------
(* The provider's row *)

\* handleUpdateLlmProvider writes the new address, and after it deletes the
\* models (DeleteModelsByProviderID).
MoveProvider ==
    /\ provider.exists /\ provider.address < MaxMoves
    /\ provider' = [provider EXCEPT !.address = @ + 1]
    /\ clearing' = clearing + 1
    /\ UNCHANGED <<catalog, stage, explicit, known, target, listing, flight, joined, result, answer, ageings>>

\* A plausible error: a catalogue that is still fresh is kept.
DeletesIdle ==
    /\ clearing > 0 /\ clearing' = clearing - 1
    /\ catalog' = IF provider.fetched = "fresh" THEN catalog ELSE Nothing
    /\ UNCHANGED <<provider, stage, explicit, known, target, listing, flight, joined, result, answer, ageings>>

DeleteModels ==
    /\ clearing > 0 /\ clearing' = clearing - 1
    /\ catalog' = Nothing
    /\ UNCHANGED <<provider, stage, explicit, known, target, listing, flight, joined, result, answer, ageings>>

\* handleDeleteLlmProvider: its models go with the row (cascade).
DeleteProvider ==
    /\ provider.exists
    /\ provider' = [provider EXCEPT !.exists = FALSE]
    /\ catalog' = Nothing
    /\ UNCHANGED <<stage, explicit, known, target, listing, flight, joined, result, answer, clearing, ageings>>

\* isExpired: the catalogue has outlived its TTL.
Expire ==
    /\ provider.fetched = "fresh" /\ ageings < MaxAgeings
    /\ provider' = [provider EXCEPT !.fetched = "expired"] /\ ageings' = ageings + 1
    /\ UNCHANGED <<catalog, stage, explicit, known, target, listing, flight, joined, result, answer, clearing>>

CatalogNext ==
    \/ \E r \in Requests : Get(r) \/ RequestSteps(r) \/ GivesUp(r)
    \/ MoveProvider \/ DeleteModels \/ DeleteProvider \/ Expire
=============================================================================
