------------------------- MODULE MCModelCatalog -------------------------
(***************************************************************************)
(* ModelCatalog in two scenes: requests and changes of the provider one    *)
(* after the other, and two requests at the same time with everything but  *)
(* the rows' ageing.  Requests are made in the order of their numbers,     *)
(* which changes nothing else, for their names mean nothing.               *)
(***************************************************************************)
EXTENDS ModelCatalog

VARIABLE scene

vars == <<catalogVars, scene>>

Together == 1 .. 2

Made == {r \in Requests : stage[r] # "unmade"}
Running(r) == stage[r] \notin {"unmade", "done"}
OneByOne ==
    /\ \A q, r \in Requests : Running(q) /\ Running(r) => q = r
    /\ clearing <= 1
    /\ clearing = 1 => \A r \in Requests : ~Running(r)

Init == CatalogInit /\ scene \in {"orderly", "together"}

Next ==
    /\ CatalogNext /\ UNCHANGED scene
    /\ \A r \in Made' : \A q \in Requests : q < r => q \in Made'
    /\ IF scene = "orderly" THEN OneByOne' ELSE Made' \subseteq Together /\ ageings' = 0

-----------------------------------------------------------------------------
(* Properties *)

\* A listing that does not describe all its models leaves every description
\* that a provider has given: no model it describes is deleted, none is
\* replaced by a guess (MergeProviderCatalog, collectAndPersist).
Described == {m \in DOMAIN catalog : catalog[m] \in Addresses}

KeepsDescriptions(r) ==
    stage[r] = "merges" /\ stage'[r] = "closes" /\ ~Rich(r) => Described \subseteq Described'

OrderlyKeepsDescriptions ==
    [][scene = "orderly" => \A r \in Requests : KeepsDescriptions(r)]_vars

\* What providers have told of their models is from the provider's present
\* address, once the models of the former one have been deleted
\* (handleUpdateLlmProvider, storedModelFromInfo).
OrderlyDescribesTheAddress ==
    scene = "orderly" /\ clearing = 0 => \A m \in Described : catalog[m] = provider.address

\* Every request is answered, whoever leads the refresh it waits for and
\* however that ends (singleFlight).
EveryRequestIsAnswered == \A r \in Requests : stage[r] = "reads" ~> stage[r] = "done"
=============================================================================
