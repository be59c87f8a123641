--------------------------- MODULE MCRegistry ----------------------------
(***************************************************************************)
(* Two processes of the exif service, old and its replacement new, under   *)
(* the same SERVICE_ID, a core service and a faces service.  A scene says  *)
(* which of them are started, whether a resolver looks for them, and how   *)
(* much of the budget of troubles is gone.                                 *)
(***************************************************************************)
EXTENDS Discovery

CONSTANTS old, new, core, faces

MCId == [p \in Processes |->
           CASE p \in {old, new} -> "exif" [] p = core -> "core" [] p = faces -> "faces"]
MCKind == MCId

Scene(S, r, spent) ==
    /\ \A p \in Processes : main[p] = "off" <=> p \in S
    /\ resolver = r /\ troubles = spent

MCInit ==
    /\ Init
    /\ \/ Scene({old, new}, "unused", 0)
       \/ Scene({core}, "unused", 0)
       \/ Scene({faces}, "unused", 0)
       \/ Scene({core, faces}, "unused", 1)
       \/ Scene({old, new}, "off", MaxTroubles)

MCSpec == MCInit /\ [][Next]_vars /\ Fairness

-----------------------------------------------------------------------------
\* A service that keeps running ends up listed, with its own registration, and
\* stays so whatever outage of the registry came before (supervise,
\* client.go:405-407).
RunningIsListed == \A p \in Processes : <>[](main[p] = "up") => <>[]Owns(p)

\* When no process of an instance id runs any more, removed or killed, even if
\* its supervisor registered it again meanwhile, the id leaves the list.
StoppedIsGone ==
    \A k \in Ids : <>[](\A p \in Processes : Id[p] = k => main[p] \in {"off", "gone"})
                      => <>[]~Listed(k)

\* What is listed follows what runs.
ListFollowsServices == RunningIsListed /\ StoppedIsGone

\* The resolver's address ends up, and stays, the one of a listed instance, or
\* the configured one when none is listed: events lost with a stream, failed
\* reads and refreshes that overtake each other are made up for (NewResolver).
PeerFollows ==
    \A S \in {{}, {old}, {new}} :
        (<>(resolver = "runs") /\ <>[](up /\ Publishers = S))
            => <>[](url \in IF S = {} THEN {Bootstrap} ELSE {{p} : p \in S})

=============================================================================
