-------------------------- MODULE MCFaceRecognition --------------------------
(***************************************************************************)
(* Small instances of FaceRecognition; see MCTagEmbeddings for scenarios.  *)
(***************************************************************************)
EXTENDS FaceRecognition

VARIABLE scenario

\* Three photos.  The first two show somebody at full size, each with somebody
\* else behind them; the third shows that other one again, and somebody small
\* who resembles the first a little.
ThreePhotos == {1, 2, 3}
Looks == 1 .. 6
PlaceOfLook == <<1, 1, 2, 2, 3, 3>>
SizeOfLook == <<"full", "weak", "full", "full", "weak", "small">>
SureOfLook == <<8, 7, 9, 7, 6, 5>>
WhoOfLook == <<"she", "he", "she", "he", "he", "it">>
Likeness(d, e) ==
    IF d = e THEN 10
    ELSE IF WhoOfLook[d] = WhoOfLook[e] THEN 8
    ELSE IF {WhoOfLook[d], WhoOfLook[e]} = {"she", "it"} THEN 4
    ELSE 2
LikenessOfLooks == [d \in Looks |-> [e \in Looks |-> Likeness(d, e)]]

\* users: when the user acts; may: what else may happen
Untouched == [users |-> "never", mode |-> {"memory", "store"}, may |-> {"stop", "change"}]
Managed == [users |-> "between", mode |-> {"memory"}, may |-> {"touch"}]
Renewed == [users |-> "between", mode |-> {"store"}, may |-> {"renew"}]
Troubled == [users |-> "never", mode |-> {"store"}, may |-> {"fault", "crash"}]
Fragmented == [users |-> "between", mode |-> {"memory"}, may |-> {"old", "renew", "once"}]
Interrupted == [users |-> "never", mode |-> {"memory", "store"}, may |-> {"old", "crash", "change"}]
Raced == [users |-> "ever", mode |-> {"memory"}, may |-> {"once"}]
Scenarios == {Untouched, Managed, Renewed, Troubled, Fragmented, Interrupted, Raced}

MCVars == <<recognitionVars, scenario>>

May(what) == what \in scenario.may

\* What an older release left: people of single faces, without exemplars
OldTables ==
    /\ scanned = Images
    /\ shows = <<1, 2, 3, 4, 5, 6>>
    /\ faces = [f \in Looks |-> [person |-> <<1, 3, 2, 3, Nobody, 2>>[f], manual |-> FALSE]]
    /\ people = [p \in 1 .. 3 |-> [manual |-> FALSE, cover |-> <<1, 3, 2>>[p], current |-> FALSE]]
    /\ references = [p \in PersonIds |-> <<>>]
    /\ nextPerson = 4

MCInit ==
    /\ scenario \in Scenarios
    /\ IF May("old") THEN OldTables ELSE EmptyTables
    /\ NoRequests /\ JobInit
    /\ mode \in scenario.mode
    /\ recluster => May("crash")

NoneAsked == request = [u \in Users |-> NoRequest]
AllRest == \A w \in Loops : Resting(w)
AllIdle == \A w \in Loops : At(w, "idle")

\* Between passes users take turns.  A loop starts when none is at work: what two
\* do beside each other, one of them stopped but still in its pass, is left out.
OthersWait(u) == AllRest /\ \A v \in Users \ {u} : request[v] = NoRequest

MCNext ==
    /\ UNCHANGED scenario
    /\ \/ /\ scenario.users = "between" => NoneAsked
          /\ \E w \in Loops : (AllIdle /\ Start(w)) \/ Work(w) \/ (May("fault") /\ Fault(w))
       \/ /\ \E u \in Users :
                /\ scenario.users = "ever" \/ (scenario.users = "between" /\ OthersWait(u))
                /\ User(u)
          /\ May("once") => made' <= 1
       \/ May("change") /\ \E i \in Images : PhotoChanged(i)
       \/ May("touch") /\ used.changes = 0 /\ PhotoChanged(3)
       \/ May("renew") /\ AllRest /\ NoneAsked /\ \E release, anew \in BOOLEAN : Relaunch(release, anew)
       \/ May("crash") /\ \E anew \in BOOLEAN : Relaunch(FALSE, anew)
       \/ May("stop") /\ StopRecognition

\* The loop goes on, and the faces service answers within its timeouts.
MCSpec == MCInit /\ [][MCNext]_MCVars /\ \A w \in Loops : WF_recognitionVars(Work(w))

\* Unless a user edits the catalogue during a pass, no face is ever somebody's
\* who is not there, not after a crash amid a re-clustering, an assignment or a
\* tidying either; nor has anybody exemplars who is not there, once all loops
\* rest.  Who was just being merged away at a crash is excepted: their row goes
\* before their exemplars (reconcile.go:583-586), which then find them faces
\* (manager.go: resetGeneratedPeople, replaceFaces, assignKnownPeople,
\* deleteEmptyPeople; reconcile.go: reconcileRound; catalog.go).
SerialPeopleAreThere ==
    scenario.users # "ever" =>
        /\ NoFaceOfAStranger
        /\ AllRest => NoExemplarsOfAStranger

\* Nor are covers other people's after a pass that was not disturbed; and in a
\* gallery that only the job looks at, whoever has faces is shown by one then,
\* and one look never is two people, however passes are stopped and photos
\* analysed again (manager.go: replaceFaces, refreshPersonCovers; reconcile.go:
\* clusterAssign; catalog.go).
SerialCatalogueIsSound ==
    /\ TypeOK
    /\ scenario.users # "ever" =>
          /\ AtRest /\ ~May("crash") => CoversAgree
          /\ AtRest /\ scenario.users = "never" => AllAreShown
    /\ scenario = Untouched => OnePersonPerLook

\* What the user curated between passes is still so after them, also when all
\* photos are analysed or clustered anew (clusterAssign, reconcileRound,
\* deleteEmptyPeople, resetGeneratedPeople).
SerialCurationIsKept ==
    [][scenario.users = "between" /\ NoneAsked => CurationIsKept]_MCVars

\* While the job is left running, faces that could be a person do not stay
\* nobody's, also if they were stored by a pass that was stopped (runPass:
\* clusterPending; clusterAssign).
UntouchedLooksGetPeople ==
    scenario = Untouched => (<>[]mgr.running => []<>(Clusterable = {}))
===============================================================================
