------------------------- MODULE MCOcrClassification -------------------------
(***************************************************************************)
(* Small instances of OcrClassification.  One run explores several         *)
(* scenarios; see MCTagEmbeddings.                                         *)
(***************************************************************************)
EXTENDS OcrClassification

CONSTANT Scenarios

\* No scenario starts more runs than there are.  One in which somebody stops has
\* one run only: the next one forgets the stop, also when the run that was
\* stopped has not ended.
ASSUME ScenariosOK ==
    /\ IsFiniteSet(Runs)
    /\ \A s \in Scenarios :
          /\ s.starts \in Seq(BOOLEAN) /\ Len(s.starts) <= Cardinality(Runs)
          /\ "stop" \in s.may => Len(s.starts) <= 1

VARIABLE scenario

\* gallery: the images there are at first; starts: of which kind the runs are
\* (TRUE: incremental), one after the other; may: what else may happen
Stopped == [gallery |-> 1 .. 5, starts |-> <<FALSE>>, may |-> {"stop"}]
Failing == [gallery |-> {1, 2}, starts |-> <<FALSE>>, may |-> {"stop", "fail", "tune"}]
Successive == [gallery |-> {1, 2}, starts |-> <<FALSE, FALSE>>, may |-> {}]
Changing == [gallery |-> {1}, starts |-> <<TRUE, TRUE>>, may |-> {"change"}]
Every == {Stopped, Failing, Successive, Changing}
Two == {Successive}
Tuned == {Failing}

MCVars == <<vars, scenario>>

MCInit ==
    /\ Init
    /\ scenario \in Scenarios
    /\ content = [i \in Images |-> IF i \in scenario.gallery THEN 1 ELSE 0]
    /\ "tune" \in scenario.may \/ maxWorkers # 3
    /\ scenario = Stopped => maxWorkers = 1

Idle == Active = {} /\ \A r \in Runs : Waited(r) = {}

\* How many runs have started, and the one that does so next
Begun == Cardinality({r \in Runs : run[r].pc # "idle"})
First(S) == CHOOSE r \in S : TRUE

MCNext ==
    /\ UNCHANGED scenario
    /\ \/ /\ Begun < Len(scenario.starts)
          /\ "change" \in scenario.may => Idle /\ \A i \in Images : pending[i] # "changed"
          /\ StartClassification(First({r \in Runs : run[r].pc = "idle"}), scenario.starts[Begun + 1])
       \/ "change" \in scenario.may /\ Idle /\ Change
          /\ \A i \in Images \ {1, 2} : UNCHANGED content[i]
       \/ Continue
       \/ "fail" \in scenario.may /\ Fail
       \/ "stop" \in scenario.may /\ StopClassification
       \/ "tune" \in scenario.may /\ \E n \in Settings : SetMaxWorkers(n)

MCSpec == MCInit /\ [][MCNext]_MCVars /\ Fairness

\* With an OCR service and a database that answer, a run whose channel is
\* closed late leaves no image it found without a classification; and a change
\* of a file between runs is one that the next run sees (launchWorkers,
\* consumeResults, queryUnclassifiedImages).
NothingIsLost ==
    /\ scenario.may \cap {"fail", "change"} = {} => ClosedLateLosesNothing
    /\ StaleIsCandidate
===============================================================================
