--------------------------- MODULE MCTagEmbeddings ---------------------------
(***************************************************************************)
(* Small instances of TagEmbeddings.  One run explores several scenarios,  *)
(* each a restriction of Next that a behaviour picks when it begins, so    *)
(* that a property which only some of them justify is checked in those.    *)
(***************************************************************************)
EXTENDS TagEmbeddings

CONSTANT Scenarios

\* serial: operations do not overlap; faults: the embedding service may fail;
\* invalidate: files may change; stop: the administrator may stop a backfill
ASSUME ScenariosOK ==
    Scenarios \subseteq [serial : BOOLEAN, faults : BOOLEAN, invalidate : BOOLEAN, stop : BOOLEAN]

VARIABLE scenario

Every == {
    [serial |-> TRUE, faults |-> FALSE, invalidate |-> TRUE, stop |-> TRUE],
    [serial |-> TRUE, faults |-> TRUE, invalidate |-> TRUE, stop |-> TRUE],
    [serial |-> FALSE, faults |-> FALSE, invalidate |-> FALSE, stop |-> FALSE],
    [serial |-> FALSE, faults |-> TRUE, invalidate |-> FALSE, stop |-> TRUE]}

MCVars == <<vars, scenario>>

MCInit == Init /\ scenario \in Scenarios

MCNext ==
    /\ UNCHANGED scenario
    /\ \/ /\ scenario.serial => Quiet
          /\ Begin
          /\ scenario.invalidate \/ \A x \in Writers : writer'[x].pc # "unembed"
       \/ Continue
       \/ scenario.faults /\ Fail
       \/ scenario.stop /\ StopBackfill

MCSpec == MCInit /\ [][MCNext]_MCVars /\ Fairness

\* When operations do not overlap, an image has one vector at most and, if the
\* service answers, that of its tags; if it answers and no file changes, every
\* tagged image ends with one, however writers, hooks and backfills overlap
\* (upsertEmbedding, SaveImageTags, InvalidateTagsAndEmbeddings;
\* infrastructure/database/embedding_tables.go:69).
EmbeddingsAreSound ==
    /\ scenario.serial => OneEmbeddingPerImage
    /\ scenario.serial /\ ~scenario.faults => EmbeddingMatchesTags
    /\ ~scenario.faults /\ ~scenario.invalidate => TaggedIsEmbedded

\* Every backfill ends, and when operations do not overlap, one that runs out of
\* pages, unstopped and with no error to report, left no gap
\* (EmbeddingBackfillManager.run).
BackfillsEndWhole == BackfillEnds /\ [][scenario.serial => NoGapLeft]_MCVars
===============================================================================
