------------------------ MODULE MCLanguageModels ------------------------
(***************************************************************************)
(* What is asked of language models (AiTasks), the catalogue of those      *)
(* there are (MCModelCatalog) and the decisions on a photo that one has    *)
(* enhanced (MCEnhancements), checked in scenes of one model: they share   *)
(* nothing, for a task's model is settled when its request comes in.       *)
(***************************************************************************)
EXTENDS AiTasks

(***************************************************************************)
(* AiTasks with few requests, and what has to be remembered of its past to *)
(* say what it promises.  Requests are made in the order of their numbers, *)
(* all about texts or all about tags and other actions, which share        *)
(* nothing.                                                                *)
(***************************************************************************)
VARIABLES joined,     \* the request whose goroutine works for each request, itself mostly
          disturbed,  \* requests whose finished task was taken from them, or forgotten
          text,       \* what was last recognised on each photo
          mixed,      \* photos whose tags two tasks have saved at once
          about       \* what requests are made about: texts or tags

aiVarsMC == <<aiVars, joined, disturbed, text, mixed, about>>

Word(w, form) == [word |-> w, form |-> form]

\* Lists that are good, too short, too long, repeat a tag or hold a made-up one
FewResponses == {<<Word(1, "lower"), Word(2, "lower")>>,
                 <<Word(1, "lower"), Word(1, "upper"), Word(3, "madeUp")>>,
                 <<Word(2, "upper"), Word(2, "lower"), Word(1, "lower"), Word(3, "madeUp")>>,
                 <<Word(1, "lower"), Word(2, "lower"), Word(3, "lower")>>}

Init ==
    /\ AiInit
    /\ joined = [r \in Requests |-> {}]
    /\ disturbed = {}
    /\ text = [p \in Photos |-> <<>>]
    /\ mixed = {}
    /\ about \in {"texts", "tags"}

Running(p) == {r \in Requests : asks[r] # Nothing /\ asks[r].photo = p /\ job[r] # "none"}
Recognisers(p) == {r \in Running(p) : asks[r].kind = "recognize"}
Saving(p) == {r \in Running(p) : job[r] \in {"deletes", "inserts"}}

\* A request joins the goroutine that works on its task when it begins to
\* poll; of a task that is finished already there is none.
Joins(r) ==
    IF stage'[r] = "polls" /\ stage[r] \in {"unmade", "starts"}
    THEN IF asks'[r].kind = "recognize" THEN Recognisers(asks[r].photo)'
         ELSE {r} \ {q \in Requests : job'[q] = "none"}
    ELSE joined[r]

\* The task of a request that polls for it is finished, and gone without it.
Robbed(r) ==
    /\ stage[r] = "polls" /\ stage'[r] # "done"
    /\ IF asks[r].kind = "recognize"
       THEN /\ Finished(recognising[asks[r].photo])
            /\ recognising'[asks[r].photo] # recognising[asks[r].photo]
       ELSE Finished(actions[r]) /\ actions'[r] # actions[r]

Forgotten(r) == restarts' # restarts /\ stage[r] \notin {"unmade", "done"}

\* What was last read on p, however it was kept
Reads(p) ==
    LET read == {r \in Recognisers(p) : outcome'[r] # outcome[r] /\ outcome'[r].value # <<>>}
    IN  IF read = {} THEN text[p] ELSE outcome'[CHOOSE r \in read : TRUE].value

\* Two goroutines save a photo's tags.
Mixes(p) == \E q, r \in Saving(p)' : q # r

Remember ==
    /\ joined' = [r \in Requests |-> Joins(r)]
    /\ disturbed' = disturbed \cup {r \in Requests : Robbed(r) \/ Forgotten(r)}
    /\ text' = [p \in Photos |-> Reads(p)]
    /\ mixed' = mixed \cup {p \in Photos : Mixes(p)}
    /\ UNCHANGED about

Next ==
    /\ AiNext
    /\ \A r \in Requests : asks'[r] # Nothing => (asks'[r].kind = "recognize" <=> about = "texts")
    /\ about = "tags" => \A r \in Requests : 2 < r => stage'[r] = "unmade"
    /\ \A r \in Requests : \A q \in Requests : q < r /\ stage'[r] # "unmade" => stage'[q] # "unmade"
    /\ Remember

-----------------------------------------------------------------------------
\* A photo has one recognition at a time, and whoever asked for it is told
\* what it came to, unless another poll took the finished task, it outlived
\* taskTTL or the core restarted (StartRecognizeAsync, GetRecognizeStatus,
\* GetAiActionStatus, cleanupExpiredTasks).
AnswersAreOwn ==
    /\ \A p \in Photos : \A q, r \in Recognisers(p) : q = r
    /\ \A r \in Requests \ disturbed :
          stage[r] = "done" => \A run \in joined[r] : answer[r] = outcome[run]

\* Who polls for a task is told in the end what it came to, with the same exceptions.
PollingEnds == \A r \in Requests : stage[r] = "polls" ~> (stage[r] = "done" \/ r \in disturbed)

\* A text that was recognised stays stored until another one is: neither a
\* failure nor a restart takes it away (RecognizeWithLlm).
RecognisedTextIsKept ==
    \A p \in Photos :
        /\ stored[p].success => stored[p].text = text[p]
        /\ text[p] # <<>> => stored[p].success

\* Unless two goroutines save them at once, a photo's tags are those that one
\* answer of the model comes to, each of them once, without made-up ones, and
\* no fewer or more than a photo is given, or none at all, even if saving them
\* fails or is cut short (SaveImageTags, PostProcessTags).
TagsOfOneAnswer ==
    \A p \in Photos \ mixed : tags[p] # <<>> =>
        /\ \A i, j \in DOMAIN tags[p] :
              /\ tags[p][i].by = tags[p][j].by
              /\ i # j => tags[p][i].tag.word # tags[p][j].tag.word
        /\ \A i \in DOMAIN tags[p] : IsTag(tags[p][i].tag)
        /\ InRange(tags[p])

\* Answers are one's own, and what is stored of them is sound.
AnswersAreSound == AiTypeOK /\ AnswersAreOwn /\ RecognisedTextIsKept /\ TagsOfOneAnswer

-----------------------------------------------------------------------------
(* The catalogue and the enhancements beside them *)

CONSTANTS NoFlight, Models, MaxMoves, Clients, MaxImages, Names

ASSUME LanguageModelsAssumption ==
    /\ {MaxMoves, MaxImages} \subseteq Nat /\ 0 < MaxImages
    /\ Names \subseteq Nat \ {0}

VARIABLES provider, catalog, catalogStage, explicit, known, target, listing, flight,
          waitsFor, result, catalogAnswer, clearing, catalogAgeings, scene,
          photo, enhanced, copies, backup, configured, photoRow, copyRows, work, images,
          met, unsynced, backedUp, lost, saved,
          part  \* what moves: the tasks, the catalogue or the enhancements

catalogue == <<provider, catalog, catalogStage, explicit, known, target, listing, flight,
               waitsFor, result, catalogAnswer, clearing, catalogAgeings, scene>>

C == INSTANCE MCModelCatalog
         WITH stage <- catalogStage, joined <- waitsFor, answer <- catalogAnswer,
              ageings <- catalogAgeings

enhancements == <<photo, enhanced, copies, backup, configured, photoRow, copyRows, work, images,
                  met, unsynced, backedUp, lost, saved>>

E == INSTANCE MCEnhancements

LlmInit ==
    /\ Init /\ C!Init /\ E!Init
    /\ part \in {"tasks", "catalogue", "enhancements"}
    /\ part # "tasks" => about = "texts"
    /\ part # "catalogue" => scene = "orderly"
    /\ part # "enhancements" => ~configured

Ask == part = "tasks" /\ Next /\ UNCHANGED <<catalogue, enhancements, part>>
Catalogue == part = "catalogue" /\ C!Next /\ UNCHANGED <<aiVarsMC, enhancements, part>>
Enhance == part = "enhancements" /\ E!Next /\ UNCHANGED <<aiVarsMC, catalogue, part>>

LlmNext == Ask \/ Catalogue \/ Enhance

llmVars == <<aiVarsMC, catalogue, enhancements, part>>

\* Goroutines are run on, those that work on tasks and those that serve
\* requests for the catalogue; calls to a provider have a timeout.  The web
\* application polls every two seconds.
LlmFairness ==
    \A r \in Requests :
        /\ WF_aiVars(TaskSteps(r)) /\ WF_aiVars(Polls(r))
        /\ WF_catalogue(C!RequestSteps(r) /\ UNCHANGED scene)

LlmSpec == LlmInit /\ [][LlmNext]_llmVars /\ LlmFairness

-----------------------------------------------------------------------------
\* What providers have told of their models is from the provider's present
\* address, when requests and changes come one by one.
OrderlyDescribesTheAddress == C!CatalogTypeOK /\ C!OrderlyDescribesTheAddress

\* A listing that does not describe all its models leaves every description
\* that a provider has given.
OrderlyKeepsDescriptions == C!OrderlyKeepsDescriptions

\* What a user decides of an enhanced photo is done, and nothing that was to be
\* kept is overwritten (handleReplaceEnhancement, handleSaveCopyEnhancement).
ChoicesAreKept == E!ChoicesAreKept

\* Every request for the catalogue is answered, and every poll for a task is
\* in the end.
RequestsEnd == PollingEnds /\ C!EveryRequestIsAnswered
=============================================================================
