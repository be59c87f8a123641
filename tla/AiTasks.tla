----------------------------- MODULE AiTasks -----------------------------
(***************************************************************************)
(* What a language model is asked about photos: the text of a photo, which *)
(* is kept in a row of its own, its tags, and other actions whose answer   *)
(* is kept nowhere.  A request of the web application starts a goroutine   *)
(* and polls for its task; an MCP tool waits for the answer.               *)
(*                                                                         *)
(* A text is <<>> when the photo has none, and otherwise named by the      *)
(* request that had it recognised.  The pauses of the tag scan that a task *)
(* asks for are part of TagScan, the embeddings of tags of TagEmbeddings.  *)
(***************************************************************************)
EXTENDS Naturals, Sequences

CONSTANTS
    Photos,
    Requests,             \* each made once
    Responses,            \* the lists of tags that the model may answer with
    MinTags, MaxTags,     \* how many tags a photo is given
    MaxAgeings,           \* times that tasks outlive taskTTL
    MaxRestarts

\* Tags are answered as words, which differ in their case only if they are the
\* same but for it; as words in Chinese or with a prefix that the model makes up;
\* or as blanks.
Tag == [word : Nat, form : {"lower", "upper", "madeUp"}]
IsTag(raw) == raw.form \in {"lower", "upper"}

ASSUME AiTasksAssumption ==
    /\ {MinTags, MaxTags, MaxAgeings, MaxRestarts} \subseteq Nat /\ 0 < MinTags
    /\ Responses \subseteq Seq(Tag)

VARIABLES
    asks,         \* what each request asks for: its kind and its photo
    stage,        \* where each request is
    job,          \* what the goroutine (of MCP, the call) of each request does next
    outcome,      \* what that has come to (result, err)
    recognising,  \* the recognition task of each photo (processingTasks)
    actions,      \* the task of each request for an AI action (aiActionTasks)
    stored,       \* the row of each photo's text (ocr_llm_recognitions)
    tags,         \* the rows of each photo's tags, by the request that saved them
    answer,       \* what each request was told in the end
    aged,         \* the tasks, by photo or request, that are older than taskTTL
    ageings, restarts

aiVars == <<asks, stage, job, outcome, recognising, actions, stored, tags, answer, aged,
            ageings, restarts>>

Kinds == {"recognize", "tags", "describe", "mcpTags"}

NoTask == [status |-> "none", value |-> <<>>]
Processing == [status |-> "processing", value |-> <<>>]
Failed == [status |-> "failed", value |-> <<>>]
Completed(value) == [status |-> "completed", value |-> value]
Finished(task) == task.status \in {"completed", "failed"}

NoRow == [exists |-> FALSE, text |-> <<>>, success |-> FALSE]
Nothing == [kind |-> "none"]

Statuses == {"none", "processing", "completed", "failed"}

AiTypeOK ==
    /\ \A r \in Requests :
          /\ asks[r] # Nothing => asks[r].kind \in Kinds /\ asks[r].photo \in Photos
          /\ stage[r] \in {"unmade", "starts", "polls", "rereads", "done"}
          /\ job[r] \in {"none", "calls", "deletes", "inserts", "reports"}
          /\ {outcome[r].status, actions[r].status, answer[r].status} \subseteq Statuses
    /\ \A p \in Photos :
          /\ recognising[p].status \in Statuses
          /\ {stored[p].exists, stored[p].success} \subseteq BOOLEAN
          /\ \A i \in DOMAIN tags[p] : tags[p][i].by \in Requests
    /\ aged \subseteq Photos \cup Requests

AiInit ==
    /\ asks = [r \in Requests |-> Nothing]
    /\ stage = [r \in Requests |-> "unmade"]
    /\ job = [r \in Requests |-> "none"]
    /\ outcome = [r \in Requests |-> NoTask]
    /\ recognising = [p \in Photos |-> NoTask]
    /\ actions = [r \in Requests |-> NoTask]
    /\ stored = [p \in Photos |-> NoRow]
    /\ tags = [p \in Photos |-> <<>>]
    /\ answer = [r \in Requests |-> NoTask]
    /\ aged = {} /\ ageings = 0 /\ restarts = 0

-----------------------------------------------------------------------------
Asks(r, kind, p) == stage[r] = "unmade" /\ asks' = [asks EXCEPT ![r] = [kind |-> kind, photo |-> p]]

Told(r, told) ==
    /\ stage' = [stage EXCEPT ![r] = "done"]
    /\ answer' = [answer EXCEPT ![r] = told]

\* GetRecognition, as far as its callers look at what it finds
Recognised(p) == stored[p].success

\* The tags that FindByImageFileID finds
Tags(p) == [i \in DOMAIN tags[p] |-> tags[p][i].tag]

(***************************************************************************)
(* A request for a photo's text is answered with the text that is stored,  *)
(* unless it is forced (handleLlmRecognize).                               *)
(***************************************************************************)
HandleLlmRecognize(r, p, force) ==
    /\ Asks(r, "recognize", p)
    /\ IF ~force /\ Recognised(p)
       THEN Told(r, Completed(stored[p].text))
       ELSE stage' = [stage EXCEPT ![r] = "starts"] /\ UNCHANGED answer
    /\ UNCHANGED <<job, outcome, recognising, actions, stored, tags, aged, ageings, restarts>>

\* The photo's task that is under way already is joined.
StartRecognizeAsync(r) ==
    LET p == asks[r].photo
    IN  /\ stage[r] = "starts"
        /\ stage' = [stage EXCEPT ![r] = "polls"]
        /\ IF recognising[p] = Processing
           THEN UNCHANGED <<job, recognising, aged>>
           ELSE /\ recognising' = [recognising EXCEPT ![p] = Processing]
                /\ aged' = aged \ {p}
                /\ job' = [job EXCEPT ![r] = "calls"]
        /\ UNCHANGED <<asks, outcome, actions, stored, tags, answer, ageings, restarts>>

(***************************************************************************)
(* The row is written with Assign and FirstOrCreate: of a row that exists, *)
(* columns are not overwritten with zero values, so that a failure leaves  *)
(* success and text as they were, and an empty text the former one.        *)
(***************************************************************************)
\* mutant: zero values are written, too (Save)
UpsertAllColumns(row, text, success) == [exists |-> TRUE, text |-> text, success |-> success]

Upsert(row, text, success) ==
    [exists |-> TRUE,
     text |-> IF text = <<>> THEN row.text ELSE text,
     success |-> row.success \/ success]

Recognizes(r) == job[r] = "calls" /\ asks[r].kind = "recognize"

Comes(r, to) ==
    /\ outcome' = [outcome EXCEPT ![r] = to]
    /\ job' = [job EXCEPT ![r] = "reports"]

\* The model has answered, or failed; the row is saved, or not for the
\* photo's row could not be read or its own be written.
RecognizeWithLlm(r) ==
    LET p == asks[r].photo
    IN  /\ Recognizes(r)
        /\ \/ \E text \in {<<>>, <<r>>} :
                 /\ stored' = [stored EXCEPT ![p] = Upsert(@, text, TRUE)]
                 /\ Comes(r, Completed(text))
           \/ /\ stored' = [stored EXCEPT ![p] = Upsert(@, <<>>, FALSE)]
              /\ Comes(r, Failed)
           \/ Comes(r, Failed) /\ UNCHANGED stored
        /\ UNCHANGED <<asks, stage, recognising, actions, tags, answer, aged, ageings, restarts>>

\* mutant: the goroutine of a recognition that failed just returns
ReportOnlySuccess(r) ==
    LET p == asks[r].photo
    IN  /\ job[r] = "reports" /\ asks[r].kind = "recognize"
        /\ recognising' = IF outcome[r] = Failed THEN recognising
                          ELSE [recognising EXCEPT ![p] = outcome[r]]
        /\ aged' = aged \ {p}
        /\ job' = [job EXCEPT ![r] = "none"]
        /\ UNCHANGED <<asks, stage, outcome, actions, stored, tags, answer, ageings, restarts>>

ReportRecognition(r) ==
    LET p == asks[r].photo
    IN  /\ job[r] = "reports" /\ asks[r].kind = "recognize"
        /\ recognising' = [recognising EXCEPT ![p] = outcome[r]]
        /\ aged' = aged \ {p}
        /\ job' = [job EXCEPT ![r] = "none"]
        /\ UNCHANGED <<asks, stage, outcome, actions, stored, tags, answer, ageings, restarts>>

\* mutant: a task is taken away whether it is finished or not
TakeAnyTask(task) == NoTask

\* What remains of a task that has been read
AfterReading(task) == IF Finished(task) THEN NoTask ELSE task

\* A poll for a photo's task takes the task away when it is finished; when
\* there is none, the photo's row is looked at.
HandleLlmRecognizeStatus(r) ==
    LET p == asks[r].photo
    IN  /\ stage[r] = "polls" /\ asks[r].kind = "recognize"
        /\ recognising' = [recognising EXCEPT ![p] = AfterReading(@)]
        /\ CASE recognising[p] = NoTask ->
                  stage' = [stage EXCEPT ![r] = "rereads"] /\ UNCHANGED answer
             [] recognising[p] = Processing -> UNCHANGED <<stage, answer>>
             [] OTHER -> Told(r, recognising[p])
        /\ UNCHANGED <<asks, job, outcome, actions, stored, tags, aged, ageings, restarts>>

\* To a poll that finds nothing ("not_found") the web application has another
\* one follow.
RereadRecognition(r) ==
    /\ stage[r] = "rereads"
    /\ IF Recognised(asks[r].photo)
       THEN Told(r, Completed(stored[asks[r].photo].text))
       ELSE stage' = [stage EXCEPT ![r] = "polls"] /\ UNCHANGED answer
    /\ UNCHANGED <<asks, job, outcome, recognising, actions, stored, tags, aged, ageings, restarts>>

-----------------------------------------------------------------------------
\* Each tag is taken once, in the order of the answer.
Seen(result, t) == \E i \in DOMAIN result : result[i].word = t.word

PostProcessTags(raw) ==
    LET kept[n \in 0 .. Len(raw)] ==
            IF n = 0 THEN <<>>
            ELSE IF IsTag(raw[n]) /\ ~Seen(kept[n - 1], raw[n]) THEN Append(kept[n - 1], raw[n])
            ELSE kept[n - 1]
    IN  kept[Len(raw)]

InRange(result) == MinTags <= Len(result) /\ Len(result) <= MaxTags

\* Tags that a photo has are answered by a task that is finished from its
\* beginning, unless the request is forced (handleAiAction,
\* StoreCachedTagsResult, StartAiActionAsync).
HandleAiAction(r, kind, p, force) ==
    LET cached == kind = "tags" /\ ~force /\ tags[p] # <<>>
    IN  /\ Asks(r, kind, p) /\ kind \in {"tags", "describe"}
        /\ stage' = [stage EXCEPT ![r] = "polls"]
        /\ actions' = [actions EXCEPT ![r] = IF cached THEN Completed(Tags(p)) ELSE Processing]
        /\ job' = [job EXCEPT ![r] = IF cached THEN "none" ELSE "calls"]
        /\ UNCHANGED <<outcome, recognising, stored, tags, answer, aged, ageings, restarts>>

\* The MCP tool generate_tags
RunImageAction(r, p) ==
    /\ Asks(r, "mcpTags", p)
    /\ IF tags[p] # <<>>
       THEN Told(r, Completed(Tags(p))) /\ UNCHANGED job
       ELSE /\ stage' = [stage EXCEPT ![r] = "polls"]
            /\ job' = [job EXCEPT ![r] = "calls"]
            /\ UNCHANGED answer
    /\ UNCHANGED <<outcome, recognising, actions, stored, tags, aged, ageings, restarts>>

\* What the model's answer comes to; too few or too many tags are a failure.
ExecuteAiAction(r) ==
    /\ job[r] = "calls" /\ asks[r].kind # "recognize"
    /\ \/ Comes(r, Failed)
       \/ asks[r].kind = "describe" /\ Comes(r, Completed(<<r>>))
       \/ /\ asks[r].kind # "describe"
          /\ \E raw \in Responses :
                IF InRange(PostProcessTags(raw))
                THEN /\ outcome' = [outcome EXCEPT ![r] = Completed(PostProcessTags(raw))]
                     /\ job' = [job EXCEPT ![r] = "deletes"]
                ELSE Comes(r, Failed)
    /\ UNCHANGED <<asks, stage, recognising, actions, stored, tags, answer, aged, ageings, restarts>>

\* SaveImageTags: the photo's tags are deleted and then the new ones inserted;
\* a failure is logged and the task completed nevertheless.
DeleteTags(r) ==
    /\ job[r] = "deletes"
    /\ \/ /\ tags' = [tags EXCEPT ![asks[r].photo] = <<>>]
          /\ job' = [job EXCEPT ![r] = "inserts"]
       \/ job' = [job EXCEPT ![r] = "reports"] /\ UNCHANGED tags
    /\ UNCHANGED <<asks, stage, outcome, recognising, actions, stored, answer, aged, ageings,
                   restarts>>

InsertTags(r) ==
    LET value == outcome[r].value
        rows == [i \in DOMAIN value |-> [tag |-> value[i], by |-> r]]
    IN  /\ job[r] = "inserts"
        /\ tags' \in {tags, [tags EXCEPT ![asks[r].photo] = @ \o rows]}
        /\ job' = [job EXCEPT ![r] = "reports"]
        /\ UNCHANGED <<asks, stage, outcome, recognising, actions, stored, answer, aged, ageings,
                       restarts>>

ReportAction(r) ==
    /\ job[r] = "reports" /\ asks[r].kind \in {"tags", "describe"}
    /\ actions' = [actions EXCEPT ![r] = outcome[r]]
    /\ aged' = aged \ {r}
    /\ job' = [job EXCEPT ![r] = "none"]
    /\ UNCHANGED <<asks, stage, outcome, recognising, stored, tags, answer, ageings, restarts>>

AnswerTool(r) ==
    /\ job[r] = "reports" /\ asks[r].kind = "mcpTags"
    /\ Told(r, outcome[r])
    /\ job' = [job EXCEPT ![r] = "none"]
    /\ UNCHANGED <<asks, outcome, recognising, actions, stored, tags, aged, ageings, restarts>>

\* A poll that finds no task is answered 404, "Task not found or expired",
\* which ends the polling.
HandleAiActionStatus(r) ==
    /\ stage[r] = "polls" /\ asks[r].kind \in {"tags", "describe"}
    /\ actions' = [actions EXCEPT ![r] = AfterReading(@)]
    /\ CASE actions[r] = NoTask -> Told(r, Failed)
         [] actions[r] = Processing -> UNCHANGED <<stage, answer>>
         [] OTHER -> Told(r, actions[r])
    /\ UNCHANGED <<asks, job, outcome, recognising, stored, tags, aged, ageings, restarts>>

-----------------------------------------------------------------------------
Tasks == {p \in Photos : recognising[p] # NoTask} \cup {r \in Requests : actions[r] # NoTask}

\* taskTTL passes.
TasksAge ==
    /\ ageings < MaxAgeings /\ ageings' = ageings + 1
    /\ aged' = Tasks
    /\ UNCHANGED <<asks, stage, job, outcome, recognising, actions, stored, tags, answer, restarts>>

\* What the cleanup leaves of a task
AfterCleanup(task, id) == IF Finished(task) /\ id \in aged THEN NoTask ELSE task

CleanupExpiredTasks ==
    /\ recognising' = [p \in Photos |-> AfterCleanup(recognising[p], p)]
    /\ actions' = [r \in Requests |-> AfterCleanup(actions[r], r)]
    /\ <<recognising, actions>>' # <<recognising, actions>>
    /\ UNCHANGED <<asks, stage, job, outcome, stored, tags, answer, aged, ageings, restarts>>

\* The core ends and starts again: tasks are forgotten, goroutines end, and
\* so do the calls of MCP tools; whoever polls goes on.
Restart ==
    LET cut == {r \in Requests : \/ stage[r] = "starts"
                                 \/ stage[r] = "polls" /\ asks[r].kind = "mcpTags"}
    IN  /\ restarts < MaxRestarts /\ restarts' = restarts + 1
        /\ job' = [r \in Requests |-> "none"]
        /\ recognising' = [p \in Photos |-> NoTask]
        /\ actions' = [r \in Requests |-> NoTask]
        /\ stage' = [r \in Requests |-> IF r \in cut THEN "done"
                                        ELSE IF stage[r] = "rereads" THEN "polls" ELSE stage[r]]
        /\ answer' = [r \in Requests |-> IF r \in cut THEN Failed ELSE answer[r]]
        /\ aged' = {}
        /\ UNCHANGED <<asks, outcome, stored, tags, ageings>>

TaskSteps(r) ==
    \/ StartRecognizeAsync(r) \/ RecognizeWithLlm(r) \/ ReportRecognition(r)
    \/ ExecuteAiAction(r) \/ DeleteTags(r) \/ InsertTags(r) \/ ReportAction(r) \/ AnswerTool(r)

Polls(r) == HandleLlmRecognizeStatus(r) \/ RereadRecognition(r) \/ HandleAiActionStatus(r)

AiNext ==
    \/ \E r \in Requests, p \in Photos, force \in BOOLEAN :
          \/ HandleLlmRecognize(r, p, force)
          \/ \E kind \in Kinds : HandleAiAction(r, kind, p, force)
          \/ RunImageAction(r, p)
    \/ \E r \in Requests : TaskSteps(r) \/ Polls(r)
    \/ TasksAge \/ CleanupExpiredTasks \/ Restart
=============================================================================
