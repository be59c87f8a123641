------------------------- MODULE LanguageModelsProofs -------------------------
(***************************************************************************)
(* What holds of language models for every number of photos, requests,     *)
(* models, images and names, and every answer of a model: answers to tasks *)
(* are one's own and what they leave is sound; the catalogue's entries are *)
(* of the provider's address when requests and changes follow each other,  *)
(* and keep their descriptions; decisions on an enhanced photo that do not *)
(* meet are carried out; and what a model is asked in a conversation has   *)
(* its calls and their answers together, with nothing forgotten.           *)
(***************************************************************************)
EXTENDS MCLanguageModels, MCAssistant, FiniteSetTheorems, WellFoundedInduction, TLAPS

\* A set of numbers has a least one (ORDER BY id LIMIT 1 finds a row if there
\* is one).
LEMMA LeastNat ==
    ASSUME NEW T, T \subseteq Nat, T # {}
    PROVE  \E x \in T : \A y \in T : x <= y
  <1>1. PICK x \in T : \A y \in T : ~ (<<y, x>> \in OpToRel(<, Nat))
    BY WFMin, NatLessThanWellFounded
  <1>2. \A y \in T : ~ (y < x)  BY <1>1 DEF OpToRel
  <1> QED  BY <1>2

-----------------------------------------------------------------------------
(* What becomes of the tags of an answer *)

\* The tags that are taken from the first n words, given those of the first n - 1
Takes(raw, n, before) ==
    IF n = 0 THEN <<>>
    ELSE IF IsTag(raw[n]) /\ ~Seen(before, raw[n]) THEN Append(before, raw[n])
    ELSE before

\* There is a function that counts up to n; by the least one for which there is none.
LEMMA TakingDefined ==
    ASSUME NEW raw, NEW n \in Nat
    PROVE  \E f : f = [i \in 0 .. n |-> Takes(raw, i, f[i - 1])]
  <1> DEFINE Taking(f, m) == f = [i \in 0 .. m |-> Takes(raw, i, f[i - 1])]
             Failing == {m \in Nat : ~ \E f : Taking(f, m)}
  <1>1. SUFFICES ASSUME Failing # {} PROVE FALSE  BY DEF Failing
  <1>2. PICK m \in Failing : \A l \in Failing : m <= l  BY <1>1, LeastNat DEF Failing
  <1>3. CASE m = 0
    <2> DEFINE f == [i \in 0 .. 0 |-> <<>>]
    <2>1. f = [i \in 0 .. 0 |-> Takes(raw, i, f[i - 1])]  BY DEF Takes
    <2> QED  BY <1>2, <1>3, <2>1
  <1>4. CASE m # 0
    <2>1. m - 1 \in Nat /\ m - 1 \notin Failing  BY <1>2, <1>4
    <2>2. PICK f : Taking(f, m - 1)  BY <2>1
    <2> DEFINE g == [i \in 0 .. m |-> Takes(raw, i, f[i - 1])]
    <2>3. \A i \in 0 .. m - 1 : g[i] = f[i]  BY <2>1, <2>2
    <2>4. \A i \in 0 .. m : Takes(raw, i, f[i - 1]) = Takes(raw, i, g[i - 1])
      <3> TAKE i \in 0 .. m
      <3>1. CASE i = 0  BY <3>1 DEF Takes
      <3>2. CASE i # 0
        <4>1. i - 1 \in 0 .. m - 1  BY <2>1, <3>2
        <4> QED  BY <2>3, <4>1
      <3> QED  BY <3>1, <3>2
    <2>5. g = [i \in 0 .. m |-> Takes(raw, i, g[i - 1])]  BY <2>4
    <2> QED  BY <1>2, <2>5
  <1> QED  BY <1>3, <1>4

\* An answer comes to tags, each of them once (PostProcessTags).
DistinctTags(s) ==
    /\ s \in Seq(Tag)
    /\ \A i \in DOMAIN s : IsTag(s[i])
    /\ \A i, j \in DOMAIN s : i # j => s[i].word # s[j].word

LEMMA TagsAreDistinct ==
    ASSUME NEW raw \in Seq(Tag)
    PROVE  DistinctTags(PostProcessTags(raw))
  <1> DEFINE kept == CHOOSE f : f = [i \in 0 .. Len(raw) |-> Takes(raw, i, f[i - 1])]
  <1>1. Len(raw) \in Nat  OBVIOUS
  <1>2. kept = [i \in 0 .. Len(raw) |-> Takes(raw, i, kept[i - 1])]
    BY <1>1, TakingDefined
  <1>3. PostProcessTags(raw) = kept[Len(raw)]
    BY DEF PostProcessTags, Takes
  <1> HIDE DEF kept
  <1> DEFINE Failing == {n \in 0 .. Len(raw) : ~DistinctTags(kept[n])}
  <1>4. SUFFICES ASSUME Failing # {} PROVE FALSE
    BY <1>1, <1>3
  <1>5. PICK n \in Failing : \A l \in Failing : n <= l
    <2>1. Failing \subseteq Nat  BY <1>1
    <2> HIDE DEF Failing
    <2> QED  BY <1>4, <2>1, LeastNat
  <1>6. kept[n] = Takes(raw, n, kept[n - 1])  BY <1>2, <1>5
  <1>7. CASE n = 0
    <2>1. kept[n] = <<>>  BY <1>6, <1>7 DEF Takes
    <2>2. <<>> \in Seq(Tag) /\ DOMAIN <<>> = {}  OBVIOUS
    <2>3. DistinctTags(<<>>)  BY <2>2 DEF DistinctTags
    <2> QED  BY <1>5, <2>1, <2>3
  <1>8. CASE n # 0
    <2>1. DistinctTags(kept[n - 1])  BY <1>1, <1>5, <1>8
    <2>2. raw[n] \in Tag  BY <1>1, <1>5, <1>8
    <2>3. CASE kept[n] = kept[n - 1]  BY <1>5, <2>1, <2>3
    <2>4. CASE /\ IsTag(raw[n]) /\ ~Seen(kept[n - 1], raw[n])
               /\ kept[n] = Append(kept[n - 1], raw[n])
      <3> DEFINE s == kept[n - 1]
                 t == raw[n]
      <3>1. s \in Seq(Tag) /\ t \in Tag  BY <2>1, <2>2 DEF DistinctTags
      <3>2. /\ Append(s, t) \in Seq(Tag) /\ DOMAIN Append(s, t) = 1 .. Len(s) + 1
            /\ Append(s, t)[Len(s) + 1] = t /\ \A i \in 1 .. Len(s) : Append(s, t)[i] = s[i]
            /\ DOMAIN s = 1 .. Len(s) /\ Len(s) \in Nat
        BY <3>1
      <3> HIDE DEF s, t
      <3>3. DistinctTags(Append(s, t))
        BY <2>1, <2>4, <3>2 DEF DistinctTags, Seen, s, t
      <3> QED  BY <1>5, <2>4, <3>3 DEF s, t
    <2> QED  BY <1>6, <1>8, <2>3, <2>4 DEF Takes
  <1> QED  BY <1>7, <1>8

-----------------------------------------------------------------------------
(* Tasks: their types, and how far requests and goroutines have come *)

TagRow == [tag : Tag, by : Requests]

AiTyped ==
    /\ asks \in [Requests -> [kind : Kinds, photo : Photos] \cup {Nothing}]
    /\ stage \in [Requests -> {"unmade", "starts", "polls", "rereads", "done"}]
    /\ job \in [Requests -> {"none", "calls", "deletes", "inserts", "reports"}]
    /\ DOMAIN outcome = Requests /\ DOMAIN actions = Requests /\ DOMAIN answer = Requests
    /\ DOMAIN recognising = Photos /\ DOMAIN stored = Photos
    /\ DOMAIN joined = Requests /\ DOMAIN text = Photos
    /\ tags \in [Photos -> Seq(TagRow)]
    /\ restarts \in Nat
    /\ AiTypeOK

\* A goroutine runs for a request that was made, and has come to something when
\* it saves or reports it; a request joins one that was started.
Progress(r) ==
    /\ stage[r] = "unmade" <=> asks[r] = Nothing
    /\ stage[r] \in {"unmade", "starts"} => job[r] = "none" /\ outcome[r] = NoTask /\ joined[r] = {}
    /\ stage[r] \in {"starts", "rereads"} => asks[r].kind = "recognize"
    /\ job[r] # "none" /\ asks[r].kind = "mcpTags" => stage[r] = "polls"
    /\ job[r] = "calls" => outcome[r] = NoTask
    /\ job[r] \in {"deletes", "inserts", "reports"} => Finished(outcome[r])
    /\ job[r] \in {"deletes", "inserts"} =>
          /\ asks[r].kind \in {"tags", "mcpTags"}
          /\ DistinctTags(outcome[r].value) /\ InRange(outcome[r].value)
    /\ \A run \in joined[r] : run \in Requests /\ stage[run] \notin {"unmade", "starts"}

Recognising(r) == job[r] # "none" /\ asks[r].kind = "recognize"

\* While a goroutine recognises a photo's text it is the only one, and the
\* photo's task says so.
OneRecogniser ==
    \A r \in Requests : Recognising(r) =>
        /\ recognising[asks[r].photo] = Processing
        /\ \A q \in Requests : Recognising(q) /\ asks[q].photo = asks[r].photo => q = r

\* The task that a request polls for is that of the goroutine it has joined:
\* under way as long as that runs, and then what it came to.
AwaitsOwn(r, run) ==
    /\ asks[r].kind = "recognize" =>
          /\ asks[run] = asks[r]
          /\ job[run] = "none" =>
                recognising[asks[r].photo] = outcome[run] /\ Finished(outcome[run])
    /\ asks[r].kind # "recognize" =>
          /\ run = r
          /\ job[r] = "none" => actions[r] = outcome[r] /\ Finished(outcome[r])
          /\ job[r] # "none" /\ asks[r].kind # "mcpTags" => actions[r] = Processing

Own(r) ==
    /\ stage[r] = "rereads" => joined[r] = {}
    /\ \A run \in joined[r] :
          /\ stage[r] = "done" => job[run] = "none" /\ answer[r] = outcome[run]
          /\ stage[r] = "polls" => AwaitsOwn(r, run)

\* What is stored of a photo's text
TextKept(p) == stored[p].text = text[p] /\ (text[p] # <<>> => stored[p].success)

\* The tags of one answer (or none): TagsOfOneAnswer of a photo's rows
RowsSound(rows) ==
    rows # <<>> =>
        /\ \A i, j \in DOMAIN rows :
              /\ rows[i].by = rows[j].by
              /\ i # j => rows[i].tag.word # rows[j].tag.word
        /\ \A i \in DOMAIN rows : IsTag(rows[i].tag)
        /\ InRange(rows)

\* Tags are inserted by one goroutine, after it has deleted those there were.
TagsSound(p) ==
    /\ \A q, r \in Saving(p) : q = r
    /\ \A r \in Saving(p) : job[r] = "inserts" => tags[p] = <<>>
    /\ RowsSound(tags[p])

AiInv ==
    /\ AiTyped
    /\ \A r \in Requests : Progress(r)
    /\ OneRecogniser
    /\ \A r \in Requests \ disturbed : Own(r)
    /\ \A p \in Photos : TextKept(p)
    /\ \A p \in Photos \ mixed : TagsSound(p)

\* A request that has been made asks about a photo.
LEMMA Asked ==
    ASSUME AiTyped, NEW r \in Requests, Progress(r), stage[r] # "unmade"
    PROVE  asks[r] \in [kind : Kinds, photo : Photos]
  BY DEF AiTyped, Progress

LEMMA TasksTyped ==
    /\ NoTask.status \in Statuses /\ Processing.status \in Statuses /\ Failed.status \in Statuses
    /\ \A v : Completed(v).status \in Statuses
    /\ ~Finished(NoTask) /\ ~Finished(Processing) /\ Finished(Failed) /\ \A v : Finished(Completed(v))
    /\ \A v : Completed(v).value = v /\ Failed.value = <<>> /\ Completed(v) # NoTask
  BY DEF NoTask, Processing, Failed, Completed, Statuses, Finished

\* The rows of the tags that a request's goroutine inserts
SavedTags(r) == [i \in DOMAIN outcome[r].value |-> [tag |-> outcome[r].value[i], by |-> r]]

LEMMA SavedTagsSound ==
    ASSUME NEW r \in Requests, DistinctTags(outcome[r].value)
    PROVE  /\ SavedTags(r) \in Seq(TagRow) /\ Len(SavedTags(r)) = Len(outcome[r].value)
           /\ DOMAIN SavedTags(r) = DOMAIN outcome[r].value
           /\ \A i \in DOMAIN SavedTags(r) :
                 SavedTags(r)[i].tag = outcome[r].value[i] /\ SavedTags(r)[i].by = r
  <1> DEFINE v == outcome[r].value
  <1>1. v \in Seq(Tag)  BY DEF DistinctTags
  <1>2. DOMAIN v = 1 .. Len(v) /\ Len(v) \in Nat /\ \A i \in DOMAIN v : v[i] \in Tag  BY <1>1
  <1>3. SavedTags(r) = [i \in 1 .. Len(v) |-> [tag |-> v[i], by |-> r]]  BY <1>2 DEF SavedTags
  <1> HIDE DEF v
  <1>4. \A i \in 1 .. Len(v) : [tag |-> v[i], by |-> r] \in TagRow  BY <1>2 DEF TagRow
  <1>5. SavedTags(r) \in Seq(TagRow) /\ Len(SavedTags(r)) = Len(v)  BY <1>2, <1>3, <1>4
  <1> QED  BY <1>2, <1>3, <1>5 DEF v

LEMMA AiTypedInit == Init => AiTyped
  <1> SUFFICES ASSUME Init PROVE AiTyped  OBVIOUS
  <1>1. \A p \in Photos : tags[p] = <<>> /\ stored[p] = NoRow /\ recognising[p] = NoTask
    BY DEF Init, AiInit
  <1>2. \A r \in Requests : asks[r] = Nothing /\ outcome[r] = NoTask /\ actions[r] = NoTask
                            /\ answer[r] = NoTask /\ stage[r] = "unmade" /\ job[r] = "none"
    BY DEF Init, AiInit
  <1>3. AiTypeOK
    <2>0. DOMAIN <<>> = {} /\ NoRow.exists = FALSE /\ NoRow.success = FALSE  BY DEF NoRow
    <2>1. \A p \in Photos : /\ {stored[p].exists, stored[p].success} \subseteq BOOLEAN
                            /\ recognising[p].status \in Statuses
                            /\ \A i \in DOMAIN tags[p] : tags[p][i].by \in Requests
      BY <1>1, <2>0, TasksTyped
    <2>2. \A r \in Requests :
             {outcome[r].status, actions[r].status, answer[r].status} \subseteq Statuses
      BY <1>2, TasksTyped
    <2>3. aged = {}  BY DEF Init, AiInit
    <2> QED  BY <1>2, <2>1, <2>2, <2>3 DEF AiTypeOK
  <1>4. <<>> \in Seq(TagRow)  OBVIOUS
  <1> QED  BY <1>3, <1>4 DEF AiTyped, Init, AiInit

LEMMA AiTypedStep ==
    ASSUME AiTyped, \A r \in Requests : Progress(r), AiNext, Remember
    PROVE  AiTyped'
  <1> DEFINE T == /\ asks \in [Requests -> [kind : Kinds, photo : Photos] \cup {Nothing}]
                  /\ stage \in [Requests -> {"unmade", "starts", "polls", "rereads", "done"}]
                  /\ job \in [Requests -> {"none", "calls", "deletes", "inserts", "reports"}]
             D == /\ DOMAIN outcome = Requests /\ DOMAIN actions = Requests /\ DOMAIN answer = Requests
                  /\ DOMAIN recognising = Photos /\ DOMAIN stored = Photos
                  /\ tags \in [Photos -> Seq(TagRow)] /\ restarts \in Nat
             S == /\ \A r \in Requests : /\ outcome[r].status \in Statuses
                                         /\ actions[r].status \in Statuses
                                         /\ answer[r].status \in Statuses
                  /\ \A p \in Photos : /\ recognising[p].status \in Statuses
                                       /\ stored[p].exists \in BOOLEAN /\ stored[p].success \in BOOLEAN
                  /\ aged \subseteq Photos \cup Requests
  <1>1. T /\ D /\ S  BY DEF AiTyped, AiTypeOK
  <1>2. ASSUME T', D', S' PROVE AiTyped'
    <2>1. DOMAIN joined' = Requests /\ DOMAIN text' = Photos  BY DEF Remember
    <2>2. \A r \in Requests : asks'[r] # Nothing => asks'[r].kind \in Kinds /\ asks'[r].photo \in Photos
      BY <1>2
    <2>3. \A p \in Photos : \A i \in DOMAIN tags'[p] : tags'[p][i].by \in Requests
      <3>1. \A p \in Photos : tags'[p] \in Seq(TagRow)  BY <1>2
      <3>2. \A s \in Seq(TagRow) : \A i \in DOMAIN s : s[i] \in TagRow  OBVIOUS
      <3> QED  BY <3>1, <3>2 DEF TagRow
    <2>4. AiTypeOK'  BY <1>2, <2>2, <2>3 DEF AiTypeOK
    <2> QED  BY <1>2, <2>1, <2>4 DEF AiTyped
  <1>3. \A r \in Requests : stage[r] # "unmade" => asks[r].kind \in Kinds /\ asks[r].photo \in Photos
    BY Asked
  <1> HIDE DEF T, D, S
  <1> SUFFICES T' /\ D' /\ S'  BY <1>2
  <1>a. ASSUME NEW r \in Requests, NEW p \in Photos, NEW force \in BOOLEAN, HandleLlmRecognize(r, p, force)
        PROVE  T' /\ D' /\ S'
    <2>1. T'  BY <1>1, <1>a, TasksTyped DEF T, HandleLlmRecognize, Asks, Told, Kinds
    <2>2. D'  BY <1>1, <1>a, TasksTyped DEF D, HandleLlmRecognize, Asks, Told, Kinds
    <2>3. S'  BY <1>1, <1>a, TasksTyped DEF D, S, HandleLlmRecognize, Asks, Told, Kinds
    <2> QED  BY <2>1, <2>2, <2>3
  <1>b. ASSUME NEW r \in Requests, NEW p \in Photos, NEW force \in BOOLEAN, NEW kind \in Kinds,
               HandleAiAction(r, kind, p, force)
        PROVE  T' /\ D' /\ S'
    BY <1>1, <1>b, TasksTyped DEF T, D, S, HandleAiAction, Asks
  <1>c. ASSUME NEW r \in Requests, NEW p \in Photos, RunImageAction(r, p) PROVE T' /\ D' /\ S'
    <2>1. T'  BY <1>1, <1>c, TasksTyped DEF T, RunImageAction, Asks, Told, Kinds
    <2>2. D'  BY <1>1, <1>c, TasksTyped DEF D, RunImageAction, Asks, Told, Kinds
    <2>3. S'  BY <1>1, <1>c, TasksTyped DEF D, S, RunImageAction, Asks, Told, Kinds
    <2> QED  BY <2>1, <2>2, <2>3
  <1>d. ASSUME NEW r \in Requests, StartRecognizeAsync(r) PROVE T' /\ D' /\ S'
    <2>1. T'  BY <1>1, <1>d, TasksTyped DEF T, StartRecognizeAsync
    <2>2. D'  BY <1>1, <1>d, TasksTyped DEF D, StartRecognizeAsync
    <2>3. S'  BY <1>1, <1>d, TasksTyped DEF D, S, StartRecognizeAsync
    <2> QED  BY <2>1, <2>2, <2>3
  <1>e. ASSUME NEW r \in Requests, RecognizeWithLlm(r) PROVE T' /\ D' /\ S'
    <2>1. \A row, words : \A success \in BOOLEAN : row.success \in BOOLEAN =>
              /\ Upsert(row, words, success).exists \in BOOLEAN
              /\ Upsert(row, words, success).success \in BOOLEAN
      BY DEF Upsert
    <2>2. T'  BY <1>1, <1>e DEF T, RecognizeWithLlm, Comes
    <2>3. D'  BY <1>1, <1>e DEF D, RecognizeWithLlm, Comes
    <2>4. S'
      <3> DEFINE p == asks[r].photo
      <3>1. \A q \in Photos \ {p} : stored'[q] = stored[q]
        BY <1>1, <1>e DEF D, RecognizeWithLlm
      <3>2. \/ stored' = stored
            \/ p \in Photos => \E words : \E success \in BOOLEAN :
                                    stored'[p] = Upsert(stored[p], words, success)
        BY <1>1, <1>e DEF D, RecognizeWithLlm
      <3>3. /\ \A q \in Requests \ {r} : outcome'[q] = outcome[q]
            /\ outcome'[r] = Failed \/ \E words : outcome'[r] = Completed(words)
        BY <1>1, <1>e DEF D, RecognizeWithLlm, Comes
      <3>4. UNCHANGED <<actions, answer, recognising, aged>>  BY <1>e DEF RecognizeWithLlm
      <3>5. \A q \in Photos : stored'[q].exists \in BOOLEAN /\ stored'[q].success \in BOOLEAN
        BY <1>1, <2>1, <3>1, <3>2 DEF S
      <3>6. \A q \in Requests : outcome'[q].status \in Statuses
        BY <1>1, <3>3, TasksTyped DEF S
      <3> QED  BY <1>1, <3>4, <3>5, <3>6 DEF S
    <2> QED  BY <2>2, <2>3, <2>4
  <1>f. ASSUME NEW r \in Requests, ReportRecognition(r) PROVE T' /\ D' /\ S'
    BY <1>1, <1>f DEF T, D, S, ReportRecognition
  <1>g. ASSUME NEW r \in Requests, ExecuteAiAction(r) PROVE T' /\ D' /\ S'
    <2>1. T'  BY <1>1, <1>g, TasksTyped DEF T, ExecuteAiAction, Comes
    <2>2. D'  BY <1>1, <1>g, TasksTyped DEF D, ExecuteAiAction, Comes
    <2>3. S'  BY <1>1, <1>g, TasksTyped DEF D, S, ExecuteAiAction, Comes
    <2> QED  BY <2>1, <2>2, <2>3
  <1>h. ASSUME NEW r \in Requests, DeleteTags(r) PROVE T' /\ D' /\ S'
    <2>1. T'  BY <1>1, <1>h DEF T, DeleteTags
    <2>2. D'
      <3>1. <<>> \in Seq(TagRow)  OBVIOUS
      <3> QED  BY <1>1, <1>h, <3>1 DEF D, DeleteTags
    <2>3. S'  BY <1>1, <1>h DEF D, S, DeleteTags
    <2> QED  BY <2>1, <2>2, <2>3
  <1>i. ASSUME NEW r \in Requests, InsertTags(r) PROVE T' /\ D' /\ S'
    <2> DEFINE p == asks[r].photo
    <2>1. T'  BY <1>1, <1>i DEF T, InsertTags
    <2>2. S'  BY <1>1, <1>i DEF S, InsertTags
    <2>3. p \in Photos
      <3>1. stage[r] # "unmade"  BY <1>i DEF InsertTags, Progress
      <3> QED  BY <1>3, <3>1
    <2>4. SavedTags(r) \in Seq(TagRow)
      BY <1>i, SavedTagsSound DEF InsertTags, Progress
    <2>5. tags' = tags \/ tags' = [tags EXCEPT ![p] = tags[p] \o SavedTags(r)]
      BY <1>i DEF InsertTags, SavedTags
    <2>6. UNCHANGED <<outcome, actions, answer, recognising, stored, restarts>>  BY <1>i DEF InsertTags
    <2>7. tags[p] \o SavedTags(r) \in Seq(TagRow)  BY <1>1, <2>3, <2>4 DEF D
    <2> HIDE DEF p
    <2>8. D'  BY <1>1, <2>3, <2>5, <2>6, <2>7 DEF D
    <2> QED  BY <2>1, <2>2, <2>8
  <1>j. ASSUME NEW r \in Requests, ReportAction(r) PROVE T' /\ D' /\ S'
    BY <1>1, <1>j DEF T, D, S, ReportAction
  <1>k. ASSUME NEW r \in Requests, AnswerTool(r) PROVE T' /\ D' /\ S'
    BY <1>1, <1>k DEF T, D, S, AnswerTool, Told
  <1>l. ASSUME NEW r \in Requests, HandleLlmRecognizeStatus(r) PROVE T' /\ D' /\ S'
    <2>1. T'  BY <1>1, <1>l, TasksTyped DEF T, HandleLlmRecognizeStatus, Told, AfterReading
    <2>2. D'  BY <1>1, <1>l, TasksTyped DEF D, HandleLlmRecognizeStatus, Told, AfterReading
    <2>3. S'
      <3> DEFINE p == asks[r].photo
      <3>1. p \in Photos  BY <1>3, <1>l DEF HandleLlmRecognizeStatus
      <3>2. recognising' = [recognising EXCEPT ![p] = AfterReading(recognising[p])]
        BY <1>l DEF HandleLlmRecognizeStatus
      <3>3. AfterReading(recognising[p]).status \in Statuses
        BY <1>1, <3>1, TasksTyped DEF S, AfterReading
      <3>4. answer' = answer \/ answer' = [answer EXCEPT ![r] = recognising[p]]
        BY <1>l DEF HandleLlmRecognizeStatus, Told
      <3>5. UNCHANGED <<outcome, actions, stored, aged>>  BY <1>l DEF HandleLlmRecognizeStatus
      <3> HIDE DEF p
      <3> QED  BY <1>1, <3>1, <3>2, <3>3, <3>4, <3>5 DEF D, S
    <2> QED  BY <2>1, <2>2, <2>3
  <1>m. ASSUME NEW r \in Requests, RereadRecognition(r) PROVE T' /\ D' /\ S'
    <2>1. T'  BY <1>1, <1>m, TasksTyped DEF T, RereadRecognition, Told
    <2>2. D'  BY <1>1, <1>m, TasksTyped DEF D, RereadRecognition, Told
    <2>3. S'  BY <1>1, <1>m, TasksTyped DEF D, S, RereadRecognition, Told
    <2> QED  BY <2>1, <2>2, <2>3
  <1>n. ASSUME NEW r \in Requests, HandleAiActionStatus(r) PROVE T' /\ D' /\ S'
    <2>1. T'  BY <1>1, <1>n, TasksTyped DEF T, HandleAiActionStatus, Told, AfterReading
    <2>2. D'  BY <1>1, <1>n, TasksTyped DEF D, HandleAiActionStatus, Told, AfterReading
    <2>3. S'  BY <1>1, <1>n, TasksTyped DEF D, S, HandleAiActionStatus, Told, AfterReading
    <2> QED  BY <2>1, <2>2, <2>3
  <1>o. CASE TasksAge  BY <1>1, <1>o DEF T, D, S, TasksAge, Tasks
  <1>p. CASE CleanupExpiredTasks
    BY <1>1, <1>p, TasksTyped DEF T, D, S, CleanupExpiredTasks, AfterCleanup
  <1>q. CASE Restart  BY <1>1, <1>q, TasksTyped DEF T, D, S, Restart
  <1> QED
    BY <1>a, <1>b, <1>c, <1>d, <1>e, <1>f, <1>g, <1>h, <1>i, <1>j, <1>k, <1>l, <1>m, <1>n, <1>o,
       <1>p, <1>q DEF AiNext, TaskSteps, Polls

\* The steps of one request, its goroutine and its polls
Acts(r) ==
    \/ \E p \in Photos, force \in BOOLEAN :
          \/ HandleLlmRecognize(r, p, force)
          \/ \E kind \in Kinds : HandleAiAction(r, kind, p, force)
          \/ RunImageAction(r, p)
    \/ TaskSteps(r) \/ Polls(r)

LEMMA ActsNext == AiNext => (\E r \in Requests : Acts(r)) \/ TasksAge \/ CleanupExpiredTasks \/ Restart
  BY DEF AiNext, Acts

LEMMA OthersStay ==
    ASSUME AiTyped, NEW r \in Requests, Acts(r), NEW q \in Requests, q # r
    PROVE  /\ asks'[q] = asks[q] /\ stage'[q] = stage[q] /\ job'[q] = job[q]
           /\ outcome'[q] = outcome[q] /\ actions'[q] = actions[q] /\ answer'[q] = answer[q]
  <1> USE DEF AiTyped
  <1>1. ASSUME NEW p \in Photos, NEW force \in BOOLEAN, NEW kind \in Kinds,
               \/ HandleLlmRecognize(r, p, force)
               \/ HandleAiAction(r, kind, p, force)
               \/ RunImageAction(r, p)
        PROVE  /\ asks'[q] = asks[q] /\ stage'[q] = stage[q] /\ job'[q] = job[q]
               /\ outcome'[q] = outcome[q] /\ actions'[q] = actions[q] /\ answer'[q] = answer[q]
    BY <1>1 DEF HandleLlmRecognize, HandleAiAction, RunImageAction, Asks, Told
  <1>2. CASE StartRecognizeAsync(r)
    BY <1>2 DEF StartRecognizeAsync
  <1>3. CASE RecognizeWithLlm(r) \/ ExecuteAiAction(r)
    BY <1>3 DEF RecognizeWithLlm, ExecuteAiAction, Comes
  <1>4. CASE ReportRecognition(r) \/ ReportAction(r) \/ AnswerTool(r)
    BY <1>4 DEF ReportRecognition, ReportAction, AnswerTool, Told
  <1>5. CASE DeleteTags(r) \/ InsertTags(r)
    BY <1>5 DEF DeleteTags, InsertTags
  <1>6. CASE HandleLlmRecognizeStatus(r) \/ RereadRecognition(r) \/ HandleAiActionStatus(r)
    BY <1>6 DEF HandleLlmRecognizeStatus, RereadRecognition, HandleAiActionStatus, Told
  <1> QED
    BY <1>1, <1>2, <1>3, <1>4, <1>5, <1>6 DEF Acts, TaskSteps, Polls, Kinds

\* Progress, but for what has been joined
Gone(r) ==
    /\ stage[r] = "unmade" <=> asks[r] = Nothing
    /\ stage[r] \in {"unmade", "starts"} => job[r] = "none" /\ outcome[r] = NoTask
    /\ stage[r] \in {"starts", "rereads"} => asks[r].kind = "recognize"
    /\ job[r] # "none" /\ asks[r].kind = "mcpTags" => stage[r] = "polls"
    /\ job[r] = "calls" => outcome[r] = NoTask
    /\ job[r] \in {"deletes", "inserts", "reports"} => Finished(outcome[r])
    /\ job[r] \in {"deletes", "inserts"} =>
          /\ asks[r].kind \in {"tags", "mcpTags"}
          /\ DistinctTags(outcome[r].value) /\ InRange(outcome[r].value)

Begun(r) == stage[r] \notin {"unmade", "starts"}

LEMMA GoneActs ==
    ASSUME AiTyped, NEW r \in Requests, Gone(r), Acts(r)
    PROVE  Gone(r)' /\ (Begun(r) => Begun(r)')
  <1> USE DEF AiTyped
  <1>0. \A k, p : k \in Kinds => [kind |-> k, photo |-> p] # Nothing
    <2> SUFFICES ASSUME NEW k \in Kinds, NEW p PROVE [kind |-> k, photo |-> p].kind # Nothing.kind
      OBVIOUS
    <2> QED  BY DEF Kinds, Nothing
  <1>00. {"recognize", "mcpTags"} \subseteq Kinds  BY DEF Kinds
  <1>1. ASSUME NEW p \in Photos, NEW force \in BOOLEAN, HandleLlmRecognize(r, p, force)
        PROVE  Gone(r)' /\ (Begun(r) => Begun(r)')
    <2>1. asks'[r] = [kind |-> "recognize", photo |-> p] /\ stage'[r] \in {"starts", "done"}
      BY <1>1 DEF HandleLlmRecognize, Asks, Told
    <2>2. stage[r] = "unmade" /\ UNCHANGED <<job, outcome>>
      BY <1>1 DEF HandleLlmRecognize, Asks
    <2> QED  BY <1>0, <1>00, <2>1, <2>2 DEF Gone, Begun
  <1>2. ASSUME NEW p \in Photos, NEW force \in BOOLEAN, NEW kind \in Kinds,
               HandleAiAction(r, kind, p, force)
        PROVE  Gone(r)' /\ (Begun(r) => Begun(r)')
    <2>1. /\ asks'[r] = [kind |-> kind, photo |-> p] /\ stage'[r] = "polls"
          /\ job'[r] \in {"none", "calls"}
      BY <1>2 DEF HandleAiAction, Asks
    <2>2. stage[r] = "unmade" /\ UNCHANGED outcome
      BY <1>2 DEF HandleAiAction, Asks
    <2> QED  BY <1>0, <2>1, <2>2 DEF Gone, Begun
  <1>3. ASSUME NEW p \in Photos, RunImageAction(r, p)
        PROVE  Gone(r)' /\ (Begun(r) => Begun(r)')
    <2>1. /\ asks'[r] = [kind |-> "mcpTags", photo |-> p] /\ stage'[r] \in {"polls", "done"}
          /\ job'[r] \in {job[r], "calls"} /\ (stage'[r] = "done" => job'[r] = job[r])
      BY <1>3 DEF RunImageAction, Asks, Told
    <2>2. stage[r] = "unmade" /\ UNCHANGED outcome
      BY <1>3 DEF RunImageAction, Asks
    <2> QED  BY <1>0, <1>00, <2>1, <2>2 DEF Gone, Begun
  <1>4. CASE StartRecognizeAsync(r)
    BY <1>4 DEF StartRecognizeAsync, Gone, Begun
  <1>5. CASE RecognizeWithLlm(r)
    <2>1. UNCHANGED <<asks, stage>> /\ job[r] = "calls"
      BY <1>5 DEF RecognizeWithLlm, Recognizes
    <2>2. \E to : Comes(r, to) /\ (to = Failed \/ \E v : to = Completed(v))
      BY <1>5 DEF RecognizeWithLlm
    <2>3. /\ job'[r] = "reports"
          /\ outcome'[r] = Failed \/ \E v : outcome'[r] = Completed(v)
      BY <2>2 DEF Comes
    <2> QED  BY <2>1, <2>3, TasksTyped DEF Gone, Begun
  <1>6. CASE ExecuteAiAction(r)
    <2>1. UNCHANGED <<asks, stage>> /\ job[r] = "calls" /\ asks[r].kind # "recognize"
      BY <1>6 DEF ExecuteAiAction
    <2>2. CASE /\ job'[r] = "reports"
               /\ outcome'[r] = Failed \/ \E v : outcome'[r] = Completed(v)
      BY <2>1, <2>2, TasksTyped DEF Gone, Begun
    <2>3. ASSUME NEW raw \in Responses, InRange(PostProcessTags(raw)), asks[r].kind # "describe",
                 job'[r] = "deletes", outcome'[r] = Completed(PostProcessTags(raw))
          PROVE  Gone(r)' /\ (Begun(r) => Begun(r)')
      <3>1. DistinctTags(PostProcessTags(raw))  BY AiTasksAssumption, TagsAreDistinct
      <3>2. outcome'[r].value = PostProcessTags(raw)  BY <2>3, TasksTyped
      <3>3. stage[r] # "unmade"  BY <2>1 DEF Gone
      <3>4. asks[r].kind \in {"tags", "mcpTags"}
        BY <2>1, <2>3, <3>3 DEF Gone, Kinds
      <3>5. Finished(outcome'[r])  BY <2>3, TasksTyped
      <3> QED  BY <2>1, <2>3, <3>1, <3>2, <3>4, <3>5 DEF Gone, Begun, InRange
    <2> QED  BY <1>6, <2>2, <2>3 DEF ExecuteAiAction, Comes
  <1>7. CASE ReportRecognition(r) \/ ReportAction(r)
    <2>1. job'[r] = "none" /\ job[r] = "reports" /\ UNCHANGED <<asks, stage, outcome>>
      BY <1>7 DEF ReportRecognition, ReportAction
    <2> QED  BY <2>1 DEF Gone, Begun
  <1>8. CASE AnswerTool(r)
    <2>1. job'[r] = "none" /\ job[r] = "reports" /\ UNCHANGED <<asks, outcome>> /\ stage'[r] = "done"
      BY <1>8 DEF AnswerTool, Told
    <2> QED  BY <2>1 DEF Gone, Begun
  <1>9. CASE DeleteTags(r) \/ InsertTags(r)
    <2>1. /\ job[r] \in {"deletes", "inserts"} /\ job'[r] \in {"inserts", "reports"}
          /\ UNCHANGED <<asks, stage, outcome>>
      BY <1>9 DEF DeleteTags, InsertTags
    <2> QED  BY <2>1 DEF Gone, Begun, InRange
  <1>10. CASE HandleLlmRecognizeStatus(r)
    <2>1. /\ stage[r] = "polls" /\ asks[r].kind = "recognize" /\ UNCHANGED <<asks, job, outcome>>
          /\ stage'[r] \in {"polls", "rereads", "done"}
      BY <1>10 DEF HandleLlmRecognizeStatus, Told
    <2> QED  BY <2>1 DEF Gone, Begun, InRange
  <1>11. CASE RereadRecognition(r) \/ HandleAiActionStatus(r)
    <2>1. /\ stage[r] \in {"rereads", "polls"} /\ UNCHANGED <<asks, job, outcome>>
          /\ stage'[r] \in {"polls", "done"} /\ asks[r].kind # "mcpTags"
      BY <1>11 DEF RereadRecognition, HandleAiActionStatus, Told, Gone
    <2> QED  BY <2>1 DEF Gone, Begun, InRange
  <1> QED
    BY <1>1, <1>2, <1>3, <1>4, <1>5, <1>6, <1>7, <1>8, <1>9, <1>10, <1>11
    DEF Acts, TaskSteps, Polls

\* A goroutine that a request joins runs.
LEMMA Joined ==
    ASSUME AiTyped, Remember, NEW r \in Requests
    PROVE  /\ joined'[r] = Joins(r)
           /\ joined'[r] = joined[r] \/ \A run \in joined'[r] : run \in Requests /\ job'[run] # "none"
           /\ ~(stage'[r] = "polls" /\ ~Begun(r)) => joined'[r] = joined[r]
  <1>1. joined'[r] = Joins(r)  BY DEF Remember
  <1>2. stage[r] \in {"unmade", "starts"} <=> ~Begun(r)  BY DEF Begun
  <1>3. \A run \in Recognisers(asks[r].photo)' : run \in Requests /\ job'[run] # "none"
    BY DEF Recognisers, Running
  <1> QED  BY <1>1, <1>2, <1>3 DEF Joins

LEMMA ProgressGone ==
    ASSUME NEW r \in Requests
    PROVE  Progress(r) <=> /\ Gone(r) /\ (~Begun(r) => joined[r] = {})
                           /\ \A run \in joined[r] : run \in Requests /\ Begun(run)
  BY DEF Progress, Gone, Begun

LEMMA RestartStages ==
    ASSUME AiTyped, Restart, NEW r \in Requests, Gone(r)
    PROVE  /\ job'[r] = "none" /\ asks'[r] = asks[r] /\ outcome'[r] = outcome[r]
           /\ stage'[r] # "starts" /\ stage'[r] # "rereads"
           /\ stage[r] = "unmade" => stage'[r] = "unmade"
           /\ stage[r] = "done" => stage'[r] = "done" /\ answer'[r] = answer[r]
           /\ stage'[r] = "polls" => stage[r] \in {"polls", "rereads"}
           /\ stage'[r] = "unmade" => stage[r] = "unmade"
  BY DEF AiTyped, Restart, Gone

LEMMA ProgressStep ==
    ASSUME AiTyped, \A r \in Requests : Progress(r), AiNext, Remember
    PROVE  \A r \in Requests : Progress(r)' /\ (Begun(r) => Begun(r)')
  <1>1. \A r \in Requests : /\ Gone(r) /\ (~Begun(r) => joined[r] = {})
                            /\ \A run \in joined[r] : run \in Requests /\ Begun(run)
    BY ProgressGone
  <1>2. \A r \in Requests : Gone(r)' /\ (Begun(r) => Begun(r)')
    <2>1. ASSUME NEW q \in Requests, Acts(q), NEW r \in Requests
          PROVE  Gone(r)' /\ (Begun(r) => Begun(r)')
      <3>1. CASE r = q  BY <1>1, <2>1, <3>1, GoneActs
      <3>2. CASE r # q
        BY <1>1, <2>1, <3>2, OthersStay DEF Gone, Begun, InRange
      <3> QED  BY <3>1, <3>2
    <2>2. CASE TasksAge \/ CleanupExpiredTasks
      BY <1>1, <2>2 DEF TasksAge, CleanupExpiredTasks, Gone, Begun, InRange
    <2>3. CASE Restart
      BY <1>1, <2>3, RestartStages DEF Gone, Begun
    <2> QED  BY <2>1, <2>2, <2>3, ActsNext
  <1>3. ASSUME NEW r \in Requests PROVE Progress(r)'
    <2>1. \A run \in Requests : job'[run] # "none" => Begun(run)'
      BY <1>2 DEF Gone, Begun
    <2>2. \A run \in joined'[r] : run \in Requests /\ Begun(run)'
      BY <1>1, <1>2, <2>1, Joined
    <2>3. ~Begun(r)' => joined'[r] = {}
      <3>1. SUFFICES ASSUME ~Begun(r)' PROVE joined'[r] = {}  OBVIOUS
      <3>2. ~Begun(r) /\ stage'[r] # "polls"  BY <1>2, <3>1 DEF Begun
      <3> QED  BY <1>1, <3>2, Joined
    <2>4. Gone(r)'  BY <1>2
    <2> QED  BY <2>2, <2>3, <2>4 DEF Progress, Gone, Begun
  <1> QED  BY <1>2, <1>3

-----------------------------------------------------------------------------
(* Tasks: one goroutine recognises a photo's text *)

LEMMA RecogniserStep ==
    ASSUME AiTyped, \A r \in Requests : Progress(r), OneRecogniser, AiNext
    PROVE  OneRecogniser'
  <1>1. \A r \in Requests : Gone(r) /\ (Recognising(r) => asks[r].photo \in Photos)
    <2>1. \A r \in Requests : Recognising(r) => stage[r] # "unmade"  BY DEF Recognising, Progress
    <2>2. \A r \in Requests : stage[r] # "unmade" => asks[r].photo \in Photos
      BY Asked
    <2> QED  BY <2>1, <2>2, ProgressGone
  <1>2. \A p \in Photos : recognising[p] = Processing => AfterReading(recognising[p]) = Processing
    BY TasksTyped DEF AfterReading
  \* Others go on; and the one that acts recognises nothing that it has not before.
  <1>3. ASSUME NEW r \in Requests, Acts(r), ~StartRecognizeAsync(r), ~ReportRecognition(r)
        PROVE  OneRecogniser'
    <2>1. ASSUME NEW q \in Requests, Recognising(q)' PROVE Recognising(q) /\ asks'[q] = asks[q]
      <3>1. CASE q # r  BY <1>3, <2>1, <3>1, OthersStay DEF Recognising
      <3>2. ASSUME NEW p \in Photos, NEW force \in BOOLEAN, NEW kind \in Kinds,
                   \/ HandleLlmRecognize(r, p, force)
                   \/ HandleAiAction(r, kind, p, force)
                   \/ RunImageAction(r, p)
            PROVE  ~Recognising(r)'
        <4>1. CASE HandleLlmRecognize(r, p, force)
          <5>1. stage[r] = "unmade" /\ job' = job  BY <4>1 DEF HandleLlmRecognize, Asks
          <5> QED  BY <1>1, <5>1 DEF Gone, Recognising
        <4>2. CASE HandleAiAction(r, kind, p, force) \/ RunImageAction(r, p)
          <5>1. asks'[r].kind # "recognize"
            BY <4>2 DEF HandleAiAction, RunImageAction, Asks, AiTyped
          <5> QED  BY <5>1 DEF Recognising
        <4> QED  BY <3>2, <4>1, <4>2
      <3>3. CASE RecognizeWithLlm(r) \/ ExecuteAiAction(r)
        BY <2>1, <3>1, <3>3 DEF RecognizeWithLlm, ExecuteAiAction, Comes, Recognising, Recognizes, AiTyped
      <3>4. CASE DeleteTags(r) \/ InsertTags(r) \/ ReportAction(r) \/ AnswerTool(r)
        BY <2>1, <3>1, <3>4 DEF DeleteTags, InsertTags, ReportAction, AnswerTool, Recognising, AiTyped
      <3>5. CASE HandleLlmRecognizeStatus(r) \/ RereadRecognition(r) \/ HandleAiActionStatus(r)
        BY <2>1, <3>1, <3>5 DEF HandleLlmRecognizeStatus, RereadRecognition, HandleAiActionStatus, Recognising
      <3> QED
        BY <1>3, <2>1, <3>1, <3>2, <3>3, <3>4, <3>5 DEF Acts, TaskSteps, Polls, Kinds
    <2>2. ASSUME NEW p \in Photos, recognising[p] = Processing PROVE recognising'[p] = Processing
      <3>1. CASE HandleLlmRecognizeStatus(r)
        BY <1>2, <2>2, <3>1 DEF HandleLlmRecognizeStatus, AiTyped
      <3>2. CASE ~HandleLlmRecognizeStatus(r)
        <4>1. recognising' = recognising
          BY <1>3, <3>2 DEF Acts, TaskSteps, Polls, HandleLlmRecognize, HandleAiAction, RunImageAction,
             RecognizeWithLlm, ExecuteAiAction, DeleteTags, InsertTags, ReportAction, AnswerTool,
             RereadRecognition, HandleAiActionStatus
        <4> QED  BY <2>2, <4>1
      <3> QED  BY <3>1, <3>2
    <2> QED  BY <1>1, <2>1, <2>2 DEF OneRecogniser
  <1>4. ASSUME NEW r \in Requests, StartRecognizeAsync(r) PROVE OneRecogniser'
    <2> DEFINE p == asks[r].photo
    <2>1. asks' = asks /\ stage[r] = "starts" /\ p \in Photos
      BY <1>4, Asked DEF StartRecognizeAsync
    <2>2. CASE recognising[p] = Processing
      BY <1>4, <2>1, <2>2 DEF StartRecognizeAsync, OneRecogniser, Recognising
    <2>3. CASE recognising[p] # Processing
      <3>1. /\ recognising'[p] = Processing
            /\ \A o \in Photos \ {p} : recognising'[o] = recognising[o]
        BY <1>4, <2>1, <2>3 DEF StartRecognizeAsync, AiTyped
      <3>2. \A q \in Requests \ {r} : job'[q] = job[q]
        BY <1>4, OthersStay DEF Acts, TaskSteps
      <3>3. \A q \in Requests : Recognising(q) => asks[q].photo # p
        BY <2>3 DEF OneRecogniser
      <3>4. \A q \in Requests : Recognising(q)' => q = r \/ Recognising(q)
        BY <2>1, <3>2 DEF Recognising
      <3> HIDE DEF p
      <3>5. ASSUME NEW q \in Requests, Recognising(q)'
            PROVE  recognising'[asks'[q].photo] = Processing
        BY <1>1, <2>1, <3>1, <3>4, <3>5 DEF OneRecogniser, p
      <3>6. ASSUME NEW q \in Requests, NEW o \in Requests, Recognising(q)', Recognising(o)',
                   asks'[o].photo = asks'[q].photo
            PROVE  o = q
        BY <2>1, <3>3, <3>4, <3>6 DEF OneRecogniser, p
      <3> QED  BY <3>5, <3>6 DEF OneRecogniser
    <2> QED  BY <2>2, <2>3
  <1>5. ASSUME NEW r \in Requests, ReportRecognition(r) PROVE OneRecogniser'
    <2> DEFINE p == asks[r].photo
    <2>1. asks' = asks /\ job[r] = "reports" /\ Recognising(r)
      BY <1>5 DEF ReportRecognition, Recognising
    <2>2. job'[r] = "none" /\ \A q \in Requests \ {r} : job'[q] = job[q]
      BY <1>5 DEF ReportRecognition, AiTyped
    <2>3. \A o \in Photos \ {p} : recognising'[o] = recognising[o]
      BY <1>5 DEF ReportRecognition, AiTyped
    <2>4. \A q \in Requests : Recognising(q)' => Recognising(q) /\ q # r
      BY <2>1, <2>2 DEF Recognising
    <2>5. \A q \in Requests : Recognising(q)' => asks[q].photo # p
      BY <2>1, <2>4 DEF OneRecogniser
    <2> QED  BY <1>1, <2>1, <2>3, <2>4, <2>5 DEF OneRecogniser
  <1>6. CASE TasksAge
    BY <1>6 DEF TasksAge, OneRecogniser, Recognising
  <1>7. CASE CleanupExpiredTasks
    <2>1. \A p \in Photos : recognising[p] = Processing => recognising'[p] = Processing
      BY <1>7, TasksTyped DEF CleanupExpiredTasks, AfterCleanup
    <2> QED  BY <1>1, <1>7, <2>1 DEF CleanupExpiredTasks, OneRecogniser, Recognising
  <1>8. CASE Restart
    BY <1>1, <1>8, RestartStages DEF OneRecogniser, Recognising
  <1> QED  BY <1>3, <1>4, <1>5, <1>6, <1>7, <1>8, ActsNext

-----------------------------------------------------------------------------
(* Tasks: who asked is told what came of it *)

Restarted == restarts' # restarts

LEMMA RestartCounts == ASSUME AiTyped, AiNext PROVE Restarted <=> Restart
  <1>1. Restart => Restarted  BY DEF AiTyped, Restart, Restarted
  <1>2. ASSUME NEW r \in Requests, Acts(r) PROVE ~Restarted
    BY <1>2 DEF Restarted, Acts, TaskSteps, Polls, HandleLlmRecognize, HandleAiAction, RunImageAction,
       StartRecognizeAsync, RecognizeWithLlm, ReportRecognition, ExecuteAiAction, DeleteTags, InsertTags,
       ReportAction, AnswerTool, HandleLlmRecognizeStatus, RereadRecognition, HandleAiActionStatus
  <1>3. TasksAge \/ CleanupExpiredTasks => ~Restarted
    BY DEF Restarted, TasksAge, CleanupExpiredTasks
  <1> QED  BY <1>1, <1>2, <1>3, ActsNext

\* What a goroutine has come to remains, and so does what was asked.
LEMMA Settled ==
    ASSUME AiTyped, AiNext, NEW r \in Requests, Gone(r), Begun(r)
    PROVE  /\ asks'[r] = asks[r]
           /\ job[r] = "none" => job'[r] = "none" /\ outcome'[r] = outcome[r]
           /\ stage[r] = "done" => stage'[r] = "done" /\ answer'[r] = answer[r]
  <1> DEFINE Fact == /\ asks'[r] = asks[r]
                     /\ job[r] = "none" => job'[r] = "none" /\ outcome'[r] = outcome[r]
                     /\ stage[r] = "done" => stage'[r] = "done" /\ answer'[r] = answer[r]
  <1> SUFFICES Fact  OBVIOUS
  <1>0. stage[r] # "unmade" /\ stage[r] # "starts"  BY DEF Begun
  <1>1. CASE StartRecognizeAsync(r) \/ RereadRecognition(r)
    BY <1>0, <1>1 DEF StartRecognizeAsync, RereadRecognition, Told
  <1>2. CASE RecognizeWithLlm(r) \/ ExecuteAiAction(r)
    BY <1>2 DEF RecognizeWithLlm, Recognizes, ExecuteAiAction
  <1>3. CASE ReportRecognition(r) \/ ReportAction(r)
    BY <1>3 DEF ReportRecognition, ReportAction
  <1>4. CASE DeleteTags(r) \/ InsertTags(r)
    BY <1>4 DEF DeleteTags, InsertTags
  <1>5. CASE AnswerTool(r)
    BY <1>5 DEF AnswerTool, Gone
  <1>6. CASE HandleLlmRecognizeStatus(r) \/ HandleAiActionStatus(r)
    BY <1>6 DEF HandleLlmRecognizeStatus, HandleAiActionStatus
  <1>7. CASE Acts(r)
    BY <1>0, <1>1, <1>2, <1>3, <1>4, <1>5, <1>6, <1>7
    DEF Acts, TaskSteps, Polls, HandleLlmRecognize, HandleAiAction, RunImageAction, Asks
  <1>8. ASSUME NEW q \in Requests, Acts(q) PROVE Fact
    <2>1. CASE q = r  BY <1>7, <1>8, <2>1
    <2>2. CASE q # r  BY <1>8, <2>2, OthersStay
    <2> QED  BY <2>1, <2>2
  <1>9. CASE TasksAge \/ CleanupExpiredTasks
    BY <1>9 DEF TasksAge, CleanupExpiredTasks
  <1>10. CASE Restart  BY <1>10, RestartStages
  <1> QED  BY <1>8, <1>9, <1>10, ActsNext

\* How polling ends
LEMMA Polled ==
    ASSUME AiTyped, AiNext, ~Restarted, NEW r \in Requests, Gone(r), stage[r] = "polls", stage'[r] # "polls"
    PROVE  \/ /\ asks[r].kind = "recognize"
              /\ \/ recognising[asks[r].photo] = NoTask /\ stage'[r] = "rereads"
                 \/ /\ recognising[asks[r].photo] # Processing /\ stage'[r] = "done"
                    /\ answer'[r] = recognising[asks[r].photo]
           \/ /\ asks[r].kind \in {"tags", "describe"} /\ stage'[r] = "done"
              /\ actions[r] # Processing
              /\ actions[r] # NoTask => answer'[r] = actions[r]
           \/ /\ asks[r].kind = "mcpTags" /\ stage'[r] = "done"
              /\ job[r] = "reports" /\ job'[r] = "none"
              /\ outcome'[r] = outcome[r] /\ answer'[r] = outcome[r]
  <1> DEFINE Fact ==
           \/ /\ asks[r].kind = "recognize"
              /\ \/ recognising[asks[r].photo] = NoTask /\ stage'[r] = "rereads"
                 \/ /\ recognising[asks[r].photo] # Processing /\ stage'[r] = "done"
                    /\ answer'[r] = recognising[asks[r].photo]
           \/ /\ asks[r].kind \in {"tags", "describe"} /\ stage'[r] = "done"
              /\ actions[r] # Processing
              /\ actions[r] # NoTask => answer'[r] = actions[r]
           \/ /\ asks[r].kind = "mcpTags" /\ stage'[r] = "done"
              /\ job[r] = "reports" /\ job'[r] = "none"
              /\ outcome'[r] = outcome[r] /\ answer'[r] = outcome[r]
  <1> SUFFICES Fact  OBVIOUS
  <1>00. NoTask # Processing
    <2>1. NoTask.status # Processing.status  BY DEF NoTask, Processing
    <2> QED  BY <2>1
  <1>0. DOMAIN stage = Requests /\ DOMAIN answer = Requests /\ DOMAIN job = Requests
    BY DEF AiTyped
  <1>1. CASE HandleLlmRecognizeStatus(r)
    <2>1. CASE recognising[asks[r].photo] = NoTask
      BY <1>0, <1>1, <2>1 DEF HandleLlmRecognizeStatus
    <2>2. CASE recognising[asks[r].photo] = Processing
      BY <1>00, <1>1, <2>2 DEF HandleLlmRecognizeStatus
    <2>3. CASE recognising[asks[r].photo] # NoTask /\ recognising[asks[r].photo] # Processing
      BY <1>0, <1>1, <2>3 DEF HandleLlmRecognizeStatus, Told
    <2> QED  BY <2>1, <2>2, <2>3
  <1>2. CASE HandleAiActionStatus(r)
    <2>1. CASE actions[r] = NoTask
      BY <1>0, <1>00, <1>2, <2>1 DEF HandleAiActionStatus, Told
    <2>2. CASE actions[r] = Processing
      BY <1>00, <1>2, <2>2 DEF HandleAiActionStatus
    <2>3. CASE actions[r] # NoTask /\ actions[r] # Processing
      BY <1>0, <1>2, <2>3 DEF HandleAiActionStatus, Told
    <2> QED  BY <2>1, <2>2, <2>3
  <1>3. CASE AnswerTool(r)
    BY <1>0, <1>3 DEF AnswerTool, Told
  <1>4. CASE TaskSteps(r) /\ ~AnswerTool(r)
    BY <1>4 DEF TaskSteps, StartRecognizeAsync, RecognizeWithLlm, ReportRecognition, ExecuteAiAction,
       DeleteTags, InsertTags, ReportAction
  <1>5. CASE RereadRecognition(r)
    BY <1>5 DEF RereadRecognition
  <1>6. CASE Acts(r)
    BY <1>1, <1>2, <1>3, <1>4, <1>5, <1>6
    DEF Acts, Polls, HandleLlmRecognize, HandleAiAction, RunImageAction, Asks
  <1>7. ASSUME NEW q \in Requests, Acts(q) PROVE Fact
    <2>1. CASE q = r  BY <1>6, <1>7, <2>1
    <2>2. CASE q # r  BY <1>7, <2>2, OthersStay
    <2> QED  BY <2>1, <2>2
  <1>8. CASE TasksAge \/ CleanupExpiredTasks
    BY <1>8 DEF TasksAge, CleanupExpiredTasks
  <1> QED  BY <1>7, <1>8, ActsNext, RestartCounts

\* A goroutine that ends has reported what it came to.
LEMMA Reported ==
    ASSUME AiTyped, AiNext, ~Restarted, NEW r \in Requests, Gone(r), asks[r].photo \in Photos,
           job[r] # "none", job'[r] = "none"
    PROVE  /\ outcome'[r] = outcome[r] /\ Finished(outcome[r])
           /\ asks[r].kind = "recognize" => recognising'[asks[r].photo] = outcome[r]
           /\ asks[r].kind \in {"tags", "describe"} => actions'[r] = outcome[r]
           /\ asks[r].kind = "mcpTags" => stage'[r] = "done"
  <1> DEFINE Fact == /\ outcome'[r] = outcome[r] /\ Finished(outcome[r])
                     /\ asks[r].kind = "recognize" => recognising'[asks[r].photo] = outcome[r]
                     /\ asks[r].kind \in {"tags", "describe"} => actions'[r] = outcome[r]
                     /\ asks[r].kind = "mcpTags" => stage'[r] = "done"
  <1> SUFFICES Fact  OBVIOUS
  <1>0. /\ DOMAIN stage = Requests /\ DOMAIN recognising = Photos /\ DOMAIN job = Requests
        /\ DOMAIN actions = Requests
    BY DEF AiTyped
  <1>1. CASE ReportRecognition(r) \/ ReportAction(r) \/ AnswerTool(r)
    BY <1>0, <1>1 DEF ReportRecognition, ReportAction, AnswerTool, Told, Gone
  <1>2. CASE RecognizeWithLlm(r) \/ ExecuteAiAction(r)
    BY <1>0, <1>2 DEF RecognizeWithLlm, ExecuteAiAction, Comes
  <1>3. CASE DeleteTags(r) \/ InsertTags(r) \/ StartRecognizeAsync(r)
    BY <1>0, <1>3 DEF DeleteTags, InsertTags, StartRecognizeAsync
  <1>4. CASE Polls(r)
    BY <1>4 DEF Polls, HandleLlmRecognizeStatus, RereadRecognition, HandleAiActionStatus
  <1>5. CASE Acts(r)
    <2>1. stage[r] # "unmade"  BY DEF Gone
    <2> QED
      BY <1>1, <1>2, <1>3, <1>4, <1>5, <2>1
      DEF Acts, TaskSteps, HandleLlmRecognize, HandleAiAction, RunImageAction, Asks
  <1>7. ASSUME NEW q \in Requests, Acts(q) PROVE Fact
    <2>1. CASE q = r  BY <1>5, <1>7, <2>1
    <2>2. CASE q # r  BY <1>7, <2>2, OthersStay
    <2> QED  BY <2>1, <2>2
  <1>8. CASE TasksAge \/ CleanupExpiredTasks
    BY <1>8 DEF TasksAge, CleanupExpiredTasks
  <1> QED  BY <1>7, <1>8, ActsNext, RestartCounts

\* The task of an AI action is under way as long as its goroutine runs.
LEMMA ActionGoesOn ==
    ASSUME AiTyped, AiNext, ~Restarted, NEW r \in Requests, Gone(r), stage[r] # "unmade",
           actions[r] = Processing, job'[r] # "none"
    PROVE  actions'[r] = Processing
  <1>0. DOMAIN job = Requests /\ DOMAIN actions = Requests  BY DEF AiTyped
  <1>1. CASE HandleAiActionStatus(r)
    BY <1>0, <1>1, TasksTyped DEF HandleAiActionStatus, AfterReading
  <1>2. CASE ReportAction(r)
    BY <1>0, <1>2 DEF ReportAction
  <1>3. CASE Acts(r)
    BY <1>1, <1>2, <1>3
    DEF Acts, TaskSteps, Polls, HandleLlmRecognize, HandleAiAction, RunImageAction, Asks,
       StartRecognizeAsync, RecognizeWithLlm, ReportRecognition, ExecuteAiAction, DeleteTags, InsertTags,
       AnswerTool, HandleLlmRecognizeStatus, RereadRecognition
  <1>7. ASSUME NEW q \in Requests, Acts(q) PROVE actions'[r] = Processing
    <2>1. CASE q = r  BY <1>3, <1>7, <2>1
    <2>2. CASE q # r  BY <1>7, <2>2, OthersStay
    <2> QED  BY <2>1, <2>2
  <1>8. CASE TasksAge \/ CleanupExpiredTasks
    BY <1>8, TasksTyped DEF TasksAge, CleanupExpiredTasks, AfterCleanup
  <1> QED  BY <1>7, <1>8, ActsNext, RestartCounts

\* How polling begins
LEMMA BeginsToPoll ==
    ASSUME AiTyped, AiNext, NEW r \in Requests, Gone(r), ~Begun(r), stage'[r] = "polls"
    PROVE  /\ asks'[r].kind = "recognize" => asks'[r] = asks[r] /\ stage[r] = "starts"
           /\ asks'[r].kind \notin {"recognize", "mcpTags"} /\ job'[r] # "none" =>
                 actions'[r] = Processing
  <1> DEFINE Fact == /\ asks'[r].kind = "recognize" => asks'[r] = asks[r] /\ stage[r] = "starts"
                     /\ asks'[r].kind \notin {"recognize", "mcpTags"} /\ job'[r] # "none" =>
                           actions'[r] = Processing
  <1> SUFFICES Fact  OBVIOUS
  <1>0. /\ DOMAIN stage = Requests /\ DOMAIN asks = Requests /\ DOMAIN job = Requests
        /\ DOMAIN actions = Requests
    BY DEF AiTyped
  <1>00. stage[r] \in {"unmade", "starts"} /\ job[r] = "none"  BY DEF Begun, Gone
  <1>1. ASSUME NEW p \in Photos, NEW force \in BOOLEAN, HandleLlmRecognize(r, p, force) PROVE Fact
    <2>1. stage'[r] # "polls"  BY <1>0, <1>1 DEF HandleLlmRecognize, Told
    <2> QED  BY <2>1
  <1>2. ASSUME NEW p \in Photos, NEW force \in BOOLEAN, NEW kind \in Kinds,
               HandleAiAction(r, kind, p, force)
        PROVE  Fact
    <2> DEFINE cached == kind = "tags" /\ ~force /\ tags[p] # <<>>
    <2>1. asks'[r].kind = kind /\ kind # "recognize"
      BY <1>0, <1>2 DEF HandleAiAction, Asks
    <2>2. CASE cached
      BY <1>0, <1>2, <2>1, <2>2 DEF HandleAiAction
    <2>3. CASE ~cached
      BY <1>0, <1>2, <2>1, <2>3 DEF HandleAiAction
    <2> QED  BY <2>2, <2>3
  <1>3. ASSUME NEW p \in Photos, RunImageAction(r, p) PROVE Fact
    BY <1>0, <1>3 DEF RunImageAction, Asks
  <1>4. CASE StartRecognizeAsync(r)
    BY <1>4 DEF StartRecognizeAsync, Gone
  <1>5. CASE TaskSteps(r) /\ ~StartRecognizeAsync(r)
    BY <1>00, <1>5 DEF TaskSteps, RecognizeWithLlm, Recognizes, ReportRecognition, ExecuteAiAction,
       DeleteTags, InsertTags, ReportAction, AnswerTool
  <1>6. CASE Polls(r)
    BY <1>00, <1>6 DEF Polls, HandleLlmRecognizeStatus, RereadRecognition, HandleAiActionStatus
  <1>7. ASSUME NEW q \in Requests, Acts(q) PROVE Fact
    <2>1. CASE q = r  BY <1>1, <1>2, <1>3, <1>4, <1>5, <1>6, <1>7, <2>1 DEF Acts
    <2>2. CASE q # r  BY <1>00, <1>7, <2>2, OthersStay
    <2> QED  BY <2>1, <2>2
  <1>8. CASE TasksAge \/ CleanupExpiredTasks
    BY <1>00, <1>8 DEF TasksAge, CleanupExpiredTasks
  <1>9. CASE Restart
    BY <1>00, <1>9, RestartStages
  <1> QED  BY <1>7, <1>8, <1>9, ActsNext

LEMMA OwnStep ==
    ASSUME AiTyped, \A r \in Requests : Progress(r), OneRecogniser, AiNext, Remember, AiTyped',
           \A r \in Requests \ disturbed : Own(r)
    PROVE  \A r \in Requests \ disturbed' : Own(r)'
  <1> SUFFICES ASSUME NEW r \in Requests \ disturbed' PROVE Own(r)'  OBVIOUS
  <1>1. r \in Requests \ disturbed /\ ~Robbed(r) /\ ~Forgotten(r)  BY DEF Remember
  <1>2. Own(r)  BY <1>1
  <1>3. \A q \in Requests : /\ Gone(q) /\ (~Begun(q) => joined[q] = {})
                            /\ \A run \in joined[q] : run \in Requests /\ Begun(run)
    BY ProgressGone
  <1>4. \A q \in Requests : Begun(q) => stage[q] # "unmade" /\ asks[q].photo \in Photos
                                        /\ asks[q].kind \in Kinds
    <2>1. \A q \in Requests : Begun(q) => stage[q] # "unmade"  BY DEF Begun
    <2> QED  BY <2>1, Asked
  <1>5. ~(stage'[r] = "polls" /\ ~Begun(r)) => joined'[r] = joined[r]  BY <1>1, Joined
  <1>6. CASE ~Begun(r) /\ stage'[r] # "polls"
    <2>1. joined'[r] = {}  BY <1>1, <1>3, <1>5, <1>6
    <2> QED  BY <2>1 DEF Own
  <1>7. CASE ~Begun(r) /\ stage'[r] = "polls"
    <2>1. stage[r] \in {"unmade", "starts"}  BY <1>7 DEF Begun
    <2>2. joined'[r] = IF asks'[r].kind = "recognize" THEN Recognisers(asks[r].photo)'
                       ELSE {r} \ {q \in Requests : job'[q] = "none"}
      BY <1>1, <1>7, <2>1, Joined DEF Joins
    <2>3. /\ asks'[r].kind = "recognize" => asks'[r] = asks[r] /\ stage[r] = "starts"
          /\ asks'[r].kind \notin {"recognize", "mcpTags"} /\ job'[r] # "none" =>
                actions'[r] = Processing
      BY <1>1, <1>3, <1>7, BeginsToPoll
    <2>4. ASSUME NEW run \in joined'[r] PROVE AwaitsOwn(r, run)'
      <3>1. CASE asks'[r].kind = "recognize"
        <4>1. asks[r].photo = asks'[r].photo  BY <2>3, <3>1
        <4>2. /\ run \in Requests /\ job'[run] # "none" /\ asks'[run] # Nothing
              /\ asks'[run].photo = asks'[r].photo /\ asks'[run].kind = "recognize"
          BY <2>2, <2>4, <3>1, <4>1 DEF Recognisers, Running
        <4>3. asks'[r] = asks[r] /\ stage[r] # "unmade"  BY <2>3, <3>1
        <4>4. asks'[r] \in [kind : Kinds, photo : Photos]
          BY <1>1, <1>3, <4>3, Asked
        <4>5. asks'[run] \in [kind : Kinds, photo : Photos]  BY <4>2 DEF AiTyped
        <4>6. asks'[run] = asks'[r]  BY <3>1, <4>2, <4>4, <4>5
        <4> QED  BY <3>1, <4>2, <4>6 DEF AwaitsOwn
      <3>2. CASE asks'[r].kind # "recognize"
        <4>1. run = r /\ job'[r] # "none"  BY <1>1, <2>2, <2>4, <3>2
        <4> QED  BY <2>3, <3>2, <4>1 DEF AwaitsOwn
      <3> QED  BY <3>1, <3>2
    <2> QED  BY <1>7, <2>4 DEF Own
  <1>8. CASE Begun(r) /\ stage[r] # "polls"
    <2>1. CASE stage[r] = "done"
      <3>1. stage'[r] = "done" /\ answer'[r] = answer[r]  BY <1>1, <1>3, <1>8, <2>1, Settled
      <3>2. ASSUME NEW run \in joined'[r] PROVE job'[run] = "none" /\ answer'[r] = outcome'[run]
        <4>1. run \in joined[r] /\ run \in Requests /\ Begun(run) /\ Gone(run)
          BY <1>1, <1>3, <1>5, <1>8, <3>2
        <4>2. job[run] = "none" /\ answer[r] = outcome[run]  BY <1>2, <2>1, <4>1 DEF Own
        <4> QED  BY <3>1, <4>1, <4>2, Settled
      <3> QED  BY <3>1, <3>2 DEF Own
    <2>2. CASE stage[r] # "done"
      <3>1. stage[r] = "rereads"  BY <1>1, <1>8, <2>2 DEF AiTyped, Begun
      <3>2. joined'[r] = {}  BY <1>2, <1>5, <1>8, <3>1 DEF Own
      <3> QED  BY <3>2 DEF Own
    <2> QED  BY <2>1, <2>2
  <1>9. CASE stage[r] = "polls"
    <2>0. ~Restarted  BY <1>1, <1>9 DEF Forgotten, Restarted
    <2>1. Begun(r)  BY <1>9 DEF Begun
    <2>2. asks'[r] = asks[r] /\ joined'[r] = joined[r] /\ asks[r].kind \in Kinds
          /\ asks[r].photo \in Photos
      BY <1>1, <1>3, <1>4, <1>5, <2>1, Settled
    <2>3. \A run \in joined[r] : AwaitsOwn(r, run) /\ run \in Requests /\ Begun(run) /\ Gone(run)
      BY <1>1, <1>2, <1>3, <1>9 DEF Own
    \* It suffices that each goroutine's outcome is awaited still or answered.
    <2>4. SUFFICES ASSUME NEW run \in joined[r]
                   PROVE  /\ stage'[r] # "rereads"
                          /\ stage'[r] = "done" => job'[run] = "none" /\ answer'[r] = outcome'[run]
                          /\ stage'[r] = "polls" => AwaitsOwn(r, run)'
      BY <2>2 DEF Own
    <2>5. run \in Requests /\ Begun(run) /\ Gone(run) /\ AwaitsOwn(r, run) /\ asks'[run] = asks[run]
      BY <2>3, Settled
    <2>6. CASE asks[r].kind = "recognize"
      <3> DEFINE p == asks[r].photo
      <3>0. asks[run] = asks[r]  BY <2>5, <2>6 DEF AwaitsOwn
      <3>1. stage'[r] # "polls" =>
               \/ recognising[p] = NoTask /\ stage'[r] = "rereads"
               \/ recognising[p] # Processing /\ stage'[r] = "done" /\ answer'[r] = recognising[p]
        BY <1>1, <1>3, <1>9, <2>0, <2>6, Polled
      <3>2. CASE job[run] = "none"
        <4>1. recognising[p] = outcome[run] /\ Finished(outcome[run])
          BY <2>5, <2>6, <3>2 DEF AwaitsOwn
        <4>2. job'[run] = "none" /\ outcome'[run] = outcome[run]  BY <2>5, <3>2, Settled
        <4>3. recognising[p] # NoTask  BY <4>1, TasksTyped
        <4>4. CASE stage'[r] = "polls"
          <5>1. recognising'[p] = recognising[p]
            BY <1>1, <1>9, <2>6, <4>1, <4>4 DEF Robbed
          <5> QED  BY <2>2, <2>5, <2>6, <3>0, <4>1, <4>2, <4>4, <5>1 DEF AwaitsOwn
        <4>5. CASE stage'[r] # "polls"  BY <3>1, <4>1, <4>2, <4>3, <4>5
        <4> QED  BY <4>4, <4>5
      <3>3. CASE job[run] # "none"
        <4>1. Recognising(run)  BY <2>6, <3>0, <3>3 DEF Recognising
        <4>2. recognising[p] = Processing  BY <2>5, <3>0, <4>1 DEF OneRecogniser
        <4>3. Processing # NoTask
          <5>1. Processing.status # NoTask.status  BY DEF Processing, NoTask
          <5> QED  BY <5>1
        <4>4. stage'[r] = "polls"  BY <3>1, <4>2, <4>3
        <4>5. job'[run] = "none" =>
                 recognising'[p] = outcome'[run] /\ Finished(outcome'[run])
          BY <2>0, <2>2, <2>5, <2>6, <3>0, <3>3, Reported
        <4> QED  BY <2>2, <2>5, <2>6, <3>0, <4>4, <4>5 DEF AwaitsOwn
      <3> QED  BY <3>2, <3>3
    <2>7. CASE asks[r].kind # "recognize"
      <3>0. run = r  BY <2>5, <2>7 DEF AwaitsOwn
      <3>1. stage'[r] # "polls" =>
               \/ /\ asks[r].kind \in {"tags", "describe"} /\ stage'[r] = "done"
                  /\ actions[r] # Processing
                  /\ actions[r] # NoTask => answer'[r] = actions[r]
               \/ /\ asks[r].kind = "mcpTags" /\ stage'[r] = "done"
                  /\ job[r] = "reports" /\ job'[r] = "none"
                  /\ outcome'[r] = outcome[r] /\ answer'[r] = outcome[r]
        BY <1>1, <1>3, <1>9, <2>0, <2>7, Polled
      <3>2. CASE job[r] = "none"
        <4>1. actions[r] = outcome[r] /\ Finished(outcome[r])
          BY <2>5, <2>7, <3>0, <3>2 DEF AwaitsOwn
        <4>2. job'[r] = "none" /\ outcome'[r] = outcome[r]  BY <2>5, <3>0, <3>2, Settled
        <4>3. actions[r] # NoTask  BY <4>1, TasksTyped
        <4>4. CASE stage'[r] = "polls"
          <5>1. actions'[r] = actions[r]
            BY <1>1, <1>9, <2>7, <4>1, <4>4 DEF Robbed
          <5> QED  BY <2>2, <2>7, <3>0, <4>1, <4>2, <4>4, <5>1 DEF AwaitsOwn
        <4>5. CASE stage'[r] # "polls"  BY <3>0, <3>1, <3>2, <4>1, <4>2, <4>3, <4>5
        <4> QED  BY <4>4, <4>5
      <3>3. CASE job[r] # "none" /\ asks[r].kind = "mcpTags"
        <4>1. CASE stage'[r] = "polls"
          <5>1. job'[r] # "none"
            BY <1>1, <1>3, <2>0, <2>2, <3>3, <4>1, Reported
          <5> QED  BY <2>2, <2>7, <3>0, <3>3, <4>1, <5>1 DEF AwaitsOwn
        <4>2. CASE stage'[r] # "polls"  BY <3>0, <3>1, <3>3, <4>2
        <4> QED  BY <4>1, <4>2
      <3>4. CASE job[r] # "none" /\ asks[r].kind # "mcpTags"
        <4>1. actions[r] = Processing  BY <2>5, <2>7, <3>0, <3>4 DEF AwaitsOwn
        <4>2. stage'[r] = "polls"  BY <3>1, <3>4, <4>1
        <4>3. CASE job'[r] = "none"
          <5>1. asks[r].kind \in {"tags", "describe"}  BY <2>2, <2>7, <3>4 DEF Kinds
          <5>2. actions'[r] = outcome'[r] /\ Finished(outcome'[r])
            BY <1>1, <1>3, <2>0, <2>2, <3>4, <4>3, <5>1, Reported
          <5> QED  BY <2>2, <2>7, <3>0, <4>2, <4>3, <5>2 DEF AwaitsOwn
        <4>4. CASE job'[r] # "none"
          <5>1. actions'[r] = Processing
            BY <1>1, <1>3, <1>9, <2>0, <4>1, <4>4, ActionGoesOn
          <5> QED  BY <2>2, <2>7, <3>0, <4>2, <4>4, <5>1 DEF AwaitsOwn
        <4> QED  BY <4>3, <4>4
      <3> QED  BY <3>2, <3>3, <3>4
    <2> QED  BY <2>6, <2>7
  <1> QED
    BY <1>6, <1>7, <1>8, <1>9

-----------------------------------------------------------------------------
(* Tasks: what is stored *)

\* Only the two calls of the model change what a goroutine has come to, and only
\* RecognizeWithLlm what is stored of texts.
LEMMA TextsStay ==
    ASSUME AiTyped, AiNext, \A r \in Requests : ~RecognizeWithLlm(r)
    PROVE  /\ UNCHANGED stored
           /\ \A r \in Requests : Recognising(r) => outcome'[r] = outcome[r]
  <1>1. ASSUME NEW r \in Requests, Acts(r), ~ExecuteAiAction(r) PROVE UNCHANGED <<stored, outcome>>
    BY <1>1 DEF Acts, TaskSteps, Polls, HandleLlmRecognize, HandleAiAction, RunImageAction,
       StartRecognizeAsync, ReportRecognition, DeleteTags, InsertTags, ReportAction, AnswerTool,
       HandleLlmRecognizeStatus, RereadRecognition, HandleAiActionStatus
  <1>2. ASSUME NEW r \in Requests, ExecuteAiAction(r)
        PROVE  UNCHANGED stored /\ \A q \in Requests : Recognising(q) => outcome'[q] = outcome[q]
    <2>1. UNCHANGED stored /\ ~Recognising(r)  BY <1>2 DEF ExecuteAiAction, Recognising
    <2>2. \A q \in Requests \ {r} : outcome'[q] = outcome[q]
      BY <1>2, OthersStay DEF Acts, TaskSteps
    <2> QED  BY <2>1, <2>2
  <1>3. CASE TasksAge \/ CleanupExpiredTasks \/ Restart
    BY <1>3 DEF TasksAge, CleanupExpiredTasks, Restart
  <1> QED  BY <1>1, <1>2, <1>3, ActsNext

LEMMA Upserts ==
    ASSUME NEW row, NEW words, NEW b \in BOOLEAN, NEW to, to = Upsert(row, words, b),
           row.success \in BOOLEAN
    PROVE  /\ to.text = (IF words = <<>> THEN row.text ELSE words)
           /\ b \/ row.success => to.success
  <1>1. to.text = (IF words = <<>> THEN row.text ELSE words)  BY DEF Upsert
  <1>2. to.success = (row.success \/ b)  BY DEF Upsert
  <1>3. b \/ row.success => to.success  BY <1>2, Zenon
  <1> QED  BY <1>1, <1>3

LEMMA TextStep ==
    ASSUME AiTyped, \A r \in Requests : Progress(r), AiNext, Remember,
           NEW p \in Photos, TextKept(p)
    PROVE  TextKept(p)'
  <1> DEFINE read == {r \in Recognisers(p) : outcome'[r] # outcome[r] /\ outcome'[r].value # <<>>}
  <1>1. text'[p] = IF read = {} THEN text[p] ELSE outcome'[CHOOSE r \in read : TRUE].value
    BY DEF Remember, Reads
  <1>2. \A r \in Requests : r \in Recognisers(p) <=> Recognising(r) /\ asks[r].photo = p
    <2>1. \A r \in Requests : job[r] # "none" => asks[r] # Nothing  BY DEF Progress
    <2> QED  BY <2>1 DEF Recognisers, Running, Recognising
  <1>3. Recognisers(p) \subseteq Requests  BY DEF Recognisers, Running
  <1>4. ASSUME read = {}, stored'[p].text = stored[p].text,
               stored[p].success => stored'[p].success
        PROVE  TextKept(p)'
    BY <1>1, <1>4 DEF TextKept
  <1>0. stored[p].success \in BOOLEAN  BY DEF AiTyped, AiTypeOK
  <1>5. CASE \A r \in Requests : ~RecognizeWithLlm(r)
    <2>1. read = {}  BY <1>2, <1>3, <1>5, TextsStay
    <2> QED  BY <1>4, <1>5, <2>1, TextsStay
  <1>6. ASSUME NEW r \in Requests, RecognizeWithLlm(r) PROVE TextKept(p)'
    <2> DEFINE o == asks[r].photo
    <2>1. Recognising(r) /\ job[r] = "calls" /\ outcome[r] = NoTask
      BY <1>6 DEF RecognizeWithLlm, Recognizes, Recognising, Progress
    <2>2. \A q \in Requests \ {r} : outcome'[q] = outcome[q]
      BY <1>6, OthersStay DEF Acts, TaskSteps
    <2>3. read \subseteq {r} /\ (r \in read <=> o = p /\ outcome'[r] # NoTask /\ outcome'[r].value # <<>>)
      BY <1>2, <1>3, <2>1, <2>2
    <2>4. DOMAIN outcome = Requests /\ DOMAIN stored = Photos  BY DEF AiTyped
    <2>5. \A v : Completed(v).value = v /\ Failed.value = <<>> /\ Completed(v) # NoTask
      BY TasksTyped
    <2>6. ASSUME NEW words \in {<<>>, <<r>>}, Comes(r, Completed(words)),
                 stored' = [stored EXCEPT ![o] = Upsert(stored[o], words, TRUE)]
          PROVE  TextKept(p)'
      <3>1. outcome'[r] = Completed(words)  BY <2>4, <2>6 DEF Comes
      <3>2. CASE o # p
        <4>1. stored'[p] = stored[p]  BY <2>4, <2>6, <3>2
        <4> QED  BY <1>4, <2>3, <3>2, <4>1
      <3>3. CASE o = p
        <4>1. stored'[p] = Upsert(stored[p], words, TRUE)  BY <2>4, <2>6, <3>3
        <4>2. CASE words = <<>>
          <5>1. read = {}  BY <2>3, <2>5, <3>1, <4>2
          <5>2. stored'[p].text = stored[p].text  BY <1>0, <4>1, <4>2, Upserts
          <5>3. stored'[p].success  BY <1>0, <4>1, Upserts, Zenon
          <5> QED  BY <1>4, <5>1, <5>2, <5>3
        <4>3. CASE words = <<r>>
          <5>1. <<r>> # <<>>  OBVIOUS
          <5>2. read = {r}  BY <2>3, <2>5, <3>1, <3>3, <4>3, <5>1
          <5> HIDE DEF read
          <5>3. text'[p] = words  BY <1>1, <2>5, <3>1, <5>2
          <5>4. words # <<>>  BY <4>3, <5>1
          <5>5. stored'[p].text = words
            <6>1. stored'[p].text = (IF words = <<>> THEN stored[p].text ELSE words)
              BY <1>0, <4>1, Upserts, Zenon
            <6> QED  BY <5>4, <6>1
          <5>6. stored'[p].success  BY <1>0, <4>1, Upserts, Zenon
          <5> QED  BY <5>3, <5>5, <5>6 DEF TextKept
        <4> QED  BY <2>6, <4>2, <4>3
      <3> QED  BY <3>2, <3>3
    <2>7. ASSUME Comes(r, Failed),
                 \/ stored' = [stored EXCEPT ![o] = Upsert(stored[o], <<>>, FALSE)]
                 \/ UNCHANGED stored
          PROVE  TextKept(p)'
      <3>1. outcome'[r] = Failed  BY <2>4, <2>7 DEF Comes
      <3>2. read = {}  BY <2>3, <2>5, <3>1
      <3>3. stored'[p] = stored[p] \/ stored'[p] = Upsert(stored[p], <<>>, FALSE)
        BY <2>4, <2>7
      <3>4. CASE stored'[p] = stored[p]  BY <1>4, <3>2, <3>4
      <3>5. CASE stored'[p] = Upsert(stored[p], <<>>, FALSE)
        <4>1. stored'[p].text = stored[p].text  BY <1>0, <3>5, Upserts
        <4>2. stored[p].success => stored'[p].success  BY <1>0, <3>5, Upserts, Zenon
        <4> QED  BY <1>4, <3>2, <4>1, <4>2
      <3> QED  BY <3>3, <3>4, <3>5
    <2> QED  BY <1>6, <2>6, <2>7 DEF RecognizeWithLlm
  <1> QED  BY <1>5, <1>6

LEMMA TagsStep ==
    ASSUME AiTyped, \A r \in Requests : Progress(r), AiNext, Remember,
           NEW p \in Photos \ mixed', TagsSound(p)
    PROVE  TagsSound(p)'
  <1>0. \A r \in Requests : Gone(r) /\ (job[r] # "none" => asks[r] # Nothing /\ Begun(r))
    BY ProgressGone DEF Gone, Begun
  <1>1. \A q, r \in Saving(p)' : q = r  BY DEF Remember, Mixes
  <1>2. \A r \in Requests :
           /\ r \in Saving(p) <=> job[r] \in {"deletes", "inserts"} /\ asks[r].photo = p
           /\ r \in Saving(p)' => job'[r] \in {"deletes", "inserts"} /\ asks'[r].photo = p
    BY <1>0 DEF Saving, Running
  <1>3. Saving(p) \subseteq Requests /\ Saving(p)' \subseteq Requests  BY DEF Saving, Running
  <1>4. \A r \in Requests : job[r] # "none" => asks'[r] = asks[r]  BY <1>0, Settled
  <1>5. SUFFICES /\ \A r \in Requests : job'[r] = "inserts" /\ asks'[r].photo = p => tags'[p] = <<>>
                 /\ RowsSound(tags'[p])
    BY <1>1, <1>2, <1>3 DEF TagsSound, RowsSound, InRange
  <1>6. ASSUME tags'[p] = tags[p],
               \A r \in Requests : job'[r] = "inserts" /\ asks'[r].photo = p => job[r] = "inserts"
        PROVE  /\ \A r \in Requests : job'[r] = "inserts" /\ asks'[r].photo = p => tags'[p] = <<>>
               /\ RowsSound(tags'[p])
    BY <1>2, <1>4, <1>6 DEF TagsSound
  <1>7. CASE \A r \in Requests : ~DeleteTags(r) /\ ~InsertTags(r)
    <2>1. tags' = tags
      BY <1>7, ActsNext DEF Acts, TaskSteps, Polls, HandleLlmRecognize, HandleAiAction, RunImageAction,
         StartRecognizeAsync, RecognizeWithLlm, ExecuteAiAction, ReportRecognition, ReportAction, AnswerTool,
         HandleLlmRecognizeStatus, RereadRecognition, HandleAiActionStatus, TasksAge, CleanupExpiredTasks,
         Restart
    <2>2. ASSUME NEW r \in Requests, job'[r] = "inserts" PROVE job[r] = "inserts"
      <3>1. ASSUME NEW q \in Requests, Acts(q) PROVE job[r] = "inserts"
        BY <1>7, <2>2, <3>1
        DEF Acts, TaskSteps, Polls, HandleLlmRecognize, HandleAiAction, RunImageAction,
            StartRecognizeAsync, RecognizeWithLlm, ExecuteAiAction, ReportRecognition, ReportAction, AnswerTool,
            HandleLlmRecognizeStatus, RereadRecognition, HandleAiActionStatus, Comes, AiTyped
      <3>2. CASE TasksAge \/ CleanupExpiredTasks \/ Restart
        BY <2>2, <3>2 DEF TasksAge, CleanupExpiredTasks, Restart
      <3> QED  BY <3>1, <3>2, ActsNext
    <2> QED  BY <1>6, <2>1, <2>2
  <1>8. ASSUME NEW r \in Requests, DeleteTags(r)
        PROVE  /\ \A q \in Requests : job'[q] = "inserts" /\ asks'[q].photo = p => tags'[p] = <<>>
               /\ RowsSound(tags'[p])
    <2>1. asks' = asks /\ \A q \in Requests \ {r} : job'[q] = job[q]
      BY <1>8 DEF DeleteTags, AiTyped
    <2>2. CASE tags' = [tags EXCEPT ![asks[r].photo] = <<>>]
      <3>1. CASE asks[r].photo = p
        <4>1. tags'[p] = <<>>  BY <2>2, <3>1 DEF AiTyped
        <4> QED  BY <4>1 DEF RowsSound
      <3>2. CASE asks[r].photo # p
        <4>1. tags'[p] = tags[p]  BY <2>2, <3>2 DEF AiTyped
        <4> QED  BY <1>6, <2>1, <3>2, <4>1
      <3> QED  BY <3>1, <3>2
    <2>3. CASE job' = [job EXCEPT ![r] = "reports"] /\ UNCHANGED tags
      <3>1. job'[r] = "reports"  BY <2>3 DEF AiTyped
      <3> QED  BY <1>6, <2>1, <2>3, <3>1
    <2> QED  BY <1>8, <2>2, <2>3 DEF DeleteTags
  <1>9. ASSUME NEW r \in Requests, InsertTags(r)
        PROVE  /\ \A q \in Requests : job'[q] = "inserts" /\ asks'[q].photo = p => tags'[p] = <<>>
               /\ RowsSound(tags'[p])
    <2>1. /\ asks' = asks /\ job[r] = "inserts" /\ job'[r] = "reports"
          /\ \A q \in Requests \ {r} : job'[q] = job[q]
      BY <1>9 DEF InsertTags, AiTyped
    <2>2. CASE UNCHANGED tags  BY <1>6, <2>1, <2>2
    <2>3. CASE tags' = [tags EXCEPT ![asks[r].photo] = tags[asks[r].photo] \o SavedTags(r)]
      <3>1. CASE asks[r].photo # p
        <4>1. tags'[p] = tags[p]  BY <2>3, <3>1 DEF AiTyped
        <4> QED  BY <1>6, <2>1, <4>1
      <3>2. CASE asks[r].photo = p
        <4>1. r \in Saving(p) /\ tags[p] = <<>>  BY <1>2, <2>1, <3>2 DEF TagsSound
        <4>2. DistinctTags(outcome[r].value) /\ InRange(outcome[r].value)
          BY <1>0, <2>1 DEF Gone
        <4>3. SavedTags(r) \in Seq(TagRow)  BY <4>2, SavedTagsSound
        <4>4. tags'[p] = tags[p] \o SavedTags(r)  BY <2>3, <3>2 DEF AiTyped
        <4>5. tags'[p] = SavedTags(r)  BY <4>1, <4>3, <4>4
        <4>6. RowsSound(SavedTags(r))
          BY <4>2, SavedTagsSound DEF RowsSound, DistinctTags, InRange
        <4>7. ~ \E q \in Requests : job'[q] = "inserts" /\ asks'[q].photo = p
          BY <1>2, <2>1, <4>1 DEF TagsSound
        <4> QED  BY <4>5, <4>6, <4>7
      <3> QED  BY <3>1, <3>2
    <2> QED  BY <1>9, <2>2, <2>3 DEF InsertTags, SavedTags
  <1> QED  BY <1>7, <1>8, <1>9

-----------------------------------------------------------------------------
(* Tasks: all of it *)

LEMMA AiInvInit == Init => AiInv
  <1> SUFFICES ASSUME Init PROVE AiInv  OBVIOUS
  <1>1. AiTyped  BY AiTypedInit
  <1>2. \A r \in Requests : /\ asks[r] = Nothing /\ outcome[r] = NoTask /\ stage[r] = "unmade"
                            /\ job[r] = "none" /\ joined[r] = {}
    BY DEF Init, AiInit
  <1>3. \A p \in Photos : tags[p] = <<>> /\ stored[p] = NoRow /\ text[p] = <<>>
    BY DEF Init, AiInit
  <1>4. \A r \in Requests : Progress(r) /\ Own(r)  BY <1>2 DEF Progress, Own
  <1>5. OneRecogniser  BY <1>2 DEF OneRecogniser, Recognising
  <1>6. \A p \in Photos : TextKept(p)
    <2>1. NoRow.text = <<>>  BY DEF NoRow
    <2> QED  BY <1>3, <2>1 DEF TextKept
  <1>7. \A p \in Photos : TagsSound(p)
    BY <1>2, <1>3 DEF TagsSound, RowsSound, Saving, Running
  <1> QED  BY <1>1, <1>4, <1>5, <1>6, <1>7 DEF AiInv

LEMMA AiInvStep == ASSUME AiInv, Ask PROVE AiInv'
  <1>1. /\ AiTyped /\ OneRecogniser /\ \A r \in Requests : Progress(r)
        /\ \A r \in Requests \ disturbed : Own(r)
    BY DEF AiInv
  <1>2. AiNext /\ Remember  BY DEF Ask, Next
  <1>3. AiTyped'  BY <1>1, <1>2, AiTypedStep
  <1>4. (\A r \in Requests : Progress(r))'  BY <1>1, <1>2, ProgressStep
  <1>5. OneRecogniser'  BY <1>1, <1>2, RecogniserStep
  <1>6. (\A r \in Requests \ disturbed : Own(r))'  BY <1>1, <1>2, <1>3, OwnStep
  <1>7. (\A p \in Photos : TextKept(p))'  BY <1>1, <1>2, TextStep DEF AiInv
  <1>8. (\A p \in Photos \ mixed : TagsSound(p))'
    <2>1. \A p \in Photos \ mixed' : p \in Photos \ mixed  BY <1>2 DEF Remember
    <2>2. \A p \in Photos \ mixed' : TagsSound(p)  BY <2>1 DEF AiInv
    <2> QED  BY <1>1, <1>2, <2>2, TagsStep
  <1> QED  BY <1>3, <1>4, <1>5, <1>6, <1>7, <1>8 DEF AiInv

LEMMA AiInvStays == ASSUME AiInv, UNCHANGED aiVarsMC PROVE AiInv'
  <1> USE DEF aiVarsMC, aiVars
  <1>1. AiTyped'  BY DEF AiInv, AiTyped, AiTypeOK
  <1>2. (\A r \in Requests : Progress(r))'  BY DEF AiInv, Progress, DistinctTags, InRange
  <1>3. OneRecogniser'  BY DEF AiInv, OneRecogniser, Recognising
  <1>4. (\A r \in Requests \ disturbed : Own(r))'  BY DEF AiInv, Own, AwaitsOwn
  <1>5. (\A p \in Photos : TextKept(p))'  BY DEF AiInv, TextKept
  <1>6. (\A p \in Photos \ mixed : TagsSound(p))'
    BY DEF AiInv, TagsSound, RowsSound, InRange, Saving, Running
  <1> QED  BY <1>1, <1>2, <1>3, <1>4, <1>5, <1>6 DEF AiInv

\* For any photos, requests and answers of the model, any limits and any times
\* that tasks age or the core restarts: who asks for a photo's text, its tags or
\* another action is told what came of it, unless the finished task was taken
\* from him or forgotten; a recognised text is kept until another one is; and
\* tags that were not saved by two goroutines at once are those of one answer
\* (AiTasks).
THEOREM AnswersSound == LlmSpec => []AnswersAreSound
  <1>1. LlmInit => AiInv  BY AiInvInit DEF LlmInit
  <1>2. AiInv /\ [LlmNext]_llmVars => AiInv'
    <2>1. ASSUME AiInv, Ask PROVE AiInv'  BY <2>1, AiInvStep
    <2>2. ASSUME AiInv, UNCHANGED aiVarsMC PROVE AiInv'  BY <2>2, AiInvStays
    <2> QED  BY <2>1, <2>2 DEF LlmNext, Catalogue, Enhance, llmVars
  <1>3. AiInv => AnswersAreSound
    <2> SUFFICES ASSUME AiInv PROVE AnswersAreSound  OBVIOUS
    <2>1. AiTypeOK  BY DEF AiInv, AiTyped
    <2>2. AnswersAreOwn
      <3>1. \A p \in Photos : \A q, r \in Recognisers(p) : q = r
        BY DEF AiInv, OneRecogniser, Recognising, Recognisers, Running
      <3>2. \A r \in Requests \ disturbed :
               stage[r] = "done" => \A run \in joined[r] : answer[r] = outcome[run]
        BY DEF AiInv, Own
      <3> QED  BY <3>1, <3>2 DEF AnswersAreOwn
    <2>3. RecognisedTextIsKept  BY DEF AiInv, TextKept, RecognisedTextIsKept
    <2>4. TagsOfOneAnswer  BY DEF AiInv, TagsSound, RowsSound, TagsOfOneAnswer
    <2> QED  BY <2>1, <2>2, <2>3, <2>4 DEF AnswersAreSound
  <1> QED  BY <1>1, <1>2, <1>3, PTL DEF LlmSpec

-----------------------------------------------------------------------------
(* Enhancements: the types, and what each request knows *)

\* A request that has a name to copy to or has copied has one of the names.
Named == \A c \in Clients :
    work[c].pc \in {"copies", "cleans", "hashes", "registers"} => work[c].name \in Names

ChoicesTyped == E!EnhancementsOK /\ Named

LEMMA WorkMoves ==
    ASSUME ChoicesTyped, NEW c \in Clients
    PROVE  /\ \A pc : E!Goes(c, pc) =>
                 /\ work'[c].pc = pc /\ work'[c].image = work[c].image /\ work'[c].name = work[c].name
                 /\ \A d \in Clients \ {c} : work'[d] = work[d]
           /\ E!Ends(c) => /\ work'[c] = E!Idle
                           /\ \A d \in Clients \ {c} : work'[d] = work[d]
  <1> USE DEF ChoicesTyped, E!EnhancementsOK
  <1>1. ASSUME NEW pc, E!Goes(c, pc)
        PROVE  /\ work'[c].pc = pc /\ work'[c].image = work[c].image /\ work'[c].name = work[c].name
               /\ \A d \in Clients \ {c} : work'[d] = work[d]
    BY <1>1 DEF E!Goes
  <1>2. ASSUME E!Ends(c)
        PROVE  work'[c] = E!Idle /\ \A d \in Clients \ {c} : work'[d] = work[d]
    BY <1>2 DEF E!Ends
  <1> QED  BY <1>1, <1>2

LEMMA ChoicesTypedInit == E!EnhancementsInit => ChoicesTyped
  <1> SUFFICES ASSUME E!EnhancementsInit PROVE ChoicesTyped  OBVIOUS
  <1>1. {0, 1} \subseteq E!Images  BY LanguageModelsAssumption DEF E!Images
  <1>2. \A c \in Clients : work[c] = E!Idle  BY DEF E!EnhancementsInit
  <1>3. E!EnhancementsOK
    BY <1>1 DEF E!EnhancementsInit, E!EnhancementsOK, E!Idle, E!None
  <1>4. Named  BY <1>2 DEF Named, E!Idle
  <1> QED  BY <1>3, <1>4 DEF ChoicesTyped

LEMMA ChoicesTypedStep == ChoicesTyped /\ E!Next => ChoicesTyped'
  <1> SUFFICES ASSUME ChoicesTyped, E!Next PROVE ChoicesTyped'  OBVIOUS
  <1> USE DEF E!EnhancementsOK
  <1>0. ChoicesTyped  OBVIOUS
  <1>1. {0, 1} \subseteq E!Images /\ (images < MaxImages => images + 1 \in E!Images)
    BY <1>0, LanguageModelsAssumption DEF E!Images, ChoicesTyped
  <1>2. CASE E!Crash
    BY <1>0, <1>1, <1>2 DEF E!Crash, ChoicesTyped, Named, E!Idle, E!None
  <1>3. ASSUME NEW c \in Clients,
               \/ E!EnhanceImageQuality(c) \/ E!NotEnhanced(c)
               \/ E!ReplaceEnhancement(c) \/ E!BackUp(c) \/ E!Rename(c)
               \/ E!UpdateRow(c) \/ E!UpdateFails(c) \/ E!SaveCopyEnhancement(c) \/ E!CleanUp(c) \/ E!RejectEnhancement(c)
        PROVE  ChoicesTyped'
    <2>1. E!EnhancementsOK'
      BY <1>0, <1>1, <1>3 DEF ChoicesTyped, E!EnhanceImageQuality, E!NotEnhanced, E!ReplaceEnhancement,
         E!BackUp, E!Rename, E!UpdateRow, E!UpdateFails, E!SaveCopyEnhancement, E!CleanUp, E!RejectEnhancement,
         E!Goes, E!Ends, E!Idle, E!None
    <2>2. Named'
      BY <1>0, <1>3, WorkMoves DEF ChoicesTyped, Named, E!EnhanceImageQuality, E!NotEnhanced,
         E!ReplaceEnhancement, E!BackUp, E!Rename, E!UpdateRow, E!UpdateFails, E!SaveCopyEnhancement, E!CleanUp,
         E!RejectEnhancement, E!Idle, E!At
    <2> QED  BY <2>1, <2>2 DEF ChoicesTyped
  <1>4. ASSUME NEW c \in Clients, E!Enhanced(c) PROVE ChoicesTyped'
    <2>1. images + 1 \in E!Images  BY <1>1, <1>4 DEF E!Enhanced
    <2>2. E!EnhancementsOK'
      BY <1>0, <1>1, <1>4, <2>1 DEF ChoicesTyped, E!Enhanced, E!Ends, E!Idle, E!None
    <2>3. Named'  BY <1>0, <1>4, WorkMoves DEF ChoicesTyped, Named, E!Enhanced, E!Idle
    <2> QED  BY <2>2, <2>3 DEF ChoicesTyped
  <1>5. ASSUME NEW c \in Clients,
               E!ReadReplaced(c) \/ E!ChooseName(c) \/ E!HashCopy(c)
        PROVE  ChoicesTyped'
    <2>1. E!HashCopy(c) => copies[work[c].name] \in E!Images
      BY <1>0 DEF ChoicesTyped, Named, E!HashCopy, E!At
    <2>2. E!EnhancementsOK'
      BY <1>0, <1>1, <1>5, <2>1 DEF ChoicesTyped, E!ReadReplaced, E!ChooseName, E!HashCopy
    <2>3. Named'
      BY <1>0, <1>5 DEF ChoicesTyped, Named, E!ReadReplaced, E!ChooseName, E!HashCopy, E!At
    <2> QED  BY <2>2, <2>3 DEF ChoicesTyped
  <1>6. ASSUME NEW c \in Clients, E!CopyFile(c) \/ E!RegisterCopy(c) PROVE ChoicesTyped'
    <2>1. E!EnhancementsOK'
      BY <1>0, <1>1, <1>6 DEF ChoicesTyped, E!CopyFile, E!RegisterCopy, E!Goes, E!Ends, E!Idle, E!None
    <2>2. Named'
      BY <1>0, <1>6, WorkMoves DEF ChoicesTyped, Named, E!CopyFile, E!RegisterCopy, E!Idle, E!At
    <2> QED  BY <2>1, <2>2 DEF ChoicesTyped
  <1> QED
    BY <1>2, <1>3, <1>4, <1>5, <1>6 DEF E!Next, E!EnhancementSteps, E!Decisions

-----------------------------------------------------------------------------
(* Enhancements: what holds of requests that have not met *)

\* A replacement is the only one, and an enhancement the only request.
Alone ==
    \A c, d \in Clients : c # d =>
        /\ c \in E!Replacing => d \notin E!Replacing
        /\ E!At(c, "asks") => E!At(d, "idle")

\* A photo that is about to be replaced is in the backup directory, if it has
\* been copied there.
BackupSound ==
    /\ ~lost
    /\ \A c \in backedUp : c \in Clients /\ E!At(c, "renames") /\ backup = photo

\* The image that a request will copy can but be there already, copied by
\* another one to the same name.
NameSound(c) ==
    LET n == work[c].name
    IN  /\ E!At(c, "copies") /\ enhanced # E!None => copies[n] \in {E!None, enhanced}
        /\ work[c].pc \in {"cleans", "hashes", "registers"} => copies[n] # E!None
        /\ E!At(c, "registers") => work[c].image = copies[n]

CopiesSound ==
    /\ \A c \in Clients : NameSound(c)
    /\ \A s \in saved : s[1] \in Names /\ copies[s[1]] # E!None /\ copies[s[1]] = s[2]
    /\ \A n \in Names : copyRows[n] \in {E!None, copies[n]}

\* The photo's row is behind its file only while a request is about to put it
\* right.
PhotoRowSound ==
    /\ \A c \in Clients : E!At(c, "updates") => work[c].image = photo
    /\ ~unsynced /\ photoRow # photo => \E c \in Clients : work[c].pc \in {"reads", "updates"}

Unmet == Alone /\ BackupSound /\ CopiesSound /\ PhotoRowSound

ChoicesInv == ChoicesTyped /\ (~met => Unmet)

LEMMA ChoicesInvKeeps == ChoicesInv => E!ChoicesAreKept
  <1> SUFFICES ASSUME ChoicesInv PROVE E!ChoicesAreKept  OBVIOUS
  <1>1. E!EnhancementsOK  BY DEF ChoicesInv, ChoicesTyped
  <1>2. ASSUME ~met
        PROVE  /\ ~lost
               /\ \A s \in saved : copies[s[1]] = s[2]
               /\ \A n \in Names : copyRows[n] \in {E!None, copies[n]}
               /\ E!Replacing = {} /\ ~unsynced => photoRow = photo
    BY <1>2 DEF ChoicesInv, Unmet, BackupSound, CopiesSound, PhotoRowSound, E!Replacing
  <1> QED  BY <1>1, <1>2 DEF E!ChoicesAreKept

LEMMA UnmetInit == E!Init => Unmet
  <1> SUFFICES ASSUME E!Init PROVE Unmet  OBVIOUS
  <1>1. \A c \in Clients : work[c].pc = "idle"  BY DEF E!Init, E!EnhancementsInit, E!Idle
  <1> QED
    BY <1>1 DEF E!Init, E!EnhancementsInit, Unmet, Alone, BackupSound, CopiesSound, NameSound,
       PhotoRowSound, E!At, E!Replacing

LEMMA UnmetAlone == ~E!Meet => Alone
  BY DEF E!Meet, Alone

\* The steps after which only what a request does next is different
LEMMA UnmetCrash ==
    ASSUME ChoicesTyped, Unmet, E!Crash, E!Remembered, unsynced' = TRUE, ~met'
    PROVE  Unmet'
  <1>1. \A c \in Clients : work'[c].pc = "idle"  BY DEF E!Crash, E!Idle
  <1>2. Alone'  BY <1>1 DEF Alone, E!Replacing, E!At
  <1>3. BackupSound'
    BY <1>1 DEF Unmet, BackupSound, E!Crash, E!Remembered, E!Replaces, E!At
  <1>4. CopiesSound'
    BY <1>1 DEF Unmet, CopiesSound, NameSound, E!Crash, E!Remembered, E!Copies, E!At
  <1>5. PhotoRowSound'  BY <1>1 DEF PhotoRowSound, E!At
  <1> QED  BY <1>2, <1>3, <1>4, <1>5 DEF Unmet

\* An image that a request has put into the backup directory stays there until
\* the request has replaced it.
LEMMA BackupStep ==
    ASSUME ChoicesTyped, Alone, BackupSound, E!EnhancementSteps, E!Remembered
    PROVE  BackupSound'
  <1>1. PICK c \in Clients :
          E!EnhanceImageQuality(c) \/ E!Enhanced(c) \/ E!NotEnhanced(c) \/ E!Decisions(c)
    BY DEF E!EnhancementSteps
  <1>2. \A d \in Clients \ {c} : work'[d] = work[d]
    BY <1>1, WorkMoves DEF E!EnhanceImageQuality, E!Enhanced, E!NotEnhanced, E!Decisions,
       E!ReplaceEnhancement, E!BackUp, E!Rename, E!ReadReplaced, E!UpdateRow, E!UpdateFails, E!SaveCopyEnhancement,
       E!ChooseName, E!CopyFile, E!CleanUp, E!HashCopy, E!RegisterCopy, E!RejectEnhancement,
       ChoicesTyped, E!EnhancementsOK
  \* Only the one that replaces the photo, or backs it up, does anything to either.
  <1>3. \A d \in backedUp' : d \in Clients /\ E!At(d, "renames")'
    BY DEF E!Remembered, E!At
  <1>4. ASSUME NEW d \in backedUp' PROVE backup' = photo'
    <2>1. CASE d \in backedUp /\ d # c
      <3>1. c \notin E!Replacing
        BY <2>1 DEF BackupSound, Alone, E!Replacing, E!At
      <3> QED
        BY <1>1, <2>1, <3>1 DEF BackupSound, E!Replacing, E!EnhanceImageQuality, E!Enhanced,
           E!NotEnhanced, E!Decisions, E!ReplaceEnhancement, E!BackUp, E!Rename, E!ReadReplaced,
           E!UpdateRow, E!UpdateFails, E!SaveCopyEnhancement, E!ChooseName, E!CopyFile, E!CleanUp, E!HashCopy,
           E!RegisterCopy, E!RejectEnhancement, E!At
    <2>2. CASE d = c
      <3>1. E!At(c, "renames")'  BY <1>3, <2>2
      <3>2. E!BackUp(c)
        BY <1>1, <3>1, WorkMoves DEF E!EnhanceImageQuality, E!Enhanced, E!NotEnhanced, E!Decisions,
           E!ReplaceEnhancement, E!Rename, E!ReadReplaced, E!UpdateRow, E!UpdateFails, E!SaveCopyEnhancement,
           E!ChooseName, E!CopyFile, E!CleanUp, E!HashCopy, E!RegisterCopy, E!RejectEnhancement,
           E!Idle, E!At, ChoicesTyped, E!EnhancementsOK
      <3>3. c \notin backedUp  BY <3>2 DEF BackupSound, E!BackUp, E!At
      <3>4. E!BacksUp(c)  BY <2>2, <3>3 DEF E!Remembered
      <3> QED  BY <2>2, <3>2, <3>4 DEF E!BackUp, E!BacksUp
    <2>3. CASE d \notin backedUp /\ d # c
      BY <1>2, <2>3 DEF E!Remembered, E!BacksUp, E!At
    <2> QED  BY <2>1, <2>2, <2>3
  <1>5. ~lost'
    BY DEF E!Remembered, BackupSound
  <1> QED  BY <1>3, <1>4, <1>5 DEF BackupSound

\* The hash of a copy is read, and stored, while the copy is what it was.
LEMMA CopiesStep ==
    ASSUME ChoicesTyped, Alone, CopiesSound, E!EnhancementSteps, E!Remembered
    PROVE  CopiesSound'
  <1>1. PICK c \in Clients :
          E!EnhanceImageQuality(c) \/ E!Enhanced(c) \/ E!NotEnhanced(c) \/ E!Decisions(c)
    BY DEF E!EnhancementSteps
  <1>2. CASE E!CopyFile(c) /\ enhanced # E!None
    <2> DEFINE n == work[c].name
    <2>1. /\ n \in Names /\ copies[n] \in {E!None, enhanced}
          /\ work'[c].pc = "cleans" /\ work'[c].name = n /\ work'[c].image = work[c].image
          /\ \A d \in Clients \ {c} : work'[d] = work[d]
      BY <1>2, WorkMoves DEF E!CopyFile, ChoicesTyped, Named, CopiesSound, NameSound, E!At
    <2>2. copies'[n] = enhanced /\ \A m \in Names \ {n} : copies'[m] = copies[m]
      BY <1>2, <2>1 DEF E!CopyFile, ChoicesTyped, E!EnhancementsOK
    <2>3. saved' \subseteq saved \cup {<<n, enhanced>>}
      BY <2>1 DEF E!Remembered, E!Copies, E!At
    <2>4. enhanced' = enhanced /\ copyRows' = copyRows  BY <1>2 DEF E!CopyFile
    <2> HIDE DEF n
    <2>5. ASSUME NEW d \in Clients PROVE NameSound(d)'
      <3>1. CASE d = c
        BY <1>2, <2>1, <2>2, <2>4, <3>1 DEF NameSound, E!At
      <3>2. CASE d # c
        <4>1. NameSound(d)  BY DEF CopiesSound
        <4>2. work[d].pc \in {"copies", "cleans", "hashes", "registers"} => work[d].name \in Names
          BY DEF ChoicesTyped, Named
        <4>3. work'[d] = work[d]  BY <2>1, <3>2
        <4> QED
          BY <1>2, <2>1, <2>2, <2>4, <4>1, <4>2, <4>3 DEF NameSound, E!At
      <3> QED  BY <3>1, <3>2
    <2>6. \A s \in saved' : s[1] \in Names /\ copies'[s[1]] # E!None /\ copies'[s[1]] = s[2]
      BY <1>2, <2>1, <2>2, <2>3 DEF CopiesSound
    <2>7. \A m \in Names : copyRows'[m] \in {E!None, copies'[m]}
      BY <2>1, <2>2, <2>4 DEF CopiesSound
    <2> QED  BY <2>5, <2>6, <2>7 DEF CopiesSound, E!None
  <1>3. ASSUME ~(E!CopyFile(c) /\ enhanced # E!None)
        PROVE  CopiesSound'
    <2>1. copies' = copies
      BY <1>1, <1>3 DEF E!EnhanceImageQuality, E!Enhanced, E!NotEnhanced, E!Decisions,
         E!ReplaceEnhancement, E!BackUp, E!Rename, E!ReadReplaced, E!UpdateRow, E!UpdateFails,
         E!SaveCopyEnhancement, E!ChooseName, E!CopyFile, E!CleanUp, E!HashCopy, E!RegisterCopy,
         E!RejectEnhancement
    <2>2. \A d \in Clients : ~E!Copies(d)
      BY <1>1, <1>3, WorkMoves DEF E!Copies, E!EnhanceImageQuality, E!Enhanced, E!NotEnhanced,
         E!Decisions, E!ReplaceEnhancement, E!BackUp, E!Rename, E!ReadReplaced, E!UpdateRow, E!UpdateFails,
         E!SaveCopyEnhancement, E!ChooseName, E!CopyFile, E!CleanUp, E!HashCopy, E!RegisterCopy,
         E!RejectEnhancement, E!Idle, E!At, ChoicesTyped, E!EnhancementsOK
    <2>3. saved' = saved
      BY <2>2 DEF E!Remembered
    <2>4. enhanced' \in {enhanced, E!None} \/ E!Enhanced(c)
      BY <1>1 DEF E!EnhanceImageQuality, E!NotEnhanced, E!Decisions,
         E!ReplaceEnhancement, E!BackUp, E!Rename, E!ReadReplaced, E!UpdateRow, E!UpdateFails,
         E!SaveCopyEnhancement, E!ChooseName, E!CopyFile, E!CleanUp, E!HashCopy, E!RegisterCopy,
         E!RejectEnhancement
    <2>5. ASSUME NEW d \in Clients PROVE NameSound(d)'
      <3>1. NameSound(d)  BY DEF CopiesSound
      <3>2. CASE d # c /\ E!Enhanced(c)
        <4>1. work'[d].pc = "idle"
          BY <3>2, WorkMoves DEF E!Enhanced, Alone, E!At
        <4> QED  BY <4>1 DEF NameSound, E!At
      <3>3. CASE d # c /\ ~E!Enhanced(c)
        <4>1. work'[d] = work[d]
          BY <1>1, <3>3, WorkMoves DEF E!EnhanceImageQuality, E!NotEnhanced, E!Decisions,
             E!ReplaceEnhancement, E!BackUp, E!Rename, E!ReadReplaced, E!UpdateRow, E!UpdateFails,
             E!SaveCopyEnhancement, E!ChooseName, E!CopyFile, E!CleanUp, E!HashCopy,
             E!RegisterCopy, E!RejectEnhancement, ChoicesTyped, E!EnhancementsOK
        <4> QED  BY <2>1, <2>4, <3>1, <3>3, <4>1 DEF NameSound, E!At
      <3>4. CASE d = c /\ E!ChooseName(c)
        BY <2>1, <3>4 DEF NameSound, E!ChooseName, E!FindAvailableCopyPath, E!At, ChoicesTyped,
           E!EnhancementsOK
      <3>5. CASE d = c /\ E!HashCopy(c)
        BY <2>1, <3>1, <3>5 DEF NameSound, E!HashCopy, E!At, ChoicesTyped, E!EnhancementsOK
      <3>6. CASE d = c /\ E!CleanUp(c)
        BY <2>1, <3>1, <3>6, WorkMoves DEF NameSound, E!CleanUp, E!At
      <3>7. CASE d = c /\ E!RejectEnhancement(c)
        BY <3>7 DEF NameSound, E!RejectEnhancement, E!At
      <3>8. CASE d = c /\ ~E!ChooseName(c) /\ ~E!HashCopy(c) /\ ~E!CleanUp(c)
                 /\ ~E!RejectEnhancement(c)
        <4>1. work'[c].pc \notin {"copies", "cleans", "hashes", "registers"}
          BY <1>1, <1>3, <3>8, WorkMoves DEF E!EnhanceImageQuality, E!Enhanced, E!NotEnhanced,
             E!Decisions, E!ReplaceEnhancement, E!BackUp, E!Rename, E!ReadReplaced, E!UpdateRow, E!UpdateFails,
             E!SaveCopyEnhancement, E!CopyFile, E!RegisterCopy, E!Idle, ChoicesTyped,
             E!EnhancementsOK
        <4> QED  BY <3>8, <4>1 DEF NameSound, E!At
      <3> QED  BY <3>2, <3>3, <3>4, <3>5, <3>6, <3>7, <3>8
    <2>6. \A n \in Names : copyRows'[n] \in {E!None, copies'[n]}
      <3>1. CASE E!RegisterCopy(c)
        <4>1. work[c].name \in Names /\ work[c].image = copies[work[c].name]
          BY <3>1 DEF E!RegisterCopy, CopiesSound, NameSound, ChoicesTyped, Named, E!At
        <4> QED
          BY <2>1, <3>1, <4>1 DEF E!RegisterCopy, CopiesSound, ChoicesTyped, E!EnhancementsOK
      <3>2. CASE ~E!RegisterCopy(c)
        <4>1. copyRows' = copyRows
          BY <1>1, <3>2 DEF E!EnhanceImageQuality, E!Enhanced, E!NotEnhanced, E!Decisions,
             E!ReplaceEnhancement, E!BackUp, E!Rename, E!ReadReplaced, E!UpdateRow, E!UpdateFails,
             E!SaveCopyEnhancement, E!ChooseName, E!CopyFile, E!CleanUp, E!HashCopy,
             E!RejectEnhancement
        <4> QED  BY <2>1, <4>1 DEF CopiesSound
      <3> QED  BY <3>1, <3>2
    <2> QED  BY <2>1, <2>3, <2>5, <2>6 DEF CopiesSound, E!None
  <1> QED  BY <1>2, <1>3

LEMMA PhotoRowStep ==
    ASSUME ChoicesTyped, Alone, PhotoRowSound, E!EnhancementSteps,
           ~unsynced' => ~unsynced /\ \A d \in Clients : ~E!UpdateFails(d)
    PROVE  PhotoRowSound'
  <1>1. PICK c \in Clients :
          E!EnhanceImageQuality(c) \/ E!Enhanced(c) \/ E!NotEnhanced(c) \/ E!Decisions(c)
    BY DEF E!EnhancementSteps
  <1>2. CASE E!Rename(c) /\ enhanced # E!None
    <2>1. work'[c].pc = "reads" /\ \A d \in Clients \ {c} : work'[d] = work[d]
      BY <1>2, WorkMoves DEF E!Rename
    <2>2. \A d \in Clients \ {c} : work[d].pc # "updates"
      BY <1>2 DEF E!Rename, Alone, E!Replacing, E!At
    <2> QED  BY <2>1, <2>2 DEF PhotoRowSound, E!At
  <1>3. CASE E!ReadReplaced(c)
    BY <1>3 DEF E!ReadReplaced, PhotoRowSound, E!At, ChoicesTyped, E!EnhancementsOK
  <1>4. CASE E!UpdateRow(c)
    <2>1. work'[c].pc = "idle" /\ \A d \in Clients \ {c} : work'[d] = work[d]
      BY <1>4, WorkMoves DEF E!UpdateRow, E!UpdateFails, E!Idle
    <2> QED  BY <1>4, <2>1 DEF E!UpdateRow, E!UpdateFails, PhotoRowSound, E!At
  <1>5. CASE E!UpdateFails(c)
    <2>1. work'[c].pc = "idle" /\ \A d \in Clients \ {c} : work'[d] = work[d]
      BY <1>5, WorkMoves DEF E!UpdateFails, E!Idle
    <2>2. photo' = photo /\ unsynced'  BY <1>5 DEF E!UpdateFails
    <2> QED  BY <2>1, <2>2 DEF PhotoRowSound, E!At
  <1>6. ASSUME ~(E!Rename(c) /\ enhanced # E!None), ~E!ReadReplaced(c), ~E!UpdateRow(c), ~E!UpdateFails(c)
        PROVE  PhotoRowSound'
    <2>1. photo' = photo /\ photoRow' = photoRow
      BY <1>1, <1>6 DEF E!EnhanceImageQuality, E!Enhanced, E!NotEnhanced, E!Decisions,
         E!ReplaceEnhancement, E!BackUp, E!Rename, E!SaveCopyEnhancement, E!ChooseName, E!CopyFile,
         E!CleanUp, E!HashCopy, E!RegisterCopy, E!RejectEnhancement
    <2>2. /\ work[c].pc \notin {"reads", "updates"} /\ work'[c].pc # "updates"
          /\ \A d \in Clients \ {c} : work'[d] = work[d]
      BY <1>1, <1>6, WorkMoves DEF E!EnhanceImageQuality, E!Enhanced, E!NotEnhanced, E!Decisions,
         E!ReplaceEnhancement, E!BackUp, E!Rename, E!SaveCopyEnhancement, E!ChooseName, E!CopyFile,
         E!CleanUp, E!HashCopy, E!RegisterCopy, E!RejectEnhancement, E!Idle, E!At, ChoicesTyped,
         E!EnhancementsOK
    <2> QED  BY <2>1, <2>2 DEF PhotoRowSound, E!At
  <1> QED  BY <1>2, <1>3, <1>4, <1>5, <1>6

LEMMA ChoicesInvStep == ChoicesInv /\ E!Next => ChoicesInv'
  <1> SUFFICES ASSUME ChoicesInv, E!Next PROVE ChoicesInv'  OBVIOUS
  <1>1. ChoicesTyped'  BY ChoicesTypedStep DEF ChoicesInv
  <1>2. ASSUME ~met' PROVE Unmet'
    <2>1. E!Remembered  BY DEF E!Next
    <2>2. ~met /\ ~E!Meet'  BY <1>2, <2>1 DEF E!Remembered
    <2>3. Alone'
      <3>1. (~E!Meet => Alone)'  BY UnmetAlone, PTL
      <3> QED  BY <2>2, <3>1
    <2>4. ChoicesTyped /\ Unmet  BY <2>2 DEF ChoicesInv
    <2>5. CASE E!Crash /\ unsynced' = TRUE
      BY <1>2, <2>1, <2>4, <2>5, UnmetCrash
    <2>6. CASE E!EnhancementSteps /\ unsynced' = (unsynced \/ \E c \in Clients : E!UpdateFails(c))
      BY <2>1, <2>3, <2>4, <2>6, BackupStep, CopiesStep, PhotoRowStep DEF Unmet
    <2> QED  BY <2>5, <2>6 DEF E!Next
  <1> QED  BY <1>1, <1>2 DEF ChoicesInv

\* What a user decides of an enhanced photo is done, and nothing that was to be
\* kept is overwritten (handleReplaceEnhancement, handleSaveCopyEnhancement).
THEOREM ChoicesKept == LlmSpec => []ChoicesAreKept
  <1>1. LlmInit => ChoicesInv
    BY ChoicesTypedInit, UnmetInit DEF LlmInit, E!Init, ChoicesInv
  <1>2. ChoicesInv /\ [LlmNext]_llmVars => ChoicesInv'
    <2> SUFFICES ASSUME ChoicesInv, [LlmNext]_llmVars PROVE ChoicesInv'  OBVIOUS
    <2>1. CASE UNCHANGED enhancements
      <3>1. ChoicesTyped'
        BY <2>1 DEF enhancements, ChoicesInv, ChoicesTyped, Named, E!EnhancementsOK
      <3>2. ~met' => Unmet'
        BY <2>1 DEF enhancements, ChoicesInv, Unmet, Alone, BackupSound, CopiesSound, NameSound,
           PhotoRowSound, E!At, E!Replacing
      <3> QED  BY <3>1, <3>2 DEF ChoicesInv
    <2>2. CASE E!Next  BY <2>2, ChoicesInvStep
    <2>3. UNCHANGED enhancements \/ E!Next
      BY DEF LlmNext, Ask, Catalogue, Enhance, llmVars
    <2> QED  BY <2>1, <2>2, <2>3
  <1>3. ChoicesInv => ChoicesAreKept  BY ChoicesInvKeeps DEF ChoicesAreKept
  <1> QED  BY <1>1, <1>2, <1>3, PTL DEF LlmSpec

-----------------------------------------------------------------------------
(* The catalogue: its types *)

\* At most the moves there have been have yet to be followed by a deletion.
CatalogTyped ==
    /\ C!CatalogTypeOK
    /\ listing \in [Requests -> C!Listings]
    /\ clearing <= provider.address

LEMMA ListingsTyped ==
    /\ C!Nothing \in C!Listings /\ DOMAIN C!Nothing = {}
    /\ \A l \in C!Listings : DOMAIN l \subseteq Models /\ \A m \in DOMAIN l : l[m] \in BOOLEAN
  <1>1. C!Nothing \in [{} -> BOOLEAN]  BY DEF C!Nothing
  <1> QED  BY <1>1 DEF C!Listings, C!Nothing

LEMMA AddressesTyped ==
    /\ MaxMoves \in Nat /\ MaxAgeings \in Nat
    /\ C!Guessed \notin C!Addresses /\ C!Unknown \notin C!Addresses /\ C!Unknown # C!Guessed
    /\ 0 \in C!Addresses
    /\ C!Addresses \subseteq C!Descriptions
    /\ C!Guessed \in C!Descriptions /\ C!Unknown \in C!Descriptions
  <1>1. MaxMoves \in Nat /\ MaxAgeings \in Nat
    BY AiTasksAssumption, LanguageModelsAssumption
  <1>2. C!Guessed \notin C!Addresses
    BY <1>1 DEF C!Addresses, C!Guessed
  <1>3. C!Unknown \notin C!Addresses /\ C!Unknown # C!Guessed
    BY <1>1 DEF C!Addresses, C!Unknown, C!Guessed
  <1>4. 0 \in C!Addresses  BY <1>1 DEF C!Addresses
  <1> QED
    BY <1>1, <1>2, <1>3, <1>4 DEF C!Descriptions

LEMMA CatalogTypedInit == C!Init => CatalogTyped
  <1> SUFFICES ASSUME C!Init PROVE CatalogTyped  OBVIOUS
  <1>1. listing \in [Requests -> C!Listings]
    BY ListingsTyped DEF C!Init, C!CatalogInit
  <1>2. provider.address = 0 /\ clearing = 0  BY DEF C!Init, C!CatalogInit
  <1>3. C!CatalogTypeOK
    BY <1>1, ListingsTyped, AddressesTyped DEF C!Init, C!CatalogInit, C!CatalogTypeOK, C!Stages, C!Answers
  <1> QED  BY <1>1, <1>2, <1>3 DEF CatalogTyped

\* Of a model of which a listing says nothing new, what was stored remains.
LEMMA MergedTyped ==
    ASSUME CatalogTyped, NEW r \in Requests, NEW m \in DOMAIN listing[r]
    PROVE  /\ C!Incoming(r, m) \in {target[r], C!Unknown, C!Guessed}
           /\ \/ C!Merged(r, m) \in {target[r], C!Unknown, C!Guessed}
              \/ m \in DOMAIN catalog /\ C!Merged(r, m) = catalog[m]
  BY DEF C!Incoming, C!Merged

LEMMA CatalogTypedStep == CatalogTyped /\ C!Next => CatalogTyped'
  <1> SUFFICES ASSUME CatalogTyped, C!Next PROVE CatalogTyped'  OBVIOUS
  <1>0. /\ provider \in [exists : BOOLEAN, address : C!Addresses,
                         fetched : {"never", "fresh", "expired"}, rich : BOOLEAN]
        /\ DOMAIN catalog \subseteq Models /\ \A m \in DOMAIN catalog : catalog[m] \in C!Descriptions
        /\ catalogStage \in [Requests -> C!Stages] /\ explicit \subseteq Requests
        /\ known \in [Requests -> SUBSET Models] /\ target \in [Requests -> C!Addresses]
        /\ listing \in [Requests -> C!Listings]
        /\ flight \in Requests \cup {NoFlight} /\ waitsFor \in [Requests -> Requests \cup {NoFlight}]
        /\ result \in [Requests -> {"open", "ok", "failed"}]
        /\ catalogAnswer \in [Requests -> C!Answers] /\ clearing \in 0 .. MaxMoves
        /\ catalogAgeings \in 0 .. MaxAgeings /\ clearing <= provider.address
    BY DEF CatalogTyped, C!CatalogTypeOK
  <1> DEFINE RowsTyped ==
                /\ provider \in [exists : BOOLEAN, address : C!Addresses,
                                 fetched : {"never", "fresh", "expired"}, rich : BOOLEAN]
                /\ DOMAIN catalog \subseteq Models
                /\ \A m \in DOMAIN catalog : catalog[m] \in C!Descriptions
                /\ clearing \in 0 .. MaxMoves /\ catalogAgeings \in 0 .. MaxAgeings
                /\ clearing <= provider.address
             RequestsTyped ==
                /\ catalogStage \in [Requests -> C!Stages] /\ explicit \subseteq Requests
                /\ known \in [Requests -> SUBSET Models] /\ target \in [Requests -> C!Addresses]
                /\ listing \in [Requests -> C!Listings]
                /\ flight \in Requests \cup {NoFlight}
                /\ waitsFor \in [Requests -> Requests \cup {NoFlight}]
                /\ result \in [Requests -> {"open", "ok", "failed"}]
                /\ catalogAnswer \in [Requests -> C!Answers]
  <1> SUFFICES RowsTyped' /\ RequestsTyped'
    BY DEF CatalogTyped, C!CatalogTypeOK
  <1>1. ASSUME NEW r \in Requests, C!Get(r) \/ C!ReadStored(r)
        PROVE  RowsTyped' /\ RequestsTyped'
    <2>1. RowsTyped'  BY <1>0, <1>1 DEF C!Get, C!ReadStored
    <2>2. RequestsTyped'
      BY <1>0, <1>1 DEF C!Get, C!ReadStored, C!Moves, C!Answered, C!Stages, C!Answers
    <2> QED  BY <2>1, <2>2
  <1>2. ASSUME NEW r \in Requests,
               C!Lead(r) \/ C!Wait(r) \/ C!ListFails(r) \/ C!MergeFails(r) \/ C!Forget(r)
                  \/ C!Landed(r) \/ C!GivesUp(r)
        PROVE  RowsTyped' /\ RequestsTyped'
    <2>1. RowsTyped'
      BY <1>0, <1>2 DEF C!Lead, C!Wait, C!ListFails, C!MergeFails, C!Forget, C!Landed, C!GivesUp
    <2>2. RequestsTyped'
      BY <1>0, <1>2 DEF C!Lead, C!Wait, C!ListFails, C!MergeFails, C!Forget, C!Landed, C!GivesUp,
         C!Moves, C!Lands, C!Stages
    <2> QED  BY <2>1, <2>2
  <1>3. ASSUME NEW r \in Requests, C!List(r) PROVE RowsTyped' /\ RequestsTyped'
    <2>1. RowsTyped'  BY <1>0, <1>3 DEF C!List
    <2>2. RequestsTyped'  BY <1>0, <1>3 DEF C!List, C!Moves, C!Stages
    <2> QED  BY <2>1, <2>2
  <1>4. ASSUME NEW r \in Requests, C!Merge(r) PROVE RowsTyped' /\ RequestsTyped'
    <2>1. DOMAIN catalog' \subseteq DOMAIN listing[r] \cup DOMAIN catalog
      BY <1>4 DEF C!Merge
    <2>2. DOMAIN listing[r] \subseteq Models  BY <1>0, ListingsTyped
    <2>3. ASSUME NEW m \in DOMAIN catalog' PROVE catalog'[m] \in C!Descriptions
      <3>1. CASE m \in DOMAIN listing[r]
        <4>1. catalog'[m] = C!Merged(r, m)  BY <1>4, <2>3, <3>1 DEF C!Merge
        <4>2. target[r] \in C!Descriptions  BY <1>0, AddressesTyped
        <4> QED  BY <1>0, <3>1, <4>1, <4>2, MergedTyped, AddressesTyped
      <3>2. CASE m \notin DOMAIN listing[r]
        BY <1>0, <1>4, <2>1, <2>3, <3>2 DEF C!Merge
      <3> QED  BY <3>1, <3>2
    <2>4. C!Rich(r) \in BOOLEAN
      BY DEF C!Rich
    <2>5. provider' = [provider EXCEPT !.fetched = "fresh", !.rich = C!Rich(r)]
      BY <1>4 DEF C!Merge
    <2>6. RowsTyped'
      <3>1. /\ provider' \in [exists : BOOLEAN, address : C!Addresses,
                              fetched : {"never", "fresh", "expired"}, rich : BOOLEAN]
            /\ provider'.address = provider.address
        BY <1>0, <2>4, <2>5
      <3>2. UNCHANGED <<clearing, catalogAgeings>>  BY <1>4 DEF C!Merge
      <3> QED  BY <1>0, <2>1, <2>2, <2>3, <3>1, <3>2
    <2>7. RequestsTyped'
      BY <1>0, <1>4 DEF C!Merge, C!Moves, C!Lands, C!Stages
    <2> QED  BY <2>6, <2>7
  <1>5. ASSUME NEW r \in Requests, C!Reload(r) PROVE RowsTyped' /\ RequestsTyped'
    <2>1. RowsTyped'  BY <1>0, <1>5 DEF C!Reload
    <2>2. 0 \in C!Addresses /\ C!Nothing \in C!Listings  BY AddressesTyped, ListingsTyped
    <2>3. RequestsTyped'
      BY <1>0, <1>5, <2>2 DEF C!Reload, C!Moves, C!Answered, C!Forgets, C!Stages, C!Answers
    <2> QED  BY <2>1, <2>3
  <1>6. CASE C!MoveProvider \/ C!Expire
    <2>1. RequestsTyped'  BY <1>0, <1>6 DEF C!MoveProvider, C!Expire
    <2>2. RowsTyped'
      BY <1>0, <1>6, AddressesTyped DEF C!MoveProvider, C!Expire, C!Addresses
    <2> QED  BY <2>1, <2>2
  <1>7. CASE C!DeleteModels \/ C!DeleteProvider
    <2>1. RequestsTyped'  BY <1>0, <1>7 DEF C!DeleteModels, C!DeleteProvider
    <2>2. catalog' = C!Nothing /\ catalogAgeings' = catalogAgeings
      BY <1>7 DEF C!DeleteModels, C!DeleteProvider
    <2>3. /\ DOMAIN catalog' \subseteq Models
          /\ \A m \in DOMAIN catalog' : catalog'[m] \in C!Descriptions
      BY <2>2, ListingsTyped
    <2>4. CASE C!DeleteModels
      <3>1. provider' = provider /\ clearing > 0 /\ clearing' = clearing - 1
        BY <2>4 DEF C!DeleteModels
      <3>2. clearing' \in 0 .. MaxMoves /\ clearing' <= provider'.address
        <4>1. clearing \in 0 .. MaxMoves /\ clearing <= provider.address /\ provider.address \in Nat
          BY <1>0, AddressesTyped DEF C!Addresses
        <4> QED  BY <3>1, <4>1, AddressesTyped
      <3>3. provider' \in [exists : BOOLEAN, address : C!Addresses,
                           fetched : {"never", "fresh", "expired"}, rich : BOOLEAN]
        BY <1>0, <3>1
      <3>4. catalogAgeings' \in 0 .. MaxAgeings  BY <1>0, <2>2
      <3> QED  BY <2>1, <2>3, <3>2, <3>3, <3>4
    <2>5. CASE C!DeleteProvider
      <3>1. /\ provider' \in [exists : BOOLEAN, address : C!Addresses,
                              fetched : {"never", "fresh", "expired"}, rich : BOOLEAN]
            /\ provider'.address = provider.address /\ clearing' = clearing
        BY <1>0, <2>5 DEF C!DeleteProvider
      <3>2. clearing' \in 0 .. MaxMoves /\ clearing' <= provider'.address
        BY <1>0, <3>1
      <3>3. catalogAgeings' \in 0 .. MaxAgeings  BY <1>0, <2>2
      <3> QED  BY <2>1, <2>3, <3>1, <3>2, <3>3
    <2> QED  BY <1>7, <2>4, <2>5
  <1> QED
    BY <1>1, <1>2, <1>3, <1>4, <1>5, <1>6, <1>7 DEF C!Next, C!CatalogNext, C!RequestSteps

-----------------------------------------------------------------------------
(* The catalogue: requests and changes of the provider one after the other *)

\* A request knows the provider as it is, and what is stored; and unless the
\* models of a former address are still to be deleted, those that are described
\* are of the present one.
Orderly ==
    /\ C!OneByOne
    /\ \A r \in Requests : C!Running(r) => target[r] = provider.address
    /\ \A r \in Requests : catalogStage[r] \in {"joins", "lists", "merges"} => DOMAIN catalog \subseteq known[r]
    /\ clearing = 0 => \A m \in C!Described : catalog[m] = provider.address

CatalogInv == CatalogTyped /\ (scene = "orderly" => Orderly)

LEMMA OrderlyInit == C!Init => Orderly
  <1> SUFFICES ASSUME C!Init PROVE Orderly  OBVIOUS
  <1>1. \A r \in Requests : catalogStage[r] = "unmade"  BY DEF C!Init, C!CatalogInit
  <1>2. clearing = 0 /\ DOMAIN catalog = {}
    BY ListingsTyped DEF C!Init, C!CatalogInit
  <1> QED
    BY <1>1, <1>2 DEF Orderly, C!OneByOne, C!Running, C!Described

\* Where a step of one request leads
LEMMA StageMoves ==
    ASSUME CatalogTyped, NEW r \in Requests, NEW from, NEW to, C!Moves(r, from, to)
    PROVE  /\ catalogStage[r] = from /\ catalogStage'[r] = to
           /\ \A q \in Requests \ {r} : catalogStage'[q] = catalogStage[q]
  BY DEF C!Moves, CatalogTyped, C!CatalogTypeOK

LEMMA OrderlyStep ==
    ASSUME CatalogTyped, Orderly, C!CatalogNext, C!OneByOne'
    PROVE  Orderly'
  <1>0. /\ target \in [Requests -> C!Addresses] /\ known \in [Requests -> SUBSET Models]
        /\ clearing \in Nat
    BY DEF CatalogTyped, C!CatalogTypeOK
  <1> DEFINE Knows == \A r \in Requests : C!Running(r) => target[r] = provider.address
             Sees == \A r \in Requests :
                        catalogStage[r] \in {"joins", "lists", "merges"} => DOMAIN catalog \subseteq known[r]
             Describes == clearing = 0 => \A m \in C!Described : catalog[m] = provider.address
  <1> SUFFICES Knows' /\ Sees' /\ Describes'
    BY DEF Orderly
  <1>00. Knows /\ Sees /\ Describes /\ C!OneByOne  BY DEF Orderly
  <1> HIDE DEF Knows, Sees, Describes
  <1>1. ASSUME NEW r \in Requests, C!Get(r) PROVE Knows' /\ Sees' /\ Describes'
    <2>1. /\ catalogStage'[r] \in {"reads", "done"}
          /\ \A q \in Requests \ {r} : catalogStage'[q] = catalogStage[q]
      BY <1>1, StageMoves DEF C!Get
    <2>2. /\ UNCHANGED <<provider, catalog, clearing, known>>
          /\ target'[r] = provider.address /\ \A q \in Requests \ {r} : target'[q] = target[q]
      BY <1>0, <1>1 DEF C!Get
    <2>3. Knows'  BY <1>00, <2>1, <2>2 DEF Knows, C!Running
    <2>4. Sees'  BY <1>00, <2>1, <2>2 DEF Sees
    <2>5. Describes'  BY <1>00, <2>2 DEF Describes, C!Described
    <2> QED  BY <2>3, <2>4, <2>5
  <1>2. ASSUME NEW r \in Requests, C!ReadStored(r) PROVE Knows' /\ Sees' /\ Describes'
    <2>1. /\ catalogStage[r] = "reads" /\ \A q \in Requests \ {r} : catalogStage'[q] = catalogStage[q]
      BY <1>2, StageMoves DEF C!ReadStored
    <2>2. /\ UNCHANGED <<provider, catalog, clearing, target>>
          /\ known'[r] = DOMAIN catalog /\ \A q \in Requests \ {r} : known'[q] = known[q]
      BY <1>0, <1>2 DEF C!ReadStored
    <2>3. Knows'  BY <1>00, <2>1, <2>2 DEF Knows, C!Running
    <2>4. Sees'  BY <1>00, <2>1, <2>2 DEF Sees
    <2>5. Describes'  BY <1>00, <2>2 DEF Describes, C!Described
    <2> QED  BY <2>3, <2>4, <2>5
  <1>3. ASSUME NEW r \in Requests,
               C!Lead(r) \/ C!Wait(r) \/ C!ListFails(r) \/ C!MergeFails(r) \/ C!Forget(r)
                  \/ C!Landed(r) \/ C!GivesUp(r) \/ C!List(r)
        PROVE  Knows' /\ Sees' /\ Describes'
    <2>1. /\ catalogStage[r] \notin {"unmade", "done"}
          /\ \/ catalogStage[r] \in {"joins", "lists"}
             \/ catalogStage'[r] \notin {"joins", "lists", "merges"}
          /\ \A q \in Requests \ {r} : catalogStage'[q] = catalogStage[q]
      BY <1>3, StageMoves DEF C!Lead, C!Wait, C!ListFails, C!MergeFails, C!Forget, C!Landed,
         C!GivesUp, C!List
    <2>2. UNCHANGED <<provider, catalog, clearing, target, known>>
      BY <1>3 DEF C!Lead, C!Wait, C!ListFails, C!MergeFails, C!Forget, C!Landed, C!GivesUp, C!List
    <2>3. Knows'  BY <1>00, <2>1, <2>2 DEF Knows, C!Running
    <2>4. Sees'  BY <1>00, <2>1, <2>2 DEF Sees
    <2>5. Describes'  BY <1>00, <2>2 DEF Describes, C!Described
    <2> QED  BY <2>3, <2>4, <2>5
  <1>4. ASSUME NEW r \in Requests, C!Merge(r) PROVE Knows' /\ Sees' /\ Describes'
    <2>1. /\ catalogStage[r] = "merges" /\ catalogStage'[r] = "closes"
          /\ \A q \in Requests \ {r} : catalogStage'[q] = catalogStage[q]
      BY <1>4, StageMoves DEF C!Merge
    <2>2. UNCHANGED <<clearing, target, known>> /\ provider'.address = provider.address
      BY <1>4 DEF C!Merge, CatalogTyped, C!CatalogTypeOK
    <2>3. clearing = 0 /\ \A q \in Requests \ {r} : ~C!Running(q)
      BY <1>0, <1>00, <2>1 DEF C!OneByOne, C!Running
    <2>4. target[r] = provider.address
      BY <1>00, <2>1 DEF Knows, C!Running
    <2>5. Knows'  BY <1>00, <2>1, <2>2 DEF Knows, C!Running
    <2>6. Sees'  BY <2>1, <2>3 DEF Sees, C!Running
    <2>7. ASSUME NEW m \in DOMAIN catalog', catalog'[m] \in C!Addresses
          PROVE  catalog'[m] = provider.address
      <3>1. CASE m \in DOMAIN listing[r]
        <4>1. catalog'[m] = C!Merged(r, m)  BY <1>4, <2>7, <3>1 DEF C!Merge
        <4>2. CASE catalog'[m] = target[r]  BY <2>4, <4>2
        <4>3. CASE m \in DOMAIN catalog /\ catalog'[m] = catalog[m]
          BY <1>00, <2>3, <2>7, <4>3 DEF Describes, C!Described
        <4> QED  BY <2>7, <3>1, <4>1, <4>2, <4>3, MergedTyped, AddressesTyped
      <3>2. CASE m \notin DOMAIN listing[r]
        <4>1. m \in DOMAIN catalog /\ catalog'[m] = catalog[m]
          BY <1>4, <2>7, <3>2 DEF C!Merge
        <4> QED  BY <1>00, <2>3, <2>7, <4>1 DEF Describes, C!Described
      <3> QED  BY <3>1, <3>2
    <2>8. Describes'  BY <2>2, <2>7 DEF Describes, C!Described
    <2> QED  BY <2>5, <2>6, <2>8
  <1>5. ASSUME NEW r \in Requests, C!Reload(r) PROVE Knows' /\ Sees' /\ Describes'
    <2>1. /\ catalogStage'[r] = "done"
          /\ \A q \in Requests \ {r} : catalogStage'[q] = catalogStage[q]
      BY <1>5, StageMoves DEF C!Reload
    <2>2. /\ UNCHANGED <<provider, catalog, clearing>>
          /\ \A q \in Requests \ {r} : target'[q] = target[q] /\ known'[q] = known[q]
      BY <1>0, <1>5 DEF C!Reload, C!Forgets
    <2>3. Knows'  BY <1>00, <2>1, <2>2 DEF Knows, C!Running
    <2>4. Sees'  BY <1>00, <2>1, <2>2 DEF Sees
    <2>5. Describes'  BY <1>00, <2>2 DEF Describes, C!Described
    <2> QED  BY <2>3, <2>4, <2>5
  <1>6. CASE C!MoveProvider
    <2>1. clearing' = clearing + 1 /\ UNCHANGED <<catalog, catalogStage, known, target>>
      BY <1>6 DEF C!MoveProvider
    <2>2. clearing' # 0 /\ \A r \in Requests : ~C!Running(r)
      BY <1>0, <2>1 DEF C!OneByOne, C!Running
    <2>3. Knows'  BY <2>1, <2>2 DEF Knows, C!Running
    <2>4. Sees'  BY <1>00, <2>1 DEF Sees
    <2>5. Describes'  BY <2>2 DEF Describes
    <2> QED  BY <2>3, <2>4, <2>5
  <1>7. CASE C!DeleteModels \/ C!DeleteProvider
    <2>1. /\ DOMAIN catalog' = {} /\ provider'.address = provider.address
          /\ UNCHANGED <<catalogStage, known, target>>
      BY <1>7, ListingsTyped DEF C!DeleteModels, C!DeleteProvider, CatalogTyped, C!CatalogTypeOK
    <2>2. Knows'  BY <1>00, <2>1 DEF Knows, C!Running
    <2>3. Sees'  BY <2>1 DEF Sees
    <2>4. Describes'  BY <2>1 DEF Describes, C!Described
    <2> QED  BY <2>2, <2>3, <2>4
  <1>8. CASE C!Expire
    <2>1. /\ provider'.address = provider.address
          /\ UNCHANGED <<catalog, catalogStage, known, target, clearing>>
      BY <1>8 DEF C!Expire, CatalogTyped, C!CatalogTypeOK
    <2>2. Knows'  BY <1>00, <2>1 DEF Knows, C!Running
    <2>3. Sees'  BY <1>00, <2>1 DEF Sees
    <2>4. Describes'  BY <1>00, <2>1 DEF Describes, C!Described
    <2> QED  BY <2>2, <2>3, <2>4
  <1> QED
    BY <1>1, <1>2, <1>3, <1>4, <1>5, <1>6, <1>7, <1>8 DEF C!CatalogNext, C!RequestSteps

LEMMA CatalogInvNext == CatalogInv /\ [LlmNext]_llmVars => CatalogInv'
  <1> SUFFICES ASSUME CatalogInv, [LlmNext]_llmVars PROVE CatalogInv'  OBVIOUS
  <1>1. CASE UNCHANGED catalogue
    BY <1>1 DEF catalogue, CatalogInv, CatalogTyped, C!CatalogTypeOK, Orderly, C!OneByOne,
       C!Running, C!Described
  <1>2. CASE C!Next
    <2>1. CatalogTyped'  BY <1>2, CatalogTypedStep DEF CatalogInv
    <2>2. scene' = "orderly" => Orderly'
      BY <1>2, OrderlyStep DEF CatalogInv, C!Next
    <2> QED  BY <2>1, <2>2 DEF CatalogInv
  <1>3. UNCHANGED catalogue \/ C!Next
    BY DEF LlmNext, Ask, Catalogue, Enhance, llmVars
  <1> QED  BY <1>1, <1>2, <1>3

LEMMA CatalogInvInit == LlmInit => CatalogInv
  BY CatalogTypedInit, OrderlyInit DEF LlmInit, CatalogInv

\* What providers have told of their models is from the provider's present
\* address, once the models of the former one have been deleted
\* (handleUpdateLlmProvider, storedModelFromInfo).
THEOREM DescriptionsAreOfTheAddress == LlmSpec => []OrderlyDescribesTheAddress
  <1>1. CatalogInv => OrderlyDescribesTheAddress
    BY DEF CatalogInv, CatalogTyped, Orderly, OrderlyDescribesTheAddress, C!OrderlyDescribesTheAddress
  <1> QED  BY <1>1, CatalogInvInit, CatalogInvNext, PTL DEF LlmSpec

\* A listing that does not describe all its models leaves every description
\* that a provider has given: what is stored when it is merged was stored when
\* the request began (MergeProviderCatalog, collectAndPersist).
LEMMA KeepsStep ==
    ASSUME CatalogInv, C!Next, scene = "orderly", NEW r \in Requests
    PROVE  C!KeepsDescriptions(r)
  <1> SUFFICES ASSUME catalogStage[r] = "merges", catalogStage'[r] = "closes", ~C!Rich(r),
                      NEW m \in C!Described
               PROVE  m \in C!Described'
    BY DEF C!KeepsDescriptions
  <1>1. m \in DOMAIN catalog /\ catalog[m] \in C!Addresses  BY DEF C!Described
  <1>2. CASE catalog' = catalog  BY <1>2 DEF C!Described
  <1>3. ASSUME NEW q \in Requests, C!Merge(q) PROVE m \in C!Described'
    <2>1. q = r  BY <1>3, StageMoves DEF C!Merge, CatalogInv
    <2>2. m \in known[r]
      BY <1>1 DEF CatalogInv, Orderly
    <2>3. m \in DOMAIN catalog'  BY <1>1, <1>3, <2>1 DEF C!Merge
    <2>4. CASE m \in DOMAIN listing[r]
      <3>1. catalog'[m] = C!Merged(r, m)  BY <1>3, <2>1, <2>4 DEF C!Merge
      <3>2. C!Merged(r, m) \in {target[r], catalog[m]}
        BY <1>1, <2>2 DEF C!Merged, C!Incoming
      <3>3. target[r] \in C!Addresses  BY DEF CatalogInv, CatalogTyped, C!CatalogTypeOK
      <3> QED  BY <1>1, <2>3, <3>1, <3>2, <3>3 DEF C!Described
    <2>5. CASE m \notin DOMAIN listing[r]
      <3>1. catalog'[m] = catalog[m]  BY <1>1, <1>3, <2>1, <2>5 DEF C!Merge
      <3> QED  BY <1>1, <2>3, <3>1 DEF C!Described
    <2> QED  BY <2>4, <2>5
  <1>4. catalog' = catalog \/ \E q \in Requests : C!Merge(q)
    <2>1. catalogStage' # catalogStage  OBVIOUS
    <2> QED
      BY <2>1 DEF C!Next, C!CatalogNext, C!RequestSteps, C!Get, C!ReadStored, C!Lead, C!Wait, C!List,
         C!ListFails, C!MergeFails, C!Forget, C!Landed, C!Reload, C!GivesUp, C!MoveProvider,
         C!DeleteModels, C!DeleteProvider, C!Expire
  <1> QED  BY <1>2, <1>3, <1>4

\* A listing that guesses, for it does not describe all its models, leaves
\* every description that the provider has given (collectAndPersist,
\* MergeProviderCatalog).
THEOREM DescriptionsAreKept == LlmSpec => OrderlyKeepsDescriptions
  <1>1. CatalogInv /\ [LlmNext]_llmVars
          => [scene = "orderly" => \A r \in Requests : C!KeepsDescriptions(r)]_(C!vars)
    <2> SUFFICES ASSUME CatalogInv, [LlmNext]_llmVars, scene = "orderly", ~(UNCHANGED C!vars),
                        NEW r \in Requests
                 PROVE  C!KeepsDescriptions(r)
      OBVIOUS
    <2>1. C!Next  BY DEF LlmNext, Ask, Catalogue, Enhance, llmVars, catalogue, C!vars, C!catalogVars
    <2> QED  BY <2>1, KeepsStep
  <1> QED
    BY <1>1, CatalogInvInit, CatalogInvNext, PTL DEF LlmSpec, OrderlyKeepsDescriptions,
       C!OrderlyKeepsDescriptions
-----------------------------------------------------------------------------
(* Conversations: what messages and turns are like *)

AnyCall == {c \in (Nat \ {0}) \X (1 .. MaxCalls) \X Nat : c[3] \in {0, c[1]}}

Row == [id : Nat \ {0}, at : Int, role : {"user", "assistant", "tool", "system"},
        calls : SUBSET AnyCall, answers : SUBSET AnyCall, about : SUBSET Nat]

\* A message tells of messages before it, and a tool's answers one earlier call.
Proper(m) ==
    /\ m \in Row /\ m.at <= 2 * m.id /\ m.about \subseteq 1 .. m.id
    /\ m.role # "system" => m.at = 2 * m.id
    /\ m.calls # {} => m.role = "assistant"
    /\ \A c \in m.calls : c[1] = m.id
    /\ m.role # "tool" => m.answers = {}
    /\ m.role = "tool" => \E c \in AnyCall : m.answers = {c} /\ c[1] < m.id

\* Messages of n that have been created
Among(M, n) ==
    /\ \A m \in M : Proper(m) /\ m.id <= n
    /\ \A k, m \in M : k.id = m.id => k = m

Messages(n) == {m \in Row : Proper(m) /\ m.id <= n}

TalkTyped ==
    /\ conv \in [exists : BOOLEAN, tokens : Nat, title : Nat, summaries : 0 .. 1]
    /\ created \in Nat /\ sent \in 0 .. MaxSent
    /\ Among(messages, created)
    /\ phase \in [Turns -> Phases]
    /\ adding \in [Turns -> 0 .. created]
    /\ round \in [Turns -> 0 .. MaxToolRounds]
    /\ request \in [Turns -> Seq(Messages(created))]
    /\ todo \in [Turns -> SUBSET {c \in AnyCall : c[1] <= created}]
    /\ \A t \in Turns : Among(snapshot[t], created)
    /\ DOMAIN snapshot = Turns
    /\ gen \in [Turns -> {"none", "reads", "asks"}]
    /\ inFlight \in BOOLEAN /\ mishaps \in 0 .. 1

\* A turn that has not asked has been through no round, one that may ask has
\* rounds left, and calls are to be executed by one that does so.
TurnsGo ==
    \A t \in Turns :
        /\ phase[t] \in {"idle", "checks", "saves", "reads"} => round[t] = 0
        /\ phase[t] \in {"asks", "tools"} => round[t] < MaxToolRounds
        /\ phase[t] # "tools" => todo[t] = {}
        /\ phase[t] # "idle" \/ gen[t] # "none" => 0 < sent

\* Messages that have been created and not counted yet: each by one turn
Pending == {adding[t] : t \in Turns} \ {0}
Counted ==
    /\ IsFiniteSet(Pending) /\ conv.tokens + Cardinality(Pending) <= created
    /\ conv.title <= created
    /\ \A t, u \in Turns : adding[t] # 0 /\ adding[t] = adding[u] => t = u

\* One goroutine at most makes the one-line summary, and one that asks for it
\* writes the first.
OneLine ==
    /\ 0 < conv.summaries => 0 < sent
    /\ \A t \in Turns : gen[t] # "none" => inFlight
    /\ \A t, u \in Turns : gen[t] # "none" /\ gen[u] # "none" => t = u
    /\ \A t \in Turns : gen[t] = "asks" /\ conv.exists => conv.summaries = 0

\* No answer in q stands without its call: none at all, or none to a call that
\* has an id of its own.
NoStrayOf(q, all) ==
    \A i \in 1 .. Len(q) : q[i].role = "tool" =>
       \A c \in q[i].answers : all \/ c[3] # 0 => \E k \in 1 .. i - 1 : c \in q[k].calls

\* What a turn asks has no such stray answer, none at all when turns wait for each
\* other, and the calls it executes are in it.
Asking ==
    \A t \in Turns : phase[t] \in {"asks", "tools"} =>
        /\ NoStrayOf(request[t], manner = "waits")
        /\ \A c \in todo[t] : \E i \in DOMAIN request[t] : c \in request[t][i].calls

\* Answers follow the calls in q, but for those to the calls in rest, which are
\* of the last message but for answers.
Follow(q, rest) ==
    \A i \in DOMAIN q :
        /\ \A c \in q[i].calls \ rest :
              \E j \in i + 1 .. Len(q) :
                 q[j].answers = {c} /\ \A k \in i + 1 .. j : q[k].role = "tool"
        /\ q[i].calls \cap rest # {} => \A k \in i + 1 .. Len(q) : q[k].role = "tool"

\* The same of the messages of a conversation
InOrder(M, rest) ==
    /\ \A m \in M : m.role = "tool" =>
          \E a \in M : /\ m.answers \subseteq a.calls
                       /\ \A k \in M : Before(a, k) /\ Before(k, m) => k.role = "tool"
    /\ \A a \in M : \A c \in a.calls \ rest : \E m \in M : m.role = "tool" /\ m.answers = {c}
    /\ \A a \in M : a.calls \cap rest # {} => \A k \in M : Before(a, k) => k.role = "tool"
    /\ \A c \in rest : \E a \in M : c \in a.calls

Waiting ==
    manner = "waits" =>
        /\ mishaps = 1 /\ OneByOne
        /\ \A t \in Turns : phase[t] \in {"asks", "tools"} => Follow(request[t], todo[t])
        /\ conv.exists => InOrder(messages, UNION {todo[t] : t \in Turns})
        /\ \A t \in Turns : conv.exists /\ phase[t] = "summarises" => snapshot[t] = messages

TalkInv == TalkTyped /\ TurnsGo /\ Counted /\ OneLine /\ Asking /\ Waiting
-----------------------------------------------------------------------------
(* The order of a conversation's messages *)

\* Messages of a conversation are ordered by time and id.
LEMMA BeforeTotal ==
    ASSUME NEW n \in Nat, NEW M, Among(M, n), NEW a \in M, NEW b \in M
    PROVE  /\ ~Before(a, a)
           /\ ~(Before(a, b) /\ Before(b, a))
           /\ a = b \/ Before(a, b) \/ Before(b, a)
           /\ \A c \in M : Before(a, b) /\ Before(b, c) => Before(a, c)
  <1>1. \A m \in M : m.at \in Int /\ m.id \in Nat  BY DEF Among, Proper, Row
  <1>2. a.id = b.id => a = b  BY DEF Among
  <1> QED  BY <1>1, <1>2 DEF Before

\* Messages are as many as ids at most.
LEMMA AmongFinite ==
    ASSUME NEW n \in Nat, NEW M, Among(M, n)
    PROVE  IsFiniteSet(M)
  <1> DEFINE f == [m \in M |-> m.id]
  <1>1. \A m \in M : m.id \in 1 .. n  BY DEF Among, Proper, Row
  <1>2. f \in Injection(M, 1 .. n)  BY <1>1 DEF Injection, IsInjective, Among
  <1>3. IsFiniteSet(1 .. n)  BY FS_Interval
  <1> QED  BY <1>2, <1>3, FS_Injection

\* How many messages are before m
Rank(M, m) == Cardinality({k \in M : Before(k, m)})

\* A message has a rank among those of its conversation,
LEMMA RankTyped ==
    ASSUME NEW n \in Nat, NEW M, Among(M, n), NEW m \in M
    PROVE  Cardinality(M) \in Nat /\ Rank(M, m) \in 0 .. Cardinality(M) - 1
  <1> DEFINE B == {k \in M : Before(k, m)}
  <1>1. IsFiniteSet(M)  BY AmongFinite
  <1>2. m \notin B  BY BeforeTotal
  <1>3. B \in SUBSET (M \ {m})  BY <1>2
  <1>4. /\ IsFiniteSet(M \ {m}) /\ Cardinality(M \ {m}) = Cardinality(M) - 1
        /\ Cardinality(M) \in Nat
    BY <1>1, FS_RemoveElement, FS_CardinalityType
  <1> HIDE DEF B
  <1>5. IsFiniteSet(B) /\ Cardinality(B) <= Cardinality(M) - 1  BY <1>3, <1>4, FS_Subset
  <1>6. Cardinality(B) \in Nat  BY <1>5, FS_CardinalityType
  <1> QED  BY <1>4, <1>5, <1>6 DEF Rank, B

\* and a later one a higher rank.
LEMMA RankGrows ==
    ASSUME NEW n \in Nat, NEW M, Among(M, n), NEW a \in M, NEW b \in M, Before(a, b)
    PROVE  Rank(M, a) < Rank(M, b)
  <1> DEFINE A == {k \in M : Before(k, a)}
             B == {k \in M : Before(k, b)}
  <1>1. IsFiniteSet(M)  BY AmongFinite
  <1>2. a \notin A /\ a \in B  BY BeforeTotal
  <1>3. \A k \in A : k \in B  BY BeforeTotal
  <1>4. A \in SUBSET B /\ B \in SUBSET M /\ A # B  BY <1>2, <1>3
  <1> HIDE DEF A, B
  <1>5. IsFiniteSet(B)  BY <1>1, <1>4, FS_Subset
  <1>6. Cardinality(A) <= Cardinality(B) /\ Cardinality(A) # Cardinality(B)
    BY <1>4, <1>5, FS_Subset
  <1>7. IsFiniteSet(A)  BY <1>4, <1>5, FS_Subset
  <1>8. Cardinality(A) \in Nat /\ Cardinality(B) \in Nat  BY <1>5, <1>7, FS_CardinalityType
  <1> QED  BY <1>6, <1>8 DEF Rank, A, B

\* Every message has a place in the history, after those before it.
LEMMA HistoryOrdered ==
    ASSUME NEW n \in Nat, NEW M, Among(M, n)
    PROVE  /\ Cardinality(M) \in Nat
           /\ Chronological(M) \in [1 .. Cardinality(M) -> M]
           /\ \A i, j \in 1 .. Cardinality(M) :
                 i < j => Before(Chronological(M)[i], Chronological(M)[j])
           /\ \A m \in M : \E i \in 1 .. Cardinality(M) : Chronological(M)[i] = m
  <1> DEFINE c == Cardinality(M)
             r == [m \in M |-> Rank(M, m)]
             q == Chronological(M)
  <1>1. IsFiniteSet(M) /\ c \in Nat  BY AmongFinite, FS_CardinalityType
  <1>2. \A m \in M : Rank(M, m) \in 0 .. c - 1  BY RankTyped
  <1>3. \A a, b \in M : Rank(M, a) = Rank(M, b) => a = b
    <2> SUFFICES ASSUME NEW a \in M, NEW b \in M, Rank(M, a) = Rank(M, b) PROVE a = b  OBVIOUS
    <2>1. Rank(M, a) \in Int /\ Rank(M, b) \in Int  BY <1>2
    <2>2. a = b \/ Before(a, b) \/ Before(b, a)  BY BeforeTotal
    <2> QED  BY <2>1, <2>2, RankGrows
  <1>4. r \in Injection(M, 0 .. c - 1)  BY <1>2, <1>3 DEF Injection, IsInjective
  <1>5. IsFiniteSet(0 .. c - 1) /\ Cardinality(0 .. c - 1) = c
    <2>1. 0 \in Int /\ c - 1 \in Int  BY <1>1
    <2> QED  BY <1>1, <2>1, FS_Interval
  <1>6. r \in Surjection(M, 0 .. c - 1)
    <2> HIDE DEF r, c
    <2> QED  BY <1>4, <1>5, FS_Injection DEF c
  <1>7. \A i \in 1 .. c : \E m \in M : Rank(M, m) = i - 1
    <2> TAKE i \in 1 .. c
    <2>1. i - 1 \in 0 .. c - 1  BY <1>1
    <2>2. PICK m \in M : r[m] = i - 1  BY <1>6, <2>1 DEF Surjection
    <2> QED  BY <2>2
  <1>8. \A i \in 1 .. c : q[i] \in M /\ Rank(M, q[i]) = i - 1
    <2> TAKE i \in 1 .. c
    <2>1. q[i] = CHOOSE m \in M : Rank(M, m) = i - 1  BY DEF Chronological, Rank
    <2> QED  BY <1>7, <2>1
  <1>9. q \in [1 .. c -> M]  BY <1>8 DEF Chronological
  <1>10. \A i, j \in 1 .. c : i < j => Before(q[i], q[j])
    <2> SUFFICES ASSUME NEW i \in 1 .. c, NEW j \in 1 .. c, i < j PROVE Before(q[i], q[j])
      OBVIOUS
    <2> HIDE DEF q, c
    <2>1. Rank(M, q[i]) < Rank(M, q[j])
      <3>1. Rank(M, q[i]) = i - 1 /\ Rank(M, q[j]) = j - 1  BY <1>8
      <3> QED  BY <3>1, <1>1
    <2>2. Rank(M, q[i]) \in Int /\ Rank(M, q[j]) \in Int  BY <1>8
    <2>3. q[i] = q[j] \/ Before(q[i], q[j]) \/ Before(q[j], q[i])  BY <1>8, BeforeTotal
    <2>4. Before(q[j], q[i]) => Rank(M, q[j]) < Rank(M, q[i])  BY <1>8, RankGrows
    <2> QED  BY <2>1, <2>2, <2>3, <2>4
  <1>11. \A m \in M : \E i \in 1 .. c : q[i] = m
    <2> TAKE m \in M
    <2>1. Rank(M, m) \in 0 .. c - 1 /\ Rank(M, m) + 1 \in 1 .. c  BY <1>1, <1>2
    <2>2. Rank(M, q[Rank(M, m) + 1]) = Rank(M, m) /\ q[Rank(M, m) + 1] \in M  BY <1>8, <2>1
    <2>3. q[Rank(M, m) + 1] = m  BY <1>3, <2>2
    <2> QED  BY <2>1, <2>3
  <1> QED  BY <1>1, <1>9, <1>10, <1>11

-----------------------------------------------------------------------------
(* Histories and requests *)

\* A call that has an id of its own is the only one with that id,
LEMMA OwnIds ==
    ASSUME NEW c \in AnyCall, NEW d \in AnyCall, <<c[3], c[2]>> = <<d[3], d[2]>>, c[3] # 0
    PROVE  c = d
  <1>1. c[3] = d[3] /\ c[2] = d[2]  OBVIOUS
  <1>2. c[3] = c[1] /\ d[3] = d[1]  BY <1>1 DEF AnyCall
  <1>3. c = <<c[1], c[2], c[3]>> /\ d = <<d[1], d[2], d[3]>>  BY DEF AnyCall
  <1> QED  BY <1>1, <1>2, <1>3

\* and calls in common have ids in common.
LEMMA CommonIds ==
    ASSUME NEW A, NEW B, NEW c, c \in A, c \in B
    PROVE  Ids(A) \cap Ids(B) # {}
  <1>1. <<c[3], c[2]>> \in Ids(A) /\ <<c[3], c[2]>> \in Ids(B)  BY DEF Ids
  <1> QED  BY <1>1

\* An answer that is not stray is to an earlier call.
LEMMA NoStrayMeans ==
    ASSUME NEW S, NEW q \in Seq(S)
    PROVE  /\ NoStrayAnswer(q) <=> NoStrayOf(q, TRUE)
           /\ NoStrayOwnAnswer(q) <=> NoStrayOf(q, FALSE)
  <1>1. ASSUME NEW i \in 1 .. Len(q)
        PROVE  CallsMade(SubSeq(q, 1, i - 1)) = UNION {q[k].calls : k \in 1 .. i - 1}
    <2> DEFINE p == SubSeq(q, 1, i - 1)
    <2>1. Len(q) \in Nat /\ i \in Int  OBVIOUS
    <2>2. Len(p) = i - 1 /\ p \in Seq(S)  BY <2>1
    <2>3. \A k \in 1 .. i - 1 : p[k] = q[k]  BY <2>1
    <2>4. DOMAIN p = 1 .. i - 1  BY <2>2
    <2> HIDE DEF p
    <2>5. CallsMade(p) = UNION {q[k].calls : k \in 1 .. i - 1}  BY <2>3, <2>4 DEF CallsMade
    <2> QED  BY <2>5 DEF p
  <1>2. DOMAIN q = 1 .. Len(q)  OBVIOUS
  <1>3. ASSUME NEW i \in 1 .. Len(q)
        PROVE  /\ q[i].answers \subseteq CallsMade(SubSeq(q, 1, i - 1))
                     <=> \A c \in q[i].answers : \E k \in 1 .. i - 1 : c \in q[k].calls
               /\ {c \in q[i].answers : c[3] # 0} \subseteq CallsMade(SubSeq(q, 1, i - 1))
                     <=> \A c \in q[i].answers : c[3] # 0 => \E k \in 1 .. i - 1 : c \in q[k].calls
    BY <1>1
  <1>4. NoStrayAnswer(q) <=> NoStrayOf(q, TRUE)  BY <1>2, <1>3 DEF NoStrayAnswer, NoStrayOf
  <1>5. NoStrayOwnAnswer(q) <=> NoStrayOf(q, FALSE)  BY <1>2, <1>3 DEF NoStrayOwnAnswer, NoStrayOf
  <1> QED  BY <1>4, <1>5

\* When no call is left, all calls are answered.
LEMMA FollowMeans == ASSUME NEW q PROVE Follow(q, {}) <=> AnswersFollow(q)
  BY DEF Follow, AnswersFollow

\* A call comes before its answer.
LEMMA CallerBefore ==
    ASSUME NEW n \in Nat, NEW M, Among(M, n), NEW a \in M, NEW m \in M,
           NEW c \in a.calls, c \in m.answers
    PROVE  Before(a, m) /\ m.role = "tool" /\ a.role = "assistant" /\ m.answers = {c}
  <1>1. Proper(a) /\ Proper(m)  BY DEF Among
  <1>2. m.role = "tool" /\ a.role = "assistant"  BY <1>1 DEF Proper
  <1>3. PICK d \in AnyCall : m.answers = {d} /\ d[1] < m.id  BY <1>1, <1>2 DEF Proper
  <1>4. c = d /\ c[1] = a.id  BY <1>1, <1>3 DEF Proper
  <1>5. a.at = 2 * a.id /\ m.at = 2 * m.id  BY <1>1, <1>2 DEF Proper
  <1>6. a.id \in Int /\ m.id \in Int  BY <1>1 DEF Proper, Row
  <1> QED  BY <1>2, <1>3, <1>4, <1>5, <1>6 DEF Before

\* A history is of the messages, each once,
LEMMA HistoryTyped ==
    ASSUME NEW n \in Nat, NEW M, Among(M, n)
    PROVE  /\ Chronological(M) \in Seq(Messages(n)) /\ Chronological(M) \in Seq(M)
           /\ Len(Chronological(M)) = Cardinality(M) /\ Len(Chronological(M)) \in Nat
           /\ DOMAIN Chronological(M) = 1 .. Len(Chronological(M))
           /\ \A i \in 1 .. Len(Chronological(M)) : Chronological(M)[i] \in M
           /\ \A m \in M : \E i \in 1 .. Len(Chronological(M)) : Chronological(M)[i] = m
  <1> DEFINE q == Chronological(M)
             c == Cardinality(M)
  <1>1. c \in Nat /\ q \in [1 .. c -> M] /\ \A m \in M : \E i \in 1 .. c : q[i] = m
    BY HistoryOrdered
  <1> HIDE DEF q, c
  <1>2. q \in Seq(M) /\ Len(q) = c /\ DOMAIN q = 1 .. c  BY <1>1
  <1>3. \A m \in M : m \in Messages(n)  BY DEF Among, Messages, Proper
  <1>4. \A i \in 1 .. c : q[i] \in Messages(n)  BY <1>1, <1>3
  <1>5. q \in Seq(Messages(n))  BY <1>1, <1>2, <1>4
  <1> QED  BY <1>1, <1>2, <1>5 DEF q, c

\* and they come in their order.
LEMMA HistoryBefore ==
    ASSUME NEW n \in Nat, NEW M, Among(M, n),
           NEW i \in 1 .. Len(Chronological(M)), NEW j \in 1 .. Len(Chronological(M))
    PROVE  i < j <=> Before(Chronological(M)[i], Chronological(M)[j])
  <1> DEFINE q == Chronological(M)
  <1>1. /\ i \in 1 .. Cardinality(M) /\ j \in 1 .. Cardinality(M) /\ Cardinality(M) \in Nat
        /\ q[i] \in M /\ q[j] \in M
    BY HistoryTyped
  <1>2. i < j => Before(q[i], q[j])  BY <1>1, HistoryOrdered
  <1>3. j < i => Before(q[j], q[i])  BY <1>1, HistoryOrdered
  <1>4. ~Before(q[i], q[i]) /\ ~(Before(q[i], q[j]) /\ Before(q[j], q[i]))
    BY <1>1, BeforeTotal
  <1>5. i < j \/ j < i \/ i = j  OBVIOUS
  <1> HIDE DEF q
  <1> QED  BY <1>2, <1>3, <1>4, <1>5 DEF q

\* What is read of a conversation is as sound as its messages.
LEMMA SoundHistory ==
    ASSUME NEW n \in Nat, NEW M, Among(M, n), NEW rest, InOrder(M, rest)
    PROVE  NoStrayAnswer(Chronological(M)) /\ Follow(Chronological(M), rest)
  <1> DEFINE q == Chronological(M)
  <1>1. /\ q \in Seq(M) /\ Len(q) \in Nat /\ DOMAIN q = 1 .. Len(q)
        /\ \A i \in 1 .. Len(q) : q[i] \in M
        /\ \A m \in M : \E i \in 1 .. Len(q) : q[i] = m
    BY HistoryTyped
  <1>2. \A i, j \in 1 .. Len(q) : i < j <=> Before(q[i], q[j])  BY HistoryBefore
  <1> HIDE DEF q
  <1>3. ASSUME NEW i \in 1 .. Len(q), q[i].role = "tool", NEW c \in q[i].answers
        PROVE  \E k \in 1 .. i - 1 : c \in q[k].calls
    <2>1. PICK a \in M : q[i].answers \subseteq a.calls  BY <1>1, <1>3 DEF InOrder
    <2>2. c \in a.calls /\ q[i] \in M  BY <1>1, <1>3, <2>1
    <2>3. Before(a, q[i])  BY <1>3, <2>2, CallerBefore
    <2>4. PICK k \in 1 .. Len(q) : q[k] = a  BY <1>1
    <2>5. k < i  BY <1>2, <2>3, <2>4
    <2> QED  BY <1>1, <2>2, <2>4, <2>5
  <1>4. NoStrayAnswer(q)  BY <1>1, <1>3, NoStrayMeans DEF NoStrayOf
  <1>5. ASSUME NEW i \in 1 .. Len(q), NEW c \in q[i].calls, c \notin rest
        PROVE  \E j \in i + 1 .. Len(q) :
                  q[j].answers = {c} /\ \A k \in i + 1 .. j : q[k].role = "tool"
    <2>1. q[i] \in M  BY <1>1
    <2>2. PICK m \in M : m.role = "tool" /\ m.answers = {c}  BY <1>5, <2>1 DEF InOrder
    <2>3. Before(q[i], m) /\ q[i].role = "assistant"  BY <1>5, <2>1, <2>2, CallerBefore
    <2>4. PICK j \in 1 .. Len(q) : q[j] = m  BY <1>1
    <2>5. i < j  BY <1>2, <2>3, <2>4
    <2>6. PICK a \in M : /\ m.answers \subseteq a.calls
                         /\ \A k \in M : Before(a, k) /\ Before(k, m) => k.role = "tool"
      BY <2>2 DEF InOrder
    <2>7. a = q[i]
      <3>1. c \in a.calls /\ c \in q[i].calls  BY <1>5, <2>2, <2>6
      <3>2. c[1] = a.id /\ c[1] = q[i].id  BY <2>1, <3>1 DEF Among, Proper
      <3> QED  BY <2>1, <3>2 DEF Among
    <2>8. \A k \in i + 1 .. j : q[k].role = "tool"
      <3> TAKE k \in i + 1 .. j
      <3>1. k \in 1 .. Len(q) /\ i < k  BY <1>1
      <3>2. CASE k = j  BY <2>2, <2>4, <3>2
      <3>3. CASE k # j
        <4>1. k < j  BY <3>3
        <4>2. Before(q[i], q[k]) /\ Before(q[k], m) /\ q[k] \in M  BY <1>1, <1>2, <2>4, <3>1, <4>1
        <4> QED  BY <2>6, <2>7, <4>2
      <3> QED  BY <3>2, <3>3
    <2> QED  BY <1>1, <2>2, <2>4, <2>5, <2>8
  <1>6. ASSUME NEW i \in 1 .. Len(q), q[i].calls \cap rest # {}, NEW k \in i + 1 .. Len(q)
        PROVE  q[k].role = "tool"
    <2>1. k \in 1 .. Len(q) /\ i < k  BY <1>1
    <2>2. q[i] \in M /\ q[k] \in M /\ Before(q[i], q[k])  BY <1>1, <1>2, <2>1
    <2> QED  BY <1>6, <2>2 DEF InOrder
  <1>7. Follow(q, rest)
    <2>1. \A i \in 1 .. Len(q) : \A c \in q[i].calls \ rest :
             \E j \in i + 1 .. Len(q) :
                q[j].answers = {c} /\ \A k \in i + 1 .. j : q[k].role = "tool"
      BY <1>5
    <2> QED  BY <1>1, <1>6, <2>1 DEF Follow
  <1> QED  BY <1>4, <1>7 DEF q

\* In a history no answer is stray once those to no call are passed off.
LEMMA SanitizedHistory ==
    ASSUME NEW n \in Nat, NEW q \in Seq(Messages(n))
    PROVE  /\ Sanitize(q) \in Seq(Messages(n)) /\ Len(Sanitize(q)) = Len(q)
           /\ \A i \in 1 .. Len(q) :
                 /\ Sanitize(q)[i].calls = q[i].calls
                 /\ Sanitize(q)[i].role = "tool" =>
                       Sanitize(q)[i] = q[i] /\ Ids(q[i].answers) \cap Ids(CallsMade(q)) # {}
                 /\ q[i].role # "tool" => Sanitize(q)[i] = q[i]
  <1> DEFINE p == Sanitize(q)
             Stray(i) == q[i].role = "tool" /\ Ids(q[i].answers) \cap Ids(CallsMade(q)) = {}
  <1>1. DOMAIN q = 1 .. Len(q) /\ Len(q) \in Nat
        /\ \A i \in 1 .. Len(q) : q[i] \in Messages(n)
    OBVIOUS
  <1>2. \A i \in 1 .. Len(q) :
           p[i] = IF Stray(i) THEN [q[i] EXCEPT !.role = "system", !.answers = {}] ELSE q[i]
    BY <1>1 DEF Sanitize
  <1>3. DOMAIN p = 1 .. Len(q)  BY <1>1 DEF Sanitize
  <1>4. ASSUME NEW m \in Messages(n), m.role = "tool"
        PROVE  LET s == [m EXCEPT !.role = "system", !.answers = {}]
               IN  s \in Messages(n) /\ s.calls = m.calls /\ s.role = "system"
    <2> DEFINE s == [m EXCEPT !.role = "system", !.answers = {}]
    <2>1. m \in Row /\ Proper(m) /\ m.id <= n  BY DEF Messages
    <2>2. /\ s \in Row /\ s.id = m.id /\ s.at = m.at /\ s.calls = m.calls /\ s.about = m.about
          /\ s.role = "system" /\ s.answers = {}
      BY <2>1 DEF Row
    <2>3. m.calls = {}  BY <1>4, <2>1 DEF Proper
    <2> HIDE DEF s
    <2>4. Proper(s)  BY <2>1, <2>2, <2>3 DEF Proper
    <2> QED  BY <2>1, <2>2, <2>4 DEF Messages, s
  <1> HIDE DEF p
  <1>5. ASSUME NEW i \in 1 .. Len(q)
        PROVE  /\ p[i] \in Messages(n)
               /\ p[i].calls = q[i].calls
               /\ p[i].role = "tool" => p[i] = q[i] /\ Ids(q[i].answers) \cap Ids(CallsMade(q)) # {}
               /\ q[i].role # "tool" => p[i] = q[i]
    <2>1. CASE Stray(i)
      <3>1. p[i] = [q[i] EXCEPT !.role = "system", !.answers = {}]  BY <1>2, <2>1
      <3>2. q[i] \in Messages(n) /\ q[i].role = "tool"  BY <1>1, <2>1
      <3> QED  BY <1>4, <3>1, <3>2
    <2>2. CASE ~Stray(i)
      <3>1. p[i] = q[i]  BY <1>2, <2>2
      <3> QED  BY <1>1, <2>2, <3>1
    <2> QED  BY <2>1, <2>2
  <1>6. p = [i \in 1 .. Len(q) |-> p[i]]  BY <1>1 DEF p, Sanitize
  <1>7. p \in [1 .. Len(q) -> Messages(n)]  BY <1>5, <1>6
  <1>8. p \in Seq(Messages(n)) /\ Len(p) = Len(q)  BY <1>1, <1>3, <1>7
  <1> QED  BY <1>5, <1>8 DEF p

\* What is read and sanitised has no stray answer to a call with an id of its own,
\* whoever else wrote to the conversation,
LEMMA SanitizedIsSound ==
    ASSUME NEW n \in Nat, NEW M, Among(M, n)
    PROVE  NoStrayOf(Sanitize(Chronological(M)), FALSE)
  <1> DEFINE q == Chronological(M)
             p == Sanitize(q)
  <1>1. /\ q \in Seq(Messages(n)) /\ Len(q) \in Nat /\ DOMAIN q = 1 .. Len(q)
        /\ \A i \in 1 .. Len(q) : q[i] \in M
    BY HistoryTyped
  <1>2. \A i, j \in 1 .. Len(q) : i < j <=> Before(q[i], q[j])  BY HistoryBefore
  <1> HIDE DEF q
  <1>3. /\ p \in Seq(Messages(n)) /\ Len(p) = Len(q)
        /\ \A i \in 1 .. Len(q) :
              /\ p[i].calls = q[i].calls
              /\ p[i].role = "tool" =>
                    p[i] = q[i] /\ Ids(q[i].answers) \cap Ids(CallsMade(q)) # {}
    BY <1>1, SanitizedHistory
  <1> HIDE DEF p
  <1>4. ASSUME NEW i \in 1 .. Len(p), p[i].role = "tool", NEW c \in p[i].answers, c[3] # 0
        PROVE  \E k \in 1 .. i - 1 : c \in p[k].calls
    <2>1. i \in 1 .. Len(q) /\ q[i].role = "tool" /\ c \in q[i].answers /\ q[i] \in M
      BY <1>1, <1>3, <1>4
    <2>2. q[i].answers = {c} /\ c \in AnyCall  BY <2>1 DEF Among, Proper
    <2>3. PICK d \in CallsMade(q) : <<c[3], c[2]>> = <<d[3], d[2]>>  BY <1>3, <1>4, <2>1, <2>2 DEF Ids
    <2>4. PICK k \in 1 .. Len(q) : d \in q[k].calls  BY <1>1 DEF CallsMade
    <2>5. d \in AnyCall  BY <1>1, <2>4 DEF Among, Proper, Row
    <2>6. c = d  BY <1>4, <2>2, <2>3, <2>5, OwnIds
    <2>7. Before(q[k], q[i])  BY <1>1, <2>1, <2>4, <2>6, CallerBefore
    <2>8. k < i  BY <1>2, <2>1, <2>7
    <2> QED  BY <1>1, <1>3, <2>4, <2>6, <2>8
  <1> QED  BY <1>4 DEF NoStrayOf, p, q

\* and has none more when it is sanitised again.
LEMMA SanitizedAgain ==
    ASSUME NEW n \in Nat, NEW q \in Seq(Messages(n)), NEW all \in BOOLEAN, NoStrayOf(q, all)
    PROVE  NoStrayOf(Sanitize(q), all)
  <1> DEFINE p == Sanitize(q)
  <1>1. /\ Len(p) = Len(q) /\ Len(q) \in Nat
        /\ \A i \in 1 .. Len(q) : p[i].calls = q[i].calls /\ (p[i].role = "tool" => p[i] = q[i])
    BY SanitizedHistory
  <1> HIDE DEF p
  <1>2. ASSUME NEW i \in 1 .. Len(p), p[i].role = "tool", NEW c \in p[i].answers, all \/ c[3] # 0
        PROVE  \E k \in 1 .. i - 1 : c \in p[k].calls
    <2>1. i \in 1 .. Len(q) /\ q[i].role = "tool" /\ c \in q[i].answers  BY <1>1, <1>2
    <2>2. PICK k \in 1 .. i - 1 : c \in q[k].calls  BY <1>2, <2>1 DEF NoStrayOf
    <2>3. k \in 1 .. Len(q)  BY <1>1, <2>1
    <2> QED  BY <1>1, <2>2, <2>3
  <1> QED  BY <1>2 DEF NoStrayOf, p

\* A sound history is left as it is.
LEMMA SoundIsLeft ==
    ASSUME NEW n \in Nat, NEW q \in Seq(Messages(n)), NoStrayOf(q, TRUE)
    PROVE  Sanitize(q) = q
  <1>1. DOMAIN q = 1 .. Len(q) /\ \A i \in 1 .. Len(q) : q[i] \in Messages(n)  OBVIOUS
  <1>2. ASSUME NEW i \in 1 .. Len(q), q[i].role = "tool"
        PROVE  Ids(q[i].answers) \cap Ids(CallsMade(q)) # {}
    <2>1. PICK c \in AnyCall : q[i].answers = {c}  BY <1>1, <1>2 DEF Messages, Proper
    <2>2. PICK k \in 1 .. i - 1 : c \in q[k].calls  BY <1>2, <2>1 DEF NoStrayOf
    <2>3. k \in DOMAIN q  BY <1>1
    <2>4. c \in q[i].answers /\ c \in CallsMade(q)  BY <2>1, <2>2, <2>3 DEF CallsMade
    <2> QED  BY <2>4, CommonIds
  <1>3. Sanitize(q) = [i \in DOMAIN q |-> q[i]]  BY <1>1, <1>2 DEF Sanitize
  <1> QED  BY <1>1, <1>3

\* A message is added to what is asked.
LEMMA NoStrayAdded ==
    ASSUME NEW S, NEW q \in Seq(S), NEW all \in BOOLEAN, NoStrayOf(q, all), NEW m \in S,
           m.role = "tool" => \A c \in m.answers : \E k \in 1 .. Len(q) : c \in q[k].calls
    PROVE  NoStrayOf(Append(q, m), all)
  <1> DEFINE p == Append(q, m)
  <1>1. /\ p \in Seq(S) /\ Len(p) = Len(q) + 1 /\ p[Len(p)] = m /\ Len(q) \in Nat
        /\ \A i \in 1 .. Len(q) : p[i] = q[i]
    OBVIOUS
  <1> HIDE DEF p
  <1>2. ASSUME NEW i \in 1 .. Len(p), p[i].role = "tool", NEW c \in p[i].answers, all \/ c[3] # 0
        PROVE  \E k \in 1 .. i - 1 : c \in p[k].calls
    <2>1. CASE i = Len(p)
      <3>1. PICK k \in 1 .. Len(q) : c \in q[k].calls  BY <1>1, <1>2, <2>1
      <3> QED  BY <1>1, <2>1, <3>1
    <2>2. CASE i # Len(p)
      <3>1. i \in 1 .. Len(q) /\ p[i] = q[i]  BY <1>1, <2>2
      <3>2. PICK k \in 1 .. i - 1 : c \in q[k].calls  BY <1>2, <3>1 DEF NoStrayOf
      <3>3. k \in 1 .. Len(q)  BY <1>1, <3>1
      <3> QED  BY <1>1, <3>2, <3>3
    <2> QED  BY <2>1, <2>2
  <1> QED  BY <1>2 DEF NoStrayOf, p

\* A message that calls tools leaves its calls to answer,
LEMMA FollowCalls ==
    ASSUME NEW n \in Nat, NEW q \in Seq(Messages(n)), Follow(q, {}), NEW m, NEW rest,
           m.calls = rest, \A c \in rest : n < c[1]
    PROVE  Follow(Append(q, m), rest)
  <1> DEFINE p == Append(q, m)
  <1>1. /\ DOMAIN p = 1 .. Len(q) + 1 /\ Len(p) = Len(q) + 1 /\ p[Len(q) + 1] = m /\ Len(q) \in Nat
        /\ \A i \in 1 .. Len(q) : p[i] = q[i] /\ q[i] \in Messages(n)
        /\ DOMAIN q = 1 .. Len(q)
    OBVIOUS
  <1> HIDE DEF p
  <1>2. \A i \in 1 .. Len(q) : q[i].calls \cap rest = {}
    <2> SUFFICES ASSUME NEW i \in 1 .. Len(q), NEW c \in q[i].calls, c \in rest PROVE FALSE
      OBVIOUS
    <2>1. q[i] \in Messages(n)  BY <1>1
    <2>2. c[1] = q[i].id /\ q[i].id <= n /\ q[i].id \in Int /\ n < c[1]
      BY <2>1 DEF Messages, Proper, Row
    <2> QED  BY <2>2
  <1>3. ASSUME NEW i \in 1 .. Len(q) + 1
        PROVE  /\ \A c \in p[i].calls \ rest :
                     \E j \in i + 1 .. Len(p) :
                        p[j].answers = {c} /\ \A k \in i + 1 .. j : p[k].role = "tool"
               /\ p[i].calls \cap rest # {} => \A k \in i + 1 .. Len(p) : p[k].role = "tool"
    <2>1. CASE i = Len(q) + 1
      <3>1. p[i].calls = rest /\ i + 1 > Len(p)  BY <1>1, <2>1
      <3> QED  BY <1>1, <3>1, <2>1
    <2>2. CASE i # Len(q) + 1
      <3>1. i \in 1 .. Len(q) /\ p[i] = q[i]  BY <1>1, <2>2
      <3>2. ASSUME NEW c \in p[i].calls
            PROVE  \E j \in i + 1 .. Len(p) :
                      p[j].answers = {c} /\ \A k \in i + 1 .. j : p[k].role = "tool"
        <4>1. c \in q[i].calls \ {}  BY <3>1, <3>2
        <4>2. PICK j \in i + 1 .. Len(q) :
                 q[j].answers = {c} /\ \A k \in i + 1 .. j : q[k].role = "tool"
          BY <1>1, <3>1, <4>1 DEF Follow
        <4>3. \A k \in i + 1 .. j : k \in 1 .. Len(q) /\ p[k] = q[k]  BY <1>1, <3>1, <4>2
        <4>4. j \in i + 1 .. Len(p) /\ p[j] = q[j]  BY <1>1, <3>1, <4>2
        <4> QED  BY <4>2, <4>3, <4>4
      <3>3. p[i].calls \cap rest = {}  BY <1>2, <3>1
      <3> QED  BY <3>2, <3>3
    <2> QED  BY <2>1, <2>2
  <1> QED  BY <1>1, <1>3 DEF Follow, p

\* and the answer to one of them leaves the others.
LEMMA FollowAnswer ==
    ASSUME NEW S, NEW q \in Seq(S), NEW rest, Follow(q, rest), NEW c \in rest, NEW m,
           m.calls = {}, m.role = "tool", m.answers = {c}
    PROVE  Follow(Append(q, m), rest \ {c})
  <1> DEFINE p == Append(q, m)
  <1>1. /\ DOMAIN p = 1 .. Len(q) + 1 /\ Len(p) = Len(q) + 1 /\ p[Len(q) + 1] = m /\ Len(q) \in Nat
        /\ \A i \in 1 .. Len(q) : p[i] = q[i]
        /\ DOMAIN q = 1 .. Len(q)
    OBVIOUS
  <1> HIDE DEF p
  <1>3. ASSUME NEW i \in 1 .. Len(q) + 1
        PROVE  /\ \A d \in p[i].calls \ (rest \ {c}) :
                     \E j \in i + 1 .. Len(p) :
                        p[j].answers = {d} /\ \A k \in i + 1 .. j : p[k].role = "tool"
               /\ p[i].calls \cap (rest \ {c}) # {} =>
                     \A k \in i + 1 .. Len(p) : p[k].role = "tool"
    <2>1. CASE i = Len(q) + 1
      <3>1. p[i].calls = {}  BY <1>1, <2>1
      <3> QED  BY <3>1
    <2>2. CASE i # Len(q) + 1
      <3>1. i \in 1 .. Len(q) /\ p[i] = q[i]  BY <1>1, <2>2
      <3>2. ASSUME p[i].calls \cap rest # {}
            PROVE  \A k \in i + 1 .. Len(p) : p[k].role = "tool"
        <4> TAKE k \in i + 1 .. Len(p)
        <4>1. \A l \in i + 1 .. Len(q) : q[l].role = "tool"  BY <1>1, <3>1, <3>2 DEF Follow
        <4>2. CASE k = Len(q) + 1  BY <1>1, <4>2
        <4>3. CASE k # Len(q) + 1
          <5>1. k \in i + 1 .. Len(q) /\ p[k] = q[k]  BY <1>1, <3>1, <4>3
          <5> QED  BY <4>1, <5>1
        <4> QED  BY <4>2, <4>3
      <3>3. ASSUME NEW d \in p[i].calls, d \notin rest \ {c}
            PROVE  \E j \in i + 1 .. Len(p) :
                      p[j].answers = {d} /\ \A k \in i + 1 .. j : p[k].role = "tool"
        <4>1. CASE d = c
          <5>1. p[i].calls \cap rest # {}  BY <3>3, <4>1
          <5>2. Len(p) \in i + 1 .. Len(p) /\ p[Len(p)].answers = {d}  BY <1>1, <3>1, <4>1
          <5> QED  BY <3>2, <5>1, <5>2
        <4>2. CASE d # c
          <5>1. d \in q[i].calls \ rest  BY <3>1, <3>3, <4>2
          <5>2. PICK j \in i + 1 .. Len(q) :
                   q[j].answers = {d} /\ \A k \in i + 1 .. j : q[k].role = "tool"
            BY <1>1, <3>1, <5>1 DEF Follow
          <5>3. \A k \in i + 1 .. j : k \in 1 .. Len(q) /\ p[k] = q[k]  BY <1>1, <3>1, <5>2
          <5>4. j \in i + 1 .. Len(p) /\ p[j] = q[j]  BY <1>1, <3>1, <5>2
          <5> QED  BY <5>2, <5>3, <5>4
        <4> QED  BY <4>1, <4>2
      <3> QED  BY <3>2, <3>3
    <2> QED  BY <2>1, <2>2
  <1> QED  BY <1>1, <1>3 DEF Follow, p

-----------------------------------------------------------------------------
(* The messages that a summary takes *)

\* Of numbers up to n there is a greatest.
LEMMA GreatestUpTo ==
    ASSUME NEW n \in Nat, NEW T, T \subseteq 1 .. n, T # {}
    PROVE  \E i \in T : \A j \in T : j <= i
  <1> DEFINE D == {n - i : i \in T}
  <1>1. \A i \in T : i \in Int /\ 1 <= i /\ i <= n /\ n - i \in Nat  OBVIOUS
  <1>2. D \subseteq Nat /\ D # {}
    <2>1. \A d \in D : d \in Nat  BY <1>1
    <2>2. PICK i \in T : TRUE  OBVIOUS
    <2>3. n - i \in D  OBVIOUS
    <2> QED  BY <2>1, <2>3
  <1>3. PICK d \in D : \A e \in D : d <= e  BY <1>2, LeastNat
  <1>4. PICK i \in T : d = n - i  BY <1>3
  <1>5. \A j \in T : n - i <= n - j  BY <1>3, <1>4
  <1> QED  BY <1>1, <1>4, <1>5

\* Where the messages are split: at a call before the recent ones if its answer is among these.
LEMMA SplitMeans ==
    ASSUME NEW S, NEW q \in Seq(S)
    PROVE  LET split == IF Len(q) <= KeepRecent THEN 0 ELSE Len(q) - KeepRecent
               parted == Parted(q, split)
           IN  /\ split \in 0 .. Len(q)
               /\ SafeSplit(q) \in 0 .. split
               /\ parted = {} => SafeSplit(q) = split
               /\ parted # {} => /\ SafeSplit(q) + 1 \in parted
                                 /\ \A j \in parted : j <= SafeSplit(q) + 1
  <1> DEFINE split == IF Len(q) <= KeepRecent THEN 0 ELSE Len(q) - KeepRecent
             parted == Parted(q, split)
  <1>1. Len(q) \in Nat /\ KeepRecent \in Nat  BY ConversationsAssumption
  <1>2. split \in 0 .. Len(q) /\ split \in Nat  BY <1>1
  <1>3. parted \subseteq 1 .. split  BY DEF Parted
  <1> HIDE DEF split, parted
  <1>4. CASE parted = {}
    <2>1. SafeSplit(q) = split  BY <1>4 DEF SafeSplit, split, parted
    <2> QED  BY <1>2, <1>4, <2>1 DEF split, parted
  <1>5. CASE parted # {}
    <2> DEFINE i == CHOOSE i \in parted : \A j \in parted : j <= i
    <2>1. i \in parted /\ \A j \in parted : j <= i  BY <1>2, <1>3, <1>5, GreatestUpTo
    <2>2. SafeSplit(q) = i - 1  BY <1>5 DEF SafeSplit, split, parted
    <2> HIDE DEF i
    <2>3. i \in 1 .. split  BY <1>3, <2>1
    <2>4. SafeSplit(q) \in 0 .. split /\ SafeSplit(q) + 1 = i  BY <1>2, <2>2, <2>3
    <2> QED  BY <1>2, <1>5, <2>1, <2>4 DEF split, parted
  <1> QED  BY <1>4, <1>5

\* No answer that is kept is to a call that is summarised.
LEMMA SplitIsSafe ==
    ASSUME NEW n \in Nat, NEW M, Among(M, n), InOrder(M, {}),
           NEW i \in 1 .. SafeSplit(Chronological(M)),
           NEW j \in SafeSplit(Chronological(M)) + 1 .. Len(Chronological(M))
    PROVE  Chronological(M)[i].calls \cap Chronological(M)[j].answers = {}
  <1> DEFINE q == Chronological(M)
             s == SafeSplit(q)
             split == IF Len(q) <= KeepRecent THEN 0 ELSE Len(q) - KeepRecent
             parted == Parted(q, split)
  <1>1. /\ q \in Seq(M) /\ Len(q) \in Nat
        /\ \A k \in 1 .. Len(q) : q[k] \in M
        /\ \A m \in M : \E k \in 1 .. Len(q) : q[k] = m
    BY HistoryTyped
  <1>2. \A k, l \in 1 .. Len(q) : k < l <=> Before(q[k], q[l])  BY HistoryBefore
  <1>3. /\ split \in 0 .. Len(q) /\ s \in 0 .. split
        /\ parted = {} => s = split
        /\ parted # {} => s + 1 \in parted /\ \A k \in parted : k <= s + 1
    BY <1>1, SplitMeans
  <1>4. parted = {k \in 1 .. split : Ids(q[k].calls) \cap Ids(Answered(q, split)) # {}}
    BY DEF Parted
  <1>5. Answered(q, split) = UNION {q[k].answers : k \in split + 1 .. Len(q)}  BY DEF Answered
  <1>6. i \in 1 .. s /\ j \in s + 1 .. Len(q)  OBVIOUS
  <1> HIDE DEF q, s, split, parted
  <1>7. i \in 1 .. Len(q) /\ i \in 1 .. split /\ j \in 1 .. Len(q) /\ i <= s /\ s < j
    BY <1>1, <1>3, <1>6
  <1> SUFFICES ASSUME NEW c \in q[i].calls, c \in q[j].answers PROVE FALSE  BY DEF q
  <1>8. CASE parted = {}
    <2>1. j \in split + 1 .. Len(q)  BY <1>3, <1>6, <1>8
    <2>2. c \in Answered(q, split)  BY <1>5, <2>1
    <2>3. i \in parted  BY <1>4, <1>7, <2>2, CommonIds
    <2> QED  BY <1>8, <2>3
  <1>9. CASE parted # {}
    <2> DEFINE h == s + 1
    <2>1. h \in 1 .. split /\ q[h].calls # {}
      <3>1. h \in 1 .. split /\ Ids(q[h].calls) # {}  BY <1>3, <1>4, <1>9
      <3> QED  BY <3>1 DEF Ids
    <2>2. h \in 1 .. Len(q) /\ q[h] \in M /\ q[i] \in M /\ q[j] \in M /\ i < h /\ h <= j
      <3>1. s \in Int /\ split \in Int /\ split <= Len(q) /\ i \in Int /\ j \in Int
        BY <1>1, <1>3, <1>7
      <3>2. h \in 1 .. Len(q)  BY <1>1, <2>1, <3>1
      <3>3. i < h /\ h <= j  BY <1>7, <3>1
      <3> QED  BY <1>1, <1>7, <3>2, <3>3
    <2>3. q[h].role = "assistant"  BY <2>1, <2>2 DEF Among, Proper
    <2>4. q[j].role = "tool" /\ q[j].answers = {c}  BY <2>2, CallerBefore
    <2>5. PICK a \in M : /\ q[j].answers \subseteq a.calls
                         /\ \A k \in M : Before(a, k) /\ Before(k, q[j]) => k.role = "tool"
      BY <2>2, <2>4 DEF InOrder
    <2>6. a = q[i]
      <3>1. c \in a.calls  BY <2>4, <2>5
      <3>2. c[1] = a.id /\ c[1] = q[i].id  BY <2>2, <3>1 DEF Among, Proper
      <3> QED  BY <2>2, <3>2 DEF Among
    <2>7. h # j  BY <2>3, <2>4
    <2>8. h < j  BY <1>7, <2>2, <2>7
    <2> HIDE DEF h
    <2>9. Before(q[i], q[h]) /\ Before(q[h], q[j])  BY <1>2, <1>7, <2>2, <2>8
    <2>10. q[h].role = "tool"  BY <2>2, <2>5, <2>6, <2>9
    <2> QED  BY <2>3, <2>10
  <1> QED  BY <1>8, <1>9

-----------------------------------------------------------------------------
(* Messages come to a conversation *)

\* Some of the messages are among those of more ids,
LEMMA AmongGrows ==
    ASSUME NEW n \in Nat, NEW M, Among(M, n), NEW S, S \subseteq M
    PROVE  Among(S, n) /\ Among(S, n + 1)
  <1>1. \A m \in M : m.id \in Int  BY DEF Among, Proper, Row
  <1> QED  BY <1>1 DEF Among

\* and so is one more of the next id.
LEMMA AmongAdded ==
    ASSUME NEW n \in Nat, NEW M, Among(M, n), NEW m, Proper(m), m.id = n + 1
    PROVE  Among(M \cup {m}, n + 1)
  <1>1. \A k \in M : k.id \in Int /\ k.id <= n  BY DEF Among, Proper, Row
  <1> QED  BY <1>1 DEF Among

\* A message just created is the last one.
LEMMA NewIsLast ==
    ASSUME NEW n \in Nat, NEW M, Among(M, n), NEW m, m.id = n + 1, m.at = 2 * (n + 1)
    PROVE  /\ \A k \in M : Before(k, m) /\ ~Before(m, k)
           /\ ~Before(m, m)
  <1>1. \A k \in M : k.id \in Int /\ k.id <= n /\ k.at \in Int /\ k.at <= 2 * k.id
    BY DEF Among, Proper, Row
  <1>2. \A k \in M : k.at <= 2 * n  BY <1>1
  <1> QED  BY <1>1, <1>2 DEF Before

\* A message of a user or a model leaves its calls to answer,
LEMMA OrderlyMore ==
    ASSUME NEW n \in Nat, NEW M, Among(M, n), InOrder(M, {}),
           NEW m, m.id = n + 1, m.at = 2 * (n + 1), m.role # "tool", \A c \in m.calls : c[1] = n + 1
    PROVE  InOrder(M \cup {m}, m.calls)
  <1>1. /\ \A k \in M : Before(k, m) /\ ~Before(m, k)
        /\ ~Before(m, m)
    BY NewIsLast
  <1>2. \A a \in M : a.calls \cap m.calls = {}
    <2>1. \A a \in M : a.id \in Int /\ a.id <= n /\ \A c \in a.calls : c[1] = a.id
      BY DEF Among, Proper, Row
    <2> QED  BY <2>1
  <1>3. ASSUME NEW x \in M \cup {m}, x.role = "tool"
        PROVE  \E a \in M \cup {m} :
                  /\ x.answers \subseteq a.calls
                  /\ \A k \in M \cup {m} : Before(a, k) /\ Before(k, x) => k.role = "tool"
    <2>1. x \in M  BY <1>3
    <2>2. PICK a \in M : /\ x.answers \subseteq a.calls
                         /\ \A k \in M : Before(a, k) /\ Before(k, x) => k.role = "tool"
      BY <1>3, <2>1 DEF InOrder
    <2> QED  BY <1>1, <2>1, <2>2
  <1>4. ASSUME NEW a \in M \cup {m}, NEW c \in a.calls, c \notin m.calls
        PROVE  \E x \in M \cup {m} : x.role = "tool" /\ x.answers = {c}
    <2>1. a \in M /\ c \notin {}  BY <1>4
    <2>2. PICK x \in M : x.role = "tool" /\ x.answers = {c}  BY <1>4, <2>1 DEF InOrder
    <2> QED  BY <2>2
  <1>5. ASSUME NEW a \in M \cup {m}, a.calls \cap m.calls # {}, NEW k \in M \cup {m}, Before(a, k)
        PROVE  k.role = "tool"
    <2>1. a = m  BY <1>2, <1>5
    <2> QED  BY <1>1, <1>5, <2>1
  <1>6. \A c \in m.calls : \E a \in M \cup {m} : c \in a.calls  OBVIOUS
  <1> QED  BY <1>3, <1>4, <1>5, <1>6 DEF InOrder

\* and the answer to one of them leaves the others.
LEMMA OrderlyAnswer ==
    ASSUME NEW n \in Nat, NEW M, Among(M, n), NEW rest, InOrder(M, rest), NEW c \in rest,
           NEW m, m.id = n + 1, m.at = 2 * (n + 1), m.role = "tool", m.calls = {}, m.answers = {c}
    PROVE  InOrder(M \cup {m}, rest \ {c})
  <1>1. /\ \A k \in M : Before(k, m) /\ ~Before(m, k)
        /\ ~Before(m, m)
    BY NewIsLast
  <1>2. PICK b \in M : c \in b.calls  BY DEF InOrder
  <1>3. \A k \in M : Before(b, k) => k.role = "tool"
    <2>1. b.calls \cap rest # {}  BY <1>2
    <2> QED  BY <2>1 DEF InOrder
  <1>4. ASSUME NEW x \in M \cup {m}, x.role = "tool"
        PROVE  \E a \in M \cup {m} :
                  /\ x.answers \subseteq a.calls
                  /\ \A k \in M \cup {m} : Before(a, k) /\ Before(k, x) => k.role = "tool"
    <2>1. CASE x = m  BY <1>2, <1>3, <2>1
    <2>2. CASE x \in M
      <3>1. PICK a \in M : /\ x.answers \subseteq a.calls
                           /\ \A k \in M : Before(a, k) /\ Before(k, x) => k.role = "tool"
        BY <1>4, <2>2 DEF InOrder
      <3> QED  BY <3>1
    <2> QED  BY <2>1, <2>2
  <1>5. ASSUME NEW a \in M \cup {m}, NEW d \in a.calls, d \notin rest \ {c}
        PROVE  \E x \in M \cup {m} : x.role = "tool" /\ x.answers = {d}
    <2>1. CASE d = c  BY <2>1
    <2>2. CASE d # c
      <3>1. a \in M /\ d \notin rest  BY <1>5, <2>2
      <3>2. PICK x \in M : x.role = "tool" /\ x.answers = {d}  BY <1>5, <3>1 DEF InOrder
      <3> QED  BY <3>2
    <2> QED  BY <2>1, <2>2
  <1>6. ASSUME NEW a \in M \cup {m}, a.calls \cap (rest \ {c}) # {}, NEW k \in M \cup {m}, Before(a, k)
        PROVE  k.role = "tool"
    <2>1. a \in M /\ a.calls \cap rest # {}  BY <1>6
    <2>2. CASE k \in M  BY <1>6, <2>1, <2>2 DEF InOrder
    <2>3. CASE k = m  BY <2>3
    <2> QED  BY <2>2, <2>3
  <1>7. \A d \in rest \ {c} : \E a \in M \cup {m} : d \in a.calls
    <2> TAKE d \in rest \ {c}
    <2>1. PICK a \in M : d \in a.calls  BY DEF InOrder
    <2> QED  BY <2>1
  <1> QED  BY <1>4, <1>5, <1>6, <1>7 DEF InOrder

\* The messages that a summary takes
Older(M) == {Chronological(M)[i] : i \in 1 .. SafeSplit(Chronological(M))}

\* A summary leaves what is kept as orderly as it was.
LEMMA OrderlySummary ==
    ASSUME NEW n \in Nat, NEW M, Among(M, n), InOrder(M, {}),
           NEW m, m.role = "system", m.calls = {},
           \A k \in M \ Older(M) : Before(m, k) /\ ~Before(k, m)
    PROVE  InOrder((M \ Older(M)) \cup {m}, {})
  <1> DEFINE q == Chronological(M)
             s == SafeSplit(q)
             D == Older(M)
             K == (M \ D) \cup {m}
  <1>1. /\ q \in Seq(M) /\ Len(q) \in Nat
        /\ \A k \in 1 .. Len(q) : q[k] \in M
        /\ \A x \in M : \E k \in 1 .. Len(q) : q[k] = x
    BY HistoryTyped
  <1>2. \A k, l \in 1 .. Len(q) : k < l <=> Before(q[k], q[l])  BY HistoryBefore
  <1>3. s \in 0 .. Len(q)
    <2>1. LET split == IF Len(q) <= KeepRecent THEN 0 ELSE Len(q) - KeepRecent
          IN  split \in 0 .. Len(q) /\ s \in 0 .. split
      BY <1>1, SplitMeans
    <2> QED  BY <1>1, <2>1
  <1>4. D = {q[i] : i \in 1 .. s}  BY DEF Older
  <1>5. \A i \in 1 .. s, j \in s + 1 .. Len(q) : q[i].calls \cap q[j].answers = {}  BY SplitIsSafe
  <1> HIDE DEF q, s
  <1>6. \A x \in M \ D : \E k \in s + 1 .. Len(q) : q[k] = x
    <2> TAKE x \in M \ D
    <2>1. PICK k \in 1 .. Len(q) : q[k] = x  BY <1>1
    <2>2. k \notin 1 .. s  BY <1>4, <2>1
    <2> QED  BY <1>3, <2>1, <2>2
  <1>7. \A x \in M, y \in M \ D : Before(y, x) => x \notin D
    <2> SUFFICES ASSUME NEW x \in D, NEW y \in M \ D, Before(y, x) PROVE FALSE  OBVIOUS
    <2>1. PICK i \in 1 .. s : q[i] = x  BY <1>4
    <2>2. PICK k \in s + 1 .. Len(q) : q[k] = y  BY <1>6
    <2>3. i \in 1 .. Len(q) /\ k \in 1 .. Len(q) /\ i < k  BY <1>1, <1>3
    <2>4. k < i  BY <1>2, <2>1, <2>2, <2>3
    <2> QED  BY <2>3, <2>4
  <1>8. ASSUME NEW x \in K, x.role = "tool"
        PROVE  \E a \in K : /\ x.answers \subseteq a.calls
                            /\ \A k \in K : Before(a, k) /\ Before(k, x) => k.role = "tool"
    <2>1. x \in M \ D  BY <1>8
    <2>2. PICK a \in M : /\ x.answers \subseteq a.calls
                         /\ \A k \in M : Before(a, k) /\ Before(k, x) => k.role = "tool"
      BY <1>8, <2>1 DEF InOrder
    <2>3. a \notin D
      <3> SUFFICES ASSUME a \in D PROVE FALSE  OBVIOUS
      <3>1. PICK i \in 1 .. s : q[i] = a  BY <1>4
      <3>2. PICK j \in s + 1 .. Len(q) : q[j] = x  BY <1>6, <2>1
      <3>3. PICK c : x.answers = {c}  BY <1>8, <2>1 DEF Among, Proper
      <3> QED  BY <1>5, <2>2, <3>1, <3>2, <3>3
    <2> QED  BY <2>1, <2>2, <2>3
  <1>9. ASSUME NEW a \in K, NEW c \in a.calls
        PROVE  \E x \in K : x.role = "tool" /\ x.answers = {c}
    <2>1. a \in M \ D  BY <1>9
    <2>2. PICK x \in M : x.role = "tool" /\ x.answers = {c}  BY <1>9, <2>1 DEF InOrder
    <2>3. Before(a, x)  BY <1>9, <2>1, <2>2, CallerBefore
    <2> QED  BY <1>7, <2>1, <2>2, <2>3
  <1> QED  BY <1>8, <1>9 DEF InOrder

-----------------------------------------------------------------------------
(* What turns do keeps the types *)

\* Messages stay so when more are created.
LEMMA MessagesGrow ==
    ASSUME NEW n \in Nat
    PROVE  /\ Messages(n) \subseteq Messages(n + 1)
           /\ \A q \in Seq(Messages(n)) : q \in Seq(Messages(n + 1))
  <1>1. \A m \in Messages(n) : m \in Messages(n + 1)
    <2>1. \A m \in Messages(n) : m.id \in Int /\ m.id <= n  BY DEF Messages, Row
    <2> QED  BY <2>1 DEF Messages
  <1>2. ASSUME NEW q \in Seq(Messages(n)) PROVE q \in Seq(Messages(n + 1))
    <2>1. q \in [1 .. Len(q) -> Messages(n)] /\ Len(q) \in Nat  OBVIOUS
    <2>2. q \in [1 .. Len(q) -> Messages(n + 1)]  BY <1>1, <2>1
    <2> QED  BY <2>1, <2>2
  <1> QED  BY <1>1, <1>2

\* What is written as a message is one.
LEMMA NewMessage ==
    ASSUME NEW n \in Nat, NEW role \in {"user", "assistant", "tool"}, NEW calls, NEW answers, NEW told,
           calls \subseteq {c \in AnyCall : c[1] = n}, n > 0,
           calls # {} => role = "assistant",
           IF role = "tool" THEN \E c \in AnyCall : answers = {c} /\ c[1] < n ELSE answers = {},
           told \subseteq 1 .. n
    PROVE  LET m == Message(n, role, calls, answers, told)
           IN  /\ Proper(m) /\ m \in Messages(n) /\ m.id = n /\ m.at = 2 * n /\ m.role = role
               /\ m.calls = calls /\ m.answers = answers /\ m.about = told
  <1> DEFINE m == Message(n, role, calls, answers, told)
  <1>1. /\ m.id = n /\ m.at = 2 * n /\ m.role = role
        /\ m.calls = calls /\ m.answers = answers /\ m.about = told
    BY DEF Message
  <1>2. answers \subseteq AnyCall /\ calls \subseteq AnyCall /\ told \subseteq Nat  OBVIOUS
  <1>3. m \in Row  BY <1>2 DEF Message, Row
  <1> HIDE DEF m
  <1>4. Proper(m)
    <2>1. m.role # "system" => m.at = 2 * m.id  BY <1>1
    <2>2. m.calls # {} => m.role = "assistant"  BY <1>1
    <2>3. \A c \in m.calls : c[1] = m.id  BY <1>1
    <2>4. m.role # "tool" => m.answers = {}  BY <1>1
    <2>5. m.role = "tool" => \E c \in AnyCall : m.answers = {c} /\ c[1] < m.id  BY <1>1
    <2>6. m.at <= 2 * m.id /\ m.about \subseteq 1 .. m.id  BY <1>1
    <2> QED  BY <1>3, <2>1, <2>2, <2>3, <2>4, <2>5, <2>6 DEF Proper
  <1>5. m \in Messages(n)  BY <1>1, <1>3, <1>4 DEF Messages
  <1> QED  BY <1>1, <1>4, <1>5 DEF m

\* What stays typed when a message is created
LEMMA CreatedTyped ==
    ASSUME TalkTyped, created' = created + 1
    PROVE  /\ created' \in Nat /\ adding \in [Turns -> 0 .. created']
           /\ request \in [Turns -> Seq(Messages(created'))]
           /\ todo \in [Turns -> SUBSET {c \in AnyCall : c[1] <= created'}]
           /\ \A t \in Turns : Among(snapshot[t], created')
           /\ Among(messages, created')
  <1>1. created \in Nat  BY DEF TalkTyped
  <1>2. adding \in [Turns -> 0 .. created']  BY <1>1 DEF TalkTyped
  <1>3. request \in [Turns -> Seq(Messages(created'))]
    <2>1. \A t \in Turns : request[t] \in Seq(Messages(created'))
      BY <1>1, MessagesGrow DEF TalkTyped
    <2> QED  BY <2>1 DEF TalkTyped
  <1>4. todo \in [Turns -> SUBSET {c \in AnyCall : c[1] <= created'}]
    <2>1. \A c \in AnyCall : c[1] \in Int  BY DEF AnyCall
    <2>2. \A t \in Turns : todo[t] \subseteq {c \in AnyCall : c[1] <= created'}
      BY <1>1, <2>1 DEF TalkTyped
    <2> QED  BY <2>2 DEF TalkTyped
  <1>5. \A t \in Turns : Among(snapshot[t], created')  BY <1>1, AmongGrows DEF TalkTyped
  <1>6. Among(messages, created')  BY <1>1, AmongGrows DEF TalkTyped
  <1> QED  BY <1>1, <1>2, <1>3, <1>4, <1>5, <1>6

\* What a message added to a conversation, or refused, leaves typed
LEMMA AddTyped ==
    ASSUME TalkTyped, NEW t \in Turns, NEW m, Proper(m), m.id = created + 1, AddMessage(t, m)
    PROVE  /\ created' = created + 1 /\ created' \in Nat /\ adding' \in [Turns -> 0 .. created']
           /\ Among(messages', created') /\ mishaps' \in 0 .. 1
  <1>1. created \in Nat /\ created' = created + 1 /\ mishaps \in 0 .. 1
    BY DEF TalkTyped, AddMessage, Saves, Refused
  <1>2. adding \in [Turns -> 0 .. created'] /\ Among(messages, created')  BY <1>1, CreatedTyped
  <1>3. CASE Saves(t, m)
    <2>1. adding' \in [Turns -> 0 .. created']  BY <1>1, <1>2, <1>3 DEF Saves
    <2>2. Among(messages', created')  BY <1>1, <1>3, AmongAdded DEF Saves, TalkTyped
    <2>3. mishaps' \in 0 .. 1  BY <1>1, <1>3 DEF Saves
    <2> QED  BY <1>1, <2>1, <2>2, <2>3
  <1>4. CASE Refused  BY <1>1, <1>2, <1>4 DEF Refused
  <1> QED  BY <1>3, <1>4 DEF AddMessage

\* The call that is executed next is one of those left.
LEMMA FirstCallExists ==
    ASSUME TalkTyped, NEW t \in Turns, todo[t] # {}
    PROVE  FirstCall(t) \in todo[t] /\ FirstCall(t) \in AnyCall /\ FirstCall(t)[1] <= created
  <1>1. todo[t] \subseteq {c \in AnyCall : c[1] <= created}  BY DEF TalkTyped
  <1>2. \A c \in AnyCall : c[2] \in Nat  BY ConversationsAssumption DEF AnyCall
  <1> DEFINE T == {c[2] : c \in todo[t]}
  <1>3. T \subseteq Nat /\ T # {}  BY <1>1, <1>2
  <1>4. PICK x \in T : \A y \in T : x <= y  BY <1>3, LeastNat
  <1>5. \E c \in todo[t] : \A d \in todo[t] : c[2] <= d[2]  BY <1>4
  <1>6. FirstCall(t) \in todo[t]  BY <1>5 DEF FirstCall
  <1> QED  BY <1>1, <1>6

\* The message that a tool answers with
LEMMA AnswerMessage ==
    ASSUME TalkTyped, NEW t \in Turns, todo[t] # {}
    PROVE  LET m == Message(created + 1, "tool", {}, {FirstCall(t)}, {})
           IN  /\ Proper(m) /\ m \in Messages(created + 1)
               /\ m.id = created + 1 /\ m.at = 2 * (created + 1) /\ m.role = "tool"
               /\ m.calls = {} /\ m.answers = {FirstCall(t)}
  <1>1. created \in Nat /\ created + 1 \in Nat /\ created + 1 > 0  BY DEF TalkTyped
  <1>2. FirstCall(t) \in AnyCall /\ FirstCall(t)[1] <= created  BY FirstCallExists
  <1>3. FirstCall(t)[1] \in Int  BY <1>2 DEF AnyCall
  <1>4. \E c \in AnyCall : {FirstCall(t)} = {c} /\ c[1] < created + 1  BY <1>1, <1>2, <1>3
  <1> QED  BY <1>1, <1>4, NewMessage

\* The message that calls k tools
LEMMA CallMessage ==
    ASSUME TalkTyped, NEW k \in 1 .. MaxCalls, NEW o \in BOOLEAN
    PROVE  LET calls == {Call(created + 1, i, o) : i \in 1 .. k}
               m == Message(created + 1, "assistant", calls, {}, {})
           IN  /\ Proper(m) /\ m \in Messages(created + 1)
               /\ m.id = created + 1 /\ m.at = 2 * (created + 1) /\ m.role = "assistant"
               /\ m.calls = calls /\ m.answers = {}
               /\ calls \subseteq {c \in AnyCall : c[1] = created + 1}
  <1> DEFINE calls == {Call(created + 1, i, o) : i \in 1 .. k}
  <1>1. created \in Nat /\ created + 1 \in Nat /\ created + 1 > 0  BY DEF TalkTyped
  <1>2. \A j \in 1 .. k : j \in 1 .. MaxCalls  BY ConversationsAssumption
  <1>3. calls \subseteq {c \in AnyCall : c[1] = created + 1}
    <2> SUFFICES ASSUME NEW i \in 1 .. k
                 PROVE  Call(created + 1, i, o) \in AnyCall /\ Call(created + 1, i, o)[1] = created + 1
      OBVIOUS
    <2> DEFINE x == IF o THEN 0 ELSE created + 1
    <2>1. Call(created + 1, i, o) = <<created + 1, i, x>>  BY DEF Call
    <2>2. x \in Nat /\ x \in {0, created + 1}  BY <1>1
    <2> HIDE DEF x
    <2>3. <<created + 1, i, x>> \in (Nat \ {0}) \X (1 .. MaxCalls) \X Nat  BY <1>1, <1>2, <2>2
    <2> QED  BY <2>1, <2>2, <2>3 DEF AnyCall
  <1> HIDE DEF calls
  <1>4. Message(created + 1, "assistant", calls, {}, {}).id = created + 1  BY DEF Message
  <1>5. LET m == Message(created + 1, "assistant", calls, {}, {})
        IN  /\ Proper(m) /\ m \in Messages(created + 1)
            /\ m.id = created + 1 /\ m.at = 2 * (created + 1) /\ m.role = "assistant"
            /\ m.calls = calls /\ m.answers = {}
    BY <1>1, <1>3, NewMessage
  <1> QED  BY <1>3, <1>5 DEF calls

\* The messages that a summary takes, and where it is put
LEMMA SummaryTyped ==
    ASSUME TalkTyped, NEW t \in Turns
    PROVE  /\ Summarised(t) \subseteq snapshot[t]
           /\ SummaryTime(t) \in Int /\ SummaryTime(t) <= 2 * (created + 1)
           /\ \A k \in Kept(t) : SummaryTime(t) < k.at
  <1> DEFINE M == snapshot[t]
             q == Chronological(M)
             K == Kept(t)
             p == Chronological(K)
  <1>1. created \in Nat /\ Among(M, created)  BY DEF TalkTyped
  <1>2. /\ q \in Seq(M) /\ Len(q) \in Nat
        /\ \A i \in 1 .. Len(q) : q[i] \in M
    BY <1>1, HistoryTyped
  <1>3. Summarised(t) \subseteq M
    <2>1. Summarised(t) = {q[i] : i \in 1 .. SafeSplit(q)}  BY DEF Summarised
    <2> HIDE DEF q, M
    <2>2. LET split == IF Len(q) <= KeepRecent THEN 0 ELSE Len(q) - KeepRecent
          IN  split \in 0 .. Len(q) /\ SafeSplit(q) \in 0 .. split
      BY <1>2, SplitMeans
    <2>3. SafeSplit(q) \in 0 .. Len(q)  BY <1>2, <2>2
    <2> QED  BY <1>2, <2>1, <2>3
  <1>4. Among(K, created)  BY <1>1, AmongGrows DEF Kept
  <1>5. ASSUME K # {}
        PROVE  /\ p[1] \in K /\ \A k \in K : p[1].at <= k.at
    <2>1. /\ Len(p) \in Nat /\ \A i \in 1 .. Len(p) : p[i] \in K
          /\ \A k \in K : \E i \in 1 .. Len(p) : p[i] = k
      BY <1>1, <1>4, HistoryTyped
    <2>2. \A i, j \in 1 .. Len(p) : i < j <=> Before(p[i], p[j])  BY <1>1, <1>4, HistoryBefore
    <2> HIDE DEF p, K
    <2>3. 1 \in 1 .. Len(p)  BY <1>5, <2>1
    <2>4. \A k \in K : k.at \in Int  BY <1>4 DEF Among, Proper, Row
    <2>5. ASSUME NEW k \in K PROVE p[1].at <= k.at
      <3>1. PICK i \in 1 .. Len(p) : p[i] = k  BY <2>1
      <3>2. i = 1 \/ 1 < i  BY <2>1
      <3>3. p[1] = k \/ Before(p[1], k)  BY <2>2, <2>3, <3>1, <3>2
      <3> QED  BY <2>1, <2>3, <2>4, <3>3 DEF Before
    <2> QED  BY <2>1, <2>3, <2>5
  <1>6. \A k \in K : k.at \in Int /\ k.at <= 2 * created
    <2>1. \A k \in K : k.at \in Int /\ k.id \in Int /\ k.id <= created /\ k.at <= 2 * k.id
      BY <1>4 DEF Among, Proper, Row
    <2> QED  BY <1>1, <2>1
  <1>7. CASE K = {}
    <2>1. SummaryTime(t) = 2 * (created + 1)  BY <1>7 DEF SummaryTime
    <2> QED  BY <1>1, <1>3, <1>7, <2>1
  <1>8. CASE K # {}
    <2>1. SummaryTime(t) = p[1].at - 1  BY <1>8 DEF SummaryTime
    <2> HIDE DEF p, K
    <2>2. SummaryTime(t) \in Int /\ SummaryTime(t) <= 2 * (created + 1)
      BY <1>1, <1>5, <1>6, <1>8, <2>1
    <2>3. \A k \in K : SummaryTime(t) < k.at  BY <1>5, <1>6, <1>8, <2>1
    <2> QED  BY <1>3, <2>2, <2>3 DEF K
  <1> QED  BY <1>7, <1>8

\* The message that a summary writes
LEMMA SummaryMessage ==
    ASSUME TalkTyped, NEW t \in Turns
    PROVE  LET told == UNION {m.about : m \in Summarised(t)}
               s == [Message(created + 1, "system", {}, {}, told) EXCEPT !.at = SummaryTime(t)]
           IN  /\ Proper(s) /\ s.id = created + 1 /\ s.role = "system" /\ s.calls = {}
               /\ s.about = told /\ s.at = SummaryTime(t)
  <1> DEFINE told == UNION {m.about : m \in Summarised(t)}
             s == [Message(created + 1, "system", {}, {}, told) EXCEPT !.at = SummaryTime(t)]
  <1>1. created \in Nat  BY DEF TalkTyped
  <1>2. told \subseteq 1 .. created + 1
    <2>1. \A m \in snapshot[t] : m.id \in Int /\ m.id <= created /\ m.about \subseteq 1 .. m.id
      BY DEF TalkTyped, Among, Proper, Row
    <2>2. \A m \in snapshot[t] : m.about \subseteq 1 .. created + 1  BY <1>1, <2>1
    <2> QED  BY <2>2, SummaryTyped
  <1> HIDE DEF told
  <1>3. SummaryTime(t) \in Int /\ SummaryTime(t) <= 2 * (created + 1)  BY SummaryTyped
  <1>4. s = [id |-> created + 1, at |-> SummaryTime(t), role |-> "system", calls |-> {},
             answers |-> {}, about |-> told]
    BY DEF Message
  <1>5. /\ s.id = created + 1 /\ s.at = SummaryTime(t) /\ s.role = "system" /\ s.calls = {}
        /\ s.answers = {} /\ s.about = told
    BY <1>4
  <1>6. s \in Row  BY <1>1, <1>2, <1>3, <1>4 DEF Row
  <1> HIDE DEF s
  <1>7. Proper(s)  BY <1>2, <1>3, <1>5, <1>6 DEF Proper
  <1> QED  BY <1>5, <1>7 DEF s, told

\* A step whose conversation, phases and counts are typed, and that creates no message
LEMMA UncreatedTyped ==
    ASSUME TalkTyped, UNCHANGED <<created, messages>>,
           conv' \in [exists : BOOLEAN, tokens : Nat, title : Nat, summaries : 0 .. 1],
           sent' \in 0 .. MaxSent, phase' \in [Turns -> Phases], adding' \in [Turns -> 0 .. created],
           round' \in [Turns -> 0 .. MaxToolRounds],
           request' \in [Turns -> Seq(Messages(created))],
           todo' \in [Turns -> SUBSET {c \in AnyCall : c[1] <= created}],
           \A t \in Turns : Among(snapshot'[t], created), DOMAIN snapshot' = Turns,
           gen' \in [Turns -> {"none", "reads", "asks"}], inFlight' \in BOOLEAN, mishaps' \in 0 .. 1
    PROVE  TalkTyped'
  BY DEF TalkTyped

\* No messages at all are typed.
LEMMA EmptyTyped ==
    ASSUME NEW n \in Nat
    PROVE  <<>> \in Seq(Messages(n)) /\ Among({}, n)
  BY DEF Among

\* A turn that is over
LEMMA OverTyped ==
    ASSUME TalkTyped, NEW t \in Turns, Over(t)
    PROVE  /\ phase' \in [Turns -> Phases] /\ round' \in [Turns -> 0 .. MaxToolRounds]
           /\ request' \in [Turns -> Seq(Messages(created))]
           /\ todo' \in [Turns -> SUBSET {c \in AnyCall : c[1] <= created}]
           /\ \A u \in Turns : Among(snapshot'[u], created)
           /\ DOMAIN snapshot' = Turns
  <1>1. <<>> \in Seq(Messages(created)) /\ Among({}, created)  BY EmptyTyped DEF TalkTyped
  <1>2. phase' \in [Turns -> Phases] /\ round' \in [Turns -> 0 .. MaxToolRounds]
    BY ConversationsAssumption DEF TalkTyped, Over, Goes, Phases
  <1>3. request' \in [Turns -> Seq(Messages(created))]  BY <1>1 DEF TalkTyped, Over
  <1>4. todo' \in [Turns -> SUBSET {c \in AnyCall : c[1] <= created}]  BY DEF TalkTyped, Over
  <1>5. DOMAIN snapshot' = Turns /\ \A u \in Turns : snapshot'[u] = IF u = t THEN {} ELSE snapshot[u]
    BY DEF TalkTyped, Over
  <1>6. \A u \in Turns : Among(snapshot'[u], created)  BY <1>1, <1>5 DEF TalkTyped
  <1> QED  BY <1>2, <1>3, <1>4, <1>5, <1>6

\* Steps of a turn that create no message
LEMMA QuietTyped ==
    ASSUME TalkTyped, TurnsGo, OneLine, NEW t \in Turns,
           \/ SendMessage(t) \/ CheckTokens(t) \/ CountMessage(t) \/ ReadHistory(t) \/ ChatFails(t)
           \/ NextRound(t) \/ MaybeSummarize(t) \/ SummaryFails(t) \/ MaybeGenerateSummary(t)
           \/ Launch(t) \/ Generate(t) \/ SaveSummary(t)
    PROVE  TalkTyped'
  <1>0. MaxSent \in Nat /\ MaxToolRounds \in Nat  BY ConversationsAssumption
  <1>1. CASE SendMessage(t)
    <2>1. sent' \in 0 .. MaxSent  BY <1>0, <1>1 DEF SendMessage, TalkTyped
    <2>2. phase' \in [Turns -> Phases]  BY <1>1 DEF SendMessage, Goes, Phases, TalkTyped
    <2>3. UNCHANGED <<conv, messages, created, adding, request, round, todo, snapshot, gen, inFlight,
                      mishaps>>
      BY <1>1 DEF SendMessage
    <2> QED  BY <2>1, <2>2, <2>3 DEF TalkTyped
  <1>2. CASE CheckTokens(t)
    <2>2. phase' \in [Turns -> Phases]  BY <1>2 DEF CheckTokens, Goes, Phases, TalkTyped
    <2>3. UNCHANGED <<conv, messages, created, sent, adding, request, round, todo, snapshot, gen,
                      inFlight, mishaps>>
      BY <1>2 DEF CheckTokens
    <2> QED  BY <2>2, <2>3 DEF TalkTyped
  <1>3. CASE CountMessage(t)
    <2>1. conv' \in [exists : BOOLEAN, tokens : Nat, title : Nat, summaries : 0 .. 1]
      <3>1. conv \in [exists : BOOLEAN, tokens : Nat, title : Nat, summaries : 0 .. 1]
            /\ conv.tokens + 1 \in Nat /\ adding[t] \in Nat
        BY DEF TalkTyped
      <3>2. \/ conv' = conv
            \/ conv' = [conv EXCEPT !.tokens = @ + 1, !.title = adding[t]]
            \/ conv' = [conv EXCEPT !.tokens = @ + 1, !.title = conv.title]
        BY <1>3, <3>1 DEF CountMessage
      <3> QED  BY <3>1, <3>2
    <2>2. adding' \in [Turns -> 0 .. created]  BY <1>3 DEF CountMessage, TalkTyped
    <2>3. UNCHANGED <<messages, created, sent, phase, request, round, todo, snapshot, gen,
                      inFlight, mishaps>>
      BY <1>3 DEF CountMessage
    <2> QED  BY <2>1, <2>2, <2>3 DEF TalkTyped
  <1>4. CASE ReadHistory(t)
    <2>1. Sanitize(Chronological(messages)) \in Seq(Messages(created))
      <3>1. Chronological(messages) \in Seq(Messages(created)) /\ created \in Nat
        BY HistoryTyped DEF TalkTyped
      <3> QED  BY <3>1, SanitizedHistory
    <2>2. request' \in [Turns -> Seq(Messages(created))]
      BY <1>4, <2>1 DEF ReadHistory, TalkTyped
    <2>3. phase' \in [Turns -> Phases]  BY <1>4 DEF ReadHistory, Goes, Phases, TalkTyped
    <2>4. UNCHANGED <<conv, messages, created, sent, adding, round, todo, snapshot, gen,
                      inFlight, mishaps>>
      BY <1>4 DEF ReadHistory
    <2> QED  BY <2>2, <2>3, <2>4 DEF TalkTyped
  <1>5. CASE ChatFails(t)
    <2>1. Over(t) /\ UNCHANGED <<conv, messages, created, sent, adding, gen, inFlight, mishaps>>
      BY <1>5 DEF ChatFails
    <2> QED  BY <2>1, OverTyped, UncreatedTyped DEF TalkTyped
  <1>6. CASE NextRound(t)
    <2>1. round[t] + 1 \in 0 .. MaxToolRounds
      BY <1>0, <1>6 DEF NextRound, Ready, TurnsGo, TalkTyped
    <2>2. round' \in [Turns -> 0 .. MaxToolRounds]  BY <1>6, <2>1 DEF NextRound, TalkTyped
    <2>3. request[t] \in Seq(Messages(created)) /\ created \in Nat  BY DEF TalkTyped
    <2>4. Sanitize(request[t]) \in Seq(Messages(created))  BY <2>3, SanitizedHistory
    <2>5. request' \in [Turns -> Seq(Messages(created))]  BY <1>6, <2>4 DEF NextRound, TalkTyped
    <2>6. phase' \in [Turns -> Phases]  BY <1>6 DEF NextRound, Goes, Phases, TalkTyped
    <2>7. UNCHANGED <<conv, messages, created, sent, adding, todo, snapshot, gen, inFlight, mishaps>>
      BY <1>6 DEF NextRound
    <2> QED  BY <2>2, <2>5, <2>6, <2>7 DEF TalkTyped
  <1>7. CASE MaybeSummarize(t)
    <2>1. phase' \in [Turns -> Phases]  BY <1>7 DEF MaybeSummarize, Goes, Phases, TalkTyped
    <2>2. DOMAIN snapshot' = Turns /\ \A u \in Turns : snapshot'[u] \in {messages, snapshot[u]}
      BY <1>7 DEF MaybeSummarize, TalkTyped
    <2>3. \A u \in Turns : Among(snapshot'[u], created)  BY <2>2 DEF TalkTyped
    <2>4. UNCHANGED <<conv, messages, created, sent, adding, request, round, todo, gen, inFlight,
                      mishaps>>
      BY <1>7 DEF MaybeSummarize
    <2> QED  BY <2>1, <2>2, <2>3, <2>4 DEF TalkTyped
  <1>8. CASE SummaryFails(t)
    <2>1. phase' \in [Turns -> Phases]  BY <1>8 DEF SummaryFails, Goes, Phases, TalkTyped
    <2>2. DOMAIN snapshot' = Turns /\ \A u \in Turns : snapshot'[u] \in {{}, snapshot[u]}
      BY <1>8 DEF SummaryFails, TalkTyped
    <2>3. \A u \in Turns : Among(snapshot'[u], created)  BY <2>2, EmptyTyped DEF TalkTyped
    <2>4. UNCHANGED <<conv, messages, created, sent, adding, request, round, todo, gen, inFlight,
                      mishaps>>
      BY <1>8 DEF SummaryFails
    <2> QED  BY <2>1, <2>2, <2>3, <2>4 DEF TalkTyped
  <1>9. CASE MaybeGenerateSummary(t)
    <2>1. UNCHANGED <<conv, messages, created, sent, adding, gen, inFlight, mishaps>>
      BY <1>9 DEF MaybeGenerateSummary
    <2>2. CASE Over(t)  BY <2>1, <2>2, OverTyped, UncreatedTyped DEF TalkTyped
    <2>3. CASE Goes(t, "launches") /\ UNCHANGED <<request, round, todo, snapshot>>
      <3>1. phase' \in [Turns -> Phases]  BY <2>3 DEF Goes, Phases, TalkTyped
      <3> QED  BY <2>1, <2>3, <3>1 DEF TalkTyped
    <2> QED  BY <1>9, <2>2, <2>3 DEF MaybeGenerateSummary
  <1>10. CASE Launch(t)
    <2>1. Over(t) /\ UNCHANGED <<conv, messages, created, sent, adding, mishaps>>
      BY <1>10 DEF Launch
    <2>2. gen' \in [Turns -> {"none", "reads", "asks"}] /\ inFlight' \in BOOLEAN
      BY <1>10 DEF Launch, TalkTyped
    <2> QED  BY <2>1, <2>2, OverTyped, UncreatedTyped DEF TalkTyped
  <1>11. CASE Generate(t)
    <2>1. UNCHANGED <<conv, messages, created, sent, phase, adding, request, round, todo, snapshot,
                      mishaps>>
      BY <1>11 DEF Generate, GenerateDisplaySummary, turnVars
    <2>2. \/ gen' = [gen EXCEPT ![t] = "asks"] /\ inFlight' = inFlight
          \/ gen' = [gen EXCEPT ![t] = "none"] /\ inFlight' = FALSE
      BY <1>11 DEF Generate, GenerateDisplaySummary, Finish
    <2>3. gen' \in [Turns -> {"none", "reads", "asks"}] /\ inFlight' \in BOOLEAN
      BY <2>2 DEF TalkTyped
    <2> QED  BY <2>1, <2>3 DEF TalkTyped
  <1>12. CASE SaveSummary(t)
    <2>1. UNCHANGED <<messages, created, sent, phase, adding, request, round, todo, snapshot, mishaps>>
      BY <1>12 DEF SaveSummary, turnVars
    <2>2. gen' \in [Turns -> {"none", "reads", "asks"}] /\ inFlight' \in BOOLEAN
      BY <1>12 DEF SaveSummary, Finish, TalkTyped
    <2>3. conv' \in [exists : BOOLEAN, tokens : Nat, title : Nat, summaries : 0 .. 1]
      <3>1. conv \in [exists : BOOLEAN, tokens : Nat, title : Nat, summaries : 0 .. 1]
        BY DEF TalkTyped
      <3>2. conv.exists => conv.summaries = 0  BY <1>12 DEF SaveSummary, OneLine
      <3>3. \/ conv' = conv
            \/ conv' = [conv EXCEPT !.summaries = IF conv.exists THEN conv.summaries + 1 ELSE conv.summaries]
        BY <1>12, <3>1 DEF SaveSummary, Write
      <3> QED  BY <3>1, <3>2, <3>3
    <2> QED  BY <2>1, <2>2, <2>3 DEF TalkTyped
  <1> QED  BY <1>1, <1>2, <1>3, <1>4, <1>5, <1>6, <1>7, <1>8, <1>9, <1>10, <1>11, <1>12

\* Steps of a turn that create one, or fail to
LEMMA AddingTyped ==
    ASSUME TalkTyped, NEW t \in Turns,
           \/ SaveMessage(t) \/ SaveFails(t) \/ Answer(t) \/ CallTools(t) \/ ExecuteTool(t)
           \/ SummarizeOlderMessages(t)
    PROVE  TalkTyped'
  <1>0. created \in Nat /\ created + 1 \in Nat /\ created + 1 > 0  BY DEF TalkTyped
  <1>1. CASE SaveMessage(t)
    <2> DEFINE m == Message(created + 1, "user", {}, {}, {created + 1})
    <2>1. Proper(m) /\ m.id = created + 1  BY <1>0, NewMessage
    <2> HIDE DEF m
    <2>2. AddMessage(t, m)  BY <1>1 DEF SaveMessage, AddMessage, m
    <2>3. phase' \in [Turns -> Phases]  BY <1>1 DEF SaveMessage, Goes, Phases, TalkTyped
    <2>4. UNCHANGED <<conv, sent, request, round, todo, snapshot, gen, inFlight>>
      BY <1>1 DEF SaveMessage
    <2>5. created' = created + 1  BY <2>1, <2>2, AddTyped
    <2> QED  BY <2>1, <2>2, <2>3, <2>4, <2>5, AddTyped, CreatedTyped DEF TalkTyped
  <1>2. CASE Answer(t)
    <2> DEFINE m == Message(created + 1, "assistant", {}, {}, {})
    <2>1. Proper(m) /\ m.id = created + 1  BY <1>0, NewMessage
    <2> HIDE DEF m
    <2>2. AddMessage(t, m)  BY <1>2 DEF Answer, m
    <2>3. phase' \in [Turns -> Phases]  BY <1>2 DEF Answer, Goes, Phases, TalkTyped
    <2>4. UNCHANGED <<conv, sent, request, round, todo, snapshot, gen, inFlight>>
      BY <1>2 DEF Answer
    <2>5. created' = created + 1  BY <2>1, <2>2, AddTyped
    <2> QED  BY <2>1, <2>2, <2>3, <2>4, <2>5, AddTyped, CreatedTyped DEF TalkTyped
  <1>3. CASE CallTools(t)
    <2>1. PICK k \in 1 .. MaxCalls, o \in BOOLEAN :
             LET calls == {Call(created + 1, i, o) : i \in 1 .. k}
                 m == Message(created + 1, "assistant", calls, {}, {})
             IN  /\ AddMessage(t, m)
                 /\ request' = [request EXCEPT ![t] = Append(@, m)]
                 /\ todo' = [todo EXCEPT ![t] = calls]
      BY <1>3 DEF CallTools
    <2> DEFINE calls == {Call(created + 1, i, o) : i \in 1 .. k}
               m == Message(created + 1, "assistant", calls, {}, {})
    <2>2. /\ Proper(m) /\ m \in Messages(created + 1) /\ m.id = created + 1
          /\ calls \subseteq {c \in AnyCall : c[1] = created + 1}
      BY CallMessage
    <2>3. /\ AddMessage(t, m)
          /\ request' = [request EXCEPT ![t] = Append(@, m)]
          /\ todo' = [todo EXCEPT ![t] = calls]
      BY <2>1
    <2> HIDE DEF m, calls
    <2>4. created' = created + 1  BY <2>2, <2>3, AddTyped
    <2>5. /\ request \in [Turns -> Seq(Messages(created'))]
          /\ todo \in [Turns -> SUBSET {c \in AnyCall : c[1] <= created'}]
      BY <2>4, CreatedTyped
    <2>6. request' \in [Turns -> Seq(Messages(created'))]
      <3>1. request[t] \in Seq(Messages(created')) /\ m \in Messages(created')  BY <2>2, <2>4, <2>5
      <3>2. Append(request[t], m) \in Seq(Messages(created'))  BY <3>1
      <3> QED  BY <2>3, <2>5, <3>2
    <2>7. todo' \in [Turns -> SUBSET {c \in AnyCall : c[1] <= created'}]
      <3>1. calls \subseteq {c \in AnyCall : c[1] <= created'}  BY <1>0, <2>2, <2>4
      <3> QED  BY <2>3, <2>5, <3>1
    <2>8. phase' \in [Turns -> Phases]  BY <1>3 DEF CallTools, Goes, Phases, TalkTyped
    <2>9. UNCHANGED <<conv, sent, round, snapshot, gen, inFlight>>  BY <1>3 DEF CallTools
    <2> QED
      BY <2>2, <2>3, <2>4, <2>6, <2>7, <2>8, <2>9, AddTyped, CreatedTyped DEF TalkTyped
  <1>4. CASE ExecuteTool(t)
    <2> DEFINE m == Message(created + 1, "tool", {}, {FirstCall(t)}, {})
    <2>1. Ready(t, "tools") /\ todo[t] # {}  BY <1>4 DEF ExecuteTool
    <2>2. Proper(m) /\ m \in Messages(created + 1) /\ m.id = created + 1  BY <2>1, AnswerMessage
    <2>3. /\ AddMessage(t, m)
          /\ request' = [request EXCEPT ![t] = Append(@, m)]
          /\ todo' = [todo EXCEPT ![t] = @ \ {FirstCall(t)}]
      BY <1>4 DEF ExecuteTool
    <2> HIDE DEF m
    <2>4. created' = created + 1  BY <2>2, <2>3, AddTyped
    <2>5. /\ request \in [Turns -> Seq(Messages(created'))]
          /\ todo \in [Turns -> SUBSET {c \in AnyCall : c[1] <= created'}]
      BY <2>4, CreatedTyped
    <2>6. request' \in [Turns -> Seq(Messages(created'))]
      <3>1. request[t] \in Seq(Messages(created')) /\ m \in Messages(created')  BY <2>2, <2>4, <2>5
      <3>2. Append(request[t], m) \in Seq(Messages(created'))  BY <3>1
      <3> QED  BY <2>3, <2>5, <3>2
    <2>7. todo' \in [Turns -> SUBSET {c \in AnyCall : c[1] <= created'}]  BY <2>3, <2>5
    <2>9. UNCHANGED <<conv, sent, phase, round, snapshot, gen, inFlight>>
      BY <1>4 DEF ExecuteTool
    <2> QED
      BY <2>2, <2>3, <2>4, <2>6, <2>7, <2>9, AddTyped, CreatedTyped DEF TalkTyped
  <1>5. CASE SummarizeOlderMessages(t)
    <2> DEFINE told == UNION {m.about : m \in Summarised(t)}
               s == [Message(created + 1, "system", {}, {}, told) EXCEPT !.at = SummaryTime(t)]
    <2>1. Proper(s) /\ s.id = created + 1  BY SummaryMessage
    <2>2. /\ messages' = (messages \ Deleted(t)) \cup {s} /\ created' = created + 1
          /\ snapshot' = [snapshot EXCEPT ![t] = {}]
      BY <1>5 DEF SummarizeOlderMessages
    <2> HIDE DEF s
    <2>3. Among(messages \ Deleted(t), created)
      <3>1. Among(messages, created) /\ (messages \ Deleted(t)) \subseteq messages  BY DEF TalkTyped
      <3> QED  BY <1>0, <3>1, AmongGrows
    <2>4. Among(messages', created')  BY <1>0, <2>1, <2>2, <2>3, AmongAdded
    <2>5. DOMAIN snapshot' = Turns /\ \A u \in Turns : snapshot'[u] \in {{}, snapshot[u]}
      BY <2>2 DEF TalkTyped
    <2>6. \A u \in Turns : Among(snapshot'[u], created')
      BY <1>0, <2>2, <2>5, EmptyTyped, CreatedTyped
    <2>7. phase' \in [Turns -> Phases]
      BY <1>5 DEF SummarizeOlderMessages, Goes, Phases, TalkTyped
    <2>8. UNCHANGED <<conv, sent, adding, request, round, todo, gen, inFlight, mishaps>>
      BY <1>5 DEF SummarizeOlderMessages
    <2> QED  BY <2>2, <2>4, <2>5, <2>6, <2>7, <2>8, CreatedTyped DEF TalkTyped
  <1>6. CASE SaveFails(t)
    <2>1. /\ created' = created + 1 /\ mishaps' = 1 /\ phase' = [phase EXCEPT ![t] = "idle"]
          /\ UNCHANGED <<conv, messages, sent, adding, request, round, todo, snapshot, gen, inFlight>>
      BY <1>6 DEF SaveFails, Refused, Goes
    <2>2. phase' \in [Turns -> Phases]  BY <2>1 DEF Phases, TalkTyped
    <2>3. mishaps' \in 0 .. 1  BY <2>1
    <2> QED  BY <2>1, <2>2, <2>3, CreatedTyped DEF TalkTyped
  <1> QED  BY <1>1, <1>2, <1>3, <1>4, <1>5, <1>6

\* Steps outside turns
LEMMA OutsideTyped ==
    ASSUME TalkTyped, DeleteConversation \/ CleanupEmptyConversations \/ Crash
    PROVE  TalkTyped'
  <1>0. created \in Nat /\ MaxToolRounds \in Nat  BY ConversationsAssumption DEF TalkTyped
  <1>1. CASE DeleteConversation
    <2>1. /\ conv' = [conv EXCEPT !.exists = FALSE] /\ messages' = {}
          /\ UNCHANGED <<created, sent, phase, adding, request, round, todo, snapshot, gen, inFlight,
                         mishaps>>
      BY <1>1 DEF DeleteConversation, turnVars
    <2>2. conv' \in [exists : BOOLEAN, tokens : Nat, title : Nat, summaries : 0 .. 1]
      BY <2>1 DEF TalkTyped
    <2> QED  BY <1>0, <2>1, <2>2, EmptyTyped DEF TalkTyped
  <1>2. CASE CleanupEmptyConversations
    <2>1. /\ conv' = [conv EXCEPT !.exists = FALSE]
          /\ UNCHANGED <<messages, created, sent, phase, adding, request, round, todo, snapshot, gen,
                         inFlight, mishaps>>
      BY <1>2 DEF CleanupEmptyConversations, turnVars
    <2>2. conv' \in [exists : BOOLEAN, tokens : Nat, title : Nat, summaries : 0 .. 1]
      BY <2>1 DEF TalkTyped
    <2> QED  BY <2>1, <2>2 DEF TalkTyped
  <1>3. CASE Crash
    <2>1. <<>> \in Seq(Messages(created)) /\ Among({}, created)  BY <1>0, EmptyTyped
    <2>2. /\ phase' \in [Turns -> Phases] /\ adding' \in [Turns -> 0 .. created]
          /\ round' \in [Turns -> 0 .. MaxToolRounds]
      BY <1>0, <1>3 DEF Crash, Phases
    <2>3. /\ request' \in [Turns -> Seq(Messages(created))]
          /\ todo' \in [Turns -> SUBSET {c \in AnyCall : c[1] <= created}]
          /\ \A t \in Turns : Among(snapshot'[t], created)
          /\ DOMAIN snapshot' = Turns
      BY <1>3, <2>1 DEF Crash
    <2>4. /\ gen' \in [Turns -> {"none", "reads", "asks"}] /\ inFlight' \in BOOLEAN /\ mishaps' \in 0 .. 1
          /\ UNCHANGED <<conv, messages, created, sent>>
      <3>1. gen' = [t \in Turns |-> "none"] /\ inFlight' = FALSE /\ mishaps' = 1  BY <1>3 DEF Crash
      <3>2. UNCHANGED <<conv, messages, created, sent>>  BY <1>3 DEF Crash
      <3>3. gen' \in [Turns -> {"none", "reads", "asks"}]  BY <3>1
      <3>4. inFlight' \in BOOLEAN  BY <3>1
      <3>5. mishaps' \in 0 .. 1  BY <3>1
      <3> QED  BY <3>2, <3>3, <3>4, <3>5
    <2>5. conv' \in [exists : BOOLEAN, tokens : Nat, title : Nat, summaries : 0 .. 1]
          /\ sent' \in 0 .. MaxSent
      BY <2>4 DEF TalkTyped
    <2> QED  BY <2>2, <2>3, <2>4, <2>5 DEF TalkTyped
  <1> QED  BY <1>1, <1>2, <1>3

\* Every step keeps the types.
LEMMA TypedStep ==
    ASSUME TalkTyped, TurnsGo, OneLine, ChatNext
    PROVE  TalkTyped'
  <1>1. ASSUME NEW t \in Turns, SendMessage(t) \/ TurnSteps(t) PROVE TalkTyped'
    BY <1>1, QuietTyped, AddingTyped DEF TurnSteps
  <1> QED  BY <1>1, OutsideTyped DEF ChatNext

-----------------------------------------------------------------------------
(* Where turns are, what is counted, and the one-line summary *)

\* Turns ask while rounds are left, whatever the steps are.
LEMMA TurnsGoStep ==
    ASSUME TalkTyped, TurnsGo, ChatNext
    PROVE  TurnsGo'
  <1>0. /\ phase \in [Turns -> Phases] /\ round \in [Turns -> 0 .. MaxToolRounds] /\ sent \in Nat
        /\ DOMAIN todo = Turns /\ DOMAIN gen = Turns /\ MaxToolRounds \in Nat
    BY ConversationsAssumption DEF TalkTyped
  <1>1. ASSUME NEW t \in Turns, SendMessage(t)
        PROVE  TurnsGo'
    <2>1. /\ phase[t] = "idle" /\ phase' = [phase EXCEPT ![t] = "checks"] /\ sent' = sent + 1
          /\ UNCHANGED <<round, todo, gen>>
      BY <1>1 DEF SendMessage, Ready, Goes
    <2> QED  BY <1>0, <2>1 DEF TurnsGo
  <1>2. ASSUME NEW t \in Turns, NEW p \in Phases, phase' = [phase EXCEPT ![t] = p],
               UNCHANGED <<round, todo, gen, sent>>,
               phase[t] \in {"checks", "saves", "reads"} \/ p \notin {"idle", "checks", "saves", "reads"},
               p \in {"asks", "tools"} => round[t] < MaxToolRounds,
               phase[t] = "tools" => todo[t] = {} \/ p = "tools", phase[t] # "idle"
        PROVE  TurnsGo'
    BY <1>0, <1>2 DEF TurnsGo
  <1>3. ASSUME NEW t \in Turns, CheckTokens(t) \/ SaveMessage(t) \/ SaveFails(t) \/ ReadHistory(t)
        PROVE  TurnsGo'
    <2>1. /\ \E p \in {"idle", "saves", "reads", "asks", "generates"} :
               phase' = [phase EXCEPT ![t] = p] /\ (p = "asks" => MaxToolRounds > 0)
          /\ UNCHANGED <<round, todo, gen, sent>>
      BY <1>3 DEF CheckTokens, SaveMessage, SaveFails, ReadHistory, Goes
    <2>2. phase[t] \in {"checks", "saves", "reads"} /\ phase[t] # "idle"
      BY <1>3 DEF CheckTokens, SaveMessage, SaveFails, ReadHistory, Ready
    <2>3. round[t] = 0  BY <2>2 DEF TurnsGo
    <2> QED  BY <1>0, <1>2, <2>1, <2>2, <2>3 DEF Phases
  <1>4. ASSUME NEW t \in Turns,
               Answer(t) \/ MaybeSummarize(t) \/ SummaryFails(t) \/ SummarizeOlderMessages(t)
        PROVE  TurnsGo'
    <2>1. /\ \E p \in {"decides", "summarises", "generates"} : phase' = [phase EXCEPT ![t] = p]
          /\ UNCHANGED <<round, todo, gen, sent>>
          /\ phase[t] \in {"asks", "decides", "summarises"}
      BY <1>4 DEF Answer, MaybeSummarize, SummaryFails, SummarizeOlderMessages, Goes, Ready
    <2> QED  BY <1>0, <1>2, <2>1 DEF Phases
  <1>5. ASSUME NEW t \in Turns, Over(t), UNCHANGED sent, phase[t] # "idle",
               \A u \in Turns : gen'[u] # "none" => u = t \/ gen[u] # "none"
        PROVE  TurnsGo'
    <2>1. /\ phase' = [phase EXCEPT ![t] = "idle"] /\ round' = [round EXCEPT ![t] = 0]
          /\ todo' = [todo EXCEPT ![t] = {}]
      BY <1>5 DEF Over, Goes
    <2> QED  BY <1>0, <1>5, <2>1 DEF TurnsGo
  <1>6. ASSUME NEW t \in Turns, ChatFails(t) \/ Launch(t)
        PROVE  TurnsGo'
    <2>1. Over(t) /\ UNCHANGED sent /\ phase[t] # "idle"  BY <1>6 DEF ChatFails, Launch, Ready
    <2>2. \A u \in Turns : gen'[u] # "none" => u = t \/ gen[u] # "none"
      BY <1>0, <1>6 DEF ChatFails, Launch
    <2> QED  BY <1>5, <2>1, <2>2
  <1>7. ASSUME NEW t \in Turns, MaybeGenerateSummary(t)
        PROVE  TurnsGo'
    <2>1. UNCHANGED <<gen, sent>> /\ phase[t] = "generates"
      BY <1>7 DEF MaybeGenerateSummary, Ready
    <2>2. CASE Over(t)  BY <1>5, <2>1, <2>2
    <2>3. CASE Goes(t, "launches") /\ UNCHANGED <<request, round, todo, snapshot>>
      BY <1>2, <2>1, <2>3 DEF Goes, Phases
    <2> QED  BY <1>7, <2>2, <2>3 DEF MaybeGenerateSummary
  <1>8. ASSUME NEW t \in Turns, CountMessage(t) \/ Generate(t) \/ SaveSummary(t)
        PROVE  TurnsGo'
    <2>1. UNCHANGED <<phase, round, todo, sent>>
      BY <1>8 DEF CountMessage, Generate, SaveSummary, turnVars
    <2>2. \A u \in Turns : gen'[u] # "none" => gen[u] # "none"
      BY <1>0, <1>8 DEF CountMessage, Generate, GenerateDisplaySummary, SaveSummary, Finish
    <2> QED  BY <2>1, <2>2 DEF TurnsGo
  <1>9. ASSUME NEW t \in Turns, CallTools(t)
        PROVE  TurnsGo'
    <2>1. /\ phase[t] = "asks" /\ phase' = [phase EXCEPT ![t] = "tools"]
          /\ \A u \in Turns : u # t => todo'[u] = todo[u]
          /\ UNCHANGED <<round, gen, sent>>
      BY <1>0, <1>9 DEF CallTools, Ready, Goes
    <2> QED  BY <1>0, <2>1 DEF TurnsGo
  <1>10. ASSUME NEW t \in Turns, ExecuteTool(t)
         PROVE  TurnsGo'
    <2>1. /\ phase[t] = "tools" /\ UNCHANGED <<phase, round, gen, sent>>
          /\ \A u \in Turns : u # t => todo'[u] = todo[u]
      BY <1>0, <1>10 DEF ExecuteTool, Ready
    <2> QED  BY <1>0, <2>1 DEF TurnsGo
  <1>11. ASSUME NEW t \in Turns, NextRound(t)
         PROVE  TurnsGo'
    <2>1. /\ phase[t] = "tools" /\ todo[t] = {} /\ round' = [round EXCEPT ![t] = round[t] + 1]
          /\ phase' = [phase EXCEPT ![t] = IF round[t] + 1 < MaxToolRounds THEN "asks" ELSE "generates"]
          /\ UNCHANGED <<todo, gen, sent>>
      BY <1>11 DEF NextRound, Ready, Goes
    <2> QED  BY <1>0, <2>1 DEF TurnsGo
  <1>12. CASE DeleteConversation \/ CleanupEmptyConversations
    <2>1. UNCHANGED <<phase, round, todo, sent, gen>>
      BY <1>12 DEF DeleteConversation, CleanupEmptyConversations, turnVars
    <2> QED  BY <2>1 DEF TurnsGo
  <1>13. CASE Crash
    <2>1. /\ phase' = [t \in Turns |-> "idle"] /\ round' = [t \in Turns |-> 0]
          /\ todo' = [t \in Turns |-> {}] /\ gen' = [t \in Turns |-> "none"]
      BY <1>13 DEF Crash
    <2> QED  BY <2>1 DEF TurnsGo
  <1> QED
    BY <1>1, <1>3, <1>4, <1>6, <1>7, <1>8, <1>9, <1>10, <1>11, <1>12, <1>13 DEF ChatNext, TurnSteps

\* One goroutine at most makes the one-line summary.
LEMMA OneLineStep ==
    ASSUME TalkTyped, TurnsGo, OneLine, ChatNext
    PROVE  OneLine'
  <1>0. /\ conv \in [exists : BOOLEAN, tokens : Nat, title : Nat, summaries : 0 .. 1]
        /\ gen \in [Turns -> {"none", "reads", "asks"}] /\ sent \in Nat
    BY DEF TalkTyped
  <1>1. ASSUME UNCHANGED <<gen, inFlight>>, sent' \in Nat, sent <= sent',
               conv'.summaries = conv.summaries, conv'.exists => conv.exists
        PROVE  OneLine'
    BY <1>0, <1>1 DEF OneLine
  <1>2. ASSUME NEW t \in Turns, SendMessage(t) \/ CountMessage(t)
        PROVE  OneLine'
    <2>1. UNCHANGED <<gen, inFlight>> /\ sent' \in Nat /\ sent <= sent'
      BY <1>0, <1>2 DEF SendMessage, CountMessage
    <2>2. conv'.summaries = conv.summaries /\ (conv'.exists => conv.exists)
      BY <1>0, <1>2 DEF SendMessage, CountMessage
    <2> QED  BY <1>1, <2>1, <2>2
  <1>3. ASSUME NEW t \in Turns,
               \/ CheckTokens(t) \/ SaveMessage(t) \/ SaveFails(t) \/ ReadHistory(t)
               \/ ChatFails(t) \/ Answer(t)
               \/ CallTools(t) \/ ExecuteTool(t) \/ NextRound(t) \/ MaybeSummarize(t)
               \/ SummaryFails(t) \/ SummarizeOlderMessages(t) \/ MaybeGenerateSummary(t)
        PROVE  OneLine'
    <2>1. UNCHANGED <<gen, inFlight, conv, sent>>
      BY <1>3 DEF CheckTokens, SaveMessage, SaveFails, ReadHistory, ChatFails, Answer, CallTools,
                  ExecuteTool, NextRound, MaybeSummarize, SummaryFails, SummarizeOlderMessages,
                  MaybeGenerateSummary
    <2> QED  BY <1>0, <1>1, <2>1
  <1>4. ASSUME NEW t \in Turns, Launch(t)
        PROVE  OneLine'
    <2>1. UNCHANGED <<conv, sent>>  BY <1>4 DEF Launch
    <2>2. CASE inFlight
      <3>1. UNCHANGED <<gen, inFlight>>  BY <1>4, <2>2 DEF Launch
      <3> QED  BY <1>0, <1>1, <2>1, <3>1
    <2>3. CASE ~inFlight
      <3>1. inFlight' = TRUE /\ gen' = [gen EXCEPT ![t] = "reads"]  BY <1>4, <2>3 DEF Launch
      <3>2. \A u \in Turns : gen[u] = "none"  BY <1>0, <2>3 DEF OneLine
      <3> QED  BY <1>0, <2>1, <3>1, <3>2 DEF OneLine
    <2> QED  BY <2>2, <2>3
  <1>5. ASSUME NEW t \in Turns, gen[t] # "none", Finish(t), UNCHANGED sent,
               conv'.summaries = conv.summaries \/ conv'.summaries = 0 \/ 0 < sent
        PROVE  OneLine'
    <2>1. gen' = [gen EXCEPT ![t] = "none"]  BY <1>5 DEF Finish
    <2>2. \A u \in Turns : gen[u] # "none" => u = t  BY <1>5 DEF OneLine
    <2>3. \A u \in Turns : gen'[u] = "none"  BY <1>0, <2>1, <2>2
    <2>4. 0 < conv'.summaries => 0 < sent'  BY <1>0, <1>5 DEF OneLine
    <2> QED  BY <2>3, <2>4 DEF OneLine
  <1>6. ASSUME NEW t \in Turns, Generate(t)
        PROVE  OneLine'
    <2>1. UNCHANGED <<conv, sent>> /\ gen[t] = "reads"
      BY <1>6 DEF Generate, GenerateDisplaySummary
    <2>2. CASE Finish(t)  BY <1>5, <2>1, <2>2
    <2>3. CASE conv.exists /\ conv.summaries = 0 /\ gen' = [gen EXCEPT ![t] = "asks"] /\ UNCHANGED inFlight
      <3>1. \A u \in Turns : gen[u] # "none" => u = t  BY <2>1 DEF OneLine
      <3> QED  BY <1>0, <2>1, <2>3, <3>1 DEF OneLine
    <2> QED  BY <1>6, <2>2, <2>3 DEF Generate, GenerateDisplaySummary
  <1>7. ASSUME NEW t \in Turns, SaveSummary(t)
        PROVE  OneLine'
    <2>1. gen[t] = "asks" /\ Finish(t) /\ UNCHANGED sent  BY <1>7 DEF SaveSummary
    <2>2. 0 < sent  BY <2>1 DEF TurnsGo
    <2> QED  BY <1>5, <2>1, <2>2
  <1>8. CASE DeleteConversation \/ CleanupEmptyConversations
    <2>1. UNCHANGED <<sent, gen, inFlight>> /\ conv' = [conv EXCEPT !.exists = FALSE]
      BY <1>8 DEF DeleteConversation, CleanupEmptyConversations
    <2>2. conv'.summaries = conv.summaries /\ ~conv'.exists  BY <1>0, <2>1
    <2> QED  BY <1>0, <1>1, <2>1, <2>2
  <1>9. CASE Crash
    <2>1. gen' = [t \in Turns |-> "none"] /\ UNCHANGED <<conv, sent>>  BY <1>9 DEF Crash
    <2> QED  BY <2>1 DEF OneLine
  <1> QED  BY <1>2, <1>3, <1>4, <1>6, <1>7, <1>8, <1>9 DEF ChatNext, TurnSteps

\* A step that creates no message and counts none, or a message not to be counted
LEMMA UncountedKept ==
    ASSUME TalkTyped, Counted, UNCHANGED adding, created' \in Nat, created <= created',
           conv'.tokens = conv.tokens, conv'.title = conv.title
    PROVE  Counted'
  <1>1. Pending' = Pending  BY DEF Pending
  <1>2. conv.tokens \in Nat /\ conv.title \in Nat /\ created \in Nat  BY DEF TalkTyped
  <1>3. Cardinality(Pending) \in Nat  BY FS_CardinalityType DEF Counted
  <1>4. IsFiniteSet(Pending) /\ conv.tokens + Cardinality(Pending) <= created /\ conv.title <= created
    BY DEF Counted
  <1> HIDE DEF Pending
  <1>5. IsFiniteSet(Pending') /\ conv'.tokens + Cardinality(Pending') <= created'
        /\ conv'.title <= created'
    BY <1>1, <1>2, <1>3, <1>4
  <1>6. \A t, u \in Turns : adding'[t] # 0 /\ adding'[t] = adding'[u] => t = u  BY DEF Counted
  <1> QED  BY <1>5, <1>6 DEF Counted

\* A message added is still to be counted, one refused never is,
LEMMA AddCounted ==
    ASSUME TalkTyped, Counted, NEW t \in Turns, adding[t] = 0, NEW m, AddMessage(t, m), UNCHANGED conv
    PROVE  Counted'
  <1>1. /\ created \in Nat /\ adding \in [Turns -> 0 .. created]
        /\ conv.tokens \in Nat /\ conv.title \in Nat
    BY DEF TalkTyped
  <1> SUFFICES ASSUME Saves(t, m) PROVE Counted'
    <2>1. CASE Refused
      <3>1. UNCHANGED <<adding, conv>> /\ created' = created + 1  BY <2>1 DEF Refused
      <3> QED  BY <1>1, <3>1, UncountedKept
    <2> QED  BY <2>1 DEF AddMessage
  <1>2. adding' = [adding EXCEPT ![t] = created + 1] /\ created' = created + 1  BY DEF Saves
  <1>3. \A u \in Turns : adding'[u] = IF u = t THEN created + 1 ELSE adding[u]  BY <1>1, <1>2
  <1>4. Pending' = Pending \cup {created + 1}
    <2>1. \A n : n \in Pending' <=> n \in Pending \cup {created + 1}
      <3> TAKE n
      <3>1. n \in Pending' <=> n # 0 /\ \E u \in Turns : n = adding'[u]  BY DEF Pending
      <3>2. n \in Pending <=> n # 0 /\ \E u \in Turns : n = adding[u]  BY DEF Pending
      <3> QED  BY <1>1, <1>3, <3>1, <3>2
    <2> QED  BY <2>1
  <1>5. IsFiniteSet(Pending) /\ conv.tokens + Cardinality(Pending) <= created /\ conv.title <= created
    BY DEF Counted
  <1>6. created + 1 \notin Pending  BY <1>1 DEF Pending
  <1> HIDE DEF Pending
  <1>7. IsFiniteSet(Pending') /\ Cardinality(Pending') = Cardinality(Pending) + 1
        /\ Cardinality(Pending) \in Nat
    BY <1>4, <1>5, <1>6, FS_AddElement, FS_CardinalityType
  <1>8. IsFiniteSet(Pending') /\ conv'.tokens + Cardinality(Pending') <= created'
        /\ conv'.title <= created'
    BY <1>1, <1>2, <1>5, <1>7
  <1>9. \A u, v \in Turns : adding'[u] # 0 /\ adding'[u] = adding'[v] => u = v
    <2>1. \A u \in Turns : adding[u] # created + 1  BY <1>1
    <2> QED  BY <1>3, <2>1 DEF Counted
  <1> QED  BY <1>8, <1>9 DEF Counted

\* and is counted once.
LEMMA CountCounted ==
    ASSUME TalkTyped, Counted, NEW t \in Turns, CountMessage(t)
    PROVE  Counted'
  <1>1. /\ created \in Nat /\ adding \in [Turns -> 0 .. created]
        /\ conv \in [exists : BOOLEAN, tokens : Nat, title : Nat, summaries : 0 .. 1]
    BY DEF TalkTyped
  <1>2. adding[t] # 0 /\ adding' = [adding EXCEPT ![t] = 0] /\ created' = created
    BY DEF CountMessage
  <1>3. \A u \in Turns : adding'[u] = IF u = t THEN 0 ELSE adding[u]  BY <1>1, <1>2
  <1>4. Pending' = Pending \ {adding[t]}
    <2>1. \A n : n \in Pending' <=> n \in Pending \ {adding[t]}
      <3> TAKE n
      <3>1. n \in Pending' <=> n # 0 /\ \E u \in Turns : n = adding'[u]  BY DEF Pending
      <3>2. n \in Pending <=> n # 0 /\ \E u \in Turns : n = adding[u]  BY DEF Pending
      <3>3. \A u \in Turns : u # t => adding[u] # adding[t]  BY <1>2 DEF Counted
      <3> QED  BY <1>1, <1>3, <3>1, <3>2, <3>3
    <2> QED  BY <2>1
  <1>5. IsFiniteSet(Pending) /\ conv.tokens + Cardinality(Pending) <= created /\ conv.title <= created
    BY DEF Counted
  <1>6. adding[t] \in Pending /\ adding[t] \in 0 .. created  BY <1>1, <1>2 DEF Pending
  <1> HIDE DEF Pending
  <1>7. IsFiniteSet(Pending') /\ Cardinality(Pending') = Cardinality(Pending) - 1
        /\ Cardinality(Pending) \in Nat
    BY <1>4, <1>5, <1>6, FS_RemoveElement, FS_CardinalityType
  <1>8. /\ conv'.tokens \in {conv.tokens, conv.tokens + 1}
        /\ conv'.title \in {conv.title, adding[t]}
    <2>1. \/ conv' = conv
          \/ conv' = [conv EXCEPT !.tokens = @ + 1, !.title = adding[t]]
          \/ conv' = [conv EXCEPT !.tokens = @ + 1, !.title = conv.title]
      BY <1>1 DEF CountMessage
    <2> QED  BY <1>1, <2>1
  <1>9. IsFiniteSet(Pending') /\ conv'.tokens + Cardinality(Pending') <= created'
        /\ conv'.title <= created'
    BY <1>1, <1>2, <1>5, <1>6, <1>7, <1>8
  <1>10. \A u, v \in Turns : adding'[u] # 0 /\ adding'[u] = adding'[v] => u = v
    BY <1>3 DEF Counted
  <1> QED  BY <1>9, <1>10 DEF Counted

\* No step counts more messages than are created.
LEMMA CountedStep ==
    ASSUME TalkTyped, Counted, ChatNext
    PROVE  Counted'
  <1>0. /\ created \in Nat
        /\ conv \in [exists : BOOLEAN, tokens : Nat, title : Nat, summaries : 0 .. 1]
    BY DEF TalkTyped
  <1>1. ASSUME NEW t \in Turns,
               \/ SendMessage(t) \/ CheckTokens(t) \/ ReadHistory(t) \/ ChatFails(t) \/ NextRound(t)
               \/ MaybeSummarize(t) \/ SummaryFails(t) \/ MaybeGenerateSummary(t) \/ Launch(t)
               \/ Generate(t)
        PROVE  Counted'
    <2>1. UNCHANGED <<conv, created, adding>>
      BY <1>1 DEF SendMessage, CheckTokens, ReadHistory, ChatFails, NextRound, MaybeSummarize,
                  SummaryFails, MaybeGenerateSummary, Launch, Generate, GenerateDisplaySummary,
                  turnVars
    <2> QED  BY <1>0, <2>1, UncountedKept
  <1>2. ASSUME NEW t \in Turns, SaveSummary(t)
        PROVE  Counted'
    <2>1. UNCHANGED <<created, adding>> /\ (Write \/ UNCHANGED conv)
      BY <1>2 DEF SaveSummary, turnVars
    <2>2. conv'.tokens = conv.tokens /\ conv'.title = conv.title  BY <1>0, <2>1 DEF Write
    <2> QED  BY <1>0, <2>1, <2>2, UncountedKept
  <1>3. ASSUME NEW t \in Turns, SummarizeOlderMessages(t) \/ SaveFails(t)
        PROVE  Counted'
    <2>1. UNCHANGED <<conv, adding>> /\ created' = created + 1
      BY <1>3 DEF SummarizeOlderMessages, SaveFails, Refused
    <2> QED  BY <1>0, <2>1, UncountedKept
  <1>4. ASSUME NEW t \in Turns, SaveMessage(t) \/ Answer(t) \/ CallTools(t) \/ ExecuteTool(t)
        PROVE  Counted'
    <2>1. adding[t] = 0 /\ UNCHANGED conv
      BY <1>4 DEF SaveMessage, Answer, CallTools, ExecuteTool, Ready
    <2>2. \E m : AddMessage(t, m)
      BY <1>4 DEF SaveMessage, Answer, CallTools, ExecuteTool, AddMessage
    <2> QED  BY <2>1, <2>2, AddCounted
  <1>5. CASE DeleteConversation \/ CleanupEmptyConversations
    <2>1. UNCHANGED <<created, adding>> /\ conv' = [conv EXCEPT !.exists = FALSE]
      BY <1>5 DEF DeleteConversation, CleanupEmptyConversations, turnVars
    <2>2. conv'.tokens = conv.tokens /\ conv'.title = conv.title  BY <1>0, <2>1
    <2> QED  BY <1>0, <2>1, <2>2, UncountedKept
  <1>6. CASE Crash
    <2>1. adding' = [t \in Turns |-> 0] /\ UNCHANGED <<conv, created>>  BY <1>6 DEF Crash
    <2>2. Pending' = {}  BY <2>1 DEF Pending
    <2>3. IsFiniteSet(Pending') /\ Cardinality(Pending') = 0  BY <2>2, FS_EmptySet
    <2>4. /\ conv.tokens \in Nat /\ conv.title <= created /\ Cardinality(Pending) \in Nat
          /\ conv.tokens + Cardinality(Pending) <= created
      BY <1>0, FS_CardinalityType DEF Counted
    <2> HIDE DEF Pending
    <2>5. conv'.tokens + Cardinality(Pending') <= created' /\ conv'.title <= created'
      BY <1>0, <2>1, <2>3, <2>4
    <2>6. \A u, v \in Turns : adding'[u] # 0 /\ adding'[u] = adding'[v] => u = v  BY <2>1
    <2> QED  BY <2>3, <2>5, <2>6 DEF Counted
  <1> QED  BY <1>1, <1>2, <1>3, <1>4, <1>5, <1>6, CountCounted DEF ChatNext, TurnSteps

-----------------------------------------------------------------------------
(* What turns ask *)

Left == UNION {todo[t] : t \in Turns}

\* While a turn is busy no other has anything to do.
LEMMA OthersIdle ==
    ASSUME TalkTyped, TurnsGo, OneByOne, NEW t \in Turns, phase[t] # "idle"
    PROVE  /\ \A u \in Turns \ {t} : phase[u] = "idle" /\ todo[u] = {}
           /\ Left = todo[t]
  <1>1. \A u \in Turns : Busy(u) => u = t  BY DEF OneByOne, Busy
  <1>2. \A u \in Turns \ {t} : phase[u] = "idle"  BY <1>1 DEF Busy
  <1>3. \A u \in Turns \ {t} : todo[u] = {}  BY <1>2 DEF TurnsGo
  <1>4. Left = todo[t]  BY <1>3 DEF Left
  <1> QED  BY <1>2, <1>3, <1>4

\* What turns ask has no stray answer, whatever the steps are.
LEMMA AskingStep ==
    ASSUME TalkTyped, TurnsGo, Asking, Waiting, ChatNext, manner' = manner
    PROVE  Asking'
  <1> DEFINE all == manner = "waits"
  <1>0. /\ created \in Nat /\ all \in BOOLEAN /\ all' = all /\ DOMAIN phase = Turns /\ DOMAIN todo = Turns
        /\ request \in [Turns -> Seq(Messages(created))]
        /\ Among(messages, created)
    BY DEF TalkTyped
  \* One turn moves, and what it asks is sound.
  <1>1. ASSUME NEW t \in Turns,
               \A u \in Turns \ {t} : /\ phase'[u] = phase[u] /\ request'[u] = request[u]
                                      /\ todo'[u] = todo[u],
               phase'[t] \in {"asks", "tools"} =>
                  /\ NoStrayOf(request'[t], all)
                  /\ \A c \in todo'[t] : \E i \in DOMAIN request'[t] : c \in request'[t][i].calls
        PROVE  Asking'
    BY <1>0, <1>1 DEF Asking
  <1>2. ASSUME NEW t \in Turns, UNCHANGED <<request, todo>>,
               \A u \in Turns \ {t} : phase'[u] = phase[u],
               phase'[t] \in {"asks", "tools"} => phase[t] \in {"asks", "tools"}
        PROVE  Asking'
    BY <1>0, <1>2 DEF Asking
  <1>3. ASSUME NEW t \in Turns,
               \/ SendMessage(t) \/ CheckTokens(t) \/ SaveMessage(t) \/ SaveFails(t) \/ Answer(t)
               \/ MaybeSummarize(t) \/ SummaryFails(t) \/ SummarizeOlderMessages(t)
        PROVE  Asking'
    <2>1. /\ UNCHANGED <<request, todo>>
          /\ \E p \in {"checks", "saves", "idle", "reads", "decides", "summarises", "generates"} :
                phase' = [phase EXCEPT ![t] = p]
      BY <1>3 DEF SendMessage, CheckTokens, SaveMessage, SaveFails, Answer, MaybeSummarize,
                  SummaryFails, SummarizeOlderMessages, Goes
    <2> QED  BY <1>0, <1>2, <2>1
  <1>4. ASSUME NEW t \in Turns, CountMessage(t) \/ Generate(t) \/ SaveSummary(t)
        PROVE  Asking'
    <2>1. UNCHANGED <<request, todo, phase>>
      BY <1>4 DEF CountMessage, Generate, SaveSummary, turnVars
    <2> QED  BY <1>2, <2>1
  <1>5. ASSUME NEW t \in Turns, ChatFails(t) \/ Launch(t) \/ MaybeGenerateSummary(t)
        PROVE  Asking'
    <2>1. CASE Over(t)
      <3>1. /\ phase' = [phase EXCEPT ![t] = "idle"] /\ todo' = [todo EXCEPT ![t] = {}]
            /\ request' = [request EXCEPT ![t] = <<>>]
        BY <2>1 DEF Over, Goes
      <3> QED  BY <1>0, <1>1, <3>1
    <2>2. CASE Goes(t, "launches") /\ UNCHANGED <<request, round, todo, snapshot>>
      BY <1>0, <1>2, <2>2 DEF Goes
    <2> QED  BY <1>5, <2>1, <2>2 DEF ChatFails, Launch, MaybeGenerateSummary
  <1>6. ASSUME NEW t \in Turns, ReadHistory(t)
        PROVE  Asking'
    <2>1. phase[t] = "reads" /\ UNCHANGED todo /\ todo[t] = {}
      BY <1>6 DEF ReadHistory, Ready, TurnsGo
    <2>2. CASE conv.exists
      <3>1. /\ request' = [request EXCEPT ![t] = Sanitize(Chronological(messages))]
            /\ \E p \in {"asks", "generates"} : phase' = [phase EXCEPT ![t] = p]
        BY <1>6, <2>2 DEF ReadHistory, Goes
      <3> DEFINE q == Chronological(messages)
      <3>2. NoStrayOf(Sanitize(q), FALSE)  BY <1>0, SanitizedIsSound
      <3>3. ASSUME manner = "waits" PROVE NoStrayOf(Sanitize(q), TRUE)
        <4>1. OneByOne /\ InOrder(messages, Left)  BY <2>2, <3>3 DEF Waiting, Left
        <4>2. Left = {}  BY <2>1, <4>1, OthersIdle
        <4>3. NoStrayAnswer(q) /\ q \in Seq(Messages(created))
          BY <1>0, <4>1, <4>2, SoundHistory, HistoryTyped
        <4> HIDE DEF q
        <4>4. NoStrayOf(q, TRUE)  BY <4>3, NoStrayMeans
        <4> QED  BY <1>0, <4>3, <4>4, SanitizedAgain
      <3> HIDE DEF q
      <3>4. NoStrayOf(Sanitize(q), all)
        <4>1. CASE manner = "waits"
          <5>1. all = TRUE  BY <4>1
          <5> QED  BY <3>3, <4>1, <5>1
        <4>2. CASE manner # "waits"
          <5>1. all = FALSE  BY <4>2
          <5> QED  BY <3>2, <5>1
        <4> QED  BY <4>1, <4>2
      <3> HIDE DEF all
      <3>5. request'[t] = Sanitize(q) /\ todo'[t] = {}  BY <1>0, <2>1, <3>1 DEF q
      <3>6. \A u \in Turns \ {t} :
               phase'[u] = phase[u] /\ request'[u] = request[u] /\ todo'[u] = todo[u]
        BY <1>0, <2>1, <3>1
      <3> QED  BY <1>1, <3>4, <3>5, <3>6
    <2>3. CASE ~conv.exists
      <3>1. UNCHANGED request /\ phase' = [phase EXCEPT ![t] = "idle"]
        BY <1>6, <2>3 DEF ReadHistory, Goes
      <3> QED  BY <1>0, <1>2, <2>1, <3>1
    <2> QED  BY <2>2, <2>3
  <1>7. ASSUME NEW t \in Turns, CallTools(t)
        PROVE  Asking'
    <2>1. PICK k \in 1 .. MaxCalls, o \in BOOLEAN :
             LET calls == {Call(created + 1, i, o) : i \in 1 .. k}
                 m == Message(created + 1, "assistant", calls, {}, {})
             IN  /\ AddMessage(t, m)
                 /\ request' = [request EXCEPT ![t] = Append(@, m)]
                 /\ todo' = [todo EXCEPT ![t] = calls]
      BY <1>7 DEF CallTools
    <2> DEFINE calls == {Call(created + 1, i, o) : i \in 1 .. k}
               m == Message(created + 1, "assistant", calls, {}, {})
    <2>2. m \in Messages(created + 1) /\ m.role = "assistant" /\ m.calls = calls  BY CallMessage
    <2>3. request' = [request EXCEPT ![t] = Append(@, m)] /\ todo' = [todo EXCEPT ![t] = calls]
      BY <2>1
    <2> HIDE DEF m, calls
    <2>4. phase[t] = "asks" /\ phase' = [phase EXCEPT ![t] = "tools"]
      BY <1>7 DEF CallTools, Ready, Goes
    <2>5. request[t] \in Seq(Messages(created + 1))  BY <1>0, MessagesGrow
    <2>6. NoStrayOf(request[t], all)  BY <2>4 DEF Asking
    <2> HIDE DEF all
    <2>7. NoStrayOf(Append(request[t], m), all)  BY <1>0, <2>2, <2>5, <2>6, NoStrayAdded
    <2>8. /\ Len(request[t]) + 1 \in DOMAIN Append(request[t], m)
          /\ Append(request[t], m)[Len(request[t]) + 1].calls = calls
      BY <2>2, <2>5
    <2>9. request'[t] = Append(request[t], m) /\ todo'[t] = calls  BY <1>0, <2>3
    <2>10. \A u \in Turns \ {t} :
              phase'[u] = phase[u] /\ request'[u] = request[u] /\ todo'[u] = todo[u]
      BY <1>0, <2>3, <2>4
    <2> QED  BY <1>1, <2>7, <2>8, <2>9, <2>10
  <1>8. ASSUME NEW t \in Turns, ExecuteTool(t)
        PROVE  Asking'
    <2> DEFINE m == Message(created + 1, "tool", {}, {FirstCall(t)}, {})
    <2>1. phase[t] = "tools" /\ todo[t] # {}  BY <1>8 DEF ExecuteTool, Ready
    <2>2. /\ m \in Messages(created + 1) /\ m.answers = {FirstCall(t)}
          /\ FirstCall(t) \in todo[t]
      BY <2>1, AnswerMessage, FirstCallExists
    <2>3. /\ request' = [request EXCEPT ![t] = Append(@, m)]
          /\ todo' = [todo EXCEPT ![t] = @ \ {FirstCall(t)}] /\ UNCHANGED phase
      BY <1>8 DEF ExecuteTool
    <2> HIDE DEF m
    <2>4. request[t] \in Seq(Messages(created + 1))  BY <1>0, MessagesGrow
    <2>5. /\ NoStrayOf(request[t], all)
          /\ \A c \in todo[t] : \E i \in DOMAIN request[t] : c \in request[t][i].calls
      BY <2>1 DEF Asking
    <2>6. DOMAIN request[t] = 1 .. Len(request[t])  BY <2>4
    <2>7. \A c \in m.answers : \E i \in 1 .. Len(request[t]) : c \in request[t][i].calls
      BY <2>2, <2>5, <2>6
    <2> HIDE DEF all
    <2>8. NoStrayOf(Append(request[t], m), all)  BY <1>0, <2>2, <2>4, <2>5, <2>7, NoStrayAdded
    <2>9. \A i \in 1 .. Len(request[t]) :
             i \in DOMAIN Append(request[t], m) /\ Append(request[t], m)[i] = request[t][i]
      BY <2>4
    <2>10. request'[t] = Append(request[t], m) /\ todo'[t] = todo[t] \ {FirstCall(t)}  BY <1>0, <2>3
    <2>11. \A c \in todo'[t] : \E i \in DOMAIN request'[t] : c \in request'[t][i].calls
      BY <2>5, <2>6, <2>9, <2>10
    <2>12. \A u \in Turns \ {t} :
              phase'[u] = phase[u] /\ request'[u] = request[u] /\ todo'[u] = todo[u]
      BY <1>0, <2>3
    <2> QED  BY <1>1, <2>8, <2>10, <2>11, <2>12
  <1>9. ASSUME NEW t \in Turns, NextRound(t)
        PROVE  Asking'
    <2>1. /\ phase[t] = "tools" /\ UNCHANGED todo
          /\ request' = [request EXCEPT ![t] = Sanitize(@)]
          /\ \E p \in {"asks", "generates"} : phase' = [phase EXCEPT ![t] = p]
      BY <1>9 DEF NextRound, Ready, Goes
    <2>2. NoStrayOf(request[t], all) /\ todo[t] = {}  BY <1>9, <2>1 DEF Asking, NextRound
    <2>3. request[t] \in Seq(Messages(created))  BY <1>0
    <2> HIDE DEF all
    <2>4. NoStrayOf(Sanitize(request[t]), all)  BY <1>0, <2>2, <2>3, SanitizedAgain
    <2>5. request'[t] = Sanitize(request[t]) /\ todo'[t] = {}  BY <1>0, <2>1, <2>2
    <2>6. \A u \in Turns \ {t} :
             phase'[u] = phase[u] /\ request'[u] = request[u] /\ todo'[u] = todo[u]
      BY <1>0, <2>1
    <2> QED  BY <1>1, <2>4, <2>5, <2>6
  <1>10. CASE DeleteConversation \/ CleanupEmptyConversations
    <2>1. UNCHANGED <<phase, request, todo>>
      BY <1>10 DEF DeleteConversation, CleanupEmptyConversations, turnVars
    <2> QED  BY <1>0, <2>1 DEF Asking
  <1>11. CASE Crash
    <2>1. phase' = [t \in Turns |-> "idle"]  BY <1>11 DEF Crash
    <2> QED  BY <2>1 DEF Asking
  <1> QED
    BY <1>3, <1>4, <1>5, <1>6, <1>7, <1>8, <1>9, <1>10, <1>11 DEF ChatNext, TurnSteps

-----------------------------------------------------------------------------
(* A user who waits *)

\* The calls that are left after one turn has moved
LEMMA LeftAfter ==
    ASSUME NEW t \in Turns, \A u \in Turns \ {t} : todo'[u] = {}
    PROVE  Left' = todo'[t]
  BY DEF Left

WaitingNow ==
    /\ \A t \in Turns : phase[t] \in {"asks", "tools"} => Follow(request[t], todo[t])
    /\ conv.exists => InOrder(messages, Left)
    /\ \A t \in Turns : conv.exists /\ phase[t] = "summarises" => snapshot[t] = messages

\* Steps that leave the messages
LEMMA StillWaiting ==
    ASSUME WaitingNow, NEW t \in Turns, UNCHANGED <<messages, todo>>, conv'.exists => conv.exists,
           \A u \in Turns \ {t} : /\ phase'[u] = phase[u] /\ request'[u] = request[u]
                                  /\ snapshot'[u] = snapshot[u],
           phase'[t] \in {"asks", "tools"} => Follow(request'[t], todo[t]),
           conv.exists /\ phase'[t] = "summarises" => snapshot'[t] = messages
    PROVE  WaitingNow'
  <1>1. Left' = Left  BY DEF Left
  <1>2. \A u \in Turns : phase'[u] \in {"asks", "tools"} => Follow(request'[u], todo'[u])
    BY DEF WaitingNow
  <1>3. conv'.exists => InOrder(messages', Left')  BY <1>1 DEF WaitingNow
  <1>4. \A u \in Turns : conv'.exists /\ phase'[u] = "summarises" => snapshot'[u] = messages'
    BY DEF WaitingNow
  <1> QED  BY <1>2, <1>3, <1>4 DEF WaitingNow

\* Steps of the only busy turn
LEMMA AloneWaiting ==
    ASSUME TalkTyped, TurnsGo, OneByOne, WaitingNow, NEW t \in Turns, phase[t] # "idle", UNCHANGED conv,
           \A u \in Turns \ {t} : phase'[u] = phase[u] /\ todo'[u] = todo[u],
           phase'[t] \in {"asks", "tools"} => Follow(request'[t], todo'[t]),
           phase'[t] # "summarises",
           conv.exists => InOrder(messages', todo'[t])
    PROVE  WaitingNow'
  <1>1. \A u \in Turns \ {t} : phase'[u] = "idle" /\ todo'[u] = {}  BY OthersIdle
  <1>2. Left' = todo'[t]  BY <1>1, LeftAfter
  <1>3. \A u \in Turns : phase'[u] \in {"asks", "tools"} => Follow(request'[u], todo'[u])
    BY <1>1
  <1>4. \A u \in Turns : phase'[u] # "summarises"  BY <1>1
  <1> QED  BY <1>2, <1>3, <1>4 DEF WaitingNow

\* A summary keeps the messages of a user who waits in order,
LEMMA SummaryWaiting ==
    ASSUME TalkTyped, TurnsGo, OneByOne, WaitingNow, NEW t \in Turns, SummarizeOlderMessages(t)
    PROVE  WaitingNow'
  <1> DEFINE told == UNION {m.about : m \in Summarised(t)}
             s == [Message(created + 1, "system", {}, {}, told) EXCEPT !.at = SummaryTime(t)]
             D == Older(messages)
  <1>1. phase[t] = "summarises" /\ todo[t] = {} /\ Left = {}
    <2>1. phase[t] = "summarises"  BY DEF SummarizeOlderMessages, Ready
    <2> QED  BY <2>1, OthersIdle DEF TurnsGo
  <1>2. /\ messages' = (messages \ Deleted(t)) \cup {s}
        /\ phase' = [phase EXCEPT ![t] = "generates"] /\ UNCHANGED <<conv, todo>>
    BY DEF SummarizeOlderMessages, Goes
  <1>3. s.role = "system" /\ s.calls = {} /\ s.at = SummaryTime(t)  BY SummaryMessage
  <1>4. \A k \in Kept(t) : SummaryTime(t) < k.at /\ k.at \in Int
    <2>1. \A k \in Kept(t) : k.at \in Int  BY DEF Kept, TalkTyped, Among, Proper, Row
    <2> QED  BY <2>1, SummaryTyped
  <1>5. SummaryTime(t) \in Int  BY SummaryTyped
  <1> HIDE DEF s
  <1>6. ASSUME conv.exists PROVE InOrder(messages', {})
    <2>1. snapshot[t] = messages /\ InOrder(messages, {})  BY <1>1, <1>6 DEF WaitingNow
    <2>2. Deleted(t) = D /\ Kept(t) = messages \ D  BY <2>1 DEF Deleted, Summarised, Kept, Older
    <2>3. \A k \in messages \ D : Before(s, k) /\ ~Before(k, s)
      BY <1>3, <1>4, <1>5, <2>2 DEF Before
    <2>4. Among(messages, created) /\ created \in Nat  BY DEF TalkTyped
    <2>5. InOrder((messages \ D) \cup {s}, {})
      BY <1>3, <2>1, <2>3, <2>4, OrderlySummary
    <2> QED  BY <1>2, <2>2, <2>5
  <1>7. DOMAIN phase = Turns  BY DEF TalkTyped
  <1>8. phase'[t] = "generates" /\ \A u \in Turns \ {t} : phase'[u] = phase[u] /\ todo'[u] = todo[u]
    BY <1>2, <1>7
  <1> QED  BY <1>1, <1>2, <1>6, <1>8, AloneWaiting

\* and so does every other step of the turn.
LEMMA TurnWaiting ==
    ASSUME TalkTyped, TurnsGo, Asking, OneByOne, WaitingNow, NEW t \in Turns, mishaps = 1,
           manner = "waits", SendMessage(t) \/ TurnSteps(t)
    PROVE  WaitingNow'
  <1>0. /\ created \in Nat /\ created + 1 \in Nat /\ created + 1 > 0
        /\ DOMAIN phase = Turns /\ DOMAIN todo = Turns /\ DOMAIN snapshot = Turns
        /\ request \in [Turns -> Seq(Messages(created))] /\ Among(messages, created)
        /\ conv \in [exists : BOOLEAN, tokens : Nat, title : Nat, summaries : 0 .. 1]
    BY DEF TalkTyped
  <1>11. ~Refused /\ ~SaveFails(t)  BY DEF Refused, SaveFails
  <1>1. CASE SendMessage(t) \/ CheckTokens(t) \/ SummaryFails(t)
    <2>1. /\ UNCHANGED <<messages, todo, request, conv>>
          /\ \E p \in {"checks", "saves", "idle", "generates"} : phase' = [phase EXCEPT ![t] = p]
          /\ snapshot' = snapshot \/ snapshot' = [snapshot EXCEPT ![t] = {}]
      BY <1>1 DEF SendMessage, CheckTokens, SummaryFails, Goes
    <2> QED  BY <1>0, <2>1, StillWaiting
  <1>2. CASE CountMessage(t) \/ Generate(t) \/ SaveSummary(t)
    <2>1. UNCHANGED <<messages, todo, request, phase, snapshot>>
      BY <1>2 DEF CountMessage, Generate, SaveSummary, turnVars
    <2>2. conv'.exists => conv.exists
      BY <1>0, <1>2 DEF CountMessage, Generate, GenerateDisplaySummary, SaveSummary, Write
    <2> QED  BY <2>1, <2>2, StillWaiting DEF WaitingNow
  <1>3. CASE ReadHistory(t)
    <2>1. phase[t] = "reads" /\ todo[t] = {} /\ Left = {} /\ UNCHANGED <<conv, messages, todo, snapshot>>
      <3>1. phase[t] = "reads" /\ UNCHANGED <<conv, messages, todo, snapshot>>
        BY <1>3 DEF ReadHistory, Ready
      <3> QED  BY <3>1, OthersIdle DEF TurnsGo
    <2>2. CASE conv.exists
      <3> DEFINE q == Chronological(messages)
      <3>1. /\ request' = [request EXCEPT ![t] = Sanitize(q)]
            /\ \E p \in {"asks", "generates"} : phase' = [phase EXCEPT ![t] = p]
        BY <1>3, <2>2 DEF ReadHistory, Goes
      <3>2. InOrder(messages, {})  BY <2>1, <2>2 DEF WaitingNow
      <3>3. NoStrayAnswer(q) /\ Follow(q, {}) /\ q \in Seq(Messages(created))
        BY <1>0, <3>2, SoundHistory, HistoryTyped
      <3> HIDE DEF q
      <3>4. Sanitize(q) = q
        <4>1. NoStrayOf(q, TRUE)  BY <3>3, NoStrayMeans
        <4> QED  BY <1>0, <3>3, <4>1, SoundIsLeft
      <3>5. Follow(request'[t], todo[t])  BY <1>0, <2>1, <3>1, <3>3, <3>4
      <3> QED  BY <1>0, <2>1, <3>1, <3>5, StillWaiting
    <2>3. CASE ~conv.exists
      <3>1. UNCHANGED request /\ phase' = [phase EXCEPT ![t] = "idle"]
        BY <1>3, <2>3 DEF ReadHistory, Goes
      <3> QED  BY <1>0, <2>1, <3>1, StillWaiting
    <2> QED  BY <2>2, <2>3
  <1>4. CASE MaybeSummarize(t)
    <2>1. /\ UNCHANGED <<conv, messages, todo, request>>
          /\ \/ /\ snapshot' = [snapshot EXCEPT ![t] = messages]
                /\ phase' = [phase EXCEPT ![t] = "summarises"]
             \/ phase' = [phase EXCEPT ![t] = "generates"] /\ UNCHANGED snapshot
      BY <1>4 DEF MaybeSummarize, Goes
    <2> QED  BY <1>0, <2>1, StillWaiting
  <1>5. CASE NextRound(t)
    <2>1. /\ phase[t] = "tools" /\ UNCHANGED <<conv, messages, todo, snapshot>>
          /\ request' = [request EXCEPT ![t] = Sanitize(@)]
          /\ \E p \in {"asks", "generates"} : phase' = [phase EXCEPT ![t] = p]
      BY <1>5 DEF NextRound, Ready, Goes
    <2>2. NoStrayOf(request[t], TRUE) /\ request[t] \in Seq(Messages(created))
      <3>1. NoStrayOf(request[t], manner = "waits")  BY <2>1 DEF Asking
      <3>2. (manner = "waits") = TRUE  OBVIOUS
      <3> QED  BY <1>0, <3>1, <3>2
    <2>3. Sanitize(request[t]) = request[t]  BY <1>0, <2>2, SoundIsLeft
    <2>4. Follow(request[t], todo[t])  BY <2>1 DEF WaitingNow
    <2>5. request' = request  BY <1>0, <2>1, <2>3
    <2> QED  BY <1>0, <2>1, <2>4, <2>5, StillWaiting
  <1>6. CASE ChatFails(t) \/ Launch(t) \/ MaybeGenerateSummary(t)
    <2>1. /\ phase[t] \in {"asks", "launches", "generates"} /\ UNCHANGED <<conv, messages>>
      BY <1>6 DEF ChatFails, Launch, MaybeGenerateSummary, Ready
    <2>2. todo[t] = {} /\ Left = {}  BY <2>1, OthersIdle DEF TurnsGo
    <2>3. CASE Over(t)
      <3>1. /\ phase' = [phase EXCEPT ![t] = "idle"] /\ todo' = [todo EXCEPT ![t] = {}]
            /\ request' = [request EXCEPT ![t] = <<>>] /\ snapshot' = [snapshot EXCEPT ![t] = {}]
        BY <2>3 DEF Over, Goes
      <3>2. UNCHANGED todo
        <4>1. todo \in [Turns -> SUBSET {c \in AnyCall : c[1] <= created}]  BY DEF TalkTyped
        <4> QED  BY <2>2, <3>1, <4>1
      <3> QED  BY <1>0, <2>1, <3>1, <3>2, StillWaiting
    <2>4. CASE Goes(t, "launches") /\ UNCHANGED <<request, round, todo, snapshot>>
      BY <1>0, <2>1, <2>4, StillWaiting DEF Goes
    <2> QED  BY <1>6, <2>3, <2>4 DEF ChatFails, Launch, MaybeGenerateSummary
  <1>7. CASE SaveMessage(t) \/ Answer(t)
    <2>1. /\ phase[t] \in {"saves", "asks"} /\ phase[t] # "idle" /\ UNCHANGED <<conv, todo>>
          /\ \E p \in {"reads", "decides"} : phase' = [phase EXCEPT ![t] = p]
      BY <1>7 DEF SaveMessage, Answer, Ready, Goes
    <2>2. todo[t] = {} /\ Left = {}  BY <2>1, OthersIdle DEF TurnsGo
    <2>3. PICK m : /\ m.id = created + 1 /\ m.at = 2 * (created + 1) /\ m.role # "tool" /\ m.calls = {}
                   /\ Saves(t, m)
      <3>1. CASE SaveMessage(t)
        <4> DEFINE m == Message(created + 1, "user", {}, {}, {created + 1})
        <4>1. m.id = created + 1 /\ m.at = 2 * (created + 1) /\ m.role = "user" /\ m.calls = {}
          BY DEF Message
        <4>2. Saves(t, m)  BY <3>1 DEF SaveMessage
        <4> HIDE DEF m
        <4> QED  BY <4>1, <4>2
      <3>2. CASE Answer(t)
        <4> DEFINE m == Message(created + 1, "assistant", {}, {}, {})
        <4>1. m.id = created + 1 /\ m.at = 2 * (created + 1) /\ m.role = "assistant" /\ m.calls = {}
          BY DEF Message
        <4>2. Saves(t, m)  BY <3>2, <1>11 DEF Answer, AddMessage
        <4> HIDE DEF m
        <4> QED  BY <4>1, <4>2
      <3> QED  BY <1>7, <3>1, <3>2
    <2>4. conv.exists => InOrder(messages', todo'[t])
      <3> SUFFICES ASSUME conv.exists PROVE InOrder(messages', todo'[t])  OBVIOUS
      <3>1. InOrder(messages, {})  BY <2>2 DEF WaitingNow
      <3>2. InOrder(messages \cup {m}, m.calls)  BY <1>0, <2>3, <3>1, OrderlyMore
      <3> QED  BY <2>1, <2>2, <2>3, <3>2 DEF Saves
    <2> QED  BY <1>0, <2>1, <2>4, AloneWaiting
  <1>8. CASE CallTools(t)
    <2>1. PICK k \in 1 .. MaxCalls, o \in BOOLEAN :
             LET calls == {Call(created + 1, i, o) : i \in 1 .. k}
                 m == Message(created + 1, "assistant", calls, {}, {})
             IN  /\ AddMessage(t, m)
                 /\ request' = [request EXCEPT ![t] = Append(@, m)]
                 /\ todo' = [todo EXCEPT ![t] = calls]
      BY <1>8 DEF CallTools
    <2> DEFINE calls == {Call(created + 1, i, o) : i \in 1 .. k}
               m == Message(created + 1, "assistant", calls, {}, {})
    <2>2. /\ m.id = created + 1 /\ m.at = 2 * (created + 1) /\ m.role = "assistant" /\ m.calls = calls
          /\ calls \subseteq {c \in AnyCall : c[1] = created + 1}
      BY CallMessage
    <2>3. /\ Saves(t, m)
          /\ request' = [request EXCEPT ![t] = Append(@, m)]
          /\ todo' = [todo EXCEPT ![t] = calls]
      BY <1>11, <2>1 DEF AddMessage
    <2> HIDE DEF m, calls
    <2>4. phase[t] = "asks" /\ phase' = [phase EXCEPT ![t] = "tools"] /\ UNCHANGED conv
      BY <1>8 DEF CallTools, Ready, Goes
    <2>5. todo[t] = {} /\ Left = {}  BY <2>4, OthersIdle DEF TurnsGo
    <2>6. Follow(Append(request[t], m), calls)
      <3>1. Follow(request[t], {}) /\ request[t] \in Seq(Messages(created))
        BY <1>0, <2>4, <2>5 DEF WaitingNow
      <3>2. \A c \in calls : created < c[1]  BY <1>0, <2>2
      <3> QED  BY <1>0, <2>2, <3>1, <3>2, FollowCalls
    <2>7. conv.exists => InOrder(messages', calls)
      <3> SUFFICES ASSUME conv.exists PROVE InOrder(messages', calls)  OBVIOUS
      <3>1. InOrder(messages, {})  BY <2>5 DEF WaitingNow
      <3>2. \A c \in m.calls : c[1] = created + 1  BY <2>2
      <3>3. InOrder(messages \cup {m}, m.calls)  BY <1>0, <2>2, <3>1, <3>2, OrderlyMore
      <3> QED  BY <2>2, <2>3, <3>3 DEF Saves
    <2>8. /\ request'[t] = Append(request[t], m) /\ todo'[t] = calls /\ phase'[t] = "tools"
          /\ \A u \in Turns \ {t} : phase'[u] = phase[u] /\ todo'[u] = todo[u]
      BY <1>0, <2>3, <2>4
    <2> QED  BY <2>4, <2>6, <2>7, <2>8, AloneWaiting
  <1>9. CASE ExecuteTool(t)
    <2> DEFINE m == Message(created + 1, "tool", {}, {FirstCall(t)}, {})
    <2>1. phase[t] = "tools" /\ todo[t] # {} /\ UNCHANGED <<conv, phase>>
      BY <1>9 DEF ExecuteTool, Ready
    <2>2. /\ m.id = created + 1 /\ m.at = 2 * (created + 1) /\ m.role = "tool" /\ m.calls = {}
          /\ m.answers = {FirstCall(t)} /\ FirstCall(t) \in todo[t]
      BY <2>1, AnswerMessage, FirstCallExists
    <2>3. /\ Saves(t, m)
          /\ request' = [request EXCEPT ![t] = Append(@, m)]
          /\ todo' = [todo EXCEPT ![t] = @ \ {FirstCall(t)}]
      BY <1>9, <1>11 DEF ExecuteTool, AddMessage
    <2> HIDE DEF m
    <2>4. Left = todo[t]  BY <2>1, OthersIdle
    <2>5. Follow(Append(request[t], m), todo[t] \ {FirstCall(t)})
      <3>1. Follow(request[t], todo[t]) /\ request[t] \in Seq(Messages(created))
        BY <1>0, <2>1 DEF WaitingNow
      <3> QED  BY <2>2, <3>1, FollowAnswer
    <2>6. conv.exists => InOrder(messages', todo[t] \ {FirstCall(t)})
      <3> SUFFICES ASSUME conv.exists PROVE InOrder(messages', todo[t] \ {FirstCall(t)})  OBVIOUS
      <3>1. InOrder(messages, todo[t])  BY <2>4 DEF WaitingNow
      <3>2. InOrder(messages \cup {m}, todo[t] \ {FirstCall(t)})
        BY <1>0, <2>2, <3>1, OrderlyAnswer
      <3> QED  BY <2>3, <3>2 DEF Saves
    <2>7. /\ request'[t] = Append(request[t], m) /\ todo'[t] = todo[t] \ {FirstCall(t)}
          /\ \A u \in Turns \ {t} : phase'[u] = phase[u] /\ todo'[u] = todo[u]
      BY <1>0, <2>1, <2>3
    <2> QED  BY <2>1, <2>5, <2>6, <2>7, AloneWaiting
  <1>10. CASE SummarizeOlderMessages(t)  BY <1>10, SummaryWaiting
  <1> QED  BY <1>1, <1>2, <1>3, <1>4, <1>5, <1>6, <1>7, <1>8, <1>9, <1>10, <1>11 DEF TurnSteps

\* The messages of a user who waits stay in order.
LEMMA WaitingStep ==
    ASSUME TalkTyped, TurnsGo, Asking, Waiting, TalkNext
    PROVE  Waiting'
  <1> SUFFICES ASSUME manner = "waits" PROVE Waiting'  BY DEF Waiting, TalkNext
  <1>1. mishaps = 1 /\ OneByOne /\ WaitingNow  BY DEF Waiting, WaitingNow, Left
  <1>2. OneByOne' /\ manner' = manner /\ ChatNext  BY DEF TalkNext
  <1>3. ~Crash  BY <1>1 DEF Crash
  <1>4. ASSUME NEW t \in Turns, SendMessage(t) \/ TurnSteps(t)
        PROVE  WaitingNow' /\ mishaps' = 1
    <2>1. WaitingNow'  BY <1>1, <1>4, TurnWaiting
    <2>2. UNCHANGED mishaps
      BY <1>1, <1>4
      DEF TurnSteps, SendMessage, CheckTokens, SaveMessage, SaveFails, Saves, Refused, AddMessage,
          CountMessage, ReadHistory, ChatFails, Answer, CallTools, ExecuteTool, NextRound, MaybeSummarize, SummaryFails,
                  SummarizeOlderMessages, MaybeGenerateSummary, Launch, Generate, SaveSummary
    <2> QED  BY <1>1, <2>1, <2>2
  <1>5. ASSUME DeleteConversation \/ CleanupEmptyConversations
        PROVE  WaitingNow' /\ mishaps' = 1
    <2>1. UNCHANGED <<phase, request, todo, snapshot, mishaps>> /\ conv' = [conv EXCEPT !.exists = FALSE]
      BY <1>5 DEF DeleteConversation, CleanupEmptyConversations, turnVars
    <2>2. ~conv'.exists  BY <2>1 DEF TalkTyped
    <2> QED  BY <1>1, <2>1, <2>2 DEF WaitingNow
  <1>6. WaitingNow' /\ mishaps' = 1  BY <1>2, <1>3, <1>4, <1>5 DEF ChatNext
  <1> QED  BY <1>2, <1>6 DEF Waiting, WaitingNow, Left

-----------------------------------------------------------------------------
(* The theorems on conversations *)

\* An empty conversation is in order,
LEMMA TalkBegins == ASSUME TalkInit PROVE TalkInv
  <1>1. MaxSent \in Nat /\ MaxToolRounds \in Nat  BY ConversationsAssumption
  <1>2. /\ conv = [exists |-> TRUE, tokens |-> 0, title |-> 0, summaries |-> 0]
        /\ messages = {} /\ created = 0 /\ sent = 0
        /\ phase = [t \in Turns |-> "idle"]
        /\ adding = [t \in Turns |-> 0] /\ round = [t \in Turns |-> 0]
        /\ request = [t \in Turns |-> <<>>]
        /\ todo = [t \in Turns |-> {}] /\ snapshot = [t \in Turns |-> {}]
        /\ gen = [t \in Turns |-> "none"]
        /\ mishaps \in 0 .. 1 /\ (manner = "waits" => mishaps = 1)
    BY DEF TalkInit, ChatInit
  <1>3. inFlight = FALSE  BY DEF TalkInit, ChatInit
  <1>4. TalkTyped
    <2>1. <<>> \in Seq(Messages(0)) /\ Among({}, 0)  BY EmptyTyped
    <2>2. conv \in [exists : BOOLEAN, tokens : Nat, title : Nat, summaries : 0 .. 1]  BY <1>2
    <2>3. inFlight \in BOOLEAN  BY <1>3
    <2>4. /\ phase \in [Turns -> Phases] /\ adding \in [Turns -> 0 .. created]
          /\ round \in [Turns -> 0 .. MaxToolRounds] /\ gen \in [Turns -> {"none", "reads", "asks"}]
      BY <1>1, <1>2 DEF Phases
    <2>5. /\ request \in [Turns -> Seq(Messages(created))]
          /\ todo \in [Turns -> SUBSET {c \in AnyCall : c[1] <= created}]
          /\ \A t \in Turns : Among(snapshot[t], created)
          /\ DOMAIN snapshot = Turns
      BY <1>2, <2>1
    <2> QED  BY <1>1, <1>2, <2>1, <2>2, <2>3, <2>4, <2>5 DEF TalkTyped
  <1>5. TurnsGo  BY <1>2 DEF TurnsGo
  <1>6. Counted
    <2>1. Pending = {}  BY <1>2 DEF Pending
    <2>2. IsFiniteSet(Pending) /\ Cardinality(Pending) = 0  BY <2>1, FS_EmptySet
    <2> HIDE DEF Pending
    <2>3. conv.tokens = 0 /\ conv.title = 0  BY <1>2
    <2> QED  BY <1>2, <2>2, <2>3 DEF Counted
  <1>7. OneLine
    <2>1. conv.summaries = 0  BY <1>2
    <2> QED  BY <1>2, <2>1 DEF OneLine
  <1>8. Asking  BY <1>2 DEF Asking
  <1>9. Waiting
    <2>1. OneByOne  BY <1>2 DEF OneByOne, Busy
    <2>2. UNION {todo[t] : t \in Turns} = {}  BY <1>2
    <2>3. InOrder({}, {})  BY DEF InOrder
    <2>4. InOrder(messages, UNION {todo[t] : t \in Turns})  BY <1>2, <2>2, <2>3
    <2>5. \A t \in Turns : phase[t] = "idle"  BY <1>2
    <2> QED  BY <1>2, <2>1, <2>4, <2>5 DEF Waiting
  <1> QED  BY <1>4, <1>5, <1>6, <1>7, <1>8, <1>9 DEF TalkInv

\* and every step keeps it so.
LEMMA TalkGoesOn ==
    ASSUME TalkInv, [TalkNext]_talkVars
    PROVE  TalkInv'
  <1>1. CASE TalkNext
    <2>1. ChatNext  BY <1>1 DEF TalkNext
    <2> QED
      BY <1>1, <2>1, TypedStep, TurnsGoStep, CountedStep, OneLineStep, AskingStep, WaitingStep
      DEF TalkInv, TalkNext
  <1>2. CASE UNCHANGED talkVars
    BY <1>2 DEF talkVars, chatVars, turnVars, TalkInv, TalkTyped, TurnsGo, Counted, Pending, OneLine,
                Asking, Waiting, OneByOne, Busy
  <1> QED  BY <1>1, <1>2

\* What is in order is sound.
LEMMA SoundFromInv == ASSUME TalkInv PROVE HistoriesAreSound
  <1>1. /\ TalkTyped /\ TurnsGo /\ Counted /\ OneLine /\ Asking /\ Waiting
        /\ created \in Nat /\ MaxSent \in Nat
    BY ConversationsAssumption DEF TalkInv, TalkTyped
  <1>2. ChatTypeOK
    <2>1. conv \in [exists : BOOLEAN, tokens : Nat, title : Nat, summaries : 0 .. 1]
      BY <1>1 DEF TalkTyped
    <2>2. conv.exists \in BOOLEAN  BY <2>1
    <2>3. {conv.tokens, conv.title} \subseteq 0 .. created /\ conv.summaries \in 0 .. MaxSent
      <3>1. Cardinality(Pending) \in Nat /\ conv.tokens + Cardinality(Pending) <= created
            /\ conv.title <= created
        BY <1>1, FS_CardinalityType DEF Counted
      <3> HIDE DEF Pending
      <3>2. conv.tokens \in 0 .. created /\ conv.title \in 0 .. created  BY <1>1, <2>1, <3>1
      <3>3. conv.summaries \in 0 .. MaxSent  BY <1>1, <2>1 DEF OneLine, TalkTyped
      <3> QED  BY <3>2, <3>3
    <2>4. ASSUME NEW m, Proper(m), m.id <= created PROVE IsMessage(m)
      <3>1. m \in Row  BY <2>4 DEF Proper
      <3>2. DOMAIN m = {"id", "at", "role", "calls", "answers", "about"}
        BY <3>1 DEF Row
      <3>3. m.id \in 1 .. created /\ m.at \in Int /\ m.at <= 2 * created
        BY <1>1, <2>4, <3>1 DEF Proper, Row
      <3>4. m.role \in {"user", "assistant", "tool", "system"}  BY <3>1 DEF Row
      <3>5. (m.calls \cup m.answers) \subseteq ToolCalls
        <4>1. \A c \in m.calls : c \in AnyCall /\ c[1] = m.id  BY <2>4, <3>1 DEF Proper, Row
        <4>2. \A c \in m.answers : c \in AnyCall /\ c[1] < m.id  BY <2>4, <3>1 DEF Proper, Row
        <4>3. \A c \in AnyCall : c[1] \in Nat \ {0} /\ (c[1] <= created => c \in ToolCalls)
          BY <1>1 DEF AnyCall, ToolCalls
        <4>4. \A c \in m.calls \cup m.answers : c \in AnyCall /\ c[1] <= created
          BY <1>1, <3>3, <4>1, <4>2, <4>3
        <4> QED  BY <4>3, <4>4
      <3>6. m.about \subseteq 1 .. created  BY <1>1, <2>4, <3>3 DEF Proper
      <3> QED  BY <3>2, <3>3, <3>4, <3>5, <3>6 DEF IsMessage
    <2>5. \A m \in messages : IsMessage(m)  BY <1>1, <2>4 DEF TalkTyped, Among
    <2>6. ASSUME NEW t \in Turns
          PROVE  /\ \A i \in DOMAIN request[t] : IsMessage(request[t][i])
                 /\ \A m \in snapshot[t] : IsMessage(m)
                 /\ todo[t] \subseteq ToolCalls
      <3>1. request[t] \in Seq(Messages(created))  BY <1>1 DEF TalkTyped
      <3>2. \A i \in DOMAIN request[t] : request[t][i] \in Messages(created)  BY <3>1
      <3>3. \A i \in DOMAIN request[t] : IsMessage(request[t][i])  BY <2>4, <3>2 DEF Messages
      <3>4. \A m \in snapshot[t] : IsMessage(m)  BY <1>1, <2>4 DEF TalkTyped, Among
      <3>5. todo[t] \subseteq {c \in AnyCall : c[1] <= created}  BY <1>1 DEF TalkTyped
      <3>6. todo[t] \subseteq ToolCalls  BY <1>1, <3>5 DEF AnyCall, ToolCalls
      <3> QED  BY <3>3, <3>4, <3>6
    <2>7. /\ sent \in 0 .. MaxSent /\ phase \in [Turns -> Phases] /\ adding \in [Turns -> 0 .. created]
          /\ round \in [Turns -> 0 .. MaxToolRounds] /\ gen \in [Turns -> {"none", "reads", "asks"}]
          /\ mishaps \in 0 .. 1
      BY <1>1 DEF TalkTyped
    <2>8. inFlight \in BOOLEAN  BY <1>1 DEF TalkTyped
    <2> QED  BY <1>1, <2>2, <2>3, <2>5, <2>6, <2>7, <2>8 DEF ChatTypeOK
  <1>3. WaitingHistoryIsSound
    <2> SUFFICES ASSUME manner = "waits", conv.exists, \A t \in Turns : phase[t] # "tools"
                 PROVE  NoStrayAnswer(Chronological(messages)) /\ AnswersFollow(Chronological(messages))
      BY DEF WaitingHistoryIsSound
    <2>1. UNION {todo[t] : t \in Turns} = {}  BY <1>1 DEF TurnsGo
    <2>2. InOrder(messages, {})  BY <1>1, <2>1 DEF Waiting
    <2>3. Among(messages, created)  BY <1>1 DEF TalkTyped
    <2> QED  BY <1>1, <2>2, <2>3, SoundHistory, FollowMeans
  <1>4. AsksSoundly
    <2> SUFFICES ASSUME NEW t \in Turns, Ready(t, "asks")
                 PROVE  /\ NoStrayOwnAnswer(request[t])
                        /\ manner = "waits" => NoStrayAnswer(request[t]) /\ AnswersFollow(request[t])
      BY DEF AsksSoundly
    <2>1. phase[t] = "asks" /\ request[t] \in Seq(Messages(created))  BY <1>1 DEF Ready, TalkTyped
    <2>2. NoStrayOf(request[t], manner = "waits")  BY <1>1, <2>1 DEF Asking
    <2>4. NoStrayOf(request[t], FALSE)  BY <2>2 DEF NoStrayOf
    <2>5. manner = "waits" => NoStrayOf(request[t], TRUE)  BY <2>2 DEF NoStrayOf
    <2>6. NoStrayOwnAnswer(request[t]) /\ (manner = "waits" => NoStrayAnswer(request[t]))
      BY <2>1, <2>4, <2>5, NoStrayMeans
    <2>3. manner = "waits" => Follow(request[t], {})
      <3>1. todo[t] = {}  BY <1>1, <2>1 DEF TurnsGo
      <3> QED  BY <1>1, <2>1, <3>1 DEF Waiting
    <2> QED  BY <2>3, <2>6, FollowMeans
  <1> QED  BY <1>2, <1>3, <1>4 DEF HistoriesAreSound

\* Whatever the model answers, whichever tools it calls and however many, and
\* wherever summaries cut: the history of a user who waits is sound, and so is
\* what the model is asked, also when Ollama gives the calls of every reply the
\* same numbers.  When turns overlap, summaries meet, the process crashes or a
\* message is not saved, what it is asked still has no stray answer to a call with
\* an id of its own; of an answer to a numbered call nothing is said there
\* (ProcessMessage, findSafeSummarizeSplit, SanitizeChatMessages).
THEOREM HistoriesSound == TalkSpec => []HistoriesAreSound
  <1>1. TalkInit => TalkInv  BY TalkBegins
  <1>2. TalkInv /\ [TalkNext]_talkVars => TalkInv'  BY TalkGoesOn
  <1>3. TalkInv => HistoriesAreSound  BY SoundFromInv
  <1> QED  BY <1>1, <1>2, <1>3, PTL DEF TalkSpec

\* No step forgets a message or writes the one-line summary again.
LEMMA RememberedStep ==
    ASSUME TalkInv, TalkNext
    PROVE  conv'.exists => Remembered \subseteq Remembered' /\ conv'.summaries <= 1
  <1>1. TalkInv'  BY TalkGoesOn
  <1>2. conv'.summaries <= 1
    <2>1. conv' \in [exists : BOOLEAN, tokens : Nat, title : Nat, summaries : 0 .. 1]
      BY <1>1 DEF TalkInv, TalkTyped
    <2> QED  BY <2>1
  <1>3. conv \in [exists : BOOLEAN, tokens : Nat, title : Nat, summaries : 0 .. 1]
    BY DEF TalkInv, TalkTyped
  <1>4. ASSUME messages \subseteq messages' PROVE Remembered \subseteq Remembered'
    BY <1>4 DEF Remembered
  <1>5. ASSUME NEW t \in Turns, SummarizeOlderMessages(t) PROVE Remembered \subseteq Remembered'
    <2> DEFINE told == UNION {m.about : m \in Summarised(t)}
               s == [Message(created + 1, "system", {}, {}, told) EXCEPT !.at = SummaryTime(t)]
    <2>1. s.about = told  BY SummaryMessage DEF TalkInv
    <2>2. messages' = (messages \ Summarised(t)) \cup {s}
      BY <1>5 DEF SummarizeOlderMessages, Deleted
    <2> HIDE DEF s
    <2> SUFFICES ASSUME NEW m \in messages, NEW n \in m.about PROVE n \in Remembered'
      BY DEF Remembered
    <2>3. CASE m \in Summarised(t)
      <3>1. n \in s.about /\ s \in messages'  BY <2>1, <2>2, <2>3
      <3> QED  BY <3>1 DEF Remembered
    <2>4. CASE m \notin Summarised(t)
      <3>1. m \in messages'  BY <2>2, <2>4
      <3> QED  BY <3>1 DEF Remembered
    <2> QED  BY <2>3, <2>4
  <1>6. ASSUME NEW t \in Turns, SendMessage(t) \/ TurnSteps(t), ~SummarizeOlderMessages(t)
        PROVE  messages \subseteq messages'
    BY <1>6 DEF TurnSteps, SendMessage, CheckTokens, SaveMessage, SaveFails, Saves, Refused, AddMessage,
                CountMessage, ReadHistory, ChatFails, Answer, CallTools, ExecuteTool, NextRound, MaybeSummarize, SummaryFails,
                MaybeGenerateSummary, Launch, Generate, SaveSummary
  <1>7. ASSUME DeleteConversation \/ CleanupEmptyConversations PROVE ~conv'.exists
    BY <1>3, <1>7 DEF DeleteConversation, CleanupEmptyConversations
  <1>8. ASSUME Crash PROVE messages \subseteq messages'  BY <1>8 DEF Crash
  <1> QED  BY <1>2, <1>4, <1>5, <1>6, <1>7, <1>8 DEF TalkNext, ChatNext

\* However many turns overlap, with summaries of older messages, crashes and
\* messages added while a summary is being written: no user message is lost to
\* a summary while the conversation exists, and the one-line summary is written
\* once (SummarizeOlderMessages, GenerateDisplaySummary).
THEOREM NothingForgotten == TalkSpec => NothingIsForgotten
  <1>1. TalkInit => TalkInv  BY TalkBegins
  <1>2. TalkInv /\ [TalkNext]_talkVars => TalkInv'  BY TalkGoesOn
  <1>3. TalkInv /\ [TalkNext]_talkVars
           => [conv'.exists => Remembered \subseteq Remembered' /\ conv'.summaries <= 1]_talkVars
    BY RememberedStep
  <1> QED  BY <1>1, <1>2, <1>3, PTL DEF TalkSpec, NothingIsForgotten
==============================================================================
