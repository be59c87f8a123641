---------------------------- MODULE TagEmbeddings ----------------------------
(***************************************************************************)
(* Tags of photos and the vector embeddings made from them:                *)
(* EmbeddingBackfillManager and GenerateAndSaveEmbedding                   *)
(* (application/imaging/embedding_backfill.go), the writers of tags that   *)
(* trigger them (tag_scan.go, llm_ocr.go, mcpserver/tools_image.go) and    *)
(* the invalidation of both when a file's content changes                  *)
(* (background_sync.go).                                                   *)
(*                                                                         *)
(* Nothing is transactional: a step is one SQL statement or one call to    *)
(* the embedding service.  The embedding of a text is named by the text,   *)
(* and a text is the set of tag lists (numbered as they are written) whose *)
(* rows it was made from.                                                  *)
(***************************************************************************)
EXTENDS BackgroundManager, FiniteSets, Sequences

CONSTANTS
    MaxId,      \* the greatest primary key
    Images,     \* image_files.id
    Workers,    \* backfill goroutines that may exist at once
    Writers,    \* goroutines that may be saving or dropping tags at once
    Hooks,      \* GenerateAndSaveEmbedding goroutines that may exist at once
    BatchSizes, \* what EmbeddingSettings.BatchSize may be set to
    MaxWrites,  \* bound: tag lists written or dropped
    MaxStarts,  \* bound: calls of EmbeddingBackfillManager.Start
    MaxStops    \* bound: calls of EmbeddingBackfillManager.Stop

ASSUME ConstantsOK ==
    /\ MaxId \in Nat /\ Images \subseteq 1 .. MaxId
    /\ BatchSizes \subseteq Nat \ {0}
    /\ {MaxWrites, MaxStarts, MaxStops} \subseteq Nat
    /\ Workers \cap Hooks = {}

VARIABLES
    tags,      \* image_tags: image -> the tag lists it has rows of
    rows,      \* tag_embeddings joined with the per-model table
    nextRow,   \* the next primary key of tag_embeddings
    mgr,       \* the embedding-backfill background.Manager
    worker,    \* what each backfill goroutine holds
    writer,    \* what each writer of tags holds
    upsert,    \* upsertEmbedding's locals in each goroutine that calls it
    lastError, \* whether progress.LastError is set
    writes, starts, stops  \* history: how much of the bounds is used

db == <<tags, rows, nextRow>>
used == <<writes, starts, stops>>
vars == <<tags, rows, nextRow, mgr, worker, writer, upsert, lastError, writes, starts, stops>>

-------------------------------------------------------------------------------
(* The two embedding tables *)

Text == SUBSET (Nat \ {0})

\* No vector for the model (a text no list of tags makes)
NoEmbedding == {0}

Row == [id : Nat, image : Images, embedding : Text \cup {NoEmbedding}]

RowsOf(i) == {r \in rows : r.image = i}

First(S) == CHOOSE r \in S : \A s \in S : r.id <= s.id

\* The backfill's candidates: a tagged image with no embedding row, or with
\* one that has no vector for the model
Missing == {i \in Images :
    /\ tags[i] # {}
    /\ RowsOf(i) = {} \/ \E r \in RowsOf(i) : r.embedding = NoEmbedding}

\* mutant: the candidates of the query without its cursor
FromStart(cursor) == Missing

\* ... AND image_files.id > cursor
After(cursor) == {i \in Missing : i > cursor}

\* ORDER BY id LIMIT batchSize
Page(S, size) == {i \in S : Cardinality({j \in S : j < i}) < size}

Least(S) == CHOOSE i \in S : \A j \in S : i <= j
Greatest(S) == CHOOSE i \in S : \A j \in S : i >= j

-------------------------------------------------------------------------------
(* Goroutines *)

NoTexts == [i \in Images |-> {}]
NotWorking == [pc |-> "idle", size |-> 0, cursor |-> 0, page |-> {}, texts |-> NoTexts]
NotWriting == [pc |-> "idle", image |-> 0, list |-> 0]
NotUpserting == [pc |-> "idle", image |-> 0, text |-> {}, row |-> 0]

Init ==
    /\ tags = [i \in Images |-> {}]
    /\ rows = {}
    /\ nextRow = 1
    /\ mgr = NewManager
    /\ worker = [w \in Workers |-> NotWorking]
    /\ writer = [x \in Writers |-> NotWriting]
    /\ upsert = [p \in Workers \cup Hooks |-> NotUpserting]
    /\ lastError = FALSE
    /\ writes = 0 /\ starts = 0 /\ stops = 0

Quiet ==
    /\ \A w \in Workers : worker[w].pc = "idle"
    /\ \A x \in Writers : writer[x].pc = "idle"
    /\ \A p \in Workers \cup Hooks : upsert[p].pc = "idle"

-------------------------------------------------------------------------------
(* The writers of tags *)

\* Delete the old tags; every caller has at least one new tag to insert.
SaveTags(x, i) ==
    /\ writes < MaxWrites
    /\ writer[x].pc = "idle"
    /\ tags' = [tags EXCEPT ![i] = {}]
    /\ writes' = writes + 1
    /\ writer' = [writer EXCEPT ![x] = [pc |-> "insert", image |-> i, list |-> writes + 1]]
    /\ UNCHANGED <<rows, nextRow, mgr, worker, upsert, lastError, starts, stops>>

\* Insert the new ones and leave the embedding to a goroutine of its own.
InsertTags(x, h) ==
    /\ writer[x].pc = "insert"
    /\ upsert[h].pc = "idle"
    /\ tags' = [tags EXCEPT ![writer[x].image] = @ \cup {writer[x].list}]
    /\ writer' = [writer EXCEPT ![x] = NotWriting]
    /\ upsert' = [upsert EXCEPT ![h] =
           [pc |-> "embed", image |-> writer[x].image, text |-> {writer[x].list}, row |-> 0]]
    /\ UNCHANGED <<rows, nextRow, mgr, worker, lastError, used>>

\* The insertion fails, and the image is left without tags: the tag scan stops
\* there, the others embed the new ones all the same.
InsertFails(x, h) ==
    /\ writer[x].pc = "insert"
    /\ upsert[h].pc = "idle"
    /\ writer' = [writer EXCEPT ![x] = NotWriting]
    /\ upsert' \in {upsert, [upsert EXCEPT ![h] =
           [pc |-> "embed", image |-> writer[x].image, text |-> {writer[x].list}, row |-> 0]]}
    /\ UNCHANGED <<tags, rows, nextRow, mgr, worker, lastError, used>>

\* The file's content changed: its tags go first ...
Invalidate(x, i) ==
    /\ writes < MaxWrites
    /\ writer[x].pc = "idle"
    /\ tags' = [tags EXCEPT ![i] = {}]
    /\ writes' = writes + 1
    /\ writer' = [writer EXCEPT ![x] = [pc |-> "unembed", image |-> i, list |-> 0]]
    /\ UNCHANGED <<rows, nextRow, mgr, worker, upsert, lastError, starts, stops>>

Dropped(x) == rows \ RowsOf(writer[x].image)

\* ... then its embedding rows, whose vectors go with them.
DropEmbeddings(x) ==
    /\ writer[x].pc = "unembed"
    /\ rows' = Dropped(x)
    /\ writer' = [writer EXCEPT ![x] = NotWriting]
    /\ UNCHANGED <<tags, nextRow, mgr, worker, upsert, lastError, used>>

-------------------------------------------------------------------------------
(* upsertEmbedding, in the backfill's goroutine or in a hook's *)

\* mutant: the parent row is not looked for
NeverLookedUp(i, text) == [pc |-> "create", image |-> i, text |-> text, row |-> 0]

\* SELECT the first parent row
LookedUp(i, text) ==
    IF RowsOf(i) = {}
    THEN [pc |-> "create", image |-> i, text |-> text, row |-> 0]
    ELSE [pc |-> "write", image |-> i, text |-> text, row |-> First(RowsOf(i)).id]

\* INSERT a parent row: nothing in the schema keeps an image from having two.
CreateParent(p) ==
    /\ upsert[p].pc = "create"
    /\ rows' = rows \cup {[id |-> nextRow, image |-> upsert[p].image, embedding |-> NoEmbedding]}
    /\ nextRow' = nextRow + 1
    /\ upsert' = [upsert EXCEPT ![p].pc = "write", ![p].row = nextRow]
    /\ UNCHANGED <<tags, mgr, worker, writer, lastError, used>>

\* mutant: ON CONFLICT DO NOTHING
KeptVector(r, u) ==
    IF r.id = u.row /\ r.embedding = NoEmbedding THEN [r EXCEPT !.embedding = u.text] ELSE r

\* mutant: the row inserted last, not the one looked up or inserted
VectoredLast(r, u) == IF r.id = nextRow - 1 THEN [r EXCEPT !.embedding = u.text] ELSE r

Vectored(r, u) == IF r.id = u.row THEN [r EXCEPT !.embedding = u.text] ELSE r

\* Upsert the vector; the foreign key refuses it when the parent row is gone.
WriteVector(p) ==
    /\ upsert[p].pc = "write"
    /\ rows' = {Vectored(r, upsert[p]) : r \in rows}
    /\ upsert' = [upsert EXCEPT ![p] = NotUpserting]
    /\ UNCHANGED <<tags, nextRow, mgr, worker, writer, lastError, used>>

-------------------------------------------------------------------------------
(* GenerateAndSaveEmbedding *)

HookEmbeds(h) ==
    /\ upsert[h].pc = "embed"
    /\ upsert' = [upsert EXCEPT ![h] = LookedUp(upsert[h].image, upsert[h].text)]
    /\ UNCHANGED <<db, mgr, worker, writer, lastError, used>>

\* No instrument, or the service fails: the hook logs and gives up.
HookFails(h) ==
    /\ upsert[h].pc = "embed"
    /\ upsert' = [upsert EXCEPT ![h] = NotUpserting]
    /\ UNCHANGED <<db, mgr, worker, writer, lastError, used>>

-------------------------------------------------------------------------------
(* EmbeddingBackfillManager *)

StartBackfill(w) ==
    /\ starts < MaxStarts
    /\ MayStart(mgr)
    /\ worker[w].pc = "idle"
    /\ mgr' = Started(mgr)
    /\ worker' = [worker EXCEPT ![w].pc = "setup"]
    /\ lastError' = FALSE
    /\ starts' = starts + 1
    /\ UNCHANGED <<db, writer, upsert, writes, stops>>

StopBackfill ==
    /\ stops < MaxStops
    /\ mgr.running
    /\ mgr' = Stop(mgr)
    /\ stops' = stops + 1
    /\ UNCHANGED <<db, worker, writer, upsert, lastError, writes, starts>>

\* The embedding client and table are there; count the candidates and read
\* the batch size.
SetUp(w) ==
    /\ worker[w].pc = "setup"
    /\ IF Missing = {}
       THEN worker' = [worker EXCEPT ![w].pc = "exit"]
       ELSE \E n \in BatchSizes : worker' = [worker EXCEPT ![w].pc = "loop", ![w].size = n]
    /\ UNCHANGED <<db, mgr, writer, upsert, lastError, used>>

SetUpFails(w) ==
    /\ worker[w].pc = "setup"
    /\ worker' = [worker EXCEPT ![w].pc = "exit"]
    /\ lastError' = TRUE
    /\ UNCHANGED <<db, mgr, writer, upsert, used>>

\* One turn of the loop: look at the stop channel, query the next page.
SelectPage(w) ==
    /\ worker[w].pc = "loop"
    /\ LET page == Page(After(worker[w].cursor), worker[w].size) IN
       worker' = [worker EXCEPT ![w] =
           IF IsClosed(mgr, Done(mgr)) \/ page = {}
           THEN [@ EXCEPT !.pc = "exit"]
           ELSE [@ EXCEPT !.pc = "read", !.page = page]]
    /\ UNCHANGED <<db, mgr, writer, upsert, lastError, used>>

ReadTags(w) ==
    /\ worker[w].pc = "read"
    /\ worker' = [worker EXCEPT ![w].pc = "embed",
           ![w].texts = [i \in Images |-> IF i \in worker[w].page THEN tags[i] ELSE {}]]
    /\ UNCHANGED <<db, mgr, writer, upsert, lastError, used>>

\* mutant: the cursor skips every page behind this one
SkipToLast(w) == Greatest(Images)

CursorAfter(w) == Greatest(worker[w].page)

\* The service refuses the page: remember the error, go on behind the page.
EmbedFails(w) ==
    /\ worker[w].pc = "embed"
    /\ worker' = [worker EXCEPT ![w].pc = "loop", ![w].page = {}, ![w].texts = NoTexts,
                                ![w].cursor = CursorAfter(w)]
    /\ lastError' = TRUE
    /\ UNCHANGED <<db, mgr, writer, upsert, used>>

Embedded(w) ==
    /\ worker[w].pc = "embed"
    /\ worker' = [worker EXCEPT ![w].pc = "save", ![w].cursor = CursorAfter(w)]
    /\ UNCHANGED <<db, mgr, writer, upsert, lastError, used>>

\* upsertEmbedding for the images of the page, one after the other
SaveNext(w) ==
    /\ worker[w].pc = "save" /\ upsert[w].pc = "idle"
    /\ worker[w].page # {}
    /\ LET i == Least(worker[w].page) IN
       /\ upsert' = [upsert EXCEPT ![w] = LookedUp(i, worker[w].texts[i])]
       /\ worker' = [worker EXCEPT ![w].page = @ \ {i}]
    /\ UNCHANGED <<db, mgr, writer, lastError, used>>

PageSaved(w) ==
    /\ worker[w].pc = "save" /\ upsert[w].pc = "idle"
    /\ worker[w].page = {}
    /\ worker' = [worker EXCEPT ![w].pc = "loop", ![w].texts = NoTexts]
    /\ UNCHANGED <<db, mgr, writer, upsert, lastError, used>>

\* The deferred MarkStopped
Exit(w) ==
    /\ worker[w].pc = "exit"
    /\ mgr' = MarkStopped(mgr)
    /\ worker' = [worker EXCEPT ![w] = NotWorking]
    /\ UNCHANGED <<db, writer, upsert, lastError, used>>

-------------------------------------------------------------------------------
\* What a client, the tag scan, a scan of the gallery or the MCP server begins
Begin ==
    \/ \E x \in Writers, i \in Images : SaveTags(x, i) \/ Invalidate(x, i)
    \/ \E w \in Workers : StartBackfill(w)

Work(w) ==
    \/ SetUp(w) \/ SelectPage(w) \/ ReadTags(w) \/ Embedded(w) \/ SaveNext(w)
    \/ PageSaved(w) \/ Exit(w) \/ CreateParent(w) \/ WriteVector(w)

Hook(h) == HookEmbeds(h) \/ CreateParent(h) \/ WriteVector(h)

Write(x) == DropEmbeddings(x) \/ \E h \in Hooks : InsertTags(x, h)

\* What has begun goes on.
Continue ==
    \/ \E x \in Writers : Write(x)
    \/ \E h \in Hooks : Hook(h)
    \/ \E w \in Workers : Work(w)

\* The embedding service refuses a call, its settings are missing, or tags cannot
\* be saved.
Fail ==
    \/ \E h \in Hooks : HookFails(h)
    \/ \E x \in Writers, h \in Hooks : InsertFails(x, h)
    \/ \E w \in Workers : SetUpFails(w) \/ EmbedFails(w)

Next == Begin \/ Continue \/ Fail \/ StopBackfill

Spec == Init /\ [][Next]_vars

\* A goroutine that can run does, and the calls it makes return.
Fairness ==
    /\ \A w \in Workers : WF_vars(Work(w) \/ SetUpFails(w) \/ EmbedFails(w))
    /\ \A h \in Hooks : WF_vars(Hook(h) \/ HookFails(h))
    /\ \A x \in Writers : WF_vars(Write(x))

FairSpec == Spec /\ Fairness

-------------------------------------------------------------------------------
(* Properties *)

\* Every table row, manager field and goroutine local has its type
\* (embedding_backfill.go, domain/media.go).
WorkerOK ==
    /\ worker \in [Workers -> [pc : {"idle", "setup", "loop", "read", "embed", "save", "exit"},
                            size : Nat, cursor : Nat, page : SUBSET Images, texts : [Images -> Text]]]
    /\ \A w \in Workers :
         /\ worker[w].pc \in {"read", "embed"} => worker[w].page # {}
         /\ worker[w].pc = "read" => \A i \in worker[w].page : i > worker[w].cursor
         /\ worker[w].pc = "save" => \A i \in worker[w].page : i <= worker[w].cursor

UpsertOK ==
    /\ upsert \in [Workers \cup Hooks -> [pc : {"idle", "embed", "create", "write"},
                                       image : Images \cup {0}, text : Text, row : Nat]]
    /\ \A p \in Workers \cup Hooks :
         /\ upsert[p].row < nextRow
         /\ upsert[p].pc # "idle" => upsert[p].image # 0

DbOK ==
    /\ tags \in [Images -> Text]
    /\ rows \subseteq Row
    /\ nextRow \in Nat \ {0} /\ \A r \in rows : r.id < nextRow

WriterOK ==
    /\ writer \in [Writers -> [pc : {"idle", "insert", "unembed"},
                               image : Images \cup {0}, list : Nat]]
    /\ \A x \in Writers :
         writer[x].pc = "insert" => writer[x].image # 0 /\ writer[x].list # 0

UsedOK ==
    /\ lastError \in BOOLEAN
    /\ writes \in 0 .. MaxWrites /\ starts \in 0 .. MaxStarts /\ stops \in 0 .. MaxStops

TypeOK == DbOK /\ mgr \in Manager /\ WorkerOK /\ WriterOK /\ UpsertOK /\ UsedOK

\* The goroutines of the backfill are those of a single background worker
\* (background/manager.go): a second one starts only after the first ended,
\* and the running flag comes down with it.
Single == INSTANCE SingleWorker WITH
    active <- {w \in Workers : worker[w].pc # "idle"}, running <- mgr.running

SingleBackfill == Single!Spec

\* The same up to the first time an administrator stops a backfill.
SingleUntilStopped ==
    Single!Init /\ [][stops' = 0 => [Single!Next]_(Single!vars)]_vars

\* While nobody stops it, the status endpoint says "running" exactly while a
\* backfill goroutine exists, and there is at most one (background/manager.go).
RunningTellsTruth ==
    stops = 0 =>
        /\ mgr.running <=> \E w \in Workers : worker[w].pc # "idle"
        /\ \A v, w \in Workers : worker[v].pc # "idle" /\ worker[w].pc # "idle" => v = w

\* An image has at most one vector of the model, whichever goroutines upsert
\* it (upsertEmbedding; infrastructure/database/embedding_tables.go:68).
OneEmbeddingPerImage ==
    \A i \in Images : Cardinality({r \in RowsOf(i) : r.embedding # NoEmbedding}) <= 1

\* When nothing is in flight, the vector of an image is that of the tags it
\* has now, so a search never finds it by tags it lost (SaveImageTags,
\* InvalidateTagsAndEmbeddings, GenerateAndSaveEmbedding).
EmbeddingMatchesTags ==
    Quiet => \A r \in rows : r.embedding # NoEmbedding => r.embedding = tags[r.image]

\* When nothing is in flight, every tagged image has a vector, provided the
\* service answered every call and no file changed: a hook that loses a race
\* for the parent row still leaves one (GenerateAndSaveEmbedding).
TaggedIsEmbedded ==
    Quiet => \A i \in Images : tags[i] # {} => \E r \in RowsOf(i) : r.embedding # NoEmbedding

\* A backfill that runs out of pages, unstopped and with no error to report,
\* leaves no tagged image without a vector (EmbeddingBackfillManager.run).
NoGapLeft ==
    \A w \in Workers :
        worker[w].pc = "loop" /\ worker'[w].pc = "exit" /\ ~IsClosed(mgr, Done(mgr)) /\ ~lastError
            => Missing = {}

\* Every backfill goroutine ends, whether the service fails every page, tags
\* keep arriving, or Stop and Start exchange the stop channel under it
\* (EmbeddingBackfillManager.run).
BackfillEnds == \A w \in Workers : worker[w].pc # "idle" ~> worker[w].pc = "idle"
===============================================================================
