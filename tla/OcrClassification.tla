-------------------------- MODULE OcrClassification --------------------------
(***************************************************************************)
(* Background OCR classification: OcrManager                               *)
(* (application/imaging/ocr_manager.go) with the batch it saves and the    *)
(* per-image worker (ocr.go), and the changes of files that invalidate a   *)
(* classification (background_sync.go).                                    *)
(*                                                                         *)
(* A run is four kinds of goroutines: the launcher (processUnclassified),  *)
(* a worker per image, the consumer of the results channel, and the closer *)
(* that waits for the workers and closes the channel.  A file's content is *)
(* a version number, and so is a classification: the version it was made   *)
(* from (0: none).  The text and the boxes found are left out.             *)
(***************************************************************************)
EXTENDS BackgroundManager, FiniteSets, Sequences

CONSTANTS
    Images,     \* image_files.id
    Runs,       \* calls of StartClassification that succeed
    NumCPU,     \* runtime.NumCPU()
    Settings,   \* what OcrConcurrentRequests may be set to
    BatchSize,  \* batchSize
    MaxChanges, \* bound: changes of files
    MaxStops,   \* bound: calls of StopClassification
    MaxSettings \* bound: calls of SetMaxWorkers

ASSUME ConstantsOK ==
    /\ Images \subseteq Nat
    /\ {NumCPU, BatchSize} \subseteq Nat \ {0}
    /\ Settings \subseteq Nat
    /\ {MaxChanges, MaxStops, MaxSettings} \subseteq Nat

VARIABLES
    content,        \* the file of an image (0: no such image)
    classification, \* ocr_classifications
    outdated,       \* image_files.updated_at is after the classification's
    pending,        \* how far a change of a file has been dealt with
    mgr,            \* the OCR background.Manager
    stopRequested,
    maxWorkers,
    run,            \* the launcher of each run
    worker,         \* the workers of each run
    channel,        \* the results channel of each run
    closer,         \* the goroutine that waits for the workers
    consumer,       \* consumeResults
    changes, stops, settings \* history: how much of the bounds is used

db == <<content, classification, outdated, pending>>
requested == <<mgr, stopRequested, maxWorkers>>
used == <<changes, stops, settings>>
vars == <<db, requested, run, worker, channel, closer, consumer, used>>

-------------------------------------------------------------------------------
NotRunning == [pc |-> "idle", incremental |-> FALSE, images |-> {}, todo |-> {},
               cap |-> 0, outcome |-> "none"]
NoWorker == [pc |-> "none", version |-> 0]
NoConsumer == [pc |-> "none", batch |-> <<>>, last |-> FALSE, count |-> 0]

Init ==
    /\ content \in [Images -> {0, 1}]
    /\ classification = [i \in Images |-> 0]
    /\ outdated = [i \in Images |-> FALSE]
    /\ pending = [i \in Images |-> "none"]
    /\ mgr = NewManager
    /\ stopRequested = FALSE
    /\ maxWorkers \in Settings
    /\ run = [r \in Runs |-> NotRunning]
    /\ worker = [r \in Runs |-> [i \in Images |-> NoWorker]]
    /\ channel = [r \in Runs |-> [queue |-> <<>>, closed |-> FALSE]]
    /\ closer = [r \in Runs |-> "none"]
    /\ consumer = [r \in Runs |-> NoConsumer]
    /\ changes = 0 /\ stops = 0 /\ settings = 0

Least(S) == CHOOSE i \in S : \A j \in S : i <= j

\* GetEffectiveWorkers
Effective(n) == IF n = 0 \/ n > NumCPU THEN NumCPU ELSE n

\* The images whose worker holds a slot of the semaphore
InFlight(r) == {i \in Images : worker[r][i].pc \in {"start", "send", "sent"}}

\* mutant: wg.Done before the result is sent
NotStarted(r) == {i \in Images : worker[r][i].pc = "start"}

\* mutant: a worker that fails returns without wg.Done
FailedForever(r) ==
    {i \in Images : \/ worker[r][i].pc \in {"start", "send", "sent", "released"}
                    \/ worker[r][i].pc = "done" /\ worker[r][i].version = 0}

\* What the wait group counts
Waited(r) == {i \in Images : worker[r][i].pc \in {"start", "send", "sent", "released"}}

\* The capacity of the results channel
Capacity(r) ==
    LET n == Cardinality(run[r].images) IN IF 2 * run[r].cap > n THEN n ELSE 2 * run[r].cap

\* queryUnclassifiedImages
Candidates(incremental) ==
    {i \in Images : /\ content[i] # 0
                    /\ incremental => classification[i] = 0 \/ outdated[i]}

-------------------------------------------------------------------------------
(* The launcher: StartClassification, processUnclassified, launchWorkers *)

StartClassification(r, incremental) ==
    /\ run[r].pc = "idle"
    /\ MayStart(mgr)
    /\ mgr' = Started(mgr)
    /\ run' = [run EXCEPT ![r].pc = "reset", ![r].incremental = incremental]
    /\ UNCHANGED <<db, stopRequested, maxWorkers, worker, channel, closer, consumer, used>>

\* The state of the last run goes, a stop that came since TryStart with it.
ResetState(r) ==
    /\ run[r].pc = "reset"
    /\ stopRequested' = FALSE
    /\ run' = [run EXCEPT ![r].pc = "query"]
    /\ UNCHANGED <<db, mgr, maxWorkers, worker, channel, closer, consumer, used>>

\* Make semaphore, channel and wait group, and begin the consumer.
Query(r) ==
    /\ run[r].pc = "query"
    /\ LET found == Candidates(run[r].incremental) IN
       IF found = {}
       THEN /\ run' = [run EXCEPT ![r].pc = "empty"]
            /\ UNCHANGED <<closer, consumer>>
       ELSE /\ run' = [run EXCEPT ![r].pc = "launch", ![r].images = found, ![r].todo = found,
                                  ![r].cap = Effective(maxWorkers)]
            /\ consumer' = [consumer EXCEPT ![r].pc = "range"]
            /\ closer' = [closer EXCEPT ![r] = "begin"]
    /\ UNCHANGED <<db, requested, worker, channel, used>>

QueryFails(r) ==
    /\ run[r].pc = "query"
    /\ run' = [run EXCEPT ![r].pc = "exit"]
    /\ UNCHANGED <<db, requested, worker, channel, closer, consumer, used>>

\* Nothing to do: MarkStopped, which the deferred function does once more.
MarkEmpty(r) ==
    /\ run[r].pc = "empty"
    /\ mgr' = MarkStopped(mgr)
    /\ run' = [run EXCEPT ![r].pc = "exit"]
    /\ UNCHANGED <<db, stopRequested, maxWorkers, worker, channel, closer, consumer, used>>

\* mutant: the loop runs once too often
Always(r) == TRUE

MoreImages(r) == run[r].todo # {}

\* The top of the launching loop
NextImage(r) ==
    /\ run[r].pc = "launch"
    /\ run' = [run EXCEPT ![r].pc =
           IF MoreImages(r) /\ ~stopRequested THEN "acquire" ELSE "wait"]
    /\ UNCHANGED <<db, requested, worker, channel, closer, consumer, used>>

\* mutant: one slot too many
HasSlot(r) == Cardinality(InFlight(r)) <= run[r].cap

\* The semaphore has a free slot.
MayAcquire(r) == Cardinality(InFlight(r)) < run[r].cap

Launch(r) ==
    /\ run[r].pc = "acquire"
    /\ MayAcquire(r)
    /\ LET i == Least(run[r].todo) IN
       /\ worker' = [worker EXCEPT ![r][i].pc = "start"]
       /\ run' = [run EXCEPT ![r].pc = "launch", ![r].todo = @ \ {i}]
    /\ UNCHANGED <<db, requested, channel, closer, consumer, used>>

\* No slot is free, and the launcher sees the stop between two polls.
GiveUp(r) ==
    /\ run[r].pc = "acquire"
    /\ ~MayAcquire(r)
    /\ stopRequested
    /\ run' = [run EXCEPT ![r].pc = "wait"]
    /\ UNCHANGED <<db, requested, worker, channel, closer, consumer, used>>

\* The consumer is done: report how the run ended, and MarkStopped.
Exit(r) ==
    /\ run[r].pc = "exit" \/ (run[r].pc = "wait" /\ consumer[r].pc = "done")
    /\ mgr' = MarkStopped(mgr)
    /\ run' = [run EXCEPT ![r].pc = "ended",
                          ![r].outcome = IF stopRequested THEN "stopped" ELSE "complete"]
    /\ UNCHANGED <<db, stopRequested, maxWorkers, worker, channel, closer, consumer, used>>

-------------------------------------------------------------------------------
(* A worker: processSingleImage and its deferred functions *)

\* Read the file, or give up at once because of a stop.
ReadFile(r, i) ==
    /\ worker[r][i].pc = "start"
    /\ worker' = [worker EXCEPT ![r][i] =
           [pc |-> "send", version |-> IF stopRequested THEN 0 ELSE content[i]]]
    /\ UNCHANGED <<db, requested, run, channel, closer, consumer, used>>

\* The file cannot be opened, or the OCR service fails.
OcrFails(r, i) ==
    /\ worker[r][i].pc = "start"
    /\ worker' = [worker EXCEPT ![r][i] = [pc |-> "send", version |-> 0]]
    /\ UNCHANGED <<db, requested, run, channel, closer, consumer, used>>

\* The service has answered: send, or block, or panic on a closed channel.
SendResult(r, i) ==
    /\ worker[r][i].pc = "send"
    /\ IF channel[r].closed
       THEN UNCHANGED channel
       ELSE /\ Len(channel[r].queue) < Capacity(r)
            /\ channel' = [channel EXCEPT ![r].queue =
                   Append(@, [image |-> i, version |-> worker[r][i].version])]
    /\ worker' = [worker EXCEPT ![r][i].pc = "sent"]
    /\ UNCHANGED <<db, requested, run, closer, consumer, used>>

Release(r, i) ==
    /\ worker[r][i].pc = "sent"
    /\ worker' = [worker EXCEPT ![r][i].pc = "released"]
    /\ UNCHANGED <<db, requested, run, channel, closer, consumer, used>>

\* wg.Done: the last one wakes the closer.
WorkerDone(r, i) ==
    /\ worker[r][i].pc = "released"
    /\ worker' = [worker EXCEPT ![r][i].pc = "done"]
    /\ closer' = IF Waited(r) = {i} /\ closer[r] = "asleep"
                 THEN [closer EXCEPT ![r] = "woken"] ELSE closer
    /\ UNCHANGED <<db, requested, run, channel, consumer, used>>

-------------------------------------------------------------------------------
(* The closer: wg.Wait and close(results) *)

Launching(r) == run[r].pc \in {"launch", "acquire"}

Close(r) ==
    /\ channel' = [channel EXCEPT ![r].closed = TRUE]
    /\ closer' = [closer EXCEPT ![r] = IF Launching(r) THEN "early" ELSE "closed"]

\* Wait returns at once while no worker has been added.
BeginWait(r) ==
    /\ closer[r] = "begin"
    /\ IF Waited(r) = {}
       THEN Close(r)
       ELSE closer' = [closer EXCEPT ![r] = "asleep"] /\ UNCHANGED channel
    /\ UNCHANGED <<db, requested, run, worker, consumer, used>>

\* Wait panics when the group is in use again; the panic is recovered, and the
\* channel stays open.
EndWait(r) ==
    /\ closer[r] = "woken"
    /\ IF Waited(r) = {}
       THEN Close(r)
       ELSE closer' = [closer EXCEPT ![r] = "panicked"] /\ UNCHANGED channel
    /\ UNCHANGED <<db, requested, run, worker, consumer, used>>

-------------------------------------------------------------------------------
(* The consumer: consumeResults and ClassificationBatch.Save *)

\* The consuming loop is left: save the rest of the batch.
Flushing(c) == [c EXCEPT !.pc = "save", !.last = TRUE]

Added(c, result) ==
    LET b == Append(c.batch, result) IN
    [c EXCEPT !.batch = b, !.pc = IF Len(b) >= BatchSize THEN "save" ELSE "range"]

Receive(r) ==
    /\ consumer[r].pc = "range"
    /\ channel[r].queue # <<>>
    /\ LET result == Head(channel[r].queue)
           c == [consumer[r] EXCEPT !.count = @ + 1]
       IN consumer' = [consumer EXCEPT ![r] =
              IF stopRequested THEN Flushing(c)
              ELSE IF result.version = 0 THEN c
              ELSE Added(c, result)]
    /\ channel' = [channel EXCEPT ![r].queue = Tail(@)]
    /\ UNCHANGED <<db, requested, run, worker, closer, used>>

RangeEnds(r) ==
    /\ consumer[r].pc = "range"
    /\ channel[r].queue = <<>> /\ channel[r].closed
    /\ consumer' = [consumer EXCEPT ![r] = Flushing(@)]
    /\ UNCHANGED <<db, requested, run, worker, channel, closer, used>>

\* One FirstOrCreate of the batch
SaveNext(r) ==
    /\ consumer[r].pc = "save"
    /\ consumer[r].batch # <<>>
    /\ LET result == Head(consumer[r].batch) IN
       /\ classification' = [classification EXCEPT ![result.image] = result.version]
       /\ outdated' = [outdated EXCEPT ![result.image] = FALSE]
    /\ consumer' = [consumer EXCEPT ![r].batch = Tail(@)]
    /\ UNCHANGED <<content, pending, requested, run, worker, channel, closer, used>>

SaveFails(r) ==
    /\ consumer[r].pc = "save"
    /\ consumer[r].batch # <<>>
    /\ consumer' = [consumer EXCEPT ![r].batch = Tail(@)]
    /\ UNCHANGED <<db, requested, run, worker, channel, closer, used>>

\* Back to the loop; after the last batch, close(done).
Saved(r) ==
    /\ consumer[r].pc = "save"
    /\ consumer[r].batch = <<>>
    /\ consumer' = [consumer EXCEPT ![r].pc = IF consumer[r].last THEN "done" ELSE "range"]
    /\ UNCHANGED <<db, requested, run, worker, channel, closer, used>>

-------------------------------------------------------------------------------
(* Requests, and changes of files *)

StopClassification ==
    /\ stops < MaxStops
    /\ mgr.running
    /\ stopRequested' = TRUE
    /\ stops' = stops + 1
    /\ UNCHANGED <<db, mgr, maxWorkers, run, worker, channel, closer, consumer, changes, settings>>

SetMaxWorkers(n) ==
    /\ settings < MaxSettings
    /\ maxWorkers' = n
    /\ settings' = settings + 1
    /\ UNCHANGED <<db, mgr, stopRequested, run, worker, channel, closer, consumer, changes, stops>>

\* A new file, found and recorded by a scan
AddFile(i) ==
    /\ changes < MaxChanges
    /\ content[i] = 0
    /\ content' = [content EXCEPT ![i] = 1]
    /\ changes' = changes + 1
    /\ UNCHANGED <<classification, outdated, pending, requested,
                   run, worker, channel, closer, consumer, stops, settings>>

\* A file is overwritten ...
ChangeFile(i) ==
    /\ changes < MaxChanges
    /\ content[i] # 0 /\ pending[i] = "none"
    /\ content' = [content EXCEPT ![i] = @ + 1]
    /\ pending' = [pending EXCEPT ![i] = "changed"]
    /\ changes' = changes + 1
    /\ UNCHANGED <<classification, outdated, requested,
                   run, worker, channel, closer, consumer, stops, settings>>

\* mutant: the row is updated without its updated_at
KeepsTime(i) == outdated

Touched(i) == [outdated EXCEPT ![i] = TRUE]

\* ... the sync finds it and saves the row ...
SaveRow(i) ==
    /\ pending[i] = "changed"
    /\ outdated' = Touched(i)
    /\ pending' = [pending EXCEPT ![i] = "saved"]
    /\ UNCHANGED <<content, classification, requested, run, worker, channel, closer, consumer, used>>

\* ... and drops the classification.
Invalidate(i) ==
    /\ pending[i] = "saved"
    /\ classification' = [classification EXCEPT ![i] = 0]
    /\ pending' = [pending EXCEPT ![i] = "none"]
    /\ UNCHANGED <<content, outdated, requested, run, worker, channel, closer, consumer, used>>

-------------------------------------------------------------------------------
Start == \E r \in Runs, incremental \in BOOLEAN : StartClassification(r, incremental)

Change == \E i \in Images : AddFile(i) \/ ChangeFile(i)

Sync(i) == SaveRow(i) \/ Invalidate(i)

Launcher(r) ==
    \/ ResetState(r) \/ Query(r) \/ MarkEmpty(r) \/ NextImage(r) \/ Launch(r) \/ GiveUp(r) \/ Exit(r)

Worker(r, i) == ReadFile(r, i) \/ SendResult(r, i) \/ Release(r, i) \/ WorkerDone(r, i)

Closer(r) == BeginWait(r) \/ EndWait(r)

Consumer(r) == Receive(r) \/ RangeEnds(r) \/ SaveNext(r) \/ Saved(r)

Continue ==
    \/ \E r \in Runs : Launcher(r) \/ Closer(r) \/ Consumer(r)
    \/ \E r \in Runs, i \in Images : Worker(r, i)
    \/ \E i \in Images : Sync(i)

Fail ==
    \/ \E r \in Runs : QueryFails(r) \/ SaveFails(r)
    \/ \E r \in Runs, i \in Images : OcrFails(r, i)

Next ==
    \/ Start \/ Change \/ Continue \/ Fail \/ StopClassification
    \/ \E n \in Settings : SetMaxWorkers(n)

Spec == Init /\ [][Next]_vars

\* A goroutine that can run does; the OCR client gives up on a call after
\* three minutes, so every call returns.
Fairness ==
    /\ \A r \in Runs :
         /\ WF_vars(Launcher(r) \/ QueryFails(r))
         /\ WF_vars(Closer(r))
         /\ WF_vars(Consumer(r) \/ SaveFails(r))
         /\ \A i \in Images : WF_vars(Worker(r, i) \/ OcrFails(r, i))
    /\ \A i \in Images : WF_vars(Sync(i))

FairSpec == Spec /\ Fairness

-------------------------------------------------------------------------------
(* Properties *)

Result == [image : Images, version : Nat]

RunOK ==
    /\ run \in [Runs -> [pc : {"idle", "reset", "query", "empty", "launch", "acquire", "wait",
                               "exit", "ended"},
                         incremental : BOOLEAN, images : SUBSET Images, todo : SUBSET Images,
                         cap : Nat, outcome : {"none", "stopped", "complete"}]]
    /\ \A r \in Runs :
         /\ run[r].todo \subseteq run[r].images
         /\ run[r].pc = "acquire" => run[r].todo # {}

GoroutinesOK ==
    /\ worker \in [Runs -> [Images -> [pc : {"none", "start", "send", "sent", "released", "done"},
                                     version : Nat]]]
    /\ channel \in [Runs -> [queue : Seq(Result), closed : BOOLEAN]]
    /\ closer \in [Runs -> {"none", "begin", "asleep", "woken", "closed", "early", "panicked"}]
    /\ consumer \in [Runs -> [pc : {"none", "range", "save", "done"}, batch : Seq(Result),
                              last : BOOLEAN, count : Nat]]

DbOK ==
    /\ content \in [Images -> Nat] /\ classification \in [Images -> Nat]
    /\ outdated \in [Images -> BOOLEAN]
    /\ pending \in [Images -> {"none", "changed", "saved"}]

UsedOK == changes \in 0 .. MaxChanges /\ stops \in 0 .. MaxStops /\ settings \in 0 .. MaxSettings

\* Every row, flag, channel and goroutine local has its type
\* (ocr_manager.go, ocr.go).
TypeOK ==
    /\ DbOK /\ RunOK /\ GoroutinesOK /\ UsedOK
    /\ mgr \in Manager /\ stopRequested \in BOOLEAN /\ maxWorkers \in Settings

Active == {r \in Runs : run[r].pc \notin {"idle", "ended"}}

\* The runs of the OCR classification are those of a single background worker
\* (background/manager.go; StartClassification).
Single == INSTANCE SingleWorker WITH Workers <- Runs, active <- Active, running <- mgr.running

\* Runs that found nothing to classify, or could not look
Fruitless ==
    {r \in Runs : run[r].pc \notin {"idle", "reset", "query"} /\ run[r].images = {}}

\* The same up to the first run that finds no image, which takes the running
\* flag down twice and may take it from its successor.
SingleUntilFruitless ==
    Single!Init /\ [][Fruitless' = {} => [Single!Next]_(Single!vars)]_vars

\* A run never has more requests at the OCR service than it was given workers
\* when it began, nor than there are processors; and while nobody has set the
\* number anew, no more than are set (launchWorkers, GetEffectiveWorkers).
WithinCapacity ==
    \A r \in Runs :
        /\ Cardinality(InFlight(r)) <= run[r].cap /\ run[r].cap <= NumCPU
        /\ settings = 0 => Cardinality(InFlight(r)) <= Effective(maxWorkers)

\* A worker is launched only while there are fewer than are set at that moment:
\* SetMaxWorkers "takes effect immediately for ongoing classification as well"
\* (ocr_manager.go:102; launchWorkers).
LaunchesWithinSetting ==
    [][\A r \in Runs : Launch(r) => Cardinality(InFlight(r)) < Effective(maxWorkers)]_vars

\* A run that reports "complete" has consumed a result for every image it
\* found (launchWorkers, consumeResults).
CompleteMeansAll ==
    \A r \in Runs :
        run[r].outcome = "complete" => consumer[r].count = Cardinality(run[r].images)

\* A run keeps within the workers it was given, whatever is set later, and its
\* state has its types (launchWorkers).
RunsWithinCapacity == TypeOK /\ WithinCapacity

\* When the channel was closed after the last worker was launched, and no call
\* failed, no result is lost between a worker, the channel, the consumer and its
\* batch: every image the run found has a classification (consumeResults).
ClosedLateLosesNothing ==
    \A r \in Runs :
        run[r].outcome = "complete" /\ closer[r] = "closed" =>
            \A i \in run[r].images : classification[i] # 0

\* A run ends, whatever fails and whenever it is stopped, unless its closer
\* panicked (launchWorkers, consumeResults).
RunsEnd ==
    [](\A r \in Runs : closer[r] # "panicked")
        => \A r \in Runs : run[r].pc = "reset" ~> run[r].pc = "ended"

\* A recorded change of a file is one the next incremental run picks up
\* (queryUnclassifiedImages, InvalidateOCRClassification).
StaleIsCandidate ==
    \A i \in Images :
        content[i] # 0 /\ classification[i] # content[i] /\ pending[i] # "changed"
            => i \in Candidates(TRUE)
===============================================================================
