------------------------ MODULE OcrClassificationProofs ------------------------
(***************************************************************************)
(* What holds of the OCR classification for every set of images and runs,  *)
(* every number of workers and every interleaving: the types and the       *)
(* capacity of a run, the single worker up to the first run without        *)
(* images, and that no result is lost.                                     *)
(***************************************************************************)
EXTENDS MCOcrClassification, WellFoundedInduction, FiniteSetTheorems, TLAPS

\* A set of numbers has a least one (ORDER BY id LIMIT 1 finds a row if there
\* is one).
LEMMA LeastNat ==
    ASSUME NEW T, T \subseteq Nat, T # {}
    PROVE  \E x \in T : \A y \in T : x <= y
  <1>1. PICK x \in T : \A y \in T : ~ (<<y, x>> \in OpToRel(<, Nat))
    BY WFMin, NatLessThanWellFounded
  <1>2. \A y \in T : ~ (y < x)  BY <1>1 DEF OpToRel
  <1> QED  BY <1>2

LEMMA LeastChosen ==
    ASSUME NEW S, S \subseteq Images, S # {}
    PROVE  Least(S) \in S
  <1>1. S \subseteq Nat  BY ConstantsOK
  <1>2. \E i \in S : \A j \in S : i <= j  BY <1>1, LeastNat
  <1> QED  BY <1>2 DEF Least

LEMMA EffectiveBounded ==
    ASSUME NEW n \in Settings
    PROVE  Effective(n) \in Nat /\ Effective(n) <= NumCPU
  BY ConstantsOK DEF Effective

(* Types *)

LEMMA InitTyped == Init => TypeOK
  <1> SUFFICES ASSUME Init PROVE TypeOK  OBVIOUS
  <1>1. DbOK
    <2>1. {0, 1} \subseteq Nat  OBVIOUS
    <2> QED  BY <2>1 DEF Init, DbOK
  <1>2. RunOK  BY DEF Init, RunOK, NotRunning
  <1>3. GoroutinesOK
    <2>1. <<>> \in Seq(Result)  OBVIOUS
    <2> QED  BY <2>1 DEF Init, GoroutinesOK, NoWorker, NoConsumer
  <1>4. UsedOK  BY ConstantsOK DEF Init, UsedOK
  <1> QED  BY <1>1, <1>2, <1>3, <1>4 DEF Init, TypeOK, NewManager, Manager

USE DEF used, db, requested

RunRecord == [pc : {"idle", "reset", "query", "empty", "launch", "acquire", "wait", "exit", "ended"},
              incremental : BOOLEAN, images : SUBSET Images, todo : SUBSET Images,
              cap : Nat, outcome : {"none", "stopped", "complete"}]
WorkerRecord == [pc : {"none", "start", "send", "sent", "released", "done"}, version : Nat]
ConsumerRecord ==
    [pc : {"none", "range", "save", "done"}, batch : Seq(Result), last : BOOLEAN, count : Nat]

LEMMA Records ==
    /\ RunOK <=> /\ run \in [Runs -> RunRecord]
                 /\ \A r \in Runs : /\ run[r].todo \subseteq run[r].images
                                    /\ run[r].pc = "acquire" => run[r].todo # {}
    /\ GoroutinesOK <=> /\ worker \in [Runs -> [Images -> WorkerRecord]]
                        /\ channel \in [Runs -> [queue : Seq(Result), closed : BOOLEAN]]
                        /\ closer \in [Runs -> {"none", "begin", "asleep", "woken", "closed",
                                                "early", "panicked"}]
                        /\ consumer \in [Runs -> ConsumerRecord]
  BY DEF RunOK, GoroutinesOK, RunRecord, WorkerRecord, ConsumerRecord

\* What the launcher's steps make of a run
LEMMA LauncherMoves ==
    ASSUME TypeOK, NEW r \in Runs,
           \/ \E incremental \in BOOLEAN : StartClassification(r, incremental)
           \/ Launcher(r) \/ QueryFails(r)
    PROVE  \E new \in RunRecord :
              /\ run' = [run EXCEPT ![r] = new]
              /\ new.todo \subseteq new.images /\ (new.pc = "acquire" => new.todo # {})
  <1> DEFINE Good(new) == /\ new \in RunRecord /\ run' = [run EXCEPT ![r] = new]
                          /\ new.todo \subseteq new.images /\ (new.pc = "acquire" => new.todo # {})
  <1> SUFFICES \E new : Good(new)  OBVIOUS
  <1>0. /\ run \in [Runs -> RunRecord]
        /\ run[r].todo \subseteq run[r].images
        /\ run[r].pc = "acquire" => run[r].todo # {}
    BY Records DEF TypeOK
  <1>1. ASSUME NEW incremental \in BOOLEAN, StartClassification(r, incremental) PROVE \E new : Good(new)
    <2> DEFINE new == [run[r] EXCEPT !.pc = "reset", !.incremental = incremental]
    <2>1. run' = [run EXCEPT ![r] = new]  BY <1>0, <1>1 DEF StartClassification
    <2>2. Good(new)  BY <1>0, <2>1 DEF RunRecord
    <2> QED  BY <2>2
  <1>2. ASSUME NEW pc \in {"query", "empty", "exit", "wait", "acquire"}, pc = "acquire" => run[r].todo # {},
               run' = [run EXCEPT ![r].pc = pc]
        PROVE  \E new : Good(new)
    <2> DEFINE new == [run[r] EXCEPT !.pc = pc]
    <2>1. Good(new)  BY <1>0, <1>2 DEF RunRecord
    <2> QED  BY <2>1
  <1>3. CASE Query(r)
    <2> DEFINE found == Candidates(run[r].incremental)
               cap == Effective(maxWorkers)
               new == [run[r] EXCEPT !.pc = "launch", !.images = found, !.todo = found, !.cap = cap]
    <2>1. found \subseteq Images /\ cap \in Nat  BY EffectiveBounded DEF Candidates, TypeOK
    <2>2. \/ run' = [run EXCEPT ![r].pc = "empty"]
          \/ run' = [run EXCEPT ![r].pc = "launch", ![r].images = found, ![r].todo = found, ![r].cap = cap]
      BY <1>3 DEF Query
    <2> HIDE DEF found, cap
    <2>3. CASE run' = [run EXCEPT ![r].pc = "empty"]  BY <1>2, <2>3
    <2>4. CASE run' = [run EXCEPT ![r].pc = "launch", ![r].images = found, ![r].todo = found, ![r].cap = cap]
      <3>1. run' = [run EXCEPT ![r] = new]  BY <1>0, <2>4
      <3>2. Good(new)  BY <1>0, <2>1, <3>1 DEF RunRecord
      <3> QED  BY <3>2
    <2> QED  BY <2>2, <2>3, <2>4
  <1>4. CASE Launch(r)
    <2> DEFINE i == Least(run[r].todo)
               new == [run[r] EXCEPT !.pc = "launch", !.todo = run[r].todo \ {i}]
    <2>1. run' = [run EXCEPT ![r].pc = "launch", ![r].todo = run[r].todo \ {i}]  BY <1>4 DEF Launch
    <2> HIDE DEF i
    <2>2. run' = [run EXCEPT ![r] = new]  BY <1>0, <2>1
    <2>3. Good(new)  BY <1>0, <2>2 DEF RunRecord
    <2> QED  BY <2>3
  <1>5. CASE Exit(r)
    <2> DEFINE outcome == IF stopRequested THEN "stopped" ELSE "complete"
               new == [run[r] EXCEPT !.pc = "ended", !.outcome = outcome]
    <2>1. outcome \in {"stopped", "complete"} /\ run' = [run EXCEPT ![r].pc = "ended", ![r].outcome = outcome]
      BY <1>5 DEF Exit
    <2> HIDE DEF outcome
    <2>2. run' = [run EXCEPT ![r] = new]  BY <1>0, <2>1
    <2>3. new \in RunRecord  BY <1>0, <2>1 DEF RunRecord
    <2>4. new.todo = run[r].todo /\ new.images = run[r].images /\ new.pc = "ended"
      BY <1>0 DEF RunRecord
    <2> HIDE DEF new
    <2> QED  BY <1>0, <2>2, <2>3, <2>4
  <1>6. CASE \/ ResetState(r) \/ QueryFails(r) \/ NextImage(r) \/ GiveUp(r) \/ MarkEmpty(r)
    <2>1. \E pc \in {"query", "exit", "wait", "acquire"} :
             run' = [run EXCEPT ![r].pc = pc] /\ (pc = "acquire" => run[r].todo # {})
      BY <1>6 DEF ResetState, QueryFails, NextImage, MoreImages, GiveUp, MarkEmpty
    <2> QED  BY <1>2, <2>1
  <1> QED  BY <1>1, <1>3, <1>4, <1>5, <1>6 DEF Launcher

LEMMA LauncherTyped ==
    ASSUME TypeOK, NEW r \in Runs,
           \/ \E incremental \in BOOLEAN : StartClassification(r, incremental)
           \/ Launcher(r) \/ QueryFails(r)
    PROVE  TypeOK'
  <1> USE DEF TypeOK
  <1>1. RunOK'
    <2>1. PICK new \in RunRecord :
              /\ run' = [run EXCEPT ![r] = new]
              /\ new.todo \subseteq new.images /\ (new.pc = "acquire" => new.todo # {})
      BY LauncherMoves
    <2>2. \A q \in Runs : run'[q] = IF q = r THEN new ELSE run[q]  BY <2>1, Records
    <2> QED  BY <2>1, <2>2 DEF RunOK, RunRecord
  <1>2. mgr' \in Manager
    <2>1. Started(mgr) \in Manager
      <3> DEFINE n == mgr.stopChan + 1
      <3>1. n \in Nat /\ Started(mgr) = [mgr EXCEPT !.running = TRUE, !.stopChan = n]
        BY DEF Started, Manager
      <3> HIDE DEF n
      <3> QED  BY <3>1 DEF Manager
    <2>2. MarkStopped(mgr) \in Manager  BY DEF MarkStopped, Manager
    <2>3. mgr' \in {mgr, Started(mgr), MarkStopped(mgr)}
      BY DEF StartClassification, Launcher, QueryFails, ResetState, Query, MarkEmpty, NextImage, Launch,
          GiveUp, Exit
    <2> QED  BY <2>1, <2>2, <2>3
  <1>3. GoroutinesOK'
    <2>1. CASE Launch(r)
      <3> DEFINE i == Least(run[r].todo)
      <3>1. worker' = [worker EXCEPT ![r][i].pc = "start"]  BY <2>1 DEF Launch
      <3>2. i \in Images  BY <2>1, LeastChosen DEF Launch, RunOK
      <3> HIDE DEF i
      <3>3. worker \in [Runs -> [Images -> WorkerRecord]]  BY Records
      <3> DEFINE w == [worker[r][i] EXCEPT !.pc = "start"]
      <3>4. w \in WorkerRecord /\ worker' = [worker EXCEPT ![r][i] = w]
        BY <3>1, <3>2, <3>3 DEF WorkerRecord
      <3> HIDE DEF w
      <3>5. worker' \in [Runs -> [Images -> WorkerRecord]]  BY <3>3, <3>4
      <3> QED  BY <2>1, <3>5 DEF Launch, GoroutinesOK, WorkerRecord
    <2>2. CASE Query(r)
      <3>1. \/ UNCHANGED <<closer, consumer>>
            \/ /\ consumer' = [consumer EXCEPT ![r].pc = "range"]
               /\ closer' = [closer EXCEPT ![r] = "begin"]
        BY <2>2 DEF Query
      <3>2. UNCHANGED <<worker, channel>>  BY <2>2 DEF Query
      <3>3. consumer \in [Runs -> ConsumerRecord]  BY Records
      <3> DEFINE c == [consumer[r] EXCEPT !.pc = "range"]
      <3>4. c \in ConsumerRecord
        <4>1. consumer[r] \in ConsumerRecord  BY <3>3
        <4> QED  BY ONLY <4>1 DEF ConsumerRecord
      <3>5. consumer' \in {consumer, [consumer EXCEPT ![r] = c]}  BY <3>1
      <3> HIDE DEF c
      <3>6. consumer' \in [Runs -> ConsumerRecord]  BY <3>3, <3>4, <3>5
      <3>7. closer' \in [Runs -> {"none", "begin", "asleep", "woken", "closed", "early", "panicked"}]
        BY <3>1 DEF GoroutinesOK
      <3> QED  BY <3>2, <3>6, <3>7 DEF GoroutinesOK, ConsumerRecord
    <2>3. CASE UNCHANGED <<worker, channel, closer, consumer>>  BY <2>3 DEF GoroutinesOK
    <2> QED
      BY <2>1, <2>2, <2>3 DEF StartClassification, Launcher, QueryFails, ResetState, MarkEmpty,
          NextImage, GiveUp, Exit
  <1>4. UNCHANGED <<db, maxWorkers, used>> /\ stopRequested' \in BOOLEAN
    BY DEF StartClassification, Launcher, QueryFails, ResetState, Query, MarkEmpty, NextImage, Launch,
        GiveUp, Exit
  <1> QED  BY <1>1, <1>2, <1>3, <1>4 DEF DbOK, UsedOK

\* A worker's step changes one worker.
LEMMA WorkerMoves ==
    ASSUME TypeOK, NEW r \in Runs, NEW i \in Images, Worker(r, i) \/ OcrFails(r, i)
    PROVE  \E w \in WorkerRecord : worker' = [worker EXCEPT ![r][i] = w] /\ w.pc # "none"
  <1>0. worker \in [Runs -> [Images -> WorkerRecord]]  BY Records DEF TypeOK
  <1>1. CASE ReadFile(r, i) \/ OcrFails(r, i)
    <2>1. \E v \in Nat : worker' = [worker EXCEPT ![r][i] = [pc |-> "send", version |-> v]]
      BY <1>1 DEF ReadFile, OcrFails, TypeOK, DbOK
    <2>2. \A v \in Nat : [pc |-> "send", version |-> v] \in WorkerRecord  BY DEF WorkerRecord
    <2> QED  BY <2>1, <2>2
  <1>2. CASE SendResult(r, i) \/ Release(r, i) \/ WorkerDone(r, i)
    <2>1. PICK pc \in {"sent", "released", "done"} : worker' = [worker EXCEPT ![r][i].pc = pc]
      BY <1>2 DEF SendResult, Release, WorkerDone
    <2> DEFINE w == [worker[r][i] EXCEPT !.pc = pc]
    <2>2. w \in WorkerRecord /\ w.pc # "none"  BY <1>0 DEF WorkerRecord
    <2>3. worker' = [worker EXCEPT ![r][i] = w]  BY <1>0, <2>1
    <2> QED  BY <2>2, <2>3
  <1> QED  BY <1>1, <1>2 DEF Worker

LEMMA WorkerTyped ==
    ASSUME TypeOK, NEW r \in Runs, NEW i \in Images, Worker(r, i) \/ OcrFails(r, i)
    PROVE  TypeOK'
  <1> USE DEF TypeOK
  <1>1. worker' \in [Runs -> [Images -> WorkerRecord]]
    <2>1. PICK w \in WorkerRecord : worker' = [worker EXCEPT ![r][i] = w]  BY WorkerMoves
    <2>2. worker \in [Runs -> [Images -> WorkerRecord]]  BY Records
    <2> QED  BY <2>1, <2>2
  <1>2. channel' \in [Runs -> [queue : Seq(Result), closed : BOOLEAN]]
    <2>1. channel \in [Runs -> [queue : Seq(Result), closed : BOOLEAN]]  BY Records
    <2>2. [image |-> i, version |-> worker[r][i].version] \in Result
      BY DEF Result, GoroutinesOK
    <2>3. \/ UNCHANGED channel
          \/ channel' = [channel EXCEPT ![r].queue =
                 Append(channel[r].queue, [image |-> i, version |-> worker[r][i].version])]
      BY DEF Worker, ReadFile, OcrFails, SendResult, Release, WorkerDone
    <2> DEFINE queue == Append(channel[r].queue, [image |-> i, version |-> worker[r][i].version])
    <2>4. queue \in Seq(Result)  BY <2>1, <2>2
    <2> HIDE DEF queue
    <2>5. UNCHANGED channel \/ channel' = [channel EXCEPT ![r].queue = queue]  BY <2>3 DEF queue
    <2> QED  BY <2>1, <2>4, <2>5
  <1>3. closer' \in [Runs -> {"none", "begin", "asleep", "woken", "closed", "early", "panicked"}]
    BY DEF Worker, ReadFile, OcrFails, SendResult, Release, WorkerDone, GoroutinesOK
  <1>4. GoroutinesOK'
    <2>1. UNCHANGED consumer  BY DEF Worker, ReadFile, OcrFails, SendResult, Release, WorkerDone
    <2> QED  BY <1>1, <1>2, <1>3, <2>1, Records DEF GoroutinesOK, WorkerRecord
  <1> QED
    BY <1>4 DEF Worker, ReadFile, OcrFails, SendResult, Release, WorkerDone, DbOK, RunOK, UsedOK

LEMMA CloserTyped ==
    ASSUME TypeOK, NEW r \in Runs, Closer(r)
    PROVE  TypeOK'
  <1> USE DEF TypeOK
  <1>1. \E state \in {"asleep", "panicked", "early", "closed"} : closer' = [closer EXCEPT ![r] = state]
    BY DEF Closer, BeginWait, EndWait, Close
  <1>2. UNCHANGED channel \/ channel' = [channel EXCEPT ![r].closed = TRUE]
    BY DEF Closer, BeginWait, EndWait, Close
  <1>3. UNCHANGED <<db, requested, run, worker, consumer, used>>  BY DEF Closer, BeginWait, EndWait
  <1>4. GoroutinesOK'
    <2>1. closer' \in [Runs -> {"none", "begin", "asleep", "woken", "closed", "early", "panicked"}]
      BY <1>1 DEF GoroutinesOK
    <2>2. channel \in [Runs -> [queue : Seq(Result), closed : BOOLEAN]]  BY DEF GoroutinesOK
    <2>3. channel' \in [Runs -> [queue : Seq(Result), closed : BOOLEAN]]  BY <1>2, <2>2
    <2> QED  BY <1>3, <2>1, <2>3 DEF GoroutinesOK
  <1> QED  BY <1>3, <1>4 DEF DbOK, RunOK, UsedOK

LEMMA ConsumerTyped ==
    ASSUME TypeOK, NEW r \in Runs, Consumer(r) \/ SaveFails(r)
    PROVE  TypeOK'
  <1> USE DEF TypeOK
  <1> DEFINE C == [pc : {"none", "range", "save", "done"}, batch : Seq(Result), last : BOOLEAN, count : Nat]
  <1>0. consumer \in [Runs -> C]  BY DEF GoroutinesOK
  <1>1. CASE Receive(r)
    <2> DEFINE result == Head(channel[r].queue)
               c == [consumer[r] EXCEPT !.count = consumer[r].count + 1]
    <2>1. channel[r].queue \in Seq(Result) /\ channel[r].queue # <<>>
      BY <1>1 DEF Receive, GoroutinesOK
    <2>2. result \in Result /\ Tail(channel[r].queue) \in Seq(Result)  BY <2>1
    <2>3. c \in C
      <3>1. consumer[r] \in C  BY <1>0
      <3> HIDE DEF result
      <3> QED  BY ONLY <3>1
    <2>4. Flushing(c) \in C  BY <2>3 DEF Flushing
    <2> HIDE DEF result, c
    <2>5. Added(c, result) \in C
      <3> DEFINE b == Append(c.batch, result)
                 pc == IF Len(b) >= BatchSize THEN "save" ELSE "range"
      <3>1. b \in Seq(Result) /\ pc \in {"save", "range"}  BY <2>2, <2>3
      <3>2. Added(c, result) = [c EXCEPT !.batch = b, !.pc = pc]  BY DEF Added
      <3> HIDE DEF b, pc
      <3> QED  BY <2>3, <3>1, <3>2
    <2>6. \E d \in C : consumer' = [consumer EXCEPT ![r] = d]
      BY <1>1, <2>3, <2>4, <2>5 DEF Receive, result, c
    <2>7. GoroutinesOK'
      <3>1. consumer' \in [Runs -> C]  BY <1>0, <2>6
      <3>2. channel' = [channel EXCEPT ![r].queue = Tail(channel[r].queue)]  BY <1>1 DEF Receive
      <3>3. channel \in [Runs -> [queue : Seq(Result), closed : BOOLEAN]]  BY DEF GoroutinesOK
      <3>4. channel' \in [Runs -> [queue : Seq(Result), closed : BOOLEAN]]  BY <2>2, <3>2, <3>3
      <3> QED  BY <1>1, <3>1, <3>4 DEF Receive, GoroutinesOK
    <2> QED  BY <1>1, <2>7 DEF Receive, DbOK, RunOK, UsedOK
  <1>2. CASE RangeEnds(r)
    <2>1. GoroutinesOK'  BY <1>2 DEF RangeEnds, Flushing, GoroutinesOK
    <2> QED  BY <1>2, <2>1 DEF RangeEnds, DbOK, RunOK, UsedOK
  <1>3. CASE SaveNext(r) \/ SaveFails(r)
    <2>1. consumer[r].batch \in Seq(Result) /\ consumer[r].batch # <<>>
      BY <1>3 DEF SaveNext, SaveFails, GoroutinesOK
    <2>2. Head(consumer[r].batch) \in Result /\ Tail(consumer[r].batch) \in Seq(Result)  BY <2>1
    <2>3. GoroutinesOK'
      <3> DEFINE c == [consumer[r] EXCEPT !.batch = Tail(consumer[r].batch)]
      <3>1. c \in C
        <4>1. consumer[r] \in C  BY <1>0
        <4> QED  BY ONLY <2>2, <4>1
      <3>2. consumer' = [consumer EXCEPT ![r] = c]  BY <1>3 DEF SaveNext, SaveFails
      <3> HIDE DEF c
      <3>3. consumer' \in [Runs -> C]  BY <1>0, <3>1, <3>2
      <3> QED  BY <1>3, <3>3 DEF SaveNext, SaveFails, GoroutinesOK
    <2>4. DbOK'  BY <1>3, <2>2 DEF SaveNext, SaveFails, DbOK, Result
    <2> QED  BY <1>3, <2>3, <2>4 DEF SaveNext, SaveFails, RunOK, UsedOK
  <1>4. CASE Saved(r)
    <2>1. GoroutinesOK'  BY <1>4 DEF Saved, GoroutinesOK
    <2> QED  BY <1>4, <2>1 DEF Saved, DbOK, RunOK, UsedOK
  <1> QED  BY <1>1, <1>2, <1>3, <1>4 DEF Consumer

LEMMA OutsideTyped ==
    ASSUME TypeOK, \/ StopClassification \/ Change
                   \/ \E n \in Settings : SetMaxWorkers(n)
                   \/ \E i \in Images : Sync(i)
    PROVE  TypeOK'
  <1> USE DEF TypeOK
  <1>1. DbOK'
    <2>1. ASSUME NEW i \in Images, AddFile(i) PROVE DbOK'  BY <2>1 DEF AddFile, DbOK
    <2>2. ASSUME NEW i \in Images, ChangeFile(i) PROVE DbOK'  BY <2>2 DEF ChangeFile, DbOK
    <2>3. ASSUME NEW i \in Images, SaveRow(i) PROVE DbOK'  BY <2>3 DEF SaveRow, Touched, DbOK
    <2>4. ASSUME NEW i \in Images, Invalidate(i) PROVE DbOK'  BY <2>4 DEF Invalidate, DbOK
    <2>5. CASE UNCHANGED db  BY <2>5 DEF DbOK
    <2> QED
      BY <2>1, <2>2, <2>3, <2>4, <2>5 DEF Change, Sync, StopClassification, SetMaxWorkers
  <1>2. UsedOK'
    BY ConstantsOK DEF Change, AddFile, ChangeFile, Sync, SaveRow, Invalidate, StopClassification,
        SetMaxWorkers, UsedOK
  <1> QED
    BY <1>1, <1>2 DEF Change, AddFile, ChangeFile, Sync, SaveRow, Invalidate, StopClassification,
        SetMaxWorkers, RunOK, GoroutinesOK

LEMMA StepTyped == TypeOK /\ [Next]_vars => TypeOK'
  <1> SUFFICES ASSUME TypeOK, [Next]_vars PROVE TypeOK'  OBVIOUS
  <1>1. CASE UNCHANGED vars
    BY <1>1 DEF vars, TypeOK, DbOK, RunOK, GoroutinesOK, UsedOK
  <1> QED
    BY <1>1, LauncherTyped, WorkerTyped, CloserTyped, ConsumerTyped, OutsideTyped
    DEF Next, Start, Continue, Fail

-------------------------------------------------------------------------------
(* The capacity of a run *)

Before == {"idle", "reset", "query"}
Planless == {"idle", "reset", "query", "empty", "exit"}

\* A run that has not launched anything has no workers; one that has keeps
\* within its workers, and those are at most as many as have been set from the
\* beginning.
Kept(r) ==
    /\ run[r].pc \in Before => InFlight(r) = {}
    /\ run[r].cap <= NumCPU
    /\ settings = 0 => run[r].cap <= Effective(maxWorkers)
    /\ IsFiniteSet(InFlight(r)) /\ Cardinality(InFlight(r)) <= run[r].cap

CapacityInv == \A r \in Runs : Kept(r)

\* The slots taken shrink, unless the launcher takes one.
LEMMA SlotsShrink ==
    ASSUME TypeOK, [Next]_vars, NEW r \in Runs
    PROVE  InFlight(r)' \subseteq InFlight(r) \/ Launch(r)
  <1>0. worker \in [Runs -> [Images -> WorkerRecord]]  BY Records DEF TypeOK
  <1>1. ASSUME NEW q \in Runs, NEW i \in Images, Worker(q, i) \/ OcrFails(q, i)
        PROVE  InFlight(r)' \subseteq InFlight(r)
    <2>1. PICK w \in WorkerRecord : worker' = [worker EXCEPT ![q][i] = w]  BY <1>1, WorkerMoves
    <2>2. worker[q][i].pc \in {"start", "send", "sent"} \/ w.pc \notin {"start", "send", "sent"}
      <3>1. ReadFile(q, i) \/ OcrFails(q, i) \/ SendResult(q, i) \/ Release(q, i)
              => worker[q][i].pc \in {"start", "send", "sent"}
        BY DEF ReadFile, OcrFails, SendResult, Release
      <3>2. WorkerDone(q, i) => w.pc = "done"
        <4>1. worker'[q][i] = w  BY <1>0, <2>1
        <4>2. WorkerDone(q, i) => worker'[q][i].pc = "done"
          BY <1>0 DEF WorkerDone, WorkerRecord
        <4> QED  BY <4>1, <4>2
      <3> QED  BY <1>1, <3>1, <3>2 DEF Worker
    <2>3. \A j \in Images : worker'[r][j] = IF r = q /\ j = i THEN w ELSE worker[r][j]
      BY <1>0, <2>1
    <2> QED  BY <2>2, <2>3 DEF InFlight
  <1>2. ASSUME NEW q \in Runs, Launch(q), q # r PROVE InFlight(r)' \subseteq InFlight(r)
    <2>1. worker'[r] = worker[r]  BY <1>0, <1>2 DEF Launch
    <2> QED  BY <2>1 DEF InFlight
  <1>3. CASE UNCHANGED worker  BY <1>3 DEF InFlight
  <1>4. ASSUME NEW q \in Runs,
               \/ \E incremental \in BOOLEAN : StartClassification(q, incremental)
               \/ Launcher(q) \/ QueryFails(q) \/ Closer(q) \/ Consumer(q) \/ SaveFails(q)
        PROVE  UNCHANGED worker \/ Launch(q)
    BY <1>4 DEF StartClassification, Launcher, QueryFails, ResetState, Query, MarkEmpty, NextImage,
        GiveUp, Exit, Closer, BeginWait, EndWait, Consumer, Receive, RangeEnds, SaveNext, Saved, SaveFails
  <1>5. ASSUME \/ StopClassification \/ Change \/ \E n \in Settings : SetMaxWorkers(n)
               \/ \E i \in Images : Sync(i)
               \/ UNCHANGED vars
        PROVE  UNCHANGED worker
    BY <1>5 DEF StopClassification, Change, AddFile, ChangeFile, SetMaxWorkers, Sync, SaveRow, Invalidate, vars
  <1> QED  BY <1>1, <1>2, <1>3, <1>4, <1>5 DEF Next, Start, Continue, Fail

\* A run's plan is made by its query, and it does not go back before that.
LEMMA PlansStay ==
    ASSUME TypeOK, [Next]_vars, NEW r \in Runs
    PROVE  \/ run'[r] = run[r]
           \/ Query(r)
           \/ /\ run'[r].cap = run[r].cap /\ run'[r].images = run[r].images
              /\ run'[r].pc \in Before => run[r].pc \in Before
              /\ run'[r].pc \in Planless => run[r].pc \in Planless
  <1>0. run \in [Runs -> RunRecord]  BY Records DEF TypeOK
  <1>1. ASSUME NEW q \in Runs \ {r},
               \/ \E incremental \in BOOLEAN : StartClassification(q, incremental)
               \/ Launcher(q) \/ QueryFails(q)
        PROVE  run'[r] = run[r]
    <2>1. \E new : run' = [run EXCEPT ![q] = new]  BY <1>1, LauncherMoves
    <2> QED  BY <1>0, <2>1
  <1>2. ASSUME NEW incremental \in BOOLEAN, StartClassification(r, incremental)
        PROVE  /\ run'[r].cap = run[r].cap /\ run'[r].images = run[r].images
               /\ run[r].pc \in Before \cap Planless
    BY <1>0, <1>2 DEF StartClassification, RunRecord, Before, Planless
  <1>3. ASSUME ResetState(r) \/ QueryFails(r) \/ MarkEmpty(r) \/ NextImage(r) \/ GiveUp(r)
        PROVE  /\ run'[r].cap = run[r].cap /\ run'[r].images = run[r].images
               /\ run'[r].pc \in Before => run[r].pc \in Before
               /\ run'[r].pc \in Planless => run[r].pc \in Planless
    <2>1. PICK pc \in {"query", "exit", "wait", "acquire"} :
             /\ run' = [run EXCEPT ![r].pc = pc]
             /\ pc = "query" => run[r].pc = "reset"
             /\ pc = "exit" => run[r].pc \in {"query", "empty"}
      BY <1>3 DEF ResetState, QueryFails, NextImage, GiveUp, MarkEmpty
    <2> QED  BY <1>0, <2>1 DEF RunRecord, Before, Planless
  <1>4. ASSUME Launch(r) \/ Exit(r)
        PROVE  /\ run'[r].cap = run[r].cap /\ run'[r].images = run[r].images
               /\ run'[r].pc \notin Before \cup Planless
    BY <1>0, <1>4 DEF Launch, Exit, RunRecord, Before, Planless
  <1>5. ASSUME NEW q \in Runs, \/ Closer(q) \/ Consumer(q) \/ SaveFails(q)
                               \/ \E i \in Images : Worker(q, i) \/ OcrFails(q, i)
        PROVE  UNCHANGED run
    BY <1>5 DEF Closer, BeginWait, EndWait, Consumer, Receive, RangeEnds, SaveNext, Saved, SaveFails,
        Worker, ReadFile, SendResult, Release, WorkerDone, OcrFails
  <1>6. ASSUME \/ StopClassification \/ Change \/ \E n \in Settings : SetMaxWorkers(n)
               \/ \E i \in Images : Sync(i)
               \/ UNCHANGED vars
        PROVE  UNCHANGED run
    BY <1>6 DEF StopClassification, Change, AddFile, ChangeFile, SetMaxWorkers, Sync, SaveRow, Invalidate, vars
  <1> QED  BY <1>1, <1>2, <1>3, <1>4, <1>5, <1>6 DEF Next, Start, Continue, Fail, Launcher

\* The number of workers is set in SetMaxWorkers only, which counts.
LEMMA SettingsCounted ==
    ASSUME TypeOK, [Next]_vars, settings' = 0
    PROVE  settings = 0 /\ maxWorkers' = maxWorkers
  <1>0. settings \in Nat /\ MaxSettings \in Nat  BY ConstantsOK DEF TypeOK, UsedOK
  <1>1. ASSUME NEW n \in Settings, SetMaxWorkers(n) PROVE FALSE
    BY <1>0, <1>1 DEF SetMaxWorkers
  <1>2. ASSUME NEW q \in Runs,
               \/ \E incremental \in BOOLEAN : StartClassification(q, incremental)
               \/ Launcher(q) \/ QueryFails(q) \/ Closer(q)
        PROVE  settings' = settings /\ maxWorkers' = maxWorkers
    BY <1>2 DEF StartClassification, Launcher, QueryFails, ResetState, Query, MarkEmpty, NextImage,
        Launch, GiveUp, Exit, Closer, BeginWait, EndWait, requested, used
  <1>3. ASSUME NEW q \in Runs,
               \/ Consumer(q) \/ SaveFails(q)
               \/ \E i \in Images : Worker(q, i) \/ OcrFails(q, i)
        PROVE  settings' = settings /\ maxWorkers' = maxWorkers
    BY <1>3 DEF Consumer, Receive, RangeEnds, SaveNext, Saved, SaveFails, Worker, ReadFile,
        SendResult, Release, WorkerDone, OcrFails, requested, used
  <1>4. ASSUME StopClassification \/ Change \/ (\E i \in Images : Sync(i)) \/ UNCHANGED vars
        PROVE  settings' = settings /\ maxWorkers' = maxWorkers
    BY <1>4 DEF StopClassification, Change, AddFile, ChangeFile, Sync, SaveRow, Invalidate, vars,
        requested, used
  <1> QED  BY <1>1, <1>2, <1>3, <1>4 DEF Next, Start, Continue, Fail

\* A run keeps within the workers it was given when it began, and within the
\* processors; and while nobody sets the number anew, within that number
\* (launchWorkers, GetEffectiveWorkers).
THEOREM RunsKeepWithinCapacity == Spec => []RunsWithinCapacity
<1>1. Init => TypeOK /\ CapacityInv
  <2> SUFFICES ASSUME Init PROVE CapacityInv  BY InitTyped
  <2>1. \A r \in Runs : InFlight(r) = {}  BY DEF Init, InFlight, NoWorker
  <2>2. \A r \in Runs : run[r].pc = "idle" /\ run[r].cap = 0  BY DEF Init, NotRunning
  <2>3. Effective(maxWorkers) \in Nat  BY EffectiveBounded DEF Init
  <2>4. IsFiniteSet({}) /\ Cardinality({}) = 0  BY FS_EmptySet
  <2>5. NumCPU \in Nat  BY ConstantsOK
  <2>6. \A r \in Runs : settings = 0 => run[r].cap <= Effective(maxWorkers)  BY <2>2, <2>3
  <2>7. \A r \in Runs : /\ IsFiniteSet(InFlight(r)) /\ Cardinality(InFlight(r)) <= run[r].cap
                        /\ run[r].cap <= NumCPU
    BY <2>1, <2>2, <2>4, <2>5
  <2> QED  BY <2>1, <2>6, <2>7 DEF CapacityInv, Kept
<1>2. TypeOK /\ CapacityInv /\ [Next]_vars => TypeOK' /\ CapacityInv'
  <2> SUFFICES ASSUME TypeOK, CapacityInv, [Next]_vars, NEW r \in Runs PROVE Kept(r)'
    BY StepTyped DEF CapacityInv
  <2>0. /\ run \in [Runs -> RunRecord] /\ run[r].cap \in Nat /\ NumCPU \in Nat
        /\ Kept(r) /\ IsFiniteSet(InFlight(r)) /\ Cardinality(InFlight(r)) \in Nat
    BY Records, FS_CardinalityType, ConstantsOK DEF TypeOK, CapacityInv, Kept, RunRecord
  <2>s. /\ settings' = 0 => settings = 0 /\ Effective(maxWorkers') = Effective(maxWorkers)
        /\ Effective(maxWorkers) \in Nat /\ Effective(maxWorkers)' = Effective(maxWorkers')
    BY SettingsCounted, EffectiveBounded DEF TypeOK, Effective
  <2>1. CASE Launch(r)
    <3> DEFINE i == Least(run[r].todo)
    <3>1. /\ Cardinality(InFlight(r)) < run[r].cap
          /\ worker' = [worker EXCEPT ![r][i].pc = "start"]
          /\ i \in Images
      BY <2>1, LeastChosen DEF Launch, MayAcquire, TypeOK, RunOK
    <3> HIDE DEF i
    <3>2. InFlight(r)' = InFlight(r) \cup {i}
      <4>1. worker \in [Runs -> [Images -> WorkerRecord]]  BY Records DEF TypeOK
      <4>2. worker'[r][i].pc = "start" /\ \A j \in Images \ {i} : worker'[r][j] = worker[r][j]
        BY <3>1, <4>1 DEF WorkerRecord
      <4> QED  BY <3>1, <4>2 DEF InFlight
    <3>3. IsFiniteSet(InFlight(r)') /\ Cardinality(InFlight(r)') <= Cardinality(InFlight(r)) + 1
      <4>1. /\ IsFiniteSet(InFlight(r) \cup {i})
            /\ Cardinality(InFlight(r) \cup {i}) \in {Cardinality(InFlight(r)), Cardinality(InFlight(r)) + 1}
        BY <2>0, FS_AddElement
      <4> QED  BY <2>0, <3>2, <4>1
    <3>4. Cardinality(InFlight(r)') \in Nat  BY <3>3, FS_CardinalityType
    <3>5. run'[r].cap = run[r].cap /\ run'[r].pc = "launch"  BY <2>0, <2>1 DEF Launch, RunRecord
    <3>6. Cardinality(InFlight(r)') <= run'[r].cap  BY <2>0, <3>1, <3>3, <3>4, <3>5
    <3>7. settings' = 0 => run'[r].cap <= Effective(maxWorkers)'  BY <2>0, <2>s, <3>5 DEF Kept
    <3> QED  BY <2>0, <3>3, <3>5, <3>6, <3>7 DEF Kept, Before
  <2>2. CASE InFlight(r)' \subseteq InFlight(r)
    <3>1. /\ IsFiniteSet(InFlight(r)') /\ Cardinality(InFlight(r)') <= Cardinality(InFlight(r))
          /\ Cardinality(InFlight(r)') \in Nat
      BY <2>0, <2>2, FS_Subset, FS_CardinalityType
    <3>2. CASE Query(r)
      <4>1. InFlight(r)' = {}  BY <2>0, <2>2, <3>2 DEF Query, Kept, Before
      <4>2. run'[r].cap = run[r].cap \/ run'[r].cap = Effective(maxWorkers)
        BY <2>0, <3>2 DEF Query, RunRecord
      <4>3. Effective(maxWorkers) \in Nat /\ Effective(maxWorkers) <= NumCPU
        BY EffectiveBounded DEF TypeOK
      <4>4. run'[r].cap \in Nat /\ run'[r].cap <= NumCPU  BY <2>0, <4>2, <4>3 DEF Kept
      <4>5. Cardinality(InFlight(r)') = 0  BY <4>1, FS_EmptySet
      <4>6. settings' = 0 => run'[r].cap <= Effective(maxWorkers)'
        BY <2>0, <2>s, <4>2, <4>3 DEF Kept
      <4> QED  BY <3>1, <4>1, <4>4, <4>5, <4>6 DEF Kept
    <3>3. CASE /\ run'[r].cap = run[r].cap
               /\ run'[r].pc \in Before => run[r].pc \in Before
      <4>1. run[r].cap <= NumCPU /\ Cardinality(InFlight(r)) <= run[r].cap  BY <2>0 DEF Kept
      <4>2. Cardinality(InFlight(r)') <= run'[r].cap  BY ONLY <2>0, <3>1, <3>3, <4>1
      <4>3. run'[r].pc \in Before => InFlight(r)' = {}  BY <2>0, <2>2, <3>3 DEF Kept
      <4>4. settings' = 0 => run'[r].cap <= Effective(maxWorkers)'  BY <2>0, <2>s, <3>3 DEF Kept
      <4> QED  BY <3>1, <3>3, <4>1, <4>2, <4>3, <4>4 DEF Kept
    <3> QED  BY <3>2, <3>3, PlansStay
  <2> QED  BY <2>1, <2>2, SlotsShrink
<1>3. TypeOK /\ CapacityInv => RunsWithinCapacity
  <2> SUFFICES ASSUME TypeOK, CapacityInv, NEW r \in Runs
               PROVE  settings = 0 => Cardinality(InFlight(r)) <= Effective(maxWorkers)
    BY DEF CapacityInv, Kept, RunsWithinCapacity, WithinCapacity
  <2>1. Kept(r) /\ run[r].cap \in Nat /\ Cardinality(InFlight(r)) \in Nat
    BY Records, FS_CardinalityType DEF CapacityInv, Kept, TypeOK, RunRecord
  <2>2. Effective(maxWorkers) \in Nat  BY EffectiveBounded DEF TypeOK
  <2> QED  BY <2>1, <2>2 DEF Kept
<1> QED  BY <1>1, <1>2, <1>3, PTL DEF Spec

-------------------------------------------------------------------------------
(* The single worker *)

\* Up to the first run without images, the flag is up exactly while there is a
\* run, and there is one at most.
FlagInv == Fruitless = {} => /\ mgr.running <=> Active # {}
                             /\ \A v, w \in Active : v = w

LEMMA FruitlessStay ==
    ASSUME TypeOK, [Next]_vars, Fruitless' = {}
    PROVE  Fruitless = {}
  <1> SUFFICES ASSUME NEW r \in Fruitless PROVE r \in Fruitless'  OBVIOUS
  <1>1. r \in Runs /\ run[r].pc \notin Before /\ run[r].images = {}
    BY DEF Fruitless, Before
  <1>2. ~Query(r)  BY <1>1 DEF Query, Before
  <1>3. run'[r].pc \notin Before /\ run'[r].images = {}  BY <1>1, <1>2, PlansStay
  <1> QED  BY <1>1, <1>3 DEF Fruitless, Before

\* How a step looks from the manager

\* A run without a plan has no images.
PlanlessInv == \A r \in Runs : run[r].pc \in Planless => run[r].images = {}

LEMMA ManagerMoves ==
    ASSUME TypeOK, PlanlessInv, [Next]_vars, Fruitless' = {}
    PROVE  \/ \E r \in Runs : /\ ~mgr.running /\ mgr'.running
                              /\ r \notin Active /\ Active' = Active \cup {r}
           \/ \E r \in Runs : ~mgr'.running /\ r \in Active /\ Active' = Active \ {r}
           \/ UNCHANGED <<Active, mgr>>
  <1>0. run \in [Runs -> RunRecord] /\ mgr \in Manager  BY Records DEF TypeOK
  <1>1. ASSUME NEW r \in Runs, NEW incremental \in BOOLEAN, StartClassification(r, incremental)
        PROVE  /\ ~mgr.running /\ mgr'.running
               /\ r \notin Active /\ Active' = Active \cup {r}
    <2>1. ~mgr.running /\ mgr'.running  BY <1>0, <1>1 DEF StartClassification, MayStart, Started, Manager
    <2>2. run[r].pc = "idle" /\ run'[r].pc = "reset" /\ \A q \in Runs \ {r} : run'[q] = run[q]
      BY <1>0, <1>1 DEF StartClassification, RunRecord
    <2> QED  BY <2>1, <2>2 DEF Active
  <1>2. ASSUME NEW r \in Runs, Exit(r)
        PROVE  ~mgr'.running /\ r \in Active /\ Active' = Active \ {r}
    <2>1. ~mgr'.running  BY <1>0, <1>2 DEF Exit, MarkStopped, Manager
    <2>2. run[r].pc \in {"exit", "wait"} /\ run'[r].pc = "ended" /\ \A q \in Runs \ {r} : run'[q] = run[q]
      BY <1>0, <1>2 DEF Exit, RunRecord
    <2> QED  BY <2>1, <2>2 DEF Active
  <1>3. ASSUME NEW r \in Runs, run[r].pc \in Planless, run'[r].images = run[r].images,
               run'[r].pc \notin Before
        PROVE  FALSE
    BY <1>3 DEF PlanlessInv, Fruitless, Before
  <1>4. ASSUME NEW r \in Runs, MarkEmpty(r) \/ QueryFails(r) PROVE FALSE
    <2>1. /\ run[r].pc \in Planless /\ run'[r].images = run[r].images
          /\ run'[r].pc \notin Before
      BY <1>0, <1>4 DEF MarkEmpty, QueryFails, RunRecord, Planless, Before
    <2> QED  BY <1>3, <2>1
  <1>5. ASSUME NEW r \in Runs, UNCHANGED mgr, run[r].pc \notin {"idle", "ended"},
               \E new : run' = [run EXCEPT ![r] = new] /\ new.pc \notin {"idle", "ended"}
        PROVE  UNCHANGED <<Active, mgr>>
    <2>1. PICK new : run' = [run EXCEPT ![r] = new] /\ new.pc \notin {"idle", "ended"}  BY <1>5
    <2>2. run'[r].pc \notin {"idle", "ended"} /\ \A q \in Runs \ {r} : run'[q] = run[q]
      BY <1>0, <2>1
    <2> QED  BY <1>5, <2>2 DEF Active
  <1>6. ASSUME NEW r \in Runs, ResetState(r) \/ NextImage(r) \/ Launch(r) \/ GiveUp(r) \/ Query(r)
        PROVE  UNCHANGED <<Active, mgr>>
    <2>1. PICK new \in RunRecord : run' = [run EXCEPT ![r] = new]
      BY <1>6, LauncherMoves DEF Launcher
    <2>2. run'[r] = new  BY <1>0, <2>1
    <2>3. run'[r].pc \notin {"idle", "ended"} /\ run[r].pc \notin {"idle", "ended"} /\ UNCHANGED mgr
      BY <1>0, <1>6 DEF ResetState, NextImage, Launch, GiveUp, Query, RunRecord
    <2> QED  BY <1>5, <2>1, <2>2, <2>3
  <1>7. ASSUME NEW r \in Runs, \/ Closer(r) \/ Consumer(r) \/ SaveFails(r)
                               \/ \E i \in Images : Worker(r, i) \/ OcrFails(r, i)
        PROVE  UNCHANGED <<Active, mgr>>
    BY <1>7 DEF Closer, BeginWait, EndWait, Consumer, Receive, RangeEnds, SaveNext, Saved, SaveFails,
        Worker, ReadFile, SendResult, Release, WorkerDone, OcrFails, Active
  <1>8. ASSUME \/ StopClassification \/ Change \/ \E n \in Settings : SetMaxWorkers(n)
               \/ \E i \in Images : Sync(i)
               \/ UNCHANGED vars
        PROVE  UNCHANGED <<Active, mgr>>
    BY <1>8 DEF StopClassification, Change, AddFile, ChangeFile, SetMaxWorkers, Sync, SaveRow,
        Invalidate, vars, Active
  <1> QED
    BY <1>1, <1>2, <1>4, <1>6, <1>7, <1>8 DEF Next, Start, Continue, Fail, Launcher

LEMMA SingleInvariant ==
    /\ Init => PlanlessInv /\ FlagInv
    /\ TypeOK /\ PlanlessInv /\ FlagInv /\ [Next]_vars => PlanlessInv' /\ FlagInv'
  <1>1. ASSUME Init PROVE PlanlessInv /\ FlagInv
    <2>1. \A r \in Runs : run[r].pc = "idle" /\ run[r].images = {}  BY <1>1 DEF Init, NotRunning
    <2>2. Active = {} /\ ~mgr.running  BY <1>1, <2>1 DEF Active, Init, NewManager
    <2> QED  BY <2>1, <2>2 DEF PlanlessInv, FlagInv
  <1>2. ASSUME TypeOK, PlanlessInv, [Next]_vars, NEW r \in Runs, run'[r].pc \in Planless
        PROVE  run'[r].images = {}
    <2>0. run \in [Runs -> RunRecord]  BY <1>2, Records DEF TypeOK
    <2>1. CASE Query(r)
      <3>1. run[r].images = {}  BY <1>2, <2>1 DEF Query, PlanlessInv, Planless
      <3>2. run' = [run EXCEPT ![r].pc = "empty"] \/ run'[r].pc = "launch"
        BY <2>0, <2>1 DEF Query, RunRecord
      <3> QED  BY <1>2, <2>0, <3>1, <3>2 DEF Planless, RunRecord
    <2>2. CASE ~Query(r)  BY <1>2, <2>2, PlansStay DEF PlanlessInv
    <2> QED  BY <2>1, <2>2
  <1>3. ASSUME TypeOK, PlanlessInv, FlagInv, [Next]_vars, Fruitless' = {}
        PROVE  /\ mgr'.running <=> Active' # {}
               /\ \A v, w \in Active' : v = w
    <2>1. /\ mgr.running <=> Active # {}
          /\ \A v, w \in Active : v = w
      BY <1>3, FruitlessStay DEF FlagInv
    <2> QED  BY <1>3, <2>1, ManagerMoves
  <1> QED  BY <1>1, <1>2, <1>3 DEF PlanlessInv, FlagInv

LEMMA TypeCorrect == Spec => []TypeOK
  BY InitTyped, StepTyped, PTL DEF Spec

\* Up to the first run that finds no image, the classification implements the
\* single worker that its manager promises (background/manager.go;
\* StartClassification).
THEOREM ImplementsSingleWorker == Spec => SingleUntilFruitless
<1>1. Init => Single!Init
  <2> SUFFICES ASSUME Init PROVE Single!Init  OBVIOUS
  <2>1. \A r \in Runs : run[r].pc = "idle"  BY DEF Init, NotRunning
  <2> QED  BY <2>1 DEF Single!Init, Active, Init, NewManager
<1>2. TypeOK /\ PlanlessInv /\ FlagInv /\ [Next]_vars
         => [Fruitless' = {} => [Single!Next]_(Single!vars)]_vars
  <2> SUFFICES ASSUME TypeOK, PlanlessInv, FlagInv, [Next]_vars, Fruitless' = {}
               PROVE  [Single!Next]_(Single!vars)
    OBVIOUS
  <2>0. mgr.running \in BOOLEAN /\ mgr'.running \in BOOLEAN
    BY StepTyped DEF TypeOK, Manager
  <2>1. /\ mgr.running <=> Active # {}
        /\ \A v, w \in Active : v = w
    BY FruitlessStay DEF FlagInv
  <2>2. /\ mgr'.running <=> Active' # {}
        /\ \A v, w \in Active' : v = w
    BY SingleInvariant DEF FlagInv
  <2>3. ASSUME NEW r \in Runs, ~mgr.running, mgr'.running, Active' = Active \cup {r}
        PROVE  Single!Start(r)
    BY <2>1, <2>2, <2>3, <2>0 DEF Single!Start
  <2>4. ASSUME NEW r \in Runs, ~mgr'.running, r \in Active, Active' = Active \ {r}
        PROVE  Single!Finish(r)
    BY <2>1, <2>4, <2>0 DEF Single!Finish
  <2>5. ASSUME UNCHANGED <<Active, mgr>> PROVE UNCHANGED Single!vars
    BY <2>5 DEF Single!vars
  <2> QED  BY <2>3, <2>4, <2>5, ManagerMoves DEF Single!Next
<1> QED  BY TypeCorrect, SingleInvariant, <1>1, <1>2, PTL DEF Spec, SingleUntilFruitless

-------------------------------------------------------------------------------
(* Nothing is lost *)

\* A run whose closer has not begun has nothing under way.
Untouched(r) ==
    /\ \A i \in Images : worker[r][i].pc = "none"
    /\ channel[r].queue = <<>>
    /\ consumer[r].pc = "none" /\ consumer[r].batch = <<>> /\ ~consumer[r].last
    /\ run[r].images = {} /\ run[r].pc \notin {"launch", "acquire", "wait"}

\* How the goroutines of a run depend on each other
Linked(r) ==
    /\ run[r].pc \in Planless => closer[r] = "none"
    /\ closer[r] = "none" => Untouched(r)
    /\ channel[r].closed <=> closer[r] \in {"closed", "early"}
    /\ closer[r] = "closed" => ~Launching(r) /\ Waited(r) = {}
    /\ consumer[r].last => consumer[r].pc \in {"save", "done"}
    /\ consumer[r].pc = "done" => consumer[r].last /\ consumer[r].batch = <<>>
    /\ r \notin Active => consumer[r].pc \in {"none", "done"}

\* ... and what a run that nobody has stopped has come to
Unstopped(r) ==
    /\ run[r].pc = "wait" => run[r].todo = {}
    /\ consumer[r].last => channel[r].queue = <<>> /\ channel[r].closed

\* What is under way was made from the content of the moment.
Current(r) ==
    r \in Active =>
        /\ \A i \in Images : worker[r][i].pc = "send" => worker[r][i].version \in {0, content[i]}
        /\ \A k \in 1 .. Len(channel[r].queue) :
              channel[r].queue[k].version \in {0, content[channel[r].queue[k].image]}
        /\ \A k \in 1 .. Len(consumer[r].batch) :
              consumer[r].batch[k].version = content[consumer[r].batch[k].image]
InBatch(r) == \A k \in 1 .. Len(consumer[r].batch) : consumer[r].batch[k].version # 0

Fresh(i) == classification[i] \in {0, content[i]} \/ outdated[i] \/ pending[i] = "changed"

\* Where the way of an image's result may have come to
Queued(r, i) ==
    \E k \in 1 .. Len(channel[r].queue) :
        channel[r].queue[k].image = i /\ channel[r].queue[k].version # 0
Batched(r, i) == \E k \in 1 .. Len(consumer[r].batch) : consumer[r].batch[k].image = i
OnItsWay(r, i) ==
    \/ i \in run[r].todo
    \/ worker[r][i].pc = "start"
    \/ worker[r][i].pc = "send" /\ worker[r][i].version # 0
    \/ Queued(r, i) \/ Batched(r, i)
    \/ classification[i] # 0

\* A run that nobody has stopped, whose channel was not closed early
Loses(r) == stopRequested \/ closer[r] = "early"
Smooth == scenario.may \cap {"fail", "change"} = {}

Complete(r) ==
    /\ \A i \in run[r].images : content[i] # 0
    /\ ~Loses(r) => \A i \in run[r].images : OnItsWay(r, i)
    /\ run[r].outcome = "complete" =>
          /\ run[r].pc = "ended" /\ closer[r] \in {"none", "closed", "early"}
          /\ closer[r] = "closed" => \A i \in run[r].images : classification[i] # 0

LostInv ==
    /\ TypeOK /\ scenario \in Scenarios
    /\ \A r \in Runs : Linked(r) /\ Current(r) /\ InBatch(r) /\ (~stopRequested => Unstopped(r))
    /\ \A i \in Images : Fresh(i)
    /\ "stop" \notin scenario.may => ~stopRequested
    /\ "stop" \in scenario.may =>
          \A q, r \in Runs : run[q].pc # "idle" /\ run[r].pc # "idle" => q = r
    /\ "change" \notin scenario.may => \A i \in Images : pending[i] = "none"
    /\ Smooth => \A r \in Runs : Complete(r)

\* A step of a run as its other runs see it
Own(r) == <<run[r], worker[r], channel[r], closer[r], consumer[r]>>

\* What every run keeps
Sound(r) == Linked(r) /\ Current(r) /\ InBatch(r) /\ (~stopRequested => Unstopped(r))

LEMMA TailParts ==
    ASSUME NEW S, NEW s \in Seq(S), s # <<>>
    PROVE  /\ Head(s) = s[1] /\ 1 \in 1 .. Len(s)
           /\ \A k \in 1 .. Len(Tail(s)) : k + 1 \in 1 .. Len(s) /\ Tail(s)[k] = s[k + 1]
           /\ \A k \in 1 .. Len(s) :
                 k = 1 \/ (k - 1 \in 1 .. Len(Tail(s)) /\ Tail(s)[k - 1] = s[k])
  OBVIOUS

LEMMA AppendParts ==
    ASSUME NEW S, NEW s \in Seq(S), NEW x \in S
    PROVE  /\ \A k \in 1 .. Len(Append(s, x)) :
                 \/ k \in 1 .. Len(s) /\ Append(s, x)[k] = s[k]
                 \/ Append(s, x)[k] = x
           /\ \A k \in 1 .. Len(s) : k \in 1 .. Len(Append(s, x)) /\ Append(s, x)[k] = s[k]
           /\ Len(s) + 1 \in 1 .. Len(Append(s, x)) /\ Append(s, x)[Len(s) + 1] = x
  OBVIOUS

\* The launcher's steps that do not begin anything
Quietly(r) ==
    \/ \E incremental \in BOOLEAN : StartClassification(r, incremental)
    \/ ResetState(r) \/ MarkEmpty(r) \/ NextImage(r) \/ GiveUp(r) \/ QueryFails(r)
    \/ Query(r) /\ Candidates(run[r].incremental) = {}

LEMMA QuietMoves ==
    ASSUME TypeOK, NEW r \in Runs, Quietly(r)
    PROVE  /\ UNCHANGED <<content, classification, worker, channel, closer, consumer>>
           /\ run'[r].images = run[r].images /\ run'[r].todo = run[r].todo
           /\ run'[r].outcome = run[r].outcome
           /\ \/ run[r].pc \in {"idle", "reset", "query", "empty"} /\ run'[r].pc \in Planless \ {"idle"}
              \/ run[r].pc \in {"launch", "acquire"} /\ run'[r].pc \in {"acquire", "wait"}
           /\ run[r].pc = "launch" \/ run'[r].pc # "acquire"
           /\ run'[r].pc = "wait" /\ ~stopRequested => run[r].todo = {}
           /\ stopRequested' = stopRequested \/ (run[r].pc = "reset" /\ ~stopRequested')
  <1>0. run \in [Runs -> RunRecord]  BY Records DEF TypeOK
  <1>1. UNCHANGED <<content, classification, worker, channel, closer, consumer>>
    BY DEF Quietly, StartClassification, ResetState, MarkEmpty, NextImage, GiveUp, QueryFails, Query
  <1>2. \/ UNCHANGED stopRequested
        \/ ResetState(r)
    BY DEF Quietly, StartClassification, MarkEmpty, NextImage, GiveUp, QueryFails, Query
  <1>3. ASSUME NEW incremental \in BOOLEAN, StartClassification(r, incremental)
        PROVE  /\ run[r].pc = "idle" /\ run'[r].pc = "reset"
               /\ run'[r].images = run[r].images /\ run'[r].todo = run[r].todo
               /\ run'[r].outcome = run[r].outcome
    BY <1>0, <1>3 DEF StartClassification, RunRecord
  <1>4. ASSUME ~\E incremental \in BOOLEAN : StartClassification(r, incremental)
        PROVE  \E pc : /\ run' = [run EXCEPT ![r].pc = pc]
                       /\ \/ run[r].pc \in {"reset", "query", "empty"} /\ pc \in {"query", "empty", "exit"}
                          \/ run[r].pc = "launch" /\ pc = "acquire"
                          \/ /\ run[r].pc \in {"launch", "acquire"} /\ pc = "wait"
                             /\ stopRequested \/ run[r].todo = {}
    BY <1>4 DEF Quietly, ResetState, MarkEmpty, NextImage, GiveUp, QueryFails, Query, MoreImages
  <1>5. ASSUME NEW pc, run' = [run EXCEPT ![r].pc = pc]
        PROVE  /\ run'[r].pc = pc /\ run'[r].images = run[r].images /\ run'[r].todo = run[r].todo
               /\ run'[r].outcome = run[r].outcome
    BY <1>0, <1>5 DEF RunRecord
  <1>6. ResetState(r) => run[r].pc = "reset" /\ ~stopRequested'  BY DEF ResetState
  <1> QED  BY <1>1, <1>2, <1>3, <1>4, <1>5, <1>6 DEF Planless

LEMMA QuietSound ==
    ASSUME TypeOK, NEW r \in Runs, Sound(r), Quietly(r)
    PROVE  Sound(r)'
  <1>1. run[r].pc \in Planless => closer[r] = "none" /\ Untouched(r)  BY DEF Sound, Linked
  <1>2. closer[r] = "none" => run'[r].pc \notin {"launch", "acquire", "wait"}
    BY QuietMoves DEF Sound, Linked, Untouched, Planless
  <1>3. Linked(r)'
    <2>1. Untouched(r) /\ closer[r] = "none" => Untouched(r)'
      BY <1>2, QuietMoves DEF Untouched
    <2>2. r \in Active'  BY QuietMoves DEF Active, Planless
    <2>3. closer[r] = "closed" => ~Launching(r)' /\ Waited(r)' = {}
      BY QuietMoves DEF Sound, Linked, Launching, Waited, Planless
    <2>4. run'[r].pc \in Planless => closer[r] = "none"  BY <1>1, QuietMoves DEF Planless
    <2> QED  BY <2>1, <2>2, <2>3, <2>4, QuietMoves DEF Sound, Linked
  <1>4. Current(r)'
    <2>1. CASE r \in Active  BY <2>1, QuietMoves DEF Sound, Current
    <2>2. CASE r \notin Active
      <3>1. Untouched(r)  BY <1>1, <2>2, QuietMoves DEF Active, Planless
      <3> QED  BY <3>1, QuietMoves DEF Untouched, Current
    <2> QED  BY <2>1, <2>2
  <1>5. InBatch(r)'  BY QuietMoves DEF Sound, InBatch
  <1>6. ~stopRequested' => Unstopped(r)'
    BY <1>1, <1>2, QuietMoves DEF Sound, Unstopped, Untouched, Planless
  <1> QED  BY <1>3, <1>4, <1>5, <1>6 DEF Sound

\* A run that has found images makes its goroutines.
LEMMA QuerySound ==
    ASSUME TypeOK, NEW r \in Runs, Sound(r), Query(r), Candidates(run[r].incremental) # {}
    PROVE  /\ Sound(r)'
           /\ run'[r].images = Candidates(run[r].incremental) /\ run'[r].todo = run'[r].images
           /\ run'[r].outcome = run[r].outcome /\ UNCHANGED <<content, stopRequested>>
  <1>0. run \in [Runs -> RunRecord] /\ consumer \in [Runs -> ConsumerRecord]
        /\ DOMAIN closer = Runs
    BY Records DEF TypeOK
  <1>1. UNCHANGED <<content, stopRequested, worker, channel>>  BY DEF Query
  <1>2. /\ run'[r].pc = "launch" /\ run'[r].images = Candidates(run[r].incremental)
        /\ run'[r].todo = run'[r].images /\ run'[r].outcome = run[r].outcome
    <2> DEFINE found == Candidates(run[r].incremental)
               cap == Effective(maxWorkers)
    <2>1. run' = [run EXCEPT ![r].pc = "launch", ![r].images = found, ![r].todo = found, ![r].cap = cap]
      BY DEF Query
    <2> HIDE DEF found, cap
    <2>2. /\ run'[r].pc = "launch" /\ run'[r].images = found
          /\ run'[r].todo = found /\ run'[r].outcome = run[r].outcome
      BY <1>0, <2>1 DEF RunRecord
    <2> QED  BY <2>2 DEF found
  <1>3. /\ consumer' = [consumer EXCEPT ![r].pc = "range"]
        /\ closer' = [closer EXCEPT ![r] = "begin"]
    BY DEF Query
  <1>4. /\ consumer'[r].pc = "range" /\ consumer'[r].batch = consumer[r].batch
        /\ consumer'[r].last = consumer[r].last /\ closer'[r] = "begin"
    BY <1>0, <1>3 DEF ConsumerRecord
  <1>5. Untouched(r) /\ closer[r] = "none"  BY DEF Query, Sound, Linked, Planless
  <1>6. Linked(r)' /\ Unstopped(r)'
    BY <1>1, <1>2, <1>4, <1>5 DEF Untouched, Sound, Linked, Unstopped, Planless, Active
  <1>7. Current(r)' /\ InBatch(r)'
    BY <1>1, <1>4, <1>5 DEF Untouched, Current, InBatch
  <1> QED  BY <1>1, <1>2, <1>6, <1>7 DEF Sound

LEMMA LaunchSound ==
    ASSUME TypeOK, NEW r \in Runs, Sound(r), Launch(r)
    PROVE  /\ Sound(r)'
           /\ run'[r].images = run[r].images /\ run'[r].outcome = run[r].outcome
           /\ \E i \in Images :
                /\ run'[r].todo = run[r].todo \ {i} /\ worker'[r][i].pc = "start"
                /\ \A j \in Images \ {i} : worker'[r][j] = worker[r][j]
           /\ UNCHANGED <<content, classification, stopRequested, channel, closer, consumer>>
  <1>0. run \in [Runs -> RunRecord] /\ worker \in [Runs -> [Images -> WorkerRecord]]
    BY Records DEF TypeOK
  <1> DEFINE i == Least(run[r].todo)
  <1>1. /\ run[r].pc = "acquire" /\ i \in Images
        /\ worker' = [worker EXCEPT ![r][i].pc = "start"]
        /\ run' = [run EXCEPT ![r].pc = "launch", ![r].todo = run[r].todo \ {i}]
        /\ UNCHANGED <<content, classification, stopRequested, channel, closer, consumer>>
    BY LeastChosen DEF Launch, TypeOK, RunOK
  <1> HIDE DEF i
  <1>2. /\ run'[r].pc = "launch" /\ run'[r].images = run[r].images /\ run'[r].todo = run[r].todo \ {i}
        /\ run'[r].outcome = run[r].outcome
    BY <1>0, <1>1 DEF RunRecord
  <1>3. worker'[r][i].pc = "start" /\ \A j \in Images \ {i} : worker'[r][j] = worker[r][j]
    BY <1>0, <1>1 DEF WorkerRecord
  <1>4. closer[r] \notin {"none", "closed"}  BY <1>1 DEF Sound, Linked, Untouched, Launching
  <1>5. Linked(r)'  BY <1>1, <1>2, <1>4 DEF Sound, Linked, Planless, Active
  <1>6. Current(r)'  BY <1>1, <1>2, <1>3 DEF Sound, Current, Active
  <1>7. InBatch(r)' /\ (~stopRequested' => Unstopped(r)')
    BY <1>1, <1>2 DEF Sound, InBatch, Unstopped
  <1> QED  BY <1>1, <1>2, <1>3, <1>5, <1>6, <1>7 DEF Sound

LEMMA ExitSound ==
    ASSUME TypeOK, NEW r \in Runs, Sound(r), Exit(r)
    PROVE  /\ Sound(r)'
           /\ run'[r].pc = "ended" /\ run'[r].images = run[r].images /\ run'[r].todo = run[r].todo
           /\ run'[r].outcome = "complete" => ~stopRequested
           /\ UNCHANGED <<content, classification, stopRequested, worker, channel, closer, consumer>>
  <1>0. run \in [Runs -> RunRecord]  BY Records DEF TypeOK
  <1> DEFINE outcome == IF stopRequested THEN "stopped" ELSE "complete"
  <1>1. /\ run' = [run EXCEPT ![r].pc = "ended", ![r].outcome = outcome]
        /\ run[r].pc = "exit" \/ (run[r].pc = "wait" /\ consumer[r].pc = "done")
        /\ UNCHANGED <<content, classification, stopRequested, worker, channel, closer, consumer>>
    BY DEF Exit
  <1>2. outcome = "complete" => ~stopRequested  OBVIOUS
  <1> HIDE DEF outcome
  <1>3. /\ run'[r].pc = "ended" /\ run'[r].images = run[r].images /\ run'[r].todo = run[r].todo
        /\ run'[r].outcome = outcome
    BY <1>0, <1>1 DEF RunRecord
  <1>4. consumer[r].pc \in {"none", "done"}
    BY <1>1 DEF Sound, Linked, Untouched, Planless
  <1>5. Linked(r)'
    <2>1. Untouched(r) => Untouched(r)'  BY <1>1, <1>3 DEF Untouched
    <2> QED  BY <1>1, <1>3, <1>4, <2>1 DEF Sound, Linked, Planless, Launching, Waited
  <1>6. Current(r)'  BY <1>3 DEF Current, Active
  <1>7. InBatch(r)' /\ (~stopRequested' => Unstopped(r)')
    BY <1>1, <1>3 DEF Sound, InBatch, Unstopped
  <1> QED  BY <1>1, <1>2, <1>3, <1>5, <1>6, <1>7 DEF Sound

\* A worker's step: it reads the content, or sends what it read, or fails.
WorkerMoved(r, i) ==
    /\ UNCHANGED <<content, classification, stopRequested, consumer>>
    /\ run'[r] = run[r]
    /\ \A j \in Images \ {i} : worker'[r][j] = worker[r][j]
    /\ closer'[r] = closer[r] \/ (closer[r] = "asleep" /\ closer'[r] = "woken")
    /\ \/ /\ worker[r][i].pc = "start" /\ worker'[r][i].pc = "send" /\ channel'[r] = channel[r]
          /\ worker'[r][i].version \in {0, content[i]}
       \/ /\ worker[r][i].pc = "send" /\ worker'[r][i].pc = "sent"
          /\ \/ channel[r].closed /\ channel'[r] = channel[r]
             \/ /\ ~channel[r].closed /\ channel'[r].closed = channel[r].closed
                /\ channel'[r].queue =
                     Append(channel[r].queue, [image |-> i, version |-> worker[r][i].version])
       \/ /\ worker[r][i].pc \in {"sent", "released"} /\ worker'[r][i].pc \in {"released", "done"}
          /\ channel'[r] = channel[r]

LEMMA WorkersMove ==
    ASSUME TypeOK, NEW r \in Runs, NEW i \in Images, Worker(r, i) \/ OcrFails(r, i)
    PROVE  /\ WorkerMoved(r, i)
           /\ Worker(r, i) /\ worker[r][i].pc = "start" /\ ~stopRequested
                => worker'[r][i].version = content[i]
  <1>0. /\ worker \in [Runs -> [Images -> WorkerRecord]]
        /\ channel \in [Runs -> [queue : Seq(Result), closed : BOOLEAN]]
        /\ DOMAIN closer = Runs
    BY Records DEF TypeOK
  <1>1. UNCHANGED <<content, classification, stopRequested, consumer, run>>
    BY DEF Worker, ReadFile, OcrFails, SendResult, Release, WorkerDone
  <1>2. \A j \in Images \ {i} : worker'[r][j] = worker[r][j]
    <2>1. PICK w \in WorkerRecord : worker' = [worker EXCEPT ![r][i] = w]  BY WorkerMoves
    <2> QED  BY <1>0, <2>1
  <1>3. closer'[r] = closer[r] \/ (closer[r] = "asleep" /\ closer'[r] = "woken")
    BY <1>0 DEF Worker, ReadFile, OcrFails, SendResult, Release, WorkerDone
  <1>4. ASSUME NEW w, worker' = [worker EXCEPT ![r][i] = w] PROVE worker'[r][i] = w
    BY <1>0, <1>4
  <1>5. ASSUME NEW pc, worker' = [worker EXCEPT ![r][i].pc = pc] PROVE worker'[r][i].pc = pc
    BY <1>0, <1>5 DEF WorkerRecord
  <1>6. CASE ReadFile(r, i) \/ OcrFails(r, i)
    <2>1. \E v \in {0, content[i]} :
             /\ worker[r][i].pc = "start"
             /\ worker' = [worker EXCEPT ![r][i] = [pc |-> "send", version |-> v]]
             /\ ReadFile(r, i) /\ ~stopRequested => v = content[i]
             /\ UNCHANGED channel
      BY <1>6 DEF ReadFile, OcrFails
    <2>2. PICK v \in {0, content[i]} :
             /\ worker[r][i].pc = "start"
             /\ worker' = [worker EXCEPT ![r][i] = [pc |-> "send", version |-> v]]
             /\ ReadFile(r, i) /\ ~stopRequested => v = content[i]
             /\ UNCHANGED channel
      BY <2>1
    <2>3. worker'[r][i].pc = "send" /\ worker'[r][i].version = v
      <3>1. worker'[r][i] = [pc |-> "send", version |-> v]  BY <1>4, <2>2
      <3> QED  BY ONLY <3>1
    <2>4. Worker(r, i) => ReadFile(r, i)
      BY <2>2 DEF Worker, SendResult, Release, WorkerDone
    <2> QED  BY <1>1, <1>2, <1>3, <2>2, <2>3, <2>4 DEF WorkerMoved
  <1>7. CASE SendResult(r, i)
    <2>1. worker[r][i].pc = "send" /\ worker'[r][i].pc = "sent"  BY <1>5, <1>7 DEF SendResult
    <2>2. CASE channel[r].closed
      BY <1>1, <1>2, <1>3, <1>7, <2>1, <2>2 DEF WorkerMoved, SendResult
    <2>3. CASE ~channel[r].closed
      <3> DEFINE queue == Append(channel[r].queue, [image |-> i, version |-> worker[r][i].version])
      <3>1. channel' = [channel EXCEPT ![r].queue = queue]  BY <1>7, <2>3 DEF SendResult
      <3> HIDE DEF queue
      <3>2. channel'[r].queue = queue /\ channel'[r].closed = channel[r].closed  BY <1>0, <3>1
      <3> QED  BY <1>1, <1>2, <1>3, <2>1, <2>3, <3>2 DEF WorkerMoved, queue
    <2> QED  BY <2>2, <2>3
  <1>8. CASE Release(r, i) \/ WorkerDone(r, i)
    <2>1. /\ worker[r][i].pc \in {"sent", "released"}
          /\ worker' = [worker EXCEPT ![r][i].pc = "released"] \/ worker' = [worker EXCEPT ![r][i].pc = "done"]
          /\ UNCHANGED channel
      BY <1>8 DEF Release, WorkerDone
    <2>2. worker'[r][i].pc \in {"released", "done"}  BY <1>5, <2>1
    <2> QED  BY <1>1, <1>2, <1>3, <2>1, <2>2 DEF WorkerMoved
  <1> QED  BY <1>6, <1>7, <1>8 DEF Worker

LEMMA WorkerSound ==
    ASSUME TypeOK, NEW r \in Runs, NEW i \in Images, Sound(r), WorkerMoved(r, i)
    PROVE  Sound(r)'
  <1>0. /\ worker \in [Runs -> [Images -> WorkerRecord]]
        /\ channel \in [Runs -> [queue : Seq(Result), closed : BOOLEAN]]
    BY Records DEF TypeOK
  <1>1. closer[r] # "none" /\ closer'[r] # "none" /\ (closer'[r] = closer[r] \/ closer'[r] = "woken")
    BY DEF Sound, Linked, Untouched, WorkerMoved
  <1>2. channel'[r].closed = channel[r].closed  BY DEF WorkerMoved
  <1>3. Waited(r)' \subseteq Waited(r)  BY DEF WorkerMoved, Waited
  <1>4. Linked(r)'
    BY <1>1, <1>2, <1>3 DEF WorkerMoved, Sound, Linked, Launching, Active
  <1>5. Current(r)'
    <2> SUFFICES ASSUME r \in Active' PROVE Current(r)'  BY DEF Current
    <2>1. r \in Active  BY DEF WorkerMoved, Active
    <2>2. \A j \in Images : worker'[r][j].pc = "send" => worker'[r][j].version \in {0, content[j]}
      BY <2>1 DEF WorkerMoved, Sound, Current
    <2>3. \A k \in 1 .. Len(channel'[r].queue) :
             channel'[r].queue[k].version \in {0, content[channel'[r].queue[k].image]}
      <3>1. CASE channel'[r] = channel[r]  BY <2>1, <3>1 DEF Sound, Current
      <3>2. CASE channel'[r] # channel[r]
        <4> DEFINE result == [image |-> i, version |-> worker[r][i].version]
        <4>1. channel'[r].queue = Append(channel[r].queue, result) /\ worker[r][i].pc = "send"
          BY <3>2 DEF WorkerMoved
        <4>2. /\ result \in Result /\ result.image = i
              /\ result.version \in {0, content[i]}
          BY <1>0, <2>1, <4>1 DEF Result, WorkerRecord, Sound, Current
        <4> HIDE DEF result
        <4>3. channel[r].queue \in Seq(Result)  BY <1>0
        <4>4. \A k \in 1 .. Len(Append(channel[r].queue, result)) :
                 \/ k \in 1 .. Len(channel[r].queue) /\ Append(channel[r].queue, result)[k] = channel[r].queue[k]
                 \/ Append(channel[r].queue, result)[k] = result
          BY ONLY <4>2, <4>3, AppendParts
        <4> QED  BY <2>1, <4>1, <4>2, <4>4 DEF Sound, Current
      <3> QED  BY <3>1, <3>2
    <2> QED  BY <2>1, <2>2, <2>3 DEF WorkerMoved, Sound, Current
  <1>6. InBatch(r)'  BY DEF WorkerMoved, Sound, InBatch
  <1>7. ~stopRequested' => Unstopped(r)'
    BY <1>2 DEF WorkerMoved, Sound, Unstopped
  <1> QED  BY <1>4, <1>5, <1>6, <1>7 DEF Sound

\* The closer's step: it sleeps, or closes the channel when no worker is left.
LEMMA CloserSound ==
    ASSUME TypeOK, NEW r \in Runs, Sound(r), Closer(r)
    PROVE  /\ Sound(r)'
           /\ UNCHANGED <<content, classification, stopRequested, run, worker, consumer>>
           /\ closer[r] \in {"begin", "woken"} /\ channel'[r].queue = channel[r].queue
  <1>0. /\ channel \in [Runs -> [queue : Seq(Result), closed : BOOLEAN]]
        /\ DOMAIN closer = Runs
    BY Records DEF TypeOK
  <1>1. /\ UNCHANGED <<content, classification, stopRequested, run, worker, consumer>>
        /\ closer[r] \in {"begin", "woken"}
    BY DEF Closer, BeginWait, EndWait
  <1>2. \/ /\ UNCHANGED channel /\ closer'[r] \in {"asleep", "panicked"}
        \/ /\ channel' = [channel EXCEPT ![r].closed = TRUE] /\ Waited(r) = {}
           /\ closer'[r] = IF Launching(r) THEN "early" ELSE "closed"
    BY <1>0 DEF Closer, BeginWait, EndWait, Close
  <1>3. /\ channel'[r].queue = channel[r].queue
        /\ channel'[r].closed <=> closer'[r] \in {"closed", "early"}
        /\ channel[r].closed => channel'[r].closed
    BY <1>0, <1>1, <1>2 DEF Sound, Linked
  <1>4. closer'[r] # "none" /\ (closer'[r] = "closed" => ~Launching(r)' /\ Waited(r)' = {})
    BY <1>1, <1>2 DEF Launching, Waited
  <1>5. Linked(r)'  BY <1>1, <1>3, <1>4 DEF Sound, Linked, Active, Planless
  <1>6. Current(r)'  BY <1>1, <1>3 DEF Sound, Current, Active
  <1>7. InBatch(r)' /\ (~stopRequested' => Unstopped(r)')
    BY <1>1, <1>3 DEF Sound, InBatch, Unstopped
  <1> QED  BY <1>1, <1>3, <1>5, <1>6, <1>7 DEF Sound

\* The consumer takes a result: it adds it to its batch, unless there is none
\* or somebody has stopped the run.
LEMMA ReceiveMoves ==
    ASSUME TypeOK, NEW r \in Runs, Receive(r)
    PROVE  /\ UNCHANGED <<content, classification, stopRequested, run, worker, closer>>
           /\ consumer[r].pc = "range" /\ channel[r].queue # <<>>
           /\ channel'[r].queue = Tail(channel[r].queue) /\ channel'[r].closed = channel[r].closed
           /\ (stopRequested => consumer'[r].last)
           /\ (~stopRequested => consumer'[r].last = consumer[r].last)
           /\ consumer'[r].pc \in {"range", "save"} /\ (stopRequested => consumer'[r].pc = "save")
           /\ consumer'[r].batch \in
                {consumer[r].batch, Append(consumer[r].batch, Head(channel[r].queue))}
           /\ ~stopRequested =>
                consumer'[r].batch = IF Head(channel[r].queue).version = 0 THEN consumer[r].batch
                                     ELSE Append(consumer[r].batch, Head(channel[r].queue))
           /\ Head(channel[r].queue).version = 0 => consumer'[r].batch = consumer[r].batch
  <1>0. /\ channel \in [Runs -> [queue : Seq(Result), closed : BOOLEAN]]
        /\ consumer \in [Runs -> ConsumerRecord]
    BY Records DEF TypeOK
  <1> DEFINE result == Head(channel[r].queue)
             n == consumer[r].count + 1
             b == Append(consumer[r].batch, result)
             pc == IF Len(b) >= BatchSize THEN "save" ELSE "range"
             c == [consumer[r] EXCEPT !.count = n]
             tail == Tail(channel[r].queue)
  <1>1. /\ UNCHANGED <<content, classification, stopRequested, run, worker, closer>>
        /\ consumer[r].pc = "range" /\ channel[r].queue # <<>>
        /\ channel' = [channel EXCEPT ![r].queue = tail]
    BY DEF Receive
  <1>2. consumer' = [consumer EXCEPT ![r] =
              IF stopRequested THEN Flushing(c) ELSE IF result.version = 0 THEN c ELSE Added(c, result)]
    BY DEF Receive
  <1>3. channel'[r].queue = tail /\ channel'[r].closed = channel[r].closed
    <2> HIDE DEF tail
    <2> QED  BY <1>0, <1>1
  <1>4. c = [pc |-> consumer[r].pc, batch |-> consumer[r].batch, last |-> consumer[r].last, count |-> n]
    <2> HIDE DEF n
    <2> QED  BY <1>0 DEF ConsumerRecord
  <1>5. /\ Flushing(c).pc = "save" /\ Flushing(c).batch = consumer[r].batch /\ Flushing(c).last
        /\ Added(c, result) = [pc |-> pc, batch |-> b, last |-> consumer[r].last, count |-> n]
    <2>1. Flushing(c).pc = "save" /\ Flushing(c).batch = consumer[r].batch /\ Flushing(c).last
      <3> HIDE DEF n, c
      <3> QED  BY <1>4 DEF Flushing
    <2>2. c.batch = consumer[r].batch
      <3> HIDE DEF n, c
      <3> QED  BY <1>4
    <2>3. Added(c, result) = [c EXCEPT !.batch = b, !.pc = pc]  BY <2>2 DEF Added
    <2>4. Added(c, result) = [pc |-> pc, batch |-> b, last |-> consumer[r].last, count |-> n]
      <3> HIDE DEF n, c, b, pc
      <3> QED  BY <1>4, <2>3
    <2> QED  BY <2>1, <2>4
  <1>6. pc \in {"save", "range"}  OBVIOUS
  <1>7. consumer'[r] = IF stopRequested THEN Flushing(c) ELSE IF result.version = 0 THEN c ELSE Added(c, result)
    <2> HIDE DEF c, result
    <2> QED  BY <1>0, <1>2
  <1>8. consumer[r].last \in BOOLEAN  BY <1>0 DEF ConsumerRecord
  <1> HIDE DEF n, c, b, pc, result, tail
  <1>9. /\ (stopRequested => consumer'[r].last)
        /\ (~stopRequested => consumer'[r].last = consumer[r].last)
        /\ consumer'[r].pc \in {"range", "save"} /\ (stopRequested => consumer'[r].pc = "save")
        /\ consumer'[r].batch \in {consumer[r].batch, b}
        /\ ~stopRequested => consumer'[r].batch = IF result.version = 0 THEN consumer[r].batch ELSE b
        /\ result.version = 0 => consumer'[r].batch = consumer[r].batch
    <2>1. CASE stopRequested  BY <1>5, <1>7, <1>8, <2>1
    <2>2. CASE ~stopRequested /\ result.version = 0  BY <1>1, <1>4, <1>7, <1>8, <2>2
    <2>3. CASE ~stopRequested /\ result.version # 0  BY <1>5, <1>6, <1>7, <1>8, <2>3
    <2> QED  BY <2>1, <2>2, <2>3
  <1> QED  BY <1>1, <1>3, <1>9 DEF b, result, tail

LEMMA ReceiveSound ==
    ASSUME TypeOK, NEW r \in Runs, Sound(r), Receive(r)
    PROVE  Sound(r)'
  <1>0. /\ channel[r].queue \in Seq(Result) /\ consumer[r].batch \in Seq(Result)
        /\ channel[r].queue # <<>> /\ Head(channel[r].queue) \in Result
    <2>1. channel[r].queue \in Seq(Result) /\ consumer[r].batch \in Seq(Result)
      BY DEF TypeOK, GoroutinesOK
    <2> QED  BY <2>1, ReceiveMoves
  <1> DEFINE head == Head(channel[r].queue)
             tail == Tail(channel[r].queue)
             longer == Append(consumer[r].batch, head)
  <1>1. /\ head = channel[r].queue[1] /\ 1 \in 1 .. Len(channel[r].queue)
        /\ \A k \in 1 .. Len(tail) : k + 1 \in 1 .. Len(channel[r].queue) /\ tail[k] = channel[r].queue[k + 1]
    BY ONLY <1>0, TailParts
  <1>2. \A k \in 1 .. Len(longer) :
            (k \in 1 .. Len(consumer[r].batch) /\ longer[k] = consumer[r].batch[k]) \/ longer[k] = head
    BY ONLY <1>0, AppendParts
  <1> HIDE DEF head, tail, longer
  <1>3. /\ closer[r] # "none" /\ ~consumer[r].last /\ r \in Active /\ r \in Active'
    BY ReceiveMoves DEF Sound, Linked, Untouched, Active
  <1>4. Linked(r)'
    BY <1>3, ReceiveMoves DEF Sound, Linked, Launching, Waited
  <1>5. \A k \in 1 .. Len(tail) : tail[k].version \in {0, content[tail[k].image]}
    BY <1>1, <1>3 DEF Sound, Current
  <1>6. head.version \in {0, content[head.image]}  BY <1>1, <1>3 DEF Sound, Current
  <1>7. ASSUME NEW k \in 1 .. Len(consumer'[r].batch)
        PROVE  /\ consumer'[r].batch[k].version # 0
               /\ consumer'[r].batch[k].version = content[consumer'[r].batch[k].image]
    <2>1. CASE consumer'[r].batch = consumer[r].batch
      BY <1>3, <1>7, <2>1 DEF Sound, Current, InBatch
    <2>2. CASE consumer'[r].batch # consumer[r].batch
      <3>1. consumer'[r].batch = longer /\ head.version # 0  BY <2>2, ReceiveMoves DEF longer, head
      <3> QED  BY <1>2, <1>3, <1>6, <1>7, <3>1 DEF Sound, Current, InBatch
    <2> QED  BY <2>1, <2>2
  <1>8. Current(r)' /\ InBatch(r)'
    BY <1>3, <1>5, <1>7, ReceiveMoves DEF Sound, Current, InBatch, tail
  <1>9. ~stopRequested' => Unstopped(r)'
    BY <1>3, ReceiveMoves DEF Sound, Unstopped
  <1> QED  BY <1>4, <1>8, <1>9 DEF Sound

\* The consumer's other steps
LEMMA RangeEndsSound ==
    ASSUME TypeOK, NEW r \in Runs, Sound(r), RangeEnds(r)
    PROVE  /\ Sound(r)' /\ consumer'[r].batch = consumer[r].batch
           /\ UNCHANGED <<content, classification, stopRequested, run, worker, closer, channel>>
  <1>0. consumer \in [Runs -> ConsumerRecord]  BY Records DEF TypeOK
  <1>1. /\ consumer'[r].pc = "save" /\ consumer'[r].last /\ consumer'[r].batch = consumer[r].batch
        /\ consumer[r].pc = "range" /\ channel[r].queue = <<>> /\ channel[r].closed
        /\ UNCHANGED <<content, classification, stopRequested, run, worker, closer, channel>>
    BY <1>0 DEF RangeEnds, Flushing, ConsumerRecord
  <1>2. r \in Active /\ closer[r] # "none"  BY <1>1 DEF Sound, Linked, Untouched
  <1>3. Linked(r)'  BY <1>1, <1>2 DEF Sound, Linked, Launching, Waited, Active
  <1>4. Current(r)'  BY <1>1, <1>2 DEF Sound, Current
  <1>5. InBatch(r)' /\ (~stopRequested' => Unstopped(r)')
    BY <1>1 DEF Sound, InBatch, Unstopped
  <1> QED  BY <1>1, <1>3, <1>4, <1>5 DEF Sound

LEMMA SavedSound ==
    ASSUME TypeOK, NEW r \in Runs, Sound(r), Saved(r)
    PROVE  /\ Sound(r)' /\ consumer'[r].batch = consumer[r].batch
           /\ UNCHANGED <<content, classification, stopRequested, run, worker, closer, channel>>
  <1>0. consumer \in [Runs -> ConsumerRecord]  BY Records DEF TypeOK
  <1>1. /\ consumer[r].pc = "save" /\ consumer[r].batch = <<>>
        /\ consumer'[r].pc = IF consumer[r].last THEN "done" ELSE "range"
        /\ consumer'[r].last = consumer[r].last /\ consumer'[r].batch = consumer[r].batch
        /\ UNCHANGED <<content, classification, stopRequested, run, worker, closer, channel>>
    BY <1>0 DEF Saved, ConsumerRecord
  <1>2. r \in Active /\ closer[r] # "none"  BY <1>1 DEF Sound, Linked, Untouched
  <1>3. Linked(r)'  BY <1>1, <1>2 DEF Sound, Linked, Launching, Waited, Active
  <1>4. Current(r)'  BY <1>1, <1>2 DEF Sound, Current
  <1>5. InBatch(r)' /\ (~stopRequested' => Unstopped(r)')
    BY <1>1 DEF Sound, InBatch, Unstopped
  <1> QED  BY <1>1, <1>3, <1>4, <1>5 DEF Sound

LEMMA SaveSound ==
    ASSUME TypeOK, NEW r \in Runs, Sound(r), SaveNext(r) \/ SaveFails(r)
    PROVE  /\ Sound(r)'
           /\ consumer[r].batch # <<>> /\ consumer'[r].batch = Tail(consumer[r].batch)
           /\ consumer[r].batch \in Seq(Result)
           /\ UNCHANGED <<content, stopRequested, run, worker, closer, channel>>
           /\ \/ UNCHANGED <<classification, outdated, pending>> /\ ~SaveNext(r)
              \/ \E i \in Images :
                   /\ i = consumer[r].batch[1].image /\ content[i] # 0
                   /\ classification' = [classification EXCEPT ![i] = content[i]]
                   /\ outdated' = [outdated EXCEPT ![i] = FALSE] /\ UNCHANGED pending
  <1>0. consumer \in [Runs -> ConsumerRecord]  BY Records DEF TypeOK
  <1> DEFINE tail == Tail(consumer[r].batch)
  <1>1. /\ consumer[r].pc = "save" /\ consumer[r].batch # <<>> /\ consumer[r].batch \in Seq(Result)
        /\ consumer' = [consumer EXCEPT ![r].batch = tail]
        /\ UNCHANGED <<content, stopRequested, run, worker, closer, channel, pending>>
    BY <1>0 DEF SaveNext, SaveFails, ConsumerRecord
  <1>2. /\ Head(consumer[r].batch) = consumer[r].batch[1] /\ 1 \in 1 .. Len(consumer[r].batch)
        /\ \A k \in 1 .. Len(tail) : k + 1 \in 1 .. Len(consumer[r].batch) /\ tail[k] = consumer[r].batch[k + 1]
        /\ consumer[r].batch[1] \in Result
    BY <1>1, TailParts
  <1>3. tail = Tail(consumer[r].batch)  OBVIOUS
  <1> HIDE DEF tail
  <1>4. /\ consumer'[r].pc = "save" /\ consumer'[r].batch = tail
        /\ consumer'[r].last = consumer[r].last
    BY <1>0, <1>1 DEF ConsumerRecord
  <1>5. r \in Active /\ closer[r] # "none"  BY <1>1 DEF Sound, Linked, Untouched
  <1>6. Linked(r)'  BY <1>1, <1>4, <1>5 DEF Sound, Linked, Launching, Waited, Active
  <1>7. Current(r)' /\ InBatch(r)'  BY <1>1, <1>2, <1>4, <1>5 DEF Sound, Current, InBatch
  <1>8. ~stopRequested' => Unstopped(r)'  BY <1>1, <1>4 DEF Sound, Unstopped
  <1>9. ASSUME SaveNext(r)
        PROVE  \E i \in Images :
                   /\ i = consumer[r].batch[1].image /\ content[i] # 0
                   /\ classification' = [classification EXCEPT ![i] = content[i]]
                   /\ outdated' = [outdated EXCEPT ![i] = FALSE]
    <2> DEFINE i == consumer[r].batch[1].image
    <2>1. i \in Images  BY <1>2 DEF Result
    <2>2. consumer[r].batch[1].version = content[i] /\ content[i] # 0
      BY <1>2, <1>5 DEF Sound, Current, InBatch
    <2>3. /\ classification' = [classification EXCEPT ![i] = content[i]]
          /\ outdated' = [outdated EXCEPT ![i] = FALSE]
      BY <1>2, <1>9, <2>2 DEF SaveNext
    <2> HIDE DEF i
    <2>4. i = consumer[r].batch[1].image  BY DEF i
    <2> QED  BY <2>1, <2>2, <2>3, <2>4
  <1>10. UNCHANGED <<classification, outdated, pending>> \/ SaveNext(r)  BY DEF SaveFails
  <1> QED  BY <1>1, <1>3, <1>4, <1>6, <1>7, <1>8, <1>9, <1>10 DEF Sound

-------------------------------------------------------------------------------
(* That every result is on its way *)

LEMMA QuietComplete ==
    ASSUME TypeOK, NEW r \in Runs, Sound(r), Complete(r), Quietly(r)
    PROVE  Complete(r)'
  <1>1. run[r].outcome # "complete"  BY QuietMoves DEF Complete
  <1>2. run[r].pc = "reset" => run[r].images = {}  BY DEF Sound, Linked, Untouched, Planless
  <1>3. ASSUME NEW i \in Images, OnItsWay(r, i) PROVE OnItsWay(r, i)'
    BY <1>3, QuietMoves DEF OnItsWay, Queued, Batched
  <1>4. run[r].images \subseteq Images  BY DEF TypeOK, RunOK
  <1> QED  BY <1>1, <1>2, <1>3, <1>4, QuietMoves DEF Complete, Loses

LEMMA QueryComplete ==
    ASSUME TypeOK, NEW r \in Runs, Sound(r), Complete(r), Query(r), Candidates(run[r].incremental) # {}
    PROVE  Complete(r)'
  <1>1. run[r].outcome # "complete"  BY DEF Complete, Query
  <1>2. run'[r].images = Candidates(run[r].incremental) /\ run'[r].todo = run'[r].images
        /\ run'[r].outcome = run[r].outcome /\ UNCHANGED content
    BY QuerySound
  <1>3. \A i \in run'[r].images : content[i] # 0  BY <1>2 DEF Candidates
  <1>4. \A i \in run'[r].images : OnItsWay(r, i)'  BY <1>2 DEF OnItsWay
  <1> QED  BY <1>1, <1>2, <1>3, <1>4 DEF Complete

LEMMA LaunchComplete ==
    ASSUME TypeOK, NEW r \in Runs, Sound(r), Complete(r), Launch(r)
    PROVE  Complete(r)'
  <1>1. run[r].outcome # "complete"  BY DEF Complete, Launch
  <1>2. PICK i \in Images :
           /\ run'[r].todo = run[r].todo \ {i} /\ worker'[r][i].pc = "start"
           /\ \A j \in Images \ {i} : worker'[r][j] = worker[r][j]
    BY LaunchSound
  <1>3. ASSUME NEW j \in Images, OnItsWay(r, j) PROVE OnItsWay(r, j)'
    <2>1. CASE j = i  BY <1>2, <2>1 DEF OnItsWay
    <2>2. CASE j # i  BY <1>2, <1>3, <2>2, LaunchSound DEF OnItsWay, Queued, Batched
    <2> QED  BY <2>1, <2>2
  <1>4. run[r].images \subseteq Images  BY DEF TypeOK, RunOK
  <1> QED  BY <1>1, <1>3, <1>4, LaunchSound DEF Complete, Loses

\* A run whose channel was closed late has nothing left on its way when it ends.
LEMMA ExitComplete ==
    ASSUME TypeOK, NEW r \in Runs, Sound(r), Complete(r), Exit(r)
    PROVE  Complete(r)'
  <1>0. run[r].images \subseteq Images  BY DEF TypeOK, RunOK
  <1>1. ASSUME NEW i \in Images, OnItsWay(r, i) PROVE OnItsWay(r, i)'
    BY <1>1, ExitSound DEF OnItsWay, Queued, Batched
  <1>2. ASSUME run'[r].outcome = "complete"
        PROVE  /\ closer[r] \in {"none", "closed", "early"}
               /\ closer[r] = "closed" => \A i \in run[r].images : classification[i] # 0
    <2>0. ~stopRequested  BY <1>2, ExitSound
    <2>1. CASE run[r].pc = "exit"  BY <2>1 DEF Sound, Linked, Planless
    <2>2. CASE run[r].pc = "wait" /\ consumer[r].pc = "done"
      <3>1. /\ consumer[r].last /\ consumer[r].batch = <<>> /\ run[r].todo = {}
            /\ channel[r].queue = <<>> /\ channel[r].closed
            /\ closer[r] \in {"closed", "early"}
        BY <2>0, <2>2 DEF Sound, Linked, Unstopped
      <3>2. closer[r] = "closed" => Waited(r) = {}  BY DEF Sound, Linked
      <3>3. ASSUME closer[r] = "closed", NEW i \in run[r].images PROVE classification[i] # 0
        <4>1. OnItsWay(r, i)  BY <2>0, <3>3 DEF Complete, Loses
        <4>2. worker[r][i].pc \notin {"start", "send"}  BY <1>0, <3>2, <3>3 DEF Waited
        <4> QED  BY <3>1, <4>1, <4>2 DEF OnItsWay, Queued, Batched
      <3> QED  BY <3>1, <3>3
    <2> QED  BY <2>1, <2>2 DEF Exit
  <1> QED  BY <1>0, <1>1, <1>2, ExitSound DEF Complete, Loses

LEMMA WorkerComplete ==
    ASSUME TypeOK, NEW r \in Runs, NEW i \in Images, Sound(r), Complete(r), Worker(r, i)
    PROVE  Complete(r)'
  <1>0. run[r].images \subseteq Images /\ channel[r].queue \in Seq(Result)
    BY DEF TypeOK, RunOK, GoroutinesOK
  <1>1. /\ UNCHANGED <<content, classification, stopRequested, consumer>> /\ run'[r] = run[r]
        /\ WorkerMoved(r, i)
        /\ worker[r][i].pc = "start" /\ ~stopRequested => worker'[r][i].version = content[i]
    BY WorkersMove DEF WorkerMoved
  <1>2. ASSUME NEW j \in run[r].images, ~Loses(r), OnItsWay(r, j) PROVE OnItsWay(r, j)'
    <2>0. j \in Images /\ content[j] # 0 /\ ~stopRequested /\ closer[r] # "early"
      BY <1>0, <1>2 DEF Complete, Loses
    <2>1. CASE worker[r][i].pc # "send"
      <3>1. channel'[r] = channel[r]  BY <1>1, <2>1 DEF WorkerMoved
      <3>2. CASE j # i  BY <1>1, <1>2, <2>0, <3>1, <3>2 DEF WorkerMoved, OnItsWay, Queued, Batched
      <3>3. CASE j = i /\ worker[r][i].pc = "start"  BY <1>1, <2>0, <3>3 DEF WorkerMoved, OnItsWay
      <3>4. CASE j = i /\ worker[r][i].pc # "start"
        BY <1>1, <1>2, <2>1, <3>1, <3>4 DEF OnItsWay, Queued, Batched
      <3> QED  BY <3>2, <3>3, <3>4
    <2>2. CASE worker[r][i].pc = "send"
      <3> DEFINE result == [image |-> i, version |-> worker[r][i].version]
      <3>0. ~channel[r].closed  BY <2>0, <2>2 DEF Sound, Linked, Waited
      <3>1. channel'[r].queue = Append(channel[r].queue, result)  BY <1>1, <2>2, <3>0 DEF WorkerMoved
      <3>2. result \in Result /\ result.image = i /\ result.version = worker[r][i].version
        BY DEF Result, TypeOK, GoroutinesOK
      <3> HIDE DEF result
      <3> DEFINE longer == Append(channel[r].queue, result)
      <3>3. /\ \A k \in 1 .. Len(channel[r].queue) :
                  k \in 1 .. Len(longer) /\ longer[k] = channel[r].queue[k]
            /\ \E k \in 1 .. Len(longer) : longer[k] = result
        BY ONLY <1>0, <3>2, AppendParts
      <3>4. channel'[r].queue = longer  BY <3>1
      <3> HIDE DEF longer
      <3>5. Queued(r, j) => Queued(r, j)'  BY <3>3, <3>4 DEF Queued
      <3>6. j = i /\ worker[r][i].version # 0 => Queued(r, j)'  BY <3>2, <3>3, <3>4 DEF Queued
      <3>7. CASE j = i  BY <1>1, <1>2, <2>2, <3>5, <3>6, <3>7 DEF OnItsWay, Batched
      <3>8. CASE j # i  BY <1>1, <1>2, <2>0, <3>5, <3>8 DEF WorkerMoved, OnItsWay, Batched
      <3> QED  BY <3>7, <3>8
    <2> QED  BY <2>1, <2>2
  <1>3. Loses(r) => Loses(r)'  BY <1>1 DEF Loses, WorkerMoved
  <1> QED  BY <1>1, <1>2, <1>3 DEF WorkerMoved, Complete

LEMMA CloserComplete ==
    ASSUME TypeOK, NEW r \in Runs, Sound(r), Complete(r), Closer(r)
    PROVE  Complete(r)'
  <1>0. run[r].images \subseteq Images  BY DEF TypeOK, RunOK
  <1>1. run[r].outcome # "complete"  BY CloserSound DEF Complete
  <1>2. ASSUME NEW i \in Images, OnItsWay(r, i) PROVE OnItsWay(r, i)'
    BY <1>2, CloserSound DEF OnItsWay, Queued, Batched
  <1>3. Loses(r) => Loses(r)'  BY CloserSound DEF Loses
  <1> QED  BY <1>0, <1>1, <1>2, <1>3, CloserSound DEF Complete

LEMMA ReceiveComplete ==
    ASSUME TypeOK, NEW r \in Runs, Sound(r), Complete(r), Receive(r)
    PROVE  Complete(r)'
  <1>0. /\ channel[r].queue \in Seq(Result) /\ consumer[r].batch \in Seq(Result)
        /\ channel[r].queue # <<>> /\ Head(channel[r].queue) \in Result
        /\ run[r].images \subseteq Images
    <2>1. channel[r].queue \in Seq(Result) /\ consumer[r].batch \in Seq(Result)
      BY DEF TypeOK, GoroutinesOK
    <2> QED  BY <2>1, ReceiveMoves DEF TypeOK, RunOK
  <1> DEFINE head == Head(channel[r].queue)
             tail == Tail(channel[r].queue)
             longer == Append(consumer[r].batch, head)
  <1>1. /\ head = channel[r].queue[1]
        /\ \A k \in 1 .. Len(channel[r].queue) :
              k = 1 \/ (k - 1 \in 1 .. Len(tail) /\ tail[k - 1] = channel[r].queue[k])
    BY ONLY <1>0, TailParts
  <1>2. /\ \A k \in 1 .. Len(consumer[r].batch) : k \in 1 .. Len(longer) /\ longer[k] = consumer[r].batch[k]
        /\ \E k \in 1 .. Len(longer) : longer[k] = head
    BY ONLY <1>0, AppendParts
  <1> HIDE DEF head, tail, longer
  <1>3. ASSUME NEW i \in Images, ~stopRequested, OnItsWay(r, i) PROVE OnItsWay(r, i)'
    <2>1. ASSUME Batched(r, i) PROVE Batched(r, i)'
      <3>1. consumer'[r].batch = consumer[r].batch \/ consumer'[r].batch = longer
        BY ReceiveMoves DEF longer, head
      <3> QED  BY <1>2, <2>1, <3>1 DEF Batched
    <2>2. ASSUME Queued(r, i) PROVE Queued(r, i)' \/ Batched(r, i)'
      <3>1. PICK k \in 1 .. Len(channel[r].queue) :
                channel[r].queue[k].image = i /\ channel[r].queue[k].version # 0
        BY <2>2 DEF Queued
      <3>2. CASE k = 1
        <4>1. consumer'[r].batch = longer  BY <1>1, <1>3, <3>1, <3>2, ReceiveMoves DEF longer, head
        <4> QED  BY <1>1, <1>2, <3>1, <3>2, <4>1 DEF Batched
      <3>3. CASE k # 1
        <4>1. channel'[r].queue = tail  BY ReceiveMoves DEF tail
        <4> QED  BY <1>1, <3>1, <3>3, <4>1 DEF Queued
      <3> QED  BY <3>2, <3>3
    <2> QED  BY <1>3, <2>1, <2>2, ReceiveMoves DEF OnItsWay
  <1> QED  BY <1>0, <1>3, ReceiveMoves DEF Complete, Loses

LEMMA RestComplete ==
    ASSUME TypeOK, NEW r \in Runs, Sound(r), Complete(r), RangeEnds(r) \/ Saved(r)
    PROVE  Complete(r)'
  <1>0. run[r].images \subseteq Images  BY DEF TypeOK, RunOK
  <1>1. ASSUME NEW i \in Images, OnItsWay(r, i) PROVE OnItsWay(r, i)'
    BY <1>1, RangeEndsSound, SavedSound DEF OnItsWay, Queued, Batched
  <1> QED  BY <1>0, <1>1, RangeEndsSound, SavedSound DEF Complete, Loses

\* What a batch loses it has saved.
LEMMA SaveComplete ==
    ASSUME TypeOK, NEW r \in Runs, Sound(r), Complete(r), SaveNext(r)
    PROVE  Complete(r)'
  <1>0. /\ run[r].images \subseteq Images /\ classification \in [Images -> Nat]
        /\ consumer[r].batch \in Seq(Result) /\ consumer[r].batch # <<>>
    BY SaveSound DEF TypeOK, RunOK, DbOK
  <1> DEFINE tail == Tail(consumer[r].batch)
  <1>1. \A k \in 1 .. Len(consumer[r].batch) :
            k = 1 \/ (k - 1 \in 1 .. Len(tail) /\ tail[k - 1] = consumer[r].batch[k])
    BY ONLY <1>0, TailParts
  <1>2. consumer'[r].batch = tail  BY SaveSound
  <1> HIDE DEF tail
  <1>3. PICK i \in Images : /\ i = consumer[r].batch[1].image /\ content[i] # 0
                            /\ classification' = [classification EXCEPT ![i] = content[i]]
    BY SaveSound
  <1>4. classification'[i] # 0 /\ \A j \in Images : classification[j] # 0 => classification'[j] # 0
    BY <1>0, <1>3
  <1>5. ASSUME NEW j \in Images, OnItsWay(r, j) PROVE OnItsWay(r, j)'
    <2>1. Batched(r, j) => Batched(r, j)' \/ j = i  BY <1>1, <1>2, <1>3 DEF Batched
    <2>2. Queued(r, j) => Queued(r, j)'  BY SaveSound DEF Queued
    <2> QED  BY <1>4, <1>5, <2>1, <2>2, SaveSound DEF OnItsWay
  <1> QED  BY <1>0, <1>4, <1>5, SaveSound DEF Complete, Loses

\* What a step of one run does not change for another
LEMMA OthersKeep ==
    ASSUME TypeOK, NEW r \in Runs, UNCHANGED Own(r)
    PROVE  /\ Linked(r) => Linked(r)'
           /\ Current(r) /\ (r \in Active => UNCHANGED content) => Current(r)'
           /\ InBatch(r) => InBatch(r)'
           /\ Unstopped(r) => Unstopped(r)'
           /\ (/\ \A i \in Images : classification[i] # 0 => classification'[i] # 0
               /\ (stopRequested => stopRequested') \/ run[r].images = {}
               /\ UNCHANGED content
               /\ Complete(r)) => Complete(r)'
  <1>0. /\ run'[r] = run[r] /\ worker'[r] = worker[r] /\ channel'[r] = channel[r]
        /\ closer'[r] = closer[r] /\ consumer'[r] = consumer[r]
    BY DEF Own
  <1>1. Linked(r) => Linked(r)'
    BY <1>0 DEF Linked, Untouched, Launching, Waited, Active
  <1>2. Current(r) /\ (r \in Active => UNCHANGED content) => Current(r)'
    BY <1>0 DEF Current, Active
  <1>3. InBatch(r) => InBatch(r)'  BY <1>0 DEF InBatch
  <1>4. Unstopped(r) => Unstopped(r)'  BY <1>0 DEF Unstopped
  <1>5. ASSUME \A i \in Images : classification[i] # 0 => classification'[i] # 0,
               (stopRequested => stopRequested') \/ run[r].images = {}, UNCHANGED content, Complete(r)
        PROVE  Complete(r)'
    <2>0. run[r].images \subseteq Images  BY DEF TypeOK, RunOK
    <2>1. ASSUME NEW i \in Images, OnItsWay(r, i) PROVE OnItsWay(r, i)'
      BY <1>0, <1>5, <2>1 DEF OnItsWay, Queued, Batched
    <2> QED  BY <1>0, <1>5, <2>0, <2>1 DEF Complete, Loses
  <1> QED  BY <1>1, <1>2, <1>3, <1>4, <1>5

-------------------------------------------------------------------------------
(* The whole system *)

\* The steps of a run, and those in which something fails
Works(r) ==
    \/ Quietly(r) \/ (Query(r) /\ Candidates(run[r].incremental) # {}) \/ Launch(r) \/ Exit(r)
    \/ \E i \in Images : Worker(r, i)
    \/ Closer(r) \/ Consumer(r)
Acts(r) == Works(r) \/ SaveFails(r) \/ \E i \in Images : OcrFails(r, i)

LEMMA ActSound ==
    ASSUME TypeOK, NEW r \in Runs, Sound(r), Acts(r)
    PROVE  Sound(r)'
  <1>1. ASSUME NEW i \in Images, Worker(r, i) \/ OcrFails(r, i) PROVE Sound(r)'
    BY <1>1, WorkersMove, WorkerSound
  <1> QED
    BY <1>1, QuietSound, QuerySound, LaunchSound, ExitSound, CloserSound, ReceiveSound, RangeEndsSound,
        SaveSound, SavedSound
    DEF Acts, Works, Consumer

LEMMA ActComplete ==
    ASSUME TypeOK, NEW r \in Runs, Sound(r), Complete(r), Works(r)
    PROVE  Complete(r)'
  <1>1. ASSUME NEW i \in Images, Worker(r, i) PROVE Complete(r)'
    BY <1>1, WorkerComplete
  <1> QED
    BY <1>1, QuietComplete, QueryComplete, LaunchComplete, ExitComplete, CloserComplete,
        ReceiveComplete, RestComplete, SaveComplete
    DEF Works, Consumer

\* A step of one run leaves the others alone.
LEMMA ActsAlone ==
    ASSUME TypeOK, NEW r \in Runs, Acts(r)
    PROVE  /\ \A q \in Runs \ {r} : UNCHANGED Own(q)
           /\ UNCHANGED content
           /\ UNCHANGED <<classification, outdated, pending>> \/ SaveNext(r)
           /\ UNCHANGED stopRequested \/ ResetState(r)
  <1>0. /\ run \in [Runs -> RunRecord] /\ worker \in [Runs -> [Images -> WorkerRecord]]
        /\ channel \in [Runs -> [queue : Seq(Result), closed : BOOLEAN]]
        /\ DOMAIN closer = Runs /\ consumer \in [Runs -> ConsumerRecord]
    BY Records DEF TypeOK
  <1>1. /\ UNCHANGED content
        /\ UNCHANGED <<classification, outdated, pending>> \/ SaveNext(r)
        /\ UNCHANGED stopRequested \/ ResetState(r)
    BY DEF Acts, Works, Consumer, Quietly, StartClassification, MarkEmpty, NextImage, GiveUp, QueryFails, ResetState,
        Query, Launch, Exit, Worker, ReadFile, OcrFails, SendResult, Release, WorkerDone, Closer,
        BeginWait, EndWait, Receive, RangeEnds, SaveNext, SaveFails, Saved
  <1>2. SUFFICES ASSUME NEW q \in Runs \ {r} PROVE UNCHANGED Own(q)  BY <1>1
  <1>3. run'[q] = run[q]
    <2>1. UNCHANGED run \/ \E new : run' = [run EXCEPT ![r] = new]
      <3>1. ASSUME \/ \E incremental \in BOOLEAN : StartClassification(r, incremental)
                   \/ Launcher(r) \/ QueryFails(r)
            PROVE  \E new : run' = [run EXCEPT ![r] = new]
        BY <3>1, LauncherMoves
      <3> QED
        BY <3>1 DEF Acts, Works, Consumer, Quietly, Launcher, Worker, ReadFile, OcrFails, SendResult, Release, WorkerDone,
            Closer, BeginWait, EndWait, Receive, RangeEnds, SaveNext, SaveFails, Saved
    <2> QED  BY <1>0, <2>1
  <1>4. worker'[q] = worker[q]
    <2>1. ASSUME NEW i \in Images, Worker(r, i) \/ OcrFails(r, i) PROVE worker'[q] = worker[q]
      <3>1. \E w : worker' = [worker EXCEPT ![r][i] = w]  BY <2>1, WorkerMoves
      <3> QED  BY <1>0, <3>1
    <2>2. UNCHANGED worker \/ Launch(r) \/ \E i \in Images : Worker(r, i) \/ OcrFails(r, i)
      BY DEF Acts, Works, Consumer, Quietly, StartClassification, MarkEmpty, NextImage, GiveUp, QueryFails, ResetState,
        Query, Exit, Closer, BeginWait, EndWait, Receive, RangeEnds, SaveNext, SaveFails, Saved
    <2>3. Launch(r) => worker'[q] = worker[q]  BY <1>0 DEF Launch
    <2> QED  BY <2>1, <2>2, <2>3
  <1>5. channel'[q] = channel[q]
    <2>1. UNCHANGED channel \/ Closer(r) \/ Receive(r) \/ \E i \in Images : SendResult(r, i)
      BY DEF Acts, Works, Consumer, Quietly, StartClassification, MarkEmpty, NextImage, GiveUp, QueryFails, ResetState,
        Query, Launch, Exit, Worker, ReadFile, OcrFails, Release, WorkerDone, RangeEnds, SaveNext,
        SaveFails, Saved
    <2> QED  BY <1>0, <2>1 DEF Closer, BeginWait, EndWait, Close, Receive, SendResult
  <1>6. closer'[q] = closer[q]
    <2>1. UNCHANGED closer \/ Closer(r) \/ Query(r) \/ \E i \in Images : WorkerDone(r, i)
      BY DEF Acts, Works, Consumer, Quietly, StartClassification, MarkEmpty, NextImage, GiveUp, QueryFails, ResetState,
        Launch, Exit, Worker, ReadFile, OcrFails, SendResult, Release, Receive, RangeEnds, SaveNext,
        SaveFails, Saved
    <2> QED  BY <1>0, <2>1 DEF Closer, BeginWait, EndWait, Close, Query, WorkerDone
  <1>7. consumer'[q] = consumer[q]
    <2>1. \/ UNCHANGED consumer \/ Query(r) \/ Receive(r) \/ RangeEnds(r) \/ SaveNext(r) \/ SaveFails(r)
          \/ Saved(r)
      BY DEF Acts, Works, Consumer, Quietly, StartClassification, MarkEmpty, NextImage, GiveUp, QueryFails, ResetState,
        Launch, Exit, Worker, ReadFile, OcrFails, SendResult, Release, WorkerDone, Closer, BeginWait,
        EndWait
    <2> QED  BY <1>0, <2>1 DEF Query, Receive, RangeEnds, SaveNext, SaveFails, Saved
  <1> QED  BY <1>3, <1>4, <1>5, <1>6, <1>7 DEF Own

\* A scenario starts a run that there is.
LEMMA StartsTyped ==
    ASSUME scenario \in Scenarios, Begun < Len(scenario.starts)
    PROVE  /\ First({r \in Runs : run[r].pc = "idle"}) \in Runs
           /\ scenario.starts[Begun + 1] \in BOOLEAN
           /\ Len(scenario.starts) <= 1 => \A r \in Runs : run[r].pc = "idle"
  <1> DEFINE busy == {r \in Runs : run[r].pc # "idle"}
             idle == {r \in Runs : run[r].pc = "idle"}
  <1>1. /\ IsFiniteSet(Runs) /\ scenario.starts \in Seq(BOOLEAN)
        /\ Len(scenario.starts) \in Nat /\ Len(scenario.starts) <= Cardinality(Runs)
    BY ScenariosOK
  <1>2. IsFiniteSet(busy) /\ Cardinality(busy) \in Nat /\ Cardinality(Runs) \in Nat
    BY <1>1, FS_Subset, FS_CardinalityType
  <1>3. Cardinality(busy) < Len(scenario.starts)  BY DEF Begun
  <1>4. idle # {}
    <2> SUFFICES ASSUME idle = {} PROVE FALSE  OBVIOUS
    <2>1. busy = Runs  OBVIOUS
    <2> HIDE DEF busy
    <2> QED  BY ONLY <1>1, <1>2, <1>3, <2>1
  <1>5. First(idle) \in idle  BY <1>4 DEF First
  <1>6. Begun + 1 \in 1 .. Len(scenario.starts)  BY <1>1, <1>2, <1>3 DEF Begun
  <1>7. ASSUME Len(scenario.starts) <= 1 PROVE busy = {}
    <2>1. Cardinality(busy) = 0  BY <1>1, <1>2, <1>3, <1>7
    <2> QED  BY <1>2, <2>1, FS_EmptySet
  <1> QED  BY <1>1, <1>5, <1>6, <1>7

\* What a step of a scenario is
LEMMA ScenarioSteps ==
    ASSUME scenario \in Scenarios, [MCNext]_MCVars
    PROVE  /\ [Next]_vars /\ UNCHANGED scenario
           /\ \/ \E r \in Runs :
                   /\ Acts(r) /\ ("fail" \notin scenario.may => Works(r))
                   /\ \/ run[r].pc # "idle" \/ UNCHANGED run
                      \/ Len(scenario.starts) <= 1 => \A q \in Runs : run[q].pc = "idle"
              \/ StopClassification /\ "stop" \in scenario.may
              \/ \E n \in Settings : SetMaxWorkers(n)
              \/ \E i \in Images : Sync(i)
              \/ Change /\ Idle /\ "change" \in scenario.may
              \/ UNCHANGED vars
  <1>1. CASE UNCHANGED MCVars  BY <1>1 DEF MCVars
  <1>2. CASE MCNext
    <2>0. UNCHANGED scenario  BY <1>2 DEF MCNext
    <2>1. ASSUME Begun < Len(scenario.starts),
                 StartClassification(First({r \in Runs : run[r].pc = "idle"}), scenario.starts[Begun + 1])
          PROVE  \E r \in Runs, incremental \in BOOLEAN :
                    /\ StartClassification(r, incremental)
                    /\ Len(scenario.starts) <= 1 => \A q \in Runs : run[q].pc = "idle"
      BY <2>1, StartsTyped
    <2>2. ASSUME NEW r \in Runs, NEW incremental \in BOOLEAN, StartClassification(r, incremental)
          PROVE  Works(r) /\ Next
      BY <2>2 DEF Works, Quietly, Next, Start
    <2>3. ASSUME NEW r \in Runs, \/ Launcher(r) \/ Closer(r) \/ Consumer(r)
                                 \/ \E i \in Images : Worker(r, i)
          PROVE  Works(r) /\ (run[r].pc # "idle" \/ UNCHANGED run)
      <3>1. CASE Launcher(r)
        BY <3>1 DEF Launcher, Works, Quietly, ResetState, MarkEmpty, NextImage, GiveUp, Query, Launch, Exit
      <3>2. CASE Closer(r) \/ Consumer(r) \/ \E i \in Images : Worker(r, i)
        BY <3>2 DEF Works, Closer, BeginWait, EndWait, Consumer, Receive, RangeEnds, SaveNext, Saved,
            Worker, ReadFile, SendResult, Release, WorkerDone
      <3> QED  BY <2>3, <3>1, <3>2
    <2>4. ASSUME NEW r \in Runs, QueryFails(r) \/ SaveFails(r) \/ \E i \in Images : OcrFails(r, i)
          PROVE  Acts(r) /\ (run[r].pc # "idle" \/ UNCHANGED run)
      BY <2>4 DEF Acts, Works, Quietly, QueryFails, SaveFails, OcrFails
    <2>5. CASE Continue
      <3>1. Next  BY <2>5 DEF Next
      <3> QED  BY <2>0, <2>3, <2>5, <3>1 DEF Continue, Acts
    <2>6. CASE "fail" \in scenario.may /\ Fail
      <3>1. Next  BY <2>6 DEF Next
      <3> QED  BY <2>0, <2>4, <2>6, <3>1 DEF Fail
    <2>7. CASE \/ "stop" \in scenario.may /\ StopClassification
               \/ \E n \in Settings : SetMaxWorkers(n)
               \/ "change" \in scenario.may /\ Idle /\ Change
      BY <2>0, <2>7 DEF Next
    <2>8. CASE /\ Begun < Len(scenario.starts)
               /\ StartClassification(First({r \in Runs : run[r].pc = "idle"}), scenario.starts[Begun + 1])
      BY <2>0, <2>1, <2>2, <2>8 DEF Acts
    <2> QED  BY <1>2, <2>5, <2>6, <2>7, <2>8 DEF MCNext
  <1> QED  BY <1>1, <1>2

\* Only a start makes a run one that is not idle.
LEMMA OneRun ==
    ASSUME LostInv, [MCNext]_MCVars, "stop" \in scenario.may
    PROVE  \A q, r \in Runs : run'[q].pc # "idle" /\ run'[r].pc # "idle" => q = r
  <1>0. /\ run \in [Runs -> RunRecord] /\ scenario \in Scenarios /\ TypeOK
        /\ Len(scenario.starts) <= 1
        /\ \A q, r \in Runs : run[q].pc # "idle" /\ run[r].pc # "idle" => q = r
    BY Records, ScenariosOK DEF LostInv, TypeOK
  <1>1. CASE UNCHANGED run  BY <1>0, <1>1
  <1>2. ASSUME NEW r \in Runs, Acts(r),
               run[r].pc # "idle" \/ \A q \in Runs : run[q].pc = "idle"
        PROVE  \A q \in Runs : run'[q].pc # "idle" => q = r
    <2>1. \A q \in Runs \ {r} : run'[q] = run[q]  BY <1>0, <1>2, ActsAlone DEF Own
    <2> QED  BY <1>0, <1>2, <2>1
  <1>3. ASSUME \/ StopClassification \/ Change \/ \E n \in Settings : SetMaxWorkers(n)
               \/ \E i \in Images : Sync(i)
               \/ UNCHANGED vars
        PROVE  UNCHANGED run
    BY <1>3 DEF StopClassification, Change, AddFile, ChangeFile, SetMaxWorkers, Sync, SaveRow, Invalidate, vars
  <1> QED  BY <1>0, <1>1, <1>2, <1>3, ScenarioSteps

\* A stop is forgotten only by the run it was meant for, before it has a plan.
LEMMA ForgottenEarly ==
    ASSUME LostInv, NEW r \in Runs, ResetState(r), stopRequested, NEW q \in Runs
    PROVE  Untouched(q)
  <1>1. "stop" \in scenario.may  BY DEF LostInv
  <1>2. run[q].pc \in {"idle", "reset"}  BY <1>1 DEF LostInv, ResetState
  <1> QED  BY <1>2 DEF LostInv, Linked, Planless

\* The steps that are none of a run's
LEMMA Elsewhere ==
    ASSUME LostInv, \/ StopClassification /\ "stop" \in scenario.may
                    \/ \E n \in Settings : SetMaxWorkers(n)
                    \/ \E i \in Images : Sync(i)
                    \/ Change /\ Idle /\ "change" \in scenario.may
                    \/ UNCHANGED vars
    PROVE  /\ UNCHANGED <<run, worker, channel, closer, consumer>>
           /\ UNCHANGED stopRequested \/ (stopRequested' /\ "stop" \in scenario.may)
           /\ UNCHANGED content \/ (Active = {} /\ "change" \in scenario.may)
           /\ "change" \notin scenario.may =>
                UNCHANGED classification /\ \A i \in Images : pending'[i] = "none"
  <1>1. /\ UNCHANGED <<run, worker, channel, closer, consumer>>
        /\ UNCHANGED stopRequested \/ (stopRequested' /\ "stop" \in scenario.may)
        /\ UNCHANGED content \/ (Active = {} /\ "change" \in scenario.may)
    BY DEF StopClassification, Change, AddFile, ChangeFile, SetMaxWorkers, Sync, SaveRow, Invalidate, vars, Idle
  <1>2. ASSUME "change" \notin scenario.may
        PROVE  UNCHANGED classification /\ \A i \in Images : pending'[i] = "none"
    <2>1. \A i \in Images : pending[i] = "none"  BY <1>2 DEF LostInv
    <2>2. \A i \in Images : ~Sync(i)  BY <2>1 DEF Sync, SaveRow, Invalidate
    <2>3. UNCHANGED <<classification, pending>>
      BY <1>2, <2>2 DEF StopClassification, SetMaxWorkers, vars
    <2> QED  BY <2>1, <2>3
  <1> QED  BY <1>1, <1>2

\* No change of a file goes unnoticed.
LEMMA FreshKept ==
    ASSUME LostInv, [MCNext]_MCVars, NEW i \in Images
    PROVE  Fresh(i)'
  <1>0. /\ content \in [Images -> Nat] /\ classification \in [Images -> Nat]
        /\ outdated \in [Images -> BOOLEAN] /\ pending \in [Images -> {"none", "changed", "saved"}]
        /\ Fresh(i) /\ TypeOK /\ scenario \in Scenarios
    BY DEF LostInv, TypeOK, DbOK
  <1>1. CASE UNCHANGED <<content, classification, outdated, pending>>  BY <1>0, <1>1 DEF Fresh
  <1>2. ASSUME NEW r \in Runs, Acts(r) PROVE Fresh(i)'
    <2>0. UNCHANGED content /\ Sound(r)  BY <1>0, <1>2, ActsAlone DEF LostInv, Sound
    <2>1. CASE SaveNext(r)
      <3>1. UNCHANGED <<classification, outdated, pending>> \/ \E j \in Images :
               /\ classification' = [classification EXCEPT ![j] = content[j]]
               /\ outdated' = [outdated EXCEPT ![j] = FALSE] /\ UNCHANGED pending
        BY <1>0, <2>0, <2>1, SaveSound
      <3>2. CASE UNCHANGED <<classification, outdated, pending>>  BY <1>1, <2>0, <3>2
      <3>3. ASSUME NEW j \in Images, classification' = [classification EXCEPT ![j] = content[j]],
                   outdated' = [outdated EXCEPT ![j] = FALSE], UNCHANGED pending
            PROVE  Fresh(i)'
        <4>1. CASE i = j  BY <1>0, <2>0, <3>3, <4>1 DEF Fresh
        <4>2. CASE i # j  BY <1>0, <2>0, <3>3, <4>2 DEF Fresh
        <4> QED  BY <4>1, <4>2
      <3> QED  BY <3>1, <3>2, <3>3
    <2>2. CASE UNCHANGED <<classification, outdated, pending>>  BY <1>1, <2>0, <2>2
    <2> QED  BY <1>0, <1>2, <2>1, <2>2, ActsAlone
  <1>3. ASSUME NEW j \in Images, AddFile(j) PROVE Fresh(i)'
    <2>1. content[j] = 0 /\ content' = [content EXCEPT ![j] = 1] /\ UNCHANGED <<classification, outdated, pending>>
      BY <1>3 DEF AddFile
    <2> QED  BY <1>0, <2>1 DEF Fresh
  <1>4. ASSUME NEW j \in Images, ChangeFile(j) PROVE Fresh(i)'
    <2>1. /\ content' = [content EXCEPT ![j] = content[j] + 1] /\ UNCHANGED <<classification, outdated>>
          /\ pending' = [pending EXCEPT ![j] = "changed"]
      BY <1>4 DEF ChangeFile
    <2>2. CASE i = j  BY <1>0, <2>1, <2>2 DEF Fresh
    <2>3. CASE i # j  BY <1>0, <2>1, <2>3 DEF Fresh
    <2> QED  BY <2>2, <2>3
  <1>5. ASSUME NEW j \in Images, SaveRow(j) PROVE Fresh(i)'
    <2>1. /\ outdated' = [outdated EXCEPT ![j] = TRUE] /\ UNCHANGED <<classification, content>>
          /\ pending' = [pending EXCEPT ![j] = "saved"]
      BY <1>5 DEF SaveRow, Touched
    <2>2. CASE i = j  BY <1>0, <2>1, <2>2 DEF Fresh
    <2>3. CASE i # j  BY <1>0, <2>1, <2>3 DEF Fresh
    <2> QED  BY <2>2, <2>3
  <1>6. ASSUME NEW j \in Images, Invalidate(j) PROVE Fresh(i)'
    <2>1. /\ classification' = [classification EXCEPT ![j] = 0] /\ UNCHANGED <<outdated, content>>
          /\ pending' = [pending EXCEPT ![j] = "none"] /\ pending[j] = "saved"
      BY <1>6 DEF Invalidate
    <2>2. CASE i = j  BY <1>0, <2>1, <2>2 DEF Fresh
    <2>3. CASE i # j  BY <1>0, <2>1, <2>3 DEF Fresh
    <2> QED  BY <2>2, <2>3
  <1>7. ASSUME StopClassification \/ UNCHANGED vars \/ \E n \in Settings : SetMaxWorkers(n)
        PROVE  UNCHANGED <<content, classification, outdated, pending>>
    BY <1>7 DEF StopClassification, SetMaxWorkers, vars
  <1>8. ASSUME Change \/ \E j \in Images : Sync(j) PROVE Fresh(i)'
    BY <1>3, <1>4, <1>5, <1>6, <1>8 DEF Sync, Change
  <1> QED  BY <1>0, <1>1, <1>2, <1>7, <1>8, ScenarioSteps

\* What a run keeps, every step keeps.
LEMMA SoundKept ==
    ASSUME LostInv, [MCNext]_MCVars, NEW q \in Runs
    PROVE  Sound(q)' /\ (Smooth => Complete(q)')
  <1>0. /\ TypeOK /\ scenario \in Scenarios /\ Sound(q)
        /\ Smooth => Complete(q)
        /\ Smooth => "fail" \notin scenario.may /\ "change" \notin scenario.may
    BY DEF LostInv, Sound, Smooth
  <1>1. ASSUME NEW r \in Runs, Acts(r), "fail" \notin scenario.may => Works(r)
        PROVE  Sound(q)' /\ (Smooth => Complete(q)')
    <2>0. Sound(r)  BY DEF LostInv, Sound
    <2>1. CASE q = r  BY <1>0, <1>1, <2>1, ActSound, ActComplete
    <2>2. CASE q # r
      <3>1. UNCHANGED Own(q) /\ UNCHANGED content  BY <1>0, <1>1, <2>2, ActsAlone
      <3>2. UNCHANGED stopRequested \/ (~stopRequested /\ ~stopRequested') \/ Untouched(q)
        BY <1>0, <1>1, ActsAlone, ForgottenEarly DEF ResetState
      <3>3. \A i \in Images : classification[i] # 0 => classification'[i] # 0
        <4>1. UNCHANGED classification \/ \E i \in Images :
                 content[i] # 0 /\ classification' = [classification EXCEPT ![i] = content[i]]
          BY <1>0, <1>1, <2>0, ActsAlone, SaveSound
        <4>2. classification \in [Images -> Nat]  BY <1>0 DEF TypeOK, DbOK
        <4> QED  BY <4>1, <4>2
      <3>4. Untouched(q) => Unstopped(q)'  BY <3>1 DEF Own, Untouched, Unstopped
      <3>5. Sound(q)'  BY <1>0, <3>1, <3>2, <3>4, OthersKeep DEF Sound
      <3>6. Smooth => Complete(q)'
        BY <1>0, <3>1, <3>2, <3>3, OthersKeep DEF Untouched
      <3> QED  BY <3>5, <3>6
    <2> QED  BY <2>1, <2>2
  <1>2. ASSUME \/ StopClassification /\ "stop" \in scenario.may
               \/ \E n \in Settings : SetMaxWorkers(n)
               \/ \E i \in Images : Sync(i)
               \/ Change /\ Idle /\ "change" \in scenario.may
               \/ UNCHANGED vars
        PROVE  Sound(q)' /\ (Smooth => Complete(q)')
    <2>1. /\ UNCHANGED Own(q) /\ (q \in Active => UNCHANGED content)
          /\ UNCHANGED stopRequested \/ stopRequested'
          /\ Smooth => UNCHANGED content /\ UNCHANGED classification
      BY <1>0, <1>2, Elsewhere DEF Own
    <2> QED  BY <1>0, <2>1, OthersKeep DEF Sound
  <1> QED  BY <1>0, <1>1, <1>2, ScenarioSteps

\* With an OCR service and a database that answer, a run whose channel is
\* closed late leaves no image it found without a classification; and no change
\* of a file between runs goes unnoticed by the next (launchWorkers,
\* consumeResults, queryUnclassifiedImages).
THEOREM NothingGetsLost == MCSpec => []NothingIsLost
<1>1. MCInit => LostInv
  <2> SUFFICES ASSUME MCInit PROVE LostInv  OBVIOUS
  <2>0. Init /\ scenario \in Scenarios /\ TypeOK  BY InitTyped DEF MCInit
  <2>1. ASSUME NEW r \in Runs
        PROVE  Untouched(r) /\ run[r].pc = "idle" /\ closer[r] = "none" /\ ~channel[r].closed
               /\ run[r].outcome = "none"
    BY <2>0 DEF Init, Untouched, NotRunning, NoWorker, NoConsumer
  <2>2. \A r \in Runs : Linked(r) /\ Current(r) /\ InBatch(r) /\ Unstopped(r) /\ Complete(r)
    BY <2>1 DEF Linked, Untouched, Current, InBatch, Unstopped, Complete, Active, Planless
  <2>3. \A i \in Images : Fresh(i) /\ pending[i] = "none"  BY <2>0 DEF Init, Fresh
  <2> QED  BY <2>0, <2>1, <2>2, <2>3 DEF Init, LostInv
<1>2. LostInv /\ [MCNext]_MCVars => LostInv'
  <2> SUFFICES ASSUME LostInv, [MCNext]_MCVars PROVE LostInv'  OBVIOUS
  <2>1. TypeOK' /\ UNCHANGED scenario /\ scenario \in Scenarios
    BY ScenarioSteps, StepTyped DEF LostInv
  <2>2. "stop" \notin scenario.may => ~stopRequested'
    <3>1. ASSUME NEW r \in Runs, Acts(r) PROVE UNCHANGED stopRequested \/ ~stopRequested'
      BY <3>1, ActsAlone DEF ResetState, LostInv
    <3> QED  BY <2>1, <3>1, ScenarioSteps, Elsewhere DEF LostInv
  <2>3. "change" \notin scenario.may => \A i \in Images : pending'[i] = "none"
    <3>1. ASSUME NEW r \in Runs, Acts(r) PROVE UNCHANGED pending
      BY <3>1, ActsAlone DEF SaveNext, LostInv
    <3> QED  BY <2>1, <3>1, ScenarioSteps, Elsewhere DEF LostInv
  <2>4. \A i \in Images : Fresh(i)'  BY FreshKept
  <2>5. \A r \in Runs : Sound(r)' /\ (Smooth => Complete(r)')  BY SoundKept
  <2>6. Smooth' => Smooth  BY <2>1 DEF Smooth
  <2> QED  BY <2>1, <2>2, <2>3, <2>4, <2>5, <2>6, OneRun DEF LostInv, Sound
<1>3. LostInv => NothingIsLost
  <2> SUFFICES ASSUME LostInv PROVE NothingIsLost  OBVIOUS
  <2>1. Smooth => ClosedLateLosesNothing  BY DEF LostInv, Complete, ClosedLateLosesNothing
  <2>2. StaleIsCandidate
    <3> SUFFICES ASSUME NEW i \in Images, content[i] # 0, classification[i] # content[i], pending[i] # "changed"
                 PROVE  i \in Candidates(TRUE)
      BY DEF StaleIsCandidate
    <3>1. Fresh(i)  BY DEF LostInv
    <3> QED  BY <3>1 DEF Fresh, Candidates
  <2> QED  BY <2>1, <2>2 DEF NothingIsLost, Smooth
<1> QED  BY <1>1, <1>2, <1>3, PTL DEF MCSpec
===============================================================================
