------------------------- MODULE TagEmbeddingsProofs -------------------------
(***************************************************************************)
(* What holds of tag embeddings for every number of goroutines, images and *)
(* calls: the types, that the backfill's status flag is right and the      *)
(* backfill a single worker as long as nobody stops it, and what becomes   *)
(* of the embeddings in every scenario.                                    *)
(***************************************************************************)
EXTENDS MCTagEmbeddings, WellFoundedInduction, FiniteSetTheorems, TLAPS

(* The three choices the model makes exist. *)

\* A set of numbers has a least one (ORDER BY id LIMIT 1 finds a row if there
\* is one).
LEMMA LeastNat ==
    ASSUME NEW T, T \subseteq Nat, T # {}
    PROVE  \E x \in T : \A y \in T : x <= y
  <1>1. PICK x \in T : \A y \in T : ~ (<<y, x>> \in OpToRel(<, Nat))
    BY WFMin, NatLessThanWellFounded
  <1>2. \A y \in T : ~ (y < x)  BY <1>1 DEF OpToRel
  <1> QED  BY <1>2

LEMMA LeastChosen ==
    ASSUME NEW S, S \subseteq Images, S # {}
    PROVE  Least(S) \in S
  <1>1. S \subseteq Nat  BY ConstantsOK
  <1>2. \E i \in S : \A j \in S : i <= j  BY <1>1, LeastNat
  <1> QED  BY <1>2 DEF Least

LEMMA GreatestChosen ==
    ASSUME NEW S, S \subseteq Images, S # {}
    PROVE  Greatest(S) \in S /\ \A j \in S : j <= Greatest(S)
  <1> DEFINE T == {n \in Nat : \A j \in S : j <= n}
  <1>1. S \subseteq Nat \ {0}  BY ConstantsOK
  <1>2. MaxId \in T  BY ConstantsOK
  <1>3. PICK n \in T : \A m \in T : n <= m  BY <1>2, LeastNat
  <1>4. n \in S
    <2> SUFFICES ASSUME n \notin S PROVE FALSE  OBVIOUS
    <2>1. \A j \in S : j <= n - 1 /\ n - 1 >= 0  BY <1>1, <1>3
    <2>2. n - 1 \in T  BY <2>1
    <2> QED  BY <1>3, <2>2
  <1>5. \A j \in S : n >= j  BY <1>1, <1>3
  <1> QED  BY <1>1, <1>4, <1>5 DEF Greatest

LEMMA FirstChosen ==
    ASSUME NEW i, RowsOf(i) # {}, TypeOK
    PROVE  First(RowsOf(i)) \in RowsOf(i) /\ First(RowsOf(i)) \in rows
  <1> DEFINE T == {r.id : r \in RowsOf(i)}
  <1>1. RowsOf(i) \subseteq rows  BY DEF RowsOf
  <1>2. T \subseteq Nat /\ T # {}  BY <1>1 DEF TypeOK, DbOK, Row
  <1>3. PICK x \in T : \A y \in T : x <= y  BY <1>2, LeastNat
  <1>4. \E r \in RowsOf(i) : \A s \in RowsOf(i) : r.id <= s.id  BY <1>3
  <1>5. First(RowsOf(i)) \in RowsOf(i)  BY <1>4 DEF First
  <1> QED  BY <1>1, <1>5

-------------------------------------------------------------------------------
(* Types *)

LEMMA InitTyped == Init => TypeOK
  <1> SUFFICES ASSUME Init PROVE TypeOK  OBVIOUS
  <1>1. DbOK  BY DEF Init, DbOK, Text
  <1>2. mgr \in Manager  BY DEF Init, NewManager, Manager
  <1>3. WorkerOK  BY DEF Init, WorkerOK, NotWorking, NoTexts, Text
  <1>4. WriterOK  BY DEF Init, WriterOK, NotWriting
  <1>5. UpsertOK  BY DEF Init, UpsertOK, NotUpserting, Text
  <1>6. UsedOK
    <2>1. lastError \in BOOLEAN  BY DEF Init
    <2>2. MaxWrites \in Nat /\ MaxStarts \in Nat /\ MaxStops \in Nat  BY ConstantsOK
    <2>3. writes = 0 /\ starts = 0 /\ stops = 0  BY DEF Init
    <2> QED  BY <2>1, <2>2, <2>3 DEF UsedOK
  <1> QED  BY <1>1, <1>2, <1>3, <1>4, <1>5, <1>6 DEF TypeOK

LEMMA LookedUpTyped ==
    ASSUME TypeOK, NEW i \in Images, NEW text \in Text
    PROVE  /\ LookedUp(i, text) \in [pc : {"create", "write"}, image : Images,
                                     text : Text, row : Nat]
           /\ LookedUp(i, text).row < nextRow
  <1>1. CASE RowsOf(i) = {}  BY <1>1 DEF LookedUp, TypeOK, UpsertOK, DbOK
  <1>2. CASE RowsOf(i) # {}
    BY <1>2, FirstChosen DEF LookedUp, TypeOK, DbOK, Row
  <1> QED  BY <1>1, <1>2

USE DEF TypeOK, used, db

LEMMA WritersTyped ==
    ASSUME TypeOK, NEW x \in Writers,
           \/ \E i \in Images : SaveTags(x, i) \/ Invalidate(x, i)
           \/ Write(x) \/ \E h \in Hooks : InsertFails(x, h)
    PROVE  TypeOK'
  <1>1. ASSUME NEW i \in Images, SaveTags(x, i)  PROVE TypeOK'
    <2>1. DbOK'  BY <1>1 DEF SaveTags, DbOK, Text
    <2>2. WriterOK'  BY <1>1, ConstantsOK DEF SaveTags, WriterOK, UsedOK
    <2>3. UsedOK'  BY <1>1, ConstantsOK DEF SaveTags, UsedOK
    <2> QED  BY <1>1, <2>1, <2>2, <2>3 DEF SaveTags, WorkerOK, UpsertOK
  <1>2. ASSUME NEW i \in Images, Invalidate(x, i)  PROVE TypeOK'
    <2>1. DbOK'  BY <1>2 DEF Invalidate, DbOK, Text
    <2>2. WriterOK'  BY <1>2 DEF Invalidate, WriterOK, UsedOK
    <2>3. UsedOK'  BY <1>2, ConstantsOK DEF Invalidate, UsedOK
    <2> QED  BY <1>2, <2>1, <2>2, <2>3 DEF Invalidate, WorkerOK, UpsertOK
  <1>3. CASE DropEmbeddings(x)
    <2>1. DbOK'  BY <1>3 DEF DropEmbeddings, Dropped, DbOK
    <2>2. WriterOK'  BY <1>3 DEF DropEmbeddings, NotWriting, WriterOK
    <2> QED  BY <1>3, <2>1, <2>2 DEF DropEmbeddings, WorkerOK, UpsertOK, UsedOK
  <1>4. ASSUME NEW h \in Hooks, InsertTags(x, h)  PROVE TypeOK'
    <2>1. DbOK'  BY <1>4 DEF InsertTags, DbOK, WriterOK, Text
    <2>2. WriterOK'  BY <1>4 DEF InsertTags, NotWriting, WriterOK
    <2>3. UpsertOK'
      <3> DEFINE u == [pc |-> "embed", image |-> writer[x].image, text |-> {writer[x].list}, row |-> 0]
      <3>1. u \in [pc : {"idle", "embed", "create", "write"}, image : Images \cup {0},
                   text : Text, row : Nat]
        BY <1>4 DEF InsertTags, WriterOK, Text
      <3>2. upsert' = [upsert EXCEPT ![h] = u] /\ nextRow' = nextRow  BY <1>4 DEF InsertTags
      <3>3. u.row = 0 /\ u.image # 0  BY <1>4 DEF InsertTags, WriterOK
      <3>4. 0 < nextRow  BY DEF UpsertOK, DbOK
      <3> HIDE DEF u
      <3> QED  BY <3>1, <3>2, <3>3, <3>4 DEF UpsertOK
    <2> QED  BY <1>4, <2>1, <2>2, <2>3 DEF InsertTags, WorkerOK, UsedOK
  <1>5. ASSUME NEW h \in Hooks, InsertFails(x, h)  PROVE TypeOK'
    <2> DEFINE u == [pc |-> "embed", image |-> writer[x].image, text |-> {writer[x].list}, row |-> 0]
    <2>1. u \in [pc : {"idle", "embed", "create", "write"}, image : Images \cup {0},
                 text : Text, row : Nat]
      BY <1>5 DEF InsertFails, WriterOK, Text
    <2>2. u.row = 0 /\ u.image # 0  BY <1>5 DEF InsertFails, WriterOK
    <2>3. upsert' \in {upsert, [upsert EXCEPT ![h] = u]} /\ nextRow' = nextRow  BY <1>5 DEF InsertFails
    <2>4. 0 < nextRow  BY DEF UpsertOK, DbOK
    <2> HIDE DEF u
    <2>5. UpsertOK'  BY <2>1, <2>2, <2>3, <2>4 DEF UpsertOK
    <2>6. WriterOK'  BY <1>5 DEF InsertFails, NotWriting, WriterOK
    <2> QED  BY <1>5, <2>5, <2>6 DEF InsertFails, DbOK, WorkerOK, UsedOK
  <1> QED  BY <1>1, <1>2, <1>3, <1>4, <1>5 DEF Write

LEMMA UpsertTyped ==
    ASSUME TypeOK, NEW p \in Workers \cup Hooks, CreateParent(p) \/ WriteVector(p)
    PROVE  TypeOK'
  <1>1. CASE CreateParent(p)
    <2>1. DbOK'  BY <1>1 DEF CreateParent, DbOK, UpsertOK, Row
    <2>2. UpsertOK'  BY <1>1 DEF CreateParent, DbOK, UpsertOK
    <2> QED  BY <1>1, <2>1, <2>2 DEF CreateParent, WorkerOK, WriterOK, UsedOK
  <1>2. CASE WriteVector(p)
    <2>1. DbOK'
      <3>1. \A r \in rows : Vectored(r, upsert[p]) \in Row /\ Vectored(r, upsert[p]).id = r.id
        BY DEF Vectored, DbOK, UpsertOK, Row
      <3>2. rows' = {Vectored(r, upsert[p]) : r \in rows} /\ UNCHANGED <<tags, nextRow>>
        BY <1>2 DEF WriteVector
      <3> QED  BY <3>1, <3>2 DEF DbOK
    <2>2. UpsertOK'  BY <1>2 DEF WriteVector, NotUpserting, DbOK, UpsertOK, Text
    <2> QED  BY <1>2, <2>1, <2>2 DEF WriteVector, WorkerOK, WriterOK, UsedOK
  <1> QED  BY <1>1, <1>2

LEMMA HookTyped ==
    ASSUME TypeOK, NEW h \in Hooks, HookEmbeds(h) \/ HookFails(h)
    PROVE  TypeOK'
  <1>1. UpsertOK'
    <2>1. CASE HookEmbeds(h)
      <3> DEFINE u == LookedUp(upsert[h].image, upsert[h].text)
      <3>1. upsert[h].image \in Images /\ upsert[h].text \in Text
        BY <2>1 DEF HookEmbeds, UpsertOK
      <3>2. u \in [pc : {"create", "write"}, image : Images, text : Text, row : Nat]
            /\ u.row < nextRow
        BY <3>1, LookedUpTyped
      <3>3. upsert' = [upsert EXCEPT ![h] = u] /\ nextRow' = nextRow  BY <2>1 DEF HookEmbeds
      <3>4. 0 \notin Images  BY ConstantsOK
      <3> HIDE DEF u
      <3> QED  BY <3>2, <3>3, <3>4 DEF UpsertOK
    <2>2. CASE HookFails(h)  BY <2>2 DEF HookFails, NotUpserting, UpsertOK, DbOK, Text
    <2> QED  BY <2>1, <2>2
  <1> QED  BY <1>1 DEF HookEmbeds, HookFails, DbOK, WorkerOK, WriterOK, UsedOK

WorkerRecord == [pc : {"idle", "setup", "loop", "read", "embed", "save", "exit"},
                 size : Nat, cursor : Nat, page : SUBSET Images, texts : [Images -> Text]]

\* A step of one backfill goroutine keeps WorkerOK if its new locals are right.
LEMMA OneWorkerTyped ==
    ASSUME WorkerOK, NEW w \in Workers, NEW r \in WorkerRecord,
           worker' = [worker EXCEPT ![w] = r],
           r.pc \in {"read", "embed"} => r.page # {},
           r.pc = "read" => \A i \in r.page : i > r.cursor,
           r.pc = "save" => \A i \in r.page : i <= r.cursor
    PROVE  WorkerOK'
  <1>1. worker \in [Workers -> WorkerRecord]  BY DEF WorkerOK, WorkerRecord
  <1>2. worker' \in [Workers -> WorkerRecord]  BY <1>1
  <1>3. worker'[w] = r /\ \A v \in Workers \ {w} : worker'[v] = worker[v]  BY <1>1
  <1> QED
    <2>1. ASSUME NEW v \in Workers
          PROVE  /\ worker'[v].pc \in {"read", "embed"} => worker'[v].page # {}
                 /\ worker'[v].pc = "read" => \A i \in worker'[v].page : i > worker'[v].cursor
                 /\ worker'[v].pc = "save" => \A i \in worker'[v].page : i <= worker'[v].cursor
      <3>1. CASE v = w  BY <3>1, <1>3
      <3>2. CASE v # w  BY <3>2, <1>3 DEF WorkerOK
      <3> QED  BY <3>1, <3>2
    <2> QED  BY <1>2, <2>1 DEF WorkerOK, WorkerRecord

LEMMA WorkTyped ==
    ASSUME TypeOK, NEW w \in Workers,
           \/ StartBackfill(w) \/ SetUp(w) \/ SetUpFails(w) \/ SelectPage(w) \/ ReadTags(w)
           \/ EmbedFails(w) \/ Embedded(w) \/ SaveNext(w) \/ PageSaved(w) \/ Exit(w)
    PROVE  TypeOK'
  <1>1. CASE StartBackfill(w)
    <2>1. PICK n \in Nat : mgr' = [mgr EXCEPT !.running = TRUE, !.stopChan = n]
      <3>1. mgr.stopChan \in Nat  BY DEF Manager
      <3>2. mgr.stopChan + 1 \in Nat  BY <3>1
      <3> QED  BY <1>1, <3>2 DEF StartBackfill, Started
    <2>2. mgr' \in Manager  BY <2>1 DEF Manager
    <2>3. WorkerOK'  BY <1>1 DEF StartBackfill, WorkerOK
    <2>4. UsedOK'
      <3>1. lastError' \in BOOLEAN  BY <1>1 DEF StartBackfill
      <3>2. starts \in Nat /\ starts < MaxStarts /\ starts' = starts + 1 /\ MaxStarts \in Nat
        BY <1>1, ConstantsOK DEF StartBackfill, UsedOK
      <3>3. starts' \in 0 .. MaxStarts  BY <3>2
      <3>4. UNCHANGED <<writes, stops>>  BY <1>1 DEF StartBackfill
      <3> QED  BY <3>1, <3>3, <3>4 DEF UsedOK
    <2> QED  BY <1>1, <2>2, <2>3, <2>4 DEF StartBackfill, DbOK, WriterOK, UpsertOK
  <1>2. CASE SetUp(w)
    <2>1. WorkerOK'  BY <1>2, ConstantsOK DEF SetUp, WorkerOK
    <2> QED  BY <1>2, <2>1 DEF SetUp, DbOK, WriterOK, UpsertOK, UsedOK
  <1>3. CASE SetUpFails(w)
    <2>1. WorkerOK'  BY <1>3 DEF SetUpFails, WorkerOK
    <2> QED  BY <1>3, <2>1 DEF SetUpFails, DbOK, WriterOK, UpsertOK, UsedOK
  <1>4. CASE SelectPage(w)
    <2> DEFINE page == Page(After(worker[w].cursor), worker[w].size)
    <2>1. page \subseteq Images /\ \A i \in page : i > worker[w].cursor
      BY DEF Page, After, Missing
    <2>2. \/ worker' = [worker EXCEPT ![w] = [worker[w] EXCEPT !.pc = "exit"]]
          \/ /\ worker' = [worker EXCEPT ![w] = [worker[w] EXCEPT !.pc = "read", !.page = page]]
             /\ page # {}
      BY <1>4 DEF SelectPage
    <2> HIDE DEF page
    <2>0. worker[w] \in WorkerRecord  BY DEF WorkerOK, WorkerRecord
    <2>3. ASSUME worker' = [worker EXCEPT ![w] = [worker[w] EXCEPT !.pc = "exit"]]
          PROVE  WorkerOK'
      <3> DEFINE r == [worker[w] EXCEPT !.pc = "exit"]
      <3>1. r \in WorkerRecord /\ r.pc = "exit"  BY <2>0 DEF WorkerRecord
      <3> HIDE DEF r
      <3>2. worker' = [worker EXCEPT ![w] = r]  BY <2>3 DEF r
      <3> QED  BY <3>1, <3>2, OneWorkerTyped
    <2>4. ASSUME worker' = [worker EXCEPT ![w] = [worker[w] EXCEPT !.pc = "read", !.page = page]],
                 page # {}
          PROVE  WorkerOK'
      <3> DEFINE r == [worker[w] EXCEPT !.pc = "read", !.page = page]
      <3>1. r \in WorkerRecord /\ r.pc = "read" /\ r.page = page /\ r.cursor = worker[w].cursor
        BY <2>0, <2>1 DEF WorkerRecord
      <3> HIDE DEF r
      <3>2. worker' = [worker EXCEPT ![w] = r]  BY <2>4 DEF r
      <3> QED  BY <2>1, <2>4, <3>1, <3>2, OneWorkerTyped
    <2>5. WorkerOK'  BY <2>2, <2>3, <2>4
    <2> QED  BY <1>4, <2>5 DEF SelectPage, DbOK, WriterOK, UpsertOK, UsedOK
  <1>5. CASE ReadTags(w)
    <2>1. WorkerOK'  BY <1>5 DEF ReadTags, WorkerOK, DbOK, Text
    <2> QED  BY <1>5, <2>1 DEF ReadTags, DbOK, WriterOK, UpsertOK, UsedOK
  <1>6. ASSUME worker[w].pc \in {"read", "embed"}
        PROVE  /\ CursorAfter(w) \in Nat
               /\ \A i \in worker[w].page : i <= CursorAfter(w)
    <2>1. worker[w].page \subseteq Images /\ worker[w].page # {}  BY <1>6 DEF WorkerOK
    <2>2. /\ Greatest(worker[w].page) \in worker[w].page
          /\ \A i \in worker[w].page : i <= Greatest(worker[w].page)
      BY <2>1, GreatestChosen
    <2>3. Images \subseteq Nat  BY ConstantsOK
    <2>4. Greatest(worker[w].page) \in Nat  BY <2>1, <2>2, <2>3
    <2> QED  BY <2>2, <2>4 DEF CursorAfter
  <1>7. CASE EmbedFails(w)
    <2>1. CursorAfter(w) \in Nat  BY <1>6, <1>7 DEF EmbedFails
    <2>2. WorkerOK'  BY <1>7, <2>1 DEF EmbedFails, WorkerOK, NoTexts, Text
    <2> QED  BY <1>7, <2>2 DEF EmbedFails, DbOK, WriterOK, UpsertOK, UsedOK
  <1>8. CASE Embedded(w)
    <2>1. CursorAfter(w) \in Nat /\ \A i \in worker[w].page : i <= CursorAfter(w)
      BY <1>6, <1>8 DEF Embedded
    <2>2. WorkerOK'  BY <1>8, <2>1 DEF Embedded, WorkerOK
    <2> QED  BY <1>8, <2>2 DEF Embedded, DbOK, WriterOK, UpsertOK, UsedOK
  <1>9. CASE SaveNext(w)
    <2> DEFINE i == Least(worker[w].page)
    <2>1. i \in worker[w].page /\ i \in Images /\ worker[w].texts[i] \in Text
      BY <1>9, LeastChosen DEF SaveNext, WorkerOK
    <2> DEFINE u == LookedUp(i, worker[w].texts[i])
    <2>2. u \in [pc : {"create", "write"}, image : Images, text : Text, row : Nat]
          /\ u.row < nextRow
      BY <2>1, LookedUpTyped
    <2>3. 0 \notin Images  BY ConstantsOK
    <2>4. /\ upsert' = [upsert EXCEPT ![w] = u] /\ nextRow' = nextRow
          /\ worker' = [worker EXCEPT ![w].page = @ \ {i}]
      BY <1>9 DEF SaveNext
    <2> HIDE DEF u, i
    <2>5. UpsertOK'  BY <2>2, <2>3, <2>4 DEF UpsertOK
    <2>6. WorkerOK'  BY <1>9, <2>4 DEF SaveNext, WorkerOK
    <2> QED  BY <1>9, <2>5, <2>6 DEF SaveNext, DbOK, WriterOK, UsedOK
  <1>10. CASE PageSaved(w)
    <2>1. WorkerOK'  BY <1>10 DEF PageSaved, WorkerOK, NoTexts, Text
    <2> QED  BY <1>10, <2>1 DEF PageSaved, DbOK, WriterOK, UpsertOK, UsedOK
  <1>11. CASE Exit(w)
    <2>1. mgr' \in Manager  BY <1>11 DEF Exit, MarkStopped, Manager
    <2>2. WorkerOK'  BY <1>11 DEF Exit, WorkerOK, NotWorking, NoTexts, Text
    <2> QED  BY <1>11, <2>1, <2>2 DEF Exit, DbOK, WriterOK, UpsertOK, UsedOK
  <1> QED  BY <1>1, <1>2, <1>3, <1>4, <1>5, <1>7, <1>8, <1>9, <1>10, <1>11

LEMMA StopTyped == ASSUME TypeOK, StopBackfill PROVE TypeOK'
  <1>1. mgr' \in Manager  BY DEF StopBackfill, Stop, Manager
  <1>2. UsedOK'  BY ConstantsOK DEF StopBackfill, UsedOK
  <1> QED  BY <1>1, <1>2 DEF StopBackfill, DbOK, WorkerOK, WriterOK, UpsertOK

LEMMA StepTyped == TypeOK /\ [Next]_vars => TypeOK'
  <1> SUFFICES ASSUME TypeOK, [Next]_vars PROVE TypeOK'  OBVIOUS
  <1>1. CASE Begin  BY <1>1, WritersTyped, WorkTyped DEF Begin
  <1>2. CASE Continue
    BY <1>2, WritersTyped, WorkTyped, HookTyped, UpsertTyped DEF Continue, Work, Hook
  <1>3. CASE Fail  BY <1>3, WritersTyped, WorkTyped, HookTyped DEF Fail
  <1>4. CASE StopBackfill  BY <1>4, StopTyped
  <1>5. CASE UNCHANGED vars
    BY <1>5 DEF vars, DbOK, WorkerOK, WriterOK, UpsertOK, UsedOK
  <1> QED  BY <1>1, <1>2, <1>3, <1>4, <1>5 DEF Next

\* Every table, the manager and every goroutine's locals hold values of their
\* types in every reachable state.
THEOREM TypeCorrect == Spec => []TypeOK
  BY InitTyped, StepTyped, PTL DEF Spec

-------------------------------------------------------------------------------
(* The single worker *)

Busy == {w \in Workers : worker[w].pc # "idle"}

\* A step that neither begins nor ends a backfill goroutine
LEMMA InnerKeepsBusy ==
    ASSUME TypeOK,
           \/ \E x \in Writers, i \in Images : SaveTags(x, i) \/ Invalidate(x, i)
           \/ \E x \in Writers : Write(x) \/ \E h \in Hooks : InsertFails(x, h)
           \/ \E h \in Hooks : Hook(h) \/ HookFails(h)
           \/ \E w \in Workers :
                \/ SetUp(w) \/ SetUpFails(w) \/ SelectPage(w) \/ ReadTags(w) \/ EmbedFails(w)
                \/ Embedded(w) \/ SaveNext(w) \/ PageSaved(w)
                \/ CreateParent(w) \/ WriteVector(w)
           \/ UNCHANGED vars
    PROVE  UNCHANGED <<mgr, stops, Busy>>
  <1>1. CASE \E w \in Workers :
               \/ SetUp(w) \/ SetUpFails(w) \/ SelectPage(w) \/ ReadTags(w)
               \/ EmbedFails(w) \/ Embedded(w) \/ SaveNext(w) \/ PageSaved(w)
    <2>1. PICK w \in Workers :
               \/ SetUp(w) \/ SetUpFails(w) \/ SelectPage(w) \/ ReadTags(w)
               \/ EmbedFails(w) \/ Embedded(w) \/ SaveNext(w) \/ PageSaved(w)
      BY <1>1
    <2>2. worker[w].pc # "idle" /\ UNCHANGED <<mgr, stops>>
      BY <2>1 DEF SetUp, SetUpFails, SelectPage, ReadTags, EmbedFails, Embedded, SaveNext, PageSaved
    <2>3. worker \in [Workers -> [pc : {"idle", "setup", "loop", "read", "embed", "save", "exit"},
                            size : Nat, cursor : Nat, page : SUBSET Images, texts : [Images -> Text]]]
      BY DEF TypeOK, WorkerOK
    <2> DEFINE Kept == /\ worker'[w].pc # "idle"
                      /\ \A v \in Workers \ {w} : worker'[v] = worker[v]
    <2>4. ASSUME SetUp(w) PROVE Kept  BY <2>4, <2>3 DEF SetUp
    <2>5. ASSUME SetUpFails(w) \/ ReadTags(w) \/ EmbedFails(w) \/ Embedded(w) PROVE Kept
      <3>1. CASE SetUpFails(w)  BY <3>1, <2>3 DEF SetUpFails
      <3>2. CASE ReadTags(w)  BY <3>2, <2>3 DEF ReadTags
      <3>3. CASE EmbedFails(w)  BY <3>3, <2>3 DEF EmbedFails
      <3>4. CASE Embedded(w)  BY <3>4, <2>3 DEF Embedded
      <3> QED  BY <2>5, <3>1, <3>2, <3>3, <3>4
    <2>6. ASSUME SelectPage(w) PROVE Kept
      <3> DEFINE page == Page(After(worker[w].cursor), worker[w].size)
      <3> HIDE DEF page
      <3>1. \/ worker' = [worker EXCEPT ![w] = [worker[w] EXCEPT !.pc = "exit"]]
            \/ worker' = [worker EXCEPT ![w] = [worker[w] EXCEPT !.pc = "read", !.page = page]]
        BY <2>6 DEF SelectPage, page
      <3> QED  BY <3>1, <2>3
    <2>7. ASSUME SaveNext(w) PROVE Kept  BY <2>7, <2>3 DEF SaveNext
    <2>8. ASSUME PageSaved(w) PROVE Kept  BY <2>8, <2>3 DEF PageSaved
    <2>9. Kept  BY <2>1, <2>4, <2>5, <2>6, <2>7, <2>8
    <2> QED  BY <2>2, <2>9 DEF Busy
  <1>2. CASE UNCHANGED <<worker, mgr, stops>>  BY <1>2 DEF Busy
  <1> QED
    BY <1>1, <1>2
    DEF SaveTags, Invalidate, Write, DropEmbeddings, InsertTags, InsertFails, Hook, HookEmbeds,
        HookFails, CreateParent, WriteVector, vars

LEMMA BackfillBegins ==
    ASSUME TypeOK, NEW w \in Workers, StartBackfill(w)
    PROVE  /\ ~mgr.running /\ mgr'.running /\ stops' = stops
           /\ w \notin Busy /\ Busy' = Busy \cup {w}
  <1>1. ~mgr.running /\ mgr'.running /\ stops' = stops
    BY DEF StartBackfill, MayStart, Started, Manager
  <1>2. w \notin Busy  BY DEF StartBackfill, Busy
  <1>3. /\ worker'[w].pc = "setup"
        /\ \A v \in Workers \ {w} : worker'[v] = worker[v]
    BY DEF StartBackfill, WorkerOK
  <1> QED  BY <1>1, <1>2, <1>3 DEF Busy

LEMMA BackfillExits ==
    ASSUME TypeOK, NEW w \in Workers, Exit(w)
    PROVE  /\ ~mgr'.running /\ stops' = stops
           /\ w \in Busy /\ Busy' = Busy \ {w}
  <1>1. ~mgr'.running /\ stops' = stops  BY DEF Exit, MarkStopped, Manager
  <1>2. w \in Busy  BY DEF Exit, Busy
  <1>3. /\ worker'[w].pc = "idle"
        /\ \A v \in Workers \ {w} : worker'[v] = worker[v]
    BY DEF Exit, NotWorking, WorkerOK
  <1> QED  BY <1>1, <1>2, <1>3 DEF Busy

LEMMA OneAtATime ==
    RunningTellsTruth <=> (stops = 0 => /\ mgr.running <=> Busy # {}
                                       /\ \A v, w \in Busy : v = w)
  BY DEF RunningTellsTruth, Busy

\* While nobody stops the backfill, "running" is reported exactly while its one
\* goroutine exists.
THEOREM StatusIsRight == Spec => []RunningTellsTruth
  <1>1. Init => RunningTellsTruth
    BY DEF Init, RunningTellsTruth, NewManager, NotWorking
  <1>2. TypeOK /\ RunningTellsTruth /\ [Next]_vars => RunningTellsTruth'
    <2> SUFFICES ASSUME TypeOK, RunningTellsTruth, [Next]_vars, stops' = 0
                 PROVE  /\ mgr'.running <=> Busy' # {}
                        /\ \A v, w \in Busy' : v = w
      BY DEF RunningTellsTruth, Busy
    <2>1. CASE \E w \in Workers : StartBackfill(w)
      BY <2>1, BackfillBegins, OneAtATime
    <2>2. CASE \E w \in Workers : Exit(w)
      BY <2>2, BackfillExits, OneAtATime
    <2>3. CASE StopBackfill
      BY <2>3 DEF StopBackfill, UsedOK
    <2>4. CASE UNCHANGED <<mgr, stops, Busy>>
      BY <2>4, OneAtATime
    <2> QED
      BY <2>1, <2>2, <2>3, <2>4, InnerKeepsBusy DEF Next, Begin, Continue, Fail, Work, Hook
  <1> QED  BY TypeCorrect, <1>1, <1>2, PTL DEF Spec

\* The backfill implements the single worker its manager promises, up to the
\* first time an administrator stops it.
THEOREM ImplementsSingleWorker == Spec => SingleUntilStopped
  <1>1. Init => Single!Init
    BY DEF Init, Single!Init, NewManager, NotWorking
  <1>2. TypeOK /\ RunningTellsTruth /\ [Next]_vars
          => [stops' = 0 => [Single!Next]_(Single!vars)]_vars
    <2> SUFFICES ASSUME TypeOK, RunningTellsTruth, [Next]_vars, stops' = 0
                 PROVE  [Single!Next]_(Single!vars)
      OBVIOUS
    <2>1. ASSUME NEW w \in Workers, StartBackfill(w)  PROVE Single!Start(w)
      BY <2>1, BackfillBegins, OneAtATime DEF Single!Start, Busy
    <2>2. ASSUME NEW w \in Workers, Exit(w)  PROVE Single!Finish(w)
      BY <2>2, BackfillExits, OneAtATime DEF Single!Finish, Busy
    <2>3. CASE StopBackfill
      BY <2>3 DEF StopBackfill, UsedOK
    <2>4. CASE UNCHANGED <<mgr, stops, Busy>>
      BY <2>4 DEF Single!vars, Busy
    <2> QED
      BY <2>1, <2>2, <2>3, <2>4, InnerKeepsBusy
      DEF Next, Begin, Continue, Fail, Work, Hook, Single!Next
  <1> QED  BY TypeCorrect, StatusIsRight, <1>1, <1>2, PTL DEF Spec, SingleUntilStopped

-------------------------------------------------------------------------------
(* Soundness of embeddings *)

Writing == {x \in Writers : writer[x].pc # "idle"}
Hooking == {h \in Hooks : upsert[h].pc # "idle"}

\* A backfill upserts only while it saves a page.
Saving == \A w \in Workers : upsert[w].pc # "idle" => worker[w].pc = "save"

\* Where operations do not overlap, at most one goroutine is at work.
Alone ==
    /\ \A x, y \in Writing : x = y
    /\ \A v, w \in Busy : v = w
    /\ \A g, h \in Hooking : g = h
    /\ Writing = {} \/ (Busy = {} /\ Hooking = {})
    /\ Busy = {} \/ Hooking = {}

\* Steps of what has begun leave nobody at work who was not before.
LEMMA InnerNarrows ==
    ASSUME TypeOK, Saving,
           \/ \E x \in Writers : DropEmbeddings(x)
           \/ \E h \in Hooks : Hook(h) \/ HookFails(h)
           \/ \E w \in Workers : Work(w) \/ SetUpFails(w) \/ EmbedFails(w)
           \/ StopBackfill \/ UNCHANGED vars
    PROVE  Writing' \subseteq Writing /\ Busy' \subseteq Busy /\ Hooking' \subseteq Hooking
  <1>1. Writing' \subseteq Writing
    <2>1. CASE UNCHANGED writer  BY <2>1 DEF Writing
    <2>2. ASSUME NEW x \in Writers, DropEmbeddings(x) PROVE Writing' \subseteq Writing
      BY <2>2 DEF DropEmbeddings, NotWriting, Writing, WriterOK
    <2> QED
      BY <2>1, <2>2
      DEF Hook, HookEmbeds, HookFails, CreateParent, WriteVector, Work, SetUp, SelectPage, ReadTags,
          Embedded, SaveNext, PageSaved, Exit, SetUpFails, EmbedFails, StopBackfill, vars
  <1>2. Busy' \subseteq Busy
    <2>1. ASSUME NEW w \in Workers, Exit(w) PROVE Busy' \subseteq Busy  BY <2>1, BackfillExits
    <2>2. CASE StopBackfill  BY <2>2 DEF StopBackfill, Busy
    <2>3. CASE UNCHANGED Busy  BY <2>3
    <2> QED  BY <2>1, <2>2, <2>3, InnerKeepsBusy DEF Hook, Work, Write
  <1>3. Hooking' \subseteq Hooking
    <2>1. CASE UNCHANGED upsert  BY <2>1 DEF Hooking
    <2>2. ASSUME NEW p \in Workers \cup Hooks, CreateParent(p) \/ WriteVector(p)
          PROVE  Hooking' \subseteq Hooking
      BY <2>2 DEF CreateParent, WriteVector, Hooking, UpsertOK
    <2>3. ASSUME NEW h \in Hooks, HookEmbeds(h) \/ HookFails(h) PROVE Hooking' \subseteq Hooking
      <3>1. upsert[h].pc # "idle" /\ \A p \in (Workers \cup Hooks) \ {h} : upsert'[p] = upsert[p]
        BY <2>3 DEF HookEmbeds, HookFails, UpsertOK
      <3> QED  BY <3>1 DEF Hooking
    <2>4. ASSUME NEW w \in Workers, SaveNext(w) PROVE Hooking' \subseteq Hooking
      <3>1. \A p \in (Workers \cup Hooks) \ {w} : upsert'[p] = upsert[p]
        BY <2>4 DEF SaveNext, UpsertOK
      <3>2. w \notin Hooks  BY ConstantsOK
      <3> QED  BY <3>1, <3>2 DEF Hooking
    <2> QED
      BY <2>1, <2>2, <2>3, <2>4
      DEF Hook, Work, DropEmbeddings, SetUp, SelectPage, ReadTags,
          Embedded, PageSaved, Exit, SetUpFails, EmbedFails, StopBackfill, vars
  <1> QED  BY <1>1, <1>2, <1>3

LEMMA SavingKept == TypeOK /\ Saving /\ [Next]_vars => Saving'
  <1> SUFFICES ASSUME TypeOK, Saving, [Next]_vars, NEW w \in Workers, upsert'[w].pc # "idle"
               PROVE  worker'[w].pc = "save"
    BY DEF Saving
  <1>0. w \notin Hooks  BY ConstantsOK
  <1>1. CASE SaveNext(w)  BY <1>1 DEF SaveNext, WorkerOK
  <1>2. CASE ~SaveNext(w)
    <2>1. upsert[w].pc # "idle"
      <3>1. CASE UNCHANGED upsert  BY <3>1
      <3>2. ASSUME NEW p \in Workers \cup Hooks, CreateParent(p) \/ WriteVector(p)
            PROVE  upsert[w].pc # "idle"
        BY <3>2 DEF CreateParent, WriteVector, NotUpserting, UpsertOK
      <3>3. ASSUME NEW h \in Hooks,
                   \/ HookEmbeds(h) \/ HookFails(h)
                   \/ \E x \in Writers : InsertTags(x, h) \/ InsertFails(x, h)
            PROVE  upsert[w].pc # "idle"
        <4>1. \A p \in (Workers \cup Hooks) \ {h} : upsert'[p] = upsert[p]
          BY <3>3 DEF HookEmbeds, HookFails, InsertTags, InsertFails, UpsertOK
        <4> QED  BY <4>1, <1>0
      <3>4. ASSUME NEW v \in Workers, SaveNext(v) PROVE upsert[w].pc # "idle"
        <4>1. \A p \in (Workers \cup Hooks) \ {v} : upsert'[p] = upsert[p]
          BY <3>4 DEF SaveNext, UpsertOK
        <4> QED  BY <4>1, <1>2, <3>4
      <3> QED
        BY <3>1, <3>2, <3>3, <3>4
        DEF Next, Begin, Continue, Fail, Write, Hook, Work, SaveTags, Invalidate, DropEmbeddings,
            StartBackfill, SetUp, SelectPage, ReadTags, Embedded, PageSaved, Exit, SetUpFails,
            EmbedFails, StopBackfill, vars
    <2>2. worker[w].pc = "save"  BY <2>1 DEF Saving
    <2>3. CASE UNCHANGED worker  BY <2>2, <2>3
    <2>4. ASSUME NEW v \in Workers,
                 \/ StartBackfill(v) \/ SetUp(v) \/ SelectPage(v) \/ ReadTags(v) \/ Embedded(v)
                 \/ PageSaved(v) \/ Exit(v) \/ SetUpFails(v) \/ EmbedFails(v) \/ SaveNext(v)
          PROVE  worker'[w] = worker[w]
      <3>1. v # w
        BY <1>2, <2>1, <2>2, <2>4
        DEF StartBackfill, SetUp, SelectPage, ReadTags, Embedded, PageSaved, Exit, SetUpFails, EmbedFails
      <3>2. CASE StartBackfill(v)  BY <3>1, <3>2 DEF StartBackfill
      <3>3. CASE SetUp(v)  BY <3>1, <3>3 DEF SetUp, WorkerOK
      <3>4. CASE SelectPage(v)  BY <3>1, <3>4 DEF SelectPage, WorkerOK
      <3>5. CASE ReadTags(v) \/ Embedded(v) \/ PageSaved(v) \/ Exit(v) \/ SetUpFails(v)
                 \/ EmbedFails(v) \/ SaveNext(v)
        BY <3>1, <3>5
        DEF ReadTags, Embedded, PageSaved, Exit, SetUpFails, EmbedFails, SaveNext, WorkerOK
      <3> QED  BY <2>4, <3>2, <3>3, <3>4, <3>5
    <2> QED
      BY <2>2, <2>3, <2>4
      DEF Next, Begin, Continue, Fail, Write, Hook, Work, SaveTags, Invalidate, DropEmbeddings,
          InsertTags, InsertFails, HookEmbeds, HookFails, CreateParent, WriteVector, StopBackfill, vars
  <1> QED  BY <1>1, <1>2

\* Nobody is at work where everything is quiet.
LEMMA QuietMeansNobody ==
    ASSUME Quiet PROVE Writing = {} /\ Busy = {} /\ Hooking = {}
  BY DEF Quiet, Writing, Busy, Hooking

LEMMA AloneKept ==
    ASSUME TypeOK, Saving, Alone, [MCNext]_MCVars, scenario.serial
    PROVE  Alone'
  <1>1. ASSUME Writing' \subseteq Writing, Busy' \subseteq Busy, Hooking' \subseteq Hooking
        PROVE  Alone'
    BY <1>1 DEF Alone
  <1>2. CASE Begin /\ Quiet
    <2>0. Writing = {} /\ Busy = {} /\ Hooking = {}  BY <1>2, QuietMeansNobody
    <2>1. ASSUME NEW x \in Writers, NEW i \in Images, SaveTags(x, i) \/ Invalidate(x, i)
          PROVE  Alone'
      <3>1. Busy' = Busy /\ Hooking' = Hooking  BY <2>1 DEF SaveTags, Invalidate, Busy, Hooking
      <3>2. \A y \in Writers \ {x} : writer'[y] = writer[y]
        BY <2>1 DEF SaveTags, Invalidate, WriterOK
      <3>3. Writing' \subseteq {x}  BY <2>0, <3>2 DEF Writing
      <3> QED  BY <2>0, <3>1, <3>3 DEF Alone
    <2>2. ASSUME NEW w \in Workers, StartBackfill(w) PROVE Alone'
      <3>1. Writing' = Writing /\ Hooking' = Hooking  BY <2>2 DEF StartBackfill, Writing, Hooking
      <3>2. Busy' = {w}  BY <2>0, <2>2, BackfillBegins
      <3> QED  BY <2>0, <3>1, <3>2 DEF Alone
    <2> QED  BY <1>2, <2>1, <2>2 DEF Begin
  <1>3. ASSUME NEW x \in Writers, NEW h \in Hooks, InsertTags(x, h) \/ InsertFails(x, h) PROVE Alone'
    <2>1. x \in Writing  BY <1>3 DEF InsertTags, InsertFails, Writing
    <2>2. Writing = {x} /\ Busy = {} /\ Hooking = {}  BY <2>1 DEF Alone
    <2>3. writer'[x].pc = "idle" /\ \A y \in Writers \ {x} : writer'[y] = writer[y]
      BY <1>3 DEF InsertTags, InsertFails, NotWriting, WriterOK
    <2>4. Writing' = {}  BY <2>2, <2>3 DEF Writing
    <2>5. Busy' = {}  BY <1>3, <2>2 DEF InsertTags, InsertFails, Busy
    <2>6. \A g \in Hooks \ {h} : upsert'[g] = upsert[g]  BY <1>3 DEF InsertTags, InsertFails, UpsertOK
    <2>7. Hooking' \subseteq {h}  BY <2>2, <2>6 DEF Hooking
    <2> QED  BY <2>4, <2>5, <2>7 DEF Alone
  <1>4. CASE UNCHANGED vars  BY <1>1, <1>4, InnerNarrows
  <1> QED
    BY <1>1, <1>2, <1>3, <1>4, InnerNarrows DEF MCNext, MCVars, Continue, Fail, Write

\* A goroutine that goes on to write has found its parent row, or made it.
Found ==
    \A p \in Workers \cup Hooks : upsert[p].pc = "write" =>
        \E r \in rows : r.id = upsert[p].row /\ r.image = upsert[p].image
RowIds == \A r, s \in rows : r.id = s.id => r = s

\* What a goroutine has looked up
LEMMA LookedUpFound ==
    ASSUME TypeOK, NEW i \in Images, NEW text, NEW u, u = LookedUp(i, text)
    PROVE  /\ u.image = i /\ u.text = text /\ u.pc \in {"create", "write"}
           /\ u.pc = "write" => \E r \in rows : r.id = u.row /\ r.image = i
           /\ u.pc = "create" => RowsOf(i) = {}
  <1>1. CASE RowsOf(i) = {}  BY <1>1 DEF LookedUp
  <1>2. CASE RowsOf(i) # {}
    <2>1. First(RowsOf(i)) \in RowsOf(i)  BY <1>2, FirstChosen
    <2>2. u = [pc |-> "write", image |-> i, text |-> text, row |-> First(RowsOf(i)).id]
      BY <1>2 DEF LookedUp
    <2>3. First(RowsOf(i)) \in rows /\ First(RowsOf(i)).image = i  BY <2>1 DEF RowsOf
    <2> HIDE DEF RowsOf
    <2> QED  BY <2>2, <2>3
  <1> QED  BY <1>1, <1>2

\* What a step does to the locals of upsertEmbedding in its goroutine
Looks(p) ==
    /\ upsert[p].pc # "idle" \/ p \in Busy
    /\ \E i \in Images, text \in Text : upsert' = [upsert EXCEPT ![p] = LookedUp(i, text)]
    /\ UNCHANGED rows
Forgets(p) ==
    /\ \E pc \in {"idle", "embed"}, i \in Images \cup {0}, text \in Text :
          upsert' = [upsert EXCEPT ![p] = [pc |-> pc, image |-> i, text |-> text, row |-> 0]]
    /\ UNCHANGED rows

LEMMA UpsertMoves ==
    ASSUME TypeOK, [Next]_vars
    PROVE  \/ UNCHANGED <<rows, upsert>>
           \/ \E p \in Workers \cup Hooks :
                 CreateParent(p) \/ WriteVector(p) \/ Looks(p) \/ Forgets(p)
           \/ \E x \in Writers : DropEmbeddings(x)
  <1>1. ASSUME NEW x \in Writers, NEW h \in Hooks, InsertTags(x, h) \/ InsertFails(x, h)
        PROVE  UNCHANGED <<rows, upsert>> \/ Forgets(h)
    <2>1. writer[x].image \in Images /\ {writer[x].list} \in Text
      BY <1>1 DEF InsertTags, InsertFails, WriterOK, Text
    <2> QED  BY <1>1, <2>1 DEF InsertTags, InsertFails, Forgets
  <1>2. ASSUME NEW h \in Hooks, HookEmbeds(h) PROVE Looks(h)
    <2>1. upsert[h].image \in Images /\ upsert[h].text \in Text  BY <1>2 DEF HookEmbeds, UpsertOK
    <2> QED  BY <1>2, <2>1 DEF HookEmbeds, Looks
  <1>3. ASSUME NEW h \in Hooks, HookFails(h) PROVE Forgets(h)
    <2>1. {} \in Text  BY DEF Text
    <2> QED  BY <1>3, <2>1 DEF HookFails, NotUpserting, Forgets
  <1>4. ASSUME NEW w \in Workers, SaveNext(w) PROVE Looks(w)
    <2> DEFINE i == Least(worker[w].page)
    <2>1. i \in Images /\ worker[w].texts[i] \in Text
      BY <1>4, LeastChosen DEF SaveNext, WorkerOK
    <2>2. upsert' = [upsert EXCEPT ![w] = LookedUp(i, worker[w].texts[i])] /\ UNCHANGED rows
      BY <1>4 DEF SaveNext
    <2>3. w \in Busy  BY <1>4 DEF SaveNext, Busy
    <2> HIDE DEF i
    <2> QED  BY <2>1, <2>2, <2>3 DEF Looks
  <1> QED
    BY <1>1, <1>2, <1>3, <1>4
    DEF Next, Begin, Continue, Fail, Write, Hook, Work, SaveTags, Invalidate, StartBackfill, SetUp,
        SelectPage, ReadTags, Embedded, PageSaved, Exit, SetUpFails, EmbedFails, StopBackfill, vars

\* A vector that is written leaves its row's primary key and image.
LEMMA VectoredRow ==
    ASSUME TypeOK, NEW u, NEW r \in rows
    PROVE  /\ Vectored(r, u).id = r.id /\ Vectored(r, u).image = r.image
           /\ r.id = u.row => Vectored(r, u).embedding = u.text
           /\ r.id # u.row => Vectored(r, u) = r
  <1>1. r \in Row  BY DEF DbOK
  <1> QED  BY <1>1 DEF Vectored, Row

LEMMA RowIdsKept == TypeOK /\ RowIds /\ [Next]_vars => RowIds'
  <1> SUFFICES ASSUME TypeOK, RowIds, [Next]_vars PROVE RowIds'  OBVIOUS
  <1>1. CASE UNCHANGED rows  BY <1>1 DEF RowIds
  <1>2. ASSUME NEW p \in Workers \cup Hooks, CreateParent(p) PROVE RowIds'
    <2>1. rows' = rows \cup {[id |-> nextRow, image |-> upsert[p].image, embedding |-> NoEmbedding]}
      BY <1>2 DEF CreateParent
    <2>2. \A r \in rows : r.id \in Nat /\ r.id < nextRow  BY DEF DbOK, Row
    <2>3. \A r \in rows : r.id # nextRow  BY <2>2 DEF DbOK
    <2> QED  BY <2>1, <2>3 DEF RowIds
  <1>3. ASSUME NEW p \in Workers \cup Hooks, WriteVector(p) PROVE RowIds'
    <2>1. rows' = {Vectored(r, upsert[p]) : r \in rows}  BY <1>3 DEF WriteVector
    <2> QED  BY <2>1, VectoredRow DEF RowIds
  <1>4. ASSUME NEW x \in Writers, DropEmbeddings(x) PROVE RowIds'
    BY <1>4 DEF DropEmbeddings, Dropped, RowIds
  <1> QED  BY <1>1, <1>2, <1>3, <1>4, UpsertMoves DEF Looks, Forgets

\* A step that drops no row keeps what the goroutines have found.
LEMMA FoundKept ==
    ASSUME TypeOK, Found, [Next]_vars,
           ~\E x \in Writers : DropEmbeddings(x)
    PROVE  Found'
  <1>0. upsert \in [Workers \cup Hooks -> [pc : {"idle", "embed", "create", "write"},
                                       image : Images \cup {0}, text : Text, row : Nat]]
    BY DEF UpsertOK
  <1>1. CASE UNCHANGED <<rows, upsert>>  BY <1>1 DEF Found
  <1>2. ASSUME NEW p \in Workers \cup Hooks, CreateParent(p) PROVE Found'
    <2> DEFINE new == [id |-> nextRow, image |-> upsert[p].image, embedding |-> NoEmbedding]
    <2>1. rows' = rows \cup {new}  BY <1>2 DEF CreateParent
    <2>2. upsert'[p].row = new.id /\ upsert'[p].image = new.image
      BY <1>0, <1>2 DEF CreateParent
    <2>3. \A q \in (Workers \cup Hooks) \ {p} : upsert'[q] = upsert[q]
      BY <1>0, <1>2 DEF CreateParent
    <2> HIDE DEF new
    <2> QED  BY <2>1, <2>2, <2>3 DEF Found
  <1>3. ASSUME NEW p \in Workers \cup Hooks, WriteVector(p) PROVE Found'
    <2>1. rows' = {Vectored(r, upsert[p]) : r \in rows}  BY <1>3 DEF WriteVector
    <2>2. \A q \in (Workers \cup Hooks) : upsert'[q].pc = "write" => upsert'[q] = upsert[q]
      BY <1>0, <1>3 DEF WriteVector, NotUpserting
    <2> QED  BY <2>1, <2>2, VectoredRow DEF Found
  <1>4. ASSUME NEW p \in Workers \cup Hooks, Looks(p) PROVE Found'
    <2>1. PICK i \in Images, text \in Text : upsert' = [upsert EXCEPT ![p] = LookedUp(i, text)]
      BY <1>4 DEF Looks
    <2>2. upsert'[p] = LookedUp(i, text)  BY <1>0, <2>1
    <2>3. /\ upsert'[p].image = i
          /\ upsert'[p].pc = "write" => \E r \in rows : r.id = upsert'[p].row /\ r.image = i
      BY <2>2, LookedUpFound
    <2>4. \A q \in (Workers \cup Hooks) \ {p} : upsert'[q] = upsert[q]  BY <1>0, <2>1
    <2> QED  BY <1>4, <2>3, <2>4 DEF Looks, Found
  <1>5. ASSUME NEW p \in Workers \cup Hooks, Forgets(p) PROVE Found'
    <2>1. upsert'[p].pc # "write"  BY <1>0, <1>5 DEF Forgets
    <2>2. \A q \in (Workers \cup Hooks) \ {p} : upsert'[q] = upsert[q]  BY <1>0, <1>5 DEF Forgets
    <2> QED  BY <1>5, <2>1, <2>2 DEF Forgets, Found
  <1> QED  BY <1>1, <1>2, <1>3, <1>4, <1>5, UpsertMoves

\* Where operations do not overlap, an image has one row at most, and none when a
\* goroutine is about to insert one.
OneRow ==
    /\ \A r, s \in rows : r.image = s.image => r = s
    /\ \A p \in Workers \cup Hooks : upsert[p].pc = "create" => RowsOf(upsert[p].image) = {}

LEMMA OthersIdle ==
    ASSUME Saving, Alone, NEW p \in Workers \cup Hooks, upsert[p].pc # "idle" \/ p \in Busy
    PROVE  /\ Writing = {}
           /\ \A q \in (Workers \cup Hooks) \ {p} : upsert[q].pc = "idle"
           /\ \A v \in Workers \ {p} : worker[v].pc = "idle"
  <1>1. Workers \cap Hooks = {}  BY ConstantsOK
  <1>2. \A w \in Workers : upsert[w].pc # "idle" => w \in Busy  BY DEF Saving, Busy
  <1>3. p \in Busy \/ p \in Hooking  BY <1>2 DEF Hooking
  <1>4. Writing = {}  BY <1>3 DEF Alone
  <1>5. CASE p \in Busy
    <2>1. Busy = {p} /\ Hooking = {}  BY <1>5 DEF Alone
    <2> QED  BY <1>2, <1>4, <2>1 DEF Hooking, Busy
  <1>6. CASE p \in Hooking
    <2>1. Hooking = {p} /\ Busy = {}  BY <1>6 DEF Alone
    <2> QED  BY <1>2, <1>4, <2>1 DEF Hooking, Busy
  <1> QED  BY <1>3, <1>5, <1>6

\* While a writer is at work, nobody upserts.
LEMMA WriterAlone ==
    ASSUME Saving, Alone, NEW x \in Writing
    PROVE  /\ Writing = {x} /\ Busy = {} /\ Hooking = {}
           /\ \A p \in Workers \cup Hooks : upsert[p].pc = "idle"
  <1>1. Writing = {x} /\ Busy = {} /\ Hooking = {}  BY DEF Alone
  <1> QED  BY <1>1 DEF Saving, Busy, Hooking

LEMMA OneRowKept ==
    ASSUME TypeOK, Saving, Alone, OneRow, [Next]_vars
    PROVE  OneRow'
  <1>0. upsert \in [Workers \cup Hooks -> [pc : {"idle", "embed", "create", "write"},
                                       image : Images \cup {0}, text : Text, row : Nat]]
    BY DEF UpsertOK
  <1>1. CASE UNCHANGED <<rows, upsert>>  BY <1>1 DEF OneRow, RowsOf
  <1>2. ASSUME NEW p \in Workers \cup Hooks, CreateParent(p) PROVE OneRow'
    <2>1. \A q \in (Workers \cup Hooks) \ {p} : upsert[q].pc = "idle"
      BY <1>2, OthersIdle DEF CreateParent
    <2>2. \A q \in Workers \cup Hooks : upsert'[q].pc # "create"
      BY <1>0, <1>2, <2>1 DEF CreateParent
    <2>3. \A r \in rows : r.image # upsert[p].image  BY <1>2 DEF CreateParent, OneRow, RowsOf
    <2>4. rows' = rows \cup {[id |-> nextRow, image |-> upsert[p].image, embedding |-> NoEmbedding]}
      BY <1>2 DEF CreateParent
    <2>5. \A r, s \in rows' : r.image = s.image => r = s  BY <2>3, <2>4 DEF OneRow
    <2> QED  BY <2>2, <2>5 DEF OneRow
  <1>3. ASSUME NEW p \in Workers \cup Hooks, WriteVector(p) PROVE OneRow'
    <2>1. \A q \in (Workers \cup Hooks) \ {p} : upsert[q].pc = "idle"
      BY <1>3, OthersIdle DEF WriteVector
    <2>2. \A q \in Workers \cup Hooks : upsert'[q].pc # "create"
      BY <1>0, <1>3, <2>1 DEF WriteVector, NotUpserting
    <2>3. rows' = {Vectored(r, upsert[p]) : r \in rows}  BY <1>3 DEF WriteVector
    <2>4. \A r, s \in rows' : r.image = s.image => r = s  BY <2>3, VectoredRow DEF OneRow
    <2> QED  BY <2>2, <2>4 DEF OneRow
  <1>4. ASSUME NEW p \in Workers \cup Hooks, Looks(p) PROVE OneRow'
    <2>1. \A q \in (Workers \cup Hooks) \ {p} : upsert[q].pc = "idle"
      BY <1>4, OthersIdle DEF Looks
    <2>2. PICK i \in Images, text \in Text : upsert' = [upsert EXCEPT ![p] = LookedUp(i, text)]
      BY <1>4 DEF Looks
    <2>3. upsert'[p] = LookedUp(i, text)  BY <1>0, <2>2
    <2>4. upsert'[p].image = i /\ (upsert'[p].pc = "create" => RowsOf(i) = {})
      BY <2>3, LookedUpFound
    <2>5. \A q \in (Workers \cup Hooks) \ {p} : upsert'[q].pc = "idle"  BY <1>0, <2>1, <2>2
    <2>6. rows' = rows  BY <1>4 DEF Looks
    <2>7. \A r, s \in rows' : r.image = s.image => r = s  BY <2>6 DEF OneRow
    <2>8. \A q \in Workers \cup Hooks : upsert'[q].pc = "create" =>
                \A r \in rows' : r.image # upsert'[q].image
      BY <2>4, <2>5, <2>6 DEF RowsOf
    <2> QED  BY <2>7, <2>8 DEF OneRow, RowsOf
  <1>5. ASSUME NEW p \in Workers \cup Hooks, Forgets(p) PROVE OneRow'
    <2>1. upsert'[p].pc # "create"  BY <1>0, <1>5 DEF Forgets
    <2>2. \A q \in (Workers \cup Hooks) \ {p} : upsert'[q] = upsert[q]  BY <1>0, <1>5 DEF Forgets
    <2>3. rows' = rows  BY <1>5 DEF Forgets
    <2> QED  BY <2>1, <2>2, <2>3 DEF OneRow, RowsOf
  <1>6. ASSUME NEW x \in Writers, DropEmbeddings(x) PROVE OneRow'
    <2>1. x \in Writing  BY <1>6 DEF DropEmbeddings, Writing
    <2>2. \A p \in Workers \cup Hooks : upsert[p].pc = "idle"  BY <2>1, WriterAlone
    <2>3. upsert' = upsert /\ rows' \subseteq rows  BY <1>6 DEF DropEmbeddings, Dropped
    <2> QED  BY <2>2, <2>3 DEF OneRow
  <1> QED  BY <1>1, <1>2, <1>3, <1>4, <1>5, <1>6, UpsertMoves

LEMMA FoundKeptAlone ==
    ASSUME TypeOK, Saving, Alone, Found, [Next]_vars
    PROVE  Found'
  <1>1. ASSUME NEW x \in Writers, DropEmbeddings(x) PROVE Found'
    <2>1. x \in Writing  BY <1>1 DEF DropEmbeddings, Writing
    <2>2. \A p \in Workers \cup Hooks : upsert[p].pc = "idle"  BY <2>1, WriterAlone
    <2>3. upsert' = upsert  BY <1>1 DEF DropEmbeddings
    <2> QED  BY <2>2, <2>3 DEF Found
  <1> QED  BY <1>1, FoundKept

\* The backfill's own steps leave tags, rows, writers and hooks alone.
LEMMA BackfillKeeps ==
    ASSUME TypeOK,
           \/ \E w \in Workers :
                 \/ StartBackfill(w) \/ SetUp(w) \/ SelectPage(w) \/ ReadTags(w) \/ Embedded(w)
                 \/ SaveNext(w) \/ PageSaved(w) \/ Exit(w) \/ SetUpFails(w) \/ EmbedFails(w)
           \/ StopBackfill \/ UNCHANGED vars
    PROVE  UNCHANGED <<tags, rows, writer>> /\ \A h \in Hooks : upsert'[h] = upsert[h]
  <1>1. UNCHANGED <<tags, rows, writer>>
    BY DEF StartBackfill, SetUp, SelectPage, ReadTags, Embedded, SaveNext, PageSaved, Exit,
        SetUpFails, EmbedFails, StopBackfill, vars
  <1>2. ASSUME NEW w \in Workers, SaveNext(w) PROVE \A h \in Hooks : upsert'[h] = upsert[h]
    <2>1. w \notin Hooks  BY ConstantsOK
    <2> QED  BY <1>2, <2>1 DEF SaveNext, UpsertOK
  <1>3. UNCHANGED upsert \/ \E w \in Workers : SaveNext(w)
    BY DEF StartBackfill, SetUp, SelectPage, ReadTags, Embedded, PageSaved, Exit,
        SetUpFails, EmbedFails, StopBackfill, vars
  <1> QED  BY <1>1, <1>2, <1>3

\* Where operations do not overlap and the service answers, everything that is
\* held between two steps was read from the tags there are ...
Recent ==
    /\ \A x \in Writing : writer[x].pc = "insert" => tags[writer[x].image] = {}
    /\ \A w \in Busy : worker[w].pc \in {"embed", "save"} =>
          \A i \in worker[w].page : worker[w].texts[i] = tags[i]
    /\ \A p \in Workers \cup Hooks :
          upsert[p].pc # "idle" => upsert[p].text = tags[upsert[p].image]

\* ... and a vector is that of its image's tags, unless the image is being
\* written to or upserted by a hook.
Matching ==
    \A r \in rows :
        \/ r.embedding \in {NoEmbedding, tags[r.image]}
        \/ \E x \in Writing : writer[x].image = r.image
        \/ \E h \in Hooking : upsert[h].image = r.image

LEMMA RecentKept ==
    ASSUME TypeOK, Saving, Alone, Recent, [MCNext]_MCVars, scenario.serial, ~scenario.faults
    PROVE  Recent'
  <1>0. upsert \in [Workers \cup Hooks -> [pc : {"idle", "embed", "create", "write"},
                                       image : Images \cup {0}, text : Text, row : Nat]]
    BY DEF UpsertOK
  <1>1. ASSUME NEW x \in Writers, NEW i \in Images, SaveTags(x, i) \/ Invalidate(x, i), Quiet
        PROVE  Recent'
    <2>1. \A y \in Writers \ {x} : writer'[y] = writer[y]
      BY <1>1 DEF SaveTags, Invalidate, WriterOK
    <2>2. UNCHANGED <<worker, upsert>>  BY <1>1 DEF SaveTags, Invalidate
    <2>3. writer'[x].pc = "insert" => tags'[writer'[x].image] = {}
      BY <1>1 DEF SaveTags, Invalidate, WriterOK, DbOK
    <2>4. \A y \in Writers : writer[y].pc = "idle"  BY <1>1 DEF Quiet
    <2>5. (\A w \in Workers : worker[w].pc = "idle") /\ \A p \in Workers \cup Hooks : upsert[p].pc = "idle"
      BY <1>1 DEF Quiet
    <2> QED  BY <2>1, <2>2, <2>3, <2>4, <2>5 DEF Recent, Writing, Busy
  <1>2. ASSUME NEW x \in Writers, NEW h \in Hooks, InsertTags(x, h) PROVE Recent'
    <2>1. x \in Writing  BY <1>2 DEF InsertTags, Writing
    <2>2. /\ Writing = {x} /\ Busy = {}
          /\ \A p \in Workers \cup Hooks : upsert[p].pc = "idle"
      BY <2>1, WriterAlone
    <2>3. writer'[x].pc = "idle" /\ \A y \in Writers \ {x} : writer'[y] = writer[y]
      BY <1>2 DEF InsertTags, NotWriting, WriterOK
    <2>4. Writing' = {} /\ Busy' = {}
      BY <1>2, <2>2, <2>3 DEF InsertTags, Writing, Busy
    <2>5. tags[writer[x].image] = {} /\ writer[x].image \in Images
      BY <1>2, <2>1 DEF Recent, InsertTags, WriterOK
    <2>6. tags'[writer[x].image] = {writer[x].list}  BY <1>2, <2>5 DEF InsertTags, DbOK
    <2>7. upsert'[h].text = {writer[x].list} /\ upsert'[h].image = writer[x].image
      BY <1>0, <1>2 DEF InsertTags
    <2>8. \A q \in (Workers \cup Hooks) \ {h} : upsert'[q] = upsert[q]
      BY <1>0, <1>2 DEF InsertTags
    <2>9. \A p \in Workers \cup Hooks :
             upsert'[p].pc # "idle" => upsert'[p].text = tags'[upsert'[p].image]
      <3>1. \A p \in (Workers \cup Hooks) \ {h} : upsert'[p].pc = "idle"  BY <2>2, <2>8
      <3>2. upsert'[h].text = tags'[upsert'[h].image]  BY <2>6, <2>7
      <3> QED  BY <3>1, <3>2
    <2> QED  BY <2>4, <2>9 DEF Recent
  <1>3. ASSUME UNCHANGED tags,
               \A x \in Writers : writer'[x] = writer[x] \/ writer'[x].pc = "idle",
               \A w \in Workers : worker'[w].pc \in {"embed", "save"} =>
                  \A i \in worker'[w].page : worker'[w].texts[i] = tags[i],
               \A p \in Workers \cup Hooks :
                  upsert'[p].pc # "idle" => upsert'[p].text = tags[upsert'[p].image]
        PROVE  Recent'
    BY <1>3 DEF Recent, Writing, Busy
  <1>4. \A w \in Workers : worker[w].pc \in {"embed", "save"} =>
           \A i \in worker[w].page : worker[w].texts[i] = tags[i]
    BY DEF Recent, Busy
  <1>5. \A p \in Workers \cup Hooks : upsert[p].pc # "idle" => upsert[p].text = tags[upsert[p].image]
    BY DEF Recent
  <1>6. ASSUME NEW x \in Writers, DropEmbeddings(x) PROVE Recent'
    <2>1. \A y \in Writers : writer'[y] = writer[y] \/ writer'[y].pc = "idle"
      BY <1>6 DEF DropEmbeddings, NotWriting, WriterOK
    <2>2. UNCHANGED <<tags, worker, upsert>>  BY <1>6 DEF DropEmbeddings
    <2> QED  BY <1>3, <1>4, <1>5, <2>1, <2>2
  <1>7. ASSUME NEW p \in Workers \cup Hooks, CreateParent(p) \/ WriteVector(p) PROVE Recent'
    <2>1. UNCHANGED <<tags, worker, writer>>  BY <1>7 DEF CreateParent, WriteVector
    <2>2. \A q \in (Workers \cup Hooks) \ {p} : upsert'[q] = upsert[q]
      BY <1>0, <1>7 DEF CreateParent, WriteVector
    <2>3. upsert'[p].pc # "idle" =>
             /\ upsert[p].pc # "idle"
             /\ upsert'[p].text = upsert[p].text /\ upsert'[p].image = upsert[p].image
      BY <1>0, <1>7 DEF CreateParent, WriteVector, NotUpserting
    <2> QED  BY <1>3, <1>4, <1>5, <2>1, <2>2, <2>3
  <1>8. ASSUME NEW h \in Hooks, HookEmbeds(h) \/ HookFails(h) PROVE Recent'
    <2>1. UNCHANGED <<tags, worker, writer>>  BY <1>8 DEF HookEmbeds, HookFails
    <2>2. \A q \in (Workers \cup Hooks) \ {h} : upsert'[q] = upsert[q]
      BY <1>0, <1>8 DEF HookEmbeds, HookFails
    <2>3. CASE HookFails(h)
      <3>1. upsert'[h].pc = "idle"  BY <1>0, <2>3 DEF HookFails, NotUpserting
      <3> QED  BY <1>3, <1>4, <1>5, <2>1, <2>2, <3>1
    <2>4. CASE HookEmbeds(h)
      <3>1. upsert'[h] = LookedUp(upsert[h].image, upsert[h].text) /\ upsert[h].pc # "idle"
        BY <1>0, <2>4 DEF HookEmbeds
      <3>2. upsert[h].image \in Images  BY <3>1 DEF UpsertOK
      <3>3. upsert'[h].image = upsert[h].image /\ upsert'[h].text = upsert[h].text
        BY <3>1, <3>2, LookedUpFound
      <3> QED  BY <1>3, <1>4, <1>5, <2>1, <2>2, <3>1, <3>3
    <2> QED  BY <1>8, <2>3, <2>4
  <1>9. ASSUME NEW w \in Workers, SaveNext(w) PROVE Recent'
    <2> DEFINE i == Least(worker[w].page)
    <2>1. UNCHANGED <<tags, writer>>  BY <1>9 DEF SaveNext
    <2>2. i \in worker[w].page /\ i \in Images  BY <1>9, LeastChosen DEF SaveNext, WorkerOK
    <2>3. upsert' = [upsert EXCEPT ![w] = LookedUp(i, worker[w].texts[i])]  BY <1>9 DEF SaveNext
    <2>4. worker[w].texts[i] = tags[i]  BY <1>4, <1>9, <2>2 DEF SaveNext
    <2>5. \A v \in Workers : /\ worker'[v].pc = worker[v].pc /\ worker'[v].texts = worker[v].texts
                             /\ worker'[v].page \subseteq worker[v].page
      BY <1>9 DEF SaveNext, WorkerOK
    <2> HIDE DEF i
    <2>6. upsert'[w] = LookedUp(i, worker[w].texts[i])  BY <1>0, <2>3
    <2>7. upsert'[w].image = i /\ upsert'[w].text = tags[i]  BY <2>2, <2>4, <2>6, LookedUpFound
    <2>8. \A q \in (Workers \cup Hooks) \ {w} : upsert'[q] = upsert[q]  BY <1>0, <2>3
    <2> QED  BY <1>3, <1>4, <1>5, <2>1, <2>5, <2>7, <2>8
  <1>10. ASSUME NEW w \in Workers,
                \/ StartBackfill(w) \/ SetUp(w) \/ SelectPage(w) \/ ReadTags(w) \/ Embedded(w)
                \/ PageSaved(w) \/ Exit(w) \/ SetUpFails(w) \/ EmbedFails(w)
         PROVE  Recent'
    <2>1. UNCHANGED <<tags, writer, upsert>>
      BY <1>10 DEF StartBackfill, SetUp, SelectPage, ReadTags, Embedded, PageSaved, Exit, SetUpFails,
                   EmbedFails
    <2>2. worker \in [Workers -> WorkerRecord]  BY DEF WorkerOK, WorkerRecord
    <2> DEFINE Kept == /\ worker'[w].pc \in {"embed", "save"} =>
                              \A i \in worker'[w].page : worker'[w].texts[i] = tags[i]
                       /\ \A v \in Workers \ {w} : worker'[v] = worker[v]
    <2>3. ASSUME StartBackfill(w) \/ SetUpFails(w) \/ EmbedFails(w) \/ PageSaved(w) \/ Exit(w) PROVE Kept
      <3>1. worker'[w].pc \notin {"embed", "save"} /\ \A v \in Workers \ {w} : worker'[v] = worker[v]
        <4>1. CASE StartBackfill(w)  BY <2>2, <4>1 DEF StartBackfill, WorkerRecord
        <4>2. CASE SetUpFails(w)  BY <2>2, <4>2 DEF SetUpFails, WorkerRecord
        <4>3. CASE EmbedFails(w)  BY <2>2, <4>3 DEF EmbedFails, WorkerRecord
        <4>4. CASE PageSaved(w)  BY <2>2, <4>4 DEF PageSaved, WorkerRecord
        <4>5. CASE Exit(w)  BY <2>2, <4>5 DEF Exit, NotWorking
        <4> QED  BY <2>3, <4>1, <4>2, <4>3, <4>4, <4>5
      <3> QED  BY <3>1
    <2>4. ASSUME SetUp(w) PROVE Kept
      <3>1. worker'[w].pc \in {"exit", "loop"} /\ \A v \in Workers \ {w} : worker'[v] = worker[v]
        BY <2>2, <2>4 DEF SetUp, WorkerRecord
      <3> QED  BY <3>1
    <2>5. ASSUME SelectPage(w) PROVE Kept
      <3> DEFINE page == Page(After(worker[w].cursor), worker[w].size)
      <3> HIDE DEF page
      <3>1. \/ worker' = [worker EXCEPT ![w] = [worker[w] EXCEPT !.pc = "exit"]]
            \/ worker' = [worker EXCEPT ![w] = [worker[w] EXCEPT !.pc = "read", !.page = page]]
        BY <2>5 DEF SelectPage, page
      <3>2. worker'[w].pc \in {"exit", "read"} /\ \A v \in Workers \ {w} : worker'[v] = worker[v]
        BY <2>2, <3>1 DEF WorkerRecord
      <3> QED  BY <3>2
    <2>6. ASSUME ReadTags(w) PROVE Kept
      <3>1. /\ worker'[w].page = worker[w].page
            /\ worker'[w].texts = [i \in Images |-> IF i \in worker[w].page THEN tags[i] ELSE {}]
            /\ \A v \in Workers \ {w} : worker'[v] = worker[v]
        BY <2>2, <2>6 DEF ReadTags, WorkerRecord
      <3>2. worker[w].page \subseteq Images  BY <2>2 DEF WorkerRecord
      <3> QED  BY <3>1, <3>2
    <2>7. ASSUME Embedded(w) PROVE Kept
      <3>1. /\ worker'[w].page = worker[w].page /\ worker'[w].texts = worker[w].texts
            /\ worker[w].pc = "embed" /\ \A v \in Workers \ {w} : worker'[v] = worker[v]
        BY <2>2, <2>7 DEF Embedded, WorkerRecord
      <3> QED  BY <1>4, <3>1
    <2>8. Kept  BY <1>10, <2>3, <2>4, <2>5, <2>6, <2>7
    <2> QED  BY <1>3, <1>4, <1>5, <2>1, <2>8
  <1>11. CASE UNCHANGED <<tags, worker, writer, upsert>>  BY <1>3, <1>4, <1>5, <1>11
  <1> QED
    BY <1>1, <1>2, <1>6, <1>7, <1>8, <1>9, <1>10, <1>11
    DEF MCNext, MCVars, vars, Begin, Continue, Write, Hook, Work, StopBackfill

LEMMA MatchingKept ==
    ASSUME TypeOK, Saving, Alone, Found, RowIds, OneRow, Recent, Matching,
           [MCNext]_MCVars, scenario.serial, ~scenario.faults
    PROVE  Matching'
  <1>0. upsert \in [Workers \cup Hooks -> [pc : {"idle", "embed", "create", "write"},
                                       image : Images \cup {0}, text : Text, row : Nat]]
    BY DEF UpsertOK
  <1>1. ASSUME NEW x \in Writers, NEW i \in Images, SaveTags(x, i) \/ Invalidate(x, i), Quiet
        PROVE  Matching'
    <2>1. \A r \in rows : r.embedding \in {NoEmbedding, tags[r.image]}
      BY <1>1, QuietMeansNobody DEF Matching
    <2>2. rows' = rows /\ \A j \in Images \ {i} : tags'[j] = tags[j]
      BY <1>1 DEF SaveTags, Invalidate, DbOK
    <2>3. writer'[x].image = i /\ x \in Writing'
      BY <1>1 DEF SaveTags, Invalidate, WriterOK, Writing
    <2>4. \A r \in rows : r.image \in Images  BY DEF DbOK, Row
    <2> QED  BY <2>1, <2>2, <2>3, <2>4 DEF Matching
  <1>2. ASSUME NEW x \in Writers, NEW h \in Hooks, InsertTags(x, h) PROVE Matching'
    <2>1. x \in Writing  BY <1>2 DEF InsertTags, Writing
    <2>2. Writing = {x} /\ Hooking = {}  BY <2>1, WriterAlone
    <2>3. \A r \in rows : r.embedding \in {NoEmbedding, tags[r.image]} \/ r.image = writer[x].image
      BY <2>2 DEF Matching
    <2>4. h \in Hooking' /\ upsert'[h].image = writer[x].image
      BY <1>0, <1>2 DEF InsertTags, Hooking
    <2>5. rows' = rows /\ \A j \in Images : j # writer[x].image => tags'[j] = tags[j]
      BY <1>2 DEF InsertTags, DbOK
    <2>6. \A r \in rows : r.image \in Images  BY DEF DbOK, Row
    <2> QED  BY <2>3, <2>4, <2>5, <2>6 DEF Matching
  <1>3. ASSUME NEW x \in Writers, DropEmbeddings(x) PROVE Matching'
    <2>1. x \in Writing  BY <1>3 DEF DropEmbeddings, Writing
    <2>2. Writing = {x} /\ Hooking = {}  BY <2>1, WriterAlone
    <2>3. \A r \in rows : r.embedding \in {NoEmbedding, tags[r.image]} \/ r.image = writer[x].image
      BY <2>2 DEF Matching
    <2>4. tags' = tags /\ \A r \in rows' : r \in rows /\ r.image # writer[x].image
      BY <1>3 DEF DropEmbeddings, Dropped, RowsOf
    <2> QED  BY <2>3, <2>4 DEF Matching
  <1>4. ASSUME NEW p \in Workers \cup Hooks, CreateParent(p) PROVE Matching'
    <2>1. UNCHANGED <<tags, writer>>  BY <1>4 DEF CreateParent
    <2>2. rows' = rows \cup {[id |-> nextRow, image |-> upsert[p].image, embedding |-> NoEmbedding]}
      BY <1>4 DEF CreateParent
    <2>3. \A h \in Hooking : h \in Hooking' /\ upsert'[h].image = upsert[h].image
      BY <1>0, <1>4 DEF CreateParent, Hooking
    <2>4. Writing' = Writing  BY <2>1 DEF Writing
    <2> QED  BY <2>1, <2>2, <2>3, <2>4 DEF Matching
  <1>5. ASSUME NEW p \in Workers \cup Hooks, WriteVector(p) PROVE Matching'
    <2>1. UNCHANGED tags /\ rows' = {Vectored(r, upsert[p]) : r \in rows}  BY <1>5 DEF WriteVector
    <2>2. upsert[p].text = tags[upsert[p].image]  BY <1>5 DEF WriteVector, Recent
    <2>3. PICK r0 \in rows : r0.id = upsert[p].row /\ r0.image = upsert[p].image
      BY <1>5 DEF WriteVector, Found
    <2>4. Writing = {} /\ \A q \in (Workers \cup Hooks) \ {p} : upsert[q].pc = "idle"
      BY <1>5, OthersIdle DEF WriteVector
    <2>5. ASSUME NEW r \in rows
          PROVE  Vectored(r, upsert[p]).embedding \in {NoEmbedding, tags[Vectored(r, upsert[p]).image]}
      <3>1. CASE r.id = upsert[p].row
        <4>1. r = r0  BY <2>3, <3>1 DEF RowIds
        <4> QED  BY <2>2, <2>3, <3>1, <4>1, VectoredRow
      <3>2. CASE r.id # upsert[p].row
        <4>1. r.image # upsert[p].image  BY <2>3, <3>2 DEF OneRow
        <4>2. ~\E h \in Hooking : upsert[h].image = r.image  BY <2>4, <4>1 DEF Hooking
        <4>3. r.embedding \in {NoEmbedding, tags[r.image]}  BY <2>4, <4>2 DEF Matching
        <4> QED  BY <3>2, <4>3, VectoredRow
      <3> QED  BY <3>1, <3>2
    <2> QED  BY <2>1, <2>5 DEF Matching
  <1>6. ASSUME NEW h \in Hooks, HookEmbeds(h) PROVE Matching'
    <2>1. UNCHANGED <<tags, rows, writer>>  BY <1>6 DEF HookEmbeds
    <2>2. upsert'[h] = LookedUp(upsert[h].image, upsert[h].text) /\ upsert[h].pc # "idle"
      BY <1>0, <1>6 DEF HookEmbeds
    <2>3. upsert[h].image \in Images  BY <2>2 DEF UpsertOK
    <2>4. upsert'[h].image = upsert[h].image /\ upsert'[h].pc # "idle"
      BY <2>2, <2>3, LookedUpFound
    <2>5. \A g \in Hooks \ {h} : upsert'[g] = upsert[g]  BY <1>0, <1>6 DEF HookEmbeds
    <2>6. \A g \in Hooking : g \in Hooking' /\ upsert'[g].image = upsert[g].image
      BY <2>4, <2>5 DEF Hooking
    <2> QED  BY <2>1, <2>6 DEF Matching, Writing
  <1>7. CASE UNCHANGED <<tags, rows, writer>> /\ \A h \in Hooks : upsert'[h] = upsert[h]
    BY <1>7 DEF Matching, Writing, Hooking
  <1> QED
    BY <1>1, <1>2, <1>3, <1>4, <1>5, <1>6, <1>7, BackfillKeeps
    DEF MCNext, MCVars, Begin, Continue, Write, Hook, Work

\* Where the service answers and no file changes, a tagged image has a vector, or a
\* hook that will upsert it.
Reached ==
    \A i \in Images : tags[i] # {} =>
        \/ \E r \in RowsOf(i) : r.embedding # NoEmbedding
        \/ \E h \in Hooking : upsert[h].image = i
NoneInvalid == \A x \in Writers : writer[x].pc # "unembed"

LEMMA NoneInvalidKept ==
    ASSUME TypeOK, NoneInvalid, [MCNext]_MCVars, ~scenario.invalidate
    PROVE  NoneInvalid'
  <1>1. CASE Begin /\ \A x \in Writers : writer'[x].pc # "unembed"  BY <1>1 DEF NoneInvalid
  <1>2. ASSUME NEW x \in Writers, NEW h \in Hooks, InsertTags(x, h) \/ InsertFails(x, h)
        PROVE  NoneInvalid'
    BY <1>2 DEF InsertTags, InsertFails, NotWriting, WriterOK, NoneInvalid
  <1>3. ASSUME NEW x \in Writers, DropEmbeddings(x) PROVE NoneInvalid'
    BY <1>3 DEF DropEmbeddings, NoneInvalid
  <1>4. CASE UNCHANGED writer  BY <1>4 DEF NoneInvalid
  <1>5. ASSUME NEW p \in Workers \cup Hooks, CreateParent(p) \/ WriteVector(p) PROVE UNCHANGED writer
    BY <1>5 DEF CreateParent, WriteVector
  <1>6. ASSUME NEW h \in Hooks, HookEmbeds(h) \/ HookFails(h) PROVE UNCHANGED writer
    BY <1>6 DEF HookEmbeds, HookFails
  <1> QED
    BY <1>1, <1>2, <1>3, <1>4, <1>5, <1>6, BackfillKeeps
    DEF MCNext, MCVars, Continue, Fail, Write, Hook, Work

LEMMA ReachedKept ==
    ASSUME TypeOK, Found, NoneInvalid, Reached, [MCNext]_MCVars,
           ~scenario.faults, ~scenario.invalidate
    PROVE  Reached'
  <1>0. upsert \in [Workers \cup Hooks -> [pc : {"idle", "embed", "create", "write"},
                                       image : Images \cup {0}, text : Text, row : Nat]]
    BY DEF UpsertOK
  <1>1. ASSUME NEW x \in Writers, NEW i \in Images, SaveTags(x, i) \/ Invalidate(x, i)
        PROVE  Reached'
    <2>1. tags'[i] = {} /\ \A j \in Images \ {i} : tags'[j] = tags[j]
      BY <1>1 DEF SaveTags, Invalidate, DbOK
    <2>2. UNCHANGED <<rows, upsert>>  BY <1>1 DEF SaveTags, Invalidate
    <2> QED  BY <2>1, <2>2 DEF Reached, RowsOf, Hooking
  <1>2. ASSUME NEW x \in Writers, NEW h \in Hooks, InsertTags(x, h) PROVE Reached'
    <2>1. rows' = rows /\ \A j \in Images : j # writer[x].image => tags'[j] = tags[j]
      BY <1>2 DEF InsertTags, DbOK
    <2>2. upsert[h].pc = "idle" /\ upsert'[h].image = writer[x].image /\ h \in Hooking'
      BY <1>0, <1>2 DEF InsertTags, Hooking
    <2>3. \A g \in Hooks \ {h} : upsert'[g] = upsert[g]  BY <1>0, <1>2 DEF InsertTags
    <2>4. \A g \in Hooking : g \in Hooking' /\ upsert'[g].image = upsert[g].image
      BY <2>2, <2>3 DEF Hooking
    <2> QED  BY <2>1, <2>2, <2>4 DEF Reached, RowsOf
  <1>3. ASSUME NEW x \in Writers, DropEmbeddings(x) PROVE FALSE
    BY <1>3 DEF DropEmbeddings, NoneInvalid
  <1>4. ASSUME NEW p \in Workers \cup Hooks, CreateParent(p) PROVE Reached'
    <2>1. tags' = tags /\ rows \subseteq rows'  BY <1>4 DEF CreateParent
    <2>2. \A h \in Hooking : h \in Hooking' /\ upsert'[h].image = upsert[h].image
      BY <1>0, <1>4 DEF CreateParent, Hooking
    <2> QED  BY <2>1, <2>2 DEF Reached, RowsOf
  <1>5. ASSUME NEW p \in Workers \cup Hooks, WriteVector(p) PROVE Reached'
    <2>1. UNCHANGED tags /\ rows' = {Vectored(r, upsert[p]) : r \in rows}  BY <1>5 DEF WriteVector
    <2>2. upsert[p].text # NoEmbedding
      <3>1. upsert[p].text \in Text  BY <1>0
      <3> QED  BY <3>1 DEF Text, NoEmbedding
    <2>3. PICK r0 \in rows : r0.id = upsert[p].row /\ r0.image = upsert[p].image
      BY <1>5 DEF WriteVector, Found
    <2>4. ASSUME NEW r \in rows, r.embedding # NoEmbedding
          PROVE  Vectored(r, upsert[p]).embedding # NoEmbedding
      BY <2>2, <2>4, VectoredRow
    <2>5. \A r \in rows : Vectored(r, upsert[p]) \in rows' /\ Vectored(r, upsert[p]).image = r.image
      BY <2>1, VectoredRow
    <2>6. Vectored(r0, upsert[p]).embedding # NoEmbedding
      BY <2>2, <2>3, VectoredRow
    <2>7. \A g \in Hooks \ {p} : upsert'[g] = upsert[g]  BY <1>0, <1>5 DEF WriteVector
    <2>8. ASSUME NEW i \in Images, tags[i] # {}
          PROVE  \/ \E r \in rows' : r.image = i /\ r.embedding # NoEmbedding
                 \/ \E h \in Hooking' : upsert'[h].image = i
      <3>1. CASE \E r \in RowsOf(i) : r.embedding # NoEmbedding  BY <3>1, <2>4, <2>5 DEF RowsOf
      <3>2. CASE i = upsert[p].image  BY <3>2, <2>3, <2>5, <2>6
      <3>3. CASE \E h \in Hooking \ {p} : upsert[h].image = i  BY <3>3, <2>7 DEF Hooking
      <3> QED  BY <2>8, <3>1, <3>2, <3>3 DEF Reached
    <2> QED  BY <2>1, <2>8 DEF Reached, RowsOf
  <1>6. ASSUME NEW h \in Hooks, HookEmbeds(h) PROVE Reached'
    <2>1. UNCHANGED <<tags, rows>>  BY <1>6 DEF HookEmbeds
    <2>2. upsert'[h] = LookedUp(upsert[h].image, upsert[h].text) /\ upsert[h].pc # "idle"
      BY <1>0, <1>6 DEF HookEmbeds
    <2>3. upsert[h].image \in Images  BY <2>2 DEF UpsertOK
    <2>4. upsert'[h].image = upsert[h].image /\ upsert'[h].pc # "idle"
      BY <2>2, <2>3, LookedUpFound
    <2>5. \A g \in Hooks \ {h} : upsert'[g] = upsert[g]  BY <1>0, <1>6 DEF HookEmbeds
    <2>6. \A g \in Hooking : g \in Hooking' /\ upsert'[g].image = upsert[g].image
      BY <2>4, <2>5 DEF Hooking
    <2> QED  BY <2>1, <2>6 DEF Reached, RowsOf
  <1>7. CASE UNCHANGED <<tags, rows, writer>> /\ \A h \in Hooks : upsert'[h] = upsert[h]
    BY <1>7 DEF Reached, RowsOf, Hooking
  <1> QED
    BY <1>1, <1>2, <1>3, <1>4, <1>5, <1>6, <1>7, BackfillKeeps
    DEF MCNext, MCVars, Begin, Continue, Write, Hook, Work

SoundInv ==
    /\ TypeOK /\ Saving /\ RowIds /\ scenario \in Scenarios
    /\ scenario.serial => Alone /\ Found /\ OneRow
    /\ scenario.serial /\ ~scenario.faults => Recent /\ Matching
    /\ ~scenario.invalidate => NoneInvalid /\ Found
    /\ ~scenario.faults /\ ~scenario.invalidate => Reached

LEMMA SoundInvImplies == SoundInv => EmbeddingsAreSound
  <1> SUFFICES ASSUME SoundInv PROVE EmbeddingsAreSound  OBVIOUS
  <1>1. ASSUME scenario.serial PROVE OneEmbeddingPerImage
    <2> SUFFICES ASSUME NEW i \in Images
                 PROVE  Cardinality({r \in RowsOf(i) : r.embedding # NoEmbedding}) <= 1
      BY DEF OneEmbeddingPerImage
    <2> DEFINE S == {r \in RowsOf(i) : r.embedding # NoEmbedding}
    <2>1. \A r, s \in S : r = s  BY <1>1 DEF SoundInv, OneRow, RowsOf
    <2>2. CASE S = {}  BY <2>2, FS_EmptySet
    <2>3. CASE S # {}
      <3>1. PICK r \in S : TRUE  BY <2>3
      <3>2. S = {r}  BY <2>1, <3>1
      <3>3. Cardinality({r}) = 1  BY FS_Singleton
      <3> QED  BY <3>2, <3>3
    <2> QED  BY <2>2, <2>3
  <1>2. ASSUME scenario.serial, ~scenario.faults PROVE EmbeddingMatchesTags
    BY <1>2, QuietMeansNobody DEF SoundInv, Matching, EmbeddingMatchesTags
  <1>3. ASSUME ~scenario.faults, ~scenario.invalidate PROVE TaggedIsEmbedded
    BY <1>3, QuietMeansNobody DEF SoundInv, Reached, TaggedIsEmbedded
  <1> QED  BY <1>1, <1>2, <1>3 DEF EmbeddingsAreSound

\* In every scenario: one vector for an image when operations do not overlap, and
\* if the service answers, that of its tags; if it answers and no file changes,
\* one for every tagged image (upsertEmbedding, SaveImageTags,
\* InvalidateTagsAndEmbeddings, GenerateAndSaveEmbedding).
THEOREM EmbeddingsStaySound == MCSpec => []EmbeddingsAreSound
<1>1. MCInit => SoundInv
  <2> SUFFICES ASSUME MCInit PROVE SoundInv  OBVIOUS
  <2>0. Init /\ scenario \in Scenarios  BY DEF MCInit
  <2>1. Saving /\ Alone /\ Found  BY <2>0 DEF Init, NotUpserting, NotWriting, NotWorking,
                                              Saving, Alone, Writing, Busy, Hooking, Found
  <2>2. RowIds /\ OneRow  BY <2>0 DEF Init, NotUpserting, RowIds, OneRow
  <2>3. Recent  BY <2>0 DEF Init, NotUpserting, NotWriting, NotWorking, Recent, Writing, Busy
  <2>4. Matching /\ Reached /\ NoneInvalid
    BY <2>0 DEF Init, NotWriting, Matching, Reached, NoneInvalid
  <2> QED  BY <2>0, <2>1, <2>2, <2>3, <2>4, InitTyped DEF SoundInv
<1>2. SoundInv /\ [MCNext]_MCVars => SoundInv'
  <2> SUFFICES ASSUME SoundInv, [MCNext]_MCVars PROVE SoundInv'  OBVIOUS
  <2>1. TypeOK /\ Saving /\ RowIds /\ [Next]_vars
    BY DEF SoundInv, MCNext, MCVars, Next, vars
  <2>2. UNCHANGED scenario  BY DEF MCNext, MCVars
  <2>3. TypeOK' /\ Saving' /\ RowIds'  BY <2>1, StepTyped, SavingKept, RowIdsKept
  <2>4. ASSUME scenario.serial PROVE Alone' /\ Found' /\ OneRow'
    BY <2>1, <2>4, AloneKept, FoundKeptAlone, OneRowKept DEF SoundInv
  <2>5. ASSUME scenario.serial, ~scenario.faults PROVE Recent' /\ Matching'
    BY <2>1, <2>5, RecentKept, MatchingKept DEF SoundInv
  <2>6. ASSUME ~scenario.invalidate PROVE NoneInvalid' /\ Found'
    <3>1. ~\E x \in Writers : DropEmbeddings(x)
      BY <2>6 DEF SoundInv, NoneInvalid, DropEmbeddings
    <3> QED  BY <2>1, <2>6, <3>1, NoneInvalidKept, FoundKept DEF SoundInv
  <2>7. ASSUME ~scenario.faults, ~scenario.invalidate PROVE Reached'
    BY <2>7, ReachedKept DEF SoundInv
  <2>8. scenario \in Scenarios  BY DEF SoundInv
  <2> QED  BY <2>2, <2>3, <2>4, <2>5, <2>6, <2>7, <2>8 DEF SoundInv
<1> QED  BY <1>1, <1>2, SoundInvImplies, PTL DEF MCSpec
===============================================================================
