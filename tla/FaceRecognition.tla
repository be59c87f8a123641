---------------------------- MODULE FaceRecognition ----------------------------
(***************************************************************************)
(* The face recognition job (application/faces/manager.go, reconcile.go):  *)
(* a loop of passes.  A pass has the new photos analysed by the faces      *)
(* service, assigns the faces to the people it knows by their exemplars,   *)
(* has the rest clustered by the service into new people, merges the       *)
(* people of an older clustering generation, and refreshes the covers.     *)
(*                                                                         *)
(* Users edit the catalogue meanwhile.  Statements of the job between two  *)
(* calls of the service are few steps: what one reads and the next writes, *)
(* and the order in which a crash may cut them, is kept.                   *)
(***************************************************************************)
EXTENDS PeopleCatalog, BackgroundManager

CONSTANTS
    Loops,             \* calls of Start that succeed
    BatchSize,         \* photos in one request to the service
    BatchConcurrency,  \* requests in flight
    ClusterSize,       \* minClusterSize
    RecognitionFloor, AssignFloor, Margin, MergeFloor, SupportFloor, MergeSupport,
                       \* the thresholds that the faces service reports
    CentreGain,        \* what a cluster's centre is closer to others than its members
    MergeFacesMin,     \* reconcileMaxFacesMin
    MaxRestarts, MaxStops, MaxTouches \* bounds: restarts, stops, photos changed

ASSUME JobOK ==
    /\ Loops \subseteq Nat
    /\ {BatchSize, BatchConcurrency, ClusterSize, RecognitionFloor, AssignFloor,
        Margin} \subseteq Nat \ {0}
    /\ {MergeFloor, SupportFloor, MergeSupport, CentreGain, MergeFacesMin,
        MaxRestarts, MaxStops, MaxTouches} \subseteq Nat

\* Of what the service's clustering does with looks that are not, nothing is said.
ASSUME LooksAreClasses ==
    \A d, e, h \in Detections :
        Similarity[d][e] >= MergeFloor /\ Similarity[e][h] >= MergeFloor
            => Similarity[d][h] >= MergeFloor

VARIABLES
    mode,       \* the clustering strategy, which the process was started with
    mgr,        \* the background.Manager
    pending,    \* clusterPending
    recluster,  \* reclusterAll
    job,        \* what each scheduleLoop holds
    used        \* history: how much of the bounds is used, and "cut": who was
                \* deleted, but not yet their exemplars, when the process was killed

control == <<mode, mgr, pending, recluster>>
recognitionVars == <<tables, catalogVars, control, job, used>>

-------------------------------------------------------------------------------
(* What a loop holds.  "order" is a person and the faces to be given to it.*)

NoJob == [pc |-> "idle", stop |-> 0, cursor |-> 0, exhausted |-> FALSE,
          flights |-> {}, toApply |-> <<>>, sized |-> FALSE, solo |-> {},
          members |-> {}, known |-> << >>, near |-> << >>, orders |-> {},
          clusters |-> {}, newcomer |-> Nobody, merges |-> {}, covers |-> << >>,
          back |-> "none"]

JobInit ==
    /\ mode \in {"store", "memory"}
    /\ mgr = NewManager
    /\ pending = TRUE
    /\ recluster \in BOOLEAN
    /\ job = [w \in Loops |-> NoJob]
    /\ used = [restarts |-> 0, stops |-> 0, changes |-> 0, cut |-> {}]

RecognitionInit == EmptyTables /\ NoRequests /\ JobInit

Unscanned == Images \ scanned
Stopped(w) == IsClosed(mgr, job[w].stop)
At(w, label) == job[w].pc = label
Goes(w, label) == job' = [job EXCEPT ![w].pc = label]

\* The tables and the rest of the state that a step of the job leaves alone
KeepsTables == UNCHANGED tables
KeepsControl == UNCHANGED <<catalogVars, control, used>>

-------------------------------------------------------------------------------
(* Start, the loop and the beginning of a pass *)

Start(w) ==
    /\ At(w, "idle")
    /\ MayStart(mgr)
    /\ mgr' = Started(mgr)
    /\ Goes(w, "loop")
    /\ UNCHANGED <<tables, catalogVars, mode, pending, recluster, used>>

StopRecognition ==
    /\ used.stops < MaxStops
    /\ mgr.running
    /\ mgr' = Stop(mgr)
    /\ used' = [used EXCEPT !.stops = @ + 1]
    /\ UNCHANGED <<tables, catalogVars, mode, pending, recluster, job>>

\* mutant: new photos alone do not make a pass owe a clustering
OwedAlready == pending
Owes == pending \/ Unscanned # {}

\* The window is open: the loop takes the manager's channel of the moment, and
\* the pass counts the photos it has to analyse.
BeginPass(w) ==
    /\ At(w, "loop")
    /\ LET next == IF recluster /\ Unscanned = {} THEN "reset"
                   ELSE IF pending \/ Unscanned # {} THEN "analyse" ELSE "wait"
       IN  job' = [job EXCEPT ![w] = [NoJob EXCEPT !.pc = next, !.stop = Done(mgr)]]
    /\ pending' = Owes
    /\ recluster' = (recluster /\ Unscanned # {})
    /\ UNCHANGED <<tables, catalogVars, mode, mgr, used>>

\* Thirty seconds later, or on a new schedule
Again(w) ==
    /\ At(w, "wait")
    /\ ~Stopped(w)
    /\ Goes(w, "loop")
    /\ KeepsTables /\ KeepsControl

\* The loop ends where it waits, and a pass where it looks at the channel; the
\* manager is not told.
Leave(w) ==
    /\ At(w, "wait")
    /\ Stopped(w)
    /\ job' = [job EXCEPT ![w] = NoJob]
    /\ KeepsTables /\ KeepsControl

-------------------------------------------------------------------------------
(* resetGeneratedPeople and detachTooSmallFaces *)

\* mutant: faces that a user assigned to a generated person stay with them
LooseOfGenerated == {f \in UNION {FacesOf(p) : p \in Generated} : ~faces[f].manual}

\* Also the faces that a user assigned to a generated person
OfGenerated == UNION {FacesOf(p) : p \in Generated}

ResetFaces(w) ==
    /\ At(w, "reset")
    /\ faces' = Assigned(OfGenerated, Nobody)
    /\ Goes(w, "resetReferences")
    /\ UNCHANGED <<scanned, shows, people, references, nextPerson>>
    /\ KeepsControl

\* ... and those an interrupted reset has left
Outlived == Generated \cup (PersonIds \ DOMAIN people)

ResetReferences(w) ==
    /\ At(w, "resetReferences")
    /\ references' = [p \in PersonIds |-> IF p \in Outlived THEN <<>> ELSE references[p]]
    /\ Goes(w, "resetPeople")
    /\ UNCHANGED <<scanned, shows, faces, people, nextPerson>>
    /\ KeepsControl

ResetPeople(w) ==
    /\ At(w, "resetPeople")
    /\ people' = Without(people, Generated)
    /\ Goes(w, "detach")
    /\ UNCHANGED <<scanned, shows, faces, references, nextPerson>>
    /\ KeepsControl

Small(f) == SizeOf[shows[f]] = "small"
DetachedFaces ==
    {f \in DOMAIN faces : faces[f].person # Nobody /\ ~faces[f].manual /\ Small(f)}

\* rebuildReferences of a person from the faces they have
Rebuilt(p, solo) == IF FacesOf(p) = {} THEN <<>> ELSE ExemplarsOf(FacesOf(p), solo, TRUE)

\* Without the service's thresholds nothing is detached.
Detach(w, reports) ==
    /\ At(w, "detach")
    /\ LET F == IF reports THEN DetachedFaces ELSE {} IN
       /\ faces' = Assigned(F, Nobody)
       /\ job' = [job EXCEPT
              ![w].pc = IF F = {} THEN "analyse" ELSE "rebuild",
              ![w].members = {faces[f].person : f \in F}]
    /\ UNCHANGED <<scanned, shows, people, references, nextPerson>>
    /\ KeepsControl

RebuildDetached(w) ==
    /\ At(w, "rebuild")
    /\ references' = [p \in PersonIds |->
           IF p \in job[w].members THEN Rebuilt(p, SoloPhotos) ELSE references[p]]
    /\ job' = [job EXCEPT ![w].pc = "covers", ![w].back = "analyse", ![w].members = {},
                          ![w].solo = SoloPhotos]
    /\ UNCHANGED <<scanned, shows, faces, people, nextPerson>>
    /\ KeepsControl

-------------------------------------------------------------------------------
(* Analysis: the collector, the dispatchers, and the loop over outcomes *)

Ahead(w) == {i \in Unscanned : i > job[w].cursor}
FirstPhotos(S) == {i \in S : Cardinality({j \in S : j < i}) < BatchSize}

\* collectBatches and dispatchBatch: the photos after the cursor that can be
\* read make up the next request.  The thread of a dispatcher is free again
\* when its outcome has been taken.
Dispatch(w, unreadable) ==
    /\ At(w, "analyse") /\ ~Stopped(w) /\ ~job[w].exhausted
    /\ Cardinality(job[w].flights) < BatchConcurrency
    /\ unreadable \subseteq Ahead(w)
    /\ LET batch == FirstPhotos(Ahead(w) \ unreadable)
           seen == {i \in Ahead(w) : \A j \in batch : i <= j} \cup batch
           last == Cardinality(batch) < BatchSize
       IN  job' = [job EXCEPT ![w].exhausted = last,
                              ![w].cursor = IF last THEN @ ELSE Max(batch),
                              ![w].flights = @ \cup ({batch} \ {{}})]
    /\ KeepsTables /\ KeepsControl

\* A request fails as a whole: its photos are left for the next pass.
RequestFails(w) ==
    /\ At(w, "analyse")
    /\ \E batch \in job[w].flights : job' = [job EXCEPT ![w].flights = @ \ {batch}]
    /\ KeepsTables /\ KeepsControl

\* The answer to one request is taken, unless an answer is being applied; after
\* a stop too, until the pass's context has heard of it.
Outcome(w, undecodable) ==
    /\ At(w, "analyse")
    /\ job[w].toApply = <<>>
    /\ \E batch \in job[w].flights :
         job' = [job EXCEPT ![w].flights = @ \ {batch},
                    ![w].toApply = SetToSortSeq({[photo |-> i, broken |-> i \in undecodable] :
                                        i \in batch}, LAMBDA a, b : a.photo < b.photo)]
    /\ KeepsTables /\ KeepsControl

\* What there is to detect in a photo, in order
ToSee(i) ==
    LET there == {d \in Detections : PhotoOf[d] = i}
    IN  [n \in 1 .. Cardinality(there) |->
            CHOOSE d \in there : Cardinality({e \in there : e <= d}) = n]

Replaced(i) == DOMAIN faces \ FacesOfPhoto(i)

\* replaceFaces: the old rows go, whoever has assigned them, and new ones come.
\* A photo the service cannot decode, or whose faces the database does not
\* delete, counts as scanned and keeps its faces.
Apply(w) ==
    /\ At(w, "analyse") /\ job[w].toApply # <<>>
    /\ LET entry == Head(job[w].toApply)
           new == IF entry.broken THEN <<>> ELSE ToSee(entry.photo)
           kept == IF entry.broken THEN DOMAIN faces ELSE Replaced(entry.photo)
           n == Len(shows)
       IN  /\ n + Len(new) <= MaxFace
           /\ shows' = shows \o new
           /\ faces' = [f \in kept \cup (n + 1 .. n + Len(new)) |->
                  IF f <= n THEN faces[f] ELSE [person |-> Nobody, manual |-> FALSE]]
           /\ job' = [job EXCEPT ![w].pc = "mark"]
    /\ UNCHANGED <<scanned, people, references, nextPerson>>
    /\ KeepsControl

MarkScanned(w) ==
    /\ At(w, "mark")
    /\ scanned' = scanned \cup {Head(job[w].toApply).photo}
    /\ job' = [job EXCEPT ![w].pc = "analyse", ![w].toApply = Tail(@)]
    /\ UNCHANGED <<shows, faces, people, references, nextPerson>>
    /\ KeepsControl

\* A stop abandons what is in flight and, after the answer in hand, the pass.
AbandonPass(w) ==
    /\ At(w, "analyse") /\ Stopped(w) /\ job[w].toApply = <<>>
    /\ job' = [job EXCEPT ![w].pc = "wait", ![w].flights = {}]
    /\ KeepsTables /\ KeepsControl

Analysed(w) ==
    /\ At(w, "analyse") /\ ~Stopped(w)
    /\ job[w].exhausted /\ job[w].flights = {} /\ job[w].toApply = <<>>
    /\ job' = [job EXCEPT ![w].pc = "cluster", ![w].solo = SoloPhotos]
    /\ KeepsTables /\ KeepsControl

-------------------------------------------------------------------------------
(* clusterAssign, step 1: faces of people who are known *)

Loose == {f \in FacesOf(Nobody) : ~faces[f].manual}

\* The faces to deal with and, in store mode, the people of their neighbours.
\* Without an answer of the store everybody is a candidate; without thresholds
\* no face is too small, and none is compared with anybody's exemplars.
Snapshot(w, reports, answers) ==
    /\ At(w, "cluster")
    /\ LET F == {f \in Loose : reports => ~Small(f)}
           near(f) == {faces[g].person : g \in
                          {h \in DOMAIN faces \ {f} : Alike(f, h) >= RecognitionFloor}} \ {Nobody}
           next == IF Stopped(w) \/ F = {} THEN "reconcile" ELSE "match"
       IN  job' = [job EXCEPT ![w].pc = next, ![w].members = F, ![w].sized = reports,
                      ![w].known = IF reports THEN references ELSE [p \in PersonIds |-> <<>>],
                      ![w].near = [f \in F |-> 
                          IF mode = "store" /\ answers THEN near(f) ELSE PersonIds]]
    /\ KeepsTables /\ KeepsControl

\* Who stands out by the score that each candidate has, if anybody does
StandsOut(score) ==
    {p \in DOMAIN score : /\ score[p] >= AssignFloor
                          /\ \A q \in DOMAIN score \ {p} : score[p] - score[q] >= Margin}

\* assignKnownPeople: a face is somebody's if their exemplars are close to it,
\* and closer, by the margin, than anybody else's
KnownAs(w, f) ==
    StandsOut([p \in job[w].near[f] |-> BestSimilarity(f, job[w].known[p])])

Orders(w) ==
    LET claimed(p) == {f \in job[w].members : p \in KnownAs(w, f)}
    IN  {[person |-> p, faces |-> claimed(p)] : p \in {q \in PersonIds : claimed(q) # {}}}

MatchKnown(w) ==
    /\ At(w, "match")
    /\ job' = [job EXCEPT ![w].pc = "assign", ![w].orders = Orders(w),
                  ![w].members = @ \ UNION {o.faces : o \in Orders(w)}]
    /\ KeepsTables /\ KeepsControl

\* By id, without a second look: the face may be a user's, the person gone.  The
\* people come in the order of a map.
AssignKnown(w) ==
    /\ At(w, "assign")
    /\ \E o \in job[w].orders :
          /\ faces' = Assigned(o.faces, o.person)
          /\ job' = [job EXCEPT ![w].orders = @ \ {o}]
    /\ UNCHANGED <<scanned, shows, people, references, nextPerson>>
    /\ KeepsControl

AllKnown(w) ==
    /\ At(w, "assign") /\ job[w].orders = {}
    /\ pending' = (pending /\ job[w].members # {})
    /\ Goes(w, IF job[w].members = {} THEN "reconcile" ELSE "label")
    /\ KeepsTables
    /\ UNCHANGED <<catalogVars, mode, mgr, recluster, used>>

-------------------------------------------------------------------------------
(* Steps 2 and 3: clusters of the rest, and new people *)

\* What the service's clustering is taken for: the looks among the faces that
\* are seen often enough, and once at full size
ClustersOf(F) ==
    LET look(f) == {g \in F : g = f \/ Alike(f, g) >= MergeFloor}
    IN  {C \in {look(f) : f \in F} : /\ Cardinality(C) >= ClusterSize
                                     /\ \E f \in C : FullSize(f)}

Label(w) ==
    /\ At(w, "label")
    /\ job' = [job EXCEPT ![w].pc = "found", ![w].clusters = ClustersOf(job[w].members)]
    /\ KeepsTables /\ KeepsControl

\* The service does not label the faces: a later pass has to, pending stays.
LabelFails(w) ==
    /\ At(w, "label")
    /\ Goes(w, "reconcile")
    /\ KeepsTables /\ KeepsControl

\* matchClusterToPerson: the similarity of a cluster's centre to an exemplar is
\* taken for the mean of its members', and somewhat more, as a normalised mean's is
ClusterScore(C, exemplars) ==
    LET mean(e) == MapThenSumSet(LAMBDA f : Alike(f, e), C) \div Cardinality(C)
    IN  Max({-1} \cup {mean(exemplars[n]) + CentreGain : n \in DOMAIN exemplars})

ClusterIs(w, C) ==
    StandsOut([p \in UNION {job[w].near[f] : f \in C} |-> ClusterScore(C, job[w].known[p])])

\* The clusters are taken in the order of their first faces.
IsNext(C, clusters) == C \in clusters /\ \A D \in clusters : Min(C) <= Min(D)

\* The cluster of somebody known extends them ...
ExtendPerson(w) ==
    /\ At(w, "found")
    /\ \E C \in job[w].clusters :
          /\ IsNext(C, job[w].clusters)
          /\ \E p \in ClusterIs(w, C) : faces' = Assigned(C, p)
          /\ job' = [job EXCEPT ![w].clusters = @ \ {C}]
    /\ UNCHANGED <<scanned, shows, people, references, nextPerson>>
    /\ KeepsControl

\* ... and any other is a new person, who then gets the faces and exemplars.
CreatePerson(w) ==
    /\ At(w, "found")
    /\ nextPerson <= MaxPerson
    /\ \E C \in job[w].clusters :
          /\ IsNext(C, job[w].clusters) /\ ClusterIs(w, C) = {}
          /\ people' = WithRow(people, nextPerson,
                               [manual |-> FALSE, current |-> TRUE,
                                cover |-> CoverOf(C, job[w].solo, job[w].sized)])
    /\ nextPerson' = nextPerson + 1
    /\ job' = [job EXCEPT ![w].pc = "newcomer", ![w].newcomer = nextPerson]
    /\ UNCHANGED <<scanned, shows, faces, references>>
    /\ KeepsControl

FillPerson(w) ==
    /\ At(w, "newcomer")
    /\ \E C \in job[w].clusters :
          IsNext(C, job[w].clusters) /\ faces' = Assigned(C, job[w].newcomer)
    /\ Goes(w, "exemplars")
    /\ UNCHANGED <<scanned, shows, people, references, nextPerson>>
    /\ KeepsControl

StoreExemplars(w) ==
    /\ At(w, "exemplars")
    /\ \E C \in job[w].clusters :
          /\ IsNext(C, job[w].clusters)
          /\ references' = [references EXCEPT ![job[w].newcomer] =
                               ExemplarsOf(C, job[w].solo, job[w].sized)]
          /\ job' = [job EXCEPT ![w].pc = "found", ![w].clusters = @ \ {C}]
    /\ UNCHANGED <<scanned, shows, faces, people, nextPerson>>
    /\ KeepsControl

AllPeople(w) ==
    /\ At(w, "found") /\ job[w].clusters = {}
    /\ pending' = FALSE
    /\ Goes(w, "reconcile")
    /\ KeepsTables
    /\ UNCHANGED <<catalogVars, mode, mgr, recluster, used>>

-------------------------------------------------------------------------------
(* reconcilePeople *)

AllCurrent == \A p \in DOMAIN people : people[p].current

\* Without thresholds nobody is compared, and everybody is marked all the same.
Reconcile(w, reports) ==
    /\ At(w, "reconcile")
    /\ Goes(w, IF AllCurrent THEN "covers" ELSE IF reports THEN "round" ELSE "markAll")
    /\ KeepsTables /\ KeepsControl

\* The exemplars of everybody generated, made where there are none
Compared ==
    [p \in PersonIds |-> IF p \in Generated /\ references[p] = <<>>
                         THEN Rebuilt(p, SoloPhotos) ELSE references[p]]

Pairs(e, g) == (DOMAIN e) \X (DOMAIN g)
MedoidScore(e, g) ==
    MapThenSumSet(LAMBDA xy : Alike(e[xy[1]], g[xy[2]]), Pairs(e, g))
        \div Cardinality(Pairs(e, g))
CrossSupport(e, g) ==
    Cardinality({xy \in Pairs(e, g) : Alike(e[xy[1]], g[xy[2]]) >= SupportFloor})

\* mutant: somebody the user curated is merged like anybody else
Everybody == DOMAIN people
Mergeable == Generated

\* Two people may be one if they are alike, and not too many faces together.
MayBeOne(p, q, refs) ==
    LET most == Max({MergeFacesMin,
                     (15 * Cardinality(DOMAIN faces \ FacesOf(Nobody))) \div 100})
    IN  /\ p # q /\ refs[p] # <<>> /\ refs[q] # <<>>
        /\ Cardinality(FacesOf(p)) + Cardinality(FacesOf(q)) <= most
        /\ MedoidScore(refs[p], refs[q]) >= MergeFloor
        /\ CrossSupport(refs[p], refs[q]) >= MergeSupport

\* Everybody's best partner; only two who are each other's become one, the
\* older.
Merges(refs) ==
    LET partners(p) == {q \in Mergeable : MayBeOne(p, q, refs)}
        nearer(p, q, r) == LET s == MedoidScore(refs[p], refs[q])
                               t == MedoidScore(refs[p], refs[r])
                           IN  s > t \/ (s = t /\ q <= r)
        best(p) == CHOOSE q \in partners(p) : \A r \in partners(p) : nearer(p, q, r)
    IN  {pq \in Mergeable \X Mergeable :
            /\ pq[1] < pq[2] /\ partners(pq[1]) # {} /\ partners(pq[2]) # {}
            /\ best(pq[1]) = pq[2] /\ best(pq[2]) = pq[1]}

Round(w) ==
    /\ At(w, "round")
    /\ references' = Compared
    /\ job' = [job EXCEPT ![w].pc = IF Merges(Compared) = {} THEN "markAll" ELSE "mergeFaces",
                          ![w].merges = Merges(Compared)]
    /\ UNCHANGED <<scanned, shows, faces, people, nextPerson>>
    /\ KeepsControl

\* The survivor and who is merged away, of the merge that is next
Merging(w) ==
    {pq \in job[w].merges : \A other \in job[w].merges : pq[1] <= other[1]}

\* Manual faces of a generated person go along.
MergeFaces(w) ==
    /\ At(w, "mergeFaces")
    /\ \E pq \in Merging(w) : faces' = Assigned(FacesOf(pq[2]), pq[1])
    /\ Goes(w, "mergePerson")
    /\ UNCHANGED <<scanned, shows, people, references, nextPerson>>
    /\ KeepsControl

MergePerson(w) ==
    /\ At(w, "mergePerson")
    /\ \E pq \in Merging(w) : people' = Without(people, {pq[2]})
    /\ Goes(w, "mergeReferences")
    /\ UNCHANGED <<scanned, shows, faces, references, nextPerson>>
    /\ KeepsControl

\* ... and the survivor's exemplars are made anew.
MergeReferences(w) ==
    /\ At(w, "mergeReferences")
    /\ \E pq \in Merging(w) :
          /\ references' = [references EXCEPT ![pq[2]] = <<>>,
                                              ![pq[1]] = Rebuilt(pq[1], SoloPhotos)]
          /\ people' = [p \in DOMAIN people |->
                IF p = pq[1] THEN [people[p] EXCEPT !.current = TRUE] ELSE people[p]]
          /\ job' = [job EXCEPT ![w].merges = @ \ {pq},
                         ![w].pc = IF job[w].merges = {pq} THEN "round" ELSE "mergeFaces"]
    /\ UNCHANGED <<scanned, shows, faces, nextPerson>>
    /\ KeepsControl

MarkReconciled(w) ==
    /\ At(w, "markAll")
    /\ people' = [p \in DOMAIN people |-> [people[p] EXCEPT !.current = TRUE]]
    /\ Goes(w, "covers")
    /\ UNCHANGED <<scanned, shows, faces, references, nextPerson>>
    /\ KeepsControl

-------------------------------------------------------------------------------
(* refreshPersonCovers and deleteEmptyPeople *)

WithFaces == {p \in DOMAIN people : FacesOf(p) # {}}

ReadCovers(w, reports) ==
    /\ At(w, "covers")
    /\ job' = [job EXCEPT ![w].pc = "cover", ![w].covers =
                  [p \in WithFaces |-> CoverOf(FacesOf(p), job[w].solo, reports)]]
    /\ KeepsTables /\ KeepsControl

WriteCovers(w) ==
    /\ At(w, "cover")
    /\ people' = [p \in DOMAIN people |->
                     IF p \in DOMAIN job[w].covers
                     THEN [people[p] EXCEPT !.cover = job[w].covers[p]] ELSE people[p]]
    /\ job' = [job EXCEPT ![w].pc = IF job[w].back = "analyse" THEN "analyse" ELSE "tidy",
                          ![w].back = "none", ![w].covers = << >>]
    /\ UNCHANGED <<scanned, shows, faces, references, nextPerson>>
    /\ KeepsControl

Empty == Generated \ WithFaces

TidyReferences(w) ==
    /\ At(w, "tidy")
    /\ references' = [p \in PersonIds |-> IF p \in Empty THEN <<>> ELSE references[p]]
    /\ Goes(w, "tidyPeople")
    /\ UNCHANGED <<scanned, shows, faces, people, nextPerson>>
    /\ KeepsControl

TidyPeople(w) ==
    /\ At(w, "tidyPeople")
    /\ people' = Without(people, Empty)
    /\ job' = [job EXCEPT ![w] = [NoJob EXCEPT !.pc = "wait", !.stop = job[w].stop]]
    /\ UNCHANGED <<scanned, shows, faces, references, nextPerson>>
    /\ KeepsControl

-------------------------------------------------------------------------------
(* The surroundings *)

User(u) == (UserAsks(u) \/ UserWrites(u)) /\ UNCHANGED <<control, job, used>>

\* A scan records that the file has changed: faces_scan_version is empty again.
PhotoChanged(i) ==
    /\ used.changes < MaxTouches
    /\ i \in scanned
    /\ scanned' = scanned \ {i}
    /\ used' = [used EXCEPT !.changes = @ + 1]
    /\ UNCHANGED <<shows, faces, people, references, nextPerson, catalogVars, control, job>>

\* Who is deleted as a row, merged into somebody, and has their exemplars still
HalfMerged == {pq[2] : pq \in UNION {Merging(w) : w \in {v \in Loops : At(v, "mergeReferences")}}}

\* The process is killed and started again, perhaps by a release with another
\* analyser and clustering generation, perhaps told to cluster everything anew.
Relaunch(release, anew) ==
    /\ used.restarts < MaxRestarts
    /\ used' = [used EXCEPT !.restarts = @ + 1, !.cut = @ \cup HalfMerged]
    /\ mgr' = NewManager
    /\ pending' = TRUE
    /\ recluster' = anew
    /\ job' = [w \in Loops |-> NoJob]
    /\ request' = [u \in Users |-> NoRequest]
    /\ scanned' = IF release THEN {} ELSE scanned
    /\ people' = [p \in DOMAIN people |-> [people[p] EXCEPT !.current = @ /\ ~release]]
    /\ UNCHANGED <<shows, faces, references, nextPerson, made, mode>>

Work(w) ==
    \/ BeginPass(w) \/ Again(w) \/ Leave(w)
    \/ ResetFaces(w) \/ ResetReferences(w) \/ ResetPeople(w)
    \/ Detach(w, TRUE) \/ RebuildDetached(w)
    \/ Dispatch(w, {}) \/ Outcome(w, {}) \/ Apply(w) \/ MarkScanned(w)
    \/ AbandonPass(w) \/ Analysed(w)
    \/ Snapshot(w, TRUE, TRUE) \/ MatchKnown(w) \/ AssignKnown(w) \/ AllKnown(w)
    \/ Label(w) \/ ExtendPerson(w) \/ CreatePerson(w) \/ FillPerson(w) \/ StoreExemplars(w)
    \/ AllPeople(w) \/ Reconcile(w, TRUE) \/ Round(w)
    \/ MergeFaces(w) \/ MergePerson(w) \/ MergeReferences(w) \/ MarkReconciled(w)
    \/ ReadCovers(w, TRUE) \/ WriteCovers(w) \/ TidyReferences(w) \/ TidyPeople(w)

\* The service, a file or the vector store fails.
Fault(w) ==
    \/ Detach(w, FALSE) \/ Snapshot(w, FALSE, FALSE) \/ Snapshot(w, TRUE, FALSE)
    \/ Reconcile(w, FALSE) \/ ReadCovers(w, FALSE) \/ LabelFails(w) \/ RequestFails(w)
    \/ \E S \in SUBSET Images : S # {} /\ (Dispatch(w, S) \/ Outcome(w, S))

RecognitionNext ==
    \/ \E w \in Loops : Start(w) \/ Work(w) \/ Fault(w)
    \/ \E u \in Users : User(u)
    \/ \E i \in Images : PhotoChanged(i)
    \/ \E release, anew \in BOOLEAN : Relaunch(release, anew)
    \/ StopRecognition

RecognitionSpec == RecognitionInit /\ [][RecognitionNext]_recognitionVars

-------------------------------------------------------------------------------
(* Properties *)

Steps == {"idle", "loop", "wait", "reset", "resetReferences", "resetPeople", "detach",
          "rebuild", "analyse", "mark", "cluster", "match", "assign", "label", "found",
          "newcomer", "exemplars", "reconcile", "round", "mergeFaces", "mergePerson",
          "mergeReferences", "markAll", "covers", "cover", "tidy", "tidyPeople"}

JobTypeOK(j) ==
    /\ j.pc \in Steps
    /\ j.cursor \in Images \cup {0} /\ j.exhausted \in BOOLEAN
    /\ j.flights \subseteq SUBSET Images /\ Cardinality(j.flights) <= BatchConcurrency
    /\ j.solo \subseteq Images /\ j.sized \in BOOLEAN
    /\ j.clusters \subseteq SUBSET DOMAIN shows \ {{}}
    /\ \A o \in j.orders : o.person \in 1 .. nextPerson - 1 /\ o.faces \subseteq DOMAIN shows

\* Every row of the tables, every request and what a pass holds has its type;
\* ids are only ever those given out (domain/faces.go, manager.go).
TypeOK ==
    /\ TablesTypeOK /\ CatalogTypeOK
    /\ mode \in {"store", "memory"} /\ mgr \in Manager
    /\ {pending, recluster} \subseteq BOOLEAN
    /\ \A w \in Loops : JobTypeOK(job[w])

Resting(w) == job[w].pc \in {"idle", "loop", "wait"}

\* A pass has run to its end, and nothing else is going on.
AtRest ==
    /\ \A w \in Loops : Resting(w)
    /\ \E w \in Loops : At(w, "wait") /\ ~Stopped(w)
    /\ request = [u \in Users |-> NoRequest]

\* Every face's person exists, but for those whom a crash cut off.
NoFaceOfAStranger ==
    \A f \in DOMAIN faces : faces[f].person \in DOMAIN people \cup {Nobody} \cup used.cut

\* Nobody who is gone has exemplars, but for them.
NoExemplarsOfAStranger ==
    \A p \in PersonIds : references[p] # <<>> => p \in DOMAIN people \cup used.cut

\* A face that shows somebody is theirs.
CoversAgree ==
    \A p \in DOMAIN people : people[p].cover \in DOMAIN faces => people[p].cover \in FacesOf(p)

\* Whoever has faces is shown by one.
AllAreShown == \A p \in WithFaces : people[p].cover \in FacesOf(p)

Same(f, g) == f = g \/ Alike(f, g) >= MergeFloor

\* Two faces that are one look and both assigned are one person's.
OnePersonPerLook ==
    \A f, g \in DOMAIN faces \ FacesOf(Nobody) :
        Same(f, g) => faces[f].person = faces[g].person

\* The job deletes nobody whom the user made, named or merged, and takes from
\* them and from what the user detached no face that is still there.
CurationIsKept ==
    /\ \A p \in DOMAIN people \ Generated : p \in DOMAIN people' /\ people'[p].manual
    /\ \A f \in DOMAIN faces \cap DOMAIN faces' :
          faces[f].manual /\ faces[f].person \notin Generated => faces'[f] = faces[f]

\* A face that the user assigned or detached keeps its person.  The job does not
\* hold to that where the person is generated: a re-clustering and a merging of
\* people take such faces along.
AssignmentIsKept ==
    \A f \in DOMAIN faces \cap DOMAIN faces' :
        faces[f].manual => faces'[f].person = faces[f].person

\* The faces the service makes a person of
Clusterable == UNION ClustersOf({f \in Loose : ~Small(f)})
===============================================================================
