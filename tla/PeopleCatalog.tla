----------------------------- MODULE PeopleCatalog -----------------------------
(***************************************************************************)
(* The people catalogue: a user renames, merges, creates and disbands      *)
(* people and assigns or detaches a face (application/people/catalog.go,   *)
(* handlers_faces.go).                                                     *)
(*                                                                         *)
(* A request reads what it needs, statement by statement and outside any   *)
(* transaction, and then writes in one transaction.  It is two steps here, *)
(* its reads and its transaction; a request that is refused after its      *)
(* reads changes nothing and is left out.                                  *)
(***************************************************************************)
EXTENDS Integers, FiniteSets, SequencesExt

-------------------------------------------------------------------------------
(***************************************************************************)
(* The tables that face recognition and the people catalogue share: faces, *)
(* people and the exemplars (person_references) by which a later pass      *)
(* recognises a person (domain/faces.go, domain/repository/                *)
(* person_ref_repo.go), with the choices both make among faces.            *)
(*                                                                         *)
(* A face in a photo is what the analyser sees there, a detection: its     *)
(* photo, its size class by the floors that the faces service reports, its *)
(* confidence, and its similarity to others are constants.  The photo is   *)
(* analysed again into new rows of the same detections.                    *)
(***************************************************************************)
CONSTANTS
    Images,         \* image_files.id
    Detections,     \* what there is to detect in the photos, in their order
    PhotoOf,        \* [Detections -> Images]
    SizeOf,         \* [Detections -> {"small", "weak", "full"}]
    ConfidenceOf,   \* [Detections -> Nat]
    Similarity,     \* [Detections -> [Detections -> Nat]], of two embeddings
    ExemplarLimit,  \* exemplars that one person keeps
    MaxFace,        \* bound: rows of faces ever inserted
    MaxPerson       \* bound: rows of people ever inserted

ASSUME TablesOK ==
    /\ Detections \subseteq Nat /\ IsFiniteSet(Detections)
    /\ PhotoOf \in [Detections -> Images]
    /\ SizeOf \in [Detections -> {"small", "weak", "full"}]
    /\ ConfidenceOf \in [Detections -> Nat]
    /\ Similarity \in [Detections -> [Detections -> Nat]]
    /\ ExemplarLimit \in Nat \ {0} /\ MaxFace \in Nat /\ MaxPerson \in Nat

VARIABLES
    scanned,     \* photos whose faces_scan_version is the analyser's
    shows,       \* the detection that each faces.id ever given out was given to
    faces,       \* faces.id -> person_id, manual_assignment
    people,      \* people.id -> manual, cover_face_id, cluster_version current
    references,  \* person_id -> exemplars in the order of their ids
    nextPerson   \* the next people.id

tables == <<scanned, shows, faces, people, references, nextPerson>>

FaceIds == 1 .. MaxFace
PersonIds == 1 .. MaxPerson
Nobody == 0
NoCover == 0

Face == [person : PersonIds \cup {Nobody}, manual : BOOLEAN]
Person == [manual : BOOLEAN, cover : FaceIds \cup {NoCover}, current : BOOLEAN]

TablesTypeOK ==
    /\ scanned \subseteq Images
    /\ shows \in Seq(Detections) /\ Len(shows) <= MaxFace
    /\ DOMAIN faces \subseteq DOMAIN shows
    /\ \A f \in DOMAIN faces : faces[f] \in Face
    /\ nextPerson \in 1 .. MaxPerson + 1
    /\ DOMAIN people \subseteq 1 .. nextPerson - 1
    /\ \A p \in DOMAIN people : people[p] \in Person
    /\ references \in [PersonIds -> Seq(DOMAIN shows)]
    /\ \A p \in PersonIds :
        /\ Len(references[p]) <= ExemplarLimit
        /\ p >= nextPerson => references[p] = <<>>

EmptyTables ==
    /\ scanned = {}
    /\ shows = << >>
    /\ faces = << >>
    /\ people = << >>
    /\ references = [p \in PersonIds |-> <<>>]
    /\ nextPerson = 1

-------------------------------------------------------------------------------
(* Queries *)

FacesOf(p) == {f \in DOMAIN faces : faces[f].person = p}
FacesOfPhoto(i) == {f \in DOMAIN faces : PhotoOf[shows[f]] = i}
Generated == {p \in DOMAIN people : ~people[p].manual}

\* imageFaceCounts, as far as it is asked: the photos with one face
SoloPhotos == {i \in Images : Cardinality(FacesOfPhoto(i)) <= 1}

\* Several rows updated, as the statements do: rows that are gone are skipped
Assigned(F, p) ==
    [f \in DOMAIN faces |-> IF f \in F THEN [faces[f] EXCEPT !.person = p] ELSE faces[f]]
Curated(F, p) ==
    [f \in DOMAIN faces |->
        IF f \in F THEN [faces[f] EXCEPT !.person = p, !.manual = TRUE] ELSE faces[f]]
Without(table, rows) == [r \in DOMAIN table \ rows |-> table[r]]
WithRow(table, r, row) == [q \in DOMAIN table \cup {r} |-> IF q = r THEN row ELSE table[q]]

-------------------------------------------------------------------------------
(* Choices among faces *)

Confidence(f) == ConfidenceOf[shows[f]]
FullSize(f) == SizeOf[shows[f]] = "full"

\* chooseCover's order of two members: full-size, on a photo of their own,
\* confident, first.  Without the service's floors every face is full-size.
CoversBetter(f, g, solo, sized) ==
    LET full(x) == sized => FullSize(x)
        alone(x) == PhotoOf[shows[x]] \in solo
    IN  IF full(f) # full(g) THEN full(f)
        ELSE IF alone(f) # alone(g) THEN alone(f)
        ELSE IF Confidence(f) # Confidence(g) THEN Confidence(f) > Confidence(g)
        ELSE f < g

CoverOf(F, solo, sized) ==
    CHOOSE f \in F : \A g \in F \ {f} : CoversBetter(f, g, solo, sized)

FirstFew(seq) == SubSeq(seq, 1, IF Len(seq) < ExemplarLimit THEN Len(seq) ELSE ExemplarLimit)

\* mutant: people are left without exemplars
NoExemplars(F, solo, sized) == <<>>

\* replaceReferences: full-size faces if there are any, those alone on their
\* photo first, then by confidence
ExemplarsOf(F, solo, sized) ==
    LET full == {f \in F : sized => FullSize(f)}
        kept == IF full # {} THEN full ELSE F
        before(f, g) ==
            LET alone(x) == PhotoOf[shows[x]] \in solo
            IN  IF alone(f) # alone(g) THEN alone(f)
                ELSE IF Confidence(f) # Confidence(g) THEN Confidence(f) > Confidence(g)
                ELSE f < g
    IN  FirstFew(SetToSortSeq(kept, before))

\* chooseExemplars: the most confident face of each photo, by confidence
ChosenExemplars(F) ==
    LET surer(f, g) ==
            IF Confidence(f) # Confidence(g) THEN Confidence(f) > Confidence(g) ELSE f < g
        best == {f \in F : \A g \in F \ {f} :
                    PhotoOf[shows[g]] = PhotoOf[shows[f]] => surer(f, g)}
    IN  FirstFew(SetToSortSeq(best, surer))

\* cosineSimilarity of the embeddings of two faces
Alike(f, g) == Similarity[shows[f]][shows[g]]

\* bestSimilarity of a face to a set of exemplars, -1 when it is empty
BestSimilarity(f, exemplars) ==
    Max({-1} \cup {Alike(f, exemplars[n]) : n \in DOMAIN exemplars})

-------------------------------------------------------------------------------
(* The catalogue *)

CONSTANTS
    Users,       \* requests that may be handled at once
    MaxRequests  \* bound: requests ever made

VARIABLES
    request,  \* what each handler holds between its reads and its transaction
    made      \* history: how many requests were made

catalogVars == <<request, made>>

NoRequest == [op |-> "none"]

CatalogRequest ==
    {NoRequest}
    \cup [op : {"rename", "disband"}, person : PersonIds]
    \cup [op : {"lock"}, face : FaceIds]
    \cup [op : {"merge"}, person : PersonIds, sources : SUBSET PersonIds,
          union : Seq(FaceIds), cover : FaceIds \cup {NoCover}]
    \cup [op : {"create"}, faces : SUBSET FaceIds, chosen : Seq(FaceIds), cover : FaceIds]
    \cup [op : {"assign"}, face : FaceIds, person : PersonIds \cup {Nobody},
          previous : PersonIds \cup {Nobody}, promotes : BOOLEAN,
          before : Seq(FaceIds), after : Seq(FaceIds)]

CatalogTypeOK ==
    /\ request \in [Users -> CatalogRequest]
    /\ made \in 0 .. MaxRequests

NoRequests == request = [u \in Users |-> NoRequest] /\ made = 0

Asks(u, r) ==
    /\ request[u] = NoRequest
    /\ made < MaxRequests
    /\ request' = [request EXCEPT ![u] = r]
    /\ made' = made + 1
    /\ UNCHANGED tables

Responded(u) ==
    /\ request' = [request EXCEPT ![u] = NoRequest]
    /\ UNCHANGED <<made, scanned, shows>>

-------------------------------------------------------------------------------
(* Exemplars of people who change *)

\* mergeReferenceSets: the first exemplar of each face, up to the limit
MergedSets(sets) ==
    LET add(seq, f) == IF Contains(seq, f) THEN seq ELSE Append(seq, f)
    IN  FirstFew(FoldLeft(add, <<>>, FlattenSeq(sets)))

DropFace(exemplars, f) == SelectSeq(exemplars, LAMBDA e : e # f)

\* mutant: the set is not bounded
AppendAny(exemplars, f) == Append(DropFace(exemplars, f), f)

\* appendFaceExemplar: the new one is last, and is what the limit cuts off
AppendFace(exemplars, f) == FirstFew(Append(DropFace(exemplars, f), f))

-------------------------------------------------------------------------------
(* What the handlers read *)

AskRename(u) == \E p \in DOMAIN people : Asks(u, [op |-> "rename", person |-> p])

AskDisband(u) == \E p \in DOMAIN people : Asks(u, [op |-> "disband", person |-> p])

\* The cover of a target without one is that of the first source that has one
MergedCover(order) ==
    LET with == SelectSeq(order, LAMBDA p : people[p].cover # NoCover)
    IN  IF with = <<>> THEN NoCover ELSE people[Head(with)].cover

AskMerge(u) ==
    \E target \in DOMAIN people :
    \E sources \in SUBSET (DOMAIN people \ {target}) \ {{}} :
    \E order \in SetToSeqs(sources) :
        Asks(u, [op |-> "merge", person |-> target, sources |-> sources,
                 union |-> MergedSets([n \in 1 .. Len(order) + 1 |->
                     references[IF n = 1 THEN target ELSE order[n - 1]]]),
                 cover |-> MergedCover(<<target>> \o order)])

\* Only faces that nobody has may found a person
AskCreate(u) ==
    \E F \in SUBSET FacesOf(Nobody) \ {{}} :
        LET chosen == ChosenExemplars(F)
        IN  Asks(u, [op |-> "create", faces |-> F, chosen |-> chosen,
                     cover |-> Head(chosen)])

\* A face of a person who is gone cannot be assigned: the person is looked up
AskAssign(u) ==
    \E f \in DOMAIN faces, p \in DOMAIN people \cup {Nobody} :
        LET previous == faces[f].person
        IN  \/ /\ previous = p
               /\ Asks(u, [op |-> "lock", face |-> f])
            \/ /\ previous \in (DOMAIN people \cup {Nobody}) \ {p}
               /\ Asks(u, [op |-> "assign", face |-> f, person |-> p, previous |-> previous,
                     promotes |-> previous # Nobody /\ people[previous].cover = f,
                     before |-> IF previous = Nobody THEN <<>>
                                ELSE DropFace(references[previous], f),
                     after |-> IF p = Nobody THEN <<>> ELSE AppendFace(references[p], f)])

-------------------------------------------------------------------------------
(* Their transactions *)

\* Rename: any name, also none, makes the person the user's
Rename(u) ==
    LET r == request[u]
    IN  /\ r.op = "rename"
        /\ people' = IF r.person \in DOMAIN people
                     THEN [people EXCEPT ![r.person].manual = TRUE] ELSE people
        /\ Responded(u)
        /\ UNCHANGED <<faces, references, nextPerson>>

\* Merge locks the faces of all of them, the target's too
Locked(r) == r.sources \cup {r.person}

Merge(u) ==
    LET r == request[u]
        F == UNION {FacesOf(p) : p \in r.sources}
    IN  /\ r.op = "merge"
        /\ faces' = [f \in DOMAIN faces |->
                [faces[f] EXCEPT !.person = IF f \in F THEN r.person ELSE @,
                                 !.manual = @ \/ faces[f].person \in Locked(r)]]
        /\ people' = Without(
                IF r.person \in DOMAIN people
                THEN [people EXCEPT ![r.person] = [@ EXCEPT !.manual = TRUE, !.cover = r.cover]]
                ELSE people, r.sources)
        /\ references' = [p \in PersonIds |->
                IF p = r.person THEN r.union ELSE IF p \in r.sources THEN <<>>
                ELSE references[p]]
        /\ Responded(u)
        /\ UNCHANGED nextPerson

\* The faces are not looked at again: one that has a person by now changes hands
CreateFromFaces(u) ==
    LET r == request[u]
        new == nextPerson
    IN  /\ r.op = "create"
        /\ new <= MaxPerson
        /\ people' = WithRow(people, new,
                             [manual |-> TRUE, cover |-> r.cover, current |-> FALSE])
        /\ faces' = Curated(r.faces, new)
        /\ references' = [references EXCEPT ![new] = r.chosen]
        /\ nextPerson' = new + 1
        /\ Responded(u)

Disband(u) ==
    LET r == request[u]
    IN  /\ r.op = "disband"
        /\ faces' = Curated(FacesOf(r.person), Nobody)
        /\ references' = [references EXCEPT ![r.person] = <<>>]
        /\ people' = Without(people, {r.person})
        /\ Responded(u)
        /\ UNCHANGED nextPerson

\* AssignFace to the person the face has already
LockFace(u) ==
    LET r == request[u]
    IN  /\ r.op = "lock"
        /\ faces' = [f \in DOMAIN faces |->
                IF f = r.face THEN [faces[f] EXCEPT !.manual = TRUE] ELSE faces[f]]
        /\ Responded(u)
        /\ UNCHANGED <<people, references, nextPerson>>

\* promoteCover: the oldest face the previous person has left
Promoted(r) ==
    LET left == {f \in FacesOf(r.previous) : f # r.face}
    IN  IF r.promotes /\ r.previous \in DOMAIN people
        THEN [people EXCEPT ![r.previous].cover = IF left = {} THEN NoCover ELSE Min(left)]
        ELSE people

AssignFace(u) ==
    LET r == request[u]
    IN  /\ r.op = "assign"
        /\ faces' = Curated({r.face}, r.person)
        /\ people' = Promoted(r)
        /\ references' = [p \in PersonIds |->
                IF p = r.person THEN r.after ELSE IF p = r.previous THEN r.before
                ELSE references[p]]
        /\ Responded(u)
        /\ UNCHANGED nextPerson

-------------------------------------------------------------------------------

UserAsks(u) ==
    AskRename(u) \/ AskDisband(u) \/ AskMerge(u) \/ AskCreate(u) \/ AskAssign(u)

UserWrites(u) ==
    Rename(u) \/ Merge(u) \/ CreateFromFaces(u) \/ Disband(u) \/ LockFace(u) \/ AssignFace(u)
===============================================================================
